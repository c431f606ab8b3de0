-------------------------- MODULE MCStorageObjects --------------------------
(* Two workers and one HTTP request on one object, with one user who deletes, *)
(* one relocation and one attestation.                                        *)
EXTENDS StorageObjects
=============================================================================
