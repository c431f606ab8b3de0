----------------------------- MODULE MCSmsCodes -----------------------------
(* One phone and two purposes, with a midnight on the way. *)
EXTENDS SmsCodes, TLC

Symmetry == Permutations(Code) \cup Permutations(Issuer)
              \cup Permutations(Verifier) \cup Permutations(Purpose)
=============================================================================
