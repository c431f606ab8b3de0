--------------------------- MODULE ObjectLifecycle ---------------------------
(***************************************************************************)
(* What the storage ledger promises about one stored file, with no worker, *)
(* lease, operation row, signed URL or retry in sight.  A file is first    *)
(* meant, then kept for an attachment; a decision to delete it is never    *)
(* taken back; once gone it stays gone.  The application removes stored    *)
(* bytes only after that decision, and a file is kept only while there are *)
(* bytes, unless something outside the application has lost them.          *)
(***************************************************************************)

VARIABLES
    stage,   \* "meant", "kept", "doomed" or "gone"
    bytes,   \* "none", "good" or "bad": what the provider holds
    lost     \* the bytes disappeared without the application

vars == <<stage, bytes, lost>>

Init ==
    /\ stage \in {"meant", "kept"}
    /\ bytes \in {"none", "good", "bad"}
    /\ lost = (stage = "kept" /\ bytes = "none")

\* A client puts or replaces the bytes under a signed URL.
Put ==
    /\ bytes' \in {"good", "bad"}
    /\ UNCHANGED <<stage, lost>>

Keep ==
    /\ stage = "meant" /\ (bytes # "none" \/ lost)
    /\ stage' = "kept"
    /\ UNCHANGED <<bytes, lost>>

\* An operator points the ledger at another copy.
Restore ==
    /\ stage = "kept"
    /\ bytes' = "good" /\ lost' = FALSE
    /\ UNCHANGED stage

Doom ==
    /\ stage \in {"meant", "kept"}
    /\ stage' = "doomed"
    /\ UNCHANGED <<bytes, lost>>

Remove ==
    /\ stage \in {"doomed", "gone"}
    /\ bytes' = "none"
    /\ UNCHANGED <<stage, lost>>

\* Nothing was ever stored, or the deletion is complete.
Finish ==
    /\ \/ stage = "meant" /\ bytes = "none"
       \/ stage = "doomed"
    /\ stage' = "gone"
    /\ UNCHANGED <<bytes, lost>>

Lose ==
    /\ bytes' = "none" /\ lost' = TRUE
    /\ UNCHANGED stage

Next == Put \/ Keep \/ Restore \/ Doom \/ Remove \/ Finish \/ Lose

Spec == Init /\ [][Next]_vars
=============================================================================
