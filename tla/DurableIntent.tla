---------------------------- MODULE DurableIntent ----------------------------
(***************************************************************************)
(* What the transactional outbox promises about one durable intent, with   *)
(* no worker, lease, clock or transaction in sight: the registered life    *)
(* cycle of notification_outbox_intents.  An intent is tried a bounded     *)
(* number of times, a deferral hands a try back, and "succeeded" and       *)
(* "dead" are final.                                                       *)
(***************************************************************************)
EXTENDS Naturals

CONSTANTS
    Intents,      \* event keys: one row of the table each
    Deferrable,   \* the intents whose try may be handed back (broadcast roots)
    MaxAttempts   \* OUTBOX_MAX_ATTEMPTS

VARIABLES
    status,       \* where each intent is in its life
    tries         \* attempts charged to each intent

vars == <<status, tries>>

Init == /\ status = [i \in Intents |-> "absent"]
        /\ tries  = [i \in Intents |-> 0]

Move(i, from, to, n) ==
    /\ status[i] \in from
    /\ status' = [status EXCEPT ![i] = to]
    /\ tries'  = [tries EXCEPT ![i] = n]

\* One transaction may create several intents: a root expands to all its children.
Create == \E I \in SUBSET Intents :
    /\ \A i \in I : status[i] = "absent"
    /\ status' = [i \in Intents |-> IF i \in I THEN "pending" ELSE status[i]]
    /\ UNCHANGED tries

\* A claim first buries every intent that crashed in its last try.
Try == \E I \in SUBSET Intents, J \in SUBSET Intents :
    /\ \A i \in I : status[i] = "processing" /\ tries[i] = MaxAttempts
    /\ \A i \in J : status[i] \in {"pending", "processing"} /\ tries[i] < MaxAttempts
    /\ status' = [i \in Intents |-> IF i \in I THEN "dead"
                                    ELSE IF i \in J THEN "processing" ELSE status[i]]
    /\ tries' = [i \in Intents |-> IF i \in J THEN tries[i] + 1 ELSE tries[i]]

Succeed == \E i \in Intents : Move(i, {"processing"}, "succeeded", tries[i])
Abandon == \E i \in Intents : Move(i, {"processing"}, "dead", tries[i])
Retry   == \E i \in Intents : /\ tries[i] < MaxAttempts
                              /\ Move(i, {"processing"}, "pending", tries[i])
Defer   == \E i \in Deferrable : /\ tries[i] > 0
                                 /\ Move(i, {"processing"}, "pending", tries[i] - 1)

Next == Create \/ Try \/ Succeed \/ Abandon \/ Retry \/ Defer

Spec == Init /\ [][Next]_vars
=============================================================================
