---------------------------- MODULE AtomicPosting ----------------------------
(***************************************************************************)
(* What the settlement ledger promises: a batch is posted as a whole, at   *)
(* most once, and each of its members is credited the recognised points    *)
(* up to what the daily cap leaves at that very moment.  No job, lease,    *)
(* chunk, baseline or retry is in sight.                                   *)
(***************************************************************************)
EXTENDS Integers

CONSTANTS
    Batches,     \* posting batches, one per approved settlement version
    Members,     \* members, on the one ledger day of the model
    Crew,        \* [Batches -> SUBSET Members]
    Points,      \* [Batches -> [Members -> Nat]]: recognised points
    Cap          \* the daily cap

VARIABLES
    posted,      \* batches whose entries count
    total        \* [Members -> Nat]: points credited for the day

vars == <<posted, total>>

Credit(points, sofar) == IF points < Cap - sofar THEN points ELSE Cap - sofar

Init == posted = {} /\ total = [m \in Members |-> 0]

Post(b) ==
    /\ b \notin posted
    /\ posted' = posted \cup {b}
    /\ total' = [m \in Members |-> IF m \in Crew[b]
                                   THEN total[m] + Credit(Points[b][m], total[m])
                                   ELSE total[m]]

Next == \E b \in Batches : Post(b)

Spec == Init /\ [][Next]_vars
=============================================================================
