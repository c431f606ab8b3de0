--------------------------- MODULE MCOutboxLease ---------------------------
(* One intent, two attempts in one process (an HTTP drain beside the loop) and *)
(* one in another.                                                             *)
EXTENDS NotificationOutbox, TLC

CONSTANTS intent, p1, p2, d1, d2, d3

MCSlotOf == [i \in {intent} |-> NoSlot]
MCChildrenOf == [r \in {} |-> {}]
MCProcOf == (d1 :> p1) @@ (d2 :> p1) @@ (d3 :> p2)
=============================================================================
