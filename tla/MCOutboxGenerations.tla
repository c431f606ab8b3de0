------------------------- MODULE MCOutboxGenerations ------------------------
(* A broadcast root whose only child competes for the member's slot with an    *)
(* attempt that is already there.                                              *)
EXTENDS NotificationOutbox, TLC

CONSTANTS root, child, prior, member, p1, d1, d2

MCChildrenOf == root :> {child}
MCSlotOf == [i \in {child, prior} |-> member] @@ [i \in {root} |-> NoSlot]
MCProcOf == [d \in {d1, d2} |-> p1]

\* The history of effects bears on nothing this run looks at.
MCView == <<clock, row, proc, drain>>

MCSymmetry == Permutations({d1, d2})
=============================================================================
