----------------------------- MODULE MCLedgerJob -----------------------------
(* One job of two chunks, and two rounds that may hold it by turns. *)
EXTENDS LedgerPosting, TLC

CONSTANTS a, m1, m2, w1, w2

MCChunks == a :> 2
MCPart == a :> <<{m1}, {m2}>>
MCPoints == a :> (m1 :> 1 @@ m2 :> 1)
=============================================================================
