------------------------- MODULE MCLedgerContention -------------------------
(* Two batches credit the same member on the same day; the second has another *)
(* member as well.  Together they ask for more than the cap.                  *)
EXTENDS LedgerPosting, TLC

CONSTANTS b1, b2, m1, m2, w1, w2

MCChunks == (b1 :> 1) @@ (b2 :> 2)
MCPart == (b1 :> <<{m1}>>) @@ (b2 :> <<{m1}, {m2}>>)
MCPoints == (b1 :> (m1 :> 3 @@ m2 :> 0)) @@ (b2 :> (m1 :> 2 @@ m2 :> 1))
=============================================================================
