--------------------------- MODULE MCAuthIdentity ---------------------------
(* Two users and one phone number, which moves between them as it is bound,   *)
(* cleared and left by a deleted or reopened account; and one openid, which   *)
(* can also be bound with the phone before signing in.                        *)
EXTENDS AuthSessions, TLC

MCMaxVersion == [k \in Kind |-> IF k = "phone" THEN 1 ELSE 0]
Symmetry == Permutations(User) \cup Permutations(Token)
=============================================================================
