--------------------------- MODULE MCAuthRotation ---------------------------
(* One user with a password and a WeCom account: sessions, rotation, logout   *)
(* and the changes of credentials, with two requests at a time.  The account  *)
(* can be bound and cleared once, so that an old proof meets it as it was.    *)
EXTENDS AuthSessions, TLC

MCMaxVersion == [k \in Kind |-> IF k = "wecom" THEN 2 ELSE 1]
Symmetry == Permutations(Token) \cup Permutations(Request)
=============================================================================
