------------------------------ MODULE Sessions ------------------------------
(***************************************************************************)
(* What the account system promises about sessions.  A session is opened   *)
(* under a credential its user has at that moment, it may be closed at any *)
(* time, and it never opens again.  An account that changes - a password,  *)
(* an identity, its status - closes every session of its user in the same  *)
(* step.  Tokens, rotation, replay and locks are not in sight.             *)
(***************************************************************************)
CONSTANTS
    User,
    Session,
    Credential,   \* what a session can be opened under
    None

VARIABLES
    account,      \* [User -> SUBSET Credential]: the credentials that count
    session       \* None, or the session's user, credential and openness

vars == <<account, session>>

Sessions == [user : User, under : Credential, open : BOOLEAN]

Init ==
    /\ account = [u \in User |-> {}]
    /\ session = [s \in Session |-> None]

Open(s, u, c) ==
    /\ session[s] = None
    /\ session' = [session EXCEPT ![s] = [user |-> u, under |-> c, open |-> TRUE]]
    /\ UNCHANGED account

Existing == {s \in Session : session[s] # None}

\* Sessions keep what they are, or lose their openness.
OnlyCloses ==
    session' = [s \in Session |-> IF s \in Existing
                                  THEN [session[s] EXCEPT !.open = @ /\ session'[s].open]
                                  ELSE None]

Close == OnlyCloses /\ UNCHANGED account

Change ==
    /\ account' \in [User -> SUBSET Credential]
    /\ OnlyCloses
    /\ \A s \in Existing :
          account'[session[s].user] # account[session[s].user] => ~session'[s].open

Next ==
    \/ Close
    \/ Change
    \/ \E s \in Session, u \in User : \E c \in account[u] : Open(s, u, c)

Spec == Init /\ [][Next]_vars
=============================================================================
