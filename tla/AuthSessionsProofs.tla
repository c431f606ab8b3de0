------------------------- MODULE AuthSessionsProofs -------------------------
(***************************************************************************)
(* Proofs about AuthSessions, for any users, tokens, requests, identities  *)
(* and values.  Nearly every transaction only revokes tokens; the proofs   *)
(* establish that shape once per action (Shrinks) and reason about it once *)
(* per invariant.  What is left is the creation of a session and the       *)
(* rotation of a token.                                                    *)
(***************************************************************************)
EXTENDS AuthSessions, TLAPS

\* The first row of a family names it and agrees with the others on the user
\* and the credential.
FamiliesAgree ==
    \A t \in Token : Exists(t) =>
        LET f == token[t].family IN
        Exists(f) /\ token[f].family = f /\ token[f].user = token[t].user /\ token[f].under = token[t].under

\* Rows are never deleted: what was presented is still there.
PresentedExist ==
    \A r \in Request : req[r].pc \in {"refresh", "logout"} => Exists(req[r].token)

\* A WeCom proof is not newer than the identity, and a stale one is older.
ProofsAge ==
    \A r \in Request :
        /\ r \in stale => req[r].pc = "bind"
        /\ req[r].pc = "bind" /\ req[r].kind = "wecom" =>
             LET seen == req[r].proof.version["wecom"]
                 now  == version[req[r].user]["wecom"]
             IN  seen <= now /\ (r \in stale => seen < now)

\* Only families that were opened expire.
ExpiredExist == \A f \in expired : Exists(f)

IndInv ==
    TypeOK /\ OneLivePerFamily /\ LiveIsEntitled /\ FamiliesAgree /\ PresentedExist /\ ProofsAge
    /\ ExpiredExist

-----------------------------------------------------------------------------
(* The shape of a transaction that issues nothing                          *)

OnlyRevokes ==
    /\ DOMAIN token' = Token
    /\ token' = [t \in Token |-> token'[t]]
    /\ \A t \in Token :
         \/ token'[t] = token[t]
         \/ Exists(t) /\ token'[t] = [token[t] EXCEPT !.revoked = TRUE]

Kept(u) == status'[u] = status[u] /\ factor'[u] = factor[u] /\ version'[u] = version[u]

\* No row becomes usable, and who changes has none left.
Shrinks ==
    /\ OnlyRevokes
    /\ expired \subseteq expired'
    /\ \A u \in User : Kept(u) \/ \A t \in Token : Usable(t)' => token[t].user # u

\* Revoking rows that exist only revokes.
LEMMA RevokedShape ==
  ASSUME TypeOK, NEW T \in SUBSET Token, \A t \in T : Exists(t), token' = Revoked(T)
  PROVE  OnlyRevokes /\ \A t \in T : ~Unrevoked(t)'
<1>1. \A t \in T : token[t] \in Row
  BY DEF TypeOK, Exists
<1>2. \A t \in T : token'[t] = [token[t] EXCEPT !.revoked = TRUE] /\ token'[t].revoked
  BY <1>1 DEF Revoked, Row
<1> QED
  BY <1>2 DEF Revoked, OnlyRevokes, Unrevoked

LEMMA RevokeAllShape ==
  ASSUME TypeOK, NEW u \in User, RevokeAll(u), expired \subseteq expired'
  PROVE  OnlyRevokes /\ \A t \in Token : Usable(t)' => token[t].user # u
<1>1. \A t \in TokensOf(u) : Exists(t)
  BY DEF TokensOf, Usable, Unrevoked
<1>2. TokensOf(u) \in SUBSET Token /\ token' = Revoked(TokensOf(u))
  BY DEF TokensOf, RevokeAll
<1>3. OnlyRevokes /\ \A t \in TokensOf(u) : ~Unrevoked(t)'
  BY <1>1, <1>2, RevokedShape
<1>4. ASSUME NEW t \in Token, Usable(t)', token[t].user = u
      PROVE  FALSE
  <2>1. t \notin TokensOf(u)
    BY <1>3, <1>4 DEF Usable
  <2>2. token'[t] = token[t]
    BY <1>2, <2>1 DEF Revoked
  <2> QED
    BY <1>4, <2>1, <2>2 DEF TokensOf, Usable, Unrevoked, Exists
<1> QED
  BY <1>3, <1>4

\* What a row keeps when rows are only revoked.
LEMMA RowsKept ==
  ASSUME TypeOK, OnlyRevokes
  PROVE  /\ token' \in [Token -> Row \cup {None}]
         /\ \A t \in Token :
              /\ Exists(t)' <=> Exists(t)
              /\ Unrevoked(t)' => Unrevoked(t)
              /\ Exists(t) => /\ token[t] \in Row
                              /\ token'[t].user = token[t].user
                              /\ token'[t].family = token[t].family
                              /\ token'[t].under = token[t].under
                              /\ token'[t].rotated = token[t].rotated
                              /\ token[t].revoked => token'[t].revoked
<1>1. ASSUME NEW t \in Token
      PROVE  /\ token'[t] \in Row \cup {None}
             /\ Exists(t)' <=> Exists(t)
             /\ Unrevoked(t)' => Unrevoked(t)
             /\ Exists(t) => /\ token[t] \in Row
                             /\ token'[t].user = token[t].user
                             /\ token'[t].family = token[t].family
                             /\ token'[t].under = token[t].under
                             /\ token'[t].rotated = token[t].rotated
                             /\ token[t].revoked => token'[t].revoked
  <2>1. token[t] \in Row \cup {None}
    BY DEF TypeOK
  <2>2. CASE token'[t] = token[t]
    BY <2>1, <2>2 DEF Exists, Unrevoked
  <2>3. CASE Exists(t) /\ token'[t] = [token[t] EXCEPT !.revoked = TRUE]
    <3>1. token[t] \in Row
      BY <2>1, <2>3 DEF Exists
    <3>2. token'[t] \in Row /\ token'[t].revoked
      BY <2>3, <3>1 DEF Row
    <3>3. token'[t].user = token[t].user /\ token'[t].family = token[t].family
          /\ token'[t].under = token[t].under /\ token'[t].rotated = token[t].rotated
      BY <2>3, <3>1 DEF Row
    <3> QED
      BY <2>3, <3>1, <3>2, <3>3, NoneAssumption DEF Exists, Unrevoked
  <2> QED
    BY <2>2, <2>3 DEF OnlyRevokes
<1> QED
  BY <1>1 DEF OnlyRevokes

\* Types of tokens survive.
LEMMA ShrinksTypes ==
  ASSUME TypeOK, OnlyRevokes
  PROVE  /\ token' \in [Token -> Row \cup {None}]
         /\ \A t \in Token : Exists(t)' => /\ token'[t].rotated => token'[t].revoked
                                           /\ Exists(token[t].family)'
<1>1. ASSUME NEW t \in Token, Exists(t)'
      PROVE  (token'[t].rotated => token'[t].revoked) /\ Exists(token[t].family)'
  <2>1. Exists(t) /\ token[t] \in Row /\ token'[t].family = token[t].family
        /\ token[t].family \in Token
    BY <1>1, RowsKept DEF Row
  <2>2. Exists(token[t].family) /\ (token[t].rotated => token[t].revoked)
    BY <2>1 DEF TypeOK
  <2>3. Exists(token[t].family)'
    BY <2>1, <2>2, RowsKept DEF Exists
  <2> QED
    BY <2>1, <2>2, <2>3, RowsKept
<1> QED
  BY <1>1, RowsKept

LEMMA ShrinksInvariants ==
  ASSUME IndInv, Shrinks
  PROVE  OneLivePerFamily' /\ LiveIsEntitled' /\ FamiliesAgree'
<1> USE DEF IndInv
<1>0. OnlyRevokes /\ expired \subseteq expired'
  BY DEF Shrinks
<1>1. OneLivePerFamily'
  <2> SUFFICES ASSUME NEW s \in Token, NEW t \in Token,
                      Unrevoked(s)', Unrevoked(t)', token'[s].family = token'[t].family
               PROVE  s = t
    BY DEF OneLivePerFamily
  <2>1. Unrevoked(s) /\ Unrevoked(t) /\ token[s].family = token[t].family
    BY <1>0, RowsKept DEF Unrevoked
  <2> QED
    BY <2>1 DEF OneLivePerFamily
<1>2. LiveIsEntitled'
  <2> SUFFICES ASSUME NEW t \in Token, Usable(t)'
               PROVE  Matches(token[t].user, token[t].under)'
    BY DEF LiveIsEntitled
  <2>1. Exists(t) /\ Unrevoked(t) /\ token[t] \in Row
        /\ token'[t].user = token[t].user /\ token'[t].family = token[t].family
        /\ token'[t].under = token[t].under
    BY <1>0, RowsKept DEF Usable, Unrevoked
  <2>2. Usable(t)
    BY <1>0, <2>1 DEF Usable
  <2>3. Matches(token[t].user, token[t].under)
    BY <2>2 DEF LiveIsEntitled
  <2>4. Kept(token[t].user)
    BY <2>1 DEF Shrinks, Row
  <2> QED
    BY <2>1, <2>3, <2>4 DEF Matches, Kept, Has, CredentialOf, Cred
<1>3. FamiliesAgree'
  <2> SUFFICES ASSUME NEW t \in Token, Exists(t)', NEW f, f = token'[t].family
               PROVE  /\ Exists(f)' /\ token'[f].family = f
                      /\ token'[f].user = token'[t].user /\ token'[f].under = token'[t].under
    BY DEF FamiliesAgree
  <2>1. Exists(t) /\ token[t] \in Row /\ f = token[t].family /\ f \in Token
    BY <1>0, RowsKept DEF Row
  <2>2. /\ Exists(f) /\ token[f].family = f
        /\ token[f].user = token[t].user /\ token[f].under = token[t].under
    BY <2>1 DEF FamiliesAgree
  <2> QED
    BY <1>0, <2>1, <2>2, RowsKept
<1> QED
  BY <1>1, <1>2, <1>3

-----------------------------------------------------------------------------
(* Types                                                                   *)

LEMMA KindTypes ==
  /\ Identity \subseteq Kind /\ "password" \in Kind /\ "password" \notin Identity
  /\ \A k \in Kind : k # "password" => k \in Identity
  BY KindAssumption DEF Kind

LEMMA CredentialType ==
  ASSUME TypeOK, NEW u \in User, NEW k \in Kind
  PROVE  CredentialOf(u, k) \in Credential
  BY KindTypes DEF TypeOK, CredentialOf, Cred, Credential

LEMMA SnapshotType ==
  ASSUME TypeOK, NEW u \in User, NEW k \in Identity
  PROVE  SnapshotOf(u, k) \in Snapshot
<1>1. [i \in Identity |-> IF i = "wecom" /\ k # "wecom" THEN None ELSE factor[u][i]]
        \in [Identity -> Value \cup {None}]
  BY DEF TypeOK
<1>2. ASSUME NEW i \in Kind
      PROVE  (CASE i = "password" -> version[u][i]
                [] i = "phone"    -> IF factor[u][i] = None THEN 0 ELSE version[u][i]
                [] i = "wecom" /\ k = "wecom" -> version[u][i]
                [] OTHER -> 0) \in Nat
  <2>1. version[u][i] \in Nat
    BY DEF TypeOK
  <2> QED
    BY <2>1
<1> QED
  BY <1>1, <1>2 DEF SnapshotOf, Snapshot

\* What a request of each kind carries.
LEMMA RequestFields ==
  ASSUME TypeOK, NEW r \in Request
  PROVE  /\ req[r] \in Req
         /\ req[r].pc = "login" => req[r].user \in User /\ req[r].under \in Credential
         /\ req[r].pc = "refresh" => req[r].token \in Token /\ req[r].replay \in BOOLEAN
         /\ req[r].pc = "logout" => req[r].token \in Token
         /\ req[r].pc = "password" => req[r].user \in User /\ req[r].version \in Nat
         /\ req[r].pc = "bind" => /\ req[r].user \in User /\ req[r].kind \in Identity
                                  /\ req[r].value \in Value /\ req[r].proof \in Snapshot
         /\ req[r].pc = "prebind" => /\ req[r].user \in User /\ req[r].kind \in Identity
                                     /\ req[r].value \in Value /\ req[r].phone \in Value
<1>1. req[r] \in Req
  BY DEF TypeOK
<1> QED
  BY <1>1 DEF Req, Idle

LEMMA VersionTypes ==
  ASSUME TypeOK, NEW u \in User, NEW k \in Kind
  PROVE  Bumped(u, k) \in [User -> [Kind -> Nat]]
<1>1. version[u][k] \in Nat /\ version[u][k] + 1 \in Nat
  BY DEF TypeOK
<1> QED
  BY <1>1 DEF TypeOK, Bumped

\* Bumping a version touches one user.
LEMMA BumpedElsewhere ==
  ASSUME TypeOK, NEW u \in User, NEW k \in Kind, NEW w \in User, w # u
  PROVE  Bumped(u, k)[w] = version[w]
  BY DEF TypeOK, Bumped

AccountTypes ==
    /\ status \in [User -> Status]
    /\ factor \in [User -> [Identity -> Value \cup {None}]]
    /\ version \in [User -> [Kind -> Nat]]
    /\ expired \subseteq Token
    /\ stale \subseteq Request

\* The accounts keep their types.
LEMMA AccountsTyped ==
  ASSUME TypeOK, Next
  PROVE  AccountTypes'
<1> USE DEF AccountTypes
<1>0. AccountTypes
  BY DEF TypeOK
<1>1. ASSUME NEW r \in Request,
             \/ \E u \in User, k \in Kind : VerifyFactor(r, u, k)
             \/ \E t \in Token : PresentToken(r, t)
             \/ \E t \in Token : PresentForLogout(r, t)
             \/ \E u \in User, p \in Value \cup {None} : VerifyPassword(r, u, p)
             \/ \E u \in User, k \in Identity, v \in Value : StepUp(r, u, k, v)
             \/ \E u \in User, k \in Identity, v \in Value : VerifyPhone(r, u, k, v)
      PROVE  AccountTypes'
  BY <1>0, <1>1 DEF VerifyFactor, PresentToken, PresentForLogout, VerifyPassword, StepUp, VerifyPhone
<1>2. ASSUME NEW r \in Request,
             \/ \E t \in Token : CreateSession(r, t)
             \/ \E n \in Token : Refresh(r, n)
             \/ Logout(r)
             \/ Abandon(r)
      PROVE  AccountTypes'
  BY <1>0, <1>2 DEF CreateSession, Refresh, Logout, Abandon, End
<1>3. ASSUME NEW r \in Request, ChangePassword(r)
      PROVE  AccountTypes'
  <2>1. req[r].user \in User
    BY <1>3, RequestFields DEF ChangePassword
  <2>2. version' \in [User -> [Kind -> Nat]]
    BY <1>0, <1>3, <2>1, KindTypes, VersionTypes DEF ChangePassword, SetPassword
  <2> QED
    BY <1>0, <1>3, <2>2 DEF ChangePassword, End
<1>4. ASSUME NEW u \in User, NEW k \in Identity, NEW v \in Value \cup {None}, SetIdentity(u, k, v)
      PROVE  /\ factor' \in [User -> [Identity -> Value \cup {None}]]
             /\ version' \in [User -> [Kind -> Nat]]
  BY <1>0, <1>4, KindTypes, VersionTypes DEF SetIdentity
<1>5. ASSUME NEW r \in Request, Bind(r)
      PROVE  AccountTypes'
  <2>1. req[r].user \in User /\ req[r].kind \in Identity /\ req[r].value \in Value
    BY <1>5, RequestFields DEF Bind
  <2>2. /\ factor' \in [User -> [Identity -> Value \cup {None}]]
        /\ version' \in [User -> [Kind -> Nat]]
    BY <1>0, <1>4, <1>5, <2>1 DEF Bind
  <2>3. stale' \subseteq Request
    BY <1>0, <1>5 DEF Bind, Outdated
  <2> QED
    BY <1>0, <1>5, <2>2, <2>3 DEF Bind
<1>6. ASSUME NEW r \in Request, PreBind(r)
      PROVE  AccountTypes'
  <2>1. req[r].user \in User /\ req[r].kind \in Identity /\ req[r].value \in Value
    BY <1>6, RequestFields DEF PreBind
  <2>2. /\ factor' \in [User -> [Identity -> Value \cup {None}]]
        /\ version' \in [User -> [Kind -> Nat]]
    BY <1>0, <1>4, <1>6, <2>1 DEF PreBind
  <2>3. stale' \subseteq Request
    BY <1>0, <1>6 DEF PreBind, Outdated, End
  <2> QED
    BY <1>0, <1>6, <2>2, <2>3 DEF PreBind
<1>7. ASSUME NEW u \in User,
             LogoutAll(u) \/ AdminSetPassword(u) \/ Disable(u) \/ Enable(u)
      PROVE  AccountTypes'
  <2>1. CASE AdminSetPassword(u)
    <3>1. version' \in [User -> [Kind -> Nat]]
      BY <2>1, KindTypes, VersionTypes DEF AdminSetPassword, SetPassword
    <3> QED
      BY <1>0, <2>1, <3>1 DEF AdminSetPassword
  <2>2. CASE LogoutAll(u)
    BY <1>0, <2>2 DEF LogoutAll
  <2>3. CASE Disable(u) \/ Enable(u)
    BY <1>0, <2>3 DEF Disable, Enable, Status
  <2> QED
    BY <1>7, <2>1, <2>2, <2>3
<1>8. ASSUME NEW u \in User, NEW k \in Identity, ClearIdentity(u, k)
      PROVE  AccountTypes'
  <2>1. /\ factor' \in [User -> [Identity -> Value \cup {None}]]
        /\ version' \in [User -> [Kind -> Nat]]
    BY <1>4, <1>8 DEF ClearIdentity
  <2> QED
    BY <1>0, <1>8, <2>1 DEF ClearIdentity, Outdated
<1>9. ASSUME NEW u \in User, NEW k \in Identity, NEW x \in Value \cup {None}, Create(u, k, x)
      PROVE  AccountTypes'
  BY <1>0, <1>9 DEF Create, Status
<1>10. ASSUME NEW u \in User, Deleted(u)
       PROVE  /\ version' \in [User -> [Kind -> Nat]]
              /\ expired' = expired /\ stale' \subseteq Request
              /\ GivenUp(u) \in [Identity -> Value \cup {None}]
  BY <1>0, <1>10, KindTypes, VersionTypes DEF Deleted, Outdated, GivenUp
<1>11. ASSUME NEW u \in User, SoftDelete(u)
       PROVE  AccountTypes'
  BY <1>0, <1>10, <1>11 DEF SoftDelete, Status
<1>12. ASSUME NEW u \in User, NEW v \in User, NEW x \in Value, Reopen(u, v, x)
       PROVE  AccountTypes'
  BY <1>0, <1>10, <1>12 DEF Reopen, Status
<1>13. ASSUME NEW f \in Token, Expire(f)
       PROVE  AccountTypes'
  BY <1>0, <1>13 DEF Expire
<1> QED
  BY <1>1, <1>2, <1>3, <1>5, <1>6, <1>7, <1>8, <1>9, <1>11, <1>12, <1>13
     DEF Next, Read, Transaction, Administration

\* Requests keep their types.
LEMMA RequestsTyped ==
  ASSUME TypeOK, Next
  PROVE  req' \in [Request -> Req]
<1>0. req \in [Request -> Req] /\ Idle \in Req
  BY DEF TypeOK, Req
<1>1. ASSUME NEW r \in Request, NEW q \in Req, Begin(r, q)
      PROVE  req' \in [Request -> Req]
  BY <1>0, <1>1 DEF Begin
<1>2. ASSUME NEW r \in Request, End(r) \/ Bind(r)
      PROVE  req' \in [Request -> Req]
  BY <1>0, <1>2 DEF End, Bind
<1>3. ASSUME NEW r \in Request, NEW u \in User, NEW k \in Kind, VerifyFactor(r, u, k)
      PROVE  req' \in [Request -> Req]
  <2>1. [pc |-> "login", user |-> u, under |-> CredentialOf(u, k)] \in Req
    BY CredentialType DEF Req
  <2> QED
    BY <1>1, <1>3, <2>1 DEF VerifyFactor
<1>4. ASSUME NEW r \in Request, NEW t \in Token, PresentToken(r, t) \/ PresentForLogout(r, t)
      PROVE  req' \in [Request -> Req]
  <2>1. CASE PresentToken(r, t)
    <3>1. token[t].rotated \in BOOLEAN
      BY <2>1 DEF PresentToken, TypeOK, Exists, Row
    <3>2. [pc |-> "refresh", token |-> t, replay |-> token[t].rotated] \in Req
      BY <3>1 DEF Req
    <3> QED
      BY <1>1, <2>1, <3>2 DEF PresentToken
  <2>2. CASE PresentForLogout(r, t)
    <3>1. [pc |-> "logout", token |-> t] \in Req
      BY DEF Req
    <3> QED
      BY <1>1, <2>2, <3>1 DEF PresentForLogout
  <2> QED
    BY <1>4, <2>1, <2>2
<1>5. ASSUME NEW r \in Request, NEW u \in User, NEW p \in Value \cup {None}, VerifyPassword(r, u, p)
      PROVE  req' \in [Request -> Req]
  <2>1. version[u]["password"] \in Nat
    BY KindTypes DEF TypeOK
  <2>2. [pc |-> "password", user |-> u, version |-> version[u]["password"], phone |-> p] \in Req
    BY <2>1 DEF Req
  <2> QED
    BY <1>1, <1>5, <2>2 DEF VerifyPassword
<1>6. ASSUME NEW r \in Request, NEW u \in User, NEW k \in Identity, NEW v \in Value, StepUp(r, u, k, v)
      PROVE  req' \in [Request -> Req]
  <2>1. [pc |-> "bind", user |-> u, kind |-> k, value |-> v, proof |-> SnapshotOf(u, k)] \in Req
    BY SnapshotType DEF Req
  <2> QED
    BY <1>1, <1>6, <2>1 DEF StepUp
<1>7. ASSUME NEW r \in Request, NEW u \in User, NEW k \in Identity, NEW v \in Value, VerifyPhone(r, u, k, v)
      PROVE  req' \in [Request -> Req]
  <2>1. factor[u]["phone"] \in Value
    BY <1>7 DEF VerifyPhone, TypeOK
  <2>2. [pc |-> "prebind", user |-> u, kind |-> k, value |-> v, phone |-> factor[u]["phone"]] \in Req
    BY <2>1 DEF Req
  <2> QED
    BY <1>1, <1>7, <2>2 DEF VerifyPhone
<1>8. ASSUME NEW r \in Request, PreBind(r)
      PROVE  req' \in [Request -> Req]
  <2>1. req[r].user \in User /\ req[r].kind \in Identity /\ req[r].value \in Value
    BY <1>8, RequestFields DEF PreBind
  <2>2. CredentialOf(req[r].user, req[r].kind) \in Credential
    BY <2>1, CredentialType, KindTypes
  <2>3. version'[req[r].user][req[r].kind] \in Nat
    BY <1>8, <2>1, AccountsTyped, KindTypes DEF AccountTypes
  <2>4. Cred(req[r].kind, req[r].value, version'[req[r].user][req[r].kind]) \in Credential
    BY <2>1, <2>3, KindTypes DEF Cred, Credential
  <2>5. ASSUME NEW c \in Credential
        PROVE  [pc |-> "login", user |-> req[r].user, under |-> c] \in Req
    BY <2>1 DEF Req
  <2> QED
    BY <1>0, <1>2, <1>8, <2>2, <2>4, <2>5 DEF PreBind
<1>9. ASSUME req' = req
      PROVE  req' \in [Request -> Req]
  BY <1>0, <1>9
<1> QED
  BY <1>2, <1>3, <1>4, <1>5, <1>6, <1>7, <1>8, <1>9
     DEF Next, Read, Transaction, Administration, CreateSession, Refresh, Logout, ChangePassword,
         Abandon, LogoutAll, AdminSetPassword, Disable, Enable, SoftDelete, ClearIdentity, Create,
         Reopen, Deleted, Expire

-----------------------------------------------------------------------------
(* Which shape each step has                                               *)

\* createSession inserts the first row of a family.
Issues(r, t) ==
    /\ req[r].pc = "login" /\ Accepts(r) /\ ~Exists(t)
    /\ token' = [token EXCEPT ![t] = [user |-> req[r].user, family |-> t,
                   under |-> req[r].under, rotated |-> FALSE, revoked |-> FALSE]]
    /\ UNCHANGED <<status, factor, version, expired>>

\* refresh replaces a row by its sibling.
Rotates(r, n) ==
    LET t == req[r].token IN
    /\ req[r].pc = "refresh" /\ token[t].family \notin expired
    /\ Rotatable(t) /\ ~Exists(n)
    /\ token' = [token EXCEPT ![t] = Rotated(token[t]), ![n] = Sibling(token[t])]
    /\ UNCHANGED <<status, factor, version, expired>>

LEMMA UnchangedShape ==
  ASSUME TypeOK, token' = token
  PROVE  OnlyRevokes
  BY DEF TypeOK, OnlyRevokes

LEMMA FamilyRevoked ==
  ASSUME TypeOK, NEW t \in Token, token' = Revoked(FamilyOf(t))
  PROVE  OnlyRevokes
  BY RevokedShape DEF FamilyOf, Unrevoked

\* A user who is not active has no usable token, before or after.
LEMMA InactiveHasNone ==
  ASSUME IndInv, OnlyRevokes, expired' = expired, NEW u \in User, status[u] # "active"
  PROVE  \A t \in Token : Usable(t)' => token[t].user # u
<1> SUFFICES ASSUME NEW t \in Token, Usable(t)', token[t].user = u
             PROVE  FALSE
  OBVIOUS
<1>1. Usable(t)
  BY RowsKept DEF IndInv, Usable, Unrevoked
<1> QED
  BY <1>1 DEF IndInv, LiveIsEntitled, Matches

\* Nobody's account changes.
LEMMA QuietShape ==
  ASSUME OnlyRevokes, UNCHANGED <<status, factor, version>>, expired \subseteq expired'
  PROVE  Shrinks
  BY DEF Shrinks, Kept

\* Only u's account changes, and u's tokens are revoked.
LEMMA ChangeShape ==
  ASSUME TypeOK, NEW u \in User, RevokeAll(u), expired' = expired,
         \A w \in User : w # u => Kept(w)
  PROVE  Shrinks
  BY RevokeAllShape DEF Shrinks

LEMMA SetIdentityShape ==
  ASSUME TypeOK, NEW u \in User, NEW k \in Identity, NEW v \in Value \cup {None},
         SetIdentity(u, k, v), UNCHANGED <<status, expired>>
  PROVE  Shrinks
<1>1. ASSUME NEW w \in User, w # u
      PROVE  Kept(w)
  BY <1>1, KindTypes, BumpedElsewhere DEF SetIdentity, Kept, TypeOK
<1> QED
  BY <1>1, ChangeShape DEF SetIdentity

LEMMA SetPasswordShape ==
  ASSUME TypeOK, NEW u \in User, SetPassword(u), UNCHANGED <<status, factor, expired>>
  PROVE  Shrinks
<1>1. ASSUME NEW w \in User, w # u
      PROVE  Kept(w)
  BY <1>1, KindTypes, BumpedElsewhere DEF SetPassword, Kept
<1> QED
  BY <1>1, ChangeShape DEF SetPassword

LEMMA StepShape ==
  ASSUME IndInv, Next
  PROVE  \/ Shrinks
         \/ \E r \in Request, t \in Token : Issues(r, t)
         \/ \E r \in Request, n \in Token : Rotates(r, n)
<1>0. TypeOK
  BY DEF IndInv
<1>1. CASE Read
  BY <1>0, <1>1, UnchangedShape, QuietShape
     DEF Read, VerifyFactor, PresentToken, PresentForLogout, VerifyPassword, StepUp, VerifyPhone
<1>2. ASSUME NEW r \in Request, NEW t \in Token, CreateSession(r, t)
      PROVE  Shrinks \/ Issues(r, t)
  BY <1>0, <1>2, UnchangedShape, QuietShape DEF CreateSession, Issues
<1>3. ASSUME NEW r \in Request, NEW n \in Token, Refresh(r, n)
      PROVE  Shrinks \/ Rotates(r, n)
  <2>1. req[r].token \in Token
    BY <1>0, <1>3, RequestFields DEF Refresh
  <2>2. \/ token' = Revoked(FamilyOf(req[r].token)) \/ token' = token
        \/ Rotates(r, n)
    BY <1>3 DEF Refresh, Rotates
  <2>3. UNCHANGED <<status, factor, version, expired>>
    BY <1>3 DEF Refresh
  <2> QED
    BY <1>0, <2>1, <2>2, <2>3, FamilyRevoked, UnchangedShape, QuietShape
<1>4. ASSUME NEW r \in Request, Logout(r)
      PROVE  Shrinks
  <2>1. req[r].token \in Token
    BY <1>0, <1>4, RequestFields DEF Logout
  <2>2. OnlyRevokes
    BY <1>0, <1>4, <2>1, FamilyRevoked, UnchangedShape DEF Logout
  <2> QED
    BY <1>4, <2>2, QuietShape DEF Logout
<1>5. ASSUME NEW r \in Request, ChangePassword(r)
      PROVE  Shrinks
  <2>1. req[r].user \in User
    BY <1>0, <1>5, RequestFields DEF ChangePassword
  <2>2. CASE StillVerified(r)
    BY <1>0, <1>5, <2>1, <2>2, SetPasswordShape DEF ChangePassword
  <2>3. CASE ~StillVerified(r)
    BY <1>0, <1>5, <2>3, UnchangedShape, QuietShape DEF ChangePassword
  <2> QED
    BY <2>2, <2>3
<1>6. ASSUME NEW r \in Request, Bind(r)
      PROVE  Shrinks
  <2>1. req[r].user \in User /\ req[r].kind \in Identity /\ req[r].value \in Value
    BY <1>0, <1>6, RequestFields DEF Bind
  <2>2. CASE Binds(r)
    BY <1>0, <1>6, <2>1, <2>2, SetIdentityShape DEF Bind
  <2>3. CASE ~Binds(r)
    BY <1>0, <1>6, <2>3, UnchangedShape, QuietShape DEF Bind
  <2> QED
    BY <2>2, <2>3
<1>7. ASSUME NEW r \in Request, PreBind(r)
      PROVE  Shrinks
  <2>1. req[r].user \in User /\ req[r].kind \in Identity /\ req[r].value \in Value
    BY <1>0, <1>7, RequestFields DEF PreBind
  <2>2. CASE SetIdentity(req[r].user, req[r].kind, req[r].value)
    BY <1>0, <1>7, <2>1, <2>2, SetIdentityShape DEF PreBind
  <2>3. CASE UNCHANGED <<factor, version, token>>
    BY <1>0, <1>7, <2>3, UnchangedShape, QuietShape DEF PreBind
  <2> QED
    BY <1>7, <2>2, <2>3 DEF PreBind
<1>8. ASSUME NEW r \in Request, Abandon(r)
      PROVE  Shrinks
  BY <1>0, <1>8, UnchangedShape, QuietShape DEF Abandon
<1>9. ASSUME NEW u \in User, LogoutAll(u)
      PROVE  Shrinks
  BY <1>0, <1>9, RevokeAllShape, QuietShape DEF LogoutAll
<1>10. ASSUME NEW u \in User, AdminSetPassword(u)
       PROVE  Shrinks
  BY <1>0, <1>10, SetPasswordShape DEF AdminSetPassword
<1>11. ASSUME NEW u \in User, Disable(u)
       PROVE  Shrinks
  <2>1. ASSUME NEW w \in User, w # u
        PROVE  Kept(w)
    BY <1>0, <1>11, <2>1 DEF Disable, Kept, TypeOK
  <2> QED
    BY <1>0, <1>11, <2>1, ChangeShape DEF Disable
<1>12. ASSUME NEW u \in User, status[u] # "active", token' = token, expired' = expired,
              \A w \in User : w # u => Kept(w)
       PROVE  Shrinks
  BY <1>0, <1>12, UnchangedShape, InactiveHasNone DEF Shrinks
<1>13. ASSUME NEW u \in User, Enable(u)
       PROVE  Shrinks
  <2>1. ASSUME NEW w \in User, w # u
        PROVE  Kept(w)
    BY <1>0, <1>13, <2>1 DEF Enable, Kept, TypeOK
  <2> QED
    BY <1>12, <1>13, <2>1 DEF Enable
<1>14. ASSUME NEW u \in User, NEW k \in Identity, NEW x \in Value \cup {None}, Create(u, k, x)
       PROVE  Shrinks
  <2>1. ASSUME NEW w \in User, w # u
        PROVE  Kept(w)
    BY <1>0, <1>14, <2>1 DEF Create, Kept, TypeOK
  <2> QED
    BY <1>12, <1>14, <2>1 DEF Create, Add
<1>15. ASSUME NEW u \in User, NEW k \in Identity, ClearIdentity(u, k)
       PROVE  Shrinks
  BY <1>0, <1>15, SetIdentityShape DEF ClearIdentity
<1>16. ASSUME NEW u \in User, Deleted(u), NEW w \in User, w # u
       PROVE  version'[w] = version[w]
  BY <1>0, <1>16, KindTypes, BumpedElsewhere DEF Deleted
<1>17. ASSUME NEW u \in User, SoftDelete(u)
       PROVE  Shrinks
  <2>1. ASSUME NEW w \in User, w # u
        PROVE  Kept(w)
    BY <1>0, <1>16, <1>17, <2>1 DEF SoftDelete, Kept, TypeOK
  <2> QED
    BY <1>0, <1>17, <2>1, ChangeShape DEF SoftDelete, Deleted
<1>18. ASSUME NEW u \in User, NEW v \in User, NEW x \in Value, Reopen(u, v, x)
       PROVE  Shrinks
  <2>1. ASSUME NEW w \in User, w # u, w # v
        PROVE  Kept(w)
    BY <1>0, <1>16, <1>18, <2>1 DEF Reopen, Kept, TypeOK
  <2>2. RevokeAll(u) /\ expired' = expired /\ status[v] # "active"
    BY <1>18 DEF Reopen, Deleted, Add
  <2>3. OnlyRevokes /\ \A t \in Token : Usable(t)' => token[t].user # u
    BY <1>0, <2>2, RevokeAllShape
  <2>4. \A t \in Token : Usable(t)' => token[t].user # v
    BY <2>2, <2>3, InactiveHasNone
  <2> QED
    BY <2>1, <2>2, <2>3, <2>4 DEF Shrinks
<1>19. ASSUME NEW f \in Token, Expire(f)
       PROVE  Shrinks
  BY <1>0, <1>19, UnchangedShape, QuietShape DEF Expire
<1> QED
  BY <1>1, <1>2, <1>3, <1>4, <1>5, <1>6, <1>7, <1>8, <1>9, <1>10, <1>11, <1>13, <1>14, <1>15,
     <1>17, <1>18, <1>19 DEF Next, Transaction, Administration

-----------------------------------------------------------------------------
(* Creating and rotating                                                   *)

LEMMA IssueStep ==
  ASSUME IndInv, NEW r \in Request, NEW t \in Token, Issues(r, t)
  PROVE  /\ token' \in [Token -> Row \cup {None}]
         /\ \A s \in Token : Exists(s)' <=> (Exists(s) \/ s = t)
         /\ \A s \in Token : s # t => token'[s] = token[s]
         /\ token'[t].user \in User /\ token'[t].family = t /\ token'[t].under = req[r].under
         /\ ~token'[t].revoked /\ ~token'[t].rotated
         /\ Matches(token'[t].user, token'[t].under)
         /\ \A s \in Token : Exists(s) => token[s].family # t
<1>1. TypeOK /\ req[r].user \in User /\ req[r].under \in Credential
  BY RequestFields DEF IndInv, Issues
<1> DEFINE new == [user |-> req[r].user, family |-> t, under |-> req[r].under,
                   rotated |-> FALSE, revoked |-> FALSE]
<1>2. new \in Row /\ new # None
  <2>1. new \in Row
    BY <1>1 DEF Row
  <2> QED
    BY <2>1, NoneAssumption
<1>3. token' = [token EXCEPT ![t] = new] /\ token \in [Token -> Row \cup {None}]
  BY <1>1 DEF Issues, TypeOK
<1>4. Matches(req[r].user, req[r].under) /\ ~Exists(t)
  BY DEF Issues, Accepts
<1>5. \A s \in Token : Exists(s) => token[s].family # t
  BY <1>4 DEF IndInv, FamiliesAgree
<1> QED
  BY <1>1, <1>2, <1>3, <1>4, <1>5 DEF Exists

LEMMA RotateStep ==
  ASSUME IndInv, NEW r \in Request, NEW n \in Token, Rotates(r, n), NEW t, t = req[r].token
  PROVE  /\ t \in Token /\ Exists(t) /\ n # t /\ Usable(t)
         /\ token' \in [Token -> Row \cup {None}]
         /\ \A s \in Token : Exists(s)' <=> (Exists(s) \/ s = n)
         /\ \A s \in Token \ {t, n} : token'[s] = token[s]
         /\ \A s \in {t, n} : /\ token'[s].user = token[t].user
                              /\ token'[s].family = token[t].family
                              /\ token'[s].under = token[t].under
         /\ token'[t].revoked /\ token'[t].rotated
         /\ ~token'[n].revoked /\ ~token'[n].rotated
         /\ \A s \in Token : Exists(s) => token[s].family # n
<1>1. TypeOK /\ t \in Token /\ Exists(t)
  BY RequestFields DEF IndInv, Rotates, PresentedExist
<1>2. token \in [Token -> Row \cup {None}] /\ token[t] \in Row
  BY <1>1 DEF TypeOK, Exists
<1>3. ~Exists(n) /\ n # t /\ Usable(t)
  BY <1>1 DEF Rotates, Rotatable, Usable, Unrevoked
<1>4. /\ Rotated(token[t]) \in Row /\ Sibling(token[t]) \in Row
      /\ Rotated(token[t]) # None /\ Sibling(token[t]) # None
  BY <1>2, NoneAssumption DEF Row, Rotated, Sibling
<1>5. token' = [token EXCEPT ![t] = Rotated(token[t]), ![n] = Sibling(token[t])]
  BY DEF Rotates
<1>6. token'[t] = Rotated(token[t]) /\ token'[n] = Sibling(token[t])
      /\ \A s \in Token \ {t, n} : token'[s] = token[s]
  BY <1>1, <1>2, <1>3, <1>5
<1>7. token' \in [Token -> Row \cup {None}]
  BY <1>2, <1>4, <1>5
<1>8. \A s \in {t, n} : /\ token'[s].user = token[t].user
                        /\ token'[s].family = token[t].family
                        /\ token'[s].under = token[t].under
  <2>1. /\ Rotated(token[t]).user = token[t].user /\ Rotated(token[t]).family = token[t].family
        /\ Rotated(token[t]).under = token[t].under
    BY <1>2 DEF Row, Rotated
  <2>2. /\ Sibling(token[t]).user = token[t].user /\ Sibling(token[t]).family = token[t].family
        /\ Sibling(token[t]).under = token[t].under
    BY <1>2 DEF Row, Sibling
  <2> QED
    BY <1>6, <2>1, <2>2
<1>9. token'[t].revoked /\ token'[t].rotated /\ ~token'[n].revoked /\ ~token'[n].rotated
  BY <1>2, <1>6 DEF Row, Rotated, Sibling
<1>10. \A s \in Token : Exists(s)' <=> (Exists(s) \/ s = n)
  BY <1>1, <1>4, <1>6 DEF Exists
<1>11. \A s \in Token : Exists(s) => token[s].family # n
  BY <1>3 DEF IndInv, FamiliesAgree
<1> QED
  BY <1>1, <1>3, <1>6, <1>7, <1>8, <1>9, <1>10, <1>11

TokensTyped ==
    /\ token \in [Token -> Row \cup {None}]
    /\ \A t \in Token : Exists(t) => /\ token[t].rotated => token[t].revoked
                                     /\ Exists(token[t].family)

LEMMA IssuePreserves ==
  ASSUME IndInv, NEW r \in Request, NEW t \in Token, Issues(r, t)
  PROVE  TokensTyped' /\ OneLivePerFamily' /\ LiveIsEntitled' /\ FamiliesAgree'
<1>0. UNCHANGED <<status, factor, version, expired>>
  BY DEF Issues
<1>1. \A s \in Token : Exists(s) => token[s].family \in Token /\ Exists(token[s].family)
                                    /\ (token[s].rotated => token[s].revoked)
  BY DEF IndInv, TypeOK, Exists, Row
<1>2. TokensTyped'
  BY <1>1, IssueStep DEF TokensTyped
<1>3. OneLivePerFamily'
  BY IssueStep DEF IndInv, OneLivePerFamily, Unrevoked
<1>4. LiveIsEntitled'
  <2> SUFFICES ASSUME NEW s \in Token, Usable(s)'
               PROVE  Matches(token[s].user, token[s].under)'
    BY DEF LiveIsEntitled
  <2>1. Matches(token'[s].user, token'[s].under)
    <3>1. CASE s = t
      BY <3>1, IssueStep
    <3>2. CASE s # t
      BY <1>0, <3>2, IssueStep DEF IndInv, LiveIsEntitled, Usable, Unrevoked
    <3> QED
      BY <3>1, <3>2
  <2> QED
    BY <1>0, <2>1 DEF Matches, Has, CredentialOf, Cred
<1>5. FamiliesAgree'
  <2> SUFFICES ASSUME NEW s \in Token, Exists(s)', NEW f, f = token'[s].family
               PROVE  /\ Exists(f)' /\ token'[f].family = f
                      /\ token'[f].user = token'[s].user /\ token'[f].under = token'[s].under
    BY DEF FamiliesAgree
  <2>1. CASE s = t
    BY <2>1, IssueStep
  <2>2. CASE s # t
    <3>1. Exists(s) /\ token'[s] = token[s] /\ f = token[s].family /\ f # t /\ f \in Token
      BY <1>1, <2>2, IssueStep
    <3>2. /\ Exists(f) /\ token[f].family = f
          /\ token[f].user = token[s].user /\ token[f].under = token[s].under
      BY <3>1 DEF IndInv, FamiliesAgree
    <3> QED
      BY <3>1, <3>2, IssueStep
  <2> QED
    BY <2>1, <2>2
<1> QED
  BY <1>2, <1>3, <1>4, <1>5

LEMMA RotatePreserves ==
  ASSUME IndInv, NEW r \in Request, NEW n \in Token, Rotates(r, n)
  PROVE  TokensTyped' /\ OneLivePerFamily' /\ LiveIsEntitled' /\ FamiliesAgree'
<1> DEFINE t == req[r].token
<1>0. UNCHANGED <<status, factor, version, expired>>
  BY DEF Rotates
<1>1. \A s \in Token : Exists(s) => token[s].family \in Token /\ Exists(token[s].family)
                                    /\ (token[s].rotated => token[s].revoked)
  BY DEF IndInv, TypeOK, Exists, Row
<1>2. t \in Token /\ Exists(t) /\ n # t /\ Usable(t)
  BY RotateStep
<1>3. TokensTyped'
  <2>1. ASSUME NEW s \in Token, Exists(s)'
        PROVE  (token'[s].rotated => token'[s].revoked) /\ Exists(token[s].family)'
    <3>1. CASE s \in {t, n}
      BY <1>1, <1>2, <3>1, RotateStep
    <3>2. CASE s \notin {t, n}
      BY <1>1, <2>1, <3>2, RotateStep
    <3> QED
      BY <3>1, <3>2
  <2>2. token' \in [Token -> Row \cup {None}]
    BY RotateStep
  <2> QED
    BY <2>1, <2>2 DEF TokensTyped
<1>4. OneLivePerFamily'
  <2> SUFFICES ASSUME NEW s \in Token, NEW x \in Token,
                      Unrevoked(s)', Unrevoked(x)', token'[s].family = token'[x].family
               PROVE  s = x
    BY DEF OneLivePerFamily
  <2>1. s # t /\ x # t
    BY RotateStep DEF Unrevoked
  <2>2. ASSUME NEW y \in Token, Unrevoked(y)', y # t, token'[y].family = token[t].family
        PROVE  y = n
    <3> SUFFICES ASSUME y # n
                 PROVE  FALSE
      OBVIOUS
    <3>1. Unrevoked(y) /\ token[y].family = token[t].family
      BY <2>2, RotateStep DEF Unrevoked
    <3> QED
      BY <1>2, <2>2, <3>1 DEF IndInv, OneLivePerFamily, Usable
  <2>3. CASE token'[s].family = token[t].family
    BY <2>1, <2>2, <2>3
  <2>4. CASE token'[s].family # token[t].family
    <3>1. s # n /\ x # n
      BY <2>4, RotateStep
    <3> QED
      BY <2>1, <3>1, RotateStep DEF IndInv, OneLivePerFamily, Unrevoked
  <2> QED
    BY <2>3, <2>4
<1>5. LiveIsEntitled'
  <2> SUFFICES ASSUME NEW s \in Token, Usable(s)'
               PROVE  Matches(token[s].user, token[s].under)'
    BY DEF LiveIsEntitled
  <2>1. Matches(token'[s].user, token'[s].under)
    <3>1. CASE s \in {t, n}
      BY <1>2, <3>1, RotateStep DEF IndInv, LiveIsEntitled
    <3>2. CASE s \notin {t, n}
      BY <1>0, <3>2, RotateStep DEF IndInv, LiveIsEntitled, Usable, Unrevoked
    <3> QED
      BY <3>1, <3>2
  <2> QED
    BY <1>0, <2>1 DEF Matches, Has, CredentialOf, Cred
<1>6. FamiliesAgree'
  <2> SUFFICES ASSUME NEW s \in Token, Exists(s)', NEW f, f = token'[s].family
               PROVE  /\ Exists(f)' /\ token'[f].family = f
                      /\ token'[f].user = token'[s].user /\ token'[f].under = token'[s].under
    BY DEF FamiliesAgree
  <2>1. PICK x \in Token : /\ Exists(x) /\ token[x].family = f
                           /\ token'[s].user = token[x].user /\ token'[s].under = token[x].under
    <3>1. CASE s \in {t, n}
      BY <1>2, <3>1, RotateStep
    <3>2. CASE s \notin {t, n}
      BY <3>2, RotateStep
    <3> QED
      BY <3>1, <3>2
  <2>2. /\ f \in Token /\ Exists(f) /\ token[f].family = f
        /\ token[f].user = token[x].user /\ token[f].under = token[x].under
    BY <1>1, <2>1 DEF IndInv, FamiliesAgree
  <2>3. f # n
    BY <2>1, RotateStep
  <2>4. /\ token'[f].family = token[f].family /\ token'[f].user = token[f].user
        /\ token'[f].under = token[f].under
    BY <2>2, <2>3, RotateStep
  <2> QED
    BY <2>1, <2>2, <2>4, RotateStep
<1> QED
  BY <1>3, <1>4, <1>5, <1>6

-----------------------------------------------------------------------------
(* Requests and proofs                                                     *)

LEMMA BumpedGrows ==
  ASSUME TypeOK, NEW u \in User, NEW k \in Kind
  PROVE  /\ \A w \in User, i \in Kind : version[w][i] <= Bumped(u, k)[w][i]
         /\ k # "openid" => version[u][k] < Bumped(u, k)[u][k]
<1>1. \A w \in User, i \in Kind : version[w][i] \in Nat
  BY DEF TypeOK
<1> QED
  BY <1>1 DEF TypeOK, Bumped

\* Every step either leaves version alone or bumps one credential of one user.
LEMMA VersionGrows ==
  ASSUME TypeOK, Next
  PROVE  \A w \in User, i \in Kind : version[w][i] <= version'[w][i]
<1>0. ASSUME version' = version
      PROVE  \A w \in User, i \in Kind : version[w][i] <= version'[w][i]
  <2>1. \A w \in User, i \in Kind : version[w][i] \in Nat
    BY DEF TypeOK
  <2> QED
    BY <1>0, <2>1
<1>1. ASSUME NEW u \in User, NEW k \in Kind, version' = Bumped(u, k)
      PROVE  \A w \in User, i \in Kind : version[w][i] <= version'[w][i]
  BY <1>1, BumpedGrows
<1>2. ASSUME NEW r \in Request, ChangePassword(r) \/ Bind(r) \/ PreBind(r)
      PROVE  version' = version \/ \E u \in User, k \in Kind : version' = Bumped(u, k)
  <2>1. CASE ChangePassword(r)
    BY <2>1, RequestFields, KindTypes DEF ChangePassword, SetPassword
  <2>2. CASE Bind(r)
    BY <2>2, RequestFields, KindTypes DEF Bind, SetIdentity
  <2>3. CASE PreBind(r)
    BY <2>3, RequestFields, KindTypes DEF PreBind, SetIdentity
  <2> QED
    BY <1>2, <2>1, <2>2, <2>3
<1>3. ASSUME NEW u \in User, AdminSetPassword(u) \/ (\E k \in Identity : ClearIdentity(u, k)) \/ Deleted(u)
      PROVE  version' = version \/ \E k \in Kind : version' = Bumped(u, k)
  BY <1>3, KindTypes DEF AdminSetPassword, SetPassword, ClearIdentity, SetIdentity, Deleted
<1>4. version' = version \/ \E u \in User, k \in Kind : version' = Bumped(u, k)
  BY <1>2, <1>3 DEF Next, Read, Transaction, Administration, VerifyFactor, PresentToken,
     PresentForLogout, VerifyPassword, StepUp, VerifyPhone, CreateSession, Refresh, Logout, Abandon,
     LogoutAll, Disable, Enable, SoftDelete, Create, Reopen, Expire
<1> QED
  BY <1>0, <1>1, <1>4

\* The identity a proof is for has just changed.
Ages(q) ==
    /\ req[q].pc = "bind"
    /\ req[q].kind # "openid" => version[req[q].user][req[q].kind] < version'[req[q].user][req[q].kind]

\* A new request rests on what was read in this step.
Fresh(q) ==
    /\ q \notin stale'
    /\ \/ req'[q].pc \in {"idle", "login", "password", "prebind"}
       \/ req'[q].pc \in {"refresh", "logout"} /\ Exists(req'[q].token)
       \/ req'[q].pc = "bind" /\ (req'[q].kind = "wecom" =>
             req'[q].proof.version["wecom"] = version'[req'[q].user]["wecom"])

LEMMA IdentityAges ==
  ASSUME TypeOK, NEW u \in User, NEW k \in Identity, version' = Bumped(u, k)
  PROVE  \A q \in Outdated(u, k) : Ages(q)
  BY BumpedGrows, KindTypes DEF Outdated, Ages

LEMMA RequestStep ==
  ASSUME IndInv, Next, NEW q \in Request
  PROVE  \/ req'[q] = req[q] /\ (q \in stale' => q \in stale \/ Ages(q))
         \/ Fresh(q)
<1> DEFINE Goal == \/ req'[q] = req[q] /\ (q \in stale' => q \in stale \/ Ages(q))
                   \/ Fresh(q)
<1>0. TypeOK /\ req \in [Request -> Req] /\ (q \in stale => req[q].pc = "bind")
  BY DEF IndInv, TypeOK, ProofsAge
<1>1. ASSUME NEW r \in Request, End(r)
      PROVE  Goal
  BY <1>0, <1>1 DEF End, Fresh, Idle
<1>3. ASSUME NEW r \in Request,
             \/ \E u \in User, k \in Kind : VerifyFactor(r, u, k)
             \/ \E u \in User, p \in Value \cup {None} : VerifyPassword(r, u, p)
             \/ \E u \in User, k \in Identity, v \in Value : VerifyPhone(r, u, k, v)
      PROVE  Goal
  BY <1>0, <1>3 DEF VerifyFactor, VerifyPassword, VerifyPhone, Begin, Fresh, Idle
<1>4. ASSUME NEW r \in Request, NEW t \in Token, PresentToken(r, t) \/ PresentForLogout(r, t)
      PROVE  Goal
  BY <1>0, <1>4 DEF PresentToken, PresentForLogout, Begin, Fresh, Idle
<1>5. ASSUME NEW r \in Request, NEW u \in User, NEW k \in Identity, NEW v \in Value, StepUp(r, u, k, v)
      PROVE  Goal
  <2>1. k = "wecom" => SnapshotOf(u, k).version["wecom"] = version'[u]["wecom"]
    BY <1>5, KindTypes DEF StepUp, SnapshotOf
  <2> QED
    BY <1>0, <1>5, <2>1 DEF StepUp, Begin, Fresh, Idle
<1>6. ASSUME NEW r \in Request,
             \/ \E t \in Token : CreateSession(r, t)
             \/ \E n \in Token : Refresh(r, n)
             \/ Logout(r) \/ ChangePassword(r) \/ Abandon(r)
      PROVE  Goal
  BY <1>1, <1>6 DEF CreateSession, Refresh, Logout, ChangePassword, Abandon
<1>7. ASSUME NEW r \in Request, Bind(r)
      PROVE  Goal
  <2>1. req[r].user \in User /\ req[r].kind \in Identity
    BY <1>0, <1>7, RequestFields DEF Bind
  <2>2. CASE q = r
    BY <1>0, <1>7, <2>2 DEF Bind, Fresh, Idle
  <2>3. CASE q # r
    <3>1. req'[q] = req[q]
      BY <1>0, <1>7, <2>3 DEF Bind
    <3>2. CASE Binds(r)
      BY <1>0, <1>7, <2>1, <3>1, <3>2, IdentityAges DEF Bind, SetIdentity
    <3>3. CASE ~Binds(r)
      BY <1>7, <3>1, <3>3 DEF Bind
    <3> QED
      BY <3>2, <3>3
  <2> QED
    BY <2>2, <2>3
<1>8. ASSUME NEW r \in Request, PreBind(r)
      PROVE  Goal
  <2>1. req[r].user \in User /\ req[r].kind \in Identity
    BY <1>0, <1>8, RequestFields DEF PreBind
  <2>2. CASE End(r)
    BY <1>1, <2>2
  <2>3. CASE /\ SetIdentity(req[r].user, req[r].kind, req[r].value)
             /\ stale' = stale \cup Outdated(req[r].user, req[r].kind)
             /\ \E c : req' = [req EXCEPT ![r] = [pc |-> "login", user |-> req[r].user, under |-> c]]
    <3>1. CASE q = r
      BY <1>0, <1>8, <2>3, <3>1 DEF PreBind, Fresh, Outdated
    <3>2. CASE q # r
      BY <1>0, <2>1, <2>3, <3>2, IdentityAges DEF SetIdentity
    <3> QED
      BY <3>1, <3>2
  <2>4. CASE /\ stale' = stale
             /\ \E c : req' = [req EXCEPT ![r] = [pc |-> "login", user |-> req[r].user, under |-> c]]
    BY <1>0, <1>8, <2>4 DEF PreBind, Fresh
  <2> QED
    BY <1>8, <2>2, <2>3, <2>4 DEF PreBind
<1>9. ASSUME req' = req, stale' = stale
      PROVE  Goal
  BY <1>9
<1>10. ASSUME NEW u \in User, NEW k \in Identity, ClearIdentity(u, k)
       PROVE  Goal
  BY <1>0, <1>10, IdentityAges DEF ClearIdentity, SetIdentity
<1>11. ASSUME NEW u \in User, Deleted(u)
       PROVE  Goal
  BY <1>0, <1>11, IdentityAges DEF Deleted
<1> QED
  BY <1>3, <1>4, <1>5, <1>6, <1>7, <1>8, <1>9, <1>10, <1>11
     DEF Next, Read, Transaction, Administration, LogoutAll, AdminSetPassword, Disable, Enable,
         Create, SoftDelete, Reopen, Expire

LEMMA RowsStay ==
  ASSUME IndInv, Next
  PROVE  \A t \in Token : Exists(t) => Exists(t)'
<1>1. CASE Shrinks
  BY <1>1, RowsKept DEF IndInv, Shrinks
<1>2. CASE \E r \in Request, t \in Token : Issues(r, t)
  BY <1>2, IssueStep
<1>3. CASE \E r \in Request, n \in Token : Rotates(r, n)
  BY <1>3, RotateStep
<1> QED
  BY <1>1, <1>2, <1>3, StepShape

LEMMA RequestInvariants ==
  ASSUME IndInv, Next
  PROVE  PresentedExist' /\ ProofsAge' /\ ExpiredExist'
<1>0. TypeOK
  BY DEF IndInv
<1>1. ASSUME NEW q \in Request, req'[q].pc \in {"refresh", "logout"}
      PROVE  Exists(req[q].token)'
  <2>1. req'[q] \in Req
    BY <1>0, RequestsTyped
  <2>2. req'[q].token \in Token
    BY <1>1, <2>1 DEF Req, Idle
  <2>3. Exists(req'[q].token)
    BY <1>1, RequestStep DEF Fresh, IndInv, PresentedExist
  <2>4. token'[req'[q].token] # None
    BY <2>2, <2>3, RowsStay DEF Exists
  <2> QED
    BY <2>4 DEF Exists
<1>2. ASSUME NEW q \in Request
      PROVE  /\ q \in stale' => req'[q].pc = "bind"
             /\ req'[q].pc = "bind" /\ req'[q].kind = "wecom" =>
                  /\ req'[q].proof.version["wecom"] <= version'[req'[q].user]["wecom"]
                  /\ q \in stale' => req'[q].proof.version["wecom"] < version'[req'[q].user]["wecom"]
  <2>1. CASE req'[q] = req[q] /\ (q \in stale' => q \in stale \/ Ages(q))
    <3>1. q \in stale' => req'[q].pc = "bind"
      BY <2>1 DEF IndInv, ProofsAge, Ages
    <3>2. ASSUME req[q].pc = "bind", req[q].kind = "wecom"
          PROVE  /\ req[q].proof.version["wecom"] <= version'[req[q].user]["wecom"]
                 /\ q \in stale' => req[q].proof.version["wecom"] < version'[req[q].user]["wecom"]
      <4> DEFINE seen == req[q].proof.version["wecom"]
                 now  == version[req[q].user]["wecom"]
                 then == version'[req[q].user]["wecom"]
      <4>1. req[q].user \in User /\ "wecom" \in Kind /\ req[q].proof \in Snapshot
        BY <1>0, <3>2, RequestFields, KindTypes
      <4>2. seen \in Nat /\ now \in Nat /\ then \in Nat
        BY <1>0, <4>1, AccountsTyped DEF Snapshot, TypeOK, AccountTypes
      <4>3. seen <= now /\ (q \in stale => seen < now)
        BY <3>2 DEF IndInv, ProofsAge
      <4>4. now <= then
        BY <1>0, <4>1, VersionGrows
      <4>5. q \in stale' /\ q \notin stale => now < then
        BY <2>1, <3>2 DEF Ages
      <4> QED
        BY <4>2, <4>3, <4>4, <4>5
    <3> QED
      BY <2>1, <3>1, <3>2
  <2>2. CASE Fresh(q)
    <3>1. q \notin stale'
      BY <2>2 DEF Fresh
    <3>2. ASSUME req'[q].pc = "bind", req'[q].kind = "wecom"
          PROVE  req'[q].proof.version["wecom"] <= version'[req'[q].user]["wecom"]
      <4>1. req'[q] \in Req
        BY <1>0, RequestsTyped
      <4>2. req'[q].user \in User /\ "wecom" \in Kind
        BY <3>2, <4>1, KindTypes DEF Req, Idle
      <4>3. version'[req'[q].user]["wecom"] \in Nat
        BY <1>0, <4>2, AccountsTyped DEF AccountTypes
      <4>4. req'[q].proof.version["wecom"] = version'[req'[q].user]["wecom"]
        BY <2>2, <3>2 DEF Fresh
      <4> QED
        BY <4>3, <4>4
    <3> QED
      BY <3>1, <3>2
  <2> QED
    BY <2>1, <2>2, RequestStep
<1>3. ASSUME NEW f \in expired'
      PROVE  f \in Token /\ token'[f] # None
  <2>1. f \in Token /\ Exists(f)
    BY <1>0, <1>3 DEF IndInv, TypeOK, ExpiredExist, Next, Read, Transaction, Administration,
       VerifyFactor, PresentToken, PresentForLogout, VerifyPassword, StepUp, VerifyPhone,
       CreateSession, Refresh, Logout, ChangePassword, Bind, PreBind, Abandon, LogoutAll,
       AdminSetPassword, Disable, Enable, SoftDelete, Deleted, ClearIdentity, Create, Reopen, Expire
  <2> QED
    BY <2>1, RowsStay DEF Exists
<1> QED
  BY <1>1, <1>2, <1>3 DEF PresentedExist, ProofsAge, ExpiredExist, Exists

-----------------------------------------------------------------------------
(* What ends a refresh or a binding                                        *)

LEMMA RequestEnds ==
  ASSUME TypeOK, Next, NEW r \in Request, req[r].pc \in {"refresh", "bind"}, req'[r] = Idle
  PROVE  \/ req[r].pc = "refresh" /\ \E n \in Token : Refresh(r, n)
         \/ req[r].pc = "bind" /\ Bind(r)
         \/ UNCHANGED <<factor, token, expired>>
<1>0. req \in [Request -> Req] /\ req[r] # Idle
  BY DEF TypeOK, Idle
<1>1. ASSUME NEW p \in Request, NEW q, Begin(p, q)
      PROVE  FALSE
  <2>1. p # r
    BY <1>0, <1>1 DEF Begin
  <2>2. req'[r] = req[r]
    BY <1>0, <1>1, <2>1 DEF Begin
  <2> QED
    BY <1>0, <2>2
<1>2. ~Read
  BY <1>1 DEF Read, VerifyFactor, PresentToken, PresentForLogout, VerifyPassword, StepUp, VerifyPhone
<1>3. req' # req
  BY <1>0
<1>4. ASSUME NEW p \in Request, End(p)
      PROVE  p = r
  BY <1>0, <1>4 DEF End
<1>5. ASSUME NEW p \in Request, Bind(p)
      PROVE  p = r
  BY <1>0, <1>5 DEF Bind
<1>6. ASSUME NEW p \in Request, PreBind(p)
      PROVE  FALSE
  <2>1. p # r
    BY <1>6 DEF PreBind
  <2> QED
    BY <1>0, <1>4, <1>6, <2>1 DEF PreBind
<1>7. ~Administration /\ ~\E f \in Token : Expire(f)
  BY <1>3 DEF Administration, LogoutAll, AdminSetPassword, Disable, Enable, SoftDelete, Deleted,
     ClearIdentity, Create, Reopen, Expire
<1>8. Transaction
  BY <1>2, <1>7 DEF Next
<1>9. PICK p \in Request : \/ \E t \in Token : CreateSession(p, t)
                           \/ \E n \in Token : Refresh(p, n)
                           \/ Logout(p) \/ ChangePassword(p) \/ Bind(p) \/ PreBind(p) \/ Abandon(p)
  BY <1>8 DEF Transaction
<1>10. p = r
  BY <1>4, <1>5, <1>6, <1>9 DEF CreateSession, Refresh, Logout, ChangePassword, Abandon
<1> QED
  BY <1>6, <1>9, <1>10 DEF CreateSession, Refresh, Logout, ChangePassword, Bind, Abandon

\* A fresh refresh that finds its family alive leaves a live row behind.
LEMMA RefreshKeeps ==
  ASSUME IndInv, NEW r \in Request, NEW n \in Token, Refresh(r, n), ~req[r].replay,
         NEW s \in Token, Usable(s), token[s].family = token[req[r].token].family
  PROVE  \E x \in Token : Usable(x)' /\ token'[x].family = token[req[r].token].family
<1> DEFINE t == req[r].token
<1>1. t \in Token /\ Exists(t) /\ TypeOK
  BY RequestFields DEF IndInv, Refresh, PresentedExist
<1>2. token[t].family \notin expired /\ expired' = expired
  BY DEF Usable, Refresh
<1>3. ~Condemns(r)
  <2> SUFFICES ASSUME Rotatable(t), status[token[t].user] # "active"
               PROVE  FALSE
    BY DEF Condemns, IsReplay
  <2>1. Usable(t)
    BY <1>1, <1>2 DEF Rotatable, Usable, Unrevoked
  <2> QED
    BY <1>1, <2>1 DEF IndInv, LiveIsEntitled, Matches
<1>4. CASE token' = token
  BY <1>2, <1>4 DEF Usable, Unrevoked, Exists
<1>5. CASE Rotates(r, n)
  <2>1. Usable(n)' /\ token'[n].family = token[t].family
    BY <1>2, <1>5, RotateStep DEF Usable, Unrevoked
  <2> QED
    BY <2>1
<1> QED
  BY <1>2, <1>3, <1>4, <1>5 DEF Refresh, Rotates

LEMMA StaleBindsNothing ==
  ASSUME IndInv, NEW r \in stale, req[r].pc = "bind", req[r].kind = "wecom", Bind(r)
  PROVE  factor' = factor
<1>1. TypeOK /\ r \in Request
  BY DEF IndInv, TypeOK
<1>2. req[r].user \in User /\ "wecom" \in Kind /\ req[r].proof \in Snapshot
  BY <1>1, RequestFields, KindTypes
<1>3. SnapshotOf(req[r].user, "wecom").version["wecom"] = version[req[r].user]["wecom"]
  BY <1>2 DEF SnapshotOf
<1>4. version[req[r].user]["wecom"] \in Nat /\ req[r].proof.version["wecom"] \in Nat
  BY <1>1, <1>2 DEF TypeOK, Snapshot
<1>5. req[r].proof.version["wecom"] < version[req[r].user]["wecom"]
  BY <1>1 DEF IndInv, ProofsAge
<1>6. ~ProofHolds(r)
  BY <1>3, <1>4, <1>5 DEF ProofHolds
<1> QED
  BY <1>6 DEF Bind, Binds

-----------------------------------------------------------------------------
(* The theorems                                                            *)

LEMMA InitInvariant == Init => IndInv
<1> SUFFICES ASSUME Init
             PROVE  IndInv
  OBVIOUS
<1>1. \A t \in Token : ~Exists(t)
  BY DEF Init, Exists
<1>2. TypeOK
  BY <1>1 DEF Init, TypeOK, Req, Status
<1>3. OneLivePerFamily /\ LiveIsEntitled /\ FamiliesAgree
  BY <1>1 DEF OneLivePerFamily, LiveIsEntitled, FamiliesAgree, Usable, Unrevoked
<1>4. PresentedExist /\ ProofsAge /\ ExpiredExist
  BY DEF Init, Idle, PresentedExist, ProofsAge, ExpiredExist
<1> QED
  BY <1>2, <1>3, <1>4 DEF IndInv

LEMMA StepInvariant ==
  ASSUME IndInv, Next
  PROVE  IndInv'
<1>0. TypeOK
  BY DEF IndInv
<1>1. TokensTyped' /\ OneLivePerFamily' /\ LiveIsEntitled' /\ FamiliesAgree'
  <2>1. CASE Shrinks
    <3>1. TokensTyped'
      BY <1>0, <2>1, ShrinksTypes DEF Shrinks, TokensTyped
    <3> QED
      BY <2>1, <3>1, ShrinksInvariants
  <2>2. CASE \E r \in Request, t \in Token : Issues(r, t)
    BY <2>2, IssuePreserves
  <2>3. CASE \E r \in Request, n \in Token : Rotates(r, n)
    BY <2>3, RotatePreserves
  <2> QED
    BY <2>1, <2>2, <2>3, StepShape
<1>2. AccountTypes' /\ req' \in [Request -> Req]
  BY <1>0, AccountsTyped, RequestsTyped
<1>3. TypeOK'
  BY <1>1, <1>2 DEF TypeOK, TokensTyped, AccountTypes
<1> QED
  BY <1>1, <1>3, RequestInvariants DEF IndInv

LEMMA StutterInvariant ==
  ASSUME IndInv, UNCHANGED vars
  PROVE  IndInv'
  BY DEF IndInv, vars, TypeOK, OneLivePerFamily, LiveIsEntitled, FamiliesAgree, PresentedExist,
         ProofsAge, ExpiredExist, Exists, Unrevoked, Usable, Matches, Has, CredentialOf, Cred

\* IndInv holds in every reachable state.
THEOREM Invariance == Spec => []IndInv
<1>1. IndInv /\ [Next]_vars => IndInv'
  BY StepInvariant, StutterInvariant
<1> QED
  BY <1>1, InitInvariant, PTL DEF Spec

\* The type invariant of accounts, tokens and requests.
THEOREM TypeCorrect == Spec => []TypeOK
<1>1. IndInv => TypeOK
  BY DEF IndInv
<1> QED
  BY <1>1, Invariance, PTL

\* A family has at most one token that can be rotated, however requests race.
THEOREM OneLive == Spec => []OneLivePerFamily
<1>1. IndInv => OneLivePerFamily
  BY DEF IndInv
<1> QED
  BY <1>1, Invariance, PTL

\* A usable token rests on a credential its user still has.
THEOREM Entitled == Spec => []LiveIsEntitled
<1>1. IndInv => LiveIsEntitled
  BY DEF IndInv
<1> QED
  BY <1>1, Invariance, PTL

\* A refresh that presented a fresh token never closes its family: losing a
\* race to another refresh is not taken for a replay.
THEOREM FreshRefresh == Spec => FreshRefreshKeepsFamily
<1> DEFINE Step == \A r \in Request :
         LET alive == {s \in FamilyOf(req[r].token) : Usable(s)}
             after == {s \in Token : Usable(s)' /\ token'[s].family = token[req[r].token].family}
         IN  req[r].pc = "refresh" /\ ~req[r].replay /\ req'[r] = Idle /\ alive # {}
                => after # {}
<1>1. ASSUME IndInv, Next
      PROVE  Step
  <2> SUFFICES ASSUME NEW r \in Request, req[r].pc = "refresh", ~req[r].replay, req'[r] = Idle,
                      NEW s \in Token, Usable(s), token[s].family = token[req[r].token].family
               PROVE  \E x \in Token : Usable(x)' /\ token'[x].family = token[req[r].token].family
    BY DEF FamilyOf
  <2>1. CASE UNCHANGED <<factor, token, expired>>
    BY <2>1 DEF Usable, Unrevoked, Exists
  <2>2. CASE \E n \in Token : Refresh(r, n)
    BY <1>1, <2>2, RefreshKeeps
  <2> QED
    BY <1>1, <2>1, <2>2, RequestEnds DEF IndInv
<1>2. IndInv /\ [Next]_vars => [Step]_vars
  BY <1>1
<1> QED
  BY <1>2, Invariance, PTL DEF Spec, FreshRefreshKeepsFamily

\* A proof for a WeCom binding that an identity change has overtaken binds
\* nothing, even if the identity has changed back.
THEOREM ProofSpent == Spec => ProofNotRevived
<1> DEFINE Step == \A r \in stale : req[r].pc = "bind" /\ req[r].kind = "wecom" /\ req'[r] = Idle
                      => factor' = factor
<1>1. ASSUME IndInv, Next
      PROVE  Step
  <2> SUFFICES ASSUME NEW r \in stale, req[r].pc = "bind", req[r].kind = "wecom", req'[r] = Idle
               PROVE  factor' = factor
    OBVIOUS
  <2>1. TypeOK /\ r \in Request
    BY <1>1 DEF IndInv, TypeOK
  <2> QED
    BY <1>1, <2>1, RequestEnds, StaleBindsNothing
<1>2. IndInv /\ [Next]_vars => [Step]_vars
  BY <1>1
<1> QED
  BY <1>2, Invariance, PTL DEF Spec, ProofNotRevived

-----------------------------------------------------------------------------
(* Refinement                                                              *)

LEMMA AccountsKept ==
  ASSUME NEW u \in User, Kept(u)
  PROVE  Accounts'[u] = Accounts[u]
  BY DEF Kept, Accounts, CredentialOf, Cred, Has

LEMMA CredentialsTyped ==
  ASSUME TypeOK'
  PROVE  Accounts' \in [User -> SUBSET Credential]
<1>1. ASSUME NEW u \in User, NEW k \in Kind
      PROVE  CredentialOf(u, k)' \in Credential
  <2>1. version'[u][k] \in Nat /\ (k # "password" => factor'[u][k] \in Value \cup {None})
    BY KindTypes DEF TypeOK
  <2> QED
    BY <2>1 DEF CredentialOf, Cred, Credential
<1>2. Accounts' = [u \in User |-> IF status'[u] = "active"
                     THEN {CredentialOf(u, k)' : k \in {i \in Kind : Has(u, i)'}} ELSE {}]
  BY DEF Accounts
<1>3. ASSUME NEW u \in User
      PROVE  Accounts'[u] \in SUBSET Credential
  BY <1>1, <1>2
<1> QED
  BY <1>2, <1>3

\* A session is closed by what revokes its tokens, and stays what it is.
LEMMA SessionShrinks ==
  ASSUME IndInv, OnlyRevokes, expired \subseteq expired', NEW f \in Token
  PROVE  IF SessionOf[f] # None
         THEN /\ SessionOf'[f] = [SessionOf[f] EXCEPT !.open = @ /\ SessionOf'[f].open]
              /\ SessionOf[f].user = token[f].user
              /\ SessionOf'[f].open => \E t \in Token : Usable(t)' /\ token[t].user = token[f].user
         ELSE SessionOf'[f] = None
<1>0. TypeOK
  BY DEF IndInv
<1> DEFINE opens  == \E t \in Token : Usable(t) /\ token[t].family = f
           opens2 == \E t \in Token : Usable(t)' /\ token'[t].family = f
           before == [user |-> token[f].user, under |-> token[f].under, open |-> opens]
           after  == [user |-> token[f].user, under |-> token[f].under, open |-> opens2]
<1>1. \A t \in Token : Usable(t)' => Usable(t) /\ token'[t].family = token[t].family
  BY <1>0, RowsKept DEF Usable, Unrevoked
<1>2. opens2 => opens
  BY <1>1
<1>3. CASE Exists(f) /\ token[f].family = f
  <2>1. token'[f].user = token[f].user /\ token'[f].under = token[f].under
        /\ token'[f].family = f /\ Exists(f)'
    BY <1>0, <1>3, RowsKept
  <2>2. SessionOf[f] = before /\ SessionOf'[f] = after
    BY <1>3, <2>1 DEF SessionOf
  <2>3. before # None
    <3>1. token[f] \in Row
      BY <1>0, <1>3 DEF TypeOK, Exists
    <3>2. before \in Promise!Sessions
      BY <3>1 DEF Promise!Sessions, Row
    <3> QED
      BY <3>2, SessionAssumption
  <2>4. opens2 => \E t \in Token : Usable(t)' /\ token[t].user = token[f].user
    BY <1>1 DEF IndInv, FamiliesAgree, Usable, Unrevoked
  <2>5. after = [before EXCEPT !.open = @ /\ after.open]
    <3>1. (before.open /\ after.open) = after.open
      BY <1>2
    <3>2. after = [before EXCEPT !.open = after.open]
      <4> HIDE DEF opens, opens2
      <4>1. [before EXCEPT !.open = opens2] = after
        OBVIOUS
      <4>2. after.open = opens2
        OBVIOUS
      <4> HIDE DEF before, after
      <4> QED
        BY <4>1, <4>2
    <3> HIDE DEF before, after
    <3> QED
      BY <3>1, <3>2
  <2>6. SessionOf'[f].open <=> opens2
    BY <2>2
  <2> HIDE DEF before, after
  <2>7. SessionOf[f] # None /\ SessionOf'[f] = [SessionOf[f] EXCEPT !.open = @ /\ SessionOf'[f].open]
    BY <2>2, <2>3, <2>5
  <2>8. SessionOf[f].user = token[f].user
    BY <2>2 DEF before
  <2> QED
    BY <2>4, <2>6, <2>7, <2>8
<1>4. CASE ~(Exists(f) /\ token[f].family = f)
  <2>1. ~(Exists(f)' /\ token'[f].family = f)
    BY <1>0, <1>4, RowsKept
  <2> QED
    BY <1>4, <2>1 DEF SessionOf
<1> QED
  BY <1>3, <1>4

LEMMA PromiseShrinks ==
  ASSUME IndInv, TypeOK', Shrinks
  PROVE  Promise!Change
<1>0. TypeOK /\ OnlyRevokes /\ expired \subseteq expired'
  BY DEF IndInv, Shrinks
<1>1. Accounts' \in [User -> SUBSET Credential]
  BY CredentialsTyped
<1>2. Promise!OnlyCloses
  <2>1. SessionOf' = [f \in Token |-> SessionOf'[f]]
    BY DEF SessionOf
  <2>2. \A f \in Token : SessionOf'[f] =
          IF f \in Promise!Existing
          THEN [SessionOf[f] EXCEPT !.open = @ /\ SessionOf'[f].open] ELSE None
    BY <1>0, SessionShrinks DEF Promise!Existing
  <2> QED
    BY <2>1, <2>2 DEF Promise!OnlyCloses
<1>3. ASSUME NEW f \in Promise!Existing, Accounts'[SessionOf[f].user] # Accounts[SessionOf[f].user]
      PROVE  ~SessionOf'[f].open
  <2>1. f \in Token /\ SessionOf[f] # None
    BY <1>3 DEF Promise!Existing
  <2>2. SessionOf[f].user = token[f].user
    BY <1>0, <2>1, SessionShrinks
  <2>3. token[f].user \in User
    BY <1>0, <2>1 DEF SessionOf, TypeOK, Exists, Row
  <2>4. ~Kept(token[f].user)
    BY <1>3, <2>2, <2>3, AccountsKept
  <2>5. \A t \in Token : Usable(t)' => token[t].user # token[f].user
    BY <2>3, <2>4 DEF Shrinks
  <2> QED
    BY <1>0, <2>1, <2>5, SessionShrinks
<1> QED
  BY <1>1, <1>2, <1>3 DEF Promise!Change

LEMMA PromiseOpens ==
  ASSUME IndInv, NEW r \in Request, NEW t \in Token, Issues(r, t)
  PROVE  \E u \in User : \E c \in Accounts[u] : Promise!Open(t, u, c)
<1> DEFINE u == req[r].user
           c == req[r].under
           opens(f)  == \E s \in Token : Usable(s) /\ token[s].family = f
           opens2(f) == \E s \in Token : Usable(s)' /\ token'[s].family = f
<1>0. UNCHANGED <<status, factor, version, expired>>
  BY DEF Issues
<1>1. TypeOK /\ u \in User /\ c \in Credential /\ c.kind \in Kind
  BY RequestFields DEF IndInv, Issues, Credential
<1>2. c \in Accounts[u]
  BY <1>1 DEF Issues, Accepts, Matches, Accounts
<1>3. Accounts' = Accounts
  BY <1>0 DEF Accounts, CredentialOf, Cred, Has
<1>4. SessionOf[t] = None
  BY DEF Issues, SessionOf
<1>5. token'[t].user = u /\ token'[t].family = t /\ token'[t].under = c
  BY <1>1 DEF Issues, TypeOK
<1>6. Usable(t)'
  BY <1>0, <1>5, IssueStep DEF Usable, Unrevoked, IndInv, ExpiredExist, Issues
<1>7. SessionOf'[t] = [user |-> u, under |-> c, open |-> TRUE]
  BY <1>5, <1>6 DEF SessionOf, Usable, Unrevoked
<1>8. ASSUME NEW f \in Token, f # t
      PROVE  SessionOf'[f] = SessionOf[f]
  <2>1. token'[f] = token[f] /\ (Exists(f)' <=> Exists(f))
    BY <1>8, IssueStep
  <2>2. opens2(f) <=> opens(f)
    BY <1>0, <1>5, <1>8, IssueStep DEF Usable, Unrevoked, Issues
  <2> QED
    BY <2>1, <2>2 DEF SessionOf
<1>9. SessionOf' = [SessionOf EXCEPT ![t] = [user |-> u, under |-> c, open |-> TRUE]]
  <2>1. SessionOf' = [f \in Token |-> SessionOf'[f]] /\ SessionOf = [f \in Token |-> SessionOf[f]]
    BY DEF SessionOf
  <2> QED
    BY <1>7, <1>8, <2>1
<1> QED
  BY <1>1, <1>2, <1>3, <1>4, <1>9 DEF Promise!Open

\* Rotation replaces one live row by another: the session stays as it is.
LEMMA PromiseStays ==
  ASSUME IndInv, NEW r \in Request, NEW n \in Token, Rotates(r, n)
  PROVE  UNCHANGED Promise!vars
<1> DEFINE t == req[r].token
           opens(f)  == \E s \in Token : Usable(s) /\ token[s].family = f
           opens2(f) == \E s \in Token : Usable(s)' /\ token'[s].family = f
<1>0. UNCHANGED <<status, factor, version, expired>> /\ token[t].family \notin expired
  BY DEF Rotates
<1>1. Accounts' = Accounts
  BY <1>0 DEF Accounts, CredentialOf, Cred, Has
<1>2. ASSUME NEW f \in Token
      PROVE  SessionOf'[f] = SessionOf[f]
  <2>1. t \in Token /\ Usable(t) /\ Exists(t) /\ n # t
    BY RotateStep
  <2>2. Usable(n)' /\ token'[n].family = token[t].family
    BY <1>0, RotateStep DEF Usable, Unrevoked
  <2>3. opens2(f) <=> opens(f)
    <3>1. CASE f = token[t].family
      BY <2>1, <2>2, <3>1
    <3>2. CASE f # token[t].family
      <4>1. \A s \in {t, n} : token'[s].family # f
        BY <3>2, RotateStep
      <4>2. ASSUME NEW s \in Token, Usable(s), token[s].family = f
            PROVE  Usable(s)' /\ token'[s].family = f
        <5>1. s # t /\ s # n
          BY <3>2, <4>2 DEF Rotates, Usable, Unrevoked
        <5> QED
          BY <1>0, <4>2, <5>1, RotateStep DEF Usable, Unrevoked, Exists
      <4>3. ASSUME NEW s \in Token, Usable(s)', token'[s].family = f
            PROVE  Usable(s) /\ token[s].family = f
        <5>1. s # t /\ s # n
          BY <4>1, <4>3
        <5> QED
          BY <1>0, <4>3, <5>1, RotateStep DEF Usable, Unrevoked, Exists
      <4> QED
        BY <4>2, <4>3
    <3> QED
      BY <3>1, <3>2
  <2>4. CASE f = n
    <3>1. ~Exists(n)
      BY DEF Rotates
    <3>2. token[t].family # n
      BY <2>1, RotateStep
    <3>3. token'[n].family # n
      BY <2>2, <3>2
    <3> QED
      BY <2>4, <3>1, <3>3 DEF SessionOf
  <2>5. CASE f # n
    <3>1. (Exists(f)' <=> Exists(f)) /\ (Exists(f) => /\ token'[f].family = token[f].family
                                                    /\ token'[f].user = token[f].user
                                                    /\ token'[f].under = token[f].under)
      BY <2>5, RotateStep
    <3> QED
      BY <2>3, <3>1 DEF SessionOf
  <2> QED
    BY <2>4, <2>5
<1>3. SessionOf' = SessionOf
  <2>1. SessionOf' = [f \in Token |-> SessionOf'[f]] /\ SessionOf = [f \in Token |-> SessionOf[f]]
    BY DEF SessionOf
  <2> QED
    BY <1>2, <2>1
<1> QED
  BY <1>1, <1>3 DEF Promise!vars

LEMMA PromiseStutters ==
  ASSUME UNCHANGED vars
  PROVE  UNCHANGED Promise!vars
  BY DEF vars, Promise!vars, Accounts, SessionOf, CredentialOf, Cred, Has, Exists, Usable, Unrevoked

LEMMA PromiseStep ==
  IndInv /\ IndInv' /\ [Next]_vars => [Promise!Next]_(Promise!vars)
<1>1. ASSUME IndInv, IndInv', Next
      PROVE  Promise!Next \/ UNCHANGED Promise!vars
  <2>1. CASE Shrinks
    BY <1>1, <2>1, PromiseShrinks DEF IndInv, Promise!Next
  <2>2. CASE \E r \in Request, t \in Token : Issues(r, t)
    BY <1>1, <2>2, PromiseOpens DEF Promise!Next
  <2>3. CASE \E r \in Request, n \in Token : Rotates(r, n)
    BY <1>1, <2>3, PromiseStays
  <2> QED
    BY <1>1, <2>1, <2>2, <2>3, StepShape
<1> QED
  BY <1>1, PromiseStutters

\* Token families, with their rotations, replays and races, are the sessions of
\* the abstract account system.
THEOREM Refinement == Spec => ImplementsSessions
<1>1. Init => Promise!Init
  <2> SUFFICES ASSUME Init PROVE Promise!Init
    OBVIOUS
  <2>1. Accounts = [u \in User |-> {}]
    BY DEF Init, Accounts
  <2>2. SessionOf = [f \in Token |-> None]
    BY DEF Init, SessionOf, Exists
  <2> QED
    BY <2>1, <2>2 DEF Promise!Init
<1> QED
  BY <1>1, PromiseStep, Invariance, PTL DEF Spec, ImplementsSessions, Promise!Spec

-----------------------------------------------------------------------------
(* A closed family stays closed                                            *)

\* The family named f was opened, and none of its tokens is accepted any more.
Closed(f) ==
    /\ Exists(f) /\ token[f].family = f
    /\ \A t \in Token : Usable(t) => token[t].family # f

LEMMA ClosedKept ==
  ASSUME IndInv, [Next]_vars, NEW f \in Token, Closed(f)
  PROVE  Closed(f)'
<1>0. TypeOK
  BY DEF IndInv
<1>1. CASE Shrinks
  <2>1. Exists(f)' /\ token'[f].family = f
    BY <1>0, <1>1, RowsKept DEF Shrinks, Closed
  <2>2. ASSUME NEW t \in Token, Usable(t)' PROVE token'[t].family # f
    <3>1. Unrevoked(t) /\ token'[t].family = token[t].family
      BY <1>0, <1>1, <2>2, RowsKept DEF Shrinks, Usable, Unrevoked
    <3>2. token[t].family \notin expired
      BY <1>1, <2>2, <3>1 DEF Shrinks, Usable
    <3> QED BY <3>1, <3>2 DEF Closed, Usable
  <2> QED BY <2>1, <2>2 DEF Closed
<1>2. ASSUME NEW r \in Request, NEW n \in Token, Issues(r, n) PROVE Closed(f)'
  <2>1. /\ Exists(f)' /\ token'[n].family = n /\ n # f
        /\ \A s \in Token : s # n => token'[s] = token[s] /\ (Exists(s)' <=> Exists(s))
    BY <1>2, IssueStep DEF Closed, Issues
  <2>2. expired' = expired
    BY <1>2 DEF Issues
  <2>3. \A s \in Token : s # n /\ Usable(s)' => Usable(s)
    BY <2>1, <2>2 DEF Usable, Unrevoked
  <2> QED BY <2>1, <2>3 DEF Closed
<1>3. ASSUME NEW r \in Request, NEW n \in Token, Rotates(r, n) PROVE Closed(f)'
  <2> DEFINE t == req[r].token
  <2>1. /\ t \in Token /\ Exists(t) /\ n # t /\ Usable(t)
        /\ \A s \in Token : Exists(s)' <=> (Exists(s) \/ s = n)
        /\ \A s \in Token \ {t, n} : token'[s] = token[s]
        /\ token'[t].family = token[t].family /\ token'[n].family = token[t].family
        /\ token'[t].revoked
    BY <1>3, RotateStep
  <2>2. ~Exists(n) /\ expired' = expired
    BY <1>3 DEF Rotates
  <2>3. token[t].family # f /\ n # f
    BY <2>1, <2>2 DEF Closed
  <2>4. Exists(f)' /\ token'[f].family = f
    BY <2>1, <2>3 DEF Closed
  <2>5. ASSUME NEW s \in Token, Usable(s)' PROVE token'[s].family # f
    <3>1. CASE s \in {t, n}
      BY <2>1, <2>3, <3>1
    <3>2. CASE s \notin {t, n}
      <4>1. Usable(s) /\ token'[s] = token[s]
        BY <2>1, <2>2, <2>5, <3>2 DEF Usable, Unrevoked
      <4> QED BY <4>1 DEF Closed
    <3> QED BY <3>1, <3>2
  <2> QED BY <2>4, <2>5 DEF Closed
<1>4. CASE UNCHANGED vars
  BY <1>4 DEF vars, Closed, Usable, Unrevoked, Exists
<1> QED
  BY <1>1, <1>2, <1>3, <1>4, StepShape

\* Revocation is final: once logout, a replay, a credential change or age has ended
\* a family, no rotation that was on its way brings one of its tokens back
\* (refresh looks at revokedAt and expiresAt again behind the lock).
THEOREM ClosedForGood ==
  ASSUME NEW f \in Token
  PROVE  Spec => [](Closed(f) => []Closed(f))
<1>1. IndInv /\ [Next]_vars /\ Closed(f) => Closed(f)'
  BY ClosedKept
<1> QED
  BY <1>1, Invariance, PTL DEF Spec

\* A refresh that presented a rotated token ends its family, unless it is over age
\* already.
THEOREM ReplayCloses ==
  Spec => [][\A r \in Request, n \in Token :
                Refresh(r, n) /\ req[r].replay =>
                    \A t \in Token : Usable(t)' => token'[t].family # token[req[r].token].family]_vars
<1> DEFINE Step == \A r \in Request, n \in Token :
                Refresh(r, n) /\ req[r].replay =>
                    \A t \in Token : Usable(t)' => token'[t].family # token[req[r].token].family
<1>1. ASSUME IndInv PROVE Step
  <2> SUFFICES ASSUME NEW r \in Request, NEW n \in Token, Refresh(r, n), req[r].replay,
                      NEW t \in Token, Usable(t)',
                      token'[t].family = token[req[r].token].family
               PROVE  FALSE
    OBVIOUS
  <2> DEFINE p == req[r].token
  <2>1. p \in Token /\ expired' = expired /\ TypeOK
    BY <1>1, RequestFields DEF Refresh, IndInv
  <2>2. CASE token[p].family \in expired /\ token' = token
    BY <2>1, <2>2 DEF Usable
  <2>3. CASE token' = Revoked(FamilyOf(p))
    <3>1. /\ FamilyOf(p) \in SUBSET Token /\ \A s \in FamilyOf(p) : Exists(s)
      BY DEF FamilyOf, Unrevoked
    <3>2. OnlyRevokes /\ \A s \in FamilyOf(p) : ~Unrevoked(s)'
      BY <2>1, <2>3, <3>1, RevokedShape
    <3>3. Unrevoked(t) /\ token[t].family = token[p].family
      BY <2>1, <3>2, RowsKept DEF Usable, Unrevoked
    <3> QED BY <3>2, <3>3 DEF FamilyOf, Usable
  <2> QED BY <2>2, <2>3 DEF Refresh, Condemns, IsReplay
<1>2. IndInv /\ [Next]_vars => [Step]_vars
  BY <1>1
<1> QED
  BY <1>2, Invariance, PTL DEF Spec

-----------------------------------------------------------------------------
(* An identity opens sessions of one account                               *)

\* A phone, openid or WeCom account is that of one user, deleted ones included.
UniqueIdentities ==
    \A u, v \in User, k \in Identity :
        factor[u][k] = factor[v][k] /\ factor[u][k] # None => u = v

\* At most one value comes into use, and it was nobody's.
LEMMA UniqueKept ==
  ASSUME UniqueIdentities,
         NEW w, NEW k, NEW x,
         \A u \in User, i \in Identity :
             factor'[u][i] \in {factor[u][i], None} \/ (u = w /\ i = k /\ factor'[u][i] = x),
         x = None \/ ~Taken(k, x)
  PROVE  UniqueIdentities'
<1> SUFFICES ASSUME NEW u \in User, NEW v \in User, NEW i \in Identity,
                    factor'[u][i] = factor'[v][i], factor'[u][i] # None
             PROVE  u = v
  BY DEF UniqueIdentities
<1>1. CASE factor'[u][i] = factor[u][i] /\ factor'[v][i] = factor[v][i]
  <2>1. factor[u][i] = factor[v][i] /\ factor[u][i] # None
    BY <1>1
  <2> QED BY <2>1, Zenon DEF UniqueIdentities
<1>2. CASE factor'[u][i] # factor[u][i]
  <2>1. u = w /\ i = k /\ factor'[u][i] = x /\ ~Taken(k, x)
    BY <1>2
  <2> QED BY <2>1 DEF Taken
<1>3. CASE factor'[v][i] # factor[v][i]
  <2>1. v = w /\ i = k /\ factor'[v][i] = x /\ ~Taken(k, x)
    BY <1>3
  <2> QED BY <2>1 DEF Taken
<1> QED
  BY <1>1, <1>2, <1>3

LEMMA UniqueStep ==
  ASSUME IndInv, [Next]_vars, UniqueIdentities
  PROVE  UniqueIdentities'
<1>0. TypeOK /\ factor \in [User -> [Identity -> Value \cup {None}]]
  BY DEF IndInv, TypeOK
<1>1. CASE UNCHANGED factor
  BY <1>1 DEF UniqueIdentities
<1>2. ASSUME NEW u \in User, NEW k \in Identity, NEW x \in Value \cup {None}, SetIdentity(u, k, x),
             x = None \/ ~Taken(k, x)
      PROVE  UniqueIdentities'
  <2>1. \A v \in User, i \in Identity :
           factor'[v][i] \in {factor[v][i], None} \/ (v = u /\ i = k /\ factor'[v][i] = x)
    BY <1>0, <1>2 DEF SetIdentity
  <2> QED BY <1>2, <2>1, UniqueKept
<1>3. ASSUME NEW r \in Request, Bind(r) PROVE UniqueIdentities'
  <2>1. req[r].user \in User /\ req[r].kind \in Identity /\ req[r].value \in Value
    BY <1>0, <1>3, RequestFields DEF Bind
  <2> QED BY <1>1, <1>2, <1>3, <2>1 DEF Bind, Binds
<1>4. ASSUME NEW r \in Request, PreBind(r) PROVE UniqueIdentities'
  <2>1. req[r].user \in User /\ req[r].kind \in Identity /\ req[r].value \in Value
    BY <1>0, <1>4, RequestFields DEF PreBind
  <2> QED BY <1>1, <1>2, <1>4, <2>1 DEF PreBind
<1>5. ASSUME NEW u \in User, NEW k \in Identity, ClearIdentity(u, k) PROVE UniqueIdentities'
  BY <1>2, <1>5 DEF ClearIdentity
<1>6. ASSUME NEW v \in User, NEW k \in Identity, NEW x \in Value \cup {None}, Create(v, k, x)
      PROVE  UniqueIdentities'
  <2>1. \A u \in User, i \in Identity :
           factor'[u][i] \in {factor[u][i], None} \/ (u = v /\ i = k /\ factor'[u][i] = x)
    BY <1>0, <1>6 DEF Create
  <2>2. x = None \/ ~Taken(k, x)
    BY <1>6 DEF Create, Add
  <2> QED BY <2>1, <2>2, UniqueKept
<1>7. ASSUME NEW u \in User, SoftDelete(u) PROVE UniqueIdentities'
  <2>1. \A v \in User, i \in Identity : factor'[v][i] \in {factor[v][i], None}
    BY <1>0, <1>7 DEF SoftDelete, GivenUp
  <2> QED BY <2>1, UniqueKept
<1>8. ASSUME NEW u \in User, NEW v \in User, NEW x \in Value, Reopen(u, v, x) PROVE UniqueIdentities'
  <2>1. "phone" \in Identity /\ u # v /\ (x = None \/ ~Taken("phone", x))
    BY <1>8 DEF Reopen, Add
  <2>2. \A w \in User, i \in Identity :
           factor'[w][i] \in {factor[w][i], None} \/ (w = v /\ i = "phone" /\ factor'[w][i] = x)
    <3>1. factor' = [factor EXCEPT ![u] = GivenUp(u), ![v]["phone"] = x]
      BY <1>8 DEF Reopen
    <3>2. \A i \in Identity : GivenUp(u)[i] \in {factor[u][i], None}
      BY DEF GivenUp
    <3>3. factor'[u] = GivenUp(u)
      BY <1>0, <2>1, <3>1
    <3>4. factor'[v] = [factor[v] EXCEPT !["phone"] = x]
      BY <1>0, <2>1, <3>1
    <3>5. \A w \in User : w # u /\ w # v => factor'[w] = factor[w]
      BY <1>0, <3>1
    <3> QED BY <1>0, <3>2, <3>3, <3>4, <3>5
  <2> QED BY <2>1, <2>2, UniqueKept
<1>9. ASSUME NEW u \in User, LogoutAll(u) \/ AdminSetPassword(u) \/ Disable(u) \/ Enable(u)
      PROVE  UniqueIdentities'
  BY <1>1, <1>9 DEF LogoutAll, AdminSetPassword, Disable, Enable
<1>10. CASE Read
  BY <1>1, <1>10
     DEF Read, VerifyFactor, PresentToken, PresentForLogout, VerifyPassword, StepUp, VerifyPhone
<1>11. ASSUME NEW r \in Request,
              \/ \E t \in Token : CreateSession(r, t) \/ Refresh(r, t)
              \/ Logout(r) \/ ChangePassword(r) \/ Abandon(r)
       PROVE  UniqueIdentities'
  BY <1>1, <1>11 DEF CreateSession, Refresh, Logout, ChangePassword, Abandon
<1>12. CASE (\E f \in Token : Expire(f)) \/ UNCHANGED vars
  BY <1>1, <1>12 DEF Expire, vars
<1> QED
  BY <1>3, <1>4, <1>5, <1>6, <1>7, <1>8, <1>9, <1>10, <1>11, <1>12
     DEF Next, Transaction, Administration

\* Whoever shows control of one phone, openid or WeCom account reaches one account:
\* all the sessions that are accepted under it are of the same user, even right
\* after it has moved from one account to another.
OneAccountPerIdentity ==
    \A s, t \in Token :
        /\ Usable(s) /\ Usable(t)
        /\ token[s].under.kind = token[t].under.kind /\ token[s].under.kind # "password"
        /\ token[s].under.value = token[t].under.value
        => token[s].user = token[t].user

THEOREM IdentityReachesOne == Spec => []OneAccountPerIdentity
<1>1. Init => UniqueIdentities
  BY DEF Init, UniqueIdentities
<1>2. Spec => []UniqueIdentities
  <2>1. IndInv /\ [Next]_vars /\ UniqueIdentities => UniqueIdentities'
    BY UniqueStep
  <2> QED BY <1>1, <2>1, Invariance, PTL DEF Spec
<1>3. IndInv /\ UniqueIdentities => OneAccountPerIdentity
  <2> SUFFICES ASSUME IndInv, UniqueIdentities, NEW s \in Token, NEW t \in Token,
                      Usable(s), Usable(t),
                      token[s].under.kind = token[t].under.kind, token[s].under.kind # "password",
                      token[s].under.value = token[t].under.value
               PROVE  token[s].user = token[t].user
    BY DEF OneAccountPerIdentity
  <2> DEFINE k == token[s].under.kind
  <2>1. ASSUME NEW x \in Token, Usable(x), token[x].under.kind # "password"
        PROVE  LET c == token[x].under IN
               /\ token[x].user \in User /\ c.kind \in Identity
               /\ factor[token[x].user][c.kind] = c.value /\ c.value # None
    <3>1. token[x] \in Row
      BY <2>1 DEF Usable, Unrevoked, Exists, IndInv, TypeOK
    <3>2. token[x].user \in User /\ token[x].under.kind \in Kind
      BY <3>1 DEF Row, Credential
    <3>3. Matches(token[x].user, token[x].under)
      BY <2>1 DEF IndInv, LiveIsEntitled
    <3>4. /\ factor[token[x].user][token[x].under.kind] # None
          /\ token[x].under.value = factor[token[x].user][token[x].under.kind]
      BY <2>1, <3>3 DEF Matches, Has, CredentialOf, Cred
    <3> QED BY <2>1, <3>2, <3>4, KindTypes
  <2>2. /\ token[s].user \in User /\ k \in Identity /\ factor[token[s].user][k] = token[s].under.value
        /\ token[s].under.value # None
    BY <2>1
  <2>3. token[t].user \in User /\ factor[token[t].user][k] = token[s].under.value
    BY <2>1
  <2> QED BY <2>2, <2>3 DEF UniqueIdentities
<1> QED
  BY <1>2, <1>3, Invariance, PTL
=============================================================================
