---------------------------- MODULE AuthSessions ----------------------------
(***************************************************************************)
(* Refresh-token sessions (auth.service.ts) and everything that revokes    *)
(* them.  The row lock on the User is the one point where issuing,         *)
(* rotating and revoking meet: a transaction behind it is one step here.   *)
(* What a request reads BEFORE it has the lock - a verified password, the  *)
(* token it presents, a step-up proof - is a step of its own, kept in req, *)
(* and may be stale when the transaction runs.                             *)
(*                                                                         *)
(* A credential is what createSession compares again behind the lock: a    *)
(* password hash (never the same twice: bcrypt salts it), the phone, the   *)
(* openid, or the row of the WeCom identity.  A request may fail or its    *)
(* process die at any moment before its transaction commits.               *)
(***************************************************************************)
EXTENDS Integers, FiniteSets

CONSTANTS
    User,
    Token,        \* refresh token rows; a family bears the name of its first
    Request,      \* requests that span a read and a transaction
    Identity,     \* kinds of identity in use: phone, openid, wecom
    Value,        \* phone numbers, openids and WeCom user ids
    MaxVersion,   \* bound, by kind: changes of one credential of one user
    None

Kind == {"password"} \cup Identity

ASSUME KindAssumption == Identity \subseteq {"phone", "openid", "wecom"}
ASSUME BoundAssumption == MaxVersion \in [Kind -> Nat]

VARIABLES
    status,    \* UserStatus and deletedAt
    factor,    \* User.phone, User.openid, the active WecomIdentity
    version,   \* changes of hash, phone (phoneVerifiedAt) and WeCom identity
    token,     \* RefreshToken rows
    expired,   \* families past their absolute expiry
    req,       \* requests between their first read and their transaction
    stale      \* history: proofs whose identity has changed since

vars == <<status, factor, version, token, expired, req, stale>>

Status == {"absent", "active", "disabled", "deleted"}
Live == {"active", "disabled"}
Credential == [kind : Kind, value : Value \cup {None}, version : Nat]

Row == [user : User, family : Token, under : Credential, rotated : BOOLEAN, revoked : BOOLEAN]
ASSUME NoneAssumption == None \notin Value /\ None \notin Row

Snapshot == [factor : [Identity -> Value \cup {None}], version : [Kind -> Nat]]
Idle == [pc |-> "idle"]
Req == {Idle}
    \cup [pc : {"login"}, user : User, under : Credential]
    \cup [pc : {"refresh"}, token : Token, replay : BOOLEAN]
    \cup [pc : {"logout"}, token : Token]
    \cup [pc : {"password"}, user : User, version : Nat, phone : Value \cup {None}]
    \cup [pc : {"bind"}, user : User, kind : Identity, value : Value, proof : Snapshot]
    \cup [pc : {"prebind"}, user : User, kind : Identity, value : Value, phone : Value]

-----------------------------------------------------------------------------
(* Accounts and credentials                                                *)

Has(u, k) == k # "password" => factor[u][k] # None

\* What a session is opened under: a password hash and a WeCom row are told
\* apart by the number of the change that made them.
Cred(k, v, n) ==
    [kind    |-> k,
     value   |-> v,
     version |-> IF k \in {"password", "wecom"} THEN n ELSE 0]

CredentialOf(u, k) == Cred(k, IF k = "password" THEN None ELSE factor[u][k], version[u][k])

Matches(u, c) == status[u] = "active" /\ Has(u, c.kind) /\ CredentialOf(u, c.kind) = c

\* computeCredentialSnapshot and computeActionSnapshot: hash, phone with the
\* time of its verification, openid; for a WeCom binding also identity and
\* generation.
SnapshotOf(u, k) ==
    [factor  |-> [i \in Identity |-> IF i = "wecom" /\ k # "wecom" THEN None ELSE factor[u][i]],
     version |-> [i \in Kind |-> CASE i = "password" -> version[u][i]
                                   [] i = "phone"    -> IF factor[u][i] = None THEN 0 ELSE version[u][i]
                                   [] i = "wecom" /\ k = "wecom" -> version[u][i]
                                   [] OTHER -> 0]]

\* User.phone and User.openid are unique over all rows, deleted ones included;
\* a WeCom account over the active identities.
Taken(k, v) == \E u \in User : factor[u][k] = v

\* mutant: the generation does not count changes of the WeCom identity
BumpedNotWecom(u, k) ==
    [version EXCEPT ![u][k] = IF k = "password" THEN @ + 1 ELSE @]

\* User.openid has no companion column that counts its changes.
Bumped(u, k) ==
    [version EXCEPT ![u][k] = IF k = "openid" THEN @ ELSE @ + 1]

CanBump(u, k) == k = "openid" \/ version[u][k] < MaxVersion[k]

\* The proofs that an identity change of user u and kind k makes stale.
Outdated(u, k) ==
    {r \in Request : req[r].pc = "bind" /\ req[r].user = u /\ req[r].kind = k}

-----------------------------------------------------------------------------
(* Tokens                                                                  *)

Exists(t) == token[t] # None
Unrevoked(t) == Exists(t) /\ ~token[t].revoked
Usable(t) == Unrevoked(t) /\ token[t].family \notin expired

\* The rows in T, revoked.
Revoked(T) == [t \in Token |-> IF t \in T THEN [token[t] EXCEPT !.revoked = TRUE] ELSE token[t]]

TokensOf(u) == {t \in Token : Usable(t) /\ token[t].user = u}
FamilyOf(t) == {s \in Token : Unrevoked(s) /\ token[s].family = token[t].family}

RevokeAll(u) == token' = Revoked(TokensOf(u))

Begin(r, q) ==
    /\ req[r] = Idle
    /\ req' = [req EXCEPT ![r] = q]

End(r) == req' = [req EXCEPT ![r] = Idle] /\ stale' = stale \ {r}

-----------------------------------------------------------------------------
(* Signing in                                                              *)

\* login, loginSms, login-wechat and login-wecom up to createSession: the
\* credential has been verified against what was read without a lock.
VerifyFactor(r, u, k) ==
    /\ status[u] = "active" /\ Has(u, k)
    /\ Begin(r, [pc |-> "login", user |-> u, under |-> CredentialOf(u, k)])
    /\ UNCHANGED <<status, factor, version, token, expired, stale>>

\* mutant: createSession compares only the status again
AcceptsActive(r) == status[req[r].user] = "active"

\* matchesSessionExpectation and matchesWecomIdentityExpectation.
Accepts(r) == Matches(req[r].user, req[r].under)

CreateSession(r, t) ==
    /\ req[r].pc = "login"
    /\ \/ Accepts(r) /\ ~Exists(t)
          /\ token' = [token EXCEPT ![t] = [user |-> req[r].user, family |-> t,
                         under |-> req[r].under, rotated |-> FALSE, revoked |-> FALSE]]
       \/ ~Accepts(r) /\ UNCHANGED token
    /\ End(r)
    /\ UNCHANGED <<status, factor, version, expired>>

-----------------------------------------------------------------------------
(* Rotation and logout                                                     *)

\* refresh before its transaction: a row that is unknown, expired, or revoked
\* without having been rotated ends the request.
PresentToken(r, t) ==
    /\ Exists(t) /\ token[t].family \notin expired
    /\ token[t].rotated \/ ~token[t].revoked
    /\ Begin(r, [pc |-> "refresh", token |-> t, replay |-> token[t].rotated])
    /\ UNCHANGED <<status, factor, version, token, expired, stale>>

\* mutants: a replay is told by the row behind the lock; a row is rotated
\* whatever has become of it, or whatever has been revoked; rotation leaves the
\* old row unrevoked
IsReplayOnceLocked(r) == token[req[r].token].rotated
RotatableAlways(t) == TRUE
RotatableIfRevoked(t) == ~token[t].rotated
RotatedOnly(row) == [row EXCEPT !.rotated = TRUE]

IsReplay(r) == req[r].replay
Rotatable(t) == ~token[t].rotated /\ ~token[t].revoked
Rotated(row) == [row EXCEPT !.rotated = TRUE, !.revoked = TRUE]
Sibling(row) == [row EXCEPT !.rotated = FALSE, !.revoked = FALSE]

Condemns(r) ==
    \/ IsReplay(r)
    \/ Rotatable(req[r].token) /\ status[token[req[r].token].user] # "active"

\* The transaction of refresh; n is the row it inserts if it rotates t.
Refresh(r, n) ==
    LET t == req[r].token
        over == token[t].family \in expired IN
    /\ req[r].pc = "refresh"
    /\ \/ ~over /\ Condemns(r) /\ token' = Revoked(FamilyOf(t))
       \/ ~over /\ ~Condemns(r) /\ Rotatable(t) /\ ~Exists(n)
          /\ token' = [token EXCEPT ![t] = Rotated(token[t]), ![n] = Sibling(token[t])]
       \/ (over \/ (~Condemns(r) /\ ~Rotatable(t))) /\ UNCHANGED token
    /\ End(r)
    /\ UNCHANGED <<status, factor, version, expired>>

PresentForLogout(r, t) ==
    /\ Exists(t) /\ token[t].family \notin expired
    /\ Begin(r, [pc |-> "logout", token |-> t])
    /\ UNCHANGED <<status, factor, version, token, expired, stale>>

\* logout revokes the family of the row it finds, rotated or not.
Logout(r) ==
    /\ req[r].pc = "logout"
    /\ token' = IF token[req[r].token].family \in expired THEN token ELSE Revoked(FamilyOf(req[r].token))
    /\ End(r)
    /\ UNCHANGED <<status, factor, version, expired>>

LogoutAll(u) ==
    /\ TokensOf(u) # {}
    /\ RevokeAll(u)
    /\ UNCHANGED <<status, factor, version, expired, req, stale>>

\* Time passes: siblings inherit expiresAt, so a family expires as one.
Expire(f) ==
    /\ Exists(f) /\ token[f].family = f /\ f \notin expired
    /\ expired' = expired \cup {f}
    /\ UNCHANGED <<status, factor, version, token, req, stale>>

-----------------------------------------------------------------------------
(* Changing credentials                                                    *)

\* changeMyPassword (by the old password, phone = None) and reset by SMS
\* (resolveActiveUserByPhone) before their transactions.
VerifyPassword(r, u, p) ==
    /\ status[u] = "active"
    /\ p = None \/ ("phone" \in Identity /\ factor[u]["phone"] = p)
    /\ Begin(r, [pc |-> "password", user |-> u, version |-> version[u]["password"], phone |-> p])
    /\ UNCHANGED <<status, factor, version, token, expired, stale>>

StillVerified(r) ==
    /\ status[req[r].user] = "active"
    /\ version[req[r].user]["password"] = req[r].version
    /\ req[r].phone # None => factor[req[r].user]["phone"] = req[r].phone

SetPassword(u) ==
    /\ CanBump(u, "password")
    /\ version' = Bumped(u, "password")
    /\ RevokeAll(u)

ChangePassword(r) ==
    /\ req[r].pc = "password"
    /\ IF StillVerified(r) THEN SetPassword(req[r].user) ELSE UNCHANGED <<version, token>>
    /\ End(r)
    /\ UNCHANGED <<status, factor, expired>>

\* resetPassword by an administrator.
AdminSetPassword(u) ==
    /\ status[u] \in Live
    /\ SetPassword(u)
    /\ UNCHANGED <<status, factor, expired, req, stale>>

\* A new value for an identity of u; v = None takes it away.  Every session of
\* the user goes with it.
SetIdentity(u, k, v) ==
    /\ CanBump(u, k)
    /\ factor' = [factor EXCEPT ![u][k] = v]
    /\ version' = Bumped(u, k)
    /\ RevokeAll(u)

\* A step-up proof, and control of the new phone, openid or WeCom account shown.
StepUp(r, u, k, v) ==
    /\ status[u] = "active"
    /\ Begin(r, [pc |-> "bind", user |-> u, kind |-> k, value |-> v, proof |-> SnapshotOf(u, k)])
    /\ UNCHANGED <<status, factor, version, token, expired, stale>>

ProofHolds(r) ==
    /\ status[req[r].user] = "active"
    /\ SnapshotOf(req[r].user, req[r].kind) = req[r].proof

\* bindMyPhone, bindMyWechat, bindMyWecom: a value already bound to the user
\* changes nothing, one bound to somebody else is refused.
Binds(r) == ProofHolds(r) /\ ~Taken(req[r].kind, req[r].value)

Bind(r) ==
    LET u == req[r].user  k == req[r].kind IN
    /\ req[r].pc = "bind"
    /\ req' = [req EXCEPT ![r] = Idle]
    /\ IF Binds(r)
       THEN SetIdentity(u, k, req[r].value) /\ stale' = (stale \cup Outdated(u, k)) \ {r}
       ELSE UNCHANGED <<factor, version, token>> /\ stale' = stale \ {r}
    /\ UNCHANGED <<status, expired>>

\* wechat-bind and wecom-bind before signing in: an SMS code has shown control
\* of the user's phone.
VerifyPhone(r, u, k, v) ==
    /\ status[u] = "active" /\ "phone" \in Identity /\ factor[u]["phone"] # None
    /\ k # "phone"
    /\ Begin(r, [pc |-> "prebind", user |-> u, kind |-> k, value |-> v, phone |-> factor[u]["phone"]])
    /\ UNCHANGED <<status, factor, version, token, expired, stale>>

PhoneHolds(r) ==
    status[req[r].user] = "active" /\ factor[req[r].user]["phone"] = req[r].phone

\* Its first transaction binds; the session is created by a second one, under
\* the identity that was bound or found.
PreBind(r) ==
    LET u == req[r].user  k == req[r].kind IN
    /\ req[r].pc = "prebind"
    /\ \/ PhoneHolds(r) /\ ~Taken(k, req[r].value)
          /\ SetIdentity(u, k, req[r].value) /\ stale' = stale \cup Outdated(u, k)
          /\ req' = [req EXCEPT ![r] = [pc |-> "login", user |-> u, under |-> Cred(k, req[r].value, version'[u][k])]]
       \/ PhoneHolds(r) /\ factor[u][k] = req[r].value
          /\ req' = [req EXCEPT ![r] = [pc |-> "login", user |-> u, under |-> CredentialOf(u, k)]]
          /\ UNCHANGED <<factor, version, token, stale>>
       \/ (~PhoneHolds(r) \/ (Taken(k, req[r].value) /\ factor[u][k] # req[r].value))
          /\ End(r) /\ UNCHANGED <<factor, version, token>>
    /\ UNCHANGED <<status, expired>>

\* clearUserPhone, clearUserWechat, clearUserWecom.
ClearIdentity(u, k) ==
    /\ status[u] \in Live /\ factor[u][k] # None
    /\ SetIdentity(u, k, None)
    /\ stale' = stale \cup Outdated(u, k)
    /\ UNCHANGED <<status, expired, req>>

-----------------------------------------------------------------------------
(* Accounts                                                                *)

\* create, grantAccount and promotion: a user, perhaps with a phone or openid.
Add(v, k, x) ==
    /\ status[v] = "absent"
    /\ x # None => k # "wecom" /\ ~Taken(k, x)

Create(v, k, x) ==
    /\ Add(v, k, x)
    /\ status' = [status EXCEPT ![v] = "active"]
    /\ factor' = [factor EXCEPT ![v][k] = x]
    /\ UNCHANGED <<version, token, expired, req, stale>>

\* updateStatus, updateAccountStatus and the account part of offboard: the
\* identities stay, sessions go if the account is disabled.
Disable(u) ==
    /\ status[u] \in Live
    /\ status' = [status EXCEPT ![u] = "disabled"]
    /\ RevokeAll(u)
    /\ UNCHANGED <<factor, version, expired, req, stale>>

Enable(u) ==
    /\ status[u] = "disabled"
    /\ status' = [status EXCEPT ![u] = "active"]
    /\ UNCHANGED <<factor, version, token, expired, req, stale>>

\* softDelete keeps phone and openid occupied and gives the WeCom account up.
Deleted(u) ==
    LET wecom == "wecom" \in Identity /\ factor[u]["wecom"] # None IN
    /\ status[u] \in Live
    /\ wecom => CanBump(u, "wecom")
    /\ version' = IF wecom THEN Bumped(u, "wecom") ELSE version
    /\ stale' = IF wecom THEN stale \cup Outdated(u, "wecom") ELSE stale
    /\ RevokeAll(u)
    /\ UNCHANGED <<expired, req>>

GivenUp(u) == [k \in Identity |-> IF k = "wecom" THEN None ELSE factor[u][k]]

SoftDelete(u) ==
    /\ Deleted(u)
    /\ status' = [status EXCEPT ![u] = "deleted"]
    /\ factor' = [factor EXCEPT ![u] = GivenUp(u)]

\* reopenAccount: the old user is deleted and a new one gets the given phone.
Reopen(u, v, x) ==
    /\ "phone" \in Identity /\ x # None /\ u # v
    /\ Deleted(u) /\ Add(v, "phone", x)
    /\ status' = [status EXCEPT ![u] = "deleted", ![v] = "active"]
    /\ factor' = [factor EXCEPT ![u] = GivenUp(u), ![v]["phone"] = x]

\* A request fails, or its process dies, before its transaction commits.
Abandon(r) ==
    /\ req[r] # Idle
    /\ End(r)
    /\ UNCHANGED <<status, factor, version, token, expired>>

-----------------------------------------------------------------------------
Init ==
    /\ status = [u \in User |-> "absent"]
    /\ factor = [u \in User |-> [k \in Identity |-> None]]
    /\ version = [u \in User |-> [k \in Kind |-> 0]]
    /\ token = [t \in Token |-> None]
    /\ expired = {} /\ stale = {}
    /\ req = [r \in Request |-> Idle]

Read ==
    \E r \in Request :
        \/ \E u \in User, k \in Kind : VerifyFactor(r, u, k)
        \/ \E t \in Token : PresentToken(r, t)
        \/ \E t \in Token : PresentForLogout(r, t)
        \/ \E u \in User, p \in Value \cup {None} : VerifyPassword(r, u, p)
        \/ \E u \in User, k \in Identity, v \in Value : StepUp(r, u, k, v)
        \/ \E u \in User, k \in Identity, v \in Value : VerifyPhone(r, u, k, v)

Transaction ==
    \E r \in Request :
        \/ \E t \in Token : CreateSession(r, t)
        \/ \E n \in Token : Refresh(r, n)
        \/ Logout(r)
        \/ ChangePassword(r)
        \/ Bind(r)
        \/ PreBind(r)
        \/ Abandon(r)

Administration ==
    \E u \in User :
        \/ LogoutAll(u)
        \/ AdminSetPassword(u)
        \/ Disable(u)
        \/ Enable(u)
        \/ SoftDelete(u)
        \/ \E k \in Identity : ClearIdentity(u, k)
        \/ \E k \in Identity, x \in Value \cup {None} : Create(u, k, x)
        \/ \E v \in User, x \in Value : Reopen(u, v, x)

Next == Read \/ Transaction \/ Administration \/ \E f \in Token : Expire(f)

Spec == Init /\ [][Next]_vars

-----------------------------------------------------------------------------
(* Properties                                                              *)

\* Types; a rotated row is revoked as well, a row names the first of its family.
TypeOK ==
    /\ status \in [User -> Status]
    /\ factor \in [User -> [Identity -> Value \cup {None}]]
    /\ version \in [User -> [Kind -> Nat]]
    /\ token \in [Token -> Row \cup {None}]
    /\ \A t \in Token : Exists(t) =>
          /\ token[t].rotated => token[t].revoked
          /\ Exists(token[t].family)
    /\ expired \subseteq Token
    /\ req \in [Request -> Req]
    /\ stale \subseteq Request

\* However refreshes, logouts and revocations race (auth.service.ts refresh), a
\* family never has two tokens that can be rotated: a copied token is either
\* dead or gives itself away as a replay.
OneLivePerFamily ==
    \A s, t \in Token :
        Unrevoked(s) /\ Unrevoked(t) /\ token[s].family = token[t].family => s = t

\* A token that can still be rotated belongs to an active user who still has the
\* credential its family was opened under: no login, rotation or binding that
\* started before a change of the credential outlives the change (createSession
\* behind lockAuthSessionUser, and the revocations of users.service.ts).
LiveIsEntitled ==
    \A t \in Token : Usable(t) => Matches(token[t].user, token[t].under)

\* A refresh whose token was fresh when it was presented may lose a race, but
\* never closes the family: only a token that was already rotated when it
\* arrived counts as a replay (refresh, replayObserved).
FreshRefreshKeepsFamily ==
    [][\A r \in Request :
         LET alive == {s \in FamilyOf(req[r].token) : Usable(s)}
             after == {s \in Token : Usable(s)' /\ token'[s].family = token[req[r].token].family}
         IN  req[r].pc = "refresh" /\ ~req[r].replay /\ req'[r] = Idle /\ alive # {}
                => after # {}]_vars

\* A step-up proof for a WeCom binding does not come back to life: once the
\* identity has changed in whatever way, and perhaps changed back, it binds
\* nothing (computeActionSnapshot with wecomIdentityVersion).
ProofNotRevived ==
    [][\A r \in stale : req[r].pc = "bind" /\ req[r].kind = "wecom" /\ req'[r] = Idle
         => factor' = factor]_vars

-----------------------------------------------------------------------------
(* Refinement                                                              *)

Accounts ==
    [u \in User |-> IF status[u] = "active"
                    THEN {CredentialOf(u, k) : k \in {i \in Kind : Has(u, i)}} ELSE {}]

\* A family is one session: open while one of its rows can be rotated.
SessionOf ==
    [f \in Token |-> IF Exists(f) /\ token[f].family = f
                     THEN [user |-> token[f].user, under |-> token[f].under,
                           open |-> \E t \in Token : Usable(t) /\ token[t].family = f]
                     ELSE None]

Promise == INSTANCE Sessions WITH Session <- Token, account <- Accounts, session <- SessionOf
ASSUME SessionAssumption == None \notin Promise!Sessions

\* Token families implement sessions: opened once under a valid credential,
\* closed for good, and closed by every change of the account.
ImplementsSessions == Promise!Spec
=============================================================================
