------------------------------ MODULE SmsCodes ------------------------------
(***************************************************************************)
(* SMS verification codes (sms-code.service.ts).  Issuing is a transaction *)
(* that first takes the advisory locks of its phone and of its phone and   *)
(* purpose, reads what the limits are about, and writes at the end.        *)
(* Verifying compares the code on a plain read and then updates it under   *)
(* conditions; nothing is locked between the two.                          *)
(*                                                                         *)
(* The owner of a code, the guess and the answer of the provider are left  *)
(* out: none of them changes a row.                                        *)
(***************************************************************************)
EXTENDS Integers, FiniteSets

CONSTANTS
    Phone, Purpose,
    Code,          \* rows of sms_verification_codes
    Issuer,        \* concurrent calls of issue
    Verifier,      \* concurrent calls of assertValid and verifyAndConsume
    Limit,         \* SMS_PHONE_DAILY_LIMIT
    Interval,      \* SMS_SEND_MIN_INTERVAL_SECONDS
    Ttl,           \* SMS_CODE_TTL_SECONDS
    MaxAttempts,   \* SMS_CODE_MAX_ATTEMPTS
    Midnights,     \* the instants startOfDayUtc8 returns
    MaxClock,      \* bound of the explored time
    None

ASSUME LimitAssumption ==
    /\ Limit \in Nat /\ Interval \in Nat \ {0} /\ Ttl \in Nat
    /\ MaxAttempts \in Nat \ {0} /\ MaxClock \in Nat
    /\ Midnights \subseteq Nat
ASSUME CodeAssumption == IsFiniteSet(Code)

VARIABLES
    clock,
    row,       \* [Code -> row or None]
    issue,     \* [Issuer -> the transaction it is in]
    verify     \* [Verifier -> the code it has compared]

vars == <<clock, row, issue, verify>>

Row == [phone : Phone, purpose : Purpose, createdAt : Nat, expiresAt : Nat,
        consumed : BOOLEAN, superseded : BOOLEAN, attempts : 0..MaxAttempts]

Sent == [phone : Phone, purpose : Purpose, time : Nat]

ASSUME NoneAssumption == None \notin Row /\ None \notin Sent

Idle == [pc |-> "idle"]
Issuing == {Idle} \cup [pc : {"granted"}, phone : Phone, purpose : Purpose, now : Nat]
Verifying == {Idle} \cup [pc : {"right", "wrong"}, code : Code]

Exists(c) == row[c] # None
Of(p) == {c \in Code : Exists(c) /\ row[c].phone = p}
Live(c) == Exists(c) /\ ~row[c].consumed /\ ~row[c].superseded
LiveOf(p, k) == {c \in Of(p) : Live(c) /\ row[c].purpose = k}

-----------------------------------------------------------------------------
(* Issuing                                                                 *)

\* mutant: only the lock of phone and purpose is taken
ConflictsByPurpose(r, p, k) == issue[r].phone = p /\ issue[r].purpose = k

\* acquireSmsIssueLocks: whoever has the second lock of a phone has the first.
Conflicts(r, p, k) == issue[r].phone = p

Locked(p, k) == \E r \in Issuer : issue[r].pc = "granted" /\ Conflicts(r, p, k)

\* createdAt >= startOfDayUtc8(now)
Today(p, now) == {c \in Of(p) : \A m \in Midnights : m <= now => m <= row[c].createdAt}

Spaced(p) == \A c \in Of(p) : clock - row[c].createdAt >= Interval

\* The locks are granted and the limits hold.
Grant(r, p, k) ==
    /\ issue[r] = Idle
    /\ ~Locked(p, k)
    /\ Cardinality(Today(p, clock)) < Limit
    /\ Spaced(p)
    /\ issue' = [issue EXCEPT ![r] = [pc |-> "granted", phone |-> p, purpose |-> k, now |-> clock]]
    /\ UNCHANGED <<clock, row, verify>>

\* mutant: codes that have expired are left as they are
SupersededUnexpired(p, k) == {c \in LiveOf(p, k) : row[c].expiresAt > clock}

Superseded(p, k) == LiveOf(p, k)

NewRow(r) ==
    [phone |-> issue[r].phone, purpose |-> issue[r].purpose, createdAt |-> clock,
     expiresAt |-> issue[r].now + Ttl, consumed |-> FALSE, superseded |-> FALSE, attempts |-> 0]

\* The updates and the commit; the code is sent afterwards and stays whatever
\* becomes of the message.
Write(r, c) ==
    /\ issue[r].pc = "granted"
    /\ ~Exists(c)
    /\ row' = [e \in Code |->
         IF e = c THEN NewRow(r)
         ELSE IF e \in Superseded(issue[r].phone, issue[r].purpose)
         THEN [row[e] EXCEPT !.superseded = TRUE] ELSE row[e]]
    /\ issue' = [issue EXCEPT ![r] = Idle]
    /\ UNCHANGED <<clock, verify>>

\* Refused, or rolled back.
GiveUp(r) ==
    /\ issue[r] # Idle
    /\ issue' = [issue EXCEPT ![r] = Idle]
    /\ UNCHANGED <<clock, row, verify>>

-----------------------------------------------------------------------------
(* Verifying                                                               *)

Valid(c) == Live(c) /\ row[c].attempts < MaxAttempts /\ row[c].expiresAt > clock

\* mutants: the last statement asks only whether the code was consumed, or only
\* whether it is still live
OpenIfUnconsumed(c) == Exists(c) /\ ~row[c].consumed
OpenIfLive(c) == Live(c)

\* What the final update asks for again, behind the row lock.
Open(c) == Valid(c)

\* loadValidActiveCodeOrThrow: the latest live code, if it is still valid.
Present(q, c, right) ==
    /\ verify[q] = Idle
    /\ Valid(c)
    /\ \A e \in LiveOf(row[c].phone, row[c].purpose) : row[e].createdAt <= row[c].createdAt
    /\ verify' = [verify EXCEPT ![q] = [pc |-> IF right THEN "right" ELSE "wrong", code |-> c]]
    /\ UNCHANGED <<clock, row, issue>>

Consume(q) ==
    /\ verify[q].pc = "right"
    /\ row' = IF Open(verify[q].code) THEN [row EXCEPT ![verify[q].code].consumed = TRUE] ELSE row
    /\ verify' = [verify EXCEPT ![q] = Idle]
    /\ UNCHANGED <<clock, issue>>

\* A wrong guess counts in a statement of its own, so that no rollback of the
\* caller takes it back.
Miss(q) ==
    /\ verify[q].pc = "wrong"
    /\ row' = IF Open(verify[q].code) THEN [row EXCEPT ![verify[q].code].attempts = @ + 1] ELSE row
    /\ verify' = [verify EXCEPT ![q] = Idle]
    /\ UNCHANGED <<clock, issue>>

\* assertValid ends here; so does a call that fails.
Leave(q) ==
    /\ verify[q].pc = "right"
    /\ verify' = [verify EXCEPT ![q] = Idle]
    /\ UNCHANGED <<clock, row, issue>>

Tick ==
    /\ clock < MaxClock
    /\ clock' = clock + 1
    /\ UNCHANGED <<row, issue, verify>>

-----------------------------------------------------------------------------
Init ==
    /\ clock = 0
    /\ row = [c \in Code |-> None]
    /\ issue = [r \in Issuer |-> Idle]
    /\ verify = [q \in Verifier |-> Idle]

Next ==
    \/ \E r \in Issuer :
          \/ \E p \in Phone, k \in Purpose : Grant(r, p, k)
          \/ \E c \in Code : Write(r, c)
          \/ GiveUp(r)
    \/ \E q \in Verifier :
          \/ \E c \in Code, right \in BOOLEAN : Present(q, c, right)
          \/ Consume(q) \/ Miss(q) \/ Leave(q)
    \/ Tick

Spec == Init /\ [][Next]_vars

-----------------------------------------------------------------------------
(* Properties                                                              *)

\* Types; no code is charged more wrong guesses than allowed, and none is both
\* consumed and superseded.
TypeOK ==
    /\ clock \in Nat
    /\ row \in [Code -> Row \cup {None}]
    /\ \A c \in Code : Exists(c) => ~(row[c].consumed /\ row[c].superseded)
    /\ issue \in [Issuer -> Issuing]
    /\ verify \in [Verifier -> Verifying]

\* The codes of the phone up to a code, all of them and those of its day.
UpTo(c) == {e \in Of(row[c].phone) : row[e].createdAt <= row[c].createdAt}
DayOf(c) == UpTo(c) \cap Today(row[c].phone, row[c].createdAt)

\* The limits hold for a phone across purposes, also for codes written after the
\* midnight that followed their check: never more than the day's limit, never two
\* within the interval (issue, behind acquireSmsIssueLocks).
RateLimited ==
    \A c \in Code : Exists(c) =>
        /\ Cardinality(DayOf(c)) <= Limit
        /\ \A e \in UpTo(c) \ {c} : row[c].createdAt - row[e].createdAt >= Interval

\* At most one code of a phone and purpose is live, expired ones included, so the
\* latest one that verification looks for is the only one.
OneLiveCode ==
    \A c, e \in Code :
        /\ Live(c) /\ Live(e)
        /\ row[c].phone = row[e].phone /\ row[c].purpose = row[e].purpose
        => c = e

LifeOf(c) ==
    IF ~Exists(c) THEN "none"
    ELSE IF row[c].consumed THEN "accepted"
    ELSE IF Valid(c) THEN "open" ELSE "void"

SentOf(c) ==
    IF Exists(c)
    THEN [phone |-> row[c].phone, purpose |-> row[c].purpose, time |-> row[c].createdAt]
    ELSE None

Lives == [c \in Code |-> LifeOf(c)]
Sents == [c \in Code |-> SentOf(c)]

Promise == INSTANCE OneTimeCodes WITH life <- Lives, sent <- Sents, now <- clock

\* Calls that check and write in separate steps issue codes as one atomic limiter
\* would, and a code is accepted at most once, while it is the valid one.
ImplementsOneTimeCodes == Promise!Spec
=============================================================================
