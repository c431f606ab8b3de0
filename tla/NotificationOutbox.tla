------------------------- MODULE NotificationOutbox -------------------------
(***************************************************************************)
(* The notification outbox: NotificationOutboxService's conditional        *)
(* updates on notification_outbox_intents and the drains of                *)
(* NotificationOutboxWorker that compete for them.                         *)
(*                                                                         *)
(* A row is claimed under a lease.  Its fence is (leaseOwner, lockedAt);   *)
(* the expiry is not part of it, so an owner whose lease ran out may still *)
(* settle a row nobody reclaimed.  Every database transaction is one step; *)
(* a drain may be delayed without limit, or die, between any two of them.  *)
(* What a handler does for its event type is abstracted to the one thing   *)
(* the queue sees: an external effect behind beforeEffect, an expansion    *)
(* into child intents, and the outcome.                                    *)
(***************************************************************************)
EXTENDS Integers

CONSTANTS
    Intents,       \* event keys; the unique eventKey makes each one a row
    Roots,         \* the broadcast roots among them
    ChildrenOf,    \* [Roots -> SUBSET Intents]: one child per audience member
    SlotOf,        \* [Intents -> slots]: (eventType, aggregateId, destinationRef)
    NoSlot,        \* the slot of an event type without the partial unique index
    Procs,         \* workerIds; a restarted process is another element
    Drains,        \* concurrent executeAttempt calls
    ProcOf,        \* [Drains -> Procs]
    NoProc, NoIntent,
    MaxAttempts,   \* OUTBOX_MAX_ATTEMPTS
    Lease,         \* OUTBOX_LEASE_MS
    Base,          \* OUTBOX_BACKOFF_BASE_MS
    BackoffMax,    \* OUTBOX_BACKOFF_MAX_MS
    MaxClock       \* bound of the explored time

Children == UNION {ChildrenOf[r] : r \in Roots}
Slots == {SlotOf[i] : i \in Intents} \ {NoSlot}
Min2(a, b) == IF a < b THEN a ELSE b
Max2(a, b) == IF a > b THEN a ELSE b

Backoff(n) == Min2(Base * 2^Max2(n - 1, 0), BackoffMax)

ASSUME ShapeAssumption ==
    /\ Roots \subseteq Intents
    /\ ChildrenOf \in [Roots -> SUBSET (Intents \ Roots)]
    /\ \A r \in Roots : SlotOf[r] = NoSlot
    /\ \A c \in Children : SlotOf[c] # NoSlot
    /\ \A r \in Roots : \A c, e \in ChildrenOf[r] : c # e => SlotOf[c] # SlotOf[e]
    /\ ProcOf \in [Drains -> Procs]
    /\ NoProc \notin Procs
    /\ NoIntent \notin Intents
ASSUME TimingAssumption ==
    /\ MaxAttempts \in Nat \ {0}
    /\ Lease \in Nat \ {0}
    /\ Base \in Nat \ {0}
    /\ BackoffMax \in Nat
    /\ MaxClock \in Nat
    /\ Lease + Base <= BackoffMax
    /\ \A n \in 1..MaxAttempts :
          /\ Backoff(n) \in Nat \ {0}
          /\ n < MaxAttempts => Backoff(n) + Base <= BackoffMax

VARIABLES
    clock,      \* the application clock every `now` is read from
    row,        \* [Intents -> row], status "absent" when there is none
    proc,       \* [Procs -> "up" | "stopping" | "down"]
    drain,      \* [Drains -> what that executeAttempt holds in memory]
    effects     \* history: [Intents -> [attempt number -> effects performed]]

vars == <<clock, row, proc, drain, effects>>

Active == {"pending", "processing"}

NoRow == [status |-> "absent", attempts |-> 0, owner |-> NoProc,
          lockedAt |-> 0, expiresAt |-> 0, availableAt |-> 0]

Idle == [pc |-> "idle", intent |-> NoIntent, lockedAt |-> 0, attempts |-> 0,
         until |-> 0, outcome |-> "none", lost |-> FALSE, horizon |-> 0]

Init ==
    /\ clock = 0
    /\ row = [i \in Intents |-> NoRow]
    /\ proc = [p \in Procs |-> "up"]
    /\ drain = [d \in Drains |-> Idle]
    /\ effects = [i \in Intents |-> [n \in 1..MaxAttempts |-> 0]]

-----------------------------------------------------------------------------
(* Producers. *)

PendingRow == [NoRow EXCEPT !.status = "pending", !.availableAt = clock]

\* Mutant: the index is declared over pending rows only.
SlotFreeOfPending(i) ==
    \A j \in Intents \ {i} :
        SlotOf[i] # NoSlot /\ SlotOf[j] = SlotOf[i] => row[j].status # "pending"

\* The partial unique index admits i: no other active row occupies its slot.
SlotFree(i) ==
    \A j \in Intents \ {i} :
        SlotOf[i] # NoSlot /\ SlotOf[j] = SlotOf[i] => row[j].status \notin Active

\* A producer's transaction: enqueue, enqueueMany, reserveAdminSmsAttempt or a
\* replay.  On an event key that exists, or an occupied slot, it inserts nothing.
Enqueue(i) ==
    /\ i \notin Children
    /\ row[i].status = "absent"
    /\ SlotFree(i)
    /\ row' = [row EXCEPT ![i] = PendingRow]
    /\ UNCHANGED <<clock, proc, drain, effects>>

-----------------------------------------------------------------------------
(* Claiming. *)

\* Mutant: the expiry is compared with the new lease's end, not with now.
ExpiredByNewLease(i) == row[i].status = "processing" /\ row[i].expiresAt <= clock + Lease

Expired(i) == row[i].status = "processing" /\ row[i].expiresAt <= clock

Exhausted(i) == Expired(i) /\ row[i].attempts >= MaxAttempts

\* Mutant: one attempt too many.
ClaimableOnceMore(i) ==
    /\ row[i].attempts <= MaxAttempts
    /\ \/ row[i].status = "pending" /\ row[i].availableAt <= clock
       \/ Expired(i)

Claimable(i) ==
    /\ row[i].attempts < MaxAttempts
    /\ \/ row[i].status = "pending" /\ row[i].availableAt <= clock
       \/ Expired(i)

\* Leaving "processing" clears the fence.
Unfenced(r, status) ==
    [r EXCEPT !.status = status, !.owner = NoProc, !.lockedAt = 0, !.expiresAt = 0]

\* claim's first update: a row that crashed in its last attempt dies here.
Swept == [i \in Intents |-> IF Exhausted(i) THEN Unfenced(row[i], "dead") ELSE row[i]]

Ready(d) == drain[d].pc = "idle" /\ proc[ProcOf[d]] = "up"

\* FOR UPDATE SKIP LOCKED: any candidate may be the first that is not locked.
Claim(d, i) ==
    /\ Ready(d)
    /\ Claimable(i)
    /\ row' = [Swept EXCEPT ![i] =
         [@ EXCEPT !.status = "processing", !.attempts = row[i].attempts + 1,
                   !.owner = ProcOf[d], !.lockedAt = clock, !.expiresAt = clock + Lease]]
    /\ drain' = [drain EXCEPT ![d] =
         [Idle EXCEPT !.pc = "claimed", !.intent = i, !.lockedAt = clock,
                      !.attempts = row[i].attempts + 1, !.until = clock + Lease]]
    /\ UNCHANGED <<clock, proc, effects>>

\* A claim that selects nothing (of its event key) still sweeps.
ClaimNothing(d) ==
    /\ Ready(d)
    /\ \E i \in Intents : Exhausted(i)
    /\ row' = Swept
    /\ UNCHANGED <<clock, proc, drain, effects>>

-----------------------------------------------------------------------------
(* Executing an attempt. *)

\* Mutant: the fence is the owner alone, which two attempts of a process share.
FencedByOwner(d) ==
    /\ drain[d].intent \in Intents
    /\ row[drain[d].intent].status = "processing"
    /\ row[drain[d].intent].owner = ProcOf[d]

\* Mutant: updates are by id alone.
FencedById(d) == drain[d].intent \in Intents

\* fenceWhere: the conditional updates of drain d still match a row.
Fenced(d) ==
    /\ drain[d].intent \in Intents
    /\ row[drain[d].intent].status = "processing"
    /\ row[drain[d].intent].owner = ProcOf[d]
    /\ row[drain[d].intent].lockedAt = drain[d].lockedAt

\* ... and the lease has not run out (renewLease and the authorize gates).
Held(d) == Fenced(d) /\ row[drain[d].intent].expiresAt > clock

Renewed(d) == [row EXCEPT ![drain[d].intent] = [@ EXCEPT !.expiresAt = clock + Lease]]

\* The renewal before the handler; its failure ends the attempt.  Here and below
\* an update also fails when the database does, whatever the state of the row.
Start(d) ==
    /\ drain[d].pc = "claimed"
    /\ \/ /\ Held(d)
          /\ row' = Renewed(d)
          /\ drain' = [drain EXCEPT ![d] = [@ EXCEPT !.pc = "running", !.until = clock + Lease]]
       \/ /\ drain' = [drain EXCEPT ![d] = Idle]
          /\ UNCHANGED row
    /\ UNCHANGED <<clock, proc, effects>>

\* The heartbeat, until the handler has ended; after one failure it stops for good
\* (a failure after the handler's end is a Settle that writes nothing).
Heartbeat(d) ==
    /\ drain[d].pc \in {"running", "expanding", "armed", "settling"}
    /\ ~drain[d].lost
    /\ \/ /\ Held(d)
          /\ row' = Renewed(d)
          /\ drain' = [drain EXCEPT ![d] = [@ EXCEPT !.until = clock + Lease]]
       \/ /\ drain[d].pc # "settling"
          /\ drain' = [drain EXCEPT ![d] = [@ EXCEPT !.lost = TRUE]]
          /\ UNCHANGED row
    /\ UNCHANGED <<clock, proc, effects>>

\* beforeEffect renews once more right before each call to the provider; if it
\* fails, or the heartbeat has, the handler throws and the row is left alone.
BeforeEffect(d) ==
    /\ drain[d].pc = "running"
    /\ drain[d].intent \notin Roots
    /\ \/ /\ ~drain[d].lost /\ Held(d)
          /\ row' = Renewed(d)
          /\ drain' = [drain EXCEPT ![d] = [@ EXCEPT !.pc = "armed", !.until = clock + Lease]]
       \/ /\ drain' = [drain EXCEPT ![d] = Idle]
          /\ UNCHANGED row
    /\ UNCHANGED <<clock, proc, effects>>

\* A call that delivers nothing: an access token is fetched, or the message is
\* refused for a stale one.  The next call passes beforeEffect again.
TokenCall(d) ==
    /\ drain[d].pc = "armed"
    /\ drain' = [drain EXCEPT ![d] = [@ EXCEPT !.pc = "running"]]
    /\ UNCHANGED <<clock, row, proc, effects>>

\* Mutant: the handler itself tries again when the answer is ambiguous.
EffectTriedAgain(d) ==
    /\ drain[d].pc = "armed"
    /\ effects' = [effects EXCEPT ![drain[d].intent][drain[d].attempts] = @ + 1]
    /\ drain' = [drain EXCEPT ![d] = [@ EXCEPT !.pc = "running"]]
    /\ UNCHANGED <<clock, row, proc>>

\* A call that may deliver the message, and how the handler answers for it.
Effect(d) ==
    /\ drain[d].pc = "armed"
    /\ effects' = [effects EXCEPT ![drain[d].intent][drain[d].attempts] = @ + 1]
    /\ \E o \in {"ok", "retry", "dead"} :
         drain' = [drain EXCEPT ![d] = [@ EXCEPT !.pc = "settling", !.outcome = o]]
    /\ UNCHANGED <<clock, row, proc>>

\* The handler ends without an effect: nothing to do, unsupported, or an error.
NoEffect(d) ==
    /\ drain[d].pc = "running"
    /\ \E o \in {"ok", "retry", "dead"} :
         drain' = [drain EXCEPT ![d] = [@ EXCEPT !.pc = "settling", !.outcome = o]]
    /\ UNCHANGED <<clock, row, proc, effects>>

\* authorizeAdminNotificationEffect for a root; the audience is resolved after it.
Authorize(d) ==
    /\ drain[d].pc = "running"
    /\ drain[d].intent \in Roots
    /\ drain' = [drain EXCEPT ![d] =
         IF Held(d) THEN [@ EXCEPT !.pc = "expanding"]
                    ELSE [@ EXCEPT !.pc = "settling", !.outcome = "retry"]]
    /\ UNCHANGED <<clock, row, proc, effects>>

\* When the active row in the way of child c can be taken up again.
FreesAt(j) == IF row[j].status = "processing" THEN row[j].expiresAt ELSE row[j].availableAt

\* One transaction enqueues every child, or aborts on an occupied slot.  It does
\* not look at the fence again.  Any other error rolls it back and is retried.
Expand(d) ==
    /\ drain[d].pc = "expanding"
    /\ LET missing == {c \in ChildrenOf[drain[d].intent] : row[c].status = "absent"}
           blockers == {j \in Intents : /\ row[j].status \in Active
                                        /\ \E c \in missing : SlotOf[j] = SlotOf[c]}
       IN \/ /\ blockers = {}
             /\ row' = [i \in Intents |-> IF i \in missing THEN PendingRow ELSE row[i]]
             /\ drain' = [drain EXCEPT ![d] = [@ EXCEPT !.pc = "settling", !.outcome = "ok"]]
          \/ \E j \in blockers :
             /\ drain' = [drain EXCEPT ![d] = [@ EXCEPT !.pc = "settling",
                            !.outcome = "conflict", !.horizon = FreesAt(j)]]
             /\ UNCHANGED row
          \/ /\ drain' = [drain EXCEPT ![d] = [@ EXCEPT !.pc = "settling", !.outcome = "retry"]]
             /\ UNCHANGED row
    /\ UNCHANGED <<clock, proc, effects>>

-----------------------------------------------------------------------------
(* Settling: the heartbeat has stopped, one conditional update remains. *)

\* Mutant: the deferral adds the longest back-off instead of the shortest.
DeferUntilMuchLater(d) == Max2(drain[d].horizon, clock) + BackoffMax

DeferUntil(d) == Max2(drain[d].horizon, clock) + Base

\* Mutant: the last attempt is taken for the one before it.
SpentTooLate(d) == drain[d].attempts > MaxAttempts

Spent(d) == drain[d].attempts >= MaxAttempts

Settled(d) ==
    LET i == drain[d].intent
        r == row[i]
    IN CASE drain[d].outcome = "ok" -> Unfenced(r, "succeeded")
         [] drain[d].outcome = "dead" -> Unfenced(r, "dead")
         [] drain[d].outcome = "retry" ->
              IF Spent(d)
              THEN Unfenced(r, "dead")
              ELSE [Unfenced(r, "pending") EXCEPT
                      !.availableAt = clock + Backoff(drain[d].attempts)]
         [] drain[d].outcome = "conflict" ->
              [Unfenced(r, "pending") EXCEPT
                  !.attempts = r.attempts - 1, !.availableAt = DeferUntil(d)]

\* deferBroadcastGeneration refuses a horizon too far away, and writes nothing.
HorizonRefused(d) ==
    drain[d].outcome = "conflict" /\ DeferUntil(d) > clock + BackoffMax

\* ack, nack, deadLetter or defer; a lost heartbeat or fence, or a failing
\* database, leaves the row to be reclaimed when its lease runs out.
Settle(d) ==
    /\ drain[d].pc = "settling"
    /\ \/ /\ ~drain[d].lost /\ Fenced(d) /\ ~HorizonRefused(d)
          /\ row' = [row EXCEPT ![drain[d].intent] = Settled(d)]
       \/ UNCHANGED row
    /\ drain' = [drain EXCEPT ![d] = Idle]
    /\ UNCHANGED <<clock, proc, effects>>

-----------------------------------------------------------------------------
(* Processes and time. *)

\* stopAndDrain: no further claim, but the attempts in flight run to their end.
Stop(p) ==
    /\ proc[p] = "up"
    /\ proc' = [proc EXCEPT ![p] = "stopping"]
    /\ UNCHANGED <<clock, row, drain, effects>>

Crash(p) ==
    /\ proc[p] # "down"
    /\ proc' = [proc EXCEPT ![p] = "down"]
    /\ drain' = [d \in Drains |-> IF ProcOf[d] = p THEN Idle ELSE drain[d]]
    /\ UNCHANGED <<clock, row, effects>>

Tick ==
    /\ clock < MaxClock
    /\ clock' = clock + 1
    /\ UNCHANGED <<row, proc, drain, effects>>

Attempt(d) ==
    \/ Start(d) \/ Heartbeat(d) \/ BeforeEffect(d) \/ TokenCall(d) \/ Effect(d)
    \/ NoEffect(d) \/ Authorize(d) \/ Expand(d) \/ Settle(d)

Next ==
    \/ \E i \in Intents : Enqueue(i)
    \/ \E d \in Drains : (\E i \in Intents : Claim(d, i)) \/ ClaimNothing(d) \/ Attempt(d)
    \/ \E p \in Procs : Stop(p) \/ Crash(p)
    \/ Tick

Spec == Init /\ [][Next]_vars

-----------------------------------------------------------------------------
(* Properties. *)

Rows == [status : {"absent", "pending", "processing", "succeeded", "dead"},
         attempts : 0..MaxAttempts, owner : Procs \cup {NoProc},
         lockedAt : Nat, expiresAt : Nat, availableAt : Nat]

DrainStates ==
    [pc : {"idle", "claimed", "running", "expanding", "armed", "settling"},
     intent : Intents \cup {NoIntent}, lockedAt : Nat, attempts : 0..MaxAttempts,
     until : Nat, outcome : {"none", "ok", "retry", "dead", "conflict"},
     lost : BOOLEAN, horizon : Nat]

\* The type invariant.  Its content is that no row is ever charged more than
\* OUTBOX_MAX_ATTEMPTS attempts, deferrals and crashes included.
TypeOK ==
    /\ clock \in Nat
    /\ row \in [Intents -> Rows]
    /\ proc \in [Procs -> {"up", "stopping", "down"}]
    /\ drain \in [Drains -> DrainStates]
    /\ effects \in [Intents -> [1..MaxAttempts -> Nat]]

\* (leaseOwner, lockedAt) is enough to tell two attempts at one intent apart,
\* also two attempts of the same process: fenceWhere never lets one attempt
\* settle the row for another.
FenceIdentifiesAttempt ==
    \A d, e \in Drains :
        d # e /\ drain[d].intent = drain[e].intent /\ drain[d].intent # NoIntent
        => <<ProcOf[d], drain[d].lockedAt>> # <<ProcOf[e], drain[e].lockedAt>>

\* At most one attempt at an intent has reason to believe its lease runs: a
\* renewal after a reclaim is refused, and a reclaim waits for the expiry.
LeaseExclusive ==
    \A d, e \in Drains :
        d # e /\ drain[d].intent = drain[e].intent /\ drain[d].intent # NoIntent
        => drain[d].until <= clock \/ drain[e].until <= clock

\* Each of the at most MaxAttempts attempts calls the provider at most once,
\* however leases expire and processes die: there is never a ninth message.
OneEffectPerAttempt ==
    \A i \in Intents, n \in 1..MaxAttempts :
        /\ effects[i][n] <= 1
        /\ n > row[i].attempts => effects[i][n] = 0

\* The partial unique index is enough for the code that relies on it: of the
\* attempts for one notification, member and channel at most one is active.
ActiveSlotUnique ==
    \A i, j \in Intents :
        i # j /\ SlotOf[i] = SlotOf[j] /\ SlotOf[i] # NoSlot
        => row[i].status \notin Active \/ row[j].status \notin Active

\* A root that meets the previous generation's active child is always deferred:
\* the horizon check, which would leave the row leased and burn an attempt,
\* never fires.
DeferNeverRefused ==
    \A d \in Drains : drain[d].pc = "settling" => ~HorizonRefused(d)

\* Claim skips a row whose attempts are spent, so a pending row must always have
\* one left: neither a failed attempt nor a root that met a conflict again and
\* again is left pending for ever.
PendingNeverStranded ==
    \A i \in Intents : row[i].status = "pending" => row[i].attempts < MaxAttempts

Promise == INSTANCE DurableIntent WITH
    Deferrable <- Roots,
    status <- [i \in Intents |-> row[i].status],
    tries <- [i \in Intents |-> row[i].attempts]

\* The outbox implements the registered life cycle of an intent: bounded
\* attempts, and "succeeded" and "dead" are never left, whoever wakes up late.
ImplementsPromise == Promise!Spec
=============================================================================
