# Verification of the SRVF backend in TLA+

The repository is the backend of a volunteer rescue team: a NestJS application over PostgreSQL (Prisma). It runs as three
kinds of process that share one database: the HTTP API, a worker for the notification outbox and the activity batch jobs,
and a worker that keeps the object storage and its ledger consistent. Each kind may run in several copies, and each copy may
die at any moment. There is no shared memory between them: everything they agree on is a row, a lock or a lease in the
database. That is what the modules here model.

Six parts are modelled, each with an abstract specification it is shown to implement:

| part | detailed module | abstract module | proofs |
|---|---|---|---|
| notification outbox | `NotificationOutbox` | `DurableIntent` | `NotificationOutboxProofs` |
| settlement ledger and its batch job | `LedgerPosting` | `AtomicPosting` | `LedgerPostingProofs`, `LedgerCountsProofs` |
| refresh-token sessions | `AuthSessions` | `Sessions` | `AuthSessionsProofs` |
| SMS verification codes | `SmsCodes` | `OneTimeCodes` | `SmsCodesProofs` |
| storage object ledger | `StorageObjects` | `ObjectLifecycle` | `StorageObjectsProofs` |
| registrations, capacity and waitlist | `Registrations` | `FirstComeSeats` | `FoldLemmas`, `RegistrationsProofs` |

The `MC*` modules and their `.cfg` files are the instances TLC explores. `PROJECT.json` maps every definition to the lines it
stands for, and lists the runs, the hazards and which property covers each, the findings and the theorems.

    tlc -workers 2 -config MCSmsCodes.cfg MCSmsCodes
    tlapm SmsCodesProofs.tla

## 1. Inventory

Paths are under `src/src/modules/`.

**Notification outbox** (`notifications/notification-outbox.*`). State: `notification_outbox_intents`, a row per intent with
status, attempts, `leaseOwner`, `lockedAt`, `leaseExpiresAt`, `availableAt`; unique `eventKey`; a partial unique index over
the active attempts of a (notification, member, channel). Operations: enqueue inside the producer's transaction, claim with
its sweep of exhausted rows, heartbeat, the gates before an effect, expansion of a broadcast root into children, deferral,
acknowledge, retry with back-off, dead letter. Called by the producers of notifications; calls the providers. Hard: expired
leases whose owner is still alive, crashes between an effect and its acknowledgement, two drains of one process, the
collision of two generations of a broadcast. Correct when attempts are bounded, final states are final, a lease excludes,
each attempt has at most one effect, and no row is stranded.

**WeChat broadcast delivery and quota** (`notification-outbox.handlers.ts`, `notification.service.ts`). State: the delivery
rows and the one-shot subscription quota of a member. Operations: `markPrepared`, the send, `refundPrepared`, compensation of a
refused send. Correct when a unit of quota is neither lost nor given back twice, whatever is retried.

**Settlement ledger** (`activities/ledger-*.service.ts`). State: the posting batch (preparing, ready, committed, failed, with
a prepared count and the digest of its baseline), its contribution entries, and for each member and day a version and a
committed total. Operations: open a batch at the final approval, prepare chunk by chunk, finalize, post. Hard: preparation reads
day states without locks and long before the posting; chunks are committed one by one by rounds that may overlap. Correct when
a batch is posted whole, at most once, and credits what the daily cap leaves at that moment.

**Activity batch worker** (`activities/activity-batch.worker.ts`, `app-my-activity-batch-jobs.service.ts`). State: jobs with
lease, generation and attempts, and their items. Operations: claim with sweep, requeue, the lease fence, release, cancel, retry
by hand. Drives the ledger. Hard: leases lost between any two transactions, answers lost after a commit, cancellation of a
running job. Correct when no job is forgotten or left in processing.

**Authentication sessions** (`auth/`, `users/`, `members/member-account.service.ts`). State: users with status, password hash,
phone, openid, WeCom identity; refresh-token rows in families. Operations: five ways to sign in, refresh with rotation and
replay detection, logout, step-up proofs, binding, clearing, disabling, deleting, reopening, resetting passwords. Hard: what is
verified before the User row lock may be stale behind it. Correct when a family has one live token and no live token rests on
a credential or an account that has changed.

**SMS verification codes** (`sms/`). State: `sms_verification_codes`. Operations: issue behind two advisory locks, check only,
check and consume. Used by sign-in, password reset, binding and step-up. Hard: limits are checked before the write, codes are
compared before they are consumed. Correct when the limits hold per phone, one code per phone and purpose is live, and a code is accepted
at most once.

**Storage object ledger and attachments** (`storage/`, `attachments/`). State: a row per object (pending upload, present unbound,
available, delete pending, delete failed, absent, and what old objects may be), leased operations on it, of which at most one is active,
the attachment row it is bound to, evidence that names the attachment, and the object store itself. Operations: prepare an upload, confirm
it, verify it in the background, download, delete, reclaim an orphan, backfill an old attachment, relocate or attest by hand, cancel
by publishing. Hard: the store does its work and the answer is lost; what a HEAD found is stale when the transaction decides; leases are lost and
workers die. Correct when bytes go only after a final decision to delete, a readable object has its bytes, and every deletion ends.

**Registration, capacity and allocation** (`activity-registrations/`, and two files of `activities/`). State: a header per member, a permanent identity per
member and session with its revisions, capacity reservations, a counter per bucket (activity, session, position), and the line that follows from when
people submitted. Operations: submit, cancel (with promotion from the line), approve, reject, reopen, cancel a session or the activity, change a
limit. Hard: five copies of one fact, written by six commands, each of which refuses when the copies differ. Correct when no counter drifts or passes its
limit, the copies agree, and the line is served in order.

**Settlement drafts, submission, review, corrections and closure** (`activities/settlement-*.ts`, `correction-*.ts`). A state
machine of runs, versions and decisions; corrections supersede posted entries. Correct when a version gets one effective final
decision and a corrected entry counts once.

**Integration API idempotency** (`integration-idempotency/`). A receipt per key, written in the command's transaction behind an
advisory lock. Correct when a repeated command runs once and gets the first answer. No command uses it at this commit.

**The rest** - attendance punches and sheets, publication of activities, authorization, recruitment, members, content,
dictionaries, certificates, insurances, audit log, health, and the provider clients - is either request-scoped work on one row
behind one lock, decisions over data, or pure I/O. `PROJECT.json` says for each why it is left out.

How they interact: producers and the batch worker write intents into the outbox in their own transactions; the review of a
settlement opens posting batches for the worker; sessions rest on verified SMS codes and on the identities that the users module
changes; attachments rest on the storage ledger. All of it is shared rows; there are no in-process callbacks across the parts.

## 2. Plan

The order follows the weight of the behaviour and how much of it no test reaches. Each step has an abstract specification and a
refinement theorem where one says more than the invariants.

1. `NotificationOutbox` implements `DurableIntent`. Done, proved.
2. `LedgerPosting` implements `AtomicPosting`. Done, proved but for the last step of liveness.
3. `AuthSessions` implements `Sessions`. Done, proved.
4. `SmsCodes` implements `OneTimeCodes`. Done, proved.
5. `StorageObjects` implements `ObjectLifecycle`. Done, proved but for the last step of liveness.
6. `Registrations` implements `FirstComeSeats`. Done for the allocation in order of submission, proved.
7. `WechatBroadcast`: `markPrepared`, the send, `refundPrepared` and the compensation of a refused send, as what one attempt of
   `NotificationOutbox` does between its gates; conservation of the quota as the property, with any number of attempts.
8. `SettlementRun`: runs, versions and decisions up to the final approval, composed with `LedgerPosting` through
   `FinalApprove`; then the corrections that supersede entries.
9. The allocation in batches (rank, lottery) of `activity-allocation.service.ts`, on top of `Registrations`.
10. The other job families of the batch worker, which share the claim of `LedgerPosting`; `IntegrationIdempotency` once a command uses it.

Every module is written so that it can be proved about as well as checked: constants have named assumptions, an operation is one action, and there
are no recursive operators. Commands of `Registrations` fold over the sessions; the folds are those of the community modules, and `FoldLemmas` says
what they leave behind.

## 3. The modules and the code

In every module a database transaction is one step, and so is a statement outside a transaction. Between two of them a process may be
arbitrarily slow, or die. This is what PostgreSQL gives: the transactions that matter lock the rows they decide on, or decide in the
`WHERE` of the update. Where a transaction reads without locking, the text below says why one step is still right.

### NotificationOutbox, DurableIntent

`row` is the table, `proc` the processes, and `drain` what one `executeAttempt` holds in memory: the intent, the `lockedAt` and
attempts of its claim, how long it believes its lease to run (`until`), the outcome to report, and the horizon of a
deferral. `effects` is a history variable that counts calls of a provider.

`Enqueue` is the insert with `skipDuplicates` and the look at the active slot; `Claim` and `ClaimNothing` are `claim` with its sweep
of exhausted rows; `Start`, `Heartbeat`, `BeforeEffect` and `TokenCall` are the gates that renew the lease; `Effect`, `NoEffect` and
`Authorize` the handler; `Expand` creates the children of a root, or finds an active child of the previous generation and computes the
horizon; `Settle` is `ack`, `nack`, `deadLetter` or `deferBroadcastGeneration` behind `fenceWhere`; `Stop` and `Crash` are shutdown and
death. A handler is abstracted to what the queue sees of it.

There is one clock. The code reads `new Date()` in the process before each update; the model reads it at the update. So skew between
hosts and a pause between reading and updating are out. `DurableIntent` is the registered life cycle: absent, pending, processing,
succeeded, dead, with at most `MaxAttempts` tries; succeeded and dead are final.

### LedgerPosting, AtomicPosting

`batch`, `job`, `item`, `entry` and `day` are the tables, `worker` is a round of `drainOnce`, `lost` a history variable. `EnsureJob` and
`Requeue` are `enqueuePreparingBatches`; `Claim` sweeps and claims; `PrepareChunk`, `SkipChunk`, `PrepareFails` and `MarkItemFailed` are
the loop over items; `Finalize`, `MarkReady`, `Commit`, `Acknowledge` close the batch; `Release`, `Abandon` and `Cancel` are what
they are called in the code. `retryFailed` is no action: what it does to a preparation job is always rolled back (section 6). The lease is null, running or expired; it may expire at any moment. Back-off is a wait of any length.

All service lies on one ledger day, automatic commit is on, and correction batches are excluded. `prepareChunk` reads day
states without locks inside its transaction; nothing else it does depends on when it reads them, and whatever was read is compared again
at the posting, so the reading can be moved to the end of the transaction.

`DayStateExplained` says what a day total is: the sum of the entries of the posted batches, and at the same time the points recognised in them, up to the cap. The
second half is what a reader of the ledger may rely on: the order in which batches were prepared and posted leaves no trace in the total.

`AtomicPosting` has no job and no chunk: a batch is posted once, and each member gets the points or what the cap leaves.

### AuthSessions, Sessions

The User row lock is where issuing, rotating and revoking meet; a transaction behind it is one step. What a request reads before it has
the lock is a step of its own (`VerifyFactor`, `PresentToken`, `PresentForLogout`, `VerifyPassword`, `StepUp`, `VerifyPhone`: the disjuncts of
`Read`) and stays in `req`, where it may get stale before the transaction (`CreateSession`, `Refresh`, `Logout`,
`ChangePassword`, `Bind`, `PreBind`). `Administration` holds what needs no earlier reading.

A credential is what `createSession` compares again behind the lock. Password hashes are salted, so each change is a new value: a
number. Phone and openid are compared by value; a WeCom identity by its row, numbered by its change. Phone and openid are unique over
all rows, deleted ones included; a WeCom account over the active identities. `stale` is a history variable: the proofs whose identity
has changed since.

Left out: access tokens, which are not revoked one by one; WeCom login attempts; permission, last-administrator and member
status checks, which only forbid steps; the five-minute expiry and single use of step-up proofs and the consumption of SMS codes, so
that a proof may be used late, which only adds behaviours. Creating a user takes at most one identity. The absolute
expiry of a family is one irreversible step. `ProofNotRevived` speaks of WeCom only: an openid has no counter of its changes, and a comment
in the code freezes that algorithm, so an old openid or phone proof may match again.

`Sessions` says that a session is opened under a credential its user has then, that it never opens again, and that a change of the
account closes the sessions of its user in the same step.

### SmsCodes, OneTimeCodes

`row` is the table, `issue` the transactions that hold the locks, `verify` the calls that have compared a code and not yet written.
`Grant` is the moment the limits are read, behind both locks; whoever has the second lock of a phone has the first, so one holder
per phone is all there is to model. `Write` is the updates and the commit. The row is stamped with the clock at the write, the expiry with the
clock at the grant, and the clock and a midnight may pass in between. `Present` is `loadValidActiveCodeOrThrow`, `Consume` and
`Miss` the two conditional updates behind the row lock, `Leave` the end of `assertValid` or of a failed call.

Left out, because they change no code: the owner check, the guess and its hash, the route to a provider and the send log. A code that could not be sent stays
and counts, as in the code. The clocks of the API processes and of the database are one.

`OneTimeCodes` checks the limits and issues in one atomic step; a code is accepted at most once and only while it is open.

### StorageObjects, ObjectLifecycle

Objects share nothing but the queue of operations, so one object is modelled. `obj` is its row, `attachment` and `evidence` the rows that refer to
it, `op` its operations by event key, `worker` the calls of `executeClaimed` (worker processes and HTTP drains alike), `client` what a
request has learned from the provider and not yet used, `bytes` what the provider holds. `lost` is a history variable: the bytes vanished
without the application. A transaction is one step and a call of the provider another; what the provider said stays in `worker` or `client` and
may be stale when the next transaction decides.

Requests: `PrepareUpload`, `VerifyEvidence` and `FinalizeUpload` (with `NoteProviderUnknown` when the provider does not answer), `Download`
with the four things it may write, `AddEvidence`, `PrepareDelete`, `CancelByPublish`, `PrepareRelocation`, `PrepareAttestation`, `EnsureBackfill`.
Operations: `Claim` and `Exhaust` are the two parts of `claim`; `Begin` is the refresh, the gate of the kind and the renewal; then `Head`,
`StartEffect`, `DeleteBytes`, `Recheck`, and one final transaction per kind, which `Accepts` what it finds or ends in `Reject`; `Nack`, `LeaseLost`,
`Crash`. `Held` is the fence with the unexpired lease. Attempts and lease generation rise together and only in a claim, so one number stands for both.

Time is the phase of the upload: the URL valid, the grace, over. A lease (30 s) is shorter than the grace (15 min), so none outlives it: that is what
`PassDeadline` does to the leases. A back-off is a wait of any length. Left out: STRICT mode, which only makes fewer states readable; the replay of a
delete answer and its purge; dead letters for payloads that cannot be parsed; and the business upload sessions above the ledger.

`ObjectLifecycle` knows a file that is meant, kept, doomed, gone. Nothing but the environment removes bytes before it is doomed, and doomed is final.

### Registrations, FirstComeSeats

One published activity that allocates in order of submission and has its buckets. `header` is `ActivityRegistration.statusCode`; `identity` holds the
pointer row of a member and session (`status`, `position`, `seat`) and what matters of its current revision: `asked`, the position in it, `won`, that it is a
pass with the key of a submission, and `freed`, that it is a cancellation right after such a pass. `active` are the active reservations, `occupied` and
`capacity` the buckets, `ahead` the order of the submissions with which people wait, as pairs. `live` are the active members: deactivation touches no registration, but
promotion asks for it.

Every command locks the activity's row first, so a command is one action, with all it calls: `Submit` appends the revisions, reserves the first preference that
fits or queues for the first one, session by session, and derives the header; `Cancel` releases, closes and promotes; `Reject`, `Reopen` and `Approve`
are the review, `CancelSession`, `Resize` and `CancelActivity` the organiser. What a command works on before it commits is the record `Books`, folded
over the sessions in order of their ids. Each action starts with the reconciliation its command starts with (`PointersAgree`,
`RevisionsAgree`, `HeadersTell`, `Projects`): a copy that disagrees refuses the command, which is how one wrong copy becomes a member who is stuck.
`HeadersTell` compares `statusCode` alone, where the code compares `statusSummaryCode` as well: each command writes the two together (pending, pass and waitlisted with
`active`, cancelled with `cancelled`, reject with `not_selected`), as `deriveRegistrationStatusSummary` does, so the second comparison adds nothing.

A line is ordered by `acceptedAt`, which the process that takes a submission reads from its clock in milliseconds, and by the identity's id between equal times. The
model assumes one clock and no ties: `ahead` is the order in which the submissions had the activity's row. Under skew, or within one millisecond, the code's line may
be another one, and what is shown of the line is not claimed of it. `Leave` is the member leg of `offboardCore`, `Return` the
reactivation in `updateStatus`.

Left out: batches (rank and lottery), invitations and on-site registration, which use the same calls with other guards; headers without identities, of before
the buckets; forms, qualification, insurance and gender, which only refuse; attendance and the start of the activity, after which nothing here moves.

`FirstComeSeats` knows who sits where, who waits where and in which order, the limits and the open sessions; a limit is about people, and there is no header,
revision, reservation row or counter. `SeatMap` reads the seats off the identities with status `pass`, `LineMap` the places in the line off the
waitlisted ones and the position in their revision. A member enters (`Submit`) and sits within all limits, or waits because something is full; goes (`Cancel`, `Reject`),
and somebody may follow who was before everybody left in that line; an empty session closes; a limit never falls below the people; the activity is called off. Approval,
reopening and deactivation are not seen. That a freed seat *must* go on is not part of it: `FreedSeatIsTaken` says when it does.

## 4. The runs

| run | instance | what it shows |
|---|---|---|
| `outbox_lease` | 1 intent, 3 drains in 2 processes, 3 attempts, lease 2, clock to 5; 3.3 million states | `TypeOK`: never more attempts than allowed. `FenceIdentifiesAttempt`, `LeaseExclusive`, `OneEffectPerAttempt` |
| `outbox_generations` | root, child and an earlier attempt for the same slot, 1 process with 2 drains, 2 attempts, clock to 2; 0.9 million | `ActiveSlotUnique`, `DeferNeverRefused`, `PendingNeverStranded`, `ImplementsPromise` |
| `ledger_contention` | 2 batches with a common member, 2 workers, cap 3 for 6 points, 2 attempts; 1.2 million | `TypeOK`, `ReadyIsComplete`, `DayStateExplained`, `ImplementsAtomicPosting` |
| `ledger_job` | 1 job of 2 chunks, 2 workers, 2 attempts, under `FairSpec` | `CountsExact`, `JobsSettle`, `ReadyNotForgotten` |
| `auth_rotation` | 1 user, 3 tokens, 2 requests, a password and a WeCom account, 1 and 2 changes; 0.3 million | `TypeOK`, `OneLivePerFamily`, `LiveIsEntitled`, `FreshRefreshKeepsFamily`, `ProofNotRevived` |
| `auth_identity` | 2 users, 2 tokens, 1 request, one phone number and one openid, 1 change of the phone; 0.6 million | `ImplementsSessions` |
| `sms_codes` | 1 phone, 2 purposes, 3 codes, 2 issuers, 2 verifiers, limit 2, a midnight at 3, clock to 4; 0.3 million | `TypeOK`, `RateLimited`, `OneLiveCode`, `ImplementsOneTimeCodes` |
| `storage_objects` | 1 object, uploaded or old; 2 workers, 1 request, 1 deletion, 1 relocation, 1 attestation, 2 attempts, under `FairSpec`; 1.1 million | `TypeOK`, `OneActive`, `DeletionHasOwner`, `AvailableIsStored`, `EvidenceIsKept`, `ReclaimedIsGone`, `ImplementsLifecycle`, `DeletionEnds` |
| `registrations` | 3 members, a session with 2 positions and one without, limits 1 and 2 or none, 1 member away at a time; 0.2 million | `TypeOK`, `NothingIsOversold`, `SeatsAgree`, `HeaderHidesNothing`, `NoPromotionOvertakes`, `FreedSeatIsTaken`, `ImplementsFirstCome` |
| `registrations_stuck` | as `registrations` | violates `CancelIsPossible`: a finding |
| `ledger_exhausted` | as `ledger_job` | violates `ExhaustedIsDead`: a finding |
| `ledger_cancelled` | as `ledger_job` | violates `CancelledIsFinal`: a finding |

Why the bounds are enough. Two actors are needed for every race here, and a third only where two of them share a process (`outbox_lease`).
Attempts go up to 2 or 3: first, last, and for the outbox one between. The clock of the outbox runs long enough for a lease to be granted, expire and be
granted again to somebody else while the first owner still works. In the ledger the points exceed the cap, so that the order of
postings matters, and one batch has a chunk the other does not touch. Three tokens are a family of two rotations, or two families. Three
codes with a limit of two are one more than a day allows, and the midnight lets a third in. The constants `MaxClock` and
`MaxVersion` (for each kind of credential; the openid needs none) bound what is unbounded in the code; they are guards of the actions named in the modules.
Two changes of the WeCom account let it come back to where an old proof saw it. A proof overtaken by a binding before signing in needs a phone and a WeCom account
with two requests; that is left to the theorem. Two workers on one object are one that has lost its
lease and one that has the next; one event key per kind of operation is enough because at most one is active. Three members are one with a seat and a
line of two; the two positions let a preference fall through to the second, and the two sessions let one cancellation free two seats. `Lists` bounds
the preferences a submission names, `Limits` the capacities, `MaxAway` the members deactivated at a time.

`VIEW` in `outbox_generations` drops the history of effects, which none of the properties of that run reads. Symmetry is used only in runs
without liveness, over sets whose elements the definitions treat alike, with no `CHOOSE` that has a choice among them, and with properties that are symmetric too.

`CHECK_DEADLOCK FALSE` everywhere, because every instance really stops: intents end in succeeded or dead, the clock reaches its bound,
tokens, versions, claims and codes are used up, an object is absent, an activity cancelled.

Fairness is assumed in two runs. In `ledger_job`: weak fairness of what a worker does next (`Work`), of the polling that creates and requeues jobs
(`Poll`), and of the expiry of a lease (`Expire`). The run loop of the worker never ends and dead processes are restarted by their
supervisor; a lease expires because time passes. Nothing is assumed of failures, cancellations.
In `storage_objects`: weak fairness of `Progress` as a whole, that is, something goes on as long as something can: the deadline passes, a lease expires, an
operation is claimed or buried, a call in progress takes its next step. The worker polls for ever and is restarted, every claim of any process sweeps, and
time passes. It is no fairness of single actions: every cycle of `Progress` uses up an attempt. Nothing is assumed of requests, of the provider's good will, or of crashes.

For each property `PROJECT.json` names a mutant: a plausible bug, written as an operator just before the definition it stands in for,
under which the run finds the property violated.

## 5. Proofs

Each theorem holds for all values of the constants that satisfy the assumptions of the module: `ShapeAssumption` and `TimingAssumption`
(outbox: at every attempt but the last the back-off leaves room for one base interval below the longest, which the constants of the code
satisfy), `ShapeAssumption` and `BoundAssumption` (ledger: chunks are disjoint, the cap is a natural number), `KindAssumption`,
`BoundAssumption`, `NoneAssumption` and `SessionAssumption` (sessions: `None` is no row), `LimitAssumption`, `CodeAssumption` and `NoneAssumption` (codes: a
positive interval, finitely many rows), `EventAssumption` and `AttemptsAssumption` (storage: event keys of different kinds differ, there is at least one
attempt), `SessionAssumption`, `BucketAssumption`, `ListAssumption`, `LimitAssumption` (registrations: the buckets differ, a position belongs to one session, a
preference names each position once).

The pattern is the same each time: a conjunction `IndInv` that holds initially and is kept by every step, from which the
invariants of the runs follow, and with whose help every step maps to a step of the abstract specification or to a stutter.

- **Outbox.** No invariant is inductive alone, since they speak of the row while the danger lies in what a drain remembers.
  `Order` says how the clock readings of all attempts ever made lie against those of the row; `Lapsed` says what an attempt knows when it has lost its
  fence. From them: `TypeCorrect`, `FenceSound`, `LeaseMutex`, `EffectBound`, `SlotExclusive`, `DeferAccepted`, `NeverStranded`, `Refinement`.
  Three more theorems go beyond the runs. `NeverOutOfReach`: a pending or processing row comes free within the longest back-off, and is then claimable or due for the
  sweep, whatever chain of failures, deferrals and deaths it has behind it. `RowsMoveOn`: no late drain writes a finished row or gives back an attempt of a
  message. `MessagesCounted`: a member is written to at most as often as the row was charged.
- **Ledger.** `EntriesFromPast`: an entry is the right credit for a total the day once had. Totals only grow, and `Commit` checks the
  cap, so the entry is the right credit still (`OldCreditFits`). `Keyed`, `PreparedHaveEntries` and `Frozen` carry baseline and entries from the chunks to
  the posting. From them: `TypeCorrect`, `ReadyComplete`, `Refinement`. Relative to it, `DaysExplained` and `CountsHold` speak of running sums. What
  the sum over a finite set of batches is, whichever batch is added first, is shown by a smallest counterexample, with the theorem on minima of well-founded
  relations. `CountsHold` rests on `ClaimsApart` (rounds on one job have different claim numbers, so that the one with the fence is alone) and
  `TodoOpen` (it has prepared no chunk that it still means to prepare). That the total is the recognised points up to the cap follows batch by batch from
  the credit that each posting gives.
- **Sessions.** Almost every transaction only revokes: that shape (`Shrinks`) is established once per action and used once per
  invariant. `FamiliesAgree` ties the rows of a family together, `PresentedExist` and `ProofsAge` say what a waiting request may rely on. From
  them: `TypeCorrect`, `OneLive`, `Entitled`, `FreshRefresh`, `ProofSpent`, `Refinement`. Beyond the runs: `ClosedForGood` (a family with no usable
  token never gets one again, whatever rotation was on its way), `ReplayCloses` (a refresh with a rotated token leaves no usable token in the family), and
  `IdentityReachesOne` (usable tokens opened under one phone, openid or WeCom identity are all of one account, also right after the identity has moved
  to another; it needs `UniqueIdentities`, that the unique indexes hold over what binding, clearing and reopening write).
- **Codes.** `CheckHolds` carries what was counted at the grant to the write: nobody else holds the lock of the phone (`OneHolder`), and the codes
  of a later day are among those of an earlier one. From them: `TypeCorrect`, `Limits`, `OneLive`, `Refinement`. Beyond the run, what a verification is
  worth: `OnlyNewestAccepted` (a code is consumed only while it is valid and all others of its phone and purpose are older, though the comparison was made
  on an earlier read; it needs `LiveIsNewest`) and `GuessesCounted` (the guesses that fail against one phone on one day are at most the limit times the guesses
  per code, over all purposes: asking for another code does not buy more).
- **Storage.** `OneActive` is what lets a transaction know that nobody else is at work, and it needs `RowsFit` (which references, requests and
  operations a state of the object allows) and `Fenced` (a call that still holds its lease is the only one of its generation). `AnswersHold` says what a
  remembered answer is still worth: a HEAD that found bytes stands until a deletion was requested or something outside lost them; one that found
  none, under a lease granted after the URL expired, stands for good, since nobody can put any more. `Leased` ties a lease to the phase it was granted in.
  From them: `TypeCorrect`, `OneActiveHolds`, `DeletionHasOwnerHolds`, `AvailableIsStoredHolds`, `EvidenceIsKeptHolds`, `ReclaimedIsGoneHolds`, `Refinement`.

- **Registrations.** The heart is `GoodBooks`: each identity agrees with itself, the reservations of a member are those of the identities, with one of
  the activity if there is a seat, the counters count them, limits hold, and seats and waiters are in sessions that take place. Three lemmas show that
  reserving (`ReserveKeeps`), releasing (`ReleaseKeeps`) and rewriting identities (`Rewritten`) keep it. A submission and a promotion do this once per session, however
  many there are. `FoldLemmas` carries a fact through such a fold: the induction is a smallest counterexample, and the hypothesis is a set of pairs (places
  done, books), since the prover cannot take an operator. The facts carried are `SeatGood` (the submitter's seats are won, nobody else is touched) and
  `PromoteGood` (who was promoted was at the head and alone in the session, and a freed seat has gone to the head or the activity is full). Counters only rise
  in a submission, so what was full when somebody was made to wait is full when it commits (`StillAwaits`). `LineFits` says that `ahead` is a strict order of those who
  wait, `HeaderTells` what a header says of its identities. From them: `TypeCorrect`, `NoOversale`, `SeatsReconciled`,
  `HeaderSound`, `PromotionsInOrder`, `FreedSeatGoesOn`, and `Refinement`: every property of the run. The refinement reads the invariant as `Bridge`: counters are
  numbers of people (`CountsPeople`), so limits of rows are limits of people, and the waiters are those in some line. Then each command is one action above
  (`SubmitEnters`, `CancelExits`, `RejectExits`, `CancelSessionCloses`, `ResizeResizes`, `CancelActivityCallsOff`) or a stutter (`Unseen`).
  Beyond the run: `NoMorePeopleThanPlaces` counts people where `NoOversale` counts
  rows (each counter is the number of members with a seat there, once each in the whole activity, and within the limit), and `OrganiserNeverRefused` says
  what that is worth to the organiser: the check of the counters passes in every state, and for a session to be cancelled exactly when nobody has a seat in it.

Theorems without a run of their own were checked with TLC on the instances of section 4 before they were proved.

Liveness. `JobsSettle`, `ReadyNotForgotten` and `DeletionEnds` are only model-checked, since liveness under fairness and `ENABLED` are out of the prover's reach. What they
rest on is proved, in two parts, for the ledger and for the storage.

- *Nothing is stuck* (`WorkGoesOnHolds`, `DeletionGoesOn`): whoever is in the middle of something has a next step, a job in processing has somebody who will look
  at it, a batch on its way to the ledger too unless its job was given up, and while an object waits for its deletion some step of `Progress` is possible.
  "Possible" is written out as the guards (`CanWork`, `CanPoll`, `CanGoOn`), which TLC found equal to `ENABLED` on the instances.
- *Nothing goes on for ever* (`BackgroundIsSpent`, `ProgressIsSpent`): each fair step lowers a measure, attempts left before steps left, and no other step raises it,
  be it a crash, a lost answer or a request. `FewerWellFounded` says that the measure cannot fall for ever, if the
  sets of rows and workers are finite.

What is left to TLC is the last step: that weak fairness of such steps makes them happen.

## 6. Findings and observations

Three runs show the code doing something else than its comments and documents say.

- `registrations_stuck`: somebody who waits with a named position has it in the revision and not on the identity, and the reconciliation before
  a cancellation takes that for a drift. Such a member cannot cancel, be rejected or submit again, while the registration state machine and
  `docs/participation-bounded-context.md` (section 4, rows 5 and 6) let a waitlisted registration be rejected and cancelled. That the copies of a *seat* agree, and the
  pointers, reservations and counters of everybody, is `SeatsAgree`, of `registrations`.
- `ledger_exhausted`: a job whose last attempt fails is put back to pending by `releaseForRetry`, with no attempt left. It is never claimed
  and never becomes dead, so it is not offered for retry either; the comment on `ACTIVITY_BATCH_MAX_ATTEMPTS` says that it becomes dead.
- `ledger_cancelled`: a preparation job cancelled between its last chunk and `finalize` succeeds all the same, is queued again, and
  its batch is posted; the comment on `cancel` says that the round gives up.

Seen while modelling, and not the subject of a run, since the repository has no plain statement to hold them against:

- When the answer of a committed `prepareChunk` is lost, the chunk is marked failed, prepared and counted again, and `finalize` condemns
  the batch for a mismatch of counts. `CountsExact` therefore excepts the batches in `lost`.
- A batch whose baseline has changed is never prepared again: each attempt of the posting meets the same refusal until the attempts are used up.
- No preparation job can be retried by hand. Without a failed item `retryFailed` refuses it; with one it takes the failed items off the counter `failed`, which
  nothing raises for these jobs, and the CHECK that it is not negative rolls the retry back. A dead, cancelled or failed job leaves its batch in preparing.
- A failed batch is not opened again: the comment in `finalize` expects a next final approval, which `assertNoEffectiveDecision` of the
  settlement review refuses.

- An upload whose provider fails every time uses up its 20 attempts after back-offs of 3511 s in all, while the deadline of its verification may lie 4500 s
  after the preparation (an hour of URL and the grace). A dead verification job refuses a valid confirmation, and it is this job
  that would have reclaimed the bytes. An attempt that finds the bytes too early counts as well, though the test of the worker calls that no failure.
- After a bound attachment is deleted, its signed URL may still be valid: bytes put again under it are owned by no row.
- A seat won by promotion and cancelled later promotes nobody: the search for freed seats asks for a revision with the key of a submission, and a promoted one has none.
  `FreedSeatIsTaken` therefore speaks of seats won by submission. Row 6 of section 4 of
  `docs/participation-bounded-context.md` speaks of the cancellation of any allocated seat, but says which queue is served, not that it must be.
- The search for freed seats reads all cancelled identities of the registration, not those this command has cancelled: a cancellation also serves a seat that an earlier
  one of the same member left empty, in a session the member has not entered since. `FirstComeSeats` allows it, because asking for a seat freed in the same step was violated.
- `reject` writes the header `reject` where the identities, some rejected and some cancelled, derive `cancelled`; `reopen` and `approve` leave a header that passes over
  identities that are pending and hold no seat. Cancelling a session or the activity is then refused, though the participation
  state machine calls the header a projection.
- A head of the line who is inactive blocks those behind; the room of a raised limit goes to whoever submits next rather than to the
  line; promotion serves the same session and position only.

## 7. Not modelled

The components that section 1 describes and section 3 does not, for the reasons in `PROJECT.json`; those worth modelling are steps 7 to 10 of the plan. Inside the
modelled parts: the contents of messages, the allocation of service time to days, hashing and tokens as strings, permissions, audit records, logging,
and the providers, whose answers are nondeterministic.
