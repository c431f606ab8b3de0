---------------------------- MODULE LedgerPosting ----------------------------
(***************************************************************************)
(* The settlement ledger's background job: ActivityBatchWorker claims the  *)
(* settlement_prepare job of a posting batch under a lease, prepares the   *)
(* batch chunk by chunk (LedgerPreparationService), and posts it in one    *)
(* transaction (LedgerPostingService.commitBatch) that compares the day    *)
(* state with the baseline read while preparing.                           *)
(*                                                                         *)
(* One job per batch; every transaction is one step; a worker may be slow  *)
(* or die between any two of them.  Time is abstracted to a lease that may *)
(* expire at any moment, and a back-off to a wait of any length.  The      *)
(* lease owner is a fresh UUID at every claim, so owner and generation     *)
(* together are the number of the claim (0: no owner).  All service is on  *)
(* one ledger day; automatic commit is on; corrections are left out.       *)
(***************************************************************************)
EXTENDS Integers, FiniteSets, FiniteSetsExt

CONSTANTS
    Batches,       \* posting batches; their job has the unique operationKey
    Members,
    Chunks,        \* [Batches -> Nat \ {0}]: number of items of the job
    Part,          \* [Batches -> [Nat -> SUBSET Members]]: members of a chunk
    Points,        \* [Batches -> [Members -> Nat]]: recognised points
    Cap,           \* LEDGER_DAILY_CREDIT_CAP
    Workers,
    MaxAttempts,   \* ACTIVITY_BATCH_MAX_ATTEMPTS
    None, NoBatch

Items(b) == 1..Chunks[b]
MembersOf(b) == UNION {Part[b][k] : k \in Items(b)}

ASSUME ShapeAssumption ==
    /\ IsFiniteSet(Members)
    /\ Chunks \in [Batches -> Nat \ {0}]
    /\ \A b \in Batches : \A k \in Items(b) : Part[b][k] \subseteq Members
    /\ \A b \in Batches : \A k, l \in Items(b) : k # l => Part[b][k] \cap Part[b][l] = {}
    /\ Points \in [Batches -> [Members -> Nat]]
    /\ Cap \in Nat
    /\ NoBatch \notin Batches
    /\ None \notin Nat
    /\ None \notin [version : Nat, total : Nat]
    /\ None \notin [Members -> [version : Nat, total : Nat] \cup {None}]
ASSUME BoundAssumption == MaxAttempts \in Nat \ {0}

VARIABLES
    batch,    \* LedgerPostingBatch: status, preparedCount, baselineJsonHash
    job,      \* ActivityBatchJob: status, attempts, lease, payload baseline
    item,     \* ActivityBatchJobItem: one per chunk
    entry,    \* contribution entries of the batch: credited points or None
    day,      \* MemberContributionDayState: version and committed points
    worker,   \* what a round of drainOnce holds in memory
    lost      \* history: batches with a prepared chunk whose answer got lost

vars == <<batch, job, item, entry, day, worker, lost>>

NoBatchRow == [status |-> "absent", prepared |-> 0, hash |-> None]

NoJob == [status |-> "absent", attempts |-> 0, gen |-> 0, owner |-> 0,
          lease |-> "null", baseline |-> [m \in Members |-> None]]

Resting == [pc |-> "idle", batch |-> NoBatch, claim |-> 0, todo |-> {}]

Init ==
    /\ batch = [b \in Batches |-> NoBatchRow]
    /\ job = [b \in Batches |-> NoJob]
    /\ item = [b \in Batches |-> [k \in Items(b) |-> "pending"]]
    /\ entry = [b \in Batches |-> [m \in Members |-> None]]
    /\ day = [m \in Members |-> [version |-> 0, total |-> 0]]
    /\ worker = [w \in Workers |-> Resting]
    /\ lost = {}

Goto(w, pc) == worker' = [worker EXCEPT ![w].pc = pc]
Rest(w) == worker' = [worker EXCEPT ![w] = Resting]

-----------------------------------------------------------------------------
(* Before the claim. *)

\* The final review's approval opens the batch; nothing is in the ledger yet.
FinalApprove(b) ==
    /\ batch[b].status = "absent"
    /\ batch' = [batch EXCEPT ![b].status = "preparing"]
    /\ UNCHANGED <<job, item, entry, day, worker, lost>>

\* ensurePrepareJob, called by every round for the batches without a job.
EnsureJob(b) ==
    /\ batch[b].status = "preparing"
    /\ job[b].status = "absent"
    /\ job' = [job EXCEPT ![b].status = "pending"]
    /\ UNCHANGED <<batch, item, entry, day, worker, lost>>

\* Mutant: only an ended lease, not one that ran out, marks the job as abandoned.
RequeueableIfReleased(b) ==
    job[b].status = "succeeded" /\ batch[b].status = "ready" /\ job[b].lease = "null"

Requeueable(b) ==
    job[b].status = "succeeded" /\ batch[b].status = "ready" /\ job[b].lease # "running"

\* A ready batch whose commit nobody is at work on.
Requeue(b) ==
    /\ Requeueable(b)
    /\ job' = [job EXCEPT ![b].status = "pending"]
    /\ UNCHANGED <<batch, item, entry, day, worker, lost>>

-----------------------------------------------------------------------------
(* The claim. *)

Expired(b) == job[b].status = "processing" /\ job[b].lease = "expired"

\* Mutant: a job that died in its last attempt is left as it is.
ExhaustedNever(b) == FALSE /\ Expired(b)

Exhausted(b) == Expired(b) /\ job[b].attempts >= MaxAttempts

\* Mutant: one attempt too many.
ClaimableOnceMore(b) ==
    job[b].attempts <= MaxAttempts /\ (job[b].status = "pending" \/ Expired(b))

Claimable(b) ==
    job[b].attempts < MaxAttempts /\ (job[b].status = "pending" \/ Expired(b))

Unleased(j, status) == [j EXCEPT !.status = status, !.owner = 0, !.lease = "null"]

\* sweepDead opens the claim's transaction.
Swept == [b \in Batches |-> IF Exhausted(b) THEN Unleased(job[b], "dead") ELSE job[b]]

Claim(w, b) ==
    /\ worker[w].pc = "idle"
    /\ Claimable(b)
    /\ job' = [Swept EXCEPT ![b] =
         [@ EXCEPT !.status = "processing", !.attempts = job[b].attempts + 1,
                   !.gen = job[b].gen + 1, !.owner = job[b].gen + 1, !.lease = "running"]]
    /\ worker' = [worker EXCEPT ![w] =
         [Resting EXCEPT !.pc = "claimed", !.batch = b, !.claim = job[b].gen + 1]]
    /\ UNCHANGED <<batch, item, entry, day, lost>>

\* A claim that finds no candidate has still swept.
ClaimNothing(w) ==
    /\ worker[w].pc = "idle"
    /\ \E b \in Batches : Exhausted(b)
    /\ job' = Swept
    /\ UNCHANGED <<batch, item, entry, day, worker, lost>>

\* Five minutes have passed; nothing renews this lease.
Expire(b) ==
    /\ job[b].lease = "running"
    /\ job' = [job EXCEPT ![b].lease = "expired"]
    /\ UNCHANGED <<batch, item, entry, day, worker, lost>>

-----------------------------------------------------------------------------
(* Preparing chunk by chunk. *)

B(w) == worker[w].batch

\* Mutant: whoever holds the item may write.
FencedByBatch(w) == job[B(w)].status = "processing"

\* (leaseOwner, leaseGeneration) still are this round's.
Fenced(w) == job[B(w)].owner = worker[w].claim

\* The items left, read without a lock.
ReadItems(w) ==
    /\ worker[w].pc = "claimed"
    /\ worker' = [worker EXCEPT ![w].pc = "preparing",
                     ![w].todo = {k \in Items(B(w)) : item[B(w)][k] # "succeeded"}]
    /\ UNCHANGED <<batch, job, item, entry, day, lost>>

\* Items are taken in the order of their keys.
First(w, k) == k \in worker[w].todo /\ \A l \in worker[w].todo : k <= l

Done(w, k) == worker' = [worker EXCEPT ![w].todo = @ \ {k}]

Credit(points, sofar) == IF points < Cap - sofar THEN points ELSE Cap - sofar

\* writeLedgerEntries: an entry that exists is left alone.
Entered(b, k) == [m \in Members |->
    IF m \in Part[b][k] /\ entry[b][m] = None THEN Credit(Points[b][m], day[m].total)
                                              ELSE entry[b][m]]

\* Mutant: the payload keeps the baseline of the last chunk only.
MergedLastOnly(b, k) == [m \in Members |-> IF m \in Part[b][k] THEN day[m] ELSE None]

\* mergeBaselineIntoJob: the day state the cap was applied to.
Merged(b, k) == [m \in Members |-> IF m \in Part[b][k] THEN day[m] ELSE job[b].baseline[m]]

\* Every answer of prepareChunk but an error takes the worker to the next item.
Preparable(w, k) ==
    /\ Fenced(w)
    /\ item[B(w)][k] # "succeeded"
    /\ batch[B(w)].status = "preparing"

\* prepareChunk's transaction.  When its answer gets lost the worker takes the
\* chunk for failed.
PrepareChunk(w, k) ==
    /\ worker[w].pc = "preparing"
    /\ First(w, k)
    /\ Preparable(w, k)
    /\ entry' = [entry EXCEPT ![B(w)] = Entered(B(w), k)]
    /\ job' = [job EXCEPT ![B(w)] =
                 [@ EXCEPT !.status = "processing", !.baseline = Merged(B(w), k)]]
    /\ item' = [item EXCEPT ![B(w)][k] = "succeeded"]
    /\ batch' = [batch EXCEPT ![B(w)].prepared = @ + Cardinality(Part[B(w)][k])]
    /\ \/ Done(w, k) /\ UNCHANGED lost
       \/ Goto(w, "failing") /\ lost' = lost \cup {B(w)}
    /\ UNCHANGED day

\* An item another round has prepared meanwhile is skipped; a lost lease ends the
\* round, without a word to the job.
SkipChunk(w, k) ==
    /\ worker[w].pc = "preparing"
    /\ First(w, k)
    /\ \/ Fenced(w) /\ item[B(w)][k] = "succeeded" /\ Done(w, k)
       \/ ~Fenced(w) /\ Rest(w)
    /\ UNCHANGED <<batch, job, item, entry, day, lost>>

\* Rolled back: the batch is no longer preparing, the data cannot be split into
\* days, or the database fails.
PrepareFails(w) ==
    /\ worker[w].pc = "preparing"
    /\ worker[w].todo # {}
    /\ Goto(w, "failing")
    /\ UNCHANGED <<batch, job, item, entry, day, lost>>

\* markItemFailed asks for the fence, never for the item's own state.
MarkItemFailed(w, k) ==
    /\ worker[w].pc = "failing"
    /\ First(w, k)
    /\ item' = IF Fenced(w) THEN [item EXCEPT ![B(w)][k] = "failed"] ELSE item
    /\ Goto(w, "releasing")
    /\ UNCHANGED <<batch, job, entry, day, lost>>

\* releaseForRetry ends the round: back-off, or no longer the holder.
Release(w) ==
    /\ worker[w].pc = "releasing"
    /\ job' = IF Fenced(w) THEN [job EXCEPT ![B(w)] = Unleased(@, "pending")] ELSE job
    /\ Rest(w)
    /\ UNCHANGED <<batch, item, entry, day, lost>>

-----------------------------------------------------------------------------
(* Closing the preparation; the fence is not asked for. *)

Unfinished(b) == {k \in Items(b) : item[b][k] # "succeeded"}

\* What the worker does with the batch status finalize answers.
After(w, status) ==
    CASE status = "ready"     -> Goto(w, "marking")
      [] status = "committed" -> Goto(w, "closing")
      [] OTHER                -> Rest(w)

Finalize(w) ==
    /\ worker[w].pc = "preparing"
    /\ worker[w].todo = {}
    /\ LET b == B(w)
       IN \/ /\ Unfinished(b) # {} \/ batch[b].status # "preparing"
             /\ After(w, batch[b].status)
             /\ UNCHANGED <<batch, job>>
          \/ /\ Unfinished(b) = {} /\ batch[b].status = "preparing"
             /\ batch[b].prepared # Cardinality(MembersOf(b))
             /\ job' = [job EXCEPT ![b].status = "failed"]
             /\ batch' = [batch EXCEPT ![b].status = "failed"]
             /\ After(w, "failed")
          \/ /\ Unfinished(b) = {} /\ batch[b].status = "preparing"
             /\ batch[b].prepared = Cardinality(MembersOf(b))
             /\ job' = [job EXCEPT ![b].status = "succeeded"]
             /\ batch' = [batch EXCEPT ![b].status = "ready", ![b].hash = job[b].baseline]
             /\ After(w, "ready")
    /\ UNCHANGED <<item, entry, day, lost>>

\* markReadyForCommit: the committer wants to see a succeeded job.
MarkReady(w) ==
    /\ worker[w].pc = "marking"
    /\ IF Fenced(w)
       THEN job' = [job EXCEPT ![B(w)].status = "succeeded"] /\ Goto(w, "committing")
       ELSE UNCHANGED job /\ Rest(w)
    /\ UNCHANGED <<batch, item, entry, day, lost>>

-----------------------------------------------------------------------------
(* Posting: commitBatch, one transaction behind the member locks. *)

Covered(b) == {m \in Members : entry[b][m] # None}

\* assertBaselineIntact: digest and key set.
BaselineIntact(b) ==
    /\ job[b].baseline = batch[b].hash
    /\ \A m \in Members : job[b].baseline[m] # None <=> m \in Covered(b)

BaselineUnchanged(b) == \A m \in Covered(b) : job[b].baseline[m] = day[m]

WithinCap(b) == \A m \in Covered(b) : day[m].total + entry[b][m] <= Cap

Postable(b) ==
    /\ batch[b].status = "ready"
    /\ job[b].status = "succeeded"
    /\ BaselineIntact(b) /\ BaselineUnchanged(b) /\ WithinCap(b)

\* Mutant: the day is credited with the recognised points.
AdvancedByRecognized(b) == [m \in Members |->
    IF m \in Covered(b)
    THEN [version |-> day[m].version + 1, total |-> day[m].total + Points[b][m]]
    ELSE day[m]]

\* Mutant: a day that gains nothing keeps its version.
AdvancedWhereCredited(b) == [m \in Members |->
    IF m \in Covered(b) /\ entry[b][m] # 0
    THEN [version |-> day[m].version + 1, total |-> day[m].total + entry[b][m]]
    ELSE day[m]]

Advanced(b) == [m \in Members |->
    IF m \in Covered(b)
    THEN [version |-> day[m].version + 1, total |-> day[m].total + entry[b][m]]
    ELSE day[m]]

\* The commit's answer may get lost as well; a batch that is committed already is
\* a replay.
Commit(w) ==
    /\ worker[w].pc = "committing"
    /\ LET b == B(w)
       IN \/ batch[b].status = "committed" /\ UNCHANGED <<batch, day>>
          \/ /\ Postable(b)
             /\ batch' = [batch EXCEPT ![b].status = "committed"]
             /\ day' = Advanced(b)
    /\ Goto(w, "acking") \/ Goto(w, "releasing")
    /\ UNCHANGED <<job, item, entry, lost>>

\* Refused (a changed baseline, the cap, the lock budget, an overlap with another
\* activity) or failed; so may markReadyForCommit and the acknowledgement.
CommitFails(w) ==
    /\ worker[w].pc \in {"marking", "committing", "acking"}
    /\ Goto(w, "releasing")
    /\ UNCHANGED <<batch, job, item, entry, day, lost>>

\* markCommitSucceeded, by the poster or by a round that found the batch posted.
Acknowledge(w) ==
    /\ worker[w].pc \in {"acking", "closing"}
    /\ job' = IF Fenced(w) THEN [job EXCEPT ![B(w)] = Unleased(@, "succeeded")] ELSE job
    /\ Rest(w)
    /\ UNCHANGED <<batch, item, entry, day, lost>>

-----------------------------------------------------------------------------
(* Crashes and people. *)

\* The process dies, or an error escapes drainOnce: the lease runs out.
Abandon(w) ==
    /\ worker[w].pc # "idle"
    /\ Rest(w)
    /\ UNCHANGED <<batch, job, item, entry, day, lost>>

\* The one command a person has: a retry takes from the job's counter of failed
\* items, which a preparation never raises and a CHECK keeps from being negative.
Cancel(b) ==
    /\ job[b].status \in {"pending", "processing", "failed"}
    /\ job' = [job EXCEPT ![b] = Unleased(@, "cancelled")]
    /\ UNCHANGED <<batch, item, entry, day, worker, lost>>

-----------------------------------------------------------------------------
Prepare(w) == \E k \in worker[w].todo :
    PrepareChunk(w, k) \/ SkipChunk(w, k) \/ MarkItemFailed(w, k)

\* What a worker that is neither dead nor stuck goes on doing.
Work(w) ==
    \/ \E b \in Batches : Claim(w, b)
    \/ ClaimNothing(w) \/ ReadItems(w) \/ Prepare(w) \/ PrepareFails(w) \/ Release(w)
    \/ Finalize(w) \/ MarkReady(w) \/ Commit(w) \/ CommitFails(w) \/ Acknowledge(w)

Poll(b) == EnsureJob(b) \/ Requeue(b)

Next ==
    \/ \E b \in Batches :
          FinalApprove(b) \/ Poll(b) \/ Expire(b) \/ Cancel(b)
    \/ \E w \in Workers : Work(w) \/ Abandon(w)

Spec == Init /\ [][Next]_vars

\* Each process loops for ever (run), is restarted when it dies, and time passes.
Fairness ==
    /\ \A w \in Workers : WF_vars(Work(w))
    /\ \A b \in Batches : WF_vars(Poll(b)) /\ WF_vars(Expire(b))

FairSpec == Spec /\ Fairness

-----------------------------------------------------------------------------
(* Properties. *)

DayStates == [version : Nat, total : 0..Cap]
Baselines == [Members -> DayStates \cup {None}]

BatchRows == [status : {"absent", "preparing", "ready", "committed", "failed"},
              prepared : Nat, hash : Baselines \cup {None}]

JobRows == [status : {"absent", "pending", "processing", "succeeded", "failed", "dead",
                      "cancelled"},
            attempts : 0..MaxAttempts, gen : Nat, owner : Nat,
            lease : {"null", "running", "expired"}, baseline : Baselines]

WorkerStates == [pc : {"idle", "claimed", "preparing", "failing", "releasing", "marking",
                       "committing", "acking", "closing"},
                 batch : Batches \cup {NoBatch}, claim : Nat, todo : SUBSET Nat]

\* The type invariant.  Its content: no job is charged more attempts than allowed,
\* no day total passes the cap, an owner is always the latest claim, and a round
\* works on items of its own job.
TypeOK ==
    /\ batch \in [Batches -> BatchRows]
    /\ job \in [Batches -> JobRows]
    /\ \A b \in Batches : job[b].owner \in {0, job[b].gen}
    /\ DOMAIN item = Batches
    /\ \A b \in Batches : item[b] \in [Items(b) -> {"pending", "failed", "succeeded"}]
    /\ entry \in [Batches -> [Members -> (0..Cap) \cup {None}]]
    /\ day \in [Members -> DayStates]
    /\ worker \in [Workers -> WorkerStates]
    /\ \A w \in Workers : worker[w].pc # "idle" =>
          worker[w].batch \in Batches /\ worker[w].todo \subseteq Items(worker[w].batch)
    /\ lost \subseteq Batches

\* preparedCount is a running sum that nothing recomputes, and finalize condemns
\* the batch when it is not exact.  However many rounds work on a job, every
\* prepared chunk is counted once, unless a prepared chunk was taken for failed
\* because its answer got lost.
CountsExact ==
    \A b \in Batches \ lost :
        /\ batch[b].prepared =
             Cardinality(UNION {Part[b][k] : k \in Items(b) \ Unfinished(b)})
        /\ batch[b].status # "failed"

\* A batch that got ready has all its entries, and a baseline that is complete
\* and never touched again: finalize needs no fence, and the digest check of
\* commitBatch (20085) finds fault only with a job that is not succeeded.
ReadyIsComplete ==
    \A b \in Batches : batch[b].status \in {"ready", "committed"} =>
        Covered(b) = MembersOf(b) /\ BaselineIntact(b)

\* The day state is the sum of the posted entries, and its version counts the
\* batches posted to it, whichever batches raced for the day.  In whatever order
\* they won, the member has what the batches recognise together, up to the cap.
DayStateExplained ==
    \A m \in Members :
        LET posted == {b \in Batches : batch[b].status = "committed" /\ m \in MembersOf(b)}
            recognised == MapThenSumSet(LAMBDA b : Points[b][m], posted)
        IN /\ day[m].version = Cardinality(posted)
           /\ day[m].total = MapThenSumSet(LAMBDA b : entry[b][m], posted)
           /\ day[m].total = IF recognised < Cap THEN recognised ELSE Cap

Ledger == INSTANCE AtomicPosting WITH
    Crew <- [b \in Batches |-> MembersOf(b)],
    posted <- {b \in Batches : batch[b].status = "committed"},
    total <- [m \in Members |-> day[m].total]

\* Preparing ahead of time, in chunks, without locks, changes nothing: each batch
\* is posted whole and at most once, for what the cap leaves at that moment.
ImplementsAtomicPosting == Ledger!Spec

\* A job somebody must look at; no worker takes it up again.
Parked(b) ==
    \/ job[b].status \in {"failed", "dead", "cancelled"}
    \/ job[b].status = "pending" /\ job[b].attempts >= MaxAttempts

\* No job stays in processing for ever, whoever dies while holding it.
JobsSettle == \A b \in Batches : []<>(job[b].status # "processing")

\* A crash between the end of the preparation and the commit loses nothing: in
\* the end no batch is ready but one whose job was given up.
ReadyNotForgotten == \A b \in Batches : <>[](batch[b].status = "ready" => Parked(b))

\* What the comment on ACTIVITY_BATCH_MAX_ATTEMPTS says: a job that has used its
\* attempts up without success is dead, so a pending job has one left.
ExhaustedIsDead == \A b \in Batches : job[b].status = "pending" => job[b].attempts < MaxAttempts

\* What the comment on cancel says: a cancelled job is not claimed again and the
\* round that holds it gives up, so cancelled is final.
CancelledIsFinal ==
    [][\A b \in Batches : job[b].status = "cancelled" => job'[b].status = "cancelled"]_vars
=============================================================================
