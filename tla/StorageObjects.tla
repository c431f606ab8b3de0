--------------------------- MODULE StorageObjects ---------------------------
(***************************************************************************)
(* The storage object ledger: one row of storage_objects, the rows of      *)
(* storage_object_operations that act on it, the Attachment row it is      *)
(* bound to, and the bytes the provider holds under its key.  Upload,      *)
(* confirmation, verification job, rollout backfill, download, deletion,   *)
(* orphan reclamation and the two manual operations meet on it.            *)
(*                                                                         *)
(* Objects share nothing but the queue, so one is enough.  Every database  *)
(* transaction is one step; a provider call is a step of its own, and what *)
(* it answered may be stale when the next transaction runs.  An operation  *)
(* is claimed under a lease whose fence is (id, generation); attempts and  *)
(* leaseGeneration are raised together and only by a claim.                *)
(*                                                                         *)
(* Time is the phase of an upload: "open" while the signed URL is valid,   *)
(* "grace" until unboundExpiresAt, "over" after it.  A lease is shorter    *)
(* than the grace, so none granted while the URL was valid outlives the    *)
(* grace.  Bytes are put only while the URL is valid.  The application     *)
(* runs in JIT mode: STRICT only removes the rollout candidates.           *)
(***************************************************************************)
EXTENDS Integers, FiniteSets

CONSTANTS
    Worker,        \* executeClaimed calls: worker processes and HTTP drains
    Client,        \* HTTP requests that confirm or download
    Actor,         \* users who delete: one attachment_delete event key each
    Relocation,    \* manual_relocate event keys
    Attestation,   \* manual_attest_absent event keys
    None,
    MaxAttempts    \* STORAGE_OPERATION_MAX_ATTEMPTS

Event == {"verify", "backfill", "orphan"} \cup Actor \cup Relocation \cup Attestation

ASSUME EventAssumption ==
    /\ \A S \in {Actor, Relocation, Attestation} : {"verify", "backfill", "orphan"} \cap S = {}
    /\ Actor \cap Relocation = {}
    /\ Actor \cap Attestation = {}
    /\ Relocation \cap Attestation = {}
    /\ None \notin Event
ASSUME AttemptsAssumption == MaxAttempts \in Nat \ {0}

VARIABLES
    obj,          \* the storage_objects row
    attachment,   \* the Attachment row exists
    evidence,     \* an immutable evidence row references the Attachment
    op,           \* storage_object_operations by event key
    worker,       \* executeClaimed calls in progress
    client,       \* what each HTTP request has learned from the provider
    bytes,        \* what the provider holds at the locator of the object
    lost,         \* history: bytes vanished outside the application
    phase         \* of the upload deadline

vars == <<obj, attachment, evidence, op, worker, client, bytes, lost, phase>>
rows == <<obj, attachment, evidence, op>>
world == <<bytes, lost, phase>>

Unbound == {"pending_upload", "present_unbound", "provider_unknown"}
Candidate == {"legacy_unverified", "provider_unknown"}
Relocatable == Candidate \cup {"missing", "integrity_mismatch"}
Deleting == {"delete_pending", "delete_failed"}
State == {"none", "available", "absent"} \cup Unbound \cup Relocatable \cup Deleting

Phase == {"open", "grace", "over"}
Step == {"idle", "claimed", "head", "present", "absent", "recorded", "delete", "deleting",
         "deleted", "failed"}
Answer == {"idle", "evidence", "unsure", "missing", "mismatch", "unverified", "verified"}

Object == [source : {"upload", "backfill"}, state : State, bound : BOOLEAN,
           deleteRequested : BOOLEAN, moved : BOOLEAN]
Row == [status : {"none", "pending", "processing", "succeeded", "dead"},
        attempts : 0..MaxAttempts, lease : Phase \cup {"none"}, replayOf : Event \cup {None}]
Call == [step : Step, event : Event, generation : 0..MaxAttempts]

NoRow == [status |-> "none", attempts |-> 0, lease |-> "none", replayOf |-> None]
Pending == [NoRow EXCEPT !.status = "pending"]
Idle == [step |-> "idle", event |-> "verify", generation |-> 0]

-----------------------------------------------------------------------------
(* Operations                                                              *)

Active(e) == op[e].status \in {"pending", "processing"}

\* mutant: a command looks for other deletions only
NoDeletionActive == \A a \in Actor : ~Active(a)

NoneActive == \A e \in Event : ~Active(e)
Ended == {e \in Event : op[e].status \in {"succeeded", "dead"}}
Deletion == Actor \cup {"orphan"}

\* The rows with e in status s, its lease given up.
End(e, s) == [op EXCEPT ![e] = [@ EXCEPT !.status = s, !.lease = "none"]]

\* A new row: eventKey is unique.
New(e, row) == op[e].status = "none" /\ op' = [op EXCEPT ![e] = row]

\* orphan_delete is not available before unboundExpiresAt; a retry waits.
Due(e) == e = "orphan" => phase = "over"

\* mutant: the fence is the operation alone, whoever holds its lease
HeldByAnyone(w) == op[worker[w].event].status = "processing"

\* storageFenceWhere and an unexpired lease; lockClaimedForUpdate also wants
\* the operation to be the only active one.
Held(w) == LET row == op[worker[w].event] IN
    /\ row.status = "processing" /\ row.lease # "none"
    /\ row.attempts = worker[w].generation
    /\ \A e \in Event : Active(e) => e = worker[w].event

At(w, s) == worker[w].step = s /\ Held(w)
Go(w, s) == worker' = [worker EXCEPT ![w].step = s]
Leave(w) == worker' = [worker EXCEPT ![w] = Idle]
Becomes(s) == obj' = [obj EXCEPT !.state = s]

\* A worker's last transaction: the operation has succeeded.
Succeed(w) == op' = End(worker[w].event, "succeeded") /\ Leave(w)

-----------------------------------------------------------------------------
(* Intents                                                                 *)

Init ==
    /\ \/ /\ obj = [source |-> "upload", state |-> "none", bound |-> FALSE,
                   deleteRequested |-> FALSE, moved |-> FALSE]
          /\ attachment = FALSE /\ phase = "open"
          /\ op = [e \in Event |-> NoRow]
          /\ bytes = "none"
       \/ /\ \E s \in Candidate \cup {"none"} :
                obj = [source |-> "backfill", state |-> s, bound |-> s # "none",
                       deleteRequested |-> FALSE, moved |-> FALSE]
          /\ attachment = TRUE /\ phase = "over"
          /\ op = [e \in Event |-> IF e = "backfill" /\ obj.bound THEN Pending ELSE NoRow]
          /\ bytes \in {"none", "good", "bad"}
    /\ lost = (obj.source = "backfill" /\ bytes = "none")
    /\ evidence = FALSE
    /\ worker = [w \in Worker |-> Idle]
    /\ client = [c \in Client |-> "idle"]

\* prepareUploadInTransaction: the intent commits before the URL is signed.
PrepareUpload ==
    /\ obj.source = "upload" /\ obj.state = "none"
    /\ Becomes("pending_upload")
    /\ New("verify", Pending)
    /\ UNCHANGED <<attachment, evidence, worker, client, world>>

\* ensureRuntimeBackfill: an old Attachment gets its ledger row.
EnsureBackfill ==
    /\ obj.source = "backfill" /\ obj.state = "none"
    /\ obj' = [obj EXCEPT !.state = "provider_unknown", !.bound = TRUE]
    /\ New("backfill", Pending)
    /\ UNCHANGED <<attachment, evidence, worker, client, world>>

\* The client, or the application for it, puts bytes under the signed URL.
PutBytes ==
    /\ obj.source = "upload" /\ obj.state # "none" /\ phase = "open" /\ ~obj.moved
    /\ bytes' \in {"good", "bad"}
    /\ UNCHANGED <<rows, worker, client, lost, phase>>

\* Bytes disappear from the provider without the application.
LoseBytes ==
    /\ bytes # "none"
    /\ bytes' = "none" /\ lost' = TRUE
    /\ UNCHANGED <<rows, worker, client, phase>>

\* The URL expires, then unboundExpiresAt passes.
PassDeadline ==
    /\ obj.state # "none" /\ phase # "over"
    /\ phase' = IF phase = "open" THEN "grace" ELSE "over"
    /\ op' = IF phase = "open" THEN op
             ELSE [e \in Event |-> IF op[e].lease = "open" THEN [op[e] EXCEPT !.lease = "none"]
                                   ELSE op[e]]
    /\ UNCHANGED <<obj, attachment, evidence, worker, client, bytes, lost>>

ExpireLease(e) ==
    /\ op[e].lease # "none"
    /\ op' = [op EXCEPT ![e].lease = "none"]
    /\ UNCHANGED <<obj, attachment, evidence, worker, client, world>>

-----------------------------------------------------------------------------
(* Requests                                                                *)

Answered(c, a) ==
    /\ client[c] = "idle"
    /\ client' = [client EXCEPT ![c] = a]
    /\ UNCHANGED <<rows, worker, world>>

Reply(c) == client' = [client EXCEPT ![c] = "idle"]

\* verifyUploadEvidence: the bytes are there, or the provider does not answer.
VerifyEvidence(c) ==
    /\ obj.source = "upload" /\ ~obj.bound
    /\ obj.state \in Unbound \cup {"delete_pending"}
    /\ \/ bytes = "good" /\ Answered(c, "evidence")
       \/ Answered(c, "unsure")

\* Terminal and deleting states, and available, keep their state.
NotesUnknown == obj.state \in Unbound \cup Candidate /\ Active("verify")

NoteProviderUnknown(c) ==
    /\ client[c] = "unsure"
    /\ obj' = IF NotesUnknown THEN [obj EXCEPT !.state = "provider_unknown"] ELSE obj
    /\ Reply(c)
    /\ UNCHANGED <<attachment, evidence, op, worker, world>>

\* mutant: finalizeUpload looks at the verification job, not at the object
BindableByJob == op["verify"].status # "dead"

Bindable == /\ ~Active("orphan")
            /\ op["verify"].status # "dead"
            /\ obj.state \in Unbound /\ ~obj.bound

\* finalizeUploadInTransaction: Attachment, object and operation at once.
FinalizeUpload(c) ==
    /\ client[c] = "evidence"
    /\ IF Bindable
       THEN /\ attachment' = TRUE
            /\ obj' = [obj EXCEPT !.state = "available", !.bound = TRUE]
            /\ op' = End("verify", "succeeded")
       ELSE UNCHANGED <<attachment, obj, op>>
    /\ Reply(c)
    /\ UNCHANGED <<evidence, worker, world>>

\* resolveDownloadUrl up to the answer of the provider.
Download(c) ==
    /\ attachment /\ obj.state \in {"available"} \cup Candidate
    /\ \/ bytes = "none" /\ obj.state = "available" /\ Answered(c, "missing")
       \/ bytes = "bad"  /\ obj.state = "available" /\ Answered(c, "mismatch")
       \/ bytes = "none" /\ obj.state \in Candidate /\ Answered(c, "unverified")
       \/ bytes = "good" /\ obj.state \in Candidate /\ Answered(c, "verified")

\* markMissing and markIntegrityMismatch: only an available object.
MarkUnreadable(c) ==
    /\ client[c] \in {"missing", "mismatch"}
    /\ obj' = IF obj.state # "available" THEN obj
              ELSE [obj EXCEPT !.state = IF client[c] = "missing" THEN "missing"
                                         ELSE "integrity_mismatch"]
    /\ Reply(c)
    /\ UNCHANGED <<attachment, evidence, op, worker, world>>

\* noteBackfillCandidateAbsent: the candidate locator is discarded.
NoteCandidateAbsent(c) ==
    /\ client[c] = "unverified"
    /\ obj' = IF obj.source = "backfill" /\ obj.state \in Candidate
              THEN [obj EXCEPT !.state = "provider_unknown"] ELSE obj
    /\ Reply(c)
    /\ UNCHANGED <<attachment, evidence, op, worker, world>>

\* promoteBackfillAvailable: a download takes the job's place.
PromoteBackfill(c) ==
    /\ client[c] = "verified"
    /\ IF /\ obj.bound /\ ~obj.deleteRequested
          /\ obj.state \in Candidate \cup {"available"}
          /\ \A e \in Event : Active(e) => e = "backfill"
       THEN /\ Becomes("available")
            /\ op' = IF Active("backfill") THEN End("backfill", "succeeded") ELSE op
       ELSE UNCHANGED <<obj, op>>
    /\ Reply(c)
    /\ UNCHANGED <<attachment, evidence, worker, world>>

\* A business transaction writes immutable evidence that names the Attachment,
\* which lockOwnerReferenceBoundary holds FOR SHARE.
AddEvidence ==
    /\ attachment /\ obj.state = "available" /\ ~obj.deleteRequested
    /\ evidence' = TRUE
    /\ UNCHANGED <<obj, attachment, op, worker, client, world>>

\* mutant: the reference is left to the foreign key
DeletableUnchecked == attachment /\ obj.bound /\ obj.state # "provider_unknown"

\* A bound object in provider_unknown has no pinned locator.
Deletable == /\ attachment /\ ~evidence
             /\ obj.bound /\ obj.state # "provider_unknown"

\* prepareDeleteInTransaction; an active deletion is joined.
PrepareDelete(a) ==
    /\ Deletable /\ NoneActive
    /\ obj' = [obj EXCEPT !.state = "delete_pending", !.deleteRequested = TRUE]
    /\ New(a, Pending)
    /\ UNCHANGED <<attachment, evidence, worker, client, world>>

\* mutant: the state changes and deleteRequestedAt is forgotten
CancelWithoutRequest ==
    /\ obj.source = "upload" /\ obj.state \in Unbound
    /\ ~obj.bound /\ ~obj.deleteRequested /\ Active("verify")
    /\ op["orphan"].status = "none"
    /\ Becomes("delete_pending")
    /\ op' = [End("verify", "dead") EXCEPT !["orphan"] = Pending]
    /\ UNCHANGED <<attachment, evidence, worker, client, world>>

\* lockContentPublishBoundary: publishing a content cancels its open uploads.
CancelByPublish ==
    /\ obj.source = "upload" /\ obj.state \in Unbound
    /\ ~obj.bound /\ ~obj.deleteRequested /\ Active("verify")
    /\ op["orphan"].status = "none"
    /\ obj' = [obj EXCEPT !.state = "delete_pending", !.deleteRequested = TRUE]
    /\ op' = [End("verify", "dead") EXCEPT !["orphan"] = Pending]
    /\ UNCHANGED <<attachment, evidence, worker, client, world>>

\* prepareManualRelocate, prepareManualAttestAbsent.
PrepareRelocation(t) ==
    /\ NoneActive /\ obj.state \in Relocatable /\ ~obj.deleteRequested
    /\ \E e \in {"verify", "backfill"} \cup Relocation : e \in Ended
    /\ New(t, Pending)
    /\ UNCHANGED <<obj, attachment, evidence, worker, client, world>>

PrepareAttestation(t) ==
    /\ NoneActive /\ obj.state \in Deleting
    /\ \E a \in Actor : op[a].status = "dead" /\ New(t, [Pending EXCEPT !.replayOf = a])
    /\ UNCHANGED <<obj, attachment, evidence, worker, client, world>>

-----------------------------------------------------------------------------
(* Operations in progress                                                  *)

\* mutant: the attempts are not bounded where an operation is claimed
ClaimUnbounded(w, e) ==
    /\ worker[w] = Idle
    /\ \/ op[e].status = "pending" /\ Due(e)
       \/ op[e].status = "processing" /\ op[e].lease = "none"
    /\ op' = [op EXCEPT ![e] = [@ EXCEPT !.status = "processing", !.lease = phase,
                                         !.attempts = op[e].attempts + 1]]
    /\ worker' = [worker EXCEPT ![w] = [step |-> "claimed", event |-> e,
                                        generation |-> op[e].attempts + 1]]
    /\ UNCHANGED <<obj, attachment, evidence, client, world>>

Claim(w, e) ==
    /\ worker[w] = Idle
    /\ \/ op[e].status = "pending" /\ Due(e)
       \/ op[e].status = "processing" /\ op[e].lease = "none"
    /\ op[e].attempts < MaxAttempts
    /\ op' = [op EXCEPT ![e] = [@ EXCEPT !.status = "processing", !.lease = phase,
                                         !.attempts = op[e].attempts + 1]]
    /\ worker' = [worker EXCEPT ![w] = [step |-> "claimed", event |-> e,
                                        generation |-> op[e].attempts + 1]]
    /\ UNCHANGED <<obj, attachment, evidence, client, world>>

\* mutant: a deletion that gives up leaves its object in delete_pending
DiesQuietly(e) == op' = End(e, "dead") /\ UNCHANGED obj

\* An operation that gives up: exhausted in claim, or nack in its last attempt.
Dies(e) ==
    /\ op' = End(e, "dead")
    /\ obj' = IF e \in Deletion /\ obj.state = "delete_pending"
              THEN [obj EXCEPT !.state = "delete_failed"] ELSE obj

\* mutant: only an operation given back is swept, not one whose worker died
ExhaustPending(e) ==
    /\ op[e].status = "pending"
    /\ op[e].attempts >= MaxAttempts
    /\ Dies(e)
    /\ UNCHANGED <<attachment, evidence, worker, client, world>>

\* The first part of claim: crashed in their last attempt.  Its object has no
\* other active operation, so the rest of that claim is about other objects.
Exhaust(e) ==
    /\ op[e].status = "processing" /\ op[e].lease = "none"
    /\ op[e].attempts >= MaxAttempts
    /\ Dies(e)
    /\ UNCHANGED <<attachment, evidence, worker, client, world>>

\* What each kind wants of the refreshed object before it asks the provider.
Gate(e) ==
    CASE e = "backfill"       -> obj.bound /\ attachment
      [] e = "orphan"         -> /\ obj.source = "upload" /\ ~obj.bound
                                 /\ obj.state = "delete_pending" /\ phase = "over"
      [] e \in Relocation     -> obj.state \in Relocatable /\ ~obj.deleteRequested
      [] e \in Attestation    -> obj.state \in Deleting
      [] OTHER                -> TRUE

\* refreshClaimed, the gate and renewLease.  An attestation asks no provider.
Begin(w) ==
    LET e == worker[w].event IN
    /\ At(w, "claimed")
    /\ Go(w, IF ~Gate(e) THEN "failed" ELSE IF e \in Attestation THEN "absent" ELSE "head")
    /\ op' = IF Gate(e) /\ e \notin Attestation THEN [op EXCEPT ![e].lease = phase] ELSE op
    /\ UNCHANGED <<obj, attachment, evidence, client, world>>

\* A relocation reads the copy at its target, not what the ledger points to.
Outcome(e) ==
    CASE e \in Deletion   -> IF bytes = "none" THEN {"absent"} ELSE {"delete"}
      [] e \in Relocation -> {"present"}
      [] OTHER            -> IF bytes = "good" THEN {"present"}
                             ELSE IF bytes = "none" THEN {"absent"} ELSE {}

\* HEAD, with the content check; it may fail.
Head(w) ==
    /\ worker[w].step = "head"
    /\ \E s \in Outcome(worker[w].event) \cup {"failed"} : Go(w, s)
    /\ UNCHANGED <<rows, client, world>>

\* markEffectState: the last check of the lease before the provider is told.
StartEffect(w) ==
    /\ At(w, "delete")
    /\ Go(w, "deleting")
    /\ UNCHANGED <<rows, client, world>>

\* deleteObjectAt: done, or failed, or done with its answer lost.
DeleteBytes(w) ==
    /\ worker[w].step = "deleting"
    /\ bytes' \in {"none", bytes}
    /\ Go(w, "deleted")
    /\ UNCHANGED <<rows, client, lost, phase>>

\* renewLease and a second HEAD decide, whatever the deletion answered.
Recheck(w) ==
    /\ At(w, "deleted")
    /\ op' = [op EXCEPT ![worker[w].event].lease = phase]
    /\ Go(w, IF bytes = "none" THEN "absent" ELSE "failed")
    /\ UNCHANGED <<obj, attachment, evidence, client, world>>

\* What the final transaction of a kind finds under its locks.
Accepts(w) ==
    LET e == worker[w].event
        present == worker[w].step = "present"
    IN CASE e = "verify"        -> /\ obj.state \in Unbound /\ ~obj.bound
                                   /\ present \/ phase = "over"
         [] e = "backfill"      -> /\ obj.bound /\ ~obj.deleteRequested
                                   /\ obj.state \in Candidate
         [] e = "orphan"        -> ~obj.bound /\ obj.state = "delete_pending" /\ phase = "over"
         [] e \in Relocation    -> /\ obj.bound /\ ~obj.deleteRequested
                                   /\ obj.state \in Relocatable
         [] e \in Actor         -> obj.bound /\ obj.state \in Deleting /\ attachment /\ ~evidence
         [] OTHER               -> /\ obj.bound /\ obj.state \in Deleting /\ attachment /\ ~evidence
                                   /\ op[op[e].replayOf].status = "dead"

\* recordPresentUnboundClaimed.
RecordPresent(w) ==
    /\ At(w, "present") /\ worker[w].event = "verify" /\ Accepts(w)
    /\ Becomes("present_unbound")
    /\ Go(w, "recorded")
    /\ UNCHANGED <<attachment, evidence, op, client, world>>

\* StorageAwaitingConfirmError, while the deadline is ahead.
AwaitConfirm(w) ==
    /\ At(w, "recorded") /\ phase # "over"
    /\ Go(w, "failed")
    /\ UNCHANGED <<rows, client, world>>

\* transitionUploadVerifyToOrphan.
ToOrphan(w) ==
    /\ At(w, "recorded") /\ phase = "over"
    /\ IF obj.state = "present_unbound" /\ ~obj.bound /\ op["orphan"].status = "none"
       THEN /\ obj' = [obj EXCEPT !.state = "delete_pending", !.deleteRequested = TRUE]
            /\ op' = [End("verify", "succeeded") EXCEPT !["orphan"] = Pending]
            /\ Leave(w)
       ELSE Go(w, "failed") /\ UNCHANGED <<obj, op>>
    /\ UNCHANGED <<attachment, evidence, client, world>>

\* finalizeUnboundAbsent and finalizeOrphanAbsent.
FinalizeAbsent(w) ==
    /\ At(w, "absent") /\ worker[w].event \in {"verify", "orphan"} /\ Accepts(w)
    /\ Becomes("absent")
    /\ Succeed(w)
    /\ UNCHANGED <<attachment, evidence, client, world>>

\* noteBackfillCandidateAbsentClaimed; the attempt then fails.
NoteBackfillAbsent(w) ==
    /\ At(w, "absent") /\ worker[w].event = "backfill" /\ Accepts(w)
    /\ Becomes("provider_unknown")
    /\ Go(w, "failed")
    /\ UNCHANGED <<attachment, evidence, op, client, world>>

FinalizeBackfill(w) ==
    /\ At(w, "present") /\ worker[w].event = "backfill" /\ Accepts(w)
    /\ Becomes("available")
    /\ Succeed(w)
    /\ UNCHANGED <<attachment, evidence, client, world>>

\* The ledger points to the verified copy from now on.
FinalizeRelocation(w) ==
    /\ At(w, "present") /\ worker[w].event \in Relocation /\ Accepts(w)
    /\ obj' = [obj EXCEPT !.state = "available", !.moved = TRUE]
    /\ bytes' = "good" /\ lost' = FALSE
    /\ Succeed(w)
    /\ UNCHANGED <<attachment, evidence, client, phase>>

FinalizeDelete(w) ==
    /\ At(w, "absent") /\ worker[w].event \in Actor /\ Accepts(w)
    /\ attachment' = FALSE
    /\ Becomes("absent")
    /\ Succeed(w)
    /\ UNCHANGED <<evidence, client, world>>

\* Two people attest that the bytes are gone: no provider is asked.
FinalizeAttestation(w) ==
    LET e == worker[w].event IN
    /\ At(w, "absent") /\ e \in Attestation /\ Accepts(w)
    /\ attachment' = FALSE
    /\ Becomes("absent")
    /\ op' = [End(e, "succeeded") EXCEPT ![op[e].replayOf].status = "succeeded"]
    /\ Leave(w)
    /\ UNCHANGED <<evidence, client, world>>

\* The final transaction finds something else: an invariant error, or the
\* deadline is still ahead of an upload without bytes.
Reject(w) ==
    /\ At(w, "present") \/ At(w, "absent")
    /\ ~Accepts(w)
    /\ Go(w, "failed")
    /\ UNCHANGED <<rows, client, world>>

Nack(w) ==
    LET e == worker[w].event IN
    /\ At(w, "failed")
    /\ IF op[e].attempts >= MaxAttempts THEN Dies(e)
       ELSE op' = End(e, "pending") /\ UNCHANGED obj
    /\ Leave(w)
    /\ UNCHANGED <<attachment, evidence, client, world>>

\* StorageConsistencyLeaseLostError ends the call.
LeaseLost(w) ==
    /\ worker[w].step \notin {"idle", "deleting"} /\ ~Held(w)
    /\ Leave(w)
    /\ UNCHANGED <<rows, client, world>>

\* The process dies between two steps; without its lease that is LeaseLost.
Crash(w) ==
    /\ Held(w) \/ worker[w].step = "deleting"
    /\ Leave(w)
    /\ UNCHANGED <<rows, client, world>>

Work(w) ==
    \/ Begin(w) \/ Head(w) \/ StartEffect(w) \/ DeleteBytes(w) \/ Recheck(w)
    \/ RecordPresent(w) \/ AwaitConfirm(w) \/ ToOrphan(w) \/ FinalizeAbsent(w)
    \/ NoteBackfillAbsent(w) \/ FinalizeBackfill(w) \/ FinalizeRelocation(w)
    \/ FinalizeDelete(w) \/ FinalizeAttestation(w) \/ Reject(w) \/ Nack(w) \/ LeaseLost(w)

Next ==
    \/ PrepareUpload \/ EnsureBackfill \/ PutBytes \/ LoseBytes \/ PassDeadline
    \/ AddEvidence \/ CancelByPublish
    \/ \E a \in Actor : PrepareDelete(a)
    \/ \E t \in Relocation : PrepareRelocation(t)
    \/ \E t \in Attestation : PrepareAttestation(t)
    \/ \E c \in Client : \/ VerifyEvidence(c) \/ NoteProviderUnknown(c) \/ FinalizeUpload(c)
                         \/ Download(c) \/ MarkUnreadable(c) \/ NoteCandidateAbsent(c)
                         \/ PromoteBackfill(c)
    \/ \E e \in Event : ExpireLease(e) \/ Exhaust(e) \/ \E w \in Worker : Claim(w, e)
    \/ \E w \in Worker : Work(w) \/ Crash(w)

\* What goes on by itself: time, leases, the claiming loop, calls in progress.
Progress ==
    \/ PassDeadline
    \/ \E e \in Event : ExpireLease(e) \/ Exhaust(e) \/ \E w \in Worker : Claim(w, e)
    \/ \E w \in Worker : Work(w)

Fairness == WF_vars(Progress)

Spec == Init /\ [][Next]_vars
FairSpec == Spec /\ Fairness

-----------------------------------------------------------------------------
(* Properties                                                              *)

\* Every variable keeps its type: however claims, crashes and expiries follow
\* each other, no operation is tried more than MaxAttempts times.
TypeOK ==
    /\ obj \in Object
    /\ attachment \in BOOLEAN /\ evidence \in BOOLEAN /\ lost \in BOOLEAN
    /\ op \in [Event -> Row]
    /\ worker \in [Worker -> Call]
    /\ client \in [Client -> Answer]
    /\ bytes \in {"none", "good", "bad"}
    /\ phase \in Phase

\* No sequence of commands, jobs and crashes runs into the partial unique index
\* on active operations: nobody ever creates a second one.
OneActive == \A e, f \in Event : Active(e) /\ Active(f) => e = f

\* An object in delete_pending is somebody's work: a deletion that gives up
\* moves it to delete_failed, where an operator can see it.
DeletionHasOwner ==
    obj.state = "delete_pending" => \E e \in Deletion : Active(e)

\* A readable object has its Attachment and its bytes, however old the HEAD was
\* on which it was bound, promoted or relocated.
AvailableIsStored ==
    obj.state = "available" => /\ obj.bound /\ attachment
                               /\ bytes # "none" \/ lost

\* What immutable evidence refers to is neither deleted nor marked for it.
EvidenceIsKept ==
    evidence => /\ attachment /\ ~obj.deleteRequested
                /\ obj.state \notin Deleting \cup {"absent"}

\* An upload that was given up leaves nothing behind: no bytes arrive after the
\* HEAD that found none.
ReclaimedIsGone == obj.state = "absent" /\ ~obj.bound => bytes = "none"

\* The ledger implements the life of one file: nothing removes bytes before
\* the decision to delete, and that decision is final.
Stage == IF obj.state = "absent" THEN "gone"
         ELSE IF obj.deleteRequested THEN "doomed"
         ELSE IF obj.bound \/ obj.source = "backfill" THEN "kept" ELSE "meant"

Lifecycle == INSTANCE ObjectLifecycle WITH stage <- Stage
ImplementsLifecycle == Lifecycle!Spec

\* A deletion ends, absent or visibly failed, whatever crashes, fails or is
\* answered late: attempts are bounded, and a claim outlives no lease.
DeletionEnds == []<>(obj.state # "delete_pending")
=============================================================================
