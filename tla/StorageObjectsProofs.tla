------------------------ MODULE StorageObjectsProofs ------------------------
(***************************************************************************)
(* Proofs about StorageObjects, for any workers, requests, users, manual   *)
(* commands and number of attempts.  The invariant says three things the   *)
(* properties leave out: which operation may be active in which state of   *)
(* the object (RowsFit); what a call in progress still knows, although     *)
(* only its lease and no lock protects it (Fenced); and that an answer     *)
(* of the provider, once given, stays true as long as it matters           *)
(* (AnswersHold): nobody removes bytes before deleteRequested, and nobody  *)
(* puts any after the signed URL has expired.                              *)
(*                                                                         *)
(* The last part is what DeletionEnds needs of every state and every step: *)
(* the background work can always go on, and it uses itself up.            *)
(***************************************************************************)
EXTENDS StorageObjects, FiniteSetTheorems, WellFoundedInduction, TLAPS

\* Which states go together, and with which active operation.
RowsFit ==
    /\ obj.state \in Deleting => obj.deleteRequested
    /\ obj.deleteRequested => obj.state \in Deleting \cup {"absent"}
    /\ obj.state \in {"none", "pending_upload", "present_unbound"} => ~obj.bound
    /\ obj.state \in {"available", "missing", "integrity_mismatch", "legacy_unverified"} => obj.bound
    /\ obj.source = "backfill" => phase = "over" /\ (obj.state # "none" => obj.bound)
    /\ obj.bound \/ obj.source = "backfill" => (attachment <=> obj.state # "absent")
    /\ evidence => attachment /\ obj.bound /\ ~obj.deleteRequested
    /\ obj.state = "none" => \A e \in Event : op[e].status = "none"
    /\ Active("verify") => obj.source = "upload" /\ ~obj.bound /\ obj.state \in Unbound
    /\ \A e \in Deletion : op[e].status # "none" => obj.deleteRequested

Busy(w) == worker[w].step # "idle"

\* A generation belongs to one call, which knows what it is doing.
Fenced ==
    /\ \A w \in Worker : Busy(w) =>
          /\ op[worker[w].event].status # "none"
          /\ worker[w].generation <= op[worker[w].event].attempts
          /\ worker[w].step \in {"delete", "deleting", "deleted"} => worker[w].event \in Deletion
          /\ worker[w].step = "recorded" => worker[w].event = "verify"
    /\ \A w \in Worker : ~Busy(w) => worker[w] = Idle
    /\ \A v, w \in Worker :
          v # w /\ Busy(v) /\ Busy(w) /\ worker[v].event = worker[w].event
             => worker[v].generation # worker[w].generation

\* A lease tells in which phase it was granted.
Leased ==
    /\ \A e \in Event : op[e].status = "processing" => op[e].attempts > 0
    /\ phase = "over" => \A e \in Event : op[e].lease # "open"
    /\ phase = "open" => \A e \in Event : op[e].lease \in {"open", "none"}

\* The bytes are there, or their absence has another explanation.
Kept == bytes # "none" \/ lost \/ obj.deleteRequested

\* A call for an unbound upload whose lease was granted after the URL expired.
Granted(w) == /\ worker[w].event \in {"verify", "orphan"} /\ Held(w)
              /\ op[worker[w].event].lease # "open"

AnswersHold ==
    /\ obj.state = "available" => Kept
    /\ \A c \in Client : client[c] \in {"evidence", "verified"} => Kept
    /\ \A w \in Worker : worker[w].step \in {"present", "recorded"} => worker[w].event \in Relocation \/ Kept
    /\ \A w \in Worker : Granted(w) /\ worker[w].step = "absent" => bytes = "none"
    /\ obj.state = "absent" /\ ~obj.bound => bytes = "none" /\ phase = "over"

IndInv == TypeOK /\ OneActive /\ DeletionHasOwner /\ RowsFit /\ Fenced /\ Leased /\ AnswersHold

-----------------------------------------------------------------------------

\* What a new row is, and what End does to the rows.
LEMMA PendingShape ==
  /\ Pending = [status |-> "pending", attempts |-> 0, lease |-> "none", replayOf |-> None]
  /\ Pending \in Row
  BY AttemptsAssumption DEF Pending, NoRow, Row

LEMMA EndShape ==
  ASSUME TypeOK, NEW e \in Event, NEW s \in {"pending", "succeeded", "dead"}
  PROVE  /\ End(e, s) \in [Event -> Row]
         /\ \A f \in Event : /\ End(e, s)[f].status = IF f = e THEN s ELSE op[f].status
                             /\ End(e, s)[f].attempts = op[f].attempts
                             /\ End(e, s)[f].lease = IF f = e THEN "none" ELSE op[f].lease
                             /\ End(e, s)[f].replayOf = op[f].replayOf
<1>1. op[e] \in Row
  BY DEF TypeOK
<1>2. [op[e] EXCEPT !.status = s, !.lease = "none"] \in Row
  BY <1>1 DEF Row
<1>3. End(e, s) \in [Event -> Row]
  BY <1>2 DEF TypeOK, End
<1>4. /\ End(e, s)[e] = [op[e] EXCEPT !.status = s, !.lease = "none"]
      /\ \A f \in Event \ {e} : End(e, s)[f] = op[f]
  BY DEF TypeOK, End
<1>5. /\ End(e, s)[e].status = s /\ End(e, s)[e].attempts = op[e].attempts
      /\ End(e, s)[e].lease = "none" /\ End(e, s)[e].replayOf = op[e].replayOf
  BY <1>1, <1>4 DEF Row
<1> QED
  BY <1>3, <1>4, <1>5

\* A call that ends leaves the others their fences.
LEMMA LeaveFenced ==
  ASSUME TypeOK, Fenced, NEW w \in Worker,
         \A v \in Worker : worker'[v] = IF v = w THEN Idle ELSE worker[v],
         \A f \in Event : /\ op'[f].attempts = op[f].attempts
                          /\ op[f].status # "none" => op'[f].status # "none"
  PROVE  Fenced'
<1>1. \A v \in Worker : Busy(v)' => v # w /\ Busy(v) /\ worker'[v] = worker[v]
  BY DEF Busy, Idle
<1>2. \A v \in Worker : worker[v].event \in Event
  BY DEF TypeOK, Call
<1>3. ~Busy(w)' /\ worker'[w] = Idle
  BY DEF Busy, Idle
<1> QED
  BY <1>1, <1>2, <1>3 DEF Fenced, Busy

\* Where the rows stay as they are, so does what only speaks of them.
LEMMA SameRows ==
  ASSUME IndInv, UNCHANGED <<obj, attachment, evidence, op, phase>>
  PROVE  OneActive' /\ DeletionHasOwner' /\ RowsFit' /\ Leased'
  BY DEF IndInv, OneActive, DeletionHasOwner, RowsFit, Leased, Active

LEMMA SameCalls ==
  ASSUME IndInv, UNCHANGED <<op, worker, phase>>
  PROVE  Fenced' /\ Leased'
  BY DEF IndInv, Fenced, Leased, Busy

-----------------------------------------------------------------------------
(* Every step keeps the invariant                                          *)

LEMMA PrepareUploadStep ==
  ASSUME IndInv, PrepareUpload
  PROVE  IndInv'
<1> USE EventAssumption, AttemptsAssumption DEF IndInv
<1>1. TypeOK'
  BY DEF TypeOK, Object, Row, Call, State, Unbound, Candidate, Relocatable, Deleting, Phase,
     Step, Answer, Event, PrepareUpload, New, NoRow, Pending, Becomes, world
<1>2. OneActive'
  BY DEF OneActive, RowsFit, TypeOK, PrepareUpload, Active, New, NoRow, Pending, world
<1>3. DeletionHasOwner'
  BY DEF DeletionHasOwner, TypeOK, PrepareUpload, New, NoRow, Pending, Becomes, world
<1>4. RowsFit'
  BY DEF RowsFit, Deletion, Event, TypeOK, Row, Unbound, Candidate, Deleting, PrepareUpload,
     New, NoRow, Pending, Becomes, world
<1>5. Fenced' /\ Leased'
  BY DEF Fenced, Leased, Busy, TypeOK, PrepareUpload, New, NoRow, Pending, world
<1>6. AnswersHold'
  BY DEF AnswersHold, Busy, Kept, Granted, Held, TypeOK, PrepareUpload, Active, New, NoRow,
     Pending, Becomes, world
<1> QED
  BY <1>1, <1>2, <1>3, <1>4, <1>5, <1>6

LEMMA EnsureBackfillStep ==
  ASSUME IndInv, EnsureBackfill
  PROVE  IndInv'
<1> USE EventAssumption, AttemptsAssumption DEF IndInv
<1>12. op' = [op EXCEPT !["backfill"] = Pending]
  BY DEF New, EnsureBackfill, world
<1>1. TypeOK'
  <2>1. obj' \in Object
    BY DEF TypeOK, Object, State, Unbound, Candidate, Relocatable, Deleting, EnsureBackfill,
       world
  <2>2. op' \in [Event -> Row]
    BY <1>12, PendingShape DEF TypeOK
  <2>3. worker' \in [Worker -> Call] /\ client' \in [Client -> Answer]
    BY DEF TypeOK, EnsureBackfill, world
  <2> QED
    BY <2>1, <2>2, <2>3 DEF TypeOK, EnsureBackfill, world
<1>2. obj'.source = obj.source /\ obj'.state = "provider_unknown"
      /\ obj'.bound = TRUE /\ obj'.deleteRequested = obj.deleteRequested
  BY DEF TypeOK, EnsureBackfill, world
<1>3. \A f \in Event : /\ op'[f].status = IF f = "backfill" THEN "pending" ELSE op[f].status
                       /\ op'[f].attempts = IF f = "backfill" THEN 0 ELSE op[f].attempts
                       /\ op'[f].lease = IF f = "backfill" THEN "none" ELSE op[f].lease
  BY <1>12, PendingShape DEF TypeOK
<1>5. UNCHANGED <<attachment, evidence, worker, client, bytes, lost, phase>>
  BY DEF EnsureBackfill, world
<1>6. OneActive'
  BY DEF OneActive, RowsFit, Active, TypeOK, EnsureBackfill, world, New, NoRow, Pending
<1>7. DeletionHasOwner'
  BY DEF DeletionHasOwner, TypeOK, EnsureBackfill, world, New, NoRow, Pending
<1>8. RowsFit'
  BY <1>1, <1>2, <1>3, <1>5 DEF RowsFit, Active, Deletion, Event, TypeOK, Row, Unbound,
     Candidate, Deleting, EnsureBackfill, world
<1>9. Fenced'
  BY DEF Fenced, Busy, TypeOK, EnsureBackfill, world, New, NoRow, Pending
<1>10. Leased'
  BY DEF Leased, TypeOK, EnsureBackfill, world, New, NoRow, Pending
<1>15. AnswersHold'
  BY <1>1, <1>2, <1>3, <1>5 DEF AnswersHold, Busy, Kept, Granted, Held, Active, Deletion,
     Event, Idle, TypeOK, Row, EnsureBackfill, world
<1> QED
  BY <1>1, <1>6, <1>7, <1>8, <1>9, <1>10, <1>15

LEMMA PutBytesStep ==
  ASSUME IndInv, PutBytes
  PROVE  IndInv'
<1> USE EventAssumption, AttemptsAssumption DEF IndInv
<1>1. TypeOK'
  BY DEF TypeOK, PutBytes, rows
<1>2. OneActive' /\ DeletionHasOwner' /\ RowsFit' /\ Leased'
  BY SameRows DEF PutBytes, rows
<1>5. Fenced'
  BY SameCalls DEF PutBytes, rows
<1>6. AnswersHold'
  BY DEF AnswersHold, Fenced, Leased, Busy, RowsFit, Kept, Granted, Held, Deletion, Event,
     TypeOK, Row, PutBytes, Active, Idle, rows
<1> QED
  BY <1>1, <1>2, <1>5, <1>6

LEMMA LoseBytesStep ==
  ASSUME IndInv, LoseBytes
  PROVE  IndInv'
<1> USE EventAssumption, AttemptsAssumption DEF IndInv
<1>1. TypeOK'
  BY DEF TypeOK, LoseBytes, rows
<1>2. OneActive' /\ DeletionHasOwner' /\ RowsFit' /\ Leased'
  BY SameRows DEF LoseBytes, rows
<1>5. Fenced'
  BY SameCalls DEF LoseBytes, rows
<1>6. AnswersHold'
  BY DEF AnswersHold, Busy, Kept, Granted, Held, TypeOK, LoseBytes, Active, rows
<1> QED
  BY <1>1, <1>2, <1>5, <1>6

LEMMA PassDeadlineStep ==
  ASSUME IndInv, PassDeadline
  PROVE  IndInv'
<1> USE EventAssumption, AttemptsAssumption DEF IndInv
<1>1. TypeOK'
  BY DEF TypeOK, Row, State, Relocatable, Phase, Step, Answer, Event, PassDeadline
<1>2. OneActive'
  BY DEF OneActive, TypeOK, PassDeadline, Active
<1>3. DeletionHasOwner'
  BY DEF DeletionHasOwner, Deletion, Event, TypeOK, Row, PassDeadline, Active
<1>4. RowsFit'
  BY DEF RowsFit, Deletion, Event, TypeOK, Row, PassDeadline, Active
<1>5. Fenced' /\ Leased'
  BY DEF Fenced, Leased, Busy, TypeOK, Object, Call, PassDeadline
<1>6. AnswersHold'
  BY DEF AnswersHold, Busy, OneActive, Kept, Granted, Held, Deletion, Event, TypeOK, Row,
     PassDeadline, Active, Idle
<1> QED
  BY <1>1, <1>2, <1>3, <1>4, <1>5, <1>6

LEMMA ExpireLeaseStep ==
  ASSUME IndInv, NEW e \in Event, ExpireLease(e)
  PROVE  IndInv'
<1> USE EventAssumption, AttemptsAssumption DEF IndInv
<1>1. TypeOK'
  BY DEF TypeOK, Row, Event, ExpireLease, world
<1>2. OneActive'
  BY DEF OneActive, TypeOK, ExpireLease, Active, world
<1>3. DeletionHasOwner'
  BY DEF DeletionHasOwner, TypeOK, ExpireLease, Active, world
<1>4. RowsFit'
  BY DEF RowsFit, TypeOK, ExpireLease, Active, world
<1>5. Fenced' /\ Leased'
  BY DEF Fenced, Leased, Busy, TypeOK, ExpireLease, world
<1>6. AnswersHold'
  BY DEF AnswersHold, Busy, Kept, Granted, Held, TypeOK, ExpireLease, Active, world
<1> QED
  BY <1>1, <1>2, <1>3, <1>4, <1>5, <1>6

LEMMA VerifyEvidenceStep ==
  ASSUME IndInv, NEW c \in Client, VerifyEvidence(c)
  PROVE  IndInv'
<1> USE EventAssumption, AttemptsAssumption DEF IndInv
<1>1. TypeOK'
  BY DEF TypeOK, State, Relocatable, Phase, Step, Answer, VerifyEvidence, rows, world, Answered
<1>2. OneActive' /\ DeletionHasOwner' /\ RowsFit' /\ Leased'
  BY SameRows DEF VerifyEvidence, Answered, rows, world
<1>5. Fenced'
  BY SameCalls DEF VerifyEvidence, Answered, rows, world
<1>6. AnswersHold'
  BY DEF AnswersHold, Busy, OneActive, Kept, Granted, Held, TypeOK, VerifyEvidence, Active,
     rows, world, Answered
<1> QED
  BY <1>1, <1>2, <1>5, <1>6

LEMMA NoteProviderUnknownStep ==
  ASSUME IndInv, NEW c \in Client, NoteProviderUnknown(c)
  PROVE  IndInv'
<1> USE EventAssumption, AttemptsAssumption DEF IndInv
<1>1. TypeOK'
  BY DEF TypeOK, Object, Call, State, Unbound, Candidate, Relocatable, Deleting, Phase, Step,
     Answer, NoteProviderUnknown, world, NotesUnknown, Reply
<1>2. OneActive'
  BY DEF OneActive, TypeOK, NoteProviderUnknown, Active, world, NotesUnknown, Reply
<1>3. DeletionHasOwner'
  BY DEF DeletionHasOwner, TypeOK, NoteProviderUnknown, Active, world, NotesUnknown, Reply
<1>4. RowsFit'
  BY DEF RowsFit, TypeOK, Unbound, Candidate, Deleting, NoteProviderUnknown, Active, world,
     NotesUnknown, Reply
<1>5. Fenced' /\ Leased'
  BY SameCalls DEF NoteProviderUnknown, world
<1>6. AnswersHold'
  BY DEF AnswersHold, Busy, Kept, Granted, Held, TypeOK, NoteProviderUnknown, Active, world,
     NotesUnknown, Reply
<1> QED
  BY <1>1, <1>2, <1>3, <1>4, <1>5, <1>6

LEMMA FinalizeUploadStep ==
  ASSUME IndInv, NEW c \in Client, FinalizeUpload(c)
  PROVE  IndInv'
<1> USE EventAssumption, AttemptsAssumption DEF IndInv
<1>1. CASE Bindable
  <2>11. "verify" \in Event
    BY DEF TypeOK, Event
  <2>12. op' = End("verify", "succeeded")
    BY <1>1 DEF TypeOK, FinalizeUpload, Bindable, Reply, world
  <2>13. End("verify", "succeeded") \in [Event -> Row]
    BY <2>11, EndShape
  <2>1. TypeOK'
    <3>1. obj' \in Object
      BY <1>1 DEF TypeOK, Object, State, Relocatable, FinalizeUpload, Bindable, Reply, world
    <3>2. op' \in [Event -> Row]
      BY <2>12, <2>13
    <3>3. worker' \in [Worker -> Call] /\ client' \in [Client -> Answer]
      BY <1>1 DEF TypeOK, Step, Answer, FinalizeUpload, Bindable, Reply, world
    <3> QED
      BY <1>1, <3>1, <3>2, <3>3 DEF TypeOK, FinalizeUpload, Bindable, Reply, world
  <2>2. obj'.source = obj.source /\ obj'.state = "available"
        /\ obj'.bound = TRUE /\ obj'.deleteRequested = obj.deleteRequested
    BY <1>1 DEF TypeOK, Object, FinalizeUpload, Bindable, Reply, world
  <2>3. \A f \in Event : /\ op'[f].status = IF f = "verify" THEN "succeeded" ELSE op[f].status
                         /\ op'[f].attempts = op[f].attempts
                         /\ op'[f].lease = IF f = "verify" THEN "none" ELSE op[f].lease
    BY <2>11, <2>12, <2>13, EndShape
  <2>5. UNCHANGED <<evidence, worker, bytes, lost, phase>>
    BY <1>1 DEF FinalizeUpload, Bindable, Reply, world
  <2>6. OneActive'
    BY <1>1, <2>1, <2>2, <2>3, <2>5 DEF OneActive, Active, TypeOK, FinalizeUpload, Bindable,
       Reply, world
  <2>7. DeletionHasOwner'
    BY <1>1, <2>1, <2>2, <2>3, <2>5 DEF DeletionHasOwner, TypeOK, FinalizeUpload, Bindable,
       Reply, world
  <2>8. RowsFit'
    BY <1>1, <2>1, <2>2, <2>3, <2>5 DEF RowsFit, Active, Deletion, Event, TypeOK, Row, Unbound,
       Candidate, Deleting, FinalizeUpload, Bindable, Reply, world
  <2>9. Fenced'
    BY <1>1, <2>1, <2>2, <2>3, <2>5 DEF Fenced, Busy, Active, TypeOK, Object, Call,
       FinalizeUpload, Bindable, Reply, world
  <2>10. Leased'
    BY <1>1, <2>1, <2>2, <2>3, <2>5 DEF Leased, TypeOK, FinalizeUpload, Bindable, Reply, world
  <2>15. AnswersHold'
    BY <1>1, <2>1, <2>2, <2>3, <2>5 DEF AnswersHold, Busy, Kept, Granted, Held, Active,
       Deletion, Event, Idle, TypeOK, Row, FinalizeUpload, Bindable, Reply, world
  <2> QED
    BY <2>1, <2>6, <2>7, <2>8, <2>9, <2>10, <2>15
<1>2. CASE ~Bindable
  <2>1. TypeOK'
    <3>1. obj' \in Object
      BY <1>2 DEF TypeOK, FinalizeUpload, Bindable, Reply, world
    <3>2. op' \in [Event -> Row]
      BY <1>2 DEF TypeOK, FinalizeUpload, Bindable, Reply, world
    <3>3. worker' \in [Worker -> Call] /\ client' \in [Client -> Answer]
      BY <1>2 DEF TypeOK, Step, Answer, FinalizeUpload, Bindable, Reply, world
    <3> QED
      BY <1>2, <3>1, <3>2, <3>3 DEF TypeOK, FinalizeUpload, Bindable, Reply, world
  <2>5. UNCHANGED <<obj, evidence, op, worker, bytes, lost, phase>>
    BY <1>2 DEF FinalizeUpload, Bindable, Reply, world
  <2>6. OneActive'
    BY <1>2, <2>1, <2>5 DEF OneActive, Active, TypeOK, FinalizeUpload, Bindable, Reply, world
  <2>7. DeletionHasOwner'
    BY <1>2, <2>1, <2>5 DEF DeletionHasOwner, Active, TypeOK, FinalizeUpload, Bindable, Reply,
       world
  <2>8. RowsFit'
    BY <1>2, <2>1, <2>5 DEF RowsFit, Active, TypeOK, FinalizeUpload, Bindable, Reply, world
  <2>9. Fenced'
    BY <1>2, <2>1, <2>5 DEF Fenced, Busy, Active, TypeOK, FinalizeUpload, Bindable, Reply, world
  <2>10. Leased'
    BY <1>2, <2>1, <2>5 DEF Leased, TypeOK, FinalizeUpload, Bindable, Reply, world
  <2>15. AnswersHold'
    BY <1>2, <2>1, <2>5 DEF AnswersHold, Busy, Kept, Granted, Held, Active, TypeOK,
       FinalizeUpload, Bindable, Reply, world
  <2> QED
    BY <2>1, <2>6, <2>7, <2>8, <2>9, <2>10, <2>15
<1> QED
  BY <1>1, <1>2 DEF TypeOK

LEMMA DownloadStep ==
  ASSUME IndInv, NEW c \in Client, Download(c)
  PROVE  IndInv'
<1> USE DEF IndInv
<1>0. UNCHANGED <<obj, attachment, evidence, op, worker, bytes, lost, phase>>
  BY DEF Download, Answered, rows, world
<1>7. /\ \A d \in Client \ {c} : client'[d] = client[d]
      /\ client'[c] \in {"missing", "mismatch", "unverified"} \/ (client'[c] = "verified" /\ bytes = "good")
      /\ client' \in [Client -> Answer]
  <2>1. ASSUME Answered(c, "missing")
        PROVE  /\ \A d \in Client \ {c} : client'[d] = client[d]
               /\ client'[c] = "missing" /\ client' \in [Client -> Answer]
    BY <2>1 DEF Answered, TypeOK, Answer
  <2>2. ASSUME Answered(c, "mismatch")
        PROVE  /\ \A d \in Client \ {c} : client'[d] = client[d]
               /\ client'[c] = "mismatch" /\ client' \in [Client -> Answer]
    BY <2>2 DEF Answered, TypeOK, Answer
  <2>3. ASSUME Answered(c, "unverified")
        PROVE  /\ \A d \in Client \ {c} : client'[d] = client[d]
               /\ client'[c] = "unverified" /\ client' \in [Client -> Answer]
    BY <2>3 DEF Answered, TypeOK, Answer
  <2>4. ASSUME Answered(c, "verified")
        PROVE  /\ \A d \in Client \ {c} : client'[d] = client[d]
               /\ client'[c] = "verified" /\ client' \in [Client -> Answer]
    BY <2>4 DEF Answered, TypeOK, Answer
  <2> QED
    BY <2>1, <2>2, <2>3, <2>4 DEF Download
<1>1. TypeOK'
  BY <1>0, <1>7 DEF TypeOK
<1>2. OneActive' /\ DeletionHasOwner' /\ RowsFit' /\ Leased'
  BY SameRows DEF Download, Answered, rows, world
<1>5. Fenced'
  BY SameCalls DEF Download, Answered, rows, world
<1>6. AnswersHold'
  BY <1>0, <1>7 DEF AnswersHold, Busy, Kept, Granted, Held, TypeOK, Active
<1> QED
  BY <1>1, <1>2, <1>5, <1>6

LEMMA MarkUnreadableStep ==
  ASSUME IndInv, NEW c \in Client, MarkUnreadable(c)
  PROVE  IndInv'
<1> USE EventAssumption, AttemptsAssumption DEF IndInv
<1>1. TypeOK'
  BY DEF TypeOK, Object, Call, State, Relocatable, Phase, Step, Answer, MarkUnreadable, world,
     Reply
<1>2. OneActive'
  BY DEF OneActive, TypeOK, MarkUnreadable, Active, world, Reply
<1>3. DeletionHasOwner'
  BY DEF DeletionHasOwner, TypeOK, MarkUnreadable, Active, world, Reply
<1>4. RowsFit'
  BY DEF RowsFit, TypeOK, Unbound, Candidate, Deleting, MarkUnreadable, Active, world, Reply
<1>5. Fenced' /\ Leased'
  BY SameCalls DEF MarkUnreadable, world
<1>6. AnswersHold'
  BY DEF AnswersHold, Busy, Kept, Granted, Held, TypeOK, MarkUnreadable, Active, world, Reply
<1> QED
  BY <1>1, <1>2, <1>3, <1>4, <1>5, <1>6

LEMMA NoteCandidateAbsentStep ==
  ASSUME IndInv, NEW c \in Client, NoteCandidateAbsent(c)
  PROVE  IndInv'
<1> USE EventAssumption, AttemptsAssumption DEF IndInv
<1>1. TypeOK'
  BY DEF TypeOK, Object, Call, State, Unbound, Candidate, Relocatable, Deleting, Phase, Step,
     Answer, NoteCandidateAbsent, world, Reply
<1>2. OneActive'
  BY DEF OneActive, TypeOK, NoteCandidateAbsent, Active, world, Reply
<1>3. DeletionHasOwner'
  BY DEF DeletionHasOwner, TypeOK, NoteCandidateAbsent, Active, world, Reply
<1>4. RowsFit'
  BY DEF RowsFit, TypeOK, Unbound, Candidate, Deleting, NoteCandidateAbsent, Active, world,
     Reply
<1>5. Fenced' /\ Leased'
  BY SameCalls DEF NoteCandidateAbsent, world
<1>6. AnswersHold'
  BY DEF AnswersHold, Busy, Kept, Granted, Held, TypeOK, NoteCandidateAbsent, Active, world,
     Reply
<1> QED
  BY <1>1, <1>2, <1>3, <1>4, <1>5, <1>6

LEMMA PromoteBackfillStep ==
  ASSUME IndInv, NEW c \in Client, PromoteBackfill(c)
  PROVE  IndInv'
<1> USE EventAssumption, AttemptsAssumption DEF IndInv
<1>1. CASE op' # op
  <2>11. "backfill" \in Event
    BY DEF TypeOK, Event
  <2>12. op' = End("backfill", "succeeded")
    BY <1>1 DEF TypeOK, PromoteBackfill, Reply, world
  <2>13. End("backfill", "succeeded") \in [Event -> Row]
    BY <2>11, EndShape
  <2>1. TypeOK'
    <3>1. obj' \in Object
      BY <1>1 DEF TypeOK, Object, State, Relocatable, PromoteBackfill, Reply, Becomes, world
    <3>2. op' \in [Event -> Row]
      BY <2>12, <2>13
    <3>3. worker' \in [Worker -> Call] /\ client' \in [Client -> Answer]
      BY <1>1 DEF TypeOK, Step, Answer, PromoteBackfill, Reply, world
    <3> QED
      BY <1>1, <3>1, <3>2, <3>3 DEF TypeOK, PromoteBackfill, Reply, world
  <2>2. obj'.source = obj.source /\ obj'.state = "available"
        /\ obj'.bound = obj.bound /\ obj'.deleteRequested = obj.deleteRequested
    BY <1>1 DEF TypeOK, Object, PromoteBackfill, Reply, Becomes, world
  <2>3. \A f \in Event : /\ op'[f].status = IF f = "backfill" THEN "succeeded" ELSE op[f].status
                         /\ op'[f].attempts = op[f].attempts
                         /\ op'[f].lease = IF f = "backfill" THEN "none" ELSE op[f].lease
    BY <2>11, <2>12, <2>13, EndShape
  <2>5. UNCHANGED <<attachment, evidence, worker, bytes, lost, phase>>
    BY <1>1 DEF PromoteBackfill, Reply, world
  <2>6. OneActive'
    BY <1>1, <2>1, <2>2, <2>3, <2>5 DEF OneActive, Active, TypeOK, PromoteBackfill, Reply, world
  <2>7. DeletionHasOwner'
    BY <1>1, <2>1, <2>2, <2>3, <2>5 DEF DeletionHasOwner, TypeOK, PromoteBackfill, Reply, world
  <2>8. RowsFit'
    BY <1>1, <2>1, <2>2, <2>3, <2>5 DEF RowsFit, Active, Deletion, Event, TypeOK, Row, Unbound,
       Candidate, Deleting, PromoteBackfill, Reply, Becomes, world
  <2>9. Fenced'
    BY <1>1, <2>1, <2>2, <2>3, <2>5 DEF Fenced, Busy, Active, TypeOK, Object, Call,
       PromoteBackfill, Reply, Becomes, world
  <2>10. Leased'
    BY <1>1, <2>1, <2>2, <2>3, <2>5 DEF Leased, TypeOK, PromoteBackfill, Reply, world
  <2>15. AnswersHold'
    BY <1>1, <2>1, <2>2, <2>3, <2>5 DEF AnswersHold, Busy, Kept, Granted, Held, Active,
       Deletion, Event, Idle, TypeOK, Row, PromoteBackfill, Reply, world
  <2> QED
    BY <2>1, <2>6, <2>7, <2>8, <2>9, <2>10, <2>15
<1>2. CASE op' = op
  <2>1. TypeOK'
    <3>1. obj' \in Object
      BY <1>2 DEF TypeOK, Object, State, Relocatable, PromoteBackfill, Reply, Becomes, world
    <3>2. op' \in [Event -> Row]
      BY <1>2 DEF TypeOK, PromoteBackfill, Reply, world
    <3>3. worker' \in [Worker -> Call] /\ client' \in [Client -> Answer]
      BY <1>2 DEF TypeOK, Step, Answer, PromoteBackfill, Reply, world
    <3> QED
      BY <1>2, <3>1, <3>2, <3>3 DEF TypeOK, PromoteBackfill, Reply, world
  <2>2. obj' = obj
          \/ (obj'.source = obj.source /\ obj'.state = "available"
               /\ obj'.bound = obj.bound /\ obj'.deleteRequested = obj.deleteRequested)
    BY <1>2 DEF TypeOK, Object, PromoteBackfill, Reply, Becomes, world
  <2>5. UNCHANGED <<attachment, evidence, op, worker, bytes, lost, phase>>
    BY <1>2 DEF PromoteBackfill, Reply, world
  <2>6. OneActive'
    BY <1>2, <2>1, <2>2, <2>5 DEF OneActive, Active, TypeOK, PromoteBackfill, Reply, world
  <2>7. DeletionHasOwner'
    BY <1>2, <2>1, <2>2, <2>5 DEF DeletionHasOwner, Active, TypeOK, PromoteBackfill, Reply,
       world
  <2>8. RowsFit'
    BY <1>2, <2>1, <2>2, <2>5 DEF RowsFit, Active, TypeOK, Unbound, Candidate, Deleting,
       PromoteBackfill, Reply, world
  <2>9. Fenced'
    BY <1>2, <2>1, <2>2, <2>5 DEF Fenced, Busy, Active, TypeOK, PromoteBackfill, Reply, world
  <2>10. Leased'
    BY <1>2, <2>1, <2>2, <2>5 DEF Leased, TypeOK, PromoteBackfill, Reply, world
  <2>15. AnswersHold'
    BY <1>2, <2>1, <2>2, <2>5 DEF AnswersHold, Busy, Kept, Granted, Held, Active, TypeOK,
       PromoteBackfill, Reply, world
  <2> QED
    BY <2>1, <2>6, <2>7, <2>8, <2>9, <2>10, <2>15
<1> QED
  BY <1>1, <1>2 DEF TypeOK

LEMMA AddEvidenceStep ==
  ASSUME IndInv, AddEvidence
  PROVE  IndInv'
<1> USE EventAssumption, AttemptsAssumption DEF IndInv
<1>1. TypeOK'
  BY DEF TypeOK, AddEvidence, world
<1>2. OneActive'
  BY DEF OneActive, TypeOK, AddEvidence, Active, world
<1>3. DeletionHasOwner'
  BY DEF DeletionHasOwner, TypeOK, AddEvidence, world
<1>4. RowsFit'
  BY DEF RowsFit, TypeOK, AddEvidence, Active, world
<1>5. Fenced' /\ Leased'
  BY SameCalls DEF AddEvidence, world
<1>6. AnswersHold'
  BY DEF AnswersHold, Busy, Kept, Granted, Held, TypeOK, AddEvidence, Active, world
<1> QED
  BY <1>1, <1>2, <1>3, <1>4, <1>5, <1>6

LEMMA PrepareDeleteStep ==
  ASSUME IndInv, NEW a \in Actor, PrepareDelete(a)
  PROVE  IndInv'
<1> USE EventAssumption, AttemptsAssumption DEF IndInv
<1>12. op' = [op EXCEPT ![a] = Pending]
  BY DEF New, PrepareDelete, Deletable, NoneActive, world
<1>1. TypeOK'
  <2>1. obj' \in Object
    BY DEF TypeOK, Object, State, Unbound, Candidate, Relocatable, Deleting, PrepareDelete,
       Deletable, NoneActive, world
  <2>2. op' \in [Event -> Row]
    BY <1>12, PendingShape DEF TypeOK
  <2>3. worker' \in [Worker -> Call] /\ client' \in [Client -> Answer]
    BY DEF TypeOK, PrepareDelete, Deletable, NoneActive, world
  <2> QED
    BY <2>1, <2>2, <2>3 DEF TypeOK, PrepareDelete, Deletable, NoneActive, world
<1>2. obj'.source = obj.source /\ obj'.state = "delete_pending"
      /\ obj'.bound = obj.bound /\ obj'.deleteRequested = TRUE
  BY DEF TypeOK, Object, PrepareDelete, Deletable, NoneActive, world
<1>3. \A f \in Event : /\ op'[f].status = IF f = a THEN "pending" ELSE op[f].status
                       /\ op'[f].attempts = IF f = a THEN 0 ELSE op[f].attempts
                       /\ op'[f].lease = IF f = a THEN "none" ELSE op[f].lease
  BY <1>12, PendingShape DEF TypeOK
<1>5. UNCHANGED <<attachment, evidence, worker, client, bytes, lost, phase>>
  BY DEF PrepareDelete, Deletable, NoneActive, world
<1>6. OneActive'
  BY DEF OneActive, Active, TypeOK, PrepareDelete, Deletable, NoneActive, world, New, NoRow,
     Pending
<1>7. DeletionHasOwner'
  BY DEF DeletionHasOwner, Active, Deletion, Event, TypeOK, Row, PrepareDelete, Deletable,
     NoneActive, world, New, NoRow, Pending
<1>8. RowsFit'
  BY DEF RowsFit, Active, TypeOK, Unbound, Candidate, Deleting, PrepareDelete, Deletable,
     NoneActive, world, New, NoRow, Pending
<1>9. Fenced'
  BY DEF Fenced, Busy, Active, TypeOK, PrepareDelete, Deletable, NoneActive, world, New, NoRow,
     Pending
<1>10. Leased'
  BY DEF Leased, TypeOK, PrepareDelete, Deletable, NoneActive, world, New, NoRow, Pending
<1>15. AnswersHold'
  BY <1>1, <1>2, <1>3, <1>5 DEF AnswersHold, Busy, Kept, Granted, Held, Active, Deletion,
     Event, Idle, TypeOK, Row, PrepareDelete, Deletable, NoneActive, world
<1> QED
  BY <1>1, <1>6, <1>7, <1>8, <1>9, <1>10, <1>15

LEMMA CancelByPublishStep ==
  ASSUME IndInv, CancelByPublish
  PROVE  IndInv'
<1> USE EventAssumption, AttemptsAssumption DEF IndInv
<1>11. "verify" \in Event
  BY DEF TypeOK, Event
<1>12. op' = [End("verify", "dead") EXCEPT !["orphan"] = Pending]
  BY DEF TypeOK, CancelByPublish, world
<1>13. End("verify", "dead") \in [Event -> Row]
  BY <1>11, EndShape
<1>1. TypeOK'
  <2>1. obj' \in Object
    BY DEF TypeOK, Object, State, Unbound, Candidate, Relocatable, Deleting, CancelByPublish,
       world
  <2>2. op' \in [Event -> Row]
    BY <1>12, <1>13, PendingShape
  <2>3. worker' \in [Worker -> Call] /\ client' \in [Client -> Answer]
    BY DEF TypeOK, CancelByPublish, world
  <2> QED
    BY <2>1, <2>2, <2>3 DEF TypeOK, CancelByPublish, world
<1>2. obj'.source = obj.source /\ obj'.state = "delete_pending"
      /\ obj'.bound = obj.bound /\ obj'.deleteRequested = TRUE
  BY DEF TypeOK, CancelByPublish, world
<1>3. \A f \in Event :
          /\ op'[f].status = IF f = "orphan" THEN "pending"
                             ELSE IF f = "verify" THEN "dead" ELSE op[f].status
          /\ op'[f].attempts = IF f = "orphan" THEN 0 ELSE op[f].attempts
          /\ op'[f].lease = IF f \in {"verify", "orphan"} THEN "none" ELSE op[f].lease
  BY <1>11, <1>12, <1>13, EndShape, PendingShape
<1>5. UNCHANGED <<attachment, evidence, worker, client, bytes, lost, phase>>
  BY DEF CancelByPublish, world
<1>6. OneActive'
  BY <1>1, <1>2, <1>3, <1>5 DEF OneActive, Active, Deletion, Event, TypeOK, Row,
     CancelByPublish, world
<1>7. DeletionHasOwner'
  BY <1>1, <1>2, <1>3, <1>5 DEF DeletionHasOwner, Active, Deletion, Event, TypeOK, Row,
     CancelByPublish, world
<1>8. RowsFit'
  BY <1>1, <1>2, <1>3, <1>5 DEF RowsFit, Active, Deletion, Event, TypeOK, Row, Unbound,
     Candidate, Deleting, CancelByPublish, world
<1>9. Fenced'
  BY <1>1, <1>2, <1>3, <1>5 DEF Fenced, Busy, Active, TypeOK, Object, Call, CancelByPublish,
     world
<1>10. Leased'
  BY <1>1, <1>2, <1>3, <1>5 DEF Leased, TypeOK, CancelByPublish, world
<1>15. AnswersHold'
  BY <1>1, <1>2, <1>3, <1>5 DEF AnswersHold, Busy, Kept, Granted, Held, Active, TypeOK,
     CancelByPublish, world
<1> QED
  BY <1>1, <1>6, <1>7, <1>8, <1>9, <1>10, <1>15

LEMMA PrepareRelocationStep ==
  ASSUME IndInv, NEW t \in Relocation, PrepareRelocation(t)
  PROVE  IndInv'
<1> USE EventAssumption, AttemptsAssumption DEF IndInv
<1>1. TypeOK'
  BY DEF TypeOK, Row, Event, PrepareRelocation, New, NoRow, Pending, world, NoneActive
<1>2. OneActive'
  BY DEF OneActive, TypeOK, PrepareRelocation, Active, New, NoRow, Pending, world, NoneActive
<1>3. DeletionHasOwner'
  BY DEF DeletionHasOwner, Deletion, Event, TypeOK, Row, PrepareRelocation, New, NoRow,
     Pending, world, NoneActive
<1>4. RowsFit'
  BY DEF RowsFit, Deletion, Event, TypeOK, Row, State, Unbound, Candidate, Relocatable,
     Deleting, Phase, Step, Answer, PrepareRelocation, Active, New, NoRow, Pending, world,
     NoneActive
<1>5. Fenced' /\ Leased'
  BY DEF Fenced, Leased, Busy, TypeOK, PrepareRelocation, Active, New, NoRow, Pending, world,
     NoneActive
<1>6. AnswersHold'
  BY DEF AnswersHold, Busy, Kept, Granted, Held, TypeOK, PrepareRelocation, Active, New, NoRow,
     Pending, world, NoneActive
<1> QED
  BY <1>1, <1>2, <1>3, <1>4, <1>5, <1>6

LEMMA PrepareAttestationStep ==
  ASSUME IndInv, NEW t \in Attestation, PrepareAttestation(t)
  PROVE  IndInv'
<1> USE EventAssumption, AttemptsAssumption DEF IndInv
<1>11. PICK a \in Actor : op' = [op EXCEPT ![t] = [Pending EXCEPT !.replayOf = a]]
  BY DEF New, PrepareAttestation, NoneActive, world
<1>12. [Pending EXCEPT !.replayOf = a] \in Row
  BY PendingShape DEF Row, Event
<1>1. TypeOK'
  <2>1. obj' \in Object
    BY DEF TypeOK, PrepareAttestation, NoneActive, world
  <2>2. op' \in [Event -> Row]
    BY <1>11, <1>12 DEF TypeOK
  <2>3. worker' \in [Worker -> Call] /\ client' \in [Client -> Answer]
    BY DEF TypeOK, PrepareAttestation, NoneActive, world
  <2> QED
    BY <2>1, <2>2, <2>3 DEF TypeOK, PrepareAttestation, NoneActive, world
<1>3. \A f \in Event : /\ op'[f].status = IF f = t THEN "pending" ELSE op[f].status
                       /\ op'[f].attempts = IF f = t THEN 0 ELSE op[f].attempts
                       /\ op'[f].lease = IF f = t THEN "none" ELSE op[f].lease
  BY <1>11, <1>12, PendingShape DEF TypeOK
<1>5. UNCHANGED <<obj, attachment, evidence, worker, client, bytes, lost, phase>>
  BY DEF PrepareAttestation, NoneActive, world
<1>6. OneActive'
  BY DEF OneActive, Active, TypeOK, PrepareAttestation, NoneActive, world, New, NoRow, Pending
<1>7. DeletionHasOwner'
  BY DEF DeletionHasOwner, Deletion, Event, TypeOK, Row, PrepareAttestation, NoneActive, world,
     New, NoRow, Pending
<1>8. RowsFit'
  BY DEF RowsFit, Active, Deletion, Event, TypeOK, Row, PrepareAttestation, NoneActive, world,
     New, NoRow, Pending
<1>9. Fenced'
  BY DEF Fenced, Busy, Active, TypeOK, PrepareAttestation, NoneActive, world, New, NoRow,
     Pending
<1>10. Leased'
  BY DEF Leased, TypeOK, PrepareAttestation, NoneActive, world, New, NoRow, Pending
<1>15. AnswersHold'
  BY <1>1, <1>3, <1>5 DEF AnswersHold, Busy, Kept, Granted, Held, Active, Deletion, Event,
     Idle, TypeOK, Row, PrepareAttestation, NoneActive, world
<1> QED
  BY <1>1, <1>6, <1>7, <1>8, <1>9, <1>10, <1>15

LEMMA ClaimStep ==
  ASSUME IndInv, NEW w \in Worker, NEW e \in Event, Claim(w, e)
  PROVE  IndInv'
<1> USE EventAssumption, AttemptsAssumption DEF IndInv
<1> DEFINE r == [op[e] EXCEPT !.status = "processing", !.lease = phase,
!.attempts = op[e].attempts + 1]
<1>11. op' = [op EXCEPT ![e] = r]
  BY DEF Claim
<1>12. op[e] \in Row /\ op[e].attempts < MaxAttempts /\ phase \in Phase
  BY DEF TypeOK, Claim
<1>13. /\ r \in Row
      /\ r.status = "processing" /\ r.attempts = op[e].attempts + 1 /\ r.lease = phase
  <2>1. op[e].attempts + 1 \in 0..MaxAttempts
    BY <1>12 DEF Row
  <2> QED
    BY <1>12, <2>1 DEF Row
<1> HIDE DEF r
<1>1. TypeOK'
  <2>1. obj' \in Object
    BY DEF TypeOK, Claim, Due, world
  <2>2. op' \in [Event -> Row]
    BY <1>11, <1>13 DEF TypeOK
  <2>3. worker' \in [Worker -> Call] /\ client' \in [Client -> Answer]
    BY DEF TypeOK, Call, Step, Answer, Event, Idle, Row, Claim, Due, world
  <2> QED
    BY <2>1, <2>2, <2>3 DEF TypeOK, Claim, Due, world
<1>3. \A f \in Event : /\ op'[f].status = IF f = e THEN "processing" ELSE op[f].status
                       /\ op'[f].attempts = IF f = e THEN op[e].attempts + 1 ELSE op[f].attempts
                       /\ op'[f].lease = IF f = e THEN phase ELSE op[f].lease
  BY <1>11, <1>13 DEF TypeOK
<1>4. \A v \in Worker : worker'[v] =
          IF v = w THEN [step |-> "claimed", event |-> e, generation |-> op[e].attempts + 1] ELSE worker[v]
  BY DEF TypeOK, Claim, Due, world
<1>5. UNCHANGED <<obj, attachment, evidence, client, bytes, lost, phase>>
  BY DEF Claim, Due, world
<1>6. OneActive'
  BY <1>1, <1>3, <1>4, <1>5 DEF OneActive, Active, TypeOK, Claim, Due, world
<1>7. DeletionHasOwner'
  BY <1>1, <1>3, <1>4, <1>5 DEF DeletionHasOwner, Active, TypeOK, Claim, Due, world
<1>8. RowsFit'
  BY <1>1, <1>3, <1>4, <1>5 DEF RowsFit, Active, TypeOK, Claim, Due, world
<1>9. Fenced'
  BY <1>1, <1>3, <1>4, <1>5 DEF Fenced, Busy, Deletion, Event, Idle, TypeOK, Object, Row, Call,
     Claim, Due, world
<1>10. Leased'
  BY <1>1, <1>3, <1>4, <1>5 DEF Leased, Event, TypeOK, Row, Claim, Due, world
<1>15. AnswersHold'
  BY <1>1, <1>3, <1>4, <1>5 DEF AnswersHold, Fenced, Leased, Busy, RowsFit, Kept, Granted,
     Held, Active, Deletion, Event, Idle, TypeOK, Row, Claim, Due, world
<1> QED
  BY <1>1, <1>6, <1>7, <1>8, <1>9, <1>10, <1>15

LEMMA ExhaustStep ==
  ASSUME IndInv, NEW e \in Event, Exhaust(e)
  PROVE  IndInv'
<1> USE EventAssumption, AttemptsAssumption DEF IndInv
<1>1. TypeOK'
  <2>0. TypeOK
    BY DEF Exhaust, End, world, Dies
  <2>1. obj' \in Object
    BY DEF TypeOK, Object, Call, State, Unbound, Candidate, Relocatable, Deleting, Phase, Step,
       Answer, Exhaust, End, world, Dies
  <2>2. op' \in [Event -> Row]
    <3>1. e \in Event
      BY DEF TypeOK, Exhaust, End, world, Dies
    <3>2. op' = End(e, "dead")
      BY DEF Exhaust, End, world, Dies
    <3> QED
      BY <2>0, <3>1, <3>2, EndShape
  <2>3. worker' \in [Worker -> Call] /\ client' \in [Client -> Answer]
    BY DEF TypeOK, Exhaust, End, world, Dies
  <2> QED
    BY <2>1, <2>2, <2>3 DEF TypeOK, Exhaust, End, world, Dies
<1>2. OneActive'
  BY DEF OneActive, TypeOK, Exhaust, Active, End, world, Dies
<1>3. DeletionHasOwner'
  BY DEF DeletionHasOwner, TypeOK, Exhaust, Active, End, world, Dies
<1>4. RowsFit'
  BY DEF RowsFit, TypeOK, Unbound, Candidate, Deleting, Exhaust, Active, End, world, Dies
<1>5. Fenced' /\ Leased'
  BY DEF Fenced, Leased, Busy, TypeOK, Exhaust, End, world, Dies
<1>6. AnswersHold'
  BY DEF AnswersHold, Busy, OneActive, Kept, Granted, Held, Deletion, Event, TypeOK, Row,
     Exhaust, Active, End, Idle, world, Dies
<1> QED
  BY <1>1, <1>2, <1>3, <1>4, <1>5, <1>6

LEMMA BeginStep ==
  ASSUME IndInv, NEW w \in Worker, Begin(w)
  PROVE  IndInv'
<1> USE EventAssumption, AttemptsAssumption DEF IndInv
<1>1. TypeOK'
  BY DEF TypeOK, Object, Row, Call, State, Relocatable, Phase, Step, Answer, Event, Begin, At,
     Go, world, Gate
<1>2. OneActive'
  BY DEF OneActive, TypeOK, Begin, Active, world, Gate
<1>3. DeletionHasOwner'
  BY DEF DeletionHasOwner, TypeOK, Begin, Active, world, Gate
<1>4. RowsFit'
  BY DEF RowsFit, TypeOK, Begin, Active, world, Gate
<1>5. Fenced' /\ Leased'
  BY DEF Fenced, Leased, Busy, Held, TypeOK, Begin, Active, At, Go, world, Gate
<1>6. AnswersHold'
  BY DEF AnswersHold, Fenced, Leased, Busy, RowsFit, Kept, Granted, Held, TypeOK, Begin,
     Active, At, Go, world, Gate
<1> QED
  BY <1>1, <1>2, <1>3, <1>4, <1>5, <1>6

LEMMA HeadStep ==
  ASSUME IndInv, NEW w \in Worker, Head(w)
  PROVE  IndInv'
<1> USE EventAssumption, AttemptsAssumption DEF IndInv
<1>1. TypeOK'
  BY DEF TypeOK, Object, Call, State, Relocatable, Phase, Step, Answer, Head, Go, rows, world,
     Outcome
<1>2. OneActive' /\ DeletionHasOwner' /\ RowsFit' /\ Leased'
  BY SameRows DEF Head, rows, world
<1>5. Fenced'
  BY DEF Fenced, Busy, TypeOK, Head, Go, rows, world, Outcome
<1>6. AnswersHold'
  BY DEF AnswersHold, Busy, Kept, Granted, Held, TypeOK, Head, Active, Go, rows, world, Outcome
<1> QED
  BY <1>1, <1>2, <1>5, <1>6

LEMMA StartEffectStep ==
  ASSUME IndInv, NEW w \in Worker, StartEffect(w)
  PROVE  IndInv'
<1> USE EventAssumption, AttemptsAssumption DEF IndInv
<1>1. TypeOK'
  BY DEF TypeOK, Object, Call, State, Relocatable, Phase, Step, Answer, StartEffect, At, Go,
     rows, world
<1>2. OneActive' /\ DeletionHasOwner' /\ RowsFit' /\ Leased'
  BY SameRows DEF StartEffect, rows, world
<1>5. Fenced'
  BY DEF Fenced, Busy, Held, TypeOK, StartEffect, Active, At, Go, rows, world
<1>6. AnswersHold'
  BY DEF AnswersHold, Busy, Kept, Granted, Held, TypeOK, StartEffect, Active, At, Go, rows,
     world
<1> QED
  BY <1>1, <1>2, <1>5, <1>6

LEMMA DeleteBytesStep ==
  ASSUME IndInv, NEW w \in Worker, DeleteBytes(w)
  PROVE  IndInv'
<1> USE EventAssumption, AttemptsAssumption DEF IndInv
<1>1. TypeOK'
  BY DEF TypeOK, Object, Call, State, Relocatable, Phase, Step, Answer, DeleteBytes, Go, rows
<1>2. OneActive' /\ DeletionHasOwner' /\ RowsFit' /\ Leased'
  BY SameRows DEF DeleteBytes, rows
<1>5. Fenced'
  BY DEF Fenced, Busy, TypeOK, DeleteBytes, Go, rows
<1>6. AnswersHold'
  BY DEF AnswersHold, Fenced, Leased, Busy, RowsFit, Kept, Granted, Held, TypeOK, DeleteBytes,
     Active, Go, rows
<1> QED
  BY <1>1, <1>2, <1>5, <1>6

LEMMA RecheckStep ==
  ASSUME IndInv, NEW w \in Worker, Recheck(w)
  PROVE  IndInv'
<1> USE EventAssumption, AttemptsAssumption DEF IndInv
<1>1. TypeOK'
  BY DEF TypeOK, Object, Row, Call, State, Relocatable, Phase, Step, Answer, Event, Recheck,
     At, Go, world
<1>2. OneActive'
  BY DEF OneActive, TypeOK, Recheck, Active, world
<1>3. DeletionHasOwner'
  BY DEF DeletionHasOwner, TypeOK, Recheck, Active, world
<1>4. RowsFit'
  BY DEF RowsFit, TypeOK, Recheck, Active, world
<1>5. Fenced' /\ Leased'
  BY DEF Fenced, Leased, Busy, Held, TypeOK, Recheck, Active, At, Go, world
<1>6. AnswersHold'
  BY DEF AnswersHold, Fenced, Leased, Busy, RowsFit, Kept, Granted, Held, TypeOK, Recheck,
     Active, At, Go, world
<1> QED
  BY <1>1, <1>2, <1>3, <1>4, <1>5, <1>6

LEMMA RecordPresentStep ==
  ASSUME IndInv, NEW w \in Worker, RecordPresent(w)
  PROVE  IndInv'
<1> USE EventAssumption, AttemptsAssumption DEF IndInv
<1>1. TypeOK'
  BY DEF TypeOK, Object, Call, State, Unbound, Candidate, Relocatable, Deleting, Phase, Step,
     Answer, RecordPresent, At, Go, Becomes, world, Accepts
<1>2. OneActive'
  BY DEF OneActive, TypeOK, RecordPresent, Active, world, Accepts
<1>3. DeletionHasOwner'
  BY DEF DeletionHasOwner, TypeOK, RecordPresent, At, Go, Becomes, world, Accepts
<1>4. RowsFit'
  BY DEF RowsFit, TypeOK, Unbound, Candidate, Deleting, RecordPresent, Active, At, Go, Becomes,
     world, Accepts
<1>5. Fenced' /\ Leased'
  BY DEF Fenced, Leased, Busy, Held, TypeOK, RecordPresent, Active, At, Go, Becomes, world,
     Accepts
<1>6. AnswersHold'
  BY DEF AnswersHold, Busy, Kept, Granted, Held, TypeOK, RecordPresent, Active, At, Go,
     Becomes, world, Accepts
<1> QED
  BY <1>1, <1>2, <1>3, <1>4, <1>5, <1>6

LEMMA AwaitConfirmStep ==
  ASSUME IndInv, NEW w \in Worker, AwaitConfirm(w)
  PROVE  IndInv'
<1> USE EventAssumption, AttemptsAssumption DEF IndInv
<1>1. TypeOK'
  BY DEF TypeOK, Object, Call, State, Relocatable, Phase, Step, Answer, AwaitConfirm, At, Go,
     rows, world
<1>2. OneActive' /\ DeletionHasOwner' /\ RowsFit' /\ Leased'
  BY SameRows DEF AwaitConfirm, rows, world
<1>5. Fenced'
  BY DEF Fenced, Busy, Held, TypeOK, AwaitConfirm, Active, At, Go, rows, world
<1>6. AnswersHold'
  BY DEF AnswersHold, Busy, Kept, Granted, Held, TypeOK, AwaitConfirm, Active, At, Go, rows,
     world
<1> QED
  BY <1>1, <1>2, <1>5, <1>6

LEMMA ToOrphanStep ==
  ASSUME IndInv, NEW w \in Worker, ToOrphan(w)
  PROVE  IndInv'
<1> USE EventAssumption, AttemptsAssumption DEF IndInv
<1>1. CASE obj.state = "present_unbound" /\ ~obj.bound /\ op["orphan"].status = "none"
  <2>11. "verify" \in Event
    BY DEF TypeOK, Event
  <2>12. op' = [End("verify", "succeeded") EXCEPT !["orphan"] = Pending]
    BY <1>1 DEF TypeOK, ToOrphan, world
  <2>13. End("verify", "succeeded") \in [Event -> Row]
    BY <2>11, EndShape
  <2>14. worker[w].event = "verify" /\ \A f \in Event : Active(f) => f = "verify"
    BY <1>1 DEF Fenced, Busy, Held, Active, ToOrphan, At, Go, Leave, world, TypeOK
  <2>1. TypeOK'
    <3>1. obj' \in Object
      BY <1>1 DEF TypeOK, Object, State, Unbound, Candidate, Relocatable, Deleting, ToOrphan,
         world
    <3>2. op' \in [Event -> Row]
      BY <2>12, <2>13, PendingShape
    <3>3. worker' \in [Worker -> Call] /\ client' \in [Client -> Answer]
      BY <1>1 DEF TypeOK, Call, Step, Answer, Event, Idle, Row, ToOrphan, At, Go, Leave, world
    <3> QED
      BY <1>1, <3>1, <3>2, <3>3 DEF TypeOK, ToOrphan, world
  <2>2. obj'.source = obj.source /\ obj'.state = "delete_pending"
        /\ obj'.bound = obj.bound /\ obj'.deleteRequested = TRUE
    BY <1>1 DEF TypeOK, Object, ToOrphan, world
  <2>3. \A f \in Event :
            /\ op'[f].status = IF f = "orphan" THEN "pending"
                               ELSE IF f = "verify" THEN "succeeded" ELSE op[f].status
            /\ op'[f].attempts = IF f = "orphan" THEN 0 ELSE op[f].attempts
            /\ op'[f].lease = IF f \in {"verify", "orphan"} THEN "none" ELSE op[f].lease
    BY <2>11, <2>12, <2>13, EndShape, PendingShape
  <2>4. \A v \in Worker : worker'[v] = IF v = w THEN Idle ELSE worker[v]
    BY <1>1 DEF TypeOK, ToOrphan, At, Go, Leave, world
  <2>5. UNCHANGED <<attachment, evidence, client, bytes, lost, phase>>
    BY <1>1 DEF ToOrphan, world
  <2>6. OneActive'
    BY <1>1, <2>1, <2>2, <2>3, <2>4, <2>5, <2>14 DEF OneActive, Active, TypeOK
  <2>7. DeletionHasOwner'
    BY <1>1, <2>1, <2>2, <2>3, <2>4, <2>5, <2>14 DEF DeletionHasOwner, Active, Deletion, Event,
       TypeOK, Row
  <2>8. RowsFit'
    BY <1>1, <2>1, <2>2, <2>3, <2>4, <2>5, <2>14 DEF RowsFit, Active, Deletion, Event, TypeOK,
       Row, Unbound, Candidate, Deleting
  <2>9. Fenced'
    BY <1>1, <2>1, <2>2, <2>3, <2>4, <2>5, <2>14 DEF Fenced, Busy, Deletion, Held, Active,
       Event, Idle, TypeOK, Object, Row, Call, ToOrphan, world
  <2>10. Leased'
    BY <1>1, <2>1, <2>2, <2>3, <2>4, <2>5, <2>14 DEF Leased, TypeOK
  <2>15. AnswersHold'
    BY <1>1, <2>1, <2>2, <2>3, <2>4, <2>5, <2>14 DEF AnswersHold, Busy, Kept, Granted, Held,
       Active, Deletion, Event, Idle, TypeOK, Row
  <2> QED
    BY <2>1, <2>6, <2>7, <2>8, <2>9, <2>10, <2>15
<1>2. CASE ~(obj.state = "present_unbound" /\ ~obj.bound /\ op["orphan"].status = "none")
  <2>1. TypeOK'
    <3>1. obj' \in Object
      BY <1>2 DEF TypeOK, ToOrphan, world
    <3>2. op' \in [Event -> Row]
      BY <1>2 DEF TypeOK, ToOrphan, world
    <3>3. worker' \in [Worker -> Call] /\ client' \in [Client -> Answer]
      BY <1>2 DEF TypeOK, Call, Step, Answer, ToOrphan, At, Go, Leave, world
    <3> QED
      BY <1>2, <3>1, <3>2, <3>3 DEF TypeOK, ToOrphan, world
  <2>4. \A v \in Worker : worker'[v] = IF v = w THEN [worker[w] EXCEPT !.step = "failed"] ELSE worker[v]
    BY <1>2 DEF TypeOK, ToOrphan, At, Go, Leave, world
  <2>5. UNCHANGED <<obj, attachment, evidence, op, client, bytes, lost, phase>>
    BY <1>2 DEF ToOrphan, world
  <2>6. OneActive'
    BY <1>2, <2>1, <2>4, <2>5 DEF OneActive, Active, TypeOK, ToOrphan, world
  <2>7. DeletionHasOwner'
    BY <1>2, <2>1, <2>4, <2>5 DEF DeletionHasOwner, Active, TypeOK, ToOrphan, world
  <2>8. RowsFit'
    BY <1>2, <2>1, <2>4, <2>5 DEF RowsFit, Active, TypeOK, ToOrphan, world
  <2>16. worker[w].step = "recorded"
    BY DEF ToOrphan, At
  <2>17. \A v \in Worker :
            /\ worker'[v].event = worker[v].event
            /\ worker'[v].generation = worker[v].generation
            /\ worker'[v].step = IF v = w THEN "failed" ELSE worker[v].step
    BY <2>4 DEF TypeOK, Call
  <2>18. \A v \in Worker : ~(worker'[v].step # "idle") => worker'[v] = Idle
    BY <2>4, <2>17 DEF Fenced, Busy
  <2>9. Fenced'
    BY <2>5, <2>16, <2>17, <2>18 DEF Fenced, Busy
  <2>10. Leased'
    BY <1>2, <2>1, <2>4, <2>5 DEF Leased, TypeOK, ToOrphan, world
  <2>15. AnswersHold'
    BY <1>2, <2>1, <2>4, <2>5 DEF AnswersHold, Fenced, Leased, Busy, RowsFit, Kept, Granted,
       Held, Active, Deletion, Event, Idle, TypeOK, Object, Row, Call, ToOrphan, world
  <2> QED
    BY <2>1, <2>6, <2>7, <2>8, <2>9, <2>10, <2>15
<1> QED
  BY <1>1, <1>2 DEF TypeOK

LEMMA FinalizeAbsentStep ==
  ASSUME IndInv, NEW w \in Worker, FinalizeAbsent(w)
  PROVE  IndInv'
<1> USE EventAssumption, AttemptsAssumption DEF IndInv
<1>1. TypeOK'
  <2>0. TypeOK
    BY DEF FinalizeAbsent, End, world, Accepts
  <2>1. obj' \in Object
    BY DEF TypeOK, Object, Call, State, Relocatable, Phase, Step, Answer, FinalizeAbsent, End,
       At, Leave, Becomes, Succeed, world, Accepts
  <2>2. op' \in [Event -> Row]
    <3>1. worker[w].event \in Event
      BY DEF TypeOK, Call, FinalizeAbsent, End, world, Accepts
    <3>2. op' = End(worker[w].event, "succeeded")
      BY DEF FinalizeAbsent, End, At, Leave, Becomes, Succeed, world, Accepts
    <3> QED
      BY <2>0, <3>1, <3>2, EndShape
  <2>3. worker' \in [Worker -> Call] /\ client' \in [Client -> Answer]
    BY DEF TypeOK, Object, Row, Call, State, Relocatable, Phase, Step, Answer, Event,
       FinalizeAbsent, End, Idle, At, Leave, Becomes, Succeed, world, Accepts
  <2> QED
    BY <2>1, <2>2, <2>3 DEF TypeOK, FinalizeAbsent, End, world, Accepts
<1>2. OneActive'
  BY DEF OneActive, TypeOK, FinalizeAbsent, Active, End, At, Leave, Becomes, Succeed, world,
     Accepts
<1>3. DeletionHasOwner'
  BY DEF DeletionHasOwner, TypeOK, FinalizeAbsent, End, At, Leave, Becomes, Succeed, world,
     Accepts
<1>4. RowsFit'
  BY DEF RowsFit, Deletion, Event, TypeOK, Row, Unbound, Candidate, Deleting, FinalizeAbsent,
     Active, End, Idle, At, Leave, Becomes, Succeed, world, Accepts
<1>5. Fenced' /\ Leased'
  BY DEF Fenced, Leased, Busy, Deletion, Held, Event, TypeOK, Row, FinalizeAbsent, Active, End,
     Idle, At, Leave, Becomes, Succeed, world, Accepts
<1>6. AnswersHold'
  BY DEF AnswersHold, Fenced, Leased, Busy, RowsFit, Kept, Granted, Held, Deletion, Event,
     TypeOK, Row, FinalizeAbsent, Active, End, Idle, At, Leave, Becomes, Succeed, world, Accepts
<1> QED
  BY <1>1, <1>2, <1>3, <1>4, <1>5, <1>6

LEMMA NoteBackfillAbsentStep ==
  ASSUME IndInv, NEW w \in Worker, NoteBackfillAbsent(w)
  PROVE  IndInv'
<1> USE EventAssumption, AttemptsAssumption DEF IndInv
<1>1. TypeOK'
  BY DEF TypeOK, Object, Call, State, Unbound, Candidate, Relocatable, Deleting, Phase, Step,
     Answer, NoteBackfillAbsent, At, Go, Becomes, world, Accepts
<1>2. OneActive'
  BY DEF OneActive, TypeOK, NoteBackfillAbsent, Active, world, Accepts
<1>3. DeletionHasOwner'
  BY DEF DeletionHasOwner, TypeOK, NoteBackfillAbsent, At, Go, Becomes, world, Accepts
<1>4. RowsFit'
  BY DEF RowsFit, TypeOK, Unbound, Candidate, Deleting, NoteBackfillAbsent, Active, At, Go,
     Becomes, world, Accepts
<1>5. Fenced' /\ Leased'
  BY DEF Fenced, Leased, Busy, Held, TypeOK, NoteBackfillAbsent, Active, At, Go, Becomes,
     world, Accepts
<1>6. AnswersHold'
  BY DEF AnswersHold, Busy, Kept, Granted, Held, TypeOK, NoteBackfillAbsent, Active, At, Go,
     Becomes, world, Accepts
<1> QED
  BY <1>1, <1>2, <1>3, <1>4, <1>5, <1>6

LEMMA FinalizeBackfillStep ==
  ASSUME IndInv, NEW w \in Worker, FinalizeBackfill(w)
  PROVE  IndInv'
<1> USE EventAssumption, AttemptsAssumption DEF IndInv
<1>1. TypeOK'
  <2>0. TypeOK
    BY DEF FinalizeBackfill, End, world, Accepts
  <2>1. obj' \in Object
    BY DEF TypeOK, Object, Call, State, Relocatable, Phase, Step, Answer, FinalizeBackfill,
       End, At, Leave, Becomes, Succeed, world, Accepts
  <2>2. op' \in [Event -> Row]
    <3>1. worker[w].event \in Event
      BY DEF TypeOK, Call, FinalizeBackfill, End, world, Accepts
    <3>2. op' = End(worker[w].event, "succeeded")
      BY DEF FinalizeBackfill, End, At, Leave, Becomes, Succeed, world, Accepts
    <3> QED
      BY <2>0, <3>1, <3>2, EndShape
  <2>3. worker' \in [Worker -> Call] /\ client' \in [Client -> Answer]
    BY DEF TypeOK, Object, Row, Call, State, Relocatable, Phase, Step, Answer, Event,
       FinalizeBackfill, End, Idle, At, Leave, Becomes, Succeed, world, Accepts
  <2> QED
    BY <2>1, <2>2, <2>3 DEF TypeOK, FinalizeBackfill, End, world, Accepts
<1>2. OneActive'
  BY DEF OneActive, TypeOK, FinalizeBackfill, Active, End, At, Leave, Becomes, Succeed, world,
     Accepts
<1>3. DeletionHasOwner'
  BY DEF DeletionHasOwner, TypeOK, FinalizeBackfill, End, At, Leave, Becomes, Succeed, world,
     Accepts
<1>4. RowsFit'
  BY DEF RowsFit, Deletion, Event, TypeOK, Row, Unbound, Candidate, Deleting, FinalizeBackfill,
     Active, End, Idle, At, Leave, Becomes, Succeed, world, Accepts
<1>5. Fenced' /\ Leased'
  BY DEF Fenced, Leased, Busy, Deletion, Held, Event, TypeOK, Row, FinalizeBackfill, Active,
     End, Idle, At, Leave, Becomes, Succeed, world, Accepts
<1>6. AnswersHold'
  BY DEF AnswersHold, Busy, Kept, Granted, Held, Deletion, Event, TypeOK, Row,
     FinalizeBackfill, Active, End, Idle, At, Leave, Becomes, Succeed, world, Accepts
<1> QED
  BY <1>1, <1>2, <1>3, <1>4, <1>5, <1>6

LEMMA FinalizeRelocationStep ==
  ASSUME IndInv, NEW w \in Worker, FinalizeRelocation(w)
  PROVE  IndInv'
<1> USE EventAssumption, AttemptsAssumption DEF IndInv
<1>1. TypeOK'
  <2>0. TypeOK
    BY DEF FinalizeRelocation, End, Accepts
  <2>1. obj' \in Object
    BY DEF TypeOK, Object, Call, State, Relocatable, Phase, Step, Answer, FinalizeRelocation,
       End, Accepts
  <2>2. op' \in [Event -> Row]
    <3>1. worker[w].event \in Event
      BY DEF TypeOK, Call, FinalizeRelocation, End, Accepts
    <3>2. op' = End(worker[w].event, "succeeded")
      BY DEF FinalizeRelocation, End, At, Leave, Succeed, Accepts
    <3> QED
      BY <2>0, <3>1, <3>2, EndShape
  <2>3. worker' \in [Worker -> Call] /\ client' \in [Client -> Answer]
    BY DEF TypeOK, Object, Row, Call, State, Relocatable, Phase, Step, Answer, Event,
       FinalizeRelocation, End, Idle, At, Leave, Succeed, Accepts
  <2> QED
    BY <2>1, <2>2, <2>3 DEF TypeOK, FinalizeRelocation, End, Accepts
<1>2. OneActive'
  BY DEF OneActive, TypeOK, FinalizeRelocation, Active, End, At, Leave, Succeed, Accepts
<1>3. DeletionHasOwner'
  BY DEF DeletionHasOwner, TypeOK, FinalizeRelocation, End, Accepts
<1>4. RowsFit'
  BY DEF RowsFit, Deletion, Event, TypeOK, Row, State, Unbound, Candidate, Relocatable,
     Deleting, Phase, Step, Answer, FinalizeRelocation, Active, End, Idle, At, Leave, Succeed,
     Accepts
<1>5. Fenced' /\ Leased'
  BY DEF Fenced, Leased, Busy, Deletion, Held, Event, TypeOK, Row, FinalizeRelocation, Active,
     End, Idle, At, Leave, Succeed, Accepts
<1>6. AnswersHold'
  BY DEF AnswersHold, Busy, Kept, Granted, Held, Deletion, Event, TypeOK, Row,
     FinalizeRelocation, Active, End, Idle, At, Leave, Succeed, Accepts
<1> QED
  BY <1>1, <1>2, <1>3, <1>4, <1>5, <1>6

LEMMA FinalizeDeleteStep ==
  ASSUME IndInv, NEW w \in Worker, FinalizeDelete(w)
  PROVE  IndInv'
<1> USE EventAssumption, AttemptsAssumption DEF IndInv
<1>1. TypeOK'
  <2>0. TypeOK
    BY DEF FinalizeDelete, End, world, Accepts
  <2>1. obj' \in Object
    BY DEF TypeOK, Object, Call, State, Relocatable, Phase, Step, Answer, FinalizeDelete, End,
       At, Leave, Becomes, Succeed, world, Accepts
  <2>2. op' \in [Event -> Row]
    <3>1. worker[w].event \in Event
      BY DEF TypeOK, Call, FinalizeDelete, End, world, Accepts
    <3>2. op' = End(worker[w].event, "succeeded")
      BY DEF FinalizeDelete, End, At, Leave, Becomes, Succeed, world, Accepts
    <3> QED
      BY <2>0, <3>1, <3>2, EndShape
  <2>3. worker' \in [Worker -> Call] /\ client' \in [Client -> Answer]
    BY DEF TypeOK, Object, Row, Call, State, Relocatable, Phase, Step, Answer, Event,
       FinalizeDelete, End, Idle, At, Leave, Becomes, Succeed, world, Accepts
  <2> QED
    BY <2>1, <2>2, <2>3 DEF TypeOK, FinalizeDelete, End, world, Accepts
<1>2. OneActive'
  BY DEF OneActive, TypeOK, FinalizeDelete, Active, End, At, Leave, Becomes, Succeed, world,
     Accepts
<1>3. DeletionHasOwner'
  BY DEF DeletionHasOwner, TypeOK, FinalizeDelete, End, At, Leave, Becomes, Succeed, world,
     Accepts
<1>4. RowsFit'
  BY DEF RowsFit, TypeOK, FinalizeDelete, Active, End, At, Leave, Becomes, Succeed, world,
     Accepts
<1>5. Fenced' /\ Leased'
  BY DEF Fenced, Leased, Busy, Deletion, Held, Event, TypeOK, Row, FinalizeDelete, Active, End,
     Idle, At, Leave, Becomes, Succeed, world, Accepts
<1>6. AnswersHold'
  BY DEF AnswersHold, Busy, Kept, Granted, Held, Deletion, Event, TypeOK, Row, FinalizeDelete,
     Active, End, Idle, At, Leave, Becomes, Succeed, world, Accepts
<1> QED
  BY <1>1, <1>2, <1>3, <1>4, <1>5, <1>6

LEMMA FinalizeAttestationStep ==
  ASSUME IndInv, NEW w \in Worker, FinalizeAttestation(w)
  PROVE  IndInv'
<1> USE EventAssumption, AttemptsAssumption DEF IndInv
<1>11. worker[w].event \in Event
  BY DEF TypeOK, Call
<1>12. op' = [End(worker[w].event,
"succeeded") EXCEPT ![op[worker[w].event].replayOf].status = "succeeded"]
  BY DEF TypeOK, FinalizeAttestation, Accepts, world
<1>13. End(worker[w].event, "succeeded") \in [Event -> Row]
  BY <1>11, EndShape
<1>14. /\ obj.bound /\ ~evidence /\ ~attachment' /\ obj.state \in Deleting /\ worker[w].event \in Attestation
       /\ op[worker[w].event].status = "processing"
       /\ \A f \in Event : Active(f) => f = worker[w].event
  BY DEF Busy, Held, Active, FinalizeAttestation, Accepts, At, Leave, Becomes, world, TypeOK
<1>1. TypeOK'
  <2>1. obj' \in Object
    BY DEF TypeOK, Object, State, Relocatable, FinalizeAttestation, Accepts, At, Leave,
       Becomes, world
  <2>2. op' \in [Event -> Row]
    <3> DEFINE f == op[worker[w].event].replayOf
    <3>1. CASE f \in Event
      <4>1. [End(worker[w].event, "succeeded")[f] EXCEPT !.status = "succeeded"] \in Row
        BY <3>1, <1>13 DEF Row
      <4> QED
        BY <3>1, <4>1, <1>12, <1>13
    <3>2. CASE f \notin Event
      BY <3>2, <1>12, <1>13
    <3> QED
      BY <3>1, <3>2
  <2>3. worker' \in [Worker -> Call] /\ client' \in [Client -> Answer]
    BY DEF TypeOK, Call, Step, Answer, Event, Idle, Row, FinalizeAttestation, Accepts, At,
       Leave, Becomes, world
  <2> QED
    BY <2>1, <2>2, <2>3 DEF TypeOK, FinalizeAttestation, Accepts, world
<1>2. obj'.source = obj.source /\ obj'.state = "absent"
      /\ obj'.bound = obj.bound /\ obj'.deleteRequested = obj.deleteRequested
  BY DEF TypeOK, FinalizeAttestation, Accepts, At, Leave, Becomes, world
<1>3. \A f \in Event :
          /\ op'[f].status = IF f = op[worker[w].event].replayOf \/ f = worker[w].event
                             THEN "succeeded" ELSE op[f].status
          /\ op'[f].attempts = op[f].attempts
          /\ op'[f].lease = IF f = worker[w].event THEN "none" ELSE op[f].lease
  BY <1>11, <1>12, <1>13, EndShape
<1>4. \A v \in Worker : worker'[v] = IF v = w THEN Idle ELSE worker[v]
  BY DEF TypeOK, FinalizeAttestation, Accepts, At, Leave, Becomes, world
<1>5. UNCHANGED <<evidence, client, bytes, lost, phase>>
  BY DEF FinalizeAttestation, Accepts, world
<1>6. OneActive'
  BY <1>1, <1>2, <1>3, <1>4, <1>5, <1>14 DEF OneActive, Active, TypeOK
<1>7. DeletionHasOwner'
  BY <1>1, <1>2, <1>3, <1>4, <1>5, <1>14 DEF DeletionHasOwner, TypeOK
<1>8. RowsFit'
  BY <1>1, <1>2, <1>3, <1>4, <1>5, <1>14 DEF RowsFit, Active, Deletion, Event, TypeOK, Row
<1>9. Fenced'
  BY <1>3, <1>4, <1>14, LeaveFenced
<1>10. Leased'
  BY <1>1, <1>2, <1>3, <1>4, <1>5, <1>14 DEF Leased, TypeOK
<1>15. AnswersHold'
  BY <1>1, <1>2, <1>3, <1>4, <1>5, <1>14 DEF AnswersHold, Busy, Kept, Granted, Held, Active,
     Deletion, Event, Idle, TypeOK, Row
<1> QED
  BY <1>1, <1>6, <1>7, <1>8, <1>9, <1>10, <1>15

LEMMA RejectStep ==
  ASSUME IndInv, NEW w \in Worker, Reject(w)
  PROVE  IndInv'
<1> USE EventAssumption, AttemptsAssumption DEF IndInv
<1>1. TypeOK'
  BY DEF TypeOK, Object, Call, State, Relocatable, Phase, Step, Answer, Reject, At, Go, rows,
     world
<1>2. OneActive' /\ DeletionHasOwner' /\ RowsFit' /\ Leased'
  BY SameRows DEF Reject, rows, world
<1>5. Fenced'
  BY DEF Fenced, Busy, Held, TypeOK, Reject, Active, At, Go, rows, world
<1>6. AnswersHold'
  BY DEF AnswersHold, Busy, Kept, Granted, Held, TypeOK, Reject, Active, At, Go, rows, world
<1> QED
  BY <1>1, <1>2, <1>5, <1>6

LEMMA NackStep ==
  ASSUME IndInv, NEW w \in Worker, Nack(w)
  PROVE  IndInv'
<1> USE EventAssumption, AttemptsAssumption DEF IndInv
<1>1. CASE ~(op[worker[w].event].attempts >= MaxAttempts)
  <2>11. worker[w].event \in Event
    BY DEF TypeOK, Call
  <2>12. op' = End(worker[w].event, "pending")
    BY <1>1 DEF TypeOK, Nack, world
  <2>13. End(worker[w].event, "pending") \in [Event -> Row]
    BY <2>11, EndShape
  <2>14. op[worker[w].event].status = "processing" /\ Busy(w)
    BY <1>1 DEF Busy, Held, Active, Nack, At, Leave, world, TypeOK
  <2>1. TypeOK'
    <3>1. obj' \in Object
      BY <1>1 DEF TypeOK, Nack, world
    <3>2. op' \in [Event -> Row]
      BY <2>12, <2>13
    <3>3. worker' \in [Worker -> Call] /\ client' \in [Client -> Answer]
      BY <1>1 DEF TypeOK, Call, Step, Answer, Event, Idle, Row, Nack, At, Leave, world
    <3> QED
      BY <1>1, <3>1, <3>2, <3>3 DEF TypeOK, Nack, world
  <2>3. \A f \in Event : /\ op'[f].status = IF f = worker[w].event THEN "pending" ELSE op[f].status
                         /\ op'[f].attempts = op[f].attempts
                         /\ op'[f].lease = IF f = worker[w].event THEN "none" ELSE op[f].lease
    BY <2>11, <2>12, <2>13, EndShape
  <2>4. \A v \in Worker : worker'[v] = IF v = w THEN Idle ELSE worker[v]
    BY <1>1 DEF TypeOK, Nack, At, Leave, world
  <2>5. UNCHANGED <<obj, attachment, evidence, client, bytes, lost, phase>>
    BY <1>1 DEF Nack, world
  <2>6. OneActive'
    BY <1>1, <2>1, <2>3, <2>4, <2>5, <2>14 DEF OneActive, Active, TypeOK
  <2>7. DeletionHasOwner'
    BY <1>1, <2>1, <2>3, <2>4, <2>5, <2>14 DEF DeletionHasOwner, Active, Deletion, Event,
       TypeOK, Row
  <2>8. RowsFit'
    BY <1>1, <2>1, <2>3, <2>4, <2>5, <2>14 DEF RowsFit, Active, Deletion, Event, TypeOK,
       Object, Row, Call
  <2>9. Fenced'
    BY <2>3, <2>4, <2>14, LeaveFenced
  <2>10. Leased'
    BY <1>1, <2>1, <2>3, <2>4, <2>5, <2>14 DEF Leased, TypeOK
  <2>15. AnswersHold'
    BY <1>1, <2>1, <2>3, <2>4, <2>5, <2>14 DEF AnswersHold, Busy, Kept, Granted, Held, Active,
       Deletion, Event, Idle, TypeOK, Row
  <2> QED
    BY <2>1, <2>6, <2>7, <2>8, <2>9, <2>10, <2>15
<1>2. CASE op[worker[w].event].attempts >= MaxAttempts
      /\ worker[w].event \in Deletion /\ obj.state = "delete_pending"
  <2>11. worker[w].event \in Event
    BY DEF TypeOK, Call
  <2>12. op' = End(worker[w].event, "dead")
    BY <1>2 DEF TypeOK, Nack, world, Dies
  <2>13. End(worker[w].event, "dead") \in [Event -> Row]
    BY <2>11, EndShape
  <2>14. op[worker[w].event].status = "processing" /\ Busy(w)
    BY <1>2 DEF Busy, Held, Active, Nack, At, Leave, world, Dies, TypeOK
  <2>1. TypeOK'
    <3>1. obj' \in Object
      BY <1>2 DEF TypeOK, Object, State, Unbound, Candidate, Relocatable, Deleting, Nack,
         world, Dies
    <3>2. op' \in [Event -> Row]
      BY <2>12, <2>13
    <3>3. worker' \in [Worker -> Call] /\ client' \in [Client -> Answer]
      BY <1>2 DEF TypeOK, Call, Step, Answer, Event, Idle, Row, Nack, At, Leave, world, Dies
    <3> QED
      BY <1>2, <3>1, <3>2, <3>3 DEF TypeOK, Nack, world, Dies
  <2>2. obj'.source = obj.source /\ obj'.state = "delete_failed"
        /\ obj'.bound = obj.bound /\ obj'.deleteRequested = obj.deleteRequested
    BY <1>2 DEF TypeOK, Object, Nack, world, Dies
  <2>3. \A f \in Event : /\ op'[f].status = IF f = worker[w].event THEN "dead" ELSE op[f].status
                         /\ op'[f].attempts = op[f].attempts
                         /\ op'[f].lease = IF f = worker[w].event THEN "none" ELSE op[f].lease
    BY <2>11, <2>12, <2>13, EndShape
  <2>4. \A v \in Worker : worker'[v] = IF v = w THEN Idle ELSE worker[v]
    BY <1>2 DEF TypeOK, Nack, At, Leave, world, Dies
  <2>5. UNCHANGED <<attachment, evidence, client, bytes, lost, phase>>
    BY <1>2 DEF Nack, world, Dies
  <2>6. OneActive'
    BY <1>2, <2>1, <2>2, <2>3, <2>4, <2>5, <2>14 DEF OneActive, Active, TypeOK
  <2>7. DeletionHasOwner'
    BY <1>2, <2>1, <2>2, <2>3, <2>4, <2>5, <2>14 DEF DeletionHasOwner, TypeOK
  <2>8. RowsFit'
    BY <1>2, <2>1, <2>2, <2>3, <2>4, <2>5, <2>14 DEF RowsFit, Active, Deletion, Event, TypeOK,
       Row, Unbound, Candidate, Deleting
  <2>9. Fenced'
    BY <2>3, <2>4, <2>14, LeaveFenced
  <2>10. Leased'
    BY <1>2, <2>1, <2>2, <2>3, <2>4, <2>5, <2>14 DEF Leased, TypeOK
  <2>15. AnswersHold'
    BY <1>2, <2>1, <2>2, <2>3, <2>4, <2>5, <2>14 DEF AnswersHold, Busy, OneActive, Kept,
       Granted, Held, Active, Deletion, Event, Idle, TypeOK, Row
  <2> QED
    BY <2>1, <2>6, <2>7, <2>8, <2>9, <2>10, <2>15
<1>3. CASE op[worker[w].event].attempts >= MaxAttempts
      /\ ~(worker[w].event \in Deletion /\ obj.state = "delete_pending")
  <2>11. worker[w].event \in Event
    BY DEF TypeOK, Call
  <2>12. op' = End(worker[w].event, "dead")
    BY <1>3 DEF TypeOK, Nack, world, Dies
  <2>13. End(worker[w].event, "dead") \in [Event -> Row]
    BY <2>11, EndShape
  <2>14. op[worker[w].event].status = "processing" /\ Busy(w)
    BY <1>3 DEF Busy, Held, Active, Nack, At, Leave, world, Dies, TypeOK
  <2>1. TypeOK'
    <3>1. obj' \in Object
      BY <1>3 DEF TypeOK, Nack, world, Dies
    <3>2. op' \in [Event -> Row]
      BY <2>12, <2>13
    <3>3. worker' \in [Worker -> Call] /\ client' \in [Client -> Answer]
      BY <1>3 DEF TypeOK, Call, Step, Answer, Event, Idle, Row, Nack, At, Leave, world, Dies
    <3> QED
      BY <1>3, <3>1, <3>2, <3>3 DEF TypeOK, Nack, world, Dies
  <2>3. \A f \in Event : /\ op'[f].status = IF f = worker[w].event THEN "dead" ELSE op[f].status
                         /\ op'[f].attempts = op[f].attempts
                         /\ op'[f].lease = IF f = worker[w].event THEN "none" ELSE op[f].lease
    BY <2>11, <2>12, <2>13, EndShape
  <2>4. \A v \in Worker : worker'[v] = IF v = w THEN Idle ELSE worker[v]
    BY <1>3 DEF TypeOK, Nack, At, Leave, world, Dies
  <2>5. UNCHANGED <<obj, attachment, evidence, client, bytes, lost, phase>>
    BY <1>3 DEF Nack, world, Dies
  <2>6. OneActive'
    BY <1>3, <2>1, <2>3, <2>4, <2>5, <2>14 DEF OneActive, Active, TypeOK
  <2>7. DeletionHasOwner'
    BY <1>3, <2>1, <2>3, <2>4, <2>5, <2>14 DEF DeletionHasOwner, Active, Deletion, Event,
       TypeOK, Row, Nack, world, Dies
  <2>8. RowsFit'
    BY <1>3, <2>1, <2>3, <2>4, <2>5, <2>14 DEF RowsFit, Active, Deletion, Event, TypeOK, Row,
       Unbound, Candidate, Deleting
  <2>9. Fenced'
    BY <2>3, <2>4, <2>14, LeaveFenced
  <2>10. Leased'
    BY <1>3, <2>1, <2>3, <2>4, <2>5, <2>14 DEF Leased, TypeOK
  <2>15. AnswersHold'
    BY <1>3, <2>1, <2>3, <2>4, <2>5, <2>14 DEF AnswersHold, Busy, OneActive, Kept, Granted,
       Held, Active, Deletion, Event, Idle, TypeOK, Row, State, Relocatable, Phase, Step, Answer
  <2> QED
    BY <2>1, <2>6, <2>7, <2>8, <2>9, <2>10, <2>15
<1> QED
  BY <1>1, <1>2, <1>3 DEF TypeOK

LEMMA LeaseLostStep ==
  ASSUME IndInv, NEW w \in Worker, LeaseLost(w)
  PROVE  IndInv'
<1> USE EventAssumption, AttemptsAssumption DEF IndInv
<1>1. TypeOK'
  BY DEF TypeOK, Object, Row, Call, State, Relocatable, Phase, Step, Answer, Event, LeaseLost,
     Idle, Leave, rows, world
<1>2. OneActive' /\ DeletionHasOwner' /\ RowsFit' /\ Leased'
  BY SameRows DEF LeaseLost, rows, world
<1>5. Fenced'
  BY DEF Fenced, Busy, Deletion, Held, Event, TypeOK, Row, LeaseLost, Active, Idle, Leave,
     rows, world
<1>6. AnswersHold'
  BY DEF AnswersHold, Busy, Kept, Granted, Held, Deletion, Event, TypeOK, Row, LeaseLost,
     Active, Idle, Leave, rows, world
<1> QED
  BY <1>1, <1>2, <1>5, <1>6

LEMMA CrashStep ==
  ASSUME IndInv, NEW w \in Worker, Crash(w)
  PROVE  IndInv'
<1> USE EventAssumption, AttemptsAssumption DEF IndInv
<1>1. TypeOK'
  BY DEF TypeOK, Object, Row, Call, State, Relocatable, Phase, Step, Answer, Event, Crash,
     Idle, Leave, rows, world
<1>2. OneActive' /\ DeletionHasOwner' /\ RowsFit' /\ Leased'
  BY SameRows DEF Crash, rows, world
<1>5. Fenced'
  BY DEF Fenced, Busy, Deletion, Held, Event, TypeOK, Row, Crash, Active, Idle, Leave, rows,
     world
<1>6. AnswersHold'
  BY DEF AnswersHold, Busy, Kept, Granted, Held, Deletion, Event, TypeOK, Row, Crash, Active,
     Idle, Leave, rows, world
<1> QED
  BY <1>1, <1>2, <1>5, <1>6

LEMMA WorkStep ==
  ASSUME IndInv, NEW w \in Worker, Work(w)
  PROVE  IndInv'
  BY BeginStep, HeadStep, StartEffectStep, DeleteBytesStep, RecheckStep, RecordPresentStep,
     AwaitConfirmStep, ToOrphanStep, FinalizeAbsentStep, NoteBackfillAbsentStep,
     FinalizeBackfillStep, FinalizeRelocationStep, FinalizeDeleteStep, FinalizeAttestationStep,
     RejectStep, NackStep, LeaseLostStep DEF Work

LEMMA NextStep ==
  ASSUME IndInv, [Next]_vars
  PROVE  IndInv'
<1>1. CASE Next
  BY <1>1, PrepareUploadStep, EnsureBackfillStep, PutBytesStep, LoseBytesStep,
     PassDeadlineStep, ExpireLeaseStep, VerifyEvidenceStep, NoteProviderUnknownStep,
     FinalizeUploadStep, DownloadStep, MarkUnreadableStep, NoteCandidateAbsentStep,
     PromoteBackfillStep, AddEvidenceStep, PrepareDeleteStep, CancelByPublishStep,
     PrepareRelocationStep, PrepareAttestationStep, ClaimStep, ExhaustStep, CrashStep,
     WorkStep DEF Next
<1>2. CASE UNCHANGED vars
  BY <1>2 DEF vars, IndInv, TypeOK, OneActive, DeletionHasOwner, RowsFit, Fenced, Leased,
     AnswersHold, Active, Busy, Held, Kept, Granted
<1> QED
  BY <1>1, <1>2

LEMMA InitHolds == Init => IndInv
<1> SUFFICES ASSUME Init
             PROVE  IndInv
  OBVIOUS
<1> USE EventAssumption, AttemptsAssumption DEF Init, NoRow, Pending, Idle, Active
<1>0. obj \in Object
  <2>1. CASE obj = [source |-> "upload", state |-> "none", bound |-> FALSE,
                    deleteRequested |-> FALSE, moved |-> FALSE]
    BY <2>1 DEF Object, State
  <2>2. ASSUME NEW s \in Candidate \cup {"none"},
               obj = [source |-> "backfill", state |-> s, bound |-> s # "none",
                      deleteRequested |-> FALSE, moved |-> FALSE]
        PROVE  obj \in Object
    <3>1. (s # "none") \in BOOLEAN
      OBVIOUS
    <3> QED
      BY <2>2, <3>1 DEF Object, State, Relocatable, Candidate
  <2> QED
    BY <2>1, <2>2
<1>8. /\ obj.state \in Candidate \cup {"none"} /\ ~obj.deleteRequested
      /\ obj.source = "upload" => ~obj.bound /\ obj.state = "none"
      /\ obj.source = "backfill" => phase = "over" /\ attachment /\ (obj.bound <=> obj.state # "none")
  <2>1. CASE /\ obj = [source |-> "upload", state |-> "none", bound |-> FALSE,
                       deleteRequested |-> FALSE, moved |-> FALSE]
    BY <2>1
  <2>2. ASSUME NEW s \in Candidate \cup {"none"}, phase = "over", attachment,
               obj = [source |-> "backfill", state |-> s, bound |-> s # "none",
                      deleteRequested |-> FALSE, moved |-> FALSE]
        PROVE  /\ obj.state \in Candidate \cup {"none"} /\ ~obj.deleteRequested
               /\ obj.source = "backfill" /\ (obj.bound <=> obj.state # "none")
    BY <2>2
  <2> QED
    BY <2>1, <2>2
<1>9. obj.source \in {"upload", "backfill"}
  BY <1>0 DEF Object
<1>1. TypeOK
  <2>1. obj \in Object
    BY <1>0
  <2>2. op \in [Event -> Row]
    BY DEF Row, Event
  <2>3. worker \in [Worker -> Call] /\ client \in [Client -> Answer]
    BY DEF Call, Step, Answer, Event
  <2> QED
    BY <2>1, <2>2, <2>3 DEF TypeOK, Phase
<1>2. \A e \in Event : op[e].status \in {"none", "pending"} /\ op[e].lease = "none"
  BY DEF Event
<1>3. \A e \in Event : op[e].status # "none" => e = "backfill" /\ obj.bound
  BY DEF Event
<1>4. OneActive
  BY <1>3 DEF OneActive
<1>5. DeletionHasOwner /\ RowsFit
  <2>1. obj.bound <=> obj.source = "backfill" /\ obj.state # "none"
    BY <1>8, <1>9
  <2>2. obj.state = "none" => \A e \in Event : op[e].status = "none"
    BY <1>3, <1>8, <1>9
  <2>3. /\ ~Active("verify") /\ ~evidence
        /\ \A e \in Deletion : op[e].status = "none"
    BY <1>3 DEF Event, Deletion
  <2> HIDE DEF Init, Active
  <2> QED
    BY <1>8, <1>9, <2>1, <2>2, <2>3 DEF DeletionHasOwner, RowsFit, Candidate, Deleting
<1>6. Fenced /\ Leased
  BY <1>2 DEF Fenced, Leased, Busy
<1>7. AnswersHold
  BY DEF AnswersHold, Kept, Granted, Candidate
<1> QED
  BY <1>1, <1>4, <1>5, <1>6, <1>7 DEF IndInv

LEMMA Invariance == Spec => []IndInv
<1>1. Init => IndInv
  BY InitHolds
<1>2. IndInv /\ [Next]_vars => IndInv'
  BY NextStep
<1> QED
  BY <1>1, <1>2, PTL DEF Spec

-----------------------------------------------------------------------------
(* Theorems                                                                *)

\* The variables have their types: above all no operation is ever claimed more
\* than MaxAttempts times.
THEOREM TypeCorrect == Spec => []TypeOK
  BY Invariance, PTL DEF IndInv

\* No sequence of commands, requests, jobs, crashes and late calls gives an
\* object two active operations.
THEOREM OneActiveHolds == Spec => []OneActive
  BY Invariance, PTL DEF IndInv

\* An object in delete_pending has an active deletion.
THEOREM DeletionHasOwnerHolds == Spec => []DeletionHasOwner
  BY Invariance, PTL DEF IndInv

\* A readable object has an Attachment and, unless they were lost, its bytes.
THEOREM AvailableIsStoredHolds == Spec => []AvailableIsStored
<1>1. IndInv => AvailableIsStored
  BY DEF IndInv, TypeOK, AvailableIsStored, RowsFit, AnswersHold, Kept, Deleting
<1> QED
  BY <1>1, Invariance, PTL

\* What immutable evidence refers to is not deleted.
THEOREM EvidenceIsKeptHolds == Spec => []EvidenceIsKept
<1>1. IndInv => EvidenceIsKept
  BY DEF IndInv, TypeOK, EvidenceIsKept, RowsFit, Deleting
<1> QED
  BY <1>1, Invariance, PTL

\* An upload that was given up leaves no bytes behind.
THEOREM ReclaimedIsGoneHolds == Spec => []ReclaimedIsGone
<1>1. IndInv => ReclaimedIsGone
  BY DEF IndInv, ReclaimedIsGone, AnswersHold
<1> QED
  BY <1>1, Invariance, PTL

-----------------------------------------------------------------------------
(* The ledger implements ObjectLifecycle                                   *)

LEMMA InitRefines == Init => Lifecycle!Init
  BY DEF Init, Lifecycle!Init, Stage, Candidate

\* Steps that no one but the ledger can tell apart.
Same == UNCHANGED <<Stage, bytes, lost>>

LEMMA PrepareUploadRefines ==
  ASSUME IndInv, PrepareUpload
  PROVE  Same
  BY EventAssumption DEF Same, PrepareUpload, New, NoRow, Pending, Becomes, world, IndInv,
     AnswersHold, Stage, TypeOK

LEMMA EnsureBackfillRefines ==
  ASSUME IndInv, EnsureBackfill
  PROVE  Same
  BY EventAssumption DEF Same, EnsureBackfill, New, NoRow, Pending, world, IndInv, AnswersHold,
     Stage, TypeOK

LEMMA PutBytesRefines ==
  ASSUME IndInv, PutBytes
  PROVE  Lifecycle!Put \/ Same
  BY EventAssumption DEF Lifecycle!Put, Same, PutBytes, rows, IndInv, AnswersHold, Stage, TypeOK

LEMMA LoseBytesRefines ==
  ASSUME IndInv, LoseBytes
  PROVE  Lifecycle!Lose \/ Same
  BY EventAssumption DEF Lifecycle!Lose, Same, LoseBytes, rows, IndInv, AnswersHold, Stage,
     TypeOK

LEMMA PassDeadlineRefines ==
  ASSUME IndInv, PassDeadline
  PROVE  Same
  BY EventAssumption DEF Same, PassDeadline, IndInv, AnswersHold, Stage, TypeOK

LEMMA ExpireLeaseRefines ==
  ASSUME IndInv, NEW e \in Event, ExpireLease(e)
  PROVE  Same
  BY EventAssumption DEF Same, ExpireLease, world, IndInv, AnswersHold, Stage, TypeOK

LEMMA VerifyEvidenceRefines ==
  ASSUME IndInv, NEW c \in Client, VerifyEvidence(c)
  PROVE  Same
  BY EventAssumption DEF Same, VerifyEvidence, rows, world, Answered, IndInv, AnswersHold,
     Stage, TypeOK

LEMMA NoteProviderUnknownRefines ==
  ASSUME IndInv, NEW c \in Client, NoteProviderUnknown(c)
  PROVE  Same
  BY EventAssumption DEF Same, NoteProviderUnknown, world, NotesUnknown, Reply, IndInv,
     AnswersHold, Stage, TypeOK, Unbound, Candidate, Deleting

LEMMA FinalizeUploadRefines ==
  ASSUME IndInv, NEW c \in Client, FinalizeUpload(c)
  PROVE  Lifecycle!Keep \/ Same
<1>1. CASE Bindable
  <2>1. obj' = [obj EXCEPT !.state = "available", !.bound = TRUE] /\ UNCHANGED <<bytes, lost>>
    BY <1>1 DEF FinalizeUpload, world
  <2>2. /\ obj.state \in Unbound /\ ~obj.bound /\ ~obj.deleteRequested
        /\ obj.source = "upload" /\ (bytes # "none" \/ lost)
    BY <1>1 DEF FinalizeUpload, Bindable, IndInv, TypeOK, Object, RowsFit, AnswersHold, Kept,
       Unbound, Deleting
  <2>3. obj'.state = "available" /\ obj'.bound /\ ~obj'.deleteRequested
    BY <2>1, <2>2 DEF IndInv, TypeOK
  <2>4. Stage = "meant" /\ Stage' = "kept"
    BY <2>2, <2>3 DEF Stage, Unbound
  <2> QED
    BY <2>1, <2>2, <2>4 DEF Lifecycle!Keep
<1>2. CASE ~Bindable
  BY <1>2 DEF FinalizeUpload, world, Same, Stage
<1> QED
  BY <1>1, <1>2

LEMMA DownloadRefines ==
  ASSUME IndInv, NEW c \in Client, Download(c)
  PROVE  Same
  BY EventAssumption DEF Same, Download, rows, world, Answered, IndInv, AnswersHold, Stage,
     TypeOK, Object, Call

LEMMA MarkUnreadableRefines ==
  ASSUME IndInv, NEW c \in Client, MarkUnreadable(c)
  PROVE  Same
  BY EventAssumption DEF Same, MarkUnreadable, world, Reply, IndInv, AnswersHold, Stage, TypeOK

LEMMA NoteCandidateAbsentRefines ==
  ASSUME IndInv, NEW c \in Client, NoteCandidateAbsent(c)
  PROVE  Same
  BY EventAssumption DEF Same, NoteCandidateAbsent, world, Reply, IndInv, AnswersHold, Stage,
     TypeOK, Unbound, Candidate, Deleting

LEMMA PromoteBackfillRefines ==
  ASSUME IndInv, NEW c \in Client, PromoteBackfill(c)
  PROVE  Same
  BY EventAssumption DEF Same, PromoteBackfill, End, Becomes, world, Reply, IndInv,
     AnswersHold, Stage, TypeOK, Object, Call, Unbound, Candidate, Deleting

LEMMA AddEvidenceRefines ==
  ASSUME IndInv, AddEvidence
  PROVE  Same
  BY EventAssumption DEF Same, AddEvidence, world, IndInv, AnswersHold, Stage, TypeOK

LEMMA PrepareDeleteRefines ==
  ASSUME IndInv, NEW a \in Actor, PrepareDelete(a)
  PROVE  Lifecycle!Doom \/ Same
  BY EventAssumption DEF Lifecycle!Doom, Same, PrepareDelete, New, NoRow, Pending, world,
     Deletable, NoneActive, IndInv, RowsFit, Fenced, AnswersHold, Stage, TypeOK

LEMMA CancelByPublishRefines ==
  ASSUME IndInv, CancelByPublish
  PROVE  Lifecycle!Doom \/ Same
  BY EventAssumption DEF Lifecycle!Doom, Same, CancelByPublish, End, NoRow, Pending, world,
     IndInv, AnswersHold, Stage, TypeOK, Unbound, Candidate, Deleting

LEMMA PrepareRelocationRefines ==
  ASSUME IndInv, NEW t \in Relocation, PrepareRelocation(t)
  PROVE  Same
  BY EventAssumption DEF Same, PrepareRelocation, New, NoRow, Pending, world, NoneActive,
     IndInv, AnswersHold, Stage, TypeOK

LEMMA PrepareAttestationRefines ==
  ASSUME IndInv, NEW t \in Attestation, PrepareAttestation(t)
  PROVE  Same
  BY EventAssumption DEF Same, PrepareAttestation, New, NoRow, Pending, world, NoneActive,
     IndInv, AnswersHold, Stage, TypeOK

LEMMA ClaimRefines ==
  ASSUME IndInv, NEW w \in Worker, NEW e \in Event, Claim(w, e)
  PROVE  Same
  BY EventAssumption DEF Same, Claim, world, Due, IndInv, AnswersHold, Stage, TypeOK

LEMMA ExhaustRefines ==
  ASSUME IndInv, NEW e \in Event, Exhaust(e)
  PROVE  Same
  BY EventAssumption DEF Same, Exhaust, End, world, Dies, IndInv, AnswersHold, Stage, TypeOK

LEMMA BeginRefines ==
  ASSUME IndInv, NEW w \in Worker, Begin(w)
  PROVE  Same
  BY EventAssumption DEF Same, Begin, world, Gate, IndInv, AnswersHold, Stage, TypeOK

LEMMA HeadRefines ==
  ASSUME IndInv, NEW w \in Worker, Head(w)
  PROVE  Same
  BY EventAssumption DEF Same, Head, rows, world, Outcome, IndInv, AnswersHold, Stage, TypeOK

LEMMA StartEffectRefines ==
  ASSUME IndInv, NEW w \in Worker, StartEffect(w)
  PROVE  Same
  BY EventAssumption DEF Same, StartEffect, rows, world, IndInv, AnswersHold, Stage, TypeOK

LEMMA DeleteBytesRefines ==
  ASSUME IndInv, NEW w \in Worker, DeleteBytes(w)
  PROVE  Lifecycle!Remove \/ Same
  BY EventAssumption DEF Lifecycle!Remove, Same, DeleteBytes, Idle, rows, IndInv, RowsFit,
     Fenced, AnswersHold, Deletion, Event, Stage, TypeOK, Row

LEMMA RecheckRefines ==
  ASSUME IndInv, NEW w \in Worker, Recheck(w)
  PROVE  Same
  BY EventAssumption DEF Same, Recheck, world, IndInv, AnswersHold, Stage, TypeOK

LEMMA RecordPresentRefines ==
  ASSUME IndInv, NEW w \in Worker, RecordPresent(w)
  PROVE  Same
  BY EventAssumption DEF Same, RecordPresent, At, Go, Becomes, world, Accepts, IndInv,
     AnswersHold, Stage, TypeOK, Unbound, Candidate, Deleting

LEMMA AwaitConfirmRefines ==
  ASSUME IndInv, NEW w \in Worker, AwaitConfirm(w)
  PROVE  Same
  BY EventAssumption DEF Same, AwaitConfirm, rows, world, IndInv, AnswersHold, Stage, TypeOK

LEMMA ToOrphanRefines ==
  ASSUME IndInv, NEW w \in Worker, ToOrphan(w)
  PROVE  Lifecycle!Doom \/ Same
<1>1. CASE obj.state = "present_unbound" /\ ~obj.bound /\ op["orphan"].status = "none"
  <2>1. /\ obj' = [obj EXCEPT !.state = "delete_pending", !.deleteRequested = TRUE]
        /\ UNCHANGED <<bytes, lost>>
    BY <1>1 DEF ToOrphan, world
  <2>2. obj'.state = "delete_pending" /\ obj'.deleteRequested
    BY <2>1 DEF IndInv, TypeOK
  <2>3. ~obj.deleteRequested
    BY <1>1 DEF IndInv, TypeOK, RowsFit, Deleting
  <2>4. Stage \in {"meant", "kept"} /\ Stage' = "doomed"
    BY <1>1, <2>2, <2>3 DEF Stage
  <2> QED
    BY <2>1, <2>4 DEF Lifecycle!Doom
<1>2. CASE ~(obj.state = "present_unbound" /\ ~obj.bound /\ op["orphan"].status = "none")
  BY <1>2 DEF ToOrphan, world, Same, Stage
<1> QED
  BY <1>1, <1>2

LEMMA FinalizeAbsentRefines ==
  ASSUME IndInv, NEW w \in Worker, FinalizeAbsent(w)
  PROVE  Lifecycle!Finish \/ Same
<1>1. obj' = [obj EXCEPT !.state = "absent"] /\ UNCHANGED <<bytes, lost>>
  BY DEF FinalizeAbsent, Becomes, world
<1>2. Stage' = "gone"
  BY <1>1 DEF Stage, IndInv, TypeOK
<1>3. phase = "over" /\ ~obj.bound /\ obj.state \in Unbound \cup {"delete_pending"}
  BY EventAssumption DEF FinalizeAbsent, At, Accepts
<1>4. obj.source = "upload" /\ bytes = "none"
  <2>1. obj.source = "upload"
    BY <1>3 DEF IndInv, TypeOK, Object, RowsFit, Unbound
  <2>2. worker[w].event \in Event /\ Granted(w) /\ worker[w].step = "absent"
    BY <1>3 DEF FinalizeAbsent, At, IndInv, TypeOK, Call, Leased, Granted
  <2> QED
    BY <2>1, <2>2 DEF IndInv, AnswersHold
<1>5. Stage \in {"meant", "doomed"}
  BY <1>3, <1>4 DEF Stage, Unbound
<1> QED
  BY <1>1, <1>2, <1>4, <1>5 DEF Lifecycle!Finish

LEMMA NoteBackfillAbsentRefines ==
  ASSUME IndInv, NEW w \in Worker, NoteBackfillAbsent(w)
  PROVE  Same
  BY EventAssumption DEF Same, NoteBackfillAbsent, At, Go, Becomes, world, Accepts, IndInv,
     AnswersHold, Stage, TypeOK, Unbound, Candidate, Deleting

LEMMA FinalizeBackfillRefines ==
  ASSUME IndInv, NEW w \in Worker, FinalizeBackfill(w)
  PROVE  Same
  BY EventAssumption DEF Same, FinalizeBackfill, End, At, Leave, Becomes, Succeed, world,
     Accepts, IndInv, AnswersHold, Stage, TypeOK, Unbound, Candidate, Deleting

LEMMA FinalizeRelocationRefines ==
  ASSUME IndInv, NEW w \in Worker, FinalizeRelocation(w)
  PROVE  Lifecycle!Restore \/ Same
  BY EventAssumption DEF Lifecycle!Restore, Same, FinalizeRelocation, End, Accepts, IndInv,
     AnswersHold, Stage, TypeOK, State, Unbound, Candidate, Relocatable, Deleting, Phase, Step,
     Answer

LEMMA FinalizeDeleteRefines ==
  ASSUME IndInv, NEW w \in Worker, FinalizeDelete(w)
  PROVE  Lifecycle!Finish \/ Same
  BY EventAssumption DEF Lifecycle!Finish, Same, FinalizeDelete, End, At, Leave, Becomes,
     Succeed, world, Accepts, IndInv, RowsFit, Fenced, AnswersHold, Stage, TypeOK

LEMMA FinalizeAttestationRefines ==
  ASSUME IndInv, NEW w \in Worker, FinalizeAttestation(w)
  PROVE  Lifecycle!Finish \/ Same
  BY EventAssumption DEF Lifecycle!Finish, Same, FinalizeAttestation, End, At, Leave, Becomes,
     world, Accepts, IndInv, RowsFit, Fenced, AnswersHold, Stage, TypeOK, Object, Call

LEMMA RejectRefines ==
  ASSUME IndInv, NEW w \in Worker, Reject(w)
  PROVE  Same
  BY EventAssumption DEF Same, Reject, rows, world, IndInv, AnswersHold, Stage, TypeOK

LEMMA NackRefines ==
  ASSUME IndInv, NEW w \in Worker, Nack(w)
  PROVE  Same
  BY EventAssumption DEF Same, Nack, End, world, Dies, IndInv, AnswersHold, Stage, TypeOK,
     Object, Call

LEMMA LeaseLostRefines ==
  ASSUME IndInv, NEW w \in Worker, LeaseLost(w)
  PROVE  Same
  BY EventAssumption DEF Same, LeaseLost, rows, world, IndInv, AnswersHold, Stage, TypeOK

LEMMA CrashRefines ==
  ASSUME IndInv, NEW w \in Worker, Crash(w)
  PROVE  Same
  BY EventAssumption DEF Same, Crash, rows, world, IndInv, AnswersHold, Stage, TypeOK

LEMMA WorkRefines ==
  ASSUME IndInv, NEW w \in Worker, Work(w)
  PROVE  [Lifecycle!Next]_Lifecycle!vars
  BY BeginRefines, HeadRefines, StartEffectRefines, DeleteBytesRefines, RecheckRefines,
     RecordPresentRefines, AwaitConfirmRefines, ToOrphanRefines, FinalizeAbsentRefines,
     NoteBackfillAbsentRefines, FinalizeBackfillRefines, FinalizeRelocationRefines,
     FinalizeDeleteRefines, FinalizeAttestationRefines, RejectRefines, NackRefines,
     LeaseLostRefines DEF Work, Same, Lifecycle!Next, Lifecycle!vars

LEMMA NextRefines ==
  ASSUME IndInv, [Next]_vars
  PROVE  [Lifecycle!Next]_Lifecycle!vars
<1>1. CASE Next
  BY <1>1, PrepareUploadRefines, EnsureBackfillRefines, PutBytesRefines, LoseBytesRefines,
     PassDeadlineRefines, ExpireLeaseRefines, VerifyEvidenceRefines,
     NoteProviderUnknownRefines, FinalizeUploadRefines, DownloadRefines, MarkUnreadableRefines,
     NoteCandidateAbsentRefines, PromoteBackfillRefines, AddEvidenceRefines,
     PrepareDeleteRefines, CancelByPublishRefines, PrepareRelocationRefines,
     PrepareAttestationRefines, ClaimRefines, ExhaustRefines, CrashRefines,
     WorkRefines DEF Next, Same, Lifecycle!Next, Lifecycle!vars
<1>2. CASE UNCHANGED vars
  BY <1>2 DEF vars, Lifecycle!vars, Stage
<1> QED
  BY <1>1, <1>2

\* Whatever the workers, requests and commands do, a stored file is removed only
\* after the decision to delete it, and that decision is final.
THEOREM Refinement == Spec => ImplementsLifecycle
<1>1. Init => Lifecycle!Init
  BY InitRefines
<1>2. IndInv /\ [Next]_vars => [Lifecycle!Next]_Lifecycle!vars
  BY NextRefines
<1> QED
  BY <1>1, <1>2, Invariance, PTL DEF Spec, ImplementsLifecycle, Lifecycle!Spec

-----------------------------------------------------------------------------
(* The background work ends: what DeletionEnds rests on, without the step  *)
(* from these facts and the fairness of Progress to the temporal property. *)

\* A row that waits may still be claimed, and one that was never written has
\* no attempts; a call knows which answer it can have.
Tried ==
    /\ \A e \in Event : op[e].status = "none" => op[e].attempts = 0
    /\ \A e \in Event : op[e].status = "pending" => op[e].attempts < MaxAttempts
    /\ \A w \in Worker :
          /\ worker[w].step = "head" => worker[w].event \notin Attestation
          /\ worker[w].step = "present" => worker[w].event \in {"verify", "backfill"} \cup Relocation
          /\ worker[w].step = "absent" => worker[w].event \notin Relocation

\* The guards of Progress.
CanWork(w) ==
    \/ worker[w].step \in {"head", "deleting"}
    \/ worker[w].step \notin {"idle", "deleting"} /\ ~Held(w)
    \/ \E s \in {"claimed", "delete", "deleted", "recorded", "failed"} : At(w, s)
    \/ At(w, "present") /\ (Accepts(w) => worker[w].event \in {"verify", "backfill"} \cup Relocation)
    \/ At(w, "absent") /\ (Accepts(w) => worker[w].event \notin Relocation)

CanClaim(w, e) ==
    /\ worker[w] = Idle
    /\ \/ op[e].status = "pending" /\ Due(e)
       \/ op[e].status = "processing" /\ op[e].lease = "none"
    /\ op[e].attempts < MaxAttempts

CanGoOn ==
    \/ obj.state # "none" /\ phase # "over"
    \/ \E e \in Event : \/ op[e].lease # "none"
                        \/ /\ op[e].status = "processing" /\ op[e].lease = "none"
                           /\ op[e].attempts >= MaxAttempts
                        \/ \E w \in Worker : CanClaim(w, e)
    \/ \E w \in Worker : CanWork(w)

\* Nothing waits for anything that nobody will do.
WorkGoesOn ==
    /\ \A w \in Worker : Busy(w) => CanWork(w)
    /\ Worker # {} => \A e \in Event : Active(e) => CanGoOn

\* What is left to do: claims, and in second place the phases to pass, the
\* operations to end, the leases to expire and the steps of the calls.
Rank(s) ==
    CASE s = "claimed" -> 8 [] s = "head" -> 7 [] s = "delete" -> 6 [] s = "deleting" -> 5
      [] s = "deleted" -> 4 [] s = "present" -> 3 [] s \in {"recorded", "absent"} -> 2
      [] s = "failed" -> 1 [] OTHER -> 0

PhasesLeft == {p \in Phase : p = phase \/ (phase = "open" /\ p = "grace")} \ {"over"}
OpenLeft == {e \in Event : op[e].status \notin {"succeeded", "dead"}}
LeasesLeft == {e \in Event : op[e].lease # "none"}
StepsLeft == {t \in Worker \X (1..8) : t[2] <= Rank(worker[t[1]].step)}
TriesLeft == {t \in Event \X (1..MaxAttempts) : op[t[1]].attempts < t[2]}

Left == ({"phase"} \X PhasesLeft) \cup ({"operation"} \X OpenLeft)
        \cup ({"lease"} \X LeasesLeft) \cup ({"step"} \X StepsLeft)
Tries == Event \X (1..MaxAttempts)
Chores == ({"phase"} \X Phase) \cup ({"operation"} \X Event)
          \cup ({"lease"} \X Event) \cup ({"step"} \X (Worker \X (1..8)))

Remaining == <<TriesLeft, Left>>
Fewer == LexPairOrdering(StrictSubsetOrdering(Tries), StrictSubsetOrdering(Chores),
                         SUBSET Tries, SUBSET Chores)
Nearer == <<Remaining', Remaining>> \in Fewer

\* With finitely many operations and workers nothing can come nearer forever.
LEMMA FewerWellFounded ==
  ASSUME IsFiniteSet(Event), IsFiniteSet(Worker)
  PROVE  IsWellFoundedOn(Fewer, (SUBSET Tries) \X (SUBSET Chores))
<1>0. MaxAttempts \in Int
  BY AttemptsAssumption
<1>1. IsFiniteSet(1..MaxAttempts) /\ IsFiniteSet(1..8)
  <2>1. \A b \in Int : IsFiniteSet(1..b)
    BY FS_Interval
  <2>2. 8 \in Int
    OBVIOUS
  <2>3. IsFiniteSet(1..8)
    BY <2>1, <2>2, Zenon
  <2> QED
    BY <1>0, <2>1, <2>3, Zenon
<1>2. IsFiniteSet(Tries)
  BY <1>1, FS_Product DEF Tries
<1>3. IsFiniteSet(Phase)
  <2>1. IsFiniteSet({"open"}) /\ IsFiniteSet({"grace"}) /\ IsFiniteSet({"over"})
    BY FS_Singleton
  <2>2. Phase = {"open"} \cup ({"grace"} \cup {"over"})
    BY DEF Phase
  <2> QED
    BY <2>1, <2>2, FS_Union
<1>4. \A s : IsFiniteSet({s})
  BY FS_Singleton
<1>5. IsFiniteSet(Chores)
  <2>1. IsFiniteSet(Worker \X (1..8))
    BY <1>1, FS_Product
  <2>2. /\ IsFiniteSet({"phase"} \X Phase) /\ IsFiniteSet({"operation"} \X Event)
        /\ IsFiniteSet({"lease"} \X Event) /\ IsFiniteSet({"step"} \X (Worker \X (1..8)))
    BY <1>3, <1>4, <2>1, FS_Product
  <2>3. IsFiniteSet(({"phase"} \X Phase) \cup ({"operation"} \X Event))
    BY <2>2, FS_Union
  <2>4. IsFiniteSet(({"phase"} \X Phase) \cup ({"operation"} \X Event) \cup ({"lease"} \X Event))
    BY <2>2, <2>3, FS_Union
  <2> QED
    BY <2>2, <2>4, FS_Union DEF Chores
<1>6. /\ IsWellFoundedOn(StrictSubsetOrdering(Tries), SUBSET Tries)
      /\ IsWellFoundedOn(StrictSubsetOrdering(Chores), SUBSET Chores)
  BY <1>2, <1>5, FS_StrictSubsetOrderingWellFounded, FS_FiniteSubsetsOfFinite
<1> QED
  BY <1>6, WFLexPairOrdering DEF Fewer

\* The ranks of the steps.
LEMMA Ranks ==
  /\ Rank("claimed") = 8 /\ Rank("head") = 7 /\ Rank("delete") = 6 /\ Rank("deleting") = 5
  /\ Rank("deleted") = 4 /\ Rank("present") = 3 /\ Rank("recorded") = 2 /\ Rank("absent") = 2
  /\ Rank("failed") = 1 /\ Rank("idle") = 0
  /\ \A s \in Step : Rank(s) \in 0..8 /\ (s # "idle" => Rank(s) > 0)
  BY DEF Rank, Step

LEMMA RemainingType ==
  /\ Left \in SUBSET Chores /\ TriesLeft \in SUBSET Tries
  /\ Left' \in SUBSET Chores /\ TriesLeft' \in SUBSET Tries
  BY DEF Left, Chores, TriesLeft, Tries, PhasesLeft, OpenLeft, LeasesLeft, StepsLeft

\* A step that claims nothing and starts nothing adds nothing.
NoMore ==
  /\ \A e \in Event : /\ op'[e].attempts = op[e].attempts
                      /\ op[e].status \in {"succeeded", "dead"} =>
                            op'[e].status \in {"succeeded", "dead"}
                      /\ op[e].lease = "none" => op'[e].lease = "none"
  /\ \A w \in Worker : Rank(worker'[w].step) <= Rank(worker[w].step)
  /\ \/ phase' = phase
     \/ phase = "open" /\ phase' = "grace"
     \/ phase = "grace" /\ phase' = "over"

Less ==
  \/ \E e \in Event : \/ /\ op[e].status \notin {"succeeded", "dead"}
                         /\ op'[e].status \in {"succeeded", "dead"}
                      \/ op[e].lease # "none" /\ op'[e].lease = "none"
  \/ \E w \in Worker : Rank(worker'[w].step) < Rank(worker[w].step)
  \/ phase' # phase

LEMMA NoMoreShape ==
  ASSUME TypeOK, TypeOK', NoMore
  PROVE  /\ Nearer \/ Remaining' = Remaining
         /\ Less => Nearer
<1>1. TriesLeft' = TriesLeft
  BY DEF NoMore, TriesLeft
<1>2. \A w \in Worker : Rank(worker[w].step) \in 0..8 /\ Rank(worker'[w].step) \in 0..8
  BY Ranks DEF TypeOK, Call
<1>3. /\ PhasesLeft' \subseteq PhasesLeft
      /\ OpenLeft' \subseteq OpenLeft
      /\ LeasesLeft' \subseteq LeasesLeft
  BY DEF NoMore, PhasesLeft, OpenLeft, LeasesLeft, Phase
<1>4. StepsLeft' \subseteq StepsLeft
  BY <1>2 DEF NoMore, StepsLeft
<1>5. Left' \subseteq Left
  BY <1>3, <1>4 DEF Left
<1>6. Left' # Left => Nearer
  BY <1>1, <1>5, RemainingType
     DEF Nearer, Remaining, Fewer, LexPairOrdering, StrictSubsetOrdering
<1>7. ASSUME Less
      PROVE  Left' # Left
  <2>1. ASSUME NEW e \in Event, op[e].status \notin {"succeeded", "dead"},
               op'[e].status \in {"succeeded", "dead"}
        PROVE  <<"operation", e>> \in Left /\ <<"operation", e>> \notin Left'
    BY <2>1 DEF Left, OpenLeft
  <2>2. ASSUME NEW e \in Event, op[e].lease # "none", op'[e].lease = "none"
        PROVE  <<"lease", e>> \in Left /\ <<"lease", e>> \notin Left'
    BY <2>2 DEF Left, LeasesLeft
  <2>3. ASSUME NEW w \in Worker, Rank(worker'[w].step) < Rank(worker[w].step)
        PROVE  Left' # Left
    <3> DEFINE t == <<w, Rank(worker[w].step)>>
    <3>1. t \in Worker \X (1..8)
      BY <1>2, <2>3
    <3>2. t \in StepsLeft /\ t \notin StepsLeft'
      BY <1>2, <2>3, <3>1 DEF StepsLeft
    <3> HIDE DEF t
    <3>3. <<"step", t>> \in Left /\ <<"step", t>> \notin Left'
      BY <3>2 DEF Left
    <3> QED
      BY <3>3
  <2>4. ASSUME phase' # phase
        PROVE  <<"phase", phase>> \in Left /\ <<"phase", phase>> \notin Left'
    BY <2>4 DEF NoMore, Left, PhasesLeft, TypeOK, Phase
  <2> QED
    BY <1>7, <2>1, <2>2, <2>3, <2>4 DEF Less
<1> QED
  BY <1>1, <1>5, <1>6, <1>7 DEF Remaining

\* A call goes on to its next step, or ends; the others stay where they are.
LEMMA GoShape ==
  ASSUME TypeOK, NEW w \in Worker, NEW s \in Step, Go(w, s)
  PROVE  /\ worker'[w].step = s /\ worker'[w].event = worker[w].event
         /\ \A v \in Worker : v # w => worker'[v] = worker[v]
         /\ Rank(s) <= Rank(worker[w].step) =>
               \A v \in Worker : Rank(worker'[v].step) <= Rank(worker[v].step)
<1>1. \A v \in Worker : worker[v] \in Call /\ Rank(worker[v].step) \in 0..8
  BY Ranks DEF TypeOK, Call
<1>2. worker'[w] = [worker[w] EXCEPT !.step = s] /\ \A v \in Worker : v # w => worker'[v] = worker[v]
  BY DEF Go, TypeOK
<1>3. worker'[w].step = s /\ worker'[w].event = worker[w].event
  BY <1>1, <1>2 DEF Call
<1>4. ASSUME Rank(s) <= Rank(worker[w].step), NEW v \in Worker
      PROVE  Rank(worker'[v].step) <= Rank(worker[v].step)
  <2>1. CASE v = w
    BY <1>3, <1>4, <2>1
  <2>2. CASE v # w
    BY <1>1, <1>2, <2>2
  <2> QED
    BY <2>1, <2>2
<1> QED
  BY <1>2, <1>3, <1>4

LEMMA LeaveShape ==
  ASSUME TypeOK, NEW w \in Worker, Leave(w)
  PROVE  /\ worker'[w].step = "idle"
         /\ \A v \in Worker : v # w => worker'[v] = worker[v]
         /\ \A v \in Worker : Rank(worker'[v].step) <= Rank(worker[v].step)
         /\ Busy(w) => Rank(worker'[w].step) < Rank(worker[w].step)
<1>1. \A v \in Worker : /\ worker[v] \in Call /\ Rank(worker[v].step) \in 0..8
                        /\ worker[v].step # "idle" => Rank(worker[v].step) > 0
  BY Ranks DEF TypeOK, Call
<1>2. worker'[w].step = "idle" /\ \A v \in Worker : v # w => worker'[v] = worker[v]
  BY DEF Leave, Idle, TypeOK
<1> QED
  BY <1>1, <1>2, Ranks DEF Busy

\* A new row waits, with all its attempts.
LEMMA NewShape ==
  ASSUME TypeOK, Tried, NEW e \in Event, NEW row \in Row, New(e, row),
         row.status = "pending", row.attempts = 0, row.lease = "none"
  PROVE  \A f \in Event :
            /\ op'[f].attempts = op[f].attempts
            /\ op'[f].status = IF f = e THEN "pending" ELSE op[f].status
            /\ op[f].lease = "none" => op'[f].lease = "none"
            /\ op[f].status \in {"succeeded", "dead"} => f # e
<1>1. op'[e] = row /\ \A f \in Event : f # e => op'[f] = op[f]
  BY DEF New, TypeOK
<1>2. op[e].attempts = 0 /\ op[e].status = "none"
  BY DEF New, Tried
<1> QED
  BY <1>1, <1>2

\* Steps that leave the operations, the calls and the clock alone.
LEMMA QuietAdvances ==
  ASSUME TypeOK, Tried, UNCHANGED <<op, worker, phase>>
  PROVE  Tried' /\ NoMore
<1>1. Tried'
  BY DEF Tried
<1>2. \A w \in Worker : Rank(worker[w].step) \in 0..8
  BY Ranks DEF TypeOK, Call
<1> QED
  BY <1>1, <1>2 DEF NoMore

\* Steps that end an operation, or open one, outside a call.
LEMMA CommandAdvances ==
  ASSUME TypeOK, Tried, UNCHANGED <<worker, phase>>,
         \A e \in Event :
            /\ op'[e].attempts = op[e].attempts
            /\ op[e].status \in {"succeeded", "dead"} => op'[e].status \in {"succeeded", "dead"}
            /\ op'[e].status # op[e].status =>
                  \/ op'[e].status \in {"succeeded", "dead"}
                  \/ op'[e].status = "pending" /\ op[e].status = "none"
            /\ op[e].lease = "none" => op'[e].lease = "none"
  PROVE  Tried' /\ NoMore
<1>1. Tried'
  BY AttemptsAssumption DEF Tried
<1>2. \A w \in Worker : Rank(worker[w].step) \in 0..8
  BY Ranks DEF TypeOK, Call
<1> QED
  BY <1>1, <1>2 DEF NoMore

LEMMA NewAdvances ==
  ASSUME TypeOK, Tried, UNCHANGED <<worker, phase>>, NEW e \in Event, NEW row \in Row,
         New(e, row), row.status = "pending", row.attempts = 0, row.lease = "none"
  PROVE  Tried' /\ NoMore
<1>1. op[e].status = "none"
  BY DEF New
<1> QED
  BY <1>1, CommandAdvances, NewShape

LEMMA PrepareUploadAdvances ==
  ASSUME TypeOK, Tried, PrepareUpload
  PROVE  Tried' /\ NoMore
<1>1. "verify" \in Event /\ New("verify", Pending) /\ UNCHANGED <<worker, phase>>
  BY DEF PrepareUpload, world, Event
<1> QED
  BY <1>1, NewAdvances, PendingShape

LEMMA EnsureBackfillAdvances ==
  ASSUME TypeOK, Tried, EnsureBackfill
  PROVE  Tried' /\ NoMore
<1>1. "backfill" \in Event /\ New("backfill", Pending) /\ UNCHANGED <<worker, phase>>
  BY DEF EnsureBackfill, world, Event
<1> QED
  BY <1>1, NewAdvances, PendingShape

LEMMA PrepareDeleteAdvances ==
  ASSUME TypeOK, Tried, NEW a \in Actor, PrepareDelete(a)
  PROVE  Tried' /\ NoMore
<1>1. a \in Event /\ New(a, Pending) /\ UNCHANGED <<worker, phase>>
  BY DEF PrepareDelete, world, Event
<1> QED
  BY <1>1, NewAdvances, PendingShape

LEMMA PrepareRelocationAdvances ==
  ASSUME TypeOK, Tried, NEW t \in Relocation, PrepareRelocation(t)
  PROVE  Tried' /\ NoMore
<1>1. t \in Event /\ New(t, Pending) /\ UNCHANGED <<worker, phase>>
  BY DEF PrepareRelocation, world, Event
<1> QED
  BY <1>1, NewAdvances, PendingShape

LEMMA PrepareAttestationAdvances ==
  ASSUME TypeOK, Tried, NEW t \in Attestation, PrepareAttestation(t)
  PROVE  Tried' /\ NoMore
<1>1. PICK a \in Actor : New(t, [Pending EXCEPT !.replayOf = a])
  BY DEF PrepareAttestation
<1>2. t \in Event /\ a \in Event /\ UNCHANGED <<worker, phase>>
  BY DEF PrepareAttestation, world, Event
<1> DEFINE row == [Pending EXCEPT !.replayOf = a]
<1>3. row \in Row /\ row.status = "pending" /\ row.attempts = 0 /\ row.lease = "none"
  BY <1>2, PendingShape DEF Row
<1> HIDE DEF row
<1> QED
  BY <1>1, <1>2, <1>3, NewAdvances DEF row

LEMMA CancelByPublishAdvances ==
  ASSUME TypeOK, Tried, CancelByPublish
  PROVE  Tried' /\ NoMore
<1> DEFINE ended == End("verify", "dead")
<1>0. "verify" \in Event /\ "orphan" \in Event /\ "verify" # "orphan"
  BY DEF Event
<1>1. /\ ended \in [Event -> Row]
      /\ \A f \in Event : /\ ended[f].status = IF f = "verify" THEN "dead" ELSE op[f].status
                          /\ ended[f].attempts = op[f].attempts
                          /\ ended[f].lease = IF f = "verify" THEN "none" ELSE op[f].lease
  BY <1>0, EndShape
<1>2. op' = [ended EXCEPT !["orphan"] = Pending] /\ op["orphan"].status = "none"
  BY DEF CancelByPublish
<1> HIDE DEF ended
<1>3. \A f \in Event : op'[f] = IF f = "orphan" THEN Pending ELSE ended[f]
  BY <1>0, <1>1, <1>2
<1>4. op["orphan"].attempts = 0
  BY <1>0, <1>2 DEF Tried
<1> QED
  BY <1>0, <1>1, <1>2, <1>3, <1>4, PendingShape, CommandAdvances DEF CancelByPublish, world

\* The deadline and the leases run, and a dead call loses its operation.
LEMMA PassDeadlineAdvances ==
  ASSUME TypeOK, Tried, PassDeadline
  PROVE  Tried' /\ NoMore /\ Less
<1>1. \A e \in Event : /\ op'[e].attempts = op[e].attempts /\ op'[e].status = op[e].status
                       /\ op[e].lease = "none" => op'[e].lease = "none"
  BY DEF PassDeadline, TypeOK, Row
<1>2. /\ UNCHANGED worker
      /\ \/ phase = "open" /\ phase' = "grace"
         \/ phase = "grace" /\ phase' = "over"
  BY DEF PassDeadline, TypeOK, Phase
<1>3. Tried'
  BY <1>1, <1>2 DEF Tried
<1>4. \A w \in Worker : Rank(worker[w].step) \in 0..8
  BY Ranks DEF TypeOK, Call
<1> QED
  BY <1>1, <1>2, <1>3, <1>4 DEF NoMore, Less

LEMMA ExpireLeaseAdvances ==
  ASSUME TypeOK, Tried, NEW e \in Event, ExpireLease(e)
  PROVE  Tried' /\ NoMore /\ Less
<1>1. /\ op[e].lease # "none" /\ op'[e].lease = "none"
      /\ \A f \in Event : /\ op'[f].attempts = op[f].attempts /\ op'[f].status = op[f].status
                          /\ op[f].lease = "none" => op'[f].lease = "none"
  BY DEF ExpireLease, TypeOK, Row
<1>2. UNCHANGED <<worker, phase>>
  BY DEF ExpireLease, world
<1> QED
  BY <1>1, <1>2, CommandAdvances DEF Less

LEMMA ExhaustAdvances ==
  ASSUME TypeOK, Tried, NEW e \in Event, Exhaust(e)
  PROVE  Tried' /\ NoMore /\ Less
<1>1. op' = End(e, "dead") /\ op[e].status = "processing" /\ UNCHANGED <<worker, phase>>
  BY DEF Exhaust, Dies, world
<1>2. \A f \in Event : /\ op'[f].status = IF f = e THEN "dead" ELSE op[f].status
                       /\ op'[f].attempts = op[f].attempts
                       /\ op'[f].lease = IF f = e THEN "none" ELSE op[f].lease
  BY <1>1, EndShape
<1>3. Less
  BY <1>1, <1>2 DEF Less
<1> QED
  BY <1>1, <1>2, <1>3, CommandAdvances

\* A claim spends one of the attempts, whatever else it starts.
LEMMA ClaimAdvances ==
  ASSUME TypeOK, TypeOK', Tried, NEW w \in Worker, NEW e \in Event, Claim(w, e)
  PROVE  Tried' /\ Nearer
<1>1. /\ op[e].attempts < MaxAttempts /\ op[e].attempts \in Nat
      /\ op'[e].status = "processing" /\ op'[e].attempts = op[e].attempts + 1
      /\ \A f \in Event : f # e => op'[f] = op[f]
  BY AttemptsAssumption DEF Claim, TypeOK, Row
<1>2. /\ worker'[w].step = "claimed"
      /\ \A v \in Worker : v # w => worker'[v] = worker[v]
  BY DEF Claim, TypeOK
<1>3. Tried'
  BY <1>1, <1>2 DEF Tried
<1>4. \A f \in Event : op[f].attempts \in Nat /\ op[f].attempts <= op'[f].attempts
  BY <1>1, AttemptsAssumption DEF TypeOK, Row
<1>5. TriesLeft' \subseteq TriesLeft
  BY <1>4 DEF TriesLeft, TypeOK, Row
<1> DEFINE t == <<e, op[e].attempts + 1>>
<1>6. t \in Event \X (1..MaxAttempts)
  BY <1>1, AttemptsAssumption
<1>7. t \in TriesLeft /\ t \notin TriesLeft'
  BY <1>1, <1>6 DEF TriesLeft
<1> HIDE DEF t
<1>8. <<TriesLeft', TriesLeft>> \in StrictSubsetOrdering(Tries)
  BY <1>5, <1>7, RemainingType DEF StrictSubsetOrdering
<1> QED
  BY <1>3, <1>8, RemainingType DEF Nearer, Remaining, Fewer, LexPairOrdering

-----------------------------------------------------------------------------
(* The steps of a call                                                     *)

\* A call that goes on within its operation; renewLease keeps a lease a lease.
LEMMA CallAdvances ==
  ASSUME TypeOK, Tried, NEW w \in Worker, NEW s \in Step, Go(w, s),
         Rank(s) < Rank(worker[w].step), UNCHANGED phase,
         s = "head" => worker[w].event \notin Attestation,
         s = "present" => worker[w].event \in {"verify", "backfill"} \cup Relocation,
         s = "absent" => worker[w].event \notin Relocation,
         \A e \in Event : /\ op'[e].attempts = op[e].attempts
                          /\ op'[e].status = op[e].status
                          /\ op[e].lease = "none" => op'[e].lease = "none"
  PROVE  Tried' /\ NoMore /\ Less
<1>0. Rank(s) \in 0..8 /\ Rank(worker[w].step) \in 0..8
  BY Ranks DEF TypeOK, Call
<1>1. /\ worker'[w].step = s /\ worker'[w].event = worker[w].event
      /\ \A v \in Worker : v # w => worker'[v] = worker[v]
      /\ \A v \in Worker : Rank(worker'[v].step) <= Rank(worker[v].step)
  BY <1>0, GoShape
<1>2. Tried'
  BY <1>1 DEF Tried
<1>3. NoMore
  BY <1>1 DEF NoMore
<1>4. Less
  BY <1>1 DEF Less
<1> QED
  BY <1>2, <1>3, <1>4

\* A call that ends; it may leave its operation ended, or given back.
LEMMA EndingAdvances ==
  ASSUME TypeOK, Tried, NEW w \in Worker, Busy(w), Leave(w), UNCHANGED phase,
         \A e \in Event :
            /\ op'[e].attempts = op[e].attempts
            /\ op[e].status \in {"succeeded", "dead"} => op'[e].status \in {"succeeded", "dead"}
            /\ op'[e].status # op[e].status =>
                  \/ op'[e].status \in {"succeeded", "dead"}
                  \/ op'[e].status = "pending" /\ op[e].attempts < MaxAttempts
            /\ op[e].lease = "none" => op'[e].lease = "none"
  PROVE  Tried' /\ NoMore /\ Less
<1>1. /\ worker'[w].step = "idle"
      /\ \A v \in Worker : v # w => worker'[v] = worker[v]
      /\ \A v \in Worker : Rank(worker'[v].step) <= Rank(worker[v].step)
      /\ Rank(worker'[w].step) < Rank(worker[w].step)
  BY LeaveShape
<1>2. \A e \in Event : /\ op'[e].status = "none" => op[e].status = "none"
                       /\ op'[e].status = "pending" => op[e].attempts < MaxAttempts
  BY DEF Tried
<1>3. Tried'
  BY <1>1, <1>2 DEF Tried
<1>4. NoMore
  BY <1>1 DEF NoMore
<1>5. Less
  BY <1>1 DEF Less
<1> QED
  BY <1>3, <1>4, <1>5

\* renewLease prolongs a lease that is held.
LEMMA RenewShape ==
  ASSUME TypeOK, NEW w \in Worker, Held(w), op' = [op EXCEPT ![worker[w].event].lease = phase]
  PROVE  \A e \in Event : /\ op'[e].attempts = op[e].attempts
                          /\ op'[e].status = op[e].status
                          /\ op[e].lease = "none" => op'[e].lease = "none"
<1>1. worker[w].event \in Event
  BY DEF TypeOK, Call
<1> QED
  BY <1>1 DEF TypeOK, Row, Held

LEMMA BeginAdvances ==
  ASSUME TypeOK, Tried, NEW w \in Worker, Begin(w)
  PROVE  Tried' /\ NoMore /\ Less
<1> DEFINE e == worker[w].event
           s == IF ~Gate(e) THEN "failed" ELSE IF e \in Attestation THEN "absent" ELSE "head"
<1>1. Go(w, s) /\ At(w, "claimed") /\ UNCHANGED phase
  BY DEF Begin, world
<1>2. s \in Step /\ Rank(s) < Rank(worker[w].step)
  BY <1>1, Ranks DEF At, Step
<1>3. /\ s = "head" => e \notin Attestation
      /\ s # "present"
      /\ s = "absent" => e \notin Relocation
  BY EventAssumption
<1>4. \A f \in Event : /\ op'[f].attempts = op[f].attempts
                       /\ op'[f].status = op[f].status
                       /\ op[f].lease = "none" => op'[f].lease = "none"
  BY <1>1, RenewShape DEF Begin, At
<1> HIDE DEF s
<1> QED
  BY <1>1, <1>2, <1>3, <1>4, CallAdvances

LEMMA HeadAdvances ==
  ASSUME TypeOK, Tried, NEW w \in Worker, Head(w)
  PROVE  Tried' /\ NoMore /\ Less
<1> DEFINE e == worker[w].event
<1>1. PICK s \in Outcome(e) \cup {"failed"} : Go(w, s)
  BY DEF Head
<1>2. worker[w].step = "head" /\ UNCHANGED <<op, phase>>
  BY DEF Head, rows, world
<1>3. e \in Event /\ e \notin Attestation
  BY <1>2 DEF TypeOK, Call, Tried
<1>4. /\ s \in {"absent", "delete", "present", "failed"}
      /\ s = "present" => e \in {"verify", "backfill"} \cup Relocation
      /\ s = "absent" => e \notin Relocation
  BY <1>3, EventAssumption DEF Outcome, Deletion, Event
<1>5. s \in Step /\ Rank(s) < Rank(worker[w].step)
  BY <1>2, <1>4, Ranks DEF Step
<1> QED
  BY <1>1, <1>2, <1>4, <1>5, CallAdvances

LEMMA StartEffectAdvances ==
  ASSUME TypeOK, Tried, NEW w \in Worker, StartEffect(w)
  PROVE  Tried' /\ NoMore /\ Less
<1>1. Go(w, "deleting") /\ worker[w].step = "delete" /\ UNCHANGED <<op, phase>>
  BY DEF StartEffect, At, rows, world
<1>2. "deleting" \in Step /\ Rank("deleting") < Rank(worker[w].step)
  BY <1>1, Ranks DEF Step
<1> QED
  BY <1>1, <1>2, CallAdvances

LEMMA DeleteBytesAdvances ==
  ASSUME TypeOK, Tried, NEW w \in Worker, DeleteBytes(w)
  PROVE  Tried' /\ NoMore /\ Less
<1>1. Go(w, "deleted") /\ worker[w].step = "deleting" /\ UNCHANGED <<op, phase>>
  BY DEF DeleteBytes, rows, world
<1>2. "deleted" \in Step /\ Rank("deleted") < Rank(worker[w].step)
  BY <1>1, Ranks DEF Step
<1> QED
  BY <1>1, <1>2, CallAdvances

LEMMA RecheckAdvances ==
  ASSUME IndInv, Tried, NEW w \in Worker, Recheck(w)
  PROVE  Tried' /\ NoMore /\ Less
<1> USE DEF IndInv
<1> DEFINE s == IF bytes = "none" THEN "absent" ELSE "failed"
<1>1. Go(w, s) /\ At(w, "deleted") /\ UNCHANGED phase
  BY DEF Recheck, world
<1>2. s \in Step /\ Rank(s) < Rank(worker[w].step) /\ s \notin {"head", "present"}
  BY <1>1, Ranks DEF At, Step
<1>3. worker[w].event \in Deletion
  BY <1>1 DEF Fenced, Busy, At
<1>4. worker[w].event \notin Relocation
  BY <1>3, EventAssumption DEF Deletion
<1>5. \A f \in Event : /\ op'[f].attempts = op[f].attempts
                       /\ op'[f].status = op[f].status
                       /\ op[f].lease = "none" => op'[f].lease = "none"
  BY <1>1, RenewShape DEF Recheck, At
<1> HIDE DEF s
<1> QED
  BY <1>1, <1>2, <1>4, <1>5, CallAdvances

LEMMA RecordPresentAdvances ==
  ASSUME TypeOK, Tried, NEW w \in Worker, RecordPresent(w)
  PROVE  Tried' /\ NoMore /\ Less
<1>1. Go(w, "recorded") /\ worker[w].step = "present" /\ UNCHANGED <<op, phase>>
  BY DEF RecordPresent, At, rows, world
<1>2. "recorded" \in Step /\ Rank("recorded") < Rank(worker[w].step)
  BY <1>1, Ranks DEF Step
<1> QED
  BY <1>1, <1>2, CallAdvances

LEMMA AwaitConfirmAdvances ==
  ASSUME TypeOK, Tried, NEW w \in Worker, AwaitConfirm(w)
  PROVE  Tried' /\ NoMore /\ Less
<1>1. Go(w, "failed") /\ worker[w].step = "recorded" /\ UNCHANGED <<op, phase>>
  BY DEF AwaitConfirm, At, rows, world
<1>2. "failed" \in Step /\ Rank("failed") < Rank(worker[w].step)
  BY <1>1, Ranks DEF Step
<1> QED
  BY <1>1, <1>2, CallAdvances

LEMMA NoteBackfillAbsentAdvances ==
  ASSUME TypeOK, Tried, NEW w \in Worker, NoteBackfillAbsent(w)
  PROVE  Tried' /\ NoMore /\ Less
<1>1. Go(w, "failed") /\ worker[w].step = "absent" /\ UNCHANGED <<op, phase>>
  BY DEF NoteBackfillAbsent, At, rows, world
<1>2. "failed" \in Step /\ Rank("failed") < Rank(worker[w].step)
  BY <1>1, Ranks DEF Step
<1> QED
  BY <1>1, <1>2, CallAdvances

LEMMA RejectAdvances ==
  ASSUME TypeOK, Tried, NEW w \in Worker, Reject(w)
  PROVE  Tried' /\ NoMore /\ Less
<1>1. Go(w, "failed") /\ worker[w].step \in {"present", "absent"} /\ UNCHANGED <<op, phase>>
  BY DEF Reject, At, rows, world
<1>2. "failed" \in Step /\ Rank("failed") < Rank(worker[w].step)
  BY <1>1, Ranks DEF Step
<1> QED
  BY <1>1, <1>2, CallAdvances

\* The last transaction of a call that has done its work.
LEMMA SucceedAdvances ==
  ASSUME TypeOK, Tried, NEW w \in Worker, Busy(w), Succeed(w), UNCHANGED phase
  PROVE  Tried' /\ NoMore /\ Less
<1> DEFINE e == worker[w].event
<1>1. e \in Event
  BY DEF TypeOK, Call
<1>2. Leave(w) /\ op' = End(e, "succeeded")
  BY DEF Succeed
<1>3. \A f \in Event : /\ op'[f].status = IF f = e THEN "succeeded" ELSE op[f].status
                       /\ op'[f].attempts = op[f].attempts
                       /\ op'[f].lease = IF f = e THEN "none" ELSE op[f].lease
  BY <1>1, <1>2, EndShape
<1> QED
  BY <1>2, <1>3, EndingAdvances

LEMMA FinalizeAbsentAdvances ==
  ASSUME TypeOK, Tried, NEW w \in Worker, FinalizeAbsent(w)
  PROVE  Tried' /\ NoMore /\ Less
  BY SucceedAdvances DEF FinalizeAbsent, At, Busy, world

LEMMA FinalizeBackfillAdvances ==
  ASSUME TypeOK, Tried, NEW w \in Worker, FinalizeBackfill(w)
  PROVE  Tried' /\ NoMore /\ Less
  BY SucceedAdvances DEF FinalizeBackfill, At, Busy, world

LEMMA FinalizeRelocationAdvances ==
  ASSUME TypeOK, Tried, NEW w \in Worker, FinalizeRelocation(w)
  PROVE  Tried' /\ NoMore /\ Less
  BY SucceedAdvances DEF FinalizeRelocation, At, Busy, world

LEMMA FinalizeDeleteAdvances ==
  ASSUME TypeOK, Tried, NEW w \in Worker, FinalizeDelete(w)
  PROVE  Tried' /\ NoMore /\ Less
  BY SucceedAdvances DEF FinalizeDelete, At, Busy, world

LEMMA FinalizeAttestationAdvances ==
  ASSUME TypeOK, Tried, NEW w \in Worker, FinalizeAttestation(w)
  PROVE  Tried' /\ NoMore /\ Less
<1> DEFINE e == worker[w].event
           r == op[e].replayOf
           ended == End(e, "succeeded")
<1>1. e \in Event /\ Leave(w) /\ Busy(w) /\ UNCHANGED phase
  BY DEF TypeOK, Call, FinalizeAttestation, At, Busy, world
<1>2. /\ ended \in [Event -> Row]
      /\ \A f \in Event : /\ ended[f].status = IF f = e THEN "succeeded" ELSE op[f].status
                          /\ ended[f].attempts = op[f].attempts
                          /\ ended[f].lease = IF f = e THEN "none" ELSE op[f].lease
  BY <1>1, EndShape
<1>3. op' = [ended EXCEPT ![r].status = "succeeded"]
  BY DEF FinalizeAttestation
<1> HIDE DEF ended
<1>4. \A f \in Event : /\ op'[f].status = IF f \in {e, r} THEN "succeeded" ELSE op[f].status
                       /\ op'[f].attempts = op[f].attempts
                       /\ op[f].lease = "none" => op'[f].lease = "none"
  BY <1>1, <1>2, <1>3 DEF Row
<1> QED
  BY <1>1, <1>4, EndingAdvances

LEMMA ToOrphanAdvances ==
  ASSUME TypeOK, Tried, NEW w \in Worker, ToOrphan(w), worker[w].event = "verify"
  PROVE  Tried' /\ NoMore /\ Less
<1>0. worker[w].step = "recorded" /\ Busy(w) /\ UNCHANGED phase
  BY DEF ToOrphan, At, Busy, world
<1>1. CASE Go(w, "failed") /\ UNCHANGED op
  <2>1. "failed" \in Step /\ Rank("failed") < Rank(worker[w].step)
    BY <1>0, Ranks DEF Step
  <2> QED
    BY <1>0, <1>1, <2>1, CallAdvances
<1>2. CASE /\ op' = [End("verify", "succeeded") EXCEPT !["orphan"] = Pending]
           /\ Leave(w) /\ op["orphan"].status = "none"
  <2> DEFINE ended == End("verify", "succeeded")
  <2>1. "verify" \in Event /\ "orphan" \in Event
    BY DEF Event
  <2>2. /\ ended \in [Event -> Row]
        /\ \A f \in Event : /\ ended[f].status = IF f = "verify" THEN "succeeded" ELSE op[f].status
                            /\ ended[f].attempts = op[f].attempts
                            /\ ended[f].lease = IF f = "verify" THEN "none" ELSE op[f].lease
    BY <2>1, EndShape
  <2>3. op' = [ended EXCEPT !["orphan"] = Pending]
    BY <1>2
  <2> HIDE DEF ended
  <2>4. \A f \in Event : op'[f] = IF f = "orphan" THEN Pending ELSE ended[f]
    BY <2>2, <2>3
  <2>5. op["orphan"].attempts = 0 /\ 0 < MaxAttempts
    BY <1>2, <2>1, AttemptsAssumption DEF Tried
  <2>6. \A f \in Event :
           /\ op'[f].attempts = op[f].attempts
           /\ op[f].status \in {"succeeded", "dead"} => op'[f].status \in {"succeeded", "dead"}
           /\ op'[f].status # op[f].status =>
                 \/ op'[f].status \in {"succeeded", "dead"}
                 \/ op'[f].status = "pending" /\ op[f].attempts < MaxAttempts
           /\ op[f].lease = "none" => op'[f].lease = "none"
    BY <1>2, <2>1, <2>2, <2>4, <2>5, PendingShape
  <2> QED
    BY <1>0, <1>2, <2>6, EndingAdvances
<1> QED
  BY <1>1, <1>2 DEF ToOrphan

LEMMA NackAdvances ==
  ASSUME TypeOK, Tried, NEW w \in Worker, Nack(w)
  PROVE  Tried' /\ NoMore /\ Less
<1> DEFINE e == worker[w].event
<1>0. e \in Event /\ Busy(w) /\ Leave(w) /\ UNCHANGED phase /\ op[e].status = "processing"
  BY DEF TypeOK, Call, Nack, At, Held, Busy, world
<1>1. op[e].attempts \in Nat
  BY <1>0, AttemptsAssumption DEF TypeOK, Row
<1>2. PICK s \in {"pending", "dead"} : op' = End(e, s) /\ (s = "pending" => op[e].attempts < MaxAttempts)
  <2>1. CASE op[e].attempts >= MaxAttempts
    BY <2>1 DEF Nack, Dies
  <2>2. CASE ~(op[e].attempts >= MaxAttempts)
    BY <1>1, <2>2, AttemptsAssumption DEF Nack
  <2> QED
    BY <2>1, <2>2
<1>3. \A f \in Event : /\ op'[f].status = IF f = e THEN s ELSE op[f].status
                       /\ op'[f].attempts = op[f].attempts
                       /\ op'[f].lease = IF f = e THEN "none" ELSE op[f].lease
  BY <1>0, <1>2, EndShape
<1> QED
  BY <1>0, <1>2, <1>3, EndingAdvances

LEMMA LeaseLostAdvances ==
  ASSUME TypeOK, Tried, NEW w \in Worker, LeaseLost(w)
  PROVE  Tried' /\ NoMore /\ Less
  BY EndingAdvances DEF LeaseLost, Busy, rows, world

\* A call that holds its operation is busy, and may crash.
LEMMA CrashAdvances ==
  ASSUME IndInv, Tried, NEW w \in Worker, Crash(w)
  PROVE  Tried' /\ NoMore /\ Less
<1> USE DEF IndInv
<1>1. Busy(w)
  <2>1. CASE Held(w)
    <3>1. worker[w].event \in Event /\ op[worker[w].event].attempts > 0
      BY <2>1 DEF Held, Leased, TypeOK, Call
    <3> QED
      BY <2>1, <3>1 DEF Held, Fenced, Idle
  <2> QED
    BY <2>1 DEF Crash, Busy
<1> QED
  BY <1>1, EndingAdvances DEF Crash, rows, world

LEMMA WorkAdvances ==
  ASSUME IndInv, Tried, NEW w \in Worker, Work(w)
  PROVE  Tried' /\ NoMore /\ Less
<1>1. TypeOK
  BY DEF IndInv
<1>2. ToOrphan(w) => worker[w].event = "verify"
  BY DEF IndInv, Fenced, Busy, ToOrphan, At
<1> QED
  BY <1>1, <1>2, BeginAdvances, HeadAdvances, StartEffectAdvances, DeleteBytesAdvances,
     RecheckAdvances, RecordPresentAdvances, AwaitConfirmAdvances, ToOrphanAdvances,
     FinalizeAbsentAdvances, NoteBackfillAbsentAdvances, FinalizeBackfillAdvances,
     FinalizeRelocationAdvances, FinalizeDeleteAdvances, FinalizeAttestationAdvances,
     RejectAdvances, NackAdvances, LeaseLostAdvances DEF Work

LEMMA RequestAdvances ==
  ASSUME TypeOK, Tried, NEW c \in Client,
         \/ VerifyEvidence(c) \/ NoteProviderUnknown(c) \/ FinalizeUpload(c) \/ Download(c)
         \/ MarkUnreadable(c) \/ NoteCandidateAbsent(c) \/ PromoteBackfill(c)
  PROVE  Tried' /\ NoMore
<1>1. CASE op' = op
  <2>1. UNCHANGED <<op, worker, phase>>
    BY <1>1 DEF VerifyEvidence, NoteProviderUnknown, FinalizeUpload, Download, MarkUnreadable,
       NoteCandidateAbsent, PromoteBackfill, Answered, rows, world
  <2> QED
    BY <2>1, QuietAdvances
<1>2. CASE op' # op
  <2>1. PICK e \in {"verify", "backfill"} : op' = End(e, "succeeded")
    BY <1>2 DEF VerifyEvidence, NoteProviderUnknown, FinalizeUpload, Download, MarkUnreadable,
       NoteCandidateAbsent, PromoteBackfill, Answered, rows
  <2>2. e \in Event /\ UNCHANGED <<worker, phase>>
    BY <1>2 DEF Event, VerifyEvidence, NoteProviderUnknown, FinalizeUpload, Download,
       MarkUnreadable, NoteCandidateAbsent, PromoteBackfill, Answered, rows, world
  <2>3. \A f \in Event : /\ op'[f].status = IF f = e THEN "succeeded" ELSE op[f].status
                         /\ op'[f].attempts = op[f].attempts
                         /\ op'[f].lease = IF f = e THEN "none" ELSE op[f].lease
    BY <2>1, <2>2, EndShape
  <2> QED
    BY <2>2, <2>3, CommandAdvances
<1> QED
  BY <1>1, <1>2

LEMMA QuietStepsAdvance ==
  ASSUME TypeOK, Tried, PutBytes \/ LoseBytes \/ AddEvidence
  PROVE  Tried' /\ NoMore
<1>1. UNCHANGED <<op, worker, phase>>
  BY DEF PutBytes, LoseBytes, AddEvidence, rows, world
<1> QED
  BY <1>1, QuietAdvances

LEMMA NextAdvances ==
  ASSUME IndInv, IndInv', Tried, [Next]_vars
  PROVE  /\ Tried'
         /\ Progress => Nearer
         /\ Nearer \/ Remaining' = Remaining
<1> TypeOK /\ TypeOK'
  BY DEF IndInv
<1>1. CASE Progress
  <2>1. CASE \E e \in Event, w \in Worker : Claim(w, e)
    BY <2>1, ClaimAdvances
  <2>2. CASE \/ PassDeadline
             \/ \E e \in Event : ExpireLease(e) \/ Exhaust(e)
             \/ \E w \in Worker : Work(w)
    BY <2>2, PassDeadlineAdvances, ExpireLeaseAdvances, ExhaustAdvances, WorkAdvances, NoMoreShape
  <2> QED
    BY <1>1, <2>1, <2>2 DEF Progress
<1>2. CASE Next /\ ~Progress
  <2>1. Tried' /\ NoMore
    <3>1. CASE \/ PrepareUpload \/ EnsureBackfill \/ CancelByPublish
               \/ \E a \in Actor : PrepareDelete(a)
               \/ \E t \in Relocation : PrepareRelocation(t)
               \/ \E t \in Attestation : PrepareAttestation(t)
      BY <3>1, PrepareUploadAdvances, EnsureBackfillAdvances, CancelByPublishAdvances,
         PrepareDeleteAdvances, PrepareRelocationAdvances, PrepareAttestationAdvances
    <3>2. CASE PutBytes \/ LoseBytes \/ AddEvidence
      BY <3>2, QuietStepsAdvance
    <3>3. CASE \E c \in Client :
                  \/ VerifyEvidence(c) \/ NoteProviderUnknown(c) \/ FinalizeUpload(c)
                  \/ Download(c) \/ MarkUnreadable(c) \/ NoteCandidateAbsent(c)
                  \/ PromoteBackfill(c)
      BY <3>3, RequestAdvances
    <3>4. CASE \E w \in Worker : Crash(w)
      BY <3>4, CrashAdvances
    <3> QED
      BY <1>2, <3>1, <3>2, <3>3, <3>4 DEF Next, Progress
  <2> QED
    BY <1>2, <2>1, NoMoreShape
<1>3. CASE UNCHANGED vars /\ ~Progress
  <2>1. UNCHANGED <<op, worker, phase>>
    BY <1>3 DEF vars
  <2> QED
    BY <1>3, <2>1, QuietAdvances, NoMoreShape
<1> QED
  BY <1>1, <1>2, <1>3

LEMMA InitTried == Init => Tried
  BY AttemptsAssumption DEF Init, Tried, NoRow, Pending, Idle

LEMMA TriedHolds == Spec => []Tried
<1>1. IndInv /\ IndInv' /\ Tried /\ [Next]_vars => Tried'
  BY NextAdvances
<1> QED
  BY <1>1, InitTried, Invariance, PTL DEF Spec

\* Every step of the claiming loop, of a call, of the clock or of a lease leaves
\* strictly less to do, and no other step, a crash included, leaves more.
THEOREM ProgressIsSpent ==
  Spec => [][(Progress => Nearer) /\ (Nearer \/ Remaining' = Remaining)]_vars
<1>1. /\ IndInv /\ IndInv' /\ Tried /\ [Next]_vars
      => [(Progress => Nearer) /\ (Nearer \/ Remaining' = Remaining)]_vars
  BY NextAdvances
<1> QED
  BY <1>1, Invariance, TriedHolds, PTL DEF Spec

\* Every call in progress has a next step, and as long as an operation is active, with a worker
\* to claim it, a step of Progress has its guard.
THEOREM WorkGoesOnHolds == Spec => []WorkGoesOn
<1>1. ASSUME IndInv, Tried
      PROVE  WorkGoesOn
  <2> USE <1>1 DEF IndInv
  <2>1. ASSUME NEW w \in Worker, Busy(w)
        PROVE  CanWork(w)
    <3>1. worker[w].step \in Step
      BY DEF TypeOK, Call
    <3>2. CASE worker[w].step \in {"present", "absent"} /\ Held(w)
      BY <3>2 DEF CanWork, At, Tried
    <3> QED
      BY <2>1, <3>1, <3>2 DEF CanWork, At, Step, Busy
  <2>2. ASSUME NEW v \in Worker, NEW e \in Event, Active(e)
        PROVE  CanGoOn
    <3>1. /\ op[e].attempts \in Nat /\ MaxAttempts \in Nat /\ phase \in Phase
          /\ op[e].status \in {"pending", "processing"}
          /\ obj.state # "none"
      BY <2>2, AttemptsAssumption DEF TypeOK, Row, RowsFit, Active
    <3>2. CASE phase # "over"
      BY <3>1, <3>2 DEF CanGoOn
    <3>3. CASE \E w \in Worker : Busy(w)
      BY <2>1, <3>3 DEF CanGoOn
    <3>4. CASE phase = "over" /\ worker[v] = Idle
      <4>1. CASE op[e].status = "pending"
        <5>1. CanClaim(v, e)
          BY <3>4, <4>1 DEF CanClaim, Due, Tried
        <5> QED
          BY <5>1 DEF CanGoOn
      <4>2. CASE op[e].status = "processing" /\ op[e].lease # "none"
        BY <4>2 DEF CanGoOn
      <4>3. CASE op[e].status = "processing" /\ op[e].lease = "none"
        <5>1. CASE op[e].attempts >= MaxAttempts
          BY <4>3, <5>1 DEF CanGoOn
        <5>2. CASE op[e].attempts < MaxAttempts
          <6>1. CanClaim(v, e)
            BY <3>4, <4>3, <5>2 DEF CanClaim
          <6> QED
            BY <6>1 DEF CanGoOn
        <5> QED
          BY <3>1, <5>1, <5>2
      <4> QED
        BY <3>1, <4>1, <4>2, <4>3
    <3> QED
      BY <3>2, <3>3, <3>4 DEF Fenced
  <2> QED
    BY <2>1, <2>2 DEF WorkGoesOn
<1> QED
  BY <1>1, Invariance, TriedHolds, PTL

\* A deletion in progress can go on: what DeletionEnds needs of every state.
THEOREM DeletionGoesOn ==
  Spec => [](obj.state = "delete_pending" /\ Worker # {} => CanGoOn)
<1>1. DeletionHasOwner /\ WorkGoesOn => (obj.state = "delete_pending" /\ Worker # {} => CanGoOn)
  BY DEF DeletionHasOwner, WorkGoesOn, Deletion, Event
<1> QED
  BY <1>1, DeletionHasOwnerHolds, WorkGoesOnHolds, PTL
=============================================================================
