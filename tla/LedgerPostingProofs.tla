------------------------- MODULE LedgerPostingProofs -------------------------
(***************************************************************************)
(* Proofs about LedgerPosting, for every set of batches, members, chunks   *)
(* and workers.  The inductive invariant says what an entry written while  *)
(* preparing still means when it is posted: it was computed from a day     *)
(* total of the past, totals only grow, and the cap is checked again.      *)
(***************************************************************************)
EXTENDS LedgerPosting, FiniteSetTheorems, TLAPS

\* An entry belongs to a member of the batch, and is the credit for a total the
\* day has had.
EntriesFromPast ==
    \A b \in Batches, m \in Members : entry[b][m] # None =>
        /\ m \in MembersOf(b)
        /\ \E t \in Nat : t <= day[m].total /\ entry[b][m] = Credit(Points[b][m], t)

\* Baseline and entries cover the same members.
Keyed ==
    \A b \in Batches, m \in Members : job[b].baseline[m] # None <=> entry[b][m] # None

PreparedHaveEntries ==
    \A b \in Batches : \A k \in Items(b) :
        item[b][k] = "succeeded" => \A m \in Part[b][k] : entry[b][m] # None

Frozen ==
    \A b \in Batches : batch[b].status \in {"ready", "committed"} =>
        Covered(b) = MembersOf(b) /\ batch[b].hash = job[b].baseline

IndInv == TypeOK /\ EntriesFromPast /\ Keyed /\ PreparedHaveEntries /\ Frozen

-----------------------------------------------------------------------------

\* The constants, as the proofs use them.
LEMMA Constants ==
    /\ Cap \in Nat /\ MaxAttempts \in Nat /\ MaxAttempts >= 1
    /\ None \notin Nat /\ None \notin DayStates /\ None \notin Baselines
    /\ \A b \in Batches : \A k \in Items(b) : Part[b][k] \subseteq MembersOf(b)
    /\ \A b \in Batches : MembersOf(b) \subseteq Members
    /\ \A b \in Batches, m \in Members : Points[b][m] \in Nat
<1>1. DayStates \subseteq [version : Nat, total : Nat]
  BY ShapeAssumption DEF DayStates
<1>2. Baselines \subseteq [Members -> [version : Nat, total : Nat] \cup {None}]
  BY <1>1 DEF Baselines
<1> QED
  BY <1>1, <1>2, ShapeAssumption, BoundAssumption DEF MembersOf

\* The number of members of a chunk.
LEMMA PartSize ==
  ASSUME NEW b \in Batches, NEW k \in Items(b)
  PROVE  Cardinality(Part[b][k]) \in Nat
  BY ShapeAssumption, FS_Subset, FS_CardinalityType

\* What the cap leaves of recognised points.
LEMMA CreditRange ==
  ASSUME NEW p \in Nat, NEW t \in 0..Cap
  PROVE  Credit(p, t) \in 0..Cap /\ t + Credit(p, t) <= Cap
  BY Constants DEF Credit

\* A credit computed from an older total is the right one if it still fits.
LEMMA OldCreditFits ==
  ASSUME NEW p \in Nat, NEW t \in Nat, NEW u \in Nat, t <= u, u <= Cap,
         u + Credit(p, t) <= Cap
  PROVE  Credit(p, t) = Credit(p, u)
  BY Constants DEF Credit

\* A job that loses its lease keeps everything but status and fence.
LEMMA UnleasedFields ==
  ASSUME NEW j \in JobRows,
         NEW s \in {"pending", "succeeded", "dead", "cancelled"}
  PROVE  /\ Unleased(j, s) \in JobRows
         /\ Unleased(j, s).owner = 0
         /\ Unleased(j, s).gen = j.gen
         /\ Unleased(j, s).baseline = j.baseline
         /\ Unleased(j, s).attempts = j.attempts
  BY DEF Unleased, JobRows

\* Sweeping touches neither baselines nor claims.
LEMMA SweptFields ==
  ASSUME TypeOK
  PROVE  /\ Swept \in [Batches -> JobRows]
         /\ \A b \in Batches : /\ Swept[b].owner \in {0, Swept[b].gen}
                               /\ Swept[b].baseline = job[b].baseline
                               /\ Swept[b].gen = job[b].gen
<1> SUFFICES ASSUME NEW b \in Batches
             PROVE  LET s == IF Exhausted(b) THEN Unleased(job[b], "dead") ELSE job[b]
                    IN /\ s \in JobRows /\ s.owner \in {0, s.gen}
                       /\ s.baseline = job[b].baseline /\ s.gen = job[b].gen
  BY DEF Swept
<1>1. job[b] \in JobRows /\ job[b].owner \in {0, job[b].gen}
  BY DEF TypeOK
<1> QED
  BY <1>1, UnleasedFields

-----------------------------------------------------------------------------
(* Type correctness, one lemma per group of variables an action touches. *)

\* Moving a round on, or ending it, keeps it well-formed.
LEMMA GotoTyped ==
  ASSUME TypeOK, NEW w \in Workers, worker[w].pc # "idle",
         NEW pc \in {"preparing", "failing", "releasing", "marking", "committing",
                     "acking", "closing"},
         Goto(w, pc)
  PROVE  /\ worker' \in [Workers -> WorkerStates]
         /\ \A v \in Workers : worker'[v].pc # "idle" =>
              worker'[v].batch \in Batches /\ worker'[v].todo \subseteq Items(worker'[v].batch)
<1>0. worker[w] \in WorkerStates
  BY DEF TypeOK
<1>1. [worker[w] EXCEPT !.pc = pc] \in WorkerStates
  BY <1>0 DEF WorkerStates
<1>2. worker' = [worker EXCEPT ![w] = [worker[w] EXCEPT !.pc = pc]]
  BY DEF Goto, TypeOK
<1>3. worker'[w] = [worker[w] EXCEPT !.pc = pc]
  BY <1>2 DEF TypeOK
<1>4. worker'[w].batch = worker[w].batch /\ worker'[w].todo = worker[w].todo
  BY <1>3 DEF TypeOK, WorkerStates
<1>5. \A v \in Workers \ {w} : worker'[v] = worker[v]
  BY <1>2 DEF TypeOK
<1> QED
  BY <1>1, <1>2, <1>4, <1>5 DEF TypeOK

LEMMA RestTyped ==
  ASSUME TypeOK, NEW w \in Workers, Rest(w)
  PROVE  /\ worker' \in [Workers -> WorkerStates]
         /\ \A v \in Workers : worker'[v].pc # "idle" =>
              worker'[v].batch \in Batches /\ worker'[v].todo \subseteq Items(worker'[v].batch)
<1>1. Resting \in WorkerStates /\ Resting.pc = "idle"
  BY DEF Resting, WorkerStates
<1> QED
  BY <1>1 DEF TypeOK, Rest

LEMMA DoneTyped ==
  ASSUME TypeOK, NEW w \in Workers, worker[w].pc # "idle", NEW k, Done(w, k)
  PROVE  /\ worker' \in [Workers -> WorkerStates]
         /\ \A v \in Workers : worker'[v].pc # "idle" =>
              worker'[v].batch \in Batches /\ worker'[v].todo \subseteq Items(worker'[v].batch)
<1> DEFINE new == [worker[w] EXCEPT !.todo = worker[w].todo \ {k}]
<1>1. new \in WorkerStates /\ new.batch = worker[w].batch /\ new.todo \subseteq worker[w].todo
  BY DEF TypeOK, WorkerStates
<1>2. worker' = [worker EXCEPT ![w] = new]
  BY DEF Done, TypeOK
<1>3. worker'[w] = new /\ \A v \in Workers \ {w} : worker'[v] = worker[v]
  BY <1>2 DEF TypeOK
<1> QED
  BY <1>1, <1>2, <1>3 DEF TypeOK

\* Changing one job to a well-formed one.
LEMMA JobTyped ==
  ASSUME TypeOK, NEW b \in Batches, NEW j \in JobRows, j.owner \in {0, j.gen},
         job' = [job EXCEPT ![b] = j]
  PROVE  /\ job' \in [Batches -> JobRows]
         /\ \A c \in Batches : job'[c].owner \in {0, job'[c].gen}
         /\ job'[b] = j
         /\ \A c \in Batches \ {b} : job'[c] = job[c]
  BY DEF TypeOK

\* Changing one item.
LEMMA ItemTyped ==
  ASSUME TypeOK, NEW b \in Batches, NEW k \in Items(b),
         NEW s \in {"pending", "failed", "succeeded"},
         item' = [item EXCEPT ![b][k] = s]
  PROVE  /\ DOMAIN item' = Batches
         /\ \A c \in Batches : item'[c] \in [Items(c) -> {"pending", "failed", "succeeded"}]
         /\ item'[b][k] = s
         /\ \A l \in Items(b) \ {k} : item'[b][l] = item[b][l]
         /\ \A c \in Batches \ {b} : item'[c] = item[c]
  BY DEF TypeOK

-----------------------------------------------------------------------------
(* The steps that matter, one lemma each. *)

LEMMA InitIndInv == Init => IndInv
<1> SUFFICES ASSUME Init PROVE IndInv
  OBVIOUS
<1>1. TypeOK
  BY Constants DEF Init, TypeOK, NoBatchRow, BatchRows, NoJob, JobRows, Baselines,
     DayStates, Resting, WorkerStates
<1>2. EntriesFromPast /\ Keyed /\ PreparedHaveEntries /\ Frozen
  BY DEF Init, EntriesFromPast, Keyed, PreparedHaveEntries, Frozen, NoJob, NoBatchRow
<1> QED
  BY <1>1, <1>2 DEF IndInv

\* Steps that write neither entries, items, days nor baselines, and change the
\* status of no batch to "ready" or "committed".
LEMMA FrameStep ==
  ASSUME IndInv, UNCHANGED <<item, entry, day>>, TypeOK',
         \A b \in Batches : job'[b].baseline = job[b].baseline,
         \A b \in Batches : batch'[b].status \in {"ready", "committed"} =>
            /\ batch[b].status \in {"ready", "committed"}
            /\ batch'[b].hash = batch[b].hash
  PROVE  IndInv'
<1>1. EntriesFromPast'
  BY DEF IndInv, EntriesFromPast
<1>2. Keyed' /\ PreparedHaveEntries'
  BY DEF IndInv, Keyed, PreparedHaveEntries
<1>3. Frozen'
  BY DEF IndInv, Frozen, Covered
<1> QED
  BY <1>1, <1>2, <1>3 DEF IndInv

\* The transaction of prepareChunk.
LEMMA PrepareStep ==
  ASSUME IndInv, NEW w \in Workers, NEW k \in worker[w].todo, PrepareChunk(w, k)
  PROVE  IndInv'
<1> DEFINE b == worker[w].batch
           j == [job[b] EXCEPT !.status = "processing", !.baseline = Merged(b, k)]
           r == [batch[b] EXCEPT !.prepared = @ + Cardinality(Part[b][k])]
<1>1. worker[w].pc = "preparing" /\ b \in Batches /\ k \in Items(b)
  BY DEF IndInv, TypeOK, PrepareChunk
<1>2. /\ batch[b].status = "preparing" /\ item[b][k] # "succeeded"
      /\ entry' = [entry EXCEPT ![b] = Entered(b, k)]
      /\ job' = [job EXCEPT ![b] = j]
      /\ item' = [item EXCEPT ![b][k] = "succeeded"]
      /\ batch' = [batch EXCEPT ![b] = r]
      /\ day' = day
  BY <1>1 DEF PrepareChunk, Preparable, B, IndInv, TypeOK
<1>3. /\ job[b] \in JobRows /\ job[b].owner \in {0, job[b].gen}
      /\ batch[b] \in BatchRows /\ day \in [Members -> DayStates]
      /\ job[b].baseline \in Baselines
  BY <1>1 DEF IndInv, TypeOK, JobRows
<1>4. Merged(b, k) \in Baselines
  BY <1>3 DEF Merged, Baselines
<1>5. j \in JobRows /\ j.owner = job[b].owner /\ j.gen = job[b].gen /\ j.baseline = Merged(b, k)
  BY <1>3, <1>4 DEF JobRows
<1>6. r \in BatchRows /\ r.status = "preparing" /\ r.hash = batch[b].hash
  BY <1>1, <1>2, <1>3, PartSize DEF BatchRows
<1>7. \A m \in Members :
        /\ Points[b][m] \in Nat /\ day[m].total \in 0..Cap
        /\ Credit(Points[b][m], day[m].total) \in 0..Cap
  BY <1>1, <1>3, Constants, CreditRange DEF DayStates
<1>8. entry[b] \in [Members -> (0..Cap) \cup {None}]
  BY <1>1 DEF IndInv, TypeOK
<1>9. Entered(b, k) \in [Members -> (0..Cap) \cup {None}]
  BY <1>7, <1>8 DEF Entered
<1>10. TypeOK'
  <2>1. /\ job' \in [Batches -> JobRows]
        /\ \A c \in Batches : job'[c].owner \in {0, job'[c].gen}
    BY <1>1, <1>2, <1>3, <1>5, JobTyped DEF IndInv
  <2>2. batch' \in [Batches -> BatchRows]
    BY <1>1, <1>2, <1>6 DEF IndInv, TypeOK
  <2>3. /\ DOMAIN item' = Batches
        /\ \A c \in Batches : item'[c] \in [Items(c) -> {"pending", "failed", "succeeded"}]
    BY <1>1, <1>2, ItemTyped DEF IndInv
  <2>4. entry' \in [Batches -> [Members -> (0..Cap) \cup {None}]]
    BY <1>1, <1>2, <1>9 DEF IndInv, TypeOK
  <2>5. /\ worker' \in [Workers -> WorkerStates]
        /\ \A v \in Workers : worker'[v].pc # "idle" =>
             worker'[v].batch \in Batches /\ worker'[v].todo \subseteq Items(worker'[v].batch)
    <3>1. CASE Done(w, k)
      BY <1>1, <3>1, DoneTyped DEF IndInv
    <3>2. CASE Goto(w, "failing")
      BY <1>1, <3>2, GotoTyped DEF IndInv
    <3> QED
      BY <3>1, <3>2 DEF PrepareChunk
  <2>6. lost' \subseteq Batches
    BY <1>1 DEF PrepareChunk, B, IndInv, TypeOK
  <2> QED
    BY <1>2, <1>3, <2>1, <2>2, <2>3, <2>4, <2>5, <2>6 DEF TypeOK
<1>11. /\ entry'[b] = Entered(b, k) /\ \A c \in Batches \ {b} : entry'[c] = entry[c]
       /\ job'[b].baseline = Merged(b, k)
       /\ \A c \in Batches \ {b} : job'[c] = job[c]
       /\ batch'[b].status = "preparing"
       /\ \A c \in Batches \ {b} : batch'[c] = batch[c]
  BY <1>1, <1>2, <1>5, <1>6 DEF IndInv, TypeOK
<1>12. Part[b][k] \subseteq MembersOf(b)
  BY <1>1, Constants
<1>13. EntriesFromPast'
  <2> SUFFICES ASSUME NEW c \in Batches, NEW m \in Members, entry'[c][m] # None
               PROVE  /\ m \in MembersOf(c)
                      /\ \E t \in Nat : t <= day[m].total /\ entry'[c][m] = Credit(Points[c][m], t)
    BY <1>2 DEF EntriesFromPast
  <2>1. CASE entry'[c][m] = entry[c][m]
    BY <2>1 DEF IndInv, EntriesFromPast
  <2>2. CASE entry'[c][m] # entry[c][m]
    <3>1. c = b
      BY <2>2, <1>11
    <3>2. m \in Part[b][k] /\ entry'[b][m] = Credit(Points[b][m], day[m].total)
      BY <2>2, <3>1, <1>11 DEF Entered
    <3> QED
      BY <3>1, <3>2, <1>7, <1>12
  <2> QED
    BY <2>1, <2>2
<1>14. Keyed'
  <2> SUFFICES ASSUME NEW c \in Batches, NEW m \in Members
               PROVE  job'[c].baseline[m] # None <=> entry'[c][m] # None
    BY DEF Keyed
  <2>1. job[c].baseline[m] # None <=> entry[c][m] # None
    BY DEF IndInv, Keyed
  <2>2. CASE c # b
    BY <2>1, <2>2, <1>11
  <2>3. CASE c = b /\ m \in Part[b][k]
    <3>1. day[m] # None /\ Credit(Points[b][m], day[m].total) # None
      BY <1>3, <1>7, Constants
    <3> QED
      BY <2>3, <3>1, <1>11 DEF Merged, Entered
  <2>4. CASE c = b /\ m \notin Part[b][k]
    BY <2>1, <2>4, <1>11 DEF Merged, Entered
  <2> QED
    BY <2>2, <2>3, <2>4
<1>15. PreparedHaveEntries'
  <2> SUFFICES ASSUME NEW c \in Batches, NEW l \in Items(c), item'[c][l] = "succeeded",
                      NEW m \in Part[c][l]
               PROVE  entry'[c][m] # None
    BY DEF PreparedHaveEntries
  <2>0. m \in Members
    BY Constants
  <2>1. CASE c = b /\ l = k
    <3>1. Credit(Points[b][m], day[m].total) # None
      BY <2>0, <1>7, Constants
    <3> QED
      BY <2>0, <2>1, <3>1, <1>11 DEF Entered
  <2>2. CASE ~(c = b /\ l = k)
    <3>1. item[c][l] = "succeeded"
      BY <2>2, <1>1, <1>2, ItemTyped DEF IndInv
    <3>2. entry[c][m] # None
      BY <3>1 DEF IndInv, PreparedHaveEntries
    <3>3. entry'[c][m] = entry[c][m]
      BY <2>0, <3>2, <1>11 DEF Entered
    <3> QED
      BY <3>2, <3>3
  <2> QED
    BY <2>1, <2>2
<1>16. Frozen'
  <2> SUFFICES ASSUME NEW c \in Batches, batch'[c].status \in {"ready", "committed"}
               PROVE  /\ {m \in Members : entry'[c][m] # None} = MembersOf(c)
                      /\ batch'[c].hash = job'[c].baseline
    BY DEF Frozen, Covered
  <2>1. c # b
    BY <1>11
  <2> QED
    BY <2>1, <1>11 DEF IndInv, Frozen, Covered
<1> QED
  BY <1>10, <1>13, <1>14, <1>15, <1>16 DEF IndInv

\* finalize: a batch that gets ready has all its entries.
LEMMA FinalizeStep ==
  ASSUME IndInv, NEW w \in Workers, Finalize(w)
  PROVE  IndInv'
<1> DEFINE b == worker[w].batch
<1>1. worker[w].pc = "preparing" /\ b \in Batches /\ b = B(w)
  BY DEF IndInv, TypeOK, Finalize, B
<1>2. /\ worker' \in [Workers -> WorkerStates]
      /\ \A v \in Workers : worker'[v].pc # "idle" =>
           worker'[v].batch \in Batches /\ worker'[v].todo \subseteq Items(worker'[v].batch)
  <2>1. Goto(w, "marking") \/ Goto(w, "closing") \/ Rest(w)
    BY DEF Finalize, After
  <2> QED
    BY <1>1, <2>1, GotoTyped, RestTyped DEF IndInv
<1>3. UNCHANGED <<item, entry, day, lost>>
  BY DEF Finalize
<1>4. /\ job[b] \in JobRows /\ job[b].owner \in {0, job[b].gen} /\ batch[b] \in BatchRows
      /\ job[b].baseline \in Baselines
  BY <1>1 DEF IndInv, TypeOK, JobRows
<1>5. CASE UNCHANGED <<batch, job>>
  <2>1. TypeOK'
    BY <1>2, <1>3, <1>5 DEF IndInv, TypeOK
  <2> QED
    BY <2>1, <1>3, <1>5, FrameStep
<1>6. CASE /\ job' = [job EXCEPT ![b].status = "failed"]
           /\ batch' = [batch EXCEPT ![b].status = "failed"]
  <2> DEFINE j == [job[b] EXCEPT !.status = "failed"]
             r == [batch[b] EXCEPT !.status = "failed"]
  <2>1. /\ j \in JobRows /\ j.owner = job[b].owner /\ j.gen = job[b].gen
        /\ j.baseline = job[b].baseline
    BY <1>4 DEF JobRows
  <2>2. r \in BatchRows /\ r.status = "failed"
    BY <1>4 DEF BatchRows
  <2>3. job' = [job EXCEPT ![b] = j] /\ batch' = [batch EXCEPT ![b] = r]
    BY <1>1, <1>6 DEF IndInv, TypeOK
  <2>4. TypeOK'
    BY <1>1, <1>2, <1>3, <1>4, <2>1, <2>2, <2>3, JobTyped DEF IndInv, TypeOK
  <2>5. \A c \in Batches : job'[c].baseline = job[c].baseline
    BY <1>1, <1>4, <2>1, <2>3, JobTyped DEF IndInv
  <2>6. \A c \in Batches : batch'[c].status \in {"ready", "committed"} => batch'[c] = batch[c]
    BY <1>1, <2>2, <2>3 DEF IndInv, TypeOK
  <2> QED
    BY <1>3, <2>4, <2>5, <2>6, FrameStep
<1>7. CASE /\ Unfinished(b) = {}
           /\ job' = [job EXCEPT ![b].status = "succeeded"]
           /\ batch' = [batch EXCEPT ![b].status = "ready", ![b].hash = job[b].baseline]
  <2> DEFINE j == [job[b] EXCEPT !.status = "succeeded"]
             r == [[batch[b] EXCEPT !.status = "ready"] EXCEPT !.hash = job[b].baseline]
  <2>1. /\ j \in JobRows /\ j.owner = job[b].owner /\ j.gen = job[b].gen
        /\ j.baseline = job[b].baseline
    BY <1>4 DEF JobRows
  <2>2. r \in BatchRows /\ r.hash = job[b].baseline
    BY <1>4 DEF BatchRows
  <2>3. job' = [job EXCEPT ![b] = j] /\ batch' = [batch EXCEPT ![b] = r]
    BY <1>1, <1>7 DEF IndInv, TypeOK
  <2>4. TypeOK'
    BY <1>1, <1>2, <1>3, <1>4, <2>1, <2>2, <2>3, JobTyped DEF IndInv, TypeOK
  <2>5. \A c \in Batches : job'[c].baseline = job[c].baseline
    BY <1>1, <1>4, <2>1, <2>3, JobTyped DEF IndInv
  <2>6. EntriesFromPast' /\ Keyed' /\ PreparedHaveEntries'
    BY <1>3, <2>5 DEF IndInv, EntriesFromPast, Keyed, PreparedHaveEntries
  <2>7. batch'[b].hash = job[b].baseline /\ \A c \in Batches \ {b} : batch'[c] = batch[c]
    BY <1>1, <2>2, <2>3 DEF IndInv, TypeOK
  <2>8. Covered(b) = MembersOf(b)
    <3>1. \A m \in MembersOf(b) : entry[b][m] # None
      <4> SUFFICES ASSUME NEW k \in Items(b), NEW m \in Part[b][k] PROVE entry[b][m] # None
        BY DEF MembersOf
      <4>1. item[b][k] = "succeeded"
        BY <1>7 DEF Unfinished
      <4> QED
        BY <4>1, <1>1 DEF IndInv, PreparedHaveEntries
    <3>2. \A m \in Covered(b) : m \in MembersOf(b)
      BY <1>1 DEF IndInv, EntriesFromPast, Covered
    <3>3. MembersOf(b) \subseteq Members
      BY <1>1, Constants
    <3> QED
      BY <3>1, <3>2, <3>3 DEF Covered
  <2>9. Frozen'
    BY <1>3, <2>5, <2>7, <2>8 DEF IndInv, Frozen, Covered
  <2> QED
    BY <2>4, <2>6, <2>9 DEF IndInv
<1> QED
  BY <1>1, <1>5, <1>6, <1>7 DEF Finalize

\* What a batch that passes the checks of commitBatch adds to each day.
LEMMA PostedCredits ==
  ASSUME IndInv, NEW b \in Batches, Postable(b), NEW m \in Members
  PROVE  /\ m \in Covered(b) <=> m \in MembersOf(b)
         /\ m \in Covered(b) => /\ entry[b][m] = Credit(Points[b][m], day[m].total)
                                /\ entry[b][m] \in 0..Cap
                                /\ day[m].total + entry[b][m] <= Cap
<1>1. Covered(b) = MembersOf(b)
  BY DEF Postable, IndInv, Frozen
<1>2. ASSUME m \in Covered(b)
      PROVE  /\ entry[b][m] = Credit(Points[b][m], day[m].total)
             /\ entry[b][m] \in 0..Cap
             /\ day[m].total + entry[b][m] <= Cap
  <2>1. entry[b][m] # None /\ day[m].total + entry[b][m] <= Cap
    BY <1>2 DEF Covered, Postable, WithinCap
  <2>2. PICK t \in Nat : t <= day[m].total /\ entry[b][m] = Credit(Points[b][m], t)
    BY <2>1 DEF IndInv, EntriesFromPast
  <2>3. day[m].total \in 0..Cap /\ Points[b][m] \in Nat
    BY Constants DEF IndInv, TypeOK, DayStates
  <2>4. entry[b][m] \in 0..Cap
    BY <2>1 DEF IndInv, TypeOK
  <2> QED
    BY <2>1, <2>2, <2>3, <2>4, OldCreditFits, Constants
<1> QED
  BY <1>1, <1>2

\* commitBatch.
LEMMA CommitStep ==
  ASSUME IndInv, NEW w \in Workers, Commit(w)
  PROVE  IndInv'
<1> DEFINE b == worker[w].batch
<1>1. worker[w].pc = "committing" /\ b \in Batches /\ b = B(w)
  BY DEF IndInv, TypeOK, Commit, B
<1>2. /\ worker' \in [Workers -> WorkerStates]
      /\ \A v \in Workers : worker'[v].pc # "idle" =>
           worker'[v].batch \in Batches /\ worker'[v].todo \subseteq Items(worker'[v].batch)
  BY <1>1, GotoTyped DEF Commit, IndInv
<1>3. UNCHANGED <<job, item, entry, lost>>
  BY DEF Commit
<1>4. CASE UNCHANGED <<batch, day>>
  <2>1. TypeOK'
    BY <1>2, <1>3, <1>4 DEF IndInv, TypeOK
  <2> QED
    BY <2>1, <1>3, <1>4, FrameStep
<1>5. CASE /\ Postable(b)
           /\ batch' = [batch EXCEPT ![b].status = "committed"]
           /\ day' = Advanced(b)
  <2> DEFINE r == [batch[b] EXCEPT !.status = "committed"]
  <2>1. batch[b] \in BatchRows /\ batch[b].status = "ready"
    BY <1>1, <1>5 DEF IndInv, TypeOK, Postable
  <2>2. r \in BatchRows /\ r.hash = batch[b].hash
    BY <2>1 DEF BatchRows
  <2>3. batch' = [batch EXCEPT ![b] = r]
    BY <1>1, <1>5 DEF IndInv, TypeOK
  <2>4. \A m \in Members : day'[m] \in DayStates /\ day[m].total <= day'[m].total
    <3> SUFFICES ASSUME NEW m \in Members
                 PROVE  day'[m] \in DayStates /\ day[m].total <= day'[m].total
      OBVIOUS
    <3>1. day[m] \in DayStates
      BY DEF IndInv, TypeOK
    <3>2. CASE m \in Covered(b)
      <4>1. day'[m] = [version |-> day[m].version + 1, total |-> day[m].total + entry[b][m]]
        BY <1>5, <3>2 DEF Advanced
      <4>2. entry[b][m] \in 0..Cap /\ day[m].total + entry[b][m] <= Cap
        BY <1>1, <1>5, <3>2, PostedCredits
      <4> QED
        BY <3>1, <4>1, <4>2, Constants DEF DayStates
    <3>3. CASE m \notin Covered(b)
      <4>1. day'[m] = day[m]
        BY <1>5, <3>3 DEF Advanced
      <4> QED
        BY <3>1, <4>1, Constants DEF DayStates
    <3> QED
      BY <3>2, <3>3
  <2>5. day' \in [Members -> DayStates]
    BY <1>5, <2>4 DEF Advanced
  <2>6. TypeOK'
    BY <1>1, <1>2, <1>3, <2>2, <2>3, <2>5 DEF IndInv, TypeOK
  <2>7. EntriesFromPast'
    <3> SUFFICES ASSUME NEW c \in Batches, NEW m \in Members, entry[c][m] # None
                 PROVE  /\ m \in MembersOf(c)
                        /\ \E t \in Nat : t <= day'[m].total /\ entry[c][m] = Credit(Points[c][m], t)
      BY <1>3 DEF EntriesFromPast
    <3>1. /\ m \in MembersOf(c)
          /\ \E t \in Nat : t <= day[m].total /\ entry[c][m] = Credit(Points[c][m], t)
      BY DEF IndInv, EntriesFromPast
    <3>2. day[m].total \in Nat /\ day'[m].total \in Nat /\ day[m].total <= day'[m].total
      BY <2>4, <2>5, Constants DEF IndInv, TypeOK, DayStates
    <3> QED
      BY <3>1, <3>2
  <2>8. Keyed' /\ PreparedHaveEntries'
    BY <1>3 DEF IndInv, Keyed, PreparedHaveEntries
  <2>9. \A c \in Batches : /\ batch'[c].hash = batch[c].hash
                           /\ c # b => batch'[c] = batch[c]
    BY <1>1, <2>2, <2>3 DEF IndInv, TypeOK
  <2>10. Frozen'
    BY <1>1, <1>3, <2>1, <2>9 DEF IndInv, Frozen, Covered
  <2> QED
    BY <2>6, <2>7, <2>8, <2>10 DEF IndInv
<1> QED
  BY <1>1, <1>4, <1>5 DEF Commit

\* Marking an item failed, or pending again, only makes work.
LEMMA ItemStep ==
  ASSUME IndInv, UNCHANGED <<batch, entry, day>>, TypeOK',
         \A b \in Batches : job'[b].baseline = job[b].baseline,
         \A b \in Batches : \A k \in Items(b) :
            item'[b][k] = "succeeded" => item[b][k] = "succeeded"
  PROVE  IndInv'
<1>1. EntriesFromPast' /\ Keyed' /\ PreparedHaveEntries'
  BY DEF IndInv, EntriesFromPast, Keyed, PreparedHaveEntries
<1>2. Frozen'
  BY DEF IndInv, Frozen, Covered
<1> QED
  BY <1>1, <1>2 DEF IndInv

\* markItemFailed.
LEMMA MarkItemFailedStep ==
  ASSUME IndInv, NEW w \in Workers, NEW k \in worker[w].todo, MarkItemFailed(w, k)
  PROVE  IndInv'
<1> DEFINE b == worker[w].batch
<1>1. worker[w].pc = "failing" /\ b \in Batches /\ b = B(w) /\ k \in Items(b)
  BY DEF IndInv, TypeOK, MarkItemFailed, B
<1>2. /\ worker' \in [Workers -> WorkerStates]
      /\ \A v \in Workers : worker'[v].pc # "idle" =>
           worker'[v].batch \in Batches /\ worker'[v].todo \subseteq Items(worker'[v].batch)
  BY <1>1, GotoTyped DEF MarkItemFailed, IndInv
<1>3. UNCHANGED <<batch, job, entry, day, lost>>
  BY DEF MarkItemFailed
<1>4. /\ DOMAIN item' = Batches
      /\ \A c \in Batches : item'[c] \in [Items(c) -> {"pending", "failed", "succeeded"}]
      /\ \A c \in Batches : \A l \in Items(c) :
            item'[c][l] = "succeeded" => item[c][l] = "succeeded"
  <2>1. CASE item' = item
    BY <2>1 DEF IndInv, TypeOK
  <2>2. CASE item' = [item EXCEPT ![b][k] = "failed"]
    <3>1. /\ DOMAIN item' = Batches
          /\ \A c \in Batches : item'[c] \in [Items(c) -> {"pending", "failed", "succeeded"}]
          /\ item'[b][k] = "failed"
          /\ \A l \in Items(b) \ {k} : item'[b][l] = item[b][l]
          /\ \A c \in Batches \ {b} : item'[c] = item[c]
      BY <1>1, <2>2, ItemTyped DEF IndInv
    <3> QED
      BY <3>1
  <2> QED
    BY <1>1, <2>1, <2>2 DEF MarkItemFailed
<1>5. TypeOK'
  BY <1>2, <1>3, <1>4 DEF IndInv, TypeOK
<1> QED
  BY <1>3, <1>4, <1>5, ItemStep

\* A step that gives one job another status or fence.
LEMMA JobStep ==
  ASSUME IndInv, UNCHANGED <<batch, item, entry, day, lost>>,
         NEW b \in Batches, NEW j \in JobRows, j.owner \in {0, j.gen},
         j.baseline = job[b].baseline,
         job' = [job EXCEPT ![b] = j],
         worker' \in [Workers -> WorkerStates],
         \A v \in Workers : worker'[v].pc # "idle" =>
            worker'[v].batch \in Batches /\ worker'[v].todo \subseteq Items(worker'[v].batch)
  PROVE  IndInv'
<1>1. /\ job' \in [Batches -> JobRows]
      /\ \A c \in Batches : job'[c].owner \in {0, job'[c].gen}
      /\ \A c \in Batches : job'[c].baseline = job[c].baseline
  BY JobTyped DEF IndInv
<1>2. TypeOK'
  BY <1>1 DEF IndInv, TypeOK
<1> QED
  BY <1>1, <1>2, FrameStep

\* Steps of a round that at most give its job back.
LEMMA RoundStep ==
  ASSUME IndInv, NEW w \in Workers,
         \/ ReadItems(w) \/ PrepareFails(w) \/ Release(w) \/ MarkReady(w)
         \/ CommitFails(w) \/ Acknowledge(w) \/ Abandon(w)
         \/ \E k \in worker[w].todo : SkipChunk(w, k)
  PROVE  IndInv'
<1> DEFINE WorkersTyped ==
      /\ worker' \in [Workers -> WorkerStates]
      /\ \A v \in Workers : worker'[v].pc # "idle" =>
           worker'[v].batch \in Batches /\ worker'[v].todo \subseteq Items(worker'[v].batch)
<1>1. worker[w].pc # "idle" /\ B(w) \in Batches
  BY DEF IndInv, TypeOK, B, ReadItems, PrepareFails, Release, MarkReady, CommitFails,
     Acknowledge, Abandon, SkipChunk
<1>2. job[B(w)] \in JobRows /\ job[B(w)].owner \in {0, job[B(w)].gen}
  BY <1>1 DEF IndInv, TypeOK
<1>3. ASSUME WorkersTyped, UNCHANGED <<batch, job, item, entry, day, lost>> PROVE IndInv'
  <2>1. TypeOK'
    BY <1>3 DEF IndInv, TypeOK
  <2> QED
    BY <2>1, <1>3, FrameStep
<1>4. ASSUME WorkersTyped, UNCHANGED <<batch, item, entry, day, lost>>,
             NEW s \in {"pending", "succeeded", "dead", "cancelled"},
             job' = [job EXCEPT ![B(w)] = Unleased(job[B(w)], s)]
      PROVE  IndInv'
  BY <1>1, <1>2, <1>4, UnleasedFields, JobStep
<1>5. CASE ReadItems(w)
  <2> DEFINE left == {k \in Items(B(w)) : item[B(w)][k] # "succeeded"}
             new == [[worker[w] EXCEPT !.pc = "preparing"] EXCEPT !.todo = left]
  <2>1. worker[w] \in WorkerStates /\ worker' = [worker EXCEPT ![w] = new]
    BY <1>5 DEF IndInv, TypeOK, ReadItems
  <2>2. left \subseteq Items(B(w)) /\ left \in SUBSET Nat
    BY DEF Items
  <2>3. new \in WorkerStates /\ new.batch = B(w) /\ new.todo = left
    BY <2>1, <2>2 DEF WorkerStates, B
  <2>4. worker'[w] = new /\ \A v \in Workers \ {w} : worker'[v] = worker[v]
    BY <2>1 DEF IndInv, TypeOK
  <2>5. WorkersTyped
    BY <1>1, <2>1, <2>2, <2>3, <2>4 DEF IndInv, TypeOK
  <2> QED
    BY <1>3, <1>5, <2>5 DEF ReadItems
<1>6. CASE PrepareFails(w) \/ CommitFails(w) \/ Abandon(w)
           \/ \E k \in worker[w].todo : SkipChunk(w, k)
  <2>1. WorkersTyped
    BY <1>1, <1>6, GotoTyped, RestTyped, DoneTyped
       DEF IndInv, PrepareFails, CommitFails, Abandon, SkipChunk
  <2> QED
    BY <1>3, <1>6, <2>1 DEF PrepareFails, CommitFails, Abandon, SkipChunk
<1>7. CASE Release(w) \/ Acknowledge(w)
  <2>1. WorkersTyped
    BY <1>7, RestTyped DEF IndInv, Release, Acknowledge
  <2>2. CASE UNCHANGED job
    BY <1>3, <1>7, <2>1, <2>2 DEF Release, Acknowledge
  <2>3. CASE job' = [job EXCEPT ![B(w)] = Unleased(@, "pending")]
    BY <1>1, <1>4, <1>7, <2>1, <2>3 DEF Release, Acknowledge, IndInv, TypeOK
  <2>4. CASE job' = [job EXCEPT ![B(w)] = Unleased(@, "succeeded")]
    BY <1>1, <1>4, <1>7, <2>1, <2>4 DEF Release, Acknowledge, IndInv, TypeOK
  <2> QED
    BY <1>7, <2>2, <2>3, <2>4 DEF Release, Acknowledge
<1>8. CASE MarkReady(w)
  <2> DEFINE j == [job[B(w)] EXCEPT !.status = "succeeded"]
  <2>1. WorkersTyped
    BY <1>1, <1>8, GotoTyped, RestTyped DEF IndInv, MarkReady
  <2>2. CASE UNCHANGED job
    BY <1>3, <1>8, <2>1, <2>2 DEF MarkReady
  <2>3. CASE job' = [job EXCEPT ![B(w)].status = "succeeded"]
    <3>1. /\ j \in JobRows /\ j.owner = job[B(w)].owner /\ j.gen = job[B(w)].gen
          /\ j.baseline = job[B(w)].baseline
      BY <1>2 DEF JobRows
    <3>2. job' = [job EXCEPT ![B(w)] = j]
      BY <1>1, <2>3 DEF IndInv, TypeOK
    <3> QED
      BY <1>1, <1>2, <1>8, <2>1, <3>1, <3>2, JobStep DEF MarkReady
  <2> QED
    BY <1>8, <2>2, <2>3 DEF MarkReady
<1> QED
  BY <1>5, <1>6, <1>7, <1>8

\* A claim.
LEMMA ClaimStep ==
  ASSUME IndInv, NEW w \in Workers,
         ClaimNothing(w) \/ \E b \in Batches : Claim(w, b)
  PROVE  IndInv'
<1>1. /\ Swept \in [Batches -> JobRows]
      /\ \A b \in Batches : /\ Swept[b].owner \in {0, Swept[b].gen}
                            /\ Swept[b].baseline = job[b].baseline
                            /\ Swept[b].gen = job[b].gen
  BY SweptFields DEF IndInv
<1>2. CASE ClaimNothing(w)
  <2>1. TypeOK'
    BY <1>1, <1>2 DEF IndInv, TypeOK, ClaimNothing
  <2> QED
    BY <1>1, <1>2, <2>1, FrameStep DEF ClaimNothing
<1>3. ASSUME NEW b \in Batches, Claim(w, b) PROVE IndInv'
  <2> DEFINE j == [Swept[b] EXCEPT !.status = "processing", !.attempts = job[b].attempts + 1,
                      !.gen = job[b].gen + 1, !.owner = job[b].gen + 1, !.lease = "running"]
             new == [Resting EXCEPT !.pc = "claimed", !.batch = b, !.claim = job[b].gen + 1]
  <2>1. job' = [Swept EXCEPT ![b] = j] /\ worker' = [worker EXCEPT ![w] = new]
    BY <1>1, <1>3 DEF Claim
  <2>2. job[b].attempts + 1 \in 0..MaxAttempts /\ job[b].gen + 1 \in Nat
    <3>1. job[b] \in JobRows /\ job[b].attempts < MaxAttempts
      BY <1>3 DEF IndInv, TypeOK, Claim, Claimable
    <3> QED
      BY <3>1, Constants DEF JobRows
  <2>3. Swept[b] \in JobRows
    BY <1>1
  <2>4. j \in JobRows /\ j.owner = j.gen /\ j.baseline = Swept[b].baseline
    BY <2>2, <2>3 DEF JobRows
  <2>5. /\ job' \in [Batches -> JobRows]
        /\ \A c \in Batches : job'[c].owner \in {0, job'[c].gen} /\ job'[c].baseline = job[c].baseline
    BY <1>1, <2>1, <2>4
  <2>6. new \in WorkerStates /\ new.batch = b /\ new.todo = {}
    BY <2>2 DEF Resting, WorkerStates
  <2>7. worker' \in [Workers -> WorkerStates]
    BY <2>1, <2>6 DEF IndInv, TypeOK
  <2>8. worker'[w] = new /\ \A v \in Workers \ {w} : worker'[v] = worker[v]
    BY <2>1 DEF IndInv, TypeOK
  <2>9. TypeOK'
    <3>1. UNCHANGED <<batch, item, entry, day, lost>>
      BY <1>3 DEF Claim
    <3>2. ASSUME NEW v \in Workers, worker'[v].pc # "idle"
          PROVE  /\ worker'[v].batch \in Batches
                 /\ worker'[v].todo \subseteq Items(worker'[v].batch)
      <4>1. CASE v = w
        BY <2>6, <2>8, <4>1
      <4>2. CASE v # w
        BY <2>8, <3>2, <4>2 DEF IndInv, TypeOK
      <4> QED
        BY <4>1, <4>2
    <3>3. \A c \in Batches : job'[c].owner \in {0, job'[c].gen}
      BY <2>5
    <3> HIDE DEF j, new
    <3> QED
      BY <2>5, <2>7, <3>1, <3>2, <3>3 DEF IndInv, TypeOK
  <2> QED
    BY <1>3, <2>5, <2>9, FrameStep DEF Claim
<1> QED
  BY <1>2, <1>3

\* Steps of nobody's round.
LEMMA OutsideStep ==
  ASSUME IndInv, NEW b \in Batches,
         FinalApprove(b) \/ EnsureJob(b) \/ Requeue(b) \/ Expire(b) \/ Cancel(b)
  PROVE  IndInv'
<1>1. job[b] \in JobRows /\ job[b].owner \in {0, job[b].gen} /\ batch[b] \in BatchRows
  BY DEF IndInv, TypeOK
<1>2. CASE FinalApprove(b)
  <2> DEFINE r == [batch[b] EXCEPT !.status = "preparing"]
  <2>1. r \in BatchRows /\ r.status = "preparing"
    BY <1>1 DEF BatchRows
  <2>2. batch' = [batch EXCEPT ![b] = r]
    BY <1>2 DEF IndInv, TypeOK, FinalApprove
  <2>3. TypeOK'
    BY <1>2, <2>1, <2>2 DEF IndInv, TypeOK, FinalApprove
  <2>4. \A c \in Batches : batch'[c].status \in {"ready", "committed"} => batch'[c] = batch[c]
    BY <2>1, <2>2 DEF IndInv, TypeOK
  <2> QED
    BY <1>2, <2>3, <2>4, FrameStep DEF FinalApprove
<1>3. ASSUME NEW j \in JobRows, j.owner \in {0, j.gen}, j.baseline = job[b].baseline,
             job' = [job EXCEPT ![b] = j],
             UNCHANGED <<batch, item, entry, day, worker, lost>>
      PROVE  IndInv'
  BY <1>3, JobStep DEF IndInv, TypeOK
<1>4. CASE EnsureJob(b) \/ Requeue(b)
  <2> DEFINE j == [job[b] EXCEPT !.status = "pending"]
  <2>1. /\ j \in JobRows /\ j.owner = job[b].owner /\ j.gen = job[b].gen
        /\ j.baseline = job[b].baseline
    BY <1>1 DEF JobRows
  <2>2. job' = [job EXCEPT ![b] = j]
    BY <1>4 DEF IndInv, TypeOK, EnsureJob, Requeue
  <2> QED
    BY <1>1, <1>3, <1>4, <2>1, <2>2 DEF EnsureJob, Requeue
<1>5. CASE Expire(b)
  <2> DEFINE j == [job[b] EXCEPT !.lease = "expired"]
  <2>1. /\ j \in JobRows /\ j.owner = job[b].owner /\ j.gen = job[b].gen
        /\ j.baseline = job[b].baseline
    BY <1>1 DEF JobRows
  <2>2. job' = [job EXCEPT ![b] = j]
    BY <1>5 DEF IndInv, TypeOK, Expire
  <2> QED
    BY <1>1, <1>3, <1>5, <2>1, <2>2 DEF Expire
<1>6. CASE Cancel(b)
  <2>1. job' = [job EXCEPT ![b] = Unleased(job[b], "cancelled")]
    BY <1>6 DEF IndInv, TypeOK, Cancel
  <2> QED
    BY <1>1, <1>3, <1>6, <2>1, UnleasedFields DEF Cancel
<1> QED
  BY <1>2, <1>4, <1>5, <1>6

LEMMA NextIndInv == IndInv /\ [Next]_vars => IndInv'
<1> SUFFICES ASSUME IndInv, [Next]_vars PROVE IndInv'
  OBVIOUS
<1>1. CASE UNCHANGED vars
  <2>1. TypeOK'
    BY <1>1 DEF IndInv, TypeOK, vars
  <2> QED
    BY <1>1, <2>1, FrameStep DEF vars
<1>2. CASE \E b \in Batches : FinalApprove(b) \/ Poll(b) \/ Expire(b) \/ Cancel(b)
  BY <1>2, OutsideStep DEF Poll
<1>3. ASSUME NEW w \in Workers, Work(w) \/ Abandon(w) PROVE IndInv'
  BY <1>3, ClaimStep, RoundStep, PrepareStep, MarkItemFailedStep, FinalizeStep, CommitStep
     DEF Work, Prepare
<1> QED
  BY <1>1, <1>2, <1>3 DEF Next

-----------------------------------------------------------------------------

\* The inductive invariant holds throughout.
THEOREM Invariance == Spec => []IndInv
  BY InitIndInv, NextIndInv, PTL DEF Spec

\* Attempts are bounded, no day total passes the cap, the owner of a job is its
\* latest claim.
THEOREM TypeCorrect == Spec => []TypeOK
<1>1. IndInv => TypeOK
  BY DEF IndInv
<1> QED
  BY <1>1, Invariance, PTL

\* A ready batch has its entries and a complete baseline nobody touches again,
\* although finalize does not ask for the fence.
THEOREM ReadyComplete == Spec => []ReadyIsComplete
<1>1. IndInv => ReadyIsComplete
  <2> SUFFICES ASSUME IndInv, NEW b \in Batches, batch[b].status \in {"ready", "committed"}
               PROVE  Covered(b) = MembersOf(b) /\ BaselineIntact(b)
    BY DEF ReadyIsComplete
  <2>1. Covered(b) = MembersOf(b) /\ batch[b].hash = job[b].baseline
    BY DEF IndInv, Frozen
  <2>2. \A m \in Members : job[b].baseline[m] # None <=> m \in Covered(b)
    BY DEF IndInv, Keyed, Covered
  <2> QED
    BY <2>1, <2>2 DEF BaselineIntact
<1> QED
  BY <1>1, Invariance, PTL

-----------------------------------------------------------------------------
(* The ledger implements its abstract specification. *)

\* A step that posts nothing and moves no day is a stutter.
LEMMA Stutter ==
  ASSUME UNCHANGED day,
         \A b \in Batches : batch'[b].status = "committed" <=> batch[b].status = "committed"
  PROVE  UNCHANGED Ledger!vars
<1>1. {b \in Batches : batch'[b].status = "committed"} = {b \in Batches : batch[b].status = "committed"}
  OBVIOUS
<1>2. [m \in Members |-> day'[m].total] = [m \in Members |-> day[m].total]
  OBVIOUS
<1> QED
  BY <1>1, <1>2 DEF Ledger!vars

\* A commit posts its batch whole, for what the cap leaves now, or changes nothing.
LEMMA CommitPosts ==
  ASSUME IndInv, NEW w \in Workers, Commit(w)
  PROVE  (\E b \in Batches : Ledger!Post(b)) \/ UNCHANGED Ledger!vars
<1>0. B(w) \in Batches
  BY DEF IndInv, TypeOK, Commit, B
<1> SUFFICES ASSUME NEW b \in Batches, b = B(w)
             PROVE  (\E c \in Batches : Ledger!Post(c)) \/ UNCHANGED Ledger!vars
  BY <1>0
<1>1. b \in Batches /\ b = B(w)
  OBVIOUS
<1>2. CASE UNCHANGED <<batch, day>>
  BY <1>2, Stutter
<1>3. CASE /\ Postable(b)
           /\ batch' = [batch EXCEPT ![b].status = "committed"]
           /\ day' = Advanced(b)
  <2>1. batch[b].status = "ready" /\ batch[b] \in BatchRows
    BY <1>1, <1>3 DEF Postable, IndInv, TypeOK
  <2>2. batch'[b].status = "committed" /\ \A c \in Batches \ {b} : batch'[c] = batch[c]
    BY <1>1, <1>3, <2>1 DEF IndInv, TypeOK, BatchRows
  <2>3. {c \in Batches : batch'[c].status = "committed"}
          = {c \in Batches : batch[c].status = "committed"} \cup {b}
    BY <1>1, <2>2
  <2>4. b \notin {c \in Batches : batch[c].status = "committed"}
    BY <2>1
  <2>5. Covered(b) = MembersOf(b)
    BY <1>1, <2>1 DEF IndInv, Frozen
  <2>6. ASSUME NEW m \in Members
        PROVE  day'[m].total = IF m \in MembersOf(b)
                               THEN day[m].total + Ledger!Credit(Points[b][m], day[m].total)
                               ELSE day[m].total
    <3>1. CASE m \in Covered(b)
      <4>1. day'[m].total = day[m].total + entry[b][m]
        BY <1>3, <3>1 DEF Advanced
      <4>2. entry[b][m] = Credit(Points[b][m], day[m].total)
        BY <1>1, <1>3, <3>1, PostedCredits
      <4> QED
        BY <3>1, <4>1, <4>2, <2>5 DEF Credit, Ledger!Credit
    <3>2. CASE m \notin Covered(b)
      BY <1>3, <3>2, <2>5 DEF Advanced
    <3> QED
      BY <3>1, <3>2
  <2>7. [m \in Members |-> day'[m].total] =
          [m \in Members |-> IF m \in MembersOf(b)
             THEN [n \in Members |-> day[n].total][m]
                    + Ledger!Credit(Points[b][m], [n \in Members |-> day[n].total][m])
             ELSE [n \in Members |-> day[n].total][m]]
    BY <2>6
  <2>8. [c \in Batches |-> MembersOf(c)][b] = MembersOf(b)
    BY <1>1
  <2>9. Ledger!Post(b)
    BY <2>3, <2>4, <2>7, <2>8 DEF Ledger!Post
  <2> QED
    BY <2>9
<1> QED
  BY <1>1, <1>2, <1>3 DEF Commit

\* No other step posts or un-posts a batch, or moves a day.
LEMMA NextPosts ==
  ASSUME IndInv, [Next]_vars
  PROVE  [Ledger!Next]_(Ledger!vars)
<1>1. CASE UNCHANGED vars
  BY <1>1, Stutter DEF vars
<1>2. ASSUME NEW b \in Batches,
             FinalApprove(b) \/ Poll(b) \/ Expire(b) \/ Cancel(b)
      PROVE  UNCHANGED Ledger!vars
  <2>1. CASE FinalApprove(b)
    <3>1. \A c \in Batches : c # b => batch'[c] = batch[c]
      BY <2>1 DEF FinalApprove, IndInv, TypeOK
    <3>2. batch[b].status = "absent" /\ batch'[b].status = "preparing"
      BY <2>1 DEF FinalApprove, IndInv, TypeOK, BatchRows
    <3> QED
      BY <2>1, <3>1, <3>2, Stutter DEF FinalApprove
  <2>2. CASE Poll(b) \/ Expire(b) \/ Cancel(b)
    BY <2>2, Stutter DEF Poll, EnsureJob, Requeue, Expire, Cancel
  <2> QED
    BY <1>2, <2>1, <2>2
<1>3. ASSUME NEW w \in Workers, Work(w) \/ Abandon(w)
      PROVE  (\E b \in Batches : Ledger!Post(b)) \/ UNCHANGED Ledger!vars
  <2>1. CASE Commit(w)
    BY <2>1, CommitPosts
  <2>2. CASE Finalize(w)
    <3>1. worker[w].batch \in Batches
      BY <2>2 DEF Finalize, IndInv, TypeOK
    <3>2. CASE UNCHANGED batch
      BY <2>2, <3>2, Stutter DEF Finalize
    <3>3. ASSUME NEW s \in {"failed", "ready"}, NEW h,
                 batch[B(w)].status = "preparing",
                 batch' = [batch EXCEPT ![B(w)].status = s, ![B(w)].hash = h]
                   \/ batch' = [batch EXCEPT ![B(w)].status = s]
          PROVE  UNCHANGED Ledger!vars
      <4>1. batch'[B(w)].status = s /\ \A c \in Batches : c # B(w) => batch'[c] = batch[c]
        BY <3>1, <3>3 DEF IndInv, TypeOK, BatchRows, B
      <4> QED
        BY <2>2, <3>3, <4>1, Stutter DEF Finalize
    <3> QED
      BY <2>2, <3>2, <3>3 DEF Finalize
  <2>3. ASSUME NEW k \in worker[w].todo, PrepareChunk(w, k) PROVE UNCHANGED Ledger!vars
    <3>1. \A c \in Batches : batch'[c].status = batch[c].status
      BY <2>3 DEF PrepareChunk, IndInv, TypeOK, BatchRows
    <3> QED
      BY <2>3, <3>1, Stutter DEF PrepareChunk
  <2>4. ASSUME NEW k \in worker[w].todo, SkipChunk(w, k) \/ MarkItemFailed(w, k)
        PROVE  UNCHANGED Ledger!vars
    BY <2>4, Stutter DEF SkipChunk, MarkItemFailed
  <2>5. CASE \/ \E b \in Batches : Claim(w, b)
             \/ ClaimNothing(w) \/ ReadItems(w) \/ PrepareFails(w) \/ Release(w)
             \/ MarkReady(w) \/ CommitFails(w) \/ Acknowledge(w) \/ Abandon(w)
    BY <2>5, Stutter DEF Claim, ClaimNothing, ReadItems, PrepareFails, Release, MarkReady,
       CommitFails, Acknowledge, Abandon
  <2> QED
    BY <1>3, <2>1, <2>2, <2>3, <2>4, <2>5 DEF Work, Prepare
<1> QED
  BY <1>1, <1>2, <1>3 DEF Next, Ledger!Next

\* Every behaviour of the job, with its chunks, leases, crashes and races, is one
\* of the abstract ledger: whole, at most once, for what the cap leaves.
THEOREM Refinement == Spec => ImplementsAtomicPosting
<1>1. Init => Ledger!Init
  <2> SUFFICES ASSUME Init PROVE Ledger!Init
    OBVIOUS
  <2>1. {b \in Batches : batch[b].status = "committed"} = {}
    BY DEF Init, NoBatchRow
  <2>2. [m \in Members |-> day[m].total] = [m \in Members |-> 0]
    BY DEF Init
  <2> QED
    BY <2>1, <2>2 DEF Ledger!Init
<1>2. IndInv /\ [Next]_vars => [Ledger!Next]_(Ledger!vars)
  BY NextPosts
<1> QED
  BY <1>1, <1>2, Invariance, PTL DEF Spec, ImplementsAtomicPosting, Ledger!Spec
=============================================================================
