----------------------- MODULE NotificationOutboxProofs -----------------------
(***************************************************************************)
(* Proofs about NotificationOutbox, for every set of intents, processes    *)
(* and drains, every lease and back-off that satisfies the assumptions.    *)
(*                                                                         *)
(* None of the invariants is inductive alone.  IndInv adds what ties a     *)
(* drain's memory to the row it works on: how the row's clock readings lie *)
(* against those of every attempt ever made at it (Order), and what an     *)
(* attempt knows that lost its fence (Lapsed).                             *)
(***************************************************************************)
EXTENDS NotificationOutbox, FiniteSetTheorems, TLAPS

Busy(d) == drain[d].pc # "idle"

RowOK(i) ==
    /\ row[i].status = "processing" =>
          /\ row[i].attempts >= 1
          /\ row[i].owner \in Procs
          /\ row[i].lockedAt <= clock
          /\ row[i].lockedAt < row[i].expiresAt
          /\ row[i].expiresAt <= clock + Lease
    /\ row[i].status = "pending" =>
          /\ row[i].attempts < MaxAttempts
          /\ i \notin Roots => row[i].availableAt + Base <= clock + BackoffMax
    /\ row[i].status = "absent" => row[i].attempts = 0

DrainOK(d) ==
    /\ drain[d].pc = "idle" => drain[d] = Idle
    /\ Busy(d) => /\ drain[d].intent \in Intents
                  /\ drain[d].attempts \in 1..MaxAttempts
                  /\ drain[d].lockedAt <= clock
                  /\ row[drain[d].intent].status # "absent"
    /\ drain[d].pc = "settling" => drain[d].outcome # "none"
    /\ drain[d].pc = "armed" => drain[d].intent \notin Roots
    /\ drain[d].pc = "expanding" => drain[d].intent \in Roots
    /\ drain[d].pc = "settling" /\ drain[d].outcome = "conflict" =>
          /\ drain[d].intent \in Roots
          /\ drain[d].horizon + Base <= clock + BackoffMax

\* No attempt at a row is younger than the row's own claim or its next one.
Order(d) ==
    Busy(d) =>
      /\ row[drain[d].intent].status = "processing" =>
            drain[d].lockedAt <= row[drain[d].intent].lockedAt
      /\ row[drain[d].intent].status = "pending" =>
            drain[d].lockedAt < row[drain[d].intent].availableAt
      /\ drain[d].intent \notin Roots => drain[d].attempts <= row[drain[d].intent].attempts

\* What an attempt believes of its lease is true while it is fenced, and over
\* once it is not.
Lapsed(d) ==
    Busy(d) =>
      /\ Fenced(d) => /\ drain[d].attempts = row[drain[d].intent].attempts
                      /\ drain[d].until <= row[drain[d].intent].expiresAt
      /\ ~Fenced(d) => drain[d].until <= clock

AttemptsDistinct ==
    \A d, e \in Drains :
        d # e /\ Busy(d) /\ Busy(e) /\ drain[d].intent = drain[e].intent
        /\ drain[d].intent \notin Roots
        => drain[d].attempts # drain[e].attempts

EffectsOK ==
    /\ \A i \in Intents, n \in 1..MaxAttempts :
          /\ effects[i][n] <= 1
          /\ n > row[i].attempts => effects[i][n] = 0
          /\ i \in Roots => effects[i][n] = 0
    /\ \A d \in Drains :
          drain[d].pc \in {"claimed", "running", "armed"}
          => effects[drain[d].intent][drain[d].attempts] = 0

IndInv ==
    /\ TypeOK
    /\ \A i \in Intents : RowOK(i)
    /\ \A d \in Drains : DrainOK(d)
    /\ \A d \in Drains : Order(d)
    /\ \A d \in Drains : Lapsed(d)
    /\ FenceIdentifiesAttempt
    /\ AttemptsDistinct
    /\ EffectsOK
    /\ ActiveSlotUnique

-----------------------------------------------------------------------------

\* The numeric constants, without the back-off schedule.
LEMMA Numbers ==
    /\ MaxAttempts \in Nat /\ MaxAttempts >= 1
    /\ Lease \in Nat /\ Lease >= 1
    /\ Base \in Nat /\ Base >= 1
    /\ BackoffMax \in Nat
    /\ Lease + Base <= BackoffMax
  BY TimingAssumption

\* The record a producer inserts.
LEMMA PendingRowFields ==
  ASSUME clock \in Nat
  PROVE  /\ PendingRow \in Rows
         /\ PendingRow.status = "pending"
         /\ PendingRow.attempts = 0
         /\ PendingRow.availableAt = clock
<1>1. NoRow \in Rows /\ NoRow.attempts = 0
  BY Numbers DEF NoRow, Rows
<1>2. ASSUME NEW r \in Rows
      PROVE  LET nr == [r EXCEPT !.status = "pending", !.availableAt = clock]
             IN nr \in Rows /\ nr.status = "pending" /\ nr.attempts = r.attempts
                /\ nr.availableAt = clock
  BY DEF Rows
<1> QED
  BY <1>1, <1>2 DEF PendingRow

\* What clearing the fence leaves of a row.
LEMMA UnfencedFields ==
  ASSUME NEW r \in Rows, NEW s \in {"pending", "succeeded", "dead"}
  PROVE  /\ Unfenced(r, s) \in Rows
         /\ Unfenced(r, s).status = s
         /\ Unfenced(r, s).attempts = r.attempts
         /\ Unfenced(r, s).availableAt = r.availableAt
  BY DEF Unfenced, Rows

\* Initially there are no rows and every drain is idle.
LEMMA InitIndInv == Init => IndInv
<1> SUFFICES ASSUME Init PROVE IndInv
  OBVIOUS
<1> USE ShapeAssumption, TimingAssumption
<1>1. TypeOK
  BY DEF Init, TypeOK, NoRow, Idle, Rows, DrainStates
<1>2. \A d \in Drains : drain[d] = Idle /\ ~Busy(d)
  BY DEF Init, Busy, Idle
<1>3. \A i \in Intents : RowOK(i)
  BY DEF Init, RowOK, NoRow
<1>4. \A d \in Drains : DrainOK(d) /\ Order(d) /\ Lapsed(d)
  <2> TAKE d \in Drains
  <2>1. drain[d].pc = "idle"
    BY <1>2 DEF Idle
  <2> QED
    BY <1>2, <2>1 DEF DrainOK, Order, Lapsed, Busy
<1>5. FenceIdentifiesAttempt /\ AttemptsDistinct
  BY <1>2 DEF FenceIdentifiesAttempt, AttemptsDistinct, Idle
<1>6. EffectsOK
  BY <1>2 DEF Init, EffectsOK, Idle
<1>7. ActiveSlotUnique
  BY DEF Init, ActiveSlotUnique, NoRow, Active
<1> QED
  BY <1>1, <1>3, <1>4, <1>5, <1>6, <1>7 DEF IndInv

LEMMA EnqueueIndInv ==
  ASSUME IndInv, NEW i \in Intents, Enqueue(i) PROVE IndInv'
<1> DEFINE nr == PendingRow
<1>0. /\ nr \in Rows /\ nr.status = "pending" /\ nr.attempts = 0 /\ nr.availableAt = clock
      /\ row' = [row EXCEPT ![i] = nr]
      /\ row[i].status = "absent"
      /\ SlotFree(i)
      /\ UNCHANGED <<clock, proc, drain, effects>>
  BY PendingRowFields DEF IndInv, TypeOK, Enqueue
<1> HIDE DEF nr
<1>1. TypeOK'
  BY <1>0 DEF IndInv, TypeOK
<1>2. \A j \in Intents : RowOK(j)'
  BY <1>0, Numbers DEF IndInv, TypeOK, RowOK
<1>3. \A d \in Drains : DrainOK(d)'
  BY <1>0 DEF IndInv, TypeOK, DrainOK, Busy
<1>4. \A d \in Drains : Order(d)'
  BY <1>0 DEF IndInv, TypeOK, DrainOK, Order, Busy
<1>5. \A d \in Drains : Lapsed(d)'
  BY <1>0 DEF IndInv, TypeOK, DrainOK, Lapsed, Fenced, Busy
<1>6. FenceIdentifiesAttempt' /\ AttemptsDistinct'
  BY <1>0 DEF IndInv, FenceIdentifiesAttempt, AttemptsDistinct, Busy
<1>7. EffectsOK'
  BY <1>0 DEF IndInv, TypeOK, EffectsOK, RowOK
<1>8. ActiveSlotUnique'
  BY <1>0 DEF IndInv, TypeOK, ActiveSlotUnique, SlotFree, Active
<1> QED
  BY <1>1, <1>2, <1>3, <1>4, <1>5, <1>6, <1>7, <1>8 DEF IndInv

-----------------------------------------------------------------------------
(* Three shapes of step, each used by several actions. *)

\* A drain moves on without touching the database.
LEMMA LocalStep ==
  ASSUME IndInv, NEW d \in Drains, Busy(d), NEW nd \in DrainStates,
         nd.pc # "idle",
         nd.intent = drain[d].intent, nd.lockedAt = drain[d].lockedAt,
         nd.attempts = drain[d].attempts, nd.until = drain[d].until,
         nd.pc = "settling" => nd.outcome # "none",
         nd.pc = "expanding" => nd.intent \in Roots,
         nd.pc \in {"claimed", "running", "armed"} => drain[d].pc \in {"claimed", "running", "armed"},
         nd.pc = "armed" => drain[d].pc = "armed",
         nd.pc = "settling" /\ nd.outcome = "conflict" =>
            nd.intent \in Roots /\ nd.horizon + Base <= clock + BackoffMax,
         drain' = [drain EXCEPT ![d] = nd],
         UNCHANGED <<clock, row, proc, effects>>
  PROVE  IndInv'
<1>1. TypeOK'
  BY DEF IndInv, TypeOK
<1>2. \A j \in Intents : RowOK(j)'
  BY DEF IndInv, RowOK
<1>3. /\ drain'[d] = nd
      /\ \A e \in Drains : e # d => drain'[e] = drain[e]
      /\ \A e \in Drains : Busy(e)' = Busy(e) /\ Fenced(e)' = Fenced(e)
      /\ \A e \in Drains : /\ drain'[e].intent = drain[e].intent
                            /\ drain'[e].lockedAt = drain[e].lockedAt
                            /\ drain'[e].attempts = drain[e].attempts
                            /\ drain'[e].until = drain[e].until
  BY DEF IndInv, TypeOK, Busy, Fenced
<1>4. \A e \in Drains : DrainOK(e)'
  <2> TAKE e \in Drains
  <2>1. CASE e = d
    BY <2>1, <1>3 DEF IndInv, DrainOK, Busy
  <2>2. CASE e # d
    BY <2>2, <1>3 DEF IndInv, DrainOK, Busy
  <2> QED BY <2>1, <2>2
<1>5. \A e \in Drains : Order(e)' /\ Lapsed(e)'
  BY <1>3 DEF IndInv, Order, Lapsed
<1>6. FenceIdentifiesAttempt' /\ AttemptsDistinct'
  BY <1>3 DEF IndInv, FenceIdentifiesAttempt, AttemptsDistinct
<1>7. EffectsOK'
  BY <1>3 DEF IndInv, EffectsOK
<1>8. ActiveSlotUnique'
  BY DEF IndInv, ActiveSlotUnique
<1> QED
  BY <1>1, <1>2, <1>4, <1>5, <1>6, <1>7, <1>8 DEF IndInv

\* Drains fall idle and the database does not change.
LEMMA IdleStep ==
  ASSUME IndInv, NEW D \in SUBSET Drains,
         drain' = [d \in Drains |-> IF d \in D THEN Idle ELSE drain[d]],
         proc' \in [Procs -> {"up", "stopping", "down"}],
         UNCHANGED <<clock, row, effects>>
  PROVE  IndInv'
<1>1. Idle \in DrainStates /\ Idle.pc = "idle" /\ Idle.intent = NoIntent
  BY Numbers DEF Idle, DrainStates
<1>2. TypeOK'
  BY <1>1 DEF IndInv, TypeOK
<1>3. \A j \in Intents : RowOK(j)'
  BY DEF IndInv, RowOK
<1>4. \A e \in Drains : /\ Busy(e)' => Busy(e) /\ drain'[e] = drain[e]
                        /\ ~Busy(e)' => drain'[e] = Idle
  BY <1>1 DEF IndInv, DrainOK, Busy
<1>5. \A e \in Drains : DrainOK(e)'
  BY <1>1, <1>4 DEF IndInv, DrainOK, Busy
<1>6. \A e \in Drains : Order(e)' /\ Lapsed(e)'
  BY <1>4 DEF IndInv, Order, Lapsed, Fenced
<1>7. FenceIdentifiesAttempt'
  BY <1>1, <1>4 DEF IndInv, FenceIdentifiesAttempt
<1>8. AttemptsDistinct'
  BY <1>4 DEF IndInv, AttemptsDistinct
<1>9. EffectsOK'
  BY <1>1, <1>4 DEF IndInv, EffectsOK, Busy
<1>10. ActiveSlotUnique'
  BY DEF IndInv, ActiveSlotUnique
<1> QED
  BY <1>2, <1>3, <1>5, <1>6, <1>7, <1>8, <1>9, <1>10 DEF IndInv

\* renewLease succeeds: the row's expiry and the drain's belief move together.
LEMMA RenewStep ==
  ASSUME IndInv, NEW d \in Drains, Busy(d), Held(d),
         NEW pc \in {"running", "expanding", "armed", "settling"},
         pc # drain[d].pc => /\ drain[d].pc \in {"claimed", "running"}
                             /\ pc = "armed" => drain[d].intent \notin Roots
                             /\ pc \notin {"expanding", "settling"},
         row' = Renewed(d),
         drain' = [drain EXCEPT ![d] = [@ EXCEPT !.pc = pc, !.until = clock + Lease]],
         UNCHANGED <<clock, proc, effects>>
  PROVE  IndInv'
<1> DEFINE i == drain[d].intent
           nr == [row[i] EXCEPT !.expiresAt = clock + Lease]
           nd == [drain[d] EXCEPT !.pc = pc, !.until = clock + Lease]
<1>1. /\ i \in Intents /\ row[i] \in Rows /\ drain[d] \in DrainStates /\ clock \in Nat
      /\ row' = [row EXCEPT ![i] = nr]
      /\ drain' = [drain EXCEPT ![d] = nd]
  BY DEF IndInv, TypeOK, Held, Fenced, Renewed
<1>2. /\ nr \in Rows /\ nr.expiresAt = clock + Lease
      /\ nr.status = row[i].status /\ nr.attempts = row[i].attempts
      /\ nr.owner = row[i].owner /\ nr.lockedAt = row[i].lockedAt
      /\ nr.availableAt = row[i].availableAt
  BY <1>1, Numbers DEF Rows
<1>3. /\ nd \in DrainStates /\ nd.pc = pc /\ nd.until = clock + Lease
      /\ nd.intent = i /\ nd.attempts = drain[d].attempts
      /\ nd.lockedAt = drain[d].lockedAt /\ nd.outcome = drain[d].outcome
      /\ nd.horizon = drain[d].horizon
  <2>1. pc \in {"idle", "claimed", "running", "expanding", "armed", "settling"}
        /\ clock + Lease \in Nat
    BY <1>1, Numbers
  <2>2. nd \in DrainStates
    BY <2>1, <1>1 DEF DrainStates
  <2> QED BY <2>2, <1>1 DEF DrainStates
<1> HIDE DEF nr, nd
<1>4. TypeOK'
  BY <1>1, <1>2, <1>3 DEF IndInv, TypeOK
<1>5. row[i].status = "processing" /\ row[i].expiresAt > clock /\ row[i].lockedAt <= clock
  BY <1>1 DEF Held, Fenced, IndInv, RowOK
<1>6. \A j \in Intents : RowOK(j)'
  <2> TAKE j \in Intents
  <2>1. CASE j = i
    <3>1. row'[j] = nr
      BY <2>1, <1>1 DEF IndInv, TypeOK
    <3>2. RowOK(i) /\ row[i].lockedAt \in Nat
      BY <1>1 DEF IndInv, Rows
    <3> QED BY <2>1, <3>1, <3>2, <1>1, <1>2, <1>5, Numbers DEF RowOK
  <2>2. CASE j # i
    BY <2>2, <1>1 DEF IndInv, TypeOK, RowOK
  <2> QED BY <2>1, <2>2
<1>7. \A e \in Drains : /\ Busy(e)' = Busy(e) /\ Fenced(e)' = Fenced(e)
                        /\ drain'[e].intent = drain[e].intent
                        /\ drain'[e].lockedAt = drain[e].lockedAt
                        /\ drain'[e].attempts = drain[e].attempts
                        /\ e # d => drain'[e] = drain[e]
  BY <1>1, <1>2, <1>3 DEF IndInv, TypeOK, Busy, Fenced
<1>8. \A j \in Intents : /\ row'[j].status = row[j].status
                         /\ row'[j].attempts = row[j].attempts
                         /\ row'[j].lockedAt = row[j].lockedAt
                         /\ row'[j].availableAt = row[j].availableAt
                         /\ j # i => row'[j] = row[j]
  BY <1>1, <1>2 DEF IndInv, TypeOK
<1>9. \A e \in Drains : DrainOK(e)'
  <2> TAKE e \in Drains
  <2>1. CASE e = d
    BY <2>1, <1>1, <1>3, <1>7, <1>8 DEF IndInv, TypeOK, DrainOK, Busy
  <2>2. CASE e # d
    BY <2>2, <1>7, <1>8 DEF IndInv, DrainOK, Busy
  <2> QED BY <2>1, <2>2
<1>10. \A e \in Drains : Order(e)'
  BY <1>7, <1>8 DEF IndInv, DrainOK, Order
<1>11. \A e \in Drains : Lapsed(e)'
  <2> SUFFICES ASSUME NEW e \in Drains, Busy(e) PROVE Lapsed(e)'
    BY <1>7 DEF Lapsed
  <2>1. CASE e = d
    <3>1. row'[i] = nr /\ drain'[d] = nd /\ Fenced(d) /\ Lapsed(d)
      BY <1>1 DEF IndInv, TypeOK, Held
    <3> QED BY <2>1, <3>1, <1>1, <1>2, <1>3, <1>7, Numbers DEF Lapsed
  <2>2. CASE e # d /\ drain[e].intent = i
    <3>1. ~Fenced(e)
      BY <2>2, <1>1, ShapeAssumption DEF IndInv, FenceIdentifiesAttempt, Fenced, Held
    <3> QED BY <3>1, <2>2, <1>7 DEF IndInv, Lapsed
  <2>3. CASE drain[e].intent # i
    BY <2>3, <1>7, <1>8 DEF IndInv, DrainOK, Lapsed
  <2> QED BY <2>1, <2>2, <2>3
<1>12. FenceIdentifiesAttempt' /\ AttemptsDistinct'
  BY <1>7 DEF IndInv, FenceIdentifiesAttempt, AttemptsDistinct
<1>13. EffectsOK'
  <2>1. nd.pc \in {"claimed", "running", "armed"} => drain[d].pc \in {"claimed", "running", "armed"}
    BY <1>3
  <2> QED BY <2>1, <1>1, <1>3, <1>7, <1>8 DEF IndInv, TypeOK, EffectsOK
<1>14. ActiveSlotUnique'
  BY <1>8 DEF IndInv, ActiveSlotUnique
<1> QED
  BY <1>4, <1>6, <1>9, <1>10, <1>11, <1>12, <1>13, <1>14 DEF IndInv

-----------------------------------------------------------------------------
(* The actions of an attempt. *)

LEMMA SingleIdle ==
  ASSUME IndInv, NEW d \in Drains, drain' = [drain EXCEPT ![d] = Idle],
         UNCHANGED <<clock, row, proc, effects>>
  PROVE  IndInv'
<1>1. drain' = [e \in Drains |-> IF e \in {d} THEN Idle ELSE drain[e]]
  BY DEF IndInv, TypeOK
<1>2. proc' \in [Procs -> {"up", "stopping", "down"}]
  BY DEF IndInv, TypeOK
<1> QED
  BY <1>1, <1>2, IdleStep

LEMMA StartIndInv ==
  ASSUME IndInv, NEW d \in Drains, Start(d) PROVE IndInv'
<1>1. CASE /\ Held(d)
           /\ row' = Renewed(d)
           /\ drain' = [drain EXCEPT ![d] = [@ EXCEPT !.pc = "running", !.until = clock + Lease]]
  BY <1>1, RenewStep DEF Start, Busy
<1>2. CASE drain' = [drain EXCEPT ![d] = Idle] /\ UNCHANGED row
  BY <1>2, SingleIdle DEF Start
<1> QED
  BY <1>1, <1>2 DEF Start

LEMMA HeartbeatIndInv ==
  ASSUME IndInv, NEW d \in Drains, Heartbeat(d) PROVE IndInv'
<1>1. CASE /\ Held(d)
           /\ row' = Renewed(d)
           /\ drain' = [drain EXCEPT ![d] = [@ EXCEPT !.until = clock + Lease]]
  <2> DEFINE pc == drain[d].pc
  <2>1. pc \in {"running", "expanding", "armed", "settling"} /\ Busy(d)
    BY DEF Heartbeat, Busy
  <2>2. drain' = [drain EXCEPT ![d] = [@ EXCEPT !.pc = pc, !.until = clock + Lease]]
    <3>1. drain[d] \in DrainStates
      BY DEF IndInv, TypeOK
    <3>2. [drain[d] EXCEPT !.until = clock + Lease]
            = [drain[d] EXCEPT !.pc = pc, !.until = clock + Lease]
      BY <3>1 DEF DrainStates
    <3> QED BY <1>1, <3>2 DEF Heartbeat, IndInv, TypeOK
  <2>3. row' = Renewed(d) /\ UNCHANGED <<clock, proc, effects>>
    BY <1>1 DEF Heartbeat
  <2> HIDE DEF pc
  <2>4. pc = drain[d].pc
    BY DEF pc
  <2> QED
    BY <1>1, <2>1, <2>2, <2>3, <2>4, RenewStep
<1>2. CASE /\ drain[d].pc # "settling"
           /\ drain' = [drain EXCEPT ![d] = [@ EXCEPT !.lost = TRUE]]
           /\ UNCHANGED row
  <2> DEFINE nd == [drain[d] EXCEPT !.lost = TRUE]
  <2>1. /\ nd \in DrainStates /\ nd.pc = drain[d].pc /\ nd.intent = drain[d].intent
        /\ nd.lockedAt = drain[d].lockedAt /\ nd.attempts = drain[d].attempts
        /\ nd.until = drain[d].until
    BY DEF IndInv, TypeOK, DrainStates
  <2>2. drain' = [drain EXCEPT ![d] = nd] /\ UNCHANGED <<clock, row, proc, effects>>
    BY <1>2 DEF Heartbeat
  <2>3. Busy(d) /\ nd.pc # "idle" /\ nd.pc # "settling" /\ DrainOK(d)
    BY <1>2, <2>1 DEF Heartbeat, Busy, IndInv
  <2> HIDE DEF nd
  <2>4. nd.pc = "expanding" => nd.intent \in Roots
    BY <2>1, <2>3 DEF DrainOK
  <2> QED
    BY <2>1, <2>2, <2>3, <2>4, LocalStep
<1> QED
  BY <1>1, <1>2 DEF Heartbeat

\* An attempt turns to settling with an outcome other than a conflict.
LEMMA ToSettling ==
  ASSUME IndInv, NEW d \in Drains, Busy(d), NEW o \in {"ok", "retry", "dead"},
         NEW l \in BOOLEAN,
         drain' = [drain EXCEPT ![d] = [@ EXCEPT !.pc = "settling", !.lost = l, !.outcome = o]],
         UNCHANGED <<clock, row, proc, effects>>
  PROVE  IndInv'
<1> DEFINE nd == [drain[d] EXCEPT !.pc = "settling", !.lost = l, !.outcome = o]
<1>1. drain[d] \in DrainStates
  BY DEF IndInv, TypeOK
<1>2. /\ nd \in DrainStates /\ nd.pc = "settling" /\ nd.intent = drain[d].intent
      /\ nd.lockedAt = drain[d].lockedAt /\ nd.attempts = drain[d].attempts
      /\ nd.until = drain[d].until /\ nd.outcome = o
  BY <1>1 DEF DrainStates
<1>3. drain' = [drain EXCEPT ![d] = nd]
  OBVIOUS
<1> HIDE DEF nd
<1> QED
  BY <1>2, <1>3, LocalStep

LEMMA BeforeEffectIndInv ==
  ASSUME IndInv, NEW d \in Drains, BeforeEffect(d) PROVE IndInv'
<1>1. CASE /\ ~drain[d].lost /\ Held(d)
           /\ row' = Renewed(d)
           /\ drain' = [drain EXCEPT ![d] = [@ EXCEPT !.pc = "armed", !.until = clock + Lease]]
  BY <1>1, RenewStep DEF BeforeEffect, Busy
<1>2. CASE drain' = [drain EXCEPT ![d] = Idle] /\ UNCHANGED row
  BY <1>2, SingleIdle DEF BeforeEffect
<1> QED
  BY <1>1, <1>2 DEF BeforeEffect

LEMMA TokenCallIndInv ==
  ASSUME IndInv, NEW d \in Drains, TokenCall(d) PROVE IndInv'
<1> DEFINE nd == [drain[d] EXCEPT !.pc = "running"]
<1>1. drain[d] \in DrainStates /\ drain[d].pc = "armed" /\ Busy(d)
  BY DEF IndInv, TypeOK, TokenCall, Busy
<1>2. /\ nd \in DrainStates /\ nd.pc = "running" /\ nd.intent = drain[d].intent
      /\ nd.lockedAt = drain[d].lockedAt /\ nd.attempts = drain[d].attempts
      /\ nd.until = drain[d].until
  BY <1>1 DEF DrainStates
<1>3. drain' = [drain EXCEPT ![d] = nd] /\ UNCHANGED <<clock, row, proc, effects>>
  BY DEF TokenCall
<1> HIDE DEF nd
<1> QED
  BY <1>1, <1>2, <1>3, LocalStep

\* Setting a field to the value it has changes nothing.
LEMMA KeepLost ==
  ASSUME NEW r \in DrainStates, NEW o
  PROVE  [r EXCEPT !.pc = "settling", !.outcome = o]
           = [r EXCEPT !.pc = "settling", !.lost = r.lost, !.outcome = o]
  BY DEF DrainStates

LEMMA NoEffectIndInv ==
  ASSUME IndInv, NEW d \in Drains, NoEffect(d) PROVE IndInv'
<1>1. PICK o \in {"ok", "retry", "dead"} :
         drain' = [drain EXCEPT ![d] = [@ EXCEPT !.pc = "settling", !.outcome = o]]
  BY DEF NoEffect
<1>2. drain[d] \in DrainStates /\ drain[d].lost \in BOOLEAN
  BY DEF IndInv, TypeOK, DrainStates
<1>3. drain' = [drain EXCEPT ![d] =
                  [@ EXCEPT !.pc = "settling", !.lost = drain[d].lost, !.outcome = o]]
  BY <1>1, <1>2, KeepLost DEF IndInv, TypeOK
<1>4. Busy(d) /\ UNCHANGED <<clock, row, proc, effects>>
  BY DEF NoEffect, Busy
<1> QED
  BY <1>2, <1>3, <1>4, ToSettling

LEMMA AuthorizeIndInv ==
  ASSUME IndInv, NEW d \in Drains, Authorize(d) PROVE IndInv'
<1>1. Busy(d) /\ drain[d].intent \in Roots /\ UNCHANGED <<clock, row, proc, effects>>
  BY DEF Authorize, Busy
<1>2. drain[d] \in DrainStates /\ drain[d].lost \in BOOLEAN
  BY DEF IndInv, TypeOK, DrainStates
<1>3. CASE Held(d)
  <2> DEFINE nd == [drain[d] EXCEPT !.pc = "expanding"]
  <2>1. /\ nd \in DrainStates /\ nd.pc = "expanding" /\ nd.intent = drain[d].intent
        /\ nd.lockedAt = drain[d].lockedAt /\ nd.attempts = drain[d].attempts
        /\ nd.until = drain[d].until
    BY <1>2 DEF DrainStates
  <2>2. drain' = [drain EXCEPT ![d] = nd]
    BY <1>3 DEF Authorize
  <2> HIDE DEF nd
  <2> QED
    BY <1>1, <2>1, <2>2, LocalStep
<1>4. CASE ~Held(d)
  <2>1. drain' = [drain EXCEPT ![d] =
                    [@ EXCEPT !.pc = "settling", !.lost = drain[d].lost, !.outcome = "retry"]]
    BY <1>2, <1>4, KeepLost DEF Authorize, IndInv, TypeOK
  <2> QED
    BY <1>1, <1>2, <2>1, ToSettling
<1> QED
  BY <1>3, <1>4

\* Counting one more effect.
LEMMA CountOne ==
  ASSUME NEW F \in [Intents -> [1..MaxAttempts -> Nat]], NEW G,
         NEW i \in Intents, NEW n \in 1..MaxAttempts, G = [F EXCEPT ![i][n] = @ + 1]
  PROVE  /\ G \in [Intents -> [1..MaxAttempts -> Nat]]
         /\ G[i][n] = F[i][n] + 1
         /\ \A j \in Intents, k \in 1..MaxAttempts :
               (j # i \/ k # n) => G[j][k] = F[j][k]
<1> DEFINE f == [F[i] EXCEPT ![n] = F[i][n] + 1]
<1>1. f \in [1..MaxAttempts -> Nat]
  <2>1. F[i] \in [1..MaxAttempts -> Nat]
    OBVIOUS
  <2> QED BY <2>1
<1>2. \A j \in Intents : G[j] \in [1..MaxAttempts -> Nat]
  BY <1>1
<1>3. G \in [Intents -> [1..MaxAttempts -> Nat]]
  BY <1>2
<1>4. G[i][n] = F[i][n] + 1
  OBVIOUS
<1>5. \A j \in Intents, k \in 1..MaxAttempts : (j # i \/ k # n) => G[j][k] = F[j][k]
  OBVIOUS
<1> QED BY <1>3, <1>4, <1>5

LEMMA EffectIndInv ==
  ASSUME IndInv, NEW d \in Drains, Effect(d) PROVE IndInv'
<1> DEFINE i == drain[d].intent
           n == drain[d].attempts
<1>1. PICK o \in {"ok", "retry", "dead"} :
         drain' = [drain EXCEPT ![d] = [@ EXCEPT !.pc = "settling", !.outcome = o]]
  BY DEF Effect
<1> DEFINE nd == [drain[d] EXCEPT !.pc = "settling", !.outcome = o]
<1>2. /\ nd \in DrainStates /\ nd.pc = "settling" /\ nd.intent = i
      /\ nd.lockedAt = drain[d].lockedAt /\ nd.attempts = n
      /\ nd.until = drain[d].until /\ nd.outcome = o
  BY DEF IndInv, TypeOK, DrainStates
<1>3. /\ drain' = [drain EXCEPT ![d] = nd]
      /\ effects' = [effects EXCEPT ![i][n] = @ + 1]
      /\ UNCHANGED <<clock, row, proc>>
  BY <1>1 DEF Effect
<1> HIDE DEF nd
<1>4. /\ Busy(d) /\ drain[d].pc = "armed" /\ i \in Intents \ Roots /\ n \in 1..MaxAttempts
      /\ n <= row[i].attempts \/ i \in Roots
      /\ effects[i][n] = 0
  BY DEF Effect, IndInv, DrainOK, Order, EffectsOK, Busy
<1>5. /\ \A j \in Intents, k \in 1..MaxAttempts :
            (j # i \/ k # n) => effects'[j][k] = effects[j][k]
      /\ effects'[i][n] = 1
      /\ effects' \in [Intents -> [1..MaxAttempts -> Nat]]
  <2>1. effects \in [Intents -> [1..MaxAttempts -> Nat]]
    BY DEF IndInv, TypeOK
  <2> QED BY <1>3, <1>4, <2>1, CountOne
<1>6. TypeOK'
  BY <1>2, <1>3, <1>5 DEF IndInv, TypeOK
<1>7. /\ \A e \in Drains : e # d => drain'[e] = drain[e]
      /\ \A e \in Drains : /\ Busy(e)' = Busy(e) /\ Fenced(e)' = Fenced(e)
                            /\ drain'[e].intent = drain[e].intent
                            /\ drain'[e].lockedAt = drain[e].lockedAt
                            /\ drain'[e].attempts = drain[e].attempts
                            /\ drain'[e].until = drain[e].until
      /\ drain'[d] = nd
  BY <1>2, <1>3, <1>4 DEF IndInv, TypeOK, Busy, Fenced
<1>8. \A j \in Intents : RowOK(j)'
  BY <1>3 DEF IndInv, RowOK
<1>9. \A e \in Drains : DrainOK(e)'
  <2> TAKE e \in Drains
  <2>1. CASE e = d
    BY <2>1, <1>2, <1>3, <1>4, <1>7 DEF IndInv, DrainOK, Busy
  <2>2. CASE e # d
    BY <2>2, <1>3, <1>7 DEF IndInv, DrainOK, Busy
  <2> QED BY <2>1, <2>2
<1>10. \A e \in Drains : Order(e)' /\ Lapsed(e)'
  BY <1>3, <1>7 DEF IndInv, Order, Lapsed
<1>11. FenceIdentifiesAttempt' /\ AttemptsDistinct'
  BY <1>7 DEF IndInv, FenceIdentifiesAttempt, AttemptsDistinct
<1>12. EffectsOK'
  <2>1. \A j \in Intents, k \in 1..MaxAttempts :
          /\ effects'[j][k] <= 1
          /\ k > row'[j].attempts => effects'[j][k] = 0
          /\ j \in Roots => effects'[j][k] = 0
    <3> TAKE j \in Intents, k \in 1..MaxAttempts
    <3>1. row[i].attempts \in Int
      BY <1>4 DEF IndInv, TypeOK, Rows
    <3>2. CASE j = i /\ k = n
      BY <3>1, <3>2, <1>3, <1>4, <1>5, Numbers
    <3>3. CASE j # i \/ k # n
      BY <3>3, <1>3, <1>5 DEF IndInv, EffectsOK
    <3> QED BY <3>2, <3>3
  <2>2. ASSUME NEW e \in Drains, drain'[e].pc \in {"claimed", "running", "armed"}
        PROVE  effects'[drain'[e].intent][drain'[e].attempts] = 0
    <3>1. e # d
      BY <2>2, <1>2, <1>7
    <3>2. /\ drain[e].pc \in {"claimed", "running", "armed"} /\ Busy(e)
          /\ drain[e].intent \in Intents /\ drain[e].attempts \in 1..MaxAttempts
          /\ effects[drain[e].intent][drain[e].attempts] = 0
      BY <2>2, <3>1, <1>7 DEF IndInv, DrainOK, EffectsOK, Busy
    <3>3. drain[e].intent # i \/ drain[e].attempts # n
      BY <3>1, <3>2, <1>4 DEF IndInv, AttemptsDistinct
    <3> QED BY <3>2, <3>3, <1>5, <1>7
  <2> QED BY <2>1, <2>2 DEF EffectsOK
<1>13. ActiveSlotUnique'
  BY <1>3 DEF IndInv, ActiveSlotUnique
<1> QED
  BY <1>6, <1>8, <1>9, <1>10, <1>11, <1>12, <1>13 DEF IndInv

\* A drain that writes its last update falls idle; nr is what it leaves.
LEMMA SettleWrite ==
  ASSUME IndInv, NEW d \in Drains, drain[d].pc = "settling", Fenced(d),
         NEW nr \in Rows,
         nr.status \in {"pending", "succeeded", "dead"},
         nr.attempts <= row[drain[d].intent].attempts,
         drain[d].intent \notin Roots => nr.attempts = row[drain[d].intent].attempts,
         nr.status = "pending" =>
            /\ nr.attempts < MaxAttempts
            /\ nr.availableAt > clock
            /\ drain[d].intent \notin Roots =>
                  nr.availableAt + Base <= clock + BackoffMax,
         row' = [row EXCEPT ![drain[d].intent] = nr],
         drain' = [drain EXCEPT ![d] = Idle],
         UNCHANGED <<clock, proc, effects>>
  PROVE  IndInv'
<1> DEFINE i == drain[d].intent
<1>1. /\ i \in Intents /\ Busy(d) /\ row[i].status = "processing"
      /\ row[i].lockedAt <= clock /\ clock \in Nat
      /\ row[i] \in Rows
  BY DEF Fenced, Busy, IndInv, RowOK, TypeOK
<1>2. Idle \in DrainStates /\ Idle.pc = "idle" /\ Idle.intent = NoIntent
  BY Numbers DEF Idle, DrainStates
<1>3. TypeOK'
  BY <1>1, <1>2 DEF IndInv, TypeOK
<1>4. \A j \in Intents : /\ j # i => row'[j] = row[j]
                         /\ row'[i] = nr
  BY <1>1 DEF IndInv, TypeOK
<1>5. \A j \in Intents : RowOK(j)'
  BY <1>4 DEF IndInv, RowOK
<1>6. /\ drain'[d] = Idle /\ ~Busy(d)'
      /\ \A e \in Drains : e # d => drain'[e] = drain[e] /\ Busy(e)' = Busy(e)
  BY <1>2 DEF IndInv, TypeOK, Busy
<1>7. \A e \in Drains : e # d /\ Busy(e) /\ drain[e].intent = i =>
        /\ ~Fenced(e) /\ ~Fenced(e)'
        /\ drain[e].until <= clock
        /\ drain[e].lockedAt <= clock
        /\ drain[e].lockedAt \in Nat
  <2> TAKE e \in Drains
  <2> HAVE e # d /\ Busy(e) /\ drain[e].intent = i
  <2>1. ~Fenced(e)
    BY <1>1, ShapeAssumption DEF IndInv, FenceIdentifiesAttempt, Fenced
  <2>2. ~Fenced(e)'
    BY <1>1, <1>4, <1>6 DEF Fenced
  <2> QED
    BY <2>1, <2>2 DEF IndInv, TypeOK, DrainStates, DrainOK, Lapsed
<1>8. \A e \in Drains : DrainOK(e)'
  BY <1>1, <1>2, <1>4, <1>6 DEF IndInv, DrainOK, Busy
<1>9. \A e \in Drains : Order(e)'
  <2> SUFFICES ASSUME NEW e \in Drains, e # d, Busy(e) PROVE Order(e)'
    BY <1>6 DEF Order
  <2>1. CASE drain[e].intent = i
    <3>1. nr.availableAt \in Nat /\ Order(e)
      BY DEF Rows, IndInv
    <3> QED BY <2>1, <3>1, <1>1, <1>4, <1>6, <1>7 DEF Order
  <2>2. CASE drain[e].intent # i
    BY <2>2, <1>4, <1>6 DEF IndInv, DrainOK, Order
  <2> QED BY <2>1, <2>2
<1>10. \A e \in Drains : Lapsed(e)'
  <2> SUFFICES ASSUME NEW e \in Drains, e # d, Busy(e) PROVE Lapsed(e)'
    BY <1>6 DEF Lapsed
  <2>1. CASE drain[e].intent = i
    BY <2>1, <1>6, <1>7 DEF Lapsed
  <2>2. CASE drain[e].intent # i
    BY <2>2, <1>4, <1>6 DEF IndInv, DrainOK, Lapsed, Fenced
  <2> QED BY <2>1, <2>2
<1>11. FenceIdentifiesAttempt'
  BY <1>2, <1>6 DEF IndInv, FenceIdentifiesAttempt
<1>12. AttemptsDistinct'
  BY <1>6 DEF IndInv, AttemptsDistinct
<1>13. EffectsOK'
  <2>1. \A j \in Intents, k \in 1..MaxAttempts :
          /\ effects'[j][k] <= 1
          /\ k > row'[j].attempts => effects'[j][k] = 0
          /\ j \in Roots => effects'[j][k] = 0
    BY <1>1, <1>4 DEF IndInv, EffectsOK
  <2>2. \A e \in Drains : drain'[e].pc \in {"claimed", "running", "armed"}
           => effects'[drain'[e].intent][drain'[e].attempts] = 0
    BY <1>2, <1>6 DEF IndInv, EffectsOK
  <2> QED BY <2>1, <2>2 DEF EffectsOK
<1>14. ActiveSlotUnique'
  BY <1>1, <1>4 DEF IndInv, ActiveSlotUnique, Active
<1> QED
  BY <1>3, <1>5, <1>8, <1>9, <1>10, <1>11, <1>12, <1>13, <1>14 DEF IndInv

LEMMA SettleIndInv ==
  ASSUME IndInv, NEW d \in Drains, Settle(d) PROVE IndInv'
<1>1. CASE UNCHANGED row
  BY <1>1, SingleIdle DEF Settle
<1>2. CASE /\ ~drain[d].lost /\ Fenced(d) /\ ~HorizonRefused(d)
           /\ row' = [row EXCEPT ![drain[d].intent] = Settled(d)]
  <2> DEFINE i == drain[d].intent
             r == row[i]
             nr == Settled(d)
  <2>1. /\ drain[d].pc = "settling" /\ row' = [row EXCEPT ![i] = nr]
        /\ drain' = [drain EXCEPT ![d] = Idle] /\ UNCHANGED <<clock, proc, effects>>
    BY <1>2 DEF Settle
  <2>2. /\ i \in Intents /\ r \in Rows /\ clock \in Nat
        /\ drain[d].attempts = r.attempts /\ r.attempts \in 1..MaxAttempts
        /\ drain[d].outcome \in {"ok", "retry", "dead", "conflict"}
    BY <1>2, <2>1 DEF IndInv, TypeOK, DrainStates, DrainOK, Lapsed, Fenced, Busy
  <2>3. CASE drain[d].outcome = "ok"
    <3>1. nr = Unfenced(r, "succeeded")
      BY <2>3 DEF Settled, Spent
    <3> HIDE DEF nr
    <3>2. nr \in Rows /\ nr.status = "succeeded" /\ nr.attempts = r.attempts
      BY <2>2, <3>1, UnfencedFields
    <3>3. nr.attempts <= r.attempts
      BY <2>2, <3>2
    <3> QED BY <1>2, <2>1, <3>2, <3>3, SettleWrite
  <2>4. CASE drain[d].outcome = "dead" \/ (drain[d].outcome = "retry" /\ drain[d].attempts >= MaxAttempts)
    <3>1. nr = Unfenced(r, "dead")
      BY <2>4 DEF Settled, Spent
    <3> HIDE DEF nr
    <3>2. nr \in Rows /\ nr.status = "dead" /\ nr.attempts = r.attempts
      BY <2>2, <3>1, UnfencedFields
    <3>3. nr.attempts <= r.attempts
      BY <2>2, <3>2
    <3> QED BY <1>2, <2>1, <3>2, <3>3, SettleWrite
  <2>5. CASE drain[d].outcome = "retry" /\ ~(drain[d].attempts >= MaxAttempts)
    <3> DEFINE b == Backoff(drain[d].attempts)
               u == Unfenced(r, "pending")
    <3>1. nr = [u EXCEPT !.availableAt = clock + b]
      BY <2>5 DEF Settled, Spent
    <3>2. b \in Nat /\ b >= 1 /\ b + Base <= BackoffMax
      BY <2>2, <2>5, TimingAssumption
    <3>3. u \in Rows /\ u.status = "pending" /\ u.attempts = r.attempts
      BY <2>2, UnfencedFields
    <3> HIDE DEF u, b
    <3>4. /\ nr \in Rows /\ nr.status = "pending" /\ nr.attempts = r.attempts
          /\ nr.availableAt = clock + b
      BY <2>2, <3>1, <3>2, <3>3 DEF Rows
    <3> HIDE DEF nr
    <3> QED
      <4>1. /\ nr.attempts < MaxAttempts /\ nr.availableAt > clock
            /\ nr.availableAt + Base <= clock + BackoffMax
            /\ nr.attempts <= r.attempts
        BY <2>2, <2>5, <3>2, <3>4, Numbers
      <4> QED BY <1>2, <2>1, <3>4, <4>1, SettleWrite
  <2>6. CASE drain[d].outcome = "conflict"
    <3> DEFINE u == Unfenced(r, "pending")
               t == DeferUntil(d)
    <3>1. nr = [u EXCEPT !.attempts = r.attempts - 1, !.availableAt = t]
      BY <2>6 DEF Settled, Spent
    <3>2. t \in Nat /\ t > clock
      BY <2>2, Numbers DEF DeferUntil, Max2, IndInv, TypeOK, DrainStates
    <3>3. u \in Rows /\ u.status = "pending" /\ u.attempts = r.attempts
      BY <2>2, UnfencedFields
    <3> HIDE DEF u, t
    <3>4. /\ nr \in Rows /\ nr.status = "pending" /\ nr.attempts = r.attempts - 1
          /\ nr.availableAt = t
      <4>1. r.attempts - 1 \in 0..MaxAttempts
        BY <2>2, Numbers
      <4> QED BY <2>2, <3>1, <3>2, <3>3, <4>1 DEF Rows
    <3>5. i \in Roots
      BY <2>1, <2>6 DEF IndInv, DrainOK
    <3> HIDE DEF nr
    <3> QED
      <4>1. nr.attempts < MaxAttempts /\ nr.attempts <= r.attempts
        BY <2>2, <3>4, Numbers
      <4> QED BY <1>2, <2>1, <3>2, <3>4, <3>5, <4>1, SettleWrite
  <2> QED
    BY <2>2, <2>3, <2>4, <2>5, <2>6
<1> QED
  BY <1>1, <1>2 DEF Settle

LEMMA ExpandIndInv ==
  ASSUME IndInv, NEW d \in Drains, Expand(d) PROVE IndInv'
<1> DEFINE root == drain[d].intent
           missing == {c \in ChildrenOf[root] : row[c].status = "absent"}
           blockers == {j \in Intents : /\ row[j].status \in Active
                                        /\ \E c \in missing : SlotOf[j] = SlotOf[c]}
<1>1. /\ root \in Roots /\ Busy(d) /\ drain[d] \in DrainStates
      /\ UNCHANGED <<clock, proc, effects>>
      /\ clock \in Nat
  BY DEF Expand, Busy, IndInv, TypeOK, DrainOK
<1>2. /\ missing \subseteq Intents \ Roots
      /\ \A c \in missing : c \in Children /\ SlotOf[c] # NoSlot
      /\ \A c, e \in missing : c # e => SlotOf[c] # SlotOf[e]
  BY <1>1, ShapeAssumption DEF Children
<1>3. CASE \E j \in blockers :
             /\ drain' = [drain EXCEPT ![d] = [@ EXCEPT !.pc = "settling",
                            !.outcome = "conflict", !.horizon = FreesAt(j)]]
             /\ UNCHANGED row
  <2>1. PICK j \in blockers :
             drain' = [drain EXCEPT ![d] = [@ EXCEPT !.pc = "settling",
                            !.outcome = "conflict", !.horizon = FreesAt(j)]]
    BY <1>3
  <2>2. /\ j \in Intents \ Roots /\ row[j] \in Rows /\ RowOK(j)
        /\ row[j].status \in {"pending", "processing"}
    BY <1>2, ShapeAssumption DEF IndInv, TypeOK, Active
  <2>3. FreesAt(j) \in Nat /\ FreesAt(j) + Base <= clock + BackoffMax
    BY <1>1, <2>2, Numbers DEF FreesAt, RowOK, Rows
  <2> DEFINE h == FreesAt(j)
             nd == [drain[d] EXCEPT !.pc = "settling", !.outcome = "conflict", !.horizon = h]
  <2>4. h \in Nat /\ h + Base <= clock + BackoffMax /\ drain' = [drain EXCEPT ![d] = nd]
    BY <2>1, <2>3
  <2> HIDE DEF h
  <2>5. /\ nd \in DrainStates /\ nd.pc = "settling" /\ nd.intent = root
        /\ nd.lockedAt = drain[d].lockedAt /\ nd.attempts = drain[d].attempts
        /\ nd.until = drain[d].until /\ nd.outcome = "conflict" /\ nd.horizon = h
    BY <1>1, <2>4 DEF DrainStates
  <2>6. UNCHANGED row
    BY <1>3
  <2> HIDE DEF nd
  <2> QED
    BY <1>1, <2>4, <2>5, <2>6, LocalStep
<1>4. CASE /\ blockers = {}
           /\ row' = [i \in Intents |-> IF i \in missing THEN PendingRow ELSE row[i]]
           /\ drain' = [drain EXCEPT ![d] = [@ EXCEPT !.pc = "settling", !.outcome = "ok"]]
  <2> DEFINE nd == [drain[d] EXCEPT !.pc = "settling", !.outcome = "ok"]
  <2>1. /\ nd \in DrainStates /\ nd.pc = "settling" /\ nd.intent = root
        /\ nd.lockedAt = drain[d].lockedAt /\ nd.attempts = drain[d].attempts
        /\ nd.until = drain[d].until /\ nd.outcome = "ok"
        /\ drain' = [drain EXCEPT ![d] = nd]
    BY <1>1, <1>4 DEF DrainStates
  <2> HIDE DEF nd
  <2>2. /\ \A i \in missing : /\ row[i].status = "absent" /\ row'[i] \in Rows
                              /\ row'[i].status = "pending" /\ row'[i].attempts = 0
                              /\ row'[i].availableAt = clock
        /\ \A i \in Intents \ missing : row'[i] = row[i]
        /\ row' \in [Intents -> Rows]
    BY <1>1, <1>2, <1>4, PendingRowFields DEF IndInv, TypeOK
  <2>3. \A i \in Intents : row[i].status \in Active => i \notin missing /\ \A c \in missing : SlotOf[i] # SlotOf[c]
    BY <1>4 DEF Active
  <2> HIDE DEF missing, blockers
  <2>4. TypeOK'
    BY <1>1, <2>1, <2>2 DEF IndInv, TypeOK
  <2>5. \A j \in Intents : RowOK(j)'
    <3> TAKE j \in Intents
    <3>1. CASE j \in missing
      BY <3>1, <1>1, <2>2, Numbers DEF RowOK
    <3>2. CASE j \notin missing
      BY <3>2, <1>1, <2>2 DEF IndInv, RowOK
    <3> QED BY <3>1, <3>2
  <2>6. \A e \in Drains : /\ Busy(e)' = Busy(e)
                          /\ drain'[e].intent = drain[e].intent
                          /\ drain'[e].lockedAt = drain[e].lockedAt
                          /\ drain'[e].attempts = drain[e].attempts
                          /\ drain'[e].until = drain[e].until
                          /\ e # d => drain'[e] = drain[e]
                          /\ e = d => drain'[e] = nd
    BY <1>1, <2>1 DEF IndInv, TypeOK, Busy
  <2>7. \A e \in Drains : Busy(e) =>
           drain[e].intent \in Intents /\ row'[drain[e].intent] = row[drain[e].intent]
    BY <2>2 DEF IndInv, DrainOK
  <2>8. \A e \in Drains : DrainOK(e)'
    <3> TAKE e \in Drains
    <3>1. CASE e = d
      BY <3>1, <1>1, <2>1, <2>6, <2>7 DEF IndInv, DrainOK, Busy
    <3>2. CASE e # d
      BY <3>2, <1>1, <2>6, <2>7 DEF IndInv, DrainOK, Busy
    <3> QED BY <3>1, <3>2
  <2>9. \A e \in Drains : Order(e)' /\ Lapsed(e)'
    BY <1>1, <2>6, <2>7 DEF IndInv, Order, Lapsed, Fenced
  <2>10. FenceIdentifiesAttempt' /\ AttemptsDistinct'
    BY <2>6 DEF IndInv, FenceIdentifiesAttempt, AttemptsDistinct
  <2>11. EffectsOK'
    <3>1. \A j \in Intents, k \in 1..MaxAttempts :
            /\ effects'[j][k] <= 1
            /\ k > row'[j].attempts => effects'[j][k] = 0
            /\ j \in Roots => effects'[j][k] = 0
      BY <1>1, <1>2, <2>2 DEF IndInv, EffectsOK, RowOK
    <3>2. \A e \in Drains : drain'[e].pc \in {"claimed", "running", "armed"}
             => effects'[drain'[e].intent][drain'[e].attempts] = 0
      BY <1>1, <2>1, <2>6 DEF IndInv, EffectsOK
    <3> QED BY <3>1, <3>2 DEF EffectsOK
  <2>12. ActiveSlotUnique'
    <3> SUFFICES ASSUME NEW i \in Intents, NEW j \in Intents, i # j, SlotOf[i] = SlotOf[j],
                        SlotOf[i] # NoSlot, row'[i].status \in Active, row'[j].status \in Active
                 PROVE  FALSE
      BY DEF ActiveSlotUnique
    <3>1. CASE i \in missing \/ j \in missing
      BY <3>1, <1>2, <2>2, <2>3
    <3>2. CASE i \notin missing /\ j \notin missing
      BY <3>2, <2>2 DEF IndInv, ActiveSlotUnique
    <3> QED BY <3>1, <3>2
  <2> QED
    BY <2>4, <2>5, <2>8, <2>9, <2>10, <2>11, <2>12 DEF IndInv
<1>5. CASE /\ drain' = [drain EXCEPT ![d] = [@ EXCEPT !.pc = "settling", !.outcome = "retry"]]
           /\ UNCHANGED row
  <2>1. drain[d].lost \in BOOLEAN
    BY <1>1 DEF DrainStates
  <2>2. drain' = [drain EXCEPT ![d] =
                    [@ EXCEPT !.pc = "settling", !.lost = drain[d].lost, !.outcome = "retry"]]
    BY <1>1, <1>5, KeepLost DEF IndInv, TypeOK
  <2> QED
    BY <1>1, <1>5, <2>1, <2>2, ToSettling
<1> QED
  BY <1>3, <1>4, <1>5 DEF Expand

-----------------------------------------------------------------------------
(* Claiming. *)

\* What claim's first update does to a row.
LEMMA SweptFields ==
  ASSUME IndInv, NEW j \in Intents
  PROVE  /\ Swept[j] \in Rows
         /\ Swept[j].attempts = row[j].attempts
         /\ Exhausted(j) => Swept[j].status = "dead"
         /\ ~Exhausted(j) => Swept[j] = row[j]
<1>1. row[j] \in Rows
  BY DEF IndInv, TypeOK
<1>2. CASE Exhausted(j)
  BY <1>1, <1>2, UnfencedFields DEF Swept
<1>3. CASE ~Exhausted(j)
  BY <1>1, <1>3 DEF Swept
<1> QED
  BY <1>2, <1>3

LEMMA SweepIndInv ==
  ASSUME IndInv, row' = Swept, UNCHANGED <<clock, proc, drain, effects>>
  PROVE  IndInv'
<1>1. \A j \in Intents : /\ row'[j] \in Rows
                         /\ row'[j].attempts = row[j].attempts
                         /\ row'[j].status = "dead" \/ row'[j] = row[j]
                         /\ row'[j] # row[j] => /\ row[j].status = "processing"
                                               /\ row[j].expiresAt <= clock
  BY SweptFields DEF Exhausted, Expired
<1>2. TypeOK'
  BY <1>1 DEF IndInv, TypeOK, Swept
<1>3. \A j \in Intents : RowOK(j)'
  BY <1>1 DEF IndInv, RowOK
<1>4. \A e \in Drains : DrainOK(e)'
  BY <1>1 DEF IndInv, DrainOK, Busy
<1>5. \A e \in Drains : Order(e)'
  BY <1>1 DEF IndInv, DrainOK, Order, Busy
<1>6. \A e \in Drains : Lapsed(e)'
  <2> SUFFICES ASSUME NEW e \in Drains, Busy(e) PROVE Lapsed(e)'
    BY DEF Lapsed, Busy
  <2>1. drain[e].intent \in Intents /\ Lapsed(e) /\ drain[e].until \in Nat /\ clock \in Nat
        /\ row[drain[e].intent] \in Rows
    BY DEF IndInv, TypeOK, DrainStates, DrainOK
  <2>2. CASE row'[drain[e].intent] = row[drain[e].intent]
    BY <2>1, <2>2 DEF Lapsed, Fenced, Busy
  <2>3. CASE row'[drain[e].intent] # row[drain[e].intent]
    <3>1. row[drain[e].intent].expiresAt <= clock /\ row'[drain[e].intent].status = "dead"
      BY <1>1, <2>1, <2>3
    <3>2. drain[e].until <= clock
      BY <2>1, <3>1 DEF Lapsed, Rows
    <3> QED BY <3>1, <3>2 DEF Lapsed, Fenced
  <2> QED BY <2>2, <2>3
<1>7. FenceIdentifiesAttempt' /\ AttemptsDistinct'
  BY DEF IndInv, FenceIdentifiesAttempt, AttemptsDistinct, Busy
<1>8. EffectsOK'
  BY <1>1 DEF IndInv, EffectsOK
<1>9. ActiveSlotUnique'
  BY <1>1 DEF IndInv, ActiveSlotUnique, Active
<1> QED
  BY <1>2, <1>3, <1>4, <1>5, <1>6, <1>7, <1>8, <1>9 DEF IndInv

LEMMA ClaimIndInv ==
  ASSUME IndInv, NEW d \in Drains, NEW i \in Intents, Claim(d, i) PROVE IndInv'
<1> DEFINE nr == [Swept[i] EXCEPT !.status = "processing", !.attempts = row[i].attempts + 1,
                    !.owner = ProcOf[d], !.lockedAt = clock, !.expiresAt = clock + Lease]
           nd == [Idle EXCEPT !.pc = "claimed", !.intent = i, !.lockedAt = clock,
                    !.attempts = row[i].attempts + 1, !.until = clock + Lease]
<1>1. /\ drain[d].pc = "idle" /\ Claimable(i) /\ ~Exhausted(i)
      /\ clock \in Nat /\ row[i] \in Rows /\ RowOK(i)
      /\ row[i].attempts \in 0..MaxAttempts /\ row[i].attempts < MaxAttempts
      /\ row[i].status \in {"pending", "processing"}
      /\ UNCHANGED <<clock, proc, effects>>
      /\ ProcOf[d] \in Procs
  <2>1. drain[d].pc = "idle" /\ Claimable(i) /\ UNCHANGED <<clock, proc, effects>>
    BY DEF Claim, Ready
  <2>2. clock \in Nat /\ row[i] \in Rows /\ RowOK(i) /\ ProcOf[d] \in Procs
    BY ShapeAssumption DEF IndInv, TypeOK
  <2>3. row[i].attempts \in 0..MaxAttempts /\ row[i].attempts < MaxAttempts
    BY <2>1, <2>2 DEF Claimable, Rows
  <2>4. ~Exhausted(i)
    BY <2>3, Numbers DEF Exhausted
  <2>5. row[i].status \in {"pending", "processing"}
    BY <2>1 DEF Claimable, Expired
  <2> QED BY <2>1, <2>2, <2>3, <2>4, <2>5
<1>2. /\ row' = [Swept EXCEPT ![i] = nr]
      /\ drain' = [drain EXCEPT ![d] = nd]
  BY DEF Claim
<1>3. /\ nr \in Rows /\ nr.status = "processing" /\ nr.attempts = row[i].attempts + 1
      /\ nr.owner = ProcOf[d] /\ nr.lockedAt = clock /\ nr.expiresAt = clock + Lease
  <2>1. /\ row[i].attempts + 1 \in 0..MaxAttempts
        /\ clock + Lease \in Nat
    BY <1>1, Numbers
  <2>2. Swept[i] = row[i]
    BY <1>1, SweptFields
  <2> QED BY <1>1, <2>1, <2>2 DEF Rows
<1>4. /\ nd \in DrainStates /\ nd.pc = "claimed" /\ nd.intent = i /\ nd.lockedAt = clock
      /\ nd.attempts = row[i].attempts + 1 /\ nd.until = clock + Lease
  <2>1. Idle \in DrainStates
    BY Numbers DEF Idle, DrainStates
  <2>2. /\ row[i].attempts + 1 \in 0..MaxAttempts
        /\ clock + Lease \in Nat
    BY <1>1, Numbers
  <2>3. ASSUME NEW r \in DrainStates
        PROVE  LET n == [r EXCEPT !.pc = "claimed", !.intent = i, !.lockedAt = clock,
                           !.attempts = row[i].attempts + 1, !.until = clock + Lease]
               IN n \in DrainStates /\ n.pc = "claimed" /\ n.intent = i /\ n.lockedAt = clock
                  /\ n.attempts = row[i].attempts + 1 /\ n.until = clock + Lease
    BY <1>1, <2>2 DEF DrainStates
  <2> QED BY <2>1, <2>3
<1> HIDE DEF nr, nd
<1>5. /\ row'[i] = nr
      /\ \A j \in Intents \ {i} :
            /\ row'[j] \in Rows
            /\ row'[j].attempts = row[j].attempts
            /\ row'[j].status = "dead" \/ row'[j] = row[j]
            /\ row'[j] # row[j] => row[j].status = "processing" /\ row[j].expiresAt <= clock
  BY <1>2, SweptFields DEF Swept, Exhausted, Expired
<1>6. TypeOK'
  BY <1>1, <1>2, <1>3, <1>4, <1>5 DEF IndInv, TypeOK, Swept
<1>7. /\ drain'[d] = nd /\ ~Busy(d) /\ Busy(d)'
      /\ \A e \in Drains : e # d => drain'[e] = drain[e] /\ Busy(e)' = Busy(e)
  BY <1>1, <1>2, <1>4 DEF IndInv, TypeOK, Busy
<1>8. \A j \in Intents : RowOK(j)'
  <2> TAKE j \in Intents
  <2>1. CASE j = i
    BY <2>1, <1>1, <1>3, <1>5, Numbers DEF RowOK
  <2>2. CASE j # i
    BY <2>2, <1>1, <1>5 DEF IndInv, RowOK
  <2> QED BY <2>1, <2>2
\* Every older attempt at i is outrun.
<1>9. ASSUME NEW e \in Drains, Busy(e), drain[e].intent = i
      PROVE  /\ e # d /\ drain[e].lockedAt < clock /\ drain[e].until <= clock /\ ~Fenced(e)'
             /\ i \notin Roots => drain[e].attempts <= row[i].attempts
             /\ drain[e].attempts \in Int
  <2>1. /\ Order(e) /\ Lapsed(e) /\ drain[e].lockedAt \in Nat /\ drain[e].until \in Nat
        /\ row[i].expiresAt \in Nat /\ row[i].lockedAt \in Nat /\ row[i].availableAt \in Nat
        /\ drain[e].attempts \in Int
    BY <1>1 DEF IndInv, TypeOK, DrainStates, Rows
  <2>2. e # d
    BY <1>9, <1>7
  <2>3. drain[e].lockedAt < clock /\ drain[e].until <= clock
    <3>1. CASE row[i].status = "pending"
      <4>1. row[i].availableAt <= clock /\ ~Fenced(e)
        BY <3>1, <1>1, <1>9 DEF Claimable, Expired, Fenced
      <4> QED BY <3>1, <4>1, <2>1, <1>1, <1>9 DEF Order, Lapsed
    <3>2. CASE row[i].status = "processing"
      <4>1. row[i].expiresAt <= clock /\ row[i].lockedAt < row[i].expiresAt
        BY <3>2, <1>1 DEF Claimable, Expired, RowOK
      <4> QED BY <3>2, <4>1, <2>1, <1>1, <1>9 DEF Order, Lapsed
    <3> QED BY <3>1, <3>2, <1>1
  <2>4. ~Fenced(e)'
    BY <2>2, <2>3, <1>1, <1>3, <1>5, <1>7, <1>9 DEF Fenced
  <2> QED BY <2>1, <2>2, <2>3, <2>4, <1>9 DEF Order
<1>10. \A e \in Drains : DrainOK(e)'
  <2> TAKE e \in Drains
  <2>1. CASE e = d
    BY <2>1, <1>1, <1>3, <1>4, <1>5, <1>7, Numbers DEF DrainOK
  <2>2. CASE e # d
    <3>1. DrainOK(e)
      BY DEF IndInv
    <3>2. Busy(e) => row'[drain[e].intent].status # "absent"
      BY <3>1, <1>3, <1>5 DEF DrainOK
    <3> QED BY <2>2, <3>1, <3>2, <1>1, <1>7 DEF DrainOK
  <2> QED BY <2>1, <2>2
<1>11. \A e \in Drains : Order(e)'
  <2> SUFFICES ASSUME NEW e \in Drains, Busy(e)' PROVE Order(e)'
    BY DEF Order
  <2>1. CASE e = d
    BY <2>1, <1>1, <1>3, <1>4, <1>5, <1>7 DEF Order
  <2>2. CASE e # d /\ drain[e].intent = i
    <3>1. /\ drain[e].lockedAt < clock /\ drain[e].lockedAt \in Nat
          /\ i \notin Roots => drain[e].attempts <= row[i].attempts
          /\ drain[e].attempts \in Int
      BY <2>2, <1>7, <1>9 DEF IndInv, TypeOK, DrainStates
    <3> QED BY <2>2, <3>1, <1>1, <1>3, <1>5, <1>7 DEF Order
  <2>3. CASE e # d /\ drain[e].intent # i
    BY <2>3, <1>5, <1>7 DEF IndInv, DrainOK, Order
  <2> QED BY <2>1, <2>2, <2>3
<1>12. \A e \in Drains : Lapsed(e)'
  <2> SUFFICES ASSUME NEW e \in Drains, Busy(e)' PROVE Lapsed(e)'
    BY DEF Lapsed
  <2>1. CASE e = d
    <3>1. Fenced(d)'
      BY <1>3, <1>4, <1>5, <1>7 DEF Fenced
    <3> QED BY <2>1, <3>1, <1>1, <1>3, <1>4, <1>5, <1>7, Numbers DEF Lapsed
  <2>2. CASE e # d /\ drain[e].intent = i
    BY <2>2, <1>1, <1>7, <1>9 DEF Lapsed
  <2>3. CASE e # d /\ drain[e].intent # i
    <3> DEFINE j == drain[e].intent
    <3>1. /\ j \in Intents \ {i} /\ Busy(e) /\ Lapsed(e) /\ drain'[e] = drain[e]
          /\ drain[e].until \in Nat /\ clock \in Nat /\ row[j] \in Rows
      BY <2>3, <1>7 DEF IndInv, TypeOK, DrainStates, DrainOK
    <3>2. CASE row'[j] = row[j]
      BY <3>1, <3>2, <1>1, <2>3 DEF Lapsed, Fenced
    <3>3. CASE row'[j] # row[j]
      <4>1. row[j].expiresAt <= clock /\ row'[j].status = "dead"
        BY <1>5, <3>1, <3>3
      <4>2. drain[e].until <= clock
        BY <3>1, <4>1 DEF Lapsed, Rows
      <4> QED BY <1>1, <3>1, <4>1, <4>2 DEF Lapsed, Fenced
    <3> QED BY <3>2, <3>3
  <2> QED BY <2>1, <2>2, <2>3
<1>13. FenceIdentifiesAttempt'
  <2> SUFFICES ASSUME NEW e \in Drains, NEW f \in Drains, e # f,
                      drain'[e].intent = drain'[f].intent, drain'[e].intent # NoIntent,
                      ProcOf[e] = ProcOf[f], drain'[e].lockedAt = drain'[f].lockedAt
               PROVE  FALSE
    BY DEF FenceIdentifiesAttempt
  <2>1. \A g \in Drains : drain[g].intent # NoIntent => Busy(g)
    BY DEF IndInv, DrainOK, Busy, Idle
  <2>2. CASE e = d \/ f = d
    <3>1. PICK g \in Drains : g # d /\ drain'[g].intent = i /\ drain'[g].lockedAt = clock
      BY <2>2, <1>4, <1>7
    <3>2. Busy(g) /\ drain[g].intent = i /\ drain[g].lockedAt = clock
      BY <2>1, <3>1, <1>7, ShapeAssumption
    <3> QED BY <3>2, <1>1, <1>9
  <2>3. CASE e # d /\ f # d
    BY <2>3, <1>7 DEF IndInv, FenceIdentifiesAttempt
  <2> QED BY <2>2, <2>3
<1>14. AttemptsDistinct'
  <2> SUFFICES ASSUME NEW e \in Drains, NEW f \in Drains, e # f, Busy(e)', Busy(f)',
                      drain'[e].intent = drain'[f].intent, drain'[e].intent \notin Roots
               PROVE  drain'[e].attempts # drain'[f].attempts
    BY DEF AttemptsDistinct
  <2>1. \A g \in Drains : g # d /\ Busy(g)' /\ drain'[g].intent = i /\ i \notin Roots
           => drain'[g].attempts # nd.attempts
    BY <1>1, <1>4, <1>7, <1>9
  <2>2. CASE e = d \/ f = d
    BY <2>1, <2>2, <1>4, <1>7
  <2>3. CASE e # d /\ f # d
    BY <2>3, <1>7 DEF IndInv, AttemptsDistinct
  <2> QED BY <2>2, <2>3
<1>15. EffectsOK'
  <2>1. \A j \in Intents, k \in 1..MaxAttempts :
          /\ effects'[j][k] <= 1
          /\ k > row'[j].attempts => effects'[j][k] = 0
          /\ j \in Roots => effects'[j][k] = 0
    <3> TAKE j \in Intents, k \in 1..MaxAttempts
    <3>1. k > row'[j].attempts => k > row[j].attempts
      BY <1>1, <1>3, <1>5
    <3> QED BY <3>1, <1>1 DEF IndInv, EffectsOK
  <2>2. ASSUME NEW e \in Drains, drain'[e].pc \in {"claimed", "running", "armed"}
        PROVE  effects'[drain'[e].intent][drain'[e].attempts] = 0
    <3>1. CASE e = d
      <4>1. nd.attempts \in 1..MaxAttempts /\ nd.attempts > row[i].attempts
        BY <1>1, <1>4, Numbers
      <4> QED BY <3>1, <4>1, <1>1, <1>4, <1>7 DEF IndInv, EffectsOK
    <3>2. CASE e # d
      BY <2>2, <3>2, <1>1, <1>7 DEF IndInv, EffectsOK
    <3> QED BY <3>1, <3>2
  <2> QED BY <2>1, <2>2 DEF EffectsOK
<1>16. ActiveSlotUnique'
  <2>1. \A j \in Intents : row'[j].status \in Active => row[j].status \in Active
    BY <1>1, <1>5 DEF Active
  <2> QED BY <2>1 DEF IndInv, ActiveSlotUnique
<1> QED
  BY <1>6, <1>8, <1>10, <1>11, <1>12, <1>13, <1>14, <1>15, <1>16 DEF IndInv

-----------------------------------------------------------------------------
(* Processes, time, and the whole specification. *)

LEMMA StopIndInv ==
  ASSUME IndInv, NEW p \in Procs, Stop(p) PROVE IndInv'
<1> DEFINE D == {e \in Drains : FALSE}
<1>1. /\ drain' = [e \in Drains |-> IF e \in D THEN Idle ELSE drain[e]]
      /\ proc' \in [Procs -> {"up", "stopping", "down"}]
      /\ UNCHANGED <<clock, row, effects>>
  BY DEF Stop, IndInv, TypeOK
<1>2. D \in SUBSET Drains
  OBVIOUS
<1> HIDE DEF D
<1> QED
  BY <1>1, <1>2, IdleStep

LEMMA CrashIndInv ==
  ASSUME IndInv, NEW p \in Procs, Crash(p) PROVE IndInv'
<1> DEFINE D == {e \in Drains : ProcOf[e] = p}
<1>1. /\ drain' = [e \in Drains |-> IF e \in D THEN Idle ELSE drain[e]]
      /\ proc' \in [Procs -> {"up", "stopping", "down"}]
      /\ UNCHANGED <<clock, row, effects>>
  BY DEF Crash, IndInv, TypeOK
<1>2. D \in SUBSET Drains
  OBVIOUS
<1> HIDE DEF D
<1> QED
  BY <1>1, <1>2, IdleStep

LEMMA TickIndInv ==
  ASSUME IndInv, Tick PROVE IndInv'
<1>1. clock \in Nat /\ clock' = clock + 1 /\ UNCHANGED <<row, proc, drain, effects>>
  BY DEF Tick, IndInv, TypeOK
<1>2. TypeOK'
  BY <1>1 DEF IndInv, TypeOK
<1>3. \A j \in Intents : RowOK(j)'
  BY <1>1, Numbers DEF IndInv, TypeOK, Rows, RowOK
<1>4. \A e \in Drains : DrainOK(e)'
  BY <1>1, Numbers DEF IndInv, TypeOK, DrainStates, DrainOK, Busy
<1>5. \A e \in Drains : Order(e)' /\ Lapsed(e)'
  BY <1>1 DEF IndInv, TypeOK, DrainStates, Order, Lapsed, Fenced, Busy
<1>6. FenceIdentifiesAttempt' /\ AttemptsDistinct' /\ EffectsOK' /\ ActiveSlotUnique'
  BY <1>1 DEF IndInv, FenceIdentifiesAttempt, AttemptsDistinct, EffectsOK, ActiveSlotUnique, Busy
<1> QED
  BY <1>2, <1>3, <1>4, <1>5, <1>6 DEF IndInv

LEMMA StepIndInv == IndInv /\ [Next]_vars => IndInv'
<1> SUFFICES ASSUME IndInv, [Next]_vars PROVE IndInv'
  OBVIOUS
<1>1. ASSUME NEW i \in Intents, Enqueue(i) PROVE IndInv'
  BY <1>1, EnqueueIndInv
<1>2. ASSUME NEW d \in Drains, NEW i \in Intents, Claim(d, i) PROVE IndInv'
  BY <1>2, ClaimIndInv
<1>3. ASSUME NEW d \in Drains, ClaimNothing(d) PROVE IndInv'
  BY <1>3, SweepIndInv DEF ClaimNothing
<1>4. ASSUME NEW d \in Drains, Attempt(d) PROVE IndInv'
  BY <1>4, StartIndInv, HeartbeatIndInv, BeforeEffectIndInv, TokenCallIndInv, EffectIndInv,
     NoEffectIndInv, AuthorizeIndInv, ExpandIndInv, SettleIndInv DEF Attempt
<1>5. ASSUME NEW p \in Procs, Stop(p) \/ Crash(p) PROVE IndInv'
  BY <1>5, StopIndInv, CrashIndInv
<1>6. CASE Tick
  BY <1>6, TickIndInv
<1>7. CASE UNCHANGED vars
  <2> DEFINE D == {e \in Drains : FALSE}
  <2>1. /\ drain' = [e \in Drains |-> IF e \in D THEN Idle ELSE drain[e]]
        /\ proc' \in [Procs -> {"up", "stopping", "down"}]
        /\ UNCHANGED <<clock, row, effects>>
    BY <1>7 DEF vars, IndInv, TypeOK
  <2>2. D \in SUBSET Drains
    OBVIOUS
  <2> HIDE DEF D
  <2> QED BY <2>1, <2>2, IdleStep
<1> QED
  BY <1>1, <1>2, <1>3, <1>4, <1>5, <1>6, <1>7 DEF Next

\* The inductive invariant holds of every reachable state.
THEOREM Invariance == Spec => []IndInv
  BY InitIndInv, StepIndInv, PTL DEF Spec

\* Types, and with them the bound on attempts: no row is ever charged more than
\* OUTBOX_MAX_ATTEMPTS attempts.
THEOREM TypeCorrect == Spec => []TypeOK
<1>1. IndInv => TypeOK
  BY DEF IndInv
<1> QED
  BY <1>1, Invariance, PTL

\* fenceWhere, which leaves the expiry out, tells every two attempts apart.
THEOREM FenceSound == Spec => []FenceIdentifiesAttempt
<1>1. IndInv => FenceIdentifiesAttempt
  BY DEF IndInv
<1> QED
  BY <1>1, Invariance, PTL

\* The lease is mutual exclusion for those who believe in it: two attempts with
\* running leases would both be fenced, hence one attempt.
THEOREM LeaseMutex == Spec => []LeaseExclusive
<1>1. IndInv => LeaseExclusive
  <2> SUFFICES ASSUME IndInv, NEW d \in Drains, NEW e \in Drains, d # e,
                      drain[d].intent = drain[e].intent, drain[d].intent # NoIntent
               PROVE  drain[d].until <= clock \/ drain[e].until <= clock
    BY DEF LeaseExclusive
  <2>1. Busy(d) /\ Busy(e)
    BY DEF IndInv, DrainOK, Busy, Idle
  <2>2. ~(Fenced(d) /\ Fenced(e))
    BY ShapeAssumption DEF IndInv, FenceIdentifiesAttempt, Fenced
  <2> QED
    BY <2>1, <2>2 DEF IndInv, Lapsed
<1> QED
  BY <1>1, Invariance, PTL

\* The provider is called at most once per attempt, so at most MaxAttempts times
\* for one intent.
THEOREM EffectBound == Spec => []OneEffectPerAttempt
<1>1. IndInv => OneEffectPerAttempt
  BY DEF IndInv, EffectsOK, OneEffectPerAttempt
<1> QED
  BY <1>1, Invariance, PTL

\* One active attempt per notification, member and channel.
THEOREM SlotExclusive == Spec => []ActiveSlotUnique
<1>1. IndInv => ActiveSlotUnique
  BY DEF IndInv
<1> QED
  BY <1>1, Invariance, PTL

\* The horizon check of a deferral can never fire.
THEOREM DeferAccepted == Spec => []DeferNeverRefused
<1>1. IndInv => DeferNeverRefused
  <2> SUFFICES ASSUME IndInv, NEW d \in Drains, drain[d].pc = "settling",
                      drain[d].outcome = "conflict", DeferUntil(d) > clock + BackoffMax
               PROVE  FALSE
    BY DEF DeferNeverRefused, HorizonRefused
  <2>1. /\ drain[d].horizon + Base <= clock + BackoffMax
        /\ drain[d].horizon \in Nat /\ clock \in Nat
    BY DEF IndInv, DrainOK, TypeOK, DrainStates
  <2> QED
    BY <2>1, Numbers DEF DeferUntil, Max2
<1> QED
  BY <1>1, Invariance, PTL

\* No pending row is out of attempts, which claim would then skip for ever.
THEOREM NeverStranded == Spec => []PendingNeverStranded
<1>1. IndInv => PendingNeverStranded
  BY DEF IndInv, RowOK, PendingNeverStranded
<1> QED
  BY <1>1, Invariance, PTL

-----------------------------------------------------------------------------
(* The outbox implements the life cycle of DurableIntent. *)

\* A step in which no row changes its status or its attempts is a stutter.
LEMMA PromiseStutter ==
  ASSUME IndInv, row' \in [Intents -> Rows],
         \A i \in Intents : row'[i].status = row[i].status /\ row'[i].attempts = row[i].attempts
  PROVE  UNCHANGED Promise!vars
<1>1. /\ [i \in Intents |-> row'[i].status] = [i \in Intents |-> row[i].status]
      /\ [i \in Intents |-> row'[i].attempts] = [i \in Intents |-> row[i].attempts]
  OBVIOUS
<1> QED
  BY <1>1 DEF Promise!vars

\* Attempts that reached the limit are exactly at it.
LEMMA ExhaustedAttempts ==
  ASSUME IndInv, NEW j \in Intents, Exhausted(j)
  PROVE  row[j].status = "processing" /\ row[j].attempts = MaxAttempts
<1>1. row[j].attempts \in 0..MaxAttempts
  BY DEF IndInv, TypeOK, Rows
<1>2. row[j].attempts >= MaxAttempts /\ row[j].status = "processing"
  BY DEF Exhausted, Expired
<1> QED
  BY <1>1, <1>2, Numbers

\* A claim buries the rows of I and takes those of J.
LEMMA PromiseTry ==
  ASSUME NEW I \in SUBSET Intents, NEW J \in SUBSET Intents,
         \A j \in I : /\ [k \in Intents |-> row[k].status][j] = "processing"
                      /\ [k \in Intents |-> row[k].attempts][j] = MaxAttempts,
         \A j \in J : /\ [k \in Intents |-> row[k].status][j] \in {"pending", "processing"}
                      /\ [k \in Intents |-> row[k].attempts][j] < MaxAttempts,
         [j \in Intents |-> row'[j].status]
           = [j \in Intents |-> IF j \in I THEN "dead"
                                ELSE IF j \in J THEN "processing" ELSE row[j].status],
         [j \in Intents |-> row'[j].attempts]
           = [j \in Intents |-> IF j \in J THEN row[j].attempts + 1 ELSE row[j].attempts]
  PROVE  Promise!Try
<1> DEFINE S == [k \in Intents |-> row[k].status]
           A == [k \in Intents |-> row[k].attempts]
<1>1. [j \in Intents |-> row'[j].status]
        = [j \in Intents |-> IF j \in I THEN "dead" ELSE IF j \in J THEN "processing" ELSE S[j]]
  OBVIOUS
<1>2. [j \in Intents |-> row'[j].attempts] = [j \in Intents |-> IF j \in J THEN A[j] + 1 ELSE A[j]]
  OBVIOUS
<1>3. /\ \A j \in I : S[j] = "processing" /\ A[j] = MaxAttempts
      /\ \A j \in J : S[j] \in {"pending", "processing"} /\ A[j] < MaxAttempts
  OBVIOUS
<1> SUFFICES \E X \in SUBSET Intents, Y \in SUBSET Intents :
      /\ \A j \in X : S[j] = "processing" /\ A[j] = MaxAttempts
      /\ \A j \in Y : S[j] \in {"pending", "processing"} /\ A[j] < MaxAttempts
      /\ [j \in Intents |-> row'[j].status]
           = [j \in Intents |-> IF j \in X THEN "dead" ELSE IF j \in Y THEN "processing" ELSE S[j]]
      /\ [j \in Intents |-> row'[j].attempts] = [j \in Intents |-> IF j \in Y THEN A[j] + 1 ELSE A[j]]
  BY Zenon DEF Promise!Try
<1> HIDE DEF S, A
<1> WITNESS I \in SUBSET Intents, J \in SUBSET Intents
<1> QED
  BY <1>1, <1>2, <1>3

LEMMA PromiseStep == IndInv /\ IndInv' /\ [Next]_vars => [Promise!Next]_Promise!vars
<1> SUFFICES ASSUME IndInv, IndInv', [Next]_vars PROVE [Promise!Next]_Promise!vars
  OBVIOUS
<1> USE DEF Promise!Next
<1>0. row \in [Intents -> Rows] /\ row' \in [Intents -> Rows]
  BY DEF IndInv, TypeOK
<1>1. ASSUME NEW i \in Intents, Enqueue(i) PROVE Promise!Create
  <2>1. /\ row[i].status = "absent" /\ row[i].attempts = 0
        /\ row' = [row EXCEPT ![i] = PendingRow]
        /\ PendingRow.status = "pending" /\ PendingRow.attempts = 0
    BY <1>1, PendingRowFields DEF Enqueue, IndInv, TypeOK, RowOK
  <2>2. [j \in Intents |-> row'[j].status]
          = [j \in Intents |-> IF j \in {i} THEN "pending" ELSE row[j].status]
    BY <1>0, <2>1
  <2>3. [j \in Intents |-> row'[j].attempts] = [j \in Intents |-> row[j].attempts]
    BY <1>0, <2>1
  <2>4. {i} \in SUBSET Intents
    OBVIOUS
  <2> QED BY <2>1, <2>2, <2>3, <2>4 DEF Promise!Create
<1>2. ASSUME NEW d \in Drains, NEW i \in Intents, Claim(d, i) PROVE Promise!Try
  <2> DEFINE I == {j \in Intents : Exhausted(j)}
             J == {i}
             nr == [Swept[i] EXCEPT !.status = "processing", !.attempts = row[i].attempts + 1,
                      !.owner = ProcOf[d], !.lockedAt = clock, !.expiresAt = clock + Lease]
  <2>1. Claimable(i) /\ row' = [Swept EXCEPT ![i] = nr]
    BY <1>2 DEF Claim
  <2>2. Swept \in [Intents -> Rows]
    BY SweptFields DEF Swept
  <2>3. /\ row[i].attempts < MaxAttempts /\ row[i].status \in {"pending", "processing"}
        /\ row[i].attempts \in Nat
    BY <1>0, <2>1 DEF Claimable, Expired, Rows
  <2>4. \A j \in I : row[j].status = "processing" /\ row[j].attempts = MaxAttempts /\ j # i
    BY <2>3, ExhaustedAttempts, Numbers
  <2>5. nr.status = "processing" /\ nr.attempts = row[i].attempts + 1
    BY <2>2 DEF Rows
  <2> HIDE DEF nr
  <2>6. \A j \in Intents :
          /\ row'[j].status = IF j \in I THEN "dead"
                              ELSE IF j \in J THEN "processing" ELSE row[j].status
          /\ row'[j].attempts = IF j \in J THEN row[j].attempts + 1 ELSE row[j].attempts
    BY <2>1, <2>2, <2>4, <2>5, SweptFields
  <2> HIDE DEF I, J
  <2>7. [j \in Intents |-> row'[j].status]
          = [j \in Intents |-> IF j \in I THEN "dead"
                               ELSE IF j \in J THEN "processing" ELSE row[j].status]
    BY <2>6
  <2>8. [j \in Intents |-> row'[j].attempts]
          = [j \in Intents |-> IF j \in J THEN row[j].attempts + 1 ELSE row[j].attempts]
    BY <2>6
  <2>9. I \in SUBSET Intents /\ J = {i} /\ J \in SUBSET Intents
    BY DEF I, J
  <2>10. /\ \A j \in I : /\ [k \in Intents |-> row[k].status][j] = "processing"
                         /\ [k \in Intents |-> row[k].attempts][j] = MaxAttempts
         /\ \A j \in J : /\ [k \in Intents |-> row[k].status][j] \in {"pending", "processing"}
                         /\ [k \in Intents |-> row[k].attempts][j] < MaxAttempts
    BY <2>3, <2>4, <2>9
  <2> QED BY <2>7, <2>8, <2>9, <2>10, PromiseTry
<1>3. ASSUME NEW d \in Drains, ClaimNothing(d) PROVE Promise!Try
  <2> DEFINE I == {j \in Intents : Exhausted(j)}
  <2>1. \A j \in I : row[j].status = "processing" /\ row[j].attempts = MaxAttempts
    BY ExhaustedAttempts
  <2>2. \A j \in Intents : /\ row'[j].status = IF j \in I THEN "dead" ELSE row[j].status
                           /\ row'[j].attempts = row[j].attempts
    BY <1>3, SweptFields DEF ClaimNothing
  <2>3. I \in SUBSET Intents /\ {} \in SUBSET Intents
    OBVIOUS
  <2> HIDE DEF I
  <2>4. [j \in Intents |-> row'[j].status]
          = [j \in Intents |-> IF j \in I THEN "dead"
                               ELSE IF j \in {} THEN "processing" ELSE row[j].status]
    BY <2>2
  <2>5. [j \in Intents |-> row'[j].attempts]
          = [j \in Intents |-> IF j \in {} THEN row[j].attempts + 1 ELSE row[j].attempts]
    BY <2>2
  <2>6. \A j \in I : /\ [k \in Intents |-> row[k].status][j] = "processing"
                     /\ [k \in Intents |-> row[k].attempts][j] = MaxAttempts
    BY <2>1, <2>3
  <2> QED BY <2>3, <2>4, <2>5, <2>6, PromiseTry
<1>4. ASSUME NEW d \in Drains, Start(d) \/ Heartbeat(d) \/ BeforeEffect(d) \/ TokenCall(d)
                                \/ Effect(d) \/ NoEffect(d) \/ Authorize(d)
      PROVE  UNCHANGED Promise!vars
  <2>1. row' = row \/ (Held(d) /\ row' = Renewed(d))
    BY <1>4 DEF Start, Heartbeat, BeforeEffect, TokenCall, Effect, NoEffect, Authorize
  <2>2. \A j \in Intents : row'[j].status = row[j].status /\ row'[j].attempts = row[j].attempts
    <3>1. CASE row' = row
      BY <3>1
    <3>2. CASE Held(d) /\ row' = Renewed(d)
      <4> DEFINE k == drain[d].intent
                 nr == [row[k] EXCEPT !.expiresAt = clock + Lease]
      <4>1. k \in Intents /\ row' = [row EXCEPT ![k] = nr]
        BY <3>2 DEF Held, Fenced, Renewed
      <4>2. nr.status = row[k].status /\ nr.attempts = row[k].attempts
        BY <1>0, <4>1 DEF Rows
      <4> HIDE DEF nr
      <4> QED BY <1>0, <4>1, <4>2
    <3> QED BY <2>1, <3>1, <3>2
  <2> QED BY <1>0, <2>2, PromiseStutter
<1>5. ASSUME NEW d \in Drains, Expand(d) PROVE [Promise!Next]_Promise!vars
  <2> DEFINE M == {c \in ChildrenOf[drain[d].intent] : row[c].status = "absent"}
  <2>1. CASE row' = row
    <3>1. \A j \in Intents : row'[j].status = row[j].status /\ row'[j].attempts = row[j].attempts
      BY <2>1
    <3> QED BY <1>0, <3>1, PromiseStutter
  <2>2. CASE row' = [i \in Intents |-> IF i \in M THEN PendingRow ELSE row[i]]
    <3>1. M \in SUBSET Intents
      BY <1>5, ShapeAssumption DEF Expand, IndInv, DrainOK
    <3>2. /\ \A c \in M : row[c].status = "absent" /\ row[c].attempts = 0
          /\ PendingRow.status = "pending" /\ PendingRow.attempts = 0
      BY <3>1, PendingRowFields DEF IndInv, TypeOK, RowOK
    <3> HIDE DEF M
    <3>3. /\ [j \in Intents |-> row'[j].status]
               = [j \in Intents |-> IF j \in M THEN "pending" ELSE row[j].status]
          /\ [j \in Intents |-> row'[j].attempts] = [j \in Intents |-> row[j].attempts]
      BY <2>2, <3>1, <3>2
    <3>4. CASE M = {}
      <4>1. \A j \in Intents : row'[j].status = row[j].status /\ row'[j].attempts = row[j].attempts
        BY <2>2, <3>4
      <4> QED BY <1>0, <4>1, PromiseStutter
    <3>5. CASE M # {}
      BY <3>1, <3>2, <3>3, <3>5 DEF Promise!Create
    <3> QED BY <3>4, <3>5
  <2> QED BY <1>5, <2>1, <2>2 DEF Expand
<1>6. ASSUME NEW d \in Drains, Settle(d) PROVE [Promise!Next]_Promise!vars
  <2> DEFINE i == drain[d].intent
             r == row[i]
             nr == Settled(d)
  <2>1. CASE row' = row
    <3>1. \A j \in Intents : row'[j].status = row[j].status /\ row'[j].attempts = row[j].attempts
      BY <2>1
    <3> QED BY <1>0, <3>1, PromiseStutter
  <2>2. CASE Fenced(d) /\ row' = [row EXCEPT ![i] = nr]
    <3>1. /\ i \in Intents /\ r \in Rows /\ r.status = "processing"
          /\ drain[d].attempts = r.attempts /\ r.attempts \in 1..MaxAttempts
          /\ drain[d].outcome \in {"ok", "retry", "dead", "conflict"}
          /\ drain[d].outcome = "conflict" => i \in Roots
      BY <1>6, <2>2 DEF IndInv, TypeOK, DrainStates, DrainOK, Lapsed, Fenced, Busy, Settle
    <3>2. CASE drain[d].outcome = "ok"
      <4>1. nr.status = "succeeded" /\ nr.attempts = r.attempts
        BY <3>1, <3>2, UnfencedFields DEF Settled, Spent
      <4> HIDE DEF nr
      <4>2. /\ [j \in Intents |-> row'[j].status] = [[j \in Intents |-> row[j].status] EXCEPT ![i] = "succeeded"]
            /\ [j \in Intents |-> row'[j].attempts] = [[j \in Intents |-> row[j].attempts] EXCEPT ![i] = r.attempts]
            /\ [j \in Intents |-> row[j].status][i] = "processing"
            /\ [j \in Intents |-> row[j].attempts][i] = r.attempts
        BY <1>0, <2>2, <3>1, <4>1
      <4> QED BY <3>1, <4>2 DEF Promise!Succeed, Promise!Move
    <3>3. CASE drain[d].outcome = "dead" \/ (drain[d].outcome = "retry" /\ drain[d].attempts >= MaxAttempts)
      <4>1. nr.status = "dead" /\ nr.attempts = r.attempts
        BY <3>1, <3>3, UnfencedFields DEF Settled, Spent
      <4> HIDE DEF nr
      <4>2. /\ [j \in Intents |-> row'[j].status] = [[j \in Intents |-> row[j].status] EXCEPT ![i] = "dead"]
            /\ [j \in Intents |-> row'[j].attempts] = [[j \in Intents |-> row[j].attempts] EXCEPT ![i] = r.attempts]
            /\ [j \in Intents |-> row[j].status][i] = "processing"
            /\ [j \in Intents |-> row[j].attempts][i] = r.attempts
        BY <1>0, <2>2, <3>1, <4>1
      <4> QED BY <3>1, <4>2 DEF Promise!Abandon, Promise!Move
    <3>4. CASE drain[d].outcome = "retry" /\ ~(drain[d].attempts >= MaxAttempts)
      <4>1. nr.status = "pending" /\ nr.attempts = r.attempts
        <5>1. nr = [Unfenced(r, "pending") EXCEPT !.availableAt = clock + Backoff(drain[d].attempts)]
          BY <3>4 DEF Settled, Spent
        <5> QED BY <3>1, <5>1, UnfencedFields DEF Rows
      <4> HIDE DEF nr
      <4>2. /\ [j \in Intents |-> row'[j].status] = [[j \in Intents |-> row[j].status] EXCEPT ![i] = "pending"]
            /\ [j \in Intents |-> row'[j].attempts] = [[j \in Intents |-> row[j].attempts] EXCEPT ![i] = r.attempts]
            /\ [j \in Intents |-> row[j].status][i] = "processing"
            /\ [j \in Intents |-> row[j].attempts][i] = r.attempts
        BY <1>0, <2>2, <3>1, <4>1
      <4>3. r.attempts < MaxAttempts
        BY <3>1, <3>4, Numbers
      <4> QED BY <3>1, <4>2, <4>3 DEF Promise!Retry, Promise!Move
    <3>5. CASE drain[d].outcome = "conflict"
      <4>1. nr.status = "pending" /\ nr.attempts = r.attempts - 1
        <5>1. nr = [Unfenced(r, "pending") EXCEPT
                      !.attempts = r.attempts - 1, !.availableAt = DeferUntil(d)]
          BY <3>5 DEF Settled, Spent
        <5> QED BY <3>1, <5>1, UnfencedFields DEF Rows
      <4> HIDE DEF nr
      <4>2. /\ [j \in Intents |-> row'[j].status] = [[j \in Intents |-> row[j].status] EXCEPT ![i] = "pending"]
            /\ [j \in Intents |-> row'[j].attempts] = [[j \in Intents |-> row[j].attempts] EXCEPT ![i] = r.attempts - 1]
            /\ [j \in Intents |-> row[j].status][i] = "processing"
            /\ [j \in Intents |-> row[j].attempts][i] = r.attempts
        BY <1>0, <2>2, <3>1, <4>1
      <4>3. r.attempts > 0 /\ i \in Roots
        BY <3>1, <3>5
      <4> QED BY <3>1, <4>2, <4>3 DEF Promise!Defer, Promise!Move
    <3> QED BY <3>1, <3>2, <3>3, <3>4, <3>5
  <2> QED BY <1>6, <2>1, <2>2 DEF Settle
<1>7. CASE (\E p \in Procs : Stop(p) \/ Crash(p)) \/ Tick \/ UNCHANGED vars
  <2>1. row' = row
    BY <1>7 DEF Stop, Crash, Tick, vars
  <2>2. \A j \in Intents : row'[j].status = row[j].status /\ row'[j].attempts = row[j].attempts
    BY <2>1
  <2> QED BY <1>0, <2>2, PromiseStutter
<1> QED
  BY <1>1, <1>2, <1>3, <1>4, <1>5, <1>6, <1>7 DEF Next, Attempt

\* Every behaviour of the outbox is a behaviour of the intent life cycle: attempts
\* stay within the limit, and "succeeded" and "dead" are final, whoever wakes late.
THEOREM Refinement == Spec => ImplementsPromise
<1>1. Init => Promise!Init
  BY DEF Init, NoRow, Promise!Init
<1> QED
  BY <1>1, InitIndInv, PromiseStep, Invariance, PTL DEF Spec, ImplementsPromise, Promise!Spec

-----------------------------------------------------------------------------
(* No row is out of reach: what a drain that keeps polling relies on. *)

\* A row that waits never waits longer than the longest back-off, a root that is
\* deferred again and again included.
Waits(i) == row[i].status = "pending" => row[i].availableAt <= clock + BackoffMax

WaitInv == \A i \in Intents : Waits(i)

\* What no step may do to row j: wake a finished row, give an attempt at a message
\* back, or put a row off beyond the longest back-off.
MovesOn(j) ==
    /\ row[j].status \in {"succeeded", "dead"} => row'[j] = row[j]
    /\ j \notin Roots => row'[j].attempts >= row[j].attempts
    /\ row'[j] # row[j] /\ row'[j].status = "pending" =>
          row'[j].availableAt <= clock + BackoffMax

\* A renewed lease changes the expiry of a row in processing and nothing else.
LEMMA RenewMovesOn ==
  ASSUME IndInv, NEW d \in Drains, Fenced(d), row' = Renewed(d), NEW j \in Intents
  PROVE  MovesOn(j)
<1>1. row[j] \in Rows /\ clock \in Nat
  BY DEF IndInv, TypeOK
<1>2. CASE drain[d].intent = j
  <2>1. /\ row'[j] = [row[j] EXCEPT !.expiresAt = clock + Lease]
        /\ row[j].status = "processing"
    BY <1>2 DEF Fenced, Renewed, IndInv, TypeOK
  <2> QED BY <1>1, <2>1 DEF MovesOn, Rows
<1>3. CASE drain[d].intent # j
  <2>1. row'[j] = row[j]
    BY <1>3 DEF Renewed, IndInv, TypeOK
  <2> QED BY <1>1, <2>1 DEF MovesOn, Rows
<1> QED
  BY <1>2, <1>3

LEMMA SweptMovesOn ==
  ASSUME IndInv, NEW j \in Intents, row'[j] = Swept[j]
  PROVE  MovesOn(j)
<1>1. row[j] \in Rows
  BY DEF IndInv, TypeOK
<1>2. CASE Exhausted(j)
  BY <1>1, <1>2, SweptFields DEF MovesOn, Rows, Exhausted, Expired
<1>3. CASE ~Exhausted(j)
  BY <1>1, <1>3, SweptFields DEF MovesOn, Rows
<1> QED
  BY <1>2, <1>3

LEMMA ClaimMovesOn ==
  ASSUME IndInv, NEW d \in Drains, NEW i \in Intents, Claim(d, i), NEW j \in Intents
  PROVE  MovesOn(j)
<1>1. row[j] \in Rows
  BY DEF IndInv, TypeOK
<1>2. CASE j = i
  <2>1. ~Exhausted(i) /\ row[i].status \in {"pending", "processing"}
    BY <1>1, <1>2, Numbers DEF Claim, Claimable, Exhausted, Expired, Rows
  <2>2. Swept[i] = row[i]
    BY <2>1, SweptFields
  <2>3. row'[i] = [row[i] EXCEPT !.status = "processing", !.attempts = row[i].attempts + 1,
                   !.owner = ProcOf[d], !.lockedAt = clock, !.expiresAt = clock + Lease]
    BY <2>2 DEF Claim, Swept
  <2> QED BY <1>1, <1>2, <2>1, <2>3 DEF MovesOn, Rows
<1>3. CASE j # i
  <2>1. row'[j] = Swept[j]
    BY <1>3 DEF Claim, Swept
  <2> QED BY <2>1, SweptMovesOn
<1> QED
  BY <1>2, <1>3

\* The four outcomes of an attempt, the two that wait within the longest back-off.
LEMMA SettleMovesOn ==
  ASSUME IndInv, NEW d \in Drains, Settle(d), NEW j \in Intents
  PROVE  MovesOn(j)
<1>0. row[j] \in Rows /\ clock \in Nat
  BY DEF IndInv, TypeOK
<1>1. CASE row'[j] = row[j]
  BY <1>0, <1>1 DEF MovesOn, Rows
<1>2. CASE row'[j] # row[j]
  <2> DEFINE r == row[j]
             nr == Settled(d)
  <2>1. /\ drain[d].intent = j /\ Fenced(d) /\ ~HorizonRefused(d) /\ row'[j] = nr
        /\ drain[d].pc = "settling"
    BY <1>2 DEF Settle, IndInv, TypeOK
  <2>2. /\ r \in Rows /\ clock \in Nat /\ r.status = "processing"
        /\ drain[d].attempts \in 1..MaxAttempts
        /\ drain[d].outcome \in {"ok", "retry", "dead", "conflict"}
    BY <1>0, <2>1 DEF IndInv, TypeOK, DrainStates, DrainOK, Fenced, Busy
  <2>3. CASE drain[d].outcome = "ok"
    <3>1. nr = Unfenced(r, "succeeded")
      BY <2>1, <2>3 DEF Settled
    <3> HIDE DEF nr
    <3> QED BY <2>1, <2>2, <3>1, UnfencedFields DEF MovesOn, Rows
  <2>4. CASE drain[d].outcome = "dead" \/ (drain[d].outcome = "retry" /\ drain[d].attempts >= MaxAttempts)
    <3>1. nr = Unfenced(r, "dead")
      BY <2>1, <2>4 DEF Settled, Spent
    <3> HIDE DEF nr
    <3> QED BY <2>1, <2>2, <3>1, UnfencedFields DEF MovesOn, Rows
  <2>5. CASE drain[d].outcome = "retry" /\ ~(drain[d].attempts >= MaxAttempts)
    <3> DEFINE b == Backoff(drain[d].attempts)
               u == Unfenced(r, "pending")
    <3>1. nr = [u EXCEPT !.availableAt = clock + b]
      BY <2>1, <2>5 DEF Settled, Spent
    <3>2. b \in Nat /\ b + Base <= BackoffMax
      BY <2>2, <2>5, TimingAssumption
    <3>3. u \in Rows /\ u.attempts = r.attempts
      BY <2>2, UnfencedFields
    <3> HIDE DEF u, b
    <3>4. nr.attempts = r.attempts /\ nr.availableAt = clock + b
      BY <2>2, <3>1, <3>2, <3>3 DEF Rows
    <3> HIDE DEF nr
    <3> QED BY <2>1, <2>2, <3>2, <3>4, Numbers DEF MovesOn, Rows
  <2>6. CASE drain[d].outcome = "conflict"
    <3> DEFINE u == Unfenced(r, "pending")
               t == DeferUntil(d)
    <3>1. nr = [u EXCEPT !.attempts = r.attempts - 1, !.availableAt = t]
      BY <2>1, <2>6 DEF Settled
    <3>2. t \in Nat /\ t <= clock + BackoffMax
      BY <2>1, <2>2, <2>6, Numbers DEF HorizonRefused, DeferUntil, Max2, IndInv, TypeOK, DrainStates
    <3>3. u \in Rows
      BY <2>2, UnfencedFields
    <3> HIDE DEF u, t
    <3>4. nr.availableAt = t
      BY <3>1, <3>3 DEF Rows
    <3>5. j \in Roots
      BY <2>1, <2>6 DEF IndInv, DrainOK
    <3> HIDE DEF nr
    <3> QED BY <2>1, <2>2, <3>2, <3>4, <3>5 DEF MovesOn
  <2> QED
    BY <2>2, <2>3, <2>4, <2>5, <2>6
<1> QED
  BY <1>1, <1>2

LEMMA InsertMovesOn ==
  ASSUME IndInv, NEW j \in Intents, row[j].status = "absent", row'[j] = PendingRow
  PROVE  MovesOn(j)
<1>1. clock \in Nat /\ row[j].attempts = 0
  BY DEF IndInv, TypeOK, RowOK
<1> QED
  BY <1>1, PendingRowFields, Numbers DEF MovesOn

LEMMA StepMovesOn ==
  ASSUME IndInv, [Next]_vars
  PROVE  \A j \in Intents : MovesOn(j)
<1> SUFFICES ASSUME NEW j \in Intents PROVE MovesOn(j)
  OBVIOUS
<1>0. row[j] \in Rows
  BY DEF IndInv, TypeOK
<1>1. CASE row'[j] = row[j]
  BY <1>0, <1>1 DEF MovesOn, Rows
<1>2. ASSUME NEW i \in Intents, Enqueue(i) PROVE MovesOn(j)
  <2>1. CASE i = j
    <3>1. row[j].status = "absent" /\ row'[j] = PendingRow
      BY <1>2, <2>1 DEF Enqueue, IndInv, TypeOK
    <3> QED BY <3>1, InsertMovesOn
  <2>2. CASE i # j
    BY <1>1, <1>2, <2>2 DEF Enqueue, IndInv, TypeOK
  <2> QED BY <2>1, <2>2
<1>3. ASSUME NEW d \in Drains, NEW i \in Intents, Claim(d, i) PROVE MovesOn(j)
  BY <1>3, ClaimMovesOn
<1>4. ASSUME NEW d \in Drains, ClaimNothing(d) PROVE MovesOn(j)
  BY <1>4, SweptMovesOn DEF ClaimNothing
<1>5. ASSUME NEW d \in Drains, Start(d) \/ Heartbeat(d) \/ BeforeEffect(d) PROVE MovesOn(j)
  <2>1. UNCHANGED row \/ (Fenced(d) /\ row' = Renewed(d))
    BY <1>5 DEF Start, Heartbeat, BeforeEffect, Held
  <2> QED BY <1>1, <2>1, RenewMovesOn
<1>6. ASSUME NEW d \in Drains, Expand(d) PROVE MovesOn(j)
  <2>1. row'[j] = row[j] \/ (row[j].status = "absent" /\ row'[j] = PendingRow)
    BY <1>6 DEF Expand
  <2> QED BY <1>1, <2>1, InsertMovesOn
<1>7. ASSUME NEW d \in Drains, Settle(d) PROVE MovesOn(j)
  BY <1>7, SettleMovesOn
<1>8. ASSUME NEW d \in Drains, TokenCall(d) \/ Effect(d) \/ NoEffect(d) \/ Authorize(d)
      PROVE  MovesOn(j)
  BY <1>1, <1>8 DEF TokenCall, Effect, NoEffect, Authorize
<1>9. ASSUME NEW p \in Procs, Stop(p) \/ Crash(p) PROVE MovesOn(j)
  BY <1>1, <1>9 DEF Stop, Crash
<1>10. CASE Tick \/ UNCHANGED vars
  BY <1>1, <1>10 DEF Tick, vars
<1> QED
  BY <1>2, <1>3, <1>4, <1>5, <1>6, <1>7, <1>8, <1>9, <1>10 DEF Next, Attempt

\* Time never runs backwards.
LEMMA ClockAdvances == IndInv /\ [Next]_vars => clock' \in Nat /\ clock' >= clock
<1> SUFFICES ASSUME IndInv, [Next]_vars PROVE clock' \in Nat /\ clock' >= clock
  OBVIOUS
<1>1. clock \in Nat
  BY DEF IndInv, TypeOK
<1>2. clock' = clock \/ clock' = clock + 1
  BY DEF Next, vars, Enqueue, Claim, ClaimNothing, Attempt, Start, Heartbeat, BeforeEffect,
     TokenCall, Effect, NoEffect, Authorize, Expand, Settle, Stop, Crash, Tick
<1> QED
  BY <1>1, <1>2

LEMMA WaitInvHolds == Spec => []WaitInv
<1>1. Init => WaitInv
  BY DEF Init, NoRow, WaitInv, Waits
<1>2. IndInv /\ IndInv' /\ WaitInv /\ [Next]_vars => WaitInv'
  <2> SUFFICES ASSUME IndInv, IndInv', WaitInv, [Next]_vars, NEW j \in Intents,
                      row'[j].status = "pending"
               PROVE  row'[j].availableAt <= clock' + BackoffMax
    BY DEF WaitInv, Waits
  <2>1. row'[j].availableAt <= clock + BackoffMax
    BY StepMovesOn DEF MovesOn, WaitInv, Waits
  <2>2. clock \in Nat /\ clock' \in Nat /\ clock' >= clock /\ row'[j].availableAt \in Nat
    BY ClockAdvances DEF IndInv, TypeOK, Rows
  <2> QED BY <2>1, <2>2, Numbers
<1> QED
  BY <1>1, <1>2, Invariance, PTL DEF Spec

\* An active row can be taken up within BackoffMax, and from then on it is either
\* claimable or due to be buried by the next claim: neither a crash nor a failure
\* nor a chain of deferrals puts it where no drain looks again.
WithinReach ==
    \A i \in Intents : row[i].status \in Active =>
        /\ FreesAt(i) <= clock + BackoffMax
        /\ FreesAt(i) <= clock => Claimable(i) \/ Exhausted(i)

\* claim, nack, defer and the renewals together keep every active row in reach.
THEOREM NeverOutOfReach == Spec => []WithinReach
<1>1. IndInv /\ WaitInv => WithinReach
  <2> SUFFICES ASSUME IndInv, WaitInv, NEW i \in Intents, row[i].status \in Active
               PROVE  /\ FreesAt(i) <= clock + BackoffMax
                      /\ FreesAt(i) <= clock => Claimable(i) \/ Exhausted(i)
    BY DEF WithinReach
  <2>1. row[i] \in Rows /\ clock \in Nat /\ RowOK(i) /\ Waits(i)
    BY DEF IndInv, TypeOK, WaitInv
  <2>2. CASE row[i].status = "pending"
    BY <2>1, <2>2, Numbers DEF FreesAt, Waits, RowOK, Claimable, Rows
  <2>3. CASE row[i].status = "processing"
    BY <2>1, <2>3, Numbers DEF FreesAt, RowOK, Claimable, Exhausted, Expired, Rows
  <2> QED BY <2>2, <2>3 DEF Active
<1> QED
  BY <1>1, Invariance, WaitInvHolds, PTL

\* A finished row is never written again, and the attempt a message was sent in is
\* never given back, whichever drain wakes up late.
THEOREM RowsMoveOn ==
    Spec => [][\A j \in Intents :
                  /\ row[j].status \in {"succeeded", "dead"} => row'[j] = row[j]
                  /\ j \notin Roots => row'[j].attempts >= row[j].attempts]_vars
<1>1. IndInv /\ [Next]_vars =>
        [\A j \in Intents :
            /\ row[j].status \in {"succeeded", "dead"} => row'[j] = row[j]
            /\ j \notin Roots => row'[j].attempts >= row[j].attempts]_vars
  BY StepMovesOn DEF MovesOn
<1> QED
  BY <1>1, Invariance, PTL DEF Spec

-----------------------------------------------------------------------------
(* How many messages one intent can cost. *)

\* The attempts at i that called the provider.
Messages(i) == {n \in 1..MaxAttempts : effects[i][n] # 0}

\* The member is written to at most as often as the row was charged an attempt, so
\* at most OUTBOX_MAX_ATTEMPTS times, and never by a broadcast root.
MessagesBounded ==
    \A i \in Intents :
        /\ IsFiniteSet(Messages(i))
        /\ Cardinality(Messages(i)) <= row[i].attempts
        /\ i \in Roots => Messages(i) = {}

\* Leases, crashes and ambiguous answers included, the messages of an intent are
\* counted by the attempts on its row.
THEOREM MessagesCounted == Spec => []MessagesBounded
<1>1. IndInv => MessagesBounded
  <2> SUFFICES ASSUME IndInv, NEW i \in Intents
               PROVE  /\ IsFiniteSet(Messages(i))
                      /\ Cardinality(Messages(i)) <= row[i].attempts
                      /\ i \in Roots => Messages(i) = {}
    BY DEF MessagesBounded
  <2>1. row[i].attempts \in 0..MaxAttempts
    BY DEF IndInv, TypeOK, Rows
  <2>2. row[i].attempts \in Nat
    BY <2>1, Numbers
  <2>3. Messages(i) \subseteq 1..row[i].attempts
    <3> SUFFICES ASSUME NEW n \in Messages(i) PROVE n \in 1..row[i].attempts
      OBVIOUS
    <3>1. n \in 1..MaxAttempts /\ effects[i][n] # 0
      BY DEF Messages
    <3>2. ~(n > row[i].attempts)
      BY <3>1 DEF IndInv, EffectsOK
    <3> QED BY <2>2, <3>1, <3>2, Numbers
  <2>4. IsFiniteSet(1..row[i].attempts) /\ Cardinality(1..row[i].attempts) = row[i].attempts
    <3>1. \A a, b \in Int : /\ IsFiniteSet(a..b)
                           /\ Cardinality(a..b) = IF a > b THEN 0 ELSE b - a + 1
      BY FS_Interval, Zenon
    <3> DEFINE n == row[i].attempts
    <3>2. n \in Nat /\ n \in Int /\ 1 \in Int
      BY <2>2
    <3> HIDE DEF n
    <3>3. (IF 1 > n THEN 0 ELSE n - 1 + 1) = n
      BY <3>2
    <3>4. IsFiniteSet(1..n) /\ Cardinality(1..n) = n
      BY <3>1, <3>2, <3>3, Zenon
    <3> QED BY <3>4 DEF n
  <2>5. IsFiniteSet(Messages(i)) /\ Cardinality(Messages(i)) <= row[i].attempts
    BY <2>3, <2>4, FS_Subset
  <2>6. i \in Roots => Messages(i) = {}
    BY DEF IndInv, EffectsOK, Messages
  <2> QED BY <2>5, <2>6
<1> QED
  BY <1>1, Invariance, PTL
=============================================================================
