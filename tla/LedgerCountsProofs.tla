-------------------------- MODULE LedgerCountsProofs --------------------------
(***************************************************************************)
(* Proofs about the two running sums of LedgerPosting: the prepared count  *)
(* of a batch and the total of a day.  The first half shows what the sum   *)
(* over a finite set of batches is, by taking a smallest counterexample;   *)
(* then come the two invariants, and last what the liveness of the jobs    *)
(* needs of every state and every step.                                    *)
(***************************************************************************)
EXTENDS LedgerPostingProofs, FoldLemmas

-----------------------------------------------------------------------------
(* Sums over finite sets. *)

\* g is the recursive function of MapThenSumSet, for E[b][m], on the sets in D.
Unfolds(E, m, D, g) ==
    g = [s \in D |-> IF s = {} THEN 0
                     ELSE E[CHOOSE x \in s : TRUE][m] + g[s \ {CHOOSE x \in s : TRUE}]]

\* The recursion over the subsets of a finite set defines a function.
LEMMA Iteration ==
  ASSUME NEW E, NEW m, NEW S, IsFiniteSet(S)
  PROVE  \E g : Unfolds(E, m, SUBSET S, g)
<1> DEFINE Bad == {n \in Nat : ~ \E g : Unfolds(E, m, Small(S, n), g)}
<1>1. \A s \in SUBSET S : IsFiniteSet(s) /\ Cardinality(s) \in Nat /\ Cardinality(s) <= Cardinality(S)
  BY FS_Subset, FS_CardinalityType
<1>2. Small(S, Cardinality(S)) = SUBSET S /\ Cardinality(S) \in Nat
  BY <1>1, FS_CardinalityType DEF Small
<1>3. Bad = {}
  <2> SUFFICES ASSUME Bad # {} PROVE FALSE
    OBVIOUS
  <2>1. PICK n \in Bad : \A k \in Bad : n <= k
    BY Smallest
  <2>2. CASE n = 0
    <3> DEFINE g == [s \in Small(S, 0) |-> 0]
    <3>1. \A s \in Small(S, 0) : s = {}
      BY <1>1, FS_EmptySet DEF Small
    <3>2. Unfolds(E, m, Small(S, 0), g)
      BY <3>1 DEF Unfolds
    <3> QED
      BY <2>1, <2>2, <3>2
  <2>3. CASE n # 0
    <3> DEFINE D == Small(S, n - 1)
               c(s) == CHOOSE x \in s : TRUE
    <3>1. n - 1 \in Nat /\ n - 1 \notin Bad
      BY <2>1, <2>3
    <3>2. PICK g : Unfolds(E, m, D, g)
      BY <3>1
    <3> DEFINE h == [s \in Small(S, n) |-> IF s = {} THEN 0 ELSE E[c(s)][m] + g[s \ {c(s)}]]
    <3>3. \A s \in Small(S, n) : s # {} => s \ {c(s)} \in D
      <4> SUFFICES ASSUME NEW s \in Small(S, n), s # {} PROVE s \ {c(s)} \in D
        OBVIOUS
      <4>1. c(s) \in s
        OBVIOUS
      <4>2. IsFiniteSet(s) /\ Cardinality(s) \in Nat /\ Cardinality(s) <= n /\ s \in SUBSET S
        BY <1>1 DEF Small
      <4>3. Cardinality(s \ {c(s)}) = Cardinality(s) - 1
        BY <4>1, <4>2, FS_RemoveElement
      <4> QED
        BY <4>2, <4>3, <2>1 DEF Small
    <3>4. D \subseteq Small(S, n)
      BY <1>1, <2>1 DEF Small
    <3>5. \A s \in D : h[s] = g[s]
      BY <3>2, <3>4 DEF Unfolds
    <3>6. \A s \in Small(S, n) : h[s] = IF s = {} THEN 0 ELSE E[c(s)][m] + h[s \ {c(s)}]
      <4> SUFFICES ASSUME NEW s \in Small(S, n)
                   PROVE  h[s] = IF s = {} THEN 0 ELSE E[c(s)][m] + h[s \ {c(s)}]
        OBVIOUS
      <4>1. h[s] = IF s = {} THEN 0 ELSE E[c(s)][m] + g[s \ {c(s)}]
        OBVIOUS
      <4>2. s # {} => h[s \ {c(s)}] = g[s \ {c(s)}]
        BY <3>3, <3>5
      <4> QED
        BY <4>1, <4>2
    <3>7. h = [s \in Small(S, n) |-> h[s]]
      OBVIOUS
    <3>8. Unfolds(E, m, Small(S, n), h)
      <4> HIDE DEF h
      <4> QED
        BY <3>6, <3>7 DEF Unfolds
    <3> QED
      BY <3>8, <2>1
  <2> QED
    BY <2>2, <2>3
<1>4. \E g : Unfolds(E, m, Small(S, Cardinality(S)), g)
  <2>1. Cardinality(S) \notin Bad
    BY <1>3
  <2> QED
    BY <1>2, <2>1
<1> QED
  BY <1>2, <1>4

\* The case of all subsets of S.
Iterates(E, m, S, g) == Unfolds(E, m, SUBSET S, g)

\* The sum as DayStateExplained writes it.
SumOver(E, m, S) == MapThenSumSet(LAMBDA b : E[b][m], S)

\* The sum is the value of that function at the whole set.
LEMMA SumIsIteration ==
  ASSUME NEW E, NEW m, NEW S, IsFiniteSet(S)
  PROVE  \E g : Iterates(E, m, S, g) /\ SumOver(E, m, S) = g[S]
<1> DEFINE g == CHOOSE g : Iterates(E, m, S, g)
<1>1. Iterates(E, m, S, g)
  BY Iteration DEF Iterates
<1>2. SumOver(E, m, S) = g[S]
  BY DEF SumOver, MapThenSumSet, MapThenFoldSet, Unfolds, Iterates
<1> QED
  BY <1>1, <1>2

\* Two tables with the same numbers in S; a table of naturals.
Agree(E, F, m, S) == \A b \in S : E[b][m] = F[b][m]
Numbers(E, m, S) == \A b \in S : E[b][m] \in Nat

\* The function depends on nothing but the numbers it adds.
LEMMA IterationUnique ==
  ASSUME NEW S, IsFiniteSet(S), NEW T, S \subseteq T,
         NEW E, NEW F, NEW m, Agree(E, F, m, S),
         NEW g, Iterates(E, m, S, g), NEW h, Iterates(F, m, T, h)
  PROVE  g[S] = h[S]
<1> DEFINE Bad == {s \in SUBSET S : g[s] # h[s]}
           c(s) == CHOOSE x \in s : TRUE
<1>1. ASSUME NEW s \in SUBSET S
      PROVE  /\ g[s] = IF s = {} THEN 0 ELSE E[c(s)][m] + g[s \ {c(s)}]
             /\ h[s] = IF s = {} THEN 0 ELSE F[c(s)][m] + h[s \ {c(s)}]
  BY <1>1 DEF Unfolds, Iterates
<1>2. ASSUME Bad # {} PROVE FALSE
  <2>1. PICK s \in Bad : \A t \in Bad : t \subseteq s => t = s
    <3>1. Bad \in SUBSET SUBSET S
      OBVIOUS
    <3> HIDE DEF Bad
    <3> QED
      BY <1>2, <3>1, SmallestSet
  <2>2. s # {}
    BY <2>1, <1>1
  <2>3. c(s) \in s
    BY <2>2
  <2>4. g[s \ {c(s)}] = h[s \ {c(s)}]
    BY <2>1, <2>3
  <2> QED
    BY <2>1, <2>2, <2>3, <2>4, <1>1 DEF Agree
<1> QED
  BY <1>2

\* The elements may be taken in any order, not only in that of CHOOSE.
AnyOrder(E, m, S, g) ==
    \A s \in SUBSET S : g[s] \in Nat /\ \A x \in s : g[s] = E[x][m] + g[s \ {x}]

\* By exchanging the element chosen first with any other.
LEMMA IterationAnyOrder ==
  ASSUME NEW S, IsFiniteSet(S), NEW E, NEW m, Numbers(E, m, S),
         NEW g, Iterates(E, m, S, g)
  PROVE  AnyOrder(E, m, S, g)
<1> DEFINE Good(s) == g[s] \in Nat /\ \A x \in s : g[s] = E[x][m] + g[s \ {x}]
           Bad == {s \in SUBSET S : ~Good(s)}
           c(s) == CHOOSE x \in s : TRUE
<1>1. ASSUME NEW s \in SUBSET S
      PROVE  g[s] = IF s = {} THEN 0 ELSE E[c(s)][m] + g[s \ {c(s)}]
  BY <1>1 DEF Unfolds, Iterates
<1>2. ASSUME Bad # {} PROVE FALSE
  <2>1. PICK s \in Bad : \A t \in Bad : t \subseteq s => t = s
    <3>1. Bad \in SUBSET SUBSET S
      OBVIOUS
    <3> HIDE DEF Bad
    <3> QED
      BY <1>2, <3>1, SmallestSet
  <2>2. s # {}
    <3>1. {} \in SUBSET S /\ g[{}] = 0
      BY <1>1
    <3>2. Good({})
      BY <3>1
    <3> QED
      BY <2>1, <3>2
  <2>3. c(s) \in s /\ s \in SUBSET S
    BY <2>1, <2>2
  <2>4. ASSUME NEW x \in s PROVE Good(s \ {x})
    BY <2>1
  <2>5. g[s] = E[c(s)][m] + g[s \ {c(s)}] /\ g[s] \in Nat
    <3>1. g[s] = E[c(s)][m] + g[s \ {c(s)}]
      BY <2>2, <2>3, <1>1
    <3>2. g[s \ {c(s)}] \in Nat
      BY <2>3, <2>4
    <3>3. E[c(s)][m] \in Nat
      BY <2>3 DEF Numbers
    <3> QED
      BY <3>1, <3>2, <3>3
  <2>6. ASSUME NEW x \in s PROVE g[s] = E[x][m] + g[s \ {x}]
    <3>1. CASE x = c(s)
      BY <2>5, <3>1
    <3>2. CASE x # c(s)
      <4> DEFINE rest == (s \ {x}) \ {c(s)}
      <4>1. rest = (s \ {c(s)}) \ {x}
        OBVIOUS
      <4>2. g[s \ {c(s)}] = E[x][m] + g[rest]
        BY <2>3, <2>4, <3>2, <4>1
      <4>3. g[s \ {x}] = E[c(s)][m] + g[rest]
        BY <2>3, <2>4, <3>2
      <4>4. x \in S /\ c(s) \in S
        BY <2>3
      <4>5. g[rest] \in Nat
        <5>1. rest \in SUBSET S /\ rest \subseteq s /\ rest # s
          BY <2>3
        <5> QED
          BY <5>1, <2>1
      <4> HIDE DEF rest, c
      <4> QED
        BY <2>5, <4>2, <4>3, <4>4, <4>5 DEF Numbers
    <3> QED
      BY <3>1, <3>2
  <2> QED
    BY <2>1, <2>5, <2>6
<1> QED
  BY <1>2 DEF AnyOrder

\* The sum over one batch more.
LEMMA SumAdd ==
  ASSUME NEW E, NEW m, NEW S, IsFiniteSet(S), NEW x, x \notin S,
         NEW T, T = S \cup {x}, Numbers(E, m, T)
  PROVE  SumOver(E, m, T) = SumOver(E, m, S) + E[x][m]
<1>1. /\ IsFiniteSet(T) /\ S \subseteq T /\ x \in T /\ T \ {x} = S
      /\ Numbers(E, m, T) /\ Agree(E, E, m, S)
      /\ T \in SUBSET T /\ S \in SUBSET T
  BY FS_AddElement DEF Agree
<1>2. IsFiniteSet(T)
  BY <1>1
<1>3. PICK g : Iterates(E, m, S, g) /\ SumOver(E, m, S) = g[S]
  BY SumIsIteration
<1>4. PICK h : Iterates(E, m, T, h) /\ SumOver(E, m, T) = h[T]
  BY <1>2, SumIsIteration
<1>5. g[S] = h[S]
  <2>1. S \subseteq T /\ IsFiniteSet(S) /\ Agree(E, E, m, S)
    BY <1>1
  <2> QED
    BY <2>1, <1>3, <1>4, IterationUnique
<1>6. AnyOrder(E, m, T, h)
  BY <1>2, <1>1, <1>4, IterationAnyOrder
<1>7. h[T] = E[x][m] + h[S] /\ h[S] \in Nat /\ E[x][m] \in Nat
  BY <1>1, <1>6 DEF Numbers, AnyOrder
<1> QED
  BY <1>3, <1>4, <1>5, <1>7

\* Equal numbers have equal sums.
LEMMA SumSame ==
  ASSUME NEW S, IsFiniteSet(S), NEW E, NEW F, NEW m, Agree(E, F, m, S)
  PROVE  SumOver(E, m, S) = SumOver(F, m, S)
<1>1. PICK g : Iterates(E, m, S, g) /\ SumOver(E, m, S) = g[S]
  BY SumIsIteration
<1>2. PICK h : Iterates(F, m, S, h) /\ SumOver(F, m, S) = h[S]
  BY SumIsIteration
<1> QED
  BY <1>1, <1>2, IterationUnique

\* The sum of nothing.
LEMMA SumEmpty == \A E, m : SumOver(E, m, {}) = 0
<1> SUFFICES ASSUME NEW E, NEW m PROVE SumOver(E, m, {}) = 0
  OBVIOUS
<1>1. PICK g : Iterates(E, m, {}, g) /\ SumOver(E, m, {}) = g[{}]
  BY SumIsIteration, FS_EmptySet
<1>2. {} \in SUBSET {}
  OBVIOUS
<1> QED
  BY <1>1, <1>2 DEF Unfolds, Iterates

-----------------------------------------------------------------------------

(* The day state. *)

\* The committed batches that credit m.
Posted(m) == {b \in Batches : batch[b].status = "committed" /\ m \in MembersOf(b)}

Capped(n) == IF n < Cap THEN n ELSE Cap

\* DayStateExplained, with the finiteness the induction needs.
Explained ==
    \A m \in Members :
        /\ IsFiniteSet(Posted(m))
        /\ day[m].version = Cardinality(Posted(m))
        /\ day[m].total = SumOver(entry, m, Posted(m))
        /\ day[m].total = Capped(SumOver(Points, m, Posted(m)))

\* Steps that post nothing.
Quiet ==
    /\ UNCHANGED day
    /\ \A b \in Batches : batch'[b].status = "committed" <=> batch[b].status = "committed"
    /\ \A b \in Batches : batch[b].status = "committed" => entry'[b] = entry[b]

\* They leave the sums as they are.
LEMMA QuietStep == ASSUME Explained, Quiet PROVE Explained'
<1> SUFFICES ASSUME NEW m \in Members
             PROVE  /\ IsFiniteSet(Posted(m)')
                    /\ day'[m].version = Cardinality(Posted(m)')
                    /\ day'[m].total = SumOver(entry', m, Posted(m)')
                    /\ day'[m].total = Capped(SumOver(Points, m, Posted(m)'))
  BY DEF Explained
<1>1. Posted(m)' = Posted(m)
  BY DEF Quiet, Posted
<1>2. Agree(entry, entry', m, Posted(m))
  BY DEF Quiet, Posted, Agree
<1>3. IsFiniteSet(Posted(m))
  BY DEF Explained
<1>4. SumOver(entry, m, Posted(m)) = SumOver(entry', m, Posted(m))
  BY <1>2, <1>3, SumSame
<1> QED
  BY <1>1, <1>3, <1>4 DEF Explained, Quiet

\* A committed batch has an entry for each of its members.
LEMMA PostedNumbers ==
  ASSUME IndInv, NEW m \in Members
  PROVE  Numbers(entry, m, Posted(m))
<1> SUFFICES ASSUME NEW b \in Posted(m) PROVE entry[b][m] \in Nat
  BY DEF Numbers
<1>1. b \in Batches /\ m \in Covered(b)
  BY DEF Posted, IndInv, Frozen
<1>2. entry[b][m] \in 0..Cap
  BY <1>1 DEF Covered, IndInv, TypeOK
<1> QED
  BY <1>2, Constants

\* The recognised points of any batches can be added.
LEMMA PointsNumbers ==
  ASSUME NEW m \in Members, NEW S, S \subseteq Batches
  PROVE  Numbers(Points, m, S)
  BY Constants DEF Numbers

LEMMA SumIsNat ==
  ASSUME NEW E, NEW m, NEW S, IsFiniteSet(S), Numbers(E, m, S)
  PROVE  SumOver(E, m, S) \in Nat
<1>1. PICK g : Iterates(E, m, S, g) /\ SumOver(E, m, S) = g[S]
  BY SumIsIteration
<1>2. AnyOrder(E, m, S, g)
  BY <1>1, IterationAnyOrder
<1> QED
  BY <1>1, <1>2 DEF AnyOrder

\* A credit on top of a capped sum is the larger sum capped.
LEMMA CreditCaps ==
  ASSUME NEW p \in Nat, NEW n \in Nat
  PROVE  Capped(n) + Credit(p, Capped(n)) = Capped(n + p)
  BY Constants DEF Capped, Credit

\* commitBatch adds one batch to the sums of its members.
LEMMA PostingStep ==
  ASSUME IndInv, Explained, NEW w \in Workers, Commit(w)
  PROVE  Explained'
<1>0. B(w) \in Batches
  BY DEF IndInv, TypeOK, Commit, B
<1> SUFFICES ASSUME NEW b \in Batches, b = B(w) PROVE Explained'
  BY <1>0
<1>1. CASE UNCHANGED <<batch, day>>
  <2>1. Quiet
    BY <1>1 DEF Quiet, Commit
  <2> QED
    BY <2>1, QuietStep
<1>2. CASE /\ Postable(b)
           /\ batch' = [batch EXCEPT ![b].status = "committed"]
           /\ day' = Advanced(b)
  <2>1. batch[b].status = "ready" /\ batch[b] \in BatchRows
    BY <1>2 DEF Postable, IndInv, TypeOK
  <2>2. batch'[b].status = "committed" /\ \A c \in Batches \ {b} : batch'[c] = batch[c]
    BY <1>2, <2>1 DEF IndInv, TypeOK, BatchRows
  <2>3. entry' = entry
    BY DEF Commit
  <2> SUFFICES ASSUME NEW m \in Members
               PROVE  /\ IsFiniteSet(Posted(m)')
                      /\ day'[m].version = Cardinality(Posted(m)')
                      /\ day'[m].total = SumOver(entry, m, Posted(m)')
                      /\ day'[m].total = Capped(SumOver(Points, m, Posted(m)'))
    BY <2>3 DEF Explained
  <2>4. /\ IsFiniteSet(Posted(m))
        /\ day[m].version = Cardinality(Posted(m))
        /\ day[m].total = SumOver(entry, m, Posted(m))
        /\ day[m].total = Capped(SumOver(Points, m, Posted(m)))
    BY DEF Explained
  <2>5. /\ m \in Covered(b) <=> m \in MembersOf(b)
        /\ m \in Covered(b) => /\ entry[b][m] \in 0..Cap
                               /\ entry[b][m] = Credit(Points[b][m], day[m].total)
    BY <1>2, PostedCredits
  <2>6. CASE m \in Covered(b)
    <3>1. Posted(m)' = Posted(m) \cup {b} /\ b \notin Posted(m)
      BY <2>1, <2>2, <2>5, <2>6 DEF Posted
    <3>2. Numbers(entry, m, Posted(m) \cup {b})
      BY <2>5, <2>6, PostedNumbers, Constants DEF Numbers
    <3>4. SumOver(entry, m, Posted(m) \cup {b}) = SumOver(entry, m, Posted(m)) + entry[b][m]
      <4>1. IsFiniteSet(Posted(m)) /\ b \notin Posted(m)
        BY <2>4, <3>1
      <4> QED
        BY <3>2, <4>1, SumAdd
    <3>5. /\ IsFiniteSet(Posted(m) \cup {b})
          /\ Cardinality(Posted(m) \cup {b}) = Cardinality(Posted(m)) + 1
      BY <2>4, <3>1, FS_AddElement
    <3>6. day'[m] = [version |-> day[m].version + 1, total |-> day[m].total + entry[b][m]]
      BY <1>2, <2>6 DEF Advanced
    <3>7. Posted(m) \cup {b} \subseteq Batches
      BY DEF Posted
    <3>8. SumOver(Points, m, Posted(m) \cup {b}) = SumOver(Points, m, Posted(m)) + Points[b][m]
      BY <2>4, <3>1, <3>7, PointsNumbers, SumAdd
    <3>9. SumOver(Points, m, Posted(m)) \in Nat /\ Points[b][m] \in Nat
      BY <2>4, <3>7, PointsNumbers, SumIsNat, Constants
    <3>10. day[m].total + entry[b][m] = Capped(SumOver(Points, m, Posted(m) \cup {b}))
      BY <2>4, <2>5, <2>6, <3>8, <3>9, CreditCaps
    <3> QED
      BY <2>4, <3>1, <3>4, <3>5, <3>6, <3>10
  <2>7. CASE m \notin Covered(b)
    <3>1. Posted(m)' = Posted(m)
      BY <2>1, <2>2, <2>5, <2>7 DEF Posted
    <3>2. day'[m] = day[m]
      BY <1>2, <2>7 DEF Advanced
    <3> QED
      BY <2>4, <3>1, <3>2
  <2> QED
    BY <2>6, <2>7
<1> QED
  BY <1>1, <1>2 DEF Commit

\* Nothing else posts.
LEMMA OtherStepsQuiet ==
  ASSUME IndInv, [Next]_vars
  PROVE  Quiet \/ \E w \in Workers : Commit(w)
<1>1. CASE UNCHANGED vars
  BY <1>1 DEF vars, Quiet
<1>2. ASSUME NEW b \in Batches,
             FinalApprove(b) \/ Poll(b) \/ Expire(b) \/ Cancel(b)
      PROVE  Quiet
  <2>1. CASE FinalApprove(b)
    <3>1. \A c \in Batches : c # b => batch'[c] = batch[c]
      BY <2>1 DEF FinalApprove, IndInv, TypeOK
    <3>2. batch[b].status = "absent" /\ batch'[b].status = "preparing"
      BY <2>1 DEF FinalApprove, IndInv, TypeOK, BatchRows
    <3> QED
      BY <2>1, <3>1, <3>2 DEF FinalApprove, Quiet
  <2>2. CASE Poll(b) \/ Expire(b) \/ Cancel(b)
    BY <2>2 DEF Poll, EnsureJob, Requeue, Expire, Cancel, Quiet
  <2> QED
    BY <1>2, <2>1, <2>2
<1>3. ASSUME NEW w \in Workers, Work(w) \/ Abandon(w), ~Commit(w)
      PROVE  Quiet
  <2>1. CASE Finalize(w)
    <3>1. worker[w].batch \in Batches
      BY <2>1 DEF Finalize, IndInv, TypeOK
    <3>2. CASE UNCHANGED batch
      BY <2>1, <3>2 DEF Finalize, Quiet
    <3>3. ASSUME NEW s \in {"failed", "ready"}, NEW h,
                 batch[B(w)].status = "preparing",
                 batch' = [batch EXCEPT ![B(w)].status = s, ![B(w)].hash = h]
                   \/ batch' = [batch EXCEPT ![B(w)].status = s]
          PROVE  Quiet
      <4>1. batch'[B(w)].status = s /\ \A c \in Batches : c # B(w) => batch'[c] = batch[c]
        BY <3>1, <3>3 DEF IndInv, TypeOK, BatchRows, B
      <4> QED
        BY <2>1, <3>3, <4>1 DEF Finalize, Quiet
    <3> QED
      BY <2>1, <3>2, <3>3 DEF Finalize
  <2>2. ASSUME NEW k \in worker[w].todo, PrepareChunk(w, k) PROVE Quiet
    <3>1. \A c \in Batches : batch'[c].status = batch[c].status
      BY <2>2 DEF PrepareChunk, IndInv, TypeOK, BatchRows
    <3>2. \A c \in Batches : batch[c].status = "committed" => entry'[c] = entry[c]
      BY <2>2 DEF PrepareChunk, Preparable, IndInv, TypeOK
    <3> QED
      BY <2>2, <3>1, <3>2 DEF PrepareChunk, Quiet
  <2>3. ASSUME NEW k \in worker[w].todo, SkipChunk(w, k) \/ MarkItemFailed(w, k)
        PROVE  Quiet
    BY <2>3 DEF SkipChunk, MarkItemFailed, Quiet
  <2>4. CASE \/ \E b \in Batches : Claim(w, b)
             \/ ClaimNothing(w) \/ ReadItems(w) \/ PrepareFails(w) \/ Release(w)
             \/ MarkReady(w) \/ CommitFails(w) \/ Acknowledge(w) \/ Abandon(w)
    BY <2>4 DEF Claim, ClaimNothing, ReadItems, PrepareFails, Release, MarkReady,
       CommitFails, Acknowledge, Abandon, Quiet
  <2> QED
    BY <1>3, <2>1, <2>2, <2>3, <2>4 DEF Work, Prepare
<1> QED
  BY <1>1, <1>2, <1>3 DEF Next

\* The day state is the sum of the posted entries, its version their number, and
\* the total what the cap leaves of the recognised points, in any order of posting.
THEOREM DaysExplained == Spec => []DayStateExplained
<1>1. Init => Explained
  <2> SUFFICES ASSUME Init, NEW m \in Members
               PROVE  /\ IsFiniteSet(Posted(m))
                      /\ day[m].version = Cardinality(Posted(m))
                      /\ day[m].total = SumOver(entry, m, Posted(m))
                      /\ day[m].total = Capped(SumOver(Points, m, Posted(m)))
    BY DEF Explained
  <2>1. Posted(m) = {}
    BY DEF Init, NoBatchRow, Posted
  <2>2. Capped(0) = 0
    BY Constants DEF Capped
  <2> QED
    BY <2>1, <2>2, SumEmpty, FS_EmptySet DEF Init
<1>2. IndInv /\ Explained /\ [Next]_vars => Explained'
  BY OtherStepsQuiet, QuietStep, PostingStep
<1>3. Explained => DayStateExplained
  BY DEF Explained, DayStateExplained, Posted, SumOver, Capped
<1> QED
  BY <1>1, <1>2, <1>3, Invariance, PTL DEF Spec

-----------------------------------------------------------------------------

(* The prepared count. *)

\* A round that holds a job in memory; one that is at its items.
Busy(w) == worker[w].pc # "idle"
Preparing(w) == worker[w].pc \in {"preparing", "failing"}

\* Each claim has a number of its own, at most the generation of the job.
ClaimsApart ==
    /\ \A w \in Workers : Busy(w) => /\ worker[w].claim >= 1
                                     /\ worker[w].claim <= job[B(w)].gen
    /\ \A v, w \in Workers :
          v # w /\ Busy(v) /\ Busy(w) /\ B(v) = B(w) => worker[v].claim # worker[w].claim

\* The round that holds the lease prepares no item twice: what it has left is open.
TodoOpen ==
    \A w \in Workers : Preparing(w) /\ B(w) \notin lost /\ Fenced(w) =>
        \A k \in worker[w].todo : item[B(w)][k] # "succeeded"

\* The inductive invariant, relative to IndInv.
CountInv == ClaimsApart /\ TodoOpen /\ CountsExact

\* A step takes no new job or item in hand.
RoundsKept ==
    \A w \in Workers : Busy(w)' =>
        /\ Busy(w) /\ B(w)' = B(w) /\ worker'[w].claim = worker[w].claim
        /\ Preparing(w)' => Preparing(w) /\ worker'[w].todo \subseteq worker[w].todo

\* So do all moves of a round but reading its items.
LEMMA GotoKeeps ==
  ASSUME TypeOK, NEW w \in Workers, Busy(w),
         NEW pc \in {"failing", "releasing", "marking", "committing", "acking", "closing"},
         pc = "failing" => Preparing(w),
         Goto(w, pc)
  PROVE  RoundsKept
<1>1. worker' = [worker EXCEPT ![w] = [worker[w] EXCEPT !.pc = pc]] /\ worker[w] \in WorkerStates
  BY DEF Goto, TypeOK
<1>2. \A v \in Workers \ {w} : worker'[v] = worker[v]
  BY <1>1 DEF TypeOK
<1>3. worker'[w] = [worker[w] EXCEPT !.pc = pc]
  BY <1>1 DEF TypeOK
<1>4. /\ worker'[w].pc = pc /\ worker'[w].batch = worker[w].batch
      /\ worker'[w].claim = worker[w].claim /\ worker'[w].todo = worker[w].todo
  BY <1>1, <1>3 DEF WorkerStates
<1> QED
  BY <1>2, <1>4 DEF RoundsKept, Busy, Preparing, B

\* And its end.
LEMMA RestKeeps ==
  ASSUME TypeOK, NEW w \in Workers, Rest(w)
  PROVE  RoundsKept
<1>1. worker'[w] = Resting /\ \A v \in Workers \ {w} : worker'[v] = worker[v]
  BY DEF Rest, TypeOK
<1>2. worker'[w].pc = "idle"
  BY <1>1 DEF Resting
<1> QED
  BY <1>1, <1>2 DEF RoundsKept, Busy, Preparing, B

\* And the way to the next item.
LEMMA DoneKeeps ==
  ASSUME TypeOK, NEW w \in Workers, Preparing(w), NEW k, Done(w, k)
  PROVE  RoundsKept /\ worker'[w].todo = worker[w].todo \ {k}
<1>1. /\ worker' = [worker EXCEPT ![w] = [worker[w] EXCEPT !.todo = worker[w].todo \ {k}]]
      /\ worker[w] \in WorkerStates
  BY DEF Done, TypeOK
<1>2. \A v \in Workers \ {w} : worker'[v] = worker[v]
  BY <1>1 DEF TypeOK
<1>3. worker'[w] = [worker[w] EXCEPT !.todo = worker[w].todo \ {k}]
  BY <1>1 DEF TypeOK
<1>4. /\ worker'[w].pc = worker[w].pc /\ worker'[w].batch = worker[w].batch
      /\ worker'[w].claim = worker[w].claim /\ worker'[w].todo = worker[w].todo \ {k}
  BY <1>1, <1>3 DEF WorkerStates
<1> QED
  BY <1>2, <1>4 DEF RoundsKept, Busy, Preparing, B

\* What a step leaves alone in the tables.
ItemsKept ==
    \A b \in Batches \ lost : \A k \in Items(b) :
        item'[b][k] = "succeeded" <=> item[b][k] = "succeeded"

JobsKept ==
    \A b \in Batches : job'[b].gen = job[b].gen /\ job'[b].owner \in {0, job[b].owner}

BatchesKept ==
    \A b \in Batches \ lost : /\ batch'[b].prepared = batch[b].prepared
                              /\ batch'[b].status = "failed" => batch[b].status = "failed"

\* Such steps keep the claims apart.
LEMMA ClaimsFrame ==
  ASSUME TypeOK, ClaimsApart, RoundsKept, JobsKept
  PROVE  ClaimsApart'
<1>1. \A w \in Workers : Busy(w)' => B(w) \in Batches
  BY DEF RoundsKept, Busy, B, TypeOK
<1> QED
  BY <1>1 DEF ClaimsApart, RoundsKept, JobsKept

\* And the whole invariant.
LEMMA CountFrame ==
  ASSUME TypeOK, CountInv, RoundsKept, ItemsKept, JobsKept, BatchesKept, lost' = lost
  PROVE  CountInv'
<1>1. ClaimsApart'
  BY ClaimsFrame DEF CountInv
<1>2. TodoOpen'
  <2> SUFFICES ASSUME NEW w \in Workers, Preparing(w)', B(w)' \notin lost, Fenced(w)',
                      NEW k \in worker'[w].todo
               PROVE  item'[B(w)'][k] # "succeeded"
    BY DEF TodoOpen
  <2>1. Busy(w)' /\ Busy(w)
    BY DEF Preparing, Busy, RoundsKept
  <2>2. /\ B(w)' = B(w) /\ worker'[w].claim = worker[w].claim
        /\ Preparing(w) /\ k \in worker[w].todo
    BY <2>1 DEF RoundsKept
  <2>3. B(w) \in Batches /\ k \in Items(B(w))
    BY <2>1, <2>2 DEF Busy, TypeOK, B
  <2>4. worker[w].claim >= 1 /\ worker[w].claim \in Nat
    BY <2>1 DEF CountInv, ClaimsApart, TypeOK, WorkerStates
  <2>5. Fenced(w)
    BY <2>2, <2>3, <2>4 DEF Fenced, JobsKept
  <2>6. item[B(w)][k] # "succeeded"
    BY <2>2, <2>5 DEF CountInv, TodoOpen
  <2> QED
    BY <2>2, <2>3, <2>6 DEF ItemsKept
<1>3. CountsExact'
  <2> SUFFICES ASSUME NEW b \in Batches \ lost
               PROVE  /\ batch'[b].prepared = Cardinality(UNION {Part[b][k] : k \in Items(b) \ Unfinished(b)'})
                      /\ batch'[b].status # "failed"
    BY DEF CountsExact
  <2>1. Unfinished(b)' = Unfinished(b)
    BY DEF ItemsKept, Unfinished
  <2> QED
    BY <2>1 DEF BatchesKept, CountInv, CountsExact
<1> QED
  BY <1>1, <1>2, <1>3 DEF CountInv

\* The steps of a round after the preparation.
LEMMA CountRound ==
  ASSUME IndInv, CountInv, NEW w \in Workers,
         \/ PrepareFails(w) \/ Release(w) \/ MarkReady(w) \/ Commit(w)
         \/ CommitFails(w) \/ Acknowledge(w) \/ Abandon(w)
         \/ \E k \in worker[w].todo : SkipChunk(w, k)
  PROVE  CountInv'
<1>1. Busy(w) /\ B(w) \in Batches /\ TypeOK
  BY DEF IndInv, TypeOK, B, Busy, PrepareFails, Release, MarkReady, Commit, CommitFails,
     Acknowledge, Abandon, SkipChunk
<1>2. RoundsKept
  BY <1>1, GotoKeeps, RestKeeps, DoneKeeps
     DEF Preparing, PrepareFails, Release, MarkReady, Commit, CommitFails, Acknowledge,
         Abandon, SkipChunk
<1>3. ItemsKept /\ lost' = lost
  BY DEF ItemsKept, PrepareFails, Release, MarkReady, Commit, CommitFails, Acknowledge,
         Abandon, SkipChunk
<1>4. JobsKept
  <2>1. CASE UNCHANGED job
    BY <2>1 DEF JobsKept
  <2>2. ASSUME NEW st \in {"pending", "succeeded"}, job' = [job EXCEPT ![B(w)] = Unleased(@, st)]
        PROVE  JobsKept
    <3>1. job'[B(w)] = Unleased(job[B(w)], st) /\ \A c \in Batches \ {B(w)} : job'[c] = job[c]
      BY <1>1, <2>2 DEF TypeOK
    <3> QED
      BY <1>1, <3>1, UnleasedFields DEF JobsKept, TypeOK
  <2>3. ASSUME job' = [job EXCEPT ![B(w)].status = "succeeded"] PROVE JobsKept
    BY <1>1, <2>3 DEF JobsKept, TypeOK, JobRows
  <2> QED
    BY <2>1, <2>2, <2>3 DEF PrepareFails, Release, MarkReady, Commit, CommitFails, Acknowledge,
         Abandon, SkipChunk
<1>5. BatchesKept
  <2>1. CASE UNCHANGED batch
    BY <2>1 DEF BatchesKept
  <2>2. CASE batch' = [batch EXCEPT ![B(w)].status = "committed"]
    BY <1>1, <2>2 DEF BatchesKept, TypeOK, BatchRows
  <2> QED
    BY <2>1, <2>2 DEF PrepareFails, Release, MarkReady, Commit, CommitFails, Acknowledge,
         Abandon, SkipChunk
<1> QED
  BY <1>1, <1>2, <1>3, <1>4, <1>5, CountFrame

\* markItemFailed takes back no prepared item of a batch without a lost answer.
LEMMA CountMark ==
  ASSUME IndInv, CountInv, NEW w \in Workers, NEW k \in worker[w].todo, MarkItemFailed(w, k)
  PROVE  CountInv'
<1>1. Busy(w) /\ Preparing(w) /\ B(w) \in Batches /\ k \in Items(B(w)) /\ TypeOK
  BY DEF IndInv, TypeOK, B, Busy, Preparing, MarkItemFailed
<1>2. RoundsKept
  BY <1>1, GotoKeeps DEF MarkItemFailed
<1>3. ItemsKept
  <2>1. CASE item' = item
    BY <2>1 DEF ItemsKept
  <2>2. CASE Fenced(w) /\ item' = [item EXCEPT ![B(w)][k] = "failed"]
    <3>1. /\ item'[B(w)][k] = "failed"
          /\ \A l \in Items(B(w)) \ {k} : item'[B(w)][l] = item[B(w)][l]
          /\ \A c \in Batches \ {B(w)} : item'[c] = item[c]
      BY <1>1, <2>2, ItemTyped
    <3>2. B(w) \notin lost => item[B(w)][k] # "succeeded"
      BY <1>1, <2>2 DEF CountInv, TodoOpen
    <3> QED
      BY <3>1, <3>2 DEF ItemsKept
  <2> QED
    BY <2>1, <2>2 DEF MarkItemFailed
<1>4. JobsKept /\ BatchesKept /\ lost' = lost
  BY DEF MarkItemFailed, JobsKept, BatchesKept
<1> QED
  BY <1>1, <1>2, <1>3, <1>4, CountFrame

\* finalize finds the count exact.
LEMMA CountFinalize ==
  ASSUME IndInv, CountInv, NEW w \in Workers, Finalize(w)
  PROVE  CountInv'
<1>1. Busy(w) /\ B(w) \in Batches /\ TypeOK
  BY DEF IndInv, TypeOK, B, Busy, Finalize
<1>2. RoundsKept
  BY <1>1, GotoKeeps, RestKeeps DEF Finalize, After
<1>3. ItemsKept /\ lost' = lost
  BY DEF Finalize, ItemsKept
<1>4. JobsKept
  <2>1. CASE UNCHANGED job
    BY <2>1 DEF JobsKept
  <2>2. ASSUME NEW st, job' = [job EXCEPT ![B(w)].status = st] PROVE JobsKept
    BY <1>1, <2>2 DEF JobsKept, TypeOK, JobRows
  <2> QED
    BY <2>1, <2>2 DEF Finalize
<1>5. BatchesKept
  <2>1. CASE UNCHANGED batch
    BY <2>1 DEF BatchesKept
  <2>2. CASE /\ Unfinished(B(w)) = {} /\ batch[B(w)].prepared # Cardinality(MembersOf(B(w)))
             /\ batch' = [batch EXCEPT ![B(w)].status = "failed"]
    <3>1. B(w) \in lost
      <4>1. UNION {Part[B(w)][k] : k \in Items(B(w)) \ Unfinished(B(w))} = MembersOf(B(w))
        BY <2>2 DEF MembersOf
      <4> QED
        BY <1>1, <2>2, <4>1 DEF CountInv, CountsExact
    <3>2. \A c \in Batches \ {B(w)} : batch'[c] = batch[c]
      BY <1>1, <2>2 DEF TypeOK
    <3> QED
      BY <3>1, <3>2 DEF BatchesKept
  <2>3. ASSUME batch' = [batch EXCEPT ![B(w)].status = "ready", ![B(w)].hash = job[B(w)].baseline]
        PROVE  BatchesKept
    BY <1>1, <2>3 DEF BatchesKept, TypeOK, BatchRows
  <2> QED
    BY <2>1, <2>2, <2>3 DEF Finalize
<1> QED
  BY <1>1, <1>2, <1>3, <1>4, <1>5, CountFrame

\* Steps of nobody's round.
LEMMA CountOutside ==
  ASSUME IndInv, CountInv, NEW b \in Batches,
         FinalApprove(b) \/ Poll(b) \/ Expire(b) \/ Cancel(b)
  PROVE  CountInv'
<1>1. TypeOK /\ RoundsKept /\ lost' = lost
  BY DEF IndInv, RoundsKept, Busy, Preparing, B, FinalApprove, Poll, EnsureJob, Requeue, Expire,
     Cancel
<1>2. JobsKept
  <2>1. CASE UNCHANGED job
    BY <2>1 DEF JobsKept
  <2>2. ASSUME NEW st, \/ job' = [job EXCEPT ![b].status = st]
                       \/ job' = [job EXCEPT ![b].lease = st]
        PROVE  JobsKept
    BY <1>1, <2>2 DEF JobsKept, TypeOK, JobRows
  <2>3. ASSUME NEW st \in {"pending", "cancelled"}, NEW n,
               \/ job' = [job EXCEPT ![b] = Unleased(@, st)]
               \/ job' = [job EXCEPT ![b] = [Unleased(@, st) EXCEPT !.attempts = n]]
        PROVE  JobsKept
    <3>1. /\ Unleased(job[b], st) \in JobRows
          /\ Unleased(job[b], st).owner = 0 /\ Unleased(job[b], st).gen = job[b].gen
      BY <1>1, UnleasedFields DEF TypeOK
    <3>2. job'[b].owner = 0 /\ job'[b].gen = job[b].gen /\ \A c \in Batches \ {b} : job'[c] = job[c]
      BY <1>1, <2>3, <3>1 DEF TypeOK, JobRows
    <3> QED
      BY <3>2 DEF JobsKept
  <2> QED
    BY <2>1, <2>2, <2>3 DEF FinalApprove, Poll, EnsureJob, Requeue, Expire, Cancel
<1>3. ItemsKept
  <2>1. CASE UNCHANGED item
    BY <2>1 DEF ItemsKept
  <2>2. CASE item' = [item EXCEPT ![b] = [k \in Items(b) |->
                        IF item[b][k] = "failed" THEN "pending" ELSE item[b][k]]]
    BY <1>1, <2>2 DEF ItemsKept, TypeOK
  <2> QED
    BY <2>1, <2>2 DEF FinalApprove, Poll, EnsureJob, Requeue, Expire, Cancel
<1>4. BatchesKept
  <2>1. CASE UNCHANGED batch
    BY <2>1 DEF BatchesKept
  <2>2. CASE batch' = [batch EXCEPT ![b].status = "preparing"]
    BY <1>1, <2>2 DEF BatchesKept, TypeOK, BatchRows
  <2> QED
    BY <2>1, <2>2 DEF FinalApprove, Poll, EnsureJob, Requeue, Expire, Cancel
<1> QED
  BY <1>1, <1>2, <1>3, <1>4, CountFrame

\* Sweeping takes owners away and makes none.
LEMMA SweptKeeps ==
  ASSUME TypeOK, NEW b \in Batches
  PROVE  Swept[b].gen = job[b].gen /\ Swept[b].owner \in {0, job[b].owner}
<1>1. job[b] \in JobRows
  BY DEF TypeOK
<1> QED
  BY <1>1, UnleasedFields DEF Swept

\* A claim has a new number, and ends the fence of all before it.
LEMMA CountClaim ==
  ASSUME IndInv, CountInv, NEW w \in Workers,
         ClaimNothing(w) \/ \E b \in Batches : Claim(w, b)
  PROVE  CountInv'
<1>0. TypeOK
  BY DEF IndInv
<1>1. UNCHANGED <<batch, item, lost>>
  BY DEF ClaimNothing, Claim
<1>2. CASE ClaimNothing(w)
  <2>1. RoundsKept /\ ItemsKept /\ BatchesKept
    BY <1>2 DEF ClaimNothing, RoundsKept, ItemsKept, BatchesKept, Busy, Preparing, B
  <2>2. JobsKept
    BY <1>0, <1>2, SweptKeeps DEF ClaimNothing, JobsKept
  <2> QED
    BY <1>0, <1>1, <2>1, <2>2, CountFrame
<1>3. ASSUME NEW b \in Batches, Claim(w, b) PROVE CountInv'
  <2> DEFINE n == job[b].gen + 1
  <2>1. job[b].gen \in Nat /\ n \in Nat /\ n >= 1
    BY <1>0 DEF TypeOK, JobRows
  <2>2. Swept \in [Batches -> JobRows]
    BY <1>0, SweptFields
  <2>3. /\ job'[b].gen = n /\ job'[b].owner = n
        /\ \A c \in Batches \ {b} : job'[c] = Swept[c]
    <3> DEFINE j == [Swept[b] EXCEPT !.status = "processing", !.attempts = job[b].attempts + 1,
                        !.gen = n, !.owner = n, !.lease = "running"]
    <3>1. job' = [Swept EXCEPT ![b] = j]
      BY <1>3 DEF Claim
    <3>2. Swept[b] \in JobRows
      BY <2>2
    <3>3. j.gen = n /\ j.owner = n
      BY <3>2 DEF JobRows
    <3> HIDE DEF j
    <3> QED
      BY <2>2, <3>1, <3>3
  <2>4. /\ worker'[w].pc = "claimed" /\ worker'[w].batch = b /\ worker'[w].claim = n
        /\ \A v \in Workers \ {w} : worker'[v] = worker[v]
    BY <1>0, <1>3 DEF Claim, TypeOK, Resting
  <2>5. \A v \in Workers : Busy(v) => /\ B(v) \in Batches /\ worker[v].claim \in Nat
                                      /\ worker[v].claim >= 1 /\ worker[v].claim <= job[B(v)].gen
    BY <1>0 DEF TypeOK, WorkerStates, Busy, B, CountInv, ClaimsApart
  <2>6. ClaimsApart'
    <3>1. ASSUME NEW v \in Workers, Busy(v)'
          PROVE  worker'[v].claim >= 1 /\ worker'[v].claim <= job'[B(v)'].gen
      <4>1. CASE v = w
        BY <2>1, <2>3, <2>4, <4>1 DEF B
      <4>2. CASE v # w
        <5>1. /\ Busy(v) /\ B(v)' = B(v) /\ worker'[v].claim = worker[v].claim
              /\ B(v) \in Batches
          BY <2>4, <2>5, <3>1, <4>2 DEF Busy, B
        <5>2. worker[v].claim \in Nat /\ worker[v].claim >= 1 /\ worker[v].claim <= job[B(v)].gen
          BY <2>5, <5>1
        <5>3. CASE B(v) = b
          BY <2>1, <2>3, <5>1, <5>2, <5>3
        <5>4. CASE B(v) # b
          BY <1>0, <2>3, <5>1, <5>2, <5>4, SweptKeeps
        <5> QED
          BY <5>3, <5>4
      <4> QED
        BY <4>1, <4>2
    <3>2. ASSUME NEW v \in Workers, NEW u \in Workers, v # u, Busy(v)', Busy(u)', B(v)' = B(u)'
          PROVE  worker'[v].claim # worker'[u].claim
      <4>1. CASE v # w /\ u # w
        BY <2>4, <3>2, <4>1 DEF Busy, B, CountInv, ClaimsApart
      <4>2. ASSUME NEW x \in Workers, x # w, Busy(x)', B(x)' = b
            PROVE  worker'[x].claim \in Nat /\ worker'[x].claim < n
        <5>1. Busy(x) /\ B(x) = b /\ worker'[x].claim = worker[x].claim
          BY <2>4, <4>2 DEF Busy, B
        <5> QED
          BY <2>1, <2>5, <5>1
      <4>3. CASE v = w
        BY <2>1, <2>4, <3>2, <4>2, <4>3 DEF B
      <4>4. CASE u = w
        BY <2>1, <2>4, <3>2, <4>2, <4>4 DEF B
      <4> QED
        BY <4>1, <4>3, <4>4
    <3> QED
      BY <3>1, <3>2 DEF ClaimsApart
  <2>7. TodoOpen'
    <3> SUFFICES ASSUME NEW v \in Workers, Preparing(v)', B(v)' \notin lost', Fenced(v)',
                        NEW k \in worker'[v].todo
                 PROVE  item'[B(v)'][k] # "succeeded"
      BY DEF TodoOpen
    <3>1. v # w
      BY <2>4 DEF Preparing
    <3>2. Preparing(v) /\ Busy(v) /\ worker'[v] = worker[v] /\ B(v)' = B(v)
      BY <2>4, <3>1 DEF Preparing, Busy, B
    <3>3. B(v) \in Batches /\ worker[v].claim \in Nat /\ worker[v].claim >= 1
          /\ worker[v].claim <= job[B(v)].gen
      BY <2>5, <3>2
    <3>4. job'[B(v)].owner = worker[v].claim
      BY <3>2 DEF Fenced
    <3>5. B(v) # b
      BY <2>1, <2>3, <3>3, <3>4
    <3>6. job[B(v)].owner = worker[v].claim
      <4>1. job'[B(v)].owner \in {0, job[B(v)].owner}
        BY <1>0, <2>3, <3>3, <3>5, SweptKeeps
      <4> QED
        BY <3>3, <3>4, <4>1
    <3> QED
      BY <1>1, <3>2, <3>6 DEF CountInv, TodoOpen, Fenced
  <2>8. CountsExact'
    <3>1. \A c \in Batches : Unfinished(c)' = Unfinished(c)
      BY <1>1 DEF Unfinished
    <3> QED
      BY <1>1, <3>1 DEF CountInv, CountsExact
  <2> QED
    BY <2>6, <2>7, <2>8 DEF CountInv
<1> QED
  BY <1>2, <1>3

\* A round starts with the items that are open.
LEMMA CountRead ==
  ASSUME IndInv, CountInv, NEW w \in Workers, ReadItems(w)
  PROVE  CountInv'
<1>0. TypeOK /\ UNCHANGED <<batch, job, item, lost>>
  BY DEF IndInv, ReadItems
<1> DEFINE left == {k \in Items(B(w)) : item[B(w)][k] # "succeeded"}
           new == [[worker[w] EXCEPT !.pc = "preparing"] EXCEPT !.todo = left]
<1>1. worker[w] \in WorkerStates /\ worker' = [worker EXCEPT ![w] = new]
  BY <1>0 DEF TypeOK, ReadItems
<1>2. new.batch = worker[w].batch /\ new.claim = worker[w].claim /\ new.todo = left
  BY <1>1 DEF WorkerStates
<1>3. worker'[w] = new /\ \A v \in Workers \ {w} : worker'[v] = worker[v]
  BY <1>0, <1>1 DEF TypeOK
<1>4. /\ worker[w].pc = "claimed" /\ worker'[w].batch = worker[w].batch
      /\ worker'[w].claim = worker[w].claim /\ worker'[w].todo = left
      /\ \A v \in Workers \ {w} : worker'[v] = worker[v]
  BY <1>2, <1>3 DEF ReadItems
<1>5. \A v \in Workers : Busy(v)' => Busy(v) /\ B(v)' = B(v) /\ worker'[v].claim = worker[v].claim
  BY <1>4 DEF Busy, B
<1>6. ClaimsApart'
  BY <1>0, <1>5 DEF CountInv, ClaimsApart
<1>7. TodoOpen'
  <2> SUFFICES ASSUME NEW v \in Workers, Preparing(v)', B(v)' \notin lost, Fenced(v)',
                      NEW k \in worker'[v].todo
               PROVE  item[B(v)'][k] # "succeeded"
    BY <1>0 DEF TodoOpen
  <2>1. CASE v = w
    BY <1>4, <2>1 DEF B
  <2>2. CASE v # w
    BY <1>0, <1>4, <2>2 DEF CountInv, TodoOpen, Preparing, B, Fenced
  <2> QED
    BY <2>1, <2>2
<1>8. CountsExact'
  <2>1. \A c \in Batches : Unfinished(c)' = Unfinished(c)
    BY <1>0 DEF Unfinished
  <2> QED
    BY <1>0, <2>1 DEF CountInv, CountsExact
<1> QED
  BY <1>6, <1>7, <1>8 DEF CountInv

\* A chunk that was not counted yet adds its members.
LEMMA OneChunkMore ==
  ASSUME NEW b \in Batches, NEW S \in SUBSET Items(b), NEW k \in Items(b) \ S
  PROVE  Cardinality(UNION {Part[b][l] : l \in S \cup {k}})
           = Cardinality(UNION {Part[b][l] : l \in S}) + Cardinality(Part[b][k])
<1> DEFINE U == UNION {Part[b][l] : l \in S}
<1>1. U \subseteq Members /\ Part[b][k] \subseteq Members
  BY ShapeAssumption
<1>2. IsFiniteSet(U) /\ IsFiniteSet(Part[b][k])
  BY <1>1, FS_Subset, ShapeAssumption
<1>3. U \cap Part[b][k] = {}
  BY ShapeAssumption
<1>4. Cardinality(U \cap Part[b][k]) = 0
  BY <1>3, FS_EmptySet
<1>5. UNION {Part[b][l] : l \in S \cup {k}} = U \cup Part[b][k]
  OBVIOUS
<1>6. Cardinality(U) \in Nat /\ Cardinality(Part[b][k]) \in Nat
  BY <1>2, FS_CardinalityType
<1>7. UNION {Part[b][l] : l \in S} = U
  OBVIOUS
<1> HIDE DEF U
<1>8. Cardinality(U \cup Part[b][k])
        = Cardinality(U) + Cardinality(Part[b][k]) - Cardinality(U \cap Part[b][k])
  BY <1>2, FS_Union
<1>9. Cardinality(U \cup Part[b][k]) = Cardinality(U) + Cardinality(Part[b][k])
  BY <1>4, <1>6, <1>8
<1> QED
  BY <1>5, <1>7, <1>9

\* prepareChunk counts a chunk that was open.
LEMMA CountPrepare ==
  ASSUME IndInv, CountInv, NEW w \in Workers, NEW k \in worker[w].todo, PrepareChunk(w, k)
  PROVE  CountInv'
<1> DEFINE b == B(w)
<1>0. TypeOK /\ Busy(w) /\ Preparing(w) /\ b \in Batches /\ k \in Items(b)
  BY DEF IndInv, TypeOK, PrepareChunk, Busy, Preparing, B
<1>1. /\ Fenced(w) /\ item[b][k] # "succeeded" /\ batch[b].status = "preparing"
      /\ item' = [item EXCEPT ![b][k] = "succeeded"]
      /\ lost \subseteq lost'
  BY DEF PrepareChunk, Preparable
<1>2. /\ item'[b][k] = "succeeded"
      /\ \A l \in Items(b) \ {k} : item'[b][l] = item[b][l]
      /\ \A c \in Batches \ {b} : item'[c] = item[c]
  <2>1. TypeOK /\ b \in Batches /\ k \in Items(b) /\ item' = [item EXCEPT ![b][k] = "succeeded"]
    BY <1>0, <1>1
  <2> HIDE DEF b
  <2> QED
    BY <2>1, ItemTyped
<1>3. JobsKept
  <2>1. job[b] \in JobRows /\ job' = [job EXCEPT ![b] =
                 [[job[b] EXCEPT !.status = "processing"] EXCEPT !.baseline = Merged(b, k)]]
    BY <1>0 DEF PrepareChunk, TypeOK
  <2>2. /\ job'[b].gen = job[b].gen /\ job'[b].owner = job[b].owner
        /\ \A c \in Batches \ {b} : job'[c] = job[c]
    BY <1>0, <2>1 DEF TypeOK, JobRows
  <2> QED
    BY <2>2 DEF JobsKept
<1>4. RoundsKept
  <2>1. CASE Done(w, k)
    BY <1>0, <2>1, DoneKeeps
  <2>2. CASE Goto(w, "failing")
    BY <1>0, <2>2, GotoKeeps
  <2> QED
    BY <2>1, <2>2 DEF PrepareChunk
<1>5. b \notin lost' => Done(w, k) /\ lost' = lost
  BY DEF PrepareChunk
<1>6. ClaimsApart'
  BY <1>0, <1>3, <1>4, ClaimsFrame DEF CountInv
<1>7. TodoOpen'
  <2> SUFFICES ASSUME NEW v \in Workers, Preparing(v)', B(v)' \notin lost', Fenced(v)',
                      NEW l \in worker'[v].todo
               PROVE  item'[B(v)'][l] # "succeeded"
    BY DEF TodoOpen
  <2>1. Busy(v)' /\ Busy(v)
    BY <1>4 DEF Preparing, Busy, RoundsKept
  <2>2. /\ B(v)' = B(v) /\ worker'[v].claim = worker[v].claim
        /\ Preparing(v) /\ l \in worker[v].todo
    BY <1>4, <2>1 DEF RoundsKept
  <2>3. B(v) \in Batches /\ l \in Items(B(v)) /\ worker[v].claim \in Nat /\ worker[v].claim >= 1
    BY <1>0, <2>1, <2>2 DEF Busy, TypeOK, B, WorkerStates, CountInv, ClaimsApart
  <2>4. Fenced(v)
    BY <1>3, <2>2, <2>3 DEF Fenced, JobsKept
  <2>5. item[B(v)][l] # "succeeded"
    BY <1>1, <2>2, <2>4 DEF CountInv, TodoOpen
  <2>6. CASE B(v) # b
    BY <1>2, <2>2, <2>3, <2>5, <2>6
  <2>7. CASE B(v) = b
    <3>1. v = w
      BY <1>0, <1>1, <2>1, <2>4, <2>7 DEF CountInv, ClaimsApart, Fenced
    <3>2. l # k
      BY <1>0, <1>5, <2>2, <2>7, <3>1, DoneKeeps
    <3> QED
      BY <1>2, <2>2, <2>3, <2>5, <2>7, <3>2
  <2> QED
    BY <2>6, <2>7
<1>8. CountsExact'
  <2> SUFFICES ASSUME NEW c \in Batches \ lost'
               PROVE  /\ batch'[c].prepared = Cardinality(UNION {Part[c][l] : l \in Items(c) \ Unfinished(c)'})
                      /\ batch'[c].status # "failed"
    BY DEF CountsExact
  <2>1. batch[c].prepared = Cardinality(UNION {Part[c][l] : l \in Items(c) \ Unfinished(c)})
        /\ batch[c].status # "failed"
    BY <1>1 DEF CountInv, CountsExact
  <2>2. CASE c # b
    <3>1. Unfinished(c)' = Unfinished(c) /\ batch'[c] = batch[c]
      BY <1>0, <1>2, <2>2 DEF Unfinished, PrepareChunk, TypeOK
    <3> QED
      BY <2>1, <3>1
  <2>3. CASE c = b
    <3> DEFINE S == Items(b) \ Unfinished(b)
    <3>1. Items(b) \ Unfinished(c)' = S \cup {k} /\ k \notin S /\ S \in SUBSET Items(b)
      <4>1. Unfinished(c)' = Unfinished(b) \ {k}
        BY <1>2, <2>3 DEF Unfinished
      <4>2. k \in Unfinished(b)
        BY <1>0, <1>1 DEF Unfinished
      <4> QED
        BY <1>0, <4>1, <4>2
    <3>2. batch'[b].prepared = batch[b].prepared + Cardinality(Part[b][k])
          /\ batch'[b].status = batch[b].status
      BY <1>0 DEF PrepareChunk, TypeOK, BatchRows
    <3>3. Cardinality(UNION {Part[b][l] : l \in S \cup {k}})
            = Cardinality(UNION {Part[b][l] : l \in S}) + Cardinality(Part[b][k])
      <4> HIDE DEF S, b
      <4> QED
        BY <1>0, <3>1, OneChunkMore
    <3>4. batch[b].prepared = Cardinality(UNION {Part[b][l] : l \in S}) /\ batch[b].status # "failed"
      BY <2>1, <2>3
    <3>5. UNION {Part[c][l] : l \in Items(c) \ Unfinished(c)'} = UNION {Part[b][l] : l \in S \cup {k}}
      BY <2>3, <3>1
    <3> HIDE DEF S, b
    <3> QED
      BY <2>3, <3>2, <3>3, <3>4, <3>5
  <2> QED
    BY <2>2, <2>3
<1> QED
  BY <1>6, <1>7, <1>8 DEF CountInv

\* Every step keeps the invariant.
LEMMA NextCount == IndInv /\ CountInv /\ [Next]_vars => CountInv'
<1> SUFFICES ASSUME IndInv, CountInv, [Next]_vars PROVE CountInv'
  OBVIOUS
<1>1. CASE UNCHANGED vars
  <2>1. TypeOK /\ RoundsKept /\ ItemsKept /\ JobsKept /\ BatchesKept /\ lost' = lost
    BY <1>1 DEF vars, IndInv, RoundsKept, ItemsKept, JobsKept, BatchesKept, Busy, Preparing, B
  <2> QED
    BY <2>1, CountFrame
<1>2. CASE \E b \in Batches : FinalApprove(b) \/ Poll(b) \/ Expire(b) \/ Cancel(b)
  BY <1>2, CountOutside
<1>3. ASSUME NEW w \in Workers, Work(w) \/ Abandon(w) PROVE CountInv'
  BY <1>3, CountClaim, CountRead, CountPrepare, CountMark, CountFinalize, CountRound
     DEF Work, Prepare
<1> QED
  BY <1>1, <1>2, <1>3 DEF Next

LEMMA InitCountInv == Init => CountInv
<1> SUFFICES ASSUME Init PROVE CountInv
  OBVIOUS
<1>1. ClaimsApart /\ TodoOpen
  BY DEF Init, Resting, ClaimsApart, TodoOpen, Busy, Preparing
<1>2. CountsExact
  <2> SUFFICES ASSUME NEW b \in Batches
               PROVE  /\ batch[b].prepared = Cardinality(UNION {Part[b][k] : k \in Items(b) \ Unfinished(b)})
                      /\ batch[b].status # "failed"
    BY DEF CountsExact
  <2>1. UNION {Part[b][k] : k \in Items(b) \ Unfinished(b)} = {}
    BY DEF Init, Unfinished
  <2> QED
    BY <2>1, FS_EmptySet DEF Init, NoBatchRow
<1> QED
  BY <1>1, <1>2 DEF CountInv

\* However many rounds work on a job, preparedCount counts every prepared chunk
\* once, and finalize condemns no batch but one with a lost answer.
THEOREM CountsHold == Spec => []CountsExact
<1>1. CountInv => CountsExact
  BY DEF CountInv
<1> QED
  BY <1>1, InitCountInv, NextCount, Invariance, PTL DEF Spec

-----------------------------------------------------------------------------
(* The background work ends: what JobsSettle and ReadyNotForgotten rest on, *)
(* without the last step from these facts and the fairness of the processes *)
(* to the temporal properties.                                              *)

\* Who may hold what: a lease has an owner, only a batch that is prepared has a
\* succeeded job, and a round that posts or closes has found its batch prepared.
JobFits(b) ==
    /\ job[b].owner # 0 <=> job[b].lease # "null"
    /\ job[b].status = "processing" => job[b].lease # "null"
    /\ job[b].status = "succeeded" => batch[b].status \in {"ready", "committed"}
    /\ batch[b].status \notin {"absent", "preparing"} => job[b].status # "absent"
    /\ job[b].status = "absent" => job[b].gen = 0

RoundFits(w) ==
    /\ worker[w].pc = "failing" => worker[w].todo # {}
    /\ worker[w].pc \in {"marking", "committing", "acking", "closing"} =>
          batch[B(w)].status \in {"ready", "committed"}

Owned == (\A b \in Batches : JobFits(b)) /\ (\A w \in Workers : RoundFits(w))

\* The guards of the background work.
CanWork(w) ==
    \/ worker[w].pc \in {"claimed", "preparing", "releasing", "marking", "committing",
                         "acking", "closing"}
    \/ worker[w].pc = "failing" /\ \E k \in worker[w].todo : First(w, k)
    \/ worker[w].pc = "idle" /\ \E b \in Batches : Claimable(b) \/ Exhausted(b)

CanPoll(b) ==
    \/ batch[b].status = "preparing" /\ job[b].status = "absent"
    \/ Requeueable(b)

\* Somebody will look at the job: a poll, a lease that runs out, or a claim.
Attended(b) ==
    CanPoll(b) \/ job[b].lease = "running" \/ Claimable(b) \/ Exhausted(b)

\* No round waits, no job stays with a dead holder, and a batch that is not yet
\* posted has somebody who looks at it unless its job was given up.
WorkGoesOn ==
    /\ \A w \in Workers : Busy(w) => CanWork(w)
    /\ \A b \in Batches : job[b].status = "processing" => Attended(b)
    /\ \A b \in Batches : batch[b].status \in {"preparing", "ready"} => Parked(b) \/ Attended(b)

\* What is left to do: claims first, then the first jobs, the leases, the steps
\* and items of the rounds, and last the jobs that may be swept or requeued.
Rank(pc) ==
    CASE pc = "claimed" -> 8 [] pc = "preparing" -> 7 [] pc = "failing" -> 6
      [] pc = "marking" -> 5 [] pc = "committing" -> 4 [] pc \in {"acking", "closing"} -> 3
      [] pc = "releasing" -> 2 [] OTHER -> 0

TodoLeft(w) == IF worker[w].pc = "claimed" THEN Items(B(w))
               ELSE IF worker[w].pc = "idle" THEN {} ELSE worker[w].todo

AllItems == UNION {Items(b) : b \in Batches}
Tries == Batches \X (1..MaxAttempts)
Chores == ({"job"} \X Batches) \cup ({"lease"} \X Batches)
          \cup ({"step"} \X (Workers \X (1..8))) \cup ({"item"} \X (Workers \X AllItems))

TriesLeft == {t \in Tries : job[t[1]].attempts < t[2]}
NoJobYet == {b \in Batches : job[b].status = "absent"}
Running == {b \in Batches : job[b].lease = "running"}
StepsLeft == {t \in Workers \X (1..8) : t[2] <= Rank(worker[t[1]].pc)}
ItemsLeft == {t \in Workers \X AllItems : t[2] \in TodoLeft(t[1])}
Left == ({"job"} \X NoJobYet) \cup ({"lease"} \X Running)
        \cup ({"step"} \X StepsLeft) \cup ({"item"} \X ItemsLeft)
JobsOpen == {b \in Batches : job[b].status \in {"processing", "succeeded"}}

Remaining == <<TriesLeft, <<Left, JobsOpen>>>>
FewerChores == LexPairOrdering(StrictSubsetOrdering(Chores), StrictSubsetOrdering(Batches),
                               SUBSET Chores, SUBSET Batches)
Fewer == LexPairOrdering(StrictSubsetOrdering(Tries), FewerChores,
                         SUBSET Tries, (SUBSET Chores) \X (SUBSET Batches))
Nearer == <<Remaining', Remaining>> \in Fewer

\* With finitely many batches and workers nothing can come nearer forever.
LEMMA FewerWellFounded ==
  ASSUME IsFiniteSet(Batches), IsFiniteSet(Workers)
  PROVE  IsWellFoundedOn(Fewer, (SUBSET Tries) \X ((SUBSET Chores) \X (SUBSET Batches)))
<1>1. \A b \in Int : IsFiniteSet(1..b)
  BY FS_Interval
<1>2. 8 \in Int /\ MaxAttempts \in Int
  BY Constants
<1>3. IsFiniteSet(1..8) /\ IsFiniteSet(1..MaxAttempts)
  BY <1>1, <1>2, Zenon
<1>4. IsFiniteSet(AllItems)
  <2> DEFINE parts == {Items(b) : b \in Batches}
  <2>1. IsFiniteSet(parts)
    <3>1. [b \in Batches |-> Items(b)] \in Surjection(Batches, parts)
      BY DEF Surjection
    <3> QED
      BY <3>1, FS_Surjection
  <2>2. \A x \in parts : IsFiniteSet(x)
    <3> SUFFICES ASSUME NEW b \in Batches PROVE IsFiniteSet(Items(b))
      OBVIOUS
    <3>1. Chunks[b] \in Int
      BY ShapeAssumption
    <3> QED
      BY <1>1, <3>1, Zenon DEF Items
  <2> HIDE DEF parts
  <2>3. IsFiniteSet(UNION parts)
    BY <2>1, <2>2, FS_UNION
  <2> QED
    BY <2>3 DEF AllItems, parts
<1>5. \A s : IsFiniteSet({s})
  BY FS_Singleton
<1>6. IsFiniteSet(Tries)
  BY <1>3, FS_Product DEF Tries
<1>7. IsFiniteSet(Chores)
  <2>1. IsFiniteSet(Workers \X (1..8)) /\ IsFiniteSet(Workers \X AllItems)
    BY <1>3, <1>4, FS_Product
  <2>2. /\ IsFiniteSet({"job"} \X Batches) /\ IsFiniteSet({"lease"} \X Batches)
        /\ IsFiniteSet({"step"} \X (Workers \X (1..8)))
        /\ IsFiniteSet({"item"} \X (Workers \X AllItems))
    BY <1>5, <2>1, FS_Product
  <2>3. IsFiniteSet(({"job"} \X Batches) \cup ({"lease"} \X Batches))
    BY <2>2, FS_Union
  <2>4. IsFiniteSet(({"job"} \X Batches) \cup ({"lease"} \X Batches) \cup ({"step"} \X (Workers \X (1..8))))
    BY <2>2, <2>3, FS_Union
  <2> QED
    BY <2>2, <2>4, FS_Union DEF Chores
<1>8. /\ IsWellFoundedOn(StrictSubsetOrdering(Tries), SUBSET Tries)
      /\ IsWellFoundedOn(StrictSubsetOrdering(Chores), SUBSET Chores)
      /\ IsWellFoundedOn(StrictSubsetOrdering(Batches), SUBSET Batches)
  BY <1>6, <1>7, FS_StrictSubsetOrderingWellFounded, FS_FiniteSubsetsOfFinite
<1>9. IsWellFoundedOn(FewerChores, (SUBSET Chores) \X (SUBSET Batches))
  BY <1>8, WFLexPairOrdering DEF FewerChores
<1> QED
  BY <1>8, <1>9, WFLexPairOrdering DEF Fewer

\* The ranks of a round's steps.
LEMMA Ranks ==
  /\ Rank("claimed") = 8 /\ Rank("preparing") = 7 /\ Rank("failing") = 6 /\ Rank("marking") = 5
  /\ Rank("committing") = 4 /\ Rank("acking") = 3 /\ Rank("closing") = 3
  /\ Rank("releasing") = 2 /\ Rank("idle") = 0
  /\ \A pc : Rank(pc) \in 0..8
  BY DEF Rank

LEMMA RemainingType ==
  /\ Left \in SUBSET Chores /\ TriesLeft \in SUBSET Tries /\ JobsOpen \in SUBSET Batches
  /\ Left' \in SUBSET Chores /\ TriesLeft' \in SUBSET Tries /\ JobsOpen' \in SUBSET Batches
<1>1. Left \in SUBSET Chores /\ Left' \in SUBSET Chores
  BY DEF Left, Chores, NoJobYet, Running, StepsLeft, ItemsLeft
<1>2. TriesLeft \in SUBSET Tries /\ TriesLeft' \in SUBSET Tries
  BY DEF TriesLeft
<1>3. JobsOpen \in SUBSET Batches /\ JobsOpen' \in SUBSET Batches
  BY DEF JobsOpen
<1> QED
  BY <1>1, <1>2, <1>3

\* A step that claims nothing adds nothing to the tables or to the rounds.
JobsNoMore ==
  \A b \in Batches : /\ job'[b].attempts = job[b].attempts
                     /\ job'[b].status = "absent" => job[b].status = "absent"
                     /\ job'[b].lease = "running" => job[b].lease = "running"

RoundsNoMore ==
  \A w \in Workers : /\ Rank(worker'[w].pc) <= Rank(worker[w].pc)
                     /\ TodoLeft(w)' \subseteq TodoLeft(w)

Less ==
  \/ \E b \in Batches : \/ job[b].status = "absent" /\ job'[b].status # "absent"
                        \/ job[b].lease = "running" /\ job'[b].lease # "running"
  \/ \E w \in Workers : \/ Rank(worker'[w].pc) < Rank(worker[w].pc)
                        \/ \E k \in AllItems : k \in TodoLeft(w) /\ k \notin TodoLeft(w)'

LEMMA NoMoreShape ==
  ASSUME JobsNoMore, RoundsNoMore
  PROVE  /\ Less => Nearer
         /\ JobsOpen' \subseteq JobsOpen => Nearer \/ Remaining' = Remaining
         /\ JobsOpen' \subseteq JobsOpen /\ JobsOpen' # JobsOpen => Nearer
<1>1. TriesLeft' = TriesLeft
  BY DEF JobsNoMore, TriesLeft, Tries
<1>2. \A w \in Workers : Rank(worker[w].pc) \in 0..8 /\ Rank(worker'[w].pc) \in 0..8
  BY Ranks
<1>3. NoJobYet' \subseteq NoJobYet /\ Running' \subseteq Running
  BY DEF JobsNoMore, NoJobYet, Running
<1>4. StepsLeft' \subseteq StepsLeft
  BY <1>2 DEF RoundsNoMore, StepsLeft
<1>5. ItemsLeft' \subseteq ItemsLeft
  BY DEF RoundsNoMore, ItemsLeft
<1>6. Left' \subseteq Left
  BY <1>3, <1>4, <1>5 DEF Left
<1> DEFINE rest == <<Left, JobsOpen>>
<1>7. /\ Left' # Left => <<rest', rest>> \in FewerChores
      /\ Left' = Left /\ JobsOpen' \subseteq JobsOpen /\ JobsOpen' # JobsOpen
           => <<rest', rest>> \in FewerChores
  BY <1>6, RemainingType DEF FewerChores, LexPairOrdering, StrictSubsetOrdering
<1>8. <<rest', rest>> \in FewerChores => Nearer
  BY <1>1, RemainingType DEF Nearer, Remaining, Fewer, LexPairOrdering
<1>9. ASSUME Less
      PROVE  Left' # Left
  <2>1. ASSUME NEW b \in Batches, job[b].status = "absent", job'[b].status # "absent"
        PROVE  <<"job", b>> \in Left /\ <<"job", b>> \notin Left'
    BY <2>1 DEF Left, NoJobYet
  <2>2. ASSUME NEW b \in Batches, job[b].lease = "running", job'[b].lease # "running"
        PROVE  <<"lease", b>> \in Left /\ <<"lease", b>> \notin Left'
    BY <2>2 DEF Left, Running
  <2>3. ASSUME NEW w \in Workers, Rank(worker'[w].pc) < Rank(worker[w].pc)
        PROVE  Left' # Left
    <3> DEFINE t == <<w, Rank(worker[w].pc)>>
    <3>1. t \in Workers \X (1..8)
      BY <1>2, <2>3
    <3>2. t \in StepsLeft /\ t \notin StepsLeft'
      BY <1>2, <2>3, <3>1 DEF StepsLeft
    <3> HIDE DEF t
    <3>3. <<"step", t>> \in Left /\ <<"step", t>> \notin Left'
      BY <3>2 DEF Left
    <3> QED
      BY <3>3
  <2>4. ASSUME NEW w \in Workers, NEW k \in AllItems, k \in TodoLeft(w), k \notin TodoLeft(w)'
        PROVE  Left' # Left
    <3> DEFINE t == <<w, k>>
    <3>1. t \in ItemsLeft /\ t \notin ItemsLeft'
      BY <2>4 DEF ItemsLeft
    <3> HIDE DEF t
    <3>2. <<"item", t>> \in Left /\ <<"item", t>> \notin Left'
      BY <3>1 DEF Left
    <3> QED
      BY <3>2
  <2> QED
    BY <1>9, <2>1, <2>2, <2>3, <2>4 DEF Less
<1> QED
  BY <1>1, <1>6, <1>7, <1>8, <1>9 DEF Remaining

\* What is prepared stays so, and nothing else gets past the preparation.
BatchesForward(b) ==
  \A c \in Batches :
     /\ batch[c].status \in {"ready", "committed"} => batch'[c].status \in {"ready", "committed"}
     /\ c # b /\ batch'[c].status \notin {"absent", "preparing"} =>
           batch[c].status \notin {"absent", "preparing"}
     /\ c # b /\ batch[c].status \notin {"absent", "preparing"} =>
           batch'[c].status = batch[c].status

\* One job changes and keeps its attempts; what it needs to fit.
LEMMA JobMoves ==
  ASSUME TypeOK, Owned, NEW b \in Batches, NEW j \in JobRows, job' = [job EXCEPT ![b] = j],
         j.attempts = job[b].attempts, j.gen = job[b].gen, j.status # "absent",
         j.owner # 0 <=> j.lease # "null",
         j.status = "processing" => j.lease # "null",
         j.lease = "running" => job[b].lease = "running",
         j.status = "succeeded" => batch'[b].status \in {"ready", "committed"},
         BatchesForward(b)
  PROVE  (\A c \in Batches : JobFits(c)') /\ JobsNoMore
<1>1. job'[b] = j /\ \A c \in Batches : c # b => job'[c] = job[c]
  BY DEF TypeOK
<1>2. JobsNoMore
  BY <1>1 DEF JobsNoMore
<1>3. JobFits(b)'
  BY <1>1 DEF JobFits
<1>4. ASSUME NEW c \in Batches, c # b PROVE JobFits(c)'
  BY <1>1, <1>4 DEF JobFits, Owned, BatchesForward
<1> QED
  BY <1>2, <1>3, <1>4

LEMMA JobsStay ==
  ASSUME TypeOK, Owned, UNCHANGED job,
         \A c \in Batches :
            /\ batch[c].status \in {"ready", "committed"} => batch'[c].status \in {"ready", "committed"}
            /\ batch'[c].status \notin {"absent", "preparing"} =>
                  batch[c].status \notin {"absent", "preparing"}
  PROVE  (\A c \in Batches : JobFits(c)') /\ JobsNoMore
  BY DEF Owned, JobFits, JobsNoMore

\* Only the round w moves.
LEMMA RoundMoves ==
  ASSUME TypeOK, Owned, NEW w \in Workers, \A v \in Workers : v # w => worker'[v] = worker[v],
         RoundFits(w)', \A c \in Batches : JobFits(c)',
         \A c \in Batches :
            batch[c].status \in {"ready", "committed"} => batch'[c].status \in {"ready", "committed"}
  PROVE  Owned'
<1>1. ASSUME NEW v \in Workers, v # w PROVE RoundFits(v)'
  <2>1. worker[v].pc # "idle" => B(v) \in Batches
    BY DEF TypeOK, B
  <2> QED
    BY <1>1, <2>1 DEF RoundFits, Owned, B
<1> QED
  BY <1>1 DEF Owned

\* The moves of a round.
LEMMA GotoShape ==
  ASSUME TypeOK, NEW w \in Workers, worker[w].pc \notin {"idle", "claimed"},
         NEW pc \in {"failing", "releasing", "marking", "committing", "acking", "closing"},
         Rank(pc) < Rank(worker[w].pc), Goto(w, pc)
  PROVE  /\ RoundsNoMore /\ Less
         /\ worker'[w].pc = pc /\ worker'[w].batch = worker[w].batch
         /\ worker'[w].todo = worker[w].todo
         /\ \A v \in Workers : v # w => worker'[v] = worker[v]
<1>1. worker' = [worker EXCEPT ![w] = [worker[w] EXCEPT !.pc = pc]] /\ worker[w] \in WorkerStates
  BY DEF Goto, TypeOK
<1>2. worker'[w] = [worker[w] EXCEPT !.pc = pc] /\ \A v \in Workers : v # w => worker'[v] = worker[v]
  BY <1>1 DEF TypeOK
<1>3. /\ worker'[w].pc = pc /\ worker'[w].batch = worker[w].batch
      /\ worker'[w].todo = worker[w].todo
  BY <1>1, <1>2 DEF WorkerStates
<1>4. ASSUME NEW v \in Workers
      PROVE  Rank(worker'[v].pc) <= Rank(worker[v].pc) /\ TodoLeft(v)' \subseteq TodoLeft(v)
  <2>1. CASE v = w
    BY <1>3, <2>1, Ranks DEF TodoLeft
  <2>2. CASE v # w
    BY <1>2, <2>2, Ranks DEF TodoLeft, B
  <2> QED
    BY <2>1, <2>2
<1> QED
  BY <1>2, <1>3, <1>4 DEF RoundsNoMore, Less

LEMMA RestShape ==
  ASSUME TypeOK, NEW w \in Workers, Busy(w), Rest(w)
  PROVE  /\ RoundsNoMore /\ Less /\ RoundFits(w)'
         /\ \A v \in Workers : v # w => worker'[v] = worker[v]
<1>1. worker'[w] = Resting /\ \A v \in Workers : v # w => worker'[v] = worker[v]
  BY DEF Rest, TypeOK
<1>2. worker'[w].pc = "idle"
  BY <1>1 DEF Resting
<1>3. worker[w].pc \in {"claimed", "preparing", "failing", "releasing", "marking", "committing",
                        "acking", "closing"}
  BY DEF TypeOK, WorkerStates, Busy
<1>4. Rank(worker'[w].pc) < Rank(worker[w].pc)
  BY <1>2, <1>3, Ranks
<1>5. ASSUME NEW v \in Workers
      PROVE  Rank(worker'[v].pc) <= Rank(worker[v].pc) /\ TodoLeft(v)' \subseteq TodoLeft(v)
  <2>1. CASE v = w
    BY <1>2, <1>4, <2>1, Ranks DEF TodoLeft
  <2>2. CASE v # w
    BY <1>1, <2>2, Ranks DEF TodoLeft, B
  <2> QED
    BY <2>1, <2>2
<1> QED
  BY <1>1, <1>2, <1>4, <1>5 DEF RoundsNoMore, Less, RoundFits

LEMMA DoneShape ==
  ASSUME TypeOK, NEW w \in Workers, worker[w].pc = "preparing", NEW k \in worker[w].todo, Done(w, k)
  PROVE  /\ RoundsNoMore /\ Less /\ RoundFits(w)'
         /\ \A v \in Workers : v # w => worker'[v] = worker[v]
<1>1. /\ worker' = [worker EXCEPT ![w] = [worker[w] EXCEPT !.todo = worker[w].todo \ {k}]]
      /\ worker[w] \in WorkerStates
  BY DEF Done, TypeOK
<1>2. /\ worker'[w] = [worker[w] EXCEPT !.todo = worker[w].todo \ {k}]
      /\ \A v \in Workers : v # w => worker'[v] = worker[v]
  BY <1>1 DEF TypeOK
<1>3. worker'[w].pc = "preparing" /\ worker'[w].todo = worker[w].todo \ {k}
  BY <1>1, <1>2 DEF WorkerStates
<1>4. TodoLeft(w) = worker[w].todo /\ TodoLeft(w)' = worker[w].todo \ {k}
  BY <1>3 DEF TodoLeft
<1>5. k \in AllItems
  BY DEF TypeOK, AllItems
<1>6. ASSUME NEW v \in Workers
      PROVE  Rank(worker'[v].pc) <= Rank(worker[v].pc) /\ TodoLeft(v)' \subseteq TodoLeft(v)
  <2>1. CASE v = w
    BY <1>3, <1>4, <2>1, Ranks
  <2>2. CASE v # w
    BY <1>2, <2>2, Ranks DEF TodoLeft, B
  <2> QED
    BY <2>1, <2>2
<1>7. Less
  BY <1>4, <1>5 DEF Less
<1> QED
  BY <1>2, <1>3, <1>6, <1>7 DEF RoundsNoMore, RoundFits

\* A busy round has a job, and one that is fenced has its lease.
LEMMA BusyFacts ==
  ASSUME IndInv, CountInv, Owned, NEW w \in Workers, Busy(w)
  PROVE  /\ B(w) \in Batches /\ job[B(w)] \in JobRows /\ job[B(w)].status # "absent"
         /\ Fenced(w) => job[B(w)].owner # 0 /\ job[B(w)].lease # "null"
<1>1. B(w) \in Batches /\ job[B(w)] \in JobRows /\ worker[w].claim \in Nat
  BY DEF IndInv, TypeOK, B, Busy, WorkerStates
<1>2. worker[w].claim >= 1 /\ worker[w].claim <= job[B(w)].gen /\ job[B(w)].gen \in Nat
  BY <1>1 DEF CountInv, ClaimsApart, JobRows
<1>3. JobFits(B(w))
  BY <1>1 DEF Owned
<1> QED
  BY <1>1, <1>2, <1>3 DEF JobFits, Fenced

-----------------------------------------------------------------------------
(* The steps of a round. *)

Spent == Owned' /\ JobsNoMore /\ RoundsNoMore /\ Less

\* A round that goes on, or ends, while its job and its batch stay or move forward.
LEMMA RoundSpends ==
  ASSUME TypeOK, Owned, NEW w \in Workers, RoundsNoMore, Less, RoundFits(w)',
         \A v \in Workers : v # w => worker'[v] = worker[v],
         \A c \in Batches : JobFits(c)', JobsNoMore,
         \A c \in Batches :
            batch[c].status \in {"ready", "committed"} => batch'[c].status \in {"ready", "committed"}
  PROVE  Spent
  BY RoundMoves DEF Spent

LEMMA ReadItemsSpends ==
  ASSUME TypeOK, Owned, NEW w \in Workers, ReadItems(w)
  PROVE  Spent
<1>0. worker[w] \in WorkerStates /\ B(w) \in Batches /\ worker[w].pc = "claimed"
  BY DEF TypeOK, ReadItems, B
<1> DEFINE left == {k \in Items(B(w)) : item[B(w)][k] # "succeeded"}
<1>1. /\ worker'[w] = [worker[w] EXCEPT !.pc = "preparing", !.todo = left]
      /\ \A v \in Workers : v # w => worker'[v] = worker[v]
  BY DEF ReadItems, TypeOK
<1>2. worker'[w].pc = "preparing" /\ worker'[w].todo = left
  BY <1>0, <1>1 DEF WorkerStates
<1>3. RoundsNoMore
  <2> SUFFICES ASSUME NEW v \in Workers
               PROVE  /\ Rank(worker'[v].pc) <= Rank(worker[v].pc)
                      /\ TodoLeft(v)' \subseteq TodoLeft(v)
    BY DEF RoundsNoMore
  <2>1. CASE v = w
    BY <1>0, <1>2, <2>1, Ranks DEF TodoLeft
  <2>2. CASE v # w
    BY <1>1, <2>2, Ranks DEF TodoLeft, B
  <2> QED
    BY <2>1, <2>2
<1>4. Less /\ RoundFits(w)'
  BY <1>0, <1>2, Ranks DEF Less, RoundFits
<1>5. (\A c \in Batches : JobFits(c)') /\ JobsNoMore
  BY JobsStay DEF ReadItems
<1> QED
  BY <1>1, <1>3, <1>4, <1>5, RoundSpends DEF ReadItems

LEMMA PrepareChunkSpends ==
  ASSUME IndInv, IndInv', CountInv, Owned, NEW w \in Workers, NEW k \in worker[w].todo,
         PrepareChunk(w, k)
  PROVE  Spent
<1>0. TypeOK /\ TypeOK' /\ Busy(w) /\ worker[w].pc = "preparing" /\ Fenced(w)
  BY DEF IndInv, PrepareChunk, Preparable, Busy
<1>1. /\ B(w) \in Batches /\ job[B(w)] \in JobRows
      /\ job[B(w)].owner # 0 /\ job[B(w)].lease # "null"
  BY <1>0, BusyFacts
<1>2. \A c \in Batches : batch'[c].status = batch[c].status
  BY <1>1 DEF IndInv, TypeOK, PrepareChunk, BatchRows
<1>3. (\A c \in Batches : JobFits(c)') /\ JobsNoMore
  <2> DEFINE j == [job[B(w)] EXCEPT !.status = "processing", !.baseline = Merged(B(w), k)]
  <2>1. job' = [job EXCEPT ![B(w)] = j]
    BY DEF PrepareChunk
  <2>2. job'[B(w)] = j /\ job' \in [Batches -> JobRows]
    BY <1>0, <1>1, <2>1 DEF TypeOK
  <2>3. /\ j.attempts = job[B(w)].attempts /\ j.gen = job[B(w)].gen /\ j.owner = job[B(w)].owner
        /\ j.lease = job[B(w)].lease /\ j.status = "processing"
    BY <1>1 DEF JobRows
  <2>4. BatchesForward(B(w))
    BY <1>2 DEF BatchesForward
  <2> HIDE DEF j
  <2>5. j \in JobRows
    BY <1>1, <2>2
  <2> QED
    BY <1>0, <1>1, <2>1, <2>3, <2>4, <2>5, JobMoves
<1>4. CASE Done(w, k)
  BY <1>0, <1>2, <1>3, <1>4, DoneShape, RoundSpends
<1>5. CASE Goto(w, "failing")
  <2>1. Rank("failing") < Rank(worker[w].pc)
    BY <1>0, Ranks
  <2>2. RoundFits(w)'
    BY <1>0, <1>5, <2>1, GotoShape DEF RoundFits
  <2> QED
    BY <1>0, <1>2, <1>3, <1>5, <2>1, <2>2, GotoShape, RoundSpends
<1> QED
  BY <1>4, <1>5 DEF PrepareChunk

\* A round that leaves its job as it is.
LEMMA LooseSpends ==
  ASSUME TypeOK, Owned, NEW w \in Workers,
         \/ PrepareFails(w) \/ CommitFails(w) \/ Abandon(w)
         \/ \E k \in worker[w].todo : SkipChunk(w, k) \/ MarkItemFailed(w, k)
  PROVE  Spent
<1>1. UNCHANGED <<batch, job>>
  BY DEF PrepareFails, CommitFails, Abandon, SkipChunk, MarkItemFailed
<1>2. (\A c \in Batches : JobFits(c)') /\ JobsNoMore
  BY <1>1, JobsStay
<1>3. CASE Rest(w) /\ Busy(w)
  BY <1>1, <1>2, <1>3, RestShape, RoundSpends
<1>4. ASSUME NEW k \in worker[w].todo, Done(w, k), worker[w].pc = "preparing"
      PROVE  Spent
  BY <1>1, <1>2, <1>4, DoneShape, RoundSpends
<1>5. CASE /\ worker[w].pc = "preparing" /\ worker[w].todo # {} /\ Goto(w, "failing")
  <2>1. Rank("failing") < Rank(worker[w].pc)
    BY <1>5, Ranks
  <2>2. RoundFits(w)'
    BY <1>5, <2>1, GotoShape DEF RoundFits
  <2> QED
    BY <1>1, <1>2, <1>5, <2>1, <2>2, GotoShape, RoundSpends
<1>6. CASE /\ worker[w].pc \in {"failing", "marking", "committing", "acking"}
           /\ Goto(w, "releasing")
  <2>1. Rank("releasing") < Rank(worker[w].pc)
    BY <1>6, Ranks
  <2>2. RoundFits(w)'
    BY <1>6, <2>1, GotoShape DEF RoundFits
  <2> QED
    BY <1>1, <1>2, <1>6, <2>1, <2>2, GotoShape, RoundSpends
<1> QED
  BY <1>3, <1>4, <1>5, <1>6 DEF PrepareFails, CommitFails, Abandon, SkipChunk, MarkItemFailed, Busy

\* The round gives its job back, or closes it.
LEMMA EndSpends ==
  ASSUME IndInv, CountInv, Owned, NEW w \in Workers, Release(w) \/ Acknowledge(w)
  PROVE  Spent
<1>0. TypeOK /\ Busy(w) /\ UNCHANGED batch /\ Rest(w)
  BY DEF IndInv, Release, Acknowledge, Busy
<1>1. B(w) \in Batches /\ job[B(w)] \in JobRows /\ job[B(w)].status # "absent"
  BY <1>0, BusyFacts
<1>2. (\A c \in Batches : JobFits(c)') /\ JobsNoMore
  <2>1. CASE UNCHANGED job
    BY <1>0, <2>1, JobsStay
  <2>2. ASSUME NEW st \in {"pending", "succeeded"}, job' = [job EXCEPT ![B(w)] = Unleased(@, st)],
               st = "succeeded" => batch[B(w)].status \in {"ready", "committed"}
        PROVE  (\A c \in Batches : JobFits(c)') /\ JobsNoMore
    <3> DEFINE j == Unleased(job[B(w)], st)
    <3>1. /\ j \in JobRows /\ j.owner = 0 /\ j.gen = job[B(w)].gen
          /\ j.attempts = job[B(w)].attempts
      BY <1>1, UnleasedFields
    <3>2. j.lease = "null" /\ j.status = st
      BY <1>1 DEF Unleased, JobRows
    <3>3. job' = [job EXCEPT ![B(w)] = j] /\ BatchesForward(B(w))
      BY <1>0, <2>2 DEF BatchesForward
    <3> HIDE DEF j
    <3> QED
      BY <1>0, <1>1, <2>2, <3>1, <3>2, <3>3, JobMoves
  <2>3. Acknowledge(w) => batch[B(w)].status \in {"ready", "committed"}
    BY DEF Acknowledge, Owned, RoundFits
  <2> QED
    BY <2>1, <2>2, <2>3 DEF Release, Acknowledge
<1> QED
  BY <1>0, <1>2, RestShape, RoundSpends

LEMMA MarkReadySpends ==
  ASSUME IndInv, CountInv, Owned, NEW w \in Workers, MarkReady(w)
  PROVE  Spent
<1>0. TypeOK /\ Busy(w) /\ UNCHANGED batch /\ worker[w].pc = "marking"
  BY DEF IndInv, MarkReady, Busy
<1>1. /\ B(w) \in Batches /\ job[B(w)] \in JobRows
      /\ Fenced(w) => job[B(w)].owner # 0 /\ job[B(w)].lease # "null"
      /\ batch[B(w)].status \in {"ready", "committed"}
  BY <1>0, BusyFacts DEF Owned, RoundFits
<1>2. CASE Fenced(w)
  <2> DEFINE j == [job[B(w)] EXCEPT !.status = "succeeded"]
  <2>1. job' = [job EXCEPT ![B(w)] = j] /\ Goto(w, "committing") /\ BatchesForward(B(w))
    BY <1>0, <1>2 DEF MarkReady, BatchesForward
  <2>2. /\ j \in JobRows /\ j.attempts = job[B(w)].attempts /\ j.gen = job[B(w)].gen
        /\ j.owner = job[B(w)].owner /\ j.lease = job[B(w)].lease /\ j.status = "succeeded"
    BY <1>1 DEF JobRows
  <2> HIDE DEF j
  <2>3. (\A c \in Batches : JobFits(c)') /\ JobsNoMore
    BY <1>0, <1>1, <1>2, <2>1, <2>2, JobMoves
  <2>4. Rank("committing") < Rank(worker[w].pc)
    BY <1>0, Ranks
  <2>5. worker'[w].pc = "committing" /\ worker'[w].batch = worker[w].batch
    BY <1>0, <2>1, <2>4, GotoShape
  <2>6. RoundFits(w)'
    BY <1>0, <1>1, <2>5 DEF RoundFits, B
  <2> QED
    BY <1>0, <2>1, <2>3, <2>4, <2>6, GotoShape, RoundSpends
<1>3. CASE UNCHANGED job /\ Rest(w)
  <2>1. (\A c \in Batches : JobFits(c)') /\ JobsNoMore
    BY <1>0, <1>3, JobsStay
  <2> QED
    BY <1>0, <1>3, <2>1, RestShape, RoundSpends
<1> QED
  BY <1>2, <1>3 DEF MarkReady

LEMMA CommitSpends ==
  ASSUME IndInv, Owned, NEW w \in Workers, Commit(w)
  PROVE  Spent
<1>0. TypeOK /\ UNCHANGED job /\ worker[w].pc = "committing" /\ B(w) \in Batches
  BY DEF IndInv, Commit, TypeOK, B
<1>1. /\ \A c \in Batches : c # B(w) => batch'[c].status = batch[c].status
      /\ batch'[B(w)].status = "committed"
      /\ batch[B(w)].status \in {"ready", "committed"}
  <2>1. CASE batch[B(w)].status = "committed" /\ UNCHANGED batch
    BY <1>0, <2>1
  <2>2. CASE Postable(B(w)) /\ batch' = [batch EXCEPT ![B(w)].status = "committed"]
    BY <1>0, <2>2 DEF Postable, TypeOK, BatchRows
  <2> QED
    BY <2>1, <2>2 DEF Commit
<1>2. (\A c \in Batches : JobFits(c)') /\ JobsNoMore
  BY <1>0, <1>1, JobsStay
<1>3. PICK pc \in {"acking", "releasing"} : Goto(w, pc)
  BY DEF Commit
<1>4. Rank(pc) < Rank(worker[w].pc)
  BY <1>0, Ranks
<1>5. worker'[w].pc = pc /\ worker'[w].batch = worker[w].batch
  BY <1>0, <1>3, <1>4, GotoShape
<1>6. RoundFits(w)'
  BY <1>1, <1>5 DEF RoundFits, B
<1> QED
  BY <1>0, <1>1, <1>2, <1>3, <1>4, <1>6, GotoShape, RoundSpends

\* Where the status that finalize answers takes a round.
LEMMA AfterSpends ==
  ASSUME IndInv, Owned, NEW w \in Workers, worker[w].pc = "preparing",
         NEW s \in {"absent", "preparing", "ready", "committed", "failed"}, After(w, s),
         batch'[B(w)].status = s, \A c \in Batches : JobFits(c)', JobsNoMore,
         \A c \in Batches :
            batch[c].status \in {"ready", "committed"} => batch'[c].status \in {"ready", "committed"}
  PROVE  Spent
<1>0. TypeOK
  BY DEF IndInv
<1>1. CASE Rest(w)
  BY <1>0, <1>1, RestShape, RoundSpends DEF Busy
<1>2. ASSUME NEW pc \in {"marking", "closing"}, Goto(w, pc), s \in {"ready", "committed"}
      PROVE  Spent
  <2>1. Rank(pc) < Rank(worker[w].pc)
    BY Ranks
  <2>2. worker'[w].pc = pc /\ worker'[w].batch = worker[w].batch
    BY <1>0, <1>2, <2>1, GotoShape
  <2>3. RoundFits(w)'
    BY <1>2, <2>2 DEF RoundFits, B
  <2> QED
    BY <1>0, <1>2, <2>1, <2>3, GotoShape, RoundSpends
<1> QED
  BY <1>1, <1>2 DEF After

LEMMA FinalizeSpends ==
  ASSUME IndInv, CountInv, Owned, NEW w \in Workers, Finalize(w)
  PROVE  Spent
<1>0. TypeOK /\ Busy(w) /\ worker[w].pc = "preparing"
  BY DEF IndInv, Finalize, Busy
<1>1. /\ B(w) \in Batches /\ job[B(w)] \in JobRows /\ batch[B(w)] \in BatchRows
      /\ JobFits(B(w)) /\ job[B(w)].status # "absent"
  BY <1>0, BusyFacts DEF Owned, TypeOK
<1>2. CASE UNCHANGED <<batch, job>> /\ After(w, batch[B(w)].status)
  <2>1. (\A c \in Batches : JobFits(c)') /\ JobsNoMore
    BY <1>0, <1>2, JobsStay
  <2> QED
    BY <1>0, <1>1, <1>2, <2>1, AfterSpends DEF BatchRows
<1>3. ASSUME NEW js \in {"failed", "succeeded"}, NEW s \in {"failed", "ready"},
             js = "succeeded" => s = "ready",
             batch[B(w)].status = "preparing",
             job' = [job EXCEPT ![B(w)].status = js],
             \A c \in Batches : c # B(w) => batch'[c] = batch[c],
             batch'[B(w)].status = s, After(w, s)
      PROVE  Spent
  <2> DEFINE j == [job[B(w)] EXCEPT !.status = js]
  <2>1. job' = [job EXCEPT ![B(w)] = j] /\ BatchesForward(B(w))
    BY <1>3 DEF BatchesForward
  <2>2. /\ j \in JobRows /\ j.attempts = job[B(w)].attempts /\ j.gen = job[B(w)].gen
        /\ j.owner = job[B(w)].owner /\ j.lease = job[B(w)].lease /\ j.status = js
    BY <1>1 DEF JobRows
  <2> HIDE DEF j
  <2>3. j.owner # 0 <=> j.lease # "null"
    BY <1>1, <2>2 DEF JobFits
  <2>4. (\A c \in Batches : JobFits(c)') /\ JobsNoMore
    BY <1>0, <1>1, <1>3, <2>1, <2>2, <2>3, JobMoves
  <2> QED
    BY <1>0, <1>3, <2>1, <2>4, AfterSpends DEF BatchesForward
<1>4. CASE /\ batch[B(w)].status = "preparing"
           /\ job' = [job EXCEPT ![B(w)].status = "failed"]
           /\ batch' = [batch EXCEPT ![B(w)].status = "failed"] /\ After(w, "failed")
  <2>1. batch'[B(w)].status = "failed" /\ \A c \in Batches : c # B(w) => batch'[c] = batch[c]
    BY <1>0, <1>1, <1>4 DEF TypeOK, BatchRows
  <2> QED
    BY <1>3, <1>4, <2>1
<1>5. CASE /\ batch[B(w)].status = "preparing"
           /\ job' = [job EXCEPT ![B(w)].status = "succeeded"]
           /\ batch' = [batch EXCEPT ![B(w)].status = "ready", ![B(w)].hash = job[B(w)].baseline]
           /\ After(w, "ready")
  <2>1. batch'[B(w)].status = "ready" /\ \A c \in Batches : c # B(w) => batch'[c] = batch[c]
    BY <1>0, <1>1, <1>5 DEF TypeOK, BatchRows
  <2> QED
    BY <1>3, <1>5, <2>1
<1> QED
  BY <1>2, <1>4, <1>5 DEF Finalize

-----------------------------------------------------------------------------
(* Claims, polls, leases and people. *)

LEMMA SweptFits ==
  ASSUME TypeOK, Owned, NEW b \in Batches
  PROVE  /\ Swept[b] \in JobRows /\ Swept[b].attempts = job[b].attempts
         /\ Swept[b].gen = job[b].gen
         /\ Swept[b].owner # 0 <=> Swept[b].lease # "null"
         /\ Swept[b].status = "processing" => Swept[b].lease # "null"
         /\ Swept[b].status \in {job[b].status, "dead"}
         /\ Swept[b].status = "absent" <=> job[b].status = "absent"
         /\ Swept[b].lease = "running" => job[b].lease = "running"
         /\ Exhausted(b) => Swept[b].status = "dead"
<1>0. job[b] \in JobRows /\ JobFits(b)
  BY DEF TypeOK, Owned
<1>1. CASE Exhausted(b)
  <2>1. Swept[b] = Unleased(job[b], "dead")
    BY <1>1 DEF Swept
  <2>2. Swept[b].status = "dead" /\ Swept[b].lease = "null"
    BY <1>0, <2>1 DEF Unleased, JobRows
  <2>3. job[b].status # "absent"
    BY <1>1 DEF Exhausted, Expired
  <2> QED
    BY <1>0, <1>1, <2>1, <2>2, <2>3, UnleasedFields
<1>2. CASE ~Exhausted(b)
  BY <1>0, <1>2 DEF Swept, JobFits
<1> QED
  BY <1>1, <1>2

\* A claim spends one of the attempts, whatever else it starts.
LEMMA ClaimSpends ==
  ASSUME IndInv, Owned, NEW w \in Workers, NEW b \in Batches, Claim(w, b)
  PROVE  Owned' /\ Nearer
<1>0. TypeOK /\ UNCHANGED batch
  BY DEF IndInv, Claim
<1>1. job[b] \in JobRows /\ job[b].attempts \in Nat /\ job[b].gen \in Nat
  BY <1>0, Constants DEF TypeOK, JobRows
<1>2. /\ job'[b].attempts = job[b].attempts + 1 /\ job'[b].gen = job[b].gen + 1
      /\ job'[b].owner = job[b].gen + 1 /\ job'[b].lease = "running"
      /\ job'[b].status = "processing"
      /\ \A c \in Batches : c # b => job'[c] = Swept[c]
  <2> DEFINE j == [Swept[b] EXCEPT !.status = "processing", !.attempts = job[b].attempts + 1,
                      !.gen = job[b].gen + 1, !.owner = job[b].gen + 1, !.lease = "running"]
  <2>1. job' = [Swept EXCEPT ![b] = j]
    BY DEF Claim
  <2>2. Swept \in [Batches -> JobRows]
    BY <1>0, SweptFields
  <2>3. /\ j.attempts = job[b].attempts + 1 /\ j.gen = job[b].gen + 1
        /\ j.owner = job[b].gen + 1 /\ j.lease = "running" /\ j.status = "processing"
    BY <2>2 DEF JobRows
  <2> HIDE DEF j
  <2> QED
    BY <2>1, <2>2, <2>3
<1>3. /\ worker'[w].pc = "claimed"
      /\ \A v \in Workers : v # w => worker'[v] = worker[v]
  BY <1>0 DEF Claim, TypeOK, Resting
<1>4. ASSUME NEW c \in Batches PROVE JobFits(c)'
  <2>1. CASE c = b
    BY <1>1, <1>2, <2>1 DEF JobFits
  <2>2. CASE c # b
    BY <1>0, <1>2, <2>2, SweptFits DEF JobFits, Owned
  <2> QED
    BY <2>1, <2>2
<1>5. Owned'
  BY <1>0, <1>3, <1>4, RoundMoves DEF RoundFits
<1>6. \A c \in Batches : job[c].attempts \in Nat /\ job'[c].attempts \in Nat
                         /\ job[c].attempts <= job'[c].attempts
  <2> TAKE c \in Batches
  <2>1. job[c].attempts \in Nat
    BY <1>0, Constants DEF TypeOK, JobRows
  <2>2. CASE c = b
    BY <1>1, <1>2, <2>2
  <2>3. CASE c # b
    BY <1>0, <1>2, <2>1, <2>3, SweptFits
  <2> QED
    BY <2>2, <2>3
<1>7. TriesLeft' \subseteq TriesLeft
  BY <1>6 DEF TriesLeft, Tries
<1> DEFINE t == <<b, job[b].attempts + 1>>
<1>8. t \in Tries /\ job[b].attempts < job[b].attempts + 1
  BY <1>1, Constants DEF Tries, Claim, Claimable
<1>9. t \in TriesLeft /\ t \notin TriesLeft'
  BY <1>1, <1>2, <1>8 DEF TriesLeft
<1> HIDE DEF t
<1>10. <<TriesLeft', TriesLeft>> \in StrictSubsetOrdering(Tries)
  BY <1>7, <1>9, RemainingType DEF StrictSubsetOrdering
<1> QED
  BY <1>5, <1>10, RemainingType DEF Nearer, Remaining, Fewer, LexPairOrdering

\* Steps outside the rounds that end something, or leave all as it is.
LEMMA TablesSpend ==
  ASSUME TypeOK, Owned, UNCHANGED worker, \A c \in Batches : JobFits(c)', JobsNoMore,
         \A c \in Batches :
            batch[c].status \in {"ready", "committed"} => batch'[c].status \in {"ready", "committed"}
  PROVE  /\ Owned'
         /\ Less => Nearer
         /\ JobsOpen' \subseteq JobsOpen => Nearer \/ Remaining' = Remaining
         /\ JobsOpen' \subseteq JobsOpen /\ JobsOpen' # JobsOpen => Nearer
<1>1. \A w \in Workers : RoundFits(w)'
  <2> TAKE w \in Workers
  <2>1. worker[w].pc # "idle" => B(w) \in Batches
    BY DEF TypeOK, B
  <2> QED
    BY <2>1 DEF Owned, RoundFits, B
<1>2. RoundsNoMore
  BY Ranks DEF RoundsNoMore, TodoLeft, B
<1> QED
  BY <1>1, <1>2, NoMoreShape DEF Owned

LEMMA ClaimNothingSpends ==
  ASSUME IndInv, Owned, NEW w \in Workers, ClaimNothing(w)
  PROVE  Owned' /\ Nearer
<1>0. TypeOK /\ UNCHANGED <<batch, worker>> /\ \A c \in Batches : job'[c] = Swept[c]
  BY DEF IndInv, ClaimNothing
<1>1. (\A c \in Batches : JobFits(c)') /\ JobsNoMore
  BY <1>0, SweptFits DEF JobFits, JobsNoMore, Owned
<1>2. JobsOpen' \subseteq JobsOpen
  BY <1>0, SweptFits DEF JobsOpen
<1>3. PICK b \in Batches : Exhausted(b)
  BY DEF ClaimNothing
<1>4. b \in JobsOpen /\ b \notin JobsOpen'
  BY <1>0, <1>3, SweptFits DEF JobsOpen, Exhausted, Expired
<1> QED
  BY <1>0, <1>1, <1>2, <1>4, TablesSpend

LEMMA PollSpends ==
  ASSUME IndInv, Owned, NEW b \in Batches, Poll(b) \/ Expire(b)
  PROVE  Owned' /\ Nearer
<1>0. TypeOK /\ UNCHANGED <<batch, worker>> /\ job[b] \in JobRows /\ JobFits(b)
  BY DEF IndInv, Poll, EnsureJob, Requeue, Expire, TypeOK, Owned
<1>1. CASE Expire(b)
  <2> DEFINE j == [job[b] EXCEPT !.lease = "expired"]
  <2>1. job' = [job EXCEPT ![b] = j] /\ BatchesForward(b)
    BY <1>0, <1>1 DEF Expire, BatchesForward
  <2>2. /\ j \in JobRows /\ j.attempts = job[b].attempts /\ j.gen = job[b].gen
        /\ j.owner = job[b].owner /\ j.lease = "expired" /\ j.status = job[b].status
    BY <1>0 DEF JobRows
  <2>3. /\ job[b].lease = "running" /\ job[b].status # "absent"
    <3>1. job[b].lease = "running"
      BY <1>1 DEF Expire
    <3>2. job[b].owner # 0 /\ job[b].owner \in {0, job[b].gen}
      BY <1>0, <3>1 DEF JobFits, TypeOK
    <3> QED
      BY <1>0, <3>1, <3>2 DEF JobFits
  <2> HIDE DEF j
  <2>4. (\A c \in Batches : JobFits(c)') /\ JobsNoMore
    BY <1>0, <2>1, <2>2, <2>3, JobMoves DEF JobFits
  <2>5. Less
    <3>1. job'[b] = j
      BY <1>0, <2>1 DEF TypeOK
    <3> QED
      BY <2>2, <2>3, <3>1 DEF Less
  <2> QED
    BY <1>0, <2>4, <2>5, TablesSpend
<1>2. ASSUME NEW s \in {"absent", "succeeded"}, job[b].status = s,
             job' = [job EXCEPT ![b].status = "pending"]
      PROVE  Owned' /\ Nearer
  <2> DEFINE j == [job[b] EXCEPT !.status = "pending"]
  <2>1. job' = [job EXCEPT ![b] = j] /\ BatchesForward(b)
    BY <1>0, <1>2 DEF BatchesForward
  <2>2. /\ j \in JobRows /\ j.attempts = job[b].attempts /\ j.gen = job[b].gen
        /\ j.owner = job[b].owner /\ j.lease = job[b].lease /\ j.status = "pending"
    BY <1>0 DEF JobRows
  <2> HIDE DEF j
  <2>3. j.owner # 0 <=> j.lease # "null"
    BY <1>0, <2>2 DEF JobFits
  <2>4. (\A c \in Batches : JobFits(c)') /\ JobsNoMore
    BY <1>0, <2>1, <2>2, <2>3, JobMoves
  <2>5. job'[b] = j /\ \A c \in Batches : c # b => job'[c] = job[c]
    BY <1>0, <2>1 DEF TypeOK
  <2>6. CASE s = "absent"
    <3>1. Less
      BY <1>2, <2>2, <2>5, <2>6 DEF Less
    <3> QED
      BY <1>0, <2>4, <3>1, TablesSpend
  <2>7. CASE s = "succeeded"
    <3>1. JobsOpen' \subseteq JobsOpen
      BY <2>2, <2>5 DEF JobsOpen
    <3>2. b \in JobsOpen /\ b \notin JobsOpen'
      BY <1>2, <2>2, <2>5, <2>7 DEF JobsOpen
    <3> QED
      BY <1>0, <2>4, <3>1, <3>2, TablesSpend
  <2> QED
    BY <2>6, <2>7
<1> QED
  BY <1>1, <1>2 DEF Poll, EnsureJob, Requeue, Requeueable

\* A person ends the job, or the final review opens the batch.
LEMMA DecisionSpends ==
  ASSUME IndInv, Owned, NEW b \in Batches, FinalApprove(b) \/ Cancel(b)
  PROVE  Owned' /\ (Nearer \/ Remaining' = Remaining)
<1>0. TypeOK /\ UNCHANGED worker /\ job[b] \in JobRows /\ JobFits(b)
  BY DEF IndInv, FinalApprove, Cancel, TypeOK, Owned
<1>1. CASE FinalApprove(b)
  <2>1. /\ batch[b].status = "absent" /\ batch'[b].status = "preparing" /\ UNCHANGED job
        /\ \A c \in Batches : c # b => batch'[c] = batch[c]
    BY <1>0, <1>1 DEF FinalApprove, TypeOK, BatchRows
  <2>2. (\A c \in Batches : JobFits(c)') /\ JobsNoMore
    BY <1>0, <2>1, JobsStay
  <2>3. JobsOpen' = JobsOpen
    BY <2>1 DEF JobsOpen
  <2> QED
    BY <1>0, <2>1, <2>2, <2>3, TablesSpend
<1>2. CASE Cancel(b)
  <2> DEFINE j == Unleased(job[b], "cancelled")
  <2>1. job' = [job EXCEPT ![b] = j] /\ BatchesForward(b) /\ UNCHANGED batch
    BY <1>0, <1>2 DEF Cancel, BatchesForward
  <2>2. /\ j \in JobRows /\ j.owner = 0 /\ j.gen = job[b].gen /\ j.attempts = job[b].attempts
        /\ j.lease = "null" /\ j.status = "cancelled"
    <3>1. j.lease = "null" /\ j.status = "cancelled"
      BY <1>0 DEF Unleased, JobRows
    <3> QED
      BY <1>0, <3>1, UnleasedFields
  <2> HIDE DEF j
  <2>3. (\A c \in Batches : JobFits(c)') /\ JobsNoMore
    BY <1>0, <2>1, <2>2, JobMoves
  <2>4. JobsOpen' \subseteq JobsOpen
    <3>1. job'[b] = j /\ \A c \in Batches : c # b => job'[c] = job[c]
      BY <1>0, <2>1 DEF TypeOK
    <3> QED
      BY <2>2, <3>1 DEF JobsOpen
  <2> QED
    BY <1>0, <2>1, <2>3, <2>4, TablesSpend
<1> QED
  BY <1>1, <1>2

Background ==
  \/ \E w \in Workers : Work(w)
  \/ \E b \in Batches : Poll(b) \/ Expire(b)

LEMMA NextSpends ==
  ASSUME IndInv, IndInv', CountInv, Owned, [Next]_vars
  PROVE  /\ Owned'
         /\ Background => Nearer
         /\ Nearer \/ Remaining' = Remaining
<1>0. TypeOK
  BY DEF IndInv
<1>1. CASE Background
  <2>1. ASSUME NEW b \in Batches, Poll(b) \/ Expire(b) PROVE Owned' /\ Nearer
    BY <2>1, PollSpends
  <2>2. ASSUME NEW w \in Workers, Work(w) PROVE Owned' /\ Nearer
    <3>1. CASE ClaimNothing(w) \/ \E b \in Batches : Claim(w, b)
      BY <3>1, ClaimSpends, ClaimNothingSpends
    <3>2. CASE \/ ReadItems(w) \/ Prepare(w) \/ PrepareFails(w) \/ Release(w) \/ Finalize(w)
               \/ MarkReady(w) \/ Commit(w) \/ CommitFails(w) \/ Acknowledge(w)
      <4>1. Spent
        BY <1>0, <3>2, ReadItemsSpends, PrepareChunkSpends, LooseSpends, EndSpends,
           FinalizeSpends, MarkReadySpends, CommitSpends DEF Prepare
      <4> QED
        BY <4>1, NoMoreShape DEF Spent
    <3> QED
      BY <2>2, <3>1, <3>2 DEF Work
  <2> QED
    BY <1>1, <2>1, <2>2 DEF Background
<1>2. ASSUME NEW w \in Workers, Abandon(w) PROVE Owned' /\ Nearer
  BY <1>0, <1>2, LooseSpends, NoMoreShape DEF Spent
<1>3. ASSUME NEW b \in Batches, FinalApprove(b) \/ Cancel(b)
      PROVE  Owned' /\ (Nearer \/ Remaining' = Remaining)
  BY <1>3, DecisionSpends
<1>4. CASE UNCHANGED vars
  <2>1. (\A c \in Batches : JobFits(c)') /\ JobsNoMore /\ JobsOpen' = JobsOpen
    BY <1>0, <1>4, JobsStay DEF vars, JobsOpen
  <2>2. UNCHANGED <<worker, batch>>
    BY <1>4 DEF vars
  <2> QED
    BY <1>0, <1>1, <2>1, <2>2, TablesSpend
<1> QED
  BY <1>1, <1>2, <1>3, <1>4 DEF Next, Background

LEMMA InitCounts == Init => CountInv /\ Owned
<1> SUFFICES ASSUME Init PROVE CountInv /\ Owned
  OBVIOUS
<1>1. Owned
  BY DEF Init, Owned, JobFits, RoundFits, NoJob, NoBatchRow, Resting
<1> QED
  BY <1>1, InitCountInv

LEMMA OwnedHolds == Spec => [](CountInv /\ Owned)
<1>1. IndInv /\ IndInv' /\ (CountInv /\ Owned) /\ [Next]_vars => (CountInv /\ Owned)'
  BY NextCount, NextSpends
<1> QED
  BY <1>1, InitCounts, Invariance, PTL DEF Spec

\* Whatever a worker, a poll or the end of a lease does leaves strictly less to do.
\* Nothing leaves more: no crash, no cancelling, no lost answer.
THEOREM BackgroundIsSpent ==
  Spec => [][(Background => Nearer) /\ (Nearer \/ Remaining' = Remaining)]_vars
<1>1. /\ IndInv /\ IndInv' /\ (CountInv /\ Owned) /\ [Next]_vars
      => [(Background => Nearer) /\ (Nearer \/ Remaining' = Remaining)]_vars
  BY NextSpends
<1> QED
  BY <1>1, Invariance, OwnedHolds, PTL DEF Spec

\* No round is stuck, no job stays with a dead holder unseen, and a batch on its
\* way to the ledger is somebody's, or parked.
THEOREM WorkGoesOnHolds == Spec => []WorkGoesOn
<1>1. ASSUME IndInv, Owned
      PROVE  WorkGoesOn
  <2> USE <1>1
  <2>1. ASSUME NEW w \in Workers, Busy(w)
        PROVE  CanWork(w)
    <3>1. worker[w] \in WorkerStates /\ worker[w].todo \subseteq Items(B(w)) /\ B(w) \in Batches
      BY <2>1 DEF IndInv, TypeOK, Busy, B
    <3>2. CASE worker[w].pc = "failing"
      <4>1. worker[w].todo # {} /\ worker[w].todo \in SUBSET Nat
        BY <3>1, <3>2 DEF Owned, RoundFits, WorkerStates
      <4>2. \E k \in worker[w].todo : \A l \in worker[w].todo : k <= l
        BY <4>1, Smallest
      <4> QED
        BY <3>2, <4>2 DEF CanWork, First
    <3> QED
      BY <2>1, <3>1, <3>2 DEF CanWork, WorkerStates, Busy
  <2>2. ASSUME NEW b \in Batches
        PROVE  /\ job[b].status = "processing" => Attended(b)
               /\ batch[b].status \in {"preparing", "ready"} => Parked(b) \/ Attended(b)
    <3>1. /\ job[b] \in JobRows /\ JobFits(b)
          /\ job[b].attempts \in Nat /\ MaxAttempts \in Nat
      BY Constants DEF IndInv, TypeOK, Owned, JobRows
    <3>2. job[b].status = "processing" => Attended(b)
      BY <3>1 DEF JobFits, JobRows, Attended, Claimable, Exhausted, Expired
    <3>3. job[b].status = "pending" => Parked(b) \/ Attended(b)
      BY <3>1 DEF Attended, Claimable, Parked
    <3>4. batch[b].status = "preparing" /\ job[b].status \in {"absent", "succeeded"} => Attended(b)
      BY <3>1 DEF JobFits, Attended, CanPoll
    <3>5. batch[b].status = "ready" /\ job[b].status \in {"absent", "succeeded"} => Attended(b)
      BY <3>1 DEF JobFits, Attended, CanPoll, Requeueable
    <3> QED
      BY <3>1, <3>2, <3>3, <3>4, <3>5 DEF JobRows, Parked
  <2> QED
    BY <2>1, <2>2 DEF WorkGoesOn
<1> QED
  BY <1>1, Invariance, OwnedHolds, PTL
=============================================================================
