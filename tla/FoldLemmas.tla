------------------------------ MODULE FoldLemmas ------------------------------
(***************************************************************************)
(* What a fold over numbered places leaves behind.  The prover cannot      *)
(* instantiate the induction theorems, whose hypothesis is an operator;    *)
(* here the induction is a choice of a smallest counterexample, and the    *)
(* hypothesis is a set: what each step keeps in it is in it at the end.    *)
(***************************************************************************)
EXTENDS FiniteSetsExt, FiniteSetTheorems, WellFoundedInduction, TLAPS

\* Each set of naturals that is not empty has a smallest element.
LEMMA Smallest ==
  ASSUME NEW T \in SUBSET Nat, T # {}
  PROVE  \E n \in T : \A k \in T : n <= k
<1>1. PICK n \in T : \A k \in T : <<k, n>> \notin OpToRel(<, Nat)
  BY WFMin, NatLessThanWellFounded
<1>2. \A k \in T : ~(k < n)
  BY <1>1 DEF OpToRel
<1> QED
  BY <1>2

\* Among subsets of a finite set there is one that includes no other.
LEMMA SmallestSet ==
  ASSUME NEW S, IsFiniteSet(S), NEW T \in SUBSET SUBSET S, T # {}
  PROVE  \E s \in T : \A t \in T : t \subseteq s => t = s
<1>1. IsWellFoundedOn(StrictSubsetOrdering(S), SUBSET S)
  BY FS_StrictSubsetOrderingWellFounded, FS_FiniteSubsetsOfFinite
<1>2. PICK s \in T : \A t \in T : <<t, s>> \notin StrictSubsetOrdering(S)
  BY <1>1, WFMin
<1> QED
  BY <1>2 DEF StrictSubsetOrdering

\* The subsets of S with at most n elements.
Small(S, n) == {s \in SUBSET S : Cardinality(s) <= n}

\* The largest of some places is one of them.
LEMMA MaxIsIn ==
  ASSUME NEW n \in Nat, NEW T \in SUBSET (1 .. n), T # {}
  PROVE  Max(T) \in T
<1> DEFINE U == {n - k : k \in T}
<1>1. U \in SUBSET Nat /\ U # {}
  OBVIOUS
<1>2. PICK u \in U : \A v \in U : u <= v
  BY <1>1, Smallest
<1>3. PICK k \in T : u = n - k
  OBVIOUS
<1>4. \A j \in T : k >= j
  <2> SUFFICES ASSUME NEW j \in T PROVE k >= j
    OBVIOUS
  <2>1. n - k <= n - j
    BY <1>2, <1>3
  <2> QED
    BY <2>1
<1> QED
  BY <1>4 DEF Max

\* g folds the steps F over the sets of places in D, the last place last.
Folds(F, base, D, g) ==
    g = [t \in D |-> IF t = {} THEN base ELSE F[Max(t)][g[t \ {Max(t)}]]]

\* The fold over all sets of places is defined.
LEMMA FoldExists ==
  ASSUME NEW n \in Nat, NEW F, NEW base
  PROVE  \E g : Folds(F, base, SUBSET (1 .. n), g)
<1> DEFINE S == 1 .. n
           Bad == {k \in Nat : ~ \E g : Folds(F, base, Small(S, k), g)}
<1>1. IsFiniteSet(S) /\ Cardinality(S) \in Nat
  BY FS_Interval, FS_CardinalityType
<1>2. \A s \in SUBSET S : IsFiniteSet(s) /\ Cardinality(s) \in Nat /\ Cardinality(s) <= Cardinality(S)
  BY <1>1, FS_Subset, FS_CardinalityType
<1>3. Small(S, Cardinality(S)) = SUBSET S
  BY <1>2 DEF Small
<1>4. Bad = {}
  <2> SUFFICES ASSUME Bad # {} PROVE FALSE
    OBVIOUS
  <2>1. PICK k \in Bad : \A j \in Bad : k <= j
    BY Smallest
  <2>2. CASE k = 0
    <3> DEFINE g == [s \in Small(S, 0) |-> base]
    <3>1. \A s \in Small(S, 0) : s = {}
      BY <1>2, FS_EmptySet DEF Small
    <3>2. Folds(F, base, Small(S, 0), g)
      BY <3>1 DEF Folds
    <3> QED
      BY <2>1, <2>2, <3>2
  <2>3. CASE k # 0
    <3> DEFINE D == Small(S, k - 1)
    <3>1. k - 1 \in Nat /\ k - 1 \notin Bad
      BY <2>1, <2>3
    <3>2. PICK g : Folds(F, base, D, g)
      BY <3>1
    <3> DEFINE h == [s \in Small(S, k) |-> IF s = {} THEN base ELSE F[Max(s)][g[s \ {Max(s)}]]]
    <3>3. \A s \in Small(S, k) : s # {} => s \ {Max(s)} \in D
      <4> SUFFICES ASSUME NEW s \in Small(S, k), s # {} PROVE s \ {Max(s)} \in D
        OBVIOUS
      <4>1. IsFiniteSet(s) /\ Cardinality(s) \in Nat /\ Cardinality(s) <= k /\ s \in SUBSET S
        BY <1>2 DEF Small
      <4>2. Max(s) \in s
        BY <4>1, MaxIsIn
      <4>3. Cardinality(s \ {Max(s)}) = Cardinality(s) - 1
        BY <4>1, <4>2, FS_RemoveElement
      <4>4. s \ {Max(s)} \in SUBSET S
        BY <4>1
      <4>5. Cardinality(s \ {Max(s)}) <= k - 1
        BY <4>1, <4>3, <2>1
      <4> QED
        BY <4>4, <4>5 DEF Small
    <3>4. D \subseteq Small(S, k)
      BY <1>2, <2>1 DEF Small
    <3>5. \A s \in D : h[s] = g[s]
      BY <3>2, <3>4 DEF Folds
    <3>6. \A s \in Small(S, k) : h[s] = IF s = {} THEN base ELSE F[Max(s)][h[s \ {Max(s)}]]
      <4> SUFFICES ASSUME NEW s \in Small(S, k)
                   PROVE  h[s] = IF s = {} THEN base ELSE F[Max(s)][h[s \ {Max(s)}]]
        OBVIOUS
      <4>1. h[s] = IF s = {} THEN base ELSE F[Max(s)][g[s \ {Max(s)}]]
        OBVIOUS
      <4>2. s # {} => h[s \ {Max(s)}] = g[s \ {Max(s)}]
        BY <3>3, <3>5
      <4> QED
        BY <4>1, <4>2
    <3>7. h = [s \in Small(S, k) |-> h[s]]
      OBVIOUS
    <3>8. Folds(F, base, Small(S, k), h)
      <4> HIDE DEF h
      <4> QED
        BY <3>6, <3>7 DEF Folds
    <3> QED
      BY <3>8, <2>1
  <2> QED
    BY <2>2, <2>3
<1>5. \E g : Folds(F, base, Small(S, Cardinality(S)), g)
  <2>1. Cardinality(S) \notin Bad
    BY <1>4
  <2> QED
    BY <1>1, <2>1
<1> QED
  BY <1>3, <1>5

\* A step F[x] takes what is good for the places T to what is good for those and x.
Carries(F, n, B, G) ==
    \A T \in SUBSET (1 .. n) : \A x \in (1 .. n) \ T : \A b \in B :
        <<T, b>> \in G => F[x][b] \in B /\ <<T \cup {x}, F[x][b]>> \in G

\* Then the fold is good for all places.
LEMMA FoldCarries ==
  ASSUME NEW n \in Nat, NEW F, NEW B, NEW G, Carries(F, n, B, G),
         NEW base \in B, <<{}, base>> \in G,
         NEW g, Folds(F, base, SUBSET (1 .. n), g)
  PROVE  \A T \in SUBSET (1 .. n) : g[T] \in B /\ <<T, g[T]>> \in G
<1> DEFINE S == 1 .. n
           Bad == {T \in SUBSET S : ~(g[T] \in B /\ <<T, g[T]>> \in G)}
<1>1. \A T \in SUBSET (1 .. n) : g[T] = IF T = {} THEN base ELSE F[Max(T)][g[T \ {Max(T)}]]
  BY DEF Folds
<1>2. ASSUME Bad # {} PROVE FALSE
  <2>1. PICK T \in Bad : \A U \in Bad : U \subseteq T => U = T
    <3>1. Bad \in SUBSET SUBSET S
      OBVIOUS
    <3>2. IsFiniteSet(S)
      BY FS_Interval
    <3> HIDE DEF Bad, S
    <3> QED
      BY <1>2, <3>1, <3>2, SmallestSet
  <2>2. T # {}
    BY <2>1, <1>1
  <2> DEFINE x == Max(T)
             U == T \ {x}
  <2>3. x \in T /\ T \in SUBSET (1 .. n)
    BY <2>1, <2>2, MaxIsIn
  <2>4. U \in SUBSET (1 .. n) /\ x \in (1 .. n) \ U /\ U \cup {x} = T
    BY <2>3
  <2>5. g[U] \in B /\ <<U, g[U]>> \in G
    BY <2>1, <2>3, <2>4
  <2>6. g[T] = F[x][g[U]]
    BY <1>1, <2>2, <2>3
  <2>7. F[x][g[U]] \in B /\ <<U \cup {x}, F[x][g[U]]>> \in G
    <3> HIDE DEF x, U
    <3> QED
      BY <2>4, <2>5 DEF Carries
  <2> QED
    BY <2>1, <2>4, <2>6, <2>7
<1> QED
  BY <1>2

\* Functions that agree whenever they agree without the last place agree.
StepsAgree(g, h, n) ==
    /\ g[{}] = h[{}]
    /\ \A T \in SUBSET (1 .. n) :
        T # {} /\ g[T \ {Max(T)}] = h[T \ {Max(T)}] => g[T] = h[T]

LEMMA FoldUnique ==
  ASSUME NEW n \in Nat, NEW g, NEW h, StepsAgree(g, h, n)
  PROVE  \A T \in SUBSET (1 .. n) : g[T] = h[T]
<1> DEFINE S == 1 .. n
           Bad == {T \in SUBSET S : g[T] # h[T]}
<1>1. ASSUME Bad # {} PROVE FALSE
  <2>1. PICK T \in Bad : \A U \in Bad : U \subseteq T => U = T
    <3>1. Bad \in SUBSET SUBSET S
      OBVIOUS
    <3>2. IsFiniteSet(S)
      BY FS_Interval
    <3> HIDE DEF Bad, S
    <3> QED
      BY <1>1, <3>1, <3>2, SmallestSet
  <2>2. T # {} /\ T \in SUBSET (1 .. n)
    BY <2>1 DEF StepsAgree
  <2>3. Max(T) \in T
    BY <2>2, MaxIsIn
  <2>4. g[T \ {Max(T)}] = h[T \ {Max(T)}]
    BY <2>1, <2>3
  <2> QED
    BY <2>1, <2>2, <2>4 DEF StepsAgree
<1> QED
  BY <1>1
=============================================================================
