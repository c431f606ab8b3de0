-------------------------- MODULE RegistrationsProofs --------------------------
(***************************************************************************)
(* Proofs about Registrations, for any members, sessions, positions and    *)
(* limits.  The heart is GoodBooks: identities, reservations and counters  *)
(* tell the same story.  Reserving, releasing and rewriting identities     *)
(* keep it, hence also the folds over the sessions, and with them every    *)
(* command.                                                                *)
(***************************************************************************)
EXTENDS Registrations, FoldLemmas

BookSet == [identity: [Member -> [Session -> Identity]],
            active: SUBSET Reservation, occupied: [Bucket -> Nat]]

\* One identity, in session s, agrees with itself.
IdentityFits(i, s) ==
    /\ i.seat = (i.status = "pass")
    /\ i.position \in Offered[s] \cup {None} /\ i.asked \in Offered[s] \cup {None}
    /\ i.status # "pass" => i.position = None
    /\ i.status \in {"none", "pending"} => i.asked = None
    /\ i.status = "pass" => i.asked = i.position

Passes(b, n, s) == b.identity[n][s].status = "pass"

\* The reservations of n are those of n's identities, and one of the activity
\* if there is a seat.
HeldRight(b, n) ==
    /\ \A s \in Session :
        /\ Holds(b, n, s, s) <=> Passes(b, n, s)
        /\ \A p \in Position : Holds(b, n, s, p) <=> b.identity[n][s].position = p
    /\ \A r \in b.active : r.member = n /\ r.bucket \in Session => r.bucket = r.session
    /\ (\E s \in Session : Passes(b, n, s)) => \E r : Persons(b, n) = {r}
    /\ (\A s \in Session : ~ Passes(b, n, s)) => Persons(b, n) = {}

Of(b, k) == {r \in b.active : r.bucket = k}

Counted(b) ==
    /\ IsFiniteSet(b.active)
    /\ \A k \in Bucket : b.occupied[k] = Cardinality(Of(b, k))

Within(b) == \A k \in Bucket : capacity[k] = None \/ b.occupied[k] <= capacity[k]

\* Seats and waiters are in sessions that take place.
Placed(b) == \A n \in Member, s \in Session :
    b.identity[n][s].status \in {"pass", "waitlisted"} => s \in scheduled

GoodBooks(b) ==
    /\ b \in BookSet
    /\ \A n \in Member, s \in Session : IdentityFits(b.identity[n][s], s)
    /\ \A n \in Member : HeldRight(b, n)
    /\ Counted(b) /\ Within(b) /\ Placed(b)

CapacityType == DOMAIN capacity = Bucket /\ \A k \in Bucket : capacity[k] \in Nat \cup {None}

-----------------------------------------------------------------------------
(* Reserving, releasing, rewriting. *)

\* Buckets of different kinds differ, and a position has one session.
LEMMA Kinds ==
  /\ \A s \in Session : s \in Bucket /\ s # Activity /\ s # None /\ s \notin Position
  /\ \A p \in Position : p \in Bucket /\ p # Activity /\ p # None /\ p \notin Session
  /\ \A s \in Session : Offered[s] \subseteq Position
  /\ \A s, t \in Session : \A p \in Offered[s] : p \in Offered[t] => s = t
  /\ Activity \in Bucket /\ None \notin Bucket /\ None \notin Position
BY BucketAssumption DEF Bucket, Position

\* A reservation, and what makes two of them one.
LEMMA Reservations ==
  /\ \A k \in Bucket, n \in Member, s \in Session :
        [bucket |-> k, member |-> n, session |-> s] \in Reservation
  /\ \A r \in Reservation :
        /\ r = [bucket |-> r.bucket, member |-> r.member, session |-> r.session]
        /\ r.bucket \in Bucket /\ r.member \in Member /\ r.session \in Session
BY DEF Reservation

\* The revision written is an identity that fits.
LEMMA ReviseFits ==
  ASSUME NEW s \in Session, NEW i, NEW status \in Status, NEW won \in BOOLEAN, i.won \in BOOLEAN,
         NEW p \in Offered[s] \cup {None}, NEW asked \in Offered[s] \cup {None},
         status # "pass" => p = None, status \in {"none", "pending"} => asked = None,
         status = "pass" => asked = p
  PROVE  /\ Revise(i, status, p, asked, won) \in Identity
         /\ IdentityFits(Revise(i, status, p, asked, won), s)
BY Kinds DEF Revise, Identity, IdentityFits, Choice

\* What is missing for somebody without a seat in s.
LEMMA MissingIs ==
  ASSUME NEW b, GoodBooks(b), NEW m \in Member, NEW s \in Session, ~ Passes(b, m, s),
         NEW p \in Offered[s] \cup {None}
  PROVE  /\ Missing(b, m, s, p) \subseteq {s, p, Activity} \cap Bucket
         /\ s \in Missing(b, m, s, p)
         /\ p # None => p \in Missing(b, m, s, p)
         /\ Activity \in Missing(b, m, s, p) <=> \A t \in Session : ~ Passes(b, m, t)
<1>1. b.identity[m][s].position = None
  BY DEF GoodBooks, IdentityFits, Passes
<1>2. ~ Holds(b, m, s, s)
  BY DEF GoodBooks, HeldRight
<1>3. p # None => ~ Holds(b, m, s, p)
  BY <1>1, Kinds DEF GoodBooks, HeldRight
<1>4. Persons(b, m) = {} <=> \A t \in Session : ~ Passes(b, m, t)
  BY DEF GoodBooks, HeldRight
<1> QED
  BY <1>2, <1>3, <1>4, Kinds DEF Missing

\* c has, of m in s, one reservation more than b in each of the wanted buckets.
Adds(b, c, m, s, wanted) ==
    /\ \A k \in wanted : [bucket |-> k, member |-> m, session |-> s] \notin b.active
    /\ \A r : r \in c.active <=> \/ r \in b.active
                               \/ \E k \in wanted : r = [bucket |-> k, member |-> m, session |-> s]
    /\ \A k \in Bucket : c.occupied[k] = b.occupied[k] + (IF k \in wanted THEN 1 ELSE 0)

LEMMA CountMore ==
  ASSUME NEW b, b \in BookSet, Counted(b), NEW m \in Member, NEW s \in Session,
         NEW wanted \in SUBSET Bucket, IsFiniteSet(wanted),
         NEW c, c \in BookSet, Adds(b, c, m, s, wanted)
  PROVE  Counted(c)
<1> DEFINE row(k) == [bucket |-> k, member |-> m, session |-> s]
           rows == {row(k) : k \in wanted}
<1>1. IsFiniteSet(c.active)
  <2>1. [k \in wanted |-> row(k)] \in Surjection(wanted, rows)
    BY DEF Surjection
  <2>2. IsFiniteSet(rows)
    BY <2>1, FS_Surjection
  <2>3. IsFiniteSet(b.active) /\ c.active = b.active \cup rows
    BY DEF Counted, Adds
  <2>4. \A A, B : IsFiniteSet(A) /\ IsFiniteSet(B) => IsFiniteSet(A \cup B)
    BY FS_Union
  <2> HIDE DEF rows
  <2> QED
    BY <2>2, <2>3, <2>4
<1>2. ASSUME NEW k \in Bucket PROVE c.occupied[k] = Cardinality(Of(c, k))
  <2>1. IsFiniteSet(Of(b, k)) /\ b.occupied[k] = Cardinality(Of(b, k))
    BY FS_Subset DEF Counted, Of
  <2>2. CASE k \in wanted
    <3>1. Of(c, k) = Of(b, k) \cup {row(k)}
      BY <2>2 DEF Of, Adds
    <3>2. row(k) \notin Of(b, k)
      BY <2>2 DEF Of, Adds
    <3>3. Cardinality(Of(c, k)) = Cardinality(Of(b, k)) + 1
      BY <2>1, <3>1, <3>2, FS_AddElement
    <3> QED
      BY <2>1, <2>2, <3>3 DEF Adds
  <2>3. CASE k \notin wanted
    <3>1. Of(c, k) = Of(b, k)
      BY <2>3 DEF Of, Adds
    <3>2. b.occupied[k] \in Nat
      BY DEF BookSet
    <3> QED
      BY <2>1, <2>3, <3>1, <3>2 DEF Adds
  <2> QED
    BY <2>2, <2>3
<1> QED
  BY <1>1, <1>2 DEF Counted

\* A rewriting of identities that changes no seat.
Rewrites(b, c) ==
    /\ c \in BookSet /\ c.active = b.active /\ c.occupied = b.occupied
    /\ \A n \in Member, s \in Session :
        /\ IdentityFits(c.identity[n][s], s)
        /\ Passes(c, n, s) <=> Passes(b, n, s)
        /\ c.identity[n][s].position = b.identity[n][s].position
        /\ c.identity[n][s].status = "waitlisted" => s \in scheduled

LEMMA Rewritten ==
  ASSUME NEW b, GoodBooks(b), NEW c, Rewrites(b, c)
  PROVE  GoodBooks(c)
<1> USE DEF Rewrites
<1>1. ASSUME NEW n \in Member PROVE HeldRight(c, n)
  <2>1. HeldRight(b, n) /\ Persons(c, n) = Persons(b, n)
    BY DEF GoodBooks, Persons, Held
  <2>2. \A s \in Session : \A k : Holds(c, n, s, k) <=> Holds(b, n, s, k)
    BY DEF Holds
  <2> QED
    BY <2>1, <2>2 DEF HeldRight
<1>2. Counted(c) /\ Within(c)
  BY DEF GoodBooks, Counted, Within, Of
<1>3. Placed(c)
  BY DEF GoodBooks, Placed, Passes
<1> QED
  BY <1>1, <1>2, <1>3 DEF GoodBooks

\* m, who has no seat in s, can have one at p, which the identity i is to tell.
MaySeat(b, m, s, p, i) ==
    /\ m \in Member /\ s \in scheduled /\ s \in Session /\ ~ Passes(b, m, s)
    /\ p \in Offered[s] \cup {None} /\ Fits(b, Missing(b, m, s, p))
    /\ i \in Identity /\ IdentityFits(i, s) /\ i.status = "pass" /\ i.position = p

Seats(b, m, s, p, i) == [Reserve(b, m, s, p) EXCEPT !.identity[m][s] = i]

LEMMA ReserveKeeps ==
  ASSUME NEW b, GoodBooks(b), CapacityType, NEW m, NEW s, NEW p, NEW i, MaySeat(b, m, s, p, i),
         NEW c, c = Seats(b, m, s, p, i)
  PROVE  /\ GoodBooks(c)
         /\ \A n \in Member, t \in Session :
               c.identity[n][t] = IF n = m /\ t = s THEN i ELSE b.identity[n][t]
         /\ \A k \in Bucket : c.occupied[k] =
               b.occupied[k] + (IF k \in Missing(b, m, s, p) THEN 1 ELSE 0)
<1> USE DEF MaySeat, Seats
<1> DEFINE wanted == Missing(b, m, s, p)
           row(k) == [bucket |-> k, member |-> m, session |-> s]
<1>1. /\ b \in BookSet /\ b.identity \in [Member -> [Session -> Identity]]
      /\ b.active \subseteq Reservation /\ b.occupied \in [Bucket -> Nat]
  BY DEF GoodBooks, BookSet
<1>2. /\ wanted \subseteq {s, p, Activity} \cap Bucket
      /\ s \in wanted /\ (p # None => p \in wanted)
      /\ Activity \in wanted <=> \A t \in Session : ~ Passes(b, m, t)
  BY MissingIs
<1> HIDE DEF wanted
<1>3. /\ c.identity = [b.identity EXCEPT ![m][s] = i]
      /\ c.active = b.active \cup {row(k) : k \in wanted}
      /\ c.occupied = [k \in Bucket |-> b.occupied[k] + (IF k \in wanted THEN 1 ELSE 0)]
  BY <1>1 DEF Reserve, BookSet, wanted
<1>4. c \in BookSet
  <2>1. c.active \in SUBSET Reservation
    BY <1>1, <1>2, <1>3, Reservations
  <2>2. c.occupied \in [Bucket -> Nat]
    BY <1>1, <1>3
  <2>3. c.identity \in [Member -> [Session -> Identity]]
    <3>1. [b.identity[m] EXCEPT ![s] = i] \in [Session -> Identity]
      BY <1>1
    <3>2. c.identity = [b.identity EXCEPT ![m] = [b.identity[m] EXCEPT ![s] = i]]
      BY <1>3
    <3> DEFINE f == b.identity
               g == [b.identity[m] EXCEPT ![s] = i]
    <3>3. f \in [Member -> [Session -> Identity]] /\ g \in [Session -> Identity]
      BY <1>1, <3>1
    <3>4. c.identity = [f EXCEPT ![m] = g]
      BY <3>2
    <3> HIDE DEF f, g
    <3> QED
      BY <3>3, <3>4
  <2>4. c = [identity |-> c.identity, active |-> c.active, occupied |-> c.occupied]
    BY <1>1 DEF Reserve, BookSet
  <2> QED
    BY <2>1, <2>2, <2>3, <2>4 DEF BookSet
<1>5. \A k \in wanted : row(k) \notin b.active
  <2>1. Activity \in wanted => row(Activity) \notin b.active
    BY <1>2 DEF GoodBooks, HeldRight, Persons, Held
  <2>2. row(s) \notin b.active
    BY DEF GoodBooks, HeldRight, Holds
  <2>3. p # None => row(p) \notin b.active
    <3>1. b.identity[m][s].position = None
      BY DEF GoodBooks, IdentityFits, Passes
    <3> QED
      BY <3>1, Kinds DEF GoodBooks, HeldRight, Holds
  <2> QED
    BY <1>2, <2>1, <2>2, <2>3, Kinds
<1>6. Counted(c)
  <2>1. IsFiniteSet(wanted)
    <3>1. IsFiniteSet({s, p, Activity})
      <4>1. {s, p, Activity} = ({s} \cup {p}) \cup {Activity}
        OBVIOUS
      <4>2. IsFiniteSet({s} \cup {p})
        BY FS_AddElement, FS_Singleton
      <4>3. IsFiniteSet(({s} \cup {p}) \cup {Activity})
        BY <4>2, FS_AddElement
      <4> QED
        BY <4>1, <4>3
    <3> QED
      BY <3>1, <1>2, FS_Subset
  <2>2. Counted(b) /\ wanted \in SUBSET Bucket
    BY <1>2 DEF GoodBooks
  <2>3. \A r : r \in c.active <=> r \in b.active \/ \E k \in wanted : r = row(k)
    BY <1>3
  <2>4. \A k \in Bucket : c.occupied[k] = b.occupied[k] + (IF k \in wanted THEN 1 ELSE 0)
    BY <1>3
  <2>5. Adds(b, c, m, s, wanted)
    BY <1>5, <2>3, <2>4 DEF Adds
  <2> QED
    BY <1>1, <1>4, <2>1, <2>2, <2>5, CountMore
<1>7. Within(c)
  <2>1. \A k \in wanted : capacity[k] = None \/ b.occupied[k] + 1 <= capacity[k]
    BY DEF Fits, wanted
  <2>2. Within(b)
    BY DEF GoodBooks
  <2> QED
    BY <1>1, <1>2, <1>3, <2>1, <2>2 DEF Within, CapacityType
<1>8. \A n \in Member, t \in Session :
        c.identity[n][t] = IF n = m /\ t = s THEN i ELSE b.identity[n][t]
  BY <1>1, <1>3
<1>9. Placed(c) /\ \A n \in Member, t \in Session : IdentityFits(c.identity[n][t], t)
  BY <1>8 DEF GoodBooks, Placed
<1>10. ASSUME NEW n \in Member PROVE HeldRight(c, n)
  <2>1. HeldRight(b, n)
    BY DEF GoodBooks
  <2>2. \A r : r \in c.active <=> r \in b.active \/ \E k \in wanted : r = row(k)
    BY <1>3
  <2>3. CASE n # m
    <3>1. \A t \in Session : Passes(c, n, t) <=> Passes(b, n, t)
      BY <1>8, <2>3 DEF Passes
    <3>2. \A k : \A t \in Session : Holds(c, n, t, k) <=> Holds(b, n, t, k)
      BY <2>2, <2>3 DEF Holds
    <3>3. Held(c, n) = Held(b, n)
      BY <2>2, <2>3 DEF Held
    <3>4. \A t \in Session : c.identity[n][t] = b.identity[n][t]
      BY <1>8, <2>3
    <3>5. \A r \in c.active : r.member = n /\ r.bucket \in Session => r.bucket = r.session
      BY <2>1, <2>2, <2>3 DEF HeldRight
    <3>6. Persons(c, n) = Persons(b, n)
      BY <3>3 DEF Persons
    <3>7. \A t \in Session :
             /\ Holds(c, n, t, t) <=> Passes(c, n, t)
             /\ \A q \in Position : Holds(c, n, t, q) <=> c.identity[n][t].position = q
      BY <2>1, <3>1, <3>2, <3>4 DEF HeldRight
    <3>8. /\ (\E t \in Session : Passes(c, n, t)) => \E r : Persons(c, n) = {r}
          /\ (\A t \in Session : ~ Passes(c, n, t)) => Persons(c, n) = {}
      BY <2>1, <3>1, <3>6 DEF HeldRight
    <3> QED
      BY <3>5, <3>7, <3>8 DEF HeldRight
  <2>4. CASE n = m
    <3>1. Passes(c, m, s) /\ \A t \in Session \ {s} : Passes(c, m, t) <=> Passes(b, m, t)
      BY <1>8 DEF Passes
    <3>2. \A t \in Session, k \in Bucket :
             Holds(c, m, t, k) <=> Holds(b, m, t, k) \/ (t = s /\ k \in wanted)
      BY <2>2 DEF Holds
    <3>3. ASSUME NEW t \in Session PROVE Holds(c, m, t, t) <=> Passes(c, m, t)
      BY <1>2, <2>1, <2>4, <3>1, <3>2, Kinds DEF HeldRight
    <3>4. ASSUME NEW t \in Session, NEW q \in Position
          PROVE  Holds(c, m, t, q) <=> c.identity[m][t].position = q
      <4>1. CASE t # s
        BY <1>8, <2>1, <2>4, <3>2, <4>1, Kinds DEF HeldRight
      <4>2. CASE t = s
        <5>1. b.identity[m][s].position = None
          BY DEF GoodBooks, IdentityFits, Passes
        <5>2. ~ Holds(b, m, s, q)
          BY <5>1, <2>1, <2>4, Kinds DEF HeldRight
        <5>3. q \in wanted <=> p = q
          BY <1>2, Kinds
        <5> QED
          BY <1>8, <3>2, <4>2, <5>2, <5>3, Kinds
      <4> QED
        BY <4>1, <4>2
    <3>5. \A r \in c.active : r.member = m /\ r.bucket \in Session => r.bucket = r.session
      BY <1>2, <2>1, <2>2, <2>4, Kinds DEF HeldRight
    <3>6. \E r : Persons(c, m) = {r}
      <4>1. CASE Activity \in wanted
        <5>1. Persons(b, m) = {}
          BY <1>2, <2>1, <2>4, <4>1 DEF HeldRight
        <5>2. \A r \in Persons(c, m) : r = row(Activity)
          BY <2>2, <5>1 DEF Persons, Held
        <5>3. row(Activity) \in Persons(c, m)
          BY <2>2, <4>1 DEF Persons, Held
        <5> QED
          BY <5>2, <5>3
      <4>2. CASE Activity \notin wanted
        <5>1. Persons(c, m) = Persons(b, m)
          BY <2>2, <4>2 DEF Persons, Held
        <5> QED
          BY <1>2, <2>1, <2>4, <4>2, <5>1 DEF HeldRight
      <4> QED
        BY <4>1, <4>2
    <3>7. HeldRight(c, m)
      <4> HIDE DEF row
      <4> QED
        BY <3>1, <3>3, <3>4, <3>5, <3>6 DEF HeldRight
    <3> QED
      BY <2>4, <3>7
  <2> QED
    BY <2>3, <2>4
<1> QED
  BY <1>3, <1>4, <1>6, <1>7, <1>8, <1>9, <1>10 DEF GoodBooks, wanted

\* The seats of m in the sessions going are given back; next are m's identities.
Gives(b, m, going, next) ==
    \A s \in Session :
        /\ IdentityFits(next[s], s)
        /\ next[s].status = "waitlisted" => s \in scheduled
        /\ s \in going => next[s].status # "pass"
        /\ s \notin going => /\ next[s].status = "pass" <=> Passes(b, m, s)
                             /\ next[s].position = b.identity[m][s].position

\* What a release takes away.
LEMMA ReleasedIs ==
  ASSUME NEW b, GoodBooks(b), NEW m \in Member, NEW going \in SUBSET Session
  PROVE  /\ Released(b, m, going) \subseteq Held(b, m)
         /\ \A r \in Held(b, m) : r.bucket # Activity =>
               (r \in Released(b, m, going) <=> r.session \in going)
         /\ (\E s \in Session \ going : Passes(b, m, s)) =>
               \A r \in Persons(b, m) : r \notin Released(b, m, going)
         /\ (\A s \in Session \ going : ~ Passes(b, m, s)) =>
               Persons(b, m) \subseteq Released(b, m, going)
<1> DEFINE gone == {r \in Held(b, m) : r.bucket # Activity /\ r.session \in going}
           rest == {r \in SeatsOf(b, m) : r.session \notin going}
<1>1. Released(b, m, going) = IF gone # {} /\ rest = {} THEN gone \cup Persons(b, m) ELSE gone
  BY DEF Released
<1>2. HeldRight(b, m) /\ b.active \subseteq Reservation
  BY DEF GoodBooks, BookSet
<1>3. rest = {} <=> \A s \in Session \ going : ~ Passes(b, m, s)
  <2>1. ASSUME NEW s \in Session \ going, Passes(b, m, s) PROVE rest # {}
    <3>1. Holds(b, m, s, s)
      BY <1>2, <2>1 DEF HeldRight
    <3>2. [bucket |-> s, member |-> m, session |-> s] \in rest
      BY <3>1 DEF Holds, SeatsOf, Held
    <3> QED
      BY <3>2
  <2>2. ASSUME NEW r \in rest PROVE \E s \in Session \ going : Passes(b, m, s)
    <3>1. r \in b.active /\ r.member = m /\ r.bucket \in Session /\ r.session \notin going
      BY DEF SeatsOf, Held
    <3>2. r.bucket = r.session /\ r \in Reservation
      BY <1>2, <3>1 DEF HeldRight
    <3>3. r = [bucket |-> r.session, member |-> m, session |-> r.session] /\ r.session \in Session
      BY <3>1, <3>2, Reservations
    <3>4. Holds(b, m, r.session, r.session)
      BY <3>1, <3>3 DEF Holds
    <3> QED
      BY <1>2, <3>1, <3>3, <3>4 DEF HeldRight
  <2> QED
    BY <2>1, <2>2
<1>4. gone = {} /\ rest = {} => Persons(b, m) = {}
  <2> SUFFICES ASSUME gone = {}, rest = {} PROVE Persons(b, m) = {}
    OBVIOUS
  <2>1. ASSUME NEW s \in Session PROVE ~ Passes(b, m, s)
    <3>1. CASE s \in going
      <4>1. Holds(b, m, s, s) => [bucket |-> s, member |-> m, session |-> s] \in gone
        BY <3>1, Kinds DEF Holds, Held
      <4> QED
        BY <1>2, <4>1 DEF HeldRight
    <3>2. CASE s \notin going
      BY <1>3, <3>2
    <3> QED
      BY <3>1, <3>2
  <2> QED
    BY <1>2, <2>1 DEF HeldRight
<1>5. Persons(b, m) \subseteq Held(b, m) /\ \A r \in Persons(b, m) : r.bucket = Activity
  BY DEF Persons
<1>6. Released(b, m, going) \subseteq Held(b, m)
  BY <1>1, <1>5
<1>7. ASSUME NEW r \in Held(b, m), r.bucket # Activity
      PROVE  r \in Released(b, m, going) <=> r.session \in going
  BY <1>1, <1>5, <1>7
<1>8. rest # {} => \A r \in Persons(b, m) : r \notin Released(b, m, going)
  BY <1>1, <1>5
<1>9. rest = {} => Persons(b, m) \subseteq Released(b, m, going)
  BY <1>1, <1>4
<1> HIDE DEF gone, rest
<1> QED
  BY <1>3, <1>6, <1>7, <1>8, <1>9

\* Fewer reservations, and counters lowered by as many.
Drops(b, c, gone) ==
    /\ gone \subseteq b.active /\ c.active = b.active \ gone
    /\ \A k \in Bucket : c.occupied[k] = b.occupied[k] - Cardinality({r \in gone : r.bucket = k})

LEMMA CountLess ==
  ASSUME NEW b, b \in BookSet, Counted(b), NEW c, NEW gone, Drops(b, c, gone)
  PROVE  /\ Counted(c)
         /\ \A k \in Bucket : c.occupied[k] \in Nat /\ c.occupied[k] <= b.occupied[k]
         /\ \A r \in gone : r.bucket \in Bucket => c.occupied[r.bucket] + 1 <= b.occupied[r.bucket]
<1>1. IsFiniteSet(b.active) /\ IsFiniteSet(c.active)
  BY FS_Subset DEF Counted, Drops
<1>2. ASSUME NEW k \in Bucket
      PROVE  /\ c.occupied[k] = Cardinality(Of(c, k))
             /\ c.occupied[k] \in Nat /\ c.occupied[k] <= b.occupied[k]
             /\ (\E r \in gone : r.bucket = k) => c.occupied[k] + 1 <= b.occupied[k]
  <2> DEFINE of == Of(b, k)
             lost == {r \in gone : r.bucket = k}
  <2>1. IsFiniteSet(of) /\ b.occupied[k] = Cardinality(of) /\ b.occupied[k] \in Nat
    BY <1>1, FS_Subset DEF Counted, Of, BookSet
  <2>2. Of(c, k) = of \ lost /\ lost \subseteq of
    BY DEF Of, Drops
  <2> HIDE DEF of
  <2>3. /\ IsFiniteSet(lost) /\ Cardinality(lost) \in Nat /\ Cardinality(lost) <= Cardinality(of)
        /\ Cardinality(lost) = 0 <=> lost = {}
    <3>1. IsFiniteSet(lost) /\ Cardinality(lost) <= Cardinality(of)
      BY <2>1, <2>2, FS_Subset
    <3> QED
      BY <3>1, FS_CardinalityType, FS_EmptySet
  <2>4. Cardinality(of \ lost) = Cardinality(of) - Cardinality(lost)
    <3> HIDE DEF lost
    <3>1. of \cap lost = lost
      BY <2>2
    <3>2. Cardinality(of \ lost) = Cardinality(of) - Cardinality(of \cap lost)
      BY <2>1, FS_Difference
    <3> QED
      BY <3>1, <3>2
  <2>5. c.occupied[k] = b.occupied[k] - Cardinality(lost)
    BY DEF Drops
  <2>6. (\E r \in gone : r.bucket = k) => lost # {}
    OBVIOUS
  <2> HIDE DEF lost
  <2> QED
    BY <2>1, <2>2, <2>3, <2>4, <2>5, <2>6
<1> QED
  BY <1>1, <1>2 DEF Counted

MayGive(b, m, going, next) ==
    /\ m \in Member /\ going \in SUBSET Session
    /\ next \in [Session -> Identity] /\ Gives(b, m, going, next)

GivenBack(b, m, going, next) == [Release(b, m, going) EXCEPT !.identity[m] = next]

\* Giving seats back.
LEMMA ReleaseKeeps ==
  ASSUME NEW b, GoodBooks(b), CapacityType, NEW m, NEW going, NEW next,
         MayGive(b, m, going, next), NEW c, c = GivenBack(b, m, going, next)
  PROVE  /\ GoodBooks(c)
         /\ \A n \in Member : c.identity[n] = IF n = m THEN next ELSE b.identity[n]
         /\ \A k \in Bucket : c.occupied[k] <= b.occupied[k]
         /\ \A s \in going : Passes(b, m, s) =>
               /\ c.occupied[s] + 1 <= b.occupied[s]
               /\ b.identity[m][s].position # None =>
                     c.occupied[b.identity[m][s].position] + 1 <= b.occupied[b.identity[m][s].position]
<1> USE DEF MayGive
<1> DEFINE gone == Released(b, m, going)
<1>1. /\ b \in BookSet /\ b.identity \in [Member -> [Session -> Identity]]
      /\ b.active \subseteq Reservation /\ b.occupied \in [Bucket -> Nat] /\ Counted(b)
      /\ HeldRight(b, m)
  BY DEF GoodBooks, BookSet
<1>2. /\ c.identity = [b.identity EXCEPT ![m] = next]
      /\ c.active = b.active \ gone
      /\ c.occupied = [k \in Bucket |-> b.occupied[k] - Cardinality({r \in gone : r.bucket = k})]
      /\ c = [identity |-> c.identity, active |-> c.active, occupied |-> c.occupied]
  BY <1>1 DEF GivenBack, Release, BookSet
<1>3. /\ gone \subseteq b.active
      /\ \A r \in gone : r.member = m
      /\ \A r \in Held(b, m) : r.bucket # Activity => (r \in gone <=> r.session \in going)
      /\ (\E s \in Session \ going : Passes(b, m, s)) => \A r \in Persons(b, m) : r \notin gone
      /\ (\A s \in Session \ going : ~ Passes(b, m, s)) => Persons(b, m) \subseteq gone
  BY ReleasedIs DEF Held
<1> HIDE DEF gone
<1>4. /\ Counted(c)
      /\ \A k \in Bucket : c.occupied[k] \in Nat /\ c.occupied[k] <= b.occupied[k]
      /\ \A r \in gone : r.bucket \in Bucket => c.occupied[r.bucket] + 1 <= b.occupied[r.bucket]
  <2>1. \A k \in Bucket : c.occupied[k] = b.occupied[k] - Cardinality({r \in gone : r.bucket = k})
    BY <1>2
  <2>2. Drops(b, c, gone)
    BY <1>2, <1>3, <2>1 DEF Drops
  <2> QED
    BY <1>1, <2>2, CountLess
<1>5. c \in BookSet
  <2>1. c.identity \in [Member -> [Session -> Identity]]
    BY <1>1, <1>2
  <2>2. c.active \in SUBSET Reservation
    BY <1>1, <1>2
  <2>3. c.occupied \in [Bucket -> Nat]
    BY <1>2, <1>4
  <2> QED
    BY <1>2, <2>1, <2>2, <2>3 DEF BookSet
<1>6. Within(c)
  <2>1. \A k \in Bucket : b.occupied[k] \in Nat
    BY <1>1
  <2> QED
    BY <1>4, <2>1 DEF GoodBooks, Within, CapacityType
<1>7. \A n \in Member : c.identity[n] = IF n = m THEN next ELSE b.identity[n]
  BY <1>1, <1>2
<1>8. \A n \in Member, s \in Session : IdentityFits(c.identity[n][s], s)
  BY <1>7 DEF GoodBooks, Gives
<1>9. Placed(c)
  BY <1>7 DEF GoodBooks, Placed, Gives, Passes
<1>10. ASSUME NEW n \in Member PROVE HeldRight(c, n)
  <2>1. CASE n # m
    <3>1. HeldRight(b, n)
      BY DEF GoodBooks
    <3>2. \A s \in Session : Passes(c, n, s) <=> Passes(b, n, s)
      BY <1>7, <2>1 DEF Passes
    <3>3. \A r : r.member = n => (r \in c.active <=> r \in b.active)
      BY <1>2, <1>3, <2>1
    <3>4. \A s \in Session : \A k : Holds(c, n, s, k) <=> Holds(b, n, s, k)
      BY <3>3 DEF Holds
    <3>5. Persons(c, n) = Persons(b, n)
      BY <3>3 DEF Persons, Held
    <3>6. \A s \in Session :
             /\ Holds(c, n, s, s) <=> Passes(c, n, s)
             /\ \A q \in Position : Holds(c, n, s, q) <=> c.identity[n][s].position = q
      BY <1>7, <2>1, <3>1, <3>2, <3>4 DEF HeldRight
    <3>7. \A r \in c.active : r.member = n /\ r.bucket \in Session => r.bucket = r.session
      BY <3>1, <3>3 DEF HeldRight
    <3>8. /\ (\E t \in Session : Passes(c, n, t)) => \E r : Persons(c, n) = {r}
          /\ (\A t \in Session : ~ Passes(c, n, t)) => Persons(c, n) = {}
      BY <3>1, <3>2, <3>5 DEF HeldRight
    <3> QED
      BY <3>6, <3>7, <3>8 DEF HeldRight
  <2>2. CASE n = m
    <3>1. \A s \in Session : Passes(c, m, s) <=> (s \notin going /\ Passes(b, m, s))
      BY <1>7 DEF Passes, Gives
    <3>2. \A s \in Session, k \in Bucket \ {Activity} :
             Holds(c, m, s, k) <=> (s \notin going /\ Holds(b, m, s, k))
      BY <1>2, <1>3 DEF Holds, Held
    <3>3. ASSUME NEW s \in Session, NEW q \in Position
          PROVE  Holds(c, m, s, q) <=> c.identity[m][s].position = q
      <4>1. CASE s \in going
        <5>1. c.identity[m][s].position = None
          BY <1>7, <4>1 DEF Gives, IdentityFits
        <5> QED
          BY <3>2, <4>1, <5>1, Kinds
      <4>2. CASE s \notin going
        <5>1. c.identity[m][s].position = b.identity[m][s].position
          BY <1>7, <4>2 DEF Gives
        <5> QED
          BY <1>1, <3>2, <4>2, <5>1, Kinds DEF HeldRight
      <4> QED
        BY <4>1, <4>2
    <3>4. \A s \in Session : Holds(c, m, s, s) <=> Passes(c, m, s)
      BY <1>1, <3>1, <3>2, Kinds DEF HeldRight
    <3>5. \A r \in c.active : r.member = m /\ r.bucket \in Session => r.bucket = r.session
      BY <1>1, <1>2 DEF HeldRight
    <3>6. Persons(c, m) = Persons(b, m) \ gone
      BY <1>2 DEF Persons, Held
    <3>7. (\E s \in Session : Passes(c, m, s)) => \E r : Persons(c, m) = {r}
      <4> SUFFICES ASSUME \E s \in Session : Passes(c, m, s) PROVE \E r : Persons(c, m) = {r}
        OBVIOUS
      <4>1. Persons(c, m) = Persons(b, m)
        BY <1>3, <3>1, <3>6
      <4> QED
        BY <1>1, <3>1, <4>1 DEF HeldRight
    <3>8. (\A s \in Session : ~ Passes(c, m, s)) => Persons(c, m) = {}
      BY <1>3, <3>1, <3>6
    <3>9. HeldRight(c, m)
      BY <3>3, <3>4, <3>5, <3>7, <3>8 DEF HeldRight
    <3> QED
      BY <2>2, <3>9
  <2> QED
    BY <2>1, <2>2
<1>11. ASSUME NEW s \in going, Passes(b, m, s)
       PROVE  /\ c.occupied[s] + 1 <= b.occupied[s]
              /\ b.identity[m][s].position # None =>
                    c.occupied[b.identity[m][s].position] + 1 <= b.occupied[b.identity[m][s].position]
  <2> DEFINE p == b.identity[m][s].position
             row(k) == [bucket |-> k, member |-> m, session |-> s]
  <2>1. Holds(b, m, s, s) /\ (p # None => p \in Position /\ Holds(b, m, s, p))
    BY <1>1, <1>11, Kinds DEF HeldRight, GoodBooks, IdentityFits
  <2>2. row(s) \in gone /\ (p # None => row(p) \in gone)
    BY <1>3, <2>1, Kinds DEF Holds, Held
  <2> QED
    BY <1>4, <2>1, <2>2, Kinds
<1> QED
  BY <1>4, <1>5, <1>6, <1>7, <1>8, <1>9, <1>10, <1>11 DEF GoodBooks

-----------------------------------------------------------------------------
(* One session of a submission, one session of a promotion. *)

\* What a submission may name in a session, as Seat reads it.
LEMMA TriesAre ==
  ASSUME NEW s \in Session, NEW list \in Lists[s],
         NEW tries, tries = IF list = <<>> THEN <<None>> ELSE list
  PROVE  /\ Len(tries) \in Nat /\ 1 \in 1 .. Len(tries)
         /\ \A k \in 1 .. Len(tries) : tries[k] \in Offered[s] \cup {None}
<1>1. list \in Seq(Offered[s])
  BY ListAssumption
<1>2. CASE list = <<>>
  BY <1>2
<1>3. CASE list # <<>>
  BY <1>1, <1>3
<1> QED
  BY <1>2, <1>3

\* A seat in s at p is out of reach: something it needs is full.
FullAt(b, k) == capacity[k] # None /\ b.occupied[k] = capacity[k]
Awaits(b, s, p) == \E k \in {Activity, s, p} \cap Bucket : FullAt(b, k)

LEMMA FullStays ==
  ASSUME CapacityType, NEW b, GoodBooks(b), NEW c, GoodBooks(c), NEW k \in Bucket,
         b.occupied[k] <= c.occupied[k], FullAt(b, k)
  PROVE  FullAt(c, k)
<1>1. /\ b.occupied[k] \in Nat /\ c.occupied[k] \in Nat
      /\ capacity[k] \in Nat /\ c.occupied[k] <= capacity[k]
  BY DEF GoodBooks, BookSet, Within, CapacityType, FullAt
<1> QED
  BY <1>1 DEF FullAt

LEMMA StillAwaits ==
  ASSUME CapacityType, NEW b, GoodBooks(b), NEW c, GoodBooks(c), NEW s, NEW p,
         \A k \in Bucket : b.occupied[k] <= c.occupied[k], Awaits(b, s, p)
  PROVE  Awaits(c, s, p)
BY FullStays DEF Awaits

\* What does not fit is out of reach.
LEMMA NoFit ==
  ASSUME CapacityType, NEW b, GoodBooks(b), NEW m \in Member, NEW s \in Session,
         ~ Passes(b, m, s), NEW p \in Offered[s] \cup {None}, ~ Fits(b, Missing(b, m, s, p))
  PROVE  Awaits(b, s, p)
<1>1. Missing(b, m, s, p) \subseteq {s, p, Activity} \cap Bucket
  BY MissingIs
<1>2. PICK k \in Missing(b, m, s, p) : ~ (capacity[k] = None \/ b.occupied[k] + 1 <= capacity[k])
  BY DEF Fits
<1>3. /\ k \in Bucket /\ b.occupied[k] \in Nat /\ capacity[k] \in Nat \cup {None}
      /\ capacity[k] = None \/ b.occupied[k] <= capacity[k]
  BY <1>1, <1>2 DEF GoodBooks, BookSet, Within, CapacityType
<1>4. FullAt(b, k)
  BY <1>2, <1>3 DEF FullAt
<1> QED
  BY <1>1, <1>4 DEF Awaits

\* Seat gives m a seat in s, or a place in a line, and nothing else.
LEMMA SeatKeeps ==
  ASSUME NEW b, GoodBooks(b), CapacityType,
         NEW m \in Member, NEW s \in scheduled, s \in Session, ~ Passes(b, m, s),
         NEW list \in Lists[s], NEW c, c = Seat(b, m, s, list)
  PROVE  /\ GoodBooks(c)
         /\ \A n \in Member, t \in Session :
               n # m \/ t # s => c.identity[n][t] = b.identity[n][t]
         /\ c.identity[m][s].status \in {"pass", "waitlisted"}
         /\ c.identity[m][s].status = "pass" => c.identity[m][s].won
         /\ c.identity[m][s].status = "waitlisted" => Awaits(c, s, c.identity[m][s].asked)
         /\ \A k \in Bucket : b.occupied[k] <= c.occupied[k]
<1> DEFINE tries == IF list = <<>> THEN <<None>> ELSE list
           free == {k \in 1 .. Len(tries) : Fits(b, Missing(b, m, s, tries[k]))}
           i == b.identity[m][s]
           kk == CHOOSE k \in free : \A j \in free : k <= j
           p == tries[kk]
           waits == Revise(i, "waitlisted", None, tries[1], FALSE)
           seated == Revise(i, "pass", p, p, TRUE)
<1>1. c = IF free = {} THEN [b EXCEPT !.identity[m][s] = waits]
          ELSE [Reserve(b, m, s, p) EXCEPT !.identity[m][s] = seated]
  BY DEF Seat
<1>2. /\ Len(tries) \in Nat /\ 1 \in 1 .. Len(tries)
      /\ \A k \in 1 .. Len(tries) : tries[k] \in Offered[s] \cup {None}
  BY TriesAre
<1>3. /\ b \in BookSet /\ b.identity \in [Member -> [Session -> Identity]]
      /\ i \in Identity /\ i.won \in BOOLEAN /\ b.identity[m] \in [Session -> Identity]
  BY DEF GoodBooks, BookSet, Identity
<1>4. free # {} => kk \in free
  <2>1. free \in SUBSET Nat
    BY <1>2
  <2> HIDE DEF free
  <2>2. free # {} => \E k \in free : \A j \in free : k <= j
    BY <2>1, Smallest
  <2> QED
    BY <2>2
<1>5. free # {} => Fits(b, Missing(b, m, s, p)) /\ p \in Offered[s] \cup {None}
  BY <1>2, <1>4
<1>6. tries[1] \in Offered[s] \cup {None} /\ (free = {} => ~ Fits(b, Missing(b, m, s, tries[1])))
  BY <1>2
<1> HIDE DEF free, kk, p, tries
<1>7. CASE free = {}
  <2>1. waits \in Identity /\ IdentityFits(waits, s)
    <3>1. "waitlisted" \in Status /\ None \in Offered[s] \cup {None} /\ FALSE \in BOOLEAN
      BY DEF Status
    <3> QED
      BY <1>3, <1>6, <3>1, ReviseFits
  <2>2. waits.status = "waitlisted" /\ waits.position = None /\ waits.asked = tries[1]
    BY DEF Revise
  <2> HIDE DEF waits
  <2>3. /\ c.identity = [b.identity EXCEPT ![m] = [b.identity[m] EXCEPT ![s] = waits]]
        /\ c.active = b.active /\ c.occupied = b.occupied
        /\ c = [identity |-> c.identity, active |-> c.active, occupied |-> c.occupied]
    BY <1>1, <1>3, <1>7 DEF BookSet
  <2>4. [b.identity[m] EXCEPT ![s] = waits] \in [Session -> Identity]
    BY <1>3, <2>1
  <2>5. c \in BookSet
    <3>1. c.identity \in [Member -> [Session -> Identity]]
      <4> DEFINE f == b.identity
                 g == [b.identity[m] EXCEPT ![s] = waits]
      <4>1. f \in [Member -> [Session -> Identity]] /\ g \in [Session -> Identity]
        BY <1>3, <2>4
      <4>2. c.identity = [f EXCEPT ![m] = g]
        BY <2>3
      <4> HIDE DEF f, g
      <4> QED
        BY <4>1, <4>2
    <3> QED
      BY <1>3, <2>3, <3>1 DEF BookSet
  <2>6. \A n \in Member, t \in Session :
           c.identity[n][t] = IF n = m /\ t = s THEN waits ELSE b.identity[n][t]
    BY <1>3, <2>3
  <2>7. i.position = None
    BY DEF GoodBooks, IdentityFits, Passes
  <2>8. \A n \in Member, t \in Session :
            /\ IdentityFits(c.identity[n][t], t)
            /\ Passes(c, n, t) <=> Passes(b, n, t)
            /\ c.identity[n][t].position = b.identity[n][t].position
            /\ c.identity[n][t].status = "waitlisted" => t \in scheduled
    BY <2>1, <2>2, <2>6, <2>7 DEF GoodBooks, Passes, Placed
  <2>9. Rewrites(b, c)
    BY <2>3, <2>5, <2>8 DEF Rewrites
  <2>10. GoodBooks(c)
    BY <2>9, Rewritten
  <2>11. \A k \in Bucket : b.occupied[k] <= c.occupied[k]
    BY <1>3, <2>3 DEF BookSet
  <2>12. Awaits(c, s, tries[1])
    <3>1. Awaits(b, s, tries[1])
      BY <1>6, <1>7, NoFit
    <3> QED
      BY <2>10, <2>11, <3>1, StillAwaits
  <2> QED
    BY <2>2, <2>6, <2>10, <2>11, <2>12
<1>8. CASE free # {}
  <2>1. seated \in Identity /\ IdentityFits(seated, s)
    <3>1. "pass" \in Status /\ TRUE \in BOOLEAN
      BY DEF Status
    <3> QED
      BY <1>3, <1>5, <1>8, <3>1, ReviseFits
  <2>2. seated.status = "pass" /\ seated.position = p /\ seated.won
    BY DEF Revise
  <2> HIDE DEF seated
  <2>3. /\ GoodBooks(c)
        /\ \A n \in Member, t \in Session :
              c.identity[n][t] = IF n = m /\ t = s THEN seated ELSE b.identity[n][t]
        /\ \A k \in Bucket : c.occupied[k] =
              b.occupied[k] + (IF k \in Missing(b, m, s, p) THEN 1 ELSE 0)
    <3>1. MaySeat(b, m, s, p, seated)
      BY <1>5, <1>8, <2>1, <2>2 DEF MaySeat
    <3>2. c = Seats(b, m, s, p, seated)
      BY <1>1, <1>8 DEF Seats
    <3> QED
      BY <3>1, <3>2, ReserveKeeps
  <2>4. \A k \in Bucket : b.occupied[k] <= c.occupied[k]
    BY <1>3, <2>3 DEF BookSet
  <2> QED
    BY <2>2, <2>3, <2>4
<1> QED
  BY <1>7, <1>8

\* c is b with n promoted to a seat in s at p.
SeatsNext(b, c, n, s, p) ==
    /\ \A o \in Member, t \in Session : c.identity[o][t] =
        IF o = n /\ t = s THEN Revise(b.identity[n][s], "pass", p, p, FALSE) ELSE b.identity[o][t]
    /\ \A k \in Bucket : c.occupied[k] =
        b.occupied[k] + (IF k \in Missing(b, n, s, p) THEN 1 ELSE 0)

\* Nobody at the head of the queue can take the seat.
Blocked(b, s, p) == \A n \in NextInLine(b, s, p) \cap live : ~ Fits(b, Missing(b, n, s, p))

\* Promote gives the head of a queue a seat, or does nothing because nobody at
\* the head can take it.
LEMMA PromoteKeeps ==
  ASSUME NEW b, GoodBooks(b), CapacityType, NEW s \in Session, NEW p \in Offered[s] \cup {None},
         NEW c, c = Promote(b, s, p)
  PROVE  /\ GoodBooks(c)
         /\ \/ c = b /\ Blocked(b, s, p)
            \/ \E n \in NextInLine(b, s, p) \cap live : SeatsNext(b, c, n, s, p)
<1> DEFINE next == {n \in NextInLine(b, s, p) \cap live : Fits(b, Missing(b, n, s, p))}
           n == CHOOSE n \in next : TRUE
           seated == Revise(Reserve(b, n, s, p).identity[n][s], "pass", p, p, FALSE)
<1>1. c = IF next = {} THEN b ELSE [Reserve(b, n, s, p) EXCEPT !.identity[n][s] = seated]
  BY DEF Promote
<1>2. CASE next = {}
  BY <1>1, <1>2 DEF Blocked
<1>3. CASE next # {}
  <2>1. n \in NextInLine(b, s, p) \cap live /\ Fits(b, Missing(b, n, s, p))
    BY <1>3
  <2> HIDE DEF n
  <2>2. n \in Member /\ b.identity[n][s].status = "waitlisted"
    BY <2>1 DEF NextInLine, Queue
  <2>3. ~ Passes(b, n, s) /\ s \in scheduled
    BY <2>2 DEF Passes, GoodBooks, Placed
  <2>4. /\ b.identity \in [Member -> [Session -> Identity]]
        /\ b.identity[n][s].won \in BOOLEAN
    BY <2>2 DEF GoodBooks, BookSet, Identity
  <2>10. seated = Revise(b.identity[n][s], "pass", p, p, FALSE)
    <3>1. Reserve(b, n, s, p).identity = b.identity
      BY DEF Reserve, GoodBooks, BookSet
    <3> QED
      BY <3>1
  <2>5. seated \in Identity /\ IdentityFits(seated, s)
    <3>1. "pass" \in Status /\ FALSE \in BOOLEAN
      BY DEF Status
    <3> QED
      BY <2>4, <2>10, <3>1, ReviseFits
  <2>6. seated.status = "pass" /\ seated.position = p
    BY DEF Revise
  <2>7. c = [Reserve(b, n, s, p) EXCEPT !.identity[n][s] = seated]
    BY <1>1, <1>3
  <2> HIDE DEF next, seated
  <2>8. /\ GoodBooks(c)
        /\ \A o \in Member, t \in Session :
              c.identity[o][t] = IF o = n /\ t = s THEN seated ELSE b.identity[o][t]
        /\ \A k \in Bucket : c.occupied[k] =
              b.occupied[k] + (IF k \in Missing(b, n, s, p) THEN 1 ELSE 0)
    <3>1. MaySeat(b, n, s, p, seated)
      BY <2>1, <2>2, <2>3, <2>5, <2>6 DEF MaySeat
    <3>2. c = Seats(b, n, s, p, seated)
      BY <2>7 DEF Seats
    <3> QED
      BY <3>1, <3>2, ReserveKeeps
  <2>11. SeatsNext(b, c, n, s, p)
    BY <2>8, <2>10 DEF SeatsNext
  <2> QED
    BY <2>1, <2>8, <2>11
<1> QED
  BY <1>2, <1>3

-----------------------------------------------------------------------------
(* The folds over the sessions. *)

\* The order of the sessions: each is at one place.
LEMMA Places ==
  /\ Len(SessionOrder) \in Nat /\ DOMAIN SessionOrder = 1 .. Len(SessionOrder)
  /\ \A k \in 1 .. Len(SessionOrder) : SessionOrder[k] \in Session
  /\ \A s \in Session : \E k \in 1 .. Len(SessionOrder) : SessionOrder[k] = s
  /\ \A j, k \in 1 .. Len(SessionOrder) : SessionOrder[j] = SessionOrder[k] => j = k
BY SessionAssumption DEF Session, Range, IsInjective

Visited(T) == {SessionOrder[k] : k \in T}

LEMMA WishIs ==
  ASSUME NEW wish \in Wishes
  PROVE  DOMAIN wish \subseteq Session /\ \A s \in DOMAIN wish : wish[s] \in Lists[s]
<1>1. PICK chosen \in SUBSET Session :
         wish \in {w \in [chosen -> UNION {Lists[s] : s \in Session}] :
                      \A s \in chosen : w[s] \in Lists[s]}
  BY DEF Wishes
<1> QED
  BY <1>1

\* A new place is that of a new session.
LEMMA NextPlace ==
  ASSUME NEW T \in SUBSET (1 .. Len(SessionOrder)), NEW x \in (1 .. Len(SessionOrder)) \ T
  PROVE  /\ SessionOrder[x] \in Session /\ SessionOrder[x] \notin Visited(T)
         /\ Visited(T \cup {x}) = Visited(T) \cup {SessionOrder[x]}
<1>1. SessionOrder[x] \in Session
  BY Places
<1>2. ASSUME SessionOrder[x] \in Visited(T) PROVE FALSE
  <2>1. PICK k \in T : SessionOrder[k] = SessionOrder[x]
    BY <1>2 DEF Visited
  <2> QED
    BY <2>1, Places
<1>3. Visited(T \cup {x}) = Visited(T) \cup {SessionOrder[x]}
  BY DEF Visited
<1> QED
  BY <1>1, <1>2, <1>3

\* The books a submission starts from, and its step for one session.
BaseOf(m, wish) == [Books EXCEPT !.identity[m] = Submitted(m, DOMAIN wish)]
SeatNext(m, wish, b, s) == IF s \in DOMAIN wish THEN Seat(b, m, s, wish[s]) ELSE b

FoldsSeats(m, wish, base, D, g) ==
    g = [t \in SUBSET D |-> IF t = {} THEN base
                     ELSE SeatNext(m, wish, g[t \ {Max(t)}], SessionOrder[Max(t)])]

LEMMA SeatedUnfolds ==
  ASSUME NEW m, NEW wish
  PROVE  Seated(m, wish) =
            (CHOOSE g : FoldsSeats(m, wish, BaseOf(m, wish), DOMAIN SessionOrder, g))[DOMAIN SessionOrder]
BY DEF Seated, FoldLeft, MapThenFoldSet, SeatNext, FoldsSeats, BaseOf

\* What is so when the sessions at the places T are done.
SeatGood(m, wish, T, b) ==
    /\ GoodBooks(b)
    /\ \A n \in Member \ {m}, s \in Session : b.identity[n][s] = identity[n][s]
    /\ \A s \in Session :
        \/ b.identity[m][s] = Submitted(m, DOMAIN wish)[s]
        \/ /\ s \in Visited(T) /\ s \in DOMAIN wish
           /\ b.identity[m][s].status \in {"pass", "waitlisted"}
           /\ b.identity[m][s].status = "pass" => b.identity[m][s].won
           /\ b.identity[m][s].status = "waitlisted" => Awaits(b, s, b.identity[m][s].asked)

\* A submission starts without a seat.
LEMMA SubmittedFits ==
  ASSUME GoodBooks(Books), NEW m \in Member, In(m, {"pass"}) = {}, NEW chosen \in SUBSET Session
  PROVE  /\ Submitted(m, chosen) \in [Session -> Identity]
         /\ \A s \in Session :
               /\ IdentityFits(Submitted(m, chosen)[s], s)
               /\ Submitted(m, chosen)[s].status \notin {"pass", "waitlisted"}
               /\ s \notin chosen => Submitted(m, chosen)[s].status # "pending"
               /\ Submitted(m, chosen)[s].position = None
               /\ identity[m][s].position = None /\ ~ Passes(Books, m, s)
<1>1. identity \in [Member -> [Session -> Identity]]
  BY DEF GoodBooks, BookSet, Books
<1>2. ASSUME NEW s \in Session
      PROVE  /\ Submitted(m, chosen)[s] \in Identity
             /\ IdentityFits(Submitted(m, chosen)[s], s)
             /\ Submitted(m, chosen)[s].status \notin {"pass", "waitlisted"}
             /\ s \notin chosen => Submitted(m, chosen)[s].status # "pending"
             /\ Submitted(m, chosen)[s].position = None
             /\ identity[m][s].position = None /\ ~ Passes(Books, m, s)
  <2> DEFINE i == identity[m][s]
  <2>1. i \in Identity /\ i.won \in BOOLEAN /\ i.status \in Status
    BY <1>1 DEF Identity
  <2>2. i.status # "pass" /\ IdentityFits(i, s) /\ i.position = None
    BY DEF In, GoodBooks, Books, IdentityFits
  <2>3. ASSUME NEW st \in {"pending", "cancelled"}
        PROVE  LET r == Revise(i, st, None, None, FALSE)
               IN  r \in Identity /\ IdentityFits(r, s) /\ r.status = st /\ r.position = None
    <3>1. st \in Status /\ FALSE \in BOOLEAN /\ st # "pass" /\ None \in Offered[s] \cup {None}
      BY DEF Status
    <3>2. Revise(i, st, None, None, FALSE) \in Identity
          /\ IdentityFits(Revise(i, st, None, None, FALSE), s)
      BY <2>1, <3>1, ReviseFits
    <3>3. /\ Revise(i, st, None, None, FALSE).status = st
          /\ Revise(i, st, None, None, FALSE).position = None
      BY DEF Revise
    <3> QED
      BY <3>2, <3>3
  <2>4. Submitted(m, chosen)[s] = IF s \in chosen THEN Revise(i, "pending", None, None, FALSE)
            ELSE IF i.status \in Open THEN Revise(i, "cancelled", None, None, FALSE) ELSE i
    BY DEF Submitted
  <2>5. ~ Passes(Books, m, s)
    BY <2>2 DEF Passes, Books
  <2>6. CASE s \in chosen
    BY <2>2, <2>3, <2>4, <2>5, <2>6
  <2>7. CASE s \notin chosen /\ i.status \in Open
    BY <2>2, <2>3, <2>4, <2>5, <2>7
  <2>8. CASE s \notin chosen /\ i.status \notin Open
    BY <2>1, <2>2, <2>4, <2>5, <2>8 DEF Open
  <2> QED
    BY <2>6, <2>7, <2>8
<1>3. Submitted(m, chosen) \in [Session -> Identity]
  <2>1. Submitted(m, chosen) = [s \in Session |-> Submitted(m, chosen)[s]]
    BY DEF Submitted
  <2> QED
    BY <1>2, <2>1
<1> QED
  BY <1>2, <1>3

\* Nothing is done yet.
LEMMA SeatStart ==
  ASSUME GoodBooks(Books), NEW m \in Member, In(m, {"pass"}) = {},
         NEW wish, DOMAIN wish \subseteq Session
  PROVE  SeatGood(m, wish, {}, BaseOf(m, wish))
<1> DEFINE c == BaseOf(m, wish)
           sub == Submitted(m, DOMAIN wish)
<1>1. /\ Books \in BookSet /\ identity \in [Member -> [Session -> Identity]]
      /\ Books.identity = identity /\ Books.active = active /\ Books.occupied = occupied
  BY DEF GoodBooks, BookSet, Books
<1>2. /\ sub \in [Session -> Identity]
      /\ \A s \in Session :
            /\ IdentityFits(sub[s], s) /\ sub[s].status \notin {"pass", "waitlisted"}
            /\ sub[s].position = None /\ identity[m][s].position = None /\ ~ Passes(Books, m, s)
  BY SubmittedFits
<1> HIDE DEF sub
<1>3. /\ c.identity = [identity EXCEPT ![m] = sub] /\ c.active = active /\ c.occupied = occupied
      /\ c = [identity |-> c.identity, active |-> c.active, occupied |-> c.occupied]
  BY DEF BaseOf, Books, sub
<1> HIDE DEF c
<1>4. \A n \in Member : c.identity[n] = IF n = m THEN sub ELSE identity[n]
  BY <1>1, <1>3
<1>5. c \in BookSet
  <2>1. c.identity \in [Member -> [Session -> Identity]]
    BY <1>1, <1>2, <1>3
  <2> QED
    BY <1>1, <1>3, <2>1 DEF BookSet
<1>6. \A n \in Member, s \in Session :
         /\ IdentityFits(c.identity[n][s], s)
         /\ Passes(c, n, s) <=> Passes(Books, n, s)
         /\ c.identity[n][s].position = Books.identity[n][s].position
         /\ c.identity[n][s].status = "waitlisted" => s \in scheduled
  BY <1>1, <1>2, <1>4 DEF GoodBooks, Placed, Passes
<1>7. Rewrites(Books, c)
  BY <1>1, <1>3, <1>5, <1>6 DEF Rewrites
<1>8. GoodBooks(c)
  BY <1>7, Rewritten
<1> QED
  BY <1>4, <1>8 DEF SeatGood, c, sub

\* One session more is done.
LEMMA SeatStep ==
  ASSUME GoodBooks(Books), CapacityType, NEW m \in Member, In(m, {"pass"}) = {},
         NEW wish \in Wishes, DOMAIN wish \subseteq scheduled,
         NEW T \in SUBSET (1 .. Len(SessionOrder)), NEW x \in (1 .. Len(SessionOrder)) \ T,
         NEW b, SeatGood(m, wish, T, b)
  PROVE  SeatGood(m, wish, T \cup {x}, SeatNext(m, wish, b, SessionOrder[x]))
<1> DEFINE s == SessionOrder[x]
           c == SeatNext(m, wish, b, s)
           sub == Submitted(m, DOMAIN wish)
<1>1. s \in Session /\ s \notin Visited(T) /\ Visited(T \cup {x}) = Visited(T) \cup {s}
  BY NextPlace
<1>2. DOMAIN wish \subseteq Session /\ \A t \in DOMAIN wish : wish[t] \in Lists[t]
  BY WishIs
<1> HIDE DEF s
<1>3. CASE s \notin DOMAIN wish
  <2>1. c = b
    BY <1>3 DEF SeatNext
  <2> QED
    BY <1>1, <2>1 DEF SeatGood, s
<1>4. CASE s \in DOMAIN wish
  <2>1. c = Seat(b, m, s, wish[s]) /\ GoodBooks(b) /\ s \in scheduled /\ wish[s] \in Lists[s]
    BY <1>2, <1>4 DEF SeatNext, SeatGood
  <2>2. ~ Passes(b, m, s)
    <3>1. b.identity[m][s] = sub[s]
      BY <1>1 DEF SeatGood
    <3>2. sub[s].status # "pass"
      BY <1>1, <1>2, SubmittedFits
    <3> QED
      BY <3>1, <3>2 DEF Passes
  <2> HIDE DEF c
  <2>3. /\ GoodBooks(c)
        /\ \A n \in Member, t \in Session :
              n # m \/ t # s => c.identity[n][t] = b.identity[n][t]
        /\ c.identity[m][s].status \in {"pass", "waitlisted"}
        /\ c.identity[m][s].status = "pass" => c.identity[m][s].won
        /\ c.identity[m][s].status = "waitlisted" => Awaits(c, s, c.identity[m][s].asked)
        /\ \A k \in Bucket : b.occupied[k] <= c.occupied[k]
    BY <1>1, <2>1, <2>2, SeatKeeps
  <2>4. \A n \in Member \ {m}, t \in Session : c.identity[n][t] = identity[n][t]
    BY <2>3 DEF SeatGood
  <2>5. \A t \in Session :
           \/ c.identity[m][t] = sub[t]
           \/ /\ t \in Visited(T \cup {x}) /\ t \in DOMAIN wish
              /\ c.identity[m][t].status \in {"pass", "waitlisted"}
              /\ c.identity[m][t].status = "pass" => c.identity[m][t].won
              /\ c.identity[m][t].status = "waitlisted" => Awaits(c, t, c.identity[m][t].asked)
    <3>1. \A t \in Session : \A p : Awaits(b, t, p) => Awaits(c, t, p)
      BY <2>1, <2>3, StillAwaits
    <3> QED
      BY <1>1, <1>4, <2>3, <3>1 DEF SeatGood
  <2> QED
    BY <2>3, <2>4, <2>5 DEF SeatGood, c, s
<1> QED
  BY <1>3, <1>4

\* All sessions are done.
LEMMA SeatedGood ==
  ASSUME GoodBooks(Books), CapacityType, NEW m \in Member, In(m, {"pass"}) = {},
         NEW wish \in Wishes, DOMAIN wish \subseteq scheduled
  PROVE  SeatGood(m, wish, DOMAIN SessionOrder, Seated(m, wish))
<1> DEFINE N == Len(SessionOrder)
           base == BaseOf(m, wish)
           F == [x \in 1 .. N |-> [b \in BookSet |-> SeatNext(m, wish, b, SessionOrder[x])]]
           G == {q \in (SUBSET (1 .. N)) \X BookSet : SeatGood(m, wish, q[1], q[2])}
           h == CHOOSE g : FoldsSeats(m, wish, base, 1 .. N, g)
<1>1. N \in Nat /\ DOMAIN SessionOrder = 1 .. N
  BY Places
<1>2. \A T, b : SeatGood(m, wish, T, b) => b \in BookSet
  BY DEF SeatGood, GoodBooks
<1>3. base \in BookSet /\ <<{}, base>> \in G
  <2>1. SeatGood(m, wish, {}, base)
    BY WishIs, SeatStart
  <2> QED
    BY <1>2, <2>1
<1>4. Carries(F, N, BookSet, G)
  <2> SUFFICES ASSUME NEW T \in SUBSET (1 .. N), NEW x \in (1 .. N) \ T, NEW b \in BookSet,
                      <<T, b>> \in G
               PROVE  F[x][b] \in BookSet /\ <<T \cup {x}, F[x][b]>> \in G
    BY DEF Carries
  <2>1. SeatGood(m, wish, T, b)
    OBVIOUS
  <2>2. SeatGood(m, wish, T \cup {x}, SeatNext(m, wish, b, SessionOrder[x]))
    BY <2>1, SeatStep
  <2>3. F[x][b] = SeatNext(m, wish, b, SessionOrder[x])
    OBVIOUS
  <2>4. F[x][b] \in BookSet
    BY <1>2, <2>2, <2>3
  <2>5. T \cup {x} \in SUBSET (1 .. N)
    OBVIOUS
  <2> HIDE DEF F
  <2> QED
    BY <2>2, <2>3, <2>4, <2>5
<1>5. PICK g : Folds(F, base, SUBSET (1 .. N), g)
  <2> HIDE DEF F
  <2> QED
    BY <1>1, FoldExists
<1>6. \A T \in SUBSET (1 .. N) : g[T] \in BookSet /\ <<T, g[T]>> \in G
  <2> HIDE DEF F, G, base, N
  <2> QED
    BY <1>1, <1>3, <1>4, <1>5, FoldCarries
<1>7. \A T \in SUBSET (1 .. N) : T # {} => Max(T) \in T
  BY <1>1, MaxIsIn
<1>8. \A T \in SUBSET (1 .. N) : g[T] = IF T = {} THEN base
          ELSE SeatNext(m, wish, g[T \ {Max(T)}], SessionOrder[Max(T)])
  <2>1. ASSUME NEW T \in SUBSET (1 .. N), T # {}
        PROVE  F[Max(T)][g[T \ {Max(T)}]] = SeatNext(m, wish, g[T \ {Max(T)}], SessionOrder[Max(T)])
    <3>1. Max(T) \in 1 .. N /\ g[T \ {Max(T)}] \in BookSet
      BY <1>6, <1>7, <2>1
    <3> QED
      BY <3>1
  <2> HIDE DEF F
  <2> QED
    BY <1>5, <2>1 DEF Folds
<1>9. FoldsSeats(m, wish, base, 1 .. N, g)
  <2>1. g = [T \in SUBSET (1 .. N) |-> g[T]]
    BY <1>5 DEF Folds
  <2> HIDE DEF F, G, base
  <2> QED
    BY <1>8, <2>1 DEF FoldsSeats
<1>10. FoldsSeats(m, wish, base, 1 .. N, h)
  <2> HIDE DEF base
  <2> QED
    BY <1>9
<1>11. \A T \in SUBSET (1 .. N) : h[T] = IF T = {} THEN base
          ELSE SeatNext(m, wish, h[T \ {Max(T)}], SessionOrder[Max(T)])
  <2> HIDE DEF h, base
  <2> QED
    BY <1>10 DEF FoldsSeats
<1>12. g[1 .. N] = h[1 .. N]
  <2> HIDE DEF F, G, base, h
  <2>1. \A T \in SUBSET (1 .. N) :
           T # {} /\ g[T \ {Max(T)}] = h[T \ {Max(T)}] => g[T] = h[T]
    BY <1>8, <1>11
  <2>2. g[{}] = h[{}]
    BY <1>8, <1>11
  <2>3. \A T \in SUBSET (1 .. N) : g[T] = h[T]
    <3>1. StepsAgree(g, h, N)
      BY <2>1, <2>2 DEF StepsAgree
    <3> QED
      BY <1>1, <3>1, FoldUnique
  <2> QED
    BY <2>3
<1>13. Seated(m, wish) = h[1 .. N]
  BY <1>1, SeatedUnfolds
<1>14. <<1 .. N, g[1 .. N]>> \in G
  <2> HIDE DEF F, G, base
  <2> QED
    BY <1>6
<1>15. SeatGood(m, wish, 1 .. N, g[1 .. N])
  BY <1>14
<1> QED
  BY <1>1, <1>12, <1>13, <1>15

\* The step of a promotion for one session; all are the books it starts from.
PromoteNext(all, m, b, s) ==
    IF s \in Freed(all, m) THEN Promote(b, s, all.identity[m][s].asked) ELSE b

FoldsPromotions(m, all, D, g) ==
    g = [t \in SUBSET D |-> IF t = {} THEN all
                     ELSE PromoteNext(all, m, g[t \ {Max(t)}], SessionOrder[Max(t)])]

LEMMA PromotedUnfolds ==
  ASSUME NEW m, NEW all
  PROVE  PromoteAfterCancellation(all, m) =
            (CHOOSE g : FoldsPromotions(m, all, DOMAIN SessionOrder, g))[DOMAIN SessionOrder]
BY DEF PromoteAfterCancellation, FoldLeft, MapThenFoldSet, PromoteNext, FoldsPromotions

Full(b) == capacity[Activity] # None /\ b.occupied[Activity] = capacity[Activity]

\* A session has room for one more at p.
Room(b, s, p) == \A k \in {s, p} \cap Bucket : capacity[k] = None \/ b.occupied[k] + 1 <= capacity[k]

\* n has been promoted in s, the only one there and first in the line, and nobody is
\* left waiting who was before n.
Promoted(all, b, n, s) ==
    /\ all.identity[n][s].status = "waitlisted" /\ b.identity[n][s].status = "pass"
    /\ b.identity[n][s].position = all.identity[n][s].asked
    /\ \A o \in Member \ {n} :
        /\ b.identity[o][s] = all.identity[o][s]
        /\ all.identity[o][s].status = "waitlisted"
           /\ all.identity[o][s].asked = all.identity[n][s].asked => <<n, o>> \in ahead
    /\ \A o \in Member :
        /\ <<o, n>> \in ahead /\ all.identity[o][s].status = "waitlisted"
        /\ all.identity[o][s].asked = all.identity[n][s].asked
        => b.identity[o][s].status # "waitlisted"

\* What is so when the sessions at the places T are done.
PromoteGood(all, m, T, b) ==
    /\ GoodBooks(b)
    /\ \A n \in Member, s \in Session :
        b.identity[n][s] = all.identity[n][s] \/ (s \in Visited(T) /\ Promoted(all, b, n, s))
    /\ \A s \in Session \ Visited(T) : \A k \in {s} \cup Offered[s] : b.occupied[k] = all.occupied[k]
    /\ \A s \in Visited(T) \cap Freed(all, m) :
        LET p == all.identity[m][s].asked IN
        Room(all, s, p) => \A n \in NextInLine(all, s, p) \cap live : Passes(b, n, s) \/ Full(b)

OneWay == \A m, n \in Member : <<m, n>> \in ahead => <<n, m>> \notin ahead

LEMMA PromoteStep ==
  ASSUME CapacityType, OneWay, NEW all, GoodBooks(all), NEW m \in Member,
         NEW T \in SUBSET (1 .. Len(SessionOrder)), NEW x \in (1 .. Len(SessionOrder)) \ T,
         NEW b, PromoteGood(all, m, T, b)
  PROVE  PromoteGood(all, m, T \cup {x}, PromoteNext(all, m, b, SessionOrder[x]))
<1> DEFINE s == SessionOrder[x]
           p == all.identity[m][s].asked
           c == PromoteNext(all, m, b, s)
<1>1. s \in Session /\ s \notin Visited(T) /\ Visited(T \cup {x}) = Visited(T) \cup {s}
  BY NextPlace
<1>2. GoodBooks(b) /\ p \in Offered[s] \cup {None}
  BY <1>1 DEF PromoteGood, GoodBooks, IdentityFits
<1>3. \A n \in Member : b.identity[n][s] = all.identity[n][s]
  BY <1>1 DEF PromoteGood
<1>4. NextInLine(b, s, p) = NextInLine(all, s, p)
  BY <1>3 DEF NextInLine, Queue
<1>5. \A k \in {s} \cup Offered[s] : b.occupied[k] = all.occupied[k]
  BY <1>1 DEF PromoteGood
<1>6. CASE s \notin Freed(all, m)
  <2>1. c = b
    BY <1>6 DEF PromoteNext
  <2> HIDE DEF s, p, c
  <2>2. \A n \in Member, t \in Session : b.identity[n][t] = all.identity[n][t]
           \/ (t \in Visited(T \cup {x}) /\ Promoted(all, b, n, t))
    BY <1>1 DEF PromoteGood
  <2>3. \A t \in Session \ Visited(T \cup {x}) : \A k \in {t} \cup Offered[t] :
           b.occupied[k] = all.occupied[k]
    BY <1>1 DEF PromoteGood
  <2>4. Visited(T \cup {x}) \cap Freed(all, m) = Visited(T) \cap Freed(all, m)
    BY <1>1, <1>6
  <2>5. PromoteGood(all, m, T \cup {x}, b)
    BY <1>2, <2>2, <2>3, <2>4 DEF PromoteGood
  <2> QED
    BY <2>1, <2>5 DEF c, s
<1>7. CASE s \in Freed(all, m)
  <2>1. c = Promote(b, s, p)
    BY <1>7 DEF PromoteNext
  <2> HIDE DEF s, p, c
  <2>2. /\ GoodBooks(c)
        /\ \/ c = b /\ Blocked(b, s, p)
           \/ \E n \in NextInLine(b, s, p) \cap live : SeatsNext(b, c, n, s, p)
    BY <1>1, <1>2, <2>1, PromoteKeeps
  <2>3. CASE c = b /\ Blocked(b, s, p)
    <3>1. ASSUME Room(all, s, p), NEW n \in NextInLine(all, s, p) \cap live PROVE Full(b)
      <4>1. n \in Member /\ ~ Passes(b, n, s)
        BY <1>4 DEF NextInLine, Queue, Passes
      <4>2. Missing(b, n, s, p) \subseteq {s, p, Activity} \cap Bucket
        BY <1>1, <1>2, <4>1, MissingIs
      <4>3. PICK k \in Missing(b, n, s, p) : ~(capacity[k] = None \/ b.occupied[k] + 1 <= capacity[k])
        BY <1>4, <2>3 DEF Fits, Blocked
      <4>4. k = Activity
        BY <1>2, <1>5, <3>1, <4>2, <4>3, Kinds DEF Room
      <4>5. b.occupied[k] \in Nat /\ (capacity[k] = None \/ b.occupied[k] <= capacity[k])
        BY <1>2, <4>2, <4>3 DEF GoodBooks, BookSet, Within
      <4> QED
        BY <4>2, <4>3, <4>4, <4>5 DEF Full, CapacityType
    <3>2. \A t \in Visited(T \cup {x}) \cap Freed(all, m) :
             LET q == all.identity[m][t].asked IN
             Room(all, t, q) => \A n \in NextInLine(all, t, q) \cap live : Passes(b, n, t) \/ Full(b)
      BY <1>1, <3>1 DEF PromoteGood, p
    <3>3. \A n \in Member, t \in Session : b.identity[n][t] = all.identity[n][t]
             \/ (t \in Visited(T \cup {x}) /\ Promoted(all, b, n, t))
      BY <1>1 DEF PromoteGood
    <3>4. \A t \in Session \ Visited(T \cup {x}) : \A k \in {t} \cup Offered[t] :
             b.occupied[k] = all.occupied[k]
      BY <1>1 DEF PromoteGood
    <3>5. PromoteGood(all, m, T \cup {x}, b)
      BY <1>2, <3>2, <3>3, <3>4 DEF PromoteGood
    <3> QED
      BY <2>3, <3>5 DEF c, s
  <2>4. ASSUME NEW n \in NextInLine(b, s, p) \cap live, SeatsNext(b, c, n, s, p)
        PROVE  PromoteGood(all, m, T \cup {x}, c)
    <3>1. /\ n \in Member /\ b.identity[n][s].status = "waitlisted" /\ b.identity[n][s].asked = p
          /\ \A o \in Queue(b, s, p) \ {n} : <<n, o>> \in ahead
      BY DEF NextInLine, Queue
    <3>2. c.identity[n][s].status = "pass" /\ c.identity[n][s].position = p /\ ~ Passes(b, n, s)
      BY <1>1, <2>4, <3>1 DEF Revise, Passes, SeatsNext
    <3>3. \A o \in Member, t \in Session : o # n \/ t # s => c.identity[o][t] = b.identity[o][t]
      BY <2>4 DEF SeatsNext
    <3>4. Promoted(all, c, n, s)
      <4>1. ASSUME NEW o \in Member, <<o, n>> \in ahead, all.identity[o][s].status = "waitlisted",
                   all.identity[o][s].asked = all.identity[n][s].asked,
                   c.identity[o][s].status = "waitlisted"
            PROVE  FALSE
        <5>1. o # n
          BY <3>2, <4>1
        <5>2. o \in Queue(b, s, p)
          BY <1>3, <3>1, <4>1 DEF Queue
        <5> QED
          BY <3>1, <4>1, <5>1, <5>2 DEF OneWay
      <4>2. \A o \in Member \ {n} :
               /\ c.identity[o][s] = all.identity[o][s]
               /\ all.identity[o][s].status = "waitlisted"
                  /\ all.identity[o][s].asked = all.identity[n][s].asked => <<n, o>> \in ahead
        BY <1>1, <1>3, <3>1, <3>3 DEF Queue
      <4> QED
        BY <1>3, <3>1, <3>2, <4>1, <4>2 DEF Promoted
    <3>5. ASSUME NEW o \in Member, NEW t \in Session
          PROVE  c.identity[o][t] = all.identity[o][t]
                 \/ (t \in Visited(T \cup {x}) /\ Promoted(all, c, o, t))
      <4>1. CASE o = n /\ t = s
        BY <1>1, <3>4, <4>1
      <4>2. CASE ~(o = n /\ t = s) /\ c.identity[o][t] # all.identity[o][t]
        <5>1. c.identity[o][t] = b.identity[o][t] /\ t \in Visited(T) /\ Promoted(all, b, o, t)
          BY <3>3, <4>2 DEF PromoteGood
        <5>2. t # s
          BY <1>1, <5>1
        <5>3. \A u \in Member : c.identity[u][t] = b.identity[u][t]
          BY <3>3, <5>2
        <5>4. Promoted(all, c, o, t)
          BY <5>1, <5>3 DEF Promoted
        <5> QED
          BY <1>1, <5>1, <5>4
      <4> QED
        BY <4>1, <4>2
    <3>6. Missing(b, n, s, p) \subseteq {s, p, Activity} \cap Bucket
      BY <1>1, <1>2, <3>1, <3>2, MissingIs
    <3>7. ASSUME NEW t \in Session \ Visited(T \cup {x}), NEW k \in {t} \cup Offered[t]
          PROVE  c.occupied[k] = all.occupied[k]
      <4>1. t # s /\ t \notin Visited(T) /\ k \in Bucket
        BY <1>1, Kinds
      <4>2. k \notin {s, p, Activity}
        BY <1>1, <1>2, <4>1, Kinds
      <4>3. b.occupied[k] = all.occupied[k] /\ b.occupied[k] \in Nat
        BY <1>2, <4>1 DEF PromoteGood, GoodBooks, BookSet
      <4> QED
        BY <2>4, <3>6, <4>1, <4>2, <4>3 DEF SeatsNext
    <3>8. Full(b) => Full(c)
      <4> DEFINE one == IF Activity \in Missing(b, n, s, p) THEN 1 ELSE 0
      <4>3. b.occupied[Activity] \in Nat /\ c.occupied[Activity] = b.occupied[Activity] + one
        BY <1>2, <2>4, Kinds DEF GoodBooks, BookSet, SeatsNext
      <4>4. one \in {0, 1}
        OBVIOUS
      <4> HIDE DEF one
      <4>1. c.occupied[Activity] >= b.occupied[Activity] /\ c.occupied[Activity] \in Nat
            /\ b.occupied[Activity] \in Nat
        BY <4>3, <4>4
      <4>2. capacity[Activity] = None \/ c.occupied[Activity] <= capacity[Activity]
        BY <2>2, Kinds DEF GoodBooks, Within
      <4> QED
        BY <4>1, <4>2, Kinds DEF Full, CapacityType
    <3>9. ASSUME NEW t \in Visited(T \cup {x}) \cap Freed(all, m), NEW q, q = all.identity[m][t].asked,
                 Room(all, t, q), NEW o \in NextInLine(all, t, q) \cap live
          PROVE  Passes(c, o, t) \/ Full(c)
      <4>1. o \in Member /\ t \in Session
        BY DEF NextInLine, Queue, Freed
      <4>2. CASE t = s
        <5>1. q = p /\ o \in NextInLine(b, s, p)
          BY <1>4, <3>9, <4>2 DEF p
        <5>2. o = n
          BY <3>1, <5>1 DEF NextInLine, OneWay, Queue
        <5> QED
          BY <3>2, <4>2, <5>2 DEF Passes
      <4>3. CASE t # s
        <5>1. t \in Visited(T)
          BY <1>1, <4>3
        <5>2. Passes(b, o, t) \/ Full(b)
          BY <3>9, <5>1 DEF PromoteGood
        <5>3. c.identity[o][t] = b.identity[o][t]
          BY <3>3, <4>1, <4>3
        <5> QED
          BY <3>8, <5>2, <5>3 DEF Passes
      <4> QED
        BY <4>2, <4>3
    <3> QED
      BY <2>2, <3>5, <3>7, <3>9 DEF PromoteGood
  <2>5. PromoteGood(all, m, T \cup {x}, c)
    BY <2>2, <2>3, <2>4 DEF c, s
  <2> QED
    BY <2>5 DEF c, s
<1> QED
  BY <1>6, <1>7

\* All sessions are done.
LEMMA PromotedGood ==
  ASSUME CapacityType, OneWay, NEW all, GoodBooks(all), NEW m \in Member
  PROVE  PromoteGood(all, m, DOMAIN SessionOrder, PromoteAfterCancellation(all, m))
<1> DEFINE N == Len(SessionOrder)
           F == [x \in 1 .. N |-> [b \in BookSet |-> PromoteNext(all, m, b, SessionOrder[x])]]
           G == {q \in (SUBSET (1 .. N)) \X BookSet : PromoteGood(all, m, q[1], q[2])}
           h == CHOOSE g : FoldsPromotions(m, all, 1 .. N, g)
<1>1. N \in Nat /\ DOMAIN SessionOrder = 1 .. N
  BY Places
<1>2. \A T, b : PromoteGood(all, m, T, b) => b \in BookSet
  BY DEF PromoteGood, GoodBooks
<1>3. all \in BookSet /\ <<{}, all>> \in G
  <2>1. Visited({}) = {}
    BY DEF Visited
  <2>2. PromoteGood(all, m, {}, all)
    BY <2>1 DEF PromoteGood
  <2> QED
    BY <1>2, <2>2
<1>4. Carries(F, N, BookSet, G)
  <2> SUFFICES ASSUME NEW T \in SUBSET (1 .. N), NEW x \in (1 .. N) \ T, NEW b \in BookSet,
                      <<T, b>> \in G
               PROVE  F[x][b] \in BookSet /\ <<T \cup {x}, F[x][b]>> \in G
    BY DEF Carries
  <2>1. PromoteGood(all, m, T, b)
    OBVIOUS
  <2>2. PromoteGood(all, m, T \cup {x}, PromoteNext(all, m, b, SessionOrder[x]))
    BY <2>1, PromoteStep
  <2>3. F[x][b] = PromoteNext(all, m, b, SessionOrder[x])
    OBVIOUS
  <2>4. F[x][b] \in BookSet
    BY <1>2, <2>2, <2>3
  <2>5. T \cup {x} \in SUBSET (1 .. N)
    OBVIOUS
  <2> HIDE DEF F
  <2> QED
    BY <2>2, <2>3, <2>4, <2>5
<1>5. PICK g : Folds(F, all, SUBSET (1 .. N), g)
  <2> HIDE DEF F
  <2> QED
    BY <1>1, FoldExists
<1>6. \A T \in SUBSET (1 .. N) : g[T] \in BookSet /\ <<T, g[T]>> \in G
  <2> HIDE DEF F, G, N
  <2> QED
    BY <1>1, <1>3, <1>4, <1>5, FoldCarries
<1>7. \A T \in SUBSET (1 .. N) : T # {} => Max(T) \in T
  BY <1>1, MaxIsIn
<1>8. \A T \in SUBSET (1 .. N) : g[T] = IF T = {} THEN all
          ELSE PromoteNext(all, m, g[T \ {Max(T)}], SessionOrder[Max(T)])
  <2>1. ASSUME NEW T \in SUBSET (1 .. N), T # {}
        PROVE  F[Max(T)][g[T \ {Max(T)}]] = PromoteNext(all, m, g[T \ {Max(T)}], SessionOrder[Max(T)])
    <3>1. Max(T) \in 1 .. N /\ g[T \ {Max(T)}] \in BookSet
      BY <1>6, <1>7, <2>1
    <3> QED
      BY <3>1
  <2> HIDE DEF F
  <2> QED
    BY <1>5, <2>1 DEF Folds
<1>9. FoldsPromotions(m, all, 1 .. N, g)
  <2>1. g = [T \in SUBSET (1 .. N) |-> g[T]]
    BY <1>5 DEF Folds
  <2> HIDE DEF F, G
  <2> QED
    BY <1>8, <2>1 DEF FoldsPromotions
<1>10. FoldsPromotions(m, all, 1 .. N, h)
  BY <1>9
<1>11. \A T \in SUBSET (1 .. N) : h[T] = IF T = {} THEN all
          ELSE PromoteNext(all, m, h[T \ {Max(T)}], SessionOrder[Max(T)])
  <2> HIDE DEF h
  <2> QED
    BY <1>10 DEF FoldsPromotions
<1>12. g[1 .. N] = h[1 .. N]
  <2> HIDE DEF F, G, h
  <2>1. StepsAgree(g, h, N)
    BY <1>8, <1>11 DEF StepsAgree
  <2>2. \A T \in SUBSET (1 .. N) : g[T] = h[T]
    BY <1>1, <2>1, FoldUnique
  <2> QED
    BY <2>2
<1>13. PromoteAfterCancellation(all, m) = h[1 .. N]
  BY <1>1, PromotedUnfolds
<1>14. <<1 .. N, g[1 .. N]>> \in G
  <2> HIDE DEF F, G
  <2> QED
    BY <1>6
<1>15. PromoteGood(all, m, 1 .. N, g[1 .. N])
  BY <1>14
<1> QED
  BY <1>1, <1>12, <1>13, <1>15

-----------------------------------------------------------------------------
(* The inductive invariant. *)

\* What a header tells of the identities under it.
HeaderTells(h, all) ==
    /\ (\E s \in Session : all[s].status = "pass") => h = "pass"
    /\ h \in {"none", "cancelled", "reject"} => \A s \in Session : all[s].status \notin Open
    /\ h = "waitlisted" => \E s \in Session : all[s].status = "waitlisted"

\* The order of those who wait.
LineFits(all, order) ==
    /\ order \subseteq Waiters(all) \X Waiters(all)
    /\ \A m, n \in Waiters(all) : m # n => <<m, n>> \in order \/ <<n, m>> \in order
    /\ \A m, n \in Member : <<m, n>> \in order => <<n, m>> \notin order
    /\ \A m, n, o \in Member : <<m, n>> \in order /\ <<n, o>> \in order => <<m, o>> \in order

Frame ==
    /\ header \in [Member -> Header]
    /\ DOMAIN capacity = Bucket /\ \A k \in Bucket : capacity[k] \in Limits[k]
    /\ scheduled \subseteq Session /\ live \subseteq Member /\ phase \in {"published", "cancelled"}

IndInv ==
    /\ GoodBooks(Books)
    /\ LineFits(identity, ahead)
    /\ \A m \in Member : HeaderTells(header[m], identity[m])
    /\ Frame

LEMMA InvBasics ==
  ASSUME IndInv
  PROVE  /\ CapacityType /\ OneWay /\ GoodBooks(Books)
         /\ Books \in BookSet /\ Books.identity = identity
         /\ Books.active = active /\ Books.occupied = occupied
         /\ identity \in [Member -> [Session -> Identity]]
         /\ active \subseteq Reservation /\ occupied \in [Bucket -> Nat]
<1>1. CapacityType
  BY LimitAssumption DEF IndInv, Frame, CapacityType
<1>2. Books \in BookSet /\ GoodBooks(Books)
  BY DEF IndInv, GoodBooks
<1> QED
  BY <1>1, <1>2 DEF IndInv, OneWay, LineFits, Books, BookSet

\* The header that is written over some identities.
LEMMA HeaderAllocated ==
  ASSUME NEW all
  PROVE  /\ HeaderAfterAllocation(StatusesOf(all)) \in Header
         /\ HeaderTells(HeaderAfterAllocation(StatusesOf(all)), all)
<1>1. \A st \in {"pass", "pending", "waitlisted"} :
         st \in StatusesOf(all) <=> \E s \in Session : all[s].status = st
  BY DEF StatusesOf
<1> QED
  BY <1>1 DEF HeaderAfterAllocation, HeaderTells, Header, Open

LEMMA HeaderSummarized ==
  ASSUME NEW all
  PROVE  /\ HeaderSummary(StatusesOf(all)) \in Header
         /\ HeaderTells(HeaderSummary(StatusesOf(all)), all)
<1>1. \A st \in {"pass", "pending", "waitlisted"} :
         st \in StatusesOf(all) <=> \E s \in Session : all[s].status = st
  BY DEF StatusesOf
<1>2. CASE StatusesOf(all) \cap {"pass", "pending", "waitlisted"} # {}
  BY <1>2, HeaderAllocated DEF HeaderSummary
<1>3. CASE StatusesOf(all) \cap {"pass", "pending", "waitlisted"} = {}
  <2>1. \A s \in Session : all[s].status \notin {"pass", "pending", "waitlisted"}
    BY <1>1, <1>3
  <2> QED
    BY <1>3, <2>1 DEF HeaderSummary, HeaderTells, Header, Open
<1> QED
  BY <1>2, <1>3

\* A header depends on statuses only.
LEMMA HeaderSame ==
  ASSUME NEW h, NEW all, NEW next, HeaderTells(h, all),
         \A s \in Session : next[s].status = all[s].status
  PROVE  HeaderTells(h, next)
BY DEF HeaderTells

\* When nobody starts to wait, the order of the waiters is what is left of it.
LEMMA LineShrinks ==
  ASSUME NEW all, NEW order, LineFits(all, order), NEW next, Waiters(next) \subseteq Waiters(all)
  PROVE  LineFits(next, StillWaiting(order, next))
<1>1. \A m, n : <<m, n>> \in StillWaiting(order, next) <=>
                   <<m, n>> \in order /\ m \in Waiters(next) /\ n \in Waiters(next)
  BY DEF StillWaiting
<1>2. StillWaiting(order, next) \subseteq Waiters(next) \X Waiters(next)
  BY DEF StillWaiting
<1> QED
  BY <1>1, <1>2 DEF LineFits

\* A submitter goes to the end of it.
LEMMA LineGrows ==
  ASSUME NEW all, NEW order, LineFits(all, order), NEW next, NEW m \in Member,
         \A n \in Member \ {m} : n \in Waiters(next) <=> n \in Waiters(all),
         NEW others, others = Member \ {m},
         NEW longer, longer = (order \cap (others \X others)) \cup (others \X {m})
  PROVE  LineFits(next, StillWaiting(longer, next))
<1>1. \A n, o : <<n, o>> \in StillWaiting(longer, next) <=>
          /\ n \in Waiters(next) /\ o \in Waiters(next) /\ n \in others
          /\ o = m \/ (o \in others /\ <<n, o>> \in order)
  BY DEF StillWaiting
<1>2. StillWaiting(longer, next) \subseteq Waiters(next) \X Waiters(next)
  BY DEF StillWaiting
<1>3. Waiters(next) \subseteq Member
  BY DEF Waiters
<1> QED
  BY <1>1, <1>2, <1>3 DEF LineFits

\* A command writes its books.
LEMMA Recorded ==
  ASSUME NEW c, GoodBooks(c), Commit(c),
         \A k \in Bucket : capacity'[k] = None \/ c.occupied[k] <= capacity'[k],
         \A n \in Member, s \in Session :
            c.identity[n][s].status \in {"pass", "waitlisted"} => s \in scheduled'
  PROVE  GoodBooks(Books)'
<1>1. c = [identity |-> c.identity, active |-> c.active, occupied |-> c.occupied]
  BY DEF GoodBooks, BookSet
<1>2. Books' = c
  BY <1>1 DEF Books, Commit
<1>3. Within(Books)' /\ Placed(Books)'
  BY <1>2 DEF GoodBooks, Within, Placed
<1>4. Books' \in BookSet /\ Counted(Books)'
  BY <1>2 DEF GoodBooks, Counted, Of
<1>5. ASSUME NEW n \in Member PROVE HeldRight(Books, n)'
  <2>1. HeldRight(c, n)
    BY DEF GoodBooks
  <2>2. \A s \in Session : \A k : Holds(Books, n, s, k)' <=> Holds(c, n, s, k)
    BY <1>2 DEF Holds
  <2>3. \A s \in Session : Passes(Books, n, s)' <=> Passes(c, n, s)
    BY <1>2 DEF Passes
  <2>4. Persons(Books, n)' = Persons(c, n)
    BY <1>2 DEF Persons, Held
  <2>5. /\ \A s \in Session :
            /\ Holds(Books, n, s, s)' <=> Passes(Books, n, s)'
            /\ \A p \in Position : Holds(Books, n, s, p)' <=> Books'.identity[n][s].position = p
        /\ \A r \in Books'.active : r.member = n /\ r.bucket \in Session => r.bucket = r.session
    BY <1>2, <2>1, <2>2, <2>3 DEF HeldRight
  <2>6. /\ (\E s \in Session : Passes(Books, n, s)') => \E r : Persons(Books, n)' = {r}
        /\ (\A s \in Session : ~ Passes(Books, n, s)') => Persons(Books, n)' = {}
    BY <2>1, <2>3, <2>4 DEF HeldRight
  <2> QED
    BY <2>5, <2>6 DEF HeldRight
<1>6. \A n \in Member, s \in Session : IdentityFits(Books.identity[n][s], s)'
  BY <1>2 DEF GoodBooks, IdentityFits
<1> QED
  BY <1>3, <1>4, <1>5, <1>6 DEF GoodBooks

LEMMA Written ==
  ASSUME NEW c, GoodBooks(c), Commit(c), UNCHANGED <<capacity, scheduled>>
  PROVE  GoodBooks(Books)'
<1>1. \A k \in Bucket : capacity'[k] = None \/ c.occupied[k] <= capacity'[k]
  BY DEF GoodBooks, Within
<1>2. \A n \in Member, s \in Session :
         c.identity[n][s].status \in {"pass", "waitlisted"} => s \in scheduled'
  BY DEF GoodBooks, Placed
<1> QED
  BY <1>1, <1>2, Recorded

LEMMA InitInv == Init => IndInv
<1> SUFFICES ASSUME Init PROVE IndInv
  OBVIOUS
<1> USE DEF Init
<1>1. Absent \in Identity /\ \A s \in Session : IdentityFits(Absent, s)
  BY DEF Absent, Identity, Status, Choice, IdentityFits
<1>2. Books \in BookSet /\ Books.identity = identity /\ Books.active = {} /\ Books.occupied = occupied
  BY <1>1 DEF Books, BookSet
<1>3. \A n \in Member, s \in Session : Books.identity[n][s] = Absent
  BY <1>2
<1>4. Frame /\ CapacityType
  BY LimitAssumption DEF Frame, CapacityType, Header
<1>5. Counted(Books) /\ Within(Books)
  <2>1. \A k \in Bucket : Of(Books, k) = {}
    BY <1>2 DEF Of
  <2>2. IsFiniteSet({}) /\ Cardinality({}) = 0
    BY FS_EmptySet
  <2>3. \A k \in Bucket : Books.occupied[k] = 0
    BY <1>2
  <2>4. Counted(Books)
    BY <1>2, <2>1, <2>2, <2>3 DEF Counted
  <2>5. ASSUME NEW k \in Bucket, capacity[k] # None PROVE Books.occupied[k] <= capacity[k]
    BY <1>4, <2>3, <2>5 DEF CapacityType
  <2> QED
    BY <2>4, <2>5 DEF Within
<1>6. Placed(Books)
  BY <1>3 DEF Placed, Absent
<1>7. ASSUME NEW n \in Member PROVE HeldRight(Books, n)
  BY <1>2, <1>3, Kinds DEF HeldRight, Holds, Persons, Held, Passes, Absent
<1>8. GoodBooks(Books)
  BY <1>1, <1>2, <1>3, <1>5, <1>6, <1>7 DEF GoodBooks
<1>9. Waiters(identity) = {}
  BY <1>2, <1>3 DEF Waiters, Absent
<1>10. LineFits(identity, ahead)
  BY <1>9 DEF LineFits
<1>11. \A m \in Member : HeaderTells(header[m], identity[m])
  BY <1>2, <1>3 DEF HeaderTells, Absent, Open
<1> QED
  BY <1>4, <1>8, <1>10, <1>11 DEF IndInv

-----------------------------------------------------------------------------
(* Every command keeps it. *)

\* A submission changes the submitter's identities only; its seats are won, and it
\* waits for what is full, at the end of the line.
LEMMA SubmitKeeps ==
  ASSUME IndInv, NEW m \in Member, Submit(m),
         NEW others, others = Member \ {m}
  PROVE  /\ IndInv'
         /\ \A n \in Member \ {m}, s \in Session : identity'[n][s] = identity[n][s]
         /\ \A s \in Session :
               /\ identity[m][s].status # "pass"
               /\ identity'[m][s].status = "pass" => identity'[m][s].won
               /\ identity'[m][s].status = "waitlisted" =>
                     Awaits(Books, s, identity[m][s].asked)'
         /\ ahead' = StillWaiting((ahead \cap (others \X others)) \cup (others \X {m}), identity')
<1> DEFINE longer == (ahead \cap (others \X others)) \cup (others \X {m})
<1>1. PICK wish \in Wishes :
         /\ DOMAIN wish \subseteq scheduled
         /\ Commit(Seated(m, wish))
         /\ header' = [header EXCEPT ![m] =
               IF DOMAIN wish = {} THEN "pending"
               ELSE HeaderAfterAllocation(StatusesOf(Seated(m, wish).identity[m]))]
         /\ ahead' = StillWaiting(longer, Seated(m, wish).identity)
  BY DEF Submit
<1>2. In(m, {"pass"}) = {} /\ UNCHANGED <<capacity, scheduled, live, phase>>
  BY DEF Submit
<1>3. /\ CapacityType /\ GoodBooks(Books) /\ Books.identity = identity /\ scheduled \subseteq Session
      /\ identity \in [Member -> [Session -> Identity]]
      /\ LineFits(identity, ahead) /\ header \in [Member -> Header]
      /\ \A n \in Member : HeaderTells(header[n], identity[n])
  BY InvBasics DEF IndInv, Frame
<1> DEFINE c == Seated(m, wish)
<1>4. SeatGood(m, wish, DOMAIN SessionOrder, c)
  BY <1>1, <1>2, <1>3, SeatedGood
<1>5. /\ Commit(c) /\ identity' = c.identity
      /\ header' = [header EXCEPT ![m] = IF DOMAIN wish = {} THEN "pending"
                                         ELSE HeaderAfterAllocation(StatusesOf(c.identity[m]))]
      /\ ahead' = StillWaiting(longer, c.identity)
  BY <1>1 DEF Commit
<1> HIDE DEF c, longer
<1>6. /\ GoodBooks(c)
      /\ \A n \in Member \ {m}, s \in Session : c.identity[n][s] = identity[n][s]
      /\ \A s \in Session :
            \/ c.identity[m][s] = Submitted(m, DOMAIN wish)[s]
            \/ /\ s \in DOMAIN wish
               /\ c.identity[m][s].status = "pass" => c.identity[m][s].won
               /\ c.identity[m][s].status = "waitlisted" => Awaits(c, s, c.identity[m][s].asked)
  BY <1>4 DEF SeatGood
<1>7. \A s \in Session : /\ Submitted(m, DOMAIN wish)[s].status \notin {"pass", "waitlisted"}
                         /\ ~ Passes(Books, m, s)
  BY <1>1, <1>2, <1>3, SubmittedFits
<1>8. GoodBooks(Books)'
  BY <1>2, <1>5, <1>6, Written
<1>9. LineFits(identity', ahead')
  <2>1. \A n \in Member \ {m} : n \in Waiters(c.identity) <=> n \in Waiters(identity)
    BY <1>6 DEF Waiters
  <2>2. LineFits(c.identity, StillWaiting(longer, c.identity))
    BY <1>3, <2>1, LineGrows DEF longer
  <2> QED
    BY <1>5, <2>2
<1>10. HeaderTells(header'[m], identity'[m]) /\ header'[m] \in Header
  <2>1. CASE DOMAIN wish = {}
    <3>1. header'[m] = "pending"
      BY <1>3, <1>5, <2>1
    <3>2. \A s \in Session : identity'[m][s].status # "pass"
      BY <1>5, <1>6, <1>7, <2>1
    <3> QED
      BY <3>1, <3>2 DEF HeaderTells, Header
  <2>2. CASE DOMAIN wish # {}
    <3>1. header'[m] = HeaderAfterAllocation(StatusesOf(identity'[m]))
      BY <1>3, <1>5, <2>2
    <3> QED
      BY <3>1, HeaderAllocated
  <2> QED
    BY <2>1, <2>2
<1>11. ASSUME NEW n \in Member \ {m}
       PROVE  header'[n] = header[n] /\ HeaderTells(header'[n], identity'[n])
  <2>1. header'[n] = header[n] /\ HeaderTells(header[n], identity[n])
    BY <1>3, <1>5
  <2>2. \A s \in Session : identity'[n][s].status = identity[n][s].status
    BY <1>5, <1>6
  <2> QED
    BY <2>1, <2>2, HeaderSame
<1>12. header' \in [Member -> Header]
  <2>1. DOMAIN header' = Member /\ header' = [n \in Member |-> header'[n]]
    BY <1>3, <1>5
  <2> QED
    BY <1>3, <1>10, <1>11, <2>1
<1>13. Frame'
  BY <1>2, <1>12 DEF IndInv, Frame
<1>14. IndInv'
  BY <1>8, <1>9, <1>10, <1>11, <1>13 DEF IndInv
<1>15. \A s \in Session : /\ identity[m][s].status # "pass"
                          /\ identity'[m][s].status = "pass" => identity'[m][s].won
  BY <1>3, <1>5, <1>6, <1>7 DEF Passes
<1>16. ASSUME NEW s \in Session, identity'[m][s].status = "waitlisted"
       PROVE  Awaits(Books, s, identity[m][s].asked)'
  <2>1. Awaits(c, s, c.identity[m][s].asked)
    BY <1>5, <1>6, <1>7, <1>16
  <2>2. Books'.occupied = c.occupied /\ identity' = c.identity
    BY <1>5 DEF Commit, Books
  <2> QED
    BY <1>2, <2>1, <2>2 DEF Awaits, FullAt
<1>17. ahead' = StillWaiting(longer, identity')
  BY <1>5
<1> QED
  BY <1>5, <1>6, <1>14, <1>15, <1>16, <1>17 DEF longer

Going(m) == In(m, {"pending", "waitlisted", "pass"})

\* A registration is closed: its seats are given back, its places in the line
\* are empty.
ClosedFrom(m, status, c) ==
    /\ GoodBooks(c)
    /\ \A n \in Member \ {m}, s \in Session : c.identity[n][s] = identity[n][s]
    /\ \A s \in Session :
        c.identity[m][s] = IF s \in Going(m)
                           THEN Revise(identity[m][s], status, None, identity[m][s].position, FALSE)
                           ELSE identity[m][s]
    /\ \A s \in Session : c.identity[m][s].status \notin {"pass", "pending", "waitlisted"}
    /\ \A k \in Bucket : c.occupied[k] <= occupied[k]

LEMMA Closing ==
  ASSUME IndInv, NEW m \in Member, NEW status \in {"cancelled", "rejected"},
         NEW out, out \in {In(m, {"pass"}), Going(m)},
         NEW c, c = GivenBack(Books, m, out, Close(m, Going(m), status))
  PROVE  /\ ClosedFrom(m, status, c)
         /\ out = Going(m) => \A s \in Session : identity[m][s].status = "pass" =>
               /\ c.occupied[s] + 1 <= occupied[s]
               /\ identity[m][s].position # None =>
                     c.occupied[identity[m][s].position] + 1 <= occupied[identity[m][s].position]
<1> DEFINE next == Close(m, Going(m), status)
<1>1. /\ CapacityType /\ GoodBooks(Books) /\ Books.identity = identity /\ Books.occupied = occupied
      /\ identity \in [Member -> [Session -> Identity]]
      /\ \A s \in Session : IdentityFits(identity[m][s], s)
  BY InvBasics DEF GoodBooks
<1>2. \A s \in Session : s \in Going(m) <=> identity[m][s].status \in {"pending", "waitlisted", "pass"}
  BY DEF Going, In
<1>3. \A s \in Session : s \in out => s \in Going(m)
  BY <1>2 DEF In
<1>4. \A s \in Session : s \notin out => ~ (identity[m][s].status = "pass")
  BY <1>2 DEF In
<1>5. out \in SUBSET Session
  BY DEF Going, In
<1>6. \A s \in Session :
        next[s] = IF s \in Going(m)
                  THEN Revise(identity[m][s], status, None, identity[m][s].position, FALSE)
                  ELSE identity[m][s]
  BY DEF Close
<1>7. \A s \in Session : next[s] \in Identity /\ IdentityFits(next[s], s)
  <2> SUFFICES ASSUME NEW s \in Session PROVE next[s] \in Identity /\ IdentityFits(next[s], s)
    OBVIOUS
  <2> DEFINE i == identity[m][s]
  <2>1. i \in Identity /\ i.won \in BOOLEAN /\ IdentityFits(i, s)
        /\ i.position \in Offered[s] \cup {None}
    BY <1>1 DEF Identity, IdentityFits
  <2>2. /\ Revise(i, status, None, i.position, FALSE) \in Identity
        /\ IdentityFits(Revise(i, status, None, i.position, FALSE), s)
    <3>1. status \in Status /\ status \notin {"none", "pending", "pass"} /\ FALSE \in BOOLEAN
      BY DEF Status
    <3> HIDE DEF i
    <3> QED
      BY <2>1, <3>1, ReviseFits
  <2> QED
    BY <1>6, <2>1, <2>2
<1>8. next \in [Session -> Identity]
  <2>1. next = [s \in Session |-> next[s]]
    BY DEF Close
  <2> HIDE DEF next
  <2> QED
    BY <1>7, <2>1
<1> HIDE DEF next
<1>9. ASSUME NEW s \in Session, s \in Going(m)
      PROVE  next[s].status = status /\ next[s].position = None
  <2>1. next[s] = Revise(identity[m][s], status, None, identity[m][s].position, FALSE)
    BY <1>6, <1>9
  <2> QED
    BY <2>1 DEF Revise
<1>10. \A s \in Session : next[s].status \notin {"pass", "pending", "waitlisted"}
  BY <1>2, <1>6, <1>9
<1>11. ASSUME NEW s \in Session, s \notin out
       PROVE  /\ next[s].status # "pass" /\ ~ Passes(Books, m, s)
              /\ next[s].position = Books.identity[m][s].position
  <2>1. identity[m][s].status # "pass" /\ identity[m][s].position = None
    BY <1>1, <1>4, <1>11 DEF IdentityFits
  <2> QED
    BY <1>1, <1>6, <1>9, <1>10, <2>1 DEF Passes
<1>12. MayGive(Books, m, out, next)
  <2>1. Gives(Books, m, out, next)
    BY <1>7, <1>10, <1>11 DEF Gives
  <2> QED
    BY <1>5, <1>8, <2>1 DEF MayGive
<1>13. /\ GoodBooks(c)
       /\ \A n \in Member : c.identity[n] = IF n = m THEN next ELSE Books.identity[n]
       /\ \A k \in Bucket : c.occupied[k] <= Books.occupied[k]
       /\ \A s \in out : Passes(Books, m, s) =>
             /\ c.occupied[s] + 1 <= Books.occupied[s]
             /\ Books.identity[m][s].position # None =>
                   c.occupied[Books.identity[m][s].position] + 1
                       <= Books.occupied[Books.identity[m][s].position]
  <2>1. c = GivenBack(Books, m, out, next)
    BY DEF next
  <2> QED
    BY <1>1, <1>12, <2>1, ReleaseKeeps
<1>14. ClosedFrom(m, status, c)
  BY <1>1, <1>6, <1>10, <1>13 DEF ClosedFrom
<1>15. ASSUME out = Going(m), NEW s \in Session, identity[m][s].status = "pass"
       PROVE  /\ c.occupied[s] + 1 <= occupied[s]
              /\ identity[m][s].position # None =>
                    c.occupied[identity[m][s].position] + 1 <= occupied[identity[m][s].position]
  <2>1. s \in out /\ Passes(Books, m, s)
    BY <1>1, <1>2, <1>15 DEF Passes
  <2> QED
    BY <1>1, <1>13, <2>1
<1> QED
  BY <1>14, <1>15

\* Anybody's header that is written over identities, or left over the same.
LEMMA HeadersWritten ==
  ASSUME header \in [Member -> Header], \A n \in Member : HeaderTells(header[n], identity[n]),
         NEW h, DOMAIN h = Member /\ h = [n \in Member |-> h[n]],
         \A n \in Member :
            \/ h[n] \in Header /\ HeaderTells(h[n], identity'[n])
            \/ /\ h[n] = header[n]
               /\ \A s \in Session : identity'[n][s].status = identity[n][s].status
  PROVE  h \in [Member -> Header] /\ \A n \in Member : HeaderTells(h[n], identity'[n])
<1>1. ASSUME NEW n \in Member PROVE h[n] \in Header /\ HeaderTells(h[n], identity'[n])
  <2>1. CASE h[n] \in Header /\ HeaderTells(h[n], identity'[n])
    BY <2>1
  <2>2. CASE /\ h[n] = header[n]
             /\ \A s \in Session : identity'[n][s].status = identity[n][s].status
    <3>1. HeaderTells(header[n], identity[n]) /\ header[n] \in Header
      OBVIOUS
    <3>2. HeaderTells(header[n], identity'[n])
      BY <2>2, <3>1, HeaderSame
    <3> QED
      BY <2>2, <3>1, <3>2
  <2> QED
    BY <2>1, <2>2
<1> QED
  BY <1>1

\* What is known of the state a command starts from.
LEMMA Start ==
  ASSUME IndInv
  PROVE  /\ CapacityType /\ OneWay /\ GoodBooks(Books) /\ Frame /\ LineFits(identity, ahead)
         /\ Books.identity = identity /\ Books.occupied = occupied /\ Books.active = active
         /\ identity \in [Member -> [Session -> Identity]]
         /\ header \in [Member -> Header] /\ \A n \in Member : HeaderTells(header[n], identity[n])
         /\ \A n \in Member, s \in Session : IdentityFits(identity[n][s], s)
BY InvBasics DEF IndInv, Frame, GoodBooks

LEMMA ClosedWaiters ==
  ASSUME NEW m \in Member, NEW status, NEW c, ClosedFrom(m, status, c)
  PROVE  Waiters(c.identity) \subseteq Waiters(identity)
BY DEF ClosedFrom, Waiters

\* A closed header and the identities under it.
LEMMA ClosedHeader ==
  ASSUME NEW all, \A s \in Session : all[s].status \notin {"pass", "pending", "waitlisted"}
  PROVE  HeaderTells("cancelled", all) /\ HeaderTells("reject", all)
BY DEF HeaderTells, Open

LEMMA RejectKeeps ==
  ASSUME IndInv, NEW m \in Member, Reject(m)
  PROVE  IndInv' /\ \A n \in Member, s \in Session :
            identity'[n][s].status = "pass" <=> identity[n][s].status = "pass"
<1> DEFINE c == GivenBack(Books, m, In(m, {"pass"}), Close(m, Going(m), "rejected"))
<1>1. /\ Commit(c) /\ identity' = c.identity
      /\ header' = [header EXCEPT ![m] = "reject"]
      /\ ahead' = StillWaiting(ahead, c.identity)
      /\ UNCHANGED <<capacity, scheduled, live, phase>>
  BY DEF Reject, GivenBack, Going, Commit
<1>2. ClosedFrom(m, "rejected", c)
  BY Closing
<1> HIDE DEF c
<1>3. GoodBooks(Books)'
  BY <1>1, <1>2, Written DEF ClosedFrom
<1>4. LineFits(identity', ahead')
  <2>1. LineFits(c.identity, StillWaiting(ahead, c.identity))
    BY <1>2, ClosedWaiters, Start, LineShrinks
  <2> QED
    BY <1>1, <2>1
<1>5. header' \in [Member -> Header] /\ \A n \in Member : HeaderTells(header'[n], identity'[n])
  <2>1. header'[m] = "reject" /\ \A n \in Member \ {m} : header'[n] = header[n]
    BY <1>1, Start
  <2>2. DOMAIN header' = Member /\ header' = [n \in Member |-> header'[n]]
    BY <1>1, Start
  <2>3. HeaderTells("reject", identity'[m]) /\ "reject" \in Header
    BY <1>1, <1>2, ClosedHeader DEF ClosedFrom, Header
  <2>4. \A n \in Member \ {m}, s \in Session : identity'[n][s].status = identity[n][s].status
    BY <1>1, <1>2 DEF ClosedFrom
  <2>5. \A n \in Member :
           \/ header'[n] \in Header /\ HeaderTells(header'[n], identity'[n])
           \/ /\ header'[n] = header[n]
              /\ \A s \in Session : identity'[n][s].status = identity[n][s].status
    BY <2>1, <2>3, <2>4
  <2> QED
    BY <2>2, <2>5, Start, HeadersWritten
<1>6. Frame'
  BY <1>1, <1>5, Start DEF Frame
<1>7. \A n \in Member, s \in Session :
         identity'[n][s].status = "pass" <=> identity[n][s].status = "pass"
  <2>1. \A s \in Session : identity[m][s].status # "pass"
    BY Start DEF Reject, HeaderTells
  <2> QED
    BY <1>1, <1>2, <2>1 DEF ClosedFrom
<1> QED
  BY <1>3, <1>4, <1>5, <1>6, <1>7 DEF IndInv

\* A cancellation closes the registration and, if it had a seat, fills what it left.
CancelDoes(m, c, b) ==
    /\ c = GivenBack(Books, m, Going(m), Close(m, Going(m), "cancelled"))
    /\ IF header[m] = "pass" THEN b = PromoteAfterCancellation(c, m) ELSE b = c
    /\ Commit(b)
    /\ header' = [n \in Member |->
           IF n = m THEN "cancelled"
           ELSE IF b.identity[n] # identity[n]
                THEN HeaderAfterAllocation(StatusesOf(b.identity[n])) ELSE header[n]]
    /\ ahead' = StillWaiting(ahead, b.identity)
    /\ UNCHANGED <<capacity, scheduled, live, phase>>

LEMMA CancelIs ==
  ASSUME NEW m \in Member, Cancel(m)
  PROVE  \E c, b : CancelDoes(m, c, b)
<1> DEFINE c == GivenBack(Books, m, Going(m), Close(m, Going(m), "cancelled"))
           b == IF header[m] = "pass" THEN PromoteAfterCancellation(c, m) ELSE c
<1>1. CancelDoes(m, c, b)
  BY DEF Cancel, CancelDoes, GivenBack, Going
<1> QED
  BY <1>1

\* What it leaves.
CancelLeaves(m, c, b) ==
    /\ ClosedFrom(m, "cancelled", c)
    /\ \A s \in Session : identity[m][s].status = "pass" =>
          /\ c.occupied[s] + 1 <= occupied[s]
          /\ identity[m][s].position # None =>
                c.occupied[identity[m][s].position] + 1 <= occupied[identity[m][s].position]
    /\ GoodBooks(b)
    /\ \A n \in Member, s \in Session :
          b.identity[n][s] = c.identity[n][s] \/ Promoted(c, b, n, s)
    /\ header[m] = "pass" => PromoteGood(c, m, DOMAIN SessionOrder, b)

LEMMA CancelResult ==
  ASSUME IndInv, NEW m \in Member, NEW c, NEW b, CancelDoes(m, c, b)
  PROVE  CancelLeaves(m, c, b)
<1>1. /\ ClosedFrom(m, "cancelled", c)
      /\ \A s \in Session : identity[m][s].status = "pass" =>
            /\ c.occupied[s] + 1 <= occupied[s]
            /\ identity[m][s].position # None =>
                  c.occupied[identity[m][s].position] + 1 <= occupied[identity[m][s].position]
  <2>1. Going(m) = Going(m) /\ Going(m) \in {In(m, {"pass"}), Going(m)}
    OBVIOUS
  <2> QED
    BY <2>1, Closing DEF CancelDoes
<1>2. GoodBooks(c)
  BY <1>1 DEF ClosedFrom
<1>3. CASE header[m] = "pass"
  <2>1. PromoteGood(c, m, DOMAIN SessionOrder, b)
    BY <1>2, <1>3, Start, PromotedGood DEF CancelDoes
  <2> QED
    BY <1>1, <1>3, <2>1 DEF CancelLeaves, PromoteGood
<1>4. CASE header[m] # "pass"
  <2>1. b = c
    BY <1>4 DEF CancelDoes
  <2> QED
    BY <1>1, <1>2, <1>4, <2>1 DEF CancelLeaves
<1> QED
  BY <1>3, <1>4

LEMMA CancelKeeps ==
  ASSUME IndInv, NEW m \in Member, NEW c, NEW b, CancelDoes(m, c, b)
  PROVE  IndInv'
<1>1. /\ Commit(b) /\ identity' = b.identity
      /\ header' = [n \in Member |->
            IF n = m THEN "cancelled"
            ELSE IF b.identity[n] # identity[n]
                 THEN HeaderAfterAllocation(StatusesOf(b.identity[n])) ELSE header[n]]
      /\ ahead' = StillWaiting(ahead, b.identity)
      /\ UNCHANGED <<capacity, scheduled, live, phase>>
  BY DEF CancelDoes, Commit
<1>2. /\ ClosedFrom(m, "cancelled", c) /\ GoodBooks(b)
      /\ \A n \in Member, s \in Session :
            b.identity[n][s] = c.identity[n][s] \/ Promoted(c, b, n, s)
  BY CancelResult DEF CancelLeaves
<1>3. GoodBooks(Books)'
  BY <1>1, <1>2, Written
<1>4. LineFits(identity', ahead')
  <2>1. \A n \in Member, s \in Session :
           b.identity[n][s].status = "waitlisted" => c.identity[n][s].status = "waitlisted"
    BY <1>2 DEF Promoted
  <2>2. Waiters(b.identity) \subseteq Waiters(identity)
    BY <1>2, <2>1, ClosedWaiters DEF Waiters
  <2>3. LineFits(b.identity, StillWaiting(ahead, b.identity))
    BY <2>2, Start, LineShrinks
  <2> QED
    BY <1>1, <2>3
<1>5. header' \in [Member -> Header] /\ \A n \in Member : HeaderTells(header'[n], identity'[n])
  <2>1. DOMAIN header' = Member /\ header' = [n \in Member |-> header'[n]]
    BY <1>1
  <2>2. header'[m] \in Header /\ HeaderTells(header'[m], identity'[m])
    <3>1. \A s \in Session : b.identity[m][s].status \notin {"pass", "pending", "waitlisted"}
      BY <1>2 DEF ClosedFrom, Promoted
    <3>2. header'[m] = "cancelled"
      BY <1>1
    <3> QED
      BY <1>1, <3>1, <3>2, ClosedHeader DEF Header
  <2>3. ASSUME NEW n \in Member, n # m, b.identity[n] # identity[n]
        PROVE  header'[n] \in Header /\ HeaderTells(header'[n], identity'[n])
    <3>1. header'[n] = HeaderAfterAllocation(StatusesOf(identity'[n]))
      BY <1>1, <2>3
    <3> QED
      BY <3>1, HeaderAllocated
  <2>4. ASSUME NEW n \in Member, n # m, b.identity[n] = identity[n]
        PROVE  header'[n] = header[n] /\ identity'[n] = identity[n]
    BY <1>1, <2>4
  <2>5. \A n \in Member :
           \/ header'[n] \in Header /\ HeaderTells(header'[n], identity'[n])
           \/ /\ header'[n] = header[n]
              /\ \A s \in Session : identity'[n][s].status = identity[n][s].status
    BY <2>2, <2>3, <2>4
  <2> QED
    BY <2>1, <2>5, Start, HeadersWritten
<1>6. Frame'
  BY <1>1, <1>5, Start DEF Frame
<1> QED
  BY <1>3, <1>4, <1>5, <1>6 DEF IndInv

\* Identities are left alone.
LEMMA SameIdentities ==
  ASSUME IndInv, UNCHANGED <<identity, active, occupied, ahead>>,
         \A k \in Bucket : capacity'[k] = None \/ occupied[k] <= capacity'[k],
         UNCHANGED scheduled, Frame',
         \A n \in Member : header'[n] = header[n] \/ header'[n] = "pass"
  PROVE  IndInv'
<1>1. GoodBooks(Books)'
  <2>1. Commit(Books)
    BY DEF Commit, Books
  <2>2. \A n \in Member, s \in Session :
           Books.identity[n][s].status \in {"pass", "waitlisted"} => s \in scheduled'
    BY Start DEF GoodBooks, Placed
  <2>3. \A k \in Bucket : capacity'[k] = None \/ Books.occupied[k] <= capacity'[k]
    BY Start
  <2> QED
    BY <2>1, <2>2, <2>3, Start, Recorded
<1>2. LineFits(identity', ahead')
  BY Start
<1>3. \A n \in Member : HeaderTells("pass", identity[n])
  BY DEF HeaderTells
<1>4. \A n \in Member : HeaderTells(header'[n], identity'[n])
  BY <1>3, Start
<1> QED
  BY <1>1, <1>2, <1>4 DEF IndInv

LEMMA ApproveKeeps ==
  ASSUME IndInv, NEW m \in Member, Approve(m)
  PROVE  IndInv'
<1>1. Frame'
  BY Start DEF Approve, Frame, Header
<1>2. \A k \in Bucket : capacity'[k] = None \/ occupied[k] <= capacity'[k]
  BY Start DEF GoodBooks, Within, Approve
<1>3. \A n \in Member : header'[n] = header[n] \/ header'[n] = "pass"
  BY Start DEF Approve
<1> QED
  BY <1>1, <1>2, <1>3, SameIdentities DEF Approve

LEMMA LiveKeeps ==
  ASSUME IndInv, NEW m \in Member, Leave(m) \/ Return(m)
  PROVE  IndInv'
<1>1. Frame' /\ header' = header
  BY Start DEF Leave, Return, Frame
<1>2. \A k \in Bucket : capacity'[k] = None \/ occupied[k] <= capacity'[k]
  BY Start DEF GoodBooks, Within, Leave, Return
<1> QED
  BY <1>1, <1>2, SameIdentities DEF Leave, Return

LEMMA ResizeKeeps ==
  ASSUME IndInv, NEW b \in Bucket, NEW limit \in Limits[b], Resize(b, limit)
  PROVE  IndInv'
<1>1. /\ capacity' = [capacity EXCEPT ![b] = limit] /\ DOMAIN capacity = Bucket
      /\ limit # None => limit >= occupied[b]
      /\ UNCHANGED <<header, identity, active, occupied, ahead, scheduled, live, phase>>
  BY Start DEF Resize, Frame
<1>2. \A k \in Bucket : capacity'[k] = IF k = b THEN limit ELSE capacity[k]
  BY <1>1
<1>3. Frame'
  BY <1>1, <1>2, Start DEF Frame
<1>4. ASSUME NEW k \in Bucket PROVE capacity'[k] = None \/ occupied[k] <= capacity'[k]
  <2>1. CASE k = b
    <3>1. limit \in Nat \cup {None} /\ occupied[b] \in Nat
      BY LimitAssumption, InvBasics
    <3> QED
      BY <1>1, <1>2, <2>1, <3>1
  <2>2. CASE k # b
    BY <1>2, <2>2, Start DEF GoodBooks, Within
  <2> QED
    BY <2>1, <2>2
<1> QED
  BY <1>1, <1>3, <1>4, SameIdentities

\* Identities are rewritten, and no seat is touched.
NewIdentities(all) == [identity |-> all, active |-> active, occupied |-> occupied]

LEMMA Renewed ==
  ASSUME IndInv, NEW all \in [Member -> [Session -> Identity]],
         \A n \in Member, s \in Session :
            \/ all[n][s] = identity[n][s]
            \/ /\ IdentityFits(all[n][s], s)
               /\ identity[n][s].status # "pass"
               /\ all[n][s].status \notin {"pass", "waitlisted"}
  PROVE  GoodBooks(NewIdentities(all)) /\ Waiters(all) \subseteq Waiters(identity)
<1> DEFINE c == NewIdentities(all)
<1>1. c \in BookSet /\ c.identity = all /\ c.active = Books.active /\ c.occupied = Books.occupied
  BY InvBasics DEF NewIdentities, BookSet
<1> HIDE DEF c
<1>2. ASSUME NEW n \in Member, NEW s \in Session
      PROVE  /\ IdentityFits(c.identity[n][s], s)
             /\ Passes(c, n, s) <=> Passes(Books, n, s)
             /\ c.identity[n][s].position = Books.identity[n][s].position
             /\ c.identity[n][s].status = "waitlisted" => s \in scheduled
  <2>1. /\ IdentityFits(identity[n][s], s) /\ c.identity[n][s] = all[n][s]
        /\ identity[n][s].status = "waitlisted" => s \in scheduled
        /\ Books.identity[n][s] = identity[n][s]
    BY <1>1, Start DEF GoodBooks, Placed
  <2>2. CASE all[n][s] = identity[n][s]
    BY <2>1, <2>2 DEF Passes
  <2>3. CASE /\ IdentityFits(all[n][s], s) /\ identity[n][s].status # "pass"
             /\ all[n][s].status \notin {"pass", "waitlisted"}
    BY <2>1, <2>3 DEF Passes, IdentityFits
  <2> QED
    BY <2>2, <2>3
<1>3. Rewrites(Books, c)
  BY <1>1, <1>2 DEF Rewrites
<1>4. GoodBooks(c)
  BY <1>3, Start, Rewritten
<1> QED
  BY <1>4 DEF c, Waiters

LEMMA ReopenKeeps ==
  ASSUME IndInv, NEW m \in Member, Reopen(m)
  PROVE  IndInv' /\ \A n \in Member, s \in Session :
            identity'[n][s].status = "pass" <=> identity[n][s].status = "pass"
<1> DEFINE next(s) == IF identity[m][s].status = "rejected"
                      THEN Revise(identity[m][s], "pending", None, None, FALSE)
                      ELSE identity[m][s]
           own == [s \in Session |-> next(s)]
<1>1. /\ identity' = [identity EXCEPT ![m] = own]
      /\ header' = [header EXCEPT ![m] = "pending"]
      /\ In(m, {"pending", "pass", "waitlisted"}) = {}
      /\ UNCHANGED <<active, occupied, capacity, ahead, scheduled, live, phase>>
  BY DEF Reopen
<1>2. ASSUME NEW s \in Session
      PROVE  /\ own[s] \in Identity /\ IdentityFits(own[s], s)
             /\ own[s].status \notin {"pass", "waitlisted"}
             /\ identity[m][s].status \notin {"pending", "pass", "waitlisted"}
  <2> DEFINE i == identity[m][s]
  <2>1. i \in Identity /\ i.won \in BOOLEAN /\ IdentityFits(i, s)
    BY Start DEF Identity
  <2>2. i.status \notin {"pending", "pass", "waitlisted"}
    BY <1>1 DEF In
  <2>3. /\ Revise(i, "pending", None, None, FALSE) \in Identity
        /\ IdentityFits(Revise(i, "pending", None, None, FALSE), s)
    <3>1. "pending" \in Status /\ FALSE \in BOOLEAN /\ None \in Offered[s] \cup {None}
      BY DEF Status
    <3> HIDE DEF i
    <3> QED
      BY <2>1, <3>1, ReviseFits
  <2>4. Revise(i, "pending", None, None, FALSE).status = "pending"
    BY DEF Revise
  <2> QED
    BY <2>1, <2>2, <2>3, <2>4
<1>3. own \in [Session -> Identity]
  BY <1>2
<1> HIDE DEF own
<1>4. \A n \in Member : identity'[n] = IF n = m THEN own ELSE identity[n]
  BY <1>1, Start
<1>5. identity' \in [Member -> [Session -> Identity]]
  BY <1>1, <1>3, Start
<1>6. GoodBooks(NewIdentities(identity')) /\ Waiters(identity') \subseteq Waiters(identity)
  <2>1. \A n \in Member, s \in Session :
           \/ identity'[n][s] = identity[n][s]
           \/ /\ IdentityFits(identity'[n][s], s)
              /\ identity[n][s].status # "pass"
              /\ identity'[n][s].status \notin {"pass", "waitlisted"}
    BY <1>2, <1>4
  <2> QED
    BY <1>5, <2>1, Renewed
<1>7. GoodBooks(Books)'
  <2>1. Commit(NewIdentities(identity'))
    BY <1>1 DEF Commit, NewIdentities
  <2> QED
    BY <1>1, <1>6, <2>1, Written
<1>8. LineFits(identity', ahead')
  <2>1. Waiters(identity') = Waiters(identity)
    BY <1>2, <1>4 DEF Waiters
  <2> QED
    BY <1>1, <2>1, Start DEF LineFits
<1>9. header' \in [Member -> Header] /\ \A n \in Member : HeaderTells(header'[n], identity'[n])
  <2>1. header'[m] = "pending" /\ \A n \in Member \ {m} : header'[n] = header[n]
    BY <1>1, Start
  <2>2. DOMAIN header' = Member /\ header' = [n \in Member |-> header'[n]]
    BY <1>1, Start
  <2>3. HeaderTells("pending", identity'[m]) /\ "pending" \in Header
    BY <1>2, <1>4 DEF HeaderTells, Header
  <2>4. \A n \in Member :
           \/ header'[n] \in Header /\ HeaderTells(header'[n], identity'[n])
           \/ /\ header'[n] = header[n]
              /\ \A s \in Session : identity'[n][s].status = identity[n][s].status
    BY <1>4, <2>1, <2>3
  <2> QED
    BY <2>2, <2>4, Start, HeadersWritten
<1>10. Frame'
  BY <1>1, <1>9, Start DEF Frame
<1>11. \A n \in Member, s \in Session :
          identity'[n][s].status = "pass" <=> identity[n][s].status = "pass"
  BY <1>2, <1>4
<1> QED
  BY <1>7, <1>8, <1>9, <1>10, <1>11 DEF IndInv

\* Open identities of some sessions end.
Ended(all, sessions) ==
    /\ all \in [Member -> [Session -> Identity]]
    /\ GoodBooks(NewIdentities(all)) /\ Waiters(all) \subseteq Waiters(identity)
    /\ \A n \in Member, s \in Session :
          \/ all[n][s] = identity[n][s] /\ ~ (s \in sessions /\ identity[n][s].status \in Open)
          \/ /\ s \in sessions /\ identity[n][s].status \in Open
             /\ all[n][s].status = "cancelled"

LEMMA Ending ==
  ASSUME IndInv, NEW sessions
  PROVE  Ended(End(sessions), sessions)
<1> DEFINE all == End(sessions)
<1>1. \A n \in Member, s \in Session :
         all[n][s] = IF s \in sessions /\ identity[n][s].status \in Open
                     THEN Revise(identity[n][s], "cancelled", None, identity[n][s].asked, FALSE)
                     ELSE identity[n][s]
  BY DEF End
<1>2. ASSUME NEW n \in Member, NEW s \in Session
      PROVE  /\ all[n][s] \in Identity
             /\ \/ all[n][s] = identity[n][s] /\ ~ (s \in sessions /\ identity[n][s].status \in Open)
                \/ /\ s \in sessions /\ identity[n][s].status \in Open
                   /\ all[n][s].status = "cancelled" /\ IdentityFits(all[n][s], s)
  <2> DEFINE i == identity[n][s]
  <2>1. i \in Identity /\ i.won \in BOOLEAN /\ i.asked \in Offered[s] \cup {None}
    BY Start DEF Identity, IdentityFits
  <2>2. /\ Revise(i, "cancelled", None, i.asked, FALSE) \in Identity
        /\ IdentityFits(Revise(i, "cancelled", None, i.asked, FALSE), s)
    <3>1. "cancelled" \in Status /\ FALSE \in BOOLEAN /\ None \in Offered[s] \cup {None}
      BY DEF Status
    <3> HIDE DEF i
    <3> QED
      BY <2>1, <3>1, ReviseFits
  <2>3. Revise(i, "cancelled", None, i.asked, FALSE).status = "cancelled"
    BY DEF Revise
  <2>4. CASE s \in sessions /\ i.status \in Open
    BY <1>1, <2>2, <2>3, <2>4
  <2>5. CASE ~ (s \in sessions /\ i.status \in Open)
    BY <1>1, <2>1, <2>5
  <2> QED
    BY <2>4, <2>5
<1>3. all \in [Member -> [Session -> Identity]]
  <2>1. all = [n \in Member |-> all[n]] /\ \A n \in Member : all[n] = [s \in Session |-> all[n][s]]
    BY DEF End
  <2> HIDE DEF all
  <2>2. \A n \in Member : all[n] \in [Session -> Identity]
    BY <1>2, <2>1
  <2> QED
    BY <2>1, <2>2
<1> HIDE DEF all
<1>4. \A n \in Member, s \in Session :
         \/ all[n][s] = identity[n][s]
         \/ /\ IdentityFits(all[n][s], s)
            /\ identity[n][s].status # "pass"
            /\ all[n][s].status \notin {"pass", "waitlisted"}
  BY <1>2 DEF Open
<1>5. GoodBooks(NewIdentities(all)) /\ Waiters(all) \subseteq Waiters(identity)
  BY <1>3, <1>4, Renewed
<1> QED
  BY <1>2, <1>3, <1>5 DEF Ended, all

\* The headers of those touched are derived anew; the others need none.
LEMMA Reprojected ==
  ASSUME IndInv, NEW sessions, NEW all, Ended(all, sessions)
  PROVE  \A n \in Member :
            \/ /\ n \in Touched(sessions)
               /\ HeaderSummary(StatusesOf(all[n])) \in Header
               /\ HeaderTells(HeaderSummary(StatusesOf(all[n])), all[n])
            \/ /\ n \notin Touched(sessions)
               /\ \A s \in Session : all[n][s].status = identity[n][s].status
<1> SUFFICES ASSUME NEW n \in Member, n \notin Touched(sessions)
             PROVE  \A s \in Session : all[n][s].status = identity[n][s].status
  BY HeaderSummarized
<1>1. \A s \in Session : ~ (s \in sessions /\ identity[n][s].status \in Open)
  BY DEF Touched, In
<1> QED
  BY <1>1 DEF Ended

\* A seat in a session counts.
LEMMA SeatCounts ==
  ASSUME NEW b, GoodBooks(b), NEW n \in Member, NEW s \in Session, Passes(b, n, s)
  PROVE  b.occupied[s] # 0
<1>1. [bucket |-> s, member |-> n, session |-> s] \in Of(b, s)
  BY DEF GoodBooks, HeldRight, Holds, Of
<1>2. IsFiniteSet(Of(b, s)) /\ b.occupied[s] = Cardinality(Of(b, s))
  BY Kinds, FS_Subset DEF GoodBooks, Counted, Of
<1> QED
  BY <1>1, <1>2, FS_EmptySet

LEMMA CancelSessionKeeps ==
  ASSUME IndInv, NEW s \in Session, CancelSession(s)
  PROVE  IndInv' /\ \A n \in Member, t \in Session :
            identity'[n][t].status = "pass" <=> identity[n][t].status = "pass"
<1> DEFINE all == End({s})
<1>1. /\ identity' = all /\ header' = Reproject(Touched({s}), all)
      /\ ahead' = StillWaiting(ahead, all) /\ scheduled' = scheduled \ {s}
      /\ Projects(scheduled \ {s})
      /\ UNCHANGED <<active, occupied, capacity, live, phase>>
  BY DEF CancelSession
<1>2. Ended(all, {s})
  BY Ending
<1> HIDE DEF all
<1>3. occupied[s] = 0
  <2>1. s \in Bucket /\ s \notin {Activity} \cup (scheduled \ {s}) \cup
                              UNION {Offered[t] : t \in scheduled \ {s}}
    BY Kinds, Start DEF Frame
  <2> QED
    BY <1>1, <2>1 DEF Projects
<1>4. GoodBooks(Books)'
  <2>1. Commit(NewIdentities(all))
    BY <1>1 DEF Commit, NewIdentities
  <2>2. GoodBooks(NewIdentities(all))
    BY <1>2 DEF Ended
  <2>3. \A k \in Bucket : capacity'[k] = None \/ NewIdentities(all).occupied[k] <= capacity'[k]
    BY <1>1, <2>2 DEF GoodBooks, Within
  <2>4. ASSUME NEW n \in Member, NEW t \in Session,
               NewIdentities(all).identity[n][t].status \in {"pass", "waitlisted"}
        PROVE  t \in scheduled'
    <3>1. all[n][t].status \in {"pass", "waitlisted"} /\ t \in scheduled
      BY <2>2, <2>4 DEF GoodBooks, Placed, NewIdentities
    <3>2. all[n][t] = identity[n][t] /\ ~ (t = s /\ identity[n][t].status \in Open)
      BY <1>2, <3>1 DEF Ended
    <3>3. t = s => Passes(Books, n, s)
      BY <3>1, <3>2, Start DEF Passes, Open
    <3>4. t # s
      BY <1>3, <3>3, SeatCounts, Start
    <3> QED
      BY <1>1, <3>1, <3>4
  <2> QED
    BY <2>1, <2>2, <2>3, <2>4, Recorded
<1>5. LineFits(identity', ahead')
  <2>1. LineFits(all, StillWaiting(ahead, all))
    BY <1>2, Start, LineShrinks DEF Ended
  <2> QED
    BY <1>1, <2>1
<1>6. header' \in [Member -> Header] /\ \A n \in Member : HeaderTells(header'[n], identity'[n])
  <2>1. /\ DOMAIN header' = Member /\ header' = [n \in Member |-> header'[n]]
        /\ \A n \in Member : header'[n] = IF n \in Touched({s})
                                          THEN HeaderSummary(StatusesOf(all[n])) ELSE header[n]
    BY <1>1 DEF Reproject
  <2>2. ASSUME NEW n \in Member
        PROVE  \/ header'[n] \in Header /\ HeaderTells(header'[n], identity'[n])
               \/ /\ header'[n] = header[n]
                  /\ \A t \in Session : identity'[n][t].status = identity[n][t].status
    <3>1. \/ /\ n \in Touched({s})
             /\ HeaderSummary(StatusesOf(all[n])) \in Header
             /\ HeaderTells(HeaderSummary(StatusesOf(all[n])), all[n])
          \/ /\ n \notin Touched({s})
             /\ \A t \in Session : all[n][t].status = identity[n][t].status
      BY <1>2, Reprojected
    <3> QED
      BY <1>1, <2>1, <3>1
  <2> QED
    BY <2>1, <2>2, Start, HeadersWritten
<1>7. Frame'
  BY <1>1, <1>6, Start DEF Frame
<1>8. \A n \in Member, t \in Session :
         identity'[n][t].status = "pass" <=> identity[n][t].status = "pass"
  BY <1>1, <1>2 DEF Ended, Open
<1> QED
  BY <1>4, <1>5, <1>6, <1>7, <1>8 DEF IndInv

LEMMA CancelActivityKeeps ==
  ASSUME IndInv, CancelActivity
  PROVE  IndInv' /\ \A n \in Member, t \in Session :
            identity'[n][t].status = "pass" <=> identity[n][t].status = "pass"
<1> DEFINE all == End(Session)
           touched == Touched(Session)
           bare == {n \in Member : Sessions(n) = {} /\ header[n] \in Open}
<1>1. /\ identity' = all
      /\ header' = [n \in Member |->
            IF n \in bare THEN "cancelled" ELSE Reproject(touched, all)[n]]
      /\ ahead' = StillWaiting(ahead, all) /\ phase' = "cancelled"
      /\ UNCHANGED <<active, occupied, capacity, scheduled, live>>
  BY DEF CancelActivity
<1>2. Ended(all, Session)
  BY Ending
<1>3. \A n \in bare : \A t \in Session : identity[n][t].status = "none"
  BY DEF Sessions
<1> HIDE DEF all, touched, bare
<1>4. GoodBooks(Books)'
  <2>1. Commit(NewIdentities(all))
    BY <1>1 DEF Commit, NewIdentities
  <2> QED
    BY <1>1, <1>2, <2>1, Written DEF Ended
<1>5. LineFits(identity', ahead')
  <2>1. LineFits(all, StillWaiting(ahead, all))
    BY <1>2, Start, LineShrinks DEF Ended
  <2> QED
    BY <1>1, <2>1
<1>6. header' \in [Member -> Header] /\ \A n \in Member : HeaderTells(header'[n], identity'[n])
  <2>1. /\ DOMAIN header' = Member /\ header' = [n \in Member |-> header'[n]]
        /\ \A n \in Member : header'[n] = IF n \in bare THEN "cancelled"
                                          ELSE IF n \in touched
                                          THEN HeaderSummary(StatusesOf(all[n])) ELSE header[n]
    BY <1>1 DEF Reproject
  <2>2. ASSUME NEW n \in Member, n \in bare
        PROVE  header'[n] \in Header /\ HeaderTells(header'[n], identity'[n])
    <3>1. \A t \in Session : all[n][t].status \notin {"pass", "pending", "waitlisted"}
      BY <1>2, <1>3, <2>2 DEF Ended
    <3>2. header'[n] = "cancelled"
      BY <2>1, <2>2
    <3> QED
      BY <1>1, <3>1, <3>2, ClosedHeader DEF Header
  <2>3. ASSUME NEW n \in Member, n \notin bare
        PROVE  \/ header'[n] \in Header /\ HeaderTells(header'[n], identity'[n])
               \/ /\ header'[n] = header[n]
                  /\ \A t \in Session : identity'[n][t].status = identity[n][t].status
    BY <1>1, <1>2, <2>1, <2>3, Reprojected DEF touched
  <2> QED
    BY <2>1, <2>2, <2>3, Start, HeadersWritten
<1>7. Frame'
  BY <1>1, <1>6, Start DEF Frame
<1>8. \A n \in Member, t \in Session :
         identity'[n][t].status = "pass" <=> identity[n][t].status = "pass"
  BY <1>1, <1>2 DEF Ended, Open
<1> QED
  BY <1>4, <1>5, <1>6, <1>7, <1>8 DEF IndInv

-----------------------------------------------------------------------------
(* The invariant and what follows from it. *)

LEMMA StepInv == IndInv /\ [Next]_vars => IndInv'
<1> SUFFICES ASSUME IndInv, [Next]_vars PROVE IndInv'
  OBVIOUS
<1>1. ASSUME NEW m \in Member, Submit(m) PROVE IndInv'
  BY <1>1, SubmitKeeps
<1>2. ASSUME NEW m \in Member, Cancel(m) PROVE IndInv'
  <2>1. PICK c, b : CancelDoes(m, c, b)
    BY <1>2, CancelIs
  <2> QED
    BY <2>1, CancelKeeps
<1>3. ASSUME NEW m \in Member, Approve(m) PROVE IndInv'
  BY <1>3, ApproveKeeps
<1>4. ASSUME NEW m \in Member, Reject(m) PROVE IndInv'
  BY <1>4, RejectKeeps
<1>5. ASSUME NEW m \in Member, Reopen(m) PROVE IndInv'
  BY <1>5, ReopenKeeps
<1>6. ASSUME NEW m \in Member, Leave(m) \/ Return(m) PROVE IndInv'
  BY <1>6, LiveKeeps
<1>7. ASSUME NEW s \in Session, CancelSession(s) PROVE IndInv'
  BY <1>7, CancelSessionKeeps
<1>8. ASSUME NEW b \in Bucket, NEW limit \in Limits[b], Resize(b, limit) PROVE IndInv'
  BY <1>8, ResizeKeeps
<1>9. CASE CancelActivity
  BY <1>9, CancelActivityKeeps
<1>10. CASE UNCHANGED vars
  <2>1. UNCHANGED <<header, identity, active, occupied, capacity, ahead, scheduled, live, phase>>
    BY <1>10 DEF vars
  <2>2. Frame' /\ \A k \in Bucket : capacity'[k] = None \/ occupied[k] <= capacity'[k]
    BY <2>1, Start DEF Frame, GoodBooks, Within
  <2> QED
    BY <2>1, <2>2, SameIdentities
<1> QED
  BY <1>1, <1>2, <1>3, <1>4, <1>5, <1>6, <1>7, <1>8, <1>9, <1>10 DEF Next

LEMMA Always == Spec => []IndInv
BY InitInv, StepInv, PTL DEF Spec

\* Every variable keeps its type; the waiters stay in a line.
THEOREM TypeCorrect == Spec => []TypeOK
<1>1. IndInv => TypeOK
  BY InvBasics, Start DEF LineFits, Frame, TypeOK, IsStrictOrder
<1> QED
  BY <1>1, Always, PTL

\* No bucket drifts, overflows, or outlives its session.
THEOREM NoOversale == Spec => []NothingIsOversold
<1>1. IndInv => NothingIsOversold
  <2> SUFFICES ASSUME IndInv, NEW k \in Bucket
               PROVE  /\ occupied[k] = Cardinality({r \in active : r.bucket = k})
                      /\ capacity[k] = None \/ occupied[k] <= capacity[k]
                      /\ k \in Session \ scheduled => occupied[k] = 0
    BY DEF NothingIsOversold
  <2>1. occupied[k] = Cardinality({r \in active : r.bucket = k})
    BY Start DEF GoodBooks, Counted, Of
  <2>2. capacity[k] = None \/ occupied[k] <= capacity[k]
    BY Start DEF GoodBooks, Within
  <2>3. ASSUME k \in Session \ scheduled PROVE occupied[k] = 0
    <3>1. ASSUME NEW r \in active, r.bucket = k PROVE FALSE
      <4>1. /\ r.member \in Member /\ r.session \in Session
            /\ r = [bucket |-> r.bucket, member |-> r.member, session |-> r.session]
        BY <3>1, InvBasics, Reservations
      <4>2. HeldRight(Books, r.member) /\ r \in Books.active
        BY <3>1, <4>1, Start DEF GoodBooks
      <4>3. r.session = k
        BY <2>3, <3>1, <4>2 DEF HeldRight
      <4>4. Holds(Books, r.member, k, k)
        BY <3>1, <4>1, <4>2, <4>3 DEF Holds
      <4>5. Passes(Books, r.member, k)
        BY <2>3, <4>2, <4>4 DEF HeldRight
      <4> QED
        BY <2>3, <4>1, <4>5, Start DEF GoodBooks, Placed, Passes
    <3>2. {r \in active : r.bucket = k} = {}
      BY <3>1
    <3> QED
      BY <2>1, <3>2, FS_EmptySet
  <2> QED
    BY <2>1, <2>2, <2>3
<1> QED
  BY <1>1, Always, PTL

\* The copies of a seat agree.
LEMMA Agreement ==
  ASSUME IndInv, NEW m \in Member
  PROVE  PointersAgree(m)
<1>1. HeldRight(Books, m) /\ Books.active = active /\ active \subseteq Reservation
  BY InvBasics DEF GoodBooks
<1>2. \A s \in Session : IdentityFits(identity[m][s], s) /\ Books.identity = identity
                         /\ identity[m][s].seat \in BOOLEAN
  BY Start DEF Identity
<1>3. \A r \in Held(Books, m) :
         /\ r = [bucket |-> r.bucket, member |-> m, session |-> r.session]
         /\ r.session \in Session /\ r \in active
  BY <1>1, Reservations DEF Held
<1>4. \A r \in Held(Books, m) : Holds(Books, m, r.session, r.bucket)
  BY <1>1, <1>3 DEF Holds
<1>5. \A r \in SeatsOf(Books, m) : r.bucket = r.session
  BY <1>1 DEF SeatsOf, Held, HeldRight
<1>6. SeatsOf(Books, m) = {} <=> \A s \in Session : ~ Passes(Books, m, s)
  <2>1. ASSUME NEW s \in Session, Passes(Books, m, s) PROVE SeatsOf(Books, m) # {}
    <3>1. Holds(Books, m, s, s)
      BY <1>1, <2>1 DEF HeldRight
    <3>2. [bucket |-> s, member |-> m, session |-> s] \in SeatsOf(Books, m)
      BY <3>1 DEF Holds, SeatsOf, Held
    <3> QED
      BY <3>2
  <2>2. ASSUME NEW r \in SeatsOf(Books, m) PROVE \E s \in Session : Passes(Books, m, s)
    <3>1. r \in Held(Books, m) /\ r.bucket = r.session
      BY <1>5 DEF SeatsOf
    <3>2. r.session \in Session /\ Holds(Books, m, r.session, r.session)
      BY <1>3, <1>4, <3>1
    <3> QED
      BY <1>1, <3>2 DEF HeldRight
  <2> QED
    BY <2>1, <2>2
<1>7. Cardinality(Persons(Books, m)) = (IF SeatsOf(Books, m) = {} THEN 0 ELSE 1)
  <2>1. Cardinality({}) = 0 /\ \A r : Cardinality({r}) = 1
    BY FS_EmptySet, FS_Singleton
  <2>2. SeatsOf(Books, m) = {} => Persons(Books, m) = {}
    BY <1>1, <1>6 DEF HeldRight
  <2>3. SeatsOf(Books, m) # {} => \E r : Persons(Books, m) = {r}
    BY <1>1, <1>6 DEF HeldRight
  <2> QED
    BY <2>1, <2>2, <2>3
<1>8. ASSUME NEW r \in Held(Books, m), r.bucket \in Position
      PROVE  /\ identity[m][r.session].position = r.bucket
             /\ Holds(Books, m, r.session, r.session) /\ r.bucket \in Offered[r.session]
  <2>1. identity[m][r.session].position = r.bucket /\ r.session \in Session
    BY <1>1, <1>2, <1>3, <1>4, <1>8 DEF HeldRight
  <2>2. r.bucket \in Offered[r.session] /\ identity[m][r.session].status = "pass"
    BY <1>2, <1>8, <2>1, Kinds DEF IdentityFits
  <2>3. Holds(Books, m, r.session, r.session)
    BY <1>1, <1>2, <2>1, <2>2 DEF HeldRight, Passes
  <2> QED
    BY <2>1, <2>2, <2>3
<1>9. \A q, r \in Held(Books, m) :
         q.bucket \in Position /\ r.bucket \in Position /\ q.session = r.session => q = r
  BY <1>3, <1>8
<1>10. \A b \in Bucket :
          Books.occupied[b] = Cardinality({r \in Books.active : r.bucket = b})
  BY Start DEF GoodBooks, Counted, Of
<1>11. Reconciled(Books, m)
  BY <1>5, <1>7, <1>8, <1>9, <1>10 DEF Reconciled
<1>12. ASSUME NEW s \in Session
       PROVE  {r.bucket : r \in {q \in Held(Books, m) : q.session = s /\ q.bucket \in Position}}
                  = {identity[m][s].position} \ {None}
  <2> DEFINE mine == {q \in Held(Books, m) : q.session = s /\ q.bucket \in Position}
             p == identity[m][s].position
  <2>1. \A r \in mine : r.bucket = p /\ r.bucket # None
    BY <1>8, Kinds
  <2>2. p # None => p \in Position
    BY <1>2, Kinds DEF IdentityFits
  <2>3. p # None => [bucket |-> p, member |-> m, session |-> s] \in mine
    <3> SUFFICES ASSUME p # None
                 PROVE  [bucket |-> p, member |-> m, session |-> s] \in mine
      OBVIOUS
    <3>1. p \in Position /\ Books.identity[m][s].position = p
      BY <1>2, <2>2
    <3> HIDE DEF p
    <3>2. Holds(Books, m, s, p)
      BY <1>1, <3>1 DEF HeldRight
    <3> QED
      BY <3>1, <3>2 DEF Holds, Held
  <2>4. p # None => \E r \in mine : r.bucket = p
    BY <2>3
  <2> HIDE DEF mine, p
  <2>5. {r.bucket : r \in mine} = {p} \ {None}
    BY <2>1, <2>4
  <2> QED
    BY <2>5 DEF mine, p
<1>13. ASSUME NEW s \in Session
       PROVE  /\ (identity[m][s].status = "pass") = identity[m][s].seat
              /\ identity[m][s].status # "pass" => identity[m][s].position = None
              /\ identity[m][s].seat = Holds(Books, m, s, s)
  <2>1. Holds(Books, m, s, s) <=> identity[m][s].status = "pass"
    BY <1>1, <1>2 DEF HeldRight, Passes
  <2>2. /\ identity[m][s].seat <=> identity[m][s].status = "pass"
        /\ identity[m][s].status # "pass" => identity[m][s].position = None
    BY <1>2 DEF IdentityFits
  <2> QED
    BY <1>2, <2>1, <2>2 DEF Holds
<1> QED
  BY <1>11, <1>12, <1>13 DEF PointersAgree, Sessions

\* A seat is the same in all copies.
THEOREM SeatsReconciled == Spec => []SeatsAgree
<1>1. IndInv => SeatsAgree
  <2> SUFFICES ASSUME IndInv, NEW m \in Member
               PROVE  /\ PointersAgree(m)
                      /\ \A s \in In(m, {"pass"}) : RevisionAgrees(identity[m][s])
    BY DEF SeatsAgree
  <2>1. ASSUME NEW s \in In(m, {"pass"}) PROVE RevisionAgrees(identity[m][s])
    <3>1. s \in Session /\ identity[m][s].status = "pass"
      BY <2>1 DEF In
    <3>2. IdentityFits(identity[m][s], s)
      BY <3>1, Start
    <3> QED
      BY <3>1, <3>2 DEF IdentityFits, RevisionAgrees
  <2> QED
    BY <2>1, Agreement
<1> QED
  BY <1>1, Always, PTL

\* A header never hides a participation.
THEOREM HeaderSound == Spec => []HeaderHidesNothing
<1>1. IndInv => HeaderHidesNothing
  BY Start DEF HeaderHidesNothing, HeaderTells, In
<1> QED
  BY <1>1, Always, PTL

-----------------------------------------------------------------------------
(* What a step may never do. *)

\* The other commands make no seat and take none.
LEMMA SeatsSame ==
  ASSUME IndInv, [Next]_vars,
         \A k \in Member : ~ Submit(k) /\ ~ Cancel(k)
  PROVE  \A n \in Member, s \in Session :
            identity'[n][s].status = "pass" <=> identity[n][s].status = "pass"
<1>1. ASSUME NEW k \in Member, Approve(k) \/ Leave(k) \/ Return(k) PROVE identity' = identity
  BY <1>1 DEF Approve, Leave, Return
<1>2. ASSUME NEW b \in Bucket, NEW limit \in Limits[b], Resize(b, limit) PROVE identity' = identity
  BY <1>2 DEF Resize
<1>3. UNCHANGED vars => identity' = identity
  BY DEF vars
<1>4. \/ identity' = identity
      \/ \E k \in Member : Reject(k) \/ Reopen(k)
      \/ \E s \in Session : CancelSession(s)
      \/ CancelActivity
  BY <1>1, <1>2, <1>3 DEF Next
<1>5. CASE identity' = identity
  BY <1>5
<1>6. CASE \E k \in Member : Reject(k) \/ Reopen(k)
  BY <1>6, RejectKeeps, ReopenKeeps
<1>7. CASE \E s \in Session : CancelSession(s)
  BY <1>7, CancelSessionKeeps
<1>8. CASE CancelActivity
  BY <1>8, CancelActivityKeeps
<1> QED
  BY <1>4, <1>5, <1>6, <1>7, <1>8

\* A promotion never overtakes.
THEOREM PromotionsInOrder == Spec => NoPromotionOvertakes
<1>1. ASSUME IndInv, [Next]_vars, NEW m \in Member, NEW n \in Member, NEW s \in Session,
             <<m, n>> \in ahead, Waits(m, s), Waits(n, s),
             identity[m][s].asked = identity[n][s].asked,
             identity'[n][s].status = "pass", ~ identity'[n][s].won
      PROVE  identity'[m][s].status # "waitlisted"
  <2>1. identity[m][s].status = "waitlisted" /\ identity[n][s].status = "waitlisted"
    BY <1>1 DEF Waits
  <2>2. ASSUME NEW k \in Member, Submit(k) PROVE FALSE
    <3>1. k = n
      BY <1>1, <2>1, <2>2, SubmitKeeps
    <3> QED
      BY <1>1, <2>2, <3>1, SubmitKeeps
  <2>3. ASSUME NEW k \in Member, Cancel(k) PROVE identity'[m][s].status # "waitlisted"
    <3>1. PICK c, b : CancelDoes(k, c, b)
      BY <2>3, CancelIs
    <3>2. CancelLeaves(k, c, b) /\ identity' = b.identity
      BY <1>1, <3>1, CancelResult DEF CancelDoes, Commit
    <3>3. /\ \A o \in Member \ {k} : c.identity[o][s] = identity[o][s]
          /\ c.identity[k][s].status \notin {"pass", "waitlisted"}
          /\ \A o \in Member : b.identity[o][s] = c.identity[o][s] \/ Promoted(c, b, o, s)
      BY <3>2 DEF CancelLeaves, ClosedFrom
    <3>4. Promoted(c, b, n, s)
      BY <1>1, <2>1, <3>2, <3>3
    <3>5. n # k
      BY <3>3, <3>4 DEF Promoted
    <3>6. CASE m = k
      BY <3>2, <3>3, <3>6 DEF Promoted
    <3>7. CASE m # k
      <4>1. c.identity[m][s] = identity[m][s] /\ c.identity[n][s] = identity[n][s]
        BY <3>3, <3>5, <3>7
      <4> QED
        BY <1>1, <2>1, <3>2, <3>4, <4>1 DEF Promoted
    <3> QED
      BY <3>6, <3>7
  <2>4. (\E k \in Member : Submit(k) \/ Cancel(k)) \/ identity[n][s].status = "pass"
    BY <1>1, SeatsSame
  <2> QED
    BY <2>1, <2>2, <2>3, <2>4
<1>2. IndInv /\ [Next]_vars =>
         [\A m, n \in Member, s \in Session :
             /\ <<m, n>> \in ahead /\ Waits(m, s) /\ Waits(n, s)
             /\ identity[m][s].asked = identity[n][s].asked
             /\ identity'[n][s].status = "pass" /\ ~ identity'[n][s].won
             => identity'[m][s].status # "waitlisted"]_vars
  BY <1>1
<1> QED
  BY <1>2, Always, PTL DEF Spec, NoPromotionOvertakes

\* The seat a cancellation leaves goes to the head of its queue.
THEOREM FreedSeatGoesOn == Spec => FreedSeatIsTaken
<1>1. ASSUME IndInv, [Next]_vars, NEW m \in Member, NEW s \in Session,
             identity[m][s].status = "pass", identity[m][s].won,
             identity'[m][s].status = "cancelled",
             NEW n \in NextInLine(Books, s, identity[m][s].position) \cap live
      PROVE  identity'[n][s].status = "pass" \/ occupied'[Activity] = capacity[Activity]
  <2> DEFINE p == identity[m][s].position
  <2>1. ASSUME NEW k \in Member, Submit(k) PROVE FALSE
    BY <1>1, <2>1, SubmitKeeps
  <2>2. PICK k \in Member : Cancel(k)
    BY <1>1, <2>1, SeatsSame
  <2>3. PICK c, b : CancelDoes(k, c, b)
    BY <2>2, CancelIs
  <2>4. CancelLeaves(k, c, b) /\ identity' = b.identity /\ occupied' = b.occupied
    BY <1>1, <2>3, CancelResult DEF CancelDoes, Commit
  <2>5. k = m
    <3>1. \A o \in Member \ {k} : c.identity[o][s] = identity[o][s]
      BY <2>4 DEF CancelLeaves, ClosedFrom
    <3>2. b.identity[m][s] = c.identity[m][s] \/ b.identity[m][s].status = "pass"
      BY <2>4 DEF CancelLeaves, Promoted
    <3> QED
      BY <1>1, <2>4, <3>1, <3>2
  <2>6. PromoteGood(c, m, DOMAIN SessionOrder, b)
    <3>1. header[m] = "pass"
      BY <1>1, Start DEF HeaderTells
    <3> QED
      BY <2>4, <2>5, <3>1 DEF CancelLeaves
  <2>7. s \in Visited(DOMAIN SessionOrder)
    BY Places DEF Visited
  <2>8. /\ c.identity[m][s].status = "cancelled" /\ c.identity[m][s].freed
        /\ c.identity[m][s].asked = p
    <3>1. c.identity[m][s] = Revise(identity[m][s], "cancelled", None, p, FALSE)
      BY <1>1, <2>4, <2>5 DEF CancelLeaves, ClosedFrom, Going, In
    <3>2. identity[m][s].won \in BOOLEAN
      BY <1>1, Start DEF Identity
    <3>3. Revise(identity[m][s], "cancelled", None, p, FALSE).freed = identity[m][s].won
      BY <3>2 DEF Revise
    <3>4. c.identity[m][s].freed
      BY <1>1, <3>1, <3>3
    <3>5. c.identity[m][s].status = "cancelled" /\ c.identity[m][s].asked = p
      BY <3>1 DEF Revise
    <3> QED
      BY <3>4, <3>5
  <2>9. s \in Freed(c, m)
    BY <2>8 DEF Freed
  <2>10. Room(c, s, p)
    <3>1. \A j \in {s, p} \cap Bucket : c.occupied[j] + 1 <= occupied[j]
      BY <1>1, <2>4, <2>5, Kinds DEF CancelLeaves
    <3>2. \A j \in Bucket : c.occupied[j] \in Nat /\ occupied[j] \in Nat
                            /\ (capacity[j] = None \/ occupied[j] <= capacity[j])
                            /\ capacity[j] \in Nat \cup {None}
      <4>1. GoodBooks(c)
        BY <2>4 DEF CancelLeaves, ClosedFrom
      <4> QED
        BY <1>1, <4>1, Start DEF GoodBooks, BookSet, Within, CapacityType
    <3> HIDE DEF p
    <3> QED
      BY <3>1, <3>2 DEF Room
  <2>11. NextInLine(c, s, p) = NextInLine(Books, s, p)
    <3>1. \A o \in Member \ {m} : c.identity[o][s] = Books.identity[o][s]
      BY <1>1, <2>4, <2>5, Start DEF CancelLeaves, ClosedFrom
    <3>2. c.identity[m][s].status # "waitlisted" /\ Books.identity[m][s].status # "waitlisted"
      BY <1>1, <2>8, Start
    <3>3. Queue(c, s, p) = Queue(Books, s, p)
      BY <3>1, <3>2 DEF Queue
    <3> QED
      BY <3>3 DEF NextInLine
  <2>12. Passes(b, n, s) \/ Full(b)
    BY <1>1, <2>6, <2>7, <2>8, <2>9, <2>10, <2>11 DEF PromoteGood
  <2> QED
    BY <2>4, <2>12 DEF Passes, Full
<1>2. IndInv /\ [Next]_vars =>
         [\A m \in Member, s \in Session :
             /\ identity[m][s].status = "pass" /\ identity[m][s].won
             /\ identity'[m][s].status = "cancelled"
             => \A n \in NextInLine(Books, s, identity[m][s].position) \cap live :
                    \/ identity'[n][s].status = "pass"
                    \/ occupied'[Activity] = capacity[Activity]]_vars
  BY <1>1
<1> QED
  BY <1>2, Always, PTL DEF Spec, FreedSeatIsTaken

-----------------------------------------------------------------------------
(* What the counters count. *)

\* The members with a seat that k counts: anywhere in the activity, in session k,
\* or at position k.
At(k) == {m \in Member : \E s \in Session :
             identity[m][s].status = "pass" /\ k \in {Activity, s, identity[m][s].position}}

\* Each counter is a number of people.
CountersCountPeople ==
    \A k \in Bucket :
        /\ IsFiniteSet(At(k)) /\ occupied[k] = Cardinality(At(k))
        /\ capacity[k] = None \/ Cardinality(At(k)) <= capacity[k]

\* A reservation of k says that its member has a seat k counts ...
LEMMA ReservedIsAt ==
  ASSUME IndInv, NEW k \in Bucket, NEW r \in Of(Books, k)
  PROVE  /\ r.member \in At(k)
         /\ r.member \in Member /\ r.session \in Session
         /\ r = [bucket |-> k, member |-> r.member, session |-> r.session]
         /\ k \in Session => r.session = k
         /\ k \in Position => identity[r.member][r.session].position = k
         /\ k = Activity => r \in Persons(Books, r.member)
<1> DEFINE m == r.member
           s == r.session
<1>1. /\ m \in Member /\ s \in Session /\ r.bucket = k
      /\ r = [bucket |-> k, member |-> m, session |-> s]
      /\ r \in Books.active
  BY InvBasics, Reservations DEF Of
<1>2. HeldRight(Books, m) /\ Books.identity = identity /\ IdentityFits(identity[m][s], s)
  BY <1>1, Start DEF GoodBooks
<1>3. Holds(Books, m, s, k)
  BY <1>1 DEF Holds
<1>4. CASE k \in Session
  <2>1. s = k
    BY <1>1, <1>2, <1>4 DEF HeldRight
  <2>2. identity[m][s].status = "pass"
    BY <1>1, <1>2, <1>3, <2>1 DEF HeldRight, Passes
  <2> QED BY <1>1, <1>4, <2>1, <2>2, Kinds DEF At
<1>5. CASE k \in Position
  <2>1. identity[m][s].position = k
    BY <1>1, <1>2, <1>3, <1>5 DEF HeldRight
  <2>2. identity[m][s].status = "pass"
    BY <1>2, <1>5, <2>1, Kinds DEF IdentityFits
  <2> QED BY <1>1, <1>5, <2>1, <2>2, Kinds DEF At
<1>6. CASE k = Activity
  <2>1. r \in Persons(Books, m)
    BY <1>1, <1>6 DEF Persons, Held
  <2>2. PICK t \in Session : Passes(Books, m, t)
    BY <1>2, <2>1 DEF HeldRight
  <2>3. identity[m][t].status = "pass"
    BY <1>2, <2>2 DEF Passes
  <2> QED BY <1>1, <1>6, <2>1, <2>3, Kinds DEF At
<1> QED
  BY <1>4, <1>5, <1>6 DEF Bucket

\* ... everybody with such a seat has one ...
LEMMA AtIsReserved ==
  ASSUME IndInv, NEW k \in Bucket, NEW m \in At(k)
  PROVE  \E r \in Of(Books, k) : r.member = m
<1>1. PICK s \in Session : /\ identity[m][s].status = "pass"
                           /\ k \in {Activity, s, identity[m][s].position}
  BY DEF At
<1>2. /\ m \in Member /\ HeldRight(Books, m)
      /\ Books.identity = identity /\ IdentityFits(identity[m][s], s)
  BY Start DEF At, GoodBooks
<1>3. Passes(Books, m, s)
  BY <1>1, <1>2 DEF Passes
<1>4. CASE k = Activity
  <2>1. PICK r : Persons(Books, m) = {r}
    BY <1>2, <1>3 DEF HeldRight
  <2> QED BY <1>4, <2>1 DEF Persons, Held, Of
<1>5. CASE k # Activity
  <2>1. Holds(Books, m, s, k)
    <3>1. CASE k = s
      BY <1>2, <1>3, <3>1 DEF HeldRight
    <3>2. CASE k # s
      <4>1. k = identity[m][s].position /\ k \in Offered[s]
        BY <1>1, <1>2, <1>5, <3>2, Kinds DEF IdentityFits
      <4> QED BY <1>2, <4>1, Kinds DEF HeldRight
    <3> QED BY <3>1, <3>2
  <2> QED BY <2>1 DEF Holds, Of
<1> QED
  BY <1>4, <1>5

\* ... and nobody has two.
LEMMA ReservedOnce ==
  ASSUME IndInv, NEW k \in Bucket, NEW q \in Of(Books, k), NEW r \in Of(Books, k),
         q.member = r.member
  PROVE  q = r
<1> DEFINE m == r.member
<1>1. m \in Member /\ HeldRight(Books, m) /\ q.session \in Session /\ r.session \in Session
  BY ReservedIsAt, Start DEF GoodBooks
<1>2. CASE k = Activity
  <2>1. q \in Persons(Books, m) /\ r \in Persons(Books, m)
    BY <1>2, ReservedIsAt
  <2>2. \E p : Persons(Books, m) = {p}
    BY <1>1, <2>1 DEF HeldRight
  <2> QED BY <2>1, <2>2
<1>3. CASE k \in Session
  <2>1. q.session = k /\ r.session = k
    BY <1>3, ReservedIsAt
  <2> QED BY <2>1, ReservedIsAt
<1>4. CASE k \in Position
  <2>1. identity[m][q.session].position = k /\ identity[m][r.session].position = k
    BY <1>4, ReservedIsAt
  <2>2. k \in Offered[q.session] /\ k \in Offered[r.session]
    BY <1>1, <1>4, <2>1, Kinds, Start DEF IdentityFits
  <2>3. q.session = r.session
    BY <1>1, <2>2, Kinds
  <2> QED BY <2>3, ReservedIsAt
<1> QED
  BY <1>2, <1>3, <1>4 DEF Bucket

LEMMA CountsPeople ==
  ASSUME IndInv
  PROVE  CountersCountPeople
<1> SUFFICES ASSUME NEW k \in Bucket
             PROVE  /\ IsFiniteSet(At(k)) /\ occupied[k] = Cardinality(At(k))
                    /\ capacity[k] = None \/ Cardinality(At(k)) <= capacity[k]
  BY DEF CountersCountPeople
<1> DEFINE rows == Of(Books, k)
           f == [r \in rows |-> r.member]
<1>1. /\ IsFiniteSet(rows) /\ occupied[k] = Cardinality(rows)
      /\ capacity[k] = None \/ occupied[k] <= capacity[k]
  BY Start, FS_Subset DEF GoodBooks, Counted, Within, Of
<1>2. f \in [rows -> At(k)]
  BY ReservedIsAt
<1>3. \A q, r \in rows : f[q] = f[r] => q = r
  BY ReservedOnce
<1>4. \A m \in At(k) : \E r \in rows : f[r] = m
  BY AtIsReserved
<1> HIDE DEF f, rows
<1>5. f \in Bijection(rows, At(k))
  BY <1>2, <1>3, <1>4 DEF Bijection, Injection, Surjection, IsInjective
<1>6. ExistsBijection(rows, At(k))
  BY <1>5 DEF ExistsBijection
<1>7. IsFiniteSet(At(k)) /\ Cardinality(At(k)) = Cardinality(rows)
  BY <1>1, <1>6, FS_Bijection
<1> QED
  BY <1>1, <1>7

\* No more people than places: a counter moved by deltas, over reservation rows
\* written and released by six commands, is the number of members who have a seat
\* there -- in the whole activity once each, in however many sessions -- and that
\* number respects the limit of the bucket.
THEOREM NoMorePeopleThanPlaces == Spec => []CountersCountPeople
  BY CountsPeople, Always, PTL

\* What the organiser's commands ask of the counters: it is always granted, but
\* for the cancellation of a session in which somebody has a seat.
OnlySeatsRefuse ==
    /\ Projects(scheduled)
    /\ \A s \in scheduled : Projects(scheduled \ {s}) <=> At(s) = {}

LEMMA EmptyBucket ==
  ASSUME IndInv, NEW k \in Bucket
  PROVE  occupied[k] = 0 <=> At(k) = {}
<1>1. IsFiniteSet(At(k)) /\ occupied[k] = Cardinality(At(k))
  BY CountsPeople DEF CountersCountPeople
<1> QED
  BY <1>1, FS_EmptySet

\* Neither a capacity change nor the cancellation of an empty session is ever
\* refused because the counters drifted.
THEOREM OrganiserNeverRefused == Spec => []OnlySeatsRefuse
<1>1. ASSUME IndInv, NEW some \in SUBSET Session, scheduled \ some \subseteq scheduled
      PROVE  Projects(scheduled \ some) <=> \A s \in some \cap scheduled : At(s) = {}
  <2> DEFINE kept == {Activity} \cup (scheduled \ some)
                        \cup UNION {Offered[s] : s \in scheduled \ some}
  <2>1. \A b \in Bucket : occupied[b] = Cardinality({r \in active : r.bucket = b})
    BY <1>1, Start DEF GoodBooks, Counted, Of
  <2>2. Projects(scheduled \ some) <=> \A b \in Bucket : b \notin kept => At(b) = {}
    <3>1. \A b \in Bucket : occupied[b] = 0 <=> At(b) = {}
      BY <1>1, EmptyBucket
    <3>2. Projects(scheduled \ some) <=> \A b \in Bucket : b \notin kept => occupied[b] = 0
      BY <2>1 DEF Projects
    <3> HIDE DEF kept
    <3> QED BY <3>1, <3>2
  <2>3. ASSUME \A b \in Bucket : b \notin kept => At(b) = {},
               NEW s \in some \cap scheduled
        PROVE  At(s) = {}
    <3>1. s \in Session /\ s \in some /\ s \in Bucket
      BY Kinds
    <3>2. s \notin kept
      <4>1. scheduled \subseteq Session
        BY <1>1, Start DEF Frame
      <4>2. \A u \in scheduled : s \notin Offered[u]
        BY <3>1, <4>1, Kinds
      <4> QED BY <3>1, <4>2, Kinds
    <3> QED BY <2>3, <3>1, <3>2
  <2>4. ASSUME \A s \in some \cap scheduled : At(s) = {},
               NEW b \in Bucket, b \notin kept, NEW m \in At(b)
        PROVE  FALSE
    <3>1. PICK s \in Session : /\ identity[m][s].status = "pass" /\ m \in Member
                               /\ b \in {Activity, s, identity[m][s].position}
      BY DEF At
    <3>2. s \in scheduled /\ IdentityFits(identity[m][s], s)
      BY <1>1, <3>1, Start DEF GoodBooks, Placed
    <3>3. m \in At(s)
      BY <3>1 DEF At
    <3>4. s \notin some
      BY <2>4, <3>2, <3>3
    <3>5. b = identity[m][s].position /\ b \in Offered[s]
      BY <2>4, <3>1, <3>2, <3>4, Kinds DEF IdentityFits
    <3> QED BY <2>4, <3>2, <3>4, <3>5
  <2> HIDE DEF kept
  <2> QED BY <2>2, <2>3, <2>4
<1>2. IndInv => OnlySeatsRefuse
  <2> SUFFICES ASSUME IndInv PROVE OnlySeatsRefuse
    OBVIOUS
  <2>1. scheduled \subseteq Session
    BY Start DEF Frame
  <2>2. Projects(scheduled)
    <3>1. Projects(scheduled \ {}) <=> \A s \in {} \cap scheduled : At(s) = {}
      BY <1>1
    <3>2. scheduled \ {} = scheduled
      OBVIOUS
    <3> QED BY <3>1, <3>2
  <2>3. ASSUME NEW s \in scheduled PROVE Projects(scheduled \ {s}) <=> At(s) = {}
    <3>1. {s} \in SUBSET Session /\ {s} \cap scheduled = {s}
      BY <2>1
    <3>2. Projects(scheduled \ {s}) <=> \A t \in {s} \cap scheduled : At(t) = {}
      BY <1>1, <3>1
    <3> QED BY <3>1, <3>2
  <2> QED BY <2>2, <2>3 DEF OnlySeatsRefuse
<1> QED
  BY <1>2, Always, PTL

-----------------------------------------------------------------------------
(* What it amounts to for the people: FirstComeSeats is implemented. *)

\* What the mapped state is.
Bridge ==
    /\ SeatMap \in Promise!Where /\ LineMap \in Promise!Where
    /\ \A m \in Member, s \in Session :
        /\ SeatMap[m][s] = SeatOf(m, s) /\ LineMap[m][s] = LineOf(m, s)
        /\ SeatMap[m][s] # None <=> identity[m][s].status = "pass"
        /\ LineMap[m][s] # None <=> identity[m][s].status = "waitlisted"
        /\ {SeatMap[m][s], LineMap[m][s]} \subseteq Promise!Spots(s) \cup {None}
    /\ Promise!InLine = Waiters(identity)
    /\ \A k \in Bucket : Promise!Fits(k) /\ (FullAt(Books, k) => Promise!Full(k))

LEMMA SpotsAre ==
  ASSUME NEW s \in Session
  PROVE  /\ None \notin Promise!Spots(s)
         /\ \A spot \in Promise!Spots(s) : Promise!Needs(s, spot) \subseteq Bucket
         /\ \A p \in Offered[s] \cup {None} : SpotOf(s, p) \in Promise!Spots(s)
         /\ \A p, q \in Offered[s] \cup {None} : SpotOf(s, p) = SpotOf(s, q) => p = q
BY Kinds DEF Promise!Spots, Promise!Needs, SpotOf

\* The instance counts as FiniteSets does.
LEMMA SameCount == \A S : Promise!Cardinality(S) = Cardinality(S)
BY DEF Promise!Cardinality, Cardinality

LEMMA BridgeHolds == IndInv => Bridge
<1> SUFFICES ASSUME IndInv PROVE Bridge
  OBVIOUS
<1>1. ASSUME NEW m \in Member, NEW s \in Session
      PROVE  /\ SeatMap[m][s] = SeatOf(m, s) /\ LineMap[m][s] = LineOf(m, s)
             /\ SeatMap[m][s] # None <=> identity[m][s].status = "pass"
             /\ LineMap[m][s] # None <=> identity[m][s].status = "waitlisted"
             /\ {SeatMap[m][s], LineMap[m][s]} \subseteq Promise!Spots(s) \cup {None}
  <2>1. SeatMap[m][s] = SeatOf(m, s) /\ LineMap[m][s] = LineOf(m, s)
    BY DEF SeatMap, LineMap
  <2>2. /\ SpotOf(s, identity[m][s].position) \in Promise!Spots(s)
        /\ SpotOf(s, identity[m][s].asked) \in Promise!Spots(s)
        /\ None \notin Promise!Spots(s)
    BY SpotsAre, Start DEF IdentityFits
  <2> QED BY <2>1, <2>2 DEF SeatOf, LineOf
<1>2. SeatMap \in Promise!Where /\ LineMap \in Promise!Where
  <2>1. \A s \in Session : Promise!Spots(s) \subseteq Bucket
    BY Kinds DEF Promise!Spots
  <2>2. \A m \in Member, s \in Session : SeatOf(m, s) \in Bucket \cup {None}
                                         /\ LineOf(m, s) \in Bucket \cup {None}
    BY <1>1, <2>1
  <2> QED BY <2>2 DEF Promise!Where, SeatMap, LineMap
<1>3. Promise!InLine = Waiters(identity)
  BY <1>1 DEF Promise!InLine, Waiters
<1>4. ASSUME NEW k \in Bucket
      PROVE  Promise!Fits(k) /\ (FullAt(Books, k) => Promise!Full(k))
  <2>1. ASSUME NEW m \in Member, NEW s \in Session, identity[m][s].status = "pass"
        PROVE  k \in Promise!Needs(s, SeatMap[m][s]) <=> k \in {Activity, s, identity[m][s].position}
    <3>1. SeatMap[m][s] = SpotOf(s, identity[m][s].position)
      BY <1>1, <2>1 DEF SeatOf
    <3> QED BY <3>1, Kinds DEF Promise!Needs, SpotOf
  <2>2. Promise!People(k) = At(k)
    BY <1>1, <2>1 DEF Promise!People, At
  <2>3. /\ occupied[k] = Cardinality(At(k))
        /\ capacity[k] = None \/ Cardinality(At(k)) <= capacity[k]
    BY CountsPeople DEF CountersCountPeople
  <2> QED BY <2>2, <2>3, SameCount, Start DEF Promise!Fits, Promise!Full, FullAt
<1> QED BY <1>1, <1>2, <1>3, <1>4 DEF Bridge

LEMMA BridgeNext == IndInv' => Bridge'
BY BridgeHolds, PTL

\* A row is told by its entries, one of None only in particular.
LEMMA SameRow ==
  ASSUME NEW S, NEW row \in [Session -> S], NEW other \in [Session -> S],
         \A s \in Session : row[s] = other[s]
  PROVE  row = other
OBVIOUS

LEMMA AllNone ==
  ASSUME NEW S, NEW row \in [Session -> S], \A s \in Session : row[s] = None
  PROVE  row = [s \in Session |-> None]
OBVIOUS

LEMMA SubmitEnters ==
  ASSUME IndInv, NEW m \in Member, Submit(m)
  PROVE  Promise!Enter(m)
<1> DEFINE others == Member \ {m}
<1>1. /\ IndInv'
      /\ \A n \in others, s \in Session : identity'[n][s] = identity[n][s]
      /\ \A s \in Session : /\ identity[m][s].status # "pass"
                            /\ identity'[m][s].status = "waitlisted" =>
                                  Awaits(Books, s, identity[m][s].asked)'
      /\ ahead' = StillWaiting((ahead \cap (others \X others)) \cup (others \X {m}), identity')
  BY SubmitKeeps
<1>2. Bridge /\ Bridge'
  BY <1>1, BridgeHolds, BridgeNext
<1>3. /\ UNCHANGED <<capacity, scheduled, phase>> /\ phase = "published"
      /\ OpenSessions' = OpenSessions /\ OpenSessions = scheduled
  BY DEF Submit, OpenSessions
<1>4. SeatMap \in Promise!Where /\ LineMap \in Promise!Where
      /\ SeatMap' \in Promise!Where /\ LineMap' \in Promise!Where
  BY <1>2 DEF Bridge, Promise!Where
<1>5. SeatMap[m] = Promise!Nowhere
  <2>1. SeatMap[m] \in [Session -> Bucket \cup {None}]
    BY <1>4 DEF Promise!Where
  <2>2. \A s \in Session : SeatMap[m][s] = None
    BY <1>1, <1>2 DEF Bridge
  <2> QED BY <2>1, <2>2, AllNone DEF Promise!Nowhere
<1>6. \A n \in others, s \in Session : SeatMap'[n][s] = SeatMap[n][s] /\ LineMap'[n][s] = LineMap[n][s]
  BY <1>1 DEF SeatMap, LineMap, SeatOf, LineOf
<1>7. \A n \in others : SeatMap'[n] = SeatMap[n] /\ LineMap'[n] = LineMap[n]
  <2>1. \A n \in others : {SeatMap[n], SeatMap'[n], LineMap[n], LineMap'[n]}
                                \subseteq [Session -> Bucket \cup {None}]
    BY <1>4 DEF Promise!Where
  <2> QED BY <1>6, <2>1, SameRow
<1>8. ASSUME NEW s \in Session
      PROVE  \/ SeatMap'[m][s] = None /\ LineMap'[m][s] = None
             \/ /\ s \in OpenSessions /\ SeatMap'[m][s] \in Promise!Spots(s) /\ LineMap'[m][s] = None
                /\ \A b \in Promise!Needs(s, SeatMap'[m][s]) : Promise!Fits(b)'
             \/ /\ s \in OpenSessions /\ SeatMap'[m][s] = None /\ LineMap'[m][s] \in Promise!Spots(s)
                /\ \E b \in Promise!Needs(s, LineMap'[m][s]) : Promise!Full(b)'
  <2>1. /\ SeatMap'[m][s] # None <=> identity'[m][s].status = "pass"
        /\ LineMap'[m][s] # None <=> identity'[m][s].status = "waitlisted"
        /\ {SeatMap'[m][s], LineMap'[m][s]} \subseteq Promise!Spots(s) \cup {None}
    BY <1>2 DEF Bridge, Promise!Spots
  <2>2. identity'[m][s].status \in {"pass", "waitlisted"} => s \in OpenSessions
    BY <1>1, <1>3 DEF IndInv, GoodBooks, Placed, Books
  <2>3. CASE identity'[m][s].status = "pass"
    <3>1. Promise!Needs(s, SeatMap'[m][s]) \subseteq Bucket
      BY <2>1, <2>3, SpotsAre
    <3>2. \A k \in Bucket : Promise!Fits(k)'
      BY <1>2 DEF Bridge
    <3> QED BY <2>1, <2>2, <2>3, <3>1, <3>2
  <2>4. CASE identity'[m][s].status = "waitlisted"
    <3>1. PICK k \in {Activity, s, identity'[m][s].asked} \cap Bucket : FullAt(Books, k)'
      BY <1>1, <2>4 DEF Awaits
    <3>2. Promise!Full(k)'
      BY <1>2, <3>1 DEF Bridge
    <3>3. LineMap'[m][s] = SpotOf(s, identity'[m][s].asked)
      BY <2>4 DEF LineMap, LineOf
    <3>4. k \in Promise!Needs(s, LineMap'[m][s])
      BY <3>1, <3>3, Kinds DEF Promise!Needs, SpotOf
    <3> QED BY <2>1, <2>2, <2>4, <3>2, <3>4
  <2> QED BY <2>1, <2>3, <2>4
<1>9. ahead' = Promise!Left((ahead \cap (others \X others)) \cup (others \X {m}))
  BY <1>1, <1>2 DEF Bridge, Promise!Left, StillWaiting
<1> QED
  BY <1>3, <1>4, <1>5, <1>7, <1>8, <1>9 DEF Promise!Enter

\* Who goes leaves nothing; who gets a seat was first in its line.
LEMMA Goes ==
  ASSUME IndInv, IndInv', NEW m \in Member, NEW status, NEW c, NEW b,
         ClosedFrom(m, status, c),
         \A n \in Member, s \in Session : b.identity[n][s] = c.identity[n][s] \/ Promoted(c, b, n, s),
         identity' = b.identity, ahead' = StillWaiting(ahead, b.identity),
         UNCHANGED <<capacity, scheduled, phase>>
  PROVE  Promise!Exit(m)
<1>1. Bridge /\ Bridge'
  BY BridgeHolds, BridgeNext
<1>2. SeatMap' \in Promise!Where /\ LineMap' \in Promise!Where
  BY <1>1 DEF Bridge, Promise!Where
<1>3. ASSUME NEW n \in Member, NEW s \in Session
      PROVE  /\ SeatMap[n][s] # None <=> identity[n][s].status = "pass"
             /\ LineMap[n][s] # None <=> identity[n][s].status = "waitlisted"
             /\ SeatMap'[n][s] # None <=> identity'[n][s].status = "pass"
             /\ LineMap'[n][s] # None <=> identity'[n][s].status = "waitlisted"
  BY <1>1 DEF Bridge
<1>4. \A s \in Session : c.identity[m][s].status \notin {"pass", "waitlisted"}
                         /\ b.identity[m][s] = c.identity[m][s]
  BY DEF ClosedFrom, Promoted
<1>5. \A n \in Member \ {m}, s \in Session : c.identity[n][s] = identity[n][s]
  BY DEF ClosedFrom
<1>6. SeatMap'[m] = Promise!Nowhere /\ LineMap'[m] = Promise!Nowhere
  <2>1. \A s \in Session : SeatMap'[m][s] = None /\ LineMap'[m][s] = None
    BY <1>3, <1>4
  <2>2. SeatMap'[m] \in [Session -> Bucket \cup {None}] /\ LineMap'[m] \in [Session -> Bucket \cup {None}]
    BY <1>2 DEF Promise!Where
  <2> QED BY <2>1, <2>2, AllNone DEF Promise!Nowhere
<1>7. ASSUME NEW n \in Member, NEW s \in Session, identity'[n][s] = identity[n][s]
      PROVE  Promise!Stays(n, s)
  BY <1>7 DEF Promise!Stays, SeatMap, LineMap, SeatOf, LineOf
<1>8. ASSUME NEW n \in Member \ {m}, NEW s \in Session, Promoted(c, b, n, s)
      PROVE  Promise!Follows(n, s)
  <2>1. /\ identity[n][s].status = "waitlisted" /\ identity'[n][s].status = "pass"
        /\ identity'[n][s].position = identity[n][s].asked
    BY <1>5, <1>8 DEF Promoted
  <2>2. /\ LineMap[n][s] = SpotOf(s, identity[n][s].asked) /\ LineMap[n][s] # None
        /\ SeatMap'[n][s] = LineMap[n][s] /\ LineMap'[n][s] = None
    BY <1>3, <2>1 DEF LineMap, LineOf, SeatMap, SeatOf
  <2>3. \A k \in Promise!Needs(s, SeatMap'[n][s]) : Promise!Fits(k)'
    <3>1. SeatMap'[n][s] \in Promise!Spots(s)
      BY <2>1, <2>2, SpotsAre, Start DEF IdentityFits
    <3>2. \A k \in Bucket : Promise!Fits(k)'
      BY <1>1 DEF Bridge
    <3> QED BY <3>1, <3>2, SpotsAre
  <2>4. ASSUME NEW o \in Member \ {n}
        PROVE  /\ SeatMap'[o][s] \in {SeatMap[o][s], None}
               /\ LineMap'[o][s] = LineMap[n][s] => <<n, o>> \in ahead
    <3>1. b.identity[o][s] = c.identity[o][s]
      BY <1>8 DEF Promoted
    <3>2. CASE o = m
      <4>1. SeatMap'[m][s] = None /\ LineMap'[m][s] = None
        BY <1>3, <1>4
      <4> QED BY <2>2, <3>2, <4>1
    <3>3. CASE o # m
      <4>1. identity'[o][s] = identity[o][s] /\ c.identity[o][s] = identity[o][s]
        BY <1>5, <3>1, <3>3
      <4>2. SeatMap'[o][s] = SeatMap[o][s] /\ LineMap'[o][s] = LineMap[o][s]
        BY <1>7, <4>1 DEF Promise!Stays
      <4>3. ASSUME LineMap'[o][s] = LineMap[n][s] PROVE <<n, o>> \in ahead
        <5>1. identity[o][s].status = "waitlisted"
          BY <1>3, <2>2, <4>2, <4>3
        <5>2. SpotOf(s, identity[o][s].asked) = SpotOf(s, identity[n][s].asked)
          BY <2>2, <4>2, <4>3, <5>1 DEF LineMap, LineOf
        <5>3. identity[o][s].asked = identity[n][s].asked
          BY <5>2, SpotsAre, Start DEF IdentityFits
        <5>4. c.identity[n][s] = identity[n][s]
          BY <1>5
        <5> QED BY <1>8, <4>1, <5>1, <5>3, <5>4 DEF Promoted
      <4> QED BY <4>2, <4>3
    <3> QED BY <3>2, <3>3
  <2>5. LineMap'[n][s] # LineMap[n][s]
    BY <2>2
  <2> QED BY <2>2, <2>3, <2>4, <2>5 DEF Promise!Follows
<1>9. \A n \in Member \ {m}, s \in Session : Promise!Stays(n, s) \/ Promise!Follows(n, s)
  BY <1>5, <1>7, <1>8
<1>10. ahead' = Promise!Left(ahead)
  BY <1>1 DEF Bridge, Promise!Left, StillWaiting
<1>11. UNCHANGED <<capacity, OpenSessions>>
  BY DEF OpenSessions
<1> QED
  BY <1>2, <1>6, <1>9, <1>10, <1>11 DEF Promise!Exit

LEMMA CancelExits ==
  ASSUME IndInv, NEW m \in Member, Cancel(m)
  PROVE  Promise!Exit(m)
<1>1. PICK c, b : CancelDoes(m, c, b)
  BY CancelIs
<1>2. /\ ClosedFrom(m, "cancelled", c)
      /\ \A n \in Member, s \in Session :
            b.identity[n][s] = c.identity[n][s] \/ Promoted(c, b, n, s)
  BY <1>1, CancelResult DEF CancelLeaves
<1>3. /\ identity' = b.identity /\ ahead' = StillWaiting(ahead, b.identity)
      /\ UNCHANGED <<capacity, scheduled, phase>>
  BY <1>1 DEF CancelDoes, Commit
<1>4. IndInv'
  BY <1>1, CancelKeeps
<1> QED BY <1>2, <1>3, <1>4, Goes

LEMMA RejectExits ==
  ASSUME IndInv, NEW m \in Member, Reject(m)
  PROVE  Promise!Exit(m)
<1> DEFINE c == GivenBack(Books, m, In(m, {"pass"}), Close(m, Going(m), "rejected"))
<1>1. /\ identity' = c.identity /\ ahead' = StillWaiting(ahead, c.identity)
      /\ UNCHANGED <<capacity, scheduled, phase>>
  BY DEF Reject, GivenBack, Going, Commit
<1>2. ClosedFrom(m, "rejected", c)
  BY Closing
<1>3. IndInv'
  BY RejectKeeps
<1> HIDE DEF c
<1> QED BY <1>1, <1>2, <1>3, Goes

\* Identities end in some sessions; nobody waits there any more, nobody sits elsewhere.
LEMMA EndedMaps ==
  ASSUME NEW sessions, Ended(identity', sessions)
  PROVE  \A n \in Member, s \in Session :
            /\ SeatMap'[n][s] = SeatMap[n][s]
            /\ LineMap'[n][s] = IF s \in sessions THEN None ELSE LineMap[n][s]
<1> SUFFICES ASSUME NEW n \in Member, NEW s \in Session
             PROVE  /\ SeatMap'[n][s] = SeatMap[n][s]
                    /\ LineMap'[n][s] = IF s \in sessions THEN None ELSE LineMap[n][s]
  OBVIOUS
<1>1. \/ identity'[n][s] = identity[n][s] /\ ~ (s \in sessions /\ identity[n][s].status \in Open)
      \/ /\ s \in sessions /\ identity[n][s].status \in Open
         /\ identity'[n][s].status = "cancelled"
  BY DEF Ended
<1>2. /\ SeatMap[n][s] = SeatOf(n, s) /\ LineMap[n][s] = LineOf(n, s)
      /\ SeatMap'[n][s] = SeatOf(n, s)' /\ LineMap'[n][s] = LineOf(n, s)'
  BY DEF SeatMap, LineMap
<1> QED BY <1>1, <1>2 DEF SeatOf, LineOf, Open

LEMMA SameTable ==
  ASSUME NEW S, NEW f \in [Member -> [Session -> S]], NEW g \in [Member -> [Session -> S]],
         \A n \in Member, s \in Session : g[n][s] = f[n][s]
  PROVE  g = f
<1>1. ASSUME NEW n \in Member PROVE g[n] = f[n]
  <2>1. f[n] \in [Session -> S] /\ g[n] \in [Session -> S]
    OBVIOUS
  <2> QED BY <2>1
<1> QED BY <1>1

LEMMA CancelSessionCloses ==
  ASSUME IndInv, NEW s \in Session, CancelSession(s)
  PROVE  Promise!Close(s)
<1>1. IndInv' /\ Bridge /\ Bridge'
  BY CancelSessionKeeps, BridgeHolds, BridgeNext
<1>2. /\ identity' = End({s}) /\ ahead' = StillWaiting(ahead, identity')
      /\ scheduled' = scheduled \ {s} /\ s \in scheduled /\ phase = "published"
      /\ Projects(scheduled \ {s}) /\ UNCHANGED <<capacity, phase>>
  BY DEF CancelSession
<1>3. /\ SeatMap \in Promise!Where /\ LineMap \in Promise!Where
      /\ SeatMap' \in Promise!Where /\ LineMap' \in Promise!Where
  BY <1>1 DEF Bridge, Promise!Where
<1>4. \A n \in Member, t \in Session :
         /\ SeatMap'[n][t] = SeatMap[n][t]
         /\ LineMap'[n][t] = IF t \in {s} THEN None ELSE LineMap[n][t]
  BY <1>2, Ending, EndedMaps
<1>5. \A m \in Member : SeatMap[m][s] = None
  <2>1. s \in Bucket /\ s \notin {Activity} \cup (scheduled \ {s}) \cup
                              UNION {Offered[t] : t \in scheduled \ {s}}
    BY Kinds, Start DEF Frame
  <2>2. At(s) = {}
    BY <1>2, <2>1, EmptyBucket DEF Projects
  <2> QED BY <1>1, <2>2 DEF Bridge, At
<1>6. OpenSessions = scheduled /\ OpenSessions' = OpenSessions \ {s}
  BY <1>2 DEF OpenSessions
<1>7. SeatMap' = SeatMap
  BY <1>3, <1>4, SameTable DEF Promise!Where
<1>8. LineMap' = [m \in Member |-> [LineMap[m] EXCEPT ![s] = None]]
  <2> DEFINE g == [m \in Member |-> [LineMap[m] EXCEPT ![s] = None]]
  <2>1. \A m \in Member : LineMap[m] \in [Session -> Bucket \cup {None}]
    BY <1>3 DEF Promise!Where
  <2>2. g \in Promise!Where /\ \A m \in Member, t \in Session :
           g[m][t] = IF t \in {s} THEN None ELSE LineMap[m][t]
    BY <2>1 DEF Promise!Where
  <2> HIDE DEF g
  <2>3. LineMap' = g
    BY <1>3, <1>4, <2>2, SameTable DEF Promise!Where
  <2> QED BY <2>3 DEF g
<1>9. ahead' = Promise!Left(ahead)
  BY <1>1, <1>2 DEF Bridge, Promise!Left, StillWaiting
<1> QED
  BY <1>2, <1>5, <1>6, <1>7, <1>8, <1>9 DEF Promise!Close

LEMMA CancelActivityCallsOff ==
  ASSUME IndInv, CancelActivity
  PROVE  Promise!CallOff
<1>1. IndInv' /\ Bridge /\ Bridge'
  BY CancelActivityKeeps, BridgeHolds, BridgeNext
<1>2. /\ identity' = End(Session) /\ ahead' = StillWaiting(ahead, identity')
      /\ phase' = "cancelled" /\ UNCHANGED capacity
  BY DEF CancelActivity
<1>3. \A n \in Member, t \in Session :
         SeatMap'[n][t] = SeatMap[n][t] /\ LineMap'[n][t] = None
  BY <1>2, Ending, EndedMaps
<1>4. SeatMap' = SeatMap
  BY <1>1, <1>3, SameTable DEF Bridge, Promise!Where
<1>5. LineMap' = [m \in Member |-> Promise!Nowhere]
  <2>1. LineMap' \in [Member -> [Session -> Bucket \cup {None}]]
    BY <1>1 DEF Bridge, Promise!Where
  <2>2. \A m \in Member : LineMap'[m] = Promise!Nowhere
    BY <1>3, <2>1, AllNone DEF Promise!Nowhere
  <2> QED BY <2>1, <2>2
<1>6. ahead' = {}
  <2>1. \A n \in Member, t \in Session : identity'[n][t].status # "waitlisted"
    BY <1>1, <1>3 DEF Bridge
  <2> QED BY <1>2, <2>1 DEF StillWaiting, Waiters
<1>7. OpenSessions' = {}
  BY <1>2 DEF OpenSessions
<1> QED
  BY <1>2, <1>4, <1>5, <1>6, <1>7 DEF Promise!CallOff

LEMMA ResizeResizes ==
  ASSUME IndInv, NEW b \in Bucket, NEW limit \in Limits[b], Resize(b, limit)
  PROVE  Promise!Resize
<1>1. Bridge'
  BY ResizeKeeps, BridgeNext
<1>2. UNCHANGED <<SeatMap, LineMap, ahead, OpenSessions>>
  BY DEF Resize, SeatMap, LineMap, SeatOf, LineOf, OpenSessions
<1>3. capacity' = [capacity EXCEPT ![b] = limit] /\ capacity[b] # limit
  BY DEF Resize
<1>4. capacity'[b] = limit
  <2>1. DOMAIN capacity = Bucket
    BY DEF IndInv, Frame
  <2> QED BY <1>3, <2>1
<1>5. capacity' # capacity
  BY <1>3, <1>4
<1>6. Promise!Fits(b)'
  BY <1>1 DEF Bridge
<1> QED
  BY <1>2, <1>3, <1>5, <1>6 DEF Promise!Resize

\* The other commands are not seen.
LEMMA Unseen ==
  ASSUME UNCHANGED <<ahead, capacity, scheduled, phase>>,
         \A m \in Member, s \in Session :
            \/ identity'[m][s] = identity[m][s]
            \/ {identity[m][s].status, identity'[m][s].status} \cap {"pass", "waitlisted"} = {}
  PROVE  UNCHANGED Promise!vars
<1>1. \A m \in Member, s \in Session : SeatOf(m, s)' = SeatOf(m, s) /\ LineOf(m, s)' = LineOf(m, s)
  BY DEF SeatOf, LineOf
<1>2. SeatMap' = SeatMap /\ LineMap' = LineMap
  BY <1>1 DEF SeatMap, LineMap
<1> QED BY <1>2 DEF Promise!vars, OpenSessions

LEMMA StepMaps == IndInv /\ [Next]_vars => [Promise!Next]_Promise!vars
<1> SUFFICES ASSUME IndInv, [Next]_vars PROVE Promise!Next \/ UNCHANGED Promise!vars
  OBVIOUS
<1>1. ASSUME NEW m \in Member, Submit(m) PROVE Promise!Next
  BY <1>1, SubmitEnters DEF Promise!Next
<1>2. ASSUME NEW m \in Member, Cancel(m) \/ Reject(m) PROVE Promise!Next
  BY <1>2, CancelExits, RejectExits DEF Promise!Next
<1>3. ASSUME NEW m \in Member, Approve(m) \/ Leave(m) \/ Return(m) PROVE UNCHANGED Promise!vars
  BY <1>3, Unseen DEF Approve, Leave, Return
<1>4. ASSUME NEW m \in Member, Reopen(m) PROVE UNCHANGED Promise!vars
  <2>1. \A n \in Member, s \in Session :
           \/ identity'[n][s] = identity[n][s]
           \/ {identity[n][s].status, identity'[n][s].status} \cap {"pass", "waitlisted"} = {}
    BY <1>4, Start DEF Reopen, Revise
  <2> QED BY <1>4, <2>1, Unseen DEF Reopen
<1>5. ASSUME NEW s \in Session, CancelSession(s) PROVE Promise!Next
  BY <1>5, CancelSessionCloses DEF Promise!Next
<1>6. ASSUME NEW b \in Bucket, NEW limit \in Limits[b], Resize(b, limit) PROVE Promise!Next
  BY <1>6, ResizeResizes DEF Promise!Next
<1>7. CASE CancelActivity
  BY <1>7, CancelActivityCallsOff DEF Promise!Next
<1>8. CASE UNCHANGED vars
  BY <1>8, Unseen DEF vars
<1> QED
  BY <1>1, <1>2, <1>3, <1>4, <1>5, <1>6, <1>7, <1>8 DEF Next

LEMMA InitMaps == Init => Promise!Init
<1> SUFFICES ASSUME Init PROVE Promise!Init
  OBVIOUS
<1>1. \A m \in Member, s \in Session : SeatOf(m, s) = None /\ LineOf(m, s) = None
  BY DEF Init, Absent, SeatOf, LineOf
<1>2. /\ SeatMap = [m \in Member |-> Promise!Nowhere]
      /\ LineMap = [m \in Member |-> Promise!Nowhere]
  BY <1>1 DEF SeatMap, LineMap, Promise!Nowhere
<1> QED BY <1>2 DEF Init, Promise!Init, OpenSessions

\* Whichever of the nine commands writes the five copies: a seat is lost only by its
\* holder's going, is got by one's own submission or from the head of the line, the
\* limits hold for people, and nobody is made to wait for free seats.
THEOREM Refinement == Spec => ImplementsFirstCome
  BY InitMaps, StepMaps, Always, PTL DEF Spec, ImplementsFirstCome, Promise!Spec
=============================================================================
