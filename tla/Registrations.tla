--------------------------- MODULE Registrations ---------------------------
(***************************************************************************)
(* One published activity that seats its members first come, first served. *)
(*                                                                         *)
(* A member's registration is a header and, per session, a permanent       *)
(* identity with a pointer row and immutable revisions.  A seat is a set   *)
(* of capacity reservations: one of the activity, one of the session and   *)
(* one of the position, each counted by a bucket.  The header, the         *)
(* identity, its revision, the reservations and the counters are five      *)
(* copies of one fact, written by six commands; every command locks the    *)
(* activity's row first, so that it is one action here, and compares the   *)
(* copies before it writes: a difference refuses the command.              *)
(*                                                                         *)
(* A line is ordered by acceptedAt, the time in milliseconds of whichever  *)
(* process took the submission, and by the identity's id where two are the *)
(* same.  The model assumes one clock and no ties, so that the order is    *)
(* that in which submissions have the activity's row.                      *)
(***************************************************************************)
EXTENDS Naturals, Sequences, FiniteSets, SequencesExt

CONSTANTS
    Member,
    Activity,      \* the bucket of the whole activity
    SessionOrder,  \* the sessions, in the order of their ids
    Offered,       \* Offered[s]: the positions of session s
    Lists,         \* Lists[s]: the preferences a submission may name in session s
    Limits,        \* Limits[b]: the capacities b may be given; None is no limit
    MaxAway,       \* how many members are inactive at a time
    None

Session == Range(SessionOrder)
Position == UNION {Offered[s] : s \in Session}
Bucket == {Activity} \cup Session \cup Position

ASSUME SessionAssumption == SessionOrder \in Seq(Session) /\ IsInjective(SessionOrder)
ASSUME BucketAssumption ==
    /\ Activity \notin Session \cup Position
    /\ Session \cap Position = {}
    /\ None \notin Bucket
    /\ \A s, t \in Session : s # t => Offered[s] \cap Offered[t] = {}
ASSUME ListAssumption == \A s \in Session : \A list \in Lists[s] :
    /\ list \in Seq(Offered[s]) /\ IsInjective(list)
    /\ list = <<>> <=> Offered[s] = {}
ASSUME LimitAssumption == \A b \in Bucket : Limits[b] \subseteq Nat \cup {None}
ASSUME AwayAssumption == MaxAway \in Nat

VARIABLES
    header,     \* header[m]: the status of m's registration
    identity,   \* identity[m][s]: m's participation in s, with its current revision
    active,     \* the active reservations
    occupied,   \* occupied[b]: the counter of bucket b
    capacity,   \* capacity[b]: the limit of bucket b
    ahead,      \* <<m, n>>: both wait, and m was accepted before n
    scheduled,  \* the sessions not cancelled
    live,       \* the members who are active
    phase       \* of the activity

vars == <<header, identity, active, occupied, capacity, ahead, scheduled, live, phase>>

Header == {"none", "pending", "pass", "waitlisted", "cancelled", "reject"}
Status == {"none", "pending", "pass", "waitlisted", "cancelled", "rejected"}
Open == {"pending", "waitlisted"}
Choice == Position \cup {None}

\* An identity: its pointers (status, position, seat: the session reservation)
\* and its current revision (asked: the position in it; won: it is a pass with
\* the key of a submission, not one of a promotion; freed: the revision before
\* it was such a pass).
Identity == [status: Status, position: Choice, seat: BOOLEAN,
             asked: Choice, won: BOOLEAN, freed: BOOLEAN]

\* A reservation of a bucket, held for one identity of the member.
Reservation == [bucket: Bucket, member: Member, session: Session]

\* What a command works on before it commits.
Books == [identity |-> identity, active |-> active, occupied |-> occupied]

Absent == [status |-> "none", position |-> None, seat |-> FALSE,
           asked |-> None, won |-> FALSE, freed |-> FALSE]

Init ==
    /\ header = [m \in Member |-> "none"]
    /\ identity = [m \in Member |-> [s \in Session |-> Absent]]
    /\ active = {}
    /\ occupied = [b \in Bucket |-> 0]
    /\ \E pick \in [Bucket -> UNION {Limits[b] : b \in Bucket}] :
           /\ \A b \in Bucket : pick[b] \in Limits[b]
           /\ capacity = pick
    /\ ahead = {}
    /\ scheduled = Session
    /\ live = Member
    /\ phase = "published"

(***************************************************************************)
(* Capacity: reserving and releasing.                                      *)
(***************************************************************************)
Held(books, m) == {r \in books.active : r.member = m}
SeatsOf(books, m) == {r \in Held(books, m) : r.bucket \in Session}
Persons(books, m) == {r \in Held(books, m) : r.bucket = Activity}
Holds(books, m, s, b) == [bucket |-> b, member |-> m, session |-> s] \in books.active

\* The counters and the shape of m's reservations, as every call checks them.
Reconciled(books, m) ==
    /\ \A b \in Bucket : books.occupied[b] = Cardinality({r \in books.active : r.bucket = b})
    /\ Cardinality(Persons(books, m)) = (IF SeatsOf(books, m) = {} THEN 0 ELSE 1)
    /\ \A r \in SeatsOf(books, m) : r.bucket = r.session
    /\ \A r \in Held(books, m) : r.bucket \in Position =>
           Holds(books, m, r.session, r.session) /\ r.bucket \in Offered[r.session]
    /\ \A q, r \in Held(books, m) :
           q.bucket \in Position /\ r.bucket \in Position /\ q.session = r.session => q = r

\* The buckets a seat of m at position p of s still needs a reservation of.
Missing(books, m, s, p) ==
    {b \in {s, p} \cap Bucket : ~ Holds(books, m, s, b)}
        \cup (IF Holds(books, m, s, s) \/ Persons(books, m) # {} THEN {} ELSE {Activity})

\* mutant: the limit may be passed by one
FitsLoosely(books, wanted) ==
    \A b \in wanted : capacity[b] = None \/ books.occupied[b] <= capacity[b]

Fits(books, wanted) ==
    \A b \in wanted : capacity[b] = None \/ books.occupied[b] + 1 <= capacity[b]

Reserve(books, m, s, p) ==
    LET wanted == Missing(books, m, s, p)
    IN  [books EXCEPT
            !.active = @ \cup {[bucket |-> b, member |-> m, session |-> s] : b \in wanted},
            !.occupied = [b \in Bucket |-> @[b] + (IF b \in wanted THEN 1 ELSE 0)]]

\* What goes when the seats of m at the given sessions do: the person too when
\* no other session keeps a seat.
Released(books, m, sessions) ==
    LET gone == {r \in Held(books, m) : r.bucket # Activity /\ r.session \in sessions}
        rest == {r \in SeatsOf(books, m) : r.session \notin sessions}
    IN  IF gone # {} /\ rest = {} THEN gone \cup Persons(books, m) ELSE gone

\* mutant: the counters follow the request, not the rows it released
ReleaseAsAsked(books, m, sessions) ==
    [books EXCEPT
        !.active = @ \ Released(books, m, sessions),
        !.occupied = [b \in Bucket |-> IF b \in sessions THEN @[b] - 1 ELSE @[b]]]

Release(books, m, sessions) ==
    LET gone == Released(books, m, sessions)
    IN  [books EXCEPT
            !.active = @ \ gone,
            !.occupied = [b \in Bucket |-> @[b] - Cardinality({r \in gone : r.bucket = b})]]

(***************************************************************************)
(* Identities and headers.                                                 *)
(***************************************************************************)
Sessions(m) == {s \in Session : identity[m][s].status # "none"}
In(m, statuses) == {s \in Session : identity[m][s].status \in statuses}

\* The pointers of m's identities agree with m's reservations.
PointersAgree(m) ==
    /\ Reconciled(Books, m)
    /\ \A s \in Sessions(m) :
        LET i == identity[m][s] IN
        /\ (i.status = "pass") = i.seat
        /\ i.status # "pass" => i.position = None
        /\ i.seat = Holds(Books, m, s, s)
        /\ {r.bucket : r \in {q \in Held(Books, m) : q.session = s /\ q.bucket \in Position}}
               = {i.position} \ {None}

\* They agree with the revisions: a closed identity keeps the position it had.
RevisionAgrees(i) == i.status \notin {"cancelled", "rejected"} => i.asked = i.position
RevisionsAgree(m) == \A s \in Sessions(m) : RevisionAgrees(identity[m][s])

\* The next revision of an identity, and its pointers.
Revise(i, status, position, asked, won) ==
    [status |-> status, position |-> position, seat |-> (status = "pass"),
     asked |-> asked, won |-> won, freed |-> (status = "cancelled" /\ i.won)]

\* mutant: a place in a line weighs more than a seat
HeaderByLine(statuses) ==
    IF "pending" \in statuses THEN "pending"
    ELSE IF "waitlisted" \in statuses THEN "waitlisted"
    ELSE IF "pass" \in statuses THEN "pass" ELSE "reject"

\* The header an allocation writes; statuses are those of all the identities.
HeaderAfterAllocation(statuses) ==
    IF "pass" \in statuses THEN "pass"
    ELSE IF "pending" \in statuses THEN "pending"
    ELSE IF "waitlisted" \in statuses THEN "waitlisted" ELSE "reject"

\* The header a cancellation of a session or of the activity derives.
HeaderSummary(statuses) ==
    IF statuses \cap {"pass", "pending", "waitlisted"} # {} THEN HeaderAfterAllocation(statuses)
    ELSE IF "cancelled" \in statuses THEN "cancelled" ELSE "reject"

StatusesOf(identities) == {identities[s].status : s \in Session} \ {"none"}

\* Who waits somewhere, and what their identities leave of an order of waiters.
Waiters(all) == {m \in Member : \E s \in Session : all[m][s].status = "waitlisted"}
StillWaiting(order, all) == order \cap (Waiters(all) \X Waiters(all))

Commit(books) ==
    /\ identity' = books.identity
    /\ active' = books.active
    /\ occupied' = books.occupied

(***************************************************************************)
(* Submission.                                                             *)
(***************************************************************************)
\* What a submission may name: some sessions, and a list in each.
Wishes == UNION {{w \in [chosen -> UNION {Lists[s] : s \in Session}] :
                      \A s \in chosen : w[s] \in Lists[s]} : chosen \in SUBSET Session}

\* The revision a submission appends to each identity before seats are given.
Submitted(m, chosen) ==
    [s \in Session |->
        LET i == identity[m][s] IN
        IF s \in chosen THEN Revise(i, "pending", None, None, FALSE)
        ELSE IF i.status \in Open THEN Revise(i, "cancelled", None, None, FALSE) ELSE i]

\* The first position of the list that fits, or a place in the line of the first.
Seat(books, m, s, list) ==
    LET tries == IF list = <<>> THEN <<None>> ELSE list
        free == {k \in 1 .. Len(tries) : Fits(books, Missing(books, m, s, tries[k]))}
        i == books.identity[m][s]
    IN  IF free = {}
        THEN [books EXCEPT !.identity[m][s] = Revise(i, "waitlisted", None, tries[1], FALSE)]
        ELSE LET p == tries[CHOOSE k \in free : \A j \in free : k <= j]
             IN  [Reserve(books, m, s, p) EXCEPT
                     !.identity[m][s] = Revise(i, "pass", p, p, TRUE)]

\* What m's submission of a wish makes of the books.
Seated(m, wish) ==
    FoldLeft(LAMBDA books, s : IF s \in DOMAIN wish THEN Seat(books, m, s, wish[s]) ELSE books,
             [Books EXCEPT !.identity[m] = Submitted(m, DOMAIN wish)], SessionOrder)

Submit(m) ==
    /\ phase = "published" /\ m \in live
    /\ header[m] \in {"none", "pending", "waitlisted", "cancelled", "reject"}
    /\ PointersAgree(m) /\ RevisionsAgree(m)
    /\ In(m, {"pass"}) = {}
    /\ \E wish \in Wishes :
        LET books == Seated(m, wish) IN
        /\ DOMAIN wish \subseteq scheduled
        /\ DOMAIN wish = {} => Position = {}
        /\ Commit(books)
        /\ header' = [header EXCEPT ![m] =
               IF DOMAIN wish = {} THEN "pending"
               ELSE HeaderAfterAllocation(StatusesOf(books.identity[m]))]
        /\ ahead' = LET others == Member \ {m}
                    IN  StillWaiting((ahead \cap (others \X others)) \cup (others \X {m}),
                                     books.identity)
    /\ UNCHANGED <<capacity, scheduled, live, phase>>

(***************************************************************************)
(* Cancellation of a registration, and the promotion from the line.        *)
(***************************************************************************)
\* mutant: one cancellation serves one queue
FreedOnce(books, m) ==
    LET freed == {s \in Session : books.identity[m][s].status = "cancelled"
                                  /\ books.identity[m][s].freed}
    IN  IF freed = {} THEN {} ELSE {CHOOSE s \in freed : TRUE}

\* The cancelled seats the promotion serves: the ones a submission had won.
Freed(books, m) ==
    {s \in Session : books.identity[m][s].status = "cancelled"
                     /\ books.identity[m][s].freed}

\* mutant: whoever waits in the session gets the seat, at whichever position
QueueOfSession(books, s, p) == {n \in Member : books.identity[n][s].status = "waitlisted"}

\* Who waits for one position of one session (None: a session without positions).
Queue(books, s, p) ==
    {n \in Member : books.identity[n][s].status = "waitlisted" /\ books.identity[n][s].asked = p}

\* mutant: the queue is read from its end
QueueFromEnd(books, s, p) ==
    {n \in Queue(books, s, p) : \A o \in Queue(books, s, p) \ {n} : <<o, n>> \in ahead}

\* Its head, as a set that is empty when nobody waits.
NextInLine(books, s, p) ==
    {n \in Queue(books, s, p) : \A o \in Queue(books, s, p) \ {n} : <<n, o>> \in ahead}

\* The head gets the seat if it fits; nobody further back is tried.
Promote(books, s, p) ==
    LET next == {n \in NextInLine(books, s, p) \cap live : Fits(books, Missing(books, n, s, p))}
        n == CHOOSE n \in next : TRUE
    IN  IF next = {} THEN books
        ELSE [Reserve(books, n, s, p) EXCEPT !.identity[n][s] = Revise(@, "pass", p, p, FALSE)]

PromoteAfterCancellation(books, m) ==
    FoldLeft(LAMBDA b, s : IF s \in Freed(books, m)
                           THEN Promote(b, s, books.identity[m][s].asked) ELSE b,
             books, SessionOrder)

\* mutant: the pointer keeps the position of the cancelled seat
CloseInPlace(m, sessions, status) ==
    [s \in Session |->
        LET i == identity[m][s] IN
        IF s \in sessions THEN Revise(i, status, i.position, i.position, FALSE) ELSE i]

\* A closed identity: the revision keeps the position, the pointer loses it.
Close(m, sessions, status) ==
    [s \in Session |->
        LET i == identity[m][s] IN
        IF s \in sessions THEN Revise(i, status, None, i.position, FALSE) ELSE i]

Cancel(m) ==
    LET going == In(m, {"pending", "waitlisted", "pass"})
        closed == [Release(Books, m, going) EXCEPT !.identity[m] = Close(m, going, "cancelled")]
        books == IF header[m] = "pass" THEN PromoteAfterCancellation(closed, m) ELSE closed
    IN  /\ header[m] \in {"pending", "pass", "waitlisted"}
        /\ PointersAgree(m) /\ RevisionsAgree(m)
        /\ Commit(books)
        /\ header' = [n \in Member |->
               IF n = m THEN "cancelled"
               ELSE IF books.identity[n] # identity[n]
                    THEN HeaderAfterAllocation(StatusesOf(books.identity[n])) ELSE header[n]]
        /\ ahead' = StillWaiting(ahead, books.identity)
        /\ UNCHANGED <<capacity, scheduled, live, phase>>

(***************************************************************************)
(* Review.                                                                 *)
(***************************************************************************)
\* Approval moves the header only; it counts headers, not reservations.
Approve(m) ==
    /\ phase = "published" /\ m \in live
    /\ header[m] = "pending"
    /\ capacity[Activity] # None =>
           Cardinality({n \in Member : header[n] = "pass"}) < capacity[Activity]
    /\ header' = [header EXCEPT ![m] = "pass"]
    /\ UNCHANGED <<identity, active, occupied, capacity, ahead, scheduled, live, phase>>

Reject(m) ==
    LET going == In(m, {"pending", "waitlisted", "pass"})
        books == [Release(Books, m, In(m, {"pass"})) EXCEPT
                     !.identity[m] = Close(m, going, "rejected")]
    IN  /\ header[m] \in {"pending", "waitlisted"}
        /\ PointersAgree(m) /\ RevisionsAgree(m)
        /\ Commit(books)
        /\ header' = [header EXCEPT ![m] = "reject"]
        /\ ahead' = StillWaiting(ahead, books.identity)
        /\ UNCHANGED <<capacity, scheduled, live, phase>>

Reopen(m) ==
    /\ header[m] = "reject"
    /\ PointersAgree(m) /\ RevisionsAgree(m)
    /\ In(m, {"pending", "pass", "waitlisted"}) = {}
    /\ identity' = [identity EXCEPT ![m] = [s \in Session |->
           LET i == identity[m][s] IN
           IF i.status = "rejected" THEN Revise(i, "pending", None, None, FALSE) ELSE i]]
    /\ header' = [header EXCEPT ![m] = "pending"]
    /\ UNCHANGED <<active, occupied, capacity, ahead, scheduled, live, phase>>

(***************************************************************************)
(* The organiser: sessions, capacities, the whole activity.                *)
(***************************************************************************)
\* Every bucket counts its reservations, and one without a target is empty.
Projects(sessions) ==
    \A b \in Bucket :
        /\ occupied[b] = Cardinality({r \in active : r.bucket = b})
        /\ b \notin {Activity} \cup sessions \cup UNION {Offered[s] : s \in sessions} =>
               occupied[b] = 0

\* Unresolved identities end; the position they asked for stays in the revision.
End(sessions) ==
    [m \in Member |-> [s \in Session |->
        LET i == identity[m][s] IN
        IF s \in sessions /\ i.status \in Open
        THEN Revise(i, "cancelled", None, i.asked, FALSE) ELSE i]]

\* The members with an identity among those, and their headers before and after.
\* A header is compared with its summary code, too; every command writes the two
\* together, so that the one tells the other.
Touched(sessions) == {m \in Member : In(m, Open) \cap sessions # {}}
HeadersTell(members) == \A m \in members : header[m] = HeaderSummary(StatusesOf(identity[m]))
Reproject(members, all) ==
    [m \in Member |-> IF m \in members THEN HeaderSummary(StatusesOf(all[m])) ELSE header[m]]

CancelSession(s) ==
    LET all == End({s}) IN
    /\ phase = "published" /\ s \in scheduled
    /\ \A m \in Member : identity[m][s].status \notin Open => RevisionAgrees(identity[m][s])
    /\ HeadersTell(Touched({s}))
    /\ Projects(scheduled \ {s})
    /\ identity' = all
    /\ header' = Reproject(Touched({s}), all)
    /\ ahead' = StillWaiting(ahead, all)
    /\ scheduled' = scheduled \ {s}
    /\ UNCHANGED <<active, occupied, capacity, live, phase>>

\* A change of the published activity gives one bucket another limit.
Resize(b, limit) ==
    /\ phase = "published"
    /\ b \in {Activity} \cup scheduled \cup UNION {Offered[s] : s \in scheduled}
    /\ capacity[b] # limit
    /\ Projects(scheduled)
    /\ limit # None => limit >= occupied[b]
    /\ capacity' = [capacity EXCEPT ![b] = limit]
    /\ UNCHANGED <<header, identity, active, occupied, ahead, scheduled, live, phase>>

CancelActivity ==
    LET all == End(Session)
        touched == Touched(Session)
        bare == {m \in Member : Sessions(m) = {} /\ header[m] \in Open}
    IN  /\ phase = "published"
        /\ HeadersTell({m \in Member : Sessions(m) # {}})
        /\ \A m \in Member : PointersAgree(m)
        /\ \A m \in Member, s \in Session :
               identity[m][s].status = "pass" => RevisionAgrees(identity[m][s])
        /\ identity' = all
        /\ header' = [m \in Member |->
               IF m \in bare THEN "cancelled" ELSE Reproject(touched, all)[m]]
        /\ ahead' = StillWaiting(ahead, all)
        /\ phase' = "cancelled"
        /\ UNCHANGED <<active, occupied, capacity, scheduled, live>>

\* A member is deactivated, or comes back; registrations are left alone.  Only a
\* waiter's absence is told: for others it means that they do not submit.
Leave(m) ==
    /\ m \in live \cap Waiters(identity) /\ Cardinality(Member \ live) < MaxAway
    /\ live' = live \ {m}
    /\ UNCHANGED <<header, identity, active, occupied, capacity, ahead, scheduled, phase>>

Return(m) ==
    /\ m \notin live
    /\ live' = live \cup {m}
    /\ UNCHANGED <<header, identity, active, occupied, capacity, ahead, scheduled, phase>>

Next ==
    \/ \E m \in Member : \/ Submit(m) \/ Cancel(m)
                         \/ Approve(m) \/ Reject(m) \/ Reopen(m)
                         \/ Leave(m) \/ Return(m)
    \/ \E s \in Session : CancelSession(s)
    \/ \E b \in Bucket : \E limit \in Limits[b] : Resize(b, limit)
    \/ CancelActivity

Spec == Init /\ [][Next]_vars

(***************************************************************************)
(* Properties.                                                             *)
(***************************************************************************)
\* ahead orders those who wait, like the submissions they wait with.
IsStrictOrder ==
    /\ \A m, n \in Waiters(identity) : m # n => <<m, n>> \in ahead \/ <<n, m>> \in ahead
    /\ \A m, n \in Member : <<m, n>> \in ahead => <<n, m>> \notin ahead
    /\ \A m, n, o \in Member : <<m, n>> \in ahead /\ <<n, o>> \in ahead => <<m, o>> \in ahead

\* Every variable keeps its type: the counters stay natural numbers, and the
\* waiters stay in a line.
TypeOK ==
    /\ header \in [Member -> Header]
    /\ identity \in [Member -> [Session -> Identity]]
    /\ active \subseteq Reservation
    /\ occupied \in [Bucket -> Nat]
    /\ DOMAIN capacity = Bucket /\ \A b \in Bucket : capacity[b] \in Limits[b]
    /\ ahead \subseteq Waiters(identity) \X Waiters(identity) /\ IsStrictOrder
    /\ scheduled \subseteq Session
    /\ live \subseteq Member
    /\ phase \in {"published", "cancelled"}

\* No bucket drifts or overflows: whatever commands ran in whatever order, a
\* counter equals the active reservations of its bucket and respects its limit,
\* and nothing is held in a session that was cancelled.
NothingIsOversold ==
    \A b \in Bucket :
        /\ occupied[b] = Cardinality({r \in active : r.bucket = b})
        /\ capacity[b] = None \/ occupied[b] <= capacity[b]
        /\ b \in Session \ scheduled => occupied[b] = 0

\* A seat is the same in all copies: whatever was submitted, closed, promoted and
\* released in whatever order, pointers, reservations and counters agree for every
\* member, and the revision of a seat names its position.  This is what calling the
\* activity off compares, so that it is never refused on their account.
SeatsAgree ==
    \A m \in Member :
        /\ PointersAgree(m)
        /\ \A s \in In(m, {"pass"}) : RevisionAgrees(identity[m][s])

\* A registration that has not ended can be cancelled ("cancel: pending|pass|waitlisted
\* -> cancelled", activity-registration-state-machine.ts): the reconciliation
\* before it refuses nobody whose copies only the commands have written.
CancelIsPossible ==
    \A m \in Member : header[m] \in {"pending", "pass", "waitlisted"} => ENABLED Cancel(m)

\* The header never hides a participation: a seat shows as a pass, a closed
\* header has no open identity and no seat under it, and a waitlisted one has
\* someone waiting.
HeaderHidesNothing ==
    \A m \in Member :
        /\ In(m, {"pass"}) # {} => header[m] = "pass"
        /\ header[m] \in {"none", "cancelled", "reject"} => In(m, Open) = {}
        /\ header[m] = "waitlisted" => In(m, {"waitlisted"}) # {}

Waits(m, s) == identity[m][s].status = "waitlisted"

\* A promotion never overtakes: the seat of a (session, position) goes to nobody
\* while a member who asked for the same earlier still waits.
NoPromotionOvertakes ==
    [][\A m, n \in Member, s \in Session :
          /\ <<m, n>> \in ahead /\ Waits(m, s) /\ Waits(n, s)
          /\ identity[m][s].asked = identity[n][s].asked
          /\ identity'[n][s].status = "pass" /\ ~ identity'[n][s].won
          => identity'[m][s].status # "waitlisted"]_vars

\* A seat won by a submission and cancelled is not left empty before its queue:
\* the first waiter of that session and position has it when the cancellation
\* commits, unless inactive, or kept out by the limit of the whole activity.
FreedSeatIsTaken ==
    [][\A m \in Member, s \in Session :
          /\ identity[m][s].status = "pass" /\ identity[m][s].won
          /\ identity'[m][s].status = "cancelled"
          => \A n \in NextInLine(Books, s, identity[m][s].position) \cap live :
                 \/ identity'[n][s].status = "pass"
                 \/ occupied'[Activity] = capacity[Activity]]_vars

(***************************************************************************)
(* What it amounts to for the people.                                      *)
(***************************************************************************)
\* Where somebody sits or waits: at a position, or in the session as such.
SpotOf(s, p) == IF p = None THEN s ELSE p
SeatOf(m, s) == LET i == identity[m][s]
                IN  IF i.status = "pass" THEN SpotOf(s, i.position) ELSE None
LineOf(m, s) == LET i == identity[m][s]
                IN  IF i.status = "waitlisted" THEN SpotOf(s, i.asked) ELSE None

SeatMap == [m \in Member |-> [s \in Session |-> SeatOf(m, s)]]
LineMap == [m \in Member |-> [s \in Session |-> LineOf(m, s)]]
OpenSessions == IF phase = "published" THEN scheduled ELSE {}

Promise == INSTANCE FirstComeSeats
    WITH seat <- SeatMap, line <- LineMap, limit <- capacity, open <- OpenSessions

\* Whatever the copies are and whichever command writes them: a seat is lost only by
\* the cancellation of its holder, is got by one's own submission or from the head
\* of the line, limits hold for people, and nobody is made to wait for free seats.
ImplementsFirstCome == Promise!Spec
=============================================================================
