--------------------------- MODULE FirstComeSeats ---------------------------
(***************************************************************************)
(* What members and organiser may rely on when an activity seats its       *)
(* members first come, first served: who sits where, who waits where, and  *)
(* in which order.  There are no headers, revisions, reservation rows or   *)
(* counters here; limits are about people.                                 *)
(***************************************************************************)
EXTENDS Naturals, FiniteSets

CONSTANTS
    Member,
    Session,
    Offered,    \* Offered[s]: the positions of session s
    Activity,
    Bucket,     \* what is limited: the activity, a session, a position
    Limits,     \* Limits[b]: the capacities b may be given; None is no limit
    None

VARIABLES
    seat,       \* seat[m][s]: where m sits in session s, None for nowhere
    line,       \* line[m][s]: where m waits to sit in session s
    ahead,      \* <<m, n>>: both wait, and m asked first
    limit,      \* limit[b]: how many people b takes
    open        \* the sessions one may still enter

vars == <<seat, line, ahead, limit, open>>

\* One sits at a position of the session, or in the session as such.
Spots(s) == Offered[s] \cup {s}
Where == [Member -> [Session -> Bucket \cup {None}]]
Nowhere == [s \in Session |-> None]

\* The buckets that a seat at a spot of session s counts in.
Needs(s, spot) == {Activity, s, spot}

People(b) == {m \in Member : \E s \in Session : seat[m][s] # None /\ b \in Needs(s, seat[m][s])}
Fits(b) == limit[b] = None \/ Cardinality(People(b)) <= limit[b]
Full(b) == limit[b] # None /\ Cardinality(People(b)) = limit[b]

\* What is left of an order of those who wait.
InLine == {m \in Member : \E s \in Session : line[m][s] # None}
Left(order) == order \cap (InLine' \X InLine')

Init ==
    /\ seat = [m \in Member |-> Nowhere]
    /\ line = [m \in Member |-> Nowhere]
    /\ ahead = {}
    /\ limit \in [Bucket -> UNION {Limits[b] : b \in Bucket}]
    /\ \A b \in Bucket : limit[b] \in Limits[b]
    /\ open = Session

\* A member without a seat asks anew and goes to the end of the line.  In each session
\* one thing asked for is granted, or waits because something it needs is full.
Enter(m) ==
    /\ seat[m] = Nowhere
    /\ \A n \in Member \ {m} : seat'[n] = seat[n] /\ line'[n] = line[n]
    /\ \A s \in Session :
        \/ seat'[m][s] = None /\ line'[m][s] = None
        \/ /\ s \in open /\ seat'[m][s] \in Spots(s) /\ line'[m][s] = None
           /\ \A b \in Needs(s, seat'[m][s]) : Fits(b)'
        \/ /\ s \in open /\ seat'[m][s] = None /\ line'[m][s] \in Spots(s)
           /\ \E b \in Needs(s, line'[m][s]) : Full(b)'
    /\ ahead' = LET others == Member \ {m}
                IN  Left((ahead \cap (others \X others)) \cup (others \X {m}))
    /\ seat' \in Where /\ line' \in Where
    /\ UNCHANGED <<limit, open>>

Stays(n, s) == seat'[n][s] = seat[n][s] /\ line'[n][s] = line[n][s]

\* n is the only one to get a seat in s, the one n waited for: whoever is left waiting
\* for the same is behind n.
Follows(n, s) ==
    /\ line[n][s] # None
    /\ seat'[n][s] = line[n][s] /\ line'[n][s] = None
    /\ \A b \in Needs(s, seat'[n][s]) : Fits(b)'
    /\ \A o \in Member \ {n} : seat'[o][s] \in {seat[o][s], None}
    /\ \A o \in Member : line'[o][s] = line[n][s] => <<n, o>> \in ahead

\* A member goes.  In each session the head of a line may follow, also where it was
\* an earlier going that left the seat.
Exit(m) ==
    /\ seat'[m] = Nowhere /\ line'[m] = Nowhere
    /\ \A n \in Member \ {m}, s \in Session : Stays(n, s) \/ Follows(n, s)
    /\ ahead' = Left(ahead)
    /\ seat' \in Where /\ line' \in Where
    /\ UNCHANGED <<limit, open>>

\* A session in which nobody sits does not take place.
Close(s) ==
    /\ s \in open /\ open' = open \ {s}
    /\ \A m \in Member : seat[m][s] = None
    /\ line' = [m \in Member |-> [line[m] EXCEPT ![s] = None]]
    /\ ahead' = Left(ahead)
    /\ UNCHANGED <<seat, limit>>

\* A limit changes, and is never set below the number of people.
Resize ==
    /\ limit' # limit
    /\ \E b \in Bucket : \E most \in Limits[b] :
           limit' = [limit EXCEPT ![b] = most] /\ Fits(b)'
    /\ UNCHANGED <<seat, line, ahead, open>>

\* The activity is called off: nobody waits any more, seats are given up one by one.
CallOff ==
    /\ open' = {} /\ ahead' = {}
    /\ line' = [m \in Member |-> Nowhere]
    /\ UNCHANGED <<seat, limit>>

Next ==
    \/ \E m \in Member : Enter(m) \/ Exit(m)
    \/ \E s \in Session : Close(s)
    \/ Resize
    \/ CallOff

Spec == Init /\ [][Next]_vars
=============================================================================
