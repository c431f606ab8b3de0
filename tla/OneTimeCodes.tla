---------------------------- MODULE OneTimeCodes ----------------------------
(***************************************************************************)
(* What the SMS module promises about verification codes.  A phone gets a  *)
(* code only if its last one is old enough and the day's limit is not      *)
(* reached, whatever the codes are for.  A new code ends the open ones of  *)
(* its phone and purpose.  A code that was accepted or has ended stays so. *)
(***************************************************************************)
EXTENDS Integers, FiniteSets

CONSTANTS
    Phone, Purpose,
    Code,         \* code rows
    Limit,        \* codes of a phone on one day
    Interval,     \* time between two codes of a phone
    Midnights,    \* the instants at which a day begins
    None

VARIABLES
    life,         \* none, open, accepted or void
    sent,         \* None, or the code's phone, purpose and time
    now

vars == <<life, sent, now>>

Of(p) == {c \in Code : sent[c] # None /\ sent[c].phone = p}

\* The codes of phone p on the day that has begun at time t.
Today(p, t) == {c \in Of(p) : \A m \in Midnights : m <= t => m <= sent[c].time}

Init ==
    /\ life = [c \in Code |-> "none"]
    /\ sent = [c \in Code |-> None]
    /\ now = 0

\* A code may be void at birth, when its delivery took too long.
Issue(c, p, k) ==
    /\ life[c] = "none"
    /\ Cardinality(Today(p, now)) < Limit
    /\ \A e \in Of(p) : now - sent[e].time >= Interval
    /\ sent' = [sent EXCEPT ![c] = [phone |-> p, purpose |-> k, time |-> now]]
    /\ life'[c] \in {"open", "void"}
    /\ life' = [e \in Code |->
         IF e = c THEN life'[c]
         ELSE IF life[e] = "open" /\ sent[e].phone = p /\ sent[e].purpose = k THEN "void"
         ELSE life[e]]
    /\ UNCHANGED now

Accept(c) ==
    /\ life[c] = "open"
    /\ life' = [life EXCEPT ![c] = "accepted"]
    /\ UNCHANGED <<sent, now>>

\* Time passes; open codes may end at any moment, by age or by wrong guesses.
Pass ==
    /\ now' >= now
    /\ life' = [c \in Code |-> IF life[c] = "open" /\ life'[c] = "void" THEN "void" ELSE life[c]]
    /\ UNCHANGED sent

Next ==
    \/ \E c \in Code, p \in Phone, k \in Purpose : Issue(c, p, k)
    \/ \E c \in Code : Accept(c)
    \/ Pass

Spec == Init /\ [][Next]_vars
=============================================================================
