-------------------------- MODULE MCRegistrations --------------------------
(* Three interchangeable members, a session with two positions and one      *)
(* without, limits of one and two seats; the second session has none of its *)
(* own, and is full when the activity is.                                   *)
EXTENDS Registrations, TLC

CONSTANTS m1, m2, m3, s1, s2, p1, p2

MCSessionOrder == <<s1, s2>>
MCOffered == [s \in {s1, s2} |-> IF s = s1 THEN {p1, p2} ELSE {}]
MCLists == [s \in {s1, s2} |-> IF s = s1 THEN {<<p1, p2>>} ELSE {<<>>}]
MCLimits == [b \in {Activity, s1, s2, p1, p2} |->
    CASE b = Activity -> {2} [] b = s1 -> {1, 2} [] b = s2 -> {None} [] OTHER -> {1}]
Symmetry == Permutations(Member)
=============================================================================
