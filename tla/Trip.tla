--------------------------------- MODULE Trip ---------------------------------
(***************************************************************************)
(* What enrolment promises, without requests, rows or links: a trip has    *)
(* seats, a free seat is taken by one volunteer at a time, a seated        *)
(* volunteer may be cleared for the field, and neither is ever taken back. *)
(* Enrollment implements this module.                                      *)
(***************************************************************************)
EXTENDS Integers, FiniteSets

CONSTANTS Users, Events, Capacity

VARIABLES seats,    \* by event, the volunteers enrolled
          cleared   \* by event, those whose conditions are all met

Init == /\ seats = [e \in Events |-> {}]
        /\ cleared = [e \in Events |-> {}]

TakeSeat(u, e) ==
  /\ u \notin seats[e]
  /\ Cardinality(seats[e]) < Capacity[e]
  /\ seats' = [seats EXCEPT ![e] = @ \cup {u}]
  /\ UNCHANGED cleared

Clear(u, e) ==
  /\ u \in seats[e] \ cleared[e]
  /\ cleared' = [cleared EXCEPT ![e] = @ \cup {u}]
  /\ UNCHANGED seats

Next == \E u \in Users, e \in Events : TakeSeat(u, e) \/ Clear(u, e)

Spec == Init /\ [][Next]_<<seats, cleared>>
=============================================================================
