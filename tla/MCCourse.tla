------------------------------- MODULE MCCourse -------------------------------
(* A learner and a moderator with two modules, two answers in flight. *)
EXTENDS Course, TLC

CONSTANTS u1, u2, r1, r2

MCSymmetry == Permutations(Requests)
=============================================================================
