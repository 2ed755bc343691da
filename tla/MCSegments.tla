------------------------------ MODULE MCSegments ------------------------------
(* One or two annotators, who also play inspector, on one or two segments. *)
EXTENDS Inspector, TLC

CONSTANTS u1, u2, s1, s2, r1, r2

MCAccess == [s \in SegmentIds |-> 50]
MCSymmetry == Permutations(Users) \cup Permutations(SegmentIds)
=============================================================================
