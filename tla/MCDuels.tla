------------------------------- MODULE MCDuels -------------------------------
(* Up to three players and one duel among all that happens to a segment. *)
EXTENDS Duels, TLC

CONSTANTS u1, u2, u3, s1, r1

MCAccess == [s \in SegmentIds |-> 50]
MCSymmetry == Permutations(Users)
=============================================================================
