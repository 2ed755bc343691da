------------------------------- MODULE MCScenes -------------------------------
(* The scenes of one segment, and requests for new ones. *)
EXTENDS Scenes, TLC

CONSTANTS s1, r1

MCAccess == [s \in SegmentIds |-> 50]
=============================================================================
