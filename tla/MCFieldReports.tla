---------------------------- MODULE MCFieldReports ----------------------------
(* A volunteer with two trips to one segment, overlapping requests. *)
EXTENDS Notices, TLC

CONSTANTS u1, e1, e2, r1, s1, f1, j1, j2

MCCapacity == [e \in Events |-> 2]
MCSite == [e \in Events |-> s1]
MCSymmetry == Permutations(Jobs) \cup Permutations(Events)

(* An observer of age from the start: minors and consents are the subject *)
(* of MCEnrollment.                                                       *)
MCInit == NoticesInit /\ student = {} /\ minor = {}
MCSpec == MCInit /\ [][NoticesNext]_allvars
=============================================================================
