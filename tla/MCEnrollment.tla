----------------------------- MODULE MCEnrollment -----------------------------
(* A minor, at first a student, and two adults race for two seats. *)
EXTENDS Enrollment, TLC

CONSTANTS u1, u2, u3, e1, r1, r2

MCCapacity == [e \in Events |-> 2]
MCSymmetry == Permutations(Requests)

MCInit == Init /\ student = {u1} /\ minor = {u1}
MCSpec == MCInit /\ [][Next]_evars /\ \A r \in Requests : WF_evars(Continue(r))
=============================================================================
