----------------------------- MODULE SegmentLife -----------------------------
(***************************************************************************)
(* What the life of a segment promises, without annotations, factors or    *)
(* requests: annotators raise a suspicion, an inspector settles it and     *)
(* signs the audit log, and a shore is clean only after an inspector once  *)
(* sent people to it.  Segments implements this module.                    *)
(***************************************************************************)
EXTENDS Sequences

CONSTANTS SegmentIds

VARIABLES status,     \* what the map shows of a segment
          confirmed,  \* whether an inspector's confirmation is in force
          log         \* by segment, the decisions signed in the audit log

lvars == <<status, confirmed, log>>

Init ==
  /\ status = [s \in SegmentIds |-> "watch"]
  /\ confirmed = [s \in SegmentIds |-> FALSE]
  /\ log = [s \in SegmentIds |-> <<>>]

(* Enough annotators agree. *)
Suspect(s) ==
  /\ status[s] = "watch" /\ ~confirmed[s]
  /\ status' = [status EXCEPT ![s] = "problem"]
  /\ UNCHANGED <<confirmed, log>>

(* Nobody is left who saw a problem on these segments. *)
Withdraw(S) ==
  /\ \A s \in S : ~confirmed[s]
  /\ status' = [s \in SegmentIds |-> IF s \in S THEN "watch" ELSE status[s]]
  /\ UNCHANGED <<confirmed, log>>

Settle(S, approved) ==
  /\ status' = [s \in SegmentIds |->
       IF s \in S THEN IF approved THEN "work" ELSE "watch" ELSE status[s]]
  /\ confirmed' = [s \in SegmentIds |-> IF s \in S THEN approved
                                                   ELSE confirmed[s]]
  /\ log' = [s \in SegmentIds |->
       IF s \in S THEN Append(log[s], IF approved THEN "approved"
                                                  ELSE "rejected")
       ELSE log[s]]

CleanUp(s) ==
  /\ \E i \in DOMAIN log[s] : log[s][i] = "approved"
  /\ status' = [status EXCEPT ![s] = "clean"]
  /\ UNCHANGED <<confirmed, log>>

Next ==
  \/ \E s \in SegmentIds : Suspect(s) \/ CleanUp(s)
  \/ \E S \in SUBSET SegmentIds :
       Withdraw(S) \/ \E approved \in BOOLEAN : Settle(S, approved)

Spec == Init /\ [][Next]_lvars
=============================================================================
