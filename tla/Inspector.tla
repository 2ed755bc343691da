------------------------------- MODULE Inspector -------------------------------
(***************************************************************************)
(* "Inspector for a day", inspector_answer of api/v1/games.py: a player    *)
(* judges a segment the inspector has judged, and is told what the         *)
(* inspector had decided.  The handler knows it from the stored truth of   *)
(* the segment, so the module extends the life of the segments.            *)
(***************************************************************************)
EXTENDS Segments

CONSTANT MaxRounds    \* bound: rows of inspector_rounds

ASSUME InspectorAssumption == MaxRounds \in Nat

VARIABLE rounds       \* table inspector_rounds

ivars == <<vars, rounds>>

ModerationDecision == {"approve", "reject"}
Round == [user: Users, segment: SegmentIds, player: ModerationDecision,
          actual: ModerationDecision]

InspectorTypeOK == TypeOK /\ rounds \subseteq Round

InspectorInit == Init /\ rounds = {}

(* The truth is kept as a verdict; "none" stands for a rejection. *)
ActualDecision(row) == IF row.truth # "none" THEN "approve" ELSE "reject"

(* Mutant: a segment nobody has decided on is accepted, too. *)
AnswerAnything(r, u, s, d) ==
  /\ u \notin deleted
  /\ Cardinality(rounds) < MaxRounds
  /\ Begin(r, [op |-> "answer",
               round |-> [user |-> u, segment |-> s, player |-> d,
                          actual |-> ActualDecision(segment[s])]])
  /\ UNCHANGED rounds

(* POST /games/inspector/answer: any segment with a known truth. *)
AnswerBegin(r, u, s, d) ==
  /\ u \notin deleted
  /\ segment[s].truth # NoVerdict
  /\ Cardinality(rounds) < MaxRounds
  /\ Begin(r, [op |-> "answer",
               round |-> [user |-> u, segment |-> s, player |-> d,
                          actual |-> ActualDecision(segment[s])]])
  /\ UNCHANGED rounds

(* A second round on the same segment violates a unique key (Abort).       *)
AnswerCommit(r) ==
  LET t == txn[r]
  IN /\ t.op = "answer"
     /\ ~\E x \in rounds : SameKey(x, t.round)
     /\ rounds' = rounds \cup {t.round}
     /\ Finish(r)
     /\ UNCHANGED <<segment, annotations, user, deleted, trips, audit>>

(* The rounds of a removed account go with it (the foreign key cascades).  *)
InspectorNext ==
  \/ Next /\ rounds' = {x \in rounds : x.user \notin deleted'}
  \/ \E r \in Requests :
       \/ \E u \in Users, s \in SegmentIds, d \in ModerationDecision :
            AnswerBegin(r, u, s, d)
       \/ AnswerCommit(r)

InspectorSpec == InspectorInit /\ [][InspectorNext]_ivars

-----------------------------------------------------------------------------
(* Properties *)

Logged(s, action) == \E i \in DOMAIN audit[s] : audit[s][i] = action

(* games.py:389-395: what a player is told comes from a decision in the    *)
(* audit log.  "Approved" tells of a confirmation.  "Rejected" tells of a  *)
(* rejection, or else of a confirmation after which an annotator's "no     *)
(* problem" prevailed (moderation.py:55-58), or nobody was left who had    *)
(* annotated.  And two players are told differently of one segment only if *)
(* the inspector has decided on it more than once, however the answers and *)
(* the decisions overlap.                                                  *)
RoundsTellDecisions ==
  \A x \in rounds :
    LET s == x.segment
    IN /\ x.actual = "approve" => Logged(s, "approved")
       /\ x.actual = "reject" =>
            \/ Logged(s, "rejected")
            \/ /\ Logged(s, "approved")
               /\ deleted # {} \/ \E n \in Counted(s) : n.verdict = "none"
       /\ \A y \in rounds :
            s = y.segment /\ x.actual # y.actual => Len(audit[s]) > 1
=============================================================================
