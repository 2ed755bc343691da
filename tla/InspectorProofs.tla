---------------------------- MODULE InspectorProofs ----------------------------
(***************************************************************************)
(* Theorems about Inspector, "inspector for a day".                        *)
(*                                                                         *)
(* A player is told what the stored truth of the segment says when the     *)
(* answer is loaded; the round is stored later, and the inspector may have *)
(* decided again in between.  The invariant therefore speaks of the rounds *)
(* in flight as it does of those stored: their segment has a decision in   *)
(* the log that they tell of, and as long as that is the only decision     *)
(* they tell what the truth still tells.  That a confirmation is told as a *)
(* rejection only if somebody saw no problem needs more: a queued segment  *)
(* has an answer that counts, and a decision in flight has loaded one.     *)
(***************************************************************************)
EXTENDS Inspector, SegmentsProofs

AnswerTxn == [op: {"answer"}, round: Round]

RejectedOnce(s) == \E i \in DOMAIN audit[s] : audit[s][i] = "rejected"

(* Somebody saw no problem on the segment, or may have before an account   *)
(* was removed.                                                            *)
Doubted(s) == deleted # {} \/ \E n \in Counted(s) : n.verdict = "none"
Denied(s) == RejectedOnce(s) \/ (ConfirmedOnce(s) /\ Doubted(s))

(* The truth of a segment comes from a decision in its log. *)
TruthIsDecided ==
  \A s \in SegmentIds :
    /\ segment[s].truth # NoVerdict => audit[s] # <<>>
    /\ segment[s].truth \notin {NoVerdict, "none"} => ConfirmedOnce(s)
    /\ segment[s].truth = "none" => Denied(s)

TellsDecision(x) ==
  /\ audit[x.segment] # <<>>
  /\ x.actual = "approve" => ConfirmedOnce(x.segment)
  /\ x.actual = "reject" => Denied(x.segment)
  /\ Len(audit[x.segment]) = 1 => x.actual = ActualDecision(segment[x.segment])

(* As long as no account was removed, what is decided on has an answer     *)
(* that counts.                                                            *)
QueueIsVoiced ==
  deleted = {} => \A s \in SegmentIds : segment[s].queued => Counted(s) # {}
DecideSlot(t) ==
  t.op = "decide" /\ deleted = {} =>
    /\ t.anns \subseteq annotations
    /\ \A s \in t.ids : \E n \in t.anns : n.segment = s /\ ~n.control
VInv == QueueIsVoiced /\ \A r \in Requests : DecideSlot(txn[r])

AnswerSlot(t) ==
  t.op = "answer" => t \in AnswerTxn /\ TellsDecision(t.round)

IInv == /\ TInv /\ VInv /\ rounds \subseteq Round /\ TruthIsDecided
        /\ \A x \in rounds : TellsDecision(x)
        /\ \A r \in Requests : AnswerSlot(txn[r])

-----------------------------------------------------------------------------
(* The truth of a segment changes only with a decision, and a segment      *)
(* comes into the queue only with an answer that counts.                   *)

LEMMA FlushKeeps ==
  ASSUME NEW x \in Row, NEW y \in Row, NEW z \in Row
  PROVE  /\ z.truth = y.truth => Flush(x, y, z).truth = x.truth
         /\ Flush(x, y, z).truth \in {x.truth, z.truth}
         /\ z.queued \in {y.queued, FALSE} =>
              Flush(x, y, z).queued \in {x.queued, FALSE}
BY DEF Flush, Row

(* What a step means to the log, the truth and the queueing of a segment. *)
Unsigned(s) == audit'[s] = audit[s] /\ segment'[s].truth = segment[s].truth
SignedAs(s, e) ==
  /\ audit'[s] = Append(audit[s], e)
  /\ \/ segment'[s].truth = segment[s].truth
     \/ segment'[s].truth = "none" /\ (e = "rejected" \/ Doubted(s)')
     \/ segment'[s].truth # "none" /\ e = "approved"
Judgement(s) == Unsigned(s) \/ \E e \in AuditActions : SignedAs(s, e)
Unqueued(s) == segment'[s].queued \in {segment[s].queued, FALSE}
Voiced(s) == Unqueued(s) \/ Counted(s)' # {}

(* What a repair and a decision leave of the queueing. *)
LEMMA QueueingEnds ==
  ASSUME NEW x \in Row
  PROVE  /\ \A A \in Anns : Repaired(x, A).queued \in {x.queued, FALSE}
         /\ \A a \in BOOLEAN :
              Recalculate(Decision(x, a)).queued \in {x.queued, FALSE}
<1>1. ASSUME NEW A \in Anns PROVE Repaired(x, A).queued \in {x.queued, FALSE}
  <2>1. /\ Repaired(x, A) \in Row
        /\ \/ Repaired(x, A).queued = x.queued
           \/ ~Repaired(x, A).queued
    BY RepairedRow
  <2>2. Repaired(x, A).queued \in BOOLEAN
    BY <2>1 DEF Row
  <2> QED BY <2>1, <2>2
<1>2. ASSUME NEW a \in BOOLEAN
      PROVE  Recalculate(Decision(x, a)).queued \in {x.queued, FALSE}
  <2>1. Recalculate(Decision(x, a)).queued = (a /\ x.queued)
    BY DecidedRow
  <2>2. x.queued \in BOOLEAN
    BY DEF Row
  <2> QED BY <2>1, <2>2
<1> QED BY <1>1, <1>2

LEMMA WrittenTruth ==
  ASSUME TInv, NEW q \in SegmentIds, NEW y \in Row, NEW z \in Row,
         z.truth = y.truth, segment' = [segment EXCEPT ![q] = Flush(@, y, z)],
         NEW s \in SegmentIds
  PROVE  segment'[s].truth = segment[s].truth
<1>1. segment \in [SegmentIds -> Row]
  BY DEF TInv, TypeOK
<1>2. Flush(segment[q], y, z).truth = segment[q].truth
  BY <1>1, FlushKeeps
<1> QED BY <1>1, <1>2

LEMMA WrittenQueueing ==
  ASSUME TInv, NEW q \in SegmentIds, NEW y \in Row, NEW z \in Row,
         z.queued = y.queued, segment' = [segment EXCEPT ![q] = Flush(@, y, z)],
         NEW s \in SegmentIds
  PROVE  Unqueued(s)
<1>1. segment \in [SegmentIds -> Row]
  BY DEF TInv, TypeOK
<1>2. Flush(segment[q], y, z).queued \in {segment[q].queued, FALSE}
  BY <1>1, FlushKeeps
<1> QED BY <1>1, <1>2 DEF Unqueued

LEMMA AnnotateTruth ==
  ASSUME TInv, NEW r \in Requests, AnnotateCommit(r), NEW s \in SegmentIds
  PROVE  Unsigned(s) /\ Voiced(s)
<1> DEFINE t == txn[r]
<1>1. t \in InsertedTxn
  BY DEF TInv, SlotType, AnnotateCommit
<1>2. t.row \in Row /\ t.read \in Anns /\ t.mine.segment \in SegmentIds
  BY <1>1 DEF InsertedTxn, Annotation
<1>3. PICK type \in PrevailingVerdicts(t.read) :
        segment' = [segment EXCEPT ![t.mine.segment] =
          Flush(@, t.row, [WithConsensus(t.row, t.read) EXCEPT !.type = type])]
  BY DEF AnnotateCommit
<1> DEFINE z == [WithConsensus(t.row, t.read) EXCEPT !.type = type]
<1>4. z \in Row /\ z.truth = t.row.truth
  BY <1>2, <1>3, PrevailingTypes, AgreedRow DEF Anns
<1>5. segment' = [segment EXCEPT ![t.mine.segment] = Flush(@, t.row, z)]
  BY <1>3
<1> HIDE DEF z
<1>6. /\ segment'[s].truth = segment[s].truth
      /\ s # t.mine.segment => Unqueued(s)
  <2>1. segment'[s].truth = segment[s].truth
    BY <1>2, <1>4, <1>5, WrittenTruth
  <2>2. s # t.mine.segment => segment'[s] = segment[s]
    BY <1>5 DEF TInv, TypeOK
  <2> QED BY <2>1, <2>2 DEF Unqueued
<1>7. t.mine \in annotations' /\ ~t.mine.control
  BY DEF AnnotateCommit
<1>8. s = t.mine.segment => Counted(s)' # {}
  BY <1>7 DEF Counted, On
<1> QED BY <1>6, <1>8 DEF Unsigned, Voiced, AnnotateCommit

LEMMA QueueTruth ==
  ASSUME TInv, NEW r \in Requests, QueueCommit(r), NEW s \in SegmentIds
  PROVE  Unsigned(s) /\ Unqueued(s)
<1> DEFINE t == txn[r]
           anns == {n \in t.anns : n.segment = s}
           z == Repaired(t.rows[s], anns)
<1>1. t \in QueueTxn /\ segment[s] \in Row
  BY DEF TInv, TypeOK, SlotType, QueueCommit
<1>2. t.rows[s] \in Row /\ anns \in Anns
  BY <1>1, VotesAreNatural DEF QueueTxn
<1>3. /\ z \in Row /\ z.truth = t.rows[s].truth
      /\ z.queued \in {t.rows[s].queued, FALSE}
  BY <1>2, RepairedRow, QueueingEnds
<1>4. segment'[s] \in {Flush(segment[s], t.rows[s], z), segment[s]}
  BY DEF QueueCommit
<1> HIDE DEF z
<1>5. /\ Flush(segment[s], t.rows[s], z).truth = segment[s].truth
      /\ Flush(segment[s], t.rows[s], z).queued \in {segment[s].queued, FALSE}
  BY <1>1, <1>2, <1>3, FlushKeeps
<1>6. audit' = audit
  BY DEF QueueCommit
<1> QED BY <1>4, <1>5, <1>6 DEF Unsigned, Unqueued

LEMMA ShoreTruth ==
  ASSUME TInv, NEW r \in Requests, IngestCommit(r) \/ CleanupCommit(r),
         NEW s \in SegmentIds
  PROVE  Unsigned(s) /\ Unqueued(s)
<1> DEFINE t == txn[r]
<1>1. t \in SegmentTxn
  BY DEF TInv, SlotType, IngestCommit, CleanupCommit
<1>2. t.row \in Row /\ t.id \in SegmentIds
  BY <1>1 DEF SegmentTxn
<1>3. CASE IngestCommit(r)
  <2>1. PICK signal \in Signals \cup {t.row.s}, boost \in Boosts :
          segment' = [segment EXCEPT ![t.id] = Flush(@, t.row,
            Recalculate([t.row EXCEPT !.s = Clamp01(signal + boost)]))]
    BY <1>3 DEF IngestCommit
  <2> DEFINE z == Recalculate([t.row EXCEPT !.s = Clamp01(signal + boost)])
  <2>2. signal + boost \in Int
    <3>1. t.row.s \in Factor
      BY <1>2 DEF Row
    <3>2. signal \in Factor /\ boost \in 0 .. 20
      BY <3>1, SegmentsAssumption
    <3> QED BY <3>2 DEF Factor
  <2>3. z \in Row /\ z.truth = t.row.truth /\ z.queued = t.row.queued
    BY <1>2, <2>2, SignalledRow DEF Judged
  <2>4. segment' = [segment EXCEPT ![t.id] = Flush(@, t.row, z)]
    BY <2>1
  <2> HIDE DEF z
  <2>5. segment'[s].truth = segment[s].truth
    BY <1>2, <2>3, <2>4, WrittenTruth
  <2>6. Unqueued(s)
    BY <1>2, <2>3, <2>4, WrittenQueueing
  <2> QED BY <1>3, <2>5, <2>6 DEF Unsigned, IngestCommit
<1>4. CASE CleanupCommit(r)
  <2> DEFINE z == ApplyCleanup([t.row EXCEPT !.status = "clean"])
  <2>1. z \in Row /\ z.truth = t.row.truth /\ z.queued = t.row.queued
    BY <1>2, CleanedRow DEF Judged
  <2>2. \/ segment' = segment
        \/ segment' = [segment EXCEPT ![t.id] = Flush(@, t.row, z)]
    BY <1>4 DEF CleanupCommit
  <2> HIDE DEF z
  <2>3. segment' = segment => segment'[s].truth = segment[s].truth /\ Unqueued(s)
    BY DEF Unqueued
  <2>4. segment'[s].truth = segment[s].truth /\ Unqueued(s)
    BY <1>2, <2>1, <2>2, <2>3, WrittenTruth, WrittenQueueing
  <2> QED BY <1>4, <2>4 DEF Unsigned, CleanupCommit
<1> QED BY <1>3, <1>4

(* The entry a decision writes. *)
Entered(t) == IF t.approved THEN "approved" ELSE "rejected"

LEMMA DecideTruth ==
  ASSUME TInv, VInv, NEW r \in Requests, DecideCommit(r), NEW s \in SegmentIds
  PROVE  Judgement(s) /\ Unqueued(s)
<1> DEFINE t == txn[r]
           Written(q, v) ==
             Recalculate(Decision([t.rows[q] EXCEPT !.pool = TRUE,
                !.truth = TruthFromDecision(t.approved, v)], t.approved))
<1>1. t \in DecisionTxn /\ segment \in [SegmentIds -> Row]
  BY DEF TInv, TypeOK, SlotType, DecideCommit
<1>2. PICK q \in t.ids : \E v \in PrevailingVerdicts({n \in t.anns : n.segment = q}) :
        segment' = [segment EXCEPT ![q] = Flush(@, t.rows[q], Written(q, v))]
  BY DEF DecideCommit
<1>3. PICK v \in PrevailingVerdicts({n \in t.anns : n.segment = q}) :
        segment' = [segment EXCEPT ![q] = Flush(@, t.rows[q], Written(q, v))]
  BY <1>2
<1> DEFINE truth == TruthFromDecision(t.approved, v)
           pooled == [t.rows[q] EXCEPT !.pool = TRUE, !.truth = truth]
           z == Recalculate(Decision(pooled, t.approved))
<1>4. q \in SegmentIds /\ t.rows[q] \in Row /\ t.approved \in BOOLEAN
  BY <1>1 DEF DecisionTxn
<1>5. /\ truth \in Verdicts \cup {NoVerdict}
      /\ truth = "none" \/ t.approved
      /\ truth = "none" /\ t.approved => Doubted(q)
  <2>1. {n \in t.anns : n.segment = q} \in SUBSET Annotation
    BY <1>1 DEF DecisionTxn, Anns
  <2>2. v \in Verdicts \cup {NoVerdict}
    BY <1>3, <2>1, PrevailingTypes
  <2>3. v \in {NoVerdict, "none"} => Doubted(q)
    <3> SUFFICES ASSUME v \in {NoVerdict, "none"}, deleted = {}
                 PROVE  \E n \in Counted(q) : n.verdict = "none"
      BY DEF Doubted
    <3>1. /\ t.anns \subseteq annotations
          /\ \E n \in t.anns : n.segment = q /\ ~n.control
      BY DEF VInv, DecideSlot, DecideCommit
    <3>2. PICK n \in t.anns : n.segment = q /\ ~n.control /\ n.verdict = v
      BY <1>3, <3>1 DEF PrevailingVerdicts
    <3>3. n \in Annotation /\ n \in Counted(q)
      BY <2>1, <3>1, <3>2 DEF Counted, On
    <3> QED BY <3>2, <3>3 DEF Annotation, Verdicts, NoVerdict
  <2> QED BY <2>2, <2>3 DEF TruthFromDecision, Verdicts
<1>6. segment' = [segment EXCEPT ![q] = Flush(@, t.rows[q], z)]
  BY <1>3
<1> HIDE DEF truth
<1>7. pooled \in Row /\ pooled.truth = truth /\ pooled.queued = t.rows[q].queued
  BY <1>4, <1>5, PooledRow
<1> HIDE DEF pooled
<1>8. /\ z \in Row /\ z.truth = truth
      /\ z.queued \in {t.rows[q].queued, FALSE}
  BY <1>4, <1>7, DecidedRow, QueueingEnds
<1> HIDE DEF z
<1>9. /\ segment'[q].truth \in {segment[q].truth, truth}
      /\ segment'[q].queued \in {segment[q].queued, FALSE}
  BY <1>1, <1>4, <1>6, <1>8, FlushKeeps
<1>10. s # q => segment'[s] = segment[s]
  BY <1>1, <1>6
<1>11. audit'[s] = IF s \in t.ids THEN Append(audit[s], Entered(t)) ELSE audit[s]
  BY DEF DecideCommit, Recorded, Entered
<1>12. /\ Entered(t) \in AuditActions
       /\ Entered(t) = IF t.approved THEN "approved" ELSE "rejected"
  BY DEF Entered, AuditActions
<1>13. Doubted(q) => Doubted(q)'
  BY DEF DecideCommit, Doubted, Counted, On
<1>14. ASSUME s \in t.ids PROVE Judgement(s)
  <2>1. SignedAs(s, Entered(t))
    BY <1>5, <1>9, <1>10, <1>11, <1>12, <1>13, <1>14 DEF SignedAs
  <2> QED BY <1>12, <2>1 DEF Judgement
<1>15. s \notin t.ids => Judgement(s)
  BY <1>2, <1>10, <1>11 DEF Judgement, Unsigned
<1>16. Unqueued(s)
  BY <1>9, <1>10 DEF Unqueued
<1> QED BY <1>14, <1>15, <1>16

LEMMA BatchTruth ==
  ASSUME TInv, NEW r \in Requests, BatchCommit(r), NEW s \in SegmentIds
  PROVE  Judgement(s) /\ Unqueued(s)
<1> DEFINE t == txn[r]
           z == Recalculate(Decision(t.rows[s], t.approved))
<1>1. t \in DecisionTxn /\ segment[s] \in Row
  BY DEF TInv, TypeOK, SlotType, BatchCommit
<1>2. /\ t.rows[s] \in Row /\ z \in Row /\ z.truth = t.rows[s].truth
      /\ z.queued \in {t.rows[s].queued, FALSE}
  BY <1>1, DecidedRow, QueueingEnds DEF DecisionTxn
<1>3. segment'[s] = IF s \in t.ids THEN Flush(segment[s], t.rows[s], z)
                    ELSE segment[s]
  BY DEF BatchCommit
<1> HIDE DEF z
<1>4. segment'[s].truth = segment[s].truth /\ Unqueued(s)
  <2>1. /\ Flush(segment[s], t.rows[s], z).truth = segment[s].truth
        /\ Flush(segment[s], t.rows[s], z).queued \in {segment[s].queued, FALSE}
    BY <1>1, <1>2, FlushKeeps
  <2> QED BY <1>3, <2>1 DEF Unqueued
<1>5. audit'[s] = IF s \in t.ids THEN Append(audit[s], Entered(t)) ELSE audit[s]
  BY DEF BatchCommit, Recorded, Entered
<1>6. Entered(t) \in AuditActions
  BY DEF Entered, AuditActions
<1>7. ASSUME s \in t.ids PROVE Judgement(s)
  <2>1. SignedAs(s, Entered(t))
    BY <1>4, <1>5, <1>7 DEF SignedAs
  <2> QED BY <1>6, <2>1 DEF Judgement
<1>8. s \notin t.ids => Judgement(s)
  BY <1>4, <1>5 DEF Judgement, Unsigned
<1> QED BY <1>4, <1>7, <1>8

LEMMA TruthStep ==
  ASSUME TInv, VInv, [Next]_vars, NEW s \in SegmentIds
  PROVE  Judgement(s) /\ Voiced(s)
<1>1. UNCHANGED <<segment, audit>> => Judgement(s) /\ Voiced(s)
  BY DEF Judgement, Unsigned, Voiced, Unqueued
<1>2. CASE TimePasses
  BY <1>2, DaysPass DEF Kept, TimePasses, Judgement, Unsigned, Voiced, Unqueued
<1>3. ASSUME NEW r \in Requests, Start(r) \/ AnnotateInsert(r) \/ Abort(r)
      PROVE  UNCHANGED <<segment, audit>>
  BY <1>3 DEF Start, AnnotateInsert, Abort, AnnotateBegin, QueueBegin, DecideBegin,
     BatchBegin, IngestBegin, CleanupBegin, Begin
<1>4. ASSUME NEW r \in Requests, Continue(r) PROVE Judgement(s) /\ Voiced(s)
  <2>1. AnnotateCommit(r) \/ QueueCommit(r) \/ IngestCommit(r) \/ CleanupCommit(r)
          => Judgement(s) /\ Voiced(s)
    BY AnnotateTruth, QueueTruth, ShoreTruth DEF Judgement, Voiced
  <2> QED BY <1>1, <1>3, <1>4, <2>1, DecideTruth, BatchTruth
          DEF Continue, ControlCommit, Voiced
<1> QED BY <1>1, <1>2, <1>3, <1>4
        DEF Next, Environment, AccountRemoved, CreateEvent, vars

-----------------------------------------------------------------------------
(* Answers go only with the account of their author, so that a doubt, and  *)
(* an answer that counts, stay.                                            *)

Grows == /\ deleted \subseteq deleted'
         /\ deleted' = {} => annotations \subseteq annotations'

LEMMA AnswersStay ==
  ASSUME [Next]_vars
  PROVE  Grows
<1>1. CASE UNCHANGED <<deleted, annotations>>
  BY <1>1 DEF Grows
<1>2. ASSUME NEW u \in Users, AccountRemoved(u) PROVE Grows
  BY <1>2 DEF AccountRemoved, Grows
<1>3. ASSUME NEW r \in Requests, Start(r) PROVE UNCHANGED <<deleted, annotations>>
  BY <1>3 DEF Start, AnnotateBegin, QueueBegin, DecideBegin, BatchBegin,
     IngestBegin, CleanupBegin, Begin
<1>4. ASSUME NEW r \in Requests, Continue(r) PROVE Grows
  BY <1>4 DEF Continue, Grows, AnnotateInsert, AnnotateCommit, ControlCommit,
     QueueCommit, DecideCommit, BatchCommit, IngestCommit, CleanupCommit, Abort
<1> QED BY <1>1, <1>2, <1>3, <1>4
        DEF Next, Environment, TimePasses, CreateEvent, vars

LEMMA DoubtStays ==
  ASSUME Grows, NEW s
  PROVE  /\ Doubted(s) => Doubted(s)'
         /\ deleted' = {} /\ Counted(s) # {} => Counted(s)' # {}
BY DEF Grows, Doubted, Counted, On

(* A slot is in a decision because it was before, or begins it now. *)
LEMMA DecideSlots ==
  ASSUME TInv, [Next]_vars, NEW r \in Requests, txn'[r].op = "decide"
  PROVE  \/ txn'[r] = txn[r]
         \/ \E s \in SegmentIds, a \in BOOLEAN :
              DecideBegin(r, s, a) /\ txn'[r] = Load("decide", {s}, a)
<1>0. DOMAIN txn = Requests
  BY DEF TInv, TypeOK
<1>1. ASSUME NEW q \in Requests, NEW t, t.op # "decide",
             txn' = [txn EXCEPT ![q] = t]
      PROVE  txn'[r] = txn[r]
  BY <1>0, <1>1
<1>2. ASSUME NEW q \in Requests, Finish(q) PROVE txn'[r] = txn[r]
  <2>1. Idle.op # "decide"
    BY DEF Idle
  <2> QED BY <1>1, <1>2, <2>1 DEF Finish
<1>3. ASSUME NEW q \in Requests, NEW t, t.op # "decide", Begin(q, t)
      PROVE  txn'[r] = txn[r]
  BY <1>1, <1>3 DEF Begin
<1>4. ASSUME NEW q \in Requests, NEW s \in SegmentIds, NEW a \in BOOLEAN,
             DecideBegin(q, s, a)
      PROVE  IF q = r THEN txn'[r] = Load("decide", {s}, a) ELSE txn'[r] = txn[r]
  BY <1>0, <1>4 DEF DecideBegin, Begin
<1>5. ASSUME NEW q \in Requests, Start(q)
      PROVE  \/ txn'[r] = txn[r]
             \/ \E s \in SegmentIds, a \in BOOLEAN :
                  DecideBegin(r, s, a) /\ txn'[r] = Load("decide", {s}, a)
  <2>1. CASE \E s \in SegmentIds, a \in BOOLEAN : DecideBegin(q, s, a)
    BY <1>4, <2>1
  <2>2. CASE ~\E s \in SegmentIds, a \in BOOLEAN : DecideBegin(q, s, a)
    BY <1>3, <1>5, <2>2 DEF Start, AnnotateBegin, QueueBegin, BatchBegin,
       IngestBegin, CleanupBegin, Load
  <2> QED BY <2>1, <2>2
<1>6. ASSUME NEW q \in Requests, Continue(q) PROVE txn'[r] = txn[r]
  BY <1>1, <1>2, <1>6 DEF Continue, AnnotateInsert, AnnotateCommit, ControlCommit,
     QueueCommit, DecideCommit, BatchCommit, IngestCommit, CleanupCommit, Abort
<1> QED BY <1>5, <1>6
        DEF Next, Environment, TimePasses, AccountRemoved, CreateEvent, vars

LEMMA VoicesStep ==
  ASSUME TInv, VInv, [Next]_vars
  PROVE  VInv'
<1>1. Grows
  BY AnswersStay
<1>2. ASSUME deleted' = {}, NEW s \in SegmentIds, segment'[s].queued
      PROVE  Counted(s)' # {}
  <2>1. deleted = {} /\ Voiced(s)
    BY <1>1, <1>2, TruthStep DEF Grows
  <2>2. segment[s].queued => Counted(s) # {}
    BY <2>1 DEF VInv, QueueIsVoiced
  <2>3. Unqueued(s) => segment[s].queued
    BY <1>2 DEF Unqueued
  <2> QED BY <1>1, <1>2, <2>1, <2>2, <2>3, DoubtStays DEF Voiced
<1>3. ASSUME NEW r \in Requests, txn'[r].op = "decide", deleted' = {}
      PROVE  /\ txn'[r].anns \subseteq annotations'
             /\ \A s \in txn'[r].ids :
                  \E n \in txn'[r].anns : n.segment = s /\ ~n.control
  <2>1. deleted = {} /\ annotations \subseteq annotations'
    BY <1>1, <1>3 DEF Grows
  <2>2. CASE txn'[r] = txn[r]
    BY <1>3, <2>1, <2>2 DEF VInv, DecideSlot
  <2>3. ASSUME NEW s \in SegmentIds, NEW a \in BOOLEAN,
               DecideBegin(r, s, a), txn'[r] = Load("decide", {s}, a)
        PROVE  /\ txn'[r].anns = annotations /\ txn'[r].ids = {s}
               /\ \E n \in annotations : n.segment = s /\ ~n.control
    <3>1. Counted(s) # {}
      BY <2>1, <2>3 DEF DecideBegin, VInv, QueueIsVoiced
    <3> QED BY <2>3, <3>1 DEF Load, Counted, On
  <2> QED BY <1>3, <2>1, <2>2, <2>3, DecideSlots
<1> QED BY <1>2, <1>3 DEF VInv, QueueIsVoiced, DecideSlot

-----------------------------------------------------------------------------
(* What was told stays true when the log of a segment grows. *)

LEMMA JudgementKeeps ==
  ASSUME TInv, NEW s \in SegmentIds, Judgement(s), Grows
  PROVE  /\ audit[s] # <<>> => audit'[s] # <<>>
         /\ ConfirmedOnce(s) => ConfirmedOnce(s)'
         /\ Denied(s) => Denied(s)'
         /\ audit[s] # <<>> /\ Len(audit'[s]) = 1 => Unsigned(s)
<1>0. Doubted(s) => Doubted(s)'
  BY DoubtStays
<1>1. CASE Unsigned(s)
  BY <1>0, <1>1 DEF Unsigned, ConfirmedOnce, RejectedOnce, Denied
<1>2. ASSUME NEW e \in AuditActions, SignedAs(s, e)
      PROVE  /\ audit'[s] # <<>>
             /\ ConfirmedOnce(s) => ConfirmedOnce(s)'
             /\ RejectedOnce(s) => RejectedOnce(s)'
             /\ audit[s] # <<>> => Len(audit'[s]) # 1
  <2>1. audit[s] \in Seq(AuditActions) /\ audit'[s] = Append(audit[s], e)
    BY <1>2 DEF TInv, TypeOK, SignedAs
  <2>2. /\ audit'[s] # <<>> /\ Len(audit'[s]) = Len(audit[s]) + 1
        /\ \A i \in DOMAIN audit[s] : i \in DOMAIN audit'[s]
                                    /\ audit'[s][i] = audit[s][i]
    <3>1. PICK before \in Seq(AuditActions) :
            before = audit[s] /\ audit'[s] = Append(before, e)
      BY <2>1
    <3>2. \A i \in DOMAIN before : /\ i \in DOMAIN Append(before, e)
                                   /\ Append(before, e)[i] = before[i]
      OBVIOUS
    <3>3. Len(Append(before, e)) = Len(before) + 1 /\ Len(before) \in Nat
      OBVIOUS
    <3>4. Append(before, e) # <<>>
      BY <3>3
    <3> QED BY <3>1, <3>2, <3>3, <3>4
  <2>3. audit[s] # <<>> => Len(audit[s]) > 0
    BY <2>1
  <2> QED BY <2>1, <2>2, <2>3 DEF ConfirmedOnce, RejectedOnce
<1> QED BY <1>0, <1>1, <1>2 DEF Judgement, Denied

LEMMA TruthIsKept ==
  ASSUME TInv, TruthIsDecided, Grows, \A s \in SegmentIds : Judgement(s)
  PROVE  TruthIsDecided'
<1> SUFFICES ASSUME NEW s \in SegmentIds
             PROVE  /\ segment'[s].truth # NoVerdict => audit'[s] # <<>>
                    /\ segment'[s].truth \notin {NoVerdict, "none"}
                         => ConfirmedOnce(s)'
                    /\ segment'[s].truth = "none" => Denied(s)'
  BY DEF TruthIsDecided
<1>1. /\ segment[s].truth # NoVerdict => audit[s] # <<>>
      /\ segment[s].truth \notin {NoVerdict, "none"} => ConfirmedOnce(s)
      /\ segment[s].truth = "none" => Denied(s)
  BY DEF TruthIsDecided
<1>2. CASE Unsigned(s)
  BY <1>1, <1>2, JudgementKeeps DEF Unsigned
<1>3. ASSUME NEW e \in AuditActions, SignedAs(s, e)
      PROVE  /\ audit'[s] # <<>>
             /\ segment'[s].truth \notin {NoVerdict, "none"} => ConfirmedOnce(s)'
             /\ segment'[s].truth = "none" => Denied(s)'
  <2>1. audit[s] \in Seq(AuditActions) /\ audit'[s] = Append(audit[s], e)
    BY <1>3 DEF TInv, TypeOK, SignedAs
  <2>2. /\ audit'[s] # <<>> /\ Len(audit[s]) + 1 \in DOMAIN audit'[s]
        /\ audit'[s][Len(audit[s]) + 1] = e
    BY <2>1
  <2>3. /\ e = "approved" => ConfirmedOnce(s)'
        /\ e = "rejected" => RejectedOnce(s)'
    BY <2>2 DEF ConfirmedOnce, RejectedOnce
  <2>4. /\ ConfirmedOnce(s) => ConfirmedOnce(s)'
        /\ Denied(s) => Denied(s)'
    BY JudgementKeeps
  <2>5. e \in {"approved", "rejected"}
    BY DEF AuditActions
  <2> QED BY <1>1, <1>3, <2>2, <2>3, <2>4, <2>5 DEF SignedAs, Denied
<1> QED BY <1>2, <1>3 DEF Judgement

LEMMA TellsTrueStill ==
  ASSUME TInv, Grows, \A s \in SegmentIds : Judgement(s),
         NEW x \in Round, TellsDecision(x)
  PROVE  TellsDecision(x)'
<1>1. x.segment \in SegmentIds
  BY DEF Round
<1>2. PICK s \in SegmentIds : s = x.segment
  BY <1>1
<1>3. /\ Len(audit'[s]) = 1 => Unsigned(s)
      /\ audit'[s] # <<>>
      /\ ConfirmedOnce(s) => ConfirmedOnce(s)'
      /\ Denied(s) => Denied(s)'
  BY <1>2, JudgementKeeps DEF TellsDecision
<1> QED BY <1>2, <1>3 DEF TellsDecision, Unsigned, ActualDecision

-----------------------------------------------------------------------------
(* What the game leaves alone it does not make untrue. *)
LEMMA GameKeeps ==
  ASSUME IInv, TInv', UNCHANGED <<segment, audit, annotations, deleted>>,
         rounds' \subseteq Round, \A x \in rounds' : TellsDecision(x),
         \A q \in Requests : AnswerSlot(txn'[q]) /\ DecideSlot(txn'[q])
  PROVE  IInv'
<1>1. \A s : Doubted(s)' = Doubted(s) /\ Counted(s)' = Counted(s)
  BY DEF Doubted, Counted, On
<1>2. \A s : Denied(s)' = Denied(s) /\ ConfirmedOnce(s)' = ConfirmedOnce(s)
  BY <1>1 DEF Denied, RejectedOnce, ConfirmedOnce
<1>3. TruthIsDecided' /\ QueueIsVoiced'
  BY <1>1, <1>2 DEF IInv, VInv, TruthIsDecided, QueueIsVoiced
<1>4. \A x : TellsDecision(x) => TellsDecision(x)'
  BY <1>2 DEF TellsDecision, ActualDecision
<1>5. ASSUME NEW q \in Requests PROVE AnswerSlot(txn[q])' /\ DecideSlot(txn[q])'
  <2>1. PICK t : t = txn'[q] /\ AnswerSlot(t) /\ DecideSlot(t)
    OBVIOUS
  <2>2. AnswerSlot(t)' /\ DecideSlot(t)'
    BY <1>4, <2>1 DEF AnswerSlot, DecideSlot
  <2> QED BY <2>1, <2>2 DEF AnswerSlot, DecideSlot
<1> QED BY <1>3, <1>4, <1>5 DEF IInv, VInv

LEMMA AnswerBegins ==
  ASSUME IInv, NEW r \in Requests, NEW u \in Users, NEW s \in SegmentIds,
         NEW d \in ModerationDecision, AnswerBegin(r, u, s, d)
  PROVE  IInv'
<1> DEFINE x == [user |-> u, segment |-> s, player |-> d,
                 actual |-> ActualDecision(segment[s])]
           t == [op |-> "answer", round |-> x]
<1>1. x \in Round
  BY DEF Round, ActualDecision, ModerationDecision
<1>2. TellsDecision(x)
  BY DEF IInv, TruthIsDecided, AnswerBegin, TellsDecision, ActualDecision
<1>3. Begin(r, t) /\ UNCHANGED rounds
  BY DEF AnswerBegin
<1> HIDE DEF x
<1>4. AnswerSlot(t) /\ SlotType(t)
  BY <1>1, <1>2 DEF AnswerSlot, AnswerTxn, SlotType
<1> HIDE DEF t
<1>5. TInv'
  BY <1>3, <1>4, BeginTypes DEF IInv
<1>6. /\ DOMAIN txn = Requests /\ txn' = [txn EXCEPT ![r] = t]
      /\ UNCHANGED <<segment, audit, annotations, deleted>>
  BY <1>3 DEF IInv, TInv, TypeOK, Begin
<1>7. \A q \in Requests : AnswerSlot(txn'[q])
  BY <1>4, <1>6 DEF IInv
<1>8. \A q \in Requests : DecideSlot(txn'[q])
  <2>1. t.op # "decide"
    BY DEF t
  <2> QED BY <1>6, <2>1 DEF IInv, VInv, DecideSlot
<1>9. rounds' \subseteq Round /\ \A x1 \in rounds' : TellsDecision(x1)
  BY <1>3 DEF IInv
<1> QED BY <1>5, <1>6, <1>7, <1>8, <1>9, GameKeeps

LEMMA AnswerCommits ==
  ASSUME IInv, NEW r \in Requests, AnswerCommit(r)
  PROVE  IInv'
<1> DEFINE x == txn[r].round
<1>1. x \in Round /\ TellsDecision(x)
  BY DEF IInv, AnswerSlot, AnswerTxn, AnswerCommit
<1>2. rounds' = rounds \cup {x} /\ Finish(r)
      /\ UNCHANGED <<segment, annotations, user, deleted, trips, audit>>
  BY DEF AnswerCommit
<1> HIDE DEF x
<1>3. DOMAIN txn' = Requests /\ \A q \in Requests : SlotType(txn'[q])
  BY <1>2, FinishTypes DEF IInv
<1>4. TInv'
  BY <1>2, <1>3 DEF IInv, TInv, TypeOK, Anns
<1>5. ASSUME NEW q \in Requests PROVE AnswerSlot(txn'[q]) /\ DecideSlot(txn'[q])
  BY <1>2 DEF IInv, VInv, TInv, TypeOK, Finish, AnswerSlot, DecideSlot, Idle
<1> QED BY <1>1, <1>2, <1>4, <1>5, GameKeeps DEF IInv

LEMMA SegmentStep ==
  ASSUME IInv, [Next]_vars, rounds' \subseteq rounds
  PROVE  IInv'
<1>1. TInv' /\ VInv' /\ Grows /\ \A s \in SegmentIds : Judgement(s)
  BY StepTypes, VoicesStep, AnswersStay, TruthStep DEF IInv
<1>2. TruthIsDecided'
  BY <1>1, TruthIsKept DEF IInv
<1>3. \A x \in rounds' : TellsDecision(x)'
  BY <1>1, TellsTrueStill DEF IInv
<1>4. ASSUME NEW r \in Requests PROVE AnswerSlot(txn[r])'
  <2> SUFFICES ASSUME txn'[r].op = "answer"
               PROVE  txn'[r] \in AnswerTxn /\ TellsDecision(txn[r].round)'
    BY DEF AnswerSlot
  <2>1. txn'[r] = txn[r]
    BY ForeignSlots DEF IInv, SegmentOps
  <2>2. txn[r] \in AnswerTxn /\ TellsDecision(txn[r].round)
    BY <2>1 DEF IInv, AnswerSlot
  <2>3. PICK x \in Round : x = txn[r].round
    BY <2>2 DEF AnswerTxn
  <2>4. TellsDecision(x)'
    BY <1>1, <2>2, <2>3, TellsTrueStill DEF IInv
  <2> QED BY <2>1, <2>2, <2>3, <2>4 DEF TellsDecision
<1> QED BY <1>1, <1>2, <1>3, <1>4 DEF IInv

LEMMA RoundsInit == InspectorInit => IInv
<1> SUFFICES ASSUME InspectorInit PROVE IInv
  OBVIOUS
<1>1. TInv
  BY InitTypes DEF InspectorInit
<1>2. ASSUME NEW s \in SegmentIds
      PROVE  segment[s].truth = NoVerdict /\ ~segment[s].queued
  <2> DEFINE first == [s |-> FirstSignal, c |-> 0, t |-> 0, a |-> Access[s],
               index |-> 0, since |-> 0, votes |-> 0, queued |-> FALSE,
               verified |-> FALSE, status |-> "watch", pool |-> FALSE,
               truth |-> NoVerdict, type |-> NoVerdict]
  <2>1. first \in Row
    BY SegmentsAssumption DEF Row, Factor, Statuses
  <2>2. segment[s] = Recalculate(first)
    BY DEF InspectorInit, Init, NewSegment
  <2> QED BY <2>1, <2>2, RecalculatedRow DEF Kept
<1> QED BY <1>1, <1>2 DEF InspectorInit, Init, IInv, VInv, QueueIsVoiced,
        DecideSlot, TruthIsDecided, AnswerSlot, Idle, NoVerdict

LEMMA RoundsAlways == InspectorSpec => []IInv
<1>1. ASSUME IInv, [InspectorNext]_ivars PROVE IInv'
  <2>1. CASE UNCHANGED ivars
    BY <1>1, <2>1, SegmentStep DEF ivars
  <2>2. CASE Next /\ rounds' = {x \in rounds : x.user \notin deleted'}
    BY <1>1, <2>2, SegmentStep
  <2> QED BY <1>1, <2>1, <2>2, AnswerBegins, AnswerCommits DEF InspectorNext
<1> QED BY <1>1, RoundsInit, PTL DEF InspectorSpec

(* Segments, annotations and rounds are of their types, whatever overlaps. *)
THEOREM InspectorTypeCorrect == InspectorSpec => []InspectorTypeOK
<1>1. IInv => InspectorTypeOK
  BY DEF IInv, TInv, InspectorTypeOK
<1> QED BY <1>1, RoundsAlways, PTL

(* What a player is told comes from a decision in the log, even if the     *)
(* inspector decides again between the question and the answer; and        *)
(* "rejected" comes from a rejection, or from a confirmation of annotators *)
(* of whom one saw no problem, or one has gone.                            *)
THEOREM PlayersAreToldDecisions == InspectorSpec => []RoundsTellDecisions
<1>1. ASSUME IInv PROVE RoundsTellDecisions
  <2> SUFFICES ASSUME NEW x \in rounds
               PROVE  /\ x.actual = "approve" => ConfirmedOnce(x.segment)
                      /\ x.actual = "reject" => Denied(x.segment)
                      /\ \A y \in rounds :
                           x.segment = y.segment /\ x.actual # y.actual
                             => Len(audit[x.segment]) > 1
    BY DEF RoundsTellDecisions, Logged, ConfirmedOnce, Denied, RejectedOnce, Doubted
  <2>1. TellsDecision(x) /\ x.segment \in SegmentIds
    BY <1>1 DEF IInv, Round
  <2>2. PICK n \in Nat : n = Len(audit[x.segment]) /\ n # 0
    BY <1>1, <2>1 DEF IInv, TInv, TypeOK, TellsDecision
  <2>3. ASSUME NEW y \in rounds, x.segment = y.segment, x.actual # y.actual
        PROVE  n > 1
    <3>1. n # 1
      BY <1>1, <2>1, <2>2, <2>3 DEF IInv, TellsDecision
    <3>2. n # 0
      BY <2>2
    <3> QED BY <3>1, <3>2
  <2> QED BY <2>1, <2>2, <2>3 DEF TellsDecision
<1> QED BY <1>1, RoundsAlways, PTL

-----------------------------------------------------------------------------
(* The game reads the segments and changes nothing about them: what was    *)
(* proved of Segments holds with it.                                       *)

LEMMA GameLeavesTables ==
  ASSUME TInv, Fresh, NEW r \in Requests,
         \/ \E u \in Users, s \in SegmentIds, d \in ModerationDecision :
              AnswerBegin(r, u, s, d)
         \/ AnswerCommit(r)
  PROVE  UNCHANGED tables /\ TInv' /\ Fresh'
<1>0. DOMAIN txn = Requests
  BY DEF TInv, TypeOK
<1>1. PICK t : /\ t.op \in {"answer", "idle"} /\ txn' = [txn EXCEPT ![r] = t]
              /\ UNCHANGED tables
  <2>1. CASE AnswerCommit(r)
    BY <2>1 DEF AnswerCommit, Finish, Idle, tables
  <2>2. CASE \E u \in Users, s \in SegmentIds, d \in ModerationDecision :
               AnswerBegin(r, u, s, d)
    <3>1. PICK u \in Users, s \in SegmentIds, d \in ModerationDecision :
            AnswerBegin(r, u, s, d)
      BY <2>2
    <3>2. PICK x : Begin(r, [op |-> "answer", round |-> x])
      BY <3>1 DEF AnswerBegin
    <3> QED BY <3>2 DEF Begin, tables
  <2> QED BY <2>1, <2>2
<1>2. SlotType(t) /\ FreshSlot(t)
  BY <1>1 DEF SlotType, FreshSlot
<1>3. \A q \in Requests : txn'[q] = IF q = r THEN t ELSE txn[q]
  BY <1>0, <1>1
<1>4. TInv'
  BY <1>0, <1>1, <1>2, <1>3 DEF TInv, TypeOK, tables, Anns
<1>5. ASSUME NEW q \in Requests PROVE FreshSlot(txn[q])'
  <2>1. CASE q = r
    BY <1>1, <1>3, <2>1 DEF FreshSlot
  <2>2. CASE q # r
    <3>1. PICK x : x = txn[q] /\ txn'[q] = x /\ FreshSlot(x)
      BY <1>3, <2>2 DEF Fresh
    <3>2. FreshSlot(x)'
      <4>1. \A s : Counted(s)' = Counted(s)
        BY <1>1 DEF tables, Counted, On
      <4>2. \A u : Of(u)' = Of(u)
        BY <1>1 DEF tables, Of
      <4> QED BY <1>1, <3>1, <4>1, <4>2 DEF FreshSlot, tables
    <3> QED BY <3>1, <3>2
  <2> QED BY <2>1, <2>2
<1> QED BY <1>1, <1>4, <1>5 DEF Fresh

LEMMA GameStep ==
  ASSUME OneAtATime, TInv, Fresh, SInv, [InspectorNext]_ivars
  PROVE  TInv' /\ Fresh' /\ SInv' /\ Effect
<1>1. CASE [Next]_vars
  BY <1>1, StepHolds, Effects
<1>2. ASSUME TInv', Fresh', UNCHANGED tables PROVE TInv' /\ Fresh' /\ SInv' /\ Effect
  <2>1. Effect
    BY <1>2 DEF Effect
  <2> QED BY <1>2, <2>1, EffectKeeps
<1> QED BY <1>1, <1>2, GameLeavesTables DEF InspectorNext, ivars

LEMMA SegmentsStayTrue == OneAtATime /\ InspectorSpec => [](TInv /\ Fresh /\ SInv)
<1> SUFFICES ASSUME OneAtATime PROVE InspectorSpec => [](TInv /\ Fresh /\ SInv)
  OBVIOUS
<1>1. TInv /\ Fresh /\ SInv /\ [InspectorNext]_ivars => (TInv /\ Fresh /\ SInv)'
  BY GameStep
<1>2. InspectorInit => TInv /\ Fresh /\ SInv
  BY InitTypes, InitHolds DEF InspectorInit
<1> QED BY <1>1, <1>2, PTL DEF InspectorSpec

(* The invariants of the segments hold while the game is played.           *)
THEOREM GameKeepsSegments ==
  OneAtATime /\ InspectorSpec =>
    [](IndexIsFormula /\ QueuedIffAgreed /\ TalliesAreReal /\ AuditTellsVerified)
<1>1. SInv => IndexIsFormula /\ QueuedIffAgreed /\ TalliesAreReal /\ AuditTellsVerified
  BY DEF SInv
<1> QED BY <1>1, SegmentsStayTrue, PTL

(* So do what their steps may never do and the life they follow.           *)
THEOREM GameKeepsPromises ==
  OneAtATime /\ InspectorSpec => VerifiedIsClosed /\ RatedOnce /\ ImplementsLife
<1> SUFFICES ASSUME OneAtATime
             PROVE  InspectorSpec => VerifiedIsClosed /\ RatedOnce /\ ImplementsLife
  OBVIOUS
<1>1. TInv /\ Fresh /\ SInv /\ [InspectorNext]_ivars =>
        [\A s \in SegmentIds :
           segment[s].verified /\ On(s)' # On(s) => segment'[s] = segment[s]]_vars
  BY GameStep, ClosedStep
<1>2. TInv /\ Fresh /\ SInv /\ [InspectorNext]_ivars =>
        [\A u \in Users \ deleted' : user'[u].reputation \in
           {user[u].reputation, AdjustReputation(user[u].reputation, TRUE),
            AdjustReputation(user[u].reputation, FALSE)}]_vars
  BY GameStep, RatedStep
<1>3. TInv /\ Fresh /\ SInv /\ [InspectorNext]_ivars => [Life!Next]_(Life!lvars)
  BY GameStep, LifeStep DEF SInv
<1>4. InspectorInit => Life!Init
  BY LifeInit DEF InspectorInit
<1> QED BY <1>1, <1>2, <1>3, <1>4, SegmentsStayTrue, PTL
        DEF InspectorSpec, VerifiedIsClosed, RatedOnce, ImplementsLife, Life!Spec
=============================================================================
