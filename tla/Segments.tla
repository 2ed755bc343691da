------------------------------- MODULE Segments -------------------------------
(***************************************************************************)
(* The life of a segment of the shore: annotations and their consensus,    *)
(* the moderation queue and the inspector's decisions, new scenes and the  *)
(* cleanup that ends the cycle (api/v1/annotations.py, moderation.py,      *)
(* segments.py ingest_scene).                                              *)
(*                                                                         *)
(* A handler loads its rows in a Begin step and writes the columns it      *)
(* changed in a Commit step.  With one slot in Requests the handlers run   *)
(* one after the other; with two they overlap as READ COMMITTED allows.    *)
(***************************************************************************)
EXTENDS Attention, Consensus, Sequences

CONSTANTS Users, SegmentIds, Requests,
          Access,         \* factor A of a segment, set by the territory
          FirstSignal,    \* factor S a segment is created with
          Signals,        \* signals a scene may bring
          Boosts,         \* increases of S by detected growth, 0 if none
          Period,         \* days by which time advances, 0 if it does not
          MaxDecisions,   \* bound: decisions in the audit log
          MaxAnnotations, \* bound: annotations in the table
          MaxRemoved      \* bound: accounts removed

ASSUME SegmentsAssumption ==
  /\ Access \in [SegmentIds -> Factor]
  /\ FirstSignal \in Factor
  /\ Signals \subseteq Factor
  /\ Boosts \subseteq 0 .. 20
  /\ Period \in Nat
  /\ {MaxDecisions, MaxAnnotations, MaxRemoved} \subseteq Nat

VARIABLES segment,      \* table segments
          annotations,  \* table annotations
          user,         \* reputation and counters of the table users
          deleted,      \* users whose account was removed
          trips,        \* segments for which an event was created
          txn,          \* by slot, the request in flight and what it loaded
          audit         \* table audit_log: the decisions on each segment

vars == <<segment, annotations, user, deleted, trips, txn, audit>>

Statuses == {"watch", "problem", "work", "clean"}
Row == [s: Factor, c: Factor, t: Factor, a: Factor, index: Factor,
        since: Nat, votes: Nat, queued: BOOLEAN, verified: BOOLEAN,
        status: Statuses, pool: BOOLEAN, truth: Verdicts \cup {NoVerdict},
        type: Verdicts \cup {NoVerdict}]
UserRow == [reputation: Reputation, tasks: Nat, correct: Nat, count: Nat]
Annotation == [user: Users, segment: SegmentIds, verdict: Verdicts,
               weight: Reputation, control: BOOLEAN]
AuditActions == {"approved", "rejected"}
Idle == [op |-> "idle"]

TypeOK ==
  /\ segment \in [SegmentIds -> Row]
  /\ annotations \subseteq Annotation
  /\ user \in [Users -> UserRow]
  /\ deleted \subseteq Users
  /\ trips \subseteq SegmentIds
  /\ DOMAIN txn = Requests
  /\ audit \in [SegmentIds -> Seq(AuditActions)]

NewSegment(s) ==
  Recalculate([s |-> FirstSignal, c |-> 0, t |-> 0, a |-> Access[s],
               index |-> 0, since |-> 0, votes |-> 0, queued |-> FALSE,
               verified |-> FALSE, status |-> "watch", pool |-> FALSE,
               truth |-> NoVerdict, type |-> NoVerdict])

NewUser == [reputation |-> 100, tasks |-> 0, correct |-> 0, count |-> 0]

Init ==
  /\ segment = [s \in SegmentIds |-> NewSegment(s)]
  /\ annotations = {}
  /\ user = [u \in Users |-> NewUser]
  /\ deleted = {}
  /\ trips = {}
  /\ txn = [r \in Requests |-> Idle]
  /\ audit = [s \in SegmentIds |-> <<>>]

-----------------------------------------------------------------------------
(* The flush of the ORM writes the columns the handler changed. *)
Flush(current, loaded, new) ==
  [f \in DOMAIN current |-> IF new[f] = loaded[f] THEN current[f] ELSE new[f]]

On(s) == {n \in annotations : n.segment = s}
Counted(s) == {n \in On(s) : ~n.control}
Of(u) == {n \in annotations : n.user = u}

(* Mutant: the unique key of annotations includes the verdict. *)
SameAnswer(m, n) == /\ m.user = n.user /\ m.segment = n.segment
                    /\ m.verdict = n.verdict
SameKey(m, n) == m.user = n.user /\ m.segment = n.segment
InQueue(row) == row.queued /\ ~row.verified

Begin(r, record) == /\ txn[r] = Idle
                    /\ txn' = [txn EXCEPT ![r] = record]
                    /\ UNCHANGED <<segment, annotations, user, deleted,
                                   trips, audit>>
Finish(r) == txn' = [txn EXCEPT ![r] = Idle]

(* Rolled back: a failure, or a violated unique key (user, segment). *)
Abort(r) ==
  /\ txn[r] # Idle
  /\ Finish(r)
  /\ UNCHANGED <<segment, annotations, user, deleted, trips, audit>>

-----------------------------------------------------------------------------
(* The world outside the requests. *)

(* Days pass between requests, which last for less than a second. *)
TimePasses ==
  /\ \A r \in Requests : txn[r] = Idle
  /\ \E s \in SegmentIds : segment[s].since < SaturationDays
  /\ segment' = [s \in SegmentIds |->
       [segment[s] EXCEPT !.since = IF @ + Period < SaturationDays
                                    THEN @ + Period ELSE SaturationDays]]
  /\ UNCHANGED <<annotations, user, deleted, trips, txn, audit>>

(* An account is removed on request; its annotations go with it (the       *)
(* foreign key cascades), the aggregates of the segments stay.  The row of *)
(* a removed user means nothing any more.                                  *)
AccountRemoved(u) ==
  /\ u \notin deleted
  /\ Cardinality(deleted) < MaxRemoved
  /\ \A r \in Requests : txn[r] = Idle
  /\ deleted' = deleted \cup {u}
  /\ annotations' = annotations \ Of(u)
  /\ user' = [user EXCEPT ![u] = NewUser]
  /\ UNCHANGED <<segment, trips, txn, audit>>

(* Mutant: an event is organised for a segment nobody has confirmed. *)
CreateEventAnywhere(s) ==
  /\ s \notin trips
  /\ trips' = trips \cup {s}
  /\ UNCHANGED <<segment, annotations, user, deleted, txn, audit>>

(* POST /events, events.create_event: only for a confirmed segment. *)
CreateEvent(s) ==
  /\ s \notin trips
  /\ segment[s].verified /\ segment[s].status = "work"
  /\ trips' = trips \cup {s}
  /\ UNCHANGED <<segment, annotations, user, deleted, txn, audit>>

-----------------------------------------------------------------------------
(* POST /annotations *)

(* Mutant: a confirmed segment is not protected. *)
AnnotateVerified(r, u, s, v) ==
  LET row == segment[s]
  IN /\ u \notin deleted
     /\ Cardinality(annotations) < MaxAnnotations
     /\ Begin(r, [op |-> "annotate", row |-> row, author |-> user[u],
                  mine |-> [user |-> u, segment |-> s, verdict |-> v,
                            weight |-> BlendReputation(user[u]),
                            control |-> row.pool /\ row.truth # NoVerdict]])

AnnotateBegin(r, u, s, v) ==
  LET row == segment[s]
      control == row.pool /\ row.truth # NoVerdict
  IN /\ u \notin deleted
     /\ row.verified => control
     /\ Cardinality(annotations) < MaxAnnotations
     /\ Begin(r, [op |-> "annotate", row |-> row, author |-> user[u],
                  mine |-> [user |-> u, segment |-> s, verdict |-> v,
                            weight |-> BlendReputation(user[u]),
                            control |-> control]])

(* A request with a flushed, uncommitted annotation ("moved": see Duels). *)
Inserted(q) == txn[q].op \in {"inserted", "moved"}

(* The insert is flushed.  A second annotation of the same user waits for  *)
(* the first and is refused (Abort).  The request then reads the committed *)
(* annotations and its own, not those other requests have not committed.   *)
AnnotateInsert(r) ==
  LET t == txn[r]
      n == t.mine
  IN /\ t.op = "annotate"
     /\ ~\E m \in annotations : SameKey(m, n)
     /\ ~\E q \in Requests : Inserted(q) /\ SameKey(txn[q].mine, n)
     /\ txn' = [txn EXCEPT ![r] =
          [op |-> "inserted", row |-> t.row, author |-> t.author, mine |-> n,
           read |-> Counted(n.segment) \cup {n},
           count |-> Cardinality(Of(n.user)) + 1]]
     /\ UNCHANGED <<segment, annotations, user, deleted, trips, audit>>

(* Mutants of WithConsensus: a further vote takes the segment out of the   *)
(* queue; every answer counts as a vote; the index is recalculated before  *)
(* the factor C is set.                                                    *)
ForgetsQueue(row, anns) ==
  Recalculate([row EXCEPT !.votes = Votes(anns), !.c = FactorC(anns),
                          !.queued = Reached(anns) /\ ~@])
CountsAll(row, anns) ==
  Recalculate([row EXCEPT !.votes = Cardinality(anns), !.c = FactorC(anns),
                          !.queued = @ \/ Reached(anns)])
IndexTooEarly(row, anns) ==
  [Recalculate(row) EXCEPT !.votes = Votes(anns), !.c = FactorC(anns),
                           !.queued = @ \/ Reached(anns)]

(* The effect of a counted annotation on the row of its segment. *)
WithConsensus(row, anns) ==
  LET queue == Reached(anns) /\ ~row.queued
  IN Recalculate([row EXCEPT
       !.votes = Votes(anns),
       !.c = FactorC(anns),
       !.queued = @ \/ queue,
       !.status = IF queue /\ @ = "watch" THEN "problem" ELSE @])

AnnotateCommit(r) ==
  LET t == txn[r]
      n == t.mine
      author == [t.author EXCEPT !.count = t.count]
  IN /\ t.op = "inserted" /\ ~n.control
     /\ \E type \in PrevailingVerdicts(t.read) :
          segment' = [segment EXCEPT ![n.segment] =
            Flush(@, t.row, [WithConsensus(t.row, t.read) EXCEPT !.type = type])]
     /\ user' = [user EXCEPT ![n.user] = Flush(@, t.author, author)]
     /\ annotations' = annotations \cup {n}
     /\ Finish(r)
     /\ UNCHANGED <<deleted, trips, audit>>

(* The author's row after a control task (record_result). *)
Hit(t) == IF CheckAnswer(t.row.truth, t.mine.verdict) THEN 1 ELSE 0

Measured(t) ==
  [t.author EXCEPT !.tasks = @ + 1, !.correct = @ + Hit(t), !.count = t.count]

(* A hidden control task measures the annotator and leaves the segment.    *)
ControlCommit(r) ==
  LET t == txn[r]
      n == t.mine
  IN /\ t.op = "inserted" /\ n.control
     /\ user' = [user EXCEPT ![n.user] = Flush(@, t.author, Measured(t))]
     /\ annotations' = annotations \cup {n}
     /\ Finish(r)
     /\ UNCHANGED <<segment, deleted, trips, audit>>

-----------------------------------------------------------------------------
(* GET /moderation/segments: compares the aggregates of the queue with the *)
(* annotations and repairs them.                                           *)

QueueBegin(r) ==
  /\ \E s \in SegmentIds : InQueue(segment[s])
  /\ Begin(r, [op |-> "queue", rows |-> segment, anns |-> annotations])

Repaired(row, anns) ==
  LET fixed == Recalculate([row EXCEPT !.votes = Votes(anns),
                                       !.c = FactorC(anns)])
  IN IF row.votes = Votes(anns) /\ row.c = FactorC(anns) THEN row
     ELSE IF anns = {} THEN [fixed EXCEPT !.queued = FALSE, !.status = "watch"]
     ELSE fixed

QueueCommit(r) ==
  LET t == txn[r]
      AnnsOn(s) == {n \in t.anns : n.segment = s}
  IN /\ t.op = "queue"
     /\ segment' = [s \in SegmentIds |->
          IF InQueue(t.rows[s])
          THEN Flush(segment[s], t.rows[s], Repaired(t.rows[s], AnnsOn(s)))
          ELSE segment[s]]
     /\ Finish(r)
     /\ UNCHANGED <<annotations, user, deleted, trips, audit>>

-----------------------------------------------------------------------------
(* POST /moderation/segments/{id} and /moderation/segments/batch *)

Decision(row, approved) ==
  IF approved
  THEN [row EXCEPT !.verified = TRUE, !.status = "work"]
  ELSE [row EXCEPT !.verified = FALSE, !.queued = FALSE, !.votes = 0,
                   !.status = "watch", !.c = Clamp01(@ - 25)]

Load(op, ids, approved) ==
  [op |-> op, ids |-> ids, approved |-> approved, rows |-> segment,
   anns |-> annotations, users |-> user]

Authors(anns, ids) == {n.user : n \in {m \in anns : m.segment \in ids}}

(* Mutant: an author of two of the segments is rated twice. *)
RatedPerSegment(t) ==
  [u \in Users |->
     IF u \in Authors(t.anns, t.ids)
     THEN [user[u] EXCEPT !.reputation =
             IF Cardinality({n \in t.anns : n.user = u /\ n.segment \in t.ids}) = 1
             THEN AdjustReputation(@, t.approved)
             ELSE AdjustReputation(AdjustReputation(@, t.approved), t.approved)]
     ELSE user[u]]

(* Every author on the decided segments is rated once. *)
Rated(t) ==
  [u \in Users |->
     IF u \in Authors(t.anns, t.ids)
     THEN Flush(user[u], t.users[u],
                [t.users[u] EXCEPT !.reputation =
                   AdjustReputation(@, t.approved)])
     ELSE user[u]]

(* audit.record, in the transaction of the decision itself.  Mutant: only  *)
(* confirmations are recorded.                                             *)
RecordedIfApproved(t) ==
  [s \in SegmentIds |->
     IF s \in t.ids /\ t.approved THEN Append(audit[s], "approved")
     ELSE audit[s]]
Recorded(t) ==
  [s \in SegmentIds |->
     IF s \in t.ids
     THEN Append(audit[s], IF t.approved THEN "approved" ELSE "rejected")
     ELSE audit[s]]

RoomFor(n) ==
  MapThenSumSet(LAMBDA s : Len(audit[s]), SegmentIds) + n <= MaxDecisions

DecideBegin(r, s, approved) ==
  /\ segment[s].queued
  /\ RoomFor(1)
  /\ Begin(r, Load("decide", {s}, approved))

(* The decided segment also becomes a control task with a known answer. *)
DecideCommit(r) ==
  LET t == txn[r]
      Pooled(row, s, prevailing) ==
        [row EXCEPT !.pool = TRUE,
                    !.truth = TruthFromDecision(t.approved, prevailing)]
  IN /\ t.op = "decide"
     /\ \E s \in t.ids : \E v \in PrevailingVerdicts({n \in t.anns :
                                                        n.segment = s}) :
          segment' = [segment EXCEPT ![s] = Flush(@, t.rows[s],
            Recalculate(Decision(Pooled(t.rows[s], s, v), t.approved)))]
     /\ user' = Rated(t)
     /\ audit' = Recorded(t)
     /\ Finish(r)
     /\ UNCHANGED <<annotations, deleted, trips>>

(* Segments out of the queue are skipped, the others are decided together. *)
(* The list names each segment once: a second mention could only repeat an *)
(* approval, which adds an entry to the log and changes nothing else.      *)
BatchBegin(r, ids, approved) ==
  LET applied == {s \in ids : segment[s].queued}
  IN /\ applied # {}
     /\ RoomFor(Cardinality(applied))
     /\ Begin(r, Load("batch", applied, approved))

BatchCommit(r) ==
  LET t == txn[r]
  IN /\ t.op = "batch"
     /\ segment' = [s \in SegmentIds |->
          IF s \in t.ids
          THEN Flush(segment[s], t.rows[s],
                     Recalculate(Decision(t.rows[s], t.approved)))
          ELSE segment[s]]
     /\ user' = Rated(t)
     /\ audit' = Recorded(t)
     /\ Finish(r)
     /\ UNCHANGED <<annotations, deleted, trips>>

-----------------------------------------------------------------------------
(* POST /segments/{id}/scenes: a scene with or without a signal; growth of *)
(* the anomaly between the last two measured scenes raises S.              *)

IngestBegin(r, s) == Begin(r, [op |-> "ingest", id |-> s, row |-> segment[s]])

IngestCommit(r) ==
  LET t == txn[r]
  IN /\ t.op = "ingest"
     /\ \E signal \in Signals \cup {t.row.s}, boost \in Boosts :
          segment' = [segment EXCEPT ![t.id] = Flush(@, t.row,
            Recalculate([t.row EXCEPT !.s = Clamp01(signal + boost)]))]
     /\ Finish(r)
     /\ UNCHANGED <<annotations, user, deleted, trips, audit>>

(* POST /moderation/reports/{id}, approved: what decide_report does to the *)
(* segment of a report from a trip; FieldReports has the rest of it.       *)
CleanupBegin(r, s) ==
  /\ s \in trips
  /\ Begin(r, [op |-> "cleanup", id |-> s, row |-> segment[s]])

CleanupCommit(r) ==
  LET t == txn[r]
  IN /\ t.op = "cleanup"
     /\ segment' =
          IF t.row.status = "clean" THEN segment
          ELSE [segment EXCEPT ![t.id] = Flush(@, t.row,
                  ApplyCleanup([t.row EXCEPT !.status = "clean"]))]
     /\ Finish(r)
     /\ UNCHANGED <<annotations, user, deleted, trips, audit>>

-----------------------------------------------------------------------------
Environment ==
  TimePasses \/ (\E u \in Users : AccountRemoved(u))
             \/ (\E s \in SegmentIds : CreateEvent(s))

Start(r) ==
  \/ \E u \in Users, s \in SegmentIds, v \in Verdicts : AnnotateBegin(r, u, s, v)
  \/ QueueBegin(r)
  \/ \E s \in SegmentIds, a \in BOOLEAN : DecideBegin(r, s, a)
  \/ \E ids \in SUBSET SegmentIds, a \in BOOLEAN : BatchBegin(r, ids, a)
  \/ \E s \in SegmentIds : IngestBegin(r, s) \/ CleanupBegin(r, s)

Continue(r) ==
  \/ AnnotateInsert(r) \/ AnnotateCommit(r) \/ ControlCommit(r)
  \/ QueueCommit(r) \/ DecideCommit(r) \/ BatchCommit(r)
  \/ IngestCommit(r) \/ CleanupCommit(r) \/ Abort(r)

Next == Environment \/ \E r \in Requests : Start(r) \/ Continue(r)

Spec == Init /\ [][Next]_vars

-----------------------------------------------------------------------------
(* Properties *)

(* attention.py:9-11, geo.py:68-70: the stored index is always the formula *)
(* of the stored factors; otherwise the inspector travels to the wrong     *)
(* place.                                                                  *)
IndexIsFormula ==
  \A s \in SegmentIds :
    LET row == segment[s]
    IN row.index = ComputeIndex(row.s, row.c, row.t, row.a)

(* consensus.py:13-14: a segment nobody has decided on is queued exactly   *)
(* when enough independent annotations confirm the problem (as long as no  *)
(* account was removed).                                                   *)
QueuedIffAgreed ==
  deleted = {} => \A s \in SegmentIds :
    audit[s] = <<>> => (segment[s].queued <=> Reached(Counted(s)))

(* The stored tallies are those of the annotations.  The votes shown on    *)
(* the map are those of the counted annotations, or zero after a decision, *)
(* also when the queue was repaired from all annotations: only an answer   *)
(* in the pool is a control answer, and with the handlers of this module   *)
(* nothing puts a pooled segment back into the queue (a move of a duel     *)
(* does: see Duels).  The profile counts every annotation its owner made,  *)
(* control tasks included (annotations.py:147, 200), as long as no account *)
(* was removed.                                                            *)
TalliesAreReal ==
  /\ deleted = {} => \A s \in SegmentIds :
       \/ segment[s].votes = Votes(Counted(s))
       \/ audit[s] # <<>> /\ segment[s].votes = 0
  /\ \A u \in Users \ deleted : user[u].count = Cardinality(Of(u))

(* An inspector's confirmation is final for annotators: no later answer    *)
(* changes anything about a verified segment (annotations.py:115-117,      *)
(* 140-142).                                                               *)
VerifiedIsClosed ==
  [][\A s \in SegmentIds :
       segment[s].verified /\ On(s)' # On(s) => segment'[s] = segment[s]]_vars

(* One decision, over however many segments, rates each annotator once     *)
(* (moderation.py:213-214).                                                *)
RatedOnce ==
  [][\A u \in Users \ deleted' : user'[u].reputation \in
       {user[u].reputation, AdjustReputation(user[u].reputation, TRUE),
        AdjustReputation(user[u].reputation, FALSE)}]_vars

(* services/audit.py:25-27: no segment is confirmed without its decision   *)
(* in the journal, nor is a decision there that does not hold: the last    *)
(* entry of a segment tells whether it is verified, after any sequence of  *)
(* single and batch decisions, repairs, cleanups and failed requests.      *)
AuditTellsVerified ==
  \A s \in SegmentIds :
    segment[s].verified <=> /\ audit[s] # <<>>
                            /\ audit[s][Len(audit[s])] = "approved"

(* moderation.py:282-283: a rejected segment returns to observation, so    *)
(* that whoever annotates a segment nobody has confirmed casts a vote.     *)
RejectedIsObserved ==
  [][\A n \in annotations' \ annotations :
       ~segment[n.segment].verified => ~n.control]_vars

Life == INSTANCE SegmentLife WITH
  status <- [s \in SegmentIds |-> segment[s].status],
  confirmed <- [s \in SegmentIds |-> segment[s].verified],
  log <- audit

(* enums.py:33-37: the statuses of a segment follow one another as the     *)
(* life of a segment says, whatever requests make the steps: only an       *)
(* inspector leads it into work, and it is clean only after that.          *)
ImplementsLife == Life!Spec
=============================================================================
