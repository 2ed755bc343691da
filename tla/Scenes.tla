--------------------------------- MODULE Scenes ---------------------------------
(***************************************************************************)
(* Satellite scenes of the segments and the requests for new ones:         *)
(* ingest_scene of api/v1/segments.py, create_request of api/v1/imagery.py *)
(* and services/growth.py.  A handler loads what it needs in a Begin step  *)
(* and commits in another.                                                 *)
(*                                                                         *)
(* Segments knows a scene only as a signal and some boost of factor S;     *)
(* here the boost comes from the areas of the scenes (ImplementsSegments). *)
(***************************************************************************)
EXTENDS Growth

CONSTANTS SegmentIds, Requests,
          Access,       \* factor A of a segment
          FirstSignal,  \* factor S a segment is created with
          Signals,      \* signals the pipeline may send with a scene
          NoSignal,     \* a scene without a signal
          Areas,        \* areas the pipeline may measure
          Dates,        \* days on which scenes are captured
          MaxScenes,    \* bound: scenes in the table
          MaxImagery    \* bound: requests in the table

ASSUME ScenesAssumption ==
  /\ Access \in [SegmentIds -> Factor]
  /\ FirstSignal \in Factor
  /\ Signals \subseteq Factor
  /\ NoSignal \notin Int
  /\ Areas \subseteq Nat
  /\ Dates \subseteq Nat
  /\ MaxScenes \in Nat /\ MaxImagery \in Nat

VARIABLES row,      \* table segments: factors, index and growth_rate
          scenes,   \* table scenes, numbered in the order of arrival
          imagery,  \* table imagery_requests
          txn,      \* by slot, the request in flight and what it loaded
          signal    \* history: the last signal of the pipeline

svars == <<row, scenes, imagery, txn, signal>>

Priorities == {"normal", "urgent"}
Row == [s: Factor, c: Factor, t: Factor, a: Factor, index: Factor,
        since: {0}, rate: Int \cup {NoRate}]
Scene == [n: 1 .. MaxScenes, segment: SegmentIds, date: Dates,
          area: Areas \cup {NoArea}]
Imagery == [n: 1 .. MaxImagery, segment: SegmentIds, priority: Priorities,
            status: {"queued", "accepted", "delivered", "rejected"}]
Idle == [op |-> "idle"]
IngestTxn == [op: {"ingest"}, segment: SegmentIds, row: Row,
              others: SUBSET Scene, date: Dates, area: Areas \cup {NoArea},
              sent: Signals \cup {NoSignal}]
RequestTxn == [op: {"request"}, segment: SegmentIds, priority: Priorities]

TypeOK ==
  /\ row \in [SegmentIds -> Row]
  /\ scenes \subseteq Scene
  /\ imagery \subseteq Imagery
  /\ txn \in [Requests -> {Idle} \cup IngestTxn \cup RequestTxn]
  /\ signal \in [SegmentIds -> Factor]

Init ==
  /\ row = [s \in SegmentIds |->
       Recalculate([s |-> FirstSignal, c |-> 0, t |-> 0, a |-> Access[s],
                    index |-> 0, since |-> 0, rate |-> NoRate])]
  /\ scenes = {}
  /\ imagery = {}
  /\ txn = [r \in Requests |-> Idle]
  /\ signal = [s \in SegmentIds |-> FirstSignal]

-----------------------------------------------------------------------------
Flush(current, loaded, new) ==
  [f \in DOMAIN current |-> IF new[f] = loaded[f] THEN current[f] ELSE new[f]]

ScenesOf(s) == {x \in scenes : x.segment = s}

Begin(r, record) == /\ txn[r] = Idle
                    /\ txn' = [txn EXCEPT ![r] = record]
                    /\ UNCHANGED <<row, scenes, imagery, signal>>
Finish(r) == txn' = [txn EXCEPT ![r] = Idle]

(* Rolled back: the connection or the server fails. *)
Abort(r) ==
  /\ txn[r] # Idle
  /\ Finish(r)
  /\ UNCHANGED <<row, scenes, imagery, signal>>

-----------------------------------------------------------------------------
(* POST /segments/{id}/scenes: scenes arrive in any order of their dates,  *)
(* measured or not, with or without a signal.                              *)

IngestBegin(r, s, date, area, sent) ==
  /\ Cardinality(scenes) < MaxScenes
  /\ Begin(r, [op |-> "ingest", segment |-> s, row |-> row[s],
               others |-> ScenesOf(s), date |-> date, area |-> area,
               sent |-> sent])

(* The rate is that of the loaded scenes and the new one.  A boost starts  *)
(* from the signal sent with the scene, or from S as it is stored.         *)
IngestCommit(r) ==
  LET t == txn[r]
      new == [n |-> Cardinality(scenes) + 1, segment |-> t.segment,
              date |-> t.date, area |-> t.area]
      base == IF t.sent = NoSignal THEN t.row.s ELSE t.sent
  IN /\ t.op = "ingest"
     /\ new.n <= MaxScenes
     /\ \E rate \in ComputeGrowth(t.others \cup {new}, new) :
          row' = [row EXCEPT ![t.segment] = Flush(@, t.row,
            Recalculate([t.row EXCEPT !.rate = rate,
                                      !.s = BoostedSignal(base, rate)]))]
     /\ scenes' = scenes \cup {new}
     /\ signal' = IF t.sent = NoSignal THEN signal
                  ELSE [signal EXCEPT ![t.segment] = t.sent]
     /\ Finish(r)
     /\ UNCHANGED imagery

-----------------------------------------------------------------------------
(* POST /segments/{id}/imagery-requests *)

(* ImageryRequest.is_active *)
IsActive(q) == q.status \in {"queued", "accepted"}

Blocking(s) ==
  {q \in imagery : q.segment = s /\ q.status \in {"queued", "accepted"}}

(* A growing dump is urgent. *)
RequestBegin(r, s, priority) ==
  /\ Blocking(s) = {}
  /\ Cardinality(imagery) < MaxImagery
  /\ Begin(r, [op |-> "request", segment |-> s,
               priority |-> IF IsGrowing(row[s].rate) THEN "urgent"
                            ELSE priority])

RequestCommit(r) ==
  LET t == txn[r]
      n == Cardinality(imagery) + 1
  IN /\ t.op = "request"
     /\ n <= MaxImagery
     /\ imagery' = imagery \cup
          {[n |-> n, segment |-> t.segment, priority |-> t.priority,
            status |-> "queued"]}
     /\ Finish(r)
     /\ UNCHANGED <<row, scenes, signal>>

(* The operator of the satellites; the program has no handler for it. *)
OperatorAnswers(q, status) ==
  /\ \/ q.status = "queued" /\ status \in {"accepted", "rejected"}
     \/ q.status = "accepted" /\ status \in {"delivered", "rejected"}
  /\ imagery' = (imagery \ {q}) \cup {[q EXCEPT !.status = status]}
  /\ UNCHANGED <<row, scenes, txn, signal>>

-----------------------------------------------------------------------------
Handler(r) ==
  \/ \E s \in SegmentIds, date \in Dates, area \in Areas \cup {NoArea},
        sent \in Signals \cup {NoSignal} : IngestBegin(r, s, date, area, sent)
  \/ \E s \in SegmentIds, p \in Priorities : RequestBegin(r, s, p)
  \/ IngestCommit(r) \/ RequestCommit(r) \/ Abort(r)

Operator ==
  \E q \in imagery, status \in {"accepted", "delivered", "rejected"} :
    OperatorAnswers(q, status)

Next == Operator \/ \E r \in Requests : Handler(r)

Spec == Init /\ [][Next]_svars

-----------------------------------------------------------------------------
(* Properties *)

(* growth.py:41-44, geo.py:150-153: growth_rate is that of the two latest  *)
(* measured scenes of all that are stored, in whatever order they arrived  *)
(* and however many are not measured.                                      *)
RateIsOfLatest ==
  \A s \in SegmentIds :
    LET measured == MeasuredScenes(ScenesOf(s))
    IN IF Cardinality(measured) < 2 THEN row[s].rate = NoRate
       ELSE \E p, l \in measured :
              /\ p # l /\ p.date <= l.date
              /\ \A x \in measured \ {p, l} : x.date <= p.date
              /\ row[s].rate = RateOf(p.area, l.area)

(* growth.py:67-69: growth raises S above the signal of the pipeline by    *)
(* no more than the full boost.                                            *)
BoostIsLimited ==
  \A s \in SegmentIds : row[s].s <= signal[s] + GrowthSignalBoost

(* The segment and the requests in flight as Segments sees them. *)
AsSegment(x) ==
  [s |-> x.s, c |-> x.c, t |-> x.t, a |-> x.a, index |-> x.index,
   since |-> x.since, votes |-> 0, queued |-> FALSE, verified |-> FALSE,
   status |-> "watch", pool |-> FALSE, truth |-> "null",
   type |-> "null"]
AsRequest(t) ==
  IF t.op = "ingest"
  THEN [op |-> "ingest", id |-> t.segment, row |-> AsSegment(t.row)]
  ELSE [op |-> "idle"]

Life == INSTANCE Segments WITH
  Users <- {}, Boosts <- 0 .. GrowthSignalBoost, Period <- 1,
  MaxDecisions <- 0, MaxAnnotations <- 0, MaxRemoved <- 0,
  VotesRequired <- 1, MinControlTasks <- 1,
  segment <- [s \in SegmentIds |-> AsSegment(row[s])],
  annotations <- {}, user <- [u \in {} |-> 0], deleted <- {}, trips <- {},
  txn <- [r \in Requests |-> AsRequest(txn[r])],
  audit <- [s \in SegmentIds |-> <<>>]

(* segments.py:254-310: to the rest of the system a scene is a signal, or  *)
(* none, and a boost of S between 0 and the limit, with the index          *)
(* recalculated: what Segments assumes of IngestCommit.                    *)
ImplementsSegments == Life!Spec
=============================================================================
