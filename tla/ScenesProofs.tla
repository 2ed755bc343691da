------------------------------ MODULE ScenesProofs ------------------------------
(***************************************************************************)
(* Theorems of Scenes for every segment, territory, signal, area and bound. *)
(***************************************************************************)
EXTENDS Scenes, FiniteSetTheorems, TLAPS

LEMMA ClampIsFactor ==
  ASSUME NEW x \in Int
  PROVE  Clamp01(x) \in Factor
BY DEF Clamp01, Factor

LEMMA RateIsInt ==
  ASSUME NEW from \in Nat, NEW to \in Nat
  PROVE  RateOf(from, to) \in Int
BY DEF RateOf

(* The boost of a factor lies between 0 and the limit. *)
LEMMA BoostIsSmall ==
  ASSUME NEW s \in Factor, NEW rate \in Int \cup {NoRate}
  PROVE  \E boost \in 0 .. GrowthSignalBoost :
           BoostedSignal(s, rate) = Clamp01(s + boost)
<1>1. CASE IsGrowing(rate)
  <2> DEFINE share == IF rate < 100 THEN rate ELSE 100
  <2>1. rate \in Int /\ share \in 15 .. 100
    BY <1>1 DEF IsGrowing, GrowthAlertThreshold
  <2>2. Boost(share) \in 0 .. GrowthSignalBoost
    BY <2>1 DEF Boost, GrowthSignalBoost
  <2>3. BoostedSignal(s, rate) = Clamp01(s + Boost(share))
    BY <1>1 DEF BoostedSignal
  <2> QED BY <2>2, <2>3
<1>2. CASE ~IsGrowing(rate)
  <2>1. BoostedSignal(s, rate) = Clamp01(s + 0)
    BY <1>2 DEF BoostedSignal, Clamp01, Factor
  <2> QED BY <2>1 DEF GrowthSignalBoost
<1> QED BY <1>1, <1>2

LEMMA IndexIsFactor ==
  ASSUME NEW s \in Factor, NEW c \in Factor, NEW t \in Factor, NEW a \in Factor
  PROVE  ComputeIndex(s, c, t, a) \in Factor
BY DEF ComputeIndex, Round100, Factor

LEMMA RecalculatedRow ==
  ASSUME NEW x \in Row
  PROVE  Recalculate(x) \in Row
<1>1. ComputeRecency(x.since) \in Factor
  BY DEF Row, ComputeRecency, SaturationDays, Factor
<1> QED BY <1>1, IndexIsFactor DEF Recalculate, Row

LEMMA FlushedRow ==
  ASSUME NEW current \in Row, NEW loaded \in Row, NEW new \in Row
  PROVE  Flush(current, loaded, new) \in Row
BY DEF Flush, Row

-----------------------------------------------------------------------------
(* Types *)

LEMMA TxnTypes ==
  ASSUME TypeOK, NEW r \in Requests
  PROVE  /\ txn[r].op = "ingest" => txn[r] \in IngestTxn
         /\ txn[r].op = "request" => txn[r] \in RequestTxn
BY DEF TypeOK, Idle, IngestTxn, RequestTxn

LEMMA FinishTypes ==
  ASSUME TypeOK, NEW r \in Requests, Finish(r)
  PROVE  txn' \in [Requests -> {Idle} \cup IngestTxn \cup RequestTxn]
BY DEF TypeOK, Finish

LEMMA GrowthTypes ==
  ASSUME NEW all \in SUBSET Scene, NEW new, NEW rate \in ComputeGrowth(all, new)
  PROVE  rate \in Int \cup {NoRate}
<1>1. \A x \in MeasuredScenes(all) : x.area \in Nat
  BY ScenesAssumption DEF MeasuredScenes, Scene
<1>2. CASE Cardinality(MeasuredScenes(all)) < 2
  BY <1>2 DEF ComputeGrowth
<1>3. CASE ~(Cardinality(MeasuredScenes(all)) < 2)
  <2>1. PICK l \in Latest(MeasuredScenes(all), new) :
               rate \in {RateOf(p.area, l.area) :
                          p \in Latest(MeasuredScenes(all) \ {l}, new)}
    BY <1>3 DEF ComputeGrowth
  <2>2. PICK p \in Latest(MeasuredScenes(all) \ {l}, new) :
               rate = RateOf(p.area, l.area)
    BY <2>1
  <2>3. l.area \in Nat /\ p.area \in Nat
    BY <1>1, <2>1, <2>2 DEF Latest
  <2> QED BY <2>2, <2>3, RateIsInt
<1> QED BY <1>2, <1>3

LEMMA BoostedIsFactor ==
  ASSUME NEW s \in Factor, NEW rate \in Int \cup {NoRate}
  PROVE  BoostedSignal(s, rate) \in Factor
<1>1. PICK boost \in 0 .. GrowthSignalBoost :
             BoostedSignal(s, rate) = Clamp01(s + boost)
  BY BoostIsSmall
<1>2. s + boost \in Int
  BY DEF Factor, GrowthSignalBoost
<1> QED BY <1>1, <1>2, ClampIsFactor

Finite == IsFiniteSet(scenes) /\ IsFiniteSet(imagery)

LEMMA InitTypes == Init => TypeOK /\ Finite
<1> SUFFICES ASSUME Init PROVE TypeOK /\ Finite
  OBVIOUS
<1>1. ASSUME NEW s \in SegmentIds PROVE row[s] \in Row
  <2> DEFINE first == [s |-> FirstSignal, c |-> 0, t |-> 0, a |-> Access[s],
                       index |-> 0, since |-> 0, rate |-> NoRate]
  <2>1. first \in Row
    BY ScenesAssumption DEF Row, Factor
  <2>2. Recalculate(first) \in Row
    BY <2>1, RecalculatedRow
  <2> QED BY <2>2 DEF Init
<1>2. row \in [SegmentIds -> Row]
  BY <1>1 DEF Init
<1>3. Finite
  BY FS_EmptySet DEF Init, Finite
<1> QED BY <1>2, <1>3, ScenesAssumption DEF Init, TypeOK

LEMMA StepTypes ==
  ASSUME TypeOK, Finite, [Next]_svars
  PROVE  TypeOK' /\ Finite'
<1>1. CASE UNCHANGED svars
  BY <1>1 DEF svars, TypeOK, Finite
<1>2. ASSUME NEW r \in Requests, NEW s \in SegmentIds, NEW date \in Dates,
             NEW area \in Areas \cup {NoArea}, NEW sent \in Signals \cup {NoSignal},
             IngestBegin(r, s, date, area, sent)
      PROVE  TypeOK' /\ Finite'
  <2>1. [op |-> "ingest", segment |-> s, row |-> row[s], others |-> ScenesOf(s),
         date |-> date, area |-> area, sent |-> sent] \in IngestTxn
    BY DEF IngestTxn, TypeOK, ScenesOf
  <2> QED BY <1>2, <2>1 DEF IngestBegin, Begin, TypeOK, Finite
<1>3. ASSUME NEW r \in Requests, NEW s \in SegmentIds, NEW p \in Priorities,
             RequestBegin(r, s, p)
      PROVE  TypeOK' /\ Finite'
  <2> DEFINE raised == IF IsGrowing(row[s].rate) THEN "urgent" ELSE p
  <2>1. raised \in Priorities
    BY DEF Priorities
  <2>2. [op |-> "request", segment |-> s, priority |-> raised] \in RequestTxn
    BY <2>1 DEF RequestTxn
  <2> QED BY <1>3, <2>2 DEF RequestBegin, Begin, TypeOK, Finite
<1>4. ASSUME NEW r \in Requests, IngestCommit(r) PROVE TypeOK' /\ Finite'
  <2> DEFINE t == txn[r]
             new == [n |-> Cardinality(scenes) + 1, segment |-> t.segment,
                     date |-> t.date, area |-> t.area]
             base == IF t.sent = NoSignal THEN t.row.s ELSE t.sent
  <2>1. t \in IngestTxn
    BY <1>4, TxnTypes DEF IngestCommit
  <2>2. Cardinality(scenes) \in Nat
    BY FS_CardinalityType DEF Finite
  <2>3. new \in Scene
    BY <1>4, <2>1, <2>2, ScenesAssumption DEF IngestCommit, Scene, IngestTxn
  <2>4. base \in Factor /\ t.row \in Row /\ t.segment \in SegmentIds
    BY <2>1, ScenesAssumption DEF IngestTxn, Row
  <2>5. t.others \cup {new} \in SUBSET Scene
    BY <2>1, <2>3 DEF IngestTxn
  <2>6. row' \in [SegmentIds -> Row]
    <3>1. PICK rate \in ComputeGrowth(t.others \cup {new}, new) :
                 row' = [row EXCEPT ![t.segment] = Flush(@, t.row,
                   Recalculate([t.row EXCEPT !.rate = rate,
                                             !.s = BoostedSignal(base, rate)]))]
      BY <1>4 DEF IngestCommit
    <3>2. rate \in Int \cup {NoRate}
      BY <2>5, GrowthTypes
    <3>3. BoostedSignal(base, rate) \in Factor
      BY <2>4, <3>2, BoostedIsFactor
    <3>4. [t.row EXCEPT !.rate = rate, !.s = BoostedSignal(base, rate)] \in Row
      BY <2>4, <3>2, <3>3 DEF Row
    <3>5. Recalculate([t.row EXCEPT !.rate = rate,
                                    !.s = BoostedSignal(base, rate)]) \in Row
      BY <3>4, RecalculatedRow
    <3>6. row[t.segment] \in Row
      BY <2>4 DEF TypeOK
    <3>7. Flush(row[t.segment], t.row,
            Recalculate([t.row EXCEPT !.rate = rate,
                                      !.s = BoostedSignal(base, rate)])) \in Row
      BY <2>4, <3>5, <3>6, FlushedRow
    <3> QED BY <3>1, <3>7 DEF TypeOK
  <2>7. scenes' \subseteq Scene /\ IsFiniteSet(scenes')
    BY <1>4, <2>3, FS_AddElement DEF IngestCommit, TypeOK, Finite
  <2>8. signal' \in [SegmentIds -> Factor]
    BY <1>4, <2>1, ScenesAssumption DEF IngestCommit, IngestTxn, TypeOK
  <2> QED BY <1>4, <2>6, <2>7, <2>8, FinishTypes DEF IngestCommit, TypeOK, Finite
<1>5. ASSUME NEW r \in Requests, RequestCommit(r) PROVE TypeOK' /\ Finite'
  <2> DEFINE new == [n |-> Cardinality(imagery) + 1, segment |-> txn[r].segment,
                     priority |-> txn[r].priority, status |-> "queued"]
  <2>1. txn[r] \in RequestTxn
    BY <1>5, TxnTypes DEF RequestCommit
  <2>2. Cardinality(imagery) \in Nat
    BY FS_CardinalityType DEF Finite
  <2>3. new \in Imagery
    BY <1>5, <2>1, <2>2, ScenesAssumption DEF RequestCommit, Imagery, RequestTxn
  <2>4. imagery' = imagery \cup {new}
    BY <1>5 DEF RequestCommit
  <2>5. imagery' \subseteq Imagery /\ IsFiniteSet(imagery')
    BY <2>3, <2>4, FS_AddElement DEF TypeOK, Finite
  <2> QED BY <1>5, <2>5, FinishTypes DEF RequestCommit, TypeOK, Finite
<1>6. ASSUME NEW r \in Requests, Abort(r) PROVE TypeOK' /\ Finite'
  BY <1>6, FinishTypes DEF Abort, TypeOK, Finite
<1>7. ASSUME NEW q \in imagery, NEW status \in {"accepted", "delivered", "rejected"},
             OperatorAnswers(q, status)
      PROVE  TypeOK' /\ Finite'
  <2>1. [q EXCEPT !.status = status] \in Imagery
    BY DEF TypeOK, Imagery
  <2>2. imagery' = (imagery \ {q}) \cup {[q EXCEPT !.status = status]}
    BY <1>7 DEF OperatorAnswers
  <2>3. IsFiniteSet(imagery')
    BY <2>2, FS_RemoveElement, FS_AddElement DEF Finite
  <2> QED BY <1>7, <2>1, <2>2, <2>3 DEF OperatorAnswers, TypeOK, Finite
<1> QED BY <1>1, <1>2, <1>3, <1>4, <1>5, <1>6, <1>7 DEF Next, Operator, Handler

(* Every factor of every segment, its index included, stays between 0 and  *)
(* 100, a loaded row and its scenes are rows and scenes of the tables, and *)
(* no overlap of requests makes one that is not.                           *)
THEOREM ScenesTypes == Spec => []TypeOK
<1>1. TypeOK /\ Finite /\ [Next]_svars => (TypeOK /\ Finite)'
  BY StepTypes
<1> QED BY <1>1, InitTypes, PTL DEF Spec

-----------------------------------------------------------------------------
(* Handlers that run one after the other: one slot. *)

OneAtATime == \E r : Requests = {r}

(* While a request is in flight nothing else has written: what an ingest   *)
(* loaded is still what is stored.                                         *)
StillFresh ==
  \A r \in Requests : txn[r].op = "ingest" =>
    /\ txn[r].others = ScenesOf(txn[r].segment)
    /\ txn[r].row = row[txn[r].segment]

In(all, s) == {x \in all : x.segment = s}

LEMMA OnlyOne ==
  ASSUME OneAtATime, NEW r \in Requests, NEW q \in Requests
  PROVE  q = r
BY DEF OneAtATime

-----------------------------------------------------------------------------
(* The rate is that of the two latest measurements. *)

RateIs(rate, all) ==
  LET measured == MeasuredScenes(all)
  IN IF Cardinality(measured) < 2 THEN rate = NoRate
     ELSE \E p, l \in measured :
            /\ p # l /\ p.date <= l.date
            /\ \A x \in measured \ {p, l} : x.date <= p.date
            /\ rate = RateOf(p.area, l.area)

(* What the detector finds, whatever order it takes the scenes of a day in. *)
LEMMA GrowthIsOfLatest ==
  ASSUME NEW all \in SUBSET Scene, NEW new, NEW rate \in ComputeGrowth(all, new)
  PROVE  RateIs(rate, all)
<1> DEFINE measured == MeasuredScenes(all)
<1>1. CASE Cardinality(measured) < 2
  BY <1>1 DEF ComputeGrowth, RateIs
<1>2. CASE ~(Cardinality(measured) < 2)
  <2>1. PICK l \in Latest(measured, new) :
               rate \in {RateOf(p.area, l.area) : p \in Latest(measured \ {l}, new)}
    BY <1>2 DEF ComputeGrowth
  <2>2. PICK p \in Latest(measured \ {l}, new) : rate = RateOf(p.area, l.area)
    BY <2>1
  <2>3. \A x \in measured : x.date \in Nat
    BY ScenesAssumption DEF MeasuredScenes, Scene
  <2>4. ASSUME NEW x \in measured, NEW y \in measured,
               Rank(y, new) <= Rank(x, new)
        PROVE  y.date <= x.date
    BY <2>3, <2>4 DEF Rank
  <2>5. l \in measured /\ p \in measured /\ p # l
    BY <2>1, <2>2 DEF Latest
  <2>6. p.date <= l.date
    BY <2>1, <2>4, <2>5 DEF Latest
  <2>7. \A x \in measured \ {p, l} : x.date <= p.date
    BY <2>2, <2>4, <2>5 DEF Latest
  <2> QED BY <1>2, <2>2, <2>5, <2>6, <2>7 DEF RateIs
<1> QED BY <1>1, <1>2

(* A row that nobody else wrote is overwritten whole. *)
LEMMA FlushedFresh ==
  ASSUME NEW current \in Row, NEW new \in Row
  PROVE  Flush(current, current, new) = new
BY DEF Flush, Row

LEMMA FreshStep ==
  ASSUME OneAtATime, TypeOK, StillFresh, [Next]_svars
  PROVE  StillFresh'
<1> SUFFICES ASSUME NEW r \in Requests, txn'[r].op = "ingest"
             PROVE  /\ txn'[r].others = In(scenes', txn'[r].segment)
                    /\ txn'[r].row = row'[txn'[r].segment]
  BY DEF StillFresh, ScenesOf, In
<1>1. ASSUME NEW q \in Requests, Finish(q) PROVE FALSE
  BY <1>1, OnlyOne DEF Finish, TypeOK, Idle
<1>2. UNCHANGED <<row, scenes>>
  BY <1>1 DEF Next, Operator, OperatorAnswers, Handler, IngestBegin, RequestBegin,
     Begin, IngestCommit, RequestCommit, Abort, svars
<1>3. CASE txn'[r] = txn[r]
  BY <1>2, <1>3 DEF StillFresh, ScenesOf, In
<1>4. CASE txn'[r] # txn[r]
  <2>1. ASSUME NEW q \in Requests, NEW s \in SegmentIds, NEW date,
               NEW area, NEW sent, IngestBegin(q, s, date, area, sent)
        PROVE  /\ txn'[r].others = In(scenes', txn'[r].segment)
               /\ txn'[r].row = row'[txn'[r].segment]
    BY <1>2, <2>1, OnlyOne DEF IngestBegin, Begin, TypeOK, ScenesOf, In
  <2>2. ASSUME NEW q \in Requests, NEW s \in SegmentIds, NEW p \in Priorities,
               RequestBegin(q, s, p)
        PROVE  FALSE
    BY <2>2, OnlyOne DEF RequestBegin, Begin, TypeOK
  <2>3. ~Operator /\ ~UNCHANGED svars
    BY <1>4 DEF Operator, OperatorAnswers, svars
  <2> QED BY <1>1, <2>1, <2>2, <2>3
          DEF Next, Handler, IngestCommit, RequestCommit, Abort
<1> QED BY <1>3, <1>4

LEMMA RateStep ==
  ASSUME OneAtATime, TypeOK, Finite, StillFresh, RateIsOfLatest, [Next]_svars
  PROVE  RateIsOfLatest'
<1>1. CASE UNCHANGED <<row, scenes>>
  BY <1>1 DEF RateIsOfLatest, ScenesOf
<1>2. ASSUME NEW r \in Requests, IngestCommit(r) PROVE RateIsOfLatest'
  <2> DEFINE t == txn[r]
             new == [n |-> Cardinality(scenes) + 1, segment |-> t.segment,
                     date |-> t.date, area |-> t.area]
             base == IF t.sent = NoSignal THEN t.row.s ELSE t.sent
  <2>1. t \in IngestTxn
    BY <1>2, TxnTypes DEF IngestCommit
  <2>2. t.row = row[t.segment] /\ t.others = ScenesOf(t.segment)
    BY <1>2 DEF IngestCommit, StillFresh
  <2>3. t.row \in Row /\ base \in Factor /\ t.segment \in SegmentIds
    BY <2>1, ScenesAssumption DEF IngestTxn, Row
  <2>4. scenes' = scenes \cup {new} /\ scenes' \subseteq Scene
    BY <1>2, StepTypes DEF IngestCommit, TypeOK
  <2>5. In(scenes', t.segment) = t.others \cup {new}
    BY <2>2, <2>4 DEF ScenesOf, In
  <2>6. PICK rate \in ComputeGrowth(t.others \cup {new}, new) :
               row' = [row EXCEPT ![t.segment] = Flush(@, t.row,
                 Recalculate([t.row EXCEPT !.rate = rate,
                                           !.s = BoostedSignal(base, rate)]))]
    BY <1>2 DEF IngestCommit
  <2> DEFINE written == Recalculate([t.row EXCEPT !.rate = rate,
                                       !.s = BoostedSignal(base, rate)])
  <2>7. t.others \cup {new} \in SUBSET Scene
    BY <2>4, <2>5 DEF In
  <2>8. rate \in Int \cup {NoRate} /\ BoostedSignal(base, rate) \in Factor
    BY <2>3, <2>7, GrowthTypes, BoostedIsFactor
  <2>9. written \in Row /\ written.rate = rate
    <3> DEFINE boosted == [t.row EXCEPT !.rate = rate,
                                        !.s = BoostedSignal(base, rate)]
    <3>1. boosted \in Row /\ boosted.rate = rate
      BY <2>3, <2>8 DEF Row
    <3> HIDE DEF boosted
    <3>2. Recalculate(boosted) \in Row /\ Recalculate(boosted).rate = rate
      BY <3>1, RecalculatedRow DEF Recalculate, Row
    <3> QED BY <3>2 DEF boosted
  <2>10. row' = [row EXCEPT ![t.segment] = Flush(@, t.row, written)]
    BY <2>6
  <2> HIDE DEF written
  <2>11. row'[t.segment].rate = rate
    BY <2>2, <2>3, <2>9, <2>10, FlushedFresh DEF TypeOK
  <2>12. RateIs(rate, In(scenes', t.segment))
    BY <2>5, <2>7, GrowthIsOfLatest
  <2>13. ASSUME NEW s \in SegmentIds, s # t.segment
         PROVE  row'[s] = row[s] /\ In(scenes', s) = In(scenes, s)
    BY <2>4, <2>10, <2>13 DEF TypeOK, In
  <2>14. \A s \in SegmentIds : RateIs(row[s].rate, In(scenes, s))
    BY DEF RateIsOfLatest, RateIs, ScenesOf, In
  <2>15. ASSUME NEW s \in SegmentIds PROVE RateIs(row'[s].rate, In(scenes', s))
    BY <2>11, <2>12, <2>13, <2>14
  <2> QED BY <2>15 DEF RateIsOfLatest, RateIs, ScenesOf, In
<1> QED BY <1>1, <1>2 DEF Next, Operator, Handler, IngestBegin, RequestBegin, Begin,
        RequestCommit, OperatorAnswers, Abort, svars

(* One after the other, the ingests keep the growth rate of every segment  *)
(* that of its two latest measured scenes, however late a scene arrives.   *)
THEOREM RatesAreCurrent == OneAtATime /\ Spec => []RateIsOfLatest
<1> SUFFICES ASSUME OneAtATime PROVE Spec => []RateIsOfLatest
  OBVIOUS
<1>1. Init => StillFresh /\ RateIsOfLatest
  <2> SUFFICES ASSUME Init PROVE StillFresh /\ RateIsOfLatest
    OBVIOUS
  <2>1. StillFresh
    BY DEF Init, StillFresh, Idle
  <2>2. ASSUME NEW s \in SegmentIds
        PROVE  MeasuredScenes(ScenesOf(s)) = {} /\ row[s].rate = NoRate
    BY DEF Init, ScenesOf, MeasuredScenes, Recalculate
  <2>3. RateIsOfLatest
    BY <2>2, FS_EmptySet DEF RateIsOfLatest
  <2> QED BY <2>1, <2>3
<1>2. TypeOK /\ Finite /\ StillFresh /\ RateIsOfLatest /\ [Next]_svars
        => (TypeOK /\ Finite /\ StillFresh /\ RateIsOfLatest)'
  BY StepTypes, FreshStep, RateStep
<1> QED BY <1>1, <1>2, InitTypes, PTL DEF Spec

-----------------------------------------------------------------------------
(* Any number of overlapping requests: Scenes implements Segments. *)

segmentOf == [s \in SegmentIds |-> AsSegment(row[s])]
requestOf == [r \in Requests |-> AsRequest(txn[r])]

(* A row of Segments has six columns of Scenes; the others are constant. *)
Shared == {"s", "c", "t", "a", "index", "since"}
Fixed == {"votes", "queued", "verified", "status", "pool", "truth", "type"}

LEMMA Columns ==
  ASSUME NEW x
  PROVE  /\ AsSegment(x) = [f \in Shared \cup Fixed |-> AsSegment(x)[f]]
         /\ \A f \in Shared : AsSegment(x)[f] = x[f]
         /\ \A y : \A f \in Fixed : AsSegment(x)[f] = AsSegment(y)[f]
<1>1. DOMAIN AsSegment(x) = Shared \cup Fixed
  BY DEF AsSegment, Shared, Fixed
<1>2. AsSegment(x) = [f \in DOMAIN AsSegment(x) |-> AsSegment(x)[f]]
  BY DEF AsSegment
<1> QED BY <1>1, <1>2 DEF AsSegment, Shared, Fixed

LEMMA SameColumns ==
  ASSUME NEW x, NEW y, NEW g, g = [f \in Shared \cup Fixed |-> g[f]],
         \A f \in Shared : g[f] = x[f],
         \A f \in Fixed : g[f] = AsSegment(y)[f]
  PROVE  g = AsSegment(x)
<1>1. \A f \in Shared \cup Fixed : g[f] = AsSegment(x)[f]
  BY Columns
<1>2. AsSegment(x) = [f \in Shared \cup Fixed |-> AsSegment(x)[f]]
  BY Columns
<1> QED BY <1>1, <1>2

LEMMA RecalculatedSegment ==
  ASSUME NEW x \in Row
  PROVE  AsSegment(Recalculate(x)) = Life!Recalculate(AsSegment(x))
<1>1. Life!ComputeRecency(x.since) = ComputeRecency(x.since)
  BY DEF Life!ComputeRecency, ComputeRecency, Life!SaturationDays, SaturationDays
<1>2. \A s, c, t, a \in Factor :
        Life!ComputeIndex(s, c, t, a) = ComputeIndex(s, c, t, a)
  BY DEF Life!ComputeIndex, ComputeIndex, Life!Round100, Round100
<1>3. ComputeRecency(x.since) \in Factor
  BY DEF Row, ComputeRecency, SaturationDays, Factor
<1>4. Life!ComputeIndex(x.s, x.c, ComputeRecency(x.since), x.a)
        = ComputeIndex(x.s, x.c, ComputeRecency(x.since), x.a)
  BY <1>2, <1>3 DEF Row
<1> DEFINE t == ComputeRecency(x.since)
           index == ComputeIndex(x.s, x.c, t, x.a)
           y == AsSegment(x)
<1>5. Recalculate(x) = [x EXCEPT !.t = t, !.index = index]
  BY DEF Recalculate
<1>6. Life!Recalculate(y) = [y EXCEPT !.t = t, !.index = index]
  BY <1>1, <1>4 DEF Life!Recalculate, AsSegment
<1> HIDE DEF t, index
<1>7. [y EXCEPT !.t = t, !.index = index]
        = AsSegment([x EXCEPT !.t = t, !.index = index])
  <2> DEFINE g == [y EXCEPT !.t = t, !.index = index]
             new == [x EXCEPT !.t = t, !.index = index]
  <2>1. g = [f \in Shared \cup Fixed |-> g[f]]
    BY Columns
  <2>2. \A f \in Shared : g[f] = new[f]
    BY Columns DEF Shared, Row
  <2>3. \A f \in Fixed : g[f] = y[f]
    BY Columns DEF Fixed
  <2> HIDE DEF g, new
  <2>4. g = AsSegment(new)
    BY <2>1, <2>2, <2>3, SameColumns
  <2> QED BY <2>4 DEF g, new
<1> QED BY <1>5, <1>6, <1>7

LEMMA BoostedSegment ==
  ASSUME NEW x \in Row, NEW rate, NEW boost
  PROVE  AsSegment([x EXCEPT !.rate = rate, !.s = boost])
           = [AsSegment(x) EXCEPT !.s = boost]
<1> DEFINE new == [x EXCEPT !.rate = rate, !.s = boost]
           g == [AsSegment(x) EXCEPT !.s = boost]
<1>1. g = [f \in Shared \cup Fixed |-> g[f]]
  BY Columns
<1>2. \A f \in Shared : g[f] = new[f]
  BY Columns DEF Shared, Row
<1>3. \A f \in Fixed : g[f] = AsSegment(x)[f]
  BY Columns DEF Fixed
<1> HIDE DEF g, new
<1>4. g = AsSegment(new)
  BY <1>1, <1>2, <1>3, SameColumns
<1> QED BY <1>4 DEF g, new

LEMMA FlushedSegment ==
  ASSUME NEW x \in Row, NEW y \in Row, NEW z \in Row
  PROVE  AsSegment(Flush(x, y, z))
           = Life!Flush(AsSegment(x), AsSegment(y), AsSegment(z))
<1> DEFINE merged == Life!Flush(AsSegment(x), AsSegment(y), AsSegment(z))
           new == Flush(x, y, z)
<1>1. \A f \in Shared : new[f] = IF z[f] = y[f] THEN x[f] ELSE z[f]
  BY DEF Flush, Row, Shared
<1>2. DOMAIN AsSegment(x) = Shared \cup Fixed
  BY Columns
<1>3. \A f \in Shared \cup Fixed :
        merged[f] = IF AsSegment(z)[f] = AsSegment(y)[f]
                    THEN AsSegment(x)[f] ELSE AsSegment(z)[f]
  BY <1>2 DEF Life!Flush
<1>4. merged = [f \in Shared \cup Fixed |-> merged[f]]
  BY <1>2 DEF Life!Flush
<1> HIDE DEF merged, new
<1>5. \A f \in Shared : merged[f] = new[f]
  BY <1>1, <1>3, Columns
<1>6. \A f \in Fixed : merged[f] = AsSegment(x)[f]
  BY <1>3, Columns
<1>7. merged = AsSegment(new)
  BY <1>4, <1>5, <1>6, SameColumns
<1> QED BY <1>7 DEF merged, new

LEMMA LifeInit == Init => Life!Init
<1> SUFFICES ASSUME Init PROVE Life!Init
  OBVIOUS
<1>1. ASSUME NEW s \in SegmentIds
      PROVE  AsSegment(row[s]) = Life!NewSegment(s)
  <2> DEFINE first == [s |-> FirstSignal, c |-> 0, t |-> 0, a |-> Access[s],
                       index |-> 0, since |-> 0, rate |-> NoRate]
  <2>1. first \in Row
    BY ScenesAssumption DEF Row, Factor
  <2>2. AsSegment(row[s]) = Life!Recalculate(AsSegment(first))
    BY <2>1, RecalculatedSegment DEF Init
  <2> QED BY <2>2 DEF Life!NewSegment, AsSegment, Life!NoVerdict
<1>2. requestOf = [r \in Requests |-> Life!Idle]
  BY DEF Init, requestOf, AsRequest, Idle, Life!Idle
<1> QED BY <1>1, <1>2 DEF Life!Init, requestOf

LEMMA LifeNext ==
  ASSUME TypeOK, Finite, [Next]_svars
  PROVE  [Life!Next]_(Life!vars)
<1>1. ASSUME UNCHANGED row, UNCHANGED requestOf PROVE UNCHANGED Life!vars
  BY <1>1 DEF Life!vars, requestOf
<1>2. ASSUME NEW r \in Requests, txn[r].op # "ingest", txn'[r].op # "ingest",
             \A q \in Requests \ {r} : txn'[q] = txn[q]
      PROVE  UNCHANGED requestOf
  <2>1. \A q \in Requests : AsRequest(txn'[q]) = AsRequest(txn[q])
    BY <1>2 DEF AsRequest
  <2> QED BY <2>1 DEF requestOf
<1>3. CASE UNCHANGED svars
  BY <1>1, <1>3 DEF svars, requestOf
<1>4. CASE Operator
  BY <1>1, <1>4 DEF Operator, OperatorAnswers, requestOf
<1>5. ASSUME NEW r \in Requests, NEW s \in SegmentIds, NEW p \in Priorities,
             RequestBegin(r, s, p)
      PROVE  UNCHANGED Life!vars
  BY <1>1, <1>2, <1>5 DEF RequestBegin, Begin, TypeOK, Idle
<1>6. ASSUME NEW r \in Requests, RequestCommit(r) PROVE UNCHANGED Life!vars
  BY <1>1, <1>2, <1>6 DEF RequestCommit, Finish, TypeOK, Idle
<1>7. ASSUME NEW r \in Requests, NEW s \in SegmentIds, NEW date, NEW area,
             NEW sent, IngestBegin(r, s, date, area, sent)
      PROVE  Life!Next
  <2>1. requestOf[r] = Life!Idle
    BY <1>7 DEF IngestBegin, Begin, requestOf, AsRequest, Idle, Life!Idle
  <2>2. requestOf' = [requestOf EXCEPT ![r] =
                        [op |-> "ingest", id |-> s, row |-> segmentOf[s]]]
    BY <1>7 DEF IngestBegin, Begin, requestOf, AsRequest, segmentOf, TypeOK
  <2>3. Life!IngestBegin(r, s)
    BY <1>7, <2>1, <2>2 DEF IngestBegin, Begin, Life!IngestBegin, Life!Begin,
       requestOf, segmentOf
  <2> QED BY <2>3 DEF Life!Next, Life!Start
<1>8. ASSUME NEW r \in Requests, txn' = [txn EXCEPT ![r] = Idle],
             txn[r].op = "ingest"
      PROVE  /\ requestOf' = [requestOf EXCEPT ![r] = Life!Idle]
             /\ requestOf[r] = [op |-> "ingest", id |-> txn[r].segment,
                                row |-> AsSegment(txn[r].row)]
  BY <1>8 DEF requestOf, AsRequest, Idle, Life!Idle, TypeOK
<1>9. ASSUME NEW r \in Requests, Abort(r)
      PROVE  [Life!Next]_(Life!vars)
  <2>1. CASE txn[r].op = "ingest"
    <3>1. /\ requestOf' = [requestOf EXCEPT ![r] = Life!Idle]
          /\ requestOf[r].op = "ingest"
      <4>1. txn' = [txn EXCEPT ![r] = Idle]
        BY <1>9 DEF Abort, Finish
      <4>2. requestOf' = [requestOf EXCEPT ![r] = Life!Idle]
        BY <1>8, <2>1, <4>1
      <4>3. requestOf[r] = [op |-> "ingest", id |-> txn[r].segment,
                            row |-> AsSegment(txn[r].row)]
        BY <1>8, <2>1, <4>1
      <4> QED BY <4>2, <4>3
    <3>2. requestOf[r] # Life!Idle
      BY <3>1 DEF Life!Idle
    <3>3. Life!Abort(r)
      BY <1>9, <3>1, <3>2 DEF Abort, Life!Abort, Life!Finish, requestOf
    <3> QED BY <3>3 DEF Life!Next, Life!Continue
  <2>2. CASE txn[r].op # "ingest"
    BY <1>1, <1>2, <1>9, <2>2 DEF Abort, Finish, TypeOK, Idle
  <2> QED BY <2>1, <2>2
<1>10. ASSUME NEW r \in Requests, IngestCommit(r) PROVE Life!Next
  <2> DEFINE t == txn[r]
             new == [n |-> Cardinality(scenes) + 1, segment |-> t.segment,
                     date |-> t.date, area |-> t.area]
             base == IF t.sent = NoSignal THEN t.row.s ELSE t.sent
  <2>1. t \in IngestTxn
    BY <1>10, TxnTypes DEF IngestCommit
  <2>2. t.row \in Row /\ base \in Factor /\ t.segment \in SegmentIds
        /\ base \in Signals \cup {t.row.s}
    BY <2>1, ScenesAssumption DEF IngestTxn, Row
  <2>3. PICK rate \in ComputeGrowth(t.others \cup {new}, new) :
               row' = [row EXCEPT ![t.segment] = Flush(@, t.row,
                 Recalculate([t.row EXCEPT !.rate = rate,
                                           !.s = BoostedSignal(base, rate)]))]
    BY <1>10 DEF IngestCommit
  <2> DEFINE boosted == [t.row EXCEPT !.rate = rate,
                                      !.s = BoostedSignal(base, rate)]
             written == Recalculate(boosted)
  <2>4. /\ row' = [row EXCEPT ![t.segment] = Flush(@, t.row, written)]
        /\ row[t.segment] \in Row
    BY <2>2, <2>3 DEF TypeOK
  <2>5. rate \in Int \cup {NoRate}
    <3>1. scenes' = scenes \cup {new} /\ scenes' \subseteq Scene
      BY <1>10, StepTypes DEF IngestCommit, TypeOK
    <3>2. t.others \cup {new} \in SUBSET Scene
      BY <2>1, <3>1 DEF IngestTxn
    <3> QED BY <3>2, GrowthTypes
  <2>6. PICK boost \in 0 .. GrowthSignalBoost :
               BoostedSignal(base, rate) = Clamp01(base + boost)
    BY <2>2, <2>5, BoostIsSmall
  <2>7. boosted \in Row
    BY <2>2, <2>5, BoostedIsFactor DEF Row
  <2>8. AsSegment(boosted)
          = [AsSegment(t.row) EXCEPT !.s = Life!Clamp01(base + boost)]
    <3> DEFINE up == BoostedSignal(base, rate)
    <3>1. Life!Clamp01(base + boost) = up
      BY <2>6 DEF Life!Clamp01, Clamp01
    <3>2. boosted = [t.row EXCEPT !.rate = rate, !.s = up]
      OBVIOUS
    <3>3. t.row \in Row
      BY <2>2
    <3> HIDE DEF base, up, boosted, t
    <3>4. AsSegment([t.row EXCEPT !.rate = rate, !.s = up])
            = [AsSegment(t.row) EXCEPT !.s = up]
      BY <3>3, BoostedSegment
    <3> QED BY <3>1, <3>2, <3>4
  <2>9. AsSegment(written) = Life!Recalculate(
          [AsSegment(t.row) EXCEPT !.s = Life!Clamp01(base + boost)])
    BY <2>7, <2>8, RecalculatedSegment
  <2>10. written \in Row
    BY <2>7, RecalculatedRow
  <2> HIDE DEF written
  <2>11. AsSegment(Flush(row[t.segment], t.row, written))
           = Life!Flush(AsSegment(row[t.segment]), AsSegment(t.row),
                        AsSegment(written))
    BY <2>2, <2>4, <2>10, FlushedSegment
  <2>12. segmentOf' = [segmentOf EXCEPT ![t.segment] =
           Life!Flush(@, AsSegment(t.row), AsSegment(written))]
    BY <2>2, <2>4, <2>11 DEF segmentOf, TypeOK
  <2>13. /\ requestOf' = [requestOf EXCEPT ![r] = Life!Idle]
         /\ requestOf[r] = [op |-> "ingest", id |-> t.segment,
                            row |-> AsSegment(t.row)]
    BY <1>8, <1>10 DEF IngestCommit, Finish
  <2>14. /\ base \in Signals \cup {AsSegment(t.row).s}
         /\ boost \in 0 .. GrowthSignalBoost
    BY <2>2 DEF AsSegment
  <2> HIDE DEF base
  <2>15. \E sent \in Signals \cup {requestOf[r].row.s},
            more \in 0 .. GrowthSignalBoost :
           segmentOf' = [segmentOf EXCEPT ![requestOf[r].id] =
             Life!Flush(@, requestOf[r].row, Life!Recalculate(
               [requestOf[r].row EXCEPT !.s = Life!Clamp01(sent + more)]))]
    <3>1. requestOf[r].row = AsSegment(t.row) /\ requestOf[r].id = t.segment
      BY <2>13
    <3>2. segmentOf' = [segmentOf EXCEPT ![requestOf[r].id] =
            Life!Flush(@, requestOf[r].row, Life!Recalculate(
              [requestOf[r].row EXCEPT !.s = Life!Clamp01(base + boost)]))]
      BY <2>9, <2>12, <3>1
    <3> QED BY <2>14, <3>1, <3>2
  <2>16. Life!IngestCommit(r)
    BY <2>13, <2>15 DEF Life!IngestCommit, Life!Finish, segmentOf, requestOf
  <2> QED BY <2>16 DEF Life!Next, Life!Continue
<1> QED BY <1>3, <1>4, <1>5, <1>6, <1>7, <1>9, <1>10 DEF Next, Handler

(* To the rest of the system an ingest is a signal and a bounded boost of  *)
(* S, and a request for a scene is nothing at all.                         *)
THEOREM ScenesImplementSegments == Spec => ImplementsSegments
<1>1. TypeOK /\ Finite /\ [Next]_svars
        => (TypeOK /\ Finite)' /\ [Life!Next]_(Life!vars)
  BY StepTypes, LifeNext
<1> QED BY <1>1, LifeInit, InitTypes, PTL DEF Spec, ImplementsSegments, Life!Spec
=============================================================================
