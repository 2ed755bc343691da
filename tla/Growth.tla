--------------------------------- MODULE Growth ---------------------------------
(***************************************************************************)
(* The detector of a growing dump: backend/app/services/growth.py.  Areas  *)
(* are whole numbers; a rate is in hundredths, rounded down, and so is the *)
(* boost of factor S.                                                      *)
(***************************************************************************)
EXTENDS Attention, FiniteSets

CONSTANTS NoArea,  \* a scene without a measured anomaly
          NoRate   \* fewer than two measurements

ASSUME GrowthAssumption == NoArea \notin Nat /\ NoRate \notin Int

GrowthAlertThreshold == 15
GrowthSignalBoost == 20

(* An anomaly where there was none is full growth. *)
RateOf(from, to) ==
  IF from > 0 THEN (100 * (to - from)) \div from
  ELSE IF to > 0 THEN 100 ELSE 0

MeasuredScenes(scenes) == {x \in scenes : x.area # NoArea}

(* Mutant: the scenes are taken in the order of their arrival. *)
RankByArrival(x, new) == x.n

(* The sort by date is stable and the new scene comes last in the list, so *)
(* it is the later one of a day; older scenes of one day have no order.    *)
Rank(x, new) == 2 * x.date + (IF x = new THEN 1 ELSE 0)

Latest(scenes, new) ==
  {x \in scenes : \A y \in scenes : Rank(y, new) <= Rank(x, new)}

(* compute_growth: the rates it may find, one unless a day has two scenes. *)
ComputeGrowth(scenes, new) ==
  LET measured == MeasuredScenes(scenes)
  IN IF Cardinality(measured) < 2 THEN {NoRate}
     ELSE UNION {{RateOf(p.area, l.area) : p \in Latest(measured \ {l}, new)} :
                 l \in Latest(measured, new)}

IsGrowing(rate) == rate # NoRate /\ rate >= GrowthAlertThreshold

Boost(share) == (GrowthSignalBoost * share) \div 100

(* Mutants: the boost is not limited; nor is the boosted factor. *)
BoostUnlimited(s, rate) ==
  IF IsGrowing(rate) THEN Clamp01(s + Boost(rate)) ELSE s
BoostOverflows(s, rate) ==
  IF IsGrowing(rate) THEN s + Boost(IF rate < 100 THEN rate ELSE 100) ELSE s

(* apply_growth: full boost when the area has doubled. *)
BoostedSignal(s, rate) ==
  IF IsGrowing(rate)
  THEN Clamp01(s + Boost(IF rate < 100 THEN rate ELSE 100))
  ELSE s
=============================================================================
