------------------------------- MODULE Consensus -------------------------------
(***************************************************************************)
(* The circle of trust of the annotators: backend/app/services/consensus.py*)
(* and calibration.py.  Weights and reputations are integer hundredths.    *)
(***************************************************************************)
EXTENDS Integers, FiniteSets, FiniteSetsExt

CONSTANTS VotesRequired,     \* CONSENSUS_VOTES_REQUIRED
          MinControlTasks    \* MIN_CONTROL_TASKS_FOR_ACCURACY

ASSUME ConsensusAssumption ==
  VotesRequired \in Nat \ {0} /\ MinControlTasks \in Nat \ {0}

Verdicts == {"dump", "litter", "none"}
NoVerdict == "null"

ReputationMin == 20
ReputationMax == 150
Reputation == ReputationMin .. ReputationMax

Bounded(x) == IF x < ReputationMin THEN ReputationMin
              ELSE IF x > ReputationMax THEN ReputationMax ELSE x

IndicatesProblem(v) == v \in {"dump", "litter"}

Weight(anns) == MapThenSumSet(LAMBDA n : n.weight, anns)
Problems(anns) == {n \in anns : IndicatesProblem(n.verdict)}

(* evaluate: the votes, whether they reach the threshold, and factor C,    *)
(* the agreed share of the weight times the completeness of the sample.    *)
Votes(anns) == Cardinality(Problems(anns))
Reached(anns) == Votes(anns) >= VotesRequired
FactorC(anns) ==
  LET n == Cardinality(anns)
      sample == IF n < VotesRequired THEN n ELSE VotesRequired
  IN IF n = 0 THEN 0
     ELSE (100 * Weight(Problems(anns)) * sample)
            \div (Weight(anns) * VotesRequired)

(* prevailing_verdict: of equally heavy verdicts, the one the database     *)
(* happened to return first; control annotations are not counted.          *)
PrevailingVerdicts(anns) ==
  LET counted == {n \in anns : ~n.control}
      Of(v) == {n \in counted : n.verdict = v}
      Given == {n.verdict : n \in counted}
  IN IF counted = {} THEN {NoVerdict}
     ELSE {v \in Given : \A w \in Given : Weight(Of(w)) <= Weight(Of(v))}

AdjustReputation(rep, approved) ==
  Bounded(rep + (IF approved THEN 10 ELSE -20))

TruthFromDecision(approved, prevailing) ==
  IF approved /\ prevailing # NoVerdict THEN prevailing ELSE "none"

CheckAnswer(truth, verdict) == (truth # "none") <=> (verdict # "none")

(* user: a record with reputation, control tasks and correct ones *)
BlendReputation(user) ==
  LET share == (100 * user.tasks) \div 40
      confidence == IF share < 70 THEN share ELSE 70
      accuracy == (100 * user.correct) \div user.tasks
  IN IF user.tasks < MinControlTasks THEN user.reputation
     ELSE Bounded((user.reputation * (100 - confidence)
                     + ((accuracy * 150) \div 100) * confidence) \div 100)
=============================================================================
