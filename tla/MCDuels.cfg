SPECIFICATION DuelsSpec
CONSTANTS
  u1 = u1
  u2 = u2
  u3 = u3
  s1 = s1
  r1 = r1
  Users = {u1, u2, u3}
  SegmentIds = {s1}
  Requests = {r1}
  Access <- MCAccess
  VotesRequired = 1
  MinControlTasks = 5
  FirstSignal = 20
  Signals = {}
  Boosts = {}
  Period = 365
  MaxDecisions = 1
  MaxRemoved = 0
  MaxAnnotations = 2
  MaxDuels = 1
  Times = {799, 800, 300000}
SYMMETRY MCSymmetry
INVARIANTS
  DuelsTypeOK
  IndexIsFormula
  MoveIsAnnotation
  StatusTellsProgress
  AgreementOutweighsSpeed
  StatisticsAgree
PROPERTIES
  VotesAreCounted
CHECK_DEADLOCK FALSE
