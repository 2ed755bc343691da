SPECIFICATION InspectorSpec
CONSTANTS
  u1 = u1
  u2 = u2
  s1 = s1
  s2 = s2
  r1 = r1
  r2 = r2
  Users = {u1, u2}
  SegmentIds = {s1}
  Requests = {r1}
  Access <- MCAccess
  VotesRequired = 1
  MinControlTasks = 1
  FirstSignal = 40
  Signals = {}
  Boosts = {0}
  Period = 365
  MaxDecisions = 1
  MaxRounds = 0
  MaxRemoved = 0
  MaxAnnotations = 4
PROPERTY RejectedIsObserved
CHECK_DEADLOCK FALSE
