SPECIFICATION InspectorSpec
CONSTANTS
  u1 = u1
  u2 = u2
  s1 = s1
  s2 = s2
  r1 = r1
  r2 = r2
  Users = {u1, u2}
  SegmentIds = {s1, s2}
  Requests = {r1}
  Access <- MCAccess
  VotesRequired = 1
  MinControlTasks = 1
  FirstSignal = 40
  Signals = {}
  Boosts = {0}
  Period = 0
  MaxDecisions = 2
  MaxRounds = 2
  MaxRemoved = 1
  MaxAnnotations = 2
SYMMETRY MCSymmetry
INVARIANTS
  InspectorTypeOK
  IndexIsFormula
  QueuedIffAgreed
  TalliesAreReal
  AuditTellsVerified
  RoundsTellDecisions
PROPERTIES
  VerifiedIsClosed
  RatedOnce
  ImplementsLife
CHECK_DEADLOCK FALSE
