SPECIFICATION MCSpec
CONSTANTS
  u1 = u1
  e1 = e1
  e2 = e2
  r1 = r1
  s1 = s1
  f1 = f1
  j1 = j1
  j2 = j2
  NoOne = NoOne
  Users = {u1}
  Events = {e1, e2}
  Requests = {r1}
  Capacity <- MCCapacity
  MaxToken = 0
  RowLocks = TRUE
  Segments = {s1}
  Site <- MCSite
  Photos = {f1}
  Jobs = {j1, j2}
  MaxSubmits = 2
SYMMETRY MCSymmetry
INVARIANTS
  NoticesTypeOK
  ReportsAreFromAdmitted
  OneDecisionPerSubmission
  SubmittedIsComplete
  FactorsLoweredOnce
  NoticesAreTrue
CHECK_DEADLOCK FALSE
