SPECIFICATION Spec
CONSTANTS
  u1 = u1
  u2 = u2
  r1 = r1
  r2 = r2
  Users = {u1, u2}
  Staff = {u2}
  Requests = {r1, r2}
  Modules = {1, 2}
  MaxAttempts = 3
SYMMETRY MCSymmetry
INVARIANTS
  CourseTypeOK
  EarnedByCourse
PROPERTIES
  NothingIsTakenBack
CHECK_DEADLOCK FALSE
