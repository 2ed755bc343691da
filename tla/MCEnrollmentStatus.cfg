SPECIFICATION Spec
CONSTANTS
  u1 = u1
  u2 = u2
  u3 = u3
  e1 = e1
  r1 = r1
  r2 = r2
  NoOne = NoOne
  Users = {u1, u2}
  Events = {e1}
  Requests = {r1, r2}
  Capacity <- MCCapacity
  MaxToken = 1
  RowLocks = TRUE
SYMMETRY MCSymmetry
INVARIANT StatusFollowsFacts
CHECK_DEADLOCK FALSE
