SPECIFICATION Spec
CONSTANTS
  s1 = s1
  r1 = r1
  NoArea = NoArea
  NoRate = NoRate
  NoSignal = NoSignal
  SegmentIds = {s1}
  Requests = {r1}
  Access <- MCAccess
  FirstSignal = 40
  Signals = {90}
  Areas = {0, 100, 110, 300}
  Dates = {1, 2}
  MaxScenes = 3
  MaxImagery = 2
INVARIANT BoostIsLimited
CHECK_DEADLOCK FALSE
