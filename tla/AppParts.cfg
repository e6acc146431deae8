SPECIFICATION PartsSpec
CONSTANTS
  u1 = u1  u2 = u2  c1 = c1  m1 = m1  m2 = m2
  Url = {u1, u2}
  Cell = {c1}
  Marker = {m1, m2}
  pinURL <- MCpinURL
  MaxRequests = 3
  Height = 568
  MaxSide = 100
  MaxRuns = 3
INVARIANTS ImageSafety PinSafety SessionSafety
PROPERTIES EveryImageArrives DragFollowsPlaces
\* A pin is resized once, and requests and runs are used up.
CHECK_DEADLOCK FALSE
