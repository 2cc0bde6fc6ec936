CONSTANTS
  p1 = p1
  p2 = p2
  w1 = w1
  Publishers = {p1, p2}
  Subscribers = {w1}
  Missions = {1}
  Capacity = 2
  ReadLimit = 3
  MaxEvents = 3
CHECK_DEADLOCK FALSE
SPECIFICATION Spec
INVARIANT StreamsReplay
