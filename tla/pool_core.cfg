CONSTANTS
  m1 = m1
  m2 = m2
  w1 = w1
  w2 = w2
  c1 = c1
  c2 = c2
  Missions = {m1, m2}
  Workers = {w1, w2}
  Callers = {c1, c2}
  MaxRows = 2
  MaxFaults = 1
  MaxRestarts = 1
  Timely = TRUE
CHECK_DEADLOCK FALSE
SPECIFICATION FairSpec
INVARIANTS RowsFollowCalls OneWorkerPerMission FinishedMeansEnded
PROPERTY QueuedMissionsEnd
