CONSTANTS
  s1 = s1
  g1 = g1
  Callers = {s1, g1}
  Shells = {s1}
  Messages = {g1}
  MaxMissions = 1
  MaxGoals = 1
  MaxExtensions = 1
  MaxFaults = 1
  MaxRestarts = 1
CHECK_DEADLOCK FALSE
SPECIFICATION FairSpec
INVARIANTS SummaryIsSettled
PROPERTIES RequestsEnd AnnouncedAreRun WaitsEnd AcknowledgedAreAnswered
