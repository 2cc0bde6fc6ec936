CONSTANTS
  NGoals = 2
  NTasks = 2
  Plans <- LoosePlans
  Policy <- Mixed
  Registered <- AllTasks
  MaxParallel = 1
  Retries = 1
  MaxRuns = 2
  MaxFaults = 1
  Exclusive = TRUE
CHECK_DEADLOCK FALSE
SPECIFICATION Spec
INVARIANTS CompletedMissionIsWhole InvocationBound
PROPERTY GraphSpec
