CONSTANTS
  NGoals = 3
  NTasks = 2
  Plans <- ShapePlans
  Policy <- AskFirst
  Registered <- AllTasks
  MaxParallel = 2
  Retries = 1
  MaxRuns = 1
  MaxFaults = 0
  Exclusive = TRUE
CHECK_DEADLOCK FALSE
SPECIFICATION FairSpec
INVARIANTS DepsDoneBeforeWork NoWorkerLeftBehind ApprovalBeforeTool CompletedGoalIsWhole
PROPERTIES CancelReturns RunReturns
