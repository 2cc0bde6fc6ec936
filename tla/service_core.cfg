CONSTANTS
  c1 = c1
  Callers = {c1}
  ReplanCap = 2
  GoalCap = 4
  PlanSize = 2
  Knots = TRUE
  MaxCalls = 2
  MaxFaults = 1
  MaxRestarts = 1
CHECK_DEADLOCK FALSE
SPECIFICATION FairSpec
INVARIANTS CompletedMeansDone ReflectsOnTheEnd
PROPERTIES KeepsItsPromise CallsReturn HeardCancelsCancel
