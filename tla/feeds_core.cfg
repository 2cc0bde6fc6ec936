CONSTANTS
  t1 = t1
  r1 = r1
  r2 = r2
  Tasks = {t1}
  Publishers <- WorkerAndFeed
  Subscribers <- BothSubscribers
  Requests = {r1, r2}
  Capacity = 2
  ReadLimit = 3
  MaxShown = 6
  MaxEvents = 3
  MaxWrites = 2
  MaxReverts = 1
  MaxLosses = 1
CHECK_DEADLOCK FALSE
SYMMETRY Symmetry
SPECIFICATION Spec
INVARIANTS ChangesAreCommitted StoreIsComplete TwiceAtMost
