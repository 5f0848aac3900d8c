SPECIFICATION FairSpec
CONSTANTS
  Callers = {c1}
  Reconnectors = {g1}
  Attempts = 2
  MaxNode = 2
  MayFail <- Faults
  MaxFaults = 2
  MayClose = TRUE
  Session = session
  Events = events
  Watcher = watcher
  Closer = closer
  Free = Free
CHECK_DEADLOCK FALSE
INVARIANTS OneConnection ClosedForGood
PROPERTIES CallsEnd ClosedStops ChangeReachesHandler
