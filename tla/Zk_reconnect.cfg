SPECIFICATION FairSpec
CONSTANTS
  Callers = {c1}
  Reconnectors = {g1}
  Attempts = 2
  MaxNode = 2
  MayFail = {"Loss"}
  MaxFaults = 1
  MayClose = FALSE
  Session = session
  Events = events
  Watcher = watcher
  Closer = closer
  Free = Free
CHECK_DEADLOCK FALSE
PROPERTIES Reconnects
