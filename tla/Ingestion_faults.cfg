SPECIFICATION FairServiceSpec
CONSTANTS
  r1 = r1
  r2 = r2
  s1 = s1
  a = a
  b = b
  Requests = {r1, r2}
  Signals = {s1}
  SignalOf <- SameSignal
  Workflows = {a, b}
  Versions <- TwoWorkflows
  Workers = {w1}
  MaxReceives = 3
  MayFail <- Faults
  MaxFaults = 1
CHECK_DEADLOCK FALSE
INVARIANTS SavedIsQueued SucceededIsQueued StoppedIsIdle
PROPERTIES AcceptedIsStarted StopEnds
