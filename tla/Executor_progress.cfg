SPECIFICATION FairSpec
CONSTANTS
  Signals = {s1}
  Workers = {w1, w2}
  Actions <- ActionDelayAction
  NumConditions = 1
  MaxReceives = 3
  MaxCopies = 1
  Gaps = {1}
  MayFail <- Faults
  MaxFaults = 1
  NoRun = NoRun
  NoMessage = NoMessage
CHECK_DEADLOCK FALSE
PROPERTIES EventuallyHandled EventuallyFinal RunContinues
