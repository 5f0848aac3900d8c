SPECIFICATION FairSpec
CONSTANTS
  Signals = {s1}
  Workers = {w1}
  Actions <- ShortDelayAction
  NumConditions = 0
  MaxReceives = 2
  MaxCopies = 1
  Gaps = {1}
  MayFail = {}
  MaxFaults = 0
  NoRun = NoRun
  NoMessage = NoMessage
CHECK_DEADLOCK FALSE
PROPERTY RunContinues
