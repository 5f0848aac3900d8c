SPECIFICATION Spec
CONSTANTS
  Signals = {s1}
  Workers = {w1, w2}
  Actions <- ActionDelayAction
  NumConditions = 1
  MaxReceives = 2
  MaxCopies = 2
  Gaps = {1}
  MayFail <- Faults
  MaxFaults = 2
  NoRun = NoRun
  NoMessage = NoMessage
SYMMETRY WorkerSymmetry
CHECK_DEADLOCK FALSE
INVARIANTS ActionsInOrder WaitsForDelay DeletedWasHandled PerformedOncePerSignal NoRunLeftBehind
PROPERTIES NoLostUpdate CompletedIsFinal
