SPECIFICATION Spec
CONSTANTS
  Orgs = {o1, o2}
  Zones <- ThreeZones
  ServerZone = 0
  Instants = {i1, i2}
  LastSecond = 2
  PageSize = 2
  Duration <- OneSecond
  Unsupported = Unsupported
  e1 = e1
  e2 = e2
  MaxSignals = 3
  Runs = {e1, e2}
  MayFail <- Faults
  MaxFaults = 1
CHECK_DEADLOCK FALSE
SYMMETRY Alike
INVARIANTS OnlyNewsBreaksSilence FailureIsExplained
PROPERTY HeardIsNotSilent
