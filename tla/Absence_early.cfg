SPECIFICATION Spec
CONSTANTS
  Orgs = {o1}
  Zones <- Here
  ServerZone = 0
  Instants = {i1}
  LastSecond = 2
  PageSize = 2
  Duration <- TwoSeconds
  Unsupported = Unsupported
  e1 = e1
  e2 = e2
  MaxSignals = 2
  Runs = {e1}
  MayFail = {}
  MaxFaults = 0
CHECK_DEADLOCK FALSE
INVARIANT SilentForDuration
