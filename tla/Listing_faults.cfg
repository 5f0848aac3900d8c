SPECIFICATION FairSpec
CONSTANTS
  a = a
  b = b
  c = c
  d = d
  v = v
  w = w
  Runs <- FourRuns
  Workflows <- TwoWorkflows
  OfType <- OneOfType
  Place <- InOrder
  Asked = {0, 1, 3}
  DefaultLimit = 1
  MaxLimit = 2
  MayFail <- Faults
  MaxFaults = 1
CHECK_DEADLOCK FALSE
INVARIANTS NoneTwice SteadyIsListed
PROPERTY ListingEnds
