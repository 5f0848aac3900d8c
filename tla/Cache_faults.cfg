SPECIFICATION FairSpec
CONSTANTS
  w1 = w1
  w2 = w2
  t1 = t1
  Workflows = {w1, w2}
  Types = {t1}
  TypeOf <- OneType
  PageSize = 2
  Callers = {c1}
  Watcher = watcher
  MayFail <- Faults
  MaxFaults = 2
  NoCall = NoCall
  Free = Free
CHECK_DEADLOCK FALSE
INVARIANTS CoveredIsFound ChangedSinceSaved
PROPERTIES LookupsEnd 
