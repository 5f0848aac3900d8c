SPECIFICATION FairSpec
CONSTANTS
  Jobs = {j1, j2}
  LastMinute = 4
  CleanupAge = 2
  UnpackLimit = 2
  Requests <- SomeRequests
  CallSlack = 1
  ThreadSlack = 0
  MayFail = {"LRange", "Update", "Send", "LRem"}
  MaxFaults = 1
  NoJob = NoJob
PROPERTIES EventuallySettled KeepsLivePromise
