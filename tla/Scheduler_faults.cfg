SPECIFICATION Spec
CONSTANTS
  Jobs = {j1, j2}
  LastMinute = 4
  CleanupAge = 3
  UnpackLimit = 2
  Requests <- OneRequest
  CallSlack = 1
  ThreadSlack = 1
  MayFail <- Faults
  MaxFaults = 1
  NoJob = NoJob
INVARIANTS CompletedWasSent NothingVanishes NoJobStranded TempSwept SentAtMostOnce StopLeavesNothingBehind
PROPERTIES KeepsPromise CompletedIsFinal
SYMMETRY JobSymmetry
