\* Teardown when the host closes with write data still owed.
SPECIFICATION Spec
CONSTANTS
  Slots = {s1, s2}
  MaxCapsules = 3
  DataChunks = 2
  IoWorkBudget = 2
  NoCmd = NoCmd
  CloseMidWrite = TRUE
  CloseDuringAccept = FALSE
PROPERTY FlushReturns
CHECK_DEADLOCK FALSE
INVARIANT ShutdownOnlyLiveQueue
