\* Buffers of commands still answering when the queue is freed.
SPECIFICATION Spec
CONSTANTS
  Slots = {s1, s2}
  MaxCapsules = 3
  DataChunks = 2
  IoWorkBudget = 2
  NoCmd = NoCmd
  CloseMidWrite = FALSE
  CloseDuringAccept = FALSE
INVARIANT NoBufferLeak
CHECK_DEADLOCK FALSE
