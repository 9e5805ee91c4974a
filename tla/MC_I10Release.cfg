\* Teardown after an orderly close (no write data in flight): two slots,
\* up to three capsules, io_work budget 2.
SPECIFICATION Spec
CONSTANTS
  Slots = {s1, s2}
  MaxCapsules = 3
  DataChunks = 2
  IoWorkBudget = 2
  NoCmd = NoCmd
  CloseMidWrite = FALSE
  CloseDuringAccept = FALSE
INVARIANT TypeOK
INVARIANT NoWorkAfterFree
PROPERTY ReleaseCompletes
CHECK_DEADLOCK FALSE
