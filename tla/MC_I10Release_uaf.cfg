\* io_work receiving into a command that uninit_data_in_cmds freed.
SPECIFICATION Spec
CONSTANTS
  Slots = {s1, s2}
  MaxCapsules = 3
  DataChunks = 2
  IoWorkBudget = 2
  NoCmd = NoCmd
  CloseMidWrite = TRUE
  CloseDuringAccept = FALSE
PROPERTY NoWriteAfterFree
CHECK_DEADLOCK FALSE
