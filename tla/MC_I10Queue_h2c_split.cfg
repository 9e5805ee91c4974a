\* The admin queue with the data digest negotiated and the host sending
\* the data of an R2T in several H2C data PDUs, each with its own digest.
CONSTANTS
  QDepth = 1
  NrSlots = 2
  MaxCmds = 3
  TransferPages = {1, 2}
  InlinePages = 1
  MaxH2CPages = 1
  AdminQueue = TRUE
  DataDigest = TRUE
  InitFailCmds <- SafeInitFailCmds
  ExecFails = TRUE
  RecvBudget = 2
  SendBudget = 2
  IoWorkBudget = 4
  HdrLen = 1
  PageLen = 2
  Caravan1Capacity = 4
  Caravan2Capacity = 2
  MaxFills = 1
  MayDisconnect = FALSE
SPECIFICATION Spec
INVARIANT FramingInSync
