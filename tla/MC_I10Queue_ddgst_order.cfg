\* An I/O queue with the data digest negotiated: the digest of a read is
\* sent directly by try_send_ddgst while its C2H header and data wait in caravan 1.
CONSTANTS
  QDepth = 1
  NrSlots = 2
  MaxCmds = 3
  TransferPages = {1, 2}
  InlinePages = 1
  MaxH2CPages = 2
  AdminQueue = FALSE
  DataDigest = TRUE
  InitFailCmds <- SafeInitFailCmds
  ExecFails = TRUE
  RecvBudget = 2
  SendBudget = 2
  IoWorkBudget = 4
  HdrLen = 1
  PageLen = 2
  Caravan1Capacity = 4
  Caravan2Capacity = 2
  MaxFills = 1
  MayDisconnect = FALSE
SPECIFICATION Spec
INVARIANT WireOrder
