\* An I/O queue, which the host may disconnect, with two commands outstanding
\* at once and caravans large enough in bytes that their segment, command
\* and page arrays fill first.
CONSTANTS
  QDepth = 2
  NrSlots = 4
  MaxCmds = 3
  TransferPages = {2}
  InlinePages = 2
  MaxH2CPages = 2
  AdminQueue = FALSE
  DataDigest = FALSE
  InitFailCmds = {}
  ExecFails = FALSE
  RecvBudget = 2
  SendBudget = 2
  IoWorkBudget = 4
  HdrLen = 1
  PageLen = 2
  Caravan1Capacity = 16
  Caravan2Capacity = 4
  MaxFills = 1
  MayDisconnect = TRUE
SPECIFICATION Spec
INVARIANT CaravanWithinArrays
INVARIANT SlotExclusive
INVARIANT WireOrder
PROPERTY LifecycleRefined
PROPERTY AbandonedOnlyOnDisconnect
