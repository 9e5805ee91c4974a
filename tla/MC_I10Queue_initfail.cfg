\* An I/O queue on which nvmet_req_init may reject any capsule, writes
\* whose data fits in a capsule included.
CONSTANTS
  QDepth = 1
  NrSlots = 2
  MaxCmds = 3
  TransferPages = {1, 2}
  InlinePages = 1
  MaxH2CPages = 1
  AdminQueue = FALSE
  DataDigest = FALSE
  InitFailCmds <- AllInitFailCmds
  ExecFails = TRUE
  RecvBudget = 2
  SendBudget = 2
  IoWorkBudget = 4
  HdrLen = 1
  PageLen = 2
  Caravan1Capacity = 4
  Caravan2Capacity = 2
  MaxFills = 1
  MayDisconnect = FALSE
SPECIFICATION Spec
INVARIANT SlotExclusive
