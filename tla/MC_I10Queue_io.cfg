\* An I/O queue (caravans on), no data digest; reads and writes, with and
\* without in-capsule data, init failures and failed executions; liveness
\* under the fairness of io_work, the executor, write_space and the host.
CONSTANTS
  QDepth = 1
  NrSlots = 2
  MaxCmds = 4
  TransferPages = {1, 2}
  InlinePages = 1
  MaxH2CPages = 1
  AdminQueue = FALSE
  DataDigest = FALSE
  InitFailCmds <- SafeInitFailCmds
  ExecFails = TRUE
  RecvBudget = 2
  SendBudget = 2
  IoWorkBudget = 4
  HdrLen = 1
  PageLen = 2
  Caravan1Capacity = 4
  Caravan2Capacity = 2
  MaxFills = 1
  MayDisconnect = FALSE
SPECIFICATION Spec
INVARIANT TypeOK
INVARIANT SlotExclusive
INVARIANT WireOrder
INVARIANT FramingInSync
INVARIANT FreeSlotAvailable
PROPERTY ReleasedOnlyWhenAnswered
PROPERTY EveryCommandAnswered
