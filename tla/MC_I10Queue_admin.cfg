\* The admin queue (every PDU sent at once, no caravans) with the data
\* digest negotiated; H2C data arrives in one PDU per R2T.
CONSTANTS
  QDepth = 1
  NrSlots = 2
  MaxCmds = 3
  TransferPages = {1, 2}
  InlinePages = 1
  MaxH2CPages = 2
  AdminQueue = TRUE
  DataDigest = TRUE
  InitFailCmds <- SafeInitFailCmds
  ExecFails = TRUE
  RecvBudget = 2
  SendBudget = 2
  IoWorkBudget = 4
  HdrLen = 1
  PageLen = 2
  Caravan1Capacity = 4
  Caravan2Capacity = 2
  MaxFills = 1
  MayDisconnect = FALSE
SPECIFICATION Spec
INVARIANT SlotExclusive
INVARIANT WireOrder
INVARIANT FramingInSync
PROPERTY LifecycleRefined
