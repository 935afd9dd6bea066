SPECIFICATION FairSpec
CONSTANTS
  h1 = h1
  h2 = h2
  d1 = d1
  d2 = d2
  Harts <- MCHarts
  Sectors <- MCSectors
  Data <- MCData
  QUEUE_SIZE = 2
  IdxSpan = 4
  Idle = Idle
  NoHart = NoHart
  NoData = NoData
INVARIANTS
  TypeOK
  DeviceUsesLiveBuffers
PROPERTIES
  ImplementsSectorDisk
  RequestsFinish
CHECK_DEADLOCK FALSE
