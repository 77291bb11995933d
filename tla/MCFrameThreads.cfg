CONSTANTS
  NFc = 2
  Kinds <- AllKinds
  MaxUnits = 3
  MaxPacket = 2
  MaxFlushes = 1
  MaxCopies = 1
SPECIFICATION FairSpec
CHECK_DEADLOCK FALSE
INVARIANTS
  OutputInOrder
  NothingLost
PROPERTIES
  OutputDecoded
  ErrorsKept
  QueueSpec
  EverythingOut
  CallsReturn
