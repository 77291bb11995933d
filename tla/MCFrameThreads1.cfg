CONSTANTS
  NFc = 1
  Kinds <- AllKinds
  MaxUnits = 3
  MaxPacket = 2
  MaxFlushes = 1
  MaxCopies = 1
SPECIFICATION Spec
CHECK_DEADLOCK FALSE
PROPERTIES
  QueueSpec
