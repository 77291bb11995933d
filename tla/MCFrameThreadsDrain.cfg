CONSTANTS
  NFc = 3
  Kinds <- PlainKinds
  MaxUnits = 4
  MaxPacket = 2
  MaxFlushes = 0
  MaxCopies = 0
SPECIFICATION Spec
CHECK_DEADLOCK FALSE
PROPERTY DrainComplete
