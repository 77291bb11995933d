CONSTANTS
  NFc = 1
  Kinds <- PlainKinds
  MaxUnits = 2
  MaxPacket = 1
  MaxFlushes = 0
  MaxCopies = 0
SPECIFICATION Spec
CHECK_DEADLOCK FALSE
INVARIANT NoPanic
