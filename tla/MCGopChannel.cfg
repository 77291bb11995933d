CONSTANTS
  Slots = 2
  Pools = {2, 4, 5}
  Pyramid = 2
  InputLen = 1
  SubGopsLen = 2
  MaxFrames = 7
SPECIFICATION FairSpec
CHECK_DEADLOCK FALSE
INVARIANTS
  TypeOK
  GopsAsDetected
PROPERTIES
  OrderSpec
  Drains
