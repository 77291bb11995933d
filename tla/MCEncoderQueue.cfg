CONSTANT
  Setups <- MCSetups
SPECIFICATION FairSpec
CHECK_DEADLOCK FALSE
INVARIANTS
  TypeOK
  InSync
  LookbackThere
  StreamIsCanonical
PROPERTIES
  Contract
  OrderSpec
  Drains
