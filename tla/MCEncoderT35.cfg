CONSTANT
  Setups <- T35Setups
SPECIFICATION Spec
CHECK_DEADLOCK FALSE
INVARIANT T35Kept
