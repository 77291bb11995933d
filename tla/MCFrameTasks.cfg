CONSTANTS
  w1 = w1
  w2 = w2
  Workers = {w1, w2}
  Setups <- SafeSetups
  Strict = TRUE
  MaxFrames = 2
SYMMETRY Symmetry
SPECIFICATION Spec
CHECK_DEADLOCK FALSE
INVARIANTS
  TypeOK
  CounterExact
  LeftClean
  InitAlone
  DoneAssert
  RowsDecoded
  FiltersInOrder
  RefRowsThere
  ProgressHonest
  EndsComplete
PROPERTIES
  ProgressGrows
