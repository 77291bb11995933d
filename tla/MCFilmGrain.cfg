CONSTANTS
  Worker = {w1, w2, w3}
  Main = main
  NoOne = none
  Heights <- MCHeights
  Pictures = 2
  Tasks = 1
SPECIFICATION FairSpec
CHECK_DEADLOCK FALSE
INVARIANTS
  IInv
  GrainComplete
  RowsDisjoint
  GuardsCompatible
  CompletionHeard
PROPERTIES
  GrainReturns
