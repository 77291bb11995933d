CONSTANTS
  w1 = w1
  w2 = w2
  Workers <- MCWorkers
  NFc = 2
  Sbh = 2
  Clients <- TidyOrMixed
  MaxFrames = 4
SPECIFICATION Spec
SYMMETRY Symmetry
CHECK_DEADLOCK FALSE
INVARIANTS
  CursorSound
  NoTaskMissed
