CONSTANTS
  w1 = w1
  w2 = w2
  Workers = {w1, w2}
  Setups <- LiveSetups
  Strict = TRUE
  MaxFrames = 2
SPECIFICATION FairSpec
CHECK_DEADLOCK FALSE
PROPERTIES
  FramesEnd
  CallerReturns
