SPECIFICATION Spec
CONSTANTS
  TPSize = 2
  NumLayers = 1
  Warmups = 1
  Depth = 2
  MaxForwards = 4
INVARIANTS
  QueueNeverFull
CHECK_DEADLOCK FALSE
