SPECIFICATION FairSpec
CONSTANTS
  DPSize = 1
  PPSize = 1
  TPSize = 2
  Owners = {0}
  MaxSteps = 1
  MaxFaults = 0
PROPERTIES ShutdownEnds
CHECK_DEADLOCK FALSE
