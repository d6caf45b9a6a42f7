SPECIFICATION FairSuiteSpec
CONSTANTS
  DPSize = 1
  PPSize = 1
  TPSize = 2
  Owners = {0}
  MaxSteps = 2
  MaxFaults = 1
INVARIANTS
  LifecycleSafe
PROPERTIES
  LifecycleEnds
  AllComplete
CHECK_DEADLOCK FALSE
