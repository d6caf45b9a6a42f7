SPECIFICATION SuiteSpec
CONSTANTS
  NumWorkers = 3
  Counts = {0, 1, 2, 3}
  MaxRuns = 2
INVARIANTS
  FrameAlive
  ItemsOnce
  BuffersExact
  LruExact
  EachPairOnce
PROPERTIES
  ImplementsExpertCall
  ImplementsStreamForward
CHECK_DEADLOCK FALSE
