SPECIFICATION Spec
CONSTANTS
  Requests = {"r1", "r2"}
  Blocks = {b1, b2, b3, b4, b5, b6}
  Null = null
  BlockSize = 2
  NumSpec = 1
  Depth = 2
  MaxBatched = 4
  Prompt <- LongAndShort
  Common = 4
  MaxNew = 3
SYMMETRY BlockSymmetry
INVARIANTS
  RunningListed
  RefCounts
  HeldBound
  StateExact
  CacheExact
  EstimateCovers
  WritesOwned
  CountersAgree
