SPECIFICATION Spec
CONSTANTS
  NumLayers = 2
  NumExperts = 4
  PerLayer = 3
  Protect = 1
  PerStep = 1
  HintPerLayer = 1
  Boost = 1
  Depth = 2
  MaxForwards = 3
INVARIANTS
  MapsAgree
  TableExact
  DmaReadsPlanned
  ShareStable
PROPERTIES
  ImplementsSharing
CHECK_DEADLOCK FALSE
