SPECIFICATION Spec
CONSTANTS
  TPSize = 2
  NumLayers = 2
  Warmups = 2
  Depth = 2
  MaxForwards = 4
INVARIANTS
  IInv
  HandshakeSafe
PROPERTIES
  SourceStable
  ImplementsPleForward
\* With two batches in flight the handshake can stop: see the runs
\* ple_queue_full and ple_event_rerecorded.
CHECK_DEADLOCK FALSE
