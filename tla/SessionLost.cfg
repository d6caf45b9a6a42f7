SPECIFICATION OverlappedSpec
INVARIANTS
  InputCommences
CHECK_DEADLOCK FALSE
