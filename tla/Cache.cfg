SPECIFICATION SuiteSpec
INVARIANTS
  HitsExact
  WindowsHeld
  LoadsExact
CHECK_DEADLOCK FALSE
