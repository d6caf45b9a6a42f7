SPECIFICATION SuiteSpec
INVARIANTS
  StepsMatch
  SessionsKept
  EncoderHeld
  RoutingExact
CHECK_DEADLOCK FALSE
