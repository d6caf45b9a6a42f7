SPECIFICATION SuiteSpec
CONSTANTS
  Ratio = 4
  NumSpec = 3
  BlockSize = 8
  Prompt = 6
  MaxLen = 14
  MaxChunk = 6
  Versions = 1
  MaxPreempt = 1
  Drafter = FALSE
INVARIANTS
  OpenGroupKept
  VisibleExact
  QsaExact
  StatesExact
  LookupsExact
  DispatchExact
CHECK_DEADLOCK FALSE
