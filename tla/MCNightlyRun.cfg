SPECIFICATION ChunkedSpec
CONSTANTS
  Suites = 2
  Expected <- MCExpected
  ChunkSize = 4
  MaxCalls = 7
  MaxAbortsInARow = 3
  Tests <- MCTests
  Foreign <- MCForeign
INVARIANTS
  GreenIsComplete
  NoDuplicateUnlessTorn
  CallsBounded
  FilterIsExact
  NoNeedlessSplit
PROPERTIES
  Verdict
  ImplementsNight
\* the job ends
CHECK_DEADLOCK FALSE
