SPECIFICATION Spec
CONSTANTS
  Object <- MCObject
  Key <- MCKey
  Publisher <- MCPublisher
  MaxPublisherUsers = 1
  File <- MCFile
  App <- MCApp
  NoName = NoName
  NoApp = NoApp
  line1 = line1
  line2 = line2
  Text <- MCText
  MaxFiles = 2
  Worlds <- MCWorlds
INVARIANTS
  TouchedTestsRun
  SubsetIsConfined
  EveryLegRuns
  NewTestsRun
  NothingElseRuns
\* the script ends
CHECK_DEADLOCK FALSE
