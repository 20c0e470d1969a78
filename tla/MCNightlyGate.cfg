SPECIFICATION GateSpec
CONSTANTS
  Day = 8
  Window = 12
  MaxDelay = 1
  MaxWait = 1
  MaxRun = 4
  MaxOld = 1
  MaxTime = 28
  MaxCommits = 3
CHECK_DEADLOCK FALSE
INVARIANTS
  GateTypeOK
  EveryCommitHasANight
  AtMostTwoNights
