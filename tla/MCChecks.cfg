SPECIFICATION ChecksSpec
CONSTANTS
  Lists <- MCLists
  Code = {1, 2}
  Text = {"", "a", "ab", "b"}
  Begins <- MCBegins
  MaxFound = 3
  BcMajor = 27
  AlMajor = 16
  None = None
  Bad = Bad
  Name = {"T1", "T2", "H", "S1", "S2", "gone"}
  Sources <- MCSources
  Nobody = Nobody
INVARIANTS
  OkIsExact
  NoFalseAlarm
  ExitZeroMeansAll
  OrderIndependent
  SharedIsSeen
\* the scripts end
CHECK_DEADLOCK FALSE
