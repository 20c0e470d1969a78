SPECIFICATION ReportSpec
CONSTANTS
  Suites = 2
  Expected <- MCExpected
  Files <- MCFiles
  StopTest = 0
  RowLimit = 1
  Baselines <- MCBaselines
  Run = {"function", "codeunit"}
  ProbeFiles <- MCProbeFiles
  Fixture = {"t1", "t5"}
  Absent = Absent
  Torn = Torn
CHECK_DEADLOCK FALSE
INVARIANTS
  TableIsComplete
