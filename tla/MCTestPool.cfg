SPECIFICATION Spec
CONSTANTS
  Task <- MCTwice
  Codeunit <- MCCodeunit
  CodeunitOf <- MCTwiceOf
  Workers = 2
  Retries = 1
  LogLost = FALSE
INVARIANT
  GreenMeansPassed
PROPERTIES
  Terminates
  OnlyForward
\* the script ends
CHECK_DEADLOCK FALSE
