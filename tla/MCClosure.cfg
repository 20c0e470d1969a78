SPECIFICATION Spec
CONSTANTS
  Object <- MCObject
  Key <- MCKey
  Publisher <- MCPublisher
  MaxPublisherUsers = 1
  Calls <- MCCalls
  NoKey = NoKey
  NoObject = NoObject
INVARIANTS
  OnlyAffected
  Explained
PROPERTIES
  Terminates
  TurnsRunOut
  ImplementsAffectedSet
\* the call returns
CHECK_DEADLOCK FALSE
