SPECIFICATION Spec
CONSTANTS
  App = {"a", "b", "c"}
  Wired = {"a", "b"}
  Tests <- MCTests
  Conditional = {2, 4}
  Leg <- MCLeg
  Junk = Junk
  NotJson = NotJson
  Inputs <- MCInputs
  Diffs <- MCDiffs
INVARIANTS
  LabelForcesFull
