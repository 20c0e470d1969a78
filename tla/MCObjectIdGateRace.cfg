SPECIFICATION Spec
CONSTANTS
  PR = {1, 2}
  PageSize = 1
  Decl <- MCDecl
  Id <- MCId
  IdOf <- MCIdOf
  Block <- MCBlock
  Covers <- MCCovers
  AppOf <- MCAppOf
  Owned <- MCOwned
  Start <- MCStart
INVARIANT
  NeitherCanMerge
\* every pull request may have been merged or closed
CHECK_DEADLOCK FALSE
