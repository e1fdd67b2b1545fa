CONSTANTS
  Variables <- MCVariables
  Texts <- MCTexts
  Files <- MCFiles
  MaxModules = 3
SPECIFICATION Spec
INVARIANT NegatedIsFalse
CHECK_DEADLOCK FALSE
