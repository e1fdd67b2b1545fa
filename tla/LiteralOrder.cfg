CONSTANTS
  Variables <- MCVariables
  Texts <- MCTexts
  Files <- MCFiles
  MaxModules = 3
SPECIFICATION Spec
INVARIANT UnsafeEvaluatedLast
CHECK_DEADLOCK FALSE
