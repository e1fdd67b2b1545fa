SPECIFICATION Spec
CONSTANT Cases <- AllCases
INVARIANTS
  ResultSound
  ResultComplete
  DisjunctionSound
CHECK_DEADLOCK FALSE
