SPECIFICATION Spec
CONSTANT Cases <- NullCases
INVARIANT JoinedForEquality
CHECK_DEADLOCK FALSE
