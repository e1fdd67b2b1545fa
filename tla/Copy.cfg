SPECIFICATION Spec
CONSTANTS
  Relations <- AllRelations
  TermArrays <- Arrays
  Programs <- CopyOnly
  MaxEvaluations = 1
INVARIANT InconsJustified
