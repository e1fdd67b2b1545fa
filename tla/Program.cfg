SPECIFICATION Spec
CONSTANTS
  Relations <- AllRelations
  TermArrays <- Arrays
  Programs <- MCProgs
  MaxEvaluations = 2
INVARIANTS
  ModelClosed
  ModelSupported
  NoInconsMissed
PROPERTIES
  StoresImplemented
  EvaluationReturns
