SPECIFICATION Spec
CONSTANTS
  Relations <- AllRelations
  TermArrays <- ScriptArrays
  Programs <- MCProgs
  MaxEvaluations = 4
INVARIANTS
  AlgorithmsAgree
  AnswersStay
  ScriptsAnswered
