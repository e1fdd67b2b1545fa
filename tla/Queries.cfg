SPECIFICATION Spec
CONSTANTS
  Names <- ConstantNames
  VarNames <- VariableNames
  Arity = 2
  Queries <- Texts
  MaxFacts = 2
INVARIANTS
  AnswerExact
  RefusalJustified
  SyntaxErrorJustified
