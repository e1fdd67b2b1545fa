SPECIFICATION Spec
CONSTANT Terms = {t1, t2}
INVARIANTS
  TypeOK
  PoolsHaveUniqueTerms
  EdbCounterExact
  CorrectionCounts
  InconsSurvive
  EdbFactsStay
PROPERTIES
  EdbFrozen
  FactsOnlyGrow
