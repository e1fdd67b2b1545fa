CONSTANTS
  Variables <- MCVariables
  Texts <- MCTexts
  Files <- MCFiles
  MaxModules = 4
SPECIFICATION Spec
INVARIANTS TypeOK PoolsFit DomainsResolved RulesCovered PromptEvaluated AbortJustified
PROPERTIES CatalogImplemented ImportEnds
CHECK_DEADLOCK FALSE
