CONSTANTS
  Tuples <- MCTuples
  Matching <- MCMatching
  FactLists <- MCFactLists
  Threshold = 4
  MaxThreads = 4
  Teams = {1, 3, 4}
  Small = 2
SPECIFICATION EvalSpec
INVARIANTS SelectionExact WritesApart SortExact NoDataRaces
PROPERTY SelectionEnds
CHECK_DEADLOCK FALSE
