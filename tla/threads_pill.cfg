SPECIFICATION Spec
CONSTANTS
  AlgoList <- OnlyRma
  SetLists <- OneSet
  Horizon = 3
  Garbage = {0, 1}
INVARIANTS
  QuitOnlyWhenTold
