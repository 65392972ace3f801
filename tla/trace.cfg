SPECIFICATION TracedSpec
CONSTANTS
  AlgoList <- RmaThenEdf
  SetLists <- TracedLists
  Horizon = 3
  Garbage = {0}
  Length = 21
INVARIANTS
  TracedTypeOK
  ExactUnlessCut
  RmaIsExact
  StaysInside
  DamageIsLocal
