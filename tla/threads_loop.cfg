SPECIFICATION Spec
CONSTANTS
  AlgoList <- ThreeAlgos
  SetLists <- SmallLists
  Horizon = 6
  Garbage = {0}
INVARIANTS
  ReleaseConservation
  RmaLockstep
  IInv
PROPERTIES
  NoStartAfterPill
  ImplementsSched
  Terminates
