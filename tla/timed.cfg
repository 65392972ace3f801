SPECIFICATION TimedSpec
CONSTANTS
  AlgoList <- ThreeAlgos
  SetLists <- TimedLists
  Horizon = 14
  Garbage = {0}
  Spins <- Calibrations
INVARIANTS
  TimedTypeOK
  CountersRight
  QuantaAreReal
PROPERTIES
  HeadRuns
  ImplementsThreads
