SPECIFICATION Spec
CONSTANTS
  Algos = {"rma", "edf", "sct"}
  TaskSets <- SmallAndRegisteredSets
  Horizon = 600
INVARIANTS
  NoDrift
  RmaFailsOnlyIfUnresponsive
  PassMeansOnTime
  EdfFailsOnlyIfOverloaded
  IInv
  RegisteredVerdicts
PROPERTIES
  CompletedOnTime
  ImplementsIdeal
  NoPingPong
