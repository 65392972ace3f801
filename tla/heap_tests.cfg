SPECIFICATION Spec
CONSTANTS
  NULL = NULL
  t1 = t1
  t2 = t2
  t3 = t3
  t4 = t4
  TaskSets <- OneAndThree
  Algos = 2
  MaxRounds = 2
INVARIANTS
  HeapTypeOK
  ListsIntact
  QueueIsReady
  TestsLeaveNothing
  TeardownFrees
  SortIsStable
PROPERTIES
  WalksEnd
