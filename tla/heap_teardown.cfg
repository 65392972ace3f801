SPECIFICATION Spec
CONSTANTS
  NULL = NULL
  t1 = t1
  t2 = t2
  t3 = t3
  t4 = t4
  TaskSets <- TwoTasks
  Algos = 2
  MaxRounds = 2
INVARIANTS
  TearsDown
