SPECIFICATION Spec
CONSTANTS
  Second = 8
  Quantum = 2
  Jitter = 1
  SecondsPerTest = 1
  Starts <- AnySecond
  Limit = 20
PROPERTIES
  BlocksForAQuantum
