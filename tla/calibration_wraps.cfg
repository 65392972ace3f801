SPECIFICATION Spec
CONSTANTS
  Costs <- TwoNanoseconds
  Sleeps <- UsualSleeps
  Interrupts <- Undisturbed
  MaxQuanta = 1
INVARIANTS
  SpinsForQuanta
