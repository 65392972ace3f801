SPECIFICATION Spec
CONSTANTS
  Costs <- Machines
  Sleeps <- UsualSleeps
  Interrupts <- SomeInterrupts
  MaxQuanta = 16
INVARIANTS
  TypeOK
  MeasuredSpinsForQuanta
PROPERTIES
  CalibrationEnds
