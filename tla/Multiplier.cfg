CONSTANTS
  Switches <- MCSwitches
  MaxStarts = 2
SPECIFICATION MCSpec
INVARIANTS
  SignKept
  MultiplyAccumulate
PROPERTIES
  MultiplicationEnds
