CONSTANTS
  Floating = Floating
  MemSize <- MCMemSize
  Images <- MCImages
  Switches <- MCSwitches
  ReloadOnReset = FALSE
SPECIFICATION FairSpec
INVARIANTS
  TypeOK
  InFlightInv
PROPERTIES
  ImplementsISA
  InstructionCompletes
