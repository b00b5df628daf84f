CONSTANTS
  MemSize <- MCMemSize
  Images <- MCImages
  Switches <- MCSwitches
  Plans <- MCPlans
  ReloadOnReset = TRUE
SPECIFICATION ProgramSpec
INVARIANTS
  ProgramsShow
  SortSorts
PROPERTIES
  SortReturns
