CONSTANT
  SwitchWords <- MCSwitches
SPECIFICATION AccumulatorSpec
INVARIANTS
  OneAddPerPress
  ShowsSum
PROPERTIES
  PressCounts
  ResetCounts
