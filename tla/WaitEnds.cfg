CONSTANTS
  PlugReads = 1
  RemovalReads = 2
SPECIFICATION UntouchedSpec
\* With no keyboard plugged in the driver waits for one for ever.
CHECK_DEADLOCK FALSE
PROPERTY
  WaitEnds
