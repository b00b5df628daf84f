CONSTANTS
  PlugReads = 1
  RemovalReads = 2
SPECIFICATION Spec
INVARIANT
  Configured
