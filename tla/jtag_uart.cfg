CONSTANTS
  BUF_LEN = 3
  WriteDepth = 1
  ReadDepth = 2
  AlmostEmpty = 0
  AlmostFull = 0
  Timeout = 2
  MaxInput = 3
  MaxOutput = 4
  MaxCount = 2
SPECIFICATION Spec
CHECK_DEADLOCK FALSE
INVARIANTS
  TypeOK
  NotStalled
PROPERTIES
  TransmitInOrder
  ReceiveInOrder
  OutputReachesHost
  WriterReleased
  ReaderWakes
