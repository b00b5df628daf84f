CONSTANTS
  PlugReads = 1
  RemovalReads = 2
SPECIFICATION FairSpec
INVARIANTS
  TypeOK
  ListIntact
  Addressed
PROPERTIES
  RequestsInOrder
  PlugNoticed
  StatusLoopEnds
