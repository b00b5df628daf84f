CONSTANTS
  Addresses = {0, 2}
  Words = {0, 1}
  Gap = 4
  None = None
SPECIFICATION Spec
INVARIANT
  NoContention
PROPERTY
  ImplementsHPI
