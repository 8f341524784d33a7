SPECIFICATION Spec
CONSTANTS
  None = None
  XLEN = 4
  ByteBits = 1
  PageBits = 2
  Machines <- BothMachines
  Maps <- TwoMaps
  Effective <- SomeAddresses
  Bases = {6, 8}
  Values = {9}
INVARIANT
  TypeOK
PROPERTY
  FlatMemory
CHECK_DEADLOCK FALSE
