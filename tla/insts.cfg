SPECIFICATION Spec
CONSTANTS
  None = None
  XLEN = 4
  Reg = {0, 1, 2}
  Upper = 1
  Places = {8}
  Program <- Sample
INVARIANTS
  TypeOK
  Disassembles
PROPERTY
  ExecutesAsListed
CHECK_DEADLOCK FALSE
