SPECIFICATION Spec
CONSTANTS
  None = None
  c1 = c1
  c2 = c2
  Client = {c1, c2}
  OutCap = 2
  InCap = 1
  MaxHandled = 2
  Writes = 0
  Reads = {"run", "reading"}
  Keys = 2
SYMMETRY Swap
INVARIANTS
  InputOnceInOrder
  OneIsCurrent
  AtMostOneServes
PROPERTY
  InputIsChannel
