SPECIFICATION FairSpec
CONSTANTS
  None = None
  c1 = c1
  c2 = c2
  Client = {c1, c2}
  OutCap = 1
  InCap = 1
  MaxHandled = 1
  Writes = 2
  Reads = {"run"}
  Keys = 0
INVARIANTS
  OutputOnceInOrder
  NoLostWakeup
  TypeOK
PROPERTIES
  OutputIsChannel
  OutputDrains
  SupersededRetires
