SPECIFICATION Spec
CONSTANTS
  Unset = Unset
  None = None
  XLEN = 4
  Reg = {0, 1, 2, 3}
  Addr = {1, 11}
  Values = {1, 11}
  Amo <- Closed
  LrRegs <- LrApart
  StoreRegs <- Apart
INVARIANTS
  TypeOK
PROPERTIES
  AmoTakesEffectOnce
  ScSucceedsOnKey
  ScSucceedsWhenUntouched
CHECK_DEADLOCK FALSE
