SPECIFICATION Spec
CONSTANTS
  Unset = Unset
  None = None
  XLEN = 2
  Reg = {0, 1, 2, 3}
  Addr = {1, 2}
  Values = {1, 2}
  Amo <- AllAmos
  LrRegs <- LrApart
  StoreRegs <- OverOperands
PROPERTIES
  AmoTakesEffectOnce
CHECK_DEADLOCK FALSE
