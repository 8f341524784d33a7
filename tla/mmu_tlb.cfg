SPECIFICATION Spec
CONSTANTS
  None = None
  AtPoll = AtPoll
  Page <- ABD
  Frame <- Frames
  Word <- Words
  Root <- Roots
  ResetRoot <- R0
  Asid = {0}
  InitMem <- Tables
  TableWrites <- EditsOfA
  SatpWrites <- OnOff
  LoadPages <- OnlyA
  StorePages <- ABD
  FetchPages <- OnlyD
  ModesUsed = {1, 3}
INVARIANTS
  TypeOK
  AccelCurrent
  AccelBitsSet
PROPERTIES
  NoStaleWriteBack
