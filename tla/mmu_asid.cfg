SPECIFICATION Spec
CONSTANTS
  None = None
  AtPoll = AtPoll
  Page <- AB
  Frame <- Frames
  Word <- MoreWords
  Root <- TwoRoots
  ResetRoot <- R0
  Asid = {0, 1}
  InitMem <- MoreTables
  TableWrites <- RemapOrRevokeA
  SatpWrites <- Switches
  LoadPages = {}
  StorePages <- OnlyB
  FetchPages <- OnlyA
  ModesUsed = {1, 3}
INVARIANTS
  CachedEntriesCurrent
  AccelCurrent
PROPERTIES
  CodeCoherent
