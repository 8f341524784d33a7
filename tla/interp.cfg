SPECIFICATION FairSpec
CONSTANTS
  PageLen = 2
  Pages = 2
  Programs <- FromZero
  Storable = {"alt", "bad"}
  Vectors = {2, 4}
  Budget = 2
INVARIANT
  TypeOK
PROPERTIES
  IsHart
  StopEnds
CHECK_DEADLOCK FALSE
