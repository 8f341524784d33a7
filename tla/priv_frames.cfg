SPECIFICATION Spec
CONSTANTS
  None = None
  ResetPc = 0
  MaxPc = 4
  BlockLens = {1}
  JumpTargets = {}
  FaultAddrs = {4}
  FaultCauses <- PageFaults
  StatusValues <- ReservedStatus
  TvecValues = {}
  EpcValues = {4}
  MedelegValues <- DelegateCalls
  MidelegValues <- DelegateTimers
  IeValues <- AllTimers
  IpValues <- SupervisorPending
  CauseValues <- AnyCause
  MtimecmpValues = {}
  PollThreshold = 0
  MaxTime = 0
INVARIANTS
  TypeOK
  MachineFrameIntact
  SupervisorFrameIntact
  HandlersMasked
PROPERTIES
  OnlyReturnsLowerMode
  TimerSparesHandlers
  MretRestoresContext
CHECK_DEADLOCK FALSE
