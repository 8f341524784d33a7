SPECIFICATION FairSpec
CONSTANTS
  None = None
  ResetPc = 0
  MaxPc = 4
  BlockLens = {1, 2}
  JumpTargets = {0}
  FaultAddrs = {}
  FaultCauses = {}
  StatusValues <- OneStatus
  TvecValues = {5}
  EpcValues = {}
  MedelegValues = {}
  MidelegValues <- DelegateTimer
  IeValues <- SupervisorOrAllTimers
  IpValues <- STimerPending
  CauseValues = {}
  MtimecmpValues = {1, 9}
  PollThreshold = 1
  MaxTime = 1
INVARIANTS
  KnownMode
PROPERTIES
  TimerTrapIsDue
  MachineTimerServed
  SupervisorTimerServed
CHECK_DEADLOCK FALSE
