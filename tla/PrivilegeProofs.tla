-------------------------- MODULE PrivilegeProofs --------------------------
(***************************************************************************)
(* What the runs of Privilege show on a few addresses, for every value of  *)
(* the constants: type correctness, the two saved contexts, and what the   *)
(* steps that follow from them may do.                                     *)
(***************************************************************************)
EXTENDS Privilege, TLAPS

USE DEF Modes, MODE_U, MODE_S, MODE_M, INTERRUPT_TIMER_S, INTERRUPT_TIMER_M

-----------------------------------------------------------------------------
(* Operators.                                                              *)

\* Masking the mode bits of a vector gives an address.
LEMMA BaseNat == ASSUME NEW v \in Nat PROVE Base(v) \in Nat
  BY DEF Base

\* Both vectors are addresses when TypeOK holds.
LEMMA VectorNat ==
  ASSUME TypeOK, NEW c PROVE ExceptionVector(c) \in Nat
  BY BaseNat DEF TypeOK, ExceptionVector

\* The last instruction of a block has an address.
LEMMA LastPcNat ==
  ASSUME TypeOK, NEW n \in BlockLens PROVE LastPc(n) \in Nat
  BY ConstantsType DEF TypeOK, LastPc

\* Landing on an address, quirk included, is an address.
LEMMA LandNat ==
  ASSUME NEW a \in Nat, NEW t \in Nat PROVE Land(a, t) \in Nat
  BY DEF Land

\* Retiring a block keeps the step counter a number and the phase known.
LEMMA RetireType ==
  ASSUME TypeOK, NEW n \in BlockLens, Retire(n)
  PROVE  skip_step' \in Nat /\ phase' \in {"exec", "poll", "crashed"}
  BY ConstantsType DEF TypeOK, Retire

-----------------------------------------------------------------------------
(* Type correctness.                                                       *)

\* The part of TypeOK that a trap or a return can disturb.
TrapStateOK ==
  /\ mode \in 0..3
  /\ mstatus \in Status
  /\ mepc \in Nat /\ mcause \in Cause /\ mtval \in Nat
  /\ sepc \in Nat /\ scause \in Cause /\ stval \in Nat
  /\ mframe \in Frame \cup {None} /\ sframe \in Frame \cup {None}

\* The part that says where the interpreter is.
FlowOK ==
  /\ pc \in Nat
  /\ skip_step \in Nat /\ phase \in {"exec", "poll", "crashed"}

\* The part that only CSR writes and the poll change.
ConfigOK ==
  /\ mie \in Enables /\ mip \in Pendings
  /\ medeleg \subseteq Exceptions /\ mideleg \subseteq Interrupts
  /\ mtvec \in Nat /\ stvec \in Nat
  /\ mtimecmp \in Nat /\ time \in 0..MaxTime

\* The three parts are the whole.
LEMMA TypeParts == TypeOK <=> TrapStateOK /\ FlowOK /\ ConfigOK
  BY DEF TypeOK, TrapStateOK, FlowOK, ConfigOK

\* The parts of the next state make the whole.
LEMMA TypePartsPrime ==
  ASSUME TrapStateOK', FlowOK', ConfigOK' PROVE TypeOK'
  BY DEF TypeOK, TrapStateOK, FlowOK, ConfigOK

\* Machine trap entry stores well-typed registers.
LEMMA GoMtrapType ==
  ASSUME TypeOK, NEW c \in Cause, NEW v \in Nat, NEW at \in Nat, go_mtrap(c, v, at)
  PROVE  TrapStateOK'
<1>1. mstatus' \in Status
  BY DEF TypeOK, go_mtrap, Status, Bit
<1>2. mframe' \in Frame
  <2>1. mstatus.MIE \in Bit
    BY DEF TypeOK, Status
  <2> QED
    BY <2>1 DEF TypeOK, go_mtrap, Frame
<1> QED
  BY <1>1, <1>2 DEF TypeOK, TrapStateOK, go_mtrap, sregs

\* Supervisor trap entry stores well-typed registers.
LEMMA GoStrapType ==
  ASSUME TypeOK, NEW c \in Cause, NEW v \in Nat, NEW at \in Nat, go_strap(c, v, at)
  PROVE  TrapStateOK'
<1>1. mstatus' \in Status
  BY DEF TypeOK, go_strap, SppOf, Status, Bit
<1>2. sframe' \in Frame
  <2>1. mstatus.SIE \in Bit
    BY DEF TypeOK, Status
  <2> QED
    BY <2>1 DEF TypeOK, go_strap, Frame
<1> QED
  BY <1>1, <1>2 DEF TypeOK, TrapStateOK, go_strap, mregs

\* Every exception goes through one of the two.
LEMMA ExceptionType ==
  ASSUME TypeOK, NEW c \in Exceptions, NEW v \in Nat, NEW at \in Nat, Exception(c, v, at)
  PROVE  TrapStateOK'
<1>1. ExcCause(c) \in Cause
  BY DEF ExcCause, Cause
<1> QED
  BY <1>1, GoMtrapType, GoStrapType DEF Exception

\* The poll too, with a vector as the next pc.
LEMMA InterruptType ==
  ASSUME TypeOK, NEW i \in Interrupts, Interrupt(i)
  PROVE  TrapStateOK' /\ pc' \in Nat
<1>1. IrqCause(i) \in Cause
  BY DEF IrqCause, Cause
<1>2. pc \in Nat /\ 0 \in Nat
  BY DEF TypeOK
<1>3. TrapStateOK'
  BY <1>1, <1>2, GoMtrapType, GoStrapType DEF Interrupt
<1>4. pc' \in Nat
  BY BaseNat DEF Interrupt, TypeOK
<1> QED
  BY <1>3, <1>4

\* Init is well typed.
LEMMA InitType == Init => TypeOK
<1> SUFFICES ASSUME Init PROVE TypeOK
  OBVIOUS
<1>1. mstatus \in Status
  BY DEF Init, Status, Bit
<1>2. mie \in Enables /\ mip \in Pendings
  BY DEF Init, Enables, Pendings, Bit
<1>3. mcause \in Cause /\ scause \in Cause
  BY DEF Init, ExcCause, Cause
<1> QED
  BY <1>1, <1>2, <1>3, ConstantsType DEF Init, TypeOK

\* A block keeps the types, one case per instruction that can end it.
LEMMA BlockType ==
  ASSUME TypeOK, NEW n \in BlockLens, Block(n)
  PROVE  TypeOK'
<1> USE DEF config, clock, mregs, sregs
<1>n. n \in Nat \ {0}
  BY ConstantsType
<1>p. TrapStateOK /\ FlowOK /\ ConfigOK
  BY TypeParts
<1>l. LastPc(n) \in Nat /\ LastPc(n) + 4 \in Nat
  BY LastPcNat
<1>1. ASSUME NEW t \in JumpTargets, Jump(n, t) PROVE TypeOK'
  <2>1. pc' \in Nat
    BY <1>1, <1>l, LandNat, ConstantsType DEF Jump, GoTo
  <2>2. FlowOK'
    BY <1>1, <2>1, RetireType DEF Jump, FlowOK
  <2> QED
    BY <1>1, <2>2, <1>p, TypePartsPrime DEF Jump, TrapStateOK, ConfigOK
<1>2. CASE FallThrough(n)
  <2>1. FlowOK'
    BY <1>2, <1>l, RetireType DEF FallThrough, StepOver, FlowOK
  <2> QED
    BY <1>2, <2>1, <1>p, TypePartsPrime DEF FallThrough, TrapStateOK, ConfigOK
<1>3. CASE Ecall(n)
  <2>1. EcallCause(mode) \in Exceptions
    BY <1>3 DEF Ecall, EcallCause, Exceptions
  <2>2. TrapStateOK'
    BY <1>3, <1>l, <2>1, ExceptionType DEF Ecall
  <2>3. pc' \in Nat
    BY <1>3, <1>l, VectorNat, LandNat DEF Ecall, GoTo
  <2>4. FlowOK'
    BY <1>3, <2>3, RetireType DEF Ecall, FlowOK
  <2> QED
    BY <1>3, <2>2, <2>4, <1>p, TypePartsPrime DEF Ecall, ConfigOK
<1>4. CASE EcallCrash(n)
  <2>1. FlowOK'
    BY <1>4, <1>l, <1>p DEF EcallCrash, FlowOK
  <2> QED
    BY <1>4, <2>1, <1>p, TypePartsPrime DEF EcallCrash, TrapStateOK, ConfigOK
<1>5. CASE Mret(n)
  <2>1. pc' \in Nat
    BY <1>5, <1>l, LandNat DEF Mret, GoTo, TypeOK
  <2>2. FlowOK'
    BY <1>5, <2>1, RetireType DEF Mret, FlowOK
  <2>3. mstatus \in Status
    BY DEF TypeOK
  <2>4. mstatus.MPP \in 0..3 /\ mstatus.MPIE \in Bit
    BY <2>3 DEF Status, Bit
  <2>5. mstatus' \in Status
    <3>1. 0 \in 0..3 /\ 1 \in Bit
      BY DEF Bit
    <3>2. [mstatus EXCEPT !.MIE = mstatus.MPIE, !.MPIE = 1, !.MPP = 0] \in Status
      BY <2>3, <2>4, <3>1, Zenon DEF Status
    <3> QED
      BY <1>5, <3>2 DEF Mret
  <2>6. mode' \in 0..3
    BY <1>5, <2>4 DEF Mret
  <2> QED
    BY <1>5, <2>2, <2>5, <2>6, <1>p, TypePartsPrime DEF Mret, TrapStateOK, ConfigOK
<1>6. CASE Sret(n)
  <2>1. pc' \in Nat
    BY <1>6, <1>l, LandNat DEF Sret, GoTo, TypeOK
  <2>2. FlowOK'
    BY <1>6, <2>1, RetireType DEF Sret, FlowOK
  <2>3. mstatus \in Status
    BY DEF TypeOK
  <2>4. mstatus.SPP \in 0..3 /\ mstatus.SPIE \in Bit
    BY <2>3 DEF Status, Bit
  <2>5. mstatus' \in Status
    BY <1>6, <2>3, <2>4 DEF Sret, Status, Bit
  <2>6. mode' \in 0..3
    BY <1>6, <2>4 DEF Sret
  <2> QED
    BY <1>6, <2>2, <2>5, <2>6, <1>p, TypePartsPrime DEF Sret, TrapStateOK, ConfigOK
<1>7. CASE CsrIllegal(n)
  <2>1. EXCEPTION_ILLEGAL_INSTRUCTION \in Exceptions
    BY DEF Exceptions
  <2>2. TrapStateOK'
    BY <1>7, <1>l, <2>1, ExceptionType DEF CsrIllegal
  <2>3. FlowOK'
    BY <1>7, <1>p, VectorNat DEF CsrIllegal, Abandon, FlowOK
  <2> QED
    BY <1>7, <2>2, <2>3, <1>p, TypePartsPrime DEF CsrIllegal, ConfigOK
<1>8. ASSUME NEW c \in FaultCauses,
             NEW addr \in FaultAddrs \cup {pc}, PageFault(n - 1, c, addr)
      PROVE  TypeOK'
  <2>1. c \in Exceptions /\ addr \in Nat
    BY ConstantsType DEF PageFaults, Exceptions, TypeOK
  <2>2. n - 1 + 1 = n
    BY <1>n
  <2>3. TrapStateOK'
    BY <1>8, <1>l, <2>1, <2>2, ExceptionType DEF PageFault
  <2>4. FlowOK'
    BY <1>8, <1>p, VectorNat DEF PageFault, Abandon, FlowOK
  <2> QED
    BY <1>8, <2>3, <2>4, <1>p, TypePartsPrime DEF PageFault, ConfigOK
<1>9. CASE WriteStatus(n)
  <2>1. FlowOK'
    BY <1>9, <1>l, RetireType DEF WriteStatus, CsrStep, StepOver, FlowOK
  <2>2. mstatus' \in Status
    BY <1>9, ConstantsType DEF WriteStatus
  <2> QED
    BY <1>9, <2>1, <2>2, <1>p, TypePartsPrime
    DEF WriteStatus, CsrStep, TrapStateOK, ConfigOK
<1>10. CASE WriteConfig(n)
  <2>1. FlowOK'
    BY <1>10, <1>l, RetireType DEF WriteConfig, CsrStep, StepOver, FlowOK
  <2>2. TrapStateOK'
    BY <1>10, <1>p DEF WriteConfig, CsrStep, TrapStateOK
  <2>3. ConfigOK'
    BY <1>10, <1>p, ConstantsType DEF WriteConfig, ConfigOK
  <2> QED
    BY <2>1, <2>2, <2>3, TypePartsPrime
<1>11. CASE WriteMTrapRegs(n)
  <2>1. FlowOK'
    BY <1>11, <1>l, RetireType DEF WriteMTrapRegs, CsrStep, StepOver, FlowOK
  <2>2. TrapStateOK'
    BY <1>11, <1>p, ConstantsType DEF WriteMTrapRegs, CsrStep, TrapStateOK
  <2> QED
    BY <1>11, <2>1, <2>2, <1>p, TypePartsPrime DEF WriteMTrapRegs, ConfigOK
<1>12. CASE WriteSTrapRegs(n)
  <2>1. FlowOK'
    BY <1>12, <1>l, RetireType DEF WriteSTrapRegs, CsrStep, StepOver, FlowOK
  <2>2. TrapStateOK'
    BY <1>12, <1>p, ConstantsType DEF WriteSTrapRegs, CsrStep, TrapStateOK
  <2> QED
    BY <1>12, <2>1, <2>2, <1>p, TypePartsPrime DEF WriteSTrapRegs, ConfigOK
<1> QED
  BY <1>1, <1>2, <1>3, <1>4, <1>5, <1>6, <1>7, <1>8, <1>9, <1>10, <1>11, <1>12
  DEF Block

\* The poll keeps the types.
LEMMA PollType == ASSUME TypeOK, Poll PROVE TypeOK'
<1>p. TrapStateOK /\ FlowOK /\ ConfigOK
  BY TypeParts
<1>1. PICK t \in Later(time) : PollAt(t)
  BY DEF Poll
<1>2. TrapStateOK' /\ pc' \in Nat
  <2>1. INTERRUPT_TIMER_M \in Interrupts /\ INTERRUPT_TIMER_S \in Interrupts
    BY DEF Interrupts
  <2>2. CASE Interrupt(INTERRUPT_TIMER_M)
    BY <2>1, <2>2, InterruptType
  <2>3. CASE Interrupt(INTERRUPT_TIMER_S)
    BY <2>1, <2>3, InterruptType
  <2>4. CASE UNCHANGED <<mode, pc, mstatus, mregs, sregs, mframe, sframe>>
    BY <2>4, <1>p DEF TrapStateOK, FlowOK, mregs, sregs
  <2> QED
    BY <1>1, <2>2, <2>3, <2>4 DEF PollAt
<1>3. mip' \in Pendings
  <2>1. MtimePending(t) \in Bit
    BY DEF MtimePending, Bit
  <2> QED
    BY <1>1, <1>p, <2>1 DEF PollAt, ConfigOK, Pendings
<1>4. time' \in 0..MaxTime
  BY <1>1 DEF PollAt, Later
<1>5. ConfigOK'
  BY <1>p, <1>3, <1>4 DEF Poll, config, ConfigOK
<1>6. FlowOK'
  BY <1>2 DEF Poll, FlowOK
<1> QED
  BY <1>2, <1>5, <1>6, TypePartsPrime

\* TypeOK is inductive.
LEMMA NextType == ASSUME TypeOK, [Next]_vars PROVE TypeOK'
<1>1. CASE Poll
  BY <1>1, PollType
<1>2. ASSUME NEW n \in BlockLens, Block(n) PROVE TypeOK'
  BY <1>2, BlockType
<1>3. CASE UNCHANGED vars
  BY <1>3 DEF TypeOK, vars, config, clock, mregs, sregs
<1> QED
  BY <1>1, <1>2, <1>3 DEF Next

\* The trap registers, the status word and the mode always hold values the
\* code gives them (run priv_frames checks it on a small instance).
THEOREM TypeCorrect == Spec => []TypeOK
  BY InitType, NextType, PTL DEF Spec

-----------------------------------------------------------------------------
(* The saved contexts. FramesOK is inductive by itself, over TypeOK: the   *)
(* masks are in it only because TimerSparesHandlers needs them.            *)

FramesOK == MachineFrameIntact /\ SupervisorFrameIntact /\ HandlersMasked

MFields == <<mepc, mcause, mtval, mframe, mstatus.MPP, mstatus.MPIE, mstatus.MIE>>
SFields == <<sepc, scause, stval, sframe, mstatus.SPP, mstatus.SPIE, mstatus.SIE>>

MFrameOK ==
  mframe # None =>
    /\ mepc = mframe.epc /\ mcause = mframe.cause /\ mtval = mframe.tval
    /\ mstatus.MPP = mframe.mode /\ mstatus.MPIE = mframe.ie /\ mstatus.MIE = 0

SFrameOK ==
  sframe # None =>
    /\ sepc = sframe.epc /\ scause = sframe.cause /\ stval = sframe.tval
    /\ mstatus.SPP = SppOf(sframe.mode) /\ mstatus.SPIE = sframe.ie /\ mstatus.SIE = 0

\* The invariant splits by level.
LEMMA FrameParts == FramesOK <=> MFrameOK /\ SFrameOK
  BY DEF FramesOK, MachineFrameIntact, SupervisorFrameIntact, HandlersMasked,
         MFrameOK, SFrameOK

\* The same, primed.
LEMMA FramePartsPrime == ASSUME MFrameOK', SFrameOK' PROVE FramesOK'
  BY DEF FramesOK, MachineFrameIntact, SupervisorFrameIntact, HandlersMasked,
         MFrameOK, SFrameOK

\* A step that leaves a level's fields alone keeps its part.
LEMMA FieldsKept ==
  /\ MFrameOK /\ UNCHANGED MFields => MFrameOK'
  /\ SFrameOK /\ UNCHANGED SFields => SFrameOK'
  BY DEF MFields, SFields, MFrameOK, SFrameOK

\* A trap to M builds the machine part and leaves the other.
LEMMA GoMtrapFrames ==
  ASSUME TypeOK, FramesOK, NEW c, NEW v, NEW at, go_mtrap(c, v, at)
  PROVE  FramesOK'
<1>1. mstatus \in Status
  BY DEF TypeOK
<1>2. MFrameOK'
  BY <1>1 DEF go_mtrap, MFrameOK, Status
<1>3. UNCHANGED SFields
  BY <1>1 DEF go_mtrap, SFields, sregs, Status
<1> QED
  BY <1>2, <1>3, FieldsKept, FrameParts, FramePartsPrime

\* A trap to S builds the supervisor part and leaves the other.
LEMMA GoStrapFrames ==
  ASSUME TypeOK, FramesOK, NEW c, NEW v, NEW at, go_strap(c, v, at)
  PROVE  FramesOK'
<1>1. mstatus \in Status
  BY DEF TypeOK
<1>2. SFrameOK'
  BY <1>1 DEF go_strap, SFrameOK, Status
<1>3. UNCHANGED MFields
  BY <1>1 DEF go_strap, MFields, mregs, Status
<1> QED
  BY <1>2, <1>3, FieldsKept, FrameParts, FramePartsPrime

\* A return gives up its own level's part and leaves the other.
LEMMA ReturnFrames ==
  ASSUME TypeOK, FramesOK, NEW n, Mret(n) \/ Sret(n) PROVE FramesOK'
<1>1. mstatus \in Status
  BY DEF TypeOK
<1>2. CASE Mret(n)
  <2>1. MFrameOK'
    BY <1>2 DEF Mret, MFrameOK
  <2>2. UNCHANGED SFields
    BY <1>1, <1>2 DEF Mret, SFields, sregs, Status
  <2> QED
    BY <2>1, <2>2, FieldsKept, FrameParts, FramePartsPrime
<1>3. CASE Sret(n)
  <2>1. SFrameOK'
    BY <1>3 DEF Sret, SFrameOK
  <2>2. UNCHANGED MFields
    BY <1>1, <1>3 DEF Sret, MFields, mregs, Status
  <2> QED
    BY <2>1, <2>2, FieldsKept, FrameParts, FramePartsPrime
<1> QED
  BY <1>2, <1>3

\* A step that leaves status, trap registers and frames alone keeps both.
LEMMA QuietFrames ==
  ASSUME FramesOK, UNCHANGED <<mstatus, mregs, sregs, mframe, sframe>>
  PROVE  FramesOK'
  BY FieldsKept, FrameParts, FramePartsPrime DEF MFields, SFields, mregs, sregs

\* A guest write gives up the part it may break and leaves the other.
LEMMA WriteFrames ==
  ASSUME FramesOK, NEW n,
         WriteStatus(n) \/ WriteMTrapRegs(n) \/ WriteSTrapRegs(n)
  PROVE  FramesOK'
<1>1. CASE WriteStatus(n)
  BY <1>1, FramePartsPrime DEF WriteStatus, MFrameOK, SFrameOK
<1>2. CASE WriteMTrapRegs(n)
  <2>1. MFrameOK' /\ UNCHANGED SFields
    BY <1>2 DEF WriteMTrapRegs, MFrameOK, SFields, sregs
  <2> QED
    BY <2>1, FieldsKept, FrameParts, FramePartsPrime
<1>3. CASE WriteSTrapRegs(n)
  <2>1. SFrameOK' /\ UNCHANGED MFields
    BY <1>3 DEF WriteSTrapRegs, SFrameOK, MFields, mregs
  <2> QED
    BY <2>1, FieldsKept, FrameParts, FramePartsPrime
<1> QED
  BY <1>1, <1>2, <1>3

\* No block breaks a frame.
LEMMA BlockFrames ==
  ASSUME TypeOK, FramesOK, NEW n \in BlockLens, Block(n) PROVE FramesOK'
<1>1. ASSUME NEW t \in JumpTargets, Jump(n, t) PROVE FramesOK'
  BY <1>1, QuietFrames DEF Jump
<1>2. CASE FallThrough(n)
  BY <1>2, QuietFrames DEF FallThrough
<1>3. CASE Ecall(n)
  BY <1>3, GoMtrapFrames, GoStrapFrames DEF Ecall, Exception
<1>4. CASE EcallCrash(n)
  BY <1>4, QuietFrames DEF EcallCrash
<1>5. CASE Mret(n) \/ Sret(n)
  BY <1>5, ReturnFrames
<1>6. CASE CsrIllegal(n)
  BY <1>6, GoMtrapFrames, GoStrapFrames DEF CsrIllegal, Exception
<1>7. ASSUME NEW c, NEW addr, PageFault(n - 1, c, addr) PROVE FramesOK'
  BY <1>7, GoMtrapFrames, GoStrapFrames DEF PageFault, Exception
<1>8. CASE WriteStatus(n) \/ WriteMTrapRegs(n) \/ WriteSTrapRegs(n)
  BY <1>8, WriteFrames
<1>9. CASE WriteConfig(n)
  BY <1>9, QuietFrames DEF WriteConfig
<1> QED
  BY <1>1, <1>2, <1>3, <1>4, <1>5, <1>6, <1>7, <1>8, <1>9 DEF Block

\* Nor does a poll.
LEMMA PollFrames == ASSUME TypeOK, FramesOK, Poll PROVE FramesOK'
<1>1. PICK t \in Later(time) : PollAt(t)
  BY DEF Poll
<1>2. CASE Interrupt(INTERRUPT_TIMER_M) \/ Interrupt(INTERRUPT_TIMER_S)
  BY <1>2, GoMtrapFrames, GoStrapFrames DEF Interrupt
<1>3. CASE UNCHANGED <<mode, pc, mstatus, mregs, sregs, mframe, sframe>>
  BY <1>3, QuietFrames
<1> QED
  BY <1>1, <1>2, <1>3 DEF PollAt

\* FramesOK is inductive over TypeOK.
LEMMA NextFrames == ASSUME TypeOK, FramesOK, [Next]_vars PROVE FramesOK'
<1>1. CASE Poll
  BY <1>1, PollFrames
<1>2. ASSUME NEW n \in BlockLens, Block(n) PROVE FramesOK'
  BY <1>2, BlockFrames
<1>3. CASE UNCHANGED vars
  BY <1>3, QuietFrames DEF vars
<1> QED
  BY <1>1, <1>2, <1>3 DEF Next

\* Saved contexts survive whatever the other level does, and a handler owing
\* a return is masked, for every guest, every delegation and every block.
THEOREM FramesHold == Spec => []FramesOK
<1>1. Init => FramesOK
  BY DEF Init, FramesOK, MachineFrameIntact, SupervisorFrameIntact, HandlersMasked
<1> QED
  BY <1>1, NextFrames, TypeCorrect, PTL DEF Spec

\* The machine context is never disturbed.
THEOREM MachineFrame == Spec => []MachineFrameIntact
<1>1. FramesOK => MachineFrameIntact
  BY DEF FramesOK
<1> QED
  BY <1>1, FramesHold, PTL

\* Nor is the supervisor context.
THEOREM SupervisorFrame == Spec => []SupervisorFrameIntact
<1>1. FramesOK => SupervisorFrameIntact
  BY DEF FramesOK
<1> QED
  BY <1>1, FramesHold, PTL

\* Handlers are masked until they return.
THEOREM Masked == Spec => []HandlersMasked
<1>1. FramesOK => HandlersMasked
  BY DEF FramesOK
<1> QED
  BY <1>1, FramesHold, PTL

-----------------------------------------------------------------------------
(* Steps.                                                                  *)

\* A poll that takes a machine interrupt from M mode finds MIE set, so by
\* HandlersMasked no M handler is open; and so for S.
THEOREM TimerSpares == Spec => TimerSparesHandlers
<1>1. ASSUME FramesOK, Poll
      PROVE  /\ mode = MODE_M /\ mframe # None => mframe' = mframe
             /\ mode \in {MODE_S, MODE_M} /\ sframe # None => sframe' = sframe
  <2>1. PICK t \in Later(time) : PollAt(t)
    BY <1>1 DEF Poll
  <2>2. HandlersMasked
    BY <1>1 DEF FramesOK
  <2>3. CASE Interrupt(INTERRUPT_TIMER_M)
    BY <2>2, <2>3 DEF Interrupt, InterruptToM, InterruptToS, HandlersMasked, go_mtrap, go_strap
  <2>4. CASE Interrupt(INTERRUPT_TIMER_S)
    BY <2>2, <2>4 DEF Interrupt, InterruptToM, InterruptToS, HandlersMasked, go_mtrap, go_strap
  <2>5. CASE UNCHANGED <<mode, pc, mstatus, mregs, sregs, mframe, sframe>>
    BY <2>5
  <2> QED
    BY <2>1, <2>3, <2>4, <2>5 DEF PollAt
<1> QED
  BY <1>1, FramesHold, PTL DEF Spec, TimerSparesHandlers

\* The machine timer trap is taken from the pending bit computed in the same
\* poll; a supervisor timer leaves another cause.
THEOREM TimerDue == Spec => TimerTrapIsDue
<1>1. ASSUME Poll, <<mode, mstatus>>' # <<mode, mstatus>>, CauseTaken = IrqCause(INTERRUPT_TIMER_M)
      PROVE  time' >= mtimecmp
  <2>1. PICK t \in Later(time) : PollAt(t)
    BY <1>1 DEF Poll
  <2>2. ~UNCHANGED <<mode, mstatus>>
    BY <1>1
  <2>3. IrqCause(INTERRUPT_TIMER_S) # IrqCause(INTERRUPT_TIMER_M)
    BY DEF IrqCause
  <2>4. ASSUME Interrupt(INTERRUPT_TIMER_S) PROVE CauseTaken = IrqCause(INTERRUPT_TIMER_S)
    BY <2>4 DEF Interrupt, go_mtrap, go_strap, CauseTaken
  <2>5. TakesMTimer(t)
    BY <1>1, <2>1, <2>2, <2>3, <2>4 DEF PollAt
  <2>6. t >= mtimecmp
    BY <2>5 DEF TakesMTimer, MtimePending
  <2> QED
    BY <2>1, <2>6 DEF PollAt
<1>2. [Next]_vars
        => [Poll /\ <<mode, mstatus>>' # <<mode, mstatus>> /\ CauseTaken = IrqCause(INTERRUPT_TIMER_M)
              => time' >= mtimecmp]_vars
  BY <1>1
<1> QED
  BY <1>2, PTL DEF Spec, TimerTrapIsDue

\* MRET restores what the frame holds, because the frame still describes the
\* registers MRET reads.
THEOREM MretRestores == Spec => MretRestoresContext
<1>1. ASSUME TypeOK, FramesOK, NEW n \in BlockLens, Mret(n), mframe # None
      PROVE  /\ mode' = mframe.mode /\ mstatus'.MIE = mframe.ie
             /\ mframe.epc # LastPc(n) => pc' = mframe.epc
  <2>1. mstatus \in Status /\ MachineFrameIntact
    BY <1>1 DEF TypeOK, FramesOK
  <2>2. mode' = mframe.mode
    BY <1>1, <2>1 DEF Mret, MachineFrameIntact
  <2>3. mstatus'.MIE = mframe.ie
    BY <1>1, <2>1 DEF Mret, MachineFrameIntact, Status
  <2>4. mframe.epc # LastPc(n) => pc' = mframe.epc
    BY <1>1, <2>1 DEF Mret, MachineFrameIntact, GoTo, Land
  <2> QED
    BY <2>2, <2>3, <2>4
<1> DEFINE Restores ==
      \A n \in BlockLens : Mret(n) /\ mframe # None =>
        /\ mode' = mframe.mode /\ mstatus'.MIE = mframe.ie
        /\ mframe.epc # LastPc(n) => pc' = mframe.epc
<1>2. TypeOK /\ FramesOK /\ [Next]_vars => [Restores]_vars
  BY <1>1
<1> QED
  BY <1>2, TypeCorrect, FramesHold, PTL DEF Spec, MretRestoresContext

-----------------------------------------------------------------------------
(* Modes. CSR.__setitem__ stores any word, so a guest can put the reserved *)
(* value 2 in MPP and return to it. When it does not, the mode is always U, *)
(* S or M and no ECALL ends the emulator.                                  *)

LegalGuest == \A s \in StatusValues : s.MPP \in Modes

ModesOK == mode \in Modes /\ mstatus.MPP \in Modes

\* ModesOK is inductive for a legal guest.
LEMMA NextModes ==
  ASSUME LegalGuest, TypeOK, ModesOK, [Next]_vars PROVE ModesOK'
<1>s. mstatus \in Status
  BY DEF TypeOK
<1>q. ASSUME UNCHANGED <<mode, mstatus>> PROVE ModesOK'
  BY <1>q DEF ModesOK
<1>m. ASSUME NEW c, NEW v, NEW at, go_mtrap(c, v, at) PROVE ModesOK'
  BY <1>m, <1>s DEF ModesOK, go_mtrap, Status
<1>t. ASSUME NEW c, NEW v, NEW at, go_strap(c, v, at) PROVE ModesOK'
  BY <1>t, <1>s DEF ModesOK, go_strap, Status
<1>1. CASE Poll
  <2>1. PICK t \in Later(time) : PollAt(t)
    BY <1>1 DEF Poll
  <2>2. CASE Interrupt(INTERRUPT_TIMER_M) \/ Interrupt(INTERRUPT_TIMER_S)
    BY <2>2, <1>m, <1>t DEF Interrupt
  <2>3. CASE UNCHANGED <<mode, pc, mstatus, mregs, sregs, mframe, sframe>>
    BY <2>3, <1>q
  <2> QED
    BY <2>1, <2>2, <2>3 DEF PollAt
<1>2. ASSUME NEW n \in BlockLens, Block(n) PROVE ModesOK'
  <2>1. ASSUME NEW t \in JumpTargets, Jump(n, t) PROVE ModesOK'
    BY <2>1, <1>q DEF Jump
  <2>2. CASE FallThrough(n) \/ EcallCrash(n)
    BY <2>2, <1>q DEF FallThrough, EcallCrash
  <2>3. CASE Ecall(n) \/ CsrIllegal(n)
    BY <2>3, <1>m, <1>t DEF Ecall, CsrIllegal, Exception
  <2>4. ASSUME NEW c, NEW addr, PageFault(n - 1, c, addr) PROVE ModesOK'
    BY <2>4, <1>m, <1>t DEF PageFault, Exception
  <2>5. CASE Mret(n)
    BY <2>5, <1>s DEF Mret, ModesOK, Status
  <2>6. CASE Sret(n)
    <3>1. mstatus.SPP \in {0, 1}
      BY <1>s DEF Status, Bit
    <3>2. mstatus'.MPP = mstatus.MPP
      BY <2>6, <1>s DEF Sret, Status
    <3> QED
      BY <2>6, <3>1, <3>2 DEF Sret, ModesOK
  <2>7. CASE WriteStatus(n)
    BY <2>7 DEF WriteStatus, CsrStep, LegalGuest, ModesOK
  <2>8. CASE WriteConfig(n) \/ WriteMTrapRegs(n) \/ WriteSTrapRegs(n)
    BY <2>8, <1>q DEF WriteConfig, WriteMTrapRegs, WriteSTrapRegs, CsrStep
  <2> QED
    BY <1>2, <2>1, <2>2, <2>3, <2>4, <2>5, <2>6, <2>7, <2>8 DEF Block
<1>3. CASE UNCHANGED vars
  BY <1>3, <1>q DEF vars
<1> QED
  BY <1>1, <1>2, <1>3 DEF Next

\* For a legal guest the mode is one of the three.
THEOREM KnownModes == ASSUME LegalGuest PROVE Spec => []ModesOK
<1>1. Init => ModesOK
  BY DEF Init, ModesOK
<1>2. TypeOK /\ ModesOK /\ [Next]_vars => ModesOK'
  BY NextModes
<1> QED
  BY <1>1, <1>2, TypeCorrect, PTL DEF Spec

\* Such a guest never ends the emulator with an ECALL: the property KnownMode.
THEOREM NeverCrashes == ASSUME LegalGuest PROVE Spec => []KnownMode
<1>1. Init => KnownMode
  BY DEF Init, KnownMode
<1>2. ASSUME ModesOK, KnownMode, [Next]_vars PROVE KnownMode'
  <2>r. ASSUME NEW n \in BlockLens, Retire(n) PROVE KnownMode'
    BY <2>r DEF Retire, KnownMode
  <2>a. ASSUME Abandon PROVE KnownMode'
    BY <1>2, <2>a DEF Abandon, KnownMode
  <2>1. CASE Poll
    BY <2>1 DEF Poll, KnownMode
  <2>2. ASSUME NEW n \in BlockLens, Block(n) PROVE KnownMode'
    <3>1. ASSUME NEW t \in JumpTargets, Jump(n, t) PROVE KnownMode'
      BY <3>1, <2>r DEF Jump
    <3>2. CASE FallThrough(n) \/ Ecall(n) \/ Mret(n) \/ Sret(n)
      BY <3>2, <2>r DEF FallThrough, Ecall, Mret, Sret
    <3>3. CASE EcallCrash(n)
      BY <1>2, <3>3 DEF EcallCrash, ModesOK
    <3>4. CASE CsrIllegal(n)
      BY <3>4, <2>a DEF CsrIllegal
    <3>5. ASSUME NEW c, NEW addr, PageFault(n - 1, c, addr) PROVE KnownMode'
      BY <3>5, <2>a DEF PageFault
    <3>6. CASE WriteStatus(n) \/ WriteConfig(n) \/ WriteMTrapRegs(n) \/ WriteSTrapRegs(n)
      BY <3>6, <2>r DEF WriteStatus, WriteConfig, WriteMTrapRegs, WriteSTrapRegs, CsrStep
    <3> QED
      BY <2>2, <3>1, <3>2, <3>3, <3>4, <3>5, <3>6 DEF Block
  <2>3. CASE UNCHANGED vars
    BY <1>2, <2>3 DEF vars, KnownMode
  <2> QED
    BY <1>2, <2>1, <2>2, <2>3 DEF Next
<1>3. ModesOK /\ KnownMode /\ [Next]_vars => KnownMode'
  BY <1>2
<1> QED
  BY <1>1, <1>3, KnownModes, PTL DEF Spec

\* A trap never lowers the mode, whatever medeleg and mideleg hold.
LEMMA TrapsRaise ==
  ASSUME mode \in Modes, mode' < mode,
         NEW c, NEW v, NEW at, NEW i,
         Exception(c, v, at) \/ Interrupt(i)
  PROVE  FALSE
<1>1. ASSUME go_mtrap(ExcCause(c), v, at) PROVE FALSE
  BY <1>1 DEF go_mtrap
<1>2. ASSUME mode < MODE_M, mode' = MODE_S PROVE FALSE
  BY <1>2
<1>3. CASE Exception(c, v, at)
  BY <1>1, <1>2, <1>3 DEF Exception, ExceptionToS, go_strap
<1>4. CASE Interrupt(i)
  <2>1. mode' = MODE_M \/ (mode' = MODE_S /\ mode \in {MODE_U, MODE_S})
    BY <1>4 DEF Interrupt, InterruptToS, go_mtrap, go_strap
  <2> QED
    BY <2>1
<1> QED
  BY <1>3, <1>4

\* Only the two return instructions lower the mode, for every guest: the
\* property OnlyReturnsLowerMode. (Mode 2, which a guest can put itself in, is
\* left by traps to S too.)
THEOREM ReturnsLower == Spec => OnlyReturnsLowerMode
<1>1. ASSUME [Next]_vars, mode \in Modes, mode' < mode
      PROVE  \E n \in BlockLens : Mret(n) \/ Sret(n)
  <2>k. mode' # mode
    BY <1>1
  <2>t. ASSUME NEW c, NEW v, NEW at, NEW i, Exception(c, v, at) \/ Interrupt(i) PROVE FALSE
    BY <1>1, <2>t, TrapsRaise
  <2>1. CASE Poll
    <3>1. PICK t \in Later(time) : PollAt(t)
      BY <2>1 DEF Poll
    <3> QED
      BY <3>1, <2>k, <2>t DEF PollAt
  <2>2. ASSUME NEW n \in BlockLens, Block(n) PROVE Mret(n) \/ Sret(n)
    <3>1. ~Ecall(n) /\ ~CsrIllegal(n)
      BY <2>t DEF Ecall, CsrIllegal
    <3>2. ASSUME NEW c, NEW addr, PageFault(n - 1, c, addr) PROVE FALSE
      BY <3>2, <2>t DEF PageFault
    <3>3. ~FallThrough(n) /\ ~EcallCrash(n) /\ \A t \in JumpTargets : ~Jump(n, t)
      BY <2>k DEF FallThrough, EcallCrash, Jump
    <3>4. ~WriteStatus(n) /\ ~WriteConfig(n) /\ ~WriteMTrapRegs(n) /\ ~WriteSTrapRegs(n)
      BY <2>k DEF WriteStatus, WriteConfig, WriteMTrapRegs, WriteSTrapRegs, CsrStep
    <3> QED
      BY <2>2, <3>1, <3>2, <3>3, <3>4 DEF Block
  <2>3. ~UNCHANGED vars
    BY <2>k DEF vars
  <2> QED
    BY <1>1, <2>1, <2>2, <2>3 DEF Next
<1>2. [Next]_vars
        => [mode' < mode /\ mode \in Modes => \E n \in BlockLens : Mret(n) \/ Sret(n)]_vars
  BY <1>1
<1> QED
  BY <1>2, PTL DEF Spec, OnlyReturnsLowerMode

=============================================================================
