----------------------------- MODULE Privilege -----------------------------
(***************************************************************************)
(* The privilege state of the emulated hart: trap entry (CPU._go_trap and  *)
(* the two functions under it), trap return (MRET, SRET), ECALL, the CSR   *)
(* instructions that write the registers those use, and the timer poll at  *)
(* the end of CPU.run.                                                     *)
(*                                                                         *)
(* The interpreter runs a decoded block of n instructions without looking  *)
(* at anything else: only the last one can jump, trap on purpose or write  *)
(* a CSR (inst.MayJumpInst), and interrupts are polled between blocks. So  *)
(* one action stands for one block, named for its last instruction, and    *)
(* the n - 1 before it only move pc. The guest program is arbitrary: any   *)
(* instruction, in any mode, because the code checks no privilege.         *)
(***************************************************************************)
EXTENDS Integers

CONSTANTS
  ResetPc,          \* pc the emulator starts at
  MaxPc,            \* bound on pc (the code never wraps it)
  BlockLens,        \* lengths of decoded blocks
  JumpTargets,      \* where branches and jumps go
  FaultAddrs,       \* addresses the MMU may refuse
  FaultCauses,      \* the page faults it may raise
  StatusValues,     \* values the guest writes to mstatus or sstatus
  TvecValues, EpcValues, MedelegValues, MidelegValues,
  IeValues, IpValues, CauseValues, MtimecmpValues,
  PollThreshold,    \* instructions between two polls, 2048 in the code
  MaxTime,          \* bound on the clock
  None

MODE_U == 0
MODE_S == 1
MODE_M == 3

INTERRUPT_TIMER_S == 5      \* low bits of 0x80000005
INTERRUPT_TIMER_M == 7      \* low bits of 0x80000007

EXCEPTION_ILLEGAL_INSTRUCTION == 2
EXCEPTION_INST_PAGE_FAULT == 12
EXCEPTION_LOAD_PAGE_FAULT == 13
EXCEPTION_STORE_AMO_PAGE_FAULT == 15

Modes == {MODE_U, MODE_S, MODE_M}
Bit == {0, 1}
Interrupts == {INTERRUPT_TIMER_S, INTERRUPT_TIMER_M}
Exceptions ==
  {EXCEPTION_ILLEGAL_INSTRUCTION, 8, 9, 11, EXCEPTION_INST_PAGE_FAULT,
   EXCEPTION_LOAD_PAGE_FAULT, EXCEPTION_STORE_AMO_PAGE_FAULT}

PageFaults ==
  {EXCEPTION_INST_PAGE_FAULT, EXCEPTION_LOAD_PAGE_FAULT, EXCEPTION_STORE_AMO_PAGE_FAULT}

\* A cause register: bit 31 apart from the number; ExcCause(0) is its reset value.
Cause == [irq : BOOLEAN, code : {0} \cup Interrupts \cup Exceptions]
IrqCause(c) == [irq |-> TRUE, code |-> c]
ExcCause(c) == [irq |-> FALSE, code |-> c]

Status == [SIE : Bit, MIE : Bit, SPIE : Bit, MPIE : Bit, SPP : Bit, MPP : 0..3]
Enables == [STIE : Bit, MTIE : Bit]
Pendings == [STIP : Bit, MTIP : Bit]

ASSUME ConstantsType ==
  /\ ResetPc \in Nat /\ MaxPc \in Nat /\ PollThreshold \in Nat /\ MaxTime \in Nat
  /\ BlockLens \subseteq Nat \ {0}
  /\ JumpTargets \subseteq Nat /\ FaultAddrs \subseteq Nat /\ FaultCauses \subseteq PageFaults
  /\ TvecValues \subseteq Nat /\ EpcValues \subseteq Nat
  /\ StatusValues \subseteq Status
  /\ MedelegValues \subseteq SUBSET Exceptions
  /\ MidelegValues \subseteq SUBSET Interrupts
  /\ IeValues \subseteq Enables /\ IpValues \subseteq Pendings
  /\ CauseValues \subseteq Cause
  /\ MtimecmpValues \subseteq Nat

VARIABLES
  mode, pc,
  mstatus,                  \* one container for mstatus and sstatus
  mie, mip,                 \* one container each for mie/sie and mip/sip
  medeleg, mideleg,         \* the set bits
  mtvec, stvec,
  mepc, mcause, mtval,
  sepc, scause, stval,
  mtimecmp, time,           \* CLINT word, clock at the last poll
  skip_step,
  phase,                    \* "exec", "poll", or "crashed" (RuntimeError)
  mframe, sframe            \* auxiliary: context the last M (S) trap saved

mregs == <<mepc, mcause, mtval>>
sregs == <<sepc, scause, stval>>
config == <<mie, medeleg, mideleg, mtvec, stvec, mtimecmp>>
clock == <<mip, time>>
vars == <<mode, pc, mstatus, config, clock, mregs, sregs, skip_step, phase,
          mframe, sframe>>

Frame == [epc : Nat, mode : 0..3, ie : Bit, cause : Cause, tval : Nat]

Init ==
  /\ mode = MODE_M /\ pc = ResetPc
  /\ mstatus = [SIE |-> 0, MIE |-> 0, SPIE |-> 0, MPIE |-> 0, SPP |-> 0, MPP |-> 3]
  /\ mie = [STIE |-> 0, MTIE |-> 0] /\ mip = [STIP |-> 0, MTIP |-> 0]
  /\ medeleg = {} /\ mideleg = {} /\ mtvec = 0 /\ stvec = 0
  /\ mepc = 0 /\ mcause = ExcCause(0) /\ mtval = 0
  /\ sepc = 0 /\ scause = ExcCause(0) /\ stval = 0
  /\ mtimecmp = 0 /\ time = 0 /\ skip_step = 0 /\ phase = "exec"
  /\ mframe = None /\ sframe = None

(***************************************************************************)
(* Trap entry (CPU._go_mtrap, _go_strap, _go_trap). `at' is pc when the    *)
(* trap is raised; the pc after it is Vector, applied by the caller.       *)
(***************************************************************************)

\* The single-bit setter of SPP stores the truth value of the mode.
SppOf(m) == IF m = MODE_U THEN 0 ELSE 1

\* Mutant: entry to M also masks S, as if the levels nested.
go_mtrapMasksS(cause, tval, at) ==
  /\ mcause' = cause /\ mepc' = at /\ mtval' = tval
  /\ mstatus' = [mstatus EXCEPT !.MPIE = mstatus.MIE, !.MIE = 0, !.MPP = mode,
                               !.SPIE = mstatus.SIE, !.SIE = 0]
  /\ mode' = MODE_M
  /\ mframe' = [epc |-> at, mode |-> mode, ie |-> mstatus.MIE, cause |-> cause, tval |-> tval]
  /\ UNCHANGED <<sregs, sframe>>

go_mtrap(cause, tval, at) ==
  /\ mcause' = cause /\ mepc' = at /\ mtval' = tval
  /\ mstatus' = [mstatus EXCEPT !.MPIE = mstatus.MIE, !.MIE = 0, !.MPP = mode]
  /\ mode' = MODE_M
  /\ mframe' = [epc |-> at, mode |-> mode, ie |-> mstatus.MIE, cause |-> cause, tval |-> tval]
  /\ UNCHANGED <<sregs, sframe>>

\* Mutant: entry to S leaves SIE on.
go_strapKeepsSIE(cause, tval, at) ==
  /\ scause' = cause /\ sepc' = at /\ stval' = tval
  /\ mstatus' = [mstatus EXCEPT !.SPIE = mstatus.SIE, !.SPP = SppOf(mode)]
  /\ mode' = MODE_S
  /\ sframe' = [epc |-> at, mode |-> mode, ie |-> mstatus.SIE, cause |-> cause, tval |-> tval]
  /\ UNCHANGED <<mregs, mframe>>

go_strap(cause, tval, at) ==
  /\ scause' = cause /\ sepc' = at /\ stval' = tval
  /\ mstatus' = [mstatus EXCEPT !.SPIE = mstatus.SIE, !.SIE = 0, !.SPP = SppOf(mode)]
  /\ mode' = MODE_S
  /\ sframe' = [epc |-> at, mode |-> mode, ie |-> mstatus.SIE, cause |-> cause, tval |-> tval]
  /\ UNCHANGED <<mregs, mframe>>

\* xtvec & 0xFFFFFFFC: the vectored mode bits are ignored.
Base(tvec) == tvec - (tvec % 4)

\* Mutant: delegation without regard to the mode.
ExceptionToSAnyMode(c) == c \in medeleg

ExceptionToS(c) == mode < MODE_M /\ c \in medeleg

Exception(c, tval, at) ==
  IF ExceptionToS(c) THEN go_strap(ExcCause(c), tval, at) ELSE go_mtrap(ExcCause(c), tval, at)

ExceptionVector(c) == IF ExceptionToS(c) THEN Base(stvec) ELSE Base(mtvec)

InterruptToM(i) ==
  i \notin mideleg /\ (mode < MODE_M \/ (mode = MODE_M /\ mstatus.MIE = 1))

\* Mutant: SIE is not looked at.
InterruptToSUnmasked(i) == i \in mideleg /\ mode <= MODE_S

InterruptToS(i) ==
  i \in mideleg /\ (mode < MODE_S \/ (mode = MODE_S /\ mstatus.SIE = 1))

Interrupt(i) ==
  \/ InterruptToM(i) /\ go_mtrap(IrqCause(i), 0, pc) /\ pc' = Base(mtvec)
  \/ InterruptToS(i) /\ go_strap(IrqCause(i), 0, pc) /\ pc' = Base(stvec)

(***************************************************************************)
(* Blocks. The last of n instructions is at LastPc(n).                     *)
(***************************************************************************)

LastPc(n) == pc + 4 * (n - 1)

\* The interpreter steps over an instruction that left pc where it was, also
\* when that is a jump to itself (its comment asks: IS THIS RIGHT?).
Land(at, next) == IF next = at THEN at + 4 ELSE next

GoTo(at, next) == pc' = Land(at, next) /\ pc' <= MaxPc

StepOver(at) == pc' = at + 4 /\ pc' <= MaxPc

\* Mutant: the poll is due when the count meets the threshold exactly
\* (the modulus only keeps it finite).
RetireExact(n) ==
  /\ skip_step' = (skip_step + n) % (PollThreshold + 2)
  /\ phase' = IF skip_step + n = PollThreshold THEN "poll" ELSE "exec"

\* The whole block ran: it counts towards the next poll.
Retire(n) ==
  /\ skip_step' = skip_step + n
  /\ phase' = IF skip_step + n > PollThreshold THEN "poll" ELSE "exec"

\* An exception left the block: it does not count.
Abandon == UNCHANGED <<skip_step, phase>>

Running(n) == phase = "exec" /\ LastPc(n) <= MaxPc

Jump(n, t) ==
  /\ Running(n) /\ GoTo(LastPc(n), t) /\ Retire(n)
  /\ UNCHANGED <<mode, mstatus, config, clock, mregs, sregs, mframe, sframe>>

\* A block that ends at the end of its page, or with a branch not taken.
FallThrough(n) ==
  /\ Running(n) /\ StepOver(LastPc(n)) /\ Retire(n)
  /\ UNCHANGED <<mode, mstatus, config, clock, mregs, sregs, mframe, sframe>>

\* Mutant: the code reserved for another mode.
EcallCauseReserved(m) == IF m = MODE_U THEN 8 ELSE m + 9

EcallCause(m) ==
  CASE m = MODE_M -> 11
    [] m = MODE_S -> 9
    [] m = MODE_U -> 8

Ecall(n) ==
  /\ Running(n) /\ mode \in Modes
  /\ Exception(EcallCause(mode), 0, LastPc(n))
  /\ GoTo(LastPc(n), ExceptionVector(EcallCause(mode))) /\ Retire(n)
  /\ UNCHANGED <<config, clock>>

\* Mutant: U mode is not in the chain of tests.
EcallCrashInUser(n) ==
  /\ Running(n) /\ mode \notin {MODE_S, MODE_M}
  /\ phase' = "crashed" /\ pc' = LastPc(n)
  /\ UNCHANGED <<mode, mstatus, config, clock, mregs, sregs, skip_step, mframe, sframe>>

\* ECALL in a mode it does not know raises RuntimeError out of CPU.run.
EcallCrash(n) ==
  /\ Running(n) /\ mode \notin Modes
  /\ phase' = "crashed" /\ pc' = LastPc(n)
  /\ UNCHANGED <<mode, mstatus, config, clock, mregs, sregs, skip_step, mframe, sframe>>

\* Mutant: MPIE is set before it is copied.
MretSetsFirst(n) ==
  /\ Running(n) /\ GoTo(LastPc(n), mepc) /\ Retire(n)
  /\ mstatus' = [mstatus EXCEPT !.MIE = 1, !.MPIE = 1, !.MPP = 0]
  /\ mode' = mstatus.MPP
  /\ mframe' = None
  /\ UNCHANGED <<config, clock, mregs, sregs, sframe>>

Mret(n) ==
  /\ Running(n) /\ GoTo(LastPc(n), mepc) /\ Retire(n)
  /\ mstatus' = [mstatus EXCEPT !.MIE = mstatus.MPIE, !.MPIE = 1, !.MPP = 0]
  /\ mode' = mstatus.MPP
  /\ mframe' = None
  /\ UNCHANGED <<config, clock, mregs, sregs, sframe>>

\* Mutant: SRET clears the previous mode of the other level.
SretClearsMPP(n) ==
  /\ Running(n) /\ GoTo(LastPc(n), sepc) /\ Retire(n)
  /\ mstatus' = [mstatus EXCEPT !.SIE = mstatus.SPIE, !.SPIE = 1, !.MPP = 0]
  /\ mode' = mstatus.SPP
  /\ sframe' = None
  /\ UNCHANGED <<config, clock, mregs, sregs, mframe>>

Sret(n) ==
  /\ Running(n) /\ GoTo(LastPc(n), sepc) /\ Retire(n)
  /\ mstatus' = [mstatus EXCEPT !.SIE = mstatus.SPIE, !.SPIE = 1, !.SPP = 0]
  /\ mode' = mstatus.SPP
  /\ sframe' = None
  /\ UNCHANGED <<config, clock, mregs, sregs, mframe>>

\* A load or store (after k instructions) or the fetch of a block faults.
PageFault(k, c, addr) ==
  /\ Running(k + 1) /\ mode # MODE_M
  /\ c = EXCEPTION_INST_PAGE_FAULT => k = 0 /\ addr = pc
  /\ Exception(c, addr, LastPc(k + 1))
  /\ pc' = ExceptionVector(c) /\ Abandon
  /\ UNCHANGED <<config, clock>>

\* CSR.__getitem__ and __setitem__ on a register that does not exist.
CsrIllegal(n) ==
  /\ Running(n)
  /\ Exception(EXCEPTION_ILLEGAL_INSTRUCTION, LastPc(n), LastPc(n))
  /\ pc' = ExceptionVector(EXCEPTION_ILLEGAL_INSTRUCTION) /\ Abandon
  /\ UNCHANGED <<config, clock>>

(***************************************************************************)
(* CSR writes (CSRRW, CSRRS, CSRRC and their immediate forms). The whole   *)
(* word is written, whichever of the aliases the guest names; v is the     *)
(* word after the set or clear.                                            *)
(***************************************************************************)

CsrStep(n) == Running(n) /\ StepOver(LastPc(n)) /\ Retire(n) /\ UNCHANGED mode

WriteStatus(n) ==
  /\ CsrStep(n)
  /\ mstatus' \in StatusValues
  /\ mframe' = None /\ sframe' = None
  /\ UNCHANGED <<config, clock, mregs, sregs>>

\* mie/sie, mip/sip, the delegation and vector registers, or (by a store) mtimecmp.
WriteConfig(n) ==
  /\ CsrStep(n)
  /\ \/ mie' \in IeValues /\ UNCHANGED <<mip, medeleg, mideleg, mtvec, stvec, mtimecmp>>
     \/ mip' \in IpValues /\ UNCHANGED <<mie, medeleg, mideleg, mtvec, stvec, mtimecmp>>
     \/ medeleg' \in MedelegValues /\ UNCHANGED <<mie, mip, mideleg, mtvec, stvec, mtimecmp>>
     \/ mideleg' \in MidelegValues /\ UNCHANGED <<mie, mip, medeleg, mtvec, stvec, mtimecmp>>
     \/ mtvec' \in TvecValues /\ UNCHANGED <<mie, mip, medeleg, mideleg, stvec, mtimecmp>>
     \/ stvec' \in TvecValues /\ UNCHANGED <<mie, mip, medeleg, mideleg, mtvec, mtimecmp>>
     \/ mtimecmp' \in MtimecmpValues /\ UNCHANGED <<mie, mip, medeleg, mideleg, mtvec, stvec>>
  /\ UNCHANGED <<mstatus, time, mregs, sregs, mframe, sframe>>

WriteMTrapRegs(n) ==
  /\ CsrStep(n)
  /\ \/ mepc' \in EpcValues /\ UNCHANGED <<mcause, mtval>>
     \/ mcause' \in CauseValues /\ UNCHANGED <<mepc, mtval>>
     \/ mtval' \in FaultAddrs /\ UNCHANGED <<mepc, mcause>>
  /\ mframe' = None
  /\ UNCHANGED <<mstatus, config, clock, sregs, sframe>>

WriteSTrapRegs(n) ==
  /\ CsrStep(n)
  /\ \/ sepc' \in EpcValues /\ UNCHANGED <<scause, stval>>
     \/ scause' \in CauseValues /\ UNCHANGED <<sepc, stval>>
     \/ stval' \in FaultAddrs /\ UNCHANGED <<sepc, scause>>
  /\ sframe' = None
  /\ UNCHANGED <<mstatus, config, clock, mregs, mframe>>

(***************************************************************************)
(* The poll at the end of CPU.run: read the clock, recompute MTIP, offer   *)
(* the machine timer and, when that is not taken, the supervisor timer.    *)
(***************************************************************************)

\* A poll interval is far longer than one tick of the 1 MHz clock.
Later(t) == {u \in 0..MaxTime : u > t \/ (u = t /\ t = MaxTime)}

\* Mutant: a pending bit once set stays.
MtimePendingSticky(t) == IF t >= mtimecmp \/ mip.MTIP = 1 THEN 1 ELSE 0

MtimePending(t) == IF t >= mtimecmp THEN 1 ELSE 0

Taken(i) == InterruptToM(i) \/ InterruptToS(i)

TakesMTimer(t) ==
  MtimePending(t) = 1 /\ mie.MTIE = 1 /\ Taken(INTERRUPT_TIMER_M)

\* Mutant: the supervisor timer is the other branch of the machine timer.
TakesSTimerElse(t) ==
  /\ MtimePending(t) = 0
  /\ mip.STIP = 1 /\ mie.STIE = 1 /\ Taken(INTERRUPT_TIMER_S)

TakesSTimer(t) ==
  /\ ~TakesMTimer(t)
  /\ mip.STIP = 1 /\ mie.STIE = 1 /\ Taken(INTERRUPT_TIMER_S)

PollAt(t) ==
  /\ time' = t /\ mip' = [mip EXCEPT !.MTIP = MtimePending(t)]
  /\ \/ TakesMTimer(t) /\ Interrupt(INTERRUPT_TIMER_M)
     \/ TakesSTimer(t) /\ Interrupt(INTERRUPT_TIMER_S)
     \/ /\ ~TakesMTimer(t) /\ ~TakesSTimer(t)
        /\ UNCHANGED <<mode, pc, mstatus, mregs, sregs, mframe, sframe>>

Poll ==
  /\ phase = "poll"
  /\ \E t \in Later(time) : PollAt(t)
  /\ skip_step' = 0 /\ phase' = "exec"
  /\ UNCHANGED config

Block(n) ==
  \/ \E t \in JumpTargets : Jump(n, t)
  \/ FallThrough(n)
  \/ Ecall(n)
  \/ EcallCrash(n)
  \/ Mret(n)
  \/ Sret(n)
  \/ CsrIllegal(n)
  \/ \E c \in FaultCauses, addr \in FaultAddrs \cup {pc} : PageFault(n - 1, c, addr)
  \/ WriteStatus(n)
  \/ WriteConfig(n)
  \/ WriteMTrapRegs(n)
  \/ WriteSTrapRegs(n)

Next == Poll \/ \E n \in BlockLens : Block(n)

Spec == Init /\ [][Next]_vars

(***************************************************************************)
(* Fairness. The interpreter is one thread that always goes on: Poll is    *)
(* weakly fair. What the guest does is its own affair, except that it      *)
(* completes a block now and then: a guest whose every block faults never  *)
(* reaches the poll, because Abandon does not count.                       *)
(***************************************************************************)

FairSpec ==
  /\ Spec /\ WF_vars(Poll)
  /\ SF_vars(\E n \in BlockLens : Block(n) /\ Retire(n))

-----------------------------------------------------------------------------

\* The type invariant of the privilege state: the trap registers, the
\* status bits and the mode take the values CPU and CSR give them.
TypeOK ==
  /\ mode \in 0..3 /\ pc \in Nat
  /\ mstatus \in Status /\ mie \in Enables /\ mip \in Pendings
  /\ medeleg \subseteq Exceptions /\ mideleg \subseteq Interrupts
  /\ mtvec \in Nat /\ stvec \in Nat
  /\ mepc \in Nat /\ mcause \in Cause /\ mtval \in Nat
  /\ sepc \in Nat /\ scause \in Cause /\ stval \in Nat
  /\ mtimecmp \in Nat /\ time \in 0..MaxTime /\ skip_step \in Nat
  /\ phase \in {"exec", "poll", "crashed"}
  /\ mframe \in Frame \cup {None} /\ sframe \in Frame \cup {None}

\* The context a machine trap saved stays in mepc, mcause, mtval, MPP and
\* MPIE, whatever supervisor traps and returns happen meanwhile, until MRET
\* or a guest write takes it: mstatus and sstatus are one word, and no step
\* of one level may touch the bits of the other.
MachineFrameIntact ==
  mframe # None =>
    /\ mepc = mframe.epc /\ mcause = mframe.cause /\ mtval = mframe.tval
    /\ mstatus.MPP = mframe.mode /\ mstatus.MPIE = mframe.ie

\* The same for a supervisor trap, across any machine timer interrupt and
\* SBI call taken while its handler runs.
SupervisorFrameIntact ==
  sframe # None =>
    /\ sepc = sframe.epc /\ scause = sframe.cause /\ stval = sframe.tval
    /\ mstatus.SPP = SppOf(sframe.mode) /\ mstatus.SPIE = sframe.ie

\* While a level owes a return its own interrupts stay off, so a handler
\* cannot lose its saved context to the timer.
HandlersMasked ==
  /\ mframe # None => mstatus.MIE = 0
  /\ sframe # None => mstatus.SIE = 0

\* From U, S and M only MRET and SRET lower the mode. In particular no trap
\* does, however medeleg and mideleg are set: an exception in M mode is never
\* delegated.
OnlyReturnsLowerMode ==
  [][mode' < mode /\ mode \in Modes => \E n \in BlockLens : Mret(n) \/ Sret(n)]_vars

\* MRET goes back to the context the last machine trap interrupted: its
\* mode, its interrupt enable, its pc (but for the self-address quirk of
\* CPU.run, when the MRET itself sits at the saved pc).
MretRestoresContext ==
  [][\A n \in BlockLens : Mret(n) /\ mframe # None =>
       /\ mode' = mframe.mode /\ mstatus'.MIE = mframe.ie
       /\ mframe.epc # LastPc(n) => pc' = mframe.epc]_vars

\* The poll never overwrites the context that a handler of the current
\* level has not yet returned to.
TimerSparesHandlers ==
  [][Poll => /\ mode = MODE_M /\ mframe # None => mframe' = mframe
             /\ mode \in {MODE_S, MODE_M} /\ sframe # None => sframe' = sframe]_vars

\* The trap a step entered, if it was to the level of mode'.
CauseTaken == IF mode' = MODE_M THEN mcause' ELSE scause'

\* A machine timer interrupt, delegated or not, is taken only when the clock
\* has reached mtimecmp as it is then, not because of a MTIP left from an
\* earlier poll or written by the guest.
TimerTrapIsDue ==
  [][Poll /\ <<mode, mstatus>>' # <<mode, mstatus>> /\ CauseTaken = IrqCause(INTERRUPT_TIMER_M)
       => time' >= mtimecmp]_vars

MachineTimerArmed ==
  /\ mie.MTIE = 1 /\ mtimecmp <= MaxTime /\ INTERRUPT_TIMER_M \notin mideleg
  /\ mode < MODE_M \/ (mode = MODE_M /\ mstatus.MIE = 1)

SupervisorTimerArmed ==
  /\ mie.STIE = 1 /\ mip.STIP = 1 /\ INTERRUPT_TIMER_S \in mideleg
  /\ mode < MODE_S \/ (mode = MODE_S /\ mstatus.SIE = 1)

\* A hart does not stay armed for the machine timer for ever: the trap is
\* taken, or the guest disarms it.
MachineTimerServed == []<>~MachineTimerArmed

\* Nor for a pending delegated supervisor timer, which is only looked at
\* when the machine timer is not taken.
SupervisorTimerServed == []<>~SupervisorTimerArmed

\* A guest that writes no reserved MPP never reaches the RuntimeError of ECALL
\* ("unknown cpu mode"), whatever traps, returns and writes it combines: every
\* mode a trap saves and a return restores is U, S or M.
KnownMode == phase # "crashed"

=============================================================================
