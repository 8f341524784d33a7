---------------------------- MODULE MCPrivilege ----------------------------
(***************************************************************************)
(* Constants for the runs of Privilege. Addresses are 0, 4, 8, 12; reset   *)
(* and both vectors start at 0, and a vector written with its mode bits    *)
(* set (5) shows the mask.                                                 *)
(***************************************************************************)
EXTENDS Privilege

StatusWord(sie, mie_, spie, mpie, spp, mpp) ==
  [SIE |-> sie, MIE |-> mie_, SPIE |-> spie, MPIE |-> mpie, SPP |-> spp, MPP |-> mpp]

\* Everything enabled with a return to S prepared, a return to U with S
\* interrupts on, and one nobody returns from.
LegalStatus ==
  {StatusWord(1, 1, 1, 1, 1, 1), StatusWord(1, 0, 0, 1, 0, 0)}
OneStatus == {StatusWord(1, 1, 1, 1, 1, 1)}
ReservedStatus == LegalStatus \cup {StatusWord(1, 1, 0, 0, 1, 2)}

AllTimers == {[STIE |-> 1, MTIE |-> 1]}
SupervisorOrAllTimers == AllTimers \cup {[STIE |-> 1, MTIE |-> 0]}
SupervisorPending == {[STIP |-> 1, MTIP |-> 0], [STIP |-> 0, MTIP |-> 1]}
STimerPending == {[STIP |-> 1, MTIP |-> 0]}

DelegateCalls == {{}, {8, EXCEPTION_LOAD_PAGE_FAULT, 11}}
DelegateTimer == {{INTERRUPT_TIMER_S}}
DelegateTimers == {{INTERRUPT_TIMER_S}, Interrupts}
AnyCause == {IrqCause(INTERRUPT_TIMER_M)}

=============================================================================
