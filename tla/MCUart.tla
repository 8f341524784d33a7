------------------------------ MODULE MCUart -------------------------------
(***************************************************************************)
(* Clients for the runs of Uart. Clients are interchangeable: the symmetry *)
(* is used in the run that checks no liveness.                             *)
(***************************************************************************)
EXTENDS Uart

CONSTANTS c1, c2

Swap == Permutations(Client)
=============================================================================
