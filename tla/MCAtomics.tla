----------------------------- MODULE MCAtomics -----------------------------
(***************************************************************************)
(* Register choices for the runs of Atomics: x1 holds the address, x2 the  *)
(* operand, and the result goes to x3, to x0, or over one of the others.   *)
(* The addresses of the run atomics have one digit and two; its words are  *)
(* 0, 1, 10 and 11, which every AMO but the addition keeps among them.     *)
(***************************************************************************)
EXTENDS Atomics

Closed == {"swap", "and", "or", "xor", "max", "min", "maxu", "minu"}
AllAmos == Closed \cup {"add"}

Apart == {<<3, 1, 2>>, <<0, 1, 2>>}
OverOperands == {<<2, 1, 2>>, <<1, 1, 2>>}
LrApart == {<<3, 1>>}
=============================================================================
