------------------------------ MODULE MCInterp ------------------------------
(***************************************************************************)
(* Two pages of two cells; programs that store, jump and crash.            *)
(***************************************************************************)
EXTENDS Interp

SomePrograms ==
  {<<"store", "jump", "op", "jump">>, <<"op", "store", "store", "jump">>,
   <<"jump", "op", "store", "ebreak">>}

FromZero == {[c \in Cell |-> p[c + 1]] : p \in SomePrograms}
=============================================================================
