------------------------------- MODULE MCMmu -------------------------------
(***************************************************************************)
(* Constants for the runs of Mmu. The frame <<0, 0>> is a root table and   *)
(* <<0, 1>> the table under it. Page A is mapped by a word of that table,  *)
(* page B maps the table itself (so a supervisor can edit it), and page D  *)
(* lies in a superpage that starts at the frame C.                         *)
(***************************************************************************)
EXTENDS Mmu

A == <<0, 0>>
B == <<0, 1>>
C == <<1, 0>>
D == <<1, 1>>

R0 == <<0, 0>>
T == <<0, 1>>

Frames == {0, 1} \X {0, 1}
Roots == {R0}
Words == {R0, T} \X {0, 1}

Invalid == [kind |-> "invalid", ppn |-> R0, w |-> FALSE, a |-> FALSE, d |-> FALSE]
Next_(f) == [kind |-> "next", ppn |-> f, w |-> FALSE, a |-> FALSE, d |-> FALSE]
Leaf(f, w) == [kind |-> "leaf", ppn |-> f, w |-> w, a |-> FALSE, d |-> FALSE]

Tables ==
  [w \in Words |-> CASE w = <<R0, 0>> -> Next_(T)
                     [] w = <<R0, 1>> -> Leaf(C, TRUE)
                     [] w = <<T, 0>> -> Leaf(C, TRUE)
                     [] w = <<T, 1>> -> Leaf(T, TRUE)]

\* A second root, in the frame <<1, 1>>, with a superpage instead.
R1 == D
TwoRoots == {R0, R1}
MoreWords == {R0, T, R1} \X {0, 1}
MoreTables ==
  [w \in MoreWords |-> CASE w = <<R0, 0>> -> Next_(T)
                         [] w = <<R1, 0>> -> Leaf(C, TRUE)
                         [] w = <<T, 0>> -> Leaf(D, TRUE)
                         [] w = <<T, 1>> -> Leaf(T, TRUE)
                         [] w \in {<<R0, 1>>, <<R1, 1>>} -> Invalid]
RemapOrRevokeA == {<<<<T, 0>>, Leaf(C, TRUE)>>, <<<<T, 0>>, Invalid>>}

OnOff == [on : BOOLEAN, asid : {0}, root : {R0}]
On(a, r) == [on |-> TRUE, asid |-> a, root |-> r]
Switches == {On(0, R0), On(1, R0), On(1, R1)}

\* Remap A, revoke it, protect it.
EditsOfA == {<<<<T, 0>>, p>> : p \in {Leaf(D, TRUE), Invalid, Leaf(C, FALSE)}}

ABD == {A, B, D}
AB == {A, B}
OnlyA == {A}
OnlyB == {B}
OnlyD == {D}
=============================================================================
