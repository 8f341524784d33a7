-------------------------------- MODULE Word --------------------------------
(***************************************************************************)
(* Python's integers as the interpreter uses them: registers hold words of *)
(* XLEN bits (REGS masks what is stored), everything between is unbounded, *)
(* and the helpers of util read a sign into a word or out of it.           *)
(***************************************************************************)
EXTENDS Integers, FiniteSetsExt

CONSTANT XLEN       \* 32 in the code; a power of two

Mod == 2^XLEN
Half == 2^(XLEN - 1)

\* The provers know no law of exponentiation: what they need of it is stated.
ASSUME XlenType == XLEN \in Nat \ {0, 1} /\ \A i \in 0 .. XLEN - 1 : 2^(i + 1) = 2 * 2^i

Words == 0 .. Mod - 1

\* What REGS.__setitem__ keeps of a value.
ToReg(v) == v % Mod

Bit(v, i) == (v \div 2^i) % 2

\* The low XLEN bits of a bitwise operation on integers of either sign.
Bitwise(op(_, _), v, w) ==
  MapThenSumSet(LAMBDA i : IF op(Bit(v, i), Bit(w, i)) THEN 2^i ELSE 0, 0 .. XLEN - 1)

And(v, w) == Bitwise(LAMBDA p, q : p = 1 /\ q = 1, v, w)
Or(v, w) == Bitwise(LAMBDA p, q : p = 1 \/ q = 1, v, w)
Xor(v, w) == Bitwise(LAMBDA p, q : p # q, v, w)

\* (~value) ^ mask: the bits of the value under bits that are all one.
msb_extend(v, len) ==
  IF Bit(v, len - 1) = 0 THEN v
  ELSE LET inverted == -v - 1 IN inverted - (inverted % 2^len) + (v % 2^len)

\* Works on words, and again on its own results.
u2s(v) ==
  IF v % Mod < Half THEN v
  ELSE LET magnitude == (-v) % Half IN -(IF magnitude = 0 THEN Half ELSE magnitude)

\* The function with these pairs of argument and value.
Table(pairs) == [x \in {p[1] : p \in pairs} |-> (CHOOSE p \in pairs : p[1] = x)[2]]

=============================================================================
