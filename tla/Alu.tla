-------------------------------- MODULE Alu --------------------------------
(***************************************************************************)
(* The register instructions of RV32IM (inst.py), as the functions of two  *)
(* operands they are, and the register file they act on. An immediate is   *)
(* an operand like another, sign-extended when the instruction is built.   *)
(*                                                                         *)
(* Python shifts and multiplies unbounded integers, divides them with the  *)
(* real quotient of `/' (exact enough for 32-bit operands that trunc gives *)
(* the true quotient), and REGS cuts the result to a word.                 *)
(***************************************************************************)
EXTENDS Word

CONSTANT Reg        \* register numbers, 0 among them

\* A shift amount is the same of a number and of the word it is kept as.
ASSUME AluConstants == 0 \in Reg /\ Reg \subseteq Nat /\ Mod % XLEN = 0

VARIABLE regs

Amount(v) == v % XLEN

SLL(a, b) == a * 2^Amount(b)
SRL(a, b) == a \div 2^Amount(b)

SRA(a, b) == msb_extend(a, XLEN) \div 2^Amount(b)

SLT(a, b) == IF u2s(a) < u2s(b) THEN 1 ELSE 0
SLTU(a, b) == IF a < ToReg(b) THEN 1 ELSE 0

MUL(a, b) == a * b
MULH(a, b) == (u2s(a) * u2s(b)) \div Mod

MULHSU(a, b) == (u2s(a) * b) \div Mod
MULHU(a, b) == (a * b) \div Mod

Abs(n) == IF n < 0 THEN -n ELSE n

\* math.trunc(n / d), for d # 0.
Trunc(n, d) ==
  LET q == Abs(n) \div Abs(d) IN IF (n < 0) = (d < 0) THEN q ELSE -q

DIV(a, b) ==
  IF b = 0 THEN Mod - 1
  ELSE IF u2s(a) = -Half /\ u2s(b) = -1 THEN -Half
  ELSE Trunc(u2s(u2s(a)), u2s(u2s(b)))

DIVU(a, b) == IF b = 0 THEN -1 ELSE Trunc(a, b)

\* Mutant: the remainder Python's own % would give.
REMFloor(a, b) == IF b = 0 THEN a ELSE u2s(a) - (u2s(a) \div u2s(b)) * u2s(b)

REM(a, b) ==
  IF b = 0 THEN a
  ELSE IF u2s(a) = -Half /\ u2s(b) = -1 THEN 0
  ELSE u2s(a) - Trunc(u2s(a), u2s(b)) * u2s(b)

REMU(a, b) == IF b = 0 THEN a ELSE a - Trunc(a, b) * b

Register ==
  {"ADD", "SUB", "XOR", "OR", "AND", "SLL", "SRL", "SRA", "SLT", "SLTU",
   "MUL", "MULH", "MULHSU", "MULHU", "DIV", "DIVU", "REM", "REMU"}

Immediate ==
  [ADDI |-> "ADD", XORI |-> "XOR", ORI |-> "OR", ANDI |-> "AND", SLLI |-> "SLL", SRLI |-> "SRL",
   SRAI |-> "SRA", SLTI |-> "SLT", SLTIU |-> "SLTU"]

Result(op, a, b) ==
  CASE op = "ADD" -> a + b
    [] op = "SUB" -> a - b
    [] op = "XOR" -> Xor(a, b)
    [] op = "OR" -> Or(a, b)
    [] op = "AND" -> And(a, b)
    [] op = "SLL" -> SLL(a, b)
    [] op = "SRL" -> SRL(a, b)
    [] op = "SRA" -> SRA(a, b)
    [] op = "SLT" -> SLT(a, b)
    [] op = "SLTU" -> SLTU(a, b)
    [] op = "MUL" -> MUL(a, b)
    [] op = "MULH" -> MULH(a, b)
    [] op = "MULHSU" -> MULHSU(a, b)
    [] op = "MULHU" -> MULHU(a, b)
    [] op = "DIV" -> DIV(a, b)
    [] op = "DIVU" -> DIVU(a, b)
    [] op = "REM" -> REM(a, b)
    [] op = "REMU" -> REMU(a, b)

RegsInit == regs = [r \in Reg |-> 0]

\* Mutant: x0 is a register like the others.
WriteAny(rd, v) == regs' = [regs EXCEPT ![rd] = ToReg(v)]

\* Writes to x0 are dropped.
Write(rd, v) == regs' = IF rd = 0 THEN regs ELSE [regs EXCEPT ![rd] = ToReg(v)]

ExecR(op, rd, rs1, rs2) == Write(rd, Result(op, regs[rs1], regs[rs2]))

ExecI(op, rd, rs1, imm) == Write(rd, Result(Immediate[op], regs[rs1], imm))

=============================================================================
