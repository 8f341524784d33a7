------------------------------- MODULE Decoder -------------------------------
(***************************************************************************)
(* From a 32-bit word to an instruction (decoder.py, and the constructors  *)
(* of the formats in inst.py). A word is the set of the positions of its   *)
(* ones. The memo of decode is that of a function and is left out.         *)
(***************************************************************************)
EXTENDS Word

\* The class of a word no test of decode names: it raises RuntimeError.
Undecoded == "undecoded"

bitcut(value, l, h) == MapThenSumSet(LAMBDA i : 2^(i - l), {i \in value : l <= i /\ i <= h})

opcode(value) == bitcut(value, 0, 6)
funct3(value) == bitcut(value, 12, 14)
funct5(value) == bitcut(value, 27, 31)
funct7(value) == bitcut(value, 25, 31)

ImmI(value) == msb_extend(bitcut(value, 20, 31), 12)

ImmUI(value) == ImmI(value) % 2^12

ImmS(value) == msb_extend(bitcut(value, 25, 31) * 2^5 + bitcut(value, 7, 11), 12)

ImmU(value) == msb_extend(bitcut(value, 12, 31), 20)

\* Mutant: bit 11 is where the J format has it.
ImmBAsJ(value) ==
  msb_extend(bitcut(value, 31, 31) * 2^12 + bitcut(value, 20, 20) * 2^11
             + bitcut(value, 25, 30) * 2^5 + bitcut(value, 8, 11) * 2, 13)

ImmB(value) ==
  msb_extend(bitcut(value, 31, 31) * 2^12 + bitcut(value, 7, 7) * 2^11
             + bitcut(value, 25, 30) * 2^5 + bitcut(value, 8, 11) * 2, 13)

ImmJ(value) ==
  msb_extend(bitcut(value, 31, 31) * 2^20 + bitcut(value, 12, 19) * 2^12
             + bitcut(value, 20, 20) * 2^11 + bitcut(value, 21, 30) * 2, 21)

\* The classes by what tells them apart within an opcode.
Multiply == <<"MUL", "MULH", "MULHSU", "MULHU", "DIV", "DIVU", "REM", "REMU">>
BaseReg ==
  Table({<<<<0, 0>>, "ADD">>, <<<<0, 32>>, "SUB">>, <<<<4, 0>>, "XOR">>, <<<<6, 0>>, "OR">>,
         <<<<7, 0>>, "AND">>, <<<<1, 0>>, "SLL">>, <<<<5, 0>>, "SRL">>, <<<<5, 32>>, "SRA">>,
         <<<<2, 0>>, "SLT">>, <<<<3, 0>>, "SLTU">>})
BaseImm ==
  Table({<<0, "ADDI">>, <<4, "XORI">>, <<6, "ORI">>, <<7, "ANDI">>, <<2, "SLTI">>, <<3, "SLTIU">>})
ShiftImm == Table({<<<<1, 0>>, "SLLI">>, <<<<5, 0>>, "SRLI">>, <<<<5, 32>>, "SRAI">>})
Load == Table({<<0, "LB">>, <<1, "LH">>, <<2, "LW">>, <<4, "LBU">>, <<5, "LHU">>})
Store == Table({<<0, "SB">>, <<1, "SH">>, <<2, "SW">>})
Branch ==
  Table({<<0, "BEQ">>, <<1, "BNE">>, <<4, "BLT">>, <<5, "BGE">>, <<6, "BLTU">>, <<7, "BGEU">>})
System == Table({<<0, "ECALL">>, <<1, "EBREAK">>, <<770, "MRET">>, <<258, "SRET">>, <<261, "WFI">>})
Csr ==
  Table({<<1, "CSRRW">>, <<2, "CSRRS">>, <<3, "CSRRC">>, <<5, "CSRRWI">>, <<6, "CSRRSI">>, <<7, "CSRRCI">>})
Atomic ==
  Table({<<2, "LR">>, <<3, "SC">>, <<1, "AMOSWAP">>, <<0, "AMOADD">>, <<12, "AMOAND">>, <<8, "AMOOR">>,
         <<4, "AMOXOR">>, <<20, "AMOMAX">>, <<16, "AMOMIN">>, <<24, "AMOMINU">>, <<28, "AMOMAXU">>})

\* The class and the immediate of a word. R formats have None for it.
decode(value) ==
  LET op == opcode(value)
      f3 == funct3(value)
      by3and7 == <<f3, funct7(value)>>
      Is(table, key, imm) ==
        <<IF key \in DOMAIN table THEN table[key] ELSE Undecoded, imm>>
  IN  CASE op = 51 /\ funct7(value) = 1 -> Is(Multiply, f3 + 1, 0)
        [] op = 51 /\ funct7(value) # 1 -> Is(BaseReg, by3and7, 0)
        [] op = 19 /\ f3 \notin {1, 5} -> Is(BaseImm, f3, ImmI(value))
        [] op = 19 /\ f3 \in {1, 5} -> Is(ShiftImm, by3and7, ImmI(value))
        [] op = 3 -> Is(Load, f3, ImmI(value))
        [] op = 35 -> Is(Store, f3, ImmS(value))
        [] op = 99 -> Is(Branch, f3, ImmB(value))
        [] op = 111 -> <<"JAL", ImmJ(value)>>
        [] op = 103 /\ f3 = 0 -> <<"JALR", ImmI(value)>>
        [] op = 55 -> <<"LUI", ImmU(value)>>
        [] op = 23 -> <<"AUIPC", ImmU(value)>>
        [] op = 115 /\ f3 # 0 -> Is(Csr, f3, ImmUI(value))
        [] op = 115 /\ f3 = 0 /\ ImmUI(value) \in DOMAIN System ->
             Is(System, ImmUI(value), ImmUI(value))
        [] op = 115 /\ f3 = 0 /\ ImmUI(value) \notin DOMAIN System /\ funct7(value) = 9 ->
             <<"SFENCE.VMA", 0>>
        [] op = 15 /\ f3 \in {0, 1} -> <<"FENCE", ImmI(value)>>
        [] op = 15 /\ f3 = 2 /\ ImmI(value) = 4 -> <<"CBO.ZERO", ImmI(value)>>
        [] op = 47 /\ f3 = 2 -> Is(Atomic, funct5(value), 0)
        [] OTHER -> <<Undecoded, 0>>

\* The object decode returns: the fields InstFormat cuts, and the above.
Instruction(value) ==
  [class |-> decode(value)[1], imm |-> decode(value)[2], value |-> value,
   rd |-> bitcut(value, 7, 11), rs1 |-> bitcut(value, 15, 19), rs2 |-> bitcut(value, 20, 24)]

=============================================================================
