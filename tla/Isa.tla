--------------------------------- MODULE Isa ---------------------------------
(***************************************************************************)
(* The instructions the README and the device tree name (RV32IMA, Zicsr,   *)
(* Zifencei, Zicboz and the privileged ones) as the manual lists them: the *)
(* fixed fields of the word, and for each bit of the word that belongs to  *)
(* an immediate the bit it is; then what the arithmetic leaves in rd, bit  *)
(* by bit or as an equation. Nothing here is taken from the program.       *)
(***************************************************************************)
EXTENDS Word, Functions

\* Word bit -> immediate bit.
NoPlace == [p \in {} |-> 0]
PlaceI == [p \in 20 .. 31 |-> p - 20]
PlaceS == [p \in 25 .. 31 \cup 7 .. 11 |-> IF p > 11 THEN p - 20 ELSE p - 7]
PlaceU == [p \in 12 .. 31 |-> p - 12]
PlaceB == [p \in 7 .. 11 \cup 25 .. 31 |-> IF p = 7 THEN 11 ELSE IF p = 31 THEN 12 ELSE IF p > 11 THEN p - 20 ELSE p - 7]
PlaceJ == [p \in 12 .. 31 |-> IF p = 31 THEN 20 ELSE IF p = 20 THEN 11 ELSE IF p > 20 THEN p - 20 ELSE p]

Row(opcode, fields, place) == [fields |-> {<<0, 6, opcode>>} \cup fields, place |-> place]

\* Rows that have a name for each funct3.
ByFunct3(opcode, names, fields, place) ==
  {<<n[2], Row(opcode, {<<12, 14, n[1]>>} \cup fields, place)>> : n \in names}

\* Opcode, names by funct3, the other fields, the immediate. Of the fields the
\* manual fixes at zero these rows have those that tell instructions apart.
\* They leave open rd and rs1 of ECALL, EBREAK, SRET, MRET and WFI, rd of
\* SFENCE.VMA and CBO.ZERO, and rs2 of LR.W: words with something else there
\* are reserved, for a program to refuse or to take as it likes, and are listed
\* with the instruction.
Groups ==
  {<<51, {<<0, "ADD">>, <<1, "SLL">>, <<2, "SLT">>, <<3, "SLTU">>,
         <<4, "XOR">>, <<5, "SRL">>, <<6, "OR">>, <<7, "AND">>}, {<<25, 31, 0>>}, NoPlace>>,
   <<51, {<<0, "SUB">>, <<5, "SRA">>}, {<<25, 31, 32>>}, NoPlace>>,
   <<51, {<<0, "MUL">>, <<1, "MULH">>, <<2, "MULHSU">>, <<3, "MULHU">>,
         <<4, "DIV">>, <<5, "DIVU">>, <<6, "REM">>, <<7, "REMU">>}, {<<25, 31, 1>>}, NoPlace>>,
   <<19, {<<0, "ADDI">>, <<2, "SLTI">>, <<3, "SLTIU">>,
         <<4, "XORI">>, <<6, "ORI">>, <<7, "ANDI">>}, {}, PlaceI>>,
   <<19, {<<1, "SLLI">>, <<5, "SRLI">>}, {<<25, 31, 0>>}, PlaceI>>,
   <<19, {<<5, "SRAI">>}, {<<25, 31, 32>>}, PlaceI>>,
   <<3, {<<0, "LB">>, <<1, "LH">>, <<2, "LW">>, <<4, "LBU">>, <<5, "LHU">>}, {}, PlaceI>>,
   <<35, {<<0, "SB">>, <<1, "SH">>, <<2, "SW">>}, {}, PlaceS>>,
   <<99, {<<0, "BEQ">>, <<1, "BNE">>, <<4, "BLT">>, <<5, "BGE">>,
         <<6, "BLTU">>, <<7, "BGEU">>}, {}, PlaceB>>,
   <<103, {<<0, "JALR">>}, {}, PlaceI>>,
   <<15, {<<0, "FENCE">>, <<1, "FENCE.I">>}, {}, NoPlace>>,
   <<15, {<<2, "CBO.ZERO">>}, {<<20, 31, 4>>}, PlaceI>>,
   <<115, {<<0, "ECALL">>}, {<<20, 31, 0>>}, PlaceI>>,
   <<115, {<<0, "EBREAK">>}, {<<20, 31, 1>>}, PlaceI>>,
   <<115, {<<0, "SRET">>}, {<<25, 31, 8>>, <<20, 24, 2>>}, PlaceI>>,
   <<115, {<<0, "MRET">>}, {<<25, 31, 24>>, <<20, 24, 2>>}, PlaceI>>,
   <<115, {<<0, "WFI">>}, {<<25, 31, 8>>, <<20, 24, 5>>}, PlaceI>>,
   <<115, {<<0, "SFENCE.VMA">>}, {<<25, 31, 9>>}, NoPlace>>,
   <<115, {<<1, "CSRRW">>, <<2, "CSRRS">>, <<3, "CSRRC">>, <<5, "CSRRWI">>,
         <<6, "CSRRSI">>, <<7, "CSRRCI">>}, {}, PlaceI>>}

\* Names by the operation in bits 27 to 31.
Atomics ==
  {<<0, "AMOADD">>, <<1, "AMOSWAP">>, <<2, "LR">>, <<3, "SC">>, <<4, "AMOXOR">>, <<8, "AMOOR">>,
   <<12, "AMOAND">>, <<16, "AMOMIN">>, <<20, "AMOMAX">>, <<24, "AMOMINU">>, <<28, "AMOMAXU">>}

Rows ==
  (UNION {ByFunct3(g[1], g[2], g[3], g[4]) : g \in Groups})
    \cup {<<n[2], Row(47, {<<12, 14, 2>>, <<27, 31, n[1]>>}, NoPlace)>> : n \in Atomics}
    \cup {<<"JAL", Row(111, {}, PlaceJ)>>, <<"LUI", Row(55, {}, PlaceU)>>, <<"AUIPC", Row(23, {}, PlaceU)>>}

Listing == Table(Rows)

Fixed(row) == UNION {f[1] .. f[2] : f \in row.fields}

\* The positions of the ones among the fixed fields.
Ones(row) == UNION {{p \in f[1] .. f[2] : Bit(f[3], p - f[1]) = 1} : f \in row.fields}

Lists(row, value) == value \cap Fixed(row) = Ones(row)

\* The immediate has the bits the word gives it, and above them its sign.
Carries(row, value, imm) ==
  LET top == CHOOSE i \in Range(row.place) : \A j \in Range(row.place) : j <= i
  IN  /\ \A p \in DOMAIN row.place : p \in value <=> Bit(imm, row.place[p]) = 1
      /\ imm % 2^(top + 1) = imm \/ imm % 2^(top + 1) = imm + 2^(top + 1)
      /\ \A i \in 0 .. top : Bit(imm, i) = 1 => i \in Range(row.place)

(***************************************************************************)
(* Arithmetic: r is the result of the instruction on the words a and b.    *)
(***************************************************************************)

Signed(a) == IF a < Half THEN a ELSE a - Mod

Magnitude(n) == IF n < 0 THEN -n ELSE n

Equal(r, n) == (r - n) % Mod = 0

\* The quotient rounds toward zero.
Quotient(q, n, d) ==
  LET m == n - q * d IN Magnitude(m) < Magnitude(d) /\ (m # 0 => (m < 0) = (n < 0))

\* The remainder has the sign of the dividend and leaves a multiple.
Remainder(m, n, d) ==
  /\ Magnitude(m) < Magnitude(d) /\ (m # 0 => (m < 0) = (n < 0))
  /\ (n - m) % Magnitude(d) = 0

\* The high word of a product.
HighOf(h, product) == h * Mod <= product /\ product < (h + 1) * Mod

Bits(r, P(_)) == \A i \in 0 .. XLEN - 1 : Bit(r, i) = 1 <=> P(i)

Means(c, a, b, r) ==
  LET s == b % XLEN
      Overflows == a = Half /\ b = Mod - 1
  IN  CASE c \in {"ADD", "ADDI"} -> Equal(r, a + b)
        [] c = "SUB" -> Equal(r, a - b)
        [] c \in {"AND", "ANDI"} -> Bits(r, LAMBDA i : Bit(a, i) = 1 /\ Bit(b, i) = 1)
        [] c \in {"OR", "ORI"} -> Bits(r, LAMBDA i : Bit(a, i) = 1 \/ Bit(b, i) = 1)
        [] c \in {"XOR", "XORI"} -> Bits(r, LAMBDA i : Bit(a, i) # Bit(b, i))
        [] c \in {"SLL", "SLLI"} -> Bits(r, LAMBDA i : i >= s /\ Bit(a, i - s) = 1)
        [] c \in {"SRL", "SRLI"} -> Bits(r, LAMBDA i : i + s < XLEN /\ Bit(a, i + s) = 1)
        [] c \in {"SRA", "SRAI"} ->
             Bits(r, LAMBDA i : Bit(a, IF i + s < XLEN THEN i + s ELSE XLEN - 1) = 1)
        [] c \in {"SLT", "SLTI"} -> r = IF Signed(a) < Signed(b) THEN 1 ELSE 0
        [] c \in {"SLTU", "SLTIU"} -> r = IF a < b THEN 1 ELSE 0
        [] c = "MUL" -> Equal(r, a * b)
        [] c = "MULH" -> HighOf(Signed(r), Signed(a) * Signed(b))
        [] c = "MULHSU" -> HighOf(Signed(r), Signed(a) * b)
        [] c = "MULHU" -> HighOf(r, a * b)
        [] c \in {"DIV", "DIVU"} /\ b = 0 -> r = Mod - 1
        [] c \in {"REM", "REMU"} /\ b = 0 -> r = a
        [] c = "DIV" /\ b # 0 -> IF Overflows THEN r = Half ELSE Quotient(Signed(r), Signed(a), Signed(b))
        [] c = "REM" /\ b # 0 -> IF Overflows THEN r = 0 ELSE Remainder(Signed(r), Signed(a), Signed(b))
        [] c = "DIVU" /\ b # 0 -> Quotient(r, a, b)
        [] c = "REMU" /\ b # 0 -> Remainder(r, a, b)

\* Whether a branch on the words a and b is taken.
Taken(c, a, b) ==
  CASE c = "BEQ" -> a = b [] c = "BNE" -> a # b
    [] c = "BLT" -> Signed(a) < Signed(b) [] c = "BGE" -> Signed(a) >= Signed(b)
    [] c = "BLTU" -> a < b [] c = "BGEU" -> a >= b

=============================================================================
