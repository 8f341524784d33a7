-------------------------------- MODULE Insts --------------------------------
(***************************************************************************)
(* Words decoded and executed one at a time, as CPU.run does: the register *)
(* file, the arithmetic of Alu, and the instructions that only move pc.    *)
(* Those with effects on memory, CSRs or the mode are in the modules of    *)
(* those parts; what other code runs between two of these is left open, so *)
(* the next word may be any, anywhere.                                     *)
(***************************************************************************)
EXTENDS Alu, Decoder, Isa

CONSTANTS
  Program,          \* words
  Places,           \* values of pc
  Upper,            \* 12 in the code: the bits below the immediate of LUI
  None

ASSUME InstsConstants ==
  Program \subseteq SUBSET (0 .. 31) /\ Places \subseteq Nat /\ Upper \in Nat

\* pc is where a register can point.
WordPlaces == Places \subseteq Words

\* SLTI has an immediate that a word can hold, which is 12 bits of 32.
ShortImmediates ==
  \A value \in Program : decode(value)[1] = "SLTI" => -Half <= decode(value)[2] /\ decode(value)[2] < Half

VARIABLES
  pc,
  inst              \* decoded and not yet executed, or None

vars == <<regs, pc, inst>>

\* decoder.inst_cache: decode is a function of the word.
Decoded == [value \in Program |-> Instruction(value)]

Init == RegsInit /\ pc \in Places /\ inst = None

Fetch(at, value) ==
  /\ inst = None
  /\ pc' = at /\ inst' = Decoded[value] /\ UNCHANGED regs

\* The loop of CPU.run steps over what has not moved pc.
Land(to) == inst' = None /\ pc' = IF to = pc THEN pc + 4 ELSE to

Operands == {inst.rd, inst.rs1, inst.rs2} \subseteq Reg

Operate ==
  /\ inst # None /\ Operands
  /\ \/ inst.class \in Register /\ ExecR(inst.class, inst.rd, inst.rs1, inst.rs2)
     \/ inst.class \in DOMAIN Immediate /\ ExecI(inst.class, inst.rd, inst.rs1, inst.imm)
  /\ Land(pc)

LoadUpper ==
  /\ inst # None /\ Operands
  /\ \/ inst.class = "LUI" /\ Write(inst.rd, inst.imm * 2^Upper)
     \/ inst.class = "AUIPC" /\ Write(inst.rd, pc + inst.imm * 2^Upper)
  /\ Land(pc)

Holds(class, a, b) ==
  CASE class = "BEQ" -> a = b [] class = "BNE" -> a # b
    [] class = "BLT" -> u2s(a) < u2s(b) [] class = "BGE" -> u2s(a) >= u2s(b)
    [] class = "BLTU" -> a < b [] class = "BGEU" -> a >= b

Conditional ==
  /\ inst # None /\ Operands
  /\ inst.class \in Range(Branch)
  /\ Land(IF Holds(inst.class, regs[inst.rs1], regs[inst.rs2]) THEN pc + inst.imm ELSE pc)
  /\ UNCHANGED regs

\* JALR reads its base before it writes the link, clears bit 0 and cuts pc.
Jump ==
  /\ inst # None /\ Operands
  /\ \/ inst.class = "JAL" /\ Land(pc + inst.imm)
     \/ inst.class = "JALR" /\ Land(LET to == ToReg(regs[inst.rs1] + inst.imm) IN to - (to % 2))
  /\ Write(inst.rd, pc + 4)

Nothing ==
  /\ inst # None /\ inst.class \in {"FENCE", "WFI"}
  /\ Land(pc) /\ UNCHANGED regs

\* Instructions of the other modules, and operands no register of this one is.
Elsewhere ==
  /\ inst # None /\ inst.class # Undecoded
  /\ \/ ~Operands
     \/ inst.class \notin Register \cup DOMAIN Immediate \cup Range(Branch)
                            \cup {"LUI", "AUIPC", "JAL", "JALR", "FENCE", "WFI"}
  /\ inst' = None /\ UNCHANGED <<regs, pc>>

Next ==
  \/ \E at \in Places, value \in Program : Fetch(at, value)
  \/ Operate \/ LoadUpper \/ Conditional \/ Jump \/ Nothing \/ Elsewhere

Spec == Init /\ [][Next]_vars

-----------------------------------------------------------------------------

\* The type invariant: registers hold words, x0 is zero, and nothing but
\* decode's own classes come out of it.
TypeOK ==
  /\ regs \in [Reg -> Words] /\ regs[0] = 0
  /\ pc \in Int
  /\ inst # None => inst.imm \in Int /\ inst.class \in DOMAIN Listing \cup {Undecoded}

\* FENCE.I is executed as a FENCE.
Same(class, name) == class = name \/ (class = "FENCE" /\ name = "FENCE.I")

\* Decoding undoes the listing: a word no row lists is refused, and any
\* other gets the class of a row that lists it, and its immediate (where the
\* row has one: shift amounts are all that shifts use of theirs, a CSR number
\* is not signed). Isa.Groups says which reserved words are listed with an
\* instruction: decoder.py:139-150, 173 and 178 take them for it too, and
\* nothing is said against that here.
Disassembles ==
  inst # None =>
    LET rows == {c \in DOMAIN Listing : Lists(Listing[c], inst.value)}
    IN  IF inst.class = Undecoded THEN rows = {}
        ELSE \E c \in rows :
               /\ Same(inst.class, c)
               /\ Listing[c].place # NoPlace => Carries(Listing[c], inst.value, inst.imm)
               /\ Listing[c].place # NoPlace /\ c \notin Range(Csr) => (inst.imm < 0) = (31 \in inst.value)

\* What the word's listing says of rd and of pc is what executing it does,
\* with operands and destination in any of the registers: divisions through a
\* real quotient, signs by inverting and masking, products and shifts of
\* unbounded integers, links and targets. A jump to itself is stepped over
\* (Land) and left out; pc is not cut to a word.
Executed ==
  LET w == inst.value
      rd == bitcut(w, 7, 11)
      a == regs[bitcut(w, 15, 19)]
      b == IF bitcut(w, 0, 6) = 19 THEN ToReg(inst.imm) ELSE regs[bitcut(w, 20, 24)]
      r == IF rd = 0 THEN "any" ELSE regs'[rd]
  IN  /\ inst.class \in Register \cup DOMAIN Immediate => rd = 0 \/ Means(inst.class, a, b, r)
      /\ inst.class \in {"JAL", "JALR"} => rd = 0 \/ Equal(r, pc + 4)
      /\ inst.class = "JAL" /\ inst.imm # 0 => pc' = pc + inst.imm
      /\ inst.class \in Range(Branch) /\ Taken(inst.class, a, b) /\ inst.imm # 0 =>
           pc' = pc + inst.imm
      /\ inst.class \in Range(Branch) /\ ~Taken(inst.class, a, b) => pc' = pc + 4
      /\ inst.class = "JALR" =>
           LET target == (a + inst.imm) - ((a + inst.imm) % 2)
           IN  Equal(pc', IF Equal(pc, target) THEN pc + 4 ELSE target)
      /\ \A x \in Reg \ {rd} : regs'[x] = regs[x]

ExecutesAsListed == [][inst # None /\ Operands => Executed]_vars

=============================================================================
