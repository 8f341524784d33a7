------------------------------- MODULE MCInsts -------------------------------
(***************************************************************************)
(* Four-bit registers x0, x1 and x2, which take every pair of values; of   *)
(* every row of the listing words with all, none and some of the free bits *)
(* set, of one row per format every single bit, and words no row lists.    *)
(***************************************************************************)
EXTENDS Insts

\* rd, rs1 and rs2 (or an immediate of 1 or 2) in bits 7, 15 and 20.
Patterns == {{}, 7 .. 31, {7, 15, 21}, {8, 15, 21}, {15, 21}, {7, 15, 20}, {8, 16, 20}, {8, 16} \cup 20 .. 31}

Singles == {{p} : p \in 7 .. 31}

OnePerFormat == {"ADDI", "SB", "BGE", "JAL", "LUI", "CSRRW"}

WordsOf(c, patterns) == {Ones(Listing[c]) \cup (p \ Fixed(Listing[c])) : p \in patterns}

\* Unused values of opcode, funct3, funct5, funct7 and the numbers of SYSTEM.
Unlisted ==
  {{}, 0 .. 31, {0, 1, 4, 5, 26}, {0, 1, 4, 14, 30, 31}, {0, 1, 12, 13}, {0, 1, 5, 12, 13},
   {0, 1, 5, 6, 13}, {0, 1, 4, 5, 6, 22}, {0, 1, 4, 5, 6, 14}, {0, 1, 2, 3, 13},
   {0, 1, 2, 3, 13, 23}, {0, 1, 2, 3, 5, 13, 27, 29}, {0, 1, 2, 3, 5, 12}}

Sample ==
  UNION {WordsOf(c, Patterns) : c \in DOMAIN Listing}
    \cup UNION {WordsOf(c, Singles) : c \in OnePerFormat} \cup Unlisted

\* The conditions under which ExecutesAsListed is proved.
ASSUME WordPlaces /\ ShortImmediates

=============================================================================
