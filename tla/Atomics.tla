------------------------------ MODULE Atomics ------------------------------
(***************************************************************************)
(* LR.W, SC.W and the AMOs (inst.py), executed by a guest whose pages may  *)
(* be missing or read-only, so that an instruction can fault and be run    *)
(* again after the guest's handler has mapped the page.                    *)
(*                                                                         *)
(* The reservation is one string for the hart: the decimal digits of the   *)
(* address register followed by those of the word, read as the code reads  *)
(* them. A word of memory stands for a page.                               *)
(***************************************************************************)
EXTENDS Word, Sequences

CONSTANTS
  Reg,              \* register numbers, 0 among them
  Addr,             \* the words of memory the guest uses
  Values,           \* what the guest loads into a register
  Amo,              \* the AMOs it executes
  LrRegs,           \* the registers of its LR.Ws, <<rd, rs1>>
  StoreRegs,        \* and of its SC.Ws and AMOs, <<rd, rs1, rs2>>
  Unset, None

Instruction == [op : Amo \cup {"lr", "sc"}, rd : Reg, rs1 : Reg, rs2 : Reg]

ASSUME AtomicsConstants ==
  /\ Addr \subseteq Words /\ Values \subseteq Words
  /\ Reg \subseteq Nat /\ 0 \in Reg
  /\ Amo \subseteq {"swap", "add", "and", "or", "xor", "max", "min", "maxu", "minu"}
  /\ LrRegs \subseteq Reg \X Reg /\ StoreRegs \subseteq Reg \X Reg \X Reg
  /\ Unset # None /\ {Unset, None} \cap Seq(0 .. 9) = {}
  /\ None \notin (Addr \X Words) \cup [instr : Instruction, regs : [Reg -> Words]]

VARIABLES
  regs, mem,
  access,           \* what the page tables allow
  reserve,          \* AddrSpace.reserve[cpu], or Unset when cpu is not a key
  phase,            \* "run", "fault" (in the handler), "crashed" (KeyError)
  \* Auxiliary.
  held,             \* <<address, word>> of the last LR.W, None after an SC.W
  faulted           \* the instruction that faulted, with the registers it had

vars == <<regs, mem, access, reserve, phase, held, faulted>>

Init ==
  /\ regs = [r \in Reg |-> 0] /\ mem = [a \in Addr |-> 0]
  /\ access = [a \in Addr |-> "write"]
  /\ reserve = Unset /\ phase = "run" /\ held = None /\ faulted = None

Readable(a) == a \in Addr /\ access[a] # "none"
Writable(a) == a \in Addr /\ access[a] = "write"

Instr(op, rd, rs1, rs2) == [op |-> op, rd |-> rd, rs1 |-> rs1, rs2 |-> rs2]

\* The instruction at pc: any, or the one the handler returned to.
Issues(i) ==
  /\ phase = "run"
  /\ IF faulted = None THEN regs[i.rs1] \in Addr ELSE i = faulted.instr

\* The registers the instruction was first issued with.
Issued == IF faulted = None THEN regs ELSE faulted.regs

\* Mutant: x0 is a register like the others.
PutAny(rd, v) == regs' = [regs EXCEPT ![rd] = ToReg(v)]

Put(rd, v) == regs' = IF rd = 0 THEN regs ELSE [regs EXCEPT ![rd] = ToReg(v)]

Fault(i) ==
  /\ phase' = "fault" /\ faulted' = [instr |-> i, regs |-> Issued]
  /\ UNCHANGED <<mem, access, reserve, held>>

Completes == faulted' = None /\ UNCHANGED <<access, phase>>

(***************************************************************************)
(* Load-reserved and store-conditional.                                    *)
(***************************************************************************)

\* str(n)
Digits[n \in Nat] == IF n < 10 THEN <<n>> ELSE Append(Digits[n \div 10], n % 10)

Key(a, v) == Digits[a] \o Digits[v]

\* No LR.W overwrites its address: it would reserve another.
LrKeepsAddress == \A r \in LrRegs : r[1] # 0 => r[1] # r[2]

\* No SC.W and no AMO overwrites an operand: run again after a fault, it would
\* find its own result there.
KeepsOperands == \A r \in StoreRegs : r[1] # 0 => r[1] \notin {r[2], r[3]}

\* Mutant: the reservation outlives the SC.W.
ReleaseNothing == held' = None /\ UNCHANGED reserve

Release == reserve' = None /\ held' = None

\* rd is written before rs1 is read again for the reservation.
LRw(rd, rs1) ==
  LET i == Instr("lr", rd, rs1, 0)
      addr == regs[rs1]
  IN  /\ Issues(i)
      /\ \/ ~Readable(addr) /\ Fault(i) /\ UNCHANGED regs
         \/ /\ Readable(addr)
            /\ Put(rd, mem[addr])
            /\ reserve' = Key(regs'[rs1], mem[addr])
            /\ held' = <<addr, mem[addr]>>
            /\ UNCHANGED mem /\ Completes

\* Mutant: the two halves of the string in the other order.
MatchesSwapped(addr) == reserve = Key(mem[addr], addr)

Matches(addr) == reserve = Key(addr, mem[addr])

\* reserve[cpu] raises KeyError on a hart that has executed no LR.W.
SCw(rd, rs1, rs2) ==
  LET i == Instr("sc", rd, rs1, rs2)
      addr == regs[rs1]
  IN  /\ Issues(i)
      /\ \/ ~Readable(addr) /\ Fault(i) /\ UNCHANGED regs
         \/ /\ Readable(addr) /\ reserve = Unset
            /\ phase' = "crashed"
            /\ UNCHANGED <<regs, mem, access, reserve, held, faulted>>
         \/ Readable(addr) /\ Matches(addr) /\ ~Writable(addr) /\ Fault(i) /\ UNCHANGED regs
         \/ /\ Writable(addr) /\ Matches(addr)
            /\ mem' = [mem EXCEPT ![addr] = regs[rs2]]
            /\ Put(rd, 0) /\ Release /\ Completes
         \/ /\ Readable(addr) /\ reserve # Unset /\ ~Matches(addr)
            /\ Put(rd, 1) /\ Release /\ UNCHANGED mem /\ Completes

(***************************************************************************)
(* AMOs.                                                                   *)
(***************************************************************************)

\* Mutant: the larger word, not the larger number.
SignedMaxWord(m, v) == IF m < v THEN v ELSE m

SignedMax(m, v) == IF u2s(m) < u2s(v) THEN u2s(v) ELSE u2s(m)
SignedMin(m, v) == IF u2s(m) < u2s(v) THEN u2s(m) ELSE u2s(v)

AmoValue(op, m, v) ==
  CASE op = "swap" -> v
    [] op = "add" -> v + m
    [] op = "and" -> And(v, m)
    [] op = "or" -> Or(v, m)
    [] op = "xor" -> Xor(v, m)
    [] op = "max" -> SignedMax(m, v)
    [] op = "min" -> SignedMin(m, v)
    [] op = "maxu" -> IF m < v THEN v ELSE m
    [] op = "minu" -> IF m < v THEN m ELSE v

\* rd is written before the store, which may fault.
AmoExec(op, rd, rs1, rs2) ==
  LET i == Instr(op, rd, rs1, rs2)
      addr == regs[rs1]
  IN  /\ Issues(i)
      /\ \/ ~Readable(addr) /\ Fault(i) /\ UNCHANGED regs
         \/ Readable(addr) /\ ~Writable(addr) /\ Put(rd, mem[addr]) /\ Fault(i)
         \/ /\ Writable(addr)
            /\ Put(rd, mem[addr])
            /\ mem' = [mem EXCEPT ![addr] = ToReg(AmoValue(op, mem[addr], regs[rs2]))]
            /\ UNCHANGED <<reserve, held>> /\ Completes

(***************************************************************************)
(* The rest of the guest: it computes, stores, and changes its page        *)
(* tables; its fault handler maps the page and returns to the instruction, *)
(* other code of the guest having stored a word or not, or gives it up.    *)
(***************************************************************************)

Compute(r, v) ==
  /\ phase = "run" /\ faulted = None /\ Put(r, v)
  /\ UNCHANGED <<mem, access, reserve, phase, held, faulted>>

Store(rs1, rs2) ==
  /\ phase = "run" /\ faulted = None /\ Writable(regs[rs1])
  /\ mem' = [mem EXCEPT ![regs[rs1]] = regs[rs2]]
  /\ UNCHANGED <<regs, access, reserve, phase, held, faulted>>

Protect(a, allowed) ==
  /\ phase = "run" /\ faulted = None
  /\ access' = [access EXCEPT ![a] = allowed]
  /\ UNCHANGED <<regs, mem, reserve, phase, held, faulted>>

MapAndReturn(a, v) ==
  /\ phase = "fault" /\ phase' = "run" /\ a \in Addr
  /\ access' = [access EXCEPT ![a] = "write"]
  /\ mem' = [mem EXCEPT ![a] = v]
  /\ UNCHANGED <<regs, reserve, held, faulted>>

GiveUp ==
  /\ phase = "fault" /\ phase' = "run" /\ faulted' = None
  /\ UNCHANGED <<regs, mem, access, reserve, held>>

Next ==
  \/ \E r \in LrRegs : LRw(r[1], r[2])
  \/ \E r \in StoreRegs : SCw(r[1], r[2], r[3]) \/ \E op \in Amo : AmoExec(op, r[1], r[2], r[3])
  \/ \E r \in Reg \ {0}, v \in Values : Compute(r, v)
  \/ \E r \in StoreRegs : Store(r[2], r[3])
  \/ \E a \in Addr, allowed \in {"none", "read"} : Protect(a, allowed)
  \/ \E a \in Addr : MapAndReturn(a, mem[a]) \/ \E v \in Values : MapAndReturn(a, v)
  \/ GiveUp

Spec == Init /\ [][Next]_vars

-----------------------------------------------------------------------------

\* The type invariant of the hart, its memory and its reservation.
TypeOK ==
  /\ regs \in [Reg -> Words] /\ regs[0] = 0 /\ mem \in [Addr -> Words]
  /\ access \in [Addr -> {"none", "read", "write"}]
  /\ reserve \in {Unset, None} \cup Seq(0..9)
  /\ phase \in {"run", "fault", "crashed"} /\ held \in {None} \cup (Addr \X Words)
  /\ phase = "fault" => faulted # None

\* What each AMO should leave in memory, bit by bit or by the order of
\* two's complement numbers (which adding Half turns into that of words).
AmoLeaves(op, m, v, new) ==
  LET Signed(w) == (w + Half) % Mod
      Bits(f(_, _)) == \A i \in 0 .. XLEN - 1 : Bit(new, i) = f(Bit(m, i), Bit(v, i))
  IN  CASE op = "swap" -> new = v
        [] op = "add" -> (new - v) % Mod = m
        [] op = "and" -> Bits(LAMBDA p, q : p * q)
        [] op = "or" -> Bits(LAMBDA p, q : p + q - p * q)
        [] op = "xor" -> Bits(LAMBDA p, q : (p + q) % 2)
        [] op = "max" -> new \in {m, v} /\ Signed(new) >= Signed(m) /\ Signed(new) >= Signed(v)
        [] op = "min" -> new \in {m, v} /\ Signed(new) <= Signed(m) /\ Signed(new) <= Signed(v)
        [] op = "maxu" -> new \in {m, v} /\ new >= m /\ new >= v
        [] op = "minu" -> new \in {m, v} /\ new <= m /\ new <= v

\* An AMO that faults, any number of times, and is run again takes effect
\* once, on the address and operand its registers held when it was first
\* issued, and returns the word it replaced (README.md: RV32IMA).
AmoTakesEffectOnce ==
  [][\A op \in Amo, r \in StoreRegs :
       AmoExec(op, r[1], r[2], r[3]) /\ faulted' = None =>
         LET addr == Issued[r[2]]
         IN  /\ addr \in Addr
             /\ AmoLeaves(op, mem[addr], Issued[r[3]], mem'[addr])
             /\ mem' = [mem EXCEPT ![addr] = mem'[addr]]
             /\ regs' = IF r[1] = 0 THEN Issued ELSE [Issued EXCEPT ![r[1]] = mem[addr]]]_vars

ScDone(r) == SCw(r[1], r[2], r[3]) /\ phase' = "run"

\* An SC.W succeeds only after an LR.W, one SC.W at most, and on the address
\* and the word of that LR.W (README.md: RV32IMA), unless the two addresses
\* have different numbers of digits: 1 and the word 10 make the string of 11
\* and the word 0.
ScSucceedsOnKey ==
  [][\A r \in StoreRegs :
       LET addr == regs[r[2]]
       IN  ScDone(r) /\ Matches(addr) =>
             /\ held # None
             /\ \/ held = <<addr, mem[addr]>>
                \/ Len(Digits[held[1]]) # Len(Digits[addr])]_vars

\* An SC.W to the address of the last LR.W succeeds when the word has not
\* changed, so that an LR/SC loop makes progress (README.md: RV32IMA).
ScSucceedsWhenUntouched ==
  [][\A r \in StoreRegs :
       ScDone(r) /\ held = <<regs[r[2]], mem[regs[r[2]]]>> =>
         mem'[regs[r[2]]] = regs[r[3]] /\ (r[1] # 0 => regs'[r[1]] = 0)]_vars

=============================================================================
