------------------------------ MODULE LoadStore ------------------------------
(***************************************************************************)
(* Loads, stores and CBO.ZERO (inst.py) from the effective address through *)
(* MMU.read and MMU.write to the bytes of a memory or a device.            *)
(*                                                                         *)
(* What a device answers is left open: Uart has the device, and the CLINT  *)
(* is plain memory.                                                        *)
(***************************************************************************)
EXTENDS Accel, AddrSpace

CONSTANTS
  Effective,        \* effective addresses, as pairs <<regs[rs1], imm>>
  Bases,            \* what regs[rs1] is for CBO.ZERO
  Values            \* of regs[rs2]

\* Memories are of whole pages, and words of whole bytes, at least two.
ASSUME LoadStoreConstants ==
  /\ Effective \subseteq Words \X Int /\ Bases \subseteq Words /\ Values \subseteq Words
  /\ \A m \in Machines : \A i \in DOMAIN m :
       m[i].kind = "memory" => m[i].base % PageSize = 0 /\ m[i].size % PageSize = 0
  /\ XLEN % ByteBits = 0 /\ XLEN # ByteBits

\* No address is below zero. The access after one that is may get the frame
\* of that one, by its sign (Hit).
NoneNegative == \A at \in Effective : at[1] + at[2] >= 0

VARIABLES
  last,             \* the last access: what the guest gave and got, what devices saw
  up                \* "running", or how CPU.run has ended

vars == <<map, accel_cache, sub_space, mem, last, up>>

Word4 == XLEN \div ByteBits

Length == [LB |-> 1, LBU |-> 1, LH |-> 2, LHU |-> 2, LW |-> Word4, SB |-> 1, SH |-> 2, SW |-> Word4]
Loads == {"LB", "LBU", "LH", "LHU", "LW"}
Stores == {"SB", "SH", "SW"}
Signed == {"LB", "LH"}

NoAccess == [op |-> "none", addr |-> 0, value |-> 0, got |-> 0, io |-> <<>>]

Init == AccelInit /\ SpacesInit /\ last = NoAccess /\ up = "running"

\* Mutant: the register takes the signed number.
GetRaw(op, data) == FromBytes(data, op \in Signed)

\* regs[rd] after the load.
Get(op, data) == ToReg(FromBytes(data, op \in Signed))

Load(op, addr) ==
  LET paddr == translate_addr_accel(READ, addr)
      Access(data, io) ==
        /\ last' = [NoAccess EXCEPT !.op = op, !.addr = addr, !.got = Get(op, data), !.io = io]
        /\ UNCHANGED up
  IN  /\ up = "running"
      /\ accel_cache' = AccelAfter(READ, addr)
      /\ \/ /\ KindAt(paddr) = "memory"
            /\ Access(ReadMemory(paddr, Length[op]), <<>>)
         \/ /\ KindAt(paddr) = "uart"
            /\ \E data \in [1 .. Length[op] -> Byte] : Access(data, ByteByByte("read", paddr, data))
         \/ /\ KindAt(paddr) = "none"
            /\ last' = [NoAccess EXCEPT !.op = op, !.addr = addr]
            /\ up' = "InvalidAddress"
      /\ UNCHANGED <<map, sub_space, mem>>

\* MMU.write, for a store of data by the instruction op.
Write(op, addr, value, data) ==
  LET paddr == translate_addr_accel(WRITE, addr)
      Access(io) == last' = [NoAccess EXCEPT !.op = op, !.addr = addr, !.value = value, !.io = io]
  IN  /\ up = "running"
      /\ accel_cache' = AccelAfter(WRITE, addr)
      /\ \/ /\ KindAt(paddr) = "memory" /\ Fits(paddr, data)
            /\ WriteMemory(paddr, data) /\ Access(<<>>) /\ UNCHANGED up
         \/ /\ KindAt(paddr) = "memory" /\ ~Fits(paddr, data)
            /\ up' = "ValueError" /\ Access(<<>>) /\ UNCHANGED mem
         \/ /\ KindAt(paddr) = "uart"
            /\ Access(ByteByByte("write", paddr, data)) /\ UNCHANGED <<mem, up>>
         \/ /\ KindAt(paddr) = "none"
            /\ up' = "InvalidAddress" /\ Access(<<>>) /\ UNCHANGED mem
      /\ UNCHANGED <<map, sub_space>>

Store(op, addr, value) == Write(op, addr, value, ToBytes(value, Length[op]))

\* A page from the address on, which need not be the start of one.
CBOzero(addr) == Write("CBO.ZERO", addr, 0, [k \in 1 .. PageSize |-> 0])

SetMap(m) == up = "running" /\ Install(m) /\ last' = NoAccess /\ UNCHANGED <<sub_space, mem, up>>

Next ==
  \/ \E at \in Effective :
       \/ \E op \in Loads : Load(op, at[1] + at[2])
       \/ \E op \in Stores, value \in Values : Store(op, at[1] + at[2], value)
  \/ \E addr \in Bases : CBOzero(addr)
  \/ \E m \in Maps \cup {None} : SetMap(m)

Spec == Init /\ [][Next]_vars

-----------------------------------------------------------------------------

\* The type invariant: memories hold bytes, and the list of spaces is one of
\* those the emulator builds.
TypeOK ==
  /\ sub_space \in Machines /\ map \in Maps \cup {None}
  /\ \A p \in DOMAIN mem : KindAt(p) = "memory" /\ mem[p] \in Byte
  /\ last.got \in Words
  /\ up \in {"running", "InvalidAddress", "ValueError"}

\* What memory is to a program that knows nothing of caches, routing and
\* slices: one array of bytes behind the page tables.
Flat == INSTANCE FlatMemory WITH spaces <- sub_space, bytes <- mem

\* Every access inside a page does to the flat memory what its instruction
\* says, whatever accesses and page tables came before it: accel_cache, the
\* routing by first byte, slices, byte order and sign extension are not to be
\* seen. One that crosses a page or the end of a memory (cpu.py:462) reaches
\* the first page's frame only, or ends the emulator, and spoils nothing else.
FlatMemory == Flat!Spec

=============================================================================
