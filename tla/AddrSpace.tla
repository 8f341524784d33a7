------------------------------ MODULE AddrSpace ------------------------------
(***************************************************************************)
(* Physical memory (addrspace.py): a list of spaces, each a memory or a    *)
(* device that takes single bytes, and the routing of an access to the     *)
(* first that contains its first byte. Integers are read and written as    *)
(* little-endian bytes (util.LittleEndness).                               *)
(*                                                                         *)
(* A Python exception ends CPU.run, and with it the emulator.              *)
(***************************************************************************)
EXTENDS Word, SequencesExt

CONSTANTS
  ByteBits,         \* 8 in the code
  Machines          \* lists of spaces like the one emulator.Memory builds

Byte == 0 .. 2^ByteBits - 1

\* Memories (PHYMEM, FLASH, CLINT) and the UART.
Space == [kind : {"memory", "uart"}, base : Nat, size : Nat \ {0}]

AddressesOf(s) == s.base .. s.base + s.size - 1

\* Spaces are addressed by words and do not overlap.
ASSUME AddrSpaceConstants ==
  /\ ByteBits \in Nat \ {0}
  /\ Machines \subseteq Seq(Space)
  /\ \A m \in Machines :
       /\ \A i \in DOMAIN m : AddressesOf(m[i]) \subseteq Words
       /\ \A i, j \in DOMAIN m : i # j => AddressesOf(m[i]) \cap AddressesOf(m[j]) = {}

VARIABLES
  sub_space,        \* the list, fixed when the emulator is built
  mem               \* the bytes of the memories, by physical address

SpacesInit ==
  /\ sub_space \in Machines
  /\ mem = [p \in UNION {AddressesOf(s) : s \in {t \in Range(sub_space) : t.kind = "memory"}} |-> 0]

contain(s, addr) == s.base <= addr /\ addr <= s.base + s.size - 1

\* The index of the space that serves an access at addr, 0 if none does.
Route(addr) ==
  LET found == {i \in DOMAIN sub_space : contain(sub_space[i], addr)}
  IN  IF found = {} THEN 0 ELSE CHOOSE i \in found : \A j \in found : i <= j

KindAt(addr) == IF Route(addr) = 0 THEN "none" ELSE sub_space[Route(addr)].kind

\* Bytes of the space from addr on.
Room(addr) == sub_space[Route(addr)].base + sub_space[Route(addr)].size - addr

\* A slice ends with the memory: an access over its end reads fewer bytes.
ReadMemory(addr, length) ==
  [k \in 1 .. IF length < Room(addr) THEN length ELSE Room(addr) |->
     mem[addr + k - 1]]

\* A slice of another length cannot be assigned (ValueError).
Fits(addr, data) == Len(data) <= Room(addr)

WriteMemory(addr, data) ==
  mem' = [p \in DOMAIN mem |->
            IF p - addr + 1 \in DOMAIN data THEN data[p - addr + 1] ELSE mem[p]]

\* A device gets the bytes one by one, in ascending order.
ByteByByte(kind, addr, data) == [k \in DOMAIN data |-> <<kind, addr + k - 1, data[k]>>]

(***************************************************************************)
(* util.LittleEndness.                                                     *)
(***************************************************************************)

Unsigned(data) == MapThenSumSet(LAMBDA k : data[k] * 2^(ByteBits * (k - 1)), DOMAIN data)

FromBytes(data, signed) ==
  LET bits == ByteBits * Len(data)
  IN  IF signed /\ Unsigned(data) >= 2^(bits - 1) THEN Unsigned(data) - 2^bits ELSE Unsigned(data)

ToBytes(value, length) ==
  [k \in 1 .. length |-> (value \div 2^(ByteBits * (k - 1))) % 2^ByteBits]

=============================================================================
