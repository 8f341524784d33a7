-------------------------------- MODULE Accel --------------------------------
(***************************************************************************)
(* The one-entry cache per kind of access in front of                      *)
(* MMU.translate_addr, byte by byte: addresses as loads and stores compute *)
(* them, not cut to a word. Translation itself is a map of pages to        *)
(* frames; Mmu has the tables behind it, at the grain of pages.            *)
(***************************************************************************)
EXTENDS Word

CONSTANTS
  PageBits,         \* 12 in the code
  Maps,             \* the page tables the guest may install, page -> frame
  None

PageSize == 2^PageBits
Page == 0 .. (Mod \div PageSize) - 1

READ == 0
WRITE == 1
Tag == {READ, WRITE}

ASSUME AccelConstants ==
  /\ PageBits \in 1 .. XLEN - 1
  /\ Maps \subseteq [Page -> Nat] /\ Maps # {}

VARIABLES
  map,              \* the page tables, None when satp is off or the mode is M
  accel_cache       \* by tag: last address and what it was translated to

\* The parts of MMU.VA are cut from the address as it is, of either sign.
translate_addr(addr) ==
  IF map = None THEN addr
  ELSE map[(addr % Mod) \div PageSize] * PageSize + (addr % PageSize)

\* Mutant: compared above two bits too many.
HitWide(addr, prev) == prev # 0 /\ addr \div (4 * PageSize) = prev \div (4 * PageSize)

\* addr ^ prev_addr < 0xFFF, when prev_addr is true: the two agree above the
\* offset and not all bits of the offset differ, or their signs differ.
Hit(addr, prev) ==
  /\ prev # 0
  /\ \/ (addr < 0) # (prev < 0)
     \/ /\ addr \div PageSize = prev \div PageSize
        /\ (addr % PageSize) + (prev % PageSize) # PageSize - 1

Hits(tag, addr) == accel_cache[tag] # None /\ Hit(addr, accel_cache[tag].addr)

translate_addr_accel(tag, addr) ==
  IF Hits(tag, addr) THEN accel_cache[tag].paddr + addr - accel_cache[tag].addr
                     ELSE translate_addr(addr)

AccelAfter(tag, addr) ==
  IF Hits(tag, addr) THEN accel_cache
  ELSE [accel_cache EXCEPT ![tag] = [addr |-> addr, paddr |-> translate_addr(addr)]]

Empty == [t \in Tag |-> None]

AccelInit == map = None /\ accel_cache = Empty

\* A write to satp, or a change of mode: the loop head of CPU.run flushes.
Install(m) == map' = m /\ accel_cache' = Empty

=============================================================================
