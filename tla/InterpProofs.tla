---------------------------- MODULE InterpProofs ----------------------------
(***************************************************************************)
(* For every size of memory, of pages and of the budget: Interp keeps its  *)
(* types, and implements Hart.                                             *)
(***************************************************************************)
EXTENDS Interp, FiniteSetTheorems, SequenceTheorems, WellFoundedInduction, TLAPS

-----------------------------------------------------------------------------
(* Pages.                                                                  *)

\* Memory is not empty and ends with a page.
LEMMA LastPage ==
  /\ Cells \in Nat \ {0}
  /\ PageOf(Cells) = Pages
  /\ \A c \in Cell : PageOf(c) \in 0 .. Pages - 1
  BY InterpConstants DEF Cells, Cell, PageOf

\* Cells of a page are less than its length apart.
LEMMA SamePage ==
  ASSUME NEW c \in Nat, NEW d \in Nat, PageOf(c) = PageOf(d)
  PROVE  d - c < PageLen
  BY InterpConstants DEF PageOf

\* A non-empty set of numbers has a least one.
LEMMA Least ==
  ASSUME NEW S \in SUBSET Nat, S # {}
  PROVE  \E m \in S : \A x \in S : m <= x
<1> DEFINE upto == {0 .. m : m \in S}
           Below == StrictSubsetOrdering(Nat)
<1>1. upto \subseteq FiniteSubsetsOf(Nat) /\ upto # {}
  <2>1. \A m \in S : m \in Int /\ IsFiniteSet(0 .. m) /\ 0 .. m \in SUBSET Nat
    BY FS_Interval
  <2>2. \A m \in S : 0 .. m \in FiniteSubsetsOf(Nat)
    BY <2>1 DEF FiniteSubsetsOf
  <2> QED
    BY <2>2
<1>2. IsWellFoundedOn(Below, FiniteSubsetsOf(Nat))
  BY FS_StrictSubsetOrderingWellFounded
<1> HIDE DEF upto, Below
<1>3. PICK u \in upto : \A v \in upto : <<v, u>> \notin Below
  BY <1>1, <1>2, WFMin, Zenon
<1> USE DEF upto, Below
<1>4. PICK m \in S : u = 0 .. m
  OBVIOUS
<1>5. ASSUME NEW x \in S, x < m PROVE FALSE
  <2>1. 0 .. x \subseteq 0 .. m /\ m \in (0 .. m) \ (0 .. x)
    BY <1>5
  <2>2. <<0 .. x, u>> \in Below
    BY <1>4, <2>1 DEF StrictSubsetOrdering
  <2> QED
    BY <1>3, <2>2
<1> QED
  BY <1>5

-----------------------------------------------------------------------------
(* Blocks.                                                                 *)

\* What decoding from cell c may give: words within a page, of which only the
\* last may jump.
BlockOK(c, block) ==
  /\ c \in Cell /\ block \in Seq(Word) /\ block # <<>> /\ c + Len(block) - 1 \in Cell
  /\ \A i \in 1 .. Len(block) : PageOf(c + i - 1) = PageOf(c)
  /\ \A i \in 1 .. Len(block) - 1 : block[i] \notin MayJump

\* A block has at most the length of a page.
LEMMA BlockLength ==
  ASSUME NEW c, NEW block, BlockOK(c, block)
  PROVE  Len(block) \in 1 .. PageLen
<1>1. c \in Nat /\ c + Len(block) - 1 \in Nat /\ Len(block) \in Nat \ {0}
  BY LastPage DEF BlockOK, Cell
<1>2. PageOf(c) = PageOf(c + Len(block) - 1)
  BY <1>1 DEF BlockOK
<1> QED
  BY <1>1, <1>2, SamePage, InterpConstants

\* Decoding ends, at a jump or at the end of the page, and not earlier.
LEMMA Ends ==
  ASSUME NEW c \in Cell
  PROVE  /\ BlockEnd(c) \in c .. Cells - 1
         /\ \A d \in c .. BlockEnd(c) - 1 : mem[d] \notin MayJump /\ PageOf(d + 1) = PageOf(c)
<1> DEFINE Stops(e) == mem[e] \in MayJump \/ PageOf(e + 1) # PageOf(c)
           stops == {e \in c .. Cells - 1 : Stops(e)}
<1>1. stops \in SUBSET Nat /\ c \in Nat /\ Cells \in Nat
  BY LastPage DEF Cell
<1>2. Cells - 1 \in stops
  BY LastPage DEF Cell
<1>3. PICK m \in stops : \A x \in stops : m <= x
  BY <1>1, <1>2, Least
<1>4. \A d \in c .. m - 1 : d \notin stops /\ d \in c .. Cells - 1
  BY <1>1, <1>3
<1> QED
  BY <1>3, <1>4 DEF BlockEnd

\* What is decoded is a block, and is what memory holds.
LEMMA DecodedOK ==
  ASSUME mem \in [Cell -> Word], NEW c \in Cell
  PROVE  /\ BlockOK(c, Decoded(c))
         /\ Len(Decoded(c)) = BlockEnd(c) - c + 1
         /\ \A i \in 1 .. Len(Decoded(c)) : Decoded(c)[i] = mem[c + i - 1]
<1>1. c \in Nat /\ Cells \in Nat /\ BlockEnd(c) \in c .. Cells - 1
  BY LastPage, Ends DEF Cell
<1>2. /\ Decoded(c) \in Seq(Word) /\ Len(Decoded(c)) = BlockEnd(c) - c + 1
      /\ \A i \in 1 .. Len(Decoded(c)) : Decoded(c)[i] = mem[c + i - 1]
  BY <1>1 DEF Decoded, Cell
<1>3. \A i \in 1 .. BlockEnd(c) - c + 1 : PageOf(c + i - 1) = PageOf(c)
  <2>1. ASSUME NEW i \in 1 .. BlockEnd(c) - c + 1, i # 1 PROVE PageOf(c + i - 1) = PageOf(c)
    <3>1. c + i - 2 \in c .. BlockEnd(c) - 1 /\ (c + i - 2) + 1 = c + i - 1
      BY <1>1, <2>1
    <3> QED
      BY <3>1, Ends
  <2> QED
    BY <1>1, <2>1
<1>4. \A i \in 1 .. Len(Decoded(c)) - 1 : Decoded(c)[i] \notin MayJump
  <2>1. \A i \in 1 .. Len(Decoded(c)) - 1 : c + i - 1 \in c .. BlockEnd(c) - 1
    BY <1>1, <1>2
  <2> QED
    BY <1>2, <2>1, Ends
<1> QED
  BY <1>1, <1>2, <1>3, <1>4 DEF BlockOK, Cell

-----------------------------------------------------------------------------
(* The invariant.                                                          *)

Places == {"none", "loop", "head", "exec", "raised", "two threads"}

ScalarsOK ==
  /\ mem \in [Cell -> Word] /\ pc \in 0 .. Cells
  /\ step \in 1 - PageLen .. Budget /\ flush_due \in BOOLEAN
  /\ write_page \in -1 .. Pages - 1 /\ visited \subseteq 0 .. Pages - 1
  /\ at \in Places

CacheOK == \A c \in DOMAIN inst_cache : BlockOK(c, inst_cache[c])

\* While instructions of a block are left, pc has come from its start step by
\* step, no flush is due, and the stay has visited the page.
RunOK ==
  /\ insts \in Seq(Word) /\ Len(insts) <= PageLen /\ done \in 0 .. Len(insts)
  /\ at \in Places \ {"exec", "two threads"} => insts = <<>>
  /\ at = "exec" => step > 0
  /\ at = "exec" /\ done < Len(insts) =>
       BlockOK(pc - done, insts) /\ ~flush_due /\ PageOf(pc) \in visited

\* Why a store that hits accel_cache may leave decoded code alone: of its
\* page there is none unless the stay has visited it.
StoresOK == \A c \in DOMAIN inst_cache : PageOf(c) = write_page => write_page \in visited

IInv == ScalarsOK /\ CacheOK /\ RunOK /\ StoresOK

\* It holds at first.
LEMMA InitIInv == Init => IInv
<1> SUFFICES ASSUME Init PROVE IInv
  OBVIOUS
<1>1. ScalarsOK
  BY InterpConstants, LastPage DEF Init, ScalarsOK, Places
<1>2. DOMAIN inst_cache = {}
  BY DEF Init
<1>3. RunOK
  BY InterpConstants DEF Init, RunOK, Places
<1> QED
  BY <1>1, <1>2, <1>3 DEF IInv, CacheOK, StoresOK

\* The length of the block is a number.
LEMMA LenNat == IInv => Len(insts) \in Nat
<1>1. IInv => insts \in Seq(Word)
  BY Zenon DEF IInv, RunOK
<1> QED
  BY <1>1

\* Where the next instruction of the block is.
LEMMA Here ==
  ASSUME IInv, at = "exec", done < Len(insts)
  PROVE  /\ pc \in Cell /\ PageOf(pc) \in visited /\ ~flush_due
         /\ done + 1 \in 1 .. Len(insts) /\ insts[done + 1] \in Word
         /\ insts[done + 1] \in MayJump => done + 1 = Len(insts)
         /\ PageOf(pc) = PageOf(pc - done)
<1>1. /\ BlockOK(pc - done, insts) /\ ~flush_due /\ PageOf(pc) \in visited
      /\ done \in 0 .. Len(insts) /\ pc \in Nat /\ Cells \in Nat
  BY LastPage DEF IInv, RunOK, ScalarsOK
<1>2. done + 1 \in 1 .. Len(insts) /\ (pc - done) + (done + 1) - 1 = pc
  BY <1>1 DEF BlockOK
<1>3. pc \in Cell
  BY <1>1, <1>2 DEF BlockOK, Cell
<1>4. PageOf(pc) = PageOf(pc - done)
  BY <1>1, <1>2 DEF BlockOK
<1>5. insts[done + 1] \in MayJump => done + 1 = Len(insts)
  BY <1>1, <1>2 DEF BlockOK
<1> QED
  BY <1>1, <1>2, <1>3, <1>4, <1>5 DEF BlockOK

\* The instructions of a block follow each other in memory.
LEMMA PassedOK ==
  ASSUME IInv, at = "exec", done < Len(insts), Passed, UNCHANGED <<insts, step, flush_due, visited, at>>
  PROVE  RunOK' /\ pc' \in 0 .. Cells
<1>1. /\ BlockOK(pc - done, insts) /\ pc - done = pc' - done'
      /\ done \in 0 .. Len(insts) /\ Len(insts) \in Nat /\ pc \in Nat
  BY LastPage DEF IInv, RunOK, ScalarsOK, Passed
<1>2. pc' \in 0 .. Cells /\ done' \in 0 .. Len(insts)
  BY <1>1, Here, LastPage DEF Passed, Cell
<1>3. ASSUME done' < Len(insts) PROVE PageOf(pc') = PageOf(pc)
  <2>1. done' + 1 \in 1 .. Len(insts) /\ (pc - done) + (done' + 1) - 1 = pc'
    BY <1>1, <1>2, <1>3 DEF Passed
  <2>2. PageOf(pc') = PageOf(pc - done)
    BY <1>1, <2>1 DEF BlockOK
  <2> QED
    BY <2>2, Here
<1>4. done' < Len(insts) => BlockOK(pc' - done', insts) /\ PageOf(pc') \in visited /\ ~flush_due
  BY <1>1, <1>3, Here
<1> QED
  BY <1>1, <1>2, <1>4 DEF IInv, RunOK

\* No block is a sequence of words.
LEMMA NoBlock ==
  ASSUME NEW block, block = <<>>
  PROVE  block \in Seq(Word) /\ Len(block) = 0
  BY EmptySeq

\* Outside of blocks nothing is left of one.
LEMMA IdleOK ==
  ASSUME insts' = <<>>, done' = 0, at' \in Places, at' # "exec"
  PROVE  RunOK'
<1>1. PageLen \in Nat
  BY InterpConstants
<1>2. insts' \in Seq(Word) /\ Len(insts') = 0
  BY NoBlock, Zenon
<1>3. Len(insts') <= PageLen /\ done' \in 0 .. Len(insts')
  BY <1>1, <1>2
<1> QED
  BY <1>2, <1>3 DEF RunOK

\* Between blocks, and before and after the thread, no block is left.
LEMMA Idle ==
  ASSUME IInv, at \in {"none", "loop", "head", "raised"}
  PROVE  insts = <<>> /\ done = 0
<1>0. at \in Places \ {"exec", "two threads"}
  BY DEF Places
<1>1. insts = <<>> /\ done \in 0 .. Len(insts)
  BY <1>0 DEF IInv, RunOK
<1>2. Len(<<>>) = 0
  OBVIOUS
<1> QED
  BY <1>1, <1>2

\* A trap goes to code.
LEMMA TrapOK == Trap => pc' \in 0 .. Cells /\ flush_due' \in BOOLEAN
  BY InterpConstants, LastPage DEF Trap, Cell

\* The head of the loop, with a cache that may have grown by pages the stay
\* now visits.
LEMMA FlushOK ==
  ASSUME IInv, NEW X, X \subseteq 0 .. Pages - 1,
         write_page' = (IF flush_due THEN -1 ELSE write_page),
         visited' = (IF flush_due THEN {} ELSE visited) \cup X,
         \A c \in DOMAIN inst_cache' : c \in DOMAIN inst_cache \/ (c \in Cell /\ PageOf(c) \in X)
  PROVE  StoresOK' /\ write_page' \in -1 .. Pages - 1 /\ visited' \subseteq 0 .. Pages - 1
<1>1. \A c \in DOMAIN inst_cache' : c \in Cell
  BY DEF IInv, CacheOK, BlockOK
<1>2. \A c \in DOMAIN inst_cache' : PageOf(c) # -1
  BY <1>1, LastPage
<1>3. ASSUME NEW c \in DOMAIN inst_cache', PageOf(c) = write_page' PROVE write_page' \in visited'
  <2>1. CASE flush_due
    BY <1>2, <1>3, <2>1
  <2>2. CASE ~flush_due
    BY <1>3, <2>2 DEF IInv, StoresOK
  <2> QED
    BY <2>1, <2>2
<1>4. -1 \in -1 .. Pages - 1
  BY InterpConstants
<1>5. write_page' \in -1 .. Pages - 1 /\ visited' \subseteq 0 .. Pages - 1
  BY <1>4 DEF IInv, ScalarsOK
<1> QED
  BY <1>3, <1>5 DEF StoresOK

\* A block that is about to run.
LEMMA RunsOK ==
  ASSUME IInv, at = "head", step > 0, pc \in Cell, NEW block, BlockOK(pc, block), Runs(block)
  PROVE  ScalarsOK' /\ RunOK'
<1>1. PageOf(pc) \in 0 .. Pages - 1 /\ PageOf(pc) \in visited' /\ flush_due' = FALSE
  BY LastPage DEF Runs, Flushed
<1>2. ScalarsOK'
  <2>1. -1 \in -1 .. Pages - 1
    BY InterpConstants
  <2>2. write_page' \in -1 .. Pages - 1 /\ visited' \subseteq 0 .. Pages - 1
    BY <1>1, <2>1 DEF IInv, ScalarsOK, Runs, Flushed
  <2> QED
    BY <1>1, <2>2 DEF IInv, ScalarsOK, Runs, Places
<1>3. Len(block) \in 1 .. PageLen /\ block \in Seq(Word)
  BY BlockLength DEF BlockOK
<1>4. RunOK'
  <2>1. pc' - done' = pc
    BY DEF IInv, ScalarsOK, Runs
  <2>2. insts' = block /\ done' = 0 /\ at' = "exec" /\ step' = step /\ pc' = pc
    BY DEF Runs
  <2> QED
    BY <1>1, <1>3, <2>1, <2>2 DEF RunOK
<1> QED
  BY <1>2, <1>4

\* Every step keeps the invariant.
LEMMA NextIInv == IInv /\ [Next]_vars => IInv'
<1> SUFFICES ASSUME IInv, [Next]_vars PROVE IInv'
  OBVIOUS
<1>p. at \in Places /\ Cells \in Nat /\ pc \in 0 .. Cells /\ PageLen \in Nat \ {0} /\ Budget \in Nat \ {0}
  BY LastPage, InterpConstants DEF IInv, ScalarsOK
<1>c. inst_cache' = inst_cache => CacheOK'
  BY DEF IInv, CacheOK, BlockOK
<1>s. inst_cache' = inst_cache /\ write_page' = write_page /\ visited' = visited => StoresOK'
  BY DEF IInv, StoresOK
\* Steps of the thread between blocks, and of the users of the emulator.
<1>1. CASE Start
  <2>1. at' \in Places /\ at' # "exec" /\ UNCHANGED cpu
    BY <1>1, <1>p DEF Start, Places
  <2>2. at' = "two threads" \/ insts = <<>>
    BY <1>1, Idle DEF Start
  <2>3. RunOK'
    BY <2>1, <2>2 DEF IInv, RunOK, cpu
  <2> QED
    BY <2>1, <2>3, <1>c, <1>s DEF IInv, ScalarsOK, cpu
<1>2. CASE Stop
  BY <1>2, <1>c, <1>s DEF Stop, IInv, ScalarsOK, RunOK, BlockOK, cpu
<1>3. CASE CallRun
  <2>1. /\ insts' = <<>> /\ done' = 0 /\ at' \in Places /\ at' # "exec"
        /\ UNCHANGED <<mem, pc, inst_cache, write_page, visited>>
    BY <1>3, Idle DEF CallRun, Places
  <2>2. step' \in 1 - PageLen .. Budget /\ flush_due' \in BOOLEAN
    <3>1. Budget \in 1 - PageLen .. Budget
      BY <1>p
    <3> QED
      BY <1>3, <3>1 DEF CallRun, IInv, ScalarsOK
  <2> QED
    BY <2>1, <2>2, <1>c, <1>s, IdleOK DEF IInv, ScalarsOK
<1>4. CASE ReturnFromRun
  <2>1. insts' = <<>> /\ done' = 0 /\ at' \in Places /\ at' # "exec" /\ UNCHANGED cpu
    BY <1>4, Idle DEF ReturnFromRun, Places, cpu
  <2> QED
    BY <2>1, <1>c, <1>s, IdleOK DEF IInv, ScalarsOK, cpu
<1>5. CASE FetchCached
  <2>1. BlockOK(pc, inst_cache[pc]) /\ pc \in Cell /\ at = "head" /\ step > 0
    BY <1>5 DEF FetchCached, IInv, CacheOK, BlockOK
  <2>2. ScalarsOK' /\ RunOK'
    BY <1>5, <2>1, RunsOK DEF FetchCached
  <2>3. StoresOK'
    <3> DEFINE here == {PageOf(pc)}
    <3>1. here \subseteq 0 .. Pages - 1
      BY <2>1, LastPage
    <3>2. /\ visited' = (IF flush_due THEN {} ELSE visited) \cup here /\ inst_cache' = inst_cache
          /\ write_page' = (IF flush_due THEN -1 ELSE write_page)
      BY <1>5 DEF FetchCached, Runs, Flushed
    <3> HIDE DEF here
    <3> QED
      BY <3>1, <3>2, FlushOK
  <2> QED
    BY <1>5, <2>2, <2>3, <1>c DEF FetchCached, IInv
<1>6. CASE FetchDecoded
  <2>1. pc \in Cell /\ at = "head" /\ step > 0 /\ mem \in [Cell -> Word] /\ mem' = mem
    BY <1>6 DEF FetchDecoded, Uncached, IInv, ScalarsOK, Runs
  <2>2. BlockOK(pc, Decoded(pc))
    BY <2>1, DecodedOK
  <2>3. ScalarsOK' /\ RunOK'
    BY <1>6, <2>1, <2>2, RunsOK DEF FetchDecoded
  <2>4. CacheOK'
    BY <1>6, <2>2 DEF FetchDecoded, IInv, CacheOK, BlockOK
  <2>5. StoresOK'
    <3> DEFINE here == {PageOf(pc)}
    <3>1. here \subseteq 0 .. Pages - 1
      BY <2>1, LastPage
    <3>2. /\ visited' = (IF flush_due THEN {} ELSE visited) \cup here
          /\ \A c \in DOMAIN inst_cache' : c \in DOMAIN inst_cache \/ (c \in Cell /\ PageOf(c) \in here)
          /\ write_page' = (IF flush_due THEN -1 ELSE write_page)
      BY <1>6, <2>1 DEF FetchDecoded, Runs, Flushed
    <3> HIDE DEF here
    <3> QED
      BY <3>1, <3>2, FlushOK
  <2> QED
    BY <2>3, <2>4, <2>5 DEF IInv
<1>7. CASE DecodeError \/ FetchFault \/ FetchError
  <2>1. insts' = <<>> /\ done' = 0 /\ at' \in Places /\ at' # "exec"
    BY <1>7, Idle DEF DecodeError, FetchFault, FetchError, Uncached, Places
  <2>2. UNCHANGED <<mem, inst_cache, step>> /\ pc' \in 0 .. Cells /\ flush_due' \in BOOLEAN
    BY <1>7, <1>p, TrapOK DEF DecodeError, FetchFault, FetchError, Flushed
  <2> DEFINE here == IF DecodeError THEN {PageOf(pc)} ELSE {}
  <2>3. here \subseteq 0 .. Pages - 1
    BY LastPage DEF DecodeError, Uncached
  <2>4. /\ visited' = (IF flush_due THEN {} ELSE visited) \cup here
        /\ write_page' = (IF flush_due THEN -1 ELSE write_page)
    BY <1>7 DEF DecodeError, FetchFault, FetchError, Flushed
  <2> HIDE DEF here
  <2>5. StoresOK' /\ write_page' \in -1 .. Pages - 1 /\ visited' \subseteq 0 .. Pages - 1
    BY <2>2, <2>3, <2>4, FlushOK
  <2> QED
    BY <2>1, <2>2, <2>5, <1>c, IdleOK DEF IInv, ScalarsOK
\* Instructions.
<1>8. CASE Operate
  <2>1. RunOK' /\ pc' \in 0 .. Cells
    BY <1>8, PassedOK DEF Operate, Executes
  <2> QED
    BY <1>8, <2>1, <1>c, <1>s DEF Operate, IInv, ScalarsOK
<1>9. ASSUME NEW c \in Cell, NEW word \in Storable, Store(c, word) PROVE IInv'
  <2>1. RunOK' /\ pc' \in 0 .. Cells
    BY <1>9, PassedOK DEF Store, Executes
  <2>2. mem' \in [Cell -> Word]
    BY <1>9, InterpConstants DEF Store, IInv, ScalarsOK
  <2>3. write_page' = PageOf(c) /\ PageOf(c) \in -1 .. Pages - 1
    BY <1>9, LastPage DEF Store
  <2>4. CacheOK'
    BY <1>9 DEF Store, Without, IInv, CacheOK, BlockOK
  <2>5. StoresOK'
    BY <1>9, <2>3 DEF Store, Without, IInv, StoresOK
  <2> QED
    BY <1>9, <2>1, <2>2, <2>3, <2>4, <2>5 DEF Store, IInv, ScalarsOK
<1>10. ASSUME NEW to \in Cell, Jump(to) PROVE IInv'
  <2>1. pc \in Cell /\ done + 1 = Len(insts) /\ step > 0 /\ Len(insts) \in Nat
    BY <1>10, Here DEF Jump, Executes, IInv, RunOK
  <2>2. pc' \in 0 .. Cells
    BY <1>10, <2>1, <1>p DEF Jump, Cell
  <2>3. /\ done' \in 0 .. Len(insts) /\ ~(done' < Len(insts))
        /\ UNCHANGED <<insts, step, at>> /\ at = "exec"
    BY <1>10, <2>1 DEF Jump, Executes
  <2>4. RunOK'
    BY <2>1, <2>3 DEF IInv, RunOK
  <2> QED
    BY <1>10, <2>2, <2>4, <1>c, <1>s DEF Jump, IInv, ScalarsOK
<1>11. CASE StoreFault \/ JumpTraps
  <2>1. /\ insts' = <<>> /\ done' = 0 /\ at' \in Places /\ at' # "exec"
        /\ UNCHANGED <<mem, inst_cache, step, write_page, visited>>
    BY <1>11 DEF StoreFault, JumpTraps, Abandoned, Places
  <2>2. pc' \in 0 .. Cells /\ flush_due' \in BOOLEAN
    BY <1>11, TrapOK DEF StoreFault, JumpTraps
  <2> QED
    BY <2>1, <2>2, <1>c, <1>s, IdleOK DEF IInv, ScalarsOK
<1>12. CASE ExecError
  <2>1. /\ insts' = <<>> /\ done' = 0 /\ at' \in Places /\ at' # "exec"
        /\ UNCHANGED <<mem, pc, inst_cache, step, flush_due, write_page, visited>>
    BY <1>12 DEF ExecError, Places
  <2> QED
    BY <2>1, <1>c, <1>s, IdleOK DEF IInv, ScalarsOK
<1>13. CASE Retire
  <2>1. /\ insts' = <<>> /\ done' = 0 /\ at' \in Places /\ at' # "exec"
        /\ UNCHANGED <<mem, inst_cache, write_page, visited>>
    BY <1>13 DEF Retire, Abandoned, Places
  <2>2. pc' \in 0 .. Cells /\ flush_due' \in BOOLEAN
    BY <1>13, <1>p, TrapOK DEF Retire, IInv, ScalarsOK
  <2>3. step' \in 1 - PageLen .. Budget
    <3>1. step > 0 /\ step \in Int /\ step <= Budget /\ Len(insts) \in Nat /\ Len(insts) <= PageLen
      BY <1>13, <1>p DEF Retire, IInv, RunOK, ScalarsOK
    <3> QED
      BY <1>13, <3>1, <1>p DEF Retire
  <2> QED
    BY <2>1, <2>2, <2>3, <1>c, <1>s, IdleOK DEF IInv, ScalarsOK
<1>14. CASE UNCHANGED vars
  BY <1>14, <1>c, <1>s DEF vars, cpu, IInv, ScalarsOK, RunOK, BlockOK
<1> QED
  BY <1>1, <1>2, <1>3, <1>4, <1>5, <1>6, <1>7, <1>8, <1>9, <1>10, <1>11, <1>12, <1>13, <1>14
  DEF Next, Thread

\* The invariant holds of every behaviour.
THEOREM Invariant == Spec => []IInv
  BY InitIInv, NextIInv, PTL DEF Spec

\* Cells hold words, blocks are never empty and stay within a page, the
\* budget is overrun by less than a page: the property TypeOK.
THEOREM InterpTypeCorrect == Spec => []TypeOK
<1>1. ASSUME IInv PROVE TypeOK
  <2>1. ASSUME NEW c \in DOMAIN inst_cache
        PROVE  inst_cache[c] # <<>> /\ PageOf(c) = PageOf(c + Len(inst_cache[c]) - 1)
    <3>1. BlockOK(c, inst_cache[c])
      BY <1>1 DEF IInv, CacheOK
    <3>2. Len(inst_cache[c]) \in 1 .. Len(inst_cache[c])
      BY <3>1, BlockLength, InterpConstants
    <3> QED
      BY <3>1, <3>2 DEF BlockOK
  <2> QED
    BY <1>1, <2>1 DEF TypeOK, IInv, ScalarsOK, RunOK, Places
<1> QED
  BY <1>1, Invariant, PTL

-----------------------------------------------------------------------------
(* Refinement.                                                             *)

\* The abstract hart has the same cells and pages.
LEMMA SameCells == Simple!Cell = Cell /\ \A c : Simple!PageOf(c) = PageOf(c)
  BY DEF Simple!Cell, Simple!PageOf, Cell, Cells, PageOf

\* What may be executed although it was overwritten does not grow.
Shrinks == \A c \in Cell : Old(c)' \subseteq Old(c)

\* Then the abstract hart only forgets.
LEMMA ShrinksForgets == Shrinks => Simple!Forgets
  BY SameCells DEF Shrinks, Simple!Forgets

\* Steps that leave memory and code alone change nothing of it.
LEMMA KeepsShrinks ==
  ASSUME UNCHANGED <<mem, pc, inst_cache, insts, done>>
  PROVE  Shrinks /\ [c \in Cell |-> Old(c)]' = [c \in Cell |-> Old(c)]
  BY DEF Shrinks, Old, Cached, Ahead

\* Nothing of a block is ahead when there is none.
LEMMA NothingAhead ==
  ASSUME NEW p \in Nat, NEW block, block = <<>>, NEW d, d = 0
  PROVE  p .. p + Len(block) - d - 1 = {}
<1>1. Len(block) = 0
  BY NoBlock, Zenon
<1> QED
  BY <1>1

\* Nor does giving up the block add to it.
LEMMA IdleShrinks ==
  ASSUME insts' = <<>>, done' = 0, pc' \in Nat, UNCHANGED <<mem, inst_cache>>
  PROVE  Shrinks
<1>1. ASSUME NEW c PROVE Ahead(c)' = {}
  BY NothingAhead, Zenon DEF Ahead
<1> QED
  BY <1>1 DEF Shrinks, Old, Cached

\* Words of a cached block, and words ahead, are of the page they start in.
LEMMA CachedPage ==
  ASSUME IInv, NEW s \in DOMAIN inst_cache, NEW d \in s .. s + Len(inst_cache[s]) - 1
  PROVE  PageOf(d) = PageOf(s) /\ s \in Cell
<1>1. BlockOK(s, inst_cache[s]) /\ s \in Nat
  BY LastPage DEF IInv, CacheOK, BlockOK, Cell
<1>2. d - s + 1 \in 1 .. Len(inst_cache[s]) /\ s + (d - s + 1) - 1 = d
  BY <1>1 DEF BlockOK
<1>3. \A i \in 1 .. Len(inst_cache[s]) : PageOf(s + i - 1) = PageOf(s)
  BY <1>1 DEF BlockOK
<1>4. PageOf(s + (d - s + 1) - 1) = PageOf(s)
  BY <1>2, <1>3
<1> QED
  BY <1>1, <1>2, <1>4 DEF BlockOK

\* The same for the words ahead, so the stay has visited their page.
LEMMA AheadPage ==
  ASSUME IInv, at = "exec", done < Len(insts), NEW d \in pc .. pc + Len(insts) - done - 1
  PROVE  PageOf(d) \in visited
<1>1. /\ BlockOK(pc - done, insts) /\ done \in 0 .. Len(insts) /\ Len(insts) \in Nat
      /\ pc \in Nat /\ PageOf(pc) \in visited /\ PageOf(pc) = PageOf(pc - done)
  BY LastPage, Here DEF IInv, RunOK, ScalarsOK
<1>2. d - pc + done + 1 \in 1 .. Len(insts) /\ (pc - done) + (d - pc + done + 1) - 1 = d
  BY <1>1
<1>3. \A i \in 1 .. Len(insts) : PageOf((pc - done) + i - 1) = PageOf(pc - done)
  BY <1>1 DEF BlockOK
<1>4. PageOf((pc - done) + (d - pc + done + 1) - 1) = PageOf(pc - done)
  BY <1>2, <1>3
<1> QED
  BY <1>1, <1>2, <1>4

\* One instruction on, no word is ahead that was not.
LEMMA PassedAhead ==
  ASSUME IInv, at = "exec", done < Len(insts), Passed, insts' = insts, NEW c
  PROVE  Ahead(c)' \subseteq Ahead(c)
<1>1. pc \in Nat /\ done \in Nat /\ Len(insts) \in Nat
  BY Here, LastPage DEF IInv, RunOK, ScalarsOK
<1>2. ASSUME c \in pc' .. pc' + Len(insts) - done' - 1
      PROVE  c \in pc .. pc + Len(insts) - done - 1 /\ done' + 1 + c - pc' = done + 1 + c - pc
  BY <1>1, <1>2 DEF Passed
<1> QED
  BY <1>2 DEF Ahead

\* What the interpreter executes, the abstract hart may read.
LEMMA ReadsHere ==
  ASSUME IInv, NEW class, Executes(class)
  PROVE  Simple!Reads(insts[done + 1])
<1>1. at = "exec" /\ done < Len(insts)
  BY DEF Executes
<1>2. pc \in Cell /\ PageOf(pc) \in visited /\ ~flush_due
  BY <1>1, Here
<1>3. insts[done + 1] \in Ahead(pc)
  <2>1. /\ pc \in Nat /\ done \in Nat /\ Len(insts) \in Nat
        /\ pc \in pc .. pc + Len(insts) - done - 1 /\ done + 1 + pc - pc = done + 1
    BY <1>1, LastPage DEF IInv, RunOK, ScalarsOK
  <2> QED
    BY <2>1 DEF Ahead
<1>4. insts[done + 1] = mem[pc] \/ insts[done + 1] \in [c \in Cell |-> Old(c)][pc]
  BY <1>2, <1>3 DEF Old
<1> QED
  BY <1>1, <1>2, <1>4, SameCells DEF Simple!Reads

\* The head of the loop only adds blocks of what memory holds.
LEMMA FetchLooks ==
  ASSUME IInv, at = "head", pc \in Cell, FetchCached \/ FetchDecoded
  PROVE  Simple!Look
<1>1. pc \in Nat /\ mem \in [Cell -> Word] /\ mem' = mem /\ pc' = pc /\ at' = "exec"
  BY LastPage DEF FetchCached, FetchDecoded, Runs, Cell, IInv, ScalarsOK
<1>2. CASE FetchCached
  <2>1. insts' = inst_cache[pc] /\ done' = 0 /\ inst_cache' = inst_cache /\ pc \in DOMAIN inst_cache
    BY <1>2 DEF FetchCached, Runs
  <2>2. Len(inst_cache[pc]) \in Nat
    BY <2>1 DEF IInv, CacheOK, BlockOK
  <2>3. ASSUME NEW c \in Cell PROVE Ahead(c)' \subseteq Cached(c)
    <3>1. ASSUME c \in pc .. pc + Len(inst_cache[pc]) - 0 - 1
          PROVE  c \in pc .. pc + Len(inst_cache[pc]) - 1 /\ 0 + 1 + c - pc = c - pc + 1
      BY <1>1, <2>2, <3>1
    <3> QED
      BY <1>1, <2>1, <3>1 DEF Ahead, Cached
  <2>4. \A c : Cached(c)' = Cached(c)
    BY <2>1 DEF Cached
  <2> QED
    BY <1>1, <1>2, <2>3, <2>4, ShrinksForgets, SameCells
    DEF Shrinks, Old, FetchCached, Runs, Flushed, Simple!Look, Simple!InStay
<1>3. CASE FetchDecoded
  <2> DEFINE block == Decoded(pc)
  <2>1. insts' = block /\ done' = 0 /\ inst_cache' = [c \in DOMAIN inst_cache \cup {pc} |->
                                                     IF c = pc THEN block ELSE inst_cache[c]]
    BY <1>3 DEF FetchDecoded, Runs
  <2>2. Len(block) \in Nat /\ \A i \in 1 .. Len(block) : block[i] = mem[pc + i - 1]
    BY <1>1, DecodedOK DEF BlockOK
  <2>3. ASSUME NEW c \in pc .. pc + Len(block) - 1 PROVE block[c - pc + 1] = mem[c]
    <3>1. c - pc + 1 \in 1 .. Len(block) /\ pc + (c - pc + 1) - 1 = c
      BY <1>1, <2>2
    <3> QED
      BY <2>2, <3>1
  <2> HIDE DEF block
  <2>4. ASSUME NEW c \in Cell PROVE Ahead(c)' \subseteq {mem[c]}
    <3>1. ASSUME c \in pc .. pc + Len(block) - 0 - 1
          PROVE  c \in pc .. pc + Len(block) - 1 /\ 0 + 1 + c - pc = c - pc + 1
      BY <1>1, <2>2, <3>1
    <3> QED
      BY <1>1, <2>1, <2>3, <3>1 DEF Ahead
  <2>5. ASSUME NEW c \in Cell PROVE Cached(c)' \subseteq Cached(c) \cup {mem[c]}
    BY <2>1, <2>3 DEF Cached
  <2> QED
    BY <1>1, <1>3, <2>4, <2>5, ShrinksForgets, SameCells
    DEF Shrinks, Old, FetchDecoded, Runs, Flushed, Simple!Look, Simple!InStay
<1> QED
  BY <1>2, <1>3

\* A word of no class stands in front of the next jump of the page.
LEMMA DecodeErrorCrashes ==
  ASSUME IInv, DecodeError
  PROVE  Simple!Crash
<1>1. pc \in Cell /\ pc \in Nat /\ mem \in [Cell -> Word] /\ at = "head"
  BY LastPage DEF DecodeError, Uncached, Cell, IInv, ScalarsOK
<1>2. /\ Decoded(pc) \in Seq(Word) /\ Len(Decoded(pc)) \in Nat
      /\ Len(Decoded(pc)) = BlockEnd(pc) - pc + 1
      /\ \A i \in 1 .. Len(Decoded(pc)) : Decoded(pc)[i] = mem[pc + i - 1] /\ PageOf(pc + i - 1) = PageOf(pc)
  BY <1>1, DecodedOK DEF BlockOK
<1>3. PICK i \in 1 .. Len(Decoded(pc)) : Decoded(pc)[i] = "bad"
  BY <1>2 DEF DecodeError, Range
<1> DEFINE c == pc + i - 1
<1>4. BlockEnd(pc) \in pc .. Cells - 1 /\ Cells \in Nat
  BY <1>1, Ends, LastPage
<1>5. c \in Cell /\ c >= pc /\ PageOf(c) = PageOf(pc) /\ mem[c] = "bad"
  BY <1>1, <1>2, <1>3, <1>4 DEF Cell
<1>6. \A d \in pc .. c - 1 : mem[d] # "jump"
  <2>1. \A d \in pc .. c - 1 : d \in pc .. BlockEnd(pc) - 1
    BY <1>1, <1>2, <1>3, <1>4
  <2> QED
    BY <1>1, <2>1, Ends DEF MayJump
<1>7. Simple!Forgets
  BY KeepsShrinks, ShrinksForgets DEF DecodeError
<1>8. visited' = (IF flush_due THEN {} ELSE visited) \cup {PageOf(pc)} /\ ~flush_due' /\ at' = "raised"
      /\ UNCHANGED <<mem, pc>>
  BY DEF DecodeError, Flushed
<1> HIDE DEF c
<1> QED
  BY <1>1, <1>5, <1>6, <1>7, <1>8, SameCells DEF Simple!Crash, Simple!InStay

\* A store leaves stale words only where the stay has been.
LEMMA StoreMaps ==
  ASSUME IInv, NEW c \in Cell, NEW word \in Storable, Store(c, word)
  PROVE  Simple!Store(c, word)
<1>1. at = "exec" /\ done < Len(insts) /\ Passed /\ insts' = insts /\ pc \in Nat
  BY LastPage DEF Store, Executes, IInv, ScalarsOK
<1>2. Simple!Reads("store")
  <2>1. insts[done + 1] = "store"
    BY DEF Store, Executes
  <2> QED
    BY <2>1, ReadsHere DEF Store
<1>3. ASSUME NEW d \in Cell PROVE Cached(d)' \subseteq Cached(d) /\ Ahead(d)' \subseteq Ahead(d)
  <2>1. \A s \in DOMAIN inst_cache' : s \in DOMAIN inst_cache /\ inst_cache'[s] = inst_cache[s]
    BY DEF Store, Without
  <2> QED
    BY <1>1, <2>1, PassedAhead DEF Cached
<1>4. ASSUME NEW d \in Cell, PageOf(d) = PageOf(c), PageOf(c) \notin visited
      PROVE  Cached(d)' = {} /\ Ahead(d)' = {}
  <2>1. Ahead(d) = {}
    BY <1>1, <1>4, AheadPage DEF Ahead
  <2>2. ASSUME NEW s \in DOMAIN inst_cache', d \in s .. s + Len(inst_cache'[s]) - 1 PROVE FALSE
    <3>1. s \in DOMAIN inst_cache /\ inst_cache'[s] = inst_cache[s]
      BY <2>2 DEF Store, Without
    <3>2. PageOf(s) = PageOf(c)
      BY <1>4, <2>2, <3>1, CachedPage
    <3> QED
      BY <1>4, <2>2, <3>1, <3>2 DEF Store, Without, IInv, StoresOK
  <2> QED
    BY <1>3, <2>1, <2>2 DEF Cached
<1>5. mem' = [mem EXCEPT ![c] = word] /\ mem \in [Cell -> Word]
  BY DEF Store, IInv, ScalarsOK
<1>6. ASSUME NEW d \in Cell
      PROVE  Old(d)' \subseteq IF PageOf(d) = PageOf(c) /\ PageOf(c) \notin visited THEN {}
                               ELSE IF d = c THEN Old(d) \cup {mem[d]} ELSE Old(d)
  BY <1>3, <1>4, <1>5 DEF Old
<1> QED
  BY <1>1, <1>2, <1>5, <1>6, SameCells DEF Simple!Store, Store, Passed

\* Every step is a step of the hart, or none.
LEMMA StepMaps == IInv /\ IInv' /\ [Next]_vars => [Simple!Next]_(Simple!vars)
<1> SUFFICES ASSUME IInv, IInv', [Next]_vars PROVE Simple!Next \/ UNCHANGED Simple!vars
  OBVIOUS
<1>p. pc' \in Nat /\ pc \in 0 .. Cells /\ Cells \in Nat /\ Cells = PageLen * Pages
  BY LastPage DEF IInv, ScalarsOK, Cells
<1>o. UNCHANGED <<mem, pc, inst_cache, insts, done>> =>
        Simple!Forgets /\ [c \in Cell |-> Old(c)]' = [c \in Cell |-> Old(c)]
  BY KeepsShrinks, ShrinksForgets
<1>i. insts' = <<>> /\ done' = 0 /\ UNCHANGED <<mem, inst_cache>> => Simple!Forgets
  BY <1>p, IdleShrinks, ShrinksForgets
<1>1. CASE Start
  <2>1. CASE at = "raised"
    BY <1>1, <1>o, <2>1 DEF Start, cpu, Simple!Next, Simple!Restart
  <2>2. CASE at # "raised"
    BY <1>1, <1>o, <2>2 DEF Start, cpu, Simple!vars
  <2> QED
    BY <2>1, <2>2
<1>2. CASE Stop
  BY <1>2, <1>o DEF Stop, cpu, Simple!vars
<1>3. CASE CallRun
  <2>1. CASE running
    BY <1>3, <1>o, <2>1 DEF CallRun, Simple!Next, Simple!EndStay
  <2>2. CASE ~running
    BY <1>3, <1>o, <2>2 DEF CallRun, Simple!vars
  <2> QED
    BY <2>1, <2>2
<1>4. CASE ReturnFromRun
  BY <1>4, <1>o DEF ReturnFromRun, cpu, Simple!vars
<1>5. CASE FetchCached \/ FetchDecoded
  <2>1. at = "head" /\ pc \in Cell
    BY <1>5 DEF FetchCached, FetchDecoded, Uncached, IInv, CacheOK, BlockOK
  <2> QED
    BY <1>5, <2>1, FetchLooks DEF Simple!Next
<1>6. CASE DecodeError
  BY <1>6, DecodeErrorCrashes DEF Simple!Next
<1>7. CASE FetchFault
  <2>1. insts' = <<>> /\ done' = 0
    BY <1>7, Idle DEF FetchFault
  <2> QED
    BY <1>7, <1>i, <2>1 DEF FetchFault, Trap, Simple!Next, Simple!Interrupt, Simple!InStay
<1>8. CASE FetchError
  BY <1>8, <1>o, SameCells DEF FetchError, Flushed, Simple!Next, Simple!Crash, Simple!InStay
<1>9. CASE Operate
  <2>1. at = "exec" /\ done < Len(insts) /\ Passed /\ insts' = insts
    BY <1>9 DEF Operate, Executes
  <2>2. Simple!Reads("op") \/ Simple!Reads("alt")
    BY <1>9, ReadsHere DEF Operate, Executes
  <2>3. Shrinks
    BY <1>9, <2>1, PassedAhead DEF Operate, Shrinks, Old, Cached
  <2> QED
    BY <1>9, <2>2, <2>3, ShrinksForgets DEF Operate, Executes, Passed, Simple!Next, Simple!Operate
<1>10. ASSUME NEW c \in Cell, NEW word \in Storable, Store(c, word) PROVE Simple!Next
  BY <1>10, StoreMaps, SameCells DEF Simple!Next
<1>11. ASSUME NEW to \in Cell, Jump(to) PROVE Simple!Next
  <2>1. Simple!Reads("jump")
    BY <1>11, ReadsHere DEF Jump, Executes, MayJump
  <2>2. at = "exec" /\ done < Len(insts) /\ insts[done + 1] \in MayJump
    BY <1>11 DEF Jump, Executes
  <2>3. pc \in Cell /\ done + 1 = Len(insts) /\ Len(insts) \in Nat
    BY <2>2, LenNat, Here, Zenon
  <2>4. pc' \in 0 .. PageLen * Pages
    BY <1>11, <1>p, <2>3 DEF Jump, Cell
  <2>5. pc' .. pc' + Len(insts) - done' - 1 = {}
    BY <1>11, <1>p, <2>3 DEF Jump
  <2>6. Shrinks
    BY <1>11, <2>5 DEF Jump, Shrinks, Old, Cached, Ahead
  <2> QED
    BY <1>11, <2>1, <2>4, <2>6, ShrinksForgets DEF Jump, Executes, Simple!Next, Simple!Jump
<1>12. CASE StoreFault \/ JumpTraps
  BY <1>12, <1>i DEF StoreFault, JumpTraps, Executes, Abandoned, Trap, Simple!Next, Simple!Interrupt
<1>13. CASE ExecError
  <2>1. Simple!Reads("ebreak") \/ Simple!Reads("store")
    BY <1>13, ReadsHere DEF ExecError, Executes
  <2> QED
    BY <1>13, <1>i, <2>1 DEF ExecError, Executes, Simple!Next, Simple!Crash
<1>14. CASE Retire
  <2>1. insts' = <<>> /\ done' = 0 /\ UNCHANGED <<mem, inst_cache, visited>> /\ at = "exec" /\ at' = "head"
    BY <1>14 DEF Retire, Abandoned
  <2>2. CASE Trap
    BY <1>i, <2>1, <2>2 DEF Trap, Simple!Next, Simple!Interrupt
  <2>3. CASE UNCHANGED <<pc, flush_due>>
    <3>1. ASSUME NEW c PROVE Ahead(c)' = {} /\ Ahead(c) = {}
      <4>1. pc .. pc + Len(insts) - done - 1 = {}
        <5>1. done = Len(insts)
          BY <1>14 DEF Retire
        <5> QED
          BY <1>p, <5>1, LenNat
      <4>2. pc' .. pc' + Len(insts') - done' - 1 = {}
        BY <1>p, <2>1, NothingAhead, Zenon
      <4> QED
        BY <4>1, <4>2 DEF Ahead
    <3>2. [c \in Cell |-> Old(c)]' = [c \in Cell |-> Old(c)]
      BY <2>1, <3>1 DEF Old, Cached
    <3> QED
      BY <2>1, <2>3, <3>2 DEF Simple!vars
  <2> QED
    BY <1>14, <2>2, <2>3 DEF Retire
<1>15. CASE UNCHANGED vars
  BY <1>15, <1>o DEF vars, cpu, Simple!vars
<1> QED
  BY <1>1, <1>2, <1>3, <1>4, <1>5, <1>6, <1>7, <1>8, <1>9, <1>10, <1>11, <1>12, <1>13, <1>14, <1>15
  DEF Next, Thread

\* The interpreter of blocks is a hart that executes one instruction after the
\* other, stale and crashing only as Hart says: the property IsHart.
THEOREM Refines == Spec => IsHart
<1>1. Init => Simple!Init
  <2> SUFFICES ASSUME Init PROVE Simple!Init
    OBVIOUS
  <2>1. \A c : Ahead(c) = {}
    BY NothingAhead, Zenon DEF Init, Ahead
  <2>2. DOMAIN inst_cache = {}
    BY DEF Init
  <2>3. [c \in Cell |-> Old(c)] = [c \in Cell |-> {}]
    BY <2>1, <2>2 DEF Old, Cached
  <2> QED
    BY <2>3, SameCells DEF Init, Simple!Init
<1> QED
  BY <1>1, StepMaps, Invariant, PTL DEF Spec, IsHart, Simple!Spec

=============================================================================
