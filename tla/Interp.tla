------------------------------- MODULE Interp -------------------------------
(***************************************************************************)
(* CPU.run as an interpreter of blocks: decoding ahead to the end of a     *)
(* page or a possible jump, the cache of decoded blocks and what stores do *)
(* to it, and the thread of emulator.Emulator that calls run over and over *)
(* (util.run_forever and, with a budget of 1, dbg.Dbg do so as well).      *)
(*                                                                         *)
(* Memory is cells of one instruction; a cell past the last stands for any *)
(* page that cannot be fetched from. What an instruction computes does not *)
(* matter, only its class; where jumps go and what stores write is open.   *)
(* Privilege has the traps and the poll, Mmu the translations.             *)
(***************************************************************************)
EXTENDS Integers, Sequences, Functions

CONSTANTS
  PageLen, Pages,   \* 1024 in the code, and the pages that hold code
  Programs,         \* what memory may hold at first
  Storable,         \* what the guest stores
  Vectors,          \* where traps go; stvec and mtvec may hold what cannot be fetched
  Budget            \* the step of a call of run, 1000000 in the code

Cells == PageLen * Pages
Cell == 0 .. Cells - 1
PageOf(c) == c \div PageLen

\* "op" and "alt": any that fall through; "store": any that access memory.
\* "jump": the MayJumpInst classes. "ebreak": EBREAK, whose exec is not
\* implemented. "bad": words of no class.
MayJump == {"jump"}
Word == {"op", "alt", "store", "ebreak", "bad"} \cup MayJump

ASSUME InterpConstants ==
  /\ PageLen \in Nat \ {0} /\ Pages \in Nat \ {0} /\ Budget \in Nat \ {0}
  /\ Programs \subseteq [Cell -> Word] /\ Programs # {}
  /\ Storable \subseteq Word /\ Vectors \subseteq 0 .. Cells

VARIABLES
  mem, pc,
  inst_cache,       \* decoded blocks, by the cell they start at
  insts, done,      \* the block being run, and how much of it has been
  step,             \* left of the budget
  flush_due,        \* _csr_satp_changed or prev_mode != mode
  write_page,       \* the page of accel_cache[1], or -1
  visited,          \* pages fetched from since accel_cache was last emptied
  running,          \* Emulator.running
  at                \* where its thread is: none, loop, head, exec, raised, two threads

cpu == <<mem, pc, inst_cache, insts, done, step, flush_due, write_page, visited>>
vars == <<cpu, running, at>>

Init ==
  /\ mem \in Programs /\ pc = 0
  /\ inst_cache = <<>> /\ insts = <<>> /\ done = 0 /\ step = 0
  /\ flush_due = TRUE /\ write_page = -1 /\ visited = {}
  /\ running = FALSE /\ at = "none"

(***************************************************************************)
(* Emulator. start() does not wait for the thread that stop() told to end: *)
(* called before it has, it starts a second one on the same CPU, and the   *)
(* model ends there.                                                       *)
(***************************************************************************)

Start ==
  /\ ~running /\ running' = TRUE
  /\ at' = IF at \in {"none", "raised"} THEN "loop" ELSE "two threads"
  /\ UNCHANGED cpu

Stop == running /\ at # "two threads" /\ running' = FALSE /\ UNCHANGED <<cpu, at>>

\* Mutant: the flag is looked at once.
CallRunAnyway ==
  /\ at = "loop" /\ at' = "head" /\ step' = Budget /\ flush_due' = TRUE
  /\ UNCHANGED <<mem, pc, inst_cache, insts, done, write_page, visited, running>>

\* while self.running: run(step), which starts with prev_mode = -1.
CallRun ==
  /\ at = "loop"
  /\ IF running THEN at' = "head" /\ step' = Budget /\ flush_due' = TRUE
                ELSE at' = "none" /\ UNCHANGED <<step, flush_due>>
  /\ UNCHANGED <<mem, pc, inst_cache, insts, done, write_page, visited, running>>

ReturnFromRun ==
  /\ at = "head" /\ step <= 0 /\ at' = "loop"
  /\ UNCHANGED <<cpu, running>>

(***************************************************************************)
(* The head of the loop.                                                   *)
(***************************************************************************)

\* The last cell decoded from c on: a jump, or the last of the page.
BlockEnd(c) ==
  CHOOSE e \in c .. Cells - 1 :
    /\ mem[e] \in MayJump \/ PageOf(e + 1) # PageOf(c)
    /\ \A d \in c .. e - 1 : mem[d] \notin MayJump /\ PageOf(d + 1) = PageOf(c)

\* Mutant: decoding goes on past the end of the page.
DecodedOn(c) == [i \in 1 .. Cells - c |-> mem[c + i - 1]]

Decoded(c) == [i \in 1 .. BlockEnd(c) - c + 1 |-> mem[c + i - 1]]

Flushed == /\ flush_due' = FALSE
           /\ write_page' = IF flush_due THEN -1 ELSE write_page

Runs(block) ==
  /\ insts' = block /\ done' = 0 /\ at' = "exec"
  /\ visited' = (IF flush_due THEN {} ELSE visited) \cup {PageOf(pc)}
  /\ Flushed /\ UNCHANGED <<mem, pc, step, running>>

FetchCached ==
  /\ at = "head" /\ step > 0 /\ pc \in DOMAIN inst_cache
  /\ Runs(inst_cache[pc]) /\ UNCHANGED inst_cache

Uncached == at = "head" /\ step > 0 /\ pc \in Cell \ DOMAIN inst_cache

FetchDecoded ==
  /\ Uncached /\ "bad" \notin Range(Decoded(pc))
  /\ inst_cache' = [c \in DOMAIN inst_cache \cup {pc} |->
                      IF c = pc THEN Decoded(pc) ELSE inst_cache[c]]
  /\ Runs(Decoded(pc))

\* RuntimeError out of run, before any instruction of the block is executed.
DecodeError ==
  /\ Uncached /\ "bad" \in Range(Decoded(pc))
  /\ at' = "raised" /\ visited' = (IF flush_due THEN {} ELSE visited) \cup {PageOf(pc)}
  /\ Flushed /\ UNCHANGED <<mem, pc, inst_cache, insts, done, step, running>>

\* A trap may change the mode, or change it back.
Trap == pc' \in Vectors /\ flush_due' \in BOOLEAN

FetchFault ==
  /\ at = "head" /\ step > 0 /\ pc \notin Cell
  /\ Trap
  /\ write_page' = IF flush_due THEN -1 ELSE write_page
  /\ visited' = IF flush_due THEN {} ELSE visited
  /\ UNCHANGED <<mem, inst_cache, insts, done, step, running, at>>

\* Without page tables: InvalidAddress, from no memory to decode.
FetchError ==
  /\ at = "head" /\ step > 0 /\ pc \notin Cell /\ at' = "raised"
  /\ visited' = (IF flush_due THEN {} ELSE visited)
  /\ Flushed /\ UNCHANGED <<mem, pc, inst_cache, insts, done, step, running>>

(***************************************************************************)
(* The instructions of the block.                                          *)
(***************************************************************************)

Executes(class) == at = "exec" /\ done < Len(insts) /\ insts[done + 1] \in class

Passed == pc' = pc + 1 /\ done' = done + 1

\* The `continue' of GOTRAP and PageFaultException: the block is not counted.
Abandoned == insts' = <<>> /\ done' = 0 /\ at' = "head"

Operate ==
  /\ Executes({"op", "alt"}) /\ Passed
  /\ UNCHANGED <<mem, inst_cache, insts, step, flush_due, write_page, visited, running, at>>

\* Mutant: only the block that starts at the cell is dropped.
WithoutStart(c) == [d \in DOMAIN inst_cache \ {c} |-> inst_cache[d]]

\* The decoded blocks of the cell's page are dropped.
Without(c) == [d \in {b \in DOMAIN inst_cache : PageOf(b) # PageOf(c)} |-> inst_cache[d]]

\* A store that hits accel_cache drops nothing; whether one to the same page
\* hits depends on the offsets.
Store(c, word) ==
  /\ Executes({"store"}) /\ Passed
  /\ mem' = [mem EXCEPT ![c] = word]
  /\ \/ write_page = PageOf(c) /\ UNCHANGED <<write_page, inst_cache>>
     \/ write_page' = PageOf(c) /\ inst_cache' = Without(c)
  /\ UNCHANGED <<insts, step, flush_due, visited, running, at>>

StoreFault ==
  /\ Executes({"store"}) /\ Trap /\ Abandoned
  /\ UNCHANGED <<mem, inst_cache, step, write_page, visited, running>>

\* A jump to itself is taken for none. A CSR write or a return may change
\* the mode or satp.
Jump(to) ==
  /\ Executes(MayJump) /\ pc' = (IF to = pc THEN pc + 1 ELSE to) /\ done' = done + 1
  /\ flush_due' \in BOOLEAN
  /\ UNCHANGED <<mem, inst_cache, insts, step, write_page, visited, running, at>>

\* CSR accesses that are refused. (ECALL returns from exec: it is a Jump to a
\* vector, and counted.)
JumpTraps ==
  /\ Executes(MayJump) /\ Trap /\ Abandoned
  /\ UNCHANGED <<mem, inst_cache, step, write_page, visited, running>>

\* NotImplementedError; InvalidAddress or ValueError of an access to memory.
ExecError ==
  /\ Executes({"ebreak", "store"}) /\ at' = "raised" /\ insts' = <<>> /\ done' = 0
  /\ UNCHANGED <<mem, pc, inst_cache, step, flush_due, write_page, visited, running>>

\* The block counts as a whole; the poll may interrupt.
Retire ==
  /\ at = "exec" /\ done = Len(insts) /\ Abandoned
  /\ step' = step - Len(insts)
  /\ \/ UNCHANGED <<pc, flush_due>>
     \/ Trap
  /\ UNCHANGED <<mem, inst_cache, write_page, visited, running>>

Thread ==
  \/ CallRun \/ ReturnFromRun
  \/ FetchCached \/ FetchDecoded \/ DecodeError \/ FetchFault \/ FetchError
  \/ Operate \/ StoreFault \/ JumpTraps \/ ExecError \/ Retire
  \/ \E c \in Cell : Jump(c) \/ \E word \in Storable : Store(c, word)

Next == Start \/ Stop \/ Thread

Spec == Init /\ [][Next]_vars

\* The thread is scheduled. Nothing is assumed of the guest.
FairSpec == Spec /\ WF_vars(Thread)

-----------------------------------------------------------------------------

\* The type invariant; blocks are never empty and stay within a page.
TypeOK ==
  /\ mem \in [Cell -> Word] /\ pc \in 0 .. Cells
  /\ \A c \in DOMAIN inst_cache :
       inst_cache[c] # <<>> /\ PageOf(c) = PageOf(c + Len(inst_cache[c]) - 1)
  /\ done \in 0 .. Len(insts) /\ step \in 1 - PageLen .. Budget
  /\ write_page \in -1 .. Pages - 1 /\ visited \subseteq 0 .. Pages - 1
  /\ at \in {"none", "loop", "head", "exec", "raised", "two threads"}

\* What the blocks of the cache hold of cell c, and what insts does.
Cached(c) ==
  {inst_cache[s][c - s + 1] :
     s \in {t \in DOMAIN inst_cache : c \in t .. t + Len(inst_cache[t]) - 1}}
Ahead(c) ==
  IF c \in pc .. pc + Len(insts) - done - 1 THEN {insts[done + 1 + c - pc]} ELSE {}

\* Decoded words of the cell that are no longer in memory.
Old(c) == (Cached(c) \cup Ahead(c)) \ {mem[c]}

Simple == INSTANCE Hart WITH
  old <- [c \in Cell |-> Old(c)],
  switched <- flush_due,
  status <- IF at = "raised" THEN "crashed" ELSE "on"

\* The block interpreter is a hart that executes one instruction at a time
\* from memory, except for words it has executed around before they were
\* overwritten, and except that it stops at an undecodable word some way ahead.
IsHart == Simple!Spec

Faults == FetchFault \/ StoreFault \/ JumpTraps

\* stop() ends the thread (emulator.py:45 prints "stoped"), unless start() is
\* called first: blocks in the cache, jumps, budgets and interrupts do not keep
\* run from returning to the loop that looks at the flag. Blocks that fault do,
\* since none of them uses the budget: a guest that faults for ever, on a trap
\* vector that cannot be fetched for one, is not stopped.
StopEnds ==
  \/ []<><<Faults>>_vars
  \/ ~running ~> at \in {"none", "raised"} \/ running

=============================================================================
