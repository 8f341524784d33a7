# Verification of pyrve

pyrve is a RISC-V RV32IMA emulator in Python that boots Linux: one hart with
M, S and U modes, Sv32 translation, a timer, a UART behind a TCP port and
memory. This directory holds TLA+ models of it, the TLC runs that check them and
TLAPS proofs. Paths below are relative to the repository's root.

## The system

| Component | State | Operations | What makes it correct |
|---|---|---|---|
| Interpreter loop (`pyrve/cpu.py` `CPU.run`) | pc, skip_step, prev_mode, budget | fetch or reuse a block, execute it, poll the timer | the same as one instruction after the other; timers are served; it returns |
| Traps and returns (`cpu.py` `_go_trap`, `inst.py` ECALL/MRET/SRET) | mode, mstatus, mepc.., sepc.. | trap entry to M or S, return | contexts survive nesting; only returns lower the mode |
| CSRs (`cpu.py` `CSR`, `util.py` `bit_container`) | 4096 cells, aliased containers | CSR instructions, attribute access | aliases agree; satp writes are noticed |
| MMU (`cpu.py` `MMU`) | pte_cache, accel_cache, pa_cache | walk, translate, read, write; SFENCE.VMA | caches agree with the tables; A and D bits |
| Decoded code (`CPU.inst_cache`) | blocks by frame | fill, clear on store | how stale code may be |
| Decoder (`decoder.py`, formats of `inst.py`) | memo | word to instruction object | the right class and immediate; unknown words are refused |
| Instructions (`inst.py`) | registers | RV32IM arithmetic, branches, jumps, LR/SC, AMOs | results; atomicity across faults |
| Loads and stores (`inst.py`, `cpu.py` `MMU.read`, `write`) | bytes | LB..SW, CBO.ZERO | memory is one array of bytes behind the page tables |
| Address space (`addrspace.py`, `emulator.py` `Memory`) | list of spaces, bytes | routed reads and writes | the access reaches its device whole |
| UART (`peripheral.py`) | two queues, event, client_id, a thread per connection | constructor, read_byte, write_byte, `_socket_handler` | order, no duplication, no lost wake-up, one current client |
| Emulator (`emulator.py`) | running flag, runner thread | start, stop | stop ends the runner |
| Debugger, RISCOF plugin, firmware and device tree | - | - | not modelled |

The CPU thread calls everything but the socket handlers. It reaches the UART
through memory accesses; UART and handler threads share the queues, the event and
`client_id`. `CSR.__setitem__` signals satp writes to `CPU.run` by a flag, the
MMU clears `CPU.inst_cache`, SFENCE.VMA clears the MMU's `pte_cache`; traps raised
in the MMU come back as Python exceptions to `CPU.run`. The hard behaviours are
nested traps against the timer, four caches over page tables and code that the guest
edits while it runs through them, instructions that fault half-way, and the
unsynchronised registration of UART clients. PROJECT.json lists the hazards with
their lines.

## Modules

| Module | Models | Runs |
|---|---|---|
| `Privilege` | trap entry and return, CSR writes, timer poll | `priv_*` |
| `PrivilegeProofs` | theorems about `Privilege` | |
| `Mmu` | walk, the three caches, SFENCE.VMA | `mmu_*` |
| `MmuProofs` | theorems about `Mmu` | |
| `Interp` | blocks, decoding ahead, their cache, the runner thread | `interp` |
| `Hart` | what `Interp` implements: one instruction at a time | `interp` |
| `InterpProofs` | theorems about `Interp` | |
| `Word` | Python integers cut to words; sign helpers | |
| `WordProofs` | theorems about `Word` | |
| `Alu` | RV32IM register instructions (over `Word`) | `insts` |
| `Decoder` | `decode` and the formats (over `Word`) | `insts` |
| `Isa` | what the manual lists: fields, immediates, meanings | `insts` |
| `Insts` | decoding and executing words (composes the three above) | `insts` |
| `InstsProofs` | theorems about `Alu`, `Decoder` and `Insts` | |
| `Accel` | accel_cache at the grain of bytes | `loadstore` |
| `AddrSpace` | spaces, routing, bytes | `loadstore` |
| `LoadStore` | loads, stores, CBO.ZERO (composes the two above) | `loadstore` |
| `FlatMemory` | what `LoadStore` implements: an array of bytes | `loadstore` |
| `LoadStoreProofs` | theorems about `LoadStore` and `AddrSpace` | |
| `Atomics` | LR/SC and AMOs with faults and retries (over `Word`) | `atomics`, `atomics_overlap` |
| `AtomicsProofs` | theorems about `Atomics` | |
| `Uart` | constructor, queues, event, connection threads | `uart_*` |
| `Channel` | what `Uart` implements in each direction: a serial line | `uart_*` |
| `UartProofs` | theorems about `Uart` | |
| `MC*` | constants for TLC | |

### Privilege

One action is one decoded block, named for its last instruction: only that one
may jump, trap on purpose or write a CSR (`MayJumpInst`), and interrupts are
polled between blocks. `n` is the length of the block. A fault in the middle
is `PageFault`, which does not count the block (`continue` in `CPU.run`).
`phase` is where `CPU.run` is: executing, at the poll (the count has passed the
threshold), or ended by an exception. mstatus and sstatus are one variable, as
in `CSR.__init__`, and so are mie/sie and mip/sip. `Land` is the test
`cached_pc == self.pc`: an instruction that leaves pc where it is, a jump to
itself included, is stepped over. The guest is arbitrary, because the code checks no
privilege: any instruction in any mode, any value of the configured sets.

Auxiliary: `mframe` and `sframe` hold what the last trap to M or S saved, until
its return or a guest write of the registers it is in.

### Mmu

The grain is the page, and a frame holds one decoded block; only words of page
tables have contents. `Walk` is `find_pte` without its cache. `Fill` is a miss of
`translate_addr_accel`: the A and D bits are set in the cached entry and the whole
entry is written back. `block` is where `CPU.run` is: at the loop head, inside
the block of a frame, or before the poll. `Fetch` is the loop head, which
flushes `accel_cache` when satp or the mode has changed, with the fetch that
follows. Stores are of two kinds: to a word of a page table (`StoreTable`), and to
anything else (`Store`).

Auxiliary: `unsynced` are the address spaces whose tables changed since their
last SFENCE.VMA; `touched` says the one-entry caches may be older than such a
change; `stale` are frames whose decoded code is older than a store; `fetched` the
frames run in the present stay, which lasts from one loop head to the next that sees another mode or satp
(or a new call of `CPU.run`).

Three facts came out of checking and proving. MRET to another mode that is followed at once by
an interrupt back is not seen by the loop head, and the caches stay: harmless for
translation, since nothing ran in between, but `CodeCoherent` has to count the
two visits as one stay. And a cached entry of an address space that owes an
SFENCE.VMA is written back whole when a bit is missing, so it can undo a store of
the guest; `NoStaleWriteBack` holds for the others. Last, a store whose own page-table
entry is the word it stores to: the translation writes its D bit first and the
store comes on top, so the two are compared one by one (`TablesBecome`,
`OnlyGains`); the first version of the model took them for one, and the proof failed.

### Interp and Hart

Memory is cells of one instruction each, because only the class of an instruction
decides what the interpreter does with it: whether it may end a block, store,
trap, raise. `FetchDecoded` decodes to the end of the page or the first
`MayJumpInst`; `DecodeError` is a word of no class anywhere in that stretch.
`Store` to the page of the last store may hit `accel_cache`, and then leaves
decoded code alone; any other drops every block of its page, but not `insts`, the
list `CPU.run` is iterating over. A trap may change the mode, and change it back
before the loop head looks (`Trap`). `Start`, `Stop` and `CallRun` are
`emulator.Emulator`; a second thread on the same CPU is where the model ends.

`Hart` has no blocks and no cache. It reads the next instruction from memory, or
executes one of the `old` words of the cell. `Interp` implements it with `old` as
the words of `inst_cache` and of the rest of `insts` that memory no longer holds.
What the refinement says is therefore how stale code may be: only in pages the
present stay has fetched from when the store came, and only until a store from a stay
that has not; and that nothing else distinguishes the two but the crash at an
undecodable word ahead of pc, which `Hart` states. This is the same stay as
in `Mmu`, where `CodeCoherent` says it across address spaces.

### Decoder, Alu, Isa and Insts

A word is the set of the positions of its ones, `bitcut` the number between two
positions. `ToReg` is the mask of `REGS.__setitem__`. `msb_extend` and `u2s` are
translated with the operations they use on unbounded integers. `/` followed
by `math.trunc` is exact for 32-bit
operands (the quotient of two numbers below 2^32 is at least 2^-32, relatively,
from the next integer, and a double keeps 53 bits), so `Trunc` is the quotient
rounded to zero.

`Isa` is written from the manual's tables and not from the code: a row has the
fixed fields of the word and the immediate bit each other bit of the word is;
`Means` says what an operation leaves, as an equation or bit by bit.
`Disassembles` and `ExecutesAsListed` compare the two. `Insts` fetches any of its
words at any of its places and executes it as `CPU.run` does, with the self-jump
rule in `Land`. Instructions with effects elsewhere (`Elsewhere`) belong to the
other modules. The tables of both are sets of pairs made functions (`Table`).

### Accel, AddrSpace, LoadStore and FlatMemory

The effective address is `regs[rs1] + imm`, not cut to 32 bits. `Hit` is
`prev_addr and addr ^ prev_addr < 0xFFF` in arithmetic: the same page, unless all
offset bits differ, or opposite signs. `Route` is the first space that contains the
first byte; a memory's slice ends with the memory (fewer bytes are read, ValueError
when written), and a device gets bytes one by one. What a UART register answers is
open here.

`FlatMemory` is what a program may count on: bytes at physical addresses, and a
load's value by its bytes and its sign, a store's bytes, the order in which a device
sees them. An access inside a page by an address that is a word reaches its bytes one
by one through the tables in force (`Promised`). Of the others, across a page or past
the top of the words, it says what the code does: they reach the bytes side by side
from the first one on, in that byte's memory, shorter where it ends (a load
takes its sign from the last byte there is, a store raises ValueError and writes
nothing). An unaligned CBO.ZERO is one of these. The constants are assumed to be as in
`emulator.py`: spaces do not overlap, memories are of whole pages. With an address
below 0 (`NoneNegative` excludes it) the refinement is false: the next access
at an address above passes the hit test by its sign, and takes the wrong frame.

### Atomics

Registers, a word of memory per page, and what the page tables allow of it. An
instruction that faults goes to `phase = "fault"`; the guest's handler maps the
page (other code may store meanwhile) and the instruction is issued again, or is
given up. Traps do not touch the reservation, in the model as in the code. The
reservation is the sequence of decimal digits the code builds: the address register
and the word, with nothing between them, so that two reservations may have one string.

### Uart and Channel

A step is one operation on shared state, by the CPU thread, a handler thread or a
client. `client_id += 1` is a load and a store; queue and event operations hold a
lock and are atomic. `Wait` ends at once when the event is set; otherwise a set
wakes every waiter, or two seconds pass (`WaitTimeout`). A send that times out has
lost its character; a peer that is gone ends the thread (`Die`). The model starts
inside the constructor: the server accepts connections before `client_id` is
assigned (`cpu = "building"`), and a handler that loads it then ends with
AttributeError (`NoId`).

The first `Writes` characters of the guest are numbered, so that order and loss can be told.
`Spec` ends there: what no state or step may do shows after finitely many
characters, and the proofs are for every `Writes`. For what must happen, `FairSpec`
lets the guest go on for ever (`WriteOn`) with characters that are not told apart
and that the auxiliary `received` leaves out. `uart_output` checks all its properties under
`FairSpec`; those that concern order say nothing of a character that is not told apart.
`sent` and `loaded` are reset once they are not read again.

`Channel` is a serial line without threads, queues or handlers: the set of characters
sent, the set under way, and what each receiver got. A character is got once, after
those of its sender that the receiver got before; it may be lost only while as
many others are under way as the line holds, or, on a leaky line, one at a
time. `Uart` implements it twice. Output: from the CPU to the clients, leaky, because a
send that fails loses the character in hand; under way is what is in `write_queue`
or in a hand. Input: from the clients to the guest, not leaky; under way is what is in
`read_queue`, a chunk or a socket, and what an ended handler leaves in its socket stays
there.

## Runs

| Run | Distinct states | Shows |
|---|---|---|
| `priv_frames` | 2,520,000 | saved contexts survive nesting, handlers are masked, MRET restores, only returns lower the mode |
| `priv_served` | 570,000 | armed timers are served (liveness), timer traps are due, modes stay known |
| `mmu_tlb` | 634,000 | one-entry caches agree with the tables; dirty bits; write-back |
| `mmu_asid` | 1,041,000 | the same for two address spaces; SFENCE.VMA by ASID; decoded code after stores |
| `loadstore` | 21,000 | `LoadStore` implements `FlatMemory` |
| `insts` | 186,000 | words decode to what the listing says, and do it |
| `interp` | 144,000 | `Interp` implements `Hart`; stop() ends the thread (liveness) |
| `atomics` | 755,000 | AMOs take effect once; SC.W succeeds while the reserved word is unchanged, and only on what the reservation's digits tell |
| `uart_output` | 337,000 | output in order and once, as `Channel` says; no lost wake-up; output drains, superseded handlers end (liveness, a guest that never stops) |
| `uart_input` | 934,000 | input in order and once, as `Channel` says; one current connection |

Two runs show the code and a document disagree (each is a finding in
PROJECT.json):

| Run | What happens |
|---|---|
| `mmu_sfence` | after SFENCE.VMA a load still uses the old mapping |
| `atomics_overlap` | an AMO with rd = rs1 or rd = rs2 on a read-only page is retried with the wrong operand |

Other disagreements are visible in the models, are excluded by a condition that a
property or a constant states, and have no run of their own:

- LR.W with rd = rs1 reserves the word it read for an address, and the SC.W to the
  reserved address fails (`LrKeepsAddress`; with `LrRegs = {<<1, 1>>}` TLC finds
  `ScSucceedsWhenUntouched` violated);
- two reservations may have one string of digits: after LR.W at 65536 with the word 44 an
  SC.W at 655364 with the word 4 succeeds. In the run `atomics` the addresses 1 and
  11 do so, which is why `ScSucceedsOnKey` excepts addresses of different lengths;
- after an access at an address below 0, the next one at an address above passes the hit test of
  `accel_cache` by its sign, and goes to the first one's frame (`NoneNegative`;
  with `Effective = {<<0, -4>>, <<8, 0>>}` TLC finds `FlatMemory` violated);
- a jump to itself falls through (`Land`; `ExecutesAsListed` leaves it out);
- a guest that writes MPP = 2 ends the emulator with its next ECALL in that mode
  (`EcallCrash`; `KnownMode` is for the others);
- FENCE.I does nothing, and stale code stays in the pages `CodeCoherent` and `Hart`
  allow, although the device tree names zifencei;
- a word that does not decode ends the emulator although an earlier instruction of
  its block would have trapped, jumped by a fault, or overwritten it (`Hart`'s `Crash`);
- a misaligned access across pages takes the first page's frame for all of it, and
  CBO.ZERO zeroes a page from the address on instead of the block the address is in
  (`FlatMemory` says so of accesses that are not `Promised`);
- ECALL, EBREAK, SRET, MRET and WFI with rd or rs1, SFENCE.VMA and CBO.ZERO with
  rd, and LR.W with rs2 other than zero are reserved words; the decoder takes them, and
  `Isa` lists them with the instruction;
- blocks that fault use no budget: `stop()` does not end the thread of a guest that faults
  for ever (`StopEnds` leaves it out);
- a superseded UART handler whose sends time out stays in its write loop while the
  guest goes on writing (`SupersededRetires` leaves it out);
- `start()` after `stop()` may put a second thread on the CPU, and after an
  exception it does nothing (`Start`);
- SC.W before the first LR.W raises KeyError (`SCw`, phase `crashed`).

### Bounds

*Privilege.* pc stays at or below `MaxPc` (a step that would pass it is not
taken), the clock stops at `MaxTime`, and the poll threshold is 0 or 1 instead of
2048. Two addresses suffice to tell a saved pc from the current one and a
delegated vector from a machine one; blocks of one and two instructions step over
the threshold as well as onto it. `priv_frames` has no jumps and a clock that stands
still at a due timer; `priv_served` has one status word, no page faults and no
writes of mepc. `CHECK_DEADLOCK FALSE` because a guest at `MaxPc` may have no step, and
because the emulator really ends in `EcallCrash`.

*Mmu.* Four frames, two levels with two entries each, at most three pages: a
mapped page, a page that maps the table, a page in a superpage. Remapping,
revoking and protecting one page covers what an edit can do. `mmu_asid` has no loads and no
read-only pages, but two roots.

*Interp.* Two pages of two cells, three programs that store into code, jump and
crash. Two cells let a block start in the middle of another; two pages let a store
go to the page being run and to another one; the words the guest stores are one that
runs and one that does not decode. The budget is two: a block may use it up exactly or
go below. Traps go to a page that can be fetched and to one that cannot.
`CHECK_DEADLOCK FALSE` because two threads end the model.

*Insts.* Words have 32 bits, registers four: all pairs of operands, both extreme
numbers, every shift. There are x0, x1 and x2, so that rd may be x0, a source,
or neither. The words are, of each row of the listing, the one with every free bit set,
with none, and six in between; for one row of each format every single free bit; and
thirteen words of no row, one per kind of test in `decode`. `CHECK_DEADLOCK FALSE`
because a word that does not decode ends the run.

*LoadStore.* Words of four bits, bytes of one, pages of four bytes; the emulator's list
of spaces with its gaps, and without them. Two page tables, a permutation of the pages
and one that maps two pages to a frame; satp off as the third. Addresses are zero (with
a negative immediate), the first and the last byte of a page, whose offsets differ in
every bit and from the second of which words cross into the next page, and one past the
top. `CHECK_DEADLOCK FALSE` because exceptions end the emulator.

*Atomics.* Two words of memory and three registers besides x0. In `atomics` words have four bits,
and the addresses 1 and 11 with the words 10 and 0 (or 11 and 1) have one string. The words
that come up are 0, 1, 10 and 11, which all AMOs but the addition keep among
them; each differs on them from the others, and two are negative. With the addition all
sixteen words come up, too many states: its turn is in `atomics_overlap`, where words have
two bits, and in the theorem `AmoOnce`. `CHECK_DEADLOCK FALSE` because KeyError ends the emulator.

*Uart.* Two connections. In `uart_output` a queue of one, two numbered characters and any
number of others after them: one character in a hand and one in the queue, or one in
each hand, are enough to overtake or to be sent twice, and the queue can be full. It hands out in
order, so more room adds nothing to whether a character leaves it. In `uart_input` a
queue of one and two characters each; the guest reads the data register there (`Reads`).
Symmetry in the clients is used only there, where no liveness is checked. `overlap` says that two registrations overlapped: then both may stay,
and share the output, so `AtMostOneServes` is stated for the other histories.

### Fairness

`Privilege`: the interpreter is a loop in one thread, so the poll is weakly fair.
That a block completes now and then is strong fairness and an assumption on the
guest: one whose every block faults never reaches the poll, as the code stands.
`Uart`: every handler is a thread and its time-outs expire, so each is weakly
fair, and so is the CPU's way out of `write_byte`. Nothing is assumed of the guest
or the clients, and the guest may write for ever. `SupersededRetires` therefore
excludes what the code does not exclude: a handler that for ever has its sends time out, or
finds the queue emptied by another, in a loop that counts only what was sent.
`Interp`: the runner is one thread, so its steps are weakly fair, and neither `Start`
nor `Stop` is. Nothing is assumed of the guest: that blocks fault finitely often is a
condition in `StopEnds` itself, because a block that faults is not counted, and `CPU.run`
does not return to look at the flag while every block does.

## Proofs

`PrivilegeProofs` proves about `Privilege`, for every value of the constants
(`ConstantsType` is the only assumption):

- `TypeCorrect`: `Spec => []TypeOK`, in three parts (trap state, flow,
  configuration), each of which a lemma carries over the actions that disturb it.
- `FramesHold`: `Spec => []FramesOK`, the conjunction of `MachineFrameIntact`,
  `SupervisorFrameIntact` and `HandlersMasked`. None of the three is needed for
  another level: the invariant splits by level (`MFrameOK`, `SFrameOK`), each over
  its own fields (`MFields`, `SFields`) of the shared status word, and the
  lemma `FieldsKept` carries one over every step of the other. Within a level the
  three belong together: that a handler is masked is what keeps its context from
  the timer.
- `MachineFrame`, `SupervisorFrame`, `Masked`: its parts, the properties of
  `priv_frames`.
- `TimerSpares`, `MretRestores`: action properties, from the invariant.
- `TimerDue`: an action property that needs no invariant beyond types.
- `ReturnsLower`: only returns lower the mode from U, S or M; an action property
  of every guest.
- `KnownModes`, `NeverCrashes`: under `LegalGuest` (no status value the guest
  writes has MPP = 2) the mode and MPP are among the three, and no ECALL ends the
  emulator. The first is the inductive invariant of the second.

`InterpProofs` proves about `Interp`, for every page length, number of pages,
budget, program and set of stored words (`InterpConstants` is the only assumption):

- `Invariant`: `Spec => []IInv`, in four parts. `ScalarsOK` has the types.
  `CacheOK` says what a decoded block is: within its page, with a jump only at its
  end. `RunOK` ties the block being run to `pc`, which is `done` cells from its start,
  with no flush due and its page visited. `StoresOK` is why a store that hits
  `accel_cache` may leave decoded code alone: there are blocks of its page only if
  the stay has visited it. Emptying `accel_cache` and beginning a stay in the same
  step of the loop head is what keeps this part (`FlushOK`).
- That decoding ends (`Ends`, `DecodedOK`) rests on there being a least end of block
  (`Least`, from the well-founded order of finite sets, not by induction).
- `InterpTypeCorrect`: `Spec => []TypeOK`; the budget is overrun by less than a page.
- `Refines`: `Spec => IsHart`. `StepMaps` takes each action to a step of `Hart` or to
  none: the head of the loop to `Look` or `Crash`, an instruction to the one read
  (`ReadsHere`), and a store to `Store`, which is where `StoresOK` and the page
  of the words ahead are needed (`StoreMaps`).

`MmuProofs` proves about `Mmu`, for all sets of frames, pages, roots, address spaces and
guest edits (`MmuConstants`: pages are frames, a superpage's frames exist, and the
pointers the guest stores lead to words of tables):

- `MmuInvariant`: `Spec => []IInv`, in parts: `TablesOK` (a walk from any root stays in
  the tables), `HeadOK` (a block runs in the mode and satp the loop head saw),
  `CacheOK` (only leaves are cached, and in an address space that owes no SFENCE.VMA as
  a walk finds them, but for A and D), `AccelOK` (what is in a one-entry cache fits
  the tables, once the loop head has run and no table has changed), `CodeOK` (the frame of
  the store cache, if its code is decoded, was run in this stay). `CodeOK` is
  why a store that hits may leave decoded code alone, and `AccelOK` needs `CacheOK`,
  because the one-entry caches are filled from `pte_cache`.
- `CachedCurrent`, `AccelAgrees`, `AccelHasBits`, `CodeFresh`: the properties of
  `mmu_tlb` and `mmu_asid`.
- `WriteBackSafe`: `NoStaleWriteBack`, if the guest stores no entry that has D but not W
  (`DirtyIsWritable`). One that has (a page shared for copying on write) may be
  written back from the cache without what was set in memory since.

`UartProofs` proves about `Uart`, for every number of connections, queue size and
number of characters (`UartConstants`: finitely many connections, queues hold at
least one):

- `UartInvariant`: `Spec => []IInv`: `ThreadsOK` (types, and what a handler holds at
  each of its steps), `OutOK` (what a client has received, what its handler holds and the
  queue, in this order, are one increasing chain, and no two handlers hold the same),
  `TurnOK` (what is received is queued before a handler receives again),
  `InOK` (the same from the guest back to the socket, for each client), `IdsOK` (numbers
  never exceed the registrations), `ApartOK` (without overlap numbers differ, and none
  is above `client_id`), `WakeOK` (a lone handler about to wait over a character
  finds the event set).
- `OutputInOrder`, `InputInOrder`, `OneCurrent`, `OneServes`, `WakeupNotLost`:
  the safety invariants of `uart_output` and `uart_input`.
- `OutputLine`, `InputLine`: `Uart` implements `Channel` in each direction. Each
  step of a handler is a step of the line or none (`OutputMaps`, `InputMaps`): what moves from
  queue to hand, or from socket to chunk to queue, stays under way (for `Recv` that
  needs `TurnOK`), and a full queue is as many characters under way, because a chain
  repeats none (`Fills`).

`WordProofs` proves `BitwiseOperations`: `And`, `Or` and `Xor` of two integers are words
with the bits their names say, for every XLEN. The provers know no law of
exponentiation: `XlenType` states the one that is needed (2^(i+1) = 2 * 2^i up to XLEN). The
sum over a set behind `Bitwise` is defined by recursion over finite
sets; that the recursion has a solution, and each step of the argument over
bits, is shown from a least counterexample, because the library's
induction theorems are out of reach (below). For decoding it adds that words of 32 bits are told apart by
their bits (`ToldByBits`).

`AtomicsProofs` proves about `Atomics`, for every word length, set of addresses,
registers, values and AMOs:

- `AtomicsInvariant`: `TypeOK`, and of a pending fault, that the registers
  outside the instruction's destination are those it was issued with.
- `AmoOnce`: if no destination of an AMO is one of its operands (`KeepsOperands`), it
  takes effect once, with the value `AmoLeaves` describes by bits and signs
  (`AmoRight`, over `BitwiseOperations`). Without the condition it is false: that is
  the run `atomics_overlap`.
- `ReservationKept`: the reservation is the string of address and word of the last LR.W,
  through faults, AMOs and other stores, if LR.W does not overwrite its address
  (`LrKeepsAddress`).
- `ScSucceeds`: an SC.W to that address succeeds while the word is the one LR.W returned.
- `ScNeedsReservation`: and no other does, unless its address and that of the LR.W have
  different numbers of digits (`ScSucceedsOnKey`; the exception is needed, as the string
  of 1 and the word 10 shows). This rests on decimal digits telling numbers apart
  (`DigitsTell`, again by a least counterexample) and on where two concatenated
  strings of digits divide (`KeyTells`).

`InstsProofs` proves about `Alu`, `Decoder` and `Insts`, for every program and
every word length that is a power of two (`AluConstants`: a shift amount taken of a
number and of the word it is kept as must agree):

- `ArithmeticAsListed`, `ImmediatesAsListed`: each operation on each pair of words, or on a
  word and an integer, leaves what `Means` says: sums, differences and low products up
  to a multiple of 2^XLEN; shifts bit by bit (`LeftRight`, `RightRight`); high products from
  one floor division (`HighRight`); quotients and remainders by `Truncates`, with zero
  divisors and the one overflow apart.
- `InstsTypeCorrect`: that what decode makes of a word is a class the listing has, from the
  tables (`DecodedClass`, `DecodedListed`).
- `DisassemblesRight`: `Disassembles`, for every word of 32 bits: decode refuses it if
  no row of the listing has it, and otherwise gives the class of a row that has it, with
  that row's immediate. A field of a word is a number told by its bits (`Field`,
  `ToldByBits`), a format joins fields to an immediate (`CarriedI` to `CarriedJ`), a row lists
  the words whose fields have its values (`ListsRow`), and no two rows have a name
  (`NamesApart`). From what the tables know of a word its row follows (`DecodedTells`), and from
  a row what the tables know (`ListedDecoded`).
- `ExecutesRight`: `ExecutesAsListed`. The invariant adds to the types that the instruction is
  one of a word of the program and pc where it was fetched. Of pc it assumes that it is a word
  (`WordPlaces`; the code does not cut pc, which only JALR would notice), and of SLTI that a
  word can hold its immediate. That is so in words of at least 12 bits
  (`ShortWhenWide`), and `MCInsts` states it of its own, which are shorter.

`LoadStoreProofs` proves about `LoadStore`, for every length of word and byte, page
size, list of spaces, page table, address and value:

- `LoadStoreTypeCorrect`: `Spec => []TypeOK`, through misaligned words, slices cut
  off by the end of a memory, and any exception.
- `Implements`: `LoadStore` implements `FlatMemory`, if no address the guest computes is
  below zero (`NoneNegative`; with one it is false). The invariant says of
  each one-entry cache that it holds a translation of `map` (`CacheInv`), of an
  address not below zero (`CachePositive`); that a hit is then in the page of the
  address needed (`AccelCurrent`) includes addresses above the last word, which the code does not
  cut either (`WrappedPage`). Per access: the bytes are side by side (`InsidePage`) and in
  the memory of the first, which is the only space that has it (`Routing`), all of them inside a
  page (`RoomInPage`, from whole pages), and as far as the memory goes otherwise
  (`SpotRight`). That a load's value shows its bytes and their sign (`GetShows`) rests on
  sums over a range taken one by one (`SumOfRange`) and on the digits of such a sum
  (`Digits`, by least counterexample).

Every property of a passing run that is not liveness is proved. Only model-checked: all
liveness (`StopEnds`, `OutputDrains`, `SupersededRetires`, the timers served), which with
ENABLED is out of the prover's reach. The library's induction theorems take an
operator as a parameter, which the installed provers cannot instantiate; the
recursions that had to be reasoned about were done by least counterexample.

## Not modelled

The debugger (`CPU.run(1)` in a loop, which is `Interp` with a budget of 1, and
predicates on `regs.pc`, which does not exist), CSRs that hold data nobody
reads, the layout of `bit_container`, and the software in `lib/`. The RISCOF target is left out: `cof.py` builds
`Memory()` before the class `Ctrl` it needs exists, its `dump` would append bytes to a
`memoryview`, and `main` loads no program; `riscof_pyrve.py` makes makefiles and starts
processes. `pa_cache` memoises a pure function of its key. The permission
bits R, X and U are not checked by the code, and so are not part of a page-table entry in
`Mmu` beyond the kind of entry and W. What telnet sends when it connects, and what two
interpreter threads do to one CPU, is not followed.

One more difference from the manual is visible in the source and not in a run: an
AMO or SC.W to an unmapped page reports a load page fault, because it loads
first.

## Plan

1. Done: `Privilege` with proofs, `Mmu`, `Word`, `Alu`, `Atomics`, `Uart`; then `Decoder`,
   `Insts`, `AddrSpace`, `LoadStore`, `Interp`, and the abstract `FlatMemory` and `Hart`.
2. Proofs, done: `Privilege`, `Interp`, `Mmu`, `Uart`, `Word`, `Atomics`,
   `Insts`, `LoadStore`.
3. Abstract specifications, done: `Hart`, `FlatMemory`, `Channel`. Not written: a translation
   without caches that `Mmu` implements for a guest that keeps its tables synchronised
   (`CachedCurrent` and `AccelAgrees` are its two halves).
