-------------------------------- MODULE Mmu --------------------------------
(***************************************************************************)
(* Sv32 translation and the caches in front of it: MMU.pte_cache (entries  *)
(* by ASID and page), MMU.accel_cache (the last page of each kind of       *)
(* access), CPU.inst_cache (decoded code by frame), with what CPU.run,     *)
(* SFENCE.VMA and a write to satp do to them. FENCE and FENCE.I do nothing *)
(* to any of them and are no actions. MMU.pa_cache is a memo of a pure     *)
(* function of its key and has no state worth modelling.                   *)
(*                                                                         *)
(* The grain is the page: an address is a page <<VPN1, VPN0>> or a frame   *)
(* <<PPN1, PPN0>>, and a frame holds one decoded block. Only the words of  *)
(* page tables have contents.                                              *)
(***************************************************************************)
EXTENDS Naturals

CONSTANTS
  Page,             \* page numbers the guest uses, <<VPN1, VPN0>>
  Frame,            \* frame numbers, <<PPN1, PPN0>>; Page \subseteq Frame
  Word,             \* page-table words, <<frame, index>>
  Root, ResetRoot,  \* frames a satp may name, and the one it names at reset
  Asid,             \* 0 at reset
  InitMem,          \* the tables when the emulator starts
  TableWrites,      \* <<word, pte>>: what the guest may store in them
  SatpWrites,       \* what the guest writes to satp
  LoadPages, StorePages, FetchPages,
  ModesUsed,
  None, AtPoll

MODE_U == 0
MODE_S == 1
MODE_M == 3

READ == 0
WRITE == 1
FETCH == 2
Tag == {READ, WRITE, FETCH}

\* V = 0 or W without R; a pointer to the next level; R or X.
Kind == {"invalid", "next", "leaf"}

Pte == [kind : Kind, ppn : Frame, w : BOOLEAN, a : BOOLEAN, d : BOOLEAN]

VARIABLES
  mem,              \* the page-table words
  satp,             \* MODE, ASID and PPN
  satp_changed,     \* CPU._csr_satp_changed
  mode,
  prev_mode,        \* local of CPU.run, None for its -1
  block,            \* frame of the block being executed, AtPoll after it, None at
                    \* the loop head
  pte_cache,        \* by ASID, then by page
  known,            \* the ASIDs that are keys of pte_cache (a defaultdict)
  accel_cache,      \* by tag: last page and its frame
  inst_cache,       \* frames with decoded code
  \* Auxiliary: what the guest owes and the caches may have missed.
  rootOf,           \* root each ASID was last installed with
  unsynced,         \* ASIDs with tables changed since their last SFENCE.VMA
  touched,          \* accel_cache was filled from tables since changed
  stale,            \* frames whose decoded code is older than a store
  fetched           \* frames run in the present stay in a mode

cpu == <<satp, satp_changed, mode, prev_mode>>
tlb == <<pte_cache, known>>
code == <<inst_cache, stale, fetched>>
sync == <<rootOf, unsynced, touched>>
vars == <<mem, cpu, block, tlb, accel_cache, code, sync>>

Satp == [on : BOOLEAN, asid : Asid, root : Root]
Entry == [pte : Pte, at : Word, superpage : BOOLEAN]
AccelEntry == [page : Page, frame : Frame]

\* A pointer leads to words of a page table.
Linked == {p \in Pte : p.kind = "next" => \A v \in Page : <<p.ppn, v[2]>> \in Word}

ASSUME MmuConstants ==
  /\ Page \subseteq Frame /\ \A f \in Frame, v \in Page : <<f[1], v[2]>> \in Frame
  /\ \A r \in Root, v \in Page : <<r, v[1]>> \in Word
  /\ ResetRoot \in Root /\ 0 \in Asid
  /\ InitMem \in [Word -> Linked]
  /\ TableWrites \subseteq Word \X Linked
  /\ SatpWrites \subseteq Satp
  /\ LoadPages \cup StorePages \cup FetchPages \subseteq Page
  /\ ModesUsed \subseteq {MODE_U, MODE_S, MODE_M}
  /\ MODE_M \in ModesUsed
  /\ None \notin Frame \cup ModesUsed \cup Entry \cup AccelEntry /\ AtPoll \notin Frame

Empty == [t \in Tag |-> None]

Init ==
  /\ mem = InitMem
  /\ satp = [on |-> FALSE, asid |-> 0, root |-> ResetRoot] /\ satp_changed = TRUE
  /\ mode = MODE_M /\ prev_mode = None /\ block = None
  /\ pte_cache = [a \in Asid |-> [v \in Page |-> None]] /\ known = {}
  /\ accel_cache = Empty /\ inst_cache = {}
  /\ rootOf = [a \in Asid |-> ResetRoot]
  /\ unsynced = {} /\ touched = FALSE /\ stale = {} /\ fetched = {}

(***************************************************************************)
(* Translation (MMU.find_pte and MMU.translate_addr). The permission bits  *)
(* R, X and U are not checked by the code.                                 *)
(***************************************************************************)

LeafAt(pte, at, superpage) == [pte |-> pte, at |-> at, superpage |-> superpage]

Walk(m, root, v) ==
  LET upper == m[<<root, v[1]>>]
      at == <<upper.ppn, v[2]>>
  IN  CASE upper.kind = "invalid" -> None
        [] upper.kind = "leaf" -> LeafAt(upper, <<root, v[1]>>, TRUE)
        [] upper.kind = "next" -> IF m[at].kind = "leaf" THEN LeafAt(m[at], at, FALSE) ELSE None

FrameOf(e, v) == IF e.superpage THEN <<e.pte.ppn[1], v[2]>> ELSE e.pte.ppn

Translated == satp.on /\ mode # MODE_M

find_pte(v) ==
  IF pte_cache[satp.asid][v] # None THEN pte_cache[satp.asid][v] ELSE Walk(mem, satp.root, v)

Refused(v, write) ==
  Translated /\ (find_pte(v) # None => write /\ ~find_pte(v).pte.w)

\* Mutant: D is looked at only when A is missing.
UsedOnFirst(pte, write) == IF pte.a THEN pte ELSE [pte EXCEPT !.a = TRUE, !.d = pte.d \/ write]

\* Mutant: D is assigned, not set.
UsedAssigns(pte, write) == [pte EXCEPT !.a = TRUE, !.d = write]

\* The accessed and dirty bits an access sets.
Used(pte, write) == [pte EXCEPT !.a = TRUE, !.d = pte.d \/ write]

\* The entry translate_addr leaves in the cache. It writes it back to memory
\* only when a bit was missing, and then the whole word.
UsedEntry(v, write) == [find_pte(v) EXCEPT !.pte = Used(find_pte(v).pte, write)]

WrittenBack(v, write) ==
  IF Translated /\ UsedEntry(v, write) # find_pte(v)
  THEN [mem EXCEPT ![find_pte(v).at] = UsedEntry(v, write).pte]
  ELSE mem

\* Mutant: the low part of a superpage's frame is taken from the entry.
TargetOfEntry(v, write) == IF Translated THEN find_pte(v).pte.ppn ELSE v

Target(v, write) == IF Translated THEN FrameOf(find_pte(v), v) ELSE v

\* Apart from the accessed and dirty bits.
SamePte(p, q) == p.kind = q.kind /\ p.ppn = q.ppn /\ p.w = q.w

\* q is p, maybe with A or D set since.
Gains(p, q) == SamePte(p, q) /\ (p.a => q.a) /\ (p.d => q.d)

Remember(v, e) ==
  IF Translated
  THEN /\ pte_cache' = [pte_cache EXCEPT ![satp.asid][v] = e]
       /\ known' = known \cup {satp.asid}
  ELSE UNCHANGED tlb

OnlyGains(m, n) == \A w \in Word : Gains(m[w], n[w])

\* Translation makes the tables m, and a store then n. Unless words only gain A
\* and D bits that is behind the caches, and each ASID is owed an SFENCE.VMA.
TablesBecome(m, n, accelDoubtful) ==
  LET behind == ~OnlyGains(mem, m) \/ ~OnlyGains(m, n)
  IN  /\ mem' = n
      /\ unsynced' = IF behind THEN Asid ELSE unsynced
      /\ touched' = (accelDoubtful \/ behind)

(***************************************************************************)
(* MMU.translate_addr_accel. Two addresses of a page match unless they     *)
(* differ in all twelve bits, and the address 0 never matches. (For        *)
(* addresses of one sign; module Accel has the bytes, and the other case.) *)
(***************************************************************************)

Hit(accel, tag, v) == accel[tag] # None /\ accel[tag].page = v

\* Fetch addresses are multiples of four.
MayMiss(accel, tag, v) == ~Hit(accel, tag, v) \/ tag # FETCH \/ v = <<0, 0>>

AccelFill(tag, v, f) == [page |-> v, frame |-> f]

\* A miss that translates.
Fill(accel, tag, v, write) ==
  /\ MayMiss(accel, tag, v) /\ ~Refused(v, write)
  /\ Remember(v, UsedEntry(v, write))
  /\ accel_cache' = [accel EXCEPT ![tag] = AccelFill(tag, v, Target(v, write))]

(***************************************************************************)
(* The loop head of CPU.run, with the fetch that follows it at once.       *)
(***************************************************************************)

\* Mutant: a mode change keeps the last translations.
FlushOnSatp == satp_changed

FlushDue == satp_changed \/ prev_mode # mode

AccelAtHead == IF FlushDue THEN Empty ELSE accel_cache

\* Filling the emptied cache from tables that are owed an SFENCE.VMA.
DoubtAtHead == IF FlushDue THEN Translated /\ satp.asid \in unsynced ELSE touched

Enter == satp_changed' = FALSE /\ prev_mode' = mode /\ UNCHANGED <<satp, mode, rootOf>>

\* A stay: blocks one after another in one mode and address space, within one
\* call of CPU.run.
FetchedThisStay == IF satp_changed \/ prev_mode # mode THEN {} ELSE fetched

\* Code of a frame is decoded when none is there, from memory as it is.
Execute(f) ==
  /\ block' = f
  /\ inst_cache' = inst_cache \cup {f}
  /\ fetched' = FetchedThisStay \cup {f}
  /\ UNCHANGED stale

Fetch(v) ==
  /\ block = None /\ Enter
  /\ \/ /\ Hit(AccelAtHead, FETCH, v)
        /\ Execute(AccelAtHead[FETCH].frame)
        /\ accel_cache' = AccelAtHead
        /\ TablesBecome(mem, mem, DoubtAtHead) /\ UNCHANGED tlb
     \/ /\ Fill(AccelAtHead, FETCH, v, FALSE)
        /\ Execute(Target(v, FALSE))
        /\ TablesBecome(WrittenBack(v, FALSE), WrittenBack(v, FALSE), DoubtAtHead)

\* Mutant: a trap enters the lowest mode.
TrapModeUser == {MODE_U}

\* A trap raises the mode or keeps it.
TrapMode == {m \in ModesUsed : m >= mode /\ m >= MODE_S}

FetchFault(v) ==
  /\ block = None
  /\ MayMiss(AccelAtHead, FETCH, v) /\ Refused(v, FALSE)
  /\ \E m \in TrapMode : mode' = m
  /\ accel_cache' = AccelAtHead /\ touched' = DoubtAtHead /\ fetched' = FetchedThisStay
  /\ satp_changed' = FALSE /\ prev_mode' = mode
  /\ Remember(v, find_pte(v))
  /\ UNCHANGED <<mem, satp, block, inst_cache, stale, rootOf, unsynced>>

(***************************************************************************)
(* Loads and stores in a block.                                            *)
(***************************************************************************)

Running == block \in Frame

Load(v) ==
  /\ Running
  /\ \/ /\ Hit(accel_cache, READ, v)
        /\ TablesBecome(mem, mem, touched) /\ UNCHANGED <<tlb, accel_cache>>
     \/ /\ Fill(accel_cache, READ, v, FALSE)
        /\ TablesBecome(WrittenBack(v, FALSE), WrittenBack(v, FALSE), touched)
  /\ UNCHANGED <<cpu, block, code, rootOf>>

\* Decoded code survives a store that hits, and is dropped by one that does not.
StoreHit(v) ==
  /\ Hit(accel_cache, WRITE, v)
  /\ stale' = stale \cup ({accel_cache[WRITE].frame} \cap inst_cache)
  /\ UNCHANGED <<inst_cache, tlb, accel_cache>>

\* Mutant: a store drops no decoded code.
StoreMissKeeps(v) ==
  /\ Fill(accel_cache, WRITE, v, TRUE)
  /\ stale' = stale \cup ({Target(v, TRUE)} \cap inst_cache)
  /\ UNCHANGED inst_cache

StoreMiss(v) ==
  /\ Fill(accel_cache, WRITE, v, TRUE)
  /\ inst_cache' = inst_cache \ {Target(v, TRUE)}
  /\ stale' = stale \ {Target(v, TRUE)}

Store(v) ==
  /\ Running
  /\ \/ StoreHit(v) /\ TablesBecome(mem, mem, touched)
     \/ StoreMiss(v) /\ TablesBecome(WrittenBack(v, TRUE), WrittenBack(v, TRUE), touched)
  /\ UNCHANGED <<cpu, block, fetched, rootOf>>

\* The store goes to a page-table word the guest edits.
StoreTable(v, w, p) ==
  /\ Running
  /\ \/ StoreHit(v) /\ accel_cache[WRITE].frame = w[1]
        /\ TablesBecome(mem, [mem EXCEPT ![w] = p], touched)
     \/ StoreMiss(v) /\ Target(v, TRUE) = w[1]
        /\ TablesBecome(WrittenBack(v, TRUE), [WrittenBack(v, TRUE) EXCEPT ![w] = p], touched)
  /\ UNCHANGED <<cpu, block, fetched, rootOf>>

\* Translation refuses a load (stores may also meet a read-only leaf).
AccessFault(tag, v) ==
  /\ Running /\ block' = None
  /\ MayMiss(accel_cache, tag, v) /\ Refused(v, tag = WRITE)
  /\ \E m \in TrapMode : mode' = m
  /\ Remember(v, find_pte(v))
  /\ UNCHANGED <<mem, satp, satp_changed, prev_mode, accel_cache,
                 code, sync>>

(***************************************************************************)
(* The instructions that end a block.                                      *)
(***************************************************************************)

\* A jump, the end of the page, or a trap or return to mode m.
EndBlock(m) ==
  /\ Running /\ block' = AtPoll
  /\ mode' = m
  /\ UNCHANGED <<mem, satp, satp_changed, prev_mode, tlb, accel_cache,
                 code, sync>>

\* After the block: an interrupt may be taken, and CPU.run may use up its
\* budget, return and be called again.
Poll ==
  /\ block = AtPoll /\ block' = None
  /\ mode' \in TrapMode \cup {mode}
  /\ prev_mode' \in {prev_mode, None}
  /\ UNCHANGED <<mem, satp, satp_changed, tlb, accel_cache, code, sync>>

WriteSatp(value) ==
  /\ Running /\ block' = AtPoll
  /\ satp' = value /\ satp_changed' = TRUE
  /\ rootOf' = [rootOf EXCEPT ![value.asid] = value.root]
  /\ unsynced' = unsynced \cup {a \in {value.asid} : rootOf[a] # value.root}
  /\ UNCHANGED <<mem, mode, prev_mode, tlb, accel_cache, code, touched>>

SfenceAll ==
  /\ Running /\ block' = AtPoll
  /\ pte_cache' = [a \in Asid |-> [v \in Page |-> None]] /\ known' = {}
  /\ unsynced' = {}
  /\ UNCHANGED <<mem, cpu, accel_cache, code, rootOf, touched>>

\* Mutant: the current ASID is flushed, not the one in rs2.
SfenceCurrent(a) ==
  /\ Running /\ block' = AtPoll
  /\ pte_cache' = [pte_cache EXCEPT ![satp.asid] = [v \in Page |-> None]]
  /\ unsynced' = unsynced \ {a}
  /\ UNCHANGED <<mem, cpu, known, accel_cache, code, rootOf, touched>>

\* rs2 names an ASID; when it is no key of the cache everything goes.
SfenceAsid(a) ==
  /\ Running /\ block' = AtPoll
  /\ IF a \in known
     THEN pte_cache' = [pte_cache EXCEPT ![a] = [v \in Page |-> None]] /\ UNCHANGED known
     ELSE pte_cache' = [b \in Asid |-> [v \in Page |-> None]] /\ known' = {}
  /\ unsynced' = unsynced \ {a}
  /\ UNCHANGED <<mem, cpu, accel_cache, code, rootOf, touched>>

Access ==
  \/ \E v \in FetchPages : Fetch(v) \/ FetchFault(v)
  \/ \E v \in LoadPages : Load(v) \/ AccessFault(READ, v)
  \/ \E v \in StorePages : Store(v) \/ AccessFault(WRITE, v)

Edit == \E v \in StorePages, e \in TableWrites : StoreTable(v, e[1], e[2])

Next ==
  \/ Access
  \/ Edit
  \/ \E m \in ModesUsed : EndBlock(m)
  \/ Poll
  \/ \E value \in SatpWrites : WriteSatp(value)
  \/ SfenceAll
  \/ \E a \in Asid : SfenceAsid(a)

Spec == Init /\ [][Next]_vars

-----------------------------------------------------------------------------

\* The type invariant of the translation state.
TypeOK ==
  /\ mem \in [Word -> Pte]
  /\ satp \in Satp /\ satp_changed \in BOOLEAN
  /\ mode \in ModesUsed /\ prev_mode \in ModesUsed \cup {None}
  /\ block \in Frame \cup {None, AtPoll}
  /\ pte_cache \in [Asid -> [Page -> Entry \cup {None}]] /\ known \subseteq Asid
  /\ accel_cache \in [Tag -> AccelEntry \cup {None}]
  /\ inst_cache \subseteq Frame /\ stale \subseteq inst_cache
  /\ fetched \subseteq Frame
  /\ rootOf \in [Asid -> Root] /\ unsynced \subseteq Asid /\ touched \in BOOLEAN

\* e is what a walk finds now, but for A and D bits the tables gained since.
Agrees(e, now) ==
  now # None /\ now.at = e.at /\ now.superpage = e.superpage /\ Gains(e.pte, now.pte)

\* An ASID the guest owes no SFENCE.VMA sees its tables through the cache,
\* whichever ASID filled it, changed it or was flushed in between.
CachedEntriesCurrent ==
  \A a \in Asid \ unsynced, v \in Page :
    pte_cache[a][v] # None => Agrees(pte_cache[a][v], Walk(mem, rootOf[a], v))

AccelRight(tag) ==
  LET hit == accel_cache[tag]
      now == Walk(mem, satp.root, hit.page)
  IN  hit # None =>
        IF Translated THEN now # None /\ hit.frame = FrameOf(now, hit.page)
                      ELSE hit.frame = hit.page

Synced == Translated => satp.asid \notin unsynced

\* In a block the one-entry caches agree with a walk in the current mode and
\* address space, unless the tables changed since the caches were filled.
AccelCurrent == Running /\ Synced /\ ~touched => \A tag \in Tag : AccelRight(tag)

\* A page that loads or fetches hit is accessed in memory, and one that
\* stores hit is writable and dirty: no store escapes the dirty bit.
AccelBitsSet ==
  Running /\ Translated /\ Synced /\ ~touched =>
    \A tag \in Tag : accel_cache[tag] # None =>
      LET now == Walk(mem, satp.root, accel_cache[tag].page)
      IN  now # None /\ now.pte.a /\ (tag = WRITE => now.pte.w /\ now.pte.d)

\* Translation only ever sets A and D in the tables of an address space the
\* guest keeps synchronised. (It writes the whole cached word back, so in
\* another it can undo what the guest stored.)
NoStaleWriteBack ==
  [][Access /\ Synced =>
       \A w \in Word : Gains(mem[w], mem'[w])]_vars

\* A store leaves decoded code behind only in a frame that was run in the
\* stay the store is in: code written by a loader that has not yet run it is
\* always decoded afresh. (A stay goes on through a return that an interrupt
\* undoes before the next block: the loop head then sees the mode it knew.)
CodeCoherent == [][stale' \ stale \subseteq fetched]_vars

\* SFENCE.VMA orders table stores before later accesses (the device tree
\* says mmu-type riscv,sv32).
SfenceTakesEffect == Running /\ Synced => \A tag \in Tag : AccelRight(tag)

=============================================================================
