----------------------------- MODULE MmuProofs -----------------------------
(***************************************************************************)
(* Proofs about Mmu.                                                       *)
(***************************************************************************)
EXTENDS Mmu, TLAPS

-----------------------------------------------------------------------------
(* The inductive invariant, by what it is about.                           *)

TablesOK == mem \in [Word -> Linked]

\* The root in satp is the one its ASID was last installed with, and a block
\* runs in the mode and the address space the loop head saw.
HeadOK ==
  /\ satp \in Satp /\ satp_changed \in BOOLEAN
  /\ mode \in ModesUsed /\ prev_mode \in ModesUsed \cup {None}
  /\ block \in Frame \cup {None, AtPoll}
  /\ rootOf \in [Asid -> Root] /\ unsynced \subseteq Asid /\ touched \in BOOLEAN
  /\ satp.root = rootOf[satp.asid]
  /\ Running => prev_mode = mode /\ ~satp_changed

\* Only leaves are cached.
CacheOK ==
  /\ pte_cache \in [Asid -> [Page -> Entry \cup {None}]] /\ known \subseteq Asid
  /\ \A a \in Asid, v \in Page : pte_cache[a][v] # None => pte_cache[a][v].pte.kind = "leaf"
  /\ CachedEntriesCurrent

\* The loop head has run since satp was written and the run began, and the
\* tables are as they were when accel_cache was last emptied.
Trusted == ~satp_changed /\ prev_mode # None /\ ~touched

\* Translation as the loop head last saw it: prev_mode for mode. The mode may
\* change after a block and be back at the next loop head.
Mapped == satp.on /\ prev_mode # MODE_M

\* The entry of accel_cache is what a walk of m gives, with the bits an access
\* of its kind has set.
Fits(m, mapped, tag, hit) ==
  LET now == Walk(m, satp.root, hit.page)
  IN  IF mapped THEN /\ now # None /\ hit.frame = FrameOf(now, hit.page)
                     /\ now.pte.a /\ (tag = WRITE => now.pte.w /\ now.pte.d)
                ELSE hit.frame = hit.page

AccelOK ==
  /\ accel_cache \in [Tag -> AccelEntry \cup {None}]
  /\ Trusted /\ Mapped => satp.asid \notin unsynced
  /\ Trusted => \A tag \in Tag : accel_cache[tag] # None => Fits(mem, Mapped, tag, accel_cache[tag])

\* A store that hits meets decoded code only of this stay.
CodeOK ==
  /\ inst_cache \subseteq Frame /\ stale \subseteq inst_cache /\ fetched \subseteq Frame
  /\ accel_cache[WRITE] # None /\ accel_cache[WRITE].frame \in inst_cache =>
       accel_cache[WRITE].frame \in fetched

IInv == TablesOK /\ HeadOK /\ CacheOK /\ AccelOK /\ CodeOK

\* The guest stores no dirty page-table entry it may not write to. One that is
\* dirty and not writable (a page shared for copying on write) is written back
\* from the cache without what was set in memory since.
DirtyIsWritable ==
  /\ \A w \in Word : InitMem[w].d => InitMem[w].w
  /\ \A e \in TableWrites : e[2].d => e[2].w

\* What is cached and was not accessed cannot be written to.
DirtyOK ==
  /\ \A w \in Word : mem[w].d => mem[w].w
  /\ \A a \in Asid, v \in Page : pte_cache[a][v] # None =>
       /\ pte_cache[a][v].pte.d => pte_cache[a][v].pte.w
       /\ ~pte_cache[a][v].pte.a => ~pte_cache[a][v].pte.w

-----------------------------------------------------------------------------
(* The tables and the walk.                                                *)

\* Gaining A and D bits is a preorder.
LEMMA GainsOrder ==
  ASSUME NEW p, NEW q, NEW r
  PROVE  Gains(p, p) /\ (Gains(p, q) /\ Gains(q, r) => Gains(p, r))
  BY DEF Gains, SamePte

\* What the tables hold, and where a pointer in them leads.
LEMMA Links ==
  ASSUME NEW m \in [Word -> Linked], NEW r \in Root, NEW v \in Page
  PROVE  /\ <<r, v[1]>> \in Word /\ m[<<r, v[1]>>] \in Pte
         /\ m[<<r, v[1]>>].kind \in Kind
         /\ m[<<r, v[1]>>].kind = "next" =>
              /\ <<m[<<r, v[1]>>].ppn, v[2]>> \in Word
              /\ m[<<m[<<r, v[1]>>].ppn, v[2]>>] \in Pte
  BY MmuConstants DEF Linked, Pte

\* A walk ends at a leaf of the tables, or fails.
LEMMA WalkFinds ==
  ASSUME NEW m \in [Word -> Linked], NEW r \in Root, NEW v \in Page, Walk(m, r, v) # None
  PROVE  /\ Walk(m, r, v) \in Entry /\ Walk(m, r, v).at \in Word
         /\ Walk(m, r, v).pte = m[Walk(m, r, v).at] /\ Walk(m, r, v).pte.kind = "leaf"
<1> DEFINE u == <<r, v[1]>>
           at == <<m[u].ppn, v[2]>>
<1>1. /\ u \in Word /\ m[u] \in Pte /\ m[u].kind \in Kind
      /\ m[u].kind = "next" => at \in Word /\ m[at] \in Pte
  BY Links
<1>2. m[u].kind # "invalid"
  BY DEF Walk
<1>3. CASE m[u].kind = "leaf"
  <2>1. Walk(m, r, v) = LeafAt(m[u], u, TRUE)
    BY <1>3 DEF Walk
  <2> HIDE DEF u
  <2> QED
    BY <1>1, <1>3, <2>1, MmuConstants DEF LeafAt, Entry
<1>4. CASE m[u].kind = "next"
  <2>1. m[at].kind = "leaf" /\ Walk(m, r, v) = LeafAt(m[at], at, FALSE)
    BY <1>4 DEF Walk
  <2>2. at \in Word /\ m[at] \in Pte
    BY <1>1, <1>4
  <2> HIDE DEF u, at
  <2> QED
    BY <2>1, <2>2, MmuConstants DEF LeafAt, Entry
<1> QED
  BY <1>1, <1>2, <1>3, <1>4 DEF Kind

\* Words that gain A and D bits change no walk otherwise.
LEMMA WalkGains ==
  ASSUME NEW m \in [Word -> Linked], NEW n \in [Word -> Linked], OnlyGains(m, n),
         NEW r \in Root, NEW v \in Page, Walk(m, r, v) # None
  PROVE  /\ Walk(n, r, v) # None
         /\ Walk(n, r, v).at = Walk(m, r, v).at /\ Walk(n, r, v).superpage = Walk(m, r, v).superpage
         /\ Walk(n, r, v).pte = n[Walk(m, r, v).at]
         /\ Gains(Walk(m, r, v).pte, Walk(n, r, v).pte)
<1> DEFINE u == <<r, v[1]>>
           at == <<m[u].ppn, v[2]>>
<1>1. /\ u \in Word /\ m[u] \in Pte /\ m[u].kind \in Kind /\ n[u] \in Pte
      /\ m[u].kind = "next" => at \in Word /\ m[at] \in Pte
  BY Links
<1>2. m[u].kind # "invalid"
  BY DEF Walk
<1>0. \A w \in Word : Gains(m[w], n[w]) /\ n[w].kind = m[w].kind /\ n[w].ppn = m[w].ppn
  BY DEF OnlyGains, Gains, SamePte
<1>3. CASE m[u].kind = "leaf"
  <2>1. Walk(m, r, v) = LeafAt(m[u], u, TRUE)
    BY <1>3 DEF Walk
  <2>2. Walk(n, r, v) = LeafAt(n[u], u, TRUE)
    BY <1>0, <1>1, <1>3 DEF Walk
  <2> HIDE DEF u
  <2>3. /\ Walk(m, r, v).pte = m[u] /\ Walk(m, r, v).at = u /\ Walk(m, r, v).superpage = TRUE
        /\ Walk(n, r, v).pte = n[u] /\ Walk(n, r, v).at = u /\ Walk(n, r, v).superpage = TRUE
    BY <2>1, <2>2 DEF LeafAt
  <2>4. Walk(n, r, v) # None
    <3>1. LeafAt(n[u], u, TRUE) \in Entry
      BY <1>1 DEF LeafAt, Entry
    <3> QED
      BY <2>2, <3>1, MmuConstants
  <2> QED
    BY <1>0, <1>1, <2>3, <2>4
<1>4. CASE m[u].kind = "next"
  <2>1. m[at].kind = "leaf" /\ Walk(m, r, v) = LeafAt(m[at], at, FALSE)
    BY <1>4 DEF Walk
  <2>2. n[u].kind = "next" /\ n[u].ppn = m[u].ppn /\ n[at].kind = "leaf" /\ n[at] \in Pte
    BY <1>0, <1>1, <1>4, <2>1 DEF Linked
  <2>3. Walk(n, r, v) = LeafAt(n[at], at, FALSE)
    BY <2>2 DEF Walk
  <2>4. at \in Word /\ m[at] \in Pte
    BY <1>1, <1>4
  <2> HIDE DEF u, at
  <2>5. /\ Walk(m, r, v).pte = m[at] /\ Walk(m, r, v).at = at /\ Walk(m, r, v).superpage = FALSE
        /\ Walk(n, r, v).pte = n[at] /\ Walk(n, r, v).at = at /\ Walk(n, r, v).superpage = FALSE
    BY <2>1, <2>3 DEF LeafAt
  <2>6. Walk(n, r, v) # None
    <3>1. LeafAt(n[at], at, FALSE) \in Entry
      BY <2>2, <2>4 DEF LeafAt, Entry
    <3> QED
      BY <2>3, <3>1, MmuConstants
  <2> QED
    BY <1>0, <2>4, <2>5, <2>6
<1> QED
  BY <1>1, <1>2, <1>3, <1>4 DEF Kind

\* What was a walk of the tables stays one when they gain A and D bits.
LEMMA AgreesGains ==
  ASSUME NEW m \in [Word -> Linked], NEW n \in [Word -> Linked], OnlyGains(m, n),
         NEW r \in Root, NEW v \in Page, NEW e, Agrees(e, Walk(m, r, v))
  PROVE  Agrees(e, Walk(n, r, v))
  BY WalkGains, GainsOrder DEF Agrees

\* The empty change.
LEMMA NoChange == ASSUME NEW m PROVE OnlyGains(m, m)
  BY GainsOrder DEF OnlyGains

-----------------------------------------------------------------------------
(* An access that translates.                                              *)

\* What find_pte finds.
LEMMA Found ==
  ASSUME TablesOK, HeadOK, CacheOK, NEW v \in Page, find_pte(v) # None
  PROVE  /\ find_pte(v) \in Entry /\ find_pte(v).pte.kind = "leaf"
         /\ satp.asid \notin unsynced => Agrees(find_pte(v), Walk(mem, satp.root, v))
<1>1. satp.asid \in Asid /\ satp.root \in Root /\ satp.root = rootOf[satp.asid]
  BY DEF HeadOK, Satp
<1>2. CASE pte_cache[satp.asid][v] # None
  <2>1. find_pte(v) = pte_cache[satp.asid][v]
    BY <1>2 DEF find_pte
  <2>2. find_pte(v) \in Entry /\ find_pte(v).pte.kind = "leaf"
    BY <1>1, <1>2, <2>1 DEF CacheOK
  <2>3. satp.asid \notin unsynced => Agrees(find_pte(v), Walk(mem, satp.root, v))
    BY <1>1, <1>2, <2>1 DEF CacheOK, CachedEntriesCurrent
  <2> QED
    BY <2>2, <2>3
<1>3. CASE pte_cache[satp.asid][v] = None
  <2> DEFINE e == Walk(mem, satp.root, v)
  <2>1. find_pte(v) = e
    BY <1>3 DEF find_pte
  <2>2. e \in Entry /\ e.pte.kind = "leaf"
    BY <1>1, <2>1, WalkFinds DEF TablesOK
  <2> HIDE DEF e
  <2>3. Agrees(e, e)
    BY <2>1, GainsOrder DEF Agrees
  <2> QED
    BY <2>1, <2>2, <2>3 DEF e
<1> QED
  BY <1>2, <1>3

\* A and D set in an entry.
LEMMA UsedSets ==
  ASSUME NEW p \in Pte, NEW write \in BOOLEAN
  PROVE  /\ Used(p, write) \in Pte /\ Gains(p, Used(p, write))
         /\ Used(p, write).a /\ (write => Used(p, write).d)
         /\ Used(p, write).kind = p.kind /\ Used(p, write).ppn = p.ppn /\ Used(p, write).w = p.w
         /\ (Used(p, write).d <=> p.d \/ write)
         /\ (p.kind = "leaf" => Used(p, write) \in Linked)
  BY DEF Used, Pte, Gains, SamePte, Linked

\* What it finds, uses and leaves in memory.
LEMMA Accessed ==
  ASSUME TablesOK, HeadOK, CacheOK, NEW v \in Page, NEW write \in BOOLEAN,
         ~Refused(v, write), Translated
  PROVE  /\ find_pte(v) \in Entry /\ find_pte(v) # None /\ find_pte(v).pte.kind = "leaf"
         /\ UsedEntry(v, write) \in Entry
         /\ UsedEntry(v, write).pte = Used(find_pte(v).pte, write)
         /\ UsedEntry(v, write).at = find_pte(v).at
         /\ UsedEntry(v, write).superpage = find_pte(v).superpage
         /\ UsedEntry(v, write).pte.kind = "leaf"
         /\ UsedEntry(v, write).pte.a
         /\ (write => UsedEntry(v, write).pte.w /\ UsedEntry(v, write).pte.d)
         /\ FrameOf(UsedEntry(v, write), v) = Target(v, write)
         /\ WrittenBack(v, write) \in [Word -> Linked]
         /\ Target(v, write) \in Frame
<1> DEFINE e == find_pte(v)
           u == Used(e.pte, write)
<1>1. e # None /\ (write => e.pte.w)
  BY DEF Refused
<1>2. e \in Entry /\ e.pte.kind = "leaf"
  BY <1>1, Found
<1> HIDE DEF e
<1>3. e.pte \in Pte /\ e.at \in Word /\ e.superpage \in BOOLEAN
  BY <1>2 DEF Entry
<1>4. /\ u \in Pte /\ u.kind = "leaf" /\ u.a /\ (write => u.d) /\ u.ppn = e.pte.ppn
      /\ (write => u.w) /\ u \in Linked
  BY <1>1, <1>2, <1>3, UsedSets
<1>5. UsedEntry(v, write) = [e EXCEPT !.pte = u]
  BY DEF UsedEntry, e
<1> HIDE DEF u
<1>6. /\ UsedEntry(v, write) \in Entry /\ UsedEntry(v, write).pte = u
      /\ UsedEntry(v, write).at = e.at /\ UsedEntry(v, write).superpage = e.superpage
  BY <1>2, <1>4, <1>5 DEF Entry
<1>7. FrameOf(UsedEntry(v, write), v) = Target(v, write)
  BY <1>4, <1>6 DEF FrameOf, Target, e
<1>8. WrittenBack(v, write) \in [Word -> Linked]
  BY <1>3, <1>4, <1>6 DEF WrittenBack, TablesOK, e
<1>9. Target(v, write) \in Frame
  BY <1>3, MmuConstants DEF Target, FrameOf, Pte, e
<1> QED
  BY <1>1, <1>2, <1>4, <1>6, <1>7, <1>8, <1>9 DEF e, u

\* An access without translation.
LEMMA AccessedBare ==
  ASSUME TablesOK, NEW v \in Page, NEW write \in BOOLEAN, ~Translated
  PROVE  WrittenBack(v, write) = mem /\ Target(v, write) = v /\ v \in Frame
  BY MmuConstants DEF WrittenBack, Target

\* What is left in the cache is a walk of what is left in memory, unless that
\* lost something.
LEMMA AccessedAgrees ==
  ASSUME TablesOK, HeadOK, CacheOK, NEW v \in Page, NEW write \in BOOLEAN,
         ~Refused(v, write), Translated,
         satp.asid \notin unsynced, OnlyGains(mem, WrittenBack(v, write))
  PROVE  Agrees(UsedEntry(v, write), Walk(WrittenBack(v, write), satp.root, v))
<1> DEFINE e == find_pte(v)
           u == UsedEntry(v, write)
           n == WrittenBack(v, write)
           was == Walk(mem, satp.root, v)
           now == Walk(n, satp.root, v)
<1>1. /\ e \in Entry /\ e # None /\ u \in Entry /\ u.at = e.at /\ u.superpage = e.superpage
      /\ n \in [Word -> Linked]
  BY Accessed
<1>2. satp.root \in Root /\ Agrees(e, was)
  BY <1>1, Found DEF HeadOK, Satp
<1>3. n = IF u # e THEN [mem EXCEPT ![e.at] = u.pte] ELSE mem
  BY DEF WrittenBack
<1>4. e.at \in Word
  BY <1>1 DEF Entry
<1> HIDE DEF e, u, n
<1>5. /\ was # None /\ was.at = e.at /\ was.superpage = e.superpage
      /\ now # None /\ now.at = was.at /\ now.superpage = was.superpage /\ now.pte = n[was.at]
  BY <1>1, <1>2, WalkGains DEF Agrees, TablesOK, n
<1>6. CASE u # e
  <2>1. now.pte = u.pte
    BY <1>3, <1>4, <1>5, <1>6 DEF TablesOK
  <2> QED
    BY <1>1, <1>5, <2>1, GainsOrder DEF Agrees, u, n
<1>7. CASE u = e
  BY <1>2, <1>3, <1>7 DEF u, n
<1> QED
  BY <1>6, <1>7

-----------------------------------------------------------------------------
(* The invariant is kept.                                                  *)

\* The invariant holds at the start.
LEMMA InitIInv == Init => IInv
<1> SUFFICES ASSUME Init PROVE IInv
  OBVIOUS
<1> USE MmuConstants
<1>1. TablesOK
  BY DEF Init, TablesOK
<1>2. HeadOK
  BY DEF Init, HeadOK, Satp, Running, MODE_M
<1>3. CacheOK
  <2>1. \A a \in Asid, v \in Page : pte_cache[a][v] = None
    BY DEF Init
  <2> QED
    BY <2>1 DEF Init, CacheOK, CachedEntriesCurrent
<1>4. AccelOK
  <2>1. accel_cache \in [Tag -> AccelEntry \cup {None}] /\ prev_mode = None
    BY DEF Init, Empty
  <2> QED
    BY <2>1 DEF AccelOK, Trusted
<1>5. CodeOK
  BY DEF Init, CodeOK, Empty, Tag
<1> QED
  BY <1>1, <1>2, <1>3, <1>4, <1>5 DEF IInv

\* The guest stores to the tables m, and leaves them n.
Edits(m, n) == \A w \in Word : n[w] = m[w] \/ \E e \in TableWrites : n[w] = e[2]

\* How a step meets the tables: an access that hits accel_cache, one that
\* translates, or a fault.
Hits(n, doubt) == TablesBecome(mem, n, doubt) /\ UNCHANGED tlb

Misses(v, write, n, doubt) ==
  /\ ~Refused(v, write) /\ Remember(v, UsedEntry(v, write))
  /\ TablesBecome(WrittenBack(v, write), n, doubt)

Faults(v) ==
  /\ Refused(v, TRUE) /\ Remember(v, find_pte(v))
  /\ UNCHANGED <<mem, satp, rootOf, unsynced>>

Walks ==
  /\ \E n \in [Word -> Linked] :
       \/ Edits(mem, n) /\ \E doubt : Hits(n, doubt)
       \/ \E v \in Page, write \in BOOLEAN : \E doubt :
            Edits(WrittenBack(v, write), n) /\ Misses(v, write, n, doubt)
  /\ UNCHANGED <<satp, rootOf>>

\* What the step leaves of an access that translates.
LEMMA Written ==
  ASSUME TablesOK, HeadOK, CacheOK, NEW v \in Page, NEW write \in BOOLEAN, ~Refused(v, write)
  PROVE  WrittenBack(v, write) \in [Word -> Linked] /\ Target(v, write) \in Frame
<1>1. CASE Translated
  BY <1>1, Accessed
<1>2. CASE ~Translated
  BY <1>2, AccessedBare DEF TablesOK
<1> QED
  BY <1>1, <1>2

\* Which steps touch the tables and what is cached of them.
LEMMA TablesFrame ==
  ASSUME IInv, [Next]_vars
  PROVE  \/ Walks
         \/ \E v \in Page : Faults(v)
         \/ \E value \in SatpWrites : WriteSatp(value)
         \/ SfenceAll
         \/ \E a \in Asid : SfenceAsid(a)
         \/ UNCHANGED <<mem, satp, tlb, rootOf, unsynced>>
<1>0. TablesOK /\ HeadOK /\ CacheOK
  BY DEF IInv
<1>p. LoadPages \subseteq Page /\ StorePages \subseteq Page /\ FetchPages \subseteq Page
  BY MmuConstants
<1>1. ASSUME NEW v \in FetchPages, Fetch(v) PROVE Walks
  <2>0. UNCHANGED <<satp, rootOf>> /\ v \in Page
    BY <1>1, <1>p DEF Fetch, Enter
  <2>1. CASE Hits(mem, DoubtAtHead)
    BY <1>0, <2>0, <2>1 DEF Walks, TablesOK, Edits
  <2>2. CASE Misses(v, FALSE, WrittenBack(v, FALSE), DoubtAtHead)
    <3>1. WrittenBack(v, FALSE) \in [Word -> Linked]
      BY <1>0, <2>0, <2>2, Written DEF Misses
    <3> QED
      BY <2>0, <2>2, <3>1 DEF Walks, Edits
  <2> QED
    BY <1>1, <2>1, <2>2 DEF Fetch, Fill, Hits, Misses
<1>2. ASSUME NEW v \in LoadPages, Load(v) PROVE Walks
  <2>0. UNCHANGED <<satp, rootOf>> /\ v \in Page
    BY <1>2, <1>p DEF Load, cpu
  <2>1. CASE Hits(mem, touched)
    BY <1>0, <2>0, <2>1 DEF Walks, TablesOK, Edits
  <2>2. CASE Misses(v, FALSE, WrittenBack(v, FALSE), touched)
    <3>1. WrittenBack(v, FALSE) \in [Word -> Linked]
      BY <1>0, <2>0, <2>2, Written DEF Misses
    <3> QED
      BY <2>0, <2>2, <3>1 DEF Walks, Edits
  <2> QED
    BY <1>2, <2>1, <2>2 DEF Load, Fill, Hits, Misses
<1>3. ASSUME NEW v \in StorePages, Store(v) PROVE Walks
  <2>0. UNCHANGED <<satp, rootOf>> /\ v \in Page
    BY <1>3, <1>p DEF Store, cpu
  <2>1. CASE Hits(mem, touched)
    BY <1>0, <2>0, <2>1 DEF Walks, TablesOK, Edits
  <2>2. CASE Misses(v, TRUE, WrittenBack(v, TRUE), touched)
    <3>1. WrittenBack(v, TRUE) \in [Word -> Linked]
      BY <1>0, <2>0, <2>2, Written DEF Misses
    <3> QED
      BY <2>0, <2>2, <3>1 DEF Walks, Edits
  <2> QED
    BY <1>3, <2>1, <2>2 DEF Store, StoreHit, StoreMiss, Fill, Hits, Misses
<1>4. ASSUME NEW v \in StorePages, NEW e \in TableWrites, StoreTable(v, e[1], e[2]) PROVE Walks
  <2> DEFINE w == e[1]
             p == e[2]
  <2>0. UNCHANGED <<satp, rootOf>> /\ v \in Page /\ w \in Word /\ p \in Linked
    BY <1>4, <1>p, MmuConstants DEF StoreTable, cpu
  <2> HIDE DEF w, p
  <2>1. CASE Hits([mem EXCEPT ![w] = p], touched)
    <3>1. [mem EXCEPT ![w] = p] \in [Word -> Linked]
      BY <1>0, <2>0 DEF TablesOK
    <3>2. Edits(mem, [mem EXCEPT ![w] = p])
      BY <1>0, <2>0, MmuConstants DEF TablesOK, Edits, w, p
    <3> QED
      BY <2>0, <2>1, <3>1, <3>2 DEF Walks
  <2>2. CASE Misses(v, TRUE, [WrittenBack(v, TRUE) EXCEPT ![w] = p], touched)
    <3>1. WrittenBack(v, TRUE) \in [Word -> Linked]
      BY <1>0, <2>0, <2>2, Written DEF Misses
    <3>2. [WrittenBack(v, TRUE) EXCEPT ![w] = p] \in [Word -> Linked]
      BY <2>0, <3>1
    <3>3. Edits(WrittenBack(v, TRUE), [WrittenBack(v, TRUE) EXCEPT ![w] = p])
      BY <2>0, <3>1, MmuConstants DEF Edits, w, p
    <3> QED
      BY <2>0, <2>2, <3>2, <3>3 DEF Walks
  <2>3. StoreTable(v, w, p)
    BY <1>4 DEF w, p
  <2> QED
    BY <2>1, <2>2, <2>3 DEF StoreTable, StoreHit, StoreMiss, Fill, Hits, Misses
<1>5. ASSUME NEW v \in FetchPages, FetchFault(v) PROVE Faults(v) /\ v \in Page
  BY <1>5, <1>p DEF FetchFault, Faults, Refused
<1>6. ASSUME NEW v \in LoadPages \cup StorePages, NEW tag \in Tag, AccessFault(tag, v)
      PROVE  Faults(v) /\ v \in Page
  BY <1>6, <1>p DEF AccessFault, Faults, Refused, sync
<1>7. ASSUME NEW m \in ModesUsed, EndBlock(m) PROVE UNCHANGED <<mem, satp, tlb, rootOf, unsynced>>
  BY <1>7 DEF EndBlock, sync
<1>8. CASE Poll
  BY <1>8 DEF Poll, sync
<1>9. CASE UNCHANGED vars
  BY <1>9 DEF vars, cpu, sync
<1> QED
  BY <1>1, <1>2, <1>3, <1>4, <1>5, <1>6, <1>7, <1>8, <1>9 DEF Next, Access, Edit, Tag

\* What a change of the tables leaves of the debts.
LEMMA Owed ==
  ASSUME HeadOK, NEW m, NEW n, NEW doubt, TablesBecome(m, n, doubt), NEW a \in Asid, a \notin unsynced'
  PROVE  a \notin unsynced /\ OnlyGains(mem, m) /\ OnlyGains(m, n)
  BY DEF TablesBecome, HeadOK

\* What the cache holds after an access that translates, or is refused.
LEMMA Remembered ==
  ASSUME CacheOK, satp.asid \in Asid, NEW v \in Page, NEW e, Remember(v, e),
         Translated => e \in Entry \cup {None}
  PROVE  /\ pte_cache' \in [Asid -> [Page -> Entry \cup {None}]] /\ known' \subseteq Asid
         /\ \A a \in Asid, x \in Page :
              \/ pte_cache'[a][x] = pte_cache[a][x]
              \/ Translated /\ a = satp.asid /\ x = v /\ pte_cache'[a][x] = e
<1>1. CASE Translated
  <2> DEFINE old == pte_cache[satp.asid]
             new == [old EXCEPT ![v] = e]
  <2>1. /\ pte_cache' = [pte_cache EXCEPT ![satp.asid] = new]
        /\ known' = known \cup {satp.asid}
    BY <1>1 DEF Remember
  <2>2. new \in [Page -> Entry \cup {None}] /\ \A x \in Page : new[x] = IF x = v THEN e ELSE old[x]
    BY <1>1 DEF CacheOK
  <2> HIDE DEF new
  <2>3. pte_cache' \in [Asid -> [Page -> Entry \cup {None}]] /\ known' \subseteq Asid
    BY <2>1, <2>2 DEF CacheOK
  <2>4. \A a \in Asid : pte_cache'[a] = IF a = satp.asid THEN new ELSE pte_cache[a]
    BY <2>1 DEF CacheOK
  <2>5. ASSUME NEW a \in Asid, NEW x \in Page
        PROVE  \/ pte_cache'[a][x] = pte_cache[a][x]
               \/ Translated /\ a = satp.asid /\ x = v /\ pte_cache'[a][x] = e
    <3>1. CASE a = satp.asid
      BY <1>1, <2>2, <2>4, <3>1
    <3>2. CASE a # satp.asid
      BY <2>4, <3>2
    <3> QED
      BY <3>1, <3>2
  <2> QED
    BY <2>3, <2>5
<1>2. CASE ~Translated
  BY <1>2 DEF Remember, tlb, CacheOK
<1> QED
  BY <1>1, <1>2

\* Every step keeps the tables and what is cached of them.
LEMMA CacheKept == IInv /\ [Next]_vars => TablesOK' /\ CacheOK'
<1> SUFFICES ASSUME IInv, [Next]_vars PROVE TablesOK' /\ CacheOK'
  OBVIOUS
<1>0. TablesOK /\ HeadOK /\ CacheOK /\ satp.asid \in Asid /\ satp.root = rootOf[satp.asid]
      /\ rootOf \in [Asid -> Root]
  BY DEF IInv, HeadOK, Satp
<1>1. CASE Walks
  <2>1. PICK n \in [Word -> Linked] :
          \/ \E doubt : Hits(n, doubt)
          \/ \E v \in Page, write \in BOOLEAN : \E doubt : Misses(v, write, n, doubt)
    BY <1>1 DEF Walks
  <2>2. UNCHANGED <<satp, rootOf>>
    BY <1>1 DEF Walks
  <2>3. mem' = n
    BY <2>1 DEF Hits, Misses, TablesBecome
  <2>4. ASSUME NEW doubt, Hits(n, doubt) PROVE CacheOK'
    <3>1. CachedEntriesCurrent'
      <4> SUFFICES ASSUME NEW a \in Asid, a \notin unsynced', NEW v \in Page, pte_cache'[a][v] # None
                   PROVE  Agrees(pte_cache'[a][v], Walk(n, rootOf[a], v))
        BY <2>2, <2>3 DEF CachedEntriesCurrent
      <4>1. a \notin unsynced /\ OnlyGains(mem, n)
        BY <1>0, <2>4, Owed DEF Hits
      <4>2. pte_cache'[a][v] = pte_cache[a][v]
        BY <2>4 DEF Hits, tlb
      <4>3. Agrees(pte_cache[a][v], Walk(mem, rootOf[a], v))
        BY <1>0, <4>1, <4>2 DEF CacheOK, CachedEntriesCurrent
      <4> QED
        BY <1>0, <4>1, <4>2, <4>3, AgreesGains DEF TablesOK
    <3> QED
      BY <1>0, <2>4, <3>1 DEF Hits, tlb, CacheOK
  <2>5. ASSUME NEW v \in Page, NEW write \in BOOLEAN, NEW doubt, Misses(v, write, n, doubt)
        PROVE  CacheOK'
    <3> DEFINE w == WrittenBack(v, write)
               u == UsedEntry(v, write)
    <3>1. w \in [Word -> Linked] /\ ~Refused(v, write) /\ TablesBecome(w, n, doubt)
      BY <1>0, <2>5, Written DEF Misses
    <3>2. Translated => u \in Entry /\ u.pte.kind = "leaf"
      BY <1>0, <3>1, Accessed
    <3>3. Remember(v, u)
      BY <2>5 DEF Misses
    <3>4. Translated /\ satp.asid \notin unsynced /\ OnlyGains(mem, w) =>
            Agrees(u, Walk(w, satp.root, v))
      BY <1>0, <3>1, AccessedAgrees
    <3> HIDE DEF w, u
    <3>5. /\ pte_cache' \in [Asid -> [Page -> Entry \cup {None}]] /\ known' \subseteq Asid
          /\ \A a \in Asid, x \in Page :
               \/ pte_cache'[a][x] = pte_cache[a][x]
               \/ Translated /\ a = satp.asid /\ x = v /\ pte_cache'[a][x] = u
      BY <1>0, <3>2, <3>3, Remembered
    <3>6. CachedEntriesCurrent'
      <4> SUFFICES ASSUME NEW a \in Asid, a \notin unsynced', NEW x \in Page, pte_cache'[a][x] # None
                   PROVE  Agrees(pte_cache'[a][x], Walk(n, rootOf[a], x))
        BY <2>2, <2>3 DEF CachedEntriesCurrent
      <4>1. a \notin unsynced /\ OnlyGains(mem, w) /\ OnlyGains(w, n)
        BY <1>0, <3>1, Owed
      <4>2. CASE Translated /\ a = satp.asid /\ x = v /\ pte_cache'[a][x] = u
        <5>1. Agrees(u, Walk(w, rootOf[a], x))
          BY <1>0, <3>4, <4>1, <4>2
        <5> QED
          BY <1>0, <3>1, <4>1, <4>2, <5>1, AgreesGains
      <4>3. CASE pte_cache'[a][x] = pte_cache[a][x]
        <5>2. Agrees(pte_cache[a][x], Walk(mem, rootOf[a], x))
          BY <1>0, <4>1, <4>3 DEF CacheOK, CachedEntriesCurrent
        <5>3. Agrees(pte_cache[a][x], Walk(w, rootOf[a], x))
          BY <1>0, <3>1, <4>1, <5>2, AgreesGains DEF TablesOK
        <5> QED
          BY <1>0, <3>1, <4>1, <4>3, <5>3, AgreesGains
      <4> QED
        BY <3>5, <4>2, <4>3
    <3> QED
      BY <1>0, <3>2, <3>5, <3>6 DEF CacheOK
  <2> QED
    BY <2>1, <2>3, <2>4, <2>5 DEF TablesOK
<1>2. ASSUME NEW v \in Page, Faults(v) PROVE TablesOK' /\ CacheOK'
  <2> DEFINE e == find_pte(v)
  <2>1. /\ e # None => e \in Entry /\ e.pte.kind = "leaf"
        /\ e # None /\ satp.asid \notin unsynced => Agrees(e, Walk(mem, satp.root, v))
    BY <1>0, Found
  <2>2. Remember(v, e) /\ UNCHANGED <<mem, rootOf, unsynced>>
    BY <1>2 DEF Faults
  <2> HIDE DEF e
  <2>3. /\ pte_cache' \in [Asid -> [Page -> Entry \cup {None}]] /\ known' \subseteq Asid
        /\ \A a \in Asid, x \in Page :
             \/ pte_cache'[a][x] = pte_cache[a][x]
             \/ Translated /\ a = satp.asid /\ x = v /\ pte_cache'[a][x] = e
    BY <1>0, <2>1, <2>2, Remembered
  <2>4. CachedEntriesCurrent'
    BY <1>0, <2>1, <2>2, <2>3 DEF CacheOK, CachedEntriesCurrent
  <2> QED
    BY <1>0, <2>1, <2>2, <2>3, <2>4 DEF CacheOK, TablesOK
<1>3. ASSUME NEW value \in SatpWrites, WriteSatp(value) PROVE TablesOK' /\ CacheOK'
  <2>1. /\ rootOf' = [rootOf EXCEPT ![value.asid] = value.root]
        /\ unsynced' = unsynced \cup {a \in {value.asid} : rootOf[a] # value.root}
        /\ UNCHANGED <<mem, pte_cache, known>>
    BY <1>3 DEF WriteSatp, tlb
  <2>2. \A a \in Asid : a \notin unsynced' => a \notin unsynced /\ rootOf'[a] = rootOf[a]
    BY <1>0, <2>1
  <2> QED
    BY <1>0, <2>1, <2>2 DEF TablesOK, CacheOK, CachedEntriesCurrent
<1>4. CASE SfenceAll \/ \E a \in Asid : SfenceAsid(a)
  <2>1. /\ pte_cache' \in [Asid -> [Page -> Entry \cup {None}]] /\ known' \subseteq Asid
        /\ \A a \in Asid, v \in Page : pte_cache'[a][v] # None =>
             pte_cache'[a][v] = pte_cache[a][v] /\ (a \notin unsynced' => a \notin unsynced)
        /\ UNCHANGED <<mem, rootOf>>
    BY <1>0, <1>4 DEF SfenceAll, SfenceAsid, CacheOK
  <2> QED
    BY <1>0, <2>1 DEF TablesOK, CacheOK, CachedEntriesCurrent
<1>5. CASE UNCHANGED <<mem, satp, tlb, rootOf, unsynced>>
  BY <1>0, <1>5 DEF TablesOK, CacheOK, CachedEntriesCurrent, tlb
<1> QED
  BY <1>1, <1>2, <1>3, <1>4, <1>5, TablesFrame

\* What accel_cache leads to.
LEMMA HitFrame ==
  ASSUME AccelOK, NEW tag \in Tag, NEW v, Hit(AccelAtHead, tag, v) \/ Hit(accel_cache, tag, v)
  PROVE  /\ Hit(accel_cache, tag, v) => accel_cache[tag].frame \in Frame
         /\ Hit(AccelAtHead, tag, v) => AccelAtHead[tag] = accel_cache[tag] /\ AccelAtHead[tag].frame \in Frame
<1>1. accel_cache[tag] # None => accel_cache[tag].frame \in Frame
  BY DEF AccelOK, AccelEntry
<1>2. AccelAtHead[tag] # None => AccelAtHead[tag] = accel_cache[tag]
  BY DEF AccelAtHead, Empty
<1> QED
  BY <1>1, <1>2 DEF Hit

\* Every step keeps the mode, the address space and the place in the loop.
LEMMA HeadKept == IInv /\ [Next]_vars => HeadOK'
<1> SUFFICES ASSUME IInv, [Next]_vars PROVE HeadOK'
  OBVIOUS
<1>0. TablesOK /\ HeadOK /\ CacheOK /\ AccelOK
  BY DEF IInv
<1>p. /\ LoadPages \subseteq Page /\ StorePages \subseteq Page /\ FetchPages \subseteq Page
      /\ None \notin Frame /\ AtPoll \notin Frame
      /\ FALSE \in BOOLEAN /\ FETCH \in Tag
  BY MmuConstants DEF Tag
<1>q. \A m, n, doubt : TablesBecome(m, n, doubt) => unsynced' \subseteq Asid /\ touched' \in BOOLEAN
  BY <1>0 DEF TablesBecome, HeadOK
<1>1. ASSUME NEW v \in FetchPages, Fetch(v) PROVE HeadOK'
  <2>1. satp_changed' = FALSE /\ prev_mode' = mode /\ UNCHANGED <<satp, mode, rootOf>>
    BY <1>1 DEF Fetch, Enter
  <2>2. unsynced' \subseteq Asid /\ touched' \in BOOLEAN
    BY <1>1, <1>q DEF Fetch
  <2>3. block' \in Frame
    <3>1. CASE Hit(AccelAtHead, FETCH, v) /\ Execute(AccelAtHead[FETCH].frame)
      BY <1>0, <1>p, <3>1, HitFrame DEF Execute
    <3>2. CASE Fill(AccelAtHead, FETCH, v, FALSE) /\ Execute(Target(v, FALSE))
      <4>1. ~Refused(v, FALSE) /\ v \in Page
        BY <1>1, <1>p, <3>2 DEF Fill
      <4>2. Target(v, FALSE) \in Frame
        BY <1>0, <1>p, <4>1, Written
      <4> QED
        BY <3>2, <4>2 DEF Execute
    <3> QED
      BY <1>1, <3>1, <3>2 DEF Fetch
  <2> QED
    BY <1>0, <2>1, <2>2, <2>3 DEF HeadOK, Running
<1>2. ASSUME UNCHANGED <<cpu, block, rootOf>>, \E m, n, doubt : TablesBecome(m, n, doubt) PROVE HeadOK'
  <2>1. unsynced' \subseteq Asid /\ touched' \in BOOLEAN
    BY <1>2, <1>q
  <2> QED
    BY <1>0, <1>2, <2>1 DEF HeadOK, Running, cpu
<1>3. ASSUME NEW v, Load(v) \/ Store(v) PROVE HeadOK'
  BY <1>2, <1>3 DEF Load, Store
<1>4. ASSUME NEW v, NEW w, NEW p, StoreTable(v, w, p) PROVE HeadOK'
  BY <1>2, <1>4 DEF StoreTable
<1>m. TrapMode \subseteq ModesUsed
  BY DEF TrapMode
<1>5. ASSUME NEW v \in FetchPages, FetchFault(v) PROVE HeadOK'
  <2>1. /\ mode' \in ModesUsed /\ satp_changed' = FALSE /\ prev_mode' = mode /\ block' = None
        /\ UNCHANGED <<satp, rootOf, unsynced>>
    BY <1>5, <1>m DEF FetchFault
  <2>2. touched' \in BOOLEAN
    BY <1>0, <1>5 DEF FetchFault, DoubtAtHead, FlushDue, HeadOK
  <2> QED
    BY <1>0, <1>p, <2>1, <2>2 DEF HeadOK, Running
<1>6. ASSUME NEW v, NEW tag, AccessFault(tag, v) PROVE HeadOK'
  BY <1>0, <1>p, <1>m, <1>6 DEF AccessFault, HeadOK, Running, sync
<1>7. ASSUME NEW m \in ModesUsed, EndBlock(m) PROVE HeadOK'
  BY <1>0, <1>p, <1>7 DEF EndBlock, HeadOK, Running, sync
<1>8. CASE Poll
  BY <1>0, <1>p, <1>m, <1>8 DEF Poll, HeadOK, Running, sync
<1>9. ASSUME NEW value \in SatpWrites, WriteSatp(value) PROVE HeadOK'
  <2>1. value \in Satp /\ value.asid \in Asid /\ value.root \in Root
    BY MmuConstants DEF Satp
  <2>2. /\ satp' = value /\ satp_changed' = TRUE /\ block' = AtPoll
        /\ rootOf' = [rootOf EXCEPT ![value.asid] = value.root]
        /\ unsynced' = unsynced \cup {a \in {value.asid} : rootOf[a] # value.root}
        /\ UNCHANGED <<mode, prev_mode, touched>>
    BY <1>9 DEF WriteSatp
  <2>3. rootOf' \in [Asid -> Root] /\ unsynced' \subseteq Asid /\ satp'.root = rootOf'[satp'.asid]
    BY <1>0, <2>1, <2>2 DEF HeadOK
  <2> QED
    BY <1>0, <1>p, <2>1, <2>2, <2>3 DEF HeadOK, Running
<1>10. CASE SfenceAll \/ \E a \in Asid : SfenceAsid(a)
  BY <1>0, <1>p, <1>10 DEF SfenceAll, SfenceAsid, HeadOK, Running, cpu
<1>11. CASE UNCHANGED vars
  BY <1>0, <1>11 DEF vars, cpu, sync, HeadOK, Running
<1> QED
  BY <1>1, <1>3, <1>4, <1>5, <1>6, <1>7, <1>8, <1>9, <1>10, <1>11 DEF Next, Access, Edit

\* Every step keeps the decoded code that stores can hit to this stay.
LEMMA CodeKept == IInv /\ [Next]_vars => CodeOK'
<1> SUFFICES ASSUME IInv, [Next]_vars PROVE CodeOK'
  OBVIOUS
<1>0. TablesOK /\ HeadOK /\ CacheOK /\ AccelOK /\ CodeOK
  BY DEF IInv
<1>p. /\ LoadPages \subseteq Page /\ StorePages \subseteq Page /\ FetchPages \subseteq Page
      /\ FALSE \in BOOLEAN /\ TRUE \in BOOLEAN /\ FETCH \in Tag /\ WRITE \in Tag /\ READ \in Tag
      /\ FETCH # WRITE /\ READ # WRITE
  BY MmuConstants DEF Tag, FETCH, WRITE, READ
<1>a. /\ DOMAIN accel_cache = Tag /\ DOMAIN AccelAtHead = Tag
  BY <1>0 DEF AccelOK, AccelAtHead, Empty
<1>h. /\ FetchedThisStay \subseteq Frame
      /\ AccelAtHead[WRITE] # None /\ AccelAtHead[WRITE].frame \in inst_cache =>
           AccelAtHead[WRITE].frame \in FetchedThisStay
  BY <1>0, <1>p DEF CodeOK, AccelAtHead, FetchedThisStay, FlushDue, Empty
<1>1. ASSUME NEW v \in FetchPages, Fetch(v) PROVE CodeOK'
  <2>1. PICK f : Execute(f) /\ (\/ Hit(AccelAtHead, FETCH, v) /\ f = AccelAtHead[FETCH].frame
                                \/ ~Refused(v, FALSE) /\ f = Target(v, FALSE))
    BY <1>1 DEF Fetch, Fill
  <2>2. f \in Frame
    BY <1>0, <1>p, <2>1, HitFrame, Written
  <2>3. accel_cache'[WRITE] = AccelAtHead[WRITE]
    BY <1>1, <1>a, <1>p DEF Fetch, Fill
  <2> QED
    BY <1>0, <1>h, <2>1, <2>2, <2>3 DEF Execute, CodeOK
<1>2. ASSUME NEW v \in FetchPages, FetchFault(v) PROVE CodeOK'
  BY <1>0, <1>h, <1>2 DEF FetchFault, CodeOK
<1>3. ASSUME NEW v \in LoadPages, Load(v) PROVE CodeOK'
  <2>1. accel_cache'[WRITE] = accel_cache[WRITE] /\ UNCHANGED code
    BY <1>3, <1>a, <1>p DEF Load, Fill
  <2> QED
    BY <1>0, <2>1 DEF CodeOK, code
<1>4. ASSUME NEW v \in StorePages, StoreHit(v), UNCHANGED fetched PROVE CodeOK'
  BY <1>0, <1>4 DEF StoreHit, CodeOK
<1>5. ASSUME NEW v \in StorePages, StoreMiss(v), UNCHANGED fetched PROVE CodeOK'
  <2>1. /\ accel_cache'[WRITE].frame = Target(v, TRUE)
        /\ inst_cache' = inst_cache \ {Target(v, TRUE)} /\ stale' = stale \ {Target(v, TRUE)}
    BY <1>5, <1>a, <1>p DEF StoreMiss, Fill, AccelFill
  <2> QED
    BY <1>0, <1>5, <2>1 DEF CodeOK
<1>6. ASSUME NEW v \in StorePages, Store(v) \/ \E e \in TableWrites : StoreTable(v, e[1], e[2]) PROVE CodeOK'
  BY <1>4, <1>5, <1>6 DEF Store, StoreTable
<1>7. CASE UNCHANGED <<accel_cache, code>>
  BY <1>0, <1>7 DEF CodeOK, code
<1>8. CASE \/ \E v \in Page, tag \in Tag : AccessFault(tag, v)
           \/ Poll \/ SfenceAll \/ \E m \in ModesUsed : EndBlock(m)
           \/ \E value \in SatpWrites : WriteSatp(value)
           \/ \E a \in Asid : SfenceAsid(a)
           \/ UNCHANGED vars
  BY <1>7, <1>8 DEF AccessFault, Poll, SfenceAll, EndBlock, WriteSatp, SfenceAsid, vars
<1> QED
  BY <1>1, <1>2, <1>3, <1>6, <1>8, <1>p DEF Next, Access, Edit

\* An entry of accel_cache stays right when words gain A and D bits.
LEMMA FitsGains ==
  ASSUME NEW m \in [Word -> Linked], NEW n \in [Word -> Linked], OnlyGains(m, n), HeadOK,
         NEW mapped, NEW tag, NEW hit \in AccelEntry, Fits(m, mapped, tag, hit)
  PROVE  Fits(n, mapped, tag, hit)
<1> DEFINE was == Walk(m, satp.root, hit.page)
           now == Walk(n, satp.root, hit.page)
<1>1. satp.root \in Root /\ hit.page \in Page
  BY DEF HeadOK, Satp, AccelEntry
<1>2. was # None => /\ now # None /\ now.superpage = was.superpage
                    /\ Gains(was.pte, now.pte)
  BY <1>1, WalkGains
<1> HIDE DEF was, now
<1>3. was # None => FrameOf(now, hit.page) = FrameOf(was, hit.page)
  BY <1>2 DEF FrameOf, Gains, SamePte
<1>4. CASE mapped
  <2>1. was # None /\ hit.frame = FrameOf(was, hit.page) /\ was.pte.a /\ (tag = WRITE => was.pte.w /\ was.pte.d)
    BY <1>4 DEF Fits, was
  <2>2. now.pte.a /\ (tag = WRITE => now.pte.w /\ now.pte.d)
    BY <1>2, <2>1 DEF Gains, SamePte
  <2> QED
    BY <1>2, <1>3, <1>4, <2>1, <2>2 DEF Fits, now
<1>5. CASE ~mapped
  BY <1>5 DEF Fits
<1> QED
  BY <1>4, <1>5

\* A fill of accel_cache is right.
LEMMA FitsFilled ==
  ASSUME TablesOK, HeadOK, CacheOK, NEW v \in Page, NEW tag, NEW write \in BOOLEAN,
         tag = WRITE => write, ~Refused(v, write),
         Translated => satp.asid \notin unsynced, OnlyGains(mem, WrittenBack(v, write))
  PROVE  Fits(WrittenBack(v, write), Translated, tag, AccelFill(tag, v, Target(v, write)))
<1> DEFINE u == UsedEntry(v, write)
           n == WrittenBack(v, write)
           f == AccelFill(tag, v, Target(v, write))
           now == Walk(n, satp.root, v)
<1>1. f.page = v /\ f.frame = Target(v, write)
  BY DEF AccelFill
<1>2. CASE Translated
  <2>1. Agrees(u, now)
    BY <1>2, AccessedAgrees
  <2>2. u.pte.a /\ (write => u.pte.w /\ u.pte.d) /\ FrameOf(u, v) = Target(v, write)
    BY <1>2, Accessed
  <2> HIDE DEF u, n, f
  <2>3. /\ now # None /\ FrameOf(now, v) = FrameOf(u, v)
        /\ now.pte.a /\ (write => now.pte.w /\ now.pte.d)
    BY <2>1, <2>2 DEF Agrees, Gains, SamePte, FrameOf
  <2> QED
    BY <1>1, <1>2, <2>2, <2>3 DEF Fits, n, f
<1>3. CASE ~Translated
  BY <1>1, <1>3, AccessedBare DEF Fits
<1> QED
  BY <1>2, <1>3

\* An access through an accel_cache that fits, in the mode the loop head saw.
LEMMA AccelStep ==
  ASSUME TablesOK, HeadOK, CacheOK,
         NEW accel \in [Tag -> AccelEntry \cup {None}], NEW doubt,
         ~doubt => /\ Translated => satp.asid \notin unsynced
                   /\ \A tag \in Tag : accel[tag] # None => Fits(mem, Translated, tag, accel[tag]),
         satp' = satp, prev_mode' = mode,
         NEW m \in [Word -> Linked], NEW n \in [Word -> Linked], TablesBecome(m, n, doubt),
         \/ accel_cache' = accel
         \/ \E tag \in Tag, v \in Page, write \in BOOLEAN :
              /\ tag = WRITE => write
              /\ ~Refused(v, write) /\ m = WrittenBack(v, write)
              /\ accel_cache' = [accel EXCEPT ![tag] = AccelFill(tag, v, Target(v, write))]
  PROVE  AccelOK'
<1>1. mem' = n /\ (~touched' => ~doubt /\ OnlyGains(mem, m) /\ OnlyGains(m, n) /\ unsynced' = unsynced)
  BY DEF TablesBecome
<1>2. Mapped' <=> Translated
  BY DEF Mapped, Translated
<1>3. accel_cache' \in [Tag -> AccelEntry \cup {None}]
  <2>1. CASE accel_cache' = accel
    BY <2>1
  <2>2. ASSUME NEW tag \in Tag, NEW v \in Page, NEW write \in BOOLEAN, ~Refused(v, write),
               accel_cache' = [accel EXCEPT ![tag] = AccelFill(tag, v, Target(v, write))]
        PROVE  accel_cache' \in [Tag -> AccelEntry \cup {None}]
    <3>1. AccelFill(tag, v, Target(v, write)) \in AccelEntry
      BY <2>2, Written DEF AccelFill, AccelEntry
    <3> QED
      BY <2>2, <3>1
  <2> QED
    BY <2>1, <2>2
<1>4. Trusted' /\ Mapped' => satp'.asid \notin unsynced'
  BY <1>1, <1>2 DEF Trusted
<1>5. ASSUME Trusted', NEW tag \in Tag, accel_cache'[tag] # None
      PROVE  Fits(n, Translated, tag, accel_cache'[tag])
  <2>1. /\ ~doubt /\ OnlyGains(mem, m) /\ OnlyGains(m, n)
        /\ Translated => satp.asid \notin unsynced
    BY <1>1, <1>5 DEF Trusted
  <2>2. accel_cache'[tag] \in AccelEntry
    BY <1>3, <1>5
  <2>3. CASE accel_cache'[tag] = accel[tag]
    <3>1. Fits(mem, Translated, tag, accel_cache'[tag])
      BY <1>5, <2>1, <2>3
    <3>2. Fits(m, Translated, tag, accel_cache'[tag])
      BY <2>1, <2>2, <3>1, FitsGains DEF TablesOK
    <3> QED
      BY <2>1, <2>2, <3>2, FitsGains
  <2>4. ASSUME NEW v \in Page, NEW write \in BOOLEAN, tag = WRITE => write, ~Refused(v, write),
               m = WrittenBack(v, write), accel_cache'[tag] = AccelFill(tag, v, Target(v, write))
        PROVE  Fits(n, Translated, tag, accel_cache'[tag])
    <3>1. Fits(m, Translated, tag, accel_cache'[tag])
      BY <2>1, <2>4, FitsFilled
    <3> QED
      BY <2>1, <2>2, <3>1, FitsGains
  <2> QED
    BY <2>3, <2>4
<1>6. \A tag \in Tag : \A hit : Fits(n, Translated, tag, hit) => Fits(n, Mapped, tag, hit)'
  BY <1>2 DEF Fits
<1>7. Trusted' => \A tag \in Tag : accel_cache'[tag] # None => Fits(mem, Mapped, tag, accel_cache[tag])'
  BY <1>1, <1>5, <1>6
<1> QED
  BY <1>3, <1>4, <1>7 DEF AccelOK

\* What the loop head leaves in accel_cache.
LEMMA FitsAtHead ==
  ASSUME HeadOK, AccelOK
  PROVE  /\ AccelAtHead \in [Tag -> AccelEntry \cup {None}]
         /\ ~DoubtAtHead =>
              /\ Translated => satp.asid \notin unsynced
              /\ \A tag \in Tag : AccelAtHead[tag] # None => Fits(mem, Translated, tag, AccelAtHead[tag])
<1>1. AccelAtHead \in [Tag -> AccelEntry \cup {None}]
  BY DEF AccelAtHead, Empty, AccelOK
<1>2. CASE FlushDue
  BY <1>1, <1>2 DEF DoubtAtHead, AccelAtHead, Empty
<1>3. CASE ~FlushDue
  <2>1. ~satp_changed /\ prev_mode = mode /\ mode # None
    BY <1>3, MmuConstants DEF FlushDue, HeadOK
  <2>2. (Mapped <=> Translated) /\ AccelAtHead = accel_cache /\ DoubtAtHead = touched
    BY <1>3, <2>1 DEF Mapped, Translated, AccelAtHead, DoubtAtHead
  <2>3. ~touched => Trusted
    BY <2>1 DEF Trusted
  <2>4. \A tag \in Tag : \A hit : Fits(mem, Mapped, tag, hit) => Fits(mem, Translated, tag, hit)
    BY <2>2 DEF Fits
  <2> QED
    BY <1>1, <2>2, <2>3, <2>4 DEF AccelOK
<1> QED
  BY <1>1, <1>2, <1>3

\* And what a block finds there.
LEMMA FitsRunning ==
  ASSUME HeadOK, AccelOK, Running
  PROVE  /\ accel_cache \in [Tag -> AccelEntry \cup {None}] /\ prev_mode = mode /\ ~satp_changed
         /\ ~touched =>
              /\ Translated => satp.asid \notin unsynced
              /\ \A tag \in Tag : accel_cache[tag] # None => Fits(mem, Translated, tag, accel_cache[tag])
<1>1. ~satp_changed /\ prev_mode = mode /\ mode # None
  BY MmuConstants DEF HeadOK
<1>2. Mapped <=> Translated
  BY <1>1 DEF Mapped, Translated
<1>3. ~touched => Trusted
  BY <1>1 DEF Trusted
<1>4. \A tag \in Tag : \A hit : Fits(mem, Mapped, tag, hit) => Fits(mem, Translated, tag, hit)
  BY <1>2 DEF Fits
<1> QED
  BY <1>1, <1>2, <1>3, <1>4 DEF AccelOK

\* Every step keeps accel_cache right.
LEMMA AccelKept == IInv /\ [Next]_vars => AccelOK'
<1> SUFFICES ASSUME IInv, [Next]_vars PROVE AccelOK'
  OBVIOUS
<1>0. TablesOK /\ HeadOK /\ CacheOK /\ AccelOK /\ mem \in [Word -> Linked]
  BY DEF IInv, TablesOK
<1>p. /\ LoadPages \subseteq Page /\ StorePages \subseteq Page /\ FetchPages \subseteq Page
      /\ FALSE \in BOOLEAN /\ TRUE \in BOOLEAN /\ FETCH \in Tag /\ WRITE \in Tag /\ READ \in Tag
      /\ FETCH # WRITE /\ READ # WRITE
  BY MmuConstants DEF Tag, FETCH, WRITE, READ
<1>1. ASSUME NEW v \in FetchPages, Fetch(v) PROVE AccelOK'
  <2>0. satp' = satp /\ prev_mode' = mode /\ v \in Page
    BY <1>1, <1>p DEF Fetch, Enter
  <2>1. CASE accel_cache' = AccelAtHead /\ TablesBecome(mem, mem, DoubtAtHead)
    BY <1>0, <2>0, <2>1, FitsAtHead, AccelStep
  <2>2. CASE /\ Fill(AccelAtHead, FETCH, v, FALSE)
             /\ TablesBecome(WrittenBack(v, FALSE), WrittenBack(v, FALSE), DoubtAtHead)
    <3>1. /\ ~Refused(v, FALSE)
          /\ accel_cache' = [AccelAtHead EXCEPT ![FETCH] = AccelFill(FETCH, v, Target(v, FALSE))]
      BY <2>2 DEF Fill
    <3>2. WrittenBack(v, FALSE) \in [Word -> Linked]
      BY <1>0, <1>p, <2>0, <3>1, Written
    <3> QED
      BY <1>0, <1>p, <2>0, <2>2, <3>1, <3>2, FitsAtHead, AccelStep
  <2> QED
    BY <1>1, <2>1, <2>2 DEF Fetch
<1>2. ASSUME NEW v \in Page, NEW tag \in Tag, NEW write \in BOOLEAN, tag = WRITE => write, Running,
             NEW m, NEW n \in [Word -> Linked], TablesBecome(m, n, touched), UNCHANGED cpu,
             \/ accel_cache' = accel_cache /\ m = mem
             \/ Fill(accel_cache, tag, v, write) /\ m = WrittenBack(v, write)
      PROVE  AccelOK'
  <2>0. satp' = satp /\ prev_mode' = mode
    BY <1>0, <1>2, FitsRunning DEF cpu
  <2>1. CASE accel_cache' = accel_cache /\ m = mem
    BY <1>0, <1>2, <2>0, <2>1, FitsRunning, AccelStep
  <2>2. CASE Fill(accel_cache, tag, v, write) /\ m = WrittenBack(v, write)
    <3>1. /\ ~Refused(v, write)
          /\ accel_cache' = [accel_cache EXCEPT ![tag] = AccelFill(tag, v, Target(v, write))]
      BY <2>2 DEF Fill
    <3>2. m \in [Word -> Linked]
      BY <1>0, <2>2, <3>1, Written
    <3> QED
      BY <1>0, <1>2, <2>0, <2>2, <3>1, <3>2, FitsRunning, AccelStep
  <2> QED
    BY <1>2, <2>1, <2>2
<1>3. ASSUME NEW v \in LoadPages, Load(v) PROVE AccelOK'
  <2>0. Running /\ UNCHANGED cpu /\ v \in Page
    BY <1>3, <1>p DEF Load
  <2>1. CASE accel_cache' = accel_cache /\ TablesBecome(mem, mem, touched)
    BY <1>0, <1>2, <1>p, <2>0, <2>1
  <2>2. CASE /\ Fill(accel_cache, READ, v, FALSE)
             /\ TablesBecome(WrittenBack(v, FALSE), WrittenBack(v, FALSE), touched)
    <3>1. WrittenBack(v, FALSE) \in [Word -> Linked]
      BY <1>0, <1>p, <2>0, <2>2, Written DEF Fill
    <3> QED
      BY <1>2, <1>p, <2>0, <2>2, <3>1
  <2> QED
    BY <1>3, <2>1, <2>2 DEF Load
<1>4. ASSUME NEW v \in StorePages, Store(v) PROVE AccelOK'
  <2>0. Running /\ UNCHANGED cpu /\ v \in Page
    BY <1>4, <1>p DEF Store
  <2>1. CASE accel_cache' = accel_cache /\ TablesBecome(mem, mem, touched)
    BY <1>0, <1>2, <1>p, <2>0, <2>1
  <2>2. CASE /\ Fill(accel_cache, WRITE, v, TRUE)
             /\ TablesBecome(WrittenBack(v, TRUE), WrittenBack(v, TRUE), touched)
    <3>1. WrittenBack(v, TRUE) \in [Word -> Linked]
      BY <1>0, <1>p, <2>0, <2>2, Written DEF Fill
    <3> QED
      BY <1>2, <1>p, <2>0, <2>2, <3>1
  <2> QED
    BY <1>4, <2>1, <2>2 DEF Store, StoreHit, StoreMiss
<1>5. ASSUME NEW v \in StorePages, NEW e \in TableWrites, StoreTable(v, e[1], e[2]) PROVE AccelOK'
  <2> DEFINE w == e[1]
             p == e[2]
  <2>0. Running /\ UNCHANGED cpu /\ v \in Page /\ w \in Word /\ p \in Linked
    BY <1>5, <1>p, MmuConstants DEF StoreTable
  <2>3. StoreTable(v, w, p)
    BY <1>5
  <2> HIDE DEF w, p
  <2>1. CASE accel_cache' = accel_cache /\ TablesBecome(mem, [mem EXCEPT ![w] = p], touched)
    <3>1. [mem EXCEPT ![w] = p] \in [Word -> Linked]
      BY <1>0, <2>0
    <3> QED
      BY <1>2, <1>p, <2>0, <2>1, <3>1
  <2>2. CASE /\ Fill(accel_cache, WRITE, v, TRUE)
             /\ TablesBecome(WrittenBack(v, TRUE), [WrittenBack(v, TRUE) EXCEPT ![w] = p], touched)
    <3>1. WrittenBack(v, TRUE) \in [Word -> Linked]
      BY <1>0, <1>p, <2>0, <2>2, Written DEF Fill
    <3>2. [WrittenBack(v, TRUE) EXCEPT ![w] = p] \in [Word -> Linked]
      BY <2>0, <3>1
    <3> QED
      BY <1>2, <1>p, <2>0, <2>2, <3>2
  <2> QED
    BY <2>1, <2>2, <2>3 DEF StoreTable, StoreHit, StoreMiss
<1>6. ASSUME NEW v \in FetchPages, FetchFault(v) PROVE AccelOK'
  <2>1. /\ accel_cache' = AccelAtHead /\ touched' = DoubtAtHead /\ prev_mode' = mode
        /\ UNCHANGED <<mem, satp, unsynced>>
    BY <1>6 DEF FetchFault
  <2>2. OnlyGains(mem, mem)
    BY NoChange
  <2>3. Trusted' => ~DoubtAtHead
    BY <2>1 DEF Trusted
  <2>4. Mapped' <=> Translated
    BY <2>1 DEF Mapped, Translated
  <2>5. \A tag \in Tag : \A hit : Fits(mem, Translated, tag, hit) => Fits(mem, Mapped, tag, hit)'
    BY <2>1, <2>4 DEF Fits
  <2> QED
    BY <1>0, <2>1, <2>3, <2>4, <2>5, FitsAtHead DEF AccelOK
<1>7. ASSUME UNCHANGED <<mem, satp, satp_changed, accel_cache, touched>>, unsynced' \subseteq unsynced,
             prev_mode' \in {prev_mode, None}
      PROVE  AccelOK'
  <2>1. CASE prev_mode' = None
    BY <1>0, <1>7, <2>1 DEF AccelOK, Trusted
  <2>2. CASE prev_mode' = prev_mode
    <3>1. /\ (Trusted' <=> Trusted) /\ (Mapped' <=> Mapped)
          /\ \A tag \in Tag : \A hit : Fits(mem, Mapped, tag, hit) => Fits(mem, Mapped, tag, hit)'
      BY <1>7, <2>2 DEF Trusted, Mapped, Fits
    <3> QED
      BY <1>0, <1>7, <3>1 DEF AccelOK
  <2> QED
    BY <1>7, <2>1, <2>2
<1>8. CASE \/ \E v \in Page, tag \in Tag : AccessFault(tag, v)
           \/ Poll \/ SfenceAll \/ \E m \in ModesUsed : EndBlock(m)
           \/ \E a \in Asid : SfenceAsid(a)
           \/ UNCHANGED vars
  BY <1>0, <1>7, <1>8 DEF HeadOK, AccessFault, Poll, SfenceAll, EndBlock, SfenceAsid, vars, cpu, sync
<1>9. ASSUME NEW value \in SatpWrites, WriteSatp(value) PROVE AccelOK'
  BY <1>0, <1>9 DEF WriteSatp, AccelOK, Trusted
<1> QED
  BY <1>1, <1>3, <1>4, <1>5, <1>6, <1>8, <1>9, <1>p DEF Next, Access, Edit

-----------------------------------------------------------------------------

\* What the invariant says.
LEMMA IInvTypeOK == IInv => TypeOK
<1>1. Linked \subseteq Pte
  BY DEF Linked
<1> QED
  BY <1>1 DEF IInv, TablesOK, HeadOK, CacheOK, AccelOK, CodeOK, TypeOK

\* In particular of accel_cache.
LEMMA IInvAccel == IInv => AccelCurrent /\ AccelBitsSet
<1> SUFFICES ASSUME IInv, Running, Synced, ~touched, NEW tag \in Tag
             PROVE  /\ AccelRight(tag)
                    /\ Translated /\ accel_cache[tag] # None =>
                         LET now == Walk(mem, satp.root, accel_cache[tag].page)
                         IN  now # None /\ now.pte.a /\ (tag = WRITE => now.pte.w /\ now.pte.d)
  BY DEF AccelCurrent, AccelBitsSet
<1>1. accel_cache[tag] # None => Fits(mem, Translated, tag, accel_cache[tag])
  BY FitsRunning DEF IInv
<1> QED
  BY <1>1 DEF Fits, AccelRight

\* The parts together are inductive: they hold at the start, and whatever
\* access, fault, fence or write to satp comes next.
THEOREM MmuInvariant == Spec => []IInv
<1>1. IInv /\ [Next]_vars => IInv'
  BY CacheKept, HeadKept, AccelKept, CodeKept DEF IInv
<1> QED
  BY InitIInv, <1>1, PTL DEF Spec

\* The translation state keeps its types.
THEOREM MmuTypeCorrect == Spec => []TypeOK
  BY MmuInvariant, IInvTypeOK, PTL

\* find_pte: an ASID the guest owes no SFENCE.VMA sees its tables through
\* pte_cache, whichever address space filled it.
THEOREM CachedCurrent == Spec => []CachedEntriesCurrent
<1>1. IInv => CachedEntriesCurrent
  BY DEF IInv, CacheOK
<1> QED
  BY MmuInvariant, <1>1, PTL

\* translate_addr_accel: in a block the one-entry caches agree with a walk, for
\* every interleaving of mode changes, interrupts and writes to satp.
THEOREM AccelAgrees == Spec => []AccelCurrent
  BY MmuInvariant, IInvAccel, PTL

\* No store that hits escapes the dirty bit.
THEOREM AccelHasBits == Spec => []AccelBitsSet
  BY MmuInvariant, IInvAccel, PTL

\* CPU.run and the stores: a store leaves decoded code behind only in a frame
\* run in its own stay.
THEOREM CodeFresh == Spec => CodeCoherent
<1>1. IInv /\ [Next]_vars => [stale' \ stale \subseteq fetched]_vars
  <2> SUFFICES ASSUME IInv, Next PROVE stale' \ stale \subseteq fetched
    OBVIOUS
  <2>1. \A v : StoreHit(v) => stale' \ stale \subseteq fetched
    BY DEF StoreHit, Hit, IInv, CodeOK
  <2>2. \A v : StoreMiss(v) => stale' \subseteq stale
    BY DEF StoreMiss
  <2>3. \A v : Fetch(v) => stale' = stale
    BY DEF Fetch, Execute
  <2> QED
    BY <2>1, <2>2, <2>3 DEF Next, Access, Edit, FetchFault, Load, Store, StoreTable, AccessFault,
       EndBlock, Poll, WriteSatp, SfenceAll, SfenceAsid, code
<1> QED
  BY MmuInvariant, <1>1, PTL DEF Spec, CodeCoherent

-----------------------------------------------------------------------------
(* What is written back, when the guest keeps to DirtyIsWritable.          *)

\* The condition holds at the start.
LEMMA InitDirtyOK == DirtyIsWritable /\ Init => DirtyOK
<1> SUFFICES ASSUME DirtyIsWritable, Init PROVE DirtyOK
  OBVIOUS
<1>1. \A a \in Asid, v \in Page : pte_cache[a][v] = None
  BY DEF Init
<1> QED
  BY <1>1 DEF Init, DirtyOK, DirtyIsWritable

\* What find_pte finds is dirty only if it can be written to.
LEMMA FoundDirty ==
  ASSUME TablesOK, HeadOK, DirtyOK, NEW v \in Page, find_pte(v) # None
  PROVE  /\ find_pte(v).pte.d => find_pte(v).pte.w
         /\ \/ find_pte(v) = Walk(mem, satp.root, v)
            \/ ~find_pte(v).pte.a => ~find_pte(v).pte.w
<1>1. satp.asid \in Asid /\ satp.root \in Root
  BY DEF HeadOK, Satp
<1>2. CASE pte_cache[satp.asid][v] # None
  BY <1>1, <1>2 DEF find_pte, DirtyOK
<1>3. CASE pte_cache[satp.asid][v] = None
  <2>1. find_pte(v) = Walk(mem, satp.root, v)
    BY <1>3 DEF find_pte
  <2> DEFINE e == Walk(mem, satp.root, v)
  <2>2. e.at \in Word /\ e.pte = mem[e.at]
    BY <1>1, <2>1, WalkFinds DEF TablesOK
  <2> HIDE DEF e
  <2>3. e.pte.d => e.pte.w
    BY <2>2 DEF DirtyOK
  <2> QED
    BY <2>1, <2>3 DEF e
<1> QED
  BY <1>2, <1>3

\* What an access leaves in the cache and in memory.
LEMMA AccessedDirty ==
  ASSUME TablesOK, HeadOK, CacheOK, DirtyOK, NEW v \in Page, NEW write \in BOOLEAN, ~Refused(v, write)
  PROVE  /\ Translated => LET u == UsedEntry(v, write).pte IN (u.d => u.w) /\ u.a
         /\ \A w \in Word : WrittenBack(v, write)[w].d => WrittenBack(v, write)[w].w
<1>1. CASE Translated
  <2> DEFINE e == find_pte(v)
             u == UsedEntry(v, write)
  <2>1. /\ e \in Entry /\ e # None /\ u.pte = Used(e.pte, write) /\ u.pte.a
        /\ (write => u.pte.w)
    BY <1>1, Accessed
  <2>2. e.pte.d => e.pte.w
    BY <2>1, FoundDirty
  <2>3. e.pte \in Pte /\ e.at \in Word
    BY <2>1 DEF Entry
  <2> HIDE DEF e, u
  <2>4. (u.pte.d <=> e.pte.d \/ write) /\ u.pte.w = e.pte.w
    BY <2>1, <2>3, UsedSets
  <2>5. u.pte.d => u.pte.w
    BY <2>1, <2>2, <2>4
  <2>6. \A w \in Word : WrittenBack(v, write)[w] \in {mem[w], u.pte}
    BY <2>3 DEF WrittenBack, TablesOK, e, u
  <2> QED
    BY <2>1, <2>5, <2>6 DEF DirtyOK, u
<1>2. CASE ~Translated
  BY <1>2, AccessedBare DEF DirtyOK
<1> QED
  BY <1>1, <1>2

\* Every step keeps it.
LEMMA DirtyKept == DirtyIsWritable /\ IInv /\ DirtyOK /\ [Next]_vars => DirtyOK'
<1> SUFFICES ASSUME DirtyIsWritable, IInv, DirtyOK, [Next]_vars PROVE DirtyOK'
  OBVIOUS
<1>0. TablesOK /\ HeadOK /\ CacheOK /\ satp.asid \in Asid
  BY DEF IInv, HeadOK, Satp
<1>1. ASSUME NEW m, NEW n, Edits(m, n), \A w \in Word : m[w].d => m[w].w
      PROVE  \A w \in Word : n[w].d => n[w].w
  BY <1>1 DEF Edits, DirtyIsWritable
<1>2. CASE Walks
  <2>1. PICK n \in [Word -> Linked] :
          \/ Edits(mem, n) /\ \E doubt : Hits(n, doubt)
          \/ \E v \in Page, write \in BOOLEAN : \E doubt :
               Edits(WrittenBack(v, write), n) /\ Misses(v, write, n, doubt)
    BY <1>2 DEF Walks
  <2>2. mem' = n
    BY <2>1 DEF Hits, Misses, TablesBecome
  <2>3. CASE Edits(mem, n) /\ UNCHANGED tlb
    BY <1>1, <2>2, <2>3 DEF DirtyOK, tlb
  <2>4. ASSUME NEW v \in Page, NEW write \in BOOLEAN, NEW doubt,
               Edits(WrittenBack(v, write), n), Misses(v, write, n, doubt)
        PROVE  DirtyOK'
    <3> DEFINE u == UsedEntry(v, write)
    <3>1. ~Refused(v, write) /\ Remember(v, u)
      BY <2>4 DEF Misses
    <3>2. \A w \in Word : n[w].d => n[w].w
      BY <1>0, <1>1, <2>4, <3>1, AccessedDirty
    <3>3. Translated => u \in Entry /\ (u.pte.d => u.pte.w) /\ u.pte.a
      BY <1>0, <3>1, Accessed, AccessedDirty
    <3> HIDE DEF u
    <3>4. \A a \in Asid, x \in Page :
             \/ pte_cache'[a][x] = pte_cache[a][x]
             \/ Translated /\ pte_cache'[a][x] = u
      BY <1>0, <3>1, <3>3, Remembered
    <3> QED
      BY <2>2, <3>2, <3>3, <3>4 DEF DirtyOK
  <2> QED
    BY <2>1, <2>3, <2>4 DEF Hits
<1>3. ASSUME NEW v \in Page, Faults(v) PROVE DirtyOK'
  <2> DEFINE e == find_pte(v)
  <2>1. Remember(v, e) /\ UNCHANGED mem /\ (e # None => ~e.pte.w)
    BY <1>3 DEF Faults, Refused
  <2>2. e # None => e \in Entry /\ (e.pte.d => e.pte.w)
    BY <1>0, Found, FoundDirty
  <2> HIDE DEF e
  <2>3. \A a \in Asid, x \in Page : pte_cache'[a][x] \in {pte_cache[a][x], e}
    BY <1>0, <2>1, <2>2, Remembered
  <2> QED
    BY <2>1, <2>2, <2>3 DEF DirtyOK
<1>4. ASSUME NEW value \in SatpWrites, WriteSatp(value) PROVE DirtyOK'
  BY <1>4 DEF WriteSatp, tlb, DirtyOK
<1>5. CASE SfenceAll \/ \E a \in Asid : SfenceAsid(a)
  <2>1. /\ UNCHANGED mem
        /\ \A a \in Asid, v \in Page : pte_cache'[a][v] \in {pte_cache[a][v], None}
    BY <1>0, <1>5 DEF SfenceAll, SfenceAsid, CacheOK
  <2> QED
    BY <2>1 DEF DirtyOK
<1>6. CASE UNCHANGED <<mem, satp, tlb, rootOf, unsynced>>
  BY <1>6 DEF DirtyOK, tlb
<1> QED
  BY <1>2, <1>3, <1>4, <1>5, <1>6, TablesFrame

\* A synchronised access writes back what was there, with A and D set.
LEMMA WriteBackGains ==
  ASSUME TablesOK, HeadOK, CacheOK, DirtyOK, NEW v \in Page, NEW write \in BOOLEAN,
         ~Refused(v, write), Translated => satp.asid \notin unsynced
  PROVE  \A w \in Word : Gains(mem[w], WrittenBack(v, write)[w])
<1>1. CASE ~Translated
  BY <1>1, AccessedBare, GainsOrder
<1>2. CASE Translated
  <2> DEFINE e == find_pte(v)
             u == UsedEntry(v, write)
             was == Walk(mem, satp.root, v)
  <2>1. e \in Entry /\ e # None /\ u.pte = Used(e.pte, write) /\ u.at = e.at
    BY <1>2, Accessed
  <2>2. satp.root \in Root /\ Agrees(e, was)
    BY <1>2, <2>1, Found DEF HeadOK, Satp
  <2>3. (e.pte.d => e.pte.w) /\ (e = was \/ (~e.pte.a => ~e.pte.w))
    BY <2>1, FoundDirty
  <2>4. e.pte \in Pte /\ e.at \in Word /\ u = [e EXCEPT !.pte = Used(e.pte, write)]
    BY <2>1 DEF Entry, UsedEntry
  <2>5. WrittenBack(v, write) = IF u # e THEN [mem EXCEPT ![e.at] = u.pte] ELSE mem
    BY <1>2 DEF WrittenBack
  <2>6. was # None => was.at \in Word /\ was.pte = mem[was.at]
    BY <2>2, WalkFinds DEF TablesOK
  <2>7. was.pte.d => was.pte.w
    BY <2>2, <2>6 DEF Agrees, DirtyOK
  <2> HIDE DEF e, u, was
  <2>8. mem[e.at] = was.pte /\ Gains(e.pte, was.pte)
    BY <2>2, <2>6 DEF Agrees
  <2>9. ~write /\ e.pte.a => u = e
    <3> SUFFICES ASSUME ~write, e.pte.a PROVE u = e
      OBVIOUS
    <3>1. Used(e.pte, write) = e.pte
      BY <2>4 DEF Used, Pte
    <3> QED
      BY <2>1, <2>4, <3>1 DEF Entry
  <2>10. u # e => Gains(was.pte, u.pte)
    <3> SUFFICES ASSUME u # e PROVE Gains(was.pte, u.pte)
      OBVIOUS
    <3>1. /\ u.pte.a /\ (u.pte.d <=> e.pte.d \/ write) /\ u.pte.kind = e.pte.kind
          /\ u.pte.ppn = e.pte.ppn /\ u.pte.w = e.pte.w
      BY <2>1, <2>4, UsedSets
    <3>2. SamePte(was.pte, u.pte)
      BY <2>8, <3>1 DEF Gains, SamePte
    <3>3. was.pte.d => u.pte.d
      BY <2>3, <2>7, <2>8, <2>9, <3>1 DEF Gains, SamePte
    <3> QED
      BY <3>1, <3>2, <3>3 DEF Gains
  <2> QED
    BY <2>4, <2>5, <2>8, <2>10, GainsOrder DEF TablesOK
<1> QED
  BY <1>1, <1>2

\* translate_addr writes a whole cached word back: in an address space the
\* guest keeps synchronised that only ever sets A and D, provided the guest
\* stores no entry that is dirty and not writable.
THEOREM WriteBackSafe == DirtyIsWritable => (Spec => NoStaleWriteBack)
<1> SUFFICES ASSUME DirtyIsWritable PROVE Spec => NoStaleWriteBack
  OBVIOUS
<1>1. Init => DirtyOK
  BY InitDirtyOK
<1>2. IInv /\ DirtyOK /\ [Next]_vars => DirtyOK'
  BY DirtyKept
<1>3. IInv /\ DirtyOK /\ [Next]_vars =>
        [Access /\ Synced => \A w \in Word : Gains(mem[w], mem'[w])]_vars
  <2> SUFFICES ASSUME IInv, DirtyOK, Access, Synced PROVE \A w \in Word : Gains(mem[w], mem'[w])
    OBVIOUS
  <2>0. /\ TablesOK /\ HeadOK /\ CacheOK
        /\ LoadPages \cup StorePages \cup FetchPages \subseteq Page
    BY MmuConstants DEF IInv
  <2>1. \/ mem' = mem
        \/ \E v \in Page, write \in BOOLEAN : ~Refused(v, write) /\ mem' = WrittenBack(v, write)
    BY <2>0 DEF Access, Fetch, FetchFault, Load, Store, AccessFault, StoreHit, StoreMiss, Fill, TablesBecome
  <2> QED
    BY <2>0, <2>1, WriteBackGains, GainsOrder DEF Synced
<1> QED
  BY MmuInvariant, <1>1, <1>2, <1>3, PTL DEF Spec, NoStaleWriteBack

=============================================================================
