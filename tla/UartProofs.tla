----------------------------- MODULE UartProofs -----------------------------
(***************************************************************************)
(* Proofs about Uart.                                                      *)
(***************************************************************************)
EXTENDS Uart, FiniteSetTheorems, SequenceTheorems, TLAPS

-----------------------------------------------------------------------------
(* Sequences whose elements are related from left to right: R holds of     *)
(* every element and every later one. Both orders of the module are such.  *)

Chain(s, R) == \A i, j \in 1..Len(s) : i < j => <<s[i], s[j]>> \in R

Before(A, B, R) == \A x \in A, y \in B : <<x, y>> \in R

\* What is in a sequence, and how it is indexed.
LEMMA Elements ==
  ASSUME NEW S, NEW s \in Seq(S)
  PROVE  /\ Len(s) \in Nat /\ DOMAIN s = 1..Len(s) /\ ToSet(s) \subseteq S
         /\ \A i \in 1..Len(s) : s[i] \in ToSet(s)
         /\ \A x \in ToSet(s) : \E i \in 1..Len(s) : x = s[i]
  BY LenProperties DEF ToSet

\* What a concatenation holds, and where.
LEMMA Concat ==
  ASSUME NEW S, NEW s \in Seq(S), NEW t \in Seq(S)
  PROVE  /\ Len(s) \in Nat /\ Len(t) \in Nat
         /\ s \o t \in Seq(S) /\ Len(s \o t) = Len(s) + Len(t)
         /\ \A i \in 1..Len(s) : i \in 1..Len(s \o t) /\ (s \o t)[i] = s[i]
         /\ \A i \in 1..Len(t) : Len(s) + i \in 1..Len(s \o t) /\ (s \o t)[Len(s) + i] = t[i]
         /\ \A i \in 1..Len(s \o t) :
              i \in 1..Len(s) \/ \E j \in 1..Len(t) : i = Len(s) + j
         /\ ToSet(s \o t) = ToSet(s) \cup ToSet(t)
<1>1. Len(s) \in Nat /\ Len(t) \in Nat
  BY LenProperties
<1>2. /\ s \o t \in Seq(S) /\ Len(s \o t) = Len(s) + Len(t)
      /\ \A i \in 1..Len(s) + Len(t) : (s \o t)[i] = IF i <= Len(s) THEN s[i] ELSE t[i - Len(s)]
  BY ConcatProperties
<1> DEFINE st == s \o t
<1> HIDE DEF st
<1>3. /\ \A i \in 1..Len(s) : i \in 1..Len(st) /\ st[i] = s[i]
      /\ \A i \in 1..Len(t) : Len(s) + i \in 1..Len(st) /\ st[Len(s) + i] = t[i]
  BY <1>1, <1>2 DEF st
<1>4. ASSUME NEW i \in 1..Len(st), i \notin 1..Len(s)
      PROVE  \E j \in 1..Len(t) : i = Len(s) + j
  <2>1. i - Len(s) \in 1..Len(t) /\ i = Len(s) + (i - Len(s))
    BY <1>1, <1>2, <1>4 DEF st
  <2> QED
    BY <2>1
<1>5. ToSet(st) = ToSet(s) \cup ToSet(t)
  <2>1. DOMAIN st = 1..Len(st) /\ DOMAIN s = 1..Len(s) /\ DOMAIN t = 1..Len(t)
    BY <1>2, LenProperties DEF st
  <2>2. ASSUME NEW i \in 1..Len(st) PROVE st[i] \in ToSet(s) \cup ToSet(t)
    BY <1>3, <1>4, <2>1, <2>2 DEF ToSet
  <2>3. \A i \in 1..Len(s) : s[i] \in ToSet(st)
    BY <1>3, <2>1 DEF ToSet
  <2>4. \A i \in 1..Len(t) : t[i] \in ToSet(st)
    BY <1>3, <2>1 DEF ToSet
  <2> QED
    BY <2>1, <2>2, <2>3, <2>4 DEF ToSet
<1> QED
  BY <1>1, <1>2, <1>3, <1>4, <1>5 DEF st

\* When a concatenation is a chain.
LEMMA ChainConcat ==
  ASSUME NEW S, NEW s \in Seq(S), NEW t \in Seq(S), NEW R
  PROVE  Chain(s \o t, R) <=> Chain(s, R) /\ Chain(t, R) /\ Before(ToSet(s), ToSet(t), R)
<1> DEFINE st == s \o t
<1>0. /\ Len(s) \in Nat /\ Len(t) \in Nat /\ Len(st) = Len(s) + Len(t)
      /\ \A i \in 1..Len(s) : i \in 1..Len(st) /\ st[i] = s[i]
      /\ \A i \in 1..Len(t) : Len(s) + i \in 1..Len(st) /\ st[Len(s) + i] = t[i]
      /\ \A i \in 1..Len(st) : i \in 1..Len(s) \/ \E j \in 1..Len(t) : i = Len(s) + j
  BY Concat
<1> HIDE DEF st
<1>1. ASSUME Chain(st, R) PROVE Chain(s, R) /\ Chain(t, R) /\ Before(ToSet(s), ToSet(t), R)
  <2>1. Chain(s, R)
    BY <1>0, <1>1 DEF Chain
  <2>2. ASSUME NEW i \in 1..Len(t), NEW j \in 1..Len(t), i < j PROVE <<t[i], t[j]>> \in R
    <3>1. Len(s) + i < Len(s) + j
      BY <1>0, <2>2
    <3>2. <<st[Len(s) + i], st[Len(s) + j]>> \in R
      BY <1>0, <1>1, <3>1 DEF Chain
    <3> QED
      BY <1>0, <3>2
  <2>3. ASSUME NEW i \in 1..Len(s), NEW j \in 1..Len(t) PROVE <<s[i], t[j]>> \in R
    <3>1. i < Len(s) + j
      BY <1>0
    <3>2. <<st[i], st[Len(s) + j]>> \in R
      BY <1>0, <1>1, <3>1 DEF Chain
    <3> QED
      BY <1>0, <3>2
  <2> QED
    BY <2>1, <2>2, <2>3, Elements DEF Chain, Before
<1>2. ASSUME Chain(s, R), Chain(t, R), Before(ToSet(s), ToSet(t), R) PROVE Chain(st, R)
  <2> SUFFICES ASSUME NEW i \in 1..Len(st), NEW j \in 1..Len(st), i < j
               PROVE  <<st[i], st[j]>> \in R
    BY DEF Chain
  <2>1. CASE j \in 1..Len(s)
    <3>1. i \in 1..Len(s)
      BY <1>0, <2>1
    <3> QED
      BY <1>0, <1>2, <2>1, <3>1 DEF Chain
  <2>2. CASE i \in 1..Len(s) /\ j \notin 1..Len(s)
    <3>1. PICK k \in 1..Len(t) : j = Len(s) + k
      BY <1>0, <2>2
    <3>2. s[i] \in ToSet(s) /\ t[k] \in ToSet(t)
      BY <2>2, Elements
    <3> QED
      BY <1>0, <1>2, <2>2, <3>1, <3>2 DEF Before
  <2>3. CASE i \notin 1..Len(s) /\ j \notin 1..Len(s)
    <3>1. PICK k \in 1..Len(t), l \in 1..Len(t) : i = Len(s) + k /\ j = Len(s) + l
      BY <1>0, <2>3
    <3>2. k < l
      BY <1>0, <3>1
    <3> QED
      BY <1>0, <1>2, <3>1, <3>2 DEF Chain
  <2> QED
    BY <1>0, <2>1, <2>2, <2>3
<1> QED
  BY <1>1, <1>2 DEF st

\* A single element.
LEMMA Single ==
  ASSUME NEW S, NEW e \in S, NEW R
  PROVE  <<e>> \in Seq(S) /\ ToSet(<<e>>) = {e} /\ Chain(<<e>>, R)
  BY DEF ToSet, Chain

\* None.
LEMMA Nothing == ASSUME NEW R PROVE ToSet(<<>>) = {} /\ Chain(<<>>, R)
  BY DEF ToSet, Chain

\* One more at the end.
LEMMA Appended ==
  ASSUME NEW S, NEW s \in Seq(S), NEW e \in S
  PROVE  Append(s, e) \in Seq(S) /\ Len(Append(s, e)) = Len(s) + 1 /\ Append(s, e) = s \o <<e>>
  BY AppendIsConcat, AppendProperties

\* What is in the sequence then.
LEMMA AppendedHolds ==
  ASSUME NEW S, NEW s \in Seq(S), NEW e \in S
  PROVE  ToSet(Append(s, e)) = ToSet(s) \cup {e}
<1>1. Append(s, e) = s \o <<e>>
  BY Appended
<1> DEFINE l == <<e>>
<1>2. l \in Seq(S) /\ ToSet(l) = {e}
  BY Single
<1> HIDE DEF l
<1>3. ToSet(s \o l) = ToSet(s) \cup ToSet(l)
  BY <1>2, Concat
<1> QED
  BY <1>1, <1>2, <1>3 DEF l

\* When it is a chain.
LEMMA ChainAppend ==
  ASSUME NEW S, NEW s \in Seq(S), NEW e \in S, NEW R
  PROVE  Chain(Append(s, e), R) <=> Chain(s, R) /\ Before(ToSet(s), {e}, R)
<1> DEFINE l == <<e>>
<1>1. l \in Seq(S) /\ ToSet(l) = {e} /\ Chain(l, R)
  BY Single
<1>2. Append(s, e) = s \o l
  BY Appended
<1> HIDE DEF l
<1>3. Chain(s \o l, R) <=> Chain(s, R) /\ Chain(l, R) /\ Before(ToSet(s), ToSet(l), R)
  BY <1>1, ChainConcat
<1> QED
  BY <1>1, <1>2, <1>3

\* One less at the beginning.
LEMMA Beheaded ==
  ASSUME NEW S, NEW s \in Seq(S), s # <<>>
  PROVE  /\ Head(s) \in S /\ Tail(s) \in Seq(S) /\ Len(Tail(s)) = Len(s) - 1
         /\ s = <<Head(s)>> \o Tail(s)
         /\ ToSet(s) = {Head(s)} \cup ToSet(Tail(s))
<1>1. Head(s) \in S /\ Tail(s) \in Seq(S) /\ Len(Tail(s)) = Len(s) - 1
  BY HeadTailProperties
<1>2. s = <<Head(s)>> \o Tail(s)
  <2>1. Len(s) \in Nat \ {0} /\ SubSeq(s, 1, Len(s)) = s
    BY EmptySeq, SubSeqFull
  <2>2. SubSeq(s, 1, Len(s)) = <<s[1]>> \o SubSeq(s, 2, Len(s))
    BY <2>1, SubSeqRecursiveFirst
  <2> QED
    BY <2>1, <2>2, TailIsSubSeq
<1> DEFINE h == <<Head(s)>>
           t == Tail(s)
<1>3. h \in Seq(S) /\ t \in Seq(S) /\ ToSet(h) = {Head(s)}
  BY <1>1, Single
<1> HIDE DEF h, t
<1>4. ToSet(h \o t) = ToSet(h) \cup ToSet(t)
  BY <1>3, Concat
<1> QED
  BY <1>1, <1>2, <1>3, <1>4 DEF h, t

\* What remains is a chain, after the element taken.
LEMMA ChainTail ==
  ASSUME NEW S, NEW s \in Seq(S), s # <<>>, NEW R, Chain(s, R)
  PROVE  Chain(Tail(s), R) /\ Before({Head(s)}, ToSet(Tail(s)), R)
<1> DEFINE h == <<Head(s)>>
           t == Tail(s)
<1>1. h \in Seq(S) /\ t \in Seq(S) /\ ToSet(h) = {Head(s)} /\ s = h \o t
  BY Beheaded, Single
<1> HIDE DEF h, t
<1>2. Chain(h \o t, R) => Chain(t, R) /\ Before(ToSet(h), ToSet(t), R)
  BY <1>1, ChainConcat
<1> QED
  BY <1>1, <1>2 DEF t

\* Cut in two.
LEMMA Cut ==
  ASSUME NEW S, NEW s \in Seq(S), NEW n \in 0..Len(s)
  PROVE  /\ SubSeq(s, 1, n) \in Seq(S) /\ SubSeq(s, n + 1, Len(s)) \in Seq(S)
         /\ Len(SubSeq(s, 1, n)) = n
         /\ s = SubSeq(s, 1, n) \o SubSeq(s, n + 1, Len(s))
<1>1. Len(s) \in Nat /\ \A i \in 1..Len(s) : s[i] \in S
  BY LenProperties, ElementOfSeq
<1>2. /\ SubSeq(s, 1, n) \in Seq(S) /\ SubSeq(s, n + 1, Len(s)) \in Seq(S)
      /\ Len(SubSeq(s, 1, n)) = n
  <2>1. /\ SubSeq(s, 1, n) \in Seq(S)
        /\ Len(SubSeq(s, 1, n)) = IF 1 <= n THEN n - 1 + 1 ELSE 0
    BY <1>1, SubSeqProperties
  <2>2. SubSeq(s, n + 1, Len(s)) \in Seq(S)
    BY <1>1, SubSeqProperties
  <2> QED
    BY <1>1, <2>1, <2>2
<1>3. SubSeq(s, 1, n) \o SubSeq(s, n + 1, Len(s)) = SubSeq(s, 1, Len(s))
  <2>1. 1 \in 1..Len(s) + 1 /\ n \in 1 - 1..Len(s) /\ Len(s) \in n..Len(s)
    BY <1>1
  <2> QED
    BY <2>1, ConcatAdjacentSubSeq
<1> QED
  BY <1>2, <1>3, SubSeqFull

-----------------------------------------------------------------------------
(* The inductive invariant, by what it is about.                           *)

Pcs == Registering \cup Serving \cup {"absent", "retired", "dead"}

\* A handler has a character in hand when it sends, and room in its turn.
ThreadsOK ==
  /\ cpu \in {"building", "run", "written", "reading", "taking"}
  /\ rw_event \in BOOLEAN /\ overlap \in BOOLEAN
  /\ pc \in [Client -> Pcs] /\ alive \in [Client -> BOOLEAN]
  /\ sent \in [Client -> 0..MaxHandled]
  /\ \A c \in Client :
       /\ hand[c] # None <=> pc[c] = "send"
       /\ pc[c] \in {"get", "send"} => sent[c] < MaxHandled

\* A handler that receives has queued what it received before.
TurnOK == \A c \in Client : chunk[c] # <<>> => pc[c] = "put"

Held(c) == {hand[c]} \ {None}
Out(c) == ToSet(received[c]) \cup Held(c)

\* What a client got, what its handler holds and what is queued follow each
\* other, and no two clients have a character in common.
OutOK ==
  /\ written \in 0..Writes
  /\ write_queue \in Seq(1..written) /\ Len(write_queue) <= OutCap
  /\ hand \in [Client -> 1..written \cup {None}]
  /\ received \in [Client -> Seq(1..written)]
  /\ Chain(write_queue, Less)
  /\ \A c \in Client :
       /\ Chain(received[c], Less)
       /\ Before(ToSet(received[c]), Held(c), Less)
       /\ Before(Out(c), ToSet(write_queue), Less)
  /\ \A c, d \in Client : c # d => Out(c) \cap Out(d) = {}

Line(c) == {c} \X (1..typed[c])
Guest == ToSet(consumed) \cup ToSet(read_queue)

\* What the guest has or is to get, what a handler has received and what its
\* client has typed follow each other.
LineOK(c) ==
  /\ chunk[c] \in Seq(Line(c)) /\ socket[c] \in Seq(Line(c))
  /\ Len(chunk[c]) <= MaxHandled
  /\ Chain(chunk[c], Later) /\ Chain(socket[c], Later)
  /\ Before(Guest, ToSet(chunk[c]), Later) /\ Before(Guest, ToSet(socket[c]), Later)
  /\ Before(ToSet(chunk[c]), ToSet(socket[c]), Later)

InOK ==
  /\ typed \in [Client -> 0..Keys]
  /\ consumed \in Seq(Char)
  /\ read_queue \in Seq(Char) /\ Len(read_queue) <= InCap
  /\ chunk \in [Client -> Seq(Char)] /\ socket \in [Client -> Seq(Char)]
  /\ Guest \subseteq Char /\ \A x \in Guest : x[2] <= typed[x[1]]
  /\ Chain(consumed, Later) /\ Chain(read_queue, Later)
  /\ Before(ToSet(consumed), ToSet(read_queue), Later)
  /\ \A c \in Client : LineOK(c)

Registered == {c \in Client : pc[c] = "read_id" \/ my_client_id[c] # None}

\* The counter counts at most the connections that have stored it, and the one
\* that stored it last reads its own number back, if no other has since.
IdsOK ==
  /\ loaded \in [Client -> Nat \cup {None}] /\ my_client_id \in [Client -> Nat \cup {None}]
  /\ cpu = "building" <=> client_id = None
  /\ client_id = None => \A c \in Client : pc[c] \in {"absent", "load", "dead"}
  /\ client_id # None => client_id \in 0..Cardinality(Registered)
  /\ Registered # {} => client_id # None /\ client_id > 0
  /\ \A c \in Client :
       /\ pc[c] \in Serving \cup {"retired"} => my_client_id[c] # None
       /\ pc[c] \in Registering \cup {"absent"} => my_client_id[c] = None
       /\ pc[c] = "store" => loaded[c] \in 0..Cardinality(Registered)
       /\ loaded[c] \in 0..Cardinality(Client) \cup {None}
       /\ my_client_id[c] \in 0..Cardinality(Client) \cup {None}
  /\ client_id \notin {None, 0} =>
       \E c \in Client : pc[c] = "read_id" \/ (pc[c] \in Serving \cup {"dead"} /\ Current(c))

\* Without an overlap the numbers of connections differ.
ApartOK ==
  ~overlap =>
    /\ \A c, d \in Client : pc[c] \in Registering /\ pc[d] \in Registering => c = d
    /\ \A c \in Client : pc[c] = "store" => loaded[c] = client_id
    /\ \A c \in Client : my_client_id[c] # None => my_client_id[c] <= client_id
    /\ \A c, d \in Client : pc[c] = "read_id" => my_client_id[d] # client_id
    /\ \A c, d \in Client : my_client_id[c] # None /\ my_client_id[c] = my_client_id[d] => c = d

\* A lone handler that is about to wait over a character finds the event set.
WakeOK ==
  \A c \in Client : (\A d \in Client \ {c} : pc[d] = "absent") =>
    /\ pc[c] = "wait" => write_queue = <<>> \/ cpu = "written" \/ rw_event
    /\ pc[c] = "blocked" => write_queue = <<>> \/ cpu = "written"

IInv == ThreadsOK /\ TurnOK /\ OutOK /\ InOK /\ IdsOK /\ ApartOK /\ WakeOK

-----------------------------------------------------------------------------

\* The invariant holds at the start.
LEMMA InitIInv == Init => IInv
<1> SUFFICES ASSUME Init PROVE IInv
  OBVIOUS
<1> USE UartConstants
<1>1. ThreadsOK
  <2>1. 0 \in 0..MaxHandled
    OBVIOUS
  <2>2. \A c \in Client : hand[c] = None /\ pc[c] = "absent"
    BY DEF Init
  <2> QED
    BY <2>1, <2>2 DEF Init, ThreadsOK, Pcs
<1>0. /\ \A S : <<>> \in Seq(S)
      /\ Len(<<>>) = 0 /\ ToSet(<<>>) = {} /\ \A R : Chain(<<>>, R)
  BY EmptySeq, Nothing
<1>2. OutOK
  <2>1. \A c \in Client : Held(c) = {} /\ Out(c) = {} /\ received[c] = <<>>
    BY <1>0 DEF Init, Held, Out
  <2> QED
    BY <1>0, <2>1 DEF Init, OutOK, Before
<1>3. InOK
  <2>1. Guest = {}
    BY <1>0 DEF Init, Guest
  <2>2. \A c \in Client : chunk[c] = <<>> /\ socket[c] = <<>>
    BY DEF Init
  <2> QED
    BY <1>0, <2>1, <2>2 DEF Init, InOK, LineOK, Before
<1>4. IdsOK
  BY DEF Init, IdsOK, Registering, Serving, Registered
<1>5. ApartOK
  BY DEF Init, ApartOK, Registering
<1>6. WakeOK
  BY DEF Init, WakeOK
<1>7. TurnOK
  BY DEF Init, TurnOK
<1> QED
  BY <1>1, <1>2, <1>3, <1>4, <1>5, <1>6, <1>7 DEF IInv

\* Which steps touch the output.
LEMMA OutFrame ==
  ASSUME [Next]_vars
  PROVE  \/ UNCHANGED <<write_queue, hand, received, written>>
         \/ WritePut
         \/ \E c \in Client : Get(c) \/ Send(c) \/ SendTimeout(c) \/ Die(c)
BY DEF Next, CpuThread, SetId, WriteSet, ReadSet, ReadCheck, ReadTake, Connect, Type, Close,
       Handler, NoId, LoadId, StoreId, ReadId, Check, Recv, Put, PutDone, WriteCheck,
       IdleCheck, Wait, WaitTimeout, Clear, vars, queues, regs, io, history

\* Which steps touch the input.
LEMMA InFrame ==
  ASSUME [Next]_vars
  PROVE  \/ UNCHANGED <<read_queue, consumed, chunk, socket, typed>>
         \/ ReadTake
         \/ \E c \in Client : Type(c) \/ Recv(c) \/ Put(c)
BY DEF Next, CpuThread, SetId, WritePut, Offer, WriteSet, ReadSet, ReadCheck, Connect, Close,
       Handler, NoId, LoadId, StoreId, ReadId, Check, PutDone, WriteCheck, Get, Send,
       SendTimeout, Die, IdleCheck, Wait, WaitTimeout, Clear, vars, queues, regs, io, history

\* The numbers below the next one.
LEMMA LessAfter ==
  ASSUME NEW n \in Nat, NEW A \in SUBSET (1..n)
  PROVE  Before(A, {n + 1}, Less)
  BY DEF Before, Less

\* Every step keeps the output in order.
LEMMA OutKept == IInv /\ [Next]_vars => OutOK'
<1> SUFFICES ASSUME IInv, [Next]_vars PROVE OutOK'
  OBVIOUS
<1> USE DEF IInv
<1>n. written \in Nat
  BY UartConstants DEF OutOK
<1>1. CASE UNCHANGED <<write_queue, hand, received, written>>
  BY <1>1 DEF OutOK, Out, Held
<1>2. CASE WritePut
  <2>1. CASE Len(write_queue) < OutCap
    <3> DEFINE n == written + 1
    <3>1. /\ write_queue' = Append(write_queue, n) /\ written' = n
          /\ n \in 0..Writes /\ UNCHANGED <<hand, received>>
      BY <1>2, <2>1, <1>n, UartConstants DEF WritePut, Offer, io
    <3>2. /\ write_queue \in Seq(1..n) /\ 1..written \subseteq 1..n
          /\ \A c \in Client : received[c] \in Seq(1..n) /\ hand[c] \in 1..n \cup {None}
      <4>1. 1..written \subseteq 1..n
        BY <1>n
      <4>2. write_queue \in Seq(1..n)
        BY <4>1, SeqMonotonic DEF OutOK
      <4>3. ASSUME NEW c \in Client PROVE received[c] \in Seq(1..n) /\ hand[c] \in 1..n \cup {None}
        <5>1. received[c] \in Seq(1..written) /\ hand[c] \in 1..written \cup {None}
          BY DEF OutOK
        <5>2. received[c] \in Seq(1..n)
          BY <4>1, <5>1, SeqMonotonic
        <5> QED
          BY <4>1, <5>1, <5>2
      <4> QED
        BY <4>1, <4>2, <4>3
    <3>3. n \in 1..n
      BY <1>n
    <3>4. /\ Append(write_queue, n) \in Seq(1..n)
          /\ ToSet(Append(write_queue, n)) = ToSet(write_queue) \cup {n}
          /\ Len(Append(write_queue, n)) = Len(write_queue) + 1
          /\ Chain(Append(write_queue, n), Less) <=>
               Chain(write_queue, Less) /\ Before(ToSet(write_queue), {n}, Less)
      <4> DEFINE N == 1..n
      <4>1. write_queue \in Seq(N) /\ n \in N
        BY <3>2, <3>3
      <4> HIDE DEF N, n
      <4>2. Append(write_queue, n) \in Seq(N) /\ Len(Append(write_queue, n)) = Len(write_queue) + 1
        BY <4>1, Appended
      <4>3. ToSet(Append(write_queue, n)) = ToSet(write_queue) \cup {n}
        BY <4>1, AppendedHolds
      <4>4. Chain(Append(write_queue, n), Less) <=>
              Chain(write_queue, Less) /\ Before(ToSet(write_queue), {n}, Less)
        BY <4>1, ChainAppend
      <4> QED
        BY <4>2, <4>3, <4>4 DEF N
    <3>5. ToSet(write_queue) \subseteq 1..written /\ Len(write_queue) \in Nat
      BY Elements DEF OutOK
    <3>6. \A c \in Client : Out(c) \subseteq 1..written
      <4>1. ASSUME NEW c \in Client PROVE ToSet(received[c]) \subseteq 1..written
        BY Elements DEF OutOK
      <4> QED
        BY <4>1 DEF OutOK, Out, Held
    <3>7. Len(write_queue') <= OutCap
      BY <2>1, <3>1, <3>4, <3>5, UartConstants
    <3>8. Chain(write_queue', Less)
      BY <1>n, <3>1, <3>4, <3>5, LessAfter DEF OutOK
    <3>9. ASSUME NEW c \in Client PROVE Before(Out(c), ToSet(write_queue) \cup {n}, Less)
      <4>1. Before(Out(c), {n}, Less)
        BY <1>n, <3>6, LessAfter
      <4> QED
        BY <4>1 DEF OutOK, Before
    <3>10. \A c \in Client : Held(c)' = Held(c) /\ Out(c)' = Out(c)
      BY <3>1 DEF Held, Out
    <3>11. ToSet(write_queue') = ToSet(write_queue) \cup {n}
      BY <3>1, <3>4
    <3>12. /\ hand' \in [Client -> 1..n \cup {None}]
           /\ received' \in [Client -> Seq(1..n)]
      BY <3>1, <3>2 DEF OutOK
    <3> HIDE DEF n
    <3> QED
      BY <3>1, <3>4, <3>7, <3>8, <3>9, <3>10, <3>11, <3>12 DEF OutOK
  <2>2. CASE ~(Len(write_queue) < OutCap)
    <3>1. UNCHANGED <<write_queue, hand, received>> /\ written' = written + 1 /\ written' \in 0..Writes
      BY <1>2, <2>2, <1>n, UartConstants DEF WritePut, Offer, io
    <3>2. 1..written \subseteq 1..written'
      BY <1>n, <3>1
    <3>3. write_queue \in Seq(1..written')
      BY <3>2, SeqMonotonic DEF OutOK
    <3>4. ASSUME NEW c \in Client PROVE received[c] \in Seq(1..written') /\ hand[c] \in 1..written' \cup {None}
      <4>1. received[c] \in Seq(1..written) /\ hand[c] \in 1..written \cup {None}
        BY DEF OutOK
      <4>2. received[c] \in Seq(1..written')
        BY <3>2, <4>1, SeqMonotonic
      <4> QED
        BY <3>2, <4>1, <4>2
    <3> QED
      BY <3>1, <3>3, <3>4 DEF OutOK, Out, Held
  <2> QED
    BY <2>1, <2>2
<1>3. ASSUME NEW c \in Client, Get(c) PROVE OutOK'
  <2>1. CASE write_queue = <<>>
    BY <1>3, <2>1 DEF Get, OutOK, Out, Held, history
  <2>2. CASE write_queue # <<>>
    <3> DEFINE h == Head(write_queue)
               q == Tail(write_queue)
    <3>1. /\ hand' = [hand EXCEPT ![c] = h] /\ write_queue' = q
          /\ UNCHANGED <<received, written>> /\ pc[c] = "get"
      BY <1>3, <2>2 DEF Get, history
    <3>2. /\ h \in 1..written /\ q \in Seq(1..written) /\ Len(q) = Len(write_queue) - 1
          /\ ToSet(write_queue) = {h} \cup ToSet(q)
          /\ Chain(q, Less) /\ Before({h}, ToSet(q), Less)
      BY <2>2, Beheaded, ChainTail DEF OutOK
    <3>3. Len(q) <= OutCap
      <4>1. Len(write_queue) \in Nat /\ Len(write_queue) <= OutCap
        BY LenProperties DEF OutOK
      <4> QED
        BY <3>2, <4>1, UartConstants
    <3>4. hand[c] = None /\ h # None
      BY <1>n, <3>1, <3>2, UartConstants DEF ThreadsOK
    <3> HIDE DEF h, q
    <3>5. /\ Held(c)' = {h} /\ Out(c)' = Out(c) \cup {h} /\ Held(c) = {}
          /\ \A d \in Client \ {c} : Held(d)' = Held(d) /\ Out(d)' = Out(d)
      BY <3>1, <3>4 DEF Held, Out, OutOK
    <3>6. \A d \in Client : h \notin Out(d)
      <4> SUFFICES ASSUME NEW d \in Client, h \in Out(d) PROVE FALSE
        OBVIOUS
      <4>1. <<h, h>> \in Less
        BY <3>2 DEF OutOK, Before
      <4> QED
        BY <4>1 DEF Less
    <3>7. ASSUME NEW d \in Client
          PROVE  /\ Chain(received[d], Less) /\ Before(ToSet(received[d]), Held(d)', Less)
                 /\ Before(Out(d)', ToSet(q), Less)
      <4>1. CASE d = c
        BY <3>2, <3>5, <4>1 DEF OutOK, Before, Out
      <4>2. CASE d # c
        BY <3>2, <3>5, <4>2 DEF OutOK, Before
      <4> QED
        BY <4>1, <4>2
    <3>8. hand' \in [Client -> 1..written \cup {None}]
      BY <3>1, <3>2 DEF OutOK
    <3>9. ASSUME NEW d \in Client, NEW e \in Client, d # e PROVE Out(d)' \cap Out(e)' = {}
      <4>1. Out(d) \cap Out(e) = {} /\ h \notin Out(d) /\ h \notin Out(e)
        BY <3>6, <3>9 DEF OutOK
      <4> QED
        BY <3>5, <3>9, <4>1
    <3> QED
      BY <3>1, <3>2, <3>3, <3>7, <3>8, <3>9 DEF OutOK
  <2> QED
    BY <2>1, <2>2
<1>4. ASSUME NEW c \in Client, Send(c), alive[c], hand[c] # Unnumbered PROVE OutOK'
  <2> DEFINE got == received[c]
             h == hand[c]
             N == 1..written
  <2>1. /\ received' = [received EXCEPT ![c] = Append(got, h)] /\ hand' = [hand EXCEPT ![c] = None]
        /\ UNCHANGED <<write_queue, written>> /\ pc[c] = "send"
    BY <1>4 DEF Send, queues
  <2>2. h # None /\ Held(c) = {h}
    BY <2>1 DEF ThreadsOK, OutOK, Held
  <2>0. h \in N /\ got \in Seq(N)
    BY <2>2 DEF OutOK
  <2> HIDE DEF got, h, N
  <2>3. /\ Append(got, h) \in Seq(N) /\ ToSet(Append(got, h)) = ToSet(got) \cup {h}
        /\ Chain(Append(got, h), Less) <=> Chain(got, Less) /\ Before(ToSet(got), {h}, Less)
    <3>1. Append(got, h) \in Seq(N)
      BY <2>0, AppendProperties
    <3>3. ToSet(Append(got, h)) = ToSet(got) \cup {h}
      BY <2>0, AppendedHolds
    <3>2. Chain(Append(got, h), Less) <=> Chain(got, Less) /\ Before(ToSet(got), {h}, Less)
      BY <2>0, ChainAppend
    <3> QED
      BY <3>1, <3>2, <3>3
  <2> USE DEF got, h, N
  <2>4. Chain(Append(got, h), Less)
    BY <2>2, <2>3 DEF OutOK
  <2>5. ToSet(got) \cup {h} = Out(c)
    BY <2>2 DEF Out
  <2> DEFINE sh == Append(got, h)
  <2> HIDE DEF sh
  <2>6. received'[c] = sh /\ hand'[c] = None /\ \A d \in Client \ {c} : received'[d] = received[d] /\ hand'[d] = hand[d]
    BY <2>1 DEF OutOK, sh
  <2>7. /\ Held(c)' = {} /\ Out(c)' = Out(c)
        /\ \A d \in Client \ {c} : Held(d)' = Held(d) /\ Out(d)' = Out(d)
    BY <2>3, <2>5, <2>6 DEF Held, Out, sh
  <2>8. received' \in [Client -> Seq(1..written)] /\ hand' \in [Client -> 1..written \cup {None}]
    BY <2>1, <2>3 DEF OutOK
  <2>9. ASSUME NEW d \in Client
        PROVE  /\ Chain(received'[d], Less) /\ Before(ToSet(received'[d]), Held(d)', Less)
               /\ Before(Out(d)', ToSet(write_queue), Less)
    <3>1. CASE d = c
      BY <2>4, <2>6, <2>7, <3>1 DEF OutOK, Before, sh
    <3>2. CASE d # c
      BY <2>6, <2>7, <3>2 DEF OutOK
    <3> QED
      BY <3>1, <3>2
  <2> QED
    BY <2>1, <2>7, <2>8, <2>9 DEF OutOK
<1>5. ASSUME NEW c \in Client, (Send(c) /\ ~(alive[c] /\ hand[c] # Unnumbered)) \/ SendTimeout(c) \/ Die(c) PROVE OutOK'
  <2>1. hand' = [hand EXCEPT ![c] = None] /\ UNCHANGED <<write_queue, received, written>>
    BY <1>5 DEF Send, SendTimeout, Die, queues, history
  <2>2. /\ Held(c)' = {} /\ Out(c)' \subseteq Out(c)
        /\ \A d \in Client \ {c} : Held(d)' = Held(d) /\ Out(d)' = Out(d)
    BY <2>1 DEF Held, Out, OutOK
  <2>3. \A d \in Client : Held(d)' \subseteq Held(d) /\ Out(d)' \subseteq Out(d)
    BY <2>2
  <2>4. hand' \in [Client -> 1..written \cup {None}]
    BY <2>1 DEF OutOK
  <2>5. \A d \in Client : Before(ToSet(received[d]), Held(d)', Less) /\ Before(Out(d)', ToSet(write_queue), Less)
    BY <2>3 DEF OutOK, Before
  <2>6. \A d, e \in Client : d # e => Out(d)' \cap Out(e)' = {}
    BY <2>3 DEF OutOK
  <2> QED
    BY <2>1, <2>4, <2>5, <2>6 DEF OutOK
<1> QED
  BY <1>1, <1>2, <1>3, <1>4, <1>5, OutFrame

\* A character of a client comes after those with a lower number.
LEMMA LaterAfter ==
  ASSUME NEW c \in Client, NEW n \in Nat, n + 1 \in 1..Keys,
         NEW A \in SUBSET Char, \A x \in A : x[1] = c => x[2] <= n
  PROVE  Before(A, {<<c, n + 1>>}, Later)
<1> DEFINE e == <<c, n + 1>>
<1>1. e \in Char /\ e[1] = c /\ e[2] = n + 1
  BY DEF Char
<1> HIDE DEF e
<1>2. ASSUME NEW x \in A PROVE <<x, e>> \in Later
  <2>1. x \in Char /\ x[2] \in Nat
    BY UartConstants DEF Char
  <2>2. x[1] = e[1] => x[2] < e[2]
    BY <1>1, <2>1
  <2> QED
    BY <1>1, <2>1, <2>2 DEF Later
<1> QED
  BY <1>2 DEF Before, e

\* Characters of different clients are in no order.
LEMMA LaterApart ==
  ASSUME NEW x \in Char, NEW y \in Char, x[1] # y[1]
  PROVE  <<x, y>> \in Later
  BY DEF Later

\* What a client has typed.
LEMMA Lines ==
  ASSUME InOK, NEW c \in Client
  PROVE  /\ typed[c] \in 0..Keys /\ typed[c] \in Nat /\ Line(c) \subseteq Char
         /\ \A x \in Line(c) : x[1] = c /\ x[2] <= typed[c]
         /\ ToSet(chunk[c]) \subseteq Line(c) /\ ToSet(socket[c]) \subseteq Line(c)
<1>1. typed[c] \in 0..Keys /\ typed[c] \in Nat
  BY UartConstants DEF InOK
<1>2. ToSet(chunk[c]) \subseteq Line(c) /\ ToSet(socket[c]) \subseteq Line(c)
  BY Elements DEF InOK, LineOK
<1>3. Line(c) \subseteq Char /\ \A x \in Line(c) : x[1] = c /\ x[2] <= typed[c]
  BY <1>1, UartConstants DEF Line, Char
<1> QED
  BY <1>1, <1>2, <1>3

\* Both parts of a chain that is cut are chains, in order.
LEMMA ChainCut ==
  ASSUME NEW S, NEW s \in Seq(S), NEW n \in 0..Len(s), NEW R, Chain(s, R)
  PROVE  /\ Chain(SubSeq(s, 1, n), R) /\ Chain(SubSeq(s, n + 1, Len(s)), R)
         /\ Before(ToSet(SubSeq(s, 1, n)), ToSet(SubSeq(s, n + 1, Len(s))), R)
         /\ ToSet(s) = ToSet(SubSeq(s, 1, n)) \cup ToSet(SubSeq(s, n + 1, Len(s)))
<1> DEFINE a == SubSeq(s, 1, n)
           b == SubSeq(s, n + 1, Len(s))
<1>1. a \in Seq(S) /\ b \in Seq(S) /\ s = a \o b
  BY Cut
<1> HIDE DEF a, b
<1>2. Chain(a \o b, R) => Chain(a, R) /\ Chain(b, R) /\ Before(ToSet(a), ToSet(b), R)
  BY <1>1, ChainConcat
<1>3. ToSet(a \o b) = ToSet(a) \cup ToSet(b)
  BY <1>1, Concat
<1> QED
  BY <1>1, <1>2, <1>3 DEF a, b

\* Every step keeps the input in order.
LEMMA InKept == IInv /\ [Next]_vars => InOK'
<1> SUFFICES ASSUME IInv, [Next]_vars PROVE InOK'
  OBVIOUS
<1>0. InOK
  BY DEF IInv
<1>1. CASE UNCHANGED <<read_queue, consumed, chunk, socket, typed>>
  BY <1>0, <1>1 DEF InOK, LineOK, Guest, Line
<1>2. CASE ReadTake
  <2>1. CASE read_queue = <<>>
    BY <1>0, <1>2, <2>1 DEF ReadTake, io, InOK, LineOK, Guest, Line
  <2>2. CASE read_queue # <<>>
    <3> DEFINE h == Head(read_queue)
               t == Tail(read_queue)
    <3>1. /\ read_queue' = t /\ consumed' = Append(consumed, h)
          /\ UNCHANGED <<chunk, socket, typed>>
      BY <1>2, <2>2 DEF ReadTake, io
    <3>2. /\ h \in Char /\ t \in Seq(Char) /\ Len(t) = Len(read_queue) - 1
          /\ ToSet(read_queue) = {h} \cup ToSet(t)
          /\ Chain(t, Later) /\ Before({h}, ToSet(t), Later)
      BY <1>0, <2>2, Beheaded, ChainTail DEF InOK
    <3>3. Len(t) <= InCap
      <4>1. Len(read_queue) \in Nat /\ Len(read_queue) <= InCap
        BY <1>0, LenProperties DEF InOK
      <4> QED
        BY <3>2, <4>1, UartConstants
    <3> HIDE DEF h, t
    <3>4. Append(consumed, h) \in Seq(Char) /\ ToSet(Append(consumed, h)) = ToSet(consumed) \cup {h}
      BY <1>0, <3>2, AppendProperties, AppendedHolds DEF InOK
    <3>5. Chain(Append(consumed, h), Later)
      <4>1. Before(ToSet(consumed), {h}, Later)
        BY <1>0, <3>2 DEF InOK, Before
      <4> QED
        BY <1>0, <3>2, <4>1, ChainAppend DEF InOK
    <3>6. Guest' = Guest
      BY <3>1, <3>2, <3>4 DEF Guest
    <3>7. Before(ToSet(consumed'), ToSet(t), Later)
      BY <1>0, <3>1, <3>2, <3>4 DEF InOK, Before
    <3>8. \A c \in Client : LineOK(c)'
      BY <1>0, <3>1, <3>6 DEF InOK, LineOK, Line
    <3> QED
      BY <1>0, <3>1, <3>2, <3>3, <3>4, <3>5, <3>6, <3>7, <3>8 DEF InOK
  <2> QED
    BY <2>1, <2>2
<1>3. ASSUME NEW c \in Client, Type(c) PROVE InOK'
  <2> DEFINE n == typed[c]
             e == <<c, n + 1>>
             s == Append(socket[c], e)
  <2>1. /\ typed' = [typed EXCEPT ![c] = n + 1] /\ socket' = [socket EXCEPT ![c] = s]
        /\ UNCHANGED <<read_queue, consumed, chunk>> /\ n < Keys
    BY <1>3 DEF Type, queues
  <2>2. n \in Nat /\ n + 1 \in 0..Keys /\ n + 1 \in 1..Keys
    BY <1>0, <2>1, Lines, UartConstants
  <2>3. /\ typed' \in [Client -> 0..Keys] /\ typed'[c] = n + 1
        /\ \A d \in Client : typed[d] \in Nat /\ typed'[d] \in Nat /\ typed[d] <= typed'[d]
        /\ \A d \in Client \ {c} : typed'[d] = typed[d]
    BY <1>0, <2>1, <2>2, UartConstants DEF InOK
  <2>4. /\ Line(c) \subseteq Line(c)' /\ e \in Line(c)' /\ e \in Char
        /\ \A d \in Client \ {c} : Line(d)' = Line(d)
    BY <2>2, <2>3 DEF Line, Char
  <2>5. s \in Seq(Line(c)') /\ socket[c] \in Seq(Line(c)') /\ chunk[c] \in Seq(Line(c)')
    <3>1. socket[c] \in Seq(Line(c)') /\ chunk[c] \in Seq(Line(c)')
      BY <1>0, <2>4, SeqMonotonic DEF InOK, LineOK
    <3> QED
      BY <2>4, <3>1, AppendProperties
  <2>6. ToSet(s) = ToSet(socket[c]) \cup {e}
    BY <2>4, <2>5, AppendedHolds
  <2>7. /\ Before(Guest, {e}, Later) /\ Before(ToSet(chunk[c]), {e}, Later)
        /\ Before(ToSet(socket[c]), {e}, Later)
    <3>1. /\ Guest \subseteq Char /\ ToSet(chunk[c]) \subseteq Char /\ ToSet(socket[c]) \subseteq Char
      BY <1>0, Lines DEF InOK
    <3>2. /\ \A x \in Guest : x[1] = c => x[2] <= n
          /\ \A x \in ToSet(chunk[c]) : x[2] <= n
          /\ \A x \in ToSet(socket[c]) : x[2] <= n
      BY <1>0, Lines DEF InOK
    <3> QED
      BY <2>2, <3>1, <3>2, LaterAfter
  <2> HIDE DEF e, s
  <2>8. Chain(s, Later)
    BY <1>0, <2>4, <2>5, <2>7, ChainAppend DEF InOK, LineOK, s
  <2>9. Guest' = Guest
    BY <2>1 DEF Guest
  <2>10. /\ socket'[c] = s /\ \A d \in Client \ {c} : socket'[d] = socket[d]
    BY <1>0, <2>1 DEF InOK
  <2>11. LineOK(c)'
    BY <1>0, <2>1, <2>5, <2>6, <2>7, <2>8, <2>9, <2>10 DEF InOK, LineOK, Before
  <2>12. \A d \in Client \ {c} : LineOK(d)'
    BY <1>0, <2>1, <2>4, <2>9, <2>10 DEF InOK, LineOK
  <2>13. socket' \in [Client -> Seq(Char)]
    <3>1. s \in Seq(Char)
      BY <1>0, <2>4, AppendProperties DEF InOK, s
    <3> QED
      BY <1>0, <2>1, <3>1 DEF InOK
  <2>14. \A x \in Guest : x[2] <= typed'[x[1]]
    <3> SUFFICES ASSUME NEW x \in Guest PROVE x[2] <= typed'[x[1]]
      OBVIOUS
    <3>1. x[1] \in Client /\ x[2] \in Nat /\ x[2] <= typed[x[1]]
      BY <1>0, UartConstants DEF InOK, Char
    <3> QED
      BY <2>3, <3>1
  <2> QED
    BY <1>0, <2>1, <2>3, <2>9, <2>11, <2>12, <2>13, <2>14 DEF InOK
<1>4. ASSUME NEW c \in Client, Recv(c) PROVE InOK'
  <2> DEFINE s == socket[c]
  <2>1. PICK n \in 0..MaxHandled :
          /\ n <= Len(s)
          /\ chunk' = [chunk EXCEPT ![c] = SubSeq(s, 1, n)]
          /\ socket' = [socket EXCEPT ![c] = SubSeq(s, n + 1, Len(s))]
    BY <1>4 DEF Recv
  <2>2. UNCHANGED <<read_queue, consumed, typed>>
    BY <1>4 DEF Recv, queues, history
  <2>3. s \in Seq(Line(c)) /\ n \in 0..Len(s) /\ Chain(s, Later) /\ Before(Guest, ToSet(s), Later)
    BY <1>0, <2>1, LenProperties, UartConstants DEF InOK, LineOK
  <2> DEFINE a == SubSeq(s, 1, n)
             b == SubSeq(s, n + 1, Len(s))
  <2> HIDE DEF s
  <2>4. a \in Seq(Line(c)) /\ b \in Seq(Line(c)) /\ Len(a) = n
    BY <2>3, Cut
  <2>5. /\ Chain(a, Later) /\ Chain(b, Later) /\ Before(ToSet(a), ToSet(b), Later)
        /\ ToSet(s) = ToSet(a) \cup ToSet(b)
    BY <2>3, ChainCut
  <2> HIDE DEF a, b
  <2>6. Guest' = Guest /\ \A d \in Client : Line(d)' = Line(d)
    BY <2>2 DEF Guest, Line
  <2>7. chunk'[c] = a /\ socket'[c] = b
    BY <1>0, <2>1 DEF InOK, a, b
  <2>8. \A d \in Client \ {c} : chunk'[d] = chunk[d] /\ socket'[d] = socket[d]
    BY <1>0, <2>1 DEF InOK
  <2>9. LineOK(c)'
    <3>1. n <= MaxHandled
      BY <2>1, UartConstants
    <3> QED
      BY <2>3, <2>4, <2>5, <2>6, <2>7, <3>1 DEF LineOK, Before
  <2>10. \A d \in Client \ {c} : LineOK(d)'
    BY <1>0, <2>6, <2>8 DEF InOK, LineOK
  <2>11. chunk' \in [Client -> Seq(Char)] /\ socket' \in [Client -> Seq(Char)]
    <3>1. Line(c) \subseteq Char
      BY <1>0, Lines
    <3>2. a \in Seq(Char) /\ b \in Seq(Char)
      BY <2>4, <3>1, SeqMonotonic
    <3> QED
      BY <1>0, <2>1, <3>2 DEF InOK, a, b
  <2> QED
    BY <1>0, <2>2, <2>6, <2>9, <2>10, <2>11 DEF InOK
<1>5. ASSUME NEW c \in Client, Put(c), Len(read_queue) < InCap PROVE InOK'
  <2> DEFINE h == Head(chunk[c])
             t == Tail(chunk[c])
             q == Append(read_queue, h)
  <2>1. /\ read_queue' = q /\ chunk' = [chunk EXCEPT ![c] = t] /\ chunk[c] # <<>>
        /\ UNCHANGED <<consumed, socket, typed>>
    BY <1>5 DEF Put, history
  <2>2. /\ h \in Line(c) /\ t \in Seq(Line(c)) /\ Len(t) = Len(chunk[c]) - 1
        /\ ToSet(chunk[c]) = {h} \cup ToSet(t)
        /\ Chain(t, Later) /\ Before({h}, ToSet(t), Later)
    BY <1>0, <2>1, Beheaded, ChainTail DEF InOK, LineOK
  <2> HIDE DEF h, t
  <2>3. h \in Char /\ h[1] = c /\ h[2] <= typed[c]
    BY <1>0, <2>2, Lines
  <2>4. q \in Seq(Char) /\ Len(q) = Len(read_queue) + 1
    BY <1>0, <2>3, AppendProperties DEF InOK
  <2>5. ToSet(q) = ToSet(read_queue) \cup {h}
    BY <1>0, <2>3, AppendedHolds DEF InOK
  <2>6. Before(Guest, {h}, Later) /\ Before({h}, ToSet(socket[c]), Later)
    BY <1>0, <2>2 DEF InOK, LineOK, Before
  <2>7. Before(ToSet(consumed), {h}, Later) /\ Before(ToSet(read_queue), {h}, Later)
    BY <2>6 DEF Before, Guest
  <2>8. Chain(q, Later)
    BY <1>0, <2>3, <2>7, ChainAppend DEF InOK
  <2> HIDE DEF q
  <2>9. Guest' = Guest \cup {h}
    BY <2>1, <2>5 DEF Guest
  <2>10. chunk'[c] = t /\ \A d \in Client \ {c} : chunk'[d] = chunk[d]
    BY <1>0, <2>1 DEF InOK
  <2>11. LineOK(c)'
    <3>1. Len(t) <= MaxHandled
      <4>1. Len(chunk[c]) \in Nat /\ Len(chunk[c]) <= MaxHandled
        BY <1>0, LenProperties DEF InOK, LineOK
      <4> QED
        BY <2>2, <4>1, UartConstants
    <3>2. /\ Before(Guest \cup {h}, ToSet(t), Later) /\ Before(Guest \cup {h}, ToSet(socket[c]), Later)
          /\ Before(ToSet(t), ToSet(socket[c]), Later)
      BY <1>0, <2>2, <2>6 DEF InOK, LineOK, Before
    <3>3. Line(c)' = Line(c)
      BY <2>1 DEF Line
    <3> QED
      BY <1>0, <2>1, <2>2, <2>9, <2>10, <3>1, <3>2, <3>3 DEF InOK, LineOK
  <2>12. ASSUME NEW d \in Client \ {c} PROVE LineOK(d)'
    <3>1. ASSUME NEW x \in Line(d) PROVE <<h, x>> \in Later
      BY <1>0, <2>3, <3>1, Lines, LaterApart
    <3>2. ToSet(chunk[d]) \subseteq Line(d) /\ ToSet(socket[d]) \subseteq Line(d)
      BY <1>0, Lines
    <3>3. Before(Guest \cup {h}, ToSet(chunk[d]), Later) /\ Before(Guest \cup {h}, ToSet(socket[d]), Later)
      BY <1>0, <3>1, <3>2 DEF InOK, LineOK, Before
    <3>4. Line(d)' = Line(d)
      BY <2>1 DEF Line
    <3> QED
      BY <1>0, <2>1, <2>9, <2>10, <3>3, <3>4 DEF InOK, LineOK
  <2>13. Len(q) <= InCap
    BY <1>0, <1>5, <2>4, LenProperties, UartConstants DEF InOK
  <2>14. Before(ToSet(consumed), ToSet(q), Later)
    BY <1>0, <2>5, <2>7 DEF InOK, Before
  <2>15. Guest' \subseteq Char /\ \A x \in Guest' : x[2] <= typed[x[1]]
    BY <1>0, <2>3, <2>9 DEF InOK
  <2>16. chunk' \in [Client -> Seq(Char)]
    <3>1. Line(c) \subseteq Char
      BY <1>0, Lines
    <3>2. t \in Seq(Char)
      BY <2>2, <3>1, SeqMonotonic
    <3> QED
      BY <1>0, <2>1, <3>2 DEF InOK
  <2>17. \A d \in Client : LineOK(d)'
    BY <2>11, <2>12
  <2> QED
    BY <1>0, <2>1, <2>4, <2>8, <2>13, <2>14, <2>15, <2>16, <2>17 DEF InOK
<1>6. ASSUME NEW c \in Client, Put(c), ~(Len(read_queue) < InCap) PROVE InOK'
  <2>1. chunk' = [chunk EXCEPT ![c] = <<>>] /\ UNCHANGED <<read_queue, consumed, socket, typed>>
    BY <1>6 DEF Put, history
  <2>2. /\ \A S : <<>> \in Seq(S)
        /\ Len(<<>>) = 0 /\ ToSet(<<>>) = {} /\ Chain(<<>>, Later)
    BY EmptySeq, Nothing
  <2>3. chunk'[c] = <<>> /\ \A d \in Client \ {c} : chunk'[d] = chunk[d]
    BY <1>0, <2>1 DEF InOK
  <2>4. Guest' = Guest /\ \A d \in Client : Line(d)' = Line(d)
    BY <2>1 DEF Guest, Line
  <2>5. \A S : Before(S, {}, Later) /\ Before({}, S, Later)
    BY DEF Before
  <2> DEFINE z == <<>>
  <2>9. \A S : z \in Seq(S)
    BY <2>2
  <2>10. Len(z) = 0 /\ ToSet(z) = {} /\ Chain(z, Later) /\ chunk'[c] = z
    BY <2>2, <2>3
  <2> HIDE DEF z
  <2>6. LineOK(c)'
    <3>1. 0 <= MaxHandled
      BY UartConstants
    <3>2. Before(Guest, ToSet(z), Later) /\ Before(ToSet(z), ToSet(socket[c]), Later)
      BY <2>5, <2>10
    <3>3. socket'[c] = socket[c] /\ Line(c)' = Line(c)
      BY <2>1, <2>4
    <3>4. z \in Seq(Line(c)) /\ Len(z) <= MaxHandled
      BY <2>9, <2>10, <3>1
    <3> QED
      BY <1>0, <2>4, <2>10, <3>2, <3>3, <3>4 DEF InOK, LineOK
  <2>7. \A d \in Client \ {c} : LineOK(d)'
    BY <1>0, <2>1, <2>3, <2>4 DEF InOK, LineOK
  <2>8. chunk' \in [Client -> Seq(Char)]
    BY <1>0, <2>1, <2>2 DEF InOK
  <2> QED
    BY <1>0, <2>1, <2>4, <2>6, <2>7, <2>8 DEF InOK
<1> QED
  BY <1>1, <1>2, <1>3, <1>4, <1>5, <1>6, InFrame

\* Every step keeps the threads well formed.
LEMMA ThreadsKept == IInv /\ [Next]_vars => ThreadsOK'
<1> SUFFICES ASSUME IInv, [Next]_vars PROVE ThreadsOK'
  OBVIOUS
<1>0. ThreadsOK
  BY DEF IInv
<1> USE DEF ThreadsOK, Pcs, Registering, Serving, queues, regs, io, history
<1>1. CASE SetId \/ WritePut \/ ReadCheck \/ ReadTake
  BY <1>0, <1>1 DEF SetId, WritePut, Offer, ReadCheck, ReadTake
<1>2. CASE WriteSet \/ \E l \in Reads : ReadSet(l)
  <2>1. Set /\ cpu' \in {"run", "reading"} /\ UNCHANGED <<regs, io>>
    BY <1>2, UartConstants DEF WriteSet, ReadSet
  <2> QED
    BY <1>0, <2>1 DEF Set
<1>3. ASSUME NEW c \in Client, Connect(c) \/ Type(c) \/ Close(c) PROVE ThreadsOK'
  BY <1>0, <1>3 DEF Connect, Type, Close, Goto
<1>4. ASSUME NEW c \in Client, NoId(c) \/ LoadId(c) \/ StoreId(c) \/ ReadId(c) \/ Check(c)
      PROVE  ThreadsOK'
  BY <1>0, <1>4 DEF NoId, LoadId, StoreId, ReadId, Check, Goto
<1>5. ASSUME NEW c \in Client, Recv(c) \/ Put(c) \/ IdleCheck(c) \/ Wait(c) \/ WaitTimeout(c) \/ Clear(c)
      PROVE  ThreadsOK'
  BY <1>0, <1>5 DEF Recv, Put, IdleCheck, Wait, WaitTimeout, Clear, Goto
<1>6. ASSUME NEW c \in Client, PutDone(c) \/ WriteCheck(c) PROVE ThreadsOK'
  BY <1>0, <1>6, UartConstants DEF PutDone, WriteCheck, GoOn, Goto
<1>7. ASSUME NEW c \in Client, Get(c) PROVE ThreadsOK'
  <2>1. CASE write_queue = <<>>
    BY <1>0, <1>7, <2>1 DEF Get, Goto
  <2>2. CASE write_queue # <<>>
    <3>1. Head(write_queue) # None
      <4>1. write_queue \in Seq(1..written) /\ written \in Nat
        BY UartConstants DEF IInv, OutOK
      <4>2. Head(write_queue) \in 1..written
        BY <2>2, <4>1, HeadTailProperties
      <4> QED
        BY <4>1, <4>2, UartConstants
    <3>2. hand \in [Client -> 1..written \cup {None}]
      BY DEF IInv, OutOK
    <3> DEFINE h == Head(write_queue)
    <3>3. hand' = [hand EXCEPT ![c] = h] /\ Goto(c, "send") /\ UNCHANGED <<cpu, rw_event, regs, sent, alive>>
          /\ pc[c] = "get"
      BY <1>7, <2>2 DEF Get
    <3> HIDE DEF h
    <3> QED
      BY <1>0, <3>1, <3>2, <3>3 DEF Goto, h
  <2> QED
    BY <2>1, <2>2
<1>8. ASSUME NEW c \in Client, Send(c) \/ SendTimeout(c) \/ Die(c) PROVE ThreadsOK'
  <2>1. hand \in [Client -> 1..written \cup {None}] /\ sent[c] \in 0..MaxHandled
    BY <1>0 DEF IInv, OutOK
  <2>2. pc[c] = "send" => sent[c] + 1 \in 0..MaxHandled
    BY <1>0, <2>1, UartConstants
  <2> QED
    BY <1>0, <1>8, <2>1, <2>2 DEF Send, SendTimeout, Die, Goto
<1>9. CASE UNCHANGED vars
  BY <1>0, <1>9 DEF vars
<1> QED
  BY <1>1, <1>2, <1>3, <1>4, <1>5, <1>6, <1>7, <1>8, <1>9 DEF Next, CpuThread, Handler

\* Every step keeps turns apart.
LEMMA TurnKept == IInv /\ [Next]_vars => TurnOK'
<1> SUFFICES ASSUME IInv, [Next]_vars, NEW c \in Client PROVE (chunk[c] # <<>> => pc[c] = "put")'
  BY DEF TurnOK
<1>0. /\ chunk[c] # <<>> => pc[c] = "put"
      /\ pc \in [Client -> Pcs] /\ chunk \in [Client -> Seq(Char)]
  BY DEF IInv, TurnOK, ThreadsOK, InOK
<1> USE DEF queues, regs, io, history
<1>1. CASE SetId \/ WritePut \/ ReadCheck \/ ReadTake
  BY <1>0, <1>1 DEF SetId, WritePut, Offer, ReadCheck, ReadTake
<1>2. CASE WriteSet \/ \E l \in Reads : ReadSet(l)
  BY <1>0, <1>2 DEF WriteSet, ReadSet, Set
<1>3. ASSUME NEW d \in Client, Connect(d) \/ Type(d) \/ Close(d) PROVE (chunk[c] # <<>> => pc[c] = "put")'
  BY <1>0, <1>3 DEF Connect, Type, Close, Goto
<1>4. ASSUME NEW d \in Client, Recv(d) \/ Put(d) \/ PutDone(d) PROVE (chunk[c] # <<>> => pc[c] = "put")'
  BY <1>0, <1>4 DEF Recv, Put, PutDone, Goto
<1>5. ASSUME NEW d \in Client, NoId(d) \/ LoadId(d) \/ StoreId(d) \/ ReadId(d) \/ Check(d) \/ WriteCheck(d)
      PROVE  (chunk[c] # <<>> => pc[c] = "put")'
  BY <1>0, <1>5 DEF NoId, LoadId, StoreId, ReadId, Check, WriteCheck, Goto
<1>6. ASSUME NEW d \in Client,
             Get(d) \/ Send(d) \/ SendTimeout(d) \/ Die(d) \/ IdleCheck(d) \/ Wait(d) \/ WaitTimeout(d) \/ Clear(d)
      PROVE  (chunk[c] # <<>> => pc[c] = "put")'
  BY <1>0, <1>6 DEF Get, Send, SendTimeout, Die, IdleCheck, Wait, WaitTimeout, Clear, Goto
<1>7. CASE UNCHANGED vars
  BY <1>0, <1>7 DEF vars
<1> QED
  BY <1>1, <1>2, <1>3, <1>4, <1>5, <1>6, <1>7 DEF Next, CpuThread, Handler

\* How many connections there can be.
LEMMA Connections ==
  /\ Cardinality(Client) \in Nat
  /\ \A S \in SUBSET Client :
       /\ IsFiniteSet(S) /\ Cardinality(S) \in Nat /\ Cardinality(S) <= Cardinality(Client)
       /\ \A c \in Client \ S : Cardinality(S \cup {c}) = Cardinality(S) + 1
<1>1. IsFiniteSet(Client)
  BY UartConstants
<1>2. ASSUME NEW S \in SUBSET Client
      PROVE  /\ IsFiniteSet(S) /\ Cardinality(S) \in Nat /\ Cardinality(S) <= Cardinality(Client)
             /\ \A c \in Client \ S : Cardinality(S \cup {c}) = Cardinality(S) + 1
  <2>1. IsFiniteSet(S) /\ Cardinality(S) <= Cardinality(Client)
    BY <1>1, FS_Subset
  <2> QED
    BY <2>1, FS_CardinalityType, FS_AddElement
<1> QED
  BY <1>1, <1>2, FS_CardinalityType

\* A handler that goes on, without registering.
Moves(c) ==
  \/ pc'[c] = pc[c]
  \/ pc[c] \in Serving /\ pc'[c] \in Serving \cup {"dead"}
  \/ pc[c] = "check" /\ pc'[c] = "retired" /\ ~Current(c)
  \/ pc[c] = "load" /\ pc'[c] = "dead"

Quiet ==
  /\ UNCHANGED regs /\ (cpu = "building" <=> cpu' = "building")
  /\ \A c \in Client : Moves(c)

\* Which steps touch the counter and what was read of it.
LEMMA IdsFrame ==
  ASSUME IInv, [Next]_vars
  PROVE  \/ Quiet
         \/ SetId
         \/ \E c \in Client : Connect(c) \/ LoadId(c) \/ StoreId(c) \/ ReadId(c)
<1>0. pc \in [Client -> Pcs]
  BY DEF IInv, ThreadsOK
<1> USE DEF Quiet, Moves, Serving, queues, regs, io, history
<1>1. CASE WritePut \/ ReadCheck \/ ReadTake
  BY <1>1 DEF WritePut, Offer, ReadCheck, ReadTake
<1>2. CASE WriteSet \/ \E l \in Reads : ReadSet(l)
  <2>1. Set /\ cpu # "building" /\ cpu' # "building" /\ UNCHANGED regs
    BY <1>2, UartConstants DEF WriteSet, ReadSet
  <2> QED
    BY <2>1 DEF Set
<1>3. ASSUME NEW c \in Client, Type(c) \/ Close(c) PROVE Quiet
  BY <1>3 DEF Type, Close
<1>4. ASSUME NEW c \in Client, NoId(c) \/ Check(c) \/ Recv(c) \/ Put(c) \/ PutDone(c) \/ WriteCheck(c)
      PROVE  Quiet
  BY <1>0, <1>4 DEF NoId, Check, Recv, Put, PutDone, WriteCheck, Goto
<1>5. ASSUME NEW c \in Client,
             Get(c) \/ Send(c) \/ SendTimeout(c) \/ Die(c) \/ IdleCheck(c) \/ Wait(c) \/ WaitTimeout(c) \/ Clear(c)
      PROVE  Quiet
  BY <1>0, <1>5 DEF Get, Send, SendTimeout, Die, IdleCheck, Wait, WaitTimeout, Clear, Goto
<1>6. CASE UNCHANGED vars
  BY <1>6 DEF vars
<1> QED
  BY <1>1, <1>2, <1>3, <1>4, <1>5, <1>6 DEF Next, CpuThread, Handler

\* Every step keeps the numbers of the connections.
LEMMA IdsKept == IInv /\ [Next]_vars => IdsOK'
<1> SUFFICES ASSUME IInv, [Next]_vars PROVE IdsOK'
  OBVIOUS
<1>0. IdsOK /\ pc \in [Client -> Pcs] /\ None \notin Nat
  BY UartConstants DEF IInv, ThreadsOK
<1> DEFINE r == Cardinality(Registered)
           m == Cardinality(Client)
<1>c. Registered \in SUBSET Client /\ r \in Nat /\ m \in Nat /\ r <= m
  BY Connections DEF Registered
<1>1. CASE Quiet
  <2>1. UNCHANGED <<client_id, loaded, my_client_id>>
    BY <1>1 DEF Quiet, regs
  <2>2. Registered' = Registered
    BY <1>0, <1>1, <2>1 DEF Quiet, Moves, Registered, Serving
  <2>3. ASSUME NEW c \in Client
        PROVE  /\ pc'[c] \in Serving \cup {"retired"} => pc[c] \in Serving \cup {"retired"}
               /\ pc'[c] \in Registering \cup {"absent"} => pc'[c] = pc[c]
               /\ pc'[c] \in {"absent", "load", "dead"} \/ client_id # None
               /\ pc[c] = "read_id" => pc'[c] = "read_id"
               /\ pc[c] \in Serving \cup {"dead"} /\ Current(c) => pc'[c] \in Serving \cup {"dead"}
    BY <1>0, <1>1 DEF IdsOK, Quiet, Moves, Serving, Registering
  <2>4. client_id \notin {None, 0} =>
          \E c \in Client : pc'[c] = "read_id" \/ (pc'[c] \in Serving \cup {"dead"} /\ Current(c))
    BY <1>0, <2>3 DEF IdsOK
  <2>5. cpu' = "building" <=> client_id' = None
    BY <1>0, <1>1, <2>1 DEF IdsOK, Quiet
  <2>6. ASSUME NEW c \in Client
        PROVE  /\ pc'[c] \in Serving \cup {"retired"} => my_client_id[c] # None
               /\ pc'[c] \in Registering \cup {"absent"} => my_client_id[c] = None
               /\ pc'[c] = "store" => loaded[c] \in 0..r
    BY <1>0, <2>3 DEF IdsOK, Registering
  <2>7. client_id = None => \A c \in Client : pc'[c] \in {"absent", "load", "dead"}
    BY <2>3
  <2> QED
    BY <1>0, <2>1, <2>2, <2>4, <2>5, <2>6, <2>7 DEF IdsOK, Current
<1>2. CASE SetId
  <2>1. client_id = None /\ Registered = {}
    BY <1>0, <1>2 DEF SetId, IdsOK
  <2>2. client_id' = 0 /\ cpu' = "run" /\ UNCHANGED <<pc, loaded, my_client_id>>
    BY <1>2 DEF SetId
  <2>3. Registered' = Registered
    BY <2>2 DEF Registered
  <2> QED
    BY <1>0, <1>c, <2>1, <2>2, <2>3 DEF IdsOK, Registering, Serving
<1>3. ASSUME NEW c \in Client, Connect(c) PROVE IdsOK'
  <2>1. /\ pc[c] = "absent" /\ pc' = [pc EXCEPT ![c] = "load"]
        /\ UNCHANGED <<cpu, client_id, loaded, my_client_id>>
    BY <1>3 DEF Connect, Goto
  <2>2. Registered' = Registered
    BY <1>0, <2>1 DEF Registered
  <2> QED
    BY <1>0, <2>1, <2>2 DEF IdsOK, Registering, Serving, Current
<1>4. ASSUME NEW c \in Client, LoadId(c) PROVE IdsOK'
  <2>1. /\ pc[c] = "load" /\ pc' = [pc EXCEPT ![c] = "store"] /\ client_id # None
        /\ loaded' = [loaded EXCEPT ![c] = client_id]
        /\ UNCHANGED <<cpu, client_id, my_client_id>>
    BY <1>4 DEF LoadId, Goto
  <2>2. Registered' = Registered
    BY <1>0, <2>1 DEF Registered
  <2>3. client_id \in 0..r /\ client_id \in 0..m
    BY <1>0, <1>c, <2>1 DEF IdsOK
  <2> QED
    BY <1>0, <2>1, <2>2, <2>3 DEF IdsOK, Registering, Serving, Current
<1>5. ASSUME NEW c \in Client, StoreId(c) PROVE IdsOK'
  <2>1. /\ pc[c] = "store" /\ pc' = [pc EXCEPT ![c] = "read_id"] /\ client_id' = loaded[c] + 1
        /\ UNCHANGED <<cpu, loaded, my_client_id>>
    BY <1>5 DEF StoreId, Goto
  <2>2. c \notin Registered /\ Registered' = Registered \cup {c} /\ client_id # None
    BY <1>0, <2>1 DEF IdsOK, Registered, Registering
  <2>3. Cardinality(Registered') = r + 1
    BY <1>c, <2>2, Connections
  <2>4. loaded[c] \in 0..r
    BY <1>0, <2>1 DEF IdsOK
  <2>5. client_id' \in 0..(r + 1) /\ client_id' # None /\ client_id' > 0
    BY <1>0, <1>c, <2>1, <2>4
  <2>6. ASSUME NEW d \in Client, pc'[d] = "store" PROVE loaded[d] \in 0..(r + 1)
    <3>1. loaded[d] \in 0..r
      BY <1>0, <2>1, <2>6 DEF IdsOK
    <3> QED
      BY <1>c, <3>1
  <2>7. pc'[c] = "read_id" /\ \A d \in Client \ {c} : pc'[d] = pc[d]
    BY <1>0, <2>1
  <2> QED
    BY <1>0, <2>1, <2>2, <2>3, <2>5, <2>6, <2>7 DEF IdsOK, Registering, Serving
<1>6. ASSUME NEW c \in Client, ReadId(c) PROVE IdsOK'
  <2>1. /\ pc[c] = "read_id" /\ pc' = [pc EXCEPT ![c] = "check"]
        /\ my_client_id' = [my_client_id EXCEPT ![c] = client_id]
        /\ loaded' = [loaded EXCEPT ![c] = None] /\ UNCHANGED <<cpu, client_id>>
    BY <1>6 DEF ReadId, Goto
  <2>2. c \in Registered /\ client_id # None /\ client_id \in 0..r /\ client_id \in 0..m
    BY <1>0, <1>c, <2>1 DEF IdsOK, Registered
  <2>3. Registered' = Registered
    BY <1>0, <2>1, <2>2 DEF Registered, IdsOK
  <2>4. /\ pc'[c] = "check" /\ my_client_id'[c] = client_id
        /\ \A d \in Client \ {c} : pc'[d] = pc[d] /\ my_client_id'[d] = my_client_id[d]
    BY <1>0, <2>1 DEF IdsOK
  <2>5. my_client_id' \in [Client -> Nat \cup {None}]
    BY <1>0, <2>1, <2>2 DEF IdsOK
  <2>6. pc'[c] \in Serving \cup {"dead"} /\ Current(c)'
    BY <2>1, <2>4 DEF Serving, Current
  <2> QED
    BY <1>0, <2>1, <2>2, <2>3, <2>4, <2>5, <2>6 DEF IdsOK, Registering, Serving
<1> QED
  BY <1>1, <1>2, <1>3, <1>4, <1>5, <1>6, IdsFrame

\* Every step keeps apart connections that do not overlap.
LEMMA ApartKept == IInv /\ [Next]_vars => ApartOK'
<1> SUFFICES ASSUME IInv, [Next]_vars, ~overlap' PROVE ApartOK'
  BY DEF ApartOK
<1>0. IdsOK /\ pc \in [Client -> Pcs] /\ None \notin Nat
  BY UartConstants DEF IInv, ThreadsOK
<1>o. overlap' = overlap \/ \E c \in Client : Connect(c)
  BY IdsFrame DEF Quiet, regs, SetId, LoadId, StoreId, ReadId
<1>p. ~overlap
  BY <1>o DEF Connect
<1>a. ApartOK
  BY DEF IInv
<1>1. CASE Quiet
  <2>1. UNCHANGED <<client_id, loaded, my_client_id>>
    BY <1>1 DEF Quiet, regs
  <2>2. \A c \in Client : pc'[c] \in Registering => pc'[c] = pc[c]
    BY <1>0, <1>1 DEF Quiet, Moves, Serving, Registering
  <2> QED
    BY <1>a, <1>p, <2>1, <2>2 DEF ApartOK, Registering
<1>2. CASE SetId
  <2>1. client_id = None /\ Registered = {} /\ \A c \in Client : pc[c] \in {"absent", "load", "dead"}
    BY <1>0, <1>2 DEF SetId, IdsOK
  <2>2. client_id' = 0 /\ UNCHANGED <<pc, loaded, my_client_id>>
    BY <1>2 DEF SetId
  <2>3. \A c \in Client : my_client_id[c] = None
    BY <2>1 DEF Registered
  <2> QED
    BY <1>a, <1>p, <2>1, <2>2, <2>3 DEF ApartOK
<1>3. ASSUME NEW c \in Client, Connect(c) PROVE ApartOK'
  <2>1. /\ pc' = [pc EXCEPT ![c] = "load"] /\ \A d \in Client : pc[d] \notin Registering
        /\ UNCHANGED <<client_id, loaded, my_client_id>>
    BY <1>3 DEF Connect, Goto
  <2> QED
    BY <1>0, <1>a, <1>p, <2>1 DEF ApartOK, Registering
<1>4. ASSUME NEW c \in Client, LoadId(c) PROVE ApartOK'
  <2>1. /\ pc[c] = "load" /\ pc' = [pc EXCEPT ![c] = "store"]
        /\ loaded' = [loaded EXCEPT ![c] = client_id]
        /\ UNCHANGED <<client_id, my_client_id>>
    BY <1>4 DEF LoadId, Goto
  <2> QED
    BY <1>0, <1>a, <1>p, <2>1 DEF ApartOK, IdsOK, Registering
<1>5. ASSUME NEW c \in Client, StoreId(c) PROVE ApartOK'
  <2>1. /\ pc[c] = "store" /\ pc' = [pc EXCEPT ![c] = "read_id"] /\ client_id' = loaded[c] + 1
        /\ UNCHANGED <<loaded, my_client_id>>
    BY <1>5 DEF StoreId, Goto
  <2>2. loaded[c] = client_id /\ \A d \in Client \ {c} : pc[d] \notin Registering
    BY <1>a, <1>p, <2>1 DEF ApartOK, Registering
  <2>3. client_id \in Nat
    BY <1>0, <2>1, <2>2, Connections DEF IdsOK, Registered
  <2>4. pc'[c] = "read_id" /\ \A d \in Client \ {c} : pc'[d] \notin Registering
    BY <1>0, <2>1, <2>2
  <2>5. ASSUME NEW d \in Client, my_client_id[d] # None
        PROVE  my_client_id[d] <= client_id' /\ my_client_id[d] # client_id'
    <3>1. my_client_id[d] \in Nat /\ my_client_id[d] <= client_id
      BY <1>0, <1>a, <1>p, <2>5 DEF ApartOK, IdsOK
    <3> QED
      BY <2>1, <2>2, <2>3, <3>1
  <2>6. client_id' # None
    BY <1>0, <2>1, <2>2, <2>3
  <2> QED
    BY <1>a, <1>p, <2>1, <2>4, <2>5, <2>6 DEF ApartOK, Registering
<1>6. ASSUME NEW c \in Client, ReadId(c) PROVE ApartOK'
  <2>1. /\ pc[c] = "read_id" /\ pc' = [pc EXCEPT ![c] = "check"]
        /\ my_client_id' = [my_client_id EXCEPT ![c] = client_id]
        /\ UNCHANGED client_id
    BY <1>6 DEF ReadId, Goto
  <2>2. \A d \in Client \ {c} : pc[d] \notin Registering
    BY <1>a, <1>p, <2>1 DEF ApartOK, Registering
  <2>3. client_id \in Nat
    BY <1>0, <2>1, Connections DEF IdsOK, Registered
  <2>4. /\ \A d \in Client : pc'[d] \notin Registering
        /\ my_client_id'[c] = client_id /\ \A d \in Client \ {c} : my_client_id'[d] = my_client_id[d]
    BY <1>0, <2>1, <2>2 DEF IdsOK, Registering
  <2>5. \A d \in Client : my_client_id[d] # client_id
    BY <1>a, <1>p, <2>1 DEF ApartOK
  <2>6. \A d \in Client : my_client_id'[d] # None => my_client_id'[d] <= client_id
    BY <1>a, <1>p, <2>3, <2>4 DEF ApartOK
  <2>7. \A d, e \in Client : my_client_id'[d] # None /\ my_client_id'[d] = my_client_id'[e] => d = e
    BY <1>a, <1>p, <2>4, <2>5 DEF ApartOK
  <2> QED
    BY <2>1, <2>4, <2>6, <2>7 DEF ApartOK, Registering
<1> QED
  BY <1>1, <1>2, <1>3, <1>4, <1>5, <1>6, IdsFrame

\* Every step leaves a lone handler awake, or to be woken.
LEMMA WakeKept == IInv /\ [Next]_vars => WakeOK'
<1> SUFFICES ASSUME IInv, [Next]_vars,
                    NEW c \in Client, \A d \in Client \ {c} : pc'[d] = "absent"
             PROVE  /\ pc'[c] = "wait" => write_queue' = <<>> \/ cpu' = "written" \/ rw_event'
                    /\ pc'[c] = "blocked" => write_queue' = <<>> \/ cpu' = "written"
  BY DEF WakeOK
<1> DEFINE Goal == /\ pc'[c] = "wait" => write_queue' = <<>> \/ cpu' = "written" \/ rw_event'
                   /\ pc'[c] = "blocked" => write_queue' = <<>> \/ cpu' = "written"
<1>0. pc \in [Client -> Pcs]
  BY DEF IInv, ThreadsOK
<1>1. CASE WritePut \/ SetId \/ ReadCheck \/ ReadTake
  <2>1. /\ UNCHANGED <<pc, rw_event>>
        /\ write_queue' = write_queue \/ cpu' = "written"
        /\ cpu = "written" => cpu' = "written"
    BY <1>1 DEF WritePut, Offer, SetId, ReadCheck, ReadTake, queues
  <2> QED
    BY <2>1 DEF IInv, WakeOK
<1>2. CASE WriteSet \/ \E l \in Reads : ReadSet(l)
  <2>1. Set
    BY <1>2 DEF WriteSet, ReadSet
  <2> QED
    BY <1>0, <2>1 DEF Set
<1>3. ASSUME NEW d \in Client, Connect(d) \/ Type(d) \/ Close(d) PROVE Goal
  <2>1. /\ UNCHANGED <<write_queue, cpu, rw_event>>
        /\ pc'[c] \in {"wait", "blocked"} => pc' = pc
    BY <1>0, <1>3 DEF Connect, Type, Close, Goto, queues
  <2> QED
    BY <2>1 DEF IInv, WakeOK
<1>4. ASSUME NEW d \in Client, Handler(d) PROVE Goal
  <2>1. pc[d] # "absent" /\ pc'[d] # "absent"
    BY <1>0, <1>4 DEF Handler, NoId, LoadId, StoreId, ReadId, Check, Recv, Put, PutDone, WriteCheck,
       Get, Send, SendTimeout, Die, IdleCheck, Wait, WaitTimeout, Clear, Goto
  <2>2. d = c
    BY <2>1
  <2>3. \A e \in Client \ {c} : pc[e] = "absent"
    BY <1>0, <1>4, <2>2 DEF Handler, NoId, LoadId, StoreId, ReadId, Check, Recv, Put, PutDone, WriteCheck,
       Get, Send, SendTimeout, Die, IdleCheck, Wait, WaitTimeout, Clear, Goto
  <2>4. CASE IdleCheck(c) \/ Wait(c)
    BY <1>0, <2>3, <2>4 DEF IdleCheck, Wait, Goto, queues, IInv, WakeOK
  <2>5. CASE ~(IdleCheck(c) \/ Wait(c))
    <3>1. pc'[c] \notin {"wait", "blocked"}
      BY <1>0, <1>4, <2>2, <2>5 DEF Handler, NoId, LoadId, StoreId, ReadId, Check, Recv, Put, PutDone,
         WriteCheck, Get, Send, SendTimeout, Die, WaitTimeout, Clear, Goto
    <3> QED
      BY <3>1
  <2> QED
    BY <2>4, <2>5
<1>5. CASE UNCHANGED vars
  BY <1>5 DEF vars, queues, IInv, WakeOK
<1> QED
  BY <1>1, <1>2, <1>3, <1>4, <1>5 DEF Next, CpuThread

-----------------------------------------------------------------------------

\* A chain of numbers increases.
LEMMA ChainIncreases ==
  ASSUME NEW s \in Seq(Nat), Chain(s, Less)
  PROVE  Increasing(s)
  BY DEF Chain, Less, Increasing

\* A chain of characters is in order.
LEMMA ChainInOrder ==
  ASSUME NEW s \in Seq(Char), Chain(s, Later)
  PROVE  InOrder(s)
  BY DEF Chain, Later, InOrder

\* What the invariant says of the types.
LEMMA IInvTypeOK == IInv => TypeOK
<1> SUFFICES ASSUME IInv PROVE TypeOK
  OBVIOUS
<1>1. ThreadsOK /\ OutOK /\ InOK /\ IdsOK
  BY DEF IInv
<1>2. written \in Nat /\ 1..written \subseteq 1..Writes
  BY <1>1, UartConstants DEF OutOK
<1>3. write_queue \in Seq(1..Writes)
  BY <1>1, <1>2, SeqMonotonic DEF OutOK
<1>4. hand \in [Client -> 1..Writes \cup {None}]
  <2>1. hand \in [Client -> 1..written \cup {None}] /\ 1..written \cup {None} \subseteq 1..Writes \cup {None}
    BY <1>1, <1>2 DEF OutOK
  <2> QED
    BY <2>1
<1>5. client_id \in 0..Cardinality(Client) \cup {None}
  BY <1>1, Connections DEF IdsOK, Registered
<1>6. /\ loaded \in [Client -> 0..Cardinality(Client) \cup {None}]
      /\ my_client_id \in [Client -> 0..Cardinality(Client) \cup {None}]
  BY <1>1 DEF IdsOK
<1>7. ASSUME NEW c \in Client PROVE chunk[c] \in Seq({c} \X (1..Keys)) /\ Len(chunk[c]) <= MaxHandled
  <2>1. chunk[c] \in Seq(Line(c)) /\ Len(chunk[c]) <= MaxHandled
    BY <1>1 DEF InOK, LineOK
  <2>2. Line(c) \subseteq {c} \X (1..Keys)
    BY <1>1, Lines, UartConstants DEF Line
  <2> QED
    BY <2>1, <2>2, SeqMonotonic
<1>8. write_queue \in Seq(1..Unnumbered) /\ hand \in [Client -> 1..Unnumbered \cup {None}]
  <2>1. 1..written \subseteq 1..Unnumbered
    BY <1>1, UartConstants DEF OutOK, Unnumbered
  <2>2. write_queue \in Seq(1..written) /\ hand \in [Client -> 1..written \cup {None}]
    BY <1>1 DEF OutOK
  <2>3. write_queue \in Seq(1..Unnumbered)
    BY <2>1, <2>2, SeqMonotonic
  <2> QED
    BY <2>1, <2>2, <2>3
<1> QED
  BY <1>1, <1>3, <1>4, <1>5, <1>6, <1>7, <1>8 DEF TypeOK, ThreadsOK, OutOK, InOK, Pcs, Char

\* What it says of the output.
LEMMA IInvOutput == IInv => OutputOnceInOrder
<1> SUFFICES ASSUME IInv PROVE OutputOnceInOrder
  OBVIOUS
<1>1. OutOK /\ written \in Nat
  BY UartConstants DEF IInv, OutOK
<1>2. ASSUME NEW c \in Client
      PROVE  /\ Chain(received[c] \o InHand(c) \o write_queue, Less)
             /\ received[c] \o InHand(c) \o write_queue \in Seq(Nat)
             /\ ToSet(received[c] \o InHand(c)) = Out(c)
  <2> DEFINE r == received[c]
             h == InHand(c)
             q == write_queue
  <2>1. r \in Seq(Nat) /\ q \in Seq(Nat)
    BY <1>1, SeqMonotonic DEF OutOK
  <2>2. h \in Seq(Nat) /\ ToSet(h) = Held(c) /\ Chain(h, Less)
    <3>1. CASE hand[c] = None
      <4>1. h = <<>> /\ Held(c) = {}
        BY <3>1 DEF InHand, Held
      <4> QED
        BY <4>1, EmptySeq, Nothing
    <3>2. CASE hand[c] # None
      <4>1. hand[c] \in Nat /\ h = <<hand[c]>> /\ Held(c) = {hand[c]}
        BY <1>1, <3>2 DEF OutOK, InHand, Held
      <4> QED
        BY <4>1, Single
    <3> QED
      BY <3>1, <3>2
  <2> HIDE DEF r, h, q
  <2>3. Chain(r, Less) /\ Chain(q, Less) /\ Before(ToSet(r), ToSet(h), Less)
    BY <1>1, <2>2 DEF OutOK, r, q
  <2>4. r \o h \in Seq(Nat) /\ ToSet(r \o h) = ToSet(r) \cup ToSet(h)
    BY <2>1, <2>2, Concat
  <2>5. Chain(r \o h, Less)
    BY <2>1, <2>2, <2>3, ChainConcat
  <2>6. ToSet(r \o h) = Out(c)
    BY <2>2, <2>4 DEF Out, r
  <2> DEFINE rh == r \o h
  <2> HIDE DEF rh
  <2>7. rh \in Seq(Nat) /\ Chain(rh, Less) /\ Before(ToSet(rh), ToSet(q), Less)
    BY <1>1, <2>4, <2>5, <2>6 DEF OutOK, rh, q
  <2>8. rh \o q \in Seq(Nat) /\ Chain(rh \o q, Less)
    BY <2>1, <2>3, <2>7, ChainConcat, Concat
  <2> QED
    BY <2>6, <2>8 DEF rh, r, h, q
<1>3. \A c \in Client : Increasing(received[c] \o InHand(c) \o write_queue)
  BY <1>2, ChainIncreases
<1>4. \A c, d \in Client : c # d => Out(c) \cap Out(d) = {}
  BY <1>1 DEF OutOK
<1> QED
  BY <1>2, <1>3, <1>4 DEF OutputOnceInOrder

\* What it says of the input.
LEMMA IInvInput == IInv => InputOnceInOrder
<1> SUFFICES ASSUME IInv, NEW c \in Client
             PROVE  InOrder(consumed \o read_queue \o chunk[c] \o socket[c])
  BY DEF InputOnceInOrder
<1>1. InOK /\ LineOK(c)
  BY DEF IInv, InOK
<1> DEFINE g == consumed
           q == read_queue
           k == chunk[c]
           s == socket[c]
<1>2. g \in Seq(Char) /\ q \in Seq(Char) /\ k \in Seq(Char) /\ s \in Seq(Char)
  BY <1>1 DEF InOK
<1>3. /\ Chain(g, Later) /\ Chain(q, Later) /\ Chain(k, Later) /\ Chain(s, Later)
      /\ Before(ToSet(g), ToSet(q), Later)
      /\ Before(ToSet(g) \cup ToSet(q), ToSet(k), Later)
      /\ Before(ToSet(g) \cup ToSet(q), ToSet(s), Later)
      /\ Before(ToSet(k), ToSet(s), Later)
  BY <1>1 DEF InOK, LineOK, Guest
<1> HIDE DEF g, q, k, s
<1> DEFINE gq == g \o q
<1>4. gq \in Seq(Char) /\ ToSet(gq) = ToSet(g) \cup ToSet(q)
  BY <1>2, Concat
<1>5. Chain(gq, Later)
  BY <1>2, <1>3, ChainConcat
<1> HIDE DEF gq
<1> DEFINE gqk == gq \o k
<1>6. gqk \in Seq(Char) /\ ToSet(gqk) = ToSet(gq) \cup ToSet(k)
  BY <1>2, <1>4, Concat
<1>7. Chain(gqk, Later)
  BY <1>2, <1>3, <1>4, <1>5, ChainConcat
<1> HIDE DEF gqk
<1>8. Before(ToSet(gqk), ToSet(s), Later)
  BY <1>3, <1>4, <1>6 DEF Before
<1>9. gqk \o s \in Seq(Char)
  BY <1>2, <1>6, Concat
<1>10. Chain(gqk \o s, Later)
  BY <1>2, <1>3, <1>6, <1>7, <1>8, ChainConcat
<1>11. InOrder(gqk \o s)
  BY <1>9, <1>10, ChainInOrder
<1> QED
  BY <1>11 DEF gqk, gq, g, q, k, s

\* What it says of the owner of the UART.
LEMMA IInvOwner == IInv => OneIsCurrent /\ AtMostOneServes /\ NoLostWakeup
<1> SUFFICES ASSUME IInv PROVE OneIsCurrent /\ AtMostOneServes /\ NoLostWakeup
  OBVIOUS
<1>1. IdsOK /\ ApartOK /\ WakeOK
  BY DEF IInv
<1>2. OneIsCurrent
  <2> SUFFICES ASSUME Settled, \E c \in Client : my_client_id[c] # None
               PROVE  \E c \in Client : pc[c] \in Serving \cup {"dead"} /\ Current(c)
    BY DEF OneIsCurrent
  <2>1. Registered # {}
    BY DEF Registered
  <2>2. client_id # None /\ client_id # 0
    BY <1>1, <2>1, Connections DEF IdsOK, Registered
  <2> QED
    BY <1>1, <2>2 DEF IdsOK, Settled, Registering
<1>3. AtMostOneServes
  BY <1>1 DEF AtMostOneServes, ApartOK, IdsOK, Serves, Current
<1>4. NoLostWakeup
  BY <1>1 DEF NoLostWakeup, WakeOK
<1> QED
  BY <1>2, <1>3, <1>4

-----------------------------------------------------------------------------
(* Each direction implements Channel.                                      *)

\* A set that holds a chain has as many elements.
LEMMA Fills ==
  ASSUME NEW S, NEW s \in Seq(S), NEW R, Chain(s, R), \A x \in S : <<x, x>> \notin R,
         NEW T, IsFiniteSet(T), ToSet(s) \subseteq T
  PROVE  Cardinality(T) \in Nat /\ Cardinality(T) >= Len(s)
<1>1. /\ Len(s) \in Nat /\ s \in [1..Len(s) -> S] /\ \A i \in 1..Len(s) : s[i] \in T
  BY Elements, LenProperties
<1> DEFINE D == 1..Len(s)
<1>2. s \in [D -> T]
  BY <1>1
<1>3. ASSUME NEW i \in D, NEW j \in D, s[i] = s[j] PROVE i = j
  <2>1. s[i] \in S /\ s[j] \in S
    BY <1>1
  <2>2. ~(i < j) /\ ~(j < i)
    BY <1>1, <1>3, <2>1 DEF Chain
  <2> QED
    BY <1>1, <2>2
<1>4. IsFiniteSet(D) /\ Cardinality(D) = Len(s)
  <2>1. 1 \in Int /\ Len(s) \in Int /\ (1 > Len(s) => Len(s) = 0) /\ (Len(s) - 1) + 1 = Len(s)
    BY <1>1
  <2>2. IsFiniteSet(D) /\ Cardinality(D) = IF 1 > Len(s) THEN 0 ELSE Len(s) - 1 + 1
    BY <2>1, FS_Interval
  <2> QED
    BY <2>1, <2>2
<1> HIDE DEF D
<1>5. s \in Injection(D, T)
  BY <1>2, <1>3 DEF Injection, IsInjective
<1> QED
  BY <1>1, <1>4, <1>5, FS_Injection, FS_CardinalityType

\* What is on its way to the clients.
LEMMA OutgoingIs ==
  ASSUME OutOK
  PROVE  \A x : x \in Outgoing <=> x \in ToSet(write_queue) \/ \E c \in Client : x \in Held(c)
<1>1. ASSUME NEW x \in ToSet(write_queue) PROVE x \notin {None, Unnumbered}
  <2>1. x \in 1..written /\ written \in 0..Writes
    BY Elements DEF OutOK
  <2> QED
    BY <2>1, UartConstants DEF Unnumbered
<1>2. ASSUME NEW c \in Client PROVE hand[c] # Unnumbered
  <2>1. hand[c] \in 1..written \cup {None} /\ written \in 0..Writes
    BY DEF OutOK
  <2> QED
    BY <2>1, UartConstants DEF Unnumbered
<1> QED
  BY <1>1, <1>2 DEF Outgoing, Held

\* And after a step.
LEMMA OutgoingNext ==
  ASSUME IInv, [Next]_vars
  PROVE  \A x : x \in Outgoing' <=> x \in ToSet(write_queue') \/ \E c \in Client : x \in Held(c)'
<1>0. OutOK'
  BY OutKept
<1>1. ASSUME NEW x \in ToSet(write_queue') PROVE x \notin {None, Unnumbered}
  <2>1. x \in 1..written' /\ written' \in 0..Writes
    BY <1>0, Elements DEF OutOK
  <2> QED
    BY <2>1, UartConstants DEF Unnumbered
<1>2. ASSUME NEW c \in Client PROVE hand'[c] # Unnumbered
  <2>1. hand'[c] \in 1..written' \cup {None} /\ written' \in 0..Writes
    BY <1>0 DEF OutOK
  <2> QED
    BY <2>1, UartConstants DEF Unnumbered
<1> QED
  BY <1>1, <1>2 DEF Outgoing, Held

\* A character in hand is nowhere else.
LEMMA HandApart ==
  ASSUME OutOK, NEW c \in Client, hand[c] # None
  PROVE  /\ Held(c) = {hand[c]} /\ hand[c] \in 1..written /\ hand[c] \in Outgoing
         /\ \A x : x \in Outgoing \ {hand[c]} <=>
              x \in ToSet(write_queue) \/ \E d \in Client \ {c} : x \in Held(d)
<1> DEFINE h == hand[c]
<1>1. Held(c) = {h} /\ h \in 1..written /\ h \in Out(c)
  BY DEF Held, Out, OutOK
<1> HIDE DEF h
<1>2. h \notin ToSet(write_queue)
  <2>1. Before(Out(c), ToSet(write_queue), Less)
    BY DEF OutOK
  <2>2. <<h, h>> \notin Less
    BY DEF Less
  <2> QED
    BY <1>1, <2>1, <2>2 DEF Before
<1>3. ASSUME NEW d \in Client \ {c} PROVE h \notin Held(d)
  <2>1. Out(c) \cap Out(d) = {}
    BY <1>3 DEF OutOK
  <2> QED
    BY <1>1, <2>1 DEF Out
<1>4. \A x : x \in Outgoing \ {h} <=>
        x \in ToSet(write_queue) \/ \E d \in Client \ {c} : x \in Held(d)
  BY <1>1, <1>2, <1>3, OutgoingIs
<1>5. h \in Outgoing
  BY <1>1, OutgoingIs
<1> QED
  BY <1>1, <1>4, <1>5 DEF h

\* The CPU and the handlers take a step of the line, or none.
LEMMA OutputMaps ==
  ASSUME IInv, [Next]_vars
  PROVE  [Output!Next]_(Output!vars)
<1>0. OutOK /\ ThreadsOK /\ written \in Nat /\ received \in [Client -> Seq(1..written)]
  BY UartConstants DEF IInv, OutOK
<1>1. CASE UNCHANGED <<write_queue, hand, received, written>>
  BY <1>1 DEF Outgoing, Output!vars
<1>2. CASE WritePut
  <2> DEFINE n == written + 1
  <2>1. /\ written' = n /\ n \in 1..Writes /\ UNCHANGED <<hand, received>>
        /\ \/ write_queue' = Append(write_queue, n)
           \/ UNCHANGED write_queue /\ ~(Len(write_queue) < OutCap)
    BY <1>0, <1>2, UartConstants DEF WritePut, Offer, io
  <2>2. n \notin 1..written /\ (1..written)' = 1..written \cup {n} /\ n \in Nat
    BY <1>0, <2>1
  <2>3. \A x \in 1..written : <<x, n>> \in Less
    BY <1>0 DEF Less
  <2>4. \A c \in Client : Held(c)' = Held(c)
    BY <2>1 DEF Held
  <2> HIDE DEF n
  <2>5. CASE write_queue' = Append(write_queue, n)
    <3>1. ToSet(write_queue') = ToSet(write_queue) \cup {n}
      <4>1. write_queue \in Seq(Nat)
        BY <1>0, SeqMonotonic DEF OutOK
      <4> QED
        BY <2>2, <2>5, <4>1, AppendedHolds
    <3>2. \A x : x \in Outgoing' <=> x \in Outgoing \cup {n}
      BY <1>0, <2>4, <3>1, OutgoingIs, OutgoingNext
    <3> QED
      BY <2>1, <2>2, <2>3, <3>2 DEF Output!Next, Output!Send
  <2>6. CASE UNCHANGED write_queue /\ ~(Len(write_queue) < OutCap)
    <3>1. Outgoing' = Outgoing
      BY <2>1, <2>6 DEF Outgoing
    <3>2. write_queue \in Seq(1..written) /\ Chain(write_queue, Less) /\ Len(write_queue) \in Nat
      BY <1>0, LenProperties DEF OutOK
    <3>3. Outgoing \subseteq 1..written /\ ToSet(write_queue) \subseteq Outgoing
      <4>1. \A c \in Client : Held(c) \subseteq 1..written
        BY <1>0 DEF OutOK, Held
      <4> QED
        BY <1>0, <3>2, <4>1, Elements, OutgoingIs
    <3>4. IsFiniteSet(Outgoing)
      <4>1. 1 \in Int /\ written \in Int
        BY <1>0
      <4>2. IsFiniteSet(1..written)
        BY <4>1, FS_Interval
      <4> QED
        BY <3>3, <4>2, FS_Subset
    <3>5. \A x \in 1..written : <<x, x>> \notin Less
      BY DEF Less
    <3>6. Cardinality(Outgoing) \in Nat /\ Cardinality(Outgoing) >= Len(write_queue)
      BY <3>2, <3>3, <3>4, <3>5, Fills
    <3>7. Output!Full(Outgoing)
      <4>1. Output!Cardinality(Outgoing) = Cardinality(Outgoing)
        BY DEF Output!Cardinality, Cardinality
      <4> QED
        BY <2>6, <3>2, <3>6, <4>1, UartConstants DEF Output!Full
    <3> QED
      BY <2>1, <2>2, <2>3, <3>1, <3>7 DEF Output!Next, Output!Send
  <2> QED
    BY <2>1, <2>5, <2>6
<1>3. ASSUME NEW c \in Client, Get(c) PROVE [Output!Next]_(Output!vars)
  <2>1. CASE write_queue = <<>>
    BY <1>3, <2>1 DEF Get, history, Outgoing, Output!vars
  <2>2. CASE write_queue # <<>>
    <3>1. /\ hand' = [hand EXCEPT ![c] = Head(write_queue)] /\ write_queue' = Tail(write_queue)
          /\ UNCHANGED <<received, written>> /\ hand[c] = None
      BY <1>0, <1>3, <2>2 DEF Get, history, ThreadsOK
    <3> DEFINE h == Head(write_queue)
    <3>2. ToSet(write_queue) = {h} \cup ToSet(write_queue') /\ h \in 1..written
      BY <1>0, <2>2, <3>1, Beheaded DEF OutOK
    <3>3. h # None
      BY <1>0, <3>2, UartConstants
    <3> HIDE DEF h
    <3>4. hand'[c] = h /\ \A d \in Client \ {c} : hand'[d] = hand[d]
      BY <1>0, <3>1 DEF OutOK, h
    <3>5. Held(c)' = {h} /\ Held(c) = {} /\ \A d \in Client \ {c} : Held(d)' = Held(d)
      BY <3>1, <3>3, <3>4 DEF Held
    <3>6. \A x : x \in Outgoing' <=> x \in Outgoing
      <4>1. \A x : x \in Outgoing <=> x \in ToSet(write_queue) \/ \E d \in Client : x \in Held(d)
        BY <1>0, OutgoingIs
      <4>2. \A x : x \in Outgoing' <=> x \in ToSet(write_queue') \/ \E d \in Client : x \in Held(d)'
        BY OutgoingNext
      <4> QED
        <5>1. \A x : x \in Outgoing <=>
                x = h \/ x \in ToSet(write_queue') \/ \E d \in Client \ {c} : x \in Held(d)
          BY <3>2, <3>5, <4>1
        <5>2. \A x : x \in Outgoing' <=>
                x = h \/ x \in ToSet(write_queue') \/ \E d \in Client \ {c} : x \in Held(d)
          BY <3>5, <4>2
        <5> QED
          BY <5>1, <5>2
    <3> QED
      BY <3>1, <3>6 DEF Output!vars
  <2> QED
    BY <2>1, <2>2
<1>4. ASSUME NEW c \in Client, Send(c) \/ SendTimeout(c) \/ Die(c), hand[c] # None
      PROVE  Output!Next
  <2> DEFINE h == hand[c]
  <2>1. /\ hand' = [hand EXCEPT ![c] = None] /\ UNCHANGED <<write_queue, written>>
        /\ received' = received \/ received' = [received EXCEPT ![c] = Append(received[c], h)]
    BY <1>4 DEF Send, SendTimeout, Die, queues, history
  <2>2. Held(c)' = {} /\ \A d \in Client \ {c} : Held(d)' = Held(d)
    BY <1>0, <2>1 DEF Held, OutOK
  <2>3. /\ h \in Outgoing /\ Held(c) = {h}
        /\ \A x : x \in Outgoing \ {h} <=>
             x \in ToSet(write_queue) \/ \E d \in Client \ {c} : x \in Held(d)
    BY <1>0, <1>4, HandApart
  <2> HIDE DEF h
  <2>4. Outgoing' = Outgoing \ {h}
    <3>1. \A x : x \in Outgoing' <=> x \in Outgoing \ {h}
      BY <2>1, <2>2, <2>3, OutgoingNext
    <3> QED
      BY <3>1
  <2>5. CASE received' = received
    BY <2>1, <2>3, <2>4, <2>5 DEF Output!Next, Output!Leak
  <2>6. CASE received' = [received EXCEPT ![c] = Append(received[c], h)]
    <3>1. \A i \in DOMAIN received[c] : <<received[c][i], h>> \in Less
      <4>1. Before(ToSet(received[c]), Held(c), Less)
        BY <1>0 DEF OutOK
      <4>2. \A i \in DOMAIN received[c] : received[c][i] \in ToSet(received[c])
        BY <1>0, Elements
      <4> QED
        BY <2>3, <4>1, <4>2 DEF Before
    <3> QED
      BY <2>1, <2>3, <2>4, <2>6, <3>1 DEF Output!Next, Output!Deliver
  <2> QED
    BY <2>1, <2>5, <2>6
<1>5. ASSUME NEW c \in Client, Send(c) \/ SendTimeout(c) \/ Die(c), hand[c] = None
      PROVE  UNCHANGED Output!vars
  <2>1. Die(c)
    BY <1>0, <1>5 DEF ThreadsOK, Send, SendTimeout
  <2>2. hand' = hand
    BY <1>0, <1>5, <2>1 DEF Die, OutOK
  <2> QED
    BY <2>1, <2>2 DEF Die, queues, history, Outgoing, Output!vars
<1> QED
  BY <1>1, <1>2, <1>3, <1>4, <1>5, OutFrame

\* What is on its way to the guest.
LEMMA IncomingIs ==
  /\ \A x : x \in Incoming <=>
       \/ x \in ToSet(read_queue)
       \/ \E c \in Client : x \in ToSet(chunk[c]) \/ x \in ToSet(socket[c])
  /\ \A x : x \in Incoming' <=>
       \/ x \in ToSet(read_queue')
       \/ \E c \in Client : x \in ToSet(chunk'[c]) \/ x \in ToSet(socket'[c])
  BY DEF Incoming

\* No character comes before itself.
LEMMA LaterStrict == \A x \in Char : <<x, x>> \notin Later
<1> SUFFICES ASSUME NEW x \in Char, <<x, x>> \in Later PROVE FALSE
  OBVIOUS
<1>1. x[2] \in Nat
  BY UartConstants DEF Char
<1>2. x[2] < x[2]
  BY DEF Later
<1> QED
  BY <1>1, <1>2

\* What is queued is in no chunk or socket.
LEMMA QueueApart ==
  ASSUME InOK
  PROVE  /\ ToSet(read_queue) \subseteq Char
         /\ \A c \in Client :
              /\ ToSet(read_queue) \cap ToSet(chunk[c]) = {}
              /\ ToSet(read_queue) \cap ToSet(socket[c]) = {}
<1>1. Guest \subseteq Char /\ ToSet(read_queue) \subseteq Guest
  BY DEF InOK, Guest
<1>2. ASSUME NEW c \in Client
      PROVE  Before(Guest, ToSet(chunk[c]), Later) /\ Before(Guest, ToSet(socket[c]), Later)
  BY DEF InOK, LineOK
<1> QED
  BY <1>1, <1>2, LaterStrict DEF Before

\* There are finitely many characters.
LEMMA CharFinite == IsFiniteSet(Char)
<1>1. 1 \in Int /\ Keys \in Int /\ IsFiniteSet(Client)
  BY UartConstants
<1>2. IsFiniteSet(1..Keys)
  BY <1>1, FS_Interval
<1> QED
  BY <1>1, <1>2, FS_Product DEF Char

\* The guest takes a step of the line when it reads a character.
LEMMA TakeMaps ==
  ASSUME InOK, ReadTake, read_queue # <<>>
  PROVE  Input!Next
<1> DEFINE h == Head(read_queue)
<1>1. /\ read_queue' = Tail(read_queue) /\ consumed' = Append(consumed, h)
      /\ UNCHANGED <<chunk, socket, typed>>
  BY DEF ReadTake, io
<1>2. /\ h \in Char /\ ToSet(read_queue) = {h} \cup ToSet(read_queue')
      /\ Before({h}, ToSet(read_queue'), Later)
  BY <1>1, Beheaded, ChainTail DEF InOK
<1> HIDE DEF h
<1>3. h \notin ToSet(read_queue')
  BY <1>2, LaterStrict DEF Before
<1>4. \A c \in Client : h \notin ToSet(chunk[c]) /\ h \notin ToSet(socket[c])
  BY <1>2, QueueApart
<1>5. h \in Incoming /\ Incoming' = Incoming \ {h}
  <2>1. h \in Incoming
    BY <1>2, IncomingIs
  <2>2. \A x : x \in Incoming' <=> x \in Incoming \ {h}
    BY <1>1, <1>2, <1>3, <1>4, IncomingIs
  <2> QED
    BY <2>1, <2>2
<1>6. \A i \in DOMAIN consumed : <<consumed[i], h>> \in Later
  <2>1. Before(ToSet(consumed), ToSet(read_queue), Later) /\ consumed \in Seq(Char)
    BY DEF InOK
  <2>2. \A i \in DOMAIN consumed : consumed[i] \in ToSet(consumed)
    BY <2>1, Elements
  <2> QED
    BY <1>2, <2>1, <2>2 DEF Before
<1>7. Typed' = Typed
  BY <1>1 DEF Typed
<1> QED
  BY <1>1, <1>5, <1>6, <1>7 DEF Input!Next, Input!Deliver

\* A client takes one when it types.
LEMMA TypeMaps ==
  ASSUME InOK, NEW c \in Client, Type(c)
  PROVE  Input!Next
<1> DEFINE n == typed[c]
           e == <<c, n + 1>>
<1>1. /\ typed' = [typed EXCEPT ![c] = n + 1] /\ socket' = [socket EXCEPT ![c] = Append(socket[c], e)]
      /\ UNCHANGED <<read_queue, consumed, chunk>> /\ n < Keys
  BY DEF Type, queues
<1>2. n \in Nat /\ n + 1 \in 1..Keys
  BY <1>1, Lines, UartConstants
<1>3. e \in Char /\ e[1] = c /\ e[2] = n + 1
  BY <1>2 DEF Char
<1> HIDE DEF e
<1>4. typed'[c] = n + 1 /\ \A d \in Client \ {c} : typed'[d] = typed[d]
  BY <1>1 DEF InOK
<1>5. \A x \in Char : x \in Typed' <=> x \in Typed \cup {e}
  <2> SUFFICES ASSUME NEW x \in Char PROVE x[2] <= typed'[x[1]] <=> x[2] <= typed[x[1]] \/ x = e
    BY DEF Typed
  <2>1. x[1] \in Client /\ x[2] \in Nat /\ x = <<x[1], x[2]>>
    BY UartConstants DEF Char
  <2>2. CASE x[1] = c
    <3>1. x = e <=> x[2] = n + 1
      BY <2>1, <2>2 DEF e
    <3> QED
      BY <1>2, <1>4, <2>1, <2>2, <3>1
  <2>3. CASE x[1] # c
    BY <1>3, <1>4, <2>1, <2>3
  <2> QED
    BY <2>2, <2>3
<1>6. e \notin Typed /\ Typed' = Typed \cup {e} /\ \A x \in Typed : <<x, e>> \in Later
  <2>1. e \notin Typed
    BY <1>2, <1>3 DEF Typed
  <2>2. Typed' = Typed \cup {e}
    BY <1>3, <1>5 DEF Typed
  <2>3. /\ Typed \in SUBSET Char /\ \A x \in Typed : x[1] = c => x[2] <= n
    BY DEF Typed
  <2>4. Before(Typed, {e}, Later)
    BY <1>2, <2>3, LaterAfter DEF e
  <2> QED
    BY <2>1, <2>2, <2>4 DEF Before
<1>7. ToSet(socket'[c]) = ToSet(socket[c]) \cup {e} /\ \A d \in Client \ {c} : socket'[d] = socket[d]
  <2>1. socket[c] \in Seq(Char) /\ socket \in [Client -> Seq(Char)]
    BY DEF InOK
  <2> QED
    BY <1>1, <1>3, <2>1, AppendedHolds
<1>8. Incoming' = Incoming \cup {e}
  <2>1. \A x : x \in Incoming' <=> x \in Incoming \cup {e}
    BY <1>1, <1>7, IncomingIs
  <2> QED
    BY <2>1
<1> QED
  BY <1>1, <1>3, <1>6, <1>8 DEF Input!Next, Input!Send

\* A handler takes none when it receives, since it has nothing left to queue.
LEMMA RecvMaps ==
  ASSUME InOK, TurnOK, NEW c \in Client, Recv(c)
  PROVE  UNCHANGED Input!vars
<1> DEFINE s == socket[c]
<1>1. PICK n \in 0..MaxHandled :
        /\ n <= Len(s)
        /\ chunk' = [chunk EXCEPT ![c] = SubSeq(s, 1, n)]
        /\ socket' = [socket EXCEPT ![c] = SubSeq(s, n + 1, Len(s))]
  BY DEF Recv
<1>2. UNCHANGED <<read_queue, consumed, typed>> /\ chunk[c] = <<>>
  BY DEF Recv, queues, history, TurnOK
<1>3. s \in Seq(Char) /\ n \in 0..Len(s) /\ Chain(s, Later)
  BY <1>1, LenProperties, UartConstants DEF InOK, LineOK
<1>4. chunk'[c] = SubSeq(s, 1, n) /\ socket'[c] = SubSeq(s, n + 1, Len(s))
  BY <1>1 DEF InOK
<1> HIDE DEF s
<1>5. ToSet(s) = ToSet(chunk'[c]) \cup ToSet(socket'[c])
  BY <1>3, <1>4, ChainCut
<1>6. \A d \in Client \ {c} : chunk'[d] = chunk[d] /\ socket'[d] = socket[d]
  BY <1>1 DEF InOK
<1>7. ToSet(chunk[c]) = {} /\ s = socket[c]
  BY <1>2, Nothing DEF s
<1>8. \A x : x \in Incoming' <=> x \in Incoming
  BY <1>2, <1>5, <1>6, <1>7, IncomingIs
<1> QED
  BY <1>2, <1>8 DEF Typed, Input!vars

\* Nor when it queues a character.
LEMMA PutMaps ==
  ASSUME InOK, NEW c \in Client, Put(c), Len(read_queue) < InCap
  PROVE  UNCHANGED Input!vars
<1> DEFINE h == Head(chunk[c])
<1>1. /\ read_queue' = Append(read_queue, h) /\ chunk' = [chunk EXCEPT ![c] = Tail(chunk[c])]
      /\ chunk[c] # <<>> /\ UNCHANGED <<consumed, socket, typed>>
  BY DEF Put, history
<1>2. /\ chunk[c] \in Seq(Char) /\ read_queue \in Seq(Char) /\ chunk'[c] = Tail(chunk[c])
      /\ \A d \in Client \ {c} : chunk'[d] = chunk[d]
  BY <1>1 DEF InOK
<1>3. ToSet(chunk[c]) = {h} \cup ToSet(chunk'[c]) /\ h \in Char
  BY <1>1, <1>2, Beheaded
<1> HIDE DEF h
<1>4. ToSet(read_queue') = ToSet(read_queue) \cup {h}
  BY <1>1, <1>2, <1>3, AppendedHolds
<1>5. \A x : x \in Incoming' <=> x \in Incoming
  BY <1>1, <1>2, <1>3, <1>4, IncomingIs
<1> QED
  BY <1>1, <1>5 DEF Typed, Input!vars

\* A chunk is dropped when the line is full.
LEMMA DropMaps ==
  ASSUME InOK, NEW c \in Client, Put(c), ~(Len(read_queue) < InCap)
  PROVE  Input!Next
<1>1. chunk' = [chunk EXCEPT ![c] = <<>>] /\ UNCHANGED <<read_queue, consumed, socket, typed>>
  BY DEF Put, history
<1>2. ToSet(chunk'[c]) = {} /\ \A d \in Client \ {c} : chunk'[d] = chunk[d]
  <2>1. chunk'[c] = <<>> /\ \A d \in Client \ {c} : chunk'[d] = chunk[d]
    BY <1>1 DEF InOK
  <2> QED
    BY <2>1, Nothing
<1>3. /\ \A x : x \in Incoming' => x \in Incoming
      /\ \A x \in ToSet(read_queue) : x \in Incoming'
  BY <1>1, <1>2, IncomingIs
<1>4. /\ read_queue \in Seq(Char) /\ Chain(read_queue, Later) /\ Len(read_queue) \in Nat
      /\ ToSet(read_queue) \subseteq Incoming'
  BY <1>3, LenProperties DEF InOK
<1>5. IsFiniteSet(Incoming')
  <2>1. ToSet(read_queue) \subseteq Char
    BY QueueApart
  <2>2. \A d \in Client : ToSet(chunk[d]) \subseteq Char /\ ToSet(socket[d]) \subseteq Char
    BY Lines
  <2>3. Incoming' \subseteq Char
    BY <1>3, <2>1, <2>2, IncomingIs
  <2> QED
    BY <2>3, CharFinite, FS_Subset
<1> DEFINE T == Incoming'
<1>6. Cardinality(T) \in Nat /\ Cardinality(T) >= Len(read_queue)
  <2>1. IsFiniteSet(T) /\ ToSet(read_queue) \subseteq T
    BY <1>4, <1>5
  <2> HIDE DEF T
  <2> QED
    BY <1>4, <2>1, LaterStrict, Fills
<1>7. Input!Full(T)
  <2>1. Input!Cardinality(T) = Cardinality(T)
    BY DEF Input!Cardinality, Cardinality
  <2> HIDE DEF T
  <2> QED
    BY <1>4, <1>6, <2>1, UartConstants DEF Input!Full
<1>8. Incoming' \in SUBSET Incoming
  BY <1>3
<1> QED
  BY <1>1, <1>7, <1>8 DEF Typed, Input!Next, Input!Overrun

\* The clients, the handlers and the guest take a step of the line, or none.
LEMMA InputMaps ==
  ASSUME IInv, [Next]_vars
  PROVE  [Input!Next]_(Input!vars)
<1>0. InOK /\ TurnOK
  BY DEF IInv
<1>1. CASE UNCHANGED <<read_queue, consumed, chunk, socket, typed>>
  BY <1>1 DEF Incoming, Typed, Input!vars
<1>2. CASE ReadTake
  <2>1. CASE read_queue = <<>>
    BY <1>2, <2>1 DEF ReadTake, io, Incoming, Typed, Input!vars
  <2>2. CASE read_queue # <<>>
    BY <1>0, <1>2, <2>2, TakeMaps
  <2> QED
    BY <2>1, <2>2
<1>3. ASSUME NEW c \in Client, Type(c) \/ Recv(c) \/ Put(c) PROVE [Input!Next]_(Input!vars)
  BY <1>0, <1>3, TypeMaps, RecvMaps, PutMaps, DropMaps
<1> QED
  BY <1>1, <1>2, <1>3, InFrame

\* Both lines start empty.
LEMMA LinesStart == Init => Output!Init /\ Input!Init
<1> SUFFICES ASSUME Init PROVE Output!Init /\ Input!Init
  OBVIOUS
<1>1. /\ written = 0 /\ \A c \in Client : typed[c] = 0 /\ hand[c] = None /\ chunk[c] = <<>> /\ socket[c] = <<>>
      /\ write_queue = <<>> /\ read_queue = <<>> /\ received = [c \in Client |-> <<>>] /\ consumed = <<>>
  BY DEF Init
<1>2. ToSet(<<>>) = {}
  BY Nothing
<1>3. 1..written = {} /\ Outgoing = {}
  BY <1>1, <1>2 DEF Outgoing
<1>4. Typed = {}
  BY <1>1, UartConstants DEF Typed, Char
<1>5. Incoming = {}
  BY <1>1, <1>2 DEF Incoming
<1> QED
  BY <1>1, <1>3, <1>4, <1>5 DEF Output!Init, Input!Init

-----------------------------------------------------------------------------

\* The seven parts together are inductive: they hold at the start and whatever
\* thread takes the next step.
THEOREM UartInvariant == Spec => []IInv
<1>1. IInv /\ [Next]_vars => IInv'
  BY ThreadsKept, TurnKept, OutKept, InKept, IdsKept, ApartKept, WakeKept DEF IInv
<1> QED
  BY InitIInv, <1>1, PTL DEF Spec

\* Queues, counters and program counters stay within their bounds; client_id
\* never exceeds the number of connections.
THEOREM UartTypeCorrect == Spec => []TypeOK
  BY UartInvariant, IInvTypeOK, PTL

\* _socket_handler and write_byte: however many handlers share write_queue,
\* what each client gets is in the order the guest wrote it, without repeats.
THEOREM OutputInOrder == Spec => []OutputOnceInOrder
  BY UartInvariant, IInvOutput, PTL

\* _socket_handler and read_byte: what a client types reaches the guest in the
\* order it was typed, without repeats, whatever other handlers queue.
THEOREM InputInOrder == Spec => []InputOnceInOrder
  BY UartInvariant, IInvInput, PTL

\* client_id += 1: however registrations race, one connection holds the number.
THEOREM OneCurrent == Spec => []OneIsCurrent
  BY UartInvariant, IInvOwner, PTL

\* Connections that register one after another leave a single one current.
THEOREM OneServes == Spec => []AtMostOneServes
  BY UartInvariant, IInvOwner, PTL

\* A lone handler does not sleep in Event.wait over a character in the queue
\* unless the CPU is about to set the event.
THEOREM WakeupNotLost == Spec => []NoLostWakeup
  BY UartInvariant, IInvOwner, PTL

\* From write_byte to the clients' sockets: the UART implements a line that
\* holds OutCap characters, however handlers share it, retire and die.
THEOREM OutputLine == Spec => OutputIsChannel
<1>1. Init => Output!Init
  BY LinesStart
<1>2. IInv /\ [Next]_vars => [Output!Next]_(Output!vars)
  BY OutputMaps
<1> QED
  BY <1>1, <1>2, UartInvariant, PTL DEF Spec, OutputIsChannel, Output!Spec

\* From the clients' sockets to read_byte: the UART implements a line that
\* loses characters only while InCap of them wait. What an ended handler
\* leaves in its socket stays on its way.
THEOREM InputLine == Spec => InputIsChannel
<1>1. Init => Input!Init
  BY LinesStart
<1>2. IInv /\ [Next]_vars => [Input!Next]_(Input!vars)
  BY InputMaps
<1> QED
  BY <1>1, <1>2, UartInvariant, PTL DEF Spec, InputIsChannel, Input!Spec

=============================================================================
