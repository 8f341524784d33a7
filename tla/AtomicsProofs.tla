--------------------------- MODULE AtomicsProofs ---------------------------
(***************************************************************************)
(* Proofs about Atomics.                                                   *)
(***************************************************************************)
EXTENDS Atomics, WordProofs, SequenceTheorems

-----------------------------------------------------------------------------
(* Digits.                                                                 *)

\* What Digits says of n, given what it says of less.
DigitsStep(f, n) == IF n < 10 THEN <<n>> ELSE Append(f[n \div 10], n % 10)

\* f is Digits up to n.
DigitsUpTo(n, f) == \A k \in 0 .. n : f[k] = DigitsStep(f, k)

LEMMA StepSame ==
  ASSUME NEW n \in Nat, NEW f, NEW g, n >= 10 => f[n \div 10] = g[n \div 10]
  PROVE  DigitsStep(f, n) = DigitsStep(g, n)
  BY DEF DigitsStep

LEMMA Tenth ==
  ASSUME NEW n \in Nat, n >= 10
  PROVE  n \div 10 \in Nat /\ n \div 10 < n
  OBVIOUS

LEMMA UpToExists ==
  ASSUME NEW n \in Nat
  PROVE  \E f : DigitsUpTo(n, f)
<1> DEFINE Bad == {k \in Nat : ~ \E f : DigitsUpTo(k, f)}
<1>1. SUFFICES ASSUME Bad # {} PROVE FALSE
  OBVIOUS
<1>2. PICK m \in Bad : \A x \in Bad : m <= x
  BY <1>1, Least
<1>3. PICK g : m # 0 => DigitsUpTo(m - 1, g)
  <2>1. CASE m = 0
    BY <2>1
  <2>2. CASE m # 0
    <3>1. m - 1 \in Nat /\ m - 1 < m
      BY <2>2
    <3>2. m - 1 \notin Bad
      BY <1>2, <3>1
    <3> QED
      BY <3>1, <3>2
  <2> QED
    BY <2>1, <2>2
<1> DEFINE f == [k \in 0 .. m |-> IF k = m THEN DigitsStep(g, m) ELSE g[k]]
<1>4. \A k \in 0 .. m : k # m => m # 0 /\ k \in 0 .. m - 1
  OBVIOUS
<1>5. \A k \in 0 .. m : k >= 10 => k \div 10 \in 0 .. m /\ k \div 10 # m
  BY Tenth
<1>6. \A k \in 0 .. m : k # m => f[k] = g[k] /\ g[k] = DigitsStep(g, k)
  BY <1>3, <1>4 DEF DigitsUpTo
<1>7. f[m] = DigitsStep(g, m)
  OBVIOUS
<1> HIDE DEF f
<1>8. ASSUME NEW k \in 0 .. m PROVE f[k] = DigitsStep(f, k)
  <2>1. k >= 10 => f[k \div 10] = g[k \div 10]
    BY <1>5, <1>6
  <2>2. DigitsStep(f, k) = DigitsStep(g, k)
    BY <2>1, StepSame
  <2> QED
    BY <2>2, <1>6, <1>7
<1> QED
  BY <1>8 DEF DigitsUpTo

LEMMA UpToUnique ==
  ASSUME NEW m \in Nat, NEW n \in Nat, NEW f, NEW g, DigitsUpTo(m, f), DigitsUpTo(n, g),
         NEW k \in Nat, k <= m, k <= n
  PROVE  f[k] = g[k]
<1> DEFINE Bad == {x \in Nat : x <= m /\ x <= n /\ f[x] # g[x]}
<1>1. SUFFICES ASSUME Bad # {} PROVE FALSE
  OBVIOUS
<1>2. PICK x \in Bad : \A y \in Bad : x <= y
  BY <1>1, Least
<1>3. f[x] = DigitsStep(f, x) /\ g[x] = DigitsStep(g, x)
  BY DEF DigitsUpTo
<1>4. x >= 10 => f[x \div 10] = g[x \div 10]
  BY <1>2, Tenth
<1> QED
  BY <1>3, <1>4 DEF DigitsStep

\* The recursion of Digits has a solution.
LEMMA DigitsDef ==
  \A n \in Nat : Digits[n] = DigitsStep(Digits, n)
<1> DEFINE u == [n \in Nat |-> CHOOSE f : DigitsUpTo(n, f)]
           d == [n \in Nat |-> u[n][n]]
<1>1. \A n \in Nat : DigitsUpTo(n, u[n])
  BY UpToExists
<1> HIDE DEF u
<1>2. \A n \in Nat : d[n] = DigitsStep(u[n], n)
  BY <1>1 DEF DigitsUpTo
<1>3. ASSUME NEW n \in Nat, n >= 10 PROVE u[n][n \div 10] = d[n \div 10]
  <2>1. n \div 10 \in Nat /\ n \div 10 <= n
    BY <1>3, Tenth
  <2> QED
    BY <1>1, <2>1, UpToUnique
<1> HIDE DEF d
<1>4. \A n \in Nat : d[n] = DigitsStep(d, n)
  BY <1>2, <1>3, StepSame
<1>5. d = [n \in Nat |-> DigitsStep(d, n)]
  BY <1>4 DEF d
<1> DEFINE Solves(f) == f = [n \in Nat |-> DigitsStep(f, n)]
<1>6. Digits = CHOOSE f : Solves(f)
  BY DEF Digits, DigitsStep
<1> HIDE DEF Solves
<1>7. Solves(d)
  BY <1>5 DEF Solves
<1>8. Solves(Digits)
  BY <1>6, <1>7
<1> QED
  BY <1>8 DEF Solves

LEMMA StepType ==
  ASSUME NEW n \in Nat, NEW f, n >= 10 => f[n \div 10] \in Seq(0 .. 9)
  PROVE  DigitsStep(f, n) \in Seq(0 .. 9)
<1>1. CASE n < 10
  <2>1. n \in 0 .. 9
    BY <1>1
  <2>2. <<n>> \in Seq(0 .. 9)
    BY <2>1
  <2> QED
    BY <1>1, <2>2 DEF DigitsStep
<1>2. CASE n >= 10
  <2>1. n % 10 \in 0 .. 9
    OBVIOUS
  <2>2. Append(f[n \div 10], n % 10) \in Seq(0 .. 9)
    BY <1>2, <2>1
  <2> QED
    BY <1>2, <2>2 DEF DigitsStep
<1> QED
  BY <1>1, <1>2

LEMMA DigitsType ==
  ASSUME NEW n \in Nat
  PROVE  Digits[n] \in Seq(0 .. 9)
<1> DEFINE Bad == {k \in Nat : Digits[k] \notin Seq(0 .. 9)}
<1>1. SUFFICES ASSUME Bad # {} PROVE FALSE
  OBVIOUS
<1>2. PICK m \in Bad : \A x \in Bad : m <= x
  BY <1>1, Least
<1>3. m >= 10 => Digits[m \div 10] \in Seq(0 .. 9)
  BY <1>2, Tenth
<1> QED
  BY <1>3, StepType, DigitsDef

LEMMA DigitsLong ==
  ASSUME NEW n \in Nat
  PROVE  Len(Digits[n]) > 0
<1>1. Digits[n] = DigitsStep(Digits, n)
  BY DigitsDef
<1>2. CASE n < 10
  BY <1>1, <1>2 DEF DigitsStep
<1>3. CASE n >= 10
  <2>1. Digits[n] = Append(Digits[n \div 10], n % 10)
    BY <1>1, <1>3 DEF DigitsStep
  <2>2. Digits[n \div 10] \in Seq(0 .. 9)
    BY <1>3, Tenth, DigitsType
  <2> QED
    BY <2>1, <2>2
<1> QED
  BY <1>2, <1>3

LEMMA AppendTells ==
  ASSUME NEW s \in Seq(0 .. 9), NEW t \in Seq(0 .. 9), NEW a \in 0 .. 9, NEW b \in 0 .. 9,
         Append(s, a) = Append(t, b)
  PROVE  s = t /\ a = b
  BY AppendInjective

\* Two pairs of sequences that make the same are the same, if the first of
\* each have one length.
LEMMA ConcatTells ==
  ASSUME NEW S, NEW s \in Seq(S), NEW t \in Seq(S), NEW u \in Seq(S), NEW w \in Seq(S),
         s \o u = t \o w, Len(s) = Len(t)
  PROVE  s = t /\ u = w
<1> DEFINE z == s \o u
           y == t \o w
<1>z. /\ Len(z) = Len(s) + Len(u)
      /\ \A i \in 1 .. Len(s) + Len(u) : z[i] = IF i <= Len(s) THEN s[i] ELSE u[i - Len(s)]
  BY ConcatProperties
<1>y. /\ Len(y) = Len(t) + Len(w)
      /\ \A i \in 1 .. Len(t) + Len(w) : y[i] = IF i <= Len(t) THEN t[i] ELSE w[i - Len(t)]
  BY ConcatProperties
<1>x. z = y
  OBVIOUS
<1> HIDE DEF z, y
<1>1. /\ Len(z) = Len(s) + Len(u) /\ Len(z) = Len(t) + Len(w)
      /\ \A i \in 1 .. Len(s) + Len(u) : z[i] = IF i <= Len(s) THEN s[i] ELSE u[i - Len(s)]
      /\ \A i \in 1 .. Len(t) + Len(w) : z[i] = IF i <= Len(t) THEN t[i] ELSE w[i - Len(t)]
  BY <1>x, <1>y, <1>z
<1>2. Len(s) \in Nat /\ Len(u) \in Nat /\ Len(w) \in Nat
  OBVIOUS
<1>3. \A i \in 1 .. Len(s) : s[i] = t[i]
  BY <1>1, <1>2
<1>4. ASSUME NEW i \in 1 .. Len(u) PROVE u[i] = w[i]
  <2>1. Len(s) + i \in 1 .. Len(s) + Len(u) /\ ~(Len(s) + i <= Len(s)) /\ (Len(s) + i) - Len(s) = i
    BY <1>2
  <2> QED
    BY <1>1, <1>2, <2>1
<1>5. Len(u) = Len(w)
  BY <1>1, <1>2
<1>6. s = t
  BY <1>3, SeqEqual, Zenon
<1>7. u = w
  BY <1>4, <1>5, SeqEqual, Zenon
<1> QED
  BY <1>6, <1>7

\* Numbers are what their digits say.
LEMMA DigitsTell ==
  ASSUME NEW m \in Nat, NEW n \in Nat, Digits[m] = Digits[n]
  PROVE  m = n
<1> DEFINE Bad == {k \in Nat : \E x \in Nat : k # x /\ Digits[k] = Digits[x]}
<1>1. SUFFICES ASSUME Bad # {} PROVE FALSE
  OBVIOUS
<1>2. PICK k \in Bad : \A x \in Bad : k <= x
  BY <1>1, Least
<1>3. PICK x \in Nat : k # x /\ Digits[k] = Digits[x]
  OBVIOUS
<1>4. k <= x
  BY <1>2, <1>3
<1>5. \A y \in Nat : y < 10 => Digits[y] = <<y>>
  BY DigitsDef DEF DigitsStep
<1>6. ASSUME NEW y \in Nat, y >= 10
      PROVE  /\ y \div 10 \in Nat /\ Digits[y \div 10] \in Seq(0 .. 9)
             /\ Digits[y] = Append(Digits[y \div 10], y % 10)
  <2>1. Digits[y] = DigitsStep(Digits, y)
    BY DigitsDef
  <2>2. DigitsStep(Digits, y) = Append(Digits[y \div 10], y % 10)
    BY <1>6 DEF DigitsStep
  <2> QED
    BY <1>6, <2>1, <2>2, Tenth, DigitsType
<1>7. CASE x < 10
  <2>1. k < 10
    BY <1>4, <1>7
  <2> QED
    BY <1>3, <1>5, <1>7, <2>1
<1>8. CASE k < 10 /\ x >= 10
  <2>1. Len(Digits[x]) > 1
    <3>1. Len(Digits[x \div 10]) > 0
      BY <1>6, <1>8, DigitsLong
    <3>2. Len(Digits[x]) = Len(Digits[x \div 10]) + 1
      BY <1>6, <1>8
    <3> QED
      BY <1>6, <1>8, <3>1, <3>2
  <2>2. Len(Digits[k]) = 1
    BY <1>5, <1>8
  <2> QED
    BY <1>3, <2>1, <2>2
<1>9. CASE k >= 10
  <2>1. x >= 10 /\ k % 10 \in 0 .. 9 /\ x % 10 \in 0 .. 9
    BY <1>4, <1>9
  <2>2. Digits[k \div 10] = Digits[x \div 10] /\ k % 10 = x % 10
    <3>1. PICK s \in Seq(0 .. 9), p \in 0 .. 9 :
                 s = Digits[k \div 10] /\ p = k % 10 /\ Digits[k] = Append(s, p)
      BY <1>6, <1>9, <2>1
    <3>2. PICK t \in Seq(0 .. 9), q \in 0 .. 9 :
                 t = Digits[x \div 10] /\ q = x % 10 /\ Digits[x] = Append(t, q)
      BY <1>6, <2>1
    <3>3. Append(s, p) = Append(t, q)
      BY <1>3, <3>1, <3>2
    <3>4. s = t /\ p = q
      BY <3>3, AppendTells
    <3> QED
      BY <3>1, <3>2, <3>4
  <2>3. k \div 10 \notin Bad
    BY <1>2, <1>9, Tenth
  <2>4. k \div 10 = x \div 10
    BY <1>6, <1>9, <2>1, <2>2, <2>3
  <2> QED
    BY <1>3, <2>2, <2>4
<1> QED
  BY <1>7, <1>8, <1>9

LEMMA KeyType ==
  ASSUME NEW a \in Words, NEW v \in Words
  PROVE  Key(a, v) \in Seq(0 .. 9) /\ Key(a, v) # Unset /\ Key(a, v) # None
<1>1. Digits[a] \in Seq(0 .. 9) /\ Digits[v] \in Seq(0 .. 9)
  BY DigitsType, Remainders
<1>2. Key(a, v) \in Seq(0 .. 9)
  BY <1>1 DEF Key
<1> QED
  BY <1>2, AtomicsConstants

LEMMA KeyTells ==
  ASSUME NEW a \in Words, NEW v \in Words, NEW b \in Words, NEW w \in Words,
         Key(a, v) = Key(b, w), Len(Digits[a]) = Len(Digits[b])
  PROVE  a = b /\ v = w
<1>1. a \in Nat /\ v \in Nat /\ b \in Nat /\ w \in Nat
  BY Remainders
<1>2. /\ Digits[a] \in Seq(0 .. 9) /\ Digits[v] \in Seq(0 .. 9)
      /\ Digits[b] \in Seq(0 .. 9) /\ Digits[w] \in Seq(0 .. 9)
  BY <1>1, DigitsType
<1>3. Digits[a] \o Digits[v] = Digits[b] \o Digits[w]
  BY DEF Key
<1>4. Digits[a] = Digits[b] /\ Digits[v] = Digits[w]
  BY <1>2, <1>3, ConcatTells
<1> QED
  BY <1>1, <1>4, DigitsTell

-----------------------------------------------------------------------------
(* What an AMO computes.                                                   *)

LEMMA AmoRight ==
  ASSUME NEW op \in Amo, NEW m \in Words, NEW v \in Words
  PROVE  /\ ToReg(AmoValue(op, m, v)) \in Words
         /\ AmoLeaves(op, m, v, ToReg(AmoValue(op, m, v)))
<1> DEFINE new == ToReg(AmoValue(op, m, v))
           Signed(w) == (w + Half) % Mod
<1>1. m \in Int /\ v \in Int /\ ToReg(m) = m /\ ToReg(v) = v
  BY Remainders
<1>2. Half \in Nat \ {0} /\ Mod = 2 * Half
  BY Halves
<1>3. CASE op = "swap"
  BY <1>1, <1>3 DEF AmoValue, AmoLeaves
<1>4. CASE op = "add"
  <2>1. new = (v + m) % Mod
    BY <1>4 DEF AmoValue, ToReg
  <2>2. \A n \in Nat \ {0} : \A x, y \in 0 .. n - 1 :
          (x + y) % n \in 0 .. n - 1 /\ (((x + y) % n) - x) % n = y
    OBVIOUS
  <2>3. (new - v) % Mod = m /\ new \in Words
    <3>1. PICK n \in Nat \ {0} : n = Mod
      BY Remainders
    <3>2. v \in 0 .. n - 1 /\ m \in 0 .. n - 1 /\ Words = 0 .. n - 1
      BY <3>1 DEF Words
    <3> HIDE DEF Mod, Half, new
    <3>3. (v + m) % n \in 0 .. n - 1 /\ (((v + m) % n) - v) % n = m
      BY <2>2, <3>2
    <3> QED
      BY <2>1, <3>1, <3>2, <3>3
  <2> QED
    BY <1>4, <2>3 DEF AmoLeaves
<1>5. CASE op = "and"
  <2>1. new = And(v, m) /\ new \in Words
    BY <1>1, <1>5, BitwiseOperations, Remainders DEF AmoValue
  <2>2. \A i \in 0 .. XLEN - 1 : Bit(new, i) = Bit(m, i) * Bit(v, i)
    BY <1>1, <2>1, BitwiseOperations, BitType
  <2> HIDE DEF new
  <2> QED
    BY <1>5, <2>1, <2>2 DEF AmoLeaves, new
<1>6. CASE op = "or"
  <2>1. new = Or(v, m) /\ new \in Words
    BY <1>1, <1>6, BitwiseOperations, Remainders DEF AmoValue
  <2>2. \A i \in 0 .. XLEN - 1 : Bit(new, i) = Bit(m, i) + Bit(v, i) - Bit(m, i) * Bit(v, i)
    BY <1>1, <2>1, BitwiseOperations, BitType
  <2> QED
    BY <1>6, <2>1, <2>2 DEF AmoLeaves
<1>7. CASE op = "xor"
  <2>1. new = Xor(v, m) /\ new \in Words
    BY <1>1, <1>7, BitwiseOperations, Remainders DEF AmoValue
  <2>2. \A i \in 0 .. XLEN - 1 : Bit(new, i) = (Bit(m, i) + Bit(v, i)) % 2
    BY <1>1, <2>1, BitwiseOperations, BitType
  <2> QED
    BY <1>7, <2>1, <2>2 DEF AmoLeaves
<1> DEFINE Ordered(x, y) == u2s(x) < u2s(y)
<1>8. /\ u2s(m) \in Int /\ u2s(v) \in Int /\ ToReg(u2s(m)) = m /\ ToReg(u2s(v)) = v
      /\ Signed(m) = u2s(m) + Half /\ Signed(v) = u2s(v) + Half
  BY <1>1, <1>2, SignedWord
<1>9. CASE op = "max"
  <2>1. new = IF Ordered(m, v) THEN v ELSE m
    BY <1>8, <1>9 DEF AmoValue, SignedMax
  <2>2. new \in {m, v} /\ new \in Words /\ Signed(new) >= Signed(m) /\ Signed(new) >= Signed(v)
    BY <1>2, <1>8, <2>1
  <2> QED
    BY <1>9, <2>2 DEF AmoLeaves
<1>10. CASE op = "min"
  <2>1. new = IF Ordered(m, v) THEN m ELSE v
    BY <1>8, <1>10 DEF AmoValue, SignedMin
  <2>2. new \in {m, v} /\ new \in Words /\ Signed(new) <= Signed(m) /\ Signed(new) <= Signed(v)
    BY <1>2, <1>8, <2>1
  <2> QED
    BY <1>10, <2>2 DEF AmoLeaves
<1>11. CASE op = "maxu"
  BY <1>1, <1>11 DEF AmoValue, AmoLeaves
<1>12. CASE op = "minu"
  BY <1>1, <1>12 DEF AmoValue, AmoLeaves
<1> QED
  BY <1>3, <1>4, <1>5, <1>6, <1>7, <1>9, <1>10, <1>11, <1>12, AtomicsConstants

-----------------------------------------------------------------------------
(* The inductive invariant.                                                *)

\* An instruction that faulted has the registers it was issued with, but for
\* its rd.
FaultOK ==
  faulted # None =>
    /\ faulted \in [instr : Instruction, regs : [Reg -> Words]]
    /\ \A x \in Reg : x = 0 \/ x # faulted.instr.rd => regs[x] = faulted.regs[x]

\* The string is that of the last LR.W, until an SC.W.
ReserveOK == IF held = None THEN reserve \in {Unset, None} ELSE reserve = Key(held[1], held[2])

IInv == TypeOK /\ FaultOK

-----------------------------------------------------------------------------
(* Steps.                                                                  *)

\* Next by its disjuncts.
Steps ==
  \/ \E r \in LrRegs : LRw(r[1], r[2])
  \/ \E r \in StoreRegs : SCw(r[1], r[2], r[3])
  \/ \E r \in StoreRegs : \E op \in Amo : AmoExec(op, r[1], r[2], r[3])
  \/ \E r \in Reg \ {0}, v \in Values : Compute(r, v)
  \/ \E r \in StoreRegs : Store(r[2], r[3])
  \/ \E a \in Addr, allowed \in {"none", "read"} : Protect(a, allowed)
  \/ \E a \in Addr, v \in Words : MapAndReturn(a, v)
  \/ GiveUp

LEMMA NextSteps == ASSUME TypeOK, Next PROVE Steps
  BY AtomicsConstants DEF Next, Steps, TypeOK

LEMMA PutType ==
  ASSUME regs \in [Reg -> Words], regs[0] = 0, NEW rd \in Reg, NEW v \in Int, Put(rd, v)
  PROVE  /\ regs' \in [Reg -> Words] /\ regs'[0] = 0
         /\ \A x \in Reg : x = 0 \/ x # rd => regs'[x] = regs[x]
  BY Remainders, AtomicsConstants DEF Put

LEMMA FaultType ==
  ASSUME IInv, NEW op \in Amo \cup {"lr", "sc"}, NEW rd \in Reg, NEW rs1 \in Reg, NEW rs2 \in Reg,
         Issues(Instr(op, rd, rs1, rs2)), Fault(Instr(op, rd, rs1, rs2)),
         regs' \in [Reg -> Words], regs'[0] = 0,
         \A x \in Reg : x = 0 \/ x # rd => regs'[x] = regs[x]
  PROVE  TypeOK' /\ FaultOK'
<1> DEFINE i == Instr(op, rd, rs1, rs2)
<1>1. i \in Instruction /\ i.rd = rd
  BY DEF Instr, Instruction
<1>2. Issued \in [Reg -> Words] /\ \A x \in Reg : x = 0 \/ x # rd => regs[x] = Issued[x]
  BY <1>1 DEF Issued, Issues, IInv, FaultOK, TypeOK
<1> HIDE DEF i
<1>3. faulted' = [instr |-> i, regs |-> Issued]
  BY DEF Fault, i
<1>4. faulted' \in [instr : Instruction, regs : [Reg -> Words]] /\ faulted' # None
  BY <1>1, <1>2, <1>3, AtomicsConstants
<1>5. faulted'.instr = i /\ faulted'.regs = Issued
  BY <1>3
<1>6. FaultOK'
  BY <1>1, <1>2, <1>4, <1>5 DEF FaultOK
<1>7. TypeOK'
  BY <1>4 DEF TypeOK, IInv, Fault
<1> QED
  BY <1>6, <1>7

\* An instruction that is done leaves nothing to run again.
LEMMA DoneType ==
  ASSUME IInv, regs' \in [Reg -> Words], regs'[0] = 0, mem' \in [Addr -> Words],
         reserve' \in {Unset, None} \cup Seq(0 .. 9), held' \in {None} \cup (Addr \X Words),
         Completes, phase = "run"
  PROVE  TypeOK' /\ FaultOK'
<1>1. TypeOK'
  BY DEF IInv, TypeOK, Completes
<1>2. FaultOK'
  BY DEF FaultOK, Completes
<1> QED
  BY <1>1, <1>2

LEMMA LrKeeps ==
  ASSUME IInv, NEW rd \in Reg, NEW rs1 \in Reg, LRw(rd, rs1)
  PROVE  TypeOK' /\ FaultOK'
<1> DEFINE i == Instr("lr", rd, rs1, 0)
           addr == regs[rs1]
<1>1. regs \in [Reg -> Words] /\ regs[0] = 0 /\ mem \in [Addr -> Words] /\ 0 \in Reg
  BY AtomicsConstants DEF IInv, TypeOK
<1>2. CASE Fault(i) /\ UNCHANGED regs
  BY <1>1, <1>2, FaultType DEF LRw
<1>3. CASE Readable(addr) /\ Put(rd, mem[addr]) /\ reserve' = Key(regs'[rs1], mem[addr])
           /\ held' = <<addr, mem[addr]>> /\ UNCHANGED mem /\ Completes
  <2>1. addr \in Addr /\ mem[addr] \in Words /\ mem[addr] \in Int
    BY <1>1, <1>3, Remainders DEF Readable
  <2>2. regs' \in [Reg -> Words] /\ regs'[0] = 0
    BY <1>1, <1>3, <2>1, PutType
  <2>3. reserve' \in Seq(0 .. 9)
    BY <1>3, <2>1, <2>2, KeyType
  <2>4. held' \in Addr \X Words
    BY <1>3, <2>1
  <2> QED
    BY <1>1, <1>3, <2>2, <2>3, <2>4, DoneType DEF LRw, Issues
<1> QED
  BY <1>2, <1>3 DEF LRw

LEMMA ScKeeps ==
  ASSUME IInv, NEW rd \in Reg, NEW rs1 \in Reg, NEW rs2 \in Reg, SCw(rd, rs1, rs2)
  PROVE  TypeOK' /\ FaultOK'
<1> DEFINE i == Instr("sc", rd, rs1, rs2)
           addr == regs[rs1]
<1>1. regs \in [Reg -> Words] /\ regs[0] = 0 /\ mem \in [Addr -> Words]
  BY DEF IInv, TypeOK
<1>2. CASE Fault(i) /\ UNCHANGED regs
  BY <1>1, <1>2, FaultType DEF SCw
<1>3. CASE phase' = "crashed" /\ UNCHANGED <<regs, mem, access, reserve, held, faulted>>
  BY <1>3 DEF IInv, TypeOK, FaultOK
<1>4. CASE Writable(addr) /\ mem' = [mem EXCEPT ![addr] = regs[rs2]] /\ Put(rd, 0) /\ Release /\ Completes
  <2>1. regs' \in [Reg -> Words] /\ regs'[0] = 0
    BY <1>1, <1>4, PutType
  <2>2. mem' \in [Addr -> Words]
    BY <1>1, <1>4
  <2> QED
    BY <1>4, <2>1, <2>2, DoneType DEF SCw, Issues, Release
<1>5. CASE Put(rd, 1) /\ Release /\ UNCHANGED mem /\ Completes
  <2>1. regs' \in [Reg -> Words] /\ regs'[0] = 0
    BY <1>1, <1>5, PutType
  <2> QED
    BY <1>1, <1>5, <2>1, DoneType DEF SCw, Issues, Release
<1> QED
  BY <1>2, <1>3, <1>4, <1>5 DEF SCw

LEMMA AmoKeeps ==
  ASSUME IInv, NEW op \in Amo, NEW rd \in Reg, NEW rs1 \in Reg, NEW rs2 \in Reg,
         AmoExec(op, rd, rs1, rs2)
  PROVE  TypeOK' /\ FaultOK'
<1> DEFINE i == Instr(op, rd, rs1, rs2)
           addr == regs[rs1]
<1>1. regs \in [Reg -> Words] /\ regs[0] = 0 /\ mem \in [Addr -> Words]
  BY DEF IInv, TypeOK
<1>2. CASE Fault(i) /\ UNCHANGED regs
  BY <1>1, <1>2, FaultType DEF AmoExec
<1>3. CASE Readable(addr) /\ Put(rd, mem[addr]) /\ Fault(i)
  <2>1. mem[addr] \in Int
    BY <1>1, <1>3, Remainders DEF Readable
  <2> QED
    BY <1>1, <1>3, <2>1, PutType, FaultType DEF AmoExec
<1>4. CASE /\ Writable(addr) /\ Put(rd, mem[addr])
           /\ mem' = [mem EXCEPT ![addr] = ToReg(AmoValue(op, mem[addr], regs[rs2]))]
           /\ UNCHANGED <<reserve, held>> /\ Completes
  <2>1. addr \in Addr /\ mem[addr] \in Words /\ mem[addr] \in Int /\ regs[rs2] \in Words
    BY <1>1, <1>4, Remainders DEF Writable
  <2>2. regs' \in [Reg -> Words] /\ regs'[0] = 0
    BY <1>1, <1>4, <2>1, PutType
  <2>3. mem' \in [Addr -> Words]
    BY <1>1, <1>4, <2>1, AmoRight
  <2>4. reserve \in {Unset, None} \cup Seq(0 .. 9) /\ held \in {None} \cup (Addr \X Words)
    BY DEF IInv, TypeOK
  <2> QED
    BY <1>4, <2>2, <2>3, <2>4, DoneType DEF AmoExec, Issues
<1> QED
  BY <1>2, <1>3, <1>4 DEF AmoExec

LEMMA GuestKeeps ==
  ASSUME IInv,
         \/ \E r \in Reg \ {0}, v \in Values : Compute(r, v)
         \/ \E r \in StoreRegs : Store(r[2], r[3])
         \/ \E a \in Addr, allowed \in {"none", "read"} : Protect(a, allowed)
         \/ \E a \in Addr, v \in Words : MapAndReturn(a, v)
         \/ GiveUp
  PROVE  TypeOK' /\ FaultOK'
<1>1. /\ regs \in [Reg -> Words] /\ regs[0] = 0 /\ mem \in [Addr -> Words]
      /\ access \in [Addr -> {"none", "read", "write"}]
  BY DEF IInv, TypeOK
<1>2. ASSUME NEW r \in Reg \ {0}, NEW v \in Values, Compute(r, v) PROVE TypeOK' /\ FaultOK'
  <2>1. v \in Int
    BY Remainders, AtomicsConstants
  <2>2. regs' \in [Reg -> Words] /\ regs'[0] = 0
    BY <1>1, <1>2, <2>1, PutType DEF Compute
  <2> QED
    BY <1>2, <2>2 DEF Compute, IInv, TypeOK, FaultOK
<1>3. ASSUME NEW r \in StoreRegs, Store(r[2], r[3]) PROVE TypeOK' /\ FaultOK'
  <2>1. r[3] \in Reg
    BY AtomicsConstants
  <2>2. mem' \in [Addr -> Words]
    BY <1>1, <1>3, <2>1 DEF Store
  <2> QED
    BY <1>3, <2>2 DEF Store, IInv, TypeOK, FaultOK
<1>4. ASSUME NEW a \in Addr, NEW allowed \in {"none", "read"}, Protect(a, allowed)
      PROVE  TypeOK' /\ FaultOK'
  <2>1. access' \in [Addr -> {"none", "read", "write"}]
    BY <1>1, <1>4 DEF Protect
  <2> QED
    BY <1>4, <2>1 DEF Protect, IInv, TypeOK, FaultOK
<1>5. ASSUME NEW a \in Addr, NEW v \in Words, MapAndReturn(a, v) PROVE TypeOK' /\ FaultOK'
  <2>1. access' \in [Addr -> {"none", "read", "write"}] /\ mem' \in [Addr -> Words]
    BY <1>1, <1>5 DEF MapAndReturn
  <2> QED
    BY <1>5, <2>1 DEF MapAndReturn, IInv, TypeOK, FaultOK
<1>6. CASE GiveUp
  BY <1>6 DEF GiveUp, IInv, TypeOK, FaultOK
<1> QED
  BY <1>2, <1>3, <1>4, <1>5, <1>6

\* The inductive invariant: types, and what the hart knows of an instruction
\* that faulted.
THEOREM AtomicsInvariant == Spec => []IInv
<1>1. Init => IInv
  BY Remainders, AtomicsConstants DEF Init, IInv, TypeOK, FaultOK
<1>2. IInv /\ [Next]_vars => IInv'
  <2> SUFFICES ASSUME IInv, [Next]_vars PROVE IInv'
    OBVIOUS
  <2>1. CASE UNCHANGED vars
    BY <2>1 DEF vars, IInv, TypeOK, FaultOK
  <2>2. CASE Next
    <3>1. Steps
      BY <2>2, NextSteps DEF IInv
    <3>2. \A r \in LrRegs : r[1] \in Reg /\ r[2] \in Reg
      BY AtomicsConstants
    <3>3. \A r \in StoreRegs : r[1] \in Reg /\ r[2] \in Reg /\ r[3] \in Reg
      BY AtomicsConstants
    <3>4. TypeOK' /\ FaultOK'
      BY <3>1, <3>2, <3>3, LrKeeps, ScKeeps, AmoKeeps, GuestKeeps DEF Steps
    <3> QED
      BY <3>4 DEF IInv
  <2> QED
    BY <2>1, <2>2
<1> QED
  BY <1>1, <1>2, PTL DEF Spec

\* The registers, memory and the reservation keep their types.
THEOREM AtomicsTypeCorrect == Spec => []TypeOK
<1>1. IInv => TypeOK
  BY DEF IInv
<1> QED
  BY <1>1, AtomicsInvariant, PTL

-----------------------------------------------------------------------------
(* AMOs across faults.                                                     *)

\* An instruction reads what it was issued with where it does not write.
LEMMA IssuedRegs ==
  ASSUME IInv, NEW op \in Amo \cup {"lr", "sc"}, NEW rd \in Reg, NEW rs1 \in Reg, NEW rs2 \in Reg,
         Issues(Instr(op, rd, rs1, rs2))
  PROVE  Issued \in [Reg -> Words] /\ \A x \in Reg : x = 0 \/ x # rd => regs[x] = Issued[x]
<1>1. Instr(op, rd, rs1, rs2).rd = rd
  BY DEF Instr
<1> QED
  BY <1>1 DEF Issued, Issues, IInv, FaultOK, TypeOK

\* A fault leaves the instruction to be run again.
LEMMA FaultRemains ==
  ASSUME IInv, NEW op \in Amo \cup {"lr", "sc"}, NEW rd \in Reg, NEW rs1 \in Reg, NEW rs2 \in Reg,
         Issues(Instr(op, rd, rs1, rs2)), Fault(Instr(op, rd, rs1, rs2))
  PROVE  faulted' # None
<1>1. Instr(op, rd, rs1, rs2) \in Instruction
  BY DEF Instr, Instruction
<1>2. Issued \in [Reg -> Words]
  BY IssuedRegs
<1>3. [instr |-> Instr(op, rd, rs1, rs2), regs |-> Issued] \in [instr : Instruction, regs : [Reg -> Words]]
  BY <1>1, <1>2
<1> QED
  BY <1>3, AtomicsConstants DEF Fault

\* An AMO that does not write over its operands takes effect once, on the
\* address and operand it was issued with, however often it faults.
THEOREM AmoOnce == KeepsOperands => (Spec => AmoTakesEffectOnce)
<1> SUFFICES ASSUME KeepsOperands PROVE Spec => AmoTakesEffectOnce
  OBVIOUS
<1> DEFINE Once(op, r) ==
             LET addr == Issued[r[2]]
             IN  /\ addr \in Addr
                 /\ AmoLeaves(op, mem[addr], Issued[r[3]], mem'[addr])
                 /\ mem' = [mem EXCEPT ![addr] = mem'[addr]]
                 /\ regs' = IF r[1] = 0 THEN Issued ELSE [Issued EXCEPT ![r[1]] = mem[addr]]
<1>1. ASSUME IInv, NEW op \in Amo, NEW r \in StoreRegs,
             AmoExec(op, r[1], r[2], r[3]), faulted' = None
      PROVE  Once(op, r)
  <2> DEFINE i == Instr(op, r[1], r[2], r[3])
             addr == regs[r[2]]
             new == ToReg(AmoValue(op, mem[addr], regs[r[3]]))
  <2>1. r[1] \in Reg /\ r[2] \in Reg /\ r[3] \in Reg /\ Issues(i)
    BY <1>1, AtomicsConstants DEF AmoExec
  <2>2. ~Fault(i)
    BY <1>1, <2>1, FaultRemains
  <2>3. Writable(addr) /\ Put(r[1], mem[addr]) /\ mem' = [mem EXCEPT ![addr] = new]
    BY <1>1, <2>2 DEF AmoExec
  <2>4. Issued \in [Reg -> Words] /\ \A x \in Reg : x = 0 \/ x # r[1] => regs[x] = Issued[x]
    BY <1>1, <2>1, IssuedRegs
  <2>5. /\ regs \in [Reg -> Words] /\ mem \in [Addr -> Words] /\ addr \in Addr
        /\ mem[addr] \in Words /\ regs[r[3]] \in Words /\ ToReg(mem[addr]) = mem[addr]
    BY <1>1, <2>1, <2>3, Remainders DEF IInv, TypeOK, Writable
  <2>6. Issued[r[2]] = addr /\ Issued[r[3]] = regs[r[3]]
    BY <2>1, <2>4 DEF KeepsOperands
  <2>7. mem'[addr] = new /\ AmoLeaves(op, mem[addr], regs[r[3]], new)
    BY <2>3, <2>5, AmoRight
  <2>8. regs' = IF r[1] = 0 THEN Issued ELSE [Issued EXCEPT ![r[1]] = mem[addr]]
    <3>1. CASE r[1] = 0
      <4>1. \A x \in Reg : regs[x] = Issued[x]
        BY <2>4, <3>1
      <4>2. regs = Issued
        BY <2>4, <2>5, <4>1
      <4> QED
        BY <2>3, <3>1, <4>2 DEF Put
    <3>2. CASE r[1] # 0
      <4>1. regs' = [regs EXCEPT ![r[1]] = mem[addr]]
        BY <2>3, <2>5, <3>2 DEF Put
      <4>2. \A x \in Reg : x # r[1] => regs[x] = Issued[x]
        BY <2>4
      <4> QED
        BY <2>1, <2>4, <2>5, <3>2, <4>1, <4>2
    <3> QED
      BY <3>1, <3>2
  <2> HIDE DEF new, addr
  <2> QED
    BY <2>3, <2>5, <2>6, <2>7, <2>8 DEF addr
<1>2. IInv => \A op \in Amo, r \in StoreRegs :
                AmoExec(op, r[1], r[2], r[3]) /\ faulted' = None => Once(op, r)
  BY <1>1
<1>3. []IInv => AmoTakesEffectOnce
  BY <1>2, PTL DEF AmoTakesEffectOnce
<1> QED
  BY <1>3, AtomicsInvariant, PTL

-----------------------------------------------------------------------------
(* The reservation.                                                        *)

LEMMA NoneNotHeld ==
  ASSUME NEW a \in Addr, NEW v \in Words
  PROVE  <<a, v>> # None
  BY AtomicsConstants

LEMMA ReserveStep ==
  ASSUME LrKeepsAddress, IInv, ReserveOK, Next
  PROVE  ReserveOK'
<1>1. ASSUME UNCHANGED <<reserve, held>> PROVE ReserveOK'
  BY <1>1 DEF ReserveOK
<1>2. ASSUME NEW r \in LrRegs, LRw(r[1], r[2]) PROVE ReserveOK'
  <2> DEFINE addr == regs[r[2]]
  <2>1. r[1] \in Reg /\ r[2] \in Reg
    BY AtomicsConstants
  <2>2. CASE Fault(Instr("lr", r[1], r[2], 0))
    BY <1>1, <2>2 DEF Fault
  <2>3. CASE /\ Readable(addr) /\ Put(r[1], mem[addr])
             /\ reserve' = Key(regs'[r[2]], mem[addr]) /\ held' = <<addr, mem[addr]>>
    <3>1. addr \in Addr /\ mem[addr] \in Words /\ regs \in [Reg -> Words]
      BY <2>3 DEF IInv, TypeOK, Readable
    <3>2. regs'[r[2]] = addr
      BY <2>1, <2>3, <3>1 DEF Put, LrKeepsAddress
    <3>3. held' # None /\ held'[1] = addr /\ held'[2] = mem[addr]
      BY <2>3, <3>1, NoneNotHeld
    <3> QED
      BY <2>3, <3>2, <3>3 DEF ReserveOK
  <2> QED
    BY <1>2, <2>2, <2>3 DEF LRw
<1>3. ASSUME NEW r \in StoreRegs, SCw(r[1], r[2], r[3]) PROVE ReserveOK'
  <2>1. CASE Release
    BY <2>1 DEF Release, ReserveOK
  <2>2. CASE UNCHANGED <<reserve, held>>
    BY <1>1, <2>2
  <2> QED
    BY <1>3, <2>1, <2>2 DEF SCw, Fault
<1>4. ASSUME NEW r \in StoreRegs, NEW op \in Amo, AmoExec(op, r[1], r[2], r[3]) PROVE ReserveOK'
  BY <1>1, <1>4 DEF AmoExec, Fault
<1>5. ASSUME NEW r \in Reg \ {0}, NEW v \in Values, Compute(r, v) PROVE ReserveOK'
  BY <1>1, <1>5 DEF Compute
<1>6. ASSUME NEW r \in StoreRegs, Store(r[2], r[3]) PROVE ReserveOK'
  BY <1>1, <1>6 DEF Store
<1>7. ASSUME NEW a \in Addr, NEW allowed \in {"none", "read"}, Protect(a, allowed) PROVE ReserveOK'
  BY <1>1, <1>7 DEF Protect
<1>8. ASSUME NEW a \in Addr, NEW v \in Words, MapAndReturn(a, v) PROVE ReserveOK'
  BY <1>1, <1>8 DEF MapAndReturn
<1>9. CASE GiveUp
  BY <1>1, <1>9 DEF GiveUp
<1>10. Steps
  BY NextSteps DEF IInv
<1> QED
  BY <1>2, <1>3, <1>4, <1>5, <1>6, <1>7, <1>8, <1>9, <1>10 DEF Steps

\* The reservation is the string of the last LR.W's address and word until an
\* SC.W takes it, whatever faults, stores and AMOs come between.
THEOREM ReservationKept == LrKeepsAddress => (Spec => [](IInv /\ ReserveOK))
<1> SUFFICES ASSUME LrKeepsAddress PROVE Spec => [](IInv /\ ReserveOK)
  OBVIOUS
<1>1. Init => ReserveOK
  BY DEF Init, ReserveOK
<1>2. IInv /\ ReserveOK /\ [Next]_vars => ReserveOK'
  BY ReserveStep DEF vars, ReserveOK
<1> QED
  BY <1>1, <1>2, AtomicsInvariant, PTL DEF Spec

\* An SC.W succeeds only after an LR.W and once, on its address and the word
\* it returned, unless the two addresses have different numbers of digits.
THEOREM ScNeedsReservation == LrKeepsAddress => (Spec => ScSucceedsOnKey)
<1> SUFFICES ASSUME LrKeepsAddress PROVE Spec => ScSucceedsOnKey
  OBVIOUS
<1> DEFINE Reserved(addr) ==
             /\ held # None
             /\ \/ held = <<addr, mem[addr]>>
                \/ Len(Digits[held[1]]) # Len(Digits[addr])
<1>1. ASSUME IInv, ReserveOK, NEW r \in StoreRegs, ScDone(r), Matches(regs[r[2]])
      PROVE  Reserved(regs[r[2]])
  <2> DEFINE addr == regs[r[2]]
  <2>1. Readable(addr)
    BY <1>1 DEF ScDone, SCw, Fault, Writable, Readable
  <2>2. addr \in Addr /\ mem[addr] \in Words
    BY <1>1, <2>1 DEF Readable, IInv, TypeOK
  <2>3. addr \in Words
    BY <2>2, AtomicsConstants
  <2>4. reserve = Key(addr, mem[addr]) /\ reserve # Unset /\ reserve # None
    BY <1>1, <2>2, <2>3, KeyType, AtomicsConstants DEF Matches
  <2>5. held # None /\ reserve = Key(held[1], held[2])
    BY <1>1, <2>4 DEF ReserveOK
  <2>6. PICK a \in Addr, v \in Words : held = <<a, v>>
    BY <1>1, <2>5 DEF IInv, TypeOK
  <2>7. a \in Words /\ Key(a, v) = Key(addr, mem[addr])
    BY <2>4, <2>5, <2>6, AtomicsConstants
  <2> HIDE DEF addr
  <2>8. CASE Len(Digits[a]) = Len(Digits[addr])
    <3>1. a = addr /\ v = mem[addr]
      BY <2>2, <2>3, <2>7, <2>8, KeyTells
    <3> QED
      BY <2>5, <2>6, <3>1 DEF addr
  <2>9. CASE Len(Digits[a]) # Len(Digits[addr])
    BY <2>5, <2>6, <2>9 DEF addr
  <2> QED
    BY <2>8, <2>9
<1>2. IInv /\ ReserveOK =>
        \A r \in StoreRegs :
          LET addr == regs[r[2]]
          IN  ScDone(r) /\ Matches(addr) => Reserved(addr)
  BY <1>1
<1>3. [](IInv /\ ReserveOK) => ScSucceedsOnKey
  BY <1>2, PTL DEF ScSucceedsOnKey
<1> QED
  BY <1>3, ReservationKept, PTL

\* An SC.W to the last LR.W's address succeeds while the word there is the one
\* that LR.W returned.
THEOREM ScSucceeds == LrKeepsAddress => (Spec => ScSucceedsWhenUntouched)
<1> SUFFICES ASSUME LrKeepsAddress PROVE Spec => ScSucceedsWhenUntouched
  OBVIOUS
<1>1. ASSUME IInv, ReserveOK, NEW r \in StoreRegs, ScDone(r), held = <<regs[r[2]], mem[regs[r[2]]]>>
      PROVE  mem'[regs[r[2]]] = regs[r[3]] /\ (r[1] # 0 => regs'[r[1]] = 0)
  <2> DEFINE addr == regs[r[2]]
  <2>1. Readable(addr) /\ addr \in Addr /\ mem[addr] \in Words /\ r[1] \in Reg
    BY <1>1, AtomicsConstants DEF ScDone, SCw, Writable, Readable, Fault, IInv, TypeOK
  <2>2. held # None
    BY <1>1, <2>1, NoneNotHeld
  <2>3. reserve = Key(addr, mem[addr])
    BY <1>1, <2>2 DEF ReserveOK
  <2>4. Matches(addr) /\ reserve # Unset
    BY <2>1, <2>3, KeyType, AtomicsConstants DEF Matches
  <2>5. phase' # "fault" /\ phase' # "crashed"
    BY <1>1 DEF ScDone
  <2>6. ~Fault(Instr("sc", r[1], r[2], r[3]))
    BY <2>5 DEF Fault
  <2> HIDE DEF addr
  <2>7. mem' = [mem EXCEPT ![addr] = regs[r[3]]] /\ Put(r[1], 0)
    BY <1>1, <2>4, <2>5, <2>6 DEF ScDone, SCw, addr
  <2>8. mem \in [Addr -> Words] /\ regs \in [Reg -> Words] /\ ToReg(0) = 0
    BY <1>1, Remainders DEF IInv, TypeOK
  <2>9. mem'[addr] = regs[r[3]]
    BY <2>1, <2>7, <2>8
  <2>10. r[1] # 0 => regs'[r[1]] = 0
    BY <2>1, <2>7, <2>8 DEF Put
  <2> QED
    BY <2>9, <2>10 DEF addr
<1>2. IInv /\ ReserveOK =>
        \A r \in StoreRegs :
          ScDone(r) /\ held = <<regs[r[2]], mem[regs[r[2]]]>> =>
            mem'[regs[r[2]]] = regs[r[3]] /\ (r[1] # 0 => regs'[r[1]] = 0)
  BY <1>1
<1>3. [](IInv /\ ReserveOK) => ScSucceedsWhenUntouched
  BY <1>2, PTL DEF ScSucceedsWhenUntouched
<1> QED
  BY <1>3, ReservationKept, PTL
=============================================================================
