----------------------------- MODULE WordProofs -----------------------------
(***************************************************************************)
(* Proofs about Word: powers of two, remainders, the sign helpers, the     *)
(* bits of a bitwise operation, for every length of word; and numbers told *)
(* by their bits, up to the 32 of an instruction.                          *)
(***************************************************************************)
EXTENDS Word, FiniteSetTheorems, WellFoundedInduction, TLAPS

-----------------------------------------------------------------------------
(* Powers of two.                                                          *)

\* Every nonempty set of numbers has a least one.
LEMMA Least ==
  ASSUME NEW S \in SUBSET Nat, S # {}
  PROVE  \E m \in S : \A x \in S : m <= x
<1> DEFINE upto == {0 .. m : m \in S}
           Below == StrictSubsetOrdering(Nat)
<1>1. upto \subseteq FiniteSubsetsOf(Nat) /\ upto # {}
  <2>1. \A m \in S : m \in Int /\ IsFiniteSet(0 .. m) /\ 0 .. m \in SUBSET Nat
    BY FS_Interval
  <2>2. \A m \in S : 0 .. m \in FiniteSubsetsOf(Nat)
    BY <2>1 DEF FiniteSubsetsOf
  <2> QED
    BY <2>2
<1>2. IsWellFoundedOn(Below, FiniteSubsetsOf(Nat))
  BY FS_StrictSubsetOrderingWellFounded
<1> HIDE DEF upto, Below
<1>3. PICK u \in upto : \A v \in upto : <<v, u>> \notin Below
  BY <1>1, <1>2, WFMin, Zenon
<1> USE DEF upto, Below
<1>4. PICK m \in S : u = 0 .. m
  OBVIOUS
<1>5. ASSUME NEW x \in S, x < m PROVE FALSE
  <2>1. 0 .. x \subseteq 0 .. m /\ m \in (0 .. m) \ (0 .. x)
    BY <1>5
  <2>2. <<0 .. x, u>> \in Below
    BY <1>4, <2>1 DEF StrictSubsetOrdering
  <2> QED
    BY <1>3, <2>2
<1> QED
  BY <1>5

\* Powers that double up to some exponent are numbers, and 2^(k + j) = 2^k * 2^j.
LEMMA PowersUpTo ==
  ASSUME NEW W \in Nat, \A i \in 0 .. W - 1 : 2^(i + 1) = 2 * 2^i
  PROVE  /\ \A i \in 0 .. W : 2^i \in Nat \ {0}
         /\ \A k, j \in Nat : k + j <= W => 2^(k + j) = 2^k * 2^j
<1>1. \A i \in 0 .. W : 2^i \in Nat \ {0}
  <2> DEFINE Bad == {i \in 0 .. W : 2^i \notin Nat \ {0}}
  <2>1. SUFFICES ASSUME Bad # {} PROVE FALSE
    OBVIOUS
  <2>2. PICK m \in Bad : \A x \in Bad : m <= x
    <3>1. Bad \in SUBSET Nat
      OBVIOUS
    <3> HIDE DEF Bad
    <3> QED
      BY <2>1, <3>1, Least
  <2>3. m # 0
    <3>1. \A k : k = 0 => 2^k = 1
      OBVIOUS
    <3> QED
      BY <3>1
  <2>4. m - 1 \in 0 .. W - 1 /\ m - 1 \notin Bad /\ m = (m - 1) + 1
    BY <2>2, <2>3
  <2>5. 2^m = 2 * 2^(m - 1)
    BY <2>4
  <2> QED
    BY <2>4, <2>5
<1>2. ASSUME NEW k \in Nat, NEW j \in Nat, k + j <= W PROVE 2^(k + j) = 2^k * 2^j
  <2> DEFINE Bad == {i \in Nat : i <= j /\ 2^(k + i) # 2^k * 2^i}
  <2>1. SUFFICES ASSUME Bad # {} PROVE FALSE
    <3>1. j \in Nat /\ j <= j
      OBVIOUS
    <3> QED
      BY <3>1
  <2>2. PICK m \in Bad : \A x \in Bad : m <= x
    BY <2>1, Least
  <2>3. 2^k \in Nat
    BY <1>1, <1>2
  <2>4. m # 0
    <3>1. \A i : i = 0 => 2^i = 1 /\ 2^(k + i) = 2^k
      OBVIOUS
    <3> QED
      BY <2>3, <3>1
  <2> DEFINE n == m - 1
  <2>5. n \in Nat /\ m = n + 1 /\ n \notin Bad /\ n <= j
    BY <2>2, <2>4
  <2>6. k + n \in 0 .. W - 1 /\ n \in 0 .. W - 1 /\ (k + n) + 1 = k + m
    BY <1>2, <2>5
  <2> HIDE DEF n
  <2>7. 2^(k + m) = 2 * 2^(k + n) /\ 2^m = 2 * 2^n /\ 2^n \in Nat
    BY <1>1, <2>5, <2>6
  <2>8. 2^(k + n) = 2^k * 2^n
    BY <2>5
  <2>9. \A p, q \in Nat : 2 * (p * q) = p * (2 * q)
    OBVIOUS
  <2> QED
    BY <2>3, <2>7, <2>8, <2>9
<1> QED
  BY <1>1, <1>2

LEMMA Powers ==
  /\ \A i \in 0 .. XLEN : 2^i \in Nat \ {0}
  /\ \A i \in 0 .. XLEN - 1 : 2^(i + 1) = 2 * 2^i
BY XlenType, PowersUpTo

LEMMA PowersAdd ==
  ASSUME NEW k \in Nat, NEW j \in Nat, k + j <= XLEN
  PROVE  2^(k + j) = 2^k * 2^j
BY XlenType, PowersUpTo

-----------------------------------------------------------------------------
(* Words.                                                                  *)

\* A word is its own remainder, and every remainder is a word.
LEMMA Remainders ==
  /\ Mod \in Nat \ {0}
  /\ \A v \in Int : ToReg(v) \in Words
  /\ \A v \in Words : v \in Nat /\ ToReg(v) = v
  /\ 0 \in Words
<1>0. Mod \in Nat \ {0}
  BY Powers, XlenType DEF Mod
<1> HIDE DEF Mod
<1>1. \A m \in Nat \ {0} : \A v \in Int : v % m \in 0 .. m - 1
  OBVIOUS
<1>2. \A m \in Nat \ {0} : \A v \in 0 .. m - 1 : v % m = v
  OBVIOUS
<1> QED
  BY <1>0, <1>1, <1>2 DEF ToReg, Words

LEMMA Halves == Half \in Nat \ {0} /\ Mod = 2 * Half
<1>1. XLEN - 1 \in 0 .. XLEN - 1 /\ (XLEN - 1) + 1 = XLEN
  BY XlenType
<1> QED
  BY <1>1, Powers DEF Half, Mod

\* The number a word is in two's complement, and back.
LEMMA SignedWord ==
  ASSUME NEW v \in Words
  PROVE  /\ u2s(v) = IF v < Half THEN v ELSE v - Mod
         /\ ToReg(u2s(v)) = v
         /\ (v + Half) % Mod = u2s(v) + Half
<1> Half \in Nat \ {0} /\ Mod = 2 * Half /\ v \in 0 .. 2 * Half - 1
  BY Halves DEF Words
<1> HIDE DEF Half, Mod
<1>1. v % Mod = v
  BY Remainders DEF ToReg
<1>2. v >= Half => (-v) % Half = IF v = Half THEN 0 ELSE 2 * Half - v
  OBVIOUS
<1>3. u2s(v) = IF v < Half THEN v ELSE v - Mod
  BY <1>1, <1>2 DEF u2s
<1>4. (v - Mod) % Mod = v /\ (v + Half) % Mod = IF v < Half THEN v + Half ELSE v - Half
  OBVIOUS
<1> QED
  BY <1>1, <1>3, <1>4 DEF ToReg

-----------------------------------------------------------------------------
(* Quotients and remainders of integers.                                   *)

\* The quotient is the one of its interval, and the remainder what it leaves.
LEMMA Quotients ==
  ASSUME NEW m \in Nat \ {0}, NEW x \in Int
  PROVE  /\ x \div m \in Int /\ x % m \in 0 .. m - 1
         /\ x = (x \div m) * m + (x % m)
         /\ (x \div m) * m <= x /\ x < (x \div m + 1) * m
<1>1. \A p \in Nat \ {0} : \A y \in Int : y \div p \in Int /\ y % p \in 0 .. p - 1
  OBVIOUS
<1>2. \A p \in Nat \ {0} : \A y \in Int : y % p = y - (y \div p) * p
  OBVIOUS
<1>3. \A p \in Nat \ {0} : \A y \in Int : (y \div p) * p <= y /\ y < (y \div p + 1) * p
  OBVIOUS
<1>4. \A q, y, r \in Int : r = y - q => y = q + r
  OBVIOUS
<1>5. (x \div m) * m \in Int
  BY <1>1
<1> QED
  BY <1>1, <1>2, <1>3, <1>4, <1>5

\* Adding a multiple moves the quotient, and leaves the remainder.
LEMMA Multiples ==
  ASSUME NEW m \in Nat \ {0}, NEW x \in Int, NEW k \in Int
  PROVE  (x + k * m) \div m = x \div m + k /\ (x + k * m) % m = x % m
<1>1. (x + k * m) \div m = x \div m + k
  OBVIOUS
<1>2. \A y \in Int : y % m = y - ((y \div m) * m)
  OBVIOUS
<1>3. PICK q \in Int : q = x \div m
  OBVIOUS
<1>4. PICK z \in Int : z = x + k * m
  OBVIOUS
<1>6. z % m = z - (q + k) * m /\ x % m = x - q * m
  <2>1. z \div m = q + k
    BY <1>1, <1>3, <1>4
  <2>2. z % m = z - (z \div m) * m /\ x % m = x - (x \div m) * m
    BY <1>2
  <2> QED
    BY <1>3, <2>1, <2>2
<1>5. (q + k) * m = q * m + k * m
  OBVIOUS
<1> QED
  BY <1>1, <1>4, <1>5, <1>6

\* Dividing twice is dividing by the product.
LEMMA DivideTwice ==
  ASSUME NEW m \in Nat \ {0}, NEW n \in Nat \ {0}, NEW x \in Int
  PROVE  (x \div m) \div n = x \div (m * n)
OBVIOUS

\* A number and its remainder differ by a multiple, and multiples leave none.
LEMMA Cut ==
  ASSUME NEW m \in Nat \ {0}, NEW x \in Int
  PROVE  /\ \E k \in Int : x % m = x + k * m
         /\ \A k \in Int : (k * m) % m = 0
<1>1. PICK q \in Int : q = x \div m
  OBVIOUS
<1>2. x = q * m + (x % m)
  BY <1>1, Quotients
<1>3. \E k \in Int : x % m = x + k * m
  <2>1. x % m = x + (-q) * m /\ -q \in Int
    BY <1>2
  <2> QED
    BY <2>1
<1>4. ASSUME NEW k \in Int PROVE (k * m) % m = 0
  <2>1. (0 + k * m) % m = 0 % m /\ 0 % m = 0
    BY Multiples
  <2>2. k * m \in Int
    OBVIOUS
  <2> QED
    BY <2>1, <2>2
<1> QED
  BY <1>3, <1>4

-----------------------------------------------------------------------------
(* Sums over a set.                                                        *)

SumStep(c, f, s) ==
  IF s = {} THEN 0 ELSE c[CHOOSE x \in s : TRUE] + f[s \ {CHOOSE x \in s : TRUE}]

Summed(c, S) == CHOOSE f : f = [s \in SUBSET S |-> SumStep(c, f, s)]

\* The recursion of a sum has a solution.
LEMMA SummedDef ==
  ASSUME NEW S, IsFiniteSet(S), NEW c
  PROVE  /\ Summed(c, S) = [s \in SUBSET S |-> SumStep(c, Summed(c, S), s)]
<1> DEFINE UpTo(n, f) ==
             /\ f = [s \in SUBSET S |-> f[s]]
             /\ \A s \in SUBSET S : Cardinality(s) <= n => f[s] = SumStep(c, f, s)
           Bad == {k \in Nat : ~ \E f : UpTo(k, f)}
<1>1. \A s \in SUBSET S : IsFiniteSet(s) /\ Cardinality(s) \in Nat /\ Cardinality(s) <= Cardinality(S)
  BY FS_Subset, FS_CardinalityType
<1>2. ASSUME Bad # {} PROVE FALSE
  <2>1. PICK m \in Bad : \A x \in Bad : m <= x
    BY <1>2, Least
  <2>2. PICK g : m # 0 => UpTo(m - 1, g)
    <3> HIDE DEF UpTo
    <3>1. CASE m = 0
      BY <3>1
    <3>2. CASE m # 0
      <4>1. m - 1 \in Nat /\ m - 1 < m
        BY <3>2
      <4>2. m - 1 \notin Bad
        BY <2>1, <4>1
      <4> QED
        BY <4>1, <4>2
    <3> QED
      BY <3>1, <3>2
  <2> DEFINE f == [s \in SUBSET S |-> IF Cardinality(s) = m THEN SumStep(c, g, s) ELSE g[s]]
  <2>3. ASSUME NEW s \in SUBSET S, Cardinality(s) <= m PROVE f[s] = SumStep(c, g, s)
    <3>1. CASE Cardinality(s) = m
      BY <3>1
    <3>2. CASE Cardinality(s) # m
      <4>1. m # 0 /\ Cardinality(s) <= m - 1
        BY <1>1, <2>3, <3>2
      <4> QED
        BY <2>2, <3>2, <4>1
    <3> QED
      BY <3>1, <3>2
  <2>4. ASSUME NEW s \in SUBSET S, Cardinality(s) <= m, s # {}, NEW x \in s
        PROVE  f[s \ {x}] = g[s \ {x}]
    <3>1. Cardinality(s \ {x}) = Cardinality(s) - 1
      BY <1>1, FS_RemoveElement
    <3>2. s \ {x} \in SUBSET S /\ Cardinality(s \ {x}) # m
      BY <1>1, <2>4, <3>1
    <3> QED
      BY <3>2
  <2>5. f = [s \in SUBSET S |-> f[s]]
    OBVIOUS
  <2> HIDE DEF f
  <2>6. \A s \in SUBSET S : Cardinality(s) <= m => f[s] = SumStep(c, f, s)
    <3>1. SUFFICES ASSUME NEW s \in SUBSET S, Cardinality(s) <= m PROVE SumStep(c, g, s) = SumStep(c, f, s)
      BY <2>3
    <3>2. CASE s = {}
      BY <3>2 DEF SumStep
    <3>3. CASE s # {}
      <4> DEFINE y == CHOOSE x \in s : TRUE
      <4>1. y \in s
        BY <3>3
      <4>2. f[s \ {y}] = g[s \ {y}]
        BY <2>4, <3>1, <3>3, <4>1
      <4>3. SumStep(c, g, s) = c[y] + g[s \ {y}] /\ SumStep(c, f, s) = c[y] + f[s \ {y}]
        BY <3>3 DEF SumStep
      <4> QED
        BY <4>2, <4>3
    <3> QED
      BY <3>2, <3>3
  <2>7. UpTo(m, f)
    BY <2>5, <2>6
  <2> QED
    BY <2>7
<1>3. PICK f : UpTo(Cardinality(S), f)
  BY <1>1, <1>2
<1> DEFINE Solves(h) == h = [s \in SUBSET S |-> SumStep(c, h, s)]
<1>4. Solves(f)
  BY <1>1, <1>3
<1>5. Summed(c, S) = CHOOSE h : Solves(h)
  BY DEF Summed
<1> HIDE DEF Solves
<1>6. Solves(Summed(c, S))
  BY <1>4, <1>5
<1> QED
  BY <1>6 DEF Solves

\* f adds to 0 what the elements of a set weigh, y(s) first, or in any order.
Adds(c, S, f, y) ==
  /\ f[{}] = 0
  /\ \A s \in SUBSET S : s # {} => y[s] \in s /\ f[s] = c[y[s]] + f[s \ {y[s]}]

AddsEach(c, S, f) ==
  \A s \in SUBSET S : f[s] \in Int /\ \A x \in s : f[s] = c[x] + f[s \ {x}]

LEMMA AddsAny ==
  ASSUME NEW S, IsFiniteSet(S), NEW c \in [S -> Int], NEW f, NEW y, Adds(c, S, f, y)
  PROVE  AddsEach(c, S, f)
<1> /\ f[{}] = 0
    /\ \A s \in SUBSET S : s # {} => y[s] \in s /\ f[s] = c[y[s]] + f[s \ {y[s]}]
  BY DEF Adds
<1> DEFINE Holds(s) == f[s] \in Int /\ \A x \in s : f[s] = c[x] + f[s \ {x}]
           Bad == {k \in Nat : \E s \in SUBSET S : Cardinality(s) = k /\ ~Holds(s)}
<1>1. \A s \in SUBSET S : IsFiniteSet(s) /\ Cardinality(s) \in Nat
  BY FS_Subset, FS_CardinalityType
<1>2. \A s \in SUBSET S : \A x \in s : s \ {x} \in SUBSET S /\ Cardinality(s \ {x}) = Cardinality(s) - 1
  BY <1>1, FS_RemoveElement
<1>5. ASSUME Bad # {} PROVE FALSE
  <2>1. PICK m \in Bad : \A k \in Bad : m <= k
    <3> HIDE DEF Holds
    <3> QED
      BY <1>5, Least
  <2>2. PICK s \in SUBSET S : Cardinality(s) = m /\ ~Holds(s)
    OBVIOUS
  <2>a. ASSUME NEW t \in SUBSET S, Cardinality(t) < m PROVE Holds(t)
    <3> HIDE DEF Holds
    <3> QED
      BY <1>1, <2>1, <2>a
  <2>3. ASSUME NEW x \in s
        PROVE  s \ {x} \in SUBSET S /\ Cardinality(s \ {x}) < m /\ Holds(s \ {x})
    <3>1. s \ {x} \in SUBSET S /\ Cardinality(s \ {x}) = Cardinality(s) - 1 /\ Cardinality(s) \in Nat
      BY <1>1, <1>2
    <3> HIDE DEF Holds
    <3>2. Cardinality(s \ {x}) < m
      BY <2>2, <3>1
    <3> QED
      BY <2>a, <3>1, <3>2
  <2>4. s # {}
    <3>1. s = {} => f[s] = 0
      OBVIOUS
    <3> QED
      BY <2>2, <3>1
  <2> DEFINE z == y[s]
  <2>5. z \in s /\ c[z] \in Int /\ f[s] = c[z] + f[s \ {z}]
    BY <2>4
  <2>6. f[s] \in Int
    <3>1. f[s \ {z}] \in Int
      BY <2>3, <2>5
    <3> HIDE DEF z
    <3> QED
      BY <2>5, <3>1
  <2>7. ASSUME NEW x \in s, x # z PROVE f[s] = c[x] + f[s \ {x}]
    <3>1. PICK t \in SUBSET S : t = (s \ {x}) \ {z}
      OBVIOUS
    <3>2. t = (s \ {z}) \ {x} /\ z \in s \ {x} /\ x \in s \ {z}
      BY <2>5, <2>7, <3>1
    <3>3. f[s \ {z}] = c[x] + f[t]
      BY <2>3, <2>5, <3>2
    <3>4. f[s \ {x}] = c[z] + f[t]
      <4>1. \A w \in s \ {x} : f[s \ {x}] = c[w] + f[(s \ {x}) \ {w}]
        BY <2>3
      <4> HIDE DEF z
      <4> QED
        BY <3>1, <3>2, <4>1
    <3>5. f[t] \in Int
      <4> DEFINE u == s \ {x}
      <4>a. u \in SUBSET S /\ Cardinality(u) < m /\ z \in u /\ t = u \ {z}
        BY <2>3, <3>1, <3>2
      <4> HIDE DEF u, z
      <4>1. Cardinality(t) < m
        BY <1>1, <1>2, <4>a
      <4> QED
        BY <2>a, <4>1
    <3>6. c[x] \in Int
      OBVIOUS
    <3> QED
      BY <2>5, <3>3, <3>4, <3>5, <3>6
  <2> QED
    BY <2>2, <2>5, <2>6, <2>7
<1>6. \A s \in SUBSET S : Holds(s)
  BY <1>1, <1>5
<1> QED
  BY <1>6 DEF AddsEach

\* A sum of numbers is a number, and any of them may be added last.
LEMMA SumRemoves ==
  ASSUME NEW S, IsFiniteSet(S), NEW c \in [S -> Int]
  PROVE  /\ Summed(c, S)[{}] = 0
         /\ \A s \in SUBSET S : /\ Summed(c, S)[s] \in Int
                                /\ \A x \in s : Summed(c, S)[s] = c[x] + Summed(c, S)[s \ {x}]
<1> DEFINE f == Summed(c, S)
           y == [s \in SUBSET S |-> CHOOSE x \in s : TRUE]
<1>1. f = [s \in SUBSET S |-> SumStep(c, f, s)]
  BY SummedDef
<1> HIDE DEF f
<1>2. f[{}] = 0
  BY <1>1 DEF SumStep
<1>3. \A s \in SUBSET S : s # {} => y[s] \in s /\ f[s] = c[y[s]] + f[s \ {y[s]}]
  <2> SUFFICES ASSUME NEW s \in SUBSET S, s # {} PROVE y[s] \in s /\ f[s] = c[y[s]] + f[s \ {y[s]}]
    OBVIOUS
  <2>1. f[s] = SumStep(c, f, s)
    BY <1>1
  <2> QED
    BY <2>1 DEF SumStep
<1> HIDE DEF y
<1>4. Adds(c, S, f, y)
  BY <1>2, <1>3 DEF Adds
<1>5. AddsEach(c, S, f)
  BY <1>4, AddsAny
<1>6. \A s \in SUBSET S : f[s] \in Int /\ \A x \in s : f[s] = c[x] + f[s \ {x}]
  BY <1>5 DEF AddsEach
<1> QED
  BY <1>2, <1>6 DEF f

-----------------------------------------------------------------------------
(* Bits.                                                                   *)

\* The word with the bits b.
Weights(b) == [i \in 0 .. XLEN - 1 |-> IF b[i] = 1 THEN 2^i ELSE 0]
WordOf(b) == Summed(Weights(b), 0 .. XLEN - 1)[0 .. XLEN - 1]

\* The sum of the bits below n.
LEMMA SumBelow ==
  ASSUME NEW b \in [0 .. XLEN - 1 -> {0, 1}]
  PROVE  \E f : /\ f[0] = 0 /\ f[XLEN] = WordOf(b)
                /\ \A n \in 0 .. XLEN : f[n] \in Int
                /\ \A n \in 0 .. XLEN - 1 : f[n + 1] = f[n] + b[n] * 2^n
<1> DEFINE S == 0 .. XLEN - 1
           c == Weights(b)
           g == Summed(c, S)
           f == [n \in 0 .. XLEN |-> g[0 .. n - 1]]
<1>1. IsFiniteSet(S)
  BY XlenType, FS_Interval
<1>2. c \in [S -> Int] /\ \A i \in S : c[i] = b[i] * 2^i
  BY Powers, XlenType DEF Weights
<1> HIDE DEF c
<1>3. /\ g[{}] = 0
      /\ \A s \in SUBSET S : g[s] \in Int /\ \A x \in s : g[s] = c[x] + g[s \ {x}]
  BY <1>1, <1>2, SumRemoves
<1>4. g[S] = WordOf(b)
  BY DEF WordOf, c
<1> HIDE DEF g
<1>5. \A n \in 0 .. XLEN : 0 .. n - 1 \in SUBSET S /\ f[n] = g[0 .. n - 1]
  BY XlenType
<1>6. \A n \in 0 .. XLEN - 1 :
        n + 1 \in 0 .. XLEN /\ n \in 0 .. n /\ (0 .. n) \ {n} = 0 .. n - 1 /\ (n + 1) - 1 = n
  BY XlenType
<1>7. 0 .. 0 - 1 = {} /\ 0 \in 0 .. XLEN /\ XLEN \in 0 .. XLEN
  BY XlenType
<1>8. ASSUME NEW n \in 0 .. XLEN - 1 PROVE f[n + 1] = f[n] + b[n] * 2^n
  <2>1. f[n + 1] = g[0 .. n] /\ 0 .. n \in SUBSET S /\ n \in 0 .. XLEN
    <3>1. n + 1 \in 0 .. XLEN /\ (n + 1) - 1 = n /\ n \in 0 .. XLEN
      BY <1>6, XlenType
    <3>2. f[n + 1] = g[0 .. (n + 1) - 1] /\ 0 .. (n + 1) - 1 \in SUBSET S
      BY <1>5, <3>1
    <3> HIDE DEF f, S
    <3> QED
      BY <3>1, <3>2
  <2>2. g[0 .. n] = c[n] + g[0 .. n - 1]
    <3>1. PICK s \in SUBSET S : s = 0 .. n
      BY <2>1
    <3>2. n \in s /\ s \ {n} = 0 .. n - 1
      BY <1>6, <3>1
    <3>3. g[s] = c[n] + g[s \ {n}]
      BY <1>3, <3>2
    <3>4. g[s \ {n}] = g[0 .. n - 1] /\ g[s] = g[0 .. n]
      BY <3>1, <3>2
    <3> QED
      BY <3>3, <3>4
  <2>3. f[n] = g[0 .. n - 1] /\ g[0 .. n - 1] \in Int /\ c[n] \in Int /\ c[n] = b[n] * 2^n
    BY <1>2, <1>3, <1>5, <2>1
  <2> QED
    BY <2>1, <2>2, <2>3
<1>9. f[0] = 0 /\ f[XLEN] = WordOf(b)
  BY <1>3, <1>4, <1>5, <1>7
<1>10. \A n \in 0 .. XLEN : f[n] \in Int
  BY <1>3, <1>5
<1> HIDE DEF f
<1> QED
  BY <1>8, <1>9, <1>10

\* The bit at p = 2^k of a number, whose higher bits add multiples of 2p.
LEMMA BitAt ==
  /\ \A p \in Nat \ {0} : \A r \in 0 .. p - 1, e \in {0, 1} : ((r + e * p) \div p) % 2 = e
  /\ \A p \in Nat \ {0} : \A v \in Nat, q \in Nat : ((v + (2 * q) * p) \div p) % 2 = (v \div p) % 2
<1>1. \A p \in Nat \ {0} : \A r \in 0 .. p - 1, e \in {0, 1} : ((r + e * p) \div p) % 2 = e
  <2>1. \A p \in Nat \ {0} : \A r \in 0 .. p - 1 : r \div p = 0 /\ (r + p) \div p = 1
    OBVIOUS
  <2> QED
    BY <2>1
<1>2. \A p \in Nat \ {0} : \A v \in Nat, q \in Nat : (v + (2 * q) * p) \div p = v \div p + 2 * q
  <2>a. \A p \in Nat \ {0} : \A e, r \in Int : 0 <= r /\ r < p => (e * p + r) \div p = e
    <3> SUFFICES ASSUME NEW p \in Nat \ {0}, NEW e \in Int, NEW r \in Int, 0 <= r, r < p
                 PROVE  (e * p + r) \div p = e
      OBVIOUS
    <3>0. \A x \in Int : x \div p \in Int /\ x % p \in Int /\ x = (x \div p) * p + (x % p) /\ 0 <= x % p /\ x % p < p
      OBVIOUS
    <3>1. PICK x \in Int : x = e * p + r
      OBVIOUS
    <3>a. PICK d \in Int, s \in Int : d = x \div p /\ s = x % p
      BY <3>0
    <3>2. e * p + r = d * p + s /\ 0 <= s /\ s < p
      BY <3>0, <3>1, <3>a
    <3>3. (e - d) * p = s - r
      BY <3>2
    <3>4. e - d >= 1 => (e - d) * p >= p
      OBVIOUS
    <3>5. e - d <= -1 => (e - d) * p <= -p
      OBVIOUS
    <3> QED
      BY <3>1, <3>a, <3>2, <3>3, <3>4, <3>5
  <2>b. \A p, d, r, q \in Int : (d * p + r) + q * p = (d + q) * p + r
    OBVIOUS
  <2>1. \A p \in Nat \ {0} : \A d, r, q \in Int : 0 <= r /\ r < p => ((d * p + r) + q * p) \div p = d + q
    <3> SUFFICES ASSUME NEW p \in Nat \ {0}, NEW d \in Int, NEW r \in Int, NEW q \in Int, 0 <= r, r < p
                 PROVE  ((d * p + r) + q * p) \div p = d + q
      OBVIOUS
    <3>1. (d * p + r) + q * p = (d + q) * p + r
      BY <2>b
    <3>2. ((d + q) * p + r) \div p = d + q
      BY <2>a, d + q \in Int
    <3> QED
      BY <3>1, <3>2
  <2>2. \A p \in Nat \ {0} : \A v \in Nat : v = (v \div p) * p + (v % p) /\ 0 <= v % p /\ v % p < p
    OBVIOUS
  <2> QED
    <3> SUFFICES ASSUME NEW p \in Nat \ {0}, NEW v \in Nat, NEW q \in Nat
                 PROVE  (v + (2 * q) * p) \div p = v \div p + 2 * q
      OBVIOUS
    <3>a. PICK d, r \in Int : d = v \div p /\ r = v % p
      OBVIOUS
    <3>1. v = d * p + r /\ 0 <= r /\ r < p
      BY <2>2, <3>a
    <3>2. \A e \in Int : (v + e * p) \div p = d + e
      BY <2>1, <3>1
    <3>3. PICK e \in Int : e = 2 * q
      OBVIOUS
    <3>4. v \div p = d
      BY <2>a, <3>1
    <3> QED
      BY <3>a, <3>2, <3>3, <3>4
<1>3. \A d, q \in Int : (d + 2 * q) % 2 = d % 2
  <2>1. \A d \in Int : d % 2 = d - 2 * (d \div 2)
    OBVIOUS
  <2>2. \A d, q \in Int : (d + 2 * q) \div 2 = (d \div 2) + q
    OBVIOUS
  <2> QED
    BY <2>1, <2>2
<1>4. \A p \in Nat \ {0} : \A v \in Nat, q \in Nat : ((v + (2 * q) * p) \div p) % 2 = (v \div p) % 2
  <2> SUFFICES ASSUME NEW p \in Nat \ {0}, NEW v \in Nat, NEW q \in Nat
               PROVE  ((v + (2 * q) * p) \div p) % 2 = (v \div p) % 2
    OBVIOUS
  <2>1. PICK d \in Int : d = v \div p
    OBVIOUS
  <2>2. (v + (2 * q) * p) \div p = d + 2 * q
    BY <1>2, <2>1
  <2>3. (d + 2 * q) % 2 = d % 2
    BY <1>3
  <2> QED
    BY <2>1, <2>2, <2>3
<1> QED
  BY <1>1, <1>4

\* WordOf(b) has the bits b.
LEMMA WordBits ==
  ASSUME NEW b \in [0 .. XLEN - 1 -> {0, 1}]
  PROVE  WordOf(b) \in Words /\ \A i \in 0 .. XLEN - 1 : Bit(WordOf(b), i) = b[i]
<1>1. PICK f : /\ f[0] = 0 /\ f[XLEN] = WordOf(b)
               /\ \A n \in 0 .. XLEN : f[n] \in Int
               /\ \A n \in 0 .. XLEN - 1 : f[n + 1] = f[n] + b[n] * 2^n
  BY SumBelow
<1>2. \A n \in 0 .. XLEN : 2^n \in Nat \ {0}
  BY Powers
<1>3. \A n \in 0 .. XLEN : f[n] \in 0 .. 2^n - 1
  <2> DEFINE Bad == {n \in Nat : n <= XLEN /\ f[n] \notin 0 .. 2^n - 1}
  <2>1. SUFFICES ASSUME Bad # {} PROVE FALSE
    OBVIOUS
  <2>2. PICK m \in Bad : \A x \in Bad : m <= x
    BY <2>1, Least
  <2>3. m # 0
    <3>1. \A i : i = 0 => 2^i = 1
      OBVIOUS
    <3> QED
      BY <1>1, <3>1
  <2>4. PICK n \in 0 .. XLEN - 1 : m = n + 1
    BY <2>3, XlenType
  <2>5. n \in Nat /\ n <= XLEN /\ n < m
    BY <2>4, XlenType
  <2>6. f[n] \in 0 .. 2^n - 1
    BY <2>2, <2>5
  <2>7. f[m] = f[n] + b[n] * 2^n /\ 2^m = 2 * 2^n /\ 2^n \in Nat
    BY <1>1, <1>2, <2>4, <2>5, XlenType
  <2>8. b[n] * 2^n = 0 \/ b[n] * 2^n = 2^n
    BY <2>7
  <2> QED
    BY <2>6, <2>7, <2>8
<1>4. ASSUME NEW k \in 0 .. XLEN - 1 PROVE Bit(f[XLEN], k) = b[k]
  <2> DEFINE Bad == {n \in Nat : n > k /\ n <= XLEN /\ (f[n] \div 2^k) % 2 # b[k]}
             p == 2^k
  <2>a. p \in Nat \ {0}
    BY <1>2, XlenType
  <2>1. ASSUME Bad # {} PROVE FALSE
    <3>1. PICK m \in Bad : \A x \in Bad : m <= x
      BY <2>1, Least
    <3>2. PICK n \in 0 .. XLEN - 1 : m = n + 1
      BY XlenType
    <3>3. n \in Nat /\ n <= XLEN /\ n < m /\ n >= k /\ f[m] = f[n] + b[n] * 2^n
      BY <1>1, <3>2, XlenType
    <3>4. f[n] \in Nat /\ b[n] \in {0, 1}
      BY <1>3, <3>2, <3>3, <1>2
    <3>5. CASE n = k
      <4>1. f[n] \in 0 .. p - 1 /\ f[m] = f[n] + b[k] * p /\ b[k] \in {0, 1}
        <5>1. k \in 0 .. XLEN
          BY XlenType
        <5> QED
          BY <1>3, <3>3, <3>4, <3>5, <5>1
      <4> HIDE DEF p
      <4>2. (f[m] \div p) % 2 = b[k]
        <5>1. PICK r \in 0 .. p - 1, e \in {0, 1} : r = f[n] /\ e = b[k]
          BY <4>1
        <5>2. ((r + e * p) \div p) % 2 = e
          BY <2>a, BitAt
        <5> QED
          BY <4>1, <5>1, <5>2
      <4> QED
        BY <4>2 DEF p
    <3>6. CASE n > k
      <4>1. n - (k + 1) \in Nat /\ k + 1 \in Nat /\ (k + 1) + (n - (k + 1)) = n
        BY <3>2, <3>6
      <4> DEFINE q == 2^(n - (k + 1))
      <4>2. 2^n = 2^(k + 1) * q
        BY <4>1, <3>3, PowersAdd
      <4>3. 2^(k + 1) = 2 * p
        BY Powers
      <4>4. q \in Nat
        BY <4>1, <1>2, <3>2, XlenType
      <4>5. (f[n] \div 2^k) % 2 = b[k]
        BY <3>1, <3>3, <3>6
      <4> HIDE DEF p, q
      <4>6. 2^n = (2 * q) * p
        BY <2>a, <4>2, <4>3, <4>4, \A x, y \in Nat : (2 * x) * y = (2 * y) * x
      <4>7. b[n] * 2^n = 0 \/ b[n] * 2^n = (2 * q) * p
        BY <3>4, <4>4, <4>6, <2>a
      <4>8. ((f[n] + (2 * q) * p) \div p) % 2 = (f[n] \div p) % 2
        BY <2>a, <3>4, <4>4, BitAt
      <4>9. (f[m] \div p) % 2 = b[k]
        BY <3>3, <3>4, <4>5, <4>7, <4>8 DEF p
      <4> QED
        BY <4>9 DEF p
    <3> QED
      BY <3>3, <3>5, <3>6
  <2>2. XLEN \notin Bad
    BY <2>1
  <2> QED
    BY <2>2, XlenType DEF Bit
<1>5. f[XLEN] \in Words
  BY <1>3, XlenType DEF Words, Mod
<1> QED
  BY <1>1, <1>4, <1>5

\* Bits are zeros and ones.
LEMMA BitType ==
  ASSUME NEW v \in Int, NEW i \in 0 .. XLEN - 1
  PROVE  Bit(v, i) \in {0, 1}
<1>1. 2^i \in Nat \ {0}
  BY Powers, XlenType
<1>2. \A p \in Nat \ {0} : v \div p \in Int
  OBVIOUS
<1>3. \A x \in Int : x % 2 \in {0, 1}
  OBVIOUS
<1> QED
  BY <1>1, <1>2, <1>3 DEF Bit

\* And, Or and Xor of any integers are words, with the bits their names say.
THEOREM BitwiseOperations ==
  ASSUME NEW v \in Int, NEW w \in Int
  PROVE  /\ And(v, w) \in Words /\ Or(v, w) \in Words /\ Xor(v, w) \in Words
         /\ \A i \in 0 .. XLEN - 1 :
              /\ Bit(And(v, w), i) = Bit(v, i) * Bit(w, i)
              /\ Bit(Or(v, w), i) = Bit(v, i) + Bit(w, i) - Bit(v, i) * Bit(w, i)
              /\ Bit(Xor(v, w), i) = (Bit(v, i) + Bit(w, i)) % 2
<1> DEFINE b == [i \in 0 .. XLEN - 1 |-> IF Bit(v, i) = 1 /\ Bit(w, i) = 1 THEN 1 ELSE 0]
           c == [i \in 0 .. XLEN - 1 |-> IF Bit(v, i) = 1 \/ Bit(w, i) = 1 THEN 1 ELSE 0]
           d == [i \in 0 .. XLEN - 1 |-> IF Bit(v, i) # Bit(w, i) THEN 1 ELSE 0]
<1>1. And(v, w) = WordOf(b)
  <2> DEFINE z == [i \in 0 .. XLEN - 1 |-> IF Bit(v, i) = 1 /\ Bit(w, i) = 1 THEN 2^i ELSE 0]
  <2>1. And(v, w) = Summed(z, 0 .. XLEN - 1)[0 .. XLEN - 1]
    BY DEF And, Bitwise, MapThenSumSet, MapThenFoldSet, Summed, SumStep
  <2>2. z = Weights(b)
    BY DEF Weights
  <2> QED
    BY <2>1, <2>2 DEF WordOf
<1>2. Or(v, w) = WordOf(c)
  <2> DEFINE z == [i \in 0 .. XLEN - 1 |-> IF Bit(v, i) = 1 \/ Bit(w, i) = 1 THEN 2^i ELSE 0]
  <2>1. Or(v, w) = Summed(z, 0 .. XLEN - 1)[0 .. XLEN - 1]
    BY DEF Or, Bitwise, MapThenSumSet, MapThenFoldSet, Summed, SumStep
  <2>2. z = Weights(c)
    BY DEF Weights
  <2> QED
    BY <2>1, <2>2 DEF WordOf
<1>3. Xor(v, w) = WordOf(d)
  <2> DEFINE z == [i \in 0 .. XLEN - 1 |-> IF Bit(v, i) # Bit(w, i) THEN 2^i ELSE 0]
  <2>1. Xor(v, w) = Summed(z, 0 .. XLEN - 1)[0 .. XLEN - 1]
    BY DEF Xor, Bitwise, MapThenSumSet, MapThenFoldSet, Summed, SumStep
  <2>2. z = Weights(d)
    BY DEF Weights
  <2> QED
    BY <2>1, <2>2 DEF WordOf
<1>4. \A i \in 0 .. XLEN - 1 : Bit(v, i) \in {0, 1} /\ Bit(w, i) \in {0, 1}
  BY BitType
<1>5. \A x, y \in {0, 1} :
        /\ (IF x = 1 /\ y = 1 THEN 1 ELSE 0) = x * y
        /\ (IF x = 1 \/ y = 1 THEN 1 ELSE 0) = x + y - x * y
        /\ (IF x # y THEN 1 ELSE 0) = (x + y) % 2
  OBVIOUS
<1>6. /\ b \in [0 .. XLEN - 1 -> {0, 1}] /\ c \in [0 .. XLEN - 1 -> {0, 1}]
      /\ d \in [0 .. XLEN - 1 -> {0, 1}]
  OBVIOUS
<1>7. \A i \in 0 .. XLEN - 1 :
        /\ b[i] = Bit(v, i) * Bit(w, i)
        /\ c[i] = Bit(v, i) + Bit(w, i) - Bit(v, i) * Bit(w, i)
        /\ d[i] = (Bit(v, i) + Bit(w, i)) % 2
  BY <1>4, <1>5
<1> HIDE DEF b, c, d
<1> QED
  BY <1>1, <1>2, <1>3, <1>6, <1>7, WordBits

-----------------------------------------------------------------------------
(* Numbers of up to 32 bits, and their bits.                               *)

\* One more bit is twice as much.
Doubles(i) == 2^(i + 1) = 2 * 2^i

\* So do the powers up to the 32 bits of an instruction, whatever a register has.
LEMMA Powers32 ==
  /\ \A i \in 0 .. 32 : 2^i \in Nat \ {0}
  /\ \A i \in 0 .. 31 : 2^(i + 1) = 2 * 2^i
<1>1. Doubles(0) /\ Doubles(1) /\ Doubles(2) /\ Doubles(3) /\ Doubles(4) /\ Doubles(5) /\ Doubles(6) /\ Doubles(7)
  BY DEF Doubles
<1>2. Doubles(8) /\ Doubles(9) /\ Doubles(10) /\ Doubles(11) /\ Doubles(12) /\ Doubles(13) /\ Doubles(14) /\ Doubles(15)
  BY DEF Doubles
<1>3. Doubles(16) /\ Doubles(17) /\ Doubles(18) /\ Doubles(19) /\ Doubles(20) /\ Doubles(21) /\ Doubles(22) /\ Doubles(23)
  BY DEF Doubles
<1>4. Doubles(24) /\ Doubles(25) /\ Doubles(26) /\ Doubles(27) /\ Doubles(28) /\ Doubles(29) /\ Doubles(30) /\ Doubles(31)
  BY DEF Doubles
<1>5. \A i \in 0 .. 31 : Doubles(i)
  BY <1>1, <1>2, <1>3, <1>4
<1>6. PICK W \in Nat : W = 32
  OBVIOUS
<1>7. \A i \in 0 .. W - 1 : 2^(i + 1) = 2 * 2^i
  <2>1. \A i \in 0 .. W - 1 : i \in 0 .. 31
    BY <1>6
  <2> QED
    BY <1>5, <2>1 DEF Doubles
<1>8. \A i \in 0 .. W : 2^i \in Nat \ {0}
  BY <1>7, PowersUpTo
<1> QED
  BY <1>5, <1>6, <1>8 DEF Doubles

\* And they multiply as powers do.
LEMMA PowersAdd32 ==
  ASSUME NEW k \in Nat, NEW j \in Nat, k + j <= 32
  PROVE  2^(k + j) = 2^k * 2^j
<1>1. PICK W \in Nat : W = 32
  OBVIOUS
<1>2. \A i \in 0 .. W - 1 : 2^(i + 1) = 2 * 2^i
  <2>1. \A i \in 0 .. W - 1 : i \in 0 .. 31
    BY <1>1
  <2> QED
    BY <2>1, Powers32
<1> QED
  BY <1>1, <1>2, PowersUpTo

\* The number x of n bits has ones at the places in B.
Has(x, n, B) == x \in 0 .. 2^n - 1 /\ \A i \in 0 .. n - 1 : Bit(x, i) = 1 <=> i \in B

\* A multiple of 2^n leaves the bits below n as they are.
LEMMA LowBits ==
  ASSUME NEW n \in 0 .. 32, NEW v \in Int, NEW a \in Int, NEW i \in 0 .. n - 1
  PROVE  Bit(v + a * 2^n, i) = Bit(v, i)
<1>1. i \in 0 .. 32 /\ n - i - 1 \in 0 .. 31 /\ i \in Nat /\ (n - i - 1) + 1 = n - i /\ n - i \in Nat
      /\ i + (n - i) = n /\ n <= 32
  OBVIOUS
<1>2. PICK r, s \in Nat \ {0} : r = 2^i /\ s = 2^(n - i - 1)
  <2>1. \A j \in 0 .. 32 : 2^j \in Nat \ {0}
    BY Powers32
  <2>2. PICK l \in 0 .. 32 : l = n - i - 1
    BY <1>1
  <2>3. 2^i \in Nat \ {0} /\ 2^l \in Nat \ {0}
    BY <1>1, <2>1
  <2> QED
    BY <2>2, <2>3
<1>3. 2^(n - i) = 2 * s
  BY <1>1, <1>2, Powers32
<1>4. 2^n = r * (2 * s)
  <2>1. 2^(i + (n - i)) = 2^i * 2^(n - i)
    BY <1>1, PowersAdd32
  <2> QED
    BY <1>1, <1>2, <1>3, <2>1
<1>5. PICK c \in Int : c = a * s
  OBVIOUS
<1>6. a * 2^n = (2 * c) * r
  <2>1. a * (r * (2 * s)) = (2 * (a * s)) * r
    OBVIOUS
  <2> QED
    BY <1>4, <1>5, <2>1
<1>7. PICK y \in Int : y = (2 * c) * r
  OBVIOUS
<1>8. (v + (2 * c) * r) \div r = v \div r + 2 * c
  BY Multiples
<1>9. \A x, z \in Int : (x + 2 * z) % 2 = x % 2
  OBVIOUS
<1>10. PICK d \in Int : d = v \div r
  OBVIOUS
<1>11. (v + a * 2^n) \div r = d + 2 * c
  BY <1>6, <1>8, <1>10
<1> QED
  BY <1>2, <1>9, <1>10, <1>11 DEF Bit

\* The numbers of one bit.
LEMMA HasOne == Has(0, 1, {}) /\ Has(1, 1, {0})
<1>1. 2^1 = 2 /\ 2^0 = 1
  OBVIOUS
<1>2. \A x \in {0, 1} : Bit(x, 0) = x
  BY DEF Bit
<1>3. 0 .. 1 - 1 = {0}
  OBVIOUS
<1> QED
  BY <1>1, <1>2, <1>3 DEF Has

\* A number next to another.
LEMMA Joined ==
  ASSUME NEW m \in Nat, NEW k \in Nat, m + k <= 32, NEW A, NEW B, NEW C, NEW a, NEW b, Has(a, m, A), Has(b, k, B),
         \A i \in 0 .. m + k - 1 : (i < k => (i \in C <=> i \in B)) /\ (k <= i => (i \in C <=> i - k \in A))
  PROVE  Has(a * 2^k + b, m + k, C)
<1>0. k \in 0 .. 32 /\ m \in 0 .. 32
  OBVIOUS
<1>1. PICK p, q \in Nat \ {0} : p = 2^k /\ q = 2^m
  BY <1>0, Powers32
<1>2. 2^(m + k) = q * p
  BY <1>1, PowersAdd32
<1>3. a \in 0 .. q - 1 /\ b \in 0 .. p - 1
  BY <1>1 DEF Has
<1>4. PICK x \in Nat : x = a * p + b
  BY <1>3
<1>5. x \in 0 .. q * p - 1
  <2>1. \A s, t \in Nat \ {0} : \A c \in 0 .. s - 1 : c * t + t <= s * t
    OBVIOUS
  <2>2. a * p + p <= q * p
    BY <1>3, <2>1
  <2>3. PICK y, z \in Nat : y = a * p /\ z = q * p
    BY <1>3
  <2> QED
    BY <1>3, <1>4, <2>2, <2>3
<1>6. ASSUME NEW i \in 0 .. k - 1 PROVE Bit(x, i) = Bit(b, i)
  <2>1. Bit(b + a * 2^k, i) = Bit(b, i)
    <3>1. a \in Int /\ b \in Int
      BY <1>3
    <3> QED
      BY <1>0, <3>1, LowBits
  <2>2. x = b + a * 2^k
    <3>1. PICK y \in Int : y = a * p
      BY <1>3
    <3> QED
      BY <1>1, <1>3, <1>4, <3>1
  <2> QED
    BY <2>1, <2>2
<1>7. ASSUME NEW i \in k .. m + k - 1 PROVE Bit(x, i) = Bit(a, i - k)
  <2>1. i - k \in 0 .. 32 /\ i - k \in Nat /\ k + (i - k) = i /\ i <= 32
    OBVIOUS
  <2>2. PICK r \in Nat \ {0} : r = 2^(i - k)
    BY <2>1, Powers32
  <2>3. 2^i = p * r
    <3>1. 2^(k + (i - k)) = 2^k * 2^(i - k)
      BY <2>1, PowersAdd32
    <3> QED
      BY <1>1, <2>1, <2>2, <3>1
  <2>4. x \div p = a
    <3>1. (b + a * p) \div p = b \div p + a
      BY <1>3, Multiples
    <3>2. \A s \in Nat \ {0} : \A c \in 0 .. s - 1 : c \div s = 0
      OBVIOUS
    <3>3. b \div p = 0
      BY <1>3, <3>2
    <3>4. x = b + a * p
      <4>1. PICK y \in Int : y = a * p
        BY <1>3
      <4> QED
        BY <1>3, <1>4, <4>1
    <3> QED
      BY <1>3, <3>1, <3>3, <3>4
  <2>5. (x \div p) \div r = x \div (p * r)
    <3>1. x \in Int
      OBVIOUS
    <3> QED
      BY <3>1, DivideTwice, Zenon
  <2>6. x \div 2^i = a \div 2^(i - k)
    BY <2>2, <2>3, <2>4, <2>5
  <2> HIDE DEF Has
  <2> QED
    BY <2>6 DEF Bit
<1>8. \A i \in 0 .. m + k - 1 : (i < k => i \in 0 .. k - 1) /\ (~(i < k) => k <= i /\ i \in k .. m + k - 1 /\ i - k \in 0 .. m - 1)
  OBVIOUS
<1>9. ASSUME NEW i \in 0 .. m + k - 1
      PROVE  Bit(x, i) = 1 <=> i \in C
  <2>1. CASE i < k
    BY <1>6, <1>8, <2>1 DEF Has
  <2>2. CASE ~(i < k)
    BY <1>7, <1>8, <2>2 DEF Has
  <2> QED
    BY <2>1, <2>2
<1>10. Has(x, m + k, C)
  BY <1>2, <1>5, <1>9 DEF Has
<1> QED
  BY <1>1, <1>4, <1>10

\* A number is told by its bits.
LEMMA ToldByBits ==
  ASSUME NEW n \in 0 .. 32, NEW x \in 0 .. 2^n - 1, NEW y \in 0 .. 2^n - 1,
         \A i \in 0 .. n - 1 : Bit(x, i) = 1 <=> Bit(y, i) = 1
  PROVE  x = y
<1> DEFINE Bad == {k \in Nat : k <= n /\ x % 2^k # y % 2^k}
<1>0. \A i \in 0 .. n : 2^i \in Nat \ {0}
  <2>1. \A i \in 0 .. n : i \in 0 .. 32
    OBVIOUS
  <2> QED
    BY <2>1, Powers32
<1>a. x \in Int /\ y \in Int
  <2>1. PICK p \in Nat : p = 2^n
    BY <1>0
  <2> QED
    BY <2>1
<1>1. ASSUME Bad # {} PROVE FALSE
  <2>1. PICK k \in Bad : \A z \in Bad : k <= z
    BY <1>1, Least
  <2>2. k # 0
    <3>1. \A i : i = 0 => 2^i = 1
      OBVIOUS
    <3>2. \A z \in Int : z % 1 = 0
      OBVIOUS
    <3> QED
      BY <1>a, <3>1, <3>2
  <2>3. PICK i \in 0 .. n - 1 : k = i + 1
    BY <2>2
  <2>4. i \in Nat /\ i <= n /\ i < k /\ i \in 0 .. 31 /\ i \in 0 .. n
    BY <2>3
  <2>5. PICK p \in Nat \ {0} : p = 2^i
    BY <1>0, <2>4
  <2>6. 2^k = 2 * p
    BY <2>3, <2>4, <2>5, Powers32
  <2>7. x % p = y % p
    BY <2>1, <2>4, <2>5
  <2>8. \A z \in Int : z % (2 * p) = (z % p) + ((z \div p) % 2) * p
    <3> TAKE z \in Int
    <3>1. z % (2 * p) = z - (z \div (2 * p)) * (2 * p)
      <4>1. \A c \in Nat \ {0} : z % c = z - (z \div c) * c
        OBVIOUS
      <4>2. 2 * p \in Nat \ {0}
        OBVIOUS
      <4> QED
        BY <4>1, <4>2
    <3>2. z % p = z - (z \div p) * p
      OBVIOUS
    <3>3. PICK d \in Int : d = z \div p
      OBVIOUS
    <3>4. z \div (2 * p) = d \div 2
      <4>1. (z \div p) \div 2 = z \div (p * 2)
        BY DivideTwice
      <4>2. p * 2 = 2 * p
        OBVIOUS
      <4> QED
        BY <3>3, <4>1, <4>2
    <3>5. PICK e \in Int, b \in Int : e = d \div 2 /\ b = d % 2 /\ d = 2 * e + b
      OBVIOUS
    <3>6. (2 * e + b) * p = e * (2 * p) + b * p
      OBVIOUS
    <3>7. PICK u, v, w \in Int : u = d * p /\ v = e * (2 * p) /\ w = b * p
      OBVIOUS
    <3>8. z % (2 * p) = z - v /\ z % p = z - u /\ u = v + w
      BY <3>1, <3>2, <3>3, <3>4, <3>5, <3>6, <3>7
    <3>9. PICK f, g \in Int : f = z % (2 * p) /\ g = z % p
      BY <3>7, <3>8
    <3>10. f = g + w
      BY <3>7, <3>8, <3>9
    <3>11. ((z \div p) % 2) * p = w
      BY <3>3, <3>5, <3>7
    <3> QED
      BY <3>9, <3>10, <3>11
  <2>9. (x \div p) % 2 = (y \div p) % 2
    <3>1. ((x \div p) % 2 = 1) <=> ((y \div p) % 2 = 1)
      BY <2>5 DEF Bit
    <3>2. PICK d, e \in Int : d = x \div p /\ e = y \div p
      BY <1>a
    <3>3. \A z \in Int : z % 2 \in {0, 1}
      OBVIOUS
    <3> QED
      BY <3>1, <3>2, <3>3
  <2>10. x % (2 * p) = y % (2 * p)
    BY <1>a, <2>7, <2>8, <2>9
  <2> QED
    BY <2>1, <2>6, <2>10
<1>2. x % 2^n = y % 2^n
  <2>1. n \in Nat /\ n <= n
    OBVIOUS
  <2> QED
    BY <1>1, <2>1
<1>3. \A p \in Nat \ {0} : \A z \in 0 .. p - 1 : z % p = z
  OBVIOUS
<1>4. PICK p \in Nat \ {0} : p = 2^n
  BY <1>0
<1> QED
  BY <1>2, <1>3, <1>4

=============================================================================
