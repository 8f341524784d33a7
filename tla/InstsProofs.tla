----------------------------- MODULE InstsProofs -----------------------------
(***************************************************************************)
(* That the arithmetic of Alu is what Isa says of it, for all words; that  *)
(* decode undoes the listing; and that Insts executes what it decodes as   *)
(* the listing has it.                                                     *)
(***************************************************************************)
EXTENDS Insts, WordProofs

-----------------------------------------------------------------------------
(* Words and the numbers they stand for.                                   *)

\* A register keeps a number up to multiples of Mod.
LEMMA Kept ==
  ASSUME NEW n \in Int
  PROVE  ToReg(n) \in Words /\ Equal(ToReg(n), n) /\ \E k \in Int : ToReg(n) = n + k * Mod
<1>1. Mod \in Nat \ {0} /\ ToReg(n) \in Words
  BY Remainders
<1> HIDE DEF Mod
<1>2. PICK k \in Int : ToReg(n) = n + k * Mod
  BY <1>1, Cut DEF ToReg
<1>3. ToReg(n) - n = k * Mod
  BY <1>1, <1>2
<1>4. (ToReg(n) - n) % Mod = 0
  BY <1>1, <1>3, Cut
<1> QED
  BY <1>1, <1>2, <1>4 DEF Equal

\* A word's number in two's complement, and numbers that a word can hold.
LEMMA SignedNumber ==
  /\ \A a \in Words : Signed(a) \in Int /\ -Half <= Signed(a) /\ Signed(a) < Half /\ u2s(a) = Signed(a)
  /\ \A n \in Int : -Half <= n /\ n < Half => Signed(ToReg(n)) = n
  /\ \A a \in Words : ToReg(Signed(a)) = a
<1>0. Half \in Nat \ {0} /\ Mod = 2 * Half
  BY Halves
<1> HIDE DEF Half, Mod
<1>1. \A a \in Words : u2s(a) = Signed(a) /\ ToReg(Signed(a)) = a
  BY SignedWord DEF Signed
<1>2. \A a \in Words : Signed(a) \in Int /\ -Half <= Signed(a) /\ Signed(a) < Half
  BY <1>0 DEF Signed, Words
<1>3. ASSUME NEW n \in Int, -Half <= n, n < Half PROVE Signed(ToReg(n)) = n
  <2>1. n >= 0 => n % Mod = n
    BY <1>0, <1>3
  <2>2. n < 0 => n % Mod = n + Mod
    BY <1>0, <1>3
  <2> QED
    BY <1>0, <1>3, <2>1, <2>2 DEF Signed, ToReg
<1> QED
  BY <1>1, <1>2, <1>3

\* u2s does nothing to what it has made.
LEMMA SignedTwice == \A a \in Words : u2s(u2s(a)) = Signed(a)
<1>0. Half \in Nat \ {0} /\ Mod = 2 * Half
  BY Halves
<1> HIDE DEF Half, Mod
<1> SUFFICES ASSUME NEW a \in Words PROVE u2s(u2s(a)) = Signed(a)
  OBVIOUS
<1>1. u2s(a) = Signed(a) /\ ToReg(Signed(a)) = a /\ Signed(a) \in Int /\ -Half <= Signed(a) /\ Signed(a) < Half
  BY SignedNumber
<1>2. Signed(a) % Mod = a
  BY <1>1 DEF ToReg
<1>3. CASE a < Half
  BY <1>1, <1>2, <1>3 DEF u2s, Signed
<1>4. CASE a >= Half
  <2>1. Signed(a) = a - Mod /\ a \in Int /\ a < Mod
    BY <1>0, <1>4 DEF Signed, Words
  <2>2. -Signed(a) = Mod - a /\ Mod - a \in 1 .. Half
    BY <1>0, <1>4, <2>1
  <2>3. (Mod - a) % Half = IF a = Half THEN 0 ELSE Mod - a
    BY <1>0, <1>4, <2>1, <2>2
  <2> QED
    BY <1>0, <1>1, <1>2, <1>4, <2>1, <2>2, <2>3 DEF u2s
<1> QED
  BY <1>0, <1>3, <1>4 DEF Words

\* Numbers that differ by a multiple of Mod are kept as the same word.
LEMMA SameKept ==
  ASSUME NEW n \in Int, NEW k \in Int
  PROVE  n + k * Mod \in Int /\ ToReg(n + k * Mod) = ToReg(n)
<1>1. Mod \in Nat \ {0}
  BY Remainders
<1> HIDE DEF Mod
<1>2. k * Mod \in Int
  BY <1>1
<1>3. (n + k * Mod) % Mod = n % Mod
  BY <1>1, Multiples
<1> QED
  BY <1>2, <1>3 DEF ToReg

\* A word has the low bits of the number.
LEMMA BitKept ==
  ASSUME NEW n \in Int, NEW i \in 0 .. XLEN - 1
  PROVE  Bit(ToReg(n), i) = Bit(n, i)
<1>0. i \in Nat /\ XLEN - (i + 1) \in Nat /\ (i + 1) + (XLEN - (i + 1)) = XLEN /\ i \in 0 .. XLEN
      /\ XLEN - (i + 1) \in 0 .. XLEN
  BY XlenType
<1>1. PICK p \in Nat \ {0}, q \in Nat : p = 2^i /\ q = 2^(XLEN - (i + 1))
  BY <1>0, Powers
<1>2. Mod = (2 * p) * q
  <2>1. 2^XLEN = 2^(i + 1) * q
    BY <1>0, <1>1, PowersAdd
  <2>2. 2^(i + 1) = 2 * p
    BY <1>1, Powers
  <2> QED
    BY <2>1, <2>2 DEF Mod
<1>3. PICK k \in Int : ToReg(n) = n + k * Mod
  BY Kept
<1>4. PICK t \in Int : t = k * q
  OBVIOUS
<1>5. k * Mod = (2 * t) * p
  BY <1>1, <1>2, <1>4
<1>6. (n + (2 * t) * p) \div p = (n \div p) + 2 * t
  BY <1>1, Multiples
<1>7. \A y, z \in Int : (y + 2 * z) % 2 = y % 2
  OBVIOUS
<1>8. PICK d \in Int : d = n \div p
  BY <1>1, Quotients
<1>9. ToReg(n) \div p = d + 2 * t
  BY <1>3, <1>5, <1>6, <1>8
<1>10. (d + 2 * t) % 2 = d % 2
  BY <1>7
<1> QED
  BY <1>1, <1>8, <1>9, <1>10 DEF Bit

-----------------------------------------------------------------------------
(* The arithmetic, operation by operation. An immediate is any integer n,  *)
(* and the operand the manual speaks of is the word it is kept as.         *)

\* Sums, differences and low halves of products are right up to multiples of
\* Mod, which is all a word keeps.
LEMMA SumsRight ==
  ASSUME NEW a \in Words, NEW b \in Words, NEW n \in Int, ToReg(n) = b
  PROVE  /\ \A c \in {"ADD", "ADDI"} : Means(c, a, b, ToReg(a + n))
         /\ Means("SUB", a, b, ToReg(a - b))
         /\ Means("MUL", a, b, ToReg(a * b))
<1>1. a \in Int /\ b \in Int
  BY Remainders
<1>2. PICK k \in Int : b = n + k * Mod
  BY Kept
<1>3. Mod \in Nat \ {0}
  BY Remainders
<1>4. ToReg(a + n) = ToReg(a + b)
  <2>1. a + n \in Int /\ a + b = (a + n) + k * Mod
    <3> HIDE DEF Mod
    <3> QED
      BY <1>1, <1>2, <1>3
  <2> QED
    BY <2>1, SameKept
<1>5. Equal(ToReg(a + b), a + b) /\ Equal(ToReg(a - b), a - b) /\ Equal(ToReg(a * b), a * b)
  <2>1. a + b \in Int /\ a - b \in Int /\ a * b \in Int
    BY <1>1
  <2> QED
    BY <2>1, Kept
<1> QED
  BY <1>4, <1>5 DEF Means

\* The bitwise operations.
LEMMA BitwiseRight ==
  ASSUME NEW a \in Words, NEW b \in Words, NEW n \in Int, ToReg(n) = b
  PROVE  /\ \A c \in {"AND", "ANDI"} : Means(c, a, b, ToReg(And(a, n)))
         /\ \A c \in {"OR", "ORI"} : Means(c, a, b, ToReg(Or(a, n)))
         /\ \A c \in {"XOR", "XORI"} : Means(c, a, b, ToReg(Xor(a, n)))
<1>1. a \in Int
  BY Remainders
<1>2. \A i \in 0 .. XLEN - 1 : Bit(b, i) = Bit(n, i) /\ Bit(a, i) \in {0, 1} /\ Bit(n, i) \in {0, 1}
  BY <1>1, BitKept, BitType
<1>3. And(a, n) \in Words /\ Or(a, n) \in Words /\ Xor(a, n) \in Words
  BY <1>1, BitwiseOperations
<1>4. ToReg(And(a, n)) = And(a, n) /\ ToReg(Or(a, n)) = Or(a, n) /\ ToReg(Xor(a, n)) = Xor(a, n)
  BY <1>3, Remainders
<1>5. \A i \in 0 .. XLEN - 1 :
        /\ Bit(And(a, n), i) = Bit(a, i) * Bit(n, i)
        /\ Bit(Or(a, n), i) = Bit(a, i) + Bit(n, i) - Bit(a, i) * Bit(n, i)
        /\ Bit(Xor(a, n), i) = (Bit(a, i) + Bit(n, i)) % 2
  BY <1>1, BitwiseOperations
<1>6. \A x, y \in {0, 1} :
        /\ x * y = 1 <=> x = 1 /\ y = 1
        /\ x + y - x * y = 1 <=> x = 1 \/ y = 1
        /\ (x + y) % 2 = 1 <=> x # y
  OBVIOUS
<1>7. \A i \in 0 .. XLEN - 1 :
        /\ Bit(And(a, n), i) = 1 <=> Bit(a, i) = 1 /\ Bit(b, i) = 1
        /\ Bit(Or(a, n), i) = 1 <=> Bit(a, i) = 1 \/ Bit(b, i) = 1
        /\ Bit(Xor(a, n), i) = 1 <=> Bit(a, i) # Bit(b, i)
  BY <1>2, <1>5, <1>6
<1>8. \A c \in {"AND", "ANDI"} : Means(c, a, b, And(a, n))
  BY <1>7 DEF Means, Bits
<1>9. \A c \in {"OR", "ORI"} : Means(c, a, b, Or(a, n))
  BY <1>7 DEF Means, Bits
<1>10. \A c \in {"XOR", "XORI"} : Means(c, a, b, Xor(a, n))
  BY <1>7 DEF Means, Bits
<1> QED
  BY <1>4, <1>8, <1>9, <1>10

\* Comparisons.
LEMMA ComparesRight ==
  ASSUME NEW a \in Words, NEW b \in Words, NEW n \in Int, ToReg(n) = b
  PROVE  /\ \A c \in {"SLT", "SLTI"} : u2s(n) = Signed(b) => Means(c, a, b, ToReg(SLT(a, n)))
         /\ \A c \in {"SLTU", "SLTIU"} : Means(c, a, b, ToReg(SLTU(a, n)))
<1>1. 0 \in Words /\ 1 \in Words
  BY XlenType, Halves DEF Words
<1>2. ToReg(0) = 0 /\ ToReg(1) = 1
  BY <1>1, Remainders
<1>3. u2s(a) = Signed(a)
  BY SignedNumber
<1> QED
  BY <1>2, <1>3 DEF Means, SLT, SLTU

\* The amount of a shift is the same of a number and of the word it is kept as.
LEMMA AmountKept ==
  ASSUME NEW n \in Int
  PROVE  Amount(n) = ToReg(n) % XLEN /\ Amount(n) \in 0 .. XLEN - 1
<1>1. PICK k \in Int : ToReg(n) = n + k * Mod
  BY Kept
<1>2. XLEN \in Nat \ {0} /\ Mod \in Nat
  BY XlenType, Remainders
<1>3. PICK t \in Int : Mod = t * XLEN
  <2>1. Mod % XLEN = 0
    BY AluConstants
  <2> HIDE DEF Mod
  <2>2. Mod = (Mod \div XLEN) * XLEN + (Mod % XLEN) /\ Mod \div XLEN \in Int
    BY <1>2, Quotients
  <2>3. \A q, m \in Int : q = m + 0 => q = m
    OBVIOUS
  <2>4. (Mod \div XLEN) * XLEN \in Int
    BY <1>2, <2>2
  <2> QED
    BY <2>1, <2>2, <2>3, <2>4
<1> HIDE DEF Mod
<1>4. PICK u \in Int : u = k * t
  OBVIOUS
<1>5. k * Mod = u * XLEN
  BY <1>2, <1>3, <1>4
<1>6. (n + u * XLEN) % XLEN = n % XLEN
  BY <1>2, Multiples
<1> QED
  BY <1>1, <1>2, <1>5, <1>6 DEF Amount

\* A power of two times another, up to XLEN and beyond it.
LEMMA Shifted ==
  ASSUME NEW s \in 0 .. XLEN - 1, NEW i \in 0 .. XLEN - 1
  PROVE  /\ 2^s \in Nat \ {0} /\ 2^i \in Nat \ {0}
         /\ i + s < XLEN => 2^s * 2^i = 2^(i + s)
         /\ i + s >= XLEN => \E q \in Nat \ {0} : 2^s * 2^i = Mod * q
<1>1. s \in Nat /\ i \in Nat /\ s \in 0 .. XLEN /\ i \in 0 .. XLEN
  BY XlenType
<1>2. 2^s \in Nat \ {0} /\ 2^i \in Nat \ {0}
  BY <1>1, Powers
<1>3. ASSUME i + s < XLEN PROVE 2^s * 2^i = 2^(i + s)
  <2>1. 2^(s + i) = 2^s * 2^i
    BY <1>1, <1>3, XlenType, PowersAdd
  <2> QED
    BY <1>1, <2>1
<1>4. ASSUME i + s >= XLEN PROVE \E q \in Nat \ {0} : 2^s * 2^i = Mod * q
  <2>1. XLEN - s \in Nat /\ s + (XLEN - s) = XLEN /\ XLEN - s \in 0 .. XLEN
    BY XlenType
  <2>2. i - (XLEN - s) \in Nat /\ (XLEN - s) + (i - (XLEN - s)) = i /\ i - (XLEN - s) \in 0 .. XLEN
    BY <1>1, <1>4, XlenType
  <2>3. PICK m \in Nat \ {0}, u \in Nat \ {0}, q \in Nat \ {0} :
               m = 2^s /\ u = 2^(XLEN - s) /\ q = 2^(i - (XLEN - s))
    BY <1>2, <2>1, <2>2, Powers
  <2>4. 2^XLEN = m * u
    BY <1>1, <2>1, <2>3, XlenType, PowersAdd
  <2>5. 2^i = u * q
    <3>1. i <= XLEN
      BY <1>1
    <3> QED
      BY <2>1, <2>2, <2>3, <3>1, PowersAdd
  <2>6. m * (u * q) = (m * u) * q
    BY <2>3
  <2> QED
    BY <2>3, <2>4, <2>5, <2>6 DEF Mod
<1> QED
  BY <1>2, <1>3, <1>4

\* Left shifts.
LEMMA LeftRight ==
  ASSUME NEW a \in Words, NEW b \in Words, NEW n \in Int, ToReg(n) = b
  PROVE  \A c \in {"SLL", "SLLI"} : Means(c, a, b, ToReg(SLL(a, n)))
<1> DEFINE s == Amount(n)
<1>0. a \in Int /\ s \in 0 .. XLEN - 1 /\ s = b % XLEN /\ s \in Nat /\ XLEN \in Nat
  BY Remainders, AmountKept, XlenType
<1> HIDE DEF s
<1>1. ASSUME NEW i \in 0 .. XLEN - 1
      PROVE  Bit(ToReg(a * 2^s), i) = 1 <=> i >= s /\ Bit(a, i - s) = 1
  <2>1. PICK m \in Nat \ {0}, p \in Nat \ {0} : m = 2^s /\ p = 2^i
    BY <1>0, Shifted
  <2>2. a * m \in Int
    BY <1>0, <2>1
  <2>3. Bit(ToReg(a * m), i) = ((a * m) \div p) % 2
    BY <2>1, <2>2, BitKept DEF Bit
  <2>4. CASE i >= s
    <3>1. i - s \in Nat /\ i - s \in 0 .. XLEN /\ s + (i - s) = i /\ s + (i - s) <= XLEN
      BY <1>0, <2>4
    <3>2. PICK q \in Nat \ {0} : q = 2^(i - s)
      BY <3>1, Powers
    <3>3. p = m * q
      BY <1>0, <2>1, <3>1, <3>2, PowersAdd
    <3>4. (0 + a * m) \div m = (0 \div m) + a /\ 0 \div m = 0
      BY <1>0, <2>1, Multiples
    <3>5. ((a * m) \div m) \div q = (a * m) \div (m * q)
      BY <2>1, <2>2, <3>2, DivideTwice
    <3>6. (a * m) \div m = a
      BY <1>0, <2>2, <3>4
    <3>7. (a * m) \div p = a \div q
      BY <3>3, <3>5, <3>6
    <3> QED
      BY <2>1, <2>3, <2>4, <3>2, <3>7 DEF Bit
  <2>5. CASE i < s
    <3>1. s - (i + 1) \in Nat /\ s - (i + 1) \in 0 .. XLEN /\ (i + 1) + (s - (i + 1)) = s /\ i + 1 \in Nat
      BY <1>0, <2>5
    <3>2. PICK q \in Nat \ {0} : q = 2^(s - (i + 1))
      BY <3>1, Powers
    <3>3. m = 2^(i + 1) * q
      BY <1>0, <2>1, <3>1, <3>2, PowersAdd
    <3>4. 2^(i + 1) = 2 * p
      BY <2>1, Powers
    <3>5. PICK t \in Int : t = a * q
      BY <1>0
    <3>6. a * m = (2 * t) * p
      <4>1. m = (2 * p) * q
        BY <3>3, <3>4
      <4>2. \A x, y, z \in Int : x * ((2 * y) * z) = (2 * (x * z)) * y
        OBVIOUS
      <4>3. a * ((2 * p) * q) = (2 * (a * q)) * p
        BY <1>0, <2>1, <3>2, <4>2
      <4> QED
        BY <3>5, <4>1, <4>3
    <3>7. (0 + (2 * t) * p) \div p = (0 \div p) + 2 * t /\ 0 \div p = 0
      BY <2>1, Multiples
    <3>8. (2 * t) * p = 0 + (2 * t) * p
      BY <2>1
    <3>9. (a * m) \div p = 2 * t
      BY <3>6, <3>7, <3>8
    <3>10. (2 * t) % 2 = 0
      OBVIOUS
    <3> QED
      BY <1>0, <2>1, <2>3, <2>5, <3>9, <3>10
  <2> QED
    BY <1>0, <2>4, <2>5
<1> QED
  BY <1>0, <1>1 DEF Means, Bits, SLL, s

\* Shifting right twice is shifting by the sum, until nothing is left.
LEMMA ShiftedTwice ==
  ASSUME NEW v \in Int, -Mod <= v, v < Mod, NEW s \in 0 .. XLEN - 1, NEW i \in 0 .. XLEN - 1
  PROVE  /\ v \div 2^s \in Int
         /\ Bit(v \div 2^s, i) = IF i + s < XLEN THEN Bit(v, i + s) ELSE IF v < 0 THEN 1 ELSE 0
<1>1. PICK m \in Nat \ {0}, p \in Nat \ {0} : m = 2^s /\ p = 2^i
  BY Shifted
<1>2. (v \div m) \div p = v \div (m * p) /\ v \div m \in Int
  BY <1>1, DivideTwice, Quotients
<1>3. ASSUME i + s < XLEN PROVE Bit(v \div m, i) = Bit(v, i + s)
  <2>1. m * p = 2^(i + s)
    BY <1>1, <1>3, Shifted
  <2> QED
    BY <1>1, <1>2, <2>1 DEF Bit
<1>4. ASSUME i + s >= XLEN PROVE Bit(v \div m, i) = IF v < 0 THEN 1 ELSE 0
  <2>1. PICK q \in Nat \ {0} : m * p = Mod * q
    BY <1>1, <1>4, Shifted
  <2>2. PICK z \in Nat \ {0} : z = m * p /\ Mod <= z
    <3>1. Mod \in Nat \ {0}
      BY Remainders
    <3> HIDE DEF Mod
    <3>2. \A x, y \in Nat \ {0} : x * y \in Nat \ {0} /\ x <= x * y
      OBVIOUS
    <3> QED
      BY <2>1, <3>1, <3>2
  <2>3. v \div z = IF v < 0 THEN -1 ELSE 0
    <3>1. Mod \in Nat \ {0}
      BY Remainders
    <3> HIDE DEF Mod
    <3>2. \A x \in Int : -z <= x /\ x < 0 => x \div z = -1
      OBVIOUS
    <3>3. \A x \in Int : 0 <= x /\ x < z => x \div z = 0
      OBVIOUS
    <3> QED
      BY <2>2, <3>1, <3>2, <3>3
  <2>4. \A x \in Int : (x = -1 => x % 2 = 1) /\ (x = 0 => x % 2 = 0)
    OBVIOUS
  <2> QED
    BY <1>1, <1>2, <2>2, <2>3, <2>4 DEF Bit
<1>5. i + s < XLEN \/ i + s >= XLEN
  BY XlenType
<1> QED
  BY <1>1, <1>2, <1>3, <1>4, <1>5, XlenType

\* The word with its sign above it is the number it stands for.
LEMMA ExtendedWord == \A a \in Words : msb_extend(a, XLEN) = Signed(a) /\ (Bit(a, XLEN - 1) = 1 <=> a >= Half)
<1>0. Half \in Nat \ {0} /\ Mod = 2 * Half
  BY Halves
<1> SUFFICES ASSUME NEW a \in Words PROVE msb_extend(a, XLEN) = Signed(a) /\ (Bit(a, XLEN - 1) = 1 <=> a >= Half)
  OBVIOUS
<1>1. a \in Nat /\ a < Mod
  BY Remainders, <1>0 DEF Words
<1>2. Bit(a, XLEN - 1) = (a \div Half) % 2 /\ 2^XLEN = Mod
  BY DEF Bit, Half, Mod
<1> HIDE DEF Half, Mod
<1>3. a \div Half = IF a >= Half THEN 1 ELSE 0
  <2>1. \A h \in Nat \ {0} : \A x \in Int : 0 <= x /\ x < h => x \div h = 0
    OBVIOUS
  <2>2. \A h \in Nat \ {0} : \A x \in Int : h <= x /\ x < 2 * h => x \div h = 1
    OBVIOUS
  <2> QED
    BY <1>0, <1>1, <2>1, <2>2
<1>4. Bit(a, XLEN - 1) = IF a >= Half THEN 1 ELSE 0
  BY <1>2, <1>3
<1>5. (-a - 1) % Mod = Mod - 1 - a /\ a % Mod = a
  <2>1. \A m \in Nat \ {0} : \A x \in Int : 0 <= x /\ x < m => x % m = x
    OBVIOUS
  <2>2. \A m \in Nat \ {0} : \A x \in Int : -m <= x /\ x < 0 => x % m = m + x
    OBVIOUS
  <2>3. PICK x \in Int : x = -a - 1 /\ -Mod <= x /\ x < 0 /\ Mod + x = Mod - 1 - a
    BY <1>0, <1>1
  <2>4. Mod \in Nat \ {0}
    BY <1>0
  <2>5. x % Mod = Mod + x
    BY <2>2, <2>3, <2>4
  <2>6. a % Mod = a
    BY <1>1, <2>1, <2>4
  <2> QED
    BY <2>3, <2>5, <2>6
<1> QED
  BY <1>0, <1>1, <1>2, <1>4, <1>5 DEF msb_extend, Signed

\* Right shifts.
LEMMA RightRight ==
  ASSUME NEW a \in Words, NEW b \in Words, NEW n \in Int, ToReg(n) = b
  PROVE  /\ \A c \in {"SRL", "SRLI"} : Means(c, a, b, ToReg(SRL(a, n)))
         /\ \A c \in {"SRA", "SRAI"} : Means(c, a, b, ToReg(SRA(a, n)))
<1> DEFINE s == Amount(n)
           w == Signed(a)
<1>0. s \in 0 .. XLEN - 1 /\ s = b % XLEN
  BY AmountKept
<1>1. /\ a \in Int /\ 0 <= a /\ a < Mod /\ -Mod <= a
      /\ w \in Int /\ -Mod <= w /\ w < Mod
      /\ w < 0 <=> a >= Half
  <2>1. Half \in Nat \ {0} /\ Mod = 2 * Half
    BY Halves
  <2> HIDE DEF Half, Mod
  <2> QED
    BY <2>1 DEF Signed, Words
<1>2. a % Mod = a /\ ToReg(w) = a
  BY Remainders, SignedNumber DEF ToReg
<1> HIDE DEF s, w
<1>3. ASSUME NEW i \in 0 .. XLEN - 1
      PROVE  /\ Bit(ToReg(a \div 2^s), i) = 1 <=> i + s < XLEN /\ Bit(a, i + s) = 1
             /\ Bit(ToReg(w \div 2^s), i) = 1 <=> Bit(a, IF i + s < XLEN THEN i + s ELSE XLEN - 1) = 1
  <2>1. a \div 2^s \in Int /\ w \div 2^s \in Int
    BY <1>0, <1>1, ShiftedTwice, Halves
  <2>2. Bit(ToReg(a \div 2^s), i) = Bit(a \div 2^s, i) /\ Bit(ToReg(w \div 2^s), i) = Bit(w \div 2^s, i)
    BY <2>1, BitKept
  <2>3. /\ Bit(a \div 2^s, i) = IF i + s < XLEN THEN Bit(a, i + s) ELSE IF a < 0 THEN 1 ELSE 0
        /\ Bit(w \div 2^s, i) = IF i + s < XLEN THEN Bit(w, i + s) ELSE IF w < 0 THEN 1 ELSE 0
    BY <1>0, <1>1, ShiftedTwice, Halves
  <2>4. i + s < XLEN => Bit(w, i + s) = Bit(a, i + s)
    <3>1. i + s < XLEN => i + s \in 0 .. XLEN - 1
      BY <1>0, XlenType
    <3> QED
      BY <1>1, <1>2, <3>1, BitKept
  <2>5. Bit(a, XLEN - 1) = 1 <=> w < 0
    BY <1>1, ExtendedWord
  <2> QED
    BY <1>1, <2>2, <2>3, <2>4, <2>5
<1>4. SRL(a, n) = a \div 2^s /\ SRA(a, n) = w \div 2^s
  BY ExtendedWord DEF SRL, SRA, s, w
<1> QED
  BY <1>0, <1>3, <1>4 DEF Means, Bits

\* A high half between -Half and Half - 1 is that of its product.
LEMMA HighKept ==
  ASSUME NEW x \in Int
  PROVE  /\ -(Half * Mod) <= x /\ x < Half * Mod => HighOf(Signed(ToReg(x \div Mod)), x)
         /\ 0 <= x /\ x < Mod * Mod => HighOf(ToReg(x \div Mod), x)
<1>0. Half \in Nat \ {0} /\ Mod = 2 * Half /\ Mod \in Nat \ {0}
  BY Halves, Remainders
<1>a. \A y \in Words : ToReg(y) = y
  BY Remainders
<1>b. \A y \in Int : -Half <= y /\ y < Half => Signed(ToReg(y)) = y
  BY SignedNumber
<1>c. Words = 0 .. Mod - 1
  BY DEF Words
<1> HIDE DEF Half, Mod
<1>1. PICK h \in Int : h = x \div Mod
  BY <1>0, Quotients
<1>2. h * Mod <= x /\ x < (h + 1) * Mod
  BY <1>0, <1>1, Quotients
<1>3. HighOf(h, x)
  BY <1>2 DEF HighOf
<1>4. \A m \in Nat \ {0} : \A q, g \in Int : q * m < g * m => q < g
  OBVIOUS
<1>5. ASSUME -(Half * Mod) <= x, x < Half * Mod PROVE -Half <= h /\ h < Half
  <2>1. (-Half) * Mod < (h + 1) * Mod /\ h * Mod < Half * Mod
    <3>1. (-Half) * Mod = -(Half * Mod)
      BY <1>0
    <3>2. (-Half) * Mod \in Int /\ (h + 1) * Mod \in Int /\ h * Mod \in Int /\ Half * Mod \in Int
      BY <1>0
    <3> QED
      BY <1>2, <1>5, <3>1, <3>2
  <2>2. -Half < h + 1 /\ h < Half
    BY <1>0, <1>4, <2>1
  <2> QED
    BY <1>0, <2>2
<1>6. ASSUME 0 <= x, x < Mod * Mod PROVE 0 <= h /\ h < Mod
  <2>1. 0 * Mod < (h + 1) * Mod /\ h * Mod < Mod * Mod
    <3>1. 0 * Mod = 0
      BY <1>0
    <3>2. (h + 1) * Mod \in Int /\ h * Mod \in Int /\ Mod * Mod \in Int
      BY <1>0
    <3> QED
      BY <1>2, <1>6, <3>1, <3>2
  <2>2. 0 < h + 1 /\ h < Mod
    BY <1>0, <1>4, <2>1
  <2> QED
    BY <2>2
<1> QED
  BY <1>0, <1>a, <1>b, <1>c, <1>1, <1>3, <1>5, <1>6

\* The high halves of products.
LEMMA HighRight ==
  ASSUME NEW a \in Words, NEW b \in Words
  PROVE  /\ Means("MULH", a, b, ToReg(MULH(a, b)))
         /\ Means("MULHSU", a, b, ToReg(MULHSU(a, b)))
         /\ Means("MULHU", a, b, ToReg(MULHU(a, b)))
<1>0. Half \in Nat \ {0} /\ Mod = 2 * Half /\ Mod \in Nat \ {0}
  BY Halves, Remainders
<1>1. PICK x \in Int, y \in Int : x = Signed(a) /\ y = Signed(b) /\ u2s(a) = x /\ u2s(b) = y
                                  /\ -Half <= x /\ x < Half /\ -Half <= y /\ y < Half
  BY SignedNumber
<1>2. a \in Nat /\ b \in Nat /\ a < Mod /\ b < Mod
  BY <1>0, Remainders DEF Words
<1> HIDE DEF Half, Mod
<1>3. -(Half * Mod) <= x * y /\ x * y < Half * Mod
  <2>1. \A h \in Nat \ {0} : \A p, q \in Int :
          -h <= p /\ p <= h /\ -h <= q /\ q <= h => -(h * h) <= p * q /\ p * q <= h * h
    OBVIOUS
  <2>2. \A h \in Nat \ {0} : h * h \in Nat \ {0} /\ h * (2 * h) = 2 * (h * h)
    OBVIOUS
  <2>3. x * y \in Int
    OBVIOUS
  <2>4. -(Half * Half) <= x * y /\ x * y <= Half * Half
    BY <1>0, <1>1, <2>1
  <2>5. PICK z \in Int, t \in Nat \ {0} : z = x * y /\ t = Half * Half /\ Half * Mod = 2 * t
    BY <1>0, <2>2, <2>3
  <2> QED
    BY <2>4, <2>5
<1>4. -(Half * Mod) <= x * b /\ x * b < Half * Mod
  <2>1. \A h, m \in Nat \ {0} : \A p, q \in Int :
          -h <= p /\ p < h /\ 0 <= q /\ q < m => -(h * m) <= p * q /\ p * q < h * m
    OBVIOUS
  <2> QED
    BY <1>0, <1>1, <1>2, <2>1
<1>5. 0 <= a * b /\ a * b < Mod * Mod
  <2>1. \A m \in Nat \ {0} : \A p, q \in Nat : p < m /\ q < m => 0 <= p * q /\ p * q < m * m
    OBVIOUS
  <2> QED
    BY <1>0, <1>2, <2>1
<1>6. x * y \in Int /\ x * b \in Int /\ a * b \in Int
  BY <1>2
<1>7. HighOf(Signed(ToReg((x * y) \div Mod)), x * y) /\ HighOf(Signed(ToReg((x * b) \div Mod)), x * b)
  BY <1>3, <1>4, <1>6, HighKept
<1>8. HighOf(ToReg((a * b) \div Mod), a * b)
  BY <1>5, <1>6, HighKept
<1> QED
  BY <1>1, <1>7, <1>8 DEF Means, MULH, MULHSU, MULHU

\* Trunc is the quotient rounded toward zero, no larger than the dividend and
\* at most half of it for a divisor other than 1 and -1.
LEMMA Truncates ==
  ASSUME NEW n \in Int, NEW d \in Int, d # 0
  PROVE  LET q == Trunc(n, d)
         IN  /\ q \in Int /\ q * d \in Int
             /\ Quotient(q, n, d) /\ Remainder(n - q * d, n, d)
             /\ Magnitude(q) <= Magnitude(n)
             /\ Magnitude(d) # 1 => 2 * Magnitude(q) <= Magnitude(n)
             /\ n >= 0 /\ d > 0 => q >= 0
             /\ n < 0 /\ q > 0 => d < 0
<1>1. PICK N \in Nat, D \in Nat \ {0} : N = Abs(n) /\ D = Abs(d) /\ N = Magnitude(n) /\ D = Magnitude(d)
  BY DEF Abs, Magnitude
<1>2. PICK Q \in Nat : Q = N \div D
  OBVIOUS
<1>3. PICK R \in 0 .. D - 1, P \in Nat : P = Q * D /\ N = P + R
  <2>1. N = (N \div D) * D + (N % D) /\ N % D \in 0 .. D - 1
    BY Quotients
  <2>2. PICK R \in 0 .. D - 1 : R = N % D
    BY <2>1
  <2>3. Q * D \in Nat
    OBVIOUS
  <2> QED
    BY <1>2, <2>1, <2>2, <2>3
<1>4. Q <= N /\ (D # 1 => 2 * Q <= N)
  <2>1. \A x \in Nat, y \in Nat \ {0} : x <= x * y /\ (y # 1 => 2 * x <= x * y)
    OBVIOUS
  <2> QED
    BY <1>3, <2>1
<1>5. PICK q \in Int : q = Trunc(n, d) /\ q = IF (n < 0) = (d < 0) THEN Q ELSE -Q
  BY <1>1, <1>2 DEF Trunc
<1>6. q * d = IF n < 0 THEN -P ELSE P
  <2>1. Q * (-D) = -P /\ (-Q) * D = -P /\ (-Q) * (-D) = P
    BY <1>3, \A x, y \in Int : x * (-y) = -(x * y) /\ (-x) * y = -(x * y) /\ (-x) * (-y) = x * y
  <2>2. d = IF d < 0 THEN -D ELSE D
    BY <1>1 DEF Abs
  <2> QED
    BY <1>3, <1>5, <2>1, <2>2
<1>7. n = IF n < 0 THEN -N ELSE N
  BY <1>1 DEF Abs
<1>8. n - q * d = IF n < 0 THEN -R ELSE R
  BY <1>3, <1>6, <1>7
<1>9. Quotient(q, n, d)
  BY <1>1, <1>8 DEF Quotient, Magnitude
<1>10. Remainder(n - q * d, n, d)
  <2>1. PICK m \in Int : m = n - q * d /\ m = IF n < 0 THEN -R ELSE R
    BY <1>8
  <2>2. n - m = IF n < 0 THEN -P ELSE P
    BY <1>3, <1>7, <2>1
  <2>3. P % D = 0 /\ (-P) % D = 0
    <3>1. (Q * D) % D = 0 /\ ((-Q) * D) % D = 0 /\ (-Q) * D = -P
      BY <1>3, Cut, \A x, y \in Int : (-x) * y = -(x * y)
    <3> QED
      BY <1>3, <3>1
  <2>4. (n - m) % D = 0
    BY <2>2, <2>3
  <2> QED
    BY <1>1, <2>1, <2>4 DEF Remainder, Magnitude
<1>11. Magnitude(q) = Q
  BY <1>5 DEF Magnitude
<1>12. q * d \in Int
  BY <1>3, <1>6
<1>13. (n >= 0 /\ d > 0 => q >= 0) /\ (n < 0 /\ q > 0 => d < 0)
  BY <1>5
<1> QED
  BY <1>1, <1>4, <1>5, <1>9, <1>10, <1>11, <1>12, <1>13

\* Signed quotients and remainders.
LEMMA SignedDivisionRight ==
  ASSUME NEW a \in Words, NEW b \in Words
  PROVE  Means("DIV", a, b, ToReg(DIV(a, b))) /\ Means("REM", a, b, ToReg(REM(a, b)))
<1>0. Half \in Nat \ {0} /\ Mod = 2 * Half /\ Mod \in Nat \ {0} /\ Words = 0 .. Mod - 1
  BY Halves, Remainders DEF Words
<1>a. \A y \in Words : ToReg(y) = y
  BY Remainders
<1>b. \A y \in Int : -Half <= y /\ y < Half => Signed(ToReg(y)) = y
  BY SignedNumber
<1>1. PICK n \in Int, d \in Int :
        /\ n = Signed(a) /\ u2s(a) = n /\ u2s(u2s(a)) = n /\ -Half <= n /\ n < Half
        /\ d = Signed(b) /\ u2s(b) = d /\ u2s(u2s(b)) = d /\ -Half <= d /\ d < Half
  BY SignedNumber, SignedTwice
<1>c. ToReg(-Half) = Half
  <2>1. -Half \in Int /\ -Half + 1 * Mod = Half /\ Half \in Words
    BY <1>0
  <2> QED
    BY <1>a, <2>1, SameKept
<1> HIDE DEF Half, Mod
<1>2. (b = 0 <=> d = 0) /\ (a = Half <=> n = -Half) /\ (b = Mod - 1 <=> d = -1)
  BY <1>0, <1>1 DEF Signed
<1>3. CASE b = 0
  <2>1. ToReg(Mod - 1) = Mod - 1 /\ ToReg(a) = a
    BY <1>0, <1>a
  <2> QED
    BY <1>3, <2>1 DEF Means, DIV, REM
<1>4. CASE b # 0 /\ a = Half /\ b = Mod - 1
  <2>1. ToReg(0) = 0
    BY <1>0, <1>a
  <2>2. DIV(a, b) = -Half /\ REM(a, b) = 0
    BY <1>1, <1>2, <1>4 DEF DIV, REM
  <2> QED
    BY <1>c, <1>4, <2>1, <2>2 DEF Means
<1>5. CASE b # 0 /\ ~(a = Half /\ b = Mod - 1)
  <2>1. d # 0 /\ ~(n = -Half /\ d = -1)
    BY <1>2, <1>5
  <2>2. PICK q \in Int : q = Trunc(n, d)
    BY <2>1, Truncates
  <2>3. /\ q * d \in Int /\ Quotient(q, n, d) /\ Remainder(n - q * d, n, d)
        /\ Magnitude(q) <= Magnitude(n) /\ (Magnitude(d) # 1 => 2 * Magnitude(q) <= Magnitude(n))
        /\ (n >= 0 /\ d > 0 => q >= 0) /\ (n < 0 /\ q > 0 => d < 0)
    BY <2>1, <2>2, Truncates
  <2>a. /\ Magnitude(q) <= Magnitude(n) /\ (Magnitude(d) # 1 => 2 * Magnitude(q) <= Magnitude(n))
        /\ n < 0 /\ q > 0 => d < 0
    BY <2>3
  <2>4. -Half <= q /\ q < Half
    <3>1. -Half <= q /\ q <= Half
      BY <1>0, <1>1, <2>a DEF Magnitude
    <3>2. ASSUME q = Half PROVE FALSE
      <4>1. n = -Half /\ d < 0
        BY <1>0, <1>1, <2>a, <3>2 DEF Magnitude
      <4>2. Magnitude(d) # 1
        BY <2>1, <4>1 DEF Magnitude
      <4> QED
        BY <1>0, <2>a, <3>2, <4>1, <4>2 DEF Magnitude
    <3> QED
      BY <1>0, <3>1, <3>2
  <2>5. PICK m \in Int : m = n - q * d
    BY <2>3
  <2>b. Magnitude(m) < Magnitude(d)
    BY <2>3, <2>5 DEF Remainder
  <2>6. -Half <= m /\ m < Half
    BY <1>0, <1>1, <2>b DEF Magnitude
  <2>7. DIV(a, b) = q /\ REM(a, b) = m
    BY <1>1, <1>2, <1>5, <2>1, <2>2, <2>5 DEF DIV, REM
  <2>8. Signed(ToReg(q)) = q /\ Signed(ToReg(m)) = m
    BY <1>b, <2>4, <2>6
  <2> QED
    BY <1>1, <1>5, <2>3, <2>5, <2>7, <2>8 DEF Means
<1> QED
  BY <1>3, <1>4, <1>5

\* Unsigned quotients and remainders.
LEMMA UnsignedDivisionRight ==
  ASSUME NEW a \in Words, NEW b \in Words
  PROVE  Means("DIVU", a, b, ToReg(DIVU(a, b))) /\ Means("REMU", a, b, ToReg(REMU(a, b)))
<1>0. Mod \in Nat \ {0} /\ Words = 0 .. Mod - 1
  BY Remainders DEF Words
<1>a. \A y \in Words : ToReg(y) = y
  BY Remainders
<1>c. ToReg(-1) = Mod - 1
  <2>1. -1 \in Int /\ -1 + 1 * Mod = Mod - 1 /\ Mod - 1 \in Words
    BY <1>0
  <2> QED
    BY <1>a, <2>1, SameKept
<1> HIDE DEF Mod
<1>1. a \in Nat /\ a < Mod /\ b \in Nat /\ b < Mod
  BY <1>0
<1>2. CASE b = 0
  BY <1>2, <1>a, <1>c DEF Means, DIVU, REMU
<1>3. CASE b # 0
  <2>1. PICK q \in Int : q = Trunc(a, b)
    BY <1>1, <1>3, Truncates
  <2>2. /\ q * b \in Int /\ Quotient(q, a, b) /\ Remainder(a - q * b, a, b)
        /\ Magnitude(q) <= Magnitude(a) /\ (a >= 0 /\ b > 0 => q >= 0)
    BY <1>1, <1>3, <2>1, Truncates
  <2>3. q \in Words
    BY <1>0, <1>1, <1>3, <2>2 DEF Magnitude
  <2>4. PICK m \in Int : m = a - q * b
    BY <1>1, <2>2
  <2>5. m \in Words
    BY <1>0, <1>1, <1>3, <2>2, <2>4 DEF Remainder, Magnitude
  <2>6. DIVU(a, b) = q /\ REMU(a, b) = m
    BY <1>3, <2>1, <2>4 DEF DIVU, REMU
  <2> QED
    BY <1>a, <1>3, <2>2, <2>3, <2>4, <2>5, <2>6 DEF Means
<1> QED
  BY <1>2, <1>3

-----------------------------------------------------------------------------
(* All operations together.                                                *)

\* Every register instruction leaves in rd what the manual says, whatever
\* words its operands are.
THEOREM ArithmeticAsListed ==
  ASSUME NEW c \in Register, NEW a \in Words, NEW b \in Words
  PROVE  Means(c, a, b, ToReg(Result(c, a, b)))
<1>1. ToReg(b) = b /\ b \in Int
  BY Remainders
<1>2. u2s(b) = Signed(b)
  BY SignedNumber
<1>3. CASE c \in {"ADD", "SUB", "MUL"}
  BY <1>1, <1>3, SumsRight DEF Result, MUL
<1>4. CASE c \in {"AND", "OR", "XOR"}
  BY <1>1, <1>4, BitwiseRight DEF Result
<1>5. CASE c \in {"SLL", "SRL", "SRA"}
  BY <1>1, <1>5, LeftRight, RightRight DEF Result
<1>6. CASE c \in {"SLT", "SLTU"}
  BY <1>1, <1>2, <1>6, ComparesRight DEF Result
<1>7. CASE c \in {"MULH", "MULHSU", "MULHU"}
  BY <1>7, HighRight DEF Result
<1>8. CASE c \in {"DIV", "REM"}
  BY <1>8, SignedDivisionRight DEF Result
<1>9. CASE c \in {"DIVU", "REMU"}
  BY <1>9, UnsignedDivisionRight DEF Result
<1> QED
  BY <1>3, <1>4, <1>5, <1>6, <1>7, <1>8, <1>9 DEF Register

\* And every immediate instruction, with the word its immediate is kept as;
\* SLTI if that has the immediate's sign.
THEOREM ImmediatesAsListed ==
  ASSUME NEW c \in DOMAIN Immediate, NEW a \in Words, NEW n \in Int,
         c = "SLTI" => -Half <= n /\ n < Half
  PROVE  Means(c, a, ToReg(n), ToReg(Result(Immediate[c], a, n)))
<1>1. PICK b \in Words : b = ToReg(n)
  BY Remainders
<1>2. c = "SLTI" => u2s(n) = Signed(b)
  <2>1. Half \in Nat \ {0} /\ Mod = 2 * Half
    BY Halves
  <2>2. ASSUME -Half <= n, n < Half PROVE Signed(b) = n
    BY <1>1, <2>2, SignedNumber
  <2> HIDE DEF Half, Mod
  <2>3. b = n % Mod
    BY <1>1 DEF ToReg
  <2>4. ASSUME -Half <= n, n < Half PROVE u2s(n) = n
    <3>1. Signed(b) = n
      BY <2>2, <2>4
    <3>2. CASE b < Half
      BY <2>3, <3>2 DEF u2s
    <3>3. CASE b >= Half
      <4>1. n = b - Mod /\ n < 0 /\ -n \in 1 .. Half
        BY <2>1, <2>4, <3>1, <3>3 DEF Signed, Words
      <4>2. \A h \in Nat \ {0} : \A x \in 1 .. h : x % h = IF x = h THEN 0 ELSE x
        OBVIOUS
      <4>3. (-n) % Half = IF n = -Half THEN 0 ELSE -n
        BY <2>1, <4>1, <4>2
      <4> QED
        BY <2>1, <2>3, <3>3, <4>1, <4>3 DEF u2s
    <3> QED
      BY <1>1, <2>1, <3>2, <3>3 DEF Words
  <2> QED
    BY <2>2, <2>4
<1>3. CASE c = "ADDI"
  BY <1>1, <1>3, SumsRight DEF Result, Immediate
<1>4. CASE c \in {"ANDI", "ORI", "XORI"}
  BY <1>1, <1>4, BitwiseRight DEF Result, Immediate
<1>5. CASE c \in {"SLLI", "SRLI", "SRAI"}
  BY <1>1, <1>5, LeftRight, RightRight DEF Result, Immediate
<1>6. CASE c \in {"SLTI", "SLTIU"}
  BY <1>1, <1>2, <1>6, ComparesRight DEF Result, Immediate
<1> QED
  BY <1>3, <1>4, <1>5, <1>6 DEF Immediate

-----------------------------------------------------------------------------
(* Words and what decode makes of them.                                    *)

\* A field has the bits of the word from l to h.
LEMMA Field ==
  ASSUME NEW value \in SUBSET (0 .. 31), NEW l \in 0 .. 31, NEW h \in l .. 31
  PROVE  Has(bitcut(value, l, h), h - l + 1, {i \in 0 .. 31 : i + l \in value})
<1> DEFINE S == {i \in value : l <= i /\ i <= h}
           z == [i \in S |-> 2^(i - l)]
           g == Summed(z, S)
           Upto(k) == {i \in S : i < k}
           B == {i \in 0 .. 31 : i + l \in value}
<1>0. l \in Nat /\ h \in Nat /\ l \in Int /\ h \in Int /\ l <= h /\ h <= 31
  OBVIOUS
<1>1. IsFiniteSet(S)
  <2>0. \A n \in Nat : IsFiniteSet(0 .. n)
    BY FS_Interval
  <2>1. IsFiniteSet(0 .. 31)
    BY <2>0
  <2>2. S \subseteq 0 .. 31
    OBVIOUS
  <2> QED
    BY <2>1, <2>2, FS_Subset
<1>2. z \in [S -> Int]
  <2>1. \A i \in S : i - l \in Nat
    OBVIOUS
  <2>2. \A k \in Nat : 2^k \in Int
    OBVIOUS
  <2> QED
    BY <2>1, <2>2
<1>3. bitcut(value, l, h) = g[S]
  BY DEF bitcut, MapThenSumSet, MapThenFoldSet, Summed, SumStep
<1>4. \A i \in S : z[i] = 2^(i - l)
  OBVIOUS
<1>5. \A i : i \in S <=> i \in value /\ i \in l .. h
  <2> TAKE i
  <2>1. i \in value => i \in Int
    OBVIOUS
  <2> QED
    BY <1>0, <2>1
<1>b. \A i \in 0 .. 31 : i \in B <=> i + l \in value
  OBVIOUS
<1> HIDE DEF S, z, g, B
<1>6. /\ g[{}] = 0
      /\ \A s \in SUBSET S : g[s] \in Int /\ \A x \in s : g[s] = z[x] + g[s \ {x}]
  BY <1>1, <1>2, SumRemoves DEF g
<1>7. /\ Upto(l) = {} /\ Upto(h + 1) = S
      /\ \A k \in l .. h : /\ k \notin S => Upto(k + 1) = Upto(k)
                           /\ k \in S => k \in Upto(k + 1) /\ Upto(k + 1) \ {k} = Upto(k)
                           /\ Upto(k + 1) \in SUBSET S /\ Upto(k) \in SUBSET S
  BY <1>0, <1>5
<1> HIDE DEF Upto
<1> DEFINE Ok(k) == Has(g[Upto(k)], k - l, B)
<1>8. Ok(l)
  <2>1. g[Upto(l)] = 0 /\ l - l = 0 /\ 2^0 = 1
    BY <1>0, <1>6, <1>7
  <2>2. Has(0, 0, B)
    BY <2>1 DEF Has
  <2> QED
    BY <2>1, <2>2
<1>9. ASSUME NEW k \in l .. h, Ok(k) PROVE Ok(k + 1)
  <2>1. PICK n \in 0 .. 31 : n = k - l
    BY <1>0
  <2>2. (k + 1) - l = 1 + n /\ n + l = k /\ 1 \in Nat /\ n \in Nat /\ 1 + n <= 32 /\ n + 1 = 1 + n
    BY <1>0, <2>1
  <2>3. PICK x \in Int : x = g[Upto(k)]
    BY <1>6, <1>7
  <2>4. Has(x, n, B)
    BY <1>9, <2>1, <2>3
  <2>5. \A i \in 0 .. 1 + n - 1 : (i = n /\ ~(i < n) /\ i - n = 0) \/ (i < n /\ ~(n <= i))
    OBVIOUS
  <2>6. 0 \in {0} /\ 0 \notin {} /\ n \in 0 .. 31
    OBVIOUS
  <2>9. PICK p \in Nat : p = 2^n
    <3>1. n \in 0 .. 32
      OBVIOUS
    <3> QED
      BY <3>1, Powers32
  <2>7. CASE k \in S
    <3>1. g[Upto(k + 1)] = z[k] + g[Upto(k)]
      BY <1>6, <1>7, <2>7
    <3>2. z[k] = p
      BY <1>4, <2>1, <2>7, <2>9
    <3>3. n \in B
      BY <1>b, <1>5, <2>2, <2>7
    <3>4. \A i \in 0 .. 1 + n - 1 : (i < n => (i \in B <=> i \in B)) /\ (n <= i => (i \in B <=> i - n \in {0}))
      BY <2>5, <2>6, <3>3
    <3>5. Has(1 * 2^n + x, 1 + n, B)
      BY <2>2, <2>4, <3>4, HasOne, Joined
    <3>6. 1 * 2^n + x = g[Upto(k + 1)]
      BY <2>3, <2>9, <3>1, <3>2
    <3> QED
      BY <2>2, <3>5, <3>6
  <2>8. CASE k \notin S
    <3>1. g[Upto(k + 1)] = g[Upto(k)]
      BY <1>7, <2>8
    <3>3. n \notin B
      BY <1>b, <1>5, <2>2, <2>8
    <3>4. \A i \in 0 .. 1 + n - 1 : (i < n => (i \in B <=> i \in B)) /\ (n <= i => (i \in B <=> i - n \in {}))
      BY <2>5, <2>6, <3>3
    <3>5. Has(0 * 2^n + x, 1 + n, B)
      BY <2>2, <2>4, <3>4, HasOne, Joined
    <3>6. 0 * 2^n + x = g[Upto(k + 1)]
      BY <2>3, <2>9, <3>1
    <3> QED
      BY <2>2, <3>5, <3>6
  <2> QED
    BY <2>7, <2>8
<1>10. Ok(h + 1)
  <2> HIDE DEF Ok
  <2> DEFINE Bad == {k \in Nat : l <= k /\ k <= h + 1 /\ ~Ok(k)}
  <2>1. ASSUME Bad # {} PROVE FALSE
    <3>1. PICK k \in Bad : \A j \in Bad : k <= j
      BY <2>1, Least
    <3>2. k # l
      BY <1>8
    <3>3. k - 1 \in l .. h /\ k - 1 \in Nat /\ (k - 1) + 1 = k /\ k - 1 < k
      BY <1>0, <3>2
    <3>4. Ok(k - 1)
      BY <1>0, <3>1, <3>3
    <3> QED
      BY <1>9, <3>3, <3>4
  <2>2. h + 1 \in Nat /\ l <= h + 1 /\ h + 1 <= h + 1
    BY <1>0
  <2> QED
    BY <2>1, <2>2
<1>11. (h + 1) - l = h - l + 1
  BY <1>0
<1> QED
  BY <1>3, <1>7, <1>10, <1>11 DEF B

\* A sign read out of the top bit leaves the number or takes 2^n from it.
LEMMA Extended ==
  ASSUME NEW n \in 1 .. 32, NEW v, NEW B, Has(v, n, B)
  PROVE  /\ v \in Nat
         /\ msb_extend(v, n) = IF n - 1 \in B THEN v - 2^n ELSE v
         /\ (msb_extend(v, n) < 0) = (n - 1 \in B)
<1>1. PICK m \in Nat \ {0} : m = 2^n
  <2>1. n \in 0 .. 32
    OBVIOUS
  <2> QED
    BY <2>1, Powers32
<1>2. v \in 0 .. m - 1
  BY <1>1 DEF Has
<1>3. Bit(v, n - 1) = 1 <=> n - 1 \in B
  <2>1. n - 1 \in 0 .. n - 1
    OBVIOUS
  <2> QED
    BY <2>1 DEF Has
<1>4. Bit(v, n - 1) \in {0, 1}
  <2>1. PICK p \in Nat \ {0} : p = 2^(n - 1)
    <3>1. n - 1 \in 0 .. 32
      OBVIOUS
    <3> QED
      BY <3>1, Powers32
  <2>2. PICK d \in Int : d = v \div p
    BY <1>2
  <2>3. d % 2 \in {0, 1}
    OBVIOUS
  <2> QED
    BY <2>1, <2>2, <2>3 DEF Bit
<1>5. \A q \in Nat \ {0} : \A x \in 0 .. q - 1 : x % q = x /\ (-x - 1) % q = (q - x) - 1
  OBVIOUS
<1>6. v % m = v /\ (-v - 1) % m = (m - v) - 1
  BY <1>2, <1>5
<1>7. CASE n - 1 \in B
  <2>1. Bit(v, n - 1) # 0
    BY <1>3, <1>7
  <2>2. msb_extend(v, n) = ((-v - 1) - ((-v - 1) % m)) + (v % m)
    BY <1>1, <2>1 DEF msb_extend
  <2>3. msb_extend(v, n) = v - m
    BY <1>2, <1>6, <2>2
  <2> QED
    BY <1>1, <1>2, <1>7, <2>3
<1>8. CASE n - 1 \notin B
  <2>1. Bit(v, n - 1) = 0
    BY <1>3, <1>4, <1>8
  <2>2. msb_extend(v, n) = v
    BY <2>1 DEF msb_extend
  <2> QED
    BY <1>2, <1>8, <2>2
<1> QED
  BY <1>2, <1>7, <1>8

\* A number with the bits a format places is the immediate the format carries,
\* with or without its sign.
LEMMA CarriedBy ==
  ASSUME NEW row, NEW value, NEW n \in 1 .. 32, NEW v, NEW B, Has(v, n, B),
         NEW imm \in {v, v - 2^n},
         \A p \in DOMAIN row.place : row.place[p] \in 0 .. n - 1 /\ (row.place[p] \in B <=> p \in value),
         \A i \in B \cap (0 .. n - 1) : i \in Range(row.place),
         n - 1 \in Range(row.place)
  PROVE  Carries(row, value, imm)
<1> DEFINE R == Range(row.place)
           top == CHOOSE i \in R : \A j \in R : j <= i
<1>1. R \subseteq 0 .. n - 1
  BY DEF Range
<1> HIDE DEF R
<1>2. n - 1 \in R /\ (\A j \in R : j <= n - 1)
  BY <1>1 DEF R
<1>3. top = n - 1
  <2>1. top \in R /\ \A j \in R : j <= top
    BY <1>2
  <2> HIDE DEF top
  <2>2. top <= n - 1 /\ n - 1 <= top /\ top \in Int
    BY <1>1, <1>2, <2>1
  <2> QED
    BY <2>2
<1>4. PICK m \in Nat \ {0} : m = 2^n
  <2>1. n \in 0 .. 32
    OBVIOUS
  <2> QED
    BY <2>1, Powers32
<1>5. v \in 0 .. m - 1
  BY <1>4 DEF Has
<1>6. imm % m = v
  <2>1. \A q \in Nat \ {0} : \A x \in 0 .. q - 1 : x % q = x /\ (x - q) % q = x
    OBVIOUS
  <2> QED
    BY <1>4, <1>5, <2>1
<1>7. imm % m = imm \/ imm % m = imm + m
  BY <1>4, <1>5, <1>6
<1>8. \A i \in 0 .. n - 1 : Bit(imm, i) = 1 <=> i \in B
  <2> TAKE i \in 0 .. n - 1
  <2>1. Bit(v + (-1) * 2^n, i) = Bit(v, i)
    <3>1. n \in 0 .. 32 /\ v \in Int /\ -1 \in Int
      BY <1>5
    <3> QED
      BY <3>1, LowBits
  <2>2. v + (-1) * 2^n = v - 2^n
    BY <1>4, <1>5
  <2>3. Bit(imm, i) = Bit(v, i)
    BY <2>1, <2>2
  <2> QED
    BY <2>3 DEF Has
<1>9. \A p \in DOMAIN row.place : p \in value <=> Bit(imm, row.place[p]) = 1
  BY <1>8
<1>10. \A i \in 0 .. n - 1 : Bit(imm, i) = 1 => i \in R
  BY <1>8 DEF R
<1>11. (n - 1) + 1 = n
  OBVIOUS
<1> HIDE DEF top
<1>12. imm % 2^(top + 1) = imm \/ imm % 2^(top + 1) = imm + 2^(top + 1)
  BY <1>3, <1>4, <1>7, <1>11
<1>13. \A i \in 0 .. top : Bit(imm, i) = 1 => i \in R
  BY <1>3, <1>10
<1> QED
  BY <1>9, <1>12, <1>13 DEF Carries, top, R

\* A field is a number.
LEMMA FieldType ==
  ASSUME NEW value \in SUBSET (0 .. 31), NEW l \in 0 .. 31, NEW h \in l .. 31
  PROVE  bitcut(value, l, h) \in Int
<1>1. PICK n \in 0 .. 32 : n = h - l + 1
  OBVIOUS
<1>2. PICK m \in Nat \ {0} : m = 2^n
  BY Powers32
<1>3. PICK v : v = bitcut(value, l, h)
  OBVIOUS
<1>4. Has(v, n, {i \in 0 .. 31 : i + l \in value})
  BY <1>1, <1>3, Field
<1>5. v \in 0 .. m - 1
  BY <1>2, <1>4 DEF Has
<1> QED
  BY <1>3, <1>5

\* A number with its sign is a number.
LEMMA ExtendedType ==
  ASSUME NEW v \in Int
  PROVE  msb_extend(v, 12) \in Int /\ msb_extend(v, 13) \in Int /\ msb_extend(v, 20) \in Int /\ msb_extend(v, 21) \in Int
BY DEF msb_extend

\* And the immediate of every format.
LEMMA ImmediateType ==
  ASSUME NEW value \in SUBSET (0 .. 31)
  PROVE  /\ ImmI(value) \in Int /\ ImmUI(value) \in Int /\ ImmS(value) \in Int
         /\ ImmU(value) \in Int /\ ImmB(value) \in Int /\ ImmJ(value) \in Int
<1>1. \A l \in 0 .. 31 : \A h \in l .. 31 : bitcut(value, l, h) \in Int
  BY FieldType
<1>2. /\ bitcut(value, 20, 31) \in Int /\ bitcut(value, 25, 31) \in Int /\ bitcut(value, 7, 11) \in Int
      /\ bitcut(value, 12, 31) \in Int /\ bitcut(value, 31, 31) \in Int /\ bitcut(value, 7, 7) \in Int
      /\ bitcut(value, 25, 30) \in Int /\ bitcut(value, 8, 11) \in Int /\ bitcut(value, 12, 19) \in Int
      /\ bitcut(value, 20, 20) \in Int /\ bitcut(value, 21, 30) \in Int
  BY <1>1
<1>3. ImmI(value) \in Int
  BY <1>2, ExtendedType DEF ImmI
<1>4. ImmUI(value) \in Int
  BY <1>3 DEF ImmUI
<1>5. ImmS(value) \in Int
  <2>1. bitcut(value, 25, 31) * 2^5 + bitcut(value, 7, 11) \in Int
    BY <1>2
  <2> QED
    BY <2>1, ExtendedType DEF ImmS
<1>6. ImmU(value) \in Int
  BY <1>2, ExtendedType DEF ImmU
<1>7. ImmB(value) \in Int
  <2>1. bitcut(value, 31, 31) * 2^12 + bitcut(value, 7, 7) * 2^11
             + bitcut(value, 25, 30) * 2^5 + bitcut(value, 8, 11) * 2 \in Int
    BY <1>2
  <2> QED
    BY <2>1, ExtendedType DEF ImmB
<1>8. ImmJ(value) \in Int
  <2>1. bitcut(value, 31, 31) * 2^20 + bitcut(value, 12, 19) * 2^12
             + bitcut(value, 20, 20) * 2^11 + bitcut(value, 21, 30) * 2 \in Int
    BY <1>2
  <2> QED
    BY <2>1, ExtendedType DEF ImmJ
<1> QED
  BY <1>3, <1>4, <1>5, <1>6, <1>7, <1>8

\* A number next to another, with the length and the power given.
LEMMA Appended ==
  ASSUME NEW n \in 0 .. 32, NEW m \in Nat, NEW k \in Nat, n = m + k, NEW p, p = 2^k,
         NEW A, NEW B, NEW C, NEW a, NEW b, Has(a, m, A), Has(b, k, B),
         \A i \in 0 .. 31 : i < n => (i < k => (i \in C <=> i \in B)) /\ (k <= i => (i \in C <=> i - k \in A))
  PROVE  Has(a * p + b, n, C)
<1>1. \A i \in 0 .. m + k - 1 : i \in 0 .. 31 /\ i < n
  OBVIOUS
<1>2. m + k <= 32
  OBVIOUS
<1> QED
  BY <1>1, <1>2, Joined

\* The twelve bits on top: the I format has them with their sign, the number
\* of a CSR or of a system instruction without.
LEMMA TopTwelve ==
  ASSUME NEW value \in SUBSET (0 .. 31), NEW v, v = bitcut(value, 20, 31)
  PROVE  /\ v \in Nat /\ v < 2^12 /\ Has(v, 12, {i \in 0 .. 31 : i + 20 \in value})
         /\ ImmI(value) = IF 31 \in value THEN v - 2^12 ELSE v
         /\ (ImmI(value) < 0) = (31 \in value)
         /\ ImmUI(value) = v
         /\ 31 \in value <=> v >= 2^11
<1> DEFINE B == {i \in 0 .. 31 : i + 20 \in value}
<1>1. Has(v, 12, B)
  <2>1. 20 \in 0 .. 31 /\ 31 \in 20 .. 31 /\ 31 - 20 + 1 = 12
    OBVIOUS
  <2> QED
    BY <2>1, Field
<1>2. 11 \in B <=> 31 \in value
  OBVIOUS
<1> HIDE DEF B
<1>3. /\ v \in Nat /\ ImmI(value) = IF 11 \in B THEN v - 2^12 ELSE v
      /\ (ImmI(value) < 0) = (11 \in B)
  <2>1. 12 \in 1 .. 32 /\ 12 - 1 = 11
    OBVIOUS
  <2> QED
    BY <1>1, <2>1, Extended DEF ImmI
<1>4. PICK m \in Nat \ {0} : m = 2^12
  OBVIOUS
<1>5. v \in 0 .. m - 1
  BY <1>1, <1>4 DEF Has
<1>6. ImmUI(value) = v
  <2>1. \A q \in Nat \ {0} : \A x \in 0 .. q - 1 : x % q = x /\ (x - q) % q = x
    OBVIOUS
  <2>2. ImmI(value) % m = v
    BY <1>3, <1>4, <1>5, <2>1
  <2> QED
    BY <1>4, <2>2 DEF ImmUI
<1>7. 11 \in B <=> v >= 2^11
  <2>1. PICK h \in Nat \ {0} : h = 2^11 /\ m = 2 * h
    BY <1>4
  <2>2. \A q \in Nat \ {0} : \A x \in 0 .. 2 * q - 1 : x \div q = IF x >= q THEN 1 ELSE 0
    OBVIOUS
  <2>3. v \div h = IF v >= h THEN 1 ELSE 0
    BY <1>5, <2>1, <2>2
  <2>4. Bit(v, 11) = IF v >= h THEN 1 ELSE 0
    BY <2>1, <2>3 DEF Bit
  <2>5. 11 \in 0 .. 12 - 1
    OBVIOUS
  <2> QED
    BY <1>1, <2>1, <2>4, <2>5 DEF Has
<1>8. v < 2^12
  BY <1>4, <1>5
<1> QED
  BY <1>1, <1>2, <1>3, <1>6, <1>7, <1>8 DEF B

\* The immediates of the formats, bit by bit of the word.
LEMMA CarriedI ==
  ASSUME NEW value \in SUBSET (0 .. 31), NEW row, row.place = PlaceI
  PROVE  Carries(row, value, ImmI(value)) /\ Carries(row, value, ImmUI(value))
<1> DEFINE B == {i \in 0 .. 31 : i + 20 \in value}
<1>1. PICK v : v = bitcut(value, 20, 31)
  OBVIOUS
<1>2. \A i \in 0 .. 31 : i \in B <=> i + 20 \in value
  OBVIOUS
<1>3. Has(v, 12, B) /\ ImmI(value) \in {v, v - 2^12} /\ ImmUI(value) = v
  BY <1>1, TopTwelve
<1> HIDE DEF B
<1>5. DOMAIN PlaceI = 20 .. 31 /\ \A p \in 20 .. 31 : PlaceI[p] = p - 20
  BY DEF PlaceI
<1>6. \A p \in DOMAIN row.place : row.place[p] \in 0 .. 12 - 1 /\ (row.place[p] \in B <=> p \in value)
  <2> TAKE p \in DOMAIN row.place
  <2>1. p \in 20 .. 31 /\ row.place[p] = p - 20 /\ p - 20 \in 0 .. 31 /\ (p - 20) + 20 = p /\ p - 20 \in 0 .. 12 - 1
    BY <1>5
  <2> QED
    BY <1>2, <2>1
<1>7. \A i \in 0 .. 11 : i \in Range(row.place)
  <2> TAKE i \in 0 .. 11
  <2>1. i + 20 \in 20 .. 31 /\ (i + 20) - 20 = i
    OBVIOUS
  <2> QED
    BY <1>5, <2>1 DEF Range
<1>8. 12 \in 1 .. 32 /\ 12 - 1 \in 0 .. 11 /\ \A i \in 0 .. 12 - 1 : i \in 0 .. 11
  OBVIOUS
<1>9. \A i \in B \cap (0 .. 12 - 1) : i \in Range(row.place)
  BY <1>7, <1>8
<1>10. \A imm \in {v, v - 2^12} : Carries(row, value, imm)
  BY <1>3, <1>6, <1>7, <1>8, <1>9, CarriedBy
<1> QED
  BY <1>3, <1>10

\* U: twenty bits on top.
LEMMA CarriedU ==
  ASSUME NEW value \in SUBSET (0 .. 31), NEW row, row.place = PlaceU
  PROVE  Carries(row, value, ImmU(value)) /\ (ImmU(value) < 0) = (31 \in value)
<1> DEFINE v == bitcut(value, 12, 31)
           B == {i \in 0 .. 31 : i + 12 \in value}
<1>1. Has(v, 20, B)
  <2>1. 12 \in 0 .. 31 /\ 31 \in 12 .. 31 /\ 31 - 12 + 1 = 20
    OBVIOUS
  <2> QED
    BY <2>1, Field
<1>2. \A i \in 0 .. 31 : i \in B <=> i + 12 \in value
  OBVIOUS
<1> HIDE DEF v, B
<1>3. ImmU(value) \in {v, v - 2^20} /\ (ImmU(value) < 0) = (19 \in B)
  <2>1. 20 \in 1 .. 32 /\ 20 - 1 = 19
    OBVIOUS
  <2> QED
    BY <1>1, <2>1, Extended DEF ImmU, v
<1>5. DOMAIN PlaceU = 12 .. 31 /\ \A p \in 12 .. 31 : PlaceU[p] = p - 12
  BY DEF PlaceU
<1>6. \A p \in DOMAIN row.place : row.place[p] \in 0 .. 20 - 1 /\ (row.place[p] \in B <=> p \in value)
  <2> TAKE p \in DOMAIN row.place
  <2>1. p \in 12 .. 31 /\ row.place[p] = p - 12 /\ p - 12 \in 0 .. 31 /\ (p - 12) + 12 = p /\ p - 12 \in 0 .. 20 - 1
    BY <1>5
  <2> QED
    BY <1>2, <2>1
<1>7. \A i \in 0 .. 19 : i \in Range(row.place)
  <2> TAKE i \in 0 .. 19
  <2>1. i + 12 \in 12 .. 31 /\ (i + 12) - 12 = i
    OBVIOUS
  <2> QED
    BY <1>5, <2>1 DEF Range
<1>8. 20 \in 1 .. 32 /\ 20 - 1 \in 0 .. 19 /\ \A i \in 0 .. 20 - 1 : i \in 0 .. 19
  OBVIOUS
<1>9. \A i \in B \cap (0 .. 20 - 1) : i \in Range(row.place)
  BY <1>7, <1>8
<1>10. \A imm \in {v, v - 2^20} : Carries(row, value, imm)
  BY <1>1, <1>6, <1>7, <1>8, <1>9, CarriedBy
<1>11. 19 \in B <=> 31 \in value
  BY <1>2
<1> QED
  BY <1>3, <1>10, <1>11

\* S: seven bits on top, five where rd is elsewhere.
LEMMA CarriedS ==
  ASSUME NEW value \in SUBSET (0 .. 31), NEW row, row.place = PlaceS
  PROVE  Carries(row, value, ImmS(value)) /\ (ImmS(value) < 0) = (31 \in value)
<1> DEFINE v == bitcut(value, 25, 31) * 2^5 + bitcut(value, 7, 11)
           B == {i \in 0 .. 31 : (IF i < 5 THEN i + 7 ELSE i + 20) \in value}
<1>1. Has(v, 12, B)
  <2> DEFINE A1 == {i \in 0 .. 31 : i + 25 \in value}
             A2 == {i \in 0 .. 31 : i + 7 \in value}
  <2>1. 7 \in 0 .. 31 /\ 11 \in 7 .. 31 /\ 11 - 7 + 1 = 5 /\ 25 \in 0 .. 31 /\ 31 \in 25 .. 31 /\ 31 - 25 + 1 = 7
    OBVIOUS
  <2>2. Has(bitcut(value, 25, 31), 7, A1) /\ Has(bitcut(value, 7, 11), 5, A2)
    BY <2>1, Field
  <2>3. \A i \in 0 .. 31 : i < 12 => (i < 5 => (i \in B <=> i \in A2)) /\ (5 <= i => (i \in B <=> i - 5 \in A1))
    <3> TAKE i \in 0 .. 31
    <3>1. 5 <= i => i - 5 \in 0 .. 31 /\ (i - 5) + 25 = i + 20 /\ ~(i < 5)
      OBVIOUS
    <3> QED
      BY <3>1
  <2> HIDE DEF A1, A2, B
  <2>4. Has(bitcut(value, 25, 31) * 32 + bitcut(value, 7, 11), 12, B)
    <3>1. 12 \in 0 .. 32 /\ 7 \in Nat /\ 5 \in Nat /\ 12 = 7 + 5
      OBVIOUS
    <3>2. 32 = 2^5
      OBVIOUS
    <3> QED
      BY <2>2, <2>3, <3>1, <3>2, Appended
  <2> QED
    BY <2>4
<1>2. \A i \in 0 .. 31 : i \in B <=> (IF i < 5 THEN i + 7 ELSE i + 20) \in value
  OBVIOUS
<1> HIDE DEF v, B
<1>3. ImmS(value) \in {v, v - 2^12} /\ (ImmS(value) < 0) = (11 \in B)
  <2>1. 12 \in 1 .. 32 /\ 12 - 1 = 11
    OBVIOUS
  <2>2. ImmS(value) = msb_extend(v, 12)
    BY DEF ImmS, v
  <2> QED
    BY <1>1, <2>1, <2>2, Extended
<1>5. DOMAIN PlaceS = 25 .. 31 \cup 7 .. 11 /\ \A p \in 25 .. 31 \cup 7 .. 11 : PlaceS[p] = IF p > 11 THEN p - 20 ELSE p - 7
  BY DEF PlaceS
<1>6. \A p \in DOMAIN row.place : row.place[p] \in 0 .. 12 - 1 /\ (row.place[p] \in B <=> p \in value)
  <2> TAKE p \in DOMAIN row.place
  <2>1. p \in 25 .. 31 \/ p \in 7 .. 11
    BY <1>5
  <2>2. CASE p \in 25 .. 31
    <3>1. row.place[p] = p - 20 /\ p - 20 \in 0 .. 31 /\ ~(p - 20 < 5) /\ (p - 20) + 20 = p /\ p - 20 \in 0 .. 12 - 1
      BY <1>5, <2>2
    <3> QED
      BY <1>2, <3>1
  <2>3. CASE p \in 7 .. 11
    <3>1. row.place[p] = p - 7 /\ p - 7 \in 0 .. 31 /\ p - 7 < 5 /\ (p - 7) + 7 = p /\ p - 7 \in 0 .. 12 - 1
      BY <1>5, <2>3
    <3> QED
      BY <1>2, <3>1
  <2> QED
    BY <2>1, <2>2, <2>3
<1>7. \A i \in 0 .. 11 : i \in Range(row.place)
  <2> TAKE i \in 0 .. 11
  <2>1. \/ i + 7 \in 7 .. 11 /\ (i + 7) - 7 = i /\ ~(i + 7 > 11)
        \/ i + 20 \in 25 .. 31 /\ (i + 20) - 20 = i /\ i + 20 > 11
    OBVIOUS
  <2> QED
    BY <1>5, <2>1 DEF Range
<1>8. 12 \in 1 .. 32 /\ 12 - 1 \in 0 .. 11 /\ \A i \in 0 .. 12 - 1 : i \in 0 .. 11
  OBVIOUS
<1>9. \A i \in B \cap (0 .. 12 - 1) : i \in Range(row.place)
  BY <1>7, <1>8
<1>10. \A imm \in {v, v - 2^12} : Carries(row, value, imm)
  BY <1>1, <1>6, <1>7, <1>8, <1>9, CarriedBy
<1>11. 11 \in B <=> 31 \in value
  BY <1>2
<1> QED
  BY <1>3, <1>10, <1>11

\* B: the sign, bit 11 from the bottom of the rd field, then as in S without bit 0.
LEMMA CarriedB ==
  ASSUME NEW value \in SUBSET (0 .. 31), NEW row, row.place = PlaceB
  PROVE  Carries(row, value, ImmB(value)) /\ (ImmB(value) < 0) = (31 \in value)
<1> DEFINE v == bitcut(value, 31, 31) * 2^12 + bitcut(value, 7, 7) * 2^11 + bitcut(value, 25, 30) * 2^5 + bitcut(value, 8, 11) * 2
           B == {i \in 0 .. 31 : i > 0 /\ i < 13 /\ (IF i < 5 THEN i + 7 ELSE IF i < 11 THEN i + 20 ELSE IF i < 12 THEN 7 ELSE 31) \in value}
<1>1. Has(v, 13, B)
  <2> DEFINE A(l) == {i \in 0 .. 31 : i + l \in value}
             C1 == {i \in 0 .. 31 : (IF i < 1 THEN 7 ELSE 31) \in value}
             C2 == {i \in 0 .. 31 : (IF i < 6 THEN i + 25 ELSE IF i < 7 THEN 7 ELSE 31) \in value}
             C3 == {i \in 0 .. 31 : (IF i < 4 THEN i + 8 ELSE IF i < 10 THEN i + 21 ELSE IF i < 11 THEN 7 ELSE 31) \in value}
  <2>1. PICK a : a = bitcut(value, 31, 31) /\ Has(a, 1, A(31)) /\ a \in Int
    <3>1. 31 \in 0 .. 31 /\ 31 \in 31 .. 31 /\ 31 - 31 + 1 = 1 /\ 31 \in Nat /\ 31 \in Nat
      OBVIOUS
    <3>2. Has(bitcut(value, 31, 31), 1, A(31))
      BY <3>1, Field
    <3>3. bitcut(value, 31, 31) \in Int
      BY <3>1, FieldType
    <3> QED
      BY <3>2, <3>3
  <2>2. PICK b : b = bitcut(value, 7, 7) /\ Has(b, 1, A(7)) /\ b \in Int
    <3>1. 7 \in 0 .. 31 /\ 7 \in 7 .. 31 /\ 7 - 7 + 1 = 1 /\ 7 \in Nat /\ 7 \in Nat
      OBVIOUS
    <3>2. Has(bitcut(value, 7, 7), 1, A(7))
      BY <3>1, Field
    <3>3. bitcut(value, 7, 7) \in Int
      BY <3>1, FieldType
    <3> QED
      BY <3>2, <3>3
  <2>3. PICK c : c = bitcut(value, 25, 30) /\ Has(c, 6, A(25)) /\ c \in Int
    <3>1. 25 \in 0 .. 31 /\ 30 \in 25 .. 31 /\ 30 - 25 + 1 = 6 /\ 25 \in Nat /\ 30 \in Nat
      OBVIOUS
    <3>2. Has(bitcut(value, 25, 30), 6, A(25))
      BY <3>1, Field
    <3>3. bitcut(value, 25, 30) \in Int
      BY <3>1, FieldType
    <3> QED
      BY <3>2, <3>3
  <2>4. PICK d : d = bitcut(value, 8, 11) /\ Has(d, 4, A(8)) /\ d \in Int
    <3>1. 8 \in 0 .. 31 /\ 11 \in 8 .. 31 /\ 11 - 8 + 1 = 4 /\ 8 \in Nat /\ 11 \in Nat
      OBVIOUS
    <3>2. Has(bitcut(value, 8, 11), 4, A(8))
      BY <3>1, Field
    <3>3. bitcut(value, 8, 11) \in Int
      BY <3>1, FieldType
    <3> QED
      BY <3>2, <3>3
  <2>5. PICK s1 \in Int : s1 = a * 2 + b /\ Has(s1, 2, C1)
    <3>1. \A i \in 0 .. 31 : i < 2 => (i < 1 => (i \in C1 <=> i \in A(7))) /\ (1 <= i => (i \in C1 <=> i - 1 \in A(31)))
      <4> TAKE i \in 0 .. 31
      <4>1. 1 <= i => i - 1 \in 0 .. 31
        OBVIOUS
      <4> QED
        BY <4>1
    <3>2. 2 \in 0 .. 32 /\ 1 \in Nat /\ 1 \in Nat /\ 2 = 1 + 1
      OBVIOUS
    <3>3. PICK p : p = 2^1 /\ p = 2
      OBVIOUS
    <3> HIDE DEF A, C1, C2, C3
    <3>4. Has(a, 1, A(31)) /\ Has(b, 1, A(7))
      BY <2>2, <2>1
    <3>6. p = 2^1
      BY <3>3
    <3>7. Has(a * p + b, 2, C1)
      BY <3>1, <3>2, <3>4, <3>6, Appended, Zenon
    <3>5. Has(a * 2 + b, 2, C1)
      BY <3>3, <3>7
    <3> QED
      BY <2>1, <2>2, <3>5
  <2>6. PICK s2 \in Int : s2 = s1 * 64 + c /\ Has(s2, 8, C2)
    <3>1. \A i \in 0 .. 31 : i < 8 => (i < 6 => (i \in C2 <=> i \in A(25))) /\ (6 <= i => (i \in C2 <=> i - 6 \in C1))
      <4> TAKE i \in 0 .. 31
      <4>1. 6 <= i => i - 6 \in 0 .. 31
        OBVIOUS
      <4> QED
        BY <4>1
    <3>2. 8 \in 0 .. 32 /\ 2 \in Nat /\ 6 \in Nat /\ 8 = 2 + 6
      OBVIOUS
    <3>3. PICK p : p = 2^6 /\ p = 64
      OBVIOUS
    <3> HIDE DEF A, C1, C2, C3
    <3>4. Has(s1, 2, C1) /\ Has(c, 6, A(25))
      BY <2>3, <2>5
    <3>6. p = 2^6
      BY <3>3
    <3>7. Has(s1 * p + c, 8, C2)
      BY <3>1, <3>2, <3>4, <3>6, Appended, Zenon
    <3>5. Has(s1 * 64 + c, 8, C2)
      BY <3>3, <3>7
    <3> QED
      BY <2>1, <2>3, <2>5, <3>5
  <2>7. PICK s3 \in Int : s3 = s2 * 16 + d /\ Has(s3, 12, C3)
    <3>1. \A i \in 0 .. 31 : i < 12 => (i < 4 => (i \in C3 <=> i \in A(8))) /\ (4 <= i => (i \in C3 <=> i - 4 \in C2))
      <4> TAKE i \in 0 .. 31
      <4>1. 4 <= i => i - 4 \in 0 .. 31
        OBVIOUS
      <4> QED
        BY <4>1
    <3>2. 12 \in 0 .. 32 /\ 8 \in Nat /\ 4 \in Nat /\ 12 = 8 + 4
      OBVIOUS
    <3>3. PICK p : p = 2^4 /\ p = 16
      OBVIOUS
    <3> HIDE DEF A, C1, C2, C3
    <3>4. Has(s2, 8, C2) /\ Has(d, 4, A(8))
      BY <2>4, <2>6
    <3>6. p = 2^4
      BY <3>3
    <3>7. Has(s2 * p + d, 12, C3)
      BY <3>1, <3>2, <3>4, <3>6, Appended, Zenon
    <3>5. Has(s2 * 16 + d, 12, C3)
      BY <3>3, <3>7
    <3> QED
      BY <2>1, <2>4, <2>6, <3>5
  <2>8. Has(s3 * 2 + 0, 13, B)
    <3>1. \A i \in 0 .. 31 : i < 13 => (i < 1 => (i \in B <=> i \in {})) /\ (1 <= i => (i \in B <=> i - 1 \in C3))
      <4> TAKE i \in 0 .. 31
      <4>1. 1 <= i => i - 1 \in 0 .. 31
        OBVIOUS
      <4> QED
        BY <4>1
    <3>2. 13 \in 0 .. 32 /\ 12 \in Nat /\ 1 \in Nat /\ 13 = 12 + 1 /\ 2 = 2^1
      OBVIOUS
    <3> HIDE DEF A, B, C1, C2, C3
    <3>3. Has(s3, 12, C3) /\ Has(0, 1, {})
      BY <2>7, HasOne
    <3> QED
      BY <3>1, <3>2, <3>3, Appended, Zenon
  <2>9. v = s3 * 2 + 0
    <3>1. 2^12 = 4096 /\ 2^11 = 2048 /\ 2^5 = 32
      OBVIOUS
    <3>2. v = a * 4096 + b * 2048 + c * 32 + d * 2
      BY <2>1, <2>2, <2>3, <2>4, <3>1
    <3> HIDE DEF v
    <3> QED
      BY <2>1, <2>2, <2>3, <2>4, <2>5, <2>6, <2>7, <3>2
  <2> QED
    BY <2>8, <2>9
<1>2. \A i \in 0 .. 31 : i \in B <=> i > 0 /\ i < 13 /\ (IF i < 5 THEN i + 7 ELSE IF i < 11 THEN i + 20 ELSE IF i < 12 THEN 7 ELSE 31) \in value
  OBVIOUS
<1> HIDE DEF B
<1>3. ImmB(value) \in {v, v - 2^13} /\ (ImmB(value) < 0) = (12 \in B)
  <2>1. 13 \in 1 .. 32 /\ 13 - 1 = 12
    OBVIOUS
  <2>2. ImmB(value) = msb_extend(v, 13)
    BY DEF ImmB
  <2> HIDE DEF v
  <2> QED
    BY <1>1, <2>1, <2>2, Extended
<1> HIDE DEF v
<1>5. DOMAIN PlaceB = 7 .. 11 \cup 25 .. 31 /\ \A p \in 7 .. 11 \cup 25 .. 31 : PlaceB[p] = IF p = 7 THEN 11 ELSE IF p = 31 THEN 12 ELSE IF p > 11 THEN p - 20 ELSE p - 7
  BY DEF PlaceB
<1>6. \A p \in DOMAIN row.place : row.place[p] \in 0 .. 13 - 1 /\ (row.place[p] \in B <=> p \in value)
  <2> TAKE p \in DOMAIN row.place
  <2>1. p = 7 \/ p = 31 \/ p \in 25 .. 30 \/ p \in 8 .. 11
    BY <1>5
  <2>2. CASE p = 7
    <3>1. row.place[p] = 11 /\ row.place[p] \in 0 .. 31 /\ row.place[p] \in 0 .. 13 - 1
      BY <1>5, <2>2
    <3> QED
      BY <1>2, <2>2, <3>1
  <2>3. CASE p = 31
    <3>1. row.place[p] = 12 /\ row.place[p] \in 0 .. 31 /\ row.place[p] \in 0 .. 13 - 1
      BY <1>5, <2>3
    <3> QED
      BY <1>2, <2>3, <3>1
  <2>4. CASE p \in 25 .. 30
    <3>1. row.place[p] = p - 20 /\ row.place[p] \in 0 .. 31 /\ row.place[p] \in 0 .. 13 - 1
      BY <1>5, <2>4
    <3> QED
      BY <1>2, <2>4, <3>1
  <2>5. CASE p \in 8 .. 11
    <3>1. row.place[p] = p - 7 /\ row.place[p] \in 0 .. 31 /\ row.place[p] \in 0 .. 13 - 1
      BY <1>5, <2>5
    <3> QED
      BY <1>2, <2>5, <3>1
  <2> QED
    BY <2>1, <2>2, <2>3, <2>4, <2>5
<1>7. \A i \in 1 .. 12 : i \in Range(row.place)
  <2> TAKE i \in 1 .. 12
  <2>1. PICK p \in 7 .. 11 \cup 25 .. 31 : i = IF p = 7 THEN 11 ELSE IF p = 31 THEN 12 ELSE IF p > 11 THEN p - 20 ELSE p - 7
    <3>1. PICK p : p = IF i < 5 THEN i + 7 ELSE IF i < 11 THEN i + 20 ELSE IF i < 12 THEN 7 ELSE 31
      OBVIOUS
    <3>2. p \in 7 .. 11 \cup 25 .. 31 /\ i = IF p = 7 THEN 11 ELSE IF p = 31 THEN 12 ELSE IF p > 11 THEN p - 20 ELSE p - 7
      BY <3>1
    <3> QED
      BY <3>2
  <2> QED
    BY <1>5, <2>1 DEF Range
<1>8. 13 \in 1 .. 32 /\ 13 - 1 \in 1 .. 12 /\ \A i \in 0 .. 13 - 1 : i > 0 => i \in 1 .. 12
  OBVIOUS
<1>9. \A i \in B \cap (0 .. 13 - 1) : i \in Range(row.place)
  <2>1. \A i \in 0 .. 13 - 1 : i \in 0 .. 31
    OBVIOUS
  <2> QED
    BY <1>2, <1>7, <1>8, <2>1
<1>10. \A imm \in {v, v - 2^13} : Carries(row, value, imm)
  BY <1>1, <1>6, <1>7, <1>8, <1>9, CarriedBy
<1>11. 12 \in B <=> 31 \in value
  BY <1>2
<1> QED
  BY <1>3, <1>10, <1>11

\* J: the sign, bits 12 to 19 in place, bit 11, then bits 1 to 10.
LEMMA CarriedJ ==
  ASSUME NEW value \in SUBSET (0 .. 31), NEW row, row.place = PlaceJ
  PROVE  Carries(row, value, ImmJ(value)) /\ (ImmJ(value) < 0) = (31 \in value)
<1> DEFINE v == bitcut(value, 31, 31) * 2^20 + bitcut(value, 12, 19) * 2^12 + bitcut(value, 20, 20) * 2^11 + bitcut(value, 21, 30) * 2
           B == {i \in 0 .. 31 : i > 0 /\ i < 21 /\ (IF i < 11 THEN i + 20 ELSE IF i < 12 THEN 20 ELSE IF i < 20 THEN i ELSE 31) \in value}
<1>1. Has(v, 21, B)
  <2> DEFINE A(l) == {i \in 0 .. 31 : i + l \in value}
             C1 == {i \in 0 .. 31 : (IF i < 8 THEN i + 12 ELSE 31) \in value}
             C2 == {i \in 0 .. 31 : (IF i < 1 THEN 20 ELSE IF i < 9 THEN i + 11 ELSE 31) \in value}
             C3 == {i \in 0 .. 31 : (IF i < 10 THEN i + 21 ELSE IF i < 11 THEN 20 ELSE IF i < 19 THEN i + 1 ELSE 31) \in value}
  <2>1. PICK a : a = bitcut(value, 31, 31) /\ Has(a, 1, A(31)) /\ a \in Int
    <3>1. 31 \in 0 .. 31 /\ 31 \in 31 .. 31 /\ 31 - 31 + 1 = 1 /\ 31 \in Nat /\ 31 \in Nat
      OBVIOUS
    <3>2. Has(bitcut(value, 31, 31), 1, A(31))
      BY <3>1, Field
    <3>3. bitcut(value, 31, 31) \in Int
      BY <3>1, FieldType
    <3> QED
      BY <3>2, <3>3
  <2>2. PICK b : b = bitcut(value, 12, 19) /\ Has(b, 8, A(12)) /\ b \in Int
    <3>1. 12 \in 0 .. 31 /\ 19 \in 12 .. 31 /\ 19 - 12 + 1 = 8 /\ 12 \in Nat /\ 19 \in Nat
      OBVIOUS
    <3>2. Has(bitcut(value, 12, 19), 8, A(12))
      BY <3>1, Field
    <3>3. bitcut(value, 12, 19) \in Int
      BY <3>1, FieldType
    <3> QED
      BY <3>2, <3>3
  <2>3. PICK c : c = bitcut(value, 20, 20) /\ Has(c, 1, A(20)) /\ c \in Int
    <3>1. 20 \in 0 .. 31 /\ 20 \in 20 .. 31 /\ 20 - 20 + 1 = 1 /\ 20 \in Nat /\ 20 \in Nat
      OBVIOUS
    <3>2. Has(bitcut(value, 20, 20), 1, A(20))
      BY <3>1, Field
    <3>3. bitcut(value, 20, 20) \in Int
      BY <3>1, FieldType
    <3> QED
      BY <3>2, <3>3
  <2>4. PICK d : d = bitcut(value, 21, 30) /\ Has(d, 10, A(21)) /\ d \in Int
    <3>1. 21 \in 0 .. 31 /\ 30 \in 21 .. 31 /\ 30 - 21 + 1 = 10 /\ 21 \in Nat /\ 30 \in Nat
      OBVIOUS
    <3>2. Has(bitcut(value, 21, 30), 10, A(21))
      BY <3>1, Field
    <3>3. bitcut(value, 21, 30) \in Int
      BY <3>1, FieldType
    <3> QED
      BY <3>2, <3>3
  <2>5. PICK s1 \in Int : s1 = a * 256 + b /\ Has(s1, 9, C1)
    <3>1. \A i \in 0 .. 31 : i < 9 => (i < 8 => (i \in C1 <=> i \in A(12))) /\ (8 <= i => (i \in C1 <=> i - 8 \in A(31)))
      <4> TAKE i \in 0 .. 31
      <4>1. 8 <= i => i - 8 \in 0 .. 31
        OBVIOUS
      <4> QED
        BY <4>1
    <3>2. 9 \in 0 .. 32 /\ 1 \in Nat /\ 8 \in Nat /\ 9 = 1 + 8
      OBVIOUS
    <3>3. PICK p : p = 2^8 /\ p = 256
      OBVIOUS
    <3> HIDE DEF A, C1, C2, C3
    <3>4. Has(a, 1, A(31)) /\ Has(b, 8, A(12))
      BY <2>2, <2>1
    <3>6. p = 2^8
      BY <3>3
    <3>7. Has(a * p + b, 9, C1)
      BY <3>1, <3>2, <3>4, <3>6, Appended, Zenon
    <3>5. Has(a * 256 + b, 9, C1)
      BY <3>3, <3>7
    <3> QED
      BY <2>1, <2>2, <3>5
  <2>6. PICK s2 \in Int : s2 = s1 * 2 + c /\ Has(s2, 10, C2)
    <3>1. \A i \in 0 .. 31 : i < 10 => (i < 1 => (i \in C2 <=> i \in A(20))) /\ (1 <= i => (i \in C2 <=> i - 1 \in C1))
      <4> TAKE i \in 0 .. 31
      <4>1. 1 <= i => i - 1 \in 0 .. 31
        OBVIOUS
      <4> QED
        BY <4>1
    <3>2. 10 \in 0 .. 32 /\ 9 \in Nat /\ 1 \in Nat /\ 10 = 9 + 1
      OBVIOUS
    <3>3. PICK p : p = 2^1 /\ p = 2
      OBVIOUS
    <3> HIDE DEF A, C1, C2, C3
    <3>4. Has(s1, 9, C1) /\ Has(c, 1, A(20))
      BY <2>3, <2>5
    <3>6. p = 2^1
      BY <3>3
    <3>7. Has(s1 * p + c, 10, C2)
      BY <3>1, <3>2, <3>4, <3>6, Appended, Zenon
    <3>5. Has(s1 * 2 + c, 10, C2)
      BY <3>3, <3>7
    <3> QED
      BY <2>1, <2>3, <2>5, <3>5
  <2>7. PICK s3 \in Int : s3 = s2 * 1024 + d /\ Has(s3, 20, C3)
    <3>1. \A i \in 0 .. 31 : i < 20 => (i < 10 => (i \in C3 <=> i \in A(21))) /\ (10 <= i => (i \in C3 <=> i - 10 \in C2))
      <4> TAKE i \in 0 .. 31
      <4>1. 10 <= i => i - 10 \in 0 .. 31
        OBVIOUS
      <4> QED
        BY <4>1
    <3>2. 20 \in 0 .. 32 /\ 10 \in Nat /\ 10 \in Nat /\ 20 = 10 + 10
      OBVIOUS
    <3>3. PICK p : p = 2^10 /\ p = 1024
      OBVIOUS
    <3> HIDE DEF A, C1, C2, C3
    <3>4. Has(s2, 10, C2) /\ Has(d, 10, A(21))
      BY <2>4, <2>6
    <3>6. p = 2^10
      BY <3>3
    <3>7. Has(s2 * p + d, 20, C3)
      BY <3>1, <3>2, <3>4, <3>6, Appended, Zenon
    <3>5. Has(s2 * 1024 + d, 20, C3)
      BY <3>3, <3>7
    <3> QED
      BY <2>1, <2>4, <2>6, <3>5
  <2>8. Has(s3 * 2 + 0, 21, B)
    <3>1. \A i \in 0 .. 31 : i < 21 => (i < 1 => (i \in B <=> i \in {})) /\ (1 <= i => (i \in B <=> i - 1 \in C3))
      <4> TAKE i \in 0 .. 31
      <4>1. 1 <= i => i - 1 \in 0 .. 31
        OBVIOUS
      <4> QED
        BY <4>1
    <3>2. 21 \in 0 .. 32 /\ 20 \in Nat /\ 1 \in Nat /\ 21 = 20 + 1 /\ 2 = 2^1
      OBVIOUS
    <3> HIDE DEF A, B, C1, C2, C3
    <3>3. Has(s3, 20, C3) /\ Has(0, 1, {})
      BY <2>7, HasOne
    <3> QED
      BY <3>1, <3>2, <3>3, Appended, Zenon
  <2>9. v = s3 * 2 + 0
    <3>1. 2^20 = 1048576 /\ 2^12 = 4096 /\ 2^11 = 2048
      OBVIOUS
    <3>2. v = a * 1048576 + b * 4096 + c * 2048 + d * 2
      BY <2>1, <2>2, <2>3, <2>4, <3>1
    <3> HIDE DEF v
    <3> QED
      BY <2>1, <2>2, <2>3, <2>4, <2>5, <2>6, <2>7, <3>2
  <2> QED
    BY <2>8, <2>9
<1>2. \A i \in 0 .. 31 : i \in B <=> i > 0 /\ i < 21 /\ (IF i < 11 THEN i + 20 ELSE IF i < 12 THEN 20 ELSE IF i < 20 THEN i ELSE 31) \in value
  OBVIOUS
<1> HIDE DEF B
<1>3. ImmJ(value) \in {v, v - 2^21} /\ (ImmJ(value) < 0) = (20 \in B)
  <2>1. 21 \in 1 .. 32 /\ 21 - 1 = 20
    OBVIOUS
  <2>2. ImmJ(value) = msb_extend(v, 21)
    BY DEF ImmJ
  <2> HIDE DEF v
  <2> QED
    BY <1>1, <2>1, <2>2, Extended
<1> HIDE DEF v
<1>5. DOMAIN PlaceJ = 12 .. 31 /\ \A p \in 12 .. 31 : PlaceJ[p] = IF p = 31 THEN 20 ELSE IF p = 20 THEN 11 ELSE IF p > 20 THEN p - 20 ELSE p
  BY DEF PlaceJ
<1>6. \A p \in DOMAIN row.place : row.place[p] \in 0 .. 21 - 1 /\ (row.place[p] \in B <=> p \in value)
  <2> TAKE p \in DOMAIN row.place
  <2>1. p = 31 \/ p = 20 \/ p \in 21 .. 30 \/ p \in 12 .. 19
    BY <1>5
  <2>2. CASE p = 31
    <3>1. row.place[p] = 20 /\ row.place[p] \in 0 .. 31 /\ row.place[p] \in 0 .. 21 - 1
      BY <1>5, <2>2
    <3> QED
      BY <1>2, <2>2, <3>1
  <2>3. CASE p = 20
    <3>1. row.place[p] = 11 /\ row.place[p] \in 0 .. 31 /\ row.place[p] \in 0 .. 21 - 1
      BY <1>5, <2>3
    <3> QED
      BY <1>2, <2>3, <3>1
  <2>4. CASE p \in 21 .. 30
    <3>1. row.place[p] = p - 20 /\ row.place[p] \in 0 .. 31 /\ row.place[p] \in 0 .. 21 - 1
      BY <1>5, <2>4
    <3> QED
      BY <1>2, <2>4, <3>1
  <2>5. CASE p \in 12 .. 19
    <3>1. row.place[p] = p /\ row.place[p] \in 0 .. 31 /\ row.place[p] \in 0 .. 21 - 1
      BY <1>5, <2>5
    <3> QED
      BY <1>2, <2>5, <3>1
  <2> QED
    BY <2>1, <2>2, <2>3, <2>4, <2>5
<1>7. \A i \in 1 .. 20 : i \in Range(row.place)
  <2> TAKE i \in 1 .. 20
  <2>1. PICK p \in 12 .. 31 : i = IF p = 31 THEN 20 ELSE IF p = 20 THEN 11 ELSE IF p > 20 THEN p - 20 ELSE p
    <3>1. PICK p : p = IF i < 11 THEN i + 20 ELSE IF i < 12 THEN 20 ELSE IF i < 20 THEN i ELSE 31
      OBVIOUS
    <3>2. p \in 12 .. 31 /\ i = IF p = 31 THEN 20 ELSE IF p = 20 THEN 11 ELSE IF p > 20 THEN p - 20 ELSE p
      BY <3>1
    <3> QED
      BY <3>2
  <2> QED
    BY <1>5, <2>1 DEF Range
<1>8. 21 \in 1 .. 32 /\ 21 - 1 \in 1 .. 20 /\ \A i \in 0 .. 21 - 1 : i > 0 => i \in 1 .. 20
  OBVIOUS
<1>9. \A i \in B \cap (0 .. 21 - 1) : i \in Range(row.place)
  <2>1. \A i \in 0 .. 21 - 1 : i \in 0 .. 31
    OBVIOUS
  <2> QED
    BY <1>2, <1>7, <1>8, <2>1
<1>10. \A imm \in {v, v - 2^21} : Carries(row, value, imm)
  BY <1>1, <1>6, <1>7, <1>8, <1>9, CarriedBy
<1>11. 20 \in B <=> 31 \in value
  BY <1>2
<1> QED
  BY <1>3, <1>10, <1>11

\* What the tables of decode hold.
LEMMA Tables ==
  /\ \A k \in DOMAIN Multiply : Multiply[k] \in Register
  /\ \A k \in DOMAIN BaseReg : BaseReg[k] \in Register
  /\ \A k \in DOMAIN BaseImm : BaseImm[k] \in DOMAIN Immediate
  /\ \A k \in DOMAIN ShiftImm : ShiftImm[k] \in DOMAIN Immediate
  /\ \A k \in DOMAIN Load : Load[k] \in {"LB", "LH", "LW", "LBU", "LHU"}
  /\ \A k \in DOMAIN Store : Store[k] \in {"SB", "SH", "SW"}
  /\ \A k \in DOMAIN Branch : Branch[k] \in {"BEQ", "BNE", "BLT", "BGE", "BLTU", "BGEU"}
  /\ \A k \in DOMAIN System : System[k] \in {"ECALL", "EBREAK", "MRET", "SRET", "WFI"}
  /\ \A k \in DOMAIN Csr : Csr[k] \in {"CSRRW", "CSRRS", "CSRRC", "CSRRWI", "CSRRSI", "CSRRCI"}
  /\ \A k \in DOMAIN Atomic : Atomic[k] \in
       {"LR", "SC", "AMOSWAP", "AMOADD", "AMOAND", "AMOOR", "AMOXOR", "AMOMAX", "AMOMIN", "AMOMINU", "AMOMAXU"}
<1>1. ASSUME NEW pairs, NEW k \in DOMAIN Table(pairs)
      PROVE  \E p \in pairs : Table(pairs)[k] = p[2]
  BY DEF Table
<1>2. \A k \in DOMAIN Multiply : Multiply[k] \in Register
  BY DEF Multiply, Register
<1>3. \A k \in DOMAIN BaseReg : BaseReg[k] \in Register
  BY <1>1 DEF BaseReg, Register
<1>4. \A k \in DOMAIN BaseImm : BaseImm[k] \in DOMAIN Immediate
  BY <1>1 DEF BaseImm, Immediate
<1>5. \A k \in DOMAIN ShiftImm : ShiftImm[k] \in DOMAIN Immediate
  BY <1>1 DEF ShiftImm, Immediate
<1>6. \A k \in DOMAIN Load : Load[k] \in {"LB", "LH", "LW", "LBU", "LHU"}
  BY <1>1 DEF Load
<1>7. \A k \in DOMAIN Store : Store[k] \in {"SB", "SH", "SW"}
  BY <1>1 DEF Store
<1>8. \A k \in DOMAIN Branch : Branch[k] \in {"BEQ", "BNE", "BLT", "BGE", "BLTU", "BGEU"}
  BY <1>1 DEF Branch
<1>9. \A k \in DOMAIN System : System[k] \in {"ECALL", "EBREAK", "MRET", "SRET", "WFI"}
  BY <1>1 DEF System
<1>10. \A k \in DOMAIN Csr : Csr[k] \in {"CSRRW", "CSRRS", "CSRRC", "CSRRWI", "CSRRSI", "CSRRCI"}
  BY <1>1 DEF Csr
<1>11. \A k \in DOMAIN Atomic : Atomic[k] \in
       {"LR", "SC", "AMOSWAP", "AMOADD", "AMOAND", "AMOOR", "AMOXOR", "AMOMAX", "AMOMIN", "AMOMINU", "AMOMAXU"}
  BY <1>1 DEF Atomic
<1> QED
  BY <1>2, <1>3, <1>4, <1>5, <1>6, <1>7, <1>8, <1>9, <1>10, <1>11

\* Classes that are neither arithmetic nor branches.
Others ==
  {"LB", "LH", "LW", "LBU", "LHU", "SB", "SH", "SW", "JAL", "JALR", "LUI", "AUIPC",
   "ECALL", "EBREAK", "MRET", "SRET", "WFI", "CSRRW", "CSRRS", "CSRRC", "CSRRWI", "CSRRSI", "CSRRCI",
   "SFENCE.VMA", "FENCE", "CBO.ZERO", "LR", "SC", "AMOSWAP", "AMOADD", "AMOAND", "AMOOR", "AMOXOR",
   "AMOMAX", "AMOMIN", "AMOMINU", "AMOMAXU"}

Branches == {"BEQ", "BNE", "BLT", "BGE", "BLTU", "BGEU"}

\* A word that is decoded has the opcode of its class.
LEMMA DecodedClass ==
  ASSUME NEW value \in SUBSET (0 .. 31)
  PROVE  /\ decode(value)[2] \in Int
         /\ \/ decode(value)[1] = Undecoded
            \/ opcode(value) = 51 /\ decode(value)[1] \in Register
            \/ opcode(value) = 19 /\ decode(value)[1] \in DOMAIN Immediate
            \/ opcode(value) = 99 /\ decode(value)[1] \in Branches
            \/ opcode(value) \notin {51, 19, 99} /\ decode(value)[1] \in Others
<1> DEFINE op == opcode(value)
           f3 == funct3(value)
           c == decode(value)[1]
           imm == decode(value)[2]
<1>0. /\ ImmI(value) \in Int /\ ImmUI(value) \in Int /\ ImmS(value) \in Int
      /\ ImmU(value) \in Int /\ ImmB(value) \in Int /\ ImmJ(value) \in Int
  BY ImmediateType
<1>1. CASE op = 51
  <2>1. imm = 0 /\ (c = Undecoded \/ (\E k \in DOMAIN Multiply : c = Multiply[k])
                                  \/ (\E k \in DOMAIN BaseReg : c = BaseReg[k]))
    BY <1>1 DEF decode
  <2> QED
    BY <1>1, <2>1, Tables
<1>2. CASE op = 19
  <2>1. imm = ImmI(value) /\ (c = Undecoded \/ (\E k \in DOMAIN BaseImm : c = BaseImm[k])
                                            \/ (\E k \in DOMAIN ShiftImm : c = ShiftImm[k]))
    BY <1>2 DEF decode
  <2> QED
    BY <1>0, <1>2, <2>1, Tables
<1>3. CASE op = 3
  <2>1. imm = ImmI(value) /\ (c = Undecoded \/ \E k \in DOMAIN Load : c = Load[k])
    BY <1>3 DEF decode
  <2> QED
    BY <1>0, <1>3, <2>1, Tables DEF Others
<1>4. CASE op = 35
  <2>1. imm = ImmS(value) /\ (c = Undecoded \/ \E k \in DOMAIN Store : c = Store[k])
    BY <1>4 DEF decode
  <2> QED
    BY <1>0, <1>4, <2>1, Tables DEF Others
<1>5. CASE op = 99
  <2>1. imm = ImmB(value) /\ (c = Undecoded \/ \E k \in DOMAIN Branch : c = Branch[k])
    BY <1>5 DEF decode
  <2> QED
    BY <1>0, <1>5, <2>1, Tables DEF Branches
<1>6. CASE op = 111
  <2>1. imm = ImmJ(value) /\ c = "JAL"
    BY <1>6 DEF decode
  <2> QED
    BY <1>0, <1>6, <2>1 DEF Others
<1>7. CASE op = 103
  <2>1. (imm = ImmI(value) /\ c = "JALR") \/ (imm = 0 /\ c = Undecoded)
    BY <1>7 DEF decode
  <2> QED
    BY <1>0, <1>7, <2>1 DEF Others
<1>8. CASE op = 55
  <2>1. imm = ImmU(value) /\ c = "LUI"
    BY <1>8 DEF decode
  <2> QED
    BY <1>0, <1>8, <2>1 DEF Others
<1>9. CASE op = 23
  <2>1. imm = ImmU(value) /\ c = "AUIPC"
    BY <1>9 DEF decode
  <2> QED
    BY <1>0, <1>9, <2>1 DEF Others
<1>10. CASE op = 115
  <2>1. CASE f3 # 0
    <3>1. imm = ImmUI(value) /\ (c = Undecoded \/ \E k \in DOMAIN Csr : c = Csr[k])
      BY <1>10, <2>1 DEF decode
    <3> QED
      BY <1>0, <1>10, <3>1, Tables DEF Others
  <2>2. CASE f3 = 0 /\ ImmUI(value) \in DOMAIN System
    <3>1. imm = ImmUI(value) /\ \E k \in DOMAIN System : c = System[k]
      BY <1>10, <2>2 DEF decode
    <3> QED
      BY <1>0, <1>10, <3>1, Tables DEF Others
  <2>3. CASE f3 = 0 /\ ImmUI(value) \notin DOMAIN System
    <3>1. imm = 0 /\ c \in {Undecoded, "SFENCE.VMA"}
      BY <1>10, <2>3 DEF decode
    <3> QED
      BY <1>10, <3>1 DEF Others
  <2> QED
    BY <2>1, <2>2, <2>3
<1>11. CASE op = 15
  <2>1. (imm = ImmI(value) /\ c \in {"FENCE", "CBO.ZERO"}) \/ (imm = 0 /\ c = Undecoded)
    BY <1>11 DEF decode
  <2> QED
    BY <1>0, <1>11, <2>1 DEF Others
<1>12. CASE op = 47
  <2>1. imm = 0 /\ (c = Undecoded \/ \E k \in DOMAIN Atomic : c = Atomic[k])
    BY <1>12 DEF decode
  <2> QED
    BY <1>12, <2>1, Tables DEF Others
<1>13. CASE op \notin {51, 19, 3, 35, 99, 111, 103, 55, 23, 115, 15, 47}
  BY <1>13 DEF decode
<1> QED
  BY <1>1, <1>2, <1>3, <1>4, <1>5, <1>6, <1>7, <1>8, <1>9, <1>10, <1>11, <1>12, <1>13

-----------------------------------------------------------------------------
(* What the rows of the listing ask of a word.                             *)

\* A field has a value just when the word has its bits.
LEMMA FieldIs ==
  ASSUME NEW value \in SUBSET (0 .. 31), NEW l \in 0 .. 31, NEW h \in l .. 31, NEW c \in 0 .. 2^(h - l + 1) - 1
  PROVE  bitcut(value, l, h) = c <=> \A p \in l .. h : p \in value <=> Bit(c, p - l) = 1
<1> DEFINE v == bitcut(value, l, h)
           B == {i \in 0 .. 31 : i + l \in value}
<1>1. PICK n \in 0 .. 32 : n = h - l + 1
  OBVIOUS
<1>2. Has(v, n, B)
  BY <1>1, Field
<1>3. \A i \in 0 .. 31 : i \in B <=> i + l \in value
  OBVIOUS
<1> HIDE DEF v, B
<1>4. \A p \in l .. h : p - l \in 0 .. n - 1 /\ p - l \in 0 .. 31 /\ (p - l) + l = p
  BY <1>1
<1>5. \A p \in l .. h : p \in value <=> Bit(v, p - l) = 1
  BY <1>2, <1>3, <1>4 DEF Has
<1>6. ASSUME \A p \in l .. h : p \in value <=> Bit(c, p - l) = 1 PROVE v = c
  <2>1. ASSUME NEW i \in 0 .. n - 1 PROVE Bit(v, i) = 1 <=> Bit(c, i) = 1
    <3>1. PICK p \in l .. h : p - l = i
      <4>1. i + l \in l .. h /\ (i + l) - l = i
        BY <1>1
      <4> QED
        BY <4>1
    <3> QED
      BY <1>5, <1>6, <3>1
  <2>2. v \in 0 .. 2^n - 1 /\ c \in 0 .. 2^n - 1
    BY <1>1, <1>2 DEF Has
  <2> QED
    BY <2>1, <2>2, ToldByBits
<1> QED
  BY <1>5, <1>6 DEF v

\* Fields lie in the word, one beside another, and hold what they can.
Apart(fields) ==
  /\ \A f \in fields : f[1] \in 0 .. 31 /\ f[2] \in f[1] .. 31 /\ f[3] \in 0 .. 2^(f[2] - f[1] + 1) - 1
  /\ \A f, g \in fields : f = g \/ f[2] < g[1] \/ g[2] < f[1]

\* A row lists the words whose fields have its values.
LEMMA ListsFields ==
  ASSUME NEW value \in SUBSET (0 .. 31), NEW row, Apart(row.fields)
  PROVE  Lists(row, value) <=> \A f \in row.fields : bitcut(value, f[1], f[2]) = f[3]
<1> DEFINE F == row.fields
<1>0. \A f \in F : f[1] \in 0 .. 31 /\ f[2] \in f[1] .. 31 /\ f[3] \in 0 .. 2^(f[2] - f[1] + 1) - 1
  BY DEF Apart
<1>1. \A f \in F : bitcut(value, f[1], f[2]) = f[3] <=> \A p \in f[1] .. f[2] : p \in value <=> Bit(f[3], p - f[1]) = 1
  BY <1>0, FieldIs
<1>2. \A p : p \in Fixed(row) <=> \E f \in F : p \in f[1] .. f[2]
  BY DEF Fixed
<1>3. \A f \in F : \A p \in f[1] .. f[2] : p \in Ones(row) <=> Bit(f[3], p - f[1]) = 1
  <2> SUFFICES ASSUME NEW f \in F, NEW p \in f[1] .. f[2] PROVE p \in Ones(row) <=> Bit(f[3], p - f[1]) = 1
    OBVIOUS
  <2>1. ASSUME NEW g \in F, p \in g[1] .. g[2] PROVE g = f
    <3>1. f[1] \in Int /\ f[2] \in Int /\ g[1] \in Int /\ g[2] \in Int
      BY <1>0
    <3>2. ~(f[2] < g[1]) /\ ~(g[2] < f[1])
      BY <2>1, <3>1
    <3> QED
      BY <3>2 DEF Apart
  <2>2. p \in Ones(row) <=> \E g \in F : p \in g[1] .. g[2] /\ Bit(g[3], p - g[1]) = 1
    BY DEF Ones
  <2> QED
    BY <2>1, <2>2
<1>4. \A p : p \in Ones(row) => p \in Fixed(row)
  BY DEF Ones, Fixed
<1>5. Lists(row, value) <=> \A p \in Fixed(row) : p \in value <=> p \in Ones(row)
  BY <1>4 DEF Lists
<1> HIDE DEF F
<1>6. Lists(row, value) <=> \A f \in F : \A p \in f[1] .. f[2] : p \in value <=> p \in Ones(row)
  BY <1>2, <1>5
<1>7. (\A f \in F : \A p \in f[1] .. f[2] : p \in value <=> p \in Ones(row))
        <=> \A f \in F : bitcut(value, f[1], f[2]) = f[3]
  BY <1>1, <1>3
<1> QED
  BY <1>6, <1>7 DEF F

\* The fields rows have besides opcode and funct3.
Further(X) == Apart(X) /\ \A x \in X : x[1] > 14

\* The fields of the groups are such.
LEMMA FurtherFields ==
  /\ Further({})
  /\ \A k \in 0 .. 127 : Further({<<25, 31, k>>})
  /\ \A k \in 0 .. 7 : Further({<<20, 31, k>>})
  /\ \A k \in 0 .. 127, j \in 0 .. 31 : Further({<<25, 31, k>>, <<20, 24, j>>})
  /\ \A k \in 0 .. 31 : Further({<<27, 31, k>>})
<1>0. 31 - 25 + 1 = 7 /\ 31 - 20 + 1 = 12 /\ 24 - 20 + 1 = 5 /\ 31 - 27 + 1 = 5
  OBVIOUS
<1>1. 2^7 = 128 /\ 2^12 = 4096 /\ 2^5 = 32
  OBVIOUS
<1> DEFINE Fits(f) == f[1] \in 0 .. 31 /\ f[2] \in f[1] .. 31 /\ f[3] \in 0 .. 2^(f[2] - f[1] + 1) - 1 /\ f[1] > 14
<1>2. \A f : f[1] = 25 /\ f[2] = 31 /\ f[3] \in 0 .. 127 => Fits(f)
  BY <1>0, <1>1
<1>3. \A f : f[1] = 20 /\ f[2] = 31 /\ f[3] \in 0 .. 7 => Fits(f)
  BY <1>0, <1>1
<1>4. \A f : f[1] = 20 /\ f[2] = 24 /\ f[3] \in 0 .. 31 => Fits(f)
  BY <1>0, <1>1
<1>5. \A f : f[1] = 27 /\ f[2] = 31 /\ f[3] \in 0 .. 31 => Fits(f)
  BY <1>0, <1>1
<1>6. ASSUME NEW X, \A f \in X : Fits(f), \A f, g \in X : f = g \/ f[2] < g[1] \/ g[2] < f[1] PROVE Further(X)
  BY <1>6 DEF Further, Apart
<1>7. Further({})
  BY <1>6
<1>8. ASSUME NEW k \in 0 .. 127 PROVE Further({<<25, 31, k>>})
  <2>1. \A f \in {<<25, 31, k>>} : f[1] = 25 /\ f[2] = 31 /\ f[3] \in 0 .. 127
    OBVIOUS
  <2> HIDE DEF Fits
  <2> QED
    BY <1>2, <1>6, <2>1
<1>9. ASSUME NEW k \in 0 .. 7 PROVE Further({<<20, 31, k>>})
  <2>1. \A f \in {<<20, 31, k>>} : f[1] = 20 /\ f[2] = 31 /\ f[3] \in 0 .. 7
    OBVIOUS
  <2> HIDE DEF Fits
  <2> QED
    BY <1>3, <1>6, <2>1
<1>10. ASSUME NEW k \in 0 .. 31 PROVE Further({<<27, 31, k>>})
  <2>1. \A f \in {<<27, 31, k>>} : f[1] = 27 /\ f[2] = 31 /\ f[3] \in 0 .. 31
    OBVIOUS
  <2> HIDE DEF Fits
  <2> QED
    BY <1>5, <1>6, <2>1
<1>11. ASSUME NEW k \in 0 .. 127, NEW j \in 0 .. 31 PROVE Further({<<25, 31, k>>, <<20, 24, j>>})
  <2> DEFINE u == <<25, 31, k>>
             w == <<20, 24, j>>
  <2>1. u[1] = 25 /\ u[2] = 31 /\ u[3] \in 0 .. 127 /\ w[1] = 20 /\ w[2] = 24 /\ w[3] \in 0 .. 31
    OBVIOUS
  <2> HIDE DEF u, w
  <2>2. u[2] < w[1] \/ w[2] < u[1]
    BY <2>1
  <2>3. \A f, g \in {u, w} : f = g \/ f[2] < g[1] \/ g[2] < f[1]
    BY <2>2
  <2>4. \A f \in {u, w} : Fits(f)
    BY <1>2, <1>4, <2>1
  <2>5. Further({u, w})
    <3> HIDE DEF Fits
    <3> QED
      BY <1>6, <2>3, <2>4
  <2> QED
    BY <2>5 DEF u, w
<1> QED
  BY <1>7, <1>8, <1>9, <1>10, <1>11

\* A row with funct3 and further fields, and a row with neither.
LEMMA ListsRow ==
  ASSUME NEW value \in SUBSET (0 .. 31), NEW opc \in 0 .. 127, NEW n \in 0 .. 7, NEW X, Further(X), NEW place
  PROVE  /\ Lists(Row(opc, {<<12, 14, n>>} \cup X, place), value) <=>
              opcode(value) = opc /\ funct3(value) = n /\ \A x \in X : bitcut(value, x[1], x[2]) = x[3]
         /\ Lists(Row(opc, {}, place), value) <=> opcode(value) = opc
<1>0. 6 - 0 + 1 = 7 /\ 14 - 12 + 1 = 3
  OBVIOUS
<1>1. 2^7 = 128 /\ 2^3 = 8
  OBVIOUS
<1> DEFINE a == <<0, 6, opc>>
           b == <<12, 14, n>>
<1>2. a[1] = 0 /\ a[2] = 6 /\ a[3] = opc /\ b[1] = 12 /\ b[2] = 14 /\ b[3] = n
  OBVIOUS
<1> DEFINE row == Row(opc, {b} \cup X, place)
           lone == Row(opc, {}, place)
<1>3. row.fields = {a} \cup ({b} \cup X) /\ lone.fields = {a}
  BY DEF Row
<1> DEFINE Fits(f) == f[1] \in 0 .. 31 /\ f[2] \in f[1] .. 31 /\ f[3] \in 0 .. 2^(f[2] - f[1] + 1) - 1
<1>4. Fits(a) /\ Fits(b)
  <2> HIDE DEF a, b
  <2> QED
    BY <1>0, <1>1, <1>2
<1>5. \A x \in X : Fits(x) /\ x[1] > 14
  BY DEF Further, Apart
<1>6. \A f, g \in X : f = g \/ f[2] < g[1] \/ g[2] < f[1]
  BY DEF Further, Apart
<1>7. \A x \in X : x[1] \in Int /\ x[1] > 14
  BY <1>5
<1>8. (\A f \in row.fields : Fits(f)) /\ \A f \in lone.fields : Fits(f)
  <2> HIDE DEF a, b, row, lone
  <2> QED
    BY <1>3, <1>4, <1>5
<1>9. \A f, g \in row.fields : f = g \/ f[2] < g[1] \/ g[2] < f[1]
  <2> HIDE DEF a, b, row, lone, Fits
  <2> QED
    BY <1>2, <1>3, <1>6, <1>7
<1>10. Apart(row.fields) /\ Apart(lone.fields)
  BY <1>3, <1>8, <1>9 DEF Apart
<1>11. /\ Lists(row, value) <=> \A f \in row.fields : bitcut(value, f[1], f[2]) = f[3]
       /\ Lists(lone, value) <=> \A f \in lone.fields : bitcut(value, f[1], f[2]) = f[3]
  BY <1>10, ListsFields
<1>12. /\ (\A f \in row.fields : bitcut(value, f[1], f[2]) = f[3]) <=>
             bitcut(value, 0, 6) = opc /\ bitcut(value, 12, 14) = n /\ \A x \in X : bitcut(value, x[1], x[2]) = x[3]
       /\ (\A f \in lone.fields : bitcut(value, f[1], f[2]) = f[3]) <=> bitcut(value, 0, 6) = opc
  <2> HIDE DEF a, b, row, lone
  <2> QED
    BY <1>2, <1>3
<1> QED
  BY <1>11, <1>12 DEF opcode, funct3

\* The rows of a group.
GroupRows(g) == ByFunct3(g[1], g[2], g[3], g[4])

AtomicRows == {<<n[2], Row(47, {<<12, 14, 2>>, <<27, 31, n[1]>>}, NoPlace)>> : n \in Atomics}

\* Each row is of the group its name is of.
LEMMA RowsByName ==
  ASSUME NEW p \in Rows
  PROVE  \/ \E g \in Groups : p \in GroupRows(g) /\ p[1] \in {n[2] : n \in g[2]}
         \/ p \in AtomicRows /\ p[1] \in {n[2] : n \in Atomics}
         \/ p = <<"JAL", Row(111, {}, PlaceJ)>>
         \/ p = <<"LUI", Row(55, {}, PlaceU)>>
         \/ p = <<"AUIPC", Row(23, {}, PlaceU)>>
<1>0. \A x, y : <<x, y>>[1] = x
  OBVIOUS
<1>1. ASSUME NEW g, p \in GroupRows(g) PROVE p[1] \in {n[2] : n \in g[2]}
  <2>1. PICK n \in g[2] : p = <<n[2], Row(g[1], {<<12, 14, n[1]>>} \cup g[3], g[4])>>
    BY <1>1 DEF GroupRows, ByFunct3
  <2>2. p[1] = n[2]
    BY <1>0, <2>1
  <2> QED
    BY <2>2
<1>2. ASSUME p \in AtomicRows PROVE p[1] \in {n[2] : n \in Atomics}
  <2>1. PICK n \in Atomics : p = <<n[2], Row(47, {<<12, 14, 2>>, <<27, 31, n[1]>>}, NoPlace)>>
    BY <1>2 DEF AtomicRows
  <2>2. p[1] = n[2]
    BY <1>0, <2>1
  <2> QED
    BY <2>2
<1>3. Rows = (UNION {GroupRows(g) : g \in Groups}) \cup AtomicRows
             \cup {<<"JAL", Row(111, {}, PlaceJ)>>, <<"LUI", Row(55, {}, PlaceU)>>, <<"AUIPC", Row(23, {}, PlaceU)>>}
  BY DEF Rows, GroupRows, AtomicRows
<1>4. \/ \E g \in Groups : p \in GroupRows(g)
      \/ p \in AtomicRows
      \/ p = <<"JAL", Row(111, {}, PlaceJ)>>
      \/ p = <<"LUI", Row(55, {}, PlaceU)>>
      \/ p = <<"AUIPC", Row(23, {}, PlaceU)>>
  BY <1>3
<1> QED
  BY <1>1, <1>2, <1>4

\* No name is twice in the listing.
LEMMA NamesApart ==
  ASSUME NEW g \in Groups, NEW m \in g[2], NEW h \in Groups, NEW n \in h[2], m[2] = n[2]
  PROVE  g = h /\ m = n
<1>1. CASE g = <<51, {<<0, "ADD">>, <<1, "SLL">>, <<2, "SLT">>, <<3, "SLTU">>, <<4, "XOR">>, <<5, "SRL">>, <<6, "OR">>, <<7, "AND">>}, {<<25, 31, 0>>}, NoPlace>>
  <2>1. n[2] \in {"ADD", "SLL", "SLT", "SLTU", "XOR", "SRL", "OR", "AND"}
    BY <1>1
  <2>2. h = <<51, {<<0, "ADD">>, <<1, "SLL">>, <<2, "SLT">>, <<3, "SLTU">>, <<4, "XOR">>, <<5, "SRL">>, <<6, "OR">>, <<7, "AND">>}, {<<25, 31, 0>>}, NoPlace>>
    BY <2>1 DEF Groups
  <2> QED
    BY <1>1, <2>2
<1>2. CASE g = <<51, {<<0, "SUB">>, <<5, "SRA">>}, {<<25, 31, 32>>}, NoPlace>>
  <2>1. n[2] \in {"SUB", "SRA"}
    BY <1>2
  <2>2. h = <<51, {<<0, "SUB">>, <<5, "SRA">>}, {<<25, 31, 32>>}, NoPlace>>
    BY <2>1 DEF Groups
  <2> QED
    BY <1>2, <2>2
<1>3. CASE g = <<51, {<<0, "MUL">>, <<1, "MULH">>, <<2, "MULHSU">>, <<3, "MULHU">>, <<4, "DIV">>, <<5, "DIVU">>, <<6, "REM">>, <<7, "REMU">>}, {<<25, 31, 1>>}, NoPlace>>
  <2>1. n[2] \in {"MUL", "MULH", "MULHSU", "MULHU", "DIV", "DIVU", "REM", "REMU"}
    BY <1>3
  <2>2. h = <<51, {<<0, "MUL">>, <<1, "MULH">>, <<2, "MULHSU">>, <<3, "MULHU">>, <<4, "DIV">>, <<5, "DIVU">>, <<6, "REM">>, <<7, "REMU">>}, {<<25, 31, 1>>}, NoPlace>>
    BY <2>1 DEF Groups
  <2> QED
    BY <1>3, <2>2
<1>4. CASE g = <<19, {<<0, "ADDI">>, <<2, "SLTI">>, <<3, "SLTIU">>, <<4, "XORI">>, <<6, "ORI">>, <<7, "ANDI">>}, {}, PlaceI>>
  <2>1. n[2] \in {"ADDI", "SLTI", "SLTIU", "XORI", "ORI", "ANDI"}
    BY <1>4
  <2>2. h = <<19, {<<0, "ADDI">>, <<2, "SLTI">>, <<3, "SLTIU">>, <<4, "XORI">>, <<6, "ORI">>, <<7, "ANDI">>}, {}, PlaceI>>
    BY <2>1 DEF Groups
  <2> QED
    BY <1>4, <2>2
<1>5. CASE g = <<19, {<<1, "SLLI">>, <<5, "SRLI">>}, {<<25, 31, 0>>}, PlaceI>>
  <2>1. n[2] \in {"SLLI", "SRLI"}
    BY <1>5
  <2>2. h = <<19, {<<1, "SLLI">>, <<5, "SRLI">>}, {<<25, 31, 0>>}, PlaceI>>
    BY <2>1 DEF Groups
  <2> QED
    BY <1>5, <2>2
<1>6. CASE g = <<19, {<<5, "SRAI">>}, {<<25, 31, 32>>}, PlaceI>>
  <2>1. n[2] \in {"SRAI"}
    BY <1>6
  <2>2. h = <<19, {<<5, "SRAI">>}, {<<25, 31, 32>>}, PlaceI>>
    BY <2>1 DEF Groups
  <2> QED
    BY <1>6, <2>2
<1>7. CASE g = <<3, {<<0, "LB">>, <<1, "LH">>, <<2, "LW">>, <<4, "LBU">>, <<5, "LHU">>}, {}, PlaceI>>
  <2>1. n[2] \in {"LB", "LH", "LW", "LBU", "LHU"}
    BY <1>7
  <2>2. h = <<3, {<<0, "LB">>, <<1, "LH">>, <<2, "LW">>, <<4, "LBU">>, <<5, "LHU">>}, {}, PlaceI>>
    BY <2>1 DEF Groups
  <2> QED
    BY <1>7, <2>2
<1>8. CASE g = <<35, {<<0, "SB">>, <<1, "SH">>, <<2, "SW">>}, {}, PlaceS>>
  <2>1. n[2] \in {"SB", "SH", "SW"}
    BY <1>8
  <2>2. h = <<35, {<<0, "SB">>, <<1, "SH">>, <<2, "SW">>}, {}, PlaceS>>
    BY <2>1 DEF Groups
  <2> QED
    BY <1>8, <2>2
<1>9. CASE g = <<99, {<<0, "BEQ">>, <<1, "BNE">>, <<4, "BLT">>, <<5, "BGE">>, <<6, "BLTU">>, <<7, "BGEU">>}, {}, PlaceB>>
  <2>1. n[2] \in {"BEQ", "BNE", "BLT", "BGE", "BLTU", "BGEU"}
    BY <1>9
  <2>2. h = <<99, {<<0, "BEQ">>, <<1, "BNE">>, <<4, "BLT">>, <<5, "BGE">>, <<6, "BLTU">>, <<7, "BGEU">>}, {}, PlaceB>>
    BY <2>1 DEF Groups
  <2> QED
    BY <1>9, <2>2
<1>10. CASE g = <<103, {<<0, "JALR">>}, {}, PlaceI>>
  <2>1. n[2] \in {"JALR"}
    BY <1>10
  <2>2. h = <<103, {<<0, "JALR">>}, {}, PlaceI>>
    BY <2>1 DEF Groups
  <2> QED
    BY <1>10, <2>2
<1>11. CASE g = <<15, {<<0, "FENCE">>, <<1, "FENCE.I">>}, {}, NoPlace>>
  <2>1. n[2] \in {"FENCE", "FENCE.I"}
    BY <1>11
  <2>2. h = <<15, {<<0, "FENCE">>, <<1, "FENCE.I">>}, {}, NoPlace>>
    BY <2>1 DEF Groups
  <2> QED
    BY <1>11, <2>2
<1>12. CASE g = <<15, {<<2, "CBO.ZERO">>}, {<<20, 31, 4>>}, PlaceI>>
  <2>1. n[2] \in {"CBO.ZERO"}
    BY <1>12
  <2>2. h = <<15, {<<2, "CBO.ZERO">>}, {<<20, 31, 4>>}, PlaceI>>
    BY <2>1 DEF Groups
  <2> QED
    BY <1>12, <2>2
<1>13. CASE g = <<115, {<<0, "ECALL">>}, {<<20, 31, 0>>}, PlaceI>>
  <2>1. n[2] \in {"ECALL"}
    BY <1>13
  <2>2. h = <<115, {<<0, "ECALL">>}, {<<20, 31, 0>>}, PlaceI>>
    BY <2>1 DEF Groups
  <2> QED
    BY <1>13, <2>2
<1>14. CASE g = <<115, {<<0, "EBREAK">>}, {<<20, 31, 1>>}, PlaceI>>
  <2>1. n[2] \in {"EBREAK"}
    BY <1>14
  <2>2. h = <<115, {<<0, "EBREAK">>}, {<<20, 31, 1>>}, PlaceI>>
    BY <2>1 DEF Groups
  <2> QED
    BY <1>14, <2>2
<1>15. CASE g = <<115, {<<0, "SRET">>}, {<<25, 31, 8>>, <<20, 24, 2>>}, PlaceI>>
  <2>1. n[2] \in {"SRET"}
    BY <1>15
  <2>2. h = <<115, {<<0, "SRET">>}, {<<25, 31, 8>>, <<20, 24, 2>>}, PlaceI>>
    BY <2>1 DEF Groups
  <2> QED
    BY <1>15, <2>2
<1>16. CASE g = <<115, {<<0, "MRET">>}, {<<25, 31, 24>>, <<20, 24, 2>>}, PlaceI>>
  <2>1. n[2] \in {"MRET"}
    BY <1>16
  <2>2. h = <<115, {<<0, "MRET">>}, {<<25, 31, 24>>, <<20, 24, 2>>}, PlaceI>>
    BY <2>1 DEF Groups
  <2> QED
    BY <1>16, <2>2
<1>17. CASE g = <<115, {<<0, "WFI">>}, {<<25, 31, 8>>, <<20, 24, 5>>}, PlaceI>>
  <2>1. n[2] \in {"WFI"}
    BY <1>17
  <2>2. h = <<115, {<<0, "WFI">>}, {<<25, 31, 8>>, <<20, 24, 5>>}, PlaceI>>
    BY <2>1 DEF Groups
  <2> QED
    BY <1>17, <2>2
<1>18. CASE g = <<115, {<<0, "SFENCE.VMA">>}, {<<25, 31, 9>>}, NoPlace>>
  <2>1. n[2] \in {"SFENCE.VMA"}
    BY <1>18
  <2>2. h = <<115, {<<0, "SFENCE.VMA">>}, {<<25, 31, 9>>}, NoPlace>>
    BY <2>1 DEF Groups
  <2> QED
    BY <1>18, <2>2
<1>19. CASE g = <<115, {<<1, "CSRRW">>, <<2, "CSRRS">>, <<3, "CSRRC">>, <<5, "CSRRWI">>, <<6, "CSRRSI">>, <<7, "CSRRCI">>}, {}, PlaceI>>
  <2>1. n[2] \in {"CSRRW", "CSRRS", "CSRRC", "CSRRWI", "CSRRSI", "CSRRCI"}
    BY <1>19
  <2>2. h = <<115, {<<1, "CSRRW">>, <<2, "CSRRS">>, <<3, "CSRRC">>, <<5, "CSRRWI">>, <<6, "CSRRSI">>, <<7, "CSRRCI">>}, {}, PlaceI>>
    BY <2>1 DEF Groups
  <2> QED
    BY <1>19, <2>2
<1> QED
  BY <1>1, <1>2, <1>3, <1>4, <1>5, <1>6, <1>7, <1>8, <1>9, <1>10, <1>11, <1>12, <1>13, <1>14, <1>15, <1>16, <1>17, <1>18, <1>19 DEF Groups

\* Opcodes, functs and the other fields of the groups are what such fields hold.
LEMMA GroupFields ==
  ASSUME NEW g \in Groups
  PROVE  g[1] \in 0 .. 127 /\ Further(g[3]) /\ \A n \in g[2] : n[1] \in 0 .. 7
<1>1. /\ \A k \in {0, 1, 9, 32, 8, 24} : k \in 0 .. 127
      /\ \A k \in {0, 1, 4} : k \in 0 .. 7
      /\ 2 \in 0 .. 31 /\ 5 \in 0 .. 31
  OBVIOUS
<1>2. /\ Further({})
      /\ \A k \in {0, 1, 9, 32} : Further({<<25, 31, k>>})
      /\ \A k \in {0, 1, 4} : Further({<<20, 31, k>>})
      /\ \A k \in {8, 24}, j \in {2, 5} : Further({<<25, 31, k>>, <<20, 24, j>>})
  BY <1>1, FurtherFields
<1>3. \/ g[3] = {}
      \/ \E k \in {0, 1, 9, 32} : g[3] = {<<25, 31, k>>}
      \/ \E k \in {0, 1, 4} : g[3] = {<<20, 31, k>>}
      \/ \E k \in {8, 24}, j \in {2, 5} : g[3] = {<<25, 31, k>>, <<20, 24, j>>}
  BY DEF Groups
<1>4. Further(g[3])
  BY <1>2, <1>3, Zenon
<1>5. g[1] \in 0 .. 127 /\ \A n \in g[2] : n[1] \in 0 .. 7
  BY DEF Groups
<1> QED
  BY <1>4, <1>5

\* A table has the value of the one pair that has the argument.
LEMMA TableOf ==
  ASSUME NEW pairs, NEW p \in pairs, \A q \in pairs : q[1] = p[1] => q = p
  PROVE  p[1] \in DOMAIN Table(pairs) /\ Table(pairs)[p[1]] = p[2]
<1>1. p[1] \in {q[1] : q \in pairs}
  OBVIOUS
<1>2. (CHOOSE q \in pairs : q[1] = p[1]) = p
  OBVIOUS
<1> QED
  BY <1>1, <1>2 DEF Table

\* No atomic instruction, nor any of the three without funct3, is in a group.
LEMMA NamesElsewhere ==
  ASSUME NEW g \in Groups, NEW n \in g[2]
  PROVE  (\A m \in Atomics : m[2] # n[2]) /\ n[2] \notin {"JAL", "LUI", "AUIPC"}
<1>1. ASSUME n[2] \in {"JAL", "LUI", "AUIPC"} PROVE FALSE
  BY <1>1 DEF Groups
<1>2. ASSUME n[2] \in {"AMOADD", "AMOSWAP", "LR", "SC", "AMOXOR", "AMOOR", "AMOAND", "AMOMIN", "AMOMAX", "AMOMINU", "AMOMAXU"}
      PROVE  FALSE
  BY <1>2 DEF Groups
<1>3. \A m \in Atomics : m[2] \in {"AMOADD", "AMOSWAP", "LR", "SC", "AMOXOR", "AMOOR", "AMOAND", "AMOMIN", "AMOMAX", "AMOMINU", "AMOMAXU"}
  BY DEF Atomics
<1> QED
  BY <1>1, <1>2, <1>3

\* The row a name of a group has.
LEMMA ListingOf ==
  ASSUME NEW g \in Groups, NEW n \in g[2]
  PROVE  n[2] \in DOMAIN Listing /\ Listing[n[2]] = Row(g[1], {<<12, 14, n[1]>>} \cup g[3], g[4])
<1>0. \A x, y : <<x, y>>[1] = x /\ <<x, y>>[2] = y
  OBVIOUS
<1> DEFINE row == Row(g[1], {<<12, 14, n[1]>>} \cup g[3], g[4])
           p == <<n[2], row>>
<1>1. p \in Rows
  BY DEF Rows, ByFunct3
<1>2. p[1] = n[2] /\ p[2] = row
  BY <1>0
<1>3. ASSUME NEW q \in Rows, q[1] = n[2] PROVE q = p
  <2>1. CASE \E h \in Groups : q \in GroupRows(h)
    <3>1. PICK h \in Groups : q \in GroupRows(h)
      BY <2>1
    <3>2. PICK m \in h[2] : q = <<m[2], Row(h[1], {<<12, 14, m[1]>>} \cup h[3], h[4])>>
      BY <3>1 DEF GroupRows, ByFunct3
    <3>3. m[2] = n[2]
      BY <1>0, <1>3, <3>2
    <3>4. g = h /\ m = n
      BY <3>3, NamesApart
    <3> QED
      BY <3>2, <3>4
  <2>2. ~(q[1] \in {m[2] : m \in Atomics})
    BY <1>3, NamesElsewhere
  <2>3. q # <<"JAL", Row(111, {}, PlaceJ)>> /\ q # <<"LUI", Row(55, {}, PlaceU)>> /\ q # <<"AUIPC", Row(23, {}, PlaceU)>>
    <3>1. q[1] \notin {"JAL", "LUI", "AUIPC"}
      BY <1>3, NamesElsewhere
    <3> QED
      BY <1>0, <3>1
  <2> QED
    BY <2>1, <2>2, <2>3, RowsByName
<1> HIDE DEF p, row
<1>4. p[1] \in DOMAIN Table(Rows) /\ Table(Rows)[p[1]] = p[2]
  BY <1>1, <1>2, <1>3, TableOf
<1> QED
  BY <1>2, <1>4 DEF Listing, row

\* The row of an atomic instruction.
LEMMA AtomicListing ==
  ASSUME NEW n \in Atomics
  PROVE  n[2] \in DOMAIN Listing /\ Listing[n[2]] = Row(47, {<<12, 14, 2>>, <<27, 31, n[1]>>}, NoPlace)
<1>0. \A x, y : <<x, y>>[1] = x /\ <<x, y>>[2] = y
  OBVIOUS
<1> DEFINE row == Row(47, {<<12, 14, 2>>, <<27, 31, n[1]>>}, NoPlace)
           p == <<n[2], row>>
<1>1. p \in Rows
  BY DEF Rows
<1>2. p[1] = n[2] /\ p[2] = row
  BY <1>0
<1>3. ASSUME NEW q \in Rows, q[1] = n[2] PROVE q = p
  <2>1. CASE q \in AtomicRows
    <3>1. PICK m \in Atomics : q = <<m[2], Row(47, {<<12, 14, 2>>, <<27, 31, m[1]>>}, NoPlace)>>
      BY <2>1 DEF AtomicRows
    <3>2. m[2] = n[2]
      BY <1>0, <1>3, <3>1
    <3>3. m = n
      BY <3>2 DEF Atomics
    <3> QED
      BY <3>1, <3>3
  <2>2. ~\E g \in Groups : q[1] \in {m[2] : m \in g[2]}
    BY <1>3, NamesElsewhere
  <2>3. q # <<"JAL", Row(111, {}, PlaceJ)>> /\ q # <<"LUI", Row(55, {}, PlaceU)>> /\ q # <<"AUIPC", Row(23, {}, PlaceU)>>
    <3>1. q[1] \notin {"JAL", "LUI", "AUIPC"}
      BY <1>3 DEF Atomics
    <3> QED
      BY <1>0, <3>1
  <2> QED
    BY <2>1, <2>2, <2>3, RowsByName
<1> HIDE DEF p, row
<1>4. p[1] \in DOMAIN Table(Rows) /\ Table(Rows)[p[1]] = p[2]
  BY <1>1, <1>2, <1>3, TableOf
<1> QED
  BY <1>2, <1>4 DEF Listing, row

\* The rows of the instructions without funct3.
LEMMA LoneListing ==
  /\ "JAL" \in DOMAIN Listing /\ Listing["JAL"] = Row(111, {}, PlaceJ)
  /\ "LUI" \in DOMAIN Listing /\ Listing["LUI"] = Row(55, {}, PlaceU)
  /\ "AUIPC" \in DOMAIN Listing /\ Listing["AUIPC"] = Row(23, {}, PlaceU)
<1>0. \A x, y : <<x, y>>[1] = x /\ <<x, y>>[2] = y
  OBVIOUS
<1> DEFINE jal == <<"JAL", Row(111, {}, PlaceJ)>>
           lui == <<"LUI", Row(55, {}, PlaceU)>>
           auipc == <<"AUIPC", Row(23, {}, PlaceU)>>
           lone == {jal, lui, auipc}
<1>2. /\ jal[1] = "JAL" /\ lui[1] = "LUI" /\ auipc[1] = "AUIPC"
      /\ jal[2] = Row(111, {}, PlaceJ) /\ lui[2] = Row(55, {}, PlaceU) /\ auipc[2] = Row(23, {}, PlaceU)
  BY <1>0
<1>3. lone \subseteq Rows /\ \A p \in Rows : p \in lone \/ (\E g \in Groups : p[1] \in {m[2] : m \in g[2]}) \/ p[1] \in {m[2] : m \in Atomics}
  <2>1. lone \subseteq Rows
    BY DEF Rows
  <2> QED
    BY <2>1, RowsByName
<1> HIDE DEF jal, lui, auipc
<1>1. ASSUME NEW p \in lone PROVE p[1] \in DOMAIN Listing /\ Listing[p[1]] = p[2]
  <2>1. p \in Rows
    BY <1>3
  <2>2. p[1] \in {"JAL", "LUI", "AUIPC"}
    BY <1>2
  <2>3. \A q \in lone : q[1] = p[1] => q = p
    BY <1>2
  <2>4. ASSUME NEW q \in Rows, q[1] = p[1] PROVE q = p
    <3>1. ~\E g \in Groups : q[1] \in {m[2] : m \in g[2]}
      BY <2>2, <2>4, NamesElsewhere
    <3>2. q[1] \notin {m[2] : m \in Atomics}
      BY <2>2, <2>4 DEF Atomics
    <3>3. q \in lone
      BY <1>3, <3>1, <3>2
    <3> QED
      BY <2>3, <2>4, <3>3
  <2>5. p[1] \in DOMAIN Table(Rows) /\ Table(Rows)[p[1]] = p[2]
    BY <2>1, <2>4, TableOf
  <2> QED
    BY <2>5 DEF Listing
<1> QED
  BY <1>1, <1>2

\* Every name of the listing is in a group, or atomic, or one of the three.
LEMMA ListedNames ==
  ASSUME NEW c \in DOMAIN Listing
  PROVE  (\E g \in Groups : \E n \in g[2] : c = n[2]) \/ (\E n \in Atomics : c = n[2]) \/ c \in {"JAL", "LUI", "AUIPC"}
<1>0. \A x, y : <<x, y>>[1] = x
  OBVIOUS
<1>1. PICK p \in Rows : c = p[1]
  BY DEF Listing, Table
<1> QED
  BY <1>0, <1>1, RowsByName

\* The twelve bits on top are funct7 and rs2.
LEMMA TopSplit ==
  ASSUME NEW value \in SUBSET (0 .. 31)
  PROVE  /\ bitcut(value, 20, 31) = funct7(value) * 32 + bitcut(value, 20, 24)
         /\ funct7(value) \in 0 .. 127 /\ bitcut(value, 20, 24) \in 0 .. 31
<1> DEFINE A == {i \in 0 .. 31 : i + 25 \in value}
           B == {i \in 0 .. 31 : i + 20 \in value}
<1>1. PICK v : v = bitcut(value, 20, 31)
  OBVIOUS
<1>2. PICK a : a = bitcut(value, 25, 31)
  OBVIOUS
<1>3. PICK b : b = bitcut(value, 20, 24)
  OBVIOUS
<1>4. /\ 20 \in 0 .. 31 /\ 25 \in 0 .. 31 /\ 31 \in 20 .. 31 /\ 31 \in 25 .. 31 /\ 24 \in 20 .. 31
      /\ 31 - 20 + 1 = 12 /\ 31 - 25 + 1 = 7 /\ 24 - 20 + 1 = 5
  OBVIOUS
<1>5. Has(v, 12, B)
  BY <1>1, <1>4, Field
<1>6. Has(a, 7, A)
  BY <1>2, <1>4, Field
<1>7. Has(b, 5, B)
  BY <1>3, <1>4, Field
<1>8. \A i \in 0 .. 31 : i < 12 => (i < 5 => (i \in B <=> i \in B)) /\ (5 <= i => (i \in B <=> i - 5 \in A))
  <2> TAKE i \in 0 .. 31
  <2>1. 5 <= i => i - 5 \in 0 .. 31 /\ (i - 5) + 25 = i + 20
    OBVIOUS
  <2> QED
    BY <2>1
<1> HIDE DEF A, B
<1>9. 12 \in 0 .. 32 /\ 7 \in Nat /\ 5 \in Nat /\ 12 = 7 + 5 /\ 32 = 2^5
  OBVIOUS
<1>10. PICK w : w = a * 32 + b
  OBVIOUS
<1>11. Has(w, 12, B)
  BY <1>6, <1>7, <1>8, <1>9, <1>10, Appended
<1>12. v = w
  <2>1. \A i \in 0 .. 12 - 1 : Bit(v, i) = 1 <=> Bit(w, i) = 1
    BY <1>5, <1>11 DEF Has
  <2>2. v \in 0 .. 2^12 - 1 /\ w \in 0 .. 2^12 - 1
    BY <1>5, <1>11 DEF Has
  <2> QED
    BY <1>9, <2>1, <2>2, ToldByBits
<1>13. a \in 0 .. 127 /\ b \in 0 .. 31
  <2>1. 2^7 = 128 /\ 2^5 = 32
    OBVIOUS
  <2> QED
    BY <1>6, <1>7, <2>1 DEF Has
<1> QED
  BY <1>1, <1>2, <1>3, <1>10, <1>12, <1>13 DEF funct7

-----------------------------------------------------------------------------
(* The words each row lists, in the terms of decode.                       *)

\* In a group: opcode, funct3 and the fields of the group.
LEMMA GroupLists ==
  ASSUME NEW value \in SUBSET (0 .. 31), NEW g \in Groups, NEW n \in g[2]
  PROVE  Lists(Listing[n[2]], value) <=>
           opcode(value) = g[1] /\ funct3(value) = n[1] /\ \A x \in g[3] : bitcut(value, x[1], x[2]) = x[3]
<1>1. g[1] \in 0 .. 127 /\ Further(g[3]) /\ n[1] \in 0 .. 7
  BY GroupFields
<1>2. Listing[n[2]] = Row(g[1], {<<12, 14, n[1]>>} \cup g[3], g[4])
  BY ListingOf
<1>3. PICK X : X = g[3] /\ Further(X)
  BY <1>1
<1>4. PICK opc \in 0 .. 127 : opc = g[1]
  BY <1>1
<1>5. PICK k \in 0 .. 7 : k = n[1]
  BY <1>1
<1>6. PICK place : place = g[4]
  OBVIOUS
<1>7. Lists(Row(opc, {<<12, 14, k>>} \cup X, place), value) <=>
        opcode(value) = opc /\ funct3(value) = k /\ \A x \in X : bitcut(value, x[1], x[2]) = x[3]
  <2>1. Further(X)
    BY <1>3
  <2> QED
    BY <2>1, ListsRow
<1>8. Listing[n[2]] = Row(opc, {<<12, 14, k>>} \cup X, place)
  BY <1>2, <1>3, <1>4, <1>5, <1>6
<1> QED
  BY <1>3, <1>4, <1>5, <1>7, <1>8

\* Atomic instructions: opcode, width and operation.
LEMMA AtomicLists ==
  ASSUME NEW value \in SUBSET (0 .. 31), NEW n \in Atomics
  PROVE  Lists(Listing[n[2]], value) <=> opcode(value) = 47 /\ funct3(value) = 2 /\ funct5(value) = n[1]
<1>1. n[1] \in 0 .. 31 /\ 47 \in 0 .. 127 /\ 2 \in 0 .. 7
  BY DEF Atomics
<1> DEFINE f == <<27, 31, n[1]>>
           X == {f}
<1>2. Further(X)
  BY <1>1, FurtherFields
<1>3. f[1] = 27 /\ f[2] = 31 /\ f[3] = n[1]
  OBVIOUS
<1>4. Listing[n[2]] = Row(47, {<<12, 14, 2>>} \cup X, NoPlace)
  <2>1. {<<12, 14, 2>>, f} = {<<12, 14, 2>>} \cup X
    OBVIOUS
  <2> QED
    BY <2>1, AtomicListing
<1> HIDE DEF f
<1>5. Lists(Row(47, {<<12, 14, 2>>} \cup X, NoPlace), value) <=>
        opcode(value) = 47 /\ funct3(value) = 2 /\ \A x \in X : bitcut(value, x[1], x[2]) = x[3]
  <2> HIDE DEF X
  <2> QED
    BY <1>1, <1>2, ListsRow
<1> QED
  BY <1>3, <1>4, <1>5 DEF funct5

\* The three without funct3: the opcode alone.
LEMMA LoneLists ==
  ASSUME NEW value \in SUBSET (0 .. 31)
  PROVE  /\ Lists(Listing["JAL"], value) <=> opcode(value) = 111
         /\ Lists(Listing["LUI"], value) <=> opcode(value) = 55
         /\ Lists(Listing["AUIPC"], value) <=> opcode(value) = 23
<1>1. ASSUME NEW opc \in 0 .. 127, NEW place PROVE Lists(Row(opc, {}, place), value) <=> opcode(value) = opc
  <2>1. PICK X : X = {} /\ Further(X)
    BY FurtherFields
  <2>2. PICK k \in 0 .. 7 : k = 0
    OBVIOUS
  <2> QED
    BY <2>1, ListsRow
<1>2. 111 \in 0 .. 127 /\ 55 \in 0 .. 127 /\ 23 \in 0 .. 127
  OBVIOUS
<1> QED
  BY <1>1, <1>2, LoneListing

-----------------------------------------------------------------------------
(* A row that is right for a word and its immediate.                       *)

Tells(c, value, imm) ==
  /\ c \in DOMAIN Listing /\ Lists(Listing[c], value)
  /\ Listing[c].place # NoPlace => Carries(Listing[c], value, imm)
  /\ Listing[c].place # NoPlace /\ c \notin Range(Csr) => (imm < 0) = (31 \in value)

\* The immediate of a row is the one it was given.
LEMMA PlaceOf == \A opc, fields, place : Row(opc, fields, place).place = place
BY DEF Row

\* A row of a group is right if the immediate is of its format; a CSR number
\* has no sign, and one below 2^11 shows none.
LEMMA GroupTells ==
  ASSUME NEW value \in SUBSET (0 .. 31), NEW g \in Groups, NEW n \in g[2], NEW imm,
         opcode(value) = g[1], funct3(value) = n[1], \A x \in g[3] : bitcut(value, x[1], x[2]) = x[3],
         \/ g[4] = NoPlace
         \/ g[4] = PlaceI /\ imm = ImmI(value)
         \/ g[4] = PlaceI /\ imm = ImmUI(value) /\ (n[2] \in Range(Csr) \/ ImmUI(value) < 2^11)
         \/ g[4] = PlaceS /\ imm = ImmS(value)
         \/ g[4] = PlaceB /\ imm = ImmB(value)
  PROVE  Tells(n[2], value, imm)
<1> DEFINE row == Listing[n[2]]
<1>1. n[2] \in DOMAIN Listing /\ row.place = g[4]
  <2>1. n[2] \in DOMAIN Listing /\ row = Row(g[1], {<<12, 14, n[1]>>} \cup g[3], g[4])
    BY ListingOf
  <2>2. Row(g[1], {<<12, 14, n[1]>>} \cup g[3], g[4]).place = g[4]
    BY DEF Row
  <2> QED
    BY <2>1, <2>2
<1>2. Lists(row, value)
  BY GroupLists
<1> HIDE DEF row
<1>3. CASE g[4] = NoPlace
  BY <1>1, <1>2, <1>3 DEF Tells, row
<1>4. PICK v : v = bitcut(value, 20, 31)
  OBVIOUS
<1>5. CASE g[4] = PlaceI /\ imm = ImmI(value)
  <2>1. Carries(row, value, imm) /\ (imm < 0) = (31 \in value)
    BY <1>1, <1>4, <1>5, CarriedI, TopTwelve
  <2> QED
    BY <1>1, <1>2, <2>1 DEF Tells, row
<1>6. CASE g[4] = PlaceI /\ imm = ImmUI(value) /\ (n[2] \in Range(Csr) \/ ImmUI(value) < 2^11)
  <2>1. Carries(row, value, imm)
    BY <1>1, <1>6, CarriedI
  <2>2. imm \in Nat /\ (31 \in value <=> imm >= 2^11)
    BY <1>4, <1>6, TopTwelve
  <2>3. ~(imm < 0)
    BY <2>2
  <2>4. n[2] \in Range(Csr) \/ (imm < 0) = (31 \in value)
    BY <1>6, <2>2, <2>3
  <2> QED
    BY <1>1, <1>2, <2>1, <2>4 DEF Tells, row
<1>7. CASE g[4] = PlaceS /\ imm = ImmS(value)
  <2>1. Carries(row, value, imm) /\ (imm < 0) = (31 \in value)
    BY <1>1, <1>7, CarriedS
  <2> QED
    BY <1>1, <1>2, <2>1 DEF Tells, row
<1>8. CASE g[4] = PlaceB /\ imm = ImmB(value)
  <2>1. Carries(row, value, imm) /\ (imm < 0) = (31 \in value)
    BY <1>1, <1>8, CarriedB
  <2> QED
    BY <1>1, <1>2, <2>1 DEF Tells, row
<1> QED
  BY <1>3, <1>5, <1>6, <1>7, <1>8

\* So is the row of the instructions of no group.
LEMMA OthersTell ==
  ASSUME NEW value \in SUBSET (0 .. 31)
  PROVE  /\ opcode(value) = 111 => Tells("JAL", value, ImmJ(value))
         /\ opcode(value) = 55 => Tells("LUI", value, ImmU(value))
         /\ opcode(value) = 23 => Tells("AUIPC", value, ImmU(value))
         /\ \A n \in Atomics : \A imm : opcode(value) = 47 /\ funct3(value) = 2 /\ funct5(value) = n[1] => Tells(n[2], value, imm)
<1>1. Listing["JAL"].place = PlaceJ /\ Listing["LUI"].place = PlaceU /\ Listing["AUIPC"].place = PlaceU
  BY LoneListing, PlaceOf
<1>2. ASSUME opcode(value) = 111 PROVE Tells("JAL", value, ImmJ(value))
  BY <1>1, <1>2, LoneListing, LoneLists, CarriedJ DEF Tells
<1>3. ASSUME opcode(value) = 55 PROVE Tells("LUI", value, ImmU(value))
  BY <1>1, <1>3, LoneListing, LoneLists, CarriedU DEF Tells
<1>4. ASSUME opcode(value) = 23 PROVE Tells("AUIPC", value, ImmU(value))
  BY <1>1, <1>4, LoneListing, LoneLists, CarriedU DEF Tells
<1>5. ASSUME NEW n \in Atomics, NEW imm, opcode(value) = 47, funct3(value) = 2, funct5(value) = n[1]
      PROVE  Tells(n[2], value, imm)
  <2>1. n[2] \in DOMAIN Listing /\ Listing[n[2]].place = NoPlace
    <3>1. n[2] \in DOMAIN Listing /\ Listing[n[2]] = Row(47, {<<12, 14, 2>>, <<27, 31, n[1]>>}, NoPlace)
      BY AtomicListing
    <3>2. Row(47, {<<12, 14, 2>>, <<27, 31, n[1]>>}, NoPlace).place = NoPlace
      BY DEF Row
    <3> QED
      BY <3>1, <3>2
  <2>2. Lists(Listing[n[2]], value)
    BY <1>5, AtomicLists
  <2> QED
    BY <2>1, <2>2 DEF Tells
<1> QED
  BY <1>2, <1>3, <1>4, <1>5

\* What a table has for an argument is one of its pairs.
LEMMA TableEntry ==
  ASSUME NEW pairs, NEW k \in DOMAIN Table(pairs)
  PROVE  \E p \in pairs : p[1] = k /\ p[2] = Table(pairs)[k]
BY DEF Table

\* A group by its parts.
LEMMA GroupOf ==
  ASSUME NEW opc, NEW names, NEW fields, NEW place, <<opc, names, fields, place>> \in Groups
  PROVE  \E g \in Groups : g[1] = opc /\ g[2] = names /\ g[3] = fields /\ g[4] = place
<1> DEFINE h == <<opc, names, fields, place>>
<1>1. h[1] = opc /\ h[2] = names /\ h[3] = fields /\ h[4] = place
  OBVIOUS
<1> QED
  BY <1>1

\* A word that is decoded is listed under its class, with its immediate.
LEMMA DecodedTells ==
  ASSUME NEW value \in SUBSET (0 .. 31), decode(value)[1] # Undecoded
  PROVE  \E c : Same(decode(value)[1], c) /\ Tells(c, value, decode(value)[2])
<1> DEFINE op == opcode(value)
           f3 == funct3(value)
           f7 == funct7(value)
           c == decode(value)[1]
           imm == decode(value)[2]
<1>0. f3 \in 0 .. 7
  <2>1. 12 \in 0 .. 31 /\ 14 \in 12 .. 31 /\ 14 - 12 + 1 = 3 /\ 2^3 = 8
    OBVIOUS
  <2>2. Has(bitcut(value, 12, 14), 3, {i \in 0 .. 31 : i + 12 \in value})
    BY <2>1, Field
  <2> QED
    BY <2>1, <2>2 DEF Has, funct3
<1>1. CASE op = 51 /\ f7 = 1
  <2>1. c = Multiply[f3 + 1]
    BY <1>1 DEF decode
  <2>2. PICK n \in {<<0, "MUL">>, <<1, "MULH">>, <<2, "MULHSU">>, <<3, "MULHU">>, <<4, "DIV">>, <<5, "DIVU">>, <<6, "REM">>, <<7, "REMU">>} : n[1] = f3 /\ n[2] = c
    BY <1>0, <2>1 DEF Multiply
  <2>3. PICK g \in Groups : g[1] = 51 /\ g[2] = {<<0, "MUL">>, <<1, "MULH">>, <<2, "MULHSU">>, <<3, "MULHU">>, <<4, "DIV">>, <<5, "DIVU">>, <<6, "REM">>, <<7, "REMU">>} /\ g[3] = {<<25, 31, 1>>} /\ g[4] = NoPlace
    <3>1. <<51, {<<0, "MUL">>, <<1, "MULH">>, <<2, "MULHSU">>, <<3, "MULHU">>, <<4, "DIV">>, <<5, "DIVU">>, <<6, "REM">>, <<7, "REMU">>}, {<<25, 31, 1>>}, NoPlace>> \in Groups
      BY DEF Groups
    <3> QED
      BY <3>1, GroupOf
  <2>4. \A x \in g[3] : bitcut(value, x[1], x[2]) = x[3]
    BY <1>1, <2>3 DEF funct7
  <2>5. Tells(n[2], value, imm)
    BY <1>1, <2>2, <2>3, <2>4, GroupTells
  <2> QED
    BY <2>2, <2>5 DEF Same
<1>2. CASE op = 51 /\ f7 # 1
  <2>1. <<f3, f7>> \in DOMAIN BaseReg /\ c = BaseReg[<<f3, f7>>]
    BY <1>2 DEF decode
  <2>2. \/ f7 = 0 /\ \E n \in {<<0, "ADD">>, <<1, "SLL">>, <<2, "SLT">>, <<3, "SLTU">>, <<4, "XOR">>, <<5, "SRL">>, <<6, "OR">>, <<7, "AND">>} : n[1] = f3 /\ n[2] = c
        \/ f7 = 32 /\ \E n \in {<<0, "SUB">>, <<5, "SRA">>} : n[1] = f3 /\ n[2] = c
    BY <2>1, TableEntry DEF BaseReg
  <2>3. CASE f7 = 0 /\ \E n \in {<<0, "ADD">>, <<1, "SLL">>, <<2, "SLT">>, <<3, "SLTU">>, <<4, "XOR">>, <<5, "SRL">>, <<6, "OR">>, <<7, "AND">>} : n[1] = f3 /\ n[2] = c
    <3>1. PICK n \in {<<0, "ADD">>, <<1, "SLL">>, <<2, "SLT">>, <<3, "SLTU">>, <<4, "XOR">>, <<5, "SRL">>, <<6, "OR">>, <<7, "AND">>} : n[1] = f3 /\ n[2] = c
      BY <2>3
    <3>2. PICK g \in Groups : g[1] = 51 /\ g[2] = {<<0, "ADD">>, <<1, "SLL">>, <<2, "SLT">>, <<3, "SLTU">>, <<4, "XOR">>, <<5, "SRL">>, <<6, "OR">>, <<7, "AND">>} /\ g[3] = {<<25, 31, 0>>} /\ g[4] = NoPlace
      <4>1. <<51, {<<0, "ADD">>, <<1, "SLL">>, <<2, "SLT">>, <<3, "SLTU">>, <<4, "XOR">>, <<5, "SRL">>, <<6, "OR">>, <<7, "AND">>}, {<<25, 31, 0>>}, NoPlace>> \in Groups
        BY DEF Groups
      <4> QED
        BY <4>1, GroupOf
    <3>3. \A x \in g[3] : bitcut(value, x[1], x[2]) = x[3]
      BY <2>3, <3>2 DEF funct7
    <3>4. Tells(n[2], value, imm)
      BY <1>2, <2>1, <3>1, <3>2, <3>3, GroupTells
    <3> QED
      BY <3>1, <3>4 DEF Same
  <2>4. CASE f7 = 32 /\ \E n \in {<<0, "SUB">>, <<5, "SRA">>} : n[1] = f3 /\ n[2] = c
    <3>1. PICK n \in {<<0, "SUB">>, <<5, "SRA">>} : n[1] = f3 /\ n[2] = c
      BY <2>4
    <3>2. PICK g \in Groups : g[1] = 51 /\ g[2] = {<<0, "SUB">>, <<5, "SRA">>} /\ g[3] = {<<25, 31, 32>>} /\ g[4] = NoPlace
      <4>1. <<51, {<<0, "SUB">>, <<5, "SRA">>}, {<<25, 31, 32>>}, NoPlace>> \in Groups
        BY DEF Groups
      <4> QED
        BY <4>1, GroupOf
    <3>3. \A x \in g[3] : bitcut(value, x[1], x[2]) = x[3]
      BY <2>4, <3>2 DEF funct7
    <3>4. Tells(n[2], value, imm)
      BY <1>2, <2>1, <3>1, <3>2, <3>3, GroupTells
    <3> QED
      BY <3>1, <3>4 DEF Same
  <2> QED
    BY <2>2, <2>3, <2>4
<1>3. CASE op = 19 /\ f3 \notin {1, 5}
  <2>1. f3 \in DOMAIN BaseImm /\ c = BaseImm[f3] /\ imm = ImmI(value)
    BY <1>3 DEF decode
  <2>2. PICK n \in {<<0, "ADDI">>, <<2, "SLTI">>, <<3, "SLTIU">>, <<4, "XORI">>, <<6, "ORI">>, <<7, "ANDI">>} : n[1] = f3 /\ n[2] = c
    BY <2>1, TableEntry DEF BaseImm
  <2>3. PICK g \in Groups : g[1] = 19 /\ g[2] = {<<0, "ADDI">>, <<2, "SLTI">>, <<3, "SLTIU">>, <<4, "XORI">>, <<6, "ORI">>, <<7, "ANDI">>} /\ g[3] = {} /\ g[4] = PlaceI
    <3>1. <<19, {<<0, "ADDI">>, <<2, "SLTI">>, <<3, "SLTIU">>, <<4, "XORI">>, <<6, "ORI">>, <<7, "ANDI">>}, {}, PlaceI>> \in Groups
      BY DEF Groups
    <3> QED
      BY <3>1, GroupOf
  <2>4. Tells(n[2], value, imm)
    BY <1>3, <2>1, <2>2, <2>3, GroupTells
  <2> QED
    BY <2>2, <2>4 DEF Same
<1>4. CASE op = 19 /\ f3 \in {1, 5}
  <2>1. <<f3, f7>> \in DOMAIN ShiftImm /\ c = ShiftImm[<<f3, f7>>] /\ imm = ImmI(value)
    BY <1>4 DEF decode
  <2>2. \/ f7 = 0 /\ \E n \in {<<1, "SLLI">>, <<5, "SRLI">>} : n[1] = f3 /\ n[2] = c
        \/ f7 = 32 /\ \E n \in {<<5, "SRAI">>} : n[1] = f3 /\ n[2] = c
    BY <2>1, TableEntry DEF ShiftImm
  <2>3. CASE f7 = 0 /\ \E n \in {<<1, "SLLI">>, <<5, "SRLI">>} : n[1] = f3 /\ n[2] = c
    <3>1. PICK n \in {<<1, "SLLI">>, <<5, "SRLI">>} : n[1] = f3 /\ n[2] = c
      BY <2>3
    <3>2. PICK g \in Groups : g[1] = 19 /\ g[2] = {<<1, "SLLI">>, <<5, "SRLI">>} /\ g[3] = {<<25, 31, 0>>} /\ g[4] = PlaceI
      <4>1. <<19, {<<1, "SLLI">>, <<5, "SRLI">>}, {<<25, 31, 0>>}, PlaceI>> \in Groups
        BY DEF Groups
      <4> QED
        BY <4>1, GroupOf
    <3>3. \A x \in g[3] : bitcut(value, x[1], x[2]) = x[3]
      BY <2>3, <3>2 DEF funct7
    <3>4. Tells(n[2], value, imm)
      BY <1>4, <2>1, <3>1, <3>2, <3>3, GroupTells
    <3> QED
      BY <3>1, <3>4 DEF Same
  <2>4. CASE f7 = 32 /\ \E n \in {<<5, "SRAI">>} : n[1] = f3 /\ n[2] = c
    <3>1. PICK n \in {<<5, "SRAI">>} : n[1] = f3 /\ n[2] = c
      BY <2>4
    <3>2. PICK g \in Groups : g[1] = 19 /\ g[2] = {<<5, "SRAI">>} /\ g[3] = {<<25, 31, 32>>} /\ g[4] = PlaceI
      <4>1. <<19, {<<5, "SRAI">>}, {<<25, 31, 32>>}, PlaceI>> \in Groups
        BY DEF Groups
      <4> QED
        BY <4>1, GroupOf
    <3>3. \A x \in g[3] : bitcut(value, x[1], x[2]) = x[3]
      BY <2>4, <3>2 DEF funct7
    <3>4. Tells(n[2], value, imm)
      BY <1>4, <2>1, <3>1, <3>2, <3>3, GroupTells
    <3> QED
      BY <3>1, <3>4 DEF Same
  <2> QED
    BY <2>2, <2>3, <2>4
<1>5. CASE op = 3
  <2>1. f3 \in DOMAIN Load /\ c = Load[f3] /\ imm = ImmI(value)
    BY <1>5 DEF decode
  <2>2. PICK n \in {<<0, "LB">>, <<1, "LH">>, <<2, "LW">>, <<4, "LBU">>, <<5, "LHU">>} : n[1] = f3 /\ n[2] = c
    BY <2>1, TableEntry DEF Load
  <2>3. PICK g \in Groups : g[1] = 3 /\ g[2] = {<<0, "LB">>, <<1, "LH">>, <<2, "LW">>, <<4, "LBU">>, <<5, "LHU">>} /\ g[3] = {} /\ g[4] = PlaceI
    <3>1. <<3, {<<0, "LB">>, <<1, "LH">>, <<2, "LW">>, <<4, "LBU">>, <<5, "LHU">>}, {}, PlaceI>> \in Groups
      BY DEF Groups
    <3> QED
      BY <3>1, GroupOf
  <2>4. Tells(n[2], value, imm)
    BY <1>5, <2>1, <2>2, <2>3, GroupTells
  <2> QED
    BY <2>2, <2>4 DEF Same
<1>6. CASE op = 35
  <2>1. f3 \in DOMAIN Store /\ c = Store[f3] /\ imm = ImmS(value)
    BY <1>6 DEF decode
  <2>2. PICK n \in {<<0, "SB">>, <<1, "SH">>, <<2, "SW">>} : n[1] = f3 /\ n[2] = c
    BY <2>1, TableEntry DEF Store
  <2>3. PICK g \in Groups : g[1] = 35 /\ g[2] = {<<0, "SB">>, <<1, "SH">>, <<2, "SW">>} /\ g[3] = {} /\ g[4] = PlaceS
    <3>1. <<35, {<<0, "SB">>, <<1, "SH">>, <<2, "SW">>}, {}, PlaceS>> \in Groups
      BY DEF Groups
    <3> QED
      BY <3>1, GroupOf
  <2>4. Tells(n[2], value, imm)
    BY <1>6, <2>1, <2>2, <2>3, GroupTells
  <2> QED
    BY <2>2, <2>4 DEF Same
<1>7. CASE op = 99
  <2>1. f3 \in DOMAIN Branch /\ c = Branch[f3] /\ imm = ImmB(value)
    BY <1>7 DEF decode
  <2>2. PICK n \in {<<0, "BEQ">>, <<1, "BNE">>, <<4, "BLT">>, <<5, "BGE">>, <<6, "BLTU">>, <<7, "BGEU">>} : n[1] = f3 /\ n[2] = c
    BY <2>1, TableEntry DEF Branch
  <2>3. PICK g \in Groups : g[1] = 99 /\ g[2] = {<<0, "BEQ">>, <<1, "BNE">>, <<4, "BLT">>, <<5, "BGE">>, <<6, "BLTU">>, <<7, "BGEU">>} /\ g[3] = {} /\ g[4] = PlaceB
    <3>1. <<99, {<<0, "BEQ">>, <<1, "BNE">>, <<4, "BLT">>, <<5, "BGE">>, <<6, "BLTU">>, <<7, "BGEU">>}, {}, PlaceB>> \in Groups
      BY DEF Groups
    <3> QED
      BY <3>1, GroupOf
  <2>4. Tells(n[2], value, imm)
    BY <1>7, <2>1, <2>2, <2>3, GroupTells
  <2> QED
    BY <2>2, <2>4 DEF Same
<1>8. CASE op = 115 /\ f3 # 0
  <2>1. f3 \in DOMAIN Csr /\ c = Csr[f3] /\ imm = ImmUI(value)
    BY <1>8 DEF decode
  <2>2. PICK n \in {<<1, "CSRRW">>, <<2, "CSRRS">>, <<3, "CSRRC">>, <<5, "CSRRWI">>, <<6, "CSRRSI">>, <<7, "CSRRCI">>} : n[1] = f3 /\ n[2] = c
    BY <2>1, TableEntry DEF Csr
  <2>3. PICK g \in Groups : g[1] = 115 /\ g[2] = {<<1, "CSRRW">>, <<2, "CSRRS">>, <<3, "CSRRC">>, <<5, "CSRRWI">>, <<6, "CSRRSI">>, <<7, "CSRRCI">>} /\ g[3] = {} /\ g[4] = PlaceI
    <3>1. <<115, {<<1, "CSRRW">>, <<2, "CSRRS">>, <<3, "CSRRC">>, <<5, "CSRRWI">>, <<6, "CSRRSI">>, <<7, "CSRRCI">>}, {}, PlaceI>> \in Groups
      BY DEF Groups
    <3> QED
      BY <3>1, GroupOf
  <2>4. n[2] \in Range(Csr)
    BY <2>1, <2>2 DEF Range
  <2>5. Tells(n[2], value, imm)
    <3>1. n \in g[2] /\ opcode(value) = g[1] /\ funct3(value) = n[1] /\ \A x \in g[3] : bitcut(value, x[1], x[2]) = x[3]
      BY <1>8, <2>2, <2>3
    <3>2. g[4] = PlaceI /\ imm = ImmUI(value) /\ n[2] \in Range(Csr)
      BY <2>1, <2>3, <2>4
    <3> QED
      BY <3>1, <3>2, GroupTells
  <2> QED
    BY <2>2, <2>5 DEF Same
<1>9. CASE op = 103
  <2>1. c = "JALR" /\ f3 = 0 /\ imm = ImmI(value)
    BY <1>9 DEF decode
  <2>2. PICK g \in Groups : g[1] = 103 /\ g[2] = {<<0, "JALR">>} /\ g[3] = {} /\ g[4] = PlaceI
    <3>1. <<103, {<<0, "JALR">>}, {}, PlaceI>> \in Groups
      BY DEF Groups
    <3> QED
      BY <3>1, GroupOf
  <2>3. PICK n \in {<<0, "JALR">>} : n[1] = f3 /\ Same(c, n[2])
    BY <1>9, <2>1 DEF Same
  <2>4. Tells(n[2], value, imm)
    BY <1>9, <2>1, <2>2, <2>3, GroupTells
  <2> QED
    BY <2>3, <2>4
<1>10. CASE op = 15 /\ f3 \in {0, 1}
  <2>1. c = "FENCE"
    BY <1>10 DEF decode
  <2>2. PICK g \in Groups : g[1] = 15 /\ g[2] = {<<0, "FENCE">>, <<1, "FENCE.I">>} /\ g[3] = {} /\ g[4] = NoPlace
    <3>1. <<15, {<<0, "FENCE">>, <<1, "FENCE.I">>}, {}, NoPlace>> \in Groups
      BY DEF Groups
    <3> QED
      BY <3>1, GroupOf
  <2>3. PICK n \in {<<0, "FENCE">>, <<1, "FENCE.I">>} : n[1] = f3 /\ Same(c, n[2])
    BY <1>10, <2>1 DEF Same
  <2>4. Tells(n[2], value, imm)
    BY <1>10, <2>1, <2>2, <2>3, GroupTells
  <2> QED
    BY <2>3, <2>4
<1>11. CASE op = 15 /\ f3 \notin {0, 1}
  <2>1. c = "CBO.ZERO" /\ imm = ImmI(value) /\ f3 = 2 /\ ImmI(value) = 4
    BY <1>11 DEF decode
  <2>2. PICK g \in Groups : g[1] = 15 /\ g[2] = {<<2, "CBO.ZERO">>} /\ g[3] = {<<20, 31, 4>>} /\ g[4] = PlaceI
    <3>1. <<15, {<<2, "CBO.ZERO">>}, {<<20, 31, 4>>}, PlaceI>> \in Groups
      BY DEF Groups
    <3> QED
      BY <3>1, GroupOf
  <2>3. PICK n \in {<<2, "CBO.ZERO">>} : n[1] = f3 /\ Same(c, n[2])
    BY <2>1 DEF Same
  <2>4. bitcut(value, 20, 31) = 4
    <3>1. PICK v : v = bitcut(value, 20, 31)
      OBVIOUS
    <3>2. v \in Nat /\ v < 2^12 /\ ImmI(value) = IF 31 \in value THEN v - 2^12 ELSE v
      BY <3>1, TopTwelve
    <3> QED
      BY <2>1, <3>1, <3>2
  <2>5. \A x \in g[3] : bitcut(value, x[1], x[2]) = x[3]
    BY <2>2, <2>4
  <2>6. Tells(n[2], value, imm)
    BY <1>11, <2>1, <2>2, <2>3, <2>5, GroupTells
  <2> QED
    BY <2>3, <2>6
<1>12. CASE op = 115 /\ f3 = 0 /\ ImmUI(value) \in DOMAIN System
  <2>1. c = System[ImmUI(value)] /\ imm = ImmUI(value)
    BY <1>12 DEF decode
  <2>2. PICK p \in {<<0, "ECALL">>, <<1, "EBREAK">>, <<770, "MRET">>, <<258, "SRET">>, <<261, "WFI">>} : p[1] = ImmUI(value) /\ p[2] = c
    BY <1>12, <2>1, TableEntry DEF System
  <2>3. ImmUI(value) < 2^11
    BY <2>2
  <2>4. ImmUI(value) = bitcut(value, 20, 31)
    BY TopTwelve
  <2>5. /\ bitcut(value, 20, 31) = f7 * 32 + bitcut(value, 20, 24)
        /\ f7 \in 0 .. 127 /\ bitcut(value, 20, 24) \in 0 .. 31
    BY TopSplit
  <2>6. CASE p = <<0, "ECALL">>
    <3>1. PICK g \in Groups : g[1] = 115 /\ g[2] = {<<0, "ECALL">>} /\ g[3] = {<<20, 31, 0>>} /\ g[4] = PlaceI
      <4>1. <<115, {<<0, "ECALL">>}, {<<20, 31, 0>>}, PlaceI>> \in Groups
        BY DEF Groups
      <4> QED
        BY <4>1, GroupOf
    <3>2. PICK n \in {<<0, "ECALL">>} : n[1] = f3 /\ n[2] = c
      BY <1>12, <2>2, <2>6
    <3>3. bitcut(value, 20, 31) = 0
      BY <2>2, <2>4, <2>6
    <3>4. \A x \in g[3] : bitcut(value, x[1], x[2]) = x[3]
      BY <3>1, <3>3
    <3>5. Tells(n[2], value, imm)
      BY <1>12, <2>1, <2>3, <3>1, <3>2, <3>4, GroupTells
    <3> QED
      BY <3>2, <3>5 DEF Same
  <2>7. CASE p = <<1, "EBREAK">>
    <3>1. PICK g \in Groups : g[1] = 115 /\ g[2] = {<<0, "EBREAK">>} /\ g[3] = {<<20, 31, 1>>} /\ g[4] = PlaceI
      <4>1. <<115, {<<0, "EBREAK">>}, {<<20, 31, 1>>}, PlaceI>> \in Groups
        BY DEF Groups
      <4> QED
        BY <4>1, GroupOf
    <3>2. PICK n \in {<<0, "EBREAK">>} : n[1] = f3 /\ n[2] = c
      BY <1>12, <2>2, <2>7
    <3>3. bitcut(value, 20, 31) = 1
      BY <2>2, <2>4, <2>7
    <3>4. \A x \in g[3] : bitcut(value, x[1], x[2]) = x[3]
      BY <3>1, <3>3
    <3>5. Tells(n[2], value, imm)
      BY <1>12, <2>1, <2>3, <3>1, <3>2, <3>4, GroupTells
    <3> QED
      BY <3>2, <3>5 DEF Same
  <2>8. CASE p = <<770, "MRET">>
    <3>1. PICK g \in Groups : g[1] = 115 /\ g[2] = {<<0, "MRET">>} /\ g[3] = {<<25, 31, 24>>, <<20, 24, 2>>} /\ g[4] = PlaceI
      <4>1. <<115, {<<0, "MRET">>}, {<<25, 31, 24>>, <<20, 24, 2>>}, PlaceI>> \in Groups
        BY DEF Groups
      <4> QED
        BY <4>1, GroupOf
    <3>2. PICK n \in {<<0, "MRET">>} : n[1] = f3 /\ n[2] = c
      BY <1>12, <2>2, <2>8
    <3>3. bitcut(value, 25, 31) = 24 /\ bitcut(value, 20, 24) = 2
      BY <2>2, <2>4, <2>5, <2>8 DEF funct7
    <3>4. \A x \in g[3] : bitcut(value, x[1], x[2]) = x[3]
      BY <3>1, <3>3
    <3>5. Tells(n[2], value, imm)
      BY <1>12, <2>1, <2>3, <3>1, <3>2, <3>4, GroupTells
    <3> QED
      BY <3>2, <3>5 DEF Same
  <2>9. CASE p = <<258, "SRET">>
    <3>1. PICK g \in Groups : g[1] = 115 /\ g[2] = {<<0, "SRET">>} /\ g[3] = {<<25, 31, 8>>, <<20, 24, 2>>} /\ g[4] = PlaceI
      <4>1. <<115, {<<0, "SRET">>}, {<<25, 31, 8>>, <<20, 24, 2>>}, PlaceI>> \in Groups
        BY DEF Groups
      <4> QED
        BY <4>1, GroupOf
    <3>2. PICK n \in {<<0, "SRET">>} : n[1] = f3 /\ n[2] = c
      BY <1>12, <2>2, <2>9
    <3>3. bitcut(value, 25, 31) = 8 /\ bitcut(value, 20, 24) = 2
      BY <2>2, <2>4, <2>5, <2>9 DEF funct7
    <3>4. \A x \in g[3] : bitcut(value, x[1], x[2]) = x[3]
      BY <3>1, <3>3
    <3>5. Tells(n[2], value, imm)
      BY <1>12, <2>1, <2>3, <3>1, <3>2, <3>4, GroupTells
    <3> QED
      BY <3>2, <3>5 DEF Same
  <2>10. CASE p = <<261, "WFI">>
    <3>1. PICK g \in Groups : g[1] = 115 /\ g[2] = {<<0, "WFI">>} /\ g[3] = {<<25, 31, 8>>, <<20, 24, 5>>} /\ g[4] = PlaceI
      <4>1. <<115, {<<0, "WFI">>}, {<<25, 31, 8>>, <<20, 24, 5>>}, PlaceI>> \in Groups
        BY DEF Groups
      <4> QED
        BY <4>1, GroupOf
    <3>2. PICK n \in {<<0, "WFI">>} : n[1] = f3 /\ n[2] = c
      BY <1>12, <2>2, <2>10
    <3>3. bitcut(value, 25, 31) = 8 /\ bitcut(value, 20, 24) = 5
      BY <2>2, <2>4, <2>5, <2>10 DEF funct7
    <3>4. \A x \in g[3] : bitcut(value, x[1], x[2]) = x[3]
      BY <3>1, <3>3
    <3>5. Tells(n[2], value, imm)
      BY <1>12, <2>1, <2>3, <3>1, <3>2, <3>4, GroupTells
    <3> QED
      BY <3>2, <3>5 DEF Same
  <2> QED
    BY <2>6, <2>7, <2>8, <2>9, <2>10
<1>13. CASE op = 115 /\ f3 = 0 /\ ImmUI(value) \notin DOMAIN System
  <2>1. c = "SFENCE.VMA" /\ f7 = 9
    BY <1>13 DEF decode
  <2>2. PICK g \in Groups : g[1] = 115 /\ g[2] = {<<0, "SFENCE.VMA">>} /\ g[3] = {<<25, 31, 9>>} /\ g[4] = NoPlace
    <3>1. <<115, {<<0, "SFENCE.VMA">>}, {<<25, 31, 9>>}, NoPlace>> \in Groups
      BY DEF Groups
    <3> QED
      BY <3>1, GroupOf
  <2>3. PICK n \in {<<0, "SFENCE.VMA">>} : n[1] = f3 /\ n[2] = c
    BY <1>13, <2>1
  <2>4. \A x \in g[3] : bitcut(value, x[1], x[2]) = x[3]
    BY <2>1, <2>2 DEF funct7
  <2>5. Tells(n[2], value, imm)
    BY <1>13, <2>2, <2>3, <2>4, GroupTells
  <2> QED
    BY <2>3, <2>5 DEF Same
<1>14. CASE op \in {111, 55, 23}
  <2>1. op = 111 => c = "JAL" /\ imm = ImmJ(value)
    BY DEF decode
  <2>2. op = 55 => c = "LUI" /\ imm = ImmU(value)
    BY DEF decode
  <2>3. op = 23 => c = "AUIPC" /\ imm = ImmU(value)
    BY DEF decode
  <2>4. Tells(c, value, imm)
    BY <1>14, <2>1, <2>2, <2>3, OthersTell
  <2> QED
    BY <2>4 DEF Same
<1>15. CASE op = 47
  <2>1. f3 = 2 /\ funct5(value) \in DOMAIN Atomic /\ c = Atomic[funct5(value)]
    BY <1>15 DEF decode
  <2>2. PICK n \in Atomics : n[1] = funct5(value) /\ n[2] = c
    BY <2>1, TableEntry DEF Atomic, Atomics
  <2>3. Tells(n[2], value, imm)
    BY <1>15, <2>1, <2>2, OthersTell
  <2> QED
    BY <2>2, <2>3 DEF Same
<1>16. CASE op \notin {51, 19, 3, 35, 99, 111, 103, 55, 23, 115, 15, 47}
  BY <1>16 DEF decode
<1> QED
  BY <1>1, <1>2, <1>3, <1>4, <1>5, <1>6, <1>7, <1>8, <1>9, <1>10, <1>11, <1>12, <1>13, <1>14, <1>15, <1>16

\* The tables know their classes.
LEMMA TablesKnow ==
  /\ \A k \in DOMAIN Multiply : Multiply[k] # Undecoded
  /\ \A k \in DOMAIN BaseReg : BaseReg[k] # Undecoded
  /\ \A k \in DOMAIN BaseImm : BaseImm[k] # Undecoded
  /\ \A k \in DOMAIN ShiftImm : ShiftImm[k] # Undecoded
  /\ \A k \in DOMAIN Load : Load[k] # Undecoded
  /\ \A k \in DOMAIN Store : Store[k] # Undecoded
  /\ \A k \in DOMAIN Branch : Branch[k] # Undecoded
  /\ \A k \in DOMAIN System : System[k] # Undecoded
  /\ \A k \in DOMAIN Csr : Csr[k] # Undecoded
  /\ \A k \in DOMAIN Atomic : Atomic[k] # Undecoded
<1>1. Undecoded \notin Register /\ Undecoded \notin DOMAIN Immediate
  BY DEF Undecoded, Register, Immediate
<1>2. Undecoded \notin {"LB", "LH", "LW", "LBU", "LHU"} /\ Undecoded \notin {"SB", "SH", "SW"}
      /\ Undecoded \notin {"BEQ", "BNE", "BLT", "BGE", "BLTU", "BGEU"}
      /\ Undecoded \notin {"ECALL", "EBREAK", "MRET", "SRET", "WFI"}
      /\ Undecoded \notin {"CSRRW", "CSRRS", "CSRRC", "CSRRWI", "CSRRSI", "CSRRCI"}
      /\ Undecoded \notin {"LR", "SC", "AMOSWAP", "AMOADD", "AMOAND", "AMOOR", "AMOXOR", "AMOMAX", "AMOMIN", "AMOMINU", "AMOMAXU"}
  BY DEF Undecoded
<1> QED
  BY <1>1, <1>2, Tables

\* Every argument a row gives is one of a table's.
LEMMA TableKeys ==
  /\ \A k \in 0 .. 7 : k + 1 \in DOMAIN Multiply
  /\ \A k \in 0 .. 7 : <<k, 0>> \in DOMAIN BaseReg
  /\ \A k \in {0, 5} : <<k, 32>> \in DOMAIN BaseReg
  /\ {0, 2, 3, 4, 6, 7} \subseteq DOMAIN BaseImm
  /\ <<1, 0>> \in DOMAIN ShiftImm /\ <<5, 0>> \in DOMAIN ShiftImm /\ <<5, 32>> \in DOMAIN ShiftImm
  /\ {0, 1, 2, 4, 5} \subseteq DOMAIN Load
  /\ {0, 1, 2} \subseteq DOMAIN Store
  /\ {0, 1, 4, 5, 6, 7} \subseteq DOMAIN Branch
  /\ 0 \in DOMAIN System /\ 1 \in DOMAIN System /\ 770 \in DOMAIN System /\ 258 \in DOMAIN System /\ 261 \in DOMAIN System
  /\ \A k \in DOMAIN System : k \in {0, 1, 770, 258, 261}
  /\ {1, 2, 3, 5, 6, 7} \subseteq DOMAIN Csr
  /\ \A n \in Atomics : n[1] \in DOMAIN Atomic
<1>1. ASSUME NEW pairs PROVE \A k : k \in DOMAIN Table(pairs) <=> \E p \in pairs : p[1] = k
  BY DEF Table
<1>2. \A k \in 0 .. 7 : k + 1 \in DOMAIN Multiply
  BY DEF Multiply
<1>3. (\A k \in 0 .. 7 : <<k, 0>> \in DOMAIN BaseReg) /\ (\A k \in {0, 5} : <<k, 32>> \in DOMAIN BaseReg)
  <2>1. /\ <<0, 0>> \in DOMAIN BaseReg /\ <<1, 0>> \in DOMAIN BaseReg /\ <<2, 0>> \in DOMAIN BaseReg /\ <<3, 0>> \in DOMAIN BaseReg
        /\ <<4, 0>> \in DOMAIN BaseReg /\ <<5, 0>> \in DOMAIN BaseReg /\ <<6, 0>> \in DOMAIN BaseReg /\ <<7, 0>> \in DOMAIN BaseReg
    BY <1>1 DEF BaseReg
  <2>2. \A k \in 0 .. 7 : k \in {0, 1, 2, 3, 4, 5, 6, 7}
    OBVIOUS
  <2>3. <<0, 32>> \in DOMAIN BaseReg /\ <<5, 32>> \in DOMAIN BaseReg
    BY <1>1 DEF BaseReg
  <2> QED
    BY <2>1, <2>2, <2>3
<1>4. {0, 2, 3, 4, 6, 7} \subseteq DOMAIN BaseImm
  BY <1>1 DEF BaseImm
<1>5. <<1, 0>> \in DOMAIN ShiftImm /\ <<5, 0>> \in DOMAIN ShiftImm /\ <<5, 32>> \in DOMAIN ShiftImm
  BY <1>1 DEF ShiftImm
<1>6. {0, 1, 2, 4, 5} \subseteq DOMAIN Load
  BY <1>1 DEF Load
<1>7. {0, 1, 2} \subseteq DOMAIN Store
  BY <1>1 DEF Store
<1>8. {0, 1, 4, 5, 6, 7} \subseteq DOMAIN Branch
  BY <1>1 DEF Branch
<1>9. /\ 0 \in DOMAIN System /\ 1 \in DOMAIN System /\ 770 \in DOMAIN System /\ 258 \in DOMAIN System /\ 261 \in DOMAIN System
      /\ \A k \in DOMAIN System : k \in {0, 1, 770, 258, 261}
  <2>1. \A k \in DOMAIN System : k \in {0, 1, 770, 258, 261}
    BY <1>1 DEF System
  <2>2. \A p \in {<<0, "ECALL">>, <<1, "EBREAK">>, <<770, "MRET">>, <<258, "SRET">>, <<261, "WFI">>} : p[1] \in DOMAIN System
    BY <1>1 DEF System
  <2> QED
    BY <2>1, <2>2
<1>10. {1, 2, 3, 5, 6, 7} \subseteq DOMAIN Csr
  BY <1>1 DEF Csr
<1>11. \A n \in Atomics : n[1] \in DOMAIN Atomic
  BY <1>1 DEF Atomic, Atomics
<1> QED
  BY <1>2, <1>3, <1>4, <1>5, <1>6, <1>7, <1>8, <1>9, <1>10, <1>11

\* A word that a row lists is decoded.
LEMMA ListedDecoded ==
  ASSUME NEW value \in SUBSET (0 .. 31), NEW c \in DOMAIN Listing, Lists(Listing[c], value)
  PROVE  decode(value)[1] # Undecoded
<1> DEFINE op == opcode(value)
           f3 == funct3(value)
           f7 == funct7(value)
<1>1. CASE \E g \in Groups : \E n \in g[2] : c = n[2]
  <2>1. PICK g \in Groups : \E n \in g[2] : c = n[2]
    BY <1>1
  <2>2. PICK n \in g[2] : c = n[2]
    BY <2>1
  <2>3. op = g[1] /\ f3 = n[1] /\ \A x \in g[3] : bitcut(value, x[1], x[2]) = x[3]
    BY <2>2, GroupLists
  <2>4. /\ ImmUI(value) = f7 * 32 + bitcut(value, 20, 24) /\ ImmUI(value) = bitcut(value, 20, 31)
        /\ f7 \in 0 .. 127 /\ bitcut(value, 20, 24) \in 0 .. 31
    BY TopTwelve, TopSplit
  <2>5. ASSUME NEW l, NEW h, NEW k, <<l, h, k>> \in g[3] PROVE bitcut(value, l, h) = k
    <3>1. PICK x \in g[3] : x[1] = l /\ x[2] = h /\ x[3] = k
      BY <2>5
    <3> QED
      BY <2>3, <3>1
  <2>6. CASE g = <<51, {<<0, "ADD">>, <<1, "SLL">>, <<2, "SLT">>, <<3, "SLTU">>, <<4, "XOR">>, <<5, "SRL">>, <<6, "OR">>, <<7, "AND">>}, {<<25, 31, 0>>}, NoPlace>>
    <3>a. <<25, 31, 0>> \in g[3]
      BY <2>6
    <3>b. bitcut(value, 25, 31) = 0
      BY <2>5, <3>a
    <3>1. op = 51 /\ f3 \in {0, 1, 2, 3, 4, 5, 6, 7} /\ f7 = 0
      BY <2>3, <3>b, <2>6 DEF funct7
    <3>2. <<f3, f7>> \in DOMAIN BaseReg
      BY <3>1, TableKeys
    <3> QED
      BY <3>1, <3>2, TablesKnow DEF decode
  <2>7. CASE g = <<51, {<<0, "SUB">>, <<5, "SRA">>}, {<<25, 31, 32>>}, NoPlace>>
    <3>a. <<25, 31, 32>> \in g[3]
      BY <2>7
    <3>b. bitcut(value, 25, 31) = 32
      BY <2>5, <3>a
    <3>1. op = 51 /\ f3 \in {0, 5} /\ f7 = 32
      BY <2>3, <3>b, <2>7 DEF funct7
    <3>2. <<f3, f7>> \in DOMAIN BaseReg
      BY <3>1, TableKeys
    <3> QED
      BY <3>1, <3>2, TablesKnow DEF decode
  <2>8. CASE g = <<51, {<<0, "MUL">>, <<1, "MULH">>, <<2, "MULHSU">>, <<3, "MULHU">>, <<4, "DIV">>, <<5, "DIVU">>, <<6, "REM">>, <<7, "REMU">>}, {<<25, 31, 1>>}, NoPlace>>
    <3>a. <<25, 31, 1>> \in g[3]
      BY <2>8
    <3>b. bitcut(value, 25, 31) = 1
      BY <2>5, <3>a
    <3>1. op = 51 /\ f3 \in 0 .. 7 /\ f7 = 1
      BY <2>3, <3>b, <2>8 DEF funct7
    <3>2. f3 + 1 \in DOMAIN Multiply
      BY <3>1, TableKeys
    <3> QED
      BY <3>1, <3>2, TablesKnow DEF decode
  <2>9. CASE g = <<19, {<<0, "ADDI">>, <<2, "SLTI">>, <<3, "SLTIU">>, <<4, "XORI">>, <<6, "ORI">>, <<7, "ANDI">>}, {}, PlaceI>>
    <3>1. op = 19 /\ f3 \in {0, 2, 3, 4, 6, 7}
      BY <2>3, <2>9
    <3>2. f3 \in DOMAIN BaseImm
      BY <3>1, TableKeys
    <3> QED
      BY <3>1, <3>2, TablesKnow DEF decode
  <2>10. CASE g = <<19, {<<1, "SLLI">>, <<5, "SRLI">>}, {<<25, 31, 0>>}, PlaceI>>
    <3>a. <<25, 31, 0>> \in g[3]
      BY <2>10
    <3>b. bitcut(value, 25, 31) = 0
      BY <2>5, <3>a
    <3>1. op = 19 /\ f3 \in {1, 5} /\ f7 = 0
      BY <2>3, <3>b, <2>10 DEF funct7
    <3>2. <<f3, f7>> \in DOMAIN ShiftImm
      BY <3>1, TableKeys
    <3> QED
      BY <3>1, <3>2, TablesKnow DEF decode
  <2>11. CASE g = <<19, {<<5, "SRAI">>}, {<<25, 31, 32>>}, PlaceI>>
    <3>a. <<25, 31, 32>> \in g[3]
      BY <2>11
    <3>b. bitcut(value, 25, 31) = 32
      BY <2>5, <3>a
    <3>1. op = 19 /\ f3 \in {5} /\ f7 = 32
      BY <2>3, <3>b, <2>11 DEF funct7
    <3>2. <<f3, f7>> \in DOMAIN ShiftImm
      BY <3>1, TableKeys
    <3> QED
      BY <3>1, <3>2, TablesKnow DEF decode
  <2>12. CASE g = <<3, {<<0, "LB">>, <<1, "LH">>, <<2, "LW">>, <<4, "LBU">>, <<5, "LHU">>}, {}, PlaceI>>
    <3>1. op = 3 /\ f3 \in {0, 1, 2, 4, 5}
      BY <2>3, <2>12
    <3>2. f3 \in DOMAIN Load
      BY <3>1, TableKeys
    <3> QED
      BY <3>1, <3>2, TablesKnow DEF decode
  <2>13. CASE g = <<35, {<<0, "SB">>, <<1, "SH">>, <<2, "SW">>}, {}, PlaceS>>
    <3>1. op = 35 /\ f3 \in {0, 1, 2}
      BY <2>3, <2>13
    <3>2. f3 \in DOMAIN Store
      BY <3>1, TableKeys
    <3> QED
      BY <3>1, <3>2, TablesKnow DEF decode
  <2>14. CASE g = <<99, {<<0, "BEQ">>, <<1, "BNE">>, <<4, "BLT">>, <<5, "BGE">>, <<6, "BLTU">>, <<7, "BGEU">>}, {}, PlaceB>>
    <3>1. op = 99 /\ f3 \in {0, 1, 4, 5, 6, 7}
      BY <2>3, <2>14
    <3>2. f3 \in DOMAIN Branch
      BY <3>1, TableKeys
    <3> QED
      BY <3>1, <3>2, TablesKnow DEF decode
  <2>15. CASE g = <<103, {<<0, "JALR">>}, {}, PlaceI>>
    <3>1. op = 103 /\ f3 = 0
      BY <2>3, <2>15
    <3> QED
      BY <3>1 DEF decode, Undecoded
  <2>16. CASE g = <<15, {<<0, "FENCE">>, <<1, "FENCE.I">>}, {}, NoPlace>>
    <3>1. op = 15 /\ f3 \in {0, 1}
      BY <2>3, <2>16
    <3> QED
      BY <3>1 DEF decode, Undecoded
  <2>17. CASE g = <<15, {<<2, "CBO.ZERO">>}, {<<20, 31, 4>>}, PlaceI>>
    <3>a. <<20, 31, 4>> \in g[3]
      BY <2>17
    <3>b. bitcut(value, 20, 31) = 4
      BY <2>5, <3>a
    <3>1. op = 15 /\ f3 = 2 /\ bitcut(value, 20, 31) = 4
      BY <2>3, <3>b, <2>17
    <3>2. PICK v : v = bitcut(value, 20, 31) /\ v = 4
      BY <3>1
    <3>3. (31 \in value <=> v >= 2^11) /\ ImmI(value) = IF 31 \in value THEN v - 2^12 ELSE v
      BY <3>2, TopTwelve
    <3>4. ImmI(value) = 4
      BY <3>2, <3>3
    <3> QED
      BY <3>1, <3>4 DEF decode, Undecoded
  <2>18. CASE g = <<115, {<<0, "ECALL">>}, {<<20, 31, 0>>}, PlaceI>>
    <3>a. <<20, 31, 0>> \in g[3]
      BY <2>18
    <3>b. bitcut(value, 20, 31) = 0
      BY <2>5, <3>a
    <3>1. op = 115 /\ f3 = 0 /\ ImmUI(value) = 0
      BY <2>3, <3>b, <2>4, <2>18
    <3>2. ImmUI(value) \in DOMAIN System
      BY <3>1, TableKeys
    <3> QED
      BY <3>1, <3>2, TablesKnow DEF decode
  <2>19. CASE g = <<115, {<<0, "EBREAK">>}, {<<20, 31, 1>>}, PlaceI>>
    <3>a. <<20, 31, 1>> \in g[3]
      BY <2>19
    <3>b. bitcut(value, 20, 31) = 1
      BY <2>5, <3>a
    <3>1. op = 115 /\ f3 = 0 /\ ImmUI(value) = 1
      BY <2>3, <3>b, <2>4, <2>19
    <3>2. ImmUI(value) \in DOMAIN System
      BY <3>1, TableKeys
    <3> QED
      BY <3>1, <3>2, TablesKnow DEF decode
  <2>20. CASE g = <<115, {<<0, "SRET">>}, {<<25, 31, 8>>, <<20, 24, 2>>}, PlaceI>>
    <3>a. <<25, 31, 8>> \in g[3] /\ <<20, 24, 2>> \in g[3]
      BY <2>20
    <3>b. bitcut(value, 25, 31) = 8 /\ bitcut(value, 20, 24) = 2
      BY <2>5, <3>a
    <3>1. op = 115 /\ f3 = 0 /\ f7 = 8 /\ bitcut(value, 20, 24) = 2
      BY <2>3, <3>b, <2>20 DEF funct7
    <3>2. ImmUI(value) \in DOMAIN System
      <4>1. ImmUI(value) = 258
        BY <2>4, <3>1
      <4> QED
        BY <4>1, TableKeys
    <3> QED
      BY <3>1, <3>2, TablesKnow DEF decode
  <2>21. CASE g = <<115, {<<0, "MRET">>}, {<<25, 31, 24>>, <<20, 24, 2>>}, PlaceI>>
    <3>a. <<25, 31, 24>> \in g[3] /\ <<20, 24, 2>> \in g[3]
      BY <2>21
    <3>b. bitcut(value, 25, 31) = 24 /\ bitcut(value, 20, 24) = 2
      BY <2>5, <3>a
    <3>1. op = 115 /\ f3 = 0 /\ f7 = 24 /\ bitcut(value, 20, 24) = 2
      BY <2>3, <3>b, <2>21 DEF funct7
    <3>2. ImmUI(value) \in DOMAIN System
      <4>1. ImmUI(value) = 770
        BY <2>4, <3>1
      <4> QED
        BY <4>1, TableKeys
    <3> QED
      BY <3>1, <3>2, TablesKnow DEF decode
  <2>22. CASE g = <<115, {<<0, "WFI">>}, {<<25, 31, 8>>, <<20, 24, 5>>}, PlaceI>>
    <3>a. <<25, 31, 8>> \in g[3] /\ <<20, 24, 5>> \in g[3]
      BY <2>22
    <3>b. bitcut(value, 25, 31) = 8 /\ bitcut(value, 20, 24) = 5
      BY <2>5, <3>a
    <3>1. op = 115 /\ f3 = 0 /\ f7 = 8 /\ bitcut(value, 20, 24) = 5
      BY <2>3, <3>b, <2>22 DEF funct7
    <3>2. ImmUI(value) \in DOMAIN System
      <4>1. ImmUI(value) = 261
        BY <2>4, <3>1
      <4> QED
        BY <4>1, TableKeys
    <3> QED
      BY <3>1, <3>2, TablesKnow DEF decode
  <2>23. CASE g = <<115, {<<0, "SFENCE.VMA">>}, {<<25, 31, 9>>}, NoPlace>>
    <3>a. <<25, 31, 9>> \in g[3]
      BY <2>23
    <3>b. bitcut(value, 25, 31) = 9
      BY <2>5, <3>a
    <3>1. op = 115 /\ f3 = 0 /\ f7 = 9
      BY <2>3, <3>b, <2>23 DEF funct7
    <3>2. ImmUI(value) \notin DOMAIN System
      <4>1. ImmUI(value) \in 288 .. 319
        BY <2>4, <3>1
      <4> QED
        BY <4>1, TableKeys
    <3> QED
      BY <3>1, <3>2 DEF decode, Undecoded
  <2>24. CASE g = <<115, {<<1, "CSRRW">>, <<2, "CSRRS">>, <<3, "CSRRC">>, <<5, "CSRRWI">>, <<6, "CSRRSI">>, <<7, "CSRRCI">>}, {}, PlaceI>>
    <3>1. op = 115 /\ f3 \in {1, 2, 3, 5, 6, 7}
      BY <2>3, <2>24
    <3>2. f3 \in DOMAIN Csr
      BY <3>1, TableKeys
    <3> QED
      BY <3>1, <3>2, TablesKnow DEF decode
  <2> QED
    BY <2>6, <2>7, <2>8, <2>9, <2>10, <2>11, <2>12, <2>13, <2>14, <2>15, <2>16, <2>17, <2>18, <2>19, <2>20, <2>21, <2>22, <2>23, <2>24 DEF Groups
<1>2. CASE \E n \in Atomics : c = n[2]
  <2>1. PICK n \in Atomics : c = n[2]
    BY <1>2
  <2>2. op = 47 /\ f3 = 2 /\ funct5(value) = n[1]
    BY <2>1, AtomicLists
  <2>3. funct5(value) \in DOMAIN Atomic
    BY <2>2, TableKeys
  <2> QED
    BY <2>2, <2>3, TablesKnow DEF decode
<1>3. CASE c \in {"JAL", "LUI", "AUIPC"}
  <2>1. op \in {111, 55, 23}
    BY <1>3, LoneLists
  <2>2. /\ op = 111 => decode(value)[1] = "JAL"
        /\ op = 55 => decode(value)[1] = "LUI"
        /\ op = 23 => decode(value)[1] = "AUIPC"
    BY DEF decode
  <2> QED
    BY <2>1, <2>2 DEF Undecoded
<1> QED
  BY <1>1, <1>2, <1>3, ListedNames

\* What comes out of decode is in the listing, or refused.
LEMMA DecodedListed ==
  ASSUME NEW value \in SUBSET (0 .. 31)
  PROVE  decode(value)[1] \in DOMAIN Listing \cup {Undecoded}
<1>1. "FENCE" \in DOMAIN Listing
  <2>1. <<15, {<<0, "FENCE">>, <<1, "FENCE.I">>}, {}, NoPlace>> \in Groups
    BY DEF Groups
  <2>2. PICK g \in Groups : g[2] = {<<0, "FENCE">>, <<1, "FENCE.I">>}
    BY <2>1, GroupOf
  <2>3. PICK n \in g[2] : n[2] = "FENCE"
    BY <2>2
  <2> QED
    BY <2>3, ListingOf
<1> QED
  BY <1>1, DecodedTells DEF Same, Tells

-----------------------------------------------------------------------------
(* The invariant: besides the types, an instruction is one of the program's, *)
(* and pc is where it was fetched.                                         *)

IInv ==
  /\ regs \in [Reg -> Words] /\ regs[0] = 0
  /\ pc \in Int
  /\ inst # None => inst \in {Instruction(v) : v \in Program} /\ pc \in Places

\* What is known of the instruction at hand.
LEMMA AtHand ==
  ASSUME IInv, inst # None
  PROVE  /\ inst.value \in Program /\ inst.class = decode(inst.value)[1] /\ inst.imm = decode(inst.value)[2]
         /\ inst.rd = bitcut(inst.value, 7, 11)
         /\ inst.rs1 = bitcut(inst.value, 15, 19) /\ inst.rs2 = bitcut(inst.value, 20, 24)
         /\ inst.imm \in Int
         /\ \/ inst.class = Undecoded
            \/ opcode(inst.value) = 51 /\ inst.class \in Register
            \/ opcode(inst.value) = 19 /\ inst.class \in DOMAIN Immediate
            \/ opcode(inst.value) = 99 /\ inst.class \in Branches
            \/ opcode(inst.value) \notin {51, 19, 99} /\ inst.class \in Others
<1>1. PICK v \in Program : inst = Instruction(v)
  BY DEF IInv
<1>2. /\ inst.value = v /\ inst.class = decode(v)[1] /\ inst.imm = decode(v)[2]
      /\ inst.rd = bitcut(v, 7, 11) /\ inst.rs1 = bitcut(v, 15, 19) /\ inst.rs2 = bitcut(v, 20, 24)
  BY <1>1 DEF Instruction
<1>3. v \in SUBSET (0 .. 31)
  BY InstsConstants
<1> QED
  BY <1>2, <1>3, DecodedClass

\* What an instruction computes is a number, which the register file cuts.
LEMMA ResultType ==
  ASSUME NEW a \in Words
  PROVE  /\ \A c \in Register, b \in Words : Result(c, a, b) \in Int
         /\ \A c \in DOMAIN Immediate, n \in Int : Result(Immediate[c], a, n) \in Int
<1>0. a \in Int /\ Mod \in Nat \ {0} /\ \A b \in Words : b \in Int
  BY Remainders
<1>1. \A n \in Int : And(a, n) \in Int /\ Or(a, n) \in Int /\ Xor(a, n) \in Int
  BY <1>0, BitwiseOperations, Remainders
<1>2. ASSUME NEW n \in Int PROVE SLL(a, n) \in Int /\ SRL(a, n) \in Int /\ SRA(a, n) \in Int
  <2>1. PICK m \in Nat \ {0} : m = 2^Amount(n)
    BY AmountKept, Powers, XlenType
  <2>2. Signed(a) \in Int /\ msb_extend(a, XLEN) = Signed(a)
    BY SignedNumber, ExtendedWord
  <2>3. a * m \in Int /\ a \div m \in Int /\ Signed(a) \div m \in Int
    BY <1>0, <2>2, Quotients
  <2> QED
    BY <2>1, <2>2, <2>3 DEF SLL, SRL, SRA
<1>3. \A n \in Int : SLT(a, n) \in Int /\ SLTU(a, n) \in Int
  BY DEF SLT, SLTU
<1>4. ASSUME NEW b \in Words
      PROVE  MUL(a, b) \in Int /\ MULH(a, b) \in Int /\ MULHSU(a, b) \in Int /\ MULHU(a, b) \in Int
  <2>1. u2s(a) \in Int /\ u2s(b) \in Int
    BY SignedNumber
  <2>2. a * b \in Int /\ u2s(a) * u2s(b) \in Int /\ u2s(a) * b \in Int
    BY <1>0, <2>1
  <2> QED
    BY <1>0, <2>2, Quotients DEF MUL, MULH, MULHSU, MULHU
<1>5. ASSUME NEW b \in Words
      PROVE  DIV(a, b) \in Int /\ REM(a, b) \in Int /\ DIVU(a, b) \in Int /\ REMU(a, b) \in Int
  <2>0. Half \in Int /\ Mod = 2 * Half /\ b \in Int
    BY <1>0, Halves
  <2>1. /\ u2s(a) = Signed(a) /\ u2s(b) = Signed(b) /\ Signed(a) \in Int /\ Signed(b) \in Int
        /\ u2s(u2s(a)) = Signed(a) /\ u2s(u2s(b)) = Signed(b)
    BY SignedNumber, SignedTwice
  <2>2. b # 0 => Signed(b) # 0
    BY <1>0, <2>0, Remainders DEF Signed, Words
  <2>3. \A x, d \in Int : d # 0 => Trunc(x, d) \in Int /\ x - Trunc(x, d) * d \in Int
    BY Truncates
  <2>4. Signed(b) # 0 => Trunc(Signed(a), Signed(b)) \in Int /\ Signed(a) - Trunc(Signed(a), Signed(b)) * Signed(b) \in Int
    BY <2>1, <2>3
  <2>5. b # 0 => Trunc(a, b) \in Int /\ a - Trunc(a, b) * b \in Int
    BY <1>0, <2>0, <2>3
  <2>6. DIVU(a, b) \in Int /\ REMU(a, b) \in Int
    BY <1>0, <2>5 DEF DIVU, REMU
  <2>7. DIV(a, b) \in Int
    BY <1>0, <2>0, <2>1, <2>2, <2>4 DEF DIV
  <2>8. REM(a, b) \in Int
    BY <1>0, <2>0, <2>1, <2>2, <2>4 DEF REM
  <2> QED
    BY <2>6, <2>7, <2>8
<1>6. ASSUME NEW n \in Int, NEW c \in {"ADD", "XOR", "OR", "AND", "SLL", "SRL", "SRA", "SLT", "SLTU"}
      PROVE  Result(c, a, n) \in Int
  BY <1>0, <1>1, <1>2, <1>3 DEF Result
<1>7. ASSUME NEW b \in Words, NEW c \in {"MUL", "MULH", "MULHSU", "MULHU"} PROVE Result(c, a, b) \in Int
  BY <1>4 DEF Result
<1>8. ASSUME NEW b \in Words, NEW c \in {"DIV", "DIVU", "REM", "REMU"} PROVE Result(c, a, b) \in Int
  BY <1>5 DEF Result
<1>9. \A b \in Words : Result("SUB", a, b) \in Int
  BY <1>0 DEF Result
<1>10. ASSUME NEW c \in Register, NEW b \in Words PROVE Result(c, a, b) \in Int
  <2>1. \/ c \in {"ADD", "XOR", "OR", "AND", "SLL", "SRL", "SRA", "SLT", "SLTU"}
        \/ c \in {"MUL", "MULH", "MULHSU", "MULHU"}
        \/ c \in {"DIV", "DIVU", "REM", "REMU"}
        \/ c = "SUB"
    BY DEF Register
  <2> QED
    BY <2>1, <1>0, <1>6, <1>7, <1>8, <1>9
<1>11. ASSUME NEW c \in DOMAIN Immediate, NEW n \in Int PROVE Result(Immediate[c], a, n) \in Int
  <2>1. Immediate[c] \in {"ADD", "XOR", "OR", "AND", "SLL", "SRL", "SRA", "SLT", "SLTU"}
    BY DEF Immediate
  <2> QED
    BY <2>1, <1>6
<1> QED
  BY <1>10, <1>11

\* What a step writes it keeps as a word, and x0 stays what it is.
LEMMA Written ==
  ASSUME IInv, NEW rd \in Reg, NEW v \in Int, Write(rd, v)
  PROVE  /\ regs' \in [Reg -> Words] /\ regs'[0] = 0
         /\ rd # 0 => regs'[rd] = ToReg(v)
         /\ \A x \in Reg \ {rd} : regs'[x] = regs[x]
<1>1. ToReg(v) \in Words
  BY Remainders
<1> QED
  BY <1>1, AluConstants DEF IInv, Write

\* What each step does to the register file, with numbers for operands.
LEMMA Numbers ==
  ASSUME IInv, inst # None, Operands
  PROVE  /\ inst.rd \in Reg /\ inst.rs1 \in Reg /\ inst.rs2 \in Reg
         /\ regs[inst.rs1] \in Words /\ regs[inst.rs2] \in Words
         /\ inst.class \in Register => Result(inst.class, regs[inst.rs1], regs[inst.rs2]) \in Int
         /\ inst.class \in DOMAIN Immediate =>
              Result(Immediate[inst.class], regs[inst.rs1], inst.imm) \in Int
         /\ inst.imm * 2^Upper \in Int /\ pc + inst.imm * 2^Upper \in Int /\ pc + inst.imm \in Int
         /\ pc + 4 \in Int /\ regs[inst.rs1] + inst.imm \in Int
         /\ ToReg(regs[inst.rs1] + inst.imm) \in Words
<1>1. inst.rd \in Reg /\ inst.rs1 \in Reg /\ inst.rs2 \in Reg
  BY DEF Operands
<1>2. regs[inst.rs1] \in Words /\ regs[inst.rs2] \in Words
  BY <1>1 DEF IInv
<1>3. inst.imm \in Int /\ pc \in Int
  BY AtHand DEF IInv
<1>4. 2^Upper \in Int
  <2>1. \A n \in Nat : 2^n \in Int
    OBVIOUS
  <2> QED
    BY <2>1, InstsConstants
<1>5. inst.imm * 2^Upper \in Int /\ pc + inst.imm * 2^Upper \in Int /\ pc + inst.imm \in Int /\ pc + 4 \in Int
  <2>1. PICK p \in Int : p = 2^Upper
    BY <1>4
  <2> QED
    BY <1>3, <2>1
<1>6. regs[inst.rs1] + inst.imm \in Int /\ ToReg(regs[inst.rs1] + inst.imm) \in Words
  BY <1>2, <1>3, Remainders
<1> QED
  BY <1>1, <1>2, <1>3, <1>5, <1>6, ResultType

\* Every step leaves words in the register file, and a number for pc.
LEMMA InstsStep ==
  ASSUME IInv, [Next]_vars
  PROVE  IInv'
<1>1. CASE UNCHANGED vars
  BY <1>1 DEF IInv, vars
<1>2. ASSUME NEW at \in Places, NEW value \in Program, Fetch(at, value) PROVE IInv'
  <2>1. inst' = Instruction(value) /\ pc' = at /\ regs' = regs
    BY <1>2 DEF Fetch, Decoded
  <2>2. at \in Int
    BY InstsConstants
  <2> QED
    BY <2>1, <2>2 DEF IInv
<1> DEFINE Kept0 == regs' \in [Reg -> Words] /\ regs'[0] = 0
<1>3. ASSUME NEW to \in Int, Land(to), Kept0 PROVE IInv'
  <2>1. inst' = None /\ pc' \in Int
    BY <1>3 DEF Land, IInv
  <2> QED
    BY <1>3, <2>1 DEF IInv
<1>0. pc \in Int /\ (UNCHANGED regs => Kept0)
  BY DEF IInv
<1>4. CASE Operate
  <2>1. inst # None /\ Operands /\ Land(pc)
    BY <1>4 DEF Operate
  <2>2. Kept0
    BY <1>4, <2>1, Numbers, Written DEF Operate, ExecR, ExecI
  <2> QED
    BY <1>0, <1>3, <2>1, <2>2
<1>5. CASE LoadUpper
  <2>1. inst # None /\ Operands /\ Land(pc)
    BY <1>5 DEF LoadUpper
  <2>2. Kept0
    BY <1>5, <2>1, Numbers, Written DEF LoadUpper
  <2> QED
    BY <1>0, <1>3, <2>1, <2>2
<1>6. CASE Conditional
  <2>1. inst # None /\ Operands /\ Kept0
    BY <1>0, <1>6 DEF Conditional
  <2>2. \E to \in {pc, pc + inst.imm} : Land(to)
    BY <1>6, <2>1 DEF Conditional
  <2> QED
    BY <1>0, <1>3, <2>1, <2>2, Numbers
<1>7. CASE Jump
  <2>1. inst # None /\ Operands /\ Write(inst.rd, pc + 4)
    BY <1>7 DEF Jump
  <2>2. Kept0
    BY <2>1, Numbers, Written
  <2>3. \A to \in Words : to - (to % 2) \in Int
    BY Remainders
  <2>4. \E to \in Int : Land(to)
    BY <1>7, <2>1, <2>3, Numbers DEF Jump
  <2> QED
    BY <1>3, <2>2, <2>4
<1>8. CASE Nothing
  BY <1>0, <1>3, <1>8 DEF Nothing
<1>9. CASE Elsewhere
  BY <1>9 DEF Elsewhere, IInv
<1> QED
  BY <1>1, <1>2, <1>4, <1>5, <1>6, <1>7, <1>8, <1>9 DEF Next

LEMMA InstsInvariant == Spec => []IInv
<1>1. Init => IInv
  BY Remainders, InstsConstants, AluConstants DEF Init, IInv, RegsInit
<1>2. IInv /\ [Next]_vars => IInv'
  BY InstsStep
<1> QED
  BY <1>1, <1>2, PTL DEF Spec

\* Registers hold words and x0 is zero, whatever is computed; and decode makes
\* of a word one of the classes the listing has, or refuses it.
THEOREM InstsTypeCorrect == Spec => []TypeOK
<1>1. IInv => TypeOK
  BY AtHand, InstsConstants, DecodedListed DEF IInv, TypeOK
<1> QED
  BY <1>1, InstsInvariant, PTL

-----------------------------------------------------------------------------
(* Decoding.                                                               *)

\* Decoding undoes the listing, for every program.
THEOREM DisassemblesRight == Spec => []Disassembles
<1>1. IInv => Disassembles
  <2> SUFFICES ASSUME IInv, inst # None PROVE Disassembles
    BY DEF Disassembles
  <2>1. /\ inst.value \in SUBSET (0 .. 31)
        /\ inst.class = decode(inst.value)[1] /\ inst.imm = decode(inst.value)[2]
    BY AtHand, InstsConstants
  <2>2. CASE inst.class = Undecoded
    <3>1. \A c \in DOMAIN Listing : ~Lists(Listing[c], inst.value)
      BY <2>1, <2>2, ListedDecoded
    <3> QED
      BY <2>2, <3>1 DEF Disassembles
  <2>3. CASE inst.class # Undecoded
    <3>1. PICK c : Same(inst.class, c) /\ Tells(c, inst.value, inst.imm)
      BY <2>1, <2>3, DecodedTells
    <3> QED
      BY <2>3, <3>1 DEF Disassembles, Tells
  <2> QED
    BY <2>2, <2>3
<1> QED
  BY <1>1, InstsInvariant, PTL

-----------------------------------------------------------------------------
(* Executing.                                                              *)

\* The branches are the ones their listing has.
LEMMA BranchRange == Range(Branch) \subseteq Branches
BY Tables DEF Range, Branches

\* Clearing bit 0 before the cut to a word, or after it.
LEMMA TargetCut ==
  ASSUME NEW n \in Int
  PROVE  /\ ToReg(n) - (ToReg(n) % 2) \in Words
         /\ Equal(ToReg(n) - (ToReg(n) % 2), n - (n % 2))
<1>1. Half \in Nat \ {0} /\ Mod = 2 * Half /\ Mod \in Nat \ {0}
  BY Halves, Remainders
<1> HIDE DEF Half, Mod
<1>2. PICK k \in Int : ToReg(n) = n + k * Mod
  BY Kept
<1>3. PICK z \in Int : z = k * Half
  BY <1>1
<1>4. k * Mod = z * 2
  <2>1. \A h, j \in Int : j * (2 * h) = (j * h) * 2
    OBVIOUS
  <2> QED
    BY <1>1, <1>3, <2>1
<1>5. PICK w \in Words : w = ToReg(n)
  BY Remainders
<1>6. w = n + z * 2
  BY <1>2, <1>4, <1>5
<1>7. w \in Int /\ 0 <= w /\ w < Mod
  BY <1>1 DEF Words
<1>8. w % 2 = n % 2
  BY <1>6
<1>9. w - (w % 2) \in Words
  BY <1>1, <1>7 DEF Words
<1>10. (w - (w % 2)) - (n - (n % 2)) = k * Mod
  BY <1>4, <1>6, <1>8
<1>11. (k * Mod) % Mod = 0
  BY <1>1, Cut
<1> QED
  BY <1>5, <1>9, <1>10, <1>11 DEF Equal

\* One word stands for a number.
LEMMA SameWord ==
  ASSUME NEW v \in Words, NEW w \in Words, NEW n \in Int, Equal(w, n)
  PROVE  Equal(v, n) <=> w = v
<1>1. Mod \in Nat \ {0} /\ v \in Int /\ w \in Int /\ Words = 0 .. Mod - 1
  BY Remainders DEF Words
<1> HIDE DEF Mod
<1>2. PICK q \in Int : w - n = q * Mod
  <2>1. PICK x \in Int : x = w - n
    BY <1>1
  <2>2. x % Mod = 0
    BY <2>1 DEF Equal
  <2>3. x = (x \div Mod) * Mod + 0 /\ x \div Mod \in Int
    BY <1>1, <2>2, Quotients
  <2>4. (x \div Mod) * Mod \in Int
    BY <1>1, <2>3
  <2> QED
    BY <2>1, <2>3, <2>4
<1>3. PICK p \in Int : p = q * Mod
  BY <1>1
<1>4. n = w - p
  BY <1>1, <1>2, <1>3
<1>5. v - n = (v - w) + q * Mod
  BY <1>1, <1>3, <1>4
<1>6. (v - n) % Mod = (v - w) % Mod
  <2>1. PICK d \in Int : d = v - w
    BY <1>1
  <2>2. (d + q * Mod) % Mod = d % Mod
    BY <1>1, Multiples
  <2> QED
    BY <1>5, <2>1, <2>2
<1>7. (v - w) % Mod = 0 <=> v = w
  <2>1. \A m \in Nat \ {0} : \A x, y \in 0 .. m - 1 : (x - y) % m = 0 <=> x = y
    OBVIOUS
  <2> QED
    BY <1>1, <2>1
<1> QED
  BY <1>6, <1>7 DEF Equal

\* Whether a branch is taken is what its listing says.
LEMMA HoldsRight ==
  ASSUME NEW c \in Branches, NEW a \in Words, NEW b \in Words
  PROVE  Holds(c, a, b) <=> Taken(c, a, b)
<1>1. u2s(a) = Signed(a) /\ u2s(b) = Signed(b)
  BY SignedNumber
<1> QED
  BY <1>1 DEF Holds, Taken, Branches

\* No class is of two kinds.
LEMMA Kinds ==
  /\ \A c \in Register : c \notin DOMAIN Immediate \cup Branches \cup Others \cup {Undecoded}
  /\ \A c \in DOMAIN Immediate : c \notin Branches \cup Others \cup {Undecoded}
  /\ \A c \in Branches : c \notin Others \cup {Undecoded}
  /\ {"LUI", "AUIPC", "JAL", "JALR", "FENCE", "WFI"} \subseteq Others /\ Undecoded \notin Others
BY DEF Register, Immediate, Branches, Others, Undecoded

\* One instruction executed is what its listing says.
LEMMA ExecutedStep ==
  ASSUME IInv, WordPlaces, ShortImmediates, Next, inst # None, Operands
  PROVE  Executed
<1> DEFINE w == inst.value
           rd == bitcut(w, 7, 11)
           a == regs[bitcut(w, 15, 19)]
           b == IF bitcut(w, 0, 6) = 19 THEN ToReg(inst.imm) ELSE regs[bitcut(w, 20, 24)]
           r == IF rd = 0 THEN "any" ELSE regs'[rd]
           c == inst.class
           Target == (a + inst.imm) - ((a + inst.imm) % 2)
<1>0. /\ inst.rd = rd /\ a = regs[inst.rs1] /\ regs[bitcut(w, 20, 24)] = regs[inst.rs2]
      /\ opcode(w) = bitcut(w, 0, 6)
      /\ inst.imm \in Int /\ pc \in Int /\ pc \in Words /\ pc + 4 \in Int
      /\ rd \in Reg /\ a \in Words /\ regs[inst.rs2] \in Words
  BY AtHand, Numbers DEF IInv, opcode, WordPlaces
<1>a. a \in Int /\ pc + inst.imm \in Int /\ a + inst.imm \in Int /\ b \in Words
  <2>1. \A x \in Words : x \in Int
    BY Remainders
  <2>2. ToReg(inst.imm) \in Words
    BY <1>0, Remainders
  <2>3. b \in Words
    BY <1>0, <2>2
  <2> HIDE DEF a, b
  <2> QED
    BY <1>0, <2>1, <2>3, Numbers
<1> SUFFICES
      /\ c \in Register \cup DOMAIN Immediate => rd = 0 \/ Means(c, a, b, r)
      /\ c \in {"JAL", "JALR"} => rd = 0 \/ Equal(r, pc + 4)
      /\ c = "JAL" /\ inst.imm # 0 => pc' = pc + inst.imm
      /\ c \in Range(Branch) /\ Taken(c, a, b) /\ inst.imm # 0 => pc' = pc + inst.imm
      /\ c \in Range(Branch) /\ ~Taken(c, a, b) => pc' = pc + 4
      /\ c = "JALR" => Equal(pc', IF Equal(pc, Target) THEN pc + 4 ELSE Target)
      /\ \A x \in Reg \ {rd} : regs'[x] = regs[x]
  BY DEF Executed
<1>b. ASSUME NEW v \in Int, Write(inst.rd, v)
      PROVE  (rd # 0 => r = ToReg(v)) /\ \A x \in Reg \ {rd} : regs'[x] = regs[x]
  BY <1>0, <1>b, Written
<1>c. /\ c \in Register => opcode(w) = 51 /\ b = regs[inst.rs2]
      /\ c \in DOMAIN Immediate => opcode(w) = 19 /\ b = ToReg(inst.imm)
      /\ c \in Branches => opcode(w) = 99 /\ b = regs[inst.rs2]
  BY <1>0, AtHand, Kinds
<1> HIDE DEF w, rd, a, b, r, Target
<1>1. CASE Operate
  <2>1. c \in Register \cup DOMAIN Immediate
    BY <1>1 DEF Operate
  <2>2. c \notin Range(Branch) /\ c \notin {"JAL", "JALR"}
    BY <2>1, Kinds, BranchRange
  <2>3. CASE c \in Register
    <3>1. Write(inst.rd, Result(c, a, b)) /\ Result(c, a, b) \in Int
      BY <1>0, <1>1, <1>c, <2>3, Kinds, Numbers DEF Operate, ExecR
    <3>2. Means(c, a, b, ToReg(Result(c, a, b)))
      BY <1>0, <1>a, <2>3, ArithmeticAsListed
    <3> QED
      BY <1>b, <2>2, <3>1, <3>2
  <2>4. CASE c \in DOMAIN Immediate
    <3>1. Write(inst.rd, Result(Immediate[c], a, inst.imm)) /\ Result(Immediate[c], a, inst.imm) \in Int
      BY <1>0, <1>1, <2>4, Kinds, Numbers DEF Operate, ExecI
    <3>2. c = "SLTI" => -Half <= inst.imm /\ inst.imm < Half
      BY AtHand DEF ShortImmediates
    <3>3. Means(c, a, b, ToReg(Result(Immediate[c], a, inst.imm)))
      BY <1>0, <1>c, <2>4, <3>2, ImmediatesAsListed
    <3> QED
      BY <1>b, <2>2, <3>1, <3>3
  <2> QED
    BY <2>1, <2>3, <2>4
<1>2. CASE LoadUpper
  <2>1. c \in {"LUI", "AUIPC"}
    BY <1>2 DEF LoadUpper
  <2>2. c \notin Register \cup DOMAIN Immediate \cup Range(Branch) \cup {"JAL", "JALR"}
    BY <2>1, Kinds, BranchRange
  <2>3. \E v \in Int : Write(inst.rd, v)
    BY <1>2, Numbers DEF LoadUpper
  <2> QED
    BY <1>b, <2>2, <2>3
<1>3. CASE Conditional
  <2>1. c \in Range(Branch) /\ c \in Branches
    BY <1>3, BranchRange DEF Conditional
  <2>2. c \notin Register \cup DOMAIN Immediate \cup {"JAL", "JALR"}
    BY <2>1, Kinds
  <2>0. Holds(c, a, b) <=> Taken(c, a, b)
    BY <1>0, <1>a, <2>1, HoldsRight
  <2>3. /\ regs' = regs
        /\ Taken(c, a, b) => Land(pc + inst.imm)
        /\ ~Taken(c, a, b) => Land(pc)
    <3>1. Land(IF Holds(c, a, b) THEN pc + inst.imm ELSE pc) /\ regs' = regs
      BY <1>0, <1>3, <1>c, <2>1 DEF Conditional
    <3> QED
      BY <2>0, <3>1
  <2>4. Taken(c, a, b) /\ inst.imm # 0 => pc' = pc + inst.imm
    <3>1. inst.imm # 0 => pc + inst.imm # pc
      BY <1>0
    <3> QED
      BY <2>3, <3>1 DEF Land
  <2>5. ~Taken(c, a, b) => pc' = pc + 4
    BY <2>3 DEF Land
  <2> QED
    BY <2>2, <2>3, <2>4, <2>5
<1>4. CASE Jump
  <2>1. c \in {"JAL", "JALR"}
    BY <1>4 DEF Jump
  <2>2. c \notin Register \cup DOMAIN Immediate \cup Range(Branch)
    BY <2>1, Kinds, BranchRange
  <2>3. Write(inst.rd, pc + 4) /\ Equal(ToReg(pc + 4), pc + 4)
    BY <1>0, <1>4, Kept DEF Jump
  <2>4. c = "JAL" /\ inst.imm # 0 => pc' = pc + inst.imm
    <3>1. inst.imm # 0 => pc + inst.imm # pc
      BY <1>0
    <3>2. c = "JAL" => Land(pc + inst.imm)
      BY <1>4 DEF Jump
    <3> QED
      BY <3>1, <3>2 DEF Land
  <2>5. ASSUME c = "JALR" PROVE Equal(pc', IF Equal(pc, Target) THEN pc + 4 ELSE Target)
    <3>1. PICK to \in Words : to = ToReg(a + inst.imm) - (ToReg(a + inst.imm) % 2) /\ Equal(to, Target)
      <4>1. PICK x \in Int : x = a + inst.imm
        BY <1>a
      <4>2. Target = x - (x % 2)
        BY <4>1 DEF Target
      <4> QED
        BY <4>1, <4>2, TargetCut
    <3>2. pc' = IF to = pc THEN pc + 4 ELSE to
      BY <1>0, <1>4, <2>5, <3>1 DEF Jump, Land
    <3>3. Target \in Int
      <4>1. \A x \in Int : x - (x % 2) \in Int
        OBVIOUS
      <4> QED
        BY <1>a, <4>1 DEF Target
    <3>4. Equal(pc + 4, pc + 4)
      <4>1. \A x \in Int : x - x = 0
        OBVIOUS
      <4>2. 0 % Mod = 0
        BY Remainders
      <4> QED
        BY <1>0, <4>1, <4>2 DEF Equal
    <3>5. Equal(pc, Target) <=> to = pc
      BY <1>0, <3>1, <3>3, SameWord
    <3> QED
      BY <3>1, <3>2, <3>4, <3>5
  <2> QED
    BY <1>b, <1>0, <2>1, <2>2, <2>3, <2>4, <2>5
<1>5. CASE Nothing
  <2>1. c \in {"FENCE", "WFI"} /\ regs' = regs
    BY <1>5 DEF Nothing
  <2>2. c \notin Register \cup DOMAIN Immediate \cup Range(Branch) \cup {"JAL", "JALR"}
    BY <2>1, Kinds, BranchRange
  <2> QED
    BY <2>1, <2>2
<1>6. CASE Elsewhere
  <2>1. c \notin Register \cup DOMAIN Immediate \cup Range(Branch) \cup {"JAL", "JALR"} /\ regs' = regs
    BY <1>6 DEF Elsewhere
  <2> QED
    BY <2>1
<1>7. CASE \E at \in Places, value \in Program : Fetch(at, value)
  BY <1>7 DEF Fetch
<1> QED
  BY <1>1, <1>2, <1>3, <1>4, <1>5, <1>6, <1>7 DEF Next

\* An immediate of twelve bits is a number that a word of twelve bits or more holds.
LEMMA ShortWhenWide ==
  ASSUME XLEN >= 12
  PROVE  ShortImmediates
<1>1. ASSUME NEW value \in SUBSET (0 .. 31) PROVE -2048 <= ImmI(value) /\ ImmI(value) < 2048
  <2>1. PICK v : v = bitcut(value, 20, 31)
    OBVIOUS
  <2>2. /\ v \in Nat /\ v < 2^12 /\ (31 \in value <=> v >= 2^11)
        /\ ImmI(value) = IF 31 \in value THEN v - 2^12 ELSE v
    BY <2>1, TopTwelve
  <2> QED
    BY <2>2
<1>2. Half >= 2048
  <2>1. XLEN - 12 \in Nat /\ 11 + (XLEN - 12) = XLEN - 1 /\ XLEN - 12 \in 0 .. XLEN
    BY XlenType
  <2>2. PICK p \in Nat \ {0} : p = 2^(XLEN - 12)
    BY <2>1, Powers
  <2>3. 2^(XLEN - 1) = 2^11 * p
    BY <2>1, <2>2, PowersAdd, XlenType
  <2>4. 2^11 = 2048
    OBVIOUS
  <2> QED
    BY <2>2, <2>3, <2>4 DEF Half
<1>3. ASSUME NEW value \in SUBSET (0 .. 31), decode(value)[1] = "SLTI" PROVE decode(value)[2] = ImmI(value)
  <2>1. "SLTI" \in DOMAIN Immediate
    BY DEF Immediate
  <2>2. opcode(value) = 19
    <3>1. PICK c : c = decode(value)[1] /\ c \in DOMAIN Immediate
      BY <1>3, <2>1
    <3>2. c \notin Register /\ c \notin Branches /\ c \notin Others /\ c # Undecoded
      BY <3>1, Kinds
    <3> QED
      BY <3>1, <3>2, DecodedClass
  <2> QED
    BY <2>2 DEF decode
<1>4. Half \in Int
  BY Halves
<1>5. \A value \in Program : value \in SUBSET (0 .. 31)
  BY InstsConstants
<1>6. ASSUME NEW value \in Program, decode(value)[1] = "SLTI"
      PROVE  -Half <= decode(value)[2] /\ decode(value)[2] < Half
  <2>1. PICK n \in Int : n = decode(value)[2] /\ -2048 <= n /\ n < 2048
    BY <1>1, <1>3, <1>5, <1>6, ImmediateType
  <2> QED
    BY <1>2, <1>4, <2>1
<1> QED
  BY <1>6 DEF ShortImmediates

\* What decode makes of a word is executed as the word's listing says: register
\* and immediate operations, links, jumps and branches, with any registers and
\* any words in them, and no register changed but rd.
THEOREM ExecutesRight == WordPlaces /\ (ShortImmediates \/ XLEN >= 12) => (Spec => ExecutesAsListed)
<1> SUFFICES ASSUME WordPlaces, ShortImmediates PROVE Spec => ExecutesAsListed
  BY ShortWhenWide
<1>1. IInv /\ [Next]_vars => [inst # None /\ Operands => Executed]_vars
  BY ExecutedStep
<1> QED
  BY <1>1, InstsInvariant, PTL DEF Spec, ExecutesAsListed
=============================================================================
