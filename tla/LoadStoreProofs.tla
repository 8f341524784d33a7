--------------------------- MODULE LoadStoreProofs ---------------------------
(***************************************************************************)
(* That LoadStore implements FlatMemory: caches, routing, slices and byte  *)
(* order are not to be seen, for every word and byte length, page size,    *)
(* machine, page table and value.                                          *)
(***************************************************************************)
EXTENDS LoadStore, WordProofs, SequenceTheorems

-----------------------------------------------------------------------------
(* Sums over a range, one element after the other.                         *)

LEMMA SumOfRange ==
  ASSUME NEW a \in Int, NEW n \in Nat, NEW c \in [a + 1 .. a + n -> Int]
  PROVE  \E f : /\ f[0] = 0 /\ f[n] = Summed(c, a + 1 .. a + n)[a + 1 .. a + n]
                /\ \A j \in 0 .. n : f[j] \in Int
                /\ \A j \in 1 .. n : f[j] = f[j - 1] + c[a + j]
<1> DEFINE S == a + 1 .. a + n
           g == Summed(c, S)
           f == [j \in 0 .. n |-> g[a + 1 .. a + j]]
<1>1. IsFiniteSet(S)
  BY FS_Interval
<1>2. /\ g[{}] = 0
      /\ \A s \in SUBSET S : g[s] \in Int /\ \A x \in s : g[s] = c[x] + g[s \ {x}]
  BY <1>1, SumRemoves
<1>3. \A j \in 0 .. n : (a + 1 .. a + j) \in SUBSET S /\ f[j] = g[a + 1 .. a + j]
  OBVIOUS
<1>4. c \in [S -> Int]
  OBVIOUS
<1> HIDE DEF g
<1>5. ASSUME NEW j \in 1 .. n PROVE f[j] = f[j - 1] + c[a + j]
  <2>1. PICK s \in SUBSET S : s = a + 1 .. a + j
    BY <1>3
  <2>2. a + j \in s /\ s \ {a + j} = a + 1 .. a + (j - 1)
    BY <2>1
  <2>3. g[s] = c[a + j] + g[s \ {a + j}] /\ g[s \ {a + j}] \in Int
    <3>1. s \ {a + j} \in SUBSET S
      OBVIOUS
    <3> QED
      BY <1>2, <2>2, <3>1
  <2>4. f[j] = g[s] /\ f[j - 1] = g[s \ {a + j}]
    <3>1. j \in 0 .. n /\ j - 1 \in 0 .. n
      OBVIOUS
    <3>2. f[j] = g[a + 1 .. a + j] /\ f[j - 1] = g[a + 1 .. a + (j - 1)]
      BY <1>3, <3>1
    <3> HIDE DEF f, S
    <3> QED
      BY <2>1, <2>2, <3>2
  <2>5. c[a + j] \in Int
    BY <1>4, <2>2
  <2> QED
    BY <2>3, <2>4, <2>5
<1>6. f[0] = 0 /\ f[n] = g[S]
  <2>1. a + 1 .. a + 0 = {}
    OBVIOUS
  <2> QED
    BY <1>2, <1>3, <2>1
<1>7. \A j \in 0 .. n : f[j] \in Int
  BY <1>2, <1>3
<1> HIDE DEF f
<1> QED
  BY <1>5, <1>6, <1>7 DEF g

-----------------------------------------------------------------------------
(* Numbers by their bytes.                                                 *)

Base == 2^ByteBits

Unit(k) == 2^(ByteBits * k)

\* What a byte weighs at each place of a word.
LEMMA Units ==
  /\ Word4 \in Nat /\ Word4 >= 2 /\ ByteBits * Word4 = XLEN /\ Base \in Nat /\ Base >= 2
  /\ \A k \in 0 .. Word4 : Unit(k) \in Nat \ {0}
  /\ Unit(0) = 1 /\ Unit(1) = Base /\ Unit(Word4) = Mod
  /\ \A j, k \in 0 .. Word4 : j + k <= Word4 => Unit(j + k) = Unit(j) * Unit(k)
<1>1. ByteBits \in Nat \ {0} /\ XLEN \in Nat \ {0} /\ XLEN % ByteBits = 0 /\ XLEN # ByteBits
  BY XlenType, AddrSpaceConstants, LoadStoreConstants
<1>2. XLEN = Word4 * ByteBits /\ Word4 \in Int
  <2>1. XLEN = (XLEN \div ByteBits) * ByteBits + (XLEN % ByteBits) /\ XLEN \div ByteBits \in Int
    BY <1>1, Quotients
  <2>2. (XLEN \div ByteBits) * ByteBits \in Int
    BY <1>1, <2>1
  <2> QED
    BY <1>1, <2>1, <2>2 DEF Word4
<1> HIDE DEF Word4
<1>3. Word4 >= 2 /\ ByteBits * Word4 = XLEN
  <2>1. \A b, w \in Int : b >= 1 /\ w <= 0 => w * b <= 0
    OBVIOUS
  <2>2. Word4 # 1
    BY <1>1, <1>2
  <2>3. ~(Word4 <= 0)
    BY <1>1, <1>2, <2>1
  <2> QED
    BY <1>1, <1>2, <2>2, <2>3
<1>4. ASSUME NEW k \in 0 .. Word4 PROVE ByteBits * k \in 0 .. XLEN
  <2>1. \A b \in Nat, w \in Nat : \A i \in 0 .. w : b * i \in Nat /\ b * i <= b * w
    OBVIOUS
  <2> QED
    BY <1>1, <1>2, <1>3, <2>1
<1>5. \A k \in 0 .. Word4 : Unit(k) \in Nat \ {0}
  BY <1>4, Powers DEF Unit
<1>6. ASSUME NEW j \in 0 .. Word4, NEW k \in 0 .. Word4, j + k <= Word4
      PROVE  Unit(j + k) = Unit(j) * Unit(k)
  <2>1. ByteBits * (j + k) = ByteBits * j + ByteBits * k
    BY <1>1
  <2>2. j + k \in 0 .. Word4
    BY <1>6
  <2>3. ByteBits * j \in Nat /\ ByteBits * k \in Nat /\ ByteBits * j + ByteBits * k <= XLEN
    BY <1>1, <1>4, <2>1, <2>2
  <2>4. 2^(ByteBits * j + ByteBits * k) = 2^(ByteBits * j) * 2^(ByteBits * k)
    BY <2>3, PowersAdd
  <2> QED
    BY <2>1, <2>4 DEF Unit
<1>7. Unit(0) = 1 /\ Unit(1) = Base /\ Unit(Word4) = Mod
  <2>1. ByteBits * 0 = 0 /\ ByteBits * 1 = ByteBits
    BY <1>1
  <2>2. 2^0 = 1
    OBVIOUS
  <2> QED
    BY <1>3, <2>1, <2>2 DEF Unit, Base, Mod
<1>8. Base \in Nat /\ Base >= 2
  <2>1. ByteBits <= XLEN
    <3>1. 1 \in 0 .. Word4
      BY <1>2, <1>3
    <3>2. ByteBits * 1 \in 0 .. XLEN
      BY <1>4, <3>1
    <3> QED
      BY <1>1, <3>2
  <2>2. PICK i \in 0 .. XLEN - 1 : i + 1 = ByteBits
    BY <1>1, <2>1
  <2>3. 2^(i + 1) = 2 * 2^i /\ 2^i \in Nat \ {0}
    BY <1>1, Powers
  <2> QED
    BY <2>2, <2>3 DEF Base
<1> QED
  BY <1>2, <1>3, <1>5, <1>6, <1>7, <1>8

\* f adds up the bytes d, the lowest first.
AddsUp(n, d, f) ==
  /\ f[0] = 0
  /\ \A k \in 1 .. n : f[k] = f[k - 1] + d[k] * Unit(k - 1)

\* The bytes of a number are those it was made of.
LEMMA Digits ==
  ASSUME NEW n \in 0 .. Word4, NEW d, \A k \in 1 .. n : d[k] \in Byte, NEW f, AddsUp(n, d, f)
  PROVE  /\ \A k \in 0 .. n : f[k] \in 0 .. Unit(k) - 1
         /\ \A k \in 1 .. n : (f[n] \div Unit(k - 1)) % Base = d[k]
<1>0. /\ Word4 \in Nat /\ Base \in Nat /\ Base >= 2 /\ Unit(0) = 1
      /\ \A k \in 0 .. Word4 : Unit(k) \in Nat \ {0}
  BY Units
<1>1. \A k \in 1 .. n : Unit(k) = Unit(k - 1) * Base
  <2> SUFFICES ASSUME NEW k \in 1 .. n PROVE Unit(k) = Unit(k - 1) * Base
    OBVIOUS
  <2>1. k - 1 \in 0 .. Word4 /\ 1 \in 0 .. Word4 /\ (k - 1) + 1 = k /\ k <= Word4
    BY <1>0
  <2> QED
    BY <2>1, Units
<1>2. \A k \in 1 .. n : d[k] \in 0 .. Base - 1
  BY DEF Byte, Base
<1> HIDE DEF Base
<1>3. \A k \in 0 .. n : f[k] \in 0 .. Unit(k) - 1
  <2> DEFINE Bad == {k \in Nat : k <= n /\ f[k] \notin 0 .. Unit(k) - 1}
  <2>1. ASSUME Bad # {} PROVE FALSE
    <3>1. PICK m \in Bad : \A x \in Bad : m <= x
      BY <2>1, Least
    <3>2. m # 0
      BY <1>0, <3>1 DEF AddsUp
    <3>3. m - 1 \notin Bad /\ m \in 1 .. n /\ m - 1 \in Nat /\ m - 1 <= n /\ m - 1 \in 0 .. Word4
      BY <1>0, <3>1, <3>2
    <3>4. f[m - 1] \in 0 .. Unit(m - 1) - 1
      BY <3>3
    <3>5. PICK u \in Nat \ {0}, e \in 0 .. Base - 1 : u = Unit(m - 1) /\ e = d[m]
      BY <1>0, <1>2, <3>3
    <3>6. f[m] = f[m - 1] + e * u /\ Unit(m) = u * Base
      BY <1>1, <3>3, <3>5 DEF AddsUp
    <3>7. \A b \in Nat : \A x \in 0 .. b - 1, v \in Nat : 0 <= x * v /\ x * v + v <= v * b
      <4> SUFFICES ASSUME NEW b \in Nat, NEW x \in 0 .. b - 1, NEW v \in Nat
                   PROVE  0 <= x * v /\ x * v + v <= v * b
        OBVIOUS
      <4>1. x * v + v = v * (x + 1)
        OBVIOUS
      <4>2. v * (x + 1) <= v * b
        OBVIOUS
      <4> QED
        BY <4>1, <4>2
    <3>8. 0 <= e * u /\ e * u + u <= u * Base
      BY <1>0, <3>5, <3>7
    <3>9. PICK p, q \in Int : p = e * u /\ q = u * Base
      BY <1>0, <3>5
    <3>10. f[m] \in 0 .. Unit(m) - 1
      BY <3>4, <3>5, <3>6, <3>8, <3>9
    <3> QED
      BY <3>1, <3>10
  <2> QED
    BY <2>1
<1>4. ASSUME NEW k \in 1 .. n PROVE (f[n] \div Unit(k - 1)) % Base = d[k]
  <2>0. PICK u \in Nat \ {0}, e \in 0 .. Base - 1 : u = Unit(k - 1) /\ e = d[k]
    <3>1. k - 1 \in 0 .. Word4
      BY <1>0
    <3> QED
      BY <1>0, <1>2, <3>1
  <2> DEFINE Bad == {m \in Nat : k <= m /\ m <= n /\ ~ \E q \in Int : f[m] = f[k] + (q * Base) * u}
  <2>1. ASSUME Bad # {} PROVE FALSE
    <3>1. PICK m \in Bad : \A x \in Bad : m <= x
      BY <2>1, Least
    <3>2. m # k
      <4>1. f[k] \in Int /\ (0 * Base) * u = 0
        BY <1>0, <1>3
      <4> QED
        BY <3>1, <4>1
    <3>3. m - 1 \notin Bad /\ m \in 1 .. n /\ m - 1 \in Nat /\ k <= m - 1 /\ m - 1 <= n
      BY <3>1, <3>2
    <3>4. PICK q \in Int : f[m - 1] = f[k] + (q * Base) * u
      BY <3>3
    <3>5. PICK r \in Nat : Unit(m - 1) = (r * Base) * u
      <4>1. m - 1 - k \in 0 .. Word4 /\ k \in 0 .. Word4 /\ (m - 1 - k) + k = m - 1 /\ m - 1 <= Word4
        BY <1>0, <3>3
      <4>2. Unit(m - 1) = Unit(m - 1 - k) * Unit(k)
        BY <4>1, Units
      <4>3. PICK r \in Nat : r = Unit(m - 1 - k)
        BY <1>0, <4>1
      <4>4. Unit(k) = u * Base
        BY <1>1, <2>0
      <4>5. \A x, y, z \in Nat : x * (y * z) = (x * z) * y
        OBVIOUS
      <4> QED
        BY <1>0, <4>2, <4>3, <4>4, <4>5
    <3>6. PICK x \in Nat : x = d[m]
      BY <1>0, <1>2, <3>3
    <3>7. f[m] = (f[k] + (q * Base) * u) + x * ((r * Base) * u)
      BY <3>3, <3>4, <3>5, <3>6 DEF AddsUp
    <3>8. f[m] = f[k] + ((q + x * r) * Base) * u
      <4>1. PICK y \in Int : y = f[k]
        BY <1>3
      <4>2. \A b, v, s, t, w, z \in Int : (z + (s * b) * v) + w * ((t * b) * v) = z + ((s + w * t) * b) * v
        OBVIOUS
      <4> QED
        BY <1>0, <3>7, <4>1, <4>2
    <3>9. q + x * r \in Int
      OBVIOUS
    <3> QED
      BY <3>1, <3>8, <3>9
  <2>2. PICK q \in Int : f[n] = f[k] + (q * Base) * u
    BY <2>1
  <2>3. PICK y \in 0 .. u - 1 : y = f[k - 1]
    BY <1>3, <2>0
  <2>4. f[n] = y + (e + q * Base) * u
    <3>1. f[k] = y + e * u
      BY <2>0, <2>3 DEF AddsUp
    <3>2. \A b, v, s, w, z \in Int : (z + w * v) + (s * b) * v = z + (w + s * b) * v
      OBVIOUS
    <3> QED
      BY <1>0, <2>2, <3>1, <3>2
  <2>5. PICK t \in Int : t = e + q * Base
    BY <1>0
  <2>6. (y + t * u) \div u = t
    <3>1. (y + t * u) \div u = (y \div u) + t
      BY Multiples
    <3>2. \A v \in Nat \ {0} : \A z \in 0 .. v - 1 : z \div v = 0
      OBVIOUS
    <3> QED
      BY <2>3, <3>1, <3>2
  <2>7. t % Base = e
    <3>1. (e + q * Base) % Base = e % Base
      BY <1>0, Multiples
    <3>2. \A b \in Nat \ {0} : \A z \in 0 .. b - 1 : z % b = z
      OBVIOUS
    <3> QED
      BY <1>0, <2>5, <3>1, <3>2
  <2> QED
    BY <2>0, <2>4, <2>5, <2>6, <2>7
<1> QED
  BY <1>3, <1>4

-----------------------------------------------------------------------------
(* What a load makes of its bytes.                                         *)

\* A number is the sum of its bytes.
LEMMA UnsignedAddsUp ==
  ASSUME NEW data \in Seq(Byte)
  PROVE  \E f : /\ AddsUp(Len(data), data, f) /\ f[Len(data)] = Unsigned(data)
                /\ \A k \in 0 .. Len(data) : f[k] \in Int
<1> DEFINE n == Len(data)
           S == 0 + 1 .. 0 + n
           c == [k \in S |-> data[k] * Unit(k - 1)]
<1>1. n \in Nat /\ DOMAIN data = 1 .. n /\ DOMAIN data = S /\ \A k \in 1 .. n : data[k] \in Byte
  OBVIOUS
<1>2. \A v \in Byte : v \in Int
  <2>1. \A k \in Nat : 2^k \in Int
    OBVIOUS
  <2>2. 2^ByteBits \in Int
    BY <2>1, AddrSpaceConstants
  <2> QED
    BY <2>2 DEF Byte
<1>3. \A k \in 1 .. n : Unit(k - 1) \in Int
  <2>1. \A k \in Nat : 2^k \in Int
    OBVIOUS
  <2>2. \A k \in 1 .. n : ByteBits * (k - 1) \in Nat
    BY <1>1, AddrSpaceConstants
  <2> QED
    BY <2>1, <2>2 DEF Unit
<1>4. c \in [S -> Int]
  <2>1. \A k \in S : data[k] \in Int /\ Unit(k - 1) \in Int
    BY <1>1, <1>2, <1>3
  <2>2. \A x, y \in Int : x * y \in Int
    OBVIOUS
  <2> QED
    BY <2>1, <2>2
<1>5. Unsigned(data) = Summed(c, S)[S]
  <2>1. c = [k \in DOMAIN data |-> data[k] * 2^(ByteBits * (k - 1))]
    BY <1>1 DEF Unit
  <2>2. Unsigned(data) = Summed([k \in DOMAIN data |-> data[k] * 2^(ByteBits * (k - 1))], DOMAIN data)[DOMAIN data]
    BY DEF Unsigned, MapThenSumSet, MapThenFoldSet, Summed, SumStep
  <2> HIDE DEF c, S
  <2> QED
    BY <1>1, <2>1, <2>2
<1>6. PICK f : /\ f[0] = 0 /\ f[n] = Summed(c, S)[S]
               /\ \A j \in 0 .. n : f[j] \in Int
               /\ \A j \in 1 .. n : f[j] = f[j - 1] + c[0 + j]
  <2> HIDE DEF c, n
  <2>1. c \in [0 + 1 .. 0 + n -> Int] /\ n \in Nat /\ 0 \in Int
    BY <1>1, <1>4
  <2> HIDE DEF S
  <2>2. \E f : /\ f[0] = 0 /\ f[n] = Summed(c, 0 + 1 .. 0 + n)[0 + 1 .. 0 + n]
               /\ \A j \in 0 .. n : f[j] \in Int
               /\ \A j \in 1 .. n : f[j] = f[j - 1] + c[0 + j]
    BY <2>1, SumOfRange
  <2> QED
    BY <2>2 DEF S
<1>7. \A j \in 1 .. n : c[0 + j] = data[j] * Unit(j - 1)
  BY <1>1
<1>8. AddsUp(n, data, f)
  <2> HIDE DEF c
  <2> QED
    BY <1>6, <1>7 DEF AddsUp
<1> HIDE DEF c, S
<1> QED
  BY <1>5, <1>6, <1>8

\* The highest bit is the highest byte's.
LEMMA TopBitRight ==
  ASSUME NEW data \in Seq(Byte), Len(data) \in 1 .. Word4, NEW f, AddsUp(Len(data), data, f)
  PROVE  f[Len(data)] >= 2^(ByteBits * Len(data) - 1) <=> Flat!TopBit(data)
<1> DEFINE n == Len(data)
<1>0. n \in 1 .. Word4 /\ n \in 0 .. Word4 /\ n - 1 \in 0 .. Word4 /\ \A k \in 1 .. n : data[k] \in Byte
  <2>1. n \in 1 .. Word4 /\ \A k \in 1 .. n : data[k] \in Byte
    OBVIOUS
  <2>2. Word4 \in Nat
    BY Units
  <2> HIDE DEF n
  <2> QED
    BY <2>1, <2>2
<1>1. PICK u \in Nat \ {0} : u = Unit(n - 1)
  BY <1>0, Units
<1>2. PICK h \in Nat \ {0}, d \in Nat : h = 2^(ByteBits - 1) /\ d = data[n]
  <2>1. ByteBits - 1 \in 0 .. XLEN
    <3>1. ByteBits \in Nat \ {0} /\ XLEN = ByteBits * Word4 /\ Word4 \in Nat /\ Word4 >= 2
      BY Units, AddrSpaceConstants
    <3>2. \A b, w \in Nat : w >= 2 => b <= b * w
      OBVIOUS
    <3> QED
      BY <3>1, <3>2
  <2>2. \A v \in Byte : v \in Nat
    BY Units DEF Byte, Base
  <2> QED
    BY <1>0, <2>1, <2>2, Powers
<1>3. 2^(ByteBits * n - 1) = u * h
  <2>1. ByteBits * n - 1 = ByteBits * (n - 1) + (ByteBits - 1) /\ ByteBits * (n - 1) \in Nat /\ ByteBits - 1 \in Nat
        /\ ByteBits * n - 1 <= XLEN
    <3>1. ByteBits \in Nat \ {0} /\ XLEN = ByteBits * Word4 /\ Word4 \in Nat
      BY Units, AddrSpaceConstants
    <3>2. \A b, w \in Nat : \A i \in 1 .. w : b * i = b * (i - 1) + b /\ b * (i - 1) \in Nat /\ b * i <= b * w
      OBVIOUS
    <3> QED
      BY <1>0, <3>1, <3>2
  <2>2. 2^(ByteBits * (n - 1) + (ByteBits - 1)) = 2^(ByteBits * (n - 1)) * 2^(ByteBits - 1)
    BY <2>1, PowersAdd
  <2> QED
    BY <1>1, <1>2, <2>1, <2>2 DEF Unit
<1>4. f[n] = f[n - 1] + d * u /\ f[n - 1] \in 0 .. u - 1
  <2>1. \A k \in 0 .. n : f[k] \in 0 .. Unit(k) - 1
    BY <1>0, Digits
  <2> QED
    BY <1>0, <1>1, <1>2, <2>1 DEF AddsUp
<1>5. d >= h => d * u >= u * h
  OBVIOUS
<1>6. d < h => d * u + u <= u * h
  <2>1. \A x, y, z \in Nat : x + 1 <= y => (x + 1) * z <= y * z
    OBVIOUS
  <2>2. d * u + u = (d + 1) * u /\ u * h = h * u
    OBVIOUS
  <2> QED
    BY <2>1, <2>2
<1>7. PICK p, q \in Int : p = d * u /\ q = u * h
  OBVIOUS
<1>8. f[n] >= q <=> d >= h
  BY <1>4, <1>5, <1>6, <1>7
<1> QED
  BY <1>2, <1>3, <1>7, <1>8 DEF Flat!TopBit

LEMMA LengthType ==
  /\ \A op \in Loads \cup Stores : Length[op] \in 1 .. Word4 /\ Length[op] \in Nat
  /\ \A op \in Loads \cup Stores : Flat!LengthOf(op) = Length[op]
  /\ Flat!LengthOf("CBO.ZERO") = PageSize
BY Units DEF Loads, Stores, Length, Flat!LengthOf, Word4

\* The register shows the bytes, and their sign where it is extended.
LEMMA GetShows ==
  ASSUME NEW op \in Loads, NEW data \in Seq(Byte), Len(data) \in 1 .. Length[op]
  PROVE  Flat!Shows(Get(op, data), data, op \in {"LB", "LH"} /\ Flat!TopBit(data))
<1> DEFINE n == Len(data)
           neg == op \in {"LB", "LH"} /\ Flat!TopBit(data)
<1>0. n \in 1 .. Word4 /\ n \in 0 .. Word4 /\ DOMAIN data = 1 .. n /\ Word4 \in Nat /\ \A k \in 1 .. n : data[k] \in Byte
  <2>1. n \in 1 .. Word4
    <3>1. PICK l \in 1 .. Word4 : l = Length[op]
      BY LengthType
    <3>2. n \in 1 .. l /\ Word4 \in Nat
      BY <3>1, Units
    <3> HIDE DEF n
    <3> QED
      BY <3>1, <3>2
  <2>2. DOMAIN data = 1 .. n /\ \A k \in 1 .. n : data[k] \in Byte
    OBVIOUS
  <2>3. Word4 \in Nat
    BY Units
  <2> HIDE DEF n
  <2> QED
    BY <2>1, <2>2, <2>3
<1>1. PICK f : /\ AddsUp(n, data, f) /\ f[n] = Unsigned(data) /\ \A k \in 0 .. n : f[k] \in Int
  BY UnsignedAddsUp
<1>2. /\ Base \in Nat /\ Base >= 2 /\ Unit(Word4) = Mod
      /\ \A k \in 0 .. Word4 : Unit(k) \in Nat \ {0}
      /\ \A k \in 1 .. Word4 : Unit(k) = Unit(k - 1) * Base
  <2>1. ASSUME NEW k \in 1 .. Word4 PROVE Unit(k) = Unit(k - 1) * Base
    <3>1. k - 1 \in 0 .. Word4 /\ 1 \in 0 .. Word4 /\ (k - 1) + 1 = k /\ k <= Word4
      BY <1>0
    <3> QED
      BY <3>1, Units
  <2> QED
    BY <2>1, Units
<1> DEFINE e == [k \in 1 .. Word4 |-> IF k <= n THEN data[k] ELSE IF neg THEN Base - 1 ELSE 0]
           g == [k \in 0 .. Word4 |-> IF k <= n THEN f[k] ELSE IF neg THEN f[n] + (Unit(k) - Unit(n)) ELSE f[n]]
<1>3. \A k \in 1 .. Word4 : e[k] \in Byte
  <2>1. Byte = 0 .. Base - 1
    BY DEF Byte, Base
  <2> HIDE DEF Base, n, neg
  <2>2. 0 \in Byte /\ Base - 1 \in Byte
    BY <1>2, <2>1
  <2>3. ASSUME NEW k \in 1 .. Word4 PROVE e[k] \in Byte
    <3>1. CASE k <= n
      <4>1. k \in 1 .. n
        BY <1>0, <3>1
      <4> QED
        BY <1>0, <3>1, <4>1
    <3>2. CASE ~(k <= n) /\ neg
      BY <2>2, <3>2
    <3>3. CASE ~(k <= n) /\ ~neg
      BY <2>2, <3>3
    <3> QED
      BY <3>1, <3>2, <3>3
  <2> QED
    BY <2>3
<1> HIDE DEF Base, neg
<1>4. AddsUp(Word4, e, g)
  <2>1. g[0] = 0
    BY <1>0, <1>1 DEF AddsUp
  <2>2. ASSUME NEW k \in 1 .. Word4 PROVE g[k] = g[k - 1] + e[k] * Unit(k - 1)
    <3>0. k \in 0 .. Word4 /\ k - 1 \in 0 .. Word4
      BY <1>0
    <3>1. CASE k <= n
      <4>1. k \in 1 .. n /\ k - 1 <= n
        BY <1>0, <3>1
      <4> QED
        BY <1>1, <3>0, <3>1, <4>1 DEF AddsUp
    <3>2. CASE k > n /\ neg
      <4>1. PICK u \in Nat, v \in Nat : u = Unit(k - 1) /\ v = Unit(n)
        BY <1>0, <1>2, <3>0
      <4>2. Unit(k) = u * Base /\ e[k] = Base - 1 /\ g[k] = f[n] + (u * Base - v)
        <5> HIDE DEF n
        <5>0. ~(k <= n)
          BY <1>0, <3>2
        <5>1. Unit(k) = u * Base
          BY <1>2, <4>1
        <5>2. e[k] = Base - 1 /\ g[k] = f[n] + (Unit(k) - Unit(n))
          BY <3>0, <3>2, <5>0
        <5> QED
          BY <4>1, <5>1, <5>2
      <4>3. g[k - 1] = f[n] + (u - v)
        <5>1. CASE k - 1 = n
          BY <1>0, <1>1, <3>0, <4>1, <5>1
        <5>2. CASE k - 1 > n
          BY <3>0, <3>2, <4>1, <5>2
        <5> QED
          BY <1>0, <3>2, <5>1, <5>2
      <4>4. u * Base = u + (Base - 1) * u
        BY <1>2
      <4>5. PICK w \in Int : w = f[n]
        BY <1>0, <1>1
      <4>6. PICK p, q \in Int : p = u * Base /\ q = (Base - 1) * u
        BY <1>2
      <4>7. w + (p - v) = (w + (u - v)) + q
        BY <4>4, <4>6
      <4> QED
        BY <4>1, <4>2, <4>3, <4>5, <4>6, <4>7
    <3>3. CASE k > n /\ ~neg
      <4>1. e[k] = 0 /\ g[k] = f[n] /\ g[k - 1] = f[n]
        BY <1>0, <3>0, <3>3
      <4>2. \A x \in Nat : 0 * x = 0
        OBVIOUS
      <4>3. f[n] \in Int
        BY <1>0, <1>1
      <4> QED
        BY <1>2, <3>0, <4>1, <4>2, <4>3
    <3> QED
      BY <1>0, <3>1, <3>2, <3>3
  <2> HIDE DEF e, g
  <2> QED
    BY <2>1, <2>2 DEF AddsUp
<1>5. g[Word4] = IF neg THEN f[n] + (Mod - Unit(n)) ELSE f[n]
  <2>1. Word4 \in 0 .. Word4 /\ (Word4 <= n => Word4 = n)
    <3> HIDE DEF n, e, g
    <3> QED
      BY <1>0
  <2>2. CASE Word4 = n
    <3>1. g[Word4] = f[n] /\ f[n] \in Int /\ Mod = Unit(n) /\ Mod \in Nat
      BY <1>0, <1>1, <1>2, <2>1, <2>2, Remainders
    <3> QED
      BY <3>1
  <2>3. CASE Word4 # n
    BY <1>2, <2>1, <2>3
  <2> QED
    BY <2>2, <2>3
<1> HIDE DEF g, e
<1>6. /\ g[Word4] \in Words
      /\ \A k \in 1 .. Word4 : (g[Word4] \div Unit(k - 1)) % Base = e[k]
  <2>1. Word4 \in 0 .. Word4
    BY <1>0
  <2>2. /\ \A k \in 0 .. Word4 : g[k] \in 0 .. Unit(k) - 1
        /\ \A k \in 1 .. Word4 : (g[Word4] \div Unit(k - 1)) % Base = e[k]
    BY <1>3, <1>4, <2>1, Digits
  <2> QED
    BY <1>2, <2>1, <2>2 DEF Words
<1>7. Get(op, data) = g[Word4]
  <2>1. op \in Signed <=> op \in {"LB", "LH"}
    BY DEF Signed
  <2>2. f[n] >= 2^(ByteBits * n - 1) <=> Flat!TopBit(data)
    BY <1>0, <1>1, TopBitRight
  <2>3. FromBytes(data, op \in Signed) = IF neg THEN f[n] - Unit(n) ELSE f[n]
    BY <1>1, <2>1, <2>2 DEF FromBytes, neg, Unit
  <2>4. PICK w \in Words : w = g[Word4]
    BY <1>6
  <2>5. w \in Int /\ ToReg(w) = w /\ Mod \in Nat \ {0}
    BY Remainders
  <2>6. CASE neg
    <3>1. f[n] - Unit(n) = w + (-1) * Mod
      <4>1. f[n] \in Int /\ Unit(n) \in Int
        BY <1>0, <1>1, <1>2
      <4>2. PICK m \in Int : m = Mod
        BY <2>5
      <4> QED
        BY <1>5, <2>4, <2>6, <4>1, <4>2
    <3>2. (w + (-1) * Mod) % Mod = w % Mod
      <4>1. PICK k \in Int : k = -1
        OBVIOUS
      <4> HIDE DEF Mod
      <4>2. (w + k * Mod) % Mod = w % Mod
        BY <2>5, Multiples
      <4> QED
        BY <4>1, <4>2
    <3> QED
      BY <2>3, <2>4, <2>5, <2>6, <3>1, <3>2 DEF Get, ToReg
  <2>7. CASE ~neg
    BY <1>5, <2>3, <2>4, <2>5, <2>7 DEF Get
  <2> QED
    BY <2>6, <2>7
<1>8. ASSUME NEW k \in 1 .. Word4
      PROVE  Flat!ByteOf(Get(op, data), k) = IF k \in DOMAIN data THEN data[k] ELSE IF neg THEN 2^ByteBits - 1 ELSE 0
  <2>1. Flat!ByteOf(Get(op, data), k) = (Get(op, data) \div Unit(k - 1)) % Base
    BY DEF Flat!ByteOf, Unit, Base
  <2>2. e[k] = IF k \in DOMAIN data THEN data[k] ELSE IF neg THEN Base - 1 ELSE 0
    BY <1>0 DEF e
  <2> QED
    BY <1>6, <1>7, <2>1, <2>2 DEF Base
<1> QED
  BY <1>8 DEF Flat!Shows, Word4, neg

-----------------------------------------------------------------------------
(* Addresses and their pages.                                              *)

LEMMA Pages ==
  /\ PageSize \in Nat \ {0} /\ \E q \in Nat \ {0} : Mod = q * PageSize /\ Page = 0 .. q - 1
  /\ \A v \in Words : v \div PageSize \in Page /\ v % Mod = v
  /\ \A v \in Int : (v % Mod) \div PageSize \in Page
<1>1. PageBits \in 1 .. XLEN - 1 /\ XLEN \in Nat \ {0}
  BY AccelConstants, XlenType
<1>2. PICK b \in 0 .. XLEN : b = XLEN - PageBits
  BY <1>1
<1>3. PageBits \in Nat /\ b \in Nat /\ PageBits + b = XLEN /\ PageBits \in 0 .. XLEN
  BY <1>1, <1>2
<1>4. PICK p, q \in Nat \ {0} : p = 2^PageBits /\ q = 2^b
  BY <1>3, Powers
<1>5. Mod = p * q
  <2>1. 2^(PageBits + b) = 2^PageBits * 2^b
    BY <1>3, PowersAdd
  <2> QED
    BY <1>3, <1>4, <2>1 DEF Mod
<1>6. PageSize = p
  BY <1>4 DEF PageSize
<1>7. \A x, y \in Nat \ {0} : (x * y) \div x = y /\ x * y = y * x
  OBVIOUS
<1>8. Mod = q * p /\ Page = 0 .. q - 1
  BY <1>5, <1>6, <1>7 DEF Page
<1>9. \A x, y \in Nat \ {0} : \A v \in 0 .. y * x - 1 : v \div x \in 0 .. y - 1
  <2> SUFFICES ASSUME NEW x \in Nat \ {0}, NEW y \in Nat \ {0}, NEW v \in 0 .. y * x - 1
               PROVE  v \div x \in 0 .. y - 1
    OBVIOUS
  <2>1. PICK d \in Int : d = v \div x /\ d * x <= v /\ v < (d + 1) * x
    BY Quotients
  <2>2. \A c, e \in Int : c <= e => c * x <= e * x
    OBVIOUS
  <2>3. PICK t \in Int : t = y * x
    OBVIOUS
  <2>4. d < y
    <3>1. d >= y => d * x >= y * x
      BY <2>2
    <3> QED
      BY <2>1, <2>3, <3>1
  <2>5. d >= 0
    <3>1. d + 1 <= 0 => (d + 1) * x <= 0 * x
      BY <2>2
    <3> QED
      BY <2>1, <3>1
  <2> QED
    BY <2>1, <2>4, <2>5
<1>10. Words = 0 .. q * p - 1 /\ Mod \in Nat \ {0}
  BY <1>8, Remainders DEF Words
<1>11. ASSUME NEW v \in Words PROVE v \div p \in 0 .. q - 1
  BY <1>9, <1>10
<1>12. \A v \in Words : v % Mod = v
  BY Remainders DEF ToReg
<1>13. \A v \in Int : v % Mod \in Words
  BY Remainders DEF ToReg
<1> QED
  BY <1>6, <1>8, <1>11, <1>12, <1>13

\* Page and offset of an address.
LEMMA PageParts ==
  ASSUME NEW v \in Int
  PROVE  \E d \in Int, r \in 0 .. PageSize - 1 :
           /\ d = v \div PageSize /\ r = v % PageSize /\ v = d * PageSize + r
           /\ v < (d + 1) * PageSize /\ (v >= 0 => d >= 0)
<1>1. PICK m \in Nat \ {0} : m = PageSize
  BY Pages
<1>2. PICK d \in Int : d = v \div m
  OBVIOUS
<1>3. PICK r \in 0 .. m - 1 : r = v % m
  OBVIOUS
<1>4. v = d * m + r /\ v < (d + 1) * m
  BY <1>2, <1>3, Quotients
<1>5. v >= 0 => d >= 0
  <2>1. \A n \in Nat \ {0} : \A x \in Nat : x \div n >= 0
    OBVIOUS
  <2> QED
    BY <1>2, <2>1
<1> QED
  BY <1>1, <1>2, <1>3, <1>4, <1>5

\* Addresses of a page are of one page also after they are cut to a word.
LEMMA WrappedPage ==
  ASSUME NEW u \in Int, NEW v \in Int, u \div PageSize = v \div PageSize
  PROVE  (u % Mod) \div PageSize = (v % Mod) \div PageSize /\ (u % Mod) \div PageSize \in Page
<1>1. PICK m \in Nat \ {0}, q \in Nat \ {0} : m = PageSize /\ Mod = q * m
  BY Pages
<1>2. ASSUME NEW x \in Int PROVE (x % Mod) \div m = (x \div m) % q
  <2>1. PICK d, e \in Int : d = x \div m /\ e = d \div q
    <3>1. x \div m \in Int
      BY Quotients
    <3>2. PICK d \in Int : d = x \div m
      BY <3>1
    <3>3. d \div q \in Int
      BY Quotients
    <3> QED
      BY <3>2, <3>3
  <2>2. PICK r \in 0 .. m - 1, s \in 0 .. q - 1 : x = d * m + r /\ d = e * q + s /\ s = d % q
    <3>1. x = d * m + (x % m) /\ x % m \in 0 .. m - 1
      BY <2>1, Quotients
    <3>2. d = e * q + (d % q) /\ d % q \in 0 .. q - 1
      BY <2>1, Quotients
    <3> QED
      BY <3>1, <3>2
  <2>3. PICK y \in Int : y = r + s * m
    OBVIOUS
  <2>4. x = y + e * (q * m)
    <3>1. (e * q + s) * m + r = (r + s * m) + e * (q * m)
      OBVIOUS
    <3> QED
      BY <2>2, <2>3, <3>1
  <2>5. y \in 0 .. q * m - 1
    <3>1. \A a, b \in Int : a <= b => a * m <= b * m
      OBVIOUS
    <3>2. (s + 1) * m <= q * m /\ 0 * m <= s * m
      BY <3>1
    <3>3. (s + 1) * m = s * m + m /\ 0 * m = 0
      OBVIOUS
    <3>4. PICK t, w \in Int : t = s * m /\ w = q * m
      OBVIOUS
    <3> QED
      BY <2>3, <3>2, <3>3, <3>4
  <2>6. x % (q * m) = y
    <3>1. PICK w \in Nat \ {0} : w = q * m
      OBVIOUS
    <3>2. (y + e * w) % w = y % w
      BY Multiples
    <3>3. \A k \in Nat \ {0} : \A z \in 0 .. k - 1 : z % k = z
      OBVIOUS
    <3>4. y % w = y
      BY <2>5, <3>1, <3>3
    <3> QED
      BY <2>4, <3>1, <3>2, <3>4
  <2>7. y \div m = s
    <3>1. (r + s * m) \div m = (r \div m) + s
      BY Multiples
    <3>2. \A k \in Nat \ {0} : \A z \in 0 .. k - 1 : z \div k = 0
      OBVIOUS
    <3>3. r \div m = 0
      BY <3>2
    <3> QED
      BY <2>3, <3>1, <3>3
  <2> QED
    BY <1>1, <2>1, <2>2, <2>6, <2>7
<1>3. (u % Mod) \div m = (v % Mod) \div m
  BY <1>1, <1>2
<1>4. (u % Mod) \div PageSize \in Page
  BY Pages
<1> QED
  BY <1>1, <1>3, <1>4

\* An access inside a page ends where its first byte is sent, and onwards.
LEMMA InsidePage ==
  ASSUME map \in Maps \cup {None}, NEW addr \in Int, NEW k \in Nat, (addr % PageSize) + k < PageSize
  PROVE  /\ translate_addr(addr + k) = translate_addr(addr) + k
         /\ translate_addr(addr) % PageSize = addr % PageSize
<1>1. PageSize \in Nat \ {0}
  BY Pages
<1>2. PICK d \in Int, r \in 0 .. PageSize - 1 :
        addr = d * PageSize + r /\ r = addr % PageSize /\ d = addr \div PageSize
  BY PageParts
<1>3. (addr + k) \div PageSize = d /\ (addr + k) % PageSize = r + k /\ addr + k \in Int
  <2> HIDE DEF PageSize
  <2>1. PICK x \in 0 .. PageSize - 1 : x = r + k
    <3>1. r + k < PageSize
      BY <1>2
    <3> QED
      BY <1>1, <3>1
  <2>2. (x + d * PageSize) \div PageSize = x \div PageSize + d /\ (x + d * PageSize) % PageSize = x % PageSize
    BY <1>1, Multiples
  <2>3. \A m \in Nat \ {0} : \A y \in 0 .. m - 1 : y \div m = 0 /\ y % m = y
    OBVIOUS
  <2>4. PICK t \in Int : t = d * PageSize
    BY <1>1
  <2>5. addr + k = x + t /\ x \div PageSize = 0 /\ x % PageSize = x
    <3>1. x \div PageSize = 0 /\ x % PageSize = x
      BY <1>1, <2>3
    <3>2. addr = t + r
      BY <1>2, <2>4
    <3> QED
      BY <2>1, <3>1, <3>2
  <2> QED
    BY <2>1, <2>2, <2>4, <2>5
<1>4. CASE map = None
  BY <1>1, <1>2, <1>4 DEF translate_addr
<1>5. CASE map # None
  <2>0. PICK y \in Int : y = addr + k
    BY <1>3
  <2>1. (y % Mod) \div PageSize = (addr % Mod) \div PageSize /\ (addr % Mod) \div PageSize \in Page
    BY <1>2, <1>3, <2>0, WrappedPage
  <2>2. PICK f \in Nat : f = map[(addr % Mod) \div PageSize]
    BY <1>5, <2>1, AccelConstants
  <2> HIDE DEF PageSize
  <2>3. PICK t \in Int : t = f * PageSize
    BY <1>1
  <2>4. translate_addr(addr) = t + r /\ translate_addr(y) = t + (r + k)
    BY <1>2, <1>3, <1>5, <2>0, <2>1, <2>2, <2>3 DEF translate_addr
  <2>5. (r + f * PageSize) % PageSize = r % PageSize /\ r % PageSize = r
    <3>1. \A m \in Nat \ {0} : \A x \in 0 .. m - 1 : x % m = x
      OBVIOUS
    <3>2. (r + f * PageSize) % PageSize = r % PageSize
      BY <1>1, Multiples
    <3> QED
      BY <1>1, <3>1, <3>2
  <2>6. translate_addr(addr) = r + f * PageSize
    BY <2>3, <2>4
  <2>7. translate_addr(addr) % PageSize = r
    BY <2>5, <2>6
  <2>8. t + (r + k) = (t + r) + k
    OBVIOUS
  <2> QED
    BY <1>2, <2>0, <2>4, <2>7, <2>8
<1> QED
  BY <1>4, <1>5

\* Both specifications translate alike.
LEMMA SameReal == \A v : Flat!Real(v) = translate_addr(v)
BY DEF Flat!Real, translate_addr, Flat!Mod, Mod

\* What a cache may hold.
CacheInv ==
  /\ DOMAIN accel_cache = Tag
  /\ \A tag \in Tag : accel_cache[tag] # None =>
       accel_cache[tag].addr \in Int /\ accel_cache[tag].paddr = translate_addr(accel_cache[tag].addr)

CachePositive == \A tag \in Tag : accel_cache[tag] # None => accel_cache[tag].addr >= 0

LEMMA TranslateType ==
  ASSUME map \in Maps \cup {None}, NEW addr \in Int
  PROVE  translate_addr(addr) \in Int
<1>1. PageSize \in Nat \ {0} /\ (addr % Mod) \div PageSize \in Page /\ addr % PageSize \in Int
  BY Pages, Quotients
<1>2. CASE map = None
  BY <1>2 DEF translate_addr
<1>3. CASE map # None
  <2>1. map \in [Page -> Nat]
    BY <1>3, AccelConstants
  <2>2. PICK f \in Nat : f = map[(addr % Mod) \div PageSize]
    BY <1>1, <2>1
  <2>3. f * PageSize + (addr % PageSize) \in Int
    BY <1>1
  <2> QED
    BY <1>3, <2>2, <2>3 DEF translate_addr
<1> QED
  BY <1>2, <1>3

LEMMA AccelType ==
  ASSUME map \in Maps \cup {None}, CacheInv, NEW tag \in Tag, NEW addr \in Int
  PROVE  translate_addr_accel(tag, addr) \in Int
<1>1. CASE Hits(tag, addr)
  <2>1. accel_cache[tag].addr \in Int /\ accel_cache[tag].paddr = translate_addr(accel_cache[tag].addr)
    BY <1>1 DEF CacheInv, Hits
  <2>2. accel_cache[tag].paddr \in Int
    BY <2>1, TranslateType
  <2> QED
    BY <1>1, <2>1, <2>2 DEF translate_addr_accel
<1>2. CASE ~Hits(tag, addr)
  BY <1>2, TranslateType DEF translate_addr_accel
<1> QED
  BY <1>1, <1>2

\* Numbers below zero aside, the cache answers as the tables would.
LEMMA AccelCurrent ==
  ASSUME map \in Maps \cup {None}, CacheInv, CachePositive, NEW tag \in Tag, NEW addr \in Nat
  PROVE  translate_addr_accel(tag, addr) = translate_addr(addr)
<1>1. CASE ~Hits(tag, addr)
  BY <1>1 DEF translate_addr_accel
<1>2. CASE Hits(tag, addr)
  <2>1. PICK prev \in Nat : /\ prev = accel_cache[tag].addr /\ accel_cache[tag].paddr = translate_addr(prev)
                            /\ Hit(addr, prev)
    BY <1>2 DEF CacheInv, CachePositive, Hits
  <2>2. addr \div PageSize = prev \div PageSize /\ PageSize \in Nat \ {0}
    BY <2>1, Pages DEF Hit
  <2>3. PICK d, r, s \in Int : /\ addr = d * PageSize + r /\ r = addr % PageSize
                               /\ prev = d * PageSize + s /\ s = prev % PageSize
    <3> HIDE DEF PageSize
    <3>1. PICK d, r \in Int : d = addr \div PageSize /\ r = addr % PageSize /\ addr = d * PageSize + r
      BY <2>2, PageParts
    <3>2. PICK e, s \in Int : e = prev \div PageSize /\ s = prev % PageSize /\ prev = e * PageSize + s
      BY <2>2, PageParts
    <3> QED
      BY <2>2, <3>1, <3>2
  <2>4. /\ (addr % Mod) \div PageSize = (prev % Mod) \div PageSize
        /\ (addr % Mod) \div PageSize \in Page
    <3>1. addr \in Int /\ prev \in Int
      OBVIOUS
    <3> HIDE DEF PageSize, Mod
    <3> QED
      BY <2>2, <3>1, WrappedPage
  <2> HIDE DEF PageSize
  <2>5. PICK t \in Int : t = d * PageSize
    BY <2>2
  <2>6. CASE map = None
    <3>1. translate_addr(addr) = addr /\ translate_addr(prev) = prev
      BY <2>6 DEF translate_addr
    <3> QED
      BY <1>2, <2>1, <3>1 DEF translate_addr_accel
  <2>7. CASE map # None
    <3>1. PICK f \in Nat : f = map[(addr % Mod) \div PageSize]
      BY <2>4, <2>7, AccelConstants
    <3>2. PICK g \in Int : g = f * PageSize
      BY <2>2
    <3>3. translate_addr(addr) = g + r /\ translate_addr(prev) = g + s
      BY <2>3, <2>4, <2>7, <3>1, <3>2 DEF translate_addr
    <3>4. addr = t + r /\ prev = t + s
      BY <2>3, <2>5
    <3>5. (g + s) + addr - prev = g + r
      BY <3>4
    <3> QED
      BY <1>2, <2>1, <3>3, <3>5 DEF translate_addr_accel
  <2> QED
    BY <2>6, <2>7
<1> QED
  BY <1>1, <1>2

-----------------------------------------------------------------------------
(* Which space serves an address.                                          *)

Inside(i, p) == contain(sub_space[i], p)

LEMMA Spaces ==
  ASSUME sub_space \in Machines
  PROVE  /\ \A i \in DOMAIN sub_space :
              /\ i \in Nat \ {0} /\ sub_space[i] \in Space
              /\ sub_space[i].base \in Nat /\ sub_space[i].size \in Nat \ {0}
              /\ sub_space[i].kind \in {"memory", "uart"}
         /\ \A i \in DOMAIN sub_space, p \in Int :
              Inside(i, p) <=> p \in AddressesOf(sub_space[i])
         /\ \A i \in DOMAIN sub_space, p \in Int : Inside(i, p) => p \in Words
         /\ \A i, j \in DOMAIN sub_space, p \in Int : Inside(i, p) /\ Inside(j, p) => i = j
<1>1. sub_space \in Seq(Space)
  BY AddrSpaceConstants
<1>2. \A i \in DOMAIN sub_space : i \in Nat \ {0} /\ sub_space[i] \in Space
  BY <1>1
<1>3. \A i \in DOMAIN sub_space :
        /\ sub_space[i].base \in Nat /\ sub_space[i].size \in Nat \ {0}
        /\ sub_space[i].kind \in {"memory", "uart"}
  BY <1>2 DEF Space
<1>4. ASSUME NEW i \in DOMAIN sub_space, NEW p \in Int
      PROVE  Inside(i, p) <=> p \in AddressesOf(sub_space[i])
  <2>1. PICK b, s \in Nat : b = sub_space[i].base /\ s = sub_space[i].size
    BY <1>3
  <2>2. p \in b .. b + s - 1 <=> b <= p /\ p <= b + s - 1
    OBVIOUS
  <2> QED
    BY <2>1, <2>2 DEF Inside, contain, AddressesOf
<1>5. \A i \in DOMAIN sub_space : AddressesOf(sub_space[i]) \subseteq Words
  BY AddrSpaceConstants
<1>6. \A i, j \in DOMAIN sub_space :
        i # j => AddressesOf(sub_space[i]) \cap AddressesOf(sub_space[j]) = {}
  BY AddrSpaceConstants
<1>7. \A i, j \in DOMAIN sub_space, p \in Int : Inside(i, p) /\ Inside(j, p) => i = j
  BY <1>4, <1>6
<1> QED
  BY <1>2, <1>3, <1>4, <1>5, <1>7

\* The space with the first byte is the only one that has it.
LEMMA Routing ==
  ASSUME sub_space \in Machines, NEW p \in Int
  PROVE  /\ \A i \in DOMAIN sub_space : Inside(i, p) =>
              /\ Route(p) = i /\ KindAt(p) = sub_space[i].kind
              /\ Room(p) = sub_space[i].base + sub_space[i].size - p
              /\ Flat!Kind(p) = sub_space[i].kind /\ Flat!Rest(p) = Room(p)
         /\ (\A i \in DOMAIN sub_space : ~Inside(i, p)) => KindAt(p) = "none" /\ Flat!Kind(p) = "none"
<1> DEFINE found == {i \in DOMAIN sub_space : contain(sub_space[i], p)}
           here == {s \in Range(sub_space) : s.base <= p /\ p < s.base + s.size}
<1>1. Route(p) = IF found = {} THEN 0 ELSE CHOOSE i \in found : \A j \in found : i <= j
  BY DEF Route
<1>2. /\ Flat!Kind(p) = IF here = {} THEN "none" ELSE (CHOOSE s \in here : TRUE).kind
      /\ Flat!Rest(p) = (CHOOSE s \in here : TRUE).base + (CHOOSE s \in here : TRUE).size - p
  BY DEF Flat!Kind, Flat!Rest, Flat!At, Flat!Here, Flat!Range, Range
<1>3. Range(sub_space) = {sub_space[i] : i \in DOMAIN sub_space}
  BY DEF Range
<1>4. here = {sub_space[i] : i \in found}
  <2>1. ASSUME NEW i \in DOMAIN sub_space
        PROVE  contain(sub_space[i], p) <=> sub_space[i].base <= p /\ p < sub_space[i].base + sub_space[i].size
    <3>1. PICK b, s \in Nat : b = sub_space[i].base /\ s = sub_space[i].size
      BY Spaces
    <3>2. b <= p /\ p <= b + s - 1 <=> b <= p /\ p < b + s
      OBVIOUS
    <3> QED
      BY <3>1, <3>2 DEF contain
  <2> QED
    BY <1>3, <2>1
<1>5. ASSUME NEW i \in DOMAIN sub_space, Inside(i, p)
      PROVE  /\ Route(p) = i /\ KindAt(p) = sub_space[i].kind
             /\ Room(p) = sub_space[i].base + sub_space[i].size - p
             /\ Flat!Kind(p) = sub_space[i].kind /\ Flat!Rest(p) = Room(p)
  <2>1. found = {i}
    BY <1>5, Spaces DEF Inside
  <2>2. i \in Nat \ {0}
    BY Spaces
  <2>3. (CHOOSE n \in {i} : \A j \in {i} : n <= j) = i
    BY <2>2
  <2> HIDE DEF found, here
  <2>4. Route(p) = i
    BY <1>1, <2>1, <2>3
  <2>5. here = {sub_space[i]}
    BY <1>4, <2>1
  <2>6. /\ Flat!Kind(p) = sub_space[i].kind
        /\ Flat!Rest(p) = sub_space[i].base + sub_space[i].size - p
    BY <1>2, <2>5
  <2>7. KindAt(p) = sub_space[i].kind /\ Room(p) = sub_space[i].base + sub_space[i].size - p
    BY <2>2, <2>4 DEF KindAt, Room
  <2> QED
    BY <2>4, <2>6, <2>7
<1>6. ASSUME \A i \in DOMAIN sub_space : ~Inside(i, p)
      PROVE  KindAt(p) = "none" /\ Flat!Kind(p) = "none"
  <2>1. found = {}
    BY <1>6 DEF Inside
  <2> HIDE DEF found, here
  <2>2. here = {}
    BY <1>4, <2>1
  <2> QED
    BY <1>1, <1>2, <2>1, <2>2 DEF KindAt
<1> QED
  BY <1>5, <1>6

LEMMA SameKind ==
  ASSUME sub_space \in Machines, NEW p \in Int
  PROVE  /\ KindAt(p) = Flat!Kind(p) /\ KindAt(p) \in {"memory", "uart", "none"}
         /\ KindAt(p) # "none" => Flat!Rest(p) = Room(p)
<1>1. CASE \E i \in DOMAIN sub_space : Inside(i, p)
  <2>1. PICK i \in DOMAIN sub_space : Inside(i, p)
    BY <1>1
  <2>2. KindAt(p) = sub_space[i].kind /\ Flat!Kind(p) = sub_space[i].kind /\ Flat!Rest(p) = Room(p)
    BY <2>1, Routing
  <2>3. sub_space[i].kind \in {"memory", "uart"}
    BY Spaces
  <2> QED
    BY <2>2, <2>3
<1>2. CASE \A i \in DOMAIN sub_space : ~Inside(i, p)
  BY <1>2, Routing
<1> QED
  BY <1>1, <1>2

\* Where the bytes of memories are.
Homes == {q \in Words : KindAt(q) = "memory"}

LEMMA HomesListed ==
  ASSUME sub_space \in Machines
  PROVE  /\ UNION {AddressesOf(s) : s \in {t \in Range(sub_space) : t.kind = "memory"}} = Homes
         /\ {q \in Words : Flat!Kind(q) = "memory"} = Homes
         /\ \A q \in Homes : q \in Nat /\ q \in Int
<1>1. \A q \in Words : q \in Nat /\ q \in Int
  BY Remainders
<1>2. \A q \in Words : KindAt(q) = Flat!Kind(q)
  BY <1>1, SameKind
<1>3. ASSUME NEW q \in Homes PROVE \E i \in DOMAIN sub_space : sub_space[i].kind = "memory" /\ Inside(i, q)
  <2>1. q \in Int /\ KindAt(q) = "memory"
    BY <1>1 DEF Homes
  <2>2. PICK i \in DOMAIN sub_space : Inside(i, q)
    BY <2>1, Routing
  <2> QED
    BY <2>1, <2>2, Routing
<1>4. ASSUME NEW i \in DOMAIN sub_space, sub_space[i].kind = "memory", NEW q \in AddressesOf(sub_space[i])
      PROVE  q \in Homes
  <2>1. q \in Int
    BY Spaces DEF AddressesOf
  <2>2. Inside(i, q) /\ q \in Words
    BY <2>1, Spaces
  <2>3. KindAt(q) = "memory"
    BY <1>4, <2>1, <2>2, Routing
  <2> QED
    BY <2>2, <2>3 DEF Homes
<1>5. \A i \in DOMAIN sub_space, q \in Homes : Inside(i, q) => q \in AddressesOf(sub_space[i])
  BY <1>1, Spaces DEF Homes
<1>6. Range(sub_space) = {sub_space[i] : i \in DOMAIN sub_space}
  BY DEF Range
<1>7. UNION {AddressesOf(s) : s \in {t \in Range(sub_space) : t.kind = "memory"}} = Homes
  BY <1>3, <1>4, <1>5, <1>6
<1> QED
  BY <1>1, <1>2, <1>7 DEF Homes

\* The bytes of an access are in the memory that has the first, as far as
\* there is room for them.
LEMMA RoomRight ==
  ASSUME sub_space \in Machines, NEW p \in Int, KindAt(p) = "memory"
  PROVE  /\ p \in Homes /\ Room(p) \in Nat \ {0}
         /\ \A k \in Nat : k < Room(p) => p + k \in Homes
<1>1. PICK i \in DOMAIN sub_space : Inside(i, p)
  BY Routing
<1>2. sub_space[i].kind = "memory" /\ Room(p) = sub_space[i].base + sub_space[i].size - p
  BY <1>1, Routing
<1>3. PICK b \in Nat, s \in Nat \ {0} : b = sub_space[i].base /\ s = sub_space[i].size
  BY Spaces
<1>4. b <= p /\ p <= b + s - 1
  BY <1>1, <1>3 DEF Inside, contain
<1>5. ASSUME NEW k \in Nat, k < Room(p) PROVE p + k \in Homes
  <2>1. b <= p + k /\ p + k <= b + s - 1 /\ p + k \in Int
    BY <1>2, <1>3, <1>4, <1>5
  <2>2. PICK q \in Int : q = p + k
    BY <2>1
  <2>3. Inside(i, q)
    BY <1>3, <2>1, <2>2 DEF Inside, contain
  <2>4. q \in Words /\ KindAt(q) = "memory"
    BY <1>2, <2>3, Routing, Spaces
  <2> QED
    BY <2>2, <2>4 DEF Homes
<1>6. Room(p) \in Nat \ {0}
  BY <1>2, <1>3, <1>4
<1>7. p \in Homes
  BY <1>1, Spaces DEF Homes
<1> QED
  BY <1>5, <1>6, <1>7

\* No page is in a memory in part.
LEMMA RoomInPage ==
  ASSUME sub_space \in Machines, NEW p \in Int, KindAt(p) = "memory",
         NEW n \in Nat, (p % PageSize) + n <= PageSize
  PROVE  n <= Room(p)
<1>1. PICK i \in DOMAIN sub_space : Inside(i, p)
  BY Routing
<1>2. sub_space[i].kind = "memory" /\ Room(p) = sub_space[i].base + sub_space[i].size - p
  BY <1>1, Routing
<1>3. PICK b \in Nat, s \in Nat \ {0} : b = sub_space[i].base /\ s = sub_space[i].size
  BY Spaces
<1>4. b <= p /\ p <= b + s - 1
  BY <1>1, <1>3 DEF Inside, contain
<1>5. b % PageSize = 0 /\ s % PageSize = 0
  BY <1>2, <1>3, LoadStoreConstants
<1>6. PICK m \in Nat \ {0} : m = PageSize
  BY Pages
<1>7. PICK c \in Int, d \in Int : b = c * m /\ s = d * m
  <2>1. b = (b \div m) * m + (b % m) /\ b \div m \in Int
    BY Quotients
  <2>2. s = (s \div m) * m + (s % m) /\ s \div m \in Int
    BY Quotients
  <2>3. PICK c, d \in Int : c = b \div m /\ d = s \div m
    BY <2>1, <2>2
  <2>4. b % m = 0 /\ s % m = 0
    BY <1>5, <1>6
  <2>5. b = c * m
    BY <2>1, <2>3, <2>4
  <2>6. s = d * m
    BY <2>2, <2>3, <2>4
  <2> QED
    BY <2>5, <2>6
<1>8. PICK q \in Int, r \in 0 .. m - 1 : p = q * m + r /\ r = p % PageSize
  BY <1>6, PageParts
<1>9. q < c + d
  <2>1. \A x, y \in Int : x <= y => x * m <= y * m
    OBVIOUS
  <2>2. c + d <= q => (c + d) * m <= q * m
    BY <2>1
  <2>3. (c + d) * m = c * m + d * m
    OBVIOUS
  <2>4. PICK t, u, v \in Int : t = c * m /\ u = d * m /\ v = q * m
    OBVIOUS
  <2>5. v + r <= t + u - 1
    BY <1>4, <1>7, <1>8, <2>4
  <2> QED
    BY <1>8, <2>2, <2>3, <2>4, <2>5
<1>10. q * m + m <= b + s
  <2>1. \A x, y \in Int : x <= y => x * m <= y * m
    OBVIOUS
  <2>2. (q + 1) * m <= (c + d) * m
    BY <1>9, <2>1
  <2>3. (q + 1) * m = q * m + m /\ (c + d) * m = c * m + d * m
    OBVIOUS
  <2>4. PICK t, u, v \in Int : t = c * m /\ u = d * m /\ v = q * m
    OBVIOUS
  <2> QED
    BY <1>7, <2>2, <2>3, <2>4
<1>11. PICK v \in Int : v = q * m
  OBVIOUS
<1>12. r + n <= m
  BY <1>6, <1>8
<1> QED
  BY <1>2, <1>3, <1>8, <1>10, <1>11, <1>12

-----------------------------------------------------------------------------
(* The bytes of an access.                                                 *)

MemInv == mem \in [Homes -> Byte]

LEMMA ByteType == \A v \in Byte : v \in Nat /\ v \in Int
BY Units DEF Byte, Base

\* With room for it, nothing of a slice is missing.
LEMMA WholeSlice ==
  ASSUME sub_space \in Machines, MemInv, NEW p \in Int, KindAt(p) = "memory",
         NEW n \in Nat, n <= Room(p)
  PROVE  /\ ReadMemory(p, n) = [k \in 1 .. n |-> mem[p + k - 1]]
         /\ \A k \in 1 .. n : mem[p + k - 1] \in Byte
<1>1. Room(p) \in Nat \ {0} /\ \A k \in Nat : k < Room(p) => p + k \in Homes
  BY RoomRight
<1>2. (IF n < Room(p) THEN n ELSE Room(p)) = n
  BY <1>1
<1>3. ASSUME NEW k \in 1 .. n PROVE mem[p + k - 1] \in Byte
  <2>1. PICK j \in Nat : j = k - 1 /\ p + j = p + k - 1 /\ j < Room(p)
    BY <1>1
  <2>2. p + j \in Homes
    BY <1>1, <2>1
  <2>3. mem[p + j] \in Byte
    BY <2>2 DEF MemInv
  <2> QED
    BY <2>1, <2>3
<1> QED
  BY <1>2, <1>3 DEF ReadMemory

\* A slice is never empty, and of bytes.
LEMMA SliceType ==
  ASSUME sub_space \in Machines, MemInv, NEW p \in Int, KindAt(p) = "memory", NEW n \in Nat
  PROVE  ReadMemory(p, n) \in Seq(Byte)
<1>1. Room(p) \in Nat \ {0}
  BY RoomRight
<1>2. PICK m \in Nat : m = IF n < Room(p) THEN n ELSE Room(p)
  BY <1>1
<1>3. m <= Room(p)
  BY <1>1, <1>2
<1>4. \A k \in 1 .. m : mem[p + k - 1] \in Byte
  BY <1>3, WholeSlice
<1>5. ReadMemory(p, n) = [k \in 1 .. m |-> mem[p + k - 1]]
  BY <1>2 DEF ReadMemory
<1> QED
  BY <1>4, <1>5

\* Bytes that are written are those of the value.
LEMMA BytesOfValue ==
  ASSUME NEW value \in Words, NEW n \in 0 .. Word4
  PROVE  /\ ToBytes(value, n) \in [1 .. n -> Byte]
         /\ \A k \in 1 .. n : ToBytes(value, n)[k] = Flat!ByteOf(value, k)
<1>1. \A k \in 1 .. n : ToBytes(value, n)[k] = Flat!ByteOf(value, k)
  BY DEF ToBytes, Flat!ByteOf
<1>2. ASSUME NEW k \in 1 .. n PROVE Flat!ByteOf(value, k) \in Byte
  <2>1. k - 1 \in 0 .. Word4
    BY Units
  <2>2. PICK u \in Nat \ {0}, b \in Nat \ {0} : u = Unit(k - 1) /\ b = Base
    BY <2>1, Units
  <2>3. value \in Int
    BY Remainders
  <2>4. (value \div u) % b \in 0 .. b - 1
    <3>1. PICK q \in Int : q = value \div u
      BY <2>3
    <3>2. q % b \in 0 .. b - 1
      OBVIOUS
    <3> QED
      BY <3>1, <3>2
  <2> QED
    BY <2>2, <2>4 DEF Flat!ByteOf, Unit, Byte, Base
<1>3. DOMAIN ToBytes(value, n) = 1 .. n /\ ToBytes(value, n) = [k \in 1 .. n |-> ToBytes(value, n)[k]]
  BY DEF ToBytes
<1> QED
  BY <1>1, <1>2, <1>3

\* What a register gets is a word.
LEMMA GetType ==
  ASSUME NEW op, NEW data \in Seq(Byte)
  PROVE  Get(op, data) \in Words
<1>1. Unsigned(data) \in Int
  <2>1. PICK f : f[Len(data)] = Unsigned(data) /\ \A k \in 0 .. Len(data) : f[k] \in Int
    BY UnsignedAddsUp
  <2>2. Len(data) \in 0 .. Len(data)
    OBVIOUS
  <2> QED
    BY <2>1, <2>2
<1>2. 2^(ByteBits * Len(data)) \in Int
  <2>1. \A k \in Nat : 2^k \in Int
    OBVIOUS
  <2>2. ByteBits * Len(data) \in Nat
    BY AddrSpaceConstants
  <2> QED
    BY <2>1, <2>2
<1>3. FromBytes(data, op \in Signed) \in Int
  BY <1>1, <1>2 DEF FromBytes
<1> QED
  BY <1>3, Remainders DEF Get

-----------------------------------------------------------------------------
(* The type of the state, in every step.                                   *)

IInv ==
  /\ sub_space \in Machines /\ map \in Maps \cup {None} /\ MemInv /\ CacheInv
  /\ last.got \in Words /\ up \in {"running", "InvalidAddress", "ValueError"}

LEMMA AccessTypes ==
  /\ \A at \in Effective : at[1] + at[2] \in Int
  /\ Bases \subseteq Words /\ Values \subseteq Words /\ \A v \in Words : v \in Int /\ v >= 0
  /\ READ \in Tag /\ WRITE \in Tag
<1>1. \A v \in Words : v \in Int /\ v >= 0
  BY Remainders
<1>2. ASSUME NEW at \in Effective PROVE at[1] + at[2] \in Int
  <2>1. at \in Words \X Int
    BY LoadStoreConstants
  <2> QED
    BY <1>1, <2>1
<1> QED
  BY <1>1, <1>2, LoadStoreConstants DEF READ, WRITE, Tag

LEMMA InitType == Init => IInv /\ CachePositive
<1> SUFFICES ASSUME Init PROVE IInv /\ CachePositive
  OBVIOUS
<1>1. sub_space \in Machines /\ map \in Maps \cup {None} /\ up = "running"
  BY DEF Init, SpacesInit, AccelInit
<1>2. MemInv
  <2>1. mem = [p \in Homes |-> 0]
    BY <1>1, HomesListed DEF Init, SpacesInit
  <2>2. 0 \in Byte
    BY Units DEF Byte, Base
  <2> QED
    BY <2>1, <2>2 DEF MemInv
<1>3. CacheInv /\ CachePositive
  BY DEF CacheInv, CachePositive, Init, AccelInit, Empty
<1>4. last.got \in Words
  BY Remainders DEF Init, NoAccess
<1> QED
  BY <1>1, <1>2, <1>3, <1>4 DEF IInv

LEMMA AccelKeeps ==
  ASSUME CacheInv, UNCHANGED map, NEW tag \in Tag, NEW addr \in Int, accel_cache' = AccelAfter(tag, addr)
  PROVE  CacheInv' /\ (CachePositive /\ addr >= 0 => CachePositive')
<1>1. \A a : translate_addr(a)' = translate_addr(a)
  BY DEF translate_addr
<1>2. CASE Hits(tag, addr)
  <2>1. accel_cache' = accel_cache
    BY <1>2 DEF AccelAfter
  <2> QED
    BY <1>1, <2>1 DEF CacheInv, CachePositive
<1>3. CASE ~Hits(tag, addr)
  <2>1. accel_cache' = [accel_cache EXCEPT ![tag] = [addr |-> addr, paddr |-> translate_addr(addr)]]
    BY <1>3 DEF AccelAfter
  <2>2. DOMAIN accel_cache' = Tag /\ accel_cache'[tag] = [addr |-> addr, paddr |-> translate_addr(addr)]
    BY <2>1 DEF CacheInv
  <2>3. \A t \in Tag : t # tag => accel_cache'[t] = accel_cache[t]
    BY <2>1 DEF CacheInv
  <2> QED
    BY <1>1, <2>2, <2>3 DEF CacheInv, CachePositive
<1> QED
  BY <1>2, <1>3

LEMMA WriteKeeps ==
  ASSUME sub_space \in Machines, MemInv, UNCHANGED sub_space, NEW p \in Int, NEW n \in Nat,
         NEW data \in [1 .. n -> Byte], WriteMemory(p, data)
  PROVE  MemInv'
<1>1. Homes' = Homes
  BY DEF Homes, KindAt, Route
<1>2. mem' = [q \in Homes |-> IF q - p + 1 \in 1 .. n THEN data[q - p + 1] ELSE mem[q]]
  BY DEF WriteMemory, MemInv
<1>3. \A q \in Homes : (IF q - p + 1 \in 1 .. n THEN data[q - p + 1] ELSE mem[q]) \in Byte
  BY DEF MemInv
<1> QED
  BY <1>1, <1>2, <1>3 DEF MemInv

LEMMA MemKeeps ==
  ASSUME MemInv, UNCHANGED <<sub_space, mem>>
  PROVE  MemInv'
<1>1. Homes' = Homes
  BY DEF Homes, KindAt, Route
<1> QED
  BY <1>1 DEF MemInv

LEMMA LoadType ==
  ASSUME IInv, NEW op \in Loads, NEW addr \in Int, Load(op, addr)
  PROVE  IInv' /\ (CachePositive /\ addr >= 0 => CachePositive')
<1> DEFINE paddr == translate_addr_accel(READ, addr)
<1>1. /\ UNCHANGED <<map, sub_space, mem>> /\ accel_cache' = AccelAfter(READ, addr)
      /\ sub_space \in Machines /\ map \in Maps \cup {None} /\ MemInv /\ CacheInv
      /\ up \in {"running", "InvalidAddress", "ValueError"}
  BY DEF Load, IInv
<1>2. MemInv' /\ CacheInv' /\ (CachePositive /\ addr >= 0 => CachePositive')
  BY <1>1, AccelKeeps, AccessTypes, MemKeeps
<1>3. Length[op] \in Nat
  BY LengthType
<1>4. paddr \in Int
  BY <1>1, AccelType, AccessTypes
<1> HIDE DEF paddr
<1>5. last'.got \in Words /\ up' \in {"running", "InvalidAddress", "ValueError"}
  <2>0. /\ \A data, io : [NoAccess EXCEPT !.op = op, !.addr = addr, !.got = Get(op, data), !.io = io].got = Get(op, data)
        /\ [NoAccess EXCEPT !.op = op, !.addr = addr].got = 0 /\ 0 \in Words
    BY Remainders DEF NoAccess
  <2>1. CASE KindAt(paddr) = "memory"
    <3>1. last'.got = Get(op, ReadMemory(paddr, Length[op])) /\ UNCHANGED up
      BY <2>0, <2>1 DEF Load, paddr
    <3>2. ReadMemory(paddr, Length[op]) \in Seq(Byte)
      BY <1>1, <1>3, <1>4, <2>1, SliceType
    <3> QED
      BY <1>1, <3>1, <3>2, GetType
  <2>2. CASE KindAt(paddr) = "uart"
    <3>0. PICK data \in [1 .. Length[op] -> Byte] :
            /\ last' = [NoAccess EXCEPT !.op = op, !.addr = addr, !.got = Get(op, data),
                                        !.io = ByteByByte("read", paddr, data)]
            /\ UNCHANGED up
      BY <2>2 DEF Load, paddr
    <3>1. last'.got = Get(op, data) /\ UNCHANGED up
      BY <2>0, <3>0
    <3>2. data \in Seq(Byte)
      BY <1>3
    <3> QED
      BY <1>1, <3>1, <3>2, GetType
  <2>3. CASE KindAt(paddr) = "none"
    <3>1. last'.got = 0 /\ up' = "InvalidAddress"
      BY <2>0, <2>3 DEF Load, paddr
    <3> QED
      BY <2>0, <3>1
  <2>4. KindAt(paddr) \in {"memory", "uart", "none"}
    BY <1>1, <1>4, SameKind
  <2> QED
    BY <2>1, <2>2, <2>3, <2>4
<1> QED
  BY <1>1, <1>2, <1>5 DEF IInv

LEMMA WriteType ==
  ASSUME IInv, NEW op, NEW addr \in Int, NEW value, NEW n \in Nat, NEW data \in [1 .. n -> Byte],
         Write(op, addr, value, data)
  PROVE  IInv' /\ (CachePositive /\ addr >= 0 => CachePositive')
<1> DEFINE paddr == translate_addr_accel(WRITE, addr)
<1>1. /\ UNCHANGED <<map, sub_space>> /\ accel_cache' = AccelAfter(WRITE, addr)
      /\ sub_space \in Machines /\ map \in Maps \cup {None} /\ MemInv /\ CacheInv
      /\ up \in {"running", "InvalidAddress", "ValueError"}
  BY DEF Write, IInv
<1>2. CacheInv' /\ (CachePositive /\ addr >= 0 => CachePositive')
  BY <1>1, AccelKeeps, AccessTypes
<1>3. paddr \in Int
  BY <1>1, AccelType, AccessTypes
<1> HIDE DEF paddr
<1>4. /\ UNCHANGED mem \/ WriteMemory(paddr, data)
      /\ up' \in {"running", "InvalidAddress", "ValueError"}
      /\ \E io : last' = [NoAccess EXCEPT !.op = op, !.addr = addr, !.value = value, !.io = io]
  BY <1>1 DEF Write, paddr
<1>5. last'.got \in Words
  BY <1>4, Remainders DEF NoAccess
<1>6. MemInv'
  BY <1>1, <1>3, <1>4, MemKeeps, WriteKeeps
<1> QED
  BY <1>1, <1>2, <1>4, <1>5, <1>6 DEF IInv

\* What stores write are bytes.
LEMMA StoredBytes ==
  /\ \A op \in Stores, value \in Values : ToBytes(value, Length[op]) \in [1 .. Length[op] -> Byte]
  /\ [k \in 1 .. PageSize |-> 0] \in [1 .. PageSize -> Byte]
<1>1. ASSUME NEW op \in Stores, NEW value \in Values
      PROVE  ToBytes(value, Length[op]) \in [1 .. Length[op] -> Byte]
  <2>1. value \in Words /\ Length[op] \in 0 .. Word4
    BY AccessTypes, LengthType
  <2> QED
    BY <2>1, BytesOfValue
<1>2. 0 \in Byte
  BY Units DEF Byte, Base
<1> QED
  BY <1>1, <1>2

LEMMA NextType ==
  ASSUME IInv, [Next]_vars
  PROVE  IInv' /\ (NoneNegative /\ CachePositive => CachePositive')
<1>1. ASSUME NEW at \in Effective, NEW op \in Loads, Load(op, at[1] + at[2])
      PROVE  IInv' /\ (NoneNegative /\ CachePositive => CachePositive')
  <2>1. PICK addr \in Int : addr = at[1] + at[2]
    BY AccessTypes
  <2>2. Load(op, addr)
    BY <1>1, <2>1
  <2> QED
    BY <2>1, <2>2, LoadType DEF NoneNegative
<1>2. ASSUME NEW at \in Effective, NEW op \in Stores, NEW value \in Values, Store(op, at[1] + at[2], value)
      PROVE  IInv' /\ (NoneNegative /\ CachePositive => CachePositive')
  <2>1. PICK addr \in Int : addr = at[1] + at[2]
    BY AccessTypes
  <2>2. Length[op] \in Nat /\ ToBytes(value, Length[op]) \in [1 .. Length[op] -> Byte]
    BY LengthType, StoredBytes
  <2>3. Write(op, addr, value, ToBytes(value, Length[op]))
    BY <1>2, <2>1 DEF Store
  <2> QED
    BY <2>1, <2>2, <2>3, WriteType DEF NoneNegative
<1>3. ASSUME NEW addr \in Bases, CBOzero(addr)
      PROVE  IInv' /\ (NoneNegative /\ CachePositive => CachePositive')
  <2>1. addr \in Int /\ addr >= 0 /\ PageSize \in Nat
    BY AccessTypes, Pages
  <2>2. Write("CBO.ZERO", addr, 0, [k \in 1 .. PageSize |-> 0])
    BY <1>3 DEF CBOzero
  <2> HIDE DEF PageSize
  <2> QED
    BY <2>1, <2>2, StoredBytes, WriteType
<1>4. ASSUME NEW m \in Maps \cup {None}, SetMap(m)
      PROVE  IInv' /\ (NoneNegative /\ CachePositive => CachePositive')
  <2>1. CacheInv' /\ CachePositive'
    BY <1>4 DEF SetMap, Install, Empty, CacheInv, CachePositive
  <2>2. MemInv'
    BY <1>4, MemKeeps DEF SetMap, IInv
  <2>3. last'.got \in Words
    BY <1>4, Remainders DEF SetMap, NoAccess
  <2> QED
    BY <1>4, <2>1, <2>2, <2>3 DEF SetMap, Install, IInv
<1>5. CASE UNCHANGED vars
  <2>1. MemInv'
    BY <1>5, MemKeeps DEF IInv, vars
  <2>2. \A a : translate_addr(a)' = translate_addr(a)
    BY <1>5 DEF translate_addr, vars
  <2>3. CacheInv' /\ (CachePositive => CachePositive')
    BY <1>5, <2>2 DEF CacheInv, CachePositive, IInv, vars
  <2> QED
    BY <1>5, <2>1, <2>3 DEF IInv, vars
<1> QED
  BY <1>1, <1>2, <1>3, <1>4, <1>5 DEF Next

LEMMA LoadStoreInvariant == Spec => []IInv
<1>1. IInv /\ [Next]_vars => IInv'
  BY NextType
<1> QED
  BY <1>1, InitType, PTL DEF Spec

\* Memories hold bytes, and nothing but memories, through every access: slices
\* that end with a memory, misaligned words, pages of zeros, any exception.
THEOREM LoadStoreTypeCorrect == Spec => []TypeOK
<1>1. IInv => TypeOK
  BY DEF IInv, MemInv, Homes, TypeOK
<1> QED
  BY <1>1, LoadStoreInvariant, PTL

-----------------------------------------------------------------------------
(* Refinement.                                                             *)

\* The bytes of an access are side by side, as far as the memory of the first
\* goes if that is in one; in a page it goes far enough.
Reach(paddr, n) == IF KindAt(paddr) = "memory" /\ Room(paddr) < n THEN Room(paddr) ELSE n

LEMMA SpotRight ==
  ASSUME IInv, NEW addr \in Nat, NEW n \in Nat \ {0}
  PROVE  \E paddr \in Int, reach \in 1 .. n :
           /\ paddr = translate_addr(addr) /\ reach = Reach(paddr, n)
           /\ Flat!Spot(addr, n) = [k \in 1 .. reach |-> paddr + k - 1]
           /\ KindAt(paddr) = "memory" => reach <= Room(paddr) /\ (reach = n <=> n <= Room(paddr))
<1>1. addr \in Int /\ map \in Maps \cup {None} /\ sub_space \in Machines
  BY DEF IInv
<1>2. PICK paddr \in Int : paddr = translate_addr(addr)
  BY <1>1, TranslateType
<1>3. KindAt(paddr) = "memory" => Room(paddr) \in Nat \ {0}
  BY <1>1, RoomRight
<1>4. PICK reach \in 1 .. n : reach = Reach(paddr, n)
  BY <1>3 DEF Reach
<1>5. KindAt(paddr) = "memory" => reach <= Room(paddr) /\ (reach = n <=> n <= Room(paddr))
  BY <1>3, <1>4 DEF Reach
<1>6. CASE Flat!Promised(addr, n)
  <2>1. PICK m \in Nat \ {0}, r \in Nat : m = PageSize /\ r = addr % PageSize
    <3>1. PICK m \in Nat \ {0} : m = PageSize
      BY Pages
    <3>2. addr % m \in Nat
      BY <1>1, Quotients
    <3> QED
      BY <3>1, <3>2
  <2>2. r + n <= m
    BY <1>6, <2>1 DEF Flat!Promised
  <2>3. ASSUME NEW k \in 1 .. n PROVE Flat!Real(addr + k - 1) = paddr + k - 1
    <3>1. PICK j \in Nat : j = k - 1 /\ addr + j = addr + k - 1 /\ paddr + j = paddr + k - 1
      BY <1>1
    <3>2. r + j < m
      BY <2>2, <3>1
    <3>3. translate_addr(addr + j) = translate_addr(addr) + j
      BY <1>1, <2>1, <3>2, InsidePage
    <3> QED
      BY <1>2, <3>1, <3>3, SameReal
  <2>4. paddr % PageSize = addr % PageSize
    <3>1. r + 0 < m
      BY <2>2
    <3> QED
      BY <1>1, <1>2, <2>1, <3>1, InsidePage
  <2>5. KindAt(paddr) = "memory" => n <= Room(paddr)
    BY <1>1, <2>1, <2>2, <2>4, RoomInPage
  <2>6. reach = n
    BY <1>4, <1>5, <2>5 DEF Reach
  <2>7. Flat!Spot(addr, n) = [k \in 1 .. n |-> paddr + k - 1]
    BY <1>6, <2>3 DEF Flat!Spot
  <2> QED
    BY <1>2, <1>4, <1>5, <2>6, <2>7
<1>7. CASE ~Flat!Promised(addr, n)
  <2>1. Flat!Real(addr) = paddr
    BY <1>2, SameReal
  <2>2. /\ KindAt(paddr) = Flat!Kind(paddr)
        /\ KindAt(paddr) = "memory" => Flat!Rest(paddr) = Room(paddr)
    BY <1>1, SameKind
  <2>3. reach = IF Flat!Kind(paddr) = "memory" /\ Flat!Rest(paddr) < n THEN Flat!Rest(paddr) ELSE n
    BY <1>4, <2>2 DEF Reach
  <2>4. Flat!Spot(addr, n) = [k \in 1 .. reach |-> paddr + k - 1]
    BY <1>7, <2>1, <2>3 DEF Flat!Spot
  <2> QED
    BY <1>2, <1>4, <1>5, <2>4
<1> QED
  BY <1>6, <1>7

LEMMA FlatLoad ==
  ASSUME IInv, CachePositive, NEW op \in Loads, NEW addr \in Nat, Load(op, addr)
  PROVE  Flat!Load(op, Flat!Spot(addr, Flat!LengthOf(op)))
<1>1. PICK n \in Nat \ {0} : n = Length[op] /\ n = Flat!LengthOf(op)
  BY LengthType
<1>2. PICK paddr \in Int, reach \in 1 .. n :
        /\ paddr = translate_addr(addr) /\ reach = Reach(paddr, n)
        /\ Flat!Spot(addr, n) = [k \in 1 .. reach |-> paddr + k - 1]
        /\ KindAt(paddr) = "memory" => reach <= Room(paddr) /\ (reach = n <=> n <= Room(paddr))
  BY SpotRight
<1> DEFINE spot == [k \in 1 .. reach |-> paddr + k - 1]
<1>3. paddr = translate_addr_accel(READ, addr)
  BY <1>2, AccelCurrent, AccessTypes DEF IInv
<1>4. spot[1] = paddr /\ DOMAIN spot = 1 .. reach /\ Len(spot) = reach /\ reach \in Nat
  OBVIOUS
<1>5. KindAt(paddr) = Flat!Kind(paddr) /\ KindAt(paddr) \in {"memory", "uart", "none"}
  BY SameKind DEF IInv
<1>6. CASE KindAt(paddr) = "memory"
  <2> DEFINE data == [k \in 1 .. reach |-> mem[paddr + k - 1]]
  <2>1. ReadMemory(paddr, n) = data /\ \A k \in 1 .. reach : mem[paddr + k - 1] \in Byte
    <3>1. sub_space \in Machines /\ MemInv /\ reach \in Nat /\ reach <= Room(paddr)
      BY <1>2, <1>4, <1>6 DEF IInv
    <3>2. \A k \in 1 .. reach : mem[paddr + k - 1] \in Byte
      BY <1>6, <3>1, WholeSlice
    <3>3. Room(paddr) \in Nat
      BY <1>6, <3>1, RoomRight
    <3>4. reach = IF n < Room(paddr) THEN n ELSE Room(paddr)
      BY <1>2, <1>6, <3>3 DEF Reach
    <3> QED
      BY <3>2, <3>4 DEF ReadMemory
  <2>2. data \in Seq(Byte) /\ Len(data) = reach /\ reach \in 1 .. Length[op]
    BY <1>1, <1>4, <2>1
  <2>3. data = [k \in DOMAIN spot |-> mem[spot[k]]]
    OBVIOUS
  <2>4. /\ last' = [NoAccess EXCEPT !.op = op, !.addr = addr, !.got = Get(op, ReadMemory(paddr, n)), !.io = <<>>]
        /\ UNCHANGED <<mem, up>>
    BY <1>1, <1>3, <1>6 DEF Load
  <2> HIDE DEF data, spot
  <2>5. last'.got = Get(op, data) /\ last'.io = <<>>
    BY <2>1, <2>4 DEF NoAccess
  <2>6. Flat!Shows(last'.got, data, op \in {"LB", "LH"} /\ Flat!TopBit(data))
    BY <1>1, <2>2, <2>5, GetShows
  <2>7. Flat!Reads(op, spot, data)
    BY <2>4, <2>6 DEF Flat!Reads
  <2>8. Flat!Spot(addr, Flat!LengthOf(op)) = spot
    BY <1>1, <1>2 DEF spot
  <2> QED
    BY <1>4, <1>5, <1>6, <2>3, <2>5, <2>7, <2>8 DEF Flat!Load
<1>7. CASE KindAt(paddr) = "uart"
  <2>1. PICK data \in [1 .. n -> Byte] :
          /\ last' = [NoAccess EXCEPT !.op = op, !.addr = addr, !.got = Get(op, data),
                                      !.io = ByteByByte("read", paddr, data)]
          /\ UNCHANGED <<mem, up>>
    BY <1>1, <1>3, <1>7 DEF Load
  <2>2. data \in Seq(Byte) /\ Len(data) = n /\ DOMAIN data = 1 .. n /\ reach = n /\ n \in 1 .. Length[op]
    <3>1. data \in Seq(Byte) /\ Len(data) = n /\ DOMAIN data = 1 .. n
      OBVIOUS
    <3>2. n \in 1 .. Length[op]
      BY <1>1
    <3>3. reach = n
      BY <1>2, <1>7 DEF Reach
    <3> QED
      BY <3>1, <3>2, <3>3
  <2>3. last'.got = Get(op, data) /\ last'.io = [k \in 1 .. n |-> <<"read", paddr + k - 1, data[k]>>]
    BY <2>1, <2>2 DEF NoAccess, ByteByByte
  <2>4. Len(last'.io) = n
    BY <2>3
  <2>5. \A k \in 1 .. n : last'.io[k][1] = "read" /\ last'.io[k][2] = spot[k] /\ last'.io[k][3] = data[k]
    BY <2>2, <2>3
  <2>6. [k \in 1 .. n |-> last'.io[k][3]] = data
    BY <2>2, <2>5
  <2> HIDE DEF spot
  <2>7. Flat!Shows(last'.got, data, op \in {"LB", "LH"} /\ Flat!TopBit(data))
    BY <1>1, <2>2, <2>3, GetShows
  <2>8. Flat!Reads(op, spot, data)
    BY <2>1, <2>7 DEF Flat!Reads
  <2>9. Flat!Spot(addr, Flat!LengthOf(op)) = spot
    BY <1>1, <1>2 DEF spot
  <2>10. Flat!Reads(op, spot, [k \in DOMAIN spot |-> last'.io[k][3]])
    BY <1>4, <2>2, <2>6, <2>8
  <2> QED
    BY <1>4, <1>5, <1>7, <2>2, <2>4, <2>5, <2>9, <2>10 DEF Flat!Load
<1>8. CASE KindAt(paddr) = "none"
  <2>1. up' = "InvalidAddress" /\ UNCHANGED mem
    BY <1>3, <1>8 DEF Load
  <2> HIDE DEF spot
  <2>2. Flat!Spot(addr, Flat!LengthOf(op)) = spot
    BY <1>1, <1>2 DEF spot
  <2> QED
    BY <1>4, <1>5, <1>8, <2>1, <2>2 DEF Flat!Load
<1> QED
  BY <1>5, <1>6, <1>7, <1>8

LEMMA FlatStore ==
  ASSUME IInv, CachePositive, NEW op, NEW addr \in Nat, NEW value, NEW n \in Nat \ {0},
         n = Flat!LengthOf(op), NEW data \in [1 .. n -> Byte],
         \A k \in 1 .. n : data[k] = IF op = "CBO.ZERO" THEN 0 ELSE Flat!ByteOf(value, k),
         Write(op, addr, value, data)
  PROVE  Flat!Store(op, Flat!Spot(addr, n), value)
<1>1. PICK paddr \in Int, reach \in 1 .. n :
        /\ paddr = translate_addr(addr) /\ reach = Reach(paddr, n)
        /\ Flat!Spot(addr, n) = [k \in 1 .. reach |-> paddr + k - 1]
        /\ KindAt(paddr) = "memory" => reach <= Room(paddr) /\ (reach = n <=> n <= Room(paddr))
  BY SpotRight
<1> DEFINE spot == Flat!Spot(addr, n)
           Put(k) == IF op = "CBO.ZERO" THEN 0 ELSE Flat!ByteOf(value, k)
<1>2. paddr = translate_addr_accel(WRITE, addr)
  BY <1>1, AccelCurrent, AccessTypes DEF IInv
<1>3. /\ spot[1] = paddr /\ DOMAIN spot = 1 .. reach /\ Len(spot) = reach /\ reach \in Nat
      /\ \A k \in 1 .. reach : spot[k] = paddr + k - 1
  BY <1>1
<1>4. KindAt(paddr) = Flat!Kind(paddr) /\ KindAt(paddr) \in {"memory", "uart", "none"}
  BY SameKind DEF IInv
<1>5. Len(data) = n /\ DOMAIN data = 1 .. n /\ \A k \in 1 .. n : data[k] = Put(k)
  OBVIOUS
<1> DEFINE Access(io) == last' = [NoAccess EXCEPT !.op = op, !.addr = addr, !.value = value, !.io = io]
<1>6. \A io : Access(io) => last'.io = io
  BY DEF NoAccess
<1>7. CASE KindAt(paddr) = "memory" /\ n <= Room(paddr)
  <2>1. Fits(paddr, data) /\ reach = n
    BY <1>1, <1>5, <1>7 DEF Fits
  <2>2. WriteMemory(paddr, data) /\ UNCHANGED up
    BY <1>2, <1>7, <2>1 DEF Write
  <2>3. ASSUME NEW q \in DOMAIN mem
        PROVE  mem'[q] = IF \E k \in DOMAIN spot : spot[k] = q
                         THEN Put(CHOOSE k \in DOMAIN spot : spot[k] = q) ELSE mem[q]
    <3>0. q \in Int
      <4>1. DOMAIN mem = Homes /\ sub_space \in Machines
        BY DEF IInv, MemInv
      <4> QED
        BY <4>1, HomesListed
    <3>1. mem'[q] = IF q - paddr + 1 \in 1 .. n THEN data[q - paddr + 1] ELSE mem[q]
      BY <1>5, <2>2 DEF WriteMemory
    <3>2. PICK j \in Int : j = q - paddr + 1
      BY <3>0
    <3>3. \A k \in 1 .. n : spot[k] = q <=> k = j
      BY <1>3, <2>1, <3>0, <3>2
    <3> HIDE DEF spot, Put
    <3>4. CASE j \in 1 .. n
      <4>1. (CHOOSE k \in DOMAIN spot : spot[k] = q) = j
        BY <1>3, <2>1, <3>3, <3>4
      <4>2. \E k \in DOMAIN spot : spot[k] = q
        BY <1>3, <2>1, <3>3, <3>4
      <4>3. mem'[q] = Put(j)
        BY <1>5, <3>1, <3>2, <3>4
      <4> QED
        BY <4>1, <4>2, <4>3
    <3>5. CASE j \notin 1 .. n
      BY <1>3, <2>1, <3>1, <3>2, <3>3, <3>5
    <3> QED
      BY <3>4, <3>5
  <2> QED
    BY <1>3, <1>4, <1>7, <2>1, <2>2, <2>3 DEF Flat!Store
<1>9. CASE KindAt(paddr) = "memory" /\ ~(n <= Room(paddr))
  <2>1. ~Fits(paddr, data) /\ reach < n
    BY <1>1, <1>3, <1>5, <1>9 DEF Fits
  <2>2. up' = "ValueError" /\ UNCHANGED mem
    BY <1>2, <1>9, <2>1 DEF Write
  <2> QED
    BY <1>3, <1>4, <1>9, <2>1, <2>2 DEF Flat!Store
<1>8. CASE KindAt(paddr) = "uart"
  <2>1. Access(ByteByByte("write", paddr, data)) /\ UNCHANGED <<mem, up>>
    BY <1>2, <1>8 DEF Write
  <2>2. last'.io = [k \in 1 .. n |-> <<"write", paddr + k - 1, data[k]>>]
    BY <1>5, <1>6, <2>1 DEF ByteByByte
  <2>3. last'.io = [k \in DOMAIN spot |-> <<"write", spot[k], Put(k)>>]
    <3>1. reach = n
      BY <1>1, <1>8 DEF Reach
    <3> HIDE DEF spot
    <3> QED
      BY <1>3, <1>5, <2>2, <3>1
  <2> QED
    BY <1>3, <1>4, <1>8, <2>1, <2>3 DEF Flat!Store
<1>10. CASE KindAt(paddr) = "none"
  <2>1. up' = "InvalidAddress" /\ UNCHANGED mem
    BY <1>2, <1>10 DEF Write
  <2> QED
    BY <1>3, <1>4, <1>10, <2>1 DEF Flat!Store
<1> QED
  BY <1>4, <1>7, <1>8, <1>9, <1>10

LEMMA LoadMaps ==
  ASSUME IInv, CachePositive, NEW op \in Loads, NEW addr \in Nat, Load(op, addr)
  PROVE  Flat!Next
<1>1. up = "running" /\ UNCHANGED <<map, sub_space>>
  BY DEF Load
<1>2. last'.op = op /\ last'.addr = addr
  <2>1. /\ \A data, io : [NoAccess EXCEPT !.op = op, !.addr = addr, !.got = Get(op, data), !.io = io].op = op
        /\ \A data, io : [NoAccess EXCEPT !.op = op, !.addr = addr, !.got = Get(op, data), !.io = io].addr = addr
        /\ [NoAccess EXCEPT !.op = op, !.addr = addr].op = op
        /\ [NoAccess EXCEPT !.op = op, !.addr = addr].addr = addr
    BY DEF NoAccess
  <2>2. \/ \E data, io : last' = [NoAccess EXCEPT !.op = op, !.addr = addr, !.got = Get(op, data), !.io = io]
        \/ last' = [NoAccess EXCEPT !.op = op, !.addr = addr]
    BY DEF Load
  <2> QED
    BY <2>1, <2>2
<1>3. op # "none" /\ op \in {"LB", "LBU", "LH", "LHU", "LW"} /\ Flat!LengthOf(op) = Length[op]
  BY LengthType DEF Loads
<1>4. Flat!Load(op, Flat!Spot(addr, Flat!LengthOf(op)))
  BY FlatLoad
<1> QED
  BY <1>1, <1>2, <1>3, <1>4 DEF Flat!Next

LEMMA WriteMaps ==
  ASSUME IInv, CachePositive, NEW op \in Stores \cup {"CBO.ZERO"}, NEW addr \in Nat, NEW value,
         NEW n \in Nat \ {0}, n = Flat!LengthOf(op), NEW data \in [1 .. n -> Byte],
         \A k \in 1 .. n : data[k] = IF op = "CBO.ZERO" THEN 0 ELSE Flat!ByteOf(value, k),
         Write(op, addr, value, data)
  PROVE  Flat!Next
<1>1. up = "running" /\ UNCHANGED <<map, sub_space>>
  BY DEF Write
<1>2. last'.op = op /\ last'.addr = addr /\ last'.value = value
  <2>1. \E io : last' = [NoAccess EXCEPT !.op = op, !.addr = addr, !.value = value, !.io = io]
    BY DEF Write
  <2> QED
    BY <2>1 DEF NoAccess
<1>3. op # "none" /\ op \notin {"LB", "LBU", "LH", "LHU", "LW"}
  BY DEF Stores
<1>4. Flat!Store(op, Flat!Spot(addr, Flat!LengthOf(op)), value)
  BY FlatStore
<1> QED
  BY <1>1, <1>2, <1>3, <1>4 DEF Flat!Next

LEMMA StepMaps ==
  ASSUME IInv, CachePositive, NoneNegative, [Next]_vars
  PROVE  [Flat!Next]_(Flat!vars)
<1>0. \A at \in Effective : at[1] + at[2] \in Nat
  BY AccessTypes DEF NoneNegative
<1>1. ASSUME NEW at \in Effective, NEW op \in Loads, Load(op, at[1] + at[2])
      PROVE  Flat!Next
  BY <1>0, <1>1, LoadMaps
<1>2. ASSUME NEW at \in Effective, NEW op \in Stores, NEW value \in Values, Store(op, at[1] + at[2], value)
      PROVE  Flat!Next
  <2>1. PICK addr \in Nat : addr = at[1] + at[2]
    BY <1>0
  <2>2. PICK n \in Nat \ {0} : n = Length[op] /\ n = Flat!LengthOf(op) /\ n \in 0 .. Word4
    BY LengthType
  <2>3. value \in Words
    BY AccessTypes
  <2>4. PICK data \in [1 .. n -> Byte] :
          /\ data = ToBytes(value, n)
          /\ \A k \in 1 .. n : data[k] = Flat!ByteOf(value, k)
    BY <2>2, <2>3, BytesOfValue
  <2>5. op # "CBO.ZERO" /\ op \in Stores \cup {"CBO.ZERO"}
    BY DEF Stores
  <2>6. Write(op, addr, value, data)
    BY <1>2, <2>1, <2>2, <2>4 DEF Store
  <2> QED
    BY <2>2, <2>4, <2>5, <2>6, WriteMaps
<1>3. ASSUME NEW addr \in Bases, CBOzero(addr)
      PROVE  Flat!Next
  <2>1. PICK a \in Nat : a = addr
    BY AccessTypes
  <2>2. PICK n \in Nat \ {0} : n = PageSize /\ n = Flat!LengthOf("CBO.ZERO")
    BY LengthType, Pages
  <2>3. PICK data \in [1 .. n -> Byte] : data = [k \in 1 .. n |-> 0]
    BY <2>2, StoredBytes
  <2>4. Write("CBO.ZERO", a, 0, data)
    BY <1>3, <2>1, <2>2, <2>3 DEF CBOzero
  <2>5. \A k \in 1 .. n : data[k] = 0
    BY <2>3
  <2>6. PICK op \in Stores \cup {"CBO.ZERO"} : op = "CBO.ZERO"
    OBVIOUS
  <2> QED
    BY <2>2, <2>4, <2>5, <2>6, WriteMaps
<1>4. ASSUME NEW m \in Maps \cup {None}, SetMap(m)
      PROVE  Flat!Next
  <2>1. map' \in Maps \cup {None} /\ last'.op = "none" /\ UNCHANGED <<sub_space, mem, up>> /\ up = "running"
    BY <1>4 DEF SetMap, Install, NoAccess
  <2> QED
    BY <2>1 DEF Flat!Next, Flat!SetMap
<1>5. CASE UNCHANGED vars
  BY <1>5 DEF vars, Flat!vars
<1> QED
  BY <1>1, <1>2, <1>3, <1>4, <1>5 DEF Next

LEMMA InitMaps == Init => Flat!Init
<1> SUFFICES ASSUME Init PROVE Flat!Init
  OBVIOUS
<1>1. sub_space \in Machines /\ map = None /\ up = "running"
  BY DEF Init, SpacesInit, AccelInit
<1>2. mem = [q \in Homes |-> 0] /\ {q \in Words : Flat!Kind(q) = "memory"} = Homes
  BY <1>1, HomesListed DEF Init, SpacesInit
<1>3. Flat!Words = Words
  BY DEF Flat!Words, Flat!Mod, Words, Mod
<1> QED
  BY <1>1, <1>2, <1>3 DEF Flat!Init

\* Caches, routing, slices, byte order and sign extension are not to be seen
\* by a program whose addresses do not wrap below zero: its memory is the flat
\* one. An access over the end of its page reaches the frame of its first byte,
\* as far as the memory there goes, and no other byte is lost by it.
THEOREM Implements ==
  ASSUME NoneNegative
  PROVE  Spec => FlatMemory
<1>1. Init => Flat!Init /\ IInv /\ CachePositive
  BY InitMaps, InitType
<1>2. IInv /\ CachePositive /\ [Next]_vars => (IInv /\ CachePositive)' /\ [Flat!Next]_(Flat!vars)
  BY NextType, StepMaps
<1> QED
  BY <1>1, <1>2, PTL DEF Spec, FlatMemory, Flat!Spec
=============================================================================
