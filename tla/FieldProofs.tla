----------------------------- MODULE FieldProofs -----------------------------
(***************************************************************************)
(* Theorems about bit fields in memory, for every size of a byte, every    *)
(* field and what the rest of memory holds.                                *)
(***************************************************************************)
EXTENDS ShiftProofs

----------------------------------------------------------------------------
(* The bits of numbers put together and taken apart.                       *)

LEMMA DivTwice ==
  ASSUME NEW x \in Int, NEW A \in Nat \ {0}, NEW B \in Nat \ {0}
  PROVE  (x \div A) \div B = x \div (A * B)
<1> DEFINE q == x \div A
           r == x % A
           p == q \div B
           u == q % B
           C == A * B
<1>1. /\ q \in Int /\ r \in Int /\ 0 <= r /\ r < A /\ x = q * A + r
  BY DivMod
<1>2. p \in Int /\ u \in Int /\ 0 <= u /\ u < B /\ q = p * B + u
  <2> HIDE DEF q
  <2> QED BY <1>1, DivMod
<1>3. C \in Nat \ {0}
  OBVIOUS
<1> HIDE DEF q, r, p, u
<1>4. x = p * C + (u * A + r)
  <2>1. (p * B + u) * A = p * (A * B) + u * A
    BY <1>2
  <2> QED BY <1>1, <1>2, <2>1
<1>5. 0 <= u * A + r /\ u * A + r < C
  <2>1. 0 <= u * A /\ u * A <= (B - 1) * A /\ (B - 1) * A = A * B - A
    BY <1>2
  <2>2. u * A \in Int /\ A * B \in Int
    BY <1>2
  <2> QED BY <1>1, <2>1, <2>2
<1> DEFINE y == u * A + r
<1>6. y \in Int
  BY <1>1, <1>2
<1> HIDE DEF C, y
<1>7. p * C <= x /\ x < p * C + C
  BY <1>2, <1>3, <1>4, <1>5, <1>6 DEF y
<1>8. x \div C = p
  BY <1>2, <1>3, <1>7, Part
<1> QED BY <1>8 DEF p, q, C

LEMMA PowersUp ==
  ASSUME NEW i \in Nat, NEW j \in Nat, i + j <= BF
  PROVE  /\ 2 ^ i \in Nat \ {0} /\ 2 ^ j \in Nat \ {0} /\ 2 ^ (i + j) = 2 ^ i * 2 ^ j
         /\ 2 ^ 0 = 1
<1>1. Width(4) \in Nat
  BY AluAssumption DEF Width
<1>2. 2 ^ i \in Nat \ {0} /\ 2 ^ (i + j) = 2 ^ i * 2 ^ j /\ 2 ^ 0 = 1
  BY <1>1, Powers DEF BF
<1>3. j + i = i + j /\ j + i <= Width(4) + 1
  BY <1>1 DEF BF
<1>4. 2 ^ j \in Nat \ {0}
  BY <1>3, Powers
<1> QED BY <1>2, <1>4

LEMMA BitAbove ==
  ASSUME NEW x \in Int, NEW i \in Nat, NEW k \in Nat, k + i <= BF
  PROVE  Bit(x \div 2 ^ k, i) <=> Bit(x, k + i)
<1>1. 2 ^ k \in Nat \ {0} /\ 2 ^ i \in Nat \ {0} /\ 2 ^ (k + i) = 2 ^ k * 2 ^ i
  BY PowersUp
<1>2. (x \div 2 ^ k) \div 2 ^ i = x \div 2 ^ (k + i)
  <2>1. PICK A, B \in Nat \ {0} : A = 2 ^ k /\ B = 2 ^ i
    BY <1>1
  <2>2. (x \div A) \div B = x \div (A * B)
    BY DivTwice
  <2> QED BY <1>1, <2>1, <2>2
<1> QED BY <1>2, Zenon DEF Bit

LEMMA BitBelow ==
  ASSUME NEW x \in Int, NEW k \in Nat, NEW i \in Nat, i < k, k <= BF
  PROVE  Bit(x % 2 ^ k, i) <=> Bit(x, i)
<1> DEFINE l == k - i - 1
<1>1. l \in Nat /\ 1 + l \in Nat /\ i + (1 + l) = k /\ 1 + l <= BF
  BY AluAssumption DEF BF, Width
<1>2. 2 ^ k = 2 ^ i * 2 ^ (1 + l) /\ 2 ^ i \in Nat \ {0} /\ 2 ^ k \in Nat \ {0}
  <2> HIDE DEF l
  <2>1. k + 0 <= BF /\ 0 \in Nat
    BY <1>1
  <2>2. 2 ^ k \in Nat \ {0}
    BY <2>1, PowersUp
  <2>3. i + (1 + l) <= BF
    BY <1>1
  <2>4. 2 ^ i \in Nat \ {0} /\ 2 ^ (i + (1 + l)) = 2 ^ i * 2 ^ (1 + l)
    BY <1>1, <2>3, PowersUp
  <2> QED BY <1>1, <2>2, <2>4
<1>3. 2 ^ (1 + l) = 2 * 2 ^ l /\ 2 ^ l \in Nat \ {0}
  <2> HIDE DEF l
  <2>1. 1 \in Nat /\ 1 + l <= BF /\ l \in Nat
    BY <1>1
  <2>2. 2 ^ l \in Nat \ {0} /\ 2 ^ (1 + l) = 2 ^ 1 * 2 ^ l
    BY <2>1, PowersUp
  <2>3. 2 ^ 1 = 2
    BY PowersAssumption
  <2> QED BY <2>2, <2>3
<1>4. PICK A, L \in Nat \ {0} : A = 2 ^ i /\ L = 2 ^ l /\ 2 ^ k = A * (2 * L)
  BY <1>2, <1>3
<1> HIDE DEF l
<1> DEFINE m == A * (2 * L)
           q == x \div m
           y == x % m
<1>5. /\ m \in Nat \ {0} /\ q \in Int /\ y \in Int /\ x = q * m + y
  <2>1. m \in Nat \ {0}
    OBVIOUS
  <2> HIDE DEF m
  <2> QED BY <2>1, DivMod
<1> HIDE DEF q, y
<1>6. x = y + (q * (2 * L)) * A
  BY <1>5
<1>7. x \div A = y \div A + q * (2 * L)
  <2> DEFINE e == q * (2 * L)
  <2>1. e \in Int
    BY <1>5
  <2>2. x = y + e * A
    BY <1>6
  <2> HIDE DEF e
  <2>3. (y + e * A) \div A = y \div A + e
    BY <1>5, <2>1, Around
  <2> QED BY <2>2, <2>3 DEF e
<1>8. (x \div A) % 2 = (y \div A) % 2
  <2>1. q * (2 * L) = (q * L) * 2 /\ q * L \in Int /\ y \div A \in Int /\ 2 \in Nat \ {0}
    BY <1>5
  <2> DEFINE z == y \div A
             e == q * L
  <2>2. z \in Int /\ e \in Int /\ x \div A = z + e * 2
    BY <1>7, <2>1
  <2> HIDE DEF z, e
  <2>3. (z + e * 2) % 2 = z % 2
    BY <2>1, <2>2, Around
  <2> QED BY <2>2, <2>3 DEF z
<1>9. x % 2 ^ k = y
  BY <1>4 DEF y
<1>10. Bit(y, i) <=> (y \div A) % 2 = 1
  BY <1>4, Zenon DEF Bit
<1>11. Bit(x, i) <=> (x \div A) % 2 = 1
  BY <1>4, Zenon DEF Bit
<1> QED BY <1>8, <1>9, <1>10, <1>11

LEMMA CutAt ==
  ASSUME NEW m \in Nat \ {0}, NEW x \in 0 .. m - 1, NEW y \in Int
  PROVE  (y * m + x) \div m = y /\ (y * m + x) % m = x
<1>1. x \div m = 0 /\ x % m = x /\ x \in Int
  OBVIOUS
<1>2. y * m + x = x + y * m /\ y * m \in Int
  OBVIOUS
<1>3. (x + y * m) % m = x % m /\ (x + y * m) \div m = x \div m + y
  BY <1>1, Around
<1> QED BY <1>1, <1>2, <1>3

LEMMA BitJoined ==
  ASSUME NEW k \in Nat, k <= BF, NEW x \in 0 .. 2 ^ k - 1, NEW y \in Int,
         NEW i \in 0 .. BF
  PROVE  /\ i < k => (Bit(y * 2 ^ k + x, i) <=> Bit(x, i))
         /\ i >= k => (Bit(y * 2 ^ k + x, i) <=> Bit(y, i - k))
<1> DEFINE z == y * 2 ^ k + x
<1>1. PICK m \in Nat \ {0} : m = 2 ^ k
  <2>1. k + 0 <= BF /\ 0 \in Nat
    BY AluAssumption DEF BF, Width
  <2> QED BY <2>1, PowersUp
<1>2. z \in Int /\ z \div 2 ^ k = y /\ z % 2 ^ k = x
  <2>1. y * m + x \in Int /\ (y * m + x) \div m = y /\ (y * m + x) % m = x
    BY <1>1, CutAt
  <2> QED BY <1>1, <2>1
<1> HIDE DEF z
<1>3. i \in Nat /\ BF \in Nat
  BY AluAssumption DEF BF, Width
<1>4. ASSUME i < k PROVE Bit(z, i) <=> Bit(x, i)
  <2>1. Bit(z % 2 ^ k, i) <=> Bit(z, i)
    BY <1>2, <1>3, <1>4, BitBelow
  <2> QED BY <1>2, <2>1
<1>5. ASSUME i >= k PROVE Bit(z, i) <=> Bit(y, i - k)
  <2>1. i - k \in Nat /\ k + (i - k) = i /\ k + (i - k) <= BF
    BY <1>3, <1>5
  <2>2. Bit(z \div 2 ^ k, i - k) <=> Bit(z, i)
    <3> DEFINE j == i - k
    <3> HIDE DEF j
    <3>1. Bit(z \div 2 ^ k, j) <=> Bit(z, k + j)
      BY <1>2, <2>1, BitAbove DEF j
    <3> QED BY <2>1, <3>1 DEF j
  <2> QED BY <1>2, <2>2
<1> QED BY <1>4, <1>5 DEF z

LEMMA BitInverted ==
  ASSUME NEW w \in Nat, w <= BF, NEW f \in 0 .. 2 ^ w - 1, NEW i \in 0 .. w - 1
  PROVE  /\ 2 ^ w - 1 - f \in 0 .. 2 ^ w - 1
         /\ Bit(2 ^ w - 1 - f, i) <=> ~Bit(f, i)
<1> DEFINE l == w - i - 1
<1>1. l \in Nat /\ i + (1 + l) = w /\ 1 + l \in Nat /\ i \in Nat /\ 1 + l <= BF
  BY AluAssumption DEF BF, Width
<1>2. 2 ^ w = 2 ^ i * 2 ^ (1 + l) /\ 2 ^ i \in Nat \ {0}
  <2> HIDE DEF l
  <2> QED BY <1>1, PowersUp
<1>3. 2 ^ (1 + l) = 2 * 2 ^ l /\ 2 ^ l \in Nat \ {0}
  <2> HIDE DEF l
  <2>1. 1 \in Nat /\ 1 + l <= BF /\ l \in Nat
    BY <1>1
  <2>2. 2 ^ l \in Nat \ {0} /\ 2 ^ (1 + l) = 2 ^ 1 * 2 ^ l
    BY <2>1, PowersUp
  <2>3. 2 ^ 1 = 2
    BY PowersAssumption
  <2> QED BY <2>2, <2>3
<1>4. PICK A, L \in Nat \ {0} : A = 2 ^ i /\ 2 ^ w = A * (2 * L)
  BY <1>2, <1>3
<1> HIDE DEF l
<1> DEFINE q == f \div A
           r == f % A
           g == 2 ^ w - 1 - f
<1>5. /\ q \in Int /\ r \in Int /\ 0 <= r /\ r < A /\ f = q * A + r /\ f \in Int
      /\ 0 <= f /\ f < A * (2 * L)
  <2>1. f \in Int /\ 0 <= f /\ f < 2 ^ w
    <3>1. PICK m \in Nat \ {0} : m = 2 ^ w
      BY <1>4
    <3> QED BY <3>1
  <2> QED BY <1>4, <2>1, DivMod
<1> HIDE DEF q, r
<1>6. g = (2 * L - 1 - q) * A + (A - 1 - r) /\ g \in 0 .. 2 ^ w - 1
  <2>1. (2 * L - 1 - q) * A = A * (2 * L) - A - q * A
    BY <1>5
  <2> DEFINE m == A * (2 * L)
             h == q * A
  <2>2. m \in Nat /\ 2 ^ w = m /\ h \in Int
    BY <1>4, <1>5
  <2>3. (2 * L - 1 - q) * A = m - A - h /\ f = h + r /\ f < m
    BY <1>5, <2>1
  <2> HIDE DEF m, h
  <2> QED BY <1>5, <2>2, <2>3
<1>7. g \div A = 2 * L - 1 - q
  <2> DEFINE p == 2 * L - 1 - q
             e == A - 1 - r
  <2>1. p \in Int /\ e \in 0 .. A - 1 /\ g = p * A + e
    BY <1>5, <1>6
  <2> HIDE DEF p, e, g
  <2> QED BY <2>1, CutAt DEF p
<1>8. (g \div A) % 2 = 1 <=> q % 2 # 1
  <2> HIDE DEF g
  <2> QED BY <1>5, <1>7
<1>9. Bit(g, i) <=> (g \div A) % 2 = 1
  BY <1>4, Zenon DEF Bit
<1>10. Bit(f, i) <=> q % 2 = 1
  BY <1>4, Zenon DEF Bit, q
<1> QED BY <1>6, <1>8, <1>9, <1>10

LEMMA NoBit == ASSUME NEW i \in 0 .. BF PROVE ~Bit(0, i)
<1>1. PICK m \in Nat \ {0} : m = 2 ^ i
  <2>1. i \in Nat /\ i + 0 <= BF /\ 0 \in Nat
    BY AluAssumption DEF BF, Width
  <2> QED BY <2>1, PowersUp
<1>2. (0 \div m) % 2 # 1
  BY <1>1
<1> QED BY <1>1, <1>2, Zenon DEF Bit

\* A number without bits is 0.
LEMMA AllBitsClear ==
  ASSUME NEW w \in Nat, w <= BF, NEW f \in 0 .. 2 ^ w - 1
  PROVE  f = 0 <=> \A i \in 0 .. w - 1 : ~Bit(f, i)
<1>1. BF \in Nat
  BY AluAssumption DEF BF, Width
<1>2. ASSUME f = 0, NEW i \in 0 .. w - 1 PROVE ~Bit(f, i)
  <2>1. i \in 0 .. BF
    BY <1>1
  <2> QED BY <1>2, <2>1, NoBit
<1>3. ASSUME \A i \in 0 .. w - 1 : ~Bit(f, i) PROVE f = 0
  <2> DEFINE T == {k \in Nat : k > w \/ f % 2 ^ k = 0}
  <2>1. 0 \in T
    <3>1. 2 ^ 0 = 1 /\ f % 1 = 0
      BY <1>1, PowersUp
    <3> QED BY <3>1
  <2>2. ASSUME NEW k \in Nat, k \in T PROVE k + 1 \in T
    <3>1. CASE k + 1 > w
      BY <3>1
    <3>2. CASE k + 1 <= w
      <4>1. f % 2 ^ k = 0 /\ ~Bit(f, k) /\ k + 1 <= BF
        BY <1>1, <1>3, <2>2, <3>2
      <4>2. 2 ^ (k + 1) = 2 ^ k * 2 /\ 2 ^ k \in Nat \ {0}
        BY <4>1, PowersUp, PowersAssumption
      <4>3. PICK A \in Nat \ {0} : A = 2 ^ k /\ 2 ^ (k + 1) = A * 2
        BY <4>2
      <4> DEFINE q == f \div A
      <4>4. q \in Int /\ f \in Int /\ f % A = 0 /\ q % 2 # 1
        <5>1. ~Bit(f, k) <=> q % 2 # 1
          BY <4>3, Zenon DEF Bit
        <5> QED BY <4>1, <4>3, <5>1
      <4>5. f = q * A + 0
        BY <4>4, DivMod
      <4> HIDE DEF q
      <4>6. q = (q \div 2) * 2 /\ q \div 2 \in Int
        BY <4>4
      <4>7. f = (q \div 2) * (A * 2) + 0
        BY <4>4, <4>5, <4>6
      <4>8. f % (A * 2) = 0
        <5> DEFINE m == A * 2
                   p == q \div 2
        <5>1. m \in Nat \ {0} /\ p \in Int /\ 0 \in 0 .. m - 1
          BY <4>6
        <5> HIDE DEF m, p
        <5>2. (p * m + 0) % m = 0
          BY <5>1, CutAt
        <5> QED BY <4>7, <5>2 DEF m, p
      <4>9. f % 2 ^ (k + 1) = 0
        BY <4>3, <4>8
      <4> QED BY <4>9
    <3> QED BY <3>1, <3>2
  <2>3. \A k \in Nat : k \in T
    <3> HIDE DEF T
    <3> QED BY <2>1, <2>2, SetInduction
  <2>4. f % 2 ^ w = 0
    BY <2>3
  <2>5. f % 2 ^ w = f
    <3>1. PICK m \in Nat \ {0} : m = 2 ^ w
      <4>1. w + 0 <= BF
        BY <1>1
      <4> QED BY <4>1, PowersUp
    <3> QED BY <3>1
  <2> QED BY <2>4, <2>5
<1> QED BY <1>2, <1>3
----------------------------------------------------------------------------
(***************************************************************************)
(* Bit fields.  A field is in a long word and the byte after it, lo and hi *)
(* of the handlers, whose bits Two counts from the low end.                *)
(***************************************************************************)
Two(lo, hi, j) == IF j < Byte THEN Bit(hi, j) ELSE Bit(lo, j - Byte)

LEMMA FieldWidths ==
  /\ Byte \in Nat \ {0} /\ BF = 4 * Byte /\ BF \in Nat
  /\ Mod(1) = 2 ^ Byte /\ Mod(4) = 2 ^ BF
  /\ 2 ^ Byte \in Nat \ {0}
<1>1. Byte \in Nat \ {0} /\ Width(4) = 4 * Byte /\ Width(1) = Byte
  BY AluAssumption DEF Width
<1>2. BF = 4 * Byte /\ BF \in Nat
  BY <1>1 DEF BF
<1>3. Mod(1) = 2 ^ Byte /\ Mod(4) = 2 ^ BF
  BY <1>1, Zenon DEF Mod, BF
<1>4. Byte + 0 <= BF /\ 0 \in Nat
  BY <1>1, <1>2
<1>5. 2 ^ Byte \in Nat \ {0}
  BY <1>1, <1>4, PowersUp
<1> QED BY <1>1, <1>2, <1>3, <1>5

\* The bytes of a long word.
LEMMA BytesJoined ==
  ASSUME NEW a \in 0 .. Mod(1) - 1, NEW b \in 0 .. Mod(1) - 1, NEW c \in 0 .. Mod(1) - 1,
         NEW d \in 0 .. Mod(1) - 1, NEW x \in Nat, NEW r \in 0 .. Byte - 1,
         x = ((a * Mod(1) + b) * Mod(1) + c) * Mod(1) + d
  PROVE  /\ Bit(x, r) <=> Bit(d, r)
         /\ Bit(x, Byte + r) <=> Bit(c, r)
         /\ Bit(x, 2 * Byte + r) <=> Bit(b, r)
         /\ Bit(x, 3 * Byte + r) <=> Bit(a, r)
<1> DEFINE M == 2 ^ Byte
           y == a * M + b
           z == y * M + c
<1>1. /\ Byte \in Nat \ {0} /\ Byte <= BF /\ BF = 4 * Byte /\ Mod(1) = M /\ M \in Nat \ {0}
  BY FieldWidths
<1>2. /\ a \in 0 .. M - 1 /\ b \in 0 .. M - 1 /\ c \in 0 .. M - 1 /\ d \in 0 .. M - 1
      /\ x = z * M + d
  BY <1>1
<1>3. a \in Nat /\ y \in Nat /\ z \in Nat
  <2> HIDE DEF M
  <2> QED BY <1>1, <1>2
<1> HIDE DEF y, z
<1>4. ASSUME NEW h \in Int, NEW l \in 0 .. 2 ^ Byte - 1, NEW i \in 0 .. BF
      PROVE  /\ i < Byte => (Bit(h * 2 ^ Byte + l, i) <=> Bit(l, i))
             /\ i >= Byte => (Bit(h * 2 ^ Byte + l, i) <=> Bit(h, i - Byte))
  BY <1>1, BitJoined
<1> DEFINE i1 == Byte + r
           i2 == 2 * Byte + r
           i3 == 3 * Byte + r
<1>5. /\ r \in 0 .. BF /\ i1 \in 0 .. BF /\ i2 \in 0 .. BF /\ i3 \in 0 .. BF
      /\ r < Byte /\ i1 >= Byte /\ i2 >= Byte /\ i3 >= Byte
      /\ i1 - Byte = r /\ i2 - Byte = i1 /\ i3 - Byte = i2
  BY <1>1
<1> HIDE DEF i1, i2, i3
<1>6. /\ Bit(x, r) <=> Bit(d, r)
      /\ Bit(x, i1) <=> Bit(z, r)
      /\ Bit(x, i2) <=> Bit(z, i1)
      /\ Bit(x, i3) <=> Bit(z, i2)
  BY <1>2, <1>3, <1>4, <1>5
<1>7. /\ Bit(z, r) <=> Bit(c, r)
      /\ Bit(z, i1) <=> Bit(y, r)
      /\ Bit(z, i2) <=> Bit(y, i1)
  BY <1>2, <1>3, <1>4, <1>5 DEF z
<1>8. /\ Bit(y, r) <=> Bit(b, r)
      /\ Bit(y, i1) <=> Bit(a, r)
  BY <1>2, <1>3, <1>4, <1>5 DEF y
<1> QED BY <1>3, <1>6, <1>7, <1>8 DEF i1, i2, i3

LEMMA ByteStored ==
  ASSUME NEW x \in Int, NEW i \in 0 .. 3, NEW r \in 0 .. Byte - 1
  PROVE  /\ (x \div 2 ^ (BF - Byte * (i + 1))) % Mod(1) \in 0 .. Mod(1) - 1
         /\ Bit((x \div 2 ^ (BF - Byte * (i + 1))) % Mod(1), r) <=> Bit(x, Byte * (3 - i) + r)
<1> DEFINE k == BF - Byte * (i + 1)
           q == x \div 2 ^ k
<1>1. /\ Byte \in Nat \ {0} /\ BF = 4 * Byte /\ Mod(1) = 2 ^ Byte /\ 2 ^ Byte \in Nat \ {0}
  BY FieldWidths
<1>2. k = Byte * (3 - i) /\ k \in Nat /\ k + r <= BF /\ k <= BF
  <2>1. i = 0 \/ i = 1 \/ i = 2 \/ i = 3
    OBVIOUS
  <2>2. CASE i = 0
    BY <1>1, <2>2
  <2>3. CASE i = 1
    BY <1>1, <2>3
  <2>4. CASE i = 2
    BY <1>1, <2>4
  <2>5. CASE i = 3
    BY <1>1, <2>5
  <2> QED BY <2>1, <2>2, <2>3, <2>4, <2>5
<1> HIDE DEF k
<1>3. q \in Int
  <2>1. k + 0 <= BF /\ 0 \in Nat
    BY <1>2
  <2>2. PICK m \in Nat \ {0} : m = 2 ^ k
    BY <1>2, <2>1, PowersUp
  <2> QED BY <2>2
<1>4. Bit(q, r) <=> Bit(x, k + r)
  BY <1>1, <1>2, BitAbove
<1> HIDE DEF q
<1>5. Bit(q % 2 ^ Byte, r) <=> Bit(q, r)
  BY <1>1, <1>3, BitBelow
<1>6. q % 2 ^ Byte \in 0 .. 2 ^ Byte - 1
  <2>1. PICK m \in Nat \ {0} : m = 2 ^ Byte
    BY <1>1
  <2> QED BY <1>3, <2>1
<1> QED BY <1>1, <1>2, <1>4, <1>5, <1>6 DEF q, k

\* The powers an offset divides a byte and a long word into.
LEMMA FieldPowers ==
  ASSUME NEW o \in 0 .. Byte - 1
  PROVE  \E G, O, L \in Nat \ {0} :
           /\ G = 2 ^ (Byte - o) /\ O = 2 ^ o /\ L = 2 ^ (BF - o)
           /\ 2 ^ Byte = O * G /\ 2 ^ BF = O * L
<1>1. Byte \in Nat \ {0} /\ BF = 4 * Byte /\ BF \in Nat
  BY FieldWidths
<1>2. /\ o \in Nat /\ Byte - o \in Nat /\ BF - o \in Nat
      /\ o + (Byte - o) = Byte /\ o + (BF - o) = BF /\ Byte <= BF
  BY <1>1
<1>3. 2 ^ o \in Nat \ {0} /\ 2 ^ (Byte - o) \in Nat \ {0} /\ 2 ^ Byte = 2 ^ o * 2 ^ (Byte - o)
  <2> DEFINE k == Byte - o
  <2> HIDE DEF k
  <2>1. k \in Nat /\ o + k = Byte /\ o + k <= BF
    BY <1>2 DEF k
  <2>2. 2 ^ o \in Nat \ {0} /\ 2 ^ k \in Nat \ {0} /\ 2 ^ (o + k) = 2 ^ o * 2 ^ k
    BY <1>2, <2>1, PowersUp
  <2> QED BY <2>1, <2>2 DEF k
<1>4. 2 ^ (BF - o) \in Nat \ {0} /\ 2 ^ BF = 2 ^ o * 2 ^ (BF - o)
  <2> DEFINE k == BF - o
  <2> HIDE DEF k
  <2>1. k \in Nat /\ o + k = BF /\ o + k <= BF
    BY <1>1, <1>2 DEF k
  <2>2. 2 ^ o \in Nat \ {0} /\ 2 ^ k \in Nat \ {0} /\ 2 ^ (o + k) = 2 ^ o * 2 ^ k
    BY <1>2, <2>1, PowersUp
  <2> QED BY <2>1, <2>2 DEF k
<1> QED BY <1>3, <1>4

\* The field the handlers work on is the part of the five bytes from the
\* offset on.
LEMMA FieldMade ==
  ASSUME NEW o \in 0 .. Byte - 1, NEW lo \in Nat, NEW hi \in 0 .. 2 ^ Byte - 1,
         NEW k \in 0 .. BF - 1
  PROVE  /\ MakeField(lo, hi, o) \in 0 .. 2 ^ BF - 1
         /\ Bit(MakeField(lo, hi, o), k) <=> Two(lo, hi, k + Byte - o)
<1>1. PICK G, O, L \in Nat \ {0} :
        /\ G = 2 ^ (Byte - o) /\ O = 2 ^ o /\ L = 2 ^ (BF - o)
        /\ 2 ^ Byte = O * G /\ 2 ^ BF = O * L
  BY FieldPowers
<1>2. Byte \in Nat \ {0} /\ BF = 4 * Byte /\ BF \in Nat
  BY FieldWidths
<1> DEFINE y == lo % L
           x == hi \div G
           F == MakeField(lo, hi, o)
<1>3. y \in 0 .. L - 1 /\ lo \in Int
  OBVIOUS
<1>4. x \in 0 .. O - 1 /\ hi \in Int
  <2> DEFINE m == O * G
  <2>1. hi \in Int /\ 0 <= hi /\ hi < m /\ m \in Nat
    BY <1>1
  <2>2. hi = x * G + (hi % G) /\ x \in Int /\ 0 <= hi % G /\ hi % G < G /\ hi % G \in Int
    BY <2>1, DivMod
  <2> HIDE DEF x
  <2>3. x >= 0
    <3>1. x < 0 => x * G <= -G
      BY <2>2
    <3>2. x * G \in Int
      BY <2>2
    <3> QED BY <2>1, <2>2, <3>1, <3>2
  <2>4. x < O
    <3>1. x >= O => x * G >= O * G
      BY <2>2
    <3>2. x * G \in Int
      BY <2>2
    <3> QED BY <2>1, <2>2, <3>1, <3>2
  <2> QED BY <2>1, <2>2, <2>3, <2>4
<1>5. F = y * 2 ^ o + x
  BY <1>1 DEF MakeField, Up
<1> HIDE DEF F, x, y
<1>6. F \in 0 .. 2 ^ BF - 1
  <2>1. y * O <= (L - 1) * O /\ (L - 1) * O = O * L - O /\ 0 <= y * O /\ y * O \in Int
    BY <1>3
  <2> DEFINE m == O * L
             e == y * O
  <2>2. m \in Nat /\ 2 ^ BF = m /\ F = e + x /\ e <= m - O /\ 0 <= e /\ e \in Int
    BY <1>1, <1>5, <2>1
  <2> HIDE DEF m, e
  <2> QED BY <1>4, <2>2
<1>7. CASE k < o
  <2>1. Bit(F, k) <=> Bit(x, k)
    <3>1. o \in Nat /\ o <= BF /\ x \in 0 .. 2 ^ o - 1 /\ y \in Int /\ k \in 0 .. BF
      BY <1>1, <1>2, <1>3, <1>4
    <3> QED BY <1>5, <1>7, <3>1, BitJoined
  <2>2. Bit(x, k) <=> Bit(hi, (Byte - o) + k)
    <3> DEFINE l == Byte - o
    <3>1. l \in Nat /\ k \in Nat /\ l + k <= BF
      BY <1>2, <1>7
    <3> HIDE DEF l
    <3>2. Bit(hi \div 2 ^ l, k) <=> Bit(hi, l + k)
      BY <1>4, <3>1, BitAbove
    <3> QED BY <1>1, <3>2 DEF x, l
  <2>3. (Byte - o) + k = k + Byte - o /\ k + Byte - o < Byte
    BY <1>2, <1>7
  <2> QED BY <1>6, <2>1, <2>2, <2>3 DEF Two, F
<1>8. CASE k >= o
  <2>1. Bit(F, k) <=> Bit(y, k - o)
    <3>1. o \in Nat /\ o <= BF /\ x \in 0 .. 2 ^ o - 1 /\ y \in Int /\ k \in 0 .. BF
      BY <1>1, <1>2, <1>3, <1>4
    <3> QED BY <1>5, <1>8, <3>1, BitJoined
  <2>2. Bit(y, k - o) <=> Bit(lo, k - o)
    <3> DEFINE l == BF - o
               j == k - o
    <3>1. l \in Nat /\ j \in Nat /\ j < l /\ l <= BF
      BY <1>2, <1>8
    <3> HIDE DEF l, j
    <3>2. Bit(lo % 2 ^ l, j) <=> Bit(lo, j)
      BY <1>3, <3>1, BitBelow
    <3> QED BY <1>1, <3>2 DEF y, l, j
  <2>3. (k + Byte - o) - Byte = k - o /\ ~(k + Byte - o < Byte)
    BY <1>2, <1>8
  <2> QED BY <1>6, <2>1, <2>2, <2>3 DEF Two, F
<1> QED BY <1>2, <1>7, <1>8

\* What is stored has the new field in its place and the old bits around it.
LEMMA StoredBits ==
  ASSUME NEW o \in 0 .. Byte - 1, NEW lo \in Nat, NEW hi \in 0 .. 2 ^ Byte - 1,
         NEW N \in 0 .. 2 ^ BF - 1, NEW j \in 0 .. BF + Byte - 1
  PROVE  /\ StoredLo(lo, N, o) \in Int /\ StoredHi(hi, N, o) \in Int
         /\ Two(StoredLo(lo, N, o), StoredHi(hi, N, o), j)
              <=> IF j < Byte - o \/ j >= BF + Byte - o THEN Two(lo, hi, j)
                  ELSE Bit(N, j - (Byte - o))
<1>1. PICK G, O, L \in Nat \ {0} :
        /\ G = 2 ^ (Byte - o) /\ O = 2 ^ o /\ L = 2 ^ (BF - o)
        /\ 2 ^ Byte = O * G /\ 2 ^ BF = O * L
  BY FieldPowers
<1>2. Byte \in Nat \ {0} /\ BF = 4 * Byte /\ BF \in Nat
  BY FieldWidths
<1> DEFINE q == lo \div L
           y == N \div O
           r == N % O
           h == hi % G
           a == StoredLo(lo, N, o)
           b == StoredHi(hi, N, o)
<1>3. /\ q \in Int /\ y \in Int /\ r \in 0 .. O - 1 /\ h \in 0 .. G - 1
      /\ N \in Int /\ lo \in Int /\ hi \in Int
      /\ lo = q * L + (lo % L) /\ lo % L \in Int
      /\ N = y * O + r
  <2>1. 2 ^ BF \in Nat /\ 2 ^ Byte \in Nat
    BY <1>1
  <2>2. N \in Int /\ lo \in Int /\ hi \in Int
    BY <2>1
  <2> QED BY <2>2, DivMod
<1>4. y \in 0 .. L - 1
  <2> DEFINE m == O * L
  <2>1. 0 <= N /\ N < m /\ m \in Nat
    BY <1>1, <1>3
  <2> HIDE DEF y, r
  <2>2. y >= 0
    <3>1. y < 0 => y * O <= -O
      BY <1>3
    <3>2. y * O \in Int
      BY <1>3
    <3> QED BY <1>3, <2>1, <3>1, <3>2
  <2>3. y < L
    <3>1. y >= L => y * O >= O * L
      BY <1>3
    <3>2. y * O \in Int
      BY <1>3
    <3> QED BY <1>3, <2>1, <3>1, <3>2
  <2> QED BY <1>3, <2>2, <2>3
<1>5. a = q * L + y
  <2>1. a = (lo - (lo % L)) + y
    BY <1>1 DEF StoredLo
  <2>2. q * L \in Int
    BY <1>3
  <2> DEFINE e == q * L
             g == lo % L
  <2>3. e \in Int /\ g \in Int /\ lo = e + g /\ a = (lo - g) + y
    BY <1>3, <2>1, <2>2
  <2> HIDE DEF e, g, a, y
  <2>4. a = e + y
    BY <1>4, <2>3
  <2> QED BY <2>4 DEF e
<1>6. b = r * G + h
  <2>1. b = h + ((N * G) % (O * G))
    BY <1>1 DEF StoredHi
  <2>2. N * G = y * (O * G) + r * G
    <3> HIDE DEF y, r
    <3> QED BY <1>3
  <2>3. r * G \in 0 .. O * G - 1 /\ O * G \in Nat \ {0}
    <3> HIDE DEF r
    <3>1. r * G <= (O - 1) * G /\ (O - 1) * G = O * G - G /\ r * G >= 0 /\ r * G \in Int
      BY <1>3
    <3>2. O * G \in Nat \ {0}
      OBVIOUS
    <3> QED BY <3>1, <3>2
  <2> DEFINE m == O * G
             e == r * G
  <2>4. m \in Nat \ {0} /\ e \in 0 .. m - 1 /\ y \in Int /\ b = h + ((N * G) % m) /\ N * G = y * m + e
    BY <1>4, <2>1, <2>2, <2>3
  <2> HIDE DEF m, e, y, r, h, b
  <2>5. (y * m + e) % m = e
    BY <2>4, CutAt
  <2>6. b = h + e /\ e \in Int
    BY <2>5, <2>4
  <2> QED BY <1>3, <2>6 DEF e
<1>7. a \in Int /\ b \in Int
  <2> HIDE DEF q, y, r, h
  <2>1. q * L \in Int /\ r * G \in Int
    BY <1>3
  <2> QED BY <1>3, <1>4, <1>5, <1>6, <2>1
<1> HIDE DEF a, b
<1>8. CASE j < Byte
  <2>1. Two(a, b, j) <=> Bit(b, j)
    BY <1>8 DEF Two
  <2>2. Two(lo, hi, j) <=> Bit(hi, j)
    BY <1>8 DEF Two
  <2> DEFINE k == Byte - o
  <2>3. k \in Nat /\ k <= BF /\ j \in 0 .. BF /\ j \in Nat /\ ~(j >= BF + Byte - o) /\ j - k < o
        /\ o \in Nat /\ o <= BF
    BY <1>2, <1>8
  <2>4. h \in 0 .. 2 ^ k - 1 /\ b = r * 2 ^ k + h /\ r \in Int
    BY <1>1, <1>3, <1>6
  <2>5. h = hi % 2 ^ k /\ r = N % 2 ^ o
    BY <1>1
  <2> HIDE DEF k, h, r
  <2>6. /\ j < k => (Bit(b, j) <=> Bit(h, j))
        /\ j >= k => (Bit(b, j) <=> Bit(r, j - k))
    BY <2>3, <2>4, BitJoined
  <2>7. CASE j < k
    <3>1. Bit(h, j) <=> Bit(hi, j)
      BY <1>3, <2>3, <2>5, <2>7, BitBelow
    <3>2. j < Byte - o
      BY <2>7 DEF k
    <3> QED BY <1>7, <2>1, <2>2, <2>6, <2>7, <3>1, <3>2 DEF a, b
  <2>8. CASE j >= k
    <3>1. j - k \in Nat
      BY <2>3, <2>8
    <3>2. Bit(r, j - k) <=> Bit(N, j - k)
      BY <1>3, <2>3, <2>5, <3>1, BitBelow
    <3>3. ~(j < Byte - o)
      BY <2>3, <2>8 DEF k
    <3> QED BY <1>7, <2>1, <2>3, <2>6, <2>8, <3>2, <3>3 DEF a, b, k
  <2> QED BY <2>3, <2>7, <2>8
<1>9. CASE j >= Byte
  <2> DEFINE i == j - Byte
             k == BF - o
  <2>1. Two(a, b, j) <=> Bit(a, i)
    BY <1>2, <1>9 DEF Two
  <2>2. Two(lo, hi, j) <=> Bit(lo, i)
    BY <1>2, <1>9 DEF Two
  <2>3. i \in 0 .. BF /\ i \in Nat /\ k \in Nat /\ k <= BF /\ ~(j < Byte - o)
        /\ i < BF /\ o \in Nat /\ o <= BF
    BY <1>2, <1>9
  <2>4. y \in 0 .. 2 ^ k - 1 /\ a = q * 2 ^ k + y /\ q \in Int /\ y = N \div 2 ^ o
        /\ q = lo \div 2 ^ k
    BY <1>1, <1>3, <1>4, <1>5
  <2>5. (i < k <=> ~(j >= BF + Byte - o)) /\ (i < k => o + i <= BF /\ o + i = j - (Byte - o))
    BY <1>2, <1>9
  <2>6. i >= k => i - k \in Nat /\ k + (i - k) = i
    BY <2>3
  <2> HIDE DEF k, i, y, q
  <2>7. /\ i < k => (Bit(a, i) <=> Bit(y, i))
        /\ i >= k => (Bit(a, i) <=> Bit(q, i - k))
    <3>1. /\ i < k => (Bit(q * 2 ^ k + y, i) <=> Bit(y, i))
          /\ i >= k => (Bit(q * 2 ^ k + y, i) <=> Bit(q, i - k))
      <4>1. k \in Nat /\ k <= BF /\ y \in 0 .. 2 ^ k - 1 /\ q \in Int /\ i \in 0 .. BF
        BY <2>3, <2>4
      <4> QED BY <4>1, BitJoined
    <3> QED BY <2>4, <3>1
  <2>8. CASE i < k
    <3>1. Bit(y, i) <=> Bit(N, o + i)
      BY <1>3, <2>3, <2>4, <2>5, <2>8, BitAbove
    <3> QED BY <1>7, <2>1, <2>3, <2>5, <2>7, <2>8, <3>1 DEF a, b
  <2>9. CASE i >= k
    <3>1. Bit(q, i - k) <=> Bit(lo, k + (i - k))
      <4> DEFINE e == i - k
      <4>1. e \in Nat /\ k + e <= BF
        BY <2>3, <2>6, <2>9
      <4> HIDE DEF e
      <4>2. Bit(q, e) <=> Bit(lo, k + e)
        BY <1>3, <2>3, <2>4, <4>1, BitAbove
      <4> QED BY <4>2 DEF e
    <3>2. ~(i < k)
      BY <2>3, <2>9
    <3> QED BY <1>7, <2>1, <2>2, <2>5, <2>6, <2>7, <2>9, <3>1, <3>2 DEF a, b
  <2> QED BY <2>3, <2>8, <2>9
<1> QED BY <1>2, <1>8, <1>9

\* The new field is what the instruction says in its upper width bits.
LEMMA NewFieldBits ==
  ASSUME NEW op \in Fields, NEW w \in 1 .. BF, NEW F \in 0 .. 2 ^ BF - 1, NEW v \in Nat,
         NEW k \in 0 .. BF - 1
  PROVE  LET N == NewField(op, F, w, v)
         IN /\ N \in 0 .. 2 ^ BF - 1
            /\ k < BF - w => (Bit(N, k) <=> Bit(F, k))
            /\ k >= BF - w =>
                 /\ op = "bfchg" => (Bit(N, k) <=> ~Bit(F, k))
                 /\ op = "bfclr" => ~Bit(N, k)
                 /\ op = "bfset" => Bit(N, k)
                 /\ op = "bfins" => (Bit(N, k) <=> Bit(v, k - (BF - w)))
<1> DEFINE l == BF - w
           i == k - l
           N == NewField(op, F, w, v)
<1>1. /\ BF \in Nat /\ l \in Nat /\ w \in Nat /\ w <= BF /\ l + w = BF /\ l <= BF /\ k \in 0 .. BF
      /\ i \in Int /\ l + i = k /\ (k >= l => i \in 0 .. w - 1 /\ i \in Nat /\ i < w /\ i \in 0 .. BF)
  BY FieldWidths
<1> HIDE DEF l, i
<1>2. PICK K, W \in Nat \ {0} : K = 2 ^ l /\ W = 2 ^ w /\ 2 ^ BF = K * W
  <2>1. l + w <= BF
    BY <1>1
  <2>2. 2 ^ l \in Nat \ {0} /\ 2 ^ w \in Nat \ {0} /\ 2 ^ (l + w) = 2 ^ l * 2 ^ w
    BY <1>1, <2>1, PowersUp
  <2> QED BY <1>1, <2>2
<1> DEFINE f == F \div K
           rest == F % K
<1>3. F \in Int /\ f \in Int /\ rest \in 0 .. K - 1 /\ F = f * K + rest
  <2>1. F \in Int
    BY <1>2
  <2> QED BY <2>1, DivMod
<1>4. f \in 0 .. W - 1
  <2> DEFINE m == K * W
  <2>1. m \in Nat /\ 2 ^ BF = m
    BY <1>2
  <2> HIDE DEF f, rest, m
  <2>2. 0 <= F /\ F < m /\ m \in Nat
    BY <1>3, <2>1
  <2>3. 0 <= F /\ F < K * W /\ K * W \in Nat
    BY <2>2 DEF m
  <2>4. f >= 0
    <3>1. f < 0 => f * K <= -K
      BY <1>3
    <3>2. f * K \in Int
      BY <1>3
    <3> QED BY <1>3, <2>3, <3>1, <3>2
  <2>5. f < W
    <3>1. f >= W => f * K >= K * W
      BY <1>3
    <3>2. f * K \in Int
      BY <1>3
    <3> QED BY <1>3, <2>3, <3>1, <3>2
  <2> QED BY <1>3, <2>4, <2>5
<1>5. f % W = f
  <2> HIDE DEF f
  <2> QED BY <1>4
<1> DEFINE g == CASE op = "bfchg" -> (W - 1) - f
                  [] op = "bfclr" -> 0
                  [] op = "bfset" -> W - 1
                  [] op = "bfins" -> v % W
<1>6. g \in 0 .. W - 1
  <2>1. v % W \in 0 .. W - 1
    OBVIOUS
  <2>2. op = "bfchg" \/ op = "bfclr" \/ op = "bfset" \/ op = "bfins"
    BY DEF Fields
  <2> HIDE DEF f
  <2> QED BY <1>4, <2>1, <2>2
<1>7. N = g * K + rest
  <2> DEFINE part == CASE op = "bfchg" -> MaskBase(w) - FieldOf(f, w)
                       [] op = "bfclr" -> 0
                       [] op = "bfset" -> MaskBase(w)
                       [] op = "bfins" -> FieldOf(v, w)
  <2>1. N = rest + part
    BY <1>2 DEF NewField, FieldValue, l
  <2>2. MaskBase(w) = K * W - K
    BY <1>2, FieldWidths DEF MaskBase, l
  <2>3. FieldOf(f, w) = f * K /\ FieldOf(v, w) = (v % W) * K
    BY <1>2, <1>5 DEF FieldOf, l
  <2>4. K * W - K = (W - 1) * K
    OBVIOUS
  <2>5. (K * W - K) - f * K = ((W - 1) - f) * K
    <3> HIDE DEF f
    <3> QED BY <1>4
  <2>6. op = "bfchg" \/ op = "bfclr" \/ op = "bfset" \/ op = "bfins"
    BY DEF Fields
  <2>7. part = g * K
    <3>1. CASE op = "bfchg"
      BY <2>2, <2>3, <2>5, <3>1
    <3>2. CASE op = "bfclr"
      BY <3>2
    <3>3. CASE op = "bfset"
      BY <2>2, <2>4, <3>3
    <3>4. CASE op = "bfins"
      BY <2>3, <3>4
    <3> QED BY <2>6, <3>1, <3>2, <3>3, <3>4
  <2> HIDE DEF part, g, rest, N
  <2>8. g * K \in Int
    BY <1>6
  <2> DEFINE e == g * K
  <2>9. e \in Int /\ N = rest + e /\ rest \in Int
    BY <1>3, <2>1, <2>7, <2>8
  <2> HIDE DEF e
  <2>10. N = e + rest
    BY <2>9
  <2> QED BY <2>10 DEF e
<1>8. N \in 0 .. 2 ^ BF - 1
  <2> HIDE DEF g, rest, N
  <2>1. g * K <= (W - 1) * K /\ (W - 1) * K = K * W - K /\ 0 <= g * K /\ g * K \in Int
    BY <1>6
  <2> DEFINE m == K * W
             e == g * K
  <2>2. m \in Nat /\ 2 ^ BF = m /\ N = e + rest /\ e <= m - K /\ 0 <= e /\ e \in Int
    BY <1>2, <1>7, <2>1
  <2> HIDE DEF m, e
  <2> QED BY <1>3, <2>2
<1>9. /\ k < l => (Bit(N, k) <=> Bit(rest, k))
      /\ k >= l => (Bit(N, k) <=> Bit(g, i))
  <2> HIDE DEF g, rest, N
  <2>1. rest \in 0 .. 2 ^ l - 1 /\ N = g * 2 ^ l + rest /\ g \in Int
    BY <1>2, <1>3, <1>6, <1>7
  <2>2. /\ k < l => (Bit(g * 2 ^ l + rest, k) <=> Bit(rest, k))
        /\ k >= l => (Bit(g * 2 ^ l + rest, k) <=> Bit(g, k - l))
    BY <1>1, <2>1, BitJoined
  <2> QED BY <2>1, <2>2 DEF i
<1>10. k < l => (Bit(N, k) <=> Bit(F, k))
  <2>1. ASSUME k < l PROVE Bit(F % 2 ^ l, k) <=> Bit(F, k)
    <3>1. k \in Nat
      OBVIOUS
    <3> QED BY <1>1, <1>3, <2>1, <3>1, BitBelow
  <2> QED BY <1>2, <1>9, <2>1
<1>11. ASSUME k >= l
       PROVE  /\ op = "bfchg" => (Bit(N, k) <=> ~Bit(F, k))
              /\ op = "bfclr" => ~Bit(N, k)
              /\ op = "bfset" => Bit(N, k)
              /\ op = "bfins" => (Bit(N, k) <=> Bit(v, i))
  <2>1. i \in 0 .. w - 1 /\ i \in Nat /\ i < w /\ i \in 0 .. BF
    BY <1>1, <1>11
  <2>2. Bit(N, k) <=> Bit(g, i)
    BY <1>9, <1>11
  <2>3. ASSUME NEW u \in 0 .. W - 1 PROVE Bit((W - 1) - u, i) <=> ~Bit(u, i)
    <3>1. u \in 0 .. 2 ^ w - 1
      BY <1>2
    <3>2. Bit(2 ^ w - 1 - u, i) <=> ~Bit(u, i)
      BY <1>1, <2>1, <3>1, BitInverted
    <3> QED BY <1>2, <3>2
  <2>4. ~Bit(0, i)
    BY <2>1, NoBit
  <2>5. CASE op = "bfchg"
    <3>1. Bit((W - 1) - f, i) <=> ~Bit(f, i)
      BY <1>4, <2>3
    <3>2. Bit(F \div 2 ^ l, i) <=> Bit(F, l + i)
      BY <1>1, <1>3, <2>1, BitAbove
    <3> QED BY <1>1, <1>2, <2>2, <2>5, <3>1, <3>2
  <2>6. CASE op = "bfclr"
    BY <2>2, <2>4, <2>6
  <2>7. CASE op = "bfset"
    <3>1. 0 \in 0 .. W - 1 /\ (W - 1) - 0 = W - 1
      OBVIOUS
    <3>2. Bit((W - 1) - 0, i) <=> ~Bit(0, i)
      BY <2>3, <3>1
    <3> QED BY <2>2, <2>4, <2>7, <3>1, <3>2
  <2>8. CASE op = "bfins"
    <3>1. v \in Int
      OBVIOUS
    <3>2. Bit(v % 2 ^ w, i) <=> Bit(v, i)
      BY <1>1, <2>1, <3>1, BitBelow
    <3> QED BY <1>2, <2>2, <2>8, <3>2
  <2> QED BY <2>5, <2>6, <2>7, <2>8 DEF Fields
<1> QED BY <1>8, <1>10, <1>11 DEF l, i

\* Where the handlers put a field: o bits into the n bytes from ea on.
LEMMA FieldPlaced ==
  ASSUME NEW s \in -(Byte + 1) .. Byte, NEW w \in 1 .. BF
  PROVE  LET ea == PatchEa(2, s)
             o == PatchOffset(s)
             n == ByteCount(o, w)
         IN /\ o \in 0 .. Byte - 1
            /\ ea \in 0 .. 3 /\ n \in 1 .. 5 /\ ea + n <= 7
            /\ ea * Byte + o = 2 * Byte + s
            /\ o + w <= n * Byte
<1> DEFINE ea == PatchEa(2, s)
           o == PatchOffset(s)
           n == ByteCount(o, w)
<1>1. Byte \in Nat \ {0} /\ BF = 4 * Byte /\ s \in Int /\ w \in Nat /\ w >= 1 /\ w <= BF
      /\ -(Byte + 1) <= s /\ s <= Byte
  BY FieldWidths
<1>2. /\ o \in 0 .. Byte - 1 /\ ea \in 0 .. 3
      /\ ea * Byte + o = 2 * Byte + s
      /\ ea = 3 => o = 0
  <2>1. CASE s >= 0
    <3> DEFINE q == s \div Byte
               r == s % Byte
    <3>1. ea = 2 + q /\ o = r
      BY <2>1 DEF PatchEa, PatchOffset
    <3>2. q \in Int /\ r \in Int /\ 0 <= r /\ r < Byte /\ s = q * Byte + r
      BY <1>1, DivMod
    <3> HIDE DEF q, r, ea, o
    <3>3. q >= 0
      <4>1. q < 0 => q * Byte <= -Byte
        BY <1>1, <3>2
      <4>2. q * Byte \in Int
        BY <1>1, <3>2
      <4> QED BY <1>1, <2>1, <3>2, <4>1, <4>2
    <3>4. q <= 1
      <4>1. q >= 2 => q * Byte >= 2 * Byte
        BY <1>1, <3>2
      <4>2. q * Byte \in Int
        BY <1>1, <3>2
      <4> QED BY <1>1, <2>1, <3>2, <4>1, <4>2
    <3>5. q = 0 \/ q = 1
      BY <3>2, <3>3, <3>4
    <3>6. CASE q = 0
      BY <1>1, <3>1, <3>2, <3>6
    <3>7. CASE q = 1
      BY <1>1, <3>1, <3>2, <3>7
    <3> QED BY <3>5, <3>6, <3>7
  <2>2. CASE s < 0
    <3> DEFINE u == (Byte - 1) - s
               q == u \div Byte
               r == u % Byte
    <3>1. ea = 2 - q
      <4>1. q \in Int
        BY <1>1
      <4>2. ea = 2 + (-q)
        BY <2>2 DEF PatchEa
      <4> HIDE DEF q, ea
      <4> QED BY <4>1, <4>2
    <3>2. u \in Int /\ q \in Int /\ r \in Int /\ 0 <= r /\ r < Byte /\ u = q * Byte + r
      <4>1. u \in Int
        BY <1>1
      <4> HIDE DEF u
      <4> QED BY <1>1, <4>1, DivMod
    <3>3. Byte <= u /\ u <= 2 * Byte /\ s = (Byte - 1) - u
      BY <1>1, <2>2
    <3> HIDE DEF q, r, u, ea
    <3>4. q >= 1
      <4>1. q < 1 => q * Byte <= 0
        BY <1>1, <3>2
      <4>2. q * Byte \in Int
        BY <1>1, <3>2
      <4> QED BY <1>1, <3>2, <3>3, <4>1, <4>2
    <3>5. q <= 2
      <4>1. q >= 3 => q * Byte >= 3 * Byte
        BY <1>1, <3>2
      <4>2. q * Byte \in Int
        BY <1>1, <3>2
      <4> QED BY <1>1, <3>2, <3>3, <4>1, <4>2
    <3> DEFINE x == (Byte - 1) - r
               y == -q
    <3>6. x \in 0 .. Byte - 1 /\ y \in Int /\ s = y * Byte + x
      BY <1>1, <3>2, <3>3
    <3> HIDE DEF x, y
    <3>7. (y * Byte + x) % Byte = x
      BY <1>1, <3>6, CutAt
    <3>8. o = x
      BY <3>6, <3>7 DEF PatchOffset
    <3>9. q = 1 \/ q = 2
      BY <3>2, <3>4, <3>5
    <3>10. CASE q = 1
      BY <1>1, <3>1, <3>6, <3>8, <3>10 DEF y
    <3>11. CASE q = 2
      BY <1>1, <3>1, <3>6, <3>8, <3>11 DEF y
    <3> QED BY <3>9, <3>10, <3>11
  <2> QED BY <1>1, <2>1, <2>2
<1> HIDE DEF ea, o
<1>3. n \in 1 .. 5 /\ o + w <= n * Byte /\ (o = 0 => n <= 4)
  <2> DEFINE t == ((o + w) + Byte) - 1
             r == t % Byte
  <2>1. t \in Int /\ n = t \div Byte /\ Byte <= t /\ t < 6 * Byte /\ (o = 0 => t < 5 * Byte)
        /\ o + w = (t - Byte) + 1
    BY <1>1, <1>2 DEF ByteCount
  <2> HIDE DEF t, n
  <2>2. n \in Int /\ r \in Int /\ 0 <= r /\ r < Byte /\ t = n * Byte + r
    BY <1>1, <2>1, DivMod
  <2> HIDE DEF r
  <2>3. n >= 1
    <3>1. n < 1 => n * Byte <= 0
      BY <1>1, <2>2
    <3>2. n * Byte \in Int
      BY <1>1, <2>2
    <3> QED BY <1>1, <2>1, <2>2, <3>1, <3>2
  <2>4. n <= 5
    <3>1. n >= 6 => n * Byte >= 6 * Byte
      BY <1>1, <2>2
    <3>2. n * Byte \in Int
      BY <1>1, <2>2
    <3> QED BY <1>1, <2>1, <2>2, <3>1, <3>2
  <2>5. o = 0 => n <= 4
    <3>1. n >= 5 => n * Byte >= 5 * Byte
      BY <1>1, <2>2
    <3>2. n * Byte \in Int
      BY <1>1, <2>2
    <3> QED BY <1>1, <2>1, <2>2, <3>1, <3>2
  <2>6. o + w <= n * Byte
    <3>1. n * Byte \in Int
      BY <1>1, <2>2
    <3> QED BY <1>1, <2>1, <2>2, <3>1
  <2> QED BY <2>2, <2>3, <2>4, <2>5, <2>6
<1> HIDE DEF n
<1>4. ea + n <= 7
  BY <1>2, <1>3
<1> QED BY <1>2, <1>3, <1>4 DEF ea, o, n

\* The two writes are of all n bytes.
LEMMA BytesWritten ==
  ASSUME NEW n \in 1 .. 5
  PROVE  FirstWrite(n) \cup SecondWrite(n) = 0 .. n - 1
<1>1. n = 1 \/ n = 2 \/ n = 3 \/ n = 4 \/ n = 5
  OBVIOUS
<1>2. CASE n = 1
  BY <1>2 DEF FirstWrite, SecondWrite
<1>3. CASE n = 2
  BY <1>3 DEF FirstWrite, SecondWrite
<1>4. CASE n = 3
  BY <1>4 DEF FirstWrite, SecondWrite
<1>5. CASE n = 4
  BY <1>5 DEF FirstWrite, SecondWrite
<1>6. CASE n = 5
  BY <1>6 DEF FirstWrite, SecondWrite
<1> QED BY <1>1, <1>2, <1>3, <1>4, <1>5, <1>6

\* Loaded, a byte of the field has its bits at its place.
LEMMA BytesLoaded ==
  ASSUME NEW m \in [0 .. Bytes - 1 -> 0 .. Mod(1) - 1], NEW ea \in Nat, NEW n \in 1 .. 5,
         ea + n <= Bytes, NEW i \in 0 .. n - 1, NEW r \in 0 .. Byte - 1
  PROVE  /\ FieldLo(m, ea, n) \in Nat /\ FieldHi(m, ea, n) \in 0 .. 2 ^ Byte - 1
         /\ Two(FieldLo(m, ea, n), FieldHi(m, ea, n), Byte * (4 - i) + r) <=> Bit(m[ea + i], r)
<1> DEFINE at(j) == IF j < n THEN m[ea + j] ELSE 0
           lo == FieldLo(m, ea, n)
           hi == FieldHi(m, ea, n)
<1>1. Byte \in Nat \ {0} /\ Mod(1) = 2 ^ Byte /\ Mod(1) \in Nat \ {0} /\ Bytes \in Nat
  BY FieldWidths, BytesAssumption
<1>2. \A j \in Nat : at(j) \in 0 .. Mod(1) - 1
  BY <1>1
<1>3. lo = ((at(0) * Mod(1) + at(1)) * Mod(1) + at(2)) * Mod(1) + at(3)
  BY DEF FieldLo
<1>4. hi \in 0 .. 2 ^ Byte - 1 /\ (i = 4 => hi = m[ea + i])
  BY <1>1 DEF FieldHi
<1>5. at(i) = m[ea + i]
  OBVIOUS
<1>6. at(0) \in 0 .. Mod(1) - 1 /\ at(1) \in 0 .. Mod(1) - 1 /\ at(2) \in 0 .. Mod(1) - 1
      /\ at(3) \in 0 .. Mod(1) - 1
  BY <1>2
<1> HIDE DEF at, lo, hi
<1>7. /\ lo \in Nat
      /\ Bit(lo, r) <=> Bit(at(3), r)
      /\ Bit(lo, Byte + r) <=> Bit(at(2), r)
      /\ Bit(lo, 2 * Byte + r) <=> Bit(at(1), r)
      /\ Bit(lo, 3 * Byte + r) <=> Bit(at(0), r)
  <2>1. PICK a \in 0 .. Mod(1) - 1 : a = at(0)
    BY <1>6
  <2>2. PICK b \in 0 .. Mod(1) - 1 : b = at(1)
    BY <1>6
  <2>3. PICK c \in 0 .. Mod(1) - 1 : c = at(2)
    BY <1>6
  <2>4. PICK d \in 0 .. Mod(1) - 1 : d = at(3)
    BY <1>6
  <2>5. lo = ((a * Mod(1) + b) * Mod(1) + c) * Mod(1) + d
    BY <1>3, <2>1, <2>2, <2>3, <2>4
  <2>6. /\ lo \in Nat
        /\ Bit(lo, r) <=> Bit(d, r)
        /\ Bit(lo, Byte + r) <=> Bit(c, r)
        /\ Bit(lo, 2 * Byte + r) <=> Bit(b, r)
        /\ Bit(lo, 3 * Byte + r) <=> Bit(a, r)
    <3>1. lo \in Nat
      <4> DEFINE M == Mod(1)
      <4>1. M \in Nat /\ a \in Nat /\ b \in Nat /\ c \in Nat /\ d \in Nat
        BY <1>1
      <4> HIDE DEF M
      <4>2. ((a * M + b) * M + c) * M + d \in Nat
        BY <4>1
      <4> QED BY <2>5, <4>2 DEF M
    <3> QED BY <2>5, <3>1, BytesJoined
  <2> QED BY <2>1, <2>2, <2>3, <2>4, <2>6
<1>8. Two(lo, hi, Byte * (4 - i) + r) <=> Bit(m[ea + i], r)
  <2>1. i = 0 \/ i = 1 \/ i = 2 \/ i = 3 \/ i = 4
    OBVIOUS
  <2>2. CASE i = 0
    <3> DEFINE j == Byte * (4 - i) + r
    <3>1. ~(j < Byte) /\ j - Byte = 3 * Byte + r
      BY <1>1, <2>2
    <3> HIDE DEF j
    <3>2. Two(lo, hi, j) <=> Bit(lo, 3 * Byte + r)
      BY <3>1 DEF Two
    <3> QED BY <1>5, <1>7, <2>2, <3>2 DEF j
  <2>3. CASE i = 1
    <3> DEFINE j == Byte * (4 - i) + r
    <3>1. ~(j < Byte) /\ j - Byte = 2 * Byte + r
      BY <1>1, <2>3
    <3> HIDE DEF j
    <3>2. Two(lo, hi, j) <=> Bit(lo, 2 * Byte + r)
      BY <3>1 DEF Two
    <3> QED BY <1>5, <1>7, <2>3, <3>2 DEF j
  <2>4. CASE i = 2
    <3> DEFINE j == Byte * (4 - i) + r
    <3>1. ~(j < Byte) /\ j - Byte = Byte + r
      BY <1>1, <2>4
    <3> HIDE DEF j
    <3>2. Two(lo, hi, j) <=> Bit(lo, Byte + r)
      BY <3>1 DEF Two
    <3> QED BY <1>5, <1>7, <2>4, <3>2 DEF j
  <2>5. CASE i = 3
    <3> DEFINE j == Byte * (4 - i) + r
    <3>1. ~(j < Byte) /\ j - Byte = r
      BY <1>1, <2>5
    <3> HIDE DEF j
    <3>2. Two(lo, hi, j) <=> Bit(lo, r)
      BY <3>1 DEF Two
    <3> QED BY <1>5, <1>7, <2>5, <3>2 DEF j
  <2>6. CASE i = 4
    <3> DEFINE j == Byte * (4 - i) + r
    <3>1. j < Byte /\ j = r
      BY <1>1, <2>6
    <3> HIDE DEF j
    <3>2. Two(lo, hi, j) <=> Bit(hi, r)
      BY <3>1 DEF Two
    <3> QED BY <1>4, <2>6, <3>2 DEF j
  <2> QED BY <2>1, <2>2, <2>3, <2>4, <2>5, <2>6
<1> QED BY <1>4, <1>7, <1>8 DEF lo, hi

\* The two writes leave in memory what they are given, and other bytes alone.
Written(m, ea, n, lo, hi) ==
  StoreBytes(StoreBytes(m, ea, FirstWrite(n), lo, hi), ea, SecondWrite(n), lo, hi)

LEMMA BytesStored ==
  ASSUME NEW m \in [0 .. Bytes - 1 -> 0 .. Mod(1) - 1], NEW ea \in Nat, NEW n \in 1 .. 5,
         NEW lo \in Int, NEW hi \in Int, NEW x \in 0 .. Bytes - 1, NEW r \in 0 .. Byte - 1
  PROVE  LET b == Written(m, ea, n, lo, hi)[x]
         IN /\ x - ea \in 0 .. n - 1 => (Bit(b, r) <=> Two(lo, hi, Byte * (4 - (x - ea)) + r))
            /\ x - ea \notin 0 .. n - 1 => (Bit(b, r) <=> Bit(m[x], r))
<1> DEFINE i == x - ea
           new == IF i = 4 THEN hi ELSE (lo \div 2 ^ (BF - Byte * (i + 1))) % Mod(1)
           m1 == StoreBytes(m, ea, FirstWrite(n), lo, hi)
           m2 == StoreBytes(m1, ea, SecondWrite(n), lo, hi)
<1>1. DOMAIN m = 0 .. Bytes - 1 /\ x \in DOMAIN m
  OBVIOUS
<1>2. DOMAIN m1 = DOMAIN m /\ m1[x] = IF i \notin FirstWrite(n) THEN m[x] ELSE new
  BY <1>1 DEF StoreBytes
<1>3. m2[x] = IF i \notin SecondWrite(n) THEN m1[x] ELSE new
  BY <1>1, <1>2 DEF StoreBytes
<1>4. m2[x] = IF i \in 0 .. n - 1 THEN new ELSE m[x]
  <2>1. i \in 0 .. n - 1 <=> i \in FirstWrite(n) \/ i \in SecondWrite(n)
    BY BytesWritten
  <2> HIDE DEF new, i, m1, m2
  <2> QED BY <1>2, <1>3, <2>1
<1>5. ASSUME i \in 0 .. n - 1
      PROVE  Bit(new, r) <=> Two(lo, hi, Byte * (4 - i) + r)
  <2>1. Byte \in Nat \ {0}
    BY FieldWidths
  <2> HIDE DEF i
  <2>2. i \in 0 .. 3 \/ i = 4
    BY <1>5
  <2>3. CASE i = 4
    <3>1. Byte * (4 - i) + r = r /\ r < Byte
      BY <2>1, <2>3
    <3> QED BY <2>3, <3>1 DEF Two
  <2>4. CASE i \in 0 .. 3
    <3> DEFINE j == Byte * (4 - i) + r
    <3>1. ~(j < Byte) /\ j - Byte = Byte * (3 - i) + r
      <4>1. i = 0 \/ i = 1 \/ i = 2 \/ i = 3
        BY <2>4
      <4> QED BY <2>1, <4>1
    <3>2. Bit((lo \div 2 ^ (BF - Byte * (i + 1))) % Mod(1), r) <=> Bit(lo, Byte * (3 - i) + r)
      BY <2>4, ByteStored
    <3>3. new = (lo \div 2 ^ (BF - Byte * (i + 1))) % Mod(1)
      BY <2>4
    <3> HIDE DEF j, new
    <3>4. Two(lo, hi, j) <=> Bit(lo, Byte * (3 - i) + r)
      BY <3>1 DEF Two
    <3> QED BY <3>2, <3>3, <3>4 DEF j
  <2> QED BY <2>2, <2>3, <2>4
<1> HIDE DEF new, m1, m2
<1> QED BY <1>4, <1>5 DEF m1, m2, Written

\* A field of w bits from bit first of memory on: o bits into the n bytes
\* from ea on; and bit p of memory, v bits into byte x.
Placed(ea, o, n, w, first) ==
  /\ ea \in 0 .. 3 /\ o \in 0 .. Byte - 1 /\ n \in 1 .. 5 /\ w \in 1 .. BF
  /\ first \in Int /\ ea * Byte + o = first /\ o + w <= n * Byte
HasBit(x, v, p) ==
  x \in Nat /\ v \in 0 .. Byte - 1 /\ p \in Int /\ p = x * Byte + v

LEMMA BitsPlaced ==
  ASSUME NEW ea, NEW o, NEW n, NEW w, NEW first, Placed(ea, o, n, w, first),
         NEW x, NEW v, NEW p, HasBit(x, v, p)
  PROVE  LET i == x - ea
             r == Byte - 1 - v
             j == Byte * (4 - i) + r
             k == BF - 1 - (p - first)
         IN /\ i \in Int /\ r \in 0 .. Byte - 1
            /\ j - (Byte - o) = k /\ j = k + Byte - o
            /\ i \in 0 .. n - 1 =>
                 /\ j \in 0 .. BF + Byte - 1
                 /\ (j < Byte - o \/ j >= BF + Byte - o) <=> ~(k \in 0 .. BF - 1)
            /\ p \in first .. first + w - 1 <=> (k \in 0 .. BF - 1 /\ ~(k < BF - w))
            /\ i \notin 0 .. n - 1 => p \notin first .. first + w - 1
<1> DEFINE i == x - ea
           r == Byte - 1 - v
           j == Byte * (4 - i) + r
           k == BF - 1 - (p - first)
           h == ea * Byte
           e == i * Byte
           g == n * Byte
<1>1. Byte \in Nat \ {0} /\ BF = 4 * Byte
  BY FieldWidths
<1>2. /\ ea \in 0 .. 3 /\ o \in 0 .. Byte - 1 /\ n \in 1 .. 5 /\ w \in 1 .. BF
      /\ first \in Int /\ ea * Byte + o = first /\ o + w <= n * Byte
      /\ x \in Nat /\ v \in 0 .. Byte - 1 /\ p \in Int /\ p = x * Byte + v
  BY DEF Placed, HasBit
<1>3. /\ i \in Int /\ h \in Int /\ e \in Int /\ g \in Int
      /\ p = h + e + v /\ first = h + o /\ o + w <= g
      /\ j = (4 * Byte - e) + r
  BY <1>1, <1>2
<1>4. i \in 0 .. n - 1 => 0 <= e /\ e <= 4 * Byte
  <2>1. i \in 0 .. n - 1 => i = 0 \/ i = 1 \/ i = 2 \/ i = 3 \/ i = 4
    BY <1>2
  <2> HIDE DEF i
  <2> QED BY <1>1, <1>2, <2>1
<1>5. (i < 0 => e <= -Byte) /\ (i >= n => e >= g)
  <2>1. i \in Int /\ n \in Int
    BY <1>3, <1>2
  <2> HIDE DEF i
  <2> QED BY <1>1, <1>2, <2>1
<1> HIDE DEF i, j, h, e, g
<1>6. r \in 0 .. Byte - 1 /\ j - (Byte - o) = k /\ j = k + Byte - o /\ j \in Int /\ k \in Int
  BY <1>1, <1>2, <1>3
<1>7. i \in 0 .. n - 1 => j \in 0 .. BF + Byte - 1
  BY <1>1, <1>2, <1>3, <1>4
<1> HIDE DEF r
<1>8. (j < Byte - o \/ j >= BF + Byte - o) <=> ~(k \in 0 .. BF - 1)
  <2> HIDE DEF k
  <2> QED BY <1>1, <1>2, <1>6
<1>9. p \in first .. first + w - 1 <=> (k \in 0 .. BF - 1 /\ ~(k < BF - w))
  BY <1>1, <1>2
<1>10. i \notin 0 .. n - 1 => p \notin first .. first + w - 1
  <2>1. i \notin 0 .. n - 1 => i < 0 \/ i >= n
    BY <1>3, <1>2
  <2> QED BY <1>1, <1>2, <1>3, <1>5, <2>1
<1> QED BY <1>3, <1>6, <1>7, <1>8, <1>9, <1>10 DEF i, j, r

\* A bit of memory before and after a field was changed.
LEMMA FieldChanged ==
  ASSUME NEW m \in [0 .. Bytes - 1 -> 0 .. Mod(1) - 1],
         NEW s \in -(Byte + 1) .. Byte, NEW w \in 1 .. BF, NEW N \in 0 .. 2 ^ BF - 1,
         NEW p \in 0 .. Bytes * Byte - 1
  PROVE  LET ea == PatchEa(2, s)
             o == PatchOffset(s)
             n == ByteCount(o, w)
             lo == FieldLo(m, ea, n)
             hi == FieldHi(m, ea, n)
             F == MakeField(lo, hi, o)
             m2 == Written(m, ea, n, StoredLo(lo, N, o), StoredHi(hi, N, o))
             first == 2 * Byte + s
             k == BF - 1 - (p - first)
         IN /\ F \in 0 .. 2 ^ BF - 1
            /\ (\A l \in 0 .. BF - 1 : l < BF - w => (Bit(N, l) <=> Bit(F, l))) =>
                 IF p \in first .. first + w - 1
                 THEN k \in 0 .. BF - 1 /\ (MemoryBit(m, p) <=> Bit(F, k))
                                       /\ (MemoryBit(m2, p) <=> Bit(N, k))
                 ELSE MemoryBit(m2, p) <=> MemoryBit(m, p)
<1> DEFINE ea == PatchEa(2, s)
           o == PatchOffset(s)
           n == ByteCount(o, w)
           lo == FieldLo(m, ea, n)
           hi == FieldHi(m, ea, n)
           F == MakeField(lo, hi, o)
           a == StoredLo(lo, N, o)
           b == StoredHi(hi, N, o)
           m2 == Written(m, ea, n, a, b)
           first == 2 * Byte + s
<1>1. /\ o \in 0 .. Byte - 1
     /\ ea \in 0 .. 3 /\ n \in 1 .. 5 /\ ea + n <= 7
     /\ ea * Byte + o = first
     /\ o + w <= n * Byte
  BY FieldPlaced
<1> HIDE DEF ea, o, n, first
<1>2. Byte \in Nat \ {0} /\ BF = 4 * Byte /\ BF \in Nat /\ Bytes \in Nat /\ Bytes >= 7
  BY FieldWidths, BytesAssumption
<1>3. /\ o \in 0 .. Byte - 1
      /\ ea \in 0 .. 3 /\ n \in 1 .. 5 /\ ea + n <= 7
      /\ ea * Byte + o = first
      /\ o + w <= n * Byte
  BY <1>1
<1> DEFINE x == p \div Byte
           v == p % Byte
           i == x - ea
           r == Byte - 1 - v
           k == BF - 1 - (p - first)
           j == Byte * (4 - i) + r
<1>4. /\ x \in 0 .. Bytes - 1 /\ v \in 0 .. Byte - 1 /\ p = x * Byte + v /\ p \in Int
  <2>1. Bytes * Byte \in Nat /\ p \in Int /\ 0 <= p /\ p < Bytes * Byte
    BY <1>2
  <2>2. x \in Int /\ v \in Int /\ 0 <= v /\ v < Byte /\ p = x * Byte + v
    BY <1>2, <2>1, DivMod
  <2> HIDE DEF x, v
  <2>3. x >= 0
    <3>1. x < 0 => x * Byte <= -Byte
      BY <1>2, <2>2
    <3>2. x * Byte \in Int
      BY <1>2, <2>2
    <3> QED BY <1>2, <2>1, <2>2, <3>1, <3>2
  <2>4. x < Bytes
    <3>1. x >= Bytes => x * Byte >= Bytes * Byte
      BY <1>2, <2>2
    <3>2. x * Byte \in Int
      BY <1>2, <2>2
    <3> QED BY <1>2, <2>1, <2>2, <3>1, <3>2
  <2> QED BY <1>2, <2>1, <2>2, <2>3, <2>4
<1>5. first \in Int /\ x \in Nat /\ p \in Int /\ w \in 1 .. BF
  BY <1>2, <1>3, <1>4
<1>6. MemoryBit(m, p) = Bit(m[x], r) /\ MemoryBit(m2, p) = Bit(m2[x], r)
  BY Zenon DEF MemoryBit, x, v, r
<1> HIDE DEF x, v, i, r, j, k, lo, hi, m2, F, a, b
<1>7. /\ i \in Int /\ r \in 0 .. Byte - 1
      /\ j - (Byte - o) = k /\ j = k + Byte - o
      /\ i \in 0 .. n - 1 =>
           /\ j \in 0 .. BF + Byte - 1
           /\ (j < Byte - o \/ j >= BF + Byte - o) <=> ~(k \in 0 .. BF - 1)
      /\ p \in first .. first + w - 1 <=> (k \in 0 .. BF - 1 /\ ~(k < BF - w))
      /\ i \notin 0 .. n - 1 => p \notin first .. first + w - 1
  <2>1. Placed(ea, o, n, w, first) /\ HasBit(x, v, p)
    BY <1>3, <1>4, <1>5 DEF Placed, HasBit
  <2> QED BY <2>1, BitsPlaced DEF i, r, j, k
<1>8. lo \in Nat /\ hi \in 0 .. 2 ^ Byte - 1
  <2>1. 0 \in 0 .. n - 1 /\ 0 \in 0 .. Byte - 1 /\ ea \in Nat /\ ea + n <= Bytes
    BY <1>2, <1>3
  <2> QED BY <1>3, <2>1, BytesLoaded DEF lo, hi
<1>9. F \in 0 .. 2 ^ BF - 1
  <2>1. 0 \in 0 .. BF - 1
    BY <1>2
  <2> QED BY <1>3, <1>8, <2>1, FieldMade DEF F
<1>10. a \in Int /\ b \in Int
  <2>1. 0 \in 0 .. BF + Byte - 1
    BY <1>2
  <2> QED BY <1>3, <1>8, <2>1, StoredBits DEF a, b
<1>11. IF i \in 0 .. n - 1
       THEN Bit(m2[x], r) <=> Two(a, b, j)
       ELSE Bit(m2[x], r) <=> Bit(m[x], r)
  <2>1. ea \in Nat /\ x \in 0 .. Bytes - 1
    BY <1>3, <1>4
  <2>2. n \in 1 .. 5 /\ r \in 0 .. Byte - 1 /\ a \in Int /\ b \in Int
    BY <1>3, <1>7, <1>10
  <2>3. /\ x - ea \in 0 .. n - 1 => (Bit(m2[x], r) <=> Two(a, b, Byte * (4 - (x - ea)) + r))
        /\ x - ea \notin 0 .. n - 1 => (Bit(m2[x], r) <=> Bit(m[x], r))
    BY <2>1, <2>2, BytesStored DEF m2
  <2> QED BY <2>3 DEF i, j
<1> SUFFICES ASSUME \A l \in 0 .. BF - 1 : l < BF - w => (Bit(N, l) <=> Bit(F, l))
             PROVE  IF p \in first .. first + w - 1
                    THEN k \in 0 .. BF - 1 /\ (MemoryBit(m, p) <=> Bit(F, k))
                                          /\ (MemoryBit(m2, p) <=> Bit(N, k))
                    ELSE MemoryBit(m2, p) <=> MemoryBit(m, p)
  BY <1>9 DEF ea, o, n, lo, hi, F, a, b, m2, first, k
<1>12. CASE i \in 0 .. n - 1
  <2>1. Two(lo, hi, j) <=> Bit(m[x], r)
    <3>1. ea \in Nat /\ ea + n <= Bytes /\ ea + i = x
      BY <1>2, <1>3, <1>4, <1>5 DEF i
    <3> QED BY <1>3, <1>7, <1>12, <3>1, BytesLoaded DEF j, lo, hi
  <2>2. Bit(m2[x], r) <=> IF j < Byte - o \/ j >= BF + Byte - o THEN Two(lo, hi, j)
                          ELSE Bit(N, j - (Byte - o))
    BY <1>3, <1>7, <1>8, <1>11, <1>12, StoredBits DEF a, b
  <2>3. k \in 0 .. BF - 1 => (Bit(F, k) <=> Two(lo, hi, j))
    BY <1>3, <1>7, <1>8, FieldMade DEF F
  <2>4. CASE ~(k \in 0 .. BF - 1)
    BY <1>6, <1>7, <1>12, <2>1, <2>2, <2>4
  <2>5. CASE k \in 0 .. BF - 1 /\ k < BF - w
    <3>1. Bit(N, k) <=> Bit(F, k)
      BY <2>5
    <3> QED BY <1>6, <1>7, <1>12, <2>1, <2>2, <2>3, <2>5, <3>1
  <2>6. CASE k \in 0 .. BF - 1 /\ ~(k < BF - w)
    BY <1>6, <1>7, <1>12, <2>1, <2>2, <2>3, <2>6
  <2> QED BY <2>4, <2>5, <2>6
<1>13. CASE i \notin 0 .. n - 1
  <2>1. Bit(m2[x], r) <=> Bit(m[x], r)
    BY <1>11, <1>13
  <2> QED BY <1>6, <1>7, <1>13, <2>1
<1> QED BY <1>7, <1>12, <1>13

\* The field of w bits from bit 2 * Byte + s of memory m on, and memory with
\* another in its place, as the handlers make them.
FieldAt(m, s, w) ==
  LET ea == PatchEa(2, s)
      o == PatchOffset(s)
      n == ByteCount(o, w)
  IN MakeField(FieldLo(m, ea, n), FieldHi(m, ea, n), o)
Changed(m, s, w, N) ==
  LET ea == PatchEa(2, s)
      o == PatchOffset(s)
      n == ByteCount(o, w)
  IN Written(m, ea, n, StoredLo(FieldLo(m, ea, n), N, o), StoredHi(FieldHi(m, ea, n), N, o))

LEMMA FieldInMemory ==
  ASSUME NEW s \in -(Byte + 1) .. Byte, NEW w \in 1 .. BF, NEW i \in 0 .. w - 1
  PROVE  2 * Byte + s + w - 1 - i \in 0 .. Bytes * Byte - 1
<1> DEFINE ea == PatchEa(2, s)
           o == PatchOffset(s)
           n == ByteCount(o, w)
<1>1. Byte \in Nat \ {0} /\ BF = 4 * Byte /\ Bytes \in Nat /\ Bytes >= 7
  BY FieldWidths, BytesAssumption
<1>2. /\ ea \in 0 .. 3 /\ n \in 1 .. 5 /\ ea + n <= 7 /\ o \in 0 .. Byte - 1
      /\ ea * Byte + o = 2 * Byte + s /\ o + w <= n * Byte
  BY FieldPlaced
<1> HIDE DEF ea, o, n
<1> DEFINE h == ea * Byte
           g == n * Byte
           t == Bytes * Byte
<1>3. h \in Int /\ g \in Int /\ t \in Int /\ h + g <= 7 * Byte /\ 7 * Byte <= t
  <2>1. h + g = (ea + n) * Byte
    BY <1>1, <1>2
  <2>2. (ea + n) * Byte <= 7 * Byte
    BY <1>1, <1>2
  <2>3. 7 * Byte <= t
    BY <1>1
  <2> QED BY <1>1, <1>2, <2>1, <2>2, <2>3
<1>4. h + o = 2 * Byte + s /\ o + w <= g
  BY <1>2
<1> HIDE DEF h, g, t
<1> QED BY <1>1, <1>2, <1>3, <1>4 DEF t

\* The field before and after, bit by bit from its low end.
LEMMA FieldBit ==
  ASSUME NEW op \in Fields, NEW m \in [0 .. Bytes - 1 -> 0 .. Mod(1) - 1],
         NEW s \in -(Byte + 1) .. Byte, NEW w \in 1 .. BF, NEW i \in 0 .. w - 1
  PROVE  LET F == FieldAt(m, s, w)
             N == NewField(op, F, w, Inserted)
             p == 2 * Byte + s + w - 1 - i
             k == BF - w + i
         IN /\ F \in 0 .. 2 ^ BF - 1 /\ N \in 0 .. 2 ^ BF - 1
            /\ MemoryBit(m, p) <=> Bit(F, k)
            /\ MemoryBit(Changed(m, s, w, N), p) <=> Bit(N, k)
            /\ op = "bfchg" => (Bit(N, k) <=> ~Bit(F, k))
            /\ op = "bfclr" => ~Bit(N, k)
            /\ op = "bfset" => Bit(N, k)
            /\ op = "bfins" => (Bit(N, k) <=> Bit(Inserted, i))
<1> DEFINE F == FieldAt(m, s, w)
           N == NewField(op, F, w, Inserted)
           p == 2 * Byte + s + w - 1 - i
           k == BF - w + i
           first == 2 * Byte + s
<1>1. Byte \in Nat \ {0} /\ BF = 4 * Byte /\ BF \in Nat
  BY FieldWidths
<1>2. p \in 0 .. Bytes * Byte - 1
  BY FieldInMemory
<1>3. ASSUME NEW N0 \in 0 .. 2 ^ BF - 1
      PROVE  /\ F \in 0 .. 2 ^ BF - 1
             /\ (\A l \in 0 .. BF - 1 : l < BF - w => (Bit(N0, l) <=> Bit(F, l))) =>
                  IF p \in first .. first + w - 1
                  THEN /\ BF - 1 - (p - first) \in 0 .. BF - 1
                       /\ MemoryBit(m, p) <=> Bit(F, BF - 1 - (p - first))
                       /\ MemoryBit(Changed(m, s, w, N0), p) <=> Bit(N0, BF - 1 - (p - first))
                  ELSE MemoryBit(Changed(m, s, w, N0), p) <=> MemoryBit(m, p)
  <2> HIDE DEF p
  <2> QED BY <1>2, FieldChanged DEF FieldAt, Changed
<1>4. F \in 0 .. 2 ^ BF - 1
  <2>1. 0 \in 0 .. 2 ^ BF - 1
    <3>1. BF + 0 <= BF /\ 0 \in Nat
      BY <1>1
    <3>2. 2 ^ BF \in Nat \ {0}
      BY <1>1, <3>1, PowersUp
    <3> QED BY <3>2
  <2> QED BY <1>3, <2>1
<1>5. /\ p \in first .. first + w - 1 /\ BF - 1 - (p - first) = k /\ k \in 0 .. BF - 1
      /\ k >= BF - w /\ k - (BF - w) = i
  BY <1>1
<1> HIDE DEF F, p, k, first
<1>6. ASSUME NEW l \in 0 .. BF - 1
      PROVE  /\ N \in 0 .. 2 ^ BF - 1
             /\ l < BF - w => (Bit(N, l) <=> Bit(F, l))
             /\ l >= BF - w =>
                 /\ op = "bfchg" => (Bit(N, l) <=> ~Bit(F, l))
                 /\ op = "bfclr" => ~Bit(N, l)
                 /\ op = "bfset" => Bit(N, l)
                 /\ op = "bfins" => (Bit(N, l) <=> Bit(Inserted, l - (BF - w)))
  <2>1. Inserted \in Nat
    BY BytesAssumption
  <2> QED BY <1>4, <2>1, NewFieldBits
<1> HIDE DEF N
<1>7. /\ MemoryBit(m, p) <=> Bit(F, k)
      /\ MemoryBit(Changed(m, s, w, N), p) <=> Bit(N, k)
  BY <1>3, <1>5, <1>6
<1>8. /\ op = "bfchg" => (Bit(N, k) <=> ~Bit(F, k))
      /\ op = "bfclr" => ~Bit(N, k)
      /\ op = "bfset" => Bit(N, k)
      /\ op = "bfins" => (Bit(N, k) <=> Bit(Inserted, i))
  BY <1>5, <1>6
<1> QED BY <1>4, <1>5, <1>6, <1>7, <1>8 DEF F, N, p, k

\* Around the field memory stays as it was.
LEMMA AroundField ==
  ASSUME NEW op \in Fields, NEW m \in [0 .. Bytes - 1 -> 0 .. Mod(1) - 1],
         NEW s \in -(Byte + 1) .. Byte, NEW w \in 1 .. BF,
         NEW p \in 0 .. Bytes * Byte - 1, p \notin 2 * Byte + s .. 2 * Byte + s + w - 1
  PROVE  LET N == NewField(op, FieldAt(m, s, w), w, Inserted)
         IN MemoryBit(Changed(m, s, w, N), p) <=> MemoryBit(m, p)
<1> DEFINE F == FieldAt(m, s, w)
           N == NewField(op, F, w, Inserted)
<1>1. F \in 0 .. 2 ^ BF - 1 /\ N \in 0 .. 2 ^ BF - 1
  <2>1. 0 \in 0 .. w - 1
    OBVIOUS
  <2> QED BY <2>1, FieldBit
<1>2. ASSUME NEW l \in 0 .. BF - 1, l < BF - w
      PROVE  Bit(N, l) <=> Bit(F, l)
  <2>1. Inserted \in Nat
    BY BytesAssumption
  <2> HIDE DEF F
  <2> QED BY <1>1, <1>2, <2>1, NewFieldBits
<1> HIDE DEF N
<1>3. (\A l \in 0 .. BF - 1 : l < BF - w => (Bit(N, l) <=> Bit(F, l))) =>
         IF p \in 2 * Byte + s .. 2 * Byte + s + w - 1
         THEN TRUE
         ELSE MemoryBit(Changed(m, s, w, N), p) <=> MemoryBit(m, p)
  BY <1>1, FieldChanged DEF FieldAt, Changed
<1> HIDE DEF F
<1>4. MemoryBit(Changed(m, s, w, N), p) <=> MemoryBit(m, p)
  BY <1>2, <1>3
<1> QED BY <1>4 DEF N, F

LEMMA FieldTested ==
  ASSUME NEW X \in 0 .. 2 ^ BF - 1, NEW w \in 1 .. BF
  PROVE  /\ Msb(X, 4) <=> Bit(X, BF - w + (w - 1))
         /\ FieldValue(X, w) = 0 <=> \A i \in 0 .. w - 1 : ~Bit(X, BF - w + i)
<1> DEFINE l == BF - w
           f == X \div 2 ^ l
<1>1. /\ BF \in Nat /\ l \in Nat /\ w \in Nat /\ w <= BF /\ l + w = BF /\ l <= BF
      /\ BF = Width(4) /\ BF - w + (w - 1) = BF - 1
  BY FieldWidths DEF BF
<1> HIDE DEF l
<1>2. PICK K, W \in Nat \ {0} : K = 2 ^ l /\ W = 2 ^ w /\ 2 ^ BF = K * W
  <2>1. l + w <= BF
    BY <1>1
  <2>2. 2 ^ l \in Nat \ {0} /\ 2 ^ w \in Nat \ {0} /\ 2 ^ (l + w) = 2 ^ l * 2 ^ w
    BY <1>1, <2>1, PowersUp
  <2> QED BY <1>1, <2>2
<1>3. X \in Int /\ f \in 0 .. 2 ^ w - 1
  <2> DEFINE m == K * W
             y == X % K
  <2>1. m \in Nat /\ 2 ^ BF = m
    BY <1>2
  <2> HIDE DEF m
  <2>2. X \in Int /\ 0 <= X /\ X < m
    BY <2>1
  <2>3. f = X \div K
    BY <1>2
  <2> HIDE DEF f
  <2>4. f \in Int /\ y \in Int /\ 0 <= y /\ y < K /\ X = f * K + y
    BY <2>2, <2>3, DivMod
  <2> HIDE DEF y
  <2>5. f >= 0
    <3>1. f < 0 => f * K <= -K
      BY <2>4
    <3>2. f * K \in Int
      BY <2>4
    <3> QED BY <2>2, <2>4, <3>1, <3>2
  <2>6. f < W
    <3>1. f >= W => f * K >= K * W
      BY <2>4
    <3>2. f * K \in Int
      BY <2>4
    <3> QED BY <2>1, <2>2, <2>4, <3>1, <3>2 DEF m
  <2> QED BY <1>2, <2>2, <2>4, <2>5, <2>6
<1>4. ASSUME NEW i \in 0 .. w - 1
      PROVE  Bit(f, i) <=> Bit(X, l + i)
  <2>1. i \in Nat /\ l + i <= BF
    BY <1>1
  <2> QED BY <1>1, <1>3, <2>1, BitAbove
<1>5. f = 0 <=> \A i \in 0 .. w - 1 : ~Bit(f, i)
  BY <1>1, <1>3, AllBitsClear
<1>6. FieldValue(X, w) = f
  BY DEF FieldValue, l
<1>7. Msb(X, 4) <=> Bit(X, BF - 1)
  BY <1>1, Zenon DEF Msb
<1> HIDE DEF f
<1>8. FieldValue(X, w) = 0 <=> \A i \in 0 .. w - 1 : ~Bit(X, l + i)
  BY <1>4, <1>5, <1>6
<1> QED BY <1>1, <1>7, <1>8 DEF l

\* The invariant: done once, a field task has left what the handler computes.
FieldFound == FieldAt(task.d, task.s, task.sz)
FieldLeft == NewField(task.op, FieldFound, task.sz, Inserted)

FieldInv ==
  task.kind = "field" =>
    /\ task.op \in Fields /\ task.sz \in 1 .. BF /\ task.s \in -(Byte + 1) .. Byte
    /\ task.d \in [0 .. Bytes - 1 -> 0 .. Mod(1) - 1]
    /\ done = 0 => ccr = task.ccr
    /\ done = 1 =>
         /\ acc = Changed(task.d, task.s, task.sz, FieldLeft)
         /\ ccr = TestField(IF task.op = "bfins" THEN FieldLeft ELSE FieldFound, task.sz, task.ccr)

LEMMA FieldInit == Init => FieldInv
<1> SUFFICES ASSUME Init, task.kind = "field" PROVE FieldInv
  BY DEF FieldInv
<1>1. done = 0 /\ ccr = task.ccr
  BY DEF Init
<1>2. \E op \in Fields, width \in 1 .. BF, offset \in -(Byte + 1) .. Byte :
        \E m \in [0 .. Bytes - 1 -> Contents] :
          task = Task("field", op, width, Flags(FALSE, TRUE), offset, m)
  <2>1. \A kind, op, sz, f, s, d :
          task = Task(kind, op, sz, f, s, d) => kind = "field"
    BY DEF Task
  <2>2. \A op, sz, f, s, d :
          /\ task # Task("chain", op, sz, f, s, d) /\ task # Task("shift", op, sz, f, s, d)
          /\ task # Task("pair", op, sz, f, s, d)
    BY <2>1
  <2> QED BY <2>2, Zenon DEF Init
<1>3. PICK op \in Fields, width \in 1 .. BF, offset \in -(Byte + 1) .. Byte :
        \E m \in [0 .. Bytes - 1 -> Contents] :
          task = Task("field", op, width, Flags(FALSE, TRUE), offset, m)
  BY <1>2
<1>4. PICK m \in [0 .. Bytes - 1 -> Contents] :
        task = Task("field", op, width, Flags(FALSE, TRUE), offset, m)
  BY <1>3
<1>5. task.op = op /\ task.sz = width /\ task.s = offset /\ task.d = m
  BY <1>4 DEF Task
<1>6. m \in [0 .. Bytes - 1 -> 0 .. Mod(1) - 1]
  BY BytesAssumption
<1> QED BY <1>1, <1>5, <1>6 DEF FieldInv

LEMMA FieldNext == FieldInv /\ [Next]_vars => FieldInv'
<1> SUFFICES ASSUME FieldInv, [Next]_vars, task'.kind = "field" PROVE FieldInv'
  BY DEF FieldInv
<1>1. CASE NextDigit
  BY <1>1 DEF NextDigit
<1>2. CASE ShiftOnce
  BY <1>2 DEF ShiftOnce
<1>3. CASE ChangeField
  <2>1. /\ task.kind = "field" /\ done = 0 /\ done' = 1 /\ task' = task
        /\ acc' = Changed(task.d, task.s, task.sz, FieldLeft)
        /\ ccr' = TestField(IF task.op = "bfins" THEN FieldLeft ELSE FieldFound, task.sz, ccr)
    BY <1>3, Zenon DEF ChangeField, Changed, Written, FieldLeft, FieldFound, FieldAt
  <2>2. ccr = task.ccr
    BY <2>1 DEF FieldInv
  <2>3. FieldLeft' = FieldLeft /\ FieldFound' = FieldFound
    BY <2>1 DEF FieldLeft, FieldFound
  <2> QED BY <2>1, <2>2, <2>3 DEF FieldInv
<1>4. CASE UNCHANGED vars
  BY <1>4 DEF vars, FieldInv, FieldLeft, FieldFound
<1> QED BY <1>1, <1>2, <1>3, <1>4 DEF Next

LEMMA FieldInvariant == Spec => []FieldInv
<1> QED BY FieldInit, FieldNext, PTL DEF Spec

(* A bit field instruction changes in memory the bits of its field, to     *)
(* what it says, and no other, wherever the field starts and however many  *)
(* bytes it touches (m68ki_load_bitfield to m68ki_store_bitfield); N and Z *)
(* are those of the field it found, or inserts.                            *)
THEOREM FieldsStayInPlace == Spec => []FieldsExact
<1>1. ASSUME FieldInv PROVE FieldsExact
  <2> SUFFICES ASSUME task.kind = "field", done = 1
               PROVE  FieldsExact
    BY DEF FieldsExact
  <2> DEFINE op == task.op
             w == task.sz
             s == task.s
             m == task.d
             F == FieldFound
             N == FieldLeft
             first == 2 * Byte + s
             inside == first .. first + w - 1
             old == FieldBits(m)
             new == [i \in DOMAIN old |->
                       CASE op = "bfchg" -> ~old[i]
                         [] op = "bfclr" -> FALSE
                         [] op = "bfset" -> TRUE
                         [] op = "bfins" -> Bit(Inserted, i)]
             told == IF op = "bfins" THEN new ELSE old
             X == IF op = "bfins" THEN N ELSE F
  <2>1. /\ op \in Fields /\ w \in 1 .. BF /\ s \in -(Byte + 1) .. Byte
        /\ m \in [0 .. Bytes - 1 -> 0 .. Mod(1) - 1]
        /\ acc = Changed(m, s, w, N) /\ ccr = TestField(X, w, task.ccr)
        /\ F = FieldAt(m, s, w) /\ N = NewField(op, F, w, Inserted)
    <3>1. /\ op \in Fields /\ w \in 1 .. BF /\ s \in -(Byte + 1) .. Byte
          /\ m \in [0 .. Bytes - 1 -> 0 .. Mod(1) - 1]
          /\ acc = Changed(m, s, w, N) /\ ccr = TestField(X, w, task.ccr)
      BY <1>1 DEF FieldInv
    <3>2. F = FieldAt(m, s, w) /\ N = NewField(op, F, w, Inserted)
      BY Zenon DEF FieldLeft, FieldFound
    <3> QED BY <3>1, <3>2
  <2>2. /\ old = [i \in 0 .. w - 1 |-> MemoryBit(m, 2 * Byte + s + w - 1 - i)]
        /\ FieldBits(acc) = [i \in 0 .. w - 1 |-> MemoryBit(acc, 2 * Byte + s + w - 1 - i)]
    BY Zenon DEF FieldBits
  <2>3. DOMAIN old = 0 .. w - 1
    BY <2>2
  <2>4. w - 1 \in 0 .. w - 1
    <3>1. w \in 1 .. BF /\ BF \in Nat
      BY <2>1, FieldWidths
    <3> HIDE DEF w
    <3> QED BY <3>1
  <2> HIDE DEF op, w, s, m, F, N
  <2>5. ASSUME NEW i \in 0 .. w - 1
        PROVE  LET p == 2 * Byte + s + w - 1 - i
                   k == BF - w + i
               IN /\ F \in 0 .. 2 ^ BF - 1 /\ N \in 0 .. 2 ^ BF - 1
                  /\ MemoryBit(m, p) <=> Bit(F, k)
                  /\ MemoryBit(acc, p) <=> Bit(N, k)
                  /\ op = "bfchg" => (Bit(N, k) <=> ~Bit(F, k))
                  /\ op = "bfclr" => ~Bit(N, k)
                  /\ op = "bfset" => Bit(N, k)
                  /\ op = "bfins" => (Bit(N, k) <=> Bit(Inserted, i))
    BY <2>1, FieldBit
  <2>6. \A m0, p : MemoryBit(m0, p) \in BOOLEAN
    BY Zenon DEF MemoryBit, Bit
  <2>7. \A x, i : Bit(x, i) \in BOOLEAN
    BY Zenon DEF Bit
  <2>8. ASSUME NEW i \in 0 .. w - 1
        PROVE  /\ old[i] \in BOOLEAN /\ new[i] \in BOOLEAN
               /\ old[i] <=> Bit(F, BF - w + i)
               /\ new[i] <=> Bit(N, BF - w + i)
               /\ new[i] = MemoryBit(acc, 2 * Byte + s + w - 1 - i)
    <3> DEFINE p == 2 * Byte + s + w - 1 - i
               k == BF - w + i
    <3> HIDE DEF p, k
    <3>1. /\ MemoryBit(m, p) <=> Bit(F, k)
          /\ MemoryBit(acc, p) <=> Bit(N, k)
          /\ op = "bfchg" => (Bit(N, k) <=> ~Bit(F, k))
          /\ op = "bfclr" => ~Bit(N, k)
          /\ op = "bfset" => Bit(N, k)
          /\ op = "bfins" => (Bit(N, k) <=> Bit(Inserted, i))
      BY <2>5 DEF p, k
    <3>2. old[i] = MemoryBit(m, p)
      BY <2>2 DEF p
    <3> HIDE DEF old
    <3>3. new[i] = CASE op = "bfchg" -> ~old[i]
                     [] op = "bfclr" -> FALSE
                     [] op = "bfset" -> TRUE
                     [] op = "bfins" -> Bit(Inserted, i)
      BY <2>3
    <3> HIDE DEF new
    <3>4. op = "bfchg" \/ op = "bfclr" \/ op = "bfset" \/ op = "bfins"
      BY <2>1 DEF Fields
    <3> DEFINE a == MemoryBit(m, p)
               b == MemoryBit(acc, p)
               f == Bit(F, k)
               n == Bit(N, k)
               q == Bit(Inserted, i)
    <3>5. /\ a \in BOOLEAN /\ b \in BOOLEAN /\ f \in BOOLEAN /\ n \in BOOLEAN /\ q \in BOOLEAN
          /\ a <=> f
          /\ b <=> n
          /\ op = "bfchg" => (n <=> ~f)
          /\ op = "bfclr" => ~n
          /\ op = "bfset" => n
          /\ op = "bfins" => (n <=> q)
          /\ old[i] = a
          /\ new[i] = CASE op = "bfchg" -> ~old[i]
                        [] op = "bfclr" -> FALSE
                        [] op = "bfset" -> TRUE
                        [] op = "bfins" -> q
      BY <2>6, <2>7, <3>1, <3>2, <3>3
    <3> HIDE DEF a, b, f, n, q
    <3>6. old[i] \in BOOLEAN /\ new[i] \in BOOLEAN /\ (old[i] <=> f) /\ (new[i] <=> n) /\ new[i] = b
      <4>1. CASE op = "bfchg"
        BY <3>5, <4>1
      <4>2. CASE op = "bfclr"
        BY <3>5, <4>2
      <4>3. CASE op = "bfset"
        BY <3>5, <4>3
      <4>4. CASE op = "bfins"
        BY <3>5, <4>4
      <4> QED BY <3>4, <4>1, <4>2, <4>3, <4>4
    <3> QED BY <3>6 DEF b, f, n, k, p
  <2>9. FieldBits(acc) = new
    <3> DEFINE G(i) == CASE op = "bfchg" -> ~old[i]
                         [] op = "bfclr" -> FALSE
                         [] op = "bfset" -> TRUE
                         [] op = "bfins" -> Bit(Inserted, i)
    <3>1. new = [i \in 0 .. w - 1 |-> G(i)]
      BY <2>3, Zenon
    <3> HIDE DEF G, new
    <3>2. new = [i \in 0 .. w - 1 |-> new[i]]
      BY <3>1
    <3> QED BY <2>2, <2>8, <3>2
  <2>10. ASSUME NEW p \in (0 .. Bytes * Byte - 1) \ inside
         PROVE  MemoryBit(acc, p) = MemoryBit(m, p)
    <3>1. MemoryBit(acc, p) <=> MemoryBit(m, p)
      BY <2>1, AroundField
    <3> QED BY <2>6, <3>1
  <2>11. /\ X \in 0 .. 2 ^ BF - 1
         /\ \A i \in 0 .. w - 1 : told[i] \in BOOLEAN /\ (told[i] <=> Bit(X, BF - w + i))
         /\ DOMAIN told = 0 .. w - 1
    <3>1. F \in 0 .. 2 ^ BF - 1 /\ N \in 0 .. 2 ^ BF - 1
      BY <2>4, <2>5
    <3>2. DOMAIN new = 0 .. w - 1
      BY <2>3
    <3> HIDE DEF new, old
    <3>3. CASE op = "bfins"
      BY <2>8, <3>1, <3>2, <3>3
    <3>4. CASE op # "bfins"
      BY <2>3, <2>8, <3>1, <3>4
    <3> QED BY <3>3, <3>4
  <2> HIDE DEF X, told, new, old
  <2>12. ccr.n = Msb(X, 4) /\ ccr.z = (FieldValue(X, w) = 0)
    BY <2>1 DEF TestField, FieldCodes
  <2>13. /\ Msb(X, 4) <=> Bit(X, BF - w + (w - 1))
         /\ FieldValue(X, w) = 0 <=> \A i \in 0 .. w - 1 : ~Bit(X, BF - w + i)
    BY <2>1, <2>11, FieldTested
  <2>14. ccr.n = told[w - 1]
    <3>1. Msb(X, 4) \in BOOLEAN
      BY Zenon DEF Msb, Bit
    <3>2. Msb(X, 4) <=> told[w - 1]
      BY <2>4, <2>11, <2>13
    <3> QED BY <2>4, <2>11, <2>12, <3>1, <3>2
  <2>15. ccr.z = (\A i \in DOMAIN told : ~told[i])
    BY <2>11, <2>12, <2>13
  <2> QED BY <2>9, <2>10, <2>14, <2>15
       DEF FieldsExact, op, w, s, m, first, inside, old, new, told
<1> QED BY <1>1, FieldInvariant, PTL
=============================================================================
