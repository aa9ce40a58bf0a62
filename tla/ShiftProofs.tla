---------------------------- MODULE ShiftProofs -----------------------------
(***************************************************************************)
(* Shifts and rotates by a count are as many shifts by one, for words of   *)
(* every width, every operand and every count.                             *)
(***************************************************************************)
EXTENDS AluProofs

----------------------------------------------------------------------------
(* Powers of two up to the width of ROXL.L.                                *)

LEMMA Powers ==
  ASSUME NEW i \in Nat, NEW j \in Nat, i + j <= Width(4) + 1
  PROVE  2 ^ i \in Nat \ {0} /\ 2 ^ (i + j) = 2 ^ i * 2 ^ j /\ 2 ^ 0 = 1 /\ 2 ^ 1 = 2
<1>1. Width(4) \in Nat \ {0}
  BY AluAssumption DEF Width
<1>2. 2 ^ 0 = 1
  <2>1. 2 ^ (0 + 1) = 2 ^ 0 * 2 ^ 1 /\ 2 ^ 0 \in Nat
    BY <1>1, PowersAssumption
  <2>2. 0 + 1 = 1
    OBVIOUS
  <2>3. 2 ^ 1 = 2 ^ 0 * 2 ^ 1
    BY <2>1, <2>2
  <2> QED BY <2>1, <2>3, PowersAssumption
<1>3. ASSUME NEW k \in Nat, k <= Width(4) + 1 PROVE 2 ^ k \in Nat \ {0}
  <2>1. CASE k <= Width(4)
    BY <1>1, <2>1, PowersAssumption
  <2>2. CASE k = Width(4) + 1
    <3>1. 2 ^ (Width(4) + 1) = 2 ^ Width(4) * 2 ^ 1 /\ 2 ^ Width(4) \in Nat \ {0}
      <4>1. Width(4) \in 0 .. Width(4) /\ 1 \in 0 .. Width(4)
        BY <1>1
      <4> QED BY <4>1, PowersAssumption
    <3>2. 2 ^ k = 2 ^ Width(4) * 2
      BY <2>2, <3>1, PowersAssumption
    <3> HIDE <2>2
    <3> QED BY <3>1, <3>2
  <2> QED BY <1>1, <1>3, <2>1, <2>2
<1>4. 2 ^ (i + j) = 2 ^ i * 2 ^ j
  <2>1. CASE i <= Width(4) /\ j <= Width(4)
    BY <1>1, <2>1, PowersAssumption
  <2>2. CASE i = 0
    <3>1. i + j = j /\ 2 ^ j \in Nat
      BY <1>3, <2>2
    <3>2. 2 ^ (i + j) = 2 ^ j /\ 2 ^ i = 1
      BY <1>2, <2>2, <3>1
    <3> QED BY <3>1, <3>2
  <2>3. CASE j = 0
    <3>1. i + j = i /\ 2 ^ i \in Nat
      BY <1>3, <2>3
    <3>2. 2 ^ (i + j) = 2 ^ i /\ 2 ^ j = 1
      BY <1>2, <2>3, <3>1
    <3> QED BY <3>1, <3>2
  <2> QED BY <1>1, <2>1, <2>2, <2>3
<1>5. i <= Width(4) + 1
  BY <1>1
<1> QED BY <1>2, <1>3, <1>4, <1>5, PowersAssumption

\* A number cut in three: the part below a, a bit, and the rest.
LEMMA CutInThree ==
  ASSUME NEW v \in Nat, NEW a \in Nat \ {0}
  PROVE  LET u == v % a  b == (v \div a) % 2  t == v \div (2 * a) IN
         /\ u \in Nat /\ u < a /\ b \in {0, 1} /\ t \in Nat
         /\ v = t * (2 * a) + b * a + u
         /\ v % (2 * a) = b * a + u
         /\ v \div a = 2 * t + b
<1> DEFINE u == v % a
           q == v \div a
           b == q % 2
           s == q \div 2
<1>1. u \in Int /\ 0 <= u /\ u < a /\ q \in Int /\ v = q * a + u /\ q >= 0
  <2>1. u \in Int /\ 0 <= u /\ u < a /\ q \in Int /\ v = q * a + u
    BY DivMod
  <2> QED BY <2>1
<1> HIDE DEF u, q
<1>2. b \in {0, 1} /\ s \in Nat /\ q = 2 * s + b
  BY <1>1
<1> HIDE DEF b, s
<1> DEFINE l == b * a + u
           c == 2 * a
<1>3. l \in Nat /\ l < c /\ c \in Nat \ {0}
  BY <1>1, <1>2
<1>4. v = s * c + l
  <2>1. v = (2 * s + b) * a + u
    BY <1>1, <1>2
  <2> QED BY <1>1, <1>2, <2>1
<1> HIDE DEF l, c
<1>5. v \div c = s /\ v % c = l
  <2>1. v \div c = s
    BY <1>2, <1>3, <1>4, Part
  <2>2. v = (v \div c) * c + (v % c) /\ v % c \in Int
    BY <1>3, DivMod
  <2> QED BY <1>2, <1>3, <1>4, <2>1, <2>2
<1>6. /\ u \in Nat /\ u < a /\ b \in {0, 1} /\ s \in Nat
      /\ v = s * c + l /\ v % c = l /\ q = 2 * s + b
  BY <1>1, <1>2, <1>4, <1>5
<1>7. s = v \div c
  BY <1>5
<1>8. v = s * (2 * a) + b * a + u
  BY <1>1, <1>2, <1>4 DEF l, c
<1> QED BY <1>6, <1>7, <1>8 DEF u, q, b, l, c

\* A rotation puts the rest below: the next bit to leave is then the top one.
LEMMA Turned ==
  ASSUME NEW A \in Nat \ {0}, NEW B \in Nat \ {0}, NEW u \in Nat, u < A,
         NEW b \in {0, 1}, NEW t \in Nat, t < B
  PROVE  LET y == (b * A + u) * B + t IN
         /\ y \in Nat /\ y < 2 * (A * B)
         /\ y % (A * B) = u * B + t /\ y \div (A * B) = b
<1> DEFINE y == (b * A + u) * B + t
           m == A * B
           l == u * B + t
<1>1. m \in Nat \ {0} /\ l \in Nat /\ l < m
  <2>1. (A - u) * B >= B
    OBVIOUS
  <2>2. (A - u) * B = A * B - u * B
    OBVIOUS
  <2>3. A * B \in Nat /\ u * B \in Nat /\ A * B > 0
    OBVIOUS
  <2> QED BY <2>1, <2>2, <2>3
<1>2. y = b * m + l
  <2>1. (b * A + u) * B = b * (A * B) + u * B
    OBVIOUS
  <2> QED BY <2>1
<1> HIDE DEF y, m, l
<1>3. y \in Nat /\ y < 2 * m
  BY <1>1, <1>2
<1>4. y \div m = b /\ y % m = l
  <2>1. y \div m = b
    BY <1>1, <1>2, <1>3, Part
  <2>2. y = (y \div m) * m + (y % m) /\ y % m \in Int
    BY <1>1, <1>3, DivMod
  <2> QED BY <1>1, <1>2, <1>3, <2>1, <2>2
<1> QED BY <1>3, <1>4 DEF y, m, l

Span(w) == 0 .. 2 ^ w - 1
IsWidth(w) == w \in Nat \ {0} /\ w <= Width(4) + 1

\* The parts of v that a rotation by j, and one bit more, takes apart.
Taken(v, j, w, A, B, u, b, t) ==
  /\ A = 2 ^ (w - j - 1) /\ B = 2 ^ j /\ 2 ^ (w - j) = 2 * A
  /\ 2 ^ (w - 1) = A * B /\ 2 ^ w = 2 * (A * B)
  /\ u < A /\ b \in {0, 1} /\ t < B
  /\ v = t * (2 * A) + b * A + u /\ v % A = u /\ v \div A = 2 * t + b
  /\ RotL(v, j, w) = (b * A + u) * B + t

LEMMA Parts ==
  ASSUME NEW w, IsWidth(w), NEW v \in Span(w), NEW j \in 0 .. w - 1
  PROVE  \E A, B \in Nat \ {0} : \E u, b, t \in Nat : Taken(v, j, w, A, B, u, b, t)
<1> DEFINE k == w - j - 1
           A == 2 ^ k
           B == 2 ^ j
           u == v % A
           b == (v \div A) % 2
           t == v \div (2 * A)
<1>1. k \in Nat /\ j \in Nat /\ w \in Nat /\ k + 1 = w - j /\ k + j = w - 1
        /\ (k + j) + 1 = w /\ w <= Width(4) + 1 /\ Width(4) \in Nat
  BY AluAssumption DEF IsWidth, Width
<1> HIDE DEF k
<1>2. A \in Nat \ {0} /\ B \in Nat \ {0}
  BY <1>1, Powers
<1>3. 2 ^ (k + 1) = A * 2 /\ 2 ^ (k + j) = A * B
  <2>1. k + 1 <= Width(4) + 1 /\ k + j <= Width(4) + 1
    BY <1>1
  <2>2. 2 ^ (k + 1) = A * 2 ^ 1 /\ 2 ^ 1 = 2
    BY <1>1, <2>1, Powers
  <2>3. 2 ^ (k + j) = A * B
    BY <1>1, <2>1, Powers
  <2> QED BY <2>2, <2>3
<1>4. 2 ^ (w - j) = 2 * A /\ 2 ^ (w - 1) = A * B
  <2>1. 2 ^ (w - j) = 2 ^ (k + 1) /\ 2 ^ (w - 1) = 2 ^ (k + j)
    BY <1>1, Zenon
  <2> HIDE DEF A, B
  <2>2. A * 2 = 2 * A
    BY <1>2
  <2> QED BY <1>3, <2>1, <2>2
<1>5. 2 ^ ((k + j) + 1) = 2 ^ (k + j) * 2
  <2> DEFINE n == k + j
  <2>1. n \in Nat /\ n + 1 <= Width(4) + 1
    BY <1>1
  <2> HIDE DEF n
  <2> QED BY <2>1, Powers DEF n
<1>6. 2 ^ w = 2 * (A * B)
  <2>1. 2 ^ w = 2 ^ ((k + j) + 1)
    BY <1>1
  <2> HIDE DEF A, B
  <2>2. (A * B) * 2 = 2 * (A * B)
    BY <1>2
  <2> QED BY <1>3, <1>5, <2>1, <2>2
<1>7. v \in Nat /\ v < 2 * (A * B)
  <2> HIDE DEF A, B
  <2>1. A * B \in Nat
    BY <1>2
  <2> QED BY <1>6, <2>1 DEF Span
<1> HIDE DEF A, B
<1>8. /\ u \in Nat /\ u < A /\ b \in {0, 1} /\ t \in Nat
      /\ v = t * (2 * A) + b * A + u /\ v % (2 * A) = b * A + u /\ v \div A = 2 * t + b
  BY <1>2, <1>7, CutInThree
<1>9. t < B
  <2> HIDE DEF t, b, u
  <2>1. t * (2 * A) <= v /\ v < B * (2 * A)
    BY <1>2, <1>7, <1>8
  <2> QED BY <1>2, <1>8, <2>1, Bounds
<1>10. RotL(v, j, w) = (b * A + u) * B + t
  BY <1>4, <1>8 DEF RotL, Up, Down, B
<1>11. A = 2 ^ (w - j - 1) /\ B = 2 ^ j /\ v % A = u
  BY DEF A, B, k
<1>12. b \in Nat
  BY <1>8
<1> HIDE DEF u, b, t
<1>13. u \in Nat /\ t \in Nat
  BY <1>8
<1>14. Taken(v, j, w, A, B, u, b, t)
  BY <1>4, <1>6, <1>8, <1>9, <1>10, <1>11 DEF Taken
<1> QED BY <1>2, <1>12, <1>13, <1>14

LEMMA RotateInSpan ==
  ASSUME NEW w, IsWidth(w), NEW v \in Span(w), NEW j \in 0 .. w - 1
  PROVE  RotL(v, j, w) \in Span(w)
<1>1. PICK A, B \in Nat \ {0}, u, b, t \in Nat : Taken(v, j, w, A, B, u, b, t)
  BY Parts
<1>2. /\ 2 ^ w = 2 * (A * B) /\ u < A /\ b \in {0, 1} /\ t < B
      /\ RotL(v, j, w) = (b * A + u) * B + t
  BY <1>1 DEF Taken
<1> DEFINE y == (b * A + u) * B + t
<1>3. y \in Nat /\ y < 2 * (A * B)
  BY <1>2, Turned
<1> HIDE DEF y
<1>4. 2 * (A * B) \in Nat
  OBVIOUS
<1> QED BY <1>2, <1>3, <1>4 DEF Span, y

LEMMA RotateNone ==
  ASSUME NEW w, IsWidth(w), NEW v \in Span(w)
  PROVE  RotL(v, 0, w) = v
<1>1. w \in Nat /\ 0 + w <= Width(4) + 1 /\ w - 0 = w /\ 0 \in Nat
  BY DEF IsWidth
<1>2. 2 ^ 0 = 1 /\ 2 ^ w \in Nat \ {0}
  BY <1>1, Powers
<1>3. v % 2 ^ w = v /\ v \div 2 ^ w = 0 /\ v \in Nat
  <2> DEFINE m == 2 ^ w
  <2>1. m \in Nat \ {0} /\ v \in 0 .. m - 1
    BY <1>2 DEF Span
  <2> HIDE DEF m
  <2> QED BY <2>1 DEF m
<1> QED BY <1>1, <1>2, <1>3 DEF RotL, Up, Down

\* One place more to the left.
LEMMA RotateOn ==
  ASSUME NEW w, IsWidth(w), NEW v \in Span(w), NEW j \in 0 .. w - 1
  PROVE  RotL(RotL(v, j, w), 1 % w, w) = RotL(v, (j + 1) % w, w)
<1>1. CASE w = 1
  <2>1. j = 0 /\ 1 % w = 0 /\ (j + 1) % w = 0
    BY <1>1
  <2> QED BY <2>1, RotateNone
<1>2. CASE w > 1
  <2>1. w \in Nat /\ 1 % w = 1 /\ 0 \in 0 .. w - 1 /\ 1 \in 0 .. w - 1
    BY <1>2 DEF IsWidth
  <2>2. PICK A, B \in Nat \ {0}, u, b, t \in Nat : Taken(v, j, w, A, B, u, b, t)
    BY Parts
  <2>3. /\ A = 2 ^ (w - j - 1) /\ 2 ^ (w - 1) = A * B
        /\ u < A /\ b \in {0, 1} /\ t < B
        /\ v = t * (2 * A) + b * A + u /\ v % A = u /\ v \div A = 2 * t + b
        /\ RotL(v, j, w) = (b * A + u) * B + t
    BY <2>2 DEF Taken
  <2> DEFINE y == (b * A + u) * B + t
  <2>4. y % (A * B) = u * B + t /\ y \div (A * B) = b /\ y \in Nat
    <3>1. u < A /\ b \in {0, 1} /\ t < B
      BY <2>3
    <3> HIDE <2>3
    <3> QED BY <3>1, Turned
  <2>5. RotL(y, 1, w) = (u * B + t) * 2 + b
    <3> HIDE DEF y
    <3>1. RotL(y, 1, w) = (y % 2 ^ (w - 1)) * 2 ^ 1 + (y \div 2 ^ (w - 1))
      BY Zenon DEF RotL, Up, Down
    <3>2. y % 2 ^ (w - 1) = u * B + t /\ y \div 2 ^ (w - 1) = b
      BY <2>3, <2>4
    <3>3. 2 ^ 1 = 2
      BY PowersAssumption
    <3> QED BY <3>1, <3>2, <3>3
  <2>6. CASE j + 1 < w
    <3>1. (j + 1) % w = j + 1 /\ j \in Nat /\ j + 1 <= Width(4) + 1 /\ Width(4) \in Nat
      BY <2>1, <2>6, AluAssumption DEF IsWidth, Width
    <3>2. 2 ^ (j + 1) = B * 2 ^ 1 /\ 2 ^ 1 = 2
      BY <3>1, <2>2, Powers DEF Taken
    <3>3. 2 ^ (w - (j + 1)) = A
      <4>1. w - (j + 1) = w - j - 1
        BY <2>1
      <4> QED BY <2>3, <4>1
    <3>4. RotL(v, j + 1, w) = (v % A) * (B * 2) + (v \div A)
      BY <3>2, <3>3 DEF RotL, Up, Down
    <3>5. u * (B * 2) + (2 * t + b) = (u * B + t) * 2 + b
      OBVIOUS
    <3> QED BY <2>1, <2>3, <2>5, <3>1, <3>4, <3>5
  <2>7. CASE j + 1 = w
    <3>1. (j + 1) % w = 0
      BY <2>1, <2>7
    <3>2. A = 1 /\ u = 0
      <4>1. w - j - 1 = 0 /\ 0 + 0 <= Width(4) + 1
        BY <2>1, <2>7, AluAssumption DEF Width
      <4>2. 2 ^ 0 = 1
        BY <4>1, Powers
      <4>3. A = 1
        BY <2>3, <4>1, <4>2
      <4> QED BY <2>3, <4>3
    <3>3. (u * B + t) * 2 + b = v
      BY <2>3, <3>2
    <3> QED BY <2>1, <2>3, <2>5, <3>1, <3>3, RotateNone
  <2> QED BY <2>1, <2>6, <2>7
<1> QED BY <1>1, <1>2 DEF IsWidth

\* And one place back.
LEMMA RotateBack ==
  ASSUME NEW w, IsWidth(w), NEW v \in Span(w), NEW j \in 0 .. w - 1
  PROVE  RotL(RotL(v, j, w), (w - 1) % w, w) = RotL(v, (j - 1) % w, w)
<1>1. w \in Nat \ {0} /\ j \in Int
  BY DEF IsWidth
<1>2. CASE w = 1
  <2>1. j = 0 /\ (w - 1) % w = 0 /\ (j - 1) % w = 0
    BY <1>2
  <2> QED BY <2>1, RotateNone
<1>3. CASE w > 1
  <2> DEFINE i == (j - 1) % w
             z == RotL(v, i, w)
  <2>1. i \in 0 .. w - 1 /\ (i + 1) % w = j /\ 1 % w = 1 /\ (w - 1) % w = w - 1
    BY <1>1, <1>3
  <2> HIDE DEF i
  <2>2. RotL(v, j, w) = RotL(z, 1, w) /\ z \in Span(w)
    BY <2>1, RotateOn, RotateInSpan
  <2> HIDE DEF z
  <2>3. RotL(RotL(z, 1, w), w - 1, w) = z
    <3>1. w - 1 \in Nat /\ 1 \in Nat /\ (w - 1) + 1 = w /\ w - 1 <= Width(4) + 1
            /\ w <= Width(4) + 1 /\ w - (w - 1) = 1
      BY <1>1, <1>3, AluAssumption DEF IsWidth, Width
    <3> DEFINE h == 2 ^ (w - 1)
               b == z \div h
               l == z % h
               y == l * 2 + b
    <3>2. h \in Nat \ {0} /\ 2 ^ 1 = 2
      <4> DEFINE n == w - 1
      <4>1. n \in Nat /\ n + 1 <= Width(4) + 1
        BY <3>1
      <4> HIDE DEF n
      <4> QED BY <3>1, <4>1, Powers DEF n
    <3>3. 2 ^ w = h * 2
      <4> DEFINE n == w - 1
      <4>1. n \in Nat /\ n + 1 <= Width(4) + 1
        BY <3>1
      <4>2. 2 ^ w = 2 ^ (n + 1)
        BY <3>1
      <4> HIDE DEF n
      <4> QED BY <3>1, <3>2, <4>1, <4>2, Powers DEF n
    <3>4. RotL(z, 1, w) = y
      BY <3>2 DEF RotL, Up, Down
    <3>5. RotL(y, w - 1, w) = (y % 2) * h + (y \div 2)
      BY <3>1, <3>2 DEF RotL, Up, Down
    <3> HIDE DEF h
    <3>6. z \in Nat /\ z < h * 2
      BY <2>2, <3>2, <3>3 DEF Span
    <3>7. b \in {0, 1} /\ l \in Nat /\ l < h /\ z = b * h + l
      <4>1. b \in Int /\ l \in Int /\ 0 <= l /\ l < h /\ z = b * h + l
        BY <3>2, <3>6, DivMod
      <4> HIDE DEF b, l
      <4>2. 0 * h = 0
        BY <3>2
      <4>3. b < 2
        BY <3>2, <3>6, <4>1, Bounds
      <4>4. 0 <= b
        BY <3>2, <3>6, <4>1, <4>2, Bounds
      <4> QED BY <4>1, <4>3, <4>4
    <3> HIDE DEF b, l
    <3>8. y % 2 = b /\ y \div 2 = l
      BY <3>7
    <3> QED BY <3>4, <3>5, <3>7, <3>8
  <2> QED BY <2>1, <2>2, <2>3 DEF i, z
<1> QED BY <1>1, <1>2, <1>3

----------------------------------------------------------------------------
(* Shifts.                                                                 *)

LEMMA Halved ==
  ASSUME NEW v \in Int, NEW a \in Nat \ {0}
  PROVE  (v \div a) \div 2 = v \div (2 * a)
<1> DEFINE q == v \div a
           u == v % a
           h == q \div 2
           c == q % 2
           l == c * a + u
           m == 2 * a
<1>1. q \in Int /\ u \in Int /\ 0 <= u /\ u < a /\ v = q * a + u
  BY DivMod
<1> HIDE DEF q, u
<1>2. h \in Int /\ c \in {0, 1} /\ q = 2 * h + c
  BY <1>1
<1> HIDE DEF h, c
<1>3. l \in Int /\ 0 <= l /\ l < m /\ m \in Nat \ {0}
  BY <1>1, <1>2
<1>4. v = h * m + l
  <2>1. v = (2 * h + c) * a + u
    BY <1>1, <1>2
  <2> QED BY <1>1, <1>2, <2>1
<1> HIDE DEF l, m
<1>5. v \div m = h
  <2>1. h * m <= v /\ v < h * m + m
    <3>1. h * m \in Int
      BY <1>2, <1>3
    <3> QED BY <1>3, <1>4, <3>1
  <2> QED BY <1>2, <1>3, <2>1, Part
<1> QED BY <1>5 DEF h, q, m

\* One place more to the left, and what the top bit then is.
LEMMA UpOn ==
  ASSUME NEW w, IsWidth(w), NEW v \in Span(w), NEW j \in 0 .. w - 1
  PROVE  /\ Up(v, j, w) \in Span(w)
         /\ Up(Up(v, j, w), 1, w) = Up(v, j + 1, w)
         /\ Bit(Up(v, j, w), w - 1) <=> Bit(v, w - 1 - j)
<1>1. PICK A, B \in Nat \ {0}, u, b, t \in Nat : Taken(v, j, w, A, B, u, b, t)
  BY Parts
<1>2. /\ A = 2 ^ (w - j - 1) /\ B = 2 ^ j /\ 2 ^ (w - j) = 2 * A
      /\ 2 ^ (w - 1) = A * B /\ 2 ^ w = 2 * (A * B)
      /\ v % A = u /\ v \div A = 2 * t + b
  BY <1>1 DEF Taken
<1>3. u < A /\ b \in {0, 1} /\ v = t * (2 * A) + b * A + u /\ v \in Nat
  BY <1>1 DEF Taken, Span
<1>4. v % (2 * A) = b * A + u
  <2> DEFINE l == b * A + u
             m == 2 * A
  <2>1. l \in Nat /\ l < m /\ m \in Nat \ {0}
    BY <1>3
  <2>2. v = t * m + l
    BY <1>3
  <2> HIDE DEF l, m
  <2>3. t * m \in Int
    BY <2>1
  <2>4. v \div m = t
    <3>1. t * m <= v /\ v < t * m + m
      BY <2>1, <2>2, <2>3
    <3> QED BY <2>1, <2>2, <2>3, <3>1, Part
  <2>5. v = (v \div m) * m + (v % m) /\ v % m \in Int
    BY <1>3, <2>1, DivMod
  <2>6. v % m = l
    BY <2>1, <2>2, <2>3, <2>4, <2>5
  <2> QED BY <2>6 DEF l, m
<1> DEFINE y == (b * A + u) * B + 0
<1>5. y \in Nat /\ y < 2 * (A * B) /\ y % (A * B) = u * B + 0 /\ y \div (A * B) = b
  <2>1. 0 \in Nat /\ 0 < B
    OBVIOUS
  <2>2. u < A /\ b \in {0, 1}
    BY <1>3
  <2> HIDE <1>2, <1>3, <1>4
  <2> QED BY <2>1, <2>2, Turned
<1>6. y = (b * A + u) * B
  BY <1>3
<1>7. Up(v, j, w) = y
  BY <1>2, <1>4, <1>6 DEF Up
<1> HIDE DEF y
<1>8. y \in Span(w)
  <2>1. 2 * (A * B) \in Nat
    OBVIOUS
  <2> QED BY <1>2, <1>5, <2>1 DEF Span
<1>9. Up(y, 1, w) = u * (B * 2)
  <2>1. Up(y, 1, w) = (y % 2 ^ (w - 1)) * 2 ^ 1
    BY DEF Up
  <2>2. y % 2 ^ (w - 1) = u * B
    BY <1>2, <1>5
  <2>3. 2 ^ 1 = 2
    BY PowersAssumption
  <2>4. (u * B) * 2 = u * (B * 2)
    OBVIOUS
  <2> QED BY <2>1, <2>2, <2>3, <2>4
<1>10. Up(v, j + 1, w) = u * (B * 2)
  <2>1. w \in Nat /\ j \in Nat /\ 1 \in Nat /\ j + 1 <= Width(4) + 1 /\ w - (j + 1) = w - j - 1
    BY AluAssumption DEF IsWidth, Width
  <2>2. 2 ^ (j + 1) = 2 ^ j * 2 ^ 1 /\ 2 ^ 1 = 2
    BY <2>1, Powers
  <2>3. 2 ^ (j + 1) = B * 2
    BY <1>2, <2>2
  <2>4. v % 2 ^ (w - (j + 1)) = u
    BY <1>2, <2>1
  <2> QED BY <2>3, <2>4 DEF Up
<1>11. Bit(y, w - 1) <=> b = 1
  <2>1. y \div 2 ^ (w - 1) = b
    BY <1>2, <1>5
  <2> QED BY <1>3, <2>1 DEF Bit
<1>12. Bit(v, w - 1 - j) <=> b = 1
  <2>1. w - 1 - j = w - j - 1
    BY DEF IsWidth
  <2>2. v \div 2 ^ (w - 1 - j) = 2 * t + b
    BY <1>2, <2>1
  <2> QED BY <1>3, <2>2 DEF Bit
<1> QED BY <1>7, <1>8, <1>9, <1>10, <1>11, <1>12

LEMMA OfSize ==
  ASSUME NEW sz \in Sizes
  PROVE  /\ IsWidth(Width(sz)) /\ IsWidth(Width(sz) + 1)
         /\ Word(sz) = Span(Width(sz)) /\ Mod(sz) = 2 ^ Width(sz)
<1>1. IsWidth(Width(sz)) /\ IsWidth(Width(sz) + 1)
  <2>1. Width(4) \in Nat
    BY AluAssumption DEF Width
  <2> QED BY <2>1, Widths DEF IsWidth
<1>2. Word(sz) = Span(Width(sz)) /\ Mod(sz) = 2 ^ Width(sz)
  BY Zenon DEF Word, Span, Mod
<1> QED BY <1>1, <1>2

LEMMA PowerInRange ==
  ASSUME NEW w, IsWidth(w), NEW i \in 0 .. w
  PROVE  2 ^ i \in Nat \ {0}
<1>1. i \in Nat /\ 0 \in Nat /\ i + 0 <= Width(4) + 1
  BY AluAssumption DEF IsWidth, Width
<1> QED BY <1>1, Powers

LEMMA NoBits ==
  ASSUME NEW w, IsWidth(w)
  PROVE  /\ \A i \in 0 .. w : ~Bit(0, i) /\ Down(0, i) = 0
         /\ Up(0, 1, w) = 0
<1>1. ASSUME NEW i \in 0 .. w PROVE ~Bit(0, i) /\ Down(0, i) = 0
  <2>1. PICK m \in Nat \ {0} : m = 2 ^ i
    BY PowerInRange
  <2>2. 0 \div m = 0 /\ 0 % 2 # 1
    BY <2>1
  <2>3. 0 \div 2 ^ i = 0
    BY <2>1, <2>2
  <2> QED BY <2>2, <2>3, Zenon DEF Bit, Down
<1>2. Up(0, 1, w) = 0
  <2>1. w - 1 \in 0 .. w
    BY DEF IsWidth
  <2>2. PICK m \in Nat \ {0} : m = 2 ^ (w - 1)
    BY <2>1, PowerInRange
  <2>3. 0 % m = 0
    BY <2>2
  <2>4. 0 % 2 ^ (w - 1) = 0 /\ 2 ^ 1 = 2
    BY <2>2, <2>3, PowersAssumption
  <2> QED BY <2>4 DEF Up
<1> QED BY <1>1, <1>2

\* Everything moved out.
LEMMA AllOut ==
  ASSUME NEW w, IsWidth(w), NEW v \in Span(w)
  PROVE  Up(v, w, w) = 0 /\ Down(v, w) = 0
<1>1. w \in Nat /\ w - w = 0 /\ w \in 0 .. w /\ 0 \in Nat /\ 0 + w <= Width(4) + 1
  BY DEF IsWidth
<1>2. PICK m \in Nat \ {0} : m = 2 ^ w
  BY <1>1, PowerInRange
<1>3. 2 ^ 0 = 1
  BY <1>1, Powers
<1>4. v \in Nat /\ v < m
  BY <1>2 DEF Span
<1>5. v % 1 = 0 /\ v \div m = 0 /\ 0 * m = 0
  BY <1>2, <1>4
<1>6. v % 2 ^ (w - w) = 0
  BY <1>1, <1>3, <1>5
<1>7. Up(v, w, w) = 0
  BY <1>2, <1>5, <1>6 DEF Up
<1>8. Down(v, w) = 0
  BY <1>2, <1>5 DEF Down
<1> QED BY <1>7, <1>8

\* With r after n places, and s one more after r, s is t after n + 1 places:
\* the result, and N, Z and V, and C and X unless the shift is saturated.
Adds(r, s, t) ==
  /\ s.res = t.res /\ s.ccr \in CCR /\ t.ccr \in CCR
  /\ s.ccr.n = t.ccr.n /\ s.ccr.z = t.ccr.z
  /\ (s.ccr.v \/ r.ccr.v) = t.ccr.v

SameCarry(s, t) == s.ccr.c = t.ccr.c /\ s.ccr.x = t.ccr.x

\* Results that were coded from the same number.
LEMMA Parted ==
  ASSUME NEW v, NEW c
  PROVE  Result(v, c).res = v /\ Result(v, c).ccr = c
BY DEF Result

\* Enough that the numbers agree, and what is coded of them.
LEMMA AddsUp ==
  ASSUME NEW sz, NEW r, NEW s, NEW t, NEW v, NEW v2, NEW y, NEW y2,
         NEW x \in BOOLEAN, NEW o \in BOOLEAN, NEW c \in BOOLEAN,
         NEW x2 \in BOOLEAN, NEW o2 \in BOOLEAN, NEW c2 \in BOOLEAN,
         s = Result(v2, Codes(x2, y2, sz, o2, c2)), t = Result(v, Codes(x, y, sz, o, c)),
         v2 = v, y2 = y, (o2 \/ r.ccr.v) = o
  PROVE  Adds(r, s, t) /\ (x2 = x /\ c2 = c => SameCarry(s, t))
<1>1. s.res = v2 /\ t.res = v
  BY Parted
<1>2. s.ccr = Codes(x2, y2, sz, o2, c2) /\ t.ccr = Codes(x, y, sz, o, c)
  BY Parted
<1>3. /\ s.ccr \in CCR /\ s.ccr.x = x2 /\ s.ccr.v = o2 /\ s.ccr.c = c2
      /\ s.ccr.n = Msb(y2, sz) /\ s.ccr.z = (Low(y2, sz) = 0)
  <2> DEFINE q == s.ccr
  <2>1. q = Codes(x2, y2, sz, o2, c2)
    BY <1>2
  <2> HIDE DEF q
  <2>2. /\ q \in CCR /\ q.x = x2 /\ q.v = o2 /\ q.c = c2
        /\ q.n = Msb(y2, sz) /\ q.z = (Low(y2, sz) = 0)
    BY <2>1 DEF Codes, CCR, Msb, Bit
  <2> QED BY <2>2 DEF q
<1>4. /\ t.ccr \in CCR /\ t.ccr.x = x /\ t.ccr.v = o /\ t.ccr.c = c
      /\ t.ccr.n = Msb(y, sz) /\ t.ccr.z = (Low(y, sz) = 0)
  <2> DEFINE q == t.ccr
  <2>1. q = Codes(x, y, sz, o, c)
    BY <1>2
  <2> HIDE DEF q
  <2>2. /\ q \in CCR /\ q.x = x /\ q.v = o /\ q.c = c
        /\ q.n = Msb(y, sz) /\ q.z = (Low(y, sz) = 0)
    BY <2>1 DEF Codes, CCR, Msb, Bit
  <2> QED BY <2>2 DEF q
<1> QED BY <1>1, <1>3, <1>4, Zenon DEF Adds, SameCarry

\* LSL by k places of v.
LslRes(k, v, w) == IF k <= w THEN Up(v, k, w) ELSE 0
LslOut(k, v, w) == k <= w /\ Bit(v, w - k)

LEMMA LslIs ==
  ASSUME NEW sz, NEW k \in Nat \ {0}, NEW v, NEW h
  PROVE  LET w == Width(sz) IN
         /\ LslOut(k, v, w) \in BOOLEAN
         /\ lsl(k, v, h, sz)
              = Result(LslRes(k, v, w),
                       Codes(LslOut(k, v, w), LslRes(k, v, w), sz, FALSE, LslOut(k, v, w)))
<1>1. ~(k = 0)
  OBVIOUS
<1> QED BY <1>1, Zenon DEF lsl, LslRes, LslOut, Bit

LEMMA LslOnward ==
  ASSUME NEW w, IsWidth(w), NEW d \in Span(w), NEW n \in Nat \ {0}
  PROVE  LET r == LslRes(n, d, w) IN
         /\ LslRes(1, r, w) = LslRes(n + 1, d, w)
         /\ LslOut(1, r, w) = LslOut(n + 1, d, w)
<1> DEFINE r == LslRes(n, d, w)
<1>1. w \in Nat \ {0} /\ 1 <= w
  BY DEF IsWidth
<1>2. LslRes(1, r, w) = Up(r, 1, w) /\ LslOut(1, r, w) = Bit(r, w - 1)
  BY <1>1, Zenon DEF LslRes, LslOut, Bit
<1>3. CASE n < w
  <2>1. n \in 0 .. w - 1 /\ n + 1 <= w /\ n <= w /\ w - (n + 1) = w - 1 - n
    BY <1>1, <1>3
  <2>2. r = Up(d, n, w) /\ LslRes(n + 1, d, w) = Up(d, n + 1, w)
    BY <2>1 DEF LslRes
  <2>3. LslOut(n + 1, d, w) = Bit(d, w - 1 - n)
    BY <2>1, Zenon DEF LslOut, Bit
  <2> HIDE DEF r
  <2>4. Up(r, 1, w) = Up(d, n + 1, w) /\ Bit(r, w - 1) = Bit(d, w - 1 - n)
    BY <2>1, <2>2, UpOn DEF Bit
  <2> QED BY <1>2, <2>2, <2>3, <2>4 DEF r
<1>4. CASE n >= w
  <2>1. ~(n + 1 <= w) /\ w - 1 \in 0 .. w /\ (n = w \/ ~(n <= w))
    BY <1>1, <1>4
  <2>2. r = 0
    BY <2>1, AllOut DEF LslRes
  <2>3. LslRes(n + 1, d, w) = 0 /\ LslOut(n + 1, d, w) = FALSE
    BY <2>1, Zenon DEF LslRes, LslOut, Bit
  <2>4. Up(0, 1, w) = 0 /\ Bit(0, w - 1) = FALSE
    BY <2>1, NoBits DEF Bit
  <2> HIDE DEF r
  <2> QED BY <1>2, <2>2, <2>3, <2>4 DEF r
<1> QED BY <1>1, <1>3, <1>4

LEMMA LslAdds ==
  ASSUME NEW sz \in Sizes, NEW d \in Word(sz), NEW n \in Nat \ {0}, NEW f, NEW g
  PROVE  LET r == lsl(n, d, f, sz)
             s == lsl(1, r.res, g, sz)
             t == lsl(n + 1, d, f, sz)
         IN  Adds(r, s, t) /\ SameCarry(s, t)
<1> DEFINE w == Width(sz)
           r == lsl(n, d, f, sz)
           s == lsl(1, r.res, g, sz)
           t == lsl(n + 1, d, f, sz)
           v == LslRes(n, d, w)
           v2 == LslRes(1, v, w)
           v3 == LslRes(n + 1, d, w)
           c == LslOut(n, d, w)
           c2 == LslOut(1, v, w)
           c3 == LslOut(n + 1, d, w)
<1>1. IsWidth(w) /\ d \in Span(w) /\ n + 1 \in Nat \ {0} /\ 1 \in Nat \ {0}
  BY OfSize
<1>2. r = Result(v, Codes(c, v, sz, FALSE, c)) /\ c \in BOOLEAN
  BY LslIs
<1>3. t = Result(v3, Codes(c3, v3, sz, FALSE, c3)) /\ c3 \in BOOLEAN
  BY <1>1, LslIs
<1>4. r.res = v /\ r.ccr.v = FALSE
  <2> HIDE DEF r, v, c
  <2> DEFINE q == r.ccr
  <2>1. r.res = v /\ q = Codes(c, v, sz, FALSE, c)
    BY <1>2, Parted
  <2> HIDE DEF q
  <2>2. q.v = FALSE
    BY <2>1 DEF Codes
  <2> QED BY <2>1, <2>2 DEF q
<1>5. s = Result(v2, Codes(c2, v2, sz, FALSE, c2)) /\ c2 \in BOOLEAN
  <2> HIDE DEF r, v
  <2> QED BY <1>1, <1>4, LslIs
<1>6. v2 = v3 /\ c2 = c3
  BY <1>1, LslOnward
<1> HIDE DEF r, s, t, v, v2, v3, c, c2, c3
<1>7. (FALSE \/ r.ccr.v) = FALSE
  BY <1>4
<1>8. Adds(r, s, t) /\ SameCarry(s, t)
  BY <1>3, <1>5, <1>6, <1>7, AddsUp
<1> QED BY <1>8 DEF r, s, t

----------------------------------------------------------------------------
(* LSR.                                                                    *)

LsrRes(k, v, w) == IF k <= w THEN Down(v, k) ELSE 0
LsrOut(k, v, w) == k <= w /\ Bit(v, k - 1)

LEMMA LsrIs ==
  ASSUME NEW sz, NEW k \in Nat \ {0}, NEW v, NEW h
  PROVE  LET w == Width(sz) IN
         /\ LsrOut(k, v, w) \in BOOLEAN
         /\ lsr(k, v, h, sz)
              = Result(LsrRes(k, v, w),
                       Codes(LsrOut(k, v, w), LsrRes(k, v, w), sz, FALSE, LsrOut(k, v, w)))
<1>1. ~(k = 0)
  OBVIOUS
<1> QED BY <1>1, Zenon DEF lsr, LsrRes, LsrOut, Bit

LEMMA LowestBit ==
  ASSUME NEW v \in Int
  PROVE  Bit(v, 0) <=> v % 2 = 1
<1>1. 0 \in Nat /\ 0 + 0 <= Width(4) + 1
  BY AluAssumption DEF Width
<1>2. 2 ^ 0 = 1 /\ v \div 1 = v
  BY <1>1, Powers
<1>3. v \div 2 ^ 0 = v
  BY <1>2
<1> QED BY <1>3, Zenon DEF Bit

\* One place more to the right.
LEMMA DownOn ==
  ASSUME NEW w, IsWidth(w), NEW v \in Int, NEW j \in 0 .. w - 1
  PROVE  /\ Down(v, j) \in Int
         /\ Down(v, j) \div 2 = Down(v, j + 1)
         /\ Bit(Down(v, j), 0) <=> Bit(v, j)
<1>1. j \in Nat /\ 1 \in Nat /\ j + 1 <= Width(4) + 1 /\ j \in 0 .. w
  BY AluAssumption DEF IsWidth, Width
<1>2. PICK m \in Nat \ {0} : m = 2 ^ j
  BY <1>1, PowerInRange
<1>3. 2 ^ (j + 1) = 2 ^ j * 2 ^ 1 /\ 2 ^ 1 = 2
  BY <1>1, Powers
<1>4. 2 ^ (j + 1) = 2 * m
  <2>1. 2 ^ (j + 1) = m * 2
    BY <1>2, <1>3
  <2> QED BY <2>1
<1>5. Down(v, j) = v \div m
  BY <1>2 DEF Down
<1>6. v \div m \in Int /\ (v \div m) \div 2 = v \div (2 * m)
  BY Halved, DivMod
<1>7. Down(v, j + 1) = v \div (2 * m)
  BY <1>4 DEF Down
<1>8. Bit(v, j) <=> Down(v, j) % 2 = 1
  BY Zenon DEF Bit, Down
<1>9. Down(v, j) \in Int
  BY <1>5, <1>6
<1>10. Bit(Down(v, j), 0) <=> Down(v, j) % 2 = 1
  BY <1>9, LowestBit
<1> QED BY <1>5, <1>6, <1>7, <1>8, <1>9, <1>10

LEMMA LsrOnward ==
  ASSUME NEW w, IsWidth(w), NEW d \in Span(w), NEW n \in Nat \ {0}
  PROVE  LET r == LsrRes(n, d, w) IN
         /\ LsrRes(1, r, w) = LsrRes(n + 1, d, w)
         /\ LsrOut(1, r, w) = LsrOut(n + 1, d, w)
<1> DEFINE r == LsrRes(n, d, w)
<1>1. w \in Nat \ {0} /\ 1 <= w /\ 1 - 1 = 0 /\ d \in Int
  BY DEF IsWidth, Span
<1>2. LsrRes(1, r, w) = Down(r, 1) /\ LsrOut(1, r, w) = Bit(r, 0)
  BY <1>1, Zenon DEF LsrRes, LsrOut, Bit
<1>3. ASSUME NEW v PROVE Down(v, 1) = v \div 2
  BY PowersAssumption DEF Down
<1>4. CASE n < w
  <2>1. n \in 0 .. w - 1 /\ n + 1 <= w /\ n <= w /\ n + 1 - 1 = n
    BY <1>1, <1>4
  <2>2. r = Down(d, n) /\ LsrRes(n + 1, d, w) = Down(d, n + 1)
    BY <2>1 DEF LsrRes
  <2>3. LsrOut(n + 1, d, w) = Bit(d, n)
    <3>1. ASSUME NEW k, k <= w PROVE LsrOut(k, d, w) = Bit(d, k - 1)
      BY <3>1, Zenon DEF LsrOut, Bit
    <3> QED BY <2>1, <3>1
  <2> HIDE DEF r
  <2>4. Down(r, 1) = Down(d, n + 1) /\ (Bit(r, 0) <=> Bit(d, n))
    <3>1. Down(d, n) \div 2 = Down(d, n + 1) /\ (Bit(Down(d, n), 0) <=> Bit(d, n))
      BY <1>1, <2>1, DownOn
    <3> QED BY <1>3, <2>2, <3>1
  <2>5. Bit(r, 0) = Bit(d, n)
    BY <2>4 DEF Bit
  <2> QED BY <1>2, <2>2, <2>3, <2>4, <2>5 DEF r
<1>5. CASE n >= w
  <2>1. ~(n + 1 <= w) /\ 1 \in 0 .. w /\ 0 \in 0 .. w /\ (n = w \/ ~(n <= w))
    BY <1>1, <1>5
  <2>2. r = 0
    BY <2>1, AllOut DEF LsrRes
  <2>3. LsrRes(n + 1, d, w) = 0 /\ LsrOut(n + 1, d, w) = FALSE
    BY <2>1, Zenon DEF LsrRes, LsrOut, Bit
  <2>4. Down(0, 1) = 0 /\ Bit(0, 0) = FALSE
    BY <2>1, NoBits DEF Bit
  <2> HIDE DEF r
  <2> QED BY <1>2, <2>2, <2>3, <2>4 DEF r
<1> QED BY <1>1, <1>4, <1>5

LEMMA LsrAdds ==
  ASSUME NEW sz \in Sizes, NEW d \in Word(sz), NEW n \in Nat \ {0}, NEW f, NEW g
  PROVE  LET r == lsr(n, d, f, sz)
             s == lsr(1, r.res, g, sz)
             t == lsr(n + 1, d, f, sz)
         IN  Adds(r, s, t) /\ SameCarry(s, t)
<1> DEFINE w == Width(sz)
           r == lsr(n, d, f, sz)
           s == lsr(1, r.res, g, sz)
           t == lsr(n + 1, d, f, sz)
           v == LsrRes(n, d, w)
           v2 == LsrRes(1, v, w)
           v3 == LsrRes(n + 1, d, w)
           c == LsrOut(n, d, w)
           c2 == LsrOut(1, v, w)
           c3 == LsrOut(n + 1, d, w)
<1>1. IsWidth(w) /\ d \in Span(w) /\ n + 1 \in Nat \ {0} /\ 1 \in Nat \ {0}
  BY OfSize
<1>2. r = Result(v, Codes(c, v, sz, FALSE, c)) /\ c \in BOOLEAN
  BY LsrIs
<1>3. t = Result(v3, Codes(c3, v3, sz, FALSE, c3)) /\ c3 \in BOOLEAN
  BY <1>1, LsrIs
<1>4. r.res = v /\ r.ccr.v = FALSE
  <2> HIDE DEF r, v, c
  <2> DEFINE q == r.ccr
  <2>1. r.res = v /\ q = Codes(c, v, sz, FALSE, c)
    BY <1>2, Parted
  <2> HIDE DEF q
  <2>2. q.v = FALSE
    BY <2>1 DEF Codes
  <2> QED BY <2>1, <2>2 DEF q
<1>5. s = Result(v2, Codes(c2, v2, sz, FALSE, c2)) /\ c2 \in BOOLEAN
  <2> HIDE DEF r, v
  <2> QED BY <1>1, <1>4, LsrIs
<1>6. v2 = v3 /\ c2 = c3
  BY <1>1, LsrOnward
<1> HIDE DEF r, s, t, v, v2, v3, c, c2, c3
<1>7. (FALSE \/ r.ccr.v) = FALSE
  BY <1>4
<1>8. Adds(r, s, t) /\ SameCarry(s, t)
  BY <1>3, <1>5, <1>6, <1>7, AddsUp
<1> QED BY <1>8 DEF r, s, t

----------------------------------------------------------------------------
(* ASL moves as LSL does, and tells whether the sign ever changed.         *)

AslSign(k, v, w) == IF k < w THEN SignChanges(v, k, w) ELSE v # 0

LEMMA AslIs ==
  ASSUME NEW sz \in Sizes, NEW k \in Nat \ {0}, NEW v \in Word(sz), NEW h
  PROVE  LET w == Width(sz) IN
         /\ LslOut(k, v, w) \in BOOLEAN /\ AslSign(k, v, w) \in BOOLEAN
         /\ asl(k, v, h, sz)
              = Result(LslRes(k, v, w),
                       Codes(LslOut(k, v, w), LslRes(k, v, w), sz,
                             AslSign(k, v, w), LslOut(k, v, w)))
<1> DEFINE w == Width(sz)
<1>1. IsWidth(w) /\ w \in Nat \ {0} /\ v \in Span(w)
  BY OfSize DEF IsWidth
<1>2. LslOut(k, v, w) \in BOOLEAN /\ AslSign(k, v, w) \in BOOLEAN
  BY Zenon DEF LslOut, AslSign, SignChanges, Bit
<1>3. CASE k < w
  <2>1. k <= w /\ ~(k = 0) /\ k > 0 /\ ~(k >= w)
    BY <1>1, <1>3
  <2>2. LslRes(k, v, w) = Up(v, k, w)
    BY <2>1 DEF LslRes
  <2>3. LslOut(k, v, w) = Bit(v, w - k)
    BY <2>1, Zenon DEF LslOut, Bit
  <2>4. AslSign(k, v, w) = SignChanges(v, k, w)
    BY <1>3, Zenon DEF AslSign
  <2>5. asl(k, v, h, sz)
          = Result(Up(v, k, w), Codes(Bit(v, w - k), Up(v, k, w), sz,
                                      SignChanges(v, k, w), Bit(v, w - k)))
    BY <1>3, <2>1 DEF asl
  <2> QED BY <1>2, <2>2, <2>3, <2>4, <2>5
<1>4. CASE k >= w
  <2>1. ~(k < w) /\ ~(k = 0) /\ (k <= w <=> k = w) /\ w - w = 0
    BY <1>1, <1>4
  <2>2. LslRes(k, v, w) = 0
    BY <1>1, <2>1, AllOut DEF LslRes
  <2>3. LslOut(k, v, w) = (k = w /\ Bit(v, 0))
    <3>1. LslOut(k, v, w) = (k = w /\ Bit(v, w - k))
      BY <2>1, Zenon DEF LslOut
    <3>2. CASE k = w
      BY <2>1, <3>1, <3>2
    <3>3. CASE k # w
      BY <3>1, <3>3
    <3> QED BY <3>2, <3>3
  <2>4. AslSign(k, v, w) = (v # 0)
    BY <2>1, Zenon DEF AslSign
  <2>5. asl(k, v, h, sz)
          = Result(0, Codes(k = w /\ Bit(v, 0), 0, sz, v # 0, k = w /\ Bit(v, 0)))
    BY <1>4, <2>1 DEF asl
  <2> QED BY <1>2, <2>2, <2>3, <2>4, <2>5
<1> QED BY <1>1, <1>2, <1>3, <1>4

LEMMA BothSigns ==
  ASSUME NEW v, NEW n, NEW w
  PROVE  SignChanges(v, n, w) <=> /\ \E i \in (w - 1 - n) .. (w - 1) : Bit(v, i)
                                  /\ \E i \in (w - 1 - n) .. (w - 1) : ~Bit(v, i)
<1> DEFINE I == (w - 1 - n) .. (w - 1)
           b(i) == Bit(v, i)
           S == {b(i) : i \in I}
<1>1. \A i \in I : b(i) = TRUE \/ b(i) = FALSE
  BY DEF Bit
<1>2. SignChanges(v, n, w) <=> S = BOOLEAN
  BY DEF SignChanges
<1> HIDE DEF b, I
<1>3. S = BOOLEAN <=> (\E i \in I : b(i) = TRUE) /\ (\E i \in I : b(i) = FALSE)
  BY <1>1
<1>4. \A i \in I : (b(i) = TRUE <=> Bit(v, i)) /\ (b(i) = FALSE <=> ~Bit(v, i))
  BY DEF b, Bit
<1> QED BY <1>2, <1>3, <1>4 DEF I

\* The top n + 1 bits of d are clear when d is small.
Clear(n, d, w) ==
  n < w => ((\A i \in (w - 1 - n) .. (w - 1) : ~Bit(d, i)) <=> d < 2 ^ (w - 1 - n))

LEMMA ClearFirst ==
  ASSUME NEW w, IsWidth(w), NEW d \in Span(w)
  PROVE  Clear(0, d, w)
<1>1. w \in Nat \ {0} /\ 0 \in 0 .. w - 1 /\ w - 1 - 0 = w - 1 /\ w - 0 - 1 = w - 1
  BY DEF IsWidth
<1>2. PICK A, B \in Nat \ {0}, u, b, t \in Nat : Taken(d, 0, w, A, B, u, b, t)
  BY <1>1, Parts
<1>3. /\ A = 2 ^ (w - 1) /\ B = 1 /\ d \div A = 2 * t + b
      /\ u < A /\ b \in {0, 1} /\ t < B /\ d = t * (2 * A) + b * A + u
  <2>1. 2 ^ 0 = 1
    <3>1. 0 \in Nat /\ 0 + 0 <= Width(4) + 1
      BY AluAssumption DEF Width
    <3> QED BY <3>1, Powers
  <2>2. B = 2 ^ 0 /\ A = 2 ^ (w - 0 - 1)
    BY <1>2 DEF Taken
  <2> QED BY <1>1, <1>2, <2>1, <2>2 DEF Taken
<1>4. t = 0 /\ d \div A = b /\ d = b * A + u
  <2>1. t = 0
    BY <1>3
  <2>2. 0 * (2 * A) = 0
    OBVIOUS
  <2> QED BY <1>3, <2>1, <2>2
<1>5. d < A <=> b = 0
  BY <1>3, <1>4
<1>6. Bit(d, w - 1) <=> b = 1
  <2>1. d \div 2 ^ (w - 1) = b
    BY <1>3, <1>4
  <2>2. b % 2 = 1 <=> b = 1
    <3>1. b = 0 \/ b = 1
      BY <1>3
    <3> HIDE <1>3, <1>4, <1>5
    <3> QED BY <3>1
  <2> QED BY <2>1, <2>2, Zenon DEF Bit
<1>7. \A i \in (w - 1 - 0) .. (w - 1) : i = w - 1
  BY <1>1
<1>8. w - 1 \in (w - 1 - 0) .. (w - 1)
  BY <1>1
<1>9. (\A i \in (w - 1 - 0) .. (w - 1) : ~Bit(d, i)) <=> ~Bit(d, w - 1)
  BY <1>7, <1>8
<1> QED BY <1>1, <1>3, <1>5, <1>6, <1>9 DEF Clear

LEMMA ClearOn ==
  ASSUME NEW w, IsWidth(w), NEW d \in Span(w), NEW n \in Nat, Clear(n, d, w)
  PROVE  Clear(n + 1, d, w)
<1> SUFFICES ASSUME n + 1 < w PROVE Clear(n + 1, d, w)
  BY DEF Clear
<1> DEFINE k == w - 1 - (n + 1)
<1>1. /\ w \in Nat \ {0} /\ k \in 0 .. w /\ w - 1 - n = k + 1 /\ k \in Nat
      /\ k + 1 <= Width(4) + 1 /\ k <= w - 1 /\ d \in Nat /\ n < w
  BY AluAssumption DEF IsWidth, Width, Span
<1> HIDE DEF k
<1>2. PICK m \in Nat \ {0} : m = 2 ^ k
  BY <1>1, PowerInRange
<1>3. 2 ^ (k + 1) = 2 * m
  <2>1. 2 ^ (k + 1) = 2 ^ k * 2 ^ 1 /\ 2 ^ 1 = 2
    BY <1>1, Powers
  <2>2. 2 ^ (k + 1) = m * 2
    BY <1>2, <2>1
  <2> QED BY <2>2
<1>4. (\A i \in (k + 1) .. (w - 1) : ~Bit(d, i)) <=> d < 2 * m
  <2>1. (\A i \in (w - 1 - n) .. (w - 1) : ~Bit(d, i)) <=> d < 2 ^ (w - 1 - n)
    BY <1>1 DEF Clear
  <2> QED BY <1>1, <1>3, <2>1
<1>5. ASSUME NEW i PROVE i \in k .. (w - 1) <=> i = k \/ i \in (k + 1) .. (w - 1)
  BY <1>1
<1>6. Bit(d, k) <=> (d \div m) % 2 = 1
  BY <1>2, Zenon DEF Bit
<1>7. d < m <=> d < 2 * m /\ ~((d \div m) % 2 = 1)
  <2> DEFINE q == d \div m
             l == d % m
  <2>1. q \in Int /\ l \in Int /\ 0 <= l /\ l < m /\ d = q * m + l
    BY <1>1, DivMod
  <2> HIDE DEF q, l
  <2>2. 1 * m = m /\ 0 * m = 0
    OBVIOUS
  <2>3. d < m => q < 1
    BY <1>1, <2>1, <2>2, Bounds
  <2>4. d < 2 * m => q < 2
    BY <1>1, <2>1, <2>2, Bounds
  <2>5. 0 <= q
    BY <1>1, <2>1, <2>2, Bounds
  <2>6. d < m => q = 0
    BY <2>1, <2>3, <2>5
  <2>7. q = 0 => d < m
    BY <1>1, <2>1, <2>2
  <2>8. d < 2 * m => q = 0 \/ q = 1
    BY <2>1, <2>4, <2>5
  <2>9. d < m => d < 2 * m
    BY <1>1
  <2>10. (q = 0 => ~(q % 2 = 1)) /\ (q = 1 => q % 2 = 1)
    OBVIOUS
  <2>11. d < m <=> d < 2 * m /\ ~(q % 2 = 1)
    BY <2>6, <2>7, <2>8, <2>9, <2>10
  <2> QED BY <2>11 DEF q
<1>8. (\A i \in k .. (w - 1) : ~Bit(d, i)) <=> d < m
  BY <1>4, <1>5, <1>6, <1>7
<1> QED BY <1>2, <1>8 DEF Clear, k

LEMMA AslOnward ==
  ASSUME NEW w, IsWidth(w), NEW d \in Span(w), NEW n \in Nat \ {0}, Clear(n, d, w)
  PROVE  LET r == LslRes(n, d, w)
         IN  (AslSign(1, r, w) \/ AslSign(n, d, w)) <=> AslSign(n + 1, d, w)
<1> DEFINE r == LslRes(n, d, w)
           I == (w - 1 - n) .. (w - 1)
<1>1. w \in Nat \ {0} /\ d \in Nat
  BY DEF IsWidth, Span
<1>2. ASSUME n < w
      PROVE  /\ r \in Span(w) /\ (Bit(r, w - 1) <=> Bit(d, w - 1 - n))
             /\ Up(r, 1, w) = Up(d, n + 1, w)
  <2>1. n \in 0 .. w - 1 /\ n <= w
    BY <1>1, <1>2
  <2>2. r = Up(d, n, w)
    BY <2>1 DEF LslRes
  <2> QED BY <2>1, <2>2, UpOn
<1>3. ASSUME 1 < w, r \in Span(w)
      PROVE  /\ Bit(Up(r, 1, w), w - 1) <=> Bit(r, w - 2)
             /\ AslSign(1, r, w) <=> ~(Bit(r, w - 1) <=> Bit(r, w - 2))
  <2>1. 1 \in 0 .. w - 1 /\ w - 1 - 1 = w - 2
    BY <1>1, <1>3
  <2> HIDE DEF r
  <2>2. Bit(Up(r, 1, w), w - 1) <=> Bit(r, w - 2)
    BY <1>3, <2>1, UpOn
  <2>3. AslSign(1, r, w) <=> SignChanges(r, 1, w)
    BY <1>3 DEF AslSign
  <2>4. ASSUME NEW i PROVE i \in (w - 1 - 1) .. (w - 1) <=> i = w - 2 \/ i = w - 1
    BY <1>1, <2>1
  <2> QED BY <2>2, <2>3, <2>4, BothSigns
<1>4. ASSUME NEW k, k < w PROVE AslSign(k, d, w) <=> SignChanges(d, k, w)
  BY <1>4 DEF AslSign
<1>5. ASSUME NEW k, ~(k < w) PROVE AslSign(k, d, w) <=> d # 0
  BY <1>5 DEF AslSign
<1>6. CASE n + 1 < w
  <2>1. /\ n < w /\ 1 < w /\ n + 1 \in 0 .. w - 1
        /\ w - 1 - n \in I /\ w - 1 - (n + 1) = w - 2 - n
    BY <1>1, <1>6
  <2>2. Bit(Up(d, n + 1, w), w - 1) <=> Bit(d, w - 2 - n)
    BY <2>1, UpOn
  <2>3. AslSign(1, r, w) <=> ~(Bit(d, w - 1 - n) <=> Bit(d, w - 2 - n))
    <3> HIDE DEF r, I
    <3>1. r \in Span(w) /\ (Bit(r, w - 1) <=> Bit(d, w - 1 - n))
      BY <1>2, <2>1
    <3>2. Bit(Up(r, 1, w), w - 1) <=> Bit(d, w - 2 - n)
      BY <1>2, <2>1, <2>2
    <3>3. /\ Bit(Up(r, 1, w), w - 1) <=> Bit(r, w - 2)
          /\ AslSign(1, r, w) <=> ~(Bit(r, w - 1) <=> Bit(r, w - 2))
      BY <1>3, <2>1, <3>1
    <3> QED BY <3>1, <3>2, <3>3, Zenon
  <2>4. AslSign(n, d, w) <=> (\E i \in I : Bit(d, i)) /\ (\E i \in I : ~Bit(d, i))
    BY <1>4, <2>1, BothSigns
  <2> DEFINE J == (w - 1 - (n + 1)) .. (w - 1)
  <2>5. AslSign(n + 1, d, w) <=> (\E i \in J : Bit(d, i)) /\ (\E i \in J : ~Bit(d, i))
    BY <1>4, <1>6, BothSigns
  <2>6. ASSUME NEW i PROVE i \in J <=> i = w - 2 - n \/ i \in I
    BY <1>1, <2>1
  <2> HIDE DEF I, J, r
  <2>7. (\E i \in J : Bit(d, i)) <=> Bit(d, w - 2 - n) \/ (\E i \in I : Bit(d, i))
    BY <2>6
  <2>8. (\E i \in J : ~Bit(d, i)) <=> ~Bit(d, w - 2 - n) \/ (\E i \in I : ~Bit(d, i))
    BY <2>6
  <2>9. /\ Bit(d, w - 1 - n) => \E i \in I : Bit(d, i)
        /\ ~Bit(d, w - 1 - n) => \E i \in I : ~Bit(d, i)
    BY <2>1
  <2>10. Bit(d, w - 1 - n) \in BOOLEAN /\ Bit(d, w - 2 - n) \in BOOLEAN
    BY DEF Bit
  <2>11. (AslSign(1, r, w) \/ AslSign(n, d, w)) <=> AslSign(n + 1, d, w)
    BY <2>3, <2>4, <2>5, <2>7, <2>8, <2>9, <2>10, Zenon
  <2> QED BY <2>11 DEF r
<1>7. CASE n + 1 = w
  <2>1. /\ n < w /\ 1 < w /\ w - 1 \in 0 .. w /\ ~(n + 1 < w)
        /\ w - 1 - n = 0 /\ 0 \in I /\ n \in 0 .. w - 1
    BY <1>1, <1>7
  <2>2. Up(d, n + 1, w) = 0
    BY <1>7, AllOut
  <2>3. ~Bit(Up(d, n + 1, w), w - 1)
    BY <2>1, <2>2, NoBits
  <2>4. AslSign(1, r, w) <=> Bit(d, 0)
    <3> HIDE DEF r, I
    <3>1. r \in Span(w) /\ (Bit(r, w - 1) <=> Bit(d, w - 1 - n))
      BY <1>2, <2>1
    <3>2. ~Bit(Up(r, 1, w), w - 1)
      BY <1>2, <2>1, <2>3
    <3>3. /\ Bit(Up(r, 1, w), w - 1) <=> Bit(r, w - 2)
          /\ AslSign(1, r, w) <=> ~(Bit(r, w - 1) <=> Bit(r, w - 2))
      BY <1>3, <2>1, <3>1
    <3>4. Bit(d, w - 1 - n) <=> Bit(d, 0)
      BY <2>1
    <3> QED BY <3>1, <3>2, <3>3, <3>4, Zenon
  <2>5. AslSign(n, d, w) <=> (\E i \in I : Bit(d, i)) /\ (\E i \in I : ~Bit(d, i))
    BY <1>4, <2>1, BothSigns
  <2>6. AslSign(n + 1, d, w) <=> d # 0
    BY <1>5, <2>1
  <2>7. (\A i \in I : ~Bit(d, i)) <=> d = 0
    <3>1. 2 ^ 0 = 1
      <4>1. 0 \in Nat /\ 0 + 0 <= Width(4) + 1
        BY AluAssumption DEF Width
      <4> QED BY <4>1, Powers
    <3>2. (\A i \in I : ~Bit(d, i)) <=> d < 2 ^ (w - 1 - n)
      BY <2>1 DEF Clear
    <3>3. (\A i \in I : ~Bit(d, i)) <=> d < 1
      <4> HIDE DEF I
      <4> QED BY <2>1, <3>1, <3>2
    <3> QED BY <1>1, <3>3
  <2> HIDE DEF I, r
  <2>8. Bit(d, 0) => \E i \in I : Bit(d, i)
    BY <2>1
  <2>9. ~Bit(d, 0) => \E i \in I : ~Bit(d, i)
    BY <2>1
  <2>10. (AslSign(1, r, w) \/ AslSign(n, d, w)) <=> AslSign(n + 1, d, w)
    BY <2>4, <2>5, <2>6, <2>7, <2>8, <2>9, Zenon
  <2> QED BY <2>10 DEF r
<1>8. CASE n >= w
  <2>1. ~(n < w) /\ ~(n + 1 < w) /\ (n = w \/ ~(n <= w))
    BY <1>1, <1>8
  <2>2. r = 0
    BY <2>1, AllOut DEF LslRes
  <2>3. ~AslSign(1, 0, w)
    <3>1. CASE 1 < w
      <4>1. ASSUME NEW i \in (w - 1 - 1) .. (w - 1) PROVE ~Bit(0, i)
        <5>1. i \in 0 .. w
          BY <1>1, <3>1
        <5> QED BY <5>1, NoBits
      <4>2. ~SignChanges(0, 1, w)
        BY <4>1, BothSigns
      <4> QED BY <3>1, <4>2 DEF AslSign
    <3>2. CASE ~(1 < w)
      BY <3>2 DEF AslSign
    <3> QED BY <3>1, <3>2
  <2>4. (AslSign(n, d, w) <=> d # 0) /\ (AslSign(n + 1, d, w) <=> d # 0)
    BY <1>5, <2>1
  <2> HIDE DEF r
  <2>5. (AslSign(1, r, w) \/ AslSign(n, d, w)) <=> AslSign(n + 1, d, w)
    BY <2>2, <2>3, <2>4
  <2> QED BY <2>5 DEF r
<1> QED BY <1>1, <1>6, <1>7, <1>8

LEMMA AslAdds ==
  ASSUME NEW sz \in Sizes, NEW d \in Word(sz), NEW n \in Nat \ {0}, NEW f, NEW g,
         Clear(n, d, Width(sz))
  PROVE  LET r == asl(n, d, f, sz)
             s == asl(1, r.res, g, sz)
             t == asl(n + 1, d, f, sz)
         IN  Adds(r, s, t) /\ SameCarry(s, t)
<1> DEFINE w == Width(sz)
           r == asl(n, d, f, sz)
           s == asl(1, r.res, g, sz)
           t == asl(n + 1, d, f, sz)
           v == LslRes(n, d, w)
           v2 == LslRes(1, v, w)
           v3 == LslRes(n + 1, d, w)
           c == LslOut(n, d, w)
           c2 == LslOut(1, v, w)
           c3 == LslOut(n + 1, d, w)
           o == AslSign(n, d, w)
           o2 == AslSign(1, v, w)
           o3 == AslSign(n + 1, d, w)
<1>1. IsWidth(w) /\ d \in Span(w) /\ Span(w) = Word(sz) /\ n + 1 \in Nat \ {0} /\ 1 \in Nat \ {0}
  BY OfSize
<1>2. r = Result(v, Codes(c, v, sz, o, c)) /\ c \in BOOLEAN /\ o \in BOOLEAN
  BY AslIs
<1>3. t = Result(v3, Codes(c3, v3, sz, o3, c3)) /\ c3 \in BOOLEAN /\ o3 \in BOOLEAN
  BY <1>1, AslIs
<1>4. r.res = v /\ r.ccr.v = o
  <2> HIDE DEF r, v, c, o
  <2> DEFINE q == r.ccr
  <2>1. r.res = v /\ q = Codes(c, v, sz, o, c)
    BY <1>2, Parted
  <2> HIDE DEF q
  <2>2. q.v = o
    BY <2>1 DEF Codes
  <2> QED BY <2>1, <2>2 DEF q
<1>5. v \in Word(sz)
  <2>1. CASE n < w
    <3>1. n \in 0 .. w - 1 /\ n <= w
      BY <1>1, <2>1 DEF IsWidth
    <3> QED BY <1>1, <3>1, UpOn DEF LslRes
  <2>2. CASE ~(n < w)
    <3>1. n = w \/ ~(n <= w)
      BY <1>1, <2>2 DEF IsWidth
    <3>2. v = 0
      BY <1>1, <3>1, AllOut DEF LslRes
    <3> QED BY <3>2, Widths DEF Word
  <2> QED BY <2>1, <2>2
<1>6. s = Result(v2, Codes(c2, v2, sz, o2, c2)) /\ c2 \in BOOLEAN /\ o2 \in BOOLEAN
  <2> HIDE DEF r, v
  <2> QED BY <1>1, <1>4, <1>5, AslIs
<1>7. v2 = v3 /\ c2 = c3
  BY <1>1, LslOnward
<1>8. o2 \/ o <=> o3
  BY <1>1, AslOnward
<1> HIDE DEF r, s, t, v, v2, v3, c, c2, c3, o, o2, o3
<1>9. (o2 \/ r.ccr.v) = o3
  BY <1>2, <1>3, <1>4, <1>6, <1>8
<1>10. Adds(r, s, t) /\ SameCarry(s, t)
  BY <1>3, <1>6, <1>7, <1>9, AddsUp
<1> QED BY <1>10 DEF r, s, t

----------------------------------------------------------------------------
(* ASR: what leaves beyond the width is the sign.                          *)

Full(v, sz) == IF Msb(v, sz) THEN Mod(sz) - 1 ELSE 0
AsrRes(k, v, sz) == IF k < Width(sz) THEN Low(Down(Signed(v, sz), k), sz) ELSE Full(v, sz)
AsrOut(k, v, sz) == IF k < Width(sz) THEN Bit(v, k - 1) ELSE k = Width(sz) /\ Msb(v, sz)

LEMMA AsrIs ==
  ASSUME NEW sz \in Sizes, NEW k \in Nat \ {0}, NEW v, NEW h
  PROVE  /\ AsrOut(k, v, sz) \in BOOLEAN
         /\ asr(k, v, h, sz)
              = Result(AsrRes(k, v, sz),
                       Codes(AsrOut(k, v, sz), AsrRes(k, v, sz), sz, FALSE, AsrOut(k, v, sz)))
<1> DEFINE w == Width(sz)
<1>1. ~(k = 0) /\ k > 0 /\ w \in Nat
  BY Widths
<1>2. AsrOut(k, v, sz) \in BOOLEAN
  BY Zenon DEF AsrOut, Bit, Msb
<1>3. CASE k < w
  <2>1. ~(k >= w)
    BY <1>1, <1>3
  <2> DEFINE r == Low(Down(Signed(v, sz), k), sz)
  <2>2. asr(k, v, h, sz) = Result(r, Codes(Bit(v, k - 1), r, sz, FALSE, Bit(v, k - 1)))
    BY <1>1, <1>3, <2>1 DEF asr, Down
  <2>3. AsrRes(k, v, sz) = r
    BY <1>3, Zenon DEF AsrRes
  <2>4. AsrOut(k, v, sz) = Bit(v, k - 1)
    BY <1>3, Zenon DEF AsrOut
  <2> QED BY <1>2, <2>2, <2>3, <2>4
<1>4. CASE k >= w
  <2>1. ~(k < w)
    BY <1>1, <1>4
  <2>2. asr(k, v, h, sz)
          = Result(Full(v, sz), Codes(k = w /\ Msb(v, sz), Full(v, sz), sz, FALSE,
                                      k = w /\ Msb(v, sz)))
    BY <1>1, <1>4, <2>1 DEF asr, Full
  <2>3. AsrRes(k, v, sz) = Full(v, sz)
    BY <2>1, Zenon DEF AsrRes
  <2>4. AsrOut(k, v, sz) = (k = w /\ Msb(v, sz))
    BY <2>1, Zenon DEF AsrOut
  <2> DEFINE c == k = w /\ Msb(v, sz)
             full == Full(v, sz)
  <2>5. /\ asr(k, v, h, sz) = Result(full, Codes(c, full, sz, FALSE, c))
        /\ AsrRes(k, v, sz) = full /\ AsrOut(k, v, sz) = c
    BY <2>2, <2>3, <2>4, Zenon
  <2> HIDE DEF c, full
  <2> QED BY <1>2, <2>5
<1>5. k < w \/ k >= w
  <2> HIDE DEF w
  <2> QED BY <1>1
<1> QED BY <1>3, <1>4, <1>5

\* Cutting off at the top, or reading a word with its sign, leaves the bits below.
LEMMA LowParity ==
  ASSUME NEW sz \in Sizes, NEW q \in Int
  PROVE  Bit(Low(q, sz), 0) <=> q % 2 = 1
<1> DEFINE h == Half(sz)
           l == Low(q, sz)
           k == q \div (2 * h)
<1>1. h \in Nat \ {0} /\ Mod(sz) = 2 * h
  BY Widths
<1>2. l \in Int /\ k \in Int /\ q = k * (2 * h) + l
  <2>1. 2 * h \in Nat \ {0}
    BY <1>1
  <2>2. l = q % (2 * h)
    BY <1>1 DEF Low
  <2> QED BY <2>1, <2>2, DivMod
<1>3. Bit(l, 0) <=> l % 2 = 1
  BY <1>2, LowestBit
<1>4. q % 2 = l % 2
  <2> HIDE DEF h, l, k
  <2> DEFINE m == k * h
  <2>1. m \in Int /\ q = l + m * 2
    BY <1>1, <1>2
  <2> HIDE DEF m
  <2>2. (l + m * 2) % 2 = l % 2
    BY <1>2, <2>1, Around
  <2> QED BY <2>1, <2>2
<1> QED BY <1>3, <1>4

LEMMA SignedBit ==
  ASSUME NEW sz \in Sizes, NEW d \in Word(sz), NEW n \in 0 .. Width(sz) - 1
  PROVE  Bit(d, n) <=> Down(Signed(d, sz), n) % 2 = 1
<1> DEFINE w == Width(sz)
           a == Signed(d, sz)
           k == w - n - 1
<1>1. /\ IsWidth(w) /\ n \in Nat /\ k \in Nat /\ n \in 0 .. w /\ k \in 0 .. w
      /\ 1 \in Nat /\ n + 1 <= Width(4) + 1 /\ (n + 1) + k = w /\ w <= Width(4) + 1
      /\ n + 1 \in Nat
  <2>1. IsWidth(w) /\ n \in 0 .. w - 1
    BY OfSize
  <2>2. Width(4) \in Nat
    BY AluAssumption DEF Width
  <2> HIDE DEF w
  <2>3. w \in Nat \ {0} /\ w <= Width(4) + 1 /\ k = w - n - 1
    BY <2>1 DEF IsWidth
  <2> HIDE DEF k
  <2> QED BY <2>1, <2>2, <2>3
<1>2. PICK m \in Nat \ {0} : m = 2 ^ n
  BY <1>1, PowerInRange
<1>3. PICK x \in Nat \ {0} : x = 2 ^ k
  BY <1>1, PowerInRange
<1>4. Mod(sz) = (x * 2) * m
  <2>1. 2 ^ (n + 1) = 2 ^ n * 2 ^ 1 /\ 2 ^ 1 = 2
    BY <1>1, Powers
  <2>2. 2 ^ (n + 1) = m * 2
    BY <1>2, <2>1
  <2>3. 2 ^ ((n + 1) + k) = 2 ^ (n + 1) * 2 ^ k
    <3> DEFINE j == n + 1
    <3>1. j \in Nat /\ j + k <= Width(4) + 1
      BY <1>1
    <3> HIDE DEF j
    <3>2. 2 ^ (j + k) = 2 ^ j * 2 ^ k
      BY <1>1, <3>1, Powers
    <3> QED BY <3>2 DEF j
  <2>4. 2 ^ ((n + 1) + k) = 2 ^ w
    BY <1>1
  <2>5. Mod(sz) = 2 ^ w
    BY OfSize
  <2>6. Mod(sz) = (m * 2) * x
    BY <1>3, <2>2, <2>3, <2>4, <2>5
  <2> QED BY <2>6
<1>5. a \in Int /\ d \in Int /\ (d = a \/ d = a + Mod(sz))
  <2>1. Half(sz) \in Nat /\ Mod(sz) = 2 * Half(sz)
    BY Widths
  <2>2. a = (IF d >= Half(sz) THEN d - 2 * Half(sz) ELSE d)
    BY TopBit
  <2>3. d \in Int
    BY DEF Word
  <2> HIDE DEF a
  <2> QED BY <2>1, <2>2, <2>3
<1> HIDE DEF a, w, k
<1>6. Down(d, n) = d \div m /\ Down(a, n) = a \div m
  BY <1>2 DEF Down
<1>7. a \div m \in Int
  BY <1>5, DivMod
<1>8. d \div m = a \div m \/ d \div m = a \div m + x * 2
  <2>1. x * 2 \in Int
    OBVIOUS
  <2>2. (a + (x * 2) * m) \div m = a \div m + x * 2
    BY <1>5, <2>1, Around
  <2> QED BY <1>4, <1>5, <2>2
<1>9. (a \div m + x * 2) % 2 = (a \div m) % 2
  <2> DEFINE q == a \div m
  <2>1. q \in Int /\ x \in Int
    BY <1>7
  <2> HIDE DEF q
  <2>2. (q + x * 2) % 2 = q % 2
    BY <2>1, Around
  <2> QED BY <2>2 DEF q
<1>10. (d \div m) % 2 = (a \div m) % 2
  BY <1>8, <1>9
<1>11. Bit(d, n) <=> Down(d, n) % 2 = 1
  BY Zenon DEF Bit, Down
<1> QED BY <1>6, <1>10, <1>11 DEF a

\* Shifted to the right a signed number stays in range and keeps its sign.
LEMMA AsrRange ==
  ASSUME NEW sz \in Sizes, NEW d \in Word(sz), NEW n \in 0 .. Width(sz) - 1
  PROVE  LET q == Down(Signed(d, sz), n) IN
         /\ q \in Int /\ -Half(sz) <= q /\ q < Half(sz)
         /\ q < 0 <=> Msb(d, sz)
<1> DEFINE h == Half(sz)
           a == Signed(d, sz)
           q == Down(a, n)
<1>1. h \in Nat \ {0} /\ a \in Int /\ -h <= a /\ a < h /\ (a < 0 <=> Msb(d, sz))
  <2>1. h \in Nat \ {0}
    BY Widths
  <2>2. d \in Int /\ 0 <= d /\ d < 2 * h
    BY Widths DEF Word
  <2>3. (Msb(d, sz) <=> d >= h) /\ a = IF d >= h THEN d - 2 * h ELSE d
    BY TopBit
  <2> HIDE DEF h, a
  <2>4. CASE d >= h
    BY <2>1, <2>2, <2>3, <2>4
  <2>5. CASE ~(d >= h)
    BY <2>1, <2>2, <2>3, <2>5
  <2> QED BY <2>4, <2>5
<1>2. PICK m \in Nat \ {0} : m = 2 ^ n
  <2>1. IsWidth(Width(sz)) /\ n \in 0 .. Width(sz)
    BY OfSize DEF IsWidth
  <2> QED BY <2>1, PowerInRange
<1>3. q = a \div m
  BY <1>2 DEF Down
<1> HIDE DEF h, a, q
<1> DEFINE l == a % m
<1>4. q \in Int /\ l \in Int /\ 0 <= l /\ l < m /\ a = q * m + l
  BY <1>1, <1>3, DivMod
<1> HIDE DEF l
<1>5. /\ q * m + l < h * m => q < h
      /\ (-h) * m <= q * m + l => -h <= q
      /\ q * m + l < 0 * m => q < 0
      /\ 0 * m <= q * m + l => 0 <= q
  <2>1. -h \in Int /\ h \in Int /\ 0 \in Int
    BY <1>1
  <2> QED BY <1>4, <2>1, Bounds
<1>6. h <= h * m /\ (-h) * m <= -h /\ h * m \in Int /\ (-h) * m \in Int /\ 0 * m = 0
  BY <1>1
<1>7. /\ a < h * m => q < h
      /\ (-h) * m <= a => -h <= q
      /\ a < 0 => q < 0
      /\ 0 <= a => 0 <= q
  BY <1>4, <1>5, <1>6
<1> HIDE <1>4, <1>5
<1>8. q \in Int
  BY <1>4
<1>9. q < h /\ -h <= q /\ (q < 0 <=> a < 0)
  <2> DEFINE x == h * m
             y == (-h) * m
  <2>1. /\ x \in Int /\ y \in Int /\ h <= x /\ y <= -h
        /\ a < x => q < h
        /\ y <= a => -h <= q
    BY <1>6, <1>7
  <2> HIDE DEF x, y
  <2> HIDE <1>6, <1>7
  <2>2. (a < 0 => q < 0) /\ (0 <= a => 0 <= q)
    BY <1>7
  <2> QED BY <1>1, <1>8, <2>1, <2>2
<1> QED BY <1>1, <1>8, <1>9 DEF h, q, a

\* What is left when all of a word is out: its sign in every bit.
LEMMA FullIs ==
  ASSUME NEW sz \in Sizes, NEW d, Msb(d, sz) \in BOOLEAN
  PROVE  LET q == IF Msb(d, sz) THEN -1 ELSE 0
             r == Full(d, sz)
         IN /\ r \in Word(sz) /\ r = Low(q, sz) /\ Signed(r, sz) = q
            /\ Full(r, sz) = r
            /\ q \div 2 = q /\ (q % 2 = 1 <=> Msb(d, sz))
<1> DEFINE h == Half(sz)
           q == IF Msb(d, sz) THEN -1 ELSE 0
           r == Full(d, sz)
<1>1. h \in Nat \ {0} /\ Mod(sz) = 2 * h
  BY Widths
<1>2. q \in Int /\ -h <= q /\ q < h
  BY <1>1
<1>3. r = Low(q, sz)
  <2>1. 2 * h \in Nat \ {0} /\ 0 < 2 * h
    BY <1>1
  <2>2. (-1) % (2 * h) = 2 * h - 1 /\ 0 % (2 * h) = 0
    <3> DEFINE m == 2 * h
    <3>1. m \in Nat \ {0}
      BY <2>1
    <3> HIDE DEF m
    <3>2. (-1) % m = m - 1 /\ 0 % m = 0
      BY <3>1
    <3> QED BY <3>2 DEF m
  <2> HIDE DEF h
  <2>3. CASE Msb(d, sz)
    <3>1. q = -1 /\ r = Mod(sz) - 1
      BY <2>3 DEF Full
    <3> HIDE DEF q, r
    <3> QED BY <1>1, <2>2, <3>1 DEF Low
  <2>4. CASE ~Msb(d, sz)
    <3>1. q = 0 /\ r = 0
      BY <2>4 DEF Full
    <3> HIDE DEF q, r
    <3> QED BY <1>1, <2>2, <3>1 DEF Low
  <2> QED BY <2>3, <2>4
<1>4. r \in Word(sz) /\ Signed(r, sz) = q
  <2> HIDE DEF q, r
  <2> QED BY <1>2, <1>3, Fits DEF h
<1>5. Msb(r, sz) <=> Msb(d, sz)
  <2>1. r \in Int /\ 0 <= r /\ r < 2 * h
    BY <1>1, <1>4 DEF Word
  <2>2. (Msb(r, sz) <=> r >= h) /\ q = IF r >= h THEN r - 2 * h ELSE r
    BY <1>4, TopBit
  <2>3. q < 0 <=> Msb(d, sz)
    OBVIOUS
  <2> HIDE DEF q, r, h
  <2>4. r >= h <=> q < 0
    BY <1>1, <1>2, <2>1, <2>2
  <2> QED BY <2>2, <2>3, <2>4, Zenon
<1>6. Full(r, sz) = r
  BY <1>5, Zenon DEF Full
<1>7. q \div 2 = q /\ (q % 2 = 1 <=> Msb(d, sz))
  <2>3. /\ (-1) \div 2 = -1 /\ (-1) % 2 = 1
        /\ 0 \div 2 = 0 /\ 0 % 2 = 0
    <3>1. ASSUME NEW y \in -1 .. 0 PROVE y \div 2 = y /\ y % 2 = -y
      OBVIOUS
    <3> QED BY <3>1
  <2>1. CASE Msb(d, sz)
    <3>1. q = -1
      BY <2>1
    <3> HIDE DEF q
    <3> QED BY <2>3, <2>1, <3>1
  <2>2. CASE ~Msb(d, sz)
    <3>1. q = 0
      BY <2>2
    <3> HIDE DEF q
    <3> QED BY <2>3, <2>2, <3>1
  <2> QED BY <2>1, <2>2
<1> QED BY <1>3, <1>4, <1>6, <1>7

LEMMA AsrOnward ==
  ASSUME NEW sz \in Sizes, NEW d \in Word(sz), NEW n \in Nat \ {0}
  PROVE  LET r == AsrRes(n, d, sz) IN
         /\ AsrRes(1, r, sz) = AsrRes(n + 1, d, sz)
         /\ n + 1 <= Width(sz) => AsrOut(1, r, sz) = AsrOut(n + 1, d, sz)
<1> DEFINE w == Width(sz)
           a == Signed(d, sz)
           q == Down(a, n)
           r == AsrRes(n, d, sz)
<1>1. w \in Nat \ {0} /\ IsWidth(w) /\ 1 - 1 = 0 /\ a \in Int /\ n + 1 \in Nat
  <2>1. d \in Int
    BY DEF Word
  <2> QED BY <2>1, OfSize, SignedRange DEF IsWidth
<1>2. ASSUME NEW v PROVE Down(v, 1) = v \div 2
  BY PowersAssumption DEF Down
<1>3. Msb(d, sz) \in BOOLEAN
  BY Zenon DEF Msb, Bit
<1>4. CASE n < w
  <2>1. n \in 0 .. w - 1 /\ n + 1 - 1 = n
    BY <1>1, <1>4
  <2>2. q \in Int /\ -Half(sz) <= q /\ q < Half(sz) /\ (q < 0 <=> Msb(d, sz))
    BY <2>1, AsrRange
  <2>3. r = Low(q, sz)
    BY <1>4, Zenon DEF AsrRes
  <2> HIDE DEF q, r
  <2>4. Signed(r, sz) = q /\ r \in Word(sz)
    BY <2>2, <2>3, Fits
  <2>5. 1 < w
    BY <1>1, <1>4
  <2>6. AsrRes(1, r, sz) = Low(q \div 2, sz)
    <3>1. AsrRes(1, r, sz) = Low(Down(Signed(r, sz), 1), sz)
      BY <2>5, Zenon DEF AsrRes
    <3> QED BY <1>2, <2>4, <3>1
  <2>7. AsrOut(1, r, sz) <=> q % 2 = 1
    <3>1. AsrOut(1, r, sz) <=> Bit(r, 0)
      BY <1>1, <2>5, Zenon DEF AsrOut
    <3>2. Bit(r, 0) <=> q % 2 = 1
      BY <2>2, <2>3, LowParity
    <3> QED BY <3>1, <3>2, Zenon
  <2>8. CASE n + 1 < w
    <3>1. q \div 2 = Down(a, n + 1)
      BY <1>1, <2>1, DownOn DEF q
    <3>2. AsrRes(n + 1, d, sz) = Low(Down(a, n + 1), sz)
      BY <2>8, Zenon DEF AsrRes
    <3>3. AsrOut(n + 1, d, sz) <=> Bit(d, n)
      <4>1. ASSUME NEW k, k < w, k - 1 = n PROVE AsrOut(k, d, sz) <=> Bit(d, n)
        BY <4>1, Zenon DEF AsrOut
      <4> HIDE DEF w
      <4>2. n + 1 < w /\ (n + 1) - 1 = n
        BY <2>8
      <4> QED BY <4>1, <4>2
    <3>4. Bit(d, n) <=> q % 2 = 1
      BY <2>1, SignedBit DEF q
    <3>5. AsrOut(1, r, sz) \in BOOLEAN /\ AsrOut(n + 1, d, sz) \in BOOLEAN
      BY Zenon DEF AsrOut, Bit, Msb
    <3>6. AsrOut(1, r, sz) = AsrOut(n + 1, d, sz)
      <4> DEFINE c2 == AsrOut(1, r, sz)
                 c3 == AsrOut(n + 1, d, sz)
      <4>1. c2 \in BOOLEAN /\ c3 \in BOOLEAN /\ (c2 <=> c3)
        <5> DEFINE e == q % 2 = 1
        <5>1. (AsrOut(1, r, sz) <=> e) /\ (AsrOut(n + 1, d, sz) <=> e)
          BY <2>7, <3>3, <3>4, Zenon
        <5> QED BY <3>5, <5>1, Zenon
      <4> HIDE DEF c2, c3
      <4>2. c2 = c3
        BY <4>1
      <4> QED BY <4>2 DEF c2, c3
    <3> QED BY <2>6, <3>1, <3>2, <3>6 DEF r
  <2>9. CASE n + 1 = w
    <3> DEFINE p == IF Msb(d, sz) THEN -1 ELSE 0
    <3>1. ~(n + 1 < w)
      BY <1>1, <2>9
    <3>2. q = p
      <4>1. Down(a, n) = p
        <5> DEFINE h == Half(sz)
        <5>1. h \in Nat \ {0} /\ -h <= a /\ a < h
          <6>1. d \in Int
            BY DEF Word
          <6> QED BY <6>1, Widths, SignedRange
        <5>2. 2 ^ n = h
          <6>1. n = w - 1
            BY <1>1, <2>9
          <6> QED BY <6>1 DEF Half
        <5>3. q = a \div h
          BY <5>2 DEF q, Down
        <5> HIDE DEF h, a
        <5>4. CASE a >= 0
          <6>1. 0 * h <= a /\ a < 0 * h + h /\ 0 \in Int
            BY <1>1, <5>1, <5>4
          <6>2. q = 0
            BY <1>1, <5>1, <5>3, <6>1, Part
          <6> QED BY <2>2, <6>2 DEF q, a
        <5>5. CASE ~(a >= 0)
          <6>1. (-1) * h <= a /\ a < (-1) * h + h /\ -1 \in Int
            BY <1>1, <5>1, <5>5
          <6>2. q = -1
            BY <1>1, <5>1, <5>3, <6>1, Part
          <6> QED BY <2>2, <6>2 DEF q, a
        <5> QED BY <5>4, <5>5
      <4> QED BY <4>1 DEF q
    <3>3. Full(d, sz) = Low(p, sz) /\ p \div 2 = p /\ (p % 2 = 1 <=> Msb(d, sz))
      BY <1>3, FullIs
    <3>4. AsrRes(n + 1, d, sz) = Full(d, sz)
      BY <3>1, Zenon DEF AsrRes
    <3>5. AsrOut(n + 1, d, sz) <=> Msb(d, sz)
      BY <2>9, <3>1, Zenon DEF AsrOut
    <3>6. AsrOut(1, r, sz) \in BOOLEAN /\ AsrOut(n + 1, d, sz) \in BOOLEAN
      BY Zenon DEF AsrOut, Bit, Msb
    <3> HIDE DEF p
    <3>7. AsrOut(1, r, sz) = AsrOut(n + 1, d, sz)
      <4>1. q % 2 = 1 <=> Msb(d, sz)
        BY <3>2, <3>3
      <4> DEFINE c2 == AsrOut(1, r, sz)
                 c3 == AsrOut(n + 1, d, sz)
      <4>2. c2 \in BOOLEAN /\ c3 \in BOOLEAN /\ (c2 <=> c3)
        BY <2>7, <3>5, <3>6, <4>1, Zenon
      <4> HIDE DEF c2, c3
      <4>3. c2 = c3
        BY <4>2
      <4> QED BY <4>3 DEF c2, c3
    <3>8. AsrRes(1, r, sz) = AsrRes(n + 1, d, sz)
      BY <2>6, <3>2, <3>3, <3>4
    <3> QED BY <3>7, <3>8 DEF r
  <2> QED BY <1>1, <1>4, <2>8, <2>9
<1>5. CASE ~(n < w)
  <2> DEFINE p == IF Msb(d, sz) THEN -1 ELSE 0
  <2>1. ~(n + 1 < w) /\ ~(n + 1 <= w)
    BY <1>1, <1>5
  <2>2. r = Full(d, sz) /\ AsrRes(n + 1, d, sz) = Full(d, sz)
    BY <1>5, <2>1, Zenon DEF AsrRes
  <2>3. /\ Full(d, sz) = Low(p, sz) /\ Signed(Full(d, sz), sz) = p
        /\ Full(Full(d, sz), sz) = Full(d, sz) /\ p \div 2 = p
    BY <1>3, FullIs
  <2> HIDE DEF p, r
  <2>4. AsrRes(1, r, sz) = IF 1 < w THEN Low(Down(Signed(r, sz), 1), sz) ELSE Full(r, sz)
    BY Zenon DEF AsrRes
  <2>5. Low(Down(Signed(r, sz), 1), sz) = Full(d, sz)
    BY <1>2, <2>2, <2>3
  <2>6. AsrRes(1, r, sz) = AsrRes(n + 1, d, sz)
    BY <2>2, <2>3, <2>4, <2>5
  <2> QED BY <2>1, <2>6 DEF r
<1> QED BY <1>4, <1>5

LEMMA AsrAdds ==
  ASSUME NEW sz \in Sizes, NEW d \in Word(sz), NEW n \in Nat \ {0}, NEW f, NEW g
  PROVE  LET r == asr(n, d, f, sz)
             s == asr(1, r.res, g, sz)
             t == asr(n + 1, d, f, sz)
         IN  Adds(r, s, t) /\ (n + 1 <= Width(sz) => SameCarry(s, t))
<1> DEFINE w == Width(sz)
           r == asr(n, d, f, sz)
           s == asr(1, r.res, g, sz)
           t == asr(n + 1, d, f, sz)
           v == AsrRes(n, d, sz)
           v2 == AsrRes(1, v, sz)
           v3 == AsrRes(n + 1, d, sz)
           c == AsrOut(n, d, sz)
           c2 == AsrOut(1, v, sz)
           c3 == AsrOut(n + 1, d, sz)
<1>1. n + 1 \in Nat \ {0} /\ 1 \in Nat \ {0}
  OBVIOUS
<1>2. r = Result(v, Codes(c, v, sz, FALSE, c)) /\ c \in BOOLEAN
  BY AsrIs
<1>3. t = Result(v3, Codes(c3, v3, sz, FALSE, c3)) /\ c3 \in BOOLEAN
  BY <1>1, AsrIs
<1>4. r.res = v /\ r.ccr.v = FALSE
  <2> HIDE DEF r, v, c
  <2> DEFINE z == r.ccr
  <2>1. r.res = v /\ z = Codes(c, v, sz, FALSE, c)
    BY <1>2, Parted
  <2> HIDE DEF z
  <2>2. z.v = FALSE
    BY <2>1 DEF Codes
  <2> QED BY <2>1, <2>2 DEF z
<1>5. s = Result(v2, Codes(c2, v2, sz, FALSE, c2)) /\ c2 \in BOOLEAN
  <2> HIDE DEF r, v
  <2> QED BY <1>1, <1>4, AsrIs
<1>6. v2 = v3 /\ (n + 1 <= w => c2 = c3)
  BY AsrOnward
<1> HIDE DEF r, s, t, v, v2, v3, c, c2, c3
<1>7. (FALSE \/ r.ccr.v) = FALSE
  BY <1>4
<1>8. Adds(r, s, t) /\ (c2 = c3 => SameCarry(s, t))
  BY <1>3, <1>5, <1>6, <1>7, AddsUp
<1> QED BY <1>6, <1>8 DEF r, s, t

----------------------------------------------------------------------------
(* ROL and ROR: X stays.                                                   *)

\* The places of a rotation count modulo the width.
LEMMA Places ==
  ASSUME NEW w \in Nat \ {0}, NEW n \in Nat
  PROVE  /\ n % w \in 0 .. w - 1 /\ (w - n) % w \in 0 .. w - 1
         /\ ((n % w) + 1) % w = (n + 1) % w
         /\ (((w - n) % w) - 1) % w = (w - (n + 1)) % w
         /\ (w - ((w - n) % w)) % w = n % w
<1> DEFINE i == n % w
           k == n \div w
           j == (w - n) % w
           m == (w - n) \div w
<1>1. i \in Int /\ 0 <= i /\ i < w /\ k \in Int /\ n = k * w + i
  BY DivMod
<1>2. j \in Int /\ 0 <= j /\ j < w /\ m \in Int /\ w - n = m * w + j
  <2>1. w - n \in Int
    OBVIOUS
  <2> DEFINE z == w - n
  <2> HIDE DEF z
  <2>2. /\ z \in Int => /\ z \div w \in Int /\ z % w \in Int /\ 0 <= z % w /\ z % w < w
                        /\ z = (z \div w) * w + (z % w)
    BY DivMod
  <2> QED BY <2>1, <2>2 DEF z
<1>3. (i + 1) % w = (n + 1) % w
  <2> HIDE DEF i, k
  <2>1. i + 1 \in Int /\ n + 1 = (i + 1) + k * w
    BY <1>1
  <2>2. ((i + 1) + k * w) % w = (i + 1) % w
    <3> DEFINE z == i + 1
    <3>1. z \in Int
      BY <2>1
    <3> HIDE DEF z
    <3>2. (z + k * w) % w = z % w
      BY <1>1, <3>1, Around
    <3> QED BY <3>2 DEF z
  <2> QED BY <2>1, <2>2
<1>4. (j - 1) % w = (w - (n + 1)) % w
  <2> HIDE DEF j, m
  <2>1. j - 1 \in Int /\ w - (n + 1) = (j - 1) + m * w
    BY <1>2
  <2>2. ((j - 1) + m * w) % w = (j - 1) % w
    <3> DEFINE z == j - 1
    <3>1. z \in Int
      BY <2>1
    <3> HIDE DEF z
    <3>2. (z + m * w) % w = z % w
      BY <1>2, <3>1, Around
    <3> QED BY <3>2 DEF z
  <2> QED BY <2>1, <2>2
<1>5. (w - j) % w = n % w
  <2> HIDE DEF j, m
  <2>1. w - j = n + m * w
    BY <1>2
  <2>2. n \in Int /\ m \in Int
    BY <1>2
  <2> HIDE <1>2
  <2>3. (n + m * w) % w = n % w
    BY <2>2, Around
  <2> QED BY <2>1, <2>3
<1> HIDE DEF i, j
<1>6. i \in 0 .. w - 1 /\ j \in 0 .. w - 1
  BY <1>1, <1>2
<1> QED BY <1>3, <1>4, <1>5, <1>6 DEF i, j

\* The lowest bit of a rotated word is the last one to come around.
LEMMA LowestTurned ==
  ASSUME NEW w, IsWidth(w), NEW d \in Span(w), NEW j \in 0 .. w - 1
  PROVE  Bit(RotL(d, j, w), 0) <=> Bit(d, (w - j) % w)
<1>1. w \in Nat \ {0} /\ d \in Int /\ j \in Nat
  BY DEF IsWidth, Span
<1>2. CASE j = 0
  <2>1. (w - j) % w = 0
    BY <1>1, <1>2
  <2>2. RotL(d, j, w) = d
    BY <1>2, RotateNone
  <2> QED BY <2>1, <2>2
<1>3. CASE j > 0
  <2>1. (w - j) % w = w - j
    BY <1>1, <1>3
  <2>2. PICK A, B \in Nat \ {0}, u, b, t \in Nat : Taken(d, j, w, A, B, u, b, t)
    BY Parts
  <2>3. /\ B = 2 ^ j /\ 2 ^ (w - j) = 2 * A
        /\ u < A /\ b \in {0, 1}
        /\ d = t * (2 * A) + b * A + u
        /\ RotL(d, j, w) = (b * A + u) * B + t
    BY <2>2 DEF Taken
  <2>4. PICK C \in Nat : B = C * 2
    <3> DEFINE i == j - 1
    <3>1. i \in Nat /\ 1 \in Nat /\ i + 1 <= Width(4) + 1 /\ i + 1 = j
      BY <1>1, <1>3, AluAssumption DEF IsWidth, Width
    <3> HIDE DEF i
    <3>2. 2 ^ i \in Nat /\ 2 ^ (i + 1) = 2 ^ i * 2 ^ 1 /\ 2 ^ 1 = 2
      BY <3>1, Powers
    <3>3. 2 ^ j = 2 ^ i * 2
      <4>1. 2 ^ j = 2 ^ (i + 1)
        BY <3>1
      <4> QED BY <3>2, <4>1
    <3>4. B = 2 ^ i * 2
      BY <2>3, <3>3
    <3> QED BY <3>2, <3>4
  <2> DEFINE x == b * A + u
             y == x * B + t
  <2>5. x \in Nat /\ x < 2 * A /\ d = t * (2 * A) + x
    <3>1. u < A /\ b \in {0, 1} /\ d = t * (2 * A) + b * A + u
      BY <2>3
    <3>2. CASE b = 0
      BY <3>1, <3>2
    <3>3. CASE b = 1
      BY <3>1, <3>3
    <3> QED BY <3>1, <3>2, <3>3
  <2> HIDE DEF x
  <2>6. d \div (2 * A) = t
    <3> DEFINE a == 2 * A
    <3>1. a \in Nat \ {0} /\ d = t * a + x /\ x < a
      BY <2>5
    <3> HIDE DEF a
    <3>2. t * a <= d /\ d < t * a + a
      BY <2>5, <3>1
    <3> HIDE <2>5
    <3>3. d \div a = t
      BY <1>1, <3>1, <3>2, Part
    <3> QED BY <3>3 DEF a
  <2>7. Bit(d, w - j) <=> t % 2 = 1
    <3>1. d \div 2 ^ (w - j) = t
      BY <2>3, <2>6
    <3> QED BY <3>1, Zenon DEF Bit
  <2>8. y \in Int /\ y % 2 = t % 2
    <3> DEFINE z == x * C
    <3>1. z \in Int /\ y = t + z * 2
      <4>1. x \in Nat
        BY <2>5
      <4> QED BY <2>4, <4>1
    <3> HIDE DEF z, y
    <3>2. (t + z * 2) % 2 = t % 2
      BY <3>1, Around
    <3> QED BY <3>1, <3>2
  <2>9. RotL(d, j, w) = y
    BY <2>3 DEF x
  <2> HIDE DEF y
  <2>10. Bit(y, 0) <=> t % 2 = 1
    BY <2>8, LowestBit
  <2> QED BY <2>1, <2>7, <2>9, <2>10
<1> QED BY <1>1, <1>2, <1>3

LEMMA RolAdds ==
  ASSUME NEW sz \in Sizes, NEW d \in Word(sz), NEW n \in Nat \ {0},
         NEW f \in CCR, NEW g, g.x = rol(n, d, f, sz).ccr.x
  PROVE  LET r == rol(n, d, f, sz)
             s == rol(1, r.res, g, sz)
             t == rol(n + 1, d, f, sz)
         IN  Adds(r, s, t) /\ SameCarry(s, t)
<1> DEFINE w == Width(sz)
           r == rol(n, d, f, sz)
           s == rol(1, r.res, g, sz)
           t == rol(n + 1, d, f, sz)
           v == RotL(d, n % w, w)
           v2 == RotL(v, 1 % w, w)
           v3 == RotL(d, (n + 1) % w, w)
           c == Bit(v, 0)
           c2 == Bit(v2, 0)
           c3 == Bit(v3, 0)
<1>1. IsWidth(w) /\ d \in Span(w) /\ w \in Nat \ {0} /\ ~(n = 0) /\ ~(n + 1 = 0) /\ ~(1 = 0)
  BY OfSize DEF IsWidth
<1>2. c \in BOOLEAN /\ c2 \in BOOLEAN /\ c3 \in BOOLEAN
  BY Zenon DEF Bit
<1>3. r = Result(v, Codes(f.x, v, sz, FALSE, c))
  BY <1>1, Zenon DEF rol
<1>4. t = Result(v3, Codes(f.x, v3, sz, FALSE, c3))
  BY <1>1, Zenon DEF rol
<1>5. r.res = v /\ r.ccr.v = FALSE /\ r.ccr.x = f.x
  <2> HIDE DEF r, v, c
  <2> DEFINE q == r.ccr
  <2>1. r.res = v /\ q = Codes(f.x, v, sz, FALSE, c)
    BY <1>3, Parted
  <2> HIDE DEF q
  <2>2. q.v = FALSE /\ q.x = f.x
    BY <2>1 DEF Codes
  <2> QED BY <2>1, <2>2 DEF q
<1>6. s = Result(v2, Codes(g.x, v2, sz, FALSE, c2))
  <2>1. s = rol(1, v, g, sz)
    <3> HIDE DEF r, v
    <3> QED BY <1>5
  <2> QED BY <1>1, <2>1, Zenon DEF rol
<1>7. v2 = v3
  <2>1. n % w \in 0 .. w - 1 /\ ((n % w) + 1) % w = (n + 1) % w
    BY <1>1, Places
  <2> QED BY <1>1, <2>1, RotateOn
<1>8. c2 = c3
  BY <1>7
<1>9. g.x = f.x /\ f.x \in BOOLEAN
  BY <1>5 DEF CCR
<1> HIDE DEF r, s, t, v, v2, v3, c, c2, c3
<1>10. (FALSE \/ r.ccr.v) = FALSE
  BY <1>5
<1>11. Adds(r, s, t) /\ SameCarry(s, t)
  <2> DEFINE x == f.x
             x2 == g.x
  <2>1. x = x2 /\ x \in BOOLEAN
    BY <1>9
  <2>2. /\ s = Result(v2, Codes(x2, v2, sz, FALSE, c2))
        /\ t = Result(v3, Codes(x, v3, sz, FALSE, c3))
    BY <1>4, <1>6
  <2> HIDE DEF x, x2
  <2> QED BY <1>2, <1>7, <1>8, <1>10, <2>1, <2>2, AddsUp
<1> QED BY <1>11 DEF r, s, t

LEMMA RorAdds ==
  ASSUME NEW sz \in Sizes, NEW d \in Word(sz), NEW n \in Nat \ {0},
         NEW f \in CCR, NEW g, g.x = ror(n, d, f, sz).ccr.x
  PROVE  LET r == ror(n, d, f, sz)
             s == ror(1, r.res, g, sz)
             t == ror(n + 1, d, f, sz)
         IN  Adds(r, s, t) /\ SameCarry(s, t)
<1> DEFINE w == Width(sz)
           r == ror(n, d, f, sz)
           s == ror(1, r.res, g, sz)
           t == ror(n + 1, d, f, sz)
           v == RotL(d, (w - n) % w, w)
           v2 == RotL(v, (w - 1) % w, w)
           v3 == RotL(d, (w - (n + 1)) % w, w)
           c == Bit(d, (n - 1) % w)
           c2 == Bit(v, 0)
           c3 == Bit(d, n % w)
<1>1. /\ IsWidth(w) /\ d \in Span(w) /\ w \in Nat \ {0} /\ ~(n = 0) /\ ~(n + 1 = 0)
      /\ ~(1 = 0) /\ (n + 1) - 1 = n
  BY OfSize DEF IsWidth
<1>2. c \in BOOLEAN /\ c2 \in BOOLEAN /\ c3 \in BOOLEAN
  BY Zenon DEF Bit
<1>3. r = Result(v, Codes(f.x, v, sz, FALSE, c))
  BY <1>1, Zenon DEF ror
<1>4. t = Result(v3, Codes(f.x, v3, sz, FALSE, c3))
  BY <1>1, Zenon DEF ror
<1>5. r.res = v /\ r.ccr.v = FALSE /\ r.ccr.x = f.x
  <2> HIDE DEF r, v, c
  <2> DEFINE q == r.ccr
  <2>1. r.res = v /\ q = Codes(f.x, v, sz, FALSE, c)
    BY <1>3, Parted
  <2> HIDE DEF q
  <2>2. q.v = FALSE /\ q.x = f.x
    BY <2>1 DEF Codes
  <2> QED BY <2>1, <2>2 DEF q
<1>6. s = Result(v2, Codes(g.x, v2, sz, FALSE, c2))
  <2>1. s = ror(1, v, g, sz)
    <3> HIDE DEF r, v
    <3> QED BY <1>5
  <2>2. (1 - 1) % w = 0
    BY <1>1
  <2> QED BY <1>1, <2>1, <2>2, Zenon DEF ror
<1> DEFINE j == (w - n) % w
<1>7. /\ j \in 0 .. w - 1 /\ (j - 1) % w = (w - (n + 1)) % w
      /\ (w - j) % w = n % w
  BY <1>1, Places
<1>8. v2 = v3
  BY <1>1, <1>7, RotateBack
<1>9. c2 = c3
  <2> HIDE DEF j
  <2>1. Bit(RotL(d, j, w), 0) <=> Bit(d, (w - j) % w)
    BY <1>1, <1>7, LowestTurned
  <2>2. c2 <=> c3
    BY <1>7, <2>1, Zenon DEF j
  <2> HIDE DEF c2, c3
  <2> QED BY <1>2, <2>2
<1>10. g.x = f.x /\ f.x \in BOOLEAN
  BY <1>5 DEF CCR
<1> HIDE DEF r, s, t, v, v2, v3, c, c2, c3
<1>11. (FALSE \/ r.ccr.v) = FALSE
  BY <1>5
<1>12. Adds(r, s, t) /\ SameCarry(s, t)
  <2> DEFINE x == f.x
             x2 == g.x
  <2>1. x = x2 /\ x \in BOOLEAN
    BY <1>10
  <2>2. /\ s = Result(v2, Codes(x2, v2, sz, FALSE, c2))
        /\ t = Result(v3, Codes(x, v3, sz, FALSE, c3))
    BY <1>4, <1>6
  <2> HIDE DEF x, x2
  <2> QED BY <1>2, <1>8, <1>9, <1>11, <2>1, <2>2, AddsUp
<1> QED BY <1>12 DEF r, s, t

----------------------------------------------------------------------------
(* ROXL and ROXR: X is a bit of the word that turns.                       *)

LEMMA Joined ==
  ASSUME NEW sz \in Sizes, NEW d \in Word(sz), NEW f, f.x \in BOOLEAN
  PROVE  WithX(d, f, sz) \in Span(Width(sz) + 1)
<1> DEFINE w == Width(sz)
           m == Mod(sz)
<1>1. m \in Nat /\ d \in Int /\ 0 <= d /\ d < m
  BY Widths DEF Word
<1>2. 2 ^ (w + 1) = 2 * m
  <2>1. w \in Nat /\ 1 \in Nat /\ w + 1 <= Width(4) + 1
    BY Widths, OfSize DEF IsWidth
  <2> HIDE DEF w
  <2>2. 2 ^ (w + 1) = 2 ^ w * 2 ^ 1 /\ 2 ^ 1 = 2
    BY <2>1, Powers
  <2>3. 2 ^ w = m
    BY OfSize DEF w
  <2>4. 2 ^ (w + 1) = m * 2
    BY <2>2, <2>3
  <2> QED BY <1>1, <2>4
<1> DEFINE k == Number(f.x)
<1>3. k \in {0, 1} /\ WithX(d, f, sz) = d + k * m
  BY DEF Number, WithX
<1> HIDE DEF m, w, k
<1>4. d + k * m \in Nat /\ d + k * m < 2 * m
  BY <1>1, <1>3
<1>5. WithX(d, f, sz) \in 0 .. 2 * m - 1
  BY <1>1, <1>3, <1>4
<1> QED BY <1>2, <1>5 DEF Span, w

\* The word and X put together again are the word that was turned.
LEMMA Rejoined ==
  ASSUME NEW sz \in Sizes, NEW R \in Span(Width(sz) + 1), NEW g,
         g.x = Bit(R, Width(sz))
  PROVE  WithX(Low(R, sz), g, sz) = R
<1> DEFINE w == Width(sz)
           m == Mod(sz)
           q == R \div m
           l == Low(R, sz)
<1>1. m \in Nat \ {0}
  BY Widths
<1>2. R \in Nat /\ R < 2 * m
  <2>1. w \in Nat /\ 1 \in Nat /\ w + 1 <= Width(4) + 1
    BY Widths, OfSize DEF IsWidth
  <2>2. R \in 0 .. 2 ^ (w + 1) - 1
    BY DEF Span
  <2> HIDE DEF w
  <2>3. 2 ^ (w + 1) = 2 ^ w * 2 ^ 1 /\ 2 ^ 1 = 2
    BY <2>1, Powers
  <2>4. 2 ^ w = m
    BY OfSize DEF w
  <2>5. 2 ^ (w + 1) = m * 2
    BY <2>3, <2>4
  <2>6. R \in 0 .. m * 2 - 1
    BY <2>2, <2>5
  <2> HIDE DEF m
  <2> QED BY <1>1, <2>6
<1>3. q \in Int /\ l \in Int /\ 0 <= l /\ l < m /\ R = q * m + l
  <2>1. l = R % m
    BY DEF Low
  <2> HIDE DEF l, m
  <2> QED BY <1>1, <1>2, <2>1, DivMod
<1>4. Bit(R, w) <=> q % 2 = 1
  <2>1. 2 ^ w = m
    BY OfSize
  <2>2. R \div 2 ^ w = q
    BY <2>1
  <2> HIDE DEF q, m
  <2> QED BY <2>2, Zenon DEF Bit
<1> HIDE DEF m, q, l
<1>5. q \in {0, 1}
  <2>1. 0 * m = 0
    BY <1>1
  <2>2. q < 2
    BY <1>1, <1>2, <1>3, Bounds
  <2>3. 0 <= q
    BY <1>1, <1>2, <1>3, <2>1, Bounds
  <2> QED BY <1>3, <2>2, <2>3
<1>6. Number(g.x) = q
  <2>1. CASE q = 1
    <3>1. q % 2 = 1
      BY <2>1
    <3>2. Bit(R, w)
      BY <1>4, <3>1
    <3> QED BY <2>1, <3>2, Zenon DEF Number
  <2>2. CASE q = 0
    <3>1. ~(q % 2 = 1)
      BY <2>2
    <3>2. ~Bit(R, w)
      BY <1>4, <3>1
    <3> QED BY <2>2, <3>2, Zenon DEF Number
  <2> QED BY <1>5, <2>1, <2>2
<1>7. WithX(l, g, sz) = l + q * m
  BY <1>6 DEF WithX, m
<1> QED BY <1>1, <1>3, <1>7 DEF l

\* A turned word is taken apart into word and X, and the flags are its own.
LEMMA RotatedIs ==
  ASSUME NEW sz \in Sizes, NEW R \in Span(Width(sz) + 1)
  PROVE  LET r == Rotated(R, sz) IN
         /\ r = Result(Low(R, sz), Codes(Bit(R, Width(sz)), R, sz, FALSE, Bit(R, Width(sz))))
         /\ Bit(R, Width(sz)) \in BOOLEAN
         /\ r.res = Low(R, sz) /\ r.ccr.x = Bit(R, Width(sz)) /\ r.ccr.v = FALSE
<1> DEFINE r == Rotated(R, sz)
           v == Low(R, sz)
           c == Bit(R, Width(sz))
<1>1. c \in BOOLEAN
  BY Zenon DEF Bit
<1>2. r = Result(v, Codes(c, R, sz, FALSE, c))
  BY Zenon DEF Rotated
<1> HIDE DEF r, v, c
<1>3. r.res = v /\ r.ccr.x = c /\ r.ccr.v = FALSE
  <2> DEFINE q == r.ccr
  <2>1. r.res = v /\ q = Codes(c, R, sz, FALSE, c)
    BY <1>2, Parted
  <2> HIDE DEF q
  <2>2. q.v = FALSE /\ q.x = c
    BY <2>1 DEF Codes
  <2> QED BY <2>1, <2>2 DEF q
<1> QED BY <1>1, <1>2, <1>3 DEF r, v, c

\* What one turn adds to another, whichever way they go.
LEMMA TurnsAdd ==
  ASSUME NEW sz \in Sizes, NEW R \in Span(Width(sz) + 1), NEW R2, NEW R3 \in Span(Width(sz) + 1),
         R2 = R3
  PROVE  /\ Adds(Rotated(R, sz), Rotated(R2, sz), Rotated(R3, sz))
         /\ SameCarry(Rotated(R2, sz), Rotated(R3, sz))
<1> DEFINE r == Rotated(R, sz)
           t == Rotated(R3, sz)
           v == Low(R3, sz)
           c == Bit(R3, Width(sz))
<1>1. r.ccr.v = FALSE
  BY RotatedIs
<1>2. t = Result(v, Codes(c, R3, sz, FALSE, c)) /\ c \in BOOLEAN
  BY RotatedIs
<1>3. (FALSE \/ r.ccr.v) = FALSE
  BY <1>1
<1> HIDE DEF r, t, v, c
<1>4. Adds(r, t, t) /\ SameCarry(t, t)
  BY <1>2, <1>3, AddsUp
<1> QED BY <1>4 DEF r, t

LEMMA RoxlAdds ==
  ASSUME NEW sz \in Sizes, NEW d \in Word(sz), NEW n \in Nat \ {0},
         NEW f \in CCR, NEW g, g.x = roxl(n, d, f, sz).ccr.x
  PROVE  LET r == roxl(n, d, f, sz)
             s == roxl(1, r.res, g, sz)
             t == roxl(n + 1, d, f, sz)
         IN  Adds(r, s, t) /\ SameCarry(s, t)
<1> DEFINE w == Width(sz) + 1
           D == WithX(d, f, sz)
           R == RotL(D, n % w, w)
           R3 == RotL(D, (n + 1) % w, w)
<1>1. IsWidth(w) /\ w \in Nat \ {0} /\ D \in Span(w)
  BY OfSize, Joined DEF IsWidth, CCR
<1>2. roxl(n, d, f, sz) = Rotated(R, sz) /\ roxl(n + 1, d, f, sz) = Rotated(R3, sz)
  BY Zenon DEF roxl
<1>3. /\ n % w \in 0 .. w - 1 /\ (n + 1) % w \in 0 .. w - 1
      /\ ((n % w) + 1) % w = (n + 1) % w
  <2> HIDE DEF w
  <2>1. n % w \in 0 .. w - 1 /\ ((n % w) + 1) % w = (n + 1) % w
    BY <1>1, Places
  <2>2. n + 1 \in Nat
    OBVIOUS
  <2>3. (n + 1) % w \in 0 .. w - 1
    BY <1>1, <2>2, Places
  <2> QED BY <2>1, <2>3
<1>4. R \in Span(w) /\ R3 \in Span(w)
  BY <1>1, <1>3, RotateInSpan
<1>5. RotL(R, 1 % w, w) = R3
  BY <1>1, <1>3, RotateOn
<1> HIDE DEF R, R3, D
<1>6. /\ roxl(n, d, f, sz).res = Low(R, sz) /\ g.x = Bit(R, Width(sz))
  BY <1>2, <1>4, RotatedIs
<1>7. WithX(roxl(n, d, f, sz).res, g, sz) = R
  <2>1. WithX(Low(R, sz), g, sz) = R
    BY <1>4, <1>6, Rejoined
  <2> QED BY <1>6, <2>1
<1>8. roxl(1, roxl(n, d, f, sz).res, g, sz) = Rotated(R3, sz)
  <2>1. roxl(1, roxl(n, d, f, sz).res, g, sz)
          = Rotated(RotL(WithX(roxl(n, d, f, sz).res, g, sz), 1 % w, w), sz)
    BY Zenon DEF roxl
  <2> QED BY <1>5, <1>7, <2>1
<1>9. /\ Adds(Rotated(R, sz), Rotated(R3, sz), Rotated(R3, sz))
      /\ SameCarry(Rotated(R3, sz), Rotated(R3, sz))
  BY <1>4, TurnsAdd
<1> QED BY <1>2, <1>8, <1>9

LEMMA RoxrAdds ==
  ASSUME NEW sz \in Sizes, NEW d \in Word(sz), NEW n \in Nat \ {0},
         NEW f \in CCR, NEW g, g.x = roxr(n, d, f, sz).ccr.x
  PROVE  LET r == roxr(n, d, f, sz)
             s == roxr(1, r.res, g, sz)
             t == roxr(n + 1, d, f, sz)
         IN  Adds(r, s, t) /\ SameCarry(s, t)
<1> DEFINE w == Width(sz) + 1
           D == WithX(d, f, sz)
           R == RotL(D, (w - n) % w, w)
           R3 == RotL(D, (w - (n + 1)) % w, w)
<1>1. IsWidth(w) /\ w \in Nat \ {0} /\ D \in Span(w)
  BY OfSize, Joined DEF IsWidth, CCR
<1>2. roxr(n, d, f, sz) = Rotated(R, sz) /\ roxr(n + 1, d, f, sz) = Rotated(R3, sz)
  BY Zenon DEF roxr
<1> DEFINE j == (w - n) % w
<1>3. /\ j \in 0 .. w - 1 /\ (w - (n + 1)) % w \in 0 .. w - 1
      /\ (j - 1) % w = (w - (n + 1)) % w
  <2> HIDE DEF w
  <2>1. j \in 0 .. w - 1 /\ (j - 1) % w = (w - (n + 1)) % w
    BY <1>1, Places
  <2>2. n + 1 \in Nat
    OBVIOUS
  <2>3. (w - (n + 1)) % w \in 0 .. w - 1
    BY <1>1, <2>2, Places
  <2> QED BY <2>1, <2>3
<1>4. R \in Span(w) /\ R3 \in Span(w)
  BY <1>1, <1>3, RotateInSpan
<1>5. RotL(R, (w - 1) % w, w) = R3
  BY <1>1, <1>3, RotateBack
<1> HIDE DEF R, R3, D
<1>6. /\ roxr(n, d, f, sz).res = Low(R, sz) /\ g.x = Bit(R, Width(sz))
  BY <1>2, <1>4, RotatedIs
<1>7. WithX(roxr(n, d, f, sz).res, g, sz) = R
  <2>1. WithX(Low(R, sz), g, sz) = R
    BY <1>4, <1>6, Rejoined
  <2> QED BY <1>6, <2>1
<1>8. roxr(1, roxr(n, d, f, sz).res, g, sz) = Rotated(R3, sz)
  <2>1. roxr(1, roxr(n, d, f, sz).res, g, sz)
          = Rotated(RotL(WithX(roxr(n, d, f, sz).res, g, sz), (w - 1) % w, w), sz)
    BY Zenon DEF roxr
  <2> QED BY <1>5, <1>7, <2>1
<1>9. /\ Adds(Rotated(R, sz), Rotated(R3, sz), Rotated(R3, sz))
      /\ SameCarry(Rotated(R3, sz), Rotated(R3, sz))
  BY <1>4, TurnsAdd
<1> QED BY <1>2, <1>8, <1>9

----------------------------------------------------------------------------
(* Every shift and rotation.                                               *)

LEMMA ShiftIs ==
  ASSUME NEW op, NEW n, NEW d, NEW f, NEW sz
  PROVE  /\ op = "asl" => Shift(op, n, d, f, sz) = asl(n, d, f, sz)
         /\ op = "asr" => Shift(op, n, d, f, sz) = asr(n, d, f, sz)
         /\ op = "lsl" => Shift(op, n, d, f, sz) = lsl(n, d, f, sz)
         /\ op = "lsr" => Shift(op, n, d, f, sz) = lsr(n, d, f, sz)
         /\ op = "rol" => Shift(op, n, d, f, sz) = rol(n, d, f, sz)
         /\ op = "ror" => Shift(op, n, d, f, sz) = ror(n, d, f, sz)
         /\ op = "roxl" => Shift(op, n, d, f, sz) = roxl(n, d, f, sz)
         /\ op = "roxr" => Shift(op, n, d, f, sz) = roxr(n, d, f, sz)
BY DEF Shift

LEMMA Coded ==
  ASSUME NEW v, NEW y, NEW sz, NEW x \in BOOLEAN, NEW o \in BOOLEAN, NEW c \in BOOLEAN,
         NEW r, r = Result(v, Codes(x, y, sz, o, c))
  PROVE  r.ccr \in CCR
<1> DEFINE q == r.ccr
<1>1. q = Codes(x, y, sz, o, c)
  BY Parted
<1> HIDE DEF q
<1>2. q \in CCR
  BY <1>1 DEF Codes, CCR, Msb, Bit
<1> QED BY <1>2 DEF q

\* Every shift leaves flags.
LEMMA ShiftCodes ==
  ASSUME NEW op \in Shifts, NEW sz \in Sizes, NEW d \in Word(sz), NEW n \in Nat \ {0},
         NEW f \in CCR
  PROVE  Shift(op, n, d, f, sz).ccr \in CCR
<1>1. CASE op = "asl"
  <2>1. Shift(op, n, d, f, sz) = asl(n, d, f, sz)
    BY <1>1, ShiftIs
  <2> DEFINE v == LslRes(n, d, Width(sz))
             c == LslOut(n, d, Width(sz))
             o == AslSign(n, d, Width(sz))
  <2>2. asl(n, d, f, sz) = Result(v, Codes(c, v, sz, o, c)) /\ c \in BOOLEAN /\ o \in BOOLEAN
    BY AslIs
  <2> HIDE DEF v, c, o
  <2>3. asl(n, d, f, sz).ccr \in CCR
    BY <2>2, Coded
  <2> QED BY <2>1, <2>3
<1>2. CASE op = "asr"
  <2>1. Shift(op, n, d, f, sz) = asr(n, d, f, sz)
    BY <1>2, ShiftIs
  <2> DEFINE v == AsrRes(n, d, sz)
             c == AsrOut(n, d, sz)
             o == FALSE
  <2>2. asr(n, d, f, sz) = Result(v, Codes(c, v, sz, o, c)) /\ c \in BOOLEAN /\ o \in BOOLEAN
    BY AsrIs
  <2> HIDE DEF v, c, o
  <2>3. asr(n, d, f, sz).ccr \in CCR
    BY <2>2, Coded
  <2> QED BY <2>1, <2>3
<1>3. CASE op = "lsl"
  <2>1. Shift(op, n, d, f, sz) = lsl(n, d, f, sz)
    BY <1>3, ShiftIs
  <2> DEFINE v == LslRes(n, d, Width(sz))
             c == LslOut(n, d, Width(sz))
             o == FALSE
  <2>2. lsl(n, d, f, sz) = Result(v, Codes(c, v, sz, o, c)) /\ c \in BOOLEAN /\ o \in BOOLEAN
    BY LslIs
  <2> HIDE DEF v, c, o
  <2>3. lsl(n, d, f, sz).ccr \in CCR
    BY <2>2, Coded
  <2> QED BY <2>1, <2>3
<1>4. CASE op = "lsr"
  <2>1. Shift(op, n, d, f, sz) = lsr(n, d, f, sz)
    BY <1>4, ShiftIs
  <2> DEFINE v == LsrRes(n, d, Width(sz))
             c == LsrOut(n, d, Width(sz))
             o == FALSE
  <2>2. lsr(n, d, f, sz) = Result(v, Codes(c, v, sz, o, c)) /\ c \in BOOLEAN /\ o \in BOOLEAN
    BY LsrIs
  <2> HIDE DEF v, c, o
  <2>3. lsr(n, d, f, sz).ccr \in CCR
    BY <2>2, Coded
  <2> QED BY <2>1, <2>3
<1>5. CASE op = "rol"
  <2>1. Shift(op, n, d, f, sz) = rol(n, d, f, sz)
    BY <1>5, ShiftIs
  <2> DEFINE v == RotL(d, n % Width(sz), Width(sz))
             c == Bit(v, 0)
             x == f.x
  <2>2. ~(n = 0)
    OBVIOUS
  <2>3. rol(n, d, f, sz) = Result(v, Codes(x, v, sz, FALSE, c))
    BY <2>2, Zenon DEF rol
  <2>4. x \in BOOLEAN /\ c \in BOOLEAN
    <3>1. x \in BOOLEAN
      BY DEF CCR
    <3>2. c \in BOOLEAN
      BY Zenon DEF Bit
    <3> QED BY <3>1, <3>2
  <2> HIDE DEF v, c, x
  <2>5. rol(n, d, f, sz).ccr \in CCR
    BY <2>3, <2>4, Coded
  <2> QED BY <2>1, <2>5
<1>6. CASE op = "ror"
  <2>1. Shift(op, n, d, f, sz) = ror(n, d, f, sz)
    BY <1>6, ShiftIs
  <2> DEFINE v == RotL(d, (Width(sz) - n) % Width(sz), Width(sz))
             c == Bit(d, (n - 1) % Width(sz))
             x == f.x
  <2>2. ~(n = 0)
    OBVIOUS
  <2>3. ror(n, d, f, sz) = Result(v, Codes(x, v, sz, FALSE, c))
    BY <2>2, Zenon DEF ror
  <2>4. x \in BOOLEAN /\ c \in BOOLEAN
    <3>1. x \in BOOLEAN
      BY DEF CCR
    <3>2. c \in BOOLEAN
      BY Zenon DEF Bit
    <3> QED BY <3>1, <3>2
  <2> HIDE DEF v, c, x
  <2>5. ror(n, d, f, sz).ccr \in CCR
    BY <2>3, <2>4, Coded
  <2> QED BY <2>1, <2>5
<1>7. CASE op = "roxl"
  <2>1. Shift(op, n, d, f, sz) = roxl(n, d, f, sz)
    BY <1>7, ShiftIs
  <2> DEFINE w == Width(sz) + 1
             R == RotL(WithX(d, f, sz), n % w, w)
             v == Low(R, sz)
             c == Bit(R, Width(sz))
  <2>2. roxl(n, d, f, sz) = Result(v, Codes(c, R, sz, FALSE, c))
    BY Zenon DEF roxl, Rotated
  <2>3. c \in BOOLEAN
    BY Zenon DEF Bit
  <2> HIDE DEF R, v, c
  <2>4. roxl(n, d, f, sz).ccr \in CCR
    BY <2>2, <2>3, Coded
  <2> QED BY <2>1, <2>4
<1>8. CASE op = "roxr"
  <2>1. Shift(op, n, d, f, sz) = roxr(n, d, f, sz)
    BY <1>8, ShiftIs
  <2> DEFINE w == Width(sz) + 1
             R == RotL(WithX(d, f, sz), (w - n) % w, w)
             v == Low(R, sz)
             c == Bit(R, Width(sz))
  <2>2. roxr(n, d, f, sz) = Result(v, Codes(c, R, sz, FALSE, c))
    BY Zenon DEF roxr, Rotated
  <2>3. c \in BOOLEAN
    BY Zenon DEF Bit
  <2> HIDE DEF R, v, c
  <2>4. roxr(n, d, f, sz).ccr \in CCR
    BY <2>2, <2>3, Coded
  <2> QED BY <2>1, <2>4
<1> QED BY <1>1, <1>2, <1>3, <1>4, <1>5, <1>6, <1>7, <1>8 DEF Shifts

\* A shift by n places and one place more are a shift by n + 1.
LEMMA ShiftAdds ==
  ASSUME NEW op \in Shifts, NEW sz \in Sizes, NEW d \in Word(sz), NEW n \in Nat \ {0},
         NEW f \in CCR, NEW g, Clear(n, d, Width(sz)),
         op = "asr" \/ g.x = Shift(op, n, d, f, sz).ccr.x
  PROVE  LET r == Shift(op, n, d, f, sz)
             s == Shift(op, 1, r.res, g, sz)
             t == Shift(op, n + 1, d, f, sz)
         IN /\ Adds(r, s, t)
            /\ (op = "asr" /\ n + 1 > Width(sz)) \/ SameCarry(s, t)
<1> DEFINE r == Shift(op, n, d, f, sz)
           s == Shift(op, 1, r.res, g, sz)
           t == Shift(op, n + 1, d, f, sz)
<1>10. n + 1 > Width(sz) \/ n + 1 <= Width(sz)
  BY Widths
<1>1. CASE op = "asl"
  <2>1. r = asl(n, d, f, sz) /\ s = asl(1, r.res, g, sz) /\ t = asl(n + 1, d, f, sz)
    <3>1. r = asl(n, d, f, sz)
      BY <1>1, ShiftIs
    <3>2. t = asl(n + 1, d, f, sz)
      BY <1>1, ShiftIs
    <3>3. s = asl(1, r.res, g, sz)
      <4> HIDE DEF r
      <4> QED BY <1>1, ShiftIs
    <3> QED BY <3>1, <3>2, <3>3
  <2>2. LET r2 == asl(n, d, f, sz)
            s2 == asl(1, r2.res, g, sz)
            t2 == asl(n + 1, d, f, sz)
        IN  Adds(r2, s2, t2) /\ SameCarry(s2, t2)
    BY AslAdds
  <2>3. Adds(r, s, t) /\ SameCarry(s, t)
    <3> HIDE DEF r, s, t
    <3> QED BY <2>1, <2>2
  <2> QED BY <2>3
<1>2. CASE op = "asr"
  <2>1. r = asr(n, d, f, sz) /\ s = asr(1, r.res, g, sz) /\ t = asr(n + 1, d, f, sz)
    <3>1. r = asr(n, d, f, sz)
      BY <1>2, ShiftIs
    <3>2. t = asr(n + 1, d, f, sz)
      BY <1>2, ShiftIs
    <3>3. s = asr(1, r.res, g, sz)
      <4> HIDE DEF r
      <4> QED BY <1>2, ShiftIs
    <3> QED BY <3>1, <3>2, <3>3
  <2>2. LET r2 == asr(n, d, f, sz)
            s2 == asr(1, r2.res, g, sz)
            t2 == asr(n + 1, d, f, sz)
        IN  Adds(r2, s2, t2) /\ (n + 1 <= Width(sz) => SameCarry(s2, t2))
    BY AsrAdds
  <2>3. Adds(r, s, t) /\ (n + 1 <= Width(sz) => SameCarry(s, t))
    <3> HIDE DEF r, s, t
    <3> QED BY <2>1, <2>2
  <2> QED BY <1>2, <2>3, <1>10
<1>3. CASE op = "lsl"
  <2>1. r = lsl(n, d, f, sz) /\ s = lsl(1, r.res, g, sz) /\ t = lsl(n + 1, d, f, sz)
    <3>1. r = lsl(n, d, f, sz)
      BY <1>3, ShiftIs
    <3>2. t = lsl(n + 1, d, f, sz)
      BY <1>3, ShiftIs
    <3>3. s = lsl(1, r.res, g, sz)
      <4> HIDE DEF r
      <4> QED BY <1>3, ShiftIs
    <3> QED BY <3>1, <3>2, <3>3
  <2>2. LET r2 == lsl(n, d, f, sz)
            s2 == lsl(1, r2.res, g, sz)
            t2 == lsl(n + 1, d, f, sz)
        IN  Adds(r2, s2, t2) /\ SameCarry(s2, t2)
    BY LslAdds
  <2>3. Adds(r, s, t) /\ SameCarry(s, t)
    <3> HIDE DEF r, s, t
    <3> QED BY <2>1, <2>2
  <2> QED BY <2>3
<1>4. CASE op = "lsr"
  <2>1. r = lsr(n, d, f, sz) /\ s = lsr(1, r.res, g, sz) /\ t = lsr(n + 1, d, f, sz)
    <3>1. r = lsr(n, d, f, sz)
      BY <1>4, ShiftIs
    <3>2. t = lsr(n + 1, d, f, sz)
      BY <1>4, ShiftIs
    <3>3. s = lsr(1, r.res, g, sz)
      <4> HIDE DEF r
      <4> QED BY <1>4, ShiftIs
    <3> QED BY <3>1, <3>2, <3>3
  <2>2. LET r2 == lsr(n, d, f, sz)
            s2 == lsr(1, r2.res, g, sz)
            t2 == lsr(n + 1, d, f, sz)
        IN  Adds(r2, s2, t2) /\ SameCarry(s2, t2)
    BY LsrAdds
  <2>3. Adds(r, s, t) /\ SameCarry(s, t)
    <3> HIDE DEF r, s, t
    <3> QED BY <2>1, <2>2
  <2> QED BY <2>3
<1>5. CASE op = "rol"
  <2>1. r = rol(n, d, f, sz) /\ s = rol(1, r.res, g, sz) /\ t = rol(n + 1, d, f, sz)
    <3>1. r = rol(n, d, f, sz)
      BY <1>5, ShiftIs
    <3>2. t = rol(n + 1, d, f, sz)
      BY <1>5, ShiftIs
    <3>3. s = rol(1, r.res, g, sz)
      <4> HIDE DEF r
      <4> QED BY <1>5, ShiftIs
    <3> QED BY <3>1, <3>2, <3>3
  <2>2. g.x = rol(n, d, f, sz).ccr.x
    BY <1>5, <2>1
  <2>3. LET r2 == rol(n, d, f, sz)
            s2 == rol(1, r2.res, g, sz)
            t2 == rol(n + 1, d, f, sz)
        IN  Adds(r2, s2, t2) /\ SameCarry(s2, t2)
    BY <2>2, RolAdds
  <2>4. Adds(r, s, t) /\ SameCarry(s, t)
    <3> HIDE DEF r, s, t
    <3> QED BY <2>1, <2>3
  <2> QED BY <2>4
<1>6. CASE op = "ror"
  <2>1. r = ror(n, d, f, sz) /\ s = ror(1, r.res, g, sz) /\ t = ror(n + 1, d, f, sz)
    <3>1. r = ror(n, d, f, sz)
      BY <1>6, ShiftIs
    <3>2. t = ror(n + 1, d, f, sz)
      BY <1>6, ShiftIs
    <3>3. s = ror(1, r.res, g, sz)
      <4> HIDE DEF r
      <4> QED BY <1>6, ShiftIs
    <3> QED BY <3>1, <3>2, <3>3
  <2>2. g.x = ror(n, d, f, sz).ccr.x
    BY <1>6, <2>1
  <2>3. LET r2 == ror(n, d, f, sz)
            s2 == ror(1, r2.res, g, sz)
            t2 == ror(n + 1, d, f, sz)
        IN  Adds(r2, s2, t2) /\ SameCarry(s2, t2)
    BY <2>2, RorAdds
  <2>4. Adds(r, s, t) /\ SameCarry(s, t)
    <3> HIDE DEF r, s, t
    <3> QED BY <2>1, <2>3
  <2> QED BY <2>4
<1>7. CASE op = "roxl"
  <2>1. r = roxl(n, d, f, sz) /\ s = roxl(1, r.res, g, sz) /\ t = roxl(n + 1, d, f, sz)
    <3>1. r = roxl(n, d, f, sz)
      BY <1>7, ShiftIs
    <3>2. t = roxl(n + 1, d, f, sz)
      BY <1>7, ShiftIs
    <3>3. s = roxl(1, r.res, g, sz)
      <4> HIDE DEF r
      <4> QED BY <1>7, ShiftIs
    <3> QED BY <3>1, <3>2, <3>3
  <2>2. g.x = roxl(n, d, f, sz).ccr.x
    BY <1>7, <2>1
  <2>3. LET r2 == roxl(n, d, f, sz)
            s2 == roxl(1, r2.res, g, sz)
            t2 == roxl(n + 1, d, f, sz)
        IN  Adds(r2, s2, t2) /\ SameCarry(s2, t2)
    BY <2>2, RoxlAdds
  <2>4. Adds(r, s, t) /\ SameCarry(s, t)
    <3> HIDE DEF r, s, t
    <3> QED BY <2>1, <2>3
  <2> QED BY <2>4
<1>8. CASE op = "roxr"
  <2>1. r = roxr(n, d, f, sz) /\ s = roxr(1, r.res, g, sz) /\ t = roxr(n + 1, d, f, sz)
    <3>1. r = roxr(n, d, f, sz)
      BY <1>8, ShiftIs
    <3>2. t = roxr(n + 1, d, f, sz)
      BY <1>8, ShiftIs
    <3>3. s = roxr(1, r.res, g, sz)
      <4> HIDE DEF r
      <4> QED BY <1>8, ShiftIs
    <3> QED BY <3>1, <3>2, <3>3
  <2>2. g.x = roxr(n, d, f, sz).ccr.x
    BY <1>8, <2>1
  <2>3. LET r2 == roxr(n, d, f, sz)
            s2 == roxr(1, r2.res, g, sz)
            t2 == roxr(n + 1, d, f, sz)
        IN  Adds(r2, s2, t2) /\ SameCarry(s2, t2)
    BY <2>2, RoxrAdds
  <2>4. Adds(r, s, t) /\ SameCarry(s, t)
    <3> HIDE DEF r, s, t
    <3> QED BY <2>1, <2>3
  <2> QED BY <2>4
<1> QED BY <1>1, <1>2, <1>3, <1>4, <1>5, <1>6, <1>7, <1>8 DEF Shifts

----------------------------------------------------------------------------
(* The run: after done single shifts the counted one has been reached.     *)

\* The flags g are those of r; C and X of a saturated ASR are not compared.
SameFlags(g, r, saturated) ==
  /\ g \in CCR
  /\ g.n = r.ccr.n /\ g.z = r.ccr.z /\ g.v = r.ccr.v
  /\ saturated \/ (g.c = r.ccr.c /\ g.x = r.ccr.x)

Counted == Shift(task.op, done, task.d, task.ccr, task.sz)
Saturated == task.op = "asr" /\ done > Width(task.sz)

ShiftTask ==
  /\ task.op \in Shifts /\ task.sz \in Sizes /\ task.d \in Word(task.sz)
  /\ task.ccr \in CCR /\ task.ccr.v = FALSE

ShiftInv ==
  task.kind = "shift" =>
    /\ ShiftTask
    /\ done \in Nat /\ Clear(done, task.d, Width(task.sz))
    /\ done = 0 => acc = <<>> /\ ccr = task.ccr
    /\ done > 0 => acc = <<Counted.res>> /\ SameFlags(ccr, Counted, Saturated)

\* V collected on the way.
LEMMA Collected ==
  ASSUME NEW c \in CCR, NEW old \in CCR
  PROVE  LET g == [c EXCEPT !.v = @ \/ old.v] IN
         /\ g \in CCR /\ g.n = c.n /\ g.z = c.z /\ g.c = c.c /\ g.x = c.x
         /\ g.v = (c.v \/ old.v)
BY DEF CCR

LEMMA FirstShift ==
  ASSUME ShiftInv, ShiftOnce, done = 0
  PROVE  acc' = <<Counted'.res>> /\ SameFlags(ccr', Counted', Saturated')
<1> DEFINE r == Shift(task.op, 1, task.d, task.ccr, task.sz)
<1>1. task.kind = "shift" /\ ShiftTask /\ acc = <<>> /\ ccr = task.ccr
  BY DEF ShiftInv, ShiftOnce
<1>2. task' = task /\ done' = 1
  BY DEF ShiftOnce
<1>3. acc' = <<r.res>> /\ ccr' = [r.ccr EXCEPT !.v = @ \/ ccr.v]
  BY <1>1 DEF ShiftOnce
<1>4. Counted' = r
  BY <1>2 DEF Counted
<1>5. r.ccr \in CCR /\ ccr \in CCR /\ ccr.v = FALSE
  BY <1>1, ShiftCodes, 1 \in Nat \ {0} DEF ShiftTask
<1> HIDE DEF r
<1> DEFINE c == r.ccr
           g == ccr'
<1>6. c \in CCR /\ g = [c EXCEPT !.v = @ \/ ccr.v]
  BY <1>3, <1>5
<1> HIDE DEF c, g
<1>7. g \in CCR /\ g.n = c.n /\ g.z = c.z /\ g.c = c.c /\ g.x = c.x /\ g.v = (c.v \/ ccr.v)
  BY <1>5, <1>6, Collected
<1>8. g.v = c.v
  BY <1>5, <1>6, <1>7 DEF CCR
<1>9. SameFlags(g, r, Saturated')
  BY <1>7, <1>8 DEF SameFlags, c
<1> QED BY <1>3, <1>4, <1>9 DEF g

LEMMA NextShift ==
  ASSUME ShiftInv, ShiftOnce, done > 0
  PROVE  acc' = <<Counted'.res>> /\ SameFlags(ccr', Counted', Saturated')
<1> DEFINE r == Shift(task.op, done, task.d, task.ccr, task.sz)
           s == Shift(task.op, 1, r.res, ccr, task.sz)
           t == Shift(task.op, done + 1, task.d, task.ccr, task.sz)
<1>1. task.kind = "shift" /\ ShiftTask /\ acc = <<r.res>> /\ SameFlags(ccr, r, Saturated)
        /\ done \in Nat \ {0} /\ Clear(done, task.d, Width(task.sz))
  BY DEF ShiftInv, ShiftOnce, Counted
<1>2. task' = task /\ done' = done + 1
  BY DEF ShiftOnce
<1>3. acc' = <<s.res>> /\ ccr' = [s.ccr EXCEPT !.v = @ \/ ccr.v]
  <2>1. acc # <<>> /\ acc[1] = r.res
    <3> HIDE DEF r
    <3> QED BY <1>1
  <2> HIDE DEF r
  <2> QED BY <2>1 DEF ShiftOnce
<1>4. Counted' = t
  BY <1>2 DEF Counted
<1>5. Adds(r, s, t) /\ (Saturated' \/ SameCarry(s, t))
  <2> DEFINE op == task.op
             sz == task.sz
             d == task.d
             f == task.ccr
             n == done
  <2>1. /\ op \in Shifts /\ sz \in Sizes /\ d \in Word(sz) /\ f \in CCR
        /\ n \in Nat \ {0} /\ Clear(n, d, Width(sz))
    BY <1>1 DEF ShiftTask
  <2>2. op = "asr" \/ ccr.x = r.ccr.x
    <3> HIDE DEF r
    <3> QED BY <1>1 DEF SameFlags, Saturated
  <2>3. Saturated' <=> op = "asr" /\ n + 1 > Width(sz)
    BY <1>2 DEF Saturated
  <2> HIDE DEF op, sz, d, f, n
  <2>4. LET r2 == Shift(op, n, d, f, sz)
            s2 == Shift(op, 1, r2.res, ccr, sz)
            t2 == Shift(op, n + 1, d, f, sz)
        IN /\ Adds(r2, s2, t2)
           /\ (op = "asr" /\ n + 1 > Width(sz)) \/ SameCarry(s2, t2)
    <3>1. op = "asr" \/ ccr.x = Shift(op, n, d, f, sz).ccr.x
      BY <2>2 DEF op, sz, d, f, n
    <3> QED BY <2>1, <3>1, ShiftAdds
  <2> QED BY <2>3, <2>4, Zenon DEF op, sz, d, f, n
<1> HIDE DEF r, s, t
<1> DEFINE c == s.ccr
           g == ccr'
<1>6. c \in CCR /\ g = [c EXCEPT !.v = @ \/ ccr.v] /\ ccr \in CCR /\ ccr.v = r.ccr.v
  BY <1>1, <1>3, <1>5 DEF Adds, SameFlags
<1> HIDE DEF c, g
<1>7. g \in CCR /\ g.n = c.n /\ g.z = c.z /\ g.c = c.c /\ g.x = c.x /\ g.v = (c.v \/ ccr.v)
  BY <1>6, Collected
<1>8. c.n = t.ccr.n /\ c.z = t.ccr.z /\ (c.v \/ r.ccr.v) = t.ccr.v /\ s.res = t.res
  BY <1>5, Zenon DEF Adds, c
<1>9. Saturated' \/ (c.c = t.ccr.c /\ c.x = t.ccr.x)
  BY <1>5, Zenon DEF SameCarry, c
<1>10. g.v = t.ccr.v
  BY <1>6, <1>7, <1>8
<1>11. SameFlags(g, t, Saturated')
  BY <1>7, <1>8, <1>9, <1>10, Zenon DEF SameFlags
<1> QED BY <1>3, <1>4, <1>8, <1>11 DEF g

\* Shifting or rotating by a count does what as many single shifts do, in the result and in
\* the flags (of the handlers of m68k_in.c with an immediate or a register
\* count), except C and X of an ASR by more than the width.
THEOREM ShiftsCount == Spec => []CountedShifts
<1>1. Init => ShiftInv
  <2> SUFFICES ASSUME Init, task.kind = "shift"
               PROVE  /\ ShiftTask
                      /\ done \in Nat /\ Clear(done, task.d, Width(task.sz))
                      /\ done = 0 => acc = <<>> /\ ccr = task.ccr
                      /\ done > 0 => acc = <<Counted.res>> /\ SameFlags(ccr, Counted, Saturated)
    BY DEF ShiftInv
  <2>1. ASSUME NEW kind, NEW op, NEW sz, NEW f, NEW s, NEW d, task = Task(kind, op, sz, f, s, d)
        PROVE  /\ task.kind = kind /\ task.op = op /\ task.sz = sz /\ task.ccr = f
               /\ task.d = d
    BY <2>1 DEF Task
  <2>2. \E op \in Shifts, sz \in Sizes, x \in BOOLEAN :
           \E d \in 0 .. Mod(sz) - 1 : task = Task("shift", op, sz, Flags(x, TRUE), 0, d)
    <3>1. "chain" # "shift" /\ "pair" # "shift" /\ "field" # "shift"
      OBVIOUS
    <3> QED BY <2>1, <3>1, Zenon DEF Init
  <2>3. PICK op \in Shifts, sz \in Sizes, x \in BOOLEAN :
           \E d \in 0 .. Mod(sz) - 1 : task = Task("shift", op, sz, Flags(x, TRUE), 0, d)
    BY <2>2
  <2>4. PICK d \in 0 .. Mod(sz) - 1 : task = Task("shift", op, sz, Flags(x, TRUE), 0, d)
    BY <2>3
  <2>5. task.op = op /\ task.sz = sz /\ task.ccr = Flags(x, TRUE) /\ task.d = d
    BY <2>1, <2>4
  <2>6. Flags(x, TRUE) \in CCR /\ Flags(x, TRUE).v = FALSE
    BY DEF Flags, CCR
  <2>7. ShiftTask
    BY <2>5, <2>6 DEF ShiftTask, Word
  <2>8. Clear(0, d, Width(sz))
    BY OfSize, ClearFirst DEF Word
  <2>9. done = 0 /\ acc = <<>> /\ ccr = task.ccr
    BY DEF Init
  <2> QED BY <2>5, <2>7, <2>8, <2>9
<1>2. ShiftInv /\ [Next]_vars => ShiftInv'
  <2> SUFFICES ASSUME ShiftInv, [Next]_vars PROVE ShiftInv'
    OBVIOUS
  <2>1. CASE NextDigit
    <3>1. task' = task /\ task.kind # "shift"
      BY <2>1 DEF NextDigit
    <3> QED BY <3>1 DEF ShiftInv
  <2>2. CASE ShiftOnce
    <3>1. /\ ShiftTask /\ done \in Nat /\ Clear(done, task.d, Width(task.sz))
          /\ task' = task /\ done' = done + 1 /\ task.kind = "shift"
      BY <2>2 DEF ShiftInv, ShiftOnce
    <3>2. acc' = <<Counted'.res>> /\ SameFlags(ccr', Counted', Saturated')
      <4>1. CASE done = 0
        BY <2>2, <4>1, FirstShift
      <4>2. CASE done > 0
        BY <2>2, <4>2, NextShift
      <4> QED BY <3>1, <4>1, <4>2
    <3>3. ShiftTask'
      BY <3>1 DEF ShiftTask
    <3>4. Clear(done', task'.d, Width(task'.sz))
      <4>1. IsWidth(Width(task.sz)) /\ task.d \in Span(Width(task.sz))
        BY <3>1, OfSize DEF ShiftTask
      <4>2. Clear(done + 1, task.d, Width(task.sz))
        BY <3>1, <4>1, ClearOn
      <4> QED BY <3>1, <4>2
    <3>5. done' \in Nat /\ ~(done' = 0)
      BY <3>1
    <3> QED BY <3>2, <3>3, <3>4, <3>5 DEF ShiftInv
  <2>3. CASE ChangeField
    <3>1. task' = task /\ task.kind # "shift"
      BY <2>3 DEF ChangeField
    <3> QED BY <3>1 DEF ShiftInv
  <2>4. CASE UNCHANGED vars
    BY <2>4 DEF vars, ShiftInv, ShiftTask, Counted, Saturated
  <2> QED BY <2>1, <2>2, <2>3, <2>4 DEF Next
<1>3. ShiftInv => CountedShifts
  <2> SUFFICES ASSUME ShiftInv, task.kind = "shift", done > 0 PROVE CountedShifts
    BY DEF CountedShifts
  <2> DEFINE r == Counted
  <2>1. acc = <<r.res>> /\ SameFlags(ccr, r, Saturated)
    BY DEF ShiftInv
  <2> HIDE DEF r
  <2>2. <<r.ccr.n, r.ccr.z, r.ccr.v>> = <<ccr.n, ccr.z, ccr.v>>
    BY <2>1 DEF SameFlags
  <2>3. Saturated \/ <<r.ccr.c, r.ccr.x>> = <<ccr.c, ccr.x>>
    BY <2>1 DEF SameFlags
  <2> QED BY <2>1, <2>2, <2>3, Zenon DEF r, Counted, Saturated, CountedShifts
<1> QED BY <1>1, <1>2, <1>3, PTL DEF Spec

=============================================================================
