----------------------------- MODULE AluProofs ------------------------------
(***************************************************************************)
(* Theorems about what the integer instructions compute, for every size of *)
(* a byte and every operand: comparisons, multiplication, division, and    *)
(* long numbers worked through digit by digit.                             *)
(***************************************************************************)
EXTENDS AluChains, TLAPS

LOCAL INSTANCE WellFoundedInduction

----------------------------------------------------------------------------
(* Words.  A word of a size has 2 * Half values, of which the upper half   *)
(* have the top bit.                                                       *)

Half(sz) == 2 ^ (Width(sz) - 1)
Word(sz) == 0 .. Mod(sz) - 1

LEMMA Widths ==
  ASSUME NEW sz \in Sizes
  PROVE  /\ Width(sz) \in Nat \ {0} /\ Width(sz) <= Width(4)
         /\ Half(sz) \in Nat \ {0} /\ Mod(sz) = 2 * Half(sz)
<1>1. Width(sz) \in Nat \ {0} /\ Width(4) \in Nat /\ Width(sz) <= Width(4)
  BY AluAssumption DEF Width, Sizes
<1> DEFINE i == Width(sz) - 1
<1>2. i \in 0 .. Width(4) /\ i + 1 = Width(sz)
  BY <1>1
<1>3. 2 ^ i \in Nat \ {0} /\ 2 ^ (i + 1) = 2 * 2 ^ i
  <2>1. 1 \in 0 .. Width(4)
    BY <1>1
  <2> HIDE DEF i
  <2>2. 2 ^ i \in Nat \ {0} /\ 2 ^ (i + 1) = 2 ^ i * 2 ^ 1 /\ 2 ^ 1 = 2
    BY <1>2, <2>1, PowersAssumption
  <2> QED BY <2>2
<1>4. Half(sz) = 2 ^ i
  BY DEF Half
<1> HIDE DEF i
<1>5. Mod(sz) = 2 ^ (i + 1)
  BY <1>2 DEF Mod
<1> QED BY <1>1, <1>3, <1>4, <1>5

LEMMA TopBit ==
  ASSUME NEW sz \in Sizes, NEW v \in Word(sz)
  PROVE  /\ Low(v, sz) = v
         /\ Msb(v, sz) <=> v >= Half(sz)
         /\ Signed(v, sz) = IF v >= Half(sz) THEN v - 2 * Half(sz) ELSE v
<1>1. Half(sz) \in Nat \ {0} /\ Mod(sz) = 2 * Half(sz) /\ v \in Int /\ 0 <= v /\ v < 2 * Half(sz)
  BY Widths DEF Word
<1>2. Low(v, sz) = v
  BY <1>1 DEF Low
<1>3. v \div Half(sz) = IF v >= Half(sz) THEN 1 ELSE 0
  BY <1>1
<1>4. Msb(v, sz) <=> v >= Half(sz)
  BY <1>3 DEF Msb, Bit, Half
<1> QED BY <1>1, <1>2, <1>4 DEF Signed

LEMMA Part ==
  ASSUME NEW v \in Int, NEW h \in Nat \ {0}, NEW k \in Int, k * h <= v, v < k * h + h
  PROVE  v \div h = k
OBVIOUS

\* The difference of two words, before it is cut to its size.
LEMMA Differences ==
  ASSUME NEW sz \in Sizes, NEW s \in Word(sz), NEW d \in Word(sz)
  PROVE  LET r == d - s IN
         /\ Low(r, sz) = IF d >= s THEN r ELSE r + Mod(sz)
         /\ Bit(r, Width(sz)) <=> d < s
         /\ Msb(r, sz) <=> \/ r >= Half(sz)
                           \/ r < 0 /\ r >= -Half(sz)
<1> DEFINE r == d - s
           h == Half(sz)
           m == Mod(sz)
<1>1. /\ h \in Nat \ {0} /\ m = 2 * h /\ m \in Nat \ {0} /\ s \in Int /\ d \in Int
      /\ 0 <= s /\ s < m /\ 0 <= d /\ d < m /\ r \in Int /\ -m < r /\ r < m
  BY Widths DEF Word
<1>2. Low(r, sz) = r % m /\ (Bit(r, Width(sz)) <=> (r \div m) % 2 = 1)
         /\ (Msb(r, sz) <=> (r \div h) % 2 = 1)
  BY DEF Low, Bit, Msb, Half, Mod
<1>3. (r >= 0 <=> d >= s) /\ (r < 0 <=> d < s)
  BY <1>1
<1> HIDE DEF h, m, r
<1>4. r \div m = IF r >= 0 THEN 0 ELSE -1
  BY <1>1, Part, 0 * m = 0, -1 * m = -m
<1>5. Low(r, sz) = IF d >= s THEN r ELSE r + m
  <2>1. r % m = IF r >= 0 THEN r ELSE r + m
    BY <1>1, <1>4
  <2> QED BY <1>2, <1>3, <2>1
<1>6. /\ r >= h => r \div h = 1
      /\ r >= 0 /\ r < h => r \div h = 0
      /\ r < 0 /\ r >= -h => r \div h = -1
      /\ r < -h => r \div h = -2
  <2>1. 1 * h = h /\ 0 * h = 0 /\ -1 * h = -h /\ -2 * h = -(h + h)
    BY <1>1
  <2>2. CASE r >= h
    BY <1>1, <2>1, <2>2, Part
  <2>3. CASE r >= 0 /\ r < h
    BY <1>1, <2>1, <2>3, Part
  <2>4. CASE r < 0 /\ r >= -h
    BY <1>1, <2>1, <2>4, Part
  <2>5. CASE r < -h
    BY <1>1, <2>1, <2>5, Part
  <2> QED BY <1>1, <2>2, <2>3, <2>4, <2>5
<1>7. Msb(r, sz) <=> r >= h \/ (r < 0 /\ r >= -h)
  BY <1>1, <1>2, <1>6
<1>8. Bit(r, Width(sz)) <=> d < s
  BY <1>1, <1>2, <1>3, <1>4
<1> QED BY <1>5, <1>7, <1>8 DEF h, m, r

LEMMA DivMod ==
  ASSUME NEW v \in Int, NEW h \in Nat \ {0}
  PROVE  /\ v \div h \in Int /\ v % h \in Int /\ 0 <= v % h /\ v % h < h
         /\ v = (v \div h) * h + (v % h)
OBVIOUS

LEMMA Around ==
  ASSUME NEW v \in Int, NEW k \in Int, NEW h \in Nat \ {0}
  PROVE  (v + k * h) % h = v % h /\ (v + k * h) \div h = v \div h + k
<1> DEFINE q == v \div h
           r == v % h
           w == v + k * h
<1>1. q \in Int /\ r \in Int /\ 0 <= r /\ r < h /\ v = q * h + r /\ w \in Int
  BY DivMod
<1> HIDE DEF q, r
<1>2. w = (q + k) * h + r /\ q + k \in Int
  BY <1>1
<1> HIDE DEF w
<1>3. w \div h = q + k
  <2>1. (q + k) * h <= w /\ w < (q + k) * h + h
    BY <1>1, <1>2
  <2> QED BY <1>1, <1>2, <2>1, Part
<1>4. w = (w \div h) * h + (w % h)
  BY <1>1, DivMod
<1>5. w % h = r
  BY <1>1, <1>2, <1>3, <1>4, DivMod
<1> QED BY <1>3, <1>5 DEF q, r, w

\* Subtracting as signed numbers gives the same word.
LEMMA SignedDifference ==
  ASSUME NEW sz \in Sizes, NEW s \in Word(sz), NEW d \in Word(sz)
  PROVE  /\ s \in Int /\ d \in Int /\ Signed(s, sz) \in Int /\ Signed(d, sz) \in Int
         /\ Signed(d, sz) = Signed(s, sz) <=> d = s
         /\ Low(Signed(d, sz) - Signed(s, sz), sz) = Low(d - s, sz)
<1> DEFINE h == Half(sz)
           m == Mod(sz)
           sh == Signed(s, sz)
           dh == Signed(d, sz)
<1>1. /\ h \in Nat \ {0} /\ m = 2 * h /\ m \in Nat \ {0} /\ s \in Int /\ d \in Int
      /\ 0 <= s /\ s < m /\ 0 <= d /\ d < m
  BY Widths DEF Word
<1>2. sh = IF s >= h THEN s - 2 * h ELSE s
  BY TopBit, Zenon
<1>3. dh = IF d >= h THEN d - 2 * h ELSE d
  BY TopBit, Zenon
<1> HIDE DEF h, m, sh, dh
<1>4. sh \in Int /\ dh \in Int /\ (dh = sh <=> d = s)
  BY <1>1, <1>2, <1>3
<1>5. (dh - sh) % m = (d - s) % m
  <2>1. PICK k \in {-1, 0, 1} : dh - sh = (d - s) + k * m
    BY <1>1, <1>2, <1>3
  <2>2. d - s \in Int /\ k \in Int
    BY <1>1
  <2>3. ((d - s) + k * m) % m = (d - s) % m
    <3> DEFINE r == d - s
    <3> HIDE DEF r
    <3> QED BY <1>1, <2>2, Around
  <2> QED BY <2>1, <2>3
<1> QED BY <1>1, <1>4, <1>5 DEF Low, m, sh, dh

LEMMA Compared ==
  ASSUME NEW sz \in Sizes, NEW s \in Word(sz), NEW d \in Word(sz), NEW f0
  PROVE  LET f == cmp(s, d, f0, sz).ccr IN
         /\ f.c <=> d < s
         /\ f.z <=> d = s
         /\ f.n <=> Low(d - s, sz) >= Mod(sz) \div 2
         /\ (f.n <=> f.v) <=> Signed(d, sz) >= Signed(s, sz)
         /\ f.n \in BOOLEAN /\ f.v \in BOOLEAN
<1> DEFINE f == cmp(s, d, f0, sz).ccr
           h == Half(sz)
           r == d - s
<1>1. /\ h \in Nat \ {0} /\ Mod(sz) = 2 * h /\ s \in Int /\ d \in Int
      /\ 0 <= s /\ s < 2 * h /\ 0 <= d /\ d < 2 * h /\ r \in Int
  BY Widths DEF Word
<1>2. /\ f.n = Msb(r, sz) /\ (f.z <=> Low(r, sz) = 0)
      /\ f.v = VFLAG_SUB(s, d, r, sz) /\ f.c = CFLAG_SUB(s, d, r, sz)
  BY DEF cmp, sub, Difference, Result, Codes
<1> HIDE DEF f
<1>3. /\ Low(r, sz) = IF d >= s THEN r ELSE r + 2 * h
      /\ Bit(r, Width(sz)) <=> d < s
      /\ Msb(r, sz) <=> r >= h \/ (r < 0 /\ r >= -h)
  BY <1>1, Differences
<1>4. (Msb(s, sz) <=> s >= h) /\ (Msb(d, sz) <=> d >= h)
  BY TopBit
<1>5. /\ Signed(s, sz) = IF s >= h THEN s - 2 * h ELSE s
      /\ Signed(d, sz) = IF d >= h THEN d - 2 * h ELSE d
  BY TopBit, Zenon
<1> HIDE DEF h
<1>6. f.z <=> d = s
  BY <1>1, <1>2, <1>3
<1>7. f.n <=> Low(d - s, sz) >= Mod(sz) \div 2
  <2>1. Mod(sz) \div 2 = h
    BY <1>1
  <2> QED BY <1>1, <1>2, <1>3, <2>1
<1>8. f.c <=> d < s
  <2>1. CASE sz = 4
    <3>1. f.c <=> (Msb(s, sz) /\ Msb(r, sz)) \/ (~Msb(d, sz) /\ (Msb(s, sz) \/ Msb(r, sz)))
      BY <1>2, <2>1 DEF CFLAG_SUB
    <3> QED BY <1>1, <1>3, <1>4, <3>1
  <2>2. CASE sz # 4
    BY <1>2, <1>3, <2>2 DEF CFLAG_SUB
  <2> QED BY <2>1, <2>2
<1>9. (f.n <=> f.v) <=> Signed(d, sz) >= Signed(s, sz)
  <2>1. f.v <=> (Msb(s, sz) /\ ~Msb(d, sz) /\ Msb(r, sz)) \/ (~Msb(s, sz) /\ Msb(d, sz) /\ ~Msb(r, sz))
    BY <1>2 DEF VFLAG_SUB, Msb, Bit
  <2>2. f.n <=> Msb(r, sz)
    BY <1>2
  <2>3. (f.v <=> (s >= h /\ d < h /\ Msb(r, sz)) \/ (s < h /\ d >= h /\ ~Msb(r, sz)))
    BY <1>1, <1>4, <2>1
  <2> QED BY <1>1, <1>3, <1>5, <2>2, <2>3
<1>10. f.n \in BOOLEAN /\ f.v \in BOOLEAN
  BY <1>2 DEF VFLAG_SUB, Msb, Bit
<1> QED BY <1>6, <1>7, <1>8, <1>9, <1>10 DEF f

----------------------------------------------------------------------------
(* Comparisons and conditions.                                             *)

LEMMA ConditionPairs ==
  ASSUME NEW f, f.n \in BOOLEAN, f.v \in BOOLEAN
  PROVE  /\ Cond("HI", f) <=> ~Cond("LS", f)
         /\ Cond("CC", f) <=> ~Cond("CS", f)
         /\ Cond("NE", f) <=> ~Cond("EQ", f)
         /\ Cond("VC", f) <=> ~Cond("VS", f)
         /\ Cond("PL", f) <=> ~Cond("MI", f)
         /\ Cond("GE", f) <=> ~Cond("LT", f)
         /\ Cond("GT", f) <=> ~Cond("LE", f)
         /\ Cond("LS", f) <=> f.c \/ f.z
         /\ Cond("CS", f) <=> f.c
         /\ Cond("EQ", f) <=> f.z
         /\ Cond("VS", f) <=> f.v
         /\ Cond("MI", f) <=> f.n
         /\ Cond("LT", f) <=> ~(f.n <=> f.v)
         /\ Cond("LE", f) <=> ~(f.n <=> f.v) \/ f.z
BY DEF Cond, GreaterEqual

\* The tasks there are: no step changes one.
Tasks ==
  task.kind = "pair" => /\ task.sz \in Sizes
                        /\ task.s \in Samples(task.sz) /\ task.d \in Samples(task.sz)
                        /\ ccr \in CCR

LEMMA TasksKept == Spec => []Tasks
<1>1. Init => Tasks
  <2> SUFFICES ASSUME Init, task.kind = "pair" PROVE Tasks
    BY DEF Tasks
  <2>1. ASSUME NEW kind, NEW op, NEW sz, NEW f, NEW s, NEW d, task = Task(kind, op, sz, f, s, d)
        PROVE  task.kind = kind /\ task.sz = sz /\ task.s = s /\ task.d = d
    BY <2>1 DEF Task
  <2>2. \E sz \in Sizes : \E s, d \in Samples(sz) :
           task = Task("pair", "cmp", sz, Flags(FALSE, TRUE), s, d)
    <3>1. "chain" # "pair" /\ "shift" # "pair" /\ "field" # "pair"
      OBVIOUS
    <3> QED BY <2>1, <3>1, Zenon DEF Init
  <2>3. PICK sz \in Sizes : \E s, d \in Samples(sz) :
           task = Task("pair", "cmp", sz, Flags(FALSE, TRUE), s, d)
    BY <2>2
  <2>4. PICK s \in Samples(sz), d \in Samples(sz) :
           task = Task("pair", "cmp", sz, Flags(FALSE, TRUE), s, d)
    BY <2>3
  <2>5. task.sz = sz /\ task.s = s /\ task.d = d /\ task.ccr = Flags(FALSE, TRUE)
    BY <2>4 DEF Task
  <2>6. ccr \in CCR
    BY <2>5 DEF Init, Flags, CCR
  <2> QED BY <2>5, <2>6 DEF Tasks
<1>2. Tasks /\ [Next]_vars => Tasks'
  BY DEF Tasks, Next, vars, NextDigit, ShiftOnce, ChangeField
<1> QED BY <1>1, <1>2, PTL DEF Spec

\* A comparison of any two operands sets the flags so that each
\* condition tells how they are ordered, and one of each pair of conditions holds.
THEOREM ComparisonsOrder == Spec => []ConditionsOrder
<1>1. Tasks => ConditionsOrder
  <2> SUFFICES ASSUME Tasks, task.kind = "pair" PROVE ConditionsOrder
    BY DEF ConditionsOrder
  <2> DEFINE sz == task.sz
             f == cmp(task.s, task.d, ccr, sz).ccr
             s == Signed(task.s, sz)
             d == Signed(task.d, sz)
             Told == {IF d < s THEN "LT" ELSE "GE", IF d > s THEN "GT" ELSE "LE",
                      IF task.d < task.s THEN "CS" ELSE "CC",
                      IF task.d > task.s THEN "HI" ELSE "LS",
                      IF d = s THEN "EQ" ELSE "NE",
                      IF f.v THEN "VS" ELSE "VC",
                      IF Low(d - s, sz) >= Mod(sz) \div 2 THEN "MI" ELSE "PL"}
  <2>1. sz \in Sizes /\ task.s \in Word(sz) /\ task.d \in Word(sz)
    BY SamplesAssumption DEF Tasks, Word
  <2>2. /\ f.c <=> task.d < task.s
        /\ f.z <=> task.d = task.s
        /\ f.n <=> Low(task.d - task.s, sz) >= Mod(sz) \div 2
        /\ (f.n <=> f.v) <=> d >= s
        /\ f.n \in BOOLEAN /\ f.v \in BOOLEAN
    BY <2>1, Compared, Zenon
  <2>3. /\ task.s \in Int /\ task.d \in Int /\ s \in Int /\ d \in Int
        /\ d = s <=> task.d = task.s
        /\ Low(d - s, sz) = Low(task.d - task.s, sz)
    BY <2>1, SignedDifference
  <2>4. /\ Cond("GE", f) <=> ~(d < s)
        /\ Cond("LT", f) <=> d < s
        /\ Cond("GT", f) <=> d > s
        /\ Cond("LE", f) <=> ~(d > s)
        /\ Cond("CC", f) <=> ~(task.d < task.s)
        /\ Cond("CS", f) <=> task.d < task.s
        /\ Cond("HI", f) <=> task.d > task.s
        /\ Cond("LS", f) <=> ~(task.d > task.s)
        /\ Cond("NE", f) <=> ~(d = s)
        /\ Cond("EQ", f) <=> d = s
        /\ Cond("VC", f) <=> ~f.v
        /\ Cond("VS", f) <=> f.v
        /\ Cond("PL", f) <=> ~(Low(d - s, sz) >= Mod(sz) \div 2)
        /\ Cond("MI", f) <=> Low(d - s, sz) >= Mod(sz) \div 2
    <3> HIDE DEF f, s, d, sz
    <3>1. task.s \in Int /\ task.d \in Int
      BY <2>3
    <3> QED BY <2>2, <2>3, ConditionPairs
  <2>5. \A cc \in Conditions : Cond(cc, f) <=> cc \in Told
    <3> HIDE DEF f, s, d, sz
    <3>1. /\ ("GE" \in Told <=> ~(d < s)) /\ ("LT" \in Told <=> d < s)
          /\ ("GT" \in Told <=> d > s) /\ ("LE" \in Told <=> ~(d > s))
          /\ ("CC" \in Told <=> ~(task.d < task.s)) /\ ("CS" \in Told <=> task.d < task.s)
          /\ ("HI" \in Told <=> task.d > task.s) /\ ("LS" \in Told <=> ~(task.d > task.s))
          /\ ("NE" \in Told <=> ~(d = s)) /\ ("EQ" \in Told <=> d = s)
          /\ ("VC" \in Told <=> ~f.v) /\ ("VS" \in Told <=> f.v)
          /\ ("PL" \in Told <=> ~(Low(d - s, sz) >= Mod(sz) \div 2))
          /\ ("MI" \in Told <=> Low(d - s, sz) >= Mod(sz) \div 2)
      OBVIOUS
    <3> HIDE DEF Told
    <3> QED BY <2>4, <3>1 DEF Conditions
  <2>6. {cc \in Conditions : Cond(cc, f)} = Told
    <3>1. Told \subseteq Conditions
      BY DEF Conditions
    <3> HIDE DEF f, Told
    <3> QED BY <2>5, <3>1
  <2> QED BY <2>6 DEF ConditionsOrder
<1> QED BY <1>1, TasksKept, PTL

----------------------------------------------------------------------------
(* Multiplication and division.                                            *)

\* A word and a half make a long word.
LEMMA LongWord == Mod(4) = Mod(2) * Mod(2) /\ Half(4) = Half(2) * Mod(2)
<1>1. /\ Width(2) \in 0 .. Width(4) /\ Width(4) = Width(2) + Width(2)
      /\ Width(2) - 1 \in 0 .. Width(4) /\ Width(4) - 1 = (Width(2) - 1) + Width(2)
  BY AluAssumption DEF Width
<1> DEFINE w == Width(2)
           i == Width(2) - 1
<1>2. Half(2) = 2 ^ i /\ Mod(2) = 2 ^ w
  BY DEF Half, Mod
<1> HIDE DEF w, i
<1>3. Mod(4) = 2 ^ (w + w) /\ Half(4) = 2 ^ (i + w)
  BY <1>1 DEF Mod, Half, w, i
<1>4. w \in 0 .. Width(4) /\ i \in 0 .. Width(4)
  BY <1>1 DEF w, i
<1> QED BY <1>2, <1>3, <1>4, PowersAssumption

\* The part of a number a register holds gives it back, if it fits.
LEMMA Fits ==
  ASSUME NEW sz \in Sizes, NEW v \in Int
  PROVE  /\ Low(v, sz) \in Word(sz)
         /\ v \in Word(sz) => Low(v, sz) = v
         /\ -Half(sz) <= v /\ v < Half(sz) => Signed(Low(v, sz), sz) = v
<1> DEFINE h == Half(sz)
           l == Low(v, sz)
<1>1. h \in Nat \ {0} /\ Mod(sz) = 2 * h
  BY Widths
<1>2. l = v % (2 * h)
  BY <1>1 DEF Low
<1> HIDE DEF h, l
<1>3. l \in Int /\ 0 <= l /\ l < 2 * h /\ v = (v \div (2 * h)) * (2 * h) + l /\ v \div (2 * h) \in Int
  BY <1>1, <1>2, DivMod, 2 * h \in Nat \ {0}
<1>4. l \in Word(sz)
  BY <1>1, <1>3 DEF Word
<1>5. v \in Word(sz) => l = v
  BY <1>1, <1>2 DEF Word
<1>6. ASSUME -h <= v, v < h
      PROVE  Signed(l, sz) = v
  <2>1. l = IF v >= 0 THEN v ELSE v + 2 * h
    BY <1>1, <1>2, <1>6
  <2>2. Signed(l, sz) = IF l >= h THEN l - 2 * h ELSE l
    BY <1>4, TopBit, Zenon DEF h
  <2> QED BY <1>1, <1>6, <2>1, <2>2
<1> QED BY <1>4, <1>5, <1>6 DEF h, l

\* Of a number of any size, too.
LEMMA SignedRange ==
  ASSUME NEW sz \in Sizes, NEW v \in Int
  PROVE  Signed(v, sz) \in Int /\ -Half(sz) <= Signed(v, sz) /\ Signed(v, sz) < Half(sz)
<1> DEFINE h == Half(sz)
           k == v \div (2 * h)
           l == v % (2 * h)
<1>1. h \in Nat \ {0} /\ 2 * h \in Nat \ {0} /\ Mod(sz) = 2 * h
  BY Widths
<1>2. /\ Low(v, sz) = l
      /\ Signed(v, sz) = IF (v \div h) % 2 = 1 THEN l - 2 * h ELSE l
  BY <1>1 DEF Signed, Msb, Bit, Low, Half
<1> HIDE DEF h
<1>3. k \in Int /\ l \in Int /\ 0 <= l /\ l < 2 * h /\ v = k * (2 * h) + l
  BY <1>1, DivMod
<1> HIDE DEF k, l
<1>4. v = l + (2 * k) * h /\ 2 * k \in Int
  BY <1>1, <1>3
<1>5. v \div h = (l \div h) + 2 * k
  <2> DEFINE j == 2 * k
  <2> HIDE DEF j
  <2>1. (l + j * h) \div h = (l \div h) + j
    BY <1>1, <1>3, <1>4, Around DEF j
  <2> QED BY <1>4, <2>1 DEF j
<1>6. l \div h = IF l >= h THEN 1 ELSE 0
  BY <1>1, <1>3, Part, 0 * h = 0, 1 * h = h
<1>7. (v \div h) % 2 = 1 <=> l >= h
  BY <1>3, <1>5, <1>6
<1> QED BY <1>1, <1>2, <1>3, <1>7 DEF h

\* A quotient is rounded towards zero, so that the rest has the sign of the dividend.
LEMMA Rounding ==
  ASSUME NEW a \in Int, NEW b \in Int, b # 0
  PROVE  /\ Quotient(a, b) \in Int /\ Rest(a, b) \in Int
         /\ Divided(a, b, Quotient(a, b), Rest(a, b))
         /\ Abs(Quotient(a, b)) <= Abs(a)
         /\ Abs(Quotient(a, b)) = Abs(a) => a = 0 \/ Abs(b) = 1
<1> DEFINE m == Abs(a)
           n == Abs(b)
           k == m \div n
<1>1. m \in Nat /\ n \in Nat \ {0} /\ (a = m \/ a = -m) /\ (b = n \/ b = -n)
         /\ (a < 0 => a = -m) /\ (b < 0 => b = -n) /\ (a >= 0 => a = m) /\ (b >= 0 => b = n)
  BY DEF Abs
<1>2. Quotient(a, b) = IF (a < 0) = (b < 0) THEN k ELSE -k
  BY DEF Quotient
<1> HIDE DEF m, n
<1>3. k \in Int /\ m % n \in Int /\ 0 <= m % n /\ m % n < n /\ m = k * n + (m % n)
  BY <1>1, DivMod
<1>4. k >= 0 /\ k <= m /\ (k = m => m = 0 \/ n = 1)
  BY <1>1, <1>3
<1> HIDE DEF k
<1> DEFINE q == Quotient(a, b)
           r == m % n
<1>5. q = IF (a < 0) = (b < 0) THEN k ELSE -k
  BY <1>2
<1> HIDE DEF q, r
<1>6. r \in Int /\ 0 <= r /\ r < n /\ m = k * n + r /\ q \in Int
  BY <1>3, <1>5 DEF r
<1>7. b * q = IF a < 0 THEN -(k * n) ELSE k * n
  <2>1. CASE a < 0 /\ b < 0
    <3>1. b = -n /\ q = k
      BY <1>1, <1>5, <2>1
    <3> QED BY <1>1, <1>3, <2>1, <3>1
  <2>2. CASE a < 0 /\ ~(b < 0)
    <3>1. b = n /\ q = -k
      BY <1>1, <1>5, <2>2
    <3> QED BY <1>1, <1>3, <2>2, <3>1
  <2>3. CASE ~(a < 0) /\ b < 0
    <3>1. b = -n /\ q = -k
      BY <1>1, <1>5, <2>3
    <3> QED BY <1>1, <1>3, <2>3, <3>1
  <2>4. CASE ~(a < 0) /\ ~(b < 0)
    <3>1. b = n /\ q = k
      BY <1>1, <1>5, <2>4
    <3> QED BY <1>1, <1>3, <2>4, <3>1
  <2> QED BY <2>1, <2>2, <2>3, <2>4
<1> DEFINE p == k * n
           rest == Rest(a, b)
<1>8. rest = a - b * q
  BY DEF Rest, q
<1> HIDE DEF rest
<1>9. rest = IF a < 0 THEN -r ELSE r
  <2>1. p \in Int /\ m = p + r /\ b * q = IF a < 0 THEN -p ELSE p
    BY <1>1, <1>3, <1>6, <1>7
  <2> HIDE DEF p
  <2> QED BY <1>1, <1>6, <1>8, <2>1
<1>10. rest \in Int /\ Abs(rest) < n /\ (rest = 0 \/ (rest < 0) = (a < 0))
  BY <1>6, <1>9 DEF Abs
<1>11. a = b * q + rest
  <2>1. b * q \in Int
    BY <1>6
  <2> QED BY <1>8, <2>1
<1>12. Divided(a, b, q, rest)
  BY <1>10, <1>11 DEF Divided, n
<1>13. Abs(q) = k
  BY <1>3, <1>4, <1>5 DEF Abs
<1>14. Abs(q) <= m /\ (Abs(q) = m => m = 0 \/ n = 1)
  BY <1>4, <1>13
<1>15. m = 0 => a = 0
  BY <1>1
<1> HIDE DEF k, r
<1> QED BY <1>6, <1>10, <1>12, <1>14, <1>15 DEF m, n, q, rest

\* A product of words fits a long word.
LEMMA Bounds ==
  ASSUME NEW q \in Int, NEW l \in Int, NEW m \in Nat \ {0}, NEW k \in Int, 0 <= l, l < m
  PROVE  /\ q * m + l < k * m => q < k
         /\ k * m <= q * m + l => k <= q
<1>1. ASSUME q >= k PROVE q * m + l >= k * m
  <2>1. (q - k) * m >= 0
    BY <1>1
  <2>2. (q - k) * m = q * m - k * m
    OBVIOUS
  <2> QED BY <2>1, <2>2
<1>2. ASSUME q < k PROVE q * m + l < k * m
  <2>1. (k - q) * m >= m
    BY <1>2
  <2>2. (k - q) * m = k * m - q * m
    OBVIOUS
  <2> QED BY <2>1, <2>2
<1> QED BY <1>1, <1>2

LEMMA WordProduct ==
  ASSUME NEW s \in Word(2), NEW d \in Word(2)
  PROVE  /\ Low(s * d, 4) = s * d
         /\ Signed(Low(Signed(s, 2) * Signed(d, 2), 4), 4) = Signed(s, 2) * Signed(d, 2)
<1> DEFINE h == Half(2)
           m == Mod(2)
           a == Signed(s, 2)
           b == Signed(d, 2)
<1>1. 2 \in Sizes /\ 4 \in Sizes
  BY DEF Sizes
<1>2. /\ h \in Nat \ {0} /\ m = 2 * h /\ Mod(4) = m * m /\ Half(4) = h * m
      /\ s \in Int /\ 0 <= s /\ s < m /\ d \in Int /\ 0 <= d /\ d < m
  BY <1>1, Widths, LongWord DEF Word
<1>3. /\ a = IF s >= h THEN s - 2 * h ELSE s
      /\ b = IF d >= h THEN d - 2 * h ELSE d
  BY <1>1, TopBit, Zenon
<1> HIDE DEF h, m, a, b
<1>4. a \in Int /\ b \in Int /\ -h <= a /\ a < h /\ -h <= b /\ b < h
  BY <1>2, <1>3
<1>5. s * d \in Int /\ 0 <= s * d /\ s * d < m * m
  BY <1>2
<1>6. a * b \in Int /\ -(h * h) <= a * b /\ a * b <= h * h
  BY <1>2, <1>4
<1>7. Low(s * d, 4) = s * d
  <2> DEFINE p == s * d
  <2> HIDE DEF p
  <2>1. p \in Word(4) /\ p \in Int
    BY <1>2, <1>5 DEF Word, p
  <2> QED BY <1>1, <2>1, Fits DEF p
<1>8. Signed(Low(a * b, 4), 4) = a * b
  <2> DEFINE p == a * b
  <2>1. h * h \in Nat \ {0} /\ h * m = 2 * (h * h)
    BY <1>2
  <2>2. p \in Int /\ -Half(4) <= p /\ p < Half(4)
    BY <1>2, <1>6, <2>1
  <2> HIDE DEF p
  <2> QED BY <1>1, <2>2, Fits DEF p
<1> QED BY <1>7, <1>8 DEF a, b

\* The two long words of a product.
LEMMA LongProduct ==
  ASSUME NEW s \in Word(4), NEW d \in Word(4), NEW signed \in BOOLEAN
  PROVE  LET p == As(s, 4, signed) * As(d, 4, signed)
         IN  As(Low(p \div Mod(4), 4), 4, signed) * Mod(4) + Low(p, 4) = p
<1> DEFINE h == Half(4)
           m == Mod(4)
           a == As(s, 4, signed)
           b == As(d, 4, signed)
           p == a * b
           q == p \div m
<1>1. 4 \in Sizes
  BY DEF Sizes
<1>2. /\ h \in Nat \ {0} /\ m = 2 * h /\ m \in Nat \ {0}
      /\ s \in Int /\ 0 <= s /\ s < m /\ d \in Int /\ 0 <= d /\ d < m
  BY <1>1, Widths DEF Word
<1>3. /\ a = IF signed /\ s >= h THEN s - 2 * h ELSE s
      /\ b = IF signed /\ d >= h THEN d - 2 * h ELSE d
  <2>1. /\ Signed(s, 4) = IF s >= h THEN s - 2 * h ELSE s
        /\ Signed(d, 4) = IF d >= h THEN d - 2 * h ELSE d
    BY <1>1, TopBit, Zenon
  <2> QED BY <2>1 DEF As
<1> HIDE DEF h, m, a, b
<1>4. a \in Int /\ b \in Int /\ p \in Int
  BY <1>2, <1>3
<1>5. /\ q \in Int /\ p = q * m + Low(p, 4)
      /\ Low(p, 4) \in Int /\ 0 <= Low(p, 4) /\ Low(p, 4) < m
  BY <1>2, <1>4, DivMod DEF Low, m
<1>6. As(Low(q, 4), 4, signed) = q
  <2>1. CASE signed
    <3>1. -h <= a /\ a < h /\ -h <= b /\ b < h
      BY <1>2, <1>3, <2>1
    <3>2. -(h * h) <= p /\ p <= h * h
      BY <1>2, <1>4, <3>1
    <3>3. -h <= q /\ q < h
      <4>1. h * m = h * h + h * h /\ -h * m = -(h * h) - h * h /\ h * h > 0
        BY <1>2
      <4> HIDE DEF p, q
      <4>2. -h * m <= p /\ p < h * m
        BY <1>2, <1>4, <3>2, <4>1
      <4> QED BY <1>2, <1>5, <4>2, Bounds
    <3> HIDE DEF q
    <3> QED BY <1>1, <1>5, <2>1, <3>3, Fits DEF As, h
  <2>2. CASE ~signed
    <3>1. 0 <= a /\ a < m /\ 0 <= b /\ b < m
      BY <1>2, <1>3, <2>2
    <3>2. 0 <= p /\ p < m * m
      BY <1>2, <1>4, <3>1
    <3>3. 0 <= q /\ q < m
      <4> HIDE DEF p, q
      <4> QED BY <1>2, <1>5, <3>2, Bounds, 0 * m = 0
    <3> HIDE DEF q
    <3>4. q \in Word(4)
      BY <1>2, <1>5, <3>3 DEF Word, m
    <3> QED BY <1>1, <1>5, <2>2, <3>4, Fits DEF As
  <2> QED BY <2>1, <2>2
<1> HIDE DEF p, q
<1>7. As(Low(q, 4), 4, signed) * m + Low(p, 4) = p
  BY <1>5, <1>6
<1> QED BY <1>7 DEF m, a, b, p, q

\* MULL tells with V whether the product fits a long word, and gives all of it in
\* two; MULU and MULS have room for every product: whatever the operands.
THEOREM MultiplicationExact == Spec => []ProductExact
<1>1. Tasks => ProductExact
  <2> SUFFICES ASSUME Tasks, task.kind = "pair", task.sz = 4 PROVE ProductExact
    BY DEF ProductExact
  <2>1. task.s \in Word(4) /\ task.d \in Word(4) /\ 2 \in Sizes
    BY SamplesAssumption DEF Tasks, Word, Sizes
  <2>2. ASSUME NEW signed \in BOOLEAN
        PROVE  LET p == As(task.s, 4, signed) * As(task.d, 4, signed)
                   m == mull(task.s, task.d, signed, FALSE, ccr)
                   w == mull(task.s, task.d, signed, TRUE, ccr)
               IN /\ m.ccr.v = (As(m.lo, 4, signed) # p)
                  /\ As(w.hi, 4, signed) * Mod(4) + w.lo = p
    <3> DEFINE p == As(task.s, 4, signed) * As(task.d, 4, signed)
               m == mull(task.s, task.d, signed, FALSE, ccr)
               w == mull(task.s, task.d, signed, TRUE, ccr)
    <3>1. m.lo = Low(p, 4) /\ m.ccr.v = (p # As(Low(p, 4), 4, signed))
      BY DEF mull, Codes
    <3>2. w.lo = Low(p, 4) /\ w.hi = Low(p \div Mod(4), 4)
      BY DEF mull
    <3>3. As(Low(p \div Mod(4), 4), 4, signed) * Mod(4) + Low(p, 4) = p
      BY <2>1, LongProduct
    <3> HIDE DEF p, m, w
    <3>4. m.ccr.v = (As(m.lo, 4, signed) # p)
      BY <3>1
    <3>5. As(w.hi, 4, signed) * Mod(4) + w.lo = p
      BY <3>2, <3>3
    <3> QED BY <3>4, <3>5 DEF p, m, w
  <2> DEFINE s == Low(task.s, 2)
             d == Low(task.d, 2)
  <2>3. s \in Word(2) /\ d \in Word(2)
    BY <2>1, Fits DEF Word
  <2>4. mulu(s, d, ccr).res = s * d
    BY <2>3, WordProduct DEF mulu, Logic, Result
  <2>5. Signed(muls(s, d, ccr).res, 4) = Signed(s, 2) * Signed(d, 2)
    BY <2>3, WordProduct DEF muls, Logic, Result
  <2> QED BY <2>2, <2>4, <2>5 DEF ProductExact
<1> QED BY <1>1, TasksKept, PTL
\* DIVU.W and DIVS.W.
LEMMA ShortDivision ==
  ASSUME NEW s \in 1 .. Mod(2) - 1, NEW d \in Word(4), NEW f \in CCR
  PROVE  LET w == divs(s, d, f)  u == divu(s, d, f)
             a == Signed(d, 4)  b == Signed(s, 2)
             least == a = -(Mod(4) \div 2) /\ b = -1
         IN /\ w.stored /\ ~least => Divided(a, b, Signed(w.q, 2), Signed(w.r, 2))
            /\ w.stored \/ (w.ccr.v /\ Quotient(a, b) # Signed(Quotient(a, b), 2))
            /\ u.stored => Divided(d, s, u.q, u.r)
            /\ u.stored \/ (u.ccr.v /\ d \div s >= Mod(2))
<1> DEFINE w == divs(s, d, f)
           u == divu(s, d, f)
           a == Signed(d, 4)
           b == Signed(s, 2)
           least == a = -(Mod(4) \div 2) /\ b = -1
           q == Quotient(a, b)
           h == Half(2)
           fits == q = Signed(q, 2)
<1>1. 2 \in Sizes /\ 4 \in Sizes
  BY DEF Sizes
<1>2. /\ h \in Nat \ {0} /\ Mod(2) = 2 * h /\ s \in Int /\ 0 < s /\ s < 2 * h /\ s \in Word(2)
      /\ d \in Int /\ 0 <= d
  BY <1>1, Widths DEF Word
<1>3. a \in Int
  BY <1>1, <1>2, TopBit, Widths
<1>4. b \in Int /\ b # 0 /\ -h <= b /\ b < h
  <2>1. b = IF s >= h THEN s - 2 * h ELSE s
    BY <1>1, <1>2, TopBit, Zenon
  <2> HIDE DEF b, h
  <2> QED BY <1>2, <2>1
<1>5. /\ ~least /\ fits => w = Division(Low(q, 2), Low(Rest(a, b), 2), Logic(q, f, 2).ccr, TRUE, FALSE)
      /\ ~least /\ ~fits => w = Unstored([f EXCEPT !.v = TRUE, !.c = FALSE], FALSE)
      /\ least => w = Division(0, 0, Logic(0, f, 2).ccr, TRUE, FALSE)
  <2>1. CASE least
    BY <1>4, <2>1, Zenon DEF divs
  <2>2. CASE ~least
    BY <1>4, <2>2, Zenon DEF divs
  <2> QED BY <2>1, <2>2
<1>6. u = IF d \div s >= Mod(2)
          THEN Unstored([f EXCEPT !.v = TRUE, !.c = FALSE], FALSE)
          ELSE Division(d \div s, d % s, Logic(d \div s, f, 2).ccr, TRUE, FALSE)
  <2>1. s # 0
    BY <1>2
  <2>2. CASE d \div s >= Mod(2)
    BY <2>1, <2>2, Zenon DEF divu
  <2>3. CASE ~(d \div s >= Mod(2))
    BY <2>1, <2>3, Zenon DEF divu
  <2> QED BY <2>2, <2>3
<1> DEFINE r == Rest(a, b)
<1>7. q \in Int /\ r \in Int /\ Divided(a, b, q, r)
  BY <1>3, <1>4, Rounding
<1> HIDE DEF w, u, a, b, q, r, h, least, fits
<1>8. w.stored /\ ~least => Divided(a, b, Signed(w.q, 2), Signed(w.r, 2))
  <2> SUFFICES ASSUME w.stored, ~least PROVE Divided(a, b, Signed(w.q, 2), Signed(w.r, 2))
    OBVIOUS
  <2>1. fits /\ w.q = Low(q, 2) /\ w.r = Low(r, 2)
    BY <1>5 DEF Unstored, Division, r
  <2>2. -h <= q /\ q < h
    BY <1>1, <1>7, <2>1, SignedRange DEF fits, h
  <2>3. Signed(w.q, 2) = q
    BY <1>1, <1>7, <2>1, <2>2, Fits DEF h
  <2>4. -h <= r /\ r < h
    BY <1>2, <1>4, <1>7 DEF Divided, Abs
  <2>5. Signed(w.r, 2) = r
    BY <1>1, <1>7, <2>1, <2>4, Fits DEF h
  <2> QED BY <1>7, <2>3, <2>5
<1>9. w.stored \/ (w.ccr.v /\ q # Signed(q, 2))
  <2>1. CASE least \/ fits
    BY <1>5, <2>1 DEF Division
  <2>2. CASE ~least /\ ~fits
    <3>1. w.ccr.v = TRUE
      <4>1. w.ccr = [f EXCEPT !.v = TRUE, !.c = FALSE]
        BY <1>5, <2>2 DEF Unstored, Division
      <4> QED BY <4>1 DEF CCR
    <3> QED BY <2>2, <3>1 DEF fits
  <2> QED BY <2>1, <2>2
<1>10. u.stored => Divided(d, s, u.q, u.r)
  <2> SUFFICES ASSUME u.stored PROVE Divided(d, s, u.q, u.r)
    OBVIOUS
  <2>1. u.q = d \div s /\ u.r = d % s
    BY <1>6 DEF Unstored, Division
  <2> DEFINE uq == d \div s
             ur == d % s
  <2>2. uq \in Int /\ ur \in Int /\ 0 <= ur /\ ur < s /\ d = uq * s + ur
    BY <1>2, DivMod
  <2> HIDE DEF uq, ur
  <2>3. d = s * uq + ur
    BY <1>2, <2>2
  <2> QED BY <1>2, <2>1, <2>2, <2>3 DEF Divided, Abs, uq, ur
<1>11. u.stored \/ (u.ccr.v /\ d \div s >= Mod(2))
  BY <1>6 DEF Unstored, Division, CCR
<1> QED BY <1>8, <1>9, <1>10, <1>11 DEF w, u, a, b, q, least

LongDivided(s, hi, d, signed, wide, f) ==
  LET q == divl(s, hi, d, signed, wide, f)
      a == IF wide THEN As(hi, 4, signed) * Mod(4) + d ELSE As(d, 4, signed)
      b == As(s, 4, signed)
      least == a = -(Mod(4) \div 2) /\ b = -1
  IN IF s = 0 THEN q.trap /\ ~q.stored
     ELSE IF q.stored
          THEN ~least => Divided(a, b, As(q.q, 4, signed), As(q.r, 4, signed))
          ELSE q.ccr.v /\ wide

\* DIVL: of a long word, or of two.
LEMMA LongDivision ==
  ASSUME NEW s \in Word(4), NEW hi \in Word(4), NEW d \in Word(4),
         NEW signed \in BOOLEAN, NEW wide \in BOOLEAN, NEW f \in CCR
  PROVE  LongDivided(s, hi, d, signed, wide, f)
<1> DEFINE a == IF wide THEN As(hi, 4, signed) * Mod(4) + d ELSE As(d, 4, signed)
           b == As(s, 4, signed)
           least == a = -(Mod(4) \div 2) /\ b = -1
           w == divl(s, hi, d, signed, wide, f)
           q == Quotient(a, b)
           r == Rest(a, b)
           h == Half(4)
           fits == q = As(Low(q, 4), 4, signed)
<1>1. 4 \in Sizes
  BY DEF Sizes
<1>2. /\ h \in Nat \ {0} /\ Mod(4) = 2 * h /\ Mod(4) \in Nat \ {0} /\ Mod(4) \div 2 = h
      /\ s \in Int /\ 0 <= s /\ s < 2 * h /\ d \in Int /\ 0 <= d /\ d < 2 * h
      /\ hi \in Int /\ 0 <= hi /\ hi < 2 * h
  BY <1>1, Widths DEF Word
<1>3. /\ s = 0 => w = Unstored(f, TRUE)
      /\ s # 0 /\ wide /\ ~fits => w = Unstored([f EXCEPT !.v = TRUE], FALSE)
      /\ s # 0 /\ ~(wide /\ ~fits) =>
           w = Division(Low(q, 4), Low(r, 4), Logic(q, f, 4).ccr, TRUE, FALSE)
  <2>1. a = IF ~signed THEN IF wide THEN hi * Mod(4) + d ELSE d
            ELSE IF ~wide THEN Signed(d, 4) ELSE Signed(hi, 4) * Mod(4) + d
    BY Zenon DEF As
  <2> HIDE DEF a
  <2>2. CASE s = 0
    BY <2>1, <2>2, Zenon DEF divl
  <2>3. CASE s # 0 /\ wide /\ ~fits
    BY <2>1, <2>3, Zenon DEF divl
  <2>4. CASE s # 0 /\ ~(wide /\ ~fits)
    BY <2>1, <2>4, Zenon DEF divl
  <2> QED BY <2>2, <2>3, <2>4
<1>4. /\ Signed(s, 4) = IF s >= h THEN s - 2 * h ELSE s
      /\ Signed(d, 4) = IF d >= h THEN d - 2 * h ELSE d
  BY <1>1, TopBit, Zenon
<1>5. /\ b \in Int /\ (s # 0 => b # 0)
      /\ signed => -h <= b /\ b < h
      /\ ~signed => 0 <= b /\ b < 2 * h
  <2> HIDE DEF h
  <2> QED BY <1>2, <1>4 DEF As
<1>6. /\ a \in Int
      /\ ~wide /\ signed => -h <= a /\ a < h
      /\ ~wide /\ ~signed => 0 <= a /\ a < 2 * h
      /\ ~signed => 0 <= a
  <2>1. As(hi, 4, signed) \in Int /\ (~signed => 0 <= As(hi, 4, signed))
    BY <1>1, <1>2, SignedRange DEF As
  <2> DEFINE x == As(hi, 4, signed)
             m == Mod(4)
  <2>2. x * m \in Int /\ (~signed => 0 <= x * m)
    BY <1>2, <2>1
  <2>3. CASE wide
    <3> DEFINE p == x * m
    <3> HIDE DEF p
    <3>1. a = p + d
      BY <2>3 DEF p
    <3> HIDE DEF a
    <3> QED BY <1>2, <2>2, <2>3, <3>1 DEF p
  <2>4. CASE ~wide
    <3>1. a = As(d, 4, signed)
      BY <2>4
    <3> HIDE DEF a, h
    <3> QED BY <1>2, <1>4, <2>4, <3>1 DEF As
  <2> QED BY <2>3, <2>4
<1> HIDE DEF a, b, w, q, r, h, least, fits
<1>7. CASE s = 0
  <2>1. w.trap /\ ~w.stored
    BY <1>3, <1>7 DEF Unstored, Division
  <2> QED BY <1>7, <2>1 DEF w, LongDivided
<1>8. CASE s # 0
  <2>1. q \in Int /\ r \in Int /\ Divided(a, b, q, r) /\ Abs(q) <= Abs(a)
          /\ (Abs(q) = Abs(a) => a = 0 \/ Abs(b) = 1)
    BY <1>5, <1>6, <1>8, Rounding DEF q, r
  <2>2. CASE wide /\ ~fits
    <3>1. w.stored = FALSE /\ w.ccr = [f EXCEPT !.v = TRUE]
      BY <1>3, <1>8, <2>2 DEF Unstored, Division
    <3>2. w.ccr.v = TRUE
      BY <3>1 DEF CCR
    <3> QED BY <1>8, <2>2, <3>1, <3>2 DEF w, LongDivided
  <2>3. CASE ~(wide /\ ~fits)
    <3>1. w.stored = TRUE /\ w.q = Low(q, 4) /\ w.r = Low(r, 4)
      BY <1>3, <1>8, <2>3 DEF Division
    <3>2. ASSUME ~least PROVE fits
      <4>1. CASE wide
        BY <2>3, <4>1
      <4>2. CASE ~wide /\ signed
        <5>1. -h <= q /\ q <= h
          BY <1>2, <1>6, <2>1, <4>2 DEF Abs
        <5>2. q # h
          <6> SUFFICES ASSUME q = h PROVE FALSE
            OBVIOUS
          <6>1. a = -h /\ (b = 1 \/ b = -1)
            BY <1>2, <1>5, <1>6, <2>1, <4>2 DEF Abs
          <6>2. b = 1
            BY <1>2, <3>2, <6>1 DEF least
          <6>3. r = 0 /\ a = 1 * q + r
            BY <2>1, <6>2 DEF Divided, Abs
          <6> QED BY <1>2, <6>1, <6>3
        <5>3. Signed(Low(q, 4), 4) = q
          BY <1>1, <1>2, <2>1, <5>1, <5>2, Fits DEF h
        <5> QED BY <4>2, <5>3 DEF As, fits
      <4>3. CASE ~wide /\ ~signed
        <5>1. 0 <= a /\ a < 2 * h /\ 0 < b
          BY <1>2, <1>5, <1>6, <1>8, <4>3
        <5>2. a = b * q + r /\ r < b
          BY <1>5, <2>1, <5>1 DEF Divided, Abs
        <5>3. q >= 0
          <6> SUFFICES ASSUME q < 0 PROVE FALSE
            BY <2>1
          <6>1. b * q <= -b /\ b * q \in Int
            BY <1>5, <2>1, <5>1
          <6> QED BY <1>5, <1>6, <2>1, <5>1, <5>2, <6>1
        <5>4. q \in Word(4)
          BY <1>2, <1>6, <2>1, <5>1, <5>3 DEF Word, Abs
        <5>5. Low(q, 4) = q
          BY <1>1, <2>1, <5>4, Fits
        <5> QED BY <4>3, <5>5 DEF As, fits
      <4> QED BY <4>1, <4>2, <4>3
    <3>3. As(Low(r, 4), 4, signed) = r
      <4>1. Abs(r) < Abs(b) /\ (r = 0 \/ (r < 0) = (a < 0))
        BY <2>1 DEF Divided
      <4>2. CASE signed
        <5>1. -h <= r /\ r < h
          BY <1>2, <1>5, <2>1, <4>1, <4>2 DEF Abs
        <5>2. Signed(Low(r, 4), 4) = r
          BY <1>1, <2>1, <5>1, Fits DEF h
        <5> QED BY <4>2, <5>2 DEF As
      <4>3. CASE ~signed
        <5>1. 0 <= r /\ r < 2 * h
          BY <1>2, <1>5, <1>6, <2>1, <4>1, <4>3 DEF Abs
        <5>2. r \in Word(4)
          BY <1>2, <2>1, <5>1 DEF Word
        <5>3. Low(r, 4) = r
          BY <1>1, <2>1, <5>2, Fits
        <5> QED BY <4>3, <5>3 DEF As
      <4> QED BY <4>2, <4>3
    <3>4. ~least => Divided(a, b, As(w.q, 4, signed), As(w.r, 4, signed))
      BY <2>1, <3>1, <3>2, <3>3 DEF fits
    <3> QED BY <1>8, <3>1, <3>4 DEF a, b, w, least, LongDivided
  <2> QED BY <2>2, <2>3
<1> QED BY <1>7, <1>8

\* A division that stores gives the quotient rounded towards zero and the rest of
\* the dividend, whatever the operands, and one that does not reports an overflow or
\* traps; the smallest dividend by -1 is left out.
THEOREM DivisionIsExact == Spec => []DivisionExact
<1>1. Tasks => DivisionExact
  <2> SUFFICES ASSUME Tasks, task.kind = "pair", task.sz = 4 PROVE DivisionExact
    BY DEF DivisionExact
  <2>1. /\ task.s \in Word(4) /\ task.d \in Word(4) /\ ccr \in CCR
        /\ \A hi \in Samples(4) : hi \in Word(4)
    BY SamplesAssumption DEF Tasks, Word, Sizes
  <2>2. \A s \in 1 .. Mod(2) - 1 :
          LET w == divs(s, task.d, ccr)  u == divu(s, task.d, ccr)
              a == Signed(task.d, 4)  b == Signed(s, 2)
              least == a = -(Mod(4) \div 2) /\ b = -1
          IN /\ w.stored /\ ~least => Divided(a, b, Signed(w.q, 2), Signed(w.r, 2))
             /\ w.stored \/ (w.ccr.v /\ Quotient(a, b) # Signed(Quotient(a, b), 2))
             /\ u.stored => Divided(task.d, s, u.q, u.r)
             /\ u.stored \/ (u.ccr.v /\ task.d \div s >= Mod(2))
    BY <2>1, ShortDivision, Zenon
  <2>3. \A hi \in Samples(4), signed, wide \in BOOLEAN :
          LongDivided(task.s, hi, task.d, signed, wide, ccr)
    BY <2>1, LongDivision
  <2> QED BY <2>2, <2>3, Zenon DEF DivisionExact, LongDivided
<1> QED BY <1>1, TasksKept, PTL

----------------------------------------------------------------------------
(***************************************************************************)
(* Sums over the digits of a number.                                       *)
(***************************************************************************)

\* A set that has 0 and with each number the next has all of them.
LEMMA SetInduction ==
  ASSUME NEW T, 0 \in T, \A n \in Nat : n \in T => n + 1 \in T
  PROVE  \A n \in Nat : n \in T
<1> DEFINE U == Nat \ T
           R == OpToRel(<, Nat)
<1>1. SUFFICES ASSUME U # {} PROVE FALSE
  OBVIOUS
<1>2. IsWellFoundedOn(R, Nat) /\ U \subseteq Nat
  BY NatLessThanWellFounded
<1>3. \A y, x \in Nat : y < x => <<y, x>> \in R
  BY DEF OpToRel
<1> HIDE DEF R
<1>4. PICK x \in U : \A y \in U : ~(<<y, x>> \in R)
  <2> HIDE DEF U
  <2> QED BY <1>1, <1>2, WFMin
<1>5. x # 0 /\ x - 1 \in Nat /\ x - 1 < x
  OBVIOUS
<1>6. x - 1 \in T
  BY <1>3, <1>4, <1>5
<1>7. (x - 1) + 1 \in T /\ (x - 1) + 1 = x
  BY <1>5, <1>6
<1> QED BY <1>7

\* Every start and every step, in a set, has a sequence of iterates.
From0(S, a, step) ==
  {f \in [Nat -> S] : f[0] = a /\ \A n \in Nat : f[n + 1] = step[n][f[n]]}

LEMMA Iterates ==
  ASSUME NEW S, NEW a \in S, NEW step \in [Nat -> [S -> S]]
  PROVE  From0(S, a, step) # {}
<1> DEFINE Upto(n) == {f \in [0 .. n -> S] :
                         f[0] = a /\ \A i \in 0 .. n - 1 : f[i + 1] = step[i][f[i]]}
           Some == {n \in Nat : Upto(n) # {}}
<1>1. \A n \in Nat : Upto(n) # {}
  <2>1. 0 \in Some
    <3>1. [i \in 0 .. 0 |-> a] \in Upto(0)
      OBVIOUS
    <3> QED BY <3>1
  <2>2. ASSUME NEW n \in Nat, n \in Some PROVE n + 1 \in Some
    <3>1. PICK f \in Upto(n) : TRUE
      BY <2>2
    <3> DEFINE g == [i \in 0 .. n + 1 |-> IF i <= n THEN f[i] ELSE step[n][f[n]]]
    <3>2. f \in [0 .. n -> S] /\ f[0] = a /\ \A i \in 0 .. n - 1 : f[i + 1] = step[i][f[i]]
      BY <3>1
    <3>3. f[n] \in S /\ step[n][f[n]] \in S
      BY <3>2
    <3>4. g \in [0 .. n + 1 -> S] /\ g[0] = a
      BY <3>2, <3>3
    <3>5. ASSUME NEW i \in 0 .. (n + 1) - 1 PROVE g[i + 1] = step[i][g[i]]
      <4>1. CASE i = n
        <5>1. n \in 0 .. n + 1 /\ n + 1 \in 0 .. n + 1 /\ ~(n + 1 <= n) /\ n <= n
          OBVIOUS
        <5>2. g[n + 1] = step[n][f[n]] /\ g[n] = f[n]
          BY <5>1
        <5> HIDE DEF g
        <5> QED BY <4>1, <5>2
      <4>2. CASE i # n
        <5>1. i \in 0 .. n - 1 /\ i + 1 <= n /\ i + 1 \in 0 .. n + 1 /\ i <= n
          BY <4>2
        <5>2. g[i + 1] = f[i + 1] /\ g[i] = f[i]
          BY <5>1
        <5> HIDE DEF g
        <5> QED BY <3>2, <5>1, <5>2
      <4> QED BY <4>1, <4>2
    <3> HIDE DEF g
    <3>6. g \in Upto(n + 1)
      BY <3>4, <3>5
    <3> QED BY <3>6
  <2>3. \A n \in Nat : n \in Some
    <3> HIDE DEF Some
    <3> QED BY <2>1, <2>2, SetInduction
  <2> QED BY <2>3
<1> DEFINE F(n) == CHOOSE f \in Upto(n) : TRUE
           h == [n \in Nat |-> F(n)[n]]
<1>2. \A n \in Nat : F(n) \in Upto(n)
  BY <1>1
<1>3. \A n \in Nat : \A f \in Upto(n), g \in Upto(n + 1) : \A i \in 0 .. n : f[i] = g[i]
  <2> SUFFICES ASSUME NEW n \in Nat, NEW f \in Upto(n), NEW g \in Upto(n + 1)
               PROVE  \A i \in 0 .. n : f[i] = g[i]
    OBVIOUS
  <2> DEFINE Same == {i \in Nat : i > n \/ f[i] = g[i]}
  <2>1. 0 \in Same
    OBVIOUS
  <2>2. ASSUME NEW i \in Nat, i \in Same PROVE i + 1 \in Same
    <3>1. CASE i + 1 > n
      BY <3>1
    <3>2. CASE i + 1 <= n
      <4>1. i \in 0 .. n - 1 /\ i \in 0 .. (n + 1) - 1 /\ f[i] = g[i]
        BY <2>2, <3>2
      <4>2. f[i + 1] = step[i][f[i]] /\ g[i + 1] = step[i][g[i]]
        BY <4>1
      <4> QED BY <4>1, <4>2
    <3> QED BY <3>1, <3>2
  <2>3. \A i \in Nat : i \in Same
    <3> HIDE DEF Same
    <3> QED BY <2>1, <2>2, SetInduction
  <2> QED BY <2>3
<1>4. ASSUME NEW n \in Nat PROVE h[n] \in S /\ h[n + 1] = step[n][h[n]]
  <2>1. F(n) \in Upto(n) /\ F(n + 1) \in Upto(n + 1)
    <3>1. n + 1 \in Nat
      OBVIOUS
    <3> HIDE DEF F, Upto
    <3> QED BY <1>2, <3>1
  <2> HIDE DEF F
  <2>2. h[n] = F(n)[n] /\ h[n + 1] = F(n + 1)[n + 1]
    OBVIOUS
  <2>3. F(n)[n] = F(n + 1)[n]
    <3>1. n \in 0 .. n
      OBVIOUS
    <3> HIDE DEF Upto
    <3> QED BY <1>3, <2>1, <3>1
  <2>4. F(n + 1)[n + 1] = step[n][F(n + 1)[n]]
    BY <2>1
  <2>5. F(n)[n] \in S
    BY <2>1
  <2> QED BY <2>2, <2>3, <2>4, <2>5
<1>5. h[0] = a
  <2>1. F(0) \in Upto(0)
    <3> HIDE DEF F, Upto
    <3> QED BY <1>2
  <2> QED BY <2>1
<1>6. h \in [Nat -> S]
  <2>1. \A n \in Nat : h[n] \in S
    BY <1>4
  <2> HIDE DEF F
  <2> QED BY <2>1
<1> HIDE DEF h
<1> QED BY <1>4, <1>5, <1>6 DEF From0

LEMMA Totals ==
  ASSUME NEW g, NEW m \in Nat, \A i \in 0 .. m - 1 : g[i] \in Int
  PROVE  /\ Total(g, 0) = 0
         /\ \A n \in 0 .. m - 1 : Total(g, n + 1) = Total(g, n) + g[n]
         /\ \A n \in 0 .. m : Total(g, n) \in Int
<1> DEFINE more == [i \in Nat |-> [x \in Int |-> IF i < m THEN x + g[i] ELSE 0]]
<1>1. PICK f \in [Nat -> Int] : f[0] = 0 /\ \A n \in Nat : f[n + 1] = more[n][f[n]]
  <2>1. more \in [Nat -> [Int -> Int]] /\ 0 \in Int
    OBVIOUS
  <2>2. From0(Int, 0, more) # {}
    <3> HIDE DEF more
    <3> QED BY <2>1, Iterates, Zenon
  <2> HIDE DEF more
  <2> QED BY <2>2 DEF From0
<1>2. \A n \in 0 .. m - 1 : f[n + 1] = f[n] + g[n]
  <2> TAKE n \in 0 .. m - 1
  <2>1. n \in Nat /\ n < m /\ f[n] \in Int
    OBVIOUS
  <2>2. more[n][f[n]] = f[n] + g[n]
    BY <2>1
  <2> QED BY <1>1, <2>1, <2>2
<1> HIDE DEF more
<1>3. ASSUME NEW n \in 0 .. m PROVE Total(g, n) = f[n]
  <2> DEFINE t == CHOOSE t : t = [i \in 0 .. n |-> IF i = 0 THEN 0 ELSE t[i - 1] + g[i - 1]]
             e == [i \in 0 .. n |-> f[i]]
             T == {i \in Nat : i > n \/ t[i] = f[i]}
  <2>1. e = [i \in 0 .. n |-> IF i = 0 THEN 0 ELSE e[i - 1] + g[i - 1]]
    <3>1. ASSUME NEW i \in 0 .. n PROVE e[i] = IF i = 0 THEN 0 ELSE e[i - 1] + g[i - 1]
      <4>1. CASE i = 0
        BY <1>1, <4>1
      <4>2. CASE i # 0
        <5>1. i - 1 \in 0 .. n /\ i - 1 \in 0 .. m - 1 /\ (i - 1) + 1 = i
          BY <4>2
        <5>2. f[i] = f[i - 1] + g[i - 1]
          BY <1>2, <5>1
        <5> QED BY <4>2, <5>1, <5>2
      <4> QED BY <4>1, <4>2
    <3> QED BY <3>1
  <2>2. t = [i \in 0 .. n |-> IF i = 0 THEN 0 ELSE t[i - 1] + g[i - 1]]
    <3> HIDE DEF e
    <3> QED BY <2>1, Zenon
  <2>3. Total(g, n) = t[n]
    BY Zenon DEF Total
  <2> HIDE DEF t
  <2>4. 0 \in T
    BY <1>1, <2>2
  <2>5. ASSUME NEW i \in Nat, i \in T PROVE i + 1 \in T
    <3>1. CASE i + 1 > n
      BY <3>1
    <3>2. CASE i + 1 <= n
      <4>1. i + 1 \in 0 .. n /\ i \in 0 .. m - 1 /\ t[i] = f[i] /\ (i + 1) - 1 = i /\ i + 1 # 0
        BY <2>5, <3>2
      <4>2. t[i + 1] = IF i + 1 = 0 THEN 0 ELSE t[(i + 1) - 1] + g[(i + 1) - 1]
        BY <2>2, <4>1
      <4> QED BY <1>2, <4>1, <4>2
    <3> QED BY <3>1, <3>2
  <2>6. \A i \in Nat : i \in T
    <3> HIDE DEF T
    <3> QED BY <2>4, <2>5, SetInduction
  <2> QED BY <2>3, <2>6
<1> QED BY <1>1, <1>2, <1>3

\* Only the summands before the end matter.
LEMMA TotalsAlike ==
  ASSUME NEW g, NEW h, NEW m \in Nat, \A i \in 0 .. m - 1 : g[i] \in Int /\ h[i] = g[i]
  PROVE  Total(g, m) = Total(h, m)
<1> DEFINE T == {n \in Nat : n > m \/ Total(g, n) = Total(h, n)}
<1>1. /\ Total(g, 0) = 0 /\ Total(h, 0) = 0
      /\ \A n \in 0 .. m - 1 : Total(g, n + 1) = Total(g, n) + g[n]
      /\ \A n \in 0 .. m - 1 : Total(h, n + 1) = Total(h, n) + h[n]
  BY Totals
<1>2. 0 \in T /\ \A n \in Nat : n \in T => n + 1 \in T
  BY <1>1
<1>3. \A n \in Nat : n \in T
  <2> HIDE DEF T
  <2> QED BY <1>2, SetInduction
<1> QED BY <1>3
----------------------------------------------------------------------------
(* One digit of a long number, in words.                                   *)

\* The sum of two words and a carry, before it is cut to its size.
LEMMA SumOfWords ==
  ASSUME NEW sz \in Sizes, NEW r \in Int, 0 <= r, r < 2 * Mod(sz)
  PROVE  /\ Low(r, sz) = IF r >= Mod(sz) THEN r - Mod(sz) ELSE r
         /\ Bit(r, Width(sz)) <=> r >= Mod(sz)
         /\ Msb(r, sz) <=> Low(r, sz) >= Half(sz)
<1> DEFINE h == Half(sz)
           m == Mod(sz)
<1>1. h \in Nat \ {0} /\ m = 2 * h /\ m \in Nat \ {0}
  BY Widths
<1>2. Low(r, sz) = r % m /\ (Bit(r, Width(sz)) <=> (r \div m) % 2 = 1)
         /\ (Msb(r, sz) <=> (r \div h) % 2 = 1)
  BY DEF Low, Bit, Msb, Half, Mod
<1>3. r < 2 * m
  OBVIOUS
<1> HIDE DEF h, m
<1>4. r \div m = IF r >= m THEN 1 ELSE 0
  BY <1>1, <1>3, Part, 0 * m = 0, 1 * m = m
<1>5. r % m = IF r >= m THEN r - m ELSE r
  BY <1>1, <1>4
<1>6. r \div h = IF r < h THEN 0 ELSE IF r < 2 * h THEN 1 ELSE IF r < 3 * h THEN 2 ELSE 3
  <2>1. 0 * h = 0 /\ 1 * h = h
    BY <1>1
  <2> QED BY <1>1, <1>3, <2>1, Part
<1> QED BY <1>1, <1>2, <1>3, <1>4, <1>5, <1>6 DEF h, m

\* The difference of two words and a borrow.
LEMMA DifferenceOfWords ==
  ASSUME NEW sz \in Sizes, NEW r \in Int, -Mod(sz) <= r, r < Mod(sz)
  PROVE  /\ Low(r, sz) = IF r < 0 THEN r + Mod(sz) ELSE r
         /\ Bit(r, Width(sz)) <=> r < 0
         /\ Msb(r, sz) <=> Low(r, sz) >= Half(sz)
<1> DEFINE h == Half(sz)
           m == Mod(sz)
<1>1. h \in Nat \ {0} /\ m = 2 * h /\ m \in Nat \ {0}
  BY Widths
<1>2. Low(r, sz) = r % m /\ (Bit(r, Width(sz)) <=> (r \div m) % 2 = 1)
         /\ (Msb(r, sz) <=> (r \div h) % 2 = 1)
  BY DEF Low, Bit, Msb, Half, Mod
<1>3. -m <= r /\ r < m
  OBVIOUS
<1> HIDE DEF h, m
<1>4. r \div m = IF r < 0 THEN -1 ELSE 0
  BY <1>1, <1>3, Part, 0 * m = 0, -1 * m = -m
<1>5. r % m = IF r < 0 THEN r + m ELSE r
  BY <1>1, <1>4
<1>6. r \div h = IF r >= h THEN 1 ELSE IF r >= 0 THEN 0 ELSE IF r >= -h THEN -1 ELSE -2
  <2>1. 0 * h = 0 /\ 1 * h = h /\ -1 * h = -h /\ -2 * h = -(2 * h)
    BY <1>1
  <2> QED BY <1>1, <1>3, <2>1, Part
<1> QED BY <1>1, <1>2, <1>3, <1>4, <1>5, <1>6 DEF h, m

\* What an instruction for one digit gives: the digit, the same carry in C and
\* X, and Z cleared by a digit that is not 0.
OneDigit(r, f, value) ==
  /\ r.ccr \in CCR /\ r.ccr.c = r.ccr.x
  /\ r.ccr.z <=> f.z /\ value = 0

LEMMA Extends ==
  ASSUME NEW l, NEW x \in BOOLEAN, NEW n \in BOOLEAN, NEW z \in BOOLEAN, NEW v \in BOOLEAN,
         NEW c \in BOOLEAN, NEW f \in CCR, NEW r,
         r = Extended([res |-> l, ccr |-> [x |-> x, n |-> n, z |-> z, v |-> v, c |-> c]], f)
  PROVE  /\ r.res = l /\ r.ccr \in CCR
         /\ r.ccr.x = x /\ r.ccr.n = n /\ r.ccr.v = v /\ r.ccr.c = c
         /\ r.ccr.z <=> f.z /\ z
<1> DEFINE b == z /\ f.z
           old == [x |-> x, n |-> n, z |-> z, v |-> v, c |-> c]
           new == [x |-> x, n |-> n, z |-> b, v |-> v, c |-> c]
<1>1. b \in BOOLEAN /\ f.z \in BOOLEAN
  BY DEF CCR
<1>2. old.z = z
  OBVIOUS
<1>3. StickyZ(old, f) = [old EXCEPT !.z = b]
  BY <1>2, Zenon DEF StickyZ
<1> HIDE DEF b
<1>4. [old EXCEPT !.z = b] = new
  OBVIOUS
<1>5. r = [res |-> l, ccr |-> new]
  <2>1. Extended([res |-> l, ccr |-> old], f) = [[res |-> l, ccr |-> old] EXCEPT !.ccr = StickyZ(old, f)]
    BY DEF Extended
  <2> HIDE DEF old, new
  <2>2. [[res |-> l, ccr |-> old] EXCEPT !.ccr = StickyZ(old, f)] = [res |-> l, ccr |-> new]
    BY <1>3, <1>4
  <2> QED BY <2>1, <2>2 DEF old
<1>6. new \in CCR
  BY <1>1 DEF CCR
<1>7. r.ccr = new /\ r.res = l
  BY <1>5
<1>8. r.ccr.x = x /\ r.ccr.n = n /\ r.ccr.v = v /\ r.ccr.c = c /\ r.ccr.z = b
  BY <1>7
<1> QED BY <1>6, <1>7, <1>8 DEF b

LEMMA AddedDigit ==
  ASSUME NEW sz \in Sizes, NEW s \in Word(sz), NEW d \in Word(sz), NEW f \in CCR
  PROVE  LET r == addx(s, d, f, sz) IN
         /\ r.res \in Word(sz) /\ OneDigit(r, f, r.res)
         /\ r.res + Number(r.ccr.x) * Mod(sz) = d + s + Number(f.x)
         /\ r.ccr.n <=> Msb(r.res, sz)
         /\ r.ccr.v <=> Number(Msb(r.res, sz)) + Number(r.ccr.x)
                          # Number(Msb(d, sz)) + Number(Msb(s, sz))
<1> DEFINE t == s + d + Number(f.x)
           r == addx(s, d, f, sz)
           h == Half(sz)
           m == Mod(sz)
           l == Low(t, sz)
           c == CFLAG_ADD(s, d, t, sz)
<1>1. /\ h \in Nat \ {0} /\ m = 2 * h /\ m \in Nat \ {0}
      /\ s \in Int /\ 0 <= s /\ s < m /\ d \in Int /\ 0 <= d /\ d < m
      /\ f.x \in BOOLEAN /\ f.z \in BOOLEAN /\ t \in Int /\ 0 <= t /\ t < 2 * m
      /\ (t = s + d \/ t = s + d + 1)
  BY Widths DEF Word, CCR, Number
<1>2. /\ r.res = l /\ r.ccr \in CCR
      /\ r.ccr.x = c /\ r.ccr.c = c /\ r.ccr.n = Msb(t, sz) /\ r.ccr.v = VFLAG_ADD(s, d, t, sz)
      /\ r.ccr.z <=> f.z /\ l = 0
  <2> DEFINE n == Msb(t, sz)
             z == (l = 0)
             v == VFLAG_ADD(s, d, t, sz)
  <2>1. Sum(s, d, t, sz) =
           [res |-> l, ccr |-> [x |-> c, n |-> n, z |-> z, v |-> v, c |-> c]]
    BY Zenon DEF Sum, Result, Codes
  <2>2. r = Extended(Sum(s, d, t, sz), f)
    BY DEF addx
  <2>3. /\ c \in BOOLEAN /\ n \in BOOLEAN /\ z \in BOOLEAN /\ v \in BOOLEAN
    BY DEF CFLAG_ADD, VFLAG_ADD, Msb, Bit
  <2> HIDE DEF t, l, c, r, n, v, z
  <2>4. r = Extended([res |-> l, ccr |-> [x |-> c, n |-> n, z |-> z, v |-> v, c |-> c]], f)
    BY <2>1, <2>2
  <2>5. /\ r.res = l /\ r.ccr \in CCR
        /\ r.ccr.x = c /\ r.ccr.c = c /\ r.ccr.n = n /\ r.ccr.v = v
        /\ r.ccr.z <=> f.z /\ z
    BY <2>3, <2>4, Extends, SMT
  <2> QED BY <2>5 DEF n, v, z
<1> HIDE DEF r
<1>3. /\ l = IF t >= m THEN t - m ELSE t
      /\ Bit(t, Width(sz)) <=> t >= m
      /\ Msb(t, sz) <=> l >= h
  <2> HIDE DEF t
  <2> QED BY <1>1, SumOfWords
<1>4. l \in Word(sz) /\ (Msb(s, sz) <=> s >= h) /\ (Msb(d, sz) <=> d >= h) /\ (Msb(l, sz) <=> l >= h)
  <2>1. l \in Word(sz)
    <3> HIDE DEF t, l
    <3> QED BY <1>1, <1>3 DEF Word, m
  <2> HIDE DEF l
  <2> QED BY <2>1, TopBit
<1>5. c <=> t >= m
  <2>1. CASE sz = 4
    <3>1. c <=> (Msb(s, sz) /\ Msb(d, sz)) \/ (~Msb(t, sz) /\ (Msb(s, sz) \/ Msb(d, sz)))
      BY <2>1 DEF CFLAG_ADD
    <3> HIDE DEF t, c, l, h, m
    <3> QED BY <1>1, <1>3, <1>4, <3>1
  <2>2. CASE sz # 4
    BY <1>3, <2>2 DEF CFLAG_ADD
  <2> QED BY <2>1, <2>2
<1>6. VFLAG_ADD(s, d, t, sz) <=> (Msb(s, sz) <=> ~Msb(t, sz)) /\ (Msb(d, sz) <=> ~Msb(t, sz))
  BY DEF VFLAG_ADD, Msb, Bit
<1>7. Number(c) = IF t >= m THEN 1 ELSE 0
  BY <1>5 DEF Number
<1>8. /\ Number(Msb(s, sz)) = IF s >= h THEN 1 ELSE 0
      /\ Number(Msb(d, sz)) = IF d >= h THEN 1 ELSE 0
      /\ Number(Msb(l, sz)) = IF l >= h THEN 1 ELSE 0
  BY <1>4 DEF Number
<1> DEFINE v == VFLAG_ADD(s, d, t, sz)
           ns == Number(Msb(s, sz))
           nd == Number(Msb(d, sz))
           nl == Number(Msb(l, sz))
<1>9. v <=> nl + Number(c) # nd + ns
  <2>1. v <=> (s >= h <=> ~(l >= h)) /\ (d >= h <=> ~(l >= h))
    BY <1>3, <1>4, <1>6
  <2> HIDE DEF v, t, c, l, h, m, ns, nd, nl
  <2> QED BY <1>1, <1>3, <1>7, <1>8, <2>1 DEF ns, nd, nl
<1>10. l + Number(c) * m = t
  <2> HIDE DEF t, c, l, h, m
  <2> QED BY <1>1, <1>3, <1>7
<1>11. OneDigit(r, f, r.res)
  <2> HIDE DEF t, c, l
  <2> QED BY <1>2, Zenon DEF OneDigit
<1>12. t = d + s + Number(f.x)
  BY <1>1 DEF Number
<1> HIDE DEF t
<1>13. r.res \in Word(sz) /\ r.ccr.n = Msb(r.res, sz)
  <2>1. Msb(t, sz) <=> Msb(l, sz)
    BY <1>3, <1>4
  <2> QED BY <1>2, <1>4, <2>1, Zenon DEF Msb, Bit
<1>14. r.res + Number(r.ccr.x) * Mod(sz) = d + s + Number(f.x)
  <2>1. r.res = l /\ Number(r.ccr.x) = Number(c)
    BY <1>2, Zenon
  <2> HIDE DEF c, l
  <2> QED BY <1>10, <1>12, <2>1 DEF m
<1>15. r.ccr.v <=> Number(Msb(r.res, sz)) + Number(r.ccr.x)
                     # Number(Msb(d, sz)) + Number(Msb(s, sz))
  <2>1. r.res = l /\ r.ccr.x = c /\ r.ccr.v = v
    BY <1>2, Zenon
  <2> HIDE DEF c, l, v
  <2> QED BY <1>9, <2>1, Zenon DEF ns, nd, nl
<1> QED BY <1>11, <1>13, <1>14, <1>15 DEF r

LEMMA SubtractedDigit ==
  ASSUME NEW sz \in Sizes, NEW s \in Word(sz), NEW d \in Word(sz), NEW f \in CCR
  PROVE  LET r == subx(s, d, f, sz) IN
         /\ r.res \in Word(sz) /\ OneDigit(r, f, r.res)
         /\ r.res - Number(r.ccr.x) * Mod(sz) = d - s - Number(f.x)
         /\ r.ccr.n <=> Msb(r.res, sz)
         /\ r.ccr.v <=> Number(Msb(r.res, sz)) - Number(r.ccr.x)
                          # Number(Msb(d, sz)) - Number(Msb(s, sz))
<1> DEFINE t == d - s - Number(f.x)
           r == subx(s, d, f, sz)
           h == Half(sz)
           m == Mod(sz)
           l == Low(t, sz)
           c == CFLAG_SUB(s, d, t, sz)
<1>1. /\ h \in Nat \ {0} /\ m = 2 * h /\ m \in Nat \ {0}
      /\ s \in Int /\ 0 <= s /\ s < m /\ d \in Int /\ 0 <= d /\ d < m
      /\ f.x \in BOOLEAN /\ f.z \in BOOLEAN /\ t \in Int /\ -m <= t /\ t < m
      /\ (t = d - s \/ t = d - s - 1)
  BY Widths DEF Word, CCR, Number
<1>2. /\ r.res = l /\ r.ccr \in CCR
      /\ r.ccr.x = c /\ r.ccr.c = c /\ r.ccr.n = Msb(t, sz) /\ r.ccr.v = VFLAG_SUB(s, d, t, sz)
      /\ r.ccr.z <=> f.z /\ l = 0
  <2> DEFINE n == Msb(t, sz)
             z == (l = 0)
             v == VFLAG_SUB(s, d, t, sz)
  <2>1. Difference(s, d, t, sz) =
           [res |-> l, ccr |-> [x |-> c, n |-> n, z |-> z, v |-> v, c |-> c]]
    BY Zenon DEF Difference, Result, Codes
  <2>2. r = Extended(Difference(s, d, t, sz), f)
    BY DEF subx
  <2>3. /\ c \in BOOLEAN /\ n \in BOOLEAN /\ z \in BOOLEAN /\ v \in BOOLEAN
    BY DEF CFLAG_SUB, VFLAG_SUB, Msb, Bit
  <2> HIDE DEF t, l, c, r, n, v, z
  <2>4. r = Extended([res |-> l, ccr |-> [x |-> c, n |-> n, z |-> z, v |-> v, c |-> c]], f)
    BY <2>1, <2>2
  <2>5. /\ r.res = l /\ r.ccr \in CCR
        /\ r.ccr.x = c /\ r.ccr.c = c /\ r.ccr.n = n /\ r.ccr.v = v
        /\ r.ccr.z <=> f.z /\ z
    BY <2>3, <2>4, Extends, SMT
  <2> QED BY <2>5 DEF n, v, z
<1> HIDE DEF r
<1>3. /\ l = IF t < 0 THEN t + m ELSE t
      /\ Bit(t, Width(sz)) <=> t < 0
      /\ Msb(t, sz) <=> l >= h
  <2> HIDE DEF t
  <2> QED BY <1>1, DifferenceOfWords
<1>4. l \in Word(sz) /\ (Msb(s, sz) <=> s >= h) /\ (Msb(d, sz) <=> d >= h) /\ (Msb(l, sz) <=> l >= h)
  <2>1. l \in Word(sz)
    <3> HIDE DEF t, l
    <3> QED BY <1>1, <1>3 DEF Word, m
  <2> HIDE DEF l
  <2> QED BY <2>1, TopBit
<1>5. c <=> t < 0
  <2>1. CASE sz = 4
    <3>1. c <=> (Msb(s, sz) /\ Msb(t, sz)) \/ (~Msb(d, sz) /\ (Msb(s, sz) \/ Msb(t, sz)))
      BY <2>1 DEF CFLAG_SUB
    <3> HIDE DEF t, c, l, h, m
    <3> QED BY <1>1, <1>3, <1>4, <3>1
  <2>2. CASE sz # 4
    BY <1>3, <2>2 DEF CFLAG_SUB
  <2> QED BY <2>1, <2>2
<1>6. VFLAG_SUB(s, d, t, sz) <=> (Msb(s, sz) <=> ~Msb(d, sz)) /\ (Msb(t, sz) <=> ~Msb(d, sz))
  BY DEF VFLAG_SUB, Msb, Bit
<1>7. Number(c) = IF t < 0 THEN 1 ELSE 0
  BY <1>5 DEF Number
<1>8. /\ Number(Msb(s, sz)) = IF s >= h THEN 1 ELSE 0
      /\ Number(Msb(d, sz)) = IF d >= h THEN 1 ELSE 0
      /\ Number(Msb(l, sz)) = IF l >= h THEN 1 ELSE 0
  BY <1>4 DEF Number
<1> DEFINE v == VFLAG_SUB(s, d, t, sz)
           ns == Number(Msb(s, sz))
           nd == Number(Msb(d, sz))
           nl == Number(Msb(l, sz))
<1>9. v <=> nl - Number(c) # nd - ns
  <2>1. v <=> (s >= h <=> ~(d >= h)) /\ (l >= h <=> ~(d >= h))
    BY <1>3, <1>4, <1>6
  <2> HIDE DEF v, t, c, l, h, m, ns, nd, nl
  <2> QED BY <1>1, <1>3, <1>7, <1>8, <2>1 DEF ns, nd, nl
<1>10. l - Number(c) * m = t
  <2> HIDE DEF t, c, l, h, m
  <2> QED BY <1>1, <1>3, <1>7
<1>11. OneDigit(r, f, r.res)
  <2> HIDE DEF t, c, l
  <2> QED BY <1>2, Zenon DEF OneDigit
<1>12. t = d - s - Number(f.x)
  BY <1>1 DEF Number
<1> HIDE DEF t
<1>13. r.res \in Word(sz) /\ r.ccr.n = Msb(r.res, sz)
  <2>1. Msb(t, sz) <=> Msb(l, sz)
    BY <1>3, <1>4
  <2> QED BY <1>2, <1>4, <2>1, Zenon DEF Msb, Bit
<1>14. r.res - Number(r.ccr.x) * Mod(sz) = d - s - Number(f.x)
  <2>1. r.res = l /\ Number(r.ccr.x) = Number(c)
    BY <1>2, Zenon
  <2> HIDE DEF c, l
  <2> QED BY <1>10, <1>12, <2>1 DEF m
<1>15. r.ccr.v <=> Number(Msb(r.res, sz)) - Number(r.ccr.x)
                     # Number(Msb(d, sz)) - Number(Msb(s, sz))
  <2>1. r.res = l /\ r.ccr.x = c /\ r.ccr.v = v
    BY <1>2, Zenon
  <2> HIDE DEF c, l, v
  <2> QED BY <1>9, <2>1, Zenon DEF ns, nd, nl
<1> QED BY <1>11, <1>13, <1>14, <1>15 DEF r

----------------------------------------------------------------------------
(* One byte of a long decimal number.                                      *)
DecimalBytes == {b \in 0 .. 255 : b % 16 < 10 /\ b \div 16 < 10}
DecimalValue(b) == (b \div 16) * 10 + (b % 16)

LEMMA DecimalWidths ==
  /\ Dec!Mod(1) = 256 /\ Dec!Mod(2) = 65536 /\ Dec!Digit = 16
  /\ Dec!Skip = 6 /\ Dec!HiMax = 144
  /\ \A v : Dec!From(v, 8 \div 2 + 2) = ((v \div 16) % 64) * 16
  /\ \A v : Dec!From(v, 8 \div 2 + 1) = ((v \div 16) % 32) * 16
  /\ \A v : Dec!Bit(v, 8) <=> ((v \div 256) % 2 = 1)
  /\ \A v : Dec!Bit(v, 8 + 1) <=> ((v \div 512) % 2 = 1)
<1>1. 8 * 1 = 8 /\ 8 * 2 = 16 /\ 8 \div 2 = 4 /\ 4 + 2 = 6 /\ 4 + 1 = 5 /\ 8 + 1 = 9
  OBVIOUS
<1>2. Dec!Width(1) = 8 /\ Dec!Width(2) = 16
  BY <1>1 DEF Dec!Width
<1>3. Dec!Mod(1) = 256 /\ Dec!Mod(2) = 65536
  <2>1. Dec!Mod(1) = 2 ^ Dec!Width(1) /\ Dec!Mod(2) = 2 ^ Dec!Width(2)
    BY DEF Dec!Mod
  <2>2. Dec!Mod(1) = 2 ^ 8 /\ Dec!Mod(2) = 2 ^ 16
    BY <1>2, <2>1
  <2> QED BY <2>2, DecimalsAssumption
<1>4. Dec!Digit = 16
  BY <1>1, DecimalsAssumption DEF Dec!Digit
<1>5. Dec!Skip = 6 /\ Dec!HiMax = 144
  BY <1>4 DEF Dec!Skip, Dec!HiMax
<1>6. 2 ^ (8 \div 2 + 2) = 64 /\ 2 ^ (8 \div 2 + 1) = 32 /\ 2 ^ 8 = 256 /\ 2 ^ (8 + 1) = 512
  BY <1>1, DecimalsAssumption
<1>7. ASSUME NEW v
      PROVE  /\ Dec!From(v, 8 \div 2 + 2) = ((v \div 16) % 64) * 16
             /\ Dec!From(v, 8 \div 2 + 1) = ((v \div 16) % 32) * 16
             /\ Dec!Bit(v, 8) <=> ((v \div 256) % 2 = 1)
             /\ Dec!Bit(v, 8 + 1) <=> ((v \div 512) % 2 = 1)
  BY <1>4, <1>6, Zenon DEF Dec!From, Dec!Bit
<1> QED BY <1>3, <1>4, <1>5, <1>7

\* A byte of two digits, by its digits.
LEMMA TwoDigits ==
  ASSUME NEW b
  PROVE  /\ b \in DecimalBytes =>
              \E q, l \in 0 .. 9 : /\ b = 16 * q + l /\ DecimalValue(b) = 10 * q + l
                                   /\ Dec!LowNibble(b) = l /\ Dec!HighNibble(b) = 16 * q
                                   /\ Dec!Low(b, 1) = b
         /\ \A q, l \in 0 .. 9 : b = 16 * q + l =>
              b \in DecimalBytes /\ DecimalValue(b) = 10 * q + l
<1>1. ASSUME b \in DecimalBytes
      PROVE  \E q, l \in 0 .. 9 : /\ b = 16 * q + l /\ DecimalValue(b) = 10 * q + l
                                  /\ Dec!LowNibble(b) = l /\ Dec!HighNibble(b) = 16 * q
                                  /\ Dec!Low(b, 1) = b
  <2> DEFINE q == b \div 16
             l == b % 16
  <2>1. /\ b \in Int /\ 0 <= b /\ b < 256 /\ q \in 0 .. 9 /\ l \in 0 .. 9 /\ b = 16 * q + l
        /\ DecimalValue(b) = 10 * q + l
    BY <1>1 DEF DecimalBytes, DecimalValue
  <2>2. Dec!LowNibble(b) = l
    BY DecimalWidths DEF Dec!LowNibble
  <2>3. b % 256 = b
    BY <2>1
  <2>4. Dec!Low(b, 1) = b /\ Dec!HighNibble(b) = b - l
    BY <2>2, <2>3, DecimalWidths DEF Dec!Low, Dec!HighNibble
  <2> HIDE DEF q, l
  <2>5. b - l = 16 * q
    BY <2>1
  <2> QED BY <2>1, <2>2, <2>4, <2>5
<1>2. ASSUME NEW q \in 0 .. 9, NEW l \in 0 .. 9, b = 16 * q + l
      PROVE  b \in DecimalBytes /\ DecimalValue(b) = 10 * q + l
  <2>1. b \in 0 .. 255 /\ b \div 16 = q /\ b % 16 = l
    BY <1>2
  <2> QED BY <2>1 DEF DecimalBytes, DecimalValue
<1> QED BY <1>1, <1>2

\* The codes of a packed instruction.
LEMMA DecimalCodes ==
  ASSUME NEW r \in Int, NEW v \in BOOLEAN, NEW c \in BOOLEAN, NEW f \in CCR,
         NEW a, a = Dec!Decimal(r, v, c, f)
  PROVE  a.res = r % 256 /\ a.ccr.x = c /\ OneDigit(a, f, r % 256)
<1> DEFINE n == Dec!Msb(r, 1)
           z == (r % 256 = 0)
           old == [x |-> c, n |-> n, z |-> z, v |-> v, c |-> c]
<1>1. n \in BOOLEAN /\ z \in BOOLEAN
  BY DEF Dec!Msb, Dec!Bit
<1>2. Dec!Low(r, 1) = r % 256
  BY DecimalWidths DEF Dec!Low
<1>3. a = [res |-> r % 256, ccr |-> Dec!StickyZ(old, f)]
  BY <1>2, Zenon DEF Dec!Decimal, Dec!Result, Dec!Codes
<1>4. Dec!StickyZ(old, f) = StickyZ(old, f)
  BY Zenon DEF Dec!StickyZ, StickyZ
<1>5. Extended([res |-> r % 256, ccr |-> old], f) = [res |-> r % 256, ccr |-> StickyZ(old, f)]
  <2> HIDE DEF old
  <2>1. Extended([res |-> r % 256, ccr |-> old], f)
          = [[res |-> r % 256, ccr |-> old] EXCEPT !.ccr = StickyZ(old, f)]
    BY DEF Extended
  <2> QED BY <2>1
<1>6. a = Extended([res |-> r % 256, ccr |-> old], f)
  <2> HIDE DEF old
  <2> QED BY <1>3, <1>4, <1>5
<1> HIDE DEF n, z
<1>7. /\ a.res = r % 256 /\ a.ccr \in CCR /\ a.ccr.x = c /\ a.ccr.c = c
      /\ a.ccr.z <=> f.z /\ z
  BY <1>1, <1>6, Extends, SMT
<1> QED BY <1>7, Zenon DEF OneDigit, z

\* What a packed instruction promises, for the value it should have.
DecimalDigit(r, f, carry, value) ==
  /\ r.res \in DecimalBytes /\ OneDigit(r, f, r.res)
  /\ DecimalValue(r.res) + carry * Number(r.ccr.x) * 100 = value

LEMMA AddedDecimal ==
  ASSUME NEW s \in DecimalBytes, NEW d \in DecimalBytes, NEW f \in CCR, NEW sz
  PROVE  DecimalDigit(Dec!abcd(s, d, f, sz), f, 1,
                      DecimalValue(d) + DecimalValue(s) + Number(f.x))
<1>1. PICK sh, sl \in 0 .. 9 :
        /\ s = 16 * sh + sl /\ DecimalValue(s) = 10 * sh + sl
        /\ Dec!LowNibble(s) = sl /\ Dec!HighNibble(s) = 16 * sh
  BY TwoDigits
<1>2. PICK dh, dl \in 0 .. 9 :
        /\ d = 16 * dh + dl /\ DecimalValue(d) = 10 * dh + dl
        /\ Dec!LowNibble(d) = dl /\ Dec!HighNibble(d) = 16 * dh
  BY TwoDigits
<1> DEFINE x == Number(f.x)
           lo == Dec!LowNibble(s) + Dec!LowNibble(d) + Dec!Number(f.x)
           sum == Dec!HighNibble(s) + Dec!HighNibble(d) + lo
           adjusted == IF lo > 10 - 1 THEN sum + Dec!Skip ELSE sum
           c == Dec!From(adjusted, 8 \div 2 + 2) > Dec!HiMax
           r == IF c THEN adjusted + Dec!Skip * Dec!Digit ELSE adjusted
           k == IF lo > 9 THEN 1 ELSE 0
           hi == sh + dh + k
           l == lo - 10 * k
           v == ~Dec!Msb(sum, 1) /\ Dec!Msb(r, 1)
           q == IF hi > 9 THEN hi - 10 ELSE hi
           a == Dec!abcd(s, d, f, sz)
<1>3. x \in {0, 1} /\ Dec!Number(f.x) = x
  BY DEF Number, Dec!Number
<1>4. a = Dec!Decimal(r, v, c, f)
  BY Zenon DEF Dec!abcd
<1> HIDE DEF x, a
<1>5. l \in 0 .. 9 /\ hi \in 0 .. 19 /\ adjusted = 16 * hi + l /\ q \in 0 .. 9
  <2>1. lo = sl + dl + x /\ sum = 16 * sh + 16 * dh + lo /\ lo \in Int
    BY <1>1, <1>2, <1>3
  <2>2. adjusted = IF lo > 9 THEN sum + 6 ELSE sum
    <3> HIDE DEF lo, sum
    <3> QED BY <2>1, DecimalWidths
  <2> HIDE DEF lo, sum, adjusted
  <2> QED BY <1>3, <2>1, <2>2
<1>6. (adjusted \div 16) % 64 = hi
  <2> HIDE DEF adjusted, hi, l
  <2>1. adjusted \div 16 = hi
    BY <1>5
  <2> QED BY <1>5, <2>1
<1>7. c <=> hi > 9
  <2> HIDE DEF adjusted, hi
  <2>1. Dec!From(adjusted, 8 \div 2 + 2) = hi * 16 /\ Dec!HiMax = 144
    BY <1>6, DecimalWidths
  <2> QED BY <1>5, <2>1
<1>8. r \in Int /\ r % 256 = 16 * q + l
  <2> HIDE DEF adjusted, c, l, hi
  <2>1. r = IF hi > 9 THEN 16 * q + l + 256 ELSE 16 * q + l
    BY <1>5, <1>7, DecimalWidths
  <2>2. r \in Int /\ 0 <= 16 * q + l /\ 16 * q + l < 256
    BY <1>5, <2>1
  <2> HIDE DEF r, q
  <2> QED BY <1>5, <2>1, <2>2
<1>9. c \in BOOLEAN /\ v \in BOOLEAN
  BY DEF Dec!Msb, Dec!Bit
<1>10. Number(c) = IF hi > 9 THEN 1 ELSE 0
  BY <1>7 DEF Number
<1>11. a.res = r % 256 /\ a.ccr.x = c /\ OneDigit(a, f, r % 256)
  <2>1. \E vv, cc \in BOOLEAN : (cc <=> c) /\ a = Dec!Decimal(r, vv, cc, f)
    <3> HIDE DEF r, v, c
    <3> QED BY <1>4, <1>9, Zenon
  <2>2. PICK vv, cc \in BOOLEAN : (cc <=> c) /\ a = Dec!Decimal(r, vv, cc, f)
    BY <2>1
  <2> HIDE DEF r, v, c, a
  <2>3. r \in Int
    BY <1>8
  <2>4. a.res = r % 256 /\ a.ccr.x = cc /\ OneDigit(a, f, r % 256)
    BY <2>2, <2>3, DecimalCodes
  <2>5. c \in BOOLEAN /\ cc = c
    BY <1>9, <2>2
  <2> QED BY <2>4, <2>5
<1>12. r % 256 \in DecimalBytes /\ DecimalValue(r % 256) = 10 * q + l
  <2> HIDE DEF r, q, l
  <2> QED BY <1>5, <1>8, TwoDigits
<1>13. 10 * q + l + 1 * Number(c) * 100 = DecimalValue(d) + DecimalValue(s) + x
  <2> DEFINE n == Number(c)
  <2>1. n = IF hi > 9 THEN 1 ELSE 0
    BY <1>10
  <2>2. lo = sl + dl + x
    BY <1>1, <1>2, <1>3
  <2> HIDE DEF c, n, lo
  <2>3. 10 * q + l + 1 * n * 100 = DecimalValue(d) + DecimalValue(s) + x
    BY <1>1, <1>2, <1>3, <2>1, <2>2
  <2> QED BY <2>3 DEF n
<1>14. Number(a.ccr.x) = Number(c) /\ a.res = r % 256
  BY <1>11, Zenon
<1> HIDE DEF r, c, q, l
<1> QED BY <1>11, <1>12, <1>13, <1>14 DEF DecimalDigit, a, x

LEMMA SubtractedDecimal ==
  ASSUME NEW s \in DecimalBytes, NEW d \in DecimalBytes, NEW f \in CCR, NEW sz
  PROVE  DecimalDigit(Dec!sbcd(s, d, f, sz), f, -1,
                      DecimalValue(d) - DecimalValue(s) - Number(f.x))
<1>1. PICK sh, sl \in 0 .. 9 :
        /\ s = 16 * sh + sl /\ DecimalValue(s) = 10 * sh + sl
        /\ Dec!LowNibble(s) = sl /\ Dec!HighNibble(s) = 16 * sh /\ Dec!Low(s, 1) = s
  BY TwoDigits
<1>2. PICK dh, dl \in 0 .. 9 :
        /\ d = 16 * dh + dl /\ DecimalValue(d) = 10 * dh + dl
        /\ Dec!LowNibble(d) = dl /\ Dec!HighNibble(d) = 16 * dh /\ Dec!Low(d, 1) = d
  BY TwoDigits
<1> DEFINE x == Number(f.x)
           lo == Dec!LowNibble(d) - Dec!LowNibble(s) - Dec!Number(f.x)
           difference == Dec!HighNibble(d) - Dec!HighNibble(s) + lo
           binary == Dec!Low(d, 1) - Dec!Low(s, 1) - Dec!Number(f.x)
           bcd == IF lo < 0 THEN Dec!Skip ELSE 0
           r == difference - bcd - (IF binary < 0 THEN Dec!Skip * Dec!Digit ELSE 0)
           t == binary - bcd
           c == Dec!Bit(t, 8) \/ Dec!Bit(t, 8 + 1)
           k == IF lo < 0 THEN 1 ELSE 0
           v == Dec!Msb(difference, 1) /\ ~Dec!Msb(r, 1)
           hi == dh - sh - k
           l == lo + 10 * k
           q == IF hi < 0 THEN hi + 10 ELSE hi
           a == Dec!sbcd(s, d, f, sz)
<1>3. x \in {0, 1} /\ Dec!Number(f.x) = x
  BY DEF Number, Dec!Number
<1>4. a = Dec!Decimal(r, v, c, f)
  BY Zenon DEF Dec!sbcd
<1> HIDE DEF x, a
<1>5. /\ l \in 0 .. 9 /\ hi \in -10 .. 9 /\ t = 16 * hi + l /\ q \in 0 .. 9
      /\ (binary < 0 <=> hi < 0) /\ difference - bcd = t
  <2>1. /\ lo = dl - sl - x /\ difference = 16 * dh - 16 * sh + lo
        /\ binary = 16 * dh + dl - (16 * sh + sl) - x /\ lo \in Int
    BY <1>1, <1>2, <1>3
  <2>2. bcd = IF lo < 0 THEN 6 ELSE 0
    BY DecimalWidths
  <2> HIDE DEF lo, difference, binary, bcd
  <2> QED BY <1>3, <2>1, <2>2
<1>6. c <=> hi < 0
  <2> HIDE DEF t, hi, l
  <2>1. t \div 256 = IF hi < 0 THEN -1 ELSE 0
    BY <1>5
  <2>2. t \div 512 = IF hi < 0 THEN -1 ELSE 0
    BY <1>5
  <2>3. /\ Dec!Bit(t, 8) <=> ((t \div 256) % 2 = 1)
        /\ Dec!Bit(t, 8 + 1) <=> ((t \div 512) % 2 = 1)
    BY DecimalWidths
  <2> QED BY <2>1, <2>2, <2>3
<1>7. r \in Int /\ r % 256 = 16 * q + l
  <2>1. r = t - (IF hi < 0 THEN 6 * 16 ELSE 0)
    <3> HIDE DEF t, hi, difference, bcd, binary
    <3> QED BY <1>5, DecimalWidths
  <2> HIDE DEF r, t, hi, l
  <2>2. r = IF hi < 0 THEN 16 * q + l - 256 ELSE 16 * q + l
    BY <1>5, <2>1
  <2>3. r \in Int /\ 0 <= 16 * q + l /\ 16 * q + l < 256
    BY <1>5, <2>2
  <2> HIDE DEF q
  <2> QED BY <1>5, <2>2, <2>3
<1>8. c \in BOOLEAN /\ v \in BOOLEAN
  BY DEF Dec!Msb, Dec!Bit
<1>9. Number(c) = IF hi < 0 THEN 1 ELSE 0
  BY <1>6 DEF Number
<1>10. a.res = r % 256 /\ a.ccr.x = c /\ OneDigit(a, f, r % 256)
  <2>1. \E vv, cc \in BOOLEAN : (cc <=> c) /\ a = Dec!Decimal(r, vv, cc, f)
    <3> HIDE DEF r, v, c
    <3> QED BY <1>4, <1>8, Zenon
  <2>2. PICK vv, cc \in BOOLEAN : (cc <=> c) /\ a = Dec!Decimal(r, vv, cc, f)
    BY <2>1
  <2> HIDE DEF r, v, c, a
  <2>3. r \in Int
    BY <1>7
  <2>4. a.res = r % 256 /\ a.ccr.x = cc /\ OneDigit(a, f, r % 256)
    BY <2>2, <2>3, DecimalCodes
  <2>5. c \in BOOLEAN /\ cc = c
    BY <1>8, <2>2
  <2> QED BY <2>4, <2>5
<1>11. r % 256 \in DecimalBytes /\ DecimalValue(r % 256) = 10 * q + l
  <2> HIDE DEF r, q, l
  <2> QED BY <1>5, <1>7, TwoDigits
<1>12. 10 * q + l + (-1) * Number(c) * 100 = DecimalValue(d) - DecimalValue(s) - x
  <2> DEFINE n == Number(c)
  <2>1. n = IF hi < 0 THEN 1 ELSE 0
    BY <1>9
  <2>2. lo = dl - sl - x
    BY <1>1, <1>2, <1>3
  <2> HIDE DEF c, n, lo
  <2>3. 10 * q + l + (-1) * n * 100 = DecimalValue(d) - DecimalValue(s) - x
    BY <1>1, <1>2, <1>3, <2>1, <2>2
  <2> QED BY <2>3 DEF n
<1>13. Number(a.ccr.x) = Number(c) /\ a.res = r % 256
  BY <1>10, Zenon
<1> HIDE DEF r, c, q, l
<1> QED BY <1>10, <1>11, <1>12, <1>13 DEF DecimalDigit, a, x

LEMMA NegatedDecimal ==
  ASSUME NEW s \in DecimalBytes, NEW f \in CCR, NEW sz
  PROVE  DecimalDigit(Dec!nbcd(s, f, sz), f, -1, 0 - DecimalValue(s) - Number(f.x))
<1>1. PICK sh, sl \in 0 .. 9 :
        /\ s = 16 * sh + sl /\ DecimalValue(s) = 10 * sh + sl
        /\ Dec!LowNibble(s) = sl /\ Dec!HighNibble(s) = 16 * sh
  BY TwoDigits
<1> DEFINE x == Number(f.x)
           lo == (0 - Dec!LowNibble(s) - Dec!Number(f.x)) % Dec!Mod(2)
           high == (0 - Dec!HighNibble(s)) % Dec!Mod(2)
           adjusted == high + (IF lo > 10 - 1 THEN lo - Dec!Skip ELSE lo)
           c == Dec!From(adjusted, 8 \div 2 + 1) > Dec!HiMax
           r == IF c THEN adjusted - Dec!Skip * Dec!Digit ELSE adjusted
           k == IF sl + x > 0 THEN 1 ELSE 0
           v == Dec!Msb(high + lo, 1) /\ ~Dec!Msb(r, 1)
           hi == 0 - sh - k
           l == 10 * k - sl - x
           q == IF hi < 0 THEN hi + 10 ELSE hi
           w == adjusted - (16 * hi + l)
           a == Dec!nbcd(s, f, sz)
<1>2. x \in {0, 1} /\ Dec!Number(f.x) = x
  BY DEF Number, Dec!Number
<1>3. a = Dec!Decimal(r, v, c, f)
  BY Zenon DEF Dec!nbcd
<1> HIDE DEF x, a
<1>4. l \in 0 .. 9 /\ hi \in -10 .. 0 /\ q \in 0 .. 9
  BY <1>2
<1>5. /\ lo = IF sl + x > 0 THEN 65536 - sl - x ELSE 0
      /\ high = IF sh > 0 THEN 65536 - 16 * sh ELSE 0
  <2>1. lo = (0 - sl - x) % 65536 /\ high = (0 - 16 * sh) % 65536
    BY <1>1, <1>2, DecimalWidths
  <2> HIDE DEF lo, high
  <2> QED BY <1>2, <2>1
<1>6. w \in {0, 65536, 131072} /\ adjusted \in Int /\ adjusted = 16 * hi + l + w
  <2>1. adjusted = high + (IF lo > 9 THEN lo - 6 ELSE lo)
    <3> HIDE DEF lo, high
    <3> QED BY <1>2, <1>5, DecimalWidths
  <2> HIDE DEF lo, high, adjusted
  <2> QED BY <1>2, <1>5, <2>1
<1>7. c <=> hi < 0
  <2> HIDE DEF adjusted, hi, l, w
  <2>1. adjusted \div 16 = hi + (w \div 16)
    BY <1>4, <1>6
  <2>2. w \div 16 = 0 \/ w \div 16 = 4096 \/ w \div 16 = 8192
    BY <1>6
  <2>3. (adjusted \div 16) % 32 = IF hi < 0 THEN hi + 32 ELSE hi
    BY <1>4, <2>1, <2>2
  <2>4. Dec!From(adjusted, 8 \div 2 + 1) = ((adjusted \div 16) % 32) * 16 /\ Dec!HiMax = 144
    BY DecimalWidths
  <2> QED BY <1>4, <2>3, <2>4
<1>8. r \in Int /\ r % 256 = 16 * q + l
  <2> HIDE DEF adjusted, hi, l, w, c
  <2>1. r = IF hi < 0 THEN 16 * q + l + w - 256 ELSE 16 * q + l + w
    BY <1>4, <1>6, <1>7, DecimalWidths
  <2>2. r \in Int /\ 0 <= 16 * q + l /\ 16 * q + l < 256
    BY <1>4, <1>6, <2>1
  <2> HIDE DEF q, r
  <2> QED BY <1>4, <1>6, <2>1, <2>2
<1>9. c \in BOOLEAN /\ v \in BOOLEAN
  BY DEF Dec!Msb, Dec!Bit
<1>10. Number(c) = IF hi < 0 THEN 1 ELSE 0
  BY <1>7 DEF Number
<1>11. a.res = r % 256 /\ a.ccr.x = c /\ OneDigit(a, f, r % 256)
  <2>1. \E vv, cc \in BOOLEAN : (cc <=> c) /\ a = Dec!Decimal(r, vv, cc, f)
    <3> HIDE DEF r, v, c
    <3> QED BY <1>3, <1>9, Zenon
  <2>2. PICK vv, cc \in BOOLEAN : (cc <=> c) /\ a = Dec!Decimal(r, vv, cc, f)
    BY <2>1
  <2> HIDE DEF r, v, c, a
  <2>3. r \in Int
    BY <1>8
  <2>4. a.res = r % 256 /\ a.ccr.x = cc /\ OneDigit(a, f, r % 256)
    BY <2>2, <2>3, DecimalCodes
  <2>5. c \in BOOLEAN /\ cc = c
    BY <1>9, <2>2
  <2> QED BY <2>4, <2>5
<1>12. r % 256 \in DecimalBytes /\ DecimalValue(r % 256) = 10 * q + l
  <2> HIDE DEF r, q, l
  <2> QED BY <1>4, <1>8, TwoDigits
<1>13. 10 * q + l + (-1) * Number(c) * 100 = 0 - DecimalValue(s) - x
  <2> DEFINE n == Number(c)
  <2>1. n = IF hi < 0 THEN 1 ELSE 0
    BY <1>10
  <2> HIDE DEF c, n
  <2>2. (-1) * 1 * 100 = -100 /\ (-1) * 0 * 100 = 0
    OBVIOUS
  <2>3. 10 * q + l + (-1) * n * 100 = 0 - DecimalValue(s) - x
    <3>1. CASE hi < 0
      <4>1. n = 1
        BY <2>1, <3>1
      <4>2. 10 * q + l - 100 = 0 - DecimalValue(s) - x
        BY <1>1, <1>2, <3>1
      <4> HIDE DEF q, l
      <4> QED BY <1>4, <2>2, <4>1, <4>2
    <3>2. CASE ~(hi < 0)
      <4>1. n = 0
        BY <2>1, <3>2
      <4>2. 10 * q + l = 0 - DecimalValue(s) - x
        BY <1>1, <1>2, <3>2
      <4> HIDE DEF q, l
      <4> QED BY <1>4, <2>2, <4>1, <4>2
    <3> QED BY <3>1, <3>2
  <2> QED BY <2>3 DEF n
<1>14. Number(a.ccr.x) = Number(c) /\ a.res = r % 256
  BY <1>11, Zenon
<1> HIDE DEF r, c, q, l
<1> QED BY <1>11, <1>12, <1>13, <1>14 DEF DecimalDigit, a, x

----------------------------------------------------------------------------
(***************************************************************************)
(* Chains of digits.                                                       *)
(***************************************************************************)
Chains == Binary \cup Packed
Adding == {"addx", "abcd"}
Figures(op, sz) == IF op \in Packed THEN DecimalBytes ELSE Word(sz)
FigureValue(op, b) == IF op \in Packed THEN DecimalValue(b) ELSE b
BaseOf(op, sz) == IF op \in Packed THEN 100 ELSE Mod(sz)

\* the value of the first n digits of ds
Lowest(op, sz, ds, n) ==
  Total([i \in 0 .. n - 1 |-> FigureValue(op, ds[i + 1]) * BaseOf(op, sz) ^ i], n)

\* what the operation makes of numbers, the carry that comes in left out,
\* and the carry, a borrow being a negative one
Exactly(op, D, S) ==
  IF op \in Adding THEN D + S ELSE IF op \in {"subx", "sbcd"} THEN D - S ELSE 0 - S
CarryOf(op, x) == IF op \in Adding THEN Number(x) ELSE 0 - Number(x)

LEMMA FigureRange ==
  ASSUME NEW op \in Chains, NEW sz \in Sizes, NEW b \in Figures(op, sz)
  PROVE  /\ b \in Int /\ FigureValue(op, b) \in 0 .. BaseOf(op, sz) - 1
         /\ FigureValue(op, b) = 0 <=> b = 0
         /\ BaseOf(op, sz) \in Nat \ {0}
<1>1. Mod(sz) \in Nat \ {0}
  BY Widths
<1>2. CASE op \in Packed
  <2>1. b \in 0 .. 255 /\ b % 16 < 10 /\ b \div 16 < 10
    BY <1>2 DEF Figures, DecimalBytes
  <2>2. FigureValue(op, b) = (b \div 16) * 10 + (b % 16) /\ BaseOf(op, sz) = 100
    BY <1>2 DEF FigureValue, BaseOf, DecimalValue
  <2> QED BY <2>1, <2>2
<1>3. CASE op \notin Packed
  BY <1>1, <1>3 DEF Figures, FigureValue, BaseOf, Word
<1> QED BY <1>2, <1>3

LEMMA BasePowers ==
  ASSUME NEW op, NEW sz \in Sizes, NEW n \in 0 .. Length
  PROVE  /\ BaseOf(op, sz) ^ 0 = 1 /\ BaseOf(op, sz) ^ n \in Nat \ {0}
         /\ BaseOf(op, sz) ^ (n + 1) = BaseOf(op, sz) ^ n * BaseOf(op, sz)
<1> DEFINE b == BaseOf(op, sz)
<1>1. b \in {100} \cup {Mod(z) : z \in Sizes}
  BY DEF BaseOf
<1> HIDE DEF b
<1>2. /\ b ^ 0 = 1
      /\ b ^ n \in Nat \ {0} /\ b ^ (n + 1) = b ^ n * b
  BY <1>1, PlacesAssumption
<1> QED BY <1>2 DEF b

\* The value of one digit more.
LEMMA LowestStep ==
  ASSUME NEW op \in Chains, NEW sz \in Sizes, NEW n \in 0 .. Length - 1, NEW ds,
         \A i \in 1 .. n + 1 : ds[i] \in Figures(op, sz)
  PROVE  /\ Lowest(op, sz, ds, n) \in Int
         /\ Lowest(op, sz, ds, n + 1)
              = Lowest(op, sz, ds, n) + FigureValue(op, ds[n + 1]) * BaseOf(op, sz) ^ n
<1> DEFINE g(m) == [i \in 0 .. m - 1 |-> FigureValue(op, ds[i + 1]) * BaseOf(op, sz) ^ i]
<1>1. Length \in Nat /\ n \in Nat
  BY PlacesAssumption
<1>2. ASSUME NEW i \in 0 .. n PROVE FigureValue(op, ds[i + 1]) * BaseOf(op, sz) ^ i \in Int
  <2>1. i + 1 \in 1 .. n + 1 /\ i \in 0 .. Length
    BY <1>1
  <2>2. FigureValue(op, ds[i + 1]) \in Int
    BY <2>1, FigureRange
  <2>3. BaseOf(op, sz) ^ i \in Int
    BY <2>1, BasePowers
  <2> QED BY <2>2, <2>3
<1>3. /\ \A i \in 0 .. n : g(n + 1)[i] \in Int
      /\ \A i \in 0 .. n - 1 : g(n)[i] \in Int /\ g(n + 1)[i] = g(n)[i]
      /\ g(n + 1)[n] = FigureValue(op, ds[n + 1]) * BaseOf(op, sz) ^ n
  BY <1>1, <1>2
<1>4. Lowest(op, sz, ds, n) = Total(g(n), n) /\ Lowest(op, sz, ds, n + 1) = Total(g(n + 1), n + 1)
  BY DEF Lowest
<1>5. n + 1 \in Nat /\ 0 .. (n + 1) - 1 = 0 .. n /\ n \in 0 .. (n + 1) - 1 /\ n \in 0 .. n + 1
  BY <1>1
<1> HIDE DEF g
<1>6. Total(g(n), n) = Total(g(n + 1), n)
  BY <1>1, <1>3, TotalsAlike
<1>7. Total(g(n + 1), n + 1) = Total(g(n + 1), n) + g(n + 1)[n] /\ Total(g(n + 1), n) \in Int
  BY <1>3, <1>5, Totals
<1> QED BY <1>3, <1>4, <1>6, <1>7

LEMMA LowestNone ==
  ASSUME NEW op, NEW sz, NEW ds
  PROVE  Lowest(op, sz, ds, 0) = 0
<1> DEFINE g == [i \in 0 .. 0 - 1 |-> FigureValue(op, ds[i + 1]) * BaseOf(op, sz) ^ i]
<1>1. Lowest(op, sz, ds, 0) = Total(g, 0)
  BY DEF Lowest
<1>2. 0 \in Nat /\ \A i \in 0 .. 0 - 1 : g[i] \in Int
  OBVIOUS
<1> HIDE DEF g
<1>3. Total(g, 0) = 0
  BY <1>2, Totals
<1> QED BY <1>1, <1>3

\* Only the first digits matter.
LEMMA LowestAlike ==
  ASSUME NEW op, NEW sz, NEW n \in Nat, NEW ds, NEW es, \A i \in 1 .. n : ds[i] = es[i]
  PROVE  Lowest(op, sz, ds, n) = Lowest(op, sz, es, n)
<1>1. [i \in 0 .. n - 1 |-> FigureValue(op, ds[i + 1]) * BaseOf(op, sz) ^ i]
        = [i \in 0 .. n - 1 |-> FigureValue(op, es[i + 1]) * BaseOf(op, sz) ^ i]
  <2>1. \A i \in 0 .. n - 1 : ds[i + 1] = es[i + 1]
    OBVIOUS
  <2> QED BY <2>1
<1> QED BY <1>1 DEF Lowest

LEMMA NegatedDigit ==
  ASSUME NEW sz \in Sizes, NEW s \in Word(sz), NEW f \in CCR
  PROVE  LET r == negx(s, f, sz) IN
         /\ r.res \in Word(sz) /\ OneDigit(r, f, r.res)
         /\ r.res - Number(r.ccr.x) * Mod(sz) = 0 - s - Number(f.x)
         /\ r.ccr.n <=> Msb(r.res, sz)
         /\ r.ccr.v <=> Number(Msb(r.res, sz)) - Number(r.ccr.x)
                          # 0 - Number(Msb(s, sz))
<1> DEFINE r == negx(s, f, sz)
<1>1. Half(sz) \in Nat \ {0} /\ Mod(sz) = 2 * Half(sz)
  BY Widths
<1>2. 0 \in Word(sz)
  BY <1>1 DEF Word
<1>3. ~Msb(0, sz)
  BY <1>1, <1>2, TopBit
<1>4. Number(Msb(0, sz)) = 0
  BY <1>3 DEF Number
<1>5. r = subx(s, 0, f, sz)
  BY DEF negx, subx
<1> HIDE DEF r
<1>6. /\ r.res \in Word(sz) /\ OneDigit(r, f, r.res)
      /\ r.res - Number(r.ccr.x) * Mod(sz) = 0 - s - Number(f.x)
      /\ r.ccr.n <=> Msb(r.res, sz)
      /\ r.ccr.v <=> Number(Msb(r.res, sz)) - Number(r.ccr.x)
                       # Number(Msb(0, sz)) - Number(Msb(s, sz))
  BY <1>2, <1>5, SubtractedDigit
<1> QED BY <1>4, <1>6 DEF r

\* One digit of any chain.
LEMMA AnyDigit ==
  ASSUME NEW op \in Chains, NEW sz \in Sizes, NEW s \in Figures(op, sz),
         NEW d \in Figures(op, sz), NEW f \in CCR,
         NEW r, r = Digitwise(op, s, d, f, sz)
  PROVE  /\ r.res \in Figures(op, sz) /\ OneDigit(r, f, r.res)
         /\ FigureValue(op, r.res) + CarryOf(op, r.ccr.x) * BaseOf(op, sz)
              = Exactly(op, FigureValue(op, d), FigureValue(op, s)) + CarryOf(op, f.x)
         /\ op \in Binary =>
              /\ r.ccr.n <=> Msb(r.res, sz)
              /\ r.ccr.v <=> Number(Msb(r.res, sz)) + CarryOf(op, r.ccr.x)
                               # Exactly(op, Number(Msb(d, sz)), Number(Msb(s, sz)))
<1>1. Mod(sz) \in Nat \ {0} /\ 0 \in Word(sz)
  BY Widths DEF Word
<1>2. CASE op = "addx"
  <2>1. op \notin Packed /\ op \in Binary /\ op \in Adding
    BY <1>2 DEF Packed, Binary, Adding
  <2>2. r = addx(s, d, f, sz) /\ s \in Word(sz) /\ d \in Word(sz)
    BY <1>2, <2>1 DEF Digitwise, Figures
  <2>3. /\ r.res \in Word(sz) /\ OneDigit(r, f, r.res)
        /\ r.res + Number(r.ccr.x) * Mod(sz) = d + s + Number(f.x)
        /\ r.ccr.n <=> Msb(r.res, sz)
        /\ r.ccr.v <=> Number(Msb(r.res, sz)) + Number(r.ccr.x)
                         # Number(Msb(d, sz)) + Number(Msb(s, sz))
    BY <2>2, AddedDigit
  <2>4. /\ FigureValue(op, r.res) = r.res /\ FigureValue(op, s) = s /\ FigureValue(op, d) = d
        /\ BaseOf(op, sz) = Mod(sz) /\ Figures(op, sz) = Word(sz)
    BY <2>1 DEF FigureValue, BaseOf, Figures
  <2>5. /\ \A D, S : Exactly(op, D, S) = D + S
        /\ \A x \in BOOLEAN : CarryOf(op, x) = Number(x)
    BY <1>2, <2>1 DEF Exactly, CarryOf
  <2>6. r.ccr.x \in BOOLEAN /\ f.x \in BOOLEAN
    BY <2>3 DEF OneDigit, CCR
  <2>7. r.res + CarryOf(op, r.ccr.x) * Mod(sz) = Exactly(op, d, s) + CarryOf(op, f.x)
    <3> DEFINE c == Number(r.ccr.x)
               x == Number(f.x)
    <3>1. c \in Int /\ x \in Int /\ s \in Int /\ d \in Int /\ r.res \in Int
      BY <2>2, <2>3 DEF Number, Word
    <3>2. r.res + c * Mod(sz) = d + s + x
      BY <2>3
    <3>3. /\ CarryOf(op, r.ccr.x) = c /\ CarryOf(op, f.x) = x
          /\ Exactly(op, d, s) = d + s
      BY <2>5, <2>6
    <3> HIDE DEF c, x
    <3> QED BY <1>1, <3>1, <3>2, <3>3
  <2>8. r.ccr.v <=> Number(Msb(r.res, sz)) + CarryOf(op, r.ccr.x)
                      # Exactly(op, Number(Msb(d, sz)), Number(Msb(s, sz)))
    <3> DEFINE c == Number(r.ccr.x)
               nr == Number(Msb(r.res, sz))
               nd == Number(Msb(d, sz))
               ns == Number(Msb(s, sz))
    <3>1. c \in Int /\ nr \in Int /\ nd \in Int /\ ns \in Int
      BY DEF Number
    <3>2. r.ccr.v <=> nr + c # nd + ns
      BY <2>3
    <3>3. CarryOf(op, r.ccr.x) = c /\ Exactly(op, nd, ns) = nd + ns
      BY <2>5, <2>6
    <3>4. r.ccr.v <=> nr + CarryOf(op, r.ccr.x) # Exactly(op, nd, ns)
      <4> HIDE DEF c, nr, nd, ns
      <4> QED BY <3>1, <3>2, <3>3
    <3> QED BY <3>4
  <2> QED BY <2>3, <2>4, <2>7, <2>8
<1>3. CASE op = "subx"
  <2>1. op \notin Packed /\ op \in Binary /\ op \notin Adding
    BY <1>3 DEF Packed, Binary, Adding
  <2>2. r = subx(s, d, f, sz) /\ s \in Word(sz) /\ d \in Word(sz)
    BY <1>3, <2>1 DEF Digitwise, Figures
  <2>3. /\ r.res \in Word(sz) /\ OneDigit(r, f, r.res)
        /\ r.res - Number(r.ccr.x) * Mod(sz) = d - s - Number(f.x)
        /\ r.ccr.n <=> Msb(r.res, sz)
        /\ r.ccr.v <=> Number(Msb(r.res, sz)) - Number(r.ccr.x)
                         # Number(Msb(d, sz)) - Number(Msb(s, sz))
    BY <2>2, SubtractedDigit
  <2>4. /\ FigureValue(op, r.res) = r.res /\ FigureValue(op, s) = s /\ FigureValue(op, d) = d
        /\ BaseOf(op, sz) = Mod(sz) /\ Figures(op, sz) = Word(sz)
    BY <2>1 DEF FigureValue, BaseOf, Figures
  <2>5. /\ \A D, S : Exactly(op, D, S) = D - S
        /\ \A x \in BOOLEAN : CarryOf(op, x) = 0 - Number(x)
    BY <1>3, <2>1 DEF Exactly, CarryOf
  <2>6. r.ccr.x \in BOOLEAN /\ f.x \in BOOLEAN
    BY <2>3 DEF OneDigit, CCR
  <2>7. r.res + CarryOf(op, r.ccr.x) * Mod(sz) = Exactly(op, d, s) + CarryOf(op, f.x)
    <3> DEFINE c == Number(r.ccr.x)
               x == Number(f.x)
    <3>1. c \in Int /\ x \in Int /\ s \in Int /\ d \in Int /\ r.res \in Int
      BY <2>2, <2>3 DEF Number, Word
    <3>2. r.res - c * Mod(sz) = d - s - x
      BY <2>3
    <3>3. /\ CarryOf(op, r.ccr.x) = 0 - c /\ CarryOf(op, f.x) = 0 - x
          /\ Exactly(op, d, s) = d - s
      BY <2>5, <2>6
    <3> HIDE DEF c, x
    <3> QED BY <1>1, <3>1, <3>2, <3>3
  <2>8. r.ccr.v <=> Number(Msb(r.res, sz)) + CarryOf(op, r.ccr.x)
                      # Exactly(op, Number(Msb(d, sz)), Number(Msb(s, sz)))
    <3> DEFINE c == Number(r.ccr.x)
               nr == Number(Msb(r.res, sz))
               nd == Number(Msb(d, sz))
               ns == Number(Msb(s, sz))
    <3>1. c \in Int /\ nr \in Int /\ nd \in Int /\ ns \in Int
      BY DEF Number
    <3>2. r.ccr.v <=> nr - c # nd - ns
      BY <2>3
    <3>3. CarryOf(op, r.ccr.x) = 0 - c /\ Exactly(op, nd, ns) = nd - ns
      BY <2>5, <2>6
    <3>4. r.ccr.v <=> nr + CarryOf(op, r.ccr.x) # Exactly(op, nd, ns)
      <4> HIDE DEF c, nr, nd, ns
      <4> QED BY <3>1, <3>2, <3>3
    <3> QED BY <3>4
  <2> QED BY <2>3, <2>4, <2>7, <2>8
<1>4. CASE op = "negx"
  <2>1. op \notin Packed /\ op \in Binary /\ op \notin Adding
    BY <1>4 DEF Packed, Binary, Adding
  <2>2. r = negx(s, f, sz) /\ s \in Word(sz) /\ d \in Word(sz)
    BY <1>4, <2>1 DEF Digitwise, Figures
  <2>3. /\ r.res \in Word(sz) /\ OneDigit(r, f, r.res)
        /\ r.res - Number(r.ccr.x) * Mod(sz) = 0 - s - Number(f.x)
        /\ r.ccr.n <=> Msb(r.res, sz)
        /\ r.ccr.v <=> Number(Msb(r.res, sz)) - Number(r.ccr.x)
                         # 0 - Number(Msb(s, sz))
    BY <2>2, NegatedDigit
  <2>4. /\ FigureValue(op, r.res) = r.res /\ FigureValue(op, s) = s /\ FigureValue(op, d) = d
        /\ BaseOf(op, sz) = Mod(sz) /\ Figures(op, sz) = Word(sz)
    BY <2>1 DEF FigureValue, BaseOf, Figures
  <2>5. /\ \A D, S : Exactly(op, D, S) = 0 - S
        /\ \A x \in BOOLEAN : CarryOf(op, x) = 0 - Number(x)
    BY <1>4, <2>1 DEF Exactly, CarryOf
  <2>6. r.ccr.x \in BOOLEAN /\ f.x \in BOOLEAN
    BY <2>3 DEF OneDigit, CCR
  <2>7. r.res + CarryOf(op, r.ccr.x) * Mod(sz) = Exactly(op, d, s) + CarryOf(op, f.x)
    <3> DEFINE c == Number(r.ccr.x)
               x == Number(f.x)
    <3>1. c \in Int /\ x \in Int /\ s \in Int /\ d \in Int /\ r.res \in Int
      BY <2>2, <2>3 DEF Number, Word
    <3>2. r.res - c * Mod(sz) = 0 - s - x
      BY <2>3
    <3>3. /\ CarryOf(op, r.ccr.x) = 0 - c /\ CarryOf(op, f.x) = 0 - x
          /\ Exactly(op, d, s) = 0 - s
      BY <2>5, <2>6
    <3> HIDE DEF c, x
    <3> QED BY <1>1, <3>1, <3>2, <3>3
  <2>8. r.ccr.v <=> Number(Msb(r.res, sz)) + CarryOf(op, r.ccr.x)
                      # Exactly(op, Number(Msb(d, sz)), Number(Msb(s, sz)))
    <3> DEFINE c == Number(r.ccr.x)
               nr == Number(Msb(r.res, sz))
               nd == Number(Msb(d, sz))
               ns == Number(Msb(s, sz))
    <3>1. c \in Int /\ nr \in Int /\ nd \in Int /\ ns \in Int
      BY DEF Number
    <3>2. r.ccr.v <=> nr - c # 0 - ns
      BY <2>3
    <3>3. CarryOf(op, r.ccr.x) = 0 - c /\ Exactly(op, nd, ns) = 0 - ns
      BY <2>5, <2>6
    <3>4. r.ccr.v <=> nr + CarryOf(op, r.ccr.x) # Exactly(op, nd, ns)
      <4> HIDE DEF c, nr, nd, ns
      <4> QED BY <3>1, <3>2, <3>3
    <3> QED BY <3>4
  <2> QED BY <2>3, <2>4, <2>7, <2>8
<1>5. CASE op = "abcd"
  <2>1. op \in Packed /\ op \notin Binary /\ op \in Adding
    BY <1>5 DEF Packed, Binary, Adding
  <2>2. r = Dec!abcd(s, d, f, sz) /\ s \in DecimalBytes /\ d \in DecimalBytes
    BY <1>5, <2>1 DEF Digitwise, Figures
  <2>3. /\ r.res \in DecimalBytes /\ OneDigit(r, f, r.res)
        /\ DecimalValue(r.res) + 1 * Number(r.ccr.x) * 100
              = DecimalValue(d) + DecimalValue(s) + Number(f.x)
    BY <2>2, AddedDecimal DEF DecimalDigit
  <2>4. /\ \A b : FigureValue(op, b) = DecimalValue(b)
        /\ BaseOf(op, sz) = 100 /\ Figures(op, sz) = DecimalBytes
    BY <2>1 DEF FigureValue, BaseOf, Figures
  <2>5. /\ \A D, S : Exactly(op, D, S) = D + S
        /\ \A x \in BOOLEAN : CarryOf(op, x) = Number(x)
    BY <1>5, <2>1 DEF Exactly, CarryOf
  <2>6. r.ccr.x \in BOOLEAN /\ f.x \in BOOLEAN
    BY <2>3 DEF OneDigit, CCR
  <2>7. DecimalValue(r.res) + CarryOf(op, r.ccr.x) * 100
          = Exactly(op, DecimalValue(d), DecimalValue(s)) + CarryOf(op, f.x)
    <3> DEFINE c == Number(r.ccr.x)
               x == Number(f.x)
               vr == DecimalValue(r.res)
               vd == DecimalValue(d)
               vs == DecimalValue(s)
    <3>1. c \in Int /\ x \in Int /\ vs \in Int /\ vd \in Int /\ vr \in Int
      BY <2>2, <2>3 DEF Number, DecimalValue, DecimalBytes
    <3>2. vr + 1 * c * 100 = vd + vs + x
      BY <2>3
    <3>3. /\ CarryOf(op, r.ccr.x) = c /\ CarryOf(op, f.x) = x
          /\ Exactly(op, vd, vs) = vd + vs
      BY <2>5, <2>6
    <3>4. vr + CarryOf(op, r.ccr.x) * 100 = Exactly(op, vd, vs) + CarryOf(op, f.x)
      <4> HIDE DEF c, x, vr, vd, vs
      <4> QED BY <3>1, <3>2, <3>3
    <3> QED BY <3>4
  <2> QED BY <2>1, <2>3, <2>4, <2>7
<1>6. CASE op = "sbcd"
  <2>1. op \in Packed /\ op \notin Binary /\ op \notin Adding
    BY <1>6 DEF Packed, Binary, Adding
  <2>2. r = Dec!sbcd(s, d, f, sz) /\ s \in DecimalBytes /\ d \in DecimalBytes
    BY <1>6, <2>1 DEF Digitwise, Figures
  <2>3. /\ r.res \in DecimalBytes /\ OneDigit(r, f, r.res)
        /\ DecimalValue(r.res) + (-1) * Number(r.ccr.x) * 100
              = DecimalValue(d) - DecimalValue(s) - Number(f.x)
    BY <2>2, SubtractedDecimal DEF DecimalDigit
  <2>4. /\ \A b : FigureValue(op, b) = DecimalValue(b)
        /\ BaseOf(op, sz) = 100 /\ Figures(op, sz) = DecimalBytes
    BY <2>1 DEF FigureValue, BaseOf, Figures
  <2>5. /\ \A D, S : Exactly(op, D, S) = D - S
        /\ \A x \in BOOLEAN : CarryOf(op, x) = 0 - Number(x)
    BY <1>6, <2>1 DEF Exactly, CarryOf
  <2>6. r.ccr.x \in BOOLEAN /\ f.x \in BOOLEAN
    BY <2>3 DEF OneDigit, CCR
  <2>7. DecimalValue(r.res) + CarryOf(op, r.ccr.x) * 100
          = Exactly(op, DecimalValue(d), DecimalValue(s)) + CarryOf(op, f.x)
    <3> DEFINE c == Number(r.ccr.x)
               x == Number(f.x)
               vr == DecimalValue(r.res)
               vd == DecimalValue(d)
               vs == DecimalValue(s)
    <3>1. c \in Int /\ x \in Int /\ vs \in Int /\ vd \in Int /\ vr \in Int
      BY <2>2, <2>3 DEF Number, DecimalValue, DecimalBytes
    <3>2. vr + (-1) * c * 100 = vd - vs - x
      BY <2>3
    <3>3. /\ CarryOf(op, r.ccr.x) = 0 - c /\ CarryOf(op, f.x) = 0 - x
          /\ Exactly(op, vd, vs) = vd - vs
      BY <2>5, <2>6
    <3>4. vr + CarryOf(op, r.ccr.x) * 100 = Exactly(op, vd, vs) + CarryOf(op, f.x)
      <4> HIDE DEF c, x, vr, vd, vs
      <4> QED BY <3>1, <3>2, <3>3
    <3> QED BY <3>4
  <2> QED BY <2>1, <2>3, <2>4, <2>7
<1>7. CASE op = "nbcd"
  <2>1. op \in Packed /\ op \notin Binary /\ op \notin Adding
    BY <1>7 DEF Packed, Binary, Adding
  <2>2. r = Dec!nbcd(s, f, sz) /\ s \in DecimalBytes /\ d \in DecimalBytes
    BY <1>7, <2>1 DEF Digitwise, Figures
  <2>3. /\ r.res \in DecimalBytes /\ OneDigit(r, f, r.res)
        /\ DecimalValue(r.res) + (-1) * Number(r.ccr.x) * 100
              = 0 - DecimalValue(s) - Number(f.x)
    BY <2>2, NegatedDecimal DEF DecimalDigit
  <2>4. /\ \A b : FigureValue(op, b) = DecimalValue(b)
        /\ BaseOf(op, sz) = 100 /\ Figures(op, sz) = DecimalBytes
    BY <2>1 DEF FigureValue, BaseOf, Figures
  <2>5. /\ \A D, S : Exactly(op, D, S) = 0 - S
        /\ \A x \in BOOLEAN : CarryOf(op, x) = 0 - Number(x)
    BY <1>7, <2>1 DEF Exactly, CarryOf
  <2>6. r.ccr.x \in BOOLEAN /\ f.x \in BOOLEAN
    BY <2>3 DEF OneDigit, CCR
  <2>7. DecimalValue(r.res) + CarryOf(op, r.ccr.x) * 100
          = Exactly(op, DecimalValue(d), DecimalValue(s)) + CarryOf(op, f.x)
    <3> DEFINE c == Number(r.ccr.x)
               x == Number(f.x)
               vr == DecimalValue(r.res)
               vd == DecimalValue(d)
               vs == DecimalValue(s)
    <3>1. c \in Int /\ x \in Int /\ vs \in Int /\ vd \in Int /\ vr \in Int
      BY <2>2, <2>3 DEF Number, DecimalValue, DecimalBytes
    <3>2. vr + (-1) * c * 100 = 0 - vs - x
      BY <2>3
    <3>3. /\ CarryOf(op, r.ccr.x) = 0 - c /\ CarryOf(op, f.x) = 0 - x
          /\ Exactly(op, vd, vs) = 0 - vs
      BY <2>5, <2>6
    <3>4. vr + CarryOf(op, r.ccr.x) * 100 = Exactly(op, vd, vs) + CarryOf(op, f.x)
      <4> HIDE DEF c, x, vr, vd, vs
      <4> QED BY <3>1, <3>2, <3>3
    <3> QED BY <3>4
  <2> QED BY <2>1, <2>3, <2>4, <2>7
<1> QED BY <1>2, <1>3, <1>4, <1>5, <1>6, <1>7 DEF Chains, Binary, Packed

LEMMA ExactlyPlaces ==
  ASSUME NEW op, NEW D \in Int, NEW S \in Int, NEW d \in Int, NEW s \in Int, NEW P \in Int
  PROVE  /\ Exactly(op, D + d * P, S + s * P) = Exactly(op, D, S) + Exactly(op, d, s) * P
         /\ Exactly(op, D, S) \in Int
<1>1. /\ (D + d * P) + (S + s * P) = (D + S) + (d + s) * P
      /\ (D + d * P) - (S + s * P) = (D - S) + (d - s) * P
      /\ 0 - (S + s * P) = (0 - S) + (0 - s) * P
  OBVIOUS
<1> QED BY <1>1 DEF Exactly

\* What holds after n digits of a chain, with the codes t at its start: the
\* digits of acc and the carry are the exact result so far, Z tells that all
\* of them are 0, and N and V are those of a number that ends here.
ChainState(op, sz, s, d, t, a, f, n) ==
  /\ a \in Seq(Figures(op, sz)) /\ Len(a) = n /\ f \in CCR
  /\ 0 <= Lowest(op, sz, a, n) /\ Lowest(op, sz, a, n) < BaseOf(op, sz) ^ n
  /\ Lowest(op, sz, a, n) + CarryOf(op, f.x) * BaseOf(op, sz) ^ n
       = Exactly(op, Lowest(op, sz, d, n), Lowest(op, sz, s, n)) + CarryOf(op, t.x)
  /\ f.z <=> t.z /\ Lowest(op, sz, a, n) = 0
  /\ n > 0 => f.c = f.x
  /\ n > 0 /\ op \in Binary =>
       /\ f.n <=> Msb(a[n], sz)
       /\ f.v <=> Number(Msb(a[n], sz)) + CarryOf(op, f.x)
                    # Exactly(op, Number(Msb(d[n], sz)), Number(Msb(s[n], sz)))

\* One digit more, as numbers: w of n digits gets the digit v at the place P.
LEMMA OnePlaceMore ==
  ASSUME NEW P \in Nat \ {0}, NEW B \in Nat \ {0}, NEW w \in Int, NEW v \in 0 .. B - 1,
         NEW c \in Int, NEW c1 \in Int, NEW E \in Int, NEW e \in Int, NEW c0 \in Int,
         0 <= w, w < P, w + c * P = E + c0, v + c1 * B = e + c
  PROVE  /\ 0 <= w + v * P /\ w + v * P < P * B
         /\ w + v * P = 0 <=> w = 0 /\ v = 0
         /\ w + v * P + c1 * (P * B) = E + e * P + c0
<1>1. c1 * (P * B) = (c1 * B) * P
  OBVIOUS
<1>2. c1 * B = e + c - v
  OBVIOUS
<1>3. (e + c - v) * P = e * P + c * P - v * P
  OBVIOUS
<1>4. w + v * P + c1 * (P * B) = E + e * P + c0
  BY <1>1, <1>2, <1>3
<1>5. 0 <= v * P /\ (v # 0 => v * P >= P)
  OBVIOUS
<1>6. v * P <= (B - 1) * P /\ (B - 1) * P = P * B - P
  OBVIOUS
<1> QED BY <1>4, <1>5, <1>6

LEMMA ChainStep ==
  ASSUME NEW op \in Chains, NEW sz \in Sizes, NEW n \in 0 .. Length - 1,
         NEW s \in [1 .. Length -> Figures(op, sz)], NEW d \in [1 .. Length -> Figures(op, sz)],
         NEW t \in CCR, NEW a, NEW f, ChainState(op, sz, s, d, t, a, f, n),
         NEW r, r = Digitwise(op, s[n + 1], d[n + 1], f, sz)
  PROVE  ChainState(op, sz, s, d, t, Append(a, r.res), r.ccr, n + 1)
<1> DEFINE B == BaseOf(op, sz)
           P == B ^ n
           a1 == Append(a, r.res)
           v == FigureValue(op, r.res)
           vd == FigureValue(op, d[n + 1])
           vs == FigureValue(op, s[n + 1])
           w == Lowest(op, sz, a, n)
           D == Lowest(op, sz, d, n)
           S == Lowest(op, sz, s, n)
           c == CarryOf(op, f.x)
           c1 == CarryOf(op, r.ccr.x)
           c0 == CarryOf(op, t.x)
<1>1. /\ Length \in Nat /\ n \in Nat /\ n + 1 \in 1 .. Length /\ n \in 0 .. Length
      /\ s[n + 1] \in Figures(op, sz) /\ d[n + 1] \in Figures(op, sz)
  BY PlacesAssumption
<1>2. /\ a \in Seq(Figures(op, sz)) /\ Len(a) = n /\ f \in CCR
      /\ 0 <= w /\ w < P /\ w + c * P = Exactly(op, D, S) + c0
      /\ f.z <=> t.z /\ w = 0
  BY DEF ChainState
<1>3. /\ r.res \in Figures(op, sz) /\ r.ccr \in CCR /\ r.ccr.c = r.ccr.x
      /\ r.ccr.z <=> f.z /\ r.res = 0
      /\ v + c1 * B = Exactly(op, vd, vs) + c
      /\ op \in Binary =>
           /\ r.ccr.n <=> Msb(r.res, sz)
           /\ r.ccr.v <=> Number(Msb(r.res, sz)) + c1
                            # Exactly(op, Number(Msb(d[n + 1], sz)), Number(Msb(s[n + 1], sz)))
  <2> HIDE DEF B, v, vd, vs, c, c1
  <2> QED BY <1>1, <1>2, AnyDigit DEF OneDigit, B, v, vd, vs, c, c1
<1>4. /\ P \in Nat \ {0} /\ B ^ (n + 1) = P * B /\ B \in Nat \ {0}
      /\ v \in 0 .. B - 1 /\ (v = 0 <=> r.res = 0) /\ vd \in Int /\ vs \in Int
  <2>1. P \in Nat \ {0} /\ B ^ (n + 1) = P * B
    BY <1>1, BasePowers
  <2>2. B \in Nat \ {0} /\ v \in 0 .. B - 1 /\ (v = 0 <=> r.res = 0)
    BY <1>3, FigureRange
  <2>3. vd \in 0 .. B - 1 /\ vs \in 0 .. B - 1
    BY <1>1, FigureRange
  <2> HIDE DEF P, B, v, vd, vs
  <2> QED BY <2>1, <2>2, <2>3
<1>5. a1 \in Seq(Figures(op, sz)) /\ Len(a1) = n + 1 /\ a1[n + 1] = r.res
        /\ \A i \in 1 .. n : a1[i] = a[i]
  BY <1>1, <1>2, <1>3
<1>6. \A i \in 1 .. n + 1 : a1[i] \in Figures(op, sz)
  BY <1>5
<1> HIDE DEF a1
<1>7. Lowest(op, sz, a1, n) = w
  BY <1>1, <1>5, LowestAlike
<1>8. w \in Int /\ Lowest(op, sz, a1, n + 1) = w + v * P
  BY <1>5, <1>6, <1>7, LowestStep
<1>9. /\ D \in Int /\ S \in Int
      /\ Lowest(op, sz, d, n + 1) = D + vd * P /\ Lowest(op, sz, s, n + 1) = S + vs * P
  <2>1. \A i \in 1 .. n + 1 : d[i] \in Figures(op, sz) /\ s[i] \in Figures(op, sz)
    BY <1>1
  <2> QED BY <2>1, LowestStep
<1>10. c \in Int /\ c1 \in Int /\ c0 \in Int
  BY DEF CarryOf, Number
<1>11. /\ Exactly(op, D + vd * P, S + vs * P) = Exactly(op, D, S) + Exactly(op, vd, vs) * P
       /\ Exactly(op, D, S) \in Int /\ Exactly(op, vd, vs) \in Int
  <2> HIDE DEF D, S, vd, vs, P
  <2> QED BY <1>4, <1>9, ExactlyPlaces
<1> DEFINE E == Exactly(op, D, S)
           e == Exactly(op, vd, vs)
<1>12. /\ 0 <= w + v * P /\ w + v * P < P * B
       /\ w + v * P = 0 <=> w = 0 /\ v = 0
       /\ w + v * P + c1 * (P * B) = E + e * P + c0
  <2>1. E \in Int /\ e \in Int /\ w + c * P = E + c0 /\ v + c1 * B = e + c
    BY <1>2, <1>3, <1>11
  <2> HIDE DEF B, P, v, w, c, c1, c0, E, e
  <2> QED BY <1>2, <1>4, <1>8, <1>10, <2>1, OnePlaceMore
<1>13. Lowest(op, sz, a1, n + 1) >= 0 /\ Lowest(op, sz, a1, n + 1) < B ^ (n + 1)
  <2> HIDE DEF B, P, v, w
  <2> QED BY <1>4, <1>8, <1>12
<1>14. Lowest(op, sz, a1, n + 1) + c1 * B ^ (n + 1)
         = Exactly(op, Lowest(op, sz, d, n + 1), Lowest(op, sz, s, n + 1)) + c0
  <2> HIDE DEF B, P, v, w, c1, c0, D, S, vd, vs
  <2> QED BY <1>4, <1>8, <1>9, <1>11, <1>12 DEF E, e
<1>15. r.ccr.z <=> t.z /\ Lowest(op, sz, a1, n + 1) = 0
  <2> HIDE DEF B, P, v, w
  <2> QED BY <1>2, <1>3, <1>4, <1>8, <1>12
<1>16. op \in Binary =>
         /\ r.ccr.n <=> Msb(a1[n + 1], sz)
         /\ r.ccr.v <=> Number(Msb(a1[n + 1], sz)) + c1
                          # Exactly(op, Number(Msb(d[n + 1], sz)), Number(Msb(s[n + 1], sz)))
  BY <1>3, <1>5
<1> HIDE DEF B
<1>17. 0 <= Lowest(op, sz, a1, n + 1)
  BY <1>8, <1>12, <1>13
<1> QED BY <1>3, <1>5, <1>13, <1>14, <1>15, <1>16, <1>17 DEF ChainState, B, a1, c1, c0

----------------------------------------------------------------------------
(***************************************************************************)
(* The invariant of a chain, and what it says of whole numbers.            *)
(***************************************************************************)
ChainInv ==
  task.kind = "chain" =>
    /\ task.op \in Chains /\ task.sz \in Sizes /\ task.ccr \in CCR
    /\ task.s \in [1 .. Length -> Figures(task.op, task.sz)]
    /\ task.d \in [1 .. Length -> Figures(task.op, task.sz)]
    /\ done \in 0 .. Length
    /\ ChainState(task.op, task.sz, task.s, task.d, task.ccr, acc, ccr, done)

LEMMA ChainInit == Init => ChainInv
<1> SUFFICES ASSUME Init, task.kind = "chain" PROVE ChainInv
  BY DEF ChainInv
<1>1. /\ task.op \in Chains /\ task.sz \in Sizes /\ task.ccr \in CCR
      /\ task.s \in [1 .. Length -> Figures(task.op, task.sz)]
      /\ task.d \in [1 .. Length -> Figures(task.op, task.sz)]
  <2>1. ASSUME NEW x \in BOOLEAN, NEW z \in BOOLEAN PROVE Flags(x, z) \in CCR
    BY DEF Flags, CCR
  <2>2. CASE \E op \in Binary, sz \in Sizes, x, z \in BOOLEAN :
               \E s, d \in Digits(op, sz) : task = Task("chain", op, sz, Flags(x, z), s, d)
    <3>1. PICK op \in Binary, sz \in Sizes, x \in BOOLEAN, z \in BOOLEAN :
            \E s, d \in Digits(op, sz) : task = Task("chain", op, sz, Flags(x, z), s, d)
      BY <2>2
    <3>2. PICK s \in Digits(op, sz), d \in Digits(op, sz) :
            task = Task("chain", op, sz, Flags(x, z), s, d)
      BY <3>1
    <3>3. op \notin Packed /\ op \in Chains
      BY DEF Binary, Packed, Chains
    <3>4. Digits(op, sz) \subseteq [1 .. Length -> Figures(op, sz)]
      <4>1. Samples(sz) \subseteq Word(sz)
        BY SamplesAssumption DEF Word
      <4> QED BY <3>3, <4>1 DEF Digits, Figures
    <3>5. /\ task.op = op /\ task.sz = sz /\ task.ccr = Flags(x, z) /\ task.s = s /\ task.d = d
      BY <3>2 DEF Task
    <3> QED BY <2>1, <3>3, <3>4, <3>5
  <2>3. CASE \E op \in Packed, x, z \in BOOLEAN :
               \E s, d \in Digits(op, 1) : task = Task("chain", op, 1, Flags(x, z), s, d)
    <3>1. PICK op \in Packed, x \in BOOLEAN, z \in BOOLEAN :
            \E s, d \in Digits(op, 1) : task = Task("chain", op, 1, Flags(x, z), s, d)
      BY <2>3
    <3>2. PICK s \in Digits(op, 1), d \in Digits(op, 1) :
            task = Task("chain", op, 1, Flags(x, z), s, d)
      BY <3>1
    <3>3. Digits(op, 1) \subseteq [1 .. Length -> Figures(op, 1)]
      <4>1. Decimals \subseteq DecimalBytes
        BY DecimalsAssumption DEF DecimalBytes
      <4> QED BY <4>1 DEF Digits, Figures
    <3>4. /\ task.op = op /\ task.sz = 1 /\ task.ccr = Flags(x, z) /\ task.s = s /\ task.d = d
      BY <3>2 DEF Task
    <3>5. op \in Chains /\ 1 \in Sizes
      BY DEF Chains, Sizes
    <3> QED BY <2>1, <3>3, <3>4, <3>5
  <2>4. \/ \E op \in Binary, sz \in Sizes, x, z \in BOOLEAN :
             \E s, d \in Digits(op, sz) : task = Task("chain", op, sz, Flags(x, z), s, d)
        \/ \E op \in Packed, x, z \in BOOLEAN :
             \E s, d \in Digits(op, 1) : task = Task("chain", op, 1, Flags(x, z), s, d)
    <3>1. ASSUME NEW op \in Shifts, NEW sz \in Sizes, NEW x \in BOOLEAN,
                 NEW d \in 0 .. Mod(sz) - 1,
                 task = Task("shift", op, sz, Flags(x, TRUE), 0, d)
          PROVE  FALSE
      BY <3>1 DEF Task
    <3>2. ASSUME NEW sz \in Sizes, NEW s \in Samples(sz), NEW d \in Samples(sz),
                 task = Task("pair", "cmp", sz, Flags(FALSE, TRUE), s, d)
          PROVE  FALSE
      BY <3>2 DEF Task
    <3>3. ASSUME NEW op \in Fields, NEW width \in 1 .. BF, NEW offset \in -(Byte + 1) .. Byte,
                 NEW m \in [0 .. Bytes - 1 -> Contents],
                 task = Task("field", op, width, Flags(FALSE, TRUE), offset, m)
          PROVE  FALSE
      BY <3>3 DEF Task
    <3> QED BY <3>1, <3>2, <3>3, Zenon DEF Init
  <2> QED BY <2>2, <2>3, <2>4
<1>2. done = 0 /\ acc = <<>> /\ ccr = task.ccr /\ Length \in Nat
  BY PlacesAssumption DEF Init
<1>3. ASSUME NEW op \in Chains, NEW sz \in Sizes, NEW s, NEW d, NEW t \in CCR
      PROVE  ChainState(op, sz, s, d, t, <<>>, t, 0)
  <2>1. \A ds : Lowest(op, sz, ds, 0) = 0
    BY LowestNone
  <2>2. BaseOf(op, sz) ^ 0 = 1
    BY <1>2, BasePowers
  <2>3. Exactly(op, 0, 0) = 0
    BY DEF Exactly
  <2>4. CarryOf(op, t.x) \in Int
    BY DEF CarryOf, Number
  <2>5. <<>> \in Seq(Figures(op, sz)) /\ Len(<<>>) = 0
    OBVIOUS
  <2> QED BY <2>1, <2>2, <2>3, <2>4, <2>5 DEF ChainState
<1>4. ChainState(task.op, task.sz, task.s, task.d, task.ccr, acc, ccr, done)
  BY <1>1, <1>2, <1>3
<1> QED BY <1>1, <1>2, <1>4 DEF ChainInv

LEMMA ChainNext == ChainInv /\ [Next]_vars => ChainInv'
<1> SUFFICES ASSUME ChainInv, [Next]_vars, task'.kind = "chain" PROVE ChainInv'
  BY DEF ChainInv
<1>1. CASE NextDigit
  <2> DEFINE r == Digitwise(task.op, task.s[done + 1], task.d[done + 1], ccr, task.sz)
  <2>1. /\ task.kind = "chain" /\ done < Length /\ task' = task /\ done' = done + 1
        /\ acc' = Append(acc, r.res) /\ ccr' = r.ccr
    BY <1>1 DEF NextDigit
  <2> HIDE DEF r
  <2>2. /\ task.op \in Chains /\ task.sz \in Sizes /\ task.ccr \in CCR
        /\ task.s \in [1 .. Length -> Figures(task.op, task.sz)]
        /\ task.d \in [1 .. Length -> Figures(task.op, task.sz)]
        /\ done \in 0 .. Length
        /\ ChainState(task.op, task.sz, task.s, task.d, task.ccr, acc, ccr, done)
    BY <2>1 DEF ChainInv
  <2>3. done \in 0 .. Length - 1 /\ done + 1 \in 0 .. Length
    BY <2>1, <2>2, PlacesAssumption
  <2>4. ChainState(task.op, task.sz, task.s, task.d, task.ccr, Append(acc, r.res), r.ccr, done + 1)
    BY <2>2, <2>3, ChainStep DEF r
  <2> QED BY <2>1, <2>2, <2>3, <2>4 DEF ChainInv
<1>2. CASE ShiftOnce
  BY <1>2 DEF ShiftOnce
<1>3. CASE ChangeField
  BY <1>3 DEF ChangeField
<1>4. CASE UNCHANGED vars
  BY <1>4 DEF vars, ChainInv
<1> QED BY <1>1, <1>2, <1>3, <1>4 DEF Next

LEMMA ChainInvariant == Spec => []ChainInv
<1> QED BY ChainInit, ChainNext, PTL DEF Spec
\* The operators of the properties are those of the invariant.
LEMMA ChainTerms ==
  ASSUME ChainInv, task.kind = "chain"
  PROVE  /\ \A ds : Whole(ds) = Lowest(task.op, task.sz, ds, done)
         /\ Base = BaseOf(task.op, task.sz)
         /\ Carry = CarryOf(task.op, ccr.x)
         /\ \A D, S \in Int : Exact(D, S) = Exactly(task.op, D, S) + CarryOf(task.op, task.ccr.x)
<1>1. Base = BaseOf(task.op, task.sz)
  BY DEF Base, BaseOf
<1>2. \A b : DigitValue(b) = FigureValue(task.op, b)
  BY DEF DigitValue, FigureValue, DecimalValue
<1>3. ASSUME NEW ds PROVE Whole(ds) = Lowest(task.op, task.sz, ds, done)
  BY <1>1, <1>2 DEF Whole, Lowest
<1>4. \A x : -Number(x) = 0 - Number(x) /\ Number(x) \in Int
  BY DEF Number
<1>5. Carry = CarryOf(task.op, ccr.x)
  BY <1>4 DEF Carry, CarryOf, Adding
<1>6. ASSUME NEW D \in Int, NEW S \in Int
      PROVE  Exact(D, S) = Exactly(task.op, D, S) + CarryOf(task.op, task.ccr.x)
  <2> DEFINE x == Number(task.ccr.x)
  <2>1. x \in Int
    BY <1>4
  <2>2. Exact(D, S) = IF task.op \in Adding THEN D + S + x
                      ELSE IF task.op \in {"subx", "sbcd"} THEN D - S - x ELSE 0 - S - x
    BY DEF Exact, Adding
  <2>3. CarryOf(task.op, task.ccr.x) = IF task.op \in Adding THEN x ELSE 0 - x
    BY DEF CarryOf
  <2>4. {"subx", "sbcd"} \cap Adding = {}
    BY DEF Adding
  <2> HIDE DEF x
  <2> QED BY <2>1, <2>2, <2>3, <2>4 DEF Exactly
<1> QED BY <1>1, <1>3, <1>5, <1>6

LEMMA WholeNumbers ==
  ASSUME ChainInv, ChainRunning
  PROVE  /\ Whole(acc) \in Int /\ Whole(task.s) \in Int /\ Whole(task.d) \in Int
         /\ 0 <= Whole(acc) /\ Whole(acc) < Base ^ done /\ Base ^ done \in Nat \ {0}
         /\ Whole(acc) + Carry * Base ^ done = Exact(Whole(task.d), Whole(task.s))
         /\ ccr.c = ccr.x /\ ccr.z \in BOOLEAN
         /\ ccr.z <=> task.ccr.z /\ Whole(acc) = 0
<1>1. /\ task.kind = "chain" /\ done > 0 /\ done \in 0 .. Length
      /\ task.op \in Chains /\ task.sz \in Sizes
      /\ task.s \in [1 .. Length -> Figures(task.op, task.sz)]
      /\ task.d \in [1 .. Length -> Figures(task.op, task.sz)]
      /\ ChainState(task.op, task.sz, task.s, task.d, task.ccr, acc, ccr, done)
  BY DEF ChainRunning, ChainInv
<1>2. /\ \A ds : Whole(ds) = Lowest(task.op, task.sz, ds, done)
      /\ Base = BaseOf(task.op, task.sz)
      /\ Carry = CarryOf(task.op, ccr.x)
      /\ \A D, S \in Int : Exact(D, S) = Exactly(task.op, D, S) + CarryOf(task.op, task.ccr.x)
  BY <1>1, ChainTerms
<1>3. /\ acc \in Seq(Figures(task.op, task.sz)) /\ Len(acc) = done /\ ccr \in CCR
      /\ 0 <= Whole(acc) /\ Whole(acc) < Base ^ done
      /\ Whole(acc) + Carry * Base ^ done
           = Exactly(task.op, Whole(task.d), Whole(task.s)) + CarryOf(task.op, task.ccr.x)
      /\ ccr.z <=> task.ccr.z /\ Whole(acc) = 0
      /\ ccr.c = ccr.x
  BY <1>1, <1>2 DEF ChainState
<1>4. Base ^ done \in Nat \ {0}
  BY <1>1, <1>2, BasePowers
<1>5. ASSUME NEW ds, \A i \in 1 .. done : ds[i] \in Figures(task.op, task.sz)
      PROVE  Whole(ds) \in Int
  <2>1. done - 1 \in 0 .. Length - 1 /\ (done - 1) + 1 = done
    BY <1>1, PlacesAssumption
  <2> DEFINE n == done - 1
  <2>2. Lowest(task.op, task.sz, ds, n) \in Int
        /\ Lowest(task.op, task.sz, ds, n + 1)
             = Lowest(task.op, task.sz, ds, n)
                 + FigureValue(task.op, ds[n + 1]) * BaseOf(task.op, task.sz) ^ n
    <3> HIDE DEF n
    <3> QED BY <1>1, <1>5, <2>1, LowestStep DEF n
  <2>3. FigureValue(task.op, ds[n + 1]) \in Int
    <3>1. ds[n + 1] \in Figures(task.op, task.sz)
      BY <1>1, <1>5, <2>1
    <3> HIDE DEF n
    <3> QED BY <1>1, <3>1, FigureRange
  <2>4. BaseOf(task.op, task.sz) ^ n \in Int
    <3>1. n \in 0 .. Length
      BY <1>1, <2>1, PlacesAssumption
    <3> HIDE DEF n
    <3> QED BY <1>1, <3>1, BasePowers
  <2> QED BY <1>2, <2>1, <2>2, <2>3, <2>4
<1>6. Whole(acc) \in Int
  <2>1. ASSUME NEW i \in 1 .. done PROVE acc[i] \in Figures(task.op, task.sz)
    <3>1. i \in 1 .. Len(acc)
      BY <1>3
    <3> QED BY <1>3, <3>1
  <2> QED BY <1>5, <2>1
<1>7. Whole(task.s) \in Int /\ Whole(task.d) \in Int
  <2>1. ASSUME NEW i \in 1 .. done
        PROVE  /\ task.s[i] \in Figures(task.op, task.sz)
               /\ task.d[i] \in Figures(task.op, task.sz)
    <3>1. i \in 1 .. Length
      BY <1>1, PlacesAssumption
    <3> QED BY <1>1, <3>1
  <2> QED BY <1>5, <2>1
<1>8. ccr.z \in BOOLEAN
  BY <1>3 DEF CCR
<1> QED BY <1>2, <1>3, <1>4, <1>6, <1>7, <1>8

(* Numbers of any length and any digits, added, subtracted or negated with *)
(* ADDX, SUBX, NEGX, ABCD, SBCD or NBCD from the low end, are exact: X is  *)
(* the carry of the whole, C the same, and Z stays set only when it was    *)
(* set and every digit is 0.                                               *)
THEOREM ChainsExact == Spec => []ChainExact
<1>1. ChainInv => ChainExact
  <2> SUFFICES ASSUME ChainInv, ChainRunning PROVE ChainExact
    BY DEF ChainExact
  <2>1. /\ Whole(acc) + Carry * Base ^ done = Exact(Whole(task.d), Whole(task.s))
        /\ ccr.c = ccr.x /\ ccr.z \in BOOLEAN
        /\ ccr.z <=> task.ccr.z /\ Whole(acc) = 0
    BY WholeNumbers
  <2>2. ccr.z = (task.ccr.z /\ Whole(acc) = 0)
    <3> DEFINE z == ccr.z
               e == task.ccr.z /\ Whole(acc) = 0
    <3>1. z \in BOOLEAN /\ e \in BOOLEAN /\ (z <=> e)
      BY <2>1
    <3>2. z = e
      <4> HIDE DEF z, e
      <4> QED BY <3>1
    <3> QED BY <3>2
  <2> QED BY <2>1, <2>2 DEF ChainExact
<1> QED BY <1>1, ChainInvariant, PTL

(* After the last digit of a binary chain N is the sign of the whole       *)
(* number and V tells that the exact result does not fit.                  *)
THEOREM ChainsSigned == Spec => []ChainSigned
<1>1. ChainInv => ChainSigned
  <2> SUFFICES ASSUME ChainInv, ChainRunning, task.op \in Binary PROVE ChainSigned
    BY DEF ChainSigned
  <2> DEFINE sz == task.sz
             P == Base ^ done
             W == Whole(acc)
             D == Whole(task.d)
             S == Whole(task.s)
             na == Number(Msb(acc[done], sz))
             nd == Number(Msb(task.d[done], sz))
             ns == Number(Msb(task.s[done], sz))
             c == CarryOf(task.op, ccr.x)
             c0 == CarryOf(task.op, task.ccr.x)
             X(a, b) == Exactly(task.op, a, b)
  <2>1. /\ W \in Int /\ D \in Int /\ S \in Int /\ 0 <= W /\ W < P /\ P \in Nat \ {0}
        /\ W + Carry * P = Exact(D, S)
    BY WholeNumbers
  <2>2. /\ task.kind = "chain" /\ done > 0 /\ ccr \in CCR
        /\ ccr.n <=> Msb(acc[done], sz)
        /\ ccr.v <=> na + c # X(nd, ns)
    BY DEF ChainRunning, ChainInv, ChainState
  <2>3. Carry = c /\ \A a, b \in Int : Exact(a, b) = X(a, b) + c0
    BY <2>2, ChainTerms
  <2>4. na \in {0, 1} /\ nd \in {0, 1} /\ ns \in {0, 1} /\ c \in Int /\ c0 \in Int
        /\ (na = 1 <=> Msb(acc[done], sz))
    BY DEF Number, CarryOf
  <2>5. /\ SignedWhole(acc) = W + (0 - na) * P
        /\ SignedWhole(task.d) = D + (0 - nd) * P
        /\ SignedWhole(task.s) = S + (0 - ns) * P
    <3>1. ASSUME NEW w \in Int
          PROVE  w + (0 - 1) * P = w - P /\ w + (0 - 0) * P = w
      <4> HIDE DEF P
      <4> QED BY <2>1
    <3>2. ASSUME NEW ds, Whole(ds) \in Int
          PROVE  SignedWhole(ds) = Whole(ds) + (0 - Number(Msb(ds[done], sz))) * P
      <4>1. CASE Msb(ds[done], sz)
        <5>1. Number(Msb(ds[done], sz)) = 1
          BY <4>1 DEF Number
        <5>2. SignedWhole(ds) = Whole(ds) - P
          BY <4>1 DEF SignedWhole
        <5> HIDE DEF P
        <5> QED BY <3>1, <3>2, <5>1, <5>2
      <4>2. CASE ~Msb(ds[done], sz)
        <5>1. Number(Msb(ds[done], sz)) = 0
          BY <4>2 DEF Number
        <5>2. SignedWhole(ds) = Whole(ds)
          BY <4>2 DEF SignedWhole
        <5> HIDE DEF P
        <5> QED BY <3>1, <3>2, <5>1, <5>2
      <4> QED BY <4>1, <4>2
    <3> HIDE DEF P, sz
    <3> QED BY <2>1, <3>2
  <2>6. /\ X(D + (0 - nd) * P, S + (0 - ns) * P) = X(D, S) + X(0 - nd, 0 - ns) * P
        /\ X(D, S) \in Int
        /\ X(nd, ns) \in Int /\ X(0 - nd, 0 - ns) = 0 - X(nd, ns)
    <3>1. 0 - nd \in Int /\ 0 - ns \in Int /\ nd \in Int /\ ns \in Int
      BY <2>4
    <3>2. X(nd, ns) \in Int /\ X(0 - nd, 0 - ns) = 0 - X(nd, ns)
      <4> HIDE DEF nd, ns
      <4> QED BY <3>1 DEF Exactly
    <3> DEFINE md == 0 - nd
               ms == 0 - ns
    <3>3. md \in Int /\ ms \in Int
      BY <3>1
    <3>4. /\ Exactly(task.op, D + md * P, S + ms * P)
               = Exactly(task.op, D, S) + Exactly(task.op, md, ms) * P
          /\ Exactly(task.op, D, S) \in Int
      <4> HIDE DEF P, md, ms, D, S
      <4> QED BY <2>1, <3>3, ExactlyPlaces
    <3> HIDE DEF P, nd, ns, D, S
    <3> QED BY <3>2, <3>4
  <2> DEFINE e == X(nd, ns)
             E == X(D, S)
  <2>7. /\ D + (0 - nd) * P \in Int /\ S + (0 - ns) * P \in Int
        /\ Exact(SignedWhole(task.d), SignedWhole(task.s)) = E + (0 - e) * P + c0
    <3>1. D + (0 - nd) * P \in Int /\ S + (0 - ns) * P \in Int
      <4> HIDE DEF P, nd, ns, D, S
      <4> QED BY <2>1, <2>4
    <3>2. X(D + (0 - nd) * P, S + (0 - ns) * P) = E + (0 - e) * P
      BY <2>6
    <3> HIDE DEF P, nd, ns, D, S, X, E, e
    <3> QED BY <2>3, <2>5, <3>1, <3>2
  <2>8. W + c * P = E + c0
    <3> HIDE DEF P, D, S, X, W
    <3> QED BY <2>1, <2>3 DEF E
  <2>9. SignedWhole(acc) # Exact(SignedWhole(task.d), SignedWhole(task.s)) <=> na + c # e
    <3>1. e \in Int /\ E \in Int
      BY <2>6
    <3> HIDE DEF P, W, na, c, c0, e, E
    <3>2. W + (0 - na) * P = W - na * P /\ E + (0 - e) * P + c0 = W + c * P - e * P
      BY <2>1, <2>4, <2>8, <3>1
    <3>3. W - na * P = W + c * P - e * P <=> (na + c - e) * P = 0
      BY <2>1, <2>4, <3>1
    <3>4. (na + c - e) * P = 0 <=> na + c - e = 0
      <4> DEFINE k == na + c - e
      <4>1. k \in Int
        BY <2>4, <3>1
      <4> HIDE DEF k
      <4>2. k * P = 0 <=> k = 0
        BY <2>1, <4>1
      <4> QED BY <4>2 DEF k
    <3> QED BY <2>4, <2>5, <2>7, <3>1, <3>2, <3>3, <3>4
  <2>10. SignedWhole(acc) < 0 <=> na = 1
    <3> HIDE DEF P, W, na
    <3>1. (0 - 1) * P = -P /\ (0 - 0) * P = 0
      BY <2>1
    <3> QED BY <2>1, <2>4, <2>5, <3>1
  <2>11. ccr.n = (SignedWhole(acc) < 0)
    <3> DEFINE n == ccr.n
               g == SignedWhole(acc) < 0
    <3>1. n \in BOOLEAN /\ g \in BOOLEAN /\ (n <=> g)
      BY <2>2, <2>4, <2>10 DEF CCR
    <3>2. n = g
      <4> HIDE DEF n, g
      <4> QED BY <3>1
    <3> QED BY <3>2
  <2>12. ccr.v = (SignedWhole(acc) # Exact(SignedWhole(task.d), SignedWhole(task.s)))
    <3> DEFINE v == ccr.v
               g == SignedWhole(acc) # Exact(SignedWhole(task.d), SignedWhole(task.s))
    <3>1. v \in BOOLEAN /\ g \in BOOLEAN /\ (v <=> g)
      BY <2>2, <2>9 DEF CCR
    <3>2. v = g
      <4> HIDE DEF v, g
      <4> QED BY <3>1
    <3> QED BY <3>2
  <2> QED BY <2>11, <2>12 DEF ChainSigned
<1> QED BY <1>1, ChainInvariant, PTL
=============================================================================
