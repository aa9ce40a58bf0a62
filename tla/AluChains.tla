----------------------------- MODULE AluChains -----------------------------
(***************************************************************************)
(* The arithmetic of the handlers put to the uses it is made for: long     *)
(* numbers added, subtracted and negated digit by digit through X and the  *)
(* sticky Z, counted shifts against as many single ones, a comparison      *)
(* followed by a condition, division and multiplication, and bit fields    *)
(* in memory.  A task is one such computation, a step one instruction.     *)
(***************************************************************************)
EXTENDS Alu, Sequences

CONSTANTS
  Length,         \* digits of a long number
  Samples(_),     \* values of an operand of a size
  Decimals,       \* bytes of two decimal digits, in a byte of eight bits
  Bytes,          \* of memory around a bit field
  Contents,       \* values of these bytes
  Inserted        \* what the register holds that BFINS takes the field from

ASSUME SamplesAssumption == \A sz \in Sizes : Samples(sz) \subseteq 0 .. Mod(sz) - 1

\* Facts of arithmetic the provers do not know, for the widths in use.
ASSUME PowersAssumption ==
  /\ 2 ^ 1 = 2
  /\ \A i, j \in 0 .. Width(4) : 2 ^ i \in Nat \ {0} /\ 2 ^ (i + j) = 2 ^ i * 2 ^ j
ASSUME PlacesAssumption ==
  /\ Length \in Nat
  /\ \A b \in {100} \cup {Mod(sz) : sz \in Sizes} :
       /\ b ^ 0 = 1
       /\ \A i \in 0 .. Length : b ^ i \in Nat \ {0} /\ b ^ (i + 1) = b ^ i * b

\* Packed decimals have the program's own bytes, two digits each.
Dec == INSTANCE Alu WITH Byte <- 8, Radix <- 10

ASSUME DecimalsAssumption ==
  /\ Decimals \subseteq {b \in 0 .. 255 : b % 16 < 10 /\ b \div 16 < 10}
  /\ 2 ^ 4 = 16 /\ 2 ^ 5 = 32 /\ 2 ^ 6 = 64 /\ 2 ^ 8 = 256 /\ 2 ^ 9 = 512 /\ 2 ^ 16 = 65536

\* The fields below reach from two bytes before the third byte to the seventh.
ASSUME BytesAssumption ==
  /\ Bytes \in Nat /\ Bytes >= 7
  /\ Contents \subseteq 0 .. Mod(1) - 1
  /\ Inserted \in 0 .. Mod(4) - 1

VARIABLES task, done, acc, ccr

vars == <<task, done, acc, ccr>>

Binary == {"addx", "subx", "negx"}
Packed == {"abcd", "sbcd", "nbcd"}
Shifts == {"asl", "asr", "lsl", "lsr", "rol", "ror", "roxl", "roxr"}
Fields == {"bfchg", "bfclr", "bfset", "bfins"}

Flags(x, z) == [x |-> x, n |-> FALSE, z |-> z, v |-> FALSE, c |-> FALSE]

Digits(op, sz) == [1 .. Length -> IF op \in Packed THEN Decimals ELSE Samples(sz)]

Task(kind, op, sz, f, s, d) ==
  [kind |-> kind, op |-> op, sz |-> sz, ccr |-> f, s |-> s, d |-> d]

Init ==
  /\ \/ \E op \in Binary, sz \in Sizes, x, z \in BOOLEAN :
          \E s, d \in Digits(op, sz) : task = Task("chain", op, sz, Flags(x, z), s, d)
     \/ \E op \in Packed, x, z \in BOOLEAN :
          \E s, d \in Digits(op, 1) : task = Task("chain", op, 1, Flags(x, z), s, d)
     \/ \E op \in Shifts, sz \in Sizes, x \in BOOLEAN :
          \E d \in 0 .. Mod(sz) - 1 : task = Task("shift", op, sz, Flags(x, TRUE), 0, d)
     \/ \E sz \in Sizes :
          \E s, d \in Samples(sz) : task = Task("pair", "cmp", sz, Flags(FALSE, TRUE), s, d)
     \/ \E op \in Fields, width \in 1 .. BF, offset \in -(Byte + 1) .. Byte :
          \E m \in [0 .. Bytes - 1 -> Contents] :
             task = Task("field", op, width, Flags(FALSE, TRUE), offset, m)
  /\ done = 0
  /\ acc = <<>>
  /\ ccr = task.ccr

-----------------------------------------------------------------------------
(***************************************************************************)
(* Digits come from the low end; acc collects those of the result.         *)
(***************************************************************************)
Digitwise(op, s, d, f, sz) ==
  CASE op = "addx" -> addx(s, d, f, sz)
    [] op = "subx" -> subx(s, d, f, sz)
    [] op = "negx" -> negx(s, f, sz)
    [] op = "abcd" -> Dec!abcd(s, d, f, sz)
    [] op = "sbcd" -> Dec!sbcd(s, d, f, sz)
    [] op = "nbcd" -> Dec!nbcd(s, f, sz)

NextDigit ==
  /\ task.kind = "chain" /\ done < Length
  /\ LET r == Digitwise(task.op, task.s[done + 1], task.d[done + 1], ccr, task.sz)
     IN /\ acc' = Append(acc, r.res)
        /\ ccr' = r.ccr
  /\ done' = done + 1
  /\ UNCHANGED task

Shift(op, n, d, f, sz) ==
  CASE op = "asl" -> asl(n, d, f, sz)
    [] op = "asr" -> asr(n, d, f, sz)
    [] op = "lsl" -> lsl(n, d, f, sz)
    [] op = "lsr" -> lsr(n, d, f, sz)
    [] op = "rol" -> rol(n, d, f, sz)
    [] op = "ror" -> ror(n, d, f, sz)
    [] op = "roxl" -> roxl(n, d, f, sz)
    [] op = "roxr" -> roxr(n, d, f, sz)

\* One more single shift; V of ASL is collected on the way.
ShiftOnce ==
  /\ task.kind = "shift" /\ done < 2 * Width(4) - 1
  /\ LET d == IF acc = <<>> THEN task.d ELSE acc[1]
         r == Shift(task.op, 1, d, ccr, task.sz)
     IN /\ acc' = <<r.res>>
        /\ ccr' = [r.ccr EXCEPT !.v = @ \/ ccr.v]
  /\ done' = done + 1
  /\ UNCHANGED task

\* The handler's work on memory: load, change, store in one or two writes.
ChangeField ==
  /\ task.kind = "field" /\ done = 0
  /\ LET ea == PatchEa(2, task.s)
         offset == PatchOffset(task.s)
         width == task.sz
         n == ByteCount(offset, width)
         lo == FieldLo(task.d, ea, n)
         hi == FieldHi(task.d, ea, n)
         field == MakeField(lo, hi, offset)
         new == NewField(task.op, field, width, Inserted)
         m == StoreBytes(task.d, ea, FirstWrite(n),
                         StoredLo(lo, new, offset), StoredHi(hi, new, offset))
     IN /\ acc' = StoreBytes(m, ea, SecondWrite(n),
                             StoredLo(lo, new, offset), StoredHi(hi, new, offset))
        /\ ccr' = TestField(IF task.op = "bfins" THEN new ELSE field, width, ccr)
  /\ done' = 1
  /\ UNCHANGED task

Next == NextDigit \/ ShiftOnce \/ ChangeField

Spec == Init /\ [][Next]_vars

-----------------------------------------------------------------------------
(***************************************************************************)
(* What the computations should give, told by numbers and bit positions.   *)
(***************************************************************************)
\* the sum of g[0] to g[n - 1]
Total(g, n) ==
  LET upTo[i \in 0 .. n] == IF i = 0 THEN 0 ELSE upTo[i - 1] + g[i - 1] IN upTo[n]

Base == IF task.op \in Packed THEN 100 ELSE Mod(task.sz)
DigitValue(b) == IF task.op \in Packed THEN (b \div 16) * 10 + (b % 16) ELSE b
Whole(ds) == Total([i \in 0 .. done - 1 |-> DigitValue(ds[i + 1]) * Base ^ i], done)
SignedWhole(ds) ==
  IF Msb(ds[done], task.sz) THEN Whole(ds) - Base ^ done ELSE Whole(ds)

Exact(D, S) ==
  LET x == Number(task.ccr.x)
  IN IF task.op \in {"addx", "abcd"} THEN D + S + x
     ELSE IF task.op \in {"subx", "sbcd"} THEN D - S - x
     ELSE 0 - S - x
Carry == IF task.op \in {"addx", "abcd"} THEN Number(ccr.x) ELSE -Number(ccr.x)

ChainRunning == task.kind = "chain" /\ done > 0

(* A number of several digits, added, subtracted or negated with ADDX,     *)
(* SUBX, NEGX, ABCD, SBCD or NBCD from its low end, is exact: what X holds *)
(* afterwards is the carry or borrow of the whole, C tells the same, and Z *)
(* is left set exactly when it was set and every digit is zero.            *)
ChainExact ==
  ChainRunning =>
    /\ Whole(acc) + Carry * Base ^ done = Exact(Whole(task.d), Whole(task.s))
    /\ ccr.c = ccr.x
    /\ ccr.z = (task.ccr.z /\ Whole(acc) = 0)

(* After the last digit of a binary chain N and V are those of the whole   *)
(* number: its sign, and that the exact result does not fit.               *)
ChainSigned ==
  (ChainRunning /\ task.op \in Binary) =>
    /\ ccr.n = (SignedWhole(acc) < 0)
    /\ ccr.v = (SignedWhole(acc) # Exact(SignedWhole(task.d), SignedWhole(task.s)))

(* A shift or rotate by a count leaves what as many shifts by one leave,   *)
(* the flags included, and V of ASL when the sign ever changed on the way. *)
(* ASR by more than the width is left out for C and X: the handlers clear  *)
(* both, single shifts go on moving the sign out.                          *)
CountedShifts ==
  (task.kind = "shift" /\ done > 0) =>
    LET r == Shift(task.op, done, task.d, task.ccr, task.sz)
        saturated == task.op = "asr" /\ done > Width(task.sz)
    IN /\ acc = <<r.res>>
       /\ <<r.ccr.n, r.ccr.z, r.ccr.v>> = <<ccr.n, ccr.z, ccr.v>>
       /\ saturated \/ <<r.ccr.c, r.ccr.x>> = <<ccr.c, ccr.x>>

(* After CMP the conditions order the operands: LT, LE, GT, GE as signed   *)
(* and CS, LS, HI, CC as unsigned numbers, EQ and NE as either; and of the *)
(* two conditions of a pair one holds.                                     *)
ConditionsOrder ==
  task.kind = "pair" =>
    LET f == cmp(task.s, task.d, ccr, task.sz).ccr
        s == Signed(task.s, task.sz)  d == Signed(task.d, task.sz)
    IN {cc \in Conditions : Cond(cc, f)} =
         {IF d < s THEN "LT" ELSE "GE", IF d > s THEN "GT" ELSE "LE",
          IF task.d < task.s THEN "CS" ELSE "CC",
          IF task.d > task.s THEN "HI" ELSE "LS",
          IF d = s THEN "EQ" ELSE "NE",
          IF f.v THEN "VS" ELSE "VC",
          IF Low(d - s, task.sz) >= Mod(task.sz) \div 2 THEN "MI" ELSE "PL"}

(* A division that stores its results stores the quotient and a remainder  *)
(* that is smaller than the divisor, has the dividend's sign and restores  *)
(* the dividend; one that does not store reports an overflow or traps.     *)
(* The smallest dividend by -1, which DIVS.W stores as 0 with V clear and  *)
(* DIVL.L as itself, is left out.                                          *)
Divided(a, b, q, r) ==
  /\ a = b * q + r
  /\ Abs(r) < Abs(b)
  /\ r = 0 \/ (r < 0) = (a < 0)

DivisionExact ==
  (task.kind = "pair" /\ task.sz = 4) =>
    /\ \A s \in 1 .. Mod(2) - 1 :
         LET w == divs(s, task.d, ccr)  u == divu(s, task.d, ccr)
             a == Signed(task.d, 4)  b == Signed(s, 2)
             least == a = -(Mod(4) \div 2) /\ b = -1
         IN /\ w.stored /\ ~least => Divided(a, b, Signed(w.q, 2), Signed(w.r, 2))
            /\ w.stored \/ (w.ccr.v /\ Quotient(a, b) # Signed(Quotient(a, b), 2))
            /\ u.stored => Divided(task.d, s, u.q, u.r)
            /\ u.stored \/ (u.ccr.v /\ task.d \div s >= Mod(2))
    /\ \A hi \in Samples(4), signed, wide \in BOOLEAN :
         LET q == divl(task.s, hi, task.d, signed, wide, ccr)
             a == IF wide THEN As(hi, 4, signed) * Mod(4) + task.d ELSE As(task.d, 4, signed)
             b == As(task.s, 4, signed)
             least == a = -(Mod(4) \div 2) /\ b = -1
         IN IF task.s = 0 THEN q.trap /\ ~q.stored
            ELSE IF q.stored
                 THEN ~least => Divided(a, b, As(q.q, 4, signed), As(q.r, 4, signed))
                 ELSE q.ccr.v /\ wide

(* MULL tells with V whether the product fits its long word, and in its    *)
(* wide form gives all of it; MULU and MULS always have room.              *)
ProductExact ==
  (task.kind = "pair" /\ task.sz = 4) =>
    /\ \A signed \in BOOLEAN :
         LET p == As(task.s, 4, signed) * As(task.d, 4, signed)
             m == mull(task.s, task.d, signed, FALSE, ccr)
             w == mull(task.s, task.d, signed, TRUE, ccr)
         IN /\ m.ccr.v = (As(m.lo, 4, signed) # p)
            /\ As(w.hi, 4, signed) * Mod(4) + w.lo = p
    /\ LET s == Low(task.s, 2)  d == Low(task.d, 2)
       IN /\ mulu(s, d, ccr).res = s * d
          /\ Signed(muls(s, d, ccr).res, 4) = Signed(s, 2) * Signed(d, 2)

(* A bit field instruction changes in memory the bits of its field, to     *)
(* what it says, and no other, wherever the field starts (an offset may be *)
(* negative) and however many bytes it touches; and N and Z are those of   *)
(* the field it found, or inserts.                                         *)
MemoryBit(m, p) == Bit(m[p \div Byte], Byte - 1 - (p % Byte))
FieldBits(m) ==
  [i \in 0 .. task.sz - 1 |-> MemoryBit(m, 2 * Byte + task.s + task.sz - 1 - i)]

FieldsExact ==
  (task.kind = "field" /\ done = 1) =>
    LET first == 2 * Byte + task.s
        inside == first .. first + task.sz - 1
        old == FieldBits(task.d)
        new == [i \in DOMAIN old |->
                  CASE task.op = "bfchg" -> ~old[i]
                    [] task.op = "bfclr" -> FALSE
                    [] task.op = "bfset" -> TRUE
                    [] task.op = "bfins" -> Bit(Inserted, i)]
        told == IF task.op = "bfins" THEN new ELSE old
    IN /\ FieldBits(acc) = new
       /\ \A p \in (0 .. Bytes * Byte - 1) \ inside : MemoryBit(acc, p) = MemoryBit(task.d, p)
       /\ ccr.n = told[task.sz - 1]
       /\ ccr.z = (\A i \in DOMAIN told : ~told[i])
=============================================================================
