-------------------------------- MODULE Alu --------------------------------
(***************************************************************************)
(* What the instruction handlers compute (m68k_in.c): the result and the   *)
(* condition codes of every integer operation, as operators.  A handler's  *)
(* operands and the order in which it reads, sets the flags and writes are *)
(* in Handlers; here is only the arithmetic.                               *)
(*                                                                         *)
(* A size is 1, 2 or 4 bytes, as in the handler's name (8, 16 or 32).  The *)
(* program has 8 bits in a byte and counts decimals; both are parameters,  *)
(* so that all values of a long word can be enumerated.  An operand is     *)
(* its unsigned value.  Every operation gives the result and the codes.    *)
(***************************************************************************)
EXTENDS Integers, FiniteSetsExt

CONSTANTS
  Byte,   \* bits of a byte
  Radix   \* of a BCD digit, which has half a byte

ASSUME AluAssumption == Byte \in Nat \ {0} /\ Radix \in Nat \ {0}

Sizes == {1, 2, 4}
Width(sz) == Byte * sz
Mod(sz) == 2 ^ Width(sz)

(***************************************************************************)
(* MASK_OUT_ABOVE_n, GET_MSB_n and MAKE_INT_n.                             *)
(***************************************************************************)
Low(v, sz) == v % Mod(sz)
Bit(v, i) == (v \div 2 ^ i) % 2 = 1
Msb(v, sz) == Bit(v, Width(sz) - 1)
Signed(v, sz) == IF Msb(v, sz) THEN Low(v, sz) - Mod(sz) ELSE Low(v, sz)
Number(b) == IF b THEN 1 ELSE 0

\* Logical operations go through the set of the bits that are 1.
Bits(v, w) == {i \in 0 .. w - 1 : Bit(v, i)}
FromBits(S) == MapThenSumSet(LAMBDA i : 2 ^ i, S)
Complement(v, sz) == Mod(sz) - 1 - v

(***************************************************************************)
(* The condition codes.  The flags the code keeps are bits of words left   *)
(* over from the computation; what they stand for is a boolean each.       *)
(***************************************************************************)
CCR == [x : BOOLEAN, n : BOOLEAN, z : BOOLEAN, v : BOOLEAN, c : BOOLEAN]

Result(r, ccr) == [res |-> r, ccr |-> ccr]
Codes(x, r, sz, v, c) ==
  [x |-> x, n |-> Msb(r, sz), z |-> Low(r, sz) = 0, v |-> v, c |-> c]

\* Bytes and words carry into the bit above the sum, long words have none.
CFLAG_ADD(s, d, r, sz) ==
  IF sz = 4
  THEN LET S == Msb(s, sz)  D == Msb(d, sz)  R == Msb(r, sz)
       IN (S /\ D) \/ (~R /\ (S \/ D))
  ELSE Bit(r, Width(sz))

CFLAG_SUB(s, d, r, sz) ==
  IF sz = 4
  THEN LET S == Msb(s, sz)  D == Msb(d, sz)  R == Msb(r, sz)
       IN (S /\ R) \/ (~D /\ (S \/ R))
  ELSE Bit(r, Width(sz))

VFLAG_ADD_OneOperand(s, d, r, sz) == Msb(s, sz) # Msb(r, sz)
VFLAG_ADD(s, d, r, sz) == Msb(s, sz) # Msb(r, sz) /\ Msb(d, sz) # Msb(r, sz)
VFLAG_SUB(s, d, r, sz) == Msb(s, sz) # Msb(d, sz) /\ Msb(r, sz) # Msb(d, sz)

\* The extended operations only ever clear Z.
StickyZ(ccr, old) == [ccr EXCEPT !.z = @ /\ old.z]

-----------------------------------------------------------------------------
(***************************************************************************)
(* Binary arithmetic: s is the source and d the destination operand.       *)
(***************************************************************************)
Sum(s, d, r, sz) ==
  LET c == CFLAG_ADD(s, d, r, sz)
  IN Result(Low(r, sz), Codes(c, r, sz, VFLAG_ADD(s, d, r, sz), c))

Difference(s, d, r, sz) ==
  LET c == CFLAG_SUB(s, d, r, sz)
  IN Result(Low(r, sz), Codes(c, r, sz, VFLAG_SUB(s, d, r, sz), c))

Extended(result, old) == [result EXCEPT !.ccr = StickyZ(@, old)]

add(s, d, ccr, sz) == Sum(s, d, s + d, sz)
sub(s, d, ccr, sz) == Difference(s, d, d - s, sz)
addx(s, d, ccr, sz) == Extended(Sum(s, d, s + d + Number(ccr.x), sz), ccr)
subx(s, d, ccr, sz) == Extended(Difference(s, d, d - s - Number(ccr.x), sz), ccr)
neg(s, ccr, sz) == Difference(s, 0, 0 - s, sz)
negx(s, ccr, sz) == Extended(Difference(s, 0, 0 - s - Number(ccr.x), sz), ccr)

\* CMP is a subtraction that keeps X and stores nothing.
cmp(s, d, ccr, sz) == [sub(s, d, ccr, sz) EXCEPT !.ccr.x = ccr.x]

(***************************************************************************)
(* Moves and logic: V and C are cleared and X is kept.                     *)
(***************************************************************************)
Logic(r, ccr, sz) == Result(Low(r, sz), Codes(ccr.x, r, sz, FALSE, FALSE))

move(s, ccr, sz) == Logic(s, ccr, sz)
and(s, d, ccr, sz) ==
  Logic(FromBits(Bits(s, Width(sz)) \cap Bits(d, Width(sz))), ccr, sz)
or(s, d, ccr, sz) ==
  Logic(FromBits(Bits(s, Width(sz)) \cup Bits(d, Width(sz))), ccr, sz)
eor(s, d, ccr, sz) ==
  Logic(FromBits(SymDiff(Bits(s, Width(sz)), Bits(d, Width(sz)))), ccr, sz)
not(s, ccr, sz) == Logic(Complement(s, sz), ccr, sz)
clr(s, ccr, sz) == Logic(0, ccr, sz)
tst(s, ccr, sz) == Logic(s, ccr, sz)
ext(s, ccr, sz) == Logic(Signed(s, sz \div 2), ccr, sz)
extb(s, ccr, sz) == Logic(Signed(s, 1), ccr, sz)
swap(s, ccr, sz) == Logic((s % Mod(2)) * Mod(2) + (s \div Mod(2)), ccr, sz)

\* TAS sets the top bit of a byte and tells what it was.
tas(s, ccr, sz) ==
  [move(s, ccr, sz) EXCEPT !.res = IF Msb(s, 1) THEN s ELSE s + 2 ^ (Byte - 1)]

\* The bit operations only write Z; the number counts modulo the width.
Only(ccr, z) == [ccr EXCEPT !.z = z]
btst(n, d, ccr, sz) == Result(d, Only(ccr, ~Bit(d, n % Width(sz))))
bset(n, d, ccr, sz) ==
  LET i == n % Width(sz)
  IN Result(IF Bit(d, i) THEN d ELSE d + 2 ^ i, Only(ccr, ~Bit(d, i)))
bclr(n, d, ccr, sz) ==
  LET i == n % Width(sz)
  IN Result(IF Bit(d, i) THEN d - 2 ^ i ELSE d, Only(ccr, ~Bit(d, i)))
bchg(n, d, ccr, sz) ==
  LET i == n % Width(sz)
  IN Result(IF Bit(d, i) THEN d - 2 ^ i ELSE d + 2 ^ i, Only(ccr, ~Bit(d, i)))

-----------------------------------------------------------------------------
(***************************************************************************)
(* Packed decimals: a byte of two digits.  Skip is what a digit leaves     *)
(* unused (6 of 16), HiMax the byte whose high digit is the largest (0x90).*)
(***************************************************************************)
Digit == 2 ^ (Byte \div 2)
LowNibble(v) == v % Digit
HighNibble(v) == (v % Mod(1)) - LowNibble(v)
Skip == Digit - Radix
HiMax == (Radix - 1) * Digit

\* v & mask, for a mask of w bits from the high digit up (0x3f0, 0x1f0)
From(v, w) == ((v \div Digit) % (2 ^ w)) * Digit

Decimal(r, v, c, old) ==
  Result(Low(r, 1), StickyZ(Codes(c, r, 1, v, c), old))

abcd_NoHalfCarry(s, d, ccr, sz) ==
  LET sum == Low(s, 1) + Low(d, 1) + Number(ccr.x)
      c == From(sum, Byte \div 2 + 2) > HiMax
      r == IF c THEN sum + Skip * Digit ELSE sum
  IN Decimal(r, ~Msb(sum, 1) /\ Msb(r, 1), c, ccr)

abcd(s, d, ccr, sz) ==
  LET lo == LowNibble(s) + LowNibble(d) + Number(ccr.x)
      sum == HighNibble(s) + HighNibble(d) + lo
      adjusted == IF lo > Radix - 1 THEN sum + Skip ELSE sum
      c == From(adjusted, Byte \div 2 + 2) > HiMax
      r == IF c THEN adjusted + Skip * Digit ELSE adjusted
  IN Decimal(r, ~Msb(sum, 1) /\ Msb(r, 1), c, ccr)

sbcd(s, d, ccr, sz) ==
  LET lo == LowNibble(d) - LowNibble(s) - Number(ccr.x)
      difference == HighNibble(d) - HighNibble(s) + lo
      binary == Low(d, 1) - Low(s, 1) - Number(ccr.x)
      bcd == IF lo < 0 THEN Skip ELSE 0
      r == difference - bcd - (IF binary < 0 THEN Skip * Digit ELSE 0)
      c == Bit(binary - bcd, Byte) \/ Bit(binary - bcd, Byte + 1)
  IN Decimal(r, Msb(difference, 1) /\ ~Msb(r, 1), c, ccr)

nbcd(s, ccr, sz) ==
  LET lo == (0 - LowNibble(s) - Number(ccr.x)) % Mod(2)
      hi == (0 - HighNibble(s)) % Mod(2)
      adjusted == hi + (IF lo > Radix - 1 THEN lo - Skip ELSE lo)
      c == From(adjusted, Byte \div 2 + 1) > HiMax
      r == IF c THEN adjusted - Skip * Digit ELSE adjusted
  IN Decimal(r, Msb(hi + lo, 1) /\ ~Msb(r, 1), c, ccr)

\* PACK and UNPK add a constant between the two forms; no flag changes.
pack(s, k) ==
  LET t == (s + k) % Mod(2)
  IN LowNibble(t \div Mod(1)) * Digit + LowNibble(t)
unpk(s, k) ==
  ((HighNibble(s) \div Digit) * Mod(1) + LowNibble(s) + k) % Mod(2)

-----------------------------------------------------------------------------
(***************************************************************************)
(* Shifts and rotates of d by n places.  C is the last bit that left, X    *)
(* follows it except in ROL and ROR; by 0 places C is cleared (or X, in    *)
(* ROXL and ROXR) and X stays.                                             *)
(***************************************************************************)
Unshifted(d, ccr, sz) == Logic(d, ccr, sz)

\* the w bits of d moved up n places (n <= w) and down n places
Up(d, n, w) == (d % 2 ^ (w - n)) * 2 ^ n
Down(d, n) == d \div 2 ^ n

\* the sign takes both values while d moves up n < w places
SignChanges_AtTheEnd(d, n, w) == Bit(d, w - 1) # Bit(d, w - 1 - n)
SignChanges(d, n, w) == {Bit(d, i) : i \in (w - 1 - n) .. (w - 1)} = BOOLEAN

asl(n, d, ccr, sz) ==
  LET w == Width(sz)
  IN CASE n = 0 -> Unshifted(d, ccr, sz)
       [] n > 0 /\ n < w ->
            Result(Up(d, n, w),
                   Codes(Bit(d, w - n), Up(d, n, w), sz, SignChanges(d, n, w), Bit(d, w - n)))
       [] n >= w ->
            LET c == n = w /\ Bit(d, 0) IN Result(0, Codes(c, 0, sz, d # 0, c))

asr(n, d, ccr, sz) ==
  LET w == Width(sz)
      sign == Msb(d, sz)
      r == Low(Signed(d, sz) \div 2 ^ n, sz)
  IN CASE n = 0 -> Unshifted(d, ccr, sz)
       [] n > 0 /\ n < w ->
            Result(r, Codes(Bit(d, n - 1), r, sz, FALSE, Bit(d, n - 1)))
       [] n >= w ->
            LET c == n = w /\ sign
                full == IF sign THEN Mod(sz) - 1 ELSE 0
            IN Result(full, Codes(c, full, sz, FALSE, c))

lsl(n, d, ccr, sz) ==
  LET w == Width(sz)
      c == n <= w /\ Bit(d, w - n)
      r == IF n <= w THEN Up(d, n, w) ELSE 0
  IN IF n = 0 THEN Unshifted(d, ccr, sz) ELSE Result(r, Codes(c, r, sz, FALSE, c))

lsr(n, d, ccr, sz) ==
  LET w == Width(sz)
      c == n <= w /\ Bit(d, n - 1)
      r == IF n <= w THEN Down(d, n) ELSE 0
  IN IF n = 0 THEN Unshifted(d, ccr, sz) ELSE Result(r, Codes(c, r, sz, FALSE, c))

\* v, of w bits, rotated k places to the left
RotL(v, k, w) == Up(v, k, w) + Down(v, w - k)

rol(n, d, ccr, sz) ==
  LET r == RotL(d, n % Width(sz), Width(sz))
  IN IF n = 0 THEN Unshifted(d, ccr, sz)
     ELSE Result(r, Codes(ccr.x, r, sz, FALSE, Bit(r, 0)))

ror(n, d, ccr, sz) ==
  LET w == Width(sz)
      r == RotL(d, (w - n) % w, w)
  IN IF n = 0 THEN Unshifted(d, ccr, sz)
     ELSE Result(r, Codes(ccr.x, r, sz, FALSE, Bit(d, (n - 1) % w)))

\* ROXL and ROXR rotate X and the operand together: one bit more.
WithX(d, ccr, sz) == d + Number(ccr.x) * Mod(sz)
Rotated(v, sz) ==
  LET c == Bit(v, Width(sz)) IN Result(Low(v, sz), Codes(c, v, sz, FALSE, c))

roxl(n, d, ccr, sz) ==
  LET w == Width(sz) + 1 IN Rotated(RotL(WithX(d, ccr, sz), n % w, w), sz)
roxr(n, d, ccr, sz) ==
  LET w == Width(sz) + 1 IN Rotated(RotL(WithX(d, ccr, sz), (w - n) % w, w), sz)

-----------------------------------------------------------------------------
(***************************************************************************)
(* Multiplication and division.  The quotient is rounded towards zero.  A  *)
(* division gives its quotient and remainder, and whether it traps; when   *)
(* it traps or overflows the registers stay: stored is FALSE.              *)
(***************************************************************************)
Abs(v) == IF v < 0 THEN -v ELSE v
Quotient(a, b) ==
  LET q == Abs(a) \div Abs(b) IN IF (a < 0) = (b < 0) THEN q ELSE -q
Rest_NeverNegative(a, b) == Abs(a) % Abs(b)
Rest(a, b) == a - b * Quotient(a, b)
As(v, sz, signed) == IF signed THEN Signed(v, sz) ELSE v

Division(q, r, ccr, stored, trap) ==
  [q |-> q, r |-> r, ccr |-> ccr, stored |-> stored, trap |-> trap]
Unstored(ccr, trap) == Division(0, 0, ccr, FALSE, trap)

\* DIVU.W and DIVS.W: a long word by a word
divu(s, d, ccr) ==
  IF s = 0
  THEN Unstored([x |-> ccr.x, n |-> FALSE, z |-> FALSE, v |-> FALSE, c |-> FALSE], TRUE)
  ELSE IF d \div s >= Mod(2)
       THEN Unstored([ccr EXCEPT !.v = TRUE, !.c = FALSE], FALSE)
       ELSE Division(d \div s, d % s, Logic(d \div s, ccr, 2).ccr, TRUE, FALSE)

divs(s, d, ccr) ==
  LET a == Signed(d, 4)  b == Signed(s, 2)
      q == Quotient(a, b)
  IN CASE b = 0 ->
            Unstored([x |-> ccr.x, n |-> FALSE, z |-> FALSE, v |-> FALSE, c |-> FALSE], TRUE)
       [] b = -1 /\ a = -(Mod(4) \div 2) ->
            Division(0, 0, Logic(0, ccr, 2).ccr, TRUE, FALSE)
       [] OTHER ->
            IF q = Signed(q, 2)
            THEN Division(Low(q, 2), Low(Rest(a, b), 2), Logic(q, ccr, 2).ccr, TRUE, FALSE)
            ELSE Unstored([ccr EXCEPT !.v = TRUE, !.c = FALSE], FALSE)

\* DIVL: a long word, or with wide two of them, by a long word.  Here an
\* overflow leaves C, and a long dividend is not looked at for one.
divl(s, hi, lo, signed, wide, ccr) ==
  LET whole == IF wide THEN hi * Mod(4) + lo ELSE lo
      a == IF ~signed THEN whole
           ELSE IF ~wide THEN Signed(lo, 4) ELSE Signed(hi, 4) * Mod(4) + lo
      b == As(s, 4, signed)
      q == Quotient(a, b)
      fits == q = As(Low(q, 4), 4, signed)
  IN IF s = 0 THEN Unstored(ccr, TRUE)
     ELSE IF wide /\ ~fits THEN Unstored([ccr EXCEPT !.v = TRUE], FALSE)
     ELSE Division(Low(q, 4), Low(Rest(a, b), 4), Logic(q, ccr, 4).ccr, TRUE, FALSE)

\* MULU.W and MULS.W: words into a long word
mulu(s, d, ccr) == Logic(s * d, ccr, 4)
muls_Unsigned(s, d, ccr) == Logic(s * d, ccr, 4)
muls(s, d, ccr) == Logic(Signed(s, 2) * Signed(d, 2), ccr, 4)

\* MULL: long words into one long word, V telling what is lost, or into two
mull(s, d, signed, wide, ccr) ==
  LET p == As(s, 4, signed) * As(d, 4, signed)
      lo == Low(p, 4)
      hi == Low(p \div Mod(4), 4)
  IN IF wide
     THEN [hi |-> hi, lo |-> lo,
           ccr |-> [x |-> ccr.x, n |-> Msb(hi, 4), z |-> hi = 0 /\ lo = 0,
                    v |-> FALSE, c |-> FALSE]]
     ELSE [hi |-> 0, lo |-> lo,
           ccr |-> Codes(ccr.x, lo, 4, p # As(lo, 4, signed), FALSE)]

(***************************************************************************)
(* Bounds: CHK compares with zero and a bound, CHK2 and CMP2 with two.     *)
(***************************************************************************)
chk(s, bound, ccr, sz) ==
  LET a == Signed(s, sz)
      out == a < 0 \/ a > Signed(bound, sz)
  IN [trap |-> out,
      ccr |-> [x |-> ccr.x, n |-> IF out THEN a < 0 ELSE ccr.n,
               z |-> a = 0, v |-> FALSE, c |-> FALSE]]

\* A byte or word of an address register, and byte bounds read relative to the
\* PC, are not extended with their sign.
chk2cmp2(r, isAddress, isRelative, lower, upper, ccr, sz) ==
  LET Value(a, raw) == IF raw /\ sz < 4 THEN Low(a, sz) ELSE Signed(a, sz)
      v == Value(r, isAddress)
      l == Value(lower, isRelative /\ sz = 1)
      u == Value(upper, isRelative /\ sz = 1)
  IN [ccr EXCEPT !.z = (v = l \/ v = u), !.c = (v < l \/ v > u)]

(***************************************************************************)
(* The conditions of Bcc, DBcc, Scc and TRAPcc (COND_xx).                  *)
(***************************************************************************)
Conditions == {"HI", "LS", "CC", "CS", "NE", "EQ", "VC", "VS",
               "PL", "MI", "GE", "LT", "GT", "LE"}

GreaterEqual_SignOnly(f) == ~f.n
GreaterEqual(f) == f.n = f.v

Cond(cc, f) ==
  CASE cc = "HI" -> ~f.c /\ ~f.z
    [] cc = "LS" -> f.c \/ f.z
    [] cc = "CC" -> ~f.c
    [] cc = "CS" -> f.c
    [] cc = "NE" -> ~f.z
    [] cc = "EQ" -> f.z
    [] cc = "VC" -> ~f.v
    [] cc = "VS" -> f.v
    [] cc = "PL" -> ~f.n
    [] cc = "MI" -> f.n
    [] cc = "GE" -> GreaterEqual(f)
    [] cc = "LT" -> ~GreaterEqual(f)
    [] cc = "GT" -> GreaterEqual(f) /\ ~f.z
    [] cc = "LE" -> ~GreaterEqual(f) \/ f.z

-----------------------------------------------------------------------------
(***************************************************************************)
(* Bit fields.  A field of width bits starts offset bits after the top of  *)
(* a byte and is kept at the top of a long word while it is worked on.     *)
(***************************************************************************)
BF == Width(4)

\* the bytes a field touches, and the part of the long word it has
ByteCount(offset, width) == (offset + width + Byte - 1) \div Byte
MaskBase(width) == Mod(4) - 2 ^ (BF - width)

\* m68ki_bitfield_patch_ea and m68ki_bitfield_patch_offset: an offset may
\* be negative, and is turned into bytes and less than a byte of bits
PatchEa(ea, offset) ==
  ea + (IF offset >= 0 THEN offset \div Byte ELSE -((Byte - 1 - offset) \div Byte))
PatchOffset(offset) == offset % Byte

\* m68ki_make_bf, and the lo and hi that m68ki_store_bitfield rebuilds
MakeField(lo, hi, offset) == Up(lo, offset, BF) + (hi \div 2 ^ (Byte - offset))
StoredLo(lo, field, offset) ==
  (lo - (lo % 2 ^ (BF - offset))) + (field \div 2 ^ offset)
StoredHi_NoRest(hi, field, offset) == (field * 2 ^ (Byte - offset)) % 2 ^ Byte
StoredHi(hi, field, offset) ==
  (hi % 2 ^ (Byte - offset)) + ((field * 2 ^ (Byte - offset)) % 2 ^ Byte)

\* the field as a number, and the number as a field
FieldValue(field, width) == field \div 2 ^ (BF - width)
FieldOf(v, width) == (v % 2 ^ width) * 2 ^ (BF - width)

FieldCodes(ccr, n, z) == [x |-> ccr.x, n |-> n, z |-> z, v |-> FALSE, c |-> FALSE]
TestField(field, width, ccr) ==
  FieldCodes(ccr, Msb(field, 4), FieldValue(field, width) = 0)

\* what BFCHG, BFCLR, BFSET and BFINS (with v) make of a field
NewField(op, field, width, v) ==
  LET rest == field % 2 ^ (BF - width)
      f == FieldValue(field, width)
  IN rest + (CASE op = "bfchg" -> MaskBase(width) - FieldOf(f, width)
               [] op = "bfclr" -> 0
               [] op = "bfset" -> MaskBase(width)
               [] op = "bfins" -> FieldOf(v, width))

\* BFEXTU, BFEXTS and BFFFO (which counts from the offset as it was given)
bfextu(field, width) == FieldValue(field, width)
bfexts(field, width) ==
  LET f == FieldValue(field, width)
  IN Low(IF Msb(field, 4) THEN f - 2 ^ width ELSE f, 4)
bfffo(field, width, offset) ==
  LET ones == {i \in 0 .. width - 1 : Bit(field, BF - 1 - i)}
  IN Low(offset + (IF ones = {} THEN width ELSE Min(ones)), 4)

(***************************************************************************)
(* m68ki_load_bitfield and m68ki_store_bitfield: n bytes from ea on, four  *)
(* of them in lo, the fifth in hi.  Three and five bytes are written in    *)
(* two accesses, Writes tells which bytes each has.                        *)
(***************************************************************************)
FieldLo(m, ea, n) ==
  LET at(i) == IF i < n THEN m[ea + i] ELSE 0
  IN ((at(0) * Mod(1) + at(1)) * Mod(1) + at(2)) * Mod(1) + at(3)
FieldHi(m, ea, n) == IF n = 5 THEN m[ea + 4] ELSE 0

FirstWrite(n) == CASE n = 1 -> {0} [] n \in {2, 3} -> {0, 1} [] n \in {4, 5} -> 0 .. 3
SecondWrite(n) == CASE n = 3 -> {2} [] n = 5 -> {4} [] OTHER -> {}

StoreBytes(m, ea, which, lo, hi) ==
  [a \in DOMAIN m |->
     LET i == a - ea
     IN IF i \notin which THEN m[a]
        ELSE IF i = 4 THEN hi ELSE (lo \div 2 ^ (BF - Byte * (i + 1))) % Mod(1)]

=============================================================================
