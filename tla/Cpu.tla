-------------------------------- MODULE Cpu --------------------------------
(***************************************************************************)
(* What the instruction handlers are made of (m68kcpu.h): the programmer's *)
(* registers, the operands in memory and in the instruction stream, the    *)
(* stack and the program flow, and the bus error that cuts a handler off.  *)
(*                                                                         *)
(* A handler is a sequence of steps, records whose field "step" says what  *)
(* to do; Handlers has them.  Local variables of the handlers are kept in  *)
(* "tmp".  The CPU is a 68040 in supervisor mode; the processors that lack *)
(* an instruction, and the 68060 for the few it lacks, trap instead.       *)
(***************************************************************************)
EXTENDS Alu, Sequences

CONSTANTS
  Registers,     \* numbers of data and address registers, 0, 1 and 7 among them
  MemorySize,    \* ADDRESS_68K keeps addresses below it
  Extension(_)   \* displacement or address in the extension of a mode

ASSUME CpuAssumption == {0, 1, 7} \subseteq Registers /\ MemorySize \in Nat \ {0}

Longs == 0 .. Mod(4) - 1

(***************************************************************************)
(* The state.  "ir" has the register numbers of the instruction: x and y   *)
(* of the opcode (DX, AX, DY, AY), p and q of an extension word, imm the   *)
(* immediate.  lk is mmu_tmp_lk, trap the exception that ends a handler.   *)
(***************************************************************************)
Numbers == [x : Registers, y : Registers, p : Registers, q : Registers, imm : Longs]
Traps == {"none", "TRAP", "TRAPV", "CHK", "ZERO_DIVIDE"}
Machine ==
  [d : [Registers -> Longs], a : [Registers -> Longs], pc : Int,
   mem : [0 .. MemorySize - 1 -> 0 .. Mod(1) - 1],
   ccr : CCR, lk : BOOLEAN, trap : Traps]

NoFlags == [x |-> FALSE, n |-> FALSE, z |-> FALSE, v |-> FALSE, c |-> FALSE]
NoTmp ==
  [src |-> 0, dst |-> 0, ea |-> 0, res |-> 0, hi |-> 0, offset |-> 0, origin |-> 0,
   width |-> 1, new |-> NoFlags, go |-> TRUE]

\* The steps of one instruction start with fresh local variables.
Start(m, ir) ==
  [d |-> m.d, a |-> m.a, pc |-> m.pc, mem |-> m.mem, ccr |-> m.ccr, lk |-> m.lk,
   trap |-> m.trap, ir |-> ir, tmp |-> NoTmp]
Visible(s) ==
  [d |-> s.d, a |-> s.a, pc |-> s.pc, mem |-> s.mem, ccr |-> s.ccr, lk |-> s.lk,
   trap |-> s.trap]

(***************************************************************************)
(* Registers are named by their bank and a field of ir, or by number.      *)
(***************************************************************************)
DX == <<"d", "x">>
DY == <<"d", "y">>
DP == <<"d", "p">>
DQ == <<"d", "q">>
AX == <<"a", "x">>
AY == <<"a", "y">>
AP == <<"a", "p">>
AQ == <<"a", "q">>
A7 == <<"a", "7">>

Named == [n \in {"0", "1", "7"} |-> CASE n = "0" -> 0 [] n = "1" -> 1 [] n = "7" -> 7]
RegisterNumber(ir, r) == IF r[2] \in DOMAIN Named THEN Named[r[2]] ELSE ir[r[2]]
Value(s, r) ==
  IF r[1] = "d" THEN s.d[RegisterNumber(s.ir, r)] ELSE s.a[RegisterNumber(s.ir, r)]

\* Bytes and words of a data register leave the rest of it as it is.
Merge_Unmasked(old, v, sz) == (old - Low(old, sz)) + v
Merge(old, v, sz) == (old - Low(old, sz)) + Low(v, sz)
SetRegister(s, r, v, sz) ==
  IF r[1] = "d" THEN [s EXCEPT !.d[RegisterNumber(s.ir, r)] = Merge(@, v, sz)]
  ELSE [s EXCEPT !.a[RegisterNumber(s.ir, r)] = Merge(@, v, sz)]
AddTo(s, r, n) == SetRegister(s, r, Value(s, r) + n, 4)

(***************************************************************************)
(* Memory is big-endian; an access of any size may be at any address.      *)
(***************************************************************************)
Address(a) == a % MemorySize
Load(mem, ea, sz) ==
  MapThenSumSet(LAMBDA i : mem[Address(ea + i)] * Mod(1) ^ (sz - 1 - i), 0 .. sz - 1)
Store(mem, ea, v, sz) ==
  [a \in DOMAIN mem |->
     LET i == Address(a - ea)
     IN IF i < sz THEN (v \div Mod(1) ^ (sz - 1 - i)) % Mod(1) ELSE mem[a]]

-----------------------------------------------------------------------------
(***************************************************************************)
(* Effective addresses.  "r" is the address register, sz the size of the   *)
(* operand.  The fetch of extension words is a step of its own, before.    *)
(***************************************************************************)
After(mode, sz) == CASE mode = "pi" -> sz [] mode = "pi7" -> 2 [] OTHER -> 0
Before(mode, sz) == CASE mode = "pd" -> sz [] mode = "pd7" -> 2 [] OTHER -> 0
BaseRegister(mode, r) == IF mode \in {"pi7", "pd7"} THEN A7 ELSE r

\* EA_AY_xx, EA_AX_xx, EA_A7_xx, m68ki_get_ea_pcdi and the brief extension
\* of m68ki_get_ea_ix, whose index is a word of the data register with the
\* number 7.  A full extension gives the address of a pointer.
Index(s) == Signed(s.d[7], 2)
EffectiveAddress(s, mode, r, sz) ==
  LET base == Value(s, BaseRegister(mode, r))
  IN CASE mode \in {"ai", "pi", "pi7"} -> base
       [] mode \in {"pd", "pd7"} -> base - Before(mode, sz)
       [] mode = "di" -> base + Extension(mode)
       [] mode = "ix" -> base + Index(s) + Extension(mode)
       [] mode \in {"aw", "al"} -> Extension(mode)
       [] mode = "pcdi" -> s.pc - 2 + Extension(mode)
       [] mode = "pcix" -> s.pc - 2 + Index(s) + Extension(mode)
       [] mode = "preindexed" -> base + Extension(mode) + Index(s)
       [] mode = "postindexed" -> base + Extension(mode)

CalculateAddress(s, u) ==
  LET ea == Low(EffectiveAddress(s, u.mode, u.r, u.sz), 4)
      moved == IF u.mode \in {"pi", "pd", "pi7", "pd7"}
               THEN AddTo(s, BaseRegister(u.mode, u.r),
                          After(u.mode, u.sz) - Before(u.mode, u.sz))
               ELSE s
  IN [moved EXCEPT !.tmp.ea = ea]

\* the outer displacement, and the index when it follows the pointer
FollowPointer(s, u) ==
  LET index == IF u.mode = "postindexed" THEN Index(s) ELSE 0
  IN [s EXCEPT !.tmp.ea = Low(@ + index + Extension("outer"), 4)]

\* Words of a mode's extension
ExtensionWords(mode) ==
  CASE mode \in {"di", "ix", "aw", "pcdi", "pcix"} -> 1
    [] mode = "al" -> 2
    [] mode \in {"preindexed", "postindexed"} -> 3
    [] OTHER -> 0

-----------------------------------------------------------------------------
(***************************************************************************)
(* The operation a step "do" applies to src and dst.                       *)
(***************************************************************************)
Quick(x) == ((x - 1) % 8) + 1   \* (((REG_IR >> 9) - 1) & 7) + 1
Count(v) == v % 64              \* DX & 0x3f

Operation(f, s, d, ccr, sz) ==
  CASE f = "add" -> add(s, d, ccr, sz)
    [] f = "sub" -> sub(s, d, ccr, sz)
    [] f = "addx" -> addx(s, d, ccr, sz)
    [] f = "subx" -> subx(s, d, ccr, sz)
    [] f = "abcd" -> abcd(s, d, ccr, sz)
    [] f = "sbcd" -> sbcd(s, d, ccr, sz)
    [] f = "cmp" -> cmp(s, d, ccr, sz)
    [] f = "and" -> and(s, d, ccr, sz)
    [] f = "or" -> or(s, d, ccr, sz)
    [] f = "eor" -> eor(s, d, ccr, sz)
    [] f = "neg" -> neg(d, ccr, sz)
    [] f = "negx" -> negx(d, ccr, sz)
    [] f = "nbcd" -> nbcd(d, ccr, sz)
    [] f = "not" -> not(d, ccr, sz)
    [] f = "clr" -> clr(d, ccr, sz)
    [] f = "tas" -> tas(d, ccr, sz)
    [] f = "swap" -> swap(d, ccr, sz)
    [] f = "ext" -> ext(d, ccr, sz)
    [] f = "extb" -> extb(d, ccr, sz)
    [] f = "move" -> move(s, ccr, sz)
    [] f = "btst" -> btst(s, d, ccr, sz)
    [] f = "bset" -> bset(s, d, ccr, sz)
    [] f = "bclr" -> bclr(s, d, ccr, sz)
    [] f = "bchg" -> bchg(s, d, ccr, sz)
    [] f = "asl" -> asl(s, d, ccr, sz)
    [] f = "asr" -> asr(s, d, ccr, sz)
    [] f = "lsl" -> lsl(s, d, ccr, sz)
    [] f = "lsr" -> lsr(s, d, ccr, sz)
    [] f = "rol" -> rol(s, d, ccr, sz)
    [] f = "ror" -> ror(s, d, ccr, sz)
    [] f = "roxl" -> roxl(s, d, ccr, sz)
    [] f = "roxr" -> roxr(s, d, ccr, sz)
    [] f = "mulu" -> mulu(s, d, ccr)
    [] f = "muls" -> muls(s, d, ccr)
    \* an address register takes the sign-extended source, and no flags
    [] f = "movea" -> Result(Low(Signed(s, sz), 4), ccr)
    [] f = "adda" -> Result(Low(d + Signed(s, sz), 4), ccr)
    [] f = "suba" -> Result(Low(d - Signed(s, sz), 4), ccr)
    [] f = "cmpa" -> cmp(Low(Signed(s, sz), 4), d, ccr, 4)
    \* decimals between a byte and a word
    [] f = "pack" -> Result(pack(d, s), ccr)
    [] f = "unpk" -> Result(unpk(d, s), ccr)

(***************************************************************************)
(* Divisions and multiplications that have two results, and bounds.        *)
(***************************************************************************)
Trap(s, kind) == [s EXCEPT !.trap = kind]

\* DIVU and DIVS: remainder and quotient are the words of DX
DivideWord(s, f) ==
  LET r == IF f = "divu" THEN divu(s.tmp.src, s.tmp.dst, s.ccr)
           ELSE divs(s.tmp.src, s.tmp.dst, s.ccr)
      t == [s EXCEPT !.ccr = r.ccr]
  IN IF r.trap THEN Trap(t, "ZERO_DIVIDE")
     ELSE IF r.stored THEN SetRegister(t, DX, r.r * Mod(2) + r.q, 4) ELSE t

\* DIVL: the quotient goes to DP, the remainder, written first, to DQ
DivideLong(s, isSigned, wide) ==
  LET r == divl(s.tmp.src, Value(s, DQ), Value(s, DP), isSigned, wide, s.ccr)
      t == [s EXCEPT !.ccr = r.ccr]
  IN IF r.trap THEN Trap(t, "ZERO_DIVIDE")
     ELSE IF r.stored THEN SetRegister(SetRegister(t, DQ, r.r, 4), DP, r.q, 4) ELSE t

\* MULL: the low long word goes to DP, the high one, written first, to DQ
MultiplyLong(s, isSigned, wide) ==
  LET r == mull(s.tmp.src, Value(s, DP), isSigned, wide, s.ccr)
      t == [s EXCEPT !.ccr = r.ccr]
  IN IF wide THEN SetRegister(SetRegister(t, DQ, r.hi, 4), DP, r.lo, 4)
     ELSE SetRegister(t, DP, r.lo, 4)

CheckBound(s, sz) ==
  LET r == chk(Value(s, DX), s.tmp.src, s.ccr, sz)
      t == [s EXCEPT !.ccr = r.ccr]
  IN IF r.trap THEN Trap(t, "CHK") ELSE t

\* CHK2 traps where CMP2 only sets the flags; the bounds are in src and dst.
CompareBounds(s, r, isRelative, traps, sz) ==
  LET f == chk2cmp2(Value(s, r), r[1] = "a", isRelative, s.tmp.src, s.tmp.dst, s.ccr, sz)
      t == [s EXCEPT !.ccr = f]
  IN IF f.c /\ traps THEN Trap(t, "CHK") ELSE t

(***************************************************************************)
(* The condition code register as a number, and the conditions.            *)
(***************************************************************************)
get_ccr(f) ==
  16 * Number(f.x) + 8 * Number(f.n) + 4 * Number(f.z) + 2 * Number(f.v) + Number(f.c)
set_ccr(v) == [x |-> Bit(v, 4), n |-> Bit(v, 3), z |-> Bit(v, 2), v |-> Bit(v, 1), c |-> Bit(v, 0)]
Holds(cc, f) == CASE cc = "T" -> TRUE [] cc = "F" -> FALSE [] OTHER -> Cond(cc, f)

(***************************************************************************)
(* Bit fields: the offset, which has a sign for a field in memory, and the *)
(* width are in data registers.  m68ki_load_bitfield and                   *)
(* m68ki_store_bitfield work on the ByteCount bytes the field touches,     *)
(* BFEXTU, BFEXTS, BFFFO and BFTST on four or five.                        *)
(***************************************************************************)
FieldWidth(v) == ((v - 1) % BF) + 1
RegisterField(s) ==
  LET offset == Value(s, DP) % BF
  IN [s EXCEPT !.tmp.offset = offset, !.tmp.origin = offset,
               !.tmp.width = FieldWidth(Value(s, DQ)),
               !.tmp.src = RotL(Value(s, DY), offset, BF)]
MemoryField(s) ==
  LET offset == Signed(Value(s, DP), 4)
  IN [s EXCEPT !.tmp.ea = Low(PatchEa(@, offset), 4), !.tmp.offset = PatchOffset(offset),
               !.tmp.origin = offset, !.tmp.width = FieldWidth(Value(s, DQ))]

TouchedBytes(s) == ByteCount(s.tmp.offset, s.tmp.width)
LoadField(s, n) ==
  LET lo == Load(s.mem, s.tmp.ea, Min({n, 4})) * Mod(1) ^ (4 - Min({n, 4}))
      hi == IF n = 5 THEN Load(s.mem, s.tmp.ea + 4, 1) ELSE 0
  IN [s EXCEPT !.tmp.res = lo, !.tmp.hi = hi, !.tmp.src = MakeField(lo, hi, s.tmp.offset)]

\* the flags of the field, and what becomes of it; BFINS takes it from DX
ChangeField(s, f) ==
  LET new == NewField(f, s.tmp.src, s.tmp.width, Value(s, DX))
  IN [s EXCEPT !.ccr = TestField(IF f = "bfins" THEN new ELSE s.tmp.src, s.tmp.width, @),
               !.tmp.dst = new]
RotateBack(s) ==
  SetRegister(s, DY, RotL(s.tmp.dst, (BF - s.tmp.offset) % BF, BF), 4)
StoreField(s, which) ==
  LET lo == StoredLo(s.tmp.res, s.tmp.dst, s.tmp.offset)
      hi == StoredHi(s.tmp.hi, s.tmp.dst, s.tmp.offset)
  IN [s EXCEPT !.mem = [a \in DOMAIN @ |->
        LET i == Address(a - s.tmp.ea)
        IN IF i \notin which THEN @[a]
           ELSE IF i = 4 THEN hi ELSE (lo \div Mod(1) ^ (3 - i)) % Mod(1)]]

\* BFEXTU, BFEXTS and BFFFO put what they find in the field into DX.
ExtractField(s, f) ==
  LET t == [s EXCEPT !.ccr = TestField(s.tmp.src, s.tmp.width, @)]
  IN SetRegister(t, DX, CASE f = "bfextu" -> bfextu(s.tmp.src, s.tmp.width)
                          [] f = "bfexts" -> bfexts(s.tmp.src, s.tmp.width)
                          [] f = "bfffo" -> bfffo(s.tmp.src, s.tmp.width, s.tmp.origin), 4)

\* BFTST in memory looks at the wrong bits of the fifth byte: those the
\* mask of a field at offset 0 has in its lowest byte.
TestMemoryField(s) ==
  LET first == BF - s.tmp.offset - s.tmp.width
      inLong == {i \in 0 .. BF - 1 - s.tmp.offset : i >= first /\ Bit(s.tmp.res, i)}
      low == MaskBase(s.tmp.width) % Mod(1)
      inByte == IF TouchedBytes(s) = 5 THEN Bits(s.tmp.hi, Byte) \cap Bits(low, Byte) ELSE {}
  IN [s EXCEPT !.ccr = FieldCodes(@, Msb(s.tmp.src, 4), inLong \cup inByte = {})]

-----------------------------------------------------------------------------
(***************************************************************************)
(* The steps.  First how they are written.                                 *)
(***************************************************************************)
Fetch(words) == [step |-> "fetch", words |-> words]
Set(to, v) == [step |-> "set", to |-> to, v |-> v]
Take(to, v, sz) == [step |-> "take", to |-> to, v |-> v, sz |-> sz]
Copy(to, from) == [step |-> "copy", to |-> to, from |-> from]
Part(from, n) == [step |-> "part", from |-> from, n |-> n]
Get(to, r, sz) == [step |-> "get", to |-> to, r |-> r, sz |-> sz]
Put(r, from, sz) == [step |-> "put", r |-> r, from |-> from, sz |-> sz]
Add(r, n) == [step |-> "add", r |-> r, n |-> n]
Read(to, off, sz) == [step |-> "read", to |-> to, off |-> off, sz |-> sz]
Write(from, off, sz) == [step |-> "write", from |-> from, off |-> off, sz |-> sz]
Push(from, sz) == [step |-> "push", from |-> from, sz |-> sz]
Pull(to, sz) == [step |-> "pull", to |-> to, sz |-> sz]
Do(f, sz) == [step |-> "do", f |-> f, sz |-> sz]
When(go, u) == [step |-> "when", go |-> go, u |-> u]
Step(name) == [step |-> name]

\* what SR has above the flags: the S bit
Supervisor == 32

\* Operands of the instruction itself: the immediate, the quick data, a
\* count in DX, the PC
Taken(s, v) ==
  CASE v = "imm" -> s.ir.imm
    [] v = "quick" -> Quick(s.ir.x)
    [] v = "count" -> Count(Value(s, DX))
    [] v = "pc" -> s.pc
    [] v = "ccr" -> get_ccr(s.ccr)
    [] v = "sr" -> get_ccr(s.ccr) + Supervisor

WithTmp(s, to, v) == [s EXCEPT !.tmp[to] = v]

Branch(s, words) == [s EXCEPT !.pc = Low(@ - 2 * words + Extension("branch"), 4)]

\* what the steps that are no accesses do
Compute(s, u) ==
  CASE u.step = "set" -> WithTmp(s, u.to, u.v)
    [] u.step = "take" -> WithTmp(s, u.to, Low(Taken(s, u.v), u.sz))
    [] u.step = "copy" -> WithTmp(s, u.to, s.tmp[u.from])
    [] u.step = "part" -> WithTmp(s, "hi", s.tmp[u.from] \div Mod(1) ^ u.n)
    [] u.step = "join" -> WithTmp(s, "dst", s.tmp.dst * Mod(1) + s.tmp.hi)
    [] u.step = "get" -> WithTmp(s, u.to, Low(Value(s, u.r), u.sz))
    [] u.step = "put" -> SetRegister(s, u.r, s.tmp[u.from], u.sz)
    [] u.step = "add" -> AddTo(s, u.r, u.n)
    [] u.step = "address" -> CalculateAddress(s, u)
    [] u.step = "follow" -> FollowPointer(s, u)
    [] u.step = "advance" -> [s EXCEPT !.tmp.ea = Low(@ + u.n, 4)]
    [] u.step = "line" -> [s EXCEPT !.tmp.ea = Value(s, u.r) - (Value(s, u.r) % 16)]
    [] u.step = "poke" -> [s EXCEPT !.mem = Store(@, s.tmp.ea, s.tmp.src, 2)]
    [] u.step = "do" ->
         LET r == Operation(u.f, s.tmp.src, s.tmp.dst, s.ccr, u.sz)
         IN [s EXCEPT !.tmp.res = r.res, !.tmp.new = r.ccr]
    [] u.step = "flags" -> [s EXCEPT !.ccr = s.tmp.new]
    [] u.step = "carry" -> [s EXCEPT !.ccr.x = s.tmp.new.x, !.ccr.c = s.tmp.new.c]
    [] u.step = "setccr" -> [s EXCEPT !.ccr = set_ccr(s.tmp.src)]
    [] u.step = "test" -> [s EXCEPT !.tmp.go = Holds(u.cc, s.ccr)]
    [] u.step = "testnot" -> [s EXCEPT !.tmp.go = ~Holds(u.cc, s.ccr)]
    [] u.step = "unless" -> [s EXCEPT !.tmp.go = @ /\ s.tmp.res # u.v]
    [] u.step = "jump" -> [s EXCEPT !.pc = s.tmp[u.from]]
    [] u.step = "branch" -> Branch(s, u.words)
    [] u.step = "skip" -> [s EXCEPT !.pc = @ + 2 * u.words]
    [] u.step = "lock" -> [s EXCEPT !.lk = u.v]
    [] u.step = "trap" -> Trap(s, u.kind)
    [] u.step = "divideword" -> DivideWord(s, u.f)
    [] u.step = "dividelong" -> DivideLong(s, u.signed, u.wide)
    [] u.step = "multiplylong" -> MultiplyLong(s, u.signed, u.wide)
    [] u.step = "checkbound" -> CheckBound(s, u.sz)
    [] u.step = "comparebounds" -> CompareBounds(s, u.r, u.relative, u.traps, u.sz)
    [] u.step = "registerfield" -> RegisterField(s)
    [] u.step = "memoryfield" -> MemoryField(s)
    [] u.step = "changefield" -> ChangeField(s, u.f)
    [] u.step = "rotateback" -> RotateBack(s)
    [] u.step = "extractfield" -> ExtractField(s, u.f)
    [] u.step = "testfield" -> [s EXCEPT !.ccr = TestField(s.tmp.src, s.tmp.width, @)]
    [] u.step = "testmemoryfield" -> TestMemoryField(s)

\* what the steps that access memory do when they succeed
Access(s, u) ==
  CASE u.step = "fetch" -> [s EXCEPT !.pc = @ + 2 * u.words]
    [] u.step = "read" -> WithTmp(s, u.to, Load(s.mem, s.tmp.ea + u.off, u.sz))
    [] u.step = "write" -> [s EXCEPT !.mem = Store(@, s.tmp.ea + u.off, s.tmp[u.from], u.sz)]
    [] u.step = "push" ->
         LET sp == Low(Value(s, A7) - u.sz, 4)
         IN [SetRegister(s, A7, sp, 4) EXCEPT !.mem = Store(@, sp, s.tmp[u.from], u.sz)]
    [] u.step = "pull" ->
         LET sp == Value(s, A7)
         IN [AddTo(s, A7, u.sz) EXCEPT !.tmp[u.to] = Load(s.mem, sp, u.sz)]
    [] u.step = "loadfield" -> LoadField(s, TouchedBytes(s))
    [] u.step = "loadlong" -> LoadField(s, Max({4, TouchedBytes(s)}))
    [] u.step = "storefield" -> StoreField(s, FirstWrite(TouchedBytes(s)))
    [] u.step = "storerest" -> StoreField(s, SecondWrite(TouchedBytes(s)))

Accesses == {"fetch", "read", "write", "push", "pull",
             "loadfield", "loadlong", "storefield", "storerest"}

\* A step is skipped after a trap, and when its condition is not met.
Runs(s, u) == s.trap = "none" /\ (u.step = "when" => u.go = s.tmp.go)
Inner(u) == IF u.step = "when" THEN u.u ELSE u

Perform(s, u) ==
  IF ~Runs(s, u) THEN s
  ELSE IF Inner(u).step \in Accesses THEN Access(s, Inner(u))
  ELSE Compute(s, Inner(u))

\* the states a handler goes through: the i-th is before step i
Trace(s, code) ==
  LET upTo[i \in 0 .. Len(code)] ==
        IF i = 0 THEN <<s>>
        ELSE LET before == upTo[i - 1] IN Append(before, Perform(before[i], code[i]))
  IN upTo[Len(code)]

\* m68k_execute, one instruction: its opcode, and its handler
Execute(m, ir, code) == Visible(Trace(Start(m, ir), code)[Len(code) + 1])

(***************************************************************************)
(* An access that faults ends the handler: m68ki_exception_bus_error puts  *)
(* back the data and address registers m68k_execute saved, and the frame   *)
(* has the instruction's own address and the flags of the moment.  Memory, *)
(* mmu_tmp_lk and the flags are left as the handler had made them.  The    *)
(* program repairs the fault and returns to that address with those flags, *)
(* which starts the instruction again (Exceptions has the frame).          *)
(***************************************************************************)
MayFault(s, u) ==
  /\ Runs(s, u)
  /\ Inner(u).step \in Accesses
  /\ Inner(u).step = "storerest" => SecondWrite(TouchedBytes(s)) # {}

BusError_DataOnly(m, s) ==
  [Visible(s) EXCEPT !.d = m.d, !.pc = m.pc]
BusError(m, s) ==
  [Visible(s) EXCEPT !.d = m.d, !.a = m.a, !.pc = m.pc]

\* the states the machine is in after a fault of one of the accesses
Faulted(m, ir, code) ==
  LET trace == Trace(Start(m, ir), code)
  IN {BusError(m, trace[i]) : i \in {j \in DOMAIN code : MayFault(trace[j], code[j])}}

(***************************************************************************)
(* The memory a step reads and writes.                                     *)
(***************************************************************************)
Cells(ea, n) == {Address(ea + i) : i \in 0 .. n - 1}
Reads(s, u) ==
  CASE u.step = "read" -> Cells(s.tmp.ea + u.off, u.sz)
    [] u.step = "pull" -> Cells(Value(s, A7), u.sz)
    [] u.step = "loadfield" -> Cells(s.tmp.ea, TouchedBytes(s))
    [] u.step = "loadlong" -> Cells(s.tmp.ea, Max({4, TouchedBytes(s)}))
    [] OTHER -> {}
Writes(s, u) ==
  CASE u.step = "write" -> Cells(s.tmp.ea + u.off, u.sz)
    [] u.step = "push" -> Cells(Value(s, A7) - u.sz, u.sz)
    [] u.step = "storefield" -> {Address(s.tmp.ea + i) : i \in FirstWrite(TouchedBytes(s))}
    [] u.step = "storerest" -> {Address(s.tmp.ea + i) : i \in SecondWrite(TouchedBytes(s))}
    [] u.step = "poke" -> Cells(s.tmp.ea, 2)
    [] OTHER -> {}
=============================================================================
