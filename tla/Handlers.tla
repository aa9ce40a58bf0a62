------------------------------ MODULE Handlers ------------------------------
(***************************************************************************)
(* The instruction handlers of m68kops.c, which m68kmake writes from the   *)
(* templates of m68k_in.c: arithmetic, logic, bits, shifts and decimals.   *)
(* HandlersFlow has the others.  The handlers of one instruction and size  *)
(* differ in the addressing mode: a definition is the function from the    *)
(* modes the jump table has to the steps of the handler for that mode.     *)
(* Modes have the names of the handlers' suffixes; "preindexed" and        *)
(* "postindexed" are ix with a full extension.                             *)
(***************************************************************************)
EXTENDS Cpu, SequencesExt

(***************************************************************************)
(* The modes an instruction may have.  Bytes on the stack have modes of    *)
(* their own, for A7 moves by two.                                         *)
(***************************************************************************)
Control == {"ai", "di", "ix", "preindexed", "postindexed", "aw", "al"}
Stepping(sz) == {"pi", "pd"} \cup (IF sz = 1 THEN {"pi7", "pd7"} ELSE {})
Relative == {"pcdi", "pcix"}
InMemory(sz) == Control \cup Stepping(sz)
Alterable(sz) == InMemory(sz) \cup {"d"}
Data(sz) == Alterable(sz) \cup Relative \cup {"i"}
AllModes(sz) == Data(sz) \cup {"a"}
One == {"-"}

(***************************************************************************)
(* What handlers have in common.                                           *)
(***************************************************************************)
Ea(m, r, sz) ==
  (IF ExtensionWords(m) = 0 THEN <<>> ELSE <<Fetch(ExtensionWords(m))>>)
    \o <<[step |-> "address", mode |-> m, r |-> r, sz |-> sz]>>
    \o (IF m \in {"preindexed", "postindexed"}
        THEN <<Read("ea", 0, 4), [step |-> "follow", mode |-> m]>> ELSE <<>>)

Immediate(to, sz) == <<Fetch(IF sz = 4 THEN 2 ELSE 1), Take(to, "imm", sz)>>

\* the operand at the effective address (OPER_xx)
Operand(to, m, sz) ==
  CASE m = "d" -> <<Get(to, DY, sz)>>
    [] m = "a" -> <<Get(to, AY, sz)>>
    [] m = "i" -> Immediate(to, sz)
    [] OTHER -> Ea(m, AY, sz) \o <<Read(to, 0, sz)>>

Flags == Step("flags")
Advance(n) == [step |-> "advance", n |-> n]

\* dst is DX, or the operand, and takes the result
ToRegister(f, m, sz) ==
  Operand("src", m, sz) \o <<Get("dst", DX, sz), Do(f, sz), Flags, Put(DX, "res", sz)>>
Change(f, m, sz) ==
  IF m = "d" THEN <<Get("dst", DY, sz), Do(f, sz), Flags, Put(DY, "res", sz)>>
  ELSE Ea(m, AY, sz) \o <<Read("dst", 0, sz), Do(f, sz), Flags, Write("res", 0, sz)>>
\* the same where the code sets the flags after the write
ChangeFirst(f, m, sz) ==
  IF m = "d" THEN Change(f, m, sz)
  ELSE Ea(m, AY, sz) \o <<Read("dst", 0, sz), Do(f, sz), Write("res", 0, sz), Flags>>

FromRegister(sz) == <<Get("src", DX, sz)>>
QuickData(sz) == <<Take("src", "quick", sz)>>

\* both operands in memory, addressed through AY and AX
TwoOperands(x, y, sz) ==
  Ea(y, AY, sz) \o <<Read("src", 0, sz)>> \o Ea(x, AX, sz) \o <<Read("dst", 0, sz)>>
MemoryToMemory(f, x, y, sz) ==
  TwoOperands(x, y, sz) \o <<Do(f, sz), Flags, Write("res", 0, sz)>>
RegisterToRegister(f, sz) ==
  <<Get("src", DY, sz), Get("dst", DX, sz), Do(f, sz), Flags, Put(DX, "res", sz)>>

\* the modes of AX and AY in the handlers with a suffix for A7
Pairs == {"mm", "ax7", "ay7", "axy7"}
DownX(m) == IF m \in {"ax7", "axy7"} THEN "pd7" ELSE "pd"
DownY(m) == IF m \in {"ay7", "axy7"} THEN "pd7" ELSE "pd"
UpX(m) == IF m \in {"ax7", "axy7"} THEN "pi7" ELSE "pi"
UpY(m) == IF m \in {"ay7", "axy7"} THEN "pi7" ELSE "pi"

-----------------------------------------------------------------------------
(***************************************************************************)
(* Binary arithmetic.                                                      *)
(***************************************************************************)
add_8_er == [m \in Data(1) |-> ToRegister("add", m, 1)]
add_16_er == [m \in AllModes(2) |-> ToRegister("add", m, 2)]
add_32_er == [m \in AllModes(4) |-> ToRegister("add", m, 4)]
add_8_re == [m \in InMemory(1) |-> FromRegister(1) \o Change("add", m, 1)]
add_16_re == [m \in InMemory(2) |-> FromRegister(2) \o Change("add", m, 2)]
add_32_re == [m \in InMemory(4) |-> FromRegister(4) \o Change("add", m, 4)]
sub_8_er == [m \in Data(1) |-> ToRegister("sub", m, 1)]
sub_16_er == [m \in AllModes(2) |-> ToRegister("sub", m, 2)]
sub_32_er == [m \in AllModes(4) |-> ToRegister("sub", m, 4)]
sub_8_re == [m \in InMemory(1) |-> FromRegister(1) \o Change("sub", m, 1)]
sub_16_re == [m \in InMemory(2) |-> FromRegister(2) \o Change("sub", m, 2)]
sub_32_re == [m \in InMemory(4) |-> FromRegister(4) \o Change("sub", m, 4)]

ToAddress(f, m, sz) ==
  Operand("src", m, sz) \o <<Get("dst", AX, 4), Do(f, sz), Put(AX, "res", 4)>>
adda_16 == [m \in AllModes(2) |-> ToAddress("adda", m, 2)]
adda_32 == [m \in AllModes(4) |-> ToAddress("adda", m, 4)]
suba_16 == [m \in AllModes(2) |-> ToAddress("suba", m, 2)]
suba_32 == [m \in AllModes(4) |-> ToAddress("suba", m, 4)]

addi_8 == [m \in Alterable(1) |-> Immediate("src", 1) \o Change("add", m, 1)]
addi_16 == [m \in Alterable(2) |-> Immediate("src", 2) \o Change("add", m, 2)]
addi_32 == [m \in Alterable(4) |-> Immediate("src", 4) \o Change("add", m, 4)]
subi_8 == [m \in Alterable(1) |-> Immediate("src", 1) \o Change("sub", m, 1)]
subi_16 == [m \in Alterable(2) |-> Immediate("src", 2) \o Change("sub", m, 2)]
subi_32 == [m \in Alterable(4) |-> Immediate("src", 4) \o Change("sub", m, 4)]

\* an address register takes all of the sum, whatever the size
ChangeQuick(f, fa, m, sz) ==
  QuickData(sz) \o (IF m = "a" THEN <<Get("dst", AY, 4), Do(fa, sz), Put(AY, "res", 4)>>
                    ELSE Change(f, m, sz))
addq_8 == [m \in Alterable(1) |-> ChangeQuick("add", "adda", m, 1)]
addq_16 == [m \in Alterable(2) \cup {"a"} |-> ChangeQuick("add", "adda", m, 2)]
addq_32 == [m \in Alterable(4) \cup {"a"} |-> ChangeQuick("add", "adda", m, 4)]
subq_8 == [m \in Alterable(1) |-> ChangeQuick("sub", "suba", m, 1)]
subq_16 == [m \in Alterable(2) \cup {"a"} |-> ChangeQuick("sub", "suba", m, 2)]
subq_32 == [m \in Alterable(4) \cup {"a"} |-> ChangeQuick("sub", "suba", m, 4)]

addx_rr(sz) == [m \in One |-> RegisterToRegister("addx", sz)]
subx_rr(sz) == [m \in One |-> RegisterToRegister("subx", sz)]
addx_8_mm == [m \in Pairs |-> MemoryToMemory("addx", DownX(m), DownY(m), 1)]
subx_8_mm == [m \in Pairs |-> MemoryToMemory("subx", DownX(m), DownY(m), 1)]
addx_mm(sz) == [m \in One |-> MemoryToMemory("addx", "pd", "pd", sz)]
subx_mm(sz) == [m \in One |-> MemoryToMemory("subx", "pd", "pd", sz)]
abcd_8_rr == [m \in One |-> RegisterToRegister("abcd", 1)]
sbcd_8_rr == [m \in One |-> RegisterToRegister("sbcd", 1)]
abcd_8_mm == [m \in Pairs |-> MemoryToMemory("abcd", DownX(m), DownY(m), 1)]
sbcd_8_mm == [m \in Pairs |-> MemoryToMemory("sbcd", DownX(m), DownY(m), 1)]

nbcd_8 == [m \in Alterable(1) |-> Change("nbcd", m, 1)]
neg_8 == [m \in Alterable(1) |-> Change("neg", m, 1)]
neg_16 == [m \in Alterable(2) |-> Change("neg", m, 2)]
neg_32 == [m \in Alterable(4) |-> Change("neg", m, 4)]
negx_8 == [m \in Alterable(1) |-> Change("negx", m, 1)]
negx_16 == [m \in Alterable(2) |-> Change("negx", m, 2)]
negx_32 == [m \in Alterable(4) |-> Change("negx", m, 4)]

(***************************************************************************)
(* Comparisons and tests store nothing.                                    *)
(***************************************************************************)
Compare(f, sz) == <<Do(f, sz), Flags>>

cmp_8 == [m \in Data(1) |-> Operand("src", m, 1) \o <<Get("dst", DX, 1)>> \o Compare("cmp", 1)]
cmp_16 == [m \in AllModes(2) |-> Operand("src", m, 2) \o <<Get("dst", DX, 2)>> \o Compare("cmp", 2)]
cmp_32 == [m \in AllModes(4) |-> Operand("src", m, 4) \o <<Get("dst", DX, 4)>> \o Compare("cmp", 4)]
cmpa_16 == [m \in AllModes(2) |-> Operand("src", m, 2) \o <<Get("dst", AX, 4)>> \o Compare("cmpa", 2)]
cmpa_32 == [m \in AllModes(4) |-> Operand("src", m, 4) \o <<Get("dst", AX, 4)>> \o Compare("cmpa", 4)]

CompareImmediate(m, sz) ==
  Immediate("src", sz) \o Operand("dst", m, sz) \o Compare("cmp", sz)
cmpi_8 == [m \in Alterable(1) \cup Relative |-> CompareImmediate(m, 1)]
cmpi_16 == [m \in Alterable(2) \cup Relative |-> CompareImmediate(m, 2)]
cmpi_32 == [m \in Alterable(4) \cup Relative |-> CompareImmediate(m, 4)]
cmpm_8 == [m \in Pairs |-> TwoOperands(UpX(m), UpY(m), 1) \o Compare("cmp", 1)]
cmpm(sz) == [m \in One |-> TwoOperands("pi", "pi", sz) \o Compare("cmp", sz)]

Test(m, sz) == Operand("src", m, sz) \o <<Do("move", sz), Flags>>
tst_8 == [m \in Data(1) |-> Test(m, 1)]
tst_16 == [m \in AllModes(2) |-> Test(m, 2)]
tst_32 == [m \in AllModes(4) |-> Test(m, 4)]

CheckBounds(m, sz) ==
  Operand("src", m, sz) \o <<[step |-> "checkbound", sz |-> sz]>>
chk_16 == [m \in Data(2) |-> CheckBounds(m, 2)]
chk_32 == [m \in Data(4) |-> CheckBounds(m, 4)]

\* the lower and the upper bound, for a register of either bank
TwoBounds(bank, traps, m, sz) ==
  <<Fetch(1)>> \o Ea(m, AY, sz) \o
  <<Read("src", 0, sz), Read("dst", sz, sz),
    [step |-> "comparebounds", r |-> <<bank, "p">>, relative |-> (m \in Relative),
     traps |-> traps, sz |-> sz]>>
chk2cmp2_8(bank, traps) == [m \in Control \cup Relative |-> TwoBounds(bank, traps, m, 1)]
chk2cmp2_16(bank, traps) == [m \in Control \cup Relative |-> TwoBounds(bank, traps, m, 2)]
chk2cmp2_32(bank, traps) == [m \in Control \cup Relative |-> TwoBounds(bank, traps, m, 4)]

-----------------------------------------------------------------------------
(***************************************************************************)
(* Logic.  OR, EOR and NOT set the flags after the write, AND before.      *)
(***************************************************************************)
and_8_er == [m \in Data(1) |-> ToRegister("and", m, 1)]
and_16_er == [m \in Data(2) |-> ToRegister("and", m, 2)]
and_32_er == [m \in Data(4) |-> ToRegister("and", m, 4)]
and_8_re == [m \in InMemory(1) |-> FromRegister(1) \o Change("and", m, 1)]
and_16_re == [m \in InMemory(2) |-> FromRegister(2) \o Change("and", m, 2)]
and_32_re == [m \in InMemory(4) |-> FromRegister(4) \o Change("and", m, 4)]
or_8_er == [m \in Data(1) |-> ToRegister("or", m, 1)]
or_16_er == [m \in Data(2) |-> ToRegister("or", m, 2)]
or_32_er == [m \in Data(4) |-> ToRegister("or", m, 4)]
or_8_re == [m \in InMemory(1) |-> FromRegister(1) \o ChangeFirst("or", m, 1)]
or_16_re == [m \in InMemory(2) |-> FromRegister(2) \o ChangeFirst("or", m, 2)]
or_32_re == [m \in InMemory(4) |-> FromRegister(4) \o ChangeFirst("or", m, 4)]
eor_8 == [m \in Alterable(1) |-> FromRegister(1) \o ChangeFirst("eor", m, 1)]
eor_16 == [m \in Alterable(2) |-> FromRegister(2) \o ChangeFirst("eor", m, 2)]
eor_32 == [m \in Alterable(4) |-> FromRegister(4) \o ChangeFirst("eor", m, 4)]

andi_8 == [m \in Alterable(1) |-> Immediate("src", 1) \o Change("and", m, 1)]
andi_16 == [m \in Alterable(2) |-> Immediate("src", 2) \o Change("and", m, 2)]
andi_32 == [m \in Alterable(4) |-> Immediate("src", 4) \o Change("and", m, 4)]
ori_8 == [m \in Alterable(1) |-> Immediate("src", 1) \o ChangeFirst("or", m, 1)]
ori_16 == [m \in Alterable(2) |-> Immediate("src", 2) \o ChangeFirst("or", m, 2)]
ori_32 == [m \in Alterable(4) |-> Immediate("src", 4) \o ChangeFirst("or", m, 4)]
eori_8 == [m \in Alterable(1) |-> Immediate("src", 1) \o ChangeFirst("eor", m, 1)]
eori_16 == [m \in Alterable(2) |-> Immediate("src", 2) \o ChangeFirst("eor", m, 2)]
eori_32 == [m \in Alterable(4) |-> Immediate("src", 4) \o ChangeFirst("eor", m, 4)]

\* the flags as an operand, in a word, for they do not all fit in a byte
ChangeFlags(f) ==
  Immediate("src", 2) \o <<Take("dst", "ccr", 2), Do(f, 2), Copy("src", "res"), Step("setccr")>>
andi_16_toc == [m \in One |-> ChangeFlags("and")]
ori_16_toc == [m \in One |-> ChangeFlags("or")]
eori_16_toc == [m \in One |-> ChangeFlags("eor")]

not_8 == [m \in Alterable(1) |-> ChangeFirst("not", m, 1)]
not_16 == [m \in Alterable(2) |-> ChangeFirst("not", m, 2)]
not_32 == [m \in Alterable(4) |-> ChangeFirst("not", m, 4)]
clr_8 == [m \in Alterable(1) |-> ChangeFirst("clr", m, 1)]
clr_16 == [m \in Alterable(2) |-> ChangeFirst("clr", m, 2)]
clr_32 == [m \in Alterable(4) |-> ChangeFirst("clr", m, 4)]

(***************************************************************************)
(* Single bits: of a long word in a register, of a byte in memory; the     *)
(* number is in DX or an immediate.                                        *)
(***************************************************************************)
BitSize(m) == IF m = "d" THEN 4 ELSE 1
btst_r == [m \in Data(1) |->
  <<Get("src", DX, 4)>> \o
  (IF m = "i" THEN Immediate("dst", 1) ELSE Operand("dst", m, BitSize(m))) \o
  Compare("btst", BitSize(m))]
btst_s == [m \in Alterable(1) \cup Relative |->
  Immediate("src", 1) \o Operand("dst", m, BitSize(m)) \o Compare("btst", BitSize(m))]
bchg_r == [m \in Alterable(1) |-> <<Get("src", DX, 4)>> \o Change("bchg", m, BitSize(m))]
bchg_s == [m \in Alterable(1) |-> Immediate("src", 1) \o Change("bchg", m, BitSize(m))]
bclr_r == [m \in Alterable(1) |-> <<Get("src", DX, 4)>> \o Change("bclr", m, BitSize(m))]
bclr_s == [m \in Alterable(1) |-> Immediate("src", 1) \o Change("bclr", m, BitSize(m))]
bset_r == [m \in Alterable(1) |-> <<Get("src", DX, 4)>> \o Change("bset", m, BitSize(m))]
bset_s == [m \in Alterable(1) |-> Immediate("src", 1) \o Change("bset", m, BitSize(m))]

\* TAS writes if the host's callback allows it
Lock(b) == [step |-> "lock", v |-> b]
tas_8(allowed) == [m \in Alterable(1) |->
  IF m = "d" THEN Change("tas", m, 1)
  ELSE Ea(m, AY, 1) \o <<Read("dst", 0, 1), Do("tas", 1), Flags, Lock(TRUE)>>
         \o (IF allowed THEN <<Write("res", 0, 1)>> ELSE <<>>) \o <<Lock(FALSE)>>]

(***************************************************************************)
(* Shifts and rotates: by a constant, by DX, and of a word in memory by 1. *)
(***************************************************************************)
Shift(f, v, sz) ==
  [m \in One |-> <<Take("src", v, 4), Get("dst", DY, sz), Do(f, sz), Flags, Put(DY, "res", sz)>>]
ShiftMemory(f, m) == <<Set("src", 1)>> \o ChangeFirst(f, m, 2)
\* X and C change before the write, the other flags after it
RotateMemory(f, m) ==
  <<Set("src", 1)>> \o Ea(m, AY, 2) \o
  <<Read("dst", 0, 2), Do(f, 2), Step("carry"), Write("res", 0, 2), Flags>>
asr_s(sz) == Shift("asr", "quick", sz)
asr_r(sz) == Shift("asr", "count", sz)
asl_s(sz) == Shift("asl", "quick", sz)
asl_r(sz) == Shift("asl", "count", sz)
lsr_s(sz) == Shift("lsr", "quick", sz)
lsr_r(sz) == Shift("lsr", "count", sz)
lsl_s(sz) == Shift("lsl", "quick", sz)
lsl_r(sz) == Shift("lsl", "count", sz)
ror_s(sz) == Shift("ror", "quick", sz)
ror_r(sz) == Shift("ror", "count", sz)
rol_s(sz) == Shift("rol", "quick", sz)
rol_r(sz) == Shift("rol", "count", sz)
roxr_s(sz) == Shift("roxr", "quick", sz)
roxr_r(sz) == Shift("roxr", "count", sz)
roxl_s(sz) == Shift("roxl", "quick", sz)
roxl_r(sz) == Shift("roxl", "count", sz)
asr_16 == [m \in InMemory(2) |-> ShiftMemory("asr", m)]
asl_16 == [m \in InMemory(2) |-> ShiftMemory("asl", m)]
lsr_16 == [m \in InMemory(2) |-> ShiftMemory("lsr", m)]
lsl_16 == [m \in InMemory(2) |-> ShiftMemory("lsl", m)]
ror_16 == [m \in InMemory(2) |-> ShiftMemory("ror", m)]
rol_16 == [m \in InMemory(2) |-> ShiftMemory("rol", m)]
roxr_16 == [m \in InMemory(2) |-> RotateMemory("roxr", m)]
roxl_16 == [m \in InMemory(2) |-> RotateMemory("roxl", m)]

-----------------------------------------------------------------------------
(***************************************************************************)
(* Multiplication, division, decimals and other changes of a register.     *)
(***************************************************************************)
Multiply(f, m) ==
  Operand("src", m, 2) \o <<Get("dst", DX, 2), Do(f, 4), Flags, Put(DX, "res", 4)>>
mulu_16 == [m \in Data(2) |-> Multiply("mulu", m)]
muls_16 == [m \in Data(2) |-> Multiply("muls", m)]
divu_16 == [m \in Data(2) |->
  Operand("src", m, 2) \o <<Get("dst", DX, 4), [step |-> "divideword", f |-> "divu"]>>]
divs_16 == [m \in Data(2) |->
  Operand("src", m, 2) \o <<Get("dst", DX, 4), [step |-> "divideword", f |-> "divs"]>>]
mull_32(signed, wide) == [m \in Data(4) |->
  <<Fetch(1)>> \o Operand("src", m, 4)
    \o <<[step |-> "multiplylong", signed |-> signed, wide |-> wide]>>]
divl_32(signed, wide) == [m \in Data(4) |->
  <<Fetch(1)>> \o Operand("src", m, 4)
    \o <<[step |-> "dividelong", signed |-> signed, wide |-> wide]>>]

InRegister(f, sz) == <<Get("dst", DY, sz), Do(f, sz), Flags, Put(DY, "res", sz)>>
ext_16 == [m \in One |-> InRegister("ext", 2)]
ext_32 == [m \in One |-> InRegister("ext", 4)]
extb_32 == [m \in One |-> InRegister("extb", 4)]
swap_32 == [m \in One |-> InRegister("swap", 4)]

Exchange(r, q) == <<Get("src", r, 4), Get("dst", q, 4), Put(r, "dst", 4), Put(q, "src", 4)>>
exg_32 == [m \in {"dd", "aa", "da"} |->
  Exchange(IF m = "aa" THEN AX ELSE DX, IF m = "dd" THEN DY ELSE AY)]

\* The first byte PACK reads, the one at the higher address, is the high one.
pack_16_rr == [m \in One |->
  <<Get("dst", DY, 2)>> \o Immediate("src", 2) \o <<Do("pack", 2), Put(DX, "res", 1)>>]
pack_16_mm == [m \in Pairs |->
  Ea(DownY(m), AY, 1) \o <<Read("dst", 0, 1)>> \o Ea(DownY(m), AY, 1)
    \o <<Read("hi", 0, 1), Step("join")>> \o Immediate("src", 2) \o <<Do("pack", 2)>>
    \o Ea(DownX(m), AX, 1) \o <<Write("res", 0, 1)>>]
unpk_16_rr == [m \in One |->
  <<Get("dst", DY, 2)>> \o Immediate("src", 2) \o <<Do("unpk", 2), Put(DX, "res", 2)>>]
unpk_16_mm == [m \in Pairs |->
  Ea(DownY(m), AY, 1) \o <<Read("dst", 0, 1)>> \o Immediate("src", 2) \o <<Do("unpk", 2)>>
    \o Ea(DownX(m), AX, 1) \o <<Part("res", 1), Write("hi", 0, 1)>>
    \o Ea(DownX(m), AX, 1) \o <<Write("res", 0, 1)>>]
=============================================================================
