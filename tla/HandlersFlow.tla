---------------------------- MODULE HandlersFlow ----------------------------
(***************************************************************************)
(* The instruction handlers that move data, compute addresses, change the  *)
(* program flow, and work on bit fields and operands another processor may *)
(* share (m68kops.c, from the templates of m68k_in.c).                     *)
(***************************************************************************)
EXTENDS Handlers

(***************************************************************************)
(* Moves.  MOVE sets the flags before it writes.                           *)
(***************************************************************************)
Move(m, to, sz) ==
  Operand("src", m, sz) \o
  (IF to = "d" THEN <<Do("move", sz), Flags, Put(DX, "res", sz)>>
   ELSE Ea(to, AX, sz) \o <<Do("move", sz), Flags, Write("res", 0, sz)>>)

move_8_d == [m \in Data(1) |-> Move(m, "d", 1)]
move_8_ai == [m \in Data(1) |-> Move(m, "ai", 1)]
move_8_pi7 == [m \in Data(1) |-> Move(m, "pi7", 1)]
move_8_pi == [m \in Data(1) |-> Move(m, "pi", 1)]
move_8_pd7 == [m \in Data(1) |-> Move(m, "pd7", 1)]
move_8_pd == [m \in Data(1) |-> Move(m, "pd", 1)]
move_8_di == [m \in Data(1) |-> Move(m, "di", 1)]
move_8_ix == [m \in Data(1) |-> Move(m, "ix", 1)]
move_8_aw == [m \in Data(1) |-> Move(m, "aw", 1)]
move_8_al == [m \in Data(1) |-> Move(m, "al", 1)]
move_16_d == [m \in AllModes(2) |-> Move(m, "d", 2)]
move_16_ai == [m \in AllModes(2) |-> Move(m, "ai", 2)]
move_16_pi == [m \in AllModes(2) |-> Move(m, "pi", 2)]
move_16_pd == [m \in AllModes(2) |-> Move(m, "pd", 2)]
move_16_di == [m \in AllModes(2) |-> Move(m, "di", 2)]
move_16_ix == [m \in AllModes(2) |-> Move(m, "ix", 2)]
move_16_aw == [m \in AllModes(2) |-> Move(m, "aw", 2)]
move_16_al == [m \in AllModes(2) |-> Move(m, "al", 2)]
move_32_d == [m \in AllModes(4) |-> Move(m, "d", 4)]
move_32_ai == [m \in AllModes(4) |-> Move(m, "ai", 4)]
move_32_pi == [m \in AllModes(4) |-> Move(m, "pi", 4)]
\* the low word first
move_32_pd == [m \in AllModes(4) |->
  Operand("src", m, 4) \o Ea("pd", AX, 4) \o
  <<Do("move", 4), Flags, Write("res", 2, 2), Part("res", 2), Write("hi", 0, 2)>>]
move_32_di == [m \in AllModes(4) |-> Move(m, "di", 4)]
move_32_ix == [m \in AllModes(4) |-> Move(m, "ix", 4)]
move_32_aw == [m \in AllModes(4) |-> Move(m, "aw", 4)]
move_32_al == [m \in AllModes(4) |-> Move(m, "al", 4)]

ToAddressRegister(m, sz) == Operand("src", m, sz) \o <<Do("movea", sz), Put(AX, "res", 4)>>
movea_16 == [m \in AllModes(2) |-> ToAddressRegister(m, 2)]
movea_32 == [m \in AllModes(4) |-> ToAddressRegister(m, 4)]
moveq_32 == [m \in One |->
  <<Take("src", "imm", 1), Do("movea", 1), Copy("src", "res"), Do("move", 4), Flags,
    Put(DX, "res", 4)>>]

\* from and to the status register; MOVE from SR stores past the MMU
move_16_frc == [m \in Alterable(2) |->
  IF m = "d" THEN <<Take("src", "ccr", 2), Put(DY, "src", 2)>>
  ELSE Ea(m, AY, 2) \o <<Take("src", "ccr", 2), Write("src", 0, 2)>>]
move_16_frs == [m \in Alterable(2) |->
  IF m = "d" THEN <<Take("src", "sr", 2), Put(DY, "src", 2)>>
  ELSE Ea(m, AY, 2) \o <<Take("src", "sr", 2), Step("poke")>>]
move_16_toc == [m \in Data(2) |-> Operand("src", m, 2) \o <<Step("setccr")>>]

(***************************************************************************)
(* Several registers.  A handler takes them in the order of the list,      *)
(* which is D0, D7 and A1 here, or in the opposite order to -(An).         *)
(***************************************************************************)
List == << <<"d", "0">>, <<"d", "7">>, <<"a", "1">> >>

StoreDown_Swapped(r, sz) ==
  IF sz = 2 THEN <<Advance(-2), Get("res", r, 2), Write("res", 0, 2)>>
  ELSE <<Advance(-4), Get("res", r, 4), Write("res", 0, 2), Part("res", 2), Write("hi", 2, 2)>>
StoreDown(r, sz) ==
  IF sz = 2 THEN <<Advance(-2), Get("res", r, 2), Write("res", 0, 2)>>
  ELSE <<Advance(-4), Get("res", r, 4), Write("res", 2, 2), Part("res", 2), Write("hi", 0, 2)>>
StoreUp(r, sz) == <<Get("res", r, sz), Write("res", 0, sz), Advance(sz)>>
movem_re(m, sz) ==
  <<Fetch(1)>> \o
  (IF m = "pd"
   THEN Ea("ai", AY, sz) \o FlattenSeq([i \in DOMAIN List |-> StoreDown(Reverse(List)[i], sz)])
          \o <<Put(AY, "ea", 4)>>
   ELSE Ea(m, AY, sz) \o FlattenSeq([i \in DOMAIN List |-> StoreUp(List[i], sz)]))
movem_16_re == [m \in Control \cup {"pd"} |-> movem_re(m, 2)]
movem_32_re == [m \in Control \cup {"pd"} |-> movem_re(m, 4)]

LoadUp(r, sz) ==
  (IF sz = 2 THEN <<Read("src", 0, 2), Do("movea", 2)>> ELSE <<Read("res", 0, 4)>>)
    \o <<Put(r, "res", 4), Advance(sz)>>
movem_er(m, sz) ==
  <<Fetch(1)>> \o
  (IF m = "pi"
   THEN Ea("ai", AY, sz)
          \o FlattenSeq([i \in DOMAIN List |-> <<Add(AY, 2)>> \o LoadUp(List[i], sz)])
          \o <<Put(AY, "ea", 4)>>
   ELSE Ea(m, AY, sz) \o FlattenSeq([i \in DOMAIN List |-> LoadUp(List[i], sz)]))
movem_16_er == [m \in Control \cup {"pi"} \cup Relative |-> movem_er(m, 2)]
movem_32_er == [m \in Control \cup {"pi"} \cup Relative |-> movem_er(m, 4)]

\* every other byte from the address on
movep_re(sz) == [m \in One |->
  Ea("di", AY, sz) \o <<Get("src", DX, sz)>> \o
  FlattenSeq([i \in 1 .. sz |-> <<Part("src", sz - i), Write("hi", 2 * (i - 1), 1)>>])]
movep_er(sz) == [m \in One |->
  Ea("di", AY, sz) \o <<Set("dst", 0)>> \o
  FlattenSeq([i \in 1 .. sz |-> <<Read("hi", 2 * (i - 1), 1), Step("join")>>]) \o
  <<Put(DX, "dst", sz)>>]

\* to or from another address space; an address register takes all of it
AlternateSpace(out, bank, m, sz) ==
  <<Fetch(1)>> \o Ea(m, AY, sz) \o
  (CASE out -> <<Get("src", <<bank, "p">>, sz), Write("src", 0, sz)>>
     [] ~out /\ bank = "d" -> <<Read("res", 0, sz), Put(DP, "res", sz)>>
     [] ~out /\ bank = "a" -> <<Read("src", 0, sz), Do("movea", sz), Put(AP, "res", 4)>>)
moves_8(out, bank) == [m \in InMemory(1) |-> AlternateSpace(out, bank, m, 1)]
moves_16(out, bank) == [m \in InMemory(2) |-> AlternateSpace(out, bank, m, 2)]
moves_32(out, bank) == [m \in InMemory(4) |-> AlternateSpace(out, bank, m, 4)]

\* a line of 16 bytes, from the one (AY) is in to the one of the other register
Line(r) == [step |-> "line", r |-> r]
move16_32 == [m \in One |->
  <<Fetch(1)>> \o
  FlattenSeq([i \in 1 .. 4 |-> <<Line(AY), Read("src", 4 * (i - 1), 4),
                                 Line(AP), Write("src", 4 * (i - 1), 4)>>]) \o
  <<Add(AY, 16), Add(AP, 16)>>]

-----------------------------------------------------------------------------
(***************************************************************************)
(* Addresses, the stack and the program flow.  "words" is the length of    *)
(* the extension: 0, 1 and 2 in the forms for 8, 16 and 32 bits.           *)
(***************************************************************************)
Jump(from) == [step |-> "jump", from |-> from]
BranchBy(words) == [step |-> "branch", words |-> words]
SkipWords(words) == [step |-> "skip", words |-> words]
FetchWords(words) == IF words = 0 THEN <<>> ELSE <<Fetch(words)>>
TestFor(cc) == [step |-> "test", cc |-> cc]
Whenever(go, steps) == [i \in DOMAIN steps |-> When(go, steps[i])]

lea_32 == [m \in Control \cup Relative |-> Ea(m, AY, 4) \o <<Put(AX, "ea", 4)>>]
pea_32 == [m \in Control \cup Relative |-> Ea(m, AY, 4) \o <<Push("ea", 4)>>]
jmp_32 == [m \in Control \cup Relative |-> Ea(m, AY, 4) \o <<Jump("ea")>>]
jsr_32 == [m \in Control \cup Relative |->
  Ea(m, AY, 4) \o <<Take("src", "pc", 4), Jump("ea"), Push("src", 4)>>]

bra(words) == [m \in One |-> FetchWords(words) \o <<BranchBy(words)>>]
bsr(words) == [m \in One |->
  FetchWords(words) \o <<Take("src", "pc", 4), Push("src", 4), BranchBy(words)>>]

Conditional(cc, words) ==
  <<TestFor(cc)>> \o Whenever(TRUE, FetchWords(words) \o <<BranchBy(words)>>)
                  \o <<When(FALSE, SkipWords(words))>>
bcc_8 == [cc \in Conditions |-> Conditional(cc, 0)]
bcc_16 == [cc \in Conditions |-> Conditional(cc, 1)]
bcc_32 == [cc \in Conditions |-> Conditional(cc, 2)]

\* The count is the word of DY, and the loop ends when it passes 0.
Decrement == <<Set("src", 1), Get("dst", DY, 2), Do("sub", 2), Put(DY, "res", 2)>>
Again ==
  <<[step |-> "unless", v |-> Mod(2) - 1], When(TRUE, Fetch(1)), When(TRUE, BranchBy(1)),
    When(FALSE, SkipWords(1))>>
nop == [m \in One |-> <<>>]
dbt_16 == [m \in One |-> <<SkipWords(1)>>]
dbf_16 == [m \in One |-> Decrement \o Again]
dbcc_16 == [cc \in Conditions |->
  <<[step |-> "testnot", cc |-> cc]>> \o Whenever(TRUE, Decrement) \o Again]

SetByte(m) == IF m = "d" THEN <<Put(DY, "src", 1)>> ELSE Ea(m, AY, 1) \o <<Write("src", 0, 1)>>
st_8 == [m \in Alterable(1) |-> <<Set("src", Mod(1) - 1)>> \o SetByte(m)]
sf_8 == [m \in Alterable(1) |-> <<Set("src", 0)>> \o SetByte(m)]
scc_8_d == [cc \in Conditions |->
  <<TestFor(cc), Set("src", 0), When(TRUE, Set("src", Mod(1) - 1))>> \o SetByte("d")]
scc_8(cc) == [m \in InMemory(1) |->
  <<TestFor(cc), Set("src", 0), When(TRUE, Set("src", Mod(1) - 1))>> \o SetByte(m)]

rts_32 == [m \in One |-> <<Pull("src", 4), Jump("src")>>]
rtr_32 == [m \in One |-> <<Pull("src", 2), Step("setccr"), Pull("src", 4), Jump("src")>>]
ByLink == Add(A7, Extension("link"))
rtd_32 == [m \in One |-> <<Pull("src", 4), Fetch(1), ByLink, Jump("src")>>]

\* LINK pushes the old A7 when it is the frame pointer, lowered by 4
link(words) == [m \in {"-", "a7"} |->
  (IF m = "-" THEN <<Get("src", AY, 4), Push("src", 4), Get("dst", A7, 4), Put(AY, "dst", 4)>>
   ELSE <<Add(A7, -4)>> \o Ea("ai", A7, 4) \o <<Get("src", A7, 4), Write("src", 0, 4)>>)
  \o <<Fetch(words), ByLink>>]
unlk_32 == [m \in {"-", "a7"} |->
  IF m = "-" THEN <<Get("src", AY, 4), Put(A7, "src", 4), Pull("dst", 4), Put(AY, "dst", 4)>>
  ELSE Ea("ai", A7, 4) \o <<Read("src", 0, 4), Put(A7, "src", 4)>>]

TrapWith(kind) == [step |-> "trap", kind |-> kind]
trap_0 == [m \in One |-> <<TrapWith("TRAP")>>]
trapv_0 == [m \in One |-> <<TestFor("VS"), When(TRUE, TrapWith("TRAPV"))>>]
trapt(words) == [m \in One |-> <<SkipWords(words), TrapWith("TRAPV")>>]
trapf(words) == [m \in One |-> <<SkipWords(words)>>]
trapcc_0 == [cc \in Conditions |-> <<TestFor(cc), When(TRUE, TrapWith("TRAPV"))>>]
trapcc_16 == [cc \in Conditions |->
  <<SkipWords(1), TestFor(cc), When(TRUE, TrapWith("TRAPV"))>>]
trapcc_32 == [cc \in Conditions |->
  <<SkipWords(2), TestFor(cc), When(TRUE, TrapWith("TRAPV"))>>]

-----------------------------------------------------------------------------
(***************************************************************************)
(* Bit fields.                                                             *)
(***************************************************************************)
InField(m) ==
  IF m = "d" THEN <<Fetch(1), Step("registerfield")>>
  ELSE <<Fetch(1)>> \o Ea(m, AY, 1) \o <<Step("memoryfield")>>
ChangedField(f, m) ==
  InField(m) \o
  (IF m = "d" THEN <<[step |-> "changefield", f |-> f], Step("rotateback")>>
   ELSE <<Step("loadfield"), [step |-> "changefield", f |-> f],
          Step("storefield"), Step("storerest")>>)
Extracted(f, m) ==
  InField(m) \o (IF m = "d" THEN <<>> ELSE <<Step("loadlong")>>)
    \o <<[step |-> "extractfield", f |-> f]>>

bfchg_32 == [m \in Control \cup {"d"} |-> ChangedField("bfchg", m)]
bfclr_32 == [m \in Control \cup {"d"} |-> ChangedField("bfclr", m)]
bfset_32 == [m \in Control \cup {"d"} |-> ChangedField("bfset", m)]
bfins_32 == [m \in Control \cup {"d"} |-> ChangedField("bfins", m)]
bfextu_32 == [m \in Control \cup Relative \cup {"d"} |-> Extracted("bfextu", m)]
bfexts_32 == [m \in Control \cup Relative \cup {"d"} |-> Extracted("bfexts", m)]
bfffo_32 == [m \in Control \cup Relative \cup {"d"} |-> Extracted("bfffo", m)]
bftst_32 == [m \in Control \cup Relative \cup {"d"} |->
  InField(m) \o (IF m = "d" THEN <<Step("testfield")>>
                 ELSE <<Step("loadlong"), Step("testmemoryfield")>>)]

(***************************************************************************)
(* Compare and swap.  CAS holds the bus lock from before the read; CAS2,   *)
(* whose two pointers are in registers of either bank, does not.           *)
(***************************************************************************)
CompareSwap(m, sz) ==
  <<Fetch(1)>> \o Ea(m, AY, sz) \o
  <<Lock(TRUE), Read("dst", 0, sz), Get("src", DQ, sz), Do("cmp", sz), Flags, TestFor("NE"),
    When(TRUE, Put(DQ, "dst", sz)),
    When(FALSE, Get("src", DP, sz)), When(FALSE, Write("src", 0, sz)), Lock(FALSE)>>
cas_8 == [m \in InMemory(1) |-> CompareSwap(m, 1)]
cas_16 == [m \in InMemory(2) |-> CompareSwap(m, 2)]
cas_32 == [m \in InMemory(4) |-> CompareSwap(m, 4)]

\* A word that goes to a compare register fills it when its pointer is an
\* address register.
CompareSwapTwo(bank, sz) ==
  LET at(r) == Ea("ai", <<bank, r>>, sz)
      back(r, from) ==
        IF sz = 2 /\ bank = "a"
        THEN <<Copy("src", from), Do("movea", 2), Put(r, "res", 4)>>
        ELSE <<Put(r, from, sz)>>
      compare(r, from) == <<Copy("dst", from), Get("src", r, sz), Do("cmp", sz), Flags>>
  IN <<Fetch(2)>> \o at("p") \o <<Read("origin", 0, sz)>> \o at("q") \o <<Read("hi", 0, sz)>>
     \o compare(DP, "origin") \o <<TestFor("EQ")>>
     \o Whenever(TRUE, compare(DQ, "hi")) \o <<TestFor("EQ")>>
     \o Whenever(TRUE, at("p") \o <<Get("src", DX, sz), Write("src", 0, sz)>>
                         \o at("q") \o <<Get("src", DY, sz), Write("src", 0, sz)>>)
     \o Whenever(FALSE, back(DP, "origin") \o back(DQ, "hi"))
cas2_16(bank) == [m \in One |-> CompareSwapTwo(bank, 2)]
cas2_32(bank) == [m \in One |-> CompareSwapTwo(bank, 4)]
=============================================================================
