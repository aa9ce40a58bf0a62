# Musashi: a verification development

Musashi is a portable interpreter of the Motorola 680x0 family, written in C.
A host program provides memory and devices as callbacks and calls
`m68k_execute(n)` to run about `n` clock cycles. This directory holds TLA+
models of the parts of the emulator whose correctness depends on the order in
which things happen, TLC configurations that check them on small instances, and
TLAPS proofs of what holds for every value of the constants.

## 1. Inventory

| Component | Where | State | Operations | What makes it correct |
|---|---|---|---|---|
| Time slice and interrupts | `m68kcpu.c`, `m68kcpu.h`, STOP and SR loads in `m68k_in.c` | remaining and initial cycles, reset cycles, stop levels, level, mask, pending NMI, virtual lines | `m68k_execute`, `m68k_set_irq`, `m68k_set_virq`, `m68k_pulse_halt`, `m68k_pulse_reset`, `m68k_modify_timeslice`, `m68k_end_timeslice` | the cycle account is exact; slices end; a stopped CPU runs nothing; each NMI is taken once; a request is not forgotten |
| Exceptions and stacks | `m68kcpu.h`, RTE and MOVE to SR in `m68k_in.c` | S, M, mask, A7 and the three stack pointers behind it, PC, frames in memory, run mode | the `m68ki_exception_*` functions, RTE | a return leads to what was interrupted, on the right stack; a fault inside a fault halts |
| Address translation cache | `m68kmmu.h` | tags, data words, bit-PLRU history | insertion, lookup, flushes of the 68030 and the 68040 paths | one translation per tag; nothing invented; the victim is not the entry in use |
| 68030 walk, transparent translation | `m68kmmu.h` | translation registers, walk flag | translate, PTEST, PLOAD, PMOVE, PFLUSH | the translation is that of the tables, cached or not |
| 68040 walk, transparent translation | `m68kmmu.h`, MOVEC in `m68k_in.c` | the same, URP and SRP, fault latch | translate, PTEST, PLOAD, PFLUSH, MOVEC | the translation is that of the tables; use is recorded in them; the walk ends |
| CPU types | `m68kcpu.c` | type, masks, cycle tables | `m68k_set_cpu_type` | nothing of a former type survives |
| Register and context interface | `m68kcpu.c` | all of it | `m68k_get_reg`, `m68k_set_reg`, `m68k_get_context`, `m68k_set_context` | what is written is read back; stacks stay apart |
| Instruction handlers | `m68k_in.c`, generated into `m68kops.c` | registers, flags, memory | one handler per opcode and addressing mode | results and flags, alone and in sequences; an instruction cut off by a bus error can start again |
| Opcode table and generator | `m68kmake.c`, the builder in `m68k_in.c` | jump table | `m68ki_build_opcode_table` | the most specific opcode wins |
| Prefetch, memory access | `m68kcpu.h` | prefetched word | `m68ki_read_imm_*`, `m68ki_read_*_fc` | freshness |
| Floating point | `m68kfpu.c`, `softfloat/` | FP registers | FP instructions | arithmetic |
| Disassembler | `m68kdasm.c` | none that outlives a call | `m68k_disassemble` | formatting |
| Example host, tests, tools | `example/`, `test/`, `tools/` | | | |

How they interact. The host is one thread: nothing runs in parallel, and every
interleaving comes from callbacks. While an instruction executes it may read or
write memory; the host's callback may then call back into the core (the test
driver calls `m68k_set_irq` and `m68k_end_timeslice` from a memory write, the
example host raises interrupts from its devices). A memory access may also end
the instruction, with a `longjmp` out of its handler into the loop of
`m68k_execute`, which leaves whatever the handler did half done. An exception
pushes a frame through the same memory functions and may fault in its turn.
Accesses pass the MMU, whose walk goes through memory again.

What is hard, then: calls in the middle of an instruction that change what the
loop computes with; exceptions nested in exceptions over three stack pointers
that share one register; faults in the middle of either; counters that pass
zero in the middle of a slice; a cache that must not outlive or alter what it
caches. `PROJECT.json` lists these hazards line by line.

## 2. Modules

| Module | Models | State and actions |
|---|---|---|
| `Execute` | the time slice | `cycles`, `initial`, `reset_cycles` are `m68ki_remaining_cycles`, `m68ki_initial_cycles`, `RESET_CYCLES`; `phase` is where control is: outside (`idle`), before and after the check at the head of `m68k_execute` (`entry`, `checked`), between instructions (`loop`), in a handler (`exec`), before `USE_CYCLES` (`charge`); `ack` is the level of an interrupt whose callbacks run |
| `ExecuteProofs` | theorems about it | |
| `Exceptions` | stacks, frames, exceptions, RTE | `sr`, `sp`, `base` are S, M and the mask, A7 and `REG_SP_BASE`; `mem` holds the frames; one action per exception, `rte`, `move_to_sr`, `UseStack` |
| `ExceptionsProofs` | theorems about it, and about how exceptions nest | |
| `MMU030` | 68030 translation, over `ATC` | `table` is the tables in memory, `crp`, `enabled`, `tt` the registers, `tablewalk` the flag; `phase`, `req`, `walk`, `answer` are a translation on its way: `translate_addr_with_fc` (flag, transparent region, cache or beginning of a walk), `WalkDown` and `WalkResolve` (rounds of the loop), `CheckAndAdd`; `Supervise` is the operating system |
| `MMU040` | 68040 translation, over `ATC` | `root` is URP and SRP, `window` the four transparent translation registers, `latch` is `mmu_tmp_buserror_occurred`; `WalkRoot`, `WalkPointer`, `WalkIndirect` (a round of the indirect loop) and `WalkPage` are the parts of `pmmu_translate_addr_with_fc_040` between its reads of memory |
| `ATC` | the translation cache, both paths | the arrays `tag`, `data` and the `history`; one operator per function, `Next030` and `Next040` for the two CPUs; `Next` lets both work on the arrays, which `m68k_set_cpu_type` does not clear |
| `MMU030Proofs`, `MMU040Proofs` | theorems about the two | |
| `TranslationCache` | what a cache promises | a map from tags to translations |
| `ATCProofs` | theorems about `ATC` | |
| `Alu` | what the integer instructions compute | one operator per operation, which gives the result and the condition codes; bit fields as the parts of `m68ki_load_bitfield` and `m68ki_store_bitfield` |
| `AluChains` | sequences of them | `task` is a computation (a long number digit by digit, a shift by as many single ones, a bit field in memory), `acc`, `ccr` what the instructions so far have made |
| `AluProofs`, `ShiftProofs`, `FieldProofs` | theorems about comparison, multiplication, division and long numbers; about shifts; about bit fields | |
| `Cpu` | what handlers are made of | a machine state `d`, `a`, `pc`, `mem`, `ccr`, `lk`; a handler is a sequence of steps (read, write, compute, set the flags, move an address register), `Execute` performs it to its end, `Faulted` cuts it off at any access as `m68ki_exception_bus_error` does |
| `Handlers`, `HandlersFlow` | the handlers of `m68kops.c` | one definition per instruction and size: a function from addressing modes to the steps of the handler for that mode, in the code's order |
| `Restart` | `m68k_execute` over them, with bus errors | `m68k_opcode_handler_table`; `Complete` runs an instruction, `Interrupted` cuts it off, after which it starts again |
| `MCExecute`, `MCExceptions`, `MCMMU030`, `MCMMU040`, `MCATC`, `MCAluChains`, `MCRestart` | instances for TLC | |

Auxiliary variables record what a property speaks of; no guard reads them but the
bound `MaxSlice`, which limits `spent` too:
in `Execute` `spent` (cycles charged in this slice), `waived` (those of them the
count forgot, because it was below 0 when it was set), `line` (the level the host
requests; the automatic clear ends a request, as `m68kconf.h` says), `owed` (rises of
the line to 7 whose exception was not entered, before or during the acknowledge of
an NMI), `missed` (such a rise met a halted CPU or an invalid vector) and `waiting`
(virtual lines active and not taken since); in
`Exceptions` `saved` (what each open exception interrupted); in `ATC` `mru` (the
entry whose history bit was set last); in `MMU030` and `MMU040` `stale`
(translations the operating system changed in the tables and has not flushed);
in `Restart` `start` and `faults`.

A definition whose name has a suffix after an underscore and a capital
(`Left_Whole`) is a mutated form of the definition below it. No action
uses it: it shows, when put in place of the original, that a property can fail.

### Abstractions

* In `Execute` and `Exceptions` an instruction is its kind and its cost: what it
  does to control (loads SR, stops, faults). What handlers compute and store is in
  `Restart` and below; there traps end a program, and the exceptions are those of
  `Exceptions`.
* In `Execute` an interrupt has two steps with the host's callbacks in between,
  because the acknowledge and the memory callbacks of the frame run there.
* A stack pointer in `Exceptions` is the stack it points into and its distance
  in words from that stack's base, so that a pointer in the wrong stack shows as
  such. Frames are records under the address of their lowest word, with the
  length the code pushes; a push over a frame destroys it. What lies beyond all
  stack pointers is forgotten.
* `"020"` stands for the 68030 and EC020 as well, `"040"` for the 68060:
  they build and take off the same frames.
* Handlers are one program point, from which any exception, an RTE and a change
  of the mask may follow; the program has two points, so that a wrong return is
  told from a right one.
* Function codes in `ATC` are sets of bits, so that a mask is an intersection.
  `phys` is the physical page; BUS_ERROR, INVALID and SUPERVISOR_ONLY of the
  status the insertion reads are one Boolean, since it ors them. `High` is what
  address bit 31 makes of a page: the 68040's insertion keeps GLOBAL in that bit
  of the data word.
* In `MMU030` a page is a number whose digits are the indices of the levels. The
  widths of the fields of the translation control are `Depth` and `W`; the page
  size, SRE, FCL and the level counts of MMUSR are left out, and the transparent
  translation registers are the set of accesses they match. Physical pages are
  counted modulo `Frames`, as addresses wrap. The operating
  system's own accesses to its tables are taken to be transparent.
* In `MMU040` a page number has three digits in base `W`; page size, U0, U1 and the
  cache modes are left out. A translation is cut into a step per read of memory,
  because a read may end it with a bus error.
* In `Alu` and above a byte has `Byte` bits and a decimal digit `Radix` values, so
  that small bytes show every carry, overflow and shift count; packed decimals in
  `AluChains` have the program's own eight bits. Flags are Booleans.
* In `Cpu` what an instruction says is a record: register numbers, an immediate. A
  displacement is a constant of the mode, a register list is D0, D7 and A1, an
  index is a word of D7. `Trap` stands for the exceptions handlers raise, the CPU is
  a 68040 in supervisor mode, and a fetch of several extension words is one access.

The models follow the default `m68kconf.h` (PMMU on, trace, prefetch and
function codes off) except that address errors and the acknowledge callback,
compiled out by default, are included as kinds and as a constant.

## 3. Runs

| Run | Checks | Shows |
|---|---|---|
| `slice` | `TypeOK`, `ClockExact`, `ClockNeverAhead`, `ClockMonotone`, `StoppedRunsNothing`, `NMIAccounted` | over every instruction kind and every callback, with acknowledges that may be invalid: the clock is what was charged less what was waived, and every rise of the line to 7 is one NMI |
| `slice_live` | `Returns`, `RequestServed`, `NMIServed`, `VirqServed` | slices end; requests, NMIs and virtual lines are served |
| `virq_live` | `VirqServed` violated | see findings |
| `bus_error_live` | `Returns` violated | see findings |
| `stacks` | `TypeOK`, `StackDiscipline`, `FramesIntact`, `RoundTrip`, `UserPointerKept` | 68000, 68010 and 68020 with exceptions nested three deep; 68040 with pushes that fault, double faults and format errors, where only `UserPointerKept` and the types are promised |
| `mmu_030` | `MMUTypeOK`, `AccessFollowsTables`, `WritesRecorded`, `ProbeFollowsTables`, `CacheFollowsTables` | accesses, PTEST and PLOAD against tables that change under them, with and without flushes, walks that fault or are abandoned |
| `wp_read` | `ProtectedReadFollowsTables` violated | see findings |
| `walk_flag` | `FlagMeansWalk` violated | see findings |
| `atc` | `TypeOK`, `UniqueTags`, `VictimExists`, `MostRecentRecorded`, `NeverEvictMostRecent`, `KeepsPromise` | two entries, four tags, both paths in any order; refinement of `TranslationCache` |
| `mmu_040` | `MMUTypeOK`, `AccessFollowsTables`, `UseRecorded`, `ProbeFollowsTables` | accesses, PTEST and PLOAD of the 68040 against tables, roots and windows that change, indirect descriptors that lead to a page, to each other or into another table, walks that fault |
| `alu` | `ChainExact`, `ChainSigned`, `CountedShifts`, `ConditionsOrder`, `DivisionExact`, `ProductExact`, `FieldsExact` | arithmetic against definitions on whole numbers and on the bits of memory |
| `restart` | `MachineTypeOK`, `RestartHarmless`, `RoundTrip` | every handler in every mode, and programs that do and undo, with up to two bus errors at any access |

### Bounds

* `Levels = {0, 3, 7}`: none, a maskable level and the NMI; the code compares
  levels and singles out 7, nothing else.
* Costs, exception cycles and slices are 1 to 4 cycles, so that a slice ends at,
  just before and beyond an instruction, an interrupt and the reset cycles.
  `MaxSlice` bounds what `m68k_modify_timeslice` and bus errors extend a slice
  to.
* `MaxDepth` bounds nested exceptions: 3 give an interrupt in a trap in an
  interrupt. `MaxWords` bounds how deep a stack is when an exception begins. On
  a CPU whose pushes fault, which reaches many more states, two exceptions nest:
  a fault on top of an exception.
* `MMU030`: one page of the user, three levels of tables of two entries. The
  tables the operating system chooses from end early (with SUPERVISOR at a long
  descriptor), at the third level, or behind an indirect descriptor, below a
  write-protected pointer or not. Several tags, and eviction, are what the runs
  of `ATC` are about; user and supervisor entries never meet in a lookup.
* `MMU040`: one page of the user with the indices 0, 0, 1; the two
  roots lead to one pointer table, one of them write-protected; the page's descriptor
  is resident, for the supervisor only, or indirect, to a write-protected page or to
  a descriptor that leads to itself.
* Entries of the cache: 2, with more tags than entries, so that it is full and the
  history wraps; the theorems are for any number.
* `AluChains`: two bits to a byte, so that a long word has eight; every operand of
  a shift and every count to twice the width, operands of the arithmetic at the
  ends and the middle of a size, long numbers of two digits (a carry into a digit
  and one out of it), every width and offset of a field in eight bytes that are all
  zeros or all ones each.
* `Restart`: four bits to a byte, 64 bytes of memory, so that addresses wrap;
  register numbers that are the same and different, 7 among them; two starting
  states. `MaxFaults` is 2: one fault cuts an instruction off, the second cuts off
  what was started again, or a later instruction of the program.

### Fairness

`FairSpec` assumes weak fairness of `Step` (the emulator is sequential code: it
goes on), weak fairness of `CallsExecute` (a host that stops calling
`m68k_execute` stops the machine), and strong fairness of a slice longer than
the reset cycles it has to pay (a host that resets before every slice, or whose
slices are all shorter, never runs an instruction). Nothing is assumed of the
host's other calls. `RequestServed`, `NMIServed` and `VirqServed` excuse a halted CPU,
and `slice_live`, `virq_live` have no invalid vectors.

### Findings

* `bus_error_live`: the bus error trap enters the loop past the test of the
  remaining cycles, and the exception gives back the cycles of an instruction
  that was never charged: faulting instructions keep `m68k_execute` from
  returning.
* `virq_live`: without an acknowledge callback, the default, the level is set to 0
  when an interrupt is taken, while `virq_state` still has other active lines. They
  are served only after the next `m68k_set_virq`; with an acknowledge callback
  `VirqServed` holds.
* `wp_read`: a write that meets WP leaves the walk with `*addr_out` at the
  descriptor, and `pmmu_atc_add` caches that as the page's translation, without
  a fault; a read then goes to the page of the table.
* `walk_flag`: a host that answers a read of the walk with
  `m68k_pulse_bus_error` leaves `mmu_tablewalk` set, by the `longjmp`. Every
  access is physical from then on, until a PTEST, a PLOAD or a reset.

Further differences between documents and code, or between the code and what one
would expect of it, that the models contain and for which no run is kept.

*Time and exceptions.* STOP looks at the remaining cycles after `m68ki_set_sr` may
have taken an interrupt; with too few left `USE_ALL_CYCLES` takes the C remainder,
which of a negative count drops what the interrupt was charged. The bus error
restores A7 and not S: after a fault while the frame of a trap from user mode is
pushed, the user stack pointer is the supervisor's. RTE knows formats 0, 1 and 2
on a 68020 and later while the bus error builds format $B or $7, so a handler has
to replace the frame before it returns; a double fault sets HALT ("Halt the CPU"),
which is looked at when the next slice begins, and the handler runs until then;
`m68k_execute` does not report reset cycles it paid unless they used up the slice;
a check for interrupts while halted clears STOP and a pending NMI; the level is
compared with `>` where `doc/testing/test_plan_system.md` says `>=`; without an
acknowledge callback a host that sets a line it holds at 7 again raises a second
NMI, since the level was cleared; an invalid vector drops the NMI it was asked for;
the 68040 frame has 29 of the 30
words its comment gives; a 68000 stacks the 68010's 29-word bus error frame and
RTE takes 3 words off; `m68ki_aerr_pc_offset`, set around the write of a MOVE to
-(An), stays set when that write takes a bus error.

*Translation.* A user access to a supervisor-only page sets U and M before it is
denied (68030); PMOVE to TC adds up the fields from bit 19 down where the walk
takes its indices from bit 15 down (`MMU030` abstracts the widths); 68040 cache
hits and refreshes leave the history alone; the write protection PTEST found in
the root and pointer descriptors is overwritten by the page's; U is set in
descriptors that turn out to be invalid; a global page comes out of the cache with
address bit 31 set, and PFLUSHN takes any page in the upper half for global; a
PLOAD or PTEST that faults leaves the latch set, and the next access takes a bus
error in its stead; MOVE from SR stores past the MMU; TAS reads before it marks the
access as locked, and TAS and CAS leave the mark set after a bus error.

*Handlers.* The memory forms of ADDX, SUBX, NEGX, ABCD, SBCD, NBCD, ROXL and ROXR
cannot start again, because flags are not restored; CAS2 and long bit fields
cannot between their two writes. CHK2 and CMP2 do not extend the sign of byte
bounds relative to the PC, nor of a byte or word of an address register; DIVS.W of the
smallest number by -1 gives 0 with V clear; DIVL leaves C on overflow; ASR by more
than the width clears C and X; BFTST in memory tests the fifth byte with the low
byte of a mask that belongs to offset 0.

## 4. Proofs

Proved by TLAPS for all values of the constants under the assumptions named in
the modules:

* `CostAssumption`: every cost is a positive integer. `NAssumption`: the cache has at
  least two entries (the code has 22).
* `DepthAssumption`, `WAssumption`: one to three levels of tables on a 68030, three
  on a 68040, any number of entries in each. `PageAssumption`, `PagesAssumption`,
  `TableAssumption`: pages are numbers, and what the operating system writes into a
  table, a root or a window is a descriptor, a root or a window.
* `AluAssumption`: a byte has at least one bit. `SamplesAssumption`: operands are
  values of their size. `DecimalsAssumption`: packed decimals have two digits, none
  above 9; other bytes stand for no number, and `ChainExact` says nothing of what the
  instructions make of them. `BytesAssumption`: memory holds the seven bytes
  a bit field can touch from the two before its address to the fourth after it, its
  bytes are bytes and the inserted register is a long word.
* `PowersAssumption` and `PlacesAssumption`, with the literals of `DecimalsAssumption`:
  powers of two up to the width of a long word, and powers of a base up to the length of
  a number, are positive and multiply by adding exponents. That is arithmetic, true
  of all exponents, which the provers lack when these are not literals; TLC evaluates it.
* The others give the kinds of the constants.

Two theorems of `Execute` (`NothingWaived`, `ClockNeverGoesBack`) and the two about
nesting have a hypothesis more, given below. Every invariant was checked by TLC on the instance of the run before
it was proved.

*Execute.* `Inv` joins the types, `ClockExact`, `StoppedRunsNothing` and what holds at
each control point (`Control`): an interrupt is taken only at the entry or in a
handler of a CPU that is not stopped, and only a STOP is charged while stopped.
`StoppedRunsNothing` is not inductive, because it does not say that the charge of a
STOP leads out of the loop: STOP leaves itself no more than its own cost, so the count
is at most 0 then (`StopLeavesItsCost`). From it follow `TypeCorrect`, `StopHolds`,
`ClockIsExact`, for every program and every callback, and `NoPhantomCycles`, as nothing
negative is waived. That nothing is waived at all is `NothingWaived`, without STOP
and on a host whose callbacks only drive lines and change the slice; its
invariant says that the count of a stopped CPU is not below 0 where it is given away.

`NMIsAccounted` holds with and without an acknowledge callback, with invalid
vectors, halts and resets. Its invariant (`LinesAgree`) adds that the line the host
drives and the level agree, and that a rise is recorded as one during an acknowledge only
while that goes on; a check then begins with nothing of that kind owed, and the
acknowledge that ends passes on what was raised while it went on.

`ClockNeverGoesBack` uses the account: a step that charges nothing negative moves no
clock back further than it waives. A privilege violation charges
`CYC_EXCEPTION - CYC_INSTRUCTION`, which is negative for an instruction dearer than
the exception; the theorem therefore assumes of the instruction in `ir` that it is
none (`Cheap`). The code's tables are such: a handler of `m68kops.c` that raises
the violation costs at most 24 cycles on a 68000, 36 on a 68010 and 20 on the
others, and the exception 34, 38 and 34 (`m68kcpu.c:155`, 228, 301, 374, 447).

*Exceptions.* The invariant of `TypeCorrect` speaks of the register set (S, M,
mask, A7, the pointers behind it) and of every frame: its base lies below it by
at least its length, so that taking it off leaves a stack pointer that is not
negative, and a throwaway frame selects a supervisor stack, so that RTE goes on
where a frame can be. Neither follows from the types alone, because RTE loads
what memory holds. `DisciplineHolds` adds that each pointer lies in its own
stack, on a CPU whose pushes do not fault: a fault in the middle of a frame puts the
old A7 back under the new S. `UserPointerHolds` needs no such condition: every
exception leaves user state before it moves A7, and a restored A7 of the user
is backed up where it came from or into a supervisor's pointer.

*Nesting.* `FramesIntact` and `RoundTrip` say that the RTE of the innermost handler
finds its frame and goes back to what was interrupted. Neither is inductive: after
an RTE they must hold of the exception below, about which they say nothing while
another handler runs. `NestInv` therefore speaks of every open exception: its
frame, or the two frames of an interrupt on the master stack, are in memory and say
what it saved (`Stored`); no stack pointer has since been taken back past them
(`Under`), neither now nor in what a later exception saved; and each exception
interrupted the handler of the one before it, with A7 at that one's frame
(`HandlerOf`). A push keeps frames because it writes below all pointers, which needs
`StackDiscipline`; an RTE makes the context saved last the present one.
`FramesStayIntact` and `ReturnsHome` hold where pushes do not fault and under
`BusFramesFit`: a 68000 takes no bus errors, since the code stacks the 29 words of a
68010 there and RTE takes three off (see the differences above).

*MMU030.* `PathInv` ties three things to the tables as they are now. A walk is on the
path of its page: after k levels it holds what `Trail` gives for k levels, and the M
bit a write must set is set (`WalkOnPath`). What a finished walk found is what
the tables say, although a denied walk stops early and may have found only a reason
(`WalkFound`). And an entry of the cache that is not stale does not contradict them
(`CacheFollowsTables`); `WritableUnprotected` says that a hit of a write comes only
from an entry without WP. `AccessFollowsTables` is none of these: it speaks of one
answer, and a hit is right because the insertion was, any number of steps ago. The
step that carries the proof is the marking: walks set U and M in descriptors other
walks and entries depend on, and `TranslationAlike` shows, level by level,
that this changes no translation but for the appearance of M. `CacheCorrect`,
`AccessCorrect`, `WritesAreRecorded` and `ProbeCorrect` follow, for tables of any
shape the constants allow.

*MMU040.* The same argument over three fixed levels and up to four indirections.
Here U is recorded on the whole path, so the invariant of the cache (`CacheCorrect`,
stated in the proof module) says too that what is cached is marked, and
`UseIsRecorded` follows for accesses that hit. A walk marks a descriptor after it
has read the one above it, and an indirect descriptor may lead into any table,
that of its own path included: `PlacesSame` shows that marks move no walk
in progress. A fault reported during a walk leaves an entry with BUS_ERROR in the
cache, which `ReportsStale` counts with what an operating system has to flush.

*Alu.* `ComparisonsOrder`, `MultiplicationExact` and `DivisionIsExact` are about any
operands of any width of a byte. The state adds nothing here (`Tasks`: no step
changes an operand); the work is in the lemmas. A word is a number below `2 * Half`,
its sign whether it reaches `Half` (`TopBit`); results are congruent
to the exact ones modulo the size (`Around`) and equal where these fit
(`Fits`); a difference, a product of signed words and a quotient rounded to zero are
bounded (`Differences`, `SignedRange`, `Rounding`), which decides when C, V and the
overflow of a division are set.

`ShiftsCount` is an induction over the single shifts of a run. The invariant
(`ShiftInv`) says that after n of them result and flags are those of the
shift by n; a step needs, for each operation, that a shift by n and one place more are
a shift by n + 1, up to the width and beyond (`LslAdds` and its companions). Linear
shifts split a word at a power of two (`UpOn`, `DownOn`); a rotation cuts it in
three, the part that stays, the next bit to leave and the part that came
around (`Taken`), and `RotateOn` puts them together again, `RotateBack` for the right;
ROXL and ROXR are the same on one bit more. ASR goes on in signed numbers
(`AsrRange`, `SignedBit`), and ends in a word of sign bits (`FullIs`). V of ASL is
collected on the way, by whether any two of the bits that were the sign differ; that
none did is told by the size of the operand (`Clear`).

*Long numbers.* `ChainExact` and `ChainSigned` say nothing before the first digit, nor
that the digits made are digits of the base, and `ChainSigned` nothing of the carry: a
step does not preserve them. `ChainInv` says that after n digits, 0 of them included, the
result's lowest n places and X times the base to the n make up the exact result of the
operands' lowest n places (`Lowest`, `Exactly`, `CarryOf`), that Z is left set when it was
and all digits are 0, and, of the digit worked last, what N and V are. The induction over the digits is then that
of the run, one `NextDigit` at a time; a fact about data enters in one place only:
`Total`, the sum of a function's first n values, is a recursive function, and that it
unfolds (`Totals`) needs that a function with its recurrence exists, which `Iterates`
proves by induction over the numbers that have one (`SetInduction`). A step needs what one digit does: `AddedDigit`,
`SubtractedDigit` and `NegatedDigit` for binary ones, from the carries and overflows of
the top bits, and `AddedDecimal`, `SubtractedDecimal` and `NegatedDecimal` for packed
ones, where the corrections by 6 of the low digit and by 96 of the high one, and the
borrows, have to give the decimal sum of two digits in each case. `ChainsExact` and
`ChainsSigned` follow for any length, any digits and any width of a byte.

*Bit fields.* `FieldsExact` is about the bits of memory before and after, while the
handler works on a word of four bytes, a fifth byte, a mask and shifts. The lemmas
take the same way in bits: which bit of memory each bit of the loaded bytes is
(`BytesLoaded`), which bits of these the field is (`FieldMade`, `FieldPlaced`), which
bits of the patched bytes are those of the new field and which the old ones
(`StoredBits`, for the four bytes and the fifth), and which bytes each of the two
writes changes (`BytesStored`). Everything rests on a bit of a sum of a high and a low part
being a bit of one of them (`BitAbove`, `BitBelow`, `BitJoined`). A field may begin
anywhere in a byte, before or after the address, be of any width and end in a fifth
byte; where it begins by whole bytes more or less, the same bytes further on are
touched. `FieldsStayInPlace` holds of any contents of memory; the run has bytes of
zeros and of ones.

*ATC.* The invariant joins the types, `UniqueTags` and `VictimExists`.
`VictimExists` is what makes the CHOOSE of the victim an entry. The proofs are about
both paths at once. `MostRecentRecorded` follows because an insertion and every
68030 refresh and hit set the bit of the entry they use, and a wrap of the history
keeps it; `NeverEvictMostRecent` follows from it, since a victim's bit is clear.
`PromiseKept` is the refinement: each operation maps to one of `Refresh`, `Install`,
`Replace` and `Forget`, or a stutter; that a replacement happens only when the cache
is full needs the injection from entries to tags `UniqueTags` gives.

Only model-checked:

* Everything about liveness (`Returns`, `RequestServed`, `NMIServed`, `VirqServed`), which the
  prover does not reach.
* `MachineTypeOK`, `RestartHarmless` and `RoundTrip` of `Restart`: `Execute` in `Cpu` runs the
  whole sequence of a handler's steps as a fold, and these properties are of each handler
  in each mode: a proof would go through every one of their sequences, while
  TLC enumerates all of them in its instance, with every place they can fault at.

## 5. Not modelled

* Of the instruction handlers: MOVE USP, MOVEC of registers other than the MMU's,
  RESET, BKPT, CALLM and RTM, ILLEGAL, A-line and F-line, and the decoding of the
  coprocessor instructions. They copy one register, call the host or raise an
  exception `Exceptions` has under another name.
* `m68k_set_cpu_type`, `m68k_get_reg`, `m68k_set_reg` and the context switch: plain
  assignments between slices. A write of SR through `m68k_set_reg` changes S and M
  without changing A7; no document says that it should.
* The opcode table and its generator: text processing at build time and a loop that
  runs once; their result is the table of `Restart`.
* The prefetched word, trace mode, function code output: compiled out by default.
* Of the MMUs what section 2 leaves out.
* Floating point (`m68kfpu.c`, softfloat): extended precision arithmetic is beyond
  enumeration, and without it nothing of the code is left.
* The disassembler, the example host, tests and tools.
* A `longjmp` after `m68k_execute` has returned, which is undefined behaviour.

## 6. Plan

1. Proofs: `MachineTypeOK` of `Restart`, and `RestartHarmless` for the handlers that write
   once, if `Execute` in `Cpu` is split so that each step is an action.
2. `m68k_set_reg` and the context switch as operations of `Exceptions`.
3. Trace mode, whose exception interleaves with the others at an instruction's end.
