----------------------------- MODULE Exceptions -----------------------------
(***************************************************************************)
(* Exception processing (m68kcpu.h) and RTE (m68k_in.c): the three stack   *)
(* pointers behind A7, the frames each CPU type pushes and what RTE makes  *)
(* of them, and the bus error with its restored registers.                 *)
(*                                                                         *)
(* A stack pointer is the stack it points into and how many words it lies  *)
(* below that stack's base, so each stack grows upward here.  Memory keeps *)
(* a frame under the position of its lowest word, and forgets what lies    *)
(* beyond every stack pointer.                                             *)
(***************************************************************************)
EXTENDS Integers, Sequences

CONSTANTS CPUs,       \* types of CPU emulated
          Kinds,      \* kinds of exceptions that occur on each
          PushFaults, \* those where a push of a frame may take a bus error
          MaxDepth,   \* bound on nested exceptions, for each
          MaxWords    \* bound on the depth of a stack at an exception, for each

\* "020" stands for the 030 as well, "040" for the 060.
ASSUME CPUAssumption == CPUs \subseteq {"000", "010", "020", "040"}
ASSUME KindsAssumption ==
    /\ Kinds \in [CPUs -> SUBSET {"trap", "trapN", "privilege", "interrupt", "bus"}]
    /\ PushFaults \subseteq CPUs
    /\ MaxDepth \in [CPUs -> Nat] /\ MaxWords \in [CPUs -> Nat]

Stacks == {"USP", "ISP", "MSP"}
Programs == {"a", "b"}          \* two instructions of the program, in a loop
PC == Programs \cup {"handler"}
Masks == {0, 1}                 \* interrupts enabled, disabled

SR == [s : BOOLEAN, m : BOOLEAN, mask : Masks]
Pointer == [stack : Stacks, words : Nat]

VARIABLES cpu_type,
          sr,      \* FLAG_S, FLAG_M, FLAG_INT_MASK
          sp,      \* REG_SP, that is A7
          base,    \* REG_SP_BASE
          pc,      \* REG_PC at the start of an instruction, where it is REG_PPC
          mem,     \* the frames in memory
          halted,  \* CPU_STOPPED
          slice,   \* m68k_execute still runs the program
          saved    \* auxiliary: what each exception not yet returned from
                   \* interrupted, and where its frame lies

vars == <<cpu_type, sr, sp, base, pc, mem, halted, slice, saved>>

EC020_PLUS == cpu_type \in {"020", "040"}

----------------------------------------------------------------------------
(* Stack pointers.  A register set is the record of sr, sp and base.       *)

Bank(status) == IF ~status.s THEN "USP" ELSE IF status.m THEN "MSP" ELSE "ISP"

Regs == [sr |-> sr, sp |-> sp, base |-> base]

\* Here and below a name with an underscore suffix is a mutated form of the
\* definition that follows it; no action uses it.
set_sm_flag_NoBackup(regs, status) ==
    [sr |-> status, sp |-> regs.base[Bank(status)], base |-> regs.base]

set_sm_flag_BackupAfter(regs, status) ==
    LET backed == [regs.base EXCEPT ![Bank(status)] = regs.sp]
    IN  [sr |-> status, sp |-> backed[Bank(status)], base |-> backed]

\* m68ki_set_s_flag, m68ki_set_sm_flag: back up A7, then load the new bank.
set_sm_flag(regs, status) ==
    LET backed == [regs.base EXCEPT ![Bank(regs.sr)] = regs.sp]
    IN  [sr |-> status, sp |-> backed[Bank(status)], base |-> backed]

\* m68ki_init_exception: M and the mask stay.
init_exception(regs) == set_sm_flag(regs, [regs.sr EXCEPT !.s = TRUE])

\* The value each stack pointer has, whichever is in A7.
Pointers(regs) == [regs.base EXCEPT ![Bank(regs.sr)] = regs.sp]

Below(p, n) == [p EXCEPT !.words = @ + n]

----------------------------------------------------------------------------
(* Frames.                                                                 *)

\* Words a frame occupies.  Format 0 is the 3-word frame on a 68000.
Length == [f \in {0, 1, 2, 7, 8, 11} |->
             CASE f = 0 -> IF cpu_type = "000" THEN 3 ELSE 4
               [] f = 1 -> 4 [] f = 2 -> 6 [] f = 7 -> 29 [] f = 8 -> 29 [] f = 11 -> 46]

Frame == [format : {0, 1, 2, 7, 8, 11}, sr : SR, pc : PC]

\* Do a frame at p and the words from q upward to q.words - n overlap?
Overlaps(p, len, q, n) == /\ p.stack = q.stack
                          /\ p.words > q.words - n /\ q.words > p.words - len

\* The memory after a frame is pushed that ends at q; what it covers is lost.
Stacked(memory, q, frame) ==
    LET n == Length[frame.format]
        kept == {p \in DOMAIN memory : ~Overlaps(p, Length[memory[p].format], q, n)}
    IN  [p \in kept \cup {q} |-> IF p = q THEN frame ELSE memory[p]]

Push(regs, format) == [regs EXCEPT !.sp = Below(@, Length[format])]

\* The format of the frame an exception pushes.
Format(kind) ==
    CASE kind = "trap" -> IF EC020_PLUS THEN 2 ELSE 0
      [] kind = "bus" -> IF ~EC020_PLUS THEN 8 ELSE IF cpu_type = "040" THEN 7 ELSE 11
      [] OTHER -> 0

----------------------------------------------------------------------------
(* Exceptions.                                                             *)

Follow == [p \in PC |-> IF p = "a" THEN "b" ELSE IF p = "b" THEN "a" ELSE p]

\* What is interrupted, the program counter to return to, and the frame.
Context(where, frameAt) ==
    [sr |-> sr, pointers |-> Pointers(Regs), pc |-> where, at |-> frameAt]

\* The frames that some stack pointer has not been taken back past.
Live(regs, memory) ==
    [p \in {q \in DOMAIN memory : \E b \in Stacks :
                 /\ Pointers(regs)[b].stack = q.stack
                 /\ q.words <= Pointers(regs)[b].words} |-> memory[p]]

Load(regs, memory) == /\ sr' = regs.sr /\ sp' = regs.sp /\ base' = regs.base
                      /\ mem' = Live(regs, memory)
                      /\ UNCHANGED cpu_type

CanEnter(kind) == /\ slice /\ kind \in Kinds[cpu_type] /\ Len(saved) < MaxDepth[cpu_type]
                  /\ \A b \in Stacks : Pointers(Regs)[b].words <= MaxWords[cpu_type]

Unmasked == sr.mask = 0 /\ ~halted

\* An exception from these registers: enter supervisor state, stack the frame,
\* jump through the vector.
Take(regs, kind, where, mask) ==
    LET entered == Push(init_exception(regs), Format(kind))
    IN  /\ Load([entered EXCEPT !.sr.mask = mask],
                Stacked(mem, entered.sp,
                        [format |-> Format(kind), sr |-> regs.sr, pc |-> where]))
        /\ pc' = "handler"
        /\ saved' = Append(saved, Context(where, entered.sp))
        /\ UNCHANGED <<halted, slice>>

exception_trap == CanEnter("trap") /\ Take(Regs, "trap", Follow[pc], sr.mask)

exception_trapN == CanEnter("trapN") /\ Take(Regs, "trapN", Follow[pc], sr.mask)

\* It stacks the instruction itself.
exception_privilege_violation ==
    CanEnter("privilege") /\ ~sr.s /\ Take(Regs, "privilege", pc, sr.mask)

\* m68ki_exception_interrupt: after a frame on the master stack a second,
\* throwaway one goes to the interrupt stack.
exception_interrupt ==
    /\ CanEnter("interrupt") /\ Unmasked
    /\ \/ ~(sr.m /\ EC020_PLUS) /\ Take(Regs, "interrupt", pc, 1)
       \/ /\ sr.m /\ EC020_PLUS
          /\ LET master == Push(init_exception(Regs), 0)
                 inner == Push(set_sm_flag(master, [s |-> TRUE, m |-> FALSE, mask |-> 1]), 1)
                 frame == [format |-> 0, sr |-> sr, pc |-> pc]
                 throwaway == [format |-> 1, sr |-> [sr EXCEPT !.s = TRUE], pc |-> pc]
             IN  /\ Load(inner, Stacked(Stacked(mem, master.sp, frame), inner.sp, throwaway))
                 /\ saved' = Append(saved, Context(pc, inner.sp))
          /\ pc' = "handler"
          /\ UNCHANGED <<halted, slice>>

\* m68ki_exception_bus_error from the registers of the moment, with A7 put back
\* to what it was when the instruction began.  A second fault, while the frame
\* is written, sets HALT and loses the frame; the emulator goes on all the same.
bus_error(regs) ==
    LET restored == [regs EXCEPT !.sp = sp] IN
    \/ Take(restored, "bus", pc, regs.sr.mask)
    \/ /\ cpu_type \in PushFaults
       /\ Load(Push(init_exception(restored), Format("bus")), mem)
       /\ pc' = "handler" /\ halted' = TRUE
       /\ saved' = <<>>
       /\ UNCHANGED slice

\* An access of the program faults, after a pre-decrement of A7 or without one.
AccessFault == \E moved \in {0, 1} :
    CanEnter("bus") /\ bus_error([Regs EXCEPT !.sp = Below(@, moved)])

\* The frame of another exception cannot be pushed; supervisor state has been
\* entered by then, and by an interrupt the mask raised and perhaps M cleared.
PushFault ==
    /\ CanEnter("bus") /\ cpu_type \in PushFaults
    /\ \/ bus_error(init_exception(Regs))
       \/ /\ "interrupt" \in Kinds[cpu_type] /\ Unmasked
          /\ LET entered == init_exception([Regs EXCEPT !.sr.mask = 1])
                 inner == set_sm_flag(Push(entered, 0), [entered.sr EXCEPT !.m = FALSE])
             IN  bus_error(entered) \/ (sr.m /\ bus_error(inner))

----------------------------------------------------------------------------
(* RTE.                                                                    *)

\* The formats RTE takes off the stack; a 68000 does not look.
Pops == IF EC020_PLUS THEN {0, 1, 2} ELSE {0, 8}

Pull_Longest(regs, format) == [regs EXCEPT !.sp = Below(@, -Length[2])]

Pull(regs, format) ==
    [regs EXCEPT !.sp = Below(@, -(IF cpu_type = "000" THEN 3 ELSE Length[format]))]

\* The registers when RTE reaches the frame it returns by: past a throwaway
\* frame, on the stack that frame's status register selects.
Unwound == IF mem[sp].format = 1 THEN set_sm_flag(Pull(Regs, 1), mem[sp].sr) ELSE Regs

AtFrame == slice /\ sr.s /\ saved # <<>> /\ sp \in DOMAIN mem

rte_NoSwitch ==
    /\ AtFrame /\ mem[sp].format \in Pops /\ Unwound.sp \in DOMAIN mem
    /\ LET frame == mem[Unwound.sp]
       IN  /\ Load([Pull(Unwound, frame.format) EXCEPT !.sr = frame.sr], mem)
           /\ pc' = frame.pc
    /\ saved' = SubSeq(saved, 1, Len(saved) - 1)
    /\ UNCHANGED <<halted, slice>>

rte == /\ AtFrame /\ mem[sp].format \in Pops /\ Unwound.sp \in DOMAIN mem
       /\ LET frame == mem[Unwound.sp]
          IN  /\ Load(set_sm_flag(Pull(Unwound, frame.format), frame.sr), mem)
              /\ pc' = frame.pc
       /\ saved' = SubSeq(saved, 1, Len(saved) - 1)
       /\ UNCHANGED <<halted, slice>>

\* m68ki_exception_format_error: a format RTE does not know stays on the stack.
rte_format_error ==
    /\ AtFrame /\ mem[sp].format \notin Pops /\ Len(saved) < MaxDepth[cpu_type]
    /\ Take(Regs, "format", Follow[pc], sr.mask)

----------------------------------------------------------------------------
(* The program outside of handlers, the slice and reset.                   *)

\* MOVE to SR.  CPU_SR_MASK has the M bit from the 68020 on.  A handler uses it
\* to let interrupts in, and stays on its stack.
move_to_sr(status) ==
    /\ slice /\ sr.s
    /\ saved = <<>> \/ (status.s /\ status.m = sr.m)
    /\ status.m => EC020_PLUS
    /\ Load(set_sm_flag(Regs, status), mem)
    /\ pc' = Follow[pc]
    /\ UNCHANGED <<halted, slice, saved>>

\* A push or a pop by an instruction, one word deep.
UseStack ==
    /\ slice /\ saved = <<>> /\ sp.words \in {0, 1}
    /\ Load([Regs EXCEPT !.sp.words = 1 - @], mem)
    /\ pc' = Follow[pc]
    /\ UNCHANGED <<halted, slice, saved>>

\* The slice in which the CPU was halted ends, and m68k_execute runs nothing more.
EndOfSlice == /\ halted /\ slice /\ slice' = FALSE
              /\ UNCHANGED <<cpu_type, sr, sp, base, pc, mem, halted, saved>>

\* m68k_pulse_reset, and the start-up code that sets up the three stacks.
m68k_pulse_reset ==
    /\ sr' = [s |-> TRUE, m |-> FALSE, mask |-> 1]
    /\ sp' = [stack |-> "ISP", words |-> 0]
    /\ base' = [b \in Stacks |-> [stack |-> b, words |-> 0]]
    /\ pc' = "a" /\ mem' = <<>> /\ halted' = FALSE /\ slice' = TRUE /\ saved' = <<>>
    /\ UNCHANGED cpu_type

----------------------------------------------------------------------------
\* After reset, the program's start-up code having set up its three stacks.
Init ==
    /\ cpu_type \in CPUs
    /\ sr = [s |-> TRUE, m |-> FALSE, mask |-> 1]
    /\ sp = [stack |-> "ISP", words |-> 0]
    /\ base = [b \in Stacks |-> [stack |-> b, words |-> 0]]
    /\ pc = "a" /\ mem = <<>> /\ halted = FALSE /\ slice = TRUE /\ saved = <<>>

Next == \/ exception_trap \/ exception_trapN \/ exception_privilege_violation
        \/ exception_interrupt \/ AccessFault \/ PushFault
        \/ rte \/ rte_format_error
        \/ \E status \in SR : move_to_sr(status)
        \/ UseStack \/ EndOfSlice \/ m68k_pulse_reset

Spec == Init /\ [][Next]_vars

----------------------------------------------------------------------------
(* Properties.                                                             *)

\* Every variable holds a value of its kind.
TypeOK ==
    /\ cpu_type \in CPUs
    /\ sr \in SR /\ sp \in Pointer /\ base \in [Stacks -> Pointer] /\ pc \in PC
    /\ \A p \in DOMAIN mem : p \in Pointer /\ mem[p] \in Frame
    /\ halted \in BOOLEAN /\ slice \in BOOLEAN
    /\ \A i \in DOMAIN saved : saved[i].sr \in SR /\ saved[i].pc \in PC

\* "Backup the old stack pointer": A7 and the banks behind it point into their
\* own stacks, whatever exceptions and returns switched between them.
StacksApart == \A b \in Stacks : Pointers(Regs)[b].stack = b

PushesSucceed == cpu_type \notin PushFaults

\* They do so on every CPU whose pushes do not fault.
StackDiscipline == PushesSucceed => StacksApart

\* "RTE: SR/PC restored, SP adjusted": an RTE that succeeds leads back to what
\* the exception interrupted, all three stack pointers included.
RoundTrip ==
    [][PushesSucceed /\ saved # <<>> /\ rte =>
         LET top == saved[Len(saved)] IN
         sr' = top.sr /\ pc' = top.pc /\ Pointers(Regs)' = top.pointers]_vars

\* The frame at p returns to the context c.
ReturnsTo(p, c) == p \in DOMAIN mem /\ mem[p].sr = c.sr /\ mem[p].pc = c.pc

\* The frames of the exceptions in progress lie untouched where their handlers
\* will look for them, behind a throwaway frame on the master stack.
FramesIntact ==
    PushesSucceed => \A i \in DOMAIN saved : LET c == saved[i] IN
        /\ c.at \in DOMAIN mem
        /\ IF mem[c.at].format # 1 THEN ReturnsTo(c.at, c)
           ELSE ReturnsTo(Below(c.pointers["MSP"], Length[0]), c)

\* Whatever exceptions and returns do, even when their pushes fault, the user
\* stack pointer is the one the program left.
UserPointerKept ==
    [][~(UseStack /\ ~sr.s) /\ ~m68k_pulse_reset
         => Pointers(Regs)'["USP"] = Pointers(Regs)["USP"]]_vars
=============================================================================
