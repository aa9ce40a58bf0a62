------------------------------ MODULE Execute ------------------------------
(***************************************************************************)
(* The time slice of the CPU core (m68kcpu.c, m68kcpu.h, m68k_in.c): the   *)
(* loop of m68k_execute, its cycle account, the interrupt lines, STOP and  *)
(* HALT, reset, and the calls the host makes from outside a slice and from *)
(* the callbacks inside one.                                               *)
(*                                                                         *)
(* An instruction is one of a few kinds: "plain", "sr" (loads the status   *)
(* register: MOVE to SR, ANDI, ORI, EORI, RTE), "stop", and the two ways   *)
(* a memory access may end it, "berr" and "aerr".                          *)
(***************************************************************************)
EXTENDS Integers

CONSTANTS EMULATE_INT_ACK,  \* is the acknowledge callback compiled in
          UseVirq,          \* the host drives m68k_set_virq, not m68k_set_irq
          BadVector,        \* the acknowledge may return a vector above 255
          CallbackCalls,    \* what the host calls from its callbacks
          Levels,           \* interrupt levels and masks in use
          Ops,              \* kinds of instructions the program contains
          Costs,            \* CYC_INSTRUCTION values
          CYC_INTERRUPT, CYC_PRIVILEGE, CYC_BUS_ERROR, CYC_ADDRESS_ERROR,
          CYC_RESET,        \* CYC_EXCEPTION values
          Slices,           \* arguments of m68k_execute
          Deltas,           \* arguments of m68k_modify_timeslice
          MaxSlice          \* bound on the length a slice is extended to

ASSUME SwitchAssumption == {EMULATE_INT_ACK, UseVirq, BadVector} \subseteq BOOLEAN
ASSUME CallsAssumption == CallbackCalls \subseteq {"irq", "halt", "reset", "slice"}
ASSUME LevelsAssumption == Levels \subseteq 0 .. 7 /\ {0, 7} \subseteq Levels
ASSUME OpsAssumption == Ops \subseteq {"plain", "sr", "stop", "berr", "aerr"}
ASSUME CostAssumption ==
    /\ Costs \subseteq Nat \ {0}
    /\ {CYC_INTERRUPT, CYC_PRIVILEGE, CYC_BUS_ERROR, CYC_ADDRESS_ERROR, CYC_RESET}
          \subseteq Nat \ {0}
    /\ Slices \subseteq Nat
    /\ Deltas \subseteq Int

Lines == Levels \ {0}

VARIABLES stopped,       \* CPU_STOPPED: subset of {"STOP", "HALT"}
          int_level,     \* CPU_INT_LEVEL >> 8
          int_mask,      \* FLAG_INT_MASK >> 8
          supervisor,    \* FLAG_S
          nmi_pending,
          virq_state,    \* the set of active virtual lines
          cycles,        \* m68ki_remaining_cycles
          initial,       \* m68ki_initial_cycles
          reset_cycles,  \* RESET_CYCLES
          phase,         \* where control is: "idle" outside m68k_execute
          ack,           \* level of the interrupt being taken, 0 for none
          ir,            \* the instruction being executed
          spent,         \* auxiliary: cycles charged in this slice
          waived,        \* auxiliary: of these, cycles the count forgot
          line,          \* auxiliary: the level the host requests
          owed,          \* auxiliary: rises of line to 7 whose exception is not entered
          missed,        \* auxiliary: such a rise met a halted CPU or an invalid vector
          waiting        \* auxiliary: virtual lines raised and not taken since

cpu == <<stopped, int_level, int_mask, supervisor, nmi_pending, virq_state>>
clock == <<cycles, initial, reset_cycles, spent, waived>>
control == <<phase, ack, ir>>
host == <<line, owed, missed, waiting>>
vars == <<cpu, clock, control, host>>

----------------------------------------------------------------------------
(* Cycles.                                                                 *)

\* USE_CYCLES
Use(c) == cycles' = cycles - c /\ spent' = spent + c /\ UNCHANGED waived

\* The count becomes c: what it loses is charged, what it gains was charged before
\* and is forgotten.
Reckon(c) == /\ cycles' = c
             /\ spent' = spent + IF cycles > c THEN cycles - c ELSE 0
             /\ waived' = waived + IF c > cycles THEN c - cycles ELSE 0

\* SET_CYCLES(0)
Forfeit == Reckon(0)

----------------------------------------------------------------------------
(* Interrupts.                                                             *)

\* Here and below a name with an underscore suffix is a mutated form of the
\* definition that follows it; no action uses it.
Due_NMIOnly(mask) == nmi_pending
Due_NMIMasked(mask) == int_level > mask

\* m68ki_check_interrupts: is one due under this mask, and its level.
Due(mask) == nmi_pending \/ int_level > mask
DueLevel == IF nmi_pending THEN 7 ELSE int_level

\* Control after an interrupt, or where none was due.
Onward == IF phase = "entry" THEN "checked" ELSE "charge"

\* m68ki_check_interrupts and m68ki_exception_interrupt up to the acknowledge.
\* The stop levels are those of the moment.
check_interrupts(stops, mask) ==
    /\ nmi_pending' = FALSE
    /\ IF ~Due(mask)
       THEN stopped' = stops /\ phase' = Onward /\ UNCHANGED <<ack, missed>>
       ELSE /\ stopped' = stops \ {"STOP"}
            /\ IF "HALT" \in stops
               THEN phase' = Onward /\ missed' = (owed # {}) /\ UNCHANGED ack
               ELSE ack' = DueLevel /\ UNCHANGED <<phase, missed>>

\* What is owed after the acknowledge of a level 7 interrupt: what was raised
\* during it, and what was raised before if its exception is not entered.
Answered(entered) ==
    IF ack # 7 THEN UNCHANGED <<owed, missed>>
    ELSE /\ owed' = IF "during" \in owed \/ (~entered /\ owed # {}) THEN {"before"} ELSE {}
         /\ missed' = (~entered /\ owed = {"before"})

exception_interrupt_MaskAbove ==
    /\ ack # 0
    /\ supervisor' = TRUE
    /\ int_mask' = ack + 1
    /\ int_level' = IF EMULATE_INT_ACK THEN int_level ELSE 0
    /\ ack' = 0 /\ phase' = Onward
    /\ Use(CYC_INTERRUPT)
    /\ line' = IF EMULATE_INT_ACK THEN line ELSE 0
    /\ Answered(TRUE) /\ waiting' = waiting \ {ack}
    /\ UNCHANGED <<stopped, nmi_pending, virq_state, initial, reset_cycles, ir>>

exception_interrupt_ForgetsNMI ==
    /\ ack # 0
    /\ supervisor' = TRUE
    /\ int_mask' = ack
    /\ int_level' = IF EMULATE_INT_ACK THEN int_level ELSE 0
    /\ nmi_pending' = FALSE
    /\ ack' = 0 /\ phase' = Onward
    /\ Use(CYC_INTERRUPT)
    /\ line' = IF EMULATE_INT_ACK THEN line ELSE 0
    /\ Answered(TRUE) /\ waiting' = waiting \ {ack}
    /\ UNCHANGED <<stopped, virq_state, initial, reset_cycles, ir>>

\* The rest of m68ki_exception_interrupt, after the callbacks it makes.
exception_interrupt ==
    /\ ack # 0
    /\ supervisor' = TRUE
    /\ int_mask' = ack
    /\ int_level' = IF EMULATE_INT_ACK THEN int_level ELSE 0
    /\ ack' = 0 /\ phase' = Onward
    /\ Use(CYC_INTERRUPT)
    /\ line' = IF EMULATE_INT_ACK THEN line ELSE 0
    /\ Answered(TRUE) /\ waiting' = waiting \ {ack}
    /\ UNCHANGED <<stopped, nmi_pending, virq_state, initial, reset_cycles, ir>>

\* An invalid vector is logged; the interrupt is not taken.
InvalidVector ==
    /\ ack # 0 /\ EMULATE_INT_ACK /\ BadVector
    /\ ack' = 0 /\ phase' = Onward
    /\ Answered(FALSE)
    /\ UNCHANGED <<cpu, clock, ir, line, waiting>>

----------------------------------------------------------------------------
(* The slice.                                                              *)

m68k_execute(n) ==
    /\ phase = "idle"
    /\ reset_cycles' = 0
    /\ IF reset_cycles > 0 /\ n <= reset_cycles
       THEN UNCHANGED <<cycles, initial, spent, waived, phase>>
       ELSE /\ cycles' = n - reset_cycles
            /\ initial' = n - reset_cycles
            /\ spent' = 0 /\ waived' = 0
            /\ phase' = "entry"
    /\ UNCHANGED <<cpu, ack, ir, host>>

CheckAtEntry ==
    /\ phase = "entry" /\ ack = 0
    /\ check_interrupts(stopped, int_mask)
    /\ UNCHANGED <<int_level, int_mask, supervisor, virq_state, clock, ir, line, owed, waiting>>

\* A stopped CPU gives the whole slice away.
GiveAway ==
    /\ phase = "checked" /\ stopped # {}
    /\ Forfeit
    /\ phase' = "idle"
    /\ UNCHANGED <<cpu, initial, reset_cycles, ack, ir, host>>

Fetch(op, cost) ==
    \/ /\ phase = "checked" /\ stopped = {}
       /\ phase' = "exec" /\ ir' = [op |-> op, cost |-> cost]
       /\ UNCHANGED <<cpu, clock, ack, host>>
    \/ /\ phase = "loop"
       /\ phase' = "exec" /\ ir' = [op |-> op, cost |-> cost]
       /\ UNCHANGED <<cpu, clock, ack, host>>

Executing(ops) == phase = "exec" /\ ack = 0 /\ ir.op \in ops

Plain == /\ Executing({"plain"})
         /\ phase' = "charge"
         /\ UNCHANGED <<cpu, clock, ack, ir, host>>

\* m68ki_set_sr, after STOP has set its stop level.
LoadSR(mask, s) ==
    /\ Executing({"sr", "stop"}) /\ supervisor
    /\ int_mask' = mask /\ supervisor' = s
    /\ check_interrupts(IF ir.op = "stop" THEN stopped \cup {"STOP"} ELSE stopped, mask)
    /\ UNCHANGED <<int_level, virq_state, clock, ir, line, owed, waiting>>

\* What is left of the instruction then is its charge.
PrivilegeViolation ==
    /\ Executing({"sr", "stop"}) /\ ~supervisor
    /\ supervisor' = TRUE
    /\ Use(CYC_PRIVILEGE - ir.cost)
    /\ phase' = "charge" /\ ir' = [ir EXCEPT !.op = "plain"]
    /\ UNCHANGED <<stopped, int_level, int_mask, nmi_pending, virq_state,
                   initial, reset_cycles, ack, host>>

\* m68ki_exception_bus_error and its longjmp: the instruction is not charged,
\* yet its cycles are given back; the loop resumes without looking at cycles.
BusError ==
    /\ Executing({"berr"})
    /\ cycles - (CYC_BUS_ERROR - ir.cost) \in -MaxSlice .. MaxSlice /\ spent <= MaxSlice
    /\ Use(CYC_BUS_ERROR - ir.cost)
    /\ supervisor' = TRUE
    /\ phase' = "loop"
    /\ UNCHANGED <<stopped, int_level, int_mask, nmi_pending, virq_state,
                   initial, reset_cycles, ack, ir, host>>

\* m68ki_exception_address_error after its longjmp, and the test that follows it
\* in m68ki_set_address_error_trap.
AddressError ==
    /\ Executing({"aerr"})
    /\ supervisor' = TRUE
    /\ IF stopped = {}
       THEN Use(CYC_ADDRESS_ERROR)
       ELSE /\ cycles' = 0
            /\ spent' = spent + IF cycles > CYC_ADDRESS_ERROR THEN cycles ELSE CYC_ADDRESS_ERROR
            /\ waived' = waived + IF cycles < CYC_ADDRESS_ERROR THEN CYC_ADDRESS_ERROR - cycles ELSE 0
    /\ phase' = IF cycles' <= 0 THEN "idle" ELSE "loop"
    /\ UNCHANGED <<stopped, int_level, int_mask, nmi_pending, virq_state,
                   initial, reset_cycles, ack, ir, host>>

Left_Whole == cycles

\* STOP leaves itself no more than its own cycles: C's remainder keeps the sign.
Left == IF ir.op # "stop" THEN cycles
        ELSE IF cycles >= ir.cost THEN ir.cost
        ELSE IF cycles >= 0 THEN cycles % ir.cost ELSE -((-cycles) % ir.cost)

Charge_Free ==
    /\ phase = "charge"
    /\ Reckon(Left)
    /\ phase' = IF cycles' > 0 THEN "loop" ELSE "idle"
    /\ UNCHANGED <<cpu, initial, reset_cycles, ack, ir, host>>

Charge ==
    /\ phase = "charge"
    /\ cycles' = Left - ir.cost
    /\ spent' = spent + ir.cost + IF cycles > Left THEN cycles - Left ELSE 0
    /\ waived' = waived + IF Left > cycles THEN Left - cycles ELSE 0
    /\ phase' = IF cycles' > 0 THEN "loop" ELSE "idle"
    /\ UNCHANGED <<cpu, initial, reset_cycles, ack, ir, host>>

----------------------------------------------------------------------------
(* The host.  A callback runs while an instruction executes or while an    *)
(* interrupt is being taken.                                               *)

InCallback(call) == (phase = "exec" \/ ack # 0) /\ call \in CallbackCalls
HostRuns(call) == phase = "idle" \/ InCallback(call)

Drive(level) ==
    /\ int_level' = level
    /\ nmi_pending' = (nmi_pending \/ (int_level # 7 /\ level = 7))

Drove(level) ==
    /\ line' = level
    /\ IF line # 7 /\ level = 7
       THEN /\ owed' = owed \cup {IF ack = 7 THEN "during" ELSE "before"}
            /\ missed' = FALSE
       ELSE UNCHANGED <<owed, missed>>

m68k_set_irq(level) ==
    /\ HostRuns("irq") /\ ~UseVirq
    /\ Drive(level) /\ Drove(level)
    /\ UNCHANGED <<stopped, int_mask, supervisor, virq_state, clock, control, waiting>>

Highest(S) == IF S = {} THEN 0 ELSE CHOOSE l \in S : \A k \in S : k <= l

Raised(level, active) ==
    waiting' = IF active THEN waiting \cup {level} ELSE waiting \ {level}

m68k_set_virq_Withdraws(level, active) ==
    /\ HostRuns("irq") /\ UseVirq
    /\ virq_state' = IF active THEN virq_state \cup {level} ELSE virq_state \ {level}
    /\ LET l == IF active THEN Highest(virq_state') ELSE 0 IN Drive(l) /\ Drove(l)
    /\ Raised(level, active)
    /\ UNCHANGED <<stopped, int_mask, supervisor, clock, control>>

m68k_set_virq(level, active) ==
    /\ HostRuns("irq") /\ UseVirq
    /\ virq_state' = IF active THEN virq_state \cup {level} ELSE virq_state \ {level}
    /\ Drive(Highest(virq_state')) /\ Drove(Highest(virq_state'))
    /\ Raised(level, active)
    /\ UNCHANGED <<stopped, int_mask, supervisor, clock, control>>

m68k_pulse_halt ==
    /\ HostRuns("halt")
    /\ stopped' = stopped \cup {"HALT"}
    /\ UNCHANGED <<int_level, int_mask, supervisor, nmi_pending, virq_state, clock,
                   control, host>>

\* From outside a slice or from a memory callback; nmi_pending stays.
m68k_pulse_reset ==
    /\ HostRuns("reset") /\ ack = 0
    /\ stopped' = {}
    /\ Forfeit
    /\ int_mask' = 7 /\ int_level' = 0 /\ virq_state' = {}
    /\ supervisor' = TRUE
    /\ reset_cycles' = CYC_RESET
    /\ line' = 0 /\ waiting' = {}
    /\ UNCHANGED <<nmi_pending, initial, control, owed, missed>>

m68k_modify_timeslice_NoInitial(c) ==
    /\ InCallback("slice")
    /\ cycles + c \in -MaxSlice .. MaxSlice
    /\ cycles' = cycles + c
    /\ UNCHANGED <<cpu, initial, reset_cycles, spent, waived, control, host>>

m68k_modify_timeslice(c) ==
    /\ InCallback("slice")
    /\ initial + c \in 0 .. MaxSlice /\ cycles + c >= -MaxSlice /\ spent <= MaxSlice
    /\ initial' = initial + c /\ cycles' = cycles + c
    /\ UNCHANGED <<cpu, reset_cycles, spent, waived, control, host>>

m68k_end_timeslice_NoInitial ==
    /\ InCallback("slice")
    /\ cycles' = 0
    /\ UNCHANGED <<cpu, initial, reset_cycles, spent, waived, control, host>>

m68k_end_timeslice ==
    /\ InCallback("slice")
    /\ initial' = initial - cycles /\ cycles' = 0
    /\ UNCHANGED <<cpu, reset_cycles, spent, waived, control, host>>

----------------------------------------------------------------------------
\* The CPU after m68k_init and the pulse of reset every host must begin with.
Init ==
    /\ stopped = {} /\ int_level = 0 /\ int_mask = 7 /\ supervisor = TRUE
    /\ nmi_pending = FALSE /\ virq_state = {}
    /\ cycles = 0 /\ initial = 0 /\ reset_cycles = CYC_RESET
    /\ phase = "idle" /\ ack = 0
    /\ ir \in [op : {"plain"}, cost : Costs]
    /\ spent = 0 /\ waived = 0
    /\ line = 0 /\ owed = {} /\ missed = FALSE /\ waiting = {}

Step == \/ CheckAtEntry \/ GiveAway \/ exception_interrupt \/ InvalidVector
        \/ \E op \in Ops, cost \in Costs : Fetch(op, cost)
        \/ Plain \/ PrivilegeViolation \/ BusError \/ AddressError \/ Charge
        \/ \E mask \in Levels, s \in BOOLEAN : LoadSR(mask, s)

CallsExecute == \E n \in Slices : m68k_execute(n)

Host == \/ \E level \in Levels : m68k_set_irq(level)
        \/ \E level \in Lines, active \in BOOLEAN : m68k_set_virq(level, active)
        \/ m68k_pulse_halt \/ m68k_pulse_reset
        \/ \E c \in Deltas : m68k_modify_timeslice(c)
        \/ m68k_end_timeslice

Next == Step \/ CallsExecute \/ Host

Spec == Init /\ [][Next]_vars

\* A slice that is longer than the reset cycles it has to pay.
EntersSlice == CallsExecute /\ phase' = "entry"

\* The emulator runs on inside m68k_execute; the host keeps calling it and does
\* not reset the CPU before every slice.
FairSpec == Spec /\ WF_vars(Step) /\ WF_vars(CallsExecute) /\ SF_vars(EntersSlice)

----------------------------------------------------------------------------
(* Properties.                                                             *)

\* Every variable holds a value of its kind.
TypeOK ==
    /\ stopped \subseteq {"STOP", "HALT"}
    /\ int_level \in Levels /\ int_mask \in Levels
    /\ ack \in Levels /\ line \in Levels
    /\ virq_state \subseteq Lines
    /\ supervisor \in BOOLEAN /\ nmi_pending \in BOOLEAN
    /\ owed \subseteq {"before", "during"} /\ missed \in BOOLEAN /\ waiting \subseteq Lines
    /\ cycles \in Int /\ initial \in Int /\ spent \in Int /\ waived \in Nat
    /\ reset_cycles \in {0, CYC_RESET}
    /\ phase \in {"idle", "entry", "checked", "loop", "exec", "charge"}
    /\ ir \in [op : Ops \cup {"plain"}, cost : Costs]

\* m68k_cycles_run, and with it what m68k_execute returns, is what the slice has
\* been charged, whatever callbacks did to the time slice meanwhile; what STOP,
\* a reset or a stopped CPU takes back from a count below 0 is not in it.
ClockExact == initial - cycles = spent - waived

\* It never claims more cycles than were charged.
ClockNeverAhead == initial - cycles <= spent

\* m68k_cycles_run goes back, while a slice runs, only by what a count below 0 is
\* forgiven, and by the instruction a bus error gives back without a charge.
ClockMonotone ==
    [][(phase = "exec" => ir.op # "berr") /\ phase # "idle"
         => initial' - cycles' >= initial - cycles - (waived' - waived)]_vars

\* No instruction runs between a STOP and what wakes it.
StoppedRunsNothing == phase \in {"loop", "exec"} => "STOP" \notin stopped

\* "A transition from < 7 to 7 always interrupts (NMI)": an NMI is pending only
\* for a rise of the line whose exception was not entered, and such a rise is
\* pending or in acknowledge, unless it met a halted CPU or an invalid vector; a
\* rise during the acknowledge of another one is an NMI of its own.
NMIAccounted ==
    /\ nmi_pending => (IF ack = 7 THEN "during" ELSE "before") \in owed
    /\ "during" \in owed => nmi_pending
    /\ "before" \in owed => nmi_pending \/ ack = 7 \/ missed

\* A call of m68k_execute returns.
Returns == phase # "idle" ~> phase = "idle"

\* A request above the mask is taken, withdrawn or masked, unless the CPU halts.
RequestServed ==
    int_level > int_mask ~> int_level <= int_mask \/ "HALT" \in stopped

\* An NMI is served even if every program step masks interrupts.
NMIServed == owed # {} /\ ~missed ~> ack = 7 \/ "HALT" \in stopped

\* "the highest level active line is automatically selected": a virtual line above
\* the mask is taken, lowered or masked, whatever the others do.
VirqServed ==
    \A l \in Lines :
        l \in waiting /\ l > int_mask
           ~> l \notin waiting \/ l <= int_mask \/ "HALT" \in stopped
=============================================================================
