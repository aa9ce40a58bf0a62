--------------------------- MODULE ExecuteProofs ---------------------------
(***************************************************************************)
(* Proofs about the time slice of Execute, for every instruction mix, cost *)
(* table, slice length and set of callback calls.                          *)
(***************************************************************************)
EXTENDS Execute, TLAPS

\* The highest of a set of lines is one of them, or 0: what m68k_set_virq selects.
LEMMA HighestIsLevel ==
  ASSUME NEW S \in SUBSET Lines
  PROVE  Highest(S) \in Levels
<1>1. CASE S = {}
  BY <1>1, LevelsAssumption DEF Highest
<1>2. CASE S # {}
  <2>1. S \subseteq {1, 2, 3, 4, 5, 6, 7}
    BY LevelsAssumption DEF Lines
  <2>2. PICK m \in S : \A k \in S : k <= m
    <3>1. CASE 7 \in S
      BY <2>1, <3>1
    <3>2. CASE 7 \notin S /\ 6 \in S
      BY <2>1, <3>2
    <3>3. CASE 7 \notin S /\ 6 \notin S /\ 5 \in S
      BY <2>1, <3>3
    <3>4. CASE 7 \notin S /\ 6 \notin S /\ 5 \notin S /\ 4 \in S
      BY <2>1, <3>4
    <3>5. CASE S \subseteq {1, 2, 3} /\ 3 \in S
      BY <3>5
    <3>6. CASE S \subseteq {1, 2} /\ 2 \in S
      BY <3>6
    <3>7. CASE S = {1}
      BY <3>7
    <3>8. S \subseteq {1, 2, 3} => 3 \in S \/ (S \subseteq {1, 2} /\ 2 \in S) \/ S = {1}
      BY <1>2
    <3> QED
      BY <2>1, <3>1, <3>2, <3>3, <3>4, <3>5, <3>6, <3>7, <3>8
  <2>3. Highest(S) \in S
    BY <1>2, <2>2 DEF Highest
  <2> QED
    BY <2>3 DEF Lines
<1> QED
  BY <1>1, <1>2

\* The level an interrupt check takes is a level.
LEMMA DueLevelIsLevel ==
  ASSUME TypeOK
  PROVE  DueLevel \in Levels
BY LevelsAssumption DEF TypeOK, DueLevel

\* An instruction costs something.
LEMMA CostIsPositive ==
  ASSUME TypeOK
  PROVE  ir.cost \in Nat /\ ir.cost >= 1
<1>1. ir \in [op : Ops \cup {"plain"}, cost : Costs]
  BY DEF TypeOK
<1>2. ir.cost \in Costs
  BY <1>1
<1>3. \A c \in Costs : c \in Nat /\ c >= 1
  BY CostAssumption
<1> QED
  BY <1>2, <1>3

\* What STOP leaves of the slice is an integer, and at most its own cost.
LEMMA StopLeavesItsCost ==
  ASSUME TypeOK
  PROVE  /\ Left \in Int /\ ir.cost \in Nat \ {0}
         /\ ir.op = "stop" => Left <= ir.cost
<1> DEFINE c == ir.cost
<1>1. cycles \in Int /\ c \in Nat \ {0}
  BY CostAssumption DEF TypeOK
<1>2. \A a \in Int : a % c \in 0 .. c - 1
  BY <1>1
<1>3. -cycles \in Int
  BY <1>1
<1>4. cycles % c \in 0 .. c - 1 /\ (-cycles) % c \in 0 .. c - 1
  BY <1>1, <1>2, <1>3
<1> HIDE DEF c
<1>5. Left = IF ir.op # "stop" THEN cycles
             ELSE IF cycles >= c THEN c
             ELSE IF cycles >= 0 THEN cycles % c ELSE -((-cycles) % c)
  BY DEF Left, c
<1>6. Left \in Int /\ (ir.op = "stop" => Left <= c)
  BY <1>1, <1>4, <1>5
<1> QED
  BY <1>1, <1>6 DEF c

\* A count that is set is charged what it loses and waives what it gains.
LEMMA ReckonAccounts ==
  ASSUME TypeOK, NEW c \in Int, Reckon(c)
  PROVE  /\ cycles' \in Int /\ spent' \in Int /\ spent' >= spent /\ waived' \in Nat
         /\ ClockExact /\ initial' = initial => ClockExact'
BY DEF TypeOK, Reckon, ClockExact

----------------------------------------------------------------------------
(* Types.                                                                  *)

\* The slice begins with every variable of its kind.
LEMMA InitTypes == Init => TypeOK
<1> SUFFICES ASSUME Init PROVE TypeOK
  OBVIOUS
<1>1. PICK c \in Costs : ir = [op |-> "plain", cost |-> c]
  <2>1. ir \in [op : {"plain"}, cost : Costs]
    BY DEF Init
  <2>2. ir.op = "plain" /\ ir.cost \in Costs /\ ir = [op |-> ir.op, cost |-> ir.cost]
    BY <2>1
  <2> QED
    BY <2>2
<1>2. ir \in [op : Ops \cup {"plain"}, cost : Costs]
  BY <1>1
<1>3. supervisor \in BOOLEAN /\ nmi_pending \in BOOLEAN /\ missed \in BOOLEAN
  BY Zenon DEF Init
<1>4. 0 \in Levels /\ 7 \in Levels
  BY LevelsAssumption
<1> QED
  BY <1>2, <1>3, <1>4 DEF Init, TypeOK

\* What an interrupt check writes is of its kind.
LEMMA CheckTypes ==
  ASSUME TypeOK, NEW stops \in SUBSET {"STOP", "HALT"}, NEW mask \in Levels,
         check_interrupts(stops, mask)
  PROVE  /\ stopped' \subseteq {"STOP", "HALT"} /\ nmi_pending' \in BOOLEAN
         /\ missed' \in BOOLEAN /\ ack' \in Levels
         /\ phase' \in {"idle", "entry", "checked", "loop", "exec", "charge"}
BY DueLevelIsLevel DEF TypeOK, check_interrupts, Onward

\* So is what is owed after an acknowledge.
LEMMA AnswerTypes ==
  ASSUME TypeOK, NEW entered \in BOOLEAN, Answered(entered)
  PROVE  owed' \subseteq {"before", "during"} /\ missed' \in BOOLEAN
BY DEF TypeOK, Answered

\* No step of the emulator writes a value of another kind.
LEMMA StepTypes == TypeOK /\ Step => TypeOK'
<1> SUFFICES ASSUME TypeOK, Step PROVE TypeOK'
  OBVIOUS
<1> USE LevelsAssumption, CostAssumption, OpsAssumption
<1>1. CASE CheckAtEntry
  BY <1>1, CheckTypes DEF TypeOK, CheckAtEntry, clock
<1>2. CASE GiveAway
  <2>1. Reckon(0)
    BY <1>2 DEF GiveAway, Forfeit
  <2>2. cycles' \in Int /\ spent' \in Int /\ waived' \in Nat
    BY <2>1, ReckonAccounts
  <2> QED
    BY <1>2, <2>2 DEF TypeOK, GiveAway, cpu, host
<1>3. CASE exception_interrupt
  <2>1. owed' \subseteq {"before", "during"} /\ missed' \in BOOLEAN
    BY <1>3, AnswerTypes DEF exception_interrupt
  <2> QED
    BY <1>3, <2>1 DEF TypeOK, exception_interrupt, Use, Onward
<1>4. CASE InvalidVector
  <2>1. owed' \subseteq {"before", "during"} /\ missed' \in BOOLEAN
    BY <1>4, AnswerTypes DEF InvalidVector
  <2> QED
    BY <1>4, <2>1 DEF TypeOK, InvalidVector, Onward, cpu, clock
<1>5. ASSUME NEW op \in Ops, NEW cost \in Costs, Fetch(op, cost) PROVE TypeOK'
  <2>1. ir' \in [op : Ops \cup {"plain"}, cost : Costs]
    BY <1>5 DEF Fetch
  <2> QED
    BY <1>5, <2>1 DEF TypeOK, Fetch, cpu, clock, host
<1>6. CASE Plain
  BY <1>6 DEF TypeOK, Plain, cpu, clock, host
<1>7. CASE PrivilegeViolation
  <2>1. ir' \in [op : Ops \cup {"plain"}, cost : Costs]
    BY <1>7 DEF TypeOK, PrivilegeViolation
  <2>2. ir.cost \in Int
    BY CostIsPositive
  <2>3. CYC_PRIVILEGE \in Int
    OBVIOUS
  <2> QED
    BY <1>7, <2>1, <2>2, <2>3 DEF TypeOK, PrivilegeViolation, Use, host
<1>8. CASE BusError
  <2>1. ir.cost \in Int
    BY CostIsPositive
  <2>2. CYC_BUS_ERROR \in Int
    OBVIOUS
  <2> QED
    BY <1>8, <2>1, <2>2 DEF TypeOK, BusError, Use, host
<1>9. CASE AddressError
  BY <1>9 DEF TypeOK, AddressError, Use, host
<1>10. CASE Charge
  BY <1>10, StopLeavesItsCost DEF TypeOK, Charge, cpu, host
<1>11. ASSUME NEW mask \in Levels, NEW s \in BOOLEAN, LoadSR(mask, s) PROVE TypeOK'
  <2> DEFINE stops == IF ir.op = "stop" THEN stopped \cup {"STOP"} ELSE stopped
  <2>1. stops \in SUBSET {"STOP", "HALT"} /\ check_interrupts(stops, mask)
    BY <1>11 DEF TypeOK, LoadSR
  <2> HIDE DEF stops
  <2> QED
    BY <1>11, <2>1, CheckTypes DEF TypeOK, LoadSR, clock
<1> QED
  BY <1>1, <1>2, <1>3, <1>4, <1>5, <1>6, <1>7, <1>8, <1>9, <1>10, <1>11 DEF Step

\* Nor does a call of the host.
LEMMA HostTypes == TypeOK /\ (CallsExecute \/ Host) => TypeOK'
<1> SUFFICES ASSUME TypeOK, CallsExecute \/ Host PROVE TypeOK'
  OBVIOUS
<1> USE LevelsAssumption, CostAssumption
<1>1. ASSUME NEW n \in Slices, m68k_execute(n) PROVE TypeOK'
  BY <1>1 DEF TypeOK, m68k_execute, cpu, host
<1>2. ASSUME NEW level \in Levels, m68k_set_irq(level) PROVE TypeOK'
  BY <1>2 DEF TypeOK, m68k_set_irq, Drive, Drove, clock, control
<1>3. ASSUME NEW level \in Lines, NEW active \in BOOLEAN, m68k_set_virq(level, active)
      PROVE  TypeOK'
  <2>1. virq_state' \in SUBSET Lines
    BY <1>3 DEF TypeOK, m68k_set_virq
  <2>2. Highest(virq_state') \in Levels
    BY <2>1, HighestIsLevel
  <2> QED
    BY <1>3, <2>1, <2>2 DEF TypeOK, m68k_set_virq, Drive, Drove, Raised, clock, control
<1>4. CASE m68k_pulse_halt
  BY <1>4 DEF TypeOK, m68k_pulse_halt, clock, control, host
<1>5. CASE m68k_pulse_reset
  <2>1. Reckon(0)
    BY <1>5 DEF m68k_pulse_reset, Forfeit
  <2>2. cycles' \in Int /\ spent' \in Int /\ waived' \in Nat
    BY <2>1, ReckonAccounts
  <2> QED
    BY <1>5, <2>2 DEF TypeOK, m68k_pulse_reset, control
<1>6. ASSUME NEW c \in Deltas, m68k_modify_timeslice(c) PROVE TypeOK'
  BY <1>6 DEF TypeOK, m68k_modify_timeslice, cpu, control, host
<1>7. CASE m68k_end_timeslice
  BY <1>7 DEF TypeOK, m68k_end_timeslice, cpu, control, host
<1> QED
  BY <1>1, <1>2, <1>3, <1>4, <1>5, <1>6, <1>7 DEF CallsExecute, Host

\* In every behaviour every variable holds a value of its kind.
THEOREM TypeCorrect == Spec => []TypeOK
<1>1. Init => TypeOK
  BY InitTypes
<1>2. TypeOK /\ [Next]_vars => TypeOK'
  <2>1. TypeOK /\ UNCHANGED vars => TypeOK'
    BY DEF TypeOK, vars, cpu, clock, control, host
  <2> QED
    BY <2>1, StepTypes, HostTypes DEF Next
<1> QED
  BY <1>1, <1>2, PTL DEF Spec

----------------------------------------------------------------------------
(* STOP, and the account of the slice.                                     *)

\* Where control can be while an interrupt is being taken, and which
\* instruction is being charged while the CPU is stopped.
Control == /\ ack # 0 => phase \in {"entry", "exec"} /\ "STOP" \notin stopped
           /\ phase = "charge" /\ "STOP" \in stopped => ir.op = "stop"

Inv == TypeOK /\ Control /\ StoppedRunsNothing /\ ClockExact

\* An interrupt check made at the entry of a slice or by an instruction leaves
\* the CPU stopped only where control goes on to the charge of a STOP.
LEMMA CheckControls ==
  ASSUME TypeOK, NEW stops \in SUBSET {"STOP", "HALT"}, NEW mask \in Levels,
         check_interrupts(stops, mask), phase \in {"entry", "exec"},
         ack = 0, ir' = ir,
         phase = "exec" /\ "STOP" \in stops => ir.op = "stop"
  PROVE  /\ Control'
         /\ (phase = "exec" /\ phase' = "exec") => "STOP" \notin stopped'
         /\ phase' \in {"entry", "exec", "checked", "charge"}
         /\ phase = "entry" => phase' \in {"entry", "checked"}
BY DEF Control, check_interrupts, Onward

\* The emulator keeps the invariant.
LEMMA StepKeepsInv == Inv /\ Step => Inv'
<1> SUFFICES ASSUME Inv, Step PROVE Inv'
  OBVIOUS
<1>0. TypeOK /\ TypeOK'
  BY StepTypes DEF Inv
<1> SUFFICES Control' /\ StoppedRunsNothing' /\ ClockExact'
  BY <1>0 DEF Inv
<1> USE DEF StoppedRunsNothing, ClockExact
<1>c. initial \in Int /\ cycles \in Int /\ spent \in Int /\ ir.cost \in Int /\ waived \in Int
      /\ initial - cycles = spent - waived
  BY <1>0, CostIsPositive DEF Inv, TypeOK
<1>1. CASE CheckAtEntry
  <2>1. stopped \in SUBSET {"STOP", "HALT"} /\ int_mask \in Levels
    BY <1>0 DEF TypeOK
  <2>2. check_interrupts(stopped, int_mask) /\ phase = "entry" /\ ack = 0 /\ ir' = ir
    BY <1>1 DEF CheckAtEntry
  <2>3. Control' /\ phase' \in {"entry", "checked"}
    BY <1>0, <2>1, <2>2, CheckControls
  <2> QED
    BY <1>1, <1>c, <2>3 DEF CheckAtEntry, clock
<1>2. CASE GiveAway
  <2>1. ClockExact'
    BY <1>0, <1>2, ReckonAccounts DEF Inv, GiveAway, Forfeit
  <2> QED
    BY <1>2, <2>1 DEF Inv, Control, GiveAway, cpu
<1>3. CASE exception_interrupt
  <2>1. CYC_INTERRUPT \in Int
    BY CostAssumption
  <2> QED
    BY <1>3, <1>c, <2>1 DEF Inv, Control, exception_interrupt, Use, Onward
<1>4. CASE InvalidVector
  BY <1>4, <1>c DEF Inv, Control, InvalidVector, Onward, cpu, clock
<1>5. ASSUME NEW op \in Ops, NEW cost \in Costs, Fetch(op, cost)
      PROVE  Control' /\ StoppedRunsNothing' /\ ClockExact'
  BY <1>5, <1>c DEF Inv, Control, Fetch, cpu, clock
<1>6. CASE Plain
  BY <1>6, <1>c DEF Inv, Control, Plain, Executing, cpu, clock
<1>7. CASE PrivilegeViolation
  <2>1. CYC_PRIVILEGE \in Int
    BY CostAssumption
  <2> QED
    BY <1>7, <1>c, <2>1 DEF Inv, Control, PrivilegeViolation, Executing, Use
<1>8. CASE BusError
  <2>1. CYC_BUS_ERROR \in Int
    BY CostAssumption
  <2> QED
    BY <1>8, <1>c, <2>1 DEF Inv, Control, BusError, Executing, Use
<1>9. CASE AddressError
  <2>1. CYC_ADDRESS_ERROR \in Int
    BY CostAssumption
  <2> QED
    BY <1>9, <1>c, <2>1 DEF Inv, Control, AddressError, Executing, Use
<1>10. CASE Charge
  <2>1. Left \in Int /\ (ir.op = "stop" => Left <= ir.cost)
    BY <1>0, StopLeavesItsCost
  <2>2. ClockExact'
    BY <1>10, <1>c, <2>1 DEF Charge
  <2>3. "STOP" \in stopped => phase' = "idle"
    BY <1>10, <1>c, <2>1 DEF Inv, Control, Charge
  <2> QED
    BY <1>10, <2>2, <2>3 DEF Inv, Control, Charge, cpu
<1>11. ASSUME NEW mask \in Levels, NEW s \in BOOLEAN, LoadSR(mask, s)
       PROVE  Control' /\ StoppedRunsNothing' /\ ClockExact'
  <2> DEFINE stops == IF ir.op = "stop" THEN stopped \cup {"STOP"} ELSE stopped
  <2>1. /\ stops \in SUBSET {"STOP", "HALT"} /\ check_interrupts(stops, mask)
        /\ phase = "exec" /\ ack = 0 /\ ir' = ir
        /\ "STOP" \in stops => ir.op = "stop"
    BY <1>0, <1>11 DEF Inv, TypeOK, LoadSR, Executing
  <2> HIDE DEF stops
  <2>2. Control' /\ (phase' = "exec" => "STOP" \notin stopped')
        /\ phase' \in {"entry", "exec", "checked", "charge"}
    BY <1>0, <2>1, CheckControls
  <2> QED
    BY <1>11, <1>c, <2>2 DEF LoadSR, clock
<1> QED
  BY <1>1, <1>2, <1>3, <1>4, <1>5, <1>6, <1>7, <1>8, <1>9, <1>10, <1>11 DEF Step

\* So does the host, whatever it calls.
LEMMA HostKeepsInv == Inv /\ (CallsExecute \/ Host) => Inv'
<1> SUFFICES ASSUME Inv, CallsExecute \/ Host PROVE Inv'
  OBVIOUS
<1>0. TypeOK /\ TypeOK'
  BY HostTypes DEF Inv
<1> SUFFICES Control' /\ StoppedRunsNothing' /\ ClockExact'
  BY <1>0 DEF Inv
<1> USE DEF StoppedRunsNothing, ClockExact
<1>c. initial \in Int /\ cycles \in Int /\ spent \in Int /\ waived \in Int
      /\ initial - cycles = spent - waived
  BY <1>0 DEF Inv, TypeOK
<1>1. ASSUME NEW n \in Slices, m68k_execute(n)
      PROVE  Control' /\ StoppedRunsNothing' /\ ClockExact'
  <2>1. n - reset_cycles \in Int
    BY <1>0, CostAssumption DEF TypeOK
  <2>2. ack = 0
    BY <1>1 DEF Inv, Control, m68k_execute
  <2>3. ClockExact'
    BY <1>1, <1>c, <2>1 DEF m68k_execute
  <2> QED
    BY <1>1, <2>2, <2>3 DEF m68k_execute, Control, cpu
<1>2. ASSUME NEW level \in Levels, m68k_set_irq(level)
      PROVE  Control' /\ StoppedRunsNothing' /\ ClockExact'
  BY <1>2, <1>c DEF Inv, Control, m68k_set_irq, clock, control
<1>3. ASSUME NEW level \in Lines, NEW active \in BOOLEAN, m68k_set_virq(level, active)
      PROVE  Control' /\ StoppedRunsNothing' /\ ClockExact'
  BY <1>3, <1>c DEF Inv, Control, m68k_set_virq, clock, control
<1>4. CASE m68k_pulse_halt
  BY <1>4, <1>c DEF Inv, Control, m68k_pulse_halt, clock, control
<1>5. CASE m68k_pulse_reset
  <2>1. ClockExact'
    BY <1>0, <1>5, ReckonAccounts DEF Inv, m68k_pulse_reset, Forfeit
  <2> QED
    BY <1>5, <2>1 DEF Inv, Control, m68k_pulse_reset, control
<1>6. ASSUME NEW c \in Deltas, m68k_modify_timeslice(c)
      PROVE  Control' /\ StoppedRunsNothing' /\ ClockExact'
  <2>1. c \in Int
    BY CostAssumption
  <2> QED
    BY <1>6, <1>c, <2>1 DEF Inv, Control, m68k_modify_timeslice, cpu, control
<1>7. CASE m68k_end_timeslice
  BY <1>7, <1>c DEF Inv, Control, m68k_end_timeslice, cpu, control
<1> QED
  BY <1>1, <1>2, <1>3, <1>4, <1>5, <1>6, <1>7 DEF CallsExecute, Host

\* The invariant holds in every behaviour.
LEMMA Invariance == Spec => []Inv
<1>1. Init => Inv
  <2>1. ASSUME Init PROVE Control /\ StoppedRunsNothing /\ ClockExact
    BY <2>1 DEF Init, Control, StoppedRunsNothing, ClockExact
  <2> QED
    BY <2>1, InitTypes DEF Inv
<1>2. Inv /\ [Next]_vars => Inv'
  <2>1. Inv /\ UNCHANGED vars => Inv'
    BY DEF Inv, TypeOK, Control, StoppedRunsNothing, ClockExact, vars, cpu,
           clock, control, host
  <2> QED
    BY <2>1, StepKeepsInv, HostKeepsInv DEF Next
<1> QED
  BY <1>1, <1>2, PTL DEF Spec

\* No instruction runs between a STOP and the interrupt or reset that wakes it.
THEOREM StopHolds == Spec => []StoppedRunsNothing
<1>1. Inv => StoppedRunsNothing
  BY DEF Inv
<1> QED
  BY <1>1, Invariance, PTL

\* What m68k_execute returns is what the slice was charged, less what the count
\* was forgiven, whatever callbacks, STOP, resets, halts and bus errors do.
THEOREM ClockIsExact == Spec => []ClockExact
<1>1. Inv => ClockExact
  BY DEF Inv
<1> QED
  BY <1>1, Invariance, PTL

\* m68k_cycles_run never claims cycles that were not charged.
THEOREM NoPhantomCycles == Spec => []ClockNeverAhead
<1>1. Inv => ClockNeverAhead
  BY DEF Inv, TypeOK, ClockExact, ClockNeverAhead
<1> QED
  BY <1>1, Invariance, PTL

----------------------------------------------------------------------------
(* The interrupt lines.                                                    *)

\* The core's idea of the line is the host's, an NMI raised during another one's
\* acknowledge is raised while that is taken, and every rise to 7 is accounted.
LinesAgree == int_level = line /\ ("during" \in owed => ack = 7) /\ NMIAccounted

\* A check consumes a pending NMI only to take it, or because the CPU is halted.
LEMMA CheckAccounts ==
  ASSUME TypeOK, LinesAgree, ack = 0, NEW stops, NEW mask, check_interrupts(stops, mask),
         int_level' = int_level, line' = line, owed' = owed
  PROVE  LinesAgree'
<1>1. "during" \notin owed /\ owed \subseteq {"before", "during"}
  BY DEF TypeOK, LinesAgree
<1> USE DEF LinesAgree, NMIAccounted, check_interrupts
<1>2. CASE ~Due(mask)
  BY <1>1, <1>2 DEF TypeOK, Due
<1>3. CASE Due(mask) /\ "HALT" \in stops
  BY <1>1, <1>3
<1>4. CASE Due(mask) /\ "HALT" \notin stops
  BY <1>1, <1>4 DEF DueLevel
<1> QED
  BY <1>2, <1>3, <1>4

\* An acknowledge that ends leaves owed what was raised during it, and what it was
\* made for if its exception is not entered.
LEMMA AnswerAccounts ==
  ASSUME TypeOK, LinesAgree, ack # 0, NEW entered \in BOOLEAN, Answered(entered),
         ack' = 0, nmi_pending' = nmi_pending, int_level' = line'
  PROVE  LinesAgree'
<1>1. owed \subseteq {"before", "during"}
  BY DEF TypeOK
<1> USE DEF LinesAgree, NMIAccounted, Answered
<1>2. CASE ack # 7
  BY <1>1, <1>2
<1>3. CASE ack = 7
  BY <1>1, <1>3
<1> QED
  BY <1>2, <1>3

\* Driving the line to a level records a rise to 7, and only that.
LEMMA DriveAccounts ==
  ASSUME TypeOK, LinesAgree, NEW level, Drive(level), Drove(level), ack' = ack
  PROVE  LinesAgree'
<1> USE DEF LinesAgree, NMIAccounted
<1>1. CASE line # 7 /\ level = 7
  <2>1. int_level' = line' /\ nmi_pending'
    BY <1>1 DEF Drive, Drove
  <2>2. owed' = owed \cup {IF ack = 7 THEN "during" ELSE "before"}
    BY <1>1 DEF Drove
  <2>3. (IF ack' = 7 THEN "during" ELSE "before") \in owed' /\ ("during" \in owed' => ack' = 7)
    BY <2>2
  <2> QED
    BY <2>1, <2>3
<1>2. CASE ~(line # 7 /\ level = 7)
  BY <1>2 DEF TypeOK, Drive, Drove
<1> QED
  BY <1>1, <1>2

\* Every step keeps the lines in agreement.
LEMMA LinesKept == TypeOK /\ LinesAgree /\ [Next]_vars => LinesAgree'
<1> SUFFICES ASSUME TypeOK, LinesAgree, [Next]_vars PROVE LinesAgree'
  OBVIOUS
<1>0. ASSUME UNCHANGED <<int_level, nmi_pending, ack, line, owed, missed>> PROVE LinesAgree'
  BY <1>0 DEF LinesAgree, NMIAccounted
<1>1. CASE CheckAtEntry
  BY <1>1, CheckAccounts DEF CheckAtEntry
<1>2. CASE GiveAway
  BY <1>0, <1>2 DEF GiveAway, cpu, host
<1>3. CASE exception_interrupt
  <2>1. int_level' = line'
    BY <1>3 DEF exception_interrupt, LinesAgree
  <2> QED
    BY <1>3, <2>1, AnswerAccounts DEF exception_interrupt
<1>4. CASE InvalidVector
  <2>1. int_level' = line'
    BY <1>4 DEF InvalidVector, LinesAgree, cpu
  <2> QED
    BY <1>4, <2>1, AnswerAccounts DEF InvalidVector, cpu
<1>5. ASSUME NEW op \in Ops, NEW cost \in Costs, Fetch(op, cost) PROVE LinesAgree'
  BY <1>0, <1>5 DEF Fetch, cpu, host
<1>6. CASE Plain
  BY <1>0, <1>6 DEF Plain, cpu, host
<1>7. CASE PrivilegeViolation
  BY <1>0, <1>7 DEF PrivilegeViolation, host
<1>8. CASE BusError
  BY <1>0, <1>8 DEF BusError, host
<1>9. CASE AddressError
  BY <1>0, <1>9 DEF AddressError, host
<1>10. CASE Charge
  BY <1>0, <1>10 DEF Charge, cpu, host
<1>11. ASSUME NEW mask \in Levels, NEW s \in BOOLEAN, LoadSR(mask, s) PROVE LinesAgree'
  BY <1>11, CheckAccounts DEF LoadSR, Executing
<1>12. ASSUME NEW n \in Slices, m68k_execute(n) PROVE LinesAgree'
  BY <1>0, <1>12 DEF m68k_execute, cpu, host
<1>13. ASSUME NEW level \in Levels, m68k_set_irq(level) PROVE LinesAgree'
  BY <1>13, DriveAccounts DEF m68k_set_irq, control
<1>14. ASSUME NEW level \in Lines, NEW active \in BOOLEAN, m68k_set_virq(level, active)
       PROVE  LinesAgree'
  BY <1>14, DriveAccounts DEF m68k_set_virq, control
<1>15. CASE m68k_pulse_halt
  BY <1>0, <1>15 DEF m68k_pulse_halt, control, host
<1>16. CASE m68k_pulse_reset
  BY <1>16 DEF m68k_pulse_reset, control, LinesAgree, NMIAccounted
<1>17. ASSUME NEW c \in Deltas, m68k_modify_timeslice(c) PROVE LinesAgree'
  BY <1>0, <1>17 DEF m68k_modify_timeslice, cpu, control, host
<1>18. CASE m68k_end_timeslice
  BY <1>0, <1>18 DEF m68k_end_timeslice, cpu, control, host
<1>19. CASE UNCHANGED vars
  BY <1>0, <1>19 DEF vars, cpu, control, host
<1> QED
  BY <1>1, <1>2, <1>3, <1>4, <1>5, <1>6, <1>7, <1>8, <1>9, <1>10, <1>11, <1>12, <1>13,
     <1>14, <1>15, <1>16, <1>17, <1>18, <1>19 DEF Next, Step, CallsExecute, Host

\* An NMI is pending only for a rise of the line whose exception was not entered,
\* and no rise is forgotten unless it meets a halted CPU or an invalid vector,
\* whether or not the acknowledge clears the request.
THEOREM NMIsAccounted == Spec => []NMIAccounted
<1>1. Init => LinesAgree
  BY DEF Init, LinesAgree, NMIAccounted
<1>2. TypeOK /\ LinesAgree /\ [Next]_vars => LinesAgree'
  BY LinesKept
<1>3. LinesAgree => NMIAccounted
  BY DEF LinesAgree
<1> QED
  BY <1>1, <1>2, <1>3, TypeCorrect, PTL DEF Spec

----------------------------------------------------------------------------
(* A slice that is forgiven nothing.                                       *)

Awake == /\ ack # 0 => phase \in {"entry", "exec"}
         /\ phase \in {"loop", "exec", "charge"} \/ ack # 0 => stopped = {}
         /\ phase \in {"entry", "checked"} /\ stopped # {} => cycles >= 0

Unforgiven == /\ TypeOK /\ Awake /\ ir.op # "stop"
              /\ phase # "idle" => waived = 0

\* Without STOP, and without a halt or a reset from a callback, no step of a slice
\* waives a cycle, the last one included.
LEMMA UnforgivenStep ==
  ASSUME "stop" \notin Ops, CallbackCalls \subseteq {"irq", "slice"}
  PROVE  Unforgiven /\ [Next]_vars => Unforgiven' /\ (phase # "idle" => waived' = 0)
<1> SUFFICES ASSUME Unforgiven, [Next]_vars
             PROVE  Unforgiven' /\ (phase # "idle" => waived' = 0)
  OBVIOUS
<1> DEFINE Goal == /\ Awake' /\ ir'.op # "stop"
                   /\ phase' # "idle" \/ phase # "idle" => waived' = 0
<1>0. TypeOK'
  <2>1. TypeOK /\ UNCHANGED vars => TypeOK'
    BY DEF TypeOK, vars, cpu, clock, control, host
  <2> QED
    BY <2>1, StepTypes, HostTypes DEF Unforgiven, Next
<1> SUFFICES Goal
  BY <1>0 DEF Unforgiven
<1>c. /\ waived \in Int /\ cycles \in Int /\ spent \in Int /\ ir.cost \in Int
      /\ reset_cycles \in Int /\ reset_cycles >= 0
  BY CostIsPositive, CostAssumption DEF Unforgiven, TypeOK
<1>k. /\ CYC_INTERRUPT \in Int /\ CYC_PRIVILEGE \in Int /\ CYC_BUS_ERROR \in Int
      /\ CYC_ADDRESS_ERROR \in Int
  BY CostAssumption
<1>s. /\ stopped \subseteq {"STOP", "HALT"}
      /\ ~InCallback("halt") /\ ~InCallback("reset")
  BY DEF Unforgiven, TypeOK, InCallback
<1> USE DEF Unforgiven, Awake
<1>1. CASE CheckAtEntry
  BY <1>1, <1>c, <1>s DEF CheckAtEntry, check_interrupts, Onward, clock
<1>2. CASE GiveAway
  BY <1>2, <1>c DEF GiveAway, Forfeit, Reckon, cpu
<1>3. CASE exception_interrupt
  BY <1>3, <1>c, <1>k DEF exception_interrupt, Use, Onward
<1>4. CASE InvalidVector
  BY <1>4, <1>c DEF InvalidVector, Onward, cpu, clock
<1>5. ASSUME NEW op \in Ops, NEW cost \in Costs, Fetch(op, cost) PROVE Goal
  BY <1>5, <1>c DEF Fetch, cpu, clock
<1>6. CASE Plain
  BY <1>6, <1>c DEF Plain, Executing, cpu, clock
<1>7. CASE PrivilegeViolation
  <2>1. ir' = [ir EXCEPT !.op = "plain"] /\ ir \in [op : Ops \cup {"plain"}, cost : Costs]
    BY <1>7 DEF PrivilegeViolation, TypeOK
  <2>2. ir'.op # "stop"
    BY <2>1
  <2> QED
    BY <1>7, <1>c, <1>k, <2>2 DEF PrivilegeViolation, Executing, Use
<1>8. CASE BusError
  BY <1>8, <1>c, <1>k DEF BusError, Executing, Use
<1>9. CASE AddressError
  BY <1>9, <1>c, <1>k DEF AddressError, Executing, Use
<1>10. CASE Charge
  BY <1>10, <1>c DEF Charge, Left, cpu
<1>11. ASSUME NEW mask \in Levels, NEW s \in BOOLEAN, LoadSR(mask, s) PROVE Goal
  BY <1>11, <1>c, <1>s DEF LoadSR, Executing, check_interrupts, Onward, clock
<1>12. ASSUME NEW n \in Slices, m68k_execute(n) PROVE Goal
  <2>1. n \in Int /\ n >= 0
    BY CostAssumption
  <2> QED
    BY <1>12, <1>c, <2>1 DEF m68k_execute, cpu
<1>13. ASSUME NEW level \in Levels, m68k_set_irq(level) PROVE Goal
  BY <1>13, <1>c DEF m68k_set_irq, clock, control
<1>14. ASSUME NEW level \in Lines, NEW active \in BOOLEAN, m68k_set_virq(level, active)
       PROVE  Goal
  BY <1>14, <1>c DEF m68k_set_virq, clock, control
<1>15. CASE m68k_pulse_halt
  BY <1>15, <1>c, <1>s DEF m68k_pulse_halt, HostRuns, clock, control
<1>16. CASE m68k_pulse_reset
  BY <1>16, <1>c, <1>s DEF m68k_pulse_reset, HostRuns, control
<1>17. ASSUME NEW c \in Deltas, m68k_modify_timeslice(c) PROVE Goal
  <2>1. c \in Int
    BY CostAssumption
  <2> QED
    BY <1>17, <1>c, <2>1 DEF m68k_modify_timeslice, InCallback, cpu, control
<1>18. CASE m68k_end_timeslice
  BY <1>18, <1>c DEF m68k_end_timeslice, InCallback, cpu, control
<1>19. CASE UNCHANGED vars
  BY <1>19, <1>c DEF vars, cpu, clock, control
<1> QED
  BY <1>1, <1>2, <1>3, <1>4, <1>5, <1>6, <1>7, <1>8, <1>9, <1>10, <1>11, <1>12, <1>13,
     <1>14, <1>15, <1>16, <1>17, <1>18, <1>19 DEF Next, Step, CallsExecute, Host

\* A program without STOP, on a host that neither halts nor resets the CPU from
\* a callback, is told exactly the cycles it was charged: none is forgiven.
THEOREM NothingWaived ==
  ASSUME "stop" \notin Ops, CallbackCalls \subseteq {"irq", "slice"}
  PROVE  Spec => [][phase # "idle" => waived' = 0]_vars
<1>1. Init => Unforgiven
  <2>1. ASSUME Init PROVE ir.op = "plain"
    BY <2>1 DEF Init
  <2> QED
    BY <2>1, InitTypes DEF Init, Unforgiven, Awake
<1>2. Unforgiven /\ [Next]_vars => Unforgiven' /\ (phase # "idle" => waived' = 0)
  BY UnforgivenStep
<1> QED
  BY <1>1, <1>2, PTL DEF Spec

----------------------------------------------------------------------------
(* The clock goes forward.                                                 *)

\* A privilege violation charges no less than nothing: its instruction is no
\* dearer than the exception.
Cheap == ir.op \in {"sr", "stop"} => ir.cost <= CYC_PRIVILEGE

\* No step of a running slice takes back what was charged, but a bus error's.
LEMMA ChargesOnly ==
  ASSUME TypeOK, Cheap, [Next]_vars, phase # "idle", phase = "exec" => ir.op # "berr"
  PROVE  spent' >= spent
<1>c. /\ CYC_INTERRUPT > 0 /\ CYC_PRIVILEGE > 0 /\ CYC_ADDRESS_ERROR > 0
      /\ CYC_INTERRUPT \in Int /\ CYC_PRIVILEGE \in Int /\ CYC_ADDRESS_ERROR \in Int
  BY CostAssumption
<1>t. spent \in Int /\ cycles \in Int /\ ir.cost \in Int /\ ir.cost > 0
  BY CostIsPositive DEF TypeOK
<1>1. CASE CheckAtEntry
  BY <1>1, <1>t DEF CheckAtEntry, clock
<1>2. CASE GiveAway
  BY <1>2, ReckonAccounts DEF GiveAway, Forfeit
<1>3. CASE exception_interrupt
  BY <1>3, <1>c, <1>t DEF exception_interrupt, Use
<1>4. CASE InvalidVector
  BY <1>4, <1>t DEF InvalidVector, clock
<1>5. ASSUME NEW op \in Ops, NEW cost \in Costs, Fetch(op, cost) PROVE spent' >= spent
  BY <1>5, <1>t DEF Fetch, clock
<1>6. CASE Plain
  BY <1>6, <1>t DEF Plain, clock
<1>7. CASE PrivilegeViolation
  BY <1>7, <1>c, <1>t DEF PrivilegeViolation, Executing, Use, Cheap
<1>8. CASE BusError
  BY <1>8, <1>t DEF BusError, Executing
<1>9. CASE AddressError
  BY <1>9, <1>c, <1>t DEF AddressError, Use
<1>10. CASE Charge
  BY <1>10, <1>t, StopLeavesItsCost DEF Charge
<1>11. ASSUME NEW mask \in Levels, NEW s \in BOOLEAN, LoadSR(mask, s) PROVE spent' >= spent
  BY <1>11, <1>t DEF LoadSR, clock
<1>12. ASSUME NEW n \in Slices, m68k_execute(n) PROVE spent' >= spent
  BY <1>12 DEF m68k_execute
<1>13. ASSUME NEW level \in Levels, m68k_set_irq(level) PROVE spent' >= spent
  BY <1>13, <1>t DEF m68k_set_irq, clock
<1>14. ASSUME NEW level \in Lines, NEW active \in BOOLEAN, m68k_set_virq(level, active)
       PROVE  spent' >= spent
  BY <1>14, <1>t DEF m68k_set_virq, clock
<1>15. CASE m68k_pulse_halt
  BY <1>15, <1>t DEF m68k_pulse_halt, clock
<1>16. CASE m68k_pulse_reset
  BY <1>16, ReckonAccounts DEF m68k_pulse_reset, Forfeit
<1>17. ASSUME NEW c \in Deltas, m68k_modify_timeslice(c) PROVE spent' >= spent
  BY <1>17, <1>t DEF m68k_modify_timeslice
<1>18. CASE m68k_end_timeslice
  BY <1>18, <1>t DEF m68k_end_timeslice
<1>19. CASE UNCHANGED vars
  BY <1>19, <1>t DEF vars, clock
<1> QED
  BY <1>1, <1>2, <1>3, <1>4, <1>5, <1>6, <1>7, <1>8, <1>9, <1>10, <1>11, <1>12, <1>13,
     <1>14, <1>15, <1>16, <1>17, <1>18, <1>19 DEF Next, Step, CallsExecute, Host

\* m68k_cycles_run goes back, while a slice runs, only by what a count below 0 is
\* forgiven and by the instruction of a bus error. In the program's tables no
\* instruction that may violate the privilege costs more than that exception: at most
\* 24, 36 and 20 cycles on a 68000, 68010 and 68020 against 34, 38 and 34.
THEOREM ClockNeverGoesBack == Spec /\ []Cheap => ClockMonotone
<1>1. ASSUME Inv, Inv', Cheap, [Next]_vars, phase # "idle", phase = "exec" => ir.op # "berr"
      PROVE  initial' - cycles' >= initial - cycles - (waived' - waived)
  <2>1. spent' >= spent
    BY <1>1, ChargesOnly DEF Inv
  <2>2. initial - cycles = spent - waived /\ initial' - cycles' = spent' - waived'
    BY <1>1 DEF Inv, ClockExact
  <2>3. /\ spent \in Int /\ waived \in Int /\ spent' \in Int /\ waived' \in Int
    BY <1>1 DEF Inv, TypeOK
  <2> QED
    BY <2>1, <2>2, <2>3
<1>2. Inv /\ Inv' /\ Cheap /\ [Next]_vars
        => [(phase = "exec" => ir.op # "berr") /\ phase # "idle"
              => initial' - cycles' >= initial - cycles - (waived' - waived)]_vars
  BY <1>1
<1> QED
  BY <1>2, Invariance, PTL DEF Spec, ClockMonotone
=============================================================================
