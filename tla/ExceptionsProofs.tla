-------------------------- MODULE ExceptionsProofs --------------------------
(***************************************************************************)
(* Theorems about Exceptions: types; the three stacks stay apart when no   *)
(* push faults; the user stack pointer is kept even when pushes do fault;  *)
(* nested exceptions keep each other's frames and return where they began. *)
(***************************************************************************)
EXTENDS Exceptions, SequenceTheorems, TLAPS

Formats == {0, 1, 2, 7, 8, 11}
RegSet == [sr : SR, sp : Pointer, base : [Stacks -> Pointer]]
Contexts == [sr : SR, pointers : [Stacks -> Pointer], pc : PC, at : Pointer]

\* Stack discipline of a register set.
Apart(r) == \A b \in Stacks : Pointers(r)[b].stack = b

\* A frame lies above its stack's base by its own length at least, and what a
\* throwaway frame selects is a supervisor stack.
FrameOK(p, f) == /\ p \in Pointer /\ f \in Frame
                 /\ p.words >= Length[f.format]
                 /\ f.format = 1 => f.sr.s
MemOK(m) == \A p \in DOMAIN m : FrameOK(p, m[p])

IInv == /\ cpu_type \in CPUs
        /\ Regs \in RegSet
        /\ pc \in PC
        /\ MemOK(mem)
        /\ halted \in BOOLEAN /\ slice \in BOOLEAN
        /\ saved \in Seq(Contexts)

----------------------------------------------------------------------------
(* Register sets.                                                          *)

\* Every frame has between 3 and 46 words.
LEMMA LengthType == \A f \in Formats : Length[f] \in Nat /\ Length[f] >= 3
  BY DEF Length, Formats

\* The bank of a status register is a stack.
LEMMA BankType == \A s \in SR : Bank(s) \in Stacks
  BY DEF Bank, Stacks

\* The three pointers are pointers.
LEMMA PointersType ==
  ASSUME NEW r \in RegSet
  PROVE  /\ Pointers(r) \in [Stacks -> Pointer]
         /\ Pointers(r)[Bank(r.sr)] = r.sp
         /\ \A b \in Stacks : b # Bank(r.sr) => Pointers(r)[b] = r.base[b]
<1>1. r.sr \in SR /\ r.sp \in Pointer /\ r.base \in [Stacks -> Pointer]
  BY DEF RegSet
<1>2. Bank(r.sr) \in Stacks
  BY <1>1, BankType
<1> QED BY <1>1, <1>2 DEF Pointers

\* m68ki_set_sm_flag loses none of the three pointers.
LEMMA Switch ==
  ASSUME NEW r \in RegSet, NEW s \in SR
  PROVE  /\ set_sm_flag(r, s) \in RegSet
         /\ set_sm_flag(r, s).sr = s
         /\ Pointers(set_sm_flag(r, s)) = Pointers(r)
<1> DEFINE backed == [r.base EXCEPT ![Bank(r.sr)] = r.sp]
           t == set_sm_flag(r, s)
<1>1. backed = Pointers(r) /\ backed \in [Stacks -> Pointer]
  BY PointersType DEF Pointers
<1>2. Bank(s) \in Stacks
  BY BankType
<1>3. t = [sr |-> s, sp |-> backed[Bank(s)], base |-> backed]
  BY DEF set_sm_flag
<1>4. t.sr = s /\ t.sp = backed[Bank(s)] /\ t.base = backed
  BY <1>3
<1> HIDE DEF backed, t
<1>5. t \in RegSet
  BY <1>1, <1>2, <1>3 DEF RegSet
<1>6. Pointers(t) = backed
  BY <1>1, <1>2, <1>4 DEF Pointers
<1> QED BY <1>1, <1>4, <1>5, <1>6 DEF t

\* Entering supervisor state loses none either, and keeps M and the mask.
LEMMA Enter ==
  ASSUME NEW r \in RegSet
  PROVE  /\ init_exception(r) \in RegSet
         /\ init_exception(r).sr = [r.sr EXCEPT !.s = TRUE]
         /\ init_exception(r).sr.s = TRUE
         /\ Pointers(init_exception(r)) = Pointers(r)
<1>1. r.sr \in SR
  BY DEF RegSet
<1>2. [r.sr EXCEPT !.s = TRUE] \in SR /\ [r.sr EXCEPT !.s = TRUE].s = TRUE
  BY <1>1 DEF SR
<1> QED BY <1>2, Switch DEF init_exception

\* A change of A7's depth moves one pointer, within its stack.
LEMMA Moved ==
  ASSUME NEW r \in RegSet, NEW n \in Int, r.sp.words + n \in Nat
  PROVE  LET t == [r EXCEPT !.sp = Below(@, n)] IN
         /\ t \in RegSet
         /\ t.sr = r.sr /\ t.sp.words = r.sp.words + n
         /\ r.sr.s => Pointers(t)["USP"] = Pointers(r)["USP"]
         /\ Apart(r) => Apart(t)
<1> DEFINE t == [r EXCEPT !.sp = Below(@, n)]
<1>1. r.sr \in SR /\ r.sp \in Pointer /\ r.base \in [Stacks -> Pointer]
  BY DEF RegSet
<1>2. Below(r.sp, n) \in Pointer /\ Below(r.sp, n).stack = r.sp.stack
        /\ Below(r.sp, n).words = r.sp.words + n
  BY <1>1 DEF Below, Pointer
<1>3. t.sr = r.sr /\ t.sp = Below(r.sp, n) /\ t.base = r.base
  BY DEF RegSet
<1>4. t \in RegSet
  BY <1>1, <1>2 DEF RegSet
<1>5. t.sp.words = r.sp.words + n
  BY <1>2, <1>3
<1> HIDE DEF t
<1>6. r.sr.s => Pointers(t)["USP"] = Pointers(r)["USP"]
  <2>1. r.sr.s => Bank(r.sr) # "USP"
    BY DEF Bank
  <2>2. "USP" \in Stacks
    BY DEF Stacks
  <2> QED BY <1>3, <1>4, <2>1, <2>2, PointersType
<1>7. Apart(r) => Apart(t)
  <2> SUFFICES ASSUME Apart(r), NEW b \in Stacks
               PROVE  Pointers(t)[b].stack = b
    BY DEF Apart
  <2>1. CASE b = Bank(r.sr)
    BY <1>2, <1>3, <1>4, <2>1, PointersType DEF Apart
  <2>2. CASE b # Bank(r.sr)
    BY <1>3, <1>4, <2>2, PointersType DEF Apart
  <2> QED BY <2>1, <2>2
<1> QED BY <1>3, <1>4, <1>5, <1>6, <1>7 DEF t

\* Pushing a frame.
LEMMA Pushed ==
  ASSUME NEW r \in RegSet, NEW f \in Formats
  PROVE  /\ Push(r, f) \in RegSet
         /\ Push(r, f).sr = r.sr
         /\ Push(r, f).sp.words = r.sp.words + Length[f]
         /\ r.sr.s => Pointers(Push(r, f))["USP"] = Pointers(r)["USP"]
         /\ Apart(r) => Apart(Push(r, f))
<1>1. Length[f] \in Nat
  BY LengthType
<1>2. r.sp.words \in Nat
  BY DEF RegSet, Pointer
<1>3. r.sp.words + Length[f] \in Nat
  BY <1>1, <1>2
<1> HIDE DEF Formats
<1> QED BY <1>1, <1>3, Moved DEF Push

\* Taking one off, where there is one.
LEMMA Pulled ==
  ASSUME NEW r \in RegSet, NEW f \in Formats, r.sp.words >= Length[f]
  PROVE  /\ Pull(r, f) \in RegSet
         /\ Pull(r, f).sr = r.sr
         /\ r.sr.s => Pointers(Pull(r, f))["USP"] = Pointers(r)["USP"]
         /\ Apart(r) => Apart(Pull(r, f))
<1> DEFINE n == -(IF cpu_type = "000" THEN 3 ELSE Length[f])
<1>1. Length[f] \in Nat /\ Length[f] >= 3
  BY LengthType
<1>2. r.sp.words \in Nat
  BY DEF RegSet, Pointer
<1>3. n \in Int /\ r.sp.words + n \in Nat
  BY <1>1, <1>2
<1>4. Pull(r, f) = [r EXCEPT !.sp = Below(@, n)]
  BY DEF Pull
<1> HIDE DEF n
<1> QED BY <1>3, <1>4, Moved

----------------------------------------------------------------------------
(* Memory.                                                                 *)

\* The memory a push leaves holds well-formed frames.
LEMMA StackedOK ==
  ASSUME NEW m, MemOK(m), NEW q, NEW f, FrameOK(q, f)
  PROVE  MemOK(Stacked(m, q, f))
<1> DEFINE kept == {p \in DOMAIN m : ~Overlaps(p, Length[m[p].format], q, Length[f.format])}
<1>1. Stacked(m, q, f) = [p \in kept \cup {q} |-> IF p = q THEN f ELSE m[p]]
  BY DEF Stacked
<1>2. kept \subseteq DOMAIN m
  OBVIOUS
<1> HIDE DEF kept
<1> QED BY <1>1, <1>2 DEF MemOK

\* So does forgetting frames.
LEMMA LiveOK ==
  ASSUME NEW r, NEW m, MemOK(m)
  PROVE  MemOK(Live(r, m))
  BY DEF MemOK, Live

\* The registers and the memory of a step are those it loads.
LEMMA Loaded ==
  ASSUME NEW r \in RegSet, NEW m, MemOK(m), cpu_type \in CPUs, Load(r, m)
  PROVE  /\ Regs' = r
         /\ MemOK(mem)'
         /\ cpu_type' = cpu_type /\ cpu_type' \in CPUs
<1>1. r = [sr |-> r.sr, sp |-> r.sp, base |-> r.base]
  BY DEF RegSet
<1>2. Regs' = r
  BY <1>1 DEF Load, Regs
<1>3. cpu_type' = cpu_type
  BY DEF Load
<1>4. Length' = Length
  BY <1>3 DEF Length
<1>5. mem' = Live(r, m) /\ MemOK(Live(r, m))
  BY LiveOK DEF Load
<1>6. MemOK(mem)'
  BY <1>4, <1>5 DEF MemOK, FrameOK
<1> QED BY <1>2, <1>3, <1>6

\* The registers of the moment.
LEMMA RegsType == Regs \in RegSet <=> sr \in SR /\ sp \in Pointer /\ base \in [Stacks -> Pointer]
  BY DEF Regs, RegSet

\* A change of the mask moves no pointer.
LEMMA Masked ==
  ASSUME NEW r \in RegSet, NEW k \in Masks
  PROVE  /\ [r EXCEPT !.sr.mask = k] \in RegSet
         /\ Pointers([r EXCEPT !.sr.mask = k]) = Pointers(r)
         /\ [r EXCEPT !.sr.mask = k].sr.s = r.sr.s
<1> DEFINE s == [r.sr EXCEPT !.mask = k]
           t == [r EXCEPT !.sr.mask = k]
<1>1. r.sr \in SR /\ r.sp \in Pointer /\ r.base \in [Stacks -> Pointer]
  BY DEF RegSet
<1>2. s \in SR /\ s.s = r.sr.s /\ s.m = r.sr.m
  BY <1>1 DEF SR
<1>3. t = [sr |-> s, sp |-> r.sp, base |-> r.base]
  BY DEF RegSet
<1>4. t.sr = s /\ t.sp = r.sp /\ t.base = r.base
  BY <1>3
<1> HIDE DEF s, t
<1>5. t \in RegSet
  BY <1>1, <1>2, <1>3 DEF RegSet
<1>6. Pointers(t) = Pointers(r)
  BY <1>2, <1>4 DEF Pointers, Bank
<1> QED BY <1>2, <1>4, <1>5, <1>6 DEF t

----------------------------------------------------------------------------
(* Steps.                                                                  *)

\* An exception pushes a known format, and not a throwaway one.
LEMMA FormatType == ASSUME NEW kind PROVE Format(kind) \in Formats /\ Format(kind) # 1
  BY DEF Format, Formats

\* The context an exception records.
LEMMA ContextType ==
  ASSUME Regs \in RegSet, NEW where \in PC, NEW at \in Pointer
  PROVE  Context(where, at) \in Contexts
<1>1. sr \in SR /\ Pointers(Regs) \in [Stacks -> Pointer]
  BY RegsType, PointersType
<1> QED BY <1>1 DEF Context, Contexts

\* What a step does to the invariant, the user stack pointer and the stacks.
Keeps(r) == /\ IInv'
            /\ Pointers(Regs')["USP"] = Pointers(r)["USP"]
            /\ Apart(r) => Apart(Regs')

\* An exception from any register set keeps the user stack pointer of that set.
LEMMA TakeKeeps ==
  ASSUME IInv, NEW r \in RegSet, NEW kind, NEW where \in PC, NEW mask \in Masks,
         Take(r, kind, where, mask)
  PROVE  Keeps(r)
<1> DEFINE e == init_exception(r)
           f == Format(kind)
           entered == Push(e, f)
           frame == [format |-> f, sr |-> r.sr, pc |-> where]
           loaded == [entered EXCEPT !.sr.mask = mask]
           m == Stacked(mem, entered.sp, frame)
<1>1. e \in RegSet /\ e.sr.s /\ Pointers(e) = Pointers(r)
  BY Enter
<1>2. f \in Formats /\ f # 1
  BY FormatType
<1>3. /\ entered \in RegSet /\ entered.sp.words = e.sp.words + Length[f]
      /\ Pointers(entered)["USP"] = Pointers(e)["USP"]
      /\ Apart(e) => Apart(entered)
  BY <1>1, <1>2, Pushed
<1>4. FrameOK(entered.sp, frame)
  <2>1. e.sp.words \in Nat /\ entered.sp \in Pointer /\ r.sr \in SR
    BY <1>1, <1>3 DEF RegSet, Pointer
  <2>2. frame \in Frame /\ frame.format = f
    BY <1>2, <2>1 DEF Frame, Formats
  <2>3. Length[f] \in Nat
    BY <1>2, LengthType
  <2>4. entered.sp.words >= Length[f]
    BY <1>3, <2>1, <2>3
  <2> QED BY <1>2, <2>1, <2>2, <2>4 DEF FrameOK
<1>5. /\ Load(loaded, m)
      /\ pc' = "handler"
      /\ saved' = Append(saved, Context(where, entered.sp))
      /\ halted' = halted /\ slice' = slice
  BY DEF Take
<1>6. MemOK(m)
  BY <1>4, StackedOK DEF IInv
<1>7. loaded \in RegSet /\ Pointers(loaded) = Pointers(entered)
  BY <1>3, Masked
<1>8. Regs' = loaded /\ MemOK(mem)' /\ cpu_type' \in CPUs
  BY <1>5, <1>6, <1>7, Loaded DEF IInv
<1>9. Context(where, entered.sp) \in Contexts
  BY <1>3, ContextType DEF IInv, RegSet
<1>10. saved' \in Seq(Contexts)
  BY <1>5, <1>9 DEF IInv
<1> HIDE DEF e, f, entered, frame, loaded, m
<1>11. IInv'
  BY <1>5, <1>7, <1>8, <1>10 DEF IInv, PC
<1>12. Pointers(Regs')["USP"] = Pointers(r)["USP"]
  BY <1>1, <1>3, <1>7, <1>8
<1>13. Apart(r) => Apart(Regs')
  BY <1>1, <1>3, <1>7, <1>8 DEF Apart
<1> QED BY <1>11, <1>12, <1>13 DEF Keeps

\* Instructions that load registers and leave memory and exceptions alone.
LEMMA LoadKeeps ==
  ASSUME IInv, NEW r \in RegSet, Load(r, mem), pc' \in PC,
         halted' = halted, slice' = slice, saved' \in Seq(Contexts)
  PROVE  /\ IInv'
         /\ Regs' = r
<1>1. Regs' = r /\ MemOK(mem)' /\ cpu_type' \in CPUs
  BY Loaded DEF IInv
<1> QED BY <1>1 DEF IInv

\* Bus errors, with a second fault or without one: they begin from the A7 of
\* the moment the instruction began.
LEMMA BusErrorKeeps ==
  ASSUME IInv, NEW r \in RegSet, bus_error(r)
  PROVE  Keeps([r EXCEPT !.sp = sp])
<1> DEFINE restored == [r EXCEPT !.sp = sp]
<1>1. sp \in Pointer /\ pc \in PC /\ r.sr.mask \in Masks
  BY RegsType DEF IInv, RegSet, SR
<1>2. restored \in RegSet
  BY <1>1 DEF RegSet
<1> HIDE DEF restored
<1>3. CASE Take(restored, "bus", pc, r.sr.mask)
  BY <1>1, <1>2, <1>3, TakeKeeps DEF restored
<1>4. CASE /\ Load(Push(init_exception(restored), Format("bus")), mem)
           /\ pc' = "handler" /\ halted' = TRUE
           /\ saved' = <<>>
           /\ UNCHANGED slice
  <2> DEFINE e == init_exception(restored)
             f == Format("bus")
             entered == Push(e, f)
  <2>1. e \in RegSet /\ e.sr.s /\ Pointers(e) = Pointers(restored)
    BY <1>2, Enter
  <2>2. f \in Formats
    BY FormatType
  <2>3. /\ entered \in RegSet
        /\ Pointers(entered)["USP"] = Pointers(e)["USP"]
        /\ Apart(e) => Apart(entered)
    BY <2>1, <2>2, Pushed
  <2>4. Regs' = entered /\ MemOK(mem)' /\ cpu_type' \in CPUs
    BY <1>4, <2>3, Loaded DEF IInv
  <2>5. saved' \in Seq(Contexts)
    BY <1>4
  <2> HIDE DEF e, f, entered
  <2>6. IInv'
    BY <1>4, <2>3, <2>4, <2>5 DEF IInv, PC
  <2> QED BY <2>1, <2>3, <2>4, <2>6 DEF Keeps, Apart, restored
<1> QED BY <1>3, <1>4 DEF bus_error, restored

\* The program counter after an instruction.
LEMMA FollowType == \A p \in PC : Follow[p] \in PC
  BY DEF Follow, PC, Programs

\* What an interrupt and a fault in it may start from.
LEMMA Now == ASSUME IInv PROVE /\ Regs \in RegSet /\ Regs.sr = sr /\ Regs.sp = sp /\ Regs.base = base
                               /\ sr \in SR /\ sr.mask \in Masks /\ sp \in Pointer
                               /\ pc \in PC /\ Follow[pc] \in PC
  BY RegsType, FollowType DEF IInv, Regs, SR

\* An interrupt taken on the master stack.
LEMMA ThrowawayKeeps ==
  ASSUME IInv, exception_interrupt, sr.m, EC020_PLUS
  PROVE  Keeps(Regs)
<1> DEFINE e == init_exception(Regs)
           master == Push(e, 0)
           status == [s |-> TRUE, m |-> FALSE, mask |-> 1]
           switched == set_sm_flag(master, status)
           inner == Push(switched, 1)
           frame == [format |-> 0, sr |-> sr, pc |-> pc]
           throwaway == [format |-> 1, sr |-> [sr EXCEPT !.s = TRUE], pc |-> pc]
           m1 == Stacked(mem, master.sp, frame)
           m2 == Stacked(m1, inner.sp, throwaway)
<1>1. /\ Load(inner, m2)
      /\ saved' = Append(saved, Context(pc, inner.sp))
      /\ pc' = "handler" /\ halted' = halted /\ slice' = slice
  BY DEF exception_interrupt
<1>2. e \in RegSet /\ e.sr.s /\ Pointers(e) = Pointers(Regs)
  BY Now, Enter
<1>3. 0 \in Formats /\ 1 \in Formats /\ Length[0] \in Nat /\ Length[1] \in Nat
  BY LengthType DEF Formats
<1>4. /\ master \in RegSet /\ master.sp.words = e.sp.words + Length[0]
      /\ Pointers(master)["USP"] = Pointers(e)["USP"]
      /\ Apart(e) => Apart(master)
  BY <1>2, <1>3, Pushed
<1>5. status \in SR /\ status.s
  BY DEF SR, Masks
<1>6. /\ switched \in RegSet /\ switched.sr = status
      /\ Pointers(switched) = Pointers(master)
  BY <1>4, <1>5, Switch
<1>7. /\ inner \in RegSet /\ inner.sp.words = switched.sp.words + Length[1]
      /\ Pointers(inner)["USP"] = Pointers(switched)["USP"]
      /\ Apart(switched) => Apart(inner)
  BY <1>3, <1>5, <1>6, Pushed
<1>8. e.sp.words \in Nat /\ switched.sp.words \in Nat /\ master.sp \in Pointer /\ inner.sp \in Pointer
  BY <1>2, <1>4, <1>6, <1>7 DEF RegSet, Pointer
<1>9. frame \in Frame /\ frame.format = 0
  BY Now DEF Frame
<1>10. throwaway \in Frame /\ throwaway.format = 1 /\ throwaway.sr.s
  <2>1. [sr EXCEPT !.s = TRUE] \in SR /\ [sr EXCEPT !.s = TRUE].s
    BY Now DEF SR
  <2> QED BY <2>1, Now DEF Frame
<1> HIDE DEF e, master, status, switched, inner, frame, throwaway
<1>11. FrameOK(master.sp, frame)
  BY <1>3, <1>4, <1>8, <1>9 DEF FrameOK
<1>12. FrameOK(inner.sp, throwaway)
  BY <1>3, <1>7, <1>8, <1>10 DEF FrameOK
<1>13. MemOK(m2)
  BY <1>11, <1>12, StackedOK DEF IInv
<1> HIDE DEF m1, m2
<1>14. Regs' = inner /\ MemOK(mem)' /\ cpu_type' \in CPUs
  BY <1>1, <1>7, <1>13, Loaded DEF IInv
<1>15. saved' \in Seq(Contexts)
  <2>1. Context(pc, inner.sp) \in Contexts
    BY <1>8, Now, ContextType
  <2> QED BY <1>1, <2>1 DEF IInv
<1>16. IInv'
  BY <1>1, <1>7, <1>14, <1>15 DEF IInv, PC
<1> QED BY <1>2, <1>4, <1>6, <1>7, <1>14, <1>16 DEF Keeps, Apart

\* Any interrupt.
LEMMA InterruptKeeps == ASSUME IInv, exception_interrupt PROVE Keeps(Regs)
<1>1. CASE sr.m /\ EC020_PLUS
  BY <1>1, ThrowawayKeeps
<1>2. CASE Take(Regs, "interrupt", pc, 1)
  BY <1>2, Now, TakeKeeps DEF Masks
<1> QED BY <1>1, <1>2 DEF exception_interrupt

\* A fault of the program itself begins from the registers of the moment.
LEMMA AccessFaultKeeps == ASSUME IInv, AccessFault PROVE Keeps(Regs)
<1>1. PICK moved \in {0, 1} : bus_error([Regs EXCEPT !.sp = Below(@, moved)])
  BY DEF AccessFault
<1> DEFINE r == [Regs EXCEPT !.sp = Below(@, moved)]
<1>2. r \in RegSet
  <2>1. moved \in Int /\ Regs.sp.words + moved \in Nat
    BY Now DEF Pointer
  <2> QED BY <2>1, Now, Moved
<1>3. [r EXCEPT !.sp = sp] = Regs
  <2>1. r.sr = sr /\ r.base = base
    BY DEF Regs
  <2> HIDE DEF r
  <2>2. [r EXCEPT !.sp = sp] = [sr |-> r.sr, sp |-> sp, base |-> r.base]
    BY <1>2 DEF RegSet
  <2> QED BY <2>1, <2>2 DEF Regs
<1> HIDE DEF r
<1> QED BY <1>1, <1>2, <1>3, BusErrorKeeps DEF r

\* In supervisor state A7 is not the user stack pointer.
LEMMA Supervisor ==
  ASSUME NEW r \in RegSet, r.sr.s, NEW p \in Pointer
  PROVE  Pointers([r EXCEPT !.sp = p])["USP"] = Pointers(r)["USP"]
<1> DEFINE t == [r EXCEPT !.sp = p]
<1>1. t \in RegSet /\ t.sr = r.sr /\ t.base = r.base
  BY DEF RegSet
<1>2. "USP" \in Stacks /\ "USP" # Bank(r.sr)
  BY DEF Stacks, Bank
<1> HIDE DEF t
<1>3. Pointers(t)["USP"] = Pointers(r)["USP"]
  BY <1>1, <1>2, PointersType
<1> QED BY <1>3 DEF t

\* A fault while a frame is pushed keeps the user stack pointer.
LEMMA PushFaultKeeps ==
  ASSUME IInv, PushFault
  PROVE  IInv' /\ Pointers(Regs')["USP"] = Pointers(Regs)["USP"]
<1>1. ASSUME NEW r \in RegSet, r.sr.s, Pointers(r)["USP"] = Pointers(Regs)["USP"], bus_error(r)
      PROVE  IInv' /\ Pointers(Regs')["USP"] = Pointers(Regs)["USP"]
  BY <1>1, BusErrorKeeps, Supervisor, Now DEF Keeps
<1>2. CASE bus_error(init_exception(Regs))
  BY <1>1, <1>2, Now, Enter
<1> DEFINE raised == [Regs EXCEPT !.sr.mask = 1]
           entered == init_exception(raised)
           status == [entered.sr EXCEPT !.m = FALSE]
           inner == set_sm_flag(Push(entered, 0), status)
<1>3. raised \in RegSet /\ Pointers(raised) = Pointers(Regs)
  BY Now, Masked DEF Masks
<1> HIDE DEF raised
<1>4. entered \in RegSet /\ entered.sr.s /\ Pointers(entered) = Pointers(raised)
  BY <1>3, Enter
<1>5. CASE bus_error(entered)
  BY <1>1, <1>3, <1>4, <1>5
<1>6. CASE bus_error(inner)
  <2>1. /\ Push(entered, 0) \in RegSet
        /\ Pointers(Push(entered, 0))["USP"] = Pointers(entered)["USP"]
    BY <1>4, Pushed DEF Formats
  <2>2. status \in SR /\ status.s
    <3>1. entered.sr \in SR
      BY <1>4 DEF RegSet
    <3> HIDE DEF entered
    <3> QED BY <1>4, <3>1 DEF SR
  <2>3. inner \in RegSet /\ inner.sr = status /\ Pointers(inner) = Pointers(Push(entered, 0))
    BY <2>1, <2>2, Switch
  <2> HIDE DEF entered, status, inner
  <2> QED BY <1>1, <1>3, <1>4, <1>6, <2>1, <2>2, <2>3
<1> QED BY <1>2, <1>5, <1>6 DEF PushFault, raised

\* The frame RTE finds, and the registers with which it reaches the one it
\* returns by: past a throwaway frame, still in supervisor state.
LEMMA UnwoundKeeps ==
  ASSUME IInv, AtFrame
  PROVE  /\ FrameOK(sp, mem[sp])
         /\ Unwound \in RegSet /\ Unwound.sr.s
         /\ Pointers(Unwound)["USP"] = Pointers(Regs)["USP"]
         /\ Apart(Regs) => Apart(Unwound)
<1>1. sr.s /\ FrameOK(sp, mem[sp])
  BY DEF AtFrame, IInv, MemOK
<1>2. CASE mem[sp].format = 1
  <2> DEFINE below == Pull(Regs, 1)
  <2>1. 1 \in Formats /\ Regs.sp.words >= Length[1]
    BY <1>1, <1>2, Now DEF FrameOK, Formats
  <2>2. /\ below \in RegSet
        /\ Pointers(below)["USP"] = Pointers(Regs)["USP"]
        /\ Apart(Regs) => Apart(below)
    BY <1>1, <2>1, Now, Pulled
  <2>3. mem[sp].sr \in SR /\ mem[sp].sr.s
    BY <1>1, <1>2 DEF FrameOK, Frame
  <2>4. Unwound = set_sm_flag(below, mem[sp].sr)
    BY <1>2 DEF Unwound
  <2> HIDE DEF below
  <2>5. /\ Unwound \in RegSet /\ Unwound.sr = mem[sp].sr
        /\ Pointers(Unwound) = Pointers(below)
    BY <2>2, <2>3, <2>4, Switch
  <2> QED BY <1>1, <2>2, <2>3, <2>5 DEF Apart
<1>3. CASE mem[sp].format # 1
  BY <1>1, <1>3, Now DEF Unwound
<1> QED BY <1>1, <1>2, <1>3

\* A return.
LEMMA RteKeeps == ASSUME IInv, rte PROVE Keeps(Regs)
<1> DEFINE at == Unwound.sp
           frame == mem[at]
           below == Pull(Unwound, frame.format)
           back == set_sm_flag(below, frame.sr)
<1>1. AtFrame /\ at \in DOMAIN mem
  BY DEF rte
<1>2. /\ Load(back, mem) /\ pc' = frame.pc
      /\ saved' = SubSeq(saved, 1, Len(saved) - 1)
      /\ halted' = halted /\ slice' = slice
  BY DEF rte
<1>3. FrameOK(at, frame)
  BY <1>1 DEF IInv, MemOK
<1>4. frame.format \in Formats /\ frame.sr \in SR /\ frame.pc \in PC
        /\ Unwound.sp.words >= Length[frame.format]
  BY <1>3 DEF FrameOK, Frame, Formats
<1> HIDE DEF at, frame
<1>5. /\ below \in RegSet
      /\ Pointers(below)["USP"] = Pointers(Unwound)["USP"]
      /\ Apart(Unwound) => Apart(below)
  BY <1>1, <1>4, UnwoundKeeps, Pulled
<1> HIDE DEF below
<1>6. back \in RegSet /\ Pointers(back) = Pointers(below)
  BY <1>4, <1>5, Switch
<1> HIDE DEF back
<1>7. saved' \in Seq(Contexts)
  <2>1. saved \in Seq(Contexts) /\ saved # <<>>
    BY <1>1 DEF AtFrame, IInv
  <2>2. Len(saved) \in Nat /\ Len(saved) >= 1
    BY <2>1, EmptySeq, LenProperties
  <2>3. \A i \in 1 .. Len(saved) - 1 : saved[i] \in Contexts
    BY <2>1, <2>2, ElementOfSeq
  <2>4. SubSeq(saved, 1, Len(saved) - 1) \in Seq(Contexts)
    BY <2>1, <2>2, <2>3, SubSeqProperties
  <2> QED BY <1>2, <2>4
<1>8. IInv' /\ Regs' = back
  BY <1>2, <1>4, <1>6, <1>7, LoadKeeps
<1> QED BY <1>1, <1>5, <1>6, <1>8, UnwoundKeeps DEF Keeps, Apart

\* Loads of the status register.
LEMMA MoveKeeps == ASSUME IInv, NEW status \in SR, move_to_sr(status) PROVE Keeps(Regs)
<1> DEFINE r == set_sm_flag(Regs, status)
<1>1. r \in RegSet /\ Pointers(r) = Pointers(Regs)
  BY Now, Switch
<1>2. /\ Load(r, mem) /\ pc' = Follow[pc]
      /\ halted' = halted /\ slice' = slice /\ saved' = saved
  BY DEF move_to_sr
<1>3. saved' \in Seq(Contexts) /\ pc' \in PC
  BY <1>2, Now DEF IInv
<1> HIDE DEF r
<1>4. IInv' /\ Regs' = r
  BY <1>1, <1>2, <1>3, LoadKeeps
<1> QED BY <1>1, <1>4 DEF Keeps, Apart

\* Pushes and pops of the program move the user stack pointer only from user
\* mode.
LEMMA UseKeeps ==
  ASSUME IInv, UseStack
  PROVE  /\ IInv'
         /\ sr.s => Pointers(Regs')["USP"] = Pointers(Regs)["USP"]
         /\ Apart(Regs) => Apart(Regs')
<1> DEFINE n == 1 - 2 * sp.words
           r == [Regs EXCEPT !.sp = Below(@, n)]
<1>1. n \in Int /\ Regs.sp.words + n \in Nat /\ 1 - sp.words = sp.words + n
  BY Now DEF UseStack
<1>2. [Regs EXCEPT !.sp.words = 1 - @] = r
  <2>1. [sp EXCEPT !.words = 1 - @] = Below(sp, n)
    BY <1>1, Now DEF Below, Pointer
  <2> QED BY <2>1 DEF Regs
<1> HIDE DEF n
<1>3. /\ r \in RegSet
      /\ sr.s => Pointers(r)["USP"] = Pointers(Regs)["USP"]
      /\ Apart(Regs) => Apart(r)
  BY <1>1, Now, Moved
<1>4. /\ Load(r, mem) /\ pc' = Follow[pc]
      /\ halted' = halted /\ slice' = slice /\ saved' = saved
  BY <1>2 DEF UseStack
<1>5. saved' \in Seq(Contexts) /\ pc' \in PC
  BY <1>4, Now DEF IInv
<1> HIDE DEF r
<1> QED BY <1>3, <1>4, <1>5, LoadKeeps

\* Steps that touch neither registers nor memory.
LEMMA Still ==
  ASSUME IInv, UNCHANGED <<cpu_type, sr, sp, base, mem>>
  PROVE  Regs' = Regs /\ MemOK(mem)'
<1>1. Regs' = Regs
  BY DEF Regs
<1>2. Length' = Length
  BY DEF Length
<1>3. MemOK(mem)'
  BY <1>2 DEF IInv, MemOK, FrameOK
<1> QED BY <1>1, <1>3

\* The three stacks as reset leaves them.
Fresh == [sr |-> [s |-> TRUE, m |-> FALSE, mask |-> 1],
          sp |-> [stack |-> "ISP", words |-> 0],
          base |-> [b \in Stacks |-> [stack |-> b, words |-> 0]]]

LEMMA FreshType == Fresh \in RegSet /\ Apart(Fresh)
<1>1. Fresh \in RegSet
  BY DEF Fresh, RegSet, SR, Masks, Pointer, Stacks
<1>2. Bank(Fresh.sr) = "ISP"
  BY DEF Bank, Fresh
<1>3. Fresh.sp.stack = "ISP" /\ \A b \in Stacks : Fresh.base[b].stack = b
  BY DEF Fresh
<1> HIDE DEF Fresh
<1>4. Apart(Fresh)
  <2> SUFFICES ASSUME NEW b \in Stacks PROVE Pointers(Fresh)[b].stack = b
    BY DEF Apart
  <2> QED BY <1>1, <1>2, <1>3, PointersType
<1> QED BY <1>1, <1>4

\* Reset.
LEMMA ResetKeeps == ASSUME IInv, m68k_pulse_reset PROVE IInv' /\ Apart(Regs')
<1>1. Regs' = Fresh
  BY DEF m68k_pulse_reset, Regs, Fresh
<1>2. MemOK(mem)' /\ saved' \in Seq(Contexts)
  BY DEF m68k_pulse_reset, MemOK
<1> QED BY <1>1, <1>2, FreshType DEF m68k_pulse_reset, IInv, PC, Programs

----------------------------------------------------------------------------
(* Theorems.                                                               *)

LEMMA Begins == Init => IInv /\ Apart(Regs)
<1> SUFFICES ASSUME Init PROVE IInv /\ Apart(Regs)
  OBVIOUS
<1>1. Regs = Fresh
  BY DEF Init, Regs, Fresh
<1>2. MemOK(mem) /\ saved \in Seq(Contexts)
  BY DEF Init, MemOK
<1> QED BY <1>1, <1>2, FreshType DEF Init, IInv, PC, Programs

\* What every step keeps.
LEMMA Continues ==
  ASSUME IInv, [Next]_vars
  PROVE  /\ IInv'
         /\ ~(UseStack /\ ~sr.s) /\ ~m68k_pulse_reset
              => Pointers(Regs')["USP"] = Pointers(Regs)["USP"]
         /\ PushesSucceed /\ Apart(Regs) => Apart(Regs')
<1> DEFINE Goal == /\ IInv'
                   /\ ~(UseStack /\ ~sr.s) /\ ~m68k_pulse_reset
                        => Pointers(Regs')["USP"] = Pointers(Regs)["USP"]
                   /\ PushesSucceed /\ Apart(Regs) => Apart(Regs')
<1>k. ASSUME Keeps(Regs) PROVE Goal
  BY <1>k DEF Keeps
<1>1. CASE exception_trap
  BY <1>1, <1>k, Now, TakeKeeps DEF exception_trap
<1>2. CASE exception_trapN
  BY <1>2, <1>k, Now, TakeKeeps DEF exception_trapN
<1>3. CASE exception_privilege_violation
  BY <1>3, <1>k, Now, TakeKeeps DEF exception_privilege_violation
<1>4. CASE exception_interrupt
  BY <1>4, <1>k, InterruptKeeps
<1>5. CASE AccessFault
  BY <1>5, <1>k, AccessFaultKeeps
<1>6. CASE PushFault
  <2>1. ~PushesSucceed
    BY <1>6 DEF PushFault, PushesSucceed
  <2> QED BY <1>6, <2>1, PushFaultKeeps
<1>7. CASE rte
  BY <1>7, <1>k, RteKeeps
<1>8. CASE rte_format_error
  BY <1>8, <1>k, Now, TakeKeeps DEF rte_format_error
<1>9. CASE \E status \in SR : move_to_sr(status)
  BY <1>9, <1>k, MoveKeeps
<1>10. CASE UseStack
  BY <1>10, UseKeeps
<1>11. CASE EndOfSlice
  <2>1. Regs' = Regs /\ MemOK(mem)'
    BY <1>11, Still DEF EndOfSlice
  <2> QED BY <1>11, <2>1 DEF EndOfSlice, IInv
<1>12. CASE m68k_pulse_reset
  BY <1>12, ResetKeeps
<1>13. CASE UNCHANGED vars
  <2>1. Regs' = Regs /\ MemOK(mem)'
    BY <1>13, Still DEF vars
  <2> QED BY <1>13, <2>1 DEF vars, IInv
<1> QED
  BY <1>1, <1>2, <1>3, <1>4, <1>5, <1>6, <1>7, <1>8, <1>9, <1>10, <1>11, <1>12, <1>13
     DEF Next

\* The type of CPU does not change.
LEMMA SameCPU == ASSUME [Next]_vars PROVE cpu_type' = cpu_type
  BY DEF Next, vars, exception_trap, exception_trapN, exception_privilege_violation,
         exception_interrupt, AccessFault, PushFault, bus_error, rte, rte_format_error,
         move_to_sr, UseStack, EndOfSlice, m68k_pulse_reset, Take, Load

LEMMA Invariance == Spec => []IInv
<1>1. Init => IInv
  BY Begins
<1>2. IInv /\ [Next]_vars => IInv'
  BY Continues
<1> QED BY <1>1, <1>2, PTL DEF Spec

\* Every variable of exception processing keeps its type, on every CPU, with
\* faults of pushes or without.
THEOREM TypeCorrect == Spec => []TypeOK
<1>1. IInv => TypeOK
  <2> SUFFICES ASSUME IInv PROVE TypeOK
    OBVIOUS
  <2>1. \A p \in DOMAIN mem : p \in Pointer /\ mem[p] \in Frame
    BY DEF IInv, MemOK, FrameOK
  <2>2. \A i \in DOMAIN saved : saved[i].sr \in SR /\ saved[i].pc \in PC
    <3>1. saved \in Seq(Contexts)
      BY DEF IInv
    <3>2. \A i \in DOMAIN saved : saved[i] \in Contexts
      BY <3>1
    <3> QED BY <3>2 DEF Contexts
  <2> QED BY <2>1, <2>2, RegsType DEF IInv, TypeOK
<1> QED BY <1>1, Invariance, PTL

\* On a CPU whose pushes do not fault, A7 and the pointers behind it stay in
\* their own stacks through every nesting of exceptions and returns.
THEOREM DisciplineHolds == Spec => []StackDiscipline
<1> DEFINE Inv == IInv /\ (PushesSucceed => Apart(Regs))
<1>1. Init => Inv
  BY Begins
<1>2. Inv /\ [Next]_vars => Inv'
  <2> SUFFICES ASSUME Inv, [Next]_vars PROVE Inv'
    OBVIOUS
  <2>1. IInv' /\ cpu_type' = cpu_type
    BY Continues, SameCPU
  <2>2. PushesSucceed' = PushesSucceed
    BY <2>1 DEF PushesSucceed
  <2>3. PushesSucceed => Apart(Regs')
    BY Continues
  <2>4. Apart(Regs)' <=> Apart(Regs')
    BY DEF Apart, Pointers
  <2> QED BY <2>1, <2>2, <2>3, <2>4
<1>3. Inv => StackDiscipline
  BY DEF Apart, StackDiscipline, StacksApart
<1> QED BY <1>1, <1>2, <1>3, PTL DEF Spec

\* No exception, return or fault, not even a fault while a frame is pushed,
\* touches the user stack pointer.
THEOREM UserPointerHolds == Spec => UserPointerKept
<1>1. IInv /\ [Next]_vars =>
        [~(UseStack /\ ~sr.s) /\ ~m68k_pulse_reset
           => Pointers(Regs)'["USP"] = Pointers(Regs)["USP"]]_vars
  <2> SUFFICES ASSUME IInv, [Next]_vars, ~(UseStack /\ ~sr.s), ~m68k_pulse_reset
               PROVE  Pointers(Regs)'["USP"] = Pointers(Regs)["USP"]
    OBVIOUS
  <2>1. Pointers(Regs')["USP"] = Pointers(Regs)["USP"]
    BY Continues
  <2> QED BY <2>1 DEF Pointers
<1> QED BY <1>1, Invariance, PTL DEF Spec, UserPointerKept


----------------------------------------------------------------------------
(***************************************************************************)
(* CPUs whose pushes do not fault: the frames of all exceptions in         *)
(* progress stay where their handlers find them, and each RTE leads back   *)
(* to what its exception interrupted.                                      *)
(***************************************************************************)

\* The frame of m68ki_exception_bus_error is that of the 68010 on a 68000 too, whose
\* RTE pulls three words off any frame: no handler gets back from there.
BusFramesFit == "000" \in CPUs => "bus" \notin Kinds["000"]

----------------------------------------------------------------------------
(* How exceptions nest.  Of the context c of one, m is the memory, len the *)
(* lengths of frames, known the formats that occur, s and pts the status   *)
(* register and the three pointers.                                        *)

Throwaway(m, c) == m[c.at].format = 1

\* Where the first frame of an interrupt on the master stack lies.
Master(len, c) == Below(c.pointers["MSP"], len[0])

Places(m, len, c) == {c.at} \cup IF Throwaway(m, c) THEN {Master(len, c)} ELSE {}

\* No stack pointer has been taken back past p.
Lies(p, pts) == p \in Pointer /\ p.words <= pts[p.stack].words

Under(m, len, c, pts) == \A p \in Places(m, len, c) : Lies(p, pts)

OwnStacks(pts) == \A b \in Stacks : pts[b].stack = b

Gives(m, p, c) == m[p].sr = c.sr /\ m[p].pc = c.pc

\* The frames of c are in memory, and say what RTE needs.
Stored(m, len, known, c) ==
    /\ Places(m, len, c) \subseteq DOMAIN m
    /\ m[c.at].format \in known
    /\ Throwaway(m, c) => /\ Gives(m, Master(len, c), c) /\ m[Master(len, c)].format = 0
                          /\ c.sr.m /\ m[c.at].sr = [c.sr EXCEPT !.s = TRUE]
    /\ ~Throwaway(m, c) => Gives(m, c.at, c)

\* With these registers the handler of c runs, and A7 points to its frame.
HandlerOf(m, len, c, s, pts) ==
    /\ s.s /\ pts[Bank(s)] = c.at
    /\ Throwaway(m, c) =>
         /\ c.at = Below(c.pointers["ISP"], len[1])
         /\ pts = [c.pointers EXCEPT !["MSP"] = Master(len, c), !["ISP"] = c.at]
    /\ ~Throwaway(m, c) =>
         LET b == Bank([c.sr EXCEPT !.s = TRUE])
         IN  /\ c.at = Below(c.pointers[b], len[m[c.at].format])
             /\ pts = [c.pointers EXCEPT ![b] = c.at]

\* Each exception in progress interrupted the handler of the one before it.
Nesting(m, len, known, sv, s, pts) ==
    /\ \A i \in 1 .. Len(sv) : /\ OwnStacks(sv[i].pointers) /\ Stored(m, len, known, sv[i])
                               /\ Under(m, len, sv[i], pts)
    /\ \A i, j \in 1 .. Len(sv) : i < j => Under(m, len, sv[i], sv[j].pointers)
    /\ Len(sv) > 0 => HandlerOf(m, len, sv[Len(sv)], s, pts)
    /\ \A i \in 1 .. Len(sv) - 1 : HandlerOf(m, len, sv[i], sv[i + 1].sr, sv[i + 1].pointers)

Known == IF cpu_type = "000" THEN {0} ELSE Formats
Ptrs == Pointers(Regs)
Nested == Nesting(mem, Length, Known, saved, sr, Ptrs)

\* The inductive invariant.
NestInv == IInv /\ (PushesSucceed => Apart(Regs) /\ Nested)

----------------------------------------------------------------------------
(* Nesting.                                                                *)

\* A memory that still has the frames of c.
LEMMA FramesStay ==
  ASSUME NEW m, NEW m2, NEW len, NEW known, NEW c, Stored(m, len, known, c),
         \A p \in Places(m, len, c) : p \in DOMAIN m2 /\ m2[p] = m[p]
  PROVE  /\ Stored(m2, len, known, c)
         /\ \A pts : Under(m2, len, c, pts) <=> Under(m, len, c, pts)
         /\ \A s, pts : HandlerOf(m2, len, c, s, pts) <=> HandlerOf(m, len, c, s, pts)
<1>1. m2[c.at] = m[c.at]
  BY DEF Places
<1>2. Throwaway(m2, c) <=> Throwaway(m, c)
  BY <1>1 DEF Throwaway
<1>3. Places(m2, len, c) = Places(m, len, c)
  BY <1>2 DEF Places
<1>4. Throwaway(m, c) => m2[Master(len, c)] = m[Master(len, c)]
  BY DEF Places
<1>5. Stored(m2, len, known, c)
  BY <1>1, <1>2, <1>3, <1>4 DEF Stored, Gives
<1>6. ASSUME NEW s, NEW pts
      PROVE  HandlerOf(m2, len, c, s, pts) <=> HandlerOf(m, len, c, s, pts)
  BY <1>1, <1>2 DEF HandlerOf
<1> QED BY <1>3, <1>5, <1>6 DEF Under

\* A memory keeps what no pointer has been taken back past.
Keeping(m, m2, pts) == \A p \in DOMAIN m : Lies(p, pts) => p \in DOMAIN m2 /\ m2[p] = m[p]

LEMMA NestNone ==
  ASSUME NEW m, NEW len, NEW known, NEW s, NEW pts
  PROVE  Nesting(m, len, known, <<>>, s, pts)
  BY DEF Nesting

\* The handler goes on, on its stack.
LEMMA NestStay ==
  ASSUME NEW m, NEW m2, NEW len, NEW known, NEW sv \in Seq(Contexts), NEW s, NEW s2, NEW pts,
         Nesting(m, len, known, sv, s, pts), Keeping(m, m2, pts),
         Len(sv) > 0 => s2.s /\ Bank(s2) = Bank(s)
  PROVE  Nesting(m2, len, known, sv, s2, pts)
<1>1. ASSUME NEW i \in 1 .. Len(sv)
      PROVE  /\ Stored(m2, len, known, sv[i])
             /\ \A q : Under(m2, len, sv[i], q) <=> Under(m, len, sv[i], q)
             /\ \A t, q : HandlerOf(m2, len, sv[i], t, q) <=> HandlerOf(m, len, sv[i], t, q)
  <2>1. Stored(m, len, known, sv[i]) /\ Under(m, len, sv[i], pts)
    BY DEF Nesting
  <2>2. \A p \in Places(m, len, sv[i]) : p \in DOMAIN m2 /\ m2[p] = m[p]
    BY <2>1 DEF Stored, Under, Keeping
  <2> QED BY <2>1, <2>2, FramesStay
<1>2. Len(sv) \in Nat
  BY LenProperties
<1>3. Len(sv) > 0 => HandlerOf(m2, len, sv[Len(sv)], s2, pts)
  <2>1. Len(sv) > 0 => HandlerOf(m, len, sv[Len(sv)], s2, pts)
    BY DEF Nesting, HandlerOf
  <2> QED BY <1>1, <1>2, <2>1
<1>4. \A i \in 1 .. Len(sv) - 1 : HandlerOf(m2, len, sv[i], sv[i + 1].sr, sv[i + 1].pointers)
  BY <1>1, <1>2 DEF Nesting
<1> QED BY <1>1, <1>3, <1>4 DEF Nesting

\* An exception.
LEMMA NestGrow ==
  ASSUME NEW m, NEW m2, NEW len, NEW known, NEW sv \in Seq(Contexts), NEW s, NEW s2, NEW pts,
         NEW pts2, NEW c \in Contexts,
         Nesting(m, len, known, sv, s, pts), Keeping(m, m2, pts),
         c.sr = s, c.pointers = pts, OwnStacks(pts),
         \A p : Lies(p, pts) => Lies(p, pts2),
         Stored(m2, len, known, c), Under(m2, len, c, pts2), HandlerOf(m2, len, c, s2, pts2)
  PROVE  Nesting(m2, len, known, Append(sv, c), s2, pts2)
<1> DEFINE n == Len(sv)
           sw == Append(sv, c)
<1>1. /\ n \in Nat /\ Len(sw) = n + 1 /\ sw[n + 1] = c
      /\ \A i \in 1 .. n : sw[i] = sv[i]
  BY LenProperties, AppendProperties
<1>2. ASSUME NEW i \in 1 .. n
      PROVE  /\ OwnStacks(sv[i].pointers)
             /\ Stored(m2, len, known, sv[i])
             /\ Under(m2, len, sv[i], pts)
             /\ \A q : Under(m2, len, sv[i], q) <=> Under(m, len, sv[i], q)
             /\ \A t, q : HandlerOf(m2, len, sv[i], t, q) <=> HandlerOf(m, len, sv[i], t, q)
  <2>1. OwnStacks(sv[i].pointers) /\ Stored(m, len, known, sv[i]) /\ Under(m, len, sv[i], pts)
    BY DEF Nesting
  <2>2. \A p \in Places(m, len, sv[i]) : p \in DOMAIN m2 /\ m2[p] = m[p]
    BY <2>1 DEF Stored, Under, Keeping
  <2> QED BY <2>1, <2>2, FramesStay
<1> HIDE DEF sw, n
<1>3. ASSUME NEW i \in 1 .. n + 1
      PROVE  /\ OwnStacks(sw[i].pointers) /\ Stored(m2, len, known, sw[i])
             /\ Under(m2, len, sw[i], pts2)
  <2>1. CASE i = n + 1
    BY <1>1, <2>1
  <2>2. CASE i \in 1 .. n
    BY <1>1, <1>2, <2>2 DEF Under
  <2> QED BY <1>1, <2>1, <2>2
<1>4. ASSUME NEW i \in 1 .. n + 1, NEW j \in 1 .. n + 1, i < j
      PROVE  Under(m2, len, sw[i], sw[j].pointers)
  <2>1. i \in 1 .. n /\ (j = n + 1 \/ j \in 1 .. n)
    BY <1>1, <1>4
  <2>2. CASE j = n + 1
    BY <1>1, <1>2, <2>1, <2>2
  <2>3. CASE j \in 1 .. n
    BY <1>1, <1>2, <1>4, <2>1, <2>3 DEF Nesting, n
  <2> QED BY <2>1, <2>2, <2>3
<1>5. ASSUME NEW i \in 1 .. n
      PROVE  HandlerOf(m2, len, sw[i], sw[i + 1].sr, sw[i + 1].pointers)
  <2>1. CASE i = n
    <3>1. HandlerOf(m, len, sv[n], s, pts)
      BY <1>1, <2>1 DEF Nesting, n
    <3> QED BY <1>1, <1>2, <2>1, <3>1
  <2>2. CASE i \in 1 .. n - 1
    <3>1. HandlerOf(m, len, sv[i], sv[i + 1].sr, sv[i + 1].pointers) /\ i + 1 \in 1 .. n
      BY <1>1, <2>2 DEF Nesting, n
    <3> QED BY <1>1, <1>2, <3>1
  <2> QED BY <1>1, <2>1, <2>2
<1>6. HandlerOf(m2, len, sw[Len(sw)], s2, pts2)
  BY <1>1
<1>7. Len(sw) - 1 = n
  BY <1>1
<1> QED BY <1>1, <1>3, <1>4, <1>5, <1>6, <1>7 DEF Nesting, sw

\* A return to what the last exception interrupted.
LEMMA NestShrink ==
  ASSUME NEW m, NEW m2, NEW len, NEW known, NEW sv \in Seq(Contexts), NEW s, NEW pts,
         Nesting(m, len, known, sv, s, pts), Len(sv) > 0,
         Keeping(m, m2, sv[Len(sv)].pointers)
  PROVE  Nesting(m2, len, known, SubSeq(sv, 1, Len(sv) - 1),
                 sv[Len(sv)].sr, sv[Len(sv)].pointers)
<1> DEFINE n == Len(sv)
           last == sv[n]
           sw == SubSeq(sv, 1, n - 1)
<1>1. n \in Nat /\ n > 0
  BY LenProperties
<1>2. Len(sw) = n - 1 /\ \A i \in 1 .. n - 1 : sw[i] = sv[i]
  <2>1. \A i \in 1 .. n - 1 : sv[i] \in Contexts
    BY <1>1, ElementOfSeq
  <2>2. Len(sw) = IF 1 <= n - 1 THEN (n - 1) - 1 + 1 ELSE 0
    BY <1>1, <2>1, SubSeqProperties
  <2>3. \A i \in 1 .. (n - 1) - 1 + 1 : sw[i] = sv[1 + i - 1]
    BY <1>1, <2>1, SubSeqProperties
  <2> HIDE DEF n, sw
  <2> QED BY <1>1, <2>2, <2>3
<1> HIDE DEF n, sw
<1>3. ASSUME NEW i \in 1 .. n - 1
      PROVE  /\ OwnStacks(sv[i].pointers)
             /\ Stored(m2, len, known, sv[i])
             /\ Under(m2, len, sv[i], last.pointers)
             /\ \A q : Under(m2, len, sv[i], q) <=> Under(m, len, sv[i], q)
             /\ \A t, q : HandlerOf(m2, len, sv[i], t, q) <=> HandlerOf(m, len, sv[i], t, q)
  <2>1. i \in 1 .. n /\ n \in 1 .. n /\ i < n
    BY <1>1
  <2>2. /\ OwnStacks(sv[i].pointers) /\ Stored(m, len, known, sv[i])
        /\ Under(m, len, sv[i], last.pointers)
    BY <2>1 DEF Nesting, n
  <2>3. \A p \in Places(m, len, sv[i]) : p \in DOMAIN m2 /\ m2[p] = m[p]
    BY <2>2 DEF Stored, Under, Keeping, n
  <2> QED BY <2>2, <2>3, FramesStay
<1>4. ASSUME NEW i \in 1 .. n - 1, NEW j \in 1 .. n - 1, i < j
      PROVE  Under(m2, len, sv[i], sv[j].pointers)
  <2>1. i \in 1 .. n /\ j \in 1 .. n
    BY <1>1
  <2> QED BY <1>3, <1>4, <2>1 DEF Nesting, n
<1>5. ASSUME NEW i \in 1 .. n - 1
      PROVE  HandlerOf(m2, len, sv[i], sv[i + 1].sr, sv[i + 1].pointers)
  BY <1>3 DEF Nesting, n
<1>6. Len(sw) > 0 => HandlerOf(m2, len, sw[Len(sw)], last.sr, last.pointers)
  <2> SUFFICES ASSUME n - 1 > 0 PROVE HandlerOf(m2, len, sv[n - 1], last.sr, last.pointers)
    BY <1>1, <1>2
  <2>1. n - 1 \in 1 .. n - 1 /\ (n - 1) + 1 = n
    BY <1>1
  <2> QED BY <1>5, <2>1
<1>7. \A i \in 1 .. Len(sw) - 1 : i \in 1 .. n - 1 /\ i + 1 \in 1 .. n - 1
  BY <1>1, <1>2
<1> QED BY <1>2, <1>3, <1>4, <1>5, <1>6, <1>7 DEF Nesting, sw, n
----------------------------------------------------------------------------
(* Pushing and pulling, with the pointers and the memory they leave.       *)

LEMMA BelowIs ==
  ASSUME NEW p \in Pointer, NEW n \in Int
  PROVE  Below(p, n) = [stack |-> p.stack, words |-> p.words + n]
  BY DEF Below, Pointer

\* The memory m2 has the frame f at q, and still every frame of m no deeper than from.
Spares(m, m2, from, q, f) ==
  /\ q \in DOMAIN m2 /\ m2[q] = f
  /\ \A p \in DOMAIN m :
       p \in Pointer /\ (p.stack = from.stack => p.words <= from.words)
         => p # q /\ p \in DOMAIN m2 /\ m2[p] = m[p]

\* A frame pushed on a stack covers nothing that lies under its pointer.
LEMMA StackedSpares ==
  ASSUME NEW m, NEW from \in Pointer, NEW f, f.format \in Formats,
         NEW q, q = Below(from, Length[f.format]),
         NEW m2, m2 = Stacked(m, q, f)
  PROVE  Spares(m, m2, from, q, f)
<1> DEFINE n == Length[f.format]
           kept == {p \in DOMAIN m : ~Overlaps(p, Length[m[p].format], q, n)}
<1>1. m2 = [p \in kept \cup {q} |-> IF p = q THEN f ELSE m[p]]
  BY DEF Stacked
<1>2. n \in Nat /\ n >= 3 /\ q = Below(from, n)
  BY LengthType
<1> HIDE DEF n
<1>3. q.stack = from.stack /\ q.words = from.words + n /\ from.words \in Nat
  BY <1>2 DEF Below, Pointer
<1>4. ASSUME NEW p \in DOMAIN m, p \in Pointer, p.stack = from.stack => p.words <= from.words
      PROVE  p # q /\ p \in kept
  <2>1. p.words \in Nat
    BY <1>4 DEF Pointer
  <2>2. ~(p.stack = q.stack /\ p.words > q.words - n)
    BY <1>2, <1>3, <1>4, <2>1
  <2> QED BY <1>2, <1>3, <1>4, <2>1, <2>2 DEF Overlaps
<1> HIDE DEF kept
<1> QED BY <1>1, <1>4 DEF Spares, n

\* Memory forgets nothing that lies under a pointer.
LEMMA LiveSpares ==
  ASSUME NEW r, NEW m, NEW p \in DOMAIN m, Apart(r), Lies(p, Pointers(r))
  PROVE  p \in DOMAIN Live(r, m) /\ Live(r, m)[p] = m[p]
<1>1. p.stack \in Stacks /\ Pointers(r)[p.stack].stack = p.stack
        /\ p.words <= Pointers(r)[p.stack].words
  BY DEF Lies, Apart, Pointer
<1> QED BY <1>1 DEF Live

\* A push takes one of the three pointers further.
LEMMA PushPointers ==
  ASSUME NEW r \in RegSet, NEW f \in Formats
  PROVE  /\ Push(r, f).sp = Below(r.sp, Length[f])
         /\ Pointers(Push(r, f)) = [Pointers(r) EXCEPT ![Bank(r.sr)] = Below(r.sp, Length[f])]
<1>1. r.sr \in SR /\ r.sp \in Pointer /\ r.base \in [Stacks -> Pointer]
  BY DEF RegSet
<1>2. Push(r, f).sp = Below(r.sp, Length[f]) /\ Push(r, f).sr = r.sr /\ Push(r, f).base = r.base
  BY DEF Push, RegSet
<1>3. Bank(r.sr) \in Stacks
  BY <1>1, BankType
<1> HIDE DEF Formats
<1> QED BY <1>1, <1>2, <1>3 DEF Pointers

\* RTE takes off a frame what was pushed for it, if it knows its length.
LEMMA PullPointers ==
  ASSUME NEW r \in RegSet, NEW f \in Known, NEW p \in Pointer, r.sp = Below(p, Length[f])
  PROVE  /\ Pull(r, f) \in RegSet /\ Pull(r, f).sr = r.sr
         /\ Pointers(Pull(r, f)) = [Pointers(r) EXCEPT ![Bank(r.sr)] = p]
<1>1. r.sr \in SR /\ r.sp \in Pointer /\ r.base \in [Stacks -> Pointer]
  BY DEF RegSet
<1>2. f \in Formats /\ Length[f] \in Nat
  <2>1. f \in Formats
    BY DEF Known, Formats
  <2> QED BY <2>1, LengthType
<1>3. (IF cpu_type = "000" THEN 3 ELSE Length[f]) = Length[f]
  <2>1. cpu_type = "000" => f = 0 /\ Length[0] = 3
    BY DEF Known, Length
  <2> QED BY <2>1
<1>4. Below(r.sp, -Length[f]) = p
  <2>1. p.words \in Nat /\ r.sp.words = p.words + Length[f] /\ r.sp.stack = p.stack
    BY <1>2 DEF Below, Pointer
  <2>2. r.sp.words + (-Length[f]) = p.words
    BY <1>2, <2>1
  <2>3. Below(r.sp, -Length[f]) = [stack |-> r.sp.stack, words |-> r.sp.words + (-Length[f])]
    BY <1>1, <1>2, BelowIs
  <2>4. p = [stack |-> p.stack, words |-> p.words]
    BY DEF Pointer
  <2> QED BY <2>1, <2>2, <2>3, <2>4
<1>5. Pull(r, f) = [r EXCEPT !.sp = p]
  BY <1>3, <1>4 DEF Pull
<1>6. Pull(r, f).sp = p /\ Pull(r, f).sr = r.sr /\ Pull(r, f).base = r.base
  BY <1>5 DEF RegSet
<1>7. Pull(r, f) \in RegSet
  BY <1>5 DEF RegSet
<1>8. Bank(r.sr) \in Stacks
  BY <1>1, BankType
<1> HIDE DEF Known
<1> QED BY <1>1, <1>6, <1>7, <1>8 DEF Pointers

\* What the invariant says of the registers of the moment.
LEMMA PtrsType ==
  ASSUME IInv, Apart(Regs)
  PROVE  /\ Ptrs \in [Stacks -> Pointer] /\ OwnStacks(Ptrs)
         /\ Ptrs[Bank(sr)] = sp /\ Bank(sr) \in Stacks /\ sp.stack = Bank(sr)
  BY Now, PointersType, BankType DEF Ptrs, Apart, OwnStacks

LEMMA PtrsNext == Ptrs' = Pointers(Regs')
  BY DEF Ptrs

\* The pointers of an exception lie above those of what it interrupts.
LEMMA Raised ==
  ASSUME NEW pts \in [Stacks -> Pointer], NEW b \in Stacks, NEW q \in Pointer,
         q.words >= pts[b].words
  PROVE  \A p : Lies(p, pts) => Lies(p, [pts EXCEPT ![b] = q])
<1> SUFFICES ASSUME NEW p \in Pointer, p.words <= pts[p.stack].words
             PROVE  p.words <= [pts EXCEPT ![b] = q][p.stack].words
  BY DEF Lies
<1>1. /\ p.words \in Nat /\ p.stack \in Stacks /\ q.words \in Nat
      /\ pts[p.stack].words \in Nat
  BY DEF Pointer
<1> QED BY <1>1
----------------------------------------------------------------------------
(* Exceptions.                                                             *)

Entered == [sr EXCEPT !.s = TRUE]

LEMMA EnteredType == ASSUME IInv PROVE Entered \in SR /\ Entered.s = TRUE /\ Entered.m = sr.m
  BY Now DEF Entered, SR

\* The mask does not choose a stack.
LEMMA MaskedBank ==
  ASSUME NEW r \in RegSet, NEW k \in Masks
  PROVE  /\ [r EXCEPT !.sr.mask = k].sr.s = r.sr.s
         /\ Bank([r EXCEPT !.sr.mask = k].sr) = Bank(r.sr)
<1>1. r.sr \in SR
  BY DEF RegSet
<1>2. [r EXCEPT !.sr.mask = k].sr = [r.sr EXCEPT !.mask = k]
  BY DEF RegSet
<1>3. [r.sr EXCEPT !.mask = k].s = r.sr.s /\ [r.sr EXCEPT !.mask = k].m = r.sr.m
  BY <1>1 DEF SR
<1> QED BY <1>2, <1>3 DEF Bank

\* What may interrupt a handler or the program.
Occurs(kind) == kind \in Kinds[cpu_type] \cup {"format"}

LEMMA OccursKnown ==
  ASSUME IInv, BusFramesFit, NEW kind, Occurs(kind)
  PROVE  Format(kind) \in Known
<1>1. cpu_type = "000" => kind # "bus"
  BY DEF IInv, BusFramesFit, Occurs
<1>2. cpu_type = "000" => Format(kind) = 0
  BY <1>1 DEF Format, EC020_PLUS
<1> QED BY <1>2, FormatType DEF Known

\* One frame on the stack of supervisor state.
LEMMA TakeNests ==
  ASSUME IInv, Apart(Regs), Nested, BusFramesFit, NEW kind, Occurs(kind),
         NEW where \in PC, NEW mask \in Masks, Take(Regs, kind, where, mask)
  PROVE  Nested'
<1> DEFINE e == init_exception(Regs)
           f == Format(kind)
           entered == Push(e, f)
           frame == [format |-> f, sr |-> sr, pc |-> where]
           loaded == [entered EXCEPT !.sr.mask = mask]
           m == Stacked(mem, entered.sp, frame)
           b == Bank(Entered)
           at == entered.sp
           c == Context(where, at)
<1>1. /\ Load(loaded, m) /\ saved' = Append(saved, c)
  BY Now DEF Take
<1>2. /\ e \in RegSet /\ e.sr = Entered /\ e.sr.s /\ Pointers(e) = Ptrs
      /\ b \in Stacks /\ e.sp = Ptrs[b]
  <2>1. e \in RegSet /\ e.sr = Entered /\ e.sr.s /\ Pointers(e) = Ptrs
    BY Now, Enter DEF Entered, Ptrs
  <2> QED BY <2>1, EnteredType, BankType, PointersType
<1>3. f \in Formats /\ f # 1 /\ f \in Known /\ Length[f] \in Nat
  BY FormatType, OccursKnown, LengthType
<1> HIDE DEF e, f
<1>4. entered \in RegSet /\ entered.sr = Entered
  BY <1>2, <1>3, Pushed
<1>5. /\ at = Below(Ptrs[b], Length[f])
      /\ Pointers(entered) = [Ptrs EXCEPT ![b] = at]
  BY <1>2, <1>3, PushPointers
<1>6. /\ loaded \in RegSet /\ Pointers(loaded) = [Ptrs EXCEPT ![b] = at]
      /\ loaded.sr.s /\ Bank(loaded.sr) = b
  <2> HIDE DEF entered
  <2> QED BY <1>2, <1>4, <1>5, Masked, MaskedBank, EnteredType
<1>7. at \in Pointer /\ at.stack = b /\ at.words >= Ptrs[b].words
  <2>1. at \in Pointer
    BY <1>4 DEF RegSet
  <2>2. Ptrs[b] \in Pointer /\ Ptrs[b].stack = b
    BY <1>2, PtrsType DEF OwnStacks
  <2> HIDE DEF at
  <2> QED BY <1>3, <1>5, <2>1, <2>2 DEF Below, Pointer
<1>8. /\ at \in DOMAIN m /\ m[at] = frame
      /\ \A p \in DOMAIN mem : Lies(p, Ptrs) => p # at /\ p \in DOMAIN m /\ m[p] = mem[p]
  <2>1. frame.format = f
    OBVIOUS
  <2>2. Ptrs[b] \in Pointer /\ Ptrs[b].stack = b
    BY <1>2, PtrsType DEF OwnStacks
  <2>3. \A p \in DOMAIN mem : p \in Pointer
    BY DEF IInv, MemOK, FrameOK
  <2>4. m = Stacked(mem, at, frame)
    OBVIOUS
  <2> HIDE DEF at, frame, m
  <2>5. /\ at \in DOMAIN m /\ m[at] = frame
        /\ \A p \in DOMAIN mem :
             p \in Pointer /\ (p.stack = Ptrs[b].stack => p.words <= Ptrs[b].words)
               => p # at /\ p \in DOMAIN m /\ m[p] = mem[p]
    <3>1. Ptrs[b] \in Pointer /\ frame.format \in Formats /\ at = Below(Ptrs[b], Length[frame.format])
      BY <1>3, <1>5, <2>1, <2>2
    <3>2. Spares(mem, m, Ptrs[b], at, frame)
      BY <2>4, <3>1, StackedSpares
    <3> QED BY <3>2 DEF Spares
  <2> QED BY <2>2, <2>5 DEF Lies
<1>9. c \in Contexts /\ c.sr = sr /\ c.pointers = Ptrs /\ c.pc = where /\ c.at = at
  <2> HIDE DEF at
  <2>1. c \in Contexts
    BY <1>7, ContextType DEF IInv
  <2> QED BY <2>1 DEF Context, Ptrs
<1>10. frame.format = f /\ frame.sr = sr /\ frame.pc = where
  OBVIOUS
<1> HIDE DEF entered, frame, loaded, m, at, c, b
<1>11. Regs' = loaded /\ cpu_type' = cpu_type /\ sr' = loaded.sr /\ mem' = Live(loaded, m)
  <2>1. MemOK(m)
    <3>1. FrameOK(at, frame)
      <4>1. frame \in Frame
        BY <1>3, Now DEF frame, Frame, Formats
      <4>2. Ptrs[b].words \in Nat /\ at.words = Ptrs[b].words + Length[f]
        BY <1>2, <1>3, <1>5, PtrsType DEF Below, Pointer
      <4> QED BY <1>3, <1>7, <1>10, <4>1, <4>2 DEF FrameOK
    <3> QED BY <3>1, StackedOK DEF IInv, m, at
  <2> QED BY <1>1, <1>6, <2>1, Loaded DEF IInv, Load
<1>12. Ptrs' = [Ptrs EXCEPT ![b] = at]
  BY <1>6, <1>11, PtrsNext
<1>13. /\ Apart(loaded)
       /\ \A p : Lies(p, Ptrs) => Lies(p, Ptrs') /\ Lies(p, Pointers(loaded))
       /\ Lies(at, Pointers(loaded)) /\ Lies(at, Ptrs')
  <2>1. \A d \in Stacks : [Ptrs EXCEPT ![b] = at][d].stack = d
    BY <1>7, PtrsType DEF OwnStacks
  <2>2. \A p : Lies(p, Ptrs) => Lies(p, [Ptrs EXCEPT ![b] = at])
    BY <1>2, <1>7, PtrsType, Raised
  <2>3. Lies(at, [Ptrs EXCEPT ![b] = at])
    BY <1>2, <1>7, PtrsType DEF Lies, Pointer
  <2> QED BY <1>6, <1>12, <2>1, <2>2, <2>3 DEF Apart
<1>14. Keeping(mem, mem', Ptrs) /\ at \in DOMAIN mem' /\ mem'[at] = frame
  BY <1>8, <1>11, <1>13, LiveSpares DEF Keeping
<1>15. ~Throwaway(mem', c) /\ Places(mem', Length, c) = {at}
  BY <1>3, <1>9, <1>10, <1>14 DEF Throwaway, Places
<1>16. Stored(mem', Length, Known, c)
  BY <1>3, <1>9, <1>10, <1>14, <1>15 DEF Stored, Gives
<1>17. Under(mem', Length, c, Ptrs')
  BY <1>13, <1>15 DEF Under
<1>18. HandlerOf(mem', Length, c, sr', Ptrs')
  <2>1. Ptrs'[b] = at
    BY <1>2, <1>12, PtrsType
  <2> QED BY <1>5, <1>6, <1>9, <1>10, <1>11, <1>12, <1>14, <1>15, <2>1 DEF HandlerOf, b, Entered
<1>19. Length' = Length /\ Known' = Known
  BY <1>11 DEF Length, Known
<1>20. saved \in Seq(Contexts) /\ saved' = Append(saved, c) /\ OwnStacks(Ptrs)
  BY <1>1, PtrsType DEF IInv
<1>21. Nesting(mem', Length, Known, Append(saved, c), sr', Ptrs')
  BY <1>9, <1>13, <1>14, <1>16, <1>17, <1>18, <1>20, NestGrow DEF Nested
<1> QED BY <1>19, <1>20, <1>21 DEF Nested
\* Two frames, on the master and on the interrupt stack.
LEMMA ThrowawayNests ==
  ASSUME IInv, Apart(Regs), Nested, exception_interrupt, sr.m, EC020_PLUS
  PROVE  Nested'
<1> DEFINE e == init_exception(Regs)
           master == Push(e, 0)
           status == [s |-> TRUE, m |-> FALSE, mask |-> 1]
           switched == set_sm_flag(master, status)
           inner == Push(switched, 1)
           frame == [format |-> 0, sr |-> sr, pc |-> pc]
           throwaway == [format |-> 1, sr |-> Entered, pc |-> pc]
           m1 == Stacked(mem, master.sp, frame)
           m2 == Stacked(m1, inner.sp, throwaway)
           mp == master.sp
           at == inner.sp
           c == Context(pc, at)
           pts == [Ptrs EXCEPT !["MSP"] = mp, !["ISP"] = at]
<1>1. Load(inner, m2) /\ saved' = Append(saved, c)
  BY DEF exception_interrupt, Entered
<1>2. /\ e \in RegSet /\ e.sr = Entered /\ e.sr.s /\ Pointers(e) = Ptrs
      /\ Bank(e.sr) = "MSP" /\ e.sp = Ptrs["MSP"]
  <2>1. e \in RegSet /\ e.sr = Entered /\ e.sr.s /\ Pointers(e) = Ptrs
    BY Now, Enter DEF Entered, Ptrs
  <2>2. Bank(Entered) = "MSP"
    BY EnteredType DEF Bank
  <2> QED BY <2>1, <2>2, PointersType
<1>3. /\ 0 \in Formats /\ 1 \in Formats /\ Length[0] \in Nat /\ Length[1] \in Nat
      /\ "MSP" \in Stacks /\ "ISP" \in Stacks
  BY LengthType DEF Formats, Stacks
<1> HIDE DEF e
<1>4. /\ master \in RegSet /\ mp = Below(Ptrs["MSP"], Length[0])
      /\ Pointers(master) = [Ptrs EXCEPT !["MSP"] = mp]
  BY <1>2, <1>3, Pushed, PushPointers
<1>5. status \in SR /\ Bank(status) = "ISP" /\ status.s
  BY DEF SR, Masks, Bank
<1> HIDE DEF master, status
<1>6. /\ switched \in RegSet /\ switched.sr = status
      /\ Pointers(switched) = [Ptrs EXCEPT !["MSP"] = mp]
      /\ switched.sp = Ptrs["ISP"]
  <2>1. /\ switched \in RegSet /\ switched.sr = status
        /\ Pointers(switched) = [Ptrs EXCEPT !["MSP"] = mp]
    BY <1>4, <1>5, Switch
  <2> HIDE DEF switched
  <2> QED BY <1>3, <1>5, <2>1, PointersType, PtrsType
<1> HIDE DEF switched
<1>7. /\ inner \in RegSet /\ inner.sr = status /\ at = Below(Ptrs["ISP"], Length[1])
      /\ Pointers(inner) = pts
  <2>1. Pointers(inner) = [[Ptrs EXCEPT !["MSP"] = mp] EXCEPT !["ISP"] = at]
    BY <1>3, <1>5, <1>6, PushPointers
  <2> QED BY <1>3, <1>5, <1>6, <2>1, Pushed, PushPointers
<1>8. /\ mp \in Pointer /\ mp.stack = "MSP" /\ mp.words = Ptrs["MSP"].words + Length[0]
      /\ at \in Pointer /\ at.stack = "ISP" /\ at.words = Ptrs["ISP"].words + Length[1]
      /\ Ptrs["MSP"] \in Pointer /\ Ptrs["MSP"].stack = "MSP" /\ Ptrs["MSP"].words \in Nat
      /\ Ptrs["ISP"] \in Pointer /\ Ptrs["ISP"].stack = "ISP" /\ Ptrs["ISP"].words \in Nat
  <2>1. mp \in Pointer /\ at \in Pointer
    BY <1>4, <1>7 DEF RegSet
  <2>2. /\ Ptrs["MSP"] \in Pointer /\ Ptrs["MSP"].stack = "MSP"
        /\ Ptrs["ISP"] \in Pointer /\ Ptrs["ISP"].stack = "ISP"
    BY <1>3, PtrsType DEF OwnStacks
  <2> HIDE DEF mp, at
  <2> QED BY <1>4, <1>7, <2>1, <2>2 DEF Below, Pointer
<1>9. /\ mp \in DOMAIN m1 /\ m1[mp] = frame
      /\ \A p \in DOMAIN mem : Lies(p, Ptrs) => p # mp /\ p \in DOMAIN m1 /\ m1[p] = mem[p]
  <2>1. frame.format = 0
    OBVIOUS
  <2>2. \A p \in DOMAIN mem : p \in Pointer
    BY DEF IInv, MemOK, FrameOK
  <2>3. m1 = Stacked(mem, mp, frame)
    OBVIOUS
  <2> HIDE DEF frame, mp, m1
  <2>4. /\ mp \in DOMAIN m1 /\ m1[mp] = frame
        /\ \A p \in DOMAIN mem :
             p \in Pointer /\ (p.stack = Ptrs["MSP"].stack => p.words <= Ptrs["MSP"].words)
               => p # mp /\ p \in DOMAIN m1 /\ m1[p] = mem[p]
    <3>1. /\ Ptrs["MSP"] \in Pointer /\ frame.format \in Formats
          /\ mp = Below(Ptrs["MSP"], Length[frame.format])
      BY <1>3, <1>4, <1>8, <2>1
    <3>2. Spares(mem, m1, Ptrs["MSP"], mp, frame)
      BY <2>3, <3>1, StackedSpares
    <3> QED BY <3>2 DEF Spares
  <2> QED BY <1>8, <2>4 DEF Lies
<1> HIDE DEF m1
<1>10. /\ at \in DOMAIN m2 /\ m2[at] = throwaway
       /\ mp # at /\ mp \in DOMAIN m2 /\ m2[mp] = frame
       /\ \A p \in DOMAIN mem : Lies(p, Ptrs) => p \in DOMAIN m2 /\ m2[p] = mem[p]
  <2>1. throwaway.format = 1
    OBVIOUS
  <2>2. \A p \in DOMAIN mem : p \in Pointer
    BY DEF IInv, MemOK, FrameOK
  <2>a. m2 = Stacked(m1, at, throwaway)
    OBVIOUS
  <2> HIDE DEF throwaway, mp, at, frame, m2
  <2>3. /\ at \in DOMAIN m2 /\ m2[at] = throwaway
        /\ \A p \in DOMAIN m1 :
             p \in Pointer /\ (p.stack = Ptrs["ISP"].stack => p.words <= Ptrs["ISP"].words)
               => p # at /\ p \in DOMAIN m2 /\ m2[p] = m1[p]
    <3>1. /\ Ptrs["ISP"] \in Pointer /\ throwaway.format \in Formats
          /\ at = Below(Ptrs["ISP"], Length[throwaway.format])
      BY <1>3, <1>7, <1>8, <2>1
    <3>2. Spares(m1, m2, Ptrs["ISP"], at, throwaway)
      BY <2>a, <3>1, StackedSpares
    <3> QED BY <3>2 DEF Spares
  <2>4. mp # at /\ mp \in DOMAIN m2 /\ m2[mp] = frame
    BY <1>8, <1>9, <2>3
  <2>5. ASSUME NEW p \in DOMAIN mem, Lies(p, Ptrs)
        PROVE  p \in DOMAIN m2 /\ m2[p] = mem[p]
    <3>1. p \in DOMAIN m1 /\ m1[p] = mem[p] /\ p \in Pointer
      BY <1>9, <2>2, <2>5
    <3>2. p.stack = "ISP" => p.words <= Ptrs["ISP"].words
      BY <2>5 DEF Lies
    <3> QED BY <1>8, <2>3, <3>1, <3>2
  <2> QED BY <2>3, <2>4, <2>5
<1>11. c \in Contexts /\ c.sr = sr /\ c.pointers = Ptrs /\ c.pc = pc /\ c.at = at
  <2> HIDE DEF at
  <2>1. c \in Contexts
    BY <1>8, ContextType DEF IInv
  <2> QED BY <2>1 DEF Context, Ptrs
<1>12. /\ frame.format = 0 /\ frame.sr = sr /\ frame.pc = pc
       /\ throwaway.format = 1 /\ throwaway.sr = Entered
       /\ frame \in Frame /\ throwaway \in Frame
  BY Now, EnteredType DEF Frame
<1>13. MemOK(m2)
  <2> HIDE DEF frame, throwaway, mp, at
  <2>1. FrameOK(mp, frame)
    BY <1>3, <1>8, <1>12 DEF FrameOK
  <2>2. FrameOK(at, throwaway)
    <3>1. throwaway.sr.s
      BY <1>12, EnteredType
    <3>2. at.words >= Length[throwaway.format]
      <4>1. throwaway.format = 1
        BY <1>12
      <4>2. at.words >= Length[1]
        BY <1>3, <1>8
      <4> QED BY <4>1, <4>2
    <3> QED BY <1>8, <1>12, <3>1, <3>2 DEF FrameOK
  <2> QED BY <2>1, <2>2, StackedOK DEF IInv, m1, mp, at
<1> HIDE DEF m2, inner
<1>14. Regs' = inner /\ cpu_type' = cpu_type /\ sr' = inner.sr /\ mem' = Live(inner, m2)
  BY <1>1, <1>7, <1>13, Loaded DEF IInv, Load
<1>15. Ptrs' = pts
  BY <1>7, <1>14, PtrsNext
<1> HIDE DEF frame, throwaway, mp, at, c
<1>16. /\ pts["MSP"] = mp /\ pts["ISP"] = at /\ pts \in [Stacks -> Pointer]
       /\ OwnStacks(pts) /\ Apart(inner)
       /\ \A p : Lies(p, Ptrs) => Lies(p, pts)
       /\ Lies(mp, pts) /\ Lies(at, pts)
  <2> DEFINE half == [Ptrs EXCEPT !["MSP"] = mp]
  <2>1. half \in [Stacks -> Pointer] /\ half["ISP"] = Ptrs["ISP"] /\ pts = [half EXCEPT !["ISP"] = at]
    BY <1>3, <1>8, PtrsType
  <2>2. pts["MSP"] = mp /\ pts["ISP"] = at /\ pts \in [Stacks -> Pointer]
    BY <1>3, <1>8, PtrsType
  <2>3. mp.words >= Ptrs["MSP"].words /\ at.words >= Ptrs["ISP"].words
    BY <1>3, <1>8
  <2>4. \A p : Lies(p, Ptrs) => Lies(p, half)
    BY <1>3, <1>8, <2>3, PtrsType, Raised
  <2>5. \A d \in Stacks : pts[d].stack = d
    BY <1>8, PtrsType DEF OwnStacks
  <2>6. Lies(mp, pts) /\ Lies(at, pts)
    BY <1>3, <1>8, <2>2 DEF Lies, Pointer
  <2> HIDE DEF half, pts
  <2>7. \A p : Lies(p, half) => Lies(p, pts)
    BY <1>3, <1>8, <2>1, <2>3, Raised
  <2> QED BY <1>7, <2>2, <2>4, <2>5, <2>6, <2>7 DEF Apart, OwnStacks
<1>17. /\ Keeping(mem, mem', Ptrs) /\ at \in DOMAIN mem' /\ mem'[at] = throwaway
       /\ mp \in DOMAIN mem' /\ mem'[mp] = frame
  <2> HIDE DEF pts
  <2> QED BY <1>7, <1>10, <1>14, <1>16, LiveSpares DEF Keeping
<1>18. Throwaway(mem', c) /\ Master(Length, c) = mp /\ Places(mem', Length, c) = {at, mp}
  BY <1>4, <1>11, <1>12, <1>17 DEF Throwaway, Master, Places
<1>19. Stored(mem', Length, Known, c)
  <2>1. 1 \in Known
    BY <1>3 DEF Known, EC020_PLUS
  <2> QED BY <1>11, <1>12, <1>17, <1>18, <2>1 DEF Stored, Gives, Entered
<1>20. Under(mem', Length, c, Ptrs')
  BY <1>15, <1>16, <1>18 DEF Under
<1>21. HandlerOf(mem', Length, c, sr', Ptrs')
  BY <1>5, <1>7, <1>11, <1>14, <1>15, <1>16, <1>18 DEF HandlerOf
<1>22. Length' = Length /\ Known' = Known
  BY <1>14 DEF Length, Known
<1>23. saved \in Seq(Contexts) /\ saved' = Append(saved, c) /\ OwnStacks(Ptrs)
  BY <1>1, PtrsType DEF IInv
<1>24. Nesting(mem', Length, Known, Append(saved, c), sr', Ptrs')
  BY <1>11, <1>15, <1>16, <1>17, <1>19, <1>20, <1>21, <1>23, NestGrow DEF Nested
<1> QED BY <1>22, <1>23, <1>24 DEF Nested
----------------------------------------------------------------------------
(* RTE and the rest.                                                       *)

\* An RTE that succeeds finds the frame of the last exception, past a throwaway
\* frame if there is one.
LEMMA RteReturns ==
  ASSUME IInv, Apart(Regs), Nested, rte
  PROVE  LET top == saved[Len(saved)] IN
         /\ Len(saved) > 0 /\ saved' = SubSeq(saved, 1, Len(saved) - 1)
         /\ sr' = top.sr /\ pc' = top.pc /\ Ptrs' = top.pointers
         /\ cpu_type' = cpu_type /\ mem' = Live(Regs', mem) /\ Apart(Regs')
<1> DEFINE n == Len(saved)
           c == saved[n]
           frame == mem[Unwound.sp]
           below == Pull(Unwound, frame.format)
           back == set_sm_flag(below, frame.sr)
<1>1. n \in Nat /\ n > 0 /\ c \in Contexts
  <2>1. saved \in Seq(Contexts) /\ saved # <<>>
    BY DEF rte, AtFrame, IInv
  <2> QED BY <2>1, EmptySeq, LenProperties, ElementOfSeq
<1>2. /\ OwnStacks(c.pointers) /\ Stored(mem, Length, Known, c)
      /\ HandlerOf(mem, Length, c, sr, Ptrs)
  BY <1>1 DEF Nested, Nesting
<1>3. c.sr \in SR /\ c.pc \in PC /\ c.pointers \in [Stacks -> Pointer] /\ c.at \in Pointer
  BY <1>1 DEF Contexts
<1> HIDE DEF c
<1>4. sr.s /\ sp = c.at /\ mem[sp].format \in Known /\ Regs \in RegSet
  BY <1>2, PtrsType, Now DEF HandlerOf, Stored
<1>5. "MSP" \in Stacks /\ "ISP" \in Stacks
  BY DEF Stacks
<1>6. /\ Unwound \in RegSet /\ frame.format \in Known /\ Gives(mem, Unwound.sp, c)
      /\ \E b \in Stacks :
           /\ Bank(Unwound.sr) = b /\ Unwound.sp = Below(c.pointers[b], Length[frame.format])
           /\ Pointers(Unwound) = [c.pointers EXCEPT ![b] = Unwound.sp]
  <2>1. CASE ~Throwaway(mem, c)
    <3> DEFINE b == Bank(Entered)
               d == Bank([c.sr EXCEPT !.s = TRUE])
    <3>1. Unwound = Regs /\ Unwound.sp = c.at
      BY <1>4, <2>1, Now DEF Unwound, Throwaway
    <3>2. c.at = Below(c.pointers[d], Length[mem[c.at].format]) /\ Ptrs = [c.pointers EXCEPT ![d] = c.at]
      BY <1>2, <2>1 DEF HandlerOf
    <3>3. d \in Stacks
      BY <1>3, BankType DEF SR
    <3> HIDE DEF d
    <3>4. c.at.stack = d
      BY <1>2, <1>3, <3>2, <3>3 DEF OwnStacks, Below, Pointer
    <3>5. Bank(sr) = d
      BY <1>4, <3>4, PtrsType
    <3> QED BY <1>2, <1>4, <2>1, <3>1, <3>2, <3>3, <3>5, Now DEF Stored, Ptrs
  <2>2. CASE Throwaway(mem, c)
    <3> DEFINE under == Pull(Regs, 1)
               mp == Master(Length, c)
    <3>1. /\ c.at = Below(c.pointers["ISP"], Length[1])
          /\ Ptrs = [c.pointers EXCEPT !["MSP"] = mp, !["ISP"] = c.at]
          /\ Gives(mem, mp, c) /\ mem[mp].format = 0 /\ c.sr.m
          /\ mem[c.at].sr = [c.sr EXCEPT !.s = TRUE] /\ mem[c.at].format = 1
      BY <1>2, <2>2 DEF HandlerOf, Stored, Throwaway
    <3>2. 1 \in Known /\ 0 \in Known
      BY <1>4, <3>1 DEF Known, Formats
    <3>3. Bank(sr) = "ISP"
      <4>1. c.at.stack = "ISP"
        BY <1>2, <1>3, <1>5, <3>1 DEF OwnStacks, Below, Pointer
      <4> QED BY <1>4, <4>1, PtrsType
    <3>4. c.pointers["MSP"] \in Pointer /\ c.pointers["ISP"] \in Pointer
      BY <1>3, <1>5
    <3>5. /\ under \in RegSet
          /\ Pointers(under) = [Ptrs EXCEPT !["ISP"] = c.pointers["ISP"]]
      <4>1. Regs \in RegSet /\ Regs.sp = Below(c.pointers["ISP"], Length[1]) /\ Bank(Regs.sr) = "ISP"
        BY <1>4, <3>1, <3>3, Now
      <4> QED BY <3>2, <3>4, <4>1, PullPointers DEF Ptrs
    <3>6. mp \in Pointer
      BY <1>5, <3>1, PtrsType
    <3> HIDE DEF mp, under
    <3>7. Pointers(under) = [c.pointers EXCEPT !["MSP"] = mp]
      BY <1>3, <1>5, <3>1, <3>5
    <3> DEFINE status == [c.sr EXCEPT !.s = TRUE]
    <3>8. status \in SR /\ Bank(status) = "MSP"
      BY <1>3, <3>1 DEF SR, Bank
    <3>9. Unwound = set_sm_flag(under, status)
      BY <1>4, <3>1 DEF Unwound, under
    <3> HIDE DEF status
    <3>10. /\ Unwound \in RegSet /\ Unwound.sr = status
           /\ Pointers(Unwound) = [c.pointers EXCEPT !["MSP"] = mp]
      BY <3>5, <3>7, <3>8, <3>9, Switch
    <3>11. Unwound.sp = mp
      BY <1>3, <1>5, <3>8, <3>10, PointersType
    <3> QED BY <1>5, <3>1, <3>2, <3>8, <3>10, <3>11 DEF Master, mp
  <2> QED BY <2>1, <2>2
<1>7. frame.sr = c.sr /\ frame.pc = c.pc
  BY <1>6 DEF Gives
<1>8. /\ Load(back, mem) /\ pc' = frame.pc /\ saved' = SubSeq(saved, 1, n - 1)
  BY DEF rte
<1> HIDE DEF frame
<1>9. below \in RegSet /\ Pointers(below) = c.pointers
  <2> PICK b \in Stacks :
           /\ Bank(Unwound.sr) = b /\ Unwound.sp = Below(c.pointers[b], Length[frame.format])
           /\ Pointers(Unwound) = [c.pointers EXCEPT ![b] = Unwound.sp]
    BY <1>6
  <2>1. c.pointers[b] \in Pointer
    BY <1>3
  <2>2. /\ below \in RegSet
        /\ Pointers(below) = [Pointers(Unwound) EXCEPT ![b] = c.pointers[b]]
    BY <1>6, <2>1, PullPointers
  <2> QED BY <1>3, <2>2
<1> HIDE DEF below
<1>10. back \in RegSet /\ back.sr = c.sr /\ Pointers(back) = c.pointers
  BY <1>3, <1>7, <1>9, Switch
<1> HIDE DEF back
<1>11. Regs' = back /\ cpu_type' = cpu_type /\ sr' = back.sr /\ mem' = Live(back, mem)
  BY <1>8, <1>10, Loaded DEF IInv, Load
<1>12. Ptrs' = c.pointers /\ Apart(Regs')
  BY <1>2, <1>10, <1>11, PtrsNext DEF Apart, OwnStacks
<1> QED BY <1>1, <1>7, <1>8, <1>10, <1>11, <1>12 DEF n, c

LEMMA RteNests ==
  ASSUME IInv, Apart(Regs), Nested, rte
  PROVE  Nested'
<1> DEFINE top == saved[Len(saved)]
<1>1. /\ Len(saved) > 0 /\ saved' = SubSeq(saved, 1, Len(saved) - 1)
      /\ sr' = top.sr /\ Ptrs' = top.pointers
      /\ cpu_type' = cpu_type /\ mem' = Live(Regs', mem) /\ Apart(Regs')
  BY RteReturns
<1> HIDE DEF top
<1>2. Keeping(mem, mem', top.pointers)
  <2>1. Pointers(Regs') = top.pointers
    BY <1>1, PtrsNext
  <2> QED BY <1>1, <2>1, LiveSpares DEF Keeping
<1>3. Length' = Length /\ Known' = Known
  BY <1>1 DEF Length, Known
<1>4. saved \in Seq(Contexts)
  BY DEF IInv
<1>5. Nesting(mem', Length, Known, SubSeq(saved, 1, Len(saved) - 1), top.sr, top.pointers)
  BY <1>1, <1>2, <1>4, NestShrink DEF Nested, top
<1> QED BY <1>1, <1>3, <1>5 DEF Nested

\* A handler that loads SR stays on its stack.
LEMMA MoveNests ==
  ASSUME IInv, Apart(Regs), Nested, NEW status \in SR, move_to_sr(status)
  PROVE  Nested'
<1> DEFINE r == set_sm_flag(Regs, status)
<1>1. r \in RegSet /\ r.sr = status /\ Pointers(r) = Ptrs
  BY Now, Switch DEF Ptrs
<1>2. /\ Load(r, mem) /\ saved' = saved
      /\ saved = <<>> \/ (status.s /\ status.m = sr.m)
  BY DEF move_to_sr
<1> HIDE DEF r
<1>3. Regs' = r /\ cpu_type' = cpu_type /\ sr' = status /\ mem' = Live(r, mem)
  BY <1>1, <1>2, Loaded DEF IInv, Load
<1>4. Ptrs' = Ptrs /\ Apart(r)
  BY <1>1, <1>3, PtrsNext, PtrsType DEF Apart, OwnStacks
<1>5. Keeping(mem, mem', Ptrs)
  BY <1>1, <1>3, <1>4, LiveSpares DEF Keeping
<1>6. Length' = Length /\ Known' = Known
  BY <1>3 DEF Length, Known
<1>7. saved \in Seq(Contexts)
  BY DEF IInv
<1>8. Len(saved) > 0 => status.s /\ Bank(status) = Bank(sr)
  <2>1. Len(saved) > 0 => saved # <<>> /\ sr.s
    BY DEF Nested, Nesting, HandlerOf
  <2> QED BY <1>2, <2>1 DEF Bank
<1>9. Nesting(mem', Length, Known, saved, status, Ptrs)
  BY <1>5, <1>7, <1>8, NestStay DEF Nested
<1> QED BY <1>2, <1>3, <1>4, <1>6, <1>9 DEF Nested

LEMMA NestStep ==
  ASSUME BusFramesFit, NestInv, [Next]_vars
  PROVE  NestInv'
<1>1. IInv' /\ cpu_type' = cpu_type
  BY Continues, SameCPU DEF NestInv
<1> SUFFICES ASSUME PushesSucceed PROVE Apart(Regs)' /\ Nested'
  BY <1>1 DEF NestInv, PushesSucceed
<1>2. IInv /\ Apart(Regs) /\ Nested
  BY DEF NestInv
<1>3. Apart(Regs)'
  <2>1. Apart(Regs')
    BY <1>2, Continues
  <2> QED BY <2>1 DEF Apart, Pointers
<1> SUFFICES Nested'
  BY <1>3
<1>4. ASSUME saved' = <<>> PROVE Nested'
  BY <1>4, NestNone DEF Nested
<1>5. ASSUME UNCHANGED <<cpu_type, sr, sp, base, mem, saved>> PROVE Nested'
  <2>1. Ptrs' = Ptrs /\ Length' = Length /\ Known' = Known
    BY <1>5 DEF Ptrs, Regs, Length, Known
  <2> QED BY <1>2, <1>5, <2>1 DEF Nested
<1>6. CASE exception_trap
  BY <1>2, <1>6, Now, TakeNests DEF exception_trap, CanEnter, Occurs
<1>7. CASE exception_trapN
  BY <1>2, <1>7, Now, TakeNests DEF exception_trapN, CanEnter, Occurs
<1>8. CASE exception_privilege_violation
  BY <1>2, <1>8, Now, TakeNests DEF exception_privilege_violation, CanEnter, Occurs
<1>9. CASE exception_interrupt
  <2>1. CASE sr.m /\ EC020_PLUS
    BY <1>2, <1>9, <2>1, ThrowawayNests
  <2>2. CASE ~(sr.m /\ EC020_PLUS)
    <3>1. Take(Regs, "interrupt", pc, 1) /\ Occurs("interrupt")
      BY <1>9, <2>2 DEF exception_interrupt, CanEnter, Occurs
    <3> QED BY <1>2, <3>1, Now, TakeNests DEF Masks
  <2> QED BY <2>1, <2>2
<1>10. CASE AccessFault
  <2>1. Take(Regs, "bus", pc, sr.mask) /\ Occurs("bus")
    <3>1. PICK moved \in {0, 1} :
             CanEnter("bus") /\ bus_error([Regs EXCEPT !.sp = Below(@, moved)])
      BY <1>10 DEF AccessFault
    <3> DEFINE r == [Regs EXCEPT !.sp = Below(@, moved)]
    <3>2. r.sr = sr /\ [r EXCEPT !.sp = sp] = Regs
      <4>1. r.sr = sr /\ r.base = base /\ r \in RegSet
        <5>1. Regs.sp.words + moved \in Nat /\ moved \in Int
          BY <1>2, Now DEF Pointer
        <5> QED BY <1>2, <5>1, Now, Moved DEF Regs
      <4> HIDE DEF r
      <4>2. [r EXCEPT !.sp = sp] = [sr |-> r.sr, sp |-> sp, base |-> r.base]
        BY <4>1 DEF RegSet
      <4> QED BY <4>1, <4>2 DEF Regs
    <3> HIDE DEF r
    <3>3. bus_error(r)
      BY <3>1 DEF r
    <3>4. Take([r EXCEPT !.sp = sp], "bus", pc, r.sr.mask)
      BY <3>3 DEF bus_error, PushesSucceed
    <3> QED BY <3>1, <3>2, <3>4 DEF CanEnter, Occurs
  <2> QED BY <1>2, <2>1, Now, TakeNests
<1>11. CASE PushFault
  BY <1>11 DEF PushFault, PushesSucceed
<1>12. CASE rte
  BY <1>2, <1>12, RteNests
<1>13. CASE rte_format_error
  BY <1>2, <1>13, Now, TakeNests DEF rte_format_error, Occurs
<1>14. CASE \E status \in SR : move_to_sr(status)
  BY <1>2, <1>14, MoveNests
<1>15. CASE UseStack
  BY <1>4, <1>15 DEF UseStack
<1>16. CASE EndOfSlice \/ UNCHANGED vars
  BY <1>5, <1>16 DEF EndOfSlice, vars
<1>17. CASE m68k_pulse_reset
  BY <1>4, <1>17 DEF m68k_pulse_reset
<1> QED
  BY <1>3, <1>6, <1>7, <1>8, <1>9, <1>10, <1>11, <1>12, <1>13, <1>14, <1>15, <1>16, <1>17
     DEF Next

LEMMA NestInvariant == ASSUME BusFramesFit PROVE Spec => []NestInv
<1>1. Init => NestInv
  <2>1. Init => saved = <<>>
    BY DEF Init
  <2> QED BY <2>1, Begins, NestNone DEF NestInv, Nested
<1>2. NestInv /\ [Next]_vars => NestInv'
  BY NestStep
<1> QED BY <1>1, <1>2, PTL DEF Spec

----------------------------------------------------------------------------
(* Theorems.                                                               *)

\* However deep exceptions nest, the frame of each, and the one behind a throwaway
\* frame on the master stack, lies untouched where its handler looks for it.
THEOREM FramesStayIntact == ASSUME BusFramesFit PROVE Spec => []FramesIntact
<1>1. NestInv => FramesIntact
  <2> SUFFICES ASSUME NestInv, PushesSucceed, NEW i \in DOMAIN saved
               PROVE  LET c == saved[i] IN
                      /\ c.at \in DOMAIN mem
                      /\ IF mem[c.at].format # 1 THEN ReturnsTo(c.at, c)
                         ELSE ReturnsTo(Below(c.pointers["MSP"], Length[0]), c)
    BY DEF FramesIntact
  <2>1. i \in 1 .. Len(saved)
    BY LenProperties DEF NestInv, IInv
  <2>2. Stored(mem, Length, Known, saved[i])
    BY <2>1 DEF NestInv, Nested, Nesting
  <2> QED BY <2>2 DEF Stored, Places, Throwaway, Master, Gives, ReturnsTo
<1> QED BY <1>1, NestInvariant, PTL

\* Every RTE that succeeds, whatever nested in between, restores SR, the program
\* counter and all three stack pointers of what its exception interrupted.
THEOREM ReturnsHome == ASSUME BusFramesFit PROVE Spec => RoundTrip
<1>1. NestInv /\ [Next]_vars =>
        [PushesSucceed /\ saved # <<>> /\ rte =>
           LET top == saved[Len(saved)] IN
           sr' = top.sr /\ pc' = top.pc /\ Pointers(Regs)' = top.pointers]_vars
  <2> SUFFICES ASSUME NestInv, PushesSucceed, rte
               PROVE  LET top == saved[Len(saved)] IN
                      sr' = top.sr /\ pc' = top.pc /\ Pointers(Regs)' = top.pointers
    OBVIOUS
  <2> QED BY RteReturns DEF NestInv, Ptrs
<1> QED BY <1>1, NestInvariant, PTL DEF Spec, RoundTrip
=============================================================================
