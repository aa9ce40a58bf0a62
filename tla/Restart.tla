------------------------------ MODULE Restart ------------------------------
(***************************************************************************)
(* Programs of one to three instructions on a 68040, any access of which   *)
(* may fault.  m68k_execute runs a handler to its end, or the bus error    *)
(* exception cuts it off, the program repairs the fault and the            *)
(* instruction starts again from the registers of before.                  *)
(***************************************************************************)
EXTENDS HandlersFlow

CONSTANTS
  RegisterNumbers,   \* the values of ir
  Starts,            \* the states programs start in
  MaxFaults          \* bound: bus errors during a program

ASSUME RestartAssumption ==
  RegisterNumbers \subseteq Numbers /\ Starts \subseteq Machine /\ MaxFaults \in Nat

(***************************************************************************)
(* The handlers by name; bytes and words and the parameters of a family    *)
(* are in the names.                                                       *)
(***************************************************************************)
m68k_opcode_handler_table ==
  [add_8_er |-> add_8_er, add_16_er |-> add_16_er, add_32_er |-> add_32_er,
   add_8_re |-> add_8_re, add_16_re |-> add_16_re, add_32_re |-> add_32_re,
   sub_8_er |-> sub_8_er, sub_16_er |-> sub_16_er, sub_32_er |-> sub_32_er,
   sub_8_re |-> sub_8_re, sub_16_re |-> sub_16_re, sub_32_re |-> sub_32_re,
   adda_16 |-> adda_16, adda_32 |-> adda_32, suba_16 |-> suba_16, suba_32 |-> suba_32,
   addi_8 |-> addi_8, addi_16 |-> addi_16, addi_32 |-> addi_32, subi_8 |-> subi_8,
   subi_16 |-> subi_16, subi_32 |-> subi_32, addq_8 |-> addq_8, addq_16 |-> addq_16,
   addq_32 |-> addq_32, subq_8 |-> subq_8, subq_16 |-> subq_16, subq_32 |-> subq_32,
   addx_rr_8 |-> addx_rr(1), addx_rr_16 |-> addx_rr(2), addx_rr_32 |-> addx_rr(4),
   subx_rr_8 |-> subx_rr(1), subx_rr_16 |-> subx_rr(2), subx_rr_32 |-> subx_rr(4),
   addx_8_mm |-> addx_8_mm, subx_8_mm |-> subx_8_mm, addx_mm_16 |-> addx_mm(2),
   addx_mm_32 |-> addx_mm(4), subx_mm_16 |-> subx_mm(2), subx_mm_32 |-> subx_mm(4),
   abcd_8_rr |-> abcd_8_rr, sbcd_8_rr |-> sbcd_8_rr, abcd_8_mm |-> abcd_8_mm,
   sbcd_8_mm |-> sbcd_8_mm, nbcd_8 |-> nbcd_8, neg_8 |-> neg_8, neg_16 |-> neg_16,
   neg_32 |-> neg_32, negx_8 |-> negx_8, negx_16 |-> negx_16, negx_32 |-> negx_32,
   cmp_8 |-> cmp_8, cmp_16 |-> cmp_16, cmp_32 |-> cmp_32, cmpa_16 |-> cmpa_16,
   cmpa_32 |-> cmpa_32, cmpi_8 |-> cmpi_8, cmpi_16 |-> cmpi_16, cmpi_32 |-> cmpi_32,
   cmpm_8 |-> cmpm_8, cmpm_16 |-> cmpm(2), cmpm_32 |-> cmpm(4), tst_8 |-> tst_8,
   tst_16 |-> tst_16, tst_32 |-> tst_32, chk_16 |-> chk_16, chk_32 |-> chk_32,
   chk2_8_d |-> chk2cmp2_8("d", TRUE), cmp2_8_d |-> chk2cmp2_8("d", FALSE),
   chk2_8_a |-> chk2cmp2_8("a", TRUE), cmp2_8_a |-> chk2cmp2_8("a", FALSE),
   chk2_16_d |-> chk2cmp2_16("d", TRUE), cmp2_16_d |-> chk2cmp2_16("d", FALSE),
   chk2_16_a |-> chk2cmp2_16("a", TRUE), cmp2_16_a |-> chk2cmp2_16("a", FALSE),
   chk2_32_d |-> chk2cmp2_32("d", TRUE), cmp2_32_d |-> chk2cmp2_32("d", FALSE),
   chk2_32_a |-> chk2cmp2_32("a", TRUE), cmp2_32_a |-> chk2cmp2_32("a", FALSE),
   and_8_er |-> and_8_er, and_16_er |-> and_16_er, and_32_er |-> and_32_er,
   and_8_re |-> and_8_re, and_16_re |-> and_16_re, and_32_re |-> and_32_re,
   or_8_er |-> or_8_er, or_16_er |-> or_16_er, or_32_er |-> or_32_er, or_8_re |-> or_8_re,
   or_16_re |-> or_16_re, or_32_re |-> or_32_re, eor_8 |-> eor_8, eor_16 |-> eor_16,
   eor_32 |-> eor_32, andi_8 |-> andi_8, andi_16 |-> andi_16, andi_32 |-> andi_32,
   ori_8 |-> ori_8, ori_16 |-> ori_16, ori_32 |-> ori_32, eori_8 |-> eori_8,
   eori_16 |-> eori_16, eori_32 |-> eori_32, andi_16_toc |-> andi_16_toc,
   ori_16_toc |-> ori_16_toc, eori_16_toc |-> eori_16_toc, not_8 |-> not_8,
   not_16 |-> not_16, not_32 |-> not_32, clr_8 |-> clr_8, clr_16 |-> clr_16,
   clr_32 |-> clr_32, btst_r |-> btst_r, btst_s |-> btst_s, bchg_r |-> bchg_r,
   bchg_s |-> bchg_s, bclr_r |-> bclr_r, bclr_s |-> bclr_s, bset_r |-> bset_r,
   bset_s |-> bset_s, tas_8 |-> tas_8(TRUE), tas_8_refused |-> tas_8(FALSE),
   asr_s_8 |-> asr_s(1), asr_s_16 |-> asr_s(2), asr_s_32 |-> asr_s(4),
   asr_r_8 |-> asr_r(1), asr_r_16 |-> asr_r(2), asr_r_32 |-> asr_r(4),
   asl_s_8 |-> asl_s(1), asl_s_16 |-> asl_s(2), asl_s_32 |-> asl_s(4),
   asl_r_8 |-> asl_r(1), asl_r_16 |-> asl_r(2), asl_r_32 |-> asl_r(4),
   lsr_s_8 |-> lsr_s(1), lsr_s_16 |-> lsr_s(2), lsr_s_32 |-> lsr_s(4),
   lsr_r_8 |-> lsr_r(1), lsr_r_16 |-> lsr_r(2), lsr_r_32 |-> lsr_r(4),
   lsl_s_8 |-> lsl_s(1), lsl_s_16 |-> lsl_s(2), lsl_s_32 |-> lsl_s(4),
   lsl_r_8 |-> lsl_r(1), lsl_r_16 |-> lsl_r(2), lsl_r_32 |-> lsl_r(4),
   ror_s_8 |-> ror_s(1), ror_s_16 |-> ror_s(2), ror_s_32 |-> ror_s(4),
   ror_r_8 |-> ror_r(1), ror_r_16 |-> ror_r(2), ror_r_32 |-> ror_r(4),
   rol_s_8 |-> rol_s(1), rol_s_16 |-> rol_s(2), rol_s_32 |-> rol_s(4),
   rol_r_8 |-> rol_r(1), rol_r_16 |-> rol_r(2), rol_r_32 |-> rol_r(4),
   roxr_s_8 |-> roxr_s(1), roxr_s_16 |-> roxr_s(2), roxr_s_32 |-> roxr_s(4),
   roxr_r_8 |-> roxr_r(1), roxr_r_16 |-> roxr_r(2), roxr_r_32 |-> roxr_r(4),
   roxl_s_8 |-> roxl_s(1), roxl_s_16 |-> roxl_s(2), roxl_s_32 |-> roxl_s(4),
   roxl_r_8 |-> roxl_r(1), roxl_r_16 |-> roxl_r(2), roxl_r_32 |-> roxl_r(4),
   asr_16 |-> asr_16, asl_16 |-> asl_16, lsr_16 |-> lsr_16, lsl_16 |-> lsl_16,
   ror_16 |-> ror_16, rol_16 |-> rol_16, roxr_16 |-> roxr_16, roxl_16 |-> roxl_16,
   mulu_16 |-> mulu_16, muls_16 |-> muls_16, divu_16 |-> divu_16, divs_16 |-> divs_16,
   mullu_32 |-> mull_32(FALSE, FALSE), mulls_32 |-> mull_32(TRUE, FALSE),
   mullu_64 |-> mull_32(FALSE, TRUE), mulls_64 |-> mull_32(TRUE, TRUE),
   divlu_32 |-> divl_32(FALSE, FALSE), divls_32 |-> divl_32(TRUE, FALSE),
   divlu_64 |-> divl_32(FALSE, TRUE), divls_64 |-> divl_32(TRUE, TRUE), ext_16 |-> ext_16,
   ext_32 |-> ext_32, extb_32 |-> extb_32, swap_32 |-> swap_32, exg_32 |-> exg_32,
   pack_16_rr |-> pack_16_rr, pack_16_mm |-> pack_16_mm, unpk_16_rr |-> unpk_16_rr,
   unpk_16_mm |-> unpk_16_mm, move_8_d |-> move_8_d, move_8_ai |-> move_8_ai,
   move_8_pi7 |-> move_8_pi7, move_8_pi |-> move_8_pi, move_8_pd7 |-> move_8_pd7,
   move_8_pd |-> move_8_pd, move_8_di |-> move_8_di, move_8_ix |-> move_8_ix,
   move_8_aw |-> move_8_aw, move_8_al |-> move_8_al, move_16_d |-> move_16_d,
   move_16_ai |-> move_16_ai, move_16_pi |-> move_16_pi, move_16_pd |-> move_16_pd,
   move_16_di |-> move_16_di, move_16_ix |-> move_16_ix, move_16_aw |-> move_16_aw,
   move_16_al |-> move_16_al, move_32_d |-> move_32_d, move_32_ai |-> move_32_ai,
   move_32_pi |-> move_32_pi, move_32_pd |-> move_32_pd, move_32_di |-> move_32_di,
   move_32_ix |-> move_32_ix, move_32_aw |-> move_32_aw, move_32_al |-> move_32_al,
   movea_16 |-> movea_16, movea_32 |-> movea_32, moveq_32 |-> moveq_32,
   move_16_frc |-> move_16_frc, move_16_frs |-> move_16_frs, move_16_toc |-> move_16_toc,
   movem_16_re |-> movem_16_re, movem_32_re |-> movem_32_re, movem_16_er |-> movem_16_er,
   movem_32_er |-> movem_32_er, movep_re_16 |-> movep_re(2), movep_re_32 |-> movep_re(4),
   movep_er_16 |-> movep_er(2), movep_er_32 |-> movep_er(4),
   moves_8_er_d |-> moves_8(FALSE, "d"), moves_8_re_d |-> moves_8(TRUE, "d"),
   moves_8_er_a |-> moves_8(FALSE, "a"), moves_8_re_a |-> moves_8(TRUE, "a"),
   moves_16_er_d |-> moves_16(FALSE, "d"), moves_16_re_d |-> moves_16(TRUE, "d"),
   moves_16_er_a |-> moves_16(FALSE, "a"), moves_16_re_a |-> moves_16(TRUE, "a"),
   moves_32_er_d |-> moves_32(FALSE, "d"), moves_32_re_d |-> moves_32(TRUE, "d"),
   moves_32_er_a |-> moves_32(FALSE, "a"), moves_32_re_a |-> moves_32(TRUE, "a"),
   move16_32 |-> move16_32, lea_32 |-> lea_32, pea_32 |-> pea_32, jmp_32 |-> jmp_32,
   jsr_32 |-> jsr_32, bra_8 |-> bra(0), bra_16 |-> bra(1), bra_32 |-> bra(2),
   bsr_8 |-> bsr(0), bsr_16 |-> bsr(1), bsr_32 |-> bsr(2), bcc_8 |-> bcc_8,
   bcc_16 |-> bcc_16, bcc_32 |-> bcc_32, nop |-> nop, dbt_16 |-> dbt_16,
   dbf_16 |-> dbf_16,
   dbcc_16 |-> dbcc_16, st_8 |-> st_8, sf_8 |-> sf_8, scc_8_d |-> scc_8_d,
   shi_8 |-> scc_8("HI"), slt_8 |-> scc_8("LT"), rts_32 |-> rts_32, rtr_32 |-> rtr_32,
   rtd_32 |-> rtd_32, link_16 |-> link(1), link_32 |-> link(2), unlk_32 |-> unlk_32,
   trap_0 |-> trap_0, trapv_0 |-> trapv_0, trapt_0 |-> trapt(0), trapt_16 |-> trapt(1),
   trapt_32 |-> trapt(2), trapf_0 |-> trapf(0), trapf_16 |-> trapf(1),
   trapf_32 |-> trapf(2), trapcc_0 |-> trapcc_0, trapcc_16 |-> trapcc_16,
   trapcc_32 |-> trapcc_32, bfchg_32 |-> bfchg_32, bfclr_32 |-> bfclr_32,
   bfset_32 |-> bfset_32, bfins_32 |-> bfins_32, bfextu_32 |-> bfextu_32,
   bfexts_32 |-> bfexts_32, bfffo_32 |-> bfffo_32, bftst_32 |-> bftst_32, cas_8 |-> cas_8,
   cas_16 |-> cas_16, cas_32 |-> cas_32, cas2_16_d |-> cas2_16("d"),
   cas2_16_a |-> cas2_16("a"), cas2_32_d |-> cas2_32("d"), cas2_32_a |-> cas2_32("a")]

\* m68k_execute fetches the opcode, the handler does the rest.
Handler(i) == m68k_opcode_handler_table[i.name][i.key]
Code(i) == <<Fetch(1)>> \o Handler(i)
Instruction(name, key, ir) == [name |-> name, key |-> key, ir |-> ir]

\* What the opcodes of a mode can say: bytes on the stack have modes of
\* their own, and A7 as the frame pointer has handlers of its own.
Encodable(i) ==
  /\ \A j \in DOMAIN Handler(i) :
       LET u == Handler(i)[j]
       IN u.step = "address" =>
            /\ u.mode \in {"pi", "pd"} /\ u.sz = 1 => RegisterNumber(i.ir, u.r) # 7
            /\ u.mode \in {"pi7", "pd7"} => RegisterNumber(i.ir, u.r) = 7
  /\ i.name \in {"link_16", "link_32", "unlk_32"} => (i.key = "a7") = (i.ir.y = 7)

Instructions ==
  {i \in UNION {{Instruction(n, k, ir) : k \in DOMAIN m68k_opcode_handler_table[n]} :
                  n \in DOMAIN m68k_opcode_handler_table, ir \in RegisterNumbers} :
     Encodable(i)}

(***************************************************************************)
(* Programs that undo what they do.  A "saved" program keeps registers in  *)
(* memory and loads them back, an "undone" one does something and its      *)
(* inverse, one that "spends" DX works through it, and a "call" returns.   *)
(***************************************************************************)
Program(kind, instructions) == [kind |-> kind, instructions |-> instructions]
Twice(kind, i) == Program(kind, <<i, i>>)
Swapped(ir) == [ir EXCEPT !.x = ir.y, !.y = ir.x, !.imm = (Mod(2) - ir.imm) % Mod(2)]

Saving(ir) ==
  LET I(n, k) == Instruction(n, k, ir)
  IN {Program("saved", <<I("movem_32_re", "pd"), I("moveq_32", "-"), I("movem_32_er", "pi")>>),
      Program("saved", <<I("movep_re_32", "-"), I("moveq_32", "-"), I("movep_er_32", "-")>>),
      Program("saved", <<I("link_16", "-"), I("pea_32", "aw"), I("unlk_32", "-")>>),
      Program("saved", <<I("moves_32_re_d", "ai"), I("moves_32_er_d", "ai")>>)}
Undoing(ir) ==
  LET I(n, k) == Instruction(n, k, ir)
  IN {Twice("undone", I("exg_32", k)) : k \in {"dd", "aa", "da"}}
     \cup {Twice("undone", I(n, k)) :
             n \in {"eor_8", "eor_32", "not_16", "bchg_r", "bchg_s", "neg_32"}, k \in {"d", "ai"}}
     \cup {Twice("undone", I("swap_32", "-"))}
     \cup {Program("undone", <<I("addq_16", k), I("subq_16", k)>>) : k \in {"d", "a", "di"}}
     \cup {Program("undone", <<I("add_32_re", k), I("sub_32_re", k)>>) : k \in {"ai", "al"}}
     \cup {Program("undone", <<I("rol_r_16", "-"), I("ror_r_16", "-")>>),
           Program("undone", <<I("roxl_r_32", "-"), I("roxr_r_32", "-")>>)}
Spending(ir) ==
  {Program("spends", <<Instruction("bfextu_32", k, ir), Instruction("bfins_32", k, ir)>>) :
     k \in {"d", "ai", "di"}}
  \cup {Program("spends", <<Instruction("unpk_16_rr", "-", ir),
                            Instruction("pack_16_rr", "-", Swapped(ir))>>)}
Calling(ir) ==
  {Program("call", <<Instruction(n, "-", ir), Instruction("rts_32", "-", ir)>>) :
     n \in {"bsr_8", "bsr_16", "bsr_32"}}
  \cup {Program("call", <<Instruction("jsr_32", k, ir), Instruction("rts_32", "-", ir)>>) :
          k \in {"ai", "al", "pcix"}}

\* The registers an inverse relies on are different ones.
Apart(p) ==
  LET ir == p.instructions[1].ir
  IN CASE p.kind = "saved" -> ir.y \notin {1, 7} /\ ir.p # ir.y
       [] p.kind = "undone" -> ir.x # ir.y
       [] p.kind = "spends" -> ir.x \notin {ir.y, ir.p, ir.q}
       [] p.kind = "call" -> TRUE

Programs ==
  {Program("one", <<i>>) : i \in Instructions}
    \cup {p \in UNION {Saving(ir) \cup Undoing(ir) \cup Spending(ir) \cup Calling(ir) :
                         ir \in RegisterNumbers} : Apart(p)}

-----------------------------------------------------------------------------
VARIABLES
  program,
  next,      \* the instruction m68k_execute is about to execute
  cpu,
  start,     \* the state the program started in
  faults     \* bus errors so far

vars == <<program, next, cpu, start, faults>>

Init ==
  /\ program \in Programs
  /\ next = 1
  /\ cpu \in Starts
  /\ start = cpu
  /\ faults = 0

Running == next <= Len(program.instructions) /\ cpu.trap = "none"
This == program.instructions[next]

\* m68k_execute: the handler runs to its end.
Complete ==
  /\ Running
  /\ cpu' = Execute(cpu, This.ir, Code(This))
  /\ next' = next + 1
  /\ UNCHANGED <<program, start, faults>>

\* m68ki_exception_bus_error, and the return to the instruction
Interrupted ==
  /\ Running /\ faults < MaxFaults
  /\ cpu' \in Faulted(cpu, This.ir, Code(This))
  /\ faults' = faults + 1
  /\ UNCHANGED <<program, next, start>>

Next == Complete \/ Interrupted

Spec == Init /\ [][Next]_vars

-----------------------------------------------------------------------------
(***************************************************************************)
(* Every handler keeps registers, memory and the PC within their widths,   *)
(* also when it was cut off.                                               *)
(***************************************************************************)
MachineTypeOK == cpu \in Machine /\ next \in 1 .. 4 /\ faults \in 0 .. MaxFaults

Done == ~Running

\* the program without bus errors
Undisturbed ==
  LET after[n \in 0 .. Len(program.instructions)] ==
        IF n = 0 THEN start
        ELSE LET before == after[n - 1]  i == program.instructions[n]
             IN IF before.trap = "none" THEN Execute(before, i.ir, Code(i)) ELSE before
  IN after[Len(program.instructions)]

(***************************************************************************)
(* Instructions that cannot start again: those that set X, or the Z that   *)
(* is only ever cleared, before the write that may fault, and start from   *)
(* it; and any that overwrites memory it reads when it starts again, as    *)
(* the second write of a bit field or of CAS2 may find, or a MOVE.L to     *)
(* -(An) and a MOVEM that reach their own source or pointer.               *)
(***************************************************************************)
NotRestartable ==
  {"addx_8_mm", "addx_mm_16", "addx_mm_32", "subx_8_mm", "subx_mm_16", "subx_mm_32",
   "abcd_8_mm", "sbcd_8_mm", "nbcd_8", "negx_8", "negx_16", "negx_32", "roxl_16", "roxr_16"}

OverwritesSource(trace, code) ==
  \E k \in DOMAIN code :
    /\ Runs(trace[k], code[k])
    /\ \E l \in k + 1 .. Len(code) : MayFault(trace[l], code[l])
    /\ \E j \in 1 .. k - 1 :
         /\ Runs(trace[j], code[j])
         /\ Reads(trace[j], Inner(code[j])) \cap Writes(trace[k], Inner(code[k])) # {}
OverwritesItsSource(i) == OverwritesSource(Trace(Start(start, i.ir), Code(i)), Code(i))

Restartable ==
  \A n \in DOMAIN program.instructions :
    program.instructions[n].name \notin NotRestartable
Alone == Len(program.instructions) = 1

(***************************************************************************)
(* A bus error at any access of an instruction leaves a state from which   *)
(* the instruction, started again, does what it would have done: the       *)
(* purpose of REG_DA_SAVE in m68k_execute and m68ki_exception_bus_error.   *)
(***************************************************************************)
RestartHarmless ==
  Done /\ Restartable /\ (Alone => ~OverwritesItsSource(program.instructions[1]))
    => cpu = Undisturbed

(***************************************************************************)
(* What a program did and undid is undone: the registers, the memory, the  *)
(* stack pointer and the return address, bus errors in between or not.     *)
(***************************************************************************)
Kept(kind, ir) == IF kind = "spends" THEN Registers \ {ir.x} ELSE Registers
RoundTrip ==
  Done /\ program.kind # "one" =>
    LET first == program.instructions[1]
    IN  /\ \A r \in Kept(program.kind, first.ir) : cpu.d[r] = start.d[r]
        /\ cpu.a = start.a
        /\ program.kind \in {"undone", "spends"} => cpu.mem = start.mem
        /\ program.kind = "call" =>
             cpu.pc = start.pc + 2 * MapThenSumSet(
               LAMBDA j : Code(first)[j].words,
               {j \in DOMAIN Code(first) : Code(first)[j].step = "fetch"})
=============================================================================
