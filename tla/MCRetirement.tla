---------------------------- MODULE MCRetirement ----------------------------
(* Programs for model checking Retirement.  They boot at 0, run a loop that *)
(* ends before 6, and have their handler at 6 and 7; with a vectored mtvec *)
(* the handlers of the sources are at 6 + 12, 6 + 28 and 6 + 44.           *)
EXTENDS Retirement

Op(cls, pc)         == [cls |-> cls, next |-> pc + 1, pred |-> pc + 1, fault |-> "none",
                        write |-> "none", arg |-> 0]
Csr(write, pc)      == [Op("csr_m", pc) EXCEPT !.write = write]
Fault(pc, kind)     == [Op("int", pc) EXCEPT !.fault = kind]
Jump(cls, to, pred) == [Op(cls, 0) EXCEPT !.next = to, !.pred = pred]

(* Addresses behind an MRET are fetched, never executed.                   *)
MCPc      == 0 .. 8 \cup {18, 19, 34, 35, 50, 51}
MCHandler == 6

Code(body) ==
  [pc \in MCPc |-> IF pc <= 5 THEN body[pc + 1]
                   ELSE IF pc = 6 THEN Op("int", 6)
                   ELSE [Op("mret", pc) EXCEPT !.next = 8, !.pred = IF pc + 1 \in MCPc THEN pc + 1 ELSE 8]]

(* Interrupts on, then a loop of four instructions.                        *)
Body(i2, i3, i4, i5) == Code(<< Csr("mie", 0), Csr("mstatus_mie", 1), i2, i3, i4, i5 >>)

Loop == Jump("jal", 2, 2)

Plain    == Body(Op("store", 2), Op("int", 3), Op("wfi", 4), Loop)
Atomic   == Body(Op("amo", 2), Op("int", 3), Op("store", 4), Loop)
Wrong    == Body(Jump("jalr", 4, 3), Op("int", 3), Op("store", 4), Jump("jal", 2, 7))
Critical == Body(Csr("mstatus_mie_clear", 2), Op("store", 3), Csr("mstatus_mie", 4), Loop)
Faulty   == Body(Op("store", 2), Fault(3, "misaligned"), Op("int", 4), Loop)
Sync     == Body(Op("store", 2), Op("fence_i", 3), Op("int", 4), Loop)
WrongCsr == Body(Jump("jalr", 4, 3), Csr("mie_clear", 3), Op("store", 4), Loop)
WrongAmo == Body(Op("store", 2), Jump("jalr", 5, 4), Op("amo", 4), Loop)
Windows  == Body(Op("wfi", 2), Op("amo", 3), Csr("mstatus_mie_clear", 4), Jump("jal", 1, 1))
WrongWfi == Body(Jump("jalr", 5, 3), Op("wfi", 3), Op("int", 4), Loop)

(* The loop runs in user mode, entered by an MRET.                         *)
User == Code(<< Csr("mie", 0), [Csr("mepc", 1) EXCEPT !.arg = 3], Op("mret", 2),
                Op("store", 3), Op("csr_u", 4), Jump("jal", 3, 3) >>)

(* One device, or two told apart by a vectored mtvec.                      *)
Direct(code)   == [code |-> code, vectored |-> FALSE, lines |-> {"mti"}]
Vectored(code) == [code |-> code, vectored |-> TRUE, lines |-> {"msi", "mti"}]

AllPrograms ==
  {Direct(c) : c \in {Plain, Wrong, WrongCsr, Critical, Faulty, Sync, User, Atomic, WrongAmo}}
    \cup {Vectored(c) : c \in {Critical, Faulty}}
WfiPrograms    == {Direct(WrongWfi)}
SyncPrograms   == {Direct(Sync)}
LivePrograms   == {Direct(Windows)}
StarvePrograms == {Direct(Atomic)}

(* Seen from the head.  What is left in freed entries, and the faults and  *)
(* mtval, which nothing else reads, are left out.                          *)
Rel(S)   == {TagSub(t, HeadIdx) : t \in S}
FromHead(f, S) == [k \in Rel(S) |-> f[TagAdd(HeadIdx, k)]]

RelativeState ==
  << Count, Rel(head_clear_mask), Rel(head_next_clear_mask), Rel(rob_valid),
     Rel(rob_done \cap rob_valid), Rel(rob_exception \cap rob_valid),
     Rel(rob_mispredicted \cap rob_valid), Rel(rob_early_recovered \cap rob_valid),
     FromHead(rob_class, rob_valid), FromHead(rob_pc, rob_valid),
     dispatch_full_q, dispatch_full_for_2_q, serial_state, fence_i_committed,
     program, i_interrupts, fetch_pc, refill, csr_in_flight,
     trapVars, recVars, ctlVars, memVars, arch_pc,
     mstatus_mie, mstatus_mpie, mpp_user, priv_user, mie, mepc, mcause >>

=============================================================================
