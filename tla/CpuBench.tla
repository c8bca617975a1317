------------------------------ MODULE CpuBench ------------------------------
(***************************************************************************)
(* The CPU bench (verif/cocotb_tests: test_cpu.py, test_common.py,         *)
(* test_state.py, cpu_model.py, instruction_executor.py and                *)
(* verif/monitors/monitors.py): it feeds generated instructions one per    *)
(* ready clock, predicts register files, PCs and memory writes, and        *)
(* compares them with the core's outputs as they appear.                   *)
(*                                                                         *)
(* The core is the one the bench's pipeline offsets describe (config.py):  *)
(* an instruction fed at one clock resolves in EX three clocks later,      *)
(* writes memory in MA one clock after that and retires at the sixth; o_pc *)
(* shows the fetch address from the fourth clock on.  Its results come     *)
(* from the datapath's own operators.                                      *)
(***************************************************************************)
EXTENDS InstructionGen

CONSTANT MaxStalls    \* bound: stalled clocks of a behaviour

PIPELINE_DEPTH == 6
PIPELINE_FLUSH_CYCLES == 3
PIPELINE_IF_TO_EX_CYCLES == 3

VARIABLES state,      \* TestState without its queues
          ram,        \* MemoryModel.ram_bytes
          expected,   \* the expected-value queues
          todo,       \* the operations still to be generated
          phase,      \* where the test coroutine is: "warmup", "loop", "drain" or "done"
          core,       \* the core, and its memory
          alarm       \* the monitor that raised, or None

cpu_vars == <<state, ram, expected, todo, phase, core, alarm>>

NOP == [op |-> "addi", rd |-> 0, rs1 |-> 0, rs2 |-> 0, imm |-> 0]
FpRegisters == 0 .. 1

-----------------------------------------------------------------------------
(* test_state.py *)

InitialState(regs) ==
    [register_file_current |-> regs, register_file_previous |-> regs,
     fp_register_file_current |-> [r \in FpRegisters |-> 0], fp_register_file_previous |-> [r \in FpRegisters |-> 0],
     program_counter_current |-> 8, program_counter_previous |-> 4, program_counter_two_cycles_ago |-> 0,
     branch_taken_current |-> FALSE, branch_taken_previous |-> FALSE, branch_taken_two_cycles_ago |-> FALSE,
     csr_cycle_counter |-> 0, csr_instret_counter |-> 0, reservation |-> None,
     last_sc |-> [succeeded |-> FALSE, address |-> 0, data |-> 0]]

FlushOfTwo(s) == s.branch_taken_current \/ s.branch_taken_previous  \* mutant: two flush slots
is_in_flush(s) == s.branch_taken_current \/ s.branch_taken_previous \/ s.branch_taken_two_cycles_ago

advance_branch_state(s) ==
    [s EXCEPT !.branch_taken_two_cycles_ago = s.branch_taken_previous,
              !.branch_taken_previous = s.branch_taken_current,
              !.branch_taken_current = FALSE]
update_program_counter(s, pc) ==
    [s EXCEPT !.program_counter_two_cycles_ago = s.program_counter_previous,
              !.program_counter_previous = s.program_counter_current,
              !.program_counter_current = pc]
update_register(s, r, value) ==
    IF r = 0 THEN s ELSE [s EXCEPT !.register_file_current[r] = MASK32(value)]
update_fp_register(s, r, value) == [s EXCEPT !.fp_register_file_current[r] = value % 2^(2 * XLEN)]
advance_register_state(s) ==
    [s EXCEPT !.register_file_previous = s.register_file_current,
              !.fp_register_file_previous = s.fp_register_file_current]
increment_counters(s) == [s EXCEPT !.csr_cycle_counter = @ + 1, !.csr_instret_counter = @ + 1]

set_reservation(s, address) == [s EXCEPT !.reservation = align_address(address, 4)]
clear_reservation(s) == [s EXCEPT !.reservation = None]
check_reservation(s, address) == s.reservation # None /\ align_address(address, 4) = s.reservation

get_csr_value(s, csr) ==
    LET cycle_at_ex == s.csr_cycle_counter + PIPELINE_IF_TO_EX_CYCLES
        instret == s.csr_instret_counter - PIPELINE_IF_TO_EX_CYCLES
        instret_at_ex == IF instret < 0 THEN 0 ELSE instret
    IN  CASE csr \in {"cycle", "time"} -> MASK32(cycle_at_ex)
          [] csr \in {"cycleh", "timeh"} -> MASK32(cycle_at_ex \div 2^XLEN)
          [] csr = "instret" -> MASK32(instret_at_ex)
          [] csr = "instreth" -> MASK32(instret_at_ex \div 2^XLEN)
          [] csr = "mcounteren" -> 7
          [] OTHER -> 0

queue_expected_outputs(q, s, pc) ==
    [q EXCEPT !.registers = Append(@, s.register_file_current),
              !.fp_registers = Append(@, s.fp_register_file_current),
              !.program_counter = Append(@, pc)]
has_pending_expectations(q) ==
    q.registers # <<>> \/ q.fp_registers # <<>> \/ q.program_counter # <<>> \/ q.memory_write # <<>>

-----------------------------------------------------------------------------
(* cpu_model.py *)

FP_OPS_TO_FP_REG == Names(FP_LOADS) \cup Names(FP_MV_I2F)
NoWrite == Names(STORES) \cup Names(BRANCHES) \cup Names(FENCES) \cup Names(FP_STORES)
UnaryOps == Names(I_UNARY) \cup {"zext_h"}

\* A register not boxed as a single reads as the canonical NaN.
FP_CANONICAL_NAN == 2^(XLEN - 1) - 2^(XLEN \div 4)
unbox32(value) == IF value \div 2^XLEN # 2^XLEN - 1 THEN FP_CANONICAL_NAN ELSE MASK32(value)

\* The address of a load or an atomic.
read_address(s, i) ==
    IF i.op \in Atomics THEN align_address(s.register_file_previous[i.rs1], 4)
    ELSE MASK32(s.register_file_previous[i.rs1] + i.imm)

_compute_writeback_value(s, m, i) ==
    LET a == s.register_file_previous[i.rs1]
        b == s.register_file_previous[i.rs2]
    IN  CASE i.op \in JUMPS -> MASK32(s.program_counter_two_cycles_ago + 4)
          [] i.op \in Names(CSRS) -> get_csr_value(s, i.imm)
          [] i.op \in Names(LOADS) \cup Names(FP_LOADS) -> LoadEvaluator(i.op, m, read_address(s, i))
          [] i.op \in Names(I_ALU) \cup Names(I_SHIFT) -> Evaluator(i.op, a, MASK32(i.imm))
          [] i.op \in UnaryOps -> UnaryEvaluator(i.op, a)
          [] i.op \in Names(R_ALU) -> Evaluator(i.op, a, b)
          [] i.op \in Names(AMO) \cup {"lr_w"} -> lw(m, read_address(s, i))
          [] i.op = "sc_w" -> IF check_reservation(s, align_address(a, 4)) THEN 0 ELSE 1
          [] i.op = "fmv_x_w" -> unbox32(s.fp_register_file_previous[i.rs1])
          [] i.op = "fmv_w_x" -> box32(a)
          [] OTHER -> 0

\* The reservation and the recorded outcome after a writeback value.
AfterAtomic(s, i) ==
    CASE i.op = "lr_w" -> set_reservation(s, read_address(s, i))
      [] i.op = "sc_w" ->
            LET address == align_address(s.register_file_previous[i.rs1], 4)
            IN  [clear_reservation(s) EXCEPT
                    !.last_sc = [succeeded |-> check_reservation(s, address), address |-> address,
                                 data |-> s.register_file_previous[i.rs2]]]
      [] OTHER -> s

_compute_expected_program_counter(s) == MASK32(s.program_counter_current + 4)

model_instruction_execution(s, m, i) ==
    LET taken == CASE i.op \in Names(BRANCHES) ->
                         branch_taken_decision(i.op, s.register_file_previous[i.rs1], s.register_file_previous[i.rs2])
                   [] OTHER -> i.op \in JUMPS
        value == _compute_writeback_value(s, m, i)
        after == AfterAtomic([s EXCEPT !.branch_taken_current = taken], i)
    IN  [state |-> IF i.op \in NoWrite THEN after
                   ELSE IF i.op \in FP_OPS_TO_FP_REG THEN update_fp_register(after, i.rd, value)
                   ELSE update_register(after, i.rd, value),
         expected_pc |-> _compute_expected_program_counter(s)]

\* A taken jump leaves target - 4, so that the flush NOPs expect the target.
calculate_internal_pc_update(s, i, expected_pc) ==
    IF i.op = "jal" \/ (i.op \in Names(BRANCHES) /\ s.branch_taken_current)
    THEN MASK32(s.program_counter_two_cycles_ago + i.imm - 4)
    ELSE IF i.op = "jalr" THEN MASK32(align_address(MASK32(s.register_file_previous[i.rs1] + i.imm), 2) - 4)
    ELSE expected_pc

\* The memory after an expected write, and the write: the address and the
\* replicated beat.  None if the instruction writes nothing.
NoWriteOf(m) == [ram |-> m, write |-> None]
WordWrite(m, address, data) ==
    [ram |-> write_word(m, address, data), write |-> <<address, replicate_store_data_for_beat("sw", data)>>]

model_sc_write(s, m, i) ==
    IF s.last_sc.succeeded THEN WordWrite(m, s.last_sc.address, s.last_sc.data) ELSE NoWriteOf(m)

\* The strobed lanes of the beat land in the containing dword.
LanesWritten(m, address, beat, lanes) ==
    FoldLeft(LAMBDA r, k : IF k - 1 \in lanes THEN write_byte(r, align_address(address, 8) + k - 1, beat[k - 1]) ELSE r,
             m, [k \in 1 .. 8 |-> k])

model_memory_write(s, m, i) ==
    LET address == MASK32(s.register_file_previous[i.rs1] + i.imm)
        fp_value == s.fp_register_file_previous[i.rs2]
        value == s.register_file_previous[i.rs2]
    IN  CASE i.op = "sc_w" -> model_sc_write(s, m, i)
          [] i.op \in Names(AMO) ->
                LET word == read_address(s, i) IN WordWrite(m, word, AmoEvaluator(i.op, lw(m, word), value))
          [] i.op = "fsd" ->
                [ram |-> write_dword(m, address, fp_value),
                 write |-> <<address, replicate_store_data_for_beat("fsd", fp_value)>>]
          [] i.op = "fsw" -> WordWrite(m, address, MASK32(fp_value))
          [] i.op \in Names(STORES) ->
                LET beat == replicate_store_data_for_beat(i.op, value)
                IN  [ram |-> LanesWritten(m, address, beat, calculate_byte_mask_for_store(i.op, get_beat_byte_offset(address))),
                     write |-> <<address, beat>>]
          [] OTHER -> NoWriteOf(m)

-----------------------------------------------------------------------------
(* The core *)

InitialCore(regs, memory) ==
    [fetch_pc |-> 0, pipe |-> <<>>, regs |-> regs, fregs |-> [r \in FpRegisters |-> 0], memory |-> memory,
     reservation |-> None, cycle |-> 0, instret |-> 0]

CsrRead(c, csr) ==
    CASE csr \in {"cycleh", "timeh"} -> MASK32(c.cycle \div 2^XLEN)
      [] csr = "instret" -> MASK32(c.instret)
      [] csr = "instreth" -> MASK32(c.instret \div 2^XLEN)

\* The value an instruction writes to rd, from the datapath.
Result(c, i, pc) ==
    LET a == c.regs[i.rs1]
        b == c.regs[i.rs2]
    IN  CASE i.op \in JUMPS -> MASK32(pc + 4)
          [] i.op \in Names(CSRS) -> CsrRead(c, i.imm)
          [] i.op \in Names(LOADS) \cup Names(FP_LOADS) ->
                LET address == MASK32(a + i.imm) IN load_unit(i.op, address, BeatAt(c.memory, address))
          [] i.op \in {"mul", "mulh", "mulhsu", "mulhu", "div", "divu", "rem", "remu"} -> int_muldiv(i.op, a, b)
          [] i.op \in Names(I_ALU) \cup Names(I_SHIFT) -> alu(i.op, a, MASK32(i.imm))
          [] i.op \in UnaryOps -> alu(i.op, a, 0)
          [] i.op \in Names(R_ALU) -> alu(i.op, a, b)
          [] i.op \in Names(AMO) \cup {"lr_w"} -> load_unit("lw", a, BeatAt(c.memory, a))
          [] i.op = "sc_w" -> IF c.reservation = a THEN 0 ELSE 1
          [] i.op = "fmv_x_w" -> MASK32(c.fregs[i.rs1])
          [] i.op = "fmv_w_x" -> (2^XLEN - 1) * 2^XLEN + a

\* The memory write of an instruction: address, beat and strobes, or None.
WriteOf(c, i) ==
    LET a == c.regs[i.rs1]
        beat(address, size, data) == <<address, gen_write_data(data, size), mem_strobe_for(size, address % 8)>>
        old == load_unit("lw", a, BeatAt(c.memory, a))
    IN  CASE i.op \in Names(STORES) -> beat(MASK32(a + i.imm), MEM_SIZE(i.op), c.regs[i.rs2])
          [] i.op \in Names(FP_STORES) -> beat(MASK32(a + i.imm), MEM_SIZE(i.op), c.fregs[i.rs2])
          [] i.op \in Names(AMO) -> beat(a, 2, amo_compute(i.op, old, c.regs[i.rs2]))
          [] i.op = "sc_w" /\ c.reservation = a -> beat(a, 2, c.regs[i.rs2])
          [] OTHER -> None

Taken(c, i) ==
    i.op \in JUMPS \/ (i.op \in Names(BRANCHES) /\ branch_taken(i.op, c.regs[i.rs1], c.regs[i.rs2]))
Target(c, i, pc) ==
    IF i.op = "jalr" THEN LET t == MASK32(c.regs[i.rs1] + i.imm) IN t - (t % 2) ELSE MASK32(pc + i.imm)

\* EX of a slot: the core's registers and memory with its result and its write.
WrittenBack(c, i, value, w) ==
    LET toFp == i.op \in FP_OPS_TO_FP_REG
    IN  [c EXCEPT
            !.regs = IF i.op \in NoWrite \/ toFp \/ i.rd = 0 THEN @ ELSE [@ EXCEPT ![i.rd] = value],
            !.fregs = IF toFp THEN [@ EXCEPT ![i.rd] = value] ELSE @,
            !.memory = IF w = None THEN @ ELSE Strobed(@, w[1], w[2], w[3]),
            !.reservation = IF i.op = "lr_w" THEN c.regs[i.rs1] ELSE IF i.op = "sc_w" THEN None ELSE @]
Executed(c, slot) == WrittenBack(c, slot.insn, Result(c, slot.insn, slot.pc), WriteOf(c, slot.insn))

\* The core after a ready clock at which insn is fed.  Slot k of the pipe p
\* entered k - 1 clocks ago: slot 4 is in EX, and when it redirects the
\* fetch the three slots behind it are squashed.
Advanced(c, p, inEx, ex) ==
    LET redirect == inEx /\ Taken(c, p[4].insn)
    IN  [ex EXCEPT
            !.pipe = [k \in DOMAIN p |->
                        IF k < 4 THEN [p[k] EXCEPT !.squashed = @ \/ redirect]
                        ELSE IF k = 4 THEN [p[4] EXCEPT !.regs = ex.regs, !.fregs = ex.fregs,
                                                        !.write = IF inEx THEN WriteOf(c, p[4].insn) ELSE None]
                        ELSE p[k]],
            !.fetch_pc = IF redirect THEN Target(c, p[4].insn, p[4].pc) ELSE MASK32(@ + 4),
            !.cycle = @ + 1,
            !.instret = IF Len(p) = PIPELINE_DEPTH + 1 THEN @ + 1 ELSE @]
Clocked(c, insn) ==
    LET fed == [insn |-> insn, pc |-> c.fetch_pc, squashed |-> FALSE, regs |-> c.regs, fregs |-> c.fregs, write |-> None]
        p == <<fed>> \o c.pipe
        inEx == Len(p) >= 4 /\ ~p[4].squashed
    IN  Advanced(c, p, inEx, IF inEx THEN Executed(c, p[4]) ELSE c)
Retired(c) == [c EXCEPT !.pipe = SubSeq(@, 1, IF Len(@) > PIPELINE_DEPTH THEN PIPELINE_DEPTH ELSE Len(@))]

-----------------------------------------------------------------------------
(* monitors.py, and driver_and_monitor of memory_model.py *)

RegistersMatch(hw_val, sw_val) == \A r \in DOMAIN hw_val \ {0} : hw_val[r] = sw_val[r]

\* Each monitor pops its queue when its output is valid, and raises on an
\* empty queue or on a difference.  c is the core at the clock.
o_pc_vld(c) == Len(c.pipe) >= 4
o_vld(c) == Len(c.pipe) = PIPELINE_DEPTH + 1
o_write(c) == IF Len(c.pipe) >= 5 THEN c.pipe[5].write ELSE None

pc_monitor(c, q) == o_pc_vld(c) => q.program_counter # <<>> /\ Head(q.program_counter) = c.pipe[1].pc
regfile_monitor(c, q) == o_vld(c) => q.registers # <<>> /\ RegistersMatch(c.pipe[7].regs, Head(q.registers))
fp_regfile_monitor(c, q) == o_vld(c) => q.fp_registers # <<>> /\ Head(q.fp_registers) = c.pipe[7].fregs
driver_and_monitor(c, q) ==
    o_write(c) # None =>
        q.memory_write # <<>> /\ Head(q.memory_write) = <<o_write(c)[1], o_write(c)[2]>>

Raised(c, q) ==
    CASE ~driver_and_monitor(c, q) -> "driver_and_monitor"
      [] ~pc_monitor(c, q) -> "pc_monitor"
      [] ~regfile_monitor(c, q) -> "regfile_monitor"
      [] ~fp_regfile_monitor(c, q) -> "fp_regfile_monitor"
      [] OTHER -> None

Popped(queue, valid) == IF valid /\ queue # <<>> THEN Tail(queue) ELSE queue
AfterMonitors(c, q) ==
    [registers |-> Popped(q.registers, o_vld(c)), fp_registers |-> Popped(q.fp_registers, o_vld(c)),
     program_counter |-> Popped(q.program_counter, o_pc_vld(c)),
     memory_write |-> Popped(q.memory_write, o_write(c) # None)]

-----------------------------------------------------------------------------
(* test_common.py, test_cpu.py and instruction_executor.py *)

\* A ready clock: insn is fed, the test has queued q, the core clocks and
\* the monitors sample its outputs.
Clock(insn, q) ==
    \E c \in {Clocked(core, insn)} :
        /\ core' = Retired(c)
        /\ alarm' = Raised(c, q)
        /\ expected' = AfterMonitors(c, q)

CpuInit(regs, memory, ops) ==
    /\ state = InitialState(regs)
    /\ ram = memory /\ core = InitialCore(regs, memory)
    /\ expected = [registers |-> <<>>, fp_registers |-> <<>>, program_counter |-> <<>>, memory_write |-> <<>>]
    /\ todo = ops
    /\ phase = <<"warmup", PIPELINE_DEPTH>>
    /\ alarm = None

\* warmup_pipeline: one NOP.
Warmup ==
    LET pc == MASK32(state.program_counter_current + 4)
    IN  /\ alarm = None /\ phase[1] = "warmup"
        /\ Clock(NOP, queue_expected_outputs(expected, state, pc))
        /\ state' = advance_register_state(update_program_counter(increment_counters(state), pc))
        /\ phase' = IF phase[2] = 1 THEN <<"loop", 0>> ELSE <<"warmup", phase[2] - 1>>
        /\ UNCHANGED <<ram, todo>>

\* The core is not ready: the test waits, and counts the clock.
Stall ==
    /\ alarm = None /\ phase[1] = "loop" /\ phase[2] < MaxStalls
    /\ phase' = <<"loop", phase[2] + 1>>
    /\ state' = [state EXCEPT !.csr_cycle_counter = @ + 1]
    /\ core' = [core EXCEPT !.cycle = @ + 1]
    /\ UNCHANGED <<ram, expected, todo, alarm>>

\* One instruction of run_random_regression, s the state after
\* handle_branch_flush: modelled, queued, fed, and the state advanced.
Drive(s, i) ==
    \E executed \in {model_instruction_execution(s, ram, i)} :
        \E written \in {model_memory_write(executed.state, ram, i)} :
            LET queued == queue_expected_outputs(expected, executed.state, executed.expected_pc)
                pc_update == calculate_internal_pc_update(executed.state, i, executed.expected_pc)
            IN  /\ Clock(i, IF written.write = None THEN queued
                            ELSE [queued EXCEPT !.memory_write = Append(@, written.write)])
                /\ ram' = written.ram
                /\ state' = advance_register_state(update_program_counter(increment_counters(executed.state), pc_update))

\* handle_branch_flush: a NOP in a flush slot.
Flush ==
    /\ alarm = None /\ phase[1] = "loop" /\ is_in_flush(state)
    /\ Drive(advance_branch_state(state), NOP)
    /\ UNCHANGED <<todo, phase>>

\* A generated instruction, or one of a directed test that is fed the same
\* way (lr.w and sc.w in test_directed_atomics.py).
Generate ==
    /\ alarm = None /\ phase[1] = "loop" /\ ~is_in_flush(state) /\ todo # <<>> /\ "draws" \in DOMAIN Head(todo)
    /\ \E i \in generate_random_instruction_with_fp(Head(todo).op, state.register_file_previous, Head(todo).draws, FALSE) :
           Drive(state, i)
    /\ todo' = Tail(todo)
    /\ UNCHANGED phase

\* InstructionExecutor: a directed instruction outside a flush, with m the
\* memory its model reads and q the queues it adds to.
Directed(ops) ==
    /\ alarm = None /\ phase[1] = "loop" /\ ~is_in_flush(state) /\ todo # <<>>
    /\ "draws" \notin DOMAIN Head(todo) /\ Head(todo).op \in ops
    /\ todo' = Tail(todo)
    /\ UNCHANGED phase
Issued(i, m, q) ==
    \E executed \in {model_instruction_execution(state, m, i)} :
        /\ Clock(i, queue_expected_outputs(q, executed.state, executed.expected_pc))
        /\ ram' = m
        /\ state' = advance_register_state(update_program_counter(increment_counters(executed.state),
                                                                  executed.expected_pc))

execute_alu == Directed(Names(R_ALU) \cup Names(I_ALU) \cup Names(I_SHIFT)) /\ Issued(Head(todo), ram, expected)
execute_load == Directed(Names(LOADS)) /\ Issued(Head(todo), ram, expected)

\* The write is modelled before the execution.
execute_store ==
    /\ Directed(Names(STORES))
    /\ \E written \in {model_memory_write(state, ram, Head(todo))} :
           Issued(Head(todo), written.ram, [expected EXCEPT !.memory_write = Append(@, written.write)])

\* The loop is over, possibly within a flush: flush_remaining_outputs pads
\* the PC queue.
EndLoop ==
    LET padded[k \in 0 .. PIPELINE_FLUSH_CYCLES] ==
            IF k = 0 THEN expected.program_counter
            ELSE Append(padded[k - 1], MASK32(state.program_counter_current + 4 * k))
    IN  /\ alarm = None /\ phase[1] = "loop" /\ todo = <<>>
        /\ phase' = <<"drain", 0>>
        /\ expected' = [expected EXCEPT !.program_counter = padded[PIPELINE_FLUSH_CYCLES]]
        /\ UNCHANGED <<state, ram, todo, core, alarm>>

\* A clock of the drain.  The test looks at the queues before the monitors
\* sample the clock, so it ends with the first clock after the last match.
DrainClock ==
    /\ alarm = None /\ phase[1] = "drain" /\ has_pending_expectations(expected)
    /\ Clock(NOP, expected)
    /\ UNCHANGED <<state, ram, todo, phase>>
EndDrain ==
    /\ alarm = None /\ phase[1] = "drain" /\ ~has_pending_expectations(expected)
    /\ phase' = <<"done", 0>>
    /\ UNCHANGED <<state, ram, expected, todo, core, alarm>>

CpuNext == Warmup \/ Stall \/ Flush \/ Generate \/ execute_alu \/ execute_load \/ execute_store \/ EndLoop \/ DrainClock \/ EndDrain

-----------------------------------------------------------------------------
(* Properties *)

\* No monitor raises against a core that executes what it is fed: the
\* model's PC history (the instruction's own PC is the one two updates
\* ago), its three flush NOPs, its register files, its counters and the
\* replicated beats are what an in-order core of the bench's pipeline
\* offsets shows, and no queue is empty when an output is valid.
MonitorsAcceptTheCore == alarm = None

\* The model's registers, PCs and memory keep their widths, and the queues
\* hold no more than the pipeline does.
CpuTypeOK ==
    phase[1] # "idle" =>
        /\ {state.register_file_current, state.register_file_previous} \subseteq [Registers -> 0 .. 2^XLEN - 1]
        /\ {state.fp_register_file_current, state.fp_register_file_previous} \subseteq [FpRegisters -> 0 .. 2^(2 * XLEN) - 1]
        /\ {state.program_counter_current, state.program_counter_previous, state.program_counter_two_cycles_ago}
               \subseteq 0 .. 2^XLEN - 1
        /\ state.reservation \in {None} \cup 0 .. 2^XLEN - 1
        /\ {ram, core.memory} \subseteq RAM
        /\ Len(expected.registers) <= PIPELINE_DEPTH /\ Len(expected.fp_registers) <= PIPELINE_DEPTH
        /\ Len(expected.program_counter) <= PIPELINE_DEPTH /\ Len(expected.memory_write) <= PIPELINE_DEPTH

\* At the end of a test the model and the core hold the same registers,
\* memory and reservation.  The write monitor compares addresses and beats
\* but not strobes, so this is more than the monitors see.
ModelEndsAsTheCore ==
    phase[1] = "done" =>
        /\ state.register_file_current = core.regs /\ state.fp_register_file_current = core.fregs
        /\ ram = core.memory /\ state.reservation = core.reservation
=============================================================================
