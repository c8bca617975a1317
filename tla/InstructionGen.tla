--------------------------- MODULE InstructionGen ---------------------------
(***************************************************************************)
(* The random instruction generator of the CPU bench                       *)
(* (verif/cocotb_tests/instruction_generator.py).  Each random.choice and  *)
(* random.randint is a choice from a set of draws; an operator is the set  *)
(* of the instructions the draws can lead to.                              *)
(*                                                                         *)
(* An instruction is a record with the fields of InstructionParams; imm is *)
(* the immediate, the branch offset or, for a CSR operation, the CSR.      *)
(***************************************************************************)
EXTENDS BenchMemory

CONSTANTS IMM_BITS,       \* the width of an I-type immediate
          BRANCH_BITS,    \* the width of a branch offset
          NUM_REGISTERS
ASSUME GeneratorAssumption ==
    /\ IMM_BITS \in 4 .. XLEN /\ BRANCH_BITS \in 4 .. XLEN
    /\ NUM_REGISTERS \in 2 .. 32

IMM_12BIT_MIN == -(2^(IMM_BITS - 1))
IMM_12BIT_MAX == 2^(IMM_BITS - 1) - 1
MMIO_BASE_ADDR == 2^(XLEN - 2)
Registers == 0 .. NUM_REGISTERS - 1

WORD_ALIGNMENT == 4
Halfwords == {"lh", "lhu", "sh"}
WordOps == {"lw", "sw", "flw", "fsw"}
AlignmentOf(operation) ==
    IF operation \in Halfwords THEN 2 ELSE IF operation \in WordOps THEN WORD_ALIGNMENT
    ELSE IF operation \in {"fld", "fsd"} THEN 8 ELSE 1

\* Integer and FP memory operations with an immediate.
BaseOffset == Names(LOADS) \cup Names(STORES) \cup Names(FP_LOADS) \cup Names(FP_STORES)
Atomics == Names(AMO) \cup Names(AMO_LR_SC)
_RANDOM_MEMORY_OPS == BaseOffset \cup Atomics
JUMPS == {"jal", "jalr"}
ZICNTR_CSRS == {"instret", "cycleh", "timeh", "instreth"}

get_all_operations ==
    UNION { Names(t) : t \in {R_ALU, I_ALU, I_SHIFT, I_UNARY, STORES, LOADS, BRANCHES, FENCES, CSRS, AMO} }
    \cup {"zext_h"} \cup JUMPS
get_fp_operations ==
    UNION { Names(t) : t \in {FP_ARITH_2OP, FP_FMA, FP_SGNJ, FP_MINMAX, FP_CMP, FP_CVT, FP_MV_CLASS, FP_LOADS, FP_STORES} }

\* A full set of draws.
AllDraws == [rd |-> Registers, rs1 |-> Registers, rs2 |-> Registers, imm |-> IMM_12BIT_MIN .. IMM_12BIT_MAX]

-----------------------------------------------------------------------------

_is_mmio_address(address) == MASK32(address) >= MMIO_BASE_ADDR
_effective_address(rs1_value, immediate) == MASK32(rs1_value + immediate)

\* assert_random_memory_access_in_ram holds.
access_in_ram(operation, rs1_value, immediate) ==
    operation \in _RANDOM_MEMORY_OPS => ~_is_mmio_address(_effective_address(rs1_value, immediate))

AdjustToBoundary(rs1_value, immediate, alignment) ==  \* mutant: the distance is not rounded to the alignment
    LET effective_address == _effective_address(rs1_value, immediate)
        new_imm == immediate - (effective_address - MMIO_BASE_ADDR + 1)
    IN  IF _is_mmio_address(effective_address) /\ new_imm \in IMM_12BIT_MIN .. IMM_12BIT_MAX
        THEN new_imm ELSE immediate

_adjust_imm_to_avoid_mmio(rs1_value, immediate, alignment) ==
    LET effective_address == _effective_address(rs1_value, immediate)
        distance_to_start == effective_address - MMIO_BASE_ADDR + alignment
        rounded == ((distance_to_start + alignment - 1) \div alignment) * alignment
        new_imm == immediate - rounded
    IN  IF _is_mmio_address(effective_address) /\ new_imm \in IMM_12BIT_MIN .. IMM_12BIT_MAX
        THEN new_imm ELSE immediate

OrX0(candidates) == IF candidates # {} THEN candidates ELSE {0}
_choose_non_mmio_rs1(regs) == OrX0({ r \in Registers : ~_is_mmio_address(regs[r]) })
_choose_non_mmio_word_aligned_rs1(regs) ==
    OrX0({ r \in Registers : is_aligned(regs[r], WORD_ALIGNMENT) /\ ~_is_mmio_address(regs[r]) })

-----------------------------------------------------------------------------

\* The immediates of a base + offset access before it is kept out of MMIO:
\* aligned ones, or the drawn ones for a byte.  force_one_address has chosen
\* rs1 = 0 and, for bytes only, immediate 0.
AccessImmediates(operation, base, drawn, force_one_address) ==
    IF AlignmentOf(operation) > 1
    THEN generate_aligned_immediate(base, AlignmentOf(operation), drawn, IMM_12BIT_MIN, IMM_12BIT_MAX)
    ELSE IF force_one_address THEN {0} ELSE drawn

\* The base and the immediate a memory access ends up with, from a first
\* choice <<rs1, immediate>>: the immediate is adjusted; if that fails a
\* base outside MMIO is chosen and the immediate drawn and adjusted again;
\* if that fails too, address 0.
RamAccess(operation, regs, rs1, immediate, drawn) ==
    LET alignment == AlignmentOf(operation)
        adjusted(r, imm) == _adjust_imm_to_avoid_mmio(regs[r], imm, alignment)
        outside(r, imm) == _is_mmio_address(_effective_address(regs[r], imm))
        redrawn(r) == IF alignment > 1
                      THEN generate_aligned_immediate(regs[r], alignment, drawn, IMM_12BIT_MIN, IMM_12BIT_MAX)
                      ELSE {adjusted(rs1, immediate)}
        again == UNION { { <<r, adjusted(r, imm)>> : imm \in redrawn(r) } : r \in _choose_non_mmio_rs1(regs) }
    IN  IF ~outside(rs1, adjusted(rs1, immediate)) THEN {<<rs1, adjusted(rs1, immediate)>>}
        ELSE { IF outside(c[1], c[2]) THEN <<0, 0>> ELSE c : c \in again }

\* The jalr immediate: bit 1 of the sum is cleared, and an immediate pushed
\* out of range comes back by a word.
jalr_immediate(rs1_value, base_imm) ==
    LET sum_bits == (rs1_value + base_imm) % 4
        immediate_value == CASE sum_bits = 2 -> base_imm + 2 [] sum_bits = 3 -> base_imm + 1 [] OTHER -> base_imm
    IN  IF immediate_value > IMM_12BIT_MAX THEN immediate_value - 4
        ELSE IF immediate_value < IMM_12BIT_MIN THEN immediate_value + 4
        ELSE immediate_value

\* Branch and jump offsets are multiples of four.
Offsets(drawn) == { 4 * k : k \in drawn } \cap -(2^(BRANCH_BITS - 1)) .. 2^(BRANCH_BITS - 1) - 1

\* The pairs <<rs1, imm>> of an operation.
Sources(operation, regs, draws, force_one_address) ==
    LET rs1s == IF force_one_address THEN {0} ELSE draws.rs1
        Each(imms(_)) == UNION { { <<r, imm>> : imm \in imms(r) } : r \in rs1s }
    IN  CASE operation \in BaseOffset ->
                UNION { UNION { RamAccess(operation, regs, r, imm, draws.imm) :
                                imm \in AccessImmediates(operation, regs[r], draws.imm, force_one_address) } : r \in rs1s }
          [] operation \in Atomics -> { <<r, 0>> : r \in _choose_non_mmio_word_aligned_rs1(regs) }
          [] operation = "jalr" -> Each(LAMBDA r : { jalr_immediate(regs[r], imm) : imm \in draws.imm })
          [] operation = "jal" -> Each(LAMBDA r : Offsets(draws.imm))
          [] operation \in Names(BRANCHES) -> Each(LAMBDA r : { IF off = 0 THEN 4 ELSE off : off \in Offsets(draws.imm) })
          [] operation \in Names(CSRS) -> { <<0, csr>> : csr \in ZICNTR_CSRS }
          [] force_one_address -> {<<0, 0>>}
          [] operation \in Names(I_SHIFT) -> Each(LAMBDA r : { imm \in draws.imm : imm \in 0 .. XLEN - 1 })
          [] operation \in get_fp_operations -> Each(LAMBDA r : {0})
          [] OTHER -> Each(LAMBDA r : draws.imm)

\* The instructions of an operation that random.choice has picked.
InstructionParams(operation, rds, regs, draws, force_one_address) ==
    { [op |-> operation, rd |-> rd, rs1 |-> s[1], rs2 |-> rs2, imm |-> s[2]] :
      rd \in rds, rs2 \in draws.rs2, s \in Sources(operation, regs, draws, force_one_address) }

\* An integer destination is never x0.
generate_random_instruction(operation, regs, draws, force_one_address) ==
    InstructionParams(operation, draws.rd \ {0}, regs, draws, force_one_address)
generate_random_fp_instruction(operation, regs, draws) ==
    InstructionParams(operation, draws.rd, regs, draws, FALSE)
generate_random_instruction_with_fp(operation, regs, draws, force_one_address) ==
    IF operation \in get_fp_operations
    THEN generate_random_fp_instruction(operation, regs, draws)
    ELSE generate_random_instruction(operation, regs, draws, force_one_address)

-----------------------------------------------------------------------------
(* Properties *)

JumpTarget(i, regs, pc) == IF i.op = "jalr" THEN align_address(MASK32(regs[i.rs1] + i.imm), 2) ELSE MASK32(pc + i.imm)

\* Whatever the register values and the draws, a generated instruction is
\* one the bench can model: its immediate can be encoded, an access is
\* aligned and lies whole below the MMIO range (so that the assertion of
\* assert_random_memory_access_in_ram never fires and both memories see the
\* same RAM), and a jump from a word-aligned PC lands on one.
IsLegal(i, regs) ==
    /\ i.op \in Names(I_ALU) \cup BaseOffset \cup {"jalr"} => i.imm \in IMM_12BIT_MIN .. IMM_12BIT_MAX
    /\ access_in_ram(i.op, regs[i.rs1], i.imm)
    /\ i.op \in BaseOffset =>
           LET address == _effective_address(regs[i.rs1], i.imm)
           IN  is_aligned(address, AlignmentOf(i.op)) /\ address + AlignmentOf(i.op) <= MMIO_BASE_ADDR
    /\ i.op \in Atomics => is_aligned(regs[i.rs1], WORD_ALIGNMENT) /\ regs[i.rs1] + 4 <= MMIO_BASE_ADDR
    /\ i.op \in Names(BRANCHES) => i.imm \in -(2^(BRANCH_BITS - 1)) .. 2^(BRANCH_BITS - 1) - 1 /\ i.imm # 0
    /\ i.op \in JUMPS \cup Names(BRANCHES) => is_aligned(JumpTarget(i, regs, 0), 4)
=============================================================================
