----------------------------- MODULE BenchMemory -----------------------------
(***************************************************************************)
(* The bench's data memory (verif/models/memory_model.py, the load         *)
(* functions of alu_model.py and verif/utils/memory_utils.py) and the      *)
(* beats it predicts: load_unit.sv, riscv_pkg::mem_strobe_for and          *)
(* store_queue.sv's gen_write_data on rows of eight bytes.                 *)
(*                                                                         *)
(* A beat is a function from its eight lanes to bytes.                     *)
(***************************************************************************)
EXTENDS Encoding, AluModel

CONSTANT MEMORY_ADDRESS_WIDTH
ASSUME MemoryAssumption == MEMORY_ADDRESS_WIDTH \in 3 .. XLEN

MemoryBytes == 0 .. 2^MEMORY_ADDRESS_WIDTH - 1
Lanes == 0 .. 7
RAM == [MemoryBytes -> 0 .. 2^BYTE - 1]

-----------------------------------------------------------------------------
(* memory_utils.py *)

align_address(address, alignment) == address - (address % alignment)
is_aligned(address, alignment) == address % alignment = 0
get_beat_byte_offset(address) == address % 8

\* The strobed lanes.
calculate_byte_mask_for_store(operation, beat_offset) ==
    CASE operation = "sb" -> {beat_offset}
      [] operation = "sh" -> {align_address(beat_offset, 2), align_address(beat_offset, 2) + 1}
      [] operation \in {"sw", "fsw"} -> IF BitOf(beat_offset, 2) = 1 THEN 4 .. 7 ELSE 0 .. 3
      [] operation = "fsd" -> Lanes

\* Byte i of a number.
ByteOf(value, i) == (value \div 2^(BYTE * i)) % 2^BYTE

replicate_store_data_for_beat(operation, value) ==
    CASE operation = "sb" -> [i \in Lanes |-> ByteOf(value, 0)]
      [] operation = "sh" -> [i \in Lanes |-> ByteOf(value, i % 2)]
      [] operation \in {"sw", "fsw"} -> [i \in Lanes |-> ByteOf(value, i % 4)]
      [] operation = "fsd" -> [i \in Lanes |-> ByteOf(value, i)]

\* What rejection sampling over the drawn immediates can return: one that
\* aligns the address or, when none does, the distance to the alignment.
\* The check of memory_size_constraint compares a remainder with its
\* divisor and refuses nothing.
generate_aligned_immediate(base_value, target_alignment, drawn, immediate_min, immediate_max) ==
    LET aligned == { imm \in drawn : is_aligned(MASK32(base_value + imm), target_alignment) }
        offset_needed == (target_alignment - (base_value % target_alignment)) % target_alignment
    IN  IF aligned # {} THEN aligned
        ELSE IF offset_needed \in immediate_min .. immediate_max THEN {offset_needed}
        ELSE {immediate_min}

-----------------------------------------------------------------------------
(* memory_model.py *)

Masked(address) == address % 2^MEMORY_ADDRESS_WIDTH
read_byte(ram, address) == ram[Masked(address)]
write_byte(ram, address, value) == [ram EXCEPT ![Masked(address)] = value % 2^BYTE]

\* Bytes written from an address on, the first the lowest.
WriteBytes(ram, address, count, value) ==
    FoldLeft(LAMBDA r, i : write_byte(r, address + i - 1, ByteOf(value, i - 1)), ram, [i \in 1 .. count |-> i])
ReadBytes(ram, address, count) ==
    FoldLeft(LAMBDA s, i : s + read_byte(ram, address + i - 1) * 2^(BYTE * (i - 1)), 0, [i \in 1 .. count |-> i])

read_word(ram, address) == ReadBytes(ram, align_address(address, 4), 4)
write_word(ram, address, value) == WriteBytes(ram, align_address(address, 4), 4, value)
write_dword(ram, address, value) == WriteBytes(ram, align_address(address, 8), 8, value)

(* alu_model.py: the loads *)

_load_halfword_from_memory(ram, memory_address, is_signed) ==
    LET halfword_value == ReadBytes(ram, align_address(memory_address, 2), 2)
    IN  IF is_signed THEN MASK32(sign_extend(halfword_value, HALF)) ELSE MASK32(halfword_value)
lw(ram, memory_address) == read_word(ram, memory_address)
ld(ram, memory_address) == read_word(ram, align_address(memory_address, 8))
                           + 2^XLEN * read_word(ram, align_address(memory_address, 8) + 4)
lb(ram, memory_address) == MASK32(sign_extend(read_byte(ram, memory_address), BYTE))
lbu(ram, memory_address) == read_byte(ram, memory_address)
lh(ram, memory_address) == _load_halfword_from_memory(ram, memory_address, TRUE)
lhu(ram, memory_address) == _load_halfword_from_memory(ram, memory_address, FALSE)

\* box32: a single-precision value in a register of twice its width.
box32(value) == (2^XLEN - 1) * 2^XLEN + MASK32(value)

\* The evaluator column of LOADS and FP_LOADS.
LoadEvaluator(operation, ram, address) ==
    CASE operation = "lw" -> lw(ram, address)
      [] operation = "lb" -> lb(ram, address)
      [] operation = "lbu" -> lbu(ram, address)
      [] operation = "lh" -> lh(ram, address)
      [] operation = "lhu" -> lhu(ram, address)
      [] operation = "flw" -> box32(lw(ram, address))
      [] operation = "fld" -> ld(ram, address)

-----------------------------------------------------------------------------
(* The core's side *)

\* The beat a read returns.
BeatAt(ram, address) == [i \in Lanes |-> ram[Masked(align_address(address, 8) + i)]]

\* A lane vector as a number.
FromLanes(beat, lanes) == FoldLeft(LAMBDA s, i : s + beat[lanes[i]] * 2^(BYTE * (i - 1)), 0, [i \in DOMAIN lanes |-> i])

\* load_unit.sv, and the NaN-boxing and whole-beat paths of the FP loads.
load_unit(operation, address, beat) ==
    LET lane == address % 8
        extended(v, bits) == IF BitOf(v, bits - 1) = 1 THEN v + 2^XLEN - 2^bits ELSE v
        half == LET h == lane \div 2 IN FromLanes(beat, <<2 * h, 2 * h + 1>>)
        word == LET w == lane \div 4 IN FromLanes(beat, <<4 * w, 4 * w + 1, 4 * w + 2, 4 * w + 3>>)
    IN  CASE operation = "lb" -> extended(beat[lane], BYTE)
          [] operation = "lbu" -> beat[lane]
          [] operation = "lh" -> extended(half, HALF)
          [] operation = "lhu" -> half
          [] operation = "lw" -> word
          [] operation = "flw" -> word + 2^XLEN * (2^XLEN - 1)
          [] operation = "fld" -> FromLanes(beat, <<0, 1, 2, 3, 4, 5, 6, 7>>)

MEM_SIZE(operation) ==
    CASE operation = "sb" -> 0 [] operation = "sh" -> 1 [] operation = "fsd" -> 3 [] OTHER -> 2

mem_strobe_for(size_bits, offset) ==
    CASE size_bits = 0 -> {offset}
      [] size_bits = 1 -> {2 * (offset \div 2), 2 * (offset \div 2) + 1}
      [] size_bits = 2 -> IF offset >= 4 THEN {4, 5, 6, 7} ELSE {0, 1, 2, 3}
      [] size_bits = 3 -> Lanes
gen_write_data(data, size_bits) == [i \in Lanes |-> ByteOf(data, i % 2^size_bits)]

\* The array after a strobed beat.
Strobed(ram, address, beat, strobes) ==
    [a \in MemoryBytes |-> IF a \div 8 = Masked(address) \div 8 /\ a % 8 \in strobes THEN beat[a % 8] ELSE ram[a]]
=============================================================================
