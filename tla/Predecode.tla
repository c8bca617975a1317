------------------------------ MODULE Predecode ------------------------------
(***************************************************************************)
(* The instruction memory's predecode: the init-file generator             *)
(* sw/common/generate_imem_predecode_init.py, the banked memory            *)
(* imem_predecode.sv that its files and the programming port fill, and the *)
(* instruction aligner that forms fetch bundles from the predecoded bits.  *)
(*                                                                         *)
(* riscv_pkg.sv's imem_* functions are the generator's functions written   *)
(* in SystemVerilog; both write paths use the one definition here.  A      *)
(* program counter counts 16-bit parcels.                                  *)
(***************************************************************************)
EXTENDS Compressed

CONSTANT Depth       \* words of instruction memory (--depth-words), even

ASSUME DepthAssumption == Depth \in Nat \ {0} /\ Depth % 2 = 0

Lo(w) == { i \in w : i < 16 }
Hi(w) == { i - 16 : i \in w \ 0 .. 15 }

-----------------------------------------------------------------------------
(* generate_imem_predecode_init.py *)

OPC_MISC_MEM == \b0001111
OPC_CSR == \b1110011
OPC_AMO == \b0101111
OPC_FP == {\b1010011, \b1000011, \b1000111, \b1001011, \b1001111}
OPC_BRANCH == \b1100011
OPC_JAL == \b1101111
OPC_JALR == \b1100111

\* sw.mem as its tokens: <<"@", address>> or <<"word", word>>.
parse_verilog_hex(tokens) ==
    LET Step(acc, t) == IF t[1] = "@" THEN [acc EXCEPT !.address = t[2]]
                        ELSE [words |-> (acc.address :> t[2]) @@ acc.words, address |-> acc.address + 1]
    IN  FoldLeft(Step, [words |-> <<>>, address |-> 0], tokens).words

compressed_control(parcel) ==
    \/ quadrant(parcel) = 1 /\ Field(parcel, 15, 13) \in {\b001, \b101, \b110, \b111}
    \/ /\ quadrant(parcel) = 2 /\ Field(parcel, 15, 12) \in {\b1000, \b1001}
       /\ Field(parcel, 6, 2) = 0 /\ Field(parcel, 11, 7) # 0

native_serialize(opcode) == opcode \in {OPC_CSR, OPC_MISC_MEM, OPC_AMO}
native_fp_compute(opcode) == opcode \in OPC_FP
native_control(opcode) == opcode \in {OPC_BRANCH, OPC_JAL, OPC_JALR}

\* rvc_source_hot's (rs1, rs2) of the expansion, from the parcel's bits; the
\* unused fields stay literal.
SourceFields(p) ==
    LET funct3 == Field(p, 15, 13)
        rd_full == Field(p, 11, 7)
        rs2_full == Field(p, 6, 2)
        rs1_prime == 8 + Field(p, 9, 7)
        rs2_prime == 8 + Field(p, 4, 2)
        quad0 == CASE funct3 = \b000 -> <<2, 4 * Num(p, <<11, 5, 6>>)>>
                   [] funct3 \in {\b010, \b011} -> <<rs1_prime, 4 * Num(p, <<11, 10, 6>>)>>
                   [] funct3 = \b001 -> <<rs1_prime, 8 * Num(p, <<11, 10>>)>>
                   [] funct3 \in {\b101, \b110, \b111} -> <<rs1_prime, rs2_prime>>
                   [] OTHER -> <<0, 0>>
        quad1 == CASE funct3 = \b000 -> <<rd_full, rs2_full>>
                   [] funct3 \in {\b001, \b101} -> <<31 * Bit(p, 12), Num(p, <<11, 5, 4, 3, 12>>)>>
                   [] funct3 = \b010 -> <<0, rs2_full>>
                   [] funct3 = \b011 /\ rd_full = 2 -> <<2, 16 * Bit(p, 6)>>
                   [] funct3 = \b011 /\ rd_full # 2 -> <<Num(p, <<12, 12, 12, 6, 5>>), 31 * Bit(p, 12)>>
                   [] funct3 = \b100 /\ Field(p, 11, 10) # \b11 -> <<rs1_prime, rs2_full>>
                   [] funct3 = \b100 /\ Field(p, 11, 10) = \b11 ->
                          IF 12 \in p THEN <<0, 0>> ELSE <<rs1_prime, rs2_prime>>
                   [] funct3 \in {\b110, \b111} -> <<rs1_prime, 0>>
        quad2 == CASE funct3 = \b000 -> <<rd_full, rs2_full>>
                   [] funct3 \in {\b010, \b011} -> <<2, 4 * Num(p, <<6, 5, 4>>)>>
                   [] funct3 = \b001 -> <<2, 8 * Num(p, <<6, 5>>)>>
                   [] funct3 = \b100 /\ 12 \notin p -> <<IF rs2_full = 0 THEN rd_full ELSE 0, rs2_full>>
                   [] funct3 = \b100 /\ 12 \in p ->
                          <<rd_full, IF rs2_full = 0 /\ rd_full = 0 THEN 1 ELSE rs2_full>>
                   [] funct3 \in {\b101, \b110, \b111} -> <<2, rs2_full>>
    IN  CASE quadrant(p) = 0 -> quad0
          [] quadrant(p) = 1 -> quad1
          [] quadrant(p) = 2 -> quad2
          [] OTHER -> <<0, 0>>

\* {rs2[1], rs1[2:1]}
HotBits(rs) == pack_bits({<<rs[2] \div 2, 2, 1>>, <<rs[1] \div 2, 0, 2>>})
rvc_source_hot(p) == HotBits(SourceFields(p))

\* What the pairing rules ask of the parcel at a half.
ParcelFlags(p, opcode) ==
    [compressed |-> is_compressed(p), serialize |-> native_serialize(opcode),
     allows |-> IF is_compressed(p) THEN ~compressed_control(p)
                ELSE ~native_control(opcode) /\ ~native_serialize(opcode),
     start_valid |-> is_compressed(p) \/ ~(native_serialize(opcode) \/ native_fp_compute(opcode))]
Flags(p) == ParcelFlags(p, Field(p, 6, 0))

\* A word's sideband: the set of the SB_* bits that are one.
PairFlags(lo, hi) ==
    <<lo.compressed, hi.compressed,
      lo.compressed /\ lo.allows /\ hi.start_valid,   \* SB_EVEN_LOCAL_PAIR_VALID
      ~lo.compressed /\ lo.allows,                    \* SB_PAIRABLE_NATIVE_LO
      lo.serialize, hi.serialize,
      hi.compressed /\ hi.allows,                     \* SB_PAIRABLE_COMPRESSED_HI
      ~hi.compressed /\ hi.allows,                    \* SB_PAIRABLE_NATIVE_HI
      lo.allows, hi.allows, lo.start_valid, hi.start_valid>>
Ones(flags) == { b \in 0 .. 11 : flags[b + 1] }
make_sideband(word) ==
    Ones(PairFlags(Flags(Lo(word)), Flags(Hi(word))))
    \cup { 12 + k : k \in rvc_source_hot(Lo(word)) } \cup { 15 + k : k \in rvc_source_hot(Hi(word)) }

\* {allows-slot2-after-hi, word[29:28], word[31], word[27:23] == x2, sideband[1:0]}
make_fast_replica(word, sideband) ==
    pack_bits({<<Bit(sideband, 9), 6, 1>>, <<Field(word, 29, 28), 4, 2>>, <<Bit(word, 31), 3, 1>>,
               <<IF Field(word, 27, 23) = 2 THEN 1 ELSE 0, 2, 1>>, <<Field(sideband, 1, 0), 0, 2>>})

make_slot2_start_valid_lo_replica(sideband) == 10 \in sideband

pack_frontend_hot(word) == pack_bits({<<Num(word, <<15, 10, 7, 6>>), 0, 4>>})
pack_cold_data(word) ==
    pack_bits({<<Field(word, 31, 16), 12, 16>>, <<Field(word, 14, 11), 8, 4>>, <<Field(word, 9, 8), 6, 2>>,
               <<Field(word, 5, 0), 0, 6>>})
join_data_banks(cold, hot) ==
    pack_bits({<<Field(cold, 27, 12), 16, 16>>, <<Bit(hot, 3), 15, 1>>, <<Field(cold, 11, 8), 11, 4>>,
               <<Bit(hot, 2), 10, 1>>, <<Field(cold, 7, 6), 8, 2>>, <<Bit(hot, 1), 7, 1>>, <<Bit(hot, 0), 6, 1>>,
               <<Field(cold, 5, 0), 0, 6>>})

\* The five arrays' values for one word, as main() and a port-A write make them.
Arrays(word, sideband) ==
    [cold |-> pack_cold_data(word), frontend_hot |-> pack_frontend_hot(word), sideband |-> sideband,
     compressed |-> make_fast_replica(word, sideband),
     slot2_start_valid_lo |-> make_slot2_start_valid_lo_replica(sideband)]
Entry(word) == Arrays(word, make_sideband(word))

\* The even and the odd bank's words, or None for the ValueErrors.
split_words(words, depth) ==
    IF depth <= 0 \/ depth % 2 # 0 \/ \E a \in DOMAIN words : a >= depth
    THEN None
    ELSE [parity \in 0 .. 1 |->
            [k \in 0 .. (depth \div 2) - 1 |->
                IF 2 * k + parity \in DOMAIN words THEN words[2 * k + parity] ELSE {}]]

\* The init files of a program: the contents of the arrays of both banks.
main(tokens) ==
    LET banks == split_words(parse_verilog_hex(tokens), Depth)
    IN  [parity \in 0 .. 1 |-> [k \in 0 .. (Depth \div 2) - 1 |-> Entry(banks[parity][k])]]

-----------------------------------------------------------------------------
(* What the encoders, the predecode and the decoders owe each other *)

\* The operands the encoder of an operation takes, and their values read
\* back from a word by the decoders.
OperandsOf(op) ==
    CASE op \in Names(R_ALU) -> {"rd", "rs1", "rs2"}
      [] op \in Names(I_ALU) \cup Names(LOADS) \cup Names(FP_LOADS) \cup {"jalr"} -> {"rd", "rs1", "imm_i"}
      [] op \in Names(I_SHIFT) -> {"rd", "rs1", "shamt"}
      [] op \in Names(I_UNARY) \cup Names(FP_MV_CLASS) \cup {"zext_h"} -> {"rd", "rs1"}
      [] op \in Names(STORES) \cup Names(FP_STORES) -> {"rs1", "rs2", "imm_s"}
      [] op \in Names(BRANCHES) -> {"rs1", "rs2", "imm_b"}
      [] op = "jal" -> {"rd", "imm_j"}
      [] op = "lui" -> {"rd", "imm_u"}
      [] op \in Names(FENCES) \cup Names(TRAP_INSTRS) -> {}
      [] op \in Names(CSRS) -> {"rd", "rs1", "csr"}
      [] op = "lr_w" -> {"rd", "rs1", "aqrl"}
      [] op \in Names(AMO) \cup {"sc_w"} -> {"rd", "rs1", "rs2", "aqrl"}
      [] op \in Names(FP_ARITH_2OP) -> {"rd", "rs1", "rs2", "rm"}
      [] op \in Names(FP_FMA) -> {"rd", "rs1", "rs2", "rs3"}
      [] op \in Names(FP_SGNJ) \cup Names(FP_MINMAX) \cup Names(FP_CMP) -> {"rd", "rs1", "rs2"}
      [] op \in Names(FP_CVT) -> {"rd", "rs1", "rm"}

ReadOperand(w, operand) ==
    CASE operand = "rd" -> Field(w, 11, 7)
      [] operand = "rs1" -> Field(w, 19, 15)
      [] operand = "rs2" -> Field(w, 24, 20)
      [] operand = "rs3" -> Field(w, 31, 27)
      [] operand = "rm" -> Field(w, 14, 12)
      [] operand = "shamt" -> Field(w, 24, 20)
      [] operand = "csr" -> Field(w, 31, 20)
      [] operand = "aqrl" -> Field(w, 26, 25)
      [] operand = "imm_i" -> immediate_i_type(w)
      [] operand = "imm_s" -> immediate_s_type(w)
      [] operand = "imm_b" -> immediate_b_type(w)
      [] operand = "imm_u" -> immediate_u_type(w)
      [] operand = "imm_j" -> immediate_j_type(w)

Given(i, operand) == CASE operand \in {"rd", "rs1", "rs2", "rs3"} -> i[operand]
                       [] operand = "rm" -> i.rs3
                       [] OTHER -> i.imm

\* zext.h is pack with rs2 = 0, and the decoder takes the word of PAUSE for
\* a FENCE: it knows another encoding of PAUSE.
DecodedAs(op) == CASE op = "zext_h" -> "pack" [] op = "pause" -> "fence" [] OTHER -> op

\* The word of an instruction decodes to that instruction alone, with its
\* operands; a refused offset is one no word can carry.
ReadsBack(i) ==
    LET w == encode(i)
    IN  IF w = ValidationError
        THEN i.imm % 2 = 1 \/ i.imm \notin (IF i.op = "jal" THEN -(2^20) .. 2^20 - 1 ELSE -(2^12) .. 2^12 - 1)
        ELSE /\ w \subseteq 0 .. 31
             /\ instr_decoder(w) = {DecodedAs(i.op)}
             /\ \A operand \in OperandsOf(i.op) : ReadOperand(w, operand) = Given(i, operand)

\* An accepted compressed encoding expands, legally, to the encoding of its
\* full-size form.
ExpandsToFullForm(i) ==
    LET p == encode_c(i)
    IN  p # AssertionError =>
            /\ p \subseteq 0 .. 15 /\ is_compressed(p)
            /\ rvc_decompressor(p, Field(p, 11, 7) = 2) = [instr |-> encode(full_form(i)), illegal |-> FALSE]

\* For a compressed parcel, the predecoded source bits are those of the
\* expansion, and a legal one is control flow exactly when its expansion is.
PredecodeOfParcel(p) ==
    LET x == rvc_decompressor(p, Field(p, 11, 7) = 2)
    IN  is_compressed(p) =>
            /\ rvc_source_hot(p) = { b \in 0 .. 2 : <<16, 17, 21>>[b + 1] \in x.instr }
            /\ ~x.illegal => (compressed_control(p) <=> native_control(Field(x.instr, 6, 0)))
=============================================================================
