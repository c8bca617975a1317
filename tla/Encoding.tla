------------------------------ MODULE Encoding ------------------------------
(***************************************************************************)
(* The bench's instruction encoders (verif/encoders/instruction_encode.py  *)
(* and the encoder column of op_tables.py) and the decoder they have to    *)
(* agree with (cpu/id_stage/instr_decoder.sv and immediate_decoder.sv at   *)
(* XLEN = 32).                                                             *)
(*                                                                         *)
(* A word is the set of the positions of its one bits, so that 32-bit      *)
(* words stay within TLC's integers.  An operation is named as in          *)
(* op_tables.py with '.' written '_'; the decoder's enumerators are those  *)
(* names in upper case, written here in lower case.                        *)
(***************************************************************************)
EXTENDS Integers, SequencesExt

CONSTANT None        \* Python's None

\* The bits that the (value, position, mask) fields put into a word.  A
\* negative value contributes its two's complement, as Python's & does.
pack_bits(fields) ==
    UNION { { f[2] + i : i \in { j \in 0 .. f[3] - 1 : (f[1] \div 2^j) % 2 = 1 } } : f \in fields }

Bit(w, i) == IF i \in w THEN 1 ELSE 0

\* The number whose bits, the most significant first, are the bits s of w.
Num(w, s) == FoldLeft(LAMBDA a, i : 2 * a + Bit(w, i), 0, s)

\* The field w[hi:lo] of a word, and a field read as a signed number.
Field(w, hi, lo) == Num(w, [k \in 1 .. hi - lo + 1 |-> hi + 1 - k])
Signed(v, width) == IF v >= 2^(width - 1) THEN v - 2^width ELSE v

ValidationError == {32}   \* no 32-bit word: the encoder raised

-----------------------------------------------------------------------------
(* instruction_encode.py: the formats *)

Opcode == [LOAD |-> \h03, MISC_MEM |-> \h0F, STORE |-> \h23, ALU_IMM |-> \h13, ALU_REG |-> \h33,
           LUI |-> \h37, AUIPC |-> \h17, AMO |-> \h2F, BRANCH |-> \h63, JALR |-> \h67, JAL |-> \h6F,
           SYSTEM |-> \h73, LOAD_FP |-> \h07, STORE_FP |-> \h27, FMADD |-> \h43, FMSUB |-> \h47,
           FNMSUB |-> \h4B, FNMADD |-> \h4F, OP_FP |-> \h53]

RType(funct7, rs2, rs1, funct3, rd, opcode) ==
    pack_bits({<<funct7, 25, 7>>, <<rs2, 20, 5>>, <<rs1, 15, 5>>, <<funct3, 12, 3>>, <<rd, 7, 5>>, <<opcode, 0, 7>>})

IType(imm, rs1, funct3, rd, opcode) ==
    pack_bits({<<imm, 20, 12>>, <<rs1, 15, 5>>, <<funct3, 12, 3>>, <<rd, 7, 5>>, <<opcode, 0, 7>>})

SType(imm, rs2, rs1, funct3, opcode) ==
    pack_bits({<<imm \div 2^5, 25, 7>>, <<rs2, 20, 5>>, <<rs1, 15, 5>>, <<funct3, 12, 3>>, <<imm, 7, 5>>,
               <<opcode, 0, 7>>})

BType(offset, rs2, rs1, funct3, opcode) ==
    IF offset % 2 # 0 \/ offset < -4096 \/ offset > 4094
    THEN ValidationError
    ELSE pack_bits({<<offset \div 2^12, 31, 1>>, <<offset \div 2^5, 25, 6>>, <<rs2, 20, 5>>, <<rs1, 15, 5>>,
                    <<funct3, 12, 3>>, <<offset \div 2, 8, 4>>, <<offset \div 2^11, 7, 1>>, <<opcode, 0, 7>>})

JType(offset, rd, opcode) ==
    IF offset % 2 # 0 \/ offset < -(2^20) \/ offset > 2^20 - 2
    THEN ValidationError
    ELSE pack_bits({<<offset \div 2^20, 31, 1>>, <<offset \div 2, 21, 10>>, <<offset \div 2^11, 20, 1>>,
                    <<offset \div 2^12, 12, 8>>, <<rd, 7, 5>>, <<opcode, 0, 7>>})

AMOType(funct5, rs2, rs1, rd, aq, rl) ==
    pack_bits({<<funct5, 27, 5>>, <<aq, 26, 1>>, <<rl, 25, 1>>, <<rs2, 20, 5>>, <<rs1, 15, 5>>, <<2, 12, 3>>,
               <<rd, 7, 5>>, <<Opcode.AMO, 0, 7>>})

R4Type(rs3, rs2, rs1, rm, rd, opcode, fmt) ==
    pack_bits({<<rs3, 27, 5>>, <<fmt, 25, 2>>, <<rs2, 20, 5>>, <<rs1, 15, 5>>, <<rm, 12, 3>>, <<rd, 7, 5>>,
               <<opcode, 0, 7>>})

FPType(funct7, rs2, rs1, rm, rd) == RType(funct7, rs2, rs1, rm, rd, Opcode.OP_FP)

UType(imm20, rd, opcode) == pack_bits({<<imm20, 12, 20>>, <<rd, 7, 5>>, <<opcode, 0, 7>>})

-----------------------------------------------------------------------------
(* op_tables.py and the enc_* functions: a row is an operation's name and  *)
(* the codes its encoder puts into the word.                               *)

\* make_r_encoder(f7, f3)
R_ALU == {<<"add", \h00, 0>>, <<"sub", \h20, 0>>, <<"and", \h00, 7>>, <<"or", \h00, 6>>, <<"xor", \h00, 4>>,
          <<"sll", \h00, 1>>, <<"srl", \h00, 5>>, <<"sra", \h20, 5>>, <<"slt", \h00, 2>>, <<"sltu", \h00, 3>>,
          <<"mul", \h01, 0>>, <<"mulh", \h01, 1>>, <<"mulhsu", \h01, 2>>, <<"mulhu", \h01, 3>>,
          <<"div", \h01, 4>>, <<"divu", \h01, 5>>, <<"rem", \h01, 6>>, <<"remu", \h01, 7>>,
          <<"sh1add", \h10, 2>>, <<"sh2add", \h10, 4>>, <<"sh3add", \h10, 6>>,
          <<"bset", \h14, 1>>, <<"bclr", \h24, 1>>, <<"binv", \h34, 1>>, <<"bext", \h24, 5>>,
          <<"andn", \h20, 7>>, <<"orn", \h20, 6>>, <<"xnor", \h20, 4>>,
          <<"max", \h05, 6>>, <<"maxu", \h05, 7>>, <<"min", \h05, 4>>, <<"minu", \h05, 5>>,
          <<"rol", \h30, 1>>, <<"ror", \h30, 5>>, <<"czero_eqz", \h07, 5>>, <<"czero_nez", \h07, 7>>,
          <<"pack", \h04, 4>>, <<"packh", \h04, 7>>}

\* make_i_encoder(f3) and make_i_shift_encoder(f3, f7)
I_ALU == {<<"addi", 0>>, <<"andi", 7>>, <<"ori", 6>>, <<"xori", 4>>, <<"slti", 2>>, <<"sltiu", 3>>}
I_SHIFT == {<<"slli", 1, \h00>>, <<"srli", 5, \h00>>, <<"srai", 5, \h20>>, <<"bseti", 1, \h14>>,
            <<"bclri", 1, \h24>>, <<"binvi", 1, \h34>>, <<"bexti", 5, \h24>>, <<"rori", 5, \h30>>}

\* make_i_unary_encoder and make_i_fixed_encoder(f3, f7, rs2_field)
I_UNARY == {<<"clz", 1, \h30, 0>>, <<"ctz", 1, \h30, 1>>, <<"cpop", 1, \h30, 2>>, <<"sext_b", 1, \h30, 4>>,
            <<"sext_h", 1, \h30, 5>>, <<"orc_b", 5, \h14, 7>>, <<"rev8", 5, \h34, \h18>>,
            <<"brev8", 5, \h34, 7>>, <<"zip", 1, \h04, 15>>, <<"unzip", 5, \h04, 15>>}

LOADS == {<<"lw", 2>>, <<"lb", 0>>, <<"lbu", 4>>, <<"lh", 1>>, <<"lhu", 5>>}
STORES == {<<"sw", 2>>, <<"sb", 0>>, <<"sh", 1>>}
BRANCHES == {<<"beq", 0>>, <<"bne", 1>>, <<"blt", 4>>, <<"bge", 5>>, <<"bltu", 6>>, <<"bgeu", 7>>}
FENCES == {<<"fence", 0, \h0FF>>, <<"fence_i", 1, 0>>, <<"pause", 0, \h010>>}
CSRS == {<<"csrrw", 1>>, <<"csrrs", 2>>, <<"csrrc", 3>>, <<"csrrwi", 5>>, <<"csrrsi", 6>>, <<"csrrci", 7>>}
TRAP_INSTRS == {<<"ecall", 0>>, <<"ebreak", 1>>, <<"mret", \h302>>, <<"wfi", \h105>>}
\* The A extension: funct5 (rd, rs2, rs1 and the aq/rl bits vary).
Funct5 == [LR |-> \h02, SC |-> \h03, AMOSWAP |-> \h01, AMOADD |-> \h00, AMOXOR |-> \h04, AMOAND |-> \h0C,
           AMOOR |-> \h08, AMOMIN |-> \h10, AMOMAX |-> \h14, AMOMINU |-> \h18, AMOMAXU |-> \h1C]
AMO_LR_SC == {<<"lr_w", Funct5.LR>>, <<"sc_w", Funct5.SC>>}
AMO == {<<"amoswap_w", Funct5.AMOSWAP>>, <<"amoadd_w", Funct5.AMOADD>>, <<"amoxor_w", Funct5.AMOXOR>>,
        <<"amoand_w", Funct5.AMOAND>>, <<"amoor_w", Funct5.AMOOR>>, <<"amomin_w", Funct5.AMOMIN>>,
        <<"amomax_w", Funct5.AMOMAX>>, <<"amominu_w", Funct5.AMOMINU>>, <<"amomaxu_w", Funct5.AMOMAXU>>}

\* The F and D extensions.  FPFunct7 gives the single-precision codes; a
\* double-precision operation's code is the next one.
FPFunct7 == [FADD |-> \h00, FSUB |-> \h04, FMUL |-> \h08, FDIV |-> \h0C, FSQRT |-> \h2C, FSGNJ |-> \h10,
             FMIN_MAX |-> \h14, FCVT_W |-> \h60, FCVT_FROM_W |-> \h68, FCVT_S_D |-> \h20, FCVT_D_S |-> \h21,
             FMV_X_W |-> \h70, FCLASS |-> \h70, FMV_W_X |-> \h78, FCMP |-> \h50]
FP_LOADS == {<<"flw", 2>>, <<"fld", 3>>}
FP_STORES == {<<"fsw", 2>>, <<"fsd", 3>>}
\* Two operands and a rounding mode: funct7.
FP_ARITH_2OP == {<<"fadd_s", FPFunct7.FADD>>, <<"fsub_s", FPFunct7.FSUB>>, <<"fmul_s", FPFunct7.FMUL>>,
                 <<"fdiv_s", FPFunct7.FDIV>>, <<"fadd_d", FPFunct7.FADD + 1>>, <<"fsub_d", FPFunct7.FSUB + 1>>,
                 <<"fmul_d", FPFunct7.FMUL + 1>>, <<"fdiv_d", FPFunct7.FDIV + 1>>}
\* Fused multiply-add: opcode and format.
FP_FMA == {<<"fmadd_s", Opcode.FMADD, 0>>, <<"fmsub_s", Opcode.FMSUB, 0>>, <<"fnmadd_s", Opcode.FNMADD, 0>>,
           <<"fnmsub_s", Opcode.FNMSUB, 0>>, <<"fmadd_d", Opcode.FMADD, 1>>, <<"fmsub_d", Opcode.FMSUB, 1>>,
           <<"fnmadd_d", Opcode.FNMADD, 1>>, <<"fnmsub_d", Opcode.FNMSUB, 1>>}
\* Two operands and the sub-operation in the rm field: funct7, rm.
FP_SGNJ == {<<"fsgnj_s", FPFunct7.FSGNJ, 0>>, <<"fsgnjn_s", FPFunct7.FSGNJ, 1>>, <<"fsgnjx_s", FPFunct7.FSGNJ, 2>>,
            <<"fsgnj_d", FPFunct7.FSGNJ + 1, 0>>, <<"fsgnjn_d", FPFunct7.FSGNJ + 1, 1>>,
            <<"fsgnjx_d", FPFunct7.FSGNJ + 1, 2>>}
FP_MINMAX == {<<"fmin_s", FPFunct7.FMIN_MAX, 0>>, <<"fmax_s", FPFunct7.FMIN_MAX, 1>>,
              <<"fmin_d", FPFunct7.FMIN_MAX + 1, 0>>, <<"fmax_d", FPFunct7.FMIN_MAX + 1, 1>>}
FP_CMP == {<<"feq_s", FPFunct7.FCMP, 2>>, <<"flt_s", FPFunct7.FCMP, 1>>, <<"fle_s", FPFunct7.FCMP, 0>>,
           <<"feq_d", FPFunct7.FCMP + 1, 2>>, <<"flt_d", FPFunct7.FCMP + 1, 1>>, <<"fle_d", FPFunct7.FCMP + 1, 0>>}
\* One operand and a rounding mode: funct7 and the rs2 field.
FP_ARITH_1OP == {<<"fsqrt_s", FPFunct7.FSQRT, 0>>, <<"fsqrt_d", FPFunct7.FSQRT + 1, 0>>}
FP_CVT_F2I == {<<"fcvt_w_s", FPFunct7.FCVT_W, 0>>, <<"fcvt_wu_s", FPFunct7.FCVT_W, 1>>,
               <<"fcvt_w_d", FPFunct7.FCVT_W + 1, 0>>, <<"fcvt_wu_d", FPFunct7.FCVT_W + 1, 1>>}
FP_CVT_I2F == {<<"fcvt_s_w", FPFunct7.FCVT_FROM_W, 0>>, <<"fcvt_s_wu", FPFunct7.FCVT_FROM_W, 1>>,
               <<"fcvt_d_w", FPFunct7.FCVT_FROM_W + 1, 0>>, <<"fcvt_d_wu", FPFunct7.FCVT_FROM_W + 1, 1>>}
FP_CVT_F2F == {<<"fcvt_s_d", FPFunct7.FCVT_S_D, 1>>, <<"fcvt_d_s", FPFunct7.FCVT_D_S, 0>>}
FP_CVT == FP_ARITH_1OP \cup FP_CVT_F2I \cup FP_CVT_I2F \cup FP_CVT_F2F
\* One operand and a fixed rm field: funct7, rm.
FP_MV_F2I == {<<"fmv_x_w", FPFunct7.FMV_X_W, 0>>}
FP_MV_I2F == {<<"fmv_w_x", FPFunct7.FMV_W_X, 0>>}
FP_CLASS == {<<"fclass_s", FPFunct7.FCLASS, 1>>, <<"fclass_d", FPFunct7.FCLASS + 1, 1>>}
FP_MV_CLASS == FP_MV_F2I \cup FP_MV_I2F \cup FP_CLASS

\* The enc_* functions, one for each family that differs only in its codes.
enc_r(funct7, rs2, rs1, funct3, rd) == RType(funct7, rs2, rs1, funct3, rd, Opcode.ALU_REG)
enc_i(imm, rs1, funct3, rd) == IType(imm, rs1, funct3, rd, Opcode.ALU_IMM)
enc_i_load(imm, rs1, funct3, rd) == IType(imm, rs1, funct3, rd, Opcode.LOAD)
enc_i_jalr(imm, rs1, rd) == IType(imm, rs1, 0, rd, Opcode.JALR)
enc_s(rs2, rs1, funct3, imm) == SType(imm, rs2, rs1, funct3, Opcode.STORE)
enc_b(rs2, rs1, funct3, offset) == BType(offset, rs2, rs1, funct3, Opcode.BRANCH)
enc_j(rd, offset) == JType(offset, rd, Opcode.JAL)
enc_lui(rd, imm20) == UType(imm20, rd, Opcode.LUI)
enc_fence(funct3, imm) == IType(imm, 0, funct3, 0, Opcode.MISC_MEM)
enc_csr(csr, rs1, funct3, rd) == IType(csr, rs1, funct3, rd, Opcode.SYSTEM)
enc_trap(imm) == IType(imm, 0, 0, 0, Opcode.SYSTEM)
enc_lr_w(rd, rs1, aqrl) == AMOType(Funct5.LR, 0, rs1, rd, aqrl \div 2, aqrl)
enc_sc_w(rd, rs2, rs1, aqrl) == AMOType(Funct5.SC, rs2, rs1, rd, aqrl \div 2, aqrl)
enc_amo_w(funct5, rd, rs2, rs1, aqrl) == AMOType(funct5, rs2, rs1, rd, aqrl \div 2, aqrl)
enc_fp_load(funct3, rd, rs1, imm) == IType(imm, rs1, funct3, rd, Opcode.LOAD_FP)
enc_fp_store(funct3, rs2, rs1, imm) == SType(imm, rs2, rs1, funct3, Opcode.STORE_FP)
enc_fp_arith(funct7, rd, rs1, rs2, rm) == FPType(funct7, rs2, rs1, rm, rd)
enc_fp_fma(opcode, fmt, rd, rs1, rs2, rs3, rm) == R4Type(rs3, rs2, rs1, rm, rd, opcode, fmt)
enc_fp_sub(funct7, rm, rd, rs1, rs2) == FPType(funct7, rs2, rs1, rm, rd)
enc_fp_cvt(funct7, rs2_field, rd, rs1, rm) == FPType(funct7, rs2_field, rs1, rm, rd)
enc_fp_move(funct7, rm, rd, rs1) == FPType(funct7, 0, rs1, rm, rd)

Names(table) == { row[1] : row \in table }
Row(table, op) == CHOOSE row \in table : row[1] = op

\* The encoder of an operation's row applied to its operands.  An
\* instruction is [op, rd, rs1, rs2, rs3, imm]: imm is the immediate, the
\* offset, the CSR address or the aq/rl pair, and rs3 the rounding mode of
\* an operation that has one and no third operand.  Every encoder's default
\* rounding mode is 7, dynamic.
encode(i) ==
    LET In(table) == i.op \in Names(table)
        c(table, k) == Row(table, i.op)[k]
    IN  CASE In(R_ALU) -> enc_r(c(R_ALU, 2), i.rs2, i.rs1, c(R_ALU, 3), i.rd)
          [] In(I_ALU) -> enc_i(i.imm, i.rs1, c(I_ALU, 2), i.rd)
          [] In(I_SHIFT) -> enc_i((i.imm % 32) + 32 * c(I_SHIFT, 3), i.rs1, c(I_SHIFT, 2), i.rd)
          [] In(I_UNARY) -> enc_i(c(I_UNARY, 4) + 32 * c(I_UNARY, 3), i.rs1, c(I_UNARY, 2), i.rd)
          [] i.op = "zext_h" -> enc_r(\h04, 0, i.rs1, 4, i.rd)
          [] In(LOADS) -> enc_i_load(i.imm, i.rs1, c(LOADS, 2), i.rd)
          [] In(STORES) -> enc_s(i.rs2, i.rs1, c(STORES, 2), i.imm)
          [] In(BRANCHES) -> enc_b(i.rs2, i.rs1, c(BRANCHES, 2), i.imm)
          [] i.op = "jal" -> enc_j(i.rd, i.imm)
          [] i.op = "jalr" -> enc_i_jalr(i.imm, i.rs1, i.rd)
          [] i.op = "lui" -> enc_lui(i.rd, i.imm)
          [] In(FENCES) -> enc_fence(c(FENCES, 2), c(FENCES, 3))
          [] In(CSRS) -> enc_csr(i.imm, i.rs1, c(CSRS, 2), i.rd)
          [] In(TRAP_INSTRS) -> enc_trap(c(TRAP_INSTRS, 2))
          [] i.op = "lr_w" -> enc_lr_w(i.rd, i.rs1, i.imm)
          [] i.op = "sc_w" -> enc_sc_w(i.rd, i.rs2, i.rs1, i.imm)
          [] In(AMO) -> enc_amo_w(c(AMO, 2), i.rd, i.rs2, i.rs1, i.imm)
          [] In(FP_LOADS) -> enc_fp_load(c(FP_LOADS, 2), i.rd, i.rs1, i.imm)
          [] In(FP_STORES) -> enc_fp_store(c(FP_STORES, 2), i.rs2, i.rs1, i.imm)
          [] In(FP_ARITH_2OP) -> enc_fp_arith(c(FP_ARITH_2OP, 2), i.rd, i.rs1, i.rs2, i.rs3)
          [] In(FP_FMA) -> enc_fp_fma(c(FP_FMA, 2), c(FP_FMA, 3), i.rd, i.rs1, i.rs2, i.rs3, 7)
          [] In(FP_SGNJ) -> enc_fp_sub(c(FP_SGNJ, 2), c(FP_SGNJ, 3), i.rd, i.rs1, i.rs2)
          [] In(FP_MINMAX) -> enc_fp_sub(c(FP_MINMAX, 2), c(FP_MINMAX, 3), i.rd, i.rs1, i.rs2)
          [] In(FP_CMP) -> enc_fp_sub(c(FP_CMP, 2), c(FP_CMP, 3), i.rd, i.rs1, i.rs2)
          [] In(FP_CVT) -> enc_fp_cvt(c(FP_CVT, 2), c(FP_CVT, 3), i.rd, i.rs1, i.rs3)
          [] In(FP_MV_CLASS) -> enc_fp_move(c(FP_MV_CLASS, 2), c(FP_MV_CLASS, 3), i.rd, i.rs1)

-----------------------------------------------------------------------------
(* instr_decoder.sv: arms of its case statements, as <<op, codes...>> *)

OP_Arms ==
    {<<"add", \b0000000, \b000>>, <<"sub", \b0100000, \b000>>, <<"and", \b0000000, \b111>>,
     <<"or", \b0000000, \b110>>, <<"xor", \b0000000, \b100>>, <<"sll", \b0000000, \b001>>,
     <<"srl", \b0000000, \b101>>, <<"sra", \b0100000, \b101>>, <<"slt", \b0000000, \b010>>,
     <<"sltu", \b0000000, \b011>>, <<"mul", \b0000001, \b000>>, <<"mulh", \b0000001, \b001>>,
     <<"mulhsu", \b0000001, \b010>>, <<"mulhu", \b0000001, \b011>>, <<"div", \b0000001, \b100>>,
     <<"divu", \b0000001, \b101>>, <<"rem", \b0000001, \b110>>, <<"remu", \b0000001, \b111>>,
     <<"sh1add", \b0010000, \b010>>, <<"sh2add", \b0010000, \b100>>, <<"sh3add", \b0010000, \b110>>,
     <<"bset", \b0010100, \b001>>, <<"bclr", \b0100100, \b001>>, <<"binv", \b0110100, \b001>>,
     <<"bext", \b0100100, \b101>>, <<"andn", \b0100000, \b111>>, <<"orn", \b0100000, \b110>>,
     <<"xnor", \b0100000, \b100>>, <<"max", \b0000101, \b110>>, <<"maxu", \b0000101, \b111>>,
     <<"min", \b0000101, \b100>>, <<"minu", \b0000101, \b101>>, <<"rol", \b0110000, \b001>>,
     <<"ror", \b0110000, \b101>>, <<"pack", \b0000100, \b100>>, <<"packh", \b0000100, \b111>>,
     <<"czero_eqz", \b0000111, \b101>>, <<"czero_nez", \b0000111, \b111>>}

OP_IMM_Arms == {<<"addi", \b000>>, <<"andi", \b111>>, <<"ori", \b110>>, <<"xori", \b100>>, <<"slti", \b010>>,
                <<"sltiu", \b011>>}
OP_IMM_ShiftArms == {<<"slli", \b001, \b0000000>>, <<"bseti", \b001, \b0010100>>, <<"bclri", \b001, \b0100100>>,
                     <<"binvi", \b001, \b0110100>>, <<"srli", \b101, \b0000000>>, <<"srai", \b101, \b0100000>>,
                     <<"bexti", \b101, \b0100100>>, <<"rori", \b101, \b0110000>>}
OP_IMM_UnaryArms ==
    {<<"clz", \b001, \b0110000, \b00000>>, <<"ctz", \b001, \b0110000, \b00001>>, <<"cpop", \b001, \b0110000, \b00010>>,
     <<"sext_b", \b001, \b0110000, \b00100>>, <<"sext_h", \b001, \b0110000, \b00101>>,
     <<"zip", \b001, \b0000100, \b01111>>, <<"orc_b", \b101, \b0010100, \b00111>>,
     <<"rev8", \b101, \b0110100, \b11000>>, <<"brev8", \b101, \b0110100, \b00111>>,
     <<"unzip", \b101, \b0000100, \b01111>>}
BRANCH_Arms == {<<"beq", \b000>>, <<"bne", \b001>>, <<"blt", \b100>>, <<"bge", \b101>>, <<"bltu", \b110>>,
                <<"bgeu", \b111>>}
LOAD_Arms == {<<"lb", \b000>>, <<"lh", \b001>>, <<"lw", \b010>>, <<"lbu", \b100>>, <<"lhu", \b101>>}
STORE_Arms == {<<"sb", \b000>>, <<"sh", \b001>>, <<"sw", \b010>>}
PRIV_Arms == {<<"ecall", \b0000000, \b00000>>, <<"ebreak", \b0000000, \b00001>>, <<"mret", \b0011000, \b00010>>,
              <<"wfi", \b0001000, \b00101>>}
CSR_Arms == {<<"csrrw", \b001>>, <<"csrrs", \b010>>, <<"csrrc", \b011>>, <<"csrrwi", \b101>>, <<"csrrsi", \b110>>,
             <<"csrrci", \b111>>}
AMO_Arms == {<<"lr_w", \b00010>>, <<"sc_w", \b00011>>, <<"amoswap_w", \b00001>>, <<"amoadd_w", \b00000>>,
             <<"amoxor_w", \b00100>>, <<"amoand_w", \b01100>>, <<"amoor_w", \b01000>>, <<"amomin_w", \b10000>>,
             <<"amomax_w", \b10100>>, <<"amominu_w", \b11000>>, <<"amomaxu_w", \b11100>>}
FMA_Arms == {<<"fmadd_s", \b1000011, \b00>>, <<"fmadd_d", \b1000011, \b01>>, <<"fmsub_s", \b1000111, \b00>>,
             <<"fmsub_d", \b1000111, \b01>>, <<"fnmsub_s", \b1001011, \b00>>, <<"fnmsub_d", \b1001011, \b01>>,
             <<"fnmadd_s", \b1001111, \b00>>, <<"fnmadd_d", \b1001111, \b01>>}
FP_RmArms == {<<"fadd_s", \b0000000>>, <<"fadd_d", \b0000001>>, <<"fsub_s", \b0000100>>, <<"fsub_d", \b0000101>>,
              <<"fmul_s", \b0001000>>, <<"fmul_d", \b0001001>>, <<"fdiv_s", \b0001100>>, <<"fdiv_d", \b0001101>>}
FP_Rs2Arms ==
    {<<"fsqrt_s", \b0101100, 0>>, <<"fsqrt_d", \b0101101, 0>>, <<"fcvt_w_s", \b1100000, 0>>, <<"fcvt_wu_s", \b1100000, 1>>,
     <<"fcvt_w_d", \b1100001, 0>>, <<"fcvt_wu_d", \b1100001, 1>>, <<"fcvt_s_w", \b1101000, 0>>,
     <<"fcvt_s_wu", \b1101000, 1>>, <<"fcvt_d_w", \b1101001, 0>>, <<"fcvt_d_wu", \b1101001, 1>>,
     <<"fcvt_s_d", \b0100000, 1>>, <<"fcvt_d_s", \b0100001, 0>>}
FP_SubArms ==
    {<<"fsgnj_s", \b0010000, \b000>>, <<"fsgnjn_s", \b0010000, \b001>>, <<"fsgnjx_s", \b0010000, \b010>>,
     <<"fsgnj_d", \b0010001, \b000>>, <<"fsgnjn_d", \b0010001, \b001>>, <<"fsgnjx_d", \b0010001, \b010>>,
     <<"fmin_s", \b0010100, \b000>>, <<"fmax_s", \b0010100, \b001>>, <<"fmin_d", \b0010101, \b000>>,
     <<"fmax_d", \b0010101, \b001>>, <<"feq_s", \b1010000, \b010>>, <<"flt_s", \b1010000, \b001>>,
     <<"fle_s", \b1010000, \b000>>, <<"feq_d", \b1010001, \b010>>, <<"flt_d", \b1010001, \b001>>,
     <<"fle_d", \b1010001, \b000>>}
FP_MoveArms == {<<"fmv_x_w", \b1110000, \b000>>, <<"fclass_s", \b1110000, \b001>>, <<"fclass_d", \b1110001, \b001>>,
                <<"fmv_w_x", \b1111000, \b000>>}

\* The operation of the arm that matches the codes, or none.
Matches(arms, codes) == { arm[1] : arm \in { a \in arms : Tail(a) = codes } }

\* Every operation whose arm matches the word: the case statements are
\* unique, so there is at most one, and none means o_illegal.
instr_decoder(w) ==
    LET opcode == Field(w, 6, 0)
        funct3 == Field(w, 14, 12)
        funct7 == Field(w, 31, 25)
        rs2 == Field(w, 24, 20)
        reserved_rm == funct3 \in {\b101, \b110}
    IN  CASE opcode = \b0110011 -> Matches(OP_Arms, <<funct7, funct3>>)
          [] opcode = \b0010011 -> Matches(OP_IMM_Arms, <<funct3>>)
                                   \cup Matches(OP_IMM_ShiftArms, <<funct3, funct7>>)
                                   \cup Matches(OP_IMM_UnaryArms, <<funct3, funct7, rs2>>)
          [] opcode = \b0110111 -> {"lui"}
          [] opcode = \b0010111 -> {"auipc"}
          [] opcode = \b1101111 -> {"jal"}
          [] opcode = \b1100111 -> IF funct3 = 0 THEN {"jalr"} ELSE {}
          [] opcode = \b1100011 -> Matches(BRANCH_Arms, <<funct3>>)
          [] opcode = \b0000011 -> Matches(LOAD_Arms, <<funct3>>)
          [] opcode = \b0100011 -> Matches(STORE_Arms, <<funct3>>)
          [] opcode = \b0001111 -> IF funct3 = 0
                                   THEN IF Field(w, 31, 15) = \b00000010000000000 /\ Field(w, 11, 7) = 0
                                        THEN {"pause"} ELSE {"fence"}
                                   ELSE IF funct3 = 1 THEN {"fence_i"} ELSE {}
          [] opcode = \b1110011 -> IF funct3 = 0 THEN Matches(PRIV_Arms, <<funct7, rs2>>)
                                                 ELSE Matches(CSR_Arms, <<funct3>>)
          [] opcode = \b0101111 -> IF funct3 = \b010 THEN Matches(AMO_Arms, <<Field(w, 31, 27)>>) ELSE {}
          [] opcode = \b0000111 -> Matches({<<"flw", \b010>>, <<"fld", \b011>>}, <<funct3>>)
          [] opcode = \b0100111 -> Matches({<<"fsw", \b010>>, <<"fsd", \b011>>}, <<funct3>>)
          [] opcode \in {\b1000011, \b1000111, \b1001011, \b1001111} ->
                IF reserved_rm THEN {} ELSE Matches(FMA_Arms, <<opcode, Field(w, 26, 25)>>)
          [] opcode = \b1010011 ->
                (IF reserved_rm THEN {}
                 ELSE Matches(FP_RmArms, <<funct7>>) \cup Matches(FP_Rs2Arms, <<funct7, rs2>>))
                \cup Matches(FP_SubArms, <<funct7, funct3>>)
                \cup (IF rs2 = 0 THEN Matches(FP_MoveArms, <<funct7, funct3>>) ELSE {})
          [] OTHER -> {}

-----------------------------------------------------------------------------
(* immediate_decoder.sv *)

immediate_i_type(w) == Signed(Field(w, 31, 20), 12)
immediate_s_type(w) == Signed(Field(w, 31, 25) * 2^5 + Field(w, 11, 7), 12)
immediate_b_type(w) == 2 * Signed(Num(w, <<31, 7, 30, 29, 28, 27, 26, 25, 11, 10, 9, 8>>), 12)
immediate_u_type(w) == Field(w, 31, 12)   \* in units of 2^12
immediate_j_type(w) ==
    2 * Signed(Num(w, <<31, 19, 18, 17, 16, 15, 14, 13, 12, 20, 30, 29, 28, 27, 26, 25, 24, 23, 22, 21>>), 20)

=============================================================================
