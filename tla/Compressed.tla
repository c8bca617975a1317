----------------------------- MODULE Compressed -----------------------------
(***************************************************************************)
(* The bench's compressed encoders (verif/encoders/compressed_encode.py)   *)
(* and the expander they have to agree with                                *)
(* (cpu/if_stage/c_extension/rvc_decompressor.sv).  A parcel is the set of *)
(* the positions, 0 to 15, of its one bits.                                *)
(***************************************************************************)
EXTENDS Encoding

AssertionError == {16}   \* no 16-bit parcel: the encoder's assert failed

\* A compressed register field: x8..x15.
is_compressible_reg(reg) == reg \in 8 .. 15
compress_reg(reg) == reg - 8

Checked(asserts, fields) == IF asserts THEN pack_bits(fields) ELSE AssertionError

Offset(imm, lo, hi) == imm % 2 = 0 /\ lo <= imm /\ imm <= hi
WordOffset(uimm, hi) == uimm % 4 = 0 /\ 0 <= uimm /\ uimm <= hi

-----------------------------------------------------------------------------
(* compressed_encode.py *)

\* enc_c_lw, enc_c_sw, enc_c_flw, enc_c_fsw: reg is rd' or rs2'.
enc_c_mem(funct3, reg, rs1, uimm) ==
    Checked(is_compressible_reg(reg) /\ is_compressible_reg(rs1) /\ WordOffset(uimm, 124),
            {<<funct3, 13, 3>>, <<uimm \div 2^6, 5, 1>>, <<uimm \div 2^3, 10, 3>>, <<compress_reg(rs1), 7, 3>>,
             <<uimm \div 2^2, 6, 1>>, <<compress_reg(reg), 2, 3>>, <<0, 0, 2>>})

enc_c_nop == {0}

\* The immediate of enc_c_addi, enc_c_li and enc_c_lui.
Imm6(funct3, rd, imm) == {<<funct3, 13, 3>>, <<imm \div 2^5, 12, 1>>, <<rd, 7, 5>>, <<imm, 2, 5>>, <<1, 0, 2>>}

enc_c_addi(rd, nzimm) == Checked(rd \in 0 .. 31 /\ nzimm \in -32 .. 31, Imm6(0, rd, nzimm))
enc_c_li(rd, imm) == Checked(rd \in 1 .. 31 /\ imm \in -32 .. 31, Imm6(2, rd, imm))
enc_c_lui(rd, nzimm) ==
    Checked(rd \in 1 .. 31 \ {2} /\ nzimm # 0 /\ nzimm \in -32 .. 31, Imm6(3, rd, nzimm))

\* enc_c_jal, enc_c_j
enc_c_jump(funct3, imm) ==
    Checked(Offset(imm, -2048, 2046),
            {<<funct3, 13, 3>>, <<imm \div 2^11, 12, 1>>, <<imm \div 2^4, 11, 1>>, <<imm \div 2^8, 9, 2>>,
             <<imm \div 2^10, 8, 1>>, <<imm \div 2^6, 7, 1>>, <<imm \div 2^7, 6, 1>>, <<imm \div 2, 3, 3>>,
             <<imm \div 2^5, 2, 1>>, <<1, 0, 2>>})
enc_c_jal(imm) == enc_c_jump(1, imm)
enc_c_j(imm) == enc_c_jump(5, imm)

enc_c_addi16sp(nzimm) ==
    Checked(nzimm # 0 /\ nzimm % 16 = 0 /\ nzimm \in -512 .. 496,
            {<<3, 13, 3>>, <<nzimm \div 2^9, 12, 1>>, <<2, 7, 5>>, <<nzimm \div 2^4, 6, 1>>, <<nzimm \div 2^6, 5, 1>>,
             <<nzimm \div 2^7, 3, 2>>, <<nzimm \div 2^5, 2, 1>>, <<1, 0, 2>>})

\* enc_c_srli, enc_c_srai
enc_c_shift(funct2, rd, shamt) ==
    Checked(is_compressible_reg(rd) /\ shamt \in 1 .. 31,
            {<<4, 13, 3>>, <<funct2, 10, 2>>, <<compress_reg(rd), 7, 3>>, <<shamt, 2, 5>>, <<1, 0, 2>>})

enc_c_andi(rd, imm) ==
    Checked(is_compressible_reg(rd) /\ imm \in -32 .. 31,
            {<<4, 13, 3>>, <<imm \div 2^5, 12, 1>>, <<2, 10, 2>>, <<compress_reg(rd), 7, 3>>, <<imm, 2, 5>>, <<1, 0, 2>>})

\* enc_c_sub, enc_c_xor, enc_c_or, enc_c_and
enc_c_alu(funct2, rd, rs2) ==
    Checked(is_compressible_reg(rd) /\ is_compressible_reg(rs2),
            {<<4, 13, 3>>, <<3, 10, 2>>, <<compress_reg(rd), 7, 3>>, <<funct2, 5, 2>>, <<compress_reg(rs2), 2, 3>>,
             <<1, 0, 2>>})

\* enc_c_beqz, enc_c_bnez
enc_c_branch(funct3, rs1, imm) ==
    Checked(is_compressible_reg(rs1) /\ Offset(imm, -256, 254),
            {<<funct3, 13, 3>>, <<imm \div 2^8, 12, 1>>, <<imm \div 2^3, 10, 2>>, <<compress_reg(rs1), 7, 3>>,
             <<imm \div 2^6, 5, 2>>, <<imm \div 2, 3, 2>>, <<imm \div 2^5, 2, 1>>, <<1, 0, 2>>})

enc_c_slli(rd, shamt) ==
    Checked(rd \in 1 .. 31 /\ shamt \in 1 .. 31, {<<0, 13, 3>>, <<rd, 7, 5>>, <<shamt, 2, 5>>, <<2, 0, 2>>})

enc_c_loadsp(funct3, dests, rd, uimm) ==
    Checked(rd \in dests /\ WordOffset(uimm, 252),
            {<<funct3, 13, 3>>, <<uimm \div 2^5, 12, 1>>, <<rd, 7, 5>>, <<uimm \div 2^2, 4, 3>>, <<uimm \div 2^6, 2, 2>>,
             <<2, 0, 2>>})
enc_c_lwsp(rd, uimm) == enc_c_loadsp(2, 1 .. 31, rd, uimm)
enc_c_flwsp(rd, uimm) == enc_c_loadsp(3, 0 .. 31, rd, uimm)

enc_c_storesp(funct3, rs2, uimm) ==
    Checked(rs2 \in 0 .. 31 /\ WordOffset(uimm, 252),
            {<<funct3, 13, 3>>, <<uimm \div 2^2, 9, 4>>, <<uimm \div 2^6, 7, 2>>, <<rs2, 2, 5>>, <<2, 0, 2>>})

enc_c_swsp(rs2, uimm) == enc_c_storesp(6, rs2, uimm)
enc_c_fswsp(rs2, uimm) == enc_c_storesp(7, rs2, uimm)

\* The register forms: the rs2 field is 0 for the jumps.
enc_c_reg(bit12, rd, rs2) == {<<4, 13, 3>>, <<bit12, 12, 1>>, <<rd, 7, 5>>, <<rs2, 2, 5>>, <<2, 0, 2>>}
enc_c_jr(rs1) == Checked(rs1 \in 1 .. 31, enc_c_reg(0, rs1, 0))
enc_c_jalr(rs1) == Checked(rs1 \in 1 .. 31, enc_c_reg(1, rs1, 0))
enc_c_mv(rd, rs2) == Checked(rd \in 1 .. 31 /\ rs2 \in 1 .. 31, enc_c_reg(0, rd, rs2))
enc_c_add(rd, rs2) == Checked(rd \in 1 .. 31 /\ rs2 \in 1 .. 31, enc_c_reg(1, rd, rs2))

C_OPS == {"c_lw", "c_sw", "c_flw", "c_fsw", "c_nop", "c_addi", "c_jal", "c_li", "c_lui", "c_addi16sp", "c_srli",
          "c_srai", "c_andi", "c_sub", "c_xor", "c_or", "c_and", "c_j", "c_beqz", "c_bnez", "c_slli", "c_lwsp",
          "c_jr", "c_mv", "c_jalr", "c_add", "c_swsp", "c_flwsp", "c_fswsp"}

\* The encoder of an operation applied to its operands [op, rd, rs1, rs2, imm].
encode_c(i) ==
    CASE i.op = "c_lw" -> enc_c_mem(2, i.rd, i.rs1, i.imm)
      [] i.op = "c_sw" -> enc_c_mem(6, i.rs2, i.rs1, i.imm)
      [] i.op = "c_flw" -> enc_c_mem(3, i.rd, i.rs1, i.imm)
      [] i.op = "c_fsw" -> enc_c_mem(7, i.rs2, i.rs1, i.imm)
      [] i.op = "c_nop" -> enc_c_nop
      [] i.op = "c_addi" -> enc_c_addi(i.rd, i.imm)
      [] i.op = "c_jal" -> enc_c_jal(i.imm)
      [] i.op = "c_li" -> enc_c_li(i.rd, i.imm)
      [] i.op = "c_lui" -> enc_c_lui(i.rd, i.imm)
      [] i.op = "c_addi16sp" -> enc_c_addi16sp(i.imm)
      [] i.op = "c_srli" -> enc_c_shift(0, i.rd, i.imm)
      [] i.op = "c_srai" -> enc_c_shift(1, i.rd, i.imm)
      [] i.op = "c_andi" -> enc_c_andi(i.rd, i.imm)
      [] i.op = "c_sub" -> enc_c_alu(0, i.rd, i.rs2)
      [] i.op = "c_xor" -> enc_c_alu(1, i.rd, i.rs2)
      [] i.op = "c_or" -> enc_c_alu(2, i.rd, i.rs2)
      [] i.op = "c_and" -> enc_c_alu(3, i.rd, i.rs2)
      [] i.op = "c_j" -> enc_c_j(i.imm)
      [] i.op = "c_beqz" -> enc_c_branch(6, i.rs1, i.imm)
      [] i.op = "c_bnez" -> enc_c_branch(7, i.rs1, i.imm)
      [] i.op = "c_slli" -> enc_c_slli(i.rd, i.imm)
      [] i.op = "c_lwsp" -> enc_c_lwsp(i.rd, i.imm)
      [] i.op = "c_flwsp" -> enc_c_flwsp(i.rd, i.imm)
      [] i.op = "c_jr" -> enc_c_jr(i.rs1)
      [] i.op = "c_jalr" -> enc_c_jalr(i.rs1)
      [] i.op = "c_mv" -> enc_c_mv(i.rd, i.rs2)
      [] i.op = "c_add" -> enc_c_add(i.rd, i.rs2)
      [] i.op = "c_swsp" -> enc_c_swsp(i.rs2, i.imm)
      [] i.op = "c_fswsp" -> enc_c_fswsp(i.rs2, i.imm)

\* The full-size instruction an encoder's docstring and op_tables.py's
\* evaluator give for the operation.
full_form(i) ==
    LET To(op, rd, rs1, rs2, imm) == [op |-> op, rd |-> rd, rs1 |-> rs1, rs2 |-> rs2, rs3 |-> 0, imm |-> imm]
    IN  CASE i.op = "c_lw" -> To("lw", i.rd, i.rs1, 0, i.imm)
          [] i.op = "c_sw" -> To("sw", 0, i.rs1, i.rs2, i.imm)
          [] i.op = "c_flw" -> To("flw", i.rd, i.rs1, 0, i.imm)
          [] i.op = "c_fsw" -> To("fsw", 0, i.rs1, i.rs2, i.imm)
          [] i.op = "c_nop" -> To("addi", 0, 0, 0, 0)
          [] i.op = "c_addi" -> To("addi", i.rd, i.rd, 0, i.imm)
          [] i.op = "c_jal" -> To("jal", 1, 0, 0, i.imm)
          [] i.op = "c_li" -> To("addi", i.rd, 0, 0, i.imm)
          [] i.op = "c_lui" -> To("lui", i.rd, 0, 0, i.imm)
          [] i.op = "c_addi16sp" -> To("addi", 2, 2, 0, i.imm)
          [] i.op = "c_srli" -> To("srli", i.rd, i.rd, 0, i.imm)
          [] i.op = "c_srai" -> To("srai", i.rd, i.rd, 0, i.imm)
          [] i.op = "c_andi" -> To("andi", i.rd, i.rd, 0, i.imm)
          [] i.op = "c_sub" -> To("sub", i.rd, i.rd, i.rs2, 0)
          [] i.op = "c_xor" -> To("xor", i.rd, i.rd, i.rs2, 0)
          [] i.op = "c_or" -> To("or", i.rd, i.rd, i.rs2, 0)
          [] i.op = "c_and" -> To("and", i.rd, i.rd, i.rs2, 0)
          [] i.op = "c_j" -> To("jal", 0, 0, 0, i.imm)
          [] i.op = "c_beqz" -> To("beq", 0, i.rs1, 0, i.imm)
          [] i.op = "c_bnez" -> To("bne", 0, i.rs1, 0, i.imm)
          [] i.op = "c_slli" -> To("slli", i.rd, i.rd, 0, i.imm)
          [] i.op = "c_lwsp" -> To("lw", i.rd, 2, 0, i.imm)
          [] i.op = "c_flwsp" -> To("flw", i.rd, 2, 0, i.imm)
          [] i.op = "c_jr" -> To("jalr", 0, i.rs1, 0, 0)
          [] i.op = "c_jalr" -> To("jalr", 1, i.rs1, 0, 0)
          [] i.op = "c_mv" -> To("add", i.rd, 0, i.rs2, 0)
          [] i.op = "c_add" -> To("add", i.rd, i.rd, i.rs2, 0)
          [] i.op = "c_swsp" -> To("sw", 0, 2, i.rs2, i.imm)
          [] i.op = "c_fswsp" -> To("fsw", 0, 2, i.rs2, i.imm)

-----------------------------------------------------------------------------
(* rvc_decompressor.sv *)

OpcOpImm == \b0010011
OpcOp == \b0110011
OpcLoad == \b0000011
OpcLoadFp == \b0000111
OpcStore == \b0100011
OpcStoreFp == \b0100111

quadrant(p) == Field(p, 1, 0)
is_compressed(p) == quadrant(p) # \b11

\* The immediates: the parcel's bits from the most significant down.
imm_addi4spn(p) == 4 * Num(p, <<10, 9, 8, 7, 12, 11, 5, 6>>)
imm_lw_sw(p) == 4 * Num(p, <<5, 12, 11, 10, 6>>)
imm_ld_sd(p) == 8 * Num(p, <<6, 5, 12, 11, 10>>)
imm_ci(p) == Signed(Num(p, <<12, 6, 5, 4, 3, 2>>), 6)
imm_addi16sp(p) == 16 * Signed(Num(p, <<12, 4, 3, 5, 2, 6>>), 6)
imm_j(p) == 2 * Signed(Num(p, <<12, 8, 10, 9, 6, 7, 2, 11, 5, 4, 3>>), 11)
imm_b(p) == 2 * Signed(Num(p, <<12, 6, 5, 2, 11, 10, 4, 3>>), 8)
imm_lwsp(p) == 4 * Num(p, <<3, 2, 12, 6, 5, 4>>)
imm_ldsp(p) == 8 * Num(p, <<4, 3, 2, 12, 6, 5>>)
imm_swsp(p) == 4 * Num(p, <<8, 7, 12, 11, 10, 9>>)
imm_sdsp(p) == 8 * Num(p, <<9, 8, 7, 12, 11, 10>>)

\* The expansion, and whether the parcel is one the expander flags.
rvc_decompressor(p, rd_is_x2) ==
    LET funct3 == Field(p, 15, 13)
        rd_full == Field(p, 11, 7)
        rs2_full == Field(p, 6, 2)
        rd_prime == 8 + Field(p, 4, 2)
        rs1_prime == 8 + Field(p, 9, 7)
        shamt == Field(p, 6, 2)
        Is(word) == [instr |-> word, illegal |-> FALSE]
        But(word, illegal) == [instr |-> word, illegal |-> illegal]
        Reserved == [instr |-> {}, illegal |-> TRUE]
        quad0 == CASE funct3 = \b000 -> But(IType(imm_addi4spn(p), 2, 0, rd_prime, OpcOpImm), imm_addi4spn(p) = 0)
                   [] funct3 = \b010 -> Is(IType(imm_lw_sw(p), rs1_prime, \b010, rd_prime, OpcLoad))
                   [] funct3 = \b001 -> Is(IType(imm_ld_sd(p), rs1_prime, \b011, rd_prime, OpcLoadFp))
                   [] funct3 = \b011 -> Is(IType(imm_lw_sw(p), rs1_prime, \b010, rd_prime, OpcLoadFp))
                   [] funct3 = \b110 -> Is(SType(imm_lw_sw(p), rd_prime, rs1_prime, \b010, OpcStore))
                   [] funct3 = \b101 -> Is(SType(imm_ld_sd(p), rd_prime, rs1_prime, \b011, OpcStoreFp))
                   [] funct3 = \b111 -> Is(SType(imm_lw_sw(p), rd_prime, rs1_prime, \b010, OpcStoreFp))
                   [] OTHER -> Reserved
        alu == CASE Field(p, 11, 10) = \b00 -> But(IType(shamt, rs1_prime, \b101, rs1_prime, OpcOpImm), 12 \in p)
                 [] Field(p, 11, 10) = \b01 ->
                        But(IType(2^10 + shamt, rs1_prime, \b101, rs1_prime, OpcOpImm), 12 \in p)
                 [] Field(p, 11, 10) = \b10 -> Is(IType(imm_ci(p), rs1_prime, \b111, rs1_prime, OpcOpImm))
                 [] OTHER -> IF 12 \in p THEN Reserved
                             ELSE Is(RType(<<\b0100000, 0, 0, 0>>[Field(p, 6, 5) + 1], rd_prime, rs1_prime,
                                           <<\b000, \b100, \b110, \b111>>[Field(p, 6, 5) + 1], rs1_prime, OpcOp))
        quad1 == CASE funct3 = \b000 -> Is(IType(imm_ci(p), rd_full, 0, rd_full, OpcOpImm))
                   [] funct3 = \b001 -> Is(JType(imm_j(p), 1, \b1101111))
                   [] funct3 = \b010 -> Is(IType(imm_ci(p), 0, 0, rd_full, OpcOpImm))
                   [] funct3 = \b011 /\ rd_is_x2 ->
                          But(IType(imm_addi16sp(p), 2, 0, 2, OpcOpImm), imm_addi16sp(p) = 0)
                   [] funct3 = \b011 /\ ~rd_is_x2 -> But(UType(imm_ci(p), rd_full, \b0110111), imm_ci(p) = 0)
                   [] funct3 = \b100 -> alu
                   [] funct3 = \b101 -> Is(JType(imm_j(p), 0, \b1101111))
                   [] funct3 = \b110 -> Is(BType(imm_b(p), 0, rs1_prime, \b000, \b1100011))
                   [] funct3 = \b111 -> Is(BType(imm_b(p), 0, rs1_prime, \b001, \b1100011))
        jump_or_move == IF rs2_full = 0
                        THEN IF 12 \notin p THEN But(IType(0, rd_full, 0, 0, \b1100111), rd_full = 0)
                             ELSE IF rd_full = 0 THEN Is(IType(1, 0, 0, 0, \b1110011))
                             ELSE Is(IType(0, rd_full, 0, 1, \b1100111))
                        ELSE Is(RType(0, rs2_full, IF 12 \in p THEN rd_full ELSE 0, 0, rd_full, OpcOp))
        quad2 == CASE funct3 = \b000 -> But(IType(shamt, rd_full, \b001, rd_full, OpcOpImm), 12 \in p)
                   [] funct3 = \b010 -> But(IType(imm_lwsp(p), 2, \b010, rd_full, OpcLoad), rd_full = 0)
                   [] funct3 = \b001 -> Is(IType(imm_ldsp(p), 2, \b011, rd_full, OpcLoadFp))
                   [] funct3 = \b011 -> Is(IType(imm_lwsp(p), 2, \b010, rd_full, OpcLoadFp))
                   [] funct3 = \b100 -> jump_or_move
                   [] funct3 = \b110 -> Is(SType(imm_swsp(p), rs2_full, 2, \b010, OpcStore))
                   [] funct3 = \b101 -> Is(SType(imm_sdsp(p), rs2_full, 2, \b011, OpcStoreFp))
                   [] funct3 = \b111 -> Is(SType(imm_swsp(p), rs2_full, 2, \b010, OpcStoreFp))
    IN  CASE quadrant(p) = \b00 -> quad0
          [] quadrant(p) = \b01 -> quad1
          [] quadrant(p) = \b10 -> quad2
          [] OTHER -> Is(p)

=============================================================================
