--------------------------- MODULE DispatchDecode ---------------------------
(***************************************************************************)
(* The classification of an instruction that dispatch reads: as the        *)
(* dispatch bench derives it from the operation                            *)
(* (verif/cocotb_tests/tomasulo/dispatch/dispatch_interface.py) and as the *)
(* ID stage registers it (id_stage.sv), partly from the decoded operation  *)
(* and partly, for timing, from bits of the word                           *)
(* (instruction_type_decoder.sv).  A classification is the set of the      *)
(* flags that are 1, and the reservation station the instruction goes to.  *)
(***************************************************************************)
EXTENDS Encoding

-----------------------------------------------------------------------------
(* dispatch_interface.py.  Operations listed family by family there are     *)
(* named by the family here.                                               *)

FpBinary == Names(FP_ARITH_2OP) \cup Names(FP_MINMAX) \cup Names(FP_SGNJ) \cup Names(FP_CMP)

_HAS_FP_DEST_OPS ==
    Names(FP_LOADS) \cup Names(FP_ARITH_2OP) \cup Names(FP_ARITH_1OP) \cup Names(FP_FMA) \cup Names(FP_MINMAX)
    \cup Names(FP_SGNJ) \cup Names(FP_CVT_I2F) \cup Names(FP_CVT_F2F) \cup {"fmv_w_x"}
_HAS_INT_DEST_OPS ==
    Names(R_ALU) \cup Names(I_ALU) \cup Names(I_SHIFT) \cup Names(I_UNARY) \cup {"lui", "auipc", "jal", "jalr"}
    \cup Names(LOADS) \cup Names(AMO_LR_SC) \cup Names(AMO) \cup Names(CSRS)
    \cup Names(FP_CMP) \cup Names(FP_CLASS) \cup Names(FP_CVT_F2I) \cup {"fmv_x_w"}
_USES_FP_RS1_OPS ==
    FpBinary \cup Names(FP_ARITH_1OP) \cup Names(FP_FMA) \cup Names(FP_CLASS) \cup Names(FP_CVT_F2I)
    \cup Names(FP_CVT_F2F) \cup {"fmv_x_w"}
FpRs2WithoutStores == FpBinary \cup Names(FP_FMA)   \* mutant: the data of an FP store is forgotten
_USES_FP_RS2_OPS == FpBinary \cup Names(FP_FMA) \cup Names(FP_STORES)
_USES_FP_RS3_OPS == Names(FP_FMA)
_NOT_USES_INT_RS1_OPS == {"lui", "auipc", "jal", "ecall", "ebreak", "fence", "fence_i", "wfi", "mret", "pause",
                          "csrrwi", "csrrsi", "csrrci"}
_USES_INT_RS2_OPS == Names(BRANCHES) \cup Names(R_ALU) \cup {"zip", "unzip"} \cup Names(STORES) \cup {"sc_w"}
                     \cup Names(AMO)

_MUL_OPS == {"mul", "mulh", "mulhsu", "mulhu"}
_DIV_OPS == {"div", "divu", "rem", "remu"}
_RS_MUL_OPS == _MUL_OPS \cup _DIV_OPS
_AMO_OPS == Names(AMO_LR_SC) \cup Names(AMO)
_RS_MEM_OPS == Names(LOADS) \cup Names(STORES) \cup Names(FP_LOADS) \cup Names(FP_STORES) \cup _AMO_OPS
               \cup {"fence", "fence_i"}
_RS_FP_OPS == {"fadd_s", "fsub_s", "fadd_d", "fsub_d", "fmv_x_w", "fmv_w_x"}
              \cup Names(FP_MINMAX) \cup Names(FP_CMP) \cup Names(FP_SGNJ) \cup Names(FP_CLASS)
              \cup Names(FP_CVT_F2I) \cup Names(FP_CVT_I2F) \cup Names(FP_CVT_F2F)
_RS_FMUL_OPS == {"fmul_s", "fmul_d"} \cup Names(FP_FMA)
_RS_FDIV_OPS == {"fdiv_s", "fdiv_d"} \cup Names(FP_ARITH_1OP)
_RS_NONE_OPS == {"jal", "wfi", "mret", "pause"}
_HAS_FP_FLAGS_OPS == _RS_FP_OPS \cup _RS_FMUL_OPS \cup _RS_FDIV_OPS

_derive_rs_type(op) ==
    CASE op \in _RS_NONE_OPS -> "RS_NONE"
      [] op \in _RS_MUL_OPS -> "RS_MUL"
      [] op \in _RS_MEM_OPS -> "RS_MEM"
      [] op \in _RS_FP_OPS -> "RS_FP"
      [] op \in _RS_FMUL_OPS -> "RS_FMUL"
      [] op \in _RS_FDIV_OPS -> "RS_FDIV"
      [] OTHER -> "RS_INT"

\* The operations each flag holds of.
_FLAG_OPS ==
    [has_fp_dest |-> _HAS_FP_DEST_OPS,
     has_int_dest |-> _HAS_INT_DEST_OPS,
     uses_fp_rs1 |-> _USES_FP_RS1_OPS,
     uses_fp_rs2 |-> _USES_FP_RS2_OPS,
     uses_fp_rs3 |-> _USES_FP_RS3_OPS,
     uses_int_rs2 |-> _USES_INT_RS2_OPS \ _USES_FP_RS2_OPS,
     is_int_store |-> {"sb", "sh", "sw"},
     is_branch_or_jump |-> Names(BRANCHES) \cup {"jal", "jalr"},
     is_fence |-> {"fence"},
     is_fence_i |-> {"fence_i"},
     is_csr_imm |-> {"csrrwi", "csrrsi", "csrrci"},
     has_fp_flags |-> _HAS_FP_FLAGS_OPS,
     is_load_instruction |-> {"lb", "lh", "lw", "lbu", "lhu"},
     is_load_byte |-> {"lb", "lbu"},
     is_load_halfword |-> {"lh", "lhu"},
     is_load_unsigned |-> {"lbu", "lhu"},
     is_jump_and_link |-> {"jal"},
     is_jump_and_link_register |-> {"jalr"},
     is_multiply |-> _MUL_OPS,
     is_divide |-> _DIV_OPS,
     is_csr_instruction |-> Names(CSRS),
     is_amo_instruction |-> _AMO_OPS,
     is_lr |-> {"lr_w"}, is_sc |-> {"sc_w"},
     is_mret |-> {"mret"}, is_wfi |-> {"wfi"}, is_ecall |-> {"ecall"}, is_ebreak |-> {"ebreak"},
     is_fp_instruction |-> Names(FP_LOADS) \cup _HAS_FP_FLAGS_OPS \cup _HAS_FP_DEST_OPS \cup _USES_FP_RS1_OPS
                           \cup _USES_FP_RS2_OPS \cup _USES_FP_RS3_OPS,
     is_fp_load |-> {"flw", "fld"}, is_fp_store |-> {"fsw", "fsd"},
     is_fp_load_double |-> {"fld"}, is_fp_store_double |-> {"fsd"},
     is_fp_compute |-> _HAS_FP_FLAGS_OPS,
     is_pipelined_fp_op |-> _RS_FMUL_OPS \cup _RS_FDIV_OPS,
     is_fp_to_int |-> Names(FP_CVT_F2I) \cup {"fmv_x_w"},
     is_int_to_fp |-> Names(FP_CVT_I2F) \cup {"fmv_w_x"}]

_derive_pre_decoded_flags(op) ==
    { f \in DOMAIN _FLAG_OPS : op \in _FLAG_OPS[f] }
    \cup (IF op \in _USES_FP_RS1_OPS \cup _NOT_USES_INT_RS1_OPS THEN {} ELSE {"uses_int_rs1"})
    \cup {"is_not_nop"}

-----------------------------------------------------------------------------
(* id_stage.sv: the flags decoded from the operation, ILLEGAL when the      *)
(* decoder matched nothing                                                 *)

op_for_pre_decode(w) == IF instr_decoder(w) = {} THEN "ILLEGAL" ELSE CHOOSE op \in instr_decoder(w) : TRUE

rs_type_pre(op) ==
    CASE op \in {"mul", "mulh", "mulhsu", "mulhu", "div", "divu", "rem", "remu"} -> "RS_MUL"
      [] op \in Names(LOAD_Arms) \cup Names(STORE_Arms) \cup {"flw", "fsw", "fld", "fsd"} \cup Names(AMO_Arms)
                \cup {"fence", "fence_i"} -> "RS_MEM"
      [] op \in {"fadd_s", "fsub_s", "fadd_d", "fsub_d"} \cup Names(FP_SubArms) \cup Names(FP_MoveArms)
                \cup (Names(FP_Rs2Arms) \ {"fsqrt_s", "fsqrt_d"}) -> "RS_FP"
      [] op \in {"fmul_s", "fmul_d"} \cup Names(FMA_Arms) -> "RS_FMUL"
      [] op \in {"fdiv_s", "fsqrt_s", "fdiv_d", "fsqrt_d"} -> "RS_FDIV"
      [] op \in {"jal", "wfi", "mret", "pause"} -> "RS_NONE"
      [] OTHER -> "RS_INT"

CompareToInt == {"feq_s", "flt_s", "fle_s", "feq_d", "flt_d", "fle_d"}
ConvertToInt == {"fcvt_w_s", "fcvt_wu_s", "fcvt_w_d", "fcvt_wu_d"}
ConvertFromInt == {"fcvt_s_w", "fcvt_s_wu", "fcvt_d_w", "fcvt_d_wu"}
ClassifyOps == {"fclass_s", "fclass_d"}

has_fp_dest_pre == {"flw", "fld", "fmv_w_x"} \cup Names(FP_RmArms) \cup Names(FMA_Arms)
                   \cup (Names(FP_Rs2Arms) \ ConvertToInt) \cup (Names(FP_SubArms) \ CompareToInt)
has_int_dest_pre == Names(OP_Arms) \cup Names(OP_IMM_Arms) \cup Names(OP_IMM_ShiftArms) \cup Names(OP_IMM_UnaryArms)
                    \cup {"lui", "auipc", "jal", "jalr", "fmv_x_w"} \cup Names(LOAD_Arms) \cup Names(AMO_Arms)
                    \cup Names(CSR_Arms) \cup CompareToInt \cup ClassifyOps \cup ConvertToInt
uses_fp_rs1_pre == Names(FP_RmArms) \cup Names(FMA_Arms) \cup (Names(FP_Rs2Arms) \ ConvertFromInt)
                   \cup Names(FP_SubArms) \cup ClassifyOps \cup {"fmv_x_w"}
uses_fp_rs2_pre == Names(FP_RmArms) \cup Names(FMA_Arms) \cup Names(FP_SubArms) \cup {"fsw", "fsd"}
uses_int_rs1_not == {"lui", "auipc", "jal", "ecall", "ebreak", "fence", "fence_i", "wfi", "mret", "pause",
                     "csrrwi", "csrrsi", "csrrci", "ILLEGAL"}
uses_int_rs2_pre == Names(BRANCH_Arms) \cup Names(OP_Arms) \cup {"zip", "unzip"} \cup Names(STORE_Arms)
                    \cup (Names(AMO_Arms) \ {"lr_w"})

PreDecoded(op) ==
    LET flags == [has_fp_dest |-> op \in has_fp_dest_pre,
                  has_int_dest |-> op \in has_int_dest_pre,
                  uses_fp_rs1 |-> op \in uses_fp_rs1_pre,
                  uses_fp_rs2 |-> op \in uses_fp_rs2_pre,
                  uses_fp_rs3 |-> op \in Names(FMA_Arms),
                  uses_int_rs1 |-> op \notin uses_fp_rs1_pre /\ op \notin uses_int_rs1_not,
                  uses_int_rs2 |-> op \in uses_int_rs2_pre /\ op \notin uses_fp_rs2_pre,
                  is_int_store |-> op \in {"sb", "sh", "sw"},
                  is_branch_or_jump |-> op \in Names(BRANCH_Arms) \cup {"jal", "jalr"},
                  is_fence |-> op = "fence",
                  is_fence_i |-> op = "fence_i",
                  is_csr_imm |-> op \in {"csrrwi", "csrrsi", "csrrci"},
                  has_fp_flags |-> op \in Names(FP_RmArms) \cup Names(FMA_Arms) \cup Names(FP_SubArms)
                                          \cup Names(FP_Rs2Arms) \cup Names(FP_MoveArms)]
    IN  { f \in DOMAIN flags : flags[f] }

\* The flags decoded from the bits of the word, whatever the operation.
Direct(w) ==
    LET opcode == Field(w, 6, 0)
        funct3 == Field(w, 14, 12)
        funct7 == Field(w, 31, 25)
        funct5 == funct7 \div 4
        rs2 == Field(w, 24, 20)
        load == opcode = \b0000011
        m_extension == opcode = \b0110011 /\ funct7 = \b0000001
        amo == opcode = \b0101111
        priv == opcode = \b1110011 /\ funct3 = 0
        compute == opcode = \b1010011
        fma == opcode \in {\b1000011, \b1000111, \b1001011, \b1001111}
        fp_load == opcode = \b0000111 /\ funct3 \in {\b010, \b011}
        fp_store == opcode = \b0100111 /\ funct3 \in {\b010, \b011}
        flags == [is_load_instruction |-> load,
                  is_load_byte |-> load /\ funct3 \in {\b000, \b100},
                  is_load_halfword |-> load /\ funct3 \in {\b001, \b101},
                  is_load_unsigned |-> load /\ 14 \in w,
                  is_multiply |-> m_extension /\ 14 \notin w,
                  is_divide |-> m_extension /\ 14 \in w,
                  is_csr_instruction |-> opcode = \b1110011 /\ funct3 # 0,
                  is_amo_instruction |-> amo,
                  is_lr |-> amo /\ funct3 = \b010 /\ funct5 = \b00010,
                  is_sc |-> amo /\ funct3 = \b010 /\ funct5 = \b00011,
                  is_ecall |-> priv /\ funct7 = 0 /\ rs2 = 0,
                  is_ebreak |-> priv /\ funct7 = 0 /\ rs2 = 1,
                  is_mret |-> priv /\ funct7 = \b0011000 /\ rs2 = \b00010,
                  is_wfi |-> priv /\ funct7 = \b0001000 /\ rs2 = \b00101,
                  is_jump_and_link |-> opcode = \b1101111,
                  is_jump_and_link_register |-> opcode = \b1100111 /\ funct3 = 0,
                  is_fp_load |-> fp_load,
                  is_fp_store |-> fp_store,
                  is_fp_load_double |-> fp_load /\ funct3 = \b011,
                  is_fp_store_double |-> fp_store /\ funct3 = \b011,
                  is_fp_compute |-> compute \/ fma,
                  is_fp_instruction |-> fp_load \/ fp_store \/ compute \/ fma,
                  is_fp_to_int |-> compute /\ (funct5 \in {\b10100, \b11000} \/ (funct5 = \b11100 /\ funct3 \in {0, 1})),
                  is_int_to_fp |-> compute /\ (funct5 = \b11010 \/ (funct5 = \b11110 /\ funct3 = 0)),
                  is_pipelined_fp_op |-> fma \/ (compute /\ (funct7 \div 8 \in {\b0000, \b0001} \/ funct5 = \b01011)),
                  is_not_nop |-> w # pack_bits({<<\b0010011, 0, 7>>})]
    IN  { f \in DOMAIN flags : flags[f] }

\* What the ID stage registers for dispatch.
id_stage(w) == Direct(w) \cup PreDecoded(op_for_pre_decode(w))

-----------------------------------------------------------------------------
(* What a memory operation asks of the load and store queues: as the        *)
(* wrapper bench fills it in (tomasulo_interface.py) and as dispatch        *)
(* derives it at XLEN = 32                                                  *)

_LQ_OPS == {"lb", "lh", "lw", "lbu", "lhu", "flw", "fld", "lr_w"} \cup Names(AMO)
_SQ_OPS == {"sb", "sh", "sw", "fsw", "fsd", "sc_w"}
_mem_size_for_op(op) == CASE op \in {"lb", "lbu", "sb"} -> 0
                          [] op \in {"lh", "lhu", "sh"} -> 1
                          [] op \in {"fld", "fsd"} -> 3
                          [] OTHER -> 2
_rs_dispatch_kwargs(op) ==
    [mem_needs_lq |-> op \in _LQ_OPS, mem_needs_sq |-> op \in _SQ_OPS,
     is_fp_mem |-> op \in {"flw", "fld", "fsw", "fsd"},
     mem_size |-> _mem_size_for_op(op), mem_signed |-> op \in {"lb", "lh"}]

\* Of an operation and the flags ID registered for it.
dispatch_mem(op, f) ==
    [mem_needs_lq |-> \/ {"is_load_instruction", "is_fp_load", "is_lr"} \cap f # {}
                      \/ "is_amo_instruction" \in f /\ "is_sc" \notin f,
     mem_needs_sq |-> {"is_int_store", "is_fp_store", "is_sc"} \cap f # {},
     is_fp_mem |-> {"is_fp_load", "is_fp_store"} \cap f # {},
     mem_size |-> CASE op \in {"lb", "lbu", "sb"} -> 0
                    [] op \in {"lh", "lhu", "sh"} -> 1
                    [] op \in {"fld", "fsd"} -> 3
                    [] OTHER -> 2,
     mem_signed |-> /\ "is_load_instruction" \in f /\ "is_load_unsigned" \notin f
                    /\ {"is_load_byte", "is_load_halfword"} \cap f # {}]
=============================================================================
