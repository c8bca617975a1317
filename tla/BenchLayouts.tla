---------------------------- MODULE BenchLayouts ----------------------------
(***************************************************************************)
(* The bit layouts of the Tomasulo unit benches.  A simulator shows a      *)
(* packed struct as one bit vector, so every bench has its own routine     *)
(* that packs or unpacks each struct it drives or reads.  A layout is the  *)
(* sequence of the fields and their widths in the order the code lists     *)
(* them: from the least significant bit where the routine shifts field     *)
(* after field, from the most significant where it is a table, as in the   *)
(* packed structs of riscv_pkg.sv.  X stands for XLEN.                     *)
(***************************************************************************)
EXTENDS Integers, Sequences, SequencesExt, FiniteSets

FLEN == 64

\* Fields of one width, in order.
W(width, names) == [i \in DOMAIN names |-> <<names[i], width>>]

\* Where each field of a layout lies: <<field, offset, width>>.
Before(layout, i) == Cardinality(UNION { {j} \X (1 .. layout[j][2]) : j \in 1 .. i - 1 })
LsbFirst(layout) == { <<layout[i][1], Before(layout, i), layout[i][2]>> : i \in DOMAIN layout }
MsbFirst(layout) == LsbFirst(Reverse(layout))

-----------------------------------------------------------------------------
(* riscv_pkg.sv, the first field in the most significant bits *)

instr_t == W(7, <<"funct7">>) \o W(5, <<"source_reg_2", "source_reg_1">>) \o W(3, <<"funct3">>)
           \o W(5, <<"dest_reg">>) \o W(7, <<"opcode">>)
from_id_to_ex_t(X) ==
    W(X, <<"program_counter", "immediate_i_type", "immediate_s_type", "immediate_b_type", "immediate_u_type",
           "immediate_j_type", "source_reg_1_data", "source_reg_2_data">>)
    \o W(1, <<"source_reg_1_is_x0", "source_reg_2_is_x0", "is_load_instruction", "is_load_byte", "is_load_halfword",
              "is_load_unsigned">>)
    \o W(32, <<"instruction_operation">>) \o W(3, <<"branch_operation", "store_operation", "rs_type">>)
    \o W(1, <<"is_int_store", "is_branch_or_jump", "is_fence", "is_fence_i", "is_csr_imm", "has_fp_flags",
              "is_jump_and_link", "is_jump_and_link_register", "is_multiply", "is_divide", "is_csr_instruction">>)
    \o W(12, <<"csr_address">>) \o W(5, <<"csr_imm">>)
    \o W(1, <<"is_amo_instruction", "is_lr", "is_sc", "is_mret", "is_wfi", "is_ecall", "is_ebreak",
              "is_illegal_instruction", "is_fp_instruction", "is_fp_load", "is_fp_store", "is_fp_load_double",
              "is_fp_store_double", "is_fp_compute", "is_pipelined_fp_op">>)
    \o W(3, <<"fp_rm">>) \o W(1, <<"is_fp_to_int", "is_int_to_fp">>)
    \o W(FLEN, <<"fp_source_reg_1_data", "fp_source_reg_2_data", "fp_source_reg_3_data">>)
    \o W(X, <<"link_address">>) \o W(1, <<"is_compressed">>)
    \o W(X, <<"branch_target_precomputed", "jal_target_precomputed">>) \o W(32, <<"instruction">>)
    \o W(1, <<"btb_hit", "btb_predicted_taken">>) \o W(X, <<"btb_predicted_target">>)
    \o W(1, <<"ras_predicted">>) \o W(X, <<"ras_predicted_target">>)
    \o W(3, <<"ras_checkpoint_tos">>) \o W(4, <<"ras_checkpoint_valid_count">>) \o W(10, <<"bp_dir_idx">>)
    \o W(1, <<"is_ras_return", "is_ras_call", "ras_predicted_target_nonzero">>) \o W(X, <<"ras_expected_rs1">>)
    \o W(1, <<"btb_correct_non_jalr">>) \o W(X, <<"btb_expected_rs1">>)
    \o W(1, <<"has_int_dest", "has_fp_dest", "uses_int_rs1", "uses_int_rs2", "uses_fp_rs1", "uses_fp_rs2",
              "uses_fp_rs3", "is_not_nop">>)
reorder_buffer_alloc_req_t(X) ==
    W(1, <<"alloc_valid">>) \o W(X, <<"pc">>) \o W(3, <<"rs_type">>) \o W(1, <<"dest_rf">>) \o W(5, <<"dest_reg">>)
    \o W(1, <<"dest_valid", "is_store", "is_fp_store", "is_branch", "predicted_taken">>)
    \o W(X, <<"predicted_target", "branch_target">>) \o W(1, <<"is_call", "is_return">>) \o W(X, <<"link_addr">>)
    \o W(1, <<"is_jal", "is_jalr", "is_csr", "is_fence", "is_fence_i", "is_wfi", "is_mret", "is_amo", "is_lr",
              "is_sc", "is_compressed">>)
    \o W(12, <<"csr_addr">>) \o W(3, <<"csr_op">>) \o W(X, <<"csr_write_data">>) \o W(1, <<"has_fp_flags">>)
reorder_buffer_alloc_resp_t == W(1, <<"alloc_ready">>) \o W(5, <<"alloc_tag">>) \o W(1, <<"full">>)
fu_complete_t == W(1, <<"valid">>) \o W(5, <<"tag">>) \o W(FLEN, <<"value">>) \o W(1, <<"exception">>)
                 \o W(5, <<"exc_cause", "fp_flags">>)
reorder_buffer_cdb_write_t == fu_complete_t
cdb_broadcast_t == fu_complete_t \o W(3, <<"fu_type">>)
reorder_buffer_branch_update_t(X) ==
    W(1, <<"valid">>) \o W(5, <<"tag">>) \o W(1, <<"taken">>) \o W(X, <<"target">>) \o W(1, <<"mispredicted">>)
reorder_buffer_commit_t(X) ==
    W(1, <<"valid">>) \o W(5, <<"tag">>) \o W(1, <<"dest_rf">>) \o W(5, <<"dest_reg">>) \o W(1, <<"dest_valid">>)
    \o W(FLEN, <<"value">>) \o W(1, <<"is_store", "is_fp_store", "exception">>) \o W(X, <<"pc">>)
    \o W(5, <<"exc_cause", "fp_flags">>)
    \o W(1, <<"has_fp_flags", "misprediction", "early_recovered", "has_checkpoint">>) \o W(3, <<"checkpoint_id">>)
    \o W(X, <<"redirect_pc">>) \o W(1, <<"predicted_taken", "branch_taken">>) \o W(X, <<"branch_target">>)
    \o W(1, <<"is_branch", "is_call", "is_return", "is_jal", "is_jalr">>)
    \o W(12, <<"csr_addr">>) \o W(3, <<"csr_op">>) \o W(X, <<"csr_write_data">>)
    \o W(1, <<"is_csr", "is_fence", "is_fence_i", "is_wfi", "is_mret", "is_amo", "is_lr", "is_sc", "is_compressed">>)
rat_lookup_t == W(1, <<"renamed">>) \o W(5, <<"tag">>) \o W(FLEN, <<"value">>)
\* What an instruction carries through its reservation station unchanged.
Carried(X) ==
    W(X, <<"imm">>) \o W(1, <<"use_imm">>) \o W(3, <<"rm">>) \o W(X, <<"branch_target">>)
    \o W(1, <<"predicted_taken">>) \o W(X, <<"predicted_target">>)
    \o W(1, <<"is_fp_mem", "mem_needs_lq", "mem_needs_sq">>) \o W(2, <<"mem_size">>) \o W(1, <<"mem_signed">>)
    \o W(12, <<"csr_addr">>) \o W(5, <<"csr_imm">>) \o W(X, <<"pc", "link_addr">>)
    \o W(1, <<"has_checkpoint">>) \o W(3, <<"checkpoint_id">>)
rs_dispatch_t(X) ==
    W(1, <<"valid">>) \o W(3, <<"rs_type">>) \o W(5, <<"rob_tag">>) \o W(32, <<"op">>)
    \o W(1, <<"src1_ready">>) \o W(5, <<"src1_tag">>) \o W(FLEN, <<"src1_value">>)
    \o W(1, <<"src2_ready">>) \o W(5, <<"src2_tag">>) \o W(FLEN, <<"src2_value">>)
    \o W(1, <<"src3_ready">>) \o W(5, <<"src3_tag">>) \o W(FLEN, <<"src3_value">>)
    \o Carried(X) \o W(1, <<"is_call", "is_return">>)
rs_issue_t(X) ==
    W(1, <<"valid">>) \o W(5, <<"rob_tag">>) \o W(32, <<"op">>)
    \o W(FLEN, <<"src1_value", "src2_value", "src3_value">>)
    \o Carried(X)
    \o W(1, <<"is_call", "is_return", "is_branch_class", "is_jal", "is_jalr">>) \o W(3, <<"branch_op">>)
lq_alloc_req_t == W(1, <<"valid">>) \o W(5, <<"rob_tag">>) \o W(1, <<"is_fp">>) \o W(2, <<"size">>)
                  \o W(1, <<"sign_ext", "is_lr", "is_amo">>) \o W(32, <<"amo_op">>)
lq_addr_update_t(X) == W(1, <<"valid">>) \o W(5, <<"rob_tag">>) \o W(X, <<"address">>) \o W(1, <<"is_mmio">>)
                       \o W(X, <<"amo_rs2">>)
sq_alloc_req_t(X) == W(1, <<"valid">>) \o W(5, <<"rob_tag">>) \o W(1, <<"is_fp">>) \o W(2, <<"size">>)
                     \o W(1, <<"is_sc", "addr_valid">>) \o W(X, <<"address">>) \o W(1, <<"is_mmio">>)
sq_addr_update_t(X) == W(1, <<"valid">>) \o W(5, <<"rob_tag">>) \o W(X, <<"address">>) \o W(1, <<"is_mmio">>)
sq_data_update_t == W(1, <<"valid">>) \o W(5, <<"rob_tag">>) \o W(FLEN, <<"data">>)
sq_forward_result_t == W(1, <<"match", "can_forward">>) \o W(FLEN, <<"data">>)

-----------------------------------------------------------------------------
(* The tables and routines of the benches *)

\* The steps of every routine for a functional unit's result.
ResultLsb == W(5, <<"fp_flags", "exc_cause">>) \o W(1, <<"exception">>) \o W(FLEN, <<"value">>)
             \o W(5, <<"tag">>) \o W(1, <<"valid">>)

FROM_ID_TO_EX_FIELDS(X) ==
    W(X, <<"program_counter">>)
    \o W(32, <<"immediate_i_type", "immediate_s_type", "immediate_b_type", "immediate_u_type", "immediate_j_type">>)
    \o W(X, <<"source_reg_1_data", "source_reg_2_data">>)
    \o W(1, <<"source_reg_1_is_x0", "source_reg_2_is_x0", "is_load_instruction", "is_load_byte", "is_load_halfword",
              "is_load_unsigned">>)
    \o W(32, <<"instruction_operation">>) \o W(3, <<"branch_operation", "store_operation", "rs_type">>)
    \o W(1, <<"is_int_store", "is_branch_or_jump", "is_fence", "is_fence_i", "is_csr_imm", "has_fp_flags",
              "is_jump_and_link", "is_jump_and_link_register", "is_multiply", "is_divide", "is_csr_instruction">>)
    \o W(12, <<"csr_address">>) \o W(5, <<"csr_imm">>)
    \o W(1, <<"is_amo_instruction", "is_lr", "is_sc", "is_mret", "is_wfi", "is_ecall", "is_ebreak",
              "is_illegal_instruction", "is_fp_instruction", "is_fp_load", "is_fp_store", "is_fp_load_double",
              "is_fp_store_double", "is_fp_compute", "is_pipelined_fp_op">>)
    \o W(3, <<"fp_rm">>) \o W(1, <<"is_fp_to_int", "is_int_to_fp">>)
    \o W(FLEN, <<"fp_source_reg_1_data", "fp_source_reg_2_data", "fp_source_reg_3_data">>)
    \o W(X, <<"link_address">>) \o W(1, <<"is_compressed">>)
    \o W(X, <<"branch_target_precomputed", "jal_target_precomputed">>) \o W(32, <<"instruction">>)
    \o W(1, <<"btb_hit", "btb_predicted_taken">>) \o W(X, <<"btb_predicted_target">>)
    \o W(1, <<"ras_predicted">>) \o W(X, <<"ras_predicted_target">>)
    \o W(3, <<"ras_checkpoint_tos">>) \o W(4, <<"ras_checkpoint_valid_count">>) \o W(10, <<"bp_dir_idx">>)
    \o W(1, <<"is_ras_return", "is_ras_call", "ras_predicted_target_nonzero">>) \o W(X, <<"ras_expected_rs1">>)
    \o W(1, <<"btb_correct_non_jalr">>) \o W(X, <<"btb_expected_rs1">>)
    \o W(1, <<"has_int_dest", "has_fp_dest", "uses_int_rs1", "uses_int_rs2", "uses_fp_rs1", "uses_fp_rs2",
              "uses_fp_rs3", "is_not_nop">>)
pack_instr_t == W(7, <<"opcode">>) \o W(5, <<"dest_reg">>) \o W(3, <<"funct3">>)
                \o W(5, <<"source_reg_1", "source_reg_2">>) \o W(7, <<"funct7">>)
ROB_ALLOC_REQ_FIELDS(X) ==
    W(1, <<"alloc_valid">>) \o W(X, <<"pc">>) \o W(3, <<"rs_type">>) \o W(1, <<"dest_rf">>) \o W(5, <<"dest_reg">>)
    \o W(1, <<"dest_valid", "is_store", "is_fp_store", "is_branch", "predicted_taken">>)
    \o W(X, <<"predicted_target", "branch_target">>) \o W(1, <<"is_call", "is_return">>) \o W(X, <<"link_addr">>)
    \o W(1, <<"is_jal", "is_jalr", "is_csr", "is_fence", "is_fence_i", "is_wfi", "is_mret", "is_amo", "is_lr",
              "is_sc", "is_compressed">>)
    \o W(12, <<"csr_addr">>) \o W(3, <<"csr_op">>) \o W(X, <<"csr_write_data">>) \o W(1, <<"has_fp_flags">>)
pack_rob_alloc_resp == W(1, <<"full">>) \o W(5, <<"alloc_tag">>) \o W(1, <<"alloc_ready">>)
pack_rat_lookup == W(FLEN, <<"value">>) \o W(5, <<"tag">>) \o W(1, <<"renamed">>)
RS_DISPATCH_FIELDS(X) ==
    W(1, <<"valid">>) \o W(3, <<"rs_type">>) \o W(5, <<"rob_tag">>) \o W(32, <<"op">>)
    \o W(1, <<"src1_ready">>) \o W(5, <<"src1_tag">>) \o W(FLEN, <<"src1_value">>)
    \o W(1, <<"src2_ready">>) \o W(5, <<"src2_tag">>) \o W(FLEN, <<"src2_value">>)
    \o W(1, <<"src3_ready">>) \o W(5, <<"src3_tag">>) \o W(FLEN, <<"src3_value">>)
    \o Carried(X) \o W(1, <<"is_call", "is_return">>)

\* reorder_buffer_interface.py keeps 32-bit addresses whatever XLEN is.
pack_alloc_request ==
    W(1, <<"has_fp_flags">>) \o W(32, <<"csr_write_data">>) \o W(3, <<"csr_op">>) \o W(12, <<"csr_addr">>)
    \o W(1, <<"is_compressed", "is_sc", "is_lr", "is_amo", "is_mret", "is_wfi", "is_fence_i", "is_fence", "is_csr",
              "is_jalr", "is_jal">>)
    \o W(32, <<"link_addr">>) \o W(1, <<"is_return", "is_call">>) \o W(32, <<"branch_target", "predicted_target">>)
    \o W(1, <<"predicted_taken", "is_branch", "is_fp_store", "is_store", "dest_valid">>)
    \o W(5, <<"dest_reg">>) \o W(1, <<"dest_rf">>) \o W(3, <<"rs_type">>) \o W(32, <<"pc">>) \o W(1, <<"alloc_valid">>)
unpack_alloc_response == W(1, <<"full">>) \o W(5, <<"alloc_tag">>) \o W(1, <<"alloc_ready">>)
pack_cdb_write == ResultLsb
pack_branch_update == W(1, <<"mispredicted">>) \o W(32, <<"target">>) \o W(1, <<"taken">>) \o W(5, <<"tag">>)
                      \o W(1, <<"valid">>)
COMMIT_FIELDS ==
    W(1, <<"valid">>) \o W(5, <<"tag">>) \o W(1, <<"dest_rf">>) \o W(5, <<"dest_reg">>) \o W(1, <<"dest_valid">>)
    \o W(64, <<"value">>) \o W(1, <<"is_store", "is_fp_store", "exception">>) \o W(32, <<"pc">>)
    \o W(5, <<"exc_cause", "fp_flags">>)
    \o W(1, <<"has_fp_flags", "misprediction", "early_recovered", "has_checkpoint">>) \o W(3, <<"checkpoint_id">>)
    \o W(32, <<"redirect_pc">>) \o W(1, <<"predicted_taken", "branch_taken">>) \o W(32, <<"branch_target">>)
    \o W(1, <<"is_branch", "is_call", "is_return", "is_jal", "is_jalr">>)
    \o W(12, <<"csr_addr">>) \o W(3, <<"csr_op">>) \o W(32, <<"csr_write_data">>)
    \o W(1, <<"is_csr", "is_fence", "is_fence_i", "is_wfi", "is_mret", "is_amo", "is_lr", "is_sc", "is_compressed">>)
unpack_rat_lookup == W(64, <<"value">>) \o W(5, <<"tag">>) \o W(1, <<"renamed">>)

\* The steps that three routines of rs_interface.py and
\* fp_add_shim_interface.py have in common.
CarriedLsb(X) ==
    W(3, <<"checkpoint_id">>) \o W(1, <<"has_checkpoint">>)
    \o W(X, <<"link_addr", "pc">>) \o W(5, <<"csr_imm">>) \o W(12, <<"csr_addr">>)
    \o W(1, <<"mem_signed">>) \o W(2, <<"mem_size">>) \o W(1, <<"mem_needs_sq", "mem_needs_lq", "is_fp_mem">>)
    \o W(X, <<"predicted_target">>) \o W(1, <<"predicted_taken">>) \o W(X, <<"branch_target">>)
    \o W(3, <<"rm">>) \o W(1, <<"use_imm">>) \o W(X, <<"imm">>)

\* rs_interface.py
pack_rs_dispatch(X) ==
    W(1, <<"is_return", "is_call">>) \o CarriedLsb(X)
    \o W(FLEN, <<"src3_value">>) \o W(5, <<"src3_tag">>) \o W(1, <<"src3_ready">>)
    \o W(FLEN, <<"src2_value">>) \o W(5, <<"src2_tag">>) \o W(1, <<"src2_ready">>)
    \o W(FLEN, <<"src1_value">>) \o W(5, <<"src1_tag">>) \o W(1, <<"src1_ready">>)
    \o W(32, <<"op">>) \o W(5, <<"rob_tag">>) \o W(3, <<"rs_type">>) \o W(1, <<"valid">>)
pack_cdb_broadcast == W(3, <<"fu_type">>) \o ResultLsb
\* mutant: the pre-decoded branch class at the end of the struct is not skipped
IssueWithoutBranchClass(X) ==
    W(1, <<"is_return", "is_call">>) \o CarriedLsb(X)
    \o W(FLEN, <<"src3_value", "src2_value", "src1_value">>)
    \o W(32, <<"op">>) \o W(5, <<"rob_tag">>) \o W(1, <<"valid">>)
unpack_rs_issue(X) ==
    W(3, <<"branch_op">>) \o W(1, <<"is_jalr", "is_jal", "is_branch_class", "is_return", "is_call">>)
    \o CarriedLsb(X)
    \o W(FLEN, <<"src3_value", "src2_value", "src1_value">>)
    \o W(32, <<"op">>) \o W(5, <<"rob_tag">>) \o W(1, <<"valid">>)

\* fp_add_shim_interface.py, whose routines every shim bench uses
pack_rs_issue(X) ==
    W(3, <<"branch_op">>) \o W(1, <<"is_jalr", "is_jal", "is_branch_class", "is_return", "is_call">>)
    \o CarriedLsb(X)
    \o W(FLEN, <<"src3_value", "src2_value", "src1_value">>)
    \o W(32, <<"op">>) \o W(5, <<"rob_tag">>) \o W(1, <<"valid">>)
shim_unpack_fu_complete == ResultLsb

\* lq_interface.py and sq_interface.py
pack_lq_alloc == W(32, <<"amo_op">>) \o W(1, <<"is_amo", "is_lr", "sign_ext">>) \o W(2, <<"size">>)
                 \o W(1, <<"is_fp">>) \o W(5, <<"rob_tag">>) \o W(1, <<"valid">>)
pack_lq_addr_update(X) == W(X, <<"amo_rs2">>) \o W(1, <<"is_mmio">>) \o W(X, <<"address">>) \o W(5, <<"rob_tag">>)
                          \o W(1, <<"valid">>)
pack_sq_forward == W(FLEN, <<"data">>) \o W(1, <<"can_forward", "match">>)
lq_unpack_fu_complete == ResultLsb
pack_sq_alloc(X) == W(1, <<"is_mmio">>) \o W(X, <<"address">>) \o W(1, <<"addr_valid", "is_sc">>) \o W(2, <<"size">>)
                    \o W(1, <<"is_fp">>) \o W(5, <<"rob_tag">>) \o W(1, <<"valid">>)
pack_sq_addr_update(X) == W(1, <<"is_mmio">>) \o W(X, <<"address">>) \o W(5, <<"rob_tag">>) \o W(1, <<"valid">>)
pack_sq_data_update == W(FLEN, <<"data">>) \o W(5, <<"rob_tag">>) \o W(1, <<"valid">>)
unpack_sq_forward == W(FLEN, <<"data">>) \o W(1, <<"can_forward", "match">>)

\* cdb_arbiter_interface.py and fu_cdb_adapter_interface.py
cdb_pack_fu_complete == ResultLsb
unpack_cdb_broadcast == W(3, <<"fu_type">>) \o ResultLsb
adapter_pack_fu_complete == ResultLsb
adapter_unpack_fu_complete == ResultLsb

-----------------------------------------------------------------------------
(* The numbers of the operations: listed one by one in the benches, the     *)
(* positions of an enumeration in the RTL                                   *)

\* Consecutive numbers from a first one.
From(first, names) == { <<names[i], first + i - 1>> : i \in DOMAIN names }

dispatch_ops ==
    From(0, <<"add", "sub", "and", "or", "xor", "sll", "srl", "sra", "slt", "sltu", "addi", "andi", "ori", "xori",
              "slti", "sltiu", "slli", "srli", "srai">>)
    \cup From(19, <<"lui", "auipc", "jal", "jalr">>) \cup From(23, <<"beq", "bne", "blt", "bge", "bltu", "bgeu">>)
    \cup From(29, <<"lb", "lh", "lw", "lbu", "lhu", "sb", "sh", "sw">>)
    \cup From(37, <<"mul", "mulh", "mulhsu", "mulhu", "div", "divu", "rem", "remu">>)
    \cup From(45, <<"fence", "fence_i">>) \cup From(47, <<"csrrw", "csrrs", "csrrc", "csrrwi", "csrrsi", "csrrci">>)
    \cup From(53, <<"sh1add", "sh2add", "sh3add">>)
    \cup From(56, <<"bset", "bclr", "binv", "bext", "bseti", "bclri", "binvi", "bexti">>)
    \cup From(64, <<"andn", "orn", "xnor", "clz", "ctz", "cpop", "max", "maxu", "min", "minu", "sext_b", "sext_h",
                    "rol", "ror", "rori", "orc_b", "rev8">>)
    \cup From(81, <<"czero_eqz", "czero_nez">>) \cup From(83, <<"pack", "packh", "brev8", "zip", "unzip">>)
    \cup From(88, <<"pause">>) \cup From(89, <<"mret", "wfi", "ecall", "ebreak">>)
    \cup From(93, <<"lr_w", "sc_w", "amoswap_w", "amoadd_w", "amoxor_w", "amoand_w", "amoor_w", "amomin_w",
                    "amomax_w", "amominu_w", "amomaxu_w">>)
    \cup From(104, <<"flw", "fsw", "fadd_s", "fsub_s", "fmul_s", "fdiv_s", "fsqrt_s", "fmadd_s", "fmsub_s",
                     "fnmadd_s", "fnmsub_s", "fsgnj_s", "fsgnjn_s", "fsgnjx_s", "fmin_s", "fmax_s", "fcvt_w_s",
                     "fcvt_wu_s", "fcvt_s_w", "fcvt_s_wu", "fmv_x_w", "fmv_w_x", "feq_s", "flt_s", "fle_s",
                     "fclass_s">>)
    \cup From(130, <<"fld", "fsd", "fadd_d", "fsub_d", "fmul_d", "fdiv_d", "fsqrt_d", "fmadd_d", "fmsub_d",
                     "fnmadd_d", "fnmsub_d", "fsgnj_d", "fsgnjn_d", "fsgnjx_d", "fmin_d", "fmax_d", "fcvt_w_d",
                     "fcvt_wu_d", "fcvt_d_w", "fcvt_d_wu", "fcvt_s_d", "fcvt_d_s", "feq_d", "flt_d", "fle_d",
                     "fclass_d">>)
lq_ops == From(93, <<"lr_w", "sc_w", "amoswap_w", "amoadd_w", "amoxor_w", "amoand_w", "amoor_w", "amomin_w",
                     "amomax_w", "amominu_w", "amomaxu_w">>)

\* Also what the benches that read the enumeration from the RTL's text get
\* (_parse_instr_op_enum).
instr_op_e ==
    From(0, <<"add", "sub", "and", "or", "xor", "sll", "srl", "sra", "slt", "sltu", "addi", "andi", "ori", "xori",
      "slti", "sltiu", "slli", "srli", "srai", "lui", "auipc", "jal", "jalr", "beq", "bne", "blt", "bge", "bltu",
      "bgeu", "lb", "lh", "lw", "lbu", "lhu", "sb", "sh", "sw", "mul", "mulh", "mulhsu", "mulhu", "div", "divu",
      "rem", "remu", "fence", "fence_i", "csrrw", "csrrs", "csrrc", "csrrwi", "csrrsi", "csrrci", "sh1add",
      "sh2add", "sh3add", "bset", "bclr", "binv", "bext", "bseti", "bclri", "binvi", "bexti", "andn", "orn",
      "xnor", "clz", "ctz", "cpop", "max", "maxu", "min", "minu", "sext_b", "sext_h", "rol", "ror", "rori",
      "orc_b", "rev8", "czero_eqz", "czero_nez", "pack", "packh", "brev8", "zip", "unzip", "pause", "mret", "wfi",
      "ecall", "ebreak", "lr_w", "sc_w", "amoswap_w", "amoadd_w", "amoxor_w", "amoand_w", "amoor_w", "amomin_w",
      "amomax_w", "amominu_w", "amomaxu_w", "flw", "fsw", "fadd_s", "fsub_s", "fmul_s", "fdiv_s", "fsqrt_s",
      "fmadd_s", "fmsub_s", "fnmadd_s", "fnmsub_s", "fsgnj_s", "fsgnjn_s", "fsgnjx_s", "fmin_s", "fmax_s",
      "fcvt_w_s", "fcvt_wu_s", "fcvt_s_w", "fcvt_s_wu", "fmv_x_w", "fmv_w_x", "feq_s", "flt_s", "fle_s",
      "fclass_s", "fld", "fsd", "fadd_d", "fsub_d", "fmul_d", "fdiv_d", "fsqrt_d", "fmadd_d", "fmsub_d",
      "fnmadd_d", "fnmsub_d", "fsgnj_d", "fsgnjn_d", "fsgnjx_d", "fmin_d", "fmax_d", "fcvt_w_d", "fcvt_wu_d",
      "fcvt_d_w", "fcvt_d_wu", "fcvt_s_d", "fcvt_d_s", "feq_d", "flt_d", "fle_d", "fclass_d", "lwu", "ld", "sd",
      "addiw", "slliw", "srliw", "sraiw", "addw", "subw", "sllw", "srlw", "sraw", "illegal">>)

-----------------------------------------------------------------------------
\* Every routine: its layout and the struct's, as <<field, offset, width>>.
Routines(X) ==
    [build_from_id_to_ex |-> <<MsbFirst(FROM_ID_TO_EX_FIELDS(X)), MsbFirst(from_id_to_ex_t(X))>>,
     pack_instr_t |-> <<LsbFirst(pack_instr_t), MsbFirst(instr_t)>>,
     unpack_rob_alloc_req |-> <<MsbFirst(ROB_ALLOC_REQ_FIELDS(X)), MsbFirst(reorder_buffer_alloc_req_t(X))>>,
     pack_rob_alloc_resp |-> <<LsbFirst(pack_rob_alloc_resp), MsbFirst(reorder_buffer_alloc_resp_t)>>,
     pack_rat_lookup |-> <<LsbFirst(pack_rat_lookup), MsbFirst(rat_lookup_t)>>,
     unpack_rs_dispatch |-> <<MsbFirst(RS_DISPATCH_FIELDS(X)), MsbFirst(rs_dispatch_t(X))>>,
     pack_alloc_request |-> <<LsbFirst(pack_alloc_request), MsbFirst(reorder_buffer_alloc_req_t(X))>>,
     unpack_alloc_response |-> <<LsbFirst(unpack_alloc_response), MsbFirst(reorder_buffer_alloc_resp_t)>>,
     pack_cdb_write |-> <<LsbFirst(pack_cdb_write), MsbFirst(reorder_buffer_cdb_write_t)>>,
     pack_branch_update |-> <<LsbFirst(pack_branch_update), MsbFirst(reorder_buffer_branch_update_t(X))>>,
     unpack_commit |-> <<MsbFirst(COMMIT_FIELDS), MsbFirst(reorder_buffer_commit_t(X))>>,
     unpack_rat_lookup |-> <<LsbFirst(unpack_rat_lookup), MsbFirst(rat_lookup_t)>>,
     pack_rs_dispatch |-> <<LsbFirst(pack_rs_dispatch(X)), MsbFirst(rs_dispatch_t(X))>>,
     pack_cdb_broadcast |-> <<LsbFirst(pack_cdb_broadcast), MsbFirst(cdb_broadcast_t)>>,
     unpack_rs_issue |-> <<LsbFirst(unpack_rs_issue(X)), MsbFirst(rs_issue_t(X))>>,
     pack_rs_issue |-> <<LsbFirst(pack_rs_issue(X)), MsbFirst(rs_issue_t(X))>>,
     shim_unpack_fu_complete |-> <<LsbFirst(shim_unpack_fu_complete), MsbFirst(fu_complete_t)>>,
     pack_lq_alloc |-> <<LsbFirst(pack_lq_alloc), MsbFirst(lq_alloc_req_t)>>,
     pack_lq_addr_update |-> <<LsbFirst(pack_lq_addr_update(X)), MsbFirst(lq_addr_update_t(X))>>,
     pack_sq_forward |-> <<LsbFirst(pack_sq_forward), MsbFirst(sq_forward_result_t)>>,
     lq_unpack_fu_complete |-> <<LsbFirst(lq_unpack_fu_complete), MsbFirst(fu_complete_t)>>,
     pack_sq_alloc |-> <<LsbFirst(pack_sq_alloc(X)), MsbFirst(sq_alloc_req_t(X))>>,
     pack_sq_addr_update |-> <<LsbFirst(pack_sq_addr_update(X)), MsbFirst(sq_addr_update_t(X))>>,
     pack_sq_data_update |-> <<LsbFirst(pack_sq_data_update), MsbFirst(sq_data_update_t)>>,
     unpack_sq_forward |-> <<LsbFirst(unpack_sq_forward), MsbFirst(sq_forward_result_t)>>,
     cdb_pack_fu_complete |-> <<LsbFirst(cdb_pack_fu_complete), MsbFirst(fu_complete_t)>>,
     unpack_cdb_broadcast |-> <<LsbFirst(unpack_cdb_broadcast), MsbFirst(cdb_broadcast_t)>>,
     adapter_pack_fu_complete |-> <<LsbFirst(adapter_pack_fu_complete), MsbFirst(fu_complete_t)>>,
     adapter_unpack_fu_complete |-> <<LsbFirst(adapter_unpack_fu_complete), MsbFirst(fu_complete_t)>>]

\* The routines that keep 32 bits for an address of XLEN bits.
Rv32Routines == {"build_from_id_to_ex", "pack_alloc_request", "pack_branch_update", "unpack_commit"}
=============================================================================
