---------------------------- MODULE MCVerifBench ----------------------------
EXTENDS VerifBench

I(op, rd, rs1, rs2, imm) == [op |-> op, rd |-> rd, rs1 |-> rs1, rs2 |-> rs2, rs3 |-> 7, imm |-> imm]

MCImms(op) ==
    CASE op \in Names(I_ALU) \cup Names(LOADS) \cup Names(STORES) \cup Names(FP_LOADS) \cup Names(FP_STORES) \cup {"jalr"} ->
            {-2048, -1, 0, 1365, 2047}
      [] op \in Names(I_SHIFT) -> {0, 1, 21, 31}
      [] op \in Names(BRANCHES) -> {-4098, -4096, -2, 0, 1, 2730, 4094, 4096}
      [] op = "jal" -> {-(2^20) - 2, -(2^20), -2, 3, 2048, 699050, 2^20 - 2, 2^20}
      [] op = "lui" -> {0, 1, 524288, 699050, 2^20 - 1}
      [] op \in Names(CSRS) -> {1, 768, 3072, 4095}
      [] op \in Names(AMO) \cup Names(AMO_LR_SC) -> 0 .. 3
      [] op \in {"c_lw", "c_sw", "c_flw", "c_fsw", "c_lwsp", "c_swsp", "c_flwsp", "c_fswsp"} ->
            {0, 4, 8, 44, 64, 84, 124, 128, 168, 252, 256}
      [] op \in {"c_addi", "c_li", "c_lui", "c_andi"} -> {-33, -32, -1, 0, 1, 21, 31, 32}
      [] op \in {"c_j", "c_jal"} -> {-2050, -2048, -2, 1, 2, 4, 8, 16, 32, 64, 128, 256, 512, 1024, 2046, 2048}
      [] op \in {"c_beqz", "c_bnez"} -> {-258, -256, -2, 2, 3, 4, 8, 16, 32, 64, 128, 254, 256}
      [] op = "c_addi16sp" -> {-528, -512, -16, 0, 16, 32, 64, 128, 256, 496, 512}
      [] op \in {"c_slli", "c_srli", "c_srai"} -> {0, 1, 21, 31, 32}
      [] OTHER -> {0}

MCSamples(op) ==
    { [op |-> op, rd |-> r[1], rs1 |-> r[2], rs2 |-> r[3], rs3 |-> r[4], imm |-> imm] :
      r \in {<<0, 8, 15, 0>>, <<1, 2, 4, 1>>, <<8, 16, 31, 7>>, <<10, 9, 12, 4>>, <<2, 0, 1, 3>>, <<31, 31, 0, 2>>},
      imm \in MCImms(op) }

\* Programs that reach every bundle shape: sizes and positions of both
\* slots, classes that may not pair, and a buffered slot 1.
MCPrograms ==
    {<<I("c_addi", 8, 8, 0, 5), I("c_li", 10, 0, 0, -3), I("add", 5, 6, 7, 0), I("sw", 0, 2, 9, -4)>>,
     <<I("c_lw", 9, 8, 0, 64), I("add", 3, 4, 5, 0), I("c_sub", 9, 9, 10, 0), I("c_addi16sp", 2, 2, 0, -64)>>,
     <<I("c_mv", 4, 0, 5, 0), I("fadd_s", 1, 2, 3, 0), I("c_add", 6, 6, 7, 0), I("flw", 1, 2, 0, 8)>>,
     <<I("beq", 0, 1, 2, 8), I("addi", 1, 1, 0, -1), I("csrrw", 3, 4, 0, 768), I("c_lwsp", 6, 0, 0, 20)>>,
     <<I("c_jr", 0, 1, 0, 0), I("jalr", 1, 5, 0, 4), I("c_bnez", 0, 9, 0, -6), I("amoadd_w", 1, 2, 3, 0)>>,
     <<I("c_slli", 6, 6, 0, 3), I("csrrs", 1, 0, 0, 769), I("c_j", 0, 0, 0, 34), I("lui", 2, 0, 0, 74565)>>,
     <<I("c_nop", 0, 0, 0, 0), I("lw", 7, 2, 0, 12), I("c_swsp", 0, 0, 7, 44), I("fmadd_s", 1, 2, 3, 0)>>,
     <<I("sub", 31, 22, 12, 0), I("c_lui", 2 + 4, 0, 0, -7), I("sh", 0, 22, 12, 30), I("fsw", 0, 2, 31, 2)>>,
     <<I("c_andi", 9, 9, 0, 22), I("fence", 0, 0, 0, 0), I("c_jal", 0, 0, 0, -22), I("ecall", 0, 0, 0, 0)>>}

\* Zero, small and shift-sized values, and both sides of every sign and
\* carry boundary.
MCOperands == {0, 1, 2, 3, 7, 8, 9, 15, 16, 85, 126, 127, 128, 129, 170, 240, 253, 254, 255}

\* One operation for the CPU bench, with the draws it is generated from.
O(op, rd, rs1, rs2, imms) == [op |-> op, draws |-> [rd |-> {rd}, rs1 |-> {rs1}, rs2 |-> {rs2}, imm |-> imms]]

D(op, rd, rs1, rs2, imm) == [op |-> op, rd |-> rd, rs1 |-> rs1, rs2 |-> rs2, imm |-> imm]

MCMemory == [a \in MemoryBytes |-> (3 * a + 1) % 4]
MCRegs == { [r \in Registers |-> <<0, x1, x2>>[r + 1]] : x1 \in {4, 12, 236}, x2 \in {3, 12} }

\* Every operation followed by one that shows what it left; sequences that
\* jump within the shadow of a jump, reserve and store, carry a value
\* through memory and the FP registers, and end within a flush.
MCShort ==
    { <<O(op, 2, 1, 2, {-4, 4, 5}), O("sw", 1, 0, 2, {8})>> :
      op \in (get_all_operations \ Names(CSRS)) \cup Names(AMO_LR_SC) }
    \cup { <<O(op, 1, 0, 0, {0}), O("add", 2, 1, 1, {0})>> : op \in Names(CSRS) }
MCLong ==
    {<<O("jal", 1, 0, 0, {-4, 1}), O("jalr", 1, 1, 0, {-3, 8}), O("beq", 1, 1, 1, {-5, 2})>>,
     <<O("bltu", 1, 1, 2, {3}), O("bge", 1, 1, 2, {-2}), O("jal", 2, 0, 0, {0})>>,
     <<O("lr_w", 1, 0, 0, {0}), O("sc_w", 2, 0, 2, {0}), O("sc_w", 1, 0, 2, {0}), O("lw", 2, 0, 0, {0, 4})>>,
     <<O("lr_w", 2, 1, 0, {0}), O("sb", 1, 0, 1, {5, 13}), O("amoadd_w", 1, 1, 2, {0}), O("sc_w", 2, 1, 1, {0})>>,
     <<O("fmv_w_x", 1, 1, 0, {0}), O("fsd", 0, 0, 1, {8}), O("flw", 0, 0, 0, {4, 8}), O("fmv_x_w", 2, 0, 0, {0})>>,
     <<O("fld", 1, 0, 0, {0, 8}), O("fsw", 0, 0, 1, {4, 12}), O("lhu", 1, 0, 0, {6, 14}), O("sh", 1, 0, 1, {2, 10})>>,
     <<O("jalr", 2, 1, 0, {-4, 4, 8}), O("add", 1, 1, 2, {0}), O("csrrs", 2, 0, 0, {0})>>,
     <<D("sh", 0, 0, 1, 6), D("lb", 2, 0, 0, 7), D("addi", 0, 0, 0, 0), D("sub", 1, 2, 1, 0)>>,
     <<D("lw", 1, 0, 0, 8), O("beq", 1, 0, 0, {2}), D("sw", 0, 0, 1, 12)>>,
     <<O("jalr", 2, 2, 0, {0, 4}), O("csrrs", 1, 0, 0, {0}), O("csrrw", 2, 0, 0, {0})>>}

\* Addends of both signs: zeros, subnormals, the smallest and the largest
\* normals, one and its neighbour, infinity and a NaN.
MCAddends(f) ==
    { WithSign(f, sign, k) : sign \in {0, 1},
      k \in {0, 1, 2^f.mant - 1, 2^f.mant, One(f) + 1, POS_INF(f) - 1, POS_INF(f)} } \cup {CANONICAL_NAN(f)}
MCFp ==
    { [unit |-> "fp", format |-> FP, op |-> op, seconds |-> FpWords(FP), addends |-> MCAddends(FP)] :
      op \in {"fadd_s", "fsub_s", "fmul_s", "fdiv_s", "fsqrt_s", "fmadd_s", "fmsub_s", "fnmadd_s", "fnmsub_s"} }
    \cup { [unit |-> "fp", format |-> DP, op |-> op,
            seconds |-> { b \in FpWords(DP) : b % 3 = 0 } \cup {1, 8, 55, 56, 60, 64, 119, 121}, addends |-> MCAddends(DP)] :
            op \in {"fadd_d", "fsub_d", "fmul_d", "fdiv_d", "fsqrt_d", "fmadd_d", "fmsub_d", "fnmadd_d", "fnmsub_d"} }
    \cup { [unit |-> "fp", format |-> f, op |-> "order", seconds |-> FpWords(f)] : f \in {FP, DP} }
    \cup { [unit |-> "fp", format |-> f, op |-> "convert", widths |-> {3, 4}] : f \in {FP, DP} }

MCWorkloads ==
    { [unit |-> "codec", op |-> op] : op \in AllOps \cup C_OPS }
    \cup { [unit |-> "layout", name |-> n, xlen |-> x] : n \in DOMAIN Routines(32), x \in {32, 64} }
    \cup { [unit |-> "alu", op |-> op] : op \in Computing }
    \cup MCFp
    \cup { [unit |-> "parcel", high |-> h] : h \in 0 .. 255 }
    \cup { [unit |-> "imem", boot |-> p, load |-> <<>>] : p \in MCPrograms }
    \cup { [unit |-> "imem", boot |-> p, load |-> q] :
           p \in { p \in MCPrograms : p[1].op = "c_mv" }, q \in MCPrograms }
    \cup { [unit |-> "generator", op |-> op, others |-> {6, 56, 130}] : op \in _RANDOM_MEMORY_OPS \cup JUMPS \cup {"beq", "addi"} }
    \cup { [unit |-> "cpu", regs |-> r, memory |-> MCMemory, ops |-> q] : r \in MCRegs, q \in MCShort \cup MCLong }
=============================================================================
