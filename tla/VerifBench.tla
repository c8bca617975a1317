----------------------------- MODULE VerifBench -----------------------------
(***************************************************************************)
(* The units of the verification environment, each against what it must    *)
(* agree with: the encoders against the decoders, the predecode of         *)
(* compressed parcels, programs fetched from the predecoded memory, the    *)
(* reference arithmetic against the datapath, the generator against the    *)
(* rules of the bench, and the CPU bench against a core.                   *)
(***************************************************************************)
EXTENDS ImemFetch, CpuBench, DispatchDecode, BenchLayouts, FpModel

CONSTANTS Workloads,      \* what one behaviour exercises
          Samples(_),     \* the operand samples of an operation
          Operands        \* the second operands the arithmetic is tried with

VARIABLES workload, item

vars == <<workload, item, imem_vars, cpu_vars>>

ImemIdle ==
    /\ program = <<>> /\ unwritten = <<>> /\ pc = 0
    /\ banks = None /\ port_a_q = None /\ port_b = None /\ instr_buffer = None

CpuIdle ==
    /\ state = None /\ ram = None /\ expected = None /\ core = None
    /\ todo = <<>> /\ phase = <<"idle", 0>> /\ alarm = None

Init ==
    /\ workload \in Workloads
    /\ item = CASE workload.unit = "parcel" -> 256 * workload.high
                [] workload.unit \in {"alu", "generator", "fp"} -> 0
                [] OTHER -> None
    /\ IF workload.unit = "imem" THEN ImemInit(workload.boot, workload.load) ELSE ImemIdle
    /\ IF workload.unit = "cpu" THEN CpuInit(workload.regs, workload.memory, workload.ops) ELSE CpuIdle

\* The encoder of the workload's operation is applied to one sample.
Encode ==
    /\ workload.unit = "codec" /\ item = None
    /\ item' \in Samples(workload.op)
    /\ UNCHANGED <<workload, imem_vars, cpu_vars>>

\* The next parcel with the workload's high byte.
NextParcel ==
    /\ workload.unit = "parcel" /\ item % 256 < 255
    /\ item' = item + 1
    /\ UNCHANGED <<workload, imem_vars, cpu_vars>>

\* The next first operand of the workload's operation, or the next value of
\* the generator's base register.
NextOperand ==
    /\ \/ workload.unit \in {"alu", "generator"} /\ item < 2^XLEN - 1
       \/ workload.unit = "fp" /\ item < 2 * SIGN_MASK(workload.format) - 1
    /\ item' = item + 1
    /\ UNCHANGED <<workload, imem_vars, cpu_vars>>

Next ==
    \/ Encode
    \/ NextParcel
    \/ NextOperand
    \/ workload.unit = "imem" /\ ImemNext /\ UNCHANGED <<workload, item, cpu_vars>>
    \/ workload.unit = "cpu" /\ CpuNext /\ UNCHANGED <<workload, item, imem_vars>>

Spec == Init /\ [][Next]_vars

AllOps == UNION { Names(t) : t \in {R_ALU, I_ALU, I_SHIFT, I_UNARY, LOADS, STORES, BRANCHES, FENCES, CSRS, TRAP_INSTRS,
                                    AMO_LR_SC, AMO, FP_LOADS, FP_STORES, FP_ARITH_2OP, FP_FMA, FP_SGNJ, FP_MINMAX,
                                    FP_CMP, FP_CVT, FP_MV_CLASS} }
          \cup {"zext_h", "jal", "jalr", "lui"}

MulDiv == {"mul", "mulh", "mulhsu", "mulhu", "div", "divu", "rem", "remu"}
Unary == Names(I_UNARY) \cup {"zext_h"}
Computing == Names(R_ALU) \cup Names(I_ALU) \cup Names(I_SHIFT) \cup Unary \cup Names(AMO) \cup Names(BRANCHES)

-----------------------------------------------------------------------------
(* What the F and D extensions ask of the operations of FpModel, stated    *)
(* without computing a result: a rounded one is the number of the format   *)
(* nearest to the exact value, and of two such the even one.               *)

Magnitude(f, b) == b % SIGN_MASK(f)
AbsOf(n) == IF n < 0 THEN -n ELSE n
SignedUnits(f, b) == (1 - 2 * sign_of(f, b)) * Units(f, b)

\* Between -0 and +0, and among all numbers and infinities, as the words
\* are ordered.
Key(f, b) == IF sign_of(f, b) = 1 THEN -Magnitude(f, b) - 1 ELSE b

\* Magnitude k is nearest to n / d units; infinity is the number that would
\* follow the largest.
Nearest(f, n, d, k) ==
    /\ k \in 0 .. POS_INF(f)
    /\ \/ k = 0
       \/ 2 * n > d * (Units(f, k - 1) + Units(f, k))
       \/ 2 * n = d * (Units(f, k - 1) + Units(f, k)) /\ k % 2 = 0
    /\ \/ k = POS_INF(f)
       \/ 2 * n < d * (Units(f, k) + Units(f, k + 1))
       \/ 2 * n = d * (Units(f, k) + Units(f, k + 1)) /\ k % 2 = 0

Rounds(f, sign, n, d, r) == sign_of(f, r) = sign /\ Nearest(f, n, d, Magnitude(f, r))

\* r is a * b + c.
IsFma(f, a, b, c, r) ==
    LET product == XorSign(f, a, b)
        infinite == IsInf(f, a) \/ IsInf(f, b)
        sum == SignedUnits(f, a) * SignedUnits(f, b) + SignedUnits(f, c) * Unit(f)
    IN  IF \/ \E x \in {a, b, c} : IsNan(f, x)
           \/ InfTimesZero(f, a, b)
           \/ infinite /\ IsInf(f, c) /\ sign_of(f, c) # product
        THEN r = CANONICAL_NAN(f)
        ELSE IF infinite THEN r = WithSign(f, product, POS_INF(f))
        ELSE IF IsInf(f, c) THEN r = c
        ELSE IF sum = 0 THEN r = IF product = sign_of(f, c) THEN WithSign(f, product, 0) ELSE 0
        ELSE Rounds(f, IF sum < 0 THEN 1 ELSE 0, AbsOf(sum), Unit(f), r)

One(f) == Bias(f) * 2^f.mant
IsSum(f, a, b, r) == IsFma(f, a, One(f), b, r)
IsDifference(f, a, b, r) == IsFma(f, a, One(f), IF IsNan(f, b) THEN b ELSE Negate(f, b), r)
IsProduct(f, a, b, r) == IsFma(f, a, b, WithSign(f, XorSign(f, a, b), 0), r)

IsQuotient(f, a, b, r) ==
    LET sign == XorSign(f, a, b)
    IN  IF \/ IsNan(f, a) \/ IsNan(f, b)
           \/ IsInf(f, a) /\ IsInf(f, b)
           \/ IsZero(f, a) /\ IsZero(f, b)
        THEN r = CANONICAL_NAN(f)
        ELSE IF IsInf(f, a) \/ IsZero(f, b) THEN r = WithSign(f, sign, POS_INF(f))
        ELSE IF IsInf(f, b) THEN r = WithSign(f, sign, 0)
        ELSE Rounds(f, sign, Units(f, a) * Unit(f), Units(f, b), r)

IsRoot(f, a, r) ==
    IF IsNan(f, a) \/ (sign_of(f, a) = 1 /\ ~IsZero(f, a)) THEN r = CANONICAL_NAN(f)
    ELSE IF IsZero(f, a) \/ IsInf(f, a) THEN r = a
    ELSE LET square == 4 * Units(f, a) * Unit(f)
             Twice(k) == Units(f, k) + Units(f, k + 1)
         IN  r \in 1 .. POS_INF(f) - 1 /\ Twice(r - 1) * Twice(r - 1) < square /\ square < Twice(r) * Twice(r)

\* r is the one of a and b that comes first (sign 1) or last (sign -1).
IsExtreme(f, sign, a, b, r) ==
    IF IsNan(f, a) /\ IsNan(f, b) THEN r = CANONICAL_NAN(f)
    ELSE LET numbers == {x \in {a, b} : ~IsNan(f, x)}
         IN  r \in numbers /\ \A x \in numbers : sign * Key(f, r) <= sign * Key(f, x)

Holds(f, a, b, relation) == IF ~IsNan(f, a) /\ ~IsNan(f, b) /\ relation THEN 1 ELSE 0

\* r, of w bits, is the integer nearest to a, or the end of the range least .. most
\* on its side.
IsInteger(f, a, least, most, w, r) ==
    IF IsNan(f, a) THEN r = most
    ELSE \E i \in -(2^(w + 1)) .. 2^(w + 1) :
            LET off == 2 * AbsOf(SignedUnits(f, a) - i * Unit(f))
            IN  /\ off < Unit(f) \/ (off = Unit(f) /\ i % 2 = 0)
                /\ r = (IF i < least THEN least ELSE IF i > most THEN most ELSE i) % 2^w

\* r is the number nearest to the integer i.
IsFloat(f, i, r) == Rounds(f, IF i < 0 THEN 1 ELSE 0, AbsOf(i) * Unit(f), 1, r)

\* r is a, a number of format f, in format g.
IsConverted(f, g, a, r) ==
    IF IsNan(f, a) THEN r = CANONICAL_NAN(g) ELSE Rounds(g, sign_of(f, a), Units(f, a) * Unit(g), Unit(f), r)

\* r counts the classes below a's in the order of the numbers.
IsClass(f, a, r) ==
    IF IsNan(f, a) THEN r = 8 + ((Magnitude(f, a) \div 2^(f.mant - 1)) % 2)
    ELSE LET firsts == {WithSign(f, 1, POS_INF(f) - 1), WithSign(f, 1, 2^f.mant - 1), SIGN_MASK(f),
                        0, 1, 2^f.mant, POS_INF(f)}
         IN  r = Cardinality({b \in firsts : Key(f, b) <= Key(f, a)})

\* Each arithmetic operation gives what it must, for a first operand a and
\* the second operands and addends given.
FpOps == {"fadd_s", "fsub_s", "fmul_s", "fdiv_s", "fsqrt_s", "fmadd_s", "fmsub_s", "fnmadd_s", "fnmsub_s",
          "fadd_d", "fsub_d", "fmul_d", "fdiv_d", "fsqrt_d", "fmadd_d", "fmsub_d", "fnmadd_d", "fnmsub_d"}
IsRounded(op, a, seconds, addends) ==
    CASE op = "fsqrt_s" -> IsRoot(FP, a, fsqrt_s(a))
      [] op = "fsqrt_d" -> IsRoot(DP, a, fsqrt_d(a))
      [] OTHER -> \A b \in seconds :
            CASE op = "fadd_s" -> IsSum(FP, a, b, fadd_s(a, b))
              [] op = "fsub_s" -> IsDifference(FP, a, b, fsub_s(a, b))
              [] op = "fmul_s" -> IsProduct(FP, a, b, fmul_s(a, b))
              [] op = "fdiv_s" -> IsQuotient(FP, a, b, fdiv_s(a, b))
              [] op = "fadd_d" -> IsSum(DP, a, b, fadd_d(a, b))
              [] op = "fsub_d" -> IsDifference(DP, a, b, fsub_d(a, b))
              [] op = "fmul_d" -> IsProduct(DP, a, b, fmul_d(a, b))
              [] op = "fdiv_d" -> IsQuotient(DP, a, b, fdiv_d(a, b))
              [] OTHER -> \A c \in addends :
                    CASE op = "fmadd_s" -> IsFma(FP, a, b, c, fmadd_s(a, b, c))
                      [] op = "fmsub_s" -> IsFma(FP, a, b, Negate(FP, c), fmsub_s(a, b, c))
                      [] op = "fnmadd_s" -> IsFma(FP, Negate(FP, a), b, Negate(FP, c), fnmadd_s(a, b, c))
                      [] op = "fnmsub_s" -> IsFma(FP, a, Negate(FP, b), c, fnmsub_s(a, b, c))
                      [] op = "fmadd_d" -> IsFma(DP, a, b, c, fmadd_d(a, b, c))
                      [] op = "fmsub_d" -> IsFma(DP, a, b, Negate(DP, c), fmsub_d(a, b, c))
                      [] op = "fnmadd_d" -> IsFma(DP, Negate(DP, a), b, Negate(DP, c), fnmadd_d(a, b, c))
                      [] op = "fnmsub_d" -> IsFma(DP, a, Negate(DP, b), c, fnmsub_d(a, b, c))

\* The smaller and the larger, the three comparisons and the class.
IsOrdered(f, a, b) ==
    LET s == f = FP
        eq == SignedUnits(f, a) = SignedUnits(f, b)
        lt == SignedUnits(f, a) < SignedUnits(f, b)
    IN  /\ IsExtreme(f, 1, a, b, IF s THEN fmin_s(a, b) ELSE fmin_d(a, b))
        /\ IsExtreme(f, -1, a, b, IF s THEN fmax_s(a, b) ELSE fmax_d(a, b))
        /\ Holds(f, a, b, eq) = IF s THEN feq_s(a, b) ELSE feq_d(a, b)
        /\ Holds(f, a, b, lt) = IF s THEN flt_s(a, b) ELSE flt_d(a, b)
        /\ Holds(f, a, b, lt \/ eq) = IF s THEN fle_s(a, b) ELSE fle_d(a, b)
        /\ IsClass(f, a, IF s THEN fclass_s(a) ELSE fclass_d(a))

\* Conversions of a to and from integers of w bits, and to the other format.
AreConverted(f, a, w) ==
    LET s == f = FP
        i == a % 2^w
        signed == IF i >= 2^(w - 1) THEN i - 2^w ELSE i
    IN  /\ IsInteger(f, a, -(2^(w - 1)), 2^(w - 1) - 1, w, IF s THEN fcvt_w_s(a, w) ELSE fcvt_w_d(a, w))
        /\ IsInteger(f, a, 0, 2^w - 1, w, IF s THEN fcvt_wu_s(a, w) ELSE fcvt_wu_d(a, w))
        /\ IsFloat(f, signed, IF s THEN fcvt_s_w(i, w) ELSE fcvt_d_w(i, w))
        /\ IsFloat(f, i, IF s THEN fcvt_s_wu(i, w) ELSE fcvt_d_wu(i, w))
        /\ IF s THEN IsConverted(FP, DP, a, fcvt_d_s(a)) ELSE IsConverted(DP, FP, a, fcvt_s_d(a))

-----------------------------------------------------------------------------
(* Properties *)

\* Every unit's state has its type: see CpuTypeOK.
TypeOK == workload.unit \in {"codec", "parcel", "imem", "alu", "generator", "cpu", "layout", "fp"} /\ CpuTypeOK

\* Every word an encoder returns is decoded as the operation it was made
\* for, with the operands it was given, and every compressed one expands to
\* the encoding of its full form; operands out of range are refused
\* (instruction_encode.py and compressed_encode.py against instr_decoder.sv,
\* immediate_decoder.sv and rvc_decompressor.sv).
EncodingsReadBack ==
    workload.unit = "codec" /\ item # None =>
        IF workload.op \in C_OPS THEN ExpandsToFullForm(item) ELSE ReadsBack(item)

\* The bench's op and flags against the decoded operation and what ID registers.
SeenAs(op, flags, decoded, f) ==
    LET Owes(operand, int_file, fp_file) ==
            operand \in OperandsOf(workload.op) /\ ~(operand = "rs1" /\ "is_csr_imm" \in flags)
                => (int_file \in flags) # (fp_file \in flags)
    IN  /\ f \cup {"is_not_nop", "is_pipelined_fp_op", "is_fp_to_int"} = flags \cup {"is_pipelined_fp_op", "is_fp_to_int"}
        /\ rs_type_pre(decoded) = _derive_rs_type(op)
        /\ _derive_rs_type(op) = "RS_MEM" => _rs_dispatch_kwargs(op) = dispatch_mem(decoded, f)
        /\ Owes("rs1", "uses_int_rs1", "uses_fp_rs1")
        /\ Owes("rs2", "uses_int_rs2", "uses_fp_rs2")
        /\ ("rs3" \in OperandsOf(workload.op)) = ("uses_fp_rs3" \in flags)
        /\ ("rd" \in OperandsOf(workload.op)) = (flags \cap {"has_int_dest", "has_fp_dest"} # {})
        /\ ~{"has_int_dest", "has_fp_dest"} \subseteq flags

\* The classification the dispatch bench drives for an operation is the one
\* the ID stage registers for its word: every flag but the two that dispatch
\* does not read and the bench derives from shorter lists, the reservation
\* station, and what a memory operation asks of the queues.  It makes
\* dispatch wait for every source register the word carries, from exactly
\* one register file, and rename exactly the destination it has (dispatch_interface.py and tomasulo_interface.py
\* against id_stage.sv, instruction_type_decoder.sv and dispatch.sv).
DispatchSeesTheInstruction ==
    workload.unit = "codec" /\ item # None /\ workload.op \notin C_OPS =>
        \A w \in {encode(item)} \ {ValidationError} : \A op \in {DecodedAs(workload.op)} :
            SeenAs(op, _derive_pre_decoded_flags(op), op_for_pre_decode(w), id_stage(w))

\* Every routine that packs or unpacks a struct for a unit bench puts each
\* field where the struct has it, with its width, at XLEN = 32 and, but for
\* the routines that keep 32-bit addresses, at XLEN = 64; and every
\* operation the benches number has its number in the RTL (the interface
\* modules of the Tomasulo benches against riscv_pkg.sv).
LayoutsAgree ==
    workload.unit = "layout" =>
        LET routine == Routines(workload.xlen)[workload.name]
        IN  /\ workload.xlen = 32 \/ workload.name \notin Rv32Routines => routine[1] = routine[2]
            /\ dispatch_ops \cup lq_ops \subseteq instr_op_e

\* What the init-file generator predecodes from a 16-bit parcel is what the
\* expansion of the parcel shows: whether it is control flow, and its
\* source registers (generate_imem_predecode_init.py against
\* rvc_decompressor.sv).
PredecodeIsExact ==
    workload.unit = "parcel" => PredecodeOfParcel(pack_bits({<<item, 0, 16>>}))

\* For every first operand, the reference arithmetic and the datapath give
\* the same result: the carry that orders unsigned numbers, the split
\* multiplication of magnitudes, the restoring divider with its division by
\* zero and its overflow, the counting trees, the AMO's written value and
\* the branch decision (alu_model.py and branch_model.py against alu.sv,
\* multiplier.sv, divider.sv, load_queue.sv and branch_jump_unit.sv).
DatapathMatchesModel ==
    workload.unit = "alu" =>
        LET op == workload.op
        IN  IF op \in Unary THEN UnaryEvaluator(op, item) = alu(op, item, 0)
            ELSE \A b \in Operands :
                     CASE op \in MulDiv -> Evaluator(op, item, b) = int_muldiv(op, item, b)
                       [] op \in Names(AMO) -> AmoEvaluator(op, item, b) = amo_compute(op, item, b)
                       [] op \in Names(BRANCHES) -> branch_taken_decision(op, item, b) = branch_taken(op, item, b)
                       [] OTHER -> Evaluator(op, item, b) = alu(op, item, b)

\* Every result of the floating-point model is the correctly rounded one,
\* once, with the sign and the special value the F and D extensions ask
\* for: a single rounded to a double first loses nothing, and neither do the
\* two hand-written fused multiply-adds at a tie, a carry out of the
\* mantissa, the edge of the subnormals, overflow or exact cancellation
\* (fp_model.py).
FpRoundsOnce ==
    workload.unit = "fp" /\ workload.op \in FpOps =>
        IsRounded(workload.op, item, workload.seconds, workload.addends)

\* Minimum and maximum order the zeros and drop a NaN, comparisons with a
\* NaN fail, conversions round to nearest even before they saturate, and a
\* class is the position of the number (fp_model.py).
FpOrderAndConversions ==
    /\ workload.unit = "fp" /\ workload.op = "order" => \A b \in workload.seconds : IsOrdered(workload.format, item, b)
    /\ workload.unit = "fp" /\ workload.op = "convert" => \A w \in workload.widths : AreConverted(workload.format, item, w)

\* For every value of the base register, with or without a second usable
\* base, whatever is drawn: see IsLegal.
GeneratedIsLegal ==
    workload.unit = "generator" =>
        \A other \in workload.others, force \in BOOLEAN :
            LET regs == [r \in Registers |-> IF r = 0 THEN 0 ELSE IF r = 1 THEN item ELSE other]
            IN  \A i \in generate_random_instruction_with_fp(
                           workload.op, regs, [AllDraws EXCEPT !.rd = {1}, !.rs2 = {1}], force) :
                    IsLegal(i, regs)

\* The bench and the core understand the same instruction: what an encoder
\* wrote is what the decoders and the dispatch classification read.
InstructionsReadBack == EncodingsReadBack /\ DispatchSeesTheInstruction

\* The core executes the program that was linked: see PredecodeIsExact for
\* the generator, and for the memory and the aligner FetchReturnsTheImage,
\* BundleIsTheProgram and PairingIsExact.
FetchesTheProgram == PredecodeIsExact /\ FetchReturnsTheImage /\ BundleIsTheProgram /\ PairingIsExact

\* The floating-point model gives what the F and D extensions ask for, at
\* every special value, tie and boundary of the formats.
FpIsRight == FpRoundsOnce /\ FpOrderAndConversions

\* A test of a correct core passes, and the model and the core end it in
\* the same state: no monitor raises on the way (MonitorsAcceptTheCore),
\* and at the end nothing differs that the monitors do not see
\* (ModelEndsAsTheCore).
BenchFollowsTheCore == TypeOK /\ MonitorsAcceptTheCore /\ ModelEndsAsTheCore
=============================================================================
