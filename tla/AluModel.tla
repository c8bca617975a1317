------------------------------ MODULE AluModel ------------------------------
(***************************************************************************)
(* The bench's reference arithmetic (verif/models/alu_model.py,            *)
(* branch_model.py and utils/riscv_utils.py) and the datapath it predicts: *)
(* alu.sv, multiplier.sv, divider.sv, branch_jump_unit.sv, the counting    *)
(* trees of riscv_pkg.sv and the load queue's amo_compute.                 *)
(*                                                                         *)
(* The code has XLEN = 32 with 8-bit bytes; here XLEN is a parameter and a *)
(* byte is a quarter of a word, so that every operand can be tried.        *)
(* A Python integer is an integer; the datapath's vectors are numbers      *)
(* below the power of two of their width.                                  *)
(***************************************************************************)
EXTENDS Integers, FiniteSets, SequencesExt

CONSTANT XLEN
ASSUME XLENAssumption == XLEN \in {8, 16, 32}

BYTE == XLEN \div 4
HALF == XLEN \div 2
LOG2_XLEN == CHOOSE k \in 1 .. XLEN : 2^k >= XLEN /\ 2^(k - 1) < XLEN
MASK32(v) == v % 2^XLEN
SHIFT_AMOUNT_MASK(v) == v % 2^LOG2_XLEN

FromBool(b) == IF b THEN 1 ELSE 0
BitOf(v, i) == (v \div 2^i) % 2
FromBits(width, bit(_)) == FoldLeft(LAMBDA s, i : s + bit(i - 1) * 2^(i - 1), 0, [i \in 1 .. width |-> i])

\* The bits of x or y, of both, and of exactly one.
And(x, y) == FromBits(XLEN, LAMBDA i : BitOf(x, i) * BitOf(y, i))
Or(x, y)  == FromBits(XLEN, LAMBDA i : FromBool(BitOf(x, i) + BitOf(y, i) > 0))
Xor(x, y) == FromBits(XLEN, LAMBDA i : (BitOf(x, i) + BitOf(y, i)) % 2)

-----------------------------------------------------------------------------
(* riscv_utils.py *)

sign_extend(val, bits) == (val % 2^(bits - 1)) - BitOf(val, bits - 1) * 2^(bits - 1)
to_signed32(val) == sign_extend(MASK32(val), XLEN)
to_unsigned32(val) == MASK32(val)
to_signed33(val) == sign_extend(MASK32(val), XLEN)

(* alu_model.py *)

add(a, b) == MASK32(a + b)
sub(a, b) == MASK32(a - b)
and_rv(a, b) == And(a, b)
or_rv(a, b) == Or(a, b)
xor(a, b) == Xor(a, b)
sll(a, b) == MASK32(a * 2^SHIFT_AMOUNT_MASK(b))
srl(a, b) == MASK32(a \div 2^SHIFT_AMOUNT_MASK(b))
sra(a, b) == MASK32(to_signed32(a) \div 2^SHIFT_AMOUNT_MASK(b))
slt(a, b) == FromBool(to_signed32(a) < to_signed32(b))
sltu(a, b) == FromBool(MASK32(a) < MASK32(b))

mul(a, b)    == MASK32(to_signed32(a) * to_signed32(b))
mulh(a, b)   == MASK32((to_signed33(a) * to_signed33(b)) \div 2^XLEN)
mulhsu(a, b) == MASK32((to_signed33(a) * to_unsigned32(b)) \div 2^XLEN)
mulhu(a, b)  == MASK32((to_unsigned32(a) * to_unsigned32(b)) \div 2^XLEN)

\* int(x / y): the quotient rounded towards zero.
Truncated(x, y) ==
    LET abs(v) == IF v < 0 THEN -v ELSE v
        q == abs(x) \div abs(y)
    IN  IF (x < 0) = (y < 0) THEN q ELSE -q

DIVISION_BY_ZERO_QUOTIENT == 2^XLEN - 1
Overflows(x, y) == x = -(2^(XLEN - 1)) /\ y = -1

div(dividend, divisor) ==
    LET x == to_signed32(dividend)
        y == to_signed32(divisor)
    IN  CASE y = 0 -> DIVISION_BY_ZERO_QUOTIENT
          [] y # 0 /\ Overflows(x, y) -> 2^(XLEN - 1)
          [] OTHER -> MASK32(Truncated(x, y))

divu(dividend, divisor) ==
    IF to_unsigned32(divisor) = 0 THEN DIVISION_BY_ZERO_QUOTIENT
    ELSE MASK32(to_unsigned32(dividend) \div to_unsigned32(divisor))

rem(dividend, divisor) ==
    LET x == to_signed32(dividend)
        y == to_signed32(divisor)
    IN  CASE y = 0 -> MASK32(dividend)
          [] y # 0 /\ Overflows(x, y) -> 0
          [] OTHER -> MASK32(x - y * Truncated(x, y))

remu(dividend, divisor) ==
    IF to_unsigned32(divisor) = 0 THEN to_unsigned32(dividend)
    ELSE MASK32(to_unsigned32(dividend) % to_unsigned32(divisor))

sh1add(a, b) == MASK32(a * 2 + b)
sh2add(a, b) == MASK32(a * 4 + b)
sh3add(a, b) == MASK32(a * 8 + b)

bset(a, b) == MASK32(Or(a, 2^SHIFT_AMOUNT_MASK(b)))
bclr(a, b) == MASK32(And(a, -1 - 2^SHIFT_AMOUNT_MASK(b)))
binv(a, b) == MASK32(Xor(a, 2^SHIFT_AMOUNT_MASK(b)))
bext(a, b) == (a \div 2^SHIFT_AMOUNT_MASK(b)) % 2

andn(a, b) == And(a, MASK32(-1 - b))
orn(a, b)  == MASK32(Or(a, MASK32(-1 - b)))
xnor(a, b) == MASK32(-1 - Xor(a, b))
max_rv(a, b) == IF to_signed32(a) > to_signed32(b) THEN a ELSE b
maxu(a, b)   == IF MASK32(a) > MASK32(b) THEN a ELSE b
min_rv(a, b) == IF to_signed32(a) < to_signed32(b) THEN a ELSE b
minu(a, b)   == IF MASK32(a) < MASK32(b) THEN a ELSE b

\* Python shifts without a width, so the part that is shifted out on the
\* left is cut by the mask; both parts are disjoint below it.
rol(a, b) == LET s == SHIFT_AMOUNT_MASK(b) IN Or(MASK32(a * 2^s), a \div 2^(XLEN - s))
ror(a, b) == LET s == SHIFT_AMOUNT_MASK(b) IN Or(a \div 2^s, MASK32(a * 2^(XLEN - s)))

clz(v) == Cardinality({ i \in 0 .. XLEN - 1 : \A j \in i .. XLEN - 1 : BitOf(v, j) = 0 })
ctz(v) == Cardinality({ i \in 0 .. XLEN - 1 : \A j \in 0 .. i : BitOf(v, j) = 0 })
cpop(v) == Cardinality({ i \in 0 .. XLEN - 1 : BitOf(v, i) = 1 })
sext_b(v) == MASK32(sign_extend(v % 2^BYTE, BYTE))
sext_h(v) == MASK32(sign_extend(v % 2^HALF, HALF))
zext_h(v) == v % 2^HALF
byte_val(v, i) == (v \div 2^(i * BYTE)) % 2^BYTE
orc_b(v) == LET b(i) == IF byte_val(v, i) # 0 THEN (2^BYTE - 1) * 2^(i * BYTE) ELSE 0 IN b(0) + b(1) + b(2) + b(3)
rev8(v)  == LET b(i) == byte_val(v, i) * 2^((3 - i) * BYTE) IN b(0) + b(1) + b(2) + b(3)
czero_eqz(a, b) == IF MASK32(b) = 0 THEN 0 ELSE MASK32(a)
czero_nez(a, b) == IF MASK32(b) # 0 THEN 0 ELSE MASK32(a)
pack(a, b)  == (b % 2^HALF) * 2^HALF + (a % 2^HALF)
packh(a, b) == (b % 2^BYTE) * 2^BYTE + (a % 2^BYTE)
brev8(v) == FromBits(XLEN, LAMBDA i : BitOf(byte_val(v, i \div BYTE), BYTE - 1 - (i % BYTE)))
zip_rv(v) == FromBits(XLEN, LAMBDA i : BitOf(v, IF i % 2 = 0 THEN i \div 2 ELSE HALF + i \div 2))
unzip(v)  == FromBits(XLEN, LAMBDA i : BitOf(v, IF i < HALF THEN 2 * i ELSE 2 * (i - HALF) + 1))

amoswap(old, rs2) == MASK32(rs2)
amoadd(old, rs2)  == MASK32(old + rs2)
amoxor(old, rs2)  == MASK32(Xor(old, rs2))
amoand(old, rs2)  == MASK32(And(old, rs2))
amoor(old, rs2)   == MASK32(Or(old, rs2))
amomin(old, rs2)  == MASK32(IF to_signed32(old) < to_signed32(rs2) THEN old ELSE rs2)
amomax(old, rs2)  == MASK32(IF to_signed32(old) > to_signed32(rs2) THEN old ELSE rs2)
amominu(old, rs2) == IF MASK32(old) < MASK32(rs2) THEN old ELSE rs2
amomaxu(old, rs2) == IF MASK32(old) > MASK32(rs2) THEN old ELSE rs2

(* op_tables.py: the evaluator column *)

Evaluator(op, a, b) ==
    CASE op \in {"add", "addi"} -> add(a, b)
      [] op = "sub" -> sub(a, b)
      [] op \in {"and", "andi"} -> and_rv(a, b)
      [] op \in {"or", "ori"} -> or_rv(a, b)
      [] op \in {"xor", "xori"} -> xor(a, b)
      [] op \in {"sll", "slli"} -> sll(a, b)
      [] op \in {"srl", "srli"} -> srl(a, b)
      [] op \in {"sra", "srai"} -> sra(a, b)
      [] op \in {"slt", "slti"} -> slt(a, b)
      [] op \in {"sltu", "sltiu"} -> sltu(a, b)
      [] op = "mul" -> mul(a, b)
      [] op = "mulh" -> mulh(a, b)
      [] op = "mulhsu" -> mulhsu(a, b)
      [] op = "mulhu" -> mulhu(a, b)
      [] op = "div" -> div(a, b)
      [] op = "divu" -> divu(a, b)
      [] op = "rem" -> rem(a, b)
      [] op = "remu" -> remu(a, b)
      [] op = "sh1add" -> sh1add(a, b)
      [] op = "sh2add" -> sh2add(a, b)
      [] op = "sh3add" -> sh3add(a, b)
      [] op \in {"bset", "bseti"} -> bset(a, b)
      [] op \in {"bclr", "bclri"} -> bclr(a, b)
      [] op \in {"binv", "binvi"} -> binv(a, b)
      [] op \in {"bext", "bexti"} -> bext(a, b)
      [] op = "andn" -> andn(a, b)
      [] op = "orn" -> orn(a, b)
      [] op = "xnor" -> xnor(a, b)
      [] op = "max" -> max_rv(a, b)
      [] op = "maxu" -> maxu(a, b)
      [] op = "min" -> min_rv(a, b)
      [] op = "minu" -> minu(a, b)
      [] op = "rol" -> rol(a, b)
      [] op \in {"ror", "rori"} -> ror(a, b)
      [] op = "czero_eqz" -> czero_eqz(a, b)
      [] op = "czero_nez" -> czero_nez(a, b)
      [] op = "pack" -> pack(a, b)
      [] op = "packh" -> packh(a, b)

UnaryEvaluator(op, v) ==
    CASE op = "clz" -> clz(v)
      [] op = "ctz" -> ctz(v)
      [] op = "cpop" -> cpop(v)
      [] op = "sext_b" -> sext_b(v)
      [] op = "sext_h" -> sext_h(v)
      [] op = "zext_h" -> zext_h(v)
      [] op = "orc_b" -> orc_b(v)
      [] op = "rev8" -> rev8(v)
      [] op = "brev8" -> brev8(v)
      [] op = "zip" -> zip_rv(v)
      [] op = "unzip" -> unzip(v)

AmoEvaluator(op, old, rs2) ==
    CASE op = "amoswap_w" -> amoswap(old, rs2)
      [] op = "amoadd_w" -> amoadd(old, rs2)
      [] op = "amoxor_w" -> amoxor(old, rs2)
      [] op = "amoand_w" -> amoand(old, rs2)
      [] op = "amoor_w" -> amoor(old, rs2)
      [] op = "amomin_w" -> amomin(old, rs2)
      [] op = "amomax_w" -> amomax(old, rs2)
      [] op = "amominu_w" -> amominu(old, rs2)
      [] op = "amomaxu_w" -> amomaxu(old, rs2)

(* branch_model.py *)

branch_taken_decision(operation, a, b) ==
    CASE operation = "beq"  -> a = b
      [] operation = "bne"  -> a # b
      [] operation = "blt"  -> to_signed32(a) < to_signed32(b)
      [] operation = "bge"  -> to_signed32(a) >= to_signed32(b)
      [] operation = "bltu" -> MASK32(a) < MASK32(b)
      [] operation = "bgeu" -> MASK32(a) >= MASK32(b)

-----------------------------------------------------------------------------
(* The datapath: alu.sv behind int_alu_shim.sv *)

SignBit(v) == BitOf(v, XLEN - 1)

\* {v[XLEN-1], v}: one more bit, the sign.
Extended(v) == SignBit(v) * 2^XLEN + v
difference(a, b) == (Extended(a) - Extended(b)) % 2^(XLEN + 1)

AluSltu(a, b) ==
    CASE SignBit(a) = 1 /\ SignBit(b) = 0 -> 0
      [] SignBit(b) = 1 /\ SignBit(a) = 0 -> 1
      [] OTHER -> BitOf(difference(a, b), XLEN)

\* riscv_pkg.sv: counts assembled from the counts of the bytes.
clz8(v) == IF v = 0 THEN BYTE ELSE CHOOSE n \in 0 .. BYTE - 1 : v \div 2^(BYTE - 1 - n) = 1
ctz8(v) == IF v = 0 THEN BYTE ELSE CHOOSE n \in 0 .. BYTE - 1 : v % 2^n = 0 /\ BitOf(v, n) = 1
clz32(v) ==
    CASE byte_val(v, 3) # 0 -> clz8(byte_val(v, 3))
      [] byte_val(v, 3) = 0 /\ byte_val(v, 2) # 0 -> clz8(byte_val(v, 2)) + BYTE
      [] byte_val(v, 3) = 0 /\ byte_val(v, 2) = 0 /\ byte_val(v, 1) # 0 -> clz8(byte_val(v, 1)) + 2 * BYTE
      [] v \in 1 .. 2^BYTE - 1 -> clz8(v) + 3 * BYTE
      [] v = 0 -> XLEN
ctz32(v) ==
    CASE byte_val(v, 0) # 0 -> ctz8(byte_val(v, 0))
      [] byte_val(v, 0) = 0 /\ byte_val(v, 1) # 0 -> ctz8(byte_val(v, 1)) + BYTE
      [] byte_val(v, 0) = 0 /\ byte_val(v, 1) = 0 /\ byte_val(v, 2) # 0 -> ctz8(byte_val(v, 2)) + 2 * BYTE
      [] v % 2^(3 * BYTE) = 0 /\ v # 0 -> ctz8(byte_val(v, 3)) + 3 * BYTE
      [] v = 0 -> XLEN

\* A tree of additions over the eight nibbles.
cpop32(v) ==
    LET W == XLEN \div 8
        pop4(i) == Cardinality({ j \in 0 .. W - 1 : BitOf(v, W * i + j) = 1 })
        pop8(i) == pop4(2 * i) + pop4(2 * i + 1)
        pop16(i) == pop8(2 * i) + pop8(2 * i + 1)
    IN  pop16(0) + pop16(1)

\* XLEN'({a, a} >> shamt).
Funnel(a, shamt) == MASK32((a * 2^XLEN + a) \div 2^shamt)

\* b is operand_b: the register, or the sign-extended immediate.
alu(op, a, b) ==
    LET shamt == b % 2^LOG2_XLEN
        one == 2^shamt
    IN  CASE op \in {"add", "addi"} -> MASK32(a + b)
          [] op = "sub" -> MASK32(difference(a, b))
          [] op \in {"and", "andi"} -> And(a, b)
          [] op \in {"or", "ori"} -> Or(a, b)
          [] op \in {"xor", "xori"} -> Xor(a, b)
          [] op \in {"sll", "slli"} -> MASK32(a * 2^shamt)
          [] op \in {"srl", "srli"} -> a \div 2^shamt
          [] op \in {"sra", "srai"} -> MASK32((a - SignBit(a) * 2^XLEN) \div 2^shamt)
          [] op \in {"slt", "slti"} -> BitOf(difference(a, b), XLEN)
          [] op \in {"sltu", "sltiu"} -> AluSltu(a, b)
          [] op = "sh1add" -> MASK32(MASK32(a * 2) + b)
          [] op = "sh2add" -> MASK32(MASK32(a * 4) + b)
          [] op = "sh3add" -> MASK32(MASK32(a * 8) + b)
          [] op \in {"bset", "bseti"} -> Or(a, one)
          [] op \in {"bclr", "bclri"} -> And(a, 2^XLEN - 1 - one)
          [] op \in {"binv", "binvi"} -> Xor(a, one)
          [] op \in {"bext", "bexti"} -> (a \div one) % 2
          [] op = "andn" -> And(a, 2^XLEN - 1 - b)
          [] op = "orn" -> Or(a, 2^XLEN - 1 - b)
          [] op = "xnor" -> 2^XLEN - 1 - Xor(a, b)
          [] op = "max" -> IF to_signed32(a) > to_signed32(b) THEN a ELSE b
          [] op = "maxu" -> IF a > b THEN a ELSE b
          [] op = "min" -> IF to_signed32(a) < to_signed32(b) THEN a ELSE b
          [] op = "minu" -> IF a < b THEN a ELSE b
          [] op \in {"ror", "rori"} -> Funnel(a, shamt)
          [] op = "rol" -> Funnel(a, XLEN - shamt)
          [] op = "clz" -> clz32(a)
          [] op = "ctz" -> ctz32(a)
          [] op = "cpop" -> cpop32(a)
          [] op = "sext_b" -> FromBits(XLEN, LAMBDA i : BitOf(a, IF i < BYTE THEN i ELSE BYTE - 1))
          [] op = "sext_h" -> FromBits(XLEN, LAMBDA i : BitOf(a, IF i < HALF THEN i ELSE HALF - 1))
          [] op = "orc_b" -> FromBits(XLEN, LAMBDA i : FromBool(byte_val(a, i \div BYTE) # 0))
          [] op = "rev8" -> FromBits(XLEN, LAMBDA i : BitOf(a, (3 - (i \div BYTE)) * BYTE + (i % BYTE)))
          [] op = "czero_eqz" -> IF b = 0 THEN 0 ELSE a
          [] op = "czero_nez" -> IF b # 0 THEN 0 ELSE a
          [] op \in {"pack", "zext_h"} -> (b % 2^HALF) * 2^HALF + (a % 2^HALF)
          [] op = "packh" -> (b % 2^BYTE) * 2^BYTE + (a % 2^BYTE)
          [] op = "brev8" -> FromBits(XLEN, LAMBDA i : BitOf(a, (i \div BYTE) * BYTE + (BYTE - 1 - (i % BYTE))))
          [] op = "zip" -> FromBits(XLEN, LAMBDA i : BitOf(a, (i \div 2) + (i % 2) * HALF))
          [] op = "unzip" -> FromBits(XLEN, LAMBDA i : BitOf(a, 2 * (i % HALF) + i \div HALF))

(* int_muldiv_shim.sv: multiplier.sv and divider.sv *)

\* The magnitudes multiplied in halves of LoW and HiW bits; the final sum
\* negates by complementing both addends and adding two.
multiplier(operand_a, operand_b) ==
    LET LoW == HALF + 1
        W == 2 * XLEN + 2
        abs_33(v) == IF BitOf(v, XLEN) = 1 THEN 2^(XLEN + 1) - v ELSE v
        neg == BitOf(operand_a, XLEN) # BitOf(operand_b, XLEN)
        lo(v) == abs_33(v) % 2^LoW
        hi(v) == abs_33(v) \div 2^LoW
        s_mid == lo(operand_a) * hi(operand_b) + hi(operand_a) * lo(operand_b)
        s_hi_lo == hi(operand_a) * hi(operand_b) * 2^(2 * LoW) + lo(operand_a) * lo(operand_b)
        s_shifted_mid == (s_mid * 2^LoW) % 2^W
        masked(v) == IF neg THEN 2^W - 1 - v ELSE v
    IN  (masked(s_hi_lo) + masked(s_shifted_mid) + (IF neg THEN 2 ELSE 0)) % 2^(2 * XLEN)

MulOperands(op, a, b) ==
    CASE op = "mulh" -> <<Extended(a), Extended(b)>>
      [] op = "mulhsu" -> <<Extended(a), b>>
      [] OTHER -> <<a, b>>

\* One iteration of a stage: the remainder takes the quotient's top bit, the
\* divisor is subtracted if it fits, and the bit of the outcome is shifted in.
DivideStep(s, divisor) ==
    LET remainder_shifted == s.remainder * 2 + SignBit(s.quotient)
        subtraction_result == (remainder_shifted - divisor) % 2^(XLEN + 1)
        negative == BitOf(subtraction_result, XLEN) = 1
    IN  [remainder |-> MASK32(IF negative THEN remainder_shifted ELSE subtraction_result),
         quotient |-> MASK32(s.quotient * 2) + FromBool(~negative)]

DividerNoZero(signed, dividend, divisor) ==  \* mutant: the divide-by-zero select is missing
    LET neg(v) == signed /\ SignBit(v) = 1
        negate(v) == (2^XLEN - v) % 2^XLEN
        abs(v) == IF neg(v) THEN negate(v) ELSE v
        last == FoldLeft(LAMBDA s, i : DivideStep(s, abs(divisor)),
                         [remainder |-> 0, quotient |-> abs(dividend)], [i \in 1 .. XLEN |-> i])
    IN  [quotient |-> IF neg(dividend) # neg(divisor) THEN negate(last.quotient) ELSE last.quotient,
         remainder |-> IF neg(dividend) THEN negate(last.remainder) ELSE last.remainder]

\* XLEN \div 2 stages of two iterations, then the signs and the division by
\* zero; the overflow needs no case of its own.
divider(signed, dividend, divisor) ==
    LET neg(v) == signed /\ SignBit(v) = 1
        negate(v) == (2^XLEN - v) % 2^XLEN
        abs(v) == IF neg(v) THEN negate(v) ELSE v
        last == FoldLeft(LAMBDA s, i : DivideStep(s, abs(divisor)),
                         [remainder |-> 0, quotient |-> abs(dividend)], [i \in 1 .. XLEN |-> i])
        signed_by(n, v) == IF n THEN negate(v) ELSE v
    IN  IF divisor = 0
        THEN [quotient |-> 2^XLEN - 1, remainder |-> signed_by(neg(dividend), abs(dividend))]
        ELSE [quotient |-> signed_by(neg(dividend) # neg(divisor), last.quotient),
              remainder |-> signed_by(neg(dividend), last.remainder)]

int_muldiv(op, a, b) ==
    LET o == MulOperands(op, a, b)
        product == multiplier(o[1], o[2])
    IN  CASE op = "mul" -> product % 2^XLEN
          [] op \in {"mulh", "mulhsu", "mulhu"} -> product \div 2^XLEN
          [] op = "div" -> divider(TRUE, a, b).quotient
          [] op = "divu" -> divider(FALSE, a, b).quotient
          [] op = "rem" -> divider(TRUE, a, b).remainder
          [] op = "remu" -> divider(FALSE, a, b).remainder

(* load_queue.sv: the value an AMO writes *)

amo_compute(op, old_val, rs2) ==
    CASE op = "amoswap_w" -> rs2
      [] op = "amoadd_w" -> MASK32(old_val + rs2)
      [] op = "amoxor_w" -> Xor(old_val, rs2)
      [] op = "amoand_w" -> And(old_val, rs2)
      [] op = "amoor_w" -> Or(old_val, rs2)
      [] op = "amomin_w" -> IF to_signed32(old_val) < to_signed32(rs2) THEN old_val ELSE rs2
      [] op = "amomax_w" -> IF to_signed32(old_val) > to_signed32(rs2) THEN old_val ELSE rs2
      [] op = "amominu_w" -> IF old_val < rs2 THEN old_val ELSE rs2
      [] op = "amomaxu_w" -> IF old_val > rs2 THEN old_val ELSE rs2

(* branch_jump_unit.sv *)

branch_taken(op, a, b) ==
    LET signed_less_than == to_signed32(a) < to_signed32(b)
    IN  CASE op = "beq" -> a = b
          [] op = "bne" -> a # b
          [] op = "blt" -> signed_less_than
          [] op = "bge" -> ~signed_less_than
          [] op = "bltu" -> a < b
          [] op = "bgeu" -> ~(a < b)
=============================================================================
