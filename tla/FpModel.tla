------------------------------ MODULE FpModel ------------------------------
(***************************************************************************)
(* The floating-point reference model of the benches                       *)
(* (verif/models/fp_model.py), at a scaled precision.  A word has one sign *)
(* bit, an exponent and a mantissa; FP (F extension) and DP (D extension)  *)
(* are its two formats.  Python's own floats are exact rationals n/d that  *)
(* the host rounds to HOST_BITS significant bits, as it rounds to 53: the  *)
(* single-precision model computes with them and rounds a second time.     *)
(***************************************************************************)
EXTENDS Integers, FiniteSets

CONSTANTS FP_EXP, FP_MANT,      \* 8 and 23
          DP_EXP, DP_MANT,      \* 11 and 52
          HOST_BITS             \* 53

\* A double carries twice the bits of a single and two more.
ASSUME FpAssumption ==
    /\ {FP_EXP, FP_MANT, DP_EXP, DP_MANT, HOST_BITS} \subseteq Nat \ {0, 1}
    /\ HOST_BITS >= 2 * (FP_MANT + 1) + 2
    /\ DP_EXP >= FP_EXP /\ DP_MANT > FP_MANT

FP == [exp |-> FP_EXP, mant |-> FP_MANT]
DP == [exp |-> DP_EXP, mant |-> DP_MANT]

SIGN_MASK(f) == 2^(f.exp + f.mant)
FpWords(f) == 0 .. 2 * SIGN_MASK(f) - 1
POS_INF(f) == (2^f.exp - 1) * 2^f.mant
CANONICAL_NAN(f) == POS_INF(f) + 2^(f.mant - 1)
Bias(f) == 2^(f.exp - 1) - 1
sign_of(f, b) == b \div SIGN_MASK(f)
exp_of(f, b) == (b \div 2^f.mant) % 2^f.exp
mant_of(f, b) == b % 2^f.mant
WithSign(f, sign, magnitude) == sign * SIGN_MASK(f) + magnitude
Negate(f, b) == WithSign(f, 1 - sign_of(f, b), b % SIGN_MASK(f))

IsNan(f, b) == exp_of(f, b) = 2^f.exp - 1 /\ mant_of(f, b) # 0
IsInf(f, b) == exp_of(f, b) = 2^f.exp - 1 /\ mant_of(f, b) = 0
IsZero(f, b) == b % SIGN_MASK(f) = 0
is_nan(b) == IsNan(FP, b)
is_inf(b) == IsInf(FP, b)
is_zero(b) == IsZero(FP, b)
is_negative(b) == sign_of(FP, b) = 1
is_nan_d(b) == IsNan(DP, b)
is_inf_d(b) == IsInf(DP, b)
is_zero_d(b) == IsZero(DP, b)
is_negative_d(b) == sign_of(DP, b) = 1
canonicalize_nan(b) == IF is_nan(b) THEN CANONICAL_NAN(FP) ELSE b

-----------------------------------------------------------------------------
(* The host's floats *)

Nan == [kind |-> "nan"]
Inf(sign) == [kind |-> "inf", sign |-> sign]
Fin(sign, n, d) == [kind |-> "fin", sign |-> sign, n |-> n, d |-> d]

\* The smallest positive number of a format is 1 / Unit; Units is a
\* magnitude in such units, for infinity the next power of two.
Unit(f) == 2^(Bias(f) + f.mant - 1)
Units(f, b) == IF exp_of(f, b) = 0 THEN mant_of(f, b) ELSE (2^f.mant + mant_of(f, b)) * 2^(exp_of(f, b) - 1)
Value(f, b) == CASE IsNan(f, b) -> Nan
                 [] IsInf(f, b) -> Inf(sign_of(f, b))
                 [] OTHER -> Fin(sign_of(f, b), Units(f, b), Unit(f))

\* a / b to the nearest integer, ties to the even one.
RoundHalfEven(a, b) ==
    LET q == a \div b
        r == a % b
    IN  IF 2 * r > b \/ (2 * r = b /\ q % 2 = 1) THEN q + 1 ELSE q

\* The host's conversion of a float to a format.  Above the smallest
\* normals every binade doubles the distance between numbers.
HostConvert(f, x) ==
    CASE x.kind = "nan" -> CANONICAL_NAN(f)
      [] x.kind = "inf" -> WithSign(f, x.sign, POS_INF(f))
      [] OTHER ->
            LET n == x.n * Unit(f)
                j == CHOOSE j \in 0 .. 2^f.exp + f.mant : /\ n < x.d * 2^(f.mant + 1 + j)
                                                           /\ (j = 0 \/ n >= x.d * 2^(f.mant + j))
                k == j * 2^f.mant + RoundHalfEven(n, x.d * 2^j)
            IN  WithSign(f, x.sign, IF k > POS_INF(f) THEN POS_INF(f) ELSE k)

\* The host's rounding of a result to its own precision.
HostRound(x) ==
    IF x.kind # "fin" \/ x.n = 0 THEN x
    ELSE LET k == CHOOSE k \in 0 .. 2 * HOST_BITS : /\ x.n * 2^k < x.d * 2^HOST_BITS
                                                    /\ x.n * 2^k >= x.d * 2^(HOST_BITS - 1)
         IN  Fin(x.sign, RoundHalfEven(x.n * 2^k, x.d), 2^k)

\* The host's operations before rounding.
HostNeg(x) == IF x.kind = "nan" THEN x ELSE [x EXCEPT !.sign = 1 - @]
HostAdd(x, y) ==
    CASE x.kind = "nan" \/ y.kind = "nan" -> Nan
      [] x.kind = "inf" /\ y.kind = "inf" -> IF x.sign = y.sign THEN x ELSE Nan
      [] x.kind = "inf" -> x
      [] y.kind = "inf" -> y
      [] OTHER ->
            LET a == (1 - 2 * x.sign) * x.n * y.d
                b == (1 - 2 * y.sign) * y.n * x.d
                s == a + b
            IN  IF s = 0 THEN Fin(IF x.sign = y.sign THEN x.sign ELSE 0, 0, 1)
                ELSE Fin(IF s < 0 THEN 1 ELSE 0, IF s < 0 THEN -s ELSE s, x.d * y.d)
HostMul(x, y) ==
    IF x.kind = "nan" \/ y.kind = "nan" THEN Nan
    ELSE LET sign == (x.sign + y.sign) % 2
             Zero(v) == v.kind = "fin" /\ v.n = 0
         IN  CASE x.kind = "fin" /\ y.kind = "fin" -> Fin(sign, x.n * y.n, x.d * y.d)
               [] Zero(x) \/ Zero(y) -> Nan
               [] OTHER -> Inf(sign)
\* Only applied to a divisor other than zero.
HostDiv(x, y) ==
    IF x.kind = "nan" \/ y.kind = "nan" THEN Nan
    ELSE LET sign == (x.sign + y.sign) % 2
         IN  CASE x.kind = "inf" /\ y.kind = "inf" -> Nan
               [] x.kind = "inf" -> Inf(sign)
               [] y.kind = "inf" -> Fin(sign, 0, 1)
               [] OTHER -> Fin(sign, x.n * y.d, x.d * y.n)
\* The square root to p bits; it is never halfway between two numbers.
HostSqrt(x, p) ==
    IF x.kind # "fin" \/ x.n = 0 THEN x
    ELSE LET k == CHOOSE k \in 0 .. 2 * p : /\ x.n * 4^k < x.d * 4^p
                                            /\ x.n * 4^k >= x.d * 4^(p - 1)
             q == CHOOSE q \in 0 .. 2^p : q * q * x.d <= x.n * 4^k /\ (q + 1) * (q + 1) * x.d > x.n * 4^k
         IN  Fin(0, IF (2 * q + 1) * (2 * q + 1) * x.d < 4 * x.n * 4^k THEN q + 1 ELSE q, 2^k)
HostLess(x, y) ==
    LET Side(v) == IF v.kind = "inf" THEN 1 - 2 * v.sign ELSE 0
    IN  IF x.kind = "fin" /\ y.kind = "fin" THEN (1 - 2 * x.sign) * x.n * y.d < (1 - 2 * y.sign) * y.n * x.d
        ELSE Side(x) < Side(y)

bits_to_float(b) == Value(FP, b)
float_to_bits(x) == HostConvert(FP, x)
bits_to_double(b) == Value(DP, b)
double_to_bits(x) == HostConvert(DP, x)

-----------------------------------------------------------------------------
(* Arithmetic: single precision through the host's doubles *)

NoNan(operands, result) == IF \E b \in operands : is_nan(b) THEN CANONICAL_NAN(FP) ELSE canonicalize_nan(result)
InfTimesZero(f, a, b) == \/ IsZero(f, a) /\ IsInf(f, b)
                         \/ IsInf(f, a) /\ IsZero(f, b)
XorSign(f, a, b) == (sign_of(f, a) + sign_of(f, b)) % 2

fadd_s(a, b) == NoNan({a, b}, float_to_bits(HostRound(HostAdd(bits_to_float(a), bits_to_float(b)))))
fsub_s(a, b) == NoNan({a, b}, float_to_bits(HostRound(HostAdd(bits_to_float(a), HostNeg(bits_to_float(b))))))
fmul_s(a, b) ==
    IF InfTimesZero(FP, a, b) THEN CANONICAL_NAN(FP)
    ELSE NoNan({a, b}, float_to_bits(HostRound(HostMul(bits_to_float(a), bits_to_float(b)))))
fdiv_s(a, b) ==
    IF \/ is_nan(a) \/ is_nan(b)
       \/ is_inf(a) /\ is_inf(b)
       \/ is_zero(a) /\ is_zero(b)
    THEN CANONICAL_NAN(FP)
    ELSE IF is_zero(b) THEN WithSign(FP, XorSign(FP, a, b), POS_INF(FP))
    ELSE canonicalize_nan(float_to_bits(HostRound(HostDiv(bits_to_float(a), bits_to_float(b)))))
fsqrt_s(a) ==
    IF is_nan(a) \/ (is_negative(a) /\ ~is_zero(a)) THEN CANONICAL_NAN(FP)
    ELSE canonicalize_nan(float_to_bits(HostSqrt(bits_to_float(a), HOST_BITS)))

-----------------------------------------------------------------------------
(* The fused multiply-add of singles, rounded by hand from the exact sum *)

\* 2^e <= n / d < 2^(e + 1)
Exponent(n, d) == CHOOSE e \in -2 * (Bias(FP) + FP_MANT - 1) .. 2 * (Bias(FP) + 1) :
                      IF e >= 0 THEN d * 2^e <= n /\ n < d * 2^(e + 1)
                                ELSE d <= n * 2^(-e) /\ n * 2^(-e) < 2 * d

\* Guard, round and sticky bits below the mantissa.
GUARD == FP_MANT + 4

\* mutant: a tie rounds away from zero
RoundedMantissaAway(n, d, k) ==
    LET num == IF k >= 0 THEN n * 2^k ELSE n
        den == IF k >= 0 THEN d ELSE d * 2^(-k)
    IN  (num \div den + 2^(GUARD - 1)) \div 2^GUARD

\* n / d, scaled by 2^k, as the mantissa after rounding to nearest even.
RoundedMantissa(n, d, k) ==
    LET num == IF k >= 0 THEN n * 2^k ELSE n
        den == IF k >= 0 THEN d ELSE d * 2^(-k)
        scaled == num \div den
        mantissa == scaled \div 2^GUARD
        guard == (scaled \div 2^(GUARD - 1)) % 2
        round == (scaled \div 2^(GUARD - 2)) % 2
        sticky == IF scaled % 2^(GUARD - 2) # 0 \/ num % den # 0 THEN 1 ELSE 0
    IN  IF guard = 1 /\ (round = 1 \/ sticky = 1 \/ mantissa % 2 = 1) THEN mantissa + 1 ELSE mantissa

decimal_to_float32(sign, n, d) ==
    IF n = 0 THEN WithSign(FP, sign, 0)
    ELSE LET e == Exponent(n, d)
             biased == e + Bias(FP)
             normal == RoundedMantissa(n, d, FP_MANT + GUARD - e)
             carry == normal >= 2^(FP_MANT + 1)
             exp == IF carry THEN biased + 1 ELSE biased
             subnormal == RoundedMantissa(n, d, FP_MANT + GUARD - 1 + Bias(FP))
         IN  CASE biased >= 2^FP_EXP - 1 -> WithSign(FP, sign, POS_INF(FP))
               [] biased >= 1 /\ biased < 2^FP_EXP - 1 ->
                     IF exp >= 2^FP_EXP - 1 THEN WithSign(FP, sign, POS_INF(FP))
                     ELSE WithSign(FP, sign, exp * 2^FP_MANT + ((IF carry THEN normal \div 2 ELSE normal) % 2^FP_MANT))
               [] biased < 1 /\ 1 - biased >= FP_MANT + 2 -> WithSign(FP, sign, 0)
               [] OTHER -> WithSign(FP, sign, IF subnormal >= 2^FP_MANT THEN 2^FP_MANT ELSE subnormal)

_fma_float32(a, b, c) ==
    LET product == XorSign(FP, a, b)
        sum == HostAdd(HostMul(Value(FP, a), Value(FP, b)), Value(FP, c))
    IN  CASE InfTimesZero(FP, a, b) -> CANONICAL_NAN(FP)
          [] ~InfTimesZero(FP, a, b) /\ (is_inf(a) \/ is_inf(b)) ->
                IF is_inf(c) /\ sign_of(FP, c) # product THEN CANONICAL_NAN(FP)
                ELSE WithSign(FP, product, POS_INF(FP))
          [] ~is_inf(a) /\ ~is_inf(b) /\ is_inf(c) -> c
          [] OTHER -> decimal_to_float32(sum.sign, sum.n, sum.d)

_negate_float32(b) == Negate(FP, b)

\* The guards of the four operations before they negate their operands.
FusedNan(a, b, c, product, addend) ==
    \/ \E x \in {a, b, c} : is_nan(x)
    \/ InfTimesZero(FP, a, b)
    \/ (is_inf(a) \/ is_inf(b)) /\ is_inf(c) /\ product # addend

fmadd_s(a, b, c) ==
    IF FusedNan(a, b, c, XorSign(FP, a, b), sign_of(FP, c)) THEN CANONICAL_NAN(FP)
    ELSE canonicalize_nan(_fma_float32(a, b, c))
fmsub_s(a, b, c) ==
    IF FusedNan(a, b, c, XorSign(FP, a, b), 1 - sign_of(FP, c)) THEN CANONICAL_NAN(FP)
    ELSE canonicalize_nan(_fma_float32(a, b, _negate_float32(c)))
fnmadd_s(a, b, c) ==
    IF FusedNan(a, b, c, 1 - XorSign(FP, a, b), 1 - sign_of(FP, c)) THEN CANONICAL_NAN(FP)
    ELSE canonicalize_nan(_fma_float32(_negate_float32(a), b, _negate_float32(c)))
fnmsub_s(a, b, c) ==
    IF FusedNan(a, b, c, 1 - XorSign(FP, a, b), sign_of(FP, c)) THEN CANONICAL_NAN(FP)
    ELSE canonicalize_nan(_fma_float32(_negate_float32(a), b, c))

-----------------------------------------------------------------------------
(* Double precision: the host's own arithmetic, and a fused multiply-add   *)
(* of integers                                                             *)

fadd_d(a, b) == IF is_nan_d(a) \/ is_nan_d(b) THEN CANONICAL_NAN(DP)
                ELSE double_to_bits(HostAdd(bits_to_double(a), bits_to_double(b)))
fsub_d(a, b) == IF is_nan_d(a) \/ is_nan_d(b) THEN CANONICAL_NAN(DP)
                ELSE double_to_bits(HostAdd(bits_to_double(a), HostNeg(bits_to_double(b))))
fmul_d(a, b) == IF is_nan_d(a) \/ is_nan_d(b) THEN CANONICAL_NAN(DP)
                ELSE double_to_bits(HostMul(bits_to_double(a), bits_to_double(b)))
fdiv_d(a, b) ==
    LET sign == XorSign(DP, a, b)
    IN  IF \/ is_nan_d(a) \/ is_nan_d(b)
           \/ is_inf_d(a) /\ is_inf_d(b)
           \/ is_zero_d(a) /\ is_zero_d(b)
        THEN CANONICAL_NAN(DP)
        ELSE IF is_zero_d(b) \/ is_inf_d(a) THEN WithSign(DP, sign, POS_INF(DP))
        ELSE IF is_inf_d(b) THEN WithSign(DP, sign, 0)
        ELSE double_to_bits(HostDiv(bits_to_double(a), bits_to_double(b)))
fsqrt_d(a) ==
    IF is_nan_d(a) \/ (is_negative_d(a) /\ ~is_zero_d(a)) THEN CANONICAL_NAN(DP)
    ELSE IF is_inf_d(a) THEN POS_INF(DP)
    ELSE double_to_bits(HostSqrt(bits_to_double(a), DP_MANT + 1))

\* The number of bits of sig, and sig shifted right by a positive count,
\* rounded to nearest even from its guard and sticky bits.
bit_length(sig) == CHOOSE k \in 1 .. 30 : 2^(k - 1) <= sig /\ sig < 2^k
ShiftedAndRounded(sig, shift) ==
    LET kept == sig \div 2^shift
        guard == (sig \div 2^(shift - 1)) % 2
        sticky == sig % 2^(shift - 1) # 0
    IN  IF guard = 1 /\ (sticky \/ kept % 2 = 1) THEN kept + 1 ELSE kept

MinExponent == 1 - Bias(DP) - DP_MANT      \* -1074

_round_to_double(sign, sig, exp2) ==
    LET n_bits == bit_length(sig)
        exp_unbiased == exp2 + n_bits - 1
        shift == n_bits - (DP_MANT + 1)
        kept == IF shift > 0 THEN ShiftedAndRounded(sig, shift) ELSE sig * 2^(-shift)
        carry == kept >= 2^(DP_MANT + 1)
        exp == IF carry THEN exp_unbiased + 1 ELSE exp_unbiased
        drop == MinExponent - exp2
        mant == IF drop > 0 THEN ShiftedAndRounded(sig, drop) ELSE sig * 2^(-drop)
    IN  IF exp_unbiased > Bias(DP) THEN WithSign(DP, sign, POS_INF(DP))
        ELSE IF exp_unbiased >= 1 - Bias(DP)
        THEN IF exp > Bias(DP) THEN WithSign(DP, sign, POS_INF(DP))
             ELSE WithSign(DP, sign, (exp + Bias(DP)) * 2^DP_MANT + ((IF carry THEN kept \div 2 ELSE kept) % 2^DP_MANT))
        ELSE WithSign(DP, sign, IF mant >= 2^DP_MANT THEN 2^DP_MANT ELSE mant)

_fma_float64(a, b, c) ==
    LET exp(x) == IF exp_of(DP, x) = 0 THEN MinExponent ELSE exp_of(DP, x) - Bias(DP) - DP_MANT
        sig(x) == IF exp_of(DP, x) = 0 THEN mant_of(DP, x) ELSE 2^DP_MANT + mant_of(DP, x)
        sign_p == XorSign(DP, a, b)
        sign_c == sign_of(DP, c)
        exp_p == exp(a) + exp(b)
        exp_min == IF exp_p >= exp(c) THEN exp(c) ELSE exp_p
        sig_p == sig(a) * sig(b) * 2^(exp_p - exp_min)
        sig_c == sig(c) * 2^(exp(c) - exp_min)
    IN  IF sign_p = sign_c
        THEN IF sig_p + sig_c = 0 THEN WithSign(DP, sign_p, 0) ELSE _round_to_double(sign_p, sig_p + sig_c, exp_min)
        ELSE IF sig_p = sig_c THEN 0
        ELSE IF sig_p > sig_c THEN _round_to_double(sign_p, sig_p - sig_c, exp_min)
        ELSE _round_to_double(sign_c, sig_c - sig_p, exp_min)

fmadd_d(a, b, c) ==
    LET prod_inf == is_inf_d(a) \/ is_inf_d(b)
        prod_sign == XorSign(DP, a, b)
    IN  IF \/ \E x \in {a, b, c} : is_nan_d(x)
           \/ InfTimesZero(DP, a, b)
           \/ prod_inf /\ is_inf_d(c) /\ prod_sign # sign_of(DP, c)
        THEN CANONICAL_NAN(DP)
        ELSE IF prod_inf THEN WithSign(DP, prod_sign, POS_INF(DP))
        ELSE IF is_inf_d(c) THEN c
        ELSE _fma_float64(a, b, c)
fmsub_d(a, b, c) == fmadd_d(a, b, Negate(DP, c))
fnmadd_d(a, b, c) == fmadd_d(Negate(DP, a), b, Negate(DP, c))
fnmsub_d(a, b, c) == fmadd_d(Negate(DP, a), b, c)

-----------------------------------------------------------------------------
(* Order, conversions and classes *)

Less(f, a, b) == HostLess(Value(f, a), Value(f, b))
NanOr(f, a, b, result) == CASE IsNan(f, a) /\ IsNan(f, b) -> CANONICAL_NAN(f)
                            [] IsNan(f, a) /\ ~IsNan(f, b) -> b
                            [] ~IsNan(f, a) /\ IsNan(f, b) -> a
                            [] OTHER -> result
fmin_s(a, b) == NanOr(FP, a, b,
    IF is_zero(a) /\ is_zero(b) THEN IF is_negative(a) THEN a ELSE b
    ELSE IF ~Less(FP, b, a) THEN a ELSE b)

fmax_s(a, b) == NanOr(FP, a, b,
    IF is_zero(a) /\ is_zero(b) THEN IF ~is_negative(a) THEN a ELSE b
    ELSE IF ~Less(FP, a, b) THEN a ELSE b)
fmin_d(a, b) == NanOr(DP, a, b,
    IF is_zero_d(a) /\ is_zero_d(b) THEN IF is_negative_d(a) \/ is_negative_d(b) THEN SIGN_MASK(DP) ELSE 0
    ELSE IF Less(DP, b, a) THEN b ELSE a)
fmax_d(a, b) == NanOr(DP, a, b,
    IF is_zero_d(a) /\ is_zero_d(b) THEN IF ~is_negative_d(a) THEN a ELSE b
    ELSE IF Less(DP, a, b) THEN b ELSE a)

Ordered(f, a, b, holds) == IF ~IsNan(f, a) /\ ~IsNan(f, b) /\ holds THEN 1 ELSE 0
feq_s(a, b) == Ordered(FP, a, b, (is_zero(a) /\ is_zero(b)) \/ a = b)
flt_s(a, b) == Ordered(FP, a, b, Less(FP, a, b))
fle_s(a, b) == Ordered(FP, a, b, ~Less(FP, b, a))
feq_d(a, b) == Ordered(DP, a, b, ~Less(DP, a, b) /\ ~Less(DP, b, a))
flt_d(a, b) == Ordered(DP, a, b, Less(DP, a, b))
fle_d(a, b) == Ordered(DP, a, b, ~Less(DP, b, a))

\* Integers of w bits, for 32.
_round_to_nearest_even(x) == (1 - 2 * x.sign) * RoundHalfEven(x.n, x.d)
ToInt(f, a, w) ==
    IF IsNan(f, a) THEN 2^(w - 1) - 1
    ELSE IF IsInf(f, a) THEN IF sign_of(f, a) = 0 THEN 2^(w - 1) - 1 ELSE 2^(w - 1)
    ELSE LET x == Value(f, a)
             result == _round_to_nearest_even(x)
         IN  IF (x.sign = 0 /\ x.n >= x.d * 2^(w - 1)) \/ result > 2^(w - 1) - 1 THEN 2^(w - 1) - 1
             ELSE IF (x.sign = 1 /\ x.n > x.d * 2^(w - 1)) \/ result < -(2^(w - 1)) THEN 2^(w - 1)
             ELSE result % 2^w
ToUint(f, a, w) ==
    IF IsNan(f, a) THEN 2^w - 1
    ELSE IF IsInf(f, a) THEN IF sign_of(f, a) = 0 THEN 2^w - 1 ELSE 0
    ELSE LET x == Value(f, a)
             result == _round_to_nearest_even(x)
         IN  IF x.sign = 0 /\ x.n >= x.d * 2^w THEN 2^w - 1
             ELSE IF result < 0 THEN 0
             ELSE IF result > 2^w - 1 THEN 2^w - 1 ELSE result
SignedInt(i, w) == IF i >= 2^(w - 1) THEN Fin(1, 2^w - i, 1) ELSE Fin(0, i, 1)

fcvt_w_s(a, w) == ToInt(FP, a, w)
fcvt_wu_s(a, w) == ToUint(FP, a, w)
fcvt_s_w(i, w) == float_to_bits(SignedInt(i, w))
fcvt_s_wu(i, w) == float_to_bits(Fin(0, i % 2^w, 1))
fcvt_w_d(a, w) == ToInt(DP, a, w)
fcvt_wu_d(a, w) == ToUint(DP, a, w)
fcvt_d_w(i, w) == double_to_bits(SignedInt(i, w))
fcvt_d_wu(i, w) == double_to_bits(Fin(0, i % 2^w, 1))
fcvt_s_d(a) == IF is_nan_d(a) THEN CANONICAL_NAN(FP) ELSE float_to_bits(bits_to_double(a))
fcvt_d_s(a) == double_to_bits(bits_to_float(a))

\* The bit set of the ten.
fclass(f, a) ==
    LET negative == sign_of(f, a) = 1
        Pick(neg, pos) == IF negative THEN neg ELSE pos
    IN  CASE IsInf(f, a) -> Pick(0, 7)
          [] IsNan(f, a) -> IF mant_of(f, a) >= 2^(f.mant - 1) THEN 9 ELSE 8
          [] IsZero(f, a) -> Pick(3, 4)
          [] exp_of(f, a) = 0 /\ ~IsZero(f, a) -> Pick(2, 5)
          [] OTHER -> Pick(1, 6)
fclass_s(a) == fclass(FP, a)
fclass_d(a) == fclass(DP, a)
=============================================================================
