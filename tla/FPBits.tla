------------------------------- MODULE FPBits -------------------------------
(***************************************************************************)
(* The floating point formats: FPBits of src/__support/FPUtil/FPBits.h and *)
(* NormalFloat of NormalFloat.h, for any widths of mantissa and exponent.  *)
(* A float is [sign, exp, mant], the three fields of its bits.             *)
(*                                                                         *)
(* Val(x) is the value of a finite float in units of the least subnormal,  *)
(* so that every float is an integer and the arithmetic the hardware does  *)
(* can be done exactly.                                                    *)
(***************************************************************************)
EXTENDS Integers

CONSTANTS MANTISSA_WIDTH, EXPONENT_WIDTH

ONE == 2 ^ MANTISSA_WIDTH
EXPONENT_BIAS == 2 ^ (EXPONENT_WIDTH - 1) - 1
MAX_EXPONENT == 2 ^ EXPONENT_WIDTH - 1
BIT_WIDTH == 1 + EXPONENT_WIDTH + MANTISSA_WIDTH

Floats == [sign : BOOLEAN, exp : 0 .. MAX_EXPONENT, mant : 0 .. ONE - 1]

is_inf_or_nan(x) == x.exp = MAX_EXPONENT
is_inf(x) == x.exp = MAX_EXPONENT /\ x.mant = 0
is_nan(x) == x.exp = MAX_EXPONENT /\ x.mant # 0
is_zero(x) == x.exp = 0 /\ x.mant = 0
get_exponent(x) == x.exp - EXPONENT_BIAS
get_explicit_mantissa(x) == IF x.exp > 0 /\ ~is_inf_or_nan(x) THEN ONE + x.mant ELSE x.mant
uintval(x) == (IF x.sign THEN 2 ^ (BIT_WIDTH - 1) ELSE 0) + x.exp * ONE + x.mant

zero(sign) == [sign |-> sign, exp |-> 0, mant |-> 0]
inf(sign) == [sign |-> sign, exp |-> MAX_EXPONENT, mant |-> 0]
build_quiet_nan == [sign |-> FALSE, exp |-> MAX_EXPONENT, mant |-> ONE \div 2]
one(sign) == [sign |-> sign, exp |-> EXPONENT_BIAS, mant |-> 0]

\* How far to shift m left until its ONE bit is set, for 0 < m < 2 * ONE.
evaluate_normalization_shift(m) ==
  CHOOSE s \in 0 .. MANTISSA_WIDTH : m * 2 ^ s \in ONE .. 2 * ONE - 1

\* number * 2^ep for 0 < number < 2 * ONE; ep + 1 is a raw exponent.
make_value(number, ep) ==
  LET lz == evaluate_normalization_shift(number)
      n == number * 2 ^ lz
  IN  IF ep - lz >= 0 THEN [sign |-> FALSE, exp |-> ep - lz + 1, mant |-> n - ONE]
      ELSE [sign |-> FALSE, exp |-> 0, mant |-> n \div 2 ^ (lz - ep)]

(***************************************************************************)
(* NormalFloat: the ONE bit of the mantissa is always set.                 *)
(***************************************************************************)
NormalFloat(e, m, s) ==
  LET k == evaluate_normalization_shift(m)
  IN  [exponent |-> e - k, mantissa |-> m * 2 ^ k, sign |-> s]

init_from_bits(x) ==
  IF x.exp = 0 THEN NormalFloat(1 - EXPONENT_BIAS, x.mant, x.sign)
  ELSE [exponent |-> get_exponent(x), mantissa |-> ONE + x.mant, sign |-> x.sign]

cmp(n, m) ==
  LET less == n.exponent < m.exponent \/ (n.exponent = m.exponent /\ n.mantissa < m.mantissa)
      same == n.exponent = m.exponent /\ n.mantissa = m.mantissa
  IN  IF n.sign # m.sign THEN (IF n.sign THEN -1 ELSE 1)
      ELSE IF same THEN 0 ELSE IF less <=> n.sign THEN 1 ELSE -1

\* Mutant: what is shifted out of a subnormal is dropped.
round_to_even_truncates(mantissa, shift) == mantissa \div 2 ^ shift

\* The mantissa of a subnormal, rounded to nearest, halfway cases to even.
round_to_even(mantissa, shift) ==
  LET out == mantissa % 2 ^ shift
      half == 2 ^ (shift - 1)
      m == mantissa \div 2 ^ shift
  IN  IF out > half \/ (out = half /\ m % 2 = 1) THEN m + 1 ELSE m

\* The conversion operator of NormalFloat.
ToFloat(n) ==
  LET shift == 1 - EXPONENT_BIAS - n.exponent
      m == round_to_even(n.mantissa, shift)
  IN  IF n.exponent + EXPONENT_BIAS > MAX_EXPONENT - 1 THEN inf(n.sign)
      ELSE IF shift <= 0
           THEN [sign |-> n.sign, exp |-> n.exponent + EXPONENT_BIAS, mant |-> n.mantissa - ONE]
      ELSE IF shift > MANTISSA_WIDTH + 1 THEN zero(n.sign)
      ELSE [sign |-> n.sign, exp |-> IF m = ONE THEN 1 ELSE 0, mant |-> m % ONE]

(***************************************************************************)
(* Values, and the arithmetic of the hardware on them                      *)
(***************************************************************************)
Magnitude(x) == IF x.exp = 0 THEN x.mant ELSE (ONE + x.mant) * 2 ^ (x.exp - 1)

Val(x) == IF x.sign THEN -Magnitude(x) ELSE Magnitude(x)

Unit == 2 ^ (EXPONENT_BIAS + MANTISSA_WIDTH - 1)

Largest == (2 * ONE - 1) * 2 ^ (MAX_EXPONENT - 2)

Abs(v) == IF v < 0 THEN -v ELSE v

\* The float of a value that has one; zeros get the given sign.
Native(v, sign) ==
  LET a == Abs(v)
      e == CHOOSE k \in 1 .. MAX_EXPONENT - 1 : a \div 2 ^ (k - 1) \in ONE .. 2 * ONE - 1
  IN  IF a < ONE THEN [sign |-> IF v = 0 THEN sign ELSE v < 0, exp |-> 0, mant |-> a]
      ELSE [sign |-> v < 0, exp |-> e, mant |-> (a \div 2 ^ (e - 1)) - ONE]
=============================================================================
