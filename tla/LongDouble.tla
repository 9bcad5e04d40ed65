----------------------------- MODULE LongDouble -----------------------------
(***************************************************************************)
(* The long double of the x87, src/__support/FPUtil/x86_64/LongDoubleBits.h*)
(* with NextAfterLongDouble.h and generic/sqrt_80_bit_long_double.h.  The  *)
(* leading bit of the mantissa is a bit of the format, "the implicit bit", *)
(* and a float is [sign, exp, bit, mant].  It is usually 1 exactly when    *)
(* exp is not 0; pseudo-subnormals have it set although exp is 0, and with *)
(* the bit missing a number is not a number.                               *)
(***************************************************************************)
EXTENDS FloatOps

LongDoubles == [sign : BOOLEAN, exp : 0 .. MAX_EXPONENT, bit : 0 .. 1, mant : 0 .. ONE - 1]

is_zero_x(x) == x.exp = 0 /\ x.bit = 0 /\ x.mant = 0
is_inf_x(x) == x.exp = MAX_EXPONENT /\ x.bit = 1 /\ x.mant = 0
is_nan_x(x) ==
  \/ x.exp = MAX_EXPONENT /\ (x.bit = 0 \/ x.mant # 0)
  \/ x.exp \in 1 .. MAX_EXPONENT - 1 /\ x.bit = 0
is_inf_or_nan_x(x) == x.exp = MAX_EXPONENT \/ (x.exp # 0 /\ x.bit = 0)

get_exponent_x(x) == (IF x.exp = 0 THEN 1 ELSE x.exp) - EXPONENT_BIAS

quiet_nan == [sign |-> FALSE, exp |-> MAX_EXPONENT, bit |-> 1, mant |-> ONE \div 2]

\* The bits without the sign, and the float for them.
uintval_x(x) == x.exp * 2 * ONE + x.bit * ONE + x.mant
FromBitsX(b, sign) ==
  [sign |-> sign, exp |-> b \div (2 * ONE), bit |-> (b \div ONE) % 2, mant |-> b % ONE]

MAX_SUBNORMAL == ONE - 1
MIN_NORMAL == 3 * ONE

\* The value of a number that is not a nan; infinity continues the finite ones.
MagnitudeX(x) == (x.bit * ONE + x.mant) * 2 ^ (IF x.exp = 0 THEN 0 ELSE x.exp - 1)
ValX(x) == IF x.sign THEN -MagnitudeX(x) ELSE MagnitudeX(x)

(***************************************************************************)
(* nextafter                                                               *)
(***************************************************************************)
\* Mutant: the step from the last subnormal sets the exponent and not the bit.
AwayX_no_bit(from) ==
  IF from.mant = ONE - 1 THEN [from EXCEPT !.mant = 0, !.exp = @ + 1]
  ELSE FromBitsX(uintval_x(from) + 1, from.sign)

\* The neighbours further from zero and nearer to it.
AwayX(from) ==
  IF uintval_x(from) = MAX_SUBNORMAL THEN FromBitsX(MIN_NORMAL, from.sign)
  ELSE IF from.mant = ONE - 1 THEN [from EXCEPT !.mant = 0, !.exp = @ + 1]
  ELSE FromBitsX(uintval_x(from) + 1, from.sign)

NearerX(from) ==
  IF uintval_x(from) = MIN_NORMAL THEN FromBitsX(MAX_SUBNORMAL, from.sign)
  ELSE IF from.mant = 0 THEN [from EXCEPT !.mant = ONE - 1, !.exp = @ - 1]
  ELSE FromBitsX(uintval_x(from) - 1, from.sign)

nextafter_x(from, to) ==
  LET f == IF from.bit = 1 /\ from.exp = 0 THEN [from EXCEPT !.exp = 1] ELSE from
  IN  IF is_nan_x(from) THEN from
      ELSE IF is_nan_x(to) THEN to
      ELSE IF ValX(from) = ValX(to) THEN to
      ELSE IF ValX(from) = 0 THEN FromBitsX(1, ValX(to) < 0)
      ELSE IF (ValX(from) < 0) = (ValX(from) > ValX(to)) THEN AwayX(f) ELSE NearerX(f)

(***************************************************************************)
(* sqrt: as in FloatOps, but rounding up goes into the mantissa alone.     *)
(***************************************************************************)
\* The float for the loop's end l.
SqrtEndX(l, exp, mode) ==
  [sign |-> FALSE, exp |-> (exp \div 2) + EXPONENT_BIAS, bit |-> 1,
   mant |-> (l[1] + (IF SqrtRoundsUp(l[1], l[2], mode) THEN 1 ELSE 0)) % ONE]

SqrtOfX(m, e, mode) ==
  SqrtEndX(SqrtLoop(ONE, (IF e % 2 = 1 THEN 2 * m ELSE m) - ONE, ONE \div 2), e - (e % 2), mode)

sqrt_x(x, mode) ==
  LET k == evaluate_normalization_shift(x.mant)
  IN  IF is_inf_or_nan_x(x) THEN (IF x.sign /\ x.mant = 0 THEN quiet_nan ELSE x)
      ELSE IF is_zero_x(x) THEN x
      ELSE IF x.sign THEN quiet_nan
      ELSE IF x.bit = 0 /\ x.exp = 0 THEN SqrtOfX(x.mant * 2 ^ k, get_exponent_x(x) - k, mode)
      ELSE SqrtOfX(ONE + x.mant, get_exponent_x(x), mode)

(***************************************************************************)
(* Properties                                                              *)
(***************************************************************************)
Canonical(x) == ~is_nan_x(x) /\ ((x.exp = 0) <=> (x.bit = 0))

IsNextX(n, x, y) ==
  LET Between(v) == IF ValX(x) < ValX(y) THEN ValX(x) < v /\ v < ValX(n) ELSE ValX(n) < v /\ v < ValX(x)
  IN  IF is_nan_x(x) THEN n = x
      ELSE IF is_nan_x(y) \/ ValX(x) = ValX(y) THEN n = y
      ELSE /\ Canonical(n)
           /\ IF ValX(x) < ValX(y) THEN ValX(x) < ValX(n) ELSE ValX(n) < ValX(x)
           /\ \A z \in LongDoubles : Canonical(z) => ~Between(ValX(z))

\* nextafter of any number, pseudo-subnormals and infinities included, is the next
\* canonical number on the side of y.
NextIsNeighbour(x, y) == IsNextX(nextafter_x(x, y), x, y)

\* Rounding up leaves the mantissas: x is the last float below a power of 4.
RootIsPower(x) == x.mant = ONE - 1 /\ get_exponent_x(x) % 2 = 1 /\ x.bit = 1

IsRootOfX(y, x, mode) ==
  IF is_nan_x(x) \/ x.sign THEN is_zero_x(x) \/ is_nan_x(y)
  ELSE IF is_zero_x(x) \/ is_inf_x(x) THEN y = x
  ELSE \/ mode = "UPWARD" /\ RootIsPower(x)
       \/ IsNearestRoot(MagnitudeX(y), MagnitudeX(NearerX(y)), MagnitudeX(AwayX(y)),
                        MagnitudeX(x) * Unit, mode)

\* sqrt of the 80 bit format is correctly rounded in every mode, except upwards to a
\* power of two.
RootIsRoundedX(x, mode) == IsRootOfX(sqrt_x(x, mode), x, mode)
=============================================================================
