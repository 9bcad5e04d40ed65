----------------------------- MODULE FloatArith -----------------------------
(***************************************************************************)
(* fma and hypot: generic/FMA.h and Hypot.h of src/__support/FPUtil, and   *)
(* fmin, fmax and fdim of BasicOperations.h, for finite floats.            *)
(*                                                                         *)
(* fma<double> works on words of WORD_BITS bits (64 in the code).  fmaf    *)
(* computes in a wider format, the double, whose mantissa has DOUBLE_WIDTH *)
(* bits (52) and whose exponents are never at their limits.                *)
(***************************************************************************)
EXTENDS FloatOps

CONSTANTS WORD_BITS, DOUBLE_WIDTH

(***************************************************************************)
(* The arithmetic of the hardware                                          *)
(***************************************************************************)
\* Whether the magnitude q + rest / 2^s of a number is rounded up.
RoundsUp(q, rest, s, sign, mode) ==
  CASE mode = "TONEAREST" -> 2 * rest > 2 ^ s \/ (2 * rest = 2 ^ s /\ q % 2 = 1)
    [] mode = "UPWARD" -> rest > 0 /\ ~sign
    [] mode = "DOWNWARD" -> rest > 0 /\ sign
    [] OTHER -> FALSE

Overflowed(sign, mode) ==
  IF mode = "TONEAREST" \/ mode = (IF sign THEN "DOWNWARD" ELSE "UPWARD") THEN inf(sign)
  ELSE [sign |-> sign, exp |-> MAX_EXPONENT - 1, mant |-> ONE - 1]

\* The float for v / 2^s, in units of the least subnormal.
Rounded(v, s, mode) ==
  LET a == Abs(v)
      e == CHOOSE k \in 0 .. 31 : /\ a \div 2 ^ s < 2 * ONE * 2 ^ k
                                  /\ k = 0 \/ a \div 2 ^ s >= ONE * 2 ^ k
      q == a \div 2 ^ (s + e)
      rest == a % 2 ^ (s + e)
      bits == e * ONE + q + (IF RoundsUp(q, rest, s + e, v < 0, mode) THEN 1 ELSE 0)
  IN  IF bits >= MAX_EXPONENT * ONE THEN Overflowed(v < 0, mode)
      ELSE [FromBits(bits) EXCEPT !.sign = v < 0]

\* A unit is 1 / Unit; a product of two values counts in units of 1 / Unit^2.
UnitBits == EXPONENT_BIAS + MANTISSA_WIDTH - 1

Lg(v) == IF v = 0 THEN -1 ELSE CHOOSE k \in 0 .. 30 : v \in 2 ^ k .. 2 ^ (k + 1) - 1

\* The double nearest to the integer v.
Double(v) ==
  LET a == Abs(v)
      s == IF Lg(a) > DOUBLE_WIDTH THEN Lg(a) - DOUBLE_WIDTH ELSE 0
      q == a \div 2 ^ s
      r == (IF RoundsUp(q, a % 2 ^ s, s, FALSE, "TONEAREST") THEN q + 1 ELSE q) * 2 ^ s
  IN  IF v < 0 THEN -r ELSE r

(***************************************************************************)
(* fmin, fmax, fdim                                                        *)
(***************************************************************************)
fmin(x, y) ==
  IF is_nan(x) THEN y ELSE IF is_nan(y) THEN x
  ELSE IF x.sign # y.sign THEN (IF x.sign THEN x ELSE y)
  ELSE IF Val(x) < Val(y) THEN x ELSE y

fmax(x, y) ==
  IF is_nan(x) THEN y ELSE IF is_nan(y) THEN x
  ELSE IF x.sign # y.sign THEN (IF x.sign THEN y ELSE x)
  ELSE IF Val(x) > Val(y) THEN x ELSE y

fdim(x, y, mode) ==
  IF is_nan(x) THEN x ELSE IF is_nan(y) THEN y
  ELSE IF Val(x) > Val(y) THEN Rounded(Val(x) - Val(y), 0, mode) ELSE zero(FALSE)

(***************************************************************************)
(* fma<float>: the product is exact in a double.  The sum is not, and its  *)
(* error t decides when the sum is halfway between two floats.             *)
(***************************************************************************)
\* Mutant: the sum is rounded to a float without a look at its error.
fmaf_twice(x, y, z) ==
  Rounded(Double(Val(x) * Val(y) + Val(z) * Unit), UnitBits, "TONEAREST")

\* |sum| in units of 1 / 2^DOUBLE_WIDTH, its last bit changed where the error t has to
\* be seen.  ulp, the leading power of 2 of sum, is its last bit in these units.
FmafAdjusted(sum, t, ulp) ==
  LET mantissa == ((sum - ulp) * 2 ^ DOUBLE_WIDTH) \div ulp
      matters == t # 0 /\ mantissa % 2 ^ (DOUBLE_WIDTH - MANTISSA_WIDTH - 1) = 0
  IN  sum * 2 ^ DOUBLE_WIDTH
        + (IF ~matters THEN 0 ELSE IF t < 0 THEN ulp ELSE IF mantissa # 0 THEN -ulp ELSE 0)

\* The float for sum, whose error is t.
FmafRounded(sum, t) ==
  IF sum = 0 THEN zero(FALSE)
  ELSE IF sum > 0
       THEN Rounded(FmafAdjusted(sum, t, 2 ^ Lg(sum)), UnitBits + DOUBLE_WIDTH, "TONEAREST")
  ELSE Rounded(-FmafAdjusted(-sum, -t, 2 ^ Lg(-sum)), UnitBits + DOUBLE_WIDTH, "TONEAREST")

FmafSum(prod, z_d, sum) ==
  FmafRounded(sum, IF Lg(Abs(prod)) >= Lg(Abs(z_d)) THEN Double(Double(sum - prod) - z_d)
                   ELSE Double(Double(sum - z_d) - prod))

fmaf(x, y, z) ==
  LET prod == Val(x) * Val(y)
      z_d == Val(z) * Unit
  IN  FmafSum(prod, z_d, Double(prod + z_d))

(***************************************************************************)
(* fma<double>                                                             *)
(***************************************************************************)
\* <<exponent, mantissa with its leading bit>>; a subnormal is scaled up first.
Unpacked(x) ==
  LET k == evaluate_normalization_shift(x.mant)
  IN  IF x.exp = 0 THEN <<1 - k, x.mant * 2 ^ k>> ELSE <<x.exp, ONE + x.mant>>

\* <<what remains of mant, whether bits were lost>>
shift_mantissa(shift_length, mant) ==
  IF shift_length >= 2 * WORD_BITS THEN <<0, TRUE>>
  ELSE <<mant \div 2 ^ shift_length, mant % 2 ^ shift_length # 0>>

\* prod and z, their exponents made equal: who was shifted may have lost bits.
AlignedSum(prod, prod_lsb, prod_sign, z, z_lsb, z_sign) ==
  LET p == IF prod_lsb < z_lsb THEN shift_mantissa(z_lsb - prod_lsb, prod) ELSE <<prod, FALSE>>
      w == IF z_lsb < prod_lsb THEN shift_mantissa(prod_lsb - z_lsb, z) ELSE <<z, FALSE>>
      lsb == IF prod_lsb < z_lsb THEN z_lsb ELSE prod_lsb
      Total(v, sign) ==
        [mant |-> v % 2 ^ (2 * WORD_BITS), sign |-> sign, lsb |-> lsb, sticky |-> p[2] \/ w[2]]
      One(b) == IF b THEN 1 ELSE 0
  IN  IF prod_sign = z_sign THEN Total(p[1] + w[1], prod_sign)
      ELSE IF p[1] >= w[1] THEN Total(p[1] - (w[1] + One(w[2])), prod_sign)
      ELSE Total(w[1] - (p[1] + One(p[2])), z_sign)

\* Mutant: the bits that alignment shifted out are forgotten.
NormalizedForgets(m) ==
  LET k == Lg(m.mant) - (WORD_BITS - 1)
  IN  [word |-> IF k >= 0 THEN m.mant \div 2 ^ k ELSE m.mant * 2 ^ (-k),
       exp |-> m.lsb + k + WORD_BITS - 1, sticky |-> k > 0 /\ m.mant % 2 ^ k # 0]

\* The leading 1 of m moved to the top of a word: the word, its exponent, and whether
\* there is anything below it.
Normalized(m) ==
  LET k == Lg(m.mant) - (WORD_BITS - 1)
  IN  IF k >= 0
      THEN [word |-> m.mant \div 2 ^ k, exp |-> m.lsb + k + WORD_BITS - 1,
            sticky |-> m.sticky \/ m.mant % 2 ^ k # 0]
      ELSE [word |-> m.mant * 2 ^ (-k), exp |-> m.lsb + k + WORD_BITS - 1, sticky |-> m.sticky]

\* The mantissa of a normal or subnormal result, its round bit and its sticky bits.
Fitted(n) ==
  LET drop == WORD_BITS - 1 - MANTISSA_WIDTH + (IF n.exp > 0 THEN 0 ELSE 1 - n.exp)
  IN  IF n.exp < -MANTISSA_WIDTH THEN [result |-> 0, round_bit |-> FALSE, sticky |-> TRUE]
      ELSE [result |-> n.word \div 2 ^ drop, round_bit |-> (n.word \div 2 ^ (drop - 1)) % 2 = 1,
            sticky |-> n.sticky \/ n.word % 2 ^ (drop - 1) # 0]

\* The result, rounded; a carry of the mantissa goes into the exponent.
FinishedFrom(f, r_exp, sign, mode) ==
  LET bits == (f.result % ONE) + r_exp * ONE
      up == \/ mode = "TONEAREST" /\ f.round_bit /\ (f.sticky \/ bits % 2 = 1)
            \/ /\ mode = (IF sign THEN "DOWNWARD" ELSE "UPWARD")
               /\ f.round_bit \/ f.sticky
  IN  IF r_exp >= MAX_EXPONENT THEN Overflowed(sign, mode)
      ELSE [FromBits(bits + (IF up THEN 1 ELSE 0)) EXCEPT !.sign = sign]

Finished(n, sign, mode) == FinishedFrom(Fitted(n), IF n.exp > 0 THEN n.exp ELSE 0, sign, mode)

FmaOfSum(m, mode) ==
  IF m.mant = 0 THEN FromBits(IF mode = "UPWARD" /\ m.sticky THEN 1 ELSE 0)
  ELSE Finished(Normalized(m), m.sign, mode)

FmaUnpacked(ux, uy, uz, prod_sign, z_sign, mode) ==
  LET head == WORD_BITS - MANTISSA_WIDTH - 2
  IN  FmaOfSum(AlignedSum(ux[2] * uy[2] * 2 ^ head,
                          ux[1] + uy[1] - (EXPONENT_BIAS + 2 * MANTISSA_WIDTH + head), prod_sign,
                          uz[2] * 2 ^ WORD_BITS, uz[1] - (MANTISSA_WIDTH + WORD_BITS), z_sign), mode)

fma(x, y, z, mode) ==
  IF is_zero(x) \/ is_zero(y) \/ is_zero(z)
  THEN Rounded(Val(x) * Val(y) + Val(z) * Unit, UnitBits, mode)
  ELSE FmaUnpacked(Unpacked(x), Unpacked(y), Unpacked(z), x.sign # y.sign, z.sign, mode)

(***************************************************************************)
(* hypot: the square root of a sum of squares, bit by bit, with one bit    *)
(* more than the mantissa has to round with.                               *)
(***************************************************************************)
\* The digits of sqrt(sum) below leading: <<root, rest>>.
RECURSIVE HypotLoop(_, _, _, _)
HypotLoop(y_new, r, tail_bits, current_bit) ==
  LET next == 2 * r + ((tail_bits \div current_bit) % 2)
      tmp == 2 * y_new + current_bit
  IN  IF current_bit = 0 THEN <<y_new, r>>
      ELSE IF next >= tmp
           THEN HypotLoop(y_new + current_bit, next - tmp, tail_bits, current_bit \div 2)
      ELSE HypotLoop(y_new, next, tail_bits, current_bit \div 2)

\* Mutant: what b's square lost is forgotten.
SumOfSquaresForgets(a, b) ==
  LET m(x) == 2 * (IF x.exp # 0 THEN ONE + x.mant ELSE x.mant)
      e(x) == IF x.exp # 0 THEN x.exp ELSE 1
  IN  [sum |-> m(a) ^ 2 + (m(b) ^ 2) \div 2 ^ (2 * (e(a) - e(b))), sticky |-> FALSE,
       width |-> IF a.exp # 0 THEN MANTISSA_WIDTH + 1 ELSE Lg(m(a)), exp |-> a.exp]

\* The larger operand a and the smaller b: their mantissas with the extra bit, and the
\* sum of the squares in units of a's last bit, with what b's square lost.
SumOfSquares(a, b) ==
  LET m(x) == 2 * (IF x.exp # 0 THEN ONE + x.mant ELSE x.mant)
      e(x) == IF x.exp # 0 THEN x.exp ELSE 1
      shift_length == 2 * (e(a) - e(b))
      sq == m(b) ^ 2
  IN  [sum |-> m(a) ^ 2 + sq \div 2 ^ shift_length, sticky |-> sq % 2 ^ shift_length # 0,
       width |-> IF a.exp # 0 THEN MANTISSA_WIDTH + 1 ELSE Lg(m(a)), exp |-> a.exp]

\* A sum of 4 or more times the square of the leading bit needs one more bit: a normal
\* result drops one at the end and a subnormal one has room for it.
Widened(s) ==
  IF s.sum < 2 ^ (2 * s.width + 2) THEN s
  ELSE IF s.width = MANTISSA_WIDTH + 1
       THEN [s EXCEPT !.sum = @ \div 4, !.sticky = @ \/ s.sum % 4 # 0, !.exp = @ + 1]
  ELSE [s EXCEPT !.width = @ + 1]

HypotRounded(s, mode) ==
  LET leading == 2 ^ s.width
      l == HypotLoop(leading, (s.sum \div leading) - leading, s.sum % leading, leading \div 2)
      y == l[1]
      lost == s.sticky \/ l[2] # 0
      up == \/ mode = "TONEAREST" /\ y % 2 = 1 /\ (y % 4 = 3 \/ lost)
            \/ mode = "UPWARD" /\ (y % 2 = 1 \/ lost)
      exp == IF y >= 2 * ONE /\ s.exp = 0 THEN 1 ELSE s.exp
      mant == ((y % (2 * ONE)) \div 2) + (IF up THEN 1 ELSE 0)
  IN  IF s.exp >= MAX_EXPONENT \/ (mant = ONE /\ exp + 1 >= MAX_EXPONENT)
      THEN Overflowed(FALSE, mode)
      ELSE FromBits(exp * ONE + mant)

hypot(x, y, mode) ==
  IF Abs(x.exp - y.exp) >= MANTISSA_WIDTH + 2 \/ is_zero(x) \/ is_zero(y)
  THEN Rounded(Magnitude(x) + Magnitude(y), 0, mode)
  ELSE IF Magnitude(x) >= Magnitude(y) THEN HypotRounded(Widened(SumOfSquares(x, y)), mode)
  ELSE HypotRounded(Widened(SumOfSquares(y, x)), mode)

(***************************************************************************)
(* Properties                                                              *)
(***************************************************************************)
\* Which float it is, up to the sign of a zero.
Same(x, y) == x = y \/ (is_zero(x) /\ is_zero(y))

\* fma is x * y + z rounded once: fma<double> in every rounding mode, fma<float> to
\* nearest, although it rounds twice.
FmaIsRoundedOnce(x, y, z) ==
  \A mode \in Modes :
    LET Is(r) == /\ Same(fma(x, y, z, mode), r)
                 /\ mode = "TONEAREST" => Same(fmaf(x, y, z), r)
    IN  Is(Rounded(Val(x) * Val(y) + Val(z) * Unit, UnitBits, mode))

\* r is the square root of v rounded in the given mode.
IsRoot(r, v, mode) ==
  LET m == Magnitude(r)
      below == Magnitude(FromBits(uintval(r) - 1))
      above == Magnitude(FromBits(uintval(r) + 1))
  IN  IF v = 0 THEN is_zero(r)
      ELSE CASE mode = "TONEAREST" ->
                  /\ is_zero(r) \/ (below + m) ^ 2 < 4 * v \/ ((below + m) ^ 2 = 4 * v /\ r.mant % 2 = 0)
                  /\ is_inf(r) \/ 4 * v < (m + above) ^ 2 \/ (4 * v = (m + above) ^ 2 /\ r.mant % 2 = 0)
             [] mode = "UPWARD" -> below ^ 2 < v /\ (is_inf(r) \/ v <= m ^ 2)
             [] OTHER -> m ^ 2 <= v /\ (m = Largest \/ v < above ^ 2)

\* hypot is the root of the sum of the squares rounded once, in every mode and without
\* an overflow or underflow on the way.
HypotIsRoundedOnce(x, y) ==
  \A mode \in Modes : IsRoot(hypot(x, y, mode), Magnitude(x) ^ 2 + Magnitude(y) ^ 2, mode)

\* fmin and fmax answer one of their arguments, the lesser and the greater, and -0 is
\* less than +0; fdim is how far the greater lies above y.
MinMaxAreRight(x, y) ==
  LET Order(v) == 2 * Val(v) - (IF v.sign THEN 1 ELSE 0)
  IN  /\ {fmin(x, y), fmax(x, y)} = {x, y}
      /\ Order(fmin(x, y)) <= Order(fmax(x, y))
      /\ \A mode \in Modes :
           fdim(x, y, mode) = Rounded(Val(fmax(x, y)) - Val(y), 0, mode)
=============================================================================
