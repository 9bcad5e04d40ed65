------------------------------ MODULE FloatOps ------------------------------
(***************************************************************************)
(* Operations on floats that are built from their bits: rounding to        *)
(* integers (NearestIntegerOperations.h), taking apart and scaling         *)
(* (ManipulationFunctions.h), the square root (generic/sqrt.h) and the     *)
(* remainders (generic/FMod.h, DivisionAndRemainderOperations.h), all      *)
(* under src/__support/FPUtil.  NaN payloads and the exception flags are   *)
(* left out.                                                               *)
(***************************************************************************)
EXTENDS FPBits, Sequences

Modes == {"TONEAREST", "DOWNWARD", "UPWARD", "TOWARDZERO"}

(***************************************************************************)
(* To an integer                                                           *)
(***************************************************************************)
IsWhole(x) == get_exponent(x) >= MANTISSA_WIDTH

\* The fraction bits of a float of exponent 0 .. MANTISSA_WIDTH - 1, and what
\* remains without them.
TrimSize(x) == MANTISSA_WIDTH - get_exponent(x)
TrimValue(x) == x.mant % 2 ^ TrimSize(x)
Trimmed(x) == [x EXCEPT !.mant = @ - TrimValue(x)]

AwayFromZero(x) == Native(Val(Trimmed(x)) + (IF x.sign THEN -Unit ELSE Unit), x.sign)

trunc(x) ==
  IF is_inf_or_nan(x) \/ IsWhole(x) THEN x
  ELSE IF get_exponent(x) <= -1 THEN zero(x.sign) ELSE Trimmed(x)

ceil(x) ==
  IF is_inf_or_nan(x) \/ is_zero(x) \/ IsWhole(x) THEN x
  ELSE IF get_exponent(x) <= -1 THEN (IF x.sign THEN zero(TRUE) ELSE one(FALSE))
  ELSE IF TrimValue(x) = 0 THEN x
  ELSE IF x.sign THEN Trimmed(x) ELSE AwayFromZero(x)

Negated(x) == [x EXCEPT !.sign = ~@]

floor(x) == IF x.sign THEN Negated(ceil(Negated(x))) ELSE trunc(x)

round(x) ==
  LET half_bit_set == (x.mant \div 2 ^ (TrimSize(x) - 1)) % 2 = 1
  IN  IF is_inf_or_nan(x) \/ is_zero(x) \/ IsWhole(x) THEN x
      ELSE IF get_exponent(x) = -1 THEN one(x.sign)
      ELSE IF get_exponent(x) <= -2 THEN zero(x.sign)
      ELSE IF TrimValue(x) = 0 THEN x
      ELSE IF half_bit_set THEN AwayFromZero(x) ELSE Trimmed(x)

\* Halfway between two integers: up if the lower one is odd; 1.5 has no bit to
\* tell that 1 is odd and is a case of its own.
tie_is_up(x) == get_exponent(x) = 0 \/ (Trimmed(x).mant \div 2 ^ TrimSize(x)) % 2 = 1

round_using_current_rounding_mode(x, mode) ==
  LET small == get_exponent(x) <= -1
      half == 2 ^ (TrimSize(x) - 1)
      away == CASE mode = "DOWNWARD" -> x.sign
                [] mode = "UPWARD" -> ~x.sign
                [] mode = "TOWARDZERO" -> FALSE
                [] small -> ~(get_exponent(x) <= -2 \/ x.mant = 0)
                [] OTHER -> TrimValue(x) > half \/ (TrimValue(x) = half /\ tie_is_up(x))
  IN  IF is_inf_or_nan(x) \/ is_zero(x) \/ IsWhole(x) THEN x
      ELSE IF small THEN (IF away THEN one(x.sign) ELSE zero(x.sign))
      ELSE IF TrimValue(x) = 0 THEN x
      ELSE IF away THEN AwayFromZero(x) ELSE Trimmed(x)

\* <<integer of |bits| bits, whether EDOM and FE_INVALID are raised>>.
rounded_float_to_signed_integer(x, bits) ==
  LET error == <<IF x.sign THEN -(2 ^ (bits - 1)) ELSE 2 ^ (bits - 1) - 1, TRUE>>
  IN  IF is_inf_or_nan(x) \/ get_exponent(x) > bits - 1 THEN error
      ELSE IF get_exponent(x) = bits - 1 /\ (~x.sign \/ x.mant # 0) THEN error
      ELSE <<IF x.sign THEN -(Magnitude(x) \div Unit) ELSE Magnitude(x) \div Unit, FALSE>>

(***************************************************************************)
(* Taking apart and scaling                                                *)
(***************************************************************************)
\* <<fraction, exp>> of a finite float; exp is not set for the others.
frexp(x) ==
  LET n == init_from_bits(x)
  IN  IF is_zero(x) THEN <<x, 0>> ELSE <<ToFloat([n EXCEPT !.exponent = -1]), n.exponent + 1>>

modf(x) ==
  LET iptr == trunc(x)
  IN  IF is_zero(x) \/ is_nan(x) THEN <<x, x>>
      ELSE IF is_inf(x) \/ iptr = x THEN <<zero(x.sign), iptr>>
      ELSE <<Native(Val(x) - Val(iptr), x.sign), iptr>>

\* For a finite x other than 0, which have answers of their own.
ilogb(x) == init_from_bits(x).exponent

ldexp(x, exp) ==
  LET exp_limit == MAX_EXPONENT + MANTISSA_WIDTH + 1
      n == init_from_bits(x)
  IN  IF is_zero(x) \/ is_inf_or_nan(x) \/ exp = 0 THEN x
      ELSE IF exp > exp_limit THEN inf(x.sign)
      ELSE IF exp < -exp_limit THEN zero(x.sign)
      ELSE ToFloat([n EXCEPT !.exponent = @ + exp])

FromBits(b) ==
  [sign |-> b \div 2 ^ (BIT_WIDTH - 1) = 1, exp |-> (b \div ONE) % (MAX_EXPONENT + 1),
   mant |-> b % ONE]

nextafter(from, to) ==
  IF is_nan(from) THEN from
  ELSE IF is_nan(to) THEN to
  ELSE IF Val(from) = Val(to) THEN to
  ELSE IF is_zero(from) THEN FromBits(uintval(zero(to.sign)) + 1)
  ELSE FromBits(uintval(from) + (IF Val(from) < Val(to) <=> Val(from) > 0 THEN 1 ELSE -1))

(***************************************************************************)
(* Square root: one bit of the result for each round, then one more to     *)
(* round with.                                                             *)
(***************************************************************************)
RECURSIVE SqrtLoop(_, _, _)
SqrtLoop(y, r, current_bit) ==
  LET tmp == 2 * y + current_bit
  IN  IF current_bit = 0 THEN <<y, r>>
      ELSE IF 2 * r >= tmp THEN SqrtLoop(y + current_bit, 2 * r - tmp, current_bit \div 2)
      ELSE SqrtLoop(y, 2 * r, current_bit \div 2)

\* Whether the root y, with the rest s of the loop, is rounded up: rb is the next bit.
SqrtRoundsUp(y, s, mode) ==
  LET rb == 4 * s >= 4 * y + 1
      r == IF rb THEN 4 * s - (4 * y + 1) ELSE 4 * s
  IN  \/ mode = "TONEAREST" /\ rb /\ (y % 2 = 1 \/ r # 0)
      \/ mode = "UPWARD" /\ (rb \/ r # 0)

SqrtBits(l, exp, mode) ==
  (l[1] - ONE) + ((exp \div 2) + EXPONENT_BIAS) * ONE + (IF SqrtRoundsUp(l[1], l[2], mode) THEN 1 ELSE 0)

\* The root of n, whose exponent is made even.
SqrtOf(n, mode) ==
  LET odd == n.exponent % 2
  IN  FromBits(SqrtBits(SqrtLoop(ONE, (IF odd = 1 THEN 2 * n.mantissa ELSE n.mantissa) - ONE, ONE \div 2),
                        n.exponent - odd, mode))

sqrt(x, mode) ==
  IF is_inf_or_nan(x) THEN (IF is_inf(x) /\ x.sign THEN build_quiet_nan ELSE x)
  ELSE IF is_zero(x) THEN x
  ELSE IF x.sign THEN build_quiet_nan
  ELSE SqrtOf(init_from_bits(x), mode)

(***************************************************************************)
(* fmod                                                                    *)
(***************************************************************************)
\* v << s in an unsigned integer of the float's width.
Shl(v, s) == (v * 2 ^ s) % 2 ^ BIT_WIDTH

Lesser(a, b) == IF a < b THEN a ELSE b

\* Trailing and leading zero bits of a word that is not 0.
unsafe_ctz(m) == CHOOSE k \in 0 .. BIT_WIDTH : m % 2 ^ (k + 1) = 2 ^ k
unsafe_clz(m) == CHOOSE k \in 0 .. BIT_WIDTH : m * 2 ^ k \in 2 ^ (BIT_WIDTH - 1) .. 2 ^ BIT_WIDTH - 1

RECURSIVE DivisionSimple(_, _, _, _)
DivisionSimple(exp_diff, sides, m_x, m_y) ==
  IF exp_diff > sides THEN DivisionSimple(exp_diff - sides, sides, Shl(m_x, sides) % m_y, m_y)
  ELSE Shl(m_x, exp_diff) % m_y

\* The same by multiplication with the inverse of m_y.  The last loop of a step
\* subtracts while m_x is greater than m_y.
InvMultStep(s, m_x, m_y) ==
  LET inv_hy == (2 ^ BIT_WIDTH - 1) \div m_y
      hd == ((m_x * inv_hy) % 2 ^ BIT_WIDTH) \div 2 ^ (BIT_WIDTH - s)
      rest == (Shl(m_x, s) - hd * m_y) % 2 ^ BIT_WIDTH
  IN  IF rest > m_y THEN ((rest - 1) % m_y) + 1 ELSE rest

RECURSIVE InvMultLoop(_, _, _, _)
InvMultLoop(exp_diff, sides, m_x, m_y) ==
  IF exp_diff > sides THEN InvMultLoop(exp_diff - sides, sides, InvMultStep(sides, m_x, m_y), m_y)
  ELSE InvMultStep(exp_diff, m_x, m_y)

DivisionInvMult(exp_diff, sides, m_x, m_y) ==
  IF exp_diff > sides THEN InvMultLoop(exp_diff, sides, m_x, m_y)
  ELSE Shl(m_x, exp_diff) % m_y

\* The two division helpers: the default, and the one by multiplication.
Helpers == {"Simple", "InvMult"}

DivisionHelper(helper, exp_diff, sides, m_x, m_y) ==
  IF helper = "Simple" THEN DivisionSimple(exp_diff, sides, m_x, m_y)
  ELSE DivisionInvMult(exp_diff, sides, m_x, m_y)

eval_internal(sx, sy, helper) ==
  LET close == sy.exp > MANTISSA_WIDTH /\ sx.exp - sy.exp <= EXPONENT_WIDTH
      d == IF sx.exp = sy.exp THEN get_explicit_mantissa(sx) - get_explicit_mantissa(sy)
           ELSE Shl(get_explicit_mantissa(sx), sx.exp - sy.exp) % get_explicit_mantissa(sy)
      normal == sy.exp > 0
      e_x == sx.exp - 1
      e_y == IF normal THEN sy.exp - 1 ELSE 0
      m_y == IF normal THEN get_explicit_mantissa(sy) ELSE sy.mant
      lead == IF normal THEN EXPONENT_WIDTH ELSE unsafe_clz(m_y)
      tail == unsafe_ctz(m_y)
      right == Lesser(e_x - e_y, tail)
      left == Lesser(e_x - e_y - right, EXPONENT_WIDTH)
      diff == e_x - e_y - right - left
      y == m_y \div 2 ^ right
      m_x == Shl(get_explicit_mantissa(sx), left) % y
  IN  IF uintval(sx) < uintval(sy) THEN sx
      ELSE IF uintval(sx) = uintval(sy) THEN zero(FALSE)
      ELSE IF close THEN (IF d = 0 THEN zero(FALSE) ELSE make_value(d, sy.exp - 1))
      ELSE IF sx.exp = 0 THEN [zero(FALSE) EXCEPT !.mant = uintval(sx) % uintval(sy)]
      ELSE IF m_x = 0 THEN zero(FALSE)
      ELSE IF diff = 0 THEN make_value(m_x, e_y + right)
      ELSE make_value(DivisionHelper(helper, diff, lead + tail, m_x, y), e_y + right)

fmod(x, y, helper) ==
  IF is_nan(x) \/ is_nan(y) \/ is_inf(x) \/ is_zero(y) THEN build_quiet_nan
  ELSE IF is_inf(y) THEN x
  ELSE [eval_internal([x EXCEPT !.sign = FALSE], [y EXCEPT !.sign = FALSE], helper)
          EXCEPT !.sign = x.sign]

(***************************************************************************)
(* remquo                                                                  *)
(***************************************************************************)
QUOTIENT_LSB_BITS == 3

\* The loop: <<exp, mx, q>> when it ends.
RECURSIVE RemquoLoop(_, _, _, _)
RemquoLoop(exp, mx, my, q) ==
  LET shift == CHOOSE s \in 0 .. MANTISSA_WIDTH + 1 :
                 mx * 2 ^ s >= my /\ (s = 0 \/ mx * 2 ^ (s - 1) < my)
      e == exp - shift
      bit == IF e < QUOTIENT_LSB_BITS THEN 2 ^ e ELSE 0
  IN  IF exp < 0 \/ mx = 0 \/ shift > exp THEN <<exp, mx, q>>
      ELSE RemquoLoop(e, mx * 2 ^ shift - my, my, q + bit)

\* <<remainder, quotient>> of |x| and |y| from the loop's end l: the remainder is the
\* nearer of two, and where they are as near the one of the even quotient.
RemquoEnd(l, rem, ny, y) ==
  LET c == cmp([rem EXCEPT !.exponent = @ + 1], ny)
  IN  IF c > 0 \/ (c = 0 /\ l[3] % 2 = 1)
      THEN <<Val(ToFloat(rem)) - Magnitude(y), l[3] + 1>> ELSE <<Val(ToFloat(rem)), l[3]>>

RemquoFinite(l, ny, x, y) ==
  LET Signed(v, negative) == IF negative THEN -v ELSE v
      Pair(end) == <<Native(Signed(end[1], x.sign), x.sign), Signed(end[2], x.sign # y.sign)>>
  IN  IF l[2] = 0 THEN <<zero(x.sign), Signed(l[3], x.sign # y.sign)>>
      ELSE Pair(RemquoEnd(l, NormalFloat(l[1] + ny.exponent, l[2], FALSE), ny, y))

RemquoNormal(nx, ny, x, y) ==
  RemquoFinite(RemquoLoop(nx.exponent - ny.exponent, nx.mantissa, ny.mantissa, 0), ny, x, y)

\* <<remainder, quotient>>; NaNs, infinite x and zero y have no quotient.
remquo(x, y) ==
  IF is_zero(x) THEN <<zero(x.sign), 0>>
  ELSE IF is_inf(y) THEN <<x, 0>>
  ELSE RemquoNormal(init_from_bits([x EXCEPT !.sign = FALSE]),
                    init_from_bits([y EXCEPT !.sign = FALSE]), x, y)

(***************************************************************************)
(* What they have to be, by integer arithmetic on the values.              *)
(***************************************************************************)
\* |x| rounded to an integer in the given mode; "AWAY" is round().
RoundedMagnitude(x, mode) ==
  LET whole == Magnitude(x) \div Unit
      rest == Magnitude(x) % Unit
      up == CASE mode = "DOWNWARD" -> x.sign /\ rest > 0
              [] mode = "UPWARD" -> ~x.sign /\ rest > 0
              [] mode = "TOWARDZERO" -> FALSE
              [] mode = "AWAY" -> 2 * rest >= Unit
              [] OTHER -> 2 * rest > Unit \/ (2 * rest = Unit /\ whole % 2 = 1)
  IN  IF up THEN whole + 1 ELSE whole

IsInteger(r, x, mode) == r.sign = x.sign /\ Magnitude(r) = RoundedMagnitude(x, mode) * Unit

\* trunc, floor, ceil, round and rint in every rounding mode give the integer the
\* mode asks for, with the sign of x even when it is zero; lround answers the
\* integer or, exactly when it does not fit, the nearest end of the type and an
\* error; modf splits x without loss.
RoundsToInteger(x) ==
  /\ IsInteger(trunc(x), x, "TOWARDZERO") /\ IsInteger(floor(x), x, "DOWNWARD")
  /\ IsInteger(ceil(x), x, "UPWARD") /\ IsInteger(round(x), x, "AWAY")
  /\ \A mode \in Modes : IsInteger(round_using_current_rounding_mode(x, mode), x, mode)
  /\ LET n == RoundedMagnitude(x, "AWAY")
         v == IF x.sign THEN -n ELSE n
     IN  rounded_float_to_signed_integer(round(x), 4) =
           IF v < -8 THEN <<-8, TRUE>> ELSE IF v > 7 THEN <<7, TRUE>> ELSE <<v, FALSE>>
  /\ LET m == modf(x)
     IN  /\ Val(m[1]) + Val(m[2]) = Val(x) /\ IsInteger(m[2], x, "TOWARDZERO")
         /\ m[1].sign = x.sign

\* v / 2^s rounded to nearest, ties to even.
ShiftedDown(v, s) ==
  LET q == v \div 2 ^ s
      r == 2 * (v % 2 ^ s)
  IN  IF r > 2 ^ s \/ (r = 2 ^ s /\ q % 2 = 1) THEN q + 1 ELSE q

\* ldexp is x * 2^exp correctly rounded, through the subnormals down to zero and up
\* to infinity; frexp takes x apart into a fraction in [1/2, 1) and a power of two.
ScalesExactly(x, exp) ==
  LET r == ldexp(x, exp)
      v == Magnitude(x)
      range == MAX_EXPONENT + MANTISSA_WIDTH
      f == frexp(x)
  IN  /\ r.sign = x.sign
      /\ IF exp >= 0
         THEN IF v # 0 /\ (exp > range \/ v > Largest \div 2 ^ exp) THEN is_inf(r)
              ELSE Magnitude(r) = v * 2 ^ (IF v = 0 THEN 0 ELSE exp)
         ELSE Magnitude(r) = ShiftedDown(v, IF exp < -range THEN range ELSE -exp)
      /\ v # 0 => /\ Magnitude(f[1]) \in Unit \div 2 .. Unit - 1
                  /\ IF f[2] >= 0 THEN Magnitude(f[1]) * 2 ^ f[2] = v
                     ELSE Magnitude(f[1]) = v * 2 ^ (-f[2])
                  /\ ilogb(x) = f[2] - 1

\* The square root of target in units, rounded to v, which lies between its neighbours.
IsNearestRoot(v, below, above, target, mode) ==
  CASE mode = "TONEAREST" -> (below + v) ^ 2 <= 4 * target /\ 4 * target <= (v + above) ^ 2
    [] mode = "UPWARD" -> below ^ 2 < target /\ target <= v ^ 2
    [] OTHER -> v ^ 2 <= target /\ target < above ^ 2

IsRootOf(y, x, mode) ==
  IF is_zero(x) THEN y = x
  ELSE IF x.sign THEN is_nan(y)
  ELSE IsNearestRoot(Magnitude(y), Magnitude(FromBits(uintval(y) - 1)),
                     Magnitude(FromBits(uintval(y) + 1)), Magnitude(x) * Unit, mode)

\* sqrt is correctly rounded in every mode: its square, the squares of its
\* neighbours and of the midpoints between them enclose x as the mode requires.
RootIsRounded(x, mode) == IsRootOf(sqrt(x, mode), x, mode)

\* What is left of a in divisions by b, to the quotient n; and the neighbour of x.
IsRemainder(m, x, y, a, b, n) ==
  LET rest == IF x.sign THEN n * b - a ELSE a - n * b
  IN  /\ Val(m[1]) = rest /\ (rest = 0 => m[1].sign = x.sign)
      /\ Abs(m[2]) % 8 = n % 8
      /\ m[2] # 0 => (m[2] < 0 <=> x.sign # y.sign)

IsNeighbour(next, x, y) ==
  IF Val(x) = Val(y) THEN next = y
  ELSE /\ IF Val(x) < Val(y) THEN Val(next) > Val(x) ELSE Val(next) < Val(x)
       /\ Abs(Val(next) - Val(x)) = 2 ^ (IF Lesser(x.exp, next.exp) = 0 THEN 0
                                        ELSE Lesser(x.exp, next.exp) - 1)

\* fmod and remquo are exact: fmod, with either division helper, leaves |x| modulo |y|
\* with the sign of x; remquo leaves x - n * y for the n nearest to x / y, ties to
\* even, and the sign and the last three bits of n; nextafter goes to the neighbour
\* of x on the side of y.
RemaindersAreExact(x, y) ==
  LET a == Magnitude(x)
      b == Magnitude(y)
      q == a \div b
      n == IF 2 * (a % b) > b \/ (2 * (a % b) = b /\ q % 2 = 1) THEN q + 1 ELSE q
      Leaves(r) == Magnitude(r) = a % b /\ r.sign = x.sign
  IN  /\ b # 0 => /\ \A helper \in Helpers : Leaves(fmod(x, y, helper))
                  /\ IsRemainder(remquo(x, y), x, y, a, b, n)
      /\ IsNeighbour(nextafter(x, y), x, y)
=============================================================================
