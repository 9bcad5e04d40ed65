----------------------------- MODULE StrToFloat -----------------------------
(***************************************************************************)
(* strtof, strtod and strtold: src/__support/str_to_float.h.  A string is  *)
(* a sequence of characters in lower case, as in module Numbers; positions *)
(* count from 0.                                                           *)
(*                                                                         *)
(* A decimal number becomes mantissa * 10^exp10, and three algorithms are  *)
(* tried in turn: exact arithmetic on floats (Clinger), a product with a   *)
(* rounded power of ten (Eisel and Lemire), and the exact decimals of      *)
(* module Decimal.  The first two may decline; each answer must be the     *)
(* nearest float.                                                          *)
(*                                                                         *)
(* The widths are those of a small format.  BITS is the size of the        *)
(* mantissa word (32, 64 or 128 in the code) and PowerBits that of a word  *)
(* of the table of powers (64); long double (Long) uses two of them.       *)
(***************************************************************************)
EXTENDS Numbers, Decimal, FPBits

CONSTANTS BITS, PowerBits, Long,
          MIN_EXP_10, MAX_EXP_10,               \* the range of the table
          UPPER_BOUND, LOWER_BOUND,             \* get_upper_bound, get_lower_bound
          EXACT_POWERS_OF_TEN, DIGITS_IN_MANTISSA

\* q extended by n bits of the quotient whose remainder is r, and what remains.
RECURSIVE LongDivision(_, _, _, _)
LongDivision(q, r, b, n) ==
  IF n = 0 THEN <<q, r>>
  ELSE IF 2 * r >= b THEN LongDivision(2 * q + 1, 2 * r - b, b, n - 1)
  ELSE LongDivision(2 * q, 2 * r, b, n - 1)

(***************************************************************************)
(* The arithmetic of the hardware: the float nearest to top / bottom, ties *)
(* to even.                                                                *)
(***************************************************************************)
\* top / bottom >= 2^p.
AtLeast(top, bottom, p) ==
  IF p >= 0 THEN top \div 2 ^ p >= bottom ELSE top >= (bottom + 2 ^ (-p) - 1) \div 2 ^ (-p)

\* <<top / (bottom * 2^s) rounded down, whether something was lost>>.
Quotient(top, bottom, s) ==
  IF s >= 0 THEN <<(top \div 2 ^ s) \div bottom, top % (bottom * 2 ^ s) # 0>>
  ELSE LET d == LongDivision(top \div bottom, top % bottom, bottom, -s) IN <<d[1], d[2] # 0>>

\* q is the quotient for the float with exponent k, with one bit to spare.
RoundQuotient(q, k) ==
  LET m == q[1] \div 2
      n == IF q[1] % 2 = 1 /\ (q[2] \/ m % 2 = 1) THEN m + 1 ELSE m
  IN  IF k = MAX_EXPONENT - 1 /\ n = 2 * ONE THEN inf(FALSE)
      ELSE [sign |-> FALSE, mant |-> n % ONE,
            exp |-> IF n = 2 * ONE THEN k + 1 ELSE IF n >= ONE THEN k ELSE 0]

NearestFrom(top, bottom, k) ==
  RoundQuotient(Quotient(top, bottom, k - EXPONENT_BIAS - MANTISSA_WIDTH - 1), k)

NearestFloat(top, bottom) ==
  LET Fits(k) == ~AtLeast(top, bottom, k - EXPONENT_BIAS + 1)
  IN  IF AtLeast(top, bottom, EXPONENT_BIAS + 1) THEN inf(FALSE)
      ELSE NearestFrom(top, bottom,
             CHOOSE e \in 1 .. MAX_EXPONENT : Fits(e) /\ \A d \in 1 .. e - 1 : ~Fits(d))

(***************************************************************************)
(* The three algorithms.  An answer is [ok, mant, exp, errno].             *)
(***************************************************************************)
Declined == [ok |-> FALSE]
Answer(m, e) == [ok |-> TRUE, mant |-> m, exp |-> e, errno |-> 0]
OutOfRange(m, e) == [ok |-> TRUE, mant |-> m, exp |-> e, errno |-> "ERANGE"]

Hardware(x) == Answer(x.mant, x.exp)

exp10_to_exp2(exp10) == (217706 * exp10) \div 65536

leading_zeroes(m) == CHOOSE n \in 0 .. BITS - 1 : m * 2 ^ n \in 2 ^ (BITS - 1) .. 2 ^ BITS - 1

\* 10^e as a fraction of 2 * PowerBits bits, <<low word, high word>>, rounded down.
DETAILED_POWERS_OF_TEN(e) ==
  LET t == IF e >= 0 THEN 10 ^ e ELSE 1
      b == IF e >= 0 THEN 1 ELSE 10 ^ (-e)
      p == exp10_to_exp2(e)
      t1 == IF p >= 0 THEN t ELSE t * 2 ^ (-p)
      b1 == IF p >= 0 THEN b * 2 ^ p ELSE b
      high == LongDivision(1, t1 - b1, b1, PowerBits - 1)
  IN  <<LongDivision(0, high[2], b1, PowerBits)[1], high[1]>>

High(n) == n \div 2 ^ PowerBits
Low(n) == n % 2 ^ PowerBits

\* The bits below the last two that are looked at.
HALFWAY == 2 ^ (BITS - MANTISSA_WIDTH - 3)

\* The end of both versions: normalize, round, check the range.
RoundApproximation(upper, lower, exp2) ==
  LET msb == upper \div 2 ^ (BITS - 1)
      final == upper \div 2 ^ (msb + BITS - (MANTISSA_WIDTH + 3))
      rounded == (final + (final % 2)) \div 2
      carry == rounded >= 2 * ONE
      e == exp2 - (1 - msb) + (IF carry THEN 1 ELSE 0)
  IN  IF lower = 0 /\ upper % HALFWAY = 0 /\ final % 4 = 1 THEN Declined
      ELSE IF e \notin 1 .. 2 ^ EXPONENT_WIDTH - 2 THEN Declined
      ELSE Answer(IF carry THEN rounded \div 2 ELSE rounded, e)

\* Mutant: the first product is used although its last bits are all ones.
ApproximateOnce(m, power) == [ok |-> TRUE, upper |-> High(m * power[2]), lower |-> Low(m * power[2])]

\* float and double: one word of the power, and the second one if the first product
\* is too near to a halfway case.
Approximate(m, power) ==
  LET first == m * power[2]
      low_bits == m * power[1]
      second == first + High(low_bits)
      Ones(a) == High(a) % HALFWAY = HALFWAY - 1
      Wraps(a) == Low(Low(a) + m) < m
  IN  IF ~(Ones(first) /\ Wraps(first)) THEN [ok |-> TRUE, upper |-> High(first), lower |-> Low(first)]
      ELSE IF Ones(second) /\ Low(Low(second) + 1) = 0 /\ Wraps(low_bits) THEN Declined
      ELSE [ok |-> TRUE, upper |-> High(second), lower |-> Low(second)]

\* long double: the product of two words by two.  Sums wrap at two words: that of
\* the middle products loses its carry.
ApproximateLong(m, power) ==
  LET Wrap(n) == n % 2 ^ (2 * PowerBits)
      middle == Wrap(High(m) * power[1] + Low(m) * power[2])
      bottom == Low(m) * power[1]
      lower == Wrap(bottom + Low(middle) * 2 ^ PowerBits)
      upper == Wrap(High(m) * power[2] + High(middle) + (IF lower < bottom THEN 1 ELSE 0))
  IN  IF upper % HALFWAY = HALFWAY - 1 /\ Wrap(lower + m) < m THEN Declined
      ELSE [ok |-> TRUE, upper |-> upper, lower |-> lower]

\* The sum of the middle products has no carry.
MiddleFits(mantissa, exp10) ==
  LET m == mantissa * 2 ^ leading_zeroes(mantissa)
      power == DETAILED_POWERS_OF_TEN(exp10)
  IN  High(m) * power[1] + Low(m) * power[2] < 2 ^ (2 * PowerBits)

eisel_lemire(mantissa, exp10) ==
  LET clz == leading_zeroes(mantissa)
      m == mantissa * 2 ^ clz
      power == DETAILED_POWERS_OF_TEN(exp10)
      exp2 == exp10_to_exp2(exp10) + BITS + EXPONENT_BIAS - clz
      a == IF Long THEN ApproximateLong(m, power) ELSE Approximate(m, power)
  IN  IF exp10 \notin MIN_EXP_10 .. MAX_EXP_10 \/ ~a.ok THEN Declined
      ELSE RoundApproximation(a.upper, a.lower, exp2)

\* Products and quotients of floats that are exact integers.
clinger_fast_path(mantissa, exp10) ==
  LET extra == exp10 - EXACT_POWERS_OF_TEN
      product == IF extra > 0 THEN mantissa * 10 ^ extra ELSE mantissa
      power == IF extra > 0 THEN EXACT_POWERS_OF_TEN ELSE exp10
      MAX_EXACT_INT == 2 * ONE - 1
  IN  IF \/ mantissa >= ONE
         \/ exp10 > EXACT_POWERS_OF_TEN + DIGITS_IN_MANTISSA
         \/ -exp10 > EXACT_POWERS_OF_TEN
         \/ exp10 > 0 /\ product > MAX_EXACT_INT
      THEN Declined
      ELSE Hardware(IF exp10 >= 0 THEN NearestFloat(product * 10 ^ power, 1)
                    ELSE NearestFloat(mantissa, 10 ^ (-exp10)))

\* The greatest power of two less than 10^n.
POWERS_OF_TWO(n) ==
  IF n >= 19 THEN 60
  ELSE <<0, 3, 6, 9, 13, 16, 19, 23, 26, 29, 33, 36, 39, 43, 46, 49, 53, 56, 59>>[n + 1]

\* <<decimal, exp2>>: shifted right until it is less than 1 ...
RECURSIVE BelowOne(_, _)
BelowOne(h, exp2) ==
  LET amount == POWERS_OF_TWO(h.decimal_point)
  IN  IF h.decimal_point <= 0 THEN <<h, exp2>> ELSE BelowOne(shift(h, -amount), exp2 + amount)

\* ... and left until it is at least 1/2.
RECURSIVE AboveHalf(_, _)
AboveHalf(h, exp2) ==
  LET amount == IF h.decimal_point = 0 THEN 1 ELSE POWERS_OF_TWO(-h.decimal_point)
  IN  IF h.decimal_point > 0 \/ (h.decimal_point = 0 /\ h.digits[1] >= 5) THEN <<h, exp2>>
      ELSE AboveHalf(shift(h, amount), exp2 - amount)

\* The mantissa of a subnormal: shifted right up to exponent 0, and once more.
RECURSIVE Denormalize(_, _)
Denormalize(h, exp2) ==
  IF h.digits # <<>> /\ exp2 < 0 THEN Denormalize(shift(h, -1), exp2 + 1) ELSE shift(h, -1)

\* The rounded mantissa m, with the exponent e or one more.
FinishDecimal(m, e) ==
  IF m = 2 * ONE
  THEN IF e + 1 >= MAX_EXPONENT THEN OutOfRange(ONE, e + 1) ELSE Answer(ONE, e + 1)
  ELSE IF e = 0 THEN OutOfRange(m, 0) ELSE Answer(m, e)

RoundSubnormal(m) == FinishDecimal(m, IF m >= ONE THEN 1 ELSE 0)

\* half is a decimal from 1/2 to 1; exp2 is the biased exponent.
FillMantissa(half, exp2) ==
  IF exp2 >= MAX_EXPONENT THEN OutOfRange(0, MAX_EXPONENT)
  ELSE IF exp2 > 0
       THEN FinishDecimal(round_to_integer_type(shift(shift(half, 1), MANTISSA_WIDTH)), exp2)
       ELSE RoundSubnormal(round_to_integer_type(
              Denormalize(shift(shift(half, 1), MANTISSA_WIDTH), exp2)))

FromHalf(half) == FillMantissa(half[1], half[2] - 1 + EXPONENT_BIAS)
FromBelowOne(low) == FromHalf(AboveHalf(low[1], low[2]))

simple_decimal_conversion(hpd) ==
  IF hpd.digits = <<>> THEN Answer(0, 0)
  ELSE IF hpd.decimal_point > 0 /\ exp10_to_exp2(hpd.decimal_point - 1) > EXPONENT_BIAS
       THEN OutOfRange(0, MAX_EXPONENT)
  ELSE IF hpd.decimal_point < 0 /\ exp10_to_exp2(-hpd.decimal_point) > EXPONENT_BIAS + MANTISSA_WIDTH
       THEN OutOfRange(0, 0)
  ELSE FromBelowOne(BelowOne(hpd, 0))

\* A mantissa that was cut off must give the same float as the next one up.
FirstThatAnswers(mantissa, exp10, truncated, hpd, fast, first) ==
  IF ~truncated /\ fast.ok THEN fast
  ELSE IF first.ok /\ (~truncated \/ eisel_lemire(mantissa + 1, exp10) = first) THEN first
  ELSE simple_decimal_conversion(hpd)

decimal_exp_to_float(mantissa, exp10, truncated, hpd) ==
  IF exp10 > UPPER_BOUND THEN OutOfRange(0, MAX_EXPONENT)
  ELSE IF exp10 < LOWER_BOUND THEN OutOfRange(0, 0)
  ELSE FirstThatAnswers(mantissa, exp10, truncated, hpd, clinger_fast_path(mantissa, exp10),
                        eisel_lemire(mantissa, exp10))

\* A hexadecimal number is mantissa * 2^exp2: shift and round, ties to even.
binary_exp_to_float(mantissa, exp2, truncated) ==
  LET clz == leading_zeroes(mantissa)
      m == mantissa * 2 ^ clz
      biased == exp2 - clz + BITS + EXPONENT_BIAS - 1
      right == BITS - MANTISSA_WIDTH - 1 + (IF biased <= 0 THEN 1 - biased ELSE 0)
      round_bit == (m \div 2 ^ (right - 1)) % 2 = 1
      sticky_bit == m % 2 ^ (right - 1) # 0 \/ truncated
      shifted == IF right < BITS THEN (m \div 2 ^ right) % ONE ELSE 0
      rounded == IF round_bit /\ (shifted % 2 = 1 \/ sticky_bit) THEN shifted + 1 ELSE shifted
      e == (IF biased <= 0 THEN 0 ELSE biased) + (IF rounded = ONE THEN 1 ELSE 0)
  IN  IF biased >= MAX_EXPONENT THEN OutOfRange(0, MAX_EXPONENT)
      ELSE IF right > BITS THEN OutOfRange(0, 0)
      ELSE IF e \in {0, MAX_EXPONENT} THEN OutOfRange(rounded % ONE, e)
      ELSE Answer(rounded % ONE, e)

(***************************************************************************)
(* The text                                                                *)
(***************************************************************************)
\* int32_t without its last two values, with which TLC could not calculate.
INT32_MAX == 2147483646
INT32_MIN == -INT32_MAX - 1

isdigit(c) == isalnum(c) /\ b36_char_to_int(c) < 10
IsDigitOf(c, base) == isalnum(c) /\ b36_char_to_int(c) < base

From(src, i) == SubSeq(src, i + 1, Len(src))

is_float_hex_start(src, i) ==
  LET d == IF At(src, i + 2) = "." THEN i + 3 ELSE i + 2
  IN  At(src, i) = "0" /\ At(src, i + 1) = "x" /\ IsDigitOf(At(src, d), 16)

\* The loop over the digits: the mantissa takes as many as it can hold; those that
\* follow count in the exponent and are remembered if they are not zero.
RECURSIVE ReadMantissa(_, _, _)
ReadMantissa(src, base, r) ==
  LET c == At(src, r.end)
      fits == r.mantissa < (2 ^ BITS - 1) \div base
  IN  IF IsDigitOf(c, base)
      THEN LET d == b36_char_to_int(c)
           IN  ReadMantissa(src, base,
                 [r EXCEPT !.end = @ + 1, !.seen_digit = TRUE,
                           !.mantissa = IF fits THEN @ * base + d ELSE @,
                           !.truncated = @ \/ (~fits /\ d > 0),
                           !.exponent = IF fits THEN (IF r.after_decimal THEN @ - 1 ELSE @)
                                        ELSE IF r.after_decimal THEN @ ELSE @ + 1])
      ELSE IF c = "." /\ ~r.after_decimal
           THEN ReadMantissa(src, base, [r EXCEPT !.end = @ + 1, !.after_decimal = TRUE])
      ELSE r

Mantissa(src, i, base) ==
  ReadMantissa(src, base, [end |-> i, seen_digit |-> FALSE, after_decimal |-> FALSE,
                           mantissa |-> 0, exponent |-> 0, truncated |-> FALSE])

Clamp(n) == IF n > 100000 THEN 100000 ELSE IF n < -100000 THEN -100000 ELSE n

\* <<end, exponent>>.
ReadExponent(src, i, marker) ==
  LET r == strtointeger(From(src, i + 1), 10, INT32_MIN, INT32_MAX)
  IN  IF At(src, i) = marker /\ (At(src, i + 1) \in {"+", "-"} \/ isdigit(At(src, i + 1)))
      THEN <<i + 1 + r.len, Clamp(r.value)>> ELSE <<i, 0>>

\* The digits that the constructor of HighPrecisionDecimal finds in the same text.
FromChars(chars) == [k \in 1 .. Len(chars) |-> b36_char_to_int(chars[k])]
DigitsOf(src, first, end) == FromChars(SelectSeq(SubSeq(src, first + 1, end), isdigit))

ReadDecimal(src, i, end, exponent) ==
  LET dots == {k \in i .. end - 1 : At(src, k) = "."}
      dot == IF dots = {} THEN end ELSE CHOOSE k \in dots : TRUE
  IN  HighPrecisionDecimal(DigitsOf(src, i, dot), DigitsOf(src, dot, end), dots # {}, exponent)

\* A number that was not there is [ok |-> FALSE].
Ending(a, end) == [ok |-> TRUE, mant |-> a.mant, exp |-> a.exp, errno |-> a.errno, end |-> end]

DecimalFloat(src, i, r, x) ==
  IF ~r.seen_digit THEN Declined
  ELSE Ending(IF r.mantissa = 0 THEN Answer(0, 0)
              ELSE decimal_exp_to_float(r.mantissa, r.exponent + x[2], r.truncated,
                                        ReadDecimal(src, i, r.end, x[2])), x[1])

HexadecimalFloat(r, x) ==
  IF ~r.seen_digit THEN Declined
  ELSE Ending(IF r.mantissa = 0 THEN Answer(0, 0)
              ELSE binary_exp_to_float(r.mantissa, r.exponent * 4 + x[2], r.truncated), x[1])

decimal_string_to_float(src, i) ==
  LET r == Mantissa(src, i, 10) IN DecimalFloat(src, i, r, ReadExponent(src, r.end, "e"))

hexadecimal_string_to_float(src, i) ==
  LET r == Mantissa(src, i, 16) IN HexadecimalFloat(r, ReadExponent(src, r.end, "p"))

StartsWith(src, i, word) == \A k \in 1 .. Len(word) : At(src, i + k - 1) = word[k]

RECURSIVE SkipAlnum(_, _)
SkipAlnum(src, i) == IF isalnum(At(src, i)) THEN SkipAlnum(src, i + 1) ELSE i

\* nan, and what may stand in parentheses behind it: <<mantissa, end>>.
ReadNan(src, i) ==
  LET close == SkipAlnum(src, i + 4)
      enclosed == At(src, i + 3) = "(" /\ At(src, close) = ")"
      r == strtointeger(From(src, i + 4), 0, 0, INT32_MAX)
      payload == IF enclosed /\ isdigit(At(src, i + 4)) /\ At(src, i + 4 + r.len) = ")"
                 THEN r.value % ONE ELSE 0
      QUIET_NAN_MASK == ONE \div 2
  IN  <<IF payload >= QUIET_NAN_MASK THEN payload ELSE payload + QUIET_NAN_MASK,
        IF enclosed THEN close + 1 ELSE i + 3>>

\* What strtod returns, where strEnd points and what errno is set to.
Parsed(sign, e, m, end, errno) ==
  [value |-> [sign |-> sign, exp |-> e, mant |-> m], end |-> end, errno |-> errno]

NothingParsed == [value |-> zero(FALSE), end |-> 0, errno |-> 0]

ParsedNumber(sign, a) ==
  IF a.ok THEN Parsed(sign, a.exp, a.mant % ONE, a.end, a.errno) ELSE NothingParsed

\* i is the position behind the sign.
ParseFrom(src, sign, i) ==
  IF isdigit(At(src, i)) \/ At(src, i) = "."
  THEN ParsedNumber(sign, IF is_float_hex_start(src, i) THEN hexadecimal_string_to_float(src, i + 2)
                          ELSE decimal_string_to_float(src, i))
  ELSE IF StartsWith(src, i, <<"n", "a", "n">>)
  THEN LET r == ReadNan(src, i) IN Parsed(sign, MAX_EXPONENT, r[1], r[2], 0)
  ELSE IF StartsWith(src, i, <<"i", "n", "f">>)
  THEN Parsed(sign, MAX_EXPONENT, 0,
              IF StartsWith(src, i, <<"i", "n", "f", "i", "n", "i", "t", "y">>) THEN i + 8 ELSE i + 3, 0)
  ELSE NothingParsed

strtofloatingpoint(src) ==
  LET s == first_non_whitespace(src, 0)
  IN  ParseFrom(src, At(src, s) = "-", IF At(src, s) \in {"+", "-"} THEN s + 1 ELSE s)

(***************************************************************************)
(* What it has to be                                                       *)
(***************************************************************************)
Chars(digits) == [k \in 1 .. Len(digits) |-> Digits[digits[k] + 1]]

DecimalDigits(number) == FromChars(convert_uintmax(number, 10))

\* The text of a number, before its exponent, with the point after the first n digits.
Pointed(digits, n) ==
  IF n = Len(digits) THEN Chars(digits)
  ELSE Chars(SubSeq(digits, 1, n)) \o <<".">> \o Chars(SubSeq(digits, n + 1, Len(digits)))

\* A number that is not 0 is read as f: where the text ends, and ERANGE when it is too
\* large or below the normal floats.
IsRead(r, sign, f, end) ==
  /\ r.value = [f EXCEPT !.sign = sign]
  /\ r.end = end
  /\ r.errno = (IF is_inf(f) \/ f.exp = 0 THEN "ERANGE" ELSE 0)

ReadsText(text, tail, sign, f) ==
  IsRead(strtofloatingpoint((IF sign THEN <<" ", "-">> ELSE <<>>) \o text \o tail), sign, f,
         IF sign THEN Len(text) + 2 ELSE Len(text))

\* digits * 10^exp10, wherever the point is and whatever follows the number, is read
\* as f; the point decides which exponent is written.
ReadsDecimal(digits, n, exp10, tail, sign, f) ==
  LET e == exp10 + Len(digits) - n
  IN  ReadsText(Pointed(digits, n) \o (IF e = 0 THEN <<>> ELSE <<"e">> \o convert_intmax(e, 10)),
                tail, sign, f)

\* number * 10^exp10 is read as the nearest float, and in the other sign.
ReadsNearest(number, exp10) ==
  ReadsDecimal(DecimalDigits(number), 1, exp10, <<"e">>, number % 2 = 0,
               NearestFloat(number * (IF exp10 > 0 THEN 10 ^ exp10 ELSE 1),
                            IF exp10 < 0 THEN 10 ^ (-exp10) ELSE 1))

\* The number, and numbers that differ from it far behind, with the point anywhere.
ReadsAround(number, exp10, top, bottom) ==
  LET digits == DecimalDigits(number)
  IN  \A n \in {0, 1, Len(digits)} :
        /\ ReadsDecimal(digits, n, exp10, <<"x">>, FALSE, NearestFloat(top, bottom))
        /\ ReadsDecimal(digits \o <<0, 1>>, n, exp10 - 2, <<".", "1">>, TRUE,
                        NearestFloat(8 * top + 1, 8 * bottom))
        /\ ReadsDecimal(DecimalDigits(number - 1) \o <<9>>, n, exp10 - 1, <<"e">>, FALSE,
                        NearestFloat(8 * top - 1, 8 * bottom))

\* half * 2^exp2 lies halfway between two floats if half is odd and has one bit more
\* than a mantissa, or belongs to a subnormal: it is rounded to even, and a number
\* that differs from it however little is not.
ReadsHalfway(half, exp2) ==
  LET scale == IF exp2 > 0 THEN 2 ^ exp2 ELSE 1
  IN  ReadsAround(half * (IF exp2 > 0 THEN scale ELSE 5 ^ (-exp2)), IF exp2 > 0 THEN 0 ELSE exp2,
                  half * scale, IF exp2 > 0 THEN 1 ELSE 2 ^ (-exp2))

\* A hexadecimal number, digits * 2^exp2, is read as the nearest float.
ReadsHexadecimal(digits, n, exp2, tail) ==
  LET e == exp2 + 4 * (Len(digits) - n)
      value == FoldLeft(LAMBDA v, d : v * 16 + d, 0, digits)
  IN  ReadsText(<<"0", "x">> \o Pointed(digits, n)
                \o (IF e = 0 THEN <<>> ELSE <<"p">> \o convert_intmax(e, 10)), tail, FALSE,
                NearestFloat(value * (IF exp2 > 0 THEN 2 ^ exp2 ELSE 1),
                             IF exp2 < 0 THEN 2 ^ (-exp2) ELSE 1))

nan(payload) == [sign |-> FALSE, exp |-> MAX_EXPONENT, mant |-> (ONE \div 2) + payload]

\* What is no number of digits, with how much of it is read: zeros, inf and nan in
\* their forms, and what only begins like a number.
Words == {
  <<<<"0">>, zero(FALSE), 1>>, <<<<"-", "0", ".", "0", "e", "9">>, zero(TRUE), 6>>,
  <<<<"i", "n", "f", "i", "n", "i", "t", "y">>, inf(FALSE), 8>>,
  <<<<"-", "i", "n", "f", "i", "n">>, inf(TRUE), 4>>, <<<<"n", "a", "n", "(", "z", ")">>, nan(0), 6>>,
  <<<<"n", "a", "n", "(", "0", "x", "3", ")">>, nan(3), 8>>, <<<<"n", "a", "n", "(", "1", " ">>, nan(0), 3>>,
  <<<<"n", "a", "n", "(", "1", "z", ")">>, nan(0), 7>>, <<<<" ", "0", "x">>, zero(FALSE), 2>>,
  <<<<"0", "x", ".", "p", "1">>, zero(FALSE), 1>>, <<<<" ", ".", "e", "1">>, zero(FALSE), 0>>,
  <<<<"-">>, zero(FALSE), 0>>, <<<<"i", "n">>, zero(FALSE), 0>>, <<<<>>, zero(FALSE), 0>>}

ReadsWords ==
  \A w \in Words : strtofloatingpoint(w[1]) = [value |-> w[2], end |-> w[3], errno |-> 0]
=============================================================================
