------------------------------ MODULE Decimal -------------------------------
(***************************************************************************)
(* HighPrecisionDecimal of src/__support/high_precision_decimal.h, the     *)
(* slow and exact path of strtod.  The decimal [digits, decimal_point,     *)
(* truncated] is 0.d1d2d3... * 10^decimal_point; digits past               *)
(* MAX_NUM_DIGITS (800 in the code) are dropped and noted in truncated.    *)
(***************************************************************************)
EXTENDS Integers, Sequences, SequencesExt

CONSTANT MAX_NUM_DIGITS

MAX_SHIFT_AMOUNT == 4

\* The rows of the table that shifts by at most MAX_SHIFT_AMOUNT use.
LEFT_SHIFT_DIGIT_TABLE ==
  <<[new_digits |-> 1, power_of_five |-> <<5>>],
    [new_digits |-> 1, power_of_five |-> <<2, 5>>],
    [new_digits |-> 1, power_of_five |-> <<1, 2, 5>>],
    [new_digits |-> 2, power_of_five |-> <<6, 2, 5>>]>>

should_round_up(h, roundToDigit) ==
  LET d == h.digits[roundToDigit + 1]
  IN  IF roundToDigit < 0 \/ roundToDigit >= Len(h.digits) THEN FALSE
      ELSE IF d = 5 /\ roundToDigit + 1 = Len(h.digits)
           THEN h.truncated \/ (roundToDigit > 0 /\ h.digits[roundToDigit] % 2 # 0)
           ELSE d >= 5

\* One digit fewer if the digits are less than those of the power of five.
get_num_new_digits(h, amount) ==
  LET row == LEFT_SHIFT_DIGIT_TABLE[amount]
      p == row.power_of_five
      differs == {k \in 1 .. Len(p) : k > Len(h.digits) \/ h.digits[k] # p[k]}
      k == CHOOSE i \in differs : \A j \in differs : i <= j
  IN  IF differs # {} /\ (k > Len(h.digits) \/ h.digits[k] < p[k])
      THEN row.new_digits - 1 ELSE row.new_digits

RECURSIVE trim_trailing_zeroes(_)
trim_trailing_zeroes(h) ==
  IF h.digits = <<>> THEN [h EXCEPT !.decimal_point = 0]
  ELSE IF Last(h.digits) = 0 THEN trim_trailing_zeroes([h EXCEPT !.digits = Front(@)])
  ELSE h

DigitAt(h, i) == IF i <= Len(h.digits) THEN h.digits[i] ELSE 0

\* Warm up: <<accumulator, digits read>>.
RECURSIVE WarmUp(_, _, _, _)
WarmUp(h, amount, accumulator, read) ==
  IF accumulator \div 2 ^ amount # 0 THEN <<accumulator, read>>
  ELSE WarmUp(h, amount, accumulator * 10 + DigitAt(h, read + 1), read + 1)

\* Middle and cool down: write the quotient's digits, the last ones only while
\* there is room; a digit that finds none sets truncated.
RECURSIVE WriteDown(_, _, _, _, _)
WriteDown(h, amount, accumulator, read, out) ==
  LET digit == accumulator \div 2 ^ amount
      rest == (accumulator % 2 ^ amount) * 10
      reading == read < Len(h.digits)
      room == Len(out) < MAX_NUM_DIGITS
      next == rest + (IF reading THEN h.digits[read + 1] ELSE 0)
  IN  IF ~reading /\ accumulator = 0 THEN [h EXCEPT !.digits = out]
      ELSE IF reading \/ room
           THEN WriteDown(h, amount, next, IF reading THEN read + 1 ELSE read, Append(out, digit))
           ELSE WriteDown([h EXCEPT !.truncated = @ \/ digit > 0], amount, next, read, out)

right_shift(h, amount) ==
  LET w == WarmUp(h, amount, 0, 0)
  IN  trim_trailing_zeroes(
        WriteDown([h EXCEPT !.decimal_point = @ - (w[2] - 1)], amount, w[1], w[2], <<>>))

\* The digits of h times 2^amount, written from the last one up.
RECURSIVE Multiplied(_, _, _, _)
Multiplied(digits, amount, accumulator, out) ==
  LET acc == IF digits = <<>> THEN accumulator ELSE accumulator + Last(digits) * 2 ^ amount
  IN  IF digits = <<>> /\ accumulator = 0 THEN out
      ELSE Multiplied(IF digits = <<>> THEN digits ELSE Front(digits), amount,
                      acc \div 10, <<acc % 10>> \o out)

\* The product ends where the table says; what it does not reach keeps the old
\* digit, what lies past MAX_NUM_DIGITS or before the front is lost.
Place(h, product, new_digits) ==
  LET total == Len(h.digits) + new_digits
      first == total - Len(product)
      lost == {k \in 1 .. Len(product) : first + k > MAX_NUM_DIGITS \/ first + k < 1}
      size == IF total > MAX_NUM_DIGITS THEN MAX_NUM_DIGITS ELSE total
  IN  trim_trailing_zeroes(
        [digits |-> [k \in 1 .. size |-> IF k > first THEN product[k - first] ELSE DigitAt(h, k)],
         decimal_point |-> h.decimal_point + new_digits,
         truncated |-> h.truncated \/ \E k \in lost : product[k] # 0])

left_shift(h, amount) ==
  Place(h, Multiplied(h.digits, amount, 0, <<>>), get_num_new_digits(h, amount))

RECURSIVE shift(_, _)
shift(h, amount) ==
  LET step == IF amount > MAX_SHIFT_AMOUNT THEN MAX_SHIFT_AMOUNT
              ELSE IF amount < -MAX_SHIFT_AMOUNT THEN -MAX_SHIFT_AMOUNT ELSE amount
  IN  IF amount = 0 THEN h
      ELSE shift(IF step > 0 THEN left_shift(h, step) ELSE right_shift(h, -step), amount - step)

\* The digits, blanked when none remain; what does not fit the type is ignored.
RECURSIVE RoundLoop(_, _, _)
RoundLoop(h, cur_digit, result) ==
  IF cur_digit >= h.decimal_point THEN result
  ELSE RoundLoop(h, cur_digit + 1, result * 10 + DigitAt(h, cur_digit + 1))

round_to_integer_type(h) ==
  RoundLoop(h, 0, 0) + (IF should_round_up(h, h.decimal_point) THEN 1 ELSE 0)

\* The constructor, for the digits before and after the point and an exponent
\* that strtointeger has read.
HighPrecisionDecimal(before, after, saw_dot, exponent) ==
  LET all == before \o after
      used == {k \in 1 .. Len(all) : \E j \in 1 .. k : all[j] # 0}
      digits == SelectSeq([k \in 1 .. Len(all) |-> IF k \in used THEN all[k] ELSE -1],
                          LAMBDA d : d >= 0)
      leading == Len(all) - Len(digits)
      inside == IF leading > Len(before) THEN leading - Len(before) ELSE 0
      total == IF leading > Len(before) THEN 0 ELSE Len(before) - leading
      kept == IF Len(digits) > MAX_NUM_DIGITS THEN MAX_NUM_DIGITS ELSE Len(digits)
  IN  trim_trailing_zeroes(
        [digits |-> SubSeq(digits, 1, kept),
         decimal_point |-> (IF saw_dot THEN total - inside ELSE Len(digits)) +
                           (IF exponent > 100000 THEN 100000
                            ELSE IF exponent < -100000 THEN -100000 ELSE exponent),
         truncated |-> \E k \in kept + 1 .. Len(digits) : digits[k] # 0])

(***************************************************************************)
(* What it has to be: the decimal, times the power of two, exactly.        *)
(***************************************************************************)
Whole(digits) == FoldLeft(LAMBDA v, d : v * 10 + d, 0, digits)

\* Compares n * 2^s * 10^e with the value of h: -1, 0 or 1.
Compared(n, s, e, h) ==
  LET f == h.decimal_point - Len(h.digits)
      low == IF e < f THEN e ELSE f
      left == n * 10 ^ (e - low) * (IF s > 0 THEN 2 ^ s ELSE 1)
      right == Whole(h.digits) * 10 ^ (f - low) * (IF s < 0 THEN 2 ^ (-s) ELSE 1)
  IN  IF left < right THEN -1 ELSE IF left = right THEN 0 ELSE 1

\* n * 2^s * 10^e rounded to an integer, half to even.
Rounded(n, s, e) ==
  LET top == n * (IF s > 0 THEN 2 ^ s ELSE 1) * (IF e > 0 THEN 10 ^ e ELSE 1)
      bottom == (IF s < 0 THEN 2 ^ (-s) ELSE 1) * (IF e < 0 THEN 10 ^ (-e) ELSE 1)
      q == top \div bottom
      r == 2 * (top % bottom)
  IN  IF r > bottom \/ (r = bottom /\ q % 2 = 1) THEN q + 1 ELSE q

\* The decimal read from a string and shifted is the number times the power of two,
\* digit for digit, and rounds to the nearest integer, as long as nothing was
\* truncated; a truncated decimal is less than the number, never more.
ExactDecimal(before, after, exponent, amount) ==
  LET n == Whole(before \o after)
      e == exponent - Len(after)
      read == HighPrecisionDecimal(before, after, after # <<>>, exponent)
      h == IF read.digits = <<>> THEN read ELSE shift(read, amount)
  IN  /\ IF h.truncated THEN Compared(n, amount, e, h) = 1
         ELSE /\ Compared(n, amount, e, h) = 0
              /\ round_to_integer_type(h) = Rounded(n, amount, e)
      /\ Len(h.digits) <= MAX_NUM_DIGITS
=============================================================================
