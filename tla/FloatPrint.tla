----------------------------- MODULE FloatPrint -----------------------------
(***************************************************************************)
(* printf of floats: %a (float_hex_converter.h), %f with its buffering of  *)
(* blocks (float_dec_converter.h), inf and nan, all of                     *)
(* src/stdio/printf_core, and FloatToString of                             *)
(* src/__support/float_to_string.h, which yields the blocks.               *)
(*                                                                         *)
(* FloatToString multiplies by entries of tables; here a block is what its *)
(* comments say it is, computed by long division.  The tables' own shape   *)
(* (MIN_BLOCK_2, POW10_OFFSET_2) is the formula that yields every entry.   *)
(***************************************************************************)
EXTENDS Writer, FPBits

CONSTANTS BLOCK_SIZE,      \* decimal digits of a block
          GROUP,           \* exponents that share a part of the tables
          SIZE_T           \* size_t is modulo this

MAX_BLOCK == 10 ^ BLOCK_SIZE - 1

Modes == {"TONEAREST", "DOWNWARD", "UPWARD", "TOWARDZERO"}

convert_inf_nan(s) ==
  LET sign == SignChar(s.val.sign, s.flags)
      name == IF get_explicit_mantissa(s.val) = 0 THEN <<"i", "n", "f">> ELSE <<"n", "a", "n">>
  IN  Padded(s, Str(sign \o name))

\* The exponent of the explicit mantissa's ONE bit.
Exponent(x) ==
  IF x.exp > 0 THEN get_exponent(x) ELSE IF x.mant > 0 THEN 1 - EXPONENT_BIAS ELSE 0

(***************************************************************************)
(* %a                                                                      *)
(***************************************************************************)
EXP_LEN == ((EXPONENT_WIDTH * 5 + 15) \div 16) + 1

\* The mantissa without its last shift bits.
RoundHex(mantissa, shift, negative, mode) ==
  LET truncated == mantissa % 2 ^ shift
      half == 2 ^ (shift - 1)
      m == mantissa \div 2 ^ shift
  IN  CASE mode = "TONEAREST" -> IF truncated > half THEN m + 1
                                 ELSE IF truncated = half THEN m + (m % 2) ELSE m
        [] mode = "DOWNWARD" -> IF truncated > 0 /\ negative THEN m + 1 ELSE m
        [] mode = "UPWARD" -> IF truncated > 0 /\ ~negative THEN m + 1 ELSE m
        [] OTHER -> m

\* mant_len digits of the mantissa, the leading ones 0 if need be.
HexDigits(mantissa, mant_len) ==
  [k \in 1 .. mant_len |-> Digits[((mantissa \div 16 ^ (mant_len - k)) % 16) + 1]]

\* The pieces in their field: exp is the exponent's text, mant_digits of the buffer
\* are written.
WriteHex(s, sign, buffer, mant_digits, exp) ==
  LET trailing_zeroes == Max({0, s.precision - (mant_digits - 1)})
      point == IF mant_digits > 1 \/ "#" \in s.flags THEN <<".">> ELSE <<>>
      padding == s.min_width - Len(sign) - 2 - mant_digits - Len(point) - 1 - Len(exp)
      zeroes == "0" \in s.flags /\ ~Left(s)
  IN  (IF zeroes \/ Left(s) THEN <<>> ELSE Some(" ", padding))
      \o <<Str(sign \o <<"0", "x">>)>>
      \o (IF zeroes THEN Some("0", padding) ELSE <<>>)
      \o <<Str(<<buffer[1]>> \o point \o SubSeq(buffer, 2, mant_digits))>>
      \o Some("0", trailing_zeroes) \o <<Char("p"), Str(exp)>>
      \o (IF Left(s) THEN Some(" ", padding) ELSE <<>>)

HexExponent(exponent) ==
  <<IF exponent < 0 THEN "-" ELSE "+">> \o convert_uintmax(Abs(exponent), 10)

FirstNonZero(buffer) == Max({1} \cup {k \in 1 .. Len(buffer) : buffer[k] # "0"})

WriteHexDigits(s, buffer, exponent) ==
  WriteHex(s, SignChar(s.val.sign, s.flags), buffer,
           IF s.precision >= 0 THEN Len(buffer) ELSE FirstNonZero(buffer), HexExponent(exponent))

convert_float_hex_exp(s, mode) ==
  LET x == s.val
      full_len == (MANTISSA_WIDTH \div 4) + 1
      cut == s.precision + 1 < full_len /\ s.precision + 1 > 0
      mant_len == IF cut THEN s.precision + 1 ELSE full_len
      rounded == IF cut THEN RoundHex(get_explicit_mantissa(x), (full_len - mant_len) * 4, x.sign, mode)
                 ELSE get_explicit_mantissa(x)
      overflow == cut /\ rounded >= 16 ^ mant_len
  IN  IF is_inf_or_nan(x) THEN convert_inf_nan(s)
      ELSE WriteHexDigits(s, HexDigits(IF overflow THEN rounded \div 16 ELSE rounded, mant_len),
                          Exponent(x) - (MANTISSA_WIDTH % 4) + (IF overflow THEN 4 ELSE 0))

(***************************************************************************)
(* FloatToString: the value is mantissa * 2^fts_exponent.                  *)
(***************************************************************************)
fts_exponent(x) == Exponent(x) - MANTISSA_WIDTH

log10_pow2(e) == (e * 78913) \div 2 ^ 18
ceil_log10_pow2(e) == log10_pow2(e) + 1
length_for_num(idx) ==
  (ceil_log10_pow2(GROUP * idx) + ceil_log10_pow2(MANTISSA_WIDTH) + BLOCK_SIZE - 1) \div BLOCK_SIZE

PositiveIdx(x) == IF fts_exponent(x) < 0 THEN 0 ELSE (fts_exponent(x) + GROUP - 1) \div GROUP

get_positive_blocks(x) ==
  IF fts_exponent(x) >= -MANTISSA_WIDTH THEN length_for_num(PositiveIdx(x)) ELSE 0

get_positive_block(x, i) ==
  LET m == get_explicit_mantissa(x)
      e == fts_exponent(x)
      whole == IF e >= 0 THEN m * 2 ^ e ELSE m \div 2 ^ (-e)
  IN  IF e >= -MANTISSA_WIDTH THEN (whole \div 10 ^ (BLOCK_SIZE * i)) % 10 ^ BLOCK_SIZE ELSE 0

NegativeIdx(x) == (-fts_exponent(x)) \div GROUP

MIN_BLOCK_2(idx) ==
  Max({n \in 0 .. (GROUP * idx) \div (3 * BLOCK_SIZE) :
         n = 0 \/ 2 ^ (MANTISSA_WIDTH + 2) * 10 ^ (BLOCK_SIZE * n) < 2 ^ (GROUP * idx)})

\* The number of the first block whose digits the tables no longer hold.
TableEnd(idx) == ((GROUP * idx + GROUP - 1) \div BLOCK_SIZE) + 1

\* What is left of the fraction, in units of 2^fts_exponent, after k digits.
RECURSIVE Remaining(_, _)
Remaining(x, k) ==
  LET scale == 2 ^ (-fts_exponent(x))
  IN  IF k = 0 THEN get_explicit_mantissa(x) % scale ELSE (Remaining(x, k - 1) * 10) % scale

\* The n digits of the fraction after the first k, as an integer.
RECURSIVE FractionDigits(_, _, _)
FractionDigits(x, k, n) ==
  IF n = 0 THEN 0
  ELSE FractionDigits(x, k, n - 1) * 10
       + ((Remaining(x, k + n - 1) * 10) \div 2 ^ (-fts_exponent(x)))

get_negative_block(x, i) ==
  IF fts_exponent(x) >= 0 \/ i < MIN_BLOCK_2(NegativeIdx(x)) \/ i >= TableEnd(NegativeIdx(x))
  THEN 0 ELSE FractionDigits(x, BLOCK_SIZE * i, BLOCK_SIZE)

is_lowest_block(x, i) == i >= TableEnd(NegativeIdx(x))

zero_blocks_after_point(x) == MIN_BLOCK_2(NegativeIdx(x))

(***************************************************************************)
(* PaddingWriter                                                           *)
(***************************************************************************)
write_left_padding(s, sign, total_digits) ==
  LET amount == s.min_width - total_digits - Len(sign)
  IN  IF Left(s) \/ amount < 0 THEN <<Str(sign)>>
      ELSE IF "0" \in s.flags THEN <<Str(sign), Chars("0", amount)>>
      ELSE <<Chars(" ", amount), Str(sign)>>

write_right_padding(s, sign, total_digits) ==
  IF Left(s) THEN Some(" ", s.min_width - total_digits - Len(sign)) ELSE <<>>

(***************************************************************************)
(* FloatWriter: the last block that is not all nines is in buffer, the     *)
(* blocks of nines after it are counted.  out is what has been written.    *)
(***************************************************************************)
FloatWriter(s, sign, point) ==
  [s |-> s, sign |-> sign, has_decimal_point |-> point, buffer |-> <<>>, has_written |-> FALSE,
   max_block_count |-> 0, total_digits |-> 0, digits_before_decimal |-> 0,
   total_digits_written |-> 0, out |-> <<>>]

flush_buffer(w) ==
  LET left == IF w.has_written THEN <<>> ELSE write_left_padding(w.s, w.sign, w.total_digits)
      written == w.total_digits_written + Len(w.buffer)
      nines == BLOCK_SIZE * w.max_block_count
      to_write == w.digits_before_decimal - written
      crosses == w.has_decimal_point /\ to_write >= 0 /\ to_write <= nines
      tail == IF crosses
              THEN Some("9", to_write) \o <<Char(".")>> \o Some("9", (to_write - nines) % SIZE_T)
              ELSE Some("9", nines)
  IN  [w EXCEPT !.out = @ \o left \o <<Str(w.buffer)>> \o tail, !.has_written = TRUE,
                !.buffer = <<>>, !.max_block_count = 0,
                !.total_digits_written = written + nines + (IF crosses THEN 1 ELSE 0)]

\* init and write_first_block, with blocks of digits to come before the point.
write_first_block(w, block, blocks, precision) ==
  LET digits == convert_uintmax(block, 10)
      before == blocks * BLOCK_SIZE + Len(digits)
  IN  [w EXCEPT !.buffer = digits, !.digits_before_decimal = before,
                !.total_digits = before + (IF w.has_decimal_point THEN 1 ELSE 0) + precision]

BlockDigits(block) == Tail(convert_uintmax(block + MAX_BLOCK + 1, 10))

write_middle_block(w, block) ==
  IF block = MAX_BLOCK THEN [w EXCEPT !.max_block_count = @ + 1]
  ELSE [flush_buffer(w) EXCEPT !.buffer = BlockDigits(block)]

\* Mutant: a nine becomes a zero and the carry is dropped.
AddOneDropsCarry(digits) ==
  IF digits = <<>> THEN <<digits, TRUE>>
  ELSE IF Last(digits) # "9"
       THEN <<Append(Front(digits), Digits[b36_char_to_int(Last(digits)) + 2]), FALSE>>
       ELSE <<Append(Front(digits), "0"), FALSE>>

\* One more in the last place: <<the digits, the carry>>.
RECURSIVE AddOne(_)
AddOne(digits) ==
  IF digits = <<>> THEN <<digits, TRUE>>
  ELSE IF Last(digits) # "9"
       THEN <<Append(Front(digits), Digits[b36_char_to_int(Last(digits)) + 2]), FALSE>>
       ELSE LET r == AddOne(Front(digits)) IN <<Append(r[1], "0"), r[2]>>

write_last_block_dec(w, block, block_digits, round) ==
  LET end == SubSeq(BlockDigits(block), BLOCK_SIZE - block_digits + 1, BLOCK_SIZE)
      low_digit == IF block_digits > 0 THEN Last(end)
                   ELSE IF w.max_block_count > 0 THEN "9" ELSE Last(w.buffer)
      up == round = "Up" \/ (round = "Even" /\ low_digit \in {"1", "3", "5", "7", "9"})
      e == IF up THEN AddOne(end) ELSE <<end, FALSE>>
      b == IF e[2] THEN AddOne(w.buffer) ELSE <<w.buffer, FALSE>>
      total == w.total_digits + 1
      before == w.digits_before_decimal + 1
      flushed == flush_buffer([w EXCEPT !.buffer = b[1]])
  IN  IF ~b[2] THEN [flushed EXCEPT !.out = @ \o <<Str(e[1])>>, !.total_digits_written = @ + block_digits]
      ELSE [w EXCEPT !.total_digits = total, !.digits_before_decimal = before,
                     !.total_digits_written = total,
                     !.out = @ \o write_left_padding(w.s, w.sign, total)
                             \o <<Char("1"), Chars("0", before - 1)>>
                             \o (IF w.has_decimal_point
                                 THEN <<Char(".")>> \o Some("0", total - (before + 1)) ELSE <<>>)]

write_zeroes(w, n) == [flush_buffer(w) EXCEPT !.out = @ \o <<Chars("0", n)>>]

(***************************************************************************)
(* %f                                                                      *)
(***************************************************************************)
\* The blocks i, i - 1, ... 0 before the point; the writer is empty until the first
\* that is not zero.
RECURSIVE BeforePoint(_, _, _, _)
BeforePoint(x, w, precision, i) ==
  LET digits == get_positive_block(x, i)
      v == IF w.buffer # <<>> THEN write_middle_block(w, digits)
           ELSE IF digits # 0 THEN write_first_block(w, digits, i, precision) ELSE w
  IN  IF i < 0 THEN (IF w.buffer = <<>> THEN write_first_block(w, 0, 0, precision) ELSE w)
      ELSE BeforePoint(x, v, precision, i - 1)

RoundDirection(x, precision, last_digit, mode) ==
  LET required_twos == -get_exponent(x) - MANTISSA_WIDTH - precision - 1
      trailing_zeros == \/ required_twos <= 0
                        \/ required_twos < 60 /\ get_explicit_mantissa(x) % 2 ^ required_twos = 0
  IN  CASE mode = "TONEAREST" -> IF last_digit > 5 THEN "Up" ELSE IF last_digit < 5 THEN "Down"
                                 ELSE IF trailing_zeros THEN "Even" ELSE "Up"
        [] mode = "DOWNWARD" -> IF x.sign /\ (~trailing_zeros \/ last_digit > 0) THEN "Up" ELSE "Down"
        [] mode = "UPWARD" -> IF x.sign THEN "Down" ELSE "Up"
        [] OTHER -> "Down"

\* The blocks i, i + 1, ... blocks - 1 after the point.
RECURSIVE AfterPoint(_, _, _, _, _)
AfterPoint(x, w, precision, i, mode) ==
  LET blocks == (precision \div BLOCK_SIZE) + 1
      digits == get_negative_block(x, i)
      maximum == precision - BLOCK_SIZE * i
      dropped == BLOCK_SIZE - maximum
      last_digit == (digits \div 10 ^ (dropped - 1)) % 10
  IN  IF i >= blocks THEN w
      ELSE IF is_lowest_block(x, i) THEN write_zeroes(w, maximum)
      ELSE IF i < blocks - 1 THEN AfterPoint(x, write_middle_block(w, digits), precision, i + 1, mode)
      ELSE write_last_block_dec(w, digits \div 10 ^ dropped, maximum,
                                RoundDirection(x, precision, last_digit, mode))

WriteFraction(x, w, precision, zero_blocks, mode) ==
  IF get_exponent(x) >= MANTISSA_WIDTH \/ (precision \div BLOCK_SIZE) + 1 <= zero_blocks
  THEN write_zeroes(w, precision)
  ELSE AfterPoint(x, IF zero_blocks > 0 THEN write_zeroes(w, BLOCK_SIZE * zero_blocks) ELSE w,
                  precision, zero_blocks, mode)

FinishField(f) == f.out \o write_right_padding(f.s, f.sign, f.total_digits)

convert_float_decimal_typed(s, mode) ==
  LET x == s.val
      precision == IF s.precision < 0 THEN 6 ELSE s.precision
      point == precision > 0 \/ "#" \in s.flags
  IN  FinishField(WriteFraction(x,
        BeforePoint(x, FloatWriter(s, SignChar(x.sign, s.flags), point), precision,
                    get_positive_blocks(x) - 1),
        precision, zero_blocks_after_point(x), mode))

convert_float_decimal(s, mode) ==
  IF is_inf_or_nan(s.val) THEN convert_inf_nan(s) ELSE convert_float_decimal_typed(s, mode)

(***************************************************************************)
(* What the text should be                                                 *)
(***************************************************************************)
Room == 40

Text(writes) == WriteAll(StringSink(Room), writes).text

\* head and body in a field of the section's width.
Field(s, head, body) ==
  LET n == s.min_width - Len(head) - Len(body)
  IN  IF n <= 0 THEN head \o body
      ELSE IF Left(s) THEN head \o body \o Repeat(" ", n)
      ELSE IF "0" \in s.flags THEN head \o Repeat("0", n) \o body
      ELSE Repeat(" ", n) \o head \o body

\* Is the integer r a magnitude m / 2^shift rounded in this mode?
RoundedTo(r, m, shift, negative, mode) ==
  LET d == r * 2 ^ shift - m
      away == (mode = "DOWNWARD" /\ negative) \/ (mode = "UPWARD" /\ ~negative)
  IN  CASE mode = "TONEAREST" -> /\ 2 * Abs(d) <= 2 ^ shift
                                 /\ 2 * Abs(d) = 2 ^ shift => r % 2 = 0
        [] mode # "TONEAREST" /\ away -> 0 <= d /\ d < 2 ^ shift
        [] OTHER -> 0 <= -d /\ -d < 2 ^ shift

Scaled(h, d) == IF d >= 0 THEN h * 2 ^ d ELSE IF h % 2 ^ (-d) = 0 THEN h \div 2 ^ (-d) ELSE -1

\* The digits, with f of them after the point, and the exponent e stand for the value.
HexValueIsRight(s, mode, digits, e) ==
  LET x == s.val
      f == Len(digits) - 1
      h == strtointeger(digits, 16, 0, 2 ^ 30).value
      m == get_explicit_mantissa(x)
      shift == MANTISSA_WIDTH - (MANTISSA_WIDTH % 4) - 4 * s.precision
  IN  /\ s.precision >= 0 => f = s.precision
      /\ s.precision < 0 /\ f > 0 => Last(digits) # "0"
      /\ IF s.precision >= 0 /\ shift > 0
         THEN \E r \in {m \div 2 ^ shift, (m \div 2 ^ shift) + 1} :
                /\ RoundedTo(r, m, shift, x.sign, mode)
                /\ Scaled(h, e - 4 * f - fts_exponent(x) - shift) = r
         ELSE Scaled(h, e - 4 * f - fts_exponent(x)) = m

\* The same for the text behind the sign and 0x, whose p is at position p.
HexBodyIsRight(s, mode, body, p) ==
  /\ Len(body) - p <= EXP_LEN
  /\ HexValueIsRight(s, mode, SelectSeq(SubSeq(body, 1, p - 1), LAMBDA c : c # "."),
                     strtointeger(SubSeq(body, p + 1, Len(body)), 10, -1000, 1000).value)

HexTextIsRight(s, mode, head, body) ==
  /\ HexBodyIsRight(s, mode, body, CHOOSE k \in 1 .. Len(body) : body[k] = "p")
  /\ 4 * s.precision <= MANTISSA_WIDTH => Text(convert_float_hex_exp(s, mode)) = Field(s, head, body)

HexPartsAreRight(s, mode, head, text) ==
  /\ SubSeq(text, 1, Len(head)) = head
  /\ HexTextIsRight(s, mode, head, SubSeq(text, Len(head) + 1, Len(text)))

\* %a reads back as the value: exactly if all digits are there, otherwise rounded to
\* the digits asked for, which are as many as the precision says; and the exponent
\* fits its buffer.  Width and flags only place it in its field.  (Zeros that only the
\* precision asks for are not counted when the field is filled, so a field is only
\* compared without them.)
HexIsRight(s, mode) ==
  HexPartsAreRight(s, mode, SignChar(s.val.sign, s.flags) \o <<"0", "x">>,
                   Text(convert_float_hex_exp([s EXCEPT !.min_width = 0], mode)))

Whole(x) ==
  LET e == fts_exponent(x)
  IN  IF e >= 0 THEN get_explicit_mantissa(x) * 2 ^ e ELSE get_explicit_mantissa(x) \div 2 ^ (-e)

\* The fraction of x: its first digits, what is left after them, and of how much.
Kept(x, precision) == IF fts_exponent(x) >= 0 THEN 0 ELSE FractionDigits(x, 0, precision)
Rest(x, precision) == IF fts_exponent(x) >= 0 THEN 0 ELSE Remaining(x, precision)

\* x to precision digits after the point, cut off or one more in the last place.
Decimals(x, precision, up, point) ==
  LET q == Kept(x, precision) + (IF up THEN 1 ELSE 0)
      carry == q = 10 ^ precision
      fraction == Tail(convert_uintmax(10 ^ precision + (IF carry THEN 0 ELSE q), 10))
  IN  convert_uintmax(Whole(x) + (IF carry THEN 1 ELSE 0), 10)
      \o (IF point THEN <<".">> ELSE <<>>) \o fraction

DecimalText(s, up) ==
  LET precision == IF s.precision < 0 THEN 6 ELSE s.precision
  IN  Field(s, SignChar(s.val.sign, s.flags),
            Decimals(s.val, precision, up, precision > 0 \/ "#" \in s.flags))

\* No block that %f may hold back as a block of nines: neither one of the fraction,
\* nor the last one before the point when the last digit is of the first after it.
HoldsBackNines(x, precision) ==
  \/ \E i \in 0 .. (precision \div BLOCK_SIZE) - 1 :
       fts_exponent(x) < 0 /\ FractionDigits(x, BLOCK_SIZE * i, BLOCK_SIZE) = MAX_BLOCK
  \/ precision < BLOCK_SIZE /\ Whole(x) > MAX_BLOCK /\ Whole(x) % (MAX_BLOCK + 1) = MAX_BLOCK

\* %f prints the value correctly rounded, whole part and fraction, however the blocks
\* of digits fall and wherever a carry goes, when no block of nines is held back: to
\* nearest if the first digit dropped is not a 5, and towards zero always; a value
\* that needs no rounding is exact in these modes and downward.
DecimalIsRight(s, mode) ==
  LET x == s.val
      precision == IF s.precision < 0 THEN 6 ELSE s.precision
      rest == Rest(x, precision)
      next == IF rest = 0 THEN 0 ELSE FractionDigits(x, precision, 1)
      up == mode = "TONEAREST" /\ next > 5
  IN  \/ HoldsBackNines(x, precision)
      \/ mode = "UPWARD"
      \/ mode = "DOWNWARD" /\ rest # 0
      \/ mode = "TONEAREST" /\ next = 5
      \/ Text(convert_float_decimal(s, mode)) = DecimalText(s, up)

\* inf and nan with their sign, padded with spaces whatever the flags.
InfNanIsRight(s) ==
  Text(convert_float_decimal(s, "TONEAREST")) =
    Field([s EXCEPT !.flags = @ \ {"0"}], SignChar(s.val.sign, s.flags),
          IF is_inf(s.val) THEN <<"i", "n", "f">> ELSE <<"n", "a", "n">>)

\* Both conversions; up to 5 hexadecimal digits, which TLC's integers hold.
FloatTextIsRight(s, mode) ==
  IF is_inf_or_nan(s.val) THEN InfNanIsRight(s)
  ELSE DecimalIsRight(s, mode) /\ (s.precision <= 5 => HexIsRight(s, mode))
=============================================================================
