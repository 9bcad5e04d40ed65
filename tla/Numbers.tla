------------------------------ MODULE Numbers -------------------------------
(***************************************************************************)
(* Reading and writing integers: strtointeger of                           *)
(* src/__support/str_to_integer.h, the back end of strtol and its          *)
(* relatives, and IntegerToString of src/__support/integer_to_string.h.    *)
(* A string is a sequence of characters; letters are lower case.  A type   *)
(* is its least and its greatest value.                                    *)
(***************************************************************************)
EXTENDS Integers, Sequences, SequencesExt

Digits == <<"0", "1", "2", "3", "4", "5", "6", "7", "8", "9", "a", "b", "c", "d", "e",
            "f", "g", "h", "i", "j", "k", "l", "m", "n", "o", "p", "q", "r", "s", "t",
            "u", "v", "w", "x", "y", "z">>

At(src, i) == IF i < Len(src) THEN src[i + 1] ELSE "NUL"

isalnum(c) == c \in ToSet(Digits)

b36_char_to_int(c) == (CHOOSE d \in 1 .. 36 : Digits[d] = c) - 1

RECURSIVE first_non_whitespace(_, _)
first_non_whitespace(src, i) ==
  IF At(src, i) = " " THEN first_non_whitespace(src, i + 1) ELSE i

is_hex_start(src, i) ==
  /\ At(src, i) = "0" /\ At(src, i + 1) = "x"
  /\ isalnum(At(src, i + 2)) /\ b36_char_to_int(At(src, i + 2)) < 16

\* <<base, where the digits begin>>.
infer_base(src, i) ==
  IF is_hex_start(src, i) THEN <<16, i + 2>>
  ELSE IF At(src, i) = "0" THEN <<8, i>> ELSE <<10, i>>

\* Mutant: the product is not tested for overflow before it is made.
accumulate_unchecked(result, base, abs_max, d) ==
  IF result * base > abs_max - d THEN <<(result * base + d) % (2 * abs_max), "">>
  ELSE <<result * base + d, "">>

\* One digit more: <<result, error>>, saturated at abs_max.
accumulate(result, base, abs_max, d) ==
  LET over == result > abs_max \div base
      product == IF over THEN abs_max ELSE result * base
  IN  IF result = abs_max THEN <<abs_max, "ERANGE">>
      ELSE IF product > abs_max - d THEN <<abs_max, "ERANGE">>
      ELSE <<product + d, IF over THEN "ERANGE" ELSE "">>

RECURSIVE ReadDigits(_, _, _, _, _, _)
ReadDigits(src, i, base, abs_max, result, error) ==
  IF ~isalnum(At(src, i)) \/ b36_char_to_int(At(src, i)) >= base
  THEN [result |-> result, error |-> error, end |-> i]
  ELSE LET r == accumulate(result, base, abs_max, b36_char_to_int(At(src, i)))
       IN  ReadDigits(src, i + 1, base, abs_max, r[1], IF r[2] = "" THEN error ELSE r[2])

\* The result for what was read from position begin on.
SignedValue(r, begin, positive, abs_max, min, max) ==
  LET unsigned == min = 0
  IN  [len |-> IF r.end = begin THEN 0 ELSE r.end, error |-> r.error,
       value |-> IF r.result = abs_max THEN (IF positive \/ unsigned THEN max ELSE min)
                 ELSE IF positive THEN r.result
                 ELSE IF unsigned THEN (-r.result) % (max + 1) ELSE -r.result]

\* start is <<base, where the digits begin>>.
ReadMagnitude(src, start, positive, abs_max, min, max) ==
  SignedValue(ReadDigits(src, start[2], start[1], abs_max, 0, ""), start[2], positive, abs_max, min, max)

\* s is the position of the sign or the number.
ReadSigned(src, s, base, min, max) ==
  LET a == IF At(src, s) \in {"+", "-"} THEN s + 1 ELSE s
      positive == At(src, s) # "-"
  IN  ReadMagnitude(src, IF base = 0 THEN infer_base(src, a)
                         ELSE IF base = 16 /\ is_hex_start(src, a) THEN <<16, a + 2>> ELSE <<base, a>>,
                    positive, IF positive \/ min = 0 THEN max ELSE max + 1, min, max)

strtointeger(src, base, min, max) ==
  IF base < 0 \/ base = 1 \/ base > 36 THEN [value |-> 0, len |-> 0, error |-> "EINVAL"]
  ELSE ReadSigned(src, first_non_whitespace(src, 0), base, min, max)

(***************************************************************************)
(* IntegerToString                                                         *)
(***************************************************************************)
RECURSIVE convert_uintmax(_, _)
convert_uintmax(uval, base) ==
  IF uval < base THEN <<Digits[uval + 1]>>
  ELSE Append(convert_uintmax(uval \div base, base), Digits[(uval % base) + 1])

convert_intmax(val, base) ==
  IF val >= 0 THEN convert_uintmax(val, base) ELSE <<"-">> \o convert_uintmax(-val, base)

RECURSIVE floor_log_2(_)
floor_log_2(num) == IF num > 1 THEN 1 + floor_log_2(num \div 2) ELSE 0

bufsize(base, size, signed) ==
  LET bits == floor_log_2(base)
  IN  (IF signed THEN 1 ELSE 0) +
      (IF base = 10 THEN (size * 5 + 1) \div 2 ELSE (size * 8 + bits - 1) \div bits)

(***************************************************************************)
(* What strtol promises: the value of the longest prefix that is a number, *)
(* or the nearest value of the type.                                       *)
(***************************************************************************)
RECURSIVE ValueOf(_, _)
ValueOf(s, base) ==
  IF s = <<>> THEN 0 ELSE ValueOf(Front(s), base) * base + b36_char_to_int(Last(s))

\* The positions where the number of base |base| that starts at i may end.
NumberEnds(src, i, base) ==
  {n \in i + 1 .. Len(src) :
     \A k \in i + 1 .. n : isalnum(src[k]) /\ b36_char_to_int(src[k]) < base}

Clipped(v, min, max) == IF v < min THEN min ELSE IF v > max THEN max ELSE v

\* strtointeger, for a signed and for an unsigned type, reads the longest prefix
\* that is a number in the given or the inferred base, after blanks, one sign and
\* 0x; it answers with its value, clipped to the type with ERANGE exactly when the
\* value does not fit, and with length 0 when there is no number.  A negative
\* number of an unsigned type wraps around; -max, which the saturation test of
\* line 137 takes for an overflow, is left out.
ReadsNumber(src, base, min, max) ==
  LET r == strtointeger(src, base, min, max)
      blanks == CHOOSE n \in 0 .. Len(src) : /\ \A k \in 1 .. n : src[k] = " "
                                             /\ At(src, n) # " "
      sign == IF At(src, blanks) \in {"+", "-"} THEN 1 ELSE 0
      neg == At(src, blanks) = "-"
      from == blanks + sign
      hex == /\ base \in {0, 16} /\ At(src, from) = "0" /\ At(src, from + 1) = "x"
             /\ NumberEnds(src, from + 2, 16) # {}
      b == IF hex THEN 16
           ELSE IF base = 0 THEN (IF At(src, from) = "0" THEN 8 ELSE 10) ELSE base
      first == IF hex THEN from + 2 ELSE from
      ends == NumberEnds(src, first, b)
      last == CHOOSE n \in ends : \A k \in ends : k <= n
      v == ValueOf(SubSeq(src, first + 1, last), b)
      fits == IF neg /\ min = 0 THEN v <= max ELSE (IF neg THEN -v >= min ELSE v <= max)
  IN  IF ends = {} THEN r.len = 0 /\ r.value = 0 /\ r.error = ""
      ELSE /\ r.len = last
           /\ r.error = IF fits THEN "" ELSE "ERANGE"
           /\ IF neg /\ min = 0
              THEN v = max \/ r.value = IF fits THEN (-v) % (max + 1) ELSE max
              ELSE r.value = Clipped(IF neg THEN -v ELSE v, min, max)

\* What IntegerToString writes fits the buffer bufsize() asks for, and strtointeger
\* reads it back, in every base: for a type of |size| bytes.
WritesNumber(val, size, base) ==
  LET s == convert_intmax(val, base)
      half == 2 ^ (8 * size - 1)
      r == strtointeger(s, base, -half, half - 1)
  IN  /\ Len(s) <= bufsize(base, size, TRUE)
      /\ val >= 0 => Len(s) <= bufsize(base, size, FALSE)
      /\ r = [value |-> val, len |-> Len(s), error |-> ""]
=============================================================================
