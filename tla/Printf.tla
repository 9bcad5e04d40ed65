------------------------------- MODULE Printf -------------------------------
(***************************************************************************)
(* printf: the parser of src/stdio/printf_core/parser.cpp with its index   *)
(* mode, the converters of characters, strings, integers and pointers, the *)
(* dispatch to all converters, and snprintf, sprintf and fprintf.          *)
(*                                                                         *)
(* The argument list is a sequence of [type, val]; next_var of another     *)
(* type than the argument's, or past the end, is undefined and sets bad.   *)
(* Letters are lower case.  Integer types have the Bits given here.        *)
(***************************************************************************)
EXTENDS FloatPrint

CONSTANT DESC_ARR_LEN      \* how many argument types index mode remembers

INT_MAX == 1000000

Bits(lm) == CASE lm = "hh" -> 2 [] lm = "h" -> 3 [] lm = "none" -> 4 [] OTHER -> 5

isdigit(c) == c \in {Digits[d] : d \in 1 .. 10}

(***************************************************************************)
(* The parser                                                              *)
(***************************************************************************)
RECURSIVE parse_flags(_, _)
parse_flags(str, i) ==
  IF At(str, i) \notin {"-", "+", " ", "#", "0"} THEN [pos |-> i, flags |-> {}]
  ELSE LET r == parse_flags(str, i + 1) IN [r EXCEPT !.flags = @ \cup {At(str, i)}]

parse_length_modifier(str, i) ==
  LET c == At(str, i)
  IN  IF c \in {"l", "h"} /\ At(str, i + 1) = c THEN [pos |-> i + 2, lm |-> c \o c]
      ELSE IF c \in {"l", "h", "L", "j", "z", "t"} THEN [pos |-> i + 1, lm |-> c]
      ELSE [pos |-> i, lm |-> "none"]

ReadInt(str, i) == strtointeger(SubSeq(str, i + 1, Len(str)), 10, -INT_MAX, INT_MAX)

parse_index(str, i) ==
  LET r == ReadInt(str, i)
  IN  IF isdigit(At(str, i)) /\ At(str, i + r.len) = "$"
      THEN [pos |-> i + r.len + 1, index |-> r.value] ELSE [pos |-> i, index |-> 0]

RECURSIVE SkipDigits(_, _)
SkipDigits(str, i) == IF isdigit(At(str, i)) THEN SkipDigits(str, i + 1) ELSE i

Integral == {"d", "i", "o", "x", "u"}
Floating == {"f", "e", "a", "g"}
Pointers == {"n", "p", "s"}

\* The type of the argument a conversion takes, on a machine with a 64 bit long.
ArgType(name, lm) ==
  CASE name \in Integral -> IF lm \in {"hh", "h", "none"} THEN "int" ELSE "long"
    [] name \in Floating -> IF lm = "L" THEN "long double" ELSE "double"
    [] name \in Pointers -> "ptr"
    [] name = "%" -> "void"
    [] OTHER -> "int"

set_type_desc(desc, index, type) ==
  IF index \in 1 .. DESC_ARR_LEN THEN [desc EXCEPT ![index] = type] ELSE desc

\* A width or precision that get_type_desc passes over: "*", "*n$" or digits.
Passed(str, i) ==
  IF At(str, i) = "*" THEN parse_index(str, i + 1)
  ELSE [pos |-> SkipDigits(str, i), index |-> 0]

\* A conversion that is passed over: the arguments that its value, width and precision
\* name, 0 if none, its type and where its name is.
PassName(str, conv, width, precision, m) ==
  [conv |-> conv, width |-> width, precision |-> precision, pos |-> m.pos,
   type |-> ArgType(At(str, m.pos), m.lm)]

PassPrecision(str, conv, width, precision) ==
  PassName(str, conv, width, precision.index, parse_length_modifier(str, precision.pos))

PassWidth(str, conv, width) ==
  PassPrecision(str, conv, width.index,
                IF At(str, width.pos) = "." THEN Passed(str, width.pos + 1)
                ELSE [width EXCEPT !.index = 0])

PassConversion(str, conv) ==
  PassWidth(str, conv.index, Passed(str, parse_flags(str, conv.pos).pos))

\* [found, type, desc]: is argument index one of the conversion's, of which type, and
\* what desc_arr has learnt.  Width, precision and value are looked at in this order.
Inspect(c, desc, index) ==
  LET d1 == set_type_desc(desc, c.width, "int")
      d2 == set_type_desc(d1, c.precision, "int")
      d3 == IF c.conv = 0 THEN d2 ELSE set_type_desc(d2, c.conv, c.type)
  IN  CASE c.width = index -> [found |-> TRUE, type |-> "int", desc |-> d1]
        [] c.width # index /\ c.precision = index -> [found |-> TRUE, type |-> "int", desc |-> d2]
        [] OTHER -> [found |-> c.conv = index, type |-> c.type, desc |-> d3]

\* <<the type of argument index, what desc_arr has learnt on the way>>, from the
\* conversions at or after position i.  (A format that ends inside a conversion is
\* undefined; here the scan ends with it.)
RECURSIVE get_type_desc(_, _, _, _)
RECURSIVE LookFurther(_, _, _, _)
LookFurther(str, index, seen, i) ==
  IF seen.found THEN <<seen.type, seen.desc>> ELSE get_type_desc(str, seen.desc, index, i)

LookAt(str, desc, index, c) == LookFurther(str, index, Inspect(c, desc, index), c.pos + 1)

get_type_desc(str, desc, index, i) ==
  CASE At(str, i) = "NUL" -> <<"int", desc>>
    [] At(str, i) \notin {"NUL", "%"} -> get_type_desc(str, desc, index, i + 1)
    [] OTHER -> LookAt(str, desc, index, PassConversion(str, parse_index(str, i + 1)))

\* Parser: pos in the format, the next argument args_cur and its number args_index.
Parser == [pos |-> 0, args_cur |-> 1, args_index |-> 1, bad |-> FALSE,
           desc |-> [k \in 1 .. DESC_ARR_LEN |-> "void"]]

next_var(args, p, type) ==
  [p EXCEPT !.args_cur = @ + 1, !.bad = @ \/ p.args_cur > Len(args) \/ args[p.args_cur].type # type]

\* One argument of type found[1] is passed over.
PassArgument(args, p, found) ==
  [next_var(args, p, IF found[1] = "void" THEN "int" ELSE found[1])
     EXCEPT !.args_index = @ + 1, !.desc = found[2]]

\* The loop of args_to_index.
RECURSIVE Advance(_, _, _, _)
Advance(str, args, p, index) ==
  LET known == p.args_index <= DESC_ARR_LEN /\ p.desc[p.args_index] # "void"
  IN  IF p.args_index >= index THEN p
      ELSE Advance(str, args,
                   PassArgument(args, p, IF known THEN <<p.desc[p.args_index], p.desc>>
                                         ELSE get_type_desc(str, p.desc, p.args_index, 0)),
                   index)

\* Mutant: an argument before the current one is looked for from here on.
args_to_index_forward(str, args, p, index) == Advance(str, args, p, index)

args_to_index(str, args, p, index) ==
  Advance(str, args, IF p.args_index > index THEN [p EXCEPT !.args_index = 1, !.args_cur = 1]
                     ELSE p, index)

\* [p, val]: the parser after it has read the argument it stands at, and the argument.
ReadArgument(args, q, type, index) ==
  LET r == next_var(args, [q EXCEPT !.desc = set_type_desc(@, index, type),
                                    !.args_index = @ + 1], type)
  IN  [p |-> r, val |-> IF r.bad THEN 0 ELSE args[q.args_cur].val]

get_arg_value(str, args, p, type, index) ==
  ReadArgument(args, IF index \in {0, p.args_index} THEN p ELSE args_to_index(str, args, p, index),
               type, index)

\* A width or precision of digits, and one that is an argument.
Digited(p, r) == [p |-> [p EXCEPT !.pos = @ + r.len], val |-> r.value]
Starred(str, args, p, star) ==
  get_arg_value(str, args, [p EXCEPT !.pos = star.pos], "int", star.index)

\* A width or a precision at position p.pos; 0 if there is none.
Amount(str, args, p) ==
  LET c == At(str, p.pos)
  IN  IF c = "*" THEN Starred(str, args, p, parse_index(str, p.pos + 1))
      ELSE IF isdigit(c) THEN Digited(p, ReadInt(str, p.pos))
      ELSE [p |-> p, val |-> 0]

RECURSIVE RawEnd(_, _)
RawEnd(str, i) == IF At(str, i) \in {"%", "NUL"} THEN i ELSE RawEnd(str, i + 1)

\* A conversion is read from left to right: its index and flags, the width, the
\* precision, the length modifier and the name, the argument.  h is what stands before
\* the width.
Section(str, h, width, precision, m, name, takes, end, arg) ==
  [p |-> arg.p,
   section |-> [has_conv |-> takes \/ name = "%", raw |-> SubSeq(str, h.begin + 1, end),
                flags |-> IF width < 0 THEN h.flags \cup {"-"} ELSE h.flags,
                min_width |-> IF width < 0 THEN -width ELSE width,
                precision |-> precision, lm |-> m.lm, name |-> name, val |-> arg.val]]

ReadName(str, args, p, h, width, precision, m, name) ==
  LET takes == name \in Integral \cup Floating \cup Pointers \cup {"c"}
      end == IF name = "NUL" THEN m.pos ELSE m.pos + 1
      after == [p EXCEPT !.pos = end]
  IN  Section(str, h, width, precision, m, name, takes, end,
              IF takes THEN get_arg_value(str, args, after, ArgType(name, m.lm), h.index)
              ELSE [p |-> after, val |-> 0])

ReadModifier(str, args, p, h, width, precision, m) ==
  ReadName(str, args, p, h, width, precision, m, At(str, m.pos))

ReadPrecision(str, args, h, width, prec) ==
  ReadModifier(str, args, prec.p, h, width, prec.val, parse_length_modifier(str, prec.p.pos))

ReadWidth(str, args, h, width) ==
  ReadPrecision(str, args, h, width.val,
                IF At(str, width.p.pos) = "." THEN Amount(str, args, [width.p EXCEPT !.pos = @ + 1])
                ELSE [p |-> width.p, val |-> -1])

ReadFlags(str, args, p, index, fl) ==
  ReadWidth(str, args, [begin |-> p.pos, index |-> index, flags |-> fl.flags],
            Amount(str, args, [p EXCEPT !.pos = fl.pos]))

ReadConversion(str, args, p, conv) ==
  ReadFlags(str, args, p, conv.index, parse_flags(str, conv.pos))

\* [p, section] for the section that starts at p.pos.
get_next_section(str, args, p) ==
  IF At(str, p.pos) = "%" THEN ReadConversion(str, args, p, parse_index(str, p.pos + 1))
  ELSE [p |-> [p EXCEPT !.pos = RawEnd(str, p.pos)],
        section |-> [has_conv |-> FALSE, raw |-> SubSeq(str, p.pos + 1, RawEnd(str, p.pos))]]

(***************************************************************************)
(* The converters                                                          *)
(***************************************************************************)
convert_char(s) == Padded(s, Char(s.val))

convert_string(s) ==
  LET n == IF s.precision >= 0 THEN Least(s.precision, Len(s.val)) ELSE Len(s.val)
  IN  Padded(s, Str(SubSeq(s.val, 1, n)))

apply_length_modifier(num, lm) == num % 2 ^ Bits(lm)

num_to_strview(num, name) ==
  convert_uintmax(num, CASE name = "x" -> 16 [] name = "o" -> 8 [] OTHER -> 10)

\* digits in their field, after the prefix.
WriteInt(s, flags, prefix, digits) ==
  LET fill == "0" \in flags /\ "-" \notin flags
      z == IF s.precision >= 0 THEN Max({0, s.precision - Len(digits)})
           ELSE IF fill THEN s.min_width - Len(digits) - Len(prefix) ELSE 0
      zeroes == IF s.name = "o" /\ "#" \in flags /\ z < 1 THEN 1 ELSE z
      spaces == IF s.precision < 0 /\ fill THEN 0 ELSE s.min_width - zeroes - Len(digits) - Len(prefix)
      number == (IF prefix # <<>> THEN <<Str(prefix)>> ELSE <<>>) \o Some("0", zeroes)
                \o (IF digits # <<>> THEN <<Str(digits)>> ELSE <<>>)
  IN  IF "-" \in flags THEN number \o Some(" ", spaces) ELSE Some(" ", spaces) \o number

convert_int(s) ==
  LET raw == s.val % 2 ^ Bits("j")
      signed == s.name \in {"d", "i"}
      is_negative == signed /\ raw >= 2 ^ (Bits("j") - 1)
      flags == IF signed THEN s.flags ELSE s.flags \ {"+", " "}
      num == apply_length_modifier(IF is_negative THEN 2 ^ Bits("j") - raw ELSE raw, s.lm)
  IN  WriteInt(s, flags,
               IF s.name = "x" /\ "#" \in flags THEN <<"0", "x">> ELSE SignChar(is_negative, flags),
               IF s.precision = 0 /\ num = 0 THEN <<>> ELSE num_to_strview(num, s.name))

\* A section for %x with the default length modifier, width and precision.
convert_pointer(s) ==
  IF s.val = 0 THEN <<Str(<<"(", "n", "u", "l", "l", "p", "t", "r", ")">>)>>
  ELSE convert_int([name |-> "x", flags |-> {"#"}, lm |-> "none", min_width |-> 0,
                    precision |-> -1, val |-> s.val])

\* %n stores how many characters were written, in a type of the given width.
convert_write_int(s, sink) ==
  LET n == 2 ^ Bits(s.lm)
      v == sink.chars_written % n
      signed == s.lm \notin {"z", "j"}
  IN  IF s.val = 0 THEN [sink EXCEPT !.result = "NULLPTR_WRITE_ERROR"]
      ELSE [sink EXCEPT !.stored = Append(@, IF signed /\ v >= n \div 2 THEN v - n ELSE v)]

\* convert, and printf_main's own write of a section without a conversion.
convert(s, sink, mode) ==
  IF ~s.has_conv THEN WriteAll(sink, <<Str(s.raw)>>)
  ELSE CASE s.name = "%" -> WriteAll(sink, <<Str(<<"%">>)>>)
         [] s.name = "c" -> WriteAll(sink, convert_char(s))
         [] s.name = "s" -> WriteAll(sink, convert_string(s))
         [] s.name \in Integral -> WriteAll(sink, convert_int(s))
         [] s.name = "f" -> WriteAll(sink, convert_float_decimal(s, mode))
         [] s.name = "a" -> WriteAll(sink, convert_float_hex_exp(s, mode))
         [] s.name = "n" -> convert_write_int(s, sink)
         [] s.name = "p" -> WriteAll(sink, convert_pointer(s))
         [] OTHER -> WriteAll(sink, <<Str(s.raw)>>)

\* The sections in their order, until one fails; an undefined argument ends it too.
RECURSIVE PrintfLoop(_, _, _, _, _)
RECURSIVE PrintfSection(_, _, _, _, _)
RECURSIVE PrintfNext(_, _, _, _, _)
PrintfNext(done, str, args, p, mode) ==
  IF done.result # "OK" THEN [sink |-> done, p |-> p] ELSE PrintfLoop(done, str, args, p, mode)

PrintfSection(sink, str, args, next, mode) ==
  IF next.section.raw = <<>> \/ next.p.bad THEN [sink |-> sink, p |-> next.p]
  ELSE PrintfNext(convert(next.section, sink, mode), str, args, next.p, mode)

PrintfLoop(sink, str, args, p, mode) ==
  PrintfSection(sink, str, args, get_next_section(str, args, p), mode)

\* ret is the number of characters or the error.
Outcome(r) ==
  [text |-> r.sink.text, ret |-> IF r.sink.result = "OK" THEN r.sink.chars_written ELSE -1]

printf_main(sink, str, args, mode) == Outcome(PrintfLoop(sink, str, args, Parser, mode))

\* [ret, buffer]: what the call returns and stores.
Stored(m, terminated) ==
  [ret |-> m.ret, buffer |-> IF terminated THEN Append(m.text, "NUL") ELSE m.text]

snprintf(buffsz, str, args) ==
  Stored(printf_main(StringSink(IF buffsz > 0 THEN buffsz - 1 ELSE 0), str, args, "TONEAREST"),
         buffsz > 0)

sprintf(str, args) == Stored(printf_main(StringSink(INT_MAX), str, args, "TONEAREST"), TRUE)

\* To a file that takes room characters.
vfprintf_internal(room, str, args) == printf_main(FileSink(room), str, args, "TONEAREST")

(***************************************************************************)
(* What printf should do.  An item of a format is raw text, name "raw", or *)
(* a conversion [name, flags, w, p, lm, v]; w and p are Absent, Given(n)   *)
(* or Star(n), whose number is an argument.                                *)
(***************************************************************************)
Absent == [kind |-> "absent", n |-> 0]
Given(n) == [kind |-> "given", n |-> n]
Star(n) == [kind |-> "star", n |-> n]

Takes(item) == item.name \in Integral \cup Pointers \cup {"c"}

\* The arguments an item takes, in the order in which it takes them.
Slots(item) ==
  (IF item.w.kind = "star" THEN <<[type |-> "int", val |-> item.w.n]>> ELSE <<>>)
  \o (IF item.p.kind = "star" THEN <<[type |-> "int", val |-> item.p.n]>> ELSE <<>>)
  \o (IF Takes(item) THEN <<[type |-> ArgType(item.name, item.lm), val |-> item.v]>> ELSE <<>>)

AllSlots(items) == FlattenSeq([k \in 1 .. Len(items) |-> Slots(items[k])])

\* The argument list when the k-th slot is argument number perm[k].
Arguments(items, perm) ==
  [a \in 1 .. Len(perm) |-> AllSlots(items)[CHOOSE k \in 1 .. Len(perm) : perm[k] = a]]

\* The characters of an item whose first slot is the one after k.
Written(item, k, perm, indexed) ==
  LET Index(j) == IF indexed THEN Append(convert_uintmax(perm[j], 10), "$") ELSE <<>>
      wslots == IF item.w.kind = "star" THEN 1 ELSE 0
      pslots == IF item.p.kind = "star" THEN 1 ELSE 0
      Amt(a, j) == CASE a.kind = "absent" -> <<>> [] a.kind = "given" -> convert_uintmax(a.n, 10)
                     [] OTHER -> <<"*">> \o Index(j)
      lm == CASE item.lm = "none" -> <<>> [] item.lm = "hh" -> <<"h", "h">> [] OTHER -> <<item.lm>>
  IN  IF item.name = "raw" THEN item.v
      ELSE <<"%">> \o (IF Takes(item) THEN Index(k + wslots + pslots + 1) ELSE <<>>)
           \o SetToSeq(item.flags) \o Amt(item.w, k + 1)
           \o (IF item.p.kind = "absent" THEN <<>> ELSE <<".">> \o Amt(item.p, k + wslots + 1))
           \o lm \o <<item.name>>

Format(items, perm, indexed) ==
  FlattenSeq([j \in 1 .. Len(items) |->
                Written(items[j], Len(AllSlots(SubSeq(items, 1, j - 1))), perm, indexed)])

\* The text of an integer: its sign or prefix, and at least as many digits as the
\* precision says, which is 1 unless given; 0 in no digits is nothing.
IntText(s) ==
  LET signed == s.name \in {"d", "i"}
      v == IF signed THEN s.val ELSE s.val % 2 ^ Bits(s.lm)
      base == CASE s.name = "x" -> 16 [] s.name = "o" -> 8 [] OTHER -> 10
      digits == IF v = 0 /\ s.precision = 0 THEN <<>> ELSE convert_uintmax(Abs(v), base)
      padded == Repeat("0", s.precision - Len(digits)) \o digits
      body == IF "#" \in s.flags /\ s.name = "o" /\ (padded = <<>> \/ Head(padded) # "0")
              THEN <<"0">> \o padded ELSE padded
      head == IF signed THEN SignChar(v < 0, s.flags)
              ELSE IF "#" \in s.flags /\ s.name = "x" THEN <<"0", "x">> ELSE <<>>
  IN  Field(IF s.precision >= 0 THEN [s EXCEPT !.flags = @ \ {"0"}] ELSE s, head, body)

ItemText(item) ==
  LET s == [name |-> item.name, lm |-> item.lm, val |-> item.v, min_width |-> Abs(item.w.n),
            flags |-> item.flags \cup (IF item.w.n < 0 THEN {"-"} ELSE {}),
            precision |-> IF item.p.kind = "absent" THEN -1 ELSE item.p.n]
      spaced == [s EXCEPT !.flags = @ \ {"0"}]
  IN  CASE s.name = "raw" -> s.val
        [] s.name = "%" -> <<"%">>
        [] s.name = "c" -> Field(spaced, <<>>, <<s.val>>)
        [] s.name = "s" -> Field(spaced, <<>>, IF s.precision < 0 THEN s.val
                                              ELSE SubSeq(s.val, 1, Least(s.precision, Len(s.val))))
        [] s.name = "n" -> <<>>
        [] s.name = "p" -> IF s.val = 0 THEN <<"(", "n", "u", "l", "l", "p", "t", "r", ")">>
                           ELSE <<"0", "x">> \o convert_uintmax(s.val, 16)
        [] OTHER -> IntText(s)

ItemsText(items) == FlattenSeq([k \in 1 .. Len(items) |-> ItemText(items[k])])

\* What a file got and what printf returned, when room characters fitted.
FitsFile(f, text, room) ==
  /\ f.text = SubSeq(text, 1, Least(room, Len(text)))
  /\ f.ret = IF room < Len(text) THEN -1 ELSE Len(text)

\* Every next_var asked for the type that is there, and %n stored the length so far.
UsesArguments(r, items) ==
  LET places == SelectSeq([k \in 1 .. Len(items) |-> k], LAMBDA k : items[k].name = "n")
  IN  /\ ~r.p.bad
      /\ r.sink.stored = [j \in 1 .. Len(places) |-> Len(ItemsText(SubSeq(items, 1, places[j])))]

PrintsText(items, str, args, text) ==
  /\ UsesArguments(PrintfLoop(StringSink(INT_MAX), str, args, Parser, "TONEAREST"), items)
  /\ sprintf(str, args) = [ret |-> Len(text), buffer |-> Append(text, "NUL")]
  /\ \A n \in {0, 1, 2, Len(text), Len(text) + 1, Len(text) + 2} :
       snprintf(n, str, args) =
         [ret |-> Len(text),
          buffer |-> IF n = 0 THEN <<>> ELSE Append(SubSeq(text, 1, Least(n - 1, Len(text))), "NUL")]
  /\ (\A k \in 1 .. Len(items) : items[k].w.n \in -1 .. 1) =>
       \A room \in {0, 1, Len(text) - 1, Len(text)} \ {-1} :
         FitsFile(vfprintf_internal(room, str, args), text, room)

\* A format prints its items, whether its arguments come in order or are numbered in
\* any order, past the numbers whose types index mode remembers.  snprintf returns the
\* whole length and stores what fits with its terminator, and a file that fills up
\* makes printf fail with what fitted written.
PrintsFormat(items, perm, indexed) ==
  PrintsText(items, Format(items, perm, indexed), Arguments(items, perm), ItemsText(items))

\* One conversion of an integer of each type, in every field.
PrintsInteger(item) ==
  LET perm == [k \in 1 .. Len(Slots(item)) |-> k]
  IN  sprintf(Format(<<item>>, perm, FALSE), Arguments(<<item>>, perm)).buffer
        = Append(ItemText(item), "NUL")

\* To a file as to a string: "this version of write will copy length copies of
\* new_char into output using chars_write" (writer.h:48).
FileTextIsStringText(items) ==
  LET perm == [k \in 1 .. Len(AllSlots(items)) |-> k]
      str == Format(items, perm, FALSE)
      args == Arguments(items, perm)
  IN  Append(vfprintf_internal(INT_MAX, str, args).text, "NUL") = sprintf(str, args).buffer
=============================================================================
