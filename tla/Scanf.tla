-------------------------------- MODULE Scanf -------------------------------
(***************************************************************************)
(* scanf: the parser of src/stdio/scanf_core/parser.cpp with its index     *)
(* mode, the readers, the conversions there are (%%, %s, %c and %[), and   *)
(* sscanf and fscanf.                                                      *)
(*                                                                         *)
(* An argument is its number in the list; reading one past the end is      *)
(* undefined and sets bad.  What a conversion stores is a function from    *)
(* the numbers.  Characters are those of Alphabet, in the order of their   *)
(* codes, and NUL.                                                         *)
(***************************************************************************)
EXTENDS Numbers, FiniteSetsExt

INT_MAX == 1000000

Alphabet == <<" ", "$", "%", "*", "-", "1", "2", "3", "4", "[", "]", "^",
              "a", "b", "c", "d", "h", "l", "s">>

isspace(c) == c = " "
isdigit(c) == c \in {Digits[d] : d \in 1 .. 10}

(***************************************************************************)
(* The readers.  A string is read by its index; a file is what is left of  *)
(* it, and at its end a reader gets NUL.                                   *)
(***************************************************************************)
StringReader(string) ==
  [kind |-> "string", string |-> string, cur_index |-> 0, left |-> <<>>, chars_read |-> 0]
FileReader(left) ==
  [kind |-> "file", string |-> <<>>, cur_index |-> 0, left |-> left, chars_read |-> 0]

\* [c, r]: the next character and the reader after it.
string_get_char(r) == [c |-> At(r.string, r.cur_index), r |-> [r EXCEPT !.cur_index = @ + 1]]

file_get_char(r) ==
  IF r.left = <<>> THEN [c |-> "NUL", r |-> r]
  ELSE [c |-> Head(r.left), r |-> [r EXCEPT !.left = Tail(@)]]

Counted(cur, n) == [cur EXCEPT !.r.chars_read = @ + n]

getc(r) == Counted(IF r.kind = "string" THEN string_get_char(r) ELSE file_get_char(r), 1)

\* The reader once cur.c is put back.
ungetc(cur) ==
  IF cur.r.kind = "string" THEN [cur.r EXCEPT !.cur_index = @ - 1, !.chars_read = @ - 1]
  ELSE [cur.r EXCEPT !.left = <<cur.c>> \o @, !.chars_read = @ - 1]

(***************************************************************************)
(* The parser                                                              *)
(***************************************************************************)
parse_length_modifier(str, i) ==
  LET c == At(str, i)
  IN  IF c \in {"l", "h"} /\ At(str, i + 1) = c THEN i + 2
      ELSE IF c \in {"l", "h", "L", "j", "z", "t"} THEN i + 1 ELSE i

ReadInt(str, i) == strtointeger(SubSeq(str, i + 1, Len(str)), 10, -INT_MAX, INT_MAX)

parse_index(str, i) ==
  LET r == ReadInt(str, i)
  IN  IF isdigit(At(str, i)) /\ At(str, i + r.len) = "$"
      THEN [pos |-> i + r.len + 1, index |-> r.value] ELSE [pos |-> i, index |-> 0]

\* The parser: where it is in the format, the next argument and its number.
Parser == [pos |-> 0, args_cur |-> 1, args_index |-> 1, bad |-> FALSE]

\* Mutant: an argument before the current one is looked for from here on.
args_to_index_forward(p, index) ==
  LET skipped == Max({0, index - p.args_index})
  IN  [p EXCEPT !.args_index = @ + skipped, !.args_cur = @ + skipped]

args_to_index(p, index) ==
  LET start == IF p.args_index > index THEN [p EXCEPT !.args_index = 1, !.args_cur = 1] ELSE p
      skipped == Max({0, index - start.args_index})
  IN  [start EXCEPT !.args_index = @ + skipped, !.args_cur = @ + skipped]

\* [p, arg] out of nargs arguments.
TakeArgument(nargs, p) ==
  [p |-> [p EXCEPT !.args_index = @ + 1, !.args_cur = @ + 1, !.bad = @ \/ p.args_cur > nargs],
   arg |-> p.args_cur]

get_arg_value(nargs, p, index) ==
  TakeArgument(nargs, IF index \in {0, p.args_index} THEN p ELSE args_to_index(p, index))

\* The characters from a to b, or from b to a.
set_range(a, b) ==
  LET i == CHOOSE k \in 1 .. Len(Alphabet) : Alphabet[k] = a
      j == CHOOSE k \in 1 .. Len(Alphabet) : Alphabet[k] = b
  IN  {Alphabet[k] : k \in Min({i, j}) .. Max({i, j})}

\* [pos, set]: the scan set from position i on, up to its bracket.
RECURSIVE ScanSet(_, _, _, _)
ScanSet(str, start, i, set) ==
  LET c == At(str, i)
      ranges == c = "-" /\ i # start /\ At(str, i + 1) \notin {"]", "NUL"}
  IN  IF c \in {"NUL", "]"} THEN [pos |-> i, set |-> set]
      ELSE IF ranges THEN ScanSet(str, start, i + 2, set \cup set_range(At(str, i - 1), At(str, i + 1)))
      ELSE ScanSet(str, start, i + 1, set \cup {c})

\* The set whose members, after any circumflex, begin at start: a bracket in the first
\* place is one of them.
BracketSet(str, start) ==
  IF At(str, start) = "]" THEN ScanSet(str, start, start + 1, {"]"}) ELSE ScanSet(str, start, start, {})

Bracket(str, i) ==
  IF At(str, i) = "^"
  THEN LET b == BracketSet(str, i + 1) IN [b EXCEPT !.set = ToSet(Alphabet) \ @]
  ELSE BracketSet(str, i)

Section(str, begin, h, name, end, p, arg, has_conv, set) ==
  [p |-> [p EXCEPT !.pos = end],
   section |-> [has_conv |-> has_conv, raw |-> SubSeq(str, begin + 1, end), no_write |-> h.no_write,
                max_width |-> h.width, arg |-> arg, name |-> name, set |-> set]]

\* The end of a section: after its name or after the scan set.
ReadSet(str, begin, h, taken, b) ==
  LET closed == At(str, b.pos) = "]"
  IN  Section(str, begin, h, "[", IF closed THEN b.pos + 1 ELSE b.pos, taken.p, taken.arg, closed, b.set)

ReadName(str, begin, h, name, pos, taken) ==
  IF name = "[" THEN ReadSet(str, begin, h, taken, Bracket(str, pos + 1))
  ELSE Section(str, begin, h, name, IF name = "NUL" THEN pos ELSE pos + 1, taken.p, taken.arg,
               name # "NUL", {})

\* Every conversion without a star takes an argument, %% too.
ReadArgument(str, nargs, p, begin, h, pos) ==
  ReadName(str, begin, h, At(str, pos), pos,
           IF h.no_write THEN [p |-> p, arg |-> 0] ELSE get_arg_value(nargs, p, h.index))

\* The width, if there are digits.
ReadWidth(str, nargs, p, index, star, i, w) ==
  LET has == isdigit(At(str, i))
  IN  ReadArgument(str, nargs, p, p.pos,
                   [index |-> index, no_write |-> star, width |-> IF has THEN w.value ELSE -1],
                   parse_length_modifier(str, IF has THEN i + w.len ELSE i))

ReadStar(str, nargs, p, conv) ==
  LET star == At(str, conv.pos) = "*"
      i == IF star THEN conv.pos + 1 ELSE conv.pos
  IN  ReadWidth(str, nargs, p, conv.index, star, i, ReadInt(str, i))

RECURSIVE RawEnd(_, _)
RawEnd(str, i) == IF At(str, i) \in {"%", "NUL"} THEN i ELSE RawEnd(str, i + 1)

\* [p, section] for the section that starts at p.pos.
get_next_section(str, nargs, p) ==
  IF At(str, p.pos) = "%" THEN ReadStar(str, nargs, p, parse_index(str, p.pos + 1))
  ELSE [p |-> [p EXCEPT !.pos = RawEnd(str, p.pos)],
        section |-> [has_conv |-> FALSE, raw |-> SubSeq(str, p.pos + 1, RawEnd(str, p.pos))]]

(***************************************************************************)
(* Matching.  The readers are one character ahead: cur is [c, r].          *)
(***************************************************************************)
Matched(r, ret, out) == [r |-> r, ret |-> ret, out |-> out]

RECURSIVE SkipSpaces(_)
SkipSpaces(cur) == IF isspace(cur.c) THEN SkipSpaces(getc(cur.r)) ELSE cur

RECURSIVE MatchFrom(_, _, _, _)
MatchFrom(cur, raw, i, out) ==
  IF i > Len(raw) THEN Matched(ungetc(cur), "READ_OK", out)
  ELSE IF isspace(raw[i]) THEN MatchFrom(SkipSpaces(cur), raw, i + 1, out)
  ELSE IF raw[i] = cur.c THEN MatchFrom(getc(cur.r), raw, i + 1, out)
  ELSE Matched(ungetc(cur), "MATCHING_FAILURE", out)

raw_match(reader, raw, out) == MatchFrom(getc(reader), raw, 1, out)

\* What convert_string has stored when it stops: all but %c end in NUL.
Stop(cur, s, got, out) ==
  Matched(ungetc(cur), IF got = <<>> THEN "MATCHING_FAILURE" ELSE "READ_OK",
          IF s.no_write THEN out
          ELSE [out EXCEPT ![s.arg] = IF s.name = "c" THEN got ELSE Append(got, "NUL")])

RECURSIVE Collect(_, _, _, _, _)
Collect(cur, s, max_width, got, out) ==
  IF \/ Len(got) >= max_width \/ cur.c = "NUL"
     \/ s.name = "s" /\ isspace(cur.c)
     \/ s.name = "[" /\ cur.c \notin s.set
  THEN Stop(cur, s, got, out)
  ELSE Collect(getc(cur.r), s, max_width, Append(got, cur.c), out)

convert_string(reader, s, out) ==
  Collect(getc(reader), s,
          IF s.max_width > 0 THEN s.max_width ELSE IF s.name = "c" THEN 1 ELSE INT_MAX, <<>>, out)

\* convert, and scanf_main's own match of a section without a conversion.
convert(reader, s, out) ==
  IF ~s.has_conv THEN raw_match(reader, s.raw, out)
  ELSE CASE s.name = "%" -> raw_match(reader, <<"%">>, out)
         [] s.name = "s" -> convert_string(raw_match(reader, <<" ">>, out).r, s, out)
         [] s.name \in {"c", "["} -> convert_string(reader, s, out)
         [] OTHER -> raw_match(reader, s.raw, out)

\* The sections in their order until one fails; the parser has then read one more.
Finish(m, p, conversions) ==
  [r |-> m.r, p |-> p, out |-> m.out,
   ret |-> IF conversions = 0 /\ m.ret # "READ_OK" THEN -1 ELSE conversions]

RECURSIVE ScanfLoop(_, _, _, _, _)
ScanfConverted(str, nargs, p, conversions, s, m) ==
  ScanfLoop(str, nargs, get_next_section(str, nargs, p),
            IF s.has_conv /\ m.ret = "READ_OK" THEN conversions + 1 ELSE conversions, m)

ScanfLoop(str, nargs, next, conversions, m) ==
  IF next.section.raw = <<>> \/ m.ret # "READ_OK" \/ next.p.bad THEN Finish(m, next.p, conversions)
  ELSE ScanfConverted(str, nargs, next.p, conversions, next.section,
                      convert(m.r, next.section, m.out))

scanf_main(reader, str, nargs) ==
  ScanfLoop(str, nargs, get_next_section(str, nargs, Parser), 0,
            Matched(reader, "READ_OK", [a \in 1 .. nargs |-> <<>>]))

(***************************************************************************)
(* What scanf should do.  An item of a format is [name, w, star, v]: raw   *)
(* text or a conversion; v is the text or the members of the set, as       *)
(* [invert, members], each member one character or the two ends of a range.*)
(***************************************************************************)
SetText(v) ==
  (IF v.invert THEN <<"^">> ELSE <<>>)
  \o FlattenSeq([k \in 1 .. Len(v.members) |->
                   IF Len(v.members[k]) = 1 THEN v.members[k]
                   ELSE <<v.members[k][1], "-", v.members[k][2]>>])

Members(v) ==
  LET all == UNION {set_range(v.members[k][1], Last(v.members[k])) : k \in 1 .. Len(v.members)}
  IN  IF v.invert THEN ToSet(Alphabet) \ all ELSE all

Takes(item) == item.name # "raw" /\ ~item.star

\* The number of the argument that item k of the format takes.
Slot(items, k) == Len(SelectSeq(SubSeq(items, 1, k), Takes))

Written(items, k, perm, indexed) ==
  LET item == items[k]
  IN  IF item.name = "raw" THEN item.v
      ELSE <<"%">>
           \o (IF indexed /\ Takes(item) THEN Append(convert_uintmax(perm[Slot(items, k)], 10), "$") ELSE <<>>)
           \o (IF item.star THEN <<"*">> ELSE <<>>)
           \o (IF item.w > 0 THEN convert_uintmax(item.w, 10) ELSE <<>>)
           \o <<item.name>> \o (IF item.name = "[" THEN Append(SetText(item.v), "]") ELSE <<>>)

Format(items, perm, indexed) ==
  FlattenSeq([k \in 1 .. Len(items) |-> Written(items, k, perm, indexed)])

\* The longest prefix of text after position i with at most w characters of set.
Longest(text, i, w, set) ==
  Max({n \in 0 .. Min({w, Len(text) - i}) : \A j \in i + 1 .. i + n : text[j] \in set})

AnyNumber == 1000

Blanks(text, i) == i + Longest(text, i, AnyNumber, {" "})

\* [ok, pos, value] of the item that meets the text at position i.
FieldOf(text, i, w, set) ==
  LET n == Longest(text, i, w, set)
  IN  [ok |-> n > 0, pos |-> i + n, value |-> SubSeq(text, i + 1, i + n)]

RECURSIVE Raw(_, _, _)
Raw(text, i, raw) ==
  IF raw = <<>> THEN [ok |-> TRUE, pos |-> i, value |-> <<>>]
  ELSE IF Head(raw) = " " THEN Raw(text, Blanks(text, i), Tail(raw))
  ELSE IF At(text, i) = Head(raw) THEN Raw(text, i + 1, Tail(raw))
  ELSE [ok |-> FALSE, pos |-> i, value |-> <<>>]

Meets(item, text, i) ==
  LET w == IF item.w > 0 THEN item.w ELSE IF item.name = "c" THEN 1 ELSE AnyNumber
      any == ToSet(Alphabet)
  IN  CASE item.name = "raw" -> Raw(text, i, item.v)
        [] item.name = "%" -> Raw(text, i, <<"%">>)
        [] item.name = "s" -> FieldOf(text, Blanks(text, i), w, any \ {" "})
        [] item.name = "c" -> FieldOf(text, i, w, any)
        [] OTHER -> FieldOf(text, i, w, Members(item.v))

\* The items that are reached, each with what it met.
RECURSIVE MeetAll(_, _, _)
MeetAll(items, text, i) ==
  IF items = <<>> THEN <<>>
  ELSE LET m == Meets(Head(items), text, i)
       IN  <<m>> \o IF m.ok THEN MeetAll(Tail(items), text, m.pos) ELSE <<>>

\* What the argument of item k holds.
Value(items, met, k) ==
  IF k > Len(met) \/ items[k].name = "%" THEN <<>>
  ELSE IF items[k].name = "c" THEN met[k].value ELSE Append(met[k].value, "NUL")

AgreesWith(r, items, perm, met) ==
  LET done == {k \in 1 .. Len(met) : met[k].ok /\ items[k].name # "raw"}
      failed == \E k \in 1 .. Len(met) : ~met[k].ok
  IN  /\ ~r.p.bad
      /\ r.ret = IF done = {} /\ failed THEN -1 ELSE Cardinality(done)
      /\ \A k \in 1 .. Len(items) : Takes(items[k]) => r.out[perm[Slot(items, k)]] = Value(items, met, k)

Scans(items, text, str, perm, met) ==
  LET end == IF met = <<>> THEN 0 ELSE Last(met).pos
      rest == SubSeq(text, end + 1, Len(text))
      s == scanf_main(StringReader(text), str, Len(perm))
      f == scanf_main(FileReader(text), str, Len(perm))
  IN  /\ AgreesWith(s, items, perm, met) /\ AgreesWith(f, items, perm, met)
      /\ s.r.cur_index = end /\ s.r.chars_read = end
      /\ f.r.left = IF rest = <<>> /\ met # <<>> THEN <<"NUL">> ELSE rest

\* Each conversion takes the longest text that it may and stores it in its argument,
\* in order or by number; scanf stops at the first that finds none and says how many
\* came before it.  The string is read to that place and never past its end, and a
\* file is left there, with the NUL that stands for its end put back.
ScansFormat(items, text, perm, indexed) ==
  Scans(items, text, Format(items, perm, indexed), perm, MeetAll(items, text, 0))
=============================================================================
