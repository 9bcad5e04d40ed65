------------------------------- MODULE Writer -------------------------------
(***************************************************************************)
(* The output side of printf: Writer of src/stdio/printf_core/writer.cpp   *)
(* with StringWriter and FileWriter behind it.                             *)
(*                                                                         *)
(* A converter is a sequence of calls of Writer::write.  A call has a      *)
(* kind: a string, a character n times, or one character.  A sink is       *)
(* [kind, text, room, chars_written, result, stored]: a string has room    *)
(* for that many characters, a file takes that many and then fails.        *)
(***************************************************************************)
EXTENDS Numbers, FiniteSetsExt

CONSTANT BUFF_SIZE         \* the chunk of FileWriter::write_chars

Str(text) == [kind |-> "str", text |-> text, n |-> Len(text)]
Chars(c, n) == [kind |-> "chars", text |-> <<c>>, n |-> n]
Char(c) == [kind |-> "char", text |-> <<c>>, n |-> 1]

\* A write that the code makes only if there is something to write.
Some(c, n) == IF n > 0 THEN <<Chars(c, n)>> ELSE <<>>

Repeat(c, n) == [k \in 1 .. n |-> c]

Least(a, b) == IF a < b THEN a ELSE b

\* StringWriter::write: cut off at available_capacity.
StringWrite(sink, w) ==
  LET len == Least(w.n, sink.room)
  IN  [sink EXCEPT !.room = @ - len,
                   !.text = @ \o (IF w.kind = "str" THEN SubSeq(w.text, 1, len)
                                  ELSE Repeat(w.text[1], len))]

\* FileWriter::write on a file that takes room characters and then has an error.
FileWrite(sink, text) ==
  LET len == Least(Len(text), sink.room)
  IN  [sink EXCEPT !.room = @ - len, !.text = @ \o SubSeq(text, 1, len),
                   !.result = IF len < Len(text) THEN "FILE_STATUS_ERROR" ELSE "OK"]

\* write_chars: |buff| holds the character once and is zero after it.
RECURSIVE FileWriteChars(_, _, _)
FileWriteChars(sink, c, len) ==
  LET buff == <<c>> \o Repeat("NUL", BUFF_SIZE - 1)
      r == FileWrite(sink, buff)
  IN  IF len <= BUFF_SIZE THEN FileWrite(sink, SubSeq(buff, 1, len))
      ELSE IF r.result # "OK" THEN r ELSE FileWriteChars(r, c, len - BUFF_SIZE)

\* Writer::write counts before it writes.
Write(sink, w) ==
  LET counted == [sink EXCEPT !.chars_written = @ + w.n]
  IN  IF sink.kind = "string" THEN StringWrite(counted, w)
      ELSE IF w.kind = "chars" THEN FileWriteChars(counted, w.text[1], w.n)
      ELSE FileWrite(counted, w.text)

\* The calls one after the other, up to the first that fails.
WriteAll(sink, writes) ==
  FoldLeft(LAMBDA s, w : IF s.result = "OK" THEN Write(s, w) ELSE s, sink, writes)

StringSink(room) ==
  [kind |-> "string", text |-> <<>>, room |-> room, chars_written |-> 0, result |-> "OK",
   stored |-> <<>>]

FileSink(room) == [StringSink(room) EXCEPT !.kind = "file"]

(***************************************************************************)
(* What several converters share                                           *)
(***************************************************************************)
Left(s) == "-" \in s.flags

\* convert_char, and convert_string on the characters before the terminator.
Padded(s, body) ==
  LET padding == Some(" ", s.min_width - body.n)
  IN  IF Left(s) THEN <<body>> \o padding ELSE padding \o <<body>>

SignChar(negative, flags) ==
  IF negative THEN <<"-">> ELSE IF "+" \in flags THEN <<"+">>
  ELSE IF " " \in flags THEN <<" ">> ELSE <<>>
=============================================================================
