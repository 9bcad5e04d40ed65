--------------------------- MODULE AbstractStream ---------------------------
(***************************************************************************)
(* What a C stream promises its client: a text, a position in it, and what *)
(* reading from there would deliver.  There is no buffer.  A step is the   *)
(* answer res to the call req.                                             *)
(***************************************************************************)
EXTENDS Integers, Sequences, Bytes

VARIABLES append,         \* the stream writes at the end of the text only
          text, at,       \* the contents of the file, and the position
          ahead,          \* what a reader gets: the text from at on, or after ungetc
          req, res        \* the last call and the answer to it

\* A byte was pushed back and has not been read again: C leaves the position
\* unspecified.
Pushed == ahead # From(text, at)

Fails == res'.error

\* All of the data is written at the position, or, on an append stream, at the end.
\* Writing nothing does not move the position.
Write ==
  /\ req'.op = "write" /\ ~Fails
  /\ res'.value = Len(req'.data)
  /\ text' = IF append THEN text \o req'.data ELSE Overlay(text, at, req'.data)
  /\ at' = IF append /\ req'.data # <<>> THEN Len(text') ELSE at + Len(req'.data)

\* As many bytes are read as were asked for or are left; an error may cut it short.
Read ==
  /\ req'.op = "read"
  /\ res'.data = SubSeq(ahead, 1, Len(res'.data))
  /\ ~Fails => Len(res'.data) = Least(req'.size, Len(ahead))
  /\ ahead' = From(ahead, Len(res'.data)) /\ at' = at + Len(res'.data)
  /\ UNCHANGED text

Ungetc ==
  /\ req'.op = "ungetc" /\ ~Fails
  /\ ahead' = req'.data \o ahead /\ at' = at - 1
  /\ UNCHANGED text

Target ==
  req'.offset + (CASE req'.whence = "SEEK_SET" -> 0
                   [] req'.whence = "SEEK_CUR" -> at
                   [] req'.whence = "SEEK_END" -> Len(text))

\* What was pushed back is forgotten.
Seek ==
  /\ req'.op = "seek" /\ ~Fails
  /\ (req'.whence = "SEEK_CUR" /\ Pushed) \/ at' = Target
  /\ ahead' = From(text, at')
  /\ UNCHANGED text

\* The text is as before, but the position is lost.
SeekFails == req'.op = "seek" /\ Fails /\ UNCHANGED text

\* An append stream need not know where its text ends before it is flushed, and
\* a position beyond the end of the text may be brought back to the end.
Tell ==
  /\ req'.op = "tell" /\ ~Fails
  /\ \/ append \/ Pushed \/ res'.value = at
     \/ at > Len(text) /\ res'.value = Len(text)
  /\ at' = at \/ (at > Len(text) /\ at' = res'.value)
  /\ UNCHANGED <<text, ahead>>

\* setvbuf, flush and clearerr, and calls that are refused.
Nothing ==
  /\ req'.op \in {"set_buffer", "flush", "clearerr"} \/ (Fails /\ req'.op # "read")
  /\ UNCHANGED <<text, at, ahead>>

\* Everything that was written is in the file.
Close == req'.op = "close" /\ UNCHANGED text

Next == Write \/ Read \/ Ungetc \/ Seek \/ SeekFails \/ Tell \/ Nothing \/ Close
=============================================================================
