-------------------------------- MODULE File --------------------------------
(***************************************************************************)
(* The buffered stream of src/__support/File/file.cpp on the system calls  *)
(* of linux_file.cpp.  Every public operation holds the file's lock from   *)
(* its first to its last line, so it is one step; inside, it may make      *)
(* several system calls, of which one may fail.                            *)
(*                                                                         *)
(* f is the File object together with the kernel's side of it (disk and    *)
(* offset).  The operators below take it and return it changed, in the     *)
(* order of the code.  Bytes are numbers, a fresh one for every byte       *)
(* written, so that lost, repeated and reordered bytes are told apart.     *)
(*                                                                         *)
(* The clients keep the rule of C for update streams: between output and   *)
(* input there is a flush or a seek, between input and output a seek; they *)
(* stop when a write has failed.                                           *)
(***************************************************************************)
EXTENDS Integers, Sequences, FiniteSets, Bytes

CONSTANTS Modes,          \* mode strings, as sequences of characters
          Initial,        \* contents the file may have when it is opened
          BufSizes,       \* sizes for set_buffer; 0 is a null buffer
          Faults,         \* incomplete writes: where, and how much is written
          WriteSizes, ReadSizes, Offsets,
          DEFAULT_BUFFER_SIZE, MaxOps

Junk == -1                \* a byte of the buffer nobody has stored yet

VARIABLES f, mode, bufmode, closed,
          ops,            \* calls made: a bound
          next,           \* the next fresh byte
          dir,            \* "in" or "out": the last transfer since a flush or seek
          faulted,        \* bytes accepted from the client are lost or repeated
          req, res        \* the last call and its answer

vars == <<f, mode, bufmode, closed, ops, next, dir, faulted, req, res>>

\* File::mode_flags; the flag word is the set of the characters.
mode_flags(m) ==
  LET main == {k \in 1 .. Len(m) : m[k] \in {"r", "w", "a"}}
      flags == {m[k] : k \in 1 .. Len(m)}
  IN  IF /\ m # <<>> /\ 1 \in main /\ Cardinality(main) = 1
         /\ flags \subseteq {"r", "w", "a", "+", "b", "x"}
      THEN flags ELSE {}

write_allowed == mode \cap {"w", "a", "+"} # {}
read_allowed == mode \cap {"r", "+"} # {}

\* adjust_buf: a readable file has room for one ungetc.
adjust_buf(size) == IF read_allowed /\ size = 0 THEN 1 ELSE size

(***************************************************************************)
(* The platform functions: write_func, read_func and seek_func.            *)
(***************************************************************************)
\* w is how much of the write succeeds: all of it ("all"), at most one byte and
\* never all of it ("short"), or none and an error number ("error").
platform_write(g, d, w) ==
  LET n == IF w = "all" THEN Len(d) ELSE IF w = "error" THEN 0 ELSE Least(1, Len(d) - 1)
      k == IF "a" \in mode THEN Len(g.disk) ELSE g.offset
  IN  [f |-> [g EXCEPT !.disk = Overlay(@, k, SubSeq(d, 1, n)),
                       !.offset = IF n > 0 THEN k + n ELSE @],
       value |-> n, error |-> w = "error"]

Failed(r, n) == r.error \/ r.value < n

\* What a read of n bytes delivers from where the kernel is.
Fetched(g, n) == SubSeq(g.disk, g.offset + 1, Least(g.offset + n, Len(g.disk)))

(***************************************************************************)
(* Writing.  A fault is [site, kind]: which system call of the operation   *)
(* is incomplete, and how.                                                 *)
(***************************************************************************)
Sites == {"nbf_flush", "nbf_data", "fbf_flush", "fbf_rest", "flush"}

NoFault == [site |-> "none", kind |-> "all"]

\* Sizes are numbers of bytes; a stream has a buffer of its own when it is opened; a
\* file starts with bytes that are not among the fresh ones, which count from 1.
ASSUME StreamAssumption ==
  /\ DEFAULT_BUFFER_SIZE \in Nat \ {0}
  /\ BufSizes \subseteq Nat /\ WriteSizes \subseteq Nat /\ ReadSizes \subseteq Nat
  /\ Offsets \subseteq Int
  /\ \A contents \in Initial :
       contents \in Seq(Int) /\ \A n \in DOMAIN contents : contents[n] < 1
  /\ Faults \subseteq [site : Sites, kind : {"short", "error"}]

Outcome(fault, site, d) == IF fault.site = site /\ d # <<>> THEN fault.kind ELSE "all"

Buffered(g) == SubSeq(g.buf, 1, g.pos)

Result(g, n, e) == [f |-> g, value |-> n, error |-> e]

Flagged(g) == [g EXCEPT !.err = TRUE]

\* The buffer with d stored from index k on.
Stored(g, k, d) ==
  [n \in DOMAIN g.buf |-> IF n \in k + 1 .. k + Len(d) THEN d[n - k] ELSE g.buf[n]]

\* Mutant: an incomplete write does not set err.
nbf_data_unflagged(g, d, fault) ==
  LET r == platform_write(g, d, Outcome(fault, "nbf_data", d))
  IN  Result(r.f, r.value, r.error)

\* The second half of write_unlocked_nbf.
nbf_data(g, d, fault) ==
  LET r == platform_write(g, d, Outcome(fault, "nbf_data", d))
  IN  Result(IF r.value < Len(d) THEN Flagged(r.f) ELSE r.f, r.value, r.error)

write_unlocked_nbf(g, d, fault) ==
  IF g.pos = 0 THEN nbf_data(g, d, fault)
  ELSE LET r == platform_write(g, Buffered(g), Outcome(fault, "nbf_flush", Buffered(g)))
           emptied == [r.f EXCEPT !.pos = 0]
       IN  IF r.value < g.pos THEN Result(Flagged(emptied), 0, r.error)
           ELSE nbf_data(emptied, d, fault)

\* The remainder that is as large as the buffer: written directly.  bytes_written
\* is what the flush before it wrote (file.cpp:123), not what this write did.
fbf_rest(g, flushed, primary, rest, fault) ==
  LET r == platform_write(g, rest, Outcome(fault, "fbf_rest", rest))
      bytes_written == flushed
  IN  IF r.error \/ bytes_written < Len(rest)
      THEN Result(Flagged(r.f), Len(primary) + bytes_written, r.error)
      ELSE Result(r.f, Len(primary) + Len(rest), FALSE)

write_unlocked_fbf(g, d, fault) ==
  LET bufspace == Len(g.buf) - g.pos
      primary == SubSeq(d, 1, Least(Len(d), bufspace))
      rest == SubSeq(d, Len(primary) + 1, Len(d))
      filled == [g EXCEPT !.buf = Stored(g, g.pos, primary), !.pos = @ + Len(primary)]
      r == platform_write(filled, Buffered(filled),
                          Outcome(fault, "fbf_flush", Buffered(filled)))
      emptied == [r.f EXCEPT !.pos = 0]
  IN  IF Len(d) > bufspace + Len(g.buf) THEN write_unlocked_nbf(g, d, fault)
      ELSE IF rest = <<>> THEN Result(filled, Len(d), FALSE)
      ELSE IF Failed(r, filled.pos)
      THEN Result(Flagged(emptied), IF r.value <= g.pos THEN 0 ELSE r.value - g.pos, r.error)
      ELSE IF Len(rest) < Len(g.buf)
      THEN Result([emptied EXCEPT !.buf = Stored(emptied, 0, rest), !.pos = Len(rest)],
                  Len(d), FALSE)
      ELSE fbf_rest(emptied, r.value, primary, rest, fault)

\* flush_unlocked: a failure keeps pos, and so the bytes.  synced: fsync succeeds.
flush_unlocked(g, fault, synced) ==
  IF g.prev_op # "WRITE" \/ g.pos = 0 THEN Result(g, 0, FALSE)
  ELSE LET r == platform_write(g, Buffered(g), Outcome(fault, "flush", Buffered(g)))
       IN  IF Failed(r, g.pos) THEN Result(Flagged(r.f), 0, r.error)
           ELSE Result([r.f EXCEPT !.pos = 0], 0, ~synced)

\* nl is the place of the last newline of d, 0 if there is none.
write_unlocked_lbf(g, d, nl, fault) ==
  IF nl = 0 THEN write_unlocked_fbf(g, d, fault)
  ELSE LET first == write_unlocked_nbf(g, SubSeq(d, 1, nl), fault)
           flushed == flush_unlocked(first.f, fault, TRUE).f
           second == write_unlocked_fbf(flushed, SubSeq(d, nl + 1, Len(d)), fault)
           written == nl + second.value
       IN  IF first.value < nl THEN Result(Flagged(first.f), first.value, FALSE)
           ELSE IF written < Len(d) THEN Result(Flagged(second.f), written, FALSE)
           ELSE Result(second.f, Len(d), FALSE)

write_unlocked(g, d, nl, fault) ==
  LET h == [g EXCEPT !.prev_op = "WRITE"]
      n == write_unlocked_nbf(h, d, fault)
  IN  CASE bufmode = "_IOFBF" -> write_unlocked_fbf(h, d, fault)
        [] bufmode = "_IOLBF" -> write_unlocked_lbf(h, d, nl, fault)
        [] OTHER -> Result(flush_unlocked(n.f, fault, TRUE).f, n.value, FALSE)

(***************************************************************************)
(* Reading.  failing: the read system call reports an error.               *)
(***************************************************************************)
\* Mutant: a fetch that ends exactly at the end of the request sets eof.
NotedEarly(g, k, n, failing) ==
  [g EXCEPT !.eof = @ \/ (~failing /\ k <= n), !.err = @ \/ failing]

\* How a fetch of n bytes out of which k came is reported.
Noted(g, k, n, failing) ==
  [g EXCEPT !.eof = @ \/ (~failing /\ k < n), !.err = @ \/ failing]

read_unlocked(g, n, failing) ==
  LET available == g.read_limit - g.pos
      to_fetch == n - available
      bufsize == Len(g.buf)
      direct == to_fetch > bufsize
      got == IF failing THEN <<>> ELSE Fetched(g, IF direct THEN to_fetch ELSE bufsize)
      moved == [g EXCEPT !.prev_op = "READ", !.pos = 0, !.read_limit = 0,
                         !.offset = @ + Len(got)]
      transfer == Least(Len(got), to_fetch)
      refilled == [moved EXCEPT !.buf = Stored(g, 0, got), !.read_limit = Len(got),
                                !.pos = transfer]
  IN  IF n <= available
      THEN [f |-> [g EXCEPT !.prev_op = "READ", !.pos = @ + n],
            data |-> SubSeq(g.buf, g.pos + 1, g.pos + n), error |-> FALSE]
      ELSE [f |-> Noted(IF direct THEN moved ELSE refilled, Len(got), to_fetch, failing),
            data |-> SubSeq(g.buf, g.pos + 1, g.read_limit) \o SubSeq(got, 1, transfer),
            error |-> failing]

(***************************************************************************)
(* The operations                                                          *)
(***************************************************************************)
Open(m, contents) ==
  /\ mode = mode_flags(m) /\ mode # {}
  /\ bufmode = "_IOFBF" /\ closed = FALSE /\ ops = 0 /\ next = 1
  /\ dir = "none" /\ faulted = FALSE
  /\ req = [op |-> "open"] /\ res = [error |-> FALSE]
  /\ f = [disk |-> IF "w" \in mode THEN <<>> ELSE contents, offset |-> 0,
          buf |-> [n \in 1 .. DEFAULT_BUFFER_SIZE |-> Junk], pos |-> 0, read_limit |-> 0,
          prev_op |-> "NONE", eof |-> FALSE, err |-> FALSE]

Init == \E m \in Modes, contents \in Initial : Open(m, contents)

\* set_buffer comes before every other operation.  Who owns the memory is left out.
set_buffer(size, m) ==
  /\ ops = 0 /\ ops' = 1
  /\ f' = [f EXCEPT !.buf = [n \in 1 .. adjust_buf(IF m = "_IONBF" THEN 0 ELSE size) |-> Junk]]
  /\ bufmode' = m
  /\ req' = [op |-> "set_buffer"] /\ res' = [error |-> FALSE]
  /\ UNCHANGED <<mode, closed, next, dir, faulted>>

\* A call of a client that has not been told of a loss.
Calling(r) ==
  /\ ~closed /\ ~faulted /\ ops < MaxOps
  /\ ops' = ops + 1 /\ req' = r
  /\ UNCHANGED <<mode, bufmode>>

\* The text of the file as the client knows it: with what is in the buffer.
Text(g) ==
  IF g.prev_op # "WRITE" THEN g.disk
  ELSE Overlay(g.disk, IF "a" \in mode THEN Len(g.disk) ELSE g.offset, Buffered(g))

\* With the fault the text is not what it is without it.
Loses(with, without) == Text(with) # Text(without)

Fresh(n) == [k \in 1 .. n |-> next + k - 1]

Write(n, nl, fault) ==
  LET d == Fresh(n)
      r == write_unlocked(f, d, nl, fault)
  IN  /\ dir # "in"
      /\ Calling([op |-> "write", data |-> d])
      /\ IF write_allowed
         THEN /\ f' = r.f /\ next' = next + n /\ dir' = "out"
              /\ res' = [error |-> r.error, value |-> r.value]
              /\ faulted' = Loses(r.f, write_unlocked(f, d, nl, NoFault).f)
         ELSE /\ f' = Flagged(f) /\ res' = [error |-> TRUE, value |-> 0]
              /\ UNCHANGED <<next, dir, faulted>>
      /\ UNCHANGED closed

Read(n, failing) ==
  LET r == read_unlocked(f, n, failing)
  IN  /\ dir # "out"
      /\ Calling([op |-> "read", size |-> n])
      /\ IF read_allowed
         THEN f' = r.f /\ res' = [error |-> r.error, data |-> r.data] /\ dir' = "in"
         ELSE f' = Flagged(f) /\ res' = [error |-> TRUE, data |-> <<>>] /\ UNCHANGED dir
      /\ UNCHANGED <<closed, next, faulted>>

\* Mutant: the test for too many pushed back bytes is left out.
UngetcUnchecked ==
  /\ Calling([op |-> "ungetc", data |-> <<next>>])
  /\ IF ~read_allowed \/ f.prev_op = "WRITE"
     THEN res' = [error |-> TRUE] /\ UNCHANGED <<f, next, dir>>
     ELSE LET k == IF f.read_limit = 0 THEN 0 ELSE f.pos - 1
          IN  /\ f' = [f EXCEPT !.buf = Stored(f, k, <<next>>), !.pos = k,
                                !.read_limit = IF @ = 0 THEN 1 ELSE @,
                                !.eof = FALSE, !.err = FALSE]
              /\ next' = next + 1 /\ dir' = "in" /\ res' = [error |-> FALSE]
  /\ UNCHANGED <<closed, faulted>>

Ungetc ==
  /\ Calling([op |-> "ungetc", data |-> <<next>>])
  /\ IF ~read_allowed \/ f.prev_op = "WRITE" \/ (f.read_limit # 0 /\ f.pos = 0)
     THEN res' = [error |-> TRUE] /\ UNCHANGED <<f, next, dir>>
     ELSE LET k == IF f.read_limit = 0 THEN 0 ELSE f.pos - 1
          IN  /\ f' = [f EXCEPT !.buf = Stored(f, k, <<next>>), !.pos = k,
                                !.read_limit = IF @ = 0 THEN 1 ELSE @,
                                !.eof = FALSE, !.err = FALSE]
              /\ next' = next + 1 /\ dir' = "in" /\ res' = [error |-> FALSE]
  /\ UNCHANGED <<closed, faulted>>

\* The flush inside seek and close: the bytes go out, pos is not touched.
Drained(fault) ==
  IF f.prev_op = "WRITE" /\ f.pos > 0
  THEN platform_write(f, Buffered(f), Outcome(fault, "flush", Buffered(f)))
  ELSE Result(f, f.pos, FALSE)

\* Mutant: the bytes in the buffer are forgotten.
AheadForgotten(whence) == 0

\* How far a SEEK_CUR has to go back over what was read ahead.
ReadAhead(whence) ==
  IF f.prev_op = "READ" /\ whence = "SEEK_CUR" THEN f.read_limit - f.pos ELSE 0

\* A seek to before the beginning is refused by the kernel, after the buffer has
\* been given up.
Seek(offset, whence, fault) ==
  LET r == Drained(fault)
      target == offset - ReadAhead(whence) +
                (CASE whence = "SEEK_SET" -> 0
                  [] whence = "SEEK_CUR" -> r.f.offset
                  [] whence = "SEEK_END" -> Len(r.f.disk))
  IN  /\ Calling([op |-> "seek", offset |-> offset, whence |-> whence])
      /\ IF Failed(r, f.pos)
         THEN /\ f' = Flagged(r.f) /\ res' = [error |-> TRUE]
              /\ faulted' = Loses(r.f, f) /\ UNCHANGED dir
         ELSE /\ f' = [r.f EXCEPT !.pos = 0, !.read_limit = 0, !.prev_op = "SEEK",
                                  !.eof = FALSE, !.offset = IF target < 0 THEN @ ELSE target]
              /\ res' = [error |-> target < 0] /\ dir' = "none" /\ UNCHANGED faulted
      /\ UNCHANGED <<closed, next>>

\* lseek with SEEK_END moves the kernel's offset when eof is set.
Tell ==
  LET o == IF f.eof THEN Len(f.disk) ELSE f.offset
  IN  /\ Calling([op |-> "tell"])
      /\ f' = [f EXCEPT !.offset = o]
      /\ res' = [error |-> FALSE,
                 value |-> CASE f.prev_op = "READ" -> o - (f.read_limit - f.pos)
                             [] f.prev_op = "WRITE" -> o + f.pos
                             [] OTHER -> o]
      /\ UNCHANGED <<closed, next, dir, faulted>>

Flush(fault, synced) ==
  LET r == flush_unlocked(f, fault, synced)
  IN  /\ Calling([op |-> "flush"])
      /\ f' = r.f /\ res' = [error |-> r.error]
      /\ faulted' = Loses(r.f, f)
      /\ dir' = IF dir = "out" /\ r.f.pos = 0 THEN "none" ELSE dir
      /\ UNCHANGED <<closed, next>>

Clearerr ==
  /\ f.err /\ Calling([op |-> "clearerr"])
  /\ f' = [f EXCEPT !.err = FALSE] /\ res' = [error |-> FALSE]
  /\ UNCHANGED <<closed, next, dir, faulted>>

\* A flush that fails leaves the file open; SYS_close gives the descriptor up
\* whatever it answers.
Close(fault, answer) ==
  LET r == Drained(fault)
  IN  /\ Calling([op |-> "close"])
      /\ IF Failed(r, f.pos)
         THEN /\ f' = Flagged(r.f) /\ res' = [error |-> TRUE]
              /\ faulted' = Loses(r.f, f) /\ UNCHANGED closed
         ELSE /\ f' = r.f /\ closed' = TRUE
              /\ res' = [error |-> answer] /\ UNCHANGED faulted
      /\ UNCHANGED <<next, dir>>

\* The faults an operation with these write system calls can meet.
FaultsAt(sites) == {fault \in Faults : fault.site \in sites} \cup {NoFault}

Next ==
  \/ \E size \in BufSizes, m \in {"_IOFBF", "_IOLBF", "_IONBF"} : set_buffer(size, m)
  \/ \E n \in WriteSizes, fault \in FaultsAt(Sites \ {"flush"}) :
       \E nl \in 0 .. (IF bufmode = "_IOLBF" THEN n ELSE 0) : Write(n, nl, fault)
  \/ \E n \in ReadSizes, failing \in BOOLEAN : Read(n, failing)
  \/ \E fault \in FaultsAt({"flush"}), offset \in Offsets,
       whence \in {"SEEK_SET", "SEEK_CUR", "SEEK_END"} : Seek(offset, whence, fault)
  \/ \E fault \in FaultsAt({"flush"}), b \in BOOLEAN : Flush(fault, b) \/ Close(fault, b)
  \/ Ungetc \/ Tell \/ Clearerr

Spec == Init /\ [][Next]_vars

(***************************************************************************)
(* Properties                                                              *)
(***************************************************************************)
\* The two indices stay inside the buffer, and a reader's pos never passes
\* read_limit: "read_limit is always greater than equal to pos, available_data
\* is never a wrapped around value" (file.cpp:194), which holds because the
\* clients do not turn from output to input without a flush that succeeds.
BufferInBounds ==
  /\ f.pos \in 0 .. Len(f.buf) /\ f.read_limit \in 0 .. Len(f.buf)
  /\ dir # "out" => f.pos <= f.read_limit

Contents == IF closed THEN f.disk ELSE Text(f)

Position ==
  IF f.prev_op # "WRITE" \/ f.pos = 0 THEN f.offset - (f.read_limit - f.pos)
  ELSE IF "a" \in mode THEN Len(Text(f)) ELSE f.offset + f.pos

Ahead ==
  IF f.prev_op = "WRITE" THEN From(Text(f), Position)
  ELSE SubSeq(f.buf, f.pos + 1, f.read_limit) \o From(f.disk, f.offset)

S == INSTANCE AbstractStream WITH append <- "a" \in mode, text <- Contents,
                                  at <- Position, ahead <- Ahead

\* The buffered stream implements the stream of AbstractStream, under every kind
\* of buffering and whatever mixture of calls refills, drains and drops the
\* buffer: what is read is what was written, at the position tell() reports, also
\* when a flush fails and is tried again.  Up to the first loss.
ImplementsStream == [][faulted' \/ S!Next]_<<Contents, Position, Ahead, req, res>>

\* A stream that has lost bytes of its client has its error flag set: "If less
\* bytes were written than expected, then an error occurred" (file.cpp:45, 104,
\* 125).
LossIsReported == faulted => f.err

\* The end-of-file flag tells the truth: nothing is left to be read, in the buffer
\* or in the file, until a seek or an ungetc clears it.
EofIsTheEnd == f.eof => Ahead = <<>>
=============================================================================
