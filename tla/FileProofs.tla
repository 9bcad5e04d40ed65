----------------------------- MODULE FileProofs -----------------------------
(***************************************************************************)
(* Theorems about File for every mode, every contents, every size of the   *)
(* buffer and every length of a transfer.                                  *)
(***************************************************************************)
EXTENDS FileLemmas

(***************************************************************************)
(* The inductive invariant.  What a stream may look like depends on what   *)
(* its client did last: nothing since a flush or a seek, output, or input. *)
(***************************************************************************)
\* A byte pushed back before anything was read is the only one in the buffer, and no
\* byte of the file.
PushedAlone(g) ==
  g.prev_op \in {"NONE", "SEEK"} /\ g.read_limit > 0 =>
    /\ g.read_limit = 1 /\ g.pos = 0
    /\ \A n \in 1 .. Len(g.disk) : g.disk[n] # g.buf[1]

Shape(g, b, d, m) ==
  /\ Sound(g, b)
  /\ read_allowed => Len(g.buf) > 0
  /\ d = "none" => g.pos = 0 /\ g.read_limit = 0
  /\ d = "out" => /\ g.prev_op = "WRITE" /\ g.read_limit = 0 /\ Rising(g)
                  /\ m = "_IONBF" => g.pos = 0
  /\ d = "in" => g.prev_op # "WRITE" /\ g.pos <= g.read_limit
  /\ g.eof => /\ d = "in" /\ g.prev_op = "READ"
              /\ g.pos = g.read_limit /\ Len(g.disk) <= g.offset
  /\ PushedAlone(g)

StreamInv ==
  /\ next \in Nat \ {0} /\ ops \in Nat
  /\ bufmode \in {"_IOFBF", "_IOLBF", "_IONBF"} /\ dir \in {"none", "out", "in"}
  /\ closed \in BOOLEAN /\ faulted \in BOOLEAN
  /\ Shape(f, next, dir, bufmode)
  /\ ops = 0 => dir = "none" /\ f.prev_op = "NONE" /\ ~faulted
  /\ faulted => f.err \/ ShortRest \in Faults

\* Position and Ahead of a stream.
PositionOf(g) ==
  IF g.prev_op # "WRITE" \/ g.pos = 0 THEN PlaceOf(g)
  ELSE IF "a" \in mode THEN Len(Text(g)) ELSE g.offset + g.pos

LaterOf(g) == IF g.prev_op = "WRITE" THEN From(Text(g), PositionOf(g)) ELSE AheadOf(g)

\* What the abstract stream sees before and after a step that leaves mode alone.
LEMMA Views ==
  ASSUME mode' = mode
  PROVE  /\ Position = PositionOf(f) /\ Position' = PositionOf(f')
         /\ Ahead = LaterOf(f) /\ Ahead' = LaterOf(f')
         /\ Contents = (IF closed THEN f.disk ELSE Text(f))
         /\ Contents' = (IF closed' THEN f'.disk ELSE Text(f'))
  BY DEF Position, PositionOf, PlaceOf, Ahead, LaterOf, AheadOf, Contents, Text, Buffered

\* A stream with nothing that waits to be written.
LEMMA ReaderView ==
  ASSUME NEW g, NEW b \in Nat \ {0}, Reading(g, b),
         g.prev_op # "WRITE" \/ (g.pos = 0 /\ g.read_limit = 0)
  PROVE  /\ Text(g) = g.disk /\ PositionOf(g) = PlaceOf(g) /\ LaterOf(g) = AheadOf(g)
         /\ PlaceOf(g) \in Int /\ AheadOf(g) \in Seq(Int)
         /\ g.read_limit = 0 => AheadOf(g) = From(g.disk, g.offset) /\ PlaceOf(g) = g.offset
<1>1. /\ g.disk \in Seq(Int) /\ g.buf \in Seq(Int) /\ g.offset \in Nat /\ g.pos \in Nat
      /\ g.read_limit \in Nat /\ g.pos <= g.read_limit /\ g.read_limit <= Len(g.buf)
  BY DEF Reading, Sound, Streams
<1>2. PlaceOf(g) \in Int /\ (g.read_limit = 0 => PlaceOf(g) = g.offset)
  BY <1>1 DEF PlaceOf
<1>3. From(g.disk, g.offset) \in Seq(Int)
  BY <1>1 DEF From
<1>4. SubSeq(g.buf, g.pos + 1, g.read_limit) \in Seq(Int)
  BY <1>1
<1>5. AheadOf(g) \in Seq(Int)
  BY <1>3, <1>4, ConcatProperties, Zenon DEF AheadOf
<1>6. g.read_limit = 0 => AheadOf(g) = From(g.disk, g.offset)
  <2> SUFFICES ASSUME g.read_limit = 0 PROVE AheadOf(g) = From(g.disk, g.offset)
    OBVIOUS
  <2>1. SubSeq(g.buf, g.pos + 1, g.read_limit) = <<>>
    BY <1>1
  <2>2. <<>> \o From(g.disk, g.offset) = From(g.disk, g.offset)
    BY <1>3, ConcatEmptySeq, Zenon
  <2> QED
    BY <2>1, <2>2, Zenon DEF AheadOf
<1>7. CASE g.prev_op # "WRITE"
  BY <1>2, <1>5, <1>6, <1>7 DEF Text, PositionOf, LaterOf
<1>8. CASE g.prev_op = "WRITE" /\ g.pos = 0 /\ g.read_limit = 0
  <2>1. Buffered(g) = <<>>
    BY <1>1, <1>8 DEF Buffered
  <2>2. \A k \in Nat : Overlay(g.disk, k, <<>>) = g.disk
    BY <1>1, OverlayNothing
  <2>3. (IF "a" \in mode THEN Len(g.disk) ELSE g.offset) \in Nat
    BY <1>1
  <2>4. Text(g) = g.disk
    BY <1>8, <2>1, <2>2, <2>3 DEF Text
  <2>5. PositionOf(g) = g.offset
    BY <1>2, <1>8 DEF PositionOf
  <2> QED
    BY <1>2, <1>5, <1>6, <1>8, <2>4, <2>5 DEF LaterOf
<1> QED
  BY <1>7, <1>8

\* A stream that is written to.
LEMMA WriterView ==
  ASSUME NEW g, NEW b \in Nat \ {0}, Writing(g, b)
  PROVE  /\ PositionOf(g) = IF "a" \in mode /\ g.pos = 0 THEN g.offset ELSE Spot(g) + g.pos
         /\ LaterOf(g) = From(Text(g), PositionOf(g))
<1>1. /\ g.disk \in Seq(Int) /\ g.offset \in Nat /\ g.pos \in Nat
      /\ g.read_limit = 0 /\ g.prev_op = "WRITE"
  BY DEF Writing, Sound, Streams
<1>2. "a" \in mode => Len(Text(g)) = Spot(g) + g.pos
  BY TextIs
<1>3. PlaceOf(g) = g.offset + g.pos
  BY <1>1 DEF PlaceOf
<1> QED
  BY <1>1, <1>2, <1>3 DEF PositionOf, LaterOf, Spot

\* The invariant after a step that leaves mode alone.
LEMMA InvAfter ==
  ASSUME mode' = mode, next' \in Nat \ {0}, ops' \in Nat, ops' # 0,
         bufmode' \in {"_IOFBF", "_IOLBF", "_IONBF"}, dir' \in {"none", "out", "in"},
         closed' \in BOOLEAN, faulted' \in BOOLEAN,
         Shape(f', next', dir', bufmode'), faulted' => f'.err \/ ShortRest \in Faults
  PROVE  StreamInv'
<1>1. Shape(f, next, dir, bufmode)'
  BY DEF Shape, Sound, Rising, PushedAlone, Below, read_allowed
<1> QED
  BY <1>1 DEF StreamInv

LEMMA InvInit == Init => StreamInv
<1> SUFFICES ASSUME NEW m \in Modes, NEW contents \in Initial, Open(m, contents) PROVE StreamInv
  BY DEF Init
<1>1. contents \in Seq(Int) /\ Below(contents, 1)
  BY StreamAssumption DEF Below
<1>2. f.disk \in Seq(Int) /\ Below(f.disk, 1)
  <2>1. CASE "w" \in mode
    <3>1. f.disk = <<>>
      BY <2>1 DEF Open
    <3> QED
      BY <3>1 DEF Below
  <2>2. CASE ~("w" \in mode)
    BY <1>1, <2>2 DEF Open
  <2> QED
    BY <2>1, <2>2
<1>3. f.buf \in Seq(Int) /\ Len(f.buf) = DEFAULT_BUFFER_SIZE /\ Below(f.buf, 1)
  <2>1. f.buf = [n \in 1 .. DEFAULT_BUFFER_SIZE |-> Junk] /\ Junk = -1
    BY DEF Open, Junk
  <2>2. DEFAULT_BUFFER_SIZE \in Nat
    BY StreamAssumption
  <2> QED
    BY <2>1, <2>2 DEF Below
<1>4. DEFAULT_BUFFER_SIZE > 0
  BY StreamAssumption
<1>5. /\ f.pos = 0 /\ f.read_limit = 0 /\ f.offset = 0 /\ f.prev_op = "NONE"
      /\ f.eof = FALSE /\ f.err = FALSE
  BY DEF Open
<1>6. PICK d \in Seq(Int), v \in Seq(Int) :
        f = [disk |-> d, offset |-> 0, buf |-> v, pos |-> 0, read_limit |-> 0,
             prev_op |-> "NONE", eof |-> FALSE, err |-> FALSE]
  <2> DEFINE d == IF "w" \in mode THEN <<>> ELSE contents
             v == [n \in 1 .. DEFAULT_BUFFER_SIZE |-> Junk]
  <2>1. f = [disk |-> d, offset |-> 0, buf |-> v, pos |-> 0, read_limit |-> 0,
             prev_op |-> "NONE", eof |-> FALSE, err |-> FALSE]
    BY DEF Open
  <2> HIDE DEF d, v
  <2>2. f.disk = d /\ f.buf = v
    BY <2>1
  <2> QED
    BY <1>2, <1>3, <2>1, <2>2, Zenon
<1>7. f \in Streams
  BY <1>6 DEF Streams
<1>8. Sound(f, 1)
  <2>1. Len(f.buf) \in Nat
    BY <1>3
  <2> QED
    BY <1>2, <1>3, <1>5, <1>7, <2>1 DEF Sound
<1>9. /\ next = 1 /\ ops = 0 /\ bufmode = "_IOFBF" /\ dir = "none" /\ closed \in BOOLEAN
      /\ faulted \in BOOLEAN /\ ~faulted
  BY Zenon DEF Open
<1>10. Shape(f, next, dir, bufmode)
  BY <1>3, <1>4, <1>5, <1>8, <1>9 DEF Shape, PushedAlone
<1>11. next \in Nat \ {0} /\ ops \in Nat
  BY <1>9
<1> QED
  BY <1>5, <1>9, <1>10, <1>11, Zenon DEF StreamInv

\* A new buffer, before anything else is done.
LEMMA SetBufferStep ==
  ASSUME StreamInv, NEW size \in BufSizes, NEW m \in {"_IOFBF", "_IOLBF", "_IONBF"},
         set_buffer(size, m)
  PROVE  StreamInv' /\ (faulted' \/ S!Next)
<1> DEFINE k == adjust_buf(IF m = "_IONBF" THEN 0 ELSE size)
           buf == [n \in 1 .. k |-> Junk]
<1>1. /\ Sound(f, next) /\ f \in Streams /\ f.pos = 0 /\ f.read_limit = 0 /\ f.prev_op = "NONE"
      /\ f.eof = FALSE /\ ~faulted /\ next \in Nat \ {0} /\ dir = "none" /\ closed \in BOOLEAN
      /\ faulted \in BOOLEAN
  BY DEF StreamInv, Shape, Sound, set_buffer, Streams
<1>2. /\ f' = [f EXCEPT !.buf = buf] /\ mode' = mode /\ closed' = closed /\ next' = next
      /\ dir' = dir /\ faulted' = faulted /\ bufmode' = m /\ ops' = 1
      /\ req' = [op |-> "set_buffer"] /\ res' = [error |-> FALSE]
  BY DEF set_buffer
<1>3. k \in Nat /\ (read_allowed => k > 0)
  <2>1. size \in Nat
    BY StreamAssumption
  <2> QED
    BY <2>1 DEF adjust_buf
<1>4. buf \in Seq(Int) /\ Len(buf) = k /\ Below(buf, next)
  <2> HIDE DEF k
  <2>1. buf \in Seq(Int) /\ Len(buf) = k
    BY <1>3 DEF Junk
  <2>2. \A n \in 1 .. k : buf[n] = -1
    BY DEF Junk
  <2>3. -1 < next
    BY <1>1
  <2> QED
    BY <2>1, <2>2, <2>3, Zenon DEF Below
<1> HIDE DEF k, buf
<1>5. /\ f' \in Streams /\ f'.buf = buf /\ f'.pos = 0 /\ f'.read_limit = 0 /\ f'.disk = f.disk
      /\ f'.offset = f.offset /\ f'.prev_op = "NONE" /\ f'.eof = FALSE /\ f'.err = f.err
  BY <1>1, <1>2, <1>4, Zenon DEF Streams
<1>6. Sound(f', next)
  BY <1>1, <1>3, <1>4, <1>5 DEF Sound
<1>7. Shape(f', next', dir', bufmode')
  BY <1>1, <1>2, <1>3, <1>4, <1>5, <1>6 DEF Shape, PushedAlone
<1>8. StreamInv'
  <2>1. /\ mode' = mode /\ next' \in Nat \ {0} /\ ops' \in Nat /\ ops' # 0
        /\ bufmode' \in {"_IOFBF", "_IOLBF", "_IONBF"} /\ dir' \in {"none", "out", "in"}
        /\ closed' \in BOOLEAN /\ faulted' \in BOOLEAN /\ ~faulted'
    BY <1>1, <1>2
  <2> QED
    BY <1>7, <2>1, InvAfter
<1>9. Reading(f, next) /\ Reading(f', next)
  BY <1>1, <1>5, <1>6 DEF Reading
<1>10. /\ Text(f) = f.disk /\ PositionOf(f) = f.offset /\ LaterOf(f) = From(f.disk, f.offset)
  BY <1>1, <1>9, ReaderView
<1>11. /\ Text(f') = f'.disk /\ PositionOf(f') = f'.offset
       /\ LaterOf(f') = From(f'.disk, f'.offset)
  BY <1>1, <1>5, <1>9, ReaderView
<1>12. Contents' = Contents /\ Position' = Position /\ Ahead' = Ahead
  BY <1>2, <1>5, <1>10, <1>11, Views
<1>13. S!Nothing
  BY <1>2, <1>12 DEF S!Nothing
<1> QED
  BY <1>8, <1>13 DEF S!Next

\* AbstractStream has the operators on bytes that File has.
LEMMA SameOperators ==
  /\ \A s, k : S!From(s, k) = From(s, k)
  /\ \A s, k, d : S!Overlay(s, k, d) = Overlay(s, k, d)
  /\ \A a, b : S!Least(a, b) = Least(a, b)
  BY DEF S!From, From, S!Overlay, Overlay, S!Hole, Hole, S!Least, Least

\* The invariant after a call.
LEMMA InvCall ==
  ASSUME StreamInv, NEW r, Calling(r), next' \in Nat \ {0}, dir' \in {"none", "out", "in"},
         closed' \in BOOLEAN, faulted' \in BOOLEAN,
         Shape(f', next', dir', bufmode), faulted' => f'.err \/ ShortRest \in Faults
  PROVE  StreamInv'
<1>1. ops \in Nat /\ bufmode \in {"_IOFBF", "_IOLBF", "_IONBF"}
  BY DEF StreamInv
<1>2. mode' = mode /\ bufmode' = bufmode /\ ops' = ops + 1
  BY DEF Calling
<1>3. ops' \in Nat /\ ops' # 0
  BY <1>1, <1>2
<1> QED
  BY <1>1, <1>2, <1>3, InvAfter

\* Two streams that differ in their flags only.
LEMMA SameViews ==
  ASSUME NEW g, NEW h, h.disk = g.disk, h.offset = g.offset, h.buf = g.buf, h.pos = g.pos,
         h.read_limit = g.read_limit, h.prev_op = g.prev_op
  PROVE  Text(h) = Text(g) /\ PositionOf(h) = PositionOf(g) /\ LaterOf(h) = LaterOf(g)
<1>1. Text(h) = Text(g)
  BY DEF Text, Buffered
<1>2. PositionOf(h) = PositionOf(g)
  BY <1>1 DEF PositionOf, PlaceOf
<1> QED
  BY <1>1, <1>2 DEF LaterOf, AheadOf

LEMMA SameShape ==
  ASSUME NEW g, NEW h \in Streams, NEW b, NEW d, NEW m, Shape(g, b, d, m),
         h.disk = g.disk, h.offset = g.offset, h.buf = g.buf, h.pos = g.pos,
         h.read_limit = g.read_limit, h.prev_op = g.prev_op, h.eof = g.eof
  PROVE  Shape(h, b, d, m)
<1>1. Sound(h, b)
  BY DEF Shape, Sound
<1>2. PushedAlone(h)
  BY DEF Shape, PushedAlone
<1>3. Rising(g) => Rising(h)
  BY DEF Rising
<1> QED
  BY <1>1, <1>2, <1>3 DEF Shape

\* A call that changes the flag err at most.
LEMMA Quiet ==
  ASSUME StreamInv, NEW r, Calling(r), next' = next, closed' = closed,
         dir' \in {"none", "out", "in"}, Shape(f, next, dir', bufmode),
         ~faulted', faulted' \in BOOLEAN,
         f' \in Streams, f'.disk = f.disk, f'.offset = f.offset, f'.buf = f.buf,
         f'.pos = f.pos, f'.read_limit = f.read_limit, f'.prev_op = f.prev_op, f'.eof = f.eof
  PROVE  StreamInv' /\ Contents' = Contents /\ Position' = Position /\ Ahead' = Ahead
<1>1. Shape(f', next', dir', bufmode)
  BY SameShape
<1>2. next \in Nat \ {0} /\ closed \in BOOLEAN
  BY DEF StreamInv
<1>3. StreamInv'
  BY <1>1, <1>2, InvCall
<1>4. Text(f') = Text(f) /\ PositionOf(f') = PositionOf(f) /\ LaterOf(f') = LaterOf(f)
  BY SameViews
<1>5. mode' = mode
  BY DEF Calling
<1>6. Position' = Position /\ Ahead' = Ahead
  BY <1>4, <1>5, Views
<1>7. Contents' = Contents
  BY <1>4, <1>5, Views
<1> QED
  BY <1>3, <1>6, <1>7

\* Writing nothing leaves the stream as it is.
LEMMA WriteNothing ==
  ASSUME NEW g \in Streams, g.pos <= Len(g.buf), NEW fault,
         bufmode = "_IOFBF" \/ bufmode = "_IOLBF" \/ (bufmode = "_IONBF" /\ g.pos = 0)
  PROVE  write_unlocked(g, <<>>, 0, fault).f = [g EXCEPT !.prev_op = "WRITE"]
<1> DEFINE h == [g EXCEPT !.prev_op = "WRITE"]
<1>1. /\ h \in Streams /\ h.pos = g.pos /\ h.buf = g.buf /\ h.disk = g.disk
      /\ h.offset = g.offset
  BY DEF Streams
<1>2. /\ h.pos \in Nat /\ h.buf \in Seq(Int) /\ Len(h.buf) \in Nat /\ h.pos <= Len(h.buf)
      /\ h.disk \in Seq(Int) /\ h.offset \in Nat
  BY <1>1 DEF Streams
<1> HIDE DEF h
<1>3. write_unlocked_fbf(h, <<>>, fault).f = h
  <2>1. Stored(h, h.pos, <<>>) = h.buf
    <3>1. \A n \in DOMAIN h.buf : ~(n \in h.pos + 1 .. h.pos + Len(<<>>))
      BY <1>2
    <3> QED
      BY <1>2, <3>1 DEF Stored
  <2>2. [h EXCEPT !.buf = Stored(h, h.pos, <<>>), !.pos = h.pos + 0] = h
    <3>1. h.pos + 0 = h.pos
      BY <1>2
    <3>2. [h EXCEPT !.buf = h.buf, !.pos = h.pos] = h
      BY <1>1, Zenon DEF Streams
    <3> QED
      BY <2>1, <3>1, <3>2, Zenon
  <2>3. SubSeq(<<>>, 1, Least(Len(<<>>), Len(h.buf) - h.pos)) = <<>>
    BY <1>2 DEF Least
  <2>4. SubSeq(<<>>, Len(<<>>) + 1, Len(<<>>)) = <<>> /\ Len(<<>>) = 0
    OBVIOUS
  <2>5. ~(Len(<<>>) > Len(h.buf) - h.pos + Len(h.buf))
    BY <1>2
  <2> QED
    BY <2>2, <2>3, <2>4, <2>5, Zenon DEF write_unlocked_fbf, Result
<1>4. h.pos = 0 => flush_unlocked(write_unlocked_nbf(h, <<>>, fault).f, fault, TRUE).f = h
  <2> SUFFICES ASSUME h.pos = 0
               PROVE  flush_unlocked(write_unlocked_nbf(h, <<>>, fault).f, fault, TRUE).f = h
    BY Zenon
  <2>1. Outcome(fault, "nbf_data", <<>>) = "all"
    BY DEF Outcome
  <2> DEFINE k == IF "a" \in mode THEN Len(h.disk) ELSE h.offset
  <2>2. Overlay(h.disk, k, SubSeq(<<>>, 1, 0)) = h.disk
    <3>1. k \in Nat /\ SubSeq(<<>>, 1, 0) = <<>>
      BY <1>2
    <3> HIDE DEF k
    <3> QED
      BY <1>2, <3>1, OverlayNothing, Zenon
  <2>3. /\ platform_write(h, <<>>, "all").f = [h EXCEPT !.disk = h.disk, !.offset = h.offset]
        /\ platform_write(h, <<>>, "all").value = 0
    <3>1. PICK n \in Nat : n = Len(<<>>) /\ n = 0
      OBVIOUS
    <3>2. /\ platform_write(h, <<>>, "all").f
               = [h EXCEPT !.disk = Overlay(h.disk, k, SubSeq(<<>>, 1, n)),
                           !.offset = IF n > 0 THEN k + n ELSE h.offset]
          /\ platform_write(h, <<>>, "all").value = n
      BY <3>1 DEF platform_write
    <3>3. ~(n > 0)
      BY <3>1
    <3> HIDE DEF k
    <3> QED
      BY <2>2, <3>1, <3>2, <3>3, Zenon
  <2>4. [h EXCEPT !.disk = h.disk, !.offset = h.offset] = h
    BY <1>1, Zenon DEF Streams
  <2>5. write_unlocked_nbf(h, <<>>, fault).f = h
    BY <2>1, <2>3, <2>4 DEF write_unlocked_nbf, nbf_data, Result
  <2> QED
    BY <2>5, NothingToFlush, Zenon
<1>5. write_unlocked_lbf(h, <<>>, 0, fault) = write_unlocked_fbf(h, <<>>, fault)
  BY DEF write_unlocked_lbf
<1> QED
  BY <1>1, <1>3, <1>4, <1>5, Zenon DEF write_unlocked, Result, h

\* Before a write nothing is left to be read: the stream can be turned to output.
LEMMA TurnedToOutput ==
  ASSUME NEW b \in Nat \ {0}, NEW d \in {"none", "out"}, NEW m, NEW g, Shape(g, b, d, m),
         NEW h \in Streams, h.pos = g.pos, h.buf = g.buf, h.disk = g.disk, h.eof = g.eof,
         h.offset = g.offset, h.read_limit = g.read_limit, h.prev_op = "WRITE"
  PROVE  /\ Writing(h, b) /\ Text(h) = Text(g) /\ PositionOf(h) = PositionOf(g)
         /\ g.pos <= Len(g.buf) /\ g.eof = FALSE
<1>1. g \in Streams /\ Sound(g, b) /\ g.read_limit = 0 /\ g.eof = FALSE
  BY DEF Shape, Sound, Streams
<1>2. /\ h \in Streams /\ h.pos = g.pos /\ h.buf = g.buf /\ h.disk = g.disk /\ h.eof = g.eof
      /\ h.offset = g.offset /\ h.read_limit = g.read_limit /\ h.prev_op = "WRITE"
  OBVIOUS
<1>3. Sound(h, b)
  BY <1>1, <1>2 DEF Sound
<1>4. CASE d = "none"
  <2>1. g.pos = 0 /\ g.read_limit = 0
    BY <1>4 DEF Shape
  <2>2. Writing(h, b)
    BY <1>2, <1>3, <2>1 DEF Writing, Rising
  <2>3. Reading(g, b)
    BY <1>1, <2>1 DEF Reading
  <2>4. Text(g) = g.disk
    BY <2>1, <2>3, ReaderView
  <2>5. Text(h) = h.disk
    BY <1>2, <2>1, <2>2, TextIs
  <2>6. PositionOf(h) = PositionOf(g)
    BY <1>2, <2>1 DEF PositionOf, PlaceOf
  <2> QED
    BY <1>1, <1>2, <2>2, <2>4, <2>5, <2>6 DEF Sound
<1>5. CASE d = "out"
  <2>1. g.prev_op = "WRITE" /\ Rising(g)
    BY <1>5 DEF Shape
  <2>2. Writing(h, b)
    BY <1>1, <1>2, <1>3, <2>1 DEF Writing, Rising
  <2>3. Text(h) = Text(g) /\ PositionOf(h) = PositionOf(g)
    BY <1>2, <2>1, SameViews
  <2> QED
    BY <1>1, <1>2, <2>2, <2>3 DEF Sound
<1> QED
  BY <1>4, <1>5, Zenon

\* A stream just written to has the shape of one.
LEMMA WritingShape ==
  ASSUME NEW g, NEW b, NEW m, Writing(g, b), read_allowed => Len(g.buf) > 0, g.eof = FALSE,
         m = "_IONBF" => g.pos = 0
  PROVE  Shape(g, b, "out", m)
<1>1. Sound(g, b) /\ g.prev_op = "WRITE" /\ g.read_limit = 0 /\ Rising(g)
  BY DEF Writing
<1>2. PushedAlone(g)
  BY <1>1 DEF PushedAlone
<1> QED
  BY <1>1, <1>2 DEF Shape

\* With the last of its n bytes missing, a text is not the one with all of them.
LEMMA CutIsNotDone ==
  ASSUME NEW g, NEW r, NEW q, NEW c \in Nat \ {0}, NEW n \in Nat, NEW fault,
         Writing(g, c), Cut(r, g, c, n, fault), Done(q, g, c, n)
  PROVE  Text(r.f) # Text(q.f)
<1> DEFINE k == Spot(g) + g.pos
<1>1. n > 0 /\ c + n - 1 \in Nat \ {0}
  BY DEF Cut
<1>2. Text(r.f) \in Seq(Int) /\ Below(Text(r.f), c + n - 1)
  <2>1. Writing(r.f, c + n - 1)
    BY DEF Cut
  <2> QED
    BY <1>1, <2>1, TextIs
<1>3. k \in Nat /\ Text(g) \in Seq(Int)
  <2>1. Spot(g) \in Nat /\ g.pos \in Nat /\ Text(g) \in Seq(Int)
    BY TextIs
  <2> QED
    BY <2>1
<1>4. /\ Run(c, n) \in Seq(Int) /\ Len(Run(c, n)) = n
      /\ \A j \in 1 .. n : Run(c, n)[j] = c + j - 1
  BY RunIs
<1>5. Text(q.f) = Overlay(Text(g), k, Run(c, n))
  BY DEF Done, Continues
<1> HIDE DEF k
<1>6. IsOverlay(Text(q.f), Text(g), k, Run(c, n))
  BY <1>3, <1>4, <1>5, OverlayIs
<1>7. k + n \in 1 .. Len(Text(q.f)) /\ Text(q.f)[k + n] = c + n - 1
  <2>1. Len(Text(g)) \in Nat
    BY <1>3
  <2>2. k + n \in 1 .. Len(Text(q.f))
    BY <1>1, <1>3, <1>4, <1>6, <2>1 DEF IsOverlay
  <2>4. Text(q.f)[k + n] = Run(c, n)[n]
    <3>1. n \in 1 .. Len(Run(c, n))
      BY <1>1, <1>4
    <3> QED
      BY <1>3, <1>4, <1>6, <3>1, OverlaidByte
  <2>5. Run(c, n)[n] = c + n - 1
    BY <1>1, <1>4
  <2> QED
    BY <2>2, <2>4, <2>5
<1> QED
  BY <1>1, <1>2, <1>7 DEF Below

\* What all of the bytes being written means for the abstract stream.
LEMMA DoneViews ==
  ASSUME NEW g, NEW r, NEW c \in Nat \ {0}, NEW n \in Nat, n > 0,
         Writing(g, c), Done(r, g, c, n)
  PROVE  /\ "a" \in mode => /\ Text(r.f) = Text(g) \o Run(c, n)
                            /\ PositionOf(r.f) = Len(Text(r.f))
         /\ "a" \notin mode => /\ Text(r.f) = Overlay(Text(g), PositionOf(g), Run(c, n))
                               /\ PositionOf(r.f) = PositionOf(g) + n
<1>1. c + n \in Nat \ {0} /\ Run(c, n) \in Seq(Int) /\ Len(Run(c, n)) = n
  BY RunIs
<1>2. /\ Writing(r.f, c + n)
      /\ Text(r.f) = Overlay(Text(g), Spot(g) + g.pos, Run(c, n))
      /\ Spot(r.f) + r.f.pos = Spot(g) + g.pos + n
      /\ "a" \in mode => Settled(r.f)
  BY <1>1 DEF Done, Continues
<1>3. /\ Text(g) \in Seq(Int)
      /\ "a" \in mode => Len(Text(g)) = Spot(g) + g.pos
  BY TextIs
<1>4. /\ r.f.pos = 0 => Text(r.f) = r.f.disk
      /\ "a" \in mode => Len(Text(r.f)) = Spot(r.f) + r.f.pos
  BY <1>1, <1>2, TextIs, Zenon
<1>5. PositionOf(g) = IF "a" \in mode /\ g.pos = 0 THEN g.offset ELSE Spot(g) + g.pos
  BY WriterView
<1>6. PositionOf(r.f) = IF "a" \in mode /\ r.f.pos = 0 THEN r.f.offset ELSE Spot(r.f) + r.f.pos
  BY <1>1, <1>2, WriterView
<1>7. CASE "a" \in mode
  <2>1. Text(r.f) = Text(g) \o Run(c, n)
    BY <1>1, <1>2, <1>3, <1>7, OverlayEnd, Zenon
  <2>2. PositionOf(r.f) = Len(Text(r.f))
    BY <1>2, <1>4, <1>6, <1>7 DEF Settled
  <2> QED
    BY <1>7, <2>1, <2>2
<1>8. CASE "a" \notin mode
  BY <1>2, <1>5, <1>6, <1>8
<1> QED
  BY <1>7, <1>8

\* Write: all of the bytes are written, or some are missing and that is recorded.
LEMMA WriteStep ==
  ASSUME StreamInv, NEW n \in WriteSizes, NEW fault \in AllFaults,
         NEW nl \in 0 .. (IF bufmode = "_IOLBF" THEN n ELSE 0), Write(n, nl, fault)
  PROVE  StreamInv' /\ (faulted' \/ S!Next)
<1> DEFINE d == Run(next, n)
           h == [f EXCEPT !.prev_op = "WRITE"]
           r == write_unlocked(f, d, nl, fault)
           q == write_unlocked(f, d, nl, NoFault)
<1>1. /\ n \in Nat /\ nl \in 0 .. n /\ NoFault \in AllFaults /\ next \in Nat \ {0}
      /\ bufmode \in {"_IOFBF", "_IOLBF", "_IONBF"} /\ closed \in BOOLEAN /\ faulted \in BOOLEAN
  BY StreamAssumption DEF StreamInv, AllFaults
<1>2. dir \in {"none", "out"} /\ Shape(f, next, dir, bufmode)
  BY DEF StreamInv, Write
<1>3. Fresh(n) = d
  BY DEF Fresh, Run
<1>4. /\ Calling([op |-> "write", data |-> d]) /\ closed' = closed
      /\ ~closed /\ ~faulted /\ mode' = mode /\ req' = [op |-> "write", data |-> d]
  BY <1>3 DEF Write, Calling
<1>5. CASE ~write_allowed
  <2>1. /\ f' = Flagged(f) /\ res' = [error |-> TRUE, value |-> 0]
        /\ next' = next /\ dir' = dir /\ faulted' = faulted
    BY <1>5 DEF Write
  <2>2. f \in Streams
    BY <1>2 DEF Shape, Sound
  <2>3. /\ f' \in Streams /\ f'.disk = f.disk /\ f'.offset = f.offset /\ f'.buf = f.buf
        /\ f'.pos = f.pos /\ f'.read_limit = f.read_limit /\ f'.prev_op = f.prev_op
        /\ f'.eof = f.eof
    BY <2>1, <2>2, FlaggedIs, Zenon
  <2>4. /\ dir' \in {"none", "out", "in"} /\ Shape(f, next, dir', bufmode)
        /\ ~faulted' /\ faulted' \in BOOLEAN
    BY <1>1, <1>2, <1>4, <2>1
  <2>5. StreamInv' /\ Contents' = Contents /\ Position' = Position /\ Ahead' = Ahead
    BY <1>4, <2>1, <2>3, <2>4, Quiet
  <2>6. S!Nothing
    BY <1>4, <2>1, <2>5 DEF S!Nothing, S!Fails
  <2> QED
    BY <2>5, <2>6 DEF S!Next
<1>6. CASE write_allowed
  <2>1. /\ f' = r.f /\ next' = next + n /\ dir' = "out"
        /\ res' = [error |-> r.error, value |-> r.value]
        /\ faulted' = Loses(r.f, q.f)
    BY <1>3, <1>6 DEF Write
  <2>2. /\ Writing(h, next) /\ Text(h) = Text(f) /\ PositionOf(h) = PositionOf(f)
        /\ f \in Streams /\ f.pos <= Len(f.buf) /\ f.eof = FALSE
        /\ h.eof = f.eof /\ h.buf = f.buf /\ h.pos = f.pos
    <3>1. next \in Nat \ {0} /\ dir \in {"none", "out"} /\ Shape(f, next, dir, bufmode)
      BY <1>1, <1>2
    <3>2. f \in Streams
      BY <3>1 DEF Shape, Sound
    <3>3. /\ h \in Streams /\ h.pos = f.pos /\ h.buf = f.buf /\ h.disk = f.disk /\ h.eof = f.eof
          /\ h.offset = f.offset /\ h.read_limit = f.read_limit /\ h.prev_op = "WRITE"
      BY <3>2, Zenon DEF Streams
    <3> HIDE DEF h
    <3>4. /\ Writing(h, next) /\ Text(h) = Text(f) /\ PositionOf(h) = PositionOf(f)
          /\ f.pos <= Len(f.buf) /\ f.eof = FALSE
      BY <3>1, <3>3, TurnedToOutput, Zenon
    <3> QED
      BY <3>2, <3>3, <3>4
  <2>3. bufmode = "_IONBF" => f.pos = 0
    BY <1>2 DEF Shape
  <2>4. /\ Done(r, h, next, n) \/ Cut(r, h, next, n, fault)
        /\ bufmode = "_IONBF" => r.f.pos = 0
    BY <1>1, <2>2, <2>3, WriteUnlocked
  <2>5. Done(q, h, next, n)
    <3>1. Done(q, h, next, n) \/ Cut(q, h, next, n, NoFault)
      BY <1>1, <2>2, <2>3, WriteUnlocked
    <3> QED
      BY <3>1 DEF Cut
  <2>6. read_allowed => Len(f.buf) > 0
    BY <1>2 DEF Shape
  <2> HIDE DEF r, q, h, d
  <2>7. next + n \in Nat \ {0} /\ next \in Nat /\ next + n \in Nat
    BY <1>1
  <2>8. /\ Writing(r.f, next + n) /\ r.f.eof = FALSE /\ Len(r.f.buf) = Len(f.buf)
        /\ Loses(r.f, q.f) => Cut(r, h, next, n, fault)
    <3>1. CASE Done(r, h, next, n)
      <4>1. Text(r.f) = Text(q.f)
        BY <2>5, <3>1 DEF Done, Continues
      <4> QED
        BY <2>2, <3>1, <4>1 DEF Done, Continues, Loses
    <3>2. CASE Cut(r, h, next, n, fault)
      <4>1. Writing(r.f, next + n - 1) /\ n > 0
        BY <3>2 DEF Cut
      <4>2. next + n - 1 \in Nat /\ next + n - 1 <= next + n
        BY <1>1, <4>1
      <4>3. Writing(r.f, next + n)
        BY <2>7, <4>1, <4>2, WritingLater
      <4> QED
        BY <2>2, <3>2, <4>3 DEF Cut
    <3> QED
      BY <2>4, <3>1, <3>2, Zenon
  <2>9. Shape(f', next', dir', bufmode)
    BY <2>1, <2>4, <2>6, <2>8, WritingShape, Zenon
  <2>10. faulted' => f'.err \/ ShortRest \in Faults
    <3> SUFFICES ASSUME faulted' PROVE f'.err \/ ShortRest \in Faults
      OBVIOUS
    <3>1. Cut(r, h, next, n, fault)
      BY <2>1, <2>8
    <3> QED
      BY <2>1, <3>1 DEF Cut, AllFaults
  <2>11. StreamInv'
    <3>1. next' \in Nat \ {0} /\ dir' \in {"none", "out", "in"} /\ closed' \in BOOLEAN
      BY <1>1, <1>4, <2>1, <2>7
    <3>2. faulted' \in BOOLEAN
      BY <2>1 DEF Loses
    <3> QED
      BY <1>4, <2>9, <2>10, <3>1, <3>2, InvCall
  <2>12. CASE Cut(r, h, next, n, fault)
    <3>1. Text(r.f) # Text(q.f)
      BY <1>1, <2>2, <2>5, <2>12, CutIsNotDone
    <3>2. faulted'
      BY <2>1, <3>1, Zenon DEF Loses
    <3> QED
      BY <2>11, <3>2
  <2>13. CASE Done(r, h, next, n)
    <3>1. res'.value = n /\ res'.error = FALSE /\ Len(d) = n /\ d \in Seq(Int)
      BY <1>1, <2>1, <2>13, RunIs DEF Done, d
    <3>2. req'.op = "write" /\ req'.data = d
      BY <1>4
    <3>3. /\ Contents = Text(h) /\ Contents' = Text(r.f)
          /\ Position = PositionOf(h) /\ Position' = PositionOf(r.f)
      BY <1>4, <2>1, <2>2, Views
    <3>4. CASE n > 0
      <4>1. d # <<>>
        BY <3>1, <3>4
      <4>2. /\ "a" \in mode => Text(r.f) = Text(h) \o d /\ PositionOf(r.f) = Len(Text(r.f))
            /\ "a" \notin mode => /\ Text(r.f) = Overlay(Text(h), PositionOf(h), d)
                                  /\ PositionOf(r.f) = PositionOf(h) + n
        BY <1>1, <2>2, <2>13, <3>4, DoneViews, Zenon DEF d
      <4>3. S!Write
        BY <3>1, <3>2, <3>3, <4>1, <4>2, SameOperators, Zenon DEF S!Write, S!Fails
      <4> QED
        BY <2>11, <4>3 DEF S!Next
    <3>5. CASE n = 0
      <4>1. d = <<>> /\ nl = 0
        BY <1>1, <3>1, <3>5
      <4>2. r.f = h
        BY <1>1, <2>2, <2>3, <4>1, WriteNothing DEF r, h
      <4>3. PositionOf(h) \in Nat /\ PositionOf(h) + 0 = PositionOf(h)
        <5>1. PositionOf(h) = IF "a" \in mode /\ h.pos = 0 THEN h.offset ELSE Spot(h) + h.pos
          BY <1>1, <2>2, WriterView
        <5>2. Spot(h) \in Nat /\ h.pos \in Nat
          BY <1>1, <2>2, TextIs
        <5>3. h.offset \in Nat
          BY <2>2 DEF Writing, Sound, Streams
        <5> QED
          BY <5>1, <5>2, <5>3
      <4>4. Overlay(Text(h), PositionOf(h), <<>>) = Text(h) /\ Text(h) \o <<>> = Text(h)
        <5>1. Text(h) \in Seq(Int)
          BY <1>1, <2>2, TextIs
        <5>2. Overlay(Text(h), PositionOf(h), <<>>) = Text(h)
          BY <4>3, <5>1, OverlayNothing
        <5> QED
          BY <5>1, <5>2, ConcatEmptySeq
      <4>5. S!Write
        BY <3>1, <3>2, <3>3, <4>1, <4>2, <4>3, <4>4, SameOperators DEF S!Write, S!Fails
      <4> QED
        BY <2>11, <4>5 DEF S!Next
    <3> QED
      BY <1>1, <3>4, <3>5
  <2> QED
    BY <2>4, <2>12, <2>13
<1> QED
  BY <1>5, <1>6

LEMMA ReadUnlocked ==
  ASSUME NEW g, NEW b \in Nat \ {0}, Reading(g, b), AtEnd(g), NEW n \in Nat,
         NEW failing \in BOOLEAN
  PROVE  LET r == read_unlocked(g, n, failing)
         IN  /\ Reading(r.f, b) /\ AtEnd(r.f) /\ r.f.prev_op = "READ"
             /\ Advances(r.f, g, r.data)
             /\ ~r.error => Len(r.data) = Least(n, Len(AheadOf(g)))
<1> DEFINE r == read_unlocked(g, n, failing)
<1>1. CASE n <= g.read_limit - g.pos
  <2>1. /\ Reading(r.f, b) /\ AtEnd(r.f) /\ r.f.prev_op = "READ"
        /\ Advances(r.f, g, r.data) /\ Len(r.data) = n
    BY <1>1, ReadFromBuffer, Zenon
  <2> HIDE DEF r
  <2>2. PICK x \in Seq(Int), y \in Seq(Int) : x = r.data /\ y = AheadOf(r.f) /\ AheadOf(g) = x \o y
    BY <2>1, Zenon DEF Advances
  <2>3. Len(AheadOf(g)) = n + Len(y)
    <3>1. Len(x \o y) = Len(x) + Len(y)
      BY FirstPart
    <3> QED
      BY <2>1, <2>2, <3>1, Zenon
  <2>4. Least(n, Len(AheadOf(g))) = n
    BY <2>2, <2>3 DEF Least
  <2> QED
    BY <2>1, <2>4 DEF r
<1>2. CASE ~(n <= g.read_limit - g.pos)
  BY <1>2, ReadAndFetch
<1> QED
  BY <1>1, <1>2

\* Read: what is read is the beginning of what is ahead, and the rest stays ahead.
LEMMA ReadStep ==
  ASSUME StreamInv, NEW n \in ReadSizes, NEW failing \in BOOLEAN, Read(n, failing)
  PROVE  StreamInv' /\ (faulted' \/ S!Next)
<1> DEFINE r == read_unlocked(f, n, failing)
<1>1. /\ n \in Nat /\ next \in Nat \ {0} /\ closed \in BOOLEAN /\ faulted \in BOOLEAN
      /\ dir \in {"none", "in"} /\ Shape(f, next, dir, bufmode)
  BY StreamAssumption DEF StreamInv, Read
<1>2. /\ Calling([op |-> "read", size |-> n]) /\ closed' = closed /\ next' = next
      /\ faulted' = faulted /\ ~closed /\ ~faulted /\ mode' = mode
      /\ req' = [op |-> "read", size |-> n]
  BY DEF Read, Calling
<1>3. /\ Sound(f, next) /\ f.pos <= f.read_limit /\ f \in Streams
      /\ f.prev_op # "WRITE" \/ (f.pos = 0 /\ f.read_limit = 0)
  <2>1. Sound(f, next) /\ f \in Streams
    BY <1>1 DEF Shape, Sound
  <2> QED
    BY <1>1, <2>1 DEF Shape
<1>4. Reading(f, next) /\ AtEnd(f)
  BY <1>1, <1>3 DEF Reading, AtEnd, Shape
<1>5. /\ Text(f) = f.disk /\ PositionOf(f) = PlaceOf(f) /\ LaterOf(f) = AheadOf(f)
      /\ PlaceOf(f) \in Int /\ AheadOf(f) \in Seq(Int)
  BY <1>1, <1>3, <1>4, ReaderView
<1>6. Position = PlaceOf(f) /\ Ahead = AheadOf(f) /\ Contents = f.disk
  BY <1>2, <1>5, Views
<1>7. CASE ~read_allowed
  <2>1. f' = Flagged(f) /\ res' = [error |-> TRUE, data |-> <<>>] /\ dir' = dir
    BY <1>7 DEF Read
  <2>2. /\ f' \in Streams /\ f'.disk = f.disk /\ f'.offset = f.offset /\ f'.buf = f.buf
        /\ f'.pos = f.pos /\ f'.read_limit = f.read_limit /\ f'.prev_op = f.prev_op
        /\ f'.eof = f.eof
    BY <1>3, <2>1, FlaggedIs, Zenon
  <2>3. /\ dir' \in {"none", "out", "in"} /\ Shape(f, next, dir', bufmode)
        /\ ~faulted' /\ faulted' \in BOOLEAN
    BY <1>1, <1>2, <2>1
  <2>4. StreamInv' /\ Contents' = Contents /\ Position' = Position /\ Ahead' = Ahead
    BY <1>2, <2>2, <2>3, Quiet
  <2>5. /\ res'.error = TRUE /\ res'.data = <<>> /\ req'.op = "read" /\ Len(<<>>) = 0
        /\ <<>> = SubSeq(Ahead, 1, 0) /\ Ahead = From(Ahead, 0) /\ Position = Position + 0
    <3>1. SubSeq(AheadOf(f), 1, 0) = <<>>
      BY <1>5
    <3>2. SubSeq(AheadOf(f), 1, Len(AheadOf(f))) = AheadOf(f)
      BY <1>5, SameBytes
    <3> QED
      BY <1>2, <1>5, <1>6, <2>1, <3>1, <3>2 DEF From
  <2>6. S!Read
    BY <2>4, <2>5, SameOperators DEF S!Read, S!Fails
  <2> QED
    BY <2>4, <2>6 DEF S!Next
<1>8. CASE read_allowed
  <2>1. f' = r.f /\ res' = [error |-> r.error, data |-> r.data] /\ dir' = "in"
    BY <1>8 DEF Read
  <2>2. /\ Reading(r.f, next) /\ AtEnd(r.f) /\ r.f.prev_op = "READ"
        /\ Advances(r.f, f, r.data)
        /\ ~r.error => Len(r.data) = Least(n, Len(AheadOf(f)))
    BY <1>1, <1>4, ReadUnlocked, Zenon
  <2> HIDE DEF r
  <2>3. Len(r.f.buf) = Len(f.buf) /\ (read_allowed => Len(f.buf) > 0)
    BY <1>1, <2>2 DEF Advances, Shape
  <2>4. Shape(r.f, next, "in", bufmode)
    BY <2>2, <2>3 DEF Shape, Reading, AtEnd, PushedAlone
  <2>5. StreamInv'
    BY <1>1, <1>2, <2>1, <2>4, InvCall
  <2>6. Text(r.f) = r.f.disk /\ PositionOf(r.f) = PlaceOf(r.f) /\ LaterOf(r.f) = AheadOf(r.f)
    BY <1>1, <2>2, ReaderView, Zenon
  <2>7. Position' = PlaceOf(r.f) /\ Ahead' = AheadOf(r.f) /\ Contents' = r.f.disk
    BY <1>2, <2>1, <2>6, Views
  <2>8. PICK x \in Seq(Int), y \in Seq(Int) : x = r.data /\ y = AheadOf(r.f) /\ AheadOf(f) = x \o y
    BY <2>2, Zenon DEF Advances
  <2>9. x = SubSeq(x \o y, 1, Len(x)) /\ From(x \o y, Len(x)) = y
    BY <2>8, FirstPart, Zenon
  <2>10. r.f.disk = f.disk /\ PlaceOf(r.f) = PlaceOf(f) + Len(r.data)
    BY <2>2 DEF Advances
  <2>11. req'.op = "read" /\ req'.size = n /\ res'.error = r.error /\ res'.data = x
    BY <1>2, <2>1, <2>8
  <2>12. /\ x = SubSeq(Ahead, 1, Len(x)) /\ Ahead' = From(Ahead, Len(x))
         /\ Position' = Position + Len(x) /\ Contents' = Contents
         /\ ~r.error => Len(x) = Least(n, Len(Ahead))
    BY <1>6, <2>2, <2>7, <2>8, <2>9, <2>10, Zenon
  <2>13. S!Read
    BY <2>11, <2>12, SameOperators, Zenon DEF S!Read, S!Fails
  <2> QED
    BY <2>5, <2>13 DEF S!Next
<1> QED
  BY <1>7, <1>8

\* One byte c stored at index k of a buffer.
LEMMA StoredByte ==
  ASSUME NEW g \in Streams, NEW c \in Nat \ {0}, NEW k \in Nat, k < Len(g.buf), Below(g.buf, c)
  PROVE  LET v == Stored(g, k, <<c>>)
         IN  /\ v \in Seq(Int) /\ Len(v) = Len(g.buf) /\ v[k + 1] = c /\ Below(v, c + 1)
             /\ \A n \in 1 .. Len(g.buf) : n # k + 1 => v[n] = g.buf[n]
<1> DEFINE v == Stored(g, k, <<c>>)
           L == Len(g.buf)
<1>1. g.buf \in Seq(Int) /\ DOMAIN g.buf = 1 .. L /\ L \in Nat
  BY DEF Streams
<1>2. /\ Len(<<c>>) = 1 /\ <<c>>[1] = c
      /\ \A n \in 1 .. L : (n \in k + 1 .. k + 1 <=> n = k + 1) /\ k + 1 - k = 1
  BY <1>1
<1>3. v = [n \in 1 .. L |-> IF n = k + 1 THEN c ELSE g.buf[n]]
  BY <1>1, <1>2 DEF Stored
<1>4. \A n \in 1 .. L : g.buf[n] \in Int /\ g.buf[n] < c
  BY <1>1 DEF Below
<1> HIDE DEF v, L
<1>5. v \in Seq(Int) /\ Len(v) = L
  BY <1>1, <1>3, <1>4
<1>6. \A n \in 1 .. L : v[n] < c + 1
  BY <1>3, <1>4
<1>7. k + 1 \in 1 .. L
  BY <1>1 DEF L
<1> QED
  BY <1>3, <1>5, <1>6, <1>7, Zenon DEF v, L, Below

\* Ungetc: the byte is put before what is ahead.
LEMMA UngetcStep ==
  ASSUME StreamInv, Ungetc
  PROVE  StreamInv' /\ (faulted' \/ S!Next)
<1>1. /\ next \in Nat \ {0} /\ closed \in BOOLEAN /\ faulted \in BOOLEAN
      /\ dir \in {"none", "out", "in"} /\ Shape(f, next, dir, bufmode) /\ Sound(f, next)
      /\ f \in Streams
  BY Zenon DEF StreamInv, Shape, Sound
<1>2. /\ Calling([op |-> "ungetc", data |-> <<next>>]) /\ closed' = closed
      /\ faulted' = faulted /\ ~closed /\ ~faulted /\ mode' = mode
      /\ req' = [op |-> "ungetc", data |-> <<next>>]
  BY DEF Ungetc, Calling
<1>3. CASE ~read_allowed \/ f.prev_op = "WRITE" \/ (f.read_limit # 0 /\ f.pos = 0)
  <2>1. res' = [error |-> TRUE] /\ f' = f /\ next' = next /\ dir' = dir
    BY <1>3 DEF Ungetc
  <2>2. StreamInv' /\ Contents' = Contents /\ Position' = Position /\ Ahead' = Ahead
    BY <1>1, <1>2, <2>1, Quiet
  <2>3. S!Nothing
    BY <1>2, <2>1, <2>2 DEF S!Nothing, S!Fails
  <2> QED
    BY <2>2, <2>3 DEF S!Next
<1>4. CASE ~(~read_allowed \/ f.prev_op = "WRITE" \/ (f.read_limit # 0 /\ f.pos = 0))
  <2> DEFINE k == IF f.read_limit = 0 THEN 0 ELSE f.pos - 1
             limit == IF f.read_limit = 0 THEN 1 ELSE f.read_limit
             v == Stored(f, k, <<next>>)
             old == SubSeq(f.buf, f.pos + 1, f.read_limit)
             new == SubSeq(v, k + 1, limit)
             rest == From(f.disk, f.offset)
  <2>1. /\ f' = [f EXCEPT !.buf = v, !.pos = k, !.read_limit = limit, !.eof = FALSE, !.err = FALSE]
        /\ next' = next + 1 /\ dir' = "in" /\ res' = [error |-> FALSE]
    BY <1>4 DEF Ungetc
  <2>2. f.prev_op # "WRITE" /\ read_allowed /\ dir # "out" /\ Len(f.buf) > 0
    BY <1>1, <1>4 DEF Shape
  <2>3. /\ f.buf \in Seq(Int) /\ f.disk \in Seq(Int) /\ f.pos \in Nat /\ f.read_limit \in Nat
        /\ f.offset \in Nat /\ Len(f.buf) \in Nat /\ f.read_limit <= Len(f.buf)
        /\ Below(f.buf, next) /\ Below(f.disk, next)
    BY <1>1 DEF Sound, Streams
  <2>4. f.pos <= f.read_limit
    BY <1>1, <2>2 DEF Shape
  <2>5. /\ k \in Nat /\ k < Len(f.buf) /\ limit \in Nat /\ k < limit /\ limit <= Len(f.buf)
        /\ f.read_limit = 0 => k = 0 /\ limit = 1 /\ f.pos = 0
        /\ f.read_limit # 0 => limit = f.read_limit /\ k + 1 = f.pos
        /\ limit - k = f.read_limit - f.pos + 1
    <3>1. CASE f.read_limit = 0
      <4>1. k = 0 /\ limit = 1 /\ f.pos = 0
        BY <2>3, <2>4, <3>1
      <4> HIDE DEF k, limit
      <4> QED
        BY <2>2, <2>3, <3>1, <4>1
    <3>2. CASE f.read_limit # 0
      <4>1. k = f.pos - 1 /\ limit = f.read_limit /\ f.pos # 0
        BY <1>4, <3>2
      <4> HIDE DEF k, limit
      <4>2. PICK p \in Nat, l \in Nat, L \in Nat : p = f.pos /\ l = f.read_limit /\ L = Len(f.buf)
        BY <2>3
      <4>3. p <= l /\ l <= L /\ p # 0 /\ l # 0 /\ k = p - 1 /\ limit = l
        BY <2>3, <2>4, <3>2, <4>1, <4>2
      <4>4. /\ k \in Nat /\ k < L /\ limit \in Nat /\ k < limit /\ limit <= L
            /\ k + 1 = p /\ limit - k = l - p + 1
        BY <4>3
      <4> QED
        BY <3>2, <4>1, <4>2, <4>4
    <3> QED
      BY <3>1, <3>2
  <2> HIDE DEF k, limit
  <2>6. /\ v \in Seq(Int) /\ Len(v) = Len(f.buf) /\ v[k + 1] = next /\ Below(v, next + 1)
        /\ \A n \in 1 .. Len(f.buf) : n # k + 1 => v[n] = f.buf[n]
    BY <1>1, <2>3, <2>5, StoredByte, SMTT(90)
  <2> HIDE DEF v
  <2>7. /\ f' \in Streams /\ f'.buf = v /\ f'.pos = k /\ f'.read_limit = limit /\ f'.eof = FALSE
        /\ f'.disk = f.disk /\ f'.offset = f.offset /\ f'.prev_op = f.prev_op
    BY <1>1, <2>1, <2>5, <2>6, Zenon DEF Streams
  <2>8. Below(f.disk, next + 1)
    <3>1. \A n \in 1 .. Len(f.disk) : f.disk[n] \in Int /\ f.disk[n] < next
      BY <2>3 DEF Below
    <3> QED
      BY <1>1, <3>1 DEF Below
  <2>9. Sound(f', next + 1)
    BY <2>5, <2>6, <2>7, <2>8, SMTT(90) DEF Sound
  <2>10. PushedAlone(f')
    <3> SUFFICES ASSUME f.prev_op \in {"NONE", "SEEK"}
                 PROVE  /\ limit = 1 /\ k = 0
                        /\ \A n \in 1 .. Len(f.disk) : f.disk[n] # v[1]
      BY <2>7 DEF PushedAlone
    <3>1. f.read_limit = 0
      BY <1>1, <1>4, <2>3, SMTT(90) DEF Shape, PushedAlone
    <3>2. limit = 1 /\ k = 0
      BY <2>5, <3>1
    <3>3. v[1] = next
      BY <2>6, <3>2
    <3>4. \A n \in 1 .. Len(f.disk) : f.disk[n] # next
      BY <1>1, <2>3, SMTT(90) DEF Below
    <3> QED
      BY <3>2, <3>3, <3>4, Zenon
  <2>11. Shape(f', next', dir', bufmode)
    BY <2>1, <2>2, <2>5, <2>6, <2>7, <2>9, <2>10 DEF Shape
  <2>12. StreamInv'
    <3>1. next' \in Nat \ {0} /\ dir' \in {"none", "out", "in"} /\ closed' \in BOOLEAN
      BY <1>1, <1>2, <2>1
    <3> QED
      BY <1>1, <1>2, <2>11, <3>1, InvCall
  <2>13. old \in Seq(Int) /\ rest \in Seq(Int) /\ Len(old) = f.read_limit - f.pos
    <3>1. f.read_limit \in 0 .. Len(f.buf)
      BY <2>3
    <3>2. old \in Seq(Int) /\ Len(old) = IF f.pos <= f.read_limit THEN f.read_limit - f.pos ELSE 0
      BY <2>3, <3>1, PieceIs, Zenon
    <3>3. rest \in Seq(Int)
      BY <2>3 DEF From
    <3> QED
      BY <2>4, <3>2, <3>3
  <2>14. new = <<next>> \o old
    <3>1. limit \in 0 .. Len(v) /\ f.read_limit \in 0 .. Len(f.buf)
      BY <2>3, <2>5, <2>6
    <3>2. /\ new \in Seq(Int) /\ Len(new) = limit - k
          /\ \A n \in 1 .. limit - k : new[n] = v[k + n]
      <4>1. /\ new \in Seq(Int) /\ Len(new) = IF k <= limit THEN limit - k ELSE 0
            /\ \A n \in 1 .. limit - k : new[n] = v[k + n]
        BY <2>5, <2>6, <3>1, PieceIs, Zenon
      <4> QED
        BY <2>5, <4>1
    <3>3. \A n \in 1 .. f.read_limit - f.pos : old[n] = f.buf[f.pos + n]
      BY <2>3, <3>1, PieceIs, Zenon
    <3> DEFINE w == <<next>> \o old
    <3>4. /\ w \in Seq(Int) /\ Len(w) = 1 + Len(old) /\ w[1] = next
          /\ \A n \in 2 .. 1 + Len(old) : w[n] = old[n - 1]
      BY <1>1, <2>13
    <3> HIDE DEF w, new, old
    <3>5. Len(new) = Len(w)
      BY <2>3, <2>5, <2>13, <3>2, <3>4
    <3>6. ASSUME NEW n \in 1 .. Len(new) PROVE new[n] = w[n]
      <4>1. CASE n = 1
        BY <2>6, <3>2, <3>4, <3>6, <4>1
      <4>2. CASE n # 1
        <5>1. n \in 2 .. 1 + Len(old) /\ n - 1 \in 1 .. f.read_limit - f.pos
          BY <2>3, <2>5, <2>13, <3>2, <3>4, <3>5, <4>2, SMTT(90)
        <5>2. f.read_limit # 0
          BY <2>3, <2>4, <5>1
        <5>3. k + n \in 1 .. Len(f.buf) /\ k + n # k + 1 /\ k + n = f.pos + (n - 1)
          <6>1. /\ k \in Nat /\ limit \in Nat /\ limit <= Len(f.buf) /\ k + 1 = f.pos
                /\ n \in 1 .. limit - k /\ Len(f.buf) \in Nat
            BY <2>3, <2>5, <3>2, <5>2
          <6> QED
            BY <4>2, <6>1
        <5>4. w[n] = f.buf[f.pos + (n - 1)]
          BY <3>3, <3>4, <5>1
        <5> QED
          BY <2>6, <3>2, <5>3, <5>4
      <4> QED
        BY <4>1, <4>2
    <3>7. new = w
      BY <3>2, <3>4, <3>5, <3>6, SameBytes, Zenon
    <3> QED
      BY <3>7 DEF w
  <2>15. AheadOf(f') = <<next>> \o AheadOf(f) /\ PlaceOf(f') = PlaceOf(f) - 1
    <3>1. AheadOf(f) = old \o rest /\ AheadOf(f') = (<<next>> \o old) \o rest
      BY <2>7, <2>14, Zenon DEF AheadOf
    <3>2. <<next>> \in Seq(Int)
      BY <1>1
    <3> HIDE DEF old, rest
    <3>3. (<<next>> \o old) \o rest = <<next>> \o (old \o rest)
      BY <2>13, <3>2, Associates, Zenon
    <3>4. PlaceOf(f') = PlaceOf(f) - 1
      BY <2>3, <2>5, <2>7 DEF PlaceOf
    <3> QED
      BY <3>1, <3>3, <3>4
  <2>16. Reading(f, next) /\ Reading(f', next + 1) /\ next + 1 \in Nat \ {0}
    BY <1>1, <2>4, <2>5, <2>7, <2>9 DEF Reading
  <2>17. Text(f) = f.disk /\ PositionOf(f) = PlaceOf(f) /\ LaterOf(f) = AheadOf(f)
    BY <1>1, <2>2, <2>16, ReaderView
  <2>18. Text(f') = f'.disk /\ PositionOf(f') = PlaceOf(f') /\ LaterOf(f') = AheadOf(f')
    BY <2>2, <2>7, <2>16, ReaderView
  <2>19. Contents' = Contents /\ Position' = Position - 1 /\ Ahead' = <<next>> \o Ahead
    BY <1>2, <2>7, <2>15, <2>17, <2>18, Views
  <2>20. S!Ungetc
    BY <1>2, <2>1, <2>19 DEF S!Ungetc, S!Fails
  <2> QED
    BY <2>12, <2>20 DEF S!Next
<1> QED
  BY <1>3, <1>4

\* Writing a part of what waits, and keeping all of it to be written again, shows in
\* the text: on an append stream by its length, on others because the first byte
\* stands where a later one was.
LEMMA PartRepeats ==
  ASSUME NEW g, NEW b \in Nat \ {0}, Writing(g, b), NEW r, Wrote(r, g, Buffered(g)),
         r.value > 0, r.value < g.pos
  PROVE  Text(r.f) # Text(g)
<1> DEFINE B == Buffered(g)
           K == Spot(g)
           v == r.value
           part == SubSeq(B, 1, v)
<1>1. /\ B \in Seq(Int) /\ Len(B) = g.pos /\ K \in Nat /\ g.pos \in Nat
      /\ Text(g) = Overlay(g.disk, K, B) /\ Below(B, b)
      /\ \A n \in 1 .. g.pos : B[n] = g.buf[n]
      /\ "a" \in mode => Len(Text(g)) = K + g.pos
  BY TextIs, Zenon
<1>2. /\ r.f.disk = Overlay(g.disk, K, part) /\ r.f.offset = K + v /\ v \in Nat
      /\ r.f.buf = g.buf /\ r.f.pos = g.pos
  BY <1>1, SMTT(90) DEF Wrote
<1>3. g.disk \in Seq(Int)
  BY DEF Writing, Sound, Streams
<1>4. Writing(r.f, b)
  BY <1>1, WroteKeeps, Zenon
<1>5. Buffered(r.f) = B
  BY <1>2 DEF Buffered
<1> HIDE DEF B, K, v
<1>6. /\ Text(r.f) = Overlay(r.f.disk, Spot(r.f), B) /\ Spot(r.f) \in Nat
      /\ "a" \in mode => Len(Text(r.f)) = Spot(r.f) + g.pos
  BY <1>2, <1>4, <1>5, TextIs, Zenon
<1>7. v > 0 /\ v < g.pos /\ part \in Seq(Int) /\ Len(part) = v
  BY <1>1, <1>2, SMTT(90) DEF v
<1>8. CASE "a" \in mode
  <2>1. IsOverlay(r.f.disk, g.disk, K, part)
    BY <1>1, <1>2, <1>3, <1>7, OverlayIs, Zenon
  <2>2. Len(r.f.disk) = K + v
    <3>1. K = Len(g.disk)
      BY <1>8 DEF K, Spot
    <3> QED
      <4>1. Len(r.f.disk) = IF Len(part) > 0 /\ K + Len(part) > Len(g.disk) THEN K + Len(part)
                            ELSE Len(g.disk)
        BY <2>1 DEF IsOverlay
      <4> HIDE DEF part
      <4> QED
        BY <1>1, <1>2, <1>7, <3>1, <4>1, SMTT(90)
  <2>3. Spot(r.f) = K + v
    BY <1>8, <2>2 DEF Spot
  <2> QED
    BY <1>1, <1>2, <1>6, <1>7, <1>8, <2>3, SMTT(90)
<1>9. CASE "a" \notin mode
  <2>1. Spot(r.f) = K + v
    BY <1>2, <1>9 DEF Spot
  <2>2. r.f.disk \in Seq(Int)
    BY <1>4 DEF Writing, Sound, Streams
  <2>3. IsOverlay(Text(g), g.disk, K, B)
    BY <1>1, <1>3, OverlayIs, Zenon
  <2>4. IsOverlay(Text(r.f), r.f.disk, K + v, B)
    BY <1>1, <1>2, <1>6, <2>1, <2>2, OverlayIs, Zenon
  <2> DEFINE n == K + v + 1
  <2>5. Text(r.f)[n] = B[1]
    <3>1. n \in K + v + 1 .. K + v + Len(B) /\ n - (K + v) = 1
      BY <1>1, <1>2, <1>7, SMTT(60)
    <3>2. n \in 1 .. Len(Text(r.f))
      BY <1>1, <1>2, <1>7, <2>2, <2>4, SMTT(90) DEF IsOverlay
    <3> QED
      BY <2>4, <3>1, <3>2 DEF IsOverlay
  <2>6. Text(g)[n] = B[v + 1]
    <3>1. n \in K + 1 .. K + Len(B) /\ n - K = v + 1
      BY <1>1, <1>2, <1>7
    <3>2. n \in 1 .. Len(Text(g))
      BY <1>1, <1>2, <1>3, <1>7, <2>3, SMTT(90) DEF IsOverlay
    <3> QED
      BY <2>3, <3>1, <3>2, SMTT(90) DEF IsOverlay
  <2>7. B[1] < B[v + 1] /\ B[1] \in Int
    <3>1. 1 \in 1 .. g.pos /\ v + 1 \in 1 .. g.pos /\ 1 < v + 1
      BY <1>1, <1>2, <1>7, SMTT(60)
    <3>2. g.buf[1] < g.buf[v + 1]
      BY <3>1 DEF Writing, Rising
    <3> QED
      BY <1>1, <3>1, <3>2, SMTT(90)
  <2>8. B[v + 1] \in Int
    BY <1>1, <1>2, <1>7
  <2> QED
    BY <2>5, <2>6, <2>7, <2>8
<1> QED
  BY <1>8, <1>9

\* The write of what waits, with pos as it was: all of it is on disk, or a part is
\* written twice, or nothing has happened.
LEMMA WaitingGoesOut ==
  ASSUME NEW g, NEW b \in Nat \ {0}, Writing(g, b), g.pos > 0,
         NEW w \in {"all", "short", "error"}
  PROVE  LET r == platform_write(g, Buffered(g), w)
         IN  /\ Writing(r.f, b) /\ Wrote(r, g, Buffered(g))
             /\ Failed(r, g.pos) <=> w # "all"
             /\ w = "all" => /\ r.value = g.pos /\ r.f.disk = Text(g)
                             /\ r.f.offset = Spot(g) + g.pos
             /\ w # "all" => Text(r.f) # Text(g) \/ (r.f.disk = g.disk /\ r.f.offset = g.offset)
<1> DEFINE B == Buffered(g)
           r == platform_write(g, B, w)
<1>1. /\ B \in Seq(Int) /\ Len(B) = g.pos /\ Spot(g) \in Nat /\ g.pos \in Nat
      /\ Text(g) = Overlay(g.disk, Spot(g), B) /\ Below(B, b)
  BY TextIs, Zenon
<1>2. g \in Streams /\ g.disk \in Seq(Int)
  BY DEF Writing, Sound, Streams
<1>3. /\ Wrote(r, g, B) /\ (r.error <=> w = "error")
      /\ IF w = "all" THEN r.value = Len(B) ELSE r.value < Len(B)
  BY <1>1, <1>2, PlatformWrites
<1> HIDE DEF r, B
<1>4. r.value \in 0 .. g.pos
  BY <1>1, <1>3 DEF Wrote
<1>5. Writing(r.f, b)
  BY <1>1, <1>3, WroteKeeps, Zenon
<1>6. Failed(r, g.pos) <=> w # "all"
  BY <1>1, <1>3, <1>4 DEF Failed
<1>7. w = "all" => r.value = g.pos /\ r.f.disk = Text(g) /\ r.f.offset = Spot(g) + g.pos
  <2>1. SubSeq(B, 1, Len(B)) = B
    BY <1>1, SameBytes
  <2> QED
    BY <1>1, <1>3, <2>1, Zenon DEF Wrote
<1>8. ASSUME w # "all" PROVE Text(r.f) # Text(g) \/ (r.f.disk = g.disk /\ r.f.offset = g.offset)
  <2>1. r.value < g.pos
    BY <1>1, <1>3, <1>8
  <2>2. CASE r.value = 0
    <3>1. SubSeq(B, 1, 0) = <<>> /\ Overlay(g.disk, Spot(g), <<>>) = g.disk
      BY <1>1, <1>2, OverlayNothing
    <3> QED
      <4>1. /\ r.f.disk = Overlay(g.disk, Spot(g), SubSeq(B, 1, r.value))
            /\ r.f.offset = IF r.value > 0 THEN Spot(g) + r.value ELSE g.offset
        BY <1>3 DEF Wrote
      <4>2. r.f.disk = g.disk
        BY <2>2, <3>1, <4>1, Zenon
      <4>3. ~(r.value > 0)
        BY <2>2
      <4> QED
        BY <4>1, <4>2, <4>3
  <2>3. CASE r.value # 0
    <3>1. r.value > 0
      BY <1>4, <2>3
    <3> QED
      BY <1>3, <2>1, <3>1, PartRepeats DEF B
  <2> QED
    BY <2>2, <2>3
<1> QED
  BY <1>3, <1>5, <1>6, <1>7, <1>8, Zenon DEF r, B

\* Bytes wait in the buffer only of a stream that was written to.
LEMMA WaitingIsOutput ==
  ASSUME StreamInv, f.prev_op = "WRITE", f.pos > 0
  PROVE  dir = "out" /\ Writing(f, next)
<1>1. Shape(f, next, dir, bufmode) /\ dir \in {"none", "out", "in"} /\ Sound(f, next)
  BY DEF StreamInv, Shape
<1>2. dir = "out"
  BY <1>1 DEF Shape
<1> QED
  BY <1>1, <1>2 DEF Shape, Writing

\* A flush that fails, in flush, seek or close, has repeated bytes or done nothing.
LEMMA FlushFails ==
  ASSUME StreamInv, NEW c, Calling(c), f.prev_op = "WRITE", f.pos > 0,
         NEW w \in {"short", "error"}, NEW r, r = platform_write(f, Buffered(f), w),
         f' = Flagged(r.f), faulted' = (Text(r.f) # Text(f)),
         dir' = dir, closed' = closed, next' = next
  PROVE  /\ StreamInv'
         /\ faulted' \/ (Contents' = Contents /\ Position' = Position /\ Ahead' = Ahead)
<1>1. /\ next \in Nat \ {0} /\ closed \in BOOLEAN /\ Shape(f, next, dir, bufmode)
      /\ dir = "out" /\ Writing(f, next)
  BY WaitingIsOutput, Zenon DEF StreamInv
<1>2. /\ Writing(r.f, next) /\ Wrote(r, f, Buffered(f))
      /\ Text(r.f) # Text(f) \/ (r.f.disk = f.disk /\ r.f.offset = f.offset)
  BY <1>1, WaitingGoesOut, Zenon
<1>3. /\ r.f \in Streams /\ r.f.buf = f.buf /\ r.f.pos = f.pos /\ r.f.read_limit = f.read_limit
      /\ r.f.prev_op = f.prev_op /\ r.f.eof = f.eof
  BY <1>2, Zenon DEF Wrote
<1>4. /\ f' \in Streams /\ f'.err = TRUE
      /\ f'.disk = r.f.disk /\ f'.offset = r.f.offset /\ f'.buf = f.buf /\ f'.pos = f.pos
      /\ f'.read_limit = f.read_limit /\ f'.prev_op = f.prev_op /\ f'.eof = f.eof
  BY <1>3, FlaggedIs, Zenon
<1>5. faulted' \in BOOLEAN
  OBVIOUS
<1>6. CASE faulted'
  <2>1. Writing(f', next)
    BY <1>2, FlaggedWriting, Zenon
  <2>2. /\ read_allowed => Len(f'.buf) > 0
        /\ f'.eof = FALSE
        /\ bufmode = "_IONBF" => f'.pos = 0
    BY <1>1, <1>3, <1>4, Zenon DEF Shape, Streams
  <2>3. Shape(f', next', dir', bufmode)
    BY <1>1, <2>1, <2>2, WritingShape, Zenon
  <2>4. StreamInv'
    BY <1>1, <1>4, <1>5, <2>3, InvCall, Zenon
  <2> QED
    BY <1>6, <2>4
<1>7. CASE ~faulted'
  <2>1. f'.disk = f.disk /\ f'.offset = f.offset
    BY <1>2, <1>4, <1>7, Zenon
  <2> QED
    BY <1>1, <1>4, <1>5, <1>7, <2>1, Quiet, Zenon
<1> QED
  BY <1>6, <1>7

LEMMA FlushOutcome ==
  ASSUME NEW fault \in AllFaults, StreamInv, f.prev_op = "WRITE", f.pos > 0
  PROVE  Outcome(fault, "flush", Buffered(f)) \in {"all", "short", "error"}
<1>1. Writing(f, next) /\ next \in Nat \ {0}
  BY WaitingIsOutput DEF StreamInv
<1>2. Buffered(f) \in Seq(Int)
  BY <1>1, TextIs
<1> QED
  BY <1>2, OutcomeIs DEF Sites

\* Flush: the text, the position and what is ahead stay.
LEMMA FlushStep ==
  ASSUME StreamInv, NEW fault \in AllFaults, NEW synced \in BOOLEAN, Flush(fault, synced)
  PROVE  StreamInv' /\ (faulted' \/ S!Next)
<1>1. /\ next \in Nat \ {0} /\ closed \in BOOLEAN /\ faulted \in BOOLEAN
      /\ dir \in {"none", "out", "in"} /\ Shape(f, next, dir, bufmode)
      /\ f \in Streams
  BY Zenon DEF StreamInv, Shape, Sound
<1>2. /\ Calling([op |-> "flush"]) /\ closed' = closed /\ next' = next
      /\ ~closed /\ ~faulted /\ mode' = mode /\ req' = [op |-> "flush"]
      /\ res' = [error |-> flush_unlocked(f, fault, synced).error]
  BY Zenon DEF Flush, Calling
<1>3. SUFFICES StreamInv' /\ (faulted' \/ (Contents' = Contents /\ Position' = Position /\ Ahead' = Ahead))
  <2> SUFFICES ASSUME Contents' = Contents, Position' = Position, Ahead' = Ahead PROVE S!Nothing
    BY DEF S!Next
  <2> QED
    BY <1>2 DEF S!Nothing
<1>4. CASE f.prev_op # "WRITE" \/ f.pos = 0
  <2>1. flush_unlocked(f, fault, synced).f = f
    BY <1>4 DEF flush_unlocked, Result
  <2>2. /\ f' = f /\ faulted' = Loses(f, f)
        /\ dir' = IF dir = "out" /\ f.pos = 0 THEN "none" ELSE dir
    BY <2>1, Zenon DEF Flush
  <2>3. ~faulted' /\ faulted' \in BOOLEAN
    BY <2>2, Zenon DEF Loses
  <2>4. dir' \in {"none", "out", "in"} /\ Shape(f, next, dir', bufmode)
    BY <1>1, <2>2 DEF Shape
  <2> QED
    BY <1>1, <1>2, <2>2, <2>3, <2>4, Quiet
<1>5. CASE f.prev_op = "WRITE" /\ f.pos > 0
  <2> DEFINE w == Outcome(fault, "flush", Buffered(f))
             r == platform_write(f, Buffered(f), w)
             h == [r.f EXCEPT !.pos = 0]
  <2>1. w \in {"all", "short", "error"}
    BY <1>5, FlushOutcome
  <2>2. dir = "out" /\ Writing(f, next)
    BY <1>5, WaitingIsOutput
  <2>3. flush_unlocked(f, fault, synced)
          = IF Failed(r, f.pos) THEN Result(Flagged(r.f), 0, r.error) ELSE Result(h, 0, ~synced)
    <3>1. ~(f.prev_op # "WRITE" \/ f.pos = 0)
      BY <1>1, <1>5 DEF Streams
    <3> QED
      BY <3>1 DEF flush_unlocked
  <2> HIDE DEF w
  <2>4. /\ Writing(r.f, next) /\ Wrote(r, f, Buffered(f))
        /\ Failed(r, f.pos) <=> w # "all"
        /\ w = "all" => /\ r.value = f.pos /\ r.f.disk = Text(f)
                        /\ r.f.offset = Spot(f) + f.pos
    BY <1>1, <1>5, <2>1, <2>2, WaitingGoesOut, Zenon
  <2> HIDE DEF r, h
  <2>5. CASE w # "all"
    <3>1. flush_unlocked(f, fault, synced).f = Flagged(r.f)
      <4>1. flush_unlocked(f, fault, synced) = Result(Flagged(r.f), 0, r.error)
        BY <2>3, <2>4, <2>5, Zenon
      <4> QED
        BY <4>1 DEF Result
    <3>2. f' = Flagged(r.f) /\ faulted' = Loses(Flagged(r.f), f)
      BY <3>1, Zenon DEF Flush
    <3>3. /\ Flagged(r.f).disk = r.f.disk /\ Flagged(r.f).offset = r.f.offset
          /\ Flagged(r.f).buf = r.f.buf /\ Flagged(r.f).pos = r.f.pos
          /\ Flagged(r.f).read_limit = r.f.read_limit /\ Flagged(r.f).prev_op = r.f.prev_op
          /\ r.f.pos = f.pos
      BY <2>4, FlaggedIs, Zenon DEF Wrote
    <3>4. Text(Flagged(r.f)) = Text(r.f)
      BY <3>3, SameViews, Zenon
    <3>5. dir' = dir
      <4>1. flush_unlocked(f, fault, synced).f.pos = f.pos
        BY <3>1, <3>3, Zenon
      <4>2. dir' = IF dir = "out" /\ flush_unlocked(f, fault, synced).f.pos = 0 THEN "none" ELSE dir
        BY Zenon DEF Flush
      <4>3. f.pos # 0
        BY <1>1, <1>5
      <4> QED
        BY <4>1, <4>2, <4>3, Zenon
    <3>6. w \in {"short", "error"} /\ faulted' = (Text(r.f) # Text(f))
      BY <2>1, <2>5, <3>2, <3>4 DEF Loses
    <3> QED
      BY <1>2, <1>5, <3>2, <3>5, <3>6, FlushFails, Zenon DEF r
  <2>6. CASE w = "all"
    <3>1. flush_unlocked(f, fault, synced).f = h
      <4>1. flush_unlocked(f, fault, synced) = Result(h, 0, ~synced)
        BY <2>3, <2>4, <2>6, Zenon
      <4> QED
        BY <4>1 DEF Result
    <3>2. Writing(h, next) /\ h.pos = 0 /\ Continues(h, f, <<>>)
      BY <1>1, <2>2, <2>4, <2>6, FlushContinues DEF h
    <3>3. /\ h.offset = Spot(f) + f.pos /\ h.eof = f.eof /\ h.buf = f.buf
          /\ h.prev_op = "WRITE" /\ h.read_limit = 0
      BY <2>4, <2>6, <3>2 DEF Wrote, Streams, Writing, h
    <3>4. Text(h) = Text(f)
      <4>1. Text(f) \in Seq(Int) /\ Spot(f) \in Nat /\ f.pos \in Nat
        BY <1>1, <2>2, TextIs, Zenon
      <4>2. Spot(f) + f.pos \in Nat
        BY <4>1
      <4> QED
        BY <3>2, <4>1, <4>2, OverlayNothing DEF Continues
    <3>5. f' = h /\ faulted' = Loses(h, f) /\ dir' = "none"
      BY <2>2, <3>1, <3>2, Zenon DEF Flush
    <3>6. ~faulted' /\ faulted' \in BOOLEAN
      BY <3>4, <3>5, Zenon DEF Loses
    <3>7. Sound(h, next) /\ (read_allowed => Len(h.buf) > 0) /\ h.eof = FALSE
      BY <1>1, <2>2, <3>2, <3>3 DEF Writing, Shape, Streams
    <3>8. Shape(h, next, "none", bufmode)
      BY <3>2, <3>3, <3>7, Zenon DEF Shape, PushedAlone
    <3>9. StreamInv'
      BY <1>1, <1>2, <3>5, <3>6, <3>8, InvCall
    <3>10. PositionOf(h) = PositionOf(f) /\ LaterOf(h) = LaterOf(f)
      <4>1. /\ PositionOf(f) = Spot(f) + f.pos /\ LaterOf(f) = From(Text(f), PositionOf(f))
        BY <1>1, <1>5, <2>2, WriterView
      <4>2. /\ PositionOf(h) = IF "a" \in mode /\ h.pos = 0 THEN h.offset ELSE Spot(h) + h.pos
            /\ LaterOf(h) = From(Text(h), PositionOf(h))
        BY <1>1, <3>2, WriterView
      <4>3. Spot(h) + h.pos = Spot(f) + f.pos
        <5>1. Spot(h) + h.pos = Spot(f) + f.pos + Len(<<>>)
          BY <3>2 DEF Continues
        <5>2. Spot(f) \in Nat /\ f.pos \in Nat
          BY <1>1, <2>2, TextIs, Zenon
        <5> QED
          BY <5>1, <5>2
      <4> QED
        BY <3>2, <3>3, <3>4, <4>1, <4>2, <4>3
    <3>11. Contents' = Contents /\ Position' = Position /\ Ahead' = Ahead
      BY <1>2, <3>4, <3>5, <3>10, Views
    <3> QED
      BY <3>9, <3>11
  <2> QED
    BY <2>5, <2>6
<1> QED
  <2>1. f.pos \in Nat
    BY <1>1 DEF Streams
  <2> QED
    BY <1>4, <1>5, <2>1

\* The flush inside seek and close, when it succeeds: the text is on disk.
LEMMA DrainSucceeds ==
  ASSUME StreamInv, NEW fault \in AllFaults, ~Failed(Drained(fault), f.pos)
  PROVE  LET g == Drained(fault).f
         IN  /\ Shape(g, next, dir, bufmode) /\ g.disk = Text(f) /\ g.eof = f.eof /\ g.err = f.err
             /\ g.offset = IF f.prev_op = "WRITE" THEN PositionOf(f) ELSE f.offset
<1>1. /\ next \in Nat \ {0} /\ dir \in {"none", "out", "in"} /\ Shape(f, next, dir, bufmode)
      /\ Sound(f, next) /\ f \in Streams
  BY Zenon DEF StreamInv, Shape, Sound
<1>2. CASE f.prev_op = "WRITE" /\ f.pos > 0
  <2> DEFINE w == Outcome(fault, "flush", Buffered(f))
             r == platform_write(f, Buffered(f), w)
  <2>1. w \in {"all", "short", "error"}
    BY <1>2, FlushOutcome
  <2>2. dir = "out" /\ Writing(f, next)
    BY <1>2, WaitingIsOutput
  <2>3. Drained(fault) = r
    BY <1>2, Zenon DEF Drained
  <2> HIDE DEF w
  <2>4. /\ Writing(r.f, next) /\ Wrote(r, f, Buffered(f))
        /\ r.f.disk = Text(f) /\ r.f.offset = Spot(f) + f.pos
    BY <1>1, <1>2, <2>1, <2>2, <2>3, WaitingGoesOut, ZenonT(40)
  <2> HIDE DEF r
  <2>5. PositionOf(f) = Spot(f) + f.pos
    BY <1>1, <1>2, <2>2, WriterView
  <2>6. r.f.buf = f.buf /\ r.f.pos = f.pos /\ r.f.eof = f.eof /\ r.f.err = f.err
    BY <2>4, Zenon DEF Wrote
  <2>7. /\ read_allowed => Len(r.f.buf) > 0
        /\ r.f.eof = FALSE
        /\ bufmode = "_IONBF" => r.f.pos = 0
    BY <1>1, <2>2, <2>6, Zenon DEF Shape, Streams
  <2>8. Shape(r.f, next, dir, bufmode)
    BY <2>2, <2>4, <2>7, WritingShape, Zenon
  <2> QED
    BY <1>2, <2>3, <2>4, <2>5, <2>6, <2>8, Zenon
<1>3. CASE ~(f.prev_op = "WRITE" /\ f.pos > 0)
  <2>1. Drained(fault).f = f
    BY <1>3 DEF Drained, Result
  <2>2. f.prev_op = "WRITE" => f.pos = 0 /\ f.read_limit = 0
    BY <1>1, <1>3 DEF Shape, Streams
  <2>3. f.pos <= f.read_limit
    BY <1>1, <1>3, <2>2 DEF Shape, Streams
  <2>4. Reading(f, next)
    BY <1>1, <2>3 DEF Reading
  <2>5. /\ Text(f) = f.disk /\ PositionOf(f) = PlaceOf(f)
        /\ f.read_limit = 0 => PlaceOf(f) = f.offset
    BY <1>1, <2>2, <2>4, ReaderView
  <2> QED
    BY <1>1, <2>1, <2>2, <2>5
<1> QED
  BY <1>2, <1>3, Zenon

LEMMA DrainFails ==
  ASSUME StreamInv, NEW fault \in AllFaults, Failed(Drained(fault), f.pos)
  PROVE  /\ f.prev_op = "WRITE" /\ f.pos > 0
         /\ \E w \in {"short", "error"} : Drained(fault) = platform_write(f, Buffered(f), w)
<1>1. f.pos \in Nat /\ next \in Nat \ {0}
  BY DEF StreamInv, Shape, Sound, Streams
<1>2. f.prev_op = "WRITE" /\ f.pos > 0
  <2> SUFFICES ASSUME ~(f.prev_op = "WRITE" /\ f.pos > 0) PROVE FALSE
    OBVIOUS
  <2>1. Drained(fault) = Result(f, f.pos, FALSE)
    BY Zenon DEF Drained
  <2> QED
    BY <1>1, <2>1 DEF Result, Failed
<1> DEFINE w == Outcome(fault, "flush", Buffered(f))
<1>3. w \in {"all", "short", "error"}
  BY <1>2, FlushOutcome
<1>4. Drained(fault) = platform_write(f, Buffered(f), w)
  BY <1>2, Zenon DEF Drained
<1>5. Writing(f, next)
  BY <1>2, WaitingIsOutput
<1> HIDE DEF w
<1>6. w # "all"
  BY <1>1, <1>2, <1>3, <1>4, <1>5, WaitingGoesOut, Zenon
<1> QED
  BY <1>2, <1>3, <1>4, <1>6

\* A byte pushed back before anything was read is not what the text has there.
LEMMA PushedShows ==
  ASSUME StreamInv, f.prev_op \in {"NONE", "SEEK"}, f.read_limit > 0
  PROVE  LaterOf(f) # From(Text(f), PositionOf(f))
<1>1. /\ f.disk \in Seq(Int) /\ f.buf \in Seq(Int) /\ f.offset \in Nat /\ Len(f.buf) \in Nat
      /\ f.read_limit = 1 /\ f.pos = 0 /\ f.read_limit <= Len(f.buf)
      /\ \A n \in 1 .. Len(f.disk) : f.disk[n] # f.buf[1]
  BY DEF StreamInv, Shape, Sound, Streams, PushedAlone
<1>2. Text(f) = f.disk /\ LaterOf(f) = AheadOf(f) /\ PositionOf(f) = f.offset - 1
  BY <1>1, SMTT(90) DEF Text, LaterOf, PositionOf, PlaceOf
<1> DEFINE a == SubSeq(f.buf, 0 + 1, 1)
           rest == From(f.disk, f.offset)
           t == From(f.disk, f.offset - 1)
<1>3. a \in Seq(Int) /\ Len(a) = 1 /\ a[1] = f.buf[1]
  BY <1>1, SMTT(60)
<1>4. rest \in Seq(Int)
  BY <1>1 DEF From
<1>5. AheadOf(f) = a \o rest
  BY <1>1 DEF AheadOf
<1> HIDE DEF a, rest
<1>6. AheadOf(f)[1] = f.buf[1] /\ Len(AheadOf(f)) > 0
  <2>1. PICK x \in Seq(Int), y \in Seq(Int) : x = a /\ y = rest
    BY <1>3, <1>4
  <2>2. (x \o y)[1] = x[1] /\ Len(x \o y) > 0
    BY <1>3, <2>1
  <2> QED
    BY <1>3, <1>5, <2>1, <2>2
<1>7. ASSUME Len(t) > 0 PROVE \E n \in 1 .. Len(f.disk) : t[1] = f.disk[n]
  <2>1. CASE f.offset = 0
    <3>1. t = f.disk
      BY <1>1, <2>1 DEF From
    <3>2. 1 \in 1 .. Len(f.disk)
      BY <1>1, <1>7, <3>1
    <3> QED
      BY <3>1, <3>2
  <2>2. CASE f.offset # 0
    <3>1. PICK i \in Nat : i = f.offset - 1 /\ ~(f.offset - 1 < 0)
      BY <1>1, <2>2
    <3>2. t = SubSeq(f.disk, i + 1, Len(f.disk))
      BY <3>1, Zenon DEF From
    <3>3. Len(f.disk) \in 0 .. Len(f.disk)
      BY <1>1
    <3>4. /\ Len(t) = IF i <= Len(f.disk) THEN Len(f.disk) - i ELSE 0
          /\ \A n \in 1 .. Len(f.disk) - i : t[n] = f.disk[i + n]
      BY <1>1, <3>2, <3>3, PieceIs
    <3>5. 1 \in 1 .. Len(f.disk) - i /\ i + 1 \in 1 .. Len(f.disk)
      BY <1>1, <1>7, <3>1, <3>4, SMTT(90)
    <3> QED
      BY <3>4, <3>5
  <2> QED
    BY <2>1, <2>2
<1> HIDE DEF t
<1> QED
  BY <1>1, <1>2, <1>6, <1>7, Zenon DEF t

\* Where a seek goes, unless it counts from a position that is not specified.
LEMMA SeekTarget ==
  ASSUME StreamInv, NEW whence \in {"SEEK_SET", "SEEK_CUR", "SEEK_END"}, NEW offset \in Int,
         NEW g, g \in Streams, g.disk = Text(f),
         g.offset = IF f.prev_op = "WRITE" THEN PositionOf(f) ELSE f.offset
  PROVE  LET target == offset - ReadAhead(whence) +
                       (CASE whence = "SEEK_SET" -> 0
                         [] whence = "SEEK_CUR" -> g.offset
                         [] whence = "SEEK_END" -> Len(g.disk))
         IN  /\ target \in Int
             /\ \/ whence = "SEEK_CUR" /\ LaterOf(f) # From(Text(f), PositionOf(f))
                \/ target = offset + (CASE whence = "SEEK_SET" -> 0
                                        [] whence = "SEEK_CUR" -> PositionOf(f)
                                        [] whence = "SEEK_END" -> Len(Text(f)))
<1>1. /\ f.pos \in Nat /\ f.read_limit \in Nat /\ f.offset \in Nat
      /\ f.prev_op \in {"NONE", "READ", "WRITE", "SEEK"}
      /\ dir \in {"none", "out", "in"} /\ Shape(f, next, dir, bufmode)
  BY Zenon DEF StreamInv, Shape, Sound, Streams
<1>2. g.disk \in Seq(Int) /\ g.offset \in Nat /\ Len(g.disk) \in Nat
  BY DEF Streams
<1>3. CASE whence = "SEEK_SET"
  BY <1>3 DEF ReadAhead
<1>4. CASE whence = "SEEK_END"
  BY <1>2, <1>4 DEF ReadAhead
<1>5. CASE whence = "SEEK_CUR"
  <2>1. CASE f.prev_op = "READ"
    <3>1. ReadAhead(whence) = f.read_limit - f.pos /\ g.offset = f.offset
      BY <1>5, <2>1 DEF ReadAhead
    <3>2. PositionOf(f) = f.offset - (f.read_limit - f.pos)
      BY <2>1 DEF PositionOf, PlaceOf
    <3> QED
      BY <1>1, <1>5, <3>1, <3>2
  <2>2. CASE f.prev_op = "WRITE"
    <3>1. ReadAhead(whence) = 0 /\ g.offset = PositionOf(f)
      BY <2>2 DEF ReadAhead
    <3> QED
      BY <1>2, <1>5, <3>1
  <2>3. CASE f.prev_op \in {"NONE", "SEEK"}
    <3>1. ReadAhead(whence) = 0 /\ g.offset = f.offset
      BY <2>3 DEF ReadAhead
    <3>2. CASE f.read_limit > 0
      <4>1. LaterOf(f) # From(Text(f), PositionOf(f))
        BY <2>3, <3>2, PushedShows
      <4> QED
        BY <1>2, <1>5, <3>1, <4>1
    <3>3. CASE f.read_limit = 0
      <4>1. f.pos = 0
        BY <1>1, <2>3, <3>3 DEF Shape
      <4>2. PositionOf(f) = f.offset
        BY <1>1, <2>3, <3>3, <4>1 DEF PositionOf, PlaceOf
      <4> QED
        BY <1>2, <1>5, <3>1, <4>2
    <3> QED
      BY <1>1, <3>2, <3>3
  <2> QED
    BY <1>1, <2>1, <2>2, <2>3
<1> QED
  BY <1>3, <1>4, <1>5

\* Seek: the buffer is given up, and the position is the one asked for.
LEMMA SeekStep ==
  ASSUME StreamInv, NEW offset \in Offsets, NEW whence \in {"SEEK_SET", "SEEK_CUR", "SEEK_END"},
         NEW fault \in AllFaults, Seek(offset, whence, fault)
  PROVE  StreamInv' /\ (faulted' \/ S!Next)
<1> DEFINE r == Drained(fault)
           target == offset - ReadAhead(whence) +
                     (CASE whence = "SEEK_SET" -> 0
                       [] whence = "SEEK_CUR" -> r.f.offset
                       [] whence = "SEEK_END" -> Len(r.f.disk))
           c == [op |-> "seek", offset |-> offset, whence |-> whence]
<1>1. /\ next \in Nat \ {0} /\ closed \in BOOLEAN /\ faulted \in BOOLEAN
      /\ dir \in {"none", "out", "in"} /\ offset \in Int
  BY StreamAssumption DEF StreamInv
<1>2. /\ Calling(c) /\ closed' = closed /\ next' = next
      /\ ~closed /\ ~faulted /\ mode' = mode /\ req' = c
  BY DEF Seek, Calling
<1>3. CASE Failed(r, f.pos)
  <2>1. /\ f' = Flagged(r.f) /\ res' = [error |-> TRUE]
        /\ faulted' = (Text(r.f) # Text(f)) /\ dir' = dir
    BY <1>3 DEF Seek, Loses
  <2>2. /\ f.prev_op = "WRITE" /\ f.pos > 0
        /\ \E w \in {"short", "error"} : r = platform_write(f, Buffered(f), w)
    BY <1>3, DrainFails
  <2> HIDE DEF r, c
  <2>3. PICK w \in {"short", "error"} : r = platform_write(f, Buffered(f), w)
    BY <2>2
  <2>4. /\ StreamInv'
        /\ faulted' \/ (Contents' = Contents /\ Position' = Position /\ Ahead' = Ahead)
    BY <1>2, <2>1, <2>2, <2>3, FlushFails, Zenon
  <2>5. Contents' = Contents => S!SeekFails
    BY <1>2, <2>1 DEF S!SeekFails, S!Fails, c
  <2> QED
    BY <2>4, <2>5 DEF S!Next
<1>4. CASE ~Failed(r, f.pos)
  <2> DEFINE g == r.f
             o == IF target < 0 THEN g.offset ELSE target
  <2>1. /\ f' = [g EXCEPT !.pos = 0, !.read_limit = 0, !.prev_op = "SEEK",
                          !.eof = FALSE, !.offset = o]
        /\ res' = [error |-> target < 0] /\ dir' = "none" /\ faulted' = faulted
    BY <1>4, Zenon DEF Seek
  <2>2. /\ Shape(g, next, dir, bufmode) /\ g.disk = Text(f)
        /\ g.offset = IF f.prev_op = "WRITE" THEN PositionOf(f) ELSE f.offset
    BY <1>4, DrainSucceeds, Zenon
  <2>3. g \in Streams /\ Sound(g, next) /\ (read_allowed => Len(g.buf) > 0)
    BY <2>2, Zenon DEF Shape, Sound
  <2>4. /\ target \in Int
        /\ \/ whence = "SEEK_CUR" /\ LaterOf(f) # From(Text(f), PositionOf(f))
           \/ target = offset + (CASE whence = "SEEK_SET" -> 0
                                   [] whence = "SEEK_CUR" -> PositionOf(f)
                                   [] whence = "SEEK_END" -> Len(Text(f)))
    BY <1>1, <2>2, <2>3, SeekTarget, ZenonT(40)
  <2> HIDE DEF target, g
  <2>5. o \in Nat
    BY <2>3, <2>4 DEF Streams
  <2> HIDE DEF o
  <2>6. /\ f' \in Streams /\ f'.disk = g.disk /\ f'.buf = g.buf /\ f'.pos = 0
        /\ f'.read_limit = 0 /\ f'.prev_op = "SEEK" /\ f'.eof = FALSE /\ f'.offset = o
    BY <2>1, <2>3, <2>5, Zenon DEF Streams
  <2>7. Sound(f', next)
    <3>1. Len(g.buf) \in Nat
      BY <2>3 DEF Streams
    <3> QED
      BY <2>3, <2>6, <3>1, SMTT(90) DEF Sound
  <2>8. Shape(f', next, "none", bufmode)
    BY <2>3, <2>6, <2>7, SMTT(90) DEF Shape, PushedAlone
  <2>9. StreamInv'
    <3> HIDE DEF c
    <3> QED
      BY <1>1, <1>2, <2>1, <2>8, InvCall
  <2>10. Reading(f', next)
    BY <2>6, <2>7 DEF Reading
  <2>11. Text(f') = f'.disk /\ PositionOf(f') = o /\ LaterOf(f') = From(f'.disk, o)
    BY <1>1, <2>6, <2>10, ReaderView
  <2>12. /\ Contents = Text(f) /\ Contents' = Contents /\ Position = PositionOf(f) /\ Position' = o
         /\ Ahead = LaterOf(f) /\ Ahead' = From(Contents, o)
    BY <1>2, <2>2, <2>6, <2>11, Views, Zenon
  <2>13. req'.op = "seek" /\ req'.offset = offset /\ req'.whence = whence
    BY <1>2
  <2>14. CASE target < 0
    <3>1. S!SeekFails
      BY <2>1, <2>12, <2>13, <2>14, Zenon DEF S!SeekFails, S!Fails
    <3> QED
      BY <2>9, <3>1 DEF S!Next
  <2>15. CASE ~(target < 0)
    <3>1. o = target /\ ~res'.error
      <4>1. o = target
        BY <2>15 DEF o
      <4> QED
        BY <2>1, <2>15, <4>1, Zenon
    <3>2. (whence = "SEEK_CUR" /\ S!Pushed) \/ Position' = S!Target
      <4>1. CASE whence = "SEEK_CUR" /\ LaterOf(f) # From(Text(f), PositionOf(f))
        BY <2>12, <4>1, SameOperators DEF S!Pushed
      <4>2. CASE target = offset + (CASE whence = "SEEK_SET" -> 0
                                      [] whence = "SEEK_CUR" -> PositionOf(f)
                                      [] whence = "SEEK_END" -> Len(Text(f)))
        BY <2>12, <2>13, <3>1, <4>2 DEF S!Target
      <4> QED
        BY <2>4, <4>1, <4>2
    <3>3. S!Seek
      BY <2>12, <2>13, <3>1, <3>2, SameOperators DEF S!Seek, S!Fails
    <3> QED
      BY <2>9, <3>3 DEF S!Next
  <2> QED
    BY <2>14, <2>15
<1> QED
  BY <1>3, <1>4

\* Tell: the position is reported; at the end of the file it may come back to it.
LEMMA TellStep ==
  ASSUME StreamInv, Tell
  PROVE  StreamInv' /\ (faulted' \/ S!Next)
<1> DEFINE o == IF f.eof THEN Len(f.disk) ELSE f.offset
           value == CASE f.prev_op = "READ" -> o - (f.read_limit - f.pos)
                      [] f.prev_op = "WRITE" -> o + f.pos
                      [] OTHER -> o
<1>1. /\ next \in Nat \ {0} /\ closed \in BOOLEAN /\ faulted \in BOOLEAN
      /\ dir \in {"none", "out", "in"} /\ Shape(f, next, dir, bufmode) /\ f \in Streams
      /\ Sound(f, next)
  BY Zenon DEF StreamInv, Shape, Sound
<1>2. /\ Calling([op |-> "tell"]) /\ closed' = closed /\ next' = next /\ dir' = dir
      /\ faulted' = faulted /\ ~closed /\ ~faulted /\ mode' = mode /\ req' = [op |-> "tell"]
      /\ f' = [f EXCEPT !.offset = o] /\ res' = [error |-> FALSE, value |-> value]
  BY DEF Tell, Calling
<1>3. /\ f.pos \in Nat /\ f.read_limit \in Nat /\ f.offset \in Nat /\ f.disk \in Seq(Int)
      /\ Len(f.disk) \in Nat /\ f.prev_op \in {"NONE", "READ", "WRITE", "SEEK"}
  BY <1>1 DEF Streams
<1>4. res'.error = FALSE /\ res'.value = value /\ req'.op = "tell"
  BY <1>2
<1>5. CASE f.eof
  <2>1. f.prev_op = "READ" /\ f.pos = f.read_limit /\ Len(f.disk) <= f.offset /\ dir = "in"
    BY <1>1, <1>5 DEF Shape
  <2>2. value = Len(f.disk)
    BY <1>3, <1>5, <2>1
  <2>3. /\ f' \in Streams /\ f'.disk = f.disk /\ f'.buf = f.buf /\ f'.pos = f.pos
        /\ f'.read_limit = f.read_limit /\ f'.prev_op = f.prev_op /\ f'.eof = f.eof
        /\ f'.offset = Len(f.disk)
    BY <1>1, <1>2, <1>3, <1>5, Zenon DEF Streams
  <2>4. Sound(f', next)
    BY <1>1, <2>3 DEF Sound
  <2>5. Shape(f', next', dir', bufmode)
    BY <1>1, <1>2, <1>3, <2>1, <2>3, <2>4 DEF Shape, PushedAlone
  <2>6. StreamInv'
    BY <1>1, <1>2, <2>5, InvCall
  <2>7. Reading(f, next) /\ Reading(f', next)
    BY <1>1, <1>3, <2>1, <2>3, <2>4 DEF Reading
  <2>8. Text(f) = f.disk /\ PositionOf(f) = f.offset /\ LaterOf(f) = AheadOf(f)
    <3>1. Text(f) = f.disk /\ PositionOf(f) = PlaceOf(f) /\ LaterOf(f) = AheadOf(f)
      BY <1>1, <2>1, <2>7, ReaderView
    <3> QED
      BY <1>3, <2>1, <3>1 DEF PlaceOf
  <2>9. Text(f') = f.disk /\ PositionOf(f') = Len(f.disk) /\ LaterOf(f') = AheadOf(f')
    <3>1. Text(f') = f'.disk /\ PositionOf(f') = PlaceOf(f') /\ LaterOf(f') = AheadOf(f')
      BY <1>1, <2>1, <2>3, <2>7, ReaderView
    <3> QED
      BY <1>3, <2>1, <2>3, <3>1, SMTT(60) DEF PlaceOf
  <2>10. AheadOf(f') = AheadOf(f)
    <3>1. From(f.disk, f.offset) = <<>> /\ From(f.disk, Len(f.disk)) = <<>>
      BY <1>3, <2>1 DEF From
    <3> QED
      BY <2>3, <3>1 DEF AheadOf
  <2>11. /\ Contents = f.disk /\ Contents' = f.disk /\ Position = f.offset
         /\ Position' = Len(f.disk) /\ Ahead' = Ahead
    BY <1>2, <2>8, <2>9, <2>10, Views
  <2>12. CASE f.offset = Len(f.disk)
    <3>1. S!Tell
      BY <1>4, <2>2, <2>11, <2>12 DEF S!Tell, S!Fails
    <3> QED
      BY <2>6, <3>1 DEF S!Next
  <2>13. CASE f.offset > Len(f.disk)
    <3>1. S!Tell
      BY <1>4, <2>2, <2>11, <2>13 DEF S!Tell, S!Fails
    <3> QED
      BY <2>6, <3>1 DEF S!Next
  <2> QED
    BY <1>3, <2>1, <2>12, <2>13
<1>6. CASE ~f.eof
  <2>1. f' = f
    BY <1>1, <1>2, <1>6 DEF Streams
  <2>2. StreamInv' /\ Contents' = Contents /\ Position' = Position /\ Ahead' = Ahead
    BY <1>1, <1>2, <2>1, Quiet, Zenon
  <2>3. "a" \in mode \/ S!Pushed \/ value = Position
    <3>1. Contents = Text(f) /\ Position = PositionOf(f) /\ Ahead = LaterOf(f)
      BY <1>2, Views
    <3>2. CASE f.prev_op = "READ"
      <4>1. PositionOf(f) = f.offset - (f.read_limit - f.pos)
        BY <3>2 DEF PositionOf, PlaceOf
      <4> QED
        BY <1>6, <3>1, <3>2, <4>1
    <3>3. CASE f.prev_op = "WRITE"
      <4>1. f.read_limit = 0
        BY <1>1, <3>3 DEF Shape
      <4>2. "a" \notin mode => PositionOf(f) = f.offset + f.pos
        BY <1>3, <3>3, <4>1 DEF PositionOf, PlaceOf
      <4> QED
        BY <1>6, <3>1, <3>3, <4>2
    <3>4. CASE f.prev_op \in {"NONE", "SEEK"}
      <4>1. value = f.offset
        BY <1>6, <3>4
      <4>2. CASE f.read_limit > 0
        <5>1. LaterOf(f) # From(Text(f), PositionOf(f))
          BY <3>4, <4>2, PushedShows
        <5>2. S!Pushed
          BY <3>1, <5>1, SameOperators DEF S!Pushed
        <5> QED
          BY <5>2
      <4>3. CASE f.read_limit = 0
        <5>1. f.pos = 0
          BY <1>1, <3>4, <4>3 DEF Shape, Streams
        <5>2. PositionOf(f) = f.offset
          BY <1>3, <3>4, <4>3, <5>1 DEF PositionOf, PlaceOf
        <5> QED
          BY <3>1, <4>1, <5>2
      <4> QED
        BY <1>3, <4>2, <4>3
    <3> QED
      BY <1>3, <3>2, <3>3, <3>4
  <2>4. S!Tell
    BY <1>4, <2>2, <2>3 DEF S!Tell, S!Fails
  <2> QED
    BY <2>2, <2>4 DEF S!Next
<1> QED
  BY <1>5, <1>6

LEMMA ClearerrStep ==
  ASSUME StreamInv, Clearerr
  PROVE  StreamInv' /\ (faulted' \/ S!Next)
<1>1. /\ next \in Nat \ {0} /\ closed \in BOOLEAN /\ faulted \in BOOLEAN
      /\ dir \in {"none", "out", "in"} /\ Shape(f, next, dir, bufmode) /\ f \in Streams
  BY Zenon DEF StreamInv, Shape, Sound
<1>2. /\ Calling([op |-> "clearerr"]) /\ closed' = closed /\ next' = next /\ dir' = dir
      /\ faulted' = faulted /\ ~faulted /\ req' = [op |-> "clearerr"]
      /\ f' = [f EXCEPT !.err = FALSE]
  BY DEF Clearerr, Calling
<1>3. /\ f' \in Streams /\ f'.disk = f.disk /\ f'.offset = f.offset /\ f'.buf = f.buf
      /\ f'.pos = f.pos /\ f'.read_limit = f.read_limit /\ f'.prev_op = f.prev_op
      /\ f'.eof = f.eof
  BY <1>1, <1>2, Zenon DEF Streams
<1>4. StreamInv' /\ Contents' = Contents /\ Position' = Position /\ Ahead' = Ahead
  BY <1>1, <1>2, <1>3, Quiet, Zenon
<1>5. S!Nothing
  BY <1>2, <1>4 DEF S!Nothing
<1> QED
  BY <1>4, <1>5 DEF S!Next

\* Close: what waited is in the file, or the file is still open.
LEMMA CloseStep ==
  ASSUME StreamInv, NEW fault \in AllFaults, NEW answer \in BOOLEAN, Close(fault, answer)
  PROVE  StreamInv' /\ (faulted' \/ S!Next)
<1> DEFINE r == Drained(fault)
<1>1. /\ next \in Nat \ {0} /\ closed \in BOOLEAN /\ faulted \in BOOLEAN
      /\ dir \in {"none", "out", "in"}
  BY DEF StreamInv
<1>2. /\ Calling([op |-> "close"]) /\ next' = next /\ dir' = dir
      /\ ~closed /\ ~faulted /\ mode' = mode /\ req' = [op |-> "close"]
  BY DEF Close, Calling
<1>3. SUFFICES StreamInv' /\ (faulted' \/ Contents' = Contents)
  BY <1>2 DEF S!Next, S!Close
<1>4. CASE Failed(r, f.pos)
  <2>1. /\ f' = Flagged(r.f) /\ faulted' = (Text(r.f) # Text(f)) /\ closed' = closed
    BY <1>4 DEF Close, Loses
  <2>2. /\ f.prev_op = "WRITE" /\ f.pos > 0
        /\ \E w \in {"short", "error"} : r = platform_write(f, Buffered(f), w)
    BY <1>4, DrainFails
  <2> HIDE DEF r
  <2>3. PICK w \in {"short", "error"} : r = platform_write(f, Buffered(f), w)
    BY <2>2
  <2> QED
    BY <1>2, <2>1, <2>2, <2>3, FlushFails, Zenon
<1>5. CASE ~Failed(r, f.pos)
  <2>1. f' = r.f /\ closed' = TRUE /\ faulted' = faulted
    BY <1>5 DEF Close
  <2>2. Shape(r.f, next, dir, bufmode) /\ r.f.disk = Text(f)
    BY <1>5, DrainSucceeds, Zenon
  <2> HIDE DEF r
  <2>3. StreamInv'
    BY <1>1, <1>2, <2>1, <2>2, InvCall
  <2>4. Contents' = Contents
    BY <1>2, <2>1, <2>2, Views, Zenon
  <2> QED
    BY <2>3, <2>4
<1> QED
  BY <1>4, <1>5

\* Every step keeps the invariant, and is one of the abstract stream up to a loss.
LEMMA StreamStep ==
  ASSUME StreamInv, Next
  PROVE  StreamInv' /\ (faulted' \/ S!Next)
<1>1. \A sites : FaultsAt(sites) \subseteq AllFaults
  BY DEF FaultsAt, AllFaults
<1>2. CASE \E size \in BufSizes, m \in {"_IOFBF", "_IOLBF", "_IONBF"} : set_buffer(size, m)
  BY <1>2, SetBufferStep
<1>3. CASE \E n \in WriteSizes, fault \in FaultsAt(Sites \ {"flush"}) :
             \E nl \in 0 .. (IF bufmode = "_IOLBF" THEN n ELSE 0) : Write(n, nl, fault)
  BY <1>1, <1>3, WriteStep
<1>4. CASE \E n \in ReadSizes, failing \in BOOLEAN : Read(n, failing)
  BY <1>4, ReadStep
<1>5. CASE \E fault \in FaultsAt({"flush"}), offset \in Offsets,
             whence \in {"SEEK_SET", "SEEK_CUR", "SEEK_END"} : Seek(offset, whence, fault)
  BY <1>1, <1>5, SeekStep
<1>6. CASE \E fault \in FaultsAt({"flush"}), b \in BOOLEAN : Flush(fault, b) \/ Close(fault, b)
  BY <1>1, <1>6, FlushStep, CloseStep
<1>7. CASE Ungetc \/ Tell \/ Clearerr
  BY <1>7, UngetcStep, TellStep, ClearerrStep
<1> QED
  BY <1>2, <1>3, <1>4, <1>5, <1>6, <1>7 DEF Next

LEMMA StreamInvariant == Spec => []StreamInv
<1>1. StreamInv /\ UNCHANGED vars => StreamInv'
  BY SMTT(90) DEF StreamInv, Shape, Sound, Rising, PushedAlone, Below, read_allowed, vars
<1> QED
  BY <1>1, InvInit, StreamStep, PTL DEF Spec

(***************************************************************************)
(* The theorems                                                            *)
(***************************************************************************)
\* The two indices stay inside the buffer, and a reader's pos never passes read_limit
\* (file.cpp:194), for buffers, requests and files of every size.
THEOREM StreamStaysInBuffer == Spec => []BufferInBounds
<1>1. StreamInv => BufferInBounds
  <2> SUFFICES ASSUME StreamInv PROVE BufferInBounds
    OBVIOUS
  <2>1. f.pos \in Nat /\ f.read_limit \in Nat /\ f.pos <= Len(f.buf) /\ f.read_limit <= Len(f.buf)
    BY DEF StreamInv, Shape, Sound, Streams
  <2>2. dir # "out" => f.pos <= f.read_limit
    BY <2>1 DEF StreamInv, Shape
  <2>3. Len(f.buf) \in Nat
    BY DEF StreamInv, Shape, Sound, Streams
  <2> QED
    BY <2>1, <2>2, <2>3 DEF BufferInBounds
<1> QED
  BY <1>1, StreamInvariant, PTL

\* When eof is set, nothing is left to be read in the buffer or in the file.
THEOREM StreamEofIsTheEnd == Spec => []EofIsTheEnd
<1>1. StreamInv => EofIsTheEnd
  <2> SUFFICES ASSUME StreamInv, f.eof PROVE Ahead = <<>>
    BY DEF EofIsTheEnd
  <2>1. /\ f.prev_op = "READ" /\ f.pos = f.read_limit /\ Len(f.disk) <= f.offset
        /\ f.pos \in Nat /\ f.offset \in Nat /\ f.disk \in Seq(Int) /\ f.buf \in Seq(Int)
    BY DEF StreamInv, Shape, Sound, Streams
  <2>2. SubSeq(f.buf, f.pos + 1, f.read_limit) = <<>> /\ From(f.disk, f.offset) = <<>>
    BY <2>1 DEF From
  <2> QED
    BY <2>1, <2>2 DEF Ahead
<1> QED
  BY <1>1, StreamInvariant, PTL

\* A stream that has lost bytes of its client has err set, unless the system call that
\* writes the remainder of a fully buffered write is short: file.cpp:123 compares the
\* count of the flush before it, and cannot see that.
THEOREM StreamReportsLoss ==
  ASSUME ShortRest \notin Faults
  PROVE  Spec => []LossIsReported
<1>1. StreamInv => LossIsReported
  BY DEF StreamInv, LossIsReported
<1> QED
  BY <1>1, StreamInvariant, PTL

\* Every operation of the buffered stream is one of AbstractStream, for buffers,
\* requests and files of every size and every incomplete write, up to the first loss.
THEOREM StreamImplements == Spec => ImplementsStream
<1>1. StreamInv /\ [Next]_vars => [faulted' \/ S!Next]_<<Contents, Position, Ahead, req, res>>
  <2> SUFFICES ASSUME StreamInv, [Next]_vars
               PROVE  [faulted' \/ S!Next]_<<Contents, Position, Ahead, req, res>>
    OBVIOUS
  <2>1. CASE Next
    BY <2>1, StreamStep
  <2>2. CASE UNCHANGED vars
    BY <2>2 DEF vars, Contents, Position, Ahead, Text, Buffered
  <2> QED
    BY <2>1, <2>2
<1> QED
  BY <1>1, StreamInvariant, PTL DEF Spec, ImplementsStream
=============================================================================
