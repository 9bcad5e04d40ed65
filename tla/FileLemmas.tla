----------------------------- MODULE FileLemmas -----------------------------
(***************************************************************************)
(* What the functions of File do to a stream, for every mode, contents,    *)
(* size of the buffer and length of a transfer: the lemmas on which the    *)
(* theorems of FileProofs rest.                                            *)
(***************************************************************************)
EXTENDS File, TLAPS

----------------------------------------------------------------------------
(* Bytes                                                                   *)

\* Every byte of s is an older one than b.
Below(s, b) == \A n \in 1 .. Len(s) : s[n] < b

\* n fresh bytes, of which c is the first.
Run(c, n) == [k \in 1 .. n |-> c + k - 1]

LEMMA ConcatProperties ==
  ASSUME NEW s \in Seq(Int), NEW t \in Seq(Int)
  PROVE  /\ s \o t \in Seq(Int) /\ Len(s \o t) = Len(s) + Len(t)
         /\ \A n \in 1 .. Len(s) + Len(t) :
              (s \o t)[n] = IF n <= Len(s) THEN s[n] ELSE t[n - Len(s)]
  OBVIOUS

LEMMA ConcatEmptySeq ==
  ASSUME NEW s \in Seq(Int)
  PROVE  s \o <<>> = s /\ <<>> \o s = s
  OBVIOUS

LEMMA SameBytes ==
  ASSUME NEW s \in Seq(Int), NEW t \in Seq(Int), Len(s) = Len(t),
         \A n \in 1 .. Len(s) : s[n] = t[n]
  PROVE  s = t
  OBVIOUS

\* v is s with d over it from position k on, byte by byte.
IsOverlay(v, s, k, d) ==
  /\ v \in Seq(Int)
  /\ Len(v) = IF Len(d) > 0 /\ k + Len(d) > Len(s) THEN k + Len(d) ELSE Len(s)
  /\ \A n \in 1 .. Len(v) :
       v[n] = IF n \in k + 1 .. k + Len(d) THEN d[n - k] ELSE IF n <= Len(s) THEN s[n] ELSE 0

LEMMA OverlaidByte ==
  ASSUME NEW v, NEW s \in Seq(Int), NEW k \in Nat, NEW d \in Seq(Int), IsOverlay(v, s, k, d),
         NEW j \in 1 .. Len(d)
  PROVE  v[k + j] = d[j]
<1>1. PICK n \in Nat : n = k + j
  OBVIOUS
<1>2. n \in 1 .. Len(v) /\ n \in k + 1 .. k + Len(d) /\ n - k = j
  BY <1>1 DEF IsOverlay
<1> QED
  BY <1>1, <1>2 DEF IsOverlay

LEMMA OverlayIs ==
  ASSUME NEW s \in Seq(Int), NEW k \in Nat, NEW d \in Seq(Int)
  PROVE  IsOverlay(Overlay(s, k, d), s, k, d)
<1> DEFINE L == IF d # <<>> /\ k + Len(d) > Len(s) THEN k + Len(d) ELSE Len(s)
           B(n) == IF n \in k + 1 .. k + Len(d) THEN d[n - k]
                   ELSE IF n <= Len(s) THEN s[n] ELSE 0
<1>1. Overlay(s, k, d) = [n \in 1 .. L |-> B(n)]
  BY DEF Overlay, Hole
<1>2. L \in Nat /\ (d # <<>> <=> Len(d) > 0)
  OBVIOUS
<1>3. \A n \in 1 .. L : B(n) \in Int
  OBVIOUS
<1> HIDE DEF B
<1>4. [n \in 1 .. L |-> B(n)] \in Seq(Int) /\ Len([n \in 1 .. L |-> B(n)]) = L
  BY <1>2, <1>3
<1> QED
  BY <1>1, <1>2, <1>4 DEF B, IsOverlay

\* There is one such text.
LEMMA OneOverlay ==
  ASSUME NEW s \in Seq(Int), NEW k \in Nat, NEW d \in Seq(Int), NEW v,
         IsOverlay(v, s, k, d)
  PROVE  v = Overlay(s, k, d)
<1> DEFINE w == Overlay(s, k, d)
<1>1. IsOverlay(w, s, k, d)
  BY OverlayIs
<1> HIDE DEF w
<1>2. v \in Seq(Int) /\ w \in Seq(Int) /\ Len(v) = Len(w)
  BY <1>1 DEF IsOverlay
<1>3. \A n \in 1 .. Len(v) : v[n] = w[n]
  BY <1>1, <1>2 DEF IsOverlay
<1>4. v = w
  BY <1>2, <1>3, SameBytes
<1> QED
  BY <1>4 DEF w

LEMMA OverlayNothing ==
  ASSUME NEW s \in Seq(Int), NEW k \in Nat
  PROVE  Overlay(s, k, <<>>) = s
<1>1. IsOverlay(s, s, k, <<>>)
  BY DEF IsOverlay
<1>2. <<>> \in Seq(Int)
  OBVIOUS
<1> QED
  BY <1>1, <1>2, OneOverlay, Zenon

LEMMA OverlayTwice ==
  ASSUME NEW s \in Seq(Int), NEW k \in Nat, NEW a \in Seq(Int), NEW b \in Seq(Int)
  PROVE  Overlay(Overlay(s, k, a), k + Len(a), b) = Overlay(s, k, a \o b)
<1>1. a \o b \in Seq(Int) /\ Len(a \o b) = Len(a) + Len(b) /\ k + Len(a) \in Nat
  OBVIOUS
<1>2. \A n \in 1 .. Len(a) + Len(b) :
        (a \o b)[n] = IF n <= Len(a) THEN a[n] ELSE b[n - Len(a)]
  OBVIOUS
<1>3. PICK u : u = Overlay(s, k, a) /\ IsOverlay(u, s, k, a)
  BY OverlayIs
<1>4. u \in Seq(Int)
  BY <1>3 DEF IsOverlay
<1>5. PICK v : v = Overlay(u, k + Len(a), b) /\ IsOverlay(v, u, k + Len(a), b)
  BY <1>1, <1>4, OverlayIs
<1>6. /\ v \in Seq(Int)
      /\ Len(v) = IF Len(a \o b) > 0 /\ k + Len(a \o b) > Len(s) THEN k + Len(a \o b) ELSE Len(s)
  <2>1. Len(u) = IF Len(a) > 0 /\ k + Len(a) > Len(s) THEN k + Len(a) ELSE Len(s)
    BY <1>3 DEF IsOverlay
  <2>2. /\ v \in Seq(Int)
        /\ Len(v) = IF Len(b) > 0 /\ k + Len(a) + Len(b) > Len(u)
                    THEN k + Len(a) + Len(b) ELSE Len(u)
    BY <1>5 DEF IsOverlay
  <2>3. Len(s) \in Nat /\ Len(a) \in Nat /\ Len(b) \in Nat
    OBVIOUS
  <2>4. CASE Len(b) = 0
    BY <1>1, <2>1, <2>2, <2>3, <2>4
  <2>5. CASE Len(b) > 0
    <3>1. k + Len(a) + Len(b) > Len(u) <=> k + Len(a) + Len(b) > Len(s)
      BY <2>1, <2>3, <2>5
    <3>2. k + Len(a) + Len(b) <= Len(s) => Len(u) = Len(s)
      BY <2>1, <2>3, <2>5
    <3>3. k + Len(a \o b) = k + Len(a) + Len(b) /\ Len(a \o b) > 0
      BY <1>1, <2>3, <2>5
    <3> QED
      BY <2>2, <2>3, <2>5, <3>1, <3>2, <3>3, SMTT(90)
  <2> QED
    BY <2>3, <2>4, <2>5
<1>7. ASSUME NEW n \in 1 .. Len(v)
      PROVE  v[n] = IF n \in k + 1 .. k + Len(a \o b) THEN (a \o b)[n - k]
                    ELSE IF n <= Len(s) THEN s[n] ELSE 0
  <2>1. CASE n \in k + Len(a) + 1 .. k + Len(a) + Len(b)
    <3>1. v[n] = b[n - (k + Len(a))]
      BY <1>5, <2>1 DEF IsOverlay
    <3>2. n - k \in 1 .. Len(a) + Len(b) /\ n - k - Len(a) = n - (k + Len(a))
      BY <2>1
    <3> QED
      BY <1>1, <1>2, <2>1, <3>1, <3>2
  <2>2. CASE n \in k + 1 .. k + Len(a)
    <3>0. Len(u) \in Nat /\ n \in 1 .. Len(u)
      BY <1>3, <2>2 DEF IsOverlay
    <3>1. v[n] = u[n] /\ u[n] = a[n - k]
      <4>1. v[n] = IF n \in k + Len(a) + 1 .. k + Len(a) + Len(b) THEN b[n - (k + Len(a))]
                   ELSE IF n <= Len(u) THEN u[n] ELSE 0
        BY <1>5 DEF IsOverlay
      <4>2. u[n] = a[n - k]
        BY <1>3, <2>2, <3>0, Zenon DEF IsOverlay
      <4> QED
        BY <2>2, <3>0, <4>1, <4>2
    <3>2. n - k \in 1 .. Len(a) + Len(b) /\ n - k <= Len(a)
      BY <2>2
    <3> QED
      BY <1>1, <1>2, <2>2, <3>1, <3>2
  <2>3. CASE n \notin k + 1 .. k + Len(a) + Len(b)
    <3>1. v[n] = IF n <= Len(u) THEN u[n] ELSE 0
      BY <1>5, <2>3 DEF IsOverlay
    <3>2. n \in 1 .. Len(u) => u[n] = IF n <= Len(s) THEN s[n] ELSE 0
      BY <1>3, <2>3, SMTT(90) DEF IsOverlay
    <3>3. Len(u) >= Len(s) /\ Len(u) \in Nat
      BY <1>3 DEF IsOverlay
    <3> QED
      BY <1>1, <2>3, <3>1, <3>2, <3>3
  <2> QED
    BY <2>1, <2>2, <2>3
<1>8. IsOverlay(v, s, k, a \o b)
  BY <1>6, <1>7 DEF IsOverlay
<1> QED
  BY <1>1, <1>3, <1>5, <1>8, OneOverlay, Zenon

LEMMA OverlayEnd ==
  ASSUME NEW s \in Seq(Int), NEW d \in Seq(Int)
  PROVE  Overlay(s, Len(s), d) = s \o d
<1>1. s \o d \in Seq(Int) /\ Len(s \o d) = Len(s) + Len(d) /\ Len(s) \in Nat
  OBVIOUS
<1>2. \A n \in 1 .. Len(s) + Len(d) :
        (s \o d)[n] = IF n <= Len(s) THEN s[n] ELSE d[n - Len(s)]
  OBVIOUS
<1>3. IsOverlay(s \o d, s, Len(s), d)
  BY <1>1, <1>2, SMTT(90) DEF IsOverlay
<1> QED
  BY <1>1, <1>3, OneOverlay, Zenon

LEMMA OverlayBelow ==
  ASSUME NEW s \in Seq(Int), NEW k \in Nat, NEW d \in Seq(Int), NEW b \in Nat \ {0},
         Below(s, b), Below(d, b)
  PROVE  Below(Overlay(s, k, d), b)
<1>1. PICK v : v = Overlay(s, k, d) /\ IsOverlay(v, s, k, d)
  BY OverlayIs
<1>2. ASSUME NEW n \in 1 .. Len(v) PROVE v[n] < b
  <2>1. v[n] = IF n \in k + 1 .. k + Len(d) THEN d[n - k]
               ELSE IF n <= Len(s) THEN s[n] ELSE 0
    BY <1>1 DEF IsOverlay
  <2>2. n \in k + 1 .. k + Len(d) => n - k \in 1 .. Len(d)
    OBVIOUS
  <2>3. Len(v) \in Nat /\ (n <= Len(s) => n \in 1 .. Len(s))
    BY <1>1 DEF IsOverlay
  <2> QED
    BY <2>1, <2>2, <2>3 DEF Below
<1> QED
  BY <1>1, <1>2 DEF Below

LEMMA RunIs ==
  ASSUME NEW c \in Nat \ {0}, NEW n \in Nat
  PROVE  /\ Run(c, n) \in Seq(Int) /\ Len(Run(c, n)) = n
         /\ \A k \in 1 .. n : Run(c, n)[k] = c + k - 1
         /\ Below(Run(c, n), c + n)
  BY DEF Run, Below

\* The two parts of a run are runs.
LEMMA RunParts ==
  ASSUME NEW c \in Nat \ {0}, NEW n \in Nat, NEW m \in 0 .. n
  PROVE  /\ SubSeq(Run(c, n), 1, m) = Run(c, m)
         /\ SubSeq(Run(c, n), m + 1, n) = Run(c + m, n - m)
         /\ Run(c, m) \o Run(c + m, n - m) = Run(c, n)
<1> DEFINE d == Run(c, n)
           a == Run(c, m)
           b == Run(c + m, n - m)
<1>1. d \in Seq(Int) /\ Len(d) = n /\ \A k \in 1 .. n : d[k] = c + k - 1
  BY RunIs
<1>2. a \in Seq(Int) /\ Len(a) = m /\ \A k \in 1 .. m : a[k] = c + k - 1
  BY RunIs
<1>3. b \in Seq(Int) /\ Len(b) = n - m /\ \A k \in 1 .. n - m : b[k] = c + m + k - 1
  <2>1. c + m \in Nat \ {0} /\ n - m \in Nat
    OBVIOUS
  <2> QED
    BY <2>1, RunIs, Zenon
<1> HIDE DEF d, a, b
<1>4. SubSeq(d, 1, m) = a
  <2>1. SubSeq(d, 1, m) \in Seq(Int) /\ Len(SubSeq(d, 1, m)) = m
    BY <1>1
  <2>2. \A k \in 1 .. m : SubSeq(d, 1, m)[k] = a[k]
    BY <1>1, <1>2
  <2> QED
    BY <1>2, <2>1, <2>2, SameBytes
<1>5. SubSeq(d, m + 1, n) = b
  <2>1. SubSeq(d, m + 1, n) \in Seq(Int) /\ Len(SubSeq(d, m + 1, n)) = n - m
    BY <1>1
  <2>2. \A k \in 1 .. n - m : SubSeq(d, m + 1, n)[k] = b[k]
    BY <1>1, <1>3
  <2> QED
    BY <1>3, <2>1, <2>2, SameBytes
<1>6. a \o b = d
  <2>1. a \o b \in Seq(Int) /\ Len(a \o b) = n
    <3>0. a \in Seq(Int) /\ b \in Seq(Int)
      BY <1>2, <1>3
    <3>1. a \o b \in Seq(Int) /\ Len(a \o b) = Len(a) + Len(b)
      BY <3>0
    <3>2. m + (n - m) = n
      OBVIOUS
    <3> QED
      BY <1>2, <1>3, <3>1, <3>2
  <2>2. ASSUME NEW k \in 1 .. n PROVE (a \o b)[k] = d[k]
    <3>1. (a \o b)[k] = IF k <= m THEN a[k] ELSE b[k - m]
      BY <1>2, <1>3
    <3> QED
      BY <1>1, <1>2, <1>3, <3>1
  <2> QED
    BY <1>1, <2>1, <2>2, SameBytes, Zenon
<1> QED
  BY <1>4, <1>5, <1>6 DEF d, a, b

\* A part of a run has not its last byte.
LEMMA PartBelow ==
  ASSUME NEW c \in Nat \ {0}, NEW n \in Nat, NEW m \in Nat, m < n
  PROVE  Below(SubSeq(Run(c, n), 1, m), c + n - 1)
<1>1. m \in 0 .. n
  OBVIOUS
<1>2. SubSeq(Run(c, n), 1, m) = Run(c, m)
  BY <1>1, RunParts, Zenon
<1>3. Len(Run(c, m)) = m /\ \A k \in 1 .. m : Run(c, m)[k] = c + k - 1
  BY RunIs
<1> QED
  BY <1>2, <1>3 DEF Below

----------------------------------------------------------------------------
(* A stream that is written to                                             *)

Streams ==
  [disk : Seq(Int), offset : Nat, buf : Seq(Int), pos : Nat, read_limit : Nat,
   prev_op : {"NONE", "READ", "WRITE", "SEEK"}, eof : BOOLEAN, err : BOOLEAN]

\* Where the kernel puts the next byte.
Spot(g) == IF "a" \in mode THEN Len(g.disk) ELSE g.offset

\* The indices are inside the buffer, and every byte is older than b.
Sound(g, b) ==
  /\ g \in Streams
  /\ g.pos <= Len(g.buf) /\ g.read_limit <= Len(g.buf)
  /\ Below(g.disk, b) /\ Below(g.buf, b)

\* The bytes that wait in the buffer are in the order in which they were written.
Rising(g) == \A i, j \in 1 .. g.pos : i < j => g.buf[i] < g.buf[j]

Writing(g, b) == Sound(g, b) /\ g.prev_op = "WRITE" /\ g.read_limit = 0 /\ Rising(g)

\* The kernel's offset of an append stream is at the end when nothing waits.
Settled(g) == g.pos = 0 => g.offset = Len(g.disk)

\* h is what becomes of g when all of d is written.
Continues(h, g, d) ==
  /\ Text(h) = Overlay(Text(g), Spot(g) + g.pos, d)
  /\ Spot(h) + h.pos = Spot(g) + g.pos + Len(d)
  /\ "a" \in mode /\ (Len(d) > 0 \/ Settled(g)) => Settled(h)
  /\ h.err = g.err /\ h.eof = g.eof /\ Len(h.buf) = Len(g.buf)

\* r is the result of a system call that writes d, or the first bytes of it.
Wrote(r, g, d) ==
  /\ r.f \in Streams /\ r.value \in 0 .. Len(d) /\ r.error \in BOOLEAN
  /\ r.f.disk = Overlay(g.disk, Spot(g), SubSeq(d, 1, r.value))
  /\ r.f.offset = IF r.value > 0 THEN Spot(g) + r.value ELSE g.offset
  /\ r.f.buf = g.buf /\ r.f.pos = g.pos /\ r.f.read_limit = g.read_limit
  /\ r.f.prev_op = g.prev_op /\ r.f.eof = g.eof /\ r.f.err = g.err

LEMMA PlatformWrites ==
  ASSUME NEW g \in Streams, NEW d \in Seq(Int), NEW w \in {"all", "short", "error"},
         w # "all" => Len(d) > 0
  PROVE  LET r == platform_write(g, d, w)
         IN  /\ Wrote(r, g, d)
             /\ r.error <=> w = "error"
             /\ IF w = "all" THEN r.value = Len(d) ELSE r.value < Len(d)
<1> DEFINE n == IF w = "all" THEN Len(d) ELSE IF w = "error" THEN 0 ELSE Least(1, Len(d) - 1)
           o == IF n > 0 THEN Spot(g) + n ELSE g.offset
           D == Overlay(g.disk, Spot(g), SubSeq(d, 1, n))
           h == [g EXCEPT !.disk = D, !.offset = o]
           r == platform_write(g, d, w)
<1>1. r = [f |-> h, value |-> n, error |-> w = "error"]
  BY DEF platform_write, Spot, Streams
<1>2. n \in 0 .. Len(d) /\ (IF w = "all" THEN n = Len(d) ELSE n < Len(d))
  BY DEF Least
<1> HIDE DEF n
<1>3. SubSeq(d, 1, n) \in Seq(Int) /\ Spot(g) \in Nat /\ g.disk \in Seq(Int)
  BY <1>2 DEF Streams, Spot
<1>4. D \in Seq(Int) /\ o \in Nat
  <2>1. D \in Seq(Int)
    BY <1>3, OverlayIs, Zenon DEF IsOverlay
  <2>2. o \in Nat
    BY <1>2, <1>3 DEF Streams
  <2> QED
    BY <2>1, <2>2
<1>5. o = IF n > 0 THEN Spot(g) + n ELSE g.offset
  OBVIOUS
<1>6. D = Overlay(g.disk, Spot(g), SubSeq(d, 1, n))
  OBVIOUS
<1> HIDE DEF D, o
<1>7. h \in Streams
  BY <1>4, Zenon DEF Streams
<1>8. /\ h.disk = D /\ h.offset = o
      /\ h.buf = g.buf /\ h.pos = g.pos /\ h.read_limit = g.read_limit
      /\ h.prev_op = g.prev_op /\ h.eof = g.eof /\ h.err = g.err
  BY DEF Streams
<1> HIDE DEF h
<1>9. r.f = h /\ r.value = n /\ r.error = (w = "error")
  BY <1>1
<1> HIDE DEF r
<1>10. r.error \in BOOLEAN /\ (r.error <=> w = "error")
  BY <1>9, Zenon
<1>11. r.f.disk = Overlay(g.disk, Spot(g), SubSeq(d, 1, r.value))
  BY <1>6, <1>8, <1>9
<1>12. r.f.offset = IF r.value > 0 THEN Spot(g) + r.value ELSE g.offset
  BY <1>5, <1>8, <1>9
<1>13. Wrote(r, g, d)
  BY <1>2, <1>7, <1>8, <1>9, <1>10, <1>11, <1>12 DEF Wrote
<1>14. IF w = "all" THEN r.value = Len(d) ELSE r.value < Len(d)
  BY <1>2, <1>9
<1> QED
  BY <1>10, <1>13, <1>14 DEF r

\* What waits in the buffer of a stream that is written to, and its text with it.
LEMMA TextIs ==
  ASSUME NEW g, NEW b \in Nat \ {0}, Writing(g, b)
  PROVE  /\ Buffered(g) \in Seq(Int) /\ Len(Buffered(g)) = g.pos
         /\ \A n \in 1 .. g.pos : Buffered(g)[n] = g.buf[n]
         /\ Below(Buffered(g), b)
         /\ Spot(g) \in Nat /\ g.pos \in Nat
         /\ Text(g) = Overlay(g.disk, Spot(g), Buffered(g))
         /\ Text(g) \in Seq(Int) /\ Below(Text(g), b)
         /\ g.pos = 0 => Text(g) = g.disk
         /\ "a" \in mode => Len(Text(g)) = Spot(g) + g.pos
<1>1. /\ g.disk \in Seq(Int) /\ g.buf \in Seq(Int) /\ g.pos \in 0 .. Len(g.buf)
      /\ Below(g.disk, b) /\ Below(g.buf, b) /\ g.prev_op = "WRITE" /\ g.offset \in Nat
  BY DEF Writing, Sound, Streams
<1>2. /\ Buffered(g) \in Seq(Int) /\ Len(Buffered(g)) = g.pos
      /\ \A n \in 1 .. g.pos : Buffered(g)[n] = g.buf[n]
  BY <1>1, SMTT(90) DEF Buffered
<1>3. Below(Buffered(g), b)
  <2>1. \A n \in 1 .. g.pos : n \in 1 .. Len(g.buf)
    BY <1>1
  <2> QED
    BY <1>1, <1>2, <2>1, Zenon DEF Below
<1>4. Spot(g) \in Nat /\ Text(g) = Overlay(g.disk, Spot(g), Buffered(g))
  BY <1>1 DEF Spot, Text
<1>5. IsOverlay(Text(g), g.disk, Spot(g), Buffered(g))
  BY <1>1, <1>2, <1>4, OverlayIs
<1>6. Text(g) \in Seq(Int)
  BY <1>5 DEF IsOverlay
<1>7. Below(Text(g), b)
  BY <1>1, <1>2, <1>3, <1>4, OverlayBelow
<1>8. g.pos = 0 => Text(g) = g.disk
  <2>1. g.pos = 0 => Buffered(g) = <<>>
    BY <1>2
  <2> QED
    BY <1>1, <1>4, <2>1, OverlayNothing
<1>9. "a" \in mode => Len(Text(g)) = Spot(g) + g.pos
  <2>1. Len(Text(g)) = IF g.pos > 0 /\ Spot(g) + g.pos > Len(g.disk) THEN Spot(g) + g.pos
                       ELSE Len(g.disk)
    BY <1>2, <1>5 DEF IsOverlay
  <2>2. "a" \in mode => Spot(g) = Len(g.disk)
    BY DEF Spot
  <2> QED
    BY <1>1, <2>1, <2>2
<1> QED
  BY <1>1, <1>2, <1>3, <1>4, <1>6, <1>7, <1>8, <1>9

\* A stream that has been written to does not get younger.
LEMMA WritingLater ==
  ASSUME NEW g, NEW b \in Nat, NEW c \in Nat, b <= c, Writing(g, b)
  PROVE  Writing(g, c)
<1>1. g \in Streams
  BY DEF Writing, Sound
<1>2. ASSUME NEW s \in Seq(Int), Below(s, b) PROVE Below(s, c)
  BY <1>2 DEF Below
<1> QED
  BY <1>1, <1>2 DEF Writing, Sound, Streams

LEMMA ContinuesTwice ==
  ASSUME NEW g, NEW h, NEW i, NEW b \in Nat \ {0},
         NEW d \in Seq(Int), NEW e \in Seq(Int), Writing(g, b),
         Continues(h, g, d), Continues(i, h, e)
  PROVE  Continues(i, g, d \o e)
<1>1. Spot(g) + g.pos \in Nat /\ Text(g) \in Seq(Int)
  BY TextIs
<1>2. d \o e \in Seq(Int) /\ Len(d \o e) = Len(d) + Len(e) /\ Len(d) \in Nat /\ Len(e) \in Nat
  OBVIOUS
<1>3. Text(i) = Overlay(Overlay(Text(g), Spot(g) + g.pos, d), Spot(g) + g.pos + Len(d), e)
  BY DEF Continues
<1>4. Text(i) = Overlay(Text(g), Spot(g) + g.pos, d \o e)
  <2>1. PICK k \in Nat : k = Spot(g) + g.pos
    BY <1>1
  <2>2. Text(i) = Overlay(Overlay(Text(g), k, d), k + Len(d), e)
    BY <1>3, <2>1
  <2>3. Overlay(Overlay(Text(g), k, d), k + Len(d), e) = Overlay(Text(g), k, d \o e)
    BY <1>1, OverlayTwice
  <2> QED
    BY <2>1, <2>2, <2>3
<1>5. Spot(i) + i.pos = Spot(g) + g.pos + Len(d \o e)
  BY <1>1, <1>2 DEF Continues
<1>6. "a" \in mode /\ (Len(d \o e) > 0 \/ Settled(g)) => Settled(i)
  <2>1. Len(d \o e) > 0 => Len(d) > 0 \/ Len(e) > 0
    BY <1>2
  <2> QED
    BY <2>1 DEF Continues
<1> QED
  BY <1>4, <1>5, <1>6 DEF Continues

\* The kernel has taken bytes from a stream: they are on disk.
LEMMA WrotePart ==
  ASSUME NEW g, NEW b \in Nat \ {0}, Writing(g, b), NEW d \in Seq(Int),
         NEW r, Wrote(r, g, d), Below(SubSeq(d, 1, r.value), b)
  PROVE  /\ Writing(r.f, b)
         /\ Writing([r.f EXCEPT !.pos = 0], b)
<1>1. g.disk \in Seq(Int) /\ Spot(g) \in Nat /\ r.value \in 0 .. Len(d) /\ Below(g.disk, b)
  BY TextIs, Zenon DEF Writing, Sound, Streams, Wrote
<1>2. SubSeq(d, 1, r.value) \in Seq(Int)
  BY <1>1
<1>3. Below(r.f.disk, b)
  BY <1>1, <1>2, OverlayBelow, Zenon DEF Wrote
<1>4. Writing(r.f, b)
  BY <1>3 DEF Writing, Sound, Wrote, Rising
<1>5. PICK h : h = [r.f EXCEPT !.pos = 0]
  BY Zenon
<1>6. /\ h \in Streams /\ h.pos = 0 /\ h.disk = r.f.disk /\ h.buf = r.f.buf
      /\ h.read_limit = r.f.read_limit /\ h.prev_op = r.f.prev_op
  BY <1>5, Zenon DEF Wrote, Streams
<1>7. Writing(h, b)
  <2>1. Rising(h)
    BY <1>6 DEF Rising
  <2>2. h.pos <= Len(h.buf)
    BY <1>6 DEF Streams
  <2> QED
    BY <1>4, <1>6, <2>1, <2>2 DEF Writing, Sound
<1> QED
  BY <1>4, <1>5, <1>7

LEMMA WroteKeeps ==
  ASSUME NEW g, NEW b \in Nat \ {0}, Writing(g, b), NEW d \in Seq(Int), Below(d, b),
         NEW r, Wrote(r, g, d)
  PROVE  /\ Writing(r.f, b)
         /\ Writing([r.f EXCEPT !.pos = 0], b)
<1>1. r.value \in 0 .. Len(d)
  BY DEF Wrote
<1>2. Below(SubSeq(d, 1, r.value), b)
  <2>1. /\ SubSeq(d, 1, r.value) \in Seq(Int) /\ Len(SubSeq(d, 1, r.value)) = r.value
        /\ \A n \in 1 .. r.value : SubSeq(d, 1, r.value)[n] = d[n] /\ n \in 1 .. Len(d)
    BY <1>1
  <2> QED
    BY <2>1 DEF Below
<1> QED
  BY <1>2, WrotePart

\* Setting err changes nothing else.
LEMMA FlaggedIs ==
  ASSUME NEW g \in Streams
  PROVE  LET h == Flagged(g)
         IN  /\ h \in Streams /\ h.err = TRUE
             /\ h.disk = g.disk /\ h.offset = g.offset /\ h.buf = g.buf /\ h.pos = g.pos
             /\ h.read_limit = g.read_limit /\ h.prev_op = g.prev_op /\ h.eof = g.eof
  BY Zenon DEF Flagged, Streams

LEMMA FlaggedWriting ==
  ASSUME NEW g, NEW b, Writing(g, b)
  PROVE  Writing(Flagged(g), b)
<1>1. g \in Streams
  BY DEF Writing, Sound
<1> QED
  BY <1>1, FlaggedIs, Zenon DEF Writing, Sound, Rising

\* All that waits in the buffer is written, and the buffer is empty.
LEMMA FlushContinues ==
  ASSUME NEW g, NEW b \in Nat \ {0}, Writing(g, b),
         NEW r, Wrote(r, g, Buffered(g)), r.value = g.pos
  PROVE  LET h == [r.f EXCEPT !.pos = 0]
         IN  Writing(h, b) /\ h.pos = 0 /\ Continues(h, g, <<>>)
<1> DEFINE h == [r.f EXCEPT !.pos = 0]
<1>1. Buffered(g) \in Seq(Int) /\ Len(Buffered(g)) = g.pos /\ Below(Buffered(g), b)
  BY TextIs
<1>2. Writing(h, b)
  BY <1>1, WroteKeeps
<1>3. /\ h.pos = 0 /\ h.disk = r.f.disk /\ h.offset = r.f.offset /\ h.buf = r.f.buf
      /\ h.err = r.f.err /\ h.eof = r.f.eof
  BY DEF Wrote, Streams
<1> HIDE DEF h
<1>4. SubSeq(Buffered(g), 1, g.pos) = Buffered(g)
  BY <1>1, SameBytes
<1>5. Text(h) = Text(g)
  <2>1. Text(h) = h.disk
    BY <1>2, <1>3, TextIs
  <2>2. Text(g) = Overlay(g.disk, Spot(g), Buffered(g))
    BY TextIs
  <2> QED
    BY <1>3, <1>4, <2>1, <2>2, Zenon DEF Wrote
<1>6. Spot(g) \in Nat /\ g.pos \in Nat /\ Text(g) \in Seq(Int) /\ Spot(g) + g.pos \in Nat
  BY TextIs
<1>7. Text(h) = Overlay(Text(g), Spot(g) + g.pos, <<>>)
  BY <1>5, <1>6, OverlayNothing
<1>8. Spot(h) + h.pos = Spot(g) + g.pos
  <2>1. CASE "a" \in mode
    <3>1. Spot(h) = Len(h.disk) /\ h.disk = Text(g)
      BY <1>2, <1>3, <1>5, <2>1, TextIs DEF Spot
    <3> QED
      BY <1>3, <1>6, <2>1, <3>1, TextIs
  <2>2. CASE "a" \notin mode
    BY <1>3, <1>6, <2>2 DEF Spot, Wrote
  <2> QED
    BY <2>1, <2>2
<1>9. "a" \in mode /\ Settled(g) => Settled(h)
  <2> SUFFICES ASSUME "a" \in mode, Settled(g) PROVE h.offset = Len(h.disk)
    BY DEF Settled
  <2>1. Spot(h) = Len(h.disk) /\ Spot(h) = Spot(g) + g.pos
    BY <1>2, <1>3, <1>8, TextIs DEF Spot
  <2>2. CASE g.pos = 0
    <3>1. Text(g) = g.disk
      BY <2>2, TextIs
    <3> QED
      BY <1>3, <1>6, <2>1, <2>2, <3>1 DEF Settled, Wrote, Spot
  <2>3. CASE g.pos > 0
    BY <1>3, <1>6, <2>1, <2>3 DEF Wrote
  <2> QED
    BY <1>6, <2>2, <2>3
<1>10. Len(<<>>) = 0 /\ Spot(g) + g.pos + 0 = Spot(g) + g.pos
  BY <1>6
<1>11. Continues(h, g, <<>>)
  BY <1>3, <1>7, <1>8, <1>9, <1>10 DEF Continues, Wrote
<1> QED
  BY <1>2, <1>3, <1>11 DEF h

\* With nothing waiting, all of d is written directly.
LEMMA DirectContinues ==
  ASSUME NEW g, NEW b \in Nat \ {0}, Writing(g, b), g.pos = 0,
         NEW d \in Seq(Int), Below(d, b), NEW r, Wrote(r, g, d), r.value = Len(d)
  PROVE  Writing(r.f, b) /\ r.f.pos = 0 /\ Continues(r.f, g, d)
<1> DEFINE h == r.f
<1>1. Writing(h, b)
  BY WroteKeeps, Zenon
<1>2. h.pos = 0 /\ h.buf = g.buf /\ h.err = g.err /\ h.eof = g.eof
  BY DEF Wrote
<1>3. SubSeq(d, 1, Len(d)) = d
  BY SameBytes
<1>4. Text(g) = g.disk /\ g.disk \in Seq(Int) /\ Spot(g) \in Nat
  BY TextIs
<1>5. h.disk = Overlay(g.disk, Spot(g), d)
  BY <1>3, Zenon DEF Wrote
<1>6. h.offset = IF Len(d) > 0 THEN Spot(g) + Len(d) ELSE g.offset
  BY DEF Wrote
<1> HIDE DEF h
<1>7. Text(h) = Overlay(Text(g), Spot(g) + g.pos, d)
  BY <1>1, <1>2, <1>4, <1>5, TextIs
<1>8. Spot(h) = Spot(g) + Len(d)
  <2>1. CASE "a" \in mode
    <3>1. h.disk = g.disk \o d
      BY <1>4, <1>5, <2>1, OverlayEnd, Zenon DEF Spot
    <3> QED
      BY <1>4, <2>1, <3>1 DEF Spot
  <2>2. CASE "a" \notin mode
    BY <1>4, <1>6, <2>2 DEF Spot
  <2> QED
    BY <2>1, <2>2
<1>9. "a" \in mode /\ (Len(d) > 0 \/ Settled(g)) => Settled(h)
  <2>1. "a" \in mode => Len(h.disk) = Spot(g) + Len(d) /\ Spot(g) = Len(g.disk)
    BY <1>8 DEF Spot
  <2> QED
    BY <1>4, <1>6, <2>1 DEF Settled
<1>10. Continues(h, g, d)
  BY <1>2, <1>4, <1>7, <1>8, <1>9 DEF Continues
<1> QED
  BY <1>1, <1>2, <1>10 DEF h

\* Fresh bytes that fit are stored behind those that wait.
LEMMA StoreContinues ==
  ASSUME NEW g, NEW c \in Nat \ {0}, Writing(g, c), NEW n \in Nat,
         g.pos + n <= Len(g.buf)
  PROVE  LET h == [g EXCEPT !.buf = Stored(g, g.pos, Run(c, n)), !.pos = g.pos + n]
         IN  Writing(h, c + n) /\ Continues(h, g, Run(c, n))
<1> DEFINE d == Run(c, n)
           B == Stored(g, g.pos, d)
           h == [g EXCEPT !.buf = B, !.pos = g.pos + n]
<1>1. /\ d \in Seq(Int) /\ Len(d) = n /\ \A k \in 1 .. n : d[k] = c + k - 1
  BY RunIs, Zenon
<1>2. /\ g \in Streams /\ g.buf \in Seq(Int) /\ g.pos \in 0 .. Len(g.buf) /\ g.disk \in Seq(Int)
      /\ Below(g.disk, c) /\ Below(g.buf, c) /\ Rising(g) /\ g.prev_op = "WRITE"
      /\ g.read_limit = 0
  BY DEF Writing, Sound, Streams
<1>p. g.pos \in Nat /\ Len(g.buf) \in Nat /\ g.pos + n <= Len(g.buf)
  BY <1>2
<1> HIDE DEF d
<1>3. /\ B = [m \in 1 .. Len(g.buf) |-> IF m \in g.pos + 1 .. g.pos + n THEN d[m - g.pos]
                                        ELSE g.buf[m]]
  BY <1>1, <1>2 DEF Stored
<1>4. B \in Seq(Int) /\ Len(B) = Len(g.buf)
  <2>1. \A m \in 1 .. Len(g.buf) :
          (IF m \in g.pos + 1 .. g.pos + n THEN d[m - g.pos] ELSE g.buf[m]) \in Int
    <3>1. \A m \in 1 .. Len(g.buf) : m \in g.pos + 1 .. g.pos + n => m - g.pos \in 1 .. n
      BY <1>p
    <3>2. \A m \in 1 .. n : d[m] \in Int
      BY <1>1
    <3>3. \A m \in 1 .. Len(g.buf) : g.buf[m] \in Int
      BY <1>2
    <3> QED
      BY <3>1, <3>2, <3>3
  <2> QED
    BY <1>2, <1>3, <2>1
<1>5. /\ \A m \in 1 .. g.pos : B[m] = g.buf[m] /\ B[m] < c
      /\ \A m \in g.pos + 1 .. g.pos + n : B[m] = c + (m - g.pos) - 1
      /\ \A m \in 1 .. Len(g.buf) : B[m] < c + n
  <2>1. \A m \in 1 .. g.pos : m \in 1 .. Len(g.buf) /\ m \notin g.pos + 1 .. g.pos + n
    BY <1>2
  <2>2. \A m \in g.pos + 1 .. g.pos + n : m \in 1 .. Len(g.buf) /\ m - g.pos \in 1 .. n
    BY <1>p
  <2>3. \A m \in 1 .. g.pos : B[m] = g.buf[m] /\ B[m] < c
    BY <1>2, <1>3, <2>1 DEF Below
  <2>4. \A m \in g.pos + 1 .. g.pos + n : B[m] = c + (m - g.pos) - 1
    BY <1>1, <1>3, <2>2
  <2>5. ASSUME NEW m \in 1 .. Len(g.buf) PROVE B[m] < c + n
    <3>1. CASE m \in g.pos + 1 .. g.pos + n
      BY <1>2, <2>4, <3>1
    <3>2. CASE m \notin g.pos + 1 .. g.pos + n
      BY <1>2, <1>3, <3>2 DEF Below
    <3> QED
      BY <3>1, <3>2
  <2> QED
    BY <2>3, <2>4, <2>5
<1> HIDE DEF B
<1>6. /\ h \in Streams /\ h.pos = g.pos + n /\ h.buf = B /\ h.disk = g.disk
      /\ h.offset = g.offset /\ h.read_limit = g.read_limit /\ h.prev_op = g.prev_op
      /\ h.eof = g.eof /\ h.err = g.err
  <2>1. g \in Streams /\ g.pos + n \in Nat /\ B \in Seq(Int)
    BY <1>2, <1>4, <1>p
  <2> QED
    BY <2>1, Zenon DEF Streams
<1> HIDE DEF h
<1>7. Rising(h)
  <2> SUFFICES ASSUME NEW i \in 1 .. g.pos + n, NEW j \in 1 .. g.pos + n, i < j
               PROVE  B[i] < B[j]
    BY <1>2, <1>6 DEF Rising
  <2>1. CASE i \in 1 .. g.pos /\ j \in 1 .. g.pos
    BY <1>2, <1>5, <2>1 DEF Rising
  <2>2. CASE i \in 1 .. g.pos /\ j \in g.pos + 1 .. g.pos + n
    <3>0. i \in 1 .. Len(B)
      BY <1>4, <1>p, <2>2
    <3>1. B[i] < c /\ B[j] = c + (j - g.pos) - 1 /\ B[i] \in Int
      BY <1>4, <1>5, <2>2, <3>0
    <3> QED
      BY <1>p, <2>2, <3>1
  <2>3. CASE i \in g.pos + 1 .. g.pos + n /\ j \in g.pos + 1 .. g.pos + n
    <3>1. B[i] = c + (i - g.pos) - 1 /\ B[j] = c + (j - g.pos) - 1
      BY <1>5, <2>3
    <3> QED
      BY <1>2, <2>3, <3>1
  <2> QED
    BY <1>2, <2>1, <2>2, <2>3
<1>8. Writing(h, c + n)
  <2>1. Below(g.disk, c + n)
    BY <1>2 DEF Below
  <2>2. Below(B, c + n)
    BY <1>4, <1>5 DEF Below
  <2> QED
    BY <1>2, <1>4, <1>6, <1>7, <2>1, <2>2 DEF Writing, Sound
<1>9. Buffered(h) = Buffered(g) \o d
  <2>1. /\ Buffered(g) \in Seq(Int) /\ Len(Buffered(g)) = g.pos
        /\ \A m \in 1 .. g.pos : Buffered(g)[m] = g.buf[m]
    BY TextIs
  <2>2. /\ Buffered(h) \in Seq(Int) /\ Len(Buffered(h)) = g.pos + n
        /\ \A m \in 1 .. g.pos + n : Buffered(h)[m] = B[m]
    <3>1. c + n \in Nat \ {0}
      OBVIOUS
    <3> QED
      BY <1>6, <1>8, <3>1, TextIs, Zenon
  <2>3. Buffered(g) \o d \in Seq(Int) /\ Len(Buffered(g) \o d) = g.pos + n
    <3>1. Buffered(g) \in Seq(Int) /\ d \in Seq(Int)
      BY <1>1, <2>1
    <3>2. Buffered(g) \o d \in Seq(Int) /\ Len(Buffered(g) \o d) = Len(Buffered(g)) + Len(d)
      BY <3>1
    <3> QED
      BY <1>1, <2>1, <3>2
  <2>4. ASSUME NEW m \in 1 .. g.pos + n PROVE (Buffered(g) \o d)[m] = B[m]
    <3>0. Buffered(g) \in Seq(Int) /\ d \in Seq(Int) /\ m \in 1 .. Len(Buffered(g)) + Len(d)
      BY <1>1, <2>1
    <3>1. (Buffered(g) \o d)[m] = IF m <= g.pos THEN Buffered(g)[m] ELSE d[m - g.pos]
      <4>1. (Buffered(g) \o d)[m] = IF m <= Len(Buffered(g)) THEN Buffered(g)[m]
                                    ELSE d[m - Len(Buffered(g))]
        BY <3>0
      <4> QED
        BY <2>1, <4>1
    <3>2. CASE m <= g.pos
      BY <1>2, <1>5, <2>1, <3>1, <3>2
    <3>3. CASE m > g.pos
      <4>1. m - g.pos \in 1 .. n /\ m \in g.pos + 1 .. g.pos + n
        BY <1>2, <3>3
      <4> QED
        BY <1>1, <1>2, <1>5, <3>1, <3>3, <4>1
    <3>4. m <= g.pos \/ m > g.pos
      BY <1>p
    <3> QED
      BY <3>2, <3>3, <3>4, Zenon
  <2> QED
    BY <2>2, <2>3, <2>4, SameBytes, Zenon
<1>10. Spot(g) \in Nat /\ Spot(h) = Spot(g)
  BY <1>6, TextIs DEF Spot
<1>11. Text(h) = Overlay(Text(g), Spot(g) + g.pos, d)
  <2>1. Buffered(g) \in Seq(Int) /\ Len(Buffered(g)) = g.pos
    BY TextIs
  <2>2. Text(g) = Overlay(g.disk, Spot(g), Buffered(g))
    BY TextIs
  <2>3. Text(h) = Overlay(g.disk, Spot(g), Buffered(h))
    BY <1>2, <1>6, <1>10 DEF Text, Spot
  <2>4. Overlay(Overlay(g.disk, Spot(g), Buffered(g)), Spot(g) + Len(Buffered(g)), d)
        = Overlay(g.disk, Spot(g), Buffered(g) \o d)
    <3>1. g.disk \in Seq(Int) /\ d \in Seq(Int)
      BY <1>1, <1>2
    <3>2. Spot(g) \in Nat /\ Buffered(g) \in Seq(Int)
      BY <1>10, <2>1
    <3> QED
      BY <3>1, <3>2, OverlayTwice, ZenonT(40)
  <2> QED
    BY <1>9, <2>1, <2>2, <2>3, <2>4
<1>12. Continues(h, g, d)
  <2>1. Spot(h) + h.pos = Spot(g) + g.pos + Len(d)
    BY <1>1, <1>2, <1>6, <1>10
  <2>2. Len(d) > 0 \/ Settled(g) => Settled(h)
    BY <1>1, <1>2, <1>6 DEF Settled
  <2> QED
    BY <1>4, <1>6, <1>11, <2>1, <2>2 DEF Continues
<1> QED
  BY <1>8, <1>12 DEF h, B, d

----------------------------------------------------------------------------
(* The functions that write n fresh bytes, of which c is the first         *)

AllFaults == Faults \cup {NoFault}

\* The one incomplete write that the code does not see (file.cpp:123).
ShortRest == [site |-> "fbf_rest", kind |-> "short"]

\* All bytes were written.
Done(r, g, c, n) ==
  r.value = n /\ r.error = FALSE /\ Writing(r.f, c + n) /\ Continues(r.f, g, Run(c, n))

\* A system call failed: at least the last byte is missing.
Cut(r, g, c, n, fault) ==
  /\ n > 0 /\ fault # NoFault
  /\ Writing(r.f, c + n - 1) /\ r.f.pos = 0
  /\ r.f.eof = g.eof /\ Len(r.f.buf) = Len(g.buf)
  /\ fault # ShortRest => r.f.err

LEMMA OutcomeIs ==
  ASSUME NEW fault \in AllFaults, NEW site \in Sites, NEW d \in Seq(Int)
  PROVE  /\ Outcome(fault, site, d) \in {"all", "short", "error"}
         /\ Outcome(fault, site, d) # "all" =>
              /\ Len(d) > 0 /\ fault # NoFault /\ fault.site = site
              /\ Outcome(fault, site, d) = fault.kind
              /\ fault = [site |-> site, kind |-> fault.kind]
<1>1. fault = NoFault \/ fault \in [site : Sites, kind : {"short", "error"}]
  BY StreamAssumption DEF AllFaults
<1>2. d # <<>> <=> Len(d) > 0
  OBVIOUS
<1>3. CASE fault = NoFault
  BY <1>3 DEF Outcome, NoFault, Sites
<1>4. CASE fault \in [site : Sites, kind : {"short", "error"}]
  BY <1>2, <1>4 DEF Outcome, NoFault, Sites
<1> QED
  BY <1>1, <1>3, <1>4

\* nbf_data: with nothing waiting, the bytes are written directly.
LEMMA NbfDataWrites ==
  ASSUME NEW g, NEW c \in Nat \ {0}, Writing(g, c), g.pos = 0, NEW n \in Nat,
         NEW fault \in AllFaults
  PROVE  LET r == nbf_data(g, Run(c, n), fault)
         IN  \/ Done(r, g, c, n) /\ r.f.pos = 0
             \/ Cut(r, g, c, n, fault) /\ r.f.err /\ r.value < n
<1> DEFINE d == Run(c, n)
           w == Outcome(fault, "nbf_data", d)
           q == platform_write(g, d, w)
           r == nbf_data(g, d, fault)
<1>0. c + n \in Nat \ {0}
  OBVIOUS
<1>1. d \in Seq(Int) /\ Len(d) = n /\ Below(d, c + n)
  BY RunIs, Zenon
<1>2. w \in {"all", "short", "error"} /\ (w # "all" => n > 0 /\ fault # NoFault)
  BY <1>1, OutcomeIs DEF Sites
<1> HIDE DEF w
<1>3. g \in Streams
  BY DEF Writing, Sound
<1>4. /\ Wrote(q, g, d) /\ (q.error <=> w = "error")
      /\ IF w = "all" THEN q.value = n ELSE q.value < n
  BY <1>1, <1>2, <1>3, PlatformWrites
<1>5. r = Result(IF q.value < n THEN Flagged(q.f) ELSE q.f, q.value, q.error)
  BY <1>1 DEF nbf_data, w
<1> HIDE DEF q, r
<1>6. r.f = (IF q.value < n THEN Flagged(q.f) ELSE q.f) /\ r.value = q.value /\ r.error = q.error
  BY <1>5 DEF Result
<1>7. CASE w = "all"
  <2>1. q.value = n /\ r.f = q.f /\ r.value = n /\ r.error = FALSE
    BY <1>4, <1>6, <1>7 DEF Wrote
  <2>2. Writing(g, c + n)
    BY WritingLater
  <2>3. Writing(q.f, c + n) /\ q.f.pos = 0 /\ Continues(q.f, g, d)
    BY <1>0, <1>1, <1>4, <2>1, <2>2, DirectContinues
  <2> QED
    BY <2>1, <2>3 DEF Done, r
<1>8. CASE w # "all"
  <2>1. q.value < n /\ r.f = Flagged(q.f) /\ r.value < n /\ n > 0 /\ fault # NoFault
    BY <1>2, <1>4, <1>6, <1>8
  <2>2. c + n - 1 \in Nat \ {0} /\ c <= c + n - 1 /\ q.value \in 0 .. n
    BY <1>1, <1>4, <2>1 DEF Wrote
  <2>3. Writing(g, c + n - 1)
    BY <2>2, WritingLater
  <2>4. Below(SubSeq(d, 1, q.value), c + n - 1)
    <3>1. q.value \in Nat /\ q.value < n
      BY <2>1, <2>2
    <3> QED
      BY <3>1, PartBelow
  <2>5. Writing(q.f, c + n - 1)
    BY <1>1, <1>4, <2>2, <2>3, <2>4, WrotePart, Zenon
  <2>6. Writing(r.f, c + n - 1)
    BY <2>1, <2>5, FlaggedWriting
  <2>7. r.f.err = TRUE /\ r.f.pos = 0 /\ r.f.eof = g.eof /\ r.f.buf = g.buf
    BY <1>4, <2>1, FlaggedIs, Zenon DEF Wrote
  <2> QED
    BY <2>1, <2>6, <2>7 DEF Cut, r
<1> QED
  BY <1>7, <1>8

\* The write of what waits, after which pos is 0 whatever was written.
LEMMA FlushBuffer ==
  ASSUME NEW g, NEW b \in Nat \ {0}, Writing(g, b),
         NEW w \in {"all", "short", "error"}, w # "all" => g.pos > 0
  PROVE  LET r == platform_write(g, Buffered(g), w)
             h == [r.f EXCEPT !.pos = 0]
         IN  /\ Writing(h, b) /\ h.pos = 0 /\ h.eof = g.eof /\ h.buf = g.buf
             /\ r.value \in 0 .. g.pos
             /\ w = "all" => r.value = g.pos /\ r.error = FALSE /\ Continues(h, g, <<>>)
             /\ w # "all" => r.value < g.pos
<1> DEFINE r == platform_write(g, Buffered(g), w)
           h == [r.f EXCEPT !.pos = 0]
<1>1. Buffered(g) \in Seq(Int) /\ Len(Buffered(g)) = g.pos /\ Below(Buffered(g), b)
  BY TextIs
<1>2. g \in Streams
  BY DEF Writing, Sound
<1>3. /\ Wrote(r, g, Buffered(g)) /\ (r.error <=> w = "error")
      /\ IF w = "all" THEN r.value = g.pos ELSE r.value < g.pos
  BY <1>1, <1>2, PlatformWrites
<1> HIDE DEF r
<1>4. Writing(h, b)
  BY <1>1, <1>3, WroteKeeps
<1>5. h.pos = 0 /\ h.eof = g.eof /\ h.buf = g.buf
  BY <1>3 DEF Wrote, Streams
<1>6. r.value \in 0 .. g.pos /\ (w = "all" => r.error = FALSE)
  BY <1>1, <1>3 DEF Wrote
<1>7. w = "all" => Continues(h, g, <<>>)
  BY <1>3, FlushContinues
<1> QED
  BY <1>3, <1>4, <1>5, <1>6, <1>7 DEF r

\* A stream that nothing is written to any more is cut before the next byte.
LEMMA CutEarly ==
  ASSUME NEW g, NEW h, NEW c \in Nat \ {0}, NEW n \in Nat, n > 0,
         NEW fault, fault # NoFault, Writing(h, c), h.pos = 0, h.eof = g.eof, h.buf = g.buf,
         NEW v, NEW e
  PROVE  Cut(Result(Flagged(h), v, e), g, c, n, fault) /\ Flagged(h).err
<1>1. Writing(Flagged(h), c)
  BY FlaggedWriting
<1>2. c + n - 1 \in Nat /\ c <= c + n - 1
  OBVIOUS
<1>3. Writing(Flagged(h), c + n - 1)
  BY <1>1, <1>2, WritingLater
<1>4. /\ Flagged(h).err = TRUE /\ Flagged(h).pos = 0 /\ Flagged(h).eof = g.eof
      /\ Flagged(h).buf = g.buf
  BY FlaggedIs, Zenon DEF Writing, Sound
<1>5. Result(Flagged(h), v, e).f = Flagged(h)
  BY DEF Result
<1> QED
  BY <1>3, <1>4, <1>5 DEF Cut

\* write_unlocked_nbf: what waits goes out first.
LEMMA NbfWrites ==
  ASSUME NEW g, NEW c \in Nat \ {0}, Writing(g, c), NEW n \in Nat, g.pos = 0 \/ n > 0,
         NEW fault \in AllFaults
  PROVE  LET r == write_unlocked_nbf(g, Run(c, n), fault)
         IN  \/ Done(r, g, c, n) /\ r.f.pos = 0
             \/ Cut(r, g, c, n, fault) /\ r.f.err /\ r.value < n
<1>1. CASE g.pos = 0
  BY <1>1, NbfDataWrites DEF write_unlocked_nbf
<1>2. CASE g.pos # 0
  <2> DEFINE d == Run(c, n)
             w == Outcome(fault, "nbf_flush", Buffered(g))
             q == platform_write(g, Buffered(g), w)
             h == [q.f EXCEPT !.pos = 0]
             r == write_unlocked_nbf(g, d, fault)
  <2>1. r = IF q.value < g.pos THEN Result(Flagged(h), 0, q.error)
            ELSE nbf_data(h, d, fault)
    BY <1>2 DEF write_unlocked_nbf
  <2>2. Buffered(g) \in Seq(Int) /\ Len(Buffered(g)) = g.pos /\ g.pos \in Nat
    BY TextIs
  <2>3. w \in {"all", "short", "error"} /\ (w # "all" => g.pos > 0 /\ fault # NoFault)
    BY <2>2, OutcomeIs DEF Sites
  <2> HIDE DEF w
  <2>4. /\ Writing(h, c) /\ h.pos = 0 /\ h.eof = g.eof /\ h.buf = g.buf
        /\ w = "all" => q.value = g.pos /\ Continues(h, g, <<>>)
        /\ w # "all" => q.value < g.pos
    BY <2>3, FlushBuffer, ZenonT(40)
  <2> HIDE DEF q, h
  <2>5. CASE w = "all"
    <3>1. r = nbf_data(h, d, fault)
      BY <2>1, <2>2, <2>4, <2>5
    <3>2. \/ Done(r, h, c, n) /\ r.f.pos = 0
          \/ Cut(r, h, c, n, fault) /\ r.f.err /\ r.value < n
      BY <2>4, <3>1, NbfDataWrites, Zenon
    <3>3. Done(r, h, c, n) => Done(r, g, c, n)
      <4>1. d \in Seq(Int) /\ <<>> \in Seq(Int) /\ <<>> \o d = d
        BY RunIs
      <4>2. Continues(r.f, h, d) => Continues(r.f, g, <<>> \o d)
        BY <2>4, <2>5, <4>1, ContinuesTwice, Zenon
      <4> QED
        BY <4>1, <4>2 DEF Done
    <3>4. Cut(r, h, c, n, fault) => Cut(r, g, c, n, fault)
      BY <2>4 DEF Cut
    <3> QED
      BY <3>2, <3>3, <3>4, Zenon
  <2>6. CASE w # "all"
    <3>1. r = Result(Flagged(h), 0, q.error) /\ fault # NoFault /\ n > 0
      BY <1>2, <2>1, <2>3, <2>4, <2>6
    <3>2. Cut(r, g, c, n, fault) /\ Flagged(h).err
      BY <2>4, <3>1, CutEarly
    <3> QED
      BY <3>1, <3>2 DEF Result
  <2> QED
    BY <2>5, <2>6, Zenon
<1> QED
  BY <1>1, <1>2, Zenon

\* fbf_rest: with the buffer just flushed, a remainder of its size is written.
LEMMA RestWrites ==
  ASSUME NEW g, NEW c \in Nat \ {0}, Writing(g, c), g.pos = 0, NEW n \in Nat, n > 0,
         NEW primary \in Seq(Int), NEW fault \in AllFaults
  PROVE  LET r == fbf_rest(g, n, primary, Run(c, n), fault)
         IN  \/ /\ r.value = Len(primary) + n /\ r.error = FALSE
                /\ Writing(r.f, c + n) /\ Continues(r.f, g, Run(c, n))
             \/ Cut(r, g, c, n, fault)
<1> DEFINE d == Run(c, n)
           w == Outcome(fault, "fbf_rest", d)
           q == platform_write(g, d, w)
           r == fbf_rest(g, n, primary, d, fault)
<1>0. c + n \in Nat \ {0} /\ ~(n < n)
  OBVIOUS
<1>1. d \in Seq(Int) /\ Len(d) = n /\ Below(d, c + n)
  BY RunIs, Zenon
<1>2. /\ w \in {"all", "short", "error"}
      /\ w # "all" => fault # NoFault /\ fault = [site |-> "fbf_rest", kind |-> w]
  BY <1>1, OutcomeIs DEF Sites
<1> HIDE DEF w
<1>3. g \in Streams
  BY DEF Writing, Sound
<1>4. /\ Wrote(q, g, d) /\ (q.error <=> w = "error")
      /\ IF w = "all" THEN q.value = n ELSE q.value < n
  BY <1>1, <1>2, <1>3, PlatformWrites
<1>5. r = IF q.error THEN Result(Flagged(q.f), Len(primary) + n, q.error)
          ELSE Result(q.f, Len(primary) + n, FALSE)
  BY <1>0, <1>1, Zenon DEF fbf_rest, w
<1> HIDE DEF q, r
<1>6. CASE w = "all"
  <2>1. r.f = q.f /\ r.value = Len(primary) + n /\ r.error = FALSE /\ q.value = n
    BY <1>4, <1>5, <1>6 DEF Result, Wrote
  <2>2. Writing(g, c + n)
    BY WritingLater
  <2>3. Writing(q.f, c + n) /\ Continues(q.f, g, d)
    BY <1>0, <1>1, <1>4, <2>1, <2>2, DirectContinues, Zenon
  <2> QED
    BY <2>1, <2>3, Zenon DEF r
<1>7. CASE w # "all"
  <2>1. c + n - 1 \in Nat \ {0} /\ c <= c + n - 1 /\ q.value \in 0 .. n /\ q.value < n
    BY <1>1, <1>4, <1>7, SMTT(90) DEF Wrote
  <2>2. Writing(g, c + n - 1)
    BY <2>1, WritingLater
  <2>3. Below(SubSeq(d, 1, q.value), c + n - 1)
    <3>1. q.value \in Nat /\ q.value < n
      BY <2>1, <2>2
    <3> QED
      BY <3>1, PartBelow
  <2>4. Writing(q.f, c + n - 1)
    BY <1>1, <1>4, <2>1, <2>2, <2>3, WrotePart, Zenon
  <2>5. q.f \in Streams /\ q.f.pos = 0 /\ q.f.eof = g.eof /\ q.f.buf = g.buf
    BY <1>4 DEF Wrote
  <2>6. CASE w = "error"
    <3>1. r.f = Flagged(q.f)
      BY <1>4, <1>5, <2>6, Zenon DEF Result, Wrote
    <3>2. Writing(r.f, c + n - 1)
      BY <2>4, <3>1, FlaggedWriting
    <3>3. r.f.pos = 0 /\ r.f.eof = g.eof /\ r.f.buf = g.buf /\ r.f.err = TRUE
      BY <2>5, <3>1, FlaggedIs, Zenon
    <3> QED
      BY <1>2, <1>7, <3>2, <3>3, Zenon DEF Cut, r
  <2>7. CASE w = "short"
    <3>1. r.f = q.f /\ fault = ShortRest /\ fault # NoFault
      BY <1>2, <1>4, <1>5, <2>7, Zenon DEF Result, ShortRest, Wrote
    <3> QED
      BY <2>4, <2>5, <3>1, Zenon DEF Cut, r
  <2> QED
    BY <1>2, <1>7, <2>6, <2>7, Zenon
<1> QED
  BY <1>6, <1>7, Zenon

\* One run continues another.
LEMMA DoneTwice ==
  ASSUME NEW g, NEW h, NEW r, NEW c \in Nat \ {0}, NEW n \in Nat, NEW m \in 0 .. n,
         Writing(g, c), Continues(h, g, Run(c, m)),
         r.value = n, r.error = FALSE, Writing(r.f, c + m + (n - m)),
         Continues(r.f, h, Run(c + m, n - m))
  PROVE  Done(r, g, c, n)
<1>1. Run(c, m) \in Seq(Int) /\ Run(c + m, n - m) \in Seq(Int)
  <2>1. m \in Nat /\ n - m \in Nat /\ c + m \in Nat \ {0}
    OBVIOUS
  <2> QED
    BY <2>1, RunIs
<1>2. Run(c, m) \o Run(c + m, n - m) = Run(c, n)
  BY RunParts, Zenon
<1>3. Continues(r.f, g, Run(c, n))
  BY <1>1, <1>2, ContinuesTwice, Zenon
<1>4. c + m + (n - m) = c + n
  OBVIOUS
<1> QED
  BY <1>3, <1>4 DEF Done

\* A cut in the second part is a cut.
LEMMA CutLater ==
  ASSUME NEW g, NEW h, NEW r, NEW c \in Nat \ {0}, NEW n \in Nat, NEW m \in 0 .. n, NEW fault,
         Cut(r, h, c + m, n - m, fault), h.eof = g.eof, Len(h.buf) = Len(g.buf)
  PROVE  Cut(r, g, c, n, fault)
<1>1. n - m > 0 => n > 0
  OBVIOUS
<1>2. c + m + (n - m) - 1 = c + n - 1
  OBVIOUS
<1> QED
  BY <1>1, <1>2 DEF Cut

\* write_unlocked_fbf: the buffer is filled, flushed when that is not enough, and
\* the rest stored or written.
LEMMA FbfWrites ==
  ASSUME NEW g, NEW c \in Nat \ {0}, Writing(g, c), NEW n \in Nat, NEW fault \in AllFaults
  PROVE  LET r == write_unlocked_fbf(g, Run(c, n), fault)
         IN  Done(r, g, c, n) \/ Cut(r, g, c, n, fault)
<1> DEFINE L == Len(g.buf)
           bufspace == L - g.pos
           m == Least(n, bufspace)
           d == Run(c, n)
           primary == Run(c, m)
           rest == Run(c + m, n - m)
           filled == [g EXCEPT !.buf = Stored(g, g.pos, primary), !.pos = g.pos + m]
           w == Outcome(fault, "fbf_flush", Buffered(filled))
           q == platform_write(filled, Buffered(filled), w)
           h == [q.f EXCEPT !.pos = 0]
           r == write_unlocked_fbf(g, d, fault)
<1>1. /\ g \in Streams /\ L \in Nat /\ g.pos \in 0 .. L /\ bufspace \in Nat
      /\ m \in 0 .. n /\ m <= bufspace /\ m \in Nat /\ n - m \in Nat /\ c + m \in Nat \ {0}
      /\ g.pos + m <= L /\ (m < n => m = bufspace)
  <2>1. g \in Streams /\ L \in Nat /\ g.pos \in Nat /\ g.pos <= L
    BY DEF Writing, Sound, Streams
  <2>2. bufspace \in Nat /\ g.pos + bufspace = L
    BY <2>1
  <2>3. m \in Nat /\ m <= n /\ m <= bufspace /\ (m < n => m = bufspace)
    BY <2>2 DEF Least
  <2> QED
    BY <2>1, <2>2, <2>3
<1>2. Len(d) = n /\ Len(primary) = m /\ primary \in Seq(Int)
  BY <1>1, RunIs
<1>3. rest \in Seq(Int) /\ Len(rest) = n - m /\ (rest = <<>> <=> n = m)
  <2>1. rest \in Seq(Int) /\ Len(rest) = n - m
    BY <1>1, RunIs, Zenon
  <2> QED
    BY <1>1, <2>1
<1>4. SubSeq(d, 1, m) = primary /\ SubSeq(d, m + 1, n) = rest
  BY <1>1, RunParts, Zenon
<1> HIDE DEF d, primary, rest, m
<1>5. Writing(filled, c + m) /\ Continues(filled, g, primary)
  BY <1>1, StoreContinues, Zenon DEF primary
<1>6. /\ filled.pos = g.pos + m /\ filled.eof = g.eof /\ Len(filled.buf) = L
      /\ filled \in Streams
  <2>1. filled.pos = g.pos + m /\ filled.eof = g.eof
    BY <1>1 DEF Streams
  <2> QED
    BY <1>5, <2>1 DEF Continues, Writing, Sound
<1>7. r = IF n > bufspace + L THEN write_unlocked_nbf(g, d, fault)
          ELSE IF rest = <<>> THEN Result(filled, n, FALSE)
          ELSE IF Failed(q, filled.pos)
          THEN Result(Flagged(h), IF q.value <= g.pos THEN 0 ELSE q.value - g.pos, q.error)
          ELSE IF Len(rest) < L
          THEN Result([h EXCEPT !.buf = Stored(h, 0, rest), !.pos = Len(rest)], n, FALSE)
          ELSE fbf_rest(h, q.value, primary, rest, fault)
  BY <1>2, <1>4, ZenonT(40) DEF write_unlocked_fbf, m
<1> HIDE DEF r, filled
<1>8. CASE n > bufspace + L
  <2>1. r = write_unlocked_nbf(g, d, fault) /\ n > 0
    BY <1>1, <1>7, <1>8
  <2> QED
    BY <2>1, NbfWrites, Zenon DEF r, d
<1>9. CASE ~(n > bufspace + L) /\ rest = <<>>
  <2>1. r.f = filled /\ r.value = n /\ r.error = FALSE /\ n = m
    BY <1>3, <1>7, <1>9 DEF Result
  <2> QED
    BY <1>5, <2>1, Zenon DEF Done, r, d, primary
<1>10. CASE ~(n > bufspace + L) /\ rest # <<>>
  <2>1. m < n /\ m = bufspace /\ g.pos + m = L /\ n - m <= L /\ n - m > 0
    BY <1>1, <1>3, <1>10, SMTT(90)
  <2>2. Buffered(filled) \in Seq(Int) /\ Len(Buffered(filled)) = L
    BY <1>1, <1>5, <1>6, <2>1, TextIs, Zenon
  <2>3. w \in {"all", "short", "error"} /\ (w # "all" => L > 0 /\ fault # NoFault)
    BY <2>2, OutcomeIs DEF Sites
  <2> HIDE DEF w
  <2>4. /\ Writing(h, c + m) /\ h.pos = 0 /\ h.eof = filled.eof /\ h.buf = filled.buf
        /\ w = "all" => q.value = L /\ q.error = FALSE /\ Continues(h, filled, <<>>)
        /\ w # "all" => q.value < L
    <3>1. filled.pos = L /\ (w # "all" => filled.pos > 0)
      BY <1>6, <2>1, <2>3
    <3>2. PICK b \in Nat \ {0} : b = c + m /\ Writing(filled, b)
      BY <1>1, <1>5
    <3>3. /\ Writing(h, b) /\ h.pos = 0 /\ h.eof = filled.eof /\ h.buf = filled.buf
          /\ w = "all" => q.value = filled.pos /\ q.error = FALSE /\ Continues(h, filled, <<>>)
          /\ w # "all" => q.value < filled.pos
      BY <2>3, <3>1, <3>2, FlushBuffer, ZenonT(40)
    <3> QED
      BY <3>1, <3>2, <3>3
  <2> HIDE DEF q, h
  <2>5. CASE w # "all"
    <3>1. Failed(q, filled.pos)
      BY <1>6, <2>1, <2>4, <2>5, Zenon DEF Failed
    <3>2. PICK v : r = Result(Flagged(h), v, q.error)
      BY <1>7, <1>10, <3>1
    <3>3. Cut(r, filled, c + m, n - m, fault)
      BY <1>1, <2>1, <2>3, <2>4, <2>5, <3>2, CutEarly, Zenon
    <3> QED
      BY <1>1, <1>6, <3>3, CutLater, Zenon DEF r, d
  <2>6. CASE w = "all"
    <3>1. ~Failed(q, filled.pos) /\ q.value = L
      BY <1>1, <1>6, <2>1, <2>4, <2>6 DEF Failed
    <3>2. Continues(h, g, primary)
      <4>1. primary \o <<>> = primary /\ <<>> \in Seq(Int)
        BY <1>2
      <4>2. Continues(h, g, primary \o <<>>)
        BY <1>2, <1>5, <2>4, <2>6, <4>1, ContinuesTwice, Zenon
      <4> QED
        BY <4>1, <4>2
    <3>3. CASE Len(rest) < L
      <4> DEFINE i == [h EXCEPT !.buf = Stored(h, 0, rest), !.pos = Len(rest)]
      <4>1. r = Result(i, n, FALSE)
        BY <1>7, <1>10, <3>1, <3>3
      <4>2. h.pos + (n - m) <= Len(h.buf) /\ h.pos + (n - m) = Len(rest)
        BY <1>1, <1>3, <1>6, <2>1, <2>4, SMTT(90)
      <4>3. i = [h EXCEPT !.buf = Stored(h, h.pos, rest), !.pos = h.pos + (n - m)]
        BY <2>4, <4>2, Zenon
      <4>4. Writing(i, c + m + (n - m)) /\ Continues(i, h, rest)
        BY <1>1, <2>4, <4>2, <4>3, StoreContinues, Zenon DEF rest
      <4> HIDE DEF i
      <4>5. r.f = i /\ r.value = n /\ r.error = FALSE
        BY <4>1 DEF Result
      <4> QED
        BY <1>1, <3>2, <4>4, <4>5, DoneTwice, Zenon DEF r, d, primary, rest
    <3>4. CASE ~(Len(rest) < L)
      <4>1. r = fbf_rest(h, n - m, primary, rest, fault) /\ m + (n - m) = n
        BY <1>1, <1>3, <1>7, <1>10, <2>1, <3>1, <3>4
      <4>2. \/ /\ r.value = m + (n - m) /\ r.error = FALSE
               /\ Writing(r.f, c + m + (n - m)) /\ Continues(r.f, h, rest)
            \/ Cut(r, h, c + m, n - m, fault)
        BY <1>1, <1>2, <2>1, <2>4, <4>1, RestWrites, Zenon DEF rest
      <4>3. CASE Cut(r, h, c + m, n - m, fault)
        BY <1>1, <1>6, <2>4, <4>3, CutLater, ZenonT(40) DEF r, d
      <4> QED
        BY <1>1, <3>2, <4>1, <4>2, <4>3, DoneTwice, Zenon DEF r, d, primary, rest
    <3> QED
      BY <3>3, <3>4
  <2> QED
    BY <2>5, <2>6
<1> QED
  BY <1>8, <1>9, <1>10

LEMMA NothingToFlush ==
  ASSUME NEW g, g.pos = 0, NEW fault, NEW synced
  PROVE  flush_unlocked(g, fault, synced).f = g
  BY DEF flush_unlocked, Result

\* write_unlocked_lbf: up to the last newline unbuffered, what follows buffered.
LEMMA LbfWrites ==
  ASSUME NEW g, NEW c \in Nat \ {0}, Writing(g, c), NEW n \in Nat, NEW nl \in 0 .. n,
         NEW fault \in AllFaults
  PROVE  LET r == write_unlocked_lbf(g, Run(c, n), nl, fault)
         IN  Done(r, g, c, n) \/ Cut(r, g, c, n, fault)
<1> DEFINE d == Run(c, n)
           r == write_unlocked_lbf(g, d, nl, fault)
<1>1. CASE nl = 0
  BY <1>1, FbfWrites, Zenon DEF write_unlocked_lbf
<1>2. CASE nl # 0
  <2> DEFINE p == Run(c, nl)
             o == Run(c + nl, n - nl)
             first == write_unlocked_nbf(g, p, fault)
             flushed == flush_unlocked(first.f, fault, TRUE).f
             second == write_unlocked_fbf(flushed, o, fault)
             written == nl + second.value
  <2>1. /\ nl \in Nat /\ nl > 0 /\ n - nl \in Nat /\ c + nl \in Nat \ {0} /\ ~(nl < nl)
        /\ nl + (n - nl) = n /\ ~(n < n)
    BY <1>2
  <2>2. SubSeq(d, 1, nl) = p /\ SubSeq(d, nl + 1, n) = o /\ Len(d) = n
    BY RunParts, RunIs, Zenon
  <2>3. r = IF first.value < nl THEN Result(Flagged(first.f), first.value, FALSE)
            ELSE IF written < n THEN Result(Flagged(second.f), written, FALSE)
            ELSE Result(second.f, n, FALSE)
    BY <1>2, <2>2, Zenon DEF write_unlocked_lbf
  <2> HIDE DEF r
  <2>4. \/ Done(first, g, c, nl) /\ first.f.pos = 0
        \/ Cut(first, g, c, nl, fault) /\ first.f.err /\ first.value < nl
    BY <2>1, NbfWrites, Zenon
  <2>5. CASE Cut(first, g, c, nl, fault) /\ first.value < nl
    <3>1. r.f = Flagged(first.f)
      BY <2>3, <2>5, Zenon DEF Result
    <3>2. PICK b \in Nat : b = c + nl - 1 /\ Writing(first.f, b)
      BY <2>1, <2>5 DEF Cut
    <3>3. Writing(r.f, b)
      BY <3>1, <3>2, FlaggedWriting
    <3>4. Writing(r.f, c + n - 1)
      <4>1. c + n - 1 \in Nat /\ b <= c + n - 1
        BY <2>1, <3>2
      <4> QED
        BY <3>3, <4>1, WritingLater
    <3>5. first.f \in Streams
      BY <3>2, Zenon DEF Writing, Sound
    <3>6. r.f.err = TRUE /\ r.f.pos = 0 /\ r.f.eof = g.eof /\ Len(r.f.buf) = Len(g.buf)
      BY <2>5, <3>1, <3>5, FlaggedIs, Zenon DEF Cut
    <3>7. n > 0
      BY <2>1
    <3> QED
      BY <2>5, <3>4, <3>6, <3>7, Zenon DEF Cut, r
  <2>6. CASE Done(first, g, c, nl) /\ first.f.pos = 0
    <3>1. flushed = first.f /\ ~(first.value < nl)
      <4>1. first.value = nl
        BY <2>6 DEF Done
      <4>2. flushed = first.f
        BY <2>6, NothingToFlush, Zenon
      <4> QED
        BY <2>1, <4>1, <4>2, Zenon
    <3>2. Writing(flushed, c + nl) /\ Continues(flushed, g, p)
      BY <2>6, <3>1, Zenon DEF Done
    <3> HIDE DEF first, flushed
    <3>3. Done(second, flushed, c + nl, n - nl) \/ Cut(second, flushed, c + nl, n - nl, fault)
      BY <2>1, <3>2, FbfWrites
    <3> HIDE DEF second
    <3>4. CASE Done(second, flushed, c + nl, n - nl)
      <4>1. second.value = n - nl
        BY <3>4 DEF Done
      <4>2. r.f = second.f /\ r.value = n /\ r.error = FALSE
        BY <2>1, <2>3, <3>1, <4>1, Zenon DEF Result
      <4>3. Writing(r.f, c + nl + (n - nl)) /\ Continues(r.f, flushed, o)
        BY <3>4, <4>2 DEF Done
      <4> QED
        BY <2>1, <3>2, <4>2, <4>3, DoneTwice, Zenon DEF r
    <3>5. CASE Cut(second, flushed, c + nl, n - nl, fault)
      <4>1. r.f = second.f \/ r.f = Flagged(second.f)
        BY <2>3, <3>1, Zenon DEF Result
      <4>2. Cut(r, flushed, c + nl, n - nl, fault)
        <5>1. CASE r.f = second.f
          BY <3>5, <5>1 DEF Cut
        <5>2. CASE r.f = Flagged(second.f)
          <6>1. second.f \in Streams
            BY <3>5 DEF Cut, Writing, Sound
          <6>2. Writing(r.f, c + nl + (n - nl) - 1)
            BY <3>5, <5>2, FlaggedWriting DEF Cut
          <6>3. /\ r.f.err = TRUE /\ r.f.pos = second.f.pos /\ r.f.eof = second.f.eof
                /\ r.f.buf = second.f.buf
            BY <5>2, <6>1, FlaggedIs, Zenon
          <6> QED
            BY <3>5, <6>2, <6>3 DEF Cut
        <5> QED
          BY <4>1, <5>1, <5>2
      <4>3. flushed.eof = g.eof /\ Len(flushed.buf) = Len(g.buf)
        BY <3>2 DEF Continues
      <4> QED
        BY <2>1, <4>2, <4>3, CutLater, Zenon DEF r
    <3> QED
      BY <3>3, <3>4, <3>5
  <2> QED
    BY <2>4, <2>5, <2>6, Zenon
<1> QED
  BY <1>1, <1>2

\* write_unlocked, in each of the three modes of buffering.
LEMMA WriteUnlocked ==
  ASSUME NEW g, NEW c \in Nat \ {0}, NEW n \in Nat, NEW nl \in 0 .. n,
         NEW fault \in AllFaults, bufmode \in {"_IOFBF", "_IOLBF", "_IONBF"},
         bufmode = "_IONBF" => g.pos = 0,
         Writing([g EXCEPT !.prev_op = "WRITE"], c), g \in Streams
  PROVE  LET h == [g EXCEPT !.prev_op = "WRITE"]
             r == write_unlocked(g, Run(c, n), nl, fault)
         IN  /\ Done(r, h, c, n) \/ Cut(r, h, c, n, fault)
             /\ bufmode = "_IONBF" => r.f.pos = 0
<1> DEFINE h == [g EXCEPT !.prev_op = "WRITE"]
           r == write_unlocked(g, Run(c, n), nl, fault)
<1>1. CASE bufmode = "_IOFBF"
  <2>1. r = write_unlocked_fbf(h, Run(c, n), fault)
    BY <1>1 DEF write_unlocked
  <2> QED
    BY <1>1, <2>1, FbfWrites
<1>2. CASE bufmode = "_IOLBF"
  <2>1. r = write_unlocked_lbf(h, Run(c, n), nl, fault)
    BY <1>2 DEF write_unlocked
  <2> QED
    BY <1>2, <2>1, LbfWrites
<1>3. CASE bufmode = "_IONBF"
  <2> DEFINE q == write_unlocked_nbf(h, Run(c, n), fault)
  <2>1. h.pos = 0
    BY <1>3 DEF Streams
  <2>2. r = Result(flush_unlocked(q.f, fault, TRUE).f, q.value, FALSE)
    BY <1>3 DEF write_unlocked
  <2> HIDE DEF r, h
  <2>3. \/ Done(q, h, c, n) /\ q.f.pos = 0
        \/ Cut(q, h, c, n, fault)
    BY <2>1, NbfWrites, Zenon DEF h
  <2> HIDE DEF q
  <2>4. q.f.pos = 0
    BY <2>3 DEF Cut
  <2>5. r.f = q.f /\ r.value = q.value /\ r.error = FALSE
    BY <2>2, <2>4, NothingToFlush, Zenon DEF Result
  <2>6. Done(q, h, c, n) => Done(r, h, c, n)
    BY <2>5 DEF Done
  <2>7. Cut(q, h, c, n, fault) => Cut(r, h, c, n, fault)
    BY <2>5 DEF Cut
  <2> QED
    BY <2>3, <2>4, <2>5, <2>6, <2>7 DEF r, h
<1> QED
  BY <1>1, <1>2, <1>3

----------------------------------------------------------------------------
(* A stream that is read from                                              *)

\* What a piece of a sequence is, byte by byte.
LEMMA PieceIs ==
  ASSUME NEW s \in Seq(Int), NEW i \in Nat, NEW k \in 0 .. Len(s)
  PROVE  /\ SubSeq(s, i + 1, k) \in Seq(Int)
         /\ Len(SubSeq(s, i + 1, k)) = IF i <= k THEN k - i ELSE 0
         /\ \A n \in 1 .. k - i : SubSeq(s, i + 1, k)[n] = s[i + n]
  OBVIOUS

LEMMA Pieces ==
  ASSUME NEW s \in Seq(Int), NEW i \in Nat, NEW j \in Nat, NEW k \in Nat,
         i <= j, j <= k, k <= Len(s)
  PROVE  SubSeq(s, i + 1, k) = SubSeq(s, i + 1, j) \o SubSeq(s, j + 1, k)
<1> DEFINE a == SubSeq(s, i + 1, j)
           b == SubSeq(s, j + 1, k)
           v == SubSeq(s, i + 1, k)
<1>0. j \in 0 .. Len(s) /\ k \in 0 .. Len(s) /\ (j - i) + (k - j) = k - i
  OBVIOUS
<1>1. a \in Seq(Int) /\ Len(a) = j - i /\ \A n \in 1 .. j - i : a[n] = s[i + n]
  BY <1>0, PieceIs
<1>2. b \in Seq(Int) /\ Len(b) = k - j /\ \A n \in 1 .. k - j : b[n] = s[j + n]
  BY <1>0, PieceIs
<1>3. v \in Seq(Int) /\ Len(v) = k - i /\ \A n \in 1 .. k - i : v[n] = s[i + n]
  BY <1>0, PieceIs
<1> HIDE DEF a, b, v
<1>4. a \in Seq(Int) /\ b \in Seq(Int)
  BY <1>1, <1>2
<1>5. /\ a \o b \in Seq(Int) /\ Len(a \o b) = Len(a) + Len(b)
      /\ \A n \in 1 .. Len(a) + Len(b) :
           (a \o b)[n] = IF n <= Len(a) THEN a[n] ELSE b[n - Len(a)]
  BY <1>4
<1>6. Len(a \o b) = Len(v)
  BY <1>0, <1>1, <1>2, <1>3, <1>5
<1>7. ASSUME NEW n \in 1 .. Len(v) PROVE v[n] = (a \o b)[n]
  <2>1. n \in 1 .. k - i /\ n \in 1 .. Len(a) + Len(b)
    BY <1>3, <1>5, <1>6
  <2>2. CASE n <= j - i
    <3>1. n \in 1 .. j - i
      BY <2>1, <2>2
    <3>2. v[n] = s[i + n] /\ a[n] = s[i + n]
      BY <1>1, <1>3, <2>1, <3>1, Zenon
    <3> QED
      BY <1>1, <1>5, <2>1, <2>2, <3>2
  <2>3. CASE ~(n <= j - i)
    <3>1. n - (j - i) \in 1 .. k - j /\ j + (n - (j - i)) = i + n
      BY <2>1, <2>3
    <3>2. b[n - (j - i)] = s[i + n]
      BY <1>2, <3>1
    <3> QED
      BY <1>1, <1>3, <1>5, <2>1, <2>3, <3>2, Zenon
  <2> QED
    BY <2>2, <2>3, Zenon
<1>8. v = a \o b
  BY <1>3, <1>5, <1>6, <1>7, SameBytes, Zenon
<1> QED
  BY <1>8 DEF a, b, v

LEMMA Associates ==
  ASSUME NEW a \in Seq(Int), NEW b \in Seq(Int), NEW c \in Seq(Int)
  PROVE  (a \o b) \o c = a \o (b \o c)
  BY SMTT(60)

\* The parts of a sequence, found again.
LEMMA FirstPart ==
  ASSUME NEW a \in Seq(Int), NEW b \in Seq(Int)
  PROVE  a = SubSeq(a \o b, 1, Len(a)) /\ From(a \o b, Len(a)) = b /\ Len(a \o b) = Len(a) + Len(b)
<1>1. PICK v \in Seq(Int) : v = a \o b
  BY ConcatProperties, Zenon
<1>2. /\ Len(v) = Len(a) + Len(b)
      /\ \A n \in 1 .. Len(a) + Len(b) : v[n] = IF n <= Len(a) THEN a[n] ELSE b[n - Len(a)]
  BY <1>1
<1>3. /\ Len(a) \in Nat /\ Len(b) \in Nat /\ Len(a) \in 0 .. Len(v) /\ Len(v) \in 0 .. Len(v)
      /\ ~(Len(a) < 0) /\ Len(a) <= Len(v) /\ Len(v) - Len(a) = Len(b)
  BY <1>2
<1>4. SubSeq(v, 1, Len(a)) = a
  <2>1. /\ SubSeq(v, 1, Len(a)) \in Seq(Int) /\ Len(SubSeq(v, 1, Len(a))) = Len(a)
        /\ \A n \in 1 .. Len(a) : SubSeq(v, 1, Len(a))[n] = v[n]
    BY <1>3
  <2>2. \A n \in 1 .. Len(a) : v[n] = a[n]
    BY <1>2, <1>3
  <2> QED
    BY <2>1, <2>2, SameBytes
<1>5. SubSeq(v, Len(a) + 1, Len(v)) = b
  <2>1. /\ SubSeq(v, Len(a) + 1, Len(v)) \in Seq(Int)
        /\ Len(SubSeq(v, Len(a) + 1, Len(v))) = Len(b)
        /\ \A n \in 1 .. Len(b) : SubSeq(v, Len(a) + 1, Len(v))[n] = v[Len(a) + n]
    BY <1>3, PieceIs, Zenon
  <2>2. ASSUME NEW n \in 1 .. Len(b) PROVE v[Len(a) + n] = b[n]
    <3>1. Len(a) + n \in 1 .. Len(a) + Len(b) /\ ~(Len(a) + n <= Len(a)) /\ Len(a) + n - Len(a) = n
      BY <1>3
    <3> QED
      BY <1>2, <3>1, SMTT(90)
  <2> QED
    BY <2>1, <2>2, SameBytes
<1> QED
  BY <1>1, <1>2, <1>3, <1>4, <1>5 DEF From

\* What a read gets is what follows in the file; when it is short, nothing follows.
LEMMA FetchedIs ==
  ASSUME NEW g \in Streams, NEW n \in Nat
  PROVE  LET got == Fetched(g, n)
         IN  /\ got \in Seq(Int) /\ Len(got) <= n
             /\ From(g.disk, g.offset) \in Seq(Int)
             /\ From(g.disk, g.offset + Len(got)) \in Seq(Int)
             /\ From(g.disk, g.offset) = got \o From(g.disk, g.offset + Len(got))
             /\ Len(got) < n => /\ From(g.disk, g.offset + Len(got)) = <<>>
                                /\ Len(g.disk) <= g.offset + Len(got)
             /\ Len(g.disk) <= g.offset => got = <<>>
             /\ \A b \in Nat : Below(g.disk, b) => Below(got, b)
<1> DEFINE s == g.disk
           o == g.offset
           j == Least(o + n, Len(s))
           got == Fetched(g, n)
<1>1. s \in Seq(Int) /\ o \in Nat /\ Len(s) \in Nat
  BY DEF Streams
<1>2. got = SubSeq(s, o + 1, j) /\ \A k \in Nat : From(s, k) = SubSeq(s, k + 1, Len(s))
  BY <1>1 DEF Fetched, From
<1> HIDE DEF s, o, got
<1>3. j \in 0 .. Len(s) /\ j \in Nat /\ j <= o + n /\ (j < o + n => j = Len(s)) /\ j <= Len(s)
  BY <1>1 DEF Least
<1> HIDE DEF j
<1>4. /\ got \in Seq(Int) /\ Len(got) = IF o <= j THEN j - o ELSE 0
      /\ \A k \in 1 .. j - o : got[k] = s[o + k]
  <2>1. s \in Seq(Int) /\ o \in Nat /\ j \in 0 .. Len(s)
    BY <1>1, <1>3
  <2>2. /\ SubSeq(s, o + 1, j) \in Seq(Int)
        /\ Len(SubSeq(s, o + 1, j)) = IF o <= j THEN j - o ELSE 0
        /\ \A k \in 1 .. j - o : SubSeq(s, o + 1, j)[k] = s[o + k]
    BY <2>1, PieceIs, Zenon
  <2>3. got = SubSeq(s, o + 1, j)
    BY <1>2
  <2> QED
    BY <2>2, <2>3, Zenon
<1>5. Len(got) \in Nat /\ Len(got) <= n
  BY <1>1, <1>3, <1>4
<1>6. ASSUME NEW k \in Nat PROVE /\ From(s, k) \in Seq(Int)
                                 /\ Len(From(s, k)) = IF k <= Len(s) THEN Len(s) - k ELSE 0
  <2>1. Len(s) \in 0 .. Len(s) /\ s \in Seq(Int)
    BY <1>1
  <2>2. /\ SubSeq(s, k + 1, Len(s)) \in Seq(Int)
        /\ Len(SubSeq(s, k + 1, Len(s))) = IF k <= Len(s) THEN Len(s) - k ELSE 0
    BY <2>1, PieceIs, Zenon
  <2>3. From(s, k) = SubSeq(s, k + 1, Len(s))
    BY <1>2
  <2> QED
    BY <2>2, <2>3
<1>7. o + Len(got) \in Nat
  BY <1>1, <1>5
<1>8. From(s, o) = got \o From(s, o + Len(got))
  <2>1. CASE o <= j
    <3>1. o + Len(got) = j
      BY <1>1, <1>3, <1>4, <2>1
    <3>2. SubSeq(s, o + 1, Len(s)) = SubSeq(s, o + 1, j) \o SubSeq(s, j + 1, Len(s))
      <4>1. /\ s \in Seq(Int) /\ o \in Nat /\ j \in Nat /\ Len(s) \in Nat
            /\ o <= j /\ j <= Len(s) /\ Len(s) <= Len(s)
        BY <1>1, <1>3, <2>1
      <4> QED
        BY <4>1, Pieces, ZenonT(40)
    <3> QED
      BY <1>1, <1>2, <1>3, <3>1, <3>2, Zenon
  <2>2. CASE ~(o <= j)
    <3>1. Len(got) = 0 /\ o + Len(got) = o /\ got = <<>>
      BY <1>1, <1>3, <1>4, <2>2
    <3>2. From(s, o) \in Seq(Int)
      BY <1>1, <1>6
    <3> QED
      BY <3>1, <3>2
  <2> QED
    BY <2>1, <2>2
<1>9. ASSUME Len(got) < n
      PROVE  From(s, o + Len(got)) = <<>> /\ Len(s) <= o + Len(got)
  <2>1. Len(s) <= o + Len(got)
    BY <1>1, <1>3, <1>4, <1>9
  <2>2. From(s, o + Len(got)) \in Seq(Int) /\ Len(From(s, o + Len(got))) = 0
    BY <1>1, <1>6, <1>7, <2>1
  <2> QED
    BY <2>1, <2>2
<1>10. Len(s) <= o => got = <<>>
  BY <1>1, <1>3, <1>4
<1>11. ASSUME NEW b \in Nat, Below(s, b) PROVE Below(got, b)
  <2>1. ASSUME NEW k \in 1 .. Len(got) PROVE got[k] < b
    <3>1. k \in 1 .. j - o /\ o + k \in 1 .. Len(s)
      BY <1>1, <1>3, <1>4
    <3> QED
      BY <1>4, <1>11, <3>1 DEF Below
  <2> QED
    BY <2>1 DEF Below
<1> QED
  BY <1>1, <1>4, <1>5, <1>6, <1>7, <1>8, <1>9, <1>10, <1>11, Zenon DEF s, o, got

\* What a reader of g will get, and where it is.
AheadOf(g) == SubSeq(g.buf, g.pos + 1, g.read_limit) \o From(g.disk, g.offset)
PlaceOf(g) == g.offset - (g.read_limit - g.pos)

Reading(g, b) == Sound(g, b) /\ g.pos <= g.read_limit

\* h is what becomes of g when data has been read.
Advances(h, g, data) ==
  /\ h.disk = g.disk /\ Len(h.buf) = Len(g.buf)
  /\ data \in Seq(Int) /\ AheadOf(h) \in Seq(Int)
  /\ AheadOf(g) = data \o AheadOf(h)
  /\ PlaceOf(h) = PlaceOf(g) + Len(data)

\* eof is set at the end only.
AtEnd(g) == g.eof => g.pos = g.read_limit /\ Len(g.disk) <= g.offset

\* The request is satisfied from the buffer.
LEMMA ReadFromBuffer ==
  ASSUME NEW g, NEW b \in Nat \ {0}, Reading(g, b), AtEnd(g), NEW n \in Nat,
         n <= g.read_limit - g.pos, NEW failing \in BOOLEAN
  PROVE  LET r == read_unlocked(g, n, failing)
         IN  /\ Reading(r.f, b) /\ AtEnd(r.f) /\ r.f.prev_op = "READ" /\ r.f.err = g.err
             /\ Advances(r.f, g, r.data) /\ Len(r.data) = n /\ r.error = FALSE
<1>0. PICK k : k = g.pos + n
  OBVIOUS
<1> DEFINE r == read_unlocked(g, n, failing)
           h == [g EXCEPT !.prev_op = "READ", !.pos = k]
           data == SubSeq(g.buf, g.pos + 1, k)
           tail == SubSeq(g.buf, k + 1, g.read_limit)
           rest == From(g.disk, g.offset)
<1>1. /\ g \in Streams /\ g.buf \in Seq(Int) /\ g.pos \in Nat /\ g.read_limit \in Nat
      /\ g.read_limit <= Len(g.buf) /\ g.offset \in Nat /\ k \in Nat
      /\ g.pos <= k /\ k <= g.read_limit /\ Len(g.buf) \in Nat /\ k - g.pos = n
  BY <1>0 DEF Reading, Sound, Streams
<1>2. r = [f |-> h, data |-> data, error |-> FALSE]
  BY <1>0 DEF read_unlocked
<1>3. /\ h \in Streams /\ h.pos = k /\ h.prev_op = "READ"
      /\ h.disk = g.disk /\ h.buf = g.buf /\ h.offset = g.offset
      /\ h.read_limit = g.read_limit /\ h.eof = g.eof /\ h.err = g.err
  BY <1>1, Zenon DEF Streams
<1>4. data \in Seq(Int) /\ Len(data) = n
  <2>1. k \in 0 .. Len(g.buf) /\ g.buf \in Seq(Int) /\ g.pos \in Nat
    BY <1>1
  <2>2. /\ data \in Seq(Int)
        /\ Len(data) = IF g.pos <= k THEN k - g.pos ELSE 0
    BY <2>1, PieceIs, Zenon
  <2> QED
    BY <1>1, <2>2
<1>5. tail \in Seq(Int)
  <2>1. g.read_limit \in 0 .. Len(g.buf) /\ g.buf \in Seq(Int) /\ k \in Nat
    BY <1>1
  <2> QED
    BY <2>1, PieceIs, Zenon
<1>6. rest \in Seq(Int)
  BY <1>1, FetchedIs, Zenon
<1>7. SubSeq(g.buf, g.pos + 1, g.read_limit) = data \o tail
  <2>1. /\ g.buf \in Seq(Int) /\ g.pos \in Nat /\ k \in Nat /\ g.read_limit \in Nat
        /\ g.pos <= k /\ k <= g.read_limit /\ g.read_limit <= Len(g.buf)
    BY <1>1
  <2>2. SubSeq(g.buf, g.pos + 1, g.read_limit)
        = SubSeq(g.buf, g.pos + 1, k) \o SubSeq(g.buf, k + 1, g.read_limit)
    <3>1. PICK s \in Seq(Int), i \in Nat, l \in Nat : s = g.buf /\ i = g.pos /\ l = g.read_limit
      BY <2>1
    <3>2. SubSeq(s, i + 1, l) = SubSeq(s, i + 1, k) \o SubSeq(s, k + 1, l)
      <4>1. k \in Nat /\ i <= k /\ k <= l /\ l <= Len(s)
        BY <2>1, <3>1
      <4> QED
        BY <4>1, Pieces
    <3> QED
      BY <3>1, <3>2, Zenon
  <2> QED
    BY <2>2, Zenon
<1> HIDE DEF data, tail, rest, h, r
<1>8. AheadOf(g) = data \o AheadOf(h) /\ AheadOf(h) \in Seq(Int)
  <2>1. AheadOf(h) = tail \o rest /\ AheadOf(g) = (data \o tail) \o rest
    BY <1>3, <1>7, Zenon DEF AheadOf, tail, rest
  <2>2. tail \o rest \in Seq(Int)
    BY <1>5, <1>6, ConcatProperties, Zenon
  <2>3. (data \o tail) \o rest = data \o (tail \o rest)
    BY <1>4, <1>5, <1>6, Associates, Zenon
  <2> QED
    BY <2>1, <2>2, <2>3
<1>9. PlaceOf(h) = PlaceOf(g) + n
  BY <1>0, <1>1, <1>3, SMTT(90) DEF PlaceOf
<1>10. Reading(h, b) /\ AtEnd(h)
  <2>1. h.pos <= h.read_limit /\ h.pos <= Len(h.buf)
    BY <1>1, <1>3
  <2>2. AtEnd(h)
    BY <1>1, <1>3 DEF AtEnd
  <2> QED
    BY <1>3, <2>1, <2>2 DEF Reading, Sound
<1>11. r.f = h /\ r.data = data /\ r.error = FALSE
  BY <1>2
<1> QED
  BY <1>3, <1>4, <1>8, <1>9, <1>10, <1>11, Zenon DEF Advances, r

\* The buffer is used up, and the rest of the request is fetched into it, or
\* directly when it is larger than the buffer.
LEMMA ReadAndFetch ==
  ASSUME NEW g, NEW b \in Nat \ {0}, Reading(g, b), AtEnd(g), NEW n \in Nat,
         ~(n <= g.read_limit - g.pos), NEW failing \in BOOLEAN
  PROVE  LET r == read_unlocked(g, n, failing)
         IN  /\ Reading(r.f, b) /\ AtEnd(r.f) /\ r.f.prev_op = "READ"
             /\ Advances(r.f, g, r.data) /\ r.error = failing
             /\ ~failing => Len(r.data) = Least(n, Len(AheadOf(g)))
<1> DEFINE available == g.read_limit - g.pos
           to_fetch == n - available
           bufsize == Len(g.buf)
           direct == to_fetch > bufsize
           want == IF direct THEN to_fetch ELSE bufsize
           got == IF failing THEN <<>> ELSE Fetched(g, want)
           t == Least(Len(got), to_fetch)
           o == g.offset + Len(got)
           buf == IF direct THEN g.buf ELSE Stored(g, 0, got)
           limit == IF direct THEN 0 ELSE Len(got)
           pos == IF direct THEN 0 ELSE t
           eof == g.eof \/ (~failing /\ Len(got) < to_fetch)
           err == g.err \/ failing
           h == [g EXCEPT !.prev_op = "READ", !.pos = pos, !.read_limit = limit, !.buf = buf,
                          !.offset = o, !.eof = eof, !.err = err]
           a == SubSeq(g.buf, g.pos + 1, g.read_limit)
           data == a \o SubSeq(got, 1, t)
           rest == From(g.disk, o)
           r == read_unlocked(g, n, failing)
<1>1. /\ g \in Streams /\ g.buf \in Seq(Int) /\ g.disk \in Seq(Int)
      /\ Below(g.disk, b) /\ Below(g.buf, b)
      /\ g.pos \in Nat /\ g.read_limit \in 0 .. bufsize /\ g.offset \in Nat /\ bufsize \in Nat
      /\ g.eof \in BOOLEAN /\ g.err \in BOOLEAN
  BY DEF Reading, Sound, Streams
<1>2. /\ available \in Nat /\ to_fetch \in Nat /\ to_fetch > 0 /\ n = available + to_fetch
      /\ g.pos <= g.read_limit
  BY <1>1 DEF Reading
<1>3. want \in Nat /\ to_fetch <= want
  <2>1. bufsize \in Nat /\ to_fetch \in Nat
    BY <1>1, <1>2
  <2> HIDE DEF bufsize, to_fetch
  <2> QED
    BY <2>1
<1>4. r = [f |-> h, data |-> data, error |-> failing]
  <2>1. direct => r = [f |-> h, data |-> data, error |-> failing]
    <3> SUFFICES ASSUME direct PROVE r = [f |-> h, data |-> data, error |-> failing]
      BY Zenon
    <3>1. [[g EXCEPT !.prev_op = "READ", !.pos = 0, !.read_limit = 0, !.offset = @ + Len(got)]
            EXCEPT !.eof = @ \/ (~failing /\ Len(got) < to_fetch), !.err = @ \/ failing] = h
      BY <1>1, Zenon DEF Streams
    <3> QED
      BY <3>1, Zenon DEF read_unlocked, Noted
  <2>2. ~direct => r = [f |-> h, data |-> data, error |-> failing]
    <3> SUFFICES ASSUME ~direct PROVE r = [f |-> h, data |-> data, error |-> failing]
      BY Zenon
    <3>1. [[[g EXCEPT !.prev_op = "READ", !.pos = 0, !.read_limit = 0, !.offset = @ + Len(got)]
            EXCEPT !.buf = Stored(g, 0, got), !.read_limit = Len(got), !.pos = t]
            EXCEPT !.eof = @ \/ (~failing /\ Len(got) < to_fetch), !.err = @ \/ failing] = h
      BY <1>1, ZenonT(40) DEF Streams
    <3> QED
      BY <3>1, Zenon DEF read_unlocked, Noted
  <2> QED
    BY <2>1, <2>2, Zenon
<1>5. /\ Fetched(g, want) \in Seq(Int) /\ Len(Fetched(g, want)) <= want
      /\ From(g.disk, g.offset) \in Seq(Int)
      /\ From(g.disk, g.offset + Len(Fetched(g, want))) \in Seq(Int)
      /\ From(g.disk, g.offset)
           = Fetched(g, want) \o From(g.disk, g.offset + Len(Fetched(g, want)))
      /\ Len(Fetched(g, want)) < want =>
           /\ From(g.disk, g.offset + Len(Fetched(g, want))) = <<>>
           /\ Len(g.disk) <= g.offset + Len(Fetched(g, want))
      /\ Len(g.disk) <= g.offset => Fetched(g, want) = <<>>
      /\ Below(Fetched(g, want), b)
  BY <1>1, <1>3, FetchedIs, Zenon
<1>6. /\ got \in Seq(Int) /\ Len(got) \in Nat /\ Len(got) <= want /\ o \in Nat
      /\ Below(got, b) /\ rest \in Seq(Int)
      /\ From(g.disk, g.offset) = got \o rest
      /\ ~failing /\ Len(got) < want => rest = <<>> /\ Len(g.disk) <= o
      /\ Len(g.disk) <= g.offset => got = <<>>
  <2>1. CASE failing
    <3>1. got = <<>> /\ Len(got) = 0 /\ o = g.offset
      BY <1>1, <2>1
    <3>2. rest = From(g.disk, g.offset) /\ rest \in Seq(Int) /\ got \o rest = rest
      <4>1. rest = From(g.disk, g.offset)
        BY <3>1
      <4>2. From(g.disk, g.offset) \in Seq(Int)
        BY <1>5
      <4>3. <<>> \o From(g.disk, g.offset) = From(g.disk, g.offset)
        BY <4>2, ConcatEmptySeq, Zenon
      <4> QED
        BY <3>1, <4>1, <4>2, <4>3, Zenon
    <3>3. Below(got, b)
      BY <3>1 DEF Below
    <3> QED
      BY <1>1, <1>3, <2>1, <3>1, <3>2, <3>3, SMTT(90)
  <2>2. CASE ~failing
    <3>1. got = Fetched(g, want) /\ o = g.offset + Len(Fetched(g, want))
      BY <2>2
    <3>2. Len(got) \in Nat /\ o \in Nat
      <4>1. got \in Seq(Int)
        BY <1>5, <3>1
      <4> HIDE DEF got
      <4>2. Len(got) \in Nat
        BY <4>1
      <4> QED
        BY <1>1, <4>2
    <3> HIDE DEF want
    <3> QED
      BY <1>5, <3>1, <3>2, Zenon
  <2> QED
    BY <2>1, <2>2, Zenon
<1> HIDE DEF got, rest, want
<1>7. /\ t \in Nat /\ t <= Len(got) /\ t <= to_fetch
      /\ Len(got) <= to_fetch => t = Len(got)
      /\ Len(got) >= to_fetch => t = to_fetch
      /\ direct => t = Len(got)
  <2>1. direct => Len(got) <= to_fetch
    BY <1>6 DEF want
  <2>2. to_fetch \in Nat /\ Len(got) \in Nat
    BY <1>2, <1>6
  <2>3. PICK x \in Nat, y \in Nat : x = to_fetch /\ y = Len(got) /\ t = Least(y, x)
    BY <2>2
  <2>4. /\ t \in Nat /\ t <= y /\ t <= x
        /\ (y <= x => t = y) /\ (y >= x => t = x)
    BY <2>3 DEF Least
  <2> QED
    BY <2>1, <2>3, <2>4
<1> HIDE DEF t
<1>8. /\ a \in Seq(Int) /\ Len(a) = available
  <2>1. g.read_limit \in 0 .. Len(g.buf) /\ g.buf \in Seq(Int) /\ g.pos \in Nat
    BY <1>1
  <2>2. a \in Seq(Int) /\ Len(a) = IF g.pos <= g.read_limit THEN g.read_limit - g.pos ELSE 0
    BY <2>1, PieceIs
  <2> QED
    BY <1>2, <2>2
<1>9. buf \in Seq(Int) /\ Len(buf) = bufsize /\ Below(buf, b)
  <2>1. CASE direct
    BY <1>1, <2>1
  <2>2. CASE ~direct
    <3>1. Len(got) <= bufsize
      BY <1>6, <2>2 DEF want
    <3>2. buf = [k \in 1 .. bufsize |-> IF k \in 1 .. Len(got) THEN got[k] ELSE g.buf[k]]
      <4>1. DOMAIN g.buf = 1 .. bufsize
        BY <1>1
      <4>2. \A k \in 1 .. bufsize : (k \in 0 + 1 .. 0 + Len(got) <=> k \in 1 .. Len(got)) /\ k - 0 = k
        BY <1>1, <1>6
      <4> QED
        BY <2>2, <4>1, <4>2 DEF Stored
    <3>3. \A k \in 1 .. bufsize : (IF k \in 1 .. Len(got) THEN got[k] ELSE g.buf[k]) \in Int
      <4>1. \A k \in 1 .. Len(got) : got[k] \in Int
        BY <1>6
      <4>2. \A k \in 1 .. bufsize : g.buf[k] \in Int
        BY <1>1
      <4> QED
        BY <4>1, <4>2
    <3>4. buf \in Seq(Int) /\ Len(buf) = bufsize
      <4>1. bufsize \in Nat
        BY <1>1
      <4> HIDE DEF buf, bufsize
      <4> QED
        BY <3>2, <3>3, <4>1
    <3>5. \A k \in 1 .. bufsize : buf[k] < b
      BY <1>1, <1>6, <3>2, Zenon DEF Below
    <3> QED
      BY <3>4, <3>5 DEF Below
  <2> QED
    BY <2>1, <2>2
<1>10. SubSeq(buf, pos + 1, limit) = SubSeq(got, t + 1, Len(got))
  <2>1. CASE direct
    <3>1. SubSeq(buf, 1, 0) = <<>> /\ SubSeq(got, Len(got) + 1, Len(got)) = <<>>
      BY <1>6, <1>9
    <3> QED
      BY <1>7, <2>1, <3>1
  <2>2. CASE ~direct
    <3>1. Len(got) <= bufsize
      BY <1>6, <2>2 DEF want
    <3>2. /\ pos = t /\ limit = Len(got)
          /\ \A k \in 1 .. Len(got) : buf[k] = got[k]
      <4>1. DOMAIN g.buf = 1 .. bufsize
        BY <1>1
      <4>2. \A k \in 1 .. Len(got) : k \in 1 .. bufsize /\ k \in 0 + 1 .. 0 + Len(got) /\ k - 0 = k
        BY <1>1, <1>6, <3>1
      <4> QED
        BY <2>2, <4>1, <4>2 DEF Stored
    <3> HIDE DEF buf, pos, limit
    <3>3. PICK l \in Nat : l = Len(got) /\ l <= Len(buf) /\ t \in Nat /\ t <= l
      BY <1>6, <1>7, <1>9, <3>1
    <3>4. l \in 0 .. Len(buf) /\ l \in 0 .. Len(got) /\ buf \in Seq(Int) /\ got \in Seq(Int)
      BY <1>6, <1>9, <3>3
    <3>5. /\ SubSeq(buf, t + 1, l) \in Seq(Int) /\ Len(SubSeq(buf, t + 1, l)) = l - t
          /\ \A k \in 1 .. l - t : SubSeq(buf, t + 1, l)[k] = buf[t + k]
      BY <3>3, <3>4, PieceIs
    <3>6. /\ SubSeq(got, t + 1, l) \in Seq(Int) /\ Len(SubSeq(got, t + 1, l)) = l - t
          /\ \A k \in 1 .. l - t : SubSeq(got, t + 1, l)[k] = got[t + k]
      BY <3>3, <3>4, PieceIs
    <3>7. \A k \in 1 .. l - t : t + k \in 1 .. Len(got)
      BY <3>3
    <3>8. \A k \in 1 .. l - t : SubSeq(buf, t + 1, l)[k] = SubSeq(got, t + 1, l)[k]
      BY <3>2, <3>5, <3>6, <3>7, Zenon
    <3>9. SubSeq(buf, t + 1, l) = SubSeq(got, t + 1, l)
      BY <3>5, <3>6, <3>8, SameBytes, Zenon
    <3> QED
      BY <3>2, <3>3, <3>9
  <2> QED
    BY <2>1, <2>2, Zenon
<1>11. /\ pos \in Nat /\ limit \in Nat /\ pos <= limit /\ limit <= bufsize
       /\ o - (limit - pos) = g.offset + t
       /\ Len(got) <= to_fetch => pos = limit
  <2>1. ~direct => Len(got) <= bufsize
    BY <1>6 DEF want
  <2>2. bufsize \in Nat /\ g.offset \in Nat /\ Len(got) \in Nat
    BY <1>1, <1>6
  <2> HIDE DEF direct, bufsize, to_fetch
  <2> QED
    BY <1>7, <2>1, <2>2
<1>12. eof \in BOOLEAN /\ err \in BOOLEAN
  BY <1>1
<1> HIDE DEF buf, pos, limit, eof, err
<1>13. /\ h \in Streams /\ h.pos = pos /\ h.read_limit = limit /\ h.buf = buf /\ h.offset = o
       /\ h.disk = g.disk /\ h.prev_op = "READ" /\ h.eof = eof /\ h.err = err
  BY <1>1, <1>6, <1>9, <1>11, <1>12, Zenon DEF Streams
<1> HIDE DEF h
<1>14. Reading(h, b)
  <2>1. h.pos <= h.read_limit /\ h.pos <= Len(h.buf) /\ h.read_limit <= Len(h.buf)
    BY <1>9, <1>11, <1>13
  <2>2. Below(h.disk, b) /\ Below(h.buf, b)
    BY <1>1, <1>9, <1>13
  <2> QED
    BY <1>13, <2>1, <2>2, Zenon DEF Reading, Sound
<1>15. AtEnd(h)
  <2> SUFFICES ASSUME eof PROVE pos = limit /\ Len(g.disk) <= o
    BY <1>13 DEF AtEnd
  <2>1. CASE g.eof
    <3>1. Len(got) = 0 /\ Len(g.disk) <= g.offset /\ o = g.offset
      BY <1>1, <1>6, <2>1, SMTT(90) DEF AtEnd
    <3> QED
      BY <1>2, <1>11, <3>1
  <2>2. CASE ~failing /\ Len(got) < to_fetch
    <3>1. Len(got) < want /\ Len(got) <= to_fetch
      BY <1>2, <1>3, <1>6, <2>2
    <3> QED
      BY <1>6, <1>11, <2>2, <3>1
  <2> QED
    BY <2>1, <2>2 DEF eof
<1>16. PICK p \in Seq(Int), q \in Seq(Int) :
         /\ p = SubSeq(got, 1, t) /\ q = SubSeq(got, t + 1, Len(got))
         /\ Len(p) = t /\ got = p \o q
  <2>1. PICK l \in Nat : l = Len(got) /\ t <= l /\ t \in Nat /\ got \in Seq(Int)
    BY <1>6, <1>7
  <2>2. SubSeq(got, 1, t) \in Seq(Int) /\ SubSeq(got, t + 1, l) \in Seq(Int) /\ Len(SubSeq(got, 1, t)) = t
    BY <2>1
  <2>3. SubSeq(got, 1, l) = SubSeq(got, 1, t) \o SubSeq(got, t + 1, l)
    <3>1. PICK z \in Nat : z <= t /\ t <= l /\ l <= Len(got) /\ z + 1 = 1
      BY <2>1
    <3>2. SubSeq(got, z + 1, l) = SubSeq(got, z + 1, t) \o SubSeq(got, t + 1, l)
      <4>1. PICK s \in Seq(Int), x \in Nat : s = got /\ x = t /\ z <= x /\ x <= l /\ l <= Len(s)
        BY <2>1, <3>1
      <4>2. SubSeq(s, z + 1, l) = SubSeq(s, z + 1, x) \o SubSeq(s, x + 1, l)
        BY <4>1, Pieces, SMTT(60)
      <4> QED
        BY <4>1, <4>2
    <3> QED
      BY <3>1, <3>2, Zenon
  <2>4. SubSeq(got, 1, l) = got
    BY <2>1, SameBytes
  <2> QED
    BY <2>1, <2>2, <2>3, <2>4, Zenon
<1>17. /\ AheadOf(g) = data \o AheadOf(h) /\ AheadOf(h) \in Seq(Int) /\ data \in Seq(Int)
       /\ Len(data) = available + t
       /\ Len(AheadOf(g)) = available + Len(got) + Len(rest)
  <2> HIDE DEF a
  <2>1. data = a \o p /\ AheadOf(h) = q \o rest
    BY <1>10, <1>13, <1>16, Zenon DEF AheadOf, rest
  <2>2. AheadOf(g) = a \o ((p \o q) \o rest)
    BY <1>6, <1>16, Zenon DEF AheadOf, a
  <2>3. (p \o q) \o rest = p \o (q \o rest)
    BY <1>6, Associates, Zenon
  <2>4. q \o rest \in Seq(Int)
    BY <1>6, ConcatProperties, Zenon
  <2>5. (a \o p) \o (q \o rest) = a \o (p \o (q \o rest))
    BY <1>8, <2>4, Associates, Zenon
  <2>6. a \o p \in Seq(Int) /\ Len(a \o p) = Len(a) + Len(p)
    BY <1>8, ConcatProperties, Zenon
  <2>7. Len(AheadOf(g)) = Len(a) + (Len(got) + Len(rest))
    <3>1. a \in Seq(Int) /\ got \in Seq(Int) /\ rest \in Seq(Int)
      BY <1>6, <1>8
    <3>2. got \o rest \in Seq(Int) /\ Len(got \o rest) = Len(got) + Len(rest)
      BY <3>1, ConcatProperties, Zenon
    <3>3. Len(a \o (got \o rest)) = Len(a) + Len(got \o rest)
      BY <3>1, <3>2, ConcatProperties, Zenon
    <3> QED
      BY <1>16, <2>2, <3>2, <3>3, Zenon
  <2>8. Len(rest) \in Nat /\ Len(got) \in Nat
    BY <1>6
  <2>9. AheadOf(g) = data \o AheadOf(h) /\ AheadOf(h) \in Seq(Int) /\ data \in Seq(Int)
    BY <2>1, <2>2, <2>3, <2>4, <2>5, <2>6, Zenon
  <2>10. Len(data) = available + t
    <3> HIDE DEF data, available
    <3> QED
      BY <1>8, <1>16, <2>1, <2>6, Zenon
  <2>11. Len(AheadOf(g)) = available + Len(got) + Len(rest)
    <3> HIDE DEF data, available
    <3> QED
      BY <1>2, <1>8, <2>7, <2>8
  <2> QED
    BY <2>9, <2>10, <2>11, Zenon
<1>18. PlaceOf(h) = PlaceOf(g) + Len(data)
  <2>1. PlaceOf(h) = g.offset + t /\ PlaceOf(g) = g.offset - available
    BY <1>11, <1>13 DEF PlaceOf
  <2> HIDE DEF data, available
  <2> QED
    BY <1>1, <1>2, <1>7, <1>17, <2>1
<1>19. ~failing => Len(data) = Least(n, Len(AheadOf(g)))
  <2>1. CASE ~failing /\ Len(got) < to_fetch
    <3>1. Len(got) < want
      BY <1>2, <1>3, <1>6, <2>1
    <3>2. Len(rest) = 0
      <4>1. rest = <<>>
        BY <1>6, <2>1, <3>1
      <4> QED
        BY <4>1
    <3> HIDE DEF data, available, to_fetch
    <3>3. t = Len(got)
      BY <1>2, <1>6, <1>7, <2>1
    <3>4. PICK x \in Nat, y \in Nat : x = Len(data) /\ y = Len(AheadOf(g)) /\ x = y /\ x <= n
      BY <1>2, <1>6, <1>17, <2>1, <3>2, <3>3
    <3> QED
      BY <3>4 DEF Least
  <2>2. CASE ~(Len(got) < to_fetch)
    <3>1. t = to_fetch /\ Len(rest) \in Nat /\ Len(got) \in Nat
      BY <1>2, <1>6, <1>7, <2>2, SMTT(90)
    <3> HIDE DEF data, available, to_fetch
    <3>2. PICK x \in Nat, y \in Nat : x = Len(data) /\ y = Len(AheadOf(g)) /\ x = n /\ x <= y
      <4>1. Len(got) >= to_fetch /\ Len(data) = n
        BY <1>2, <1>17, <2>2, <3>1
      <4>2. Len(AheadOf(g)) \in Nat /\ Len(AheadOf(g)) >= n
        BY <1>2, <1>17, <3>1, <4>1
      <4> QED
        BY <4>1, <4>2, Zenon
    <3> QED
      BY <3>2 DEF Least
  <2> QED
    BY <2>1, <2>2, Zenon
<1> HIDE DEF r, data
<1>20. r.f = h /\ r.data = data /\ r.error = failing
  BY <1>4
<1>21. Advances(r.f, g, r.data)
  BY <1>9, <1>13, <1>17, <1>18, <1>20, Zenon DEF Advances
<1> QED
  BY <1>13, <1>14, <1>15, <1>19, <1>20, <1>21, Zenon DEF r
=============================================================================
