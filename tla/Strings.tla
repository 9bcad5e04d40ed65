------------------------------ MODULE Strings -------------------------------
(***************************************************************************)
(* Strings: src/string/string_utils.h and the functions of src/string that *)
(* search, cut and copy with a limit.  Memory is a sequence of bytes, a    *)
(* pointer an index into it counted from 0, null is -1; a string ends at   *)
(* its first 0.  The wide reads have words of WordSize bytes of ByteBits   *)
(* bits; a pointer's index is its address.                                 *)
(***************************************************************************)
EXTENDS Integers, Sequences, SequencesExt

ByteBits == 3
WordSize == 2
ByteRange == 2 ^ ByteBits
NULL == -1

Byte(mem, p) == mem[p + 1]

(***************************************************************************)
(* Reading a word at a time (LIBC_UNSAFE_STRING_WIDE_READ)                 *)
(***************************************************************************)
Bit(w, k) == (w \div 2 ^ k) % 2 = 1

Xored(v, w) ==
  FoldLeft(LAMBDA x, k : IF Bit(v, k) # Bit(w, k) THEN x + 2 ^ k ELSE x, 0,
           [k \in 1 .. ByteBits * WordSize |-> k - 1])

repeat_byte(byte) == byte + byte * ByteRange

\* (block - LOW_BITS) & ~block & HIGH_BITS is not 0.
has_zeroes(block) ==
  LET subtracted == (block - repeat_byte(1)) % ByteRange ^ WordSize
  IN  \E i \in 1 .. WordSize :
        Bit(subtracted, i * ByteBits - 1) /\ ~Bit(block, i * ByteBits - 1)

Block(mem, p) == Byte(mem, p) + Byte(mem, p + 1) * ByteRange

\* Byte by byte to the first c.
RECURSIVE Scan(_, _, _)
Scan(mem, p, c) == IF Byte(mem, p) = c THEN p ELSE Scan(mem, p + 1, c)

\* char_ptr when the loop over the blocks ends: the last block without a zero.
RECURSIVE LastFullBlock(_, _, _)
LastFullBlock(mem, block_ptr, char_ptr) ==
  IF has_zeroes(Block(mem, block_ptr)) THEN char_ptr
  ELSE LastFullBlock(mem, block_ptr + WordSize, block_ptr)

string_length_byte_read(mem, src) == Scan(mem, src, 0) - src

string_length_wide_read(mem, src) ==
  LET aligned == IF src % WordSize = 0 THEN src ELSE src + 1
  IN  IF aligned # src /\ Byte(mem, src) = 0 THEN 0
      ELSE Scan(mem, LastFullBlock(mem, aligned, aligned), 0) - src

RECURSIVE find_first_character_byte_read(_, _, _, _)
find_first_character_byte_read(mem, src, ch, n) ==
  IF n = 0 THEN NULL
  ELSE IF Byte(mem, src) = ch THEN src
  ELSE find_first_character_byte_read(mem, src + 1, ch, n - 1)

\* The first p at or after src where the string ends or its byte's membership in
\* |bytes| is |stop|.
RECURSIVE Span(_, _, _, _)
Span(mem, src, bytes, stop) ==
  IF Byte(mem, src) = 0 \/ (Byte(mem, src) \in bytes) = stop THEN src
  ELSE Span(mem, src + 1, bytes, stop)

\* Byte by byte to an aligned pointer, to ch or to the end of n: <<pointer, cur>>.
RECURSIVE Align(_, _, _, _, _)
Align(mem, p, cur, ch, n) ==
  IF p % WordSize = 0 \/ cur >= n \/ Byte(mem, p) = ch THEN <<p, cur>>
  ELSE Align(mem, p + 1, cur + 1, ch, n)

\* The loop over the blocks: <<the last block it has passed, cur>>.
RECURSIVE Blocks(_, _, _, _, _, _)
Blocks(mem, block_ptr, char_ptr, cur, ch, n) ==
  IF has_zeroes(Xored(Block(mem, block_ptr), repeat_byte(ch))) \/ cur >= n THEN <<char_ptr, cur>>
  ELSE Blocks(mem, block_ptr + WordSize, block_ptr, cur + WordSize, ch, n)

RECURSIVE Rest(_, _, _, _, _)
Rest(mem, p, cur, ch, n) ==
  IF cur >= n THEN NULL ELSE IF Byte(mem, p) = ch THEN p ELSE Rest(mem, p + 1, cur + 1, ch, n)

find_first_character_wide_read(mem, src, ch, n) ==
  LET a == Align(mem, src, 0, ch, n)
      b == Blocks(mem, a[1], a[1], a[2], ch, n)
  IN  IF a[1] % WordSize # 0 /\ a[2] < n THEN a[1] ELSE Rest(mem, b[1], b[2], ch, n)

strchr(mem, src, c) ==
  LET p == Span(mem, src, {c}, TRUE)
  IN  IF Byte(mem, p) = c THEN p ELSE NULL

RECURSIVE strrchr(_, _, _, _)
strrchr(mem, src, c, last_occurrence) ==
  IF Byte(mem, src) = 0 THEN last_occurrence
  ELSE strrchr(mem, src + 1, c, IF Byte(mem, src) = c THEN src ELSE last_occurrence)

strnlen(mem, src, n) ==
  LET p == find_first_character_byte_read(mem, src, 0, n)
  IN  IF p = NULL THEN n ELSE p - src

(***************************************************************************)
(* Spans and tokens                                                        *)
(***************************************************************************)
complementary_span(mem, src, segment) == Span(mem, src, segment, TRUE) - src

strspn(mem, src, segment) == Span(mem, src, segment, FALSE) - src

strpbrk(mem, src, breakset) ==
  LET p == src + complementary_span(mem, src, breakset)
  IN  IF Byte(mem, p) = 0 THEN NULL ELSE p

\* Mutant: the saved pointer stays on the delimiter that became the terminator.
string_token_stuck(mem, src, delimiters) ==
  LET token == Span(mem, src, delimiters, FALSE)
      end == Span(mem, token, delimiters, TRUE)
  IN  IF Byte(mem, token) = 0 THEN [mem |-> mem, token |-> NULL, saveptr |-> token]
      ELSE [mem |-> [mem EXCEPT ![end + 1] = 0], token |-> token, saveptr |-> end]

\* One call with src, the string or the saved pointer: the memory, the token and the
\* saved pointer after it.
string_token(mem, src, delimiters) ==
  LET token == Span(mem, src, delimiters, FALSE)
      end == Span(mem, token, delimiters, TRUE)
  IN  IF Byte(mem, token) = 0 THEN [mem |-> mem, token |-> NULL, saveptr |-> token]
      ELSE IF Byte(mem, end) = 0 THEN [mem |-> mem, token |-> token, saveptr |-> end]
      ELSE [mem |-> [mem EXCEPT ![end + 1] = 0], token |-> token, saveptr |-> end + 1]

(***************************************************************************)
(* Copies with a limit, and the search for a string                        *)
(***************************************************************************)
\* dst with the bytes |data| stored from p on.
Store(dst, p, data) ==
  [k \in 1 .. Len(dst) |-> IF k \in p + 1 .. p + Len(data) THEN data[k - p] ELSE dst[k]]

StringAt(mem, p) == SubSeq(mem, p + 1, p + string_length_byte_read(mem, p))

Zeros(n) == [k \in 1 .. n |-> 0]

Least2(a, b) == IF a < b THEN a ELSE b

\* <<dst after, result>>.
strlcpy(dst, p, src, size) ==
  LET s == StringAt(src, 0)
      n == Least2(Len(s), size - 1)
  IN  IF size = 0 THEN <<dst, Len(s)>>
      ELSE <<Store(dst, p, SubSeq(s, 1, n) \o Zeros(size - n)), Len(s)>>

strlcat(dst, src, size) ==
  LET p == find_first_character_byte_read(dst, 0, 0, size)
      r == strlcpy(dst, p, src, size - p)
  IN  IF p = NULL THEN <<dst, size + Len(StringAt(src, 0))>> ELSE <<r[1], p + r[2]>>

strncpy(dst, p, src, n) ==
  LET s == StringAt(src, 0)
      i == Least2(n, Len(s))
  IN  Store(dst, p, SubSeq(s, 1, i) \o Zeros(n - i))

strncat(dst, src, count) ==
  LET copy == Least2(Len(StringAt(src, 0)), count)
      end == string_length_byte_read(dst, 0)
  IN  Store(strncpy(dst, end, src, copy), end + copy, <<0>>)

\* The inner loop: j where the needle stops matching at i.
RECURSIVE MatchLength(_, _, _, _)
MatchLength(haystack, needle, i, j) ==
  IF Byte(haystack, i + j) # 0 /\ Byte(haystack, i + j) = Byte(needle, j)
  THEN MatchLength(haystack, needle, i, j + 1) ELSE j

RECURSIVE strstr(_, _, _)
strstr(haystack, needle, i) ==
  IF Byte(haystack, i) = 0 THEN NULL
  ELSE IF Byte(needle, MatchLength(haystack, needle, i, 0)) = 0 THEN i
  ELSE strstr(haystack, needle, i + 1)

(***************************************************************************)
(* What they have to be                                                    *)
(***************************************************************************)
RECURSIVE AllTokens(_, _, _)
AllTokens(mem, src, delimiters) ==
  LET r == string_token(mem, src, delimiters)
  IN  IF r.token = NULL THEN <<>>
      ELSE <<StringAt(r.mem, r.token)>> \o AllTokens(r.mem, r.saveptr, delimiters)

\* The maximal runs of s without delimiters, in order.
Runs(s, delimiters) ==
  LET starts == {k \in 1 .. Len(s) : s[k] \notin delimiters /\ (k = 1 \/ s[k - 1] \in delimiters)}
      end(k) == CHOOSE e \in k .. Len(s) : /\ \A i \in k .. e : s[i] \notin delimiters
                                           /\ e = Len(s) \/ s[e + 1] \in delimiters
      order == SetToSortSeq(starts, LAMBDA a, b : a < b)
  IN  [i \in 1 .. Len(order) |-> SubSeq(s, order[i], end(order[i]))]

\* Searching: reading words finds the end of the string where reading bytes does,
\* from any alignment and whatever lies behind the string, and finds no character
\* in a wrong place (it may miss one in the last word of n); calling strtok to the
\* end gives the runs between delimiters and an end; the spans, strchr, strrchr and
\* strstr find their place, strstr if the haystack is not empty.
SearchesAreRight(s, behind, offset, delimiters, needle) ==
  LET mem == Zeros(offset) \o s \o <<0>> \o behind
      places == {i \in 0 .. Len(s) - Len(needle) : SubSeq(s, i + 1, i + Len(needle)) = needle}
      found == strstr(s \o <<0>>, needle \o <<0>>, 0)
      cut == complementary_span(mem, offset, delimiters)
      ch == CHOOSE d \in delimiters : \A e \in delimiters : d <= e
      last == Len(s) + Len(behind) - WordSize
  IN  /\ string_length_wide_read(mem, offset) = Len(s)
      /\ \A n \in 0 .. last :
           LET narrow == find_first_character_byte_read(mem, offset, ch, n)
           IN  /\ find_first_character_wide_read(mem, offset, ch, n) \in {narrow, NULL}
               /\ narrow # NULL /\ narrow + WordSize < offset + n =>
                    find_first_character_wide_read(mem, offset, ch, n) = narrow
               /\ strnlen(mem, offset, n) = Least2(n, Len(s))
      /\ LET hits == {k \in 1 .. Len(s) : s[k] = ch}
             first == strchr(mem, offset, ch)
             last_hit == strrchr(mem, offset, ch, NULL)
         IN  IF hits = {} THEN first = NULL /\ last_hit = NULL
             ELSE /\ first - offset + 1 \in hits /\ last_hit - offset + 1 \in hits
                  /\ \A k \in hits : first < offset + k /\ offset + k <= last_hit + 1
      /\ AllTokens(mem, offset, delimiters) = Runs(s, delimiters)
      /\ \A k \in 1 .. cut : s[k] \notin delimiters
      /\ IF cut < Len(s) THEN s[cut + 1] \in delimiters /\ strpbrk(mem, offset, delimiters) = offset + cut
         ELSE strpbrk(mem, offset, delimiters) = NULL
      /\ LET n == strspn(mem, offset, delimiters)
         IN  /\ \A k \in 1 .. n : s[k] \in delimiters
             /\ n = Len(s) \/ s[n + 1] \notin delimiters
      /\ s # <<>> => IF places = {} THEN found = NULL
                     ELSE found \in places /\ \A i \in places : found <= i

\* Copying with a limit: strlcpy and strlcat write inside size bytes, leave a
\* terminated string that is as much of the whole as fits and answer its full
\* length; strncat appends at most count bytes and one terminator.
CopiesAreBounded(s, t, size, room) ==
  LET dst == t \o <<0>> \o [k \in 1 .. room |-> 7]
      src == s \o <<0>>
      cpy == strlcpy(dst, 0, src, size)
      cat == strlcat(dst, src, size)
      whole == t \o s
      same(d, n) == SubSeq(d, n + 1, Len(d)) = SubSeq(dst, n + 1, Len(dst))
      add == Least2(size, Len(s))
  IN  /\ size <= Len(dst) =>
           /\ cpy[2] = Len(s) /\ same(cpy[1], size)
           /\ size > 0 => StringAt(cpy[1], 0) = SubSeq(s, 1, Least2(Len(s), size - 1))
           /\ same(cat[1], size)
           /\ IF size > Len(t)
              THEN /\ cat[2] = Len(whole)
                   /\ StringAt(cat[1], 0) = SubSeq(whole, 1, Least2(Len(whole), size - 1))
              ELSE cat = <<dst, size + Len(s)>>
      /\ Len(t) + add + 1 <= Len(dst) =>
           /\ StringAt(strncat(dst, src, size), 0) = t \o SubSeq(s, 1, add)
           /\ same(strncat(dst, src, size), Len(t) + add + 1)
=============================================================================
