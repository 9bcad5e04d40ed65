------------------------------- MODULE Memory -------------------------------
(***************************************************************************)
(* memcpy, memset, memmove, memcmp and bcmp of src/string/memory_utils, at *)
(* their real sizes.  A function is the plan it follows: the blocks of     *)
(* bytes it touches, by their offset from the start of the operands, in    *)
(* the order in which it touches them.  An address is a number, of which   *)
(* only the alignment matters.                                             *)
(*                                                                         *)
(* A byte is 0 or 1, and a buffer is the set of the offsets that hold 1.   *)
(***************************************************************************)
EXTENDS Integers, Sequences, SequencesExt, FiniteSetsExt

SIZE_MODULUS == 4096             \* size_t is modulo this

Block(at, size) == [at |-> at, size |-> size]

distance_to_next_aligned(alignment, ptr) == alignment - (ptr % alignment)

(***************************************************************************)
(* The building blocks                                                     *)
(***************************************************************************)
head_tail(size, at, count) == <<Block(at, size), Block(at + count - size, size)>>

\* Mutant: the loop goes on to the end of the buffer.
loop_and_tail_whole(size, at, count) ==
  LET rounds == Max({1, ((count % SIZE_MODULUS) + size - 1) \div size})
  IN  Append([k \in 1 .. rounds |-> Block(at + (k - 1) * size, size)],
             Block(at + count - size, size))

\* Whole blocks as long as more than one is left, at least one, then the last
\* size bytes.
loop_and_tail(size, at, count) ==
  LET rounds == Max({1, (((count - size) % SIZE_MODULUS) + size - 1) \div size})
  IN  Append([k \in 1 .. rounds |-> Block(at + (k - 1) * size, size)],
             Block(at + count - size, size))

\* A block larger than the largest native type is an array of that type.
Elements(max, b) ==
  IF b.size > max /\ b.size % max = 0
  THEN [k \in 1 .. b.size \div max |-> Block(b.at + (k - 1) * max, max)]
  ELSE <<b>>

\* Memset's block of three bytes is one byte and two.
Memset_block(max, b) ==
  IF b.size = 3 THEN <<Block(b.at + 2, 1), Block(b.at, 2)>> ELSE Elements(max, b)

\* The functions for small machines.
Bytewise(count) == [k \in 1 .. count |-> Block(k - 1, 1)]

(***************************************************************************)
(* memcpy and memset                                                       *)
(***************************************************************************)
\* What is left once the pointer ptr is at its next boundary.
AlignedLoop(alignment, ptr, size, count) ==
  LET d == distance_to_next_aligned(alignment, ptr) IN loop_and_tail(size, d, count - d)

inline_memcpy_x86(kAvx, dst, count) ==
  CASE count = 0 -> <<>>
    [] count \in 1 .. 4 -> <<Block(0, count)>>
    [] count \in 5 .. 7 -> head_tail(4, 0, count)
    [] count \in 8 .. 15 -> head_tail(8, 0, count)
    [] count \in 16 .. 31 -> head_tail(16, 0, count)
    [] count \in 32 .. 63 -> head_tail(32, 0, count)
    [] count \in 64 .. 127 -> head_tail(64, 0, count)
    [] kAvx /\ count \in 128 .. 255 -> head_tail(128, 0, count)
    [] OTHER -> <<Block(0, 32)>> \o AlignedLoop(32, dst, IF kAvx THEN 64 ELSE 32, count)

inline_memcpy_aarch64(src, count) ==
  CASE count = 0 -> <<>>
    [] count \in 1 .. 4 -> <<Block(0, count)>>
    [] count \in 5 .. 7 -> head_tail(4, 0, count)
    [] count \in 8 .. 15 -> head_tail(8, 0, count)
    [] count \in 16 .. 31 -> head_tail(16, 0, count)
    [] count \in 32 .. 63 -> head_tail(32, 0, count)
    [] count \in 64 .. 127 -> head_tail(64, 0, count)
    [] OTHER -> <<Block(0, 16)>> \o AlignedLoop(16, src, 64, count)

MemsetPlan_x86(dst, count) ==
  CASE count = 0 -> <<>>
    [] count \in 1 .. 3 -> <<Block(0, count)>>
    [] count \in 4 .. 8 -> head_tail(4, 0, count)
    [] count \in 9 .. 16 -> head_tail(8, 0, count)
    [] count \in 17 .. 32 -> head_tail(16, 0, count)
    [] count \in 33 .. 64 -> head_tail(32, 0, count)
    [] count \in 65 .. 128 -> head_tail(64, 0, count)
    [] OTHER -> <<Block(0, 32)>> \o AlignedLoop(32, dst, 32, count)

\* zva: the value is 0 and the processor clears cache lines of 64 bytes.
MemsetPlan_aarch64(zva, dst, count) ==
  CASE count = 0 -> <<>>
    [] count = 1 -> <<Block(0, 1)>>
    [] count \in 2 .. 3 -> <<Block(0, 1), Block(count - 2, 2)>>
    [] count \in 4 .. 8 -> head_tail(4, 0, count)
    [] count \in 9 .. 16 -> head_tail(8, 0, count)
    [] count \in 17 .. 32 -> head_tail(16, 0, count)
    [] count \in 33 .. 64 -> head_tail(32, 0, count)
    [] count \in 65 .. 96 -> <<Block(0, 32), Block(32, 32), Block(count - 32, 32)>>
    [] zva /\ count >= 448 -> <<Block(0, 64)>> \o AlignedLoop(64, dst, 64, count)
    [] OTHER -> <<Block(0, 16)>> \o AlignedLoop(16, dst, 64, count)

\* The plan in the native types of a machine.
Native(max, plan) == FlattenSeq([k \in 1 .. Len(plan) |-> Memset_block(max, plan[k])])

(***************************************************************************)
(* memmove: loads and stores, each at the same offset from src and dst     *)
(***************************************************************************)
Load(at, size) == [op |-> "load", at |-> at, size |-> size]
Store(at, size) == [op |-> "store", at |-> at, size |-> size]

Moves(at, size) == <<Load(at, size), Store(at, size)>>

Memmove_head_tail(size, at, count) ==
  LET tail == at + count - size
  IN  <<Load(at, size), Load(tail, size), Store(at, size), Store(tail, size)>>

\* The tail is loaded before the loop can overwrite it.
loop_and_tail_forward(size, at, count) ==
  LET body == Front(loop_and_tail(size, at, count))
      tail == at + count - size
  IN  <<Load(tail, size)>> \o FlattenSeq([k \in 1 .. Len(body) |-> Moves(body[k].at, size)])
      \o <<Store(tail, size)>>

loop_and_tail_backward(size, count) ==
  <<Load(0, size)>>
  \o FlattenSeq([k \in 1 .. Max({1, count \div size}) |-> Moves(count - k * size, size)])
  \o <<Store(0, size)>>

\* align_forward: to the boundary of src and one block on, then the loop.
MoveForward(src, count) ==
  LET d == distance_to_next_aligned(32, src) + 32
  IN  Memmove_head_tail(32, 0, d) \o loop_and_tail_forward(64, d, count - d)

\* align_backward: from the boundary after the end of src two blocks back.
MoveBackward(src, count) ==
  LET size == 64 - distance_to_next_aligned(32, src + count)
  IN  Memmove_head_tail(32, count - size, size) \o loop_and_tail_backward(64, count - size)

inline_memmove(dst, src, count) ==
  CASE count = 0 -> <<>>
    [] count = 1 -> Moves(0, 1)
    [] count \in 2 .. 4 -> Memmove_head_tail(2, 0, count)
    [] count \in 5 .. 8 -> Memmove_head_tail(4, 0, count)
    [] count \in 9 .. 16 -> Memmove_head_tail(8, 0, count)
    [] count \in 17 .. 32 -> Memmove_head_tail(16, 0, count)
    [] count \in 33 .. 64 -> Memmove_head_tail(32, 0, count)
    [] count \in 65 .. 128 -> Memmove_head_tail(64, 0, count)
    [] count > 128 /\ dst < src -> MoveForward(src, count)
    [] OTHER -> MoveBackward(src, count)

inline_memmove_embedded_tiny(dst, src, count) ==
  IF dst = src THEN <<>>
  ELSE FlattenSeq([k \in 1 .. count |-> Moves(IF dst < src THEN k - 1 ELSE count - k, 1)])

(***************************************************************************)
(* memcmp and bcmp.  unit is the width of the machine's comparison.        *)
(***************************************************************************)
Byte(p, i) == IF i \in p THEN 1 ELSE 0

\* The number in the bytes of a block, the first byte the most significant.
load_be(p, b) == FoldLeft(LAMBDA v, k : 2 * v + Byte(p, b.at + k - 1), 0, [k \in 1 .. b.size |-> k])

\* The offsets in a block at which the buffers differ.
Mask(p1, p2, b) ==
  {i \in p1 \cup p2 : i >= b.at /\ i < b.at + b.size /\ (i \in p1) # (i \in p2)}

\* The comparison of native integers; of one or two bytes it is the difference.
CompareScalar(p1, p2, b) ==
  LET la == load_be(p1, b)
      lb == load_be(p2, b)
  IN  IF b.size <= 2 THEN la - lb ELSE IF la > lb THEN 1 ELSE IF la < lb THEN -1 ELSE 0

\* The first differing byte of a vector.
char_diff_no_zero(p1, p2, b) ==
  LET i == Min(Mask(p1, p2, b)) IN Byte(p1, i) - Byte(p2, i)

\* An array of units: the first that differs is compared.
Memcmp_block(unit, p1, p2, b) ==
  LET parts == IF b.size = 3 THEN <<Block(b.at, 2), Block(b.at + 2, 1)>> ELSE Elements(unit, b)
      k == SelectInSeq(parts, LAMBDA e : Mask(p1, p2, e) # {})
  IN  IF k = 0 THEN 0
      ELSE IF unit <= 8 \/ parts[k].size <= 8 THEN CompareScalar(p1, p2, parts[k])
      ELSE char_diff_no_zero(p1, p2, parts[k])

\* The first block that compares unequal has the result.
Follow(unit, plan, p1, p2) ==
  LET k == SelectInSeq(plan, LAMBDA b : Memcmp_block(unit, p1, p2, b) # 0)
  IN  IF k = 0 THEN 0 ELSE Memcmp_block(unit, p1, p2, plan[k])

\* Up to 16 bytes.
MemcmpSmall(count) ==
  CASE count = 0 -> <<>>
    [] count \in 1 .. 3 -> <<Block(0, count)>>
    [] count \in 4 .. 8 -> head_tail(4, 0, count)
    [] OTHER -> head_tail(8, 0, count)

\* A loop, which a block and an alignment precede from threshold bytes on.
AlignedFrom(threshold, first, alignment, p1, size, count) ==
  IF count >= threshold THEN <<Block(0, first)>> \o AlignedLoop(alignment, p1, size, count)
  ELSE loop_and_tail(size, 0, count)

\* The generic functions and those for SSE2: unit is 8 and 16.
MemcmpPlan_gt16(p1, count) == AlignedFrom(384, 16, 16, p1, 16, count)

\* AVX2 and AVX512BW: unit is 32 and 64.
MemcmpPlan_avx(unit, p1, count) ==
  CASE count <= 32 -> head_tail(16, 0, count)
    [] count \in 33 .. 64 -> head_tail(32, 0, count)
    [] count \in 65 .. 128 -> head_tail(64, 0, count)
    [] OTHER -> AlignedFrom(384, unit, unit, p1, unit, count)

MemcmpPlan_neon(p1, count) ==
  CASE count < 32 -> head_tail(16, 0, count)
    [] count \in 32 .. 63 -> <<Block(0, 16), Block(16, 16), Block(count - 32, 32)>>
    [] count \in 64 .. 127 -> <<Block(0, 16), Block(16, 16)>> \o loop_and_tail(16, 32, count - 32)
    [] OTHER -> <<Block(0, 16)>> \o AlignedLoop(16, p1, 32, count)

\* <<unit, plan>> of the builds.
MemcmpBuilds(p1, count) ==
  IF count <= 16 THEN {<<8, MemcmpSmall(count)>>, <<8, Bytewise(count)>>}
  ELSE {<<8, MemcmpPlan_gt16(p1, count)>>, <<16, MemcmpPlan_gt16(p1, count)>>,
        <<32, MemcmpPlan_avx(32, p1, count)>>, <<64, MemcmpPlan_avx(64, p1, count)>>,
        <<8, MemcmpPlan_neon(p1, count)>>}

\* bcmp
BcmpSmall_x86(count) ==
  CASE count = 0 -> <<>>
    [] count \in 1 .. 2 -> <<Block(0, count)>>
    [] count \in 3 .. 4 -> head_tail(2, 0, count)
    [] count \in 5 .. 8 -> head_tail(4, 0, count)
    [] OTHER -> head_tail(8, 0, count)

BcmpPlan_generic(p1, count) ==
  IF count < 256 THEN loop_and_tail(16, 0, count)
  ELSE <<Block(0, 64)>> \o AlignedLoop(64, p1, 64, count)

BcmpPlan_sse2(p1, count) ==
  CASE count <= 32 -> head_tail(16, 0, count)
    [] count \in 33 .. 255 -> loop_and_tail(16, 0, count)
    [] OTHER -> <<Block(0, 16)>> \o AlignedLoop(16, p1, 64, count)

BcmpPlan_avx(p1, count) ==
  CASE count <= 32 -> head_tail(16, 0, count)
    [] count \in 33 .. 64 -> head_tail(32, 0, count)
    [] count \in 65 .. 128 -> head_tail(64, 0, count)
    [] OTHER -> AlignedFrom(256, 64, 64, p1, 64, count)

BcmpPlan_aarch64(p1, count) ==
  CASE count = 0 -> <<>>
    [] count \in {1, 2, 4, 8} -> <<Block(0, count)>>
    [] count = 3 -> head_tail(2, 0, count)
    [] count \in 5 .. 7 -> head_tail(4, 0, count)
    [] count \in 9 .. 15 -> head_tail(8, 0, count)
    [] count \in 16 .. 32 -> head_tail(16, 0, count)
    [] count \in 33 .. 64 -> head_tail(32, 0, count)
    [] OTHER -> AlignedFrom(257, 32, 16, p1, 32, count)

BcmpBuilds(p1, count) ==
  {BcmpPlan_aarch64(p1, count)}
  \cup IF count <= 16 THEN {BcmpSmall_x86(count), Bytewise(count)}
       ELSE {BcmpPlan_generic(p1, count), BcmpPlan_sse2(p1, count), BcmpPlan_avx(p1, count)}

(***************************************************************************)
(* What the functions should do                                            *)
(***************************************************************************)
\* The blocks lie inside the count bytes and leave none out: one begins at the first
\* byte, and where one ends another goes on, but for the last byte.
Covers(blocks, count) ==
  /\ \A b \in blocks : b.at >= 0 /\ b.at + b.size <= count
  /\ count > 0 => \E b \in blocks : b.at = 0
  /\ \A b \in blocks :
       b.at + b.size # count => \E c \in blocks : c.at <= b.at + b.size /\ b.at + b.size < c.at + c.size

\* Every byte is written and no other is touched, on every machine and from every
\* address.
WritesItsBytes(ptr, count) ==
  /\ \A kAvx \in BOOLEAN : Covers(ToSet(inline_memcpy_x86(kAvx, ptr, count)), count)
  /\ Covers(ToSet(inline_memcpy_aarch64(ptr, count)), count)
  /\ count <= 16 => Covers(ToSet(Bytewise(count)), count)
  /\ \A max \in {8, 16, 32, 64} : Covers(ToSet(Native(max, MemsetPlan_x86(ptr, count))), count)
  /\ \A max \in {8, 16}, zva \in BOOLEAN :
       Covers(ToSet(Native(max, MemsetPlan_aarch64(zva, ptr, count))), count)

\* Before a block is loaded no byte of it has been overwritten: dst = src + delta.
LoadsOriginals(plan, delta) ==
  \A j \in 1 .. Len(plan) : plan[j].op = "load" =>
    \A i \in 1 .. j - 1 : plan[i].op = "store" =>
      \/ plan[i].at + delta >= plan[j].at + plan[j].size
      \/ plan[j].at >= plan[i].at + delta + plan[i].size

Accesses(plan, op) == {Block(e.at, e.size) : e \in {f \in ToSet(plan) : f.op = op}}

\* What is stored has been loaded, and all of it is stored.
MovesAll(plan, count) ==
  /\ Covers(Accesses(plan, "store"), count)
  /\ \A j \in 1 .. Len(plan) : plan[j].op = "store" =>
       \E i \in 1 .. j - 1 : plan[i] = Load(plan[j].at, plan[j].size)

\* memmove moves the bytes that were there, however the buffers overlap.
MovesOriginals(src, delta, count) ==
  LET plan == inline_memmove(src + delta, src, count)
      tiny == inline_memmove_embedded_tiny(src + delta, src, count)
  IN  /\ MovesAll(plan, count)
      /\ delta # 0 => LoadsOriginals(plan, delta)
      /\ count <= 40 /\ delta # 0 => MovesAll(tiny, count) /\ LoadsOriginals(tiny, delta)

Sign(v) == IF v > 0 THEN 1 ELSE IF v < 0 THEN -1 ELSE 0

\* memcmp has the sign of the first difference, wherever the next one is.
FindsFirst(unit, plan, count, first, second) ==
  LET result == IF first < count THEN 1 ELSE 0
  IN  /\ Sign(Follow(unit, plan, {first}, {second})) = result
      /\ Sign(Follow(unit, plan, {second}, {first})) = -result

\* bcmp sees a difference anywhere, and the offsets first and second are found in their
\* order; an offset of count or more lies behind the buffers.
ComparesBytes(ptr, count, places, gaps) ==
  /\ \A b \in MemcmpBuilds(ptr, count) : \A first \in places, gap \in gaps :
       FindsFirst(b[1], b[2], count, first, first + gap)
  /\ \A plan \in BcmpBuilds(ptr, count) : \A first \in places :
       (\E b \in ToSet(plan) : Mask({first}, {}, b) # {}) <=> first < count

\* The comparisons read the count bytes and no other.
ReadsItsBytes(ptr, count) ==
  /\ \A b \in MemcmpBuilds(ptr, count) : Covers(ToSet(b[2]), count)
  /\ \A plan \in BcmpBuilds(ptr, count) : Covers(ToSet(plan), count)
=============================================================================
