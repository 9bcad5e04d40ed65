------------------------------ MODULE WideInt -------------------------------
(***************************************************************************)
(* cpp::UInt<Bits> of src/__support/UInt.h: integers of several words.  A  *)
(* number is the sequence of its words, least significant first.  A word   *)
(* has WordBits bits instead of 64.  Numbers of two words are UInt<128>,   *)
(* whose shifts are those of the built-in type.                            *)
(***************************************************************************)
EXTENDS Integers, Sequences, SequencesExt

CONSTANT WordBits

Base == 2 ^ WordBits

Words(n) == [1 .. n -> 0 .. Base - 1]

Number(v, n) == [i \in 1 .. n |-> (v \div Base ^ (i - 1)) % Base]

\* The words of r and the carry or borrow of the last one.
add(a, x) ==
  FoldLeft(LAMBDA s, i : LET t == a[i] + x[i] + s.carry
                         IN  [val |-> Append(s.val, t % Base), carry |-> t \div Base],
           [val |-> <<>>, carry |-> 0], [i \in 1 .. Len(a) |-> i])

sub(a, x) ==
  FoldLeft(LAMBDA s, i : LET t == a[i] - x[i] - s.carry
                         IN  [val |-> Append(s.val, t % Base), carry |-> IF t < 0 THEN 1 ELSE 0],
           [val |-> <<>>, carry |-> 0], [i \in 1 .. Len(a) |-> i])

(***************************************************************************)
(* Multiplication, column by column.  partial_sum is two words and a carry *)
(***************************************************************************)
\* Mutant: the carry out of the two words of partial_sum is dropped.
AccumulateNoCarry(s, p) ==
  LET lo == s.lo + (p % Base)
      hi == s.hi + (p \div Base) + (lo \div Base)
  IN  [lo |-> lo % Base, hi |-> hi % Base, carry |-> s.carry]

Accumulate(s, p) ==
  LET lo == s.lo + (p % Base)
      hi == s.hi + (p \div Base) + (lo \div Base)
  IN  [lo |-> lo % Base, hi |-> hi % Base, carry |-> s.carry + (hi \div Base)]

\* The products a[j] * b[i - j] that belong to column i, added to partial_sum.
Column(a, b, i, s) ==
  LET lower == IF i < Len(b) THEN 0 ELSE i - Len(b) + 1
      upper == IF i < Len(a) THEN i ELSE Len(a) - 1
  IN  FoldLeft(LAMBDA t, j : Accumulate(t, a[j + 1] * b[i - j + 1]), s,
               [k \in 1 .. upper - lower + 1 |-> lower + k - 1])

NextColumn(s) == [lo |-> s.hi, hi |-> s.carry, carry |-> 0]

RECURSIVE Columns(_, _, _, _, _)
Columns(a, b, i, last, s) ==
  IF i > last THEN <<s.lo, s.hi>>
  ELSE LET c == Column(a, b, i, s)
       IN  <<c.lo>> \o Columns(a, b, i + 1, last, NextColumn(c))

NoSum == [lo |-> 0, hi |-> 0, carry |-> 0]

\* The carry that mul returns is the upper word of partial_sum (see the README).
mul(a, x) ==
  LET c == Columns(a, <<x>>, 0, Len(a) - 1, NoSum)
  IN  [val |-> SubSeq(c, 1, Len(a)), carry |-> c[Len(a) + 2]]

times(a, b) == SubSeq(Columns(a, b, 0, Len(a) - 1, NoSum), 1, Len(a))

ful_mul(a, b) ==
  SubSeq(Columns(a, b, 0, Len(a) + Len(b) - 2, NoSum), 1, Len(a) + Len(b))

\* Only the columns from Len(a) - 1 on; the first of them gives its carry only.
RECURSIVE HighColumns(_, _, _, _)
HighColumns(a, b, i, s) ==
  IF i > 2 * Len(a) - 2 THEN <<s.hi>>
  ELSE LET c == Column(a, b, i, NextColumn(s))
       IN  <<c.lo>> \o HighColumns(a, b, i + 1, c)

quick_mul_hi(a, b) == HighColumns(a, b, Len(a), Column(a, b, Len(a) - 1, NoSum))

RECURSIVE PowLoop(_, _, _)
PowLoop(result, cur_power, power) ==
  IF power = 0 THEN result
  ELSE PowLoop(IF power % 2 > 0 THEN times(result, cur_power) ELSE result,
               times(cur_power, cur_power), power \div 2)

pow_n(a, power) == PowLoop(Number(1, Len(a)), a, power)

(***************************************************************************)
(* Order, shifts and division                                              *)
(***************************************************************************)
less(a, b) ==
  \E i \in 1 .. Len(a) : a[i] < b[i] /\ \A k \in i + 1 .. Len(a) : a[k] = b[k]

clz(a) ==
  LET top == {i \in 1 .. Len(a) : a[i] # 0}
      i == CHOOSE k \in top : \A j \in top : j <= k
      width == CHOOSE w \in 1 .. WordBits : a[i] \in 2 ^ (w - 1) .. 2 ^ w - 1
  IN  IF top = {} THEN Len(a) * WordBits ELSE (Len(a) - i) * WordBits + WordBits - width

\* v >> (WordBits - shift).  With shift = 0 the code shifts by the whole width,
\* which C++ leaves undefined: |masked| tells a build whose shift takes the count
\* modulo the width from one that fuses the two shifts.
UpperBits(v, shift, masked) ==
  IF shift = 0 THEN (IF masked THEN v ELSE 0) ELSE v \div 2 ^ (WordBits - shift)

\* v << shift, joined with the bits that come from the word below; the fields are
\* disjoint unless the undefined shift left something there.
Joined(v, below, shift, masked) ==
  LET high == (v * 2 ^ shift) % Base
      low == UpperBits(below, shift, masked)
  IN  IF shift # 0 \/ ~masked THEN high + low
      ELSE CHOOSE r \in 0 .. Base - 1 :
             \A k \in 0 .. WordBits - 1 :
               (r \div 2 ^ k) % 2 = 1 <=> \/ (high \div 2 ^ k) % 2 = 1
                                          \/ (low \div 2 ^ k) % 2 = 1

shift_left(a, s, masked) ==
  LET drop == s \div WordBits
      shift == s % WordBits
  IN  IF Len(a) = 2 THEN Number((a[1] + a[2] * Base) * 2 ^ s, 2)
      ELSE [i \in 1 .. Len(a) |->
              IF i <= drop THEN 0
              ELSE IF i = drop + 1 THEN (a[1] * 2 ^ shift) % Base
              ELSE Joined(a[i - drop], a[i - drop - 1], shift, masked)]

shift_right(a, s) ==
  LET drop == s \div WordBits
      shift == s % WordBits
  IN  IF Len(a) = 2 THEN Number((a[1] + a[2] * Base) \div 2 ^ s, 2)
      ELSE [i \in 1 .. Len(a) |->
              IF i + drop > Len(a) THEN 0
              ELSE IF shift = 0 THEN a[i + drop]
              ELSE (a[i + drop] \div 2 ^ shift) +
                   (IF i + drop = Len(a) THEN 0
                    ELSE (a[i + drop + 1] * 2 ^ (WordBits - shift)) % Base)]

RECURSIVE DivLoop(_, _, _, _)
DivLoop(a, subtractor, quotient, cur_bit) ==
  LET n == Len(a)
      fits == ~less(a, subtractor)
  IN  IF cur_bit < 0 \/ a = Number(0, n) THEN [quotient |-> quotient, remainder |-> a]
      ELSE DivLoop(IF fits THEN sub(a, subtractor).val ELSE a, shift_right(subtractor, 1),
                   IF fits THEN add(quotient, shift_left(Number(1, n), cur_bit, FALSE)).val
                   ELSE quotient, cur_bit - 1)

\* Division by zero has no answer (nullopt).
div(a, other) ==
  LET n == Len(a)
      cur_bit == clz(other) - clz(a)
  IN  IF less(a, other) THEN [quotient |-> Number(0, n), remainder |-> a]
      ELSE IF other = Number(1, n) THEN [quotient |-> a, remainder |-> Number(0, n)]
      ELSE DivLoop(a, shift_left(other, cur_bit, FALSE), Number(0, n), cur_bit)

(***************************************************************************)
(* What the class is for                                                   *)
(***************************************************************************)
Value(a) == FoldRight(LAMBDA w, sum : sum * Base + w, a, 0)

\* Arithmetic on the words is arithmetic on the numbers modulo 2^Bits: sums and
\* differences with their carries, the short, the truncated and the full product,
\* powers, order, shifts by less than a word's multiple, and, for UInt<128>,
\* quotient and remainder; quick_mul_hi is at most WordCount - 1 too small.
ExactArithmetic(a, b) ==
  LET n == Len(a)
      x == Value(a)
      y == Value(b)
      range == Base ^ n
      high == ((x * y) \div range) - Value(quick_mul_hi(a, b))
  IN  /\ Value(add(a, b).val) + range * add(a, b).carry = x + y
      /\ Value(sub(a, b).val) - range * sub(a, b).carry = x - y
      /\ Value(times(a, b)) = (x * y) % range
      /\ Value(ful_mul(a, b)) = x * y
      /\ Value(mul(a, b[1]).val) = (x * b[1]) % range
      /\ high \in 0 .. n - 1
      /\ less(a, b) <=> x < y
      /\ \A p \in 1 .. 3 : Value(pow_n(a, p)) = (x ^ p) % range
      /\ LET s == y % (n * WordBits)
         IN  /\ Value(shift_right(a, s)) = x \div 2 ^ s
             /\ s % WordBits # 0 \/ n = 2 =>
                  \A masked \in BOOLEAN : Value(shift_left(a, s, masked)) = (x * 2 ^ s) % range
      /\ n = 2 /\ y # 0 =>
           Value(div(a, b).quotient) = x \div y /\ Value(div(a, b).remainder) = x % y
=============================================================================
