------------------------------ MODULE Sorting -------------------------------
(***************************************************************************)
(* qsort and bsearch: src/stdlib/qsort.cpp and src/stdlib/bsearch.cpp.     *)
(* Arrays are sequences, indices count from 0 as in the code.  An element  *)
(* is a pair <<key, tag>>: the comparator sees the key only, and the tags  *)
(* tell apart elements that compare equal.                                 *)
(***************************************************************************)
EXTENDS Integers, Sequences, SequencesExt

get(a, i) == a[i + 1]

swap(a, i, j) == [a EXCEPT ![i + 1] = a[j + 1], ![j + 1] = a[i + 1]]

\* The comparator of the client: the difference of the keys.
compare(x, y) == x[1] - y[1]

OutOfBounds == <<-1, <<>>>>

\* The two inner loops: how far i goes up and j goes down.  They leave the array
\* only if no element stops them.
RECURSIVE Up(_, _, _), Down(_, _, _)
Up(a, i, p) ==
  IF i >= Len(a) THEN i
  ELSE IF i # p /\ compare(get(a, i), get(a, p)) < 0 THEN Up(a, i + 1, p) ELSE i
Down(a, j, p) ==
  IF j < 0 THEN j
  ELSE IF j # p /\ compare(get(a, j), get(a, p)) > 0 THEN Down(a, j - 1, p) ELSE j

\* One round of partition's loop from i, j with the pivot at index p; returns the
\* split index and the array.
RECURSIVE PartitionLoop(_, _, _, _)
PartitionLoop(a, i0, j0, p) ==
  LET i == Up(a, i0, p)
      j == Down(a, j0, p)
      b == swap(a, i, j)
      q == IF i = p THEN j ELSE IF j = p THEN i ELSE p
      both == compare(get(a, i), get(a, p)) = 0 /\ compare(get(a, j), get(a, p)) = 0
  IN  IF i >= Len(a) \/ j < 0 THEN OutOfBounds
      ELSE IF i >= j THEN <<j + 1, a>>
      ELSE IF both THEN PartitionLoop(b, i + 1, j - 1, q) ELSE PartitionLoop(b, i, j, q)

\* Mutant: the pivot is not followed when it is swapped.
RECURSIVE PartitionLoopStill(_, _, _, _)
PartitionLoopStill(a, i0, j0, p) ==
  LET i == Up(a, i0, p)
      j == Down(a, j0, p)
      b == swap(a, i, j)
      both == compare(get(a, i), get(a, p)) = 0 /\ compare(get(a, j), get(a, p)) = 0
  IN  IF i >= Len(a) \/ j < 0 THEN OutOfBounds
      ELSE IF i >= j THEN <<j + 1, a>>
      ELSE IF both THEN PartitionLoopStill(b, i + 1, j - 1, p)
      ELSE PartitionLoopStill(b, i, j, p)

partition_unfollowed(a) == PartitionLoopStill(a, 0, Len(a) - 1, Len(a) \div 2)

partition(a) == PartitionLoop(a, 0, Len(a) - 1, Len(a) \div 2)

\* depth bounds the recursion: a call that does not get there has not ended.
RECURSIVE quicksort(_, _)
quicksort(a, depth) ==
  LET r == partition(a)
      split == r[1]
  IN  IF Len(a) <= 1 THEN a
      ELSE IF depth = 0 \/ r = OutOfBounds THEN <<>>
      ELSE IF Len(a) <= 2 THEN r[2]
      ELSE quicksort(SubSeq(r[2], 1, split), depth - 1) \o
           quicksort(SubSeq(r[2], split + 1, Len(a)), depth - 1)

qsort(a) == IF a = <<>> THEN a ELSE quicksort(a, 2 * Len(a))

\* The index of an element equal to key, or -1; first is where |array| points.
RECURSIVE bsearch(_, _, _, _)
bsearch(key, a, first, size) ==
  LET mid == size \div 2
      c == compare(<<key>>, get(a, first + mid))
  IN  IF size = 0 THEN -1
      ELSE IF c = 0 THEN first + mid
      ELSE IF c < 0 THEN bsearch(key, a, first, mid)
      ELSE bsearch(key, a, first + mid + 1, size - (mid + 1))

(***************************************************************************)
(* What they are for                                                       *)
(***************************************************************************)
SortedByKey(a) == \A i, j \in 1 .. Len(a) : i < j => a[i][1] <= a[j][1]

\* qsort, for every array: the loops of partition stay inside the array, the
\* recursion ends, and the result is the array in order, no element lost or
\* repeated; bsearch finds a key in it exactly when it is there.
SortsAndFinds(a) ==
  LET s == qsort(a)
  IN  /\ Len(s) = Len(a) /\ ToSet(s) = ToSet(a) /\ SortedByKey(s)
      /\ \A key \in 0 .. 4 :
           LET found == bsearch(key, s, 0, Len(s))
           IN  IF \E e \in ToSet(a) : e[1] = key
               THEN found # -1 /\ get(s, found)[1] = key ELSE found = -1
=============================================================================
