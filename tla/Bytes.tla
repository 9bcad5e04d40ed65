------------------------------- MODULE Bytes --------------------------------
(***************************************************************************)
(* Sequences of bytes as contents of a file; positions count from 0.       *)
(***************************************************************************)
EXTENDS Integers, Sequences

Hole == 0                 \* what a write beyond the end leaves in between

\* s with d written over it from position k on; nothing to write changes nothing.
Overlay(s, k, d) ==
  [n \in 1 .. (IF d # <<>> /\ k + Len(d) > Len(s) THEN k + Len(d) ELSE Len(s)) |->
     IF n \in k + 1 .. k + Len(d) THEN d[n - k]
     ELSE IF n <= Len(s) THEN s[n] ELSE Hole]

\* What follows position k.
From(s, k) == IF k < 0 THEN s ELSE SubSeq(s, k + 1, Len(s))

Least(a, b) == IF a < b THEN a ELSE b
=============================================================================
