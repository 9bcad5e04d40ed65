-------------------------------- MODULE Dir --------------------------------
(***************************************************************************)
(* Dir of src/__support/File/dir.cpp over linux_dir.cpp: readdir hands out *)
(* the records of a buffer that getdents refills.                          *)
(*                                                                         *)
(* A directory is the sequence of the sizes of its records (d_reclen).     *)
(* The buffer is a sequence of bytes <<k, i>>, byte i of record k; bytes   *)
(* of earlier fetches stay.  offset, the kernel's, is how many records it  *)
(* has handed out.  Each call of getdents takes its outcome from a list:   *)
(* "full", as many records as fit, "one", or "fails".                      *)
(* The lock around read and close makes each a single step, and a Dir is   *)
(* closed once; malloc's failure is not handled by the code.               *)
(***************************************************************************)
EXTENDS Integers, Sequences

CONSTANT BUFSIZE

Byte(k, i) == <<k, i>>

open(fd) ==
  IF fd < 0 THEN <<>>
  ELSE <<[fd |-> fd, readptr |-> 0, fillsize |-> 0, offset |-> 0,
          buffer |-> [b \in 1 .. BUFSIZE |-> Byte(0, 0)]]>>

(***************************************************************************)
(* The kernel: the bytes of the records that follow offset                 *)
(***************************************************************************)
RECURSIVE Fetched(_, _, _, _)
Fetched(sizes, k, room, most) ==
  IF k > Len(sizes) \/ most = 0 \/ sizes[k] > room THEN <<>>
  ELSE [i \in 1 .. sizes[k] |-> Byte(k, i)] \o Fetched(sizes, k + 1, room - sizes[k], most - 1)

platform_fetch_dirents(sizes, offset, outcome) ==
  IF outcome = "fails" THEN <<>>
  ELSE Fetched(sizes, offset + 1, BUFSIZE, IF outcome = "one" THEN 1 ELSE Len(sizes))

(***************************************************************************)
(* read: <<dir, the byte the result points at, whether it fetched>>, where *)
(* byte <<0, 0>> stands for a null result                                  *)
(***************************************************************************)
\* Mutant: the read pointer is reset before the fetch is known to have got something,
\* and the fill size only after.
Refilled_rewinds(dir, bytes) ==
  IF bytes = <<>> THEN [dir EXCEPT !.readptr = 0]
  ELSE [dir EXCEPT !.fillsize = Len(bytes), !.readptr = 0, !.offset = bytes[Len(bytes)][1],
                   !.buffer = bytes \o SubSeq(@, Len(bytes) + 1, BUFSIZE)]

Refilled(dir, bytes) ==
  IF bytes = <<>> THEN [dir EXCEPT !.fillsize = 0]
  ELSE [dir EXCEPT !.fillsize = Len(bytes), !.readptr = 0, !.offset = bytes[Len(bytes)][1],
                   !.buffer = bytes \o SubSeq(@, Len(bytes) + 1, BUFSIZE)]

ReadFrom(dir, sizes, fetched) ==
  LET d == dir.buffer[dir.readptr + 1]
  IN  IF fetched /\ dir.fillsize = 0 THEN <<dir, Byte(0, 0), TRUE>>
      ELSE <<[dir EXCEPT !.readptr = @ + sizes[d[1]]], d, fetched>>

read(dir, sizes, outcome) ==
  IF dir.readptr >= dir.fillsize
  THEN ReadFrom(Refilled(dir, platform_fetch_dirents(sizes, dir.offset, outcome)), sizes, TRUE)
  ELSE ReadFrom(dir, sizes, FALSE)

(***************************************************************************)
(* Properties                                                              *)
(***************************************************************************)
\* From the k-th record on, readdir gives the records in order, each once and from its
\* first byte, and null exactly at the end and when getdents fails, after which it goes
\* on where it was.
RECURSIVE ReadsFrom(_, _, _, _)
ReadsFrom(result, sizes, k, outcomes) ==
  LET isNull == result[2] = Byte(0, 0)
      left == IF result[3] THEN Tail(outcomes) ELSE outcomes
  IN  /\ IF result[3] /\ (outcomes[1] = "fails" \/ k > Len(sizes)) THEN isNull
         ELSE result[2] = Byte(k, 1)
      /\ left # <<>> => ReadsFrom(read(result[1], sizes, left[1]), sizes,
                                  IF isNull THEN k ELSE k + 1, left)

ReadsDirectory(sizes, outcomes) ==
  \A dir \in {open(3)[1]} : ReadsFrom(read(dir, sizes, outcomes[1]), sizes, 1, outcomes)
=============================================================================
