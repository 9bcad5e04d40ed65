----------------------------- MODULE BlockStore -----------------------------
(***************************************************************************)
(* cpp::BlockStore of src/__support/blockstore.h, the list that keeps the  *)
(* exit handlers, in both orders.                                          *)
(*                                                                         *)
(* A block is an address: First is the one inside the store, the others    *)
(* come from malloc, which hands freed ones out again.  next and data are  *)
(* functions on the blocks that exist.  bad is set by what the code        *)
(* asserts not to happen and by a free of what is not on the heap.         *)
(***************************************************************************)
EXTENDS Integers, Sequences, FiniteSets, Functions, TLC

CONSTANT BLOCK_SIZE

Null == -1
First == 0

EmptyBlock == [i \in 0 .. BLOCK_SIZE - 1 |-> 0]

NewStore(reverse) ==
  [reverse |-> reverse, data |-> First :> EmptyBlock, next |-> First :> Null,
   current |-> First, fill_count |-> 0, bad |-> FALSE]

malloc(s) == CHOOSE b \in 1 .. Cardinality(DOMAIN s.data) : b \notin DOMAIN s.data

free(s, b) ==
  [s EXCEPT !.data = Restrict(@, DOMAIN @ \ {b}), !.next = Restrict(@, DOMAIN @ \ {b}),
            !.bad = @ \/ b \notin DOMAIN s.data \ {First}]

\* <<the last block, the one to go back to>>; a forward store walks to its end.
RECURSIVE LastFrom(_, _, _)
LastFrom(s, prev, curr) ==
  IF s.next[curr] = Null THEN <<curr, prev>> ELSE LastFrom(s, curr, s.next[curr])

getLastBlocks(s) ==
  IF s.reverse THEN <<s.current, s.next[s.current]>> ELSE LastFrom(s, Null, First)

(***************************************************************************)
(* push_back, back, pop_back, empty, destroy                               *)
(***************************************************************************)
\* The store with room in its current block.
WithRoom(s) ==
  LET b == malloc(s)
      next == IF s.reverse THEN (b :> s.current) @@ s.next
              ELSE (b :> Null) @@ [s.next EXCEPT ![s.current] = b]
  IN  IF s.fill_count # BLOCK_SIZE THEN s
      ELSE [s EXCEPT !.data = (b :> EmptyBlock) @@ @, !.next = next, !.current = b, !.fill_count = 0]

push_back(s, value) ==
  LET r == WithRoom(s)
  IN  [r EXCEPT !.data[r.current][r.fill_count] = value, !.fill_count = @ + 1]

back(s) == s.data[getLastBlocks(s)[1]][s.fill_count - 1]

\* Mutant: the emptied block is not freed.
pop_back_leaks(s) ==
  LET last == getLastBlocks(s)
      r == IF s.reverse THEN s ELSE [s EXCEPT !.next[last[2]] = Null]
  IN  IF s.fill_count - 1 > 0 \/ s.current = First THEN [s EXCEPT !.fill_count = @ - 1]
      ELSE [r EXCEPT !.current = last[2], !.fill_count = BLOCK_SIZE]

pop_back(s) ==
  LET last == getLastBlocks(s)
      r == IF s.reverse THEN s ELSE [s EXCEPT !.next[last[2]] = Null]
  IN  IF s.fill_count - 1 > 0 \/ s.current = First THEN [s EXCEPT !.fill_count = @ - 1]
      ELSE free([r EXCEPT !.current = last[2], !.fill_count = BLOCK_SIZE,
                          !.bad = @ \/ last[1] # s.current], last[1])

empty(s) == s.current = First /\ s.fill_count = 0

\* The blocks are freed along the list: a reverse store stops before the one that has
\* no next, which is First.
RECURSIVE FreeFrom(_, _)
FreeFrom(s, b) ==
  IF b = Null \/ (s.reverse /\ s.next[b] = Null) THEN s
  ELSE FreeFrom(free(s, b), s.next[b])

destroy(s) ==
  [FreeFrom(s, IF s.reverse THEN s.current ELSE s.next[First]) EXCEPT !.current = Null, !.fill_count = 0]

(***************************************************************************)
(* Iterators are <<block, index>>                                          *)
(***************************************************************************)
begin(s) == IF s.reverse THEN <<s.current, s.fill_count>> ELSE <<First, 0>>

end(s) == IF s.reverse THEN <<First, 0>> ELSE <<s.current, s.fill_count>>

Advance(s, it) ==
  LET limit == IF s.reverse THEN 0 ELSE BLOCK_SIZE
      i == IF s.reverse THEN it[2] - 1 ELSE it[2] + 1
  IN  IF it[2] = limit THEN it
      ELSE IF i = limit /\ s.next[it[1]] # Null THEN <<s.next[it[1]], BLOCK_SIZE - limit>>
      ELSE <<it[1], i>>

Deref(s, it) == s.data[it[1]][IF s.reverse THEN it[2] - 1 ELSE it[2]]

\* What a loop from begin() to end() sees, cut off after n elements.
RECURSIVE Walk(_, _, _)
Walk(s, it, n) ==
  IF it = end(s) \/ n = 0 THEN <<>> ELSE <<Deref(s, it)>> \o Walk(s, Advance(s, it), n - 1)

(***************************************************************************)
(* Properties                                                              *)
(***************************************************************************)
\* A program pushes a value v > 0 or pops; popping an empty store is left out.
Apply(s, v) == IF v > 0 THEN push_back(s, v) ELSE IF empty(s) THEN s ELSE pop_back(s)

Expected(list, v) ==
  IF v > 0 THEN Append(list, v) ELSE IF list = <<>> THEN list ELSE SubSeq(list, 1, Len(list) - 1)

\* The store holds the list: back() is its end, the iteration goes through it forwards
\* or backwards, and there are just the blocks it needs, all of which destroy() frees.
Holds(s, list) ==
  LET n == Len(list)
      seen == Walk(s, begin(s), n + 1)
  IN  /\ ~s.bad
      /\ empty(s) <=> list = <<>>
      /\ n > 0 => back(s) = list[n]
      /\ seen = IF s.reverse THEN [i \in 1 .. n |-> list[n + 1 - i]] ELSE list
      /\ Cardinality(DOMAIN s.data) = IF n = 0 THEN 1 ELSE ((n - 1) \div BLOCK_SIZE) + 1
      /\ ~destroy(s).bad /\ DOMAIN destroy(s).data = {First}

\* A block store is the list of what was pushed and not popped, after every step of a
\* program.
RECURSIVE StoreIsList(_, _, _)
StoreIsList(s, list, program) ==
  /\ Holds(s, list)
  /\ program # <<>> => StoreIsList(Apply(s, program[1]), Expected(list, program[1]), Tail(program))
=============================================================================
