--------------------------- MODULE AbstractCndVar ---------------------------
(***************************************************************************)
(* What a condition variable promises: threads wait in a queue, notify_one *)
(* chooses the one that has waited longest, broadcast chooses them all,    *)
(* and a wait ends only for a thread that has been chosen.                 *)
(***************************************************************************)
EXTENDS Naturals, Sequences

CONSTANT Threads

VARIABLES queue,    \* the threads that wait, in the order they arrived
          chosen    \* those chosen by a signal that have not returned yet

vars == <<queue, chosen>>

Init == queue = <<>> /\ chosen = {}

Wait(t) ==
  /\ t \notin {queue[i] : i \in DOMAIN queue} \cup chosen
  /\ queue' = Append(queue, t) /\ UNCHANGED chosen

\* The wait could not begin: the thread leaves the place it has just taken.
Withdraw(t) ==
  /\ queue # <<>> /\ queue[Len(queue)] = t
  /\ queue' = SubSeq(queue, 1, Len(queue) - 1) /\ UNCHANGED chosen

NotifyOne ==
  /\ queue # <<>>
  /\ queue' = Tail(queue) /\ chosen' = chosen \cup {Head(queue)}

Broadcast ==
  /\ queue # <<>>
  /\ queue' = <<>> /\ chosen' = chosen \cup {queue[i] : i \in DOMAIN queue}

Return(t) == t \in chosen /\ chosen' = chosen \ {t} /\ UNCHANGED queue

Next ==
  NotifyOne \/ Broadcast \/ \E t \in Threads : Wait(t) \/ Withdraw(t) \/ Return(t)

Spec == Init /\ [][Next]_vars
=============================================================================
