---------------------------- MODULE AbstractLock ----------------------------
(***************************************************************************)
(* What every user of a lock in this library relies on: MutexLock regions  *)
(* of one mutex never overlap, and only the thread inside may leave.       *)
(* Mutex implements this specification; the other modules use it for the   *)
(* mutexes whose futex protocol is not what they are about.                *)
(***************************************************************************)
CONSTANT Threads

VARIABLE holders      \* the threads between a successful lock and its unlock

Init == holders = {}

Acquire(t) == holders = {} /\ holders' = {t}

Release(t) == holders = {t} /\ holders' = {}

Next == \E t \in Threads : Acquire(t) \/ Release(t)

Spec == Init /\ [][Next]_holders
=============================================================================
