------------------------------- MODULE CndVar -------------------------------
(***************************************************************************)
(* The condition variable of src/threads/linux/CndVar.h, and the threads   *)
(* that use one with a mutex m.                                            *)
(*                                                                         *)
(* A waiter queues a CndWaiter that lives on its own stack, so the node of *)
(* thread t is named t and exists while t is in alive.  The queue is       *)
(* guarded by qmtx.  qmtx is the mutex of module Mutex, down to its futex, *)
(* because notify_one stores into its word directly; m is an abstract      *)
(* lock, which Mutex implements.                                           *)
(*                                                                         *)
(* pc[t]: "out" and "in" are the client, without and with m; "w_" is       *)
(* wait(), "n_" notify_one() and "b_" broadcast().  While pc[t] ends in    *)
(* _qlock or _qunlock, qpc[t] is where t is in qmtx.lock() or unlock().    *)
(***************************************************************************)
EXTENDS Naturals, FiniteSets, Sequences

CONSTANTS Threads, NULL,
          Casts           \* the sets of clients considered: who may do what

\* waiters, notifiers and broadcasters call that operation; bare ones may signal,
\* and careless ones wait, without holding m; a signal may end the FUTEX_WAIT of
\* an interruptible one; rounds bounds the calls of each, m.lock() included.
Cast == [waiters : SUBSET Threads, notifiers : SUBSET Threads,
         broadcasters : SUBSET Threads, bare : SUBSET Threads,
         careless : SUBSET Threads, interruptible : SUBSET Threads, rounds : Nat]

ASSUME CndVarAssumptions ==
  IsFiniteSet(Threads) /\ NULL \notin Threads /\ \A c \in Casts : c \in Cast

VARIABLES
  futex_word, qpc, was_waiting,    \* qmtx
  m_locked,
  waitq_front, waitq_back,
  status, next, alive,             \* the waiter nodes
  pc, target, home, left,
  interrupted,                     \* some wait() has been ended by a signal
  cast                             \* the clients of this behaviour

qvars == <<futex_word, qpc, was_waiting>>
queue == <<waitq_front, waitq_back>>
nodes == <<status, next, alive>>
vars == <<qvars, m_locked, queue, nodes, pc, target, home, left, interrupted,
          cast>>

qmtx == INSTANCE Mutex WITH pc <- qpc

Pointer == Threads \cup {NULL}

Init ==
  /\ qmtx!Init
  /\ m_locked = FALSE
  /\ waitq_front = NULL /\ waitq_back = NULL
  /\ status = [t \in Threads |-> "WS_Waiting"]
  /\ next = [t \in Threads |-> NULL]
  /\ alive = {}
  /\ pc = [t \in Threads |-> "out"]
  /\ target = [t \in Threads |-> NULL]      \* old_back, first or waiter
  /\ home = [t \in Threads |-> "out"]       \* where the client resumes
  /\ interrupted = FALSE
  /\ cast \in Casts
  /\ left = [t \in Threads |-> cast.rounds]

Goto(t, label) == pc' = [pc EXCEPT ![t] = label]
Aim(t, x) == target' = [target EXCEPT ![t] = x]

\* t makes one of its calls, which begins with qmtx.lock().
Begin(t, label) ==
  /\ left[t] > 0 /\ left' = [left EXCEPT ![t] = @ - 1]
  /\ home' = [home EXCEPT ![t] = pc[t]]
  /\ Goto(t, label)
  /\ qmtx!LockCall(t)

\* One step of t inside qmtx.lock() or qmtx.unlock().
QmtxStep(t) ==
  /\ qmtx!LockStep(t) \/ qmtx!UnlockStep(t)
  /\ UNCHANGED <<m_locked, queue, nodes, pc, target, home, left, interrupted, cast>>

\* A signal ends the sleep of t in qmtx.lock(), which tries again.
QmtxInterrupted(t) ==
  /\ t \in cast.interruptible /\ qmtx!Interrupted(t)
  /\ UNCHANGED <<m_locked, queue, nodes, pc, target, home, left, interrupted, cast>>

(***************************************************************************)
(* The client's use of m                                                   *)
(***************************************************************************)
LockM(t) ==
  /\ pc[t] = "out" /\ ~m_locked
  /\ left[t] > 0 /\ left' = [left EXCEPT ![t] = @ - 1]
  /\ m_locked' = TRUE /\ Goto(t, "in")
  /\ UNCHANGED <<qvars, queue, nodes, target, home, interrupted, cast>>

UnlockM(t) ==
  /\ pc[t] = "in"
  /\ m_locked' = FALSE /\ Goto(t, "out")
  /\ UNCHANGED <<qvars, queue, nodes, target, home, left, interrupted, cast>>

(***************************************************************************)
(* wait(m)                                                                 *)
(***************************************************************************)
\* The waiter object is made on the stack and qmtx.lock() is called.
StartWait(t) ==
  /\ t \in cast.waiters
  /\ pc[t] = "in" \/ (pc[t] = "out" /\ t \in cast.careless)
  /\ Begin(t, "w_qlock")
  /\ status' = [status EXCEPT ![t] = "WS_Waiting"]
  /\ next' = [next EXCEPT ![t] = NULL]
  /\ alive' = alive \cup {t}
  /\ UNCHANGED <<m_locked, queue, target, interrupted, cast>>

Enqueue(t) ==
  /\ pc[t] = "w_qlock" /\ qpc[t] = "held"
  /\ \/ /\ waitq_front = NULL
        /\ waitq_front' = t /\ Aim(t, NULL) /\ UNCHANGED next
     \/ /\ waitq_front # NULL
        /\ next' = [next EXCEPT ![waitq_back] = t]
        /\ Aim(t, waitq_back) /\ UNCHANGED waitq_front
  /\ waitq_back' = t
  /\ Goto(t, "w_unlock")
  /\ UNCHANGED <<qvars, m_locked, status, alive, home, left, interrupted, cast>>

\* Mutant: the failed wait returns without taking its waiter off the queue.
UnlockFailsQueued(t) ==
  /\ pc[t] = "w_unlock" /\ ~m_locked
  /\ qmtx!UnlockCall(t) /\ Goto(t, "w_failed_qunlock")
  /\ UNCHANGED <<m_locked, queue, nodes, target, home, left, interrupted, cast>>

\* m->unlock() reports UNLOCK_WITHOUT_LOCK: the waiter leaves the queue again.
UnlockFails(t) ==
  /\ pc[t] = "w_unlock" /\ ~m_locked
  /\ waitq_back' = target[t]
  /\ \/ /\ target[t] = NULL
        /\ waitq_front' = NULL /\ UNCHANGED next
     \/ /\ target[t] # NULL
        /\ next' = [next EXCEPT ![target[t]] = NULL] /\ UNCHANGED waitq_front
  /\ qmtx!UnlockCall(t) /\ Goto(t, "w_failed_qunlock")
  /\ UNCHANGED <<m_locked, status, alive, target, home, left, interrupted, cast>>

Unlocks(t) ==
  /\ pc[t] = "w_unlock" /\ m_locked
  /\ m_locked' = FALSE
  /\ qmtx!UnlockCall(t) /\ Goto(t, "w_qunlock")
  /\ UNCHANGED <<queue, nodes, target, home, left, interrupted, cast>>

FailedReturns(t) ==
  /\ pc[t] = "w_failed_qunlock" /\ qpc[t] = "idle"
  /\ alive' = alive \ {t}
  /\ Goto(t, home[t])
  /\ UNCHANGED <<qvars, m_locked, queue, status, next, target, home, left, interrupted, cast>>

\* FUTEX_WAIT on the waiter: it does not begin once a signal has come.
FutexWait(t) ==
  /\ pc[t] = "w_qunlock" /\ qpc[t] = "idle"
  /\ Goto(t, IF status[t] = "WS_Waiting" THEN "w_asleep" ELSE "w_relock")
  /\ UNCHANGED <<qvars, m_locked, queue, nodes, target, home, left, interrupted, cast>>

\* The system call returns early (EINTR) and wait() goes on as if signalled.
Interrupted(t) ==
  /\ pc[t] = "w_asleep" /\ t \in cast.interruptible
  /\ Goto(t, "w_relock") /\ interrupted' = TRUE
  /\ UNCHANGED <<qvars, m_locked, queue, nodes, target, home, left, cast>>

\* m->lock(), and the return that ends the life of the waiter object.
Relock(t) ==
  /\ pc[t] = "w_relock" /\ ~m_locked
  /\ m_locked' = TRUE
  /\ alive' = alive \ {t}
  /\ Goto(t, "in")
  /\ UNCHANGED <<qvars, queue, status, next, target, home, left, interrupted, cast>>

(***************************************************************************)
(* FUTEX_WAKE_OP on waiter x: store WS_Signalled and, if the old status    *)
(* was WS_Waiting, wake the thread that sleeps there.  Its other half, the *)
(* wake-up on qmtx.futex_word, reaches nobody: the call has no private     *)
(* flag while qmtx.lock() sleeps with FUTEX_WAIT_PRIVATE, and the kernel   *)
(* keeps the two kinds of waiters apart (thread.cpp:264 says so too).      *)
(***************************************************************************)
\* Mutant: the comparison is with the new value, so nobody is woken.
WakeOpComparesNew(t, x, label) ==
  /\ status' = [status EXCEPT ![x] = "WS_Signalled"]
  /\ Goto(t, label)

WakeOp(t, x, label) ==
  /\ status' = [status EXCEPT ![x] = "WS_Signalled"]
  /\ pc' = [u \in Threads |->
              IF u = t THEN label
              ELSE IF u = x /\ pc[u] = "w_asleep" /\ status[x] = "WS_Waiting"
                   THEN "w_relock"
              ELSE pc[u]]

(***************************************************************************)
(* notify_one()                                                            *)
(***************************************************************************)
\* What reading x->next yields; a frame that is gone holds anything.
NextOf(x) == IF x \in alive THEN {next[x]} ELSE Pointer

MaySignal(t) == pc[t] = "in" \/ (pc[t] = "out" /\ t \in cast.bare)

StartNotify(t) ==
  /\ t \in cast.notifiers /\ MaySignal(t)
  /\ Begin(t, "n_qlock")
  /\ UNCHANGED <<m_locked, queue, nodes, target, interrupted, cast>>

NotifyNobody(t) ==
  /\ pc[t] = "n_qlock" /\ qpc[t] = "held" /\ waitq_front = NULL
  /\ qmtx!UnlockCall(t) /\ Goto(t, "s_qunlock")
  /\ UNCHANGED <<m_locked, queue, nodes, target, home, left, interrupted, cast>>

\* Mutant: the waiter at the back is taken instead of the one at the front.
NotifyPopsBack(t) ==
  /\ pc[t] = "n_qlock" /\ qpc[t] = "held" /\ waitq_front # NULL
  /\ Aim(t, waitq_back)
  /\ waitq_front' \in NextOf(waitq_front)
  /\ waitq_back' = IF waitq_front' = NULL THEN NULL ELSE waitq_back
  /\ Goto(t, "n_free")
  /\ UNCHANGED <<qvars, m_locked, nodes, home, left, interrupted, cast>>

\* Mutant: the store that frees qmtx comes before the queue has been updated.
NotifyPopsReleased(t) ==
  /\ pc[t] = "n_qlock" /\ qpc[t] = "held" /\ waitq_front # NULL
  /\ Aim(t, waitq_front)
  /\ waitq_front' \in NextOf(waitq_front)
  /\ waitq_back' = IF waitq_front' = NULL THEN NULL ELSE waitq_back
  /\ Goto(t, "n_free")
  /\ futex_word' = "Free"
  /\ UNCHANGED <<qpc, was_waiting, m_locked, nodes, home, left, interrupted, cast>>

NotifyPops(t) ==
  /\ pc[t] = "n_qlock" /\ qpc[t] = "held" /\ waitq_front # NULL
  /\ Aim(t, waitq_front)
  /\ waitq_front' \in NextOf(waitq_front)
  /\ waitq_back' = IF waitq_front' = NULL THEN NULL ELSE waitq_back
  /\ Goto(t, "n_free")
  /\ UNCHANGED <<qvars, m_locked, nodes, home, left, interrupted, cast>>

\* qmtx is released by a store into its word, not by unlock().
NotifyFrees(t) ==
  /\ pc[t] = "n_free"
  /\ futex_word' = "Free"
  /\ qpc' = [qpc EXCEPT ![t] = "idle"]
  /\ Goto(t, "n_wake_op")
  /\ UNCHANGED <<was_waiting, m_locked, queue, nodes, target, home, left, interrupted, cast>>

NotifySignals(t) ==
  /\ pc[t] = "n_wake_op"
  /\ WakeOp(t, target[t], home[t])
  /\ UNCHANGED <<qvars, m_locked, queue, next, alive, target, home, left, interrupted, cast>>

(***************************************************************************)
(* broadcast()                                                             *)
(***************************************************************************)
StartBroadcast(t) ==
  /\ t \in cast.broadcasters /\ MaySignal(t)
  /\ Begin(t, "b_qlock")
  /\ UNCHANGED <<m_locked, queue, nodes, target, interrupted, cast>>

BroadcastTakes(t) ==
  /\ pc[t] = "b_qlock" /\ qpc[t] = "held"
  /\ Aim(t, waitq_front)
  /\ waitq_front' = NULL /\ waitq_back' = NULL
  /\ Goto(t, "b_loop")
  /\ UNCHANGED <<qvars, m_locked, nodes, home, left, interrupted, cast>>

BroadcastSignals(t) ==
  /\ pc[t] = "b_loop" /\ target[t] # NULL
  /\ WakeOp(t, target[t], "b_next")
  /\ UNCHANGED <<qvars, m_locked, queue, next, alive, target, home, left, interrupted, cast>>

\* waiter = waiter->next, read after the waiter has been signalled.
BroadcastAdvances(t) ==
  /\ pc[t] = "b_next"
  /\ \E x \in NextOf(target[t]) : Aim(t, x)
  /\ Goto(t, "b_loop")
  /\ UNCHANGED <<qvars, m_locked, queue, nodes, home, left, interrupted, cast>>

BroadcastDone(t) ==
  /\ pc[t] = "b_loop" /\ target[t] = NULL
  /\ qmtx!UnlockCall(t) /\ Goto(t, "s_qunlock")
  /\ UNCHANGED <<m_locked, queue, nodes, target, home, left, interrupted, cast>>

SignalReturns(t) ==
  /\ pc[t] = "s_qunlock" /\ qpc[t] = "idle"
  /\ Goto(t, home[t])
  /\ UNCHANGED <<qvars, m_locked, queue, nodes, target, home, left, interrupted, cast>>

(***************************************************************************)
(* Specification.  A thread inside an operation keeps running and a client *)
(* with m releases it; nobody has to make a call.                          *)
(***************************************************************************)
WaitStep(t) ==
  \/ Enqueue(t) \/ UnlockFails(t) \/ Unlocks(t) \/ FailedReturns(t)
  \/ FutexWait(t) \/ Relock(t)

SignalStep(t) ==
  \/ NotifyNobody(t) \/ NotifyPops(t) \/ NotifyFrees(t) \/ NotifySignals(t)
  \/ BroadcastTakes(t) \/ BroadcastSignals(t) \/ BroadcastAdvances(t)
  \/ BroadcastDone(t) \/ SignalReturns(t)

Next ==
  \E t \in Threads :
    \/ LockM(t) \/ UnlockM(t) \/ QmtxStep(t) \/ WaitStep(t) \/ SignalStep(t)
    \/ StartWait(t) \/ StartNotify(t) \/ StartBroadcast(t)
    \/ Interrupted(t) \/ QmtxInterrupted(t)

Spec == Init /\ [][Next]_vars

FairSpec ==
  Spec /\ \A t \in Threads : /\ WF_vars(QmtxStep(t)) /\ WF_vars(UnlockM(t))
                             /\ WF_vars(WaitStep(t)) /\ WF_vars(SignalStep(t))

(***************************************************************************)
(* Properties                                                              *)
(***************************************************************************)
\* The sequences of threads without repetition.
Lists ==
  {l \in UNION {[1 .. n -> Threads] : n \in 0 .. Cardinality(Threads)} :
     \A i, j \in DOMAIN l : l[i] = l[j] => i = j}

\* l has the nodes from x on by the pointers nx, to the end of the list or to where it
\* becomes circular.
Follows(nx, l, x) ==
  \/ l = <<>> /\ x = NULL
  \/ /\ l # <<>> /\ l[1] = x
     /\ \A i \in 1 .. Len(l) - 1 : nx[l[i]] = l[i + 1]
     /\ nx[l[Len(l)]] \in {NULL} \cup {l[i] : i \in DOMAIN l}

ListFrom(x) == CHOOSE l \in Lists : Follows(next, l, x)

Nodes(x) == LET l == ListFrom(x) IN {l[i] : i \in DOMAIN l}

\* The nodes that a signaller has taken off the queue and still has to visit.
InHand(t) ==
  CASE pc[t] \in {"n_free", "n_wake_op"} -> {target[t]}
    [] pc[t] = "b_loop" -> Nodes(target[t])
    [] pc[t] = "b_next" -> {target[t]} \cup Nodes(next[target[t]])
    [] OTHER -> {}

\* Every waiter that is in the queue, or that notify_one or broadcast is about to
\* read or signal, still exists: its wait() has not returned (CndVar.h:72-76).
NoDeadWaiter ==
  /\ Nodes(waitq_front) \cup Nodes(waitq_back) \subseteq alive
  /\ \A t \in Threads : InHand(t) \subseteq alive

\* As long as no signal has ended a wait(), the queue and the signallers reach only
\* waiters whose wait() has not returned.
UndisturbedNoDeadWaiter == interrupted \/ NoDeadWaiter

\* "Unlock m and wait" is one step to those who signal: from the moment wait() has
\* unlocked m until it is signalled, the waiter is in the queue or in the hand of
\* a signaller, so that no signal sent after the unlock misses it (CndVar.h:50-57).
\* It holds as long as no signal has ended a wait().
WaiterIsFindable ==
  interrupted \/ \A t \in Threads :
    pc[t] \in {"w_qunlock", "w_asleep"} /\ status[t] = "WS_Waiting" =>
      t \in Nodes(waitq_front) \cup UNION {InHand(u) : u \in Threads}

\* The store by which notify_one releases qmtx never lets a second thread in, nor
\* leaves the word Free while the queue is still being changed, interrupted waits
\* or not.
QmtxExclusion == qmtx!MutualExclusion /\ qmtx!WordTracksHolder

Waiting(t) == pc[t] \in {"w_unlock", "w_qunlock", "w_asleep", "w_relock"}

\* The linked list, its two ends and the status words implement the queue of the
\* abstract condition variable: first come, first signalled, and wait() returns
\* only to a thread that was signalled.
Abstract == INSTANCE AbstractCndVar WITH
              queue <- ListFrom(waitq_front),
              chosen <- {t \in Threads : Waiting(t) /\ t \notin Nodes(waitq_front)}

\* Refinement: until a signal ends a wait(), every step of wait, notify_one and
\* broadcast is a step of the abstract condition variable or changes nothing it can
\* see.
ImplementsAbstractCndVar ==
  Abstract!Init /\ [][interrupted' \/ Abstract!Next]_(Abstract!vars)

\* Where only broadcast() signals, a thread that has been signalled returns from
\* wait(), and every call of broadcast() returns.
SignalledReturn ==
  cast.notifiers = {} =>
    \A t \in Threads :
      /\ (Waiting(t) /\ status[t] = "WS_Signalled") ~> pc[t] = "in"
      /\ pc[t] = "b_qlock" ~> pc[t] \in {"in", "out"}

\* notify_one unlocks qmtx and signals the waiter (CndVar.h:97-98), so a later
\* caller of notify_one gets qmtx in its turn and returns.
NotifyReturns == \A t \in Threads : pc[t] = "n_qlock" ~> pc[t] \in {"in", "out"}
=============================================================================
