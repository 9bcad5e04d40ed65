------------------------------- MODULE Mutex -------------------------------
(***************************************************************************)
(* The futex based mutex of src/__support/threads/linux/mutex.h.           *)
(*                                                                         *)
(* A thread is at one of the points of lock() and unlock() between which   *)
(* another thread can act: every atomic operation on futex_word and every  *)
(* futex system call is one step.  The atomics are sequentially consistent *)
(* (src/__support/CPP/atomic.h), so interleaving them is exact.            *)
(*                                                                         *)
(*   lock():   "lock_cas" -> "held"                     word was Free      *)
(*             "lock_cas" -> "set_waiting" -> "held"    ... after a wait   *)
(*             "lock_cas" -> "futex_wait"               word was Waiting   *)
(*             "lock_cas" -> "cas_waiting"              word was Locked    *)
(*             "futex_wait" -> "asleep" -> "lock_cas"                      *)
(*   unlock(): "unlock_cas" -> "futex_wake" -> "idle"   word was Waiting   *)
(*             "unlock_cas" -> "cas_free" -> "idle"     word was Locked    *)
(*             "idle" -> "idle"                         UNLOCK_WITHOUT_LOCK*)
(* Clients unlock a mutex they hold, or one that is free and find out.     *)
(*                                                                         *)
(* The BAD_LOCK_STATE return of lock() needs a compare-exchange that fails *)
(* although the word is Free; compare_exchange_strong does not do that, so *)
(* the return has no step.                                                 *)
(***************************************************************************)
EXTENDS FiniteSets

CONSTANT Threads

VARIABLES futex_word, pc, was_waiting

vars == <<futex_word, pc, was_waiting>>

LockState == {"Free", "Locked", "Waiting"}

PC == {"idle", "lock_cas", "set_waiting", "cas_waiting", "futex_wait",
       "asleep", "held", "unlock_cas", "cas_free", "futex_wake"}

Init ==
  /\ futex_word = "Free"
  /\ pc = [t \in Threads |-> "idle"]
  /\ was_waiting = [t \in Threads |-> FALSE]

Goto(t, label) == pc' = [pc EXCEPT ![t] = label]

(***************************************************************************)
(* lock()                                                                  *)
(***************************************************************************)
LockCall(t) ==
  /\ pc[t] = "idle"
  /\ Goto(t, "lock_cas")
  /\ was_waiting' = [was_waiting EXCEPT ![t] = FALSE]
  /\ UNCHANGED futex_word

\* Mutant: a thread that waited takes the mutex without marking it Waiting.
LockCasFreeForgetful(t) ==
  /\ pc[t] = "lock_cas" /\ futex_word = "Free"
  /\ futex_word' = "Locked"
  /\ Goto(t, "held")
  /\ UNCHANGED was_waiting

LockCasFree(t) ==
  /\ pc[t] = "lock_cas" /\ futex_word = "Free"
  /\ futex_word' = "Locked"
  /\ Goto(t, IF was_waiting[t] THEN "set_waiting" ELSE "held")
  /\ UNCHANGED was_waiting

LockCasBusy(t) ==
  /\ pc[t] = "lock_cas" /\ futex_word # "Free"
  /\ Goto(t, IF futex_word = "Waiting" THEN "futex_wait" ELSE "cas_waiting")
  /\ UNCHANGED <<futex_word, was_waiting>>

SetWaiting(t) ==
  /\ pc[t] = "set_waiting"
  /\ futex_word' = "Waiting"
  /\ Goto(t, "held")
  /\ UNCHANGED was_waiting

\* Mutant: the second exchange succeeds on any word, as a plain store would.
CasWaitingStores(t) ==
  /\ pc[t] = "cas_waiting"
  /\ futex_word' = "Waiting" /\ Goto(t, "futex_wait")
  /\ UNCHANGED was_waiting

CasWaiting(t) ==
  /\ pc[t] = "cas_waiting"
  /\ \/ /\ futex_word = "Locked"
        /\ futex_word' = "Waiting" /\ Goto(t, "futex_wait")
     \/ /\ futex_word # "Locked"
        /\ UNCHANGED futex_word /\ Goto(t, "lock_cas")
  /\ UNCHANGED was_waiting

(***************************************************************************)
(* The kernel: FUTEX_WAIT_PRIVATE sleeps only if the word still has the    *)
(* expected value, returns for no reason the caller can tell (EINTR), and  *)
(* FUTEX_WAKE_PRIVATE with count 1 wakes one sleeper if there is one.      *)
(***************************************************************************)
Asleep == {t \in Threads : pc[t] = "asleep"}

\* Mutant: the system call returns and lock() believes it has the mutex.
InterruptedOwns(t) ==
  /\ pc[t] = "asleep"
  /\ Goto(t, "held")
  /\ was_waiting' = [was_waiting EXCEPT ![t] = TRUE]
  /\ UNCHANGED futex_word

FutexWait(t) ==
  /\ pc[t] = "futex_wait"
  /\ \/ futex_word = "Waiting" /\ Goto(t, "asleep") /\ UNCHANGED was_waiting
     \/ /\ futex_word # "Waiting"
        /\ Goto(t, "lock_cas")
        /\ was_waiting' = [was_waiting EXCEPT ![t] = TRUE]
  /\ UNCHANGED futex_word

Interrupted(t) ==
  /\ pc[t] = "asleep"
  /\ Goto(t, "lock_cas")
  /\ was_waiting' = [was_waiting EXCEPT ![t] = TRUE]
  /\ UNCHANGED futex_word

(***************************************************************************)
(* unlock()                                                                *)
(***************************************************************************)
UnlockCall(t) ==
  /\ pc[t] = "held"
  /\ Goto(t, "unlock_cas")
  /\ UNCHANGED <<futex_word, was_waiting>>

\* The exchange fails on a word that is neither Waiting nor Locked: the call
\* returns UNLOCK_WITHOUT_LOCK and has changed nothing.
UnlockFree(t) ==
  /\ pc[t] = "idle" /\ futex_word = "Free"
  /\ UNCHANGED vars

UnlockCas(t) ==
  /\ pc[t] = "unlock_cas"
  /\ \/ futex_word = "Waiting" /\ futex_word' = "Free" /\ Goto(t, "futex_wake")
     \/ futex_word = "Locked" /\ UNCHANGED futex_word /\ Goto(t, "cas_free")
  /\ UNCHANGED was_waiting

\* Mutant: the second exchange of unlock() frees a word that became Waiting.
CasFreeStores(t) ==
  /\ pc[t] = "cas_free"
  /\ futex_word' = "Free" /\ Goto(t, "idle")
  /\ UNCHANGED was_waiting

CasFree(t) ==
  /\ pc[t] = "cas_free"
  /\ \/ futex_word = "Locked" /\ futex_word' = "Free" /\ Goto(t, "idle")
     \/ futex_word # "Locked" /\ UNCHANGED futex_word /\ Goto(t, "unlock_cas")
  /\ UNCHANGED was_waiting

FutexWake(t) ==
  /\ pc[t] = "futex_wake"
  /\ \/ /\ Asleep = {}
        /\ Goto(t, "idle") /\ UNCHANGED was_waiting
     \/ \E u \in Asleep :
          /\ pc' = [pc EXCEPT ![t] = "idle", ![u] = "lock_cas"]
          /\ was_waiting' = [was_waiting EXCEPT ![u] = TRUE]
  /\ UNCHANGED futex_word

(***************************************************************************)
(* Specification.  A thread that is inside lock() or unlock() keeps        *)
(* running, and a client that holds the mutex releases it; nobody has to   *)
(* call lock() and the kernel owes nobody an interruption.                 *)
(***************************************************************************)
LockStep(t) ==
  LockCasFree(t) \/ LockCasBusy(t) \/ SetWaiting(t) \/ CasWaiting(t) \/ FutexWait(t)

UnlockStep(t) == UnlockCas(t) \/ CasFree(t) \/ FutexWake(t)

Next ==
  \E t \in Threads : \/ LockCall(t) \/ LockStep(t) \/ Interrupted(t)
                      \/ UnlockCall(t) \/ UnlockFree(t) \/ UnlockStep(t)

Fairness ==
  \A t \in Threads : /\ WF_vars(LockStep(t))
                     /\ WF_vars(UnlockStep(t))
                     /\ WF_vars(UnlockCall(t))

Spec == Init /\ [][Next]_vars

FairSpec == Spec /\ Fairness

(***************************************************************************)
(* Properties                                                              *)
(***************************************************************************)
\* Every variable has its type: futex_word is one of the three values of
\* LockState and each thread is at one point of lock() or unlock().
TypeOK ==
  /\ futex_word \in LockState
  /\ pc \in [Threads -> PC]
  /\ was_waiting \in [Threads -> BOOLEAN]

\* The thread's exchange Free -> Locked has succeeded and its exchange back to
\* Free has not: the linearization points of lock() and unlock().
Holds(t) == pc[t] \in {"set_waiting", "held", "unlock_cas", "cas_free"}

\* Mutual exclusion: two threads never both have a lock() that succeeded and
\* an unlock() still to come, however the exchanges, the naps in FUTEX_WAIT and
\* the interruptions interleave.
MutualExclusion == \A t, u \in Threads : Holds(t) /\ Holds(u) => t = u

\* The word tells the truth: it is Free exactly when no thread holds the mutex,
\* so neither the late store of Waiting by lock() nor the two-stage exchange of
\* unlock() ever marks a free mutex as taken or frees one that is held.
WordTracksHolder == (futex_word = "Free") <=> \A t \in Threads : ~Holds(t)

\* A thread that will wake a sleeper or mark the word Waiting for it: one that is
\* about to make the FUTEX_WAKE call, or one that has waited (or is about to)
\* and is still competing for the mutex.
Responsible(t) ==
  \/ pc[t] \in {"futex_wake", "futex_wait", "set_waiting"}
  \/ pc[t] \in {"lock_cas", "cas_waiting"} /\ was_waiting[t]

\* No lost wakeup: as long as a thread sleeps in FUTEX_WAIT, either the word is
\* Waiting, so that the next unlock() makes the FUTEX_WAKE call, or some running
\* thread still has that wake-up in hand.
NoStrandedSleeper ==
  Asleep # {} => futex_word = "Waiting" \/ \E t \in Threads : Responsible(t)

\* The mutex implements the abstract lock: a step of lock() or unlock() either
\* changes no ownership or is one Acquire or one Release.
Lock == INSTANCE AbstractLock WITH holders <- {t \in Threads : Holds(t)}

\* Refinement: the futex protocol implements AbstractLock.
ImplementsAbstractLock == Lock!Spec

Trying(t) == pc[t] \in {"lock_cas", "cas_waiting", "futex_wait", "asleep"}

\* Whenever some thread is inside lock() without the mutex, eventually some thread
\* has the mutex: the protocol cannot end with everyone asleep on a free word.
SomeoneGetsIn ==
  (\E t \in Threads : Trying(t)) ~> (\E t \in Threads : pc[t] = "held")
=============================================================================
