------------------------------ MODULE CallOnce ------------------------------
(***************************************************************************)
(* callonce() of src/__support/threads/linux/callonce.cpp, which is what   *)
(* call_once and pthread_once are.  One flag; any number of threads call   *)
(* callonce on it, any number of times.                                    *)
(*                                                                         *)
(*   "cas_start"  the exchange NOT_CALLED -> START                         *)
(*   "func" -> "exchange" -> "wake" -> "returned"    the thread that won   *)
(*   "cas_waiting" -> "futex_wait" -> "asleep" -> "returned"    the others *)
(***************************************************************************)
EXTENDS Naturals, TLAPS

CONSTANTS Threads,
          Interruptible   \* threads whose FUTEX_WAIT a signal may interrupt

ASSUME InterruptibleAssumption == Interruptible \subseteq Threads

VARIABLES futex_word, pc,
          runs,           \* how often func() has been entered
          finished        \* some func() has returned

vars == <<futex_word, pc, runs, finished>>

Status == {"NOT_CALLED", "START", "WAITING", "FINISH"}

PC == {"idle", "cas_start", "func", "exchange", "wake",
       "cas_waiting", "futex_wait", "asleep", "returned"}

Init ==
  /\ futex_word = "NOT_CALLED"
  /\ pc = [t \in Threads |-> "idle"]
  /\ runs = 0
  /\ finished = FALSE

Goto(t, label) == pc' = [pc EXCEPT ![t] = label]

Call(t) ==
  /\ pc[t] \in {"idle", "returned"}
  /\ Goto(t, "cas_start")
  /\ UNCHANGED <<futex_word, runs, finished>>

\* Mutant: the word is tested and set in two steps, so two threads can win.
CasStartRaces(t) ==
  /\ pc[t] = "cas_start"
  /\ \/ /\ futex_word # "FINISH"
        /\ futex_word' = "START" /\ runs' = runs + 1 /\ Goto(t, "func")
     \/ /\ futex_word = "FINISH"
        /\ Goto(t, "cas_waiting") /\ UNCHANGED <<futex_word, runs>>
  /\ UNCHANGED finished

CasStart(t) ==
  /\ pc[t] = "cas_start"
  /\ \/ /\ futex_word = "NOT_CALLED"
        /\ futex_word' = "START" /\ runs' = runs + 1 /\ Goto(t, "func")
     \/ /\ futex_word # "NOT_CALLED"
        /\ Goto(t, "cas_waiting") /\ UNCHANGED <<futex_word, runs>>
  /\ UNCHANGED finished

FuncReturns(t) ==
  /\ pc[t] = "func"
  /\ finished' = TRUE /\ Goto(t, "exchange")
  /\ UNCHANGED <<futex_word, runs>>

\* Mutant: the old status is compared with START, so the waiters are not woken.
ExchangeNoWake(t) ==
  /\ pc[t] = "exchange"
  /\ futex_word' = "FINISH"
  /\ Goto(t, IF futex_word = "START" THEN "wake" ELSE "returned")
  /\ UNCHANGED <<runs, finished>>

Exchange(t) ==
  /\ pc[t] = "exchange"
  /\ futex_word' = "FINISH"
  /\ Goto(t, IF futex_word = "WAITING" THEN "wake" ELSE "returned")
  /\ UNCHANGED <<runs, finished>>

\* Mutant: FUTEX_WAKE with count 1 instead of INT_MAX.
WakeOne(t) ==
  /\ pc[t] = "wake"
  /\ \/ (\A u \in Threads : pc[u] # "asleep") /\ Goto(t, "returned")
     \/ \E u \in Threads : /\ pc[u] = "asleep"
                           /\ pc' = [pc EXCEPT ![t] = "returned", ![u] = "returned"]
  /\ UNCHANGED <<futex_word, runs, finished>>

\* FUTEX_WAKE with count INT_MAX; the sleepers' callonce returns at once.
Wake(t) ==
  /\ pc[t] = "wake"
  /\ pc' = [u \in Threads |-> IF u = t \/ pc[u] = "asleep" THEN "returned" ELSE pc[u]]
  /\ UNCHANGED <<futex_word, runs, finished>>

\* Mutant: a caller that finds the status WAITING does not wait.
CasWaitingOnlyFirst(t) ==
  /\ pc[t] = "cas_waiting"
  /\ \/ futex_word = "START" /\ futex_word' = "WAITING" /\ Goto(t, "futex_wait")
     \/ futex_word # "START" /\ UNCHANGED futex_word /\ Goto(t, "returned")
  /\ UNCHANGED <<runs, finished>>

CasWaiting(t) ==
  /\ pc[t] = "cas_waiting"
  /\ \/ futex_word = "START" /\ futex_word' = "WAITING" /\ Goto(t, "futex_wait")
     \/ futex_word = "WAITING" /\ UNCHANGED futex_word /\ Goto(t, "futex_wait")
     \/ /\ futex_word \notin {"START", "WAITING"}
        /\ UNCHANGED futex_word /\ Goto(t, "returned")
  /\ UNCHANGED <<runs, finished>>

\* FUTEX_WAIT sleeps only while the word is still WAITING.
FutexWait(t) ==
  /\ pc[t] = "futex_wait"
  /\ Goto(t, IF futex_word = "WAITING" THEN "asleep" ELSE "returned")
  /\ UNCHANGED <<futex_word, runs, finished>>

\* The system call returns early (EINTR); callonce does not look at the word
\* again.
Interrupted(t) ==
  /\ pc[t] = "asleep" /\ t \in Interruptible
  /\ Goto(t, "returned")
  /\ UNCHANGED <<futex_word, runs, finished>>

(***************************************************************************)
(* Specification.  A thread inside callonce keeps running, and func()      *)
(* returns; no thread has to call callonce again.                          *)
(***************************************************************************)
Step(t) ==
  \/ CasStart(t) \/ FuncReturns(t) \/ Exchange(t) \/ Wake(t)
  \/ CasWaiting(t) \/ FutexWait(t)

Next == \E t \in Threads : Call(t) \/ Step(t) \/ Interrupted(t)

Spec == Init /\ [][Next]_vars

FairSpec == Spec /\ \A t \in Threads : WF_vars(Step(t))

(***************************************************************************)
(* Properties                                                              *)
(***************************************************************************)
\* Every variable has its type: the flag holds one of the four status words.
TypeOK ==
  /\ futex_word \in Status
  /\ pc \in [Threads -> PC]
  /\ runs \in Nat
  /\ finished \in BOOLEAN

\* However many threads race into callonce with one flag, func() is entered once.
RunsOnce == runs <= 1

\* A callonce call returns only after func() has returned, in whichever thread
\* func() ran (callonce.cpp:31).
ReturnsAfterFunc == (\E t \in Threads : pc[t] = "returned") => finished

\* The same for the threads no signal reaches: whatever happens to the waits of
\* others, theirs end only when the exchange with FINISH has been made.
UndisturbedReturnsAfterFunc ==
  \A t \in Threads \ Interruptible : pc[t] = "returned" => finished

\* A thread sleeping in callonce is never forgotten: the status is WAITING, so
\* that the exchange with FINISH will see it, or the waker is on its way.
NoStrandedWaiter ==
  (\E t \in Threads : pc[t] = "asleep") =>
    futex_word = "WAITING" \/ \E u \in Threads : pc[u] = "wake"

\* Every call of callonce returns, provided func() does.
EveryCallReturns == \A t \in Threads : pc[t] = "cas_start" ~> pc[t] = "returned"

(***************************************************************************)
(* Theorems, for every set of threads.  The three safety properties are    *)
(* proved from one inductive invariant, OnceInv: it follows the flag       *)
(* through its life and says who may be where in each phase.               *)
(***************************************************************************)
USE DEF PC, Status, Goto

Initiating(t) == pc[t] \in {"func", "exchange"}

\* Nothing has happened yet, or func() has been entered exactly once.
Phase ==
  /\ runs = (IF futex_word = "NOT_CALLED" THEN 0 ELSE 1)
  /\ futex_word = "FINISH" => finished
  /\ futex_word \in {"START", "WAITING"} => \E t \in Threads : Initiating(t)

\* The thread that won the first exchange is alone until it stores FINISH.
OneInitiator ==
  /\ \A t, u \in Threads : Initiating(t) /\ Initiating(u) => t = u
  /\ \A t \in Threads : Initiating(t) => futex_word \in {"START", "WAITING"}
  /\ \A t \in Threads : pc[t] = "exchange" => finished

\* Who waits has seen the flag leave NOT_CALLED, and START as well once it waits.
Waiters ==
  \A t \in Threads :
    /\ pc[t] = "cas_waiting" => futex_word # "NOT_CALLED"
    /\ pc[t] \in {"futex_wait", "asleep"} => futex_word \in {"WAITING", "FINISH"}
    /\ pc[t] = "wake" => futex_word = "FINISH"

OnceInv == TypeOK /\ Phase /\ OneInitiator /\ Waiters /\ NoStrandedWaiter

LEMMA OnceInit == Init => OnceInv
<1> SUFFICES ASSUME Init PROVE OnceInv
  OBVIOUS
<1>1. TypeOK /\ Phase
  BY DEF Init, TypeOK, Phase
<1>2. OneInitiator /\ Waiters /\ NoStrandedWaiter
  BY DEF Init, OneInitiator, Waiters, NoStrandedWaiter, Initiating
<1> QED
  BY <1>1, <1>2 DEF OnceInv

LEMMA OnceStep ==
  ASSUME OnceInv, [Next]_vars PROVE OnceInv'
<1> USE DEF OnceInv, TypeOK, Phase, OneInitiator, Waiters, NoStrandedWaiter, Initiating
<1>1. ASSUME NEW t \in Threads, Call(t) PROVE OnceInv'
  BY <1>1 DEF Call
<1>2. ASSUME NEW t \in Threads, CasStart(t) PROVE OnceInv'
  BY <1>2 DEF CasStart
<1>3. ASSUME NEW t \in Threads, FuncReturns(t) PROVE OnceInv'
  BY <1>3 DEF FuncReturns
<1>4. ASSUME NEW t \in Threads, Exchange(t) PROVE OnceInv'
  BY <1>4 DEF Exchange
<1>5. ASSUME NEW t \in Threads, Wake(t) PROVE OnceInv'
  BY <1>5 DEF Wake
<1>6. ASSUME NEW t \in Threads, CasWaiting(t) PROVE OnceInv'
  BY <1>6 DEF CasWaiting
<1>7. ASSUME NEW t \in Threads, FutexWait(t) PROVE OnceInv'
  BY <1>7 DEF FutexWait
<1>8. ASSUME NEW t \in Threads, Interrupted(t) PROVE OnceInv'
  BY <1>8 DEF Interrupted
<1>9. CASE UNCHANGED vars
  BY <1>9 DEF vars
<1> QED
  BY <1>1, <1>2, <1>3, <1>4, <1>5, <1>6, <1>7, <1>8, <1>9 DEF Next, Step

\* For any number of threads and calls, and whichever waits are interrupted,
\* func() is entered at most once.
THEOREM CallOnceRunsOnce == Spec => []RunsOnce
<1>1. OnceInv => RunsOnce
  BY DEF OnceInv, TypeOK, Phase, RunsOnce
<1>2. OnceInv /\ [Next]_vars => OnceInv'
  BY OnceStep
<1> QED
  BY <1>1, <1>2, OnceInit, PTL DEF Spec

\* For any number of threads and calls, and whichever waits are interrupted, a
\* thread asleep in callonce will be seen by the exchange with FINISH or is about
\* to be woken.
THEOREM CallOnceStrandsNobody == Spec => []NoStrandedWaiter
<1>1. OnceInv => NoStrandedWaiter
  BY DEF OnceInv
<1>2. OnceInv /\ [Next]_vars => OnceInv'
  BY OnceStep
<1> QED
  BY <1>1, <1>2, OnceInit, PTL DEF Spec

LEMMA ReturnStep ==
  ASSUME OnceInv, UndisturbedReturnsAfterFunc, [Next]_vars
  PROVE  UndisturbedReturnsAfterFunc'
<1> USE DEF OnceInv, TypeOK, Phase, OneInitiator, Waiters, Initiating,
            UndisturbedReturnsAfterFunc
<1>1. ASSUME NEW t \in Threads, Step(t) PROVE UndisturbedReturnsAfterFunc'
  <2>1. CASE CasStart(t) \/ FuncReturns(t)
    BY <2>1 DEF CasStart, FuncReturns
  <2>2. CASE Exchange(t) \/ Wake(t)
    BY <2>2 DEF Exchange, Wake
  <2>3. CASE CasWaiting(t) \/ FutexWait(t)
    BY <2>3 DEF CasWaiting, FutexWait
  <2> QED
    BY <1>1, <2>1, <2>2, <2>3 DEF Step
<1>2. ASSUME NEW t \in Threads, Call(t) \/ Interrupted(t) PROVE UndisturbedReturnsAfterFunc'
  BY <1>2 DEF Call, Interrupted
<1>3. CASE UNCHANGED vars
  BY <1>3 DEF vars
<1> QED
  BY <1>1, <1>2, <1>3 DEF Next

\* For any number of threads and calls, a callonce call whose FUTEX_WAIT no signal
\* interrupts does not return before func() has returned.
THEOREM CallOnceReturnsAfterFunc == Spec => []UndisturbedReturnsAfterFunc
<1>1. Init => UndisturbedReturnsAfterFunc
  BY DEF Init, UndisturbedReturnsAfterFunc
<1>2. OnceInv /\ [Next]_vars => OnceInv'
  BY OnceStep
<1>3. OnceInv /\ UndisturbedReturnsAfterFunc /\ [Next]_vars
        => UndisturbedReturnsAfterFunc'
  BY ReturnStep
<1> QED
  BY <1>1, <1>2, <1>3, OnceInit, PTL DEF Spec
=============================================================================
