---------------------------- MODULE MutexProofs ----------------------------
(***************************************************************************)
(* Theorems about Mutex for every set of threads.                          *)
(***************************************************************************)
EXTENDS Mutex, TLAPS

USE DEF PC, LockState, Goto

(***************************************************************************)
(* Type correctness                                                        *)
(***************************************************************************)
LEMMA TypeInit == Init => TypeOK
  BY DEF Init, TypeOK

LEMMA TypeStep == TypeOK /\ [Next]_vars => TypeOK'
<1> SUFFICES ASSUME TypeOK, [Next]_vars PROVE TypeOK'
  OBVIOUS
<1>1. ASSUME NEW t \in Threads, LockCall(t) PROVE TypeOK'
  BY <1>1 DEF TypeOK, LockCall
<1>2. ASSUME NEW t \in Threads, LockStep(t) PROVE TypeOK'
  BY <1>2 DEF TypeOK, LockStep, LockCasFree, LockCasBusy, SetWaiting, CasWaiting, FutexWait
<1>3. ASSUME NEW t \in Threads, Interrupted(t) PROVE TypeOK'
  BY <1>3 DEF TypeOK, Interrupted
<1>4. ASSUME NEW t \in Threads, UnlockCall(t) \/ UnlockFree(t) PROVE TypeOK'
  BY <1>4 DEF TypeOK, UnlockCall, UnlockFree, vars
<1>5. ASSUME NEW t \in Threads, UnlockStep(t) PROVE TypeOK'
  BY <1>5 DEF TypeOK, UnlockStep, UnlockCas, CasFree, FutexWake, Asleep
<1>6. CASE UNCHANGED vars
  BY <1>6 DEF TypeOK, vars
<1> QED
  BY <1>1, <1>2, <1>3, <1>4, <1>5, <1>6 DEF Next

\* The type invariant holds of every behaviour of the mutex.
THEOREM TypeCorrect == Spec => []TypeOK
  BY TypeInit, TypeStep, PTL DEF Spec

(***************************************************************************)
(* Mutual exclusion.  The invariant is inductive only together with the    *)
(* fact that the word is Free exactly when nobody holds the mutex: the     *)
(* exchange Free -> Locked is what lets a thread in.                       *)
(***************************************************************************)
Exclusion == TypeOK /\ MutualExclusion /\ WordTracksHolder

LEMMA ExclusionInit == Init => Exclusion
  BY TypeInit DEF Init, Exclusion, MutualExclusion, WordTracksHolder, Holds

LEMMA ExclusionStep ==
  ASSUME Exclusion, [Next]_vars PROVE Exclusion'
<1> USE DEF Exclusion, TypeOK, MutualExclusion, WordTracksHolder, Holds
<1>0. TypeOK'
  BY TypeStep
<1>1. ASSUME NEW t \in Threads, LockCall(t) PROVE Exclusion'
  BY <1>0, <1>1 DEF LockCall
<1>2. ASSUME NEW t \in Threads, LockStep(t) PROVE Exclusion'
  <2>1. CASE LockCasFree(t)
    BY <1>0, <2>1 DEF LockCasFree
  <2>2. CASE LockCasBusy(t)
    BY <1>0, <2>2 DEF LockCasBusy
  <2>3. CASE SetWaiting(t)
    BY <1>0, <2>3 DEF SetWaiting
  <2>4. CASE CasWaiting(t)
    BY <1>0, <2>4 DEF CasWaiting
  <2>5. CASE FutexWait(t)
    BY <1>0, <2>5 DEF FutexWait
  <2> QED
    BY <1>2, <2>1, <2>2, <2>3, <2>4, <2>5 DEF LockStep
<1>3. ASSUME NEW t \in Threads, Interrupted(t) PROVE Exclusion'
  BY <1>0, <1>3 DEF Interrupted
<1>4. ASSUME NEW t \in Threads, UnlockCall(t) \/ UnlockFree(t) PROVE Exclusion'
  BY <1>0, <1>4 DEF UnlockCall, UnlockFree, vars
<1>5. ASSUME NEW t \in Threads, UnlockStep(t) PROVE Exclusion'
  <2>1. CASE UnlockCas(t)
    BY <1>0, <2>1 DEF UnlockCas
  <2>2. CASE CasFree(t)
    BY <1>0, <2>2 DEF CasFree
  <2>3. CASE FutexWake(t)
    BY <1>0, <2>3 DEF FutexWake, Asleep
  <2> QED
    BY <1>5, <2>1, <2>2, <2>3 DEF UnlockStep
<1>6. CASE UNCHANGED vars
  BY <1>0, <1>6 DEF vars
<1> QED
  BY <1>1, <1>2, <1>3, <1>4, <1>5, <1>6 DEF Next

LEMMA ExclusionInvariant == Spec => []Exclusion
<1>1. Init => Exclusion
  BY ExclusionInit
<1>2. Exclusion /\ [Next]_vars => Exclusion'
  BY ExclusionStep
<1> QED
  BY <1>1, <1>2, PTL DEF Spec

\* For any number of threads, no two of them are between a successful lock() and
\* the exchange that releases it.
THEOREM MutexExcludes == Spec => []MutualExclusion
<1>1. Exclusion => MutualExclusion
  BY DEF Exclusion
<1> QED
  BY <1>1, ExclusionInvariant, PTL

\* For any number of threads, futex_word is Free exactly when no thread is between a
\* successful lock() and the exchange that releases it.
THEOREM MutexWordTracksHolder == Spec => []WordTracksHolder
<1>1. Exclusion => WordTracksHolder
  BY DEF Exclusion
<1> QED
  BY <1>1, ExclusionInvariant, PTL

(***************************************************************************)
(* No lost wakeup.  Inductive with the type invariant alone, because the   *)
(* only step that takes the word away from Waiting is the exchange of      *)
(* unlock(), and the thread that makes it is about to call FUTEX_WAKE.     *)
(***************************************************************************)
Wakeups == TypeOK /\ NoStrandedSleeper

LEMMA WakeupsStep ==
  ASSUME Wakeups, [Next]_vars PROVE Wakeups'
<1> USE DEF Wakeups, TypeOK, NoStrandedSleeper, Responsible, Asleep
<1>0. TypeOK'
  BY TypeStep
<1>1. ASSUME NEW t \in Threads, LockCall(t) PROVE Wakeups'
  BY <1>0, <1>1 DEF LockCall
<1>2. ASSUME NEW t \in Threads, LockStep(t) PROVE Wakeups'
  <2>1. CASE LockCasFree(t)
    BY <1>0, <2>1 DEF LockCasFree
  <2>2. CASE LockCasBusy(t)
    BY <1>0, <2>2 DEF LockCasBusy
  <2>3. CASE SetWaiting(t)
    BY <1>0, <2>3 DEF SetWaiting
  <2>4. CASE CasWaiting(t)
    BY <1>0, <2>4 DEF CasWaiting
  <2>5. CASE FutexWait(t)
    BY <1>0, <2>5 DEF FutexWait
  <2> QED
    BY <1>2, <2>1, <2>2, <2>3, <2>4, <2>5 DEF LockStep
<1>3. ASSUME NEW t \in Threads, Interrupted(t) PROVE Wakeups'
  BY <1>0, <1>3 DEF Interrupted
<1>4. ASSUME NEW t \in Threads, UnlockCall(t) \/ UnlockFree(t) PROVE Wakeups'
  BY <1>0, <1>4 DEF UnlockCall, UnlockFree, vars
<1>5. ASSUME NEW t \in Threads, UnlockStep(t) PROVE Wakeups'
  <2>1. CASE UnlockCas(t)
    BY <1>0, <2>1 DEF UnlockCas
  <2>2. CASE CasFree(t)
    BY <1>0, <2>2 DEF CasFree
  <2>3. CASE FutexWake(t)
    BY <1>0, <2>3 DEF FutexWake
  <2> QED
    BY <1>5, <2>1, <2>2, <2>3 DEF UnlockStep
<1>6. CASE UNCHANGED vars
  BY <1>0, <1>6 DEF vars
<1> QED
  BY <1>1, <1>2, <1>3, <1>4, <1>5, <1>6 DEF Next

\* For any number of threads, a thread never sleeps in lock() without the word
\* being Waiting or some running thread being bound to wake it or to mark the word.
THEOREM MutexLosesNoWakeup == Spec => []NoStrandedSleeper
<1>1. Init => Wakeups
  BY TypeInit DEF Init, Wakeups, NoStrandedSleeper, Asleep
<1>2. Wakeups /\ [Next]_vars => Wakeups'
  BY WakeupsStep
<1>3. Wakeups => NoStrandedSleeper
  BY DEF Wakeups
<1> QED
  BY <1>1, <1>2, <1>3, PTL DEF Spec

(***************************************************************************)
(* Refinement of the abstract lock.  Only the exchange Free -> Locked      *)
(* acquires and only the two exchanges back to Free release.               *)
(***************************************************************************)
LEMMA LockRefinementStep ==
  ASSUME Exclusion, [Next]_vars
  PROVE  [Lock!Next]_{t \in Threads : Holds(t)}
<1> DEFINE H == {t \in Threads : Holds(t)}
<1> USE DEF Exclusion, TypeOK, Holds
<1>1. ASSUME NEW t \in Threads, LockCasFree(t) PROVE Lock!Acquire(t)
  BY <1>1 DEF LockCasFree, WordTracksHolder, Lock!Acquire
<1>2. ASSUME NEW t \in Threads, UnlockCas(t) PROVE Lock!Release(t) \/ H' = H
  <2>1. H = {t}
    BY <1>2 DEF UnlockCas, MutualExclusion
  <2>2. futex_word # "Free"
    BY <1>2 DEF UnlockCas, WordTracksHolder
  <2>3. H' = {} \/ H' = H
    BY <1>2, <2>1, <2>2 DEF UnlockCas
  <2> QED
    BY <2>1, <2>3 DEF Lock!Release
<1>3. ASSUME NEW t \in Threads, CasFree(t) PROVE Lock!Release(t) \/ H' = H
  <2>1. H = {t}
    BY <1>3 DEF CasFree, MutualExclusion
  <2>2. H' = {} \/ H' = H
    BY <1>3, <2>1 DEF CasFree
  <2> QED
    BY <2>1, <2>2 DEF Lock!Release
<1>4. ASSUME NEW t \in Threads,
             \/ LockCall(t) \/ LockCasBusy(t) \/ SetWaiting(t) \/ CasWaiting(t)
             \/ FutexWait(t) \/ Interrupted(t) \/ UnlockCall(t) \/ FutexWake(t)
             \/ UnlockFree(t)
      PROVE  H' = H
  BY <1>4 DEF LockCall, LockCasBusy, SetWaiting, CasWaiting, FutexWait, Interrupted,
              UnlockCall, UnlockFree, FutexWake, Asleep, vars
<1>5. CASE UNCHANGED vars
  BY <1>5 DEF vars
<1> QED
  BY <1>1, <1>2, <1>3, <1>4, <1>5 DEF Next, LockStep, UnlockStep, Lock!Next

\* For any number of threads, the futex protocol of lock() and unlock() implements
\* the abstract lock.
THEOREM MutexRefinesLock == Spec => ImplementsAbstractLock
<1>1. Init => Lock!Init
  BY DEF Init, Lock!Init, Holds
<1>2. Init => Exclusion
  BY ExclusionInit
<1>3. Exclusion /\ [Next]_vars => Exclusion'
  BY ExclusionStep
<1>4. Exclusion /\ [Next]_vars => [Lock!Next]_{t \in Threads : Holds(t)}
  BY LockRefinementStep
<1> QED
  BY <1>1, <1>2, <1>3, <1>4, PTL DEF Spec, ImplementsAbstractLock, Lock!Spec
=============================================================================
