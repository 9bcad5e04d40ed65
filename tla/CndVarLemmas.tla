---------------------------- MODULE CndVarLemmas ----------------------------
(***************************************************************************)
(* The invariants that the theorems of CndVarProofs rest on, for every     *)
(* finite set of threads.  QInv: qmtx excludes although notify_one         *)
(* releases it by a store of its own.  ClientInv: who reads and writes the *)
(* queue has qmtx, and who calls broadcast() has m.  ListInv: the linked   *)
(* list, and what notify_one and broadcast have taken from it, as one      *)
(* sequence of waiters that are all still there.  The last section shows   *)
(* that wait() keeps the list.                                             *)
(***************************************************************************)
EXTENDS CndVar, TLAPS

(***************************************************************************)
(* The mutex qmtx                                                          *)
(***************************************************************************)
QTypes ==
  /\ qmtx!TypeOK
  /\ DOMAIN pc = Threads
  /\ home \in [Threads -> {"out", "in"}]

QExclusion == QTypes /\ qmtx!MutualExclusion /\ qmtx!WordTracksHolder

\* A thread about to store Free into the word has qmtx.
StoresOwn == \A t \in Threads : pc[t] = "n_free" => qpc[t] = "held"

QInv == QExclusion /\ StoresOwn

\* The condition variable starts with qmtx free and every client outside.
LEMMA QInvInit == Init => QInv
  BY DEF Init, QInv, QExclusion, QTypes, StoresOwn, qmtx!Init, qmtx!TypeOK, qmtx!PC, qmtx!LockState,
         qmtx!MutualExclusion, qmtx!WordTracksHolder, qmtx!Holds

(***************************************************************************)
(* The steps of qmtx.lock() and qmtx.unlock() keep the exclusion, and take *)
(* no thread out of "held" but the one that calls unlock().                *)
(***************************************************************************)
QmtxMoves(t) ==
  qmtx!LockCall(t) \/ qmtx!LockStep(t) \/ qmtx!UnlockStep(t) \/ qmtx!Interrupted(t)
  \/ qmtx!UnlockCall(t)

\* The mutex by itself: one step of lock() or unlock().
LEMMA QmtxKeepsExclusion ==
  ASSUME qmtx!TypeOK, qmtx!MutualExclusion, qmtx!WordTracksHolder,
         NEW t \in Threads, QmtxMoves(t)
  PROVE  (qmtx!TypeOK /\ qmtx!MutualExclusion /\ qmtx!WordTracksHolder)'
<1> USE DEF qmtx!TypeOK, qmtx!MutualExclusion, qmtx!WordTracksHolder, qmtx!Holds, qmtx!PC,
            qmtx!LockState, qmtx!Goto
<1>1. CASE qmtx!LockCall(t) \/ qmtx!Interrupted(t) \/ qmtx!UnlockCall(t)
  BY <1>1, Zenon DEF qmtx!LockCall, qmtx!Interrupted, qmtx!UnlockCall
<1>2. CASE qmtx!LockCasFree(t)
  BY <1>2 DEF qmtx!LockCasFree
<1>3. CASE qmtx!LockCasBusy(t)
  BY <1>3 DEF qmtx!LockCasBusy
<1>4. CASE qmtx!SetWaiting(t)
  BY <1>4 DEF qmtx!SetWaiting
<1>5. CASE qmtx!CasWaiting(t)
  BY <1>5 DEF qmtx!CasWaiting
<1>6. CASE qmtx!FutexWait(t)
  BY <1>6, Zenon DEF qmtx!FutexWait
<1>7. CASE qmtx!UnlockCas(t)
  BY <1>7 DEF qmtx!UnlockCas
<1>8. CASE qmtx!CasFree(t)
  BY <1>8 DEF qmtx!CasFree
<1>9. CASE qmtx!FutexWake(t)
  BY <1>9, Zenon DEF qmtx!FutexWake, qmtx!Asleep
<1> QED
  BY <1>1, <1>2, <1>3, <1>4, <1>5, <1>6, <1>7, <1>8, <1>9
     DEF QmtxMoves, qmtx!LockStep, qmtx!UnlockStep

\* A thread that has the mutex keeps it until it calls unlock() itself.
LEMMA HeldStays ==
  ASSUME qmtx!TypeOK, NEW t \in Threads, QmtxMoves(t), NEW u \in Threads, qpc[u] = "held",
         u # t \/ ~qmtx!UnlockCall(t)
  PROVE  qpc'[u] = "held"
<1> USE DEF qmtx!TypeOK, qmtx!PC, qmtx!Goto
<1>1. CASE qmtx!LockCall(t) \/ qmtx!Interrupted(t) \/ qmtx!UnlockCall(t)
  BY <1>1 DEF qmtx!LockCall, qmtx!Interrupted, qmtx!UnlockCall
<1>2. CASE qmtx!LockStep(t)
  BY <1>2 DEF qmtx!LockStep, qmtx!LockCasFree, qmtx!LockCasBusy, qmtx!SetWaiting,
              qmtx!CasWaiting, qmtx!FutexWait
<1>3. CASE qmtx!UnlockStep(t)
  BY <1>3 DEF qmtx!UnlockStep, qmtx!UnlockCas, qmtx!CasFree, qmtx!FutexWake, qmtx!Asleep
<1> QED
  BY <1>1, <1>2, <1>3 DEF QmtxMoves

(***************************************************************************)
(* The steps of the condition variable                                     *)
(***************************************************************************)
\* A step that only runs t's part of qmtx: no thread comes to "n_free", and one that
\* is there keeps the mutex.
LEMMA MovesKeepQInv ==
  ASSUME QInv, NEW t \in Threads, QmtxMoves(t),
         DOMAIN pc' = Threads, home' \in [Threads -> {"out", "in"}],
         \A u \in Threads : pc'[u] = "n_free" =>
           pc[u] = "n_free" /\ (u # t \/ ~qmtx!UnlockCall(t))
  PROVE  QInv'
<1>1. (qmtx!TypeOK /\ qmtx!MutualExclusion /\ qmtx!WordTracksHolder)'
  BY QmtxKeepsExclusion DEF QInv, QExclusion, QTypes
<1>2. StoresOwn'
  BY HeldStays DEF QInv, QExclusion, QTypes, StoresOwn
<1> QED
  BY <1>1, <1>2 DEF QInv, QExclusion, QTypes

\* A step that leaves qmtx alone: whoever comes to "n_free" must have it.
LEMMA QuietKeepsQInv ==
  ASSUME QInv, UNCHANGED qvars, DOMAIN pc' = Threads, home' = home,
         \A u \in Threads : pc'[u] = "n_free" => pc[u] = "n_free" \/ qpc[u] = "held"
  PROVE  QInv'
  BY DEF QInv, QExclusion, QTypes, StoresOwn, qvars, qmtx!TypeOK, qmtx!PC, qmtx!LockState,
         qmtx!MutualExclusion, qmtx!WordTracksHolder, qmtx!Holds

\* The store of Free by notify_one: the thread that makes it has the mutex, so the
\* word becomes Free exactly when the last holder is gone.
LEMMA StoreKeepsQInv ==
  ASSUME QInv, NEW t \in Threads, NotifyFrees(t)
  PROVE  QInv'
<1>1. qpc[t] = "held" /\ \A u \in Threads : u # t => ~qmtx!Holds(u)
  BY DEF QInv, QExclusion, StoresOwn, NotifyFrees, qmtx!MutualExclusion, qmtx!Holds
<1>2. (qmtx!TypeOK /\ qmtx!MutualExclusion /\ qmtx!WordTracksHolder)'
  BY <1>1 DEF QInv, QExclusion, QTypes, NotifyFrees, qmtx!TypeOK, qmtx!PC, qmtx!LockState,
              qmtx!MutualExclusion, qmtx!WordTracksHolder, qmtx!Holds
<1>3. QTypes'
  BY <1>2 DEF QInv, QExclusion, QTypes, NotifyFrees, Goto
<1>4. StoresOwn'
  BY DEF QInv, QExclusion, QTypes, StoresOwn, NotifyFrees, Goto, qmtx!TypeOK
<1> QED
  BY <1>2, <1>3, <1>4 DEF QInv, QExclusion

\* Every step of the clients, of wait(), notify_one() and broadcast() keeps QInv.
LEMMA QInvStep == QInv /\ [Next]_vars => QInv'
<1> SUFFICES ASSUME QInv, [Next]_vars PROVE QInv'
  OBVIOUS
<1>a. DOMAIN pc = Threads /\ home \in [Threads -> {"out", "in"}]
  BY DEF QInv, QExclusion, QTypes
<1>1. CASE UNCHANGED vars
  BY <1>1, <1>a, QuietKeepsQInv DEF vars, qvars
<1>2. ASSUME NEW t \in Threads, LockM(t) \/ UnlockM(t) \/ Interrupted(t)
      PROVE  QInv'
  BY <1>2, <1>a, QuietKeepsQInv DEF LockM, UnlockM, Interrupted, Goto
<1>3. ASSUME NEW t \in Threads, QmtxStep(t) \/ QmtxInterrupted(t)
      PROVE  QInv'
  <2>1. QmtxMoves(t) /\ UNCHANGED <<pc, home>>
    BY <1>3 DEF QmtxStep, QmtxInterrupted, QmtxMoves
  <2>2. ~qmtx!UnlockCall(t)
    BY <1>3 DEF QInv, QExclusion, QTypes, QmtxStep, QmtxInterrupted, qmtx!TypeOK, qmtx!Goto,
                qmtx!UnlockCall, qmtx!LockStep, qmtx!UnlockStep, qmtx!Interrupted,
                qmtx!LockCasFree, qmtx!LockCasBusy, qmtx!SetWaiting, qmtx!CasWaiting,
                qmtx!FutexWait, qmtx!UnlockCas, qmtx!CasFree, qmtx!FutexWake
  <2> QED
    BY <2>1, <2>2, <1>a, MovesKeepQInv
<1>4. ASSUME NEW t \in Threads, StartWait(t) \/ StartNotify(t) \/ StartBroadcast(t)
      PROVE  QInv'
  <2>1. Begin(t, "w_qlock") \/ Begin(t, "n_qlock") \/ Begin(t, "b_qlock")
    BY <1>4 DEF StartWait, StartNotify, StartBroadcast
  <2>2. pc[t] \in {"out", "in"}
    BY <1>4 DEF StartWait, StartNotify, StartBroadcast, MaySignal
  <2>3. QmtxMoves(t)
    BY <2>1 DEF Begin, QmtxMoves
  <2>4. /\ DOMAIN pc' = Threads /\ home' \in [Threads -> {"out", "in"}]
        /\ \A u \in Threads : pc'[u] = "n_free" => pc[u] = "n_free" /\ u # t
    BY <2>1, <2>2, <1>a DEF Begin, Goto
  <2> QED
    BY <2>3, <2>4, MovesKeepQInv
<1>5. ASSUME NEW t \in Threads,
             UnlockFails(t) \/ Unlocks(t) \/ NotifyNobody(t) \/ BroadcastDone(t)
      PROVE  QInv'
  <2>1. QmtxMoves(t)
    BY <1>5 DEF UnlockFails, Unlocks, NotifyNobody, BroadcastDone, QmtxMoves
  <2>2. /\ DOMAIN pc' = Threads /\ home' = home
        /\ \A u \in Threads : pc'[u] = "n_free" => pc[u] = "n_free" /\ u # t
    BY <1>5, <1>a DEF UnlockFails, Unlocks, NotifyNobody, BroadcastDone, Goto
  <2> QED
    BY <2>1, <2>2, <1>a, MovesKeepQInv
<1>6. ASSUME NEW t \in Threads, Enqueue(t) \/ FutexWait(t) \/ Relock(t) \/ BroadcastTakes(t)
                                 \/ BroadcastAdvances(t)
      PROVE  QInv'
  BY <1>6, <1>a, QuietKeepsQInv DEF Enqueue, FutexWait, Relock, BroadcastTakes,
                                    BroadcastAdvances, Goto
<1>7. ASSUME NEW t \in Threads, FailedReturns(t) \/ SignalReturns(t)
      PROVE  QInv'
  BY <1>7, <1>a, QuietKeepsQInv DEF FailedReturns, SignalReturns, Goto
<1>8. ASSUME NEW t \in Threads, NotifyPops(t)
      PROVE  QInv'
  BY <1>8, <1>a, QuietKeepsQInv DEF NotifyPops, Goto
<1>9. ASSUME NEW t \in Threads, NotifySignals(t) \/ BroadcastSignals(t)
      PROVE  QInv'
  <2>1. /\ DOMAIN pc' = Threads
        /\ \A u \in Threads : pc'[u] = "n_free" => pc[u] = "n_free"
    BY <1>9, <1>a DEF NotifySignals, BroadcastSignals, WakeOp
  <2>2. UNCHANGED <<qvars, home>>
    BY <1>9 DEF NotifySignals, BroadcastSignals
  <2> QED
    BY <2>1, <2>2, QuietKeepsQInv
<1> QED
  BY <1>1, <1>2, <1>3, <1>4, <1>5, <1>6, <1>7, <1>8, <1>9, StoreKeepsQInv
     DEF Next, WaitStep, SignalStep

(***************************************************************************)
(* Who is at the queue, and who has m                                      *)
(***************************************************************************)
Labels ==
  {"out", "in", "w_qlock", "w_unlock", "w_qunlock", "w_failed_qunlock", "w_asleep", "w_relock",
   "n_qlock", "n_free", "n_wake_op", "b_qlock", "b_loop", "b_next", "s_qunlock"}

\* A thread that reads or writes the queue has qmtx.
AtQueue == \A t \in Threads : pc[t] \in {"w_unlock", "n_free", "b_loop", "b_next"} => qpc[t] = "held"

\* A client that called broadcast() with m held has it until the call returns, and
\* so have those that called wait() until they unlock it.
Owns(t) ==
  \/ pc[t] = "in"
  \/ home[t] = "in" /\ pc[t] \notin {"out", "w_qunlock", "w_asleep", "w_relock"}

Disciplined(c) == c.broadcasters = {} \/ (c.careless = {} /\ c.broadcasters \cap c.bare = {})

OwnerOfM ==
  /\ \A t \in Threads : pc[t] \in {"b_qlock", "b_loop", "b_next"} => t \in cast.broadcasters
  /\ cast.broadcasters # {} =>
       /\ \A t \in Threads : Owns(t) => m_locked
       /\ \A t, u \in Threads : Owns(t) /\ Owns(u) => t = u
       /\ \A t \in Threads :
            pc[t] \in {"w_qlock", "w_unlock", "w_failed_qunlock", "b_qlock", "b_loop", "b_next"} =>
              home[t] = "in"

ClientInv == cast \in Casts /\ pc \in [Threads -> Labels] /\ AtQueue /\ OwnerOfM


\* At the start every client is outside and m is free.
LEMMA ClientInit == Init => ClientInv
  BY DEF Init, ClientInv, AtQueue, OwnerOfM, Owns, Labels

\* The steps inside qmtx: nobody leaves its place, and whoever is at the queue has
\* the mutex still.
LEMMA QmtxKeepsClients ==
  ASSUME QInv, ClientInv, NEW t \in Threads, QmtxStep(t) \/ QmtxInterrupted(t)
  PROVE  ClientInv'
<1>1. QmtxMoves(t) /\ UNCHANGED <<pc, home, m_locked, cast>>
  BY DEF QmtxStep, QmtxInterrupted, QmtxMoves
<1>2. ~qmtx!UnlockCall(t)
  BY DEF QInv, QExclusion, QTypes, QmtxStep, QmtxInterrupted, qmtx!TypeOK, qmtx!Goto,
         qmtx!UnlockCall, qmtx!LockStep, qmtx!UnlockStep, qmtx!Interrupted,
         qmtx!LockCasFree, qmtx!LockCasBusy, qmtx!SetWaiting, qmtx!CasWaiting,
         qmtx!FutexWait, qmtx!UnlockCas, qmtx!CasFree, qmtx!FutexWake
<1>3. AtQueue'
  BY <1>1, <1>2, HeldStays DEF QInv, QExclusion, QTypes, ClientInv, AtQueue
<1> QED
  BY <1>1, <1>3 DEF ClientInv, OwnerOfM, Owns

\* Where a step of t outside qmtx leaves everybody.
LEMMA Whereabouts ==
  ASSUME QInv, ClientInv, NEW t \in Threads,
         \/ LockM(t) \/ UnlockM(t) \/ WaitStep(t) \/ SignalStep(t)
         \/ StartWait(t) \/ StartNotify(t) \/ StartBroadcast(t) \/ Interrupted(t)
  PROVE  /\ pc' \in [Threads -> Labels] /\ cast' = cast
         /\ \A u \in Threads \ {t} :
              /\ qpc'[u] = qpc[u] /\ home'[u] = home[u]
              /\ pc'[u] = pc[u] \/ (pc[u] = "w_asleep" /\ pc'[u] = "w_relock")
<1>a. /\ pc \in [Threads -> Labels] /\ home \in [Threads -> {"out", "in"}]
      /\ qpc \in [Threads -> qmtx!PC]
  BY DEF QInv, QExclusion, QTypes, qmtx!TypeOK, ClientInv
<1> USE DEF Goto, Labels
<1>1. CASE LockM(t) \/ UnlockM(t) \/ Interrupted(t)
  BY <1>a, <1>1 DEF LockM, UnlockM, Interrupted, qvars
<1>2. CASE StartWait(t) \/ StartNotify(t) \/ StartBroadcast(t)
  BY <1>a, <1>2 DEF StartWait, StartNotify, StartBroadcast, Begin, qmtx!LockCall, qmtx!Goto
<1>3. CASE Enqueue(t) \/ FutexWait(t) \/ Relock(t) \/ FailedReturns(t)
  BY <1>a, <1>3 DEF Enqueue, FutexWait, Relock, FailedReturns, qvars
<1>4. CASE UnlockFails(t) \/ Unlocks(t) \/ NotifyNobody(t) \/ BroadcastDone(t)
  BY <1>a, <1>4 DEF UnlockFails, Unlocks, NotifyNobody, BroadcastDone, qmtx!UnlockCall, qmtx!Goto
<1>5. CASE NotifyPops(t) \/ BroadcastTakes(t) \/ BroadcastAdvances(t) \/ SignalReturns(t)
  BY <1>a, <1>5 DEF NotifyPops, BroadcastTakes, BroadcastAdvances, SignalReturns, qvars
<1>6. CASE NotifyFrees(t)
  BY <1>a, <1>6 DEF NotifyFrees
<1>7. CASE NotifySignals(t) \/ BroadcastSignals(t)
  BY <1>a, <1>7 DEF NotifySignals, BroadcastSignals, WakeOp, qvars
<1> QED
  BY <1>1, <1>2, <1>3, <1>4, <1>5, <1>6, <1>7 DEF WaitStep, SignalStep

\* A thread that comes to the queue has qmtx.
LEMMA StepAtQueue ==
  ASSUME QInv, ClientInv, NEW t \in Threads,
         \/ LockM(t) \/ UnlockM(t) \/ WaitStep(t) \/ SignalStep(t)
         \/ StartWait(t) \/ StartNotify(t) \/ StartBroadcast(t) \/ Interrupted(t)
  PROVE  AtQueue'
<1>a. /\ pc \in [Threads -> Labels] /\ home \in [Threads -> {"out", "in"}]
      /\ qpc \in [Threads -> qmtx!PC] /\ AtQueue
  BY DEF QInv, QExclusion, QTypes, qmtx!TypeOK, ClientInv
<1>b. SUFFICES pc'[t] \in {"w_unlock", "n_free", "b_loop", "b_next"} => qpc'[t] = "held"
  BY <1>a, Whereabouts DEF AtQueue
<1> USE DEF Goto
<1>1. CASE LockM(t) \/ UnlockM(t) \/ Interrupted(t)
  BY <1>a, <1>1 DEF LockM, UnlockM, Interrupted
<1>2. CASE StartWait(t) \/ StartNotify(t) \/ StartBroadcast(t)
  BY <1>a, <1>2 DEF StartWait, StartNotify, StartBroadcast, Begin
<1>3. CASE Enqueue(t) \/ FutexWait(t) \/ Relock(t) \/ FailedReturns(t)
  BY <1>a, <1>3 DEF Enqueue, FutexWait, Relock, FailedReturns, qvars
<1>4. CASE UnlockFails(t) \/ Unlocks(t) \/ NotifyNobody(t) \/ BroadcastDone(t)
  BY <1>a, <1>4 DEF UnlockFails, Unlocks, NotifyNobody, BroadcastDone
<1>5. CASE NotifyPops(t) \/ BroadcastTakes(t) \/ BroadcastAdvances(t) \/ SignalReturns(t)
  BY <1>a, <1>5 DEF NotifyPops, BroadcastTakes, BroadcastAdvances, SignalReturns, qvars, AtQueue
<1>6. CASE NotifyFrees(t)
  BY <1>a, <1>6 DEF NotifyFrees
<1>7. CASE NotifySignals(t) \/ BroadcastSignals(t)
  BY <1>a, <1>7 DEF NotifySignals, BroadcastSignals, WakeOp, qvars, AtQueue
<1> QED
  BY <1>1, <1>2, <1>3, <1>4, <1>5, <1>6, <1>7 DEF WaitStep, SignalStep

\* Who has m: LockM and Relock take it from nobody, and only its owner gives it up.
LEMMA StepOwner ==
  ASSUME Disciplined(cast), QInv, ClientInv, NEW t \in Threads,
         \/ LockM(t) \/ UnlockM(t) \/ WaitStep(t) \/ SignalStep(t)
         \/ StartWait(t) \/ StartNotify(t) \/ StartBroadcast(t) \/ Interrupted(t)
  PROVE  OwnerOfM'
<1>a. /\ pc \in [Threads -> Labels] /\ home \in [Threads -> {"out", "in"}] /\ OwnerOfM
  BY DEF QInv, QExclusion, QTypes, ClientInv
<1>b. \A u \in Threads \ {t} :
        /\ Owns(u)' <=> Owns(u)
        /\ home'[u] = home[u]
        /\ pc'[u] = pc[u] \/ (pc[u] = "w_asleep" /\ pc'[u] = "w_relock")
  BY Whereabouts DEF Owns
<1>c. cast' = cast
  BY Whereabouts
<1> USE DEF Goto
<1>1. CASE LockM(t) \/ Relock(t)
  <2>1. ~m_locked /\ m_locked' /\ pc'[t] = "in"
    BY <1>a, <1>1 DEF LockM, Relock
  <2> QED
    BY <1>a, <1>b, <1>c, <2>1 DEF OwnerOfM
<1>2. CASE UnlockM(t) \/ Unlocks(t)
  <2>1. pc'[t] \in {"out", "w_qunlock"} /\ ~m_locked' /\ UNCHANGED home
    BY <1>a, <1>2 DEF UnlockM, Unlocks
  <2>2. cast.broadcasters # {} => Owns(t)
    BY <1>a, <1>2 DEF UnlockM, Unlocks, Owns, OwnerOfM
  <2>3. ~Owns(t)'
    BY <2>1 DEF Owns
  <2> QED
    BY <1>a, <1>b, <1>c, <2>1, <2>2, <2>3 DEF OwnerOfM
<1>d. ASSUME m_locked' = m_locked, Owns(t)' => Owns(t),
             pc'[t] \in {"b_qlock", "b_loop", "b_next"} => t \in cast.broadcasters,
             cast.broadcasters # {}
             /\ pc'[t] \in {"w_qlock", "w_unlock", "w_failed_qunlock", "b_qlock", "b_loop", "b_next"}
               => home'[t] = "in"
      PROVE  OwnerOfM'
  BY <1>a, <1>b, <1>c, <1>d DEF OwnerOfM
<1>3. CASE StartWait(t) \/ StartNotify(t) \/ StartBroadcast(t)
  <2>1. m_locked' = m_locked /\ home'[t] = pc[t] /\ pc[t] \in {"in", "out"}
    BY <1>a, <1>3 DEF StartWait, StartNotify, StartBroadcast, Begin, MaySignal
  <2>2. Owns(t)' => Owns(t)
    BY <1>a, <1>3, <2>1 DEF StartWait, StartNotify, StartBroadcast, Begin, Owns
  <2>3. pc'[t] \in {"b_qlock", "b_loop", "b_next"} => t \in cast.broadcasters /\ home'[t] = "in"
    BY <1>a, <1>3, <2>1 DEF StartWait, StartNotify, StartBroadcast, Begin, MaySignal, Disciplined
  <2>4. cast.broadcasters # {} /\ pc'[t] \in {"w_qlock", "w_unlock", "w_failed_qunlock"} => home'[t] = "in"
    BY <1>a, <1>3, <2>1 DEF StartWait, StartNotify, StartBroadcast, Begin, Disciplined
  <2> QED
    BY <1>d, <2>1, <2>2, <2>3, <2>4
<1>4. CASE Enqueue(t) \/ FutexWait(t) \/ FailedReturns(t) \/ UnlockFails(t) \/ Interrupted(t)
  <2>1. UNCHANGED <<m_locked, home>> /\ home[t] \in {"in", "out"}
    BY <1>a, <1>4, Zenon DEF Enqueue, FutexWait, FailedReturns, UnlockFails, Interrupted
  <2>2. Owns(t)' => Owns(t)
    BY <1>a, <1>4, <2>1 DEF Enqueue, FutexWait, FailedReturns, UnlockFails, Interrupted, Owns
  <2>3. /\ pc'[t] \notin {"b_qlock", "b_loop", "b_next"}
        /\ pc'[t] \in {"w_qlock", "w_unlock", "w_failed_qunlock"} =>
             pc[t] \in {"w_qlock", "w_unlock", "w_failed_qunlock"}
    BY <1>a, <1>4, <2>1 DEF Enqueue, FutexWait, FailedReturns, UnlockFails, Interrupted
  <2> QED
    BY <1>a, <1>d, <2>1, <2>2, <2>3 DEF OwnerOfM
<1>5. CASE NotifyNobody(t) \/ NotifyPops(t) \/ NotifyFrees(t) \/ NotifySignals(t) \/ SignalReturns(t)
           \/ BroadcastDone(t)
  <2>1. UNCHANGED <<m_locked, home>> /\ home[t] \in {"in", "out"}
    BY <1>a, <1>5 DEF NotifyNobody, NotifyPops, NotifyFrees, NotifySignals, SignalReturns, BroadcastDone
  <2>2. /\ pc'[t] \in {"s_qunlock", "n_free", "n_wake_op", home[t]}
        /\ pc[t] \in {"n_qlock", "n_free", "n_wake_op", "s_qunlock", "b_loop"}
    BY <1>a, <1>5 DEF NotifyNobody, NotifyPops, NotifyFrees, NotifySignals, SignalReturns, BroadcastDone,
                      WakeOp
  <2>3. Owns(t)' => Owns(t)
    BY <2>1, <2>2 DEF Owns
  <2> QED
    BY <1>d, <2>1, <2>2, <2>3
<1>6. CASE BroadcastTakes(t) \/ BroadcastSignals(t) \/ BroadcastAdvances(t)
  <2>1. UNCHANGED <<m_locked, home>>
    BY <1>6 DEF BroadcastTakes, BroadcastSignals, BroadcastAdvances
  <2>2. pc[t] \in {"b_qlock", "b_loop", "b_next"} /\ pc'[t] \in {"b_loop", "b_next"}
    BY <1>a, <1>6 DEF BroadcastTakes, BroadcastSignals, BroadcastAdvances, WakeOp
  <2>3. Owns(t)' => Owns(t)
    BY <2>1, <2>2 DEF Owns
  <2> QED
    BY <1>a, <1>d, <2>1, <2>2, <2>3, Zenon DEF OwnerOfM
<1> QED
  BY <1>1, <1>2, <1>3, <1>4, <1>5, <1>6 DEF WaitStep, SignalStep

LEMMA ClientStep ==
  ASSUME \A c \in Casts : Disciplined(c), QInv, ClientInv, [Next]_vars
  PROVE  ClientInv'
<1>1. CASE UNCHANGED vars
  BY <1>1 DEF vars, qvars, ClientInv, AtQueue, OwnerOfM, Owns
<1>2. ASSUME NEW t \in Threads,
             \/ LockM(t) \/ UnlockM(t) \/ WaitStep(t) \/ SignalStep(t)
             \/ StartWait(t) \/ StartNotify(t) \/ StartBroadcast(t) \/ Interrupted(t)
      PROVE  ClientInv'
  BY <1>2, Whereabouts, StepAtQueue, StepOwner DEF ClientInv
<1> QED
  BY <1>1, <1>2, QmtxKeepsClients DEF Next

(***************************************************************************)
(* The waiters                                                             *)
(***************************************************************************)
InWait == {"w_qlock", "w_unlock", "w_qunlock", "w_failed_qunlock", "w_asleep", "w_relock"}

NodeTypes ==
  /\ status \in [Threads -> {"WS_Waiting", "WS_Signalled"}]
  /\ next \in [Threads -> Pointer] /\ target \in [Threads -> Pointer]
  /\ alive = {t \in Threads : pc[t] \in InWait}
  /\ \A t \in Threads : pc[t] = "w_qlock" => status[t] = "WS_Waiting" /\ next[t] = NULL

\* A waiter that nobody has signalled yet.
Parked(t) == pc[t] \in {"w_unlock", "w_qunlock", "w_asleep"} /\ status[t] = "WS_Waiting"

Notifying(t) == pc[t] \in {"n_free", "n_wake_op"}
Broadcasting(t) == pc[t] \in {"b_loop", "b_next"}

\* l is the linked list that starts at x, and its nodes wait.
Linked(l, x) ==
  /\ \A i, j \in DOMAIN l : l[i] = l[j] => i = j
  /\ x = IF l = <<>> THEN NULL ELSE l[1]
  /\ \A i \in DOMAIN l : Parked(l[i]) /\ next[l[i]] = IF i = Len(l) THEN NULL ELSE l[i + 1]

\* Nobody in l is about to be signalled by a notify_one.
Unpicked(l) == \A t \in Threads : Notifying(t) => \A i \in DOMAIN l : l[i] # target[t]

\* While nobody is inside broadcast(), l is the queue.
Queued(l) ==
  (\A t \in Threads : ~Broadcasting(t)) =>
    Linked(l, waitq_front) /\ waitq_back = IF l = <<>> THEN NULL ELSE l[Len(l)]

\* Inside broadcast() the queue is empty, and l is what it has still to visit.
ToVisit(l) ==
  \A t \in Threads : Broadcasting(t) =>
    /\ waitq_front = NULL /\ waitq_back = NULL
    /\ Linked(l, IF pc[t] = "b_loop" THEN target[t] ELSE next[target[t]])

\* A thread that has enqueued itself and not yet let go of qmtx is the last, and remembers
\* the one before it.
Withdrawable(l) ==
  \A t \in Threads : pc[t] = "w_unlock" =>
    /\ l # <<>> /\ l[Len(l)] = t
    /\ target[t] = IF Len(l) = 1 THEN NULL ELSE l[Len(l) - 1]

\* Every parked waiter is in l, or in the hand of a notify_one.
NoneMissed(l) ==
  \A t \in Threads : Parked(t) =>
    \/ \E i \in DOMAIN l : l[i] = t
    \/ \E u \in Threads : Notifying(u) /\ target[u] = t

\* l has the waiters that no signaller has picked out: those in the queue or, while
\* somebody is inside broadcast(), those it has still to visit.
Holding(l) == l \in Seq(Threads) /\ Unpicked(l) /\ Queued(l) /\ ToVisit(l) /\ Withdrawable(l) /\ NoneMissed(l)

\* A notify_one has one waiter in its hand, which is parked for good.
Picked ==
  \A t \in Threads : Notifying(t) =>
    target[t] \in Threads /\ Parked(target[t]) /\ pc[target[t]] # "w_unlock"

\* No two of them have the same.
PickedOnce == \A t, u \in Threads : Notifying(t) /\ Notifying(u) /\ target[t] = target[u] => t = u

\* The node whose next a broadcast is about to read has not returned from wait().
NextReadable ==
  \A t \in Threads : pc[t] = "b_next" =>
    /\ target[t] \in Threads /\ pc[target[t]] \in {"w_qunlock", "w_relock"}
    /\ status[target[t]] = "WS_Signalled"

\* What the signallers have in their hands.
Hands == Picked /\ PickedOnce /\ NextReadable

ListInv == NodeTypes /\ Hands /\ \E l \in Seq(Threads) : Holding(l)

LEMMA ElementsAreThreads == \A l \in Seq(Threads) : \A i \in DOMAIN l : l[i] \in Threads
  OBVIOUS

LEMMA EmptyList == \A l \in Seq(Threads) : Len(l) = 0 <=> l = <<>>
  OBVIOUS

\* Two threads do not have qmtx at the same time.
LEMMA OneHolder ==
  ASSUME QInv, NEW t \in Threads, NEW u \in Threads, qpc[t] = "held", qpc[u] = "held"
  PROVE  t = u
  BY DEF QInv, QExclusion, qmtx!MutualExclusion, qmtx!Holds

\* Nothing is queued at the start.
LEMMA WaitersInit == Init => NodeTypes /\ Hands /\ Holding(<<>>)
<1> SUFFICES ASSUME Init PROVE NodeTypes /\ Hands /\ Holding(<<>>)
  OBVIOUS
<1>1. NodeTypes /\ Hands
  BY DEF Init, NodeTypes, Hands, Picked, PickedOnce, NextReadable, Notifying, InWait, Pointer
<1>2. Holding(<<>>)
  BY DEF Init, Holding, Unpicked, Queued, ToVisit, Withdrawable, NoneMissed, Linked, Notifying, Broadcasting, Parked
<1> QED
  BY <1>1, <1>2

\* The steps of t that change neither the queue nor what is parked in it.
LEMMA KeepsLists ==
  ASSUME NEW l, Hands, Holding(l), NEW t \in Threads,
         \A u \in Threads \ {t} :
           pc'[u] = pc[u] /\ status'[u] = status[u] /\ next'[u] = next[u],
         UNCHANGED <<waitq_front, waitq_back, target>>,
         Parked(t)' <=> Parked(t), Parked(t) => next'[t] = next[t],
         Notifying(t)' <=> Notifying(t),
         Broadcasting(t)' => pc'[t] = pc[t],
         Broadcasting(t) /\ ~Broadcasting(t)' => pc[t] = "b_loop" /\ target[t] = NULL,
         pc'[t] = "w_unlock" => pc[t] = "w_unlock",
         \A u \in Threads : pc[u] = "b_next" /\ target[u] = t =>
           pc'[t] \in {"w_qunlock", "w_relock"} /\ next'[t] = next[t] /\ status'[t] = status[t],
         QInv, AtQueue
  PROVE  Hands' /\ Holding(l)'
<1>1. \A u \in Threads : (Parked(u)' <=> Parked(u)) /\ (Notifying(u)' <=> Notifying(u))
  BY DEF Parked, Notifying
<1>2. \A u \in Threads : Parked(u) => next'[u] = next[u]
  OBVIOUS
<1>3. \A u \in Threads : Broadcasting(u)' => Broadcasting(u) /\ pc'[u] = pc[u]
  BY DEF Broadcasting
<1>4. Hands'
  <2>1. \A u \in Threads : Notifying(u)' =>
          target'[u] \in Threads /\ Parked(target[u])' /\ pc'[target'[u]] # "w_unlock"
    BY <1>1 DEF Hands, Picked
  <2>2. \A u \in Threads : pc'[u] = "b_next" => 
       /\ target'[u] \in Threads /\ pc'[target'[u]] \in {"w_qunlock", "w_relock"}
       /\ status'[target'[u]] = "WS_Signalled"
    BY <1>3 DEF Hands, NextReadable, Broadcasting
  <2> QED
    BY <1>1, <2>1, <2>2 DEF Hands, Picked, PickedOnce, NextReadable
<1>5. l \in Seq(Threads) /\ \A i \in DOMAIN l : l[i] \in Threads
  <2>1. l \in Seq(Threads)
    BY Zenon DEF Holding
  <2> QED
    BY <2>1, ElementsAreThreads, Zenon
<1>6. ASSUME NEW x, Linked(l, x)
      PROVE  /\ x = IF l = <<>> THEN NULL ELSE l[1]
             /\ \A i, j \in DOMAIN l : l[i] = l[j] => i = j
             /\ \A i \in DOMAIN l : Parked(l[i])' /\ next'[l[i]] = IF i = Len(l) THEN NULL ELSE l[i + 1]
  BY <1>1, <1>2, <1>5, <1>6 DEF Linked
<1>7. \A u \in Threads : Broadcasting(u)' =>
       /\ waitq_front' = NULL /\ waitq_back' = NULL
       /\ Linked(l, IF pc[u] = "b_loop" THEN target[u] ELSE next[target[u]])'
  <2> SUFFICES ASSUME NEW u \in Threads, Broadcasting(u)'
               PROVE  /\ waitq_front' = NULL /\ waitq_back' = NULL
                      /\ Linked(l, IF pc[u] = "b_loop" THEN target[u] ELSE next[target[u]])'
    OBVIOUS
  <2>1. /\ Broadcasting(u) /\ pc'[u] = pc[u] /\ waitq_front = NULL /\ waitq_back = NULL
        /\ Linked(l, IF pc[u] = "b_loop" THEN target[u] ELSE next[target[u]])
    BY <1>3 DEF Holding, ToVisit
  <2>2. pc[u] # "b_loop" => next'[target[u]] = next[target[u]]
    BY <2>1 DEF Hands, NextReadable, Broadcasting
  <2>3. (IF pc[u] = "b_loop" THEN target[u] ELSE next[target[u]])'
          = IF pc[u] = "b_loop" THEN target[u] ELSE next[target[u]]
    BY <2>1, <2>2
  <2> QED
    BY <1>6, <2>1, <2>3 DEF Linked
<1>8. (\A u \in Threads : ~Broadcasting(u)') =>
         Linked(l, waitq_front)' /\ waitq_back' = IF l = <<>> THEN NULL ELSE l[Len(l)]
  <2> SUFFICES ASSUME \A u \in Threads : ~Broadcasting(u)'
               PROVE  Linked(l, waitq_front)' /\ waitq_back' = IF l = <<>> THEN NULL ELSE l[Len(l)]
    OBVIOUS
  <2>1. CASE \A u \in Threads : ~Broadcasting(u)
    BY <1>6, <2>1 DEF Holding, Queued, Linked
  <2>2. CASE Broadcasting(t)
    <3>1. /\ waitq_front = NULL /\ waitq_back = NULL /\ Linked(l, NULL)
      BY <2>2, Zenon DEF Holding, ToVisit
    <3>2. l = <<>>
      <4>1. NULL = IF l = <<>> THEN NULL ELSE l[1]
        BY <3>1, Zenon DEF Linked
      <4>2. l # <<>> => 1 \in DOMAIN l
        BY <1>5
      <4> QED
        BY <1>5, <4>1, <4>2, CndVarAssumptions, Zenon
    <3> QED
      BY <1>6, <3>1, <3>2 DEF Linked
  <2>3. ASSUME NEW u \in Threads \ {t}, Broadcasting(u) PROVE FALSE
    BY <2>3 DEF Broadcasting
  <2> QED
    BY <2>1, <2>2, <2>3
<1>9. \A u \in Threads : pc'[u] = "w_unlock" => pc[u] = "w_unlock"
  BY Zenon
<1> QED
  BY <1>1, <1>4, <1>7, <1>8, <1>9 DEF Holding, Unpicked, Queued, ToVisit, Withdrawable, NoneMissed

Quiet(t) ==
  \/ LockM(t) \/ UnlockM(t) \/ QmtxStep(t) \/ QmtxInterrupted(t)
  \/ Unlocks(t) \/ FailedReturns(t) \/ FutexWait(t) \/ Relock(t)
  \/ StartWait(t) \/ StartNotify(t) \/ StartBroadcast(t)
  \/ NotifyNobody(t) \/ NotifyFrees(t) \/ BroadcastDone(t) \/ SignalReturns(t)

\* The steps that leave the list as it is.  A wait() that returns is not in the hand of
\* a broadcaster, who has m.
LEMMA QuietKeepsLists ==
  ASSUME QInv, ClientInv, NodeTypes, Hands, NEW l, Holding(l), NEW t \in Threads, Quiet(t)
  PROVE  NodeTypes' /\ Hands' /\ Holding(l)'
<1>a. /\ pc \in [Threads -> Labels] /\ home \in [Threads -> {"out", "in"}] /\ AtQueue
  BY DEF QInv, QExclusion, QTypes, ClientInv
<1>b. ASSUME NEW p, pc' = [pc EXCEPT ![t] = p],
             UNCHANGED <<waitq_front, waitq_back, target, status, next>>,
             alive' = {u \in Threads : pc'[u] \in InWait},
             p = "w_qlock" => pc[t] = "w_qlock",
             p \in {"w_unlock", "w_qunlock", "w_asleep"} /\ status[t] = "WS_Waiting"
               <=> Parked(t),
             p \in {"n_free", "n_wake_op"} <=> Notifying(t),
             p \in {"b_loop", "b_next"} => p = pc[t],
             Broadcasting(t) /\ p \notin {"b_loop", "b_next"} => pc[t] = "b_loop" /\ target[t] = NULL,
             p = "w_unlock" => pc[t] = "w_unlock",
             \A u \in Threads : pc[u] = "b_next" /\ target[u] = t => p \in {"w_qunlock", "w_relock"}
      PROVE  NodeTypes' /\ Hands' /\ Holding(l)'
  <2>1. pc'[t] = p /\ \A u \in Threads \ {t} : pc'[u] = pc[u]
    BY <1>a, <1>b
  <2>2. NodeTypes'
    BY <1>b, <2>1 DEF NodeTypes
  <2>3. (Parked(t)' <=> Parked(t)) /\ (Notifying(t)' <=> Notifying(t))
    BY <1>b, <2>1 DEF Parked, Notifying
  <2>4. /\ Broadcasting(t)' => pc'[t] = pc[t]
        /\ Broadcasting(t) /\ ~Broadcasting(t)' => pc[t] = "b_loop" /\ target[t] = NULL
    BY <1>b, <2>1 DEF Broadcasting
  <2> QED
    BY <1>a, <1>b, <2>1, <2>2, <2>3, <2>4, KeepsLists
<1>c. ASSUME pc[t] \notin {"w_qunlock", "w_relock"}
      PROVE  \A u \in Threads : ~(pc[u] = "b_next" /\ target[u] = t)
  BY <1>c DEF Hands, NextReadable
<1>d. alive = {u \in Threads : pc[u] \in InWait}
  BY DEF NodeTypes
<1> USE DEF Goto, InWait, Parked, Notifying, Broadcasting
<1>1. CASE QmtxStep(t) \/ QmtxInterrupted(t)
  <2>1. UNCHANGED <<pc, waitq_front, waitq_back, status, next, target, alive>>
    BY <1>1 DEF QmtxStep, QmtxInterrupted, queue, nodes
  <2> QED
    BY <2>1, KeepsLists, <1>a DEF NodeTypes, Hands, NextReadable
<1>2. CASE LockM(t) \/ UnlockM(t) \/ StartNotify(t) \/ StartBroadcast(t)
  <2>1. /\ pc[t] \in {"in", "out"} /\ UNCHANGED <<waitq_front, waitq_back, status, next, target, alive>>
        /\ \E p \in {"in", "out", "n_qlock", "b_qlock"} : pc' = [pc EXCEPT ![t] = p]
    BY <1>2 DEF LockM, UnlockM, StartNotify, StartBroadcast, MaySignal, Begin, queue, nodes
  <2>2. alive' = {u \in Threads : pc'[u] \in InWait}
    BY <1>a, <1>d, <2>1
  <2> QED
    BY <1>b, <1>c, <2>1, <2>2, Zenon
<1>3. CASE Unlocks(t)
  <2>1. /\ pc[t] = "w_unlock" /\ UNCHANGED <<waitq_front, waitq_back, status, next, target, alive>>
        /\ pc' = [pc EXCEPT ![t] = "w_qunlock"]
    BY <1>3 DEF Unlocks, queue, nodes
  <2>2. alive' = {u \in Threads : pc'[u] \in InWait}
    BY <1>a, <1>d, <2>1
  <2> QED
    BY <1>b, <1>c, <2>1, <2>2, Zenon
<1>4. CASE FailedReturns(t)
  <2>1. /\ pc[t] = "w_failed_qunlock" /\ UNCHANGED <<waitq_front, waitq_back, status, next, target>>
        /\ \E p \in {"in", "out"} : pc' = [pc EXCEPT ![t] = p]
        /\ alive' = alive \ {t}
    BY <1>a, <1>4, Zenon DEF FailedReturns, queue
  <2>2. alive' = {u \in Threads : pc'[u] \in InWait}
    BY <1>a, <1>d, <2>1
  <2> QED
    BY <1>b, <1>c, <2>1, <2>2, Zenon
<1>5. CASE FutexWait(t)
  <2>1. /\ pc[t] = "w_qunlock" /\ UNCHANGED <<waitq_front, waitq_back, status, next, target, alive>>
        /\ pc' = [pc EXCEPT ![t] = IF status[t] = "WS_Waiting" THEN "w_asleep" ELSE "w_relock"]
    BY <1>5 DEF FutexWait, queue, nodes
  <2>2. alive' = {u \in Threads : pc'[u] \in InWait}
    BY <1>a, <1>d, <2>1
  <2>3. \A u \in Threads : pc[u] = "b_next" /\ target[u] = t => status[t] # "WS_Waiting"
    BY DEF Hands, NextReadable
  <2> QED
    BY <1>b, <2>1, <2>2, <2>3, Zenon
<1>6. CASE Relock(t)
  <2>1. /\ pc[t] = "w_relock" /\ UNCHANGED <<waitq_front, waitq_back, status, next, target>>
        /\ pc' = [pc EXCEPT ![t] = "in"] /\ alive' = alive \ {t} /\ ~m_locked
    BY <1>6 DEF Relock, queue
  <2>2. alive' = {u \in Threads : pc'[u] \in InWait}
    BY <1>a, <1>d, <2>1
  <2>3. \A u \in Threads : pc[u] # "b_next"
    BY <2>1 DEF ClientInv, OwnerOfM, Owns
  <2> QED
    BY <1>b, <2>1, <2>2, <2>3, Zenon
<1>7. CASE NotifyNobody(t) \/ SignalReturns(t) \/ NotifyFrees(t) \/ BroadcastDone(t)
  <2>1. /\ UNCHANGED <<waitq_front, waitq_back, status, next, target, alive>>
        /\ \/ /\ pc[t] \in {"n_qlock", "s_qunlock"}
              /\ \E p \in {"in", "out", "s_qunlock"} : pc' = [pc EXCEPT ![t] = p]
           \/ pc[t] = "n_free" /\ pc' = [pc EXCEPT ![t] = "n_wake_op"]
           \/ pc[t] = "b_loop" /\ target[t] = NULL /\ pc' = [pc EXCEPT ![t] = "s_qunlock"]
    BY <1>a, <1>7 DEF NotifyNobody, SignalReturns, NotifyFrees, BroadcastDone, queue, nodes
  <2>2. alive' = {u \in Threads : pc'[u] \in InWait}
    BY <1>a, <1>d, <2>1
  <2> QED
    BY <1>b, <1>c, <2>1, <2>2
<1>8. CASE StartWait(t)
  <2>1. /\ pc[t] \in {"in", "out"} /\ UNCHANGED <<waitq_front, waitq_back, target>>
        /\ pc' = [pc EXCEPT ![t] = "w_qlock"] /\ alive' = alive \cup {t}
        /\ status' = [status EXCEPT ![t] = "WS_Waiting"] /\ next' = [next EXCEPT ![t] = NULL]
    BY <1>8, Zenon DEF StartWait, Begin, queue
  <2>2. /\ pc'[t] = "w_qlock" /\ status'[t] = "WS_Waiting" /\ next'[t] = NULL
        /\ \A u \in Threads \ {t} : pc'[u] = pc[u] /\ status'[u] = status[u] /\ next'[u] = next[u]
    BY <1>a, <2>1 DEF NodeTypes
  <2>3. NodeTypes'
    BY <1>a, <1>d, <2>1, <2>2 DEF NodeTypes, Pointer
  <2> QED
    BY <1>a, <1>c, <2>1, <2>2, <2>3, KeepsLists
<1> QED
  BY <1>1, <1>2, <1>3, <1>4, <1>5, <1>6, <1>7, <1>8 DEF Quiet

\* While t has qmtx nobody else is at the queue.
LEMMA AloneAtQueue ==
  ASSUME QInv, ClientInv, NEW t \in Threads, qpc[t] = "held", NEW u \in Threads, u # t
  PROVE  pc[u] \notin {"w_unlock", "n_free", "b_loop", "b_next"}
  BY OneHolder DEF ClientInv, AtQueue

\* A waiter joins at the back.
LEMMA EnqueueAppends ==
  ASSUME QInv, ClientInv, NodeTypes, Hands, NEW l, Holding(l), NEW t \in Threads, Enqueue(t)
  PROVE  /\ NodeTypes' /\ Hands' /\ Holding(Append(l, t))'
         /\ \A u \in Threads : ~Broadcasting(u) /\ ~Broadcasting(u)'
<1>a. /\ pc \in [Threads -> Labels] /\ l \in Seq(Threads) /\ NULL \notin Threads
      /\ status \in [Threads -> {"WS_Waiting", "WS_Signalled"}]
      /\ next \in [Threads -> Pointer] /\ target \in [Threads -> Pointer]
  BY CndVarAssumptions DEF ClientInv, NodeTypes, Holding
<1>b. /\ pc[t] = "w_qlock" /\ qpc[t] = "held" /\ waitq_back' = t /\ UNCHANGED <<status, alive>>
      /\ pc' = [pc EXCEPT ![t] = "w_unlock"]
      /\ \/ waitq_front = NULL /\ waitq_front' = t /\ target' = [target EXCEPT ![t] = NULL] /\ UNCHANGED next
         \/ /\ waitq_front # NULL /\ waitq_front' = waitq_front
            /\ next' = [next EXCEPT ![waitq_back] = t] /\ target' = [target EXCEPT ![t] = waitq_back]
  BY DEF Enqueue, Goto, Aim
<1>c. \A u \in Threads \ {t} : pc[u] \notin {"w_unlock", "n_free", "b_loop", "b_next"}
  BY <1>b, AloneAtQueue
<1>d. pc'[t] = "w_unlock" /\ \A u \in Threads \ {t} : pc'[u] = pc[u] /\ target'[u] = target[u]
  BY <1>a, <1>b
<1>e. \A u \in Threads : ~Broadcasting(u) /\ ~Broadcasting(u)'
  BY <1>b, <1>c, <1>d DEF Broadcasting
<1>f. Linked(l, waitq_front) /\ waitq_back = IF l = <<>> THEN NULL ELSE l[Len(l)]
  BY <1>e DEF Holding, Queued
<1>g. /\ status[t] = "WS_Waiting" /\ next[t] = NULL /\ ~Parked(t) /\ ~Notifying(t) /\ ~Notifying(t)'
      /\ Parked(t)'
  BY <1>b, <1>d DEF NodeTypes, Parked, Notifying
<1>h. \A u \in Threads \ {t} : (Parked(u)' <=> Parked(u)) /\ (Notifying(u)' <=> Notifying(u))
  BY <1>b, <1>d DEF Parked, Notifying
<1> PICK n \in Nat : n = Len(l)
  BY <1>a
<1> PICK k : k = Append(l, t)
  BY Zenon
<1>i. /\ k \in Seq(Threads) /\ Len(k) = n + 1 /\ DOMAIN k = 1 .. n + 1 /\ k[n + 1] = t
      /\ \A i \in 1 .. n : k[i] = l[i] /\ l[i] \in Threads /\ i \in DOMAIN l
      /\ DOMAIN l = 1 .. n
  BY <1>a
<1>j. \A i \in 1 .. n : Parked(l[i]) /\ l[i] # t
  BY <1>f, <1>g, <1>i DEF Linked
<1>k. n = 0 <=> l = <<>>
  BY <1>a
<1>l. n = 0 <=> waitq_front = NULL
  BY <1>a, <1>f, <1>i, <1>k DEF Linked
<1>m. n # 0 => waitq_back = l[n] /\ waitq_back \in Threads /\ n \in 1 .. n
  BY <1>f, <1>i, <1>k
<1>1. NodeTypes'
  <2>1. next' \in [Threads -> Pointer] /\ target' \in [Threads -> Pointer]
    <3>1. waitq_front # NULL => waitq_back \in Threads
      BY <1>l, <1>m
    <3>2. t \in Pointer /\ NULL \in Pointer /\ Threads \subseteq Pointer
      BY DEF Pointer
    <3> QED
      BY <1>a, <1>b, <3>1, <3>2
  <2>2. alive' = {u \in Threads : pc'[u] \in InWait}
    BY <1>a, <1>b DEF NodeTypes, InWait
  <2>3. ASSUME NEW u \in Threads, pc'[u] = "w_qlock" PROVE status'[u] = "WS_Waiting" /\ next'[u] = NULL
    <3>1. u # t /\ pc[u] = "w_qlock" /\ status[u] = "WS_Waiting" /\ next[u] = NULL
      BY <1>d, <2>3 DEF NodeTypes
    <3>2. n # 0 => waitq_back # u
      BY <1>j, <1>m, <3>1 DEF Parked
    <3> QED
      BY <1>a, <1>b, <1>l, <3>1, <3>2
  <2> QED
    BY <1>a, <1>b, <2>1, <2>2, <2>3 DEF NodeTypes
<1>2. Hands'
  <2>1. \A u \in Threads : Notifying(u)' => Notifying(u) /\ target'[u] = target[u]
    BY <1>d, <1>g, <1>h
  <2>2. \A u \in Threads : Notifying(u) => target[u] # t
    BY <1>g DEF Hands, Picked
  <2>3. ASSUME NEW u \in Threads, Notifying(u)'
        PROVE  target'[u] \in Threads /\ Parked(target[u])' /\ pc'[target'[u]] # "w_unlock"
    BY <1>d, <1>h, <2>1, <2>2, <2>3 DEF Hands, Picked
  <2>4. \A u \in Threads : pc'[u] # "b_next"
    BY <1>e DEF Broadcasting
  <2> QED
    BY <2>1, <2>3, <2>4 DEF Hands, Picked, PickedOnce, NextReadable
<1>3. Linked(k, waitq_front)' /\ waitq_back' = k[Len(k)] /\ k # <<>>
  <2>1. \A i, j \in DOMAIN k : k[i] = k[j] => i = j
    BY <1>f, <1>i, <1>j DEF Linked
  <2>2. waitq_front' = k[1] /\ k # <<>>
    <3>1. CASE n = 0
      BY <1>b, <1>i, <1>l, <3>1
    <3>2. CASE n # 0
      BY <1>b, <1>f, <1>i, <1>k, <1>l, <3>2 DEF Linked
    <3> QED
      BY <3>1, <3>2
  <2>3. ASSUME NEW i \in DOMAIN k
        PROVE  Parked(k[i])' /\ next'[k[i]] = IF i = Len(k) THEN NULL ELSE k[i + 1]
    <3>1. CASE i = n + 1
      BY <1>a, <1>b, <1>g, <1>i, <1>j, <1>l, <1>m, <3>1
    <3>2. CASE i \in 1 .. n
      <4>1. Parked(k[i])'
        BY <1>h, <1>i, <1>j, <3>2
      <4>2. CASE i = n
        BY <1>a, <1>b, <1>i, <1>l, <1>m, <3>2, <4>1, <4>2
      <4>3. CASE i < n
        <5>1. i + 1 \in 1 .. n /\ i # n /\ next[l[i]] = l[i + 1] /\ l[i] # l[n]
          BY <1>f, <1>i, <3>2, <4>3 DEF Linked
        <5> QED
          BY <1>a, <1>b, <1>i, <1>l, <1>m, <3>2, <4>1, <4>3, <5>1
      <4> QED
        BY <3>2, <4>2, <4>3
    <3> QED
      BY <1>i, <3>1, <3>2
  <2> QED
    BY <1>b, <1>i, <2>1, <2>2, <2>3, Zenon DEF Linked
<1>4. ASSUME NEW u \in Threads, Notifying(u)', NEW i \in DOMAIN k PROVE k[i] # target'[u]
  <2>1. Notifying(u) /\ u # t /\ target'[u] = target[u] /\ target[u] # t
    BY <1>4, <1>d, <1>g, <1>h DEF Hands, Picked
  <2>2. \A j \in DOMAIN l : l[j] # target[u]
    BY <2>1, Zenon DEF Holding, Unpicked
  <2>3. i = n + 1 \/ i \in 1 .. n
    BY <1>i
  <2>4. k[i] = t \/ (i \in DOMAIN l /\ k[i] = l[i])
    BY <1>i, <2>3
  <2> QED
    BY <2>1, <2>2, <2>4, Zenon
<1>5. ASSUME NEW u \in Threads, pc'[u] = "w_unlock"
      PROVE  /\ k # <<>> /\ k[Len(k)] = u
             /\ target'[u] = IF Len(k) = 1 THEN NULL ELSE k[Len(k) - 1]
  <2>1. u = t
    BY <1>5, <1>c, <1>d
  <2> QED
    BY <1>a, <1>b, <1>i, <1>l, <1>m, <1>3, <2>1
<1>6. ASSUME NEW u \in Threads, Parked(u)'
      PROVE  (\E i \in DOMAIN k : k[i] = u) \/ \E v \in Threads : Notifying(v)' /\ target'[v] = u
  <2>1. CASE u = t
    BY <1>i, <2>1
  <2>2. CASE u # t
    <3>1. Parked(u)
      BY <1>6, <1>h, <2>2
    <3>2. CASE \E i \in DOMAIN l : l[i] = u
      BY <1>i, <3>2
    <3>3. CASE \E v \in Threads : Notifying(v) /\ target[v] = u
      BY <1>d, <1>g, <1>h, <3>3
    <3> QED
      BY <3>1, <3>2, <3>3 DEF Holding, NoneMissed
  <2> QED
    BY <2>1, <2>2
<1>7. Holding(k)'
  BY <1>e, <1>i, <1>3, <1>4, <1>5, <1>6, Zenon DEF Holding, Unpicked, Queued, ToVisit, Withdrawable, NoneMissed
<1> QED
  BY <1>e, <1>1, <1>2, <1>7

\* A waiter that could not unlock m leaves the back of the queue.
LEMMA UnlockFailsRemovesLast ==
  ASSUME QInv, ClientInv, NodeTypes, Hands, NEW l, Holding(l), NEW t \in Threads, UnlockFails(t)
  PROVE  /\ l # <<>> /\ l[Len(l)] = t
         /\ NodeTypes' /\ Hands' /\ Holding(SubSeq(l, 1, Len(l) - 1))'
         /\ \A u \in Threads : ~Broadcasting(u) /\ ~Broadcasting(u)'
<1>a. /\ pc \in [Threads -> Labels] /\ l \in Seq(Threads) /\ NULL \notin Threads /\ qpc[t] = "held"
      /\ status \in [Threads -> {"WS_Waiting", "WS_Signalled"}]
      /\ next \in [Threads -> Pointer] /\ target \in [Threads -> Pointer]
  BY CndVarAssumptions, Zenon DEF ClientInv, AtQueue, NodeTypes, Holding, UnlockFails
<1>b. /\ pc[t] = "w_unlock" /\ waitq_back' = target[t] /\ UNCHANGED <<status, alive, target>>
      /\ pc' = [pc EXCEPT ![t] = "w_failed_qunlock"]
      /\ \/ target[t] = NULL /\ waitq_front' = NULL /\ UNCHANGED next
         \/ /\ target[t] # NULL /\ waitq_front' = waitq_front
            /\ next' = [next EXCEPT ![target[t]] = NULL]
  BY DEF UnlockFails, Goto
<1>c. \A u \in Threads \ {t} : pc[u] \notin {"w_unlock", "n_free", "b_loop", "b_next"}
  BY <1>a, AloneAtQueue
<1>d. pc'[t] = "w_failed_qunlock" /\ \A u \in Threads \ {t} : pc'[u] = pc[u]
  BY <1>a, <1>b
<1>e. \A u \in Threads : ~Broadcasting(u) /\ ~Broadcasting(u)'
  BY <1>b, <1>c, <1>d DEF Broadcasting
<1>f. Linked(l, waitq_front) /\ waitq_back = IF l = <<>> THEN NULL ELSE l[Len(l)]
  BY <1>e DEF Holding, Queued
<1>g. ~Notifying(t) /\ ~Notifying(t)' /\ ~Parked(t)'
  BY <1>b, <1>d DEF Parked, Notifying
<1>h. \A u \in Threads \ {t} : (Parked(u)' <=> Parked(u)) /\ (Notifying(u)' <=> Notifying(u))
  BY <1>b, <1>d DEF Parked, Notifying
<1>i. /\ l # <<>> /\ l[Len(l)] = t
      /\ target[t] = IF Len(l) = 1 THEN NULL ELSE l[Len(l) - 1]
  BY <1>b DEF Holding, Withdrawable
<1> PICK n \in Nat : n + 1 = Len(l)
  <2>1. Len(l) \in Nat /\ Len(l) # 0
    BY <1>a, <1>i
  <2>2. Len(l) - 1 \in Nat /\ Len(l) - 1 + 1 = Len(l)
    BY <2>1
  <2> QED
    BY <2>2, Zenon
<1> PICK k : k = SubSeq(l, 1, Len(l) - 1)
  BY Zenon
<1>j. /\ k \in Seq(Threads) /\ Len(k) = n /\ DOMAIN k = 1 .. n
      /\ DOMAIN l = 1 .. n + 1 /\ l[n + 1] = t
      /\ \A i \in 1 .. n : k[i] = l[i] /\ l[i] \in Threads /\ i \in DOMAIN l
  BY <1>a, <1>i
<1>k. n = 0 <=> k = <<>>
  <2>1. k \in Seq(Threads) /\ Len(k) = n
    BY <1>j
  <2> QED
    BY <2>1, EmptyList, Zenon
<1>l. \A i \in 1 .. n : Parked(l[i]) /\ l[i] # t
  <2> SUFFICES ASSUME NEW i \in 1 .. n PROVE Parked(l[i]) /\ l[i] # t
    OBVIOUS
  <2>1. i \in DOMAIN l /\ n + 1 \in DOMAIN l /\ i # n + 1
    BY <1>j
  <2>2. Parked(l[i]) /\ (l[i] = l[n + 1] => i = n + 1)
    BY <1>f, <2>1 DEF Linked
  <2> QED
    BY <1>j, <2>1, <2>2
<1>m. /\ n = 0 => target[t] = NULL
      /\ n # 0 => target[t] = l[n] /\ target[t] \in Threads /\ n \in 1 .. n
  BY <1>i, <1>j
<1>1. NodeTypes'
  <2>1. next' \in [Threads -> Pointer]
    BY <1>a, <1>b DEF Pointer
  <2>2. alive' = {u \in Threads : pc'[u] \in InWait}
    BY <1>a, <1>b DEF NodeTypes, InWait
  <2>3. ASSUME NEW u \in Threads, pc'[u] = "w_qlock" PROVE status'[u] = "WS_Waiting" /\ next'[u] = NULL
    <3>1. u # t /\ pc[u] = "w_qlock" /\ status[u] = "WS_Waiting" /\ next[u] = NULL
      BY <1>d, <2>3 DEF NodeTypes
    <3> QED
      BY <1>a, <1>b, <3>1
  <2> QED
    BY <1>a, <1>b, <2>1, <2>2, <2>3, Zenon DEF NodeTypes
<1>2. Hands'
  <2>1. \A u \in Threads : Notifying(u)' => Notifying(u) /\ target'[u] = target[u]
    BY <1>b, <1>g, <1>h
  <2>2. \A u \in Threads : Notifying(u) => target[u] # t
    BY <1>b DEF Hands, Picked
  <2>3. ASSUME NEW u \in Threads, Notifying(u)'
        PROVE  target'[u] \in Threads /\ Parked(target[u])' /\ pc'[target'[u]] # "w_unlock"
    <3>1. /\ Notifying(u) /\ target'[u] = target[u] /\ target[u] # t
          /\ target[u] \in Threads /\ Parked(target[u]) /\ pc[target[u]] # "w_unlock"
      BY <2>1, <2>2, <2>3, Zenon DEF Hands, Picked
    <3>2. target[u] \in Threads \ {t}
      BY <3>1
    <3> QED
      BY <1>d, <1>h, <3>1, <3>2, Zenon
  <2>4. \A u \in Threads : pc'[u] # "b_next"
    BY <1>e DEF Broadcasting
  <2> QED
    BY <2>1, <2>3, <2>4 DEF Hands, Picked, PickedOnce, NextReadable
<1>3. Linked(k, waitq_front)' /\ waitq_back' = IF k = <<>> THEN NULL ELSE k[Len(k)]
  <2>1. \A i, j \in DOMAIN k : k[i] = k[j] => i = j
    BY <1>f, <1>j DEF Linked
  <2>2. waitq_front' = IF k = <<>> THEN NULL ELSE k[1]
    <3>1. CASE n = 0
      BY <1>a, <1>b, <1>k, <1>m, <3>1
    <3>2. CASE n # 0
      <4>1. 1 \in 1 .. n /\ waitq_front = l[1]
        BY <1>f, <1>i, <3>2 DEF Linked
      <4> QED
        BY <1>a, <1>b, <1>j, <1>k, <1>m, <3>2, <4>1
    <3> QED
      BY <3>1, <3>2
  <2>3. ASSUME NEW i \in DOMAIN k
        PROVE  Parked(k[i])' /\ next'[k[i]] = IF i = Len(k) THEN NULL ELSE k[i + 1]
    <3>1. i \in 1 .. n /\ n # 0 /\ target[t] # NULL
      BY <1>a, <1>j, <1>m, <2>3
    <3>2. Parked(k[i])'
      BY <1>h, <1>j, <1>l, <3>1
    <3>3. CASE i = n
      BY <1>a, <1>b, <1>j, <1>m, <3>1, <3>2, <3>3
    <3>4. CASE i < n
      <4>0. i + 1 \in 1 .. n /\ i # n + 1 /\ i # n /\ n \in 1 .. n
        BY <3>1, <3>4
      <4>1. i + 1 \in 1 .. n /\ i # n + 1 /\ next[l[i]] = l[i + 1] /\ l[i] # l[n]
        <5>1. i \in DOMAIN l /\ n \in DOMAIN l /\ i # Len(l)
          BY <1>j, <3>1, <4>0
        <5> QED
          BY <1>f, <4>0, <5>1 DEF Linked
      <4> QED
        BY <1>a, <1>b, <1>j, <1>m, <3>1, <3>2, <3>4, <4>1
    <3> QED
      BY <3>1, <3>3, <3>4
  <2> QED
    BY <1>b, <1>j, <1>k, <1>m, <2>1, <2>2, <2>3 DEF Linked
<1>4. ASSUME NEW u \in Threads, Notifying(u)', NEW i \in DOMAIN k PROVE k[i] # target'[u]
  <2>1. Notifying(u) /\ target'[u] = target[u]
    BY <1>4, <1>b, <1>g, <1>h
  <2> QED
    BY <1>j, <2>1, Zenon DEF Holding, Unpicked
<1>5. \A u \in Threads : pc'[u] # "w_unlock"
  BY <1>c, <1>d, Zenon
<1>6. ASSUME NEW u \in Threads, Parked(u)'
      PROVE  (\E i \in DOMAIN k : k[i] = u) \/ \E v \in Threads : Notifying(v)' /\ target'[v] = u
  <2>1. u # t /\ Parked(u)
    BY <1>6, <1>g, <1>h
  <2>2. CASE \E i \in DOMAIN l : l[i] = u
    <3>1. PICK i \in 1 .. n + 1 : l[i] = u
      BY <1>j, <2>2
    <3>2. i \in 1 .. n
      BY <1>j, <2>1, <3>1
    <3> QED
      BY <1>j, <3>1, <3>2, Zenon
  <2>3. CASE \E v \in Threads : Notifying(v) /\ target[v] = u
    BY <1>b, <1>g, <1>h, <2>3
  <2> QED
    BY <2>1, <2>2, <2>3 DEF Holding, NoneMissed
<1>7. Holding(k)'
  BY <1>e, <1>j, <1>3, <1>4, <1>5, <1>6, Zenon DEF Holding, Unpicked, Queued, ToVisit, Withdrawable, NoneMissed
<1> QED
  BY <1>e, <1>i, <1>1, <1>2, <1>7

=============================================================================
