---------------------------- MODULE CndVarProofs ----------------------------
(***************************************************************************)
(* Theorems about CndVar: what its linked list holds, and that it is an    *)
(* AbstractCndVar.  notify_one and broadcast keep the list; the list is    *)
(* the one sequence that its pointers spell, which takes an induction over *)
(* its length; and every step is one of the abstract condition variable,   *)
(* or none.                                                                *)
(***************************************************************************)
EXTENDS CndVarLemmas

(***************************************************************************)
(* The signallers                                                          *)
(***************************************************************************)
\* The first of a linked list is taken: the rest is a linked list from its next on.
LEMMA RestOfList ==
  ASSUME NEW l \in Seq(Threads), l # <<>>
  PROVE  /\ Tail(l) \in Seq(Threads) /\ l[1] \in Threads /\ Len(l) - 1 \in Nat
         /\ Len(Tail(l)) = Len(l) - 1 /\ DOMAIN Tail(l) = 1 .. Len(l) - 1
         /\ \A i \in 1 .. Len(l) - 1 : Tail(l)[i] = l[i + 1] /\ i + 1 \in DOMAIN l
         /\ \A j \in DOMAIN l : j = 1 \/ \E i \in DOMAIN Tail(l) : j = i + 1
         /\ Tail(l) = <<>> <=> Len(l) = 1
<1>1. Len(l) \in Nat /\ Len(l) # 0
  BY EmptyList
<1>2. /\ Tail(l) \in Seq(Threads) /\ Len(Tail(l)) = Len(l) - 1
      /\ \A i \in 1 .. Len(l) - 1 : Tail(l)[i] = l[i + 1]
  BY <1>1
<1>3. ASSUME NEW j \in DOMAIN l, j # 1 PROVE j - 1 \in DOMAIN Tail(l) /\ j = j - 1 + 1
  BY <1>1, <1>2, <1>3
<1> QED
  BY <1>1, <1>2, <1>3, EmptyList

LEMMA TailIsLinked ==
  ASSUME NodeTypes, NEW l \in Seq(Threads), l # <<>>, NEW x, Linked(l, x)
  PROVE  /\ x = l[1] /\ Parked(x)
         /\ Linked(Tail(l), next[x])
         /\ \A i \in DOMAIN Tail(l) : Tail(l)[i] # x
         /\ Tail(l) # <<>> => Tail(l)[Len(Tail(l))] = l[Len(l)]
<1> PICK n \in Nat : n + 1 = Len(l)
  <2>1. Len(l) - 1 \in Nat /\ Len(l) - 1 + 1 = Len(l)
    BY RestOfList
  <2> QED
    BY <2>1, Zenon
<1> PICK k : k = Tail(l)
  BY Zenon
<1>1. /\ k \in Seq(Threads) /\ l[1] \in Threads /\ Len(k) = n /\ DOMAIN k = 1 .. n
      /\ DOMAIN l = 1 .. n + 1 /\ \A i \in 1 .. n : k[i] = l[i + 1] /\ i + 1 \in DOMAIN l
      /\ k = <<>> <=> n = 0
  BY RestOfList
<1>2. x = l[1] /\ Parked(x) /\ 1 \in DOMAIN l
  BY <1>1 DEF Linked
<1>3. ASSUME NEW i \in DOMAIN k, NEW j \in DOMAIN k, k[i] = k[j] PROVE i = j
  BY <1>1, <1>3 DEF Linked
<1>4. \A i \in DOMAIN k : k[i] # x
  <2> SUFFICES ASSUME NEW i \in DOMAIN k PROVE k[i] # x
    OBVIOUS
  <2>1. i \in 1 .. n /\ k[i] = l[i + 1] /\ i + 1 \in DOMAIN l /\ i + 1 # 1
    BY <1>1
  <2> QED
    BY <1>2, <2>1 DEF Linked
<1>5. next[x] = IF k = <<>> THEN NULL ELSE k[1]
  BY <1>1, <1>2 DEF Linked
<1>6. ASSUME NEW i \in DOMAIN k
      PROVE  Parked(k[i]) /\ next[k[i]] = IF i = Len(k) THEN NULL ELSE k[i + 1]
  <2>1. i \in 1 .. n /\ k[i] = l[i + 1] /\ i + 1 \in DOMAIN l /\ (i + 1 = Len(l) <=> i = n)
    BY <1>1
  <2>2. i # n => i + 1 \in 1 .. n /\ k[i + 1] = l[i + 1 + 1]
    BY <1>1, <2>1
  <2> QED
    BY <1>1, <2>1, <2>2 DEF Linked
<1>7. k # <<>> => k[Len(k)] = l[Len(l)]
  BY <1>1
<1> QED
  BY <1>2, <1>3, <1>4, <1>5, <1>6, <1>7, Zenon DEF Linked

\* notify_one takes the waiter at the front.
LEMMA NotifyTakesFirst ==
  ASSUME QInv, ClientInv, NodeTypes, Hands, NEW l, Holding(l), NEW t \in Threads, NotifyPops(t)
  PROVE  /\ l # <<>> /\ Parked(l[1])' /\ \A u \in Threads : Waiting(u)' <=> Waiting(u)
         /\ NodeTypes' /\ Hands' /\ Holding(Tail(l))'
         /\ \A u \in Threads : ~Broadcasting(u) /\ ~Broadcasting(u)'
<1>a. /\ pc \in [Threads -> Labels] /\ l \in Seq(Threads) /\ NULL \notin Threads
      /\ target \in [Threads -> Pointer]
  BY CndVarAssumptions DEF ClientInv, NodeTypes, Holding
<1>b. /\ pc[t] = "n_qlock" /\ qpc[t] = "held" /\ UNCHANGED <<status, alive, next>>
      /\ waitq_front # NULL /\ pc' = [pc EXCEPT ![t] = "n_free"]
      /\ target' = [target EXCEPT ![t] = waitq_front]
      /\ waitq_front' \in NextOf(waitq_front)
      /\ waitq_back' = IF waitq_front' = NULL THEN NULL ELSE waitq_back
  BY DEF NotifyPops, Goto, Aim, nodes
<1>c. \A u \in Threads : pc[u] \notin {"w_unlock", "n_free", "b_loop", "b_next"}
  BY <1>b, AloneAtQueue
<1>d. /\ pc'[t] = "n_free" /\ target'[t] = waitq_front
      /\ \A u \in Threads \ {t} : pc'[u] = pc[u] /\ target'[u] = target[u]
  BY <1>a, <1>b
<1>e. \A u \in Threads : ~Broadcasting(u) /\ ~Broadcasting(u)'
  BY <1>b, <1>c, <1>d DEF Broadcasting
<1>f. Linked(l, waitq_front) /\ waitq_back = IF l = <<>> THEN NULL ELSE l[Len(l)]
  BY <1>e DEF Holding, Queued
<1>g. l # <<>>
  BY <1>b, <1>f DEF Linked
<1> PICK k : k = Tail(l)
  BY Zenon
<1>h. /\ waitq_front = l[1] /\ l[1] \in Threads /\ Parked(l[1]) /\ Linked(k, next[l[1]])
      /\ \A i \in DOMAIN k : k[i] # l[1]
      /\ k # <<>> => k[Len(k)] = l[Len(l)]
  BY <1>a, <1>f, <1>g, RestOfList, TailIsLinked
<1>i. waitq_front' = next[l[1]]
  BY <1>b, <1>h DEF NextOf, NodeTypes, Parked, InWait
<1>j. /\ \A u \in Threads : (Parked(u)' <=> Parked(u)) /\ (Waiting(u)' <=> Waiting(u))
      /\ \A u \in Threads \ {t} : Notifying(u)' <=> Notifying(u)
      /\ Notifying(t)' /\ ~Notifying(t)
  BY <1>b, <1>d DEF Parked, Notifying, Waiting
<1>k. k \in Seq(Threads) /\ \A i \in DOMAIN k : i + 1 \in DOMAIN l /\ k[i] = l[i + 1] /\ k[i] \in Threads
  BY <1>a, <1>g, RestOfList
<1>1. NodeTypes'
  <2>1. target' \in [Threads -> Pointer]
    BY <1>a, <1>b, <1>h DEF Pointer
  <2>2. alive' = {u \in Threads : pc'[u] \in InWait}
    BY <1>a, <1>b DEF NodeTypes, InWait
  <2>3. \A u \in Threads : pc'[u] = "w_qlock" => pc[u] = "w_qlock"
    BY <1>d
  <2> QED
    BY <1>b, <2>1, <2>2, <2>3 DEF NodeTypes
<1>2. Hands'
  <2>1. \A u \in Threads : Notifying(u)' =>
          target'[u] \in Threads /\ Parked(target[u])' /\ pc'[target'[u]] # "w_unlock"
    <3> SUFFICES ASSUME NEW u \in Threads, Notifying(u)'
                 PROVE  target'[u] \in Threads /\ Parked(target[u])' /\ pc'[target'[u]] # "w_unlock"
      OBVIOUS
    <3>1. target'[u] \in Threads /\ Parked(target'[u])
      BY <1>d, <1>h, <1>j DEF Hands, Picked
    <3> QED
      BY <1>c, <1>d, <1>j, <3>1
  <2>2. ASSUME NEW u \in Threads, NEW v \in Threads, Notifying(u)', Notifying(v)', target'[u] = target'[v]
        PROVE  u = v
    <3>1. 1 \in DOMAIN l
      BY <1>a, <1>g
    <3>2. \A w \in Threads \ {t} : Notifying(w)' => target'[w] # l[1]
      BY <1>d, <1>j, <3>1 DEF Holding, Unpicked
    <3>3. \A w \in Threads \ {t} : Notifying(w)' => Notifying(w) /\ target'[w] = target[w]
      BY <1>d, <1>j
    <3> QED
      BY <1>d, <1>h, <2>2, <3>2, <3>3 DEF Hands, PickedOnce
  <2>3. \A u \in Threads : pc'[u] # "b_next"
    BY <1>e DEF Broadcasting
  <2> QED
    BY <2>1, <2>2, <2>3 DEF Hands, Picked, PickedOnce, NextReadable
<1>3. Linked(k, waitq_front)' /\ waitq_back' = IF k = <<>> THEN NULL ELSE k[Len(k)]
  <2>1. Linked(k, waitq_front)'
    BY <1>b, <1>h, <1>i, <1>j, <1>k, Zenon DEF Linked
  <2>2. waitq_front' = NULL <=> k = <<>>
    BY <1>a, <1>h, <1>i, <1>k DEF Linked
  <2> QED
    BY <1>b, <1>f, <1>g, <1>h, <2>1, <2>2
<1>4. ASSUME NEW u \in Threads, Notifying(u)', NEW i \in DOMAIN k PROVE k[i] # target'[u]
  BY <1>4, <1>d, <1>h, <1>j, <1>k DEF Holding, Unpicked
<1>5. \A u \in Threads : pc'[u] # "w_unlock"
  BY <1>c, <1>d
<1>6. ASSUME NEW u \in Threads, Parked(u)'
      PROVE  (\E i \in DOMAIN k : k[i] = u) \/ \E v \in Threads : Notifying(v)' /\ target'[v] = u
  <2>1. CASE \E j \in DOMAIN l : l[j] = u
    <3>1. PICK j \in DOMAIN l : l[j] = u
      BY <2>1
    <3>2. CASE j = 1
      BY <1>d, <1>h, <1>j, <3>1, <3>2
    <3>3. CASE j # 1
      BY <1>a, <1>g, <1>k, <3>1, <3>3, RestOfList
    <3> QED
      BY <3>2, <3>3
  <2>2. CASE \E v \in Threads : Notifying(v) /\ target[v] = u
    BY <1>d, <1>j, <2>2
  <2> QED
    BY <1>6, <1>j, <2>1, <2>2 DEF Holding, NoneMissed
<1>7. Holding(k)'
  BY <1>e, <1>k, <1>3, <1>4, <1>5, <1>6 DEF Holding, Unpicked, Queued, ToVisit, Withdrawable, NoneMissed
<1> QED
  BY <1>e, <1>g, <1>h, <1>j, <1>1, <1>2, <1>7

\* FUTEX_WAKE_OP on a parked waiter x that has unlocked m.
LEMMA WakeOpSignals ==
  ASSUME ClientInv, NodeTypes, NEW t \in Threads, NEW x \in Threads, NEW p,
         pc[t] \notin InWait, Parked(x), pc[x] # "w_unlock", WakeOp(t, x, p), UNCHANGED alive
  PROVE  /\ x # t /\ pc'[t] = p /\ status'[t] = status[t]
         /\ pc'[x] \in {"w_qunlock", "w_relock"} /\ status'[x] = "WS_Signalled"
         /\ \A u \in Threads \ {t, x} : pc'[u] = pc[u] /\ status'[u] = status[u]
         /\ ~Parked(x)' /\ pc' \in [Threads -> Labels \cup {p}]
         /\ status' \in [Threads -> {"WS_Waiting", "WS_Signalled"}]
         /\ p \notin InWait => alive' = {u \in Threads : pc'[u] \in InWait}
<1>1. pc \in [Threads -> Labels] /\ status \in [Threads -> {"WS_Waiting", "WS_Signalled"}]
  BY DEF ClientInv, NodeTypes
<1>2. x # t /\ pc[x] \in {"w_qunlock", "w_asleep"} /\ status[x] = "WS_Waiting"
  BY DEF Parked, InWait
<1>3. /\ status' = [status EXCEPT ![x] = "WS_Signalled"]
      /\ pc' = [u \in Threads |->
                  IF u = t THEN p
                  ELSE IF u = x /\ pc[u] = "w_asleep" /\ status[x] = "WS_Waiting" THEN "w_relock"
                  ELSE pc[u]]
  BY DEF WakeOp
<1>4. /\ pc'[t] = p /\ status'[t] = status[t]
      /\ pc'[x] \in {"w_qunlock", "w_relock"} /\ status'[x] = "WS_Signalled"
      /\ \A u \in Threads \ {t, x} : pc'[u] = pc[u] /\ status'[u] = status[u]
  BY <1>1, <1>2, <1>3
<1>5. pc' \in [Threads -> Labels \cup {p}] /\ status' \in [Threads -> {"WS_Waiting", "WS_Signalled"}]
  BY <1>1, <1>3 DEF Labels
<1>6. p \notin InWait => alive' = {u \in Threads : pc'[u] \in InWait}
  BY <1>2, <1>4 DEF NodeTypes, InWait
<1>7. ~Parked(x)'
  BY <1>4 DEF Parked
<1> QED
  BY <1>2, <1>4, <1>5, <1>6, <1>7

\* notify_one signals the waiter it took.
LEMMA NotifySignalsIts ==
  ASSUME QInv, ClientInv, NodeTypes, Hands, NEW l, Holding(l), NEW t \in Threads, NotifySignals(t)
  PROVE  /\ NodeTypes' /\ Hands' /\ Holding(l)'
         /\ \A u \in Threads : Waiting(u)' <=> Waiting(u)
         /\ \A u \in Threads : Broadcasting(u)' <=> Broadcasting(u)
<1>a. /\ pc[t] = "n_wake_op" /\ WakeOp(t, target[t], home[t])
      /\ UNCHANGED <<waitq_front, waitq_back, next, alive, target>>
  BY DEF NotifySignals, queue
<1> PICK x : x = target[t]
  OBVIOUS
<1>b. Notifying(t) /\ x \in Threads /\ Parked(x) /\ pc[x] # "w_unlock"
  BY <1>a DEF Hands, Picked, Notifying
<1>c. home[t] \in {"out", "in"}
  BY DEF QInv, QExclusion, QTypes
<1> PICK p : p = home[t]
  OBVIOUS
<1>d. /\ x # t /\ pc'[t] = p /\ pc'[x] \in {"w_qunlock", "w_relock"} /\ status'[x] = "WS_Signalled"
      /\ \A u \in Threads \ {t, x} : pc'[u] = pc[u] /\ status'[u] = status[u]
      /\ ~Parked(x)' /\ status' \in [Threads -> {"WS_Waiting", "WS_Signalled"}]
      /\ alive' = {u \in Threads : pc'[u] \in InWait}
  BY <1>a, <1>b, <1>c, WakeOpSignals DEF InWait
<1>e. /\ \A u \in Threads \ {x} : Parked(u)' <=> Parked(u)
      /\ \A u \in Threads \ {t} : Notifying(u)' <=> Notifying(u)
      /\ ~Notifying(t)'
      /\ \A u \in Threads : Broadcasting(u)' <=> Broadcasting(u)
      /\ \A u \in Threads : Broadcasting(u) => pc'[u] = pc[u]
      /\ \A u \in Threads : pc'[u] = "w_unlock" => pc[u] = "w_unlock"
  BY <1>a, <1>b, <1>c, <1>d DEF Parked, Notifying, Broadcasting
<1>f. \A u \in Threads : Waiting(u)' <=> Waiting(u)
  BY <1>a, <1>b, <1>c, <1>d DEF Waiting, Parked
<1>g. l \in Seq(Threads) /\ \A i \in DOMAIN l : l[i] \in Threads /\ l[i] # x
  BY <1>b DEF Holding, Unpicked
<1>1. NodeTypes'
  BY <1>a, <1>c, <1>d DEF NodeTypes
<1>2. Hands'
  <2>1. ASSUME NEW u \in Threads, Notifying(u)'
        PROVE  Notifying(u) /\ u # t /\ target[u] # x
    BY <1>b, <1>e, <2>1 DEF Hands, PickedOnce
  <2>2. ASSUME NEW u \in Threads, Notifying(u)'
        PROVE  target'[u] \in Threads /\ Parked(target[u])' /\ pc'[target'[u]] # "w_unlock"
    BY <1>a, <1>e, <2>1, <2>2 DEF Hands, Picked
  <2>3. ASSUME NEW u \in Threads, pc'[u] = "b_next"
        PROVE  /\ target'[u] \in Threads /\ pc'[target'[u]] \in {"w_qunlock", "w_relock"}
               /\ status'[target'[u]] = "WS_Signalled"
    <3>1. /\ pc[u] = "b_next" /\ target[u] \in Threads /\ pc[target[u]] \in {"w_qunlock", "w_relock"}
          /\ status[target[u]] = "WS_Signalled"
      BY <1>d, <1>c, <2>3 DEF Hands, NextReadable
    <3>2. target[u] # x /\ target[u] # t
      BY <1>a, <1>b, <3>1 DEF Parked
    <3> QED
      BY <1>a, <1>d, <3>1, <3>2
  <2> QED
    BY <1>a, <2>1, <2>2, <2>3 DEF Hands, Picked, PickedOnce, NextReadable
<1>3. \A y : Linked(l, y) => /\ y = IF l = <<>> THEN NULL ELSE l[1]
                             /\ \A i, j \in DOMAIN l : l[i] = l[j] => i = j
                             /\ \A i \in DOMAIN l : Parked(l[i])' /\ next'[l[i]] = IF i = Len(l) THEN NULL ELSE l[i + 1]
  BY <1>a, <1>e, <1>g DEF Linked
<1>4. \A u \in Threads : Broadcasting(u)' =>
       /\ waitq_front' = NULL /\ waitq_back' = NULL
       /\ Linked(l, IF pc[u] = "b_loop" THEN target[u] ELSE next[target[u]])'
  <2> SUFFICES ASSUME NEW u \in Threads, Broadcasting(u)'
               PROVE  /\ waitq_front' = NULL /\ waitq_back' = NULL
                      /\ Linked(l, IF pc[u] = "b_loop" THEN target[u] ELSE next[target[u]])'
    OBVIOUS
  <2>1. /\ pc'[u] = pc[u] /\ waitq_front = NULL /\ waitq_back = NULL
        /\ Linked(l, IF pc[u] = "b_loop" THEN target[u] ELSE next[target[u]])
    BY <1>e DEF Holding, ToVisit
  <2>2. (IF pc[u] = "b_loop" THEN target[u] ELSE next[target[u]])'
          = IF pc[u] = "b_loop" THEN target[u] ELSE next[target[u]]
    BY <1>a, <2>1
  <2> QED
    BY <1>a, <1>3, <2>1, <2>2 DEF Linked
<1>5. (\A u \in Threads : ~Broadcasting(u)') =>
         Linked(l, waitq_front)' /\ waitq_back' = IF l = <<>> THEN NULL ELSE l[Len(l)]
  BY <1>a, <1>e, <1>3 DEF Holding, Queued, Linked
<1>6. ASSUME NEW u \in Threads, Parked(u)'
      PROVE  (\E i \in DOMAIN l : l[i] = u) \/ \E v \in Threads : Notifying(v)' /\ target'[v] = u
  <2>1. u # x /\ Parked(u)
    BY <1>6, <1>d, <1>e
  <2> QED
    BY <1>a, <1>e, <2>1 DEF Holding, NoneMissed
<1>7. Holding(l)'
  BY <1>a, <1>e, <1>g, <1>4, <1>5, <1>6 DEF Holding, Unpicked, Queued, ToVisit, Withdrawable, NoneMissed
<1> QED
  BY <1>e, <1>f, <1>1, <1>2, <1>7

\* broadcast takes the whole list.
LEMMA BroadcastTakesAll ==
  ASSUME QInv, ClientInv, NodeTypes, Hands, NEW l, Holding(l), NEW t \in Threads, BroadcastTakes(t)
  PROVE  /\ NodeTypes' /\ Hands' /\ Holding(l)' /\ Broadcasting(t)'
         /\ \A u \in Threads : ~Broadcasting(u)
         /\ \A u \in Threads : Waiting(u)' <=> Waiting(u)
<1>a. /\ pc[t] = "b_qlock" /\ qpc[t] = "held" /\ UNCHANGED <<status, alive, next>>
      /\ target' = [target EXCEPT ![t] = waitq_front] /\ waitq_front' = NULL /\ waitq_back' = NULL
      /\ pc' = [pc EXCEPT ![t] = "b_loop"]
  BY DEF BroadcastTakes, Goto, Aim, nodes
<1>b. pc \in [Threads -> Labels] /\ target \in [Threads -> Pointer]
  BY DEF ClientInv, NodeTypes
<1>c. \A u \in Threads : pc[u] \notin {"w_unlock", "n_free", "b_loop", "b_next"}
  BY <1>a, AloneAtQueue
<1>d. /\ pc'[t] = "b_loop" /\ target'[t] = waitq_front
      /\ \A u \in Threads \ {t} : pc'[u] = pc[u] /\ target'[u] = target[u]
  BY <1>a, <1>b
<1>e. /\ \A u \in Threads : ~Broadcasting(u) /\ (Broadcasting(u)' => u = t) /\ (Notifying(u)' <=> Notifying(u))
      /\ \A u \in Threads : (Parked(u)' <=> Parked(u)) /\ (Waiting(u)' <=> Waiting(u))
      /\ \A u \in Threads : pc'[u] # "w_unlock" /\ pc'[u] # "b_next"
      /\ \A u \in Threads : Notifying(u) => target'[u] = target[u]
      /\ Broadcasting(t)'
  BY <1>a, <1>c, <1>d DEF Broadcasting, Notifying, Parked, Waiting
<1>f. l \in Seq(Threads) /\ Linked(l, waitq_front) /\ \A i \in DOMAIN l : l[i] \in Threads
  BY <1>e DEF Holding, Queued
<1>1. NodeTypes'
  <2>1. waitq_front \in Pointer
    BY <1>f, EmptyList DEF Linked, Pointer
  <2>2. target' \in [Threads -> Pointer]
    BY <1>a, <1>b, <2>1
  <2>3. alive' = {u \in Threads : pc'[u] \in InWait}
    BY <1>a, <1>b DEF NodeTypes, InWait
  <2> QED
    BY <1>a, <1>d, <2>2, <2>3 DEF NodeTypes
<1>2. Hands'
  <2>1. ASSUME NEW u \in Threads, Notifying(u)'
        PROVE  target'[u] \in Threads /\ Parked(target[u])' /\ pc'[target'[u]] # "w_unlock"
    BY <1>e, <2>1 DEF Hands, Picked
  <2> QED
    BY <1>e, <2>1 DEF Hands, Picked, PickedOnce, NextReadable
<1>3. Linked(l, IF pc[t] = "b_loop" THEN target[t] ELSE next[target[t]])'
  BY <1>a, <1>d, <1>e, <1>f DEF Linked
<1>4. ASSUME NEW u \in Threads, Parked(u)'
      PROVE  (\E i \in DOMAIN l : l[i] = u) \/ \E v \in Threads : Notifying(v)' /\ target'[v] = u
  BY <1>4, <1>e DEF Holding, NoneMissed
<1>5. Holding(l)'
  BY <1>a, <1>e, <1>f, <1>3, <1>4 DEF Holding, Unpicked, Queued, ToVisit, Withdrawable, NoneMissed
<1> QED
  BY <1>e, <1>1, <1>2, <1>5

\* broadcast signals the first of the waiters it has still to visit.
LEMMA BroadcastSignalsFirst ==
  ASSUME QInv, ClientInv, NodeTypes, Hands, NEW l, Holding(l), NEW t \in Threads, BroadcastSignals(t)
  PROVE  /\ NodeTypes' /\ Hands' /\ Holding(Tail(l))' /\ Broadcasting(t) /\ Broadcasting(t)'
         /\ \A u \in Threads : Waiting(u)' <=> Waiting(u)
<1>a. /\ pc[t] = "b_loop" /\ target[t] # NULL /\ WakeOp(t, target[t], "b_next")
      /\ UNCHANGED <<waitq_front, waitq_back, next, alive, target>>
  BY DEF BroadcastSignals, queue
<1>b. qpc[t] = "held"
  BY <1>a DEF ClientInv, AtQueue
<1>c. \A u \in Threads \ {t} : pc[u] \notin {"w_unlock", "n_free", "b_loop", "b_next"}
  BY <1>b, AloneAtQueue
<1> PICK x : x = target[t]
  OBVIOUS
<1>d. /\ Broadcasting(t) /\ waitq_front = NULL /\ waitq_back = NULL /\ l \in Seq(Threads)
      /\ Linked(l, x)
  BY <1>a DEF Holding, ToVisit, Broadcasting
<1>e. l # <<>>
  BY <1>a, <1>d DEF Linked
<1> PICK k : k = Tail(l)
  BY Zenon
<1>f. /\ x = l[1] /\ l[1] \in Threads /\ Parked(x) /\ Linked(k, next[x])
      /\ \A i \in DOMAIN k : k[i] # x
  BY <1>d, <1>e, RestOfList, TailIsLinked
<1>g. /\ x # t /\ pc'[t] = "b_next" /\ pc'[x] \in {"w_qunlock", "w_relock"} /\ status'[x] = "WS_Signalled"
      /\ \A u \in Threads \ {t, x} : pc'[u] = pc[u] /\ status'[u] = status[u]
      /\ ~Parked(x)' /\ status' \in [Threads -> {"WS_Waiting", "WS_Signalled"}]
      /\ alive' = {u \in Threads : pc'[u] \in InWait}
  BY <1>a, <1>c, <1>f, WakeOpSignals DEF InWait
<1>h. /\ \A u \in Threads \ {x} : Parked(u)' <=> Parked(u)
      /\ \A u \in Threads : Notifying(u)' <=> Notifying(u)
      /\ \A u \in Threads : Broadcasting(u)' => u = t
      /\ \A u \in Threads : pc'[u] # "w_unlock" /\ (pc'[u] = "b_next" => u = t)
      /\ Broadcasting(t)'
  BY <1>a, <1>c, <1>f, <1>g DEF Parked, Notifying, Broadcasting
<1>i. \A u \in Threads : Waiting(u)' <=> Waiting(u)
  BY <1>a, <1>f, <1>g DEF Waiting, Parked
<1>j. /\ k \in Seq(Threads)
      /\ \A i \in DOMAIN k : i + 1 \in DOMAIN l /\ k[i] = l[i + 1] /\ k[i] \in Threads
  BY <1>d, <1>e, RestOfList
<1>k. \A u \in Threads : Notifying(u) => target[u] # x /\ target[u] \in Threads
  <2>1. 1 \in DOMAIN l
    BY <1>d, <1>e
  <2> QED
    BY <1>f, <2>1 DEF Holding, Unpicked, Hands, Picked
<1>1. NodeTypes'
  BY <1>a, <1>g DEF NodeTypes
<1>2. Hands'
  <2>1. ASSUME NEW u \in Threads, Notifying(u)'
        PROVE  target'[u] \in Threads /\ Parked(target[u])' /\ pc'[target'[u]] # "w_unlock"
    BY <1>a, <1>h, <1>k, <2>1 DEF Hands, Picked
  <2>2. \A u, v \in Threads : Notifying(u)' /\ Notifying(v)' /\ target'[u] = target'[v] => u = v
    BY <1>a, <1>h DEF Hands, PickedOnce
  <2>3. ASSUME NEW u \in Threads, pc'[u] = "b_next"
        PROVE  /\ target'[u] \in Threads /\ pc'[target'[u]] \in {"w_qunlock", "w_relock"}
               /\ status'[target'[u]] = "WS_Signalled"
    BY <1>a, <1>f, <1>g, <1>h, <2>3, Zenon
  <2> QED
    BY <2>1, <2>2, <2>3 DEF Hands, Picked, PickedOnce, NextReadable
<1>3. Linked(k, IF pc[t] = "b_loop" THEN target[t] ELSE next[target[t]])'
  <2>1. (IF pc[t] = "b_loop" THEN target[t] ELSE next[target[t]])' = next[x]
    BY <1>a, <1>g
  <2>2. /\ next[x] = IF k = <<>> THEN NULL ELSE k[1]
        /\ \A i, j \in DOMAIN k : k[i] = k[j] => i = j
        /\ \A i \in DOMAIN k : Parked(k[i])' /\ next'[k[i]] = IF i = Len(k) THEN NULL ELSE k[i + 1]
    BY <1>a, <1>f, <1>h, <1>j DEF Linked
  <2> QED
    BY <2>1, <2>2 DEF Linked
<1>4. ASSUME NEW u \in Threads, Notifying(u)', NEW i \in DOMAIN k PROVE k[i] # target'[u]
  BY <1>4, <1>a, <1>h, <1>j DEF Holding, Unpicked
<1>5. ASSUME NEW u \in Threads, Parked(u)'
      PROVE  (\E i \in DOMAIN k : k[i] = u) \/ \E v \in Threads : Notifying(v)' /\ target'[v] = u
  <2>1. u # x /\ Parked(u)
    BY <1>5, <1>g, <1>h
  <2>2. CASE \E j \in DOMAIN l : l[j] = u
    <3>1. PICK j \in DOMAIN l : l[j] = u
      BY <2>2
    <3>2. j # 1
      BY <1>f, <2>1, <3>1
    <3> QED
      BY <1>d, <1>e, <1>j, <3>1, <3>2, RestOfList
  <2>3. CASE \E v \in Threads : Notifying(v) /\ target[v] = u
    BY <1>a, <1>h, <2>3
  <2> QED
    BY <2>1, <2>2, <2>3 DEF Holding, NoneMissed
<1>6. /\ waitq_front' = NULL /\ waitq_back' = NULL
  BY <1>a, <1>d
<1>7. Holding(k)'
  BY <1>h, <1>j, <1>3, <1>4, <1>5, <1>6 DEF Holding, Unpicked, Queued, ToVisit, Withdrawable, NoneMissed
<1> QED
  BY <1>d, <1>h, <1>i, <1>1, <1>2, <1>7

\* broadcast reads waiter->next after it has signalled the waiter.  The waiter is still
\* there: it cannot return from wait() without m.
LEMMA BroadcastReadsNext ==
  ASSUME QInv, ClientInv, NodeTypes, Hands, NEW l, Holding(l), NEW t \in Threads, BroadcastAdvances(t)
  PROVE  /\ NodeTypes' /\ Hands' /\ Holding(l)' /\ Broadcasting(t) /\ Broadcasting(t)'
         /\ \A u \in Threads : Waiting(u)' <=> Waiting(u)
<1>a. /\ pc[t] = "b_next" /\ pc' = [pc EXCEPT ![t] = "b_loop"]
      /\ \E x \in NextOf(target[t]) : target' = [target EXCEPT ![t] = x]
      /\ UNCHANGED <<waitq_front, waitq_back, status, next, alive>>
  BY Zenon DEF BroadcastAdvances, Goto, Aim, queue, nodes
<1>b. pc \in [Threads -> Labels] /\ target \in [Threads -> Pointer] /\ next \in [Threads -> Pointer]
  BY DEF ClientInv, NodeTypes
<1>c. target[t] \in Threads /\ pc[target[t]] \in {"w_qunlock", "w_relock"}
  BY <1>a DEF Hands, NextReadable
<1>d. target[t] \in alive
  BY <1>c DEF NodeTypes, InWait
<1>e. target' = [target EXCEPT ![t] = next[target[t]]]
  BY <1>a, <1>d, Zenon DEF NextOf
<1>f. /\ pc'[t] = "b_loop" /\ target'[t] = next[target[t]]
      /\ \A u \in Threads \ {t} : pc'[u] = pc[u] /\ target'[u] = target[u]
  BY <1>a, <1>b, <1>e
<1>g. \A u \in Threads \ {t} : pc[u] \notin {"w_unlock", "n_free", "b_loop", "b_next"}
  BY <1>a, AloneAtQueue DEF ClientInv, AtQueue
<1>h. /\ \A u \in Threads : (Parked(u)' <=> Parked(u)) /\ (Waiting(u)' <=> Waiting(u))
      /\ \A u \in Threads : (Notifying(u)' <=> Notifying(u)) /\ (Notifying(u) => target'[u] = target[u])
      /\ \A u \in Threads : (Broadcasting(u)' => u = t) /\ pc'[u] # "b_next" /\ pc'[u] # "w_unlock"
      /\ Broadcasting(t) /\ Broadcasting(t)'
  BY <1>a, <1>f, <1>g DEF Parked, Waiting, Notifying, Broadcasting
<1>i. /\ waitq_front = NULL /\ waitq_back = NULL /\ l \in Seq(Threads)
      /\ Linked(l, next[target[t]]) /\ \A i \in DOMAIN l : l[i] \in Threads
  BY <1>a, <1>h DEF Holding, ToVisit
<1>1. NodeTypes'
  <2>1. target' \in [Threads -> Pointer]
    BY <1>b, <1>c, <1>e
  <2>2. alive' = {u \in Threads : pc'[u] \in InWait}
    BY <1>a, <1>b DEF NodeTypes, InWait
  <2> QED
    BY <1>a, <1>f, <2>1, <2>2 DEF NodeTypes
<1>2. Hands'
  <2>1. ASSUME NEW u \in Threads, Notifying(u)'
        PROVE  target'[u] \in Threads /\ Parked(target[u])' /\ pc'[target'[u]] # "w_unlock"
    BY <1>h, <2>1 DEF Hands, Picked
  <2> QED
    BY <1>h, <2>1 DEF Hands, Picked, PickedOnce, NextReadable
<1>3. Linked(l, IF pc[t] = "b_loop" THEN target[t] ELSE next[target[t]])'
  <2>1. (IF pc[t] = "b_loop" THEN target[t] ELSE next[target[t]])' = next[target[t]]
    BY <1>f
  <2> QED
    BY <1>a, <1>h, <1>i, <2>1, Zenon DEF Linked
<1>4. ASSUME NEW u \in Threads, Parked(u)'
      PROVE  (\E i \in DOMAIN l : l[i] = u) \/ \E v \in Threads : Notifying(v)' /\ target'[v] = u
  <2>1. Parked(u)
    BY <1>4, <1>h
  <2> QED
    BY <1>h, <2>1 DEF Holding, NoneMissed
<1>5. Holding(l)'
  BY <1>a, <1>h, <1>i, <1>3, <1>4 DEF Holding, Unpicked, Queued, ToVisit, Withdrawable, NoneMissed
<1> QED
  BY <1>h, <1>1, <1>2, <1>5

(***************************************************************************)
(* Linked lists                                                            *)
(***************************************************************************)
\* What FiniteSets says of Threads, spelt out: the theorems about finite sets and well-founded
\* relations are instantiated only from here on, with FiniteSets of their own.
LEMMA ThreadsAreFinite ==
  \E seq \in Seq(Threads) : \A s \in Threads : \E n \in 1 .. Len(seq) : seq[n] = s
  BY CndVarAssumptions DEF IsFiniteSet

LEMMA ListsUpTo ==
  LET CS[T \in SUBSET Threads] == IF T = {} THEN 0 ELSE 1 + CS[T \ {CHOOSE x : x \in T}]
  IN  Lists = {l \in UNION {[1 .. n -> Threads] : n \in 0 .. CS[Threads]} :
                 \A i, j \in DOMAIN l : l[i] = l[j] => i = j}
  BY DEF Lists, Cardinality

LOCAL INSTANCE FiniteSetTheorems
LOCAL INSTANCE WellFoundedInduction

\* Every nonempty set of naturals has a least element: the induction principle of the
\* proofs below.
LEMMA LeastNumber ==
  ASSUME NEW T, T \subseteq Nat, T # {}
  PROVE  \E n \in T : \A m \in T : n <= m
<1> DEFINE R == OpToRel(<, Nat)
<1>1. IsWellFoundedOn(R, Nat)
  BY NatLessThanWellFounded, Zenon
<1>2. \A m, n \in Nat : m < n => <<m, n>> \in R
  BY SMT DEF OpToRel
<1> HIDE DEF R
<1>3. PICK n \in T : \A m \in T : ~(<<m, n>> \in R)
  BY <1>1, WFMin, Zenon
<1>4. ASSUME NEW m \in T PROVE n <= m
  <2>1. m \in Nat /\ n \in Nat
    OBVIOUS
  <2>2. ~(m < n)
    BY <1>2, <1>3, <2>1, Zenon
  <2> QED
    BY <2>1, <2>2
<1> QED
  BY <1>4

\* A sequence of distinct threads is no longer than there are threads.
LEMMA ListBound ==
  ASSUME NEW l \in Seq(Threads), \A i, j \in DOMAIN l : l[i] = l[j] => i = j
  PROVE  l \in Lists
<1>1. IsFiniteSet(Threads)
  BY ThreadsAreFinite DEF IsFiniteSet
<1>2. Len(l) \in Nat /\ DOMAIN l = 1 .. Len(l) /\ l \in [1 .. Len(l) -> Threads]
  OBVIOUS
<1>3. l \in Injection(1 .. Len(l), Threads)
  BY <1>2 DEF Injection, IsInjective
<1>4. Cardinality(1 .. Len(l)) <= Cardinality(Threads)
  BY <1>1, <1>3, FS_Injection, Zenon
<1>5. Cardinality(1 .. Len(l)) = Len(l)
  <2>1. Cardinality(1 .. Len(l)) = IF 1 > Len(l) THEN 0 ELSE Len(l) - 1 + 1
    BY <1>2, FS_Interval
  <2> QED
    BY <1>2, <2>1
<1>6. Cardinality(Threads) \in Nat
  BY <1>1, FS_CardinalityType
<1>7. Len(l) \in 0 .. Cardinality(Threads)
  BY <1>2, <1>4, <1>5, <1>6
<1>8. Lists = {k \in UNION {[1 .. n -> Threads] : n \in 0 .. Cardinality(Threads)} :
                 \A i, j \in DOMAIN k : k[i] = k[j] => i = j}
  BY ListsUpTo DEF Cardinality
<1> QED
  BY <1>2, <1>7, <1>8

LEMMA ListsAre == \A l \in Lists : l \in Seq(Threads) /\ \A i, j \in DOMAIN l : l[i] = l[j] => i = j
  BY DEF Lists

\* Two sequences that follow the same pointers from the same node agree.
LEMMA FollowAgree ==
  ASSUME NEW nx, NEW x, NEW k \in Lists, NEW l \in Lists,
         Follows(nx, k, x), Follows(nx, l, x),
         NEW i \in DOMAIN k \cap DOMAIN l
  PROVE  k[i] = l[i]
<1> DEFINE D == {j \in DOMAIN k \cap DOMAIN l : k[j] # l[j]}
<1>1. k \in Seq(Threads) /\ l \in Seq(Threads)
  BY ListsAre
<1>2. SUFFICES ASSUME D # {} PROVE FALSE
  OBVIOUS
<1>3. D \subseteq Nat
  BY <1>1
<1>4. PICK j \in D : \A h \in D : j <= h
  BY <1>2, <1>3, LeastNumber, Zenon
<1>5. /\ j \in 1 .. Len(k) /\ j \in 1 .. Len(l) /\ k[j] # l[j]
      /\ Len(k) \in Nat /\ Len(l) \in Nat
  BY <1>1, <1>4
<1>6. k # <<>> /\ l # <<>>
  BY <1>5
<1>7. j # 1
  BY <1>5, <1>6 DEF Follows
<1>8. j - 1 \in 1 .. Len(k) - 1 /\ j - 1 \in 1 .. Len(l) - 1 /\ j - 1 + 1 = j /\ j - 1 < j
  BY <1>5, <1>7
<1>9. k[j - 1] = l[j - 1]
  BY <1>1, <1>4, <1>8
<1>10. nx[k[j - 1]] = k[j] /\ nx[l[j - 1]] = l[j]
  BY <1>6, <1>8, Zenon DEF Follows
<1> QED
  BY <1>5, <1>9, <1>10

LEMMA FollowLength ==
  ASSUME NEW nx, NEW x, NEW k \in Lists, NEW l \in Lists,
         Follows(nx, k, x), Follows(nx, l, x)
  PROVE  ~(Len(k) < Len(l))
<1>1. k \in Seq(Threads) /\ l \in Seq(Threads)
  BY ListsAre
<1>2. SUFFICES ASSUME Len(k) < Len(l) PROVE FALSE
  OBVIOUS
<1>3. \A i \in DOMAIN k : i \in DOMAIN l /\ k[i] = l[i]
  BY <1>1, <1>2, FollowAgree
<1>4. l # <<>> /\ NULL \notin Threads
  BY <1>1, <1>2, CndVarAssumptions
<1>5. CASE k = <<>>
  BY <1>1, <1>2, <1>4, <1>5 DEF Follows
<1>6. CASE k # <<>>
  <2> PICK n \in Nat : n = Len(k)
    BY <1>1
  <2>1. n \in 1 .. Len(l) - 1 /\ n + 1 \in DOMAIN l /\ n \in DOMAIN k /\ DOMAIN k = 1 .. n
    BY <1>1, <1>2, <1>6
  <2>2. nx[l[n]] = l[n + 1]
    BY <1>4, <2>1 DEF Follows
  <2>3. nx[k[n]] \in {NULL} \cup {k[i] : i \in DOMAIN k}
    BY <1>6 DEF Follows
  <2>4. l[n + 1] \in Threads
    BY <1>1, <2>1
  <2>5. PICK i \in DOMAIN k : l[n + 1] = k[i]
    BY <1>3, <1>4, <2>1, <2>2, <2>3, <2>4
  <2>6. i = n + 1
    BY <1>3, <2>1, <2>5, ListsAre
  <2> QED
    BY <2>1, <2>5, <2>6
<1> QED
  BY <1>5, <1>6

\* ListFrom is the one list there is.
LEMMA ListFromIs ==
  ASSUME NEW nx, NEW x, NEW l \in Lists, Follows(nx, l, x)
  PROVE  (CHOOSE k \in Lists : Follows(nx, k, x)) = l
<1>1. PICK k \in Lists : k = (CHOOSE h \in Lists : Follows(nx, h, x)) /\ Follows(nx, k, x)
  OBVIOUS
<1>2. k \in Seq(Threads) /\ l \in Seq(Threads) 
  BY ListsAre
<1>3. Len(k) = Len(l)
  BY <1>1, <1>2, FollowLength
<1>4. \A i \in DOMAIN k \cap DOMAIN l : k[i] = l[i]
  BY <1>1, FollowAgree
<1> QED
  BY <1>1, <1>2, <1>3, <1>4

(***************************************************************************)
(* What the list looks like from outside                                   *)
(***************************************************************************)
\* l is linked by the pointers nx from x to NULL.
Chain(nx, l, x) ==
  /\ \A i, j \in DOMAIN l : l[i] = l[j] => i = j
  /\ x = IF l = <<>> THEN NULL ELSE l[1]
  /\ \A i \in DOMAIN l : nx[l[i]] = IF i = Len(l) THEN NULL ELSE l[i + 1]

\* Such a sequence is the list from x on.
LEMMA ChainIsTheList ==
  ASSUME NEW nx, NEW x, NEW l \in Seq(Threads), Chain(nx, l, x)
  PROVE  (CHOOSE k \in Lists : Follows(nx, k, x)) = l
<1>1. l \in Lists
  BY ListBound DEF Chain
<1>2. Follows(nx, l, x)
  <2>1. CASE l = <<>>
    BY <2>1 DEF Follows, Chain
  <2>2. CASE l # <<>>
    <3> PICK n \in Nat : n = Len(l)
      OBVIOUS
    <3>1. n # 0 /\ DOMAIN l = 1 .. n
      BY <2>2, EmptyList
    <3>2. n \in 1 .. n /\ \A i \in 1 .. n - 1 : i \in 1 .. n /\ i # n
      BY <3>1
    <3> QED
      BY <2>2, <3>1, <3>2, Zenon DEF Follows, Chain
  <2> QED
    BY <2>1, <2>2
<1> QED
  BY <1>1, <1>2, ListFromIs

LEMMA LinkedIsTheList ==
  ASSUME NEW l \in Seq(Threads), NEW x, Linked(l, x)
  PROVE  ListFrom(x) = l /\ Nodes(x) = {l[i] : i \in DOMAIN l}
<1>1. Chain(next, l, x)
  BY DEF Linked, Chain
<1>2. (CHOOSE k \in Lists : Follows(next, k, x)) = l
  BY <1>1, ChainIsTheList
<1>3. ListFrom(x) = l
  BY <1>2 DEF ListFrom
<1> QED
  BY <1>3 DEF Nodes

LEMMA LinkedWillBeTheList ==
  ASSUME NEW l \in Seq(Threads), NEW x, Linked(l, x)'
  PROVE  (ListFrom(x) = l)'
<1>1. Chain(next', l, x)
  BY DEF Linked, Chain
<1>2. (CHOOSE k \in Lists : Follows(next', k, x)) = l
  BY <1>1, ChainIsTheList
<1> QED
  BY <1>2 DEF ListFrom

\* The queue is empty while a broadcast is under way, and otherwise has the waiters
\* that nobody has picked out.
Queue(l) == IF waitq_front = NULL THEN <<>> ELSE l

LEMMA EmptyIsLinked == Linked(<<>>, NULL) /\ <<>> \in Seq(Threads)
  BY DEF Linked

LEMMA HoldingLinks ==
  ASSUME NEW l, Holding(l)
  PROVE  /\ Linked(Queue(l), waitq_front) /\ Queue(l) \in Seq(Threads)
         /\ (\A t \in Threads : ~Broadcasting(t)) => Queue(l) = l
         /\ waitq_back = IF Queue(l) = <<>> THEN NULL ELSE l[Len(l)]
<1>1. l \in Seq(Threads) /\ NULL \notin Threads
  BY CndVarAssumptions DEF Holding
<1>2. CASE waitq_front = NULL
  <2>1. Queue(l) = <<>>
    BY <1>2 DEF Queue
  <2>2. ASSUME \A t \in Threads : ~Broadcasting(t) PROVE l = <<>> /\ waitq_back = NULL
    <3>1. Linked(l, NULL) /\ waitq_back = IF l = <<>> THEN NULL ELSE l[Len(l)]
      BY <1>2, <2>2 DEF Holding, Queued
    <3>2. l = <<>>
      BY <1>1, <3>1, EmptyList DEF Linked
    <3> QED
      BY <3>1, <3>2
  <2>3. ASSUME NEW t \in Threads, Broadcasting(t) PROVE waitq_back = NULL
    BY <2>3 DEF Holding, ToVisit
  <2>4. Linked(<<>>, waitq_front) /\ <<>> \in Seq(Threads)
    BY <1>2, EmptyIsLinked
  <2> QED
    BY <2>1, <2>2, <2>3, <2>4
<1>3. CASE waitq_front # NULL
  <2>1. \A t \in Threads : ~Broadcasting(t)
    BY <1>3 DEF Holding, ToVisit
  <2>2. Linked(l, waitq_front) /\ waitq_back = IF l = <<>> THEN NULL ELSE l[Len(l)]
    BY <2>1 DEF Holding, Queued
  <2> QED
    BY <1>1, <1>3, <2>2 DEF Queue
<1> QED
  BY <1>2, <1>3

\* The same of the state after a step.
LEMMA HoldingWillLink ==
  ASSUME NEW l, Holding(l)'
  PROVE  /\ Linked(Queue(l), waitq_front)' /\ Queue(l)' \in Seq(Threads)
         /\ (\A t \in Threads : ~Broadcasting(t)') => Queue(l)' = l
<1>1. l \in Seq(Threads) /\ NULL \notin Threads
  BY CndVarAssumptions DEF Holding
<1>2. CASE waitq_front' = NULL
  <2>1. Queue(l)' = <<>>
    BY <1>2 DEF Queue
  <2>2. ASSUME \A t \in Threads : ~Broadcasting(t)' PROVE l = <<>>
    <3>1. Linked(l, waitq_front)'
      BY <2>2 DEF Holding, Queued
    <3> QED
      BY <1>1, <1>2, <3>1, EmptyList DEF Linked
  <2> QED
    BY <1>2, <2>1, <2>2 DEF Linked
<1>3. CASE waitq_front' # NULL
  <2>1. \A t \in Threads : ~Broadcasting(t)'
    BY <1>3 DEF Holding, ToVisit
  <2>2. Linked(l, waitq_front)'
    BY <2>1 DEF Holding, Queued
  <2> QED
    BY <1>1, <1>3, <2>2 DEF Queue
<1> QED
  BY <1>2, <1>3

LEMMA QueueNow ==
  ASSUME NEW l, Holding(l)
  PROVE  /\ ListFrom(waitq_front) = Queue(l) /\ Queue(l) \in Seq(Threads)
         /\ Nodes(waitq_front) = {Queue(l)[i] : i \in DOMAIN Queue(l)}
  BY HoldingLinks, LinkedIsTheList

LEMMA QueueNext ==
  ASSUME NEW l, Holding(l)'
  PROVE  /\ ListFrom(waitq_front)' = Queue(l)' /\ Queue(l)' \in Seq(Threads)
         /\ Nodes(waitq_front)' = {Queue(l)'[i] : i \in DOMAIN Queue(l)'}
<1> PICK k : k = Queue(l)'
  OBVIOUS
<1> PICK x : x = waitq_front'
  OBVIOUS
<1>1. Linked(k, x)' /\ k \in Seq(Threads)
  BY HoldingWillLink DEF Linked
<1>2. ListFrom(x)' = k
  BY <1>1, LinkedWillBeTheList
<1>3. ListFrom(waitq_front)' = k
  BY <1>2 DEF ListFrom
<1> QED
  BY <1>1, <1>3 DEF Nodes

\* What the queue and the signallers reach is parked, and everything parked is reached.
LEMMA ReachAlive ==
  ASSUME ListInv
  PROVE  NoDeadWaiter
<1>1. PICK l \in Seq(Threads) : Holding(l)
  BY DEF ListInv
<1>2. \A t \in Threads : Parked(t) => t \in alive
  BY DEF ListInv, NodeTypes, Parked, InWait
<1>3. ASSUME NEW k \in Seq(Threads), NEW x, Linked(k, x) PROVE Nodes(x) \subseteq alive
  <2>1. Nodes(x) = {k[i] : i \in DOMAIN k}
    BY <1>3, LinkedIsTheList
  <2> QED
    BY <1>2, <1>3, <2>1 DEF Linked
<1>4. Nodes(waitq_front) \subseteq alive
  BY <1>1, <1>3, HoldingLinks
<1>5. Nodes(waitq_back) \subseteq alive
  <2>1. CASE Queue(l) = <<>>
    BY <1>1, <1>3, <2>1, HoldingLinks, EmptyIsLinked
  <2>2. CASE Queue(l) # <<>>
    <3>1. Queue(l) = l /\ Linked(l, waitq_front) /\ waitq_back = l[Len(l)]
      BY <1>1, <2>2, HoldingLinks DEF Queue
    <3>2. Len(l) \in DOMAIN l /\ l[Len(l)] \in Threads
      BY <2>2, <3>1, EmptyList
    <3>3. Parked(waitq_back) /\ next[waitq_back] = NULL /\ waitq_back \in Threads
      BY <3>1, <3>2 DEF Linked
    <3>4. Linked(<<waitq_back>>, waitq_back)
      BY <3>3 DEF Linked
    <3>5. <<waitq_back>> \in Seq(Threads)
      BY <3>3
    <3> QED
      BY <1>3, <3>4, <3>5, Zenon
  <2> QED
    BY <2>1, <2>2
<1>6. ASSUME NEW t \in Threads PROVE InHand(t) \subseteq alive
  <2>1. CASE pc[t] \in {"n_free", "n_wake_op"}
    BY <1>2, <2>1 DEF InHand, ListInv, Hands, Picked, Notifying
  <2>2. CASE pc[t] = "b_loop"
    <3>1. Linked(l, target[t])
      BY <1>1, <2>2 DEF Holding, ToVisit, Broadcasting
    <3> QED
      BY <1>3, <2>2, <3>1 DEF InHand
  <2>3. CASE pc[t] = "b_next"
    <3>1. Linked(l, next[target[t]])
      BY <1>1, <2>3 DEF Holding, ToVisit, Broadcasting
    <3>2. target[t] \in alive
      BY <2>3 DEF ListInv, Hands, NextReadable, NodeTypes, InWait
    <3> QED
      BY <1>3, <2>3, <3>1, <3>2 DEF InHand
  <2>4. CASE pc[t] \notin {"n_free", "n_wake_op", "b_loop", "b_next"}
    BY <2>4 DEF InHand
  <2> QED
    BY <2>1, <2>2, <2>3, <2>4
<1> QED
  BY <1>4, <1>5, <1>6 DEF NoDeadWaiter

LEMMA ParkedIsReached ==
  ASSUME ListInv, NEW t \in Threads, Parked(t)
  PROVE  t \in Nodes(waitq_front) \cup UNION {InHand(u) : u \in Threads}
<1>1. PICK l \in Seq(Threads) : Holding(l)
  BY DEF ListInv
<1>2. CASE \E u \in Threads : Notifying(u) /\ target[u] = t
  BY <1>2 DEF InHand, Notifying
<1>3. CASE \E i \in DOMAIN l : l[i] = t
  <2>1. CASE \A u \in Threads : ~Broadcasting(u)
    BY <1>1, <1>3, <2>1, HoldingLinks, QueueNow
  <2>2. ASSUME NEW u \in Threads, Broadcasting(u) PROVE t \in InHand(u)
    <3>1. CASE pc[u] = "b_loop"
      <4>1. Linked(l, target[u])
        BY <1>1, <2>2, <3>1 DEF Holding, ToVisit
      <4>2. t \in Nodes(target[u])
        BY <1>3, <4>1, LinkedIsTheList
      <4> QED
        BY <3>1, <4>2 DEF InHand
    <3>2. CASE pc[u] = "b_next"
      <4>1. Linked(l, next[target[u]])
        BY <1>1, <2>2, <3>2 DEF Holding, ToVisit
      <4>2. t \in Nodes(next[target[u]])
        BY <1>3, <4>1, LinkedIsTheList
      <4> QED
        BY <3>2, <4>2 DEF InHand
    <3> QED
      BY <2>2, <3>1, <3>2 DEF Broadcasting
  <2> QED
    BY <2>1, <2>2
<1> QED
  BY <1>1, <1>2, <1>3 DEF Holding, NoneMissed

(***************************************************************************)
(* The steps                                                               *)
(***************************************************************************)
\* The waiters that are in no place of q.
Outside(q) == {t \in Threads : Waiting(t) /\ \A i \in DOMAIN q : q[i] # t}

\* What the abstract condition variable sees of a state.
Sees(q) ==
  /\ q \in Seq(Threads) /\ ListFrom(waitq_front) = q
  /\ {t \in Threads : Waiting(t) /\ t \notin Nodes(waitq_front)} = Outside(q)

LEMMA SeesNow == ASSUME NEW l, Holding(l) PROVE Sees(Queue(l))
  BY QueueNow DEF Sees, Outside

LEMMA SeesNext == ASSUME NEW k, Holding(k)', NEW r, r = Queue(k)' PROVE Sees(r)'
<1>1. ListFrom(waitq_front)' = r /\ r \in Seq(Threads) /\ Nodes(waitq_front)' = {r[i] : i \in DOMAIN r}
  BY QueueNext
<1> QED
  BY <1>1 DEF Sees, Outside

\* A step that changes neither the queue nor who waits changes nothing the abstract
\* condition variable can see.
LEMMA SeesTheSame ==
  ASSUME NEW q, Sees(q), Sees(q)', \A u \in Threads : Waiting(u)' <=> Waiting(u)
  PROVE  UNCHANGED Abstract!vars
<1>1. Outside(q)' = Outside(q)
  BY DEF Outside
<1> QED
  BY <1>1 DEF Sees, Abstract!vars

LEMMA SeesWait ==
  ASSUME NEW q, Sees(q), NEW t \in Threads, ~Waiting(t), \A i \in DOMAIN q : q[i] # t,
         Sees(Append(q, t))', \A u \in Threads \ {t} : Waiting(u)' <=> Waiting(u)
  PROVE  Abstract!Next
<1> PICK r : r = Append(q, t)
  BY Zenon
<1>1. /\ q \in Seq(Threads) /\ Len(q) \in Nat /\ r \in Seq(Threads)
      /\ DOMAIN r = 1 .. Len(q) + 1 /\ DOMAIN q = 1 .. Len(q)
      /\ r[Len(q) + 1] = t /\ \A i \in 1 .. Len(q) : r[i] = q[i]
  BY DEF Sees
<1>2. ASSUME NEW u \in Threads, u # t
      PROVE  (\A i \in DOMAIN r : r[i] # u) <=> (\A i \in DOMAIN q : q[i] # u)
  BY <1>1, <1>2
<1>3. Outside(r)' = Outside(q)
  BY <1>1, <1>2 DEF Outside
<1>4. t \notin Outside(q) /\ t \notin {q[i] : i \in DOMAIN q}
  BY DEF Outside
<1>5. Abstract!Wait(t)
  BY <1>3, <1>4 DEF Sees, Abstract!Wait
<1> QED
  BY <1>5 DEF Abstract!Next

LEMMA SeesWithdraw ==
  ASSUME NEW q, Sees(q), q # <<>>, NEW t \in Threads, q[Len(q)] = t,
         \A i, j \in DOMAIN q : q[i] = q[j] => i = j,
         Sees(SubSeq(q, 1, Len(q) - 1))', ~Waiting(t)',
         \A u \in Threads \ {t} : Waiting(u)' <=> Waiting(u)
  PROVE  Abstract!Next
<1> PICK r : r = SubSeq(q, 1, Len(q) - 1)
  BY Zenon
<1> PICK n \in Nat : n + 1 = Len(q)
  <2>1. Len(q) \in Nat /\ Len(q) # 0
    BY EmptyList DEF Sees
  <2>2. Len(q) - 1 \in Nat /\ Len(q) - 1 + 1 = Len(q)
    BY <2>1
  <2> QED
    BY <2>2, Zenon
<1>1. q \in Seq(Threads) /\ DOMAIN q = 1 .. n + 1 /\ n + 1 - 1 = n
  BY DEF Sees
<1>2. r \in Seq(Threads) /\ DOMAIN r = 1 .. n /\ \A i \in 1 .. n : r[i] = q[i]
  BY <1>1
<1>3. ASSUME NEW u \in Threads, u # t
      PROVE  (\A i \in DOMAIN r : r[i] # u) <=> (\A i \in DOMAIN q : q[i] # u)
  <2>1. /\ q[n + 1] = t /\ DOMAIN r = 1 .. n /\ DOMAIN q = 1 .. n + 1
        /\ \A i \in 1 .. n + 1 : i \in 1 .. n \/ i = n + 1
        /\ \A i \in 1 .. n : i \in 1 .. n + 1
    BY <1>1, <1>2
  <2> QED
    BY <1>2, <1>3, <2>1, Zenon
<1>4. t \notin Outside(q)
  BY <1>1 DEF Outside
<1>5. Outside(r)' = Outside(q)
  BY <1>3, <1>4 DEF Outside
<1>6. Abstract!Withdraw(t)
  BY <1>5 DEF Sees, Abstract!Withdraw
<1> QED
  BY <1>6 DEF Abstract!Next

LEMMA SeesNotifyOne ==
  ASSUME NEW q, Sees(q), q # <<>>, Waiting(q[1]),
         \A i \in DOMAIN Tail(q) : Tail(q)[i] # q[1],
         Sees(Tail(q))', \A u \in Threads : Waiting(u)' <=> Waiting(u)
  PROVE  Abstract!Next
<1> PICK r : r = Tail(q)
  BY Zenon
<1>1. q \in Seq(Threads) /\ q[1] \in Threads /\ 1 \in DOMAIN q /\ Head(q) = q[1]
  <2>1. q \in Seq(Threads)
    BY DEF Sees
  <2> QED
    BY <2>1, EmptyList
<1>2. /\ \A i \in DOMAIN r : i + 1 \in DOMAIN q /\ r[i] = q[i + 1]
      /\ \A j \in DOMAIN q : j = 1 \/ \E i \in DOMAIN r : j = i + 1
  BY <1>1, RestOfList
<1>3. ASSUME NEW u \in Threads, u # q[1]
      PROVE  (\A i \in DOMAIN r : r[i] # u) <=> (\A i \in DOMAIN q : q[i] # u)
  BY <1>2, <1>3
<1>4. Outside(r)' = Outside(q) \cup {q[1]}
  BY <1>1, <1>3 DEF Outside
<1>5. Abstract!NotifyOne
  BY <1>1, <1>4 DEF Sees, Abstract!NotifyOne
<1> QED
  BY <1>5 DEF Abstract!Next

LEMMA SeesBroadcast ==
  ASSUME NEW q, Sees(q), q # <<>>, \A i \in DOMAIN q : Waiting(q[i]),
         Sees(<<>>)', \A u \in Threads : Waiting(u)' <=> Waiting(u)
  PROVE  Abstract!Next
<1>1. q \in Seq(Threads) /\ \A i \in DOMAIN q : q[i] \in Threads
  BY DEF Sees
<1>3. Outside(<<>>)' = Outside(q) \cup {q[i] : i \in DOMAIN q}
  <2>1. \A u \in Threads : u \in Outside(<<>>)' <=> Waiting(u)
    BY DEF Outside
  <2>2. \A u \in Threads : u \in Outside(q) <=> Waiting(u) /\ \A i \in DOMAIN q : q[i] # u
    BY DEF Outside
  <2>3. Outside(<<>>)' \subseteq Threads /\ Outside(q) \subseteq Threads
    BY DEF Outside
  <2> QED
    BY <1>1, <2>1, <2>2, <2>3
<1>4. Abstract!Broadcast
  BY <1>3 DEF Sees, Abstract!Broadcast
<1> QED
  BY <1>4 DEF Abstract!Next

LEMMA SeesReturn ==
  ASSUME NEW q, Sees(q), NEW t \in Threads, Waiting(t), \A i \in DOMAIN q : q[i] # t,
         Sees(q)', ~Waiting(t)', \A u \in Threads \ {t} : Waiting(u)' <=> Waiting(u)
  PROVE  Abstract!Next
<1>1. Outside(q)' = Outside(q) \ {t} /\ t \in Outside(q)
  BY DEF Outside
<1>2. Abstract!Return(t)
  BY <1>1 DEF Sees, Abstract!Return
<1> QED
  BY <1>2 DEF Abstract!Next

\* The quiet steps change who waits only where wait() returns.
LEMMA QuietWaiters ==
  ASSUME QInv, ClientInv, NEW t \in Threads, Quiet(t)
  PROVE  /\ \A u \in Threads \ {t} : Waiting(u)' <=> Waiting(u)
         /\ waitq_front' = waitq_front
         /\ \/ Waiting(t)' <=> Waiting(t)
            \/ Waiting(t) /\ ~Waiting(t)' /\ pc[t] = "w_relock"
<1>a. pc \in [Threads -> Labels] /\ home \in [Threads -> {"out", "in"}]
  BY DEF QInv, QExclusion, QTypes, ClientInv
<1>b. ASSUME NEW p, pc' = [pc EXCEPT ![t] = p]
      PROVE  pc'[t] = p /\ \A u \in Threads \ {t} : pc'[u] = pc[u]
  BY <1>a, <1>b
<1> USE DEF Goto, Waiting
<1>1. CASE QmtxStep(t) \/ QmtxInterrupted(t)
  BY <1>1 DEF QmtxStep, QmtxInterrupted, queue
<1>2. CASE LockM(t) \/ UnlockM(t) \/ StartNotify(t) \/ StartBroadcast(t) \/ StartWait(t)
  <2>1. /\ pc[t] \in {"in", "out"} /\ waitq_front' = waitq_front
        /\ \E p \in {"in", "out", "n_qlock", "b_qlock", "w_qlock"} : pc' = [pc EXCEPT ![t] = p]
    BY <1>2, Zenon DEF LockM, UnlockM, StartNotify, StartBroadcast, StartWait, MaySignal, Begin, queue
  <2> QED
    BY <1>b, <2>1
<1>3. CASE Unlocks(t) \/ FutexWait(t)
  <2>1. /\ pc[t] \in {"w_unlock", "w_qunlock"} /\ waitq_front' = waitq_front
        /\ \E p \in {"w_qunlock", "w_asleep", "w_relock"} : pc' = [pc EXCEPT ![t] = p]
    BY <1>3, Zenon DEF Unlocks, FutexWait, queue
  <2> QED
    BY <1>b, <2>1
<1>4. CASE FailedReturns(t) \/ NotifyNobody(t) \/ SignalReturns(t) \/ NotifyFrees(t) \/ BroadcastDone(t)
  <2>1. /\ pc[t] \in {"w_failed_qunlock", "n_qlock", "s_qunlock", "n_free", "b_loop"}
        /\ waitq_front' = waitq_front
        /\ \E p \in {"in", "out", "s_qunlock", "n_wake_op"} : pc' = [pc EXCEPT ![t] = p]
    BY <1>a, <1>4 DEF FailedReturns, NotifyNobody, SignalReturns, NotifyFrees, BroadcastDone, queue
  <2> QED
    BY <1>b, <2>1
<1>5. CASE Relock(t)
  <2>1. pc[t] = "w_relock" /\ waitq_front' = waitq_front /\ pc' = [pc EXCEPT ![t] = "in"]
    BY <1>5 DEF Relock, queue
  <2> QED
    BY <1>b, <2>1
<1> QED
  BY <1>1, <1>2, <1>3, <1>4, <1>5, Zenon DEF Quiet

\* The waiters in the list are waiting, and none of them has gone on to lock m.
LEMMA QueueWaits ==
  ASSUME NEW l, Holding(l), NEW i \in DOMAIN Queue(l)
  PROVE  Waiting(Queue(l)[i]) /\ pc[Queue(l)[i]] # "w_relock"
  BY HoldingLinks DEF Linked, Parked, Waiting

\* Every step keeps the list, and is a step of the abstract condition variable.
LEMMA ThreadStep ==
  ASSUME QInv, ClientInv, NodeTypes, Hands, NEW l, Holding(l), NEW t \in Threads,
         \/ Quiet(t) \/ Enqueue(t) \/ UnlockFails(t) \/ NotifyPops(t) \/ NotifySignals(t)
         \/ BroadcastTakes(t) \/ BroadcastSignals(t) \/ BroadcastAdvances(t)
  PROVE  ListInv' /\ (Abstract!Next \/ UNCHANGED Abstract!vars)
<1>a. ASSUME NEW k, NodeTypes', Hands', Holding(k)' PROVE ListInv'
  BY <1>a DEF ListInv, Holding
<1>b. l \in Seq(Threads) /\ Sees(Queue(l))
  BY SeesNow DEF Holding
<1>c. pc \in [Threads -> Labels]
  BY DEF ClientInv
<1>1. CASE Quiet(t)
  <2>1. NodeTypes' /\ Hands' /\ Holding(l)'
    BY <1>1, QuietKeepsLists
  <2> PICK q : q = Queue(l)
    OBVIOUS
  <2>2. Queue(l)' = q
    BY <1>1, QuietWaiters DEF Queue
  <2>3. Sees(q) /\ Sees(q)'
    BY <1>b, <2>1, <2>2, SeesNext
  <2>4. ASSUME Waiting(t)' <=> Waiting(t) PROVE UNCHANGED Abstract!vars
    <3>1. \A u \in Threads : Waiting(u)' <=> Waiting(u)
      BY <1>1, <2>4, QuietWaiters
    <3> QED
      BY <2>3, <3>1, SeesTheSame
  <2>5. ASSUME Waiting(t) /\ ~Waiting(t)' /\ pc[t] = "w_relock" PROVE Abstract!Next
    <3>1. \A i \in DOMAIN q : q[i] # t
      BY <2>5, QueueWaits
    <3>2. \A u \in Threads \ {t} : Waiting(u)' <=> Waiting(u)
      BY <1>1, QuietWaiters
    <3> QED
      BY <2>3, <2>5, <3>1, <3>2, SeesReturn
  <2>6. Abstract!Next \/ UNCHANGED Abstract!vars
    BY <1>1, <2>4, <2>5, QuietWaiters
  <2> QED
    BY <1>a, <2>1, <2>6
<1>2. CASE Enqueue(t)
  <2> PICK k : k = Append(l, t)
    BY Zenon
  <2>1. /\ NodeTypes' /\ Hands' /\ Holding(k)'
        /\ \A u \in Threads : ~Broadcasting(u) /\ ~Broadcasting(u)'
    BY <1>2, EnqueueAppends
  <2>2. Queue(l) = l /\ Queue(k)' = k
    BY <2>1, HoldingLinks, HoldingWillLink, Zenon
  <2>3. Sees(l) /\ Sees(k)'
    BY <1>b, <2>1, <2>2, SeesNext, Zenon
  <2>4. pc[t] = "w_qlock" /\ pc' = [pc EXCEPT ![t] = "w_unlock"]
    BY <1>2 DEF Enqueue, Goto
  <2>5. ~Waiting(t) /\ \A u \in Threads \ {t} : Waiting(u)' <=> Waiting(u)
    BY <1>c, <2>4 DEF Waiting
  <2>6. \A i \in DOMAIN l : l[i] # t
    BY <2>2, <2>5, QueueWaits, Zenon
  <2>7. Abstract!Next
    BY <2>3, <2>5, <2>6, SeesWait
  <2> QED
    BY <1>a, <2>1, <2>7
<1>3. CASE UnlockFails(t)
  <2> PICK k : k = SubSeq(l, 1, Len(l) - 1)
    BY Zenon
  <2>1. /\ NodeTypes' /\ Hands' /\ Holding(k)' /\ l # <<>> /\ l[Len(l)] = t
        /\ \A u \in Threads : ~Broadcasting(u) /\ ~Broadcasting(u)'
    BY <1>3, UnlockFailsRemovesLast
  <2>2. Queue(l) = l /\ Queue(k)' = k /\ Linked(l, waitq_front)
    BY <2>1, HoldingLinks, HoldingWillLink, Zenon
  <2>3. Sees(l) /\ Sees(k)'
    BY <1>b, <2>1, <2>2, SeesNext, Zenon
  <2>4. pc' = [pc EXCEPT ![t] = "w_failed_qunlock"]
    BY <1>3 DEF UnlockFails, Goto
  <2>5. ~Waiting(t)' /\ \A u \in Threads \ {t} : Waiting(u)' <=> Waiting(u)
    BY <1>c, <2>4 DEF Waiting
  <2>6. \A i, j \in DOMAIN l : l[i] = l[j] => i = j
    BY <2>2 DEF Linked
  <2>7. Abstract!Next
    BY <2>1, <2>3, <2>5, <2>6, SeesWithdraw
  <2> QED
    BY <1>a, <2>1, <2>7
<1>4. CASE NotifyPops(t)
  <2> PICK k : k = Tail(l)
    BY Zenon
  <2>1. /\ NodeTypes' /\ Hands' /\ Holding(k)' /\ l # <<>>
        /\ \A u \in Threads : Waiting(u)' <=> Waiting(u)
        /\ \A u \in Threads : ~Broadcasting(u) /\ ~Broadcasting(u)'
    BY <1>4, NotifyTakesFirst
  <2>2. Queue(l) = l /\ Queue(k)' = k /\ Linked(l, waitq_front)
    BY <2>1, HoldingLinks, HoldingWillLink, Zenon
  <2>3. Sees(l) /\ Sees(k)'
    BY <1>b, <2>1, <2>2, SeesNext, Zenon
  <2>4. Waiting(l[1]) /\ \A i \in DOMAIN k : k[i] # l[1]
    <3>1. Parked(waitq_front) /\ waitq_front = l[1] /\ \A i \in DOMAIN k : k[i] # waitq_front
      BY <1>b, <2>1, <2>2, TailIsLinked, Zenon
    <3> QED
      BY <3>1 DEF Parked, Waiting
  <2>5. Abstract!Next
    BY <2>1, <2>3, <2>4, SeesNotifyOne, Zenon
  <2> QED
    BY <1>a, <2>1, <2>5
<1>5. CASE NotifySignals(t)
  <2>1. /\ NodeTypes' /\ Hands' /\ Holding(l)' /\ waitq_front' = waitq_front
        /\ \A u \in Threads : Waiting(u)' <=> Waiting(u)
    BY <1>5, NotifySignalsIts, Zenon DEF NotifySignals, queue
  <2> PICK q : q = Queue(l)
    OBVIOUS
  <2>2. Queue(l)' = q
    BY <2>1 DEF Queue
  <2>3. Sees(q) /\ Sees(q)'
    BY <1>b, <2>1, <2>2, SeesNext
  <2>4. UNCHANGED Abstract!vars
    BY <2>1, <2>3, SeesTheSame
  <2> QED
    BY <1>a, <2>1, <2>4
<1>6. CASE BroadcastTakes(t)
  <2>1. /\ NodeTypes' /\ Hands' /\ Holding(l)' /\ waitq_front' = NULL
        /\ \A u \in Threads : Waiting(u)' <=> Waiting(u)
    <3>1. waitq_front' = NULL
      BY <1>6 DEF BroadcastTakes
    <3> QED
      BY <1>6, <3>1, BroadcastTakesAll
  <2> PICK q : q = Queue(l)
    OBVIOUS
  <2>2. Queue(l)' = <<>>
    BY <2>1 DEF Queue
  <2>3. Sees(q) /\ Sees(<<>>)'
    BY <1>b, <2>1, <2>2, SeesNext
  <2>4. ASSUME q = <<>> PROVE UNCHANGED Abstract!vars
    BY <2>1, <2>3, <2>4, SeesTheSame
  <2>5. ASSUME q # <<>> PROVE Abstract!Next
    <3>1. \A i \in DOMAIN q : Waiting(q[i])
      BY QueueWaits
    <3> QED
      BY <2>1, <2>3, <2>5, <3>1, SeesBroadcast
  <2>6. Abstract!Next \/ UNCHANGED Abstract!vars
    BY <2>4, <2>5
  <2> QED
    BY <1>a, <2>1, <2>6
<1>7. CASE BroadcastSignals(t) \/ BroadcastAdvances(t)
  <2>1. PICK k : /\ NodeTypes' /\ Hands' /\ Holding(k)'
                 /\ \A u \in Threads : Waiting(u)' <=> Waiting(u)
                 /\ Broadcasting(t)
    BY <1>7, BroadcastSignalsFirst, BroadcastReadsNext
  <2>2. waitq_front = NULL /\ waitq_front' = waitq_front
    <3>1. waitq_front' = waitq_front
      BY <1>7 DEF BroadcastSignals, BroadcastAdvances, queue
    <3>2. waitq_front = NULL
      BY <2>1, Zenon DEF Holding, ToVisit
    <3> QED
      BY <3>1, <3>2
  <2>3. Queue(l) = <<>> /\ Queue(k)' = <<>>
    BY <2>2 DEF Queue
  <2>4. Sees(<<>>) /\ Sees(<<>>)'
    BY <1>b, <2>1, <2>3, SeesNext
  <2>5. UNCHANGED Abstract!vars
    BY <2>1, <2>4, SeesTheSame
  <2> QED
    BY <1>a, <2>1, <2>5
<1> QED
  BY <1>1, <1>2, <1>3, <1>4, <1>5, <1>6, <1>7

\* Until a signal ends a wait(), the list is well-formed and every step is one of the
\* abstract condition variable.
LEMMA WaitersStep ==
  ASSUME QInv, ClientInv, interrupted \/ ListInv, [Next]_vars
  PROVE  /\ interrupted' \/ ListInv'
         /\ interrupted' \/ Abstract!Next \/ UNCHANGED Abstract!vars
<1>1. interrupted => interrupted'
  BY Zenon DEF Next, vars, LockM, UnlockM, QmtxStep, WaitStep, SignalStep, StartWait, StartNotify,
         StartBroadcast, Interrupted, QmtxInterrupted, Enqueue, UnlockFails, Unlocks,
         FailedReturns, FutexWait, Relock, NotifyNobody, NotifyPops, NotifyFrees, NotifySignals,
         BroadcastTakes, BroadcastSignals, BroadcastAdvances, BroadcastDone, SignalReturns
<1> SUFFICES ASSUME ListInv
             PROVE  /\ interrupted' \/ ListInv'
                    /\ interrupted' \/ Abstract!Next \/ UNCHANGED Abstract!vars
  BY <1>1
<1>2. PICK l \in Seq(Threads) : Holding(l)
  BY DEF ListInv
<1>3. NodeTypes /\ Hands
  BY DEF ListInv
<1>4. CASE UNCHANGED vars
  <2>1. UNCHANGED <<pc, status, next, alive, target, waitq_front, waitq_back>>
    BY <1>4 DEF vars, queue, nodes
  <2>2. ListInv'
    <3>1. NodeTypes'
      BY <1>3, <2>1 DEF NodeTypes
    <3>2. Hands'
      BY <1>3, <2>1 DEF Hands, Picked, PickedOnce, NextReadable, Parked, Notifying
    <3>3. Holding(l)'
      BY <1>2, <2>1, Zenon DEF Holding, Unpicked, Queued, ToVisit, Withdrawable, NoneMissed, Linked, Parked, Notifying, Broadcasting
    <3> QED
      BY <3>1, <3>2, <3>3 DEF ListInv
  <2>3. UNCHANGED Abstract!vars
    BY <2>1 DEF Abstract!vars, ListFrom, Nodes, Waiting
  <2> QED
    BY <2>2, <2>3
<1>5. ASSUME NEW t \in Threads, Interrupted(t) PROVE interrupted'
  BY <1>5 DEF Interrupted
<1>6. CASE Next
  <2>1. PICK t \in Threads :
          \/ Interrupted(t) \/ Quiet(t) \/ Enqueue(t) \/ UnlockFails(t) \/ NotifyPops(t)
          \/ NotifySignals(t) \/ BroadcastTakes(t) \/ BroadcastSignals(t) \/ BroadcastAdvances(t)
    BY <1>6, Zenon DEF Next, WaitStep, SignalStep, Quiet
  <2>2. CASE Interrupted(t)
    BY <1>5, <2>2
  <2>3. CASE ~Interrupted(t)
    BY <1>2, <1>3, <2>1, <2>3, ThreadStep
  <2> QED
    BY <2>2, <2>3
<1> QED
  BY <1>4, <1>6

\* The three parts of the invariant hold together.
LEMMA CndVarInvariant ==
  ASSUME \A c \in Casts : Disciplined(c)
  PROVE  Spec => [](QInv /\ ClientInv /\ (interrupted \/ ListInv))
<1>1. Init => QInv /\ ClientInv /\ (interrupted \/ ListInv)
  <2>1. <<>> \in Seq(Threads)
    OBVIOUS
  <2> QED
    BY <2>1, QInvInit, ClientInit, WaitersInit, Zenon DEF ListInv
<1>2. QInv /\ ClientInv /\ (interrupted \/ ListInv) /\ [Next]_vars
        => (QInv /\ ClientInv /\ (interrupted \/ ListInv))'
  BY QInvStep, ClientStep, WaitersStep
<1> QED
  BY <1>1, <1>2, PTL DEF Spec

\* For every finite set of threads and every number of calls: where broadcast() is called
\* with m held, and nobody who shares the condition variable with a broadcaster waits
\* without m, the queue, notify_one and broadcast reach only waiters whose wait() has
\* not returned, as long as no signal has ended a wait() (CndVar.h:72-76).
THEOREM CndVarReachesLiveWaiters ==
  ASSUME \A c \in Casts : Disciplined(c)
  PROVE  Spec => []UndisturbedNoDeadWaiter
<1>1. interrupted \/ ListInv => UndisturbedNoDeadWaiter
  BY ReachAlive DEF UndisturbedNoDeadWaiter
<1> QED
  BY <1>1, CndVarInvariant, PTL

\* Under the same conditions no wake-up is lost between the unlock of m and the sleep:
\* a waiter nobody has signalled is in the queue or in the hand of a signaller
\* (CndVar.h:50-57).
THEOREM CndVarFindsWaiters ==
  ASSUME \A c \in Casts : Disciplined(c)
  PROVE  Spec => []WaiterIsFindable
<1>1. interrupted \/ ListInv => WaiterIsFindable
  BY ParkedIsReached DEF WaiterIsFindable, Parked
<1> QED
  BY <1>1, CndVarInvariant, PTL

\* For every set of threads and of clients, signals and interruptions included, qmtx
\* lets one thread at a time at the queue and its word is Free exactly when nobody
\* has it, although notify_one releases it by storing into the word (CndVar.h:97-98).
THEOREM CndVarQueueIsGuarded == Spec => []QmtxExclusion
<1>1. QInv => QmtxExclusion
  BY DEF QInv, QExclusion, QmtxExclusion
<1> QED
  BY <1>1, QInvInit, QInvStep, PTL DEF Spec

\* Under the same conditions the linked list, the status words and the two mutexes
\* implement the abstract condition variable: waiters are signalled in the order they
\* came, broadcast takes all of them at once, and wait() returns to those signalled only.
THEOREM CndVarImplements ==
  ASSUME \A c \in Casts : Disciplined(c)
  PROVE  Spec => ImplementsAbstractCndVar
<1>1. Init => Abstract!Init
  <2> SUFFICES ASSUME Init PROVE Abstract!Init
    OBVIOUS
  <2>1. waitq_front = NULL /\ \A t \in Threads : ~Waiting(t)
    BY DEF Init, Waiting
  <2>2. Sees(<<>>)
    BY <2>1, WaitersInit, SeesNow DEF Queue
  <2>3. Outside(<<>>) = {}
    BY <2>1 DEF Outside
  <2> QED
    BY <2>2, <2>3 DEF Sees, Abstract!Init
<1>2. QInv /\ ClientInv /\ (interrupted \/ ListInv) /\ [Next]_vars
        => [interrupted' \/ Abstract!Next]_(Abstract!vars)
  BY WaitersStep
<1> QED
  BY <1>1, <1>2, CndVarInvariant, PTL DEF Spec, ImplementsAbstractCndVar
=============================================================================
