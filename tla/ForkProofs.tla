----------------------------- MODULE ForkProofs -----------------------------
(***************************************************************************)
(* Proofs about exit handlers and fork callbacks in a process that may     *)
(* fork, for every set of threads, handlers and triples: no handler is     *)
(* lost, none runs twice, they run backwards, and the callbacks after a    *)
(* fork are those that were prepared for it.                               *)
(***************************************************************************)
EXTENDS Fork, TLAPS

\* Labels at which a thread is inside the critical section of handler_list_mtx.
Holding == {"add_unlock", "pop", "_Exit"}

Labels ==
  Holding \cup {"idle", "lock", "in_handler", "register_unlock", "prepare", "sys_fork",
               "fix_tid", "after_lock", "after", "none"}

Known == ToSet(exit_callbacks) \cup ToSet(ran)

HandlerTypes ==
  /\ exit_callbacks \in Seq(Handlers) /\ ran \in Seq(Handlers)
  /\ handler_list_mtx \in Threads \cup {NoThread}
  /\ pc \in [Threads -> Labels]
  /\ home \in [Threads -> {"idle", "in_handler"}]
  /\ unit \in [Threads -> Handlers \cup {NoHandler}]

\* The critical sections exclude each other.
ListExclusion == \A t \in Threads : pc[t] \in Holding => handler_list_mtx = t

\* What has been pushed is in the list until it has been run.
HandlersKept ==
  /\ registered \subseteq Known
  /\ \A t \in Threads : pc[t] = "add_unlock" => unit[t] \in Known

\* Once the list is destroyed it is empty, and the mutex stays with the thread that
\* is about to end the process, which a child may not have.
ListClosed ==
  destroyed => /\ exit_callbacks = <<>>
               /\ handler_list_mtx \in Threads
               /\ pc[handler_list_mtx] \in {"_Exit", "none"}

\* No handler is twice in the list, or in the list and run.
HandlersApart ==
  /\ IsInjective(exit_callbacks) /\ IsInjective(ran)
  /\ ToSet(exit_callbacks) \cap ToSet(ran) = {}

HandlerInv == HandlerTypes /\ ListExclusion /\ HandlersKept /\ ListClosed /\ HandlersApart

----------------------------------------------------------------------------
(* The list                                                                *)

\* push_back adds one element to the elements of the list, and a new one keeps
\* them distinct.
LEMMA PushElements ==
  ASSUME NEW S, NEW s \in Seq(S), NEW x \in S
  PROVE  /\ Append(s, x) \in Seq(S)
         /\ ToSet(Append(s, x)) = ToSet(s) \cup {x}
         /\ IsInjective(s) /\ x \notin ToSet(s) => IsInjective(Append(s, x))
<1>1. /\ Append(s, x) \in Seq(S)
      /\ DOMAIN Append(s, x) = 1 .. Len(s) + 1 /\ DOMAIN s = 1 .. Len(s) /\ Len(s) \in Nat
      /\ \A i \in 1 .. Len(s) : Append(s, x)[i] = s[i]
      /\ Append(s, x)[Len(s) + 1] = x
  OBVIOUS
<1>2. ToSet(Append(s, x)) = ToSet(s) \cup {x}
  BY <1>1 DEF ToSet
<1>3. IsInjective(s) /\ x \notin ToSet(s) => IsInjective(Append(s, x))
  BY <1>1 DEF ToSet, IsInjective
<1> QED
  BY <1>1, <1>2, <1>3

\* pop_back splits off back(): no element is lost, and distinct elements stay so.
LEMMA PopElements ==
  ASSUME NEW S, NEW s \in Seq(S), s # <<>>
  PROVE  /\ Front(s) \in Seq(S) /\ Last(s) \in S
         /\ ToSet(s) = ToSet(Front(s)) \cup {Last(s)}
         /\ IsInjective(s) => IsInjective(Front(s)) /\ Last(s) \notin ToSet(Front(s))
<1>1. /\ Front(s) \in Seq(S) /\ Len(s) \in Nat \ {0}
      /\ DOMAIN Front(s) = 1 .. Len(s) - 1 /\ DOMAIN s = 1 .. Len(s)
      /\ \A i \in 1 .. Len(s) - 1 : Front(s)[i] = s[i]
      /\ Last(s) = s[Len(s)] /\ Last(s) \in S
  BY DEF Front, Last
<1>2. ToSet(s) = ToSet(Front(s)) \cup {Last(s)}
  BY <1>1 DEF ToSet
<1>3. IsInjective(s) => IsInjective(Front(s)) /\ Last(s) \notin ToSet(Front(s))
  BY <1>1 DEF ToSet, IsInjective
<1> QED
  BY <1>1, <1>2, <1>3

----------------------------------------------------------------------------
(* The invariant                                                           *)

\* The process starts with an empty list and an idle thread.
LEMMA HandlerInvInit == Init => HandlerInv
<1> SUFFICES ASSUME Init PROVE HandlerInv
  OBVIOUS
<1> USE ThreadsAssumption DEF Init, ExitInit
<1>1. ToSet(<<>>) = {} /\ IsInjective(<<>>)
  BY DEF ToSet, IsInjective
<1>2. HandlerTypes
  <2>1. <<>> \in Seq(Handlers)
    OBVIOUS
  <2> QED
    BY <2>1 DEF HandlerTypes, Labels
<1>4. ListExclusion /\ ListClosed
  BY DEF ListExclusion, ListClosed, Holding
<1>3. HandlersKept /\ HandlersApart
  BY <1>1 DEF HandlersKept, HandlersApart, Known
<1> QED
  BY <1>2, <1>3, <1>4 DEF HandlerInv

\* A step that leaves the handlers alone and moves threads between labels outside
\* the critical section, or ends threads, as fork does in the child.
LEMMA OtherSteps ==
  ASSUME HandlerInv, UNCHANGED exitvars, pc' \in [Threads -> Labels],
         \A u \in Threads : \/ pc'[u] = pc[u]
                            \/ pc'[u] = "none"
                            \/ pc'[u] \notin Holding /\ pc[u] \notin {"_Exit", "none"}
  PROVE  HandlerInv'
<1> USE DEF exitvars
<1>1. HandlerTypes'
  BY DEF HandlerInv, HandlerTypes
<1>2. ListExclusion'
  BY DEF HandlerInv, ListExclusion, Holding
<1>3. HandlersKept'
  BY DEF HandlerInv, HandlersKept, Known, Holding
<1>4. ListClosed'
  BY DEF HandlerInv, ListClosed
<1>5. HandlersApart'
  BY DEF HandlerInv, HandlersApart
<1> QED
  BY <1>1, <1>2, <1>3, <1>4, <1>5 DEF HandlerInv

\* fork, pthread_atfork and their loops.
LEMMA ForkKeepsHandlers ==
  ASSUME HandlerInv, NEW t \in Threads,
         ForkStep(t) \/ ForkCall(t) \/ \E x \in Triples : Register(t, x)
  PROVE  HandlerInv'
<1>0. pc \in [Threads -> Labels]
  BY DEF HandlerInv, HandlerTypes
<1>1. UNCHANGED exitvars
  BY DEF ForkStep, RegisterReturns, Prepare, FixTid, AfterLock, After, SysForkInParent,
         SysForkInChild, SysForkFails, ForkCall, Register
<1>2. CASE SysForkInChild(t)
  <2>1. pc' \in [Threads -> Labels] /\ \A u \in Threads \ {t} : pc'[u] = "none"
    BY <1>2 DEF SysForkInChild, Labels
  <2>2. pc[t] = "sys_fork" /\ pc'[t] = "fix_tid"
    BY <1>2 DEF SysForkInChild, At
  <2> QED
    BY <1>1, <2>1, <2>2, OtherSteps DEF Holding
<1>3. CASE UNCHANGED pc
  BY <1>0, <1>1, <1>3, OtherSteps
<1>4. ASSUME NEW to \in Labels \ Holding, pc' = [pc EXCEPT ![t] = to],
             pc[t] \notin {"_Exit", "none"}
      PROVE  HandlerInv'
  <2>2. pc' \in [Threads -> Labels] /\ pc'[t] = to /\ \A u \in Threads \ {t} : pc'[u] = pc[u]
    BY <1>0, <1>4
  <2> QED
    BY <1>1, <1>4, <2>2, OtherSteps
<1>5. CASE RegisterReturns(t) \/ SysForkFails(t)
  BY <1>4, <1>5 DEF RegisterReturns, SysForkFails, At, Goto, Labels, Holding
<1>6. CASE Prepare(t)
  BY <1>3, <1>4, <1>6 DEF Prepare, At, Goto, Labels, Holding
<1>7. CASE FixTid(t) \/ SysForkInParent(t)
  BY <1>4, <1>7 DEF FixTid, SysForkInParent, At, Goto, Labels, Holding
<1>8. CASE AfterLock(t)
  BY <1>4, <1>8 DEF AfterLock, At, Goto, Labels, Holding
<1>9. CASE After(t)
  BY <1>3, <1>4, <1>9 DEF After, At, Goto, Labels, Holding
<1>10. CASE ForkCall(t)
  BY <1>4, <1>10 DEF ForkCall, At, Goto, Labels, Holding
<1>11. CASE \E x \in Triples : Register(t, x)
  BY <1>4, <1>11 DEF Register, At, Goto, Labels, Holding
<1> QED
  BY <1>2, <1>5, <1>6, <1>7, <1>8, <1>9, <1>10, <1>11 DEF ForkStep

\* atexit: the push puts the handler in a list that is not destroyed, since the
\* mutex is free.
LEMMA PushKeepsHandlers ==
  ASSUME HandlerInv, NEW t \in Threads, NEW h \in Handlers, AddPush(t, h)
  PROVE  HandlerInv'
<1> USE ThreadsAssumption DEF HandlerInv
<1>1. ~destroyed /\ exit_callbacks' = Append(exit_callbacks, h)
  BY DEF ListClosed, AddPush
<1>2. /\ exit_callbacks' \in Seq(Handlers)
      /\ ToSet(exit_callbacks)' = ToSet(exit_callbacks) \cup {h}
      /\ h \notin ToSet(exit_callbacks) \cup ToSet(ran)
      /\ IsInjective(exit_callbacks)'
      /\ ran' = ran
  BY <1>1, PushElements DEF HandlerTypes, HandlersApart, AddPush, Fresh
<1>3. /\ pc' = [pc EXCEPT ![t] = "add_unlock"]
      /\ pc[t] \in {"idle", "in_handler"}
      /\ home' = [home EXCEPT ![t] = pc[t]]
      /\ unit' = [unit EXCEPT ![t] = h]
      /\ handler_list_mtx = NoThread /\ handler_list_mtx' = t
      /\ registered' = registered /\ destroyed' = destroyed
  BY DEF AddPush, Goto, At
<1>4. HandlerTypes'
  BY <1>2, <1>3 DEF HandlerTypes, Labels, Holding
<1>5. ListExclusion'
  BY <1>3 DEF HandlerTypes, ListExclusion
<1>6. HandlersKept'
  <2>1. Known' = Known \cup {h}
    BY <1>2 DEF Known
  <2> QED
    BY <1>3, <2>1 DEF HandlerTypes, HandlersKept
<1>7. ListClosed'
  BY <1>1, <1>3 DEF ListClosed
<1>8. HandlersApart'
  BY <1>2 DEF HandlersApart
<1> QED
  BY <1>4, <1>5, <1>6, <1>7, <1>8

\* atexit returns: the handler it registers was pushed in the same critical section.
LEMMA ReturnKeepsHandlers ==
  ASSUME HandlerInv, NEW t \in Threads, AddReturns(t)
  PROVE  HandlerInv'
<1> USE ThreadsAssumption DEF HandlerInv
<1>1. /\ pc[t] = "add_unlock" /\ pc' = [pc EXCEPT ![t] = home[t]]
      /\ home[t] \in {"idle", "in_handler"}
      /\ home' = [home EXCEPT ![t] = "idle"]
      /\ unit' = [unit EXCEPT ![t] = NoHandler]
      /\ handler_list_mtx' = NoThread
      /\ registered' = registered \cup {unit[t]}
      /\ UNCHANGED <<exit_callbacks, destroyed, ran>>
  BY DEF AddReturns, Goto, At, HandlerTypes
<1>2. handler_list_mtx = t /\ ~destroyed
  BY <1>1 DEF ListExclusion, ListClosed, Holding
<1>3. HandlerTypes'
  BY <1>1 DEF HandlerTypes, Labels, Holding
<1>4. ListExclusion'
  BY <1>1, <1>2 DEF HandlerTypes, ListExclusion, Holding
<1>5. HandlersKept'
  BY <1>1 DEF HandlerTypes, HandlersKept, Known
<1>6. ListClosed' /\ HandlersApart'
  BY <1>1, <1>2 DEF ListClosed, HandlersApart
<1> QED
  BY <1>3, <1>4, <1>5, <1>6

\* exit: back() goes from the list to the handlers that have run.
LEMMA PopKeepsHandlers ==
  ASSUME HandlerInv, NEW t \in Threads, Pop(t)
  PROVE  HandlerInv'
<1> USE ThreadsAssumption DEF HandlerInv
<1>1. /\ pc[t] = "pop" /\ pc' = [pc EXCEPT ![t] = "in_handler"]
      /\ exit_callbacks # <<>> /\ exit_callbacks' = Front(exit_callbacks)
      /\ ran' = Append(ran, Last(exit_callbacks))
      /\ handler_list_mtx' = NoThread
      /\ UNCHANGED <<destroyed, home, unit, registered>>
  BY DEF Pop, Goto, At
<1>2. handler_list_mtx = t /\ ~destroyed
  BY <1>1 DEF ListExclusion, ListClosed, Holding
<1>3. /\ Front(exit_callbacks) \in Seq(Handlers) /\ Last(exit_callbacks) \in Handlers
      /\ ToSet(exit_callbacks) = ToSet(exit_callbacks') \cup {Last(exit_callbacks)}
      /\ IsInjective(exit_callbacks') /\ Last(exit_callbacks) \notin ToSet(exit_callbacks')
  BY <1>1, PopElements DEF HandlerTypes, HandlersApart
<1>4. /\ ran' \in Seq(Handlers) /\ ToSet(ran') = ToSet(ran) \cup {Last(exit_callbacks)}
      /\ IsInjective(ran')
  BY <1>1, <1>3, PushElements DEF HandlerTypes, HandlersApart
<1>5. HandlerTypes'
  BY <1>1, <1>3, <1>4 DEF HandlerTypes, Labels
<1>6. ListExclusion'
  BY <1>1, <1>2 DEF HandlerTypes, ListExclusion, Holding
<1>7. HandlersKept'
  <2>1. Known' = Known
    BY <1>3, <1>4 DEF Known
  <2> QED
    BY <1>1, <2>1 DEF HandlerTypes, HandlersKept
<1>8. ListClosed'
  BY <1>1, <1>2 DEF ListClosed
<1>9. HandlersApart'
  BY <1>3, <1>4 DEF HandlersApart
<1> QED
  BY <1>5, <1>6, <1>7, <1>8, <1>9

\* exit: the lock, the destruction of an empty list, and the steps between handlers.
LEMMA ExitKeepsHandlers ==
  ASSUME HandlerInv, NEW t \in Threads,
         ExitCall(t) \/ ListLock(t) \/ HandlerReturns(t) \/ Destroy(t) \/ _Exit(t)
  PROVE  HandlerInv'
<1> USE ThreadsAssumption DEF HandlerInv
<1>1. CASE ExitCall(t) \/ HandlerReturns(t) \/ _Exit(t)
  <2>1. /\ UNCHANGED <<exit_callbacks, destroyed, handler_list_mtx, home, unit, registered, ran>>
        /\ UNCHANGED pc \/ (pc[t] \in {"idle", "in_handler"} /\ pc' = [pc EXCEPT ![t] = "lock"])
    BY <1>1 DEF ExitCall, HandlerReturns, _Exit, At, Goto, exitvars
  <2>2. HandlerTypes'
    BY <2>1 DEF HandlerTypes, Labels
  <2>3. ListExclusion'
    BY <2>1 DEF HandlerTypes, ListExclusion, Holding
  <2>4. HandlersKept'
    BY <2>1 DEF HandlerTypes, HandlersKept, Known
  <2>5. ListClosed' /\ HandlersApart'
    BY <2>1 DEF HandlerTypes, ListClosed, HandlersApart
  <2> QED
    BY <2>2, <2>3, <2>4, <2>5
<1>2. CASE ListLock(t)
  <2>1. /\ UNCHANGED <<exit_callbacks, destroyed, home, unit, registered, ran>>
        /\ handler_list_mtx = NoThread /\ handler_list_mtx' = t
        /\ pc' = [pc EXCEPT ![t] = "pop"]
    BY <1>2 DEF ListLock, At, Goto
  <2>2. HandlerTypes'
    BY <2>1 DEF HandlerTypes, Labels, Holding
  <2>3. ListExclusion'
    BY <2>1 DEF HandlerTypes, ListExclusion
  <2>4. HandlersKept'
    BY <2>1 DEF HandlerTypes, HandlersKept, Known
  <2>5. ListClosed' /\ HandlersApart'
    BY <2>1 DEF ListClosed, HandlersApart
  <2> QED
    BY <2>2, <2>3, <2>4, <2>5
<1>3. CASE Destroy(t)
  <2>1. /\ UNCHANGED <<exit_callbacks, handler_list_mtx, home, unit, registered, ran>>
        /\ exit_callbacks = <<>> /\ pc[t] = "pop" /\ pc' = [pc EXCEPT ![t] = "_Exit"]
    BY <1>3 DEF Destroy, At, Goto
  <2>2. handler_list_mtx = t
    BY <2>1 DEF ListExclusion, Holding
  <2>3. HandlerTypes'
    BY <2>1 DEF HandlerTypes, Labels, Holding
  <2>4. ListExclusion'
    BY <2>1, <2>2 DEF HandlerTypes, ListExclusion, Holding
  <2>5. HandlersKept'
    BY <2>1 DEF HandlerTypes, HandlersKept, Known
  <2>6. ListClosed' /\ HandlersApart'
    BY <2>1, <2>2 DEF HandlerTypes, ListClosed, HandlersApart
  <2> QED
    BY <2>3, <2>4, <2>5, <2>6
<1> QED
  BY <1>1, <1>2, <1>3

\* The inductive invariant of the exit handlers, in a process that forks, fails to
\* fork or registers fork callbacks meanwhile.
THEOREM HandlersAreSafe == Spec => []HandlerInv
<1>1. ASSUME HandlerInv, [Next]_vars PROVE HandlerInv'
  <2>1. CASE UNCHANGED vars
    <3>1. pc' \in [Threads -> Labels] /\ UNCHANGED exitvars /\ pc' = pc
      BY <1>1, <2>1 DEF vars, HandlerInv, HandlerTypes
    <3> QED
      BY <1>1, <3>1, OtherSteps
  <2>2. CASE Next
    <3> PICK t \in Threads :
          \/ ForkStep(t) \/ ForkCall(t)
          \/ \E x \in Triples : Register(t, x)
          \/ ExitNext(t) /\ UNCHANGED forkvars
      BY <2>2 DEF Next
    <3>1. CASE ForkStep(t) \/ ForkCall(t) \/ \E x \in Triples : Register(t, x)
      BY <1>1, <3>1, ForkKeepsHandlers
    <3>2. CASE ExitNext(t)
      BY <1>1, <3>2, PushKeepsHandlers, ReturnKeepsHandlers, PopKeepsHandlers, ExitKeepsHandlers
         DEF ExitNext, ExitStep
    <3> QED
      BY <3>1, <3>2
  <2> QED
    BY <1>1, <2>1, <2>2
<1> QED
  BY <1>1, HandlerInvInit, PTL DEF Spec

\* For every set of threads, handlers and fork callbacks: a handler whose atexit()
\* returned is run before the process ends (atexit.cpp:55-67), in a parent and in a
\* child of fork() alike.
THEOREM ExitLosesNoHandler == Spec => []NoHandlerLost
<1>1. HandlerInv => NoHandlerLost
  <2> SUFFICES ASSUME HandlerInv, destroyed PROVE registered \subseteq ToSet(ran)
    BY DEF NoHandlerLost
  <2>1. ToSet(exit_callbacks) = {}
    BY DEF HandlerInv, ListClosed, ToSet
  <2> QED
    BY <2>1 DEF HandlerInv, HandlersKept, Known
<1> QED
  BY <1>1, HandlersAreSafe, PTL

\* For every set of threads and handlers, no handler is entered twice in a process,
\* although the list is unlocked while one runs (atexit.cpp:61).
THEOREM ExitRepeatsNoHandler == Spec => []IsInjective(ran)
<1>1. HandlerInv => IsInjective(ran)
  BY DEF HandlerInv, HandlersApart
<1> QED
  BY <1>1, HandlersAreSafe, PTL

----------------------------------------------------------------------------
(* The order of the handlers                                               *)

\* What was in the list when exit() was called is there still or has run; what is
\* there still is in the old order, and what has run has run backwards.
OrderInv ==
  /\ before_exit \in Seq(Handlers) /\ ToSet(before_exit) \subseteq Known
  /\ \A i, j \in DOMAIN before_exit, a, b \in DOMAIN exit_callbacks :
       /\ i < j
       /\ exit_callbacks[a] = before_exit[i] /\ exit_callbacks[b] = before_exit[j]
       => a < b
  /\ \A i, j \in DOMAIN before_exit, k \in DOMAIN ran :
       i < j /\ ran[k] = before_exit[i] => \E l \in 1 .. k - 1 : ran[l] = before_exit[j]

\* The steps that touch neither the list nor the histories.
LEMMA OrderUntouched ==
  ASSUME OrderInv, UNCHANGED <<exit_callbacks, before_exit, ran>>
  PROVE  OrderInv'
  BY DEF OrderInv, Known

\* A new handler is not one of those that exit() found, and goes behind them.
LEMMA PushKeepsOrder ==
  ASSUME HandlerInv, OrderInv, NEW t \in Threads, NEW h \in Handlers, AddPush(t, h)
  PROVE  OrderInv'
<1>1. ~destroyed /\ exit_callbacks' = Append(exit_callbacks, h)
  BY ThreadsAssumption DEF HandlerInv, ListClosed, AddPush
<1>2. exit_callbacks \in Seq(Handlers) /\ h \notin Known /\ UNCHANGED <<before_exit, ran>>
  BY DEF HandlerInv, HandlerTypes, AddPush, Fresh, Known
<1>3. ToSet(exit_callbacks') = ToSet(exit_callbacks) \cup {h}
  BY <1>1, <1>2, PushElements
<1>4. ToSet(before_exit)' \subseteq Known'
  BY <1>2, <1>3 DEF OrderInv, Known
<1>5. ASSUME NEW i \in DOMAIN before_exit, NEW j \in DOMAIN before_exit,
             NEW a \in DOMAIN exit_callbacks', NEW b \in DOMAIN exit_callbacks',
             i < j, exit_callbacks'[a] = before_exit[i], exit_callbacks'[b] = before_exit[j]
      PROVE  a < b
  <2>1. before_exit[i] # h /\ before_exit[j] # h
    BY <1>2 DEF OrderInv, ToSet
  <2>2. /\ DOMAIN exit_callbacks' = 1 .. Len(exit_callbacks) + 1
        /\ DOMAIN exit_callbacks = 1 .. Len(exit_callbacks) /\ Len(exit_callbacks) \in Nat
        /\ exit_callbacks'[Len(exit_callbacks) + 1] = h
        /\ \A n \in 1 .. Len(exit_callbacks) : exit_callbacks'[n] = exit_callbacks[n]
    BY <1>1, <1>2
  <2>3. a \in DOMAIN exit_callbacks /\ b \in DOMAIN exit_callbacks
    BY <1>5, <2>1, <2>2
  <2> QED
    BY <1>5, <2>2, <2>3 DEF OrderInv
<1> QED
  BY <1>2, <1>4, <1>5 DEF OrderInv

\* exit() finds the list in its order, and nothing of it has run.
LEMMA CallKeepsOrder ==
  ASSUME HandlerInv, OrderInv, NEW t \in Threads, ExitCall(t)
  PROVE  OrderInv'
<1>1. before_exit' = exit_callbacks /\ UNCHANGED <<exit_callbacks, ran>>
  BY DEF ExitCall
<1>2. exit_callbacks \in Seq(Handlers) /\ IsInjective(exit_callbacks)
  BY DEF HandlerInv, HandlerTypes, HandlersApart
<1>3. \A i \in DOMAIN exit_callbacks, k \in DOMAIN ran : ran[k] # exit_callbacks[i]
  BY DEF HandlerInv, HandlersApart, ToSet
<1>4. \A i, a \in DOMAIN exit_callbacks : exit_callbacks[a] = exit_callbacks[i] => a = i
  BY <1>2 DEF IsInjective
<1>5. ToSet(before_exit)' \subseteq Known'
  BY <1>1 DEF Known
<1> QED
  BY <1>1, <1>2, <1>3, <1>4, <1>5 DEF OrderInv

\* The handler at the back is entered: those registered after it have left the list,
\* so they have been entered before.
LEMMA PopKeepsOrder ==
  ASSUME HandlerInv, OrderInv, NEW t \in Threads, Pop(t)
  PROVE  OrderInv'
<1> DEFINE n == Len(exit_callbacks)
<1>1. /\ exit_callbacks # <<>> /\ exit_callbacks' = Front(exit_callbacks)
      /\ ran' = Append(ran, exit_callbacks[n]) /\ before_exit' = before_exit
  BY DEF Pop, Last
<1>2. /\ exit_callbacks \in Seq(Handlers) /\ ran \in Seq(Handlers)
      /\ Last(exit_callbacks) = exit_callbacks[n] /\ exit_callbacks[n] \in Handlers
  BY <1>1, PopElements DEF HandlerInv, HandlerTypes, Last
<1>3. /\ n \in Nat \ {0} /\ DOMAIN exit_callbacks = 1 .. n
      /\ DOMAIN exit_callbacks' = 1 .. n - 1
      /\ \A a \in 1 .. n - 1 : exit_callbacks'[a] = exit_callbacks[a]
  BY <1>1, <1>2 DEF Front
<1>4. /\ Len(ran) \in Nat /\ DOMAIN ran = 1 .. Len(ran) /\ DOMAIN ran' = 1 .. Len(ran) + 1
      /\ \A k \in 1 .. Len(ran) : ran'[k] = ran[k]
      /\ ran'[Len(ran) + 1] = exit_callbacks[n]
  BY <1>1, <1>2
<1>5. ToSet(before_exit)' \subseteq Known'
  <2>1. /\ ToSet(exit_callbacks) = ToSet(exit_callbacks') \cup {exit_callbacks[n]}
        /\ ToSet(ran') = ToSet(ran) \cup {exit_callbacks[n]}
    BY <1>1, <1>2, PopElements, PushElements
  <2> QED
    BY <1>1, <2>1 DEF OrderInv, Known
<1>6. ASSUME NEW i \in DOMAIN before_exit, NEW j \in DOMAIN before_exit,
             NEW k \in DOMAIN ran', i < j, ran'[k] = before_exit[i]
      PROVE  \E l \in 1 .. k - 1 : ran'[l] = before_exit[j]
  <2>1. CASE k \in DOMAIN ran
    <3>1. PICK l \in 1 .. k - 1 : ran[l] = before_exit[j]
      BY <1>4, <1>6, <2>1 DEF OrderInv
    <3> QED
      BY <1>4, <2>1, <3>1
  <2>2. CASE k = Len(ran) + 1
    <3>1. before_exit[j] \in ToSet(exit_callbacks) \cup ToSet(ran)
      BY DEF OrderInv, Known, ToSet
    <3>2. before_exit[j] \notin ToSet(exit_callbacks)
      <4> SUFFICES ASSUME NEW b \in 1 .. n, exit_callbacks[b] = before_exit[j] PROVE FALSE
        BY <1>3 DEF ToSet
      <4>1. n < b
        BY <1>3, <1>4, <1>6, <2>2 DEF OrderInv
      <4> QED
        BY <1>3, <4>1
    <3>3. PICK l \in DOMAIN ran : ran[l] = before_exit[j]
      BY <3>1, <3>2 DEF ToSet
    <3> QED
      BY <1>4, <2>2, <3>3
  <2> QED
    BY <1>4, <2>1, <2>2
<1>7. ASSUME NEW i \in DOMAIN before_exit, NEW j \in DOMAIN before_exit,
             NEW a \in DOMAIN exit_callbacks', NEW b \in DOMAIN exit_callbacks',
             i < j, exit_callbacks'[a] = before_exit[i], exit_callbacks'[b] = before_exit[j]
      PROVE  a < b
  BY <1>3, <1>7 DEF OrderInv
<1> QED
  BY <1>1, <1>5, <1>6, <1>7 DEF OrderInv

\* For every set of threads and handlers: the handlers that exit() finds run once
\* each and in the reverse of their registration, whatever other threads and the
\* handlers themselves register meanwhile (atexit.cpp:55-67).
THEOREM ExitRunsBackwards == Spec => []HandlersInOrder
<1>1. Init => OrderInv
  BY DEF Init, ExitInit, OrderInv, ToSet
<1>2. ASSUME HandlerInv, OrderInv, [Next]_vars PROVE OrderInv'
  <2>1. CASE UNCHANGED vars
    BY <1>2, <2>1, OrderUntouched DEF vars, exitvars
  <2>2. CASE Next
    <3> PICK t \in Threads :
          \/ ForkStep(t) \/ ForkCall(t)
          \/ \E x \in Triples : Register(t, x)
          \/ ExitNext(t) /\ UNCHANGED forkvars
      BY <2>2 DEF Next
    <3>1. CASE ForkStep(t) \/ ForkCall(t) \/ \E x \in Triples : Register(t, x)
      <4>1. UNCHANGED exitvars
        BY <3>1 DEF ForkStep, RegisterReturns, Prepare, FixTid, AfterLock, After,
                    SysForkInParent, SysForkInChild, SysForkFails, ForkCall, Register
      <4> QED
        BY <1>2, <4>1, OrderUntouched DEF exitvars
    <3>2. CASE AddReturns(t) \/ ListLock(t) \/ HandlerReturns(t) \/ Destroy(t) \/ _Exit(t)
      BY <1>2, <3>2, OrderUntouched
         DEF AddReturns, ListLock, HandlerReturns, Destroy, _Exit, exitvars
    <3> QED
      BY <1>2, <3>1, <3>2, PushKeepsOrder, CallKeepsOrder, PopKeepsOrder DEF ExitNext, ExitStep
  <2> QED
    BY <1>2, <2>1, <2>2
<1>3. HandlerInv /\ OrderInv => HandlersInOrder
  BY DEF HandlerInv, HandlersApart, OrderInv, HandlersInOrder
<1> QED
  BY <1>1, <1>2, <1>3, HandlersAreSafe, PTL DEF Spec

----------------------------------------------------------------------------
(* The callbacks of fork()                                                 *)

\* A thread inside fork(), and one inside a critical section of the manager.
Forking == {"prepare", "sys_fork", "fix_tid", "after_lock", "after"}
Managing == {"register_unlock", "prepare", "after"}

ForkTypes ==
  /\ list \in Seq(Triples) /\ IsInjective(list) /\ index \in Nat
  /\ prepared \in Seq(Triples) /\ followed \in Seq(Triples)
  /\ process \in {"parent", "child"}

ManagerExclusion == \A t \in Threads : pc[t] \in Managing => mtx = t

OneFork ==
  /\ \A t \in Threads : pc[t] \in Forking => fork = "called"
  /\ \A t, u \in Threads : pc[t] \in Forking /\ pc[u] \in Forking => t = u

\* prepared holds the triples of the first k that are not null, in their order.
PreparedUpTo(k) ==
  /\ \A a \in DOMAIN prepared :
       prepared[a] \notin Silent /\ \E n \in 1 .. k : list[n] = prepared[a]
  /\ \A n \in 1 .. k : list[n] \notin Silent => \E a \in DOMAIN prepared : prepared[a] = list[n]
  /\ \A a, b \in DOMAIN prepared, m, n \in DOMAIN list :
       a < b /\ list[m] = prepared[a] /\ list[n] = prepared[b] => m < n

\* The loop after the fork has reached index: it has called what is before it, and
\* as far as it has come this is what was prepared.
FollowedUpTo ==
  /\ \A a \in DOMAIN followed : \E n \in 1 .. index - 1 : list[n] = followed[a]
  /\ \A a \in DOMAIN prepared \cap DOMAIN followed : followed[a] = prepared[a]
  /\ \A a \in DOMAIN prepared, n \in DOMAIN list :
       list[n] = prepared[a] => (a <= Len(followed) <=> n < index)

ForkLoops ==
  /\ fork = "uncalled" => prepared = <<>> /\ followed = <<>>
  /\ \A t \in Threads :
       /\ pc[t] \in {"prepare", "after"} => index \in 1 .. Len(list) + 1
       /\ pc[t] = "prepare" => PreparedUpTo(index - 1)
       /\ pc[t] \in Forking => \E k \in 0 .. Len(list) : PreparedUpTo(k)
       /\ pc[t] \in Forking \ {"after"} => followed = <<>>
       /\ pc[t] = "after" => FollowedUpTo

ForkInv == ForkTypes /\ ManagerExclusion /\ OneFork /\ ForkLoops /\ ForkPairs

\* Nothing has been called at the start.
LEMMA ForkInvInit == Init => ForkInv
<1> SUFFICES ASSUME Init PROVE ForkInv
  OBVIOUS
<1>1. /\ list = <<>> /\ prepared = <<>> /\ followed = <<>> /\ index = 0
      /\ process = "parent" /\ tid = "parent" /\ fork = "uncalled"
      /\ \A t \in Threads : pc[t] = "idle"
  BY DEF Init, ExitInit
<1>2. ForkTypes
  BY <1>1 DEF ForkTypes, IsInjective
<1>3. ManagerExclusion /\ OneFork
  BY <1>1 DEF ManagerExclusion, OneFork, Managing, Forking
<1>4. ForkLoops
  BY <1>1 DEF ForkLoops, Forking
<1>5. ForkPairs
  BY <1>1 DEF ForkPairs, IsInjective
<1> QED
  BY <1>2, <1>3, <1>4, <1>5 DEF ForkInv

\* Steps that leave the variables of fork() alone and no thread enters or leaves
\* fork() or a critical section of the manager: those of atexit() and exit().
LEMMA ForkUntouched ==
  ASSUME ForkInv, UNCHANGED forkvars,
         \A u \in Threads :
           \/ pc'[u] = pc[u]
           \/ /\ pc[u] \notin Forking \cup Managing \cup {"none"}
              /\ pc'[u] \notin Forking \cup Managing \cup {"none"}
  PROVE  ForkInv'
<1> USE DEF forkvars, Forking, Managing
<1>1. ForkTypes'
  BY DEF ForkInv, ForkTypes
<1>2. ManagerExclusion'
  BY DEF ForkInv, ManagerExclusion
<1>3. OneFork'
  BY DEF ForkInv, OneFork
<1>4. ForkLoops'
  <2>1. FollowedUpTo' = FollowedUpTo /\ \A k : PreparedUpTo(k)' = PreparedUpTo(k)
    BY DEF FollowedUpTo, PreparedUpTo
  <2>2. \A u \in Threads : pc'[u] \in Forking => pc'[u] = pc[u]
    OBVIOUS
  <2> QED
    BY <2>1, <2>2 DEF ForkInv, ForkLoops
<1>5. ForkPairs'
  BY DEF ForkInv, ForkPairs
<1> QED
  BY <1>1, <1>2, <1>3, <1>4, <1>5 DEF ForkInv

\* atexit() and exit() are such steps.
LEMMA ExitKeepsFork ==
  ASSUME HandlerInv, ForkInv, NEW t \in Threads, ExitNext(t), UNCHANGED forkvars
  PROVE  ForkInv'
<1>1. pc \in [Threads -> Labels] /\ home \in [Threads -> {"idle", "in_handler"}]
  BY DEF HandlerInv, HandlerTypes
<1>2. ASSUME NEW to, pc' = [pc EXCEPT ![t] = to],
             pc[t] \notin Forking \cup Managing \cup {"none"},
             to \notin Forking \cup Managing \cup {"none"}
      PROVE  ForkInv'
  <2>1. pc'[t] = to /\ \A u \in Threads \ {t} : pc'[u] = pc[u]
    BY <1>1, <1>2
  <2> QED
    BY <1>2, <2>1, ForkUntouched
<1>3. CASE _Exit(t)
  BY <1>3, ForkUntouched DEF _Exit
<1>4. CASE AddReturns(t)
  BY <1>1, <1>2, <1>4 DEF AddReturns, At, Goto, Forking, Managing
<1>5. CASE \/ \E h \in Handlers : AddPush(t, h)
           \/ ExitCall(t) \/ ListLock(t) \/ Pop(t) \/ HandlerReturns(t) \/ Destroy(t)
  BY <1>2, <1>5 DEF AddPush, ExitCall, ListLock, Pop, HandlerReturns, Destroy, At, Goto,
                    Forking, Managing
<1> QED
  BY <1>3, <1>4, <1>5 DEF ExitNext, ExitStep

\* A triple registered behind the first k does not change what they are.
LEMMA RegisterKeepsPrepared ==
  ASSUME ForkTypes, NEW x \in Triples, x \notin ToSet(list), list' = Append(list, x),
         prepared' = prepared, NEW k \in 0 .. Len(list), PreparedUpTo(k)
  PROVE  PreparedUpTo(k)'
<1>1. /\ list \in Seq(Triples) /\ Len(list) \in Nat /\ IsInjective(list')
      /\ DOMAIN list = 1 .. Len(list) /\ DOMAIN list' = 1 .. Len(list) + 1
      /\ \A n \in 1 .. Len(list) : list'[n] = list[n]
  BY PushElements DEF ForkTypes
<1>2. \A a \in DOMAIN prepared :
        prepared[a] \notin Silent /\ \E n \in 1 .. k : list'[n] = prepared[a]
  BY <1>1 DEF PreparedUpTo
<1>3. \A n \in 1 .. k : list'[n] \notin Silent =>
        \E a \in DOMAIN prepared : prepared[a] = list'[n]
  BY <1>1 DEF PreparedUpTo
<1>4. ASSUME NEW a \in DOMAIN prepared, NEW b \in DOMAIN prepared,
             NEW m \in DOMAIN list', NEW n \in DOMAIN list',
             a < b, list'[m] = prepared[a], list'[n] = prepared[b]
      PROVE  m < n
  <2>1. PICK m1 \in 1 .. k, n1 \in 1 .. k : list'[m1] = prepared[a] /\ list'[n1] = prepared[b]
    BY <1>2
  <2>2. m1 = m /\ n1 = n
    BY <1>1, <1>4, <2>1, SMTT(40) DEF IsInjective
  <2> QED
    BY <1>1, <1>4, <2>2 DEF PreparedUpTo
<1> QED
  BY <1>2, <1>3, <1>4 DEF PreparedUpTo

\* pthread_atfork(): nobody is in a loop, since the mutex is free.
LEMMA RegisterKeepsFork ==
  ASSUME HandlerInv, ForkInv, NEW t \in Threads, NEW x \in Triples, Register(t, x)
  PROVE  ForkInv'
<1> USE DEF ForkInv
<1>1. /\ pc[t] = "idle" /\ pc' = [pc EXCEPT ![t] = "register_unlock"]
      /\ mtx = NoThread /\ mtx' = t
      /\ UNCHANGED <<index, process, tid, fork, prepared, followed>>
      /\ list' = list \/ (x \notin ToSet(list) /\ list' = Append(list, x))
  BY DEF Register, At, Goto
<1>2. /\ pc'[t] = "register_unlock" /\ \A u \in Threads \ {t} : pc'[u] = pc[u]
  BY <1>1 DEF HandlerInv, HandlerTypes
<1>3. \A u \in Threads : pc[u] \notin Managing
  BY <1>1, ThreadsAssumption DEF ManagerExclusion
<1>4. ForkTypes'
  <2>1. list' \in Seq(Triples) /\ IsInjective(list')
    <3>1. CASE list' = list
      BY <3>1 DEF ForkTypes
    <3>2. CASE x \notin ToSet(list) /\ list' = Append(list, x)
      BY <3>2, PushElements DEF ForkTypes
    <3> QED
      BY <1>1, <3>1, <3>2
  <2> QED
    BY <1>1, <2>1 DEF ForkTypes
<1>5. ManagerExclusion'
  BY <1>1, <1>2, <1>3 DEF ManagerExclusion
<1>6. OneFork'
  BY <1>1, <1>2 DEF OneFork, Forking
<1>7. ForkPairs'
  BY <1>1, <1>2 DEF ForkPairs
<1>8. ASSUME NEW k \in 0 .. Len(list), PreparedUpTo(k)
      PROVE  k \in 0 .. Len(list') /\ PreparedUpTo(k)'
  <2>1. CASE list' = list
    BY <1>1, <1>8, <2>1 DEF PreparedUpTo
  <2>2. CASE x \notin ToSet(list) /\ list' = Append(list, x)
    <3>1. Len(list') = Len(list) + 1 /\ Len(list) \in Nat
      BY <2>2 DEF ForkTypes
    <3> QED
      BY <1>1, <1>8, <2>2, <3>1, RegisterKeepsPrepared
  <2> QED
    BY <1>1, <2>1, <2>2
<1>9. \A u \in Threads : pc'[u] \in Forking => pc'[u] = pc[u] /\ pc[u] \notin {"prepare", "after"}
  BY <1>2, <1>3 DEF Forking, Managing
<1>10. ForkLoops'
  BY <1>1, <1>8, <1>9 DEF ForkLoops, Forking
<1> QED
  BY <1>4, <1>5, <1>6, <1>7, <1>10

\* One round of the loop before the fork.
LEMMA PrepareKeepsPrepared ==
  ASSUME ForkTypes, index \in 1 .. Len(list), PreparedUpTo(index - 1),
         prepared' = Called(prepared, list[index]), list' = list, index' = index + 1
  PROVE  prepared' \in Seq(Triples) /\ PreparedUpTo(index - 1)'
<1>0. /\ list \in Seq(Triples) /\ IsInjective(list) /\ prepared \in Seq(Triples)
      /\ DOMAIN list = 1 .. Len(list) /\ Len(list) \in Nat /\ index' - 1 = index
      /\ list[index] \in Triples
  BY DEF ForkTypes
<1>1. CASE list[index] \in Silent
  <2>1. prepared' = prepared
    BY <1>1 DEF Called
  <2> QED
    BY <1>0, <1>1, <2>1, SMTT(40) DEF PreparedUpTo
<1>2. CASE list[index] \notin Silent
  <2>1. prepared' = Append(prepared, list[index])
    BY <1>2 DEF Called
  <2>2. /\ prepared' \in Seq(Triples) /\ Len(prepared) \in Nat
        /\ DOMAIN prepared = 1 .. Len(prepared)
        /\ DOMAIN prepared' = 1 .. Len(prepared) + 1
        /\ \A a \in 1 .. Len(prepared) : prepared'[a] = prepared[a]
        /\ prepared'[Len(prepared) + 1] = list[index]
    BY <1>0, <2>1
  <2>3. ASSUME NEW a \in DOMAIN prepared'
        PROVE  prepared'[a] \notin Silent /\ \E n \in 1 .. index : list[n] = prepared'[a]
    <3>1. CASE a = Len(prepared) + 1
      BY <1>0, <1>2, <2>2, <3>1
    <3>2. CASE a \in DOMAIN prepared
      <4>1. prepared[a] \notin Silent /\ \E n \in 1 .. index - 1 : list[n] = prepared[a]
        BY <3>2 DEF PreparedUpTo
      <4>2. prepared'[a] = prepared[a] /\ 1 .. index - 1 \subseteq 1 .. index
        BY <1>0, <2>2, <3>2
      <4> QED
        BY <4>1, <4>2
    <3> QED
      BY <2>2, <3>1, <3>2
  <2>4. \A n \in 1 .. index : list[n] \notin Silent => \E a \in DOMAIN prepared' : prepared'[a] = list[n]
    <3> SUFFICES ASSUME NEW n \in 1 .. index, list[n] \notin Silent
                 PROVE  \E a \in DOMAIN prepared' : prepared'[a] = list[n]
      OBVIOUS
    <3>1. CASE n = index
      BY <2>2, <3>1
    <3>2. CASE n \in 1 .. index - 1
      <4>1. PICK a \in DOMAIN prepared : prepared[a] = list[n]
        BY <3>2 DEF PreparedUpTo
      <4> QED
        BY <2>2, <4>1
    <3> QED
      BY <1>0, <3>1, <3>2
  <2>5. ASSUME NEW a \in DOMAIN prepared', NEW b \in DOMAIN prepared',
               NEW m \in DOMAIN list, NEW n \in DOMAIN list,
               a < b, list[m] = prepared'[a], list[n] = prepared'[b]
        PROVE  m < n
    <3>1. a \in DOMAIN prepared /\ prepared'[a] = prepared[a]
      BY <2>2, <2>5
    <3>2. CASE b \in DOMAIN prepared
      BY <2>2, <2>5, <3>1, <3>2 DEF PreparedUpTo
    <3>3. CASE b = Len(prepared) + 1
      <4>1. n = index
        BY <1>0, <2>2, <2>5, <3>3 DEF IsInjective
      <4>2. PICK m1 \in 1 .. index - 1 : list[m1] = prepared[a]
        BY <3>1 DEF PreparedUpTo
      <4>3. m = m1
        BY <1>0, <2>5, <3>1, <4>2 DEF IsInjective
      <4> QED
        BY <4>1, <4>2, <4>3
    <3> QED
      BY <2>2, <3>2, <3>3
  <2> QED
    BY <1>0, <2>2, <2>3, <2>4, <2>5 DEF PreparedUpTo
<1> QED
  BY <1>1, <1>2

\* One round of the loop after the fork: a triple that was prepared is the next one
\* of prepared, and any other comes when all of those have been called.
LEMMA AfterKeepsFollowed ==
  ASSUME ForkTypes, index \in 1 .. Len(list), IsInjective(followed), FollowedUpTo,
         NEW k \in 0 .. Len(list), PreparedUpTo(k),
         followed' = Called(followed, list[index]), index' = index + 1,
         UNCHANGED <<list, prepared>>
  PROVE  followed' \in Seq(Triples) /\ IsInjective(followed') /\ FollowedUpTo'
<1>0. /\ list \in Seq(Triples) /\ IsInjective(list) /\ followed \in Seq(Triples)
      /\ prepared \in Seq(Triples) /\ Len(prepared) \in Nat
      /\ DOMAIN prepared = 1 .. Len(prepared)
      /\ DOMAIN list = 1 .. Len(list) /\ Len(list) \in Nat /\ index' - 1 = index
      /\ DOMAIN followed = 1 .. Len(followed) /\ Len(followed) \in Nat
      /\ list[index] \in Triples /\ index \in Nat
  BY DEF ForkTypes
<1>a. \A a \in DOMAIN followed : \E n \in 1 .. index - 1 : list[n] = followed[a]
  BY DEF FollowedUpTo
<1>b. \A a \in DOMAIN prepared, n \in DOMAIN list :
        list[n] = prepared[a] => (a <= Len(followed) <=> n < index)
  BY DEF FollowedUpTo
<1>c. \A a \in DOMAIN prepared :
        prepared[a] \notin Silent /\ \E n \in 1 .. k : list[n] = prepared[a]
  BY DEF PreparedUpTo
<1>d. \A a, b \in DOMAIN prepared, m, n \in DOMAIN list :
        a < b /\ list[m] = prepared[a] /\ list[n] = prepared[b] => m < n
  BY DEF PreparedUpTo
<1>1. CASE list[index] \in Silent
  <2>1. followed' = followed
    BY <1>1 DEF Called
  <2>2. \A a \in DOMAIN followed : \E n \in 1 .. index : list[n] = followed[a]
    BY <1>0, <1>a
  <2>3. \A a \in DOMAIN prepared : prepared[a] # list[index]
    BY <1>1, <1>c
  <2>4. \A a \in DOMAIN prepared, n \in DOMAIN list :
          list[n] = prepared[a] => (a <= Len(followed) <=> n < index + 1)
    BY <1>0, <1>b, <2>3
  <2> QED
    BY <1>0, <2>1, <2>2, <2>4 DEF FollowedUpTo
<1>2. CASE list[index] \notin Silent
  <2> DEFINE L == Len(followed)
  <2>1. /\ followed' = Append(followed, list[index])
        /\ followed' \in Seq(Triples) /\ Len(followed') = L + 1
        /\ DOMAIN followed' = 1 .. L + 1
        /\ \A a \in 1 .. L : followed'[a] = followed[a]
        /\ followed'[L + 1] = list[index]
    BY <1>0, <1>2 DEF Called
  <2>2. list[index] \notin ToSet(followed)
    <3> SUFFICES ASSUME NEW a \in DOMAIN followed, followed[a] = list[index] PROVE FALSE
      BY DEF ToSet
    <3>1. PICK n \in 1 .. index - 1 : list[n] = followed[a]
      BY <1>a
    <3> QED
      BY <1>0, <3>1 DEF IsInjective
  <2>3. IsInjective(followed')
    BY <1>0, <2>1, <2>2, PushElements
  <2>4. \A a \in DOMAIN followed' : \E n \in 1 .. index : list[n] = followed'[a]
    <3> SUFFICES ASSUME NEW a \in DOMAIN followed'
                 PROVE  \E n \in 1 .. index : list[n] = followed'[a]
      OBVIOUS
    <3>1. CASE a = L + 1
      BY <1>0, <2>1, <3>1
    <3>2. CASE a \in 1 .. L
      <4>1. PICK n \in 1 .. index - 1 : list[n] = followed[a]
        BY <1>0, <1>a, <3>2
      <4> QED
        BY <1>0, <2>1, <3>2, <4>1
    <3> QED
      BY <1>0, <2>1, <3>1, <3>2
  \* The next one of prepared, if there is one, is the triple of this round.
  <2>5. ASSUME L + 1 \in DOMAIN prepared PROVE prepared[L + 1] = list[index]
    <3>1. PICK p \in 1 .. k : list[p] = prepared[L + 1]
      BY <1>c, <2>5
    <3>2. p \in DOMAIN list /\ p >= index /\ index \in 1 .. k
      BY <1>0, <1>b, <2>5, <3>1, SMTT(40)
    <3>3. PICK a \in DOMAIN prepared : prepared[a] = list[index]
      BY <1>2, <3>2 DEF PreparedUpTo
    <3>4. a > L
      BY <1>0, <1>b, <3>3
    <3>5. L + 1 < a => p < index
      BY <1>0, <1>d, <2>5, <3>1, <3>2, <3>3
    <3> QED
      BY <1>0, <3>2, <3>3, <3>4, <3>5
  <2>6. \A a \in DOMAIN prepared \cap DOMAIN followed' : followed'[a] = prepared[a]
    <3> SUFFICES ASSUME NEW a \in DOMAIN prepared, a \in DOMAIN followed'
                 PROVE  followed'[a] = prepared[a]
      OBVIOUS
    <3>1. CASE a = L + 1
      BY <2>1, <2>5, <3>1
    <3>2. CASE a \in 1 .. L
      BY <1>0, <2>1, <3>2 DEF FollowedUpTo
    <3> QED
      BY <1>0, <2>1, <3>1, <3>2
  <2>7. ASSUME NEW a \in DOMAIN prepared, NEW n \in DOMAIN list, list[n] = prepared[a]
        PROVE  a <= L + 1 <=> n < index + 1
    <3>1. CASE a = L + 1
      <4>1. n = index
        BY <1>0, <2>5, <2>7, <3>1 DEF IsInjective
      <4> QED
        BY <1>0, <3>1, <4>1
    <3>2. CASE a # L + 1
      <4>1. a <= L <=> n < index
        BY <1>b, <2>7
      <4>2. n # index
        <5> SUFFICES ASSUME n = index PROVE FALSE
          OBVIOUS
        <5>1. a > L + 1 /\ L + 1 \in DOMAIN prepared
          BY <1>0, <3>2, <4>1
        <5>2. list[index] = prepared[L + 1]
          BY <2>5, <5>1
        <5>3. L + 1 < a /\ list[index] = prepared[a] /\ index \in DOMAIN list
          BY <1>0, <2>7, <5>1
        <5>4. index < index
          BY <1>d, <5>1, <5>2, <5>3
        <5> QED
          BY <1>0, <5>4
      <4> QED
        BY <1>0, <3>2, <4>1, <4>2
    <3> QED
      BY <3>1, <3>2
  <2> QED
    BY <1>0, <2>1, <2>3, <2>4, <2>6, <2>7 DEF FollowedUpTo
<1> QED
  BY <1>1, <1>2

\* A loop of fork(): one round of invoke_prepare.
LEMMA PrepareKeepsFork ==
  ASSUME HandlerInv, ForkInv, NEW t \in Threads, Prepare(t)
  PROVE  ForkInv'
<1> USE DEF ForkInv
<1>1. pc[t] = "prepare" /\ UNCHANGED <<list, process, tid, fork, followed>>
  BY DEF Prepare, At
<1>2. /\ index \in 1 .. Len(list) + 1 /\ PreparedUpTo(index - 1) /\ followed = <<>>
      /\ Len(list) \in Nat /\ index \in Nat
      /\ \A u \in Threads \ {t} : pc[u] \notin Forking
      /\ fork = "called"
  BY <1>1 DEF ForkLoops, ForkTypes, OneFork, Forking
<1>3. CASE /\ Looping /\ prepared' = Called(prepared, list[index])
           /\ index' = index + 1 /\ UNCHANGED <<mtx, pc>>
  <2>1. index \in 1 .. Len(list)
    BY <1>2, <1>3 DEF Looping
  <2>2. prepared' \in Seq(Triples) /\ PreparedUpTo(index - 1)'
    BY <1>1, <1>2, <1>3, <2>1, PrepareKeepsPrepared
  <2>3. ForkTypes'
    BY <1>1, <1>2, <1>3, <2>2 DEF ForkTypes
  <2>4. ManagerExclusion' /\ OneFork'
    BY <1>1, <1>3 DEF ManagerExclusion, OneFork
  <2>5. ForkPairs'
    BY <1>1, <1>2, <1>3 DEF ForkPairs
  <2>6. index' - 1 \in 0 .. Len(list') /\ index' \in 1 .. Len(list') + 1
    BY <1>1, <1>2, <1>3, <2>1
  <2>7. ForkLoops'
    BY <1>1, <1>2, <1>3, <2>2, <2>6 DEF ForkLoops, Forking
  <2> QED
    BY <2>3, <2>4, <2>5, <2>7
<1>4. CASE /\ ~Looping /\ mtx' = NoThread /\ index' = 0
           /\ Goto(t, "sys_fork") /\ UNCHANGED prepared
  <2>1. pc'[t] = "sys_fork" /\ \A u \in Threads \ {t} : pc'[u] = pc[u]
    BY <1>4 DEF HandlerInv, HandlerTypes, Goto
  <2>2. ForkTypes'
    BY <1>1, <1>4 DEF ForkTypes
  <2>3. ManagerExclusion'
    BY <1>1, <1>4, <2>1 DEF ManagerExclusion, Managing
  <2>4. OneFork'
    BY <1>1, <2>1 DEF OneFork, Forking
  <2>5. ForkPairs'
    BY <1>1, <1>2, <1>4, <2>1 DEF ForkPairs
  <2>6. PreparedUpTo(index - 1) /\ index - 1 \in 0 .. Len(list)
    BY <1>2
  <2>7. \E k \in 0 .. Len(list') : PreparedUpTo(k)'
    BY <1>1, <1>4, <2>6 DEF PreparedUpTo
  <2>8. ForkLoops'
    BY <1>1, <1>2, <2>1, <2>7 DEF ForkLoops, Forking
  <2> QED
    BY <2>2, <2>3, <2>4, <2>5, <2>8
<1> QED
  BY <1>3, <1>4 DEF Prepare

\* The other loop, of invoke_parent and invoke_child: at its end all that was
\* prepared has been followed.
LEMMA AfterKeepsFork ==
  ASSUME HandlerInv, ForkInv, NEW t \in Threads, After(t)
  PROVE  ForkInv'
<1> USE DEF ForkInv
<1>1. pc[t] = "after" /\ UNCHANGED <<list, process, tid, prepared>>
  BY DEF After, At
<1>2. /\ index \in 1 .. Len(list) + 1 /\ FollowedUpTo /\ IsInjective(followed)
      /\ Len(list) \in Nat /\ index \in Nat
      /\ \A u \in Threads \ {t} : pc[u] \notin Forking
      /\ fork = "called"
  BY <1>1 DEF ForkLoops, ForkTypes, OneFork, Forking, ForkPairs
<1>3. PICK k \in 0 .. Len(list) : PreparedUpTo(k)
  BY <1>1 DEF ForkLoops, Forking
<1>4. CASE /\ Looping /\ followed' = Called(followed, list[index])
           /\ index' = index + 1 /\ UNCHANGED <<mtx, pc, fork>>
  <2>1. index \in 1 .. Len(list)
    BY <1>2, <1>4 DEF Looping
  <2>2. followed' \in Seq(Triples) /\ IsInjective(followed') /\ FollowedUpTo'
    BY <1>1, <1>2, <1>3, <1>4, <2>1, AfterKeepsFollowed
  <2>3. ForkTypes'
    BY <1>1, <1>2, <1>4, <2>2 DEF ForkTypes
  <2>4. ManagerExclusion' /\ OneFork'
    BY <1>1, <1>4 DEF ManagerExclusion, OneFork
  <2>5. ForkPairs'
    BY <1>1, <1>2, <1>4, <2>2 DEF ForkPairs
  <2>6. index' \in 1 .. Len(list') + 1
    BY <1>1, <1>2, <1>4, <2>1
  <2>7. PreparedUpTo(k)'
    BY <1>1, <1>3 DEF PreparedUpTo
  <2>8. ForkLoops'
    BY <1>1, <1>2, <1>3, <1>4, <2>2, <2>6, <2>7 DEF ForkLoops, Forking
  <2> QED
    BY <2>3, <2>4, <2>5, <2>8
<1>5. CASE /\ ~Looping /\ mtx' = NoThread /\ index' = 0 /\ fork' = "returned"
           /\ Goto(t, "idle") /\ UNCHANGED followed
  <2>1. pc'[t] = "idle" /\ \A u \in Threads \ {t} : pc'[u] = pc[u]
    BY <1>5 DEF HandlerInv, HandlerTypes, Goto
  <2>2. ForkTypes'
    BY <1>1, <1>5 DEF ForkTypes
  <2>3. ManagerExclusion'
    <3>1. mtx = t /\ \A u \in Threads : pc'[u] \in Managing => u # t /\ pc[u] \in Managing
      BY <1>1, <2>1 DEF ManagerExclusion, Managing
    <3> QED
      BY <3>1 DEF ManagerExclusion
  <2>4. \A u \in Threads : pc'[u] \notin Forking
    BY <1>2, <2>1 DEF Forking
  <2>5. OneFork' /\ ForkLoops'
    BY <1>5, <2>4 DEF OneFork, ForkLoops, Forking
  <2>6. IsPrefix(prepared, followed)
    <3>1. /\ prepared \in Seq(Triples) /\ followed \in Seq(Triples)
          /\ DOMAIN prepared = 1 .. Len(prepared) /\ DOMAIN followed = 1 .. Len(followed)
          /\ Len(prepared) \in Nat /\ Len(followed) \in Nat
          /\ DOMAIN list = 1 .. Len(list)
      BY DEF ForkTypes
    <3>2. ASSUME NEW a \in DOMAIN prepared PROVE a <= Len(followed)
      <4>1. PICK n \in 1 .. k : list[n] = prepared[a]
        BY <1>3 DEF PreparedUpTo
      <4>2. n \in DOMAIN list /\ n < index
        BY <1>2, <1>5, <3>1 DEF Looping
      <4> QED
        BY <1>2, <4>1, <4>2 DEF FollowedUpTo
    <3>3. Len(prepared) <= Len(followed)
      BY <3>1, <3>2
    <3>4. \A a \in 1 .. Len(prepared) : followed[a] = prepared[a]
      BY <1>2, <3>1, <3>3, SMTT(40) DEF FollowedUpTo
    <3> QED
      BY <3>1, <3>3, <3>4 DEF IsPrefix
  <2>7. ForkPairs'
    BY <1>1, <1>2, <1>5, <2>1, <2>6 DEF ForkPairs
  <2> QED
    BY <2>2, <2>3, <2>5, <2>7
<1> QED
  BY <1>4, <1>5 DEF After

\* fork() begins: nothing has been prepared.
LEMMA CallKeepsFork ==
  ASSUME HandlerInv, ForkInv, NEW t \in Threads, ForkCall(t)
  PROVE  ForkInv'
<1> USE DEF ForkInv
<1>1. /\ pc[t] = "idle" /\ fork = "uncalled" /\ mtx = NoThread
      /\ fork' = "called" /\ mtx' = t /\ index' = 1 /\ Goto(t, "prepare")
      /\ UNCHANGED <<list, process, tid, prepared, followed>>
  BY DEF ForkCall, At
<1>2. pc'[t] = "prepare" /\ \A u \in Threads \ {t} : pc'[u] = pc[u]
  BY <1>1 DEF HandlerInv, HandlerTypes, Goto
<1>3. prepared = <<>> /\ followed = <<>> /\ Len(list) \in Nat
  BY <1>1 DEF ForkLoops, ForkTypes
<1>4. \A u \in Threads : pc[u] \notin Forking \cup Managing
  BY <1>1, ThreadsAssumption DEF OneFork, ManagerExclusion
<1>5. ForkTypes'
  BY <1>1 DEF ForkTypes
<1>6. ManagerExclusion' /\ OneFork'
  BY <1>1, <1>2, <1>4 DEF ManagerExclusion, OneFork
<1>7. ForkPairs'
  BY <1>1, <1>2 DEF ForkPairs
<1>8. PreparedUpTo(0)'
  BY <1>1, <1>3 DEF PreparedUpTo
<1>9. \A u \in Threads : pc'[u] \in Forking => u = t
  BY <1>2, <1>4
<1>10. ForkLoops'
  <2>1. PreparedUpTo(index - 1)'
    BY <1>1, <1>8 DEF PreparedUpTo
  <2>2. index' \in 1 .. Len(list') + 1 /\ 0 \in 0 .. Len(list')
    BY <1>1, <1>3
  <2> QED
    BY <1>1, <1>2, <1>3, <1>8, <1>9, <2>1, <2>2 DEF ForkLoops, Forking
<1> QED
  BY <1>5, <1>6, <1>7, <1>10

\* The steps of fork() between its loops, and the return of pthread_atfork().
LEMMA MovesKeepFork ==
  ASSUME HandlerInv, ForkInv, NEW t \in Threads,
         \/ RegisterReturns(t) \/ SysForkInParent(t) \/ SysForkInChild(t)
         \/ SysForkFails(t) \/ FixTid(t) \/ AfterLock(t)
  PROVE  ForkInv'
<1> USE DEF ForkInv
<1>1. /\ UNCHANGED <<list, prepared, followed>>
      /\ index' = index \/ (AfterLock(t) /\ index' = 1)
  BY DEF RegisterReturns, SysForkInParent, SysForkInChild, SysForkFails, FixTid, AfterLock,
         forkvars
<1>2. pc \in [Threads -> Labels] /\ Len(list) \in Nat
  BY DEF HandlerInv, HandlerTypes, ForkTypes
<1>3. ASSUME NEW k, PreparedUpTo(k) PROVE PreparedUpTo(k)'
  BY <1>1, <1>3 DEF PreparedUpTo
<1>4. CASE RegisterReturns(t)
  <2>1. /\ pc[t] = "register_unlock" /\ pc' = [pc EXCEPT ![t] = "idle"] /\ mtx' = NoThread
        /\ UNCHANGED <<index, process, tid, fork>>
    BY <1>4 DEF RegisterReturns, At, Goto
  <2>2. pc'[t] = "idle" /\ \A u \in Threads \ {t} : pc'[u] = pc[u]
    BY <1>2, <2>1
  <2>3. mtx = t /\ \A u \in Threads \ {t} : pc[u] \notin Managing
    BY <2>1 DEF ManagerExclusion, Managing
  <2>4. ForkTypes' /\ ManagerExclusion' /\ OneFork' /\ ForkPairs'
    BY <1>1, <2>1, <2>2, <2>3
       DEF ForkTypes, ManagerExclusion, OneFork, ForkPairs, Forking, Managing
  <2>5. ForkLoops'
    <3>1. FollowedUpTo' = FollowedUpTo /\ PreparedUpTo(index - 1)' = PreparedUpTo(index - 1)
      BY <1>1, <2>1 DEF FollowedUpTo, PreparedUpTo
    <3> QED
      BY <1>1, <1>3, <2>1, <2>2, <3>1 DEF ForkLoops, Forking
  <2> QED
    BY <2>4, <2>5
<1>5. CASE SysForkInParent(t) \/ FixTid(t)
  <2>1. /\ pc[t] \in {"sys_fork", "fix_tid"} /\ pc' = [pc EXCEPT ![t] = "after_lock"]
        /\ UNCHANGED <<mtx, index, process, fork>>
    BY <1>5 DEF SysForkInParent, FixTid, At, Goto, forkvars
  <2>2. pc'[t] = "after_lock" /\ \A u \in Threads \ {t} : pc'[u] = pc[u]
    BY <1>2, <2>1
  <2>3. ForkTypes' /\ ManagerExclusion' /\ OneFork'
    BY <1>1, <2>1, <2>2 DEF ForkTypes, ManagerExclusion, OneFork, Forking, Managing
  <2>4. ForkPairs'
    <3>1. tid' = process
      BY <1>5 DEF SysForkInParent, FixTid, ForkPairs, At, forkvars
    <3> QED
      BY <1>1, <2>1, <3>1 DEF ForkPairs
  <2>5. \A u \in Threads : pc'[u] \in Forking => u = t
    BY <2>1, <2>2 DEF OneFork, Forking
  <2>6. ForkLoops'
    BY <1>1, <1>3, <2>1, <2>2, <2>5 DEF ForkLoops, Forking
  <2> QED
    BY <2>3, <2>4, <2>6
<1>6. CASE SysForkInChild(t)
  <2>1. /\ pc[t] = "sys_fork" /\ process' = "child"
        /\ UNCHANGED <<mtx, index, tid, fork>>
        /\ pc'[t] = "fix_tid" /\ \A u \in Threads \ {t} : pc'[u] = "none"
    BY <1>6 DEF SysForkInChild, At
  <2>2. ForkTypes' /\ ManagerExclusion' /\ OneFork' /\ ForkPairs'
    BY <1>1, <2>1 DEF ForkTypes, ManagerExclusion, OneFork, ForkPairs, Forking, Managing
  <2>3. ForkLoops'
    BY <1>1, <1>3, <2>1 DEF ForkLoops, OneFork, Forking
  <2> QED
    BY <2>2, <2>3
<1>7. CASE SysForkFails(t)
  <2>1. /\ pc[t] = "sys_fork" /\ pc' = [pc EXCEPT ![t] = "idle"] /\ fork' = "failed"
        /\ UNCHANGED <<mtx, index, process, tid>>
    BY <1>7 DEF SysForkFails, At, Goto
  <2>2. pc'[t] = "idle" /\ \A u \in Threads \ {t} : pc'[u] = pc[u]
    BY <1>2, <2>1
  <2>3. \A u \in Threads : pc'[u] \notin Forking
    BY <2>1, <2>2 DEF OneFork, Forking
  <2>4. ForkTypes' /\ ManagerExclusion' /\ OneFork'
    BY <1>1, <2>1, <2>2, <2>3 DEF ForkTypes, ManagerExclusion, OneFork, Managing
  <2>5. ForkPairs' /\ ForkLoops'
    BY <1>1, <2>1, <2>2, <2>3 DEF ForkPairs, ForkLoops, Forking
  <2> QED
    BY <2>4, <2>5
<1>8. CASE AfterLock(t)
  <2>1. /\ pc[t] = "after_lock" /\ mtx = NoThread /\ mtx' = t /\ index' = 1
        /\ pc' = [pc EXCEPT ![t] = "after"] /\ UNCHANGED <<process, tid, fork>>
    BY <1>8 DEF AfterLock, At, Goto
  <2>2. pc'[t] = "after" /\ \A u \in Threads \ {t} : pc'[u] = pc[u]
    BY <1>2, <2>1
  <2>3. \A u \in Threads : pc[u] \notin Managing
    BY <2>1, ThreadsAssumption DEF ManagerExclusion
  <2>4. ForkTypes' /\ ManagerExclusion' /\ OneFork' /\ ForkPairs'
    BY <1>1, <2>1, <2>2, <2>3 DEF ForkTypes, ManagerExclusion, OneFork, ForkPairs, Forking
  <2>5. \A u \in Threads : pc'[u] \in Forking => u = t
    BY <2>1, <2>2 DEF OneFork, Forking
  <2>6. followed = <<>> /\ \E k \in 0 .. Len(list) : PreparedUpTo(k)
    BY <2>1 DEF ForkLoops, Forking
  <2>7. FollowedUpTo'
    <3>1. DOMAIN followed' = {} /\ Len(followed') = 0
      BY <1>1, <2>6
    <3>2. /\ DOMAIN prepared' = 1 .. Len(prepared) /\ Len(prepared) \in Nat
          /\ DOMAIN list' = 1 .. Len(list)
      BY <1>1 DEF ForkTypes
    <3>3. \A a \in DOMAIN prepared', n \in DOMAIN list' : ~(a <= 0) /\ ~(n < 1)
      BY <1>2, <3>2
    <3> QED
      BY <2>1, <3>1, <3>3 DEF FollowedUpTo
  <2>8. ForkLoops'
    BY <1>1, <1>2, <1>3, <2>1, <2>2, <2>5, <2>6, <2>7 DEF ForkLoops, Forking
  <2> QED
    BY <2>4, <2>8
<1> QED
  BY <1>4, <1>5, <1>6, <1>7, <1>8

\* For every set of threads and of triples, every capacity of the list and whichever
\* callbacks are null: the callbacks after a fork() that succeeds are, from the first
\* on, those whose prepare callback ran before it, and a thread of the child that
\* has left fork() knows its own tid (fork_callbacks.cpp:46-71, fork.cpp:30-47).
THEOREM ForkCallbacksPair == Spec => []ForkPairs
<1>1. ASSUME HandlerInv, ForkInv, [Next]_vars PROVE ForkInv'
  <2>1. CASE UNCHANGED vars
    BY <1>1, <2>1, ForkUntouched DEF vars
  <2>2. CASE Next
    <3> PICK t \in Threads :
          \/ ForkStep(t) \/ ForkCall(t)
          \/ \E x \in Triples : Register(t, x)
          \/ ExitNext(t) /\ UNCHANGED forkvars
      BY <2>2 DEF Next
    <3> QED
      BY <1>1, PrepareKeepsFork, AfterKeepsFork, CallKeepsFork, MovesKeepFork,
         RegisterKeepsFork, ExitKeepsFork DEF ForkStep
  <2> QED
    BY <1>1, <2>1, <2>2
<1>2. ForkInv => ForkPairs
  BY DEF ForkInv
<1> QED
  BY <1>1, <1>2, ForkInvInit, HandlersAreSafe, PTL DEF Spec
=============================================================================
