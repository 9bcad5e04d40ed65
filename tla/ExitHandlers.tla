---------------------------- MODULE ExitHandlers ----------------------------
(***************************************************************************)
(* atexit() and exit(): src/stdlib/atexit.cpp and src/stdlib/exit.cpp.     *)
(*                                                                         *)
(* handler_list_mtx is the abstract lock that the mutex of mutex.h         *)
(* implements (module Mutex): its holder, or NoThread.                     *)
(*                                                                         *)
(*   atexit(): pc -> "add_unlock" -> pc      from main code or a handler   *)
(*   exit():   "idle" -> "lock" -> "pop" -> "in_handler" -> "lock" ...     *)
(*             "pop" -> "_Exit"              the list is empty             *)
(* Only threads of Exiters call exit(), and a process does it once: C      *)
(* leaves a second call undefined.                                         *)
(***************************************************************************)
EXTENDS Naturals, Sequences, SequencesExt

CONSTANTS Threads, Handlers, NoThread, NoHandler,
          Exiters         \* the threads that may call exit()

ASSUME ThreadsAssumption == NoThread \notin Threads /\ Exiters \subseteq Threads

VARIABLES exit_callbacks,   \* the ExitCallbackList, its back() last
          destroyed,        \* ~ExitCallbackList has run on it
          handler_list_mtx, \* who holds the mutex
          alive,            \* the process exists
          pc, home,         \* where a thread is, and where its atexit() returns
          unit,             \* the handler a thread is adding
          registered,       \* handlers whose atexit() has returned 0
          before_exit,      \* what was registered when exit() was called
          ran               \* handlers entered, in order

exitvars == <<exit_callbacks, destroyed, handler_list_mtx, alive, home, unit,
              registered, before_exit, ran>>

ExitInit ==
  /\ exit_callbacks = <<>> /\ destroyed = FALSE /\ handler_list_mtx = NoThread
  /\ alive = TRUE
  /\ pc = [t \in Threads |-> "idle"] /\ home = [t \in Threads |-> "idle"]
  /\ unit = [t \in Threads |-> NoHandler]
  /\ registered = {} /\ before_exit = <<>> /\ ran = <<>>

At(t, label) == alive /\ pc[t] = label

Goto(t, label) == pc' = [pc EXCEPT ![t] = label]

\* Handlers are told apart, so each is registered once: a bound on the calls.
Fresh(h) == h \notin registered \cup ToSet(exit_callbacks) \cup ToSet(ran)

\* add_atexit_unit: lock and push_back.  A list that has been destroyed has no
\* block to push to, and loses the handler.
AddPush(t, h) ==
  /\ At(t, "idle") \/ At(t, "in_handler")
  /\ Fresh(h) /\ handler_list_mtx = NoThread
  /\ handler_list_mtx' = t
  /\ exit_callbacks' = IF destroyed THEN exit_callbacks ELSE Append(exit_callbacks, h)
  /\ home' = [home EXCEPT ![t] = pc[t]]
  /\ unit' = [unit EXCEPT ![t] = h]
  /\ Goto(t, "add_unlock")
  /\ UNCHANGED <<destroyed, alive, registered, before_exit, ran>>

\* unlock and return 0.
AddReturns(t) ==
  /\ At(t, "add_unlock")
  /\ handler_list_mtx' = NoThread
  /\ registered' = registered \cup {unit[t]}
  /\ unit' = [unit EXCEPT ![t] = NoHandler]
  /\ home' = [home EXCEPT ![t] = "idle"]
  /\ Goto(t, home[t])
  /\ UNCHANGED <<exit_callbacks, destroyed, alive, before_exit, ran>>

\* t is inside exit(), possibly in an atexit() call of a handler.
Exiting(t) ==
  \/ pc[t] \in {"lock", "pop", "in_handler", "_Exit"}
  \/ pc[t] = "add_unlock" /\ home[t] = "in_handler"

\* exit() called: call_exit_callbacks goes to its first lock().
ExitCall(t) ==
  /\ At(t, "idle") /\ t \in Exiters /\ \A u \in Threads : ~Exiting(u)
  /\ before_exit' = exit_callbacks
  /\ Goto(t, "lock")
  /\ UNCHANGED <<exit_callbacks, destroyed, handler_list_mtx, alive, home, unit,
                 registered, ran>>

ListLock(t) ==
  /\ At(t, "lock") /\ handler_list_mtx = NoThread
  /\ handler_list_mtx' = t
  /\ Goto(t, "pop")
  /\ UNCHANGED <<exit_callbacks, destroyed, alive, home, unit, registered,
                 before_exit, ran>>

\* Mutant: the front of the list is taken, as from a queue.
PopFront(t) ==
  /\ At(t, "pop") /\ exit_callbacks # <<>>
  /\ exit_callbacks' = Tail(exit_callbacks)
  /\ ran' = Append(ran, Head(exit_callbacks))
  /\ handler_list_mtx' = NoThread
  /\ Goto(t, "in_handler")
  /\ UNCHANGED <<destroyed, alive, home, unit, registered, before_exit>>

\* back(), pop_back(), unlock(), and the callback is entered.
Pop(t) ==
  /\ At(t, "pop") /\ exit_callbacks # <<>>
  /\ exit_callbacks' = Front(exit_callbacks)
  /\ ran' = Append(ran, Last(exit_callbacks))
  /\ handler_list_mtx' = NoThread
  /\ Goto(t, "in_handler")
  /\ UNCHANGED <<destroyed, alive, home, unit, registered, before_exit>>

HandlerReturns(t) ==
  /\ At(t, "in_handler")
  /\ Goto(t, "lock")
  /\ UNCHANGED exitvars

\* Mutant: call_exit_callbacks unlocks the mutex before it returns.
DestroyUnlocks(t) ==
  /\ At(t, "pop") /\ exit_callbacks = <<>>
  /\ destroyed' = TRUE
  /\ handler_list_mtx' = NoThread
  /\ Goto(t, "_Exit")
  /\ UNCHANGED <<exit_callbacks, alive, home, unit, registered, before_exit, ran>>

\* The list is empty: it is destroyed, and call_exit_callbacks returns to exit()
\* with the mutex locked for good.
Destroy(t) ==
  /\ At(t, "pop") /\ exit_callbacks = <<>>
  /\ destroyed' = TRUE
  /\ Goto(t, "_Exit")
  /\ UNCHANGED <<exit_callbacks, handler_list_mtx, alive, home, unit, registered,
                 before_exit, ran>>

\* exit_group ends every thread of the process.
_Exit(t) ==
  /\ At(t, "_Exit")
  /\ alive' = FALSE
  /\ UNCHANGED <<exit_callbacks, destroyed, handler_list_mtx, pc, home, unit,
                 registered, before_exit, ran>>

\* What a thread inside atexit() or exit() does next.
ExitStep(t) ==
  \/ AddReturns(t) \/ ListLock(t) \/ Pop(t) \/ HandlerReturns(t)
  \/ Destroy(t) \/ _Exit(t)

ExitNext(t) == (\E h \in Handlers : AddPush(t, h)) \/ ExitCall(t) \/ ExitStep(t)

(***************************************************************************)
(* Properties                                                              *)
(***************************************************************************)
\* A handler whose atexit() returned 0 before the process ended has been run:
\* also one registered by a handler, by another thread while the handlers run,
\* or in the gap between the last handler and _Exit (atexit.cpp:64 keeps the
\* mutex locked, so that such a call never returns).
NoHandlerLost == destroyed => registered \subseteq ToSet(ran)

\* No handler runs twice in a process, and those registered when exit() was
\* called run in the reverse of the order of their registration, whatever is
\* registered while they run: before an earlier one is entered, every later one
\* has been.  "We want the fini array callbacks to be run after other atexit
\* callbacks" (start.cpp:216) rests on it.
HandlersInOrder ==
  /\ IsInjective(ran)
  /\ \A i, j \in DOMAIN before_exit, k \in DOMAIN ran :
       i < j /\ ran[k] = before_exit[i] => \E l \in 1 .. k - 1 : ran[l] = before_exit[j]
=============================================================================
