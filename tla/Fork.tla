-------------------------------- MODULE Fork --------------------------------
(***************************************************************************)
(* pthread_atfork() and fork(), src/__support/threads/fork_callbacks.cpp   *)
(* and src/unistd/linux/fork.cpp, in a process that also calls atexit()    *)
(* and exit() (module ExitHandlers).                                       *)
(*                                                                         *)
(* fork() copies the memory of the process: the lists of callbacks and the *)
(* mutexes as they are at that moment, locked ones included, with only the *)
(* calling thread in the child.  Parent and child share nothing from there *)
(* on, so a behaviour follows one of them: SysFork goes on as either.      *)
(*                                                                         *)
(*   pthread_atfork(): "idle" -> "register_unlock" -> "idle"               *)
(*   fork():  "idle" -> "prepare" -> "sys_fork" -> "after_lock" -> "after" *)
(*            -> "idle"                                 the parent         *)
(*            "sys_fork" -> "fix_tid" -> "after_lock" -> "after" -> "idle" *)
(*                                                      the child          *)
(* The callbacks do not register callbacks themselves: the mutex is held   *)
(* while they run, and is not recursive.                                   *)
(***************************************************************************)
EXTENDS ExitHandlers

CONSTANTS Triples,        \* the (prepare, parent, child) triples of the clients
          Silent,         \* those whose pointers are null
          CALLBACK_SIZE

ASSUME ForkAssumption == Silent \subseteq Triples /\ CALLBACK_SIZE \in Nat

VARIABLES list,           \* the registered triples; next_index is its length
          mtx,            \* who holds AtForkCallbackManager's mutex
          index,          \* the loop variable of the forking thread
          process,        \* "parent" or "child"
          tid,            \* the process whose thread self.attrib->tid names
          fork,           \* fork() is "uncalled", "called", "failed" or "returned"
          refused,        \* a pthread_atfork() has got ENOMEM; one does in a behaviour
          prepared,       \* triples whose prepare callback was run
          followed        \* triples whose parent or child callback was run

forkvars == <<list, mtx, index, process, tid, fork, refused, prepared, followed>>
vars == <<exitvars, pc, forkvars>>

Init ==
  /\ ExitInit
  /\ list = <<>> /\ mtx = NoThread /\ index = 0
  /\ process = "parent" /\ tid = "parent" /\ fork = "uncalled"
  /\ refused = FALSE /\ prepared = <<>> /\ followed = <<>>

\* register_triple: lock, store or refuse (ENOMEM), and the MutexLock's
\* destructor a step later.  Triples are told apart, so one is stored once.
Register(t, x) ==
  /\ At(t, "idle") /\ mtx = NoThread
  /\ mtx' = t
  /\ \/ /\ Len(list) < CALLBACK_SIZE /\ x \notin ToSet(list)
        /\ list' = Append(list, x) /\ UNCHANGED refused
     \/ /\ Len(list) >= CALLBACK_SIZE /\ ~refused
        /\ refused' = TRUE /\ UNCHANGED list
  /\ Goto(t, "register_unlock")
  /\ UNCHANGED <<exitvars, index, process, tid, fork, prepared, followed>>

\* Mutant: the early return of a full list leaves the mutex locked.
RegisterLeaksLock(t) ==
  /\ At(t, "register_unlock")
  /\ mtx' = IF Len(list) < CALLBACK_SIZE THEN NoThread ELSE mtx
  /\ Goto(t, "idle")
  /\ UNCHANGED <<exitvars, list, index, process, tid, fork, refused, prepared, followed>>

RegisterReturns(t) ==
  /\ At(t, "register_unlock")
  /\ mtx' = NoThread
  /\ Goto(t, "idle")
  /\ UNCHANGED <<exitvars, list, index, process, tid, fork, refused, prepared, followed>>

\* One fork() in a behaviour.  The lock of invoke_prepare.
ForkCall(t) ==
  /\ At(t, "idle") /\ fork = "uncalled" /\ mtx = NoThread
  /\ fork' = "called" /\ mtx' = t /\ index' = 1
  /\ Goto(t, "prepare")
  /\ UNCHANGED <<exitvars, list, process, tid, refused, prepared, followed>>

\* The loop has a triple left; a null callback of it is skipped.
Looping == index <= Len(list)

Called(s, x) == IF x \in Silent THEN s ELSE Append(s, x)

\* invoke_prepare: one callback, or the end of the loop and the unlock.
Prepare(t) ==
  /\ At(t, "prepare")
  /\ \/ /\ Looping
        /\ prepared' = Called(prepared, list[index]) /\ index' = index + 1
        /\ UNCHANGED <<mtx, pc>>
     \/ /\ ~Looping
        /\ mtx' = NoThread /\ index' = 0 /\ Goto(t, "sys_fork")
        /\ UNCHANGED prepared
  /\ UNCHANGED <<exitvars, list, process, tid, fork, refused, followed>>

SysForkInParent(t) ==
  /\ At(t, "sys_fork")
  /\ Goto(t, "after_lock")
  /\ UNCHANGED <<exitvars, forkvars>>

\* The child: the memory of the parent, and no thread but t.
SysForkInChild(t) ==
  /\ At(t, "sys_fork")
  /\ process' = "child"
  /\ pc' = [u \in Threads |-> IF u = t THEN "fix_tid" ELSE "none"]
  /\ UNCHANGED <<exitvars, list, mtx, index, tid, fork, refused, prepared, followed>>

\* The system call fails: errno is set, -1 returned, and no parent callback run.
SysForkFails(t) ==
  /\ At(t, "sys_fork")
  /\ fork' = "failed"
  /\ Goto(t, "idle")
  /\ UNCHANGED <<exitvars, list, mtx, index, process, tid, refused, prepared, followed>>

FixTid(t) ==
  /\ At(t, "fix_tid")
  /\ tid' = process
  /\ Goto(t, "after_lock")
  /\ UNCHANGED <<exitvars, list, mtx, index, process, fork, refused, prepared, followed>>

\* invoke_parent or invoke_child: the lock, then the loop as in invoke_prepare.
AfterLock(t) ==
  /\ At(t, "after_lock") /\ mtx = NoThread
  /\ mtx' = t /\ index' = 1
  /\ Goto(t, "after")
  /\ UNCHANGED <<exitvars, list, process, tid, fork, refused, prepared, followed>>

\* Mutant: the loop ends one short.
AfterShort(t) ==
  /\ At(t, "after")
  /\ \/ /\ index < Len(list)
        /\ followed' = Called(followed, list[index]) /\ index' = index + 1
        /\ UNCHANGED <<mtx, pc, fork>>
     \/ /\ index >= Len(list)
        /\ mtx' = NoThread /\ index' = 0 /\ fork' = "returned" /\ Goto(t, "idle")
        /\ UNCHANGED followed
  /\ UNCHANGED <<exitvars, list, process, tid, refused, prepared>>

After(t) ==
  /\ At(t, "after")
  /\ \/ /\ Looping
        /\ followed' = Called(followed, list[index]) /\ index' = index + 1
        /\ UNCHANGED <<mtx, pc, fork>>
     \/ /\ ~Looping
        /\ mtx' = NoThread /\ index' = 0 /\ fork' = "returned" /\ Goto(t, "idle")
        /\ UNCHANGED followed
  /\ UNCHANGED <<exitvars, list, process, tid, refused, prepared>>

(***************************************************************************)
(* Specification.  A thread inside one of the calls keeps running, and the *)
(* callbacks return.  Nobody has to call anything.  A thread that waits    *)
(* for a mutex competes with the finitely many calls of the clients, so    *)
(* weak fairness is enough although the mutex is not fair.                 *)
(***************************************************************************)
ForkStep(t) ==
  \/ RegisterReturns(t) \/ Prepare(t) \/ FixTid(t) \/ AfterLock(t) \/ After(t)
  \/ SysForkInParent(t) \/ SysForkInChild(t) \/ SysForkFails(t)

Step(t) == ForkStep(t) \/ (ExitStep(t) /\ UNCHANGED forkvars)

Next ==
  \E t \in Threads :
    \/ ForkStep(t) \/ ForkCall(t)
    \/ \E x \in Triples : Register(t, x)
    \/ ExitNext(t) /\ UNCHANGED forkvars

Spec == Init /\ [][Next]_vars

FairSpec == Spec /\ \A t \in Threads : WF_vars(Step(t))

(***************************************************************************)
(* Properties                                                              *)
(***************************************************************************)
\* A fork() that succeeds runs, in the parent as in the child, the callback of
\* every triple whose prepare callback it has run, once and in the same order.
\* A registration by another thread between the two loops only adds callbacks at
\* the end (fork_callbacks.cpp:46-71 lock the list for each loop apart).  The
\* callbacks of the child see the tid of the child (fork.cpp:38).
ForkPairs ==
  /\ IsInjective(followed)
  /\ fork = "returned" => IsPrefix(prepared, followed)
  /\ \A t \in Threads : pc[t] \notin {"none", "fix_tid"} => tid = process

\* The mutex was copied while a thread that is not in the child held it.
Orphaned(m) == m # NoThread /\ pc[m] = "none"

\* fork() returns in the parent and in the child, and exit() ends the process,
\* unless the mutex they need was held by another thread at the moment of the
\* fork: the child has no thread that could release it (fork.cpp:27).
ForkAndExitComplete ==
  \A t \in Threads :
    /\ At(t, "prepare") ~> (fork \in {"failed", "returned"} \/ ~alive \/ Orphaned(mtx))
    /\ At(t, "lock") ~> (~alive \/ pc[t] = "none" \/ Orphaned(handler_list_mtx))
=============================================================================
