------------------------------- MODULE Thread -------------------------------
(***************************************************************************)
(* The life of threads: Thread::run, join, detach and wait, and            *)
(* thread_exit, of src/__support/threads/linux/thread.cpp.                 *)
(*                                                                         *)
(* A thread's attributes and its clear_tid futex live on the stack that    *)
(* run() maps for it, and either the thread itself or the one that joins   *)
(* or detaches it unmaps that stack.  So attrib is indexed by the address  *)
(* of a stack, addresses are used again by later calls of mmap, and a      *)
(* pointer kept too long reads or frees another thread's memory.           *)
(*                                                                         *)
(* pc[w] is the thread w itself:                                           *)
(*   "running" -> "exit_cas" -> "sys_exit" -> "kernel_wake" -> "dead"      *)
(*   and, when detached, "exit_cas" -> "self_tls" -> "self_stack"          *)
(*                                  -> "set_tid" -> "sys_exit"             *)
(* op[w] is the one thread that created w and may join or detach it:       *)
(*   "new" -> "clone" -> "have" -> "load" -> "futex" -> "asleep"           *)
(*         -> "retval" -> "free_tls" -> "free_stack" -> "done"             *)
(* and goal[w] tells why it is in wait() or in cleanup_thread_resources(). *)
(***************************************************************************)
CONSTANTS Threads,
          Stacks,           \* addresses of stacks
          UserStacks,       \* those a caller passes to run() itself
          Values, NoValue,  \* what a thread function returns
          NoStack, NoThread

ASSUME ThreadAssumptions ==
  /\ UserStacks \subseteq Stacks
  /\ NoStack \notin Stacks
  /\ NoThread \notin Threads
  /\ NoValue \notin Values

VARIABLES
  mapped,      \* the stacks that are mapped
  tls,         \* the threads whose TLS block is mapped
  attrib,      \* ThreadAttributes and the clear_tid word, by stack
  stack,       \* the stack, hence the attrib pointer, of each thread
  pc, op, goal,
  tid_addr,    \* the kernel's clear_child_tid pointer of each thread
  ret, got     \* what w's runner returned, and what join() on w returned

vars == <<mapped, tls, attrib, stack, pc, op, goal, tid_addr, ret, got>>

DetachState == {"JOINABLE", "EXITING", "DETACHED"}

\* tls names the thread whose TLS block the attributes point to; clear_tid is
\* TRUE while the word is CLEAR_TID_VALUE.
ThreadAttributes ==
  [detach_state : DetachState, owned_stack : BOOLEAN,
   tls : Threads \cup {NoThread}, retval : Values \cup {NoValue}, clear_tid : BOOLEAN]

Blank == [detach_state |-> "DETACHED", owned_stack |-> FALSE, tls |-> NoThread,
          retval |-> NoValue, clear_tid |-> FALSE]

Init ==
  /\ mapped = UserStacks
  /\ tls = {}
  /\ attrib = [a \in Stacks |-> Blank]
  /\ stack = [w \in Threads |-> NoStack]
  /\ pc = [w \in Threads |-> "none"]
  /\ op = [w \in Threads |-> "new"]
  /\ goal = [w \in Threads |-> "none"]
  /\ tid_addr = [w \in Threads |-> NoStack]
  /\ ret = [w \in Threads |-> NoValue]
  /\ got = [w \in Threads |-> NoValue]

Goto(w, label) == pc' = [pc EXCEPT ![w] = label]
Owner(w, label) == op' = [op EXCEPT ![w] = label]

(***************************************************************************)
(* Thread::run                                                             *)
(***************************************************************************)
\* mmap returns any address that is free; a caller lends a stack of its own once.
StackFor(owned) ==
  IF owned THEN Stacks \ (mapped \cup UserStacks)
           ELSE {a \in UserStacks : \A w \in Threads : stack[w] # a}

Run(w, a, owned, detached) ==
  /\ op[w] = "new" /\ a \in StackFor(owned)
  /\ mapped' = mapped \cup {a}
  /\ tls' = tls \cup {w}
  /\ stack' = [stack EXCEPT ![w] = a]
  /\ attrib' = [attrib EXCEPT ![a] =
                  [detach_state |-> IF detached THEN "DETACHED" ELSE "JOINABLE",
                   owned_stack |-> owned, tls |-> w,
                   retval |-> NoValue, clear_tid |-> TRUE]]
  /\ Owner(w, "clone")
  /\ UNCHANGED <<pc, goal, tid_addr, ret, got>>

AllocFails(w) ==
  /\ op[w] = "new" /\ Owner(w, "done")
  /\ UNCHANGED <<mapped, tls, attrib, stack, pc, goal, tid_addr, ret, got>>

Clone(w) ==
  /\ op[w] = "clone"
  /\ tid_addr' = [tid_addr EXCEPT ![w] = stack[w]]
  /\ Goto(w, "running")
  /\ Owner(w, IF attrib[stack[w]].detach_state = "JOINABLE"
              THEN "have" ELSE "detached")
  /\ UNCHANGED <<mapped, tls, attrib, stack, goal, ret, got>>

\* Mutant: run() reports the error and forgets the stack and the TLS block.
CloneFailsLeaks(w) ==
  /\ op[w] = "clone" /\ Owner(w, "done")
  /\ UNCHANGED <<mapped, tls, attrib, stack, pc, goal, tid_addr, ret, got>>

CloneFails(w) ==
  /\ op[w] = "clone" /\ Owner(w, "free_tls")
  /\ goal' = [goal EXCEPT ![w] = "undo"]
  /\ UNCHANGED <<mapped, tls, attrib, stack, pc, tid_addr, ret, got>>

(***************************************************************************)
(* cleanup_thread_resources, on behalf of the pointer w holds              *)
(***************************************************************************)
Attr(w) == attrib[stack[w]]

FreeTls(w) == tls' = tls \ {Attr(w).tls}

FreeStack(w) ==
  mapped' = IF Attr(w).owned_stack THEN mapped \ {stack[w]} ELSE mapped

\* Mutant: the stack, and the attributes in it, goes before the TLS block.
CleanupTlsAfterStack(w) ==
  /\ op[w] = "free_tls" /\ FreeTls(w) /\ FreeStack(w) /\ Owner(w, "free_stack")
  /\ UNCHANGED <<attrib, stack, pc, goal, tid_addr, ret, got>>

CleanupTls(w) ==
  /\ op[w] = "free_tls" /\ FreeTls(w) /\ Owner(w, "free_stack")
  /\ UNCHANGED <<mapped, attrib, stack, pc, goal, tid_addr, ret, got>>

CleanupStack(w) ==
  /\ op[w] = "free_stack" /\ FreeStack(w) /\ Owner(w, "done")
  /\ UNCHANGED <<tls, attrib, stack, pc, goal, tid_addr, ret, got>>

(***************************************************************************)
(* start_thread and thread_exit, in the new thread                         *)
(***************************************************************************)
\* Mutant: start_thread passes the value to thread_exit only.
RunnerReturnsUnsaved(w, v) ==
  /\ pc[w] = "running"
  /\ ret' = [ret EXCEPT ![w] = v]
  /\ Goto(w, "exit_cas")
  /\ UNCHANGED <<mapped, tls, attrib, stack, op, goal, tid_addr, got>>

\* The runner returns v: start_thread keeps it in the attributes.
RunnerReturns(w, v) ==
  /\ pc[w] = "running"
  /\ attrib' = [attrib EXCEPT ![stack[w]].retval = v]
  /\ ret' = [ret EXCEPT ![w] = v]
  /\ Goto(w, "exit_cas")
  /\ UNCHANGED <<mapped, tls, stack, op, goal, tid_addr, got>>

\* thrd_exit or pthread_exit in the middle of the runner: thread_exit hands the
\* value to the kernel and leaves the attributes alone.
ExitCalled(w) ==
  /\ pc[w] = "running" /\ Goto(w, "exit_cas")
  /\ UNCHANGED <<mapped, tls, attrib, stack, op, goal, tid_addr, ret, got>>

ExitCas(w) ==
  /\ pc[w] = "exit_cas"
  /\ \/ /\ Attr(w).detach_state = "JOINABLE"
        /\ attrib' = [attrib EXCEPT ![stack[w]].detach_state = "EXITING"]
        /\ Goto(w, "sys_exit")
     \/ /\ Attr(w).detach_state # "JOINABLE"
        /\ UNCHANGED attrib
        /\ Goto(w, "self_tls")
  /\ UNCHANGED <<mapped, tls, stack, op, goal, tid_addr, ret, got>>

SelfTls(w) ==
  /\ pc[w] = "self_tls" /\ FreeTls(w) /\ Goto(w, "self_stack")
  /\ UNCHANGED <<mapped, attrib, stack, op, goal, tid_addr, ret, got>>

SelfStack(w) ==
  /\ pc[w] = "self_stack" /\ FreeStack(w) /\ Goto(w, "set_tid")
  /\ UNCHANGED <<tls, attrib, stack, op, goal, tid_addr, ret, got>>

\* Mutant: a detached thread leaves its clear_tid address with the kernel.
SetTidAddressForgotten(w) ==
  /\ pc[w] = "set_tid" /\ Goto(w, "sys_exit")
  /\ UNCHANGED <<mapped, tls, attrib, stack, op, goal, tid_addr, ret, got>>

SetTidAddress(w) ==
  /\ pc[w] = "set_tid" /\ Goto(w, "sys_exit")
  /\ tid_addr' = [tid_addr EXCEPT ![w] = NoStack]
  /\ UNCHANGED <<mapped, tls, attrib, stack, op, goal, ret, got>>

\* SYS_exit: the kernel zeroes the word at the clear_child_tid address ...
KernelClears(w) ==
  /\ pc[w] = "sys_exit" /\ Goto(w, "kernel_wake")
  /\ attrib' = [a \in Stacks |-> IF a = tid_addr[w] /\ a \in mapped
                                 THEN [attrib[a] EXCEPT !.clear_tid = FALSE]
                                 ELSE attrib[a]]
  /\ UNCHANGED <<mapped, tls, stack, op, goal, tid_addr, ret, got>>

Sleepers(a) == {w \in Threads : op[w] = "asleep" /\ stack[w] = a}

\* ... and wakes one thread that waits there.
KernelWakes(w) ==
  /\ pc[w] = "kernel_wake" /\ Goto(w, "dead")
  /\ \/ Sleepers(tid_addr[w]) = {} /\ UNCHANGED op
     \/ \E u \in Sleepers(tid_addr[w]) : Owner(u, "load")
  /\ UNCHANGED <<mapped, tls, attrib, stack, goal, tid_addr, ret, got>>

(***************************************************************************)
(* join(), detach() and wait(), in the thread that created w.  A creator   *)
(* calls one of join() and detach(), once (thread.h:72-90), and wait() any *)
(* number of times before that (thread.h:186-197).                         *)
(***************************************************************************)
StartJoin(w) ==
  /\ op[w] = "have" /\ Owner(w, "load")
  /\ goal' = [goal EXCEPT ![w] = "join"]
  /\ UNCHANGED <<mapped, tls, attrib, stack, pc, tid_addr, ret, got>>

StartWait(w) ==
  /\ op[w] = "have" /\ Owner(w, "load")
  /\ goal' = [goal EXCEPT ![w] = "wait"]
  /\ UNCHANGED <<mapped, tls, attrib, stack, pc, tid_addr, ret, got>>

\* Mutant: a thread that is exiting is cleaned up without waiting for it.
DetachNoWait(w) ==
  /\ op[w] = "have"
  /\ \/ /\ Attr(w).detach_state = "JOINABLE"
        /\ attrib' = [attrib EXCEPT ![stack[w]].detach_state = "DETACHED"]
        /\ Owner(w, "detached") /\ UNCHANGED goal
     \/ /\ Attr(w).detach_state # "JOINABLE"
        /\ goal' = [goal EXCEPT ![w] = "detach"]
        /\ Owner(w, "free_tls") /\ UNCHANGED attrib
  /\ UNCHANGED <<mapped, tls, stack, pc, tid_addr, ret, got>>

Detach(w) ==
  /\ op[w] = "have"
  /\ \/ /\ Attr(w).detach_state = "JOINABLE"
        /\ attrib' = [attrib EXCEPT ![stack[w]].detach_state = "DETACHED"]
        /\ Owner(w, "detached") /\ UNCHANGED goal
     \/ /\ Attr(w).detach_state # "JOINABLE"
        /\ goal' = [goal EXCEPT ![w] = "detach"]
        /\ Owner(w, "load") /\ UNCHANGED attrib
  /\ UNCHANGED <<mapped, tls, stack, pc, tid_addr, ret, got>>

\* Where the code is once wait() has returned.
AfterWait == [join |-> "retval", detach |-> "free_tls", wait |-> "have"]

\* A load from a stack that is no longer mapped would end the process: no step.
WaitLoads(w) ==
  /\ op[w] = "load" /\ stack[w] \in mapped
  /\ Owner(w, IF Attr(w).clear_tid THEN "futex" ELSE AfterWait[goal[w]])
  /\ UNCHANGED <<mapped, tls, attrib, stack, pc, goal, tid_addr, ret, got>>

\* Mutant: the system call is given the value it finds, so it always sleeps.
WaitSleepsAlways(w) ==
  /\ op[w] = "futex" /\ Owner(w, "asleep")
  /\ UNCHANGED <<mapped, tls, attrib, stack, pc, goal, tid_addr, ret, got>>

\* FUTEX_WAIT sleeps only while the word is mapped and still CLEAR_TID_VALUE.
WaitSleeps(w) ==
  /\ op[w] = "futex"
  /\ Owner(w, IF stack[w] \in mapped /\ Attr(w).clear_tid
              THEN "asleep" ELSE "load")
  /\ UNCHANGED <<mapped, tls, attrib, stack, pc, goal, tid_addr, ret, got>>

\* Mutant: wait() takes any return of the system call for the end of the thread.
WaitInterruptedReturns(w) ==
  /\ op[w] = "asleep" /\ Owner(w, AfterWait[goal[w]])
  /\ UNCHANGED <<mapped, tls, attrib, stack, pc, goal, tid_addr, ret, got>>

WaitInterrupted(w) ==
  /\ op[w] = "asleep" /\ Owner(w, "load")
  /\ UNCHANGED <<mapped, tls, attrib, stack, pc, goal, tid_addr, ret, got>>

JoinTakesRetval(w) ==
  /\ op[w] = "retval" /\ Owner(w, "free_tls")
  /\ got' = [got EXCEPT ![w] = Attr(w).retval]
  /\ UNCHANGED <<mapped, tls, attrib, stack, pc, goal, tid_addr, ret>>

(***************************************************************************)
(* Specification.  Threads keep running and thread functions return; who   *)
(* has called run(), join(), detach() or wait() goes on with it.           *)
(***************************************************************************)
ThreadStep(w) ==
  \/ \E v \in Values : RunnerReturns(w, v)
  \/ ExitCalled(w) \/ ExitCas(w) \/ SelfTls(w) \/ SelfStack(w) \/ SetTidAddress(w)
  \/ KernelClears(w) \/ KernelWakes(w)

OwnerStep(w) ==
  \/ Clone(w) \/ CloneFails(w) \/ CleanupTls(w) \/ CleanupStack(w)
  \/ WaitLoads(w) \/ WaitSleeps(w) \/ JoinTakesRetval(w)

OwnerCall(w) ==
  \/ \E a \in Stacks, owned, detached \in BOOLEAN : Run(w, a, owned, detached)
  \/ AllocFails(w) \/ StartJoin(w) \/ StartWait(w) \/ Detach(w)

Next == \E w \in Threads : \/ ThreadStep(w) \/ OwnerStep(w)
                            \/ OwnerCall(w) \/ WaitInterrupted(w)

Spec == Init /\ [][Next]_vars

FairSpec ==
  Spec /\ \A w \in Threads : WF_vars(ThreadStep(w)) /\ WF_vars(OwnerStep(w))

(***************************************************************************)
(* Properties                                                              *)
(***************************************************************************)
PC == {"none", "running", "exit_cas", "self_tls", "self_stack", "set_tid",
       "sys_exit", "kernel_wake", "dead"}
OP == {"new", "clone", "have", "detached", "load", "futex", "asleep", "retval",
       "free_tls", "free_stack", "done"}

\* Every variable has its type; a stack that is mapped has attributes in it.
TypeOK ==
  /\ mapped \subseteq Stacks /\ tls \subseteq Threads
  /\ attrib \in [Stacks -> ThreadAttributes]
  /\ stack \in [Threads -> Stacks \cup {NoStack}]
  /\ pc \in [Threads -> PC] /\ op \in [Threads -> OP]
  /\ goal \in [Threads -> {"none", "undo", "join", "detach", "wait"}]
  /\ tid_addr \in [Threads -> Stacks \cup {NoStack}]
  /\ ret \in [Threads -> Values \cup {NoValue}]
  /\ got \in [Threads -> Values \cup {NoValue}]

\* What w's attrib pointer points to is mapped and is still about w.
Valid(w) == stack[w] \in mapped /\ Attr(w).tls = w

\* A thread never runs on memory that is gone or is another thread's: until its
\* own cleanup its stack is mapped and its own, whoever joins or detaches it.
ThreadOwnsItsStack ==
  \A w \in Threads :
    pc[w] \in {"running", "exit_cas", "self_tls", "self_stack"} =>
      Valid(w) /\ (pc[w] # "self_stack" => w \in tls)

\* Join, detach and wait never follow an attrib pointer whose stack has been
\* unmapped, or given to another thread, by the exit of a detached thread or by an
\* earlier cleanup; in particular nothing is unmapped twice.
NoUseAfterFree ==
  \A w \in Threads : op[w] \notin {"new", "detached", "done"} => Valid(w)

\* SYS_exit writes to the clear_tid word of this very thread or to none at all:
\* set_tid_address(0) comes in time, so the kernel never zeroes a word in a stack
\* that another thread has been given meanwhile.
KernelWritesOwnWord ==
  \A w \in Threads : pc[w] = "sys_exit" /\ tid_addr[w] # NoStack => Valid(w)

\* Whoever cleans up w from outside does so when w has no instruction left to run.
CleanupAfterExit ==
  \A w \in Threads : op[w] \in {"retval", "free_tls", "free_stack"} =>
    pc[w] \in {"kernel_wake", "dead"} \/ goal[w] = "undo"

\* Nothing leaks and nothing is taken from the caller: once w is over and joined,
\* detached or not created at all, its TLS block and the stack that run() mapped
\* for it are gone, by whichever of the two threads won the race for detach_state;
\* a stack the caller of run() provided is still there.
NothingLeaks ==
  /\ UserStacks \subseteq mapped
  /\ \A w \in Threads :
       pc[w] \in {"none", "dead"} /\ op[w] \in {"detached", "done"} =>
         /\ w \notin tls
         /\ \A a \in mapped \ UserStacks : attrib[a].tls # w

\* join() returns what the thread function returned (or nothing, if the function
\* left through thrd_exit), even when stacks are reused by threads that exit
\* meanwhile.
JoinReturnsResult ==
  \A w \in Threads :
    goal[w] = "join" /\ op[w] \in {"free_tls", "free_stack", "done"} =>
      got[w] = ret[w]

\* Once called on a joinable thread, join(), detach() and wait() return.
JoinReturns ==
  \A w \in Threads : op[w] = "load" ~> op[w] \in {"have", "done"}
=============================================================================
