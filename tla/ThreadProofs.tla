---------------------------- MODULE ThreadProofs ----------------------------
(***************************************************************************)
(* Theorems about Thread and ThreadExit.  Of Thread, for every set of      *)
(* threads, stacks and values: all its safety properties follow from one   *)
(* inductive invariant, ThreadInv.  TypeOK alone is not inductive, because *)
(* join() and the runner follow an attrib pointer that is there only while *)
(* somebody is to free it.  Of ThreadExit, for every number of keys: what  *)
(* has been called at every point of an exit, ExitInv.                     *)
(***************************************************************************)
EXTENDS MCThread, Naturals, Sequences, TLAPS

USE ThreadAssumptions DEF Goto, Owner, Attr

(***************************************************************************)
(* The strengthening.  Everything turns on who is to free what w was       *)
(* given: its creator, from run() to the end of join() or detach(), or w   *)
(* itself once detached.                                                   *)
(***************************************************************************)
InHands == {"clone", "have", "load", "futex", "asleep", "retval", "free_tls",
            "free_stack"}

\* Nobody has unmapped w's stack yet; HasTls: nor its TLS block.
HasStack(w) ==
  \/ op[w] \in InHands
  \/ /\ op[w] = "detached"
     /\ pc[w] \in {"running", "exit_cas", "self_tls", "self_stack"}

HasTls(w) == HasStack(w) /\ op[w] # "free_stack" /\ pc[w] # "self_stack"

\* What w points to is mapped, is about w, and says truly whose memory it is.
Memory ==
  /\ UserStacks \subseteq mapped
  /\ \A w \in Threads : HasStack(w) =>
       /\ Valid(w)
       /\ Attr(w).owned_stack <=> stack[w] \notin UserStacks
       /\ Attr(w).retval = ret[w]
  /\ \A w \in Threads : w \in tls <=> HasTls(w)
  /\ \A a \in mapped \ UserStacks :
       /\ attrib[a].tls \in Threads
       /\ HasStack(attrib[a].tls) /\ stack[attrib[a].tls] = a

\* How far w itself has come, given where its creator is.
Progress ==
  \A w \in Threads :
    /\ op[w] \in {"new", "clone"} => pc[w] = "none" /\ ret[w] = NoValue
    /\ pc[w] = "none" => op[w] \in {"new", "clone", "done"} \/ goal[w] = "undo"
    /\ op[w] \in {"have", "load", "futex", "asleep"} =>
         \/ Attr(w).detach_state = "JOINABLE" /\ pc[w] \in {"running", "exit_cas"}
         \/ /\ Attr(w).detach_state = "EXITING"
            /\ pc[w] \in {"sys_exit", "kernel_wake", "dead"}
    /\ op[w] = "detached" => pc[w] # "none"
    /\ op[w] = "detached" /\ HasStack(w) => Attr(w).detach_state = "DETACHED"
    /\ op[w] = "clone" => Attr(w).detach_state \in {"JOINABLE", "DETACHED"}
    /\ pc[w] \in {"self_tls", "self_stack", "set_tid"} => op[w] = "detached"
    /\ op[w] = "done" => pc[w] \in {"none", "kernel_wake", "dead"}

\* Why the creator is in wait() or in the cleanup, and what it may rely on there.
Purpose ==
  \A w \in Threads :
    /\ op[w] \in {"load", "futex", "asleep"} =>
         /\ goal[w] \in {"join", "detach", "wait"}
         /\ goal[w] = "detach" => Attr(w).detach_state = "EXITING"
         /\ ~Attr(w).clear_tid => pc[w] \in {"kernel_wake", "dead"}
    /\ op[w] \in {"clone", "have"} /\ ~Attr(w).clear_tid =>
         pc[w] \in {"kernel_wake", "dead"}
    /\ op[w] \in {"new", "clone"} => goal[w] = "none"
    /\ op[w] = "have" => goal[w] \in {"none", "wait"}
    /\ op[w] = "retval" => goal[w] = "join" /\ pc[w] \in {"kernel_wake", "dead"}
    /\ op[w] \in {"free_tls", "free_stack"} =>
         \/ goal[w] = "undo" /\ pc[w] = "none"
         \/ goal[w] \in {"join", "detach"} /\ pc[w] \in {"kernel_wake", "dead"}
    /\ goal[w] = "join" /\ op[w] \in {"free_tls", "free_stack", "done"} =>
         got[w] = ret[w]

\* Where the kernel will write when w exits: w's own word, or nowhere.
KernelWord ==
  \A w \in Threads :
    /\ pc[w] \in {"running", "exit_cas"} => tid_addr[w] = stack[w]
    /\ pc[w] = "sys_exit" =>
         tid_addr[w] = (IF op[w] = "detached" THEN NoStack ELSE stack[w])

ThreadInv == TypeOK /\ Memory /\ Progress /\ Purpose /\ KernelWord

LEMMA ThreadInvInit == Init => ThreadInv
<1> SUFFICES ASSUME Init PROVE ThreadInv
  OBVIOUS
<1>1. TypeOK
  BY DEF Init, TypeOK, Blank, ThreadAttributes, DetachState, PC, OP
<1>2. Memory /\ Progress /\ Purpose /\ KernelWord
  BY DEF Init, Memory, Progress, Purpose, KernelWord, HasStack, HasTls, InHands
<1> QED
  BY <1>1, <1>2 DEF ThreadInv

\* Two threads whose stacks are there have different ones.
LEMMA StacksDiffer ==
  ASSUME Memory, NEW w \in Threads, HasStack(w)
  PROVE  \A u \in Threads \ {w} : HasStack(u) => stack[u] # stack[w]
BY DEF Memory, Valid

LEMMA AttributesType ==
  ASSUME NEW r \in ThreadAttributes
  PROVE  /\ \A s \in DetachState : [r EXCEPT !.detach_state = s] \in ThreadAttributes
         /\ [r EXCEPT !.clear_tid = FALSE] \in ThreadAttributes
BY DEF ThreadAttributes

\* What a compare-and-exchange of detach_state that succeeds leaves alone.
LEMMA StoreDetachState ==
  ASSUME TypeOK, NEW a \in Stacks, NEW s \in DetachState,
         attrib' = [attrib EXCEPT ![a].detach_state = s]
  PROVE  /\ attrib' \in [Stacks -> ThreadAttributes]
         /\ attrib'[a].detach_state = s
         /\ attrib'[a].owned_stack = attrib[a].owned_stack
         /\ attrib'[a].tls = attrib[a].tls
         /\ attrib'[a].retval = attrib[a].retval
         /\ attrib'[a].clear_tid = attrib[a].clear_tid
         /\ \A b \in Stacks \ {a} : attrib'[b] = attrib[b]
<1>1. attrib[a] \in ThreadAttributes
  BY DEF TypeOK
<1>2. [attrib[a] EXCEPT !.detach_state = s] \in ThreadAttributes
  BY <1>1, AttributesType
<1>3. attrib' \in [Stacks -> ThreadAttributes]
  BY <1>2 DEF TypeOK
<1> QED
  BY <1>1, <1>3 DEF TypeOK, ThreadAttributes

LEMMA ThreadInvStep ==
  ASSUME ThreadInv, [Next]_vars PROVE ThreadInv'
<1> USE DEF ThreadInv, TypeOK, Memory, Progress, Purpose, KernelWord, HasStack, HasTls,
            InHands, Valid, PC, OP, DetachState, ThreadAttributes
<1>1. ASSUME NEW w \in Threads, NEW a \in Stacks, NEW owned \in BOOLEAN,
             NEW detached \in BOOLEAN, Run(w, a, owned, detached)
      PROVE  ThreadInv'
  BY <1>1, SMTT(90) DEF Run, StackFor
<1>2. ASSUME NEW w \in Threads, NEW v \in Values, RunnerReturns(w, v)
      PROVE  ThreadInv'
  BY <1>2, SMTT(90) DEF RunnerReturns
<1>3. ASSUME NEW w \in Threads, ExitCas(w) PROVE ThreadInv'
  <2>1. HasStack(w) /\ stack[w] \in Stacks
    BY <1>3 DEF ExitCas
  <2>2. \A u \in Threads \ {w} : HasStack(u) => stack[u] # stack[w]
    BY <2>1, StacksDiffer
  <2>3. CASE Attr(w).detach_state = "JOINABLE"
    <3>1. /\ attrib' = [attrib EXCEPT ![stack[w]].detach_state = "EXITING"]
          /\ pc[w] = "exit_cas" /\ pc' = [pc EXCEPT ![w] = "sys_exit"]
          /\ UNCHANGED <<mapped, tls, stack, op, goal, tid_addr, ret, got>>
      BY <1>3, <2>3 DEF ExitCas
    <3>2. TypeOK'
      BY <2>1, <3>1, StoreDetachState DEF TypeOK
    <3>3. Memory'
      BY <2>1, <2>2, <2>3, <3>1, StoreDetachState, SMTT(90)
    <3>4. Progress'
      BY <2>1, <2>2, <2>3, <3>1, StoreDetachState, SMTT(90)
    <3>5. Purpose'
      BY <2>1, <2>2, <2>3, <3>1, StoreDetachState, SMTT(90)
    <3>6. KernelWord'
      BY <2>3, <3>1
    <3> QED
      BY <3>2, <3>3, <3>4, <3>5, <3>6
  <2>4. CASE Attr(w).detach_state # "JOINABLE"
    <3>1. /\ pc[w] = "exit_cas" /\ pc' = [pc EXCEPT ![w] = "self_tls"]
          /\ UNCHANGED <<attrib, mapped, tls, stack, op, goal, tid_addr, ret, got>>
      BY <1>3, <2>4 DEF ExitCas
    <3>2. op[w] = "detached"
      BY <2>1, <2>4, <3>1
    <3>3. TypeOK'
      BY <2>1, <3>1, <3>2, SMTT(90)
    <3>4. Memory'
      BY <2>1, <3>1, <3>2, SMTT(90)
    <3>5. Progress'
      BY <2>1, <3>1, <3>2, SMTT(90)
    <3>6. Purpose'
      BY <2>1, <3>1, <3>2, SMTT(90)
    <3>7. KernelWord'
      BY <2>1, <3>1, <3>2, SMTT(90)
    <3> QED
      BY <3>3, <3>4, <3>5, <3>6, <3>7, Zenon DEF ThreadInv
  <2> QED
    BY <2>3, <2>4
<1>4. ASSUME NEW w \in Threads, Detach(w) PROVE ThreadInv'
  <2>1. HasStack(w) /\ stack[w] \in Stacks
    BY <1>4 DEF Detach
  <2>2. \A u \in Threads \ {w} : HasStack(u) => stack[u] # stack[w]
    BY <2>1, StacksDiffer
  <2>3. CASE Attr(w).detach_state = "JOINABLE"
    <3>1. /\ attrib' = [attrib EXCEPT ![stack[w]].detach_state = "DETACHED"]
          /\ op[w] = "have" /\ op' = [op EXCEPT ![w] = "detached"]
          /\ UNCHANGED <<mapped, tls, stack, pc, goal, tid_addr, ret, got>>
      BY <1>4, <2>3 DEF Detach
    <3>2. TypeOK'
      BY <2>1, <3>1, StoreDetachState DEF TypeOK
    <3>3. Memory'
      BY <2>1, <2>2, <2>3, <3>1, StoreDetachState, SMTT(90)
    <3>4. Progress'
      BY <2>1, <2>2, <2>3, <3>1, StoreDetachState, SMTT(90)
    <3>5. Purpose'
      BY <2>1, <2>2, <2>3, <3>1, StoreDetachState, SMTT(90)
    <3>6. KernelWord'
      BY <2>3, <3>1
    <3> QED
      BY <3>2, <3>3, <3>4, <3>5, <3>6
  <2>4. CASE Attr(w).detach_state # "JOINABLE"
    <3>1. /\ op[w] = "have" /\ op' = [op EXCEPT ![w] = "load"]
          /\ goal' = [goal EXCEPT ![w] = "detach"]
          /\ UNCHANGED <<mapped, tls, attrib, stack, pc, tid_addr, ret, got>>
      BY <1>4, <2>4 DEF Detach
    <3>2. TypeOK'
      BY <2>1, <2>4, <3>1, SMTT(90)
    <3>3. Memory'
      BY <2>1, <2>4, <3>1, SMTT(90)
    <3>4. Progress'
      BY <2>1, <2>4, <3>1, SMTT(90)
    <3>5. Purpose'
      BY <2>1, <2>4, <3>1, SMTT(90)
    <3>6. KernelWord'
      BY <2>1, <2>4, <3>1, SMTT(90)
    <3> QED
      BY <3>2, <3>3, <3>4, <3>5, <3>6, Zenon DEF ThreadInv
  <2> QED
    BY <2>3, <2>4
<1>5. ASSUME NEW w \in Threads, KernelClears(w) PROVE ThreadInv'
  <2>1. CASE op[w] = "detached"
    BY <1>5, <2>1, SMTT(90) DEF KernelClears
  <2>2. CASE op[w] # "detached"
    <3>1. HasStack(w) /\ tid_addr[w] = stack[w]
      BY <1>5, <2>2 DEF KernelClears
    <3>2. \A u \in Threads \ {w} : HasStack(u) => stack[u] # stack[w]
      BY <3>1, StacksDiffer
    <3>3. attrib' \in [Stacks -> ThreadAttributes]
      <4> HIDE DEF ThreadAttributes
      <4>1. ASSUME NEW a \in Stacks
            PROVE  [attrib[a] EXCEPT !.clear_tid = FALSE] \in ThreadAttributes
        <5>1. attrib[a] \in ThreadAttributes
          OBVIOUS
        <5> QED
          BY <5>1, AttributesType
      <4> QED
        BY <1>5, <4>1 DEF KernelClears
    <3>4. TypeOK'
      <4> HIDE DEF ThreadAttributes
      <4> QED
        BY <1>5, <3>3 DEF KernelClears
    <3>5. Memory'
      BY <1>5, <3>1, <3>2, SMTT(90) DEF KernelClears
    <3>6. Progress'
      BY <1>5, <3>1, <3>2 DEF KernelClears
    <3>7. Purpose'
      BY <1>5, <3>1, <3>2 DEF KernelClears
    <3>8. KernelWord'
      BY <1>5, <3>1, <3>2 DEF KernelClears
    <3> QED
      BY <3>4, <3>5, <3>6, <3>7, <3>8
  <2> QED
    BY <2>1, <2>2
<1>6. ASSUME NEW w \in Threads, AllocFails(w) PROVE ThreadInv'
  <2>1. TypeOK'
    BY <1>6, SMTT(90) DEF AllocFails
  <2>2. Memory'
    BY <1>6, SMTT(90) DEF AllocFails
  <2>3. Progress'
    BY <1>6, SMTT(90) DEF AllocFails
  <2>4. Purpose'
    BY <1>6, SMTT(90) DEF AllocFails
  <2>5. KernelWord'
    BY <1>6, SMTT(90) DEF AllocFails
  <2> QED
    BY <2>1, <2>2, <2>3, <2>4, <2>5, Zenon DEF ThreadInv
<1>7. ASSUME NEW w \in Threads, Clone(w) PROVE ThreadInv'
  <2>1. TypeOK'
    BY <1>7, SMTT(90) DEF Clone
  <2>2. Memory'
    BY <1>7, SMTT(90) DEF Clone
  <2>3. Progress'
    BY <1>7, SMTT(90) DEF Clone
  <2>4. Purpose'
    BY <1>7, SMTT(90) DEF Clone
  <2>5. KernelWord'
    BY <1>7, SMTT(90) DEF Clone
  <2> QED
    BY <2>1, <2>2, <2>3, <2>4, <2>5, Zenon DEF ThreadInv
<1>8. ASSUME NEW w \in Threads, CloneFails(w) PROVE ThreadInv'
  BY <1>8, SMTT(90) DEF CloneFails
<1>9. ASSUME NEW w \in Threads, CleanupTls(w) PROVE ThreadInv'
  BY <1>9, SMTT(90) DEF CleanupTls, FreeTls
<1>10. ASSUME NEW w \in Threads, CleanupStack(w) PROVE ThreadInv'
  BY <1>10, SMTT(90) DEF CleanupStack, FreeStack
<1>11. ASSUME NEW w \in Threads, ExitCalled(w) PROVE ThreadInv'
  <2>1. TypeOK'
    BY <1>11, SMTT(90) DEF ExitCalled
  <2>2. Memory'
    BY <1>11, SMTT(90) DEF ExitCalled
  <2>3. Progress'
    BY <1>11, SMTT(90) DEF ExitCalled
  <2>4. Purpose'
    BY <1>11, SMTT(90) DEF ExitCalled
  <2>5. KernelWord'
    BY <1>11, SMTT(90) DEF ExitCalled
  <2> QED
    BY <2>1, <2>2, <2>3, <2>4, <2>5, Zenon DEF ThreadInv
<1>12. ASSUME NEW w \in Threads, SelfTls(w) PROVE ThreadInv'
  BY <1>12, SMTT(90) DEF SelfTls, FreeTls
<1>13. ASSUME NEW w \in Threads, SelfStack(w) PROVE ThreadInv'
  BY <1>13, SMTT(90) DEF SelfStack, FreeStack
<1>14. ASSUME NEW w \in Threads, SetTidAddress(w) PROVE ThreadInv'
  <2>1. TypeOK'
    BY <1>14, SMTT(90) DEF SetTidAddress
  <2>2. Memory'
    BY <1>14, SMTT(90) DEF SetTidAddress
  <2>3. Progress'
    BY <1>14, SMTT(90) DEF SetTidAddress
  <2>4. Purpose'
    BY <1>14, SMTT(90) DEF SetTidAddress
  <2>5. KernelWord'
    BY <1>14, SMTT(90) DEF SetTidAddress
  <2> QED
    BY <2>1, <2>2, <2>3, <2>4, <2>5, Zenon DEF ThreadInv
<1>15. ASSUME NEW w \in Threads, KernelWakes(w) PROVE ThreadInv'
  <2>1. TypeOK'
    BY <1>15, SMTT(90) DEF KernelWakes, Sleepers
  <2>2. Memory'
    BY <1>15, SMTT(90) DEF KernelWakes, Sleepers
  <2>3. Progress'
    BY <1>15, SMTT(90) DEF KernelWakes, Sleepers
  <2>4. Purpose'
    BY <1>15, SMTT(90) DEF KernelWakes, Sleepers
  <2>5. KernelWord'
    BY <1>15, SMTT(90) DEF KernelWakes, Sleepers
  <2> QED
    BY <2>1, <2>2, <2>3, <2>4, <2>5, Zenon DEF ThreadInv
<1>16. ASSUME NEW w \in Threads, StartJoin(w) PROVE ThreadInv'
  <2>1. TypeOK'
    BY <1>16, SMTT(90) DEF StartJoin
  <2>2. Memory'
    BY <1>16, SMTT(90) DEF StartJoin
  <2>3. Progress'
    BY <1>16, SMTT(90) DEF StartJoin
  <2>4. Purpose'
    BY <1>16, SMTT(90) DEF StartJoin
  <2>5. KernelWord'
    BY <1>16, SMTT(90) DEF StartJoin
  <2> QED
    BY <2>1, <2>2, <2>3, <2>4, <2>5, Zenon DEF ThreadInv
<1>17. ASSUME NEW w \in Threads, StartWait(w) PROVE ThreadInv'
  <2>1. TypeOK'
    BY <1>17, SMTT(90) DEF StartWait
  <2>2. Memory'
    BY <1>17, SMTT(90) DEF StartWait
  <2>3. Progress'
    BY <1>17, SMTT(90) DEF StartWait
  <2>4. Purpose'
    BY <1>17, SMTT(90) DEF StartWait
  <2>5. KernelWord'
    BY <1>17, SMTT(90) DEF StartWait
  <2> QED
    BY <2>1, <2>2, <2>3, <2>4, <2>5, Zenon DEF ThreadInv
<1>18. ASSUME NEW w \in Threads, WaitLoads(w) PROVE ThreadInv'
  <2>1. TypeOK'
    BY <1>18, SMTT(90) DEF WaitLoads, AfterWait
  <2>2. Memory'
    BY <1>18, SMTT(90) DEF WaitLoads, AfterWait
  <2>3. Progress'
    BY <1>18, SMTT(90) DEF WaitLoads, AfterWait
  <2>4. Purpose'
    BY <1>18, SMTT(90) DEF WaitLoads, AfterWait
  <2>5. KernelWord'
    BY <1>18, SMTT(90) DEF WaitLoads, AfterWait
  <2> QED
    BY <2>1, <2>2, <2>3, <2>4, <2>5, Zenon DEF ThreadInv
<1>19. ASSUME NEW w \in Threads, WaitSleeps(w) PROVE ThreadInv'
  <2>1. TypeOK'
    BY <1>19, SMTT(90) DEF WaitSleeps
  <2>2. Memory'
    BY <1>19, SMTT(90) DEF WaitSleeps
  <2>3. Progress'
    BY <1>19, SMTT(90) DEF WaitSleeps
  <2>4. Purpose'
    BY <1>19, SMTT(90) DEF WaitSleeps
  <2>5. KernelWord'
    BY <1>19, SMTT(90) DEF WaitSleeps
  <2> QED
    BY <2>1, <2>2, <2>3, <2>4, <2>5, Zenon DEF ThreadInv
<1>20. ASSUME NEW w \in Threads, WaitInterrupted(w) PROVE ThreadInv'
  <2>1. TypeOK'
    BY <1>20, SMTT(90) DEF WaitInterrupted
  <2>2. Memory'
    BY <1>20, SMTT(90) DEF WaitInterrupted
  <2>3. Progress'
    BY <1>20, SMTT(90) DEF WaitInterrupted
  <2>4. Purpose'
    BY <1>20, SMTT(90) DEF WaitInterrupted
  <2>5. KernelWord'
    BY <1>20, SMTT(90) DEF WaitInterrupted
  <2> QED
    BY <2>1, <2>2, <2>3, <2>4, <2>5, Zenon DEF ThreadInv
<1>21. ASSUME NEW w \in Threads, JoinTakesRetval(w) PROVE ThreadInv'
  <2>1. TypeOK'
    BY <1>21, SMTT(90) DEF JoinTakesRetval
  <2>2. Memory'
    BY <1>21, SMTT(90) DEF JoinTakesRetval
  <2>3. Progress'
    BY <1>21, SMTT(90) DEF JoinTakesRetval
  <2>4. Purpose'
    BY <1>21, SMTT(90) DEF JoinTakesRetval
  <2>5. KernelWord'
    BY <1>21, SMTT(90) DEF JoinTakesRetval
  <2> QED
    BY <2>1, <2>2, <2>3, <2>4, <2>5, Zenon DEF ThreadInv
<1>22. CASE UNCHANGED vars
  <2>1. TypeOK'
    BY <1>22, SMTT(90) DEF vars
  <2>2. Memory'
    BY <1>22, SMTT(90) DEF vars
  <2>3. Progress'
    BY <1>22, SMTT(90) DEF vars
  <2>4. Purpose'
    BY <1>22, SMTT(90) DEF vars
  <2>5. KernelWord'
    BY <1>22, SMTT(90) DEF vars
  <2> QED
    BY <2>1, <2>2, <2>3, <2>4, <2>5, Zenon DEF ThreadInv
<1> HIDE DEF ThreadInv
<1> QED
  BY <1>1, <1>2, <1>3, <1>4, <1>5, <1>6, <1>7, <1>8, <1>9, <1>10, <1>11,
     <1>12, <1>13, <1>14, <1>15, <1>16, <1>17, <1>18, <1>19, <1>20, <1>21, <1>22
     DEF Next, ThreadStep, OwnerStep, OwnerCall

LEMMA ThreadInvariant == Spec => []ThreadInv
<1>1. ThreadInv /\ [Next]_vars => ThreadInv'
  BY ThreadInvStep
<1> QED
  BY <1>1, ThreadInvInit, PTL DEF Spec

\* For every set of threads and stacks, every variable of Thread keeps its type.
THEOREM ThreadTypeCorrect == Spec => []TypeOK
<1>1. ThreadInv => TypeOK
  BY DEF ThreadInv
<1> QED
  BY <1>1, ThreadInvariant, PTL

\* For every set of threads and stacks, and whatever addresses mmap returns again, a
\* thread that runs has the stack it was created with to itself.
THEOREM ThreadOwnsStack == Spec => []ThreadOwnsItsStack
<1>1. ThreadInv => ThreadOwnsItsStack
  BY DEF ThreadInv, TypeOK, Memory, Progress, Purpose, HasStack, HasTls, InHands,
         ThreadOwnsItsStack, OP
<1> QED
  BY <1>1, ThreadInvariant, PTL

\* For every set of threads and stacks, neither a thread nor the one that joins,
\* detaches or waits for it ever uses a stack that has been unmapped or given to
\* another thread.
THEOREM ThreadMemorySafe == Spec => []NoUseAfterFree
<1>1. ThreadInv => NoUseAfterFree
  BY DEF ThreadInv, TypeOK, Memory, HasStack, InHands, NoUseAfterFree, OP
<1> QED
  BY <1>1, ThreadInvariant, PTL

\* For every set of threads and stacks, when a thread exits the kernel writes to that
\* thread's own clear_tid word or nowhere.
THEOREM ThreadExitSafe == Spec => []KernelWritesOwnWord
<1>1. ThreadInv => KernelWritesOwnWord
  BY DEF ThreadInv, TypeOK, Memory, Progress, Purpose, KernelWord, HasStack, InHands,
         KernelWritesOwnWord, OP
<1> QED
  BY <1>1, ThreadInvariant, PTL

\* For every set of threads and stacks, whoever frees a thread's memory from outside
\* does so after the kernel has announced the thread's exit.
THEOREM ThreadCleansUpAfterExit == Spec => []CleanupAfterExit
<1>1. ThreadInv => CleanupAfterExit
  BY DEF ThreadInv, Purpose, CleanupAfterExit
<1> QED
  BY <1>1, ThreadInvariant, PTL

\* For every set of threads and stacks, once a thread is over and joined, detached or
\* not created at all, what run() mapped for it is unmapped, and what the caller
\* provided is not.
THEOREM ThreadLeaksNothing == Spec => []NothingLeaks
<1>1. ThreadInv => NothingLeaks
  BY DEF ThreadInv, Memory, HasStack, HasTls, InHands, NothingLeaks
<1> QED
  BY <1>1, ThreadInvariant, PTL

\* For every set of threads, stacks and values, join() returns what the thread
\* function returned.
THEOREM ThreadJoinReturnsResult == Spec => []JoinReturnsResult
<1>1. ThreadInv => JoinReturnsResult
  BY DEF ThreadInv, Purpose, JoinReturnsResult
<1> QED
  BY <1>1, ThreadInvariant, PTL

HIDE ThreadAssumptions DEF Goto, Owner, Attr

(***************************************************************************)
(* The callbacks of a thread's exit                                        *)
(***************************************************************************)
ExitSpec == Exit!Init /\ [][Exit!Next]_(Exit!vars)

Slots == {<<NoDtor>>} \cup {<<d, v>> : d \in Dtors \cup {NoDtor}, v \in Payloads}

ExitTypes ==
  /\ units \in [Exit!Keys -> [active : BOOLEAN, dtor : Dtors \cup {NoDtor}]]
  /\ tss_values \in [Threads -> [Exit!Keys -> Slots]]
  /\ expected \in [Threads -> [Exit!Keys -> Slots]]
  /\ callback_list \in [Threads -> Seq(Callbacks)] /\ registered \in [Threads -> SUBSET Callbacks]
  /\ called \in [Threads -> Seq(Slots \cup {<<c>> : c \in Callbacks})]
  /\ tss_pc \in [Threads -> {"idle", "set", "drain", "in_callback", "dtors", "in_dtor", "exited"}]
  /\ tss_home \in [Threads -> {"idle", "in_callback", "in_dtor"}]
  /\ key \in [Threads -> Nat] /\ val \in [Threads -> Payloads \cup {NoDtor}]
  /\ tss_i \in [Threads -> 0 .. TSS_KEY_COUNT] /\ torn \in BOOLEAN

\* Where t is, or will be when its set_tss_value returns.
At(t) == IF tss_pc[t] = "set" THEN tss_home[t] ELSE tss_pc[t]

\* The callbacks are drained before the first destructor, and the loop is over at the end.
InTurn(t) ==
  /\ At(t) \in {"idle", "in_callback", "drain"} => tss_i[t] = 0
  /\ At(t) \in {"dtors", "in_dtor", "exited"} => callback_list[t] = <<>>
  /\ tss_pc[t] = "exited" => tss_i[t] = TSS_KEY_COUNT

\* Between its two critical sections set_tss_value relies on a key that is in use.
Setting(t) ==
  tss_pc[t] = "set" => key[t] \in Exit!Keys /\ val[t] \in Payloads /\ units[key[t]].active

\* Under the keys the loop has still to visit is what was set last, or will be.
Stored(t) ==
  \A k \in Exit!Keys : k >= tss_i[t] =>
    expected[t][k] = IF tss_pc[t] = "set" /\ key[t] = k THEN <<units[k].dtor, val[t]>>
                                                      ELSE tss_values[t][k]

Passed(e, j) == {k \in Exit!Keys : k < j /\ e[k][1] # NoDtor}

\* The callbacks of r are the first n calls of c and those left in l, each once.
Shared(n, c, l, r) ==
  /\ \A x \in r : (\E p \in 1 .. n : c[p] = <<x>>) \/ (\E q \in DOMAIN l : l[q] = x)
  /\ \A p \in 1 .. n : \E x \in r : c[p] = <<x>>
  /\ \A q \in DOMAIN l : l[q] \in r
  /\ \A p, q \in 1 .. n : c[p] = c[q] => p = q
  /\ \A p, q \in DOMAIN l : l[p] = l[q] => p = q
  /\ \A p \in 1 .. n, q \in DOMAIN l : c[p] # <<l[q]>>

\* What has been called: callbacks, then the destructors of the keys below j.
Ran(c, l, r, e, j) ==
  \E n \in 0 .. Len(c) : Shared(n, c, l, r) /\ Exit!InKeyOrder(c, n, e, Passed(e, j))

Good(t) ==
  /\ InTurn(t) /\ Setting(t) /\ Stored(t)
  /\ Ran(called[t], callback_list[t], registered[t], expected[t], tss_i[t])

\* Until a key is deleted under a set_tss_value.
ExitInv == ExitTypes /\ \A t \in Threads : Good(t)

\* add_callback: one more is left to call.
LEMMA RanRegister ==
  ASSUME NEW c, NEW l \in Seq(Callbacks), NEW r, NEW e, NEW j, NEW x \in Callbacks,
         Ran(c, l, r, e, j), x \notin r
  PROVE  Ran(c, Append(l, x), r \cup {x}, e, j)
<1>1. PICK n \in 0 .. Len(c) : Shared(n, c, l, r) /\ Exit!InKeyOrder(c, n, e, Passed(e, j))
  BY Zenon DEF Ran
<1> PICK m : m = Append(l, x)
  BY Zenon
<1> PICK s : s = r \cup {x}
  BY Zenon
<1>2. /\ Len(l) \in Nat /\ DOMAIN l = 1 .. Len(l) /\ DOMAIN m = 1 .. Len(l) + 1
      /\ m[Len(l) + 1] = x /\ \A q \in DOMAIN l : m[q] = l[q]
  OBVIOUS
<1>3. \A q \in DOMAIN m : q = Len(l) + 1 \/ q \in DOMAIN l
  BY <1>2
<1>4. \A q \in DOMAIN l : q \in DOMAIN m /\ l[q] # x /\ l[q] \in r
  BY <1>1, <1>2 DEF Shared
<1>5. Len(l) + 1 \in DOMAIN m
  BY <1>2
<1>6. \A p \in 1 .. n : c[p] # <<x>>
  BY <1>1 DEF Shared
<1>7. Shared(n, c, m, s)
  <2>1. \A y \in s : (\E p \in 1 .. n : c[p] = <<y>>) \/ (\E q \in DOMAIN m : m[q] = y)
    BY <1>1, <1>2, <1>4, <1>5 DEF Shared
  <2>2. \A p \in 1 .. n : \E y \in s : c[p] = <<y>>
    BY <1>1 DEF Shared
  <2>3. \A q \in DOMAIN m : m[q] \in s
    BY <1>2, <1>3, <1>4
  <2>4. \A p, q \in DOMAIN m : m[p] = m[q] => p = q
    BY <1>1, <1>2, <1>3, <1>4 DEF Shared
  <2>5. \A p \in 1 .. n, q \in DOMAIN m : c[p] # <<m[q]>>
    BY <1>1, <1>2, <1>3, <1>6 DEF Shared
  <2>6. \A p, q \in 1 .. n : c[p] = c[q] => p = q
    BY <1>1 DEF Shared
  <2> QED
    BY <2>1, <2>2, <2>3, <2>4, <2>5, <2>6, Zenon DEF Shared
<1> QED
  BY <1>1, <1>7, Zenon DEF Ran

\* call() takes the last of the list, before any destructor.
LEMMA RanDrain ==
  ASSUME NEW C, NEW c \in Seq(C), NEW l \in Seq(Callbacks), l # <<>>, NEW r, NEW e,
         Ran(c, l, r, e, 0), <<l[Len(l)]>> \in C, TSS_KEY_COUNT \in Nat
  PROVE  Ran(Append(c, <<l[Len(l)]>>), SubSeq(l, 1, Len(l) - 1), r, e, 0)
<1>1. PICK n \in 0 .. Len(c) : Shared(n, c, l, r) /\ Exit!InKeyOrder(c, n, e, Passed(e, 0))
  BY Zenon DEF Ran
<1>2. Passed(e, 0) = {}
  BY DEF Passed, Exit!Keys
<1>3. Len(c) \in Nat /\ n = Len(c)
  <2>1. \A p \in n + 1 .. Len(c) : FALSE
    BY <1>1, <1>2 DEF Exit!InKeyOrder
  <2>2. Len(c) \in Nat
    OBVIOUS
  <2> QED
    BY <2>1, <2>2
<1> PICK x : x = l[Len(l)]
  BY Zenon
<1> PICK d : d = Append(c, <<x>>)
  BY Zenon
<1> PICK k : k = SubSeq(l, 1, Len(l) - 1)
  BY Zenon
<1>4. /\ Len(d) = n + 1 /\ d[n + 1] = <<x>> /\ \A p \in 1 .. n : d[p] = c[p]
  BY <1>3
<1>5. /\ Len(l) \in Nat \ {0} /\ DOMAIN l = 1 .. Len(l) /\ DOMAIN k = 1 .. Len(l) - 1
      /\ \A q \in DOMAIN k : k[q] = l[q]
  OBVIOUS
<1>6. \A q \in DOMAIN l : q \in DOMAIN k \/ q = Len(l)
  BY <1>5
<1>7. Len(l) \in DOMAIN l /\ \A q \in DOMAIN k : q \in DOMAIN l /\ q # Len(l)
  BY <1>5
<1>8. \A p \in 1 .. n + 1 : p = n + 1 \/ p \in 1 .. n
  BY <1>3
<1>9. n + 1 \in 1 .. n + 1 /\ \A p \in 1 .. n : p \in 1 .. n + 1
  BY <1>3
<1>10. x \in r /\ \A p \in 1 .. n : c[p] # <<x>>
  BY <1>1, <1>7 DEF Shared
<1>11. Shared(n + 1, d, k, r)
  <2>1. ASSUME NEW y \in r
        PROVE  (\E p \in 1 .. n + 1 : d[p] = <<y>>) \/ (\E q \in DOMAIN k : k[q] = y)
    <3>1. CASE \E p \in 1 .. n : c[p] = <<y>>
      BY <1>4, <1>9, <3>1, Zenon
    <3>2. CASE \E q \in DOMAIN l : l[q] = y
      BY <1>4, <1>5, <1>6, <1>9, <3>2
    <3> QED
      BY <1>1, <3>1, <3>2 DEF Shared
  <2>2. \A p \in 1 .. n + 1 : \E y \in r : d[p] = <<y>>
    BY <1>1, <1>4, <1>8, <1>10 DEF Shared
  <2>3. \A q \in DOMAIN k : k[q] \in r
    BY <1>1, <1>5, <1>7 DEF Shared
  <2>4. \A p, q \in 1 .. n + 1 : d[p] = d[q] => p = q
    BY <1>1, <1>4, <1>8, <1>10 DEF Shared
  <2>5. \A p, q \in DOMAIN k : k[p] = k[q] => p = q
    BY <1>1, <1>5, <1>7 DEF Shared
  <2>6. ASSUME NEW p \in 1 .. n + 1, NEW q \in DOMAIN k PROVE d[p] # <<k[q]>>
    <3>1. k[q] = l[q] /\ l[q] # x
      BY <1>1, <1>5, <1>7 DEF Shared
    <3>2. CASE p = n + 1
      BY <1>4, <3>1, <3>2
    <3>3. CASE p \in 1 .. n
      <4>1. q \in DOMAIN l /\ d[p] = c[p]
        BY <1>4, <1>7, <3>3, Zenon
      <4>2. c[p] # <<l[q]>>
        BY <1>1, <3>3, <4>1, Zenon DEF Shared
      <4> QED
        BY <3>1, <4>1, <4>2, Zenon
    <3> QED
      BY <1>8, <3>2, <3>3
  <2> QED
    BY <2>1, <2>2, <2>3, <2>4, <2>5, <2>6, Zenon DEF Shared
<1>12. Exit!InKeyOrder(d, n + 1, e, Passed(e, 0))
  <2>1. n + 1 + 1 .. Len(d) = {}
    BY <1>3, <1>4
  <2> PICK at : at = [z \in {} |-> 0]
    BY Zenon
  <2>2. at \in [{} -> n + 1 + 1 .. Len(d)]
    OBVIOUS
  <2> QED
    BY <1>2, <2>1, <2>2 DEF Exit!InKeyOrder
<1>13. n + 1 \in 0 .. Len(d)
  BY <1>3, <1>4
<1> QED
  BY <1>11, <1>12, <1>13, Zenon DEF Ran

\* Two calls that the first n of c and of d have in common.
LEMMA SharedPrefix ==
  ASSUME NEW n \in Nat, NEW c, NEW d, NEW l, NEW r, \A p \in 1 .. n : d[p] = c[p], Shared(n, c, l, r)
  PROVE  Shared(n, d, l, r)
  BY DEF Shared

\* A round of the loop over tss_values that calls a destructor.
LEMMA RanDestroy ==
  ASSUME NEW C, NEW c \in Seq(C), NEW l, NEW r, NEW e, NEW j \in Exit!Keys, TSS_KEY_COUNT \in Nat,
         e[j] \in C, Ran(c, l, r, e, j), e[j][1] # NoDtor
  PROVE  Ran(Append(c, e[j]), l, r, e, j + 1)
<1>1. PICK n \in 0 .. Len(c) : Shared(n, c, l, r) /\ Exit!InKeyOrder(c, n, e, Passed(e, j))
  BY Zenon DEF Ran
<1> PICK K : K = Passed(e, j)
  BY Zenon
<1> PICK L : L = Passed(e, j + 1)
  BY Zenon
<1>2. j \in Nat /\ Len(c) \in Nat /\ n \in Nat /\ n <= Len(c)
  BY DEF Exit!Keys
<1>3. L = K \cup {j} /\ \A k \in K : k \in Nat /\ k < j
  BY <1>2 DEF Passed, Exit!Keys
<1>4. PICK at \in [K -> n + 1 .. Len(c)] :
        /\ \A k \in K : c[at[k]] = e[k]
        /\ \A k, m \in K : k < m => at[k] < at[m]
        /\ \A p \in n + 1 .. Len(c) : \E k \in K : at[k] = p
  BY <1>1, Zenon DEF Exit!InKeyOrder
<1> PICK d : d = Append(c, e[j])
  BY Zenon
<1>5. /\ Len(d) = Len(c) + 1 /\ d[Len(c) + 1] = e[j] /\ \A p \in 1 .. Len(c) : d[p] = c[p]
  BY <1>2
<1> PICK bt : bt = [k \in L |-> IF k = j THEN Len(c) + 1 ELSE at[k]]
  BY Zenon
<1>6. bt[j] = Len(c) + 1 /\ \A k \in K : bt[k] = at[k] /\ at[k] \in n + 1 .. Len(c)
  BY <1>3, <1>4
<1>7. \A p \in n + 1 .. Len(c) : p \in 1 .. Len(c) /\ p \in n + 1 .. Len(d) /\ p < Len(c) + 1
  BY <1>2, <1>5
<1>8. Len(c) + 1 \in n + 1 .. Len(d)
  BY <1>2, <1>5
<1>9. bt \in [L -> n + 1 .. Len(d)]
  BY <1>3, <1>6, <1>7, <1>8
<1>10. \A k \in L : d[bt[k]] = e[k]
  BY <1>3, <1>4, <1>5, <1>6, <1>7
<1>11. ASSUME NEW k \in L, NEW m \in L, k < m PROVE bt[k] < bt[m]
  <2>1. k \in K /\ (m \in K \/ m = j)
    BY <1>2, <1>3, <1>11
  <2>2. CASE m \in K
    BY <1>4, <1>6, <1>11, <2>1, <2>2, Zenon
  <2>3. CASE m = j
    BY <1>6, <1>7, <2>1, <2>3
  <2> QED
    BY <2>1, <2>2, <2>3
<1>12. ASSUME NEW p \in n + 1 .. Len(d) PROVE \E k \in L : bt[k] = p
  <2>1. p \in n + 1 .. Len(c) \/ p = Len(c) + 1
    BY <1>2, <1>5
  <2> QED
    BY <1>3, <1>4, <1>6, <2>1, Zenon
<1>13. Exit!InKeyOrder(d, n, e, L)
  BY <1>9, <1>10, <1>11, <1>12, Zenon DEF Exit!InKeyOrder
<1>14. Shared(n, d, l, r) /\ n \in 0 .. Len(d)
  <2>1. \A p \in 1 .. n : d[p] = c[p]
    BY <1>2, <1>5
  <2>2. n \in 0 .. Len(d)
    BY <1>2, <1>5
  <2> QED
    BY <1>1, <1>2, <2>1, <2>2, SharedPrefix, Zenon
<1> QED
  BY <1>13, <1>14, Zenon DEF Ran

\* A round that has nothing to destroy.
LEMMA RanSkip ==
  ASSUME NEW c, NEW l, NEW r, NEW e, NEW j \in Exit!Keys, TSS_KEY_COUNT \in Nat,
         Ran(c, l, r, e, j), ~(e[j][1] # NoDtor)
  PROVE  Ran(c, l, r, e, j + 1)
<1>1. Passed(e, j + 1) = Passed(e, j)
  BY DEF Passed, Exit!Keys
<1> QED
  BY <1>1, Zenon DEF Ran

\* A value set under a key the loop has not passed.
LEMMA RanSet ==
  ASSUME NEW S, NEW c, NEW l, NEW r, NEW e \in [Exit!Keys -> S], NEW j \in Nat, NEW k \in Exit!Keys,
         NEW x, TSS_KEY_COUNT \in Nat, ~(k < j), Ran(c, l, r, e, j)
  PROVE  Ran(c, l, r, [e EXCEPT ![k] = x], j)
<1> PICK f : f = [e EXCEPT ![k] = x]
  BY Zenon
<1>1. \A m \in Exit!Keys : m < j => f[m] = e[m]
  OBVIOUS
<1>2. Passed(f, j) = Passed(e, j)
  BY <1>1 DEF Passed
<1>3. \A m \in Passed(e, j) : f[m] = e[m]
  BY <1>1 DEF Passed
<1>4. ASSUME NEW n \in 0 .. Len(c), Exit!InKeyOrder(c, n, e, Passed(e, j))
      PROVE  Exit!InKeyOrder(c, n, f, Passed(f, j))
  <2> PICK K : K = Passed(e, j)
    BY Zenon
  <2>1. PICK at \in [K -> n + 1 .. Len(c)] :
          /\ \A m \in K : c[at[m]] = e[m]
          /\ \A i, m \in K : i < m => at[i] < at[m]
          /\ \A p \in n + 1 .. Len(c) : \E m \in K : at[m] = p
    BY <1>4, Zenon DEF Exit!InKeyOrder
  <2>2. \A m \in K : c[at[m]] = f[m]
    BY <1>3, <2>1, Zenon
  <2>3. Exit!InKeyOrder(c, n, f, K)
    BY <2>1, <2>2, Zenon DEF Exit!InKeyOrder
  <2> QED
    BY <1>2, <2>3, Zenon
<1> QED
  BY <1>4, Zenon DEF Ran

\* When the loop is over, everything has been called.
LEMMA RanAll ==
  ASSUME NEW c, NEW r, NEW e, TSS_KEY_COUNT \in Nat, Ran(c, <<>>, r, e, TSS_KEY_COUNT)
  PROVE  \E n \in 0 .. Len(c) :
           /\ Exit!EachOnce(c, n, {<<x>> : x \in r})
           /\ Exit!InKeyOrder(c, n, e, {k \in Exit!Keys : e[k][1] # NoDtor})
<1>1. PICK n \in 0 .. Len(c) :
        Shared(n, c, <<>>, r) /\ Exit!InKeyOrder(c, n, e, Passed(e, TSS_KEY_COUNT))
  BY Zenon DEF Ran
<1>2. Passed(e, TSS_KEY_COUNT) = {k \in Exit!Keys : e[k][1] # NoDtor}
  BY DEF Passed, Exit!Keys
<1>3. Exit!EachOnce(c, n, {<<x>> : x \in r})
  <2>1. \A x \in r : \E p \in 1 .. n : c[p] = <<x>>
    BY <1>1 DEF Shared
  <2>2. /\ \A p \in 1 .. n : \E x \in r : c[p] = <<x>>
        /\ \A p, q \in 1 .. n : c[p] = c[q] => p = q
    BY <1>1, Zenon DEF Shared
  <2>3. {c[p] : p \in 1 .. n} = {<<x>> : x \in r}
    <3> PICK S : S = {<<x>> : x \in r}
      BY Zenon
    <3>1. ASSUME NEW p \in 1 .. n PROVE c[p] \in S
      <4>1. PICK x \in r : c[p] = <<x>>
        BY <2>2, Zenon
      <4> QED
        BY <4>1, Zenon
    <3>2. ASSUME NEW y \in S PROVE \E p \in 1 .. n : c[p] = y
      <4>1. PICK x \in r : y = <<x>>
        BY Zenon
      <4> QED
        BY <2>1, <4>1, Zenon
    <3>3. {c[p] : p \in 1 .. n} = S
      BY <3>1, <3>2, Zenon
    <3> QED
      BY <3>3, Zenon
  <2> QED
    BY <2>2, <2>3, Zenon DEF Exit!EachOnce
<1> QED
  BY <1>1, <1>2, <1>3, Zenon

LEMMA SlotsAre == (<<NoDtor>> \in Slots) /\ \A d \in Dtors \cup {NoDtor}, v \in Payloads : <<d, v>> \in Slots
  BY DEF Slots

LEMMA ExitInvInit == ASSUME TSS_KEY_COUNT \in Nat, Exit!Init PROVE ExitInv
<1>1. ExitTypes
  <2>1. tss_values \in [Threads -> [Exit!Keys -> Slots]] /\ expected \in [Threads -> [Exit!Keys -> Slots]]
    BY SlotsAre, Zenon DEF Exit!Init
  <2>2. units \in [Exit!Keys -> [active : BOOLEAN, dtor : Dtors \cup {NoDtor}]]
    BY DEF Exit!Init, Exit!NoUnit
  <2>3. /\ callback_list \in [Threads -> Seq(Callbacks)] /\ registered \in [Threads -> SUBSET Callbacks]
        /\ called \in [Threads -> Seq(Slots \cup {<<c>> : c \in Callbacks})]
    BY DEF Exit!Init
  <2>4. /\ tss_pc \in [Threads -> {"idle", "set", "drain", "in_callback", "dtors", "in_dtor", "exited"}]
        /\ tss_home \in [Threads -> {"idle", "in_callback", "in_dtor"}]
        /\ key \in [Threads -> Nat] /\ val \in [Threads -> Payloads \cup {NoDtor}]
        /\ tss_i \in [Threads -> 0 .. TSS_KEY_COUNT] /\ torn \in BOOLEAN
    <3>1. 0 \in Nat /\ 0 \in 0 .. TSS_KEY_COUNT
      OBVIOUS
    <3> QED
      BY <3>1, Zenon DEF Exit!Init
  <2> QED
    BY <2>1, <2>2, <2>3, <2>4, Zenon DEF ExitTypes
<1>2. ASSUME NEW t \in Threads PROVE Good(t)
  <2>1. InTurn(t) /\ Setting(t) /\ Stored(t)
    BY DEF Exit!Init, InTurn, At, Setting, Stored
  <2>2. /\ called[t] = <<>> /\ callback_list[t] = <<>> /\ registered[t] = {} /\ tss_i[t] = 0
    BY DEF Exit!Init
  <2> PICK e : e = expected[t]
    BY Zenon
  <2>3. Ran(<<>>, <<>>, {}, e, 0)
    <3>1. Shared(0, <<>>, <<>>, {})
      BY DEF Shared
    <3>2. Passed(e, 0) = {}
      BY DEF Passed, Exit!Keys
    <3> PICK at : at = [k \in {} |-> 0]
      BY Zenon
    <3>3. at \in [{} -> 0 + 1 .. Len(<<>>)]
      OBVIOUS
    <3>4. 0 + 1 .. Len(<<>>) = {}
      OBVIOUS
    <3>5. Exit!InKeyOrder(<<>>, 0, e, {})
      BY <3>3, <3>4, Zenon DEF Exit!InKeyOrder
    <3>6. 0 \in 0 .. Len(<<>>)
      OBVIOUS
    <3> QED
      BY <3>1, <3>2, <3>5, <3>6, Zenon DEF Ran
  <2> QED
    BY <2>1, <2>2, <2>3, Zenon DEF Good
<1> QED
  BY <1>1, <1>2 DEF ExitInv

\* Nothing of u changes.
Same(u) ==
  /\ tss_pc'[u] = tss_pc[u] /\ tss_home'[u] = tss_home[u] /\ key'[u] = key[u] /\ val'[u] = val[u]
  /\ tss_i'[u] = tss_i[u] /\ callback_list'[u] = callback_list[u] /\ registered'[u] = registered[u]
  /\ expected'[u] = expected[u] /\ tss_values'[u] = tss_values[u] /\ called'[u] = called[u]

LEMMA GoodStays ==
  ASSUME NEW u \in Threads, Good(u), Same(u),
         tss_pc[u] = "set" => units'[key[u]] = units[key[u]]
  PROVE  Good(u)'
<1>1. InTurn(u)'
  BY DEF Good, Same, InTurn, At
<1>2. Setting(u)'
  BY DEF Good, Same, Setting
<1>3. Stored(u)'
  BY DEF Good, Same, Stored
<1>4. Ran(called'[u], callback_list'[u], registered'[u], expected'[u], tss_i'[u])
  BY Zenon DEF Good, Same
<1> QED
  BY <1>1, <1>2, <1>3, <1>4 DEF Good

LEMMA NewKeyKeeps ==
  ASSUME ExitInv, NEW t \in Threads, NEW d \in Dtors \cup {NoDtor}, Exit!new_key(t, d) PROVE ExitInv'
<1>a. /\ \A u \in Threads : Same(u)
      /\ UNCHANGED <<tss_values, callback_list, tss_pc, tss_home, key, val, tss_i, registered, expected, torn, called>>
  BY DEF Exit!new_key, Same
<1>b. \/ UNCHANGED units
      \/ \E k \in Exit!Keys : ~units[k].active /\ units' = [units EXCEPT ![k] = [active |-> TRUE, dtor |-> d]]
  BY DEF Exit!new_key
<1>c. units \in [Exit!Keys -> [active : BOOLEAN, dtor : Dtors \cup {NoDtor}]]
  BY Zenon DEF ExitInv, ExitTypes
<1>1. ExitTypes'
  <2>1. units' \in [Exit!Keys -> [active : BOOLEAN, dtor : Dtors \cup {NoDtor}]]
    <3>1. [active |-> TRUE, dtor |-> d] \in [active : BOOLEAN, dtor : Dtors \cup {NoDtor}]
      OBVIOUS
    <3> QED
      BY <1>b, <1>c, <3>1, Zenon
  <2> QED
    BY <1>a, <2>1 DEF ExitInv, ExitTypes
<1>2. ASSUME NEW u \in Threads PROVE Good(u)'
  <2>1. Good(u)
    BY Zenon DEF ExitInv
  <2>2. tss_pc[u] = "set" => key[u] \in Exit!Keys /\ units[key[u]].active
    BY <2>1 DEF Good, Setting
  <2>3. tss_pc[u] = "set" => units'[key[u]] = units[key[u]]
    BY <1>b, <1>c, <2>2
  <2> QED
    BY <1>a, <2>1, <2>3, GoodStays, Zenon
<1> QED
  BY <1>a, <1>1, <1>2 DEF ExitInv

LEMMA RemoveKeyKeeps ==
  ASSUME ExitInv, NEW t \in Threads, NEW k \in Exit!Keys, Exit!remove_key(t, k), ~torn'
  PROVE  ExitInv'
<1>a. /\ \A u \in Threads : Same(u)
      /\ UNCHANGED <<tss_values, callback_list, tss_pc, tss_home, key, val, tss_i, registered, expected, called>>
      /\ units' = [units EXCEPT ![k] = [active |-> FALSE, dtor |-> NoDtor]]
      /\ torn' = (torn \/ \E u \in Threads : tss_pc[u] = "set" /\ key[u] = k)
  BY DEF Exit!remove_key, Same, Exit!NoUnit
<1>c. units \in [Exit!Keys -> [active : BOOLEAN, dtor : Dtors \cup {NoDtor}]]
  BY Zenon DEF ExitInv, ExitTypes
<1>1. ExitTypes'
  <2>1. units' \in [Exit!Keys -> [active : BOOLEAN, dtor : Dtors \cup {NoDtor}]]
    BY <1>a, <1>c
  <2>2. torn' \in BOOLEAN
    BY <1>a, Zenon
  <2> QED
    BY <1>a, <2>1, <2>2 DEF ExitInv, ExitTypes
<1>2. ASSUME NEW u \in Threads PROVE Good(u)'
  <2>1. Good(u) /\ ~(tss_pc[u] = "set" /\ key[u] = k)
    BY <1>a, Zenon DEF ExitInv
  <2>2. tss_pc[u] = "set" => key[u] \in Exit!Keys
    BY <2>1 DEF Good, Setting
  <2>3. tss_pc[u] = "set" => units'[key[u]] = units[key[u]]
    BY <1>a, <1>c, <2>1, <2>2
  <2> QED
    BY <1>a, <2>1, <2>3, GoodStays, Zenon
<1> QED
  BY <1>1, <1>2, Zenon DEF ExitInv

LEMMA SetValueKeeps ==
  ASSUME TSS_KEY_COUNT \in Nat, ExitInv, NEW t \in Threads, NEW k \in Exit!Keys, NEW v \in Payloads,
         Exit!set_tss_value(t, k, v)
  PROVE  ExitInv'
<1>a. /\ tss_pc[t] \in {"idle", "in_callback", "in_dtor"}
      /\ UNCHANGED <<units, tss_values, callback_list, tss_i, registered, torn, called>>
  BY DEF Exit!set_tss_value, Exit!InClient
<1>b. CASE ~units[k].active
  <2>1. UNCHANGED <<key, val, tss_home, tss_pc, expected>>
    BY <1>b DEF Exit!set_tss_value
  <2>2. ExitTypes'
    BY <1>a, <2>1 DEF ExitInv, ExitTypes
  <2>3. \A u \in Threads : Same(u)
    BY <1>a, <2>1 DEF Same
  <2>4. ASSUME NEW u \in Threads PROVE Good(u)'
    <3>1. Good(u)
      BY Zenon DEF ExitInv
    <3> QED
      BY <1>a, <2>3, <3>1, GoodStays
  <2> QED
    BY <1>a, <2>2, <2>4 DEF ExitInv
<1>c. CASE units[k].active
  <2>a. /\ key' = [key EXCEPT ![t] = k] /\ val' = [val EXCEPT ![t] = v]
        /\ tss_home' = [tss_home EXCEPT ![t] = tss_pc[t]] /\ tss_pc' = [tss_pc EXCEPT ![t] = "set"]
        /\ expected' = IF tss_pc[t] = "in_dtor" /\ k < tss_i[t] THEN expected
                       ELSE [expected EXCEPT ![t][k] = <<units[k].dtor, v>>]
    BY <1>c DEF Exit!set_tss_value, Exit!Goto
  <2>b. /\ units \in [Exit!Keys -> [active : BOOLEAN, dtor : Dtors \cup {NoDtor}]]
        /\ expected \in [Threads -> [Exit!Keys -> Slots]] /\ k \in Nat
    BY DEF ExitInv, ExitTypes, Exit!Keys
  <2>c. <<units[k].dtor, v>> \in Slots
    BY <2>b, SlotsAre
  <2>d. /\ tss_pc \in [Threads -> {"idle", "set", "drain", "in_callback", "dtors", "in_dtor", "exited"}]
        /\ tss_home \in [Threads -> {"idle", "in_callback", "in_dtor"}]
        /\ key \in [Threads -> Nat] /\ val \in [Threads -> Payloads \cup {NoDtor}]
        /\ tss_i \in [Threads -> 0 .. TSS_KEY_COUNT]
    BY Zenon DEF ExitInv, ExitTypes
  <2>1. ExitTypes'
    <3>1. expected' \in [Threads -> [Exit!Keys -> Slots]]
      BY <2>a, <2>b, <2>c
    <3>2. /\ tss_pc' \in [Threads -> {"idle", "set", "drain", "in_callback", "dtors", "in_dtor", "exited"}]
          /\ tss_home' \in [Threads -> {"idle", "in_callback", "in_dtor"}]
          /\ key' \in [Threads -> Nat] /\ val' \in [Threads -> Payloads \cup {NoDtor}]
      BY <1>a, <2>a, <2>b, <2>d
    <3> QED
      BY <1>a, <3>1, <3>2 DEF ExitInv, ExitTypes
  <2>2. \A u \in Threads \ {t} : Same(u)
    BY <1>a, <2>a, <2>b, <2>d DEF Same
  <2>3. Good(t)'
    <3>1. Good(t)
      BY Zenon DEF ExitInv
    <3>2. /\ tss_pc'[t] = "set" /\ tss_home'[t] = tss_pc[t] /\ key'[t] = k /\ val'[t] = v
          /\ tss_i'[t] = tss_i[t] /\ tss_i[t] \in Nat
          /\ expected'[t] = IF tss_pc[t] = "in_dtor" /\ k < tss_i[t] THEN expected[t]
                            ELSE [expected[t] EXCEPT ![k] = <<units[k].dtor, v>>]
      BY <1>a, <2>a, <2>b, <2>d
    <3>3. InTurn(t)'
      BY <1>a, <3>1, <3>2 DEF Good, InTurn, At
    <3>4. Setting(t)'
      BY <1>a, <1>c, <3>2 DEF Setting
    <3>5. Stored(t)'
      <4> SUFFICES ASSUME NEW m \in Exit!Keys, m >= tss_i[t]
                   PROVE  expected'[t][m] = IF k = m THEN <<units[m].dtor, v>> ELSE tss_values[t][m]
        BY <1>a, <3>2 DEF Stored
      <4>1. CASE m = k
        <5>1. ~(k < tss_i[t])
          BY <2>b, <3>2, <4>1
        <5> QED
          BY <2>b, <3>2, <4>1, <5>1
      <4>2. CASE m # k
        <5>1. expected[t][m] = tss_values[t][m]
          BY <1>a, <3>1 DEF Good, Stored
        <5> QED
          BY <2>b, <3>2, <4>2, <5>1
      <4> QED
        BY <4>1, <4>2
    <3>6. Ran(called[t], callback_list[t], registered[t], expected'[t], tss_i[t])
      <4>1. CASE tss_pc[t] = "in_dtor" /\ k < tss_i[t]
        BY <3>1, <3>2, <4>1 DEF Good
      <4>2. CASE ~(tss_pc[t] = "in_dtor" /\ k < tss_i[t])
        <5>0. tss_pc[t] # "in_dtor" => tss_i[t] = 0
          BY <1>a, <3>1, Zenon DEF Good, InTurn, At
        <5>1. ~(k < tss_i[t])
          BY <2>b, <4>2, <5>0
        <5>2. expected[t] \in [Exit!Keys -> Slots]
          BY <2>b
        <5>3. expected'[t] = [expected[t] EXCEPT ![k] = <<units[k].dtor, v>>]
          BY <3>2, <4>2, Zenon
        <5>4. Ran(called[t], callback_list[t], registered[t], expected[t], tss_i[t])
          BY <3>1, Zenon DEF Good
        <5> PICK e, x, j : e = expected[t] /\ x = <<units[k].dtor, v>> /\ j = tss_i[t]
          BY Zenon
        <5>5. e \in [Exit!Keys -> Slots] /\ j \in Nat /\ ~(k < j)
          BY <3>2, <5>1, <5>2, Zenon
        <5>6. Ran(called[t], callback_list[t], registered[t], e, j)
          BY <5>4, Zenon
        <5>7. Ran(called[t], callback_list[t], registered[t], [e EXCEPT ![k] = x], j)
          BY <5>5, <5>6, RanSet, Zenon
        <5> QED
          BY <5>3, <5>7, Zenon
      <4> QED
        BY <4>1, <4>2
    <3>7. /\ called'[t] = called[t] /\ callback_list'[t] = callback_list[t]
          /\ registered'[t] = registered[t] /\ tss_i'[t] = tss_i[t]
      BY <1>a
    <3> QED
      BY <3>3, <3>4, <3>5, <3>6, <3>7, Zenon DEF Good
  <2>4. ASSUME NEW u \in Threads \ {t} PROVE Good(u)'
    <3>1. Good(u)
      BY Zenon DEF ExitInv
    <3> QED
      BY <1>a, <2>2, <3>1, GoodStays
  <2> QED
    BY <1>a, <2>1, <2>3, <2>4, Zenon DEF ExitInv
<1> QED
  BY <1>b, <1>c

LEMMA SetStoreKeeps ==
  ASSUME TSS_KEY_COUNT \in Nat, ExitInv, NEW t \in Threads, Exit!SetStore(t) PROVE ExitInv'
<1>a. /\ tss_pc[t] = "set" /\ tss_pc' = [tss_pc EXCEPT ![t] = tss_home[t]]
      /\ tss_values' = [tss_values EXCEPT ![t][key[t]] = <<units[key[t]].dtor, val[t]>>]
      /\ UNCHANGED <<units, callback_list, tss_home, key, val, tss_i, registered, expected, torn, called>>
  BY DEF Exit!SetStore, Exit!Goto
<1>b. Good(t) /\ \A u \in Threads : Good(u)
  BY <1>a DEF ExitInv
<1>c. key[t] \in Exit!Keys /\ val[t] \in Payloads
  BY <1>a, <1>b DEF Good, Setting
<1>d. /\ units \in [Exit!Keys -> [active : BOOLEAN, dtor : Dtors \cup {NoDtor}]]
      /\ tss_values \in [Threads -> [Exit!Keys -> Slots]]
      /\ tss_pc \in [Threads -> {"idle", "set", "drain", "in_callback", "dtors", "in_dtor", "exited"}]
      /\ tss_home \in [Threads -> {"idle", "in_callback", "in_dtor"}]
  BY Zenon DEF ExitInv, ExitTypes
<1>e. <<units[key[t]].dtor, val[t]>> \in Slots
  <2>1. units[key[t]].dtor \in Dtors \cup {NoDtor}
    BY <1>c, <1>d
  <2> QED
    BY <1>c, <2>1, SlotsAre, Zenon
<1>f. tss_pc'[t] = tss_home[t] /\ tss_home[t] \in {"idle", "in_callback", "in_dtor"} /\ tss_home'[t] = tss_home[t]
  BY <1>a, <1>d
<1>1. ExitTypes'
  <2>1. tss_values' \in [Threads -> [Exit!Keys -> Slots]]
    BY <1>a, <1>c, <1>d, <1>e
  <2>2. tss_pc' \in [Threads -> {"idle", "set", "drain", "in_callback", "dtors", "in_dtor", "exited"}]
    BY <1>a, <1>d
  <2> QED
    BY <1>a, <2>1, <2>2 DEF ExitInv, ExitTypes
<1>2. \A u \in Threads \ {t} : Same(u)
  BY <1>a, <1>d DEF Same
<1>3. Good(t)'
  <2>1. InTurn(t)'
    BY <1>a, <1>b, <1>f DEF Good, InTurn, At
  <2>2. Setting(t)'
    BY <1>f DEF Setting
  <2>3. Stored(t)'
    <3> SUFFICES ASSUME NEW m \in Exit!Keys, m >= tss_i[t] PROVE expected[t][m] = tss_values'[t][m]
      BY <1>a, <1>f DEF Stored
    <3>1. expected[t][m] = IF key[t] = m THEN <<units[m].dtor, val[t]>> ELSE tss_values[t][m]
      BY <1>a, <1>b DEF Good, Stored
    <3> QED
      BY <1>a, <1>c, <1>d, <3>1
  <2>4. Ran(called'[t], callback_list'[t], registered'[t], expected'[t], tss_i'[t])
    BY <1>a, <1>b, Zenon DEF Good
  <2> QED
    BY <2>1, <2>2, <2>3, <2>4, Zenon DEF Good
<1>4. ASSUME NEW u \in Threads \ {t} PROVE Good(u)'
  BY <1>a, <1>b, <1>2, GoodStays
<1> QED
  BY <1>1, <1>3, <1>4, Zenon DEF ExitInv

LEMMA AddCallbackKeeps ==
  ASSUME ExitInv, NEW t \in Threads, NEW c \in Callbacks, Exit!add_callback(t, c) PROVE ExitInv'
<1>a. /\ tss_pc[t] \in {"idle", "in_callback"} /\ c \notin registered[t]
      /\ callback_list' = [callback_list EXCEPT ![t] = Append(callback_list[t], c)]
      /\ registered' = [registered EXCEPT ![t] = registered[t] \cup {c}]
      /\ UNCHANGED <<units, tss_values, tss_pc, tss_home, key, val, tss_i, expected, torn, called>>
  BY DEF Exit!add_callback, Exit!InClient
<1>b. callback_list \in [Threads -> Seq(Callbacks)] /\ registered \in [Threads -> SUBSET Callbacks]
  BY Zenon DEF ExitInv, ExitTypes
<1>c. /\ callback_list'[t] = Append(callback_list[t], c) /\ registered'[t] = registered[t] \cup {c}
      /\ callback_list[t] \in Seq(Callbacks)
  BY <1>a, <1>b
<1>1. ExitTypes'
  <2>1. callback_list' \in [Threads -> Seq(Callbacks)] /\ registered' \in [Threads -> SUBSET Callbacks]
    BY <1>a, <1>b
  <2> QED
    BY <1>a, <2>1 DEF ExitInv, ExitTypes
<1>2. \A u \in Threads \ {t} : Same(u)
  BY <1>a, <1>b DEF Same
<1>3. Good(t)'
  <2>1. Good(t)
    BY Zenon DEF ExitInv
  <2>2. InTurn(t)' /\ Setting(t)' /\ Stored(t)'
    BY <1>a, <2>1 DEF Good, InTurn, At, Setting, Stored
  <2> PICK l, r : l = callback_list[t] /\ r = registered[t]
    BY Zenon
  <2>3. Ran(called[t], Append(l, c), r \cup {c}, expected[t], tss_i[t])
    BY <1>a, <1>c, <2>1, RanRegister, Zenon DEF Good
  <2> QED
    BY <1>a, <1>c, <2>2, <2>3, Zenon DEF Good
<1>4. ASSUME NEW u \in Threads \ {t} PROVE Good(u)'
  <2>1. Good(u)
    BY Zenon DEF ExitInv
  <2> QED
    BY <1>a, <1>2, <2>1, GoodStays
<1> QED
  BY <1>a, <1>1, <1>3, <1>4, Zenon DEF ExitInv

LEMMA DrainKeeps ==
  ASSUME TSS_KEY_COUNT \in Nat, ExitInv, NEW t \in Threads, Exit!Drain(t) PROVE ExitInv'
<1> PICK l, c : l = callback_list[t] /\ c = called[t]
  BY Zenon
<1>a. /\ tss_pc[t] = "drain" /\ l # <<>> /\ tss_pc' = [tss_pc EXCEPT ![t] = "in_callback"]
      /\ callback_list' = [callback_list EXCEPT ![t] = SubSeq(l, 1, Len(l) - 1)]
      /\ called' = [called EXCEPT ![t] = Append(c, <<l[Len(l)]>>)]
      /\ UNCHANGED <<units, tss_values, tss_home, key, val, tss_i, registered, expected, torn>>
  BY DEF Exit!Drain, Exit!Goto
<1>b. /\ callback_list \in [Threads -> Seq(Callbacks)]
      /\ called \in [Threads -> Seq(Slots \cup {<<x>> : x \in Callbacks})]
      /\ tss_pc \in [Threads -> {"idle", "set", "drain", "in_callback", "dtors", "in_dtor", "exited"}]
  BY Zenon DEF ExitInv, ExitTypes
<1> PICK C : C = Slots \cup {<<x>> : x \in Callbacks}
  BY Zenon
<1>c. /\ l \in Seq(Callbacks) /\ c \in Seq(C) /\ tss_pc'[t] = "in_callback"
      /\ callback_list'[t] = SubSeq(l, 1, Len(l) - 1) /\ called'[t] = Append(c, <<l[Len(l)]>>)
  BY <1>a, <1>b, Zenon
<1>d. /\ SubSeq(l, 1, Len(l) - 1) \in Seq(Callbacks) /\ l[Len(l)] \in Callbacks
  BY <1>a, <1>c
<1>e. <<l[Len(l)]>> \in C
  BY <1>d, Zenon
<1>f. Append(c, <<l[Len(l)]>>) \in Seq(C)
  BY <1>c, <1>e
<1>1. ExitTypes'
  <2>1. callback_list' \in [Threads -> Seq(Callbacks)]
    BY <1>a, <1>b, <1>d
  <2>2. called' \in [Threads -> Seq(Slots \cup {<<x>> : x \in Callbacks})]
    BY <1>a, <1>b, <1>f, Zenon
  <2>3. tss_pc' \in [Threads -> {"idle", "set", "drain", "in_callback", "dtors", "in_dtor", "exited"}]
    BY <1>a, <1>b
  <2> QED
    BY <1>a, <2>1, <2>2, <2>3, Zenon DEF ExitInv, ExitTypes
<1>2. \A u \in Threads \ {t} : Same(u)
  BY <1>a, <1>b, Zenon DEF Same
<1>3. Good(t)'
  <2>1. Good(t)
    BY Zenon DEF ExitInv
  <2>2. tss_i[t] = 0
    BY <1>a, <2>1 DEF Good, InTurn, At
  <2>3. InTurn(t)' /\ Setting(t)'
    BY <1>a, <1>c, <2>2 DEF InTurn, At, Setting
  <2>4. Stored(t)'
    BY <1>a, <1>c, <2>1 DEF Good, Stored
  <2>5. Ran(c, l, registered[t], expected[t], 0)
    BY <2>1, <2>2, Zenon DEF Good
  <2>6. Ran(Append(c, <<l[Len(l)]>>), SubSeq(l, 1, Len(l) - 1), registered[t], expected[t], 0)
    BY <1>a, <1>c, <1>e, <2>5, RanDrain, Zenon
  <2> QED
    BY <1>a, <1>c, <2>2, <2>3, <2>4, <2>6, Zenon DEF Good
<1>4. ASSUME NEW u \in Threads \ {t} PROVE Good(u)'
  <2>1. Good(u)
    BY Zenon DEF ExitInv
  <2> QED
    BY <1>a, <1>2, <2>1, GoodStays
<1> QED
  BY <1>a, <1>1, <1>3, <1>4, Zenon DEF ExitInv

\* Lock, Drained, DtorReturns and the last step of Destroy only move the thread.
LEMMA MoveKeeps ==
  ASSUME ExitInv, NEW t \in Threads, NEW l \in {"drain", "dtors", "exited"},
         tss_pc[t] # "set", tss_pc' = [tss_pc EXCEPT ![t] = l], InTurn(t)',
         UNCHANGED <<units, tss_values, callback_list, tss_home, key, val, tss_i, registered, expected, torn, called>>
  PROVE  ExitInv'
<1>b. tss_pc \in [Threads -> {"idle", "set", "drain", "in_callback", "dtors", "in_dtor", "exited"}]
  BY Zenon DEF ExitInv, ExitTypes
<1>c. tss_pc'[t] = l /\ l # "set"
  BY <1>b
<1>1. ExitTypes'
  <2>1. tss_pc' \in [Threads -> {"idle", "set", "drain", "in_callback", "dtors", "in_dtor", "exited"}]
    BY <1>b
  <2> QED
    BY <2>1 DEF ExitInv, ExitTypes
<1>2. \A u \in Threads \ {t} : Same(u)
  BY <1>b DEF Same
<1>3. Good(t)'
  <2>1. Good(t)
    BY Zenon DEF ExitInv
  <2>2. Setting(t)' /\ Stored(t)'
    BY <1>c, <2>1 DEF Good, Setting, Stored
  <2>3. Ran(called'[t], callback_list'[t], registered'[t], expected'[t], tss_i'[t])
    BY <2>1, Zenon DEF Good
  <2> QED
    BY <2>2, <2>3, Zenon DEF Good
<1>4. ASSUME NEW u \in Threads \ {t} PROVE Good(u)'
  <2>1. Good(u)
    BY Zenon DEF ExitInv
  <2> QED
    BY <1>2, <2>1, GoodStays
<1> QED
  BY <1>1, <1>3, <1>4, Zenon DEF ExitInv

LEMMA LockKeeps ==
  ASSUME ExitInv, NEW t \in Threads, Exit!Lock(t) \/ Exit!Drained(t) \/ Exit!DtorReturns(t) PROVE ExitInv'
<1>a. UNCHANGED <<units, tss_values, callback_list, tss_home, key, val, tss_i, registered, expected, torn, called>>
  BY DEF Exit!Lock, Exit!Drained, Exit!DtorReturns
<1>b. /\ tss_pc \in [Threads -> {"idle", "set", "drain", "in_callback", "dtors", "in_dtor", "exited"}]
      /\ InTurn(t)
  BY Zenon DEF ExitInv, ExitTypes, Good
<1>1. CASE Exit!Lock(t)
  <2>1. tss_pc[t] \in {"idle", "in_callback"} /\ tss_pc' = [tss_pc EXCEPT ![t] = "drain"]
    BY <1>1 DEF Exit!Lock, Exit!Goto
  <2>2. InTurn(t)'
    BY <1>a, <1>b, <2>1 DEF InTurn, At
  <2>3. tss_pc[t] # "set"
    BY <2>1
  <2> QED
    BY <1>a, <2>1, <2>2, <2>3, MoveKeeps, Zenon
<1>2. CASE Exit!Drained(t)
  <2>1. tss_pc[t] = "drain" /\ callback_list[t] = <<>> /\ tss_pc' = [tss_pc EXCEPT ![t] = "dtors"]
    BY <1>2 DEF Exit!Drained, Exit!Goto
  <2>2. InTurn(t)'
    BY <1>a, <1>b, <2>1 DEF InTurn, At
  <2>3. tss_pc[t] # "set"
    BY <2>1
  <2> QED
    BY <1>a, <2>1, <2>2, <2>3, MoveKeeps, Zenon
<1>3. CASE Exit!DtorReturns(t)
  <2>1. tss_pc[t] = "in_dtor" /\ tss_pc' = [tss_pc EXCEPT ![t] = "dtors"]
    BY <1>3 DEF Exit!DtorReturns, Exit!Goto
  <2>2. InTurn(t)'
    BY <1>a, <1>b, <2>1 DEF InTurn, At
  <2>3. tss_pc[t] # "set"
    BY <2>1
  <2> QED
    BY <1>a, <2>1, <2>2, <2>3, MoveKeeps, Zenon
<1> QED
  BY <1>1, <1>2, <1>3

LEMMA DestroyKeeps ==
  ASSUME TSS_KEY_COUNT \in Nat, ExitInv, NEW t \in Threads, Exit!Destroy(t) PROVE ExitInv'
<1>a. /\ tss_pc[t] = "dtors"
      /\ UNCHANGED <<units, tss_values, callback_list, tss_home, key, val, registered, expected, torn>>
  BY DEF Exit!Destroy
<1> PICK C : C = Slots \cup {<<x>> : x \in Callbacks}
  BY Zenon
<1>b. /\ called \in [Threads -> Seq(C)] /\ tss_i \in [Threads -> 0 .. TSS_KEY_COUNT]
      /\ tss_pc \in [Threads -> {"idle", "set", "drain", "in_callback", "dtors", "in_dtor", "exited"}]
      /\ expected \in [Threads -> [Exit!Keys -> Slots]]
      /\ InTurn(t) /\ Stored(t) /\ Ran(called[t], callback_list[t], registered[t], expected[t], tss_i[t])
  BY Zenon DEF ExitInv, ExitTypes, Good
<1>c. callback_list[t] = <<>> /\ tss_i[t] \in 0 .. TSS_KEY_COUNT
  BY <1>a, <1>b DEF InTurn, At
<1>1. CASE tss_i[t] \notin Exit!Keys
  <2>1. tss_pc' = [tss_pc EXCEPT ![t] = "exited"] /\ UNCHANGED <<tss_i, called>>
    BY <1>1 DEF Exit!Destroy, Exit!Goto
  <2>2. tss_i[t] = TSS_KEY_COUNT
    BY <1>1, <1>c DEF Exit!Keys
  <2>3. InTurn(t)'
    BY <1>a, <1>b, <1>c, <2>1, <2>2 DEF InTurn, At
  <2> QED
    BY <1>a, <2>1, <2>3, MoveKeeps
<1>2. CASE tss_i[t] \in Exit!Keys
  <2> PICK j, e, c : j = tss_i[t] /\ e = expected[t] /\ c = called[t]
    BY Zenon
  <2>a. /\ tss_i' = [tss_i EXCEPT ![t] = j + 1]
        /\ IF tss_values[t][j][1] # NoDtor
           THEN called' = [called EXCEPT ![t] = Append(c, tss_values[t][j])] /\ tss_pc' = [tss_pc EXCEPT ![t] = "in_dtor"]
           ELSE UNCHANGED <<called, tss_pc>>
    BY <1>2 DEF Exit!Destroy, Exit!Goto
  <2>b. j \in Nat /\ j + 1 \in 0 .. TSS_KEY_COUNT /\ j \in Exit!Keys
    BY <1>2, <1>c DEF Exit!Keys
  <2>c. e[j] = tss_values[t][j]
    <3>1. j >= tss_i[t] /\ tss_pc[t] # "set"
      BY <1>a, <2>b
    <3> QED
      BY <1>b, <2>b, <3>1, Zenon DEF Stored
  <2>d. e[j] \in Slots
    BY <1>b, <2>b, Zenon
  <2>e. e[j] \in C /\ c \in Seq(C) /\ Ran(c, callback_list[t], registered[t], e, j)
    BY <1>b, <2>d, Zenon
  <2>f. Append(c, e[j]) \in Seq(C)
    <3> PICK x \in C : x = e[j]
      BY <2>e, Zenon
    <3>1. Append(c, x) \in Seq(C)
      BY <2>e
    <3> QED
      BY <3>1, Zenon
  <2>1. ExitTypes'
    <3>1. tss_i' \in [Threads -> 0 .. TSS_KEY_COUNT]
      BY <1>b, <2>a, <2>b
    <3>2. called' \in [Threads -> Seq(Slots \cup {<<x>> : x \in Callbacks})]
      <4>1. CASE tss_values[t][j][1] # NoDtor
        <5>1. called' = [called EXCEPT ![t] = Append(c, e[j])]
          BY <2>a, <2>c, <4>1, Zenon
        <5> QED
          BY <1>b, <2>f, <5>1, Zenon
      <4>2. CASE ~(tss_values[t][j][1] # NoDtor)
        BY <1>b, <2>a, <4>2, Zenon
      <4> QED
        BY <4>1, <4>2, Zenon
    <3>3. tss_pc' = [tss_pc EXCEPT ![t] = "in_dtor"] \/ tss_pc' = tss_pc
      BY <2>a, Zenon
    <3>4. tss_pc' \in [Threads -> {"idle", "set", "drain", "in_callback", "dtors", "in_dtor", "exited"}]
      BY <1>b, <3>3
    <3> QED
      BY <1>a, <3>1, <3>2, <3>4, Zenon DEF ExitInv, ExitTypes
  <2>2. \A u \in Threads \ {t} : Same(u)
    BY <1>a, <1>b, <2>a, Zenon DEF Same
  <2>3. tss_pc'[t] \in {"dtors", "in_dtor"} /\ tss_i'[t] = j + 1
    BY <1>a, <1>b, <2>a
  <2>4. Ran(called'[t], callback_list'[t], registered'[t], expected'[t], j + 1)
    <3>1. CASE e[j][1] # NoDtor
      <4>0. called' = [called EXCEPT ![t] = Append(c, e[j])]
        BY <2>a, <2>c, <3>1, Zenon
      <4>1. called'[t] = Append(c, e[j])
        BY <1>b, <4>0, Zenon
      <4>2. Ran(Append(c, e[j]), callback_list[t], registered[t], e, j + 1)
        BY <2>b, <2>e, <3>1, RanDestroy, Zenon
      <4> QED
        BY <1>a, <4>1, <4>2, Zenon
    <3>2. CASE ~(e[j][1] # NoDtor)
      <4>1. called'[t] = c
        BY <2>a, <2>c, <3>2, Zenon
      <4>2. Ran(c, callback_list[t], registered[t], e, j + 1)
        BY <2>b, <2>e, <3>2, RanSkip, Zenon
      <4> QED
        BY <1>a, <4>1, <4>2, Zenon
    <3> QED
      BY <3>1, <3>2, Zenon
  <2>5. Good(t)'
    <3>1. InTurn(t)' /\ Setting(t)'
      BY <1>a, <1>c, <2>3 DEF InTurn, At, Setting
    <3>2. Stored(t)'
      <4> SUFFICES ASSUME NEW m \in Exit!Keys, m >= j + 1 PROVE expected[t][m] = tss_values[t][m]
        BY <1>a, <2>3 DEF Stored
      <4>1. m >= j
        BY <2>b DEF Exit!Keys
      <4> QED
        BY <1>a, <1>b, <4>1 DEF Stored
    <3> QED
      BY <2>3, <2>4, <3>1, <3>2, Zenon DEF Good
  <2>6. ASSUME NEW u \in Threads \ {t} PROVE Good(u)'
    <3>1. Good(u)
      BY Zenon DEF ExitInv
    <3> QED
      BY <1>a, <2>2, <3>1, GoodStays
  <2> QED
    BY <2>1, <2>5, <2>6, Zenon DEF ExitInv
<1> QED
  BY <1>1, <1>2, Zenon

LEMMA ExitInvStep ==
  ASSUME TSS_KEY_COUNT \in Nat, torn \/ ExitInv, [Exit!Next]_(Exit!vars) PROVE (torn \/ ExitInv)'
<1>1. CASE torn
  <2>1. CASE UNCHANGED Exit!vars
    BY <1>1, <2>1 DEF Exit!vars
  <2>2. CASE Exit!Next
    <3>1. PICK t \in Threads :
            \/ \E d \in Dtors \cup {NoDtor} : Exit!new_key(t, d)
            \/ \E k \in Exit!Keys : Exit!remove_key(t, k) \/ \E v \in Payloads : Exit!set_tss_value(t, k, v)
            \/ \E c \in Callbacks : Exit!add_callback(t, c)
            \/ Exit!SetStore(t) \/ Exit!Lock(t) \/ Exit!Drain(t) \/ Exit!Drained(t) \/ Exit!Destroy(t) \/ Exit!DtorReturns(t)
      BY <2>2, Zenon DEF Exit!Next
    <3> QED
      BY <1>1, <3>1, Zenon DEF Exit!new_key, Exit!remove_key, Exit!set_tss_value, Exit!SetStore,
         Exit!add_callback, Exit!Lock, Exit!Drain, Exit!Drained, Exit!Destroy, Exit!DtorReturns
  <2> QED
    BY <2>1, <2>2, Zenon
<1>2. CASE UNCHANGED Exit!vars /\ ExitInv
  <2>1. UNCHANGED <<units, tss_values, callback_list, tss_pc, tss_home, key, val, tss_i, registered, expected, torn, called>>
    BY <1>2 DEF Exit!vars
  <2>2. ExitTypes'
    BY <1>2, <2>1 DEF ExitInv, ExitTypes
  <2>3. ASSUME NEW u \in Threads PROVE Good(u)'
    <3>1. Good(u) /\ Same(u)
      BY <1>2, <2>1, Zenon DEF ExitInv, Same
    <3> QED
      BY <2>1, <3>1, GoodStays
  <2> QED
    BY <2>2, <2>3, Zenon DEF ExitInv
<1>3. CASE Exit!Next /\ ExitInv
  <2>1. PICK t \in Threads :
          \/ \E d \in Dtors \cup {NoDtor} : Exit!new_key(t, d)
          \/ \E k \in Exit!Keys : Exit!remove_key(t, k) \/ \E v \in Payloads : Exit!set_tss_value(t, k, v)
          \/ \E c \in Callbacks : Exit!add_callback(t, c)
          \/ Exit!SetStore(t) \/ Exit!Lock(t) \/ Exit!Drain(t) \/ Exit!Drained(t) \/ Exit!Destroy(t) \/ Exit!DtorReturns(t)
    BY <1>3, Zenon DEF Exit!Next
  <2> QED
    BY <1>3, <2>1, NewKeyKeeps, RemoveKeyKeeps, SetValueKeeps, AddCallbackKeeps, SetStoreKeeps, LockKeeps,
       DrainKeeps, DestroyKeeps, Zenon
<1> QED
  BY <1>1, <1>2, <1>3, Zenon

\* thread_exit (thread.cpp:150-157): a thread that has exited has called every
\* callback it registered exactly once, and after them, in the order of the keys, the
\* destructor of the last value it set under each key: for any number of keys and any
\* threads, destructors, callbacks and values, with the two exceptions the property names.
THEOREM ThreadExitRunsEverything ==
  ASSUME TSS_KEY_COUNT \in Nat PROVE ExitSpec => []ExitRunsEverything
<1>1. ASSUME torn \/ ExitInv PROVE ExitRunsEverything
  <2> SUFFICES ASSUME ~torn, NEW t \in Threads, tss_pc[t] = "exited"
               PROVE  \E n \in 0 .. Len(called[t]) :
                        /\ Exit!EachOnce(called[t], n, {<<c>> : c \in registered[t]})
                        /\ Exit!InKeyOrder(called[t], n, expected[t], Exit!Due(t))
    BY Zenon DEF ExitRunsEverything, Exit!ExitRunsEverything
  <2>1. Good(t)
    BY <1>1, Zenon DEF ExitInv
  <2>2. callback_list[t] = <<>> /\ tss_i[t] = TSS_KEY_COUNT
    BY <2>1 DEF Good, InTurn, At
  <2>3. Ran(called[t], <<>>, registered[t], expected[t], TSS_KEY_COUNT)
    BY <2>1, <2>2, Zenon DEF Good
  <2> QED
    BY <2>3, RanAll, Zenon DEF Exit!Due
<1> QED
  BY <1>1, ExitInvInit, ExitInvStep, PTL DEF ExitSpec
=============================================================================
