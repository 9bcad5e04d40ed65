------------------------------- MODULE Spawn -------------------------------
(***************************************************************************)
(* The file actions of posix_spawn (src/spawn): the list the               *)
(* posix_spawn_file_actions_* functions build, and what the child does     *)
(* with it before execve (src/spawn/linux/posix_spawn.cpp).                *)
(*                                                                         *)
(* actions is [front, back, nodes, bad]: nodes maps the allocated actions  *)
(* to [act, next], and bad is set by a walk or a free that leaves them.    *)
(* A descriptor table is a function from the open descriptors, all below   *)
(* OPEN_MAX, to files.  An act is [type, fd, newfd, path]; the path is     *)
(* Missing if there is no such file.                                       *)
(* memory is what malloc gives a call: "null" if what the new action's     *)
(* next lies on happens to be zero, "dirty" if not, "none" if it fails.    *)
(* The fork, the execve and its arguments are left out: they are plain     *)
(* calls of the kernel.                                                    *)
(***************************************************************************)
EXTENDS Integers, Sequences, FiniteSets, Functions, TLC

CONSTANTS OPEN_MAX, Missing

Null == 0
Wild == -1

(***************************************************************************)
(* The list                                                                *)
(***************************************************************************)
posix_spawn_file_actions_init == [front |-> Null, back |-> Null, nodes |-> <<>>, bad |-> FALSE]

\* Mutant: the last action stays the back of the list.
enque_spawn_action_front(actions, a) ==
  IF actions.back # Null THEN [actions EXCEPT !.nodes[actions.back].next = a]
  ELSE [actions EXCEPT !.front = a, !.back = a]

enque_spawn_action(actions, a) ==
  IF actions.back # Null THEN [actions EXCEPT !.nodes[actions.back].next = a, !.back = a]
  ELSE [actions EXCEPT !.front = a, !.back = a]

\* What the three functions share; next is what they leave in the new action.
Added(actions, act, next, memory) ==
  LET a == Cardinality(DOMAIN actions.nodes) + 1
  IN  IF memory = "none" THEN actions
      ELSE enque_spawn_action(
             [actions EXCEPT !.nodes = (a :> [act |-> act, next |-> next]) @@ @], a)

posix_spawn_file_actions_addopen(actions, act, memory) ==
  IF act.fd < 0 THEN actions ELSE Added(actions, act, Null, memory)

posix_spawn_file_actions_adddup2(actions, act, memory) ==
  IF act.fd < 0 \/ act.newfd < 0 THEN actions ELSE Added(actions, act, Null, memory)

\* addclose does not set next.
posix_spawn_file_actions_addclose(actions, act, memory) ==
  IF act.fd < 0 THEN actions
  ELSE Added(actions, act, IF memory = "dirty" THEN Wild ELSE Null, memory)

Add(actions, act, memory) ==
  CASE act.type = "open" -> posix_spawn_file_actions_addopen(actions, act, memory)
    [] act.type = "close" -> posix_spawn_file_actions_addclose(actions, act, memory)
    [] act.type = "dup2" -> posix_spawn_file_actions_adddup2(actions, act, memory)

RECURSIVE FreeActions(_, _)
FreeActions(actions, a) ==
  IF a = Null THEN actions
  ELSE IF a \notin DOMAIN actions.nodes THEN [actions EXCEPT !.bad = TRUE]
  ELSE FreeActions([actions EXCEPT !.nodes = Restrict(@, DOMAIN @ \ {a})], actions.nodes[a].next)

posix_spawn_file_actions_destroy(actions) ==
  IF actions.front = Null THEN actions
  ELSE FreeActions([actions EXCEPT !.front = Null, !.back = Null], actions.front)

(***************************************************************************)
(* The child                                                               *)
(***************************************************************************)
\* The kernel's calls: the table after them, and the result.
Free(table) == 0 .. OPEN_MAX - 1 \ DOMAIN table

SYS_open(table, path) ==
  IF path = Missing \/ Free(table) = {} THEN <<table, -1>>
  ELSE LET fd == CHOOSE f \in Free(table) : \A g \in Free(table) : f <= g
       IN  <<(fd :> path) @@ table, fd>>

SYS_close(table, fd) == Restrict(table, DOMAIN table \ {fd})

SYS_dup2(table, fd, newfd) ==
  IF fd \notin DOMAIN table \/ newfd >= OPEN_MAX THEN <<table, -1>>
  ELSE <<(newfd :> table[fd]) @@ table, newfd>>

\* Each case of child_process is [table, exits].
ChildOpen(table, act) ==
  LET opened == SYS_open(table, act.path)
      copied == SYS_dup2(opened[1], opened[2], act.fd)
  IN  IF opened[2] <= 0 THEN [table |-> opened[1], exits |-> TRUE]
      ELSE IF opened[2] = act.fd THEN [table |-> opened[1], exits |-> FALSE]
      ELSE [table |-> SYS_close(copied[1], opened[2]), exits |-> copied[2] < 0]

ChildStep(table, act) ==
  CASE act.type = "open" -> ChildOpen(table, act)
    [] act.type = "close" -> [table |-> SYS_close(table, act.fd), exits |-> FALSE]
    [] act.type = "dup2" -> LET copied == SYS_dup2(table, act.fd, act.newfd)
                            IN  [table |-> copied[1], exits |-> copied[2] < 0]

\* How the child ends: the table execve sees, an exit before it, or a walk off the list.
Exec(table) == [end |-> "exec", table |-> table]
Exit == [end |-> "exit", table |-> <<>>]
Lost == [end |-> "lost", table |-> <<>>]

RECURSIVE child_process(_, _, _)
child_process(actions, a, table) ==
  IF a = Null THEN Exec(table)
  ELSE IF a \notin DOMAIN actions.nodes THEN Lost
  ELSE LET done == ChildStep(table, actions.nodes[a].act)
       IN  IF done.exits THEN Exit ELSE child_process(actions, actions.nodes[a].next, done.table)

(***************************************************************************)
(* Properties                                                              *)
(***************************************************************************)
\* A call is [act, memory]; only the valid ones that got memory add their act.
Accepted(calls) ==
  SelectSeq(calls, LAMBDA c : /\ c.memory # "none" /\ c.act.fd >= 0
                              /\ c.act.type = "dup2" => c.act.newfd >= 0)

RECURSIVE Build(_, _)
Build(actions, calls) ==
  IF calls = <<>> THEN actions ELSE Build(Add(actions, calls[1].act, calls[1].memory), Tail(calls))

\* What the standard says of one act, as a change of the one descriptor it names; an
\* open while descriptor 0 is closed is counted as failed, as the code does.
Fails(table, act) ==
  CASE act.type = "open" -> act.path = Missing \/ act.fd >= OPEN_MAX \/ Free(table) = {} \/ 0 \in Free(table)
    [] act.type = "close" -> FALSE
    [] act.type = "dup2" -> act.fd \notin DOMAIN table \/ act.newfd >= OPEN_MAX

Meant(table, act) ==
  CASE act.type = "open" -> (act.fd :> act.path) @@ table
    [] act.type = "close" -> [f \in DOMAIN table \ {act.fd} |-> table[f]]
    [] act.type = "dup2" -> (act.newfd :> table[act.fd]) @@ table

RECURSIVE Outcome(_, _)
Outcome(table, calls) ==
  IF calls = <<>> THEN Exec(table)
  ELSE IF Fails(table, calls[1].act) THEN Exit
  ELSE Outcome(Meant(table, calls[1].act), Tail(calls))

\* The child has carried out the accepted acts in the order of the calls, with no other
\* descriptor left open or closed, and destroy frees each action once, whichever calls
\* failed; a list that ends in a close over memory that is not zero is the exception.
SpawnActsInOrder(calls, table) ==
  LET actions == Build(posix_spawn_file_actions_init, calls)
      accepted == Accepted(calls)
      last == accepted[Len(accepted)]
      destroyed == posix_spawn_file_actions_destroy(actions)
  IN  ~(accepted # <<>> /\ last.act.type = "close" /\ last.memory = "dirty") =>
        /\ child_process(actions, actions.front, table) = Outcome(table, accepted)
        /\ ~destroyed.bad /\ destroyed.nodes = <<>>
=============================================================================
