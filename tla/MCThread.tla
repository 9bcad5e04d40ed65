------------------------------ MODULE MCThread ------------------------------
(***************************************************************************)
(* A thread's life, in module Thread, and what it runs at its exit, in     *)
(* module ThreadExit, for TLC.  The two share no variable, so a behaviour  *)
(* runs one of them and the states of both are explored in turn rather     *)
(* than multiplied.                                                        *)
(***************************************************************************)
EXTENDS Thread

CONSTANTS Callbacks, Dtors, NoDtor, TSS_KEY_COUNT, MaxCalls,
          Payloads      \* the values of thread-specific storage

VARIABLES scene, units, tss_values, callback_list, locked, tss_pc, tss_home, key, val,
          tss_i, calls, registered, expected, torn, called

Exit == INSTANCE ThreadExit WITH
          pc <- tss_pc, home <- tss_home, i <- tss_i, Values <- Payloads

tssvars == <<units, tss_values, callback_list, locked, tss_pc, tss_home, key, val, tss_i,
             calls, registered, expected, torn, called>>

allvars == <<scene, vars, tssvars>>

MCInit == scene \in {"life", "exit"} /\ Init /\ Exit!Init

LifeNext == scene = "life" /\ Next /\ UNCHANGED <<scene, tssvars>>

ExitNext == scene = "exit" /\ Exit!Next /\ UNCHANGED <<scene, vars>>

MCNext == LifeNext \/ ExitNext

MCSpec ==
  /\ MCInit /\ [][MCNext]_allvars
  /\ \A w \in Threads :
       /\ WF_allvars(scene = "life" /\ ThreadStep(w) /\ UNCHANGED <<scene, tssvars>>)
       /\ WF_allvars(scene = "life" /\ OwnerStep(w) /\ UNCHANGED <<scene, tssvars>>)

\* ThreadExit's property: a thread that has exited has run all its callbacks and
\* then the destructors of its values (thread.cpp:150-157).
ExitRunsEverything == Exit!ExitRunsEverything
=============================================================================
