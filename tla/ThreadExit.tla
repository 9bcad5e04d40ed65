----------------------------- MODULE ThreadExit -----------------------------
(***************************************************************************)
(* Thread specific storage and the callbacks of a thread's exit:           *)
(* src/__support/threads/thread.cpp.                                       *)
(*                                                                         *)
(* TSSKeyMgr's functions each run under its mutex and are one step.        *)
(* set_tss_value takes that mutex twice, so it is two steps.  Every thread *)
(* has its own ThreadAtExitCallbackMgr, whose mutex only that thread uses. *)
(*                                                                         *)
(*   set_tss_value():    pc -> "set" -> pc                                 *)
(*   thread_exit():      "idle" -> "drain" -> "in_callback" -> "drain" ... *)
(*                       "drain" -> "dtors" -> "in_dtor" -> "dtors" ...    *)
(*                       "dtors" -> "exited"                               *)
(* Callbacks and destructors may set values, and callbacks may register    *)
(* callbacks.  A destructor may not: call() has returned with the mutex    *)
(* locked, and add_callback would wait for ever.                           *)
(***************************************************************************)
EXTENDS Naturals, Sequences

CONSTANTS Threads, Callbacks, Dtors, Values, NoDtor,
          TSS_KEY_COUNT, MaxCalls

Keys == 0 .. TSS_KEY_COUNT - 1

NoUnit == [active |-> FALSE, dtor |-> NoDtor]

VARIABLES units,          \* TSSKeyMgr::units
          tss_values,     \* per thread and key: the payload and its destructor
          callback_list,  \* per thread: ThreadAtExitCallbackMgr::callback_list
          locked,         \* per thread: its manager's mutex is locked
          pc, home,       \* where a thread is, and where its set_tss_value returns
          key, val,       \* the arguments of that call
          i,              \* per thread: the loop variable of call_atexit_callbacks
          calls,          \* calls of the clients made so far: a bound
          registered,     \* per thread: the callbacks it has registered
          expected,       \* per thread and key: the dtor call its last set asks for
          torn,           \* a key was deleted in the middle of a set_tss_value
          called          \* per thread: callbacks and destructors entered, in order

vars == <<units, tss_values, callback_list, locked, pc, home, key, val, i, calls,
          registered, expected, torn, called>>

Init ==
  /\ units = [k \in Keys |-> NoUnit]
  /\ tss_values = [t \in Threads |-> [k \in Keys |-> <<NoDtor>>]]
  /\ callback_list = [t \in Threads |-> <<>>]
  /\ locked = [t \in Threads |-> FALSE]
  /\ pc = [t \in Threads |-> "idle"] /\ home = [t \in Threads |-> "idle"]
  /\ key = [t \in Threads |-> 0] /\ val = [t \in Threads |-> NoDtor]
  /\ i = [t \in Threads |-> 0]
  /\ calls = 0
  /\ registered = [t \in Threads |-> {}]
  /\ expected = [t \in Threads |-> [k \in Keys |-> <<NoDtor>>]]
  /\ torn = FALSE
  /\ called = [t \in Threads |-> <<>>]

Goto(t, label) == pc' = [pc EXCEPT ![t] = label]

\* A thread runs client code: its own, a callback's or a destructor's.
InClient(t) == pc[t] \in {"idle", "in_callback", "in_dtor"} /\ calls < MaxCalls

Counted == calls' = calls + 1

new_key(t, d) ==
  /\ InClient(t) /\ Counted
  /\ LET free == {k \in Keys : ~units[k].active}
     IN  \/ \E k \in free :
              /\ \A l \in free : k <= l
              /\ units' = [units EXCEPT ![k] = [active |-> TRUE, dtor |-> d]]
         \/ free = {} /\ UNCHANGED units
  /\ UNCHANGED <<tss_values, callback_list, locked, pc, home, key, val, i,
                 registered, expected, torn, called>>

remove_key(t, k) ==
  /\ InClient(t) /\ Counted
  /\ units' = [units EXCEPT ![k] = NoUnit]
  /\ torn' = (torn \/ \E u \in Threads : pc[u] = "set" /\ key[u] = k)
  /\ UNCHANGED <<tss_values, callback_list, locked, pc, home, key, val, i,
                 registered, expected, called>>

\* is_valid_key: with an inactive key the call returns false.
set_tss_value(t, k, v) ==
  /\ InClient(t) /\ Counted
  /\ IF units[k].active
     THEN /\ key' = [key EXCEPT ![t] = k] /\ val' = [val EXCEPT ![t] = v]
          /\ home' = [home EXCEPT ![t] = pc[t]] /\ Goto(t, "set")
          /\ expected' = IF pc[t] = "in_dtor" /\ k < i[t] THEN expected
                         ELSE [expected EXCEPT ![t][k] = <<units[k].dtor, v>>]
     ELSE UNCHANGED <<key, val, home, pc, expected>>
  /\ UNCHANGED <<units, tss_values, callback_list, locked, i, registered, torn, called>>

\* get_dtor, in a critical section of its own, and the store.
SetStore(t) ==
  /\ pc[t] = "set"
  /\ tss_values' = [tss_values EXCEPT ![t][key[t]] = <<units[key[t]].dtor, val[t]>>]
  /\ Goto(t, home[t])
  /\ UNCHANGED <<units, callback_list, locked, home, key, val, i, calls,
                 registered, expected, torn, called>>

add_callback(t, c) ==
  /\ InClient(t) /\ pc[t] # "in_dtor" /\ ~locked[t] /\ Counted
  /\ c \notin registered[t]
  /\ callback_list' = [callback_list EXCEPT ![t] = Append(@, c)]
  /\ registered' = [registered EXCEPT ![t] = @ \cup {c}]
  /\ UNCHANGED <<units, tss_values, locked, pc, home, key, val, i, expected, torn, called>>

\* thread_exit called, or the callback has returned: lock.
Lock(t) ==
  /\ pc[t] \in {"idle", "in_callback"} /\ ~locked[t]
  /\ locked' = [locked EXCEPT ![t] = TRUE]
  /\ Goto(t, "drain")
  /\ UNCHANGED <<units, tss_values, callback_list, home, key, val, i, calls,
                 registered, expected, torn, called>>

\* call(): the last callback registered is taken, and run without the lock.
Drain(t) ==
  /\ pc[t] = "drain" /\ callback_list[t] # <<>>
  /\ callback_list' = [callback_list EXCEPT ![t] = SubSeq(@, 1, Len(@) - 1)]
  /\ called' = [called EXCEPT ![t] = Append(@, <<callback_list[t][Len(callback_list[t])]>>)]
  /\ locked' = [locked EXCEPT ![t] = FALSE]
  /\ Goto(t, "in_callback")
  /\ UNCHANGED <<units, tss_values, home, key, val, i, calls, registered, expected, torn>>

\* Mutant: the while of call() is an if, so what a callback registers is left.
DrainedEarly(t) ==
  /\ pc[t] = "drain" /\ (callback_list[t] = <<>> \/ called[t] # <<>>)
  /\ Goto(t, "dtors")
  /\ UNCHANGED <<units, tss_values, callback_list, locked, home, key, val, i, calls,
                 registered, expected, torn, called>>

\* call() returns, the mutex locked.
Drained(t) ==
  /\ pc[t] = "drain" /\ callback_list[t] = <<>>
  /\ Goto(t, "dtors")
  /\ UNCHANGED <<units, tss_values, callback_list, locked, home, key, val, i, calls,
                 registered, expected, torn, called>>

\* One round of the loop over tss_values, or its end.
Destroy(t) ==
  /\ pc[t] = "dtors"
  /\ \/ /\ i[t] \in Keys
        /\ i' = [i EXCEPT ![t] = @ + 1]
        /\ IF tss_values[t][i[t]][1] # NoDtor
           THEN /\ called' = [called EXCEPT ![t] = Append(@, tss_values[t][i[t]])]
                /\ Goto(t, "in_dtor")
           ELSE UNCHANGED <<called, pc>>
     \/ /\ i[t] \notin Keys
        /\ Goto(t, "exited") /\ UNCHANGED <<i, called>>
  /\ UNCHANGED <<units, tss_values, callback_list, locked, home, key, val, calls,
                 registered, expected, torn>>

DtorReturns(t) ==
  /\ pc[t] = "in_dtor"
  /\ Goto(t, "dtors")
  /\ UNCHANGED <<units, tss_values, callback_list, locked, home, key, val, i, calls,
                 registered, expected, torn, called>>

Next ==
  \E t \in Threads :
    \/ \E d \in Dtors \cup {NoDtor} : new_key(t, d)
    \/ \E k \in Keys : remove_key(t, k) \/ \E v \in Values : set_tss_value(t, k, v)
    \/ \E c \in Callbacks : add_callback(t, c)
    \/ SetStore(t) \/ Lock(t) \/ Drain(t) \/ Drained(t) \/ Destroy(t) \/ DtorReturns(t)

(***************************************************************************)
(* Properties                                                              *)
(***************************************************************************)
\* The first n calls of c are those of S, each made once.
EachOnce(c, n, S) ==
  /\ {c[p] : p \in 1 .. n} = S
  /\ \A p, q \in 1 .. n : c[p] = c[q] => p = q

\* The calls of c from the n-th on are those e has for the keys of K, in the order of the keys.
InKeyOrder(c, n, e, K) ==
  \E at \in [K -> n + 1 .. Len(c)] :
    /\ \A k \in K : c[at[k]] = e[k]
    /\ \A j, k \in K : j < k => at[j] < at[k]
    /\ \A p \in n + 1 .. Len(c) : \E k \in K : at[k] = p

\* The keys whose value an exiting thread has to destroy.
Due(t) == {k \in Keys : expected[t][k][1] # NoDtor}

\* A thread that has exited has run every callback it registered, also those that
\* callbacks registered, exactly once; and then, for the last value it set under
\* every key, the destructor the key had when it was set, exactly once and in the
\* order of the keys.  Left out are a value that a destructor sets under a key the
\* loop has passed (there is one pass, thread.cpp:152), and a key deleted between
\* the two critical sections of set_tss_value (thread.cpp:168-170).
ExitRunsEverything ==
  ~torn => \A t \in Threads :
    pc[t] = "exited" =>
      \E n \in 0 .. Len(called[t]) :
        /\ EachOnce(called[t], n, {<<c>> : c \in registered[t]})
        /\ InKeyOrder(called[t], n, expected[t], Due(t))
=============================================================================
