------------------------------ MODULE MCCndVar ------------------------------
(* CndVar for TLC: two waiters, so that the queue has a front and a back,    *)
(* and one or two signallers.                                                *)
EXTENDS CndVar

CONSTANTS t1, t2, t3

Nobody == [waiters |-> {}, notifiers |-> {}, broadcasters |-> {}, bare |-> {},
           careless |-> {}, interruptible |-> {}, rounds |-> 2]

\* One waiter may be interrupted and the other may wait without m, against
\* notify_one with and without m.
Notified ==
  [Nobody EXCEPT !.waiters = {t1, t2}, !.notifiers = {t3}, !.bare = {t3},
                 !.careless = {t2}, !.interruptible = {t1}]

\* A broadcaster that holds m, and a round more.
Broadcast ==
  [Nobody EXCEPT !.waiters = {t1, t2}, !.broadcasters = {t3}, !.rounds = 3]

NotifiedAndBroadcast == {Notified, Broadcast}

TwoBareNotifiers ==
  {[Nobody EXCEPT !.waiters = {t1}, !.notifiers = {t2, t3}, !.bare = {t2, t3}]}

InterruptedWaiter ==
  {[Nobody EXCEPT !.waiters = {t1}, !.notifiers = {t2}, !.interruptible = {t1}]}
=============================================================================
