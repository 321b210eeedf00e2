----------------------------- MODULE HostBarrier -----------------------------
(***************************************************************************)
(* The barrier of the host's threads (src/host/barrier.h): a counter under *)
(* a mutex and a condition variable.  A thread that waits has no predicate *)
(* to test when it wakes up; spurious wake-ups are left out.               *)
(***************************************************************************)
EXTENDS Integers

VARIABLES
  waiting,    \* threads counted since the barrier last opened
  asleep,     \* threads in cond.wait
  notifying   \* threads that opened the barrier and have yet to notify

barrierVars == <<waiting, asleep, notifying>>

BarrierInit ==
  /\ waiting = 0
  /\ asleep = {}
  /\ notifying = {}

\* Thread th is not inside wait.
Outside(th) == th \notin asleep /\ th \notin notifying

\* wait(n_threads) up to unlock(), for the thread that opens the barrier, and up
\* to cond.wait for the others.
Arrive(th, n_threads) ==
  /\ Outside(th)
  /\ IF waiting + 1 = n_threads
     THEN /\ waiting' = 0
          /\ notifying' = notifying \cup {th}
          /\ UNCHANGED asleep
     ELSE /\ waiting' = waiting + 1
          /\ asleep' = asleep \cup {th}
          /\ UNCHANGED notifying

\* Mutant: notify_one().
NotifyOne(th) ==
  /\ th \in notifying
  /\ notifying' = notifying \ {th}
  /\ IF asleep = {} THEN UNCHANGED asleep ELSE \E w \in asleep : asleep' = asleep \ {w}
  /\ UNCHANGED waiting

\* cond.notify_all()
Notify(th) ==
  /\ th \in notifying
  /\ notifying' = notifying \ {th}
  /\ asleep' = {}
  /\ UNCHANGED waiting
==============================================================================
