------------------------------ MODULE DpuRounds ------------------------------
(***************************************************************************)
(* Rounds of batches on several DPUs: the host's build_batch for each DPU, *)
(* and on each DPU the scheduler (src/dpu/scheduler.c) over what TM says   *)
(* of the clock: an attempt to commit advances it, and a deterministic     *)
(* transaction does not attempt before the clock has come to its time      *)
(* stamp (src/dpu/tm.c:450-478).  An attempt may fail its validation.      *)
(***************************************************************************)
EXTENDS HostBatch, SequencesExt

CONSTANT MaxFails  \* bound: attempts that fail on a DPU

ASSUME FailsAssumption == MaxFails \in Nat

VARIABLES
  host,   \* what the host does for each DPU: "begin", "take", "ready" or "run"
  pc,     \* where each tasklet is: "det", "barrier", "opt" or "done"
  pos,    \* the sub-transaction it has come to
  clock,  \* clock of each DPU, in attempts
  fails,  \* history: attempts that failed
  log     \* history: the transactions each DPU has committed

dpuVars == <<pc, pos, clock, fails, log>>
vars    == <<batchVars, host, dpuVars>>

\* What exec has left in the queue of DPU d: all that the client generated, in
\* that order.
QueueOf(d) ==
  LET due == {tx \in DOMAIN txs : d \in txs[tx]}
  IN  [n \in 1 .. Cardinality(due) |->
         CHOOSE tx \in due : Cardinality({earlier \in due : earlier < tx}) = n - 1]

Init ==
  /\ BatchInit
  /\ queue = [d \in Dpu |-> QueueOf(d)]
  /\ host = [d \in Dpu |-> "begin"]
  /\ pc = [d \in Dpu |-> [t \in Tasklet |-> "done"]]
  /\ pos = [d \in Dpu |-> [t \in Tasklet |-> 1]]
  /\ clock = [d \in Dpu |-> 0]
  /\ fails = [d \in Dpu |-> 0]
  /\ log = [d \in Dpu |-> <<>>]

------------------------------------------------------------------------------
(* The host *)

Begin(d) ==
  /\ host[d] = "begin"
  /\ BeginBatch(d)
  /\ host' = [host EXCEPT ![d] = "take"]
  /\ UNCHANGED dpuVars

BuildTake(d) ==
  /\ host[d] = "take"
  /\ Take(d)
  /\ UNCHANGED <<host, dpuVars>>

Built(d) ==
  /\ host[d] = "take"
  /\ ~ Takes(d)
  /\ host' = [host EXCEPT ![d] = "ready"]
  /\ UNCHANGED <<batchVars, dpuVars>>

\* All batches are copied and all DPUs launched.
Launch ==
  /\ \A d \in Dpu : host[d] = "ready"
  /\ host' = [d \in Dpu |-> "run"]
  /\ pc' = [d \in Dpu |-> [t \in Tasklet |-> "det"]]
  /\ pos' = [d \in Dpu |-> [t \in Tasklet |-> 1]]
  /\ UNCHANGED <<batchVars, clock, fails, log>>

\* The launch returns when every tasklet of every DPU has come to its end.
Return ==
  /\ \A d \in Dpu : host[d] = "run" /\ \A t \in Tasklet : pc[d][t] = "done"
  /\ \E d \in Dpu : queue[d] # <<>>
  /\ host' = [d \in Dpu |-> "begin"]
  /\ UNCHANGED <<batchVars, dpuVars>>

------------------------------------------------------------------------------
(* A tasklet of a DPU *)

Goto(d, t, label) == pc' = [pc EXCEPT ![d][t] = label]

\* A transaction attempts to commit: it advances the clock and is committed, or
\* fails its validation and will be executed again.
Attempt(d, t, sub) ==
  /\ clock' = [clock EXCEPT ![d] = @ + 1]
  /\ \/ /\ log' = [log EXCEPT ![d] = Append(@, sub.tx)]
        /\ pos' = [pos EXCEPT ![d][t] = @ + 1]
        /\ UNCHANGED fails
     \/ /\ fails[d] < MaxFails
        /\ fails' = [fails EXCEPT ![d] = @ + 1]
        /\ UNCHANGED <<log, pos>>
  /\ UNCHANGED <<batchVars, host, pc>>

\* Mutant: one attempt too many is waited for.
TurnLate(d, sub) == clock[d] > sub.ts

\* The gate of tm_commit.
Turn(d, sub) == clock[d] >= sub.ts

Deterministic(d, t) ==
  LET subs == batch[d][t].det
  IN  /\ pc[d][t] = "det"
      /\ pos[d][t] <= Len(subs)
      /\ Turn(d, subs[pos[d][t]])
      /\ Attempt(d, t, subs[pos[d][t]])

\* The tasklet's deterministic ones are done: it waits at the barrier.
DetDone(d, t) ==
  /\ pc[d][t] = "det"
  /\ pos[d][t] > Len(batch[d][t].det)
  /\ Goto(d, t, "barrier")
  /\ UNCHANGED <<batchVars, host, pos, clock, fails, log>>

\* Mutant: the barrier opens when one tasklet has come.
BarrierOfOne(d) == \E t \in Tasklet : pc[d][t] = "barrier"

\* barrier_wait(&barrier), of NR_TASKLETS.
Together(d) == \A t \in Tasklet : pc[d][t] = "barrier"

OpenBarrier(d) ==
  /\ Together(d)
  /\ pc' = [pc EXCEPT ![d] = [t \in Tasklet |-> "opt"]]
  /\ pos' = [pos EXCEPT ![d] = [t \in Tasklet |-> 1]]
  /\ UNCHANGED <<batchVars, host, clock, fails, log>>

OptimisticOne(d, t) ==
  LET subs == batch[d][t].opt
  IN  /\ pc[d][t] = "opt"
      /\ pos[d][t] <= Len(subs)
      /\ Attempt(d, t, subs[pos[d][t]])

OptDone(d, t) ==
  /\ pc[d][t] = "opt"
  /\ pos[d][t] > Len(batch[d][t].opt)
  /\ Goto(d, t, "done")
  /\ UNCHANGED <<batchVars, host, pos, clock, fails, log>>

------------------------------------------------------------------------------
TaskletStep(d, t) == Deterministic(d, t) \/ DetDone(d, t) \/ OptimisticOne(d, t) \/ OptDone(d, t)

HostStep == Launch \/ Return \/ \E d \in Dpu : Begin(d) \/ BuildTake(d) \/ Built(d)

\* Everything is run and nothing is queued.
Terminating ==
  /\ \A d \in Dpu : /\ host[d] = "run" /\ queue[d] = <<>>
                    /\ \A t \in Tasklet : pc[d][t] = "done"
  /\ UNCHANGED vars

Next == \/ HostStep
        \/ \E d \in Dpu : OpenBarrier(d) \/ \E t \in Tasklet : TaskletStep(d, t)
        \/ Terminating

Spec == Init /\ [][Next]_vars

\* The pipeline of a DPU runs its tasklets round robin.
FairSpec == /\ Spec /\ WF_vars(HostStep)
            /\ \A d \in Dpu : WF_vars(OpenBarrier(d))
            /\ \A d \in Dpu, t \in Tasklet : WF_vars(TaskletStep(d, t))

------------------------------------------------------------------------------
Committed(d) == ToSet(log[d])

(* No optimistic transaction of a round runs before every deterministic one *)
(* of that round on that DPU has committed (the barrier of scheduler.c:45). *)
PhasesApart ==
  \A d \in Dpu : (\E t \in Tasklet : pc[d][t] = "opt") =>
     \A t \in Tasklet : \A n \in DOMAIN batch[d][t].det : batch[d][t].det[n].tx \in Committed(d)

(* When a round begins, the clock of a DPU has come to the number of        *)
(* sub-transactions the host has taken for it, and is ahead by the attempts *)
(* that failed: the host numbers without ever asking the DPU (line 182).    *)
ClockKeepsUp ==
  \A d \in Dpu : host[d] = "begin" => clock[d] = dpu_ts[d] + fails[d]

(* As long as no attempt fails, a DPU commits the deterministic             *)
(* transactions in the order in which exec queued them, so that all DPUs    *)
(* commit the ones they share in the same order (system.cpp:191,            *)
(* tm.c:452).                                                               *)
ExecOrder ==
  \A d \in Dpu : fails[d] = 0 =>
     \A m, n \in DOMAIN log[d] :
       m < n /\ ~ Optimistic(log[d][m]) /\ ~ Optimistic(log[d][n]) => log[d][m] < log[d][n]

(* Every transaction is committed on every DPU it has a part on: no round   *)
(* hangs at the gate.                                                       *)
EverythingCommits ==
  <>(\A d \in Dpu : Committed(d) = {tx \in DOMAIN txs : d \in txs[tx]})
==============================================================================
