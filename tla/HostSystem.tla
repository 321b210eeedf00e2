----------------------------- MODULE HostSystem ------------------------------
(***************************************************************************)
(* The host process (src/host/system.cpp, tpcc.cpp): the main thread puts  *)
(* the client's transactions into the queues, waits for the others to get  *)
(* ready, and stops the system when all have been counted; the thread of   *)
(* System::run copies batches to the DPUs and launches them, while helper  *)
(* threads build the next ones.  A launch runs all it was given; what      *)
(* happens on the DPUs is in DpuRounds and TM.                             *)
(***************************************************************************)
EXTENDS HostBatch, HostBarrier

CONSTANT N_THREADS  \* n_threads_: the helpers and the thread of System::run

ASSUME ThreadsAssumption ==
  /\ N_THREADS \in Nat /\ N_THREADS >= 2
  /\ N_DPUS % (N_THREADS - 1) = 0

Helper == 0 .. N_THREADS - 2
Run    == N_THREADS - 1
Main   == N_THREADS
Thread == 0 .. N_THREADS

VARIABLES
  pc,              \* where each thread is
  reg,             \* loop counter of each thread
  parts,           \* DPUs the main thread's transaction has yet to be queued for
  running,         \* running_
  n_transactions,  \* n_transactions_
  n_commited,      \* n_commited_txs_
  n_thread,        \* n_commited_txs_thread_
  input,           \* the batches in the memory of the DPUs
  exited,          \* exit(1) has been called
  executed         \* history: how often each DPU has run its part of each transaction

counters == <<n_transactions, n_commited, n_thread>>
dpus     == <<input, executed, exited>>
vars     == <<batchVars, barrierVars, pc, reg, parts, running, counters, dpus>>

Init ==
  /\ BatchInit
  /\ queue = [d \in Dpu |-> <<>>]
  /\ BarrierInit
  /\ pc = [th \in Thread |-> CASE th = Main -> "exec" [] th = Run -> "init" [] OTHER -> "start"]
  /\ reg = [th \in Thread |-> IF th = Main THEN 1 ELSE 0]
  /\ parts = IF txs = <<>> THEN {} ELSE txs[1]
  /\ running = TRUE
  /\ n_transactions = 0
  /\ n_commited = 0
  /\ n_thread = [h \in Helper |-> 0]
  /\ input = [d \in Dpu |-> [t \in Tasklet |-> NoSubTxs]]
  /\ executed = [d \in Dpu |-> [tx \in DOMAIN txs |-> 0]]
  /\ exited = FALSE

\* Thread th is at label, and the process has not exited.
At(th, label) == pc[th] = label /\ Outside(th) /\ ~ exited

Goto(th, label) == pc' = [pc EXCEPT ![th] = label]

\* Thread th calls barrier_.wait(n_threads) and goes on at label.
Wait(th, n_threads, label) ==
  /\ Arrive(th, n_threads)
  /\ Goto(th, label)
  /\ UNCHANGED <<batchVars, reg, parts, running, counters, dpus>>

\* The top of the loops of run and run_helper.
While(th, label) ==
  /\ At(th, "loop")
  /\ Goto(th, IF running THEN label ELSE "exit")
  /\ UNCHANGED <<batchVars, barrierVars, reg, parts, running, counters, dpus>>

Wake(th) ==
  /\ Notify(th)
  /\ ~ exited
  /\ UNCHANGED <<batchVars, pc, reg, parts, running, counters, dpus>>

------------------------------------------------------------------------------
(* The main thread *)

\* exec: one part of transaction reg[Main], in the order of the DPUs.
Exec(d) ==
  /\ At(Main, "exec")
  /\ d \in parts /\ \A e \in parts : d <= e
  /\ Enqueue(d, reg[Main])
  /\ n_transactions' = n_transactions + 1
  /\ LET n == IF parts = {d} THEN reg[Main] + 1 ELSE reg[Main]
     IN  /\ reg' = [reg EXCEPT ![Main] = n]
         /\ parts' = IF n = reg[Main] THEN parts \ {d}
                     ELSE IF n <= Len(txs) THEN txs[n] ELSE {}
  /\ UNCHANGED <<barrierVars, pc, running, n_commited, n_thread, dpus>>

\* wait_initialization, once every transaction is queued.
MainStart ==
  /\ At(Main, "exec")
  /\ parts = {}
  /\ Wait(Main, N_THREADS + 1, "poll")

\* The main thread sees that every sub-transaction has been counted, and stops.
Stop ==
  /\ At(Main, "poll")
  /\ n_commited >= n_transactions
  /\ running' = FALSE
  /\ Goto(Main, "join")
  /\ UNCHANGED <<batchVars, barrierVars, reg, parts, counters, dpus>>

Join ==
  /\ At(Main, "join")
  /\ \A th \in Thread \ {Main} : pc[th] = "exit"
  /\ Goto(Main, "exit")
  /\ UNCHANGED <<batchVars, barrierVars, reg, parts, running, counters, dpus>>

------------------------------------------------------------------------------
(* The thread of System::run *)

\* The warehouses are loaded; a failure is only printed.
LaunchInit ==
  /\ At(Run, "init")
  /\ Goto(Run, "start")
  /\ UNCHANGED <<batchVars, barrierVars, reg, parts, running, counters, dpus>>

RunStart == At(Run, "start") /\ Wait(Run, N_THREADS + 1, "loop")
RunLoop  == While(Run, "built")
RunBuilt == At(Run, "built") /\ Wait(Run, N_THREADS, "count")

\* n_commited_txs_ += n_commited_txs_thread_[reg[Run]].n
Count ==
  /\ At(Run, "count")
  /\ n_commited' = n_commited + n_thread[reg[Run]]
  /\ LET last == reg[Run] = N_THREADS - 2
     IN  /\ reg' = [reg EXCEPT ![Run] = IF last THEN 0 ELSE @ + 1]
         /\ Goto(Run, IF last THEN "copy" ELSE "count")
  /\ UNCHANGED <<batchVars, barrierVars, parts, running, n_transactions, n_thread, dpus>>

\* dpus.copy("input", batch_), one DPU a step.
Copy ==
  /\ At(Run, "copy")
  /\ input' = [input EXCEPT ![reg[Run]] = batch[reg[Run]]]
  /\ LET last == reg[Run] = N_DPUS - 1
     IN  /\ reg' = [reg EXCEPT ![Run] = IF last THEN 0 ELSE @ + 1]
         /\ Goto(Run, IF last THEN "copied" ELSE "copy")
  /\ UNCHANGED <<batchVars, barrierVars, parts, running, counters, executed, exited>>

\* Mutant: a batch is not launched any more once the system is stopped.
RunCopiedStops ==
  At(Run, "copied") /\ Wait(Run, N_THREADS, IF running THEN "launch" ELSE "loop")

RunCopied == At(Run, "copied") /\ Wait(Run, N_THREADS, "launch")

\* Where in a DPU's batch the scheduler finds sub-transactions.
Places(b) ==
  UNION {{t} \X {kind} \X DOMAIN b[t][kind] : t \in Tasklet, kind \in {"det", "opt"}}

\* How often transaction tx is in a DPU's batch.
Times(b, tx) == Cardinality({p \in Places(b) : b[p[1]][p[2]][p[3]].tx = tx})

\* dpus.exec() returns when every DPU has run its batch.
Launch ==
  /\ At(Run, "launch")
  /\ executed' = [d \in Dpu |->
                    [tx \in DOMAIN txs |-> executed[d][tx] + Times(input[d], tx)]]
  /\ Goto(Run, "loop")
  /\ UNCHANGED <<batchVars, barrierVars, reg, parts, running, counters, input, exited>>

\* Copying or launching throws DpuError.
DpuError ==
  /\ At(Run, "copy") \/ At(Run, "launch")
  /\ exited' = TRUE
  /\ UNCHANGED <<batchVars, barrierVars, pc, reg, parts, running, counters, input, executed>>

------------------------------------------------------------------------------
(* The helpers *)

HelperStart(h) == At(h, "start") /\ Wait(h, N_THREADS + 1, "loop")
HelperLoop(h)  == While(h, "build")

\* build_batch: the loop over the helper's DPUs h, h + (n_threads_ - 1), ...
Build(h) ==
  /\ At(h, "build")
  /\ n_thread' = [n_thread EXCEPT ![h] = 0]
  /\ reg' = [reg EXCEPT ![h] = h]
  /\ Goto(h, "dpu")
  /\ UNCHANGED <<batchVars, barrierVars, parts, running, n_transactions, n_commited, dpus>>

BuildDpu(h) ==
  /\ At(h, "dpu")
  /\ BeginBatch(reg[h])
  /\ Goto(h, "take")
  /\ UNCHANGED <<barrierVars, reg, parts, running, counters, dpus>>

BuildTake(h) ==
  /\ At(h, "take")
  /\ Take(reg[h])
  /\ n_thread' = [n_thread EXCEPT ![h] = @ + 1]
  /\ UNCHANGED <<barrierVars, pc, reg, parts, running, n_transactions, n_commited, dpus>>

\* No sub-transaction is left, or the next tasklet has its share.
BuildNext(h) ==
  /\ At(h, "take")
  /\ ~ Takes(reg[h])
  /\ LET d == reg[h] + N_THREADS - 1
     IN  /\ reg' = [reg EXCEPT ![h] = d]
         /\ Goto(h, IF d < N_DPUS THEN "dpu" ELSE "built")
  /\ UNCHANGED <<batchVars, barrierVars, parts, running, counters, dpus>>

\* Mutant: the helper does not wait until the batches are copied.
HelperBuiltGoesOn(h) == At(h, "built") /\ Wait(h, N_THREADS, "loop")

HelperBuilt(h)  == At(h, "built") /\ Wait(h, N_THREADS, "copied")
HelperCopied(h) == At(h, "copied") /\ Wait(h, N_THREADS, "loop")

------------------------------------------------------------------------------
MainStep == MainStart \/ Stop \/ Join \/ \E d \in Dpu : Exec(d)

RunStep == \/ LaunchInit \/ RunStart \/ RunLoop \/ RunBuilt
           \/ Count \/ Copy \/ RunCopied \/ Launch

HelperStep(h) == \/ HelperStart(h) \/ HelperLoop(h)
                 \/ Build(h) \/ BuildDpu(h) \/ BuildTake(h) \/ BuildNext(h)
                 \/ HelperBuilt(h) \/ HelperCopied(h)

Next == \/ MainStep \/ RunStep \/ DpuError
        \/ \E h \in Helper : HelperStep(h)
        \/ \E th \in Thread : Wake(th)

\* The operating system runs every thread that can run.
Fairness == /\ WF_vars(MainStep) /\ WF_vars(RunStep)
            /\ \A h \in Helper : WF_vars(HelperStep(h))
            /\ \A th \in Thread : WF_vars(Wake(th))

Spec == Init /\ [][Next]_vars

FairSpec == Spec /\ Fairness

------------------------------------------------------------------------------
\* The transactions with a part on DPU d.
Due(d) == {tx \in DOMAIN txs : d \in txs[tx]}

Ran(d) == {tx \in DOMAIN txs : executed[d][tx] > 0}

(* While System::run sums up the counters and copies the batches (lines     *)
(* 133-136, 241), no helper is building any: the one barrier that is used   *)
(* for two meetings a round, and for the start, keeps them apart.           *)
NoTornBatch ==
  At(Run, "count") \/ At(Run, "copy") => \A h \in Helper : pc[h] \notin {"dpu", "take"}

(* No sub-transaction is run twice, and a DPU runs only what has a part on  *)
(* it (lines 159-203, 241-248).                                             *)
RunOnce ==
  \A d \in Dpu : \A tx \in DOMAIN txs :
    executed[d][tx] <= IF d \in txs[tx] THEN 1 ELSE 0

(* stop (lines 87-95) returns only when every sub-transaction has been run, *)
(* although they are counted (line 135) before they are launched.           *)
NothingLeftBehind ==
  pc[Main] = "exit" => \A d \in Dpu : Ran(d) = Due(d)

\* Every queue holds all that is due on its DPU.
Room == \A d \in Dpu : Cardinality(Due(d)) <= BUFFER_SIZE

(* Every sub-transaction that the client generates is run, unless the DPUs  *)
(* fail: start, rounds and the moment of the stop never hang before that    *)
(* (lines 119-156), if the queues are large enough.                         *)
EverythingRuns ==
  Room => <>(exited \/ \A d \in Dpu : Ran(d) = Due(d))

(* The queues must hold the whole workload: nothing is removed before all   *)
(* of it is queued (tpcc.cpp:102-122), so that, when it does not fit, add   *)
(* waits for ever (buffer.h:27-30) and no DPU gets anything.                *)
StartNeedsRoom == Room \/ (pc[Main] = "exec" /\ \A d \in Dpu : dpu_ts[d] = 0)

(* A system that is told to stop stops (lines 87-95).                       *)
StopReturns == (pc[Main] = "join") ~> (exited \/ pc[Main] = "exit")
=============================================================================
