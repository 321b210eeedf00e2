------------------------------ MODULE HostBatch ------------------------------
(***************************************************************************)
(* How the host cuts a DPU's queue of sub-transactions into batches and    *)
(* numbers the deterministic ones (System::exec and build_batch of         *)
(* src/host/system.cpp).  This module has the operations only; HostSystem  *)
(* runs them in the host's threads and DpuRounds runs the batches.         *)
(***************************************************************************)
EXTENDS Integers, Sequences, FiniteSets

CONSTANTS
  N_DPUS,       \* number of DPUs
  NR_TASKLETS,  \* number of tasklets of a DPU
  BATCH_SIZE,   \* sub-transactions a tasklet gets in a round
  BUFFER_SIZE,  \* capacity of a DPU's queue
  Workloads     \* the sequences of transactions the client may generate

Dpu     == 0 .. N_DPUS - 1
Tasklet == 0 .. NR_TASKLETS - 1

\* A transaction is the set of the DPUs it has a part on.
ASSUME HostAssumption ==
  /\ N_DPUS \in Nat \ {0} /\ NR_TASKLETS \in Nat \ {0}
  /\ BATCH_SIZE \in Nat \ {0} /\ BUFFER_SIZE \in Nat \ {0}
  /\ Workloads \subseteq Seq((SUBSET Dpu) \ {{}})

VARIABLES
  txs,     \* the transactions of the client
  queue,   \* sub_transactions_: for each DPU, the transactions with a part there
  batch,   \* batch_[d][t], what tasklet t of DPU d gets in the next round
  dpu_ts,  \* dpu_ts_: sub-transactions taken from each queue
  turn     \* locals of build_batch: the tasklet that is next, prev_round_dpu_ts

batchVars == <<txs, queue, batch, dpu_ts, turn>>

\* Deterministic sub-transactions from the front and optimistic ones from the
\* back of the array sub_txs.
NoSubTxs == [det |-> <<>>, opt |-> <<>>]

BatchInit ==
  /\ txs \in Workloads
  /\ batch = [d \in Dpu |-> [t \in Tasklet |-> NoSubTxs]]
  /\ dpu_ts = [d \in Dpu |-> 0]
  /\ turn = [d \in Dpu |-> [thread |-> 0, prev |-> 0]]

Optimistic(tx) == Cardinality(txs[tx]) = 1

\* Mutant: add does not wait until there is room.
EnqueueAnyway(d, tx) ==
  /\ queue' = [queue EXCEPT ![d] = Append(@, tx)]
  /\ UNCHANGED <<txs, batch, dpu_ts, turn>>

\* exec adds a part of transaction tx to a queue, which add waits for.
Enqueue(d, tx) ==
  /\ Len(queue[d]) < BUFFER_SIZE
  /\ queue' = [queue EXCEPT ![d] = Append(@, tx)]
  /\ UNCHANGED <<txs, batch, dpu_ts, turn>>

\* Mutant: the batch of the previous round is not cleared.
BeginBatchUncleared(d) ==
  /\ turn' = [turn EXCEPT ![d] = [thread |-> 0, prev |-> dpu_ts[d]]]
  /\ UNCHANGED <<txs, queue, batch, dpu_ts>>

\* The batch of DPU d is emptied and its loop set up.
BeginBatch(d) ==
  /\ batch' = [batch EXCEPT ![d] = [t \in Tasklet |-> NoSubTxs]]
  /\ turn' = [turn EXCEPT ![d] = [thread |-> 0, prev |-> dpu_ts[d]]]
  /\ UNCHANGED <<txs, queue, dpu_ts>>

\* The tasklet the loop has come to may get another sub-transaction of DPU d.
Takes(d) ==
  LET b == batch[d][turn[d].thread]
  IN  queue[d] # <<>> /\ Len(b.det) + Len(b.opt) < BATCH_SIZE

\* Mutant: every tasklet numbers its own.
PositionPerTasklet(thread, n_det) == n_det

\* Where in the order of its round a deterministic sub-transaction stands.
Position(thread, n_det) == thread + n_det * NR_TASKLETS

\* Mutant: only deterministic sub-transactions are counted.
CountsDet(tx) == IF Optimistic(tx) THEN 0 ELSE 1

\* What a sub-transaction adds to dpu_ts_, whatever its mode.
Counts(tx) == 1

\* What a tasklet gets, b, with one more sub-transaction.
Stored(b, tx, ts) ==
  IF Optimistic(tx)
  THEN [b EXCEPT !.opt = <<[tx |-> tx, ts |-> 0]>> \o @]
  ELSE [b EXCEPT !.det = Append(@, [tx |-> tx, ts |-> ts])]

\* One turn of the loop: remove, number, store.
Take(d) ==
  LET tx     == Head(queue[d])
      thread == turn[d].thread
      ts     == turn[d].prev + Position(thread, Len(batch[d][thread].det))
  IN  /\ Takes(d)
      /\ queue' = [queue EXCEPT ![d] = Tail(@)]
      /\ dpu_ts' = [dpu_ts EXCEPT ![d] = @ + Counts(tx)]
      /\ batch' = [batch EXCEPT ![d][thread] = Stored(@, tx, ts)]
      /\ turn' = [turn EXCEPT ![d].thread = (@ + 1) % NR_TASKLETS]
      /\ UNCHANGED txs
==============================================================================
