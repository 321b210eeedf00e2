# Verification of PIM-TIDE

PIM-TIDE executes transactions on the DPUs of a processing-in-memory system. A
host process queues transactions per DPU, cuts the queues into batches, and runs
the batches in rounds; on every DPU some tasklets (hardware threads) run their
part of the batch against the memory of the DPU, MRAM, through a software
transactional memory. This directory holds TLA+ modules that model the program
under `src/`, TLC configurations that check them, and proofs for TLAPS.
Line numbers below are those of the files under `src/`.

## 1. Inventory

| Component | Code | State | Operations | What makes it correct |
|---|---|---|---|---|
| Transactional memory | `dpu/tm.c`, `dpu/tm.h` | `clock`, `lock_table`, `tx_array` with a read and a write set per tasklet, MRAM | `tm_start`, `tm_load`, `tm_store`, `tm_commit`, `tm_abort`, `cm_abort`, `backoff` | mutual exclusion on a word, atomic writes, one snapshot per transaction, serial commits, deterministic transactions in the order of their time stamps, no deadlock at the gate |
| Allocator | `dpu/alloc.c` | one `mem_block_t` per tasklet | `mram_malloc_init`, `_rebalance`, `mram_malloc`, `_commit`, `_revert` | objects of two tasklets never overlap, committed objects are not handed out again, a retry leaks nothing |
| Kernel and scheduler | `dpu/dpu_main.c`, `dpu/scheduler.c` | `dpu_id`, `input`, a barrier | load the warehouse, or run a round: deterministic phase, barrier, optimistic phase | all deterministic transactions of a round finish before the first optimistic one starts; the round ends |
| AVL tree | `dpu/avl_tree.c` | nodes in MRAM | `avl_tree_insert`, `_find`, rotations | ordered, balanced and without lost or phantom rows at every moment; a find sees one snapshot |
| TPC-C application | `dpu/application.c` | eight tables | `payment`, `payment_remote`, `new_order`, `order_status`, `application_init` | distinct rows have distinct keys; a transaction decodes what the client encoded; order numbers are neither skipped nor repeated; the sums of money agree as far as floats allow |
| Host system | `host/system.cpp` | queues, `batch_`, `dpu_ts_`, `ts_`, counters, `running_` | `exec`, `build_batch`, `run`, `run_helper`, `launch_kernel`, `stop` | every queued transaction is run once and in an order all DPUs share; start, rounds and shutdown do not hang |
| Barrier, buffer | `host/barrier.h`, `host/buffer.h` | a counter; a ring of transactions | `wait`; `add`, `remove`, `count` | nobody passes early; first in, first out, nothing lost |
| Transactions | `host/transaction.cpp`, `host/sub_transaction.cpp` | parameter bytes, mode, time stamp | `add_param`, `clone`, ... | parameters fit and arrive |
| Client | `host/tpcc_client.cpp`, `host/tpcc.cpp` | none | generate transactions | every transaction with two parts is deterministic |

How they interact. `System::exec` appends the parts of a transaction to the
queues of the DPUs concerned under one mutex; a transaction with one part is
optimistic, one with two is deterministic. In each round the helper threads cut
batches (`build_batch`), all threads meet at a barrier, the thread of `run` copies
the batches to the DPUs and launches the kernel while the helpers build the next
batches. The DPUs do not communicate: what ties the parts of a transaction
together is that each DPU commits deterministic transactions in the order in
which the host numbered them. The application reaches memory only through the
transactional memory (with exceptions in the tree's rotations), and the
transactional memory drives the allocator: objects allocated in a transaction are
kept when it commits and given back when it aborts.

Where the difficulty is: tasklets interleave between any two accesses to WRAM
or MRAM; a lock is a version or a pointer into another tasklet's write set;
descriptors are written by other tasklets; writes are made in place and undone;
commit time stamps are drawn before validation; deterministic transactions wait
for their turn while they hold locks; host threads meet at a hand-made barrier,
and shutdown races with it. `PROJECT.json` lists these hazards one by one.

## 2. Modules

| Module | What it is |
|---|---|
| `MramAlloc` | the operations of `dpu/alloc.c` |
| `AllocLife` | the allocator from boot through loading to transactions |
| `AtomicMemory` | abstract: transactions of each tasklet take effect one after the other, all writes at one instant |
| `TM` | the transactional memory, with the allocator; its properties |
| `MC_TM` | batches and lock layouts for TLC |
| `AtomicTable` | abstract: a table whose rows change when a transaction commits |
| `AvlTree` | the AVL tree, run inside optimistic transactions of several tasklets |
| `MC_Avl` | tables and transactions for TLC |
| `Params` | the array of parameters: encoding on the host, decoding on the DPU |
| `Keys` | the keys of the tables |
| `TpccClient` | the client's transactions and the parts it cuts them into |
| `Application` | client, queues and the DPUs' transactions on their tables, end to end |
| `MC_App` | calls of the client for TLC |
| `ApplicationProofs` | theorems about `Keys` and `Application` |
| `AvlProofs` | theorems about `AvlTree`: types, what the committed tree is made of, when its rows change |
| `TMProofs` | theorems about `TM`: types, locks, capacities; what each kind of step does to the logs |
| `TMSerialProofs` | that `TM` implements `AtomicMemory`; versions of locks; objects of the allocator; that the commit time stamps are a serial order; the order of deterministic transactions |
| `AllocLifeProofs` | theorems about `AllocLife` |
| `HostBarrier` | the operations of `host/barrier.h` |
| `HostBatch` | queueing (`exec`) and cutting batches (`build_batch`), operations only |
| `HostSystem` | the host's threads: `HostBatch` and `HostBarrier` composed |
| `MC_Host` | workloads for TLC |
| `HostProofs` | theorems about `HostSystem` |
| `DpuRounds` | rounds on several DPUs: `HostBatch` composed with the scheduler and the clock |
| `MC_Rounds` | workloads for TLC |
| `DpuRoundsProofs` | theorems about `DpuRounds` |
| `NatLemmas` | facts about sets of natural numbers that the proofs cite |

### MramAlloc, AllocLife

`blocks[t]` has the five fields of `mem_block_t`. Arithmetic is unsigned
(`Wrap`, modulo `WORD`). An `assert(0)` in `mram_malloc` stops the DPU: `halted`.
`AllocLife` adds the caller: `application_init` (`application.c:23-33`) sets up
tasklet 0's block, loads the warehouse there (`warehouse_init`), and shares out the rest;
from then on every tasklet allocates, commits and reverts. `phase` is the place of the
load: the warehouse and the tables are allocated outside a transaction (`LoadTable`), and
then each row (`LoadRow`), followed by a transaction that inserts it, which allocates its
node (`LoadNode`) and commits (`LoadCommit`, `application.c:353-355`). Nothing is asked of
`Rebalance` but that the load is over: `mram_malloc_rebalance` does not reset tasklet 0's
`t_addr`, and that the last thing done was a commit is what makes it right. With a last
commit that does not happen (the mutant `LoadCommitEarly`), `Disjoint` and `Accounted` fail.

`AllocAssumption` says that tasklet 0's first block ends before the 62000000 of
`alloc.c:35`, so that the subtraction there does not wrap. The code does not
check it; it is listed as a hazard.

### TM

The state follows the code: `clock`, `lock_table`, `mem` (MRAM), `tx` (the
descriptors of `tx_array`), and per tasklet a place in the code `pc` and its local
variables `reg`. A lock word is a record: `own = NoTx` and a version (the low bit
is clear), or a tasklet and the index of the entry of its write set (the low bit
is set). The body of a transaction is a list of accesses: loads, stores and
allocations. `view` and `committed` are history: what a transaction has read, and
what committed. No guard reads them.

| Code | Actions |
|---|---|
| `tm_start` 285-301 | `Start` |
| `tm_load` 303-356 | `LoadLock` (318), `LoadValue` (320-328), `LoadDone`, `ReadSetFull`, `LoadConflict` (330-355) |
| `tm_store` 358-443 | `StoreOwn` (own lock, 372-382), `StoreLock` (392-403), `StoreConflict` (405-413), `Cas` (416), `StoreWrite` (430-442), `WriteSetFull` |
| `tm_commit` 445-489 | `CommitWait` (452), `CommitFlag` (454), `CommitInc` (464-472), `CommitCheck` (`read_set_coherent`, one entry a step), `CommitDrop` (one entry a step), `CommitEnd` |
| `tm_abort` 491-504 | `AbortUndo`, `AbortDrop` (one entry a step), `AbortEnd` |
| `mram_malloc` | `Malloc` |

A step is one access to shared memory, with the local computation after it.
Steps that are merged, and why nothing is lost:

- `tm_store` loads the lock word at line 368 and again at 392. The first load
  only decides whether the tasklet owns the lock, which no other tasklet can
  change; the model has one load (`StoreOwn` or `StoreLock`).
- The flag `tx->aborted` is read together with the access before it (320/322,
  392/395). Another tasklet can only set it, and the two orders are both there:
  it is set before or after the merged step.
- `cm_abort` reads the other's `c_ts` and sets its flag in one step. The other may
  meanwhile start its next transaction; the model keeps that race by letting a
  tasklet act on a lock word it loaded earlier: the owner in `reg[t].lock_v` may
  have moved on by the time its flag is set.
- `tm_start` is one step: it touches its own descriptor, and the clock.
- `w->tx` of an entry is the tasklet whose write set it is in; the model reads
  the owner from the lock word.
- A released lock whose version equals, as a number, the address of a write set
  entry that was seen before (line 330 compares with the lock bit cleared) would
  need a clock of the size of an MRAM address and is left out.
- `status`, `type`, `seed`, `backoff` and `retries` decide nothing the properties
  speak of; the back-off enters as fairness.

The batch of a tasklet, `prog[t]`, is the list of transactions it is given;
`MC_TM` numbers deterministic ones as `build_batch` does when a batch has no
optimistic transactions. A failed assert (`R_SET_SIZE`, `W_SET_SIZE`, `mram_malloc`)
halts the DPU and the run ends there.

### AtomicTable, AvlTree

`AvlTree` is one table on one DPU. Its memory is words, a field of a node or the
root each, with an owner (the lock) and the values an abort would put back
(`tx[t].undo`). One step is one access to a word that is shared.

Of the transactional memory it has `Load` and `Store`. A load is up to three steps, as in
`TM`: the lock word is found free (`peeked`), the value may be read while another tasklet
has the word locked by then (`got`), and the lock word is found free again and not newer than
the transaction (`Unchanged`). So a load can return what another tasklet has stored and
rolled back, as `tm_dirty_read` shows. A value that is read while the word is free is read
in the last of these steps: if the word is free and unchanged then, nothing but such a
rollback lies in between. The versions are kept as `stale`, the words that others have
committed since the transaction started, and the clock as `late`; a store into a word that is
stale writes it and then gives up, and a commit validates if the clock has moved.

| Code | Actions |
|---|---|
| `TM_START`, `TM_COMMIT`, `tm_abort` | `Begin`, `Commit`, `Abort` |
| `avl_tree_find` 40-69, `avl_tree_insert` 270-299 | `Enter`, `Compare`, `Here`, `Child` |
| `avl_tree_node_alloc`, `avl_tree_insert` 301-311 | `Alloc`, `Link`, `Hang` |
| `avl_tree_insert` 313-359 | `Retrace`, `Weigh`, `Settle`, `Up`, `Above` |
| `avl_tree_fix_left_imbalance`, `_right_` | `Fix`, `Match`, `Look`, `Heavier`, `Grasp`, rotations, `Crest`, `One`, `Two`, `WasRoot`, `Crown` |
| `avl_tree_rotate_right` 71-104, `_left` 106-139 | `Take` and `Give` (77-80), `Adopt` (82), `Raise` and `Lift` (85), `Test` (87), `Peer` and `Which` (91), `Again` and `Replace` (94, 98), `Sink` (102), `Turn` (103) |

The mirrored functions of the code are one action with a `side`. Accesses to words that the
tasklet has just stored itself, and so has locked, are not steps of their own (79, 82, 174,
197). What matters is that the rotations follow some pointers without the transactional
memory (lines 77, 85, 91, 94, 98, 166, 168, 171 and their mirror images):
`ReadDirectly` takes them from memory whoever has them locked, and each of the four looks at
`x->parent` (85, 87, 91, 94 or 98) is a step, so that another rotation can come between them.
`NULL` is an object with words of its own, so that following it shows as a
locked word of `NULL`. Nodes are handed out and given back per tasklet
(`used`, `fresh`): a transaction that is repeated gets the same addresses.

`snap`, `rawRead` and `tainted` are history: the table when a transaction began, who has
directly read what somebody had written and not committed, and whether such a writer rolled
back later (`"read"`) or a load has returned something that had been rolled back (`"load"`).
`tainted # {}` is the exception in the properties of `avl`; `avl_raw` shows what the first
stands for, and `tm_dirty_read` the second.

Left out: deterministic transactions (those of the application only find, and
`PhasesApart` keeps them from running beside inserts), locks shared by words, `mram_malloc` failing.

### Params, Keys, TpccClient, Application

From the client's random draws to the rows on the DPUs. `Params` is the array of
bytes, in cells of two (all numbers have an even size): `add_param` appends, an assert
stops the host when the array would be full, and the DPU takes the cells in order.
An amount is a float, and a whole number from 1 to 5000: of the two functions `generate` of
`random.h` the client calls the one for `int` (line 35). The bits of the float are spelled out
(`FloatBits`), so that decoding it at the wrong place gives what the DPU would see.
`Keys` has the keys, modulo 2^32. `TpccClient` has every call the client can draw
and its parts by DPU.

| Code | Definitions |
|---|---|
| `TPCCClient::payment`, `new_order`, `order_status` | `PaymentCalls` and `payment_parts`, and so on |
| `warehouse_init` 292-368, `generate_*` | `Loaded` |
| `payment` 61-117 | `payment`, `Local`, `Credited`, `Paid`, `Round` |
| `payment_remote` 122-156 | `payment_remote` |
| `new_order` 158-238 | `new_order`, `Items`, `NextNumber`, `WithLines` (the loop's insertions at once, the later of two under one key left), `ItemOf` |
| `order_status` 240-288 | `order_status`, `LinesFound` |
| `main` 102-122, `exec` | actions `Generate`, `Start`, `Exec` |

`Application` takes the layers below for what the other modules show: a table is
a function from keys to rows (`AvlTree`), a part is run once (`HostSystem`) and is
atomic (`TM`); parts are run in any order, which contains every order `DpuRounds`
allows. A DPU that has followed `NULL`, or failed an assert, is `wild` and does
nothing more that the model could speak of. The sums of money are floats, too: every addition
rounds to 24 bits (`Round`, half to even; `EXACT` is 2^24), and the count of a
customer's payments is a byte. `items` on the stack of `new_order`
is longer than the order, and what lies behind it is any of `Garbage`. `done` is
history: what was run, with the client's call and what was read.

### HostBarrier, HostBatch, HostSystem

A transaction is the set of the DPUs it has a part on, a sub-transaction its
number in the workload; one part makes it optimistic, more make it deterministic. `queue[d]`
is `sub_transactions_[d]`: the ring of `buffer.h` with one producer and one consumer
is a sequence no longer than `BUFFER_SIZE`. `batch[d][t]` has the two ends of
`sub_txs`: deterministic ones are appended, optimistic ones put in front (`idx`,
lines 187 and 192). `ts_` is left out: the time stamp `exec` writes is replaced at
line 196.

| Code | Actions |
|---|---|
| `Barrier::wait` | `Arrive` (23-27, 36), `Notify` (30); `Wait` and `Wake` in `HostSystem` |
| `main` 84-130, `exec`, `stop` | `Exec` (one part), `MainStart`, `Stop`, `Join` |
| `run` 118-140 | `LaunchInit`, `RunStart`, `RunLoop`, `RunBuilt`, `Count` (one counter a step) |
| `launch_kernel` 235-268 | `Copy` (one DPU a step), `RunCopied`, `Launch`, `DpuError` |
| `run_helper`, `build_batch` | `HelperStart`, `HelperLoop`, `Build`, `BuildDpu`, `BuildTake`, `BuildNext`, `HelperBuilt`, `HelperCopied` |

A thread that has counted itself sleeps until somebody notifies, and the
notification is a step of its own after the unlock: a thread that is late in
notifying may wake threads that already wait for the next meeting, which is why
the model keeps the two apart. `running_`, `n_commited_txs_` and
`n_transactions_` are atomic in the code and read in one step each. `Launch` runs
everything that is in `input`; whether a launch returns is the question of
`DpuRounds`. `executed`, which counts how often each DPU has run its part of each
transaction, is history. `DpuError` is the end of the process (`exit(1)`).

### DpuRounds

The host's part is `HostBatch` for each DPU (`Begin`, `BuildTake`, `Built`), without
the threads, whose interleaving `NoTornBatch` shows to be of no consequence. On a
DPU, `Deterministic`, `DetDone`, `OpenBarrier`, `OptimisticOne` and `OptDone` are
`scheduler_process_sub_transactions`. Of the transactional memory it keeps what
decides the order: the clock counts attempts to commit (`tm.c:464`), a
deterministic transaction attempts only when the clock has come to its time stamp
(452), an attempt commits or fails its validation and is repeated. That a
transaction may abort before its attempt changes neither clock nor log. In units of the
model the clock advances by 1; the code uses 2 and doubles the time stamp (293).
An attempt is one step, so that commits follow the order of their time stamps:
what happens between line 464 and the commit is in `TM`, with `DetOrder`.

## 3. Properties and runs

`alloc_life`, `app` and the host's runs are made without TLC's deadlock check: the
allocator really stops after a fault, the host's process ends, a stop may
hang (`host_stop`), and the client's calls are run when they are run (`app`). `dpu_mixed` looks for a violated liveness property where the
system is stuck. All other runs keep the check. In `TM` a tasklet that waits is always able to step, and the
disjunct `Terminating` covers the end of a batch, a fault and the bound.

| Run | Shows |
|---|---|
| `alloc_life` | `Disjoint`, `CommittedStays`, `Accounted`: no load, and no sequence of allocations, commits and reverts after it, makes two tasklets' objects overlap, moves a committed end back or lets pointers and byte counts of a block disagree |
| `tm_opt` | all 256 pairs of two-access optimistic transactions on two words; allocations that are retried, sets that fill up, two words under one lock; three tasklets in a cycle in which each reads what the next one writes: `LocksMatchWriteSets`, `Opaque`, `Serializable`, `VersionsGrow`, `AllocsMatchCommits`, `TypeOK`, and `AtomicWrites`, the refinement of `AtomicMemory` |
| `tm_det` | deterministic batches of one and two rounds, and three transactions that wait for each other in a ring: `DetOrderUnlessFailed`, `DetPhaseEnds` |
| `host_rounds` | main thread, run thread, two helpers, two DPUs, every workload of up to four transactions, queues of three: `NoTornBatch`, `RunOnce`, `NothingLeftBehind`, `StartNeedsRoom`, `EverythingRuns` |
| `dpu_rounds` | two DPUs of two tasklets, up to five transactions in up to two rounds, deterministic ones first in each batch: `PhasesApart`, `ClockKeepsUp`, `ExecOrder`, `EverythingCommits` |
| `avl` | one tasklet that loads five keys in each of the 120 orders, and six in four; two tasklets that insert and find in trees of seven shapes, so that every kind of rotation meets an insert, a find or another rotation: `TypeOK`, `NothingThroughNull`, `OnlyKeptNodes`, `TreeOK`, `FindsSnapshot`, and `TableImplemented`, the refinement of `AtomicTable` |
| `app` | any three calls on two warehouses of two districts and two customers, run in any order: `NumbersFresh`, `BooksAgree`, `OrdersPlaced`, `ItemsShifted`, `NullIfRemote`, `StatusComplete`, `NothingRunsIfTooLong` |
| `avl_raw` | violation of `SoundButForLoads` |
| `host_stop` | violation of `StopReturns` |
| `dpu_mixed` | violation of `EverythingCommits` |
| `tm_dirty_read` | violation of `Isolation` |
| `tm_det_order` | violation of `DetOrder` |

What the properties say:

- `TypeOK` of `TM` is more than types: every loop counter stays inside the set it
  walks (the backward loop of `tm_abort` stops before index 0), no set outgrows its
  array and no operation is executed beyond the end of the transaction.
- `Accounted`, `Disjoint`, `CommittedStays`: the two ends and the two byte counts of
  a block tell the same story; what a tasklet holds ends before the block of the
  next one; committed memory is not handed out again.
- `LocksMatchWriteSets` is the mutual exclusion of the memory, in both
  directions: a locked word points to the entry that took it, and an entry that
  took a lock finds itself there. It contains the `ASSERT`s of `tm.c:158-164` and
  `197-204`, which release builds do not evaluate.
- `VersionsGrow`: a lock never goes back to an older version.
- `AtomicWrites`: the committed value of a word (what is in memory or, under a
  lock, what the oldest log entry of the owner says) changes only as in
  `AtomicMemory`: a transaction takes effect when it is decided, with all its
  writes, whoever aborts and undoes meanwhile.
- `Serializable`: what a committed transaction has read is the memory as the
  commits with smaller time stamps left it.
- `Opaque`: the same for a transaction that is still running; the application
  follows pointers it has read, so an aborting transaction must not see two
  states either.
- `AllocsMatchCommits`: between two attempts as many bytes of a tasklet's block are used,
  committed and tentative, as its committed transactions allocated.
- `DetOrderUnlessFailed`, `DetPhaseEnds`: deterministic transactions commit in the
  order of their time stamps as long as none has failed its validation, and a
  batch of them is always finished.

- `NoTornBatch`: the barrier, used for two meetings a round and for the start,
  keeps helpers from building while the counters are summed and the batches copied.
- `RunOnce`, `NothingLeftBehind`, `EverythingRuns`: every sub-transaction is run on
  its DPU, once, and before the process ends, although the counters that end it
  are advanced before the launch.
- `PhasesApart`: no optimistic transaction of a round runs before the last
  deterministic one has committed.
- `ClockKeepsUp`: host and DPU count separately, and between rounds their counts
  differ by exactly the failed attempts.
- `ExecOrder`: without failed attempts a DPU commits deterministic transactions in the order of
  `exec`, over all tasklets and rounds. As the order of `exec` is one for all DPUs, this is
  what makes a transaction with two parts isolated.
- `EverythingCommits`: every round ends, and all is committed.
- `StartNeedsRoom`: nothing is taken from a queue before everything is queued, so
  a workload that does not fit never starts.

- `TypeOK` of `AvlTree`: the types, and that balance fields stay between -1 and 1.
- `NothingThroughNull`: nothing that was written through `NULL` is committed. It is written:
  a rotation that has tested `x->parent` (87) follows the pointer again (91, 94, 98), and
  another one may have made `x` the root by then. But the first one then stores into
  `x->parent` (103), which is locked or newer, and gives up.
- `OnlyKeptNodes`: the committed tree holds no node that was never committed, whose
  memory the next transaction of its tasklet is given.
- `TreeOK`: the committed words are a tree that is ordered and balanced, with
  balance fields that say how, and parents and children that agree; at every moment, not
  only at the end.
- `FindsSnapshot`: a find returns what the table had when its transaction started,
  or what the transaction itself has inserted.
- `TableImplemented`: the rows change only as in `AtomicTable`, never through a
  rotation, an abort or the reuse of a node.

  All but `TypeOK` have the same exception: a direct read of a rotation has returned
  something that its writer then rolled back, or a load something that had been rolled
  back. After either, a transaction can commit what it took from a state that never was,
  and nothing more is claimed.

- `BooksAgree`: `w_ytd`, `d_ytd` and the customers' sums are the sums of the
  payments the client asked for, each as long as it is below 2^24 in size, however far
  the others are above; payments are counted modulo 256. What was encoded is what was decoded.
- `OrdersPlaced`: orders are numbered without gap or repetition, and each is under
  its key with the customer, the number of lines and the lines asked for.
- `NumbersFresh`: the next number of a district is above those of its orders. It is
  proved as well.
- `StatusComplete`: `order_status` finds an order with all its lines.
- `ItemsShifted`, `NullIfRemote`, `NothingRunsIfTooLong` say what the code does where
  TPC-C asks for something else, exactly: line n of an order has item n + 1
  (`application.c:228`); `payment_remote`, and nothing else, ends at `NULL`
  (136-145); a new order whose parameters do not fit stops the host before
  anything is run (`sub_transaction.cpp:92`). With the 56 bytes of `N_PARAMS` no new
  order of 5 to 15 items fits: 8 + 8 * 5 + 15 = 63. The makefiles do not define
  `NDEBUG`, so the program stops at the first one it draws. Nothing in the repository says
  otherwise of these three, so they are stated as they are and are not findings.

Five statements of the repository do not hold:

- **A transaction can commit a value nobody committed** (`Isolation`,
  `tm_dirty_read`). `tm_load` rechecks the lock word (line 330) but an abort puts
  the same version back (line 206): tasklet 1 locks and writes between lines 318
  and 320 of tasklet 0 and rolls back between 320 and 330. `Opaque` and
  `Serializable` therefore speak of the transactions to which this has not
  happened (`dirty` in the history), and `Isolation` is the statement without the
  exception.
- **Deterministic transactions can commit out of order** (`DetOrder`,
  `tm_det_order`). The clock advances at line 464, before validation at 472: a
  transaction that is validating, or that has failed, opens the gate of line 452
  for the ones behind it.

- **The program may not end** (`StopReturns`, `host_stop`). A thread that reads
  `running_` before `stop` clears it waits at a barrier that another thread, which
  read it after, has left for good.
- **Mixed batches hang** (`EverythingCommits`, `dpu_mixed`). An optimistic
  transaction in front of a deterministic one counts in the latter's time stamp but
  commits in the second phase. `dpu_rounds` therefore has batches with the
  deterministic ones in front; with nothing but one kind, as with `DIST_PAYMENT=0`,
  that is always so.
- **A tree can keep a node that was rolled back** (`SoundButForLoads`, `avl_raw`). A rotation
  reads `z->right` directly (`avl_tree.c:77`) while another tasklet has linked a new
  node there and not committed it. That tasklet aborts and gives the node back; the
  rotation commits a pointer to it. No load has to return anything wrong for this; a load that
  does (`tm_dirty_read`) is enough as well.

Remarks that are not findings. The usage text offers one DPU as the default and
`tpcc.cpp:12` makes 32000000 transactions, while a queue holds 2100000
(`buffer.h:8`): as `StartNeedsRoom` says, that program waits for ever in `add`. A deterministic transaction without writes is
never validated (466-470), so it may read a state older than its turn. Every
deterministic transaction of the application writes, and so do those of `MC_TM`.
In the same way an optimistic transaction without writes would leave what it has
allocated uncommitted; none of the application allocates without writing.

### Bounds

Two words and two locks, or one lock, are enough for every pattern of two
transactions that conflict on two words; the cycle over three tasklets comes on
top of that. `MaxClock` bounds the number of commit attempts (a failed one is
retried): 10 lets five attempts happen in `tm_opt`, more than the transactions of a batch
need, so retries after failed validations are included; in `tm_det` it is 30: a fair behaviour that came as far would be stuck there and
violate `DetPhaseEnds`, so the bound hides no endless one. `MaxOps` is the most accesses of a transaction.
Operations of one batch write values that tell the writer. `WORD` is 64 and
`MRAM_LIMIT` 22 or 24: sums can overflow a word if they are not checked, and blocks are
large enough for some requests and too small for others.

`host_rounds` has the least that makes the threads differ: two helpers with one DPU
each, two meetings a round and one entry per tasklet, so that three transactions
need two rounds on one DPU and one on the other. `BUFFER_SIZE` is 3 there: three
transactions always fit, four only if they do not all have a part on the same DPU. In `dpu_rounds` a
batch holds four entries, two for each tasklet, and five transactions reach
the second round; `MaxFails` allows one failed attempt per DPU, which is enough
for a clock that is ahead.

In `avl`, five keys loaded in every order go through single and double rotations on both
sides, at the root and below it; the four orders of six are double rotations whose
inner child is heavy on one side. `NR_NODES` is what a tasklet allocates at most, so the bound is
never in the way. Two tasklets then work on each of six shapes: one of seven transactions of
one or two operations on one side, two inserts on the other, of keys that are new or already
there (`Together`); the seventh shape, `NewRoot`, has a rotation whose x becomes the root
between its looks at `x->parent`. In `app`, three calls let two
orders of one district come before a request of status, or a district be paid to by
customers from two warehouses. `N_PARAMS` is 40, so that orders of one and two items fit and
one of three does not. `EXACT` is 512 and the sum of a warehouse starts at 300, with payments of
1 and 257: it is rounded after one of the larger ones. The counts of payments start at 254 and
wrap around. `UINT` is 1000000 there, more than the keys of the small instance;
that the real keys wrap around is the subject of `OrderLineKeysDiffer`, which is proved and
not run.

### Fairness

In the host every thread is scheduled by the operating system: weak fairness for
each thread's step and for its notification; none for `DpuError`. In `DpuRounds`
the host, each tasklet and the opening of the barrier are weakly fair; `MaxFails` makes
failed attempts finite, which stands for the random back-off below.

In `TM`, `WF_vars(Step(t))`: the DPU's pipeline runs its tasklets round robin, so a
tasklet that can step does. The second conjunct of `Fairness` is about two
tasklets that keep disturbing each other: a tasklet that retries waits for a
random time below a limit that doubles with every retry up to 2^20 iterations
(`backoff`, 228-254), while an attempt to get a lock is a handful of
instructions. So if the lock that a deterministic tasklet tries to get is free
again and again, one of the attempts succeeds. This is the random back-off turned into
fairness; without it `DetPhaseEnds` fails in the runs in which a younger
transaction takes a lock again each time the older one looks. The progress of
optimistic transactions against each other rests on the back-off alone and is
not stated.

## 4. Proofs

The theorems hold for every value of the constants that the named assumptions allow. A
hypothesis next to `Spec` (`Spec /\ DetBatch => ...`) says of which batches, workloads or
numbers the theorem speaks; each is explained here, and the runs check the same properties
on instances.

### TMProofs

For every number of tasklets, every memory, lock table, `LOCK_ADDR` and batch
(`TMAssumption`, `AllocAssumption`):

- `TypeCorrect`: `Spec => []TypeOK`,
- `SetsFit`: no read or write set outgrows its array,
- `LocksCorrect`: `Spec => []LocksMatchWriteSets`.

None is inductive by itself. That a lock released is the one of the entry needs the loop
counter inside the write set; that needs the place in the code and the local variables to
agree; that a compare-and-swap takes a free lock needs `st_cas` to be reached with an
unlocked word only. `Control(t)` says this of each tasklet, and `IInv == Types /\ ControlOK
/\ LocksMatchWriteSets` is inductive. The proof has one lemma per action (`StartStep` ...
`AbortEndStep`). Three lemmas carry the argument about locks: `LocksSame` for the steps that
touch neither lock table nor write set, `AppendLocks` for a store that logs an entry, and
`ReleaseStep` for one turn of either release loop: the lock word that is overwritten was the
tasklet's own, so no other entry loses its lock. `Frame` and `ControlStep` say that a
tasklet that does not step keeps its part of the invariant. `CapacityOK`, relative to
`IInv`, adds that the place after each assert is only reached with room in the array; with
it `TypeOK` follows.

### TMSerialProofs: atomicity

The ground for this is the second half of `TMProofs`. The actions of `TM` are first sorted into kinds of steps (`Kind`: a tasklet begins, runs,
loads, gives up, logs an entry, wins a lock, draws a time stamp, checks, decides, finishes,
undoes, drops a lock, ends), each with what it may change; the later proofs go by kind and
no longer by action (`StepKind`). `LogsOK`, inductive with `IInv`, says for each tasklet:

- `Covered`: the lock of every word in its log was taken by one of its entries;
- `Logged`: as long as it may commit, its log has the words it has stored to and no others,
  and memory has the last value stored;
- `Undone`: while it aborts, memory has the value of the oldest entry already undone;
- `Timely`: what it has overwritten is not newer than its start, and its commit time stamp
  is.

From it, only `Decides`, the step that ends a validation, changes committed values, and it
changes exactly those of the transaction's stores: `Atomicity` (`Spec => AtomicWrites`). The
initial state maps to the initial state, and each kind of step to `Commit`, to another step
of `AtomicMemory` or to a stutter. `VersionsCorrect` (`Spec => VersionsGrow`) follows from
`Timely`.

`AllocsCorrect` is `Spec /\ AllocBatch => []AllocsMatchCommits`. The invariant counts the
bytes of the committed objects and of those of the running attempt. `AllocBatch` asks two
things. Each transaction that allocates also stores: one that does not returns from
`tm_commit` at 466-470 without `mram_malloc_commit`, and its objects are given back by the
next abort. All allocating transactions of the application store, and so do those of
`MC_TM`. And sizes are such that no sum wraps around a word.

### TMSerialProofs: serializability, opacity, the order of deterministic transactions

`SerialOK` is inductive on top of `IInv` and `LogsOK`. `History` ties the commits to the
memory: no commit of a word is newer than its lock says, none is ahead of the clock, no two
of a word have one time stamp, and the committed value is that of the newest. `ReaderOK`
says of each transaction that what it has read is the memory as of its `ts`
(`ReadsAtStart`), that the lock of each word read is its own or in its read set (`Guarded`),
and that the part of the read set already validated stays true up to the commit time stamp,
because whoever writes there later has drawn a later one (`Validated`, `Settled`,
`LaterThanReaders`, `LaterThanCommits`). That time stamps are drawn before validation (464,
472) is what makes this delicate: between the two, another tasklet may be decided.
`Serializability` and `Opacity` follow for all batches. Reads of a value that was being
rolled back (`dirty`) are excepted, as in the properties.

`DeterministicOrder` is `Spec /\ DetBatch => []DetOrderUnlessFailed`. The invariant
`TurnsOK` counts: twice the number of turns taken (`Turns`: committed or validating) is at
most the clock; as long as none has failed, every number below the clock has had its turn,
and its commit time stamp is that of the number (`InTurn`). `DetBatch` says that a batch has
deterministic transactions only, numbered without doubles, which all write. Writing is
needed because a deterministic transaction without writes leaves before it draws a time
stamp and so is not in the order of commits at its turn; optimistic ones advance the clock
without a turn. In the program, `PhasesSeparated` keeps them out of the phase. All
deterministic transactions of the application write.

### AvlProofs

For every number of tasklets and nodes, every finite set of keys and every batch of inserts
and finds (`AvlAssumption`: keys are positive, `Null` and `Tree` are not nodes):

- `TypesCorrect`: `Spec => []TypeOK`,
- `NodesKept`: `Spec => []OnlyKeptNodes`,
- `RowsStay`: `Spec => CommittedStays`: no step changes a row of the committed tree unless it
  finishes a transaction. It is the part of `TableImplemented` that is about steps in the
  middle of a transaction; that a commit adds exactly the rows inserted is left to TLC.

That a new node never gets into the committed tree is not inductive: it depends on what
tasklets hold in local variables and have stored under locks, and a rotation may hold a node
of somebody else. The invariant is `Typed /\ (tainted # {} \/ Pure)`. `Typed` gives every
descriptor, every log and every value on its way its type and ties it to the place in the
code. `Pure` has three parts:

- `Locks`: a tasklet's log has exactly the words it has locked;
- `Fixed`: the committed root and the committed links of committed nodes lead to committed
  nodes, and those of a tasklet's new nodes to committed nodes or its own (`Own`);
- `Sane`: what a tasklet points to, and what it has stored into (`Holds`), is committed, its
  own, or of a tasklet from which it has directly read something uncommitted (`Span`); and
  if it is more than committed or its own, the tasklet is `Doomed`.

A tasklet is doomed when one of the words that it has read directly, or is about to, and that
its rotation has still to store before it returns (`Pending`) is `Blocked`: locked by a
tasklet that `rawRead` names, or committed by it since. A step keeps this in one of four
ways, with a lemma each:

- A load (`LoadPure`) returns committed words or the tasklet's own, unless it is dirty,
  and then `tainted` says so.
- A direct read (`ReadPure`) may return a word of somebody else, and then dooms the
  tasklet: the word is among those it has still to store.
- A store (`StorePure`) of a blocked word is refused, or is taken back at once because the
  word is stale; a word that is not blocked keeps a doomed tasklet doomed.
- When the other tasklet commits, its nodes are committed and the word is stale for the
  rotation (`CommittedPure`). When it rolls back, that is `tainted`, of which nothing is said
  (`RollBackPure` is about all other rollbacks).

So the proof says which accesses of the code make the direct reads harmless: those by which
each rotation later stores the very words it has read. The cases they do not cover are the
rollback of what was read directly, and dirty loads.

The steps of the code enter through `StepIs`: each of them begins, allocates, commits,
aborts, or loads, reads or stores one word it has a pointer to (`Accesses`), so that the
lemmas above need not go by action.

From `Pure`, `LevelsKept` and `BelowSame` go down the tree level by level (`SetInduction`),
and `SameContents` concludes that the rows are the same as long as the committed words of
committed nodes are; `StepKeeps` shows this of every step but the commit.

### AllocLifeProofs

For every number of tasklets, word width, memory layout and set of object sizes
(`AllocAssumption`, `SizesAssumption`): `AccountsCorrect`, `BlocksDisjoint` and
`CommittedKept`, the three properties of `alloc_life`. The inductive invariant says where
each phase has put the blocks (`LoadLayout`, `RunLayout`), and that nothing is left tentative
when the load is over, which is what its last commit does and what rebalancing needs.
Rebalancing establishes `RunLayout`, bases at least a block's
size apart (`SharesApart`, the only nonlinear arithmetic), and `BlockStep` shows that
malloc, commit and revert keep base and size of a block. `SizesAssumption` says that no
object is so large that an address plus its size wraps around a word.

### HostProofs

For every number of threads and DPUs and every workload (`ThreadsAssumption`,
`HostAssumption`).

`BatchesWhole`: `Spec => []NoTornBatch`. The property says nothing of threads at the
barrier, so it is not inductive. The invariant (`StagesKept`) has two parts. `BarrierOK`: as
long as the barrier is closed its counter is the number of threads that sleep at it.
`Stages`: the threads are together in one of three stages, `Starting`, `Building` or
`Copying`; each is at a place of that stage or has come to the barrier, and only the thread
that comes last, which the counter recognises (`LastOne`), opens it. The notification takes
all threads to the next stage (`WakeStep`). That a thread which has left for good
(`running_`) stops the others, `host_stop`, is no exception: the barrier just stays closed.

On top of the stages, `PlacesKept` says where every sub-transaction is. `Partition`: not
queued yet, in the queue, in the batch under construction, in a DPU's memory, or run; in two
of these never. `Singly`: in its place it stands once. A batch stays where it was after it
has been copied and run, so what a place holds depends on the stage: `InBatch` and `InInput`
are the batches not copied yet and the inputs not launched yet. `SumsOK` ties the counters
to the places: `n_transactions` is the number of sub-transactions queued, `n_thread[h]` of
those in the batches of helper h, `n_commited` of those that have been added up. From it:

- `RunAtMostOnce`: `Spec => []RunOnce`;
- `StopLeavesNothing`: `Spec => []NothingLeftBehind`: the counters agree only when nothing
  is left in front of the DPUs, and by the time the main thread is let out of `join` the
  launch is over;
- `NothingWithoutRoom`: `Spec => []StartNeedsRoom`: as long as the main thread queues, the
  stage is `Starting`, where nothing has left a queue (`StartOK`).

### DpuRoundsProofs

For every number of DPUs and tasklets (`HostAssumption`).

`PhasesSeparated`: `Spec => []PhasesApart`, for every workload, mixed batches included. The
invariant says of each tasklet in a round that the deterministic transactions before its
position, and all once it has come to the barrier, are committed (`Done`), that either all
tasklets are beyond the barrier or none is (`Beyond`), and that a DPU is idle while its
batch changes (`Idle`). It holds whatever is in the sequences, so it needs no type for their
elements (`IsSeq`).

`CountsAgree`: `Spec => []ClockKeepsUp`, for every workload. The invariant (`Tally`): the
clock plus the number of entries of the batch that are still to be committed (`Left`) is
what the host has numbered plus the failed attempts.

`ExecOrderKept`: `Spec /\ DetFirst => []ExecOrder`. `OrderInv`: the time stamps of the
deterministic transactions of a batch differ, belong to the round and are in the order of
`exec` (`Numbered`); as long as nothing has failed, the clock stands at the first time stamp
that is not committed (`InTurn`), and what is in the log comes before what is in the batch,
and that before what is in the queue (`LogInOrder`). `DetFirst` speaks of the workload: when
a queue is cut every `NR_TASKLETS * BATCH_SIZE` entries, each piece has its deterministic
transactions in front. `Cut` shows that these pieces are the batches. Without it the
statement is out of reach for the reason `dpu_mixed` shows: an optimistic transaction in
front of a deterministic one counts in its number and commits after it.

### ApplicationProofs

`OrderLineKeysDiffer`: with the constants of `app_common.h` (`AppCommon`) and keys modulo
2^32, two lines of orders on one DPU have different keys for order numbers up to a million.
This is not by digits: line 15 and district 10 overflow theirs, and keys wrap around after
11012 orders. Two equal keys would differ by a multiple of 2^32 = 39000 a + b with |b| <=
14, which no multiple up to 91 is (`NoClash`). `RemoteMisses`: the key `payment_remote`
looks for is never that of a customer of its DPU. `NumbersNeverReused`: `Spec =>
[]NumbersFresh`, for all constants and whatever the parameters say, even on a DPU that is
`wild`. The invariant (`TablesOK`, kept by each of the four transactions) adds that
districts never disappear and have integers for numbers. Nothing is needed of keys: an order
inserted over another one has the larger number.

`NothingRunsAfterTooLong`: `Spec /\ ParamsFit => []NothingRunsIfTooLong`. Encoding is a fold
over the fields; that it ends with the cells of all of them, and fails exactly when their
bytes reach `N_PARAMS`, is an induction over the fields (`Has`, from `FoldExists`).
`ParamsFit`, `N_PARAMS > 29`, says that payments (29 bytes) and requests of status fit; the
code has 56 (`communication.h:5`).

`NullOnlyIfRemote`: `Spec /\ AppCommon /\ WarehousesFit => []NullIfRemote`. `PaymentDecoded`
and `StatusDecoded` show that the DPU decodes what the client encoded: numbers in one or two
cells, and the amount from the bits of a float. The invariant (`PartsInv`) says that a DPU
is only given parts that are its own (`Part`), and that its tables are whole (`TablesWhole`)
until a remote payment has been there: districts, customers and the customers' orders are
under the keys that are looked for, and customers are who their keys say. `WarehousesFit`,
at most `MAX_WAREHOUSE_ID` warehouses, is what the keys are made for (`app_common.h`); the
program itself does not compare the two.

`BooksAlwaysAgree`: `Spec /\ AppCommon /\ WarehousesFit => []BooksAgree`. The sums of the
property are folds over sets of positions in `done`; `SumAnyOrder` shows that a sum does not
depend on the order in which the fold takes them, and `TotalMore` what one more transaction
adds. `Books` says what each transaction does to the accounts, with rounding, and `BooksInv` that
they are the sums as far as these are below `EXACT`: `BookMore` shows that a sum which is still below
has only been below before, so that nothing of it was rounded. For that, each account
only grows or only falls, and initial sums are below `EXACT` themselves
(`ApplicationAssumption`; they are at most 300000). `FloatsDiffer` shows that amounts from 1 to
5000 differ in the bits of their floats, so that the DPU decodes the amount that was encoded;
it is an argument about exponents and fractions, power by power (`PowersAre`, `FractionIs`).
That customers have different keys is what keeps a payment from reaching somebody
else's account.

`OrdersAlwaysPlaced`, `ItemsAlwaysShifted` and `StatusAlwaysComplete`: `Spec /\ AppCommon /\
WarehousesFit /\ []NumbersFit` implies that `OrdersPlaced`, `ItemsShifted` and
`StatusComplete` always hold. The invariant `OrdersInv` says of every district of a DPU that
has not been `wild` that its next number is one more than the orders loaded and the orders in
`done` (`OrdersOf`), that each number up to there has its order with all its lines
(`Entire`), and that what was inserted for a call of `done` is still what that call asks for
(`IsFor`). The steps of the argument:

- `OrderDecoded`: the DPU decodes the order the client encoded, with every item one place
  further on; `OrderDone` says what `new_order` then puts into which table.
- `OrderKeysDiffer` and `OrderLineKeysDiffer`: the keys of the new order and of its lines are
  those of no other order, so that earlier orders keep their rows (`RowsStay`, `OrdersGrow`).
  Without this the statement is false: a line inserted under the key of another replaces it.
- `AllLinesFound`: the loop of `order_status` then finds the lines 1 to `o_ol_cnt`;
  `LoadedOrders` and `ReadsGrow` start and continue the argument over all that was read.

`NumbersFit` says that no district has come to number 1,000,000, the range for which keys are
shown to differ. It is not a restriction on the calls: an order has at least five lines, a row
of a line and its tree node take 64 bytes (`application.h:92-104`, `avl_tree.h:11-19`), so
997,000 orders of one district would need more than 300,000,000 bytes where the DPU's
allocator ends at 62,000,000 (`alloc.c:35`). Memory is not part of `Application`, which is
why the condition has a name instead. `FewNumbersFit`
shows that executions satisfy it: `Spec /\ AppCommon /\ WarehousesFit /\ FewTxs =>
[]NumbersFit`, where `FewTxs`, fewer than 996,999 calls, is enough because a DPU has at most
one part of each (`CountInv`). The 32,000,000 calls of `tpcc.cpp:12` are spread over all
warehouses and their districts.

Induction. The library's induction theorems take an operator as a parameter, which no
installed prover instantiates. `NatLemmas` states induction on sets (`NatMin`: a non-empty
set of naturals has a least element; `SetInduction`), from the well-foundedness of the
naturals. That is enough for the folds above, which are functions on finite sets.

Only model-checked: of the tree, `TreeOK`, `NothingThroughNull`, `FindsSnapshot` and
`TableImplemented`. They speak of heights, of the order of all keys below a node, or of the
path a key is found on: their invariant is the shape of a half-finished rotation in a tree of
any size, an induction over trees. Further, all liveness (`DetPhaseEnds`, `EverythingRuns`,
`EverythingCommits`), which the prover cannot treat, nor `ENABLED`; and the statements that do
not hold.

## 5. Not modelled

- The choice between loading and a round (`dpu_main.c:14`). Tasklets other than 0 must
  read `dpu_id` before tasklet 0 has loaded the warehouse and cleared it. They do, by millions of
  instructions, because the hardware starts all at once; a model has no such clock, and would
  either show a hang that no DPU reaches or assume what is to be shown.
- The cache of `CACHE_SIZE` entries in `scheduler.c`: a copy of what is run next.
- The tables of items, stock and history, which are loaded (or not) and never read;
  words of the transactional memory that overlap, as the byte `c_payment_cnt` and its
  neighbours do (what carries over is the next byte, `c_delivery_cnt`, which nobody reads);
  texts and dates.
- Random numbers and the time of day, arguments and printed results.
- Spurious wake-ups of condition variables; the hardware mutexes behind
  `acquire`/`release` (an access to a lock word or to the clock is one step); the copy
  between host and DPU (the SDK's).

## 6. Plan

Written: all modules of section 2 and the proofs of section 4. Left:

1. Of the tree, that the rotations keep `Ordered` and the heights, with the shape of a
   half-finished rotation as invariant: what separates `RowsStay` from `TableImplemented`.
2. A refinement from `TM` with deterministic batches to the gate of `DpuRounds`.
