---------------------------------- MODULE TM ----------------------------------
(***************************************************************************)
(* The transactional memory of a DPU (src/dpu/tm.c, tm.h).  The tasklets   *)
(* share a clock and a table of versioned locks; a store takes the lock of *)
(* its word when it is encountered, logs the old value and writes in       *)
(* place.  One action is one access to what the tasklets share: loading a  *)
(* lock word, reading a value, a compare-and-swap, an increment, one step  *)
(* of a validation, of an undo or of the release of the locks.             *)
(***************************************************************************)
EXTENDS MramAlloc, Sequences, FiniteSetsExt

CONSTANTS
  Addr,        \* words of MRAM
  Val,         \* values of a word
  InitVal,     \* the value every word has at first
  Lock,        \* entries of lock_table
  NoLock,      \* NULL in w_entry.lock
  LOCK_ADDR,   \* LOCK_ADDR[a], the lock that covers word a
  R_SET_SIZE,  \* capacity of a read set
  W_SET_SIZE,  \* capacity of a write set
  Programs,    \* the batches the tasklets may be given
  MaxClock,    \* bound: no commit is attempted once the clock is there
  MaxOps       \* bound: the most accesses of a transaction

NoTx == NR_TASKLETS

DETERMINISTIC == "DET"
OPTIMISTIC    == "OPT"

Operation == [kind: {"load"}, addr: Addr]
               \cup [kind: {"store"}, addr: Addr, val: Val]
               \cup [kind: {"alloc"}, size: Nat \ {0}]

\* The body of a transaction is the list of its accesses; ts is its c_ts.
Transaction == [mode: {DETERMINISTIC, OPTIMISTIC}, ts: Nat, ops: Seq(Operation)]

ASSUME TMAssumption ==
  /\ InitVal \in Val
  /\ NoLock \notin Lock
  /\ LOCK_ADDR \in [Addr -> Lock]
  /\ R_SET_SIZE \in Nat /\ W_SET_SIZE \in Nat /\ MaxClock \in Nat /\ MaxOps \in Nat
  /\ Programs \subseteq [Tasklet -> Seq(Transaction)]

VARIABLES
  clock,       \* the clock: even, twice the number of commits attempted
  lock_table,  \* the lock words
  mem,         \* MRAM
  prog,        \* the batch being run
  pc,          \* where each tasklet is
  tx,          \* the transaction descriptors, tx_array
  reg,         \* local variables of the tasklets
  \* The history, which no guard reads.
  view,        \* what the running transaction of each tasklet has read
  committed    \* the transactions that committed, and what they had read

shared == <<clock, lock_table, mem>>
alloc  == <<blocks, halted>>
ghosts == <<view, committed>>
vars   == <<shared, prog, pc, tx, reg, alloc, ghosts>>

\* A lock word: a version, or a pointer to entry j of tasklet t's write set.
Free(v)     == [own |-> NoTx, val |-> v]
Owned(t, j) == [own |-> t, val |-> j]
Locked(w)   == w.own # NoTx
LockWord    == [own: Tasklet \cup {NoTx}, val: Nat]

WEntry == [addr: Addr, lock: Lock \cup {NoLock}, version: Nat, value: Val]

NewTx == [r_set |-> <<>>, w_set |-> <<>>, ts |-> 0, c_ts |-> 0, aborted |-> FALSE]
NewView == [reads |-> {}, dirty |-> FALSE]

\* n: transaction; k: its operation; i: loop counter; lock_v, value, commit_ts.
Fresh(n, k) == [n |-> n, k |-> k, i |-> 0, lock_v |-> Free(0), value |-> InitVal, commit_ts |-> 0]

Tx(t)   == prog[t][reg[t].n]
Op(t)   == Tx(t).ops[reg[t].k]
L(t)    == LOCK_ADDR[Op(t).addr]
WSet(t) == tx[t].w_set

\* w >= entries && w < entries + n_entries
OwnLock(t, w) == w.own = t /\ w.val \in DOMAIN WSet(t)

Init ==
  /\ clock = 0
  /\ lock_table = [l \in Lock |-> Free(0)]
  /\ mem = [a \in Addr |-> InitVal]
  /\ prog \in Programs
  /\ pc = [t \in Tasklet |-> IF prog[t] = <<>> THEN "done" ELSE "start"]
  /\ tx = [t \in Tasklet |-> NewTx]
  /\ reg = [t \in Tasklet |-> Fresh(1, 1)]
  /\ LET size == (MRAM_LIMIT - HEAP) \div NR_TASKLETS
     IN  blocks = [t \in Tasklet |-> EmptyBlock(HEAP + t * size, size)]
  /\ halted = FALSE
  /\ view = [t \in Tasklet |-> NewView]
  /\ committed = {}

------------------------------------------------------------------------------
(* Control *)

Goto(t, label) == pc' = [pc EXCEPT ![t] = label]

\* Where operation k of tasklet t's transaction begins; tm_commit is the last.
Label(t, k) ==
  IF k \in DOMAIN Tx(t).ops THEN Tx(t).ops[k].kind
  ELSE IF Tx(t).mode = DETERMINISTIC THEN "cm_wait" ELSE "cm_inc"

NextOp(t) ==
  /\ Goto(t, Label(t, reg[t].k + 1))
  /\ reg' = [reg EXCEPT ![t] = Fresh(@.n, @.k + 1)]

NextTx(t) ==
  /\ Goto(t, IF reg[t].n < Len(prog[t]) THEN "start" ELSE "done")
  /\ reg' = [reg EXCEPT ![t] = Fresh(@.n + 1, 1)]
  /\ view' = [view EXCEPT ![t] = NewView]

\* tm_abort, of a transaction with n entries in its write set.
Abort(t, n) ==
  /\ Goto(t, IF n = 0 THEN "ab_end" ELSE "ab_undo")
  /\ reg' = [reg EXCEPT ![t] = [Fresh(@.n, 1) EXCEPT !.i = n]]
  /\ view' = [view EXCEPT ![t] = NewView]

\* An assert of tasklet t fails and the DPU stops.
AssertFails ==
  /\ halted' = TRUE
  /\ UNCHANGED <<shared, prog, pc, tx, reg, blocks, ghosts>>

\* Tasklet t is at label, and no assert has stopped the DPU.
At(t, label) == pc[t] = label /\ ~ halted

\* The contention manager: does t give up in favour of other?
CmAbort(t, other) == Tx(t).mode = OPTIMISTIC \/ tx[t].c_ts > tx[other].c_ts

------------------------------------------------------------------------------
Start(t) ==
  /\ At(t, "start")
  /\ Goto(t, Label(t, 1))
  /\ tx' = [tx EXCEPT ![t] = [NewTx EXCEPT !.ts = clock, !.c_ts = 2 * Tx(t).ts]]
  /\ UNCHANGED <<shared, prog, reg, alloc, ghosts>>

Malloc(t) ==
  /\ At(t, "alloc")
  /\ \/ Refused(t, Op(t).size) /\ AssertFails
     \/ /\ mram_malloc(t, Op(t).size)
        /\ NextOp(t)
        /\ UNCHANGED <<shared, prog, tx, halted, ghosts>>

(* tm_load *)
LoadLock(t) ==
  /\ At(t, "load")
  /\ reg' = [reg EXCEPT ![t].lock_v = lock_table[L(t)]]
  /\ Goto(t, "ld_value")
  /\ UNCHANGED <<shared, prog, tx, alloc, ghosts>>

LoadValue(t) ==
  /\ At(t, "ld_value")
  /\ \/ /\ tx[t].aborted
        /\ Abort(t, Len(WSet(t)))
     \/ /\ ~ tx[t].aborted
        /\ reg' = [reg EXCEPT ![t].value = mem[Op(t).addr]]
        /\ Goto(t, "ld_again")
        /\ UNCHANGED view
  /\ UNCHANGED <<shared, prog, tx, alloc, committed>>

\* Mutant: whatever the version.
UnchangedAnyVersion(t) == ~ Locked(reg[t].lock_v) /\ lock_table[L(t)] = reg[t].lock_v

\* The lock still has the version seen at first, and it is not too new.
Unchanged(t) ==
  /\ ~ Locked(reg[t].lock_v)
  /\ lock_table[L(t)] = reg[t].lock_v
  /\ tx[t].ts >= reg[t].lock_v.val

\* A value the transaction had not written itself enters its view.
Sees(t) ==
  LET a == Op(t).addr
      own == \E j \in DOMAIN WSet(t) : WSet(t)[j].addr = a
  IN view' = IF own THEN view
             ELSE [view EXCEPT ![t] = [reads |-> @.reads \cup {<<a, reg[t].value>>},
                                       dirty |-> @.dirty \/ reg[t].value # mem[a]]]

LoadDone(t) ==
  /\ At(t, "ld_again")
  /\ Unchanged(t) \/ OwnLock(t, reg[t].lock_v)
  /\ IF Unchanged(t)
     THEN /\ Len(tx[t].r_set) < R_SET_SIZE
          /\ tx' = [tx EXCEPT ![t].r_set = Append(@, L(t))]
     ELSE UNCHANGED tx
  /\ Sees(t)
  /\ NextOp(t)
  /\ UNCHANGED <<shared, prog, alloc, committed>>

ReadSetFull(t) ==
  /\ At(t, "ld_again")
  /\ Unchanged(t)
  /\ Len(tx[t].r_set) >= R_SET_SIZE
  /\ AssertFails

\* Locked by another transaction, or changed, or too new.
LoadConflict(t) ==
  LET w == reg[t].lock_v IN
  /\ At(t, "ld_again")
  /\ ~ Unchanged(t) /\ ~ OwnLock(t, w)
  /\ IF Locked(w) /\ ~ CmAbort(t, w.own)
     THEN /\ tx' = [tx EXCEPT ![w.own].aborted = TRUE]
          /\ Goto(t, "load")
          /\ reg' = [reg EXCEPT ![t] = Fresh(@.n, @.k)]
          /\ UNCHANGED view
     ELSE /\ Abort(t, Len(WSet(t)))
          /\ UNCHANGED tx
  /\ UNCHANGED <<shared, prog, alloc, committed>>

(* tm_store *)

\* Log the old value and write through; give up when the version is too new.
WriteThrough(t, lock, version) ==
  LET a == Op(t).addr IN
  /\ tx' = [tx EXCEPT ![t].w_set = Append(@, [addr |-> a, lock |-> lock,
                                              version |-> version, value |-> mem[a]])]
  /\ mem' = [mem EXCEPT ![a] = Op(t).val]
  /\ IF version > tx[t].ts THEN Abort(t, Len(WSet(t)) + 1)
                           ELSE NextOp(t) /\ UNCHANGED view
  /\ UNCHANGED <<clock, prog, alloc, committed>>

WriteSetFull(t) ==
  /\ At(t, "store")
  /\ Len(WSet(t)) >= W_SET_SIZE
  /\ AssertFails

StoreOwn(t) ==
  LET w == lock_table[L(t)] IN
  /\ At(t, "store")
  /\ OwnLock(t, w)
  /\ Len(WSet(t)) < W_SET_SIZE
  /\ WriteThrough(t, NoLock, WSet(t)[w.val].version)
  /\ UNCHANGED lock_table

StoreLock(t) ==
  LET w == lock_table[L(t)] IN
  /\ At(t, "store")
  /\ ~ OwnLock(t, w)
  /\ Len(WSet(t)) < W_SET_SIZE
  /\ \/ /\ tx[t].aborted
        /\ Abort(t, Len(WSet(t)))
     \/ /\ ~ tx[t].aborted
        /\ reg' = [reg EXCEPT ![t].lock_v = w]
        /\ Goto(t, IF Locked(w) THEN "st_cm" ELSE "st_cas")
        /\ UNCHANGED view
  /\ UNCHANGED <<shared, prog, tx, alloc, committed>>

StoreConflict(t) ==
  LET other == reg[t].lock_v.own IN
  /\ At(t, "st_cm")
  /\ IF CmAbort(t, other)
     THEN /\ Abort(t, Len(WSet(t)))
          /\ UNCHANGED tx
     ELSE /\ tx' = [tx EXCEPT ![other].aborted = TRUE]
          /\ Goto(t, "store")
          /\ reg' = [reg EXCEPT ![t] = Fresh(@.n, @.k)]
          /\ UNCHANGED view
  /\ UNCHANGED <<shared, prog, alloc, committed>>

\* Mutant: a store instead of a compare-and-swap.
BlindSwap(t) ==
  /\ At(t, "st_cas")
  /\ lock_table' = [lock_table EXCEPT ![L(t)] = Owned(t, Len(WSet(t)) + 1)]
  /\ Goto(t, "st_write")
  /\ UNCHANGED <<clock, mem, prog, tx, reg, alloc, ghosts>>

Cas(t) ==
  /\ At(t, "st_cas")
  /\ \/ /\ lock_table[L(t)] = reg[t].lock_v
        /\ lock_table' = [lock_table EXCEPT ![L(t)] = Owned(t, Len(WSet(t)) + 1)]
        /\ Goto(t, "st_write")
        /\ UNCHANGED reg
     \/ /\ lock_table[L(t)] # reg[t].lock_v
        /\ Goto(t, "store")
        /\ reg' = [reg EXCEPT ![t] = Fresh(@.n, @.k)]
        /\ UNCHANGED lock_table
  /\ UNCHANGED <<clock, mem, prog, tx, alloc, ghosts>>

StoreWrite(t) ==
  /\ At(t, "st_write")
  /\ WriteThrough(t, L(t), reg[t].lock_v.val)
  /\ UNCHANGED lock_table

(* tm_commit *)
\* Mutant: the gate opens one turn too early.
CommitWaitLess(t) ==
  /\ At(t, "cm_wait")
  /\ Goto(t, IF clock + 2 < tx[t].c_ts THEN "cm_flag" ELSE "cm_inc")
  /\ UNCHANGED <<shared, prog, tx, reg, alloc, ghosts>>

CommitWait(t) ==
  /\ At(t, "cm_wait")
  /\ Goto(t, IF clock < tx[t].c_ts THEN "cm_flag" ELSE "cm_inc")
  /\ UNCHANGED <<shared, prog, tx, reg, alloc, ghosts>>

\* Mutant: nobody looks at the flag at the gate.
CommitFlagIgnored(t) ==
  /\ At(t, "cm_flag")
  /\ Goto(t, "cm_wait")
  /\ UNCHANGED <<shared, prog, tx, reg, alloc, ghosts>>

CommitFlag(t) ==
  /\ At(t, "cm_flag")
  /\ \/ tx[t].aborted /\ Abort(t, Len(WSet(t)))
     \/ ~ tx[t].aborted /\ Goto(t, "cm_wait") /\ UNCHANGED <<reg, view>>
  /\ UNCHANGED <<shared, prog, tx, alloc, committed>>

\* The transaction is committed; it takes effect at time "at".
Record(t, at) ==
  committed' = committed \cup {[t |-> t, n |-> reg[t].n, at |-> at, reads |-> view[t].reads,
                                dirty |-> view[t].dirty]}

\* The locks are about to be released: the transaction cannot fail any more.
Decide(t, ts) ==
  /\ Goto(t, "cm_drop")
  /\ reg' = [reg EXCEPT ![t] = [Fresh(@.n, 1) EXCEPT !.i = 1, !.commit_ts = ts]]
  /\ Record(t, ts)

\* Mutant: one commit since the start is let pass.
NoneSinceStartButOne(t, ts) == tx[t].ts >= ts - 4

\* No other commit was attempted since the transaction started.
NoneSinceStart(t, ts) == tx[t].ts = ts - 2

\* The clock is incremented.  A transaction without writes is done; it takes
\* effect at its ts, just after the commit of that time.
CommitInc(t) ==
  LET ts == clock + 2 IN
  /\ At(t, "cm_inc")
  /\ clock < MaxClock
  /\ clock' = ts
  /\ \/ /\ WSet(t) = <<>>
        /\ Record(t, tx[t].ts + 1)
        /\ NextTx(t)
     \/ /\ WSet(t) # <<>>
        /\ NoneSinceStart(t, ts) \/ tx[t].r_set = <<>>
        /\ Decide(t, ts)
        /\ UNCHANGED view
     \/ /\ WSet(t) # <<>>
        /\ ~ NoneSinceStart(t, ts) /\ tx[t].r_set # <<>>
        /\ Goto(t, "cm_check")
        /\ reg' = [reg EXCEPT ![t] = [Fresh(@.n, 1) EXCEPT !.i = 1, !.commit_ts = ts]]
        /\ UNCHANGED ghosts
  /\ UNCHANGED <<lock_table, mem, prog, tx, alloc>>

\* Mutant: locks of others do not matter.
CoherentIfLocked(t, w) == Locked(w) \/ w.val <= tx[t].ts

\* A lock word in the read set is still good for a transaction that started at ts.
Coherent(t, w) ==
  IF Locked(w) THEN OwnLock(t, w) /\ WSet(t)[w.val].version <= tx[t].ts
               ELSE w.val <= tx[t].ts

\* read_set_coherent, one entry at a time
CommitCheck(t) ==
  LET i == reg[t].i
      w == lock_table[tx[t].r_set[i]]
  IN
  /\ At(t, "cm_check")
  /\ \/ ~ Coherent(t, w) /\ Abort(t, Len(WSet(t))) /\ UNCHANGED committed
     \/ /\ Coherent(t, w) /\ i < Len(tx[t].r_set)
        /\ reg' = [reg EXCEPT ![t].i = @ + 1]
        /\ UNCHANGED <<pc, ghosts>>
     \/ Coherent(t, w) /\ i = Len(tx[t].r_set) /\ Decide(t, reg[t].commit_ts) /\ UNCHANGED view
  /\ UNCHANGED <<shared, prog, tx, alloc>>

\* Release the lock of entry i of the write set, if it has one, with a version.
Release(t, i, version) ==
  lock_table' = [l \in Lock |-> IF l = WSet(t)[i].lock THEN Free(version) ELSE lock_table[l]]

\* Entries are released from the first to the last.
ReleaseLoop(t, last) ==
  LET i == reg[t].i IN
  /\ Goto(t, IF i < Len(WSet(t)) THEN pc[t] ELSE last)
  /\ reg' = [reg EXCEPT ![t].i = i + 1]
  /\ UNCHANGED <<clock, mem, prog, tx, alloc, ghosts>>

CommitDrop(t) ==
  /\ At(t, "cm_drop")
  /\ Release(t, reg[t].i, reg[t].commit_ts)
  /\ ReleaseLoop(t, "cm_end")

CommitEnd(t) ==
  /\ At(t, "cm_end")
  /\ mram_malloc_commit(t)
  /\ NextTx(t)
  /\ UNCHANGED <<shared, prog, tx, halted, committed>>

\* Mutant: the oldest entry is left out.
UndoesMoreEarly(i) == i > 2

\* Mutant: the loop runs once too often.
UndoesMoreLate(i) == i > 0

\* There are entries to undo after entry i.
UndoesMore(i) == i > 1

(* tm_abort: entries are undone from the last to the first *)
AbortUndo(t) ==
  LET i == reg[t].i
      w == WSet(t)[i]
  IN
  /\ At(t, "ab_undo")
  /\ mem' = [mem EXCEPT ![w.addr] = w.value]
  /\ Goto(t, IF UndoesMore(i) THEN "ab_undo" ELSE "ab_drop")
  /\ reg' = [reg EXCEPT ![t].i = IF UndoesMore(i) THEN i - 1 ELSE 1]
  /\ UNCHANGED <<clock, lock_table, prog, tx, alloc, ghosts>>

\* Mutant: every lock gets the version of the first one.
AbortDropFirstVersion(t) ==
  /\ At(t, "ab_drop")
  /\ Release(t, reg[t].i, WSet(t)[1].version)
  /\ ReleaseLoop(t, "ab_end")

AbortDrop(t) ==
  /\ At(t, "ab_drop")
  /\ Release(t, reg[t].i, WSet(t)[reg[t].i].version)
  /\ ReleaseLoop(t, "ab_end")

AbortEnd(t) ==
  /\ At(t, "ab_end")
  /\ mram_malloc_revert(t)
  /\ Goto(t, "start")
  /\ reg' = [reg EXCEPT ![t] = Fresh(@.n, 1)]
  /\ UNCHANGED <<shared, prog, tx, halted, ghosts>>

------------------------------------------------------------------------------
Load(t)   == LoadLock(t) \/ LoadValue(t) \/ LoadDone(t) \/ ReadSetFull(t) \/ LoadConflict(t)
Store(t)  == StoreOwn(t) \/ StoreLock(t) \/ StoreConflict(t) \/ Cas(t) \/ StoreWrite(t)
               \/ WriteSetFull(t)
Commit(t) == CommitWait(t) \/ CommitFlag(t) \/ CommitInc(t) \/ CommitCheck(t) \/ CommitDrop(t)
               \/ CommitEnd(t)
Undo(t)   == AbortUndo(t) \/ AbortDrop(t) \/ AbortEnd(t)

Step(t) == Start(t) \/ Malloc(t) \/ Load(t) \/ Store(t) \/ Commit(t) \/ Undo(t)

\* The kernel returns, a fault has stopped it, or MaxClock is reached.
Stopped == halted \/ clock >= MaxClock \/ \A t \in Tasklet : pc[t] = "done"

Terminating == Stopped /\ UNCHANGED vars

Next == (\E t \in Tasklet : Step(t)) \/ Terminating

Spec == Init /\ [][Next]_vars

\* Tasklet t is trying to read or to take the lock of its operation k, which
\* is free at the moment.
TriesFreeLock(t, k) ==
  /\ pc[t] \in {"load", "ld_value", "ld_again", "store", "st_cm", "st_cas"}
  /\ reg[t].k = k
  /\ ~ Locked(lock_table[L(t)])

\* Every tasklet runs.  A transaction that aborts waits for a time that doubles
\* with every retry (backoff, tm.c:228-254), far longer than the few instructions
\* of one attempt to get a lock: when a lock is free again and again while a
\* tasklet tries to get it, not every one of the attempts is disturbed.
Fairness ==
  \A t \in Tasklet :
    /\ WF_vars(Step(t))
    /\ \A k \in 1 .. MaxOps : []<>TriesFreeLock(t, k) => []<>(reg[t].k > k)

FairSpec == Spec /\ Fairness

------------------------------------------------------------------------------
(* Properties *)

Running == {"load", "ld_value", "ld_again", "store", "st_cm", "st_cas", "st_write", "alloc",
            "cm_wait", "cm_flag", "cm_inc", "cm_check", "ab_undo"}
Releasing == {"cm_drop", "ab_drop"}
Labels == Running \cup Releasing \cup {"start", "cm_end", "ab_end", "done"}

TxType  == [r_set: Seq(Lock), w_set: Seq(WEntry), ts: Nat, c_ts: Nat, aborted: BOOLEAN]
RegType == [n: Nat \ {0}, k: Nat \ {0}, i: Nat, lock_v: LockWord, value: Val, commit_ts: Nat]
View    == [reads: SUBSET (Addr \X Val), dirty: BOOLEAN]
Commits == [t: Tasklet, n: Nat \ {0}, at: Nat, reads: SUBSET (Addr \X Val), dirty: BOOLEAN]

Types ==
  /\ clock \in Nat
  /\ lock_table \in [Lock -> LockWord]
  /\ mem \in [Addr -> Val]
  /\ prog \in [Tasklet -> Seq(Transaction)]
  /\ pc \in [Tasklet -> Labels]
  /\ tx \in [Tasklet -> TxType]
  /\ reg \in [Tasklet -> RegType]
  /\ blocks \in [Tasklet -> Block]
  /\ halted \in BOOLEAN
  /\ view \in [Tasklet -> View]
  /\ committed \subseteq Commits

\* The loops stay inside the sets they walk, and the sets inside their arrays.
InBounds(t) ==
  /\ pc[t] \in Releasing \cup {"ab_undo"} => reg[t].i \in DOMAIN WSet(t)
  /\ pc[t] = "cm_check" => reg[t].i \in DOMAIN tx[t].r_set
  /\ Len(tx[t].r_set) <= R_SET_SIZE
  /\ Len(WSet(t)) <= W_SET_SIZE

(* Every variable has its type; the loops of a validation, an undo or a     *)
(* release (tm.c:111,151,176,190) and the arrays of the read and the write  *)
(* set (tm.c:20-25) are never left.                                         *)
TypeOK == Types /\ \A t \in Tasklet : InBounds(t)

\* The entries of t's write set whose lock t has taken and not yet released.
Holds(t) ==
  {j \in DOMAIN WSet(t) : /\ WSet(t)[j].lock # NoLock
                          /\ \/ pc[t] \in Running
                             \/ pc[t] \in Releasing /\ j >= reg[t].i}

\* t has lock l for entry j, or has just won it and is about to log entry j.
Takes(t, j, l) ==
  \/ j \in Holds(t) /\ WSet(t)[j].lock = l
  \/ pc[t] = "st_write" /\ L(t) = l /\ j = Len(WSet(t)) + 1

(* A lock word that is a pointer points to the entry of a live write set    *)
(* that took it, and a write set entry that has taken a lock finds its own  *)
(* address there until it releases it: no lock is lost, released twice,     *)
(* released by a tasklet that does not hold it, or left behind by a         *)
(* transaction (the ASSERTs of tm.c:158-164 and 197-204, in every step).    *)
LocksMatchWriteSets ==
  \A l \in Lock, t \in Tasklet :
    /\ \A j \in 1 .. Len(WSet(t)) + 1 : lock_table[l] = Owned(t, j) <=> Takes(t, j, l)
    /\ lock_table[l].own = t => lock_table[l].val \in 1 .. Len(WSet(t)) + 1

\* The version of a lock: its own, or the one its owner took it with.
Version(l) ==
  LET w == lock_table[l] IN
  IF ~ Locked(w) THEN w.val
  ELSE IF w.val \in DOMAIN WSet(w.own) THEN WSet(w.own)[w.val].version
  ELSE reg[w.own].lock_v.val

(* A lock never goes back to an older version: a commit raises it, an abort *)
(* restores exactly the one it took (tm.c:166,206,418,432).                 *)
VersionsGrow == [][\A l \in Lock : Version(l)' >= Version(l)]_vars

\* The committed value of a word: what is in memory or, while a transaction
\* that may still abort holds its lock, what the oldest log entry says.
Decided(t) == pc[t] \in {"cm_drop", "cm_end"}

CommittedVal(a) ==
  LET w  == lock_table[LOCK_ADDR[a]]
      js == {j \in DOMAIN WSet(w.own) : WSet(w.own)[j].addr = a}
  IN IF ~ Locked(w) \/ Decided(w.own) \/ js = {} THEN mem[a]
                                               ELSE WSet(w.own)[Min(js)].value

CommittedCount(t) == reg[t].n - (IF Decided(t) THEN 0 ELSE 1)

Memory == INSTANCE AtomicMemory
            WITH Tasklets <- Tasklet, Addrs <- Addr, Zero <- InitVal, program <- prog,
                 store  <- [a \in Addr |-> CommittedVal(a)],
                 done   <- [t \in Tasklet |-> CommittedCount(t)]

(* Writes are atomic: whatever aborts and in whatever order locks are       *)
(* released, the committed values change only as if each transaction had    *)
(* done all its writes at the instant it was decided.                       *)
AtomicWrites == Memory!ASpec

\* The value of word a just before time "at": of the last commit before it.
Writers(a, at) == {h \in committed : h.at < at /\ Memory!Writes(prog[h.t][h.n].ops, a)}

Snapshot(a, at) ==
  IF Writers(a, at) = {} THEN InitVal
  ELSE LET h == CHOOSE h \in Writers(a, at) : \A g \in Writers(a, at) : g.at <= h.at
       IN  Memory!Written(prog[h.t][h.n].ops, a)

FromSnapshot(reads, at) == \A r \in reads : r[2] = Snapshot(r[1], at)

(* Everything a transaction has committed it computed from one state of the *)
(* memory, the one that the commits with smaller time stamps produced: the  *)
(* order of the commit time stamps is a serial order (tm.c:464-476).        *)
(* Transactions that were given another one's uncommitted value are left    *)
(* out: Isolation shows what happens to them.                               *)
Serializable == \A h \in committed : h.dirty \/ FromSnapshot(h.reads, h.at)

(* The same of a transaction that is still running, or that will abort: all *)
(* it has read so far is the memory as of its ts (tm.c:330).  The           *)
(* application chases pointers it has read, it must not see two states.     *)
Opaque == \A t \in Tasklet : view[t].dirty \/ FromSnapshot(view[t].reads, tx[t].ts + 1)

(* README.md:3: "ensuring consistency, atomicity, and isolation".           *)
Isolation == \A h \in committed : FromSnapshot(h.reads, h.at)

\* The allocations of the first n transactions of tasklet t, and the bytes that
\* some allocations are for.
AllocOps(t, n) ==
  UNION {{m} \X {k \in DOMAIN prog[t][m].ops : prog[t][m].ops[k].kind = "alloc"} : m \in 1 .. n}

Bytes(t, ops) == UNION {{op} \X (1 .. prog[t][op[1]].ops[op[2]].size) : op \in ops}

Allocated(t, n) == Cardinality(Bytes(t, AllocOps(t, n)))

(* Between two attempts a tasklet owns exactly the objects its committed    *)
(* transactions allocated, however often they were retried: tm_abort and    *)
(* tm_commit give back or keep all of them (tm.c:480,498).                  *)
AllocsMatchCommits ==
  \A t \in Tasklet :
    pc[t] \in {"start", "done"} => /\ blocks[t].used = Allocated(t, reg[t].n - 1)
                                   /\ blocks[t].t_used = blocks[t].used

\* The transactions that have taken their turn: committed, or at the gate.
Turn(u, m, at) ==
  \/ \E h \in committed : h.t = u /\ h.n = m /\ h.at < at
  \/ pc[u] = "cm_check" /\ reg[u].n = m /\ reg[u].commit_ts < at

\* No commit has been attempted in vain.
NoFailedCommit == clock = 2 * (Cardinality(committed) + Cardinality({t \in Tasklet : pc[t] = "cm_check"}))
\* h comes after every deterministic transaction with a smaller c_ts.
InOrder(h) ==
  prog[h.t][h.n].mode = DETERMINISTIC =>
    \A u \in Tasklet : \A m \in DOMAIN prog[u] :
      prog[u][m].ts < prog[h.t][h.n].ts => Turn(u, m, h.at)

(* Deterministic transactions commit in the order of their c_ts, as long as *)
(* none of them has failed its validation (tm.c:450-464).                   *)
DetOrderUnlessFailed == NoFailedCommit => \A h \in committed : InOrder(h)

(* A batch of deterministic transactions is finished, whatever the order in *)
(* which the tasklets meet: those that hold a lock an older one wants let   *)
(* go of it, also while they wait for their turn (tm.c:210-226,450-460).    *)
DetPhaseEnds == <>(\A t \in Tasklet : pc[t] = "done")

(* The order a deterministic transaction is given is the order it commits   *)
(* in, on every DPU: README.md:3 and 8.                                     *)
DetOrder == \A h \in committed : InOrder(h)
==============================================================================
