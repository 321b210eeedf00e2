---------------------------- MODULE TMSerialProofs ----------------------------
(***************************************************************************)
(* Proofs of what the transactional memory promises its transactions.      *)
(*                                                                         *)
(* Atomicity: whatever the tasklets do between a first store and the       *)
(* release of the last lock, the committed values change only when a       *)
(* transaction is decided, and then all at once; a refinement of           *)
(* AtomicMemory.  The same of the objects of the allocator: a tasklet owns *)
(* those of the transactions it committed.                                 *)
(*                                                                         *)
(* Serial order: what a transaction reads is the memory as of its ts, and  *)
(* what a committed one has read is still there just before its commit     *)
(* time stamp; deterministic transactions commit in the order of their     *)
(* numbers.                                                                *)
(***************************************************************************)
EXTENDS TMProofs

------------------------------------------------------------------------------
(* Every step of the transactional memory is a commit of AtomicMemory, or   *)
(* none of its business.                                                    *)

LEMMA StutterOfMemory ==
  ASSUME prog' = prog, CountSame, \A a \in Addr : CommittedVal(a)' = CommittedVal(a)
  PROVE  UNCHANGED Memory!avars
BY DEF CountSame, Memory!avars

LEMMA CommitOfMemory ==
  ASSUME IInv, NEW t \in Tasklet, prog' = prog, pc[t] \in {"cm_inc", "cm_check"},
         \A a \in Addr : CommittedVal(a)' = IF Memory!Writes(Tx(t).ops, a)
                                            THEN Memory!Written(Tx(t).ops, a)
                                            ELSE CommittedVal(a),
         \A u \in Tasklet : CommittedCount(u)' = IF u = t THEN CommittedCount(u) + 1
                                                          ELSE CommittedCount(u)
  PROVE  Memory!ANext
<1>1. /\ reg[t].n \in DOMAIN prog[t] /\ prog[t] \in Seq(Transaction) /\ reg[t].n \in Nat
  BY Facts DEF Control, Types, RegType
<1>2. CommittedCount(t) < Len(prog[t]) /\ CommittedCount(t) + 1 = reg[t].n
  BY <1>1 DEF CommittedCount, Decided
<1>3. prog[t][CommittedCount(t) + 1].ops = Tx(t).ops
  BY <1>2 DEF Tx
<1>4. Memory!ACommit(t)
  BY <1>2, <1>3 DEF Memory!ACommit
<1> QED  BY <1>4 DEF Memory!ANext

\* Versions are numbers: what follows is about comparing them.
LEMMA VersionType ==
  ASSUME IInv, NEW l \in Lock
  PROVE  Version(l) \in Nat
<1> DEFINE w == lock_table[l]
<1>1. w \in LockWord
  BY DEF IInv, Types
<1>2. CASE ~ Locked(w)
  BY <1>1, <1>2 DEF Version, LockWord
<1>3. CASE Locked(w)
  <2>1. w.own \in Tasklet
    BY <1>1, <1>3, Owner
  <2>2. w.val \in DOMAIN WSet(w.own) => WSet(w.own)[w.val].version \in Nat
    BY <2>1, EntriesType DEF WEntry
  <2>3. reg[w.own].lock_v.val \in Nat
    BY <2>1 DEF IInv, Types, RegType, LockWord
  <2> QED  BY <1>3, <2>2, <2>3 DEF Version
<1> QED  BY <1>2, <1>3

LEMMA KindAtomic ==
  ASSUME IInv, IInv', LogsOK, NEW t \in Tasklet, Kind(t)
  PROVE  /\ LogsOK'
         /\ Memory!ANext \/ UNCHANGED Memory!avars
         /\ \A l \in Lock : Version(l)' >= Version(l)
<1>0. \A l \in Lock : Version(l) \in Nat /\ (Version(l)' = Version(l) => Version(l)' >= Version(l))
  BY VersionType
<1>1. CASE Idles
  BY <1>0, <1>1, IdlesAtomic, StutterOfMemory DEF Steady
<1>2. CASE Begins(t) \/ Runs(t) \/ Loads(t) \/ GivesUp(t) \/ Wins(t) \/ Draws(t) \/ Checks(t)
             \/ Undoes(t) \/ Ends(t)
  <2>1. LogsOK' /\ Steady /\ CountSame
    BY <1>2, BeginsAtomic, RunsAtomic, GivesUpAtomic, WinsAtomic, ValidatesAtomic, UndoesAtomic,
       EndsAtomic
  <2>2. prog' = prog
    BY <1>2 DEF Begins, Runs, Loads, GivesUp, Wins, Draws, Checks, Undoes, Ends, Rest
  <2> QED  BY <1>0, <2>1, <2>2, StutterOfMemory DEF Steady
<1>3. CASE \E lock \in Lock \cup {NoLock}, version \in Nat : Logs(t, lock, version)
  <2>1. PICK lock \in Lock \cup {NoLock}, version \in Nat : Logs(t, lock, version)
    BY <1>3
  <2>2. prog' = prog
    BY <2>1 DEF Logs, Rest
  <2> QED  BY <1>0, <2>1, <2>2, LogsAtomic, StutterOfMemory DEF Steady
<1>4. CASE \E at \in Nat : Decides(t, at)
  <2>1. PICK at \in Nat : Decides(t, at)
    BY <1>4
  <2>2. prog' = prog /\ pc[t] \in {"cm_inc", "cm_check"}
    BY <2>1 DEF Decides, Rest
  <2> QED  BY <1>0, <2>1, <2>2, DecidesAtomic, CommitOfMemory
<1>5. CASE Finishes(t)
  <2>1. prog' = prog /\ pc[t] = "cm_inc"
    BY <1>5 DEF Finishes, Rest
  <2> QED  BY <1>0, <1>5, <2>1, FinishesAtomic, CommitOfMemory DEF Steady
<1>6. CASE \E version \in Nat : Drops(t, version)
  <2>1. PICK version \in Nat : Drops(t, version)
    BY <1>6
  <2>2. prog' = prog
    BY <2>1 DEF Drops, Rest
  <2>3. \A l \in Lock : Version(l)' >= Version(l)
    <3>1. reg[t].commit_ts \in Nat
      BY DEF IInv, Types, RegType
    <3> SUFFICES ASSUME NEW l \in Lock
                 PROVE  Version(l)' >= Version(l)
      OBVIOUS
    <3>2. \/ Version(l)' = Version(l)
          \/ Version(l)' = reg[t].commit_ts /\ Version(l) < reg[t].commit_ts
      BY <2>1, DropsAtomic
    <3> QED  BY <1>0, <3>1, <3>2
  <2> QED  BY <2>1, <2>2, <2>3, DropsAtomic, StutterOfMemory
<1> QED  BY <1>1, <1>2, <1>3, <1>4, <1>5, <1>6 DEF Kind, Steady

LEMMA NextAtomic ==
  ASSUME IInv, LogsOK, [Next]_vars
  PROVE  /\ LogsOK'
         /\ Memory!ANext \/ UNCHANGED Memory!avars
         /\ \A l \in Lock : Version(l)' >= Version(l)
<1>1. IInv'
  BY NextOK
<1>2. UNCHANGED vars => Idles
  BY DEF vars, Idles
<1>3. /\ LogsOK'
      /\ Memory!ANext \/ UNCHANGED Memory!avars
      /\ \A l \in Lock : Version(l)' >= Version(l)
  <2>1. CASE \E t \in Tasklet : Step(t)
    BY <1>1, <2>1, StepKind, KindAtomic
  <2>2. CASE Idles
    BY <2>2, IdlesAtomic, StutterOfMemory, VersionType DEF Steady
  <2> QED  BY <1>2, <2>1, <2>2 DEF Next, Terminating
<1> QED  BY <1>3

LEMMA InitLogs ==
  ASSUME Init
  PROVE  LogsOK
<1> SUFFICES ASSUME NEW t \in Tasklet
             PROVE  LogOK(t)
  BY DEF LogsOK
<1>1. WSet(t) = <<>> /\ tx[t].ts = 0 /\ clock = 0 /\ pc[t] \in {"start", "done"}
  BY DEF Init, NewTx, WSet
<1> QED  BY <1>1 DEF LogOK, Covered, Logged, Timely, Undone, Active, Body, Running

LEMMA InitMemory ==
  ASSUME Init
  PROVE  Memory!AInit
<1>1. \A a \in Addr : CommittedVal(a) = InitVal
  <2>1. \A a \in Addr : LOCK_ADDR[a] \in Lock
    BY TMAssumption
  <2> QED  BY <2>1 DEF Init, CommittedVal, Locked, Free
<1>2. \A t \in Tasklet : CommittedCount(t) = 0
  BY DEF Init, CommittedCount, Decided, Fresh
<1> QED  BY <1>1, <1>2 DEF Memory!AInit

------------------------------------------------------------------------------
(* The strengthening of the theorems below: each log has exactly the words  *)
(* its transaction stored to, with values memory can be restored to.        *)
THEOREM LogsCorrect == Spec => []LogsOK
<1>1. Init => LogsOK
  BY InitLogs
<1>2. IInv /\ LogsOK /\ [Next]_vars => LogsOK'
  BY NextAtomic
<1> QED  BY <1>1, <1>2, Inductive, PTL DEF Spec

(* For any number of tasklets, words and locks, and any batch: the          *)
(* committed values change only as if every transaction did all its writes  *)
(* at one instant (tm.c:99-208,358-504), a refinement of AtomicMemory.      *)
THEOREM Atomicity == Spec => AtomicWrites
<1>1. Init => Memory!AInit
  BY InitMemory
<1>2. IInv /\ LogsOK /\ [Next]_vars => [Memory!ANext]_(Memory!avars)
  BY NextAtomic
<1> QED  BY <1>1, <1>2, Inductive, LogsCorrect, PTL DEF Spec, AtomicWrites, Memory!ASpec

(* No lock ever goes back to an older version, whether its owner commits or *)
(* aborts (tm.c:166,206,418,432).                                           *)
THEOREM VersionsCorrect == Spec => VersionsGrow
<1>1. IInv /\ LogsOK /\ [Next]_vars => [\A l \in Lock : Version(l)' >= Version(l)]_vars
  BY NextAtomic
<1> QED  BY <1>1, Inductive, LogsCorrect, PTL DEF Spec, VersionsGrow

------------------------------------------------------------------------------
(* What tasklets own: the objects of the transactions they committed.       *)

\* Every transaction that allocates also stores, and no object is so large that adding
\* its size to what is used of a block wraps.
AllocBatch ==
  \A t \in Tasklet : \A m \in DOMAIN prog[t] : \A k \in DOMAIN prog[t][m].ops :
    prog[t][m].ops[k].kind = "alloc" =>
      /\ prog[t][m].ops[k].size <= WORD - MRAM_LIMIT - 1
      /\ \E a \in Addr : Memory!Writes(prog[t][m].ops, a)

\* The labels at which the objects of the running transaction count.
Holding == Body \cup {"cm_drop", "cm_end"}

\* The objects tasklet t has: of what it committed, and of what it is running.
RunOps(t) ==
  {reg[t].n} \X {k \in DOMAIN Tx(t).ops : /\ Tx(t).ops[k].kind = "alloc"
                                          /\ pc[t] \in Committing \cup {"cm_end"} \/ k < reg[t].k}
Objects(t) == AllocOps(t, reg[t].n - 1) \cup (IF pc[t] \in Holding THEN RunOps(t) ELSE {})

AllocOK(t) ==
  /\ IsFiniteSet(Bytes(t, Objects(t)))
  /\ blocks[t].used = Allocated(t, reg[t].n - 1)
  /\ pc[t] \in Holding \cup {"start", "done"} => blocks[t].t_used = Cardinality(Bytes(t, Objects(t)))
  /\ blocks[t].used <= MRAM_LIMIT /\ blocks[t].t_used <= MRAM_LIMIT /\ blocks[t].size <= MRAM_LIMIT

AllocsOK == AllocBatch /\ \A t \in Tasklet : AllocOK(t)

\* An object more.
LEMMA BytesGrow ==
  ASSUME NEW t, NEW ops, NEW op, op \notin ops, IsFiniteSet(Bytes(t, ops)),
         prog[t][op[1]].ops[op[2]].size \in Nat
  PROVE  /\ IsFiniteSet(Bytes(t, ops \cup {op}))
         /\ Cardinality(Bytes(t, ops \cup {op})) =
              Cardinality(Bytes(t, ops)) + prog[t][op[1]].ops[op[2]].size
<1> DEFINE size == prog[t][op[1]].ops[op[2]].size
           New  == {op} \X (1 .. size)
<1>1. IsFiniteSet(New) /\ Cardinality(New) = size
  <2> DEFINE f == [b \in 1 .. size |-> <<op, b>>]
  <2> HIDE DEF size
  <2>0. size \in Nat
    BY DEF size
  <2>1. IsFiniteSet(1 .. size) /\ Cardinality(1 .. size) = size
    <3>1. 1 \in Int /\ size \in Int
      BY <2>0
    <3>2. IsFiniteSet(1 .. size) /\ Cardinality(1 .. size) = IF 1 > size THEN 0 ELSE size - 1 + 1
      BY <3>1, FS_Interval
    <3> QED  BY <2>0, <3>2
  <2>2. f \in Bijection(1 .. size, New)
    <3>1. f \in [1 .. size -> New] /\ \A b \in 1 .. size : f[b] = <<op, b>>
      OBVIOUS
    <3>2. \A b, c \in 1 .. size : f[b] = f[c] => b = c
      BY <3>1
    <3>3. \A e \in New : \E b \in 1 .. size : f[b] = e
      BY <3>1
    <3> HIDE DEF f, New
    <3>4. f \in Injection(1 .. size, New)
      BY <3>1, <3>2 DEF Injection, IsInjective
    <3>5. f \in Surjection(1 .. size, New)
      BY <3>1, <3>3 DEF Surjection
    <3> QED  BY <3>4, <3>5 DEF Bijection
  <2>3. ExistsBijection(1 .. size, New)
    BY <2>2 DEF ExistsBijection
  <2> HIDE DEF New
  <2> QED  BY <2>1, <2>3, FS_Bijection
<1>2. Bytes(t, ops \cup {op}) = Bytes(t, ops) \cup New
  BY DEF Bytes
<1>3. Bytes(t, ops) \cap New = {}
  <2>1. ASSUME NEW e \in Bytes(t, ops)
        PROVE  e[1] \in ops
    <3>1. PICK o \in ops : e \in {o} \X (1 .. prog[t][o[1]].ops[o[2]].size)
      BY DEF Bytes
    <3>2. \A S : e \in {o} \X S => e[1] = o
      OBVIOUS
    <3> QED  BY <3>1, <3>2
  <2>2. \A e \in New : e[1] = op
    OBVIOUS
  <2> HIDE DEF New, size
  <2> QED  BY <2>1, <2>2
<1> HIDE DEF New, size
<1>4. Cardinality(Bytes(t, ops)) \in Nat /\ size \in Nat /\ Cardinality({}) = 0
  BY FS_CardinalityType, FS_EmptySet DEF size
<1>5. /\ IsFiniteSet(Bytes(t, ops) \cup New)
      /\ Cardinality(Bytes(t, ops) \cup New) = Cardinality(Bytes(t, ops)) + size
  <2>1. Cardinality(Bytes(t, ops) \cup New)
          = Cardinality(Bytes(t, ops)) + Cardinality(New) - Cardinality(Bytes(t, ops) \cap New)
    BY <1>1, FS_Union
  <2>2. IsFiniteSet(Bytes(t, ops) \cup New)
    BY <1>1, FS_Union
  <2>3. Cardinality(Bytes(t, ops) \cap New) = 0
    BY <1>3, <1>4
  <2> QED  BY <1>1, <1>4, <2>1, <2>2, <2>3
<1> QED  BY <1>2, <1>5 DEF size

LEMMA BytesSubset ==
  ASSUME NEW t, NEW ops, NEW some, some \subseteq ops, IsFiniteSet(Bytes(t, ops))
  PROVE  IsFiniteSet(Bytes(t, some))
<1>1. Bytes(t, some) \in SUBSET Bytes(t, ops)
  BY DEF Bytes
<1> QED  BY <1>1, FS_Subset

\* The objects of one transaction more.
LEMMA OneMoreTx ==
  ASSUME NEW t, NEW n \in Nat \ {0}
  PROVE  AllocOps(t, n) = AllocOps(t, n - 1) \cup
                            ({n} \X {k \in DOMAIN prog[t][n].ops : prog[t][n].ops[k].kind = "alloc"})
<1>1. 1 .. n = (1 .. n - 1) \cup {n}
  OBVIOUS
<1> QED  BY <1>1 DEF AllocOps

LEMMA EarlierOps ==
  ASSUME NEW t, NEW n \in Nat, NEW op \in AllocOps(t, n)
  PROVE  op[1] \in 1 .. n
BY DEF AllocOps

------------------------------------------------------------------------------
(* The steps, by what they do to the objects. *)

Ended    == Committing \cup {"cm_end"}
Aborting == {"ab_undo", "ab_drop", "ab_end"}

Held(t) == pc[t] \in Holding /\ pc'[t] \in Holding /\ Objects(t)' = Objects(t)

Quiet(t) ==
  /\ blocks' = blocks
  /\ Idles \/ (prog' = prog /\ reg'[t].n = reg[t].n /\ (Held(t) \/ pc'[t] \in Aborting))

LEMMA StillHeld ==
  ASSUME NEW t \in Tasklet, prog' = prog, reg'[t].n = reg[t].n, pc[t] \in Holding, pc'[t] \in Holding,
         \/ reg'[t].k = reg[t].k /\ (pc'[t] \in Ended <=> pc[t] \in Ended)
         \/ pc[t] \in Ended /\ pc'[t] \in Ended
  PROVE  Held(t)
<1>1. Tx(t)' = Tx(t) /\ AllocOps(t, reg[t].n - 1)' = AllocOps(t, reg[t].n - 1)
  BY DEF Tx, AllocOps
<1>2. RunOps(t)' = RunOps(t)
  BY <1>1 DEF RunOps, Ended
<1> QED  BY <1>1, <1>2 DEF Held, Objects

LEMMA RunOpsArePast ==
  ASSUME NEW t, pc[t] # "cm_end"
  PROVE  RunOps(t) = {reg[t].n} \X {k \in Past(t) : Tx(t).ops[k].kind = "alloc"}
BY DEF RunOps, Past

\* The next operation, from any of the others.
LEMMA NextObjects ==
  ASSUME IInv, NEW t \in Tasklet, pc[t] \in InLoad \cup InStore \cup {"alloc"}, NextOp(t), prog' = prog
  PROVE  /\ pc[t] \in Holding /\ pc'[t] \in Holding /\ reg'[t].n = reg[t].n
         /\ pc[t] # "alloc" => Objects(t)' = Objects(t)
         /\ pc[t] = "alloc" => Objects(t)' = Objects(t) \cup {<<reg[t].n, reg[t].k>>}
<1>1. /\ pc'[t] \in Begun /\ reg'[t].n = reg[t].n /\ Tx(t)' = Tx(t)
      /\ Past(t)' = Past(t) \cup {reg[t].k}
  BY NextOpKind
<1>2. pc[t] # "done" /\ pc[t] # "cm_end" /\ pc'[t] # "cm_end" /\ pc[t] \in Holding /\ pc'[t] \in Holding
  BY <1>1 DEF Begun, InLoad, InStore, Holding, Body, Running
<1>3. pc[t] = "alloc" <=> Tx(t).ops[reg[t].k].kind = "alloc"
  BY <1>2, Facts DEF Control, Op
<1>4. /\ RunOps(t) = {reg[t].n} \X {k \in Past(t) : Tx(t).ops[k].kind = "alloc"}
      /\ RunOps(t)' = {reg[t].n} \X {k \in Past(t)' : Tx(t).ops[k].kind = "alloc"}
  BY <1>1, <1>2, RunOpsArePast DEF RunOps, Past
<1>5. AllocOps(t, reg[t].n - 1)' = AllocOps(t, reg[t].n - 1)
  BY <1>1 DEF AllocOps
<1>6. pc[t] # "alloc" => RunOps(t)' = RunOps(t)
  BY <1>1, <1>3, <1>4
<1>7. pc[t] = "alloc" => RunOps(t)' = RunOps(t) \cup {<<reg[t].n, reg[t].k>>}
  BY <1>1, <1>3, <1>4
<1> QED  BY <1>1, <1>2, <1>5, <1>6, <1>7 DEF Objects

LEMMA AbortQuiet ==
  ASSUME IInv, NEW t \in Tasklet, NEW n, Abort(t, n), blocks' = blocks, prog' = prog
  PROVE  Quiet(t)
<1>1. pc \in [Tasklet -> Labels] /\ reg \in [Tasklet -> RegType]
  BY DEF IInv, Types
<1> QED  BY <1>1 DEF Abort, Goto, Quiet, Aborting, Fresh

LEMMA NextQuiet ==
  ASSUME IInv, NEW t \in Tasklet, pc[t] \in InLoad \cup InStore, NextOp(t), blocks' = blocks, prog' = prog
  PROVE  Quiet(t)
<1>1. pc[t] # "alloc"
  BY DEF InLoad, InStore
<1> QED  BY <1>1, NextObjects DEF Quiet, Held

\* A step within an access.
LEMMA WithinQuiet ==
  ASSUME IInv, NEW t \in Tasklet, pc[t] \in InLoad \cup InStore, NEW label \in InLoad \cup InStore,
         Goto(t, label), reg'[t].n = reg[t].n, reg'[t].k = reg[t].k, blocks' = blocks, prog' = prog
  PROVE  Quiet(t)
<1>1. pc'[t] = label
  BY DEF Goto, IInv, Types
<1>2. pc[t] \in Holding /\ pc'[t] \in Holding /\ pc[t] \notin Ended /\ pc'[t] \notin Ended
  BY <1>1 DEF InLoad, InStore, Holding, Body, Running, Ended, Committing
<1> QED  BY <1>2, StillHeld DEF Quiet

\* An access keeps count of the operation it is for.
LEMMA SameCount ==
  ASSUME IInv, NEW t \in Tasklet, NEW v,
         \/ reg' = reg \/ reg' = [reg EXCEPT ![t].lock_v = v] \/ reg' = [reg EXCEPT ![t].value = v]
         \/ reg' = [reg EXCEPT ![t] = Fresh(reg[t].n, reg[t].k)]
  PROVE  reg'[t].n = reg[t].n /\ reg'[t].k = reg[t].k
<1>1. reg \in [Tasklet -> RegType]
  BY DEF IInv, Types
<1> QED  BY <1>1 DEF RegType, Fresh

LEMMA FaultQuiet ==
  ASSUME NEW t, AssertFails
  PROVE  Quiet(t)
BY IdlesKind DEF AssertFails, Quiet

LEMMA LoadQuiet ==
  ASSUME IInv, NEW t \in Tasklet, Load(t)
  PROVE  Quiet(t)
<1>1. pc[t] \in InLoad
  BY DEF Load, LoadLock, LoadValue, LoadDone, ReadSetFull, LoadConflict, At, InLoad
<1>2. CASE ReadSetFull(t)
  BY <1>2, FaultQuiet DEF ReadSetFull
<1>3. CASE LoadLock(t)
  BY <1>1, <1>3, WithinQuiet, SameCount DEF LoadLock, InLoad, alloc
<1>4. CASE LoadValue(t)
  <2>1. CASE Abort(t, Len(WSet(t)))
    BY <1>4, <2>1, AbortQuiet DEF LoadValue, alloc
  <2>2. CASE reg' = [reg EXCEPT ![t].value = mem[Op(t).addr]] /\ Goto(t, "ld_again")
    BY <1>1, <1>4, <2>2, WithinQuiet, SameCount DEF LoadValue, InLoad, alloc
  <2> QED  BY <1>4, <2>1, <2>2 DEF LoadValue
<1>5. CASE LoadDone(t)
  BY <1>1, <1>5, NextQuiet DEF LoadDone, alloc
<1>6. CASE LoadConflict(t)
  <2>1. CASE Abort(t, Len(WSet(t)))
    BY <1>6, <2>1, AbortQuiet DEF LoadConflict, alloc
  <2>2. CASE reg' = [reg EXCEPT ![t] = Fresh(@.n, @.k)] /\ Goto(t, "load")
    BY <1>1, <1>6, <2>2, WithinQuiet, SameCount DEF LoadConflict, InLoad, alloc
  <2> QED  BY <1>6, <2>1, <2>2 DEF LoadConflict
<1> QED  BY <1>2, <1>3, <1>4, <1>5, <1>6 DEF Load

LEMMA StoreQuiet ==
  ASSUME IInv, NEW t \in Tasklet, Store(t)
  PROVE  Quiet(t)
<1>1. pc[t] \in InStore
  BY DEF Store, StoreOwn, StoreLock, StoreConflict, Cas, StoreWrite, WriteSetFull, At, InStore
<1>2. CASE WriteSetFull(t)
  BY <1>2, FaultQuiet DEF WriteSetFull
<1>3. ASSUME NEW lock, NEW version, WriteThrough(t, lock, version)
      PROVE  Quiet(t)
  BY <1>1, <1>3, AbortQuiet, NextQuiet DEF WriteThrough, alloc
<1>4. CASE StoreOwn(t) \/ StoreWrite(t)
  BY <1>3, <1>4 DEF StoreOwn, StoreWrite
<1>5. CASE StoreLock(t)
  <2>1. CASE Abort(t, Len(WSet(t)))
    BY <1>5, <2>1, AbortQuiet DEF StoreLock, alloc
  <2>2. CASE /\ reg' = [reg EXCEPT ![t].lock_v = lock_table[L(t)]]
             /\ Goto(t, IF Locked(lock_table[L(t)]) THEN "st_cm" ELSE "st_cas")
    BY <1>1, <1>5, <2>2, WithinQuiet, SameCount DEF StoreLock, InStore, alloc
  <2> QED  BY <1>5, <2>1, <2>2 DEF StoreLock
<1>6. CASE StoreConflict(t)
  <2>1. CASE Abort(t, Len(WSet(t)))
    BY <1>6, <2>1, AbortQuiet DEF StoreConflict, alloc
  <2>2. CASE reg' = [reg EXCEPT ![t] = Fresh(@.n, @.k)] /\ Goto(t, "store")
    BY <1>1, <1>6, <2>2, WithinQuiet, SameCount DEF StoreConflict, InStore, alloc
  <2> QED  BY <1>6, <2>1, <2>2 DEF StoreConflict
<1>7. CASE Cas(t)
  <2>1. CASE reg' = reg /\ Goto(t, "st_write")
    BY <1>1, <1>7, <2>1, WithinQuiet DEF Cas, InStore, alloc
  <2>2. CASE reg' = [reg EXCEPT ![t] = Fresh(@.n, @.k)] /\ Goto(t, "store")
    BY <1>1, <1>7, <2>2, WithinQuiet, SameCount DEF Cas, InStore, alloc
  <2> QED  BY <1>7, <2>1, <2>2 DEF Cas
<1> QED  BY <1>2, <1>4, <1>5, <1>6, <1>7 DEF Store

\* A step of a commit that is not its last.
LEMMA CommittingQuiet ==
  ASSUME IInv, NEW t \in Tasklet, pc[t] \in Ended, pc'[t] \in Ended, reg'[t].n = reg[t].n,
         blocks' = blocks, prog' = prog
  PROVE  Quiet(t)
<1>1. pc[t] \in Holding /\ pc'[t] \in Holding
  BY DEF Ended, Committing, Holding, Body, Running
<1> QED  BY <1>1, StillHeld DEF Quiet

LEMMA CommitQuiet ==
  ASSUME IInv, NEW t \in Tasklet, Commit(t)
  PROVE  \/ Quiet(t)
         \/ CommitEnd(t)
         \/ pc[t] = "cm_inc" /\ WSet(t) = <<>> /\ NextTx(t) /\ blocks' = blocks /\ prog' = prog
<1>1. /\ pc \in [Tasklet -> Labels] /\ reg \in [Tasklet -> RegType]
      /\ {"cm_wait", "cm_flag", "cm_inc", "cm_check", "cm_drop", "cm_end"} \subseteq Ended
  BY DEF IInv, Types, Ended, Committing
<1>2. CASE CommitWait(t)
  <2>1. pc[t] = "cm_wait" /\ pc'[t] \in {"cm_flag", "cm_inc"} /\ reg' = reg /\ blocks' = blocks /\ prog' = prog
    BY <1>1, <1>2 DEF CommitWait, Goto, At, alloc
  <2> QED  BY <1>1, <2>1, CommittingQuiet
<1>3. CASE CommitFlag(t)
  <2>1. CASE Abort(t, Len(WSet(t)))
    BY <1>3, <2>1, AbortQuiet DEF CommitFlag, alloc
  <2>2. CASE Goto(t, "cm_wait") /\ reg' = reg
    <3>1. pc[t] = "cm_flag" /\ pc'[t] = "cm_wait" /\ blocks' = blocks /\ prog' = prog
      BY <1>1, <1>3, <2>2 DEF CommitFlag, Goto, At, alloc
    <3> QED  BY <1>1, <2>2, <3>1, CommittingQuiet
  <2> QED  BY <1>3, <2>1, <2>2 DEF CommitFlag
<1>4. CASE CommitInc(t)
  <2>1. pc[t] = "cm_inc" /\ blocks' = blocks /\ prog' = prog
    BY <1>4 DEF CommitInc, At, alloc
  <2>2. CASE WSet(t) = <<>>
    BY <1>4, <2>1, <2>2 DEF CommitInc
  <2>3. CASE WSet(t) # <<>>
    <3>1. pc'[t] \in {"cm_check", "cm_drop"} /\ reg'[t].n = reg[t].n
      BY <1>1, <1>4, <2>3 DEF CommitInc, Decide, Goto, Fresh
    <3> QED  BY <1>1, <2>1, <3>1, CommittingQuiet
  <2> QED  BY <2>2, <2>3
<1>5. CASE CommitCheck(t)
  <2>1. pc[t] = "cm_check" /\ blocks' = blocks /\ prog' = prog
    BY <1>5 DEF CommitCheck, At, alloc
  <2>2. CASE Abort(t, Len(WSet(t)))
    BY <2>1, <2>2, AbortQuiet
  <2>3. CASE ~ Abort(t, Len(WSet(t)))
    <3>1. pc'[t] \in {"cm_check", "cm_drop"} /\ reg'[t].n = reg[t].n
      BY <1>1, <1>5, <2>1, <2>3 DEF CommitCheck, Decide, Goto, Fresh, RegType
    <3> QED  BY <1>1, <2>1, <3>1, CommittingQuiet
  <2> QED  BY <2>2, <2>3
<1>6. CASE CommitDrop(t)
  <2>1. /\ pc[t] = "cm_drop" /\ pc'[t] \in {"cm_drop", "cm_end"} /\ reg'[t].n = reg[t].n
        /\ blocks' = blocks /\ prog' = prog
    BY <1>1, <1>6 DEF CommitDrop, ReleaseLoop, Goto, At, alloc, RegType
  <2> QED  BY <1>1, <2>1, CommittingQuiet
<1> QED  BY <1>2, <1>3, <1>4, <1>5, <1>6 DEF Commit

LEMMA UndoQuiet ==
  ASSUME IInv, NEW t \in Tasklet, Undo(t)
  PROVE  Quiet(t) \/ AbortEnd(t)
<1>1. pc \in [Tasklet -> Labels] /\ reg \in [Tasklet -> RegType]
  BY DEF IInv, Types
<1>2. CASE AbortUndo(t)
  BY <1>1, <1>2 DEF AbortUndo, Goto, At, alloc, RegType, Quiet, Aborting
<1>3. CASE AbortDrop(t)
  BY <1>1, <1>3 DEF AbortDrop, ReleaseLoop, Goto, At, alloc, RegType, Quiet, Aborting
<1> QED  BY <1>2, <1>3 DEF Undo

------------------------------------------------------------------------------
(* What a tasklet owns, step by step. *)

LEMMA QuietAllocs ==
  ASSUME NEW t \in Tasklet, AllocOK(t), Quiet(t)
  PROVE  AllocOK(t)'
<1>1. blocks' = blocks
  BY DEF Quiet
<1>2. CASE Idles
  <2>1. prog' = prog /\ pc' = pc /\ reg' = reg
    BY <1>2 DEF Idles
  <2>2. Objects(t)' = Objects(t) /\ Bytes(t, Objects(t))' = Bytes(t, Objects(t))
        /\ Allocated(t, reg[t].n - 1)' = Allocated(t, reg[t].n - 1)
    BY <2>1 DEF Objects, RunOps, Tx, AllocOps, Bytes, Allocated
  <2> QED  BY <1>1, <2>1, <2>2 DEF AllocOK
<1>3. CASE prog' = prog /\ reg'[t].n = reg[t].n
  <2>1. Allocated(t, reg[t].n - 1)' = Allocated(t, reg[t].n - 1)
        /\ AllocOps(t, reg[t].n - 1)' = AllocOps(t, reg[t].n - 1)
    BY <1>3 DEF AllocOps, Bytes, Allocated
  <2>2. CASE Held(t)
    <3>1. Bytes(t, Objects(t))' = Bytes(t, Objects(t))
      BY <1>3, <2>2 DEF Bytes, Held
    <3> QED  BY <1>1, <2>1, <2>2, <3>1 DEF AllocOK, Held
  <2>3. CASE pc'[t] \in Aborting
    <3>1. pc'[t] \notin Holding \cup {"start", "done"}
      BY <2>3 DEF Aborting, Holding, Body, Running
    <3>2. Objects(t)' = AllocOps(t, reg[t].n - 1)
      BY <2>1, <3>1 DEF Objects
    <3>3. Bytes(t, Objects(t))' = Bytes(t, AllocOps(t, reg[t].n - 1))
      BY <1>3, <3>2 DEF Bytes
    <3>4. IsFiniteSet(Bytes(t, AllocOps(t, reg[t].n - 1)))
      BY BytesSubset DEF AllocOK, Objects
    <3> QED  BY <1>1, <2>1, <3>1, <3>3, <3>4 DEF AllocOK
  <2> QED  BY <1>1, <1>2, <2>2, <2>3 DEF Quiet
<1> QED  BY <1>2, <1>3 DEF Quiet

LEMMA StartAllocs ==
  ASSUME IInv, NEW t \in Tasklet, AllocOK(t), Start(t)
  PROVE  AllocOK(t)'
<1>1. /\ pc[t] = "start" /\ pc'[t] \in Begun /\ reg' = reg /\ prog' = prog /\ blocks' = blocks
      /\ reg[t].k = 1
      /\ pc'[t] \in Committing => DOMAIN Tx(t).ops = {}
  BY StartKind DEF Begins, Start, alloc
<1>2. Tx(t).ops \in Seq(Operation)
  BY <1>1, Facts, TransactionType
<1>3. RunOps(t)' = {}
  <2>1. Tx(t)' = Tx(t) /\ reg'[t] = reg[t] /\ pc'[t] # "cm_end"
    BY <1>1 DEF Tx, Begun
  <2>2. \A k \in DOMAIN Tx(t).ops : ~ k < reg[t].k
    BY <1>1, <1>2
  <2>3. \A k \in DOMAIN Tx(t).ops : pc'[t] \notin Committing \cup {"cm_end"}
    BY <1>1, <2>1
  <2>4. RunOps(t)' = {reg[t].n} \X {k \in DOMAIN Tx(t).ops :
                                     /\ Tx(t).ops[k].kind = "alloc"
                                     /\ pc'[t] \in Committing \cup {"cm_end"} \/ k < reg[t].k}
    BY <2>1 DEF RunOps
  <2>5. {k \in DOMAIN Tx(t).ops : /\ Tx(t).ops[k].kind = "alloc"
                                  /\ pc'[t] \in Committing \cup {"cm_end"} \/ k < reg[t].k} = {}
    BY <2>2, <2>3
  <2>6. {reg[t].n} \X {} = {}
    OBVIOUS
  <2> QED  BY <2>4, <2>5, <2>6
<1>4. Objects(t)' = Objects(t)
  BY <1>1, <1>3 DEF Objects, AllocOps, Holding, Body, Running
<1>5. Bytes(t, Objects(t))' = Bytes(t, Objects(t)) /\ Allocated(t, reg[t].n - 1)' = Allocated(t, reg[t].n - 1)
  BY <1>1, <1>4 DEF Bytes, Allocated, AllocOps
<1> QED  BY <1>1, <1>5 DEF AllocOK

LEMMA BlockFields ==
  ASSUME IInv, NEW t \in Tasklet
  PROVE  /\ blocks[t] \in Block /\ blocks \in [Tasklet -> Block]
         /\ blocks[t].used \in Nat /\ blocks[t].t_used \in Nat /\ blocks[t].size \in Nat
<1>1. blocks[t] \in Block
  BY DEF IInv, Types
<1> QED  BY <1>1, AllocAssumption DEF Block, Uintptr, IInv, Types

LEMMA MallocAllocs ==
  ASSUME IInv, AllocBatch, NEW t \in Tasklet, AllocOK(t), Malloc(t)
  PROVE  AllocOK(t)'
<1> DEFINE size == Op(t).size
<1>1. CASE AssertFails
  BY <1>1, FaultQuiet, QuietAllocs
<1>2. CASE mram_malloc(t, size) /\ NextOp(t) /\ prog' = prog
  <2>1. pc[t] = "alloc"
    BY DEF Malloc, At
  <2>2. /\ reg'[t].n = reg[t].n /\ pc'[t] \in Holding
        /\ Objects(t)' = Objects(t) \cup {<<reg[t].n, reg[t].k>>}
    BY <1>2, <2>1, NextObjects
  <2>3. <<reg[t].n, reg[t].k>> \notin Objects(t)
    <3>1. reg[t].n \in Nat \ {0} /\ reg[t].k \in Nat
      BY <2>1, Facts DEF RegType
    <3>2. <<reg[t].n, reg[t].k>> \notin RunOps(t)
      BY <2>1, <3>1 DEF RunOps, Committing
    <3>3. <<reg[t].n, reg[t].k>> \notin AllocOps(t, reg[t].n - 1)
      BY <3>1, EarlierOps
    <3> QED  BY <3>2, <3>3 DEF Objects
  <2>4. size \in Nat \ {0} /\ size <= WORD - MRAM_LIMIT - 1 /\ prog[t][reg[t].n].ops[reg[t].k].size = size
    <3>1. reg[t].n \in DOMAIN prog[t] /\ reg[t].k \in DOMAIN Tx(t).ops /\ Op(t).kind = "alloc"
      BY <2>1, Facts DEF Control
    <3>2. size \in Nat \ {0}
      BY <2>1, Facts, OperationType
    <3> QED  BY <3>1, <3>2 DEF AllocBatch, Tx, Op
  <2>5. /\ IsFiniteSet(Bytes(t, Objects(t))')
        /\ Cardinality(Bytes(t, Objects(t))') = Cardinality(Bytes(t, Objects(t))) + size
    <3>1. Bytes(t, Objects(t))' = Bytes(t, Objects(t) \cup {<<reg[t].n, reg[t].k>>})
      BY <1>2, <2>2 DEF Bytes
    <3> HIDE DEF size
    <3>2. IsFiniteSet(Bytes(t, Objects(t)))
      BY DEF AllocOK
    <3> QED  BY <2>3, <2>4, <3>1, <3>2, BytesGrow
  <2>6. /\ blocks[t].t_used = Cardinality(Bytes(t, Objects(t)))
        /\ blocks[t].t_used <= MRAM_LIMIT /\ blocks[t].size <= MRAM_LIMIT /\ blocks[t].used <= MRAM_LIMIT
    BY <2>1 DEF AllocOK, Holding, Body, Running
  <2>7. /\ blocks'[t].t_used = blocks[t].t_used + size /\ blocks'[t].used = blocks[t].used
        /\ blocks'[t].size = blocks[t].size /\ blocks'[t].t_used <= MRAM_LIMIT
    <3>1. blocks[t].t_used + size < WORD /\ blocks[t].t_used + size >= 0
      BY <2>4, <2>6, BlockFields, AllocAssumption
    <3>2. Wrap(blocks[t].t_used + size) = blocks[t].t_used + size
      BY <3>1 DEF Wrap
    <3>3. blocks[t].t_used + size < blocks[t].size
      BY <1>2, <2>4, <3>2, BlockFields DEF mram_malloc, Refused
    <3>4. /\ blocks'[t].t_used = Wrap(blocks[t].t_used + size)
          /\ blocks'[t].used = blocks[t].used /\ blocks'[t].size = blocks[t].size
      BY <1>2, BlockFields DEF mram_malloc, Block
    <3> QED  BY <2>4, <2>6, <3>2, <3>3, <3>4, BlockFields, AllocAssumption
  <2>8. Allocated(t, reg[t].n - 1)' = Allocated(t, reg[t].n - 1)
    BY <1>2, <2>2 DEF Allocated, AllocOps, Bytes
  <2> QED  BY <2>2, <2>5, <2>6, <2>7, <2>8 DEF AllocOK
<1> QED  BY <1>1, <1>2 DEF Malloc

LEMMA NextTxIs ==
  ASSUME IInv, NEW t \in Tasklet, NextTx(t)
  PROVE  pc'[t] \in {"start", "done"} /\ reg'[t].n = reg[t].n + 1
<1>1. pc \in [Tasklet -> Labels] /\ reg \in [Tasklet -> RegType]
  BY DEF IInv, Types
<1> QED  BY <1>1 DEF NextTx, Goto, Fresh

\* A transaction that is about to end has all its objects.
LEMMA WholeTx ==
  ASSUME IInv, NEW t \in Tasklet, pc[t] \in {"cm_inc", "cm_end"}
  PROVE  Objects(t) = AllocOps(t, reg[t].n) /\ reg[t].n \in Nat \ {0}
<1>1. reg[t].n \in Nat \ {0}
  BY DEF IInv, Types, RegType
<1>2. RunOps(t) = {reg[t].n} \X {k \in DOMAIN prog[t][reg[t].n].ops : prog[t][reg[t].n].ops[k].kind = "alloc"}
  BY DEF RunOps, Committing, Tx
<1>3. Objects(t) = AllocOps(t, reg[t].n - 1) \cup RunOps(t)
  BY DEF Objects, Holding, Body, Running
<1>4. AllocOps(t, reg[t].n) = AllocOps(t, reg[t].n - 1) \cup RunOps(t)
  BY <1>1, <1>2, OneMoreTx
<1> QED  BY <1>1, <1>3, <1>4

LEMMA CommitEndAllocs ==
  ASSUME IInv, NEW t \in Tasklet, AllocOK(t), CommitEnd(t)
  PROVE  AllocOK(t)'
<1>1. pc[t] = "cm_end" /\ prog' = prog /\ mram_malloc_commit(t)
  BY DEF CommitEnd, At
<1>2. pc'[t] \in {"start", "done"} /\ reg'[t].n = reg[t].n + 1
  BY NextTxIs DEF CommitEnd
<1>3. Objects(t) = AllocOps(t, reg[t].n) /\ reg[t].n \in Nat \ {0}
  BY <1>1, WholeTx
<1>4. reg'[t].n - 1 = reg[t].n
  BY <1>2, <1>3
<1>5. Objects(t)' = Objects(t)
  <2>1. pc'[t] \notin Holding
    BY <1>2 DEF Holding, Body, Running
  <2>2. Objects(t)' = AllocOps(t, reg[t].n - 1)'
    BY <2>1 DEF Objects
  <2> QED  BY <1>1, <1>3, <1>4, <2>2 DEF AllocOps
<1>6. /\ Bytes(t, Objects(t))' = Bytes(t, Objects(t))
      /\ Allocated(t, reg[t].n - 1)' = Cardinality(Bytes(t, Objects(t)))
  <2>1. AllocOps(t, reg[t].n - 1)' = Objects(t)
    BY <1>1, <1>3, <1>4 DEF AllocOps
  <2>2. Bytes(t, Objects(t))' = Bytes(t, Objects(t)) /\ Bytes(t, AllocOps(t, reg[t].n - 1))' = Bytes(t, Objects(t))
    BY <1>1, <1>5, <2>1 DEF Bytes
  <2> QED  BY <2>2 DEF Allocated
<1>7. /\ blocks'[t].used = blocks[t].t_used /\ blocks'[t].t_used = blocks[t].t_used
      /\ blocks'[t].size = blocks[t].size
  BY <1>1, BlockFields DEF mram_malloc_commit, Block
<1>8. blocks[t].t_used = Cardinality(Bytes(t, Objects(t)))
  BY <1>1 DEF AllocOK, Holding
<1> QED  BY <1>6, <1>7, <1>8 DEF AllocOK

\* A transaction without writes has no objects, and commits none.
LEMMA FinishAllocs ==
  ASSUME IInv, LogsOK, AllocBatch, NEW t \in Tasklet, AllocOK(t), pc[t] = "cm_inc", WSet(t) = <<>>,
         NextTx(t), blocks' = blocks, prog' = prog
  PROVE  AllocOK(t)'
<1>1. pc'[t] \in {"start", "done"} /\ reg'[t].n = reg[t].n + 1
  BY NextTxIs
<1>2. Objects(t) = AllocOps(t, reg[t].n) /\ reg[t].n \in Nat \ {0} /\ reg[t].n \in DOMAIN prog[t]
  BY WholeTx, Facts DEF Control
<1>3. {k \in DOMAIN prog[t][reg[t].n].ops : prog[t][reg[t].n].ops[k].kind = "alloc"} = {}
  <2>1. ASSUME NEW a \in Addr, Memory!Writes(Tx(t).ops, a)
        PROVE  FALSE
    <3>1. EntriesOf(t, a) # {}
      BY <2>1, WritesLogged DEF LogsOK
    <3> QED  BY <3>1 DEF EntriesOf
  <2> QED  BY <1>2, <2>1 DEF AllocBatch, Tx
<1>4. AllocOps(t, reg[t].n) = AllocOps(t, reg[t].n - 1)
  <2>1. {reg[t].n} \X {} = {}
    OBVIOUS
  <2>2. AllocOps(t, reg[t].n) = AllocOps(t, reg[t].n - 1) \cup ({reg[t].n} \X {})
    BY <1>2, <1>3, OneMoreTx
  <2> QED  BY <2>1, <2>2
<1>5. reg'[t].n - 1 = reg[t].n /\ pc'[t] \notin Holding
  BY <1>1, <1>2 DEF Holding, Body, Running
<1>6. Objects(t)' = Objects(t)
  <2>1. Objects(t)' = AllocOps(t, reg[t].n - 1)'
    BY <1>5 DEF Objects
  <2> QED  BY <1>2, <1>5, <2>1 DEF AllocOps
<1>7. /\ Bytes(t, Objects(t))' = Bytes(t, Objects(t))
      /\ Allocated(t, reg[t].n - 1)' = Allocated(t, reg[t].n - 1)
  <2>1. Bytes(t, Objects(t))' = Bytes(t, Objects(t))
    BY <1>6 DEF Bytes
  <2>2. AllocOps(t, reg[t].n - 1)' = AllocOps(t, reg[t].n - 1)
    BY <1>2, <1>4, <1>5 DEF AllocOps
  <2>3. Bytes(t, AllocOps(t, reg[t].n - 1))' = Bytes(t, AllocOps(t, reg[t].n - 1))
    BY <2>2 DEF Bytes
  <2> QED  BY <2>1, <2>3 DEF Allocated
<1>8. blocks[t].t_used = Cardinality(Bytes(t, Objects(t)))
  BY DEF AllocOK, Holding, Body, Running
<1> QED  BY <1>7, <1>8 DEF AllocOK

LEMMA AbortEndAllocs ==
  ASSUME IInv, NEW t \in Tasklet, AllocOK(t), AbortEnd(t)
  PROVE  AllocOK(t)'
<1>1. pc[t] = "ab_end" /\ prog' = prog /\ mram_malloc_revert(t)
  BY DEF AbortEnd, At
<1>2. pc'[t] = "start" /\ reg'[t].n = reg[t].n
  <2>1. pc \in [Tasklet -> Labels] /\ reg \in [Tasklet -> RegType]
    BY DEF IInv, Types
  <2> QED  BY <2>1 DEF AbortEnd, Goto, Fresh
<1>3. Objects(t) = AllocOps(t, reg[t].n - 1) /\ Objects(t)' = AllocOps(t, reg[t].n - 1)
  BY <1>1, <1>2 DEF Objects, Holding, Body, Running, AllocOps
<1>4. /\ Bytes(t, Objects(t))' = Bytes(t, Objects(t))
      /\ Allocated(t, reg[t].n - 1)' = Cardinality(Bytes(t, Objects(t)))
      /\ Allocated(t, reg[t].n - 1) = Cardinality(Bytes(t, Objects(t)))
  BY <1>1, <1>2, <1>3 DEF Bytes, Allocated, AllocOps
<1>5. /\ blocks'[t].used = blocks[t].used /\ blocks'[t].t_used = blocks[t].used
      /\ blocks'[t].size = blocks[t].size
  BY <1>1, BlockFields DEF mram_malloc_revert, Block
<1> QED  BY <1>4, <1>5 DEF AllocOK

LEMMA OwnAllocs ==
  ASSUME IInv, LogsOK, AllocBatch, NEW t \in Tasklet, AllocOK(t), Step(t)
  PROVE  AllocOK(t)'
BY StartAllocs, MallocAllocs, LoadQuiet, StoreQuiet, CommitQuiet, UndoQuiet, QuietAllocs, CommitEndAllocs,
   FinishAllocs, AbortEndAllocs DEF Step

\* A step of a tasklet touches no block but its own.
LEMMA OwnBlock ==
  ASSUME IInv, NEW t \in Tasklet, Step(t), NEW u \in Tasklet \ {t}
  PROVE  blocks'[u] = blocks[u]
<1>1. blocks \in [Tasklet -> Block]
  BY DEF IInv, Types
<1>2. mram_malloc_commit(t) \/ mram_malloc_revert(t) => blocks'[u] = blocks[u]
  BY <1>1 DEF mram_malloc_commit, mram_malloc_revert
<1>3. Malloc(t) => blocks'[u] = blocks[u]
  BY <1>1 DEF Malloc, mram_malloc, AssertFails
<1>4. Start(t) => blocks' = blocks
  BY DEF Start, alloc
<1>5. Quiet(t) => blocks' = blocks
  BY DEF Quiet
<1> QED  BY <1>2, <1>3, <1>4, <1>5, LoadQuiet, StoreQuiet, CommitQuiet, UndoQuiet DEF Step, CommitEnd, AbortEnd

LEMMA OtherAllocs ==
  ASSUME NEW u \in Tasklet, AllocOK(u), prog' = prog, pc'[u] = pc[u], reg'[u] = reg[u], blocks'[u] = blocks[u]
  PROVE  AllocOK(u)'
<1>1. /\ Objects(u)' = Objects(u) /\ Bytes(u, Objects(u))' = Bytes(u, Objects(u))
      /\ Allocated(u, reg[u].n - 1)' = Allocated(u, reg[u].n - 1)
  BY DEF Objects, RunOps, Tx, AllocOps, Bytes, Allocated
<1> QED  BY <1>1 DEF AllocOK

LEMMA NextAllocs ==
  ASSUME IInv, LogsOK, AllocsOK, [Next]_vars
  PROVE  AllocsOK'
<1>1. CASE \E t \in Tasklet : Step(t)
  <2>1. PICK t \in Tasklet : Step(t)
    BY <1>1
  <2>2. prog' = prog /\ \A u \in Tasklet \ {t} : pc'[u] = pc[u] /\ reg'[u] = reg[u]
    <3>1. Idles \/ Rest(t)
      BY <2>1, StepKind DEF Kind, Begins, Runs, Loads, GivesUp, Logs, Wins, Draws, Checks, Decides, Finishes,
                            Undoes, Drops, Ends
    <3> QED  BY <3>1 DEF Idles, Rest, Moved
  <2>3. AllocBatch'
    BY <2>2 DEF AllocsOK, AllocBatch
  <2>4. \A u \in Tasklet : AllocOK(u)'
    BY <2>1, <2>2, OwnAllocs, OtherAllocs, OwnBlock DEF AllocsOK
  <2> QED  BY <2>3, <2>4 DEF AllocsOK
<1>2. CASE UNCHANGED vars
  <2>1. prog' = prog /\ pc' = pc /\ reg' = reg /\ blocks' = blocks
    BY <1>2 DEF vars, alloc
  <2>2. AllocBatch'
    BY <2>1 DEF AllocsOK, AllocBatch
  <2> QED  BY <2>1, <2>2, OtherAllocs DEF AllocsOK
<1> QED  BY <1>1, <1>2 DEF Next, Terminating

LEMMA InitAllocs ==
  ASSUME Init, AllocBatch
  PROVE  AllocsOK
<1> SUFFICES ASSUME NEW t \in Tasklet
             PROVE  AllocOK(t)
  BY DEF AllocsOK
<1> DEFINE size == (MRAM_LIMIT - HEAP) \div NR_TASKLETS
<1>1. pc[t] \in {"start", "done"} /\ reg[t].n = 1 /\ blocks[t] = EmptyBlock(HEAP + t * size, size)
  BY DEF Init, Fresh
<1>2. AllocOps(t, 0) = {} /\ Objects(t) = {}
  <2>1. AllocOps(t, 0) = {}
    BY DEF AllocOps
  <2> QED  BY <1>1, <2>1 DEF Objects, Holding, Body, Running
<1>3. Bytes(t, {}) = {} /\ IsFiniteSet({}) /\ Cardinality({}) = 0
  BY FS_EmptySet DEF Bytes
<1>4. size <= MRAM_LIMIT
  <2>1. MRAM_LIMIT - HEAP \in Nat /\ NR_TASKLETS \in Nat \ {0} /\ MRAM_LIMIT - HEAP <= MRAM_LIMIT
    BY AllocAssumption
  <2>2. \A m \in Nat, d \in Nat \ {0} : m \div d <= m
    OBVIOUS
  <2> QED  BY <2>1, <2>2, AllocAssumption
<1>5. blocks[t].used = 0 /\ blocks[t].t_used = 0 /\ blocks[t].size = size
  BY <1>1 DEF EmptyBlock
<1>6. Bytes(t, Objects(t)) = {} /\ Allocated(t, reg[t].n - 1) = 0
  <2>1. reg[t].n - 1 = 0
    BY <1>1
  <2> QED  BY <1>2, <1>3, <2>1 DEF Allocated
<1> HIDE DEF size
<1> QED  BY <1>3, <1>4, <1>5, <1>6, AllocAssumption DEF AllocOK

(* For every number of tasklets and batch whose allocating transactions     *)
(* store: between two attempts a tasklet owns exactly the objects of what   *)
(* it committed, however often it tried (tm.c:480,498).  A transaction that *)
(* allocates and stores nothing would keep its objects without committing   *)
(* them (tm.c:466-470 returns early): hence AllocBatch.                     *)
THEOREM AllocsCorrect == Spec /\ AllocBatch => []AllocsMatchCommits
<1>1. Init /\ AllocBatch => AllocsOK
  BY InitAllocs
<1>2. IInv /\ LogsOK /\ AllocsOK /\ [Next]_vars => AllocsOK'
  BY NextAllocs
<1>3. AllocsOK => AllocsMatchCommits
  <2> SUFFICES ASSUME AllocsOK, NEW t \in Tasklet, pc[t] \in {"start", "done"}
               PROVE  blocks[t].used = Allocated(t, reg[t].n - 1) /\ blocks[t].t_used = blocks[t].used
    BY DEF AllocsMatchCommits
  <2>1. Objects(t) = AllocOps(t, reg[t].n - 1)
    BY DEF Objects, Holding, Body, Running
  <2> QED  BY <2>1 DEF AllocsOK, AllocOK, Allocated
<1> QED  BY <1>1, <1>2, <1>3, Inductive, LogsCorrect, PTL DEF Spec

------------------------------------------------------------------------------
(* Serial order: commits, what was read, and what validation has settled.   *)

\* The commit h wrote word a.
Wrote(h, a) == Memory!Writes(prog[h.t][h.n].ops, a)

\* Tasklet u has drawn its time stamp, and writes a if its validation succeeds.
WillWrite(u, a) == pc[u] = "cm_check" /\ Memory!Writes(Tx(u).ops, a)

\* The time stamp that is due to lock l: that of its owner once it is decided.
Due(l) ==
  LET w == lock_table[l] IN
  IF Locked(w) /\ pc[w.own] = "cm_drop" THEN reg[w.own].commit_ts ELSE Version(l)

\* No commit of a word is newer than its lock says, or ahead of the clock; the
\* committed value of a word is the one its newest commit wrote.
NoneNewer == \A h \in committed, a \in Addr : Wrote(h, a) => h.at <= Due(LOCK_ADDR[a])
NoneAhead == \A h \in committed : h.at <= clock
OneAtATime ==
  \A h, g \in committed, a \in Addr : Wrote(h, a) /\ Wrote(g, a) /\ h.at = g.at => h = g
ValIsLatest == \A a \in Addr, at \in Nat : at > clock => CommittedVal(a) = Snapshot(a, at)

History == NoneNewer /\ NoneAhead /\ OneAtATime /\ ValIsLatest

\* A transaction that has not begun, or has given up, has read nothing.
EmptyView(t) == pc[t] \in {"start", "done", "ab_undo", "ab_drop", "ab_end"} => view[t] = NewView

\* The lock of a word that was read belongs to the tasklet or is in its read set.
Guarded(t) ==
  pc[t] \in Body =>
    \A r \in view[t].reads : \/ OwnerOf(r[1]) = t
                             \/ \E i \in DOMAIN tx[t].r_set : tx[t].r_set[i] = LOCK_ADDR[r[1]]

\* A lock that a load found to be the tasklet's own still is.
StillOwn(t) ==
  pc[t] \in {"ld_value", "ld_again"} /\ reg[t].lock_v.own = t => lock_table[L(t)] = reg[t].lock_v

\* What is about to be committed is later than the transactions that read without it.
LaterThanReaders(t) ==
  \A r \in view[t].reads, u \in Tasklet \ {t} : WillWrite(u, r[1]) => reg[u].commit_ts > tx[t].ts

\* The word a was not committed between the start of t and time "at", and
\* nobody is about to commit it with a time stamp in between.
Settled(t, a, at) ==
  /\ \A h \in committed : Wrote(h, a) => h.at <= tx[t].ts \/ h.at >= at
  /\ \A u \in Tasklet \ {t} : WillWrite(u, a) => reg[u].commit_ts >= at

\* The words of the locks that the validation has found coherent.
Validated(t) ==
  pc[t] = "cm_check" =>
    \A i \in 1 .. reg[t].i - 1, a \in Addr :
      tx[t].r_set[i] = LOCK_ADDR[a] => Settled(t, a, reg[t].commit_ts)

\* What was read is the memory as of the start.
ReadsAtStart(t) ==
  \A r \in view[t].reads, at \in Nat :
    at = tx[t].ts + 1 => view[t].dirty \/ r[2] = Snapshot(r[1], at)

ReaderOK(t) ==
  /\ EmptyView(t) /\ Guarded(t) /\ StillOwn(t)
  /\ LaterThanReaders(t) /\ Validated(t) /\ ReadsAtStart(t)

\* What is about to be committed comes after the commits that read without it.
LaterThanCommits ==
  \A h \in committed : \A r \in h.reads, u \in Tasklet :
    WillWrite(u, r[1]) => reg[u].commit_ts >= h.at

SerialOK ==
  /\ History
  /\ \A t \in Tasklet : ReaderOK(t)
  /\ LaterThanCommits
  /\ Serializable

------------------------------------------------------------------------------
(* Snapshots and time stamps *)

LEMMA CommitType ==
  ASSUME IInv, NEW h \in committed
  PROVE  h.at \in Nat /\ \A r \in h.reads : r[1] \in Addr
<1>1. h \in Commits
  BY DEF IInv, Types
<1> QED  BY <1>1 DEF Commits

LEMMA ViewType ==
  ASSUME IInv, NEW t \in Tasklet
  PROVE  \A r \in view[t].reads : r[1] \in Addr
<1>1. view[t] \in View
  BY DEF IInv, Types
<1> QED  BY <1>1 DEF View

LEMMA StampType ==
  ASSUME IInv, NEW t \in Tasklet
  PROVE  /\ tx[t].ts \in Nat /\ reg[t].commit_ts \in Nat /\ clock \in Nat
         /\ tx[t].r_set \in Seq(Lock) /\ reg[t].i \in Nat
BY DEF IInv, Types, TxType, RegType

LEMMA DueType ==
  ASSUME IInv, NEW l \in Lock
  PROVE  Due(l) \in Nat
<1>1. lock_table[l] \in LockWord
  BY DEF IInv, Types
<1>2. Locked(lock_table[l]) => reg[lock_table[l].own].commit_ts \in Nat
  BY <1>1, Owner, StampType
<1> QED  BY <1>2, VersionType DEF Due

LEMMA DueNextType ==
  ASSUME IInv', NEW l \in Lock
  PROVE  Due(l)' \in Nat
<1>1. PICK w : w = lock_table'[l]
  OBVIOUS
<1>2. w \in LockWord
  BY <1>1 DEF IInv, Types
<1>3. ASSUME Locked(w)
      PROVE  /\ w.own \in Tasklet /\ reg'[w.own].commit_ts \in Nat /\ reg'[w.own].lock_v.val \in Nat
             /\ w.val \in DOMAIN WSet(w.own)' => WSet(w.own)'[w.val].version \in Nat
  <2>1. w.own \in Tasklet
    BY <1>2, <1>3, Owner
  <2>2. reg'[w.own] \in RegType
    BY <2>1 DEF IInv, Types
  <2>3. WSet(w.own)' \in Seq(WEntry)
    BY <2>1 DEF IInv, Types, TxType, WSet
  <2>4. w.val \in DOMAIN WSet(w.own)' => WSet(w.own)'[w.val] \in WEntry
    BY <2>3
  <2> QED  BY <2>1, <2>2, <2>4 DEF RegType, LockWord, WEntry
<1>4. Version(l)' = IF ~ Locked(w) THEN w.val
                    ELSE IF w.val \in DOMAIN WSet(w.own)' THEN WSet(w.own)'[w.val].version
                    ELSE reg'[w.own].lock_v.val
  BY <1>1 DEF Version, WSet, Locked
<1>5. Due(l)' = IF Locked(w) /\ pc'[w.own] = "cm_drop" THEN reg'[w.own].commit_ts ELSE Version(l)'
  BY <1>1 DEF Due, Locked
<1>6. w.val \in Nat
  BY <1>2 DEF LockWord
<1> QED  BY <1>3, <1>4, <1>5, <1>6

\* The snapshot after a step is what the newest writer wrote.
LEMMA SnapshotIs ==
  ASSUME IInv', prog' = prog, NEW a \in Addr, NEW at \in Nat, NEW g \in committed',
         g.at < at, Wrote(g, a),
         \A h \in committed' : Wrote(h, a) => h = g \/ h.at < g.at
  PROVE  Snapshot(a, at)' = Memory!Written(prog[g.t][g.n].ops, a)
<1>1. PICK W : W = Writers(a, at)'
  OBVIOUS
<1>2. W = {h \in committed' : h.at < at /\ Wrote(h, a)}
  BY <1>1 DEF Writers, Wrote
<1>3. \A h \in committed' : h.at \in Nat
  BY DEF IInv, Types, Commits
<1>4. g \in W /\ \A h \in W : h.at <= g.at
  BY <1>2, <1>3
<1>5. \A h \in W : (\A f \in W : f.at <= h.at) => h = g
  BY <1>2, <1>3, <1>4
<1>6. (CHOOSE h \in W : \A f \in W : f.at <= h.at) = g
  BY <1>4, <1>5
<1>7. Snapshot(a, at)' = Memory!Written(prog[g.t][g.n].ops, a)
  <2>1. Snapshot(a, at)' = IF W = {} THEN InitVal
                           ELSE LET h == CHOOSE h \in W : \A f \in W : f.at <= h.at
                                IN  Memory!Written(prog[h.t][h.n].ops, a)
    BY <1>1 DEF Snapshot
  <2> QED  BY <1>4, <1>6, <2>1
<1> QED  BY <1>7

\* It is the same at two instants between which nobody wrote the word.
LEMMA SameSnapshot ==
  ASSUME IInv, NEW a \in Addr, NEW at \in Nat, NEW later \in Nat, at <= later,
         \A h \in committed : Wrote(h, a) => h.at < at \/ h.at >= later
  PROVE  Snapshot(a, later) = Snapshot(a, at)
<1>1. ASSUME NEW h \in committed, Wrote(h, a)
      PROVE  h.at < at <=> h.at < later
  BY <1>1, CommitType
<1>2. Writers(a, at) = Writers(a, later)
  BY <1>1 DEF Writers, Wrote
<1> QED  BY <1>2 DEF Snapshot

\* A step that adds at most one commit, that does not write the word in time.
LEMMA SnapshotKept ==
  ASSUME NEW a \in Addr, NEW at \in Nat, prog' = prog,
         \/ committed' = committed
         \/ \E g : /\ committed' = committed \cup {g}
                   /\ ~ Wrote(g, a) \/ (g.at \in Nat /\ at <= g.at)
  PROVE  Snapshot(a, at)' = Snapshot(a, at)
<1>1. Writers(a, at)' = Writers(a, at)
  <2>1. CASE committed' = committed
    BY <2>1 DEF Writers
  <2>2. CASE committed' # committed
    <3>1. PICK g : /\ committed' = committed \cup {g}
                   /\ ~ Wrote(g, a) \/ (g.at \in Nat /\ at <= g.at)
      BY <2>2
    <3>2. ~ (g.at < at /\ Wrote(g, a))
      BY <3>1
    <3> QED  BY <3>1, <3>2 DEF Writers, Wrote
  <2> QED  BY <2>1, <2>2
<1> QED  BY <1>1 DEF Snapshot

\* A lock that a running transaction has is not newer than its start.
LEMMA DueOfOwned ==
  ASSUME IInv, NEW t \in Tasklet, LogOK(t), pc[t] \in Body \ {"st_write"},
         NEW l \in Lock, lock_table[l].own = t
  PROVE  Due(l) <= tx[t].ts
<1>1. lock_table[l].val \in DOMAIN WSet(t) /\ pc[t] # "cm_drop" /\ Active(t)
  BY Owns DEF Body, Running, Active
<1>2. Locked(lock_table[l])
  BY AllocAssumption DEF Locked, NoTx, Tasklet
<1>3. Due(l) = WSet(t)[lock_table[l].val].version
  BY <1>1, <1>2 DEF Due, Version
<1> QED  BY <1>1, <1>3 DEF LogOK, Timely

\* A lock that t has neither before nor after the step.
LEMMA DueOfOthers ==
  ASSUME IInv, NEW t \in Tasklet, Rest(t), NEW l \in Lock,
         lock_table'[l] = lock_table[l], lock_table[l].own # t
  PROVE  Due(l)' = Due(l)
<1>1. Version(l)' = Version(l)
  BY VersionOfOthers
<1>2. Locked(lock_table[l]) => lock_table[l].own \in Tasklet \ {t}
  BY Owner DEF IInv, Types
<1>3. Locked(lock_table[l]) =>
        /\ pc'[lock_table[l].own] = pc[lock_table[l].own]
        /\ reg'[lock_table[l].own] = reg[lock_table[l].own]
  BY <1>2 DEF Rest, Moved
<1> QED  BY <1>1, <1>3 DEF Due

\* A tasklet that is not releasing the locks of a commit, and does not begin to.
LEMMA DueIfSteady ==
  ASSUME IInv, NEW t \in Tasklet, Rest(t), Local(t), Steady, pc[t] # "cm_drop", pc'[t] # "cm_drop",
         NEW l \in Lock
  PROVE  Due(l)' = Due(l)
<1>1. CASE lock_table'[l] = lock_table[l] /\ lock_table[l].own # t
  BY <1>1, DueOfOthers
<1>2. CASE ~ (lock_table'[l] = lock_table[l] /\ lock_table[l].own # t)
  <2>1. lock_table[l].own \in {t, NoTx} /\ lock_table'[l].own \in {t, NoTx}
    BY <1>2 DEF Local
  <2>2. Due(l) = Version(l) /\ Due(l)' = Version(l)'
    BY <2>1 DEF Due, Locked
  <2> QED  BY <2>2 DEF Steady
<1> QED  BY <1>1, <1>2

\* The locks of a transaction that is decided are due to get its time stamp.
LEMMA DueIfDecided ==
  ASSUME IInv, IInv', LogsOK, NEW t \in Tasklet, NEW at \in Nat, Decides(t, at), NEW l \in Lock
  PROVE  /\ lock_table[l].own = t => Due(l) <= tx[t].ts /\ Due(l)' = at
         /\ lock_table[l].own # t => Due(l)' = Due(l)
<1>1. /\ Rest(t) /\ lock_table' = lock_table
      /\ pc[t] \in {"cm_inc", "cm_check"} /\ pc'[t] = "cm_drop" /\ reg'[t].commit_ts = at
      /\ LogOK(t)
  BY DEF Decides, LogsOK
<1>2. lock_table[l].own = t => Due(l) <= tx[t].ts
  BY <1>1, DueOfOwned DEF Body, Running
<1>3. t # NoTx
  BY AllocAssumption DEF NoTx, Tasklet
<1>4. lock_table[l].own = t => Due(l)' = at
  BY <1>1, <1>3 DEF Due, Locked
<1> QED  BY <1>1, <1>2, <1>4, DueOfOthers

\* Only a tasklet with a transaction has locks, after the step as before.
LEMMA OwnsNext ==
  ASSUME IInv', NEW t \in Tasklet, NEW l \in Lock, lock_table'[l].own = t
  PROVE  pc'[t] \in Running \cup Releasing
<1>1. PICK j : j = lock_table'[l].val
  OBVIOUS
<1>2. j \in 1 .. Len(WSet(t)') + 1
  BY <1>1 DEF IInv, LocksMatchWriteSets
<1>3. lock_table'[l] = Owned(t, j)
  BY <1>1 DEF IInv, Types, LockWord, Owned
<1>4. Takes(t, j, l)'
  BY <1>2, <1>3 DEF IInv, LocksMatchWriteSets
<1> QED  BY <1>4 DEF Takes, Holds, Running, Releasing

\* A lock that is released gets what was due to it.
LEMMA DueIfDropped ==
  ASSUME IInv, IInv', LogsOK, NEW t \in Tasklet, NEW version \in Nat, Drops(t, version), NEW l \in Lock
  PROVE  Due(l)' = Due(l)
<1>1. /\ Rest(t) /\ reg'[t].commit_ts = reg[t].commit_ts /\ t # NoTx
      /\ lock_table' = [k \in Lock |-> IF k = WSet(t)[reg[t].i].lock THEN Free(version) ELSE lock_table[k]]
      /\ \/ pc[t] = "cm_drop" /\ pc'[t] \in {"cm_drop", "cm_end"} /\ version = reg[t].commit_ts
         \/ pc[t] = "ab_drop" /\ pc'[t] \in {"ab_drop", "ab_end"}
      /\ reg[t].i \in DOMAIN WSet(t)
  BY Facts, AllocAssumption DEF Drops, Release, Control, Releasing, NoTx, Tasklet
<1>2. CASE lock_table'[l] = lock_table[l] /\ lock_table[l].own # t
  BY <1>1, <1>2, DueOfOthers
<1>3. CASE lock_table[l].own = t /\ pc[t] = "cm_drop"
  <2>1. Due(l) = reg[t].commit_ts
    BY <1>1, <1>3 DEF Due, Locked
  <2>2. CASE lock_table'[l] = Free(version)
    <3>1. ~ Locked(lock_table'[l]) /\ lock_table'[l].val = reg[t].commit_ts
      BY <1>1, <1>3, <2>2 DEF Locked, Free
    <3> QED  BY <2>1, <3>1 DEF Due, Version
  <2>3. CASE lock_table'[l] = lock_table[l]
    <3>1. pc'[t] \in Running \cup Releasing
      <4>1. lock_table'[l].own = t
        BY <1>3, <2>3
      <4> QED  BY <4>1, OwnsNext
    <3>2. pc'[t] = "cm_drop"
      BY <1>1, <1>3, <3>1 DEF Running, Releasing
    <3> QED  BY <1>1, <1>3, <2>1, <2>3, <3>2 DEF Due, Locked
  <2> QED  BY <1>1, <2>2, <2>3
<1>4. CASE ~ (lock_table'[l] = lock_table[l] /\ lock_table[l].own # t) /\ ~ (lock_table[l].own = t /\ pc[t] = "cm_drop")
  <2>1. lock_table[l].own \in {t, NoTx} /\ lock_table'[l].own \in {t, NoTx}
    BY <1>4, DropsAtomic DEF Local
  <2>2. CASE pc[t] = "ab_drop"
    <3>1. Due(l) = Version(l) /\ Due(l)' = Version(l)'
      BY <1>1, <2>1, <2>2 DEF Due, Locked
    <3>2. Version(l)' = Version(l)
      BY <2>2, DropsAtomic
    <3> QED  BY <3>1, <3>2
  <2>3. CASE pc[t] = "cm_drop"
    <3>1. lock_table[l].own = NoTx /\ lock_table'[l] # lock_table[l]
      BY <1>1, <1>4, <2>1, <2>3
    <3>2. l = WSet(t)[reg[t].i].lock
      BY <1>1, <3>1
    <3>3. reg[t].i \in Holds(t)
      BY <1>1, <2>3, <3>2, TMAssumption DEF Holds, Releasing, IInv, Types, RegType
    <3>4. lock_table[WSet(t)[reg[t].i].lock] = Owned(t, reg[t].i)
      BY <3>3, Has
    <3>5. lock_table[l].own = t
      BY <3>2, <3>4 DEF Owned
    <3> QED  BY <1>1, <3>1, <3>5
  <2> QED  BY <1>1, <2>2, <2>3
<1> QED  BY <1>2, <1>3, <1>4

------------------------------------------------------------------------------
(* Words that are settled, and the commit of a step. *)

\* Only the owner of a word's lock is about to commit the word.
LEMMA WillWriteOwns ==
  ASSUME IInv, LogsOK, NEW u \in Tasklet, NEW a \in Addr, WillWrite(u, a)
  PROVE  OwnerOf(a) = u
BY WritesLogged DEF WillWrite, LogsOK

LEMMA OwnedSettled ==
  ASSUME IInv, LogsOK, NoneNewer, NEW t \in Tasklet, pc[t] \in Body \ {"st_write"},
         NEW a \in Addr, OwnerOf(a) = t, NEW at \in Nat
  PROVE  Settled(t, a, at) /\ Due(LOCK_ADDR[a]) <= tx[t].ts
<1>1. LOCK_ADDR[a] \in Lock /\ lock_table[LOCK_ADDR[a]].own = t /\ LogOK(t)
  BY OwnerType DEF OwnerOf, LogsOK
<1>2. Due(LOCK_ADDR[a]) <= tx[t].ts
  BY <1>1, DueOfOwned
<1>3. ASSUME NEW h \in committed, Wrote(h, a)
      PROVE  h.at <= tx[t].ts
  <2>1. h.at <= Due(LOCK_ADDR[a])
    BY <1>3 DEF NoneNewer
  <2> QED  BY <1>1, <1>2, <2>1, CommitType, StampType, DueType
<1> QED  BY <1>2, <1>3, WillWriteOwns DEF Settled

LEMMA FreeSettled ==
  ASSUME IInv, LogsOK, NoneNewer, NEW t \in Tasklet, NEW a \in Addr, NEW at \in Nat,
         ~ Locked(lock_table[LOCK_ADDR[a]]), lock_table[LOCK_ADDR[a]].val <= tx[t].ts
  PROVE  Settled(t, a, at) /\ Due(LOCK_ADDR[a]) <= tx[t].ts
<1>1. LOCK_ADDR[a] \in Lock /\ OwnerOf(a) \notin Tasklet
  BY OwnerType
<1>2. Due(LOCK_ADDR[a]) <= tx[t].ts
  BY DEF Due, Version
<1>3. ASSUME NEW h \in committed, Wrote(h, a)
      PROVE  h.at <= tx[t].ts
  <2>1. h.at <= Due(LOCK_ADDR[a])
    BY <1>3 DEF NoneNewer
  <2> QED  BY <1>1, <1>2, <2>1, CommitType, StampType, DueType
<1> QED  BY <1>1, <1>2, <1>3, WillWriteOwns DEF Settled

\* What a validation finds.
LEMMA CoherentSettled ==
  ASSUME IInv, LogsOK, NoneNewer, NEW t \in Tasklet, pc[t] = "cm_check", NEW a \in Addr, NEW at \in Nat,
         Coherent(t, lock_table[LOCK_ADDR[a]])
  PROVE  Settled(t, a, at)
<1>1. CASE Locked(lock_table[LOCK_ADDR[a]])
  <2>1. OwnerOf(a) = t
    BY <1>1 DEF Coherent, OwnLock, OwnerOf
  <2> QED  BY <2>1, OwnedSettled DEF Body, Running
<1>2. CASE ~ Locked(lock_table[LOCK_ADDR[a]])
  BY <1>2, FreeSettled DEF Coherent
<1> QED  BY <1>1, <1>2

\* All that a transaction has read is settled until its commit time stamp.
LEMMA DecidesSettled ==
  ASSUME IInv, LogsOK, SerialOK, NEW t \in Tasklet, NEW at \in Nat, Decides(t, at),
         NEW r \in view[t].reads
  PROVE  Settled(t, r[1], at)
<1>1. /\ r[1] \in Addr /\ pc[t] \in {"cm_inc", "cm_check"} /\ pc[t] \in Body \ {"st_write"}
      /\ NoneNewer /\ NoneAhead /\ Guarded(t) /\ LaterThanReaders(t) /\ Validated(t)
      /\ tx[t].ts \in Nat /\ clock \in Nat /\ tx[t].r_set \in Seq(Lock)
  BY ViewType, StampType DEF Decides, Body, Running, SerialOK, History, ReaderOK
<1>2. CASE OwnerOf(r[1]) = t
  BY <1>1, <1>2, OwnedSettled
<1>3. CASE OwnerOf(r[1]) # t
  <2>1. PICK i \in DOMAIN tx[t].r_set : tx[t].r_set[i] = LOCK_ADDR[r[1]]
    BY <1>1, <1>3 DEF Guarded
  <2>2. CASE pc[t] = "cm_inc"
    <3>1. tx[t].ts = clock
      BY <1>1, <2>1, <2>2 DEF Decides, NoneSinceStart
    <3>2. \A h \in committed : h.at <= tx[t].ts
      BY <1>1, <3>1 DEF NoneAhead
    <3>3. ASSUME NEW u \in Tasklet \ {t}
          PROVE  ~ WillWrite(u, r[1])
      <4>1. pc[u] = "cm_check" => reg[u].commit_ts <= clock
        BY DEF LogsOK, LogOK, Timely
      <4>2. WillWrite(u, r[1]) => reg[u].commit_ts > clock
        BY <1>1, <3>1 DEF LaterThanReaders
      <4> QED  BY <1>1, <4>1, <4>2, StampType DEF WillWrite
    <3> QED  BY <3>2, <3>3 DEF Settled
  <2>3. CASE pc[t] = "cm_check"
    <3>1. /\ at = reg[t].commit_ts /\ reg[t].i = Len(tx[t].r_set)
          /\ Coherent(t, lock_table[tx[t].r_set[reg[t].i]])
      BY <2>3 DEF Decides
    <3>2. CASE i = reg[t].i
      BY <1>1, <2>1, <2>3, <3>1, <3>2, CoherentSettled
    <3>3. CASE i # reg[t].i
      <4>1. i \in 1 .. reg[t].i - 1
        BY <1>1, <2>1, <3>1, <3>3
      <4> QED  BY <1>1, <2>1, <2>3, <3>1, <4>1 DEF Validated
    <3> QED  BY <3>2, <3>3
  <2> QED  BY <1>1, <2>2, <2>3
<1> QED  BY <1>2, <1>3

\* The step commits the transaction of t, as g.
Adds(t, g) ==
  /\ committed' = committed \cup {g}
  /\ g.reads = view[t].reads /\ g.dirty = view[t].dirty
  /\ g.at \in Nat /\ tx[t].ts < g.at /\ g.at <= clock'
  /\ \A a \in Addr :
       \/ ~ Wrote(g, a) /\ CommittedVal(a)' = CommittedVal(a)
       \/ /\ Wrote(g, a)
          /\ CommittedVal(a)' = Memory!Written(prog[g.t][g.n].ops, a)
          /\ Due(LOCK_ADDR[a]) <= tx[t].ts /\ Due(LOCK_ADDR[a])' = g.at
          /\ g.at = clock + 2 \/ (WillWrite(t, a) /\ g.at = reg[t].commit_ts)
  /\ \A r \in view[t].reads : Settled(t, r[1], g.at)
  /\ pc'[t] # "cm_check" /\ view'[t] \in {view[t], NewView}

LEMMA DecidesAdds ==
  ASSUME IInv, IInv', LogsOK, SerialOK, NEW t \in Tasklet, NEW at \in Nat, Decides(t, at)
  PROVE  \E g : Adds(t, g)
<1>1. PICK g : /\ committed' = committed \cup {g}
               /\ g = [t |-> t, n |-> reg[t].n, at |-> at, reads |-> view[t].reads, dirty |-> view[t].dirty]
  BY DEF Decides, Record
<1>2. /\ g.t = t /\ g.n = reg[t].n /\ g.at = at /\ g.reads = view[t].reads /\ g.dirty = view[t].dirty
      /\ pc[t] \in {"cm_inc", "cm_check"} /\ pc'[t] = "cm_drop" /\ LogOK(t)
      /\ view' = view
  BY <1>1 DEF Decides, LogsOK
<1>3. prog[g.t][g.n].ops = Tx(t).ops
  BY <1>2 DEF Tx
<1>4. tx[t].ts < at /\ at <= clock' /\ (at = clock + 2 \/ (pc[t] = "cm_check" /\ at = reg[t].commit_ts))
  BY <1>2, StampType DEF Decides, LogOK, Timely
<1>5. ASSUME NEW a \in Addr
      PROVE  \/ ~ Wrote(g, a) /\ CommittedVal(a)' = CommittedVal(a)
             \/ /\ Wrote(g, a)
                /\ CommittedVal(a)' = Memory!Written(prog[g.t][g.n].ops, a)
                /\ Due(LOCK_ADDR[a]) <= tx[t].ts /\ Due(LOCK_ADDR[a])' = g.at
                /\ g.at = clock + 2 \/ (WillWrite(t, a) /\ g.at = reg[t].commit_ts)
  <2>1. Wrote(g, a) <=> Memory!Writes(Tx(t).ops, a)
    BY <1>3 DEF Wrote
  <2>2. CommittedVal(a)' = IF Wrote(g, a) THEN Memory!Written(prog[g.t][g.n].ops, a) ELSE CommittedVal(a)
    BY <1>3, <2>1, DecidesAtomic
  <2>3. CASE Wrote(g, a)
    <3>1. OwnerOf(a) = t
      BY <1>2, <2>1, <2>3, WritesLogged
    <3>2. lock_table[LOCK_ADDR[a]].own = t /\ LOCK_ADDR[a] \in Lock
      BY <3>1, OwnerType DEF OwnerOf
    <3>3. Due(LOCK_ADDR[a]) <= tx[t].ts /\ Due(LOCK_ADDR[a])' = at
      BY <3>2, DueIfDecided
    <3>4. g.at = clock + 2 \/ (WillWrite(t, a) /\ g.at = reg[t].commit_ts)
      BY <1>2, <1>4, <2>1, <2>3 DEF WillWrite
    <3> QED  BY <1>2, <2>2, <2>3, <3>3, <3>4
  <2> QED  BY <2>2, <2>3
<1>6. \A r \in view[t].reads : Settled(t, r[1], g.at)
  BY <1>2, DecidesSettled
<1>7. Adds(t, g)
  BY <1>1, <1>2, <1>4, <1>5, <1>6 DEF Adds
<1> QED  BY <1>7

LEMMA FinishesAdds ==
  ASSUME IInv, IInv', LogsOK, SerialOK, NEW t \in Tasklet, Finishes(t)
  PROVE  \E g : Adds(t, g)
<1>1. PICK g : /\ committed' = committed \cup {g}
               /\ g = [t |-> t, n |-> reg[t].n, at |-> tx[t].ts + 1, reads |-> view[t].reads,
                       dirty |-> view[t].dirty]
  BY DEF Finishes, Record
<1>2. /\ g.t = t /\ g.n = reg[t].n /\ g.at = tx[t].ts + 1
      /\ g.reads = view[t].reads /\ g.dirty = view[t].dirty
      /\ pc'[t] \in {"start", "done"} /\ LogOK(t) /\ view'[t] = NewView /\ clock' = clock + 2
      /\ tx[t].ts \in Nat /\ clock \in Nat
  BY <1>1, StampType DEF Finishes, LogsOK
<1>3. g.at \in Nat /\ tx[t].ts < g.at /\ g.at <= clock'
  BY <1>2 DEF LogOK, Timely
<1>4. \A a \in Addr : ~ Wrote(g, a) /\ CommittedVal(a)' = CommittedVal(a)
  BY <1>2, FinishesAtomic DEF Steady, Wrote, Tx
<1>5. ASSUME NEW r \in view[t].reads
      PROVE  Settled(t, r[1], g.at)
  <2>1. \A h \in committed : h.at <= tx[t].ts \/ h.at >= g.at
    BY <1>2, CommitType
  <2>2. \A u \in Tasklet \ {t} : WillWrite(u, r[1]) => reg[u].commit_ts >= g.at
    BY <1>2, StampType DEF SerialOK, ReaderOK, LaterThanReaders
  <2> QED  BY <2>1, <2>2 DEF Settled
<1>6. Adds(t, g)
  BY <1>1, <1>2, <1>3, <1>4, <1>5 DEF Adds
<1> QED  BY <1>6

\* What any step of tasklet t amounts to.
Effect(t) ==
  /\ Rest(t) /\ Local(t)
  /\ \A l \in Lock : Due(l) <= Due(l)'
  /\ pc'[t] = "cm_check" => Draws(t) \/ Checks(t)
  /\ \/ view'[t] = NewView
     \/ view'[t] = view[t] /\ tx'[t].ts = tx[t].ts
     \/ Loads(t) /\ tx'[t].ts = tx[t].ts
  /\ \/ committed' = committed /\ \A a \in Addr : CommittedVal(a)' = CommittedVal(a)
     \/ \E g : Adds(t, g)

LEMMA DueNotLess ==
  ASSUME IInv, NEW l \in Lock, Due(l)' = Due(l)
  PROVE  Due(l) <= Due(l)'
BY DueType

\* The steps that are not about releasing locks.
LEMMA SteadyEffect ==
  ASSUME IInv, NEW t \in Tasklet, Rest(t), Local(t), Steady, pc[t] # "cm_drop", pc'[t] # "cm_drop",
         committed' = committed, pc'[t] = "cm_check" => Draws(t) \/ Checks(t),
         \/ view'[t] = NewView
         \/ view'[t] = view[t] /\ tx'[t].ts = tx[t].ts
         \/ Loads(t) /\ tx'[t].ts = tx[t].ts
  PROVE  Effect(t)
<1>1. \A l \in Lock : Due(l) <= Due(l)'
  BY DueIfSteady, DueNotLess
<1> QED  BY <1>1 DEF Effect, Steady

LEMMA KindEffect ==
  ASSUME IInv, IInv', LogsOK, SerialOK, NEW t \in Tasklet, Kind(t)
  PROVE  Idles \/ Effect(t)
<1>1. CASE Begins(t)
  <2>1. view'[t] = NewView
    BY <1>1 DEF Begins, ghosts, SerialOK, ReaderOK, EmptyView
  <2> QED  BY <1>1, <2>1, BeginsAtomic, SteadyEffect DEF Begins, Begun, ghosts
<1>2. CASE Runs(t)
  BY <1>2, RunsAtomic, SteadyEffect DEF Runs, Body, Running, ghosts, SameSets
<1>3. CASE Loads(t)
  BY <1>3, RunsAtomic, SteadyEffect DEF Loads, Begun
<1>4. CASE GivesUp(t)
  BY <1>4, GivesUpAtomic, SteadyEffect DEF GivesUp, Body, Running
<1>5. CASE \E lock \in Lock \cup {NoLock}, version \in Nat : Logs(t, lock, version)
  <2>1. PICK lock \in Lock \cup {NoLock}, version \in Nat : Logs(t, lock, version)
    BY <1>5
  <2>2. /\ Rest(t) /\ committed' = committed /\ pc[t] # "cm_drop" /\ pc'[t] \notin {"cm_drop", "cm_check"}
        /\ view'[t] \in {view[t], NewView} /\ tx'[t].ts = tx[t].ts
    BY <2>1 DEF Logs, Begun
  <2>3. Local(t) /\ Steady
    BY <2>1, LogsAtomic
  <2> QED  BY <2>2, <2>3, SteadyEffect
<1>6. CASE Wins(t)
  BY <1>6, WinsAtomic, SteadyEffect DEF Wins, ghosts, SameSets
<1>7. CASE Draws(t) \/ Checks(t)
  BY <1>7, ValidatesAtomic, SteadyEffect DEF Draws, Checks, ghosts, SameSets
<1>8. CASE \E at \in Nat : Decides(t, at)
  <2>1. PICK at \in Nat : Decides(t, at)
    BY <1>8
  <2>2. \E g : Adds(t, g)
    BY <2>1, DecidesAdds
  <2>3. /\ Rest(t) /\ pc'[t] = "cm_drop" /\ view'[t] = view[t] /\ tx'[t].ts = tx[t].ts
        /\ tx[t].ts < at /\ tx[t].ts \in Nat
    BY <2>1, StampType DEF Decides, SameSets, LogsOK, LogOK, Timely
  <2>4. \A l \in Lock : Due(l) <= Due(l)'
    BY <2>1, <2>3, DueIfDecided, DueType
  <2> QED  BY <2>1, <2>2, <2>3, <2>4, DecidesAtomic DEF Effect
<1>9. CASE Finishes(t)
  <2>1. /\ Rest(t) /\ Local(t) /\ Steady /\ pc[t] # "cm_drop" /\ pc'[t] \notin {"cm_drop", "cm_check"}
        /\ view'[t] = NewView
    BY <1>9, FinishesAtomic DEF Finishes
  <2>2. \A l \in Lock : Due(l) <= Due(l)'
    BY <2>1, DueIfSteady, DueNotLess
  <2> QED  BY <1>9, <2>1, <2>2, FinishesAdds DEF Effect
<1>10. CASE Undoes(t)
  <2>1. /\ Rest(t) /\ committed' = committed /\ pc[t] # "cm_drop" /\ pc'[t] \notin {"cm_drop", "cm_check"}
        /\ view'[t] = view[t] /\ tx'[t].ts = tx[t].ts
    BY <1>10 DEF Undoes, ghosts, SameSets
  <2> QED  BY <1>10, <2>1, UndoesAtomic, SteadyEffect
<1>11. CASE \E version \in Nat : Drops(t, version)
  <2>1. PICK version \in Nat : Drops(t, version)
    BY <1>11
  <2>2. /\ Rest(t) /\ committed' = committed /\ pc'[t] # "cm_check"
        /\ view'[t] = view[t] /\ tx'[t].ts = tx[t].ts
    BY <2>1 DEF Drops, ghosts, SameSets
  <2>3. \A l \in Lock : Due(l) <= Due(l)'
    BY <2>1, DueIfDropped, DueNotLess
  <2> QED  BY <2>1, <2>2, <2>3, DropsAtomic DEF Effect
<1>12. CASE Ends(t)
  <2>1. /\ Rest(t) /\ committed' = committed /\ pc[t] # "cm_drop" /\ pc'[t] \notin {"cm_drop", "cm_check"}
        /\ view'[t] \in {view[t], NewView} /\ tx'[t].ts = tx[t].ts
    BY <1>12 DEF Ends, SameSets
  <2> QED  BY <1>12, <2>1, EndsAtomic, SteadyEffect
<1> QED  BY <1>1, <1>2, <1>3, <1>4, <1>5, <1>6, <1>7, <1>8, <1>9, <1>10, <1>11, <1>12 DEF Kind

------------------------------------------------------------------------------
(* Each part of the invariant is kept. *)

LEMMA WroteKept ==
  ASSUME prog' = prog
  PROVE  \A h, a : Wrote(h, a)' <=> Wrote(h, a)
BY DEF Wrote

\* A new commit of a word is the newest.
LEMMA NewestCommit ==
  ASSUME IInv, SerialOK, NEW t \in Tasklet, NEW g, Adds(t, g), NEW h \in committed, NEW a \in Addr,
         Wrote(g, a), Wrote(h, a)
  PROVE  h.at < g.at
<1>1. h.at <= Due(LOCK_ADDR[a]) /\ Due(LOCK_ADDR[a]) <= tx[t].ts /\ tx[t].ts < g.at /\ g.at \in Nat
  BY DEF SerialOK, History, NoneNewer, Adds
<1>2. Due(LOCK_ADDR[a]) \in Nat /\ h.at \in Nat /\ tx[t].ts \in Nat
  BY TMAssumption, DueType, CommitType, StampType
<1> QED  BY <1>1, <1>2

LEMMA HistoryStep ==
  ASSUME IInv, IInv', LogsOK, SerialOK, NEW t \in Tasklet, Effect(t)
  PROVE  History'
<1>1. /\ prog' = prog /\ clock \in Nat /\ clock' \in Nat /\ clock <= clock'
      /\ \A a \in Addr : LOCK_ADDR[a] \in Lock
      /\ \A h, a : Wrote(h, a)' <=> Wrote(h, a)
  BY WroteKept, StampType, TMAssumption DEF Effect, Rest, Local
<1>2. \A h \in committed : h.at \in Nat
  BY CommitType
<1>3. \A l \in Lock : Due(l) \in Nat /\ Due(l) <= Due(l)' /\ Due(l)' \in Nat
  BY DueType, DueNextType DEF Effect
<1>4. NoneNewer'
  <2> SUFFICES ASSUME NEW h \in committed', NEW a \in Addr, Wrote(h, a)
               PROVE  h.at <= Due(LOCK_ADDR[a])'
    BY <1>1 DEF NoneNewer
  <2>1. CASE h \in committed
    <3>1. h.at <= Due(LOCK_ADDR[a])
      BY <2>1 DEF SerialOK, History, NoneNewer
    <3> QED  BY <1>1, <1>2, <1>3, <2>1, <3>1
  <2>2. CASE h \notin committed
    <3>1. PICK g : Adds(t, g)
      BY <2>2 DEF Effect
    <3>2. h = g
      BY <2>2, <3>1 DEF Adds
    <3> QED  BY <3>1, <3>2 DEF Adds
  <2> QED  BY <2>1, <2>2
<1>5. NoneAhead'
  <2> SUFFICES ASSUME NEW h \in committed'
               PROVE  h.at <= clock'
    BY DEF NoneAhead
  <2>1. CASE h \in committed
    BY <1>1, <1>2, <2>1 DEF SerialOK, History, NoneAhead
  <2>2. CASE h \notin committed
    BY <2>2 DEF Effect, Adds
  <2> QED  BY <2>1, <2>2
<1>6. OneAtATime'
  <2> SUFFICES ASSUME NEW h \in committed', NEW f \in committed', NEW a \in Addr, Wrote(h, a), Wrote(f, a),
                      h.at = f.at
               PROVE  h = f
    BY <1>1 DEF OneAtATime
  <2>1. CASE h \in committed /\ f \in committed
    BY <2>1 DEF SerialOK, History, OneAtATime
  <2>2. CASE ~ (h \in committed /\ f \in committed)
    <3>1. PICK g : Adds(t, g)
      BY <2>2 DEF Effect
    <3>2. h \in committed \cup {g} /\ f \in committed \cup {g} /\ g.at \in Nat
      BY <3>1 DEF Adds
    <3>3. \A e \in committed : Wrote(e, a) /\ Wrote(g, a) => e.at < g.at /\ e.at \in Nat
      BY <1>2, <3>1, NewestCommit
    <3> QED  BY <2>2, <3>2, <3>3
  <2> QED  BY <2>1, <2>2
<1>7. ValIsLatest'
  <2> SUFFICES ASSUME NEW a \in Addr, NEW at \in Nat, at > clock'
               PROVE  CommittedVal(a)' = Snapshot(a, at)'
    BY DEF ValIsLatest
  <2>1. CommittedVal(a) = Snapshot(a, at)
    BY <1>1 DEF SerialOK, History, ValIsLatest
  <2>2. CASE committed' = committed /\ CommittedVal(a)' = CommittedVal(a)
    BY <1>1, <2>1, <2>2, SnapshotKept
  <2>3. CASE ~ (committed' = committed /\ CommittedVal(a)' = CommittedVal(a))
    <3>1. PICK g : Adds(t, g)
      BY <2>3 DEF Effect
    <3>2. committed' = committed \cup {g} /\ g.at \in Nat /\ g.at < at
      BY <1>1, <3>1 DEF Adds
    <3>3. CASE ~ Wrote(g, a)
      BY <1>1, <2>1, <3>1, <3>2, <3>3, SnapshotKept DEF Adds
    <3>4. CASE Wrote(g, a)
      <4>1. \A h \in committed' : Wrote(h, a) => h = g \/ h.at < g.at
        BY <3>1, <3>2, <3>4, NewestCommit
      <4>2. Snapshot(a, at)' = Memory!Written(prog[g.t][g.n].ops, a)
        BY <1>1, <3>2, <3>4, <4>1, SnapshotIs
      <4> QED  BY <3>1, <3>4, <4>2 DEF Adds
    <3> QED  BY <3>3, <3>4
  <2> QED  BY <2>2, <2>3
<1> QED  BY <1>4, <1>5, <1>6, <1>7 DEF History

LEMMA EmptyViewStep ==
  ASSUME IInv, SerialOK, NEW t \in Tasklet, Kind(t), ~ Idles, Rest(t), NEW u \in Tasklet
  PROVE  EmptyView(u)'
<1>1. EmptyView(u) /\ EmptyView(t)
  BY DEF SerialOK, ReaderOK
<1>2. CASE u # t
  BY <1>1, <1>2 DEF EmptyView, Rest, Moved
<1>3. CASE u = t
  <2>1. CASE Begins(t) \/ Runs(t) \/ Loads(t) \/ Wins(t) \/ Draws(t) \/ Checks(t)
    BY <1>3, <2>1 DEF Begins, Runs, Loads, Wins, Draws, Checks, EmptyView, Begun, Body, Running
  <2>2. CASE GivesUp(t) \/ Finishes(t)
    BY <1>3, <2>2 DEF GivesUp, Finishes, EmptyView
  <2>3. CASE \E lock \in Lock \cup {NoLock}, version \in Nat : Logs(t, lock, version)
    BY <1>3, <2>3 DEF Logs, EmptyView, Begun
  <2>4. CASE \E at \in Nat : Decides(t, at)
    BY <1>3, <2>4 DEF Decides, EmptyView
  <2>5. CASE Undoes(t)
    BY <1>1, <1>3, <2>5 DEF Undoes, EmptyView, ghosts
  <2>6. CASE \E version \in Nat : Drops(t, version)
    BY <1>1, <1>3, <2>6 DEF Drops, EmptyView, ghosts
  <2>7. CASE Ends(t)
    BY <1>1, <1>3, <2>7 DEF Ends, EmptyView
  <2> QED  BY <2>1, <2>2, <2>3, <2>4, <2>5, <2>6, <2>7 DEF Kind
<1> QED  BY <1>2, <1>3

\* What is known of a word that is read, and was not written by the tasklet.
LEMMA LoadsRead ==
  ASSUME IInv, LogsOK, SerialOK, NEW t \in Tasklet, Loads(t), EntriesOf(t, Op(t).addr) = {}
  PROVE  /\ Op(t).addr \in Addr
         /\ \A at \in Nat : Settled(t, Op(t).addr, at)
         /\ \A h \in committed : Wrote(h, Op(t).addr) => h.at <= tx[t].ts
         /\ CommittedVal(Op(t).addr) = mem[Op(t).addr]
         /\ \/ OwnerOf(Op(t).addr) = t
            \/ tx'[t].r_set = Append(tx[t].r_set, LOCK_ADDR[Op(t).addr])
<1>1. PICK a : a = Op(t).addr
  OBVIOUS
<1>2. /\ pc[t] = "ld_again" /\ a \in Addr /\ L(t) = LOCK_ADDR[a] /\ L(t) \in Lock
      /\ pc[t] \in Body \ {"st_write"} /\ NoneNewer /\ StillOwn(t)
  BY <1>1, Facts, OperationType DEF Loads, InLoad, L, Body, Running, SerialOK, History, ReaderOK
<1>3. /\ \A at \in Nat : Settled(t, a, at)
      /\ Due(LOCK_ADDR[a]) <= tx[t].ts
      /\ CommittedVal(a) = mem[a]
      /\ OwnerOf(a) = t \/ tx'[t].r_set = Append(tx[t].r_set, LOCK_ADDR[a])
  <2>1. CASE Unchanged(t)
    <3>1. ~ Locked(lock_table[LOCK_ADDR[a]]) /\ lock_table[LOCK_ADDR[a]].val <= tx[t].ts
      BY <1>2, <2>1, StampType DEF Unchanged, IInv, Types, LockWord
    <3>2. OwnerOf(a) \notin Tasklet
      BY <1>2, <3>1, OwnerType
    <3>3. CommittedVal(a) = mem[a]
      BY <1>2, <3>2, CommittedValIs
    <3>4. tx'[t].r_set = Append(tx[t].r_set, LOCK_ADDR[a])
      BY <1>2, <2>1 DEF Loads
    <3>5. Due(LOCK_ADDR[a]) <= tx[t].ts /\ \A at \in Nat : Settled(t, a, at)
      BY <1>2, <3>1, FreeSettled
    <3> QED  BY <3>3, <3>4, <3>5
  <2>2. CASE OwnLock(t, reg[t].lock_v)
    <3>1. OwnerOf(a) = t
      BY <1>2, <2>2 DEF StillOwn, OwnLock, OwnerOf
    <3>2. CommittedVal(a) = mem[a]
      BY <1>1, <1>2, <3>1, CommittedValIs
    <3>3. Due(LOCK_ADDR[a]) <= tx[t].ts /\ \A at \in Nat : Settled(t, a, at)
      BY <1>2, <3>1, OwnedSettled
    <3> QED  BY <3>1, <3>2, <3>3
  <2> QED  BY <2>1, <2>2 DEF Loads
<1>4. ASSUME NEW h \in committed, Wrote(h, a)
      PROVE  h.at <= tx[t].ts
  <2>1. h.at <= Due(LOCK_ADDR[a])
    BY <1>2, <1>4 DEF NoneNewer
  <2> QED  BY <1>2, <1>3, <2>1, CommitType, StampType, DueType
<1> QED  BY <1>1, <1>2, <1>3, <1>4

\* The reads of a transaction after a load.
LEMMA LoadsView ==
  ASSUME IInv, NEW t \in Tasklet, Loads(t), NEW r \in view'[t].reads
  PROVE  \/ r \in view[t].reads /\ (view[t].dirty => view'[t].dirty)
         \/ /\ EntriesOf(t, Op(t).addr) = {}
            /\ r[1] = Op(t).addr /\ r[2] = reg[t].value
            /\ view'[t].dirty \/ r[2] = mem[Op(t).addr]
<1>1. CASE EntriesOf(t, Op(t).addr) # {}
  BY <1>1 DEF Loads
<1>2. CASE EntriesOf(t, Op(t).addr) = {}
  <2>1. PICK d \in BOOLEAN : d <=> view[t].dirty \/ reg[t].value # mem[Op(t).addr]
    OBVIOUS
  <2>2. (view[t].dirty \/ reg[t].value # mem[Op(t).addr]) = d
    BY <2>1, Zenon
  <2>3. view'[t] = [reads |-> view[t].reads \cup {<<Op(t).addr, reg[t].value>>}, dirty |-> d]
    BY <1>2, <2>2, Zenon DEF Loads
  <2>4. view'[t].reads = view[t].reads \cup {<<Op(t).addr, reg[t].value>>} /\ view'[t].dirty = d
    BY <2>3
  <2>5. r \in view[t].reads \/ r = <<Op(t).addr, reg[t].value>>
    BY <2>4
  <2>6. view[t].dirty => view'[t].dirty
    BY <2>1, <2>4
  <2>7. view'[t].dirty \/ reg[t].value = mem[Op(t).addr]
    BY <2>1, <2>4
  <2> QED  BY <1>2, <2>5, <2>6, <2>7
<1> QED  BY <1>1, <1>2

\* A lock that another tasklet has is not touched.
LEMMA OwnKept ==
  ASSUME IInv, NEW t \in Tasklet, Local(t), NEW u \in Tasklet \ {t}, NEW l \in Lock,
         lock_table[l].own = u
  PROVE  lock_table'[l] = lock_table[l]
BY AllocAssumption DEF Local, NoTx, Tasklet

LEMMA GuardedStep ==
  ASSUME IInv, LogsOK, SerialOK, NEW t \in Tasklet, Kind(t), ~ Idles, Rest(t), Local(t), NEW u \in Tasklet
  PROVE  Guarded(u)'
<1> SUFFICES ASSUME pc'[u] \in Body, NEW r \in view'[u].reads
             PROVE  \/ OwnerOf(r[1])' = u
                    \/ \E i \in DOMAIN tx'[u].r_set : tx'[u].r_set[i] = LOCK_ADDR[r[1]]
  BY DEF Guarded
<1>1. Guarded(u) /\ EmptyView(u) /\ tx[u].r_set \in Seq(Lock)
  BY StampType DEF SerialOK, ReaderOK
<1>2. CASE u # t
  <2>1. /\ pc[u] \in Body /\ r \in view[u].reads /\ tx'[u].r_set = tx[u].r_set
        /\ r[1] \in Addr /\ LOCK_ADDR[r[1]] \in Lock
    BY <1>2, ViewType, TMAssumption DEF Rest, Moved, SameSets
  <2>2. OwnerOf(r[1]) = u => OwnerOf(r[1])' = u
    BY <1>2, <2>1, OwnKept DEF OwnerOf
  <2> QED  BY <1>1, <2>1, <2>2 DEF Guarded
<1>3. CASE u = t
  <2>1. CASE Loads(t)
    <3>1. /\ pc[t] \in Body /\ lock_table' = lock_table
          /\ \/ tx'[t].r_set = tx[t].r_set
             \/ L(t) \in Lock /\ tx'[t].r_set = Append(tx[t].r_set, L(t))
      BY <2>1, Facts, OperationType DEF Loads, Body, Running, shared, InLoad
    <3>2. CASE r \in view[t].reads
      <4>1. \A i \in DOMAIN tx[t].r_set : i \in DOMAIN tx'[t].r_set /\ tx'[t].r_set[i] = tx[t].r_set[i]
        BY <1>1, <1>3, <3>1
      <4> QED  BY <1>1, <1>3, <3>1, <3>2, <4>1 DEF Guarded, OwnerOf
    <3>3. CASE r \notin view[t].reads
      <4>1. EntriesOf(t, Op(t).addr) = {} /\ r[1] = Op(t).addr
        BY <1>3, <2>1, <3>3, LoadsView
      <4>2. \/ OwnerOf(r[1]) = t
            \/ tx'[t].r_set = Append(tx[t].r_set, LOCK_ADDR[r[1]])
        BY <2>1, <4>1, LoadsRead
      <4>3. CASE OwnerOf(r[1]) = t
        BY <1>3, <3>1, <4>3 DEF OwnerOf
      <4>4. CASE tx'[t].r_set = Append(tx[t].r_set, LOCK_ADDR[r[1]])
        <5>1. /\ Len(tx[t].r_set) + 1 \in DOMAIN tx'[t].r_set
              /\ tx'[t].r_set[Len(tx[t].r_set) + 1] = LOCK_ADDR[r[1]]
          BY <1>1, <1>3, <4>4
        <5> QED  BY <1>3, <5>1
      <4> QED  BY <4>2, <4>3, <4>4
    <3> QED  BY <3>2, <3>3
  <2>2. CASE /\ pc[t] \in Body /\ view'[t] = view[t] /\ tx'[t].r_set = tx[t].r_set
             /\ \/ lock_table' = lock_table
                \/ Wins(t)
    <3>1. r \in view[t].reads /\ r[1] \in Addr /\ LOCK_ADDR[r[1]] \in Lock /\ t # NoTx
      BY <1>3, <2>2, ViewType, TMAssumption, AllocAssumption DEF NoTx, Tasklet
    <3>2. OwnerOf(r[1]) = t => OwnerOf(r[1])' = t
      <4>1. lock_table \in [Lock -> LockWord]
        BY DEF IInv, Types
      <4>2. CASE Wins(t)
        BY <3>1, <4>1, <4>2 DEF OwnerOf, Wins, Owned
      <4> QED  BY <2>2, <4>2 DEF OwnerOf
    <3> QED  BY <1>1, <1>3, <2>2, <3>1, <3>2 DEF Guarded
  <2>3. CASE Runs(t) \/ Wins(t) \/ Draws(t) \/ Checks(t)
    <3>1. /\ pc[t] \in Body /\ view'[t] = view[t] /\ tx'[t].r_set = tx[t].r_set
          /\ lock_table' = lock_table \/ Wins(t)
      BY <2>3 DEF Runs, Wins, Draws, Checks, ghosts, shared, SameSets, Body, Running
    <3> QED  BY <2>2, <3>1
  <2>4. CASE \E lock \in Lock \cup {NoLock}, version \in Nat : Logs(t, lock, version)
    <3>1. /\ pc[t] \in Body /\ view'[t] = view[t] /\ tx'[t].r_set = tx[t].r_set
          /\ lock_table' = lock_table
      BY <1>3, <2>4 DEF Logs, Body, Running
    <3> QED  BY <2>2, <3>1
  <2>5. CASE Begins(t)
    BY <1>1, <1>3, <2>5 DEF Begins, EmptyView, NewView, ghosts
  <2>6. CASE GivesUp(t) \/ Finishes(t) \/ Undoes(t) \/ Ends(t)
    BY <1>3, <2>6 DEF GivesUp, Finishes, Undoes, Ends, Body, Running
  <2>7. CASE (\E at \in Nat : Decides(t, at)) \/ (\E version \in Nat : Drops(t, version))
    BY <1>3, <2>7 DEF Decides, Drops, Body, Running
  <2> QED  BY <2>1, <2>3, <2>4, <2>5, <2>6, <2>7 DEF Kind
<1> QED  BY <1>2, <1>3

LEMMA StillOwnStep ==
  ASSUME IInv, SerialOK, NEW t \in Tasklet, Kind(t), ~ Idles, Rest(t), Local(t), NEW u \in Tasklet
  PROVE  StillOwn(u)'
<1> SUFFICES ASSUME pc'[u] \in {"ld_value", "ld_again"}, reg'[u].lock_v.own = u
             PROVE  \E l : L(u)' = l /\ lock_table'[l] = reg'[u].lock_v
  BY DEF StillOwn
<1>1. StillOwn(u)
  BY DEF SerialOK, ReaderOK
<1>2. CASE u # t
  <2>1. pc[u] = pc'[u] /\ reg[u] = reg'[u] /\ L(u)' = L(u)
    BY <1>2 DEF Rest, Moved, L, Op, Tx
  <2>2. L(u) \in Lock
    BY <2>1, Facts, OperationType DEF InLoad
  <2>3. lock_table[L(u)] = reg[u].lock_v
    BY <1>1, <2>1 DEF StillOwn
  <2>4. lock_table'[L(u)] = lock_table[L(u)]
    BY <1>2, <2>1, <2>2, <2>3, OwnKept
  <2> QED  BY <2>1, <2>3, <2>4
<1>3. CASE u = t
  <2>1. Runs(t)
    <3>1. pc'[t] \in {"ld_value", "ld_again"}
      BY <1>3
    <3> QED  BY <3>1 DEF Kind, Begins, Loads, GivesUp, Logs, Wins, Draws, Checks, Decides, Finishes,
                         Undoes, Drops, Ends, Begun
  <2>2. /\ L(t)' = L(t) /\ lock_table' = lock_table
        /\ \/ reg'[t].lock_v = lock_table[L(t)]
           \/ pc[t] = "ld_value" /\ reg'[t].lock_v = reg[t].lock_v
    BY <1>3, <2>1 DEF Runs, shared
  <2> QED  BY <1>1, <1>3, <2>2 DEF StillOwn
<1> QED  BY <1>2, <1>3

\* Who is about to commit a word after the step.
LEMMA WillWriteNext ==
  ASSUME IInv, NEW t \in Tasklet, Effect(t), NEW v \in Tasklet, NEW a, WillWrite(v, a)'
  PROVE  \/ WillWrite(v, a) /\ reg'[v].commit_ts = reg[v].commit_ts
         \/ v = t /\ Draws(t) /\ reg'[v].commit_ts = clock + 2
<1>1. pc'[v] = "cm_check" /\ prog' = prog
  BY DEF WillWrite, Effect, Rest
<1>2. CASE v # t
  BY <1>1, <1>2 DEF WillWrite, Effect, Rest, Moved, Tx
<1>3. CASE v = t
  <2>1. CASE Draws(t)
    BY <1>3, <2>1 DEF Draws
  <2>2. CASE Checks(t)
    BY <1>1, <1>3, <2>2 DEF Checks, WillWrite, Tx
  <2> QED  BY <1>1, <1>3, <2>1, <2>2 DEF Effect
<1> QED  BY <1>2, <1>3

LEMMA LaterThanReadersStep ==
  ASSUME IInv, LogsOK, SerialOK, NEW t \in Tasklet, Effect(t), NEW u \in Tasklet
  PROVE  LaterThanReaders(u)'
<1> SUFFICES ASSUME NEW r \in view'[u].reads, NEW v \in Tasklet \ {u}, WillWrite(v, r[1])'
             PROVE  reg'[v].commit_ts > tx'[u].ts
  BY DEF LaterThanReaders
<1>1. LaterThanReaders(u) /\ LaterThanReaders(t) /\ Timely(u)
  BY DEF SerialOK, ReaderOK, LogsOK, LogOK
<1>2. \/ WillWrite(v, r[1]) /\ reg'[v].commit_ts = reg[v].commit_ts
      \/ v = t /\ reg'[v].commit_ts = clock + 2
  BY WillWriteNext
<1>3. CASE r \in view[u].reads /\ tx'[u].ts = tx[u].ts
  BY <1>1, <1>2, <1>3, StampType DEF LaterThanReaders, Timely
<1>4. CASE ~ (r \in view[u].reads /\ tx'[u].ts = tx[u].ts)
  <2>1. u = t
    BY <1>4 DEF Effect, Rest, SameSets
  <2>2. Loads(t) /\ tx'[t].ts = tx[t].ts
    BY <1>4, <2>1 DEF Effect, NewView
  <2>3. r \notin view[t].reads
    BY <1>4, <2>1, <2>2
  <2>4. EntriesOf(t, Op(t).addr) = {} /\ r[1] = Op(t).addr
    BY <2>1, <2>2, <2>3, LoadsView
  <2>5. Settled(t, r[1], tx[t].ts + 1)
    BY <2>2, <2>4, LoadsRead, StampType
  <2>6. v # t
    BY <2>1
  <2>7. reg[v].commit_ts >= tx[t].ts + 1
    BY <1>2, <2>5, <2>6 DEF Settled
  <2> QED  BY <1>2, <2>1, <2>2, <2>6, <2>7, StampType
<1> QED  BY <1>3, <1>4

\* The step commits nothing, or a transaction that comes after what is settled.
LEMMA SettledKept ==
  ASSUME IInv, LogsOK, SerialOK, NEW t \in Tasklet, Effect(t), NEW u \in Tasklet, NEW a \in Addr,
         NEW at \in Nat, Settled(u, a, at), tx'[u].ts = tx[u].ts, at <= clock + 2,
         u = t => committed' = committed
  PROVE  Settled(u, a, at)'
<1>1. prog' = prog /\ clock \in Nat /\ \A h : Wrote(h, a)' <=> Wrote(h, a)
  BY WroteKept, StampType DEF Effect, Rest
<1>2. ASSUME NEW h \in committed', Wrote(h, a)
      PROVE  h.at <= tx[u].ts \/ h.at >= at
  <2>1. CASE h \in committed
    BY <1>2, <2>1 DEF Settled
  <2>2. CASE h \notin committed
    <3>1. Adds(t, h) /\ u # t
      BY <2>2 DEF Effect, Adds
    <3>2. h.at = clock + 2 \/ (WillWrite(t, a) /\ h.at = reg[t].commit_ts)
      BY <1>2, <3>1 DEF Adds
    <3> QED  BY <1>1, <3>1, <3>2 DEF Settled
  <2> QED  BY <2>1, <2>2
<1>3. ASSUME NEW v \in Tasklet \ {u}, WillWrite(v, a)'
      PROVE  reg'[v].commit_ts >= at
  <2>1. \/ WillWrite(v, a) /\ reg'[v].commit_ts = reg[v].commit_ts
        \/ reg'[v].commit_ts = clock + 2
    BY <1>3, WillWriteNext
  <2> QED  BY <1>1, <2>1 DEF Settled
<1> QED  BY <1>1, <1>2, <1>3 DEF Settled

LEMMA ValidatedStep ==
  ASSUME IInv, LogsOK, SerialOK, NEW t \in Tasklet, Effect(t), NEW u \in Tasklet
  PROVE  Validated(u)'
<1> SUFFICES ASSUME pc'[u] = "cm_check", NEW a \in Addr,
                    NEW i \in 1 .. reg'[u].i - 1, tx'[u].r_set[i] = LOCK_ADDR[a]
             PROVE  \E at : reg'[u].commit_ts = at /\ Settled(u, a, at)'
  BY DEF Validated
<1>1. PICK at : at = reg[u].commit_ts
  OBVIOUS
<1>2. at \in Nat /\ Timely(u) /\ Validated(u) /\ clock \in Nat /\ reg[u].i \in Nat
  BY <1>1, StampType DEF LogsOK, LogOK, SerialOK, ReaderOK
<1>3. CASE u # t
  <2>1. /\ pc[u] = "cm_check" /\ i \in 1 .. reg[u].i - 1 /\ tx[u].r_set[i] = LOCK_ADDR[a]
        /\ reg'[u].commit_ts = at /\ tx'[u].ts = tx[u].ts
    BY <1>1, <1>3 DEF Effect, Rest, Moved, SameSets
  <2>2. Settled(u, a, at) /\ at <= clock + 2
    BY <1>1, <1>2, <2>1 DEF Validated, Timely
  <2> QED  BY <1>2, <1>3, <2>1, <2>2, SettledKept
<1>4. CASE u = t
  <2>1. Checks(t)
    <3>1. ~ Draws(t)
      BY <1>4 DEF Draws
    <3> QED  BY <1>4, <3>1 DEF Effect
  <2>2. /\ pc[t] = "cm_check" /\ reg'[t].i = reg[t].i + 1 /\ reg'[t].commit_ts = at
        /\ committed' = committed /\ tx'[t].ts = tx[t].ts /\ tx'[t].r_set = tx[t].r_set
        /\ Coherent(t, lock_table[tx[t].r_set[reg[t].i]])
    BY <1>1, <1>4, <2>1 DEF Checks, SameSets, ghosts
  <2>3. Settled(t, a, at)
    <3>1. CASE i = reg[t].i
      <4>1. Coherent(t, lock_table[LOCK_ADDR[a]])
        BY <1>4, <2>2, <3>1
      <4> QED  BY <1>2, <2>2, <4>1, CoherentSettled DEF SerialOK, History
    <3>2. CASE i # reg[t].i
      <4>1. i \in 1 .. reg[t].i - 1
        BY <1>2, <1>4, <2>2, <3>2
      <4> QED  BY <1>1, <1>2, <1>4, <2>2, <4>1 DEF Validated
    <3> QED  BY <3>1, <3>2
  <2>4. at <= clock + 2
    BY <1>1, <1>2, <1>4, <2>2 DEF Timely
  <2> QED  BY <1>2, <1>4, <2>2, <2>3, <2>4, SettledKept
<1> QED  BY <1>3, <1>4

LEMMA ReadsAtStartStep ==
  ASSUME IInv, IInv', LogsOK, SerialOK, NEW t \in Tasklet, Effect(t), NEW u \in Tasklet
  PROVE  ReadsAtStart(u)'
<1> SUFFICES ASSUME NEW r \in view'[u].reads, NEW at \in Nat, at = tx'[u].ts + 1, ~ view'[u].dirty
             PROVE  r[2] = Snapshot(r[1], at)'
  BY DEF ReadsAtStart
<1>1. /\ ReadsAtStart(u) /\ LaterThanReaders(u) /\ Timely(u) /\ prog' = prog
      /\ tx[u].ts \in Nat /\ clock \in Nat
  BY StampType DEF SerialOK, ReaderOK, LogsOK, LogOK, Effect, Rest
<1>2. CASE view'[u] = view[u] /\ tx'[u].ts = tx[u].ts
  <2>1. r \in view[u].reads /\ r[1] \in Addr /\ r[2] = Snapshot(r[1], at)
    BY <1>1, <1>2, ViewType DEF ReadsAtStart
  <2>2. CASE committed' = committed
    BY <1>1, <2>1, <2>2, SnapshotKept
  <2>3. CASE committed' # committed
    <3>1. PICK g : Adds(t, g)
      BY <2>3 DEF Effect
    <3>2. committed' = committed \cup {g} /\ g.at \in Nat /\ tx[t].ts < g.at
      BY <3>1 DEF Adds
    <3>3. Wrote(g, r[1]) => at <= g.at
      <4>1. CASE u = t
        BY <1>1, <1>2, <3>2, <4>1
      <4>2. CASE u # t
        <5>1. ASSUME Wrote(g, r[1])
              PROVE  g.at = clock + 2 \/ (WillWrite(t, r[1]) /\ g.at = reg[t].commit_ts)
          BY <2>1, <3>1, <5>1 DEF Adds
        <5>2. WillWrite(t, r[1]) => reg[t].commit_ts > tx[u].ts
          BY <1>1, <2>1, <4>2 DEF LaterThanReaders
        <5> QED  BY <1>1, <1>2, <3>2, <5>1, <5>2, StampType DEF Timely
      <4> QED  BY <4>1, <4>2
    <3> QED  BY <1>1, <2>1, <3>2, <3>3, SnapshotKept
  <2> QED  BY <2>2, <2>3
<1>3. CASE ~ (view'[u] = view[u] /\ tx'[u].ts = tx[u].ts)
  <2>1. u = t
    BY <1>3 DEF Effect, Rest, SameSets
  <2>2. Loads(t) /\ tx'[t].ts = tx[t].ts
    BY <1>3, <2>1 DEF Effect, NewView
  <2>3. committed' = committed
    BY <2>2 DEF Loads
  <2>4. CASE r \in view[t].reads /\ ~ view[t].dirty
    <3>1. r[2] = Snapshot(r[1], at) /\ r[1] \in Addr
      BY <1>1, <2>1, <2>2, <2>4, ViewType DEF ReadsAtStart
    <3> QED  BY <1>1, <2>3, <3>1, SnapshotKept
  <2>5. CASE ~ (r \in view[t].reads /\ ~ view[t].dirty)
    <3>1. /\ EntriesOf(t, Op(t).addr) = {} /\ r[1] = Op(t).addr
          /\ r[2] = mem[Op(t).addr]
      BY <2>1, <2>2, <2>5, LoadsView
    <3>2. /\ r[1] \in Addr /\ CommittedVal(r[1]) = r[2]
          /\ \A h \in committed : Wrote(h, r[1]) => h.at <= tx[t].ts
      BY <2>2, <3>1, LoadsRead
    <3>3. r[2] = Snapshot(r[1], clock + 1)
      <4>1. clock + 1 \in Nat /\ clock + 1 > clock
        BY <1>1
      <4> QED  BY <3>2, <4>1 DEF SerialOK, History, ValIsLatest
    <3>4. Snapshot(r[1], clock + 1) = Snapshot(r[1], at)
      <4>1. at <= clock + 1 /\ clock + 1 \in Nat
        BY <1>1, <2>1, <2>2 DEF Timely
      <4>2. ASSUME NEW h \in committed, Wrote(h, r[1])
            PROVE  h.at < at
        BY <1>1, <2>1, <2>2, <3>2, <4>2, CommitType
      <4> QED  BY <3>2, <4>1, <4>2, SameSnapshot
    <3> QED  BY <1>1, <2>3, <3>2, <3>3, <3>4, SnapshotKept
  <2> QED  BY <2>4, <2>5
<1> QED  BY <1>2, <1>3

LEMMA LaterThanCommitsStep ==
  ASSUME IInv, LogsOK, SerialOK, NEW t \in Tasklet, Effect(t)
  PROVE  LaterThanCommits'
<1> SUFFICES ASSUME NEW h \in committed', NEW r \in h.reads, NEW v \in Tasklet, WillWrite(v, r[1])'
             PROVE  reg'[v].commit_ts >= h.at
  BY DEF LaterThanCommits
<1>1. \/ WillWrite(v, r[1]) /\ reg'[v].commit_ts = reg[v].commit_ts
      \/ v = t /\ Draws(t) /\ reg'[v].commit_ts = clock + 2
  BY WillWriteNext
<1>2. CASE h \in committed
  <2>1. h.at <= clock /\ clock \in Nat /\ h.at \in Nat
    BY <1>2, StampType, CommitType DEF SerialOK, History, NoneAhead
  <2>2. WillWrite(v, r[1]) => reg[v].commit_ts >= h.at
    BY <1>2 DEF SerialOK, LaterThanCommits
  <2> QED  BY <1>1, <2>1, <2>2
<1>3. CASE h \notin committed
  <2>1. Adds(t, h)
    BY <1>3 DEF Effect, Adds
  <2>2. r \in view[t].reads /\ pc'[v] = "cm_check" /\ pc'[t] # "cm_check"
    BY <2>1 DEF Adds, WillWrite
  <2>3. Settled(t, r[1], h.at) /\ v # t
    BY <2>1, <2>2 DEF Adds
  <2> QED  BY <1>1, <2>3 DEF Settled
<1> QED  BY <1>2, <1>3

LEMMA SerializableStep ==
  ASSUME IInv, IInv', LogsOK, SerialOK, NEW t \in Tasklet, Effect(t)
  PROVE  Serializable'
<1> SUFFICES ASSUME NEW h \in committed', ~ h.dirty, NEW r \in h.reads
             PROVE  r[2] = Snapshot(r[1], h.at)'
  BY DEF Serializable, FromSnapshot
<1>1. prog' = prog /\ clock \in Nat
  BY StampType DEF Effect, Rest
<1>2. CASE h \in committed
  <2>1. r[2] = Snapshot(r[1], h.at)
    BY <1>2 DEF SerialOK, Serializable, FromSnapshot
  <2>2. h.at \in Nat /\ r[1] \in Addr /\ h.at <= clock
    BY <1>2, CommitType DEF SerialOK, History, NoneAhead
  <2>3. CASE committed' = committed
    BY <1>1, <2>1, <2>2, <2>3, SnapshotKept
  <2>4. CASE committed' # committed
    <3>1. PICK g : Adds(t, g)
      BY <2>4 DEF Effect
    <3>2. committed' = committed \cup {g} /\ g.at \in Nat
      BY <3>1 DEF Adds
    <3>3. Wrote(g, r[1]) => g.at = clock + 2 \/ (WillWrite(t, r[1]) /\ g.at = reg[t].commit_ts)
      BY <2>2, <3>1 DEF Adds
    <3>4. WillWrite(t, r[1]) => reg[t].commit_ts >= h.at
      BY <1>2 DEF SerialOK, LaterThanCommits
    <3>5. Wrote(g, r[1]) => h.at <= g.at
      BY <1>1, <2>2, <3>2, <3>3, <3>4
    <3> QED  BY <1>1, <2>1, <2>2, <3>2, <3>5, SnapshotKept
  <2> QED  BY <2>3, <2>4
<1>3. CASE h \notin committed
  <2>1. Adds(t, h)
    BY <1>3 DEF Effect, Adds
  <2>2. /\ r \in view[t].reads /\ ~ view[t].dirty /\ r[1] \in Addr
        /\ h.at \in Nat /\ tx[t].ts \in Nat /\ tx[t].ts < h.at /\ committed' = committed \cup {h}
    BY <2>1, ViewType, StampType DEF Adds
  <2>3. r[2] = Snapshot(r[1], tx[t].ts + 1)
    <3>1. tx[t].ts + 1 \in Nat
      BY <2>2
    <3> QED  BY <2>2, <3>1 DEF SerialOK, ReaderOK, ReadsAtStart
  <2>4. Snapshot(r[1], h.at) = Snapshot(r[1], tx[t].ts + 1)
    <3>1. Settled(t, r[1], h.at)
      BY <2>1, <2>2 DEF Adds
    <3>2. ASSUME NEW f \in committed, Wrote(f, r[1])
          PROVE  f.at < tx[t].ts + 1 \/ f.at >= h.at
      BY <2>2, <3>1, <3>2, CommitType DEF Settled
    <3>3. tx[t].ts + 1 \in Nat /\ tx[t].ts + 1 <= h.at
      BY <2>2
    <3> QED  BY <2>2, <3>2, <3>3, SameSnapshot
  <2>5. Snapshot(r[1], h.at)' = Snapshot(r[1], h.at)
    BY <1>1, <2>2, SnapshotKept
  <2> QED  BY <2>3, <2>4, <2>5
<1> QED  BY <1>2, <1>3

------------------------------------------------------------------------------
(* All parts together. *)

\* An assert fails, or nothing happens.
LEMMA IdlesSerial ==
  ASSUME SerialOK, Idles
  PROVE  SerialOK'
<1>1. /\ clock' = clock /\ lock_table' = lock_table /\ mem' = mem /\ prog' = prog /\ pc' = pc
      /\ tx' = tx /\ reg' = reg /\ view' = view /\ committed' = committed
  BY DEF Idles, shared, ghosts
<1>2. /\ \A h, a : Wrote(h, a)' <=> Wrote(h, a)
      /\ \A u, a : WillWrite(u, a)' <=> WillWrite(u, a)
      /\ \A l : Due(l)' = Due(l)
      /\ \A a : CommittedVal(a)' = CommittedVal(a) /\ OwnerOf(a)' = OwnerOf(a)
      /\ \A a, at : Snapshot(a, at)' = Snapshot(a, at)
      /\ \A u : L(u)' = L(u)
  <2>1. \A h, a : Wrote(h, a)' <=> Wrote(h, a)
    BY <1>1 DEF Wrote
  <2>2. \A u, a : WillWrite(u, a)' <=> WillWrite(u, a)
    BY <1>1 DEF WillWrite, Tx
  <2>3. \A l : Due(l)' = Due(l)
    BY <1>1 DEF Due, Version, WSet
  <2>4. \A a : CommittedVal(a)' = CommittedVal(a) /\ OwnerOf(a)' = OwnerOf(a)
    BY <1>1 DEF CommittedVal, WSet, Decided, OwnerOf
  <2>5. \A a, at : Snapshot(a, at)' = Snapshot(a, at)
    BY <1>1 DEF Snapshot, Writers
  <2>6. \A u : L(u)' = L(u)
    BY <1>1 DEF L, Op, Tx
  <2> QED  BY <2>1, <2>2, <2>3, <2>4, <2>5, <2>6
<1>3. History'
  BY <1>1, <1>2 DEF SerialOK, History, NoneNewer, NoneAhead, OneAtATime, ValIsLatest
<1>4. ASSUME NEW u \in Tasklet
      PROVE  ReaderOK(u)'
  <2>1. ReaderOK(u)
    BY DEF SerialOK
  <2>2. EmptyView(u)' /\ Guarded(u)' /\ StillOwn(u)' /\ LaterThanReaders(u)' /\ ReadsAtStart(u)'
    BY <1>1, <1>2, <2>1 DEF ReaderOK, EmptyView, Guarded, StillOwn, LaterThanReaders, ReadsAtStart
  <2>3. Validated(u)'
    BY <1>1, <1>2, <2>1 DEF ReaderOK, Validated, Settled
  <2> QED  BY <2>2, <2>3 DEF ReaderOK
<1>5. LaterThanCommits' /\ Serializable'
  BY <1>1, <1>2 DEF SerialOK, LaterThanCommits, Serializable, FromSnapshot
<1> QED  BY <1>3, <1>4, <1>5 DEF SerialOK

LEMMA NextSerial ==
  ASSUME IInv, LogsOK, SerialOK, [Next]_vars
  PROVE  SerialOK'
<1>1. IInv'
  BY NextOK
<1>2. UNCHANGED vars => Idles
  BY DEF vars, Idles
<1>3. CASE Idles
  BY <1>3, IdlesSerial
<1>4. CASE ~ Idles
  <2>1. PICK t \in Tasklet : Step(t)
    BY <1>2, <1>4 DEF Next, Terminating
  <2>2. Kind(t)
    BY <2>1, StepKind
  <2>3. Effect(t) /\ Rest(t) /\ Local(t)
    BY <1>1, <1>4, <2>2, KindEffect DEF Effect
  <2>4. ASSUME NEW u \in Tasklet
        PROVE  ReaderOK(u)'
    <3>1. EmptyView(u)' /\ Guarded(u)' /\ StillOwn(u)'
      BY <1>4, <2>2, <2>3, EmptyViewStep, GuardedStep, StillOwnStep
    <3>2. LaterThanReaders(u)' /\ Validated(u)' /\ ReadsAtStart(u)'
      BY <1>1, <2>3, LaterThanReadersStep, ValidatedStep, ReadsAtStartStep
    <3> QED  BY <3>1, <3>2 DEF ReaderOK
  <2>5. History' /\ LaterThanCommits' /\ Serializable'
    BY <1>1, <2>3, HistoryStep, LaterThanCommitsStep, SerializableStep
  <2> QED  BY <2>4, <2>5 DEF SerialOK
<1> QED  BY <1>3, <1>4

LEMMA InitSerial ==
  ASSUME Init
  PROVE  SerialOK
<1>1. /\ committed = {} /\ clock = 0 /\ mem = [a \in Addr |-> InitVal]
      /\ lock_table = [l \in Lock |-> Free(0)]
      /\ view = [t \in Tasklet |-> NewView] /\ reg = [t \in Tasklet |-> Fresh(1, 1)]
      /\ pc = [t \in Tasklet |-> IF prog[t] = <<>> THEN "done" ELSE "start"]
  BY DEF Init
<1>2. History
  <2>1. ASSUME NEW a \in Addr
        PROVE  CommittedVal(a) = InitVal /\ \A at \in Nat : Snapshot(a, at) = InitVal
    <3>1. ~ Locked(lock_table[LOCK_ADDR[a]])
      BY <1>1, TMAssumption DEF Locked, Free
    <3>2. \A at \in Nat : Writers(a, at) = {}
      BY <1>1 DEF Writers
    <3> QED  BY <1>1, <3>1, <3>2 DEF CommittedVal, Snapshot
  <2> QED  BY <1>1, <2>1 DEF History, NoneNewer, NoneAhead, OneAtATime, ValIsLatest
<1>3. ASSUME NEW t \in Tasklet
      PROVE  ReaderOK(t)
  <2>1. view[t] = NewView /\ view[t].reads = {} /\ pc[t] \in {"start", "done"}
    BY <1>1 DEF NewView
  <2> QED  BY <2>1 DEF ReaderOK, EmptyView, Guarded, StillOwn, LaterThanReaders, Validated, ReadsAtStart
<1> QED  BY <1>1, <1>2, <1>3 DEF SerialOK, LaterThanCommits, Serializable

LEMMA OpaqueIs ==
  ASSUME IInv, SerialOK
  PROVE  Opaque
<1> SUFFICES ASSUME NEW t \in Tasklet, ~ view[t].dirty, NEW r \in view[t].reads
             PROVE  r[2] = Snapshot(r[1], tx[t].ts + 1)
  BY DEF Opaque, FromSnapshot
<1>1. tx[t].ts + 1 \in Nat
  BY StampType
<1> QED  BY <1>1 DEF SerialOK, ReaderOK, ReadsAtStart

------------------------------------------------------------------------------
(* The strengthening of the theorems below: the versions of the locks, the  *)
(* values of the words and the time stamps that are drawn agree with the    *)
(* history of the commits and with what everyone has read.                  *)
THEOREM SerialCorrect == Spec => []SerialOK
<1>1. Init => SerialOK
  BY InitSerial
<1>2. IInv /\ LogsOK /\ SerialOK /\ [Next]_vars => SerialOK'
  BY NextSerial
<1> QED  BY <1>1, <1>2, Inductive, LogsCorrect, PTL DEF Spec

(* For any number of tasklets, words and locks, and any batch: the commit   *)
(* time stamps are a serial order of the transactions that committed,       *)
(* except for those that were given another one's uncommitted value         *)
(* (tm.c:464-476).                                                          *)
THEOREM Serializability == Spec => []Serializable
<1>1. SerialOK => Serializable
  BY DEF SerialOK
<1> QED  BY <1>1, SerialCorrect, PTL

(* Every transaction, also one that will abort, has read the memory as of   *)
(* its ts and nothing else (tm.c:330), with the same exception.             *)
THEOREM Opacity == Spec => []Opaque
<1>1. IInv /\ SerialOK => Opaque
  BY OpaqueIs
<1> QED  BY <1>1, Inductive, SerialCorrect, PTL
------------------------------------------------------------------------------
(* Deterministic transactions: the gate and the clock.                      *)

\* A batch without optimistic transactions, whose time stamps tell its transactions
\* apart and in which every transaction writes.
DetBatch ==
  /\ \A t \in Tasklet : \A n \in DOMAIN prog[t] :
       prog[t][n].mode = DETERMINISTIC /\ \E a \in Addr : Memory!Writes(prog[t][n].ops, a)
  /\ \A t, u \in Tasklet : \A n \in DOMAIN prog[t], m \in DOMAIN prog[u] :
       prog[t][n].ts = prog[u][m].ts => t = u /\ n = m

\* The tasklets that have taken their turn and have yet to be decided.
Validating == {t \in Tasklet : pc[t] = "cm_check"}

Turns == Cardinality(committed) + Cardinality(Validating)

\* What is committed is behind its tasklet.
Behind(h) ==
  /\ h.t \in Tasklet /\ h.n \in DOMAIN prog[h.t]
  /\ h.n < reg[h.t].n \/ (h.n = reg[h.t].n /\ Decided(h.t))

\* A transaction is through the gate when the clock has come to its time stamp.
AtGate(t) ==
  pc[t] \in Body => /\ tx[t].c_ts = 2 * Tx(t).ts
                    /\ pc[t] = "cm_inc" => clock >= tx[t].c_ts

\* As long as no commit has failed, the turns that were taken are the first ones, and
\* each has the time stamp of its place.
InTurn ==
  NoFailedCommit =>
    /\ \A h \in committed : h.at = 2 * prog[h.t][h.n].ts + 2
    /\ \A u \in Validating : reg[u].commit_ts = 2 * Tx(u).ts + 2
    /\ \A i \in Nat : 2 * i < clock =>
         \/ \E h \in committed : prog[h.t][h.n].ts = i
         \/ \E u \in Validating : Tx(u).ts = i

TurnsOK ==
  /\ DetBatch
  /\ IsFiniteSet(committed) /\ \A h \in committed : Behind(h)
  /\ \A t \in Tasklet : AtGate(t)
  /\ 2 * Turns <= clock
  /\ InTurn

\* Nobody's place in the order changes but that of the tasklet that starts, and the
\* gate opens at the time stamp.
Passes(t) ==
  /\ \A u \in Tasklet : u # t \/ pc[t] # "start" => tx'[u].c_ts = tx[u].c_ts
  /\ pc[t] = "start" => tx'[t].c_ts = 2 * Tx(t).ts
  /\ pc'[t] = "cm_inc" /\ Tx(t).mode = DETERMINISTIC => pc[t] = "cm_wait" /\ clock >= tx[t].c_ts

LEMMA LabelGate ==
  ASSUME IInv, NEW t \in Tasklet, pc[t] # "done", NEW k \in Nat \ {0}, Tx(t).mode = DETERMINISTIC
  PROVE  Label(t, k) # "cm_inc"
<1>1. k \in DOMAIN Tx(t).ops => Tx(t).ops[k].kind \in {"load", "store", "alloc"}
  <2>1. Tx(t).ops \in Seq(Operation)
    BY Facts, TransactionType
  <2>2. k \in DOMAIN Tx(t).ops => Tx(t).ops[k] \in Operation
    BY <2>1
  <2> QED  BY <2>2 DEF Operation
<1> QED  BY <1>1 DEF Label

LEMMA NextOpGate ==
  ASSUME IInv, NEW t \in Tasklet, pc[t] # "done", NextOp(t), Tx(t).mode = DETERMINISTIC
  PROVE  pc'[t] # "cm_inc"
<1>1. reg[t].k + 1 \in Nat \ {0} /\ pc \in [Tasklet -> Labels]
  BY Facts DEF RegType
<1> QED  BY <1>1, LabelGate DEF NextOp, Goto

\* Steps that leave the descriptors alone, but for sets and flags.
SamePlaces == \A u \in Tasklet : tx'[u].c_ts = tx[u].c_ts

LEMMA SamePlacesIf ==
  ASSUME IInv, NEW x \in Tasklet, NEW v,
         \/ tx' = [tx EXCEPT ![x].aborted = v] \/ tx' = [tx EXCEPT ![x].r_set = v]
         \/ tx' = [tx EXCEPT ![x].w_set = v] \/ tx' = tx
  PROVE  SamePlaces
<1>1. tx \in [Tasklet -> TxType]
  BY DEF IInv, Types
<1> SUFFICES ASSUME NEW u \in Tasklet
             PROVE  tx'[u].c_ts = tx[u].c_ts
  BY DEF SamePlaces
<1>2. CASE u # x
  BY <1>1, <1>2
<1>3. CASE u = x
  <2>1. tx[x] \in TxType
    BY <1>1
  <2>2. \/ tx'[x] = [tx[x] EXCEPT !.aborted = v] \/ tx'[x] = [tx[x] EXCEPT !.r_set = v]
        \/ tx'[x] = [tx[x] EXCEPT !.w_set = v] \/ tx'[x] = tx[x]
    BY <1>1
  <2> QED  BY <1>3, <2>1, <2>2 DEF TxType
<1> QED  BY <1>2, <1>3

LEMMA AbortGate ==
  ASSUME IInv, NEW t \in Tasklet, NEW n, Abort(t, n)
  PROVE  pc'[t] # "cm_inc"
<1>1. pc \in [Tasklet -> Labels]
  BY DEF IInv, Types
<1> QED  BY <1>1 DEF Abort, Goto

LEMMA IdleGate ==
  ASSUME IInv, NEW t \in Tasklet, pc[t] \notin {"start", "cm_inc"}, AssertFails
  PROVE  Passes(t)
BY DEF AssertFails, Passes

LEMMA StartGate ==
  ASSUME IInv, NEW t \in Tasklet, Start(t)
  PROVE  Passes(t)
<1>1. pc[t] = "start" /\ pc \in [Tasklet -> Labels] /\ tx \in [Tasklet -> TxType]
  BY DEF Start, At, IInv, Types
<1>2. tx'[t].c_ts = 2 * Tx(t).ts /\ \A u \in Tasklet \ {t} : tx'[u] = tx[u]
  BY <1>1 DEF Start, NewTx
<1>3. Tx(t).mode = DETERMINISTIC => pc'[t] # "cm_inc"
  BY <1>1, LabelGate DEF Start, Goto
<1> QED  BY <1>1, <1>2, <1>3 DEF Passes

LEMMA LoadGate ==
  ASSUME IInv, NEW t \in Tasklet, Load(t) \/ Malloc(t)
  PROVE  Passes(t)
<1>1. /\ pc[t] \in {"load", "ld_value", "ld_again", "alloc"}
      /\ pc \in [Tasklet -> Labels] /\ tx \in [Tasklet -> TxType]
  BY DEF Load, LoadLock, LoadValue, LoadDone, ReadSetFull, LoadConflict, Malloc, At, IInv, Types
<1>2. CASE AssertFails
  BY <1>1, <1>2, IdleGate
<1>3. CASE ~ AssertFails
  <2>1. SamePlaces
    <3>1. ASSUME LoadDone(t) PROVE SamePlaces
      BY <3>1, SamePlacesIf DEF LoadDone
    <3>2. ASSUME LoadConflict(t) PROVE SamePlaces
      <4>1. reg[t].lock_v \in LockWord
        BY DEF IInv, Types, RegType
      <4> QED  BY <3>2, <4>1, Owner, SamePlacesIf DEF LoadConflict
    <3>3. LoadLock(t) \/ LoadValue(t) \/ Malloc(t) => tx' = tx
      BY <1>3 DEF LoadLock, LoadValue, Malloc
    <3>4. ReadSetFull(t) => AssertFails
      BY DEF ReadSetFull
    <3> QED  BY <1>3, <3>1, <3>2, <3>3, <3>4 DEF Load, SamePlaces
  <2>2. ASSUME Tx(t).mode = DETERMINISTIC PROVE pc'[t] # "cm_inc"
    <3>1. \/ NextOp(t) \/ (\E n : Abort(t, n)) \/ Goto(t, "ld_value") \/ Goto(t, "ld_again") \/ Goto(t, "load")
      <4>1. ReadSetFull(t) => AssertFails
        BY DEF ReadSetFull
      <4>2. LoadDone(t) \/ Malloc(t) => NextOp(t)
        BY <1>3 DEF LoadDone, Malloc
      <4>3. LoadLock(t) => Goto(t, "ld_value")
        BY DEF LoadLock
      <4>4. LoadValue(t) => Goto(t, "ld_again") \/ \E n : Abort(t, n)
        BY DEF LoadValue
      <4>5. LoadConflict(t) => Goto(t, "load") \/ \E n : Abort(t, n)
        BY DEF LoadConflict
      <4> QED  BY <1>3, <4>1, <4>2, <4>3, <4>4, <4>5 DEF Load
    <3> QED  BY <1>1, <2>2, <3>1, NextOpGate, AbortGate DEF Goto
  <2> QED  BY <1>1, <2>1, <2>2 DEF Passes, SamePlaces
<1> QED  BY <1>2, <1>3

LEMMA StoreGate ==
  ASSUME IInv, NEW t \in Tasklet, Store(t)
  PROVE  Passes(t)
<1>1. /\ pc[t] \in InStore
      /\ pc \in [Tasklet -> Labels] /\ tx \in [Tasklet -> TxType]
  BY DEF Store, StoreOwn, StoreLock, StoreConflict, Cas, StoreWrite, WriteSetFull, At, InStore, IInv, Types
<1>2. CASE AssertFails
  BY <1>1, <1>2, IdleGate DEF InStore
<1>3. CASE ~ AssertFails
  <2>1. SamePlaces
    <3>1. ASSUME StoreOwn(t) \/ StoreWrite(t) PROVE SamePlaces
      BY <3>1, SamePlacesIf DEF StoreOwn, StoreWrite, WriteThrough
    <3>2. ASSUME StoreConflict(t) PROVE SamePlaces
      <4>1. reg[t].lock_v \in LockWord /\ Locked(reg[t].lock_v)
        BY <3>2 DEF StoreConflict, At, IInv, Types, RegType, ControlOK, Control
      <4> QED  BY <3>2, <4>1, Owner, SamePlacesIf DEF StoreConflict
    <3>3. StoreLock(t) \/ Cas(t) => tx' = tx
      BY DEF StoreLock, Cas
    <3>4. WriteSetFull(t) => AssertFails
      BY DEF WriteSetFull
    <3> QED  BY <1>3, <3>1, <3>2, <3>3, <3>4 DEF Store, SamePlaces
  <2>2. ASSUME Tx(t).mode = DETERMINISTIC PROVE pc'[t] # "cm_inc"
    <3>1. \/ NextOp(t) \/ (\E n : Abort(t, n)) \/ \E label \in InStore : Goto(t, label)
      BY <1>3 DEF Store, StoreOwn, StoreLock, StoreConflict, Cas, StoreWrite, WriteSetFull, WriteThrough, InStore
    <3> QED  BY <1>1, <2>2, <3>1, NextOpGate, AbortGate DEF Goto, InStore
  <2> QED  BY <1>1, <2>1, <2>2 DEF Passes, SamePlaces, InStore
<1> QED  BY <1>2, <1>3

LEMMA CommitGate ==
  ASSUME IInv, NEW t \in Tasklet, Commit(t) \/ Undo(t)
  PROVE  Passes(t)
<1>1. /\ pc[t] \in {"cm_wait", "cm_flag", "cm_inc", "cm_check", "cm_drop", "cm_end",
                     "ab_undo", "ab_drop", "ab_end"}
      /\ pc \in [Tasklet -> Labels] /\ UNCHANGED tx
  <2>1. Commit(t) => pc[t] \in {"cm_wait", "cm_flag", "cm_inc", "cm_check", "cm_drop", "cm_end"} /\ UNCHANGED tx
    BY DEF Commit, CommitWait, CommitFlag, CommitInc, CommitCheck, CommitDrop, CommitEnd, ReleaseLoop, At
  <2>2. Undo(t) => pc[t] \in {"ab_undo", "ab_drop", "ab_end"} /\ UNCHANGED tx
    BY DEF Undo, AbortUndo, AbortDrop, AbortEnd, ReleaseLoop, At
  <2> QED  BY <2>1, <2>2 DEF IInv, Types
<1>2. CASE CommitWait(t)
  <2>1. pc[t] = "cm_wait" /\ pc'[t] = IF clock < tx[t].c_ts THEN "cm_flag" ELSE "cm_inc"
    BY <1>1, <1>2 DEF CommitWait, At, Goto
  <2>2. clock \in Nat /\ tx[t].c_ts \in Nat
    BY DEF IInv, Types, TxType
  <2> QED  BY <1>1, <2>1, <2>2 DEF Passes
<1>3. CASE ~ CommitWait(t)
  <2>1. CommitFlag(t) => pc'[t] = "cm_wait" \/ \E n : Abort(t, n)
    BY <1>1 DEF CommitFlag, Goto
  <2>2. CommitInc(t) => NextTx(t) \/ pc'[t] \in {"cm_drop", "cm_check"}
    BY <1>1 DEF CommitInc, Decide, Goto
  <2>3. CommitCheck(t) => (\E n : Abort(t, n)) \/ pc'[t] \in {"cm_drop", "cm_check"}
    BY <1>1 DEF CommitCheck, Decide, At, Goto
  <2>4. CommitDrop(t) => pc'[t] \in {"cm_drop", "cm_end"}
    BY <1>1 DEF CommitDrop, ReleaseLoop, At, Goto
  <2>5. CommitEnd(t) => NextTx(t)
    BY DEF CommitEnd
  <2>6. Undo(t) => pc'[t] \in {"ab_undo", "ab_drop", "ab_end", "start"}
    BY <1>1 DEF Undo, AbortUndo, AbortDrop, AbortEnd, ReleaseLoop, At, Goto
  <2>7. NextTx(t) => pc'[t] # "cm_inc"
    BY <1>1 DEF NextTx, Goto
  <2>8. (\E n : Abort(t, n)) => pc'[t] # "cm_inc"
    BY AbortGate
  <2>9. pc'[t] # "cm_inc"
    BY <1>3, <2>1, <2>2, <2>3, <2>4, <2>5, <2>6, <2>7, <2>8 DEF Commit
  <2> QED  BY <1>1, <2>9 DEF Passes
<1> QED  BY <1>2, <1>3

LEMMA StepGate ==
  ASSUME IInv, NEW t \in Tasklet, Step(t)
  PROVE  Passes(t)
BY StartGate, LoadGate, StoreGate, CommitGate DEF Step

\* What a step of tasklet t does to the turns: nothing, or it takes one, at once or
\* with a validation to come, or the validation is over.
Keeps(t) ==
  /\ clock' = clock /\ committed' = committed /\ Validating' = Validating
  /\ \A u \in Validating : reg'[u].n = reg[u].n /\ reg'[u].commit_ts = reg[u].commit_ts

CommitsAt(t, at) ==
  \E g : committed' = committed \cup {g} /\ g.t = t /\ g.n = reg[t].n /\ g.at = at

TakesTurn(t) ==
  /\ pc[t] = "cm_inc" /\ clock' = clock + 2 /\ reg'[t].n = reg[t].n
  /\ \/ /\ committed' = committed /\ Validating' = Validating \cup {t}
        /\ reg'[t].commit_ts = clock + 2
     \/ CommitsAt(t, clock + 2) /\ Validating' = Validating /\ pc'[t] = "cm_drop"

EndsTurn(t) ==
  /\ pc[t] = "cm_check" /\ clock' = clock /\ Validating' = Validating \ {t} /\ reg'[t].n = reg[t].n
  /\ committed' = committed \/ (CommitsAt(t, reg[t].commit_ts) /\ pc'[t] = "cm_drop")

LEMMA ValidatingNext ==
  ASSUME IInv, NEW t \in Tasklet, Rest(t)
  PROVE  /\ Validating' = IF pc'[t] = "cm_check" THEN Validating \cup {t} ELSE Validating \ {t}
         /\ t \in Validating <=> pc[t] = "cm_check"
         /\ \A u \in Tasklet \ {t} : reg'[u] = reg[u] /\ pc'[u] = pc[u]
BY DEF Validating, Rest, Moved

LEMMA KeepsIf ==
  ASSUME IInv, NEW t \in Tasklet, Rest(t), clock' = clock, committed' = committed,
         pc'[t] = "cm_check" <=> pc[t] = "cm_check",
         pc[t] = "cm_check" => reg'[t].n = reg[t].n /\ reg'[t].commit_ts = reg[t].commit_ts
  PROVE  Keeps(t)
<1>1. Validating' = Validating
  BY ValidatingNext
<1>2. ASSUME NEW u \in Validating
      PROVE  reg'[u].n = reg[u].n /\ reg'[u].commit_ts = reg[u].commit_ts
  <2>1. u \in Tasklet /\ pc[u] = "cm_check"
    BY DEF Validating
  <2>2. u # t => reg'[u] = reg[u]
    BY <2>1, ValidatingNext
  <2> QED  BY <2>1, <2>2
<1> QED  BY <1>1, <1>2 DEF Keeps

LEMMA KindTurns ==
  ASSUME IInv, NEW t \in Tasklet, Kind(t), ~ Idles, ~ Finishes(t)
  PROVE  Rest(t) /\ (Keeps(t) \/ TakesTurn(t) \/ EndsTurn(t))
<1>0. Rest(t)
  BY DEF Kind, Begins, Runs, Loads, GivesUp, Logs, Wins, Draws, Checks, Decides, Undoes, Drops, Ends
<1>1. ASSUME clock' = clock, committed' = committed, pc[t] # "cm_check", pc'[t] # "cm_check"
      PROVE  Keeps(t)
  BY <1>0, <1>1, KeepsIf
<1>2. CASE Begins(t) \/ Loads(t)
  BY <1>1, <1>2 DEF Begins, Loads, Begun, shared, ghosts
<1>3. CASE Runs(t) \/ Wins(t)
  BY <1>1, <1>3 DEF Runs, Wins, shared, ghosts
<1>10. CASE Undoes(t) \/ Ends(t)
  <2>1. /\ clock' = clock /\ committed' = committed
        /\ pc[t] # "cm_check" /\ pc'[t] # "cm_check"
    BY <1>10 DEF Undoes, Ends, shared, ghosts
  <2> QED  BY <1>0, <1>1, <2>1
<1>4. CASE \E lock \in Lock \cup {NoLock}, version \in Nat : Logs(t, lock, version)
  BY <1>1, <1>4 DEF Logs, Begun
<1>5. CASE \E version \in Nat : Drops(t, version)
  BY <1>1, <1>5 DEF Drops, ghosts
<1>6. CASE GivesUp(t)
  <2>1. clock' = clock /\ committed' = committed /\ pc'[t] # "cm_check" /\ reg'[t].n = reg[t].n
    BY <1>6 DEF GivesUp, shared
  <2> QED  BY <1>0, <1>1, <2>1, ValidatingNext DEF EndsTurn
<1>7. CASE Draws(t)
  BY <1>0, <1>7, ValidatingNext DEF Draws, ghosts, TakesTurn
<1>8. CASE Checks(t)
  <2>1. /\ clock' = clock /\ committed' = committed /\ pc[t] = "cm_check" /\ pc'[t] = "cm_check"
        /\ reg'[t].n = reg[t].n /\ reg'[t].commit_ts = reg[t].commit_ts
    BY <1>8 DEF Checks, shared, ghosts
  <2> QED  BY <1>0, <2>1, KeepsIf
<1>9. CASE \E at \in Nat : Decides(t, at)
  <2>1. PICK at \in Nat : Decides(t, at)
    BY <1>9
  <2>2. CommitsAt(t, at) /\ pc'[t] = "cm_drop" /\ reg'[t].n = reg[t].n
    <3>1. PICK g : /\ committed' = committed \cup {g}
                   /\ g = [t |-> t, n |-> reg[t].n, at |-> at, reads |-> view[t].reads, dirty |-> view[t].dirty]
      BY <2>1 DEF Decides, Record
    <3>2. g.t = t /\ g.n = reg[t].n /\ g.at = at
      BY <3>1
    <3>3. CommitsAt(t, at)
      BY <3>1, <3>2 DEF CommitsAt
    <3> QED  BY <2>1, <3>3 DEF Decides
  <2>3. CASE pc[t] = "cm_inc"
    BY <1>0, <2>1, <2>2, <2>3, ValidatingNext DEF Decides, TakesTurn
  <2>4. CASE pc[t] = "cm_check"
    BY <1>0, <2>1, <2>2, <2>4, ValidatingNext DEF Decides, EndsTurn
  <2> QED  BY <2>1, <2>3, <2>4 DEF Decides
<1> QED  BY <1>0, <1>2, <1>3, <1>4, <1>5, <1>6, <1>7, <1>8, <1>9, <1>10 DEF Kind

\* A transaction of the batch that draws a time stamp has written something.
LEMMA HasWritten ==
  ASSUME IInv, LogsOK, DetBatch, NEW t \in Tasklet, pc[t] = "cm_inc"
  PROVE  WSet(t) # <<>> /\ Tx(t).mode = DETERMINISTIC
<1>1. reg[t].n \in DOMAIN prog[t]
  BY Facts DEF Control
<1>2. PICK a \in Addr : Memory!Writes(Tx(t).ops, a)
  BY <1>1 DEF DetBatch, Tx
<1>3. EntriesOf(t, a) # {}
  BY <1>2, WritesLogged DEF LogsOK
<1> QED  BY <1>1, <1>3 DEF EntriesOf, DetBatch, Tx

LEMMA FiniteTasklets == IsFiniteSet(Tasklet)
  BY AllocAssumption, FS_Interval DEF Tasklet

LEMMA AtGateStep ==
  ASSUME IInv, IInv', DetBatch, NEW t \in Tasklet, Rest(t), Passes(t), clock <= clock',
         reg'[t].n = reg[t].n \/ pc'[t] \notin Body, pc[t] \in Body \cup {"start"} \/ pc'[t] \notin Body,
         NEW u \in Tasklet, AtGate(u)
  PROVE  AtGate(u)'
<1>1. clock \in Nat /\ clock' \in Nat /\ \A v \in Tasklet : tx[v].c_ts \in Nat /\ tx'[v].c_ts \in Nat
  BY DEF IInv, Types, TxType
<1>2. CASE u # t
  <2>1. pc'[u] = pc[u] /\ Tx(u)' = Tx(u) /\ tx'[u].c_ts = tx[u].c_ts
    BY <1>2 DEF Rest, Moved, Tx, Passes
  <2> QED  BY <1>1, <2>1 DEF AtGate
<1>3. CASE u = t /\ pc'[t] \in Body
  <2>1. Tx(t)' = Tx(t)
    BY <1>3 DEF Rest, Tx
  <2>2. tx'[t].c_ts = 2 * Tx(t).ts
    BY <1>3 DEF Passes, AtGate
  <2>3. ASSUME pc'[t] = "cm_inc"
        PROVE  clock >= tx[t].c_ts /\ tx'[t].c_ts = tx[t].c_ts
    <3>1. reg[t].n \in DOMAIN prog[t]
      <4>1. reg'[t].n \in DOMAIN prog'[t]
        BY <2>3 DEF IInv, ControlOK, Control
      <4> QED  BY <1>3, <4>1 DEF Rest
    <3>2. Tx(t).mode = DETERMINISTIC
      BY <3>1 DEF DetBatch, Tx
    <3> QED  BY <2>3, <3>2 DEF Passes
  <2> QED  BY <1>1, <1>3, <2>1, <2>2, <2>3 DEF AtGate
<1>4. CASE u = t /\ pc'[t] \notin Body
  BY <1>4 DEF AtGate
<1> QED  BY <1>2, <1>3, <1>4

\* A tasklet gets to its next transaction only when the last one is decided.
Advances(t) ==
  /\ pc'[t] \in Body => pc[t] \in Body \cup {"start"} /\ reg'[t].n = reg[t].n
  /\ reg'[t].n \in {reg[t].n, reg[t].n + 1}
  /\ Decided(t) => Decided(t)' \/ reg'[t].n = reg[t].n + 1
  /\ clock <= clock'

LEMMA KindAdvances ==
  ASSUME IInv, NEW t \in Tasklet, Kind(t), ~ Idles
  PROVE  Advances(t)
<1>0. clock \in Nat /\ clock <= clock /\ clock <= clock + 2
  BY DEF IInv, Types
<1>1. CASE Begins(t) \/ Wins(t) \/ Draws(t) \/ Checks(t)
  <2>1. pc[t] \in Body \cup {"start"} /\ reg'[t].n = reg[t].n /\ ~ Decided(t) /\ clock <= clock'
    BY <1>0, <1>1 DEF Begins, Wins, Draws, Checks, Body, Running, Decided, shared
  <2> QED  BY <2>1 DEF Advances
<1>2. CASE Runs(t) \/ Loads(t) \/ GivesUp(t) \/ \E lock \in Lock \cup {NoLock}, version \in Nat : Logs(t, lock, version)
  <2>1. pc[t] \in Body /\ reg'[t].n = reg[t].n /\ ~ Decided(t) /\ clock <= clock'
    BY <1>0, <1>2 DEF Runs, Loads, GivesUp, Logs, Body, Running, Decided, shared
  <2> QED  BY <2>1 DEF Advances
<1>3. CASE \E at \in Nat : Decides(t, at)
  <2>1. pc'[t] \notin Body /\ reg'[t].n = reg[t].n /\ ~ Decided(t) /\ clock <= clock'
    BY <1>0, <1>3 DEF Decides, Body, Running, Decided
  <2> QED  BY <2>1 DEF Advances
<1>4. CASE Finishes(t) \/ Ends(t)
  <2>1. /\ pc'[t] \notin Body /\ clock <= clock'
        /\ reg'[t].n = reg[t].n + 1 \/ (reg'[t].n = reg[t].n /\ ~ Decided(t))
    BY <1>0, <1>4 DEF Finishes, Ends, Body, Running, Decided, shared
  <2> QED  BY <2>1 DEF Advances
<1>5. CASE Undoes(t) \/ \E version \in Nat : Drops(t, version)
  <2>1. /\ pc'[t] \notin Body /\ clock <= clock' /\ reg'[t].n = reg[t].n
        /\ Decided(t) => Decided(t)'
    BY <1>0, <1>5 DEF Undoes, Drops, Body, Running, Decided
  <2> QED  BY <2>1 DEF Advances
<1> QED  BY <1>1, <1>2, <1>3, <1>4, <1>5 DEF Kind

LEMMA BehindKept ==
  ASSUME IInv, NEW t \in Tasklet, Rest(t), Advances(t), NEW h, Behind(h)
  PROVE  Behind(h)'
<1>1. prog' = prog /\ reg[h.t].n \in Nat /\ h.n \in Nat
  <2>1. prog[h.t] \in Seq(Transaction)
    BY DEF IInv, Types, Behind
  <2>2. h.n \in Nat
    BY <2>1 DEF Behind
  <2> QED  BY <2>2 DEF Rest, IInv, Types, RegType, Behind
<1>2. CASE h.t # t
  <2>1. reg'[h.t] = reg[h.t] /\ pc'[h.t] = pc[h.t]
    BY <1>2, ValidatingNext DEF Behind
  <2> QED  BY <1>1, <2>1 DEF Behind, Decided
<1>3. CASE h.t = t
  BY <1>1, <1>3 DEF Behind, Advances
<1> QED  BY <1>2, <1>3

\* A new commit is behind its tasklet, and was none before.
LEMMA NewBehind ==
  ASSUME IInv, NEW t \in Tasklet, Rest(t), pc[t] \in {"cm_inc", "cm_check"}, pc'[t] = "cm_drop",
         reg'[t].n = reg[t].n, NEW g, g.t = t, g.n = reg[t].n
  PROVE  ~ Behind(g) /\ Behind(g)'
<1>1. reg[t].n \in DOMAIN prog[t] /\ reg[t].n \in Nat
  BY Facts DEF Control, RegType
<1> QED  BY <1>1 DEF Behind, Decided, Rest

\* The counts of the turns.
LEMMA CountsStep ==
  ASSUME IInv, IInv', IsFiniteSet(committed), \A h \in committed : Behind(h), 2 * Turns <= clock,
         NEW t \in Tasklet, Rest(t), Keeps(t) \/ TakesTurn(t) \/ EndsTurn(t)
  PROVE  /\ IsFiniteSet(committed') /\ 2 * Turns' <= clock'
         /\ NoFailedCommit' => NoFailedCommit /\ ~ (EndsTurn(t) /\ committed' = committed)
         /\ clock \in Nat
<1>0. /\ IsFiniteSet(Validating) /\ Cardinality(Validating) \in Nat
      /\ Cardinality(committed) \in Nat /\ clock \in Nat
      /\ t \in Validating <=> pc[t] = "cm_check"
  <2>1. Validating \in SUBSET Tasklet
    BY DEF Validating
  <2>2. IsFiniteSet(Validating)
    BY <2>1, FiniteTasklets, FS_Subset
  <2> QED  BY <2>2, FS_CardinalityType, ValidatingNext DEF IInv, Types
<1>1. /\ NoFailedCommit <=> clock = 2 * Turns
      /\ NoFailedCommit' <=> clock' = 2 * Turns'
      /\ Turns' = Cardinality(committed') + Cardinality(Validating')
  BY DEF NoFailedCommit, Turns, Validating
<1>2. ASSUME NEW at, CommitsAt(t, at), pc[t] \in {"cm_inc", "cm_check"}, pc'[t] = "cm_drop", reg'[t].n = reg[t].n
      PROVE  IsFiniteSet(committed') /\ Cardinality(committed') = Cardinality(committed) + 1
  <2>1. PICK g : committed' = committed \cup {g} /\ g.t = t /\ g.n = reg[t].n
    BY <1>2 DEF CommitsAt
  <2>2. g \notin committed
    BY <1>2, <2>1, NewBehind
  <2> QED  BY <2>1, <2>2, FS_AddElement
<1>3. CASE Keeps(t)
  <2>1. Turns' = Turns /\ clock' = clock /\ committed' = committed
    BY <1>1, <1>3 DEF Keeps, Turns
  <2>2. ~ EndsTurn(t)
    BY <1>0, <1>3 DEF Keeps, EndsTurn
  <2> QED  BY <1>0, <1>1, <2>1, <2>2
<1>4. CASE TakesTurn(t)
  <2>1. Turns' = Turns + 1 /\ IsFiniteSet(committed') /\ clock' = clock + 2 /\ pc[t] = "cm_inc"
    <3>1. CASE committed' = committed /\ Validating' = Validating \cup {t}
      <4>1. Cardinality(Validating') = Cardinality(Validating) + 1
        BY <1>0, <1>4, <3>1, FS_AddElement DEF TakesTurn
      <4> QED  BY <1>0, <1>1, <1>4, <3>1, <4>1 DEF TakesTurn, Turns
    <3>2. CASE CommitsAt(t, clock + 2) /\ Validating' = Validating /\ pc'[t] = "cm_drop"
      BY <1>0, <1>1, <1>2, <1>4, <3>2 DEF TakesTurn, Turns
    <3> QED  BY <1>4, <3>1, <3>2 DEF TakesTurn
  <2> QED  BY <1>0, <1>1, <2>1 DEF Turns, EndsTurn
<1>5. CASE EndsTurn(t)
  <2>1. Cardinality(Validating') = Cardinality(Validating) - 1
    BY <1>0, <1>5, FS_RemoveElement DEF EndsTurn
  <2>2. \/ committed' = committed
        \/ IsFiniteSet(committed') /\ Cardinality(committed') = Cardinality(committed) + 1
    BY <1>2, <1>5 DEF EndsTurn
  <2>3. clock' = clock
    BY <1>5 DEF EndsTurn
  <2>4. \/ committed' = committed /\ Turns' = Turns - 1
        \/ IsFiniteSet(committed') /\ Turns' = Turns
    BY <1>0, <1>1, <2>1, <2>2 DEF Turns
  <2>5. Turns \in Int
    BY <1>0 DEF Turns
  <2>6. CASE committed' = committed /\ Turns' = Turns - 1
    <3>1. IsFiniteSet(committed') /\ 2 * (Turns - 1) < clock
      BY <1>0, <2>5, <2>6
    <3> QED  BY <1>0, <1>1, <2>3, <2>5, <2>6, <3>1
  <2>7. CASE IsFiniteSet(committed') /\ Turns' = Turns
    <3>1. committed' # committed
      <4>1. ASSUME committed' = committed
            PROVE  FALSE
        BY <1>0, <1>1, <2>1, <2>7, <4>1 DEF Turns
      <4> QED  BY <4>1
    <3> QED  BY <1>0, <1>1, <2>3, <2>7, <3>1
  <2> QED  BY <2>4, <2>6, <2>7
<1> QED  BY <1>0, <1>3, <1>4, <1>5

\* Whoever draws a time stamp finds the clock at its own turn: the ones before are
\* taken, and not by itself.
LEMMA OwnTurn ==
  ASSUME IInv, TurnsOK, NoFailedCommit, NEW t \in Tasklet, pc[t] = "cm_inc"
  PROVE  clock = 2 * Tx(t).ts
<1>1. /\ reg[t].n \in DOMAIN prog[t] /\ Tx(t) \in Transaction
      /\ Tx(t).ts \in Nat /\ clock \in Nat
  <2>1. reg[t].n \in DOMAIN prog[t] /\ Tx(t) \in Transaction
    BY Facts, TransactionType DEF Control
  <2> QED  BY <2>1 DEF Transaction, IInv, Types
<1>2. 2 * Tx(t).ts <= clock
  BY <1>1 DEF TurnsOK, AtGate, Body, Running
<1>3. ASSUME 2 * Tx(t).ts < clock
      PROVE  FALSE
  <2>1. ASSUME NEW h \in committed, prog[h.t][h.n].ts = Tx(t).ts
        PROVE  FALSE
    <3>1. Behind(h)
      BY DEF TurnsOK
    <3>2. h.t = t /\ h.n = reg[t].n
      BY <1>1, <2>1, <3>1 DEF TurnsOK, DetBatch, Tx, Behind
    <3>3. reg[t].n \in Nat
      BY Facts DEF RegType
    <3> QED  BY <3>1, <3>2, <3>3 DEF Behind, Decided
  <2>2. ASSUME NEW u \in Validating, Tx(u).ts = Tx(t).ts
        PROVE  FALSE
    <3>1. u \in Tasklet /\ pc[u] = "cm_check"
      BY DEF Validating
    <3>2. reg[u].n \in DOMAIN prog[u]
      BY <3>1, Facts DEF Control
    <3>3. u = t
      BY <1>1, <2>2, <3>1, <3>2 DEF TurnsOK, DetBatch, Tx
    <3> QED  BY <3>1, <3>3
  <2> QED  BY <1>1, <1>3, <2>1, <2>2 DEF TurnsOK, InTurn
<1> QED  BY <1>1, <1>2, <1>3

LEMMA InTurnStep ==
  ASSUME IInv, IInv', TurnsOK, NEW t \in Tasklet, Rest(t), Keeps(t) \/ TakesTurn(t) \/ EndsTurn(t)
  PROVE  InTurn'
<1> SUFFICES ASSUME NoFailedCommit'
             PROVE  InTurn'
  BY DEF InTurn
<1>1. /\ NoFailedCommit /\ ~ (EndsTurn(t) /\ committed' = committed) /\ clock \in Nat
  BY CountsStep DEF TurnsOK
<1>2. /\ \A h \in committed : h.at = 2 * prog[h.t][h.n].ts + 2
      /\ \A u \in Validating : reg[u].commit_ts = 2 * Tx(u).ts + 2
      /\ \A i \in Nat : 2 * i < clock =>
           \/ \E h \in committed : prog[h.t][h.n].ts = i
           \/ \E u \in Validating : Tx(u).ts = i
  BY <1>1 DEF TurnsOK, InTurn
<1>3. /\ prog' = prog /\ \A u \in Tasklet \ {t} : reg'[u] = reg[u] /\ Tx(u)' = Tx(u)
      /\ \A u \in Validating : u \in Tasklet /\ pc[u] = "cm_check"
  BY ValidatingNext DEF Rest, Tx, Validating
<1>4. CASE Keeps(t)
  <2>1. /\ clock' = clock /\ committed' = committed /\ Validating' = Validating
        /\ \A u \in Validating : Tx(u)' = Tx(u) /\ reg'[u].commit_ts = reg[u].commit_ts
    BY <1>3, <1>4 DEF Keeps, Tx
  <2> QED  BY <1>2, <1>3, <2>1 DEF InTurn
<1>5. CASE TakesTurn(t)
  <2>1. /\ clock = 2 * Tx(t).ts /\ clock' = clock + 2 /\ Tx(t)' = Tx(t) /\ t \notin Validating
        /\ Tx(t).ts \in Nat
    <3>1. pc[t] = "cm_inc" /\ clock' = clock + 2 /\ Tx(t)' = Tx(t)
      BY <1>3, <1>5 DEF TakesTurn, Tx
    <3>2. Tx(t) \in Transaction
      BY <3>1, Facts, TransactionType DEF Control
    <3> QED  BY <1>1, <1>3, <3>1, <3>2, OwnTurn DEF Transaction
  <2>2. ASSUME NEW i \in Nat, 2 * i < clock'
        PROVE  2 * i < clock \/ i = Tx(t).ts
    <3>1. \A s \in Nat : 2 * i < 2 * s + 2 => 2 * i < 2 * s \/ i = s
      OBVIOUS
    <3> QED  BY <2>1, <2>2, <3>1
  <2>3. CASE committed' = committed /\ Validating' = Validating \cup {t} /\ reg'[t].commit_ts = clock + 2
    <3>1. \A u \in Validating' : reg'[u].commit_ts = 2 * Tx(u)'.ts + 2
      <4>1. reg'[t].commit_ts = 2 * Tx(t)'.ts + 2
        BY <2>1, <2>3
      <4>2. \A u \in Validating : reg'[u] = reg[u] /\ Tx(u)' = Tx(u)
        BY <1>3, <2>1
      <4> QED  BY <1>2, <2>3, <4>1, <4>2
    <3>2. ASSUME NEW i \in Nat, 2 * i < clock'
          PROVE  \/ \E h \in committed' : prog'[h.t][h.n].ts = i
                 \/ \E u \in Validating' : Tx(u)'.ts = i
      <4>1. \A u \in Validating : Tx(u)' = Tx(u)
        BY <1>3, <2>1
      <4>2. CASE i = Tx(t).ts
        BY <2>1, <2>3, <4>2
      <4>3. CASE 2 * i < clock
        <5>1. \/ \E h \in committed : prog[h.t][h.n].ts = i
              \/ \E u \in Validating : Tx(u).ts = i
          BY <1>2, <4>3
        <5> QED  BY <1>3, <2>3, <4>1, <5>1
      <4> QED  BY <2>2, <3>2, <4>2, <4>3
    <3> QED  BY <1>2, <1>3, <2>3, <3>1, <3>2 DEF InTurn
  <2>4. CASE CommitsAt(t, clock + 2) /\ Validating' = Validating
    <3>1. PICK g : committed' = committed \cup {g} /\ g.t = t /\ g.n = reg[t].n /\ g.at = clock + 2
      BY <2>4 DEF CommitsAt
    <3>2. prog[g.t][g.n].ts = Tx(t).ts
      BY <3>1 DEF Tx
    <3>3. \A h \in committed' : h.at = 2 * prog'[h.t][h.n].ts + 2
      BY <1>2, <1>3, <2>1, <3>1, <3>2
    <3>4. \A u \in Validating' : Tx(u)' = Tx(u) /\ reg'[u].commit_ts = 2 * Tx(u)'.ts + 2
      BY <1>2, <1>3, <2>1, <2>4
    <3>5. ASSUME NEW i \in Nat, 2 * i < clock'
          PROVE  \/ \E h \in committed' : prog'[h.t][h.n].ts = i
                 \/ \E u \in Validating' : Tx(u)'.ts = i
      BY <1>2, <1>3, <2>2, <2>4, <3>1, <3>2, <3>4, <3>5
    <3> QED  BY <3>3, <3>4, <3>5 DEF InTurn
  <2> QED  BY <1>5, <2>3, <2>4 DEF TakesTurn
<1>6. CASE EndsTurn(t)
  <2>1. /\ clock' = clock /\ Validating' = Validating \ {t} /\ CommitsAt(t, reg[t].commit_ts)
        /\ pc[t] = "cm_check" /\ t \in Validating
    BY <1>1, <1>6 DEF EndsTurn, Validating
  <2>2. PICK g : committed' = committed \cup {g} /\ g.t = t /\ g.n = reg[t].n /\ g.at = reg[t].commit_ts
    BY <2>1 DEF CommitsAt
  <2>3. prog[g.t][g.n].ts = Tx(t).ts /\ g.at = 2 * Tx(t).ts + 2
    BY <1>2, <2>1, <2>2 DEF Tx
  <2>4. \A h \in committed' : h.at = 2 * prog'[h.t][h.n].ts + 2
    BY <1>2, <1>3, <2>2, <2>3
  <2>5. \A u \in Validating' : Tx(u)' = Tx(u) /\ reg'[u].commit_ts = 2 * Tx(u)'.ts + 2
    BY <1>2, <1>3, <2>1
  <2>6. ASSUME NEW i \in Nat, 2 * i < clock'
        PROVE  \/ \E h \in committed' : prog'[h.t][h.n].ts = i
               \/ \E u \in Validating' : Tx(u)'.ts = i
    <3>1. CASE \E h \in committed : prog[h.t][h.n].ts = i
      BY <1>3, <2>2, <3>1
    <3>2. ASSUME NEW u \in Validating, Tx(u).ts = i
          PROVE  \/ \E h \in committed' : prog'[h.t][h.n].ts = i
                 \/ \E v \in Validating' : Tx(v)'.ts = i
      <4>1. CASE u = t
        BY <1>3, <2>2, <2>3, <3>2, <4>1
      <4>2. CASE u # t
        BY <2>1, <2>5, <3>2, <4>2
      <4> QED  BY <4>1, <4>2
    <3> QED  BY <1>2, <2>1, <2>6, <3>1, <3>2
  <2> QED  BY <2>4, <2>5, <2>6 DEF InTurn
<1> QED  BY <1>4, <1>5, <1>6

LEMMA IdlesTurns ==
  ASSUME TurnsOK, Idles
  PROVE  TurnsOK'
<1>1. /\ clock' = clock /\ prog' = prog /\ pc' = pc /\ tx' = tx /\ reg' = reg
      /\ committed' = committed
  BY DEF Idles, shared, ghosts
<1>2. Validating' = Validating
  BY <1>1 DEF Validating
<1>3. \A u \in Tasklet : Tx(u)' = Tx(u)
  BY <1>1 DEF Tx
<1>4. Turns' = Turns /\ (NoFailedCommit' <=> NoFailedCommit)
  BY <1>1, <1>2 DEF Turns, NoFailedCommit
<1>5. \A u \in Validating : u \in Tasklet
  BY DEF Validating
<1>6. DetBatch'
  BY <1>1 DEF TurnsOK, DetBatch
<1>7. IsFiniteSet(committed') /\ \A h \in committed' : Behind(h)'
  BY <1>1 DEF TurnsOK, Behind, Decided
<1>8. \A u \in Tasklet : AtGate(u)'
  BY <1>1, <1>3 DEF TurnsOK, AtGate
<1>9. InTurn'
  BY <1>1, <1>2, <1>3, <1>4, <1>5 DEF TurnsOK, InTurn
<1> QED  BY <1>1, <1>4, <1>6, <1>7, <1>8, <1>9 DEF TurnsOK

LEMMA BehindStep ==
  ASSUME IInv, NEW t \in Tasklet, Rest(t), Advances(t), Keeps(t) \/ TakesTurn(t) \/ EndsTurn(t),
         \A h \in committed : Behind(h)
  PROVE  \A h \in committed' : Behind(h)'
<1>1. \A h \in committed : Behind(h)'
  BY BehindKept
<1>2. ASSUME NEW at, CommitsAt(t, at), pc[t] \in {"cm_inc", "cm_check"}, pc'[t] = "cm_drop",
             reg'[t].n = reg[t].n
      PROVE  \A h \in committed' : Behind(h)'
  <2>1. PICK g : committed' = committed \cup {g} /\ g.t = t /\ g.n = reg[t].n
    BY <1>2 DEF CommitsAt
  <2>2. Behind(g)'
    BY <1>2, <2>1, NewBehind
  <2> QED  BY <1>1, <2>1, <2>2
<1> QED  BY <1>1, <1>2 DEF Keeps, TakesTurn, EndsTurn

LEMMA NextTurns ==
  ASSUME IInv, LogsOK, TurnsOK, [Next]_vars
  PROVE  TurnsOK'
<1>1. IInv'
  BY NextOK
<1>2. UNCHANGED vars => Idles
  BY DEF vars, Idles
<1>3. CASE Idles
  BY <1>3, IdlesTurns
<1>4. CASE ~ Idles
  <2>1. PICK t \in Tasklet : Step(t)
    BY <1>2, <1>4 DEF Next, Terminating
  <2>2. Kind(t) /\ Passes(t)
    BY <2>1, StepKind, StepGate
  <2>3. ~ Finishes(t)
    BY HasWritten DEF Finishes, TurnsOK
  <2>4. Rest(t) /\ (Keeps(t) \/ TakesTurn(t) \/ EndsTurn(t)) /\ Advances(t)
    BY <1>4, <2>2, <2>3, KindTurns, KindAdvances
  <2>5. DetBatch'
    BY <2>4 DEF TurnsOK, DetBatch, Rest
  <2>6. IsFiniteSet(committed') /\ 2 * Turns' <= clock'
    BY <1>1, <2>4, CountsStep DEF TurnsOK
  <2>7. \A h \in committed' : Behind(h)'
    BY <2>4, BehindStep DEF TurnsOK
  <2>8. ASSUME NEW u \in Tasklet
        PROVE  AtGate(u)'
    <3>1. AtGate(u) /\ DetBatch
      BY DEF TurnsOK
    <3>2. /\ clock <= clock' /\ (reg'[t].n = reg[t].n \/ pc'[t] \notin Body)
          /\ (pc[t] \in Body \cup {"start"} \/ pc'[t] \notin Body)
      BY <2>4 DEF Advances
    <3> QED  BY <1>1, <2>2, <2>4, <3>1, <3>2, AtGateStep
  <2>9. InTurn'
    BY <1>1, <2>4, InTurnStep
  <2> QED  BY <2>5, <2>6, <2>7, <2>8, <2>9 DEF TurnsOK
<1> QED  BY <1>3, <1>4

LEMMA InitTurns ==
  ASSUME Init, DetBatch
  PROVE  TurnsOK
<1>1. committed = {} /\ clock = 0 /\ pc = [t \in Tasklet |-> IF prog[t] = <<>> THEN "done" ELSE "start"]
  BY DEF Init
<1>2. Validating = {}
  BY <1>1 DEF Validating
<1>3. IsFiniteSet(committed) /\ Turns = 0
  BY <1>1, <1>2, FS_EmptySet DEF Turns
<1>4. \A t \in Tasklet : AtGate(t)
  BY <1>1 DEF AtGate, Body, Running
<1>5. InTurn
  BY <1>1, <1>2 DEF InTurn
<1> QED  BY <1>1, <1>3, <1>4, <1>5 DEF TurnsOK

\* Every turn before h's was taken by the transaction whose time stamp it is.
LEMMA InOrderIs ==
  ASSUME IInv, SerialOK, TurnsOK
  PROVE  DetOrderUnlessFailed
<1> SUFFICES ASSUME NoFailedCommit, NEW h \in committed, NEW u \in Tasklet, NEW m \in DOMAIN prog[u],
                    prog[u][m].ts < prog[h.t][h.n].ts
             PROVE  Turn(u, m, h.at)
  BY DEF DetOrderUnlessFailed, InOrder
<1> DEFINE i == prog[u][m].ts
<1>1. Behind(h) /\ clock \in Nat
  BY DEF TurnsOK, IInv, Types
<1>2. i \in Nat /\ prog[h.t][h.n].ts \in Nat
  <2>1. \A v \in Tasklet : \A n \in DOMAIN prog[v] : prog[v][n].ts \in Nat
    <3>1. ASSUME NEW v \in Tasklet, NEW n \in DOMAIN prog[v]
          PROVE  prog[v][n] \in Transaction
      <4>1. prog[v] \in Seq(Transaction)
        BY DEF IInv, Types
      <4> QED  BY <4>1
    <3> QED  BY <3>1 DEF Transaction
  <2> QED  BY <1>1, <2>1 DEF Behind
<1>3. h.at = 2 * prog[h.t][h.n].ts + 2 /\ h.at <= clock
  BY DEF TurnsOK, InTurn, SerialOK, History, NoneAhead
<1>4. 2 * i < clock /\ 2 * i + 2 < h.at
  <2>1. \A j, k, c \in Nat : j < k /\ 2 * k + 2 <= c => 2 * j < c /\ 2 * j + 2 < 2 * k + 2
    OBVIOUS
  <2> QED  BY <1>1, <1>2, <1>3, <2>1
<1>5. ASSUME NEW g \in committed, prog[g.t][g.n].ts = i
      PROVE  Turn(u, m, h.at)
  <2>1. Behind(g) /\ g.at = 2 * i + 2
    BY <1>5 DEF TurnsOK, InTurn
  <2>2. g.t = u /\ g.n = m
    BY <1>5, <2>1 DEF Behind, TurnsOK, DetBatch
  <2> QED  BY <1>4, <2>1, <2>2 DEF Turn
<1>6. ASSUME NEW v \in Validating, Tx(v).ts = i
      PROVE  Turn(u, m, h.at)
  <2>1. v \in Tasklet /\ pc[v] = "cm_check" /\ reg[v].commit_ts = 2 * i + 2
    BY <1>6 DEF TurnsOK, InTurn, Validating
  <2>2. reg[v].n \in DOMAIN prog[v]
    BY <2>1, Facts DEF Control
  <2>3. v = u /\ reg[v].n = m
    BY <1>6, <2>1, <2>2 DEF TurnsOK, DetBatch, Tx
  <2> QED  BY <1>4, <2>1, <2>3 DEF Turn
<1> QED  BY <1>2, <1>4, <1>5, <1>6 DEF TurnsOK, InTurn

(* In a batch of deterministic transactions that all write, numbered        *)
(* without doubles, transactions commit in the order of their numbers, for  *)
(* any number of tasklets and of rounds, as long as no validation has       *)
(* failed (tm.c:450-464).  A transaction that only reads is recorded where  *)
(* it takes effect, at its start, and not at its turn; an optimistic one    *)
(* advances the clock and takes turns away: hence DetBatch.                 *)
THEOREM DeterministicOrder == Spec /\ DetBatch => []DetOrderUnlessFailed
<1>1. Init /\ DetBatch => TurnsOK
  BY InitTurns
<1>2. IInv /\ LogsOK /\ TurnsOK /\ [Next]_vars => TurnsOK'
  BY NextTurns
<1>3. IInv /\ SerialOK /\ TurnsOK => DetOrderUnlessFailed
  BY InOrderIs
<1> QED  BY <1>1, <1>2, <1>3, Inductive, LogsCorrect, SerialCorrect, PTL DEF Spec
==============================================================================
