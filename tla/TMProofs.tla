-------------------------------- MODULE TMProofs --------------------------------
(***************************************************************************)
(* Proofs about the transactional memory, for any number of tasklets, any  *)
(* memory and lock table, and any batch: its state is well typed, its      *)
(* locks agree with its write sets, and no set outgrows its array.  Then   *)
(* the kinds of steps a tasklet takes, and what each does to the logs of   *)
(* the transactions and to the committed memory: the ground for the proofs *)
(* of TMSerialProofs.                                                      *)
(***************************************************************************)
EXTENDS TM, NatLemmas, FiniteSetTheorems, TLAPS

\* Where a tasklet is agrees with what its local variables say.
InLoad  == {"load", "ld_value", "ld_again"}
InStore == {"store", "st_cm", "st_cas", "st_write"}

Control(t) ==
  /\ pc[t] # "done" => reg[t].n \in DOMAIN prog[t]
  /\ pc[t] = "start" => reg[t].k = 1
  /\ pc[t] \in InLoad \cup InStore \cup {"alloc"} => reg[t].k \in DOMAIN Tx(t).ops
  /\ pc[t] \in InLoad => Op(t).kind = "load"
  /\ pc[t] \in InStore => Op(t).kind = "store"
  /\ pc[t] = "alloc" => Op(t).kind = "alloc"
  /\ pc[t] = "st_cm" => Locked(reg[t].lock_v)
  /\ pc[t] \in {"st_cas", "st_write"} => ~ Locked(reg[t].lock_v)
  /\ pc[t] \in Releasing \cup {"ab_undo"} => reg[t].i \in DOMAIN WSet(t)
  /\ pc[t] = "cm_check" => reg[t].i \in DOMAIN tx[t].r_set /\ WSet(t) # <<>>

ControlOK == \A t \in Tasklet : Control(t)

LEMMA WrapType == \A n \in Int : Wrap(n) \in Uintptr
  BY AllocAssumption DEF Wrap, Uintptr

LEMMA TransactionType ==
  ASSUME Types, NEW t \in Tasklet, Control(t), pc[t] # "done"
  PROVE  /\ Tx(t) \in Transaction
         /\ Tx(t).mode \in {DETERMINISTIC, OPTIMISTIC}
         /\ Tx(t).ts \in Nat
         /\ Tx(t).ops \in Seq(Operation)
<1>1. prog[t] \in Seq(Transaction)
  BY DEF Types
<1>2. Tx(t) \in Transaction
  BY <1>1 DEF Control, Tx
<1> QED  BY <1>2 DEF Transaction

LEMMA OperationType ==
  ASSUME Types, NEW t \in Tasklet, Control(t), pc[t] \in InLoad \cup InStore \cup {"alloc"}
  PROVE  /\ pc[t] \in InLoad \cup InStore => Op(t).addr \in Addr /\ L(t) \in Lock
         /\ pc[t] \in InStore => Op(t).val \in Val
         /\ pc[t] = "alloc" => Op(t).size \in Nat \ {0}
<1>0. pc[t] # "done"
  BY DEF InLoad, InStore
<1>1. Op(t) \in Operation
  BY <1>0, TransactionType DEF Control, Op
<1>2. /\ pc[t] \in InLoad => Op(t).kind = "load"
      /\ pc[t] \in InStore => Op(t).kind = "store"
      /\ pc[t] = "alloc" => Op(t).kind = "alloc"
  BY DEF Control
<1>3. /\ pc[t] \in InLoad \cup InStore => Op(t).addr \in Addr
      /\ pc[t] \in InStore => Op(t).val \in Val
      /\ pc[t] = "alloc" => Op(t).size \in Nat \ {0}
  BY <1>1, <1>2 DEF Operation
<1> QED  BY <1>3, TMAssumption DEF L

------------------------------------------------------------------------------
(* Control: what the helpers of the actions do. *)

\* Where a step of tasklet t leaves the control state.
Moved(t) ==
  /\ pc' \in [Tasklet -> Labels]
  /\ reg' \in [Tasklet -> RegType]
  /\ \A u \in Tasklet \ {t} : pc'[u] = pc[u] /\ reg'[u] = reg[u]

\* A tasklet that is left alone keeps its invariant.
LEMMA Frame ==
  ASSUME NEW u \in Tasklet, Control(u), prog' = prog, pc'[u] = pc[u], reg'[u] = reg[u],
         tx'[u].w_set = tx[u].w_set, tx'[u].r_set = tx[u].r_set
  PROVE  Control(u)'
  BY DEF Control, Tx, Op, WSet

LEMMA FreshType == \A n, k \in Nat \ {0} : Fresh(n, k) \in RegType
  BY TMAssumption, AllocAssumption DEF Fresh, RegType, LockWord, Free, NoTx

LEMMA LoopType ==
  \A n \in Nat \ {0}, i, ts \in Nat :
    /\ [Fresh(n, 1) EXCEPT !.i = i] \in RegType
    /\ [Fresh(n, 1) EXCEPT !.i = i, !.commit_ts = ts] \in RegType
<1> TAKE n \in Nat \ {0}, i, ts \in Nat
<1>1. Fresh(n, 1) \in RegType
  BY FreshType
<1> QED  BY <1>1 DEF RegType

LEMMA CountType ==
  ASSUME reg \in [Tasklet -> RegType], NEW t \in Tasklet, NEW i \in Nat
  PROVE  [reg EXCEPT ![t].i = i] \in [Tasklet -> RegType]
<1>1. [reg[t] EXCEPT !.i = i] \in RegType
  BY DEF RegType
<1> QED  BY <1>1

LEMMA LabelOK ==
  ASSUME Types, NEW t \in Tasklet, Control(t), pc[t] # "done", NEW k \in Nat \ {0}
  PROVE  \/ /\ k \in DOMAIN Tx(t).ops
            /\ Label(t, k) = Tx(t).ops[k].kind
            /\ Label(t, k) \in {"load", "store", "alloc"}
         \/ Label(t, k) \in {"cm_wait", "cm_inc"}
<1>1. k \in DOMAIN Tx(t).ops => Tx(t).ops[k] \in Operation
  BY TransactionType
<1> QED  BY <1>1 DEF Label, Operation

LEMMA NextOpOK ==
  ASSUME Types, NEW t \in Tasklet, Control(t), pc[t] # "done", NextOp(t), prog' = prog
  PROVE  /\ Moved(t)
         /\ Control(t)'
         /\ pc'[t] \in {"load", "store", "alloc", "cm_wait", "cm_inc"}
<1> DEFINE k == reg[t].k + 1
<1>1. /\ pc' = [pc EXCEPT ![t] = Label(t, k)]
      /\ reg' = [reg EXCEPT ![t] = Fresh(reg[t].n, k)]
  BY DEF NextOp, Goto
<1>2. /\ pc \in [Tasklet -> Labels]
      /\ reg \in [Tasklet -> RegType]
      /\ reg[t].n \in Nat \ {0} /\ k \in Nat \ {0}
  BY DEF Types, RegType
<1>3. Fresh(reg[t].n, k) \in RegType
  BY <1>2, FreshType
<1>4. \/ /\ k \in DOMAIN Tx(t).ops
         /\ Label(t, k) = Tx(t).ops[k].kind
         /\ Label(t, k) \in {"load", "store", "alloc"}
      \/ Label(t, k) \in {"cm_wait", "cm_inc"}
  BY <1>2, LabelOK
<1>5. Label(t, k) \in Labels
  BY <1>4 DEF Labels, Running
<1>6. Moved(t)
  BY <1>1, <1>2, <1>3, <1>5 DEF Moved
<1>7. /\ pc'[t] = Label(t, k)
      /\ reg'[t].n = reg[t].n /\ reg'[t].k = k
  BY <1>1, <1>2 DEF Fresh
<1>8. Control(t)'
  BY <1>4, <1>7 DEF Control, Tx, Op, InLoad, InStore, Releasing
<1> QED  BY <1>4, <1>6, <1>7, <1>8

LEMMA NextTxOK ==
  ASSUME Types, NEW t \in Tasklet, Control(t), pc[t] # "done", NextTx(t), prog' = prog
  PROVE  /\ Moved(t)
         /\ Control(t)'
         /\ pc'[t] \in {"start", "done"}
         /\ view' \in [Tasklet -> View]
<1>1. /\ pc \in [Tasklet -> Labels]
      /\ reg \in [Tasklet -> RegType]
      /\ reg[t].n \in Nat \ {0}
      /\ prog[t] \in Seq(Transaction)
      /\ reg[t].n \in DOMAIN prog[t]
      /\ view \in [Tasklet -> View]
  BY DEF Types, RegType, Control
<1>2. reg[t].n + 1 \in Nat \ {0} /\ Fresh(reg[t].n + 1, 1) \in RegType
  BY <1>1, FreshType
<1>3. /\ reg' = [reg EXCEPT ![t] = Fresh(reg[t].n + 1, 1)]
      /\ pc' = [pc EXCEPT ![t] = IF reg[t].n < Len(prog[t]) THEN "start" ELSE "done"]
      /\ view' = [view EXCEPT ![t] = NewView]
  BY DEF NextTx, Goto
<1>4. NewView \in View
  BY DEF NewView, View
<1>5. Moved(t) /\ view' \in [Tasklet -> View]
  BY <1>1, <1>2, <1>3, <1>4 DEF Moved, Labels
<1>6. /\ pc'[t] = (IF reg[t].n < Len(prog[t]) THEN "start" ELSE "done")
      /\ reg'[t].n = reg[t].n + 1 /\ reg'[t].k = 1
  BY <1>1, <1>3 DEF Fresh
<1>7. Control(t)'
  BY <1>1, <1>6 DEF Control, Tx, Op, InLoad, InStore, Releasing
<1> QED  BY <1>5, <1>6, <1>7

LEMMA AbortOK ==
  ASSUME Types, NEW t \in Tasklet, Control(t), pc[t] # "done", prog' = prog,
         NEW n \in Nat, Abort(t, n), tx'[t].w_set \in Seq(WEntry), Len(tx'[t].w_set) = n
  PROVE  /\ Moved(t)
         /\ Control(t)'
         /\ pc'[t] = IF n = 0 THEN "ab_end" ELSE "ab_undo"
         /\ reg'[t].i = n
         /\ view' \in [Tasklet -> View]
<1>1. /\ pc \in [Tasklet -> Labels]
      /\ reg \in [Tasklet -> RegType]
      /\ reg[t].n \in Nat \ {0}
      /\ reg[t].n \in DOMAIN prog[t]
      /\ view \in [Tasklet -> View]
  BY DEF Types, RegType, Control
<1>2. [Fresh(reg[t].n, 1) EXCEPT !.i = n] \in RegType
  BY <1>1, LoopType
<1>3. /\ reg' = [reg EXCEPT ![t] = [Fresh(reg[t].n, 1) EXCEPT !.i = n]]
      /\ pc' = [pc EXCEPT ![t] = IF n = 0 THEN "ab_end" ELSE "ab_undo"]
      /\ view' = [view EXCEPT ![t] = NewView]
  BY DEF Abort, Goto
<1>4. NewView \in View
  BY DEF NewView, View
<1>5. Moved(t) /\ view' \in [Tasklet -> View]
  BY <1>1, <1>2, <1>3, <1>4 DEF Moved, Labels, Running
<1>6. /\ pc'[t] = (IF n = 0 THEN "ab_end" ELSE "ab_undo")
      /\ reg'[t].n = reg[t].n
      /\ reg'[t].i = n
  BY <1>1, <1>3 DEF Fresh
<1>7. Control(t)'
  BY <1>1, <1>6 DEF Control, Tx, Op, WSet, InLoad, InStore, Releasing
<1> QED  BY <1>5, <1>6, <1>7

LEMMA DecideOK ==
  ASSUME Types, NEW t \in Tasklet, Control(t), pc[t] # "done", prog' = prog,
         NEW ts \in Nat, Decide(t, ts), WSet(t) # <<>>, tx' = tx
  PROVE  /\ Moved(t)
         /\ Control(t)'
         /\ pc'[t] = "cm_drop"
         /\ reg'[t].i = 1
         /\ committed' \subseteq Commits
<1>1. /\ pc \in [Tasklet -> Labels]
      /\ reg \in [Tasklet -> RegType]
      /\ reg[t].n \in Nat \ {0}
      /\ reg[t].n \in DOMAIN prog[t]
      /\ view[t].reads \in SUBSET (Addr \X Val)
      /\ view[t].dirty \in BOOLEAN
      /\ committed \subseteq Commits
  BY DEF Types, RegType, Control, View
<1>2. [Fresh(reg[t].n, 1) EXCEPT !.i = 1, !.commit_ts = ts] \in RegType
  BY <1>1, LoopType
<1>3. /\ reg' = [reg EXCEPT ![t] = [Fresh(reg[t].n, 1) EXCEPT !.i = 1, !.commit_ts = ts]]
      /\ pc' = [pc EXCEPT ![t] = "cm_drop"]
  BY DEF Decide, Goto
<1>4. Moved(t)
  BY <1>1, <1>2, <1>3 DEF Moved, Labels, Releasing
<1>5. /\ pc'[t] = "cm_drop"
      /\ reg'[t].n = reg[t].n
      /\ reg'[t].i = 1
  BY <1>1, <1>3 DEF Fresh
<1>6. 1 \in DOMAIN WSet(t)
  <2>1. WSet(t) \in Seq(WEntry)
    BY DEF Types, TxType, WSet
  <2> QED  BY <2>1
<1>7. Control(t)'
  BY <1>1, <1>5, <1>6 DEF Control, Tx, Op, WSet, InLoad, InStore, Releasing
<1>8. committed' \subseteq Commits
  BY <1>1 DEF Decide, Record, Commits
<1> QED  BY <1>4, <1>5, <1>7, <1>8

------------------------------------------------------------------------------
(* The inductive invariant *)

IInv == Types /\ ControlOK /\ LocksMatchWriteSets

LEMMA ControlStep ==
  ASSUME ControlOK, NEW t \in Tasklet, Moved(t), Control(t)', prog' = prog,
         \A u \in Tasklet \ {t} : tx'[u].w_set = tx[u].w_set /\ tx'[u].r_set = tx[u].r_set
  PROVE  ControlOK'
<1> SUFFICES ASSUME NEW u \in Tasklet \ {t}
             PROVE  Control(u)'
  BY DEF ControlOK
<1> QED  BY Frame DEF ControlOK, Moved

\* A step that leaves the locks and the write sets alone, and that does not
\* change which locks the tasklet holds.
SameHold(t) ==
  \/ /\ pc[t] \in Running \ {"st_write"}
     /\ \/ pc'[t] \in Running \ {"st_write"}
        \/ pc'[t] \in Releasing /\ reg'[t].i = 1
  \/ pc[t] \notin Running \cup Releasing /\ pc'[t] \notin Running \cup Releasing
  \/ WSet(t) = <<>> /\ pc[t] # "st_write" /\ pc'[t] # "st_write"

LEMMA TakesFrame ==
  ASSUME NEW u \in Tasklet, prog' = prog, pc'[u] = pc[u], reg'[u] = reg[u],
         tx'[u].w_set = tx[u].w_set
  PROVE  WSet(u)' = WSet(u) /\ \A j, l : Takes(u, j, l)' <=> Takes(u, j, l)
<1>1. WSet(u)' = WSet(u)
  BY DEF WSet
<1>2. L(u)' = L(u)
  BY DEF L, Op, Tx
<1>3. Holds(u)' = Holds(u)
  BY <1>1 DEF Holds
<1> QED  BY <1>1, <1>2, <1>3 DEF Takes

LEMMA LocksSame ==
  ASSUME IInv, NEW t \in Tasklet, Moved(t), prog' = prog, lock_table' = lock_table,
         \A u \in Tasklet : tx'[u].w_set = tx[u].w_set, SameHold(t)
  PROVE  LocksMatchWriteSets'
<1>1. ASSUME NEW u \in Tasklet, NEW j, NEW l
      PROVE  Takes(u, j, l)' <=> Takes(u, j, l)
  <2>1. CASE u # t
    <3> QED  BY <2>1, TakesFrame DEF Moved
  <2>2. CASE u = t
    <3>1. WSet(t)' = WSet(t) /\ WSet(t) \in Seq(WEntry)
      BY DEF WSet, IInv, Types, TxType
    <3>2. Holds(t)' = Holds(t)
      BY <3>1 DEF SameHold, Holds, Running, Releasing
    <3>3. pc[t] # "st_write" /\ pc'[t] # "st_write"
      BY DEF SameHold, Running, Releasing
    <3> QED  BY <2>2, <3>1, <3>2, <3>3 DEF Takes
  <2> QED  BY <2>1, <2>2
<1> QED  BY <1>1 DEF IInv, LocksMatchWriteSets, WSet

LEMMA StartStep ==
  ASSUME IInv, NEW t \in Tasklet, Start(t)
  PROVE  IInv'
<1>1. /\ pc[t] = "start"
      /\ pc' = [pc EXCEPT ![t] = Label(t, 1)]
      /\ reg' = reg /\ prog' = prog /\ lock_table' = lock_table
      /\ tx' = [tx EXCEPT ![t] = [NewTx EXCEPT !.ts = clock, !.c_ts = 2 * Tx(t).ts]]
  BY DEF Start, Goto, At, shared
<1>2. /\ Control(t) /\ Types /\ ControlOK
      /\ pc \in [Tasklet -> Labels]
      /\ tx \in [Tasklet -> TxType]
      /\ reg \in [Tasklet -> RegType]
      /\ clock \in Nat
      /\ Tx(t).ts \in Nat
      /\ pc[t] # "done"
  BY <1>1, TransactionType DEF IInv, ControlOK, Types
<1>3. \/ /\ 1 \in DOMAIN Tx(t).ops
         /\ Label(t, 1) = Tx(t).ops[1].kind
         /\ Label(t, 1) \in {"load", "store", "alloc"}
      \/ Label(t, 1) \in {"cm_wait", "cm_inc"}
  BY <1>2, LabelOK
<1>4. [NewTx EXCEPT !.ts = clock, !.c_ts = 2 * Tx(t).ts] \in TxType
  <2>1. NewTx \in TxType
    BY DEF NewTx, TxType
  <2>2. 2 * Tx(t).ts \in Nat
    BY <1>2
  <2> QED  BY <1>2, <2>1, <2>2 DEF TxType
<1>5. Label(t, 1) \in Labels /\ Moved(t)
  BY <1>1, <1>2, <1>3 DEF Labels, Running, Moved
<1>6. Types'
  BY <1>1, <1>2, <1>4, <1>5 DEF Types, Start, Moved, shared, alloc, ghosts
<1>7. ControlOK'
  <2>1. Control(t)'
    BY <1>1, <1>2, <1>3 DEF Control, Tx, Op, InLoad, InStore, Releasing
  <2> QED  BY <1>1, <1>2, <1>5, <2>1, ControlStep
<1>8. LocksMatchWriteSets'
  <2>1. WSet(t)' = <<>>
    BY <1>1, <1>2 DEF WSet, NewTx
  <2>2. \A l \in Lock : lock_table[l].own # t
    <3> SUFFICES ASSUME NEW l \in Lock, lock_table[l].own = t
                 PROVE  FALSE
      OBVIOUS
    <3> DEFINE j == lock_table[l].val
    <3>1. j \in 1 .. Len(WSet(t)) + 1
      BY DEF IInv, LocksMatchWriteSets
    <3>2. lock_table[l] = Owned(t, j)
      BY DEF IInv, Types, LockWord, Owned
    <3>3. Takes(t, j, l)
      BY <3>1, <3>2 DEF IInv, LocksMatchWriteSets
    <3> QED  BY <1>1, <3>3 DEF Takes, Holds, Running, Releasing
  <2>3. \A j, l : ~ Takes(t, j, l)'
    BY <1>1, <1>2, <1>3, <2>1 DEF Takes, Holds
  <2>4. \A u \in Tasklet \ {t} : \A j, l : WSet(u)' = WSet(u) /\ (Takes(u, j, l)' <=> Takes(u, j, l))
    BY <1>1, <1>2, <1>5, TakesFrame DEF Moved
  <2> QED  BY <1>1, <2>1, <2>2, <2>3, <2>4 DEF IInv, LocksMatchWriteSets, Owned
<1> QED  BY <1>6, <1>7, <1>8 DEF IInv

\* The facts about tasklet t that its steps are proved from.
LEMMA Facts ==
  ASSUME IInv, NEW t \in Tasklet, pc[t] # "done"
  PROVE  /\ Types /\ ControlOK /\ Control(t)
         /\ clock \in Nat
         /\ pc \in [Tasklet -> Labels]
         /\ tx \in [Tasklet -> TxType]
         /\ reg \in [Tasklet -> RegType]
         /\ WSet(t) \in Seq(WEntry) /\ Len(WSet(t)) \in Nat
         /\ WSet(t) = tx[t].w_set
         /\ view \in [Tasklet -> View]
  BY DEF IInv, ControlOK, Types, TxType, WSet

LEMMA FaultStep ==
  ASSUME IInv, AssertFails
  PROVE  IInv'
<1>1. Types'
  BY DEF AssertFails, IInv, Types, shared, ghosts
<1>2. ControlOK'
  BY DEF AssertFails, IInv, ControlOK, Control, Tx, Op, WSet
<1>3. lock_table' = lock_table /\ tx' = tx /\ prog' = prog /\ pc' = pc /\ reg' = reg
  BY DEF AssertFails, shared
<1>4. \A t \in Tasklet : WSet(t)' = WSet(t) /\ \A j, l : Takes(t, j, l)' <=> Takes(t, j, l)
  BY <1>3, TakesFrame
<1>5. LocksMatchWriteSets'
  BY <1>3, <1>4 DEF IInv, LocksMatchWriteSets
<1> QED  BY <1>1, <1>2, <1>5 DEF IInv

\* A transaction gives up before it has touched anything in this step.
LEMMA AbortStep ==
  ASSUME IInv, NEW t \in Tasklet, pc[t] \in Running \ {"st_write"}, Abort(t, Len(WSet(t))),
         UNCHANGED <<shared, prog, tx, alloc, committed>>
  PROVE  IInv'
<1>1. pc[t] # "done" /\ WSet(t) \in Seq(WEntry)
  BY Facts DEF Running
<1>2. /\ Moved(t) /\ Control(t)'
      /\ pc'[t] = IF Len(WSet(t)) = 0 THEN "ab_end" ELSE "ab_undo"
      /\ view' \in [Tasklet -> View]
  BY <1>1, Facts, AbortOK
<1>3. Types'
  BY <1>2 DEF IInv, Types, Moved, shared, alloc
<1>4. ControlOK'
  BY <1>1, <1>2, Facts, ControlStep
<1>5. LocksMatchWriteSets'
  BY <1>1, <1>2, LocksSame DEF SameHold, Running, shared
<1> QED  BY <1>3, <1>4, <1>5 DEF IInv

LEMMA MallocStep ==
  ASSUME IInv, NEW t \in Tasklet, Malloc(t)
  PROVE  IInv'
<1>1. pc[t] = "alloc"
  BY DEF Malloc, At
<1>2. CASE Refused(t, Op(t).size) /\ AssertFails
  BY <1>2, FaultStep
<1>3. CASE /\ mram_malloc(t, Op(t).size)
           /\ NextOp(t)
           /\ UNCHANGED <<shared, prog, tx, halted, ghosts>>
  <2>1. /\ Moved(t) /\ Control(t)'
        /\ pc'[t] \in {"load", "store", "alloc", "cm_wait", "cm_inc"}
    BY <1>1, <1>3, Facts, NextOpOK
  <2>2. blocks' \in [Tasklet -> Block]
    <3>1. Op(t).size \in Int
      BY <1>1, Facts, OperationType
    <3>2. /\ blocks \in [Tasklet -> Block]
          /\ blocks[t].t_addr \in Nat /\ blocks[t].t_used \in Nat
      BY AllocAssumption DEF IInv, Types, Block, Uintptr
    <3>3. /\ Wrap(blocks[t].t_addr + Op(t).size) \in Uintptr
          /\ Wrap(blocks[t].t_used + Op(t).size) \in Uintptr
      BY <3>1, <3>2, WrapType
    <3> QED  BY <1>3, <3>2, <3>3 DEF mram_malloc, Block
  <2>3. Types'
    BY <1>3, <2>1, <2>2 DEF IInv, Types, Moved, shared, ghosts
  <2>4. ControlOK'
    BY <1>3, <2>1, Facts, <1>1, ControlStep
  <2>5. LocksMatchWriteSets'
    BY <1>1, <1>3, <2>1, LocksSame DEF SameHold, Running, shared
  <2> QED  BY <2>3, <2>4, <2>5 DEF IInv
<1> QED  BY <1>2, <1>3 DEF Malloc

LEMMA LoadLockStep ==
  ASSUME IInv, NEW t \in Tasklet, LoadLock(t)
  PROVE  IInv'
<1>1. /\ pc[t] = "load"
      /\ pc' = [pc EXCEPT ![t] = "ld_value"]
      /\ reg' = [reg EXCEPT ![t].lock_v = lock_table[L(t)]]
      /\ prog' = prog /\ lock_table' = lock_table /\ tx' = tx
  BY DEF LoadLock, At, Goto, shared
<1>2. lock_table[L(t)] \in LockWord
  BY <1>1, Facts, OperationType DEF InLoad, Types
<1>3. Moved(t)
  BY <1>1, <1>2, Facts DEF Moved, RegType, Labels, Running
<1>4. Types'
  BY <1>1, <1>3 DEF IInv, Types, LoadLock, Moved, shared, alloc, ghosts
<1>5. ControlOK'
  <2>1. pc'[t] = "ld_value" /\ reg'[t].n = reg[t].n /\ reg'[t].k = reg[t].k
    BY <1>1, Facts DEF RegType
  <2>2. Control(t)'
    BY <1>1, <2>1, Facts DEF Control, Tx, Op, InLoad, InStore, Releasing
  <2> QED  BY <1>1, <1>3, <2>2, Facts, ControlStep
<1>6. LocksMatchWriteSets'
  BY <1>1, <1>3, Facts, LocksSame DEF SameHold, Running
<1> QED  BY <1>4, <1>5, <1>6 DEF IInv

LEMMA LoadValueStep ==
  ASSUME IInv, NEW t \in Tasklet, LoadValue(t)
  PROVE  IInv'
<1>1. /\ pc[t] = "ld_value"
      /\ prog' = prog /\ lock_table' = lock_table /\ tx' = tx
      /\ WSet(t) \in Seq(WEntry)
  BY Facts DEF LoadValue, At, shared
<1>2. CASE Abort(t, Len(WSet(t)))
  BY <1>1, <1>2, AbortStep DEF LoadValue, shared, Running
<1>3. CASE /\ reg' = [reg EXCEPT ![t].value = mem[Op(t).addr]]
           /\ Goto(t, "ld_again")
           /\ UNCHANGED view
  <2>1. mem[Op(t).addr] \in Val
    BY <1>1, Facts, OperationType DEF InLoad, Types
  <2>2. Moved(t)
    BY <1>3, <2>1, Facts, <1>1 DEF Moved, RegType, Labels, Running, Goto
  <2>3. Types'
    BY <1>1, <1>3, <2>2 DEF IInv, Types, LoadValue, Moved, shared, alloc
  <2>4. pc'[t] = "ld_again" /\ reg'[t].n = reg[t].n /\ reg'[t].k = reg[t].k
    BY <1>1, <1>3, Facts DEF RegType, Goto
  <2>5. Control(t)'
    BY <1>1, <2>4, Facts DEF Control, Tx, Op, InLoad, InStore, Releasing
  <2>6. ControlOK'
    BY <1>1, <2>2, <2>5, Facts, ControlStep
  <2>7. LocksMatchWriteSets'
    BY <1>1, <2>2, <2>4, LocksSame DEF SameHold, Running
  <2> QED  BY <2>3, <2>6, <2>7 DEF IInv
<1> QED  BY <1>2, <1>3 DEF LoadValue

LEMMA LoadDoneStep ==
  ASSUME IInv, NEW t \in Tasklet, LoadDone(t)
  PROVE  IInv'
<1>1. /\ pc[t] = "ld_again"
      /\ prog' = prog /\ lock_table' = lock_table
      /\ NextOp(t)
      /\ \/ tx' = [tx EXCEPT ![t].r_set = Append(@, L(t))]
         \/ tx' = tx
  BY DEF LoadDone, At, shared
<1>2. L(t) \in Lock /\ Op(t).addr \in Addr
  BY <1>1, Facts, OperationType DEF InLoad
<1>3. /\ tx' \in [Tasklet -> TxType]
      /\ \A u \in Tasklet : tx'[u].w_set = tx[u].w_set
      /\ \A u \in Tasklet \ {t} : tx'[u].r_set = tx[u].r_set
  <2>1. CASE tx' = tx
    BY <1>1, <2>1, Facts
  <2>2. CASE tx' = [tx EXCEPT ![t].r_set = Append(@, L(t))]
    <3>1. tx[t].r_set \in Seq(Lock)
      BY <1>1, Facts DEF TxType
    <3>2. Append(tx[t].r_set, L(t)) \in Seq(Lock)
      BY <3>1, <1>2
    <3>3. [tx[t] EXCEPT !.r_set = Append(tx[t].r_set, L(t))] \in TxType
      BY <1>1, <3>2, Facts DEF TxType
    <3>4. /\ tx' = [tx EXCEPT ![t] = [tx[t] EXCEPT !.r_set = Append(tx[t].r_set, L(t))]]
          /\ tx \in [Tasklet -> TxType] /\ tx[t] \in TxType
      BY <1>1, <2>2, Facts
    <3>5. [tx[t] EXCEPT !.r_set = Append(tx[t].r_set, L(t))].w_set = tx[t].w_set
      BY <3>4 DEF TxType
    <3> QED  BY <3>3, <3>4, <3>5
  <2> QED  BY <1>1, <2>1, <2>2
<1>4. view' \in [Tasklet -> View]
  BY <1>1, <1>2, Facts DEF LoadDone, Sees, View, RegType
<1>5. /\ Moved(t) /\ Control(t)'
      /\ pc'[t] \in {"load", "store", "alloc", "cm_wait", "cm_inc"}
  BY <1>1, Facts, NextOpOK
<1>6. Types'
  BY <1>1, <1>3, <1>4, <1>5 DEF IInv, Types, LoadDone, Moved, shared, alloc
<1>7. ControlOK'
  BY <1>1, <1>3, <1>5, Facts, ControlStep
<1>8. LocksMatchWriteSets'
  BY <1>1, <1>3, <1>5, LocksSame DEF SameHold, Running
<1> QED  BY <1>6, <1>7, <1>8 DEF IInv

\* Setting the flag of another transaction.
LEMMA FlagType ==
  ASSUME Types, NEW other \in Tasklet, tx' = [tx EXCEPT ![other].aborted = TRUE]
  PROVE  /\ tx' \in [Tasklet -> TxType]
         /\ \A u \in Tasklet : tx'[u].w_set = tx[u].w_set /\ tx'[u].r_set = tx[u].r_set
  BY DEF Types, TxType

\* The owner of a locked word.
LEMMA Owner == \A w \in LockWord : Locked(w) => w.own \in Tasklet
  BY DEF LockWord, Locked

LEMMA LoadConflictStep ==
  ASSUME IInv, NEW t \in Tasklet, LoadConflict(t)
  PROVE  IInv'
<1> DEFINE w == reg[t].lock_v
<1>1. /\ pc[t] = "ld_again"
      /\ prog' = prog /\ lock_table' = lock_table
      /\ WSet(t) \in Seq(WEntry)
      /\ w \in LockWord
  BY Facts DEF LoadConflict, At, shared, RegType
<1>2. CASE /\ Locked(w)
           /\ tx' = [tx EXCEPT ![w.own].aborted = TRUE]
           /\ Goto(t, "load")
           /\ reg' = [reg EXCEPT ![t] = Fresh(@.n, @.k)]
           /\ UNCHANGED view
  <2>1. /\ tx' \in [Tasklet -> TxType]
        /\ \A u \in Tasklet : tx'[u].w_set = tx[u].w_set /\ tx'[u].r_set = tx[u].r_set
    BY <1>1, <1>2, Facts, Owner, FlagType
  <2>2. reg[t].n \in Nat \ {0} /\ reg[t].k \in Nat \ {0} /\ Fresh(reg[t].n, reg[t].k) \in RegType
    BY <1>1, Facts, FreshType DEF RegType
  <2>3. Moved(t)
    BY <1>1, <1>2, <2>2, Facts DEF Moved, Labels, Running, Goto
  <2>4. Types'
    BY <1>1, <1>2, <2>1, <2>3 DEF IInv, Types, LoadConflict, Moved, shared, alloc
  <2>5. pc'[t] = "load" /\ reg'[t].n = reg[t].n /\ reg'[t].k = reg[t].k
    BY <1>1, <1>2, Facts DEF Goto, Fresh
  <2>6. Control(t)'
    BY <1>1, <2>5, Facts DEF Control, Tx, Op, InLoad, InStore, Releasing
  <2>7. ControlOK'
    BY <1>1, <2>1, <2>3, <2>6, Facts, ControlStep
  <2>8. LocksMatchWriteSets'
    BY <1>1, <2>1, <2>3, <2>5, LocksSame DEF SameHold, Running
  <2> QED  BY <2>4, <2>7, <2>8 DEF IInv
<1>3. CASE Abort(t, Len(WSet(t))) /\ UNCHANGED tx
  BY <1>1, <1>3, AbortStep DEF LoadConflict, shared, Running
<1> QED  BY <1>2, <1>3 DEF LoadConflict

LEMMA StoreConflictStep ==
  ASSUME IInv, NEW t \in Tasklet, StoreConflict(t)
  PROVE  IInv'
<1> DEFINE other == reg[t].lock_v.own
<1>1. /\ pc[t] = "st_cm"
      /\ prog' = prog /\ lock_table' = lock_table
      /\ WSet(t) \in Seq(WEntry)
      /\ other \in Tasklet
  BY Facts, Owner DEF StoreConflict, At, shared, RegType, Control
<1>2. CASE /\ tx' = [tx EXCEPT ![other].aborted = TRUE]
           /\ Goto(t, "store")
           /\ reg' = [reg EXCEPT ![t] = Fresh(@.n, @.k)]
           /\ UNCHANGED view
  <2>1. /\ tx' \in [Tasklet -> TxType]
        /\ \A u \in Tasklet : tx'[u].w_set = tx[u].w_set /\ tx'[u].r_set = tx[u].r_set
    BY <1>1, <1>2, Facts, FlagType
  <2>2. reg[t].n \in Nat \ {0} /\ reg[t].k \in Nat \ {0} /\ Fresh(reg[t].n, reg[t].k) \in RegType
    BY <1>1, Facts, FreshType DEF RegType
  <2>3. Moved(t)
    BY <1>1, <1>2, <2>2, Facts DEF Moved, Labels, Running, Goto
  <2>4. Types'
    BY <1>1, <1>2, <2>1, <2>3 DEF IInv, Types, StoreConflict, Moved, shared, alloc
  <2>5. pc'[t] = "store" /\ reg'[t].n = reg[t].n /\ reg'[t].k = reg[t].k
    BY <1>1, <1>2, Facts DEF Goto, Fresh
  <2>6. Control(t)'
    BY <1>1, <2>5, Facts DEF Control, Tx, Op, InLoad, InStore, Releasing
  <2>7. ControlOK'
    BY <1>1, <2>1, <2>3, <2>6, Facts, ControlStep
  <2>8. LocksMatchWriteSets'
    BY <1>1, <2>1, <2>3, <2>5, LocksSame DEF SameHold, Running
  <2> QED  BY <2>4, <2>7, <2>8 DEF IInv
<1>3. CASE Abort(t, Len(WSet(t))) /\ UNCHANGED tx
  BY <1>1, <1>3, AbortStep DEF StoreConflict, shared, Running
<1> QED  BY <1>2, <1>3 DEF StoreConflict

LEMMA StoreLockStep ==
  ASSUME IInv, NEW t \in Tasklet, StoreLock(t)
  PROVE  IInv'
<1> DEFINE w == lock_table[L(t)]
<1>1. /\ pc[t] = "store"
      /\ prog' = prog /\ lock_table' = lock_table /\ tx' = tx
      /\ WSet(t) \in Seq(WEntry)
  BY Facts DEF StoreLock, At, shared
<1>2. CASE Abort(t, Len(WSet(t)))
  BY <1>1, <1>2, AbortStep DEF StoreLock, shared, Running
<1>3. CASE /\ reg' = [reg EXCEPT ![t].lock_v = w]
           /\ Goto(t, IF Locked(w) THEN "st_cm" ELSE "st_cas")
           /\ UNCHANGED view
  <2>1. w \in LockWord
    BY <1>1, Facts, OperationType DEF InStore, Types
  <2>2. Moved(t)
    BY <1>1, <1>3, <2>1, Facts DEF Moved, RegType, Labels, Running, Goto
  <2>3. Types'
    BY <1>1, <1>3, <2>2 DEF IInv, Types, StoreLock, Moved, shared, alloc
  <2>4. /\ pc'[t] = (IF Locked(w) THEN "st_cm" ELSE "st_cas")
        /\ reg'[t].n = reg[t].n /\ reg'[t].k = reg[t].k /\ reg'[t].lock_v = w
    BY <1>1, <1>3, Facts DEF RegType, Goto
  <2>5. Control(t)'
    BY <1>1, <2>4, Facts DEF Control, Tx, Op, InLoad, InStore, Releasing
  <2>6. ControlOK'
    BY <1>1, <2>2, <2>5, Facts, ControlStep
  <2>7. LocksMatchWriteSets'
    BY <1>1, <2>2, <2>4, LocksSame DEF SameHold, Running
  <2> QED  BY <2>3, <2>6, <2>7 DEF IInv
<1> QED  BY <1>2, <1>3 DEF StoreLock

\* The write set grows by an entry: without a lock, or with the one just won.
LEMMA AppendLocks ==
  ASSUME IInv, NEW t \in Tasklet, NEW e \in WEntry, Moved(t), prog' = prog,
         lock_table' = lock_table, WSet(t)' = Append(WSet(t), e),
         \A u \in Tasklet \ {t} : tx'[u].w_set = tx[u].w_set,
         pc[t] \in Running, pc'[t] \in Running \ {"st_write"},
         e.lock = IF pc[t] = "st_write" THEN L(t) ELSE NoLock
  PROVE  LocksMatchWriteSets'
<1>0. WSet(t) \in Seq(WEntry) /\ Len(WSet(t)) + 1 \in Nat
  BY Facts DEF Running
<1> SUFFICES ASSUME NEW n \in Nat, n = Len(WSet(t)) + 1
             PROVE  LocksMatchWriteSets'
  BY <1>0
<1>1. WSet(t) \in Seq(WEntry) /\ n = Len(WSet(t)) + 1
  BY <1>0
<1>2. Len(WSet(t))' = n /\ DOMAIN WSet(t)' = 1 .. n /\ DOMAIN WSet(t) = 1 .. n - 1
  BY <1>1
<1>3. \A j \in 1 .. n - 1 : WSet(t)'[j] = WSet(t)[j]
  BY <1>1
<1>4. WSet(t)'[n] = e
  BY <1>1
<1>5. ASSUME NEW l \in Lock, NEW j \in 1 .. n
      PROVE  Takes(t, j, l)' <=> Takes(t, j, l)
  <2>1. CASE j = n
    BY <1>1, <1>2, <1>4, <2>1, TMAssumption DEF Takes, Holds
  <2>2. CASE j # n
    <3>1. j \in 1 .. n - 1 /\ j # Len(WSet(t)) + 1
      BY <1>1, <2>2
    <3>2. j \in Holds(t)' <=> j \in Holds(t)
      BY <1>2, <1>3, <3>1 DEF Holds, Running, Releasing
    <3> QED  BY <1>3, <3>1, <3>2 DEF Takes
  <2> QED  BY <2>1, <2>2
<1>6. ASSUME NEW l \in Lock
      PROVE  /\ \A j \in 1 .. n + 1 : lock_table[l] = Owned(t, j) <=> Takes(t, j, l)'
             /\ lock_table[l].own = t => lock_table[l].val \in 1 .. n + 1
  <2>1. /\ \A j \in 1 .. n : lock_table[l] = Owned(t, j) <=> Takes(t, j, l)
        /\ lock_table[l].own = t => lock_table[l].val \in 1 .. n
    BY DEF IInv, LocksMatchWriteSets
  <2>2. lock_table[l] # Owned(t, n + 1)
    BY <1>1, <2>1 DEF Owned
  <2>3. ~ Takes(t, n + 1, l)'
    BY <1>1, <1>2 DEF Takes, Holds
  <2>4. ASSUME NEW j \in 1 .. n + 1
        PROVE  lock_table[l] = Owned(t, j) <=> Takes(t, j, l)'
    <3>1. CASE j \in 1 .. n
      BY <1>5, <2>1, <3>1
    <3>2. CASE j = n + 1
      BY <2>2, <2>3, <3>2
    <3> QED  BY <1>1, <3>1, <3>2
  <2> QED  BY <1>1, <2>1, <2>4
<1>7. ASSUME NEW u \in Tasklet \ {t}
      PROVE  WSet(u)' = WSet(u) /\ \A j, l : Takes(u, j, l)' <=> Takes(u, j, l)
  BY TakesFrame DEF Moved
<1> QED  BY <1>2, <1>6, <1>7 DEF IInv, LocksMatchWriteSets

\* A store, in either way: the common part.
LEMMA WriteThroughStep ==
  ASSUME IInv, NEW t \in Tasklet, NEW lock \in Lock \cup {NoLock}, NEW version \in Nat,
         pc[t] \in {"store", "st_write"}, WriteThrough(t, lock, version),
         lock = IF pc[t] = "st_write" THEN L(t) ELSE NoLock, lock_table' = lock_table
  PROVE  IInv'
<1> DEFINE a == Op(t).addr
           e == [addr |-> a, lock |-> lock, version |-> version, value |-> mem[a]]
<1>1. /\ pc[t] \in Running /\ pc[t] \in InStore /\ pc[t] # "done"
      /\ prog' = prog /\ clock' = clock /\ committed' = committed
      /\ blocks' = blocks /\ halted' = halted
      /\ tx' = [tx EXCEPT ![t].w_set = Append(@, e)]
      /\ mem' = [mem EXCEPT ![a] = Op(t).val]
  BY DEF WriteThrough, Running, InStore, alloc
<1>2. /\ WSet(t) \in Seq(WEntry) /\ WSet(t) = tx[t].w_set /\ Len(WSet(t)) \in Nat
      /\ tx \in [Tasklet -> TxType]
      /\ a \in Addr /\ Op(t).val \in Val
      /\ mem \in [Addr -> Val]
      /\ view \in [Tasklet -> View]
  BY <1>1, Facts, OperationType DEF Types
<1>3. e \in WEntry
  BY <1>2 DEF WEntry
<1>4. Append(WSet(t), e) \in Seq(WEntry) /\ Len(Append(WSet(t), e)) = Len(WSet(t)) + 1
  BY <1>2, <1>3
<1>5. /\ tx' \in [Tasklet -> TxType]
      /\ tx'[t].w_set = Append(WSet(t), e)
      /\ \A u \in Tasklet \ {t} : tx'[u].w_set = tx[u].w_set /\ tx'[u].r_set = tx[u].r_set
  <2> DEFINE w == Append(WSet(t), e)
  <2>1. w \in Seq(WEntry) /\ tx' = [tx EXCEPT ![t] = [tx[t] EXCEPT !.w_set = w]]
    BY <1>1, <1>2, <1>4
  <2> HIDE DEF w
  <2>2. tx[t] \in TxType /\ tx \in [Tasklet -> TxType]
    BY <1>2
  <2>3. [tx[t] EXCEPT !.w_set = w] \in TxType /\ [tx[t] EXCEPT !.w_set = w].w_set = w
    BY <2>1, <2>2 DEF TxType
  <2>4. tx' \in [Tasklet -> TxType] /\ tx'[t].w_set = w /\ \A u \in Tasklet \ {t} : tx'[u] = tx[u]
    BY <2>1, <2>2, <2>3
  <2> QED  BY <2>4 DEF w
<1>6. /\ Moved(t) /\ Control(t)'
      /\ pc'[t] \in Running \ {"st_write"}
      /\ view' \in [Tasklet -> View]
  <2>1. CASE version > tx[t].ts
    <3>1. Abort(t, Len(WSet(t)) + 1)
      BY <2>1 DEF WriteThrough
    <3>2. /\ Moved(t) /\ Control(t)'
          /\ pc'[t] = IF Len(WSet(t)) + 1 = 0 THEN "ab_end" ELSE "ab_undo"
          /\ view' \in [Tasklet -> View]
      BY <1>1, <1>2, <1>4, <1>5, <3>1, Facts, AbortOK
    <3> QED  BY <1>2, <3>2 DEF Running
  <2>2. CASE ~ (version > tx[t].ts)
    <3>1. NextOp(t) /\ view' = view
      BY <2>2 DEF WriteThrough
    <3> QED  BY <1>1, <1>2, <3>1, Facts, NextOpOK DEF Running
  <2> QED  BY <2>1, <2>2
<1>7. mem' \in [Addr -> Val]
  BY <1>1, <1>2
<1>8. Types'
  BY <1>1, <1>5, <1>6, <1>7 DEF IInv, Types, Moved
<1>9. ControlOK'
  BY <1>1, <1>5, <1>6, Facts, ControlStep
<1>10. LocksMatchWriteSets'
  BY <1>1, <1>3, <1>5, <1>6, AppendLocks DEF WSet
<1> QED  BY <1>8, <1>9, <1>10 DEF IInv

LEMMA StoreOwnStep ==
  ASSUME IInv, NEW t \in Tasklet, StoreOwn(t)
  PROVE  IInv'
<1> DEFINE w == lock_table[L(t)]
<1>1. /\ pc[t] = "store" /\ lock_table' = lock_table
      /\ WriteThrough(t, NoLock, WSet(t)[w.val].version)
      /\ w.val \in DOMAIN WSet(t)
  BY DEF StoreOwn, At, OwnLock
<1>2. WSet(t) \in Seq(WEntry)
  BY <1>1, Facts
<1>3. WSet(t)[w.val].version \in Nat
  <2>1. WSet(t)[w.val] \in WEntry
    BY <1>1, <1>2
  <2> QED  BY <2>1 DEF WEntry
<1> QED  BY <1>1, <1>3, WriteThroughStep

LEMMA StoreWriteStep ==
  ASSUME IInv, NEW t \in Tasklet, StoreWrite(t)
  PROVE  IInv'
<1>1. /\ pc[t] = "st_write" /\ lock_table' = lock_table
      /\ WriteThrough(t, L(t), reg[t].lock_v.val)
  BY DEF StoreWrite, At
<1>2. L(t) \in Lock /\ reg[t].lock_v.val \in Nat
  BY <1>1, Facts, OperationType DEF InStore, RegType, LockWord
<1> QED  BY <1>1, <1>2, WriteThroughStep

LEMMA CasStep ==
  ASSUME IInv, NEW t \in Tasklet, Cas(t)
  PROVE  IInv'
<1>1. /\ pc[t] = "st_cas"
      /\ prog' = prog /\ tx' = tx
      /\ L(t) \in Lock
      /\ WSet(t) \in Seq(WEntry) /\ Len(WSet(t)) \in Nat
      /\ lock_table \in [Lock -> LockWord]
      /\ ~ Locked(reg[t].lock_v)
  BY Facts, OperationType DEF Cas, At, InStore, Types, Control
<1>2. CASE /\ lock_table[L(t)] = reg[t].lock_v
           /\ lock_table' = [lock_table EXCEPT ![L(t)] = Owned(t, Len(WSet(t)) + 1)]
           /\ Goto(t, "st_write")
           /\ UNCHANGED reg
  <2>1. Moved(t)
    BY <1>1, <1>2, Facts DEF Moved, Labels, Running, Goto
  <2>2. lock_table' \in [Lock -> LockWord]
    BY <1>1, <1>2 DEF LockWord, Owned
  <2>3. Types'
    BY <1>1, <2>1, <2>2 DEF IInv, Types, Cas, Moved, alloc, ghosts
  <2>4. pc'[t] = "st_write" /\ reg' = reg
    BY <1>1, <1>2, Facts DEF Goto
  <2>5. Control(t)'
    BY <1>1, <2>4, Facts DEF Control, Tx, Op, InLoad, InStore, Releasing
  <2>6. ControlOK'
    BY <1>1, <2>1, <2>5, Facts, ControlStep
  <2>7. \A u \in Tasklet : WSet(u)' = WSet(u)
    BY <1>1 DEF WSet
  <2>8. ASSUME NEW u \in Tasklet, NEW j, NEW l
        PROVE  Takes(u, j, l)' <=> \/ Takes(u, j, l)
                                   \/ u = t /\ l = L(t) /\ j = Len(WSet(t)) + 1
    <3>1. CASE u # t
      BY <1>1, <2>1, <3>1, TakesFrame DEF Moved
    <3>2. CASE u = t
      <4>1. L(t)' = L(t)
        BY <1>1, <2>4 DEF L, Op, Tx
      <4>2. Holds(t)' = Holds(t)
        BY <1>1, <2>4, <2>7 DEF Holds, Running, Releasing
      <4> QED  BY <1>1, <2>4, <2>7, <3>2, <4>1, <4>2 DEF Takes
    <3> QED  BY <3>1, <3>2
  <2>9. LocksMatchWriteSets'
    <3> SUFFICES ASSUME NEW l \in Lock, NEW u \in Tasklet
                 PROVE  /\ \A j \in 1 .. Len(WSet(u)) + 1 :
                             lock_table'[l] = Owned(u, j) <=> Takes(u, j, l)'
                        /\ lock_table'[l].own = u => lock_table'[l].val \in 1 .. Len(WSet(u)) + 1
      BY <2>7 DEF LocksMatchWriteSets, Owned
    <3>1. /\ \A j \in 1 .. Len(WSet(u)) + 1 : lock_table[l] = Owned(u, j) <=> Takes(u, j, l)
          /\ lock_table[l].own = u => lock_table[l].val \in 1 .. Len(WSet(u)) + 1
      BY DEF IInv, LocksMatchWriteSets
    <3>2. CASE l # L(t)
      BY <1>1, <1>2, <2>8, <3>1, <3>2
    <3>3. CASE l = L(t)
      <4>1. lock_table[l].own \notin Tasklet
        BY <1>1, <1>2, <3>3, AllocAssumption DEF Locked, NoTx, Tasklet
      <4>2. \A j \in 1 .. Len(WSet(u)) + 1 : ~ Takes(u, j, l)
        <5> SUFFICES ASSUME NEW j \in 1 .. Len(WSet(u)) + 1
                     PROVE  ~ Takes(u, j, l)
          OBVIOUS
        <5>1. Owned(u, j).own = u
          BY DEF Owned
        <5>2. lock_table[l] # Owned(u, j)
          BY <4>1, <5>1
        <5> QED  BY <3>1, <5>2
      <4>3. lock_table'[l] = Owned(t, Len(WSet(t)) + 1)
        BY <1>1, <1>2, <3>3
      <4>4. \A j : lock_table'[l] = Owned(u, j) <=> u = t /\ j = Len(WSet(t)) + 1
        BY <4>3 DEF Owned
      <4>5. lock_table'[l].own = t /\ lock_table'[l].val = Len(WSet(t)) + 1
        BY <4>3 DEF Owned
      <4> QED  BY <1>1, <2>8, <3>3, <4>2, <4>4, <4>5
    <3> QED  BY <3>2, <3>3
  <2> QED  BY <2>3, <2>6, <2>9 DEF IInv
<1>3. CASE /\ Goto(t, "store")
           /\ reg' = [reg EXCEPT ![t] = Fresh(@.n, @.k)]
           /\ UNCHANGED lock_table
  <2>1. reg[t].n \in Nat \ {0} /\ reg[t].k \in Nat \ {0} /\ Fresh(reg[t].n, reg[t].k) \in RegType
    BY <1>1, Facts, FreshType DEF RegType
  <2>2. Moved(t)
    BY <1>1, <1>3, <2>1, Facts DEF Moved, Labels, Running, Goto
  <2>3. Types'
    BY <1>1, <1>3, <2>2 DEF IInv, Types, Cas, Moved, alloc, ghosts
  <2>4. pc'[t] = "store" /\ reg'[t].n = reg[t].n /\ reg'[t].k = reg[t].k
    BY <1>1, <1>3, Facts DEF Goto, Fresh
  <2>5. Control(t)'
    BY <1>1, <2>4, Facts DEF Control, Tx, Op, InLoad, InStore, Releasing
  <2>6. ControlOK'
    BY <1>1, <2>2, <2>5, Facts, ControlStep
  <2>7. LocksMatchWriteSets'
    BY <1>1, <1>3, <2>2, <2>4, LocksSame DEF SameHold, Running
  <2> QED  BY <2>3, <2>6, <2>7 DEF IInv
<1> QED  BY <1>2, <1>3 DEF Cas

LEMMA CommitWaitStep ==
  ASSUME IInv, NEW t \in Tasklet, CommitWait(t)
  PROVE  IInv'
<1>1. /\ pc[t] = "cm_wait"
      /\ pc' = [pc EXCEPT ![t] = IF clock < tx[t].c_ts THEN "cm_flag" ELSE "cm_inc"]
      /\ UNCHANGED <<shared, prog, tx, reg, alloc, ghosts>>
  BY DEF CommitWait, At, Goto
<1>2. Moved(t) /\ pc'[t] \in {"cm_flag", "cm_inc"}
  BY <1>1, Facts DEF Moved, Labels, Running
<1>3. Types'
  BY <1>1, <1>2 DEF IInv, Types, Moved, shared, alloc, ghosts
<1>4. Control(t)'
  BY <1>1, <1>2, Facts DEF Control, Tx, Op, InLoad, InStore, Releasing
<1>5. ControlOK'
  BY <1>1, <1>2, <1>4, Facts, ControlStep
<1>6. LocksMatchWriteSets'
  BY <1>1, <1>2, LocksSame DEF SameHold, Running, shared
<1> QED  BY <1>3, <1>5, <1>6 DEF IInv

LEMMA CommitFlagStep ==
  ASSUME IInv, NEW t \in Tasklet, CommitFlag(t)
  PROVE  IInv'
<1>1. /\ pc[t] = "cm_flag"
      /\ UNCHANGED <<shared, prog, tx, alloc, committed>>
  BY DEF CommitFlag, At
<1>2. CASE Abort(t, Len(WSet(t)))
  BY <1>1, <1>2, AbortStep DEF Running
<1>3. CASE Goto(t, "cm_wait") /\ UNCHANGED <<reg, view>>
  <2>1. Moved(t) /\ pc'[t] = "cm_wait"
    BY <1>1, <1>3, Facts DEF Moved, Labels, Running, Goto
  <2>2. Types'
    BY <1>1, <1>3, <2>1 DEF IInv, Types, Moved, shared, alloc
  <2>3. Control(t)'
    BY <1>1, <1>3, <2>1, Facts DEF Control, Tx, Op, InLoad, InStore, Releasing
  <2>4. ControlOK'
    BY <1>1, <2>1, <2>3, Facts, ControlStep
  <2>5. LocksMatchWriteSets'
    BY <1>1, <2>1, LocksSame DEF SameHold, Running, shared
  <2> QED  BY <2>2, <2>4, <2>5 DEF IInv
<1> QED  BY <1>2, <1>3 DEF CommitFlag

LEMMA CommitIncStep ==
  ASSUME IInv, NEW t \in Tasklet, CommitInc(t)
  PROVE  IInv'
<1>1. /\ pc[t] = "cm_inc"
      /\ clock' = clock + 2
      /\ UNCHANGED <<lock_table, mem, prog, tx, alloc>>
  BY DEF CommitInc, At
<1>2. /\ clock + 2 \in Nat /\ clock' \in Nat
      /\ WSet(t) \in Seq(WEntry)
      /\ tx[t].r_set \in Seq(Lock)
      /\ tx[t].ts + 1 \in Nat
      /\ reg[t].n \in Nat \ {0}
      /\ view[t].reads \in SUBSET (Addr \X Val) /\ view[t].dirty \in BOOLEAN
  <2>1. /\ clock \in Nat /\ tx[t] \in TxType /\ reg[t] \in RegType /\ view[t] \in View
        /\ WSet(t) \in Seq(WEntry)
    BY <1>1, Facts
  <2>2. view[t].reads \in SUBSET (Addr \X Val) /\ view[t].dirty \in BOOLEAN
    BY <2>1 DEF View
  <2>3. tx[t].r_set \in Seq(Lock) /\ tx[t].ts + 1 \in Nat
    BY <2>1 DEF TxType
  <2>4. reg[t].n \in Nat \ {0}
    BY <2>1 DEF RegType
  <2>5. clock + 2 \in Nat /\ clock' \in Nat
    BY <1>1, <2>1
  <2> QED  BY <2>1, <2>2, <2>3, <2>4, <2>5
<1>3. CASE WSet(t) = <<>> /\ Record(t, tx[t].ts + 1) /\ NextTx(t)
  <2>1. /\ Moved(t) /\ Control(t)'
        /\ pc'[t] \in {"start", "done"}
        /\ view' \in [Tasklet -> View]
    BY <1>1, <1>3, Facts, NextTxOK
  <2>2. committed' \subseteq Commits
    BY <1>1, <1>2, <1>3, Facts DEF Record, Commits, Types
  <2>3. Types'
    BY <1>1, <1>2, <2>1, <2>2 DEF IInv, Types, Moved, alloc
  <2>4. ControlOK'
    BY <1>1, <2>1, Facts, ControlStep
  <2>5. LocksMatchWriteSets'
    BY <1>1, <1>3, <2>1, LocksSame DEF SameHold
  <2> QED  BY <2>3, <2>4, <2>5 DEF IInv
<1>4. CASE WSet(t) # <<>> /\ Decide(t, clock + 2) /\ UNCHANGED view
  <2>1. /\ Moved(t) /\ Control(t)'
        /\ pc'[t] = "cm_drop" /\ reg'[t].i = 1
        /\ committed' \subseteq Commits
    BY <1>1, <1>2, <1>4, Facts, DecideOK
  <2>2. Types'
    BY <1>1, <1>2, <1>4, <2>1 DEF IInv, Types, Moved, alloc
  <2>3. ControlOK'
    BY <1>1, <2>1, Facts, ControlStep
  <2>4. LocksMatchWriteSets'
    BY <1>1, <2>1, LocksSame DEF SameHold, Running, Releasing
  <2> QED  BY <2>2, <2>3, <2>4 DEF IInv
<1>5. CASE /\ WSet(t) # <<>> /\ tx[t].r_set # <<>>
           /\ Goto(t, "cm_check")
           /\ reg' = [reg EXCEPT ![t] = [Fresh(@.n, 1) EXCEPT !.i = 1, !.commit_ts = clock + 2]]
           /\ UNCHANGED ghosts
  <2>1. [Fresh(reg[t].n, 1) EXCEPT !.i = 1, !.commit_ts = clock + 2] \in RegType
    BY <1>2, LoopType
  <2>2. Moved(t)
    BY <1>1, <1>5, <2>1, Facts DEF Moved, Labels, Running, Goto
  <2>3. pc'[t] = "cm_check" /\ reg'[t].n = reg[t].n /\ reg'[t].i = 1
    BY <1>1, <1>5, Facts DEF Goto, Fresh
  <2>4. Types'
    BY <1>1, <1>2, <1>5, <2>2 DEF IInv, Types, Moved, alloc, ghosts
  <2>5. 1 \in DOMAIN tx[t].r_set
    BY <1>2, <1>5
  <2>6. Control(t)'
    <3>1. reg'[t].n \in DOMAIN prog'[t]
      BY <1>1, <2>3, Facts DEF Control
    <3>2. reg'[t].i \in DOMAIN tx'[t].r_set /\ WSet(t)' # <<>>
      BY <1>1, <1>5, <2>3, <2>5 DEF WSet
    <3> QED  BY <2>3, <3>1, <3>2 DEF Control, InLoad, InStore, Releasing
  <2>7. ControlOK'
    BY <1>1, <2>2, <2>6, Facts, ControlStep
  <2>8. LocksMatchWriteSets'
    BY <1>1, <2>2, <2>3, LocksSame DEF SameHold, Running
  <2> QED  BY <2>4, <2>7, <2>8 DEF IInv
<1> QED  BY <1>3, <1>4, <1>5 DEF CommitInc

LEMMA CommitCheckStep ==
  ASSUME IInv, NEW t \in Tasklet, CommitCheck(t)
  PROVE  IInv'
<1>1. /\ pc[t] = "cm_check"
      /\ UNCHANGED <<shared, prog, tx, alloc>>
  BY DEF CommitCheck, At
<1>2. CASE Abort(t, Len(WSet(t))) /\ UNCHANGED committed
  BY <1>1, <1>2, AbortStep DEF Running
<1>3. CASE /\ reg[t].i < Len(tx[t].r_set)
           /\ reg' = [reg EXCEPT ![t].i = @ + 1]
           /\ UNCHANGED <<pc, ghosts>>
  <2>1. /\ tx[t].r_set \in Seq(Lock)
        /\ reg[t].i \in Nat
        /\ reg[t].i \in DOMAIN tx[t].r_set
    BY <1>1, Facts DEF TxType, RegType, Control
  <2>2. Moved(t) /\ reg'[t].i = reg[t].i + 1 /\ reg'[t].n = reg[t].n
    <3>1. pc[t] # "done" /\ reg[t].i + 1 \in Nat
      BY <1>1, <2>1
    <3> QED  BY <1>3, <3>1, CountType, Facts DEF Moved
  <2>3. Types'
    BY <1>1, <1>3, <2>2 DEF IInv, Types, Moved, shared, alloc, ghosts
  <2>4. Control(t)'
    <3>1. reg'[t].n \in DOMAIN prog'[t]
      BY <1>1, <2>2, Facts DEF Control
    <3>2. reg'[t].i \in DOMAIN tx'[t].r_set
      BY <1>1, <1>3, <2>1, <2>2
    <3>3. WSet(t)' # <<>> /\ pc'[t] = "cm_check"
      BY <1>1, <1>3, Facts DEF Control, WSet
    <3> QED  BY <3>1, <3>2, <3>3 DEF Control, InLoad, InStore, Releasing
  <2>5. ControlOK'
    BY <1>1, <2>2, <2>4, Facts, ControlStep
  <2>6. LocksMatchWriteSets'
    BY <1>1, <1>3, <2>2, LocksSame DEF SameHold, Running, shared
  <2> QED  BY <2>3, <2>5, <2>6 DEF IInv
<1>4. CASE Decide(t, reg[t].commit_ts) /\ UNCHANGED view
  <2>1. reg[t].commit_ts \in Nat /\ WSet(t) # <<>>
    BY <1>1, Facts DEF RegType, Control
  <2>2. /\ Moved(t) /\ Control(t)'
        /\ pc'[t] = "cm_drop" /\ reg'[t].i = 1
        /\ committed' \subseteq Commits
    BY <1>1, <1>4, <2>1, Facts, DecideOK
  <2>3. Types'
    BY <1>1, <1>4, <2>2 DEF IInv, Types, Moved, shared, alloc
  <2>4. ControlOK'
    BY <1>1, <2>2, Facts, ControlStep
  <2>5. LocksMatchWriteSets'
    BY <1>1, <2>2, LocksSame DEF SameHold, Running, Releasing, shared
  <2> QED  BY <2>3, <2>4, <2>5 DEF IInv
<1> QED  BY <1>2, <1>3, <1>4 DEF CommitCheck

\* One step of the release loop, of a commit or of an abort.
LEMMA ReleaseStep ==
  ASSUME IInv, NEW t \in Tasklet, pc[t] \in Releasing, NEW version \in Nat,
         NEW last \in {"cm_end", "ab_end"},
         Release(t, reg[t].i, version), ReleaseLoop(t, last)
  PROVE  IInv'
<1> DEFINE e == WSet(t)[reg[t].i]
<1>1. /\ pc' = [pc EXCEPT ![t] = IF reg[t].i < Len(WSet(t)) THEN pc[t] ELSE last]
      /\ reg' = [reg EXCEPT ![t].i = reg[t].i + 1]
      /\ UNCHANGED <<clock, mem, prog, tx, alloc, ghosts>>
      /\ lock_table' = [l \in Lock |-> IF l = e.lock THEN Free(version) ELSE lock_table[l]]
      /\ pc[t] # "done"
  BY DEF Release, ReleaseLoop, Goto, Releasing
<1>2. /\ reg[t].i \in DOMAIN WSet(t) /\ reg[t].i \in Nat
      /\ WSet(t) \in Seq(WEntry) /\ Len(WSet(t)) \in Nat
      /\ lock_table \in [Lock -> LockWord]
  BY <1>1, Facts DEF Control, RegType, Types
<1>3. Moved(t)
  <2>1. reg[t].i + 1 \in Nat
    BY <1>2
  <2>2. (IF reg[t].i < Len(WSet(t)) THEN pc[t] ELSE last) \in Labels
    BY DEF Labels
  <2> QED  BY <1>1, <2>1, <2>2, CountType, Facts DEF Moved
<1>4. /\ pc'[t] = (IF reg[t].i < Len(WSet(t)) THEN pc[t] ELSE last)
      /\ reg'[t].i = reg[t].i + 1 /\ reg'[t].n = reg[t].n
  BY <1>1, Facts DEF RegType
<1>5. Free(version) \in LockWord /\ \A u \in Tasklet : Free(version).own # u
  BY AllocAssumption DEF Free, LockWord, NoTx, Tasklet
<1>6. lock_table' \in [Lock -> LockWord]
  BY <1>1, <1>2, <1>5
<1>7. Types'
  BY <1>1, <1>3, <1>6 DEF IInv, Types, Moved, alloc, ghosts
<1>8. Control(t)'
  <2>1. WSet(t)' = WSet(t) /\ Tx(t)' = Tx(t)
    BY <1>1, <1>4 DEF WSet, Tx
  <2>2. reg'[t].n \in DOMAIN prog'[t]
    BY <1>1, <1>4, Facts DEF Control
  <2>3. pc'[t] \in Releasing => reg'[t].i \in DOMAIN WSet(t)'
    BY <1>2, <1>4, <2>1 DEF Releasing
  <2>4. pc'[t] \in Releasing \cup {"cm_end", "ab_end"}
    BY <1>4
  <2> QED  BY <2>2, <2>3, <2>4 DEF Control, InLoad, InStore, Releasing
<1>9. ControlOK'
  BY <1>1, <1>3, <1>8, Facts, ControlStep
<1>10. \A u \in Tasklet : WSet(u)' = WSet(u)
  BY <1>1 DEF WSet
<1>11. ASSUME NEW j, NEW l
       PROVE  Takes(t, j, l)' <=> Takes(t, j, l) /\ j # reg[t].i
  <2>1. j \in Holds(t)' <=> j \in Holds(t) /\ j # reg[t].i
    BY <1>2, <1>4, <1>10 DEF Holds, Running, Releasing
  <2>2. pc[t] # "st_write" /\ pc'[t] # "st_write"
    BY <1>4 DEF Releasing
  <2> QED  BY <1>10, <2>1, <2>2 DEF Takes
<1>12. ASSUME NEW u \in Tasklet \ {t}, NEW j, NEW l
       PROVE  Takes(u, j, l)' <=> Takes(u, j, l)
  BY <1>1, <1>3, TakesFrame DEF Moved
<1>13. LocksMatchWriteSets'
  <2> SUFFICES ASSUME NEW l \in Lock, NEW u \in Tasklet
               PROVE  /\ \A j \in 1 .. Len(WSet(u)) + 1 :
                           lock_table'[l] = Owned(u, j) <=> Takes(u, j, l)'
                      /\ lock_table'[l].own = u => lock_table'[l].val \in 1 .. Len(WSet(u)) + 1
    BY <1>10 DEF LocksMatchWriteSets, Owned
  <2>1. \A v \in Tasklet : \A j \in 1 .. Len(WSet(v)) + 1 :
          lock_table[l] = Owned(v, j) <=> Takes(v, j, l)
    BY DEF IInv, LocksMatchWriteSets
  <2>2. lock_table[l].own = u => lock_table[l].val \in 1 .. Len(WSet(u)) + 1
    BY DEF IInv, LocksMatchWriteSets
  <2>3. CASE l = e.lock
    <3>1. Takes(t, reg[t].i, l)
      BY <1>2, <2>3, TMAssumption DEF Takes, Holds
    <3>2. lock_table[l] = Owned(t, reg[t].i)
      BY <1>2, <2>1, <3>1
    <3>3. ASSUME NEW j \in 1 .. Len(WSet(u)) + 1
          PROVE  ~ Takes(u, j, l)'
      <4>1. CASE u = t
        <5>1. Takes(t, j, l) => j = reg[t].i
          <6>1. Takes(t, j, l) => Owned(t, j) = Owned(t, reg[t].i)
            BY <2>1, <3>2, <4>1
          <6> QED  BY <6>1 DEF Owned
        <5> QED  BY <1>11, <4>1, <5>1
      <4>2. CASE u # t
        <5>1. Owned(u, j).own = u /\ lock_table[l].own = t
          BY <3>2 DEF Owned
        <5>2. ~ Takes(u, j, l)
          BY <2>1, <4>2, <5>1
        <5> QED  BY <1>12, <4>2, <5>2
      <4> QED  BY <4>1, <4>2
    <3>4. lock_table'[l].own # u
      BY <1>1, <1>5, <2>3
    <3>5. \A j : Owned(u, j).own = u
      BY DEF Owned
    <3> QED  BY <3>3, <3>4, <3>5
  <2>4. CASE l # e.lock
    <3>1. lock_table'[l] = lock_table[l]
      BY <1>1, <2>4
    <3>2. ~ Takes(t, reg[t].i, l)
      BY <1>2, <2>4 DEF Takes, Releasing
    <3>3. ASSUME NEW j
          PROVE  Takes(u, j, l)' <=> Takes(u, j, l)
      <4>1. CASE u = t
        BY <1>11, <3>2, <4>1
      <4>2. CASE u # t
        BY <1>12, <4>2
      <4> QED  BY <4>1, <4>2
    <3> QED  BY <2>1, <2>2, <3>1, <3>3
  <2> QED  BY <2>3, <2>4
<1> QED  BY <1>7, <1>9, <1>13 DEF IInv

LEMMA CommitDropStep ==
  ASSUME IInv, NEW t \in Tasklet, CommitDrop(t)
  PROVE  IInv'
<1>1. /\ pc[t] = "cm_drop"
      /\ Release(t, reg[t].i, reg[t].commit_ts)
      /\ ReleaseLoop(t, "cm_end")
  BY DEF CommitDrop, At
<1>2. reg[t].commit_ts \in Nat
  BY <1>1, Facts DEF RegType
<1> QED  BY <1>1, <1>2, ReleaseStep DEF Releasing

LEMMA AbortDropStep ==
  ASSUME IInv, NEW t \in Tasklet, AbortDrop(t)
  PROVE  IInv'
<1>1. /\ pc[t] = "ab_drop"
      /\ Release(t, reg[t].i, WSet(t)[reg[t].i].version)
      /\ ReleaseLoop(t, "ab_end")
  BY DEF AbortDrop, At
<1>2. WSet(t)[reg[t].i] \in WEntry
  BY <1>1, Facts DEF Control, Releasing
<1>3. WSet(t)[reg[t].i].version \in Nat
  BY <1>2 DEF WEntry
<1> QED  BY <1>1, <1>3, ReleaseStep DEF Releasing

LEMMA CommitEndStep ==
  ASSUME IInv, NEW t \in Tasklet, CommitEnd(t)
  PROVE  IInv'
<1>1. /\ pc[t] = "cm_end"
      /\ mram_malloc_commit(t) /\ NextTx(t)
      /\ UNCHANGED <<shared, prog, tx, halted, committed>>
  BY DEF CommitEnd, At
<1>2. /\ Moved(t) /\ Control(t)'
      /\ pc'[t] \in {"start", "done"}
      /\ view' \in [Tasklet -> View]
  BY <1>1, Facts, NextTxOK
<1>3. blocks' \in [Tasklet -> Block]
  BY <1>1 DEF mram_malloc_commit, IInv, Types, Block
<1>4. Types'
  BY <1>1, <1>2, <1>3 DEF IInv, Types, Moved, shared
<1>5. ControlOK'
  BY <1>1, <1>2, Facts, ControlStep
<1>6. LocksMatchWriteSets'
  BY <1>1, <1>2, LocksSame DEF SameHold, Running, Releasing, shared
<1> QED  BY <1>4, <1>5, <1>6 DEF IInv

LEMMA AbortUndoStep ==
  ASSUME IInv, NEW t \in Tasklet, AbortUndo(t)
  PROVE  IInv'
<1> DEFINE w == WSet(t)[reg[t].i]
           next == IF UndoesMore(reg[t].i) THEN reg[t].i - 1 ELSE 1
<1>1. /\ pc[t] = "ab_undo"
      /\ mem' = [mem EXCEPT ![w.addr] = w.value]
      /\ pc' = [pc EXCEPT ![t] = IF UndoesMore(reg[t].i) THEN "ab_undo" ELSE "ab_drop"]
      /\ reg' = [reg EXCEPT ![t].i = next]
      /\ UNCHANGED <<clock, lock_table, prog, tx, alloc, ghosts>>
  BY DEF AbortUndo, At, Goto
<1>2. /\ reg[t].i \in DOMAIN WSet(t) /\ reg[t].i \in Nat
      /\ WSet(t) \in Seq(WEntry) /\ mem \in [Addr -> Val]
  BY <1>1, Facts DEF Control, RegType, Types
<1>3. next \in DOMAIN WSet(t) /\ next \in Nat /\ (~ UndoesMore(reg[t].i) => next = 1)
  BY <1>2 DEF UndoesMore
<1>4. w \in WEntry
  BY <1>2
<1>5. mem' \in [Addr -> Val]
  BY <1>1, <1>2, <1>4 DEF WEntry
<1>6. Moved(t)
  <2>1. (IF UndoesMore(reg[t].i) THEN "ab_undo" ELSE "ab_drop") \in Labels
    BY DEF Labels, Running, Releasing
  <2>2. pc[t] # "done"
    BY <1>1
  <2> QED  BY <1>1, <1>3, <2>1, <2>2, CountType, Facts DEF Moved
<1>7. /\ pc'[t] = (IF UndoesMore(reg[t].i) THEN "ab_undo" ELSE "ab_drop")
      /\ reg'[t].i = next /\ reg'[t].n = reg[t].n
  BY <1>1, Facts DEF RegType
<1>8. Types'
  BY <1>1, <1>5, <1>6 DEF IInv, Types, Moved, alloc, ghosts
<1>9. Control(t)'
  BY <1>1, <1>3, <1>7, Facts DEF Control, WSet, InLoad, InStore, Releasing
<1>10. ControlOK'
  BY <1>1, <1>6, <1>9, Facts, ControlStep
<1>11. LocksMatchWriteSets'
  BY <1>1, <1>3, <1>6, <1>7, LocksSame DEF SameHold, Running, Releasing
<1> QED  BY <1>8, <1>10, <1>11 DEF IInv

LEMMA AbortEndStep ==
  ASSUME IInv, NEW t \in Tasklet, AbortEnd(t)
  PROVE  IInv'
<1>1. /\ pc[t] = "ab_end"
      /\ mram_malloc_revert(t)
      /\ pc' = [pc EXCEPT ![t] = "start"]
      /\ reg' = [reg EXCEPT ![t] = Fresh(reg[t].n, 1)]
      /\ UNCHANGED <<shared, prog, tx, halted, ghosts>>
  BY DEF AbortEnd, At, Goto
<1>2. reg[t].n \in Nat \ {0} /\ Fresh(reg[t].n, 1) \in RegType
  <2>1. reg[t].n \in Nat \ {0}
    BY <1>1, Facts DEF RegType
  <2> QED  BY <2>1, FreshType
<1>3. Moved(t)
  BY <1>1, <1>2, Facts DEF Moved, Labels
<1>4. pc'[t] = "start" /\ reg'[t].n = reg[t].n /\ reg'[t].k = 1
  BY <1>1, Facts DEF Fresh
<1>5. blocks' \in [Tasklet -> Block]
  BY <1>1 DEF mram_malloc_revert, IInv, Types, Block
<1>6. Types'
  BY <1>1, <1>3, <1>5 DEF IInv, Types, Moved, shared, ghosts
<1>7. Control(t)'
  BY <1>1, <1>4, Facts DEF Control, Tx, Op, InLoad, InStore, Releasing
<1>8. ControlOK'
  BY <1>1, <1>3, <1>7, Facts, ControlStep
<1>9. LocksMatchWriteSets'
  BY <1>1, <1>3, <1>4, LocksSame DEF SameHold, Running, Releasing, shared
<1> QED  BY <1>6, <1>8, <1>9 DEF IInv

------------------------------------------------------------------------------
LEMMA StutterStep ==
  ASSUME IInv, UNCHANGED vars
  PROVE  IInv'
<1>1. Types'
  BY DEF IInv, Types, vars, shared, alloc, ghosts
<1>2. ControlOK'
  BY DEF IInv, ControlOK, Control, Tx, Op, WSet, vars
<1>3. lock_table' = lock_table /\ tx' = tx /\ prog' = prog /\ pc' = pc /\ reg' = reg
  BY DEF vars, shared
<1>4. \A t \in Tasklet : WSet(t)' = WSet(t) /\ \A j, l : Takes(t, j, l)' <=> Takes(t, j, l)
  BY <1>3, TakesFrame
<1>5. LocksMatchWriteSets'
  BY <1>3, <1>4 DEF IInv, LocksMatchWriteSets
<1> QED  BY <1>1, <1>2, <1>5 DEF IInv

LEMMA InitOK ==
  ASSUME Init
  PROVE  IInv
<1>1. /\ prog \in [Tasklet -> Seq(Transaction)]
      /\ pc = [t \in Tasklet |-> IF prog[t] = <<>> THEN "done" ELSE "start"]
      /\ tx = [t \in Tasklet |-> NewTx]
      /\ reg = [t \in Tasklet |-> Fresh(1, 1)]
      /\ lock_table = [l \in Lock |-> Free(0)]
  BY TMAssumption DEF Init
<1>2. Fresh(1, 1) \in RegType
  BY FreshType
<1>3. NewTx \in TxType /\ NewView \in View
  BY DEF NewTx, TxType, NewView, View
<1>4. Free(0) \in LockWord /\ \A t \in Tasklet : Free(0).own # t
  BY AllocAssumption DEF Free, LockWord, NoTx, Tasklet
<1>5. blocks \in [Tasklet -> Block]
  <2> SUFFICES ASSUME NEW size, size = (MRAM_LIMIT - HEAP) \div NR_TASKLETS,
                      NEW t \in Tasklet
               PROVE  EmptyBlock(HEAP + t * size, size) \in Block
    BY DEF Init
  <2>1. /\ MRAM_LIMIT - HEAP \in Nat
        /\ NR_TASKLETS \in Nat \ {0}
        /\ t \in Nat /\ t + 1 <= NR_TASKLETS
    BY AllocAssumption DEF Tasklet
  <2>2. size \in Nat /\ NR_TASKLETS * size <= MRAM_LIMIT - HEAP
    BY <2>1
  <2>3. t * size \in Nat /\ t * size <= NR_TASKLETS * size
    BY <2>1, <2>2
  <2>4. HEAP + t * size \in Uintptr
    BY <2>2, <2>3, AllocAssumption DEF Uintptr
  <2>5. size <= NR_TASKLETS * size
    BY <2>1, <2>2
  <2>6. size \in Uintptr
    BY <2>2, <2>5, AllocAssumption DEF Uintptr
  <2> QED  BY <2>4, <2>6, AllocAssumption DEF EmptyBlock, Block, Uintptr
<1>6. Types
  <2>1. pc \in [Tasklet -> Labels]
    BY <1>1 DEF Labels
  <2> QED  BY <1>1, <1>2, <1>3, <1>4, <1>5, <2>1, TMAssumption DEF Init, Types
<1>7. ControlOK
  <2> SUFFICES ASSUME NEW t \in Tasklet
               PROVE  Control(t)
    BY DEF ControlOK
  <2>1. reg[t].n = 1 /\ reg[t].k = 1 /\ pc[t] = (IF prog[t] = <<>> THEN "done" ELSE "start")
    BY <1>1 DEF Fresh
  <2>2. prog[t] # <<>> => 1 \in DOMAIN prog[t]
    BY <1>1
  <2> QED  BY <2>1, <2>2 DEF Control, InLoad, InStore, Releasing
<1>8. LocksMatchWriteSets
  <2> SUFFICES ASSUME NEW l \in Lock, NEW t \in Tasklet
               PROVE  /\ \A j : ~ Takes(t, j, l)
                      /\ \A j : Owned(t, j).own = t
                      /\ lock_table[l].own # t
    BY DEF LocksMatchWriteSets
  <2> QED  BY <1>1, <1>4 DEF Takes, Holds, Running, Releasing, Owned
<1> QED  BY <1>6, <1>7, <1>8 DEF IInv

LEMMA NextOK ==
  ASSUME IInv, [Next]_vars
  PROVE  IInv'
<1>1. ASSUME NEW t \in Tasklet, Step(t)
      PROVE  IInv'
  <2>1. CASE Start(t)
    BY <2>1, StartStep
  <2>2. CASE Malloc(t)
    BY <2>2, MallocStep
  <2>3. CASE Load(t)
    BY <2>3, LoadLockStep, LoadValueStep, LoadDoneStep, LoadConflictStep, FaultStep
       DEF Load, ReadSetFull
  <2>4. CASE Store(t)
    BY <2>4, StoreOwnStep, StoreLockStep, StoreConflictStep, CasStep, StoreWriteStep, FaultStep
       DEF Store, WriteSetFull
  <2>5. CASE Commit(t)
    BY <2>5, CommitWaitStep, CommitFlagStep, CommitIncStep, CommitCheckStep, CommitDropStep,
       CommitEndStep DEF Commit
  <2>6. CASE Undo(t)
    BY <2>6, AbortUndoStep, AbortDropStep, AbortEndStep DEF Undo
  <2> QED  BY <1>1, <2>1, <2>2, <2>3, <2>4, <2>5, <2>6 DEF Step
<1>2. CASE UNCHANGED vars
  BY <1>2, StutterStep
<1> QED  BY <1>1, <1>2 DEF Next, Terminating

(* Capacity: a set grows only after a test of its size, and the test of a   *)
(* store still holds when its lock has been won.                            *)

Tested == {"st_cm", "st_cas", "st_write"}

Capacity(t) ==
  /\ Len(tx[t].r_set) <= R_SET_SIZE
  /\ Len(WSet(t)) <= W_SET_SIZE
  /\ pc[t] \in Tested => Len(WSet(t)) < W_SET_SIZE

CapacityOK == \A t \in Tasklet : Capacity(t)

LEMMA CapacityKept ==
  ASSUME CapacityOK, NEW t \in Tasklet,
         \A u \in Tasklet : tx'[u].w_set = tx[u].w_set /\ tx'[u].r_set = tx[u].r_set,
         \A u \in Tasklet \ {t} : pc'[u] = pc[u],
         pc'[t] \in Tested => Len(WSet(t)) < W_SET_SIZE
  PROVE  CapacityOK'
<1> SUFFICES ASSUME NEW u \in Tasklet
             PROVE  Capacity(u)'
  BY DEF CapacityOK
<1>1. WSet(u)' = WSet(u) /\ tx'[u].r_set = tx[u].r_set
  BY DEF WSet
<1> QED  BY <1>1 DEF CapacityOK, Capacity

\* What becomes of the sets and the place of tasklet t is all that matters.
LEMMA CapacityGrows ==
  ASSUME CapacityOK, NEW t \in Tasklet,
         \A u \in Tasklet \ {t} : tx'[u] = tx[u] /\ pc'[u] = pc[u],
         Len(tx'[t].r_set) <= R_SET_SIZE, Len(tx'[t].w_set) <= W_SET_SIZE, pc'[t] \notin Tested
  PROVE  CapacityOK'
<1> SUFFICES ASSUME NEW u \in Tasklet
             PROVE  Capacity(u)'
  BY DEF CapacityOK
<1>1. CASE u = t
  BY <1>1 DEF Capacity, WSet
<1>2. CASE u # t
  BY <1>2 DEF CapacityOK, Capacity, WSet
<1> QED  BY <1>1, <1>2

LEMMA CapacityAbort ==
  ASSUME IInv, CapacityOK, NEW t \in Tasklet, NEW n, Abort(t, n), tx' = tx
  PROVE  CapacityOK'
<1>1. pc' = [pc EXCEPT ![t] = IF n = 0 THEN "ab_end" ELSE "ab_undo"] /\ pc \in [Tasklet -> Labels]
  BY DEF Abort, Goto, IInv, Types
<1>2. pc'[t] \notin Tested /\ \A u \in Tasklet \ {t} : pc'[u] = pc[u]
  BY <1>1 DEF Tested
<1> QED  BY <1>2, CapacityKept

LEMMA CapacityFault ==
  ASSUME IInv, CapacityOK, AssertFails
  PROVE  CapacityOK'
BY DEF AssertFails, CapacityOK, Capacity, WSet, shared

LEMMA CapacityStart ==
  ASSUME IInv, CapacityOK, NEW t \in Tasklet, Start(t)
  PROVE  CapacityOK'
<1>1. /\ pc[t] = "start"
      /\ pc' = [pc EXCEPT ![t] = Label(t, 1)]
      /\ tx' = [tx EXCEPT ![t] = [NewTx EXCEPT !.ts = clock, !.c_ts = 2 * Tx(t).ts]]
  BY DEF Start, Goto, At
<1>2. pc \in [Tasklet -> Labels] /\ tx \in [Tasklet -> TxType]
  BY DEF IInv, Types
<1>3. Label(t, 1) \notin Tested
  <2>1. Label(t, 1) \in {"load", "store", "alloc", "cm_wait", "cm_inc"}
    BY <1>1, Facts, LabelOK
  <2> QED  BY <2>1 DEF Tested
<1>4. tx'[t].r_set = <<>> /\ tx'[t].w_set = <<>>
  BY <1>1, <1>2 DEF NewTx
<1>5. pc'[t] \notin Tested /\ \A u \in Tasklet \ {t} : tx'[u] = tx[u] /\ pc'[u] = pc[u]
  BY <1>1, <1>2, <1>3
<1> QED  BY <1>4, <1>5, CapacityGrows, TMAssumption

LEMMA CapacityLoad ==
  ASSUME IInv, CapacityOK, NEW t \in Tasklet, Load(t)
  PROVE  CapacityOK'
<1>1. pc \in [Tasklet -> Labels] /\ tx \in [Tasklet -> TxType]
  BY DEF IInv, Types
<1>2. CASE LoadLock(t)
  <2>1. pc'[t] \notin Tested /\ tx' = tx /\ \A u \in Tasklet \ {t} : pc'[u] = pc[u]
    BY <1>1, <1>2 DEF LoadLock, Goto, Tested
  <2> QED  BY <2>1, CapacityKept
<1>3. CASE LoadValue(t)
  <2>1. tx' = tx
    BY <1>3 DEF LoadValue
  <2>2. CASE Abort(t, Len(WSet(t)))
    BY <2>1, <2>2, CapacityAbort
  <2>3. CASE Goto(t, "ld_again")
    <3>1. pc'[t] \notin Tested /\ \A u \in Tasklet \ {t} : pc'[u] = pc[u]
      BY <1>1, <2>3 DEF Goto, Tested
    <3> QED  BY <2>1, <3>1, CapacityKept
  <2> QED  BY <1>3, <2>2, <2>3 DEF LoadValue
<1>4. CASE LoadDone(t)
  <2>1. /\ pc[t] = "ld_again" /\ NextOp(t) /\ prog' = prog
        /\ \/ Len(tx[t].r_set) < R_SET_SIZE /\ tx' = [tx EXCEPT ![t].r_set = Append(@, L(t))]
           \/ tx' = tx
    BY <1>4 DEF LoadDone, At
  <2>2. Moved(t) /\ pc'[t] \notin Tested
    BY <2>1, Facts, NextOpOK DEF Tested
  <2>3. CASE tx' = tx
    BY <2>2, <2>3, CapacityKept DEF Moved
  <2>4. CASE Len(tx[t].r_set) < R_SET_SIZE /\ tx' = [tx EXCEPT ![t].r_set = Append(@, L(t))]
    <3>1. tx[t].r_set \in Seq(Lock) /\ L(t) \in Lock
      BY <1>1, <2>1, Facts, OperationType DEF TxType, InLoad
    <3>2. Len(Append(tx[t].r_set, L(t))) = Len(tx[t].r_set) + 1 /\ Len(tx[t].r_set) \in Nat
      BY <3>1
    <3>3. /\ tx'[t].r_set = Append(tx[t].r_set, L(t)) /\ tx'[t].w_set = tx[t].w_set
          /\ \A u \in Tasklet \ {t} : tx'[u] = tx[u]
      BY <1>1, <2>4 DEF TxType
    <3>4. Len(tx'[t].r_set) <= R_SET_SIZE
      BY <2>4, <3>2, <3>3, TMAssumption
    <3>5. Len(tx'[t].w_set) <= W_SET_SIZE
      BY <3>3 DEF CapacityOK, Capacity, WSet
    <3> QED  BY <2>2, <3>3, <3>4, <3>5, CapacityGrows DEF Moved
  <2> QED  BY <2>1, <2>3, <2>4
<1>5. CASE ReadSetFull(t)
  BY <1>5, CapacityFault DEF ReadSetFull
<1>6. CASE LoadConflict(t)
  <2> DEFINE w == reg[t].lock_v
  <2>1. pc[t] = "ld_again" /\ w \in LockWord
    BY <1>6, Facts DEF LoadConflict, At, RegType
  <2>2. CASE Locked(w) /\ tx' = [tx EXCEPT ![w.own].aborted = TRUE] /\ Goto(t, "load")
    <3>1. \A u \in Tasklet : tx'[u].w_set = tx[u].w_set /\ tx'[u].r_set = tx[u].r_set
      BY <2>1, <2>2, Facts, Owner, FlagType
    <3>2. pc'[t] \notin Tested /\ \A u \in Tasklet \ {t} : pc'[u] = pc[u]
      BY <1>1, <2>2 DEF Goto, Tested
    <3> QED  BY <3>1, <3>2, CapacityKept
  <2>3. CASE Abort(t, Len(WSet(t))) /\ UNCHANGED tx
    BY <2>3, CapacityAbort
  <2> QED  BY <1>6, <2>2, <2>3 DEF LoadConflict
<1> QED  BY <1>2, <1>3, <1>4, <1>5, <1>6 DEF Load

\* A store logs an entry: there is room for it.
LEMMA CapacityWrite ==
  ASSUME IInv, CapacityOK, NEW t \in Tasklet, pc[t] \in {"store", "st_write"}, prog' = prog,
         NEW lock, NEW version, WriteThrough(t, lock, version), Len(WSet(t)) < W_SET_SIZE
  PROVE  CapacityOK'
<1> DEFINE e == [addr |-> Op(t).addr, lock |-> lock, version |-> version, value |-> mem[Op(t).addr]]
<1>1. /\ tx \in [Tasklet -> TxType] /\ pc \in [Tasklet -> Labels]
      /\ WSet(t) \in Seq(WEntry) /\ WSet(t) = tx[t].w_set
      /\ pc[t] # "done"
      /\ tx' = [tx EXCEPT ![t].w_set = Append(@, e)]
  BY Facts DEF WriteThrough
<1>2. Len(Append(WSet(t), e)) = Len(WSet(t)) + 1 /\ Len(WSet(t)) \in Nat
  BY <1>1
<1>3. /\ tx'[t].w_set = Append(WSet(t), e) /\ tx'[t].r_set = tx[t].r_set
      /\ \A u \in Tasklet \ {t} : tx'[u] = tx[u]
  BY <1>1 DEF TxType
<1>4. Len(tx'[t].w_set) <= W_SET_SIZE
  BY <1>2, <1>3, TMAssumption
<1>5. Len(tx'[t].r_set) <= R_SET_SIZE
  BY <1>3 DEF CapacityOK, Capacity
<1>6. pc'[t] \notin Tested /\ \A u \in Tasklet \ {t} : pc'[u] = pc[u]
  <2>1. CASE version > tx[t].ts
    BY <1>1, <2>1 DEF WriteThrough, Abort, Goto, Tested
  <2>2. CASE ~ (version > tx[t].ts)
    <3>1. NextOp(t)
      BY <2>2 DEF WriteThrough
    <3> QED  BY <1>1, <3>1, Facts, NextOpOK DEF Moved, Tested
  <2> QED  BY <2>1, <2>2
<1> QED  BY <1>3, <1>4, <1>5, <1>6, CapacityGrows

LEMMA CapacityStore ==
  ASSUME IInv, CapacityOK, NEW t \in Tasklet, Store(t)
  PROVE  CapacityOK'
<1>1. pc \in [Tasklet -> Labels] /\ tx \in [Tasklet -> TxType]
  BY DEF IInv, Types
<1>2. CASE StoreOwn(t)
  BY <1>2, CapacityWrite DEF StoreOwn, At, WriteThrough
<1>3. CASE StoreWrite(t)
  <2>1. Len(WSet(t)) < W_SET_SIZE
    BY <1>3 DEF StoreWrite, At, CapacityOK, Capacity, Tested
  <2> QED  BY <1>3, <2>1, CapacityWrite DEF StoreWrite, At, WriteThrough
<1>4. CASE StoreLock(t)
  <2>1. tx' = tx /\ Len(WSet(t)) < W_SET_SIZE
    BY <1>4 DEF StoreLock
  <2>2. CASE Abort(t, Len(WSet(t)))
    BY <2>1, <2>2, CapacityAbort
  <2>3. CASE Goto(t, IF Locked(lock_table[L(t)]) THEN "st_cm" ELSE "st_cas")
    <3>1. \A u \in Tasklet \ {t} : pc'[u] = pc[u]
      BY <1>1, <2>3 DEF Goto
    <3> QED  BY <2>1, <3>1, CapacityKept
  <2> QED  BY <1>4, <2>2, <2>3 DEF StoreLock
<1>5. CASE StoreConflict(t)
  <2> DEFINE other == reg[t].lock_v.own
  <2>1. pc[t] = "st_cm" /\ other \in Tasklet
    BY <1>5, Facts, Owner DEF StoreConflict, At, RegType, Control
  <2>2. CASE tx' = [tx EXCEPT ![other].aborted = TRUE] /\ Goto(t, "store")
    <3>1. \A u \in Tasklet : tx'[u].w_set = tx[u].w_set /\ tx'[u].r_set = tx[u].r_set
      BY <2>1, <2>2, Facts, FlagType
    <3>2. pc'[t] \notin Tested /\ \A u \in Tasklet \ {t} : pc'[u] = pc[u]
      BY <1>1, <2>2 DEF Goto, Tested
    <3> QED  BY <3>1, <3>2, CapacityKept
  <2>3. CASE Abort(t, Len(WSet(t))) /\ UNCHANGED tx
    BY <2>3, CapacityAbort
  <2> QED  BY <1>5, <2>2, <2>3 DEF StoreConflict
<1>6. CASE Cas(t)
  <2>1. tx' = tx /\ Len(WSet(t)) < W_SET_SIZE
    BY <1>6 DEF Cas, At, CapacityOK, Capacity, Tested
  <2>2. \A u \in Tasklet \ {t} : pc'[u] = pc[u]
    BY <1>1, <1>6 DEF Cas, Goto
  <2> QED  BY <2>1, <2>2, CapacityKept
<1>7. CASE WriteSetFull(t)
  BY <1>7, CapacityFault DEF WriteSetFull
<1> QED  BY <1>2, <1>3, <1>4, <1>5, <1>6, <1>7 DEF Store

\* The other steps leave the sets alone and do not lead into a store.
LEMMA CapacityRest ==
  ASSUME IInv, CapacityOK, NEW t \in Tasklet, Malloc(t) \/ Commit(t) \/ Undo(t)
  PROVE  CapacityOK'
<1>1. pc \in [Tasklet -> Labels]
  BY DEF IInv, Types
<1>2. CASE Malloc(t)
  <2>1. CASE AssertFails
    BY <2>1, CapacityFault
  <2>2. CASE NextOp(t) /\ UNCHANGED <<prog, tx>>
    <3>1. Moved(t) /\ pc'[t] \notin Tested
      BY <1>2, <2>2, Facts, NextOpOK DEF Malloc, At, Tested
    <3> QED  BY <2>2, <3>1, CapacityKept DEF Moved
  <2> QED  BY <1>2, <2>1, <2>2 DEF Malloc
<1>3. CASE Commit(t)
  <2>1. tx' = tx
    BY <1>3 DEF Commit, CommitWait, CommitFlag, CommitInc, CommitCheck, CommitDrop, CommitEnd,
                ReleaseLoop
  <2>2. CASE CommitCheck(t) /\ pc' = pc
    BY <2>1, <2>2, CapacityKept DEF CommitCheck, At, Tested
  <2>3. CASE ~ (CommitCheck(t) /\ pc' = pc)
    <3>1. pc'[t] \notin Tested /\ \A u \in Tasklet \ {t} : pc'[u] = pc[u]
      BY <1>1, <1>3, <2>3
         DEF Commit, CommitWait, CommitFlag, CommitInc, CommitCheck, CommitDrop, CommitEnd,
             ReleaseLoop, NextTx, Decide, Abort, Goto, At, Tested
    <3> QED  BY <2>1, <3>1, CapacityKept
  <2> QED  BY <2>2, <2>3
<1>4. CASE Undo(t)
  <2>1. tx' = tx
    BY <1>4 DEF Undo, AbortUndo, AbortDrop, AbortEnd, ReleaseLoop
  <2>2. pc'[t] \notin Tested /\ \A u \in Tasklet \ {t} : pc'[u] = pc[u]
    BY <1>1, <1>4 DEF Undo, AbortUndo, AbortDrop, AbortEnd, ReleaseLoop, Goto, At, Tested
  <2> QED  BY <2>1, <2>2, CapacityKept
<1> QED  BY <1>2, <1>3, <1>4

LEMMA CapacityNext ==
  ASSUME IInv, CapacityOK, [Next]_vars
  PROVE  CapacityOK'
<1>1. ASSUME NEW t \in Tasklet, Step(t)
      PROVE  CapacityOK'
  BY <1>1, CapacityStart, CapacityLoad, CapacityStore, CapacityRest DEF Step
<1>2. CASE UNCHANGED vars
  BY <1>2 DEF CapacityOK, Capacity, WSet, vars
<1> QED  BY <1>1, <1>2 DEF Next, Terminating

LEMMA CapacityInit ==
  ASSUME Init
  PROVE  CapacityOK
<1> SUFFICES ASSUME NEW t \in Tasklet
             PROVE  Capacity(t)
  BY DEF CapacityOK
<1>1. tx[t].r_set = <<>> /\ WSet(t) = <<>> /\ pc[t] \in {"start", "done"}
  BY DEF Init, NewTx, WSet
<1> QED  BY <1>1, TMAssumption DEF Capacity, Tested

------------------------------------------------------------------------------
(* The strengthening of the theorems below: the types, the agreement of     *)
(* each tasklet's place in the code (tm.c:303-504) with its descriptor, and *)
(* the agreement of the lock table with the write sets hold together.       *)
THEOREM Inductive == Spec => []IInv
<1>1. Init => IInv
  BY InitOK
<1>2. IInv /\ [Next]_vars => IInv'
  BY NextOK
<1> QED  BY <1>1, <1>2, PTL DEF Spec

(* No read set and no write set ever outgrows its array (tm.c:20-25): the   *)
(* asserts of tm.c:333,377,385 come before every entry that is added.       *)
THEOREM SetsFit == Spec => []CapacityOK
<1>1. Init => CapacityOK
  BY CapacityInit
<1>2. IInv /\ CapacityOK /\ [Next]_vars => CapacityOK'
  BY CapacityNext
<1> QED  BY <1>1, <1>2, Inductive, PTL DEF Spec

(* Every variable keeps its type: loop counters and operation numbers never *)
(* run out of the read set, the write set or the transaction (tm.c:99-208). *)
THEOREM TypeCorrect == Spec => []TypeOK
<1>1. IInv /\ CapacityOK => TypeOK
  <2> SUFFICES ASSUME IInv, CapacityOK, NEW t \in Tasklet
               PROVE  InBounds(t)
    BY DEF TypeOK, IInv
  <2>1. Control(t) /\ Capacity(t) /\ Types
    BY DEF IInv, ControlOK, CapacityOK
  <2> QED  BY <2>1 DEF InBounds, Control, Capacity
<1> QED  BY <1>1, Inductive, SetsFit, PTL

(* For any number of tasklets and locks, a locked word of lock_table points *)
(* to the live write set entry that took it, and an entry that has taken a  *)
(* lock finds itself there until it lets go of it (tm.c:145-208,358-443).   *)
THEOREM LocksCorrect == Spec => []LocksMatchWriteSets
<1>1. IInv => LocksMatchWriteSets
  BY DEF IInv
<1> QED  BY <1>1, Inductive, PTL

------------------------------------------------------------------------------
(* Vocabulary: which transactions may still commit, what is behind them,    *)
(* and what their logs say of a word.                                       *)

Begun      == {"load", "store", "alloc", "cm_wait", "cm_inc"}
Committing == {"cm_wait", "cm_flag", "cm_inc", "cm_check", "cm_drop"}

\* The labels at which a transaction may still commit.
Body      == Running \ {"ab_undo"}
Active(t) == pc[t] \in Body \cup {"cm_drop"}

\* The operations that are behind tasklet t, and the stores to word a of these.
Past(t)       == {k \in DOMAIN Tx(t).ops : pc[t] \in Committing \/ k < reg[t].k}
StoresOf(t, a) == {k \in Past(t) : Tx(t).ops[k].kind = "store" /\ Tx(t).ops[k].addr = a}

\* The entries of t's log for word a, and the tasklet that has a's lock.
EntriesOf(t, a) == {j \in DOMAIN WSet(t) : WSet(t)[j].addr = a}
OwnerOf(a)      == lock_table[LOCK_ADDR[a]].own

------------------------------------------------------------------------------
(* The kinds of steps.  A step of tasklet t leaves the others as they are,  *)
(* but for the flag "aborted".                                              *)

SameSets(u) == /\ tx'[u].w_set = tx[u].w_set
               /\ tx'[u].r_set = tx[u].r_set
               /\ tx'[u].ts = tx[u].ts

Rest(t) ==
  /\ prog' = prog
  /\ Moved(t)
  /\ \A u \in Tasklet \ {t} : view'[u] = view[u] /\ SameSets(u)

\* An assert fails, or nothing happens.
Idles == UNCHANGED <<shared, prog, pc, tx, reg, ghosts>>

Begins(t) ==
  /\ Rest(t)
  /\ UNCHANGED <<shared, reg, ghosts>>
  /\ pc[t] = "start" /\ pc'[t] \in Begun
  /\ pc'[t] \in Committing => DOMAIN Tx(t).ops = {}
  /\ reg[t].k = 1
  /\ tx'[t].w_set = <<>> /\ tx'[t].r_set = <<>> /\ tx'[t].ts = clock

\* A step to the next access, or within one, that changes nothing others see.
Runs(t) ==
  /\ Rest(t) /\ SameSets(t)
  /\ UNCHANGED <<shared, ghosts>>
  /\ pc[t] \in Body \ {"st_write", "cm_check"}
  /\ pc'[t] \in Body \ {"st_write", "cm_check"}
  /\ reg'[t].n = reg[t].n
  /\ \A a \in Addr : StoresOf(t, a)' = StoresOf(t, a)
  /\ pc'[t] \in {"ld_value", "ld_again"} =>
       /\ L(t)' = L(t)
       /\ \/ reg'[t].lock_v = lock_table[L(t)]
          \/ pc[t] = "ld_value" /\ reg'[t].lock_v = reg[t].lock_v

\* The value read enters the view of the transaction, or was its own.
Loads(t) ==
  /\ Rest(t)
  /\ UNCHANGED <<shared, committed>>
  /\ pc[t] = "ld_again" /\ pc'[t] \in Begun
  /\ Unchanged(t) \/ OwnLock(t, reg[t].lock_v)
  /\ tx'[t].w_set = tx[t].w_set /\ tx'[t].ts = tx[t].ts
  /\ tx'[t].r_set = IF Unchanged(t) THEN Append(tx[t].r_set, L(t)) ELSE tx[t].r_set
  /\ view'[t] = IF EntriesOf(t, Op(t).addr) # {} THEN view[t]
                ELSE [reads |-> view[t].reads \cup {<<Op(t).addr, reg[t].value>>},
                      dirty |-> view[t].dirty \/ reg[t].value # mem[Op(t).addr]]
  /\ reg'[t].n = reg[t].n
  /\ \A a \in Addr : StoresOf(t, a)' = StoresOf(t, a)

GivesUp(t) ==
  /\ Rest(t) /\ SameSets(t)
  /\ UNCHANGED <<shared, committed>>
  /\ pc[t] \in Body \ {"st_write"} /\ pc'[t] \in {"ab_undo", "ab_end"}
  /\ view'[t] = NewView
  /\ reg'[t].n = reg[t].n /\ reg'[t].i = Len(WSet(t))

\* A store: the old value is logged and the new one is written.
Logs(t, lock, version) ==
  LET a == Op(t).addr IN
  /\ Rest(t)
  /\ UNCHANGED <<clock, lock_table, committed>>
  /\ pc[t] \in {"store", "st_write"}
  /\ lock = IF pc[t] = "st_write" THEN L(t) ELSE NoLock
  /\ IF pc[t] = "st_write" THEN version = reg[t].lock_v.val ELSE OwnLock(t, lock_table[L(t)])
  /\ version \in Nat
  /\ mem' = [mem EXCEPT ![a] = Op(t).val]
  /\ tx'[t].w_set = Append(WSet(t), [addr |-> a, lock |-> lock, version |-> version, value |-> mem[a]])
  /\ tx'[t].r_set = tx[t].r_set /\ tx'[t].ts = tx[t].ts
  /\ reg'[t].n = reg[t].n
  /\ \/ /\ version <= tx[t].ts
        /\ pc'[t] \in Begun /\ view'[t] = view[t]
        /\ Past(t)' = Past(t) \cup {reg[t].k}
     \/ pc'[t] = "ab_undo" /\ view'[t] = NewView /\ reg'[t].i = Len(WSet(t)) + 1

\* A compare-and-swap that succeeds.
Wins(t) ==
  /\ Rest(t) /\ SameSets(t)
  /\ UNCHANGED <<clock, mem, reg, ghosts>>
  /\ pc[t] = "st_cas" /\ pc'[t] = "st_write"
  /\ lock_table[L(t)] = reg[t].lock_v /\ ~ Locked(reg[t].lock_v)
  /\ lock_table' = [lock_table EXCEPT ![L(t)] = Owned(t, Len(WSet(t)) + 1)]

\* The clock is incremented and the validation begins.
Draws(t) ==
  /\ Rest(t) /\ SameSets(t)
  /\ clock' = clock + 2
  /\ UNCHANGED <<lock_table, mem, ghosts>>
  /\ pc[t] = "cm_inc" /\ pc'[t] = "cm_check"
  /\ reg'[t].n = reg[t].n /\ reg'[t].i = 1 /\ reg'[t].commit_ts = clock + 2

Checks(t) ==
  /\ Rest(t) /\ SameSets(t)
  /\ UNCHANGED <<shared, ghosts>>
  /\ pc[t] = "cm_check" /\ pc'[t] = "cm_check"
  /\ Coherent(t, lock_table[tx[t].r_set[reg[t].i]])
  /\ reg'[t].n = reg[t].n /\ reg'[t].i = reg[t].i + 1 /\ reg'[t].commit_ts = reg[t].commit_ts

Decides(t, at) ==
  /\ Rest(t) /\ SameSets(t)
  /\ UNCHANGED <<lock_table, mem, view>>
  /\ Record(t, at)
  /\ pc'[t] = "cm_drop"
  /\ WSet(t) # <<>>
  /\ reg'[t].n = reg[t].n /\ reg'[t].i = 1 /\ reg'[t].commit_ts = at
  /\ \/ /\ pc[t] = "cm_inc" /\ clock' = clock + 2 /\ at = clock + 2
        /\ NoneSinceStart(t, clock + 2) \/ tx[t].r_set = <<>>
     \/ /\ pc[t] = "cm_check" /\ clock' = clock /\ at = reg[t].commit_ts
        /\ Coherent(t, lock_table[tx[t].r_set[reg[t].i]])
        /\ reg[t].i = Len(tx[t].r_set)

\* A transaction without writes commits.
Finishes(t) ==
  /\ Rest(t) /\ SameSets(t)
  /\ clock' = clock + 2
  /\ UNCHANGED <<lock_table, mem>>
  /\ Record(t, tx[t].ts + 1)
  /\ pc[t] = "cm_inc" /\ pc'[t] \in {"start", "done"}
  /\ WSet(t) = <<>>
  /\ reg'[t].n = reg[t].n + 1 /\ view'[t] = NewView

\* An entry of the log is undone.
Undoes(t) ==
  /\ Rest(t) /\ SameSets(t)
  /\ UNCHANGED <<clock, lock_table, ghosts>>
  /\ pc[t] = "ab_undo"
  /\ mem' = [mem EXCEPT ![WSet(t)[reg[t].i].addr] = WSet(t)[reg[t].i].value]
  /\ reg'[t].n = reg[t].n
  /\ IF reg[t].i > 1 THEN pc'[t] = "ab_undo" /\ reg'[t].i = reg[t].i - 1 ELSE pc'[t] = "ab_drop"

\* The lock of an entry is released, if it has one.
Drops(t, version) ==
  /\ Rest(t) /\ SameSets(t)
  /\ UNCHANGED <<clock, mem, ghosts>>
  /\ Release(t, reg[t].i, version)
  /\ \/ pc[t] = "cm_drop" /\ pc'[t] \in {"cm_drop", "cm_end"} /\ version = reg[t].commit_ts
     \/ pc[t] = "ab_drop" /\ pc'[t] \in {"ab_drop", "ab_end"} /\ version = WSet(t)[reg[t].i].version
  /\ reg'[t].n = reg[t].n /\ reg'[t].commit_ts = reg[t].commit_ts

Ends(t) ==
  /\ Rest(t) /\ SameSets(t)
  /\ UNCHANGED <<shared, committed>>
  /\ \/ pc[t] = "cm_end" /\ pc'[t] \in {"start", "done"} /\ reg'[t].n = reg[t].n + 1 /\ view'[t] = NewView
     \/ pc[t] = "ab_end" /\ pc'[t] = "start" /\ reg'[t].n = reg[t].n /\ view'[t] = view[t]

Kind(t) ==
  \/ Idles \/ Begins(t) \/ Runs(t) \/ Loads(t) \/ GivesUp(t)
  \/ \E lock \in Lock \cup {NoLock}, version \in Nat : Logs(t, lock, version)
  \/ Wins(t) \/ Draws(t) \/ Checks(t)
  \/ \E at \in Nat : Decides(t, at)
  \/ Finishes(t) \/ Undoes(t)
  \/ \E version \in Nat : Drops(t, version)
  \/ Ends(t)

------------------------------------------------------------------------------
(* Every step is of one of these kinds. *)

\* The next operation: one more is behind the tasklet.
LEMMA NextOpKind ==
  ASSUME IInv, NEW t \in Tasklet, pc[t] \in InLoad \cup InStore \cup {"alloc"}, NextOp(t), prog' = prog
  PROVE  /\ Moved(t)
         /\ pc'[t] \in Begun
         /\ reg'[t].n = reg[t].n
         /\ Past(t)' = Past(t) \cup {reg[t].k}
         /\ Tx(t)' = Tx(t)
         /\ pc[t] \notin InStore => \A a \in Addr : StoresOf(t, a)' = StoresOf(t, a)
<1>1. /\ pc[t] # "done" /\ Types /\ Control(t)
      /\ Tx(t).ops \in Seq(Operation)
      /\ reg[t].k \in DOMAIN Tx(t).ops
      /\ reg[t].k \in Nat \ {0} /\ reg[t].n \in Nat \ {0}
      /\ pc \in [Tasklet -> Labels] /\ reg \in [Tasklet -> RegType]
      /\ pc[t] \notin Committing
  BY Facts, TransactionType DEF Control, Types, RegType, InLoad, InStore, Committing
<1>2. Moved(t) /\ pc'[t] \in Begun
  BY <1>1, NextOpOK DEF Begun
<1>3. /\ pc' = [pc EXCEPT ![t] = Label(t, reg[t].k + 1)]
      /\ reg' = [reg EXCEPT ![t] = Fresh(reg[t].n, reg[t].k + 1)]
  BY DEF NextOp, Goto
<1>4. pc'[t] = Label(t, reg[t].k + 1) /\ reg'[t].n = reg[t].n /\ reg'[t].k = reg[t].k + 1
  BY <1>1, <1>3 DEF Fresh
<1>5. Tx(t)' = Tx(t)
  BY <1>4 DEF Tx
<1>6. pc'[t] \in Committing <=> reg[t].k + 1 \notin DOMAIN Tx(t).ops
  <2>1. \/ /\ reg[t].k + 1 \in DOMAIN Tx(t).ops
           /\ Label(t, reg[t].k + 1) \in {"load", "store", "alloc"}
        \/ reg[t].k + 1 \notin DOMAIN Tx(t).ops /\ Label(t, reg[t].k + 1) \in {"cm_wait", "cm_inc"}
    <3>1. reg[t].k + 1 \in DOMAIN Tx(t).ops => Tx(t).ops[reg[t].k + 1] \in Operation
      BY <1>1
    <3> QED  BY <3>1 DEF Label, Operation
  <2> QED  BY <1>4, <2>1 DEF Committing
<1>7. Past(t)' = Past(t) \cup {reg[t].k}
  <2>1. Past(t) = {k \in DOMAIN Tx(t).ops : k < reg[t].k}
    BY <1>1 DEF Past
  <2>2. Past(t)' = {k \in DOMAIN Tx(t).ops : reg[t].k + 1 \notin DOMAIN Tx(t).ops \/ k < reg[t].k + 1}
    BY <1>4, <1>5, <1>6 DEF Past
  <2>3. PICK n \in Nat : DOMAIN Tx(t).ops = 1 .. n
    BY <1>1
  <2> QED  BY <1>1, <2>1, <2>2, <2>3
<1>8. ASSUME pc[t] \notin InStore, NEW a \in Addr
      PROVE  StoresOf(t, a)' = StoresOf(t, a)
  <2>1. Tx(t).ops[reg[t].k].kind # "store"
    BY <1>1, <1>8 DEF Control, Op
  <2> QED  BY <1>5, <1>7, <2>1 DEF StoresOf
<1> QED  BY <1>2, <1>4, <1>5, <1>7, <1>8

\* A tasklet that changes neither its transaction nor its operation.
LEMMA SameOp ==
  ASSUME NEW t \in Tasklet, prog' = prog, reg'[t].n = reg[t].n, reg'[t].k = reg[t].k
  PROVE  /\ L(t)' = L(t) /\ Tx(t)' = Tx(t)
         /\ (pc'[t] \in Committing <=> pc[t] \in Committing) =>
              Past(t)' = Past(t) /\ \A a \in Addr : StoresOf(t, a)' = StoresOf(t, a)
BY DEF L, Op, Tx, Past, StoresOf

LEMMA GivesUpKind ==
  ASSUME IInv, NEW t \in Tasklet, pc[t] \in Body \ {"st_write"}, Abort(t, Len(WSet(t))),
         UNCHANGED <<shared, prog, tx, committed>>
  PROVE  GivesUp(t)
<1>1. pc[t] # "done" /\ WSet(t) \in Seq(WEntry) /\ Types /\ Control(t) /\ WSet(t) = tx[t].w_set
      /\ reg \in [Tasklet -> RegType] /\ view \in [Tasklet -> View]
  BY Facts DEF Body, Running
<1>2. /\ Moved(t) /\ pc'[t] = (IF Len(WSet(t)) = 0 THEN "ab_end" ELSE "ab_undo")
      /\ reg'[t].i = Len(WSet(t))
  BY <1>1, AbortOK
<1>3. reg'[t].n = reg[t].n /\ view' = [view EXCEPT ![t] = NewView]
  BY <1>1 DEF Abort, Fresh
<1> QED  BY <1>1, <1>2, <1>3 DEF GivesUp, Rest, SameSets

LEMMA IdlesKind == AssertFails => Idles
BY DEF AssertFails, Idles

LEMMA StartKind ==
  ASSUME IInv, NEW t \in Tasklet, Start(t)
  PROVE  Begins(t)
<1>1. /\ pc[t] = "start"
      /\ pc' = [pc EXCEPT ![t] = Label(t, 1)]
      /\ UNCHANGED <<shared, prog, reg, ghosts>>
      /\ tx' = [tx EXCEPT ![t] = [NewTx EXCEPT !.ts = clock, !.c_ts = 2 * Tx(t).ts]]
  BY DEF Start, Goto, At
<1>2. /\ Control(t) /\ Types /\ pc[t] # "done"
      /\ pc \in [Tasklet -> Labels] /\ tx \in [Tasklet -> TxType] /\ reg \in [Tasklet -> RegType]
      /\ Tx(t).ops \in Seq(Operation) /\ reg[t].k = 1
  BY <1>1, Facts, TransactionType DEF Control
<1>3. \/ 1 \in DOMAIN Tx(t).ops /\ Label(t, 1) \in {"load", "store", "alloc"}
      \/ 1 \notin DOMAIN Tx(t).ops /\ Label(t, 1) \in {"cm_wait", "cm_inc"}
  <2>1. 1 \in DOMAIN Tx(t).ops => Tx(t).ops[1] \in Operation
    BY <1>2
  <2> QED  BY <2>1 DEF Label, Operation
<1>4. pc'[t] = Label(t, 1) /\ pc'[t] \in Begun
  BY <1>1, <1>2, <1>3 DEF Begun
<1>5. pc'[t] \in Committing => DOMAIN Tx(t).ops = {}
  <2>1. PICK n \in Nat : DOMAIN Tx(t).ops = 1 .. n
    BY <1>2
  <2> QED  BY <1>3, <1>4, <2>1 DEF Committing
<1>6. Moved(t)
  BY <1>1, <1>2, <1>4 DEF Moved, Begun, Labels, Running
<1>7. /\ tx'[t].w_set = <<>> /\ tx'[t].r_set = <<>> /\ tx'[t].ts = clock
      /\ \A u \in Tasklet \ {t} : tx'[u] = tx[u]
  BY <1>1, <1>2 DEF NewTx
<1> QED  BY <1>1, <1>2, <1>4, <1>5, <1>6, <1>7 DEF Begins, Rest, SameSets, ghosts

LEMMA MallocKind ==
  ASSUME IInv, NEW t \in Tasklet, Malloc(t)
  PROVE  Idles \/ Runs(t)
<1>1. CASE AssertFails
  BY <1>1, IdlesKind
<1>2. CASE NextOp(t) /\ UNCHANGED <<shared, prog, tx, halted, ghosts>>
  <2>1. pc[t] = "alloc"
    BY DEF Malloc, At
  <2>2. /\ Moved(t) /\ pc'[t] \in Begun /\ reg'[t].n = reg[t].n
        /\ \A a \in Addr : StoresOf(t, a)' = StoresOf(t, a)
    BY <1>2, <2>1, NextOpKind DEF InStore
  <2> QED  BY <1>2, <2>1, <2>2 DEF Runs, Rest, SameSets, Begun, Body, Running, ghosts
<1> QED  BY <1>1, <1>2 DEF Malloc

LEMMA LoadLockKind ==
  ASSUME IInv, NEW t \in Tasklet, LoadLock(t)
  PROVE  Runs(t)
<1>1. /\ pc[t] = "load"
      /\ pc' = [pc EXCEPT ![t] = "ld_value"]
      /\ reg' = [reg EXCEPT ![t].lock_v = lock_table[L(t)]]
      /\ UNCHANGED <<shared, prog, tx, ghosts>>
      /\ reg \in [Tasklet -> RegType] /\ pc \in [Tasklet -> Labels]
  BY Facts DEF LoadLock, At, Goto
<1>2. lock_table[L(t)] \in LockWord
  BY <1>1, Facts, OperationType DEF InLoad, Types
<1>3. Moved(t)
  BY <1>1, <1>2 DEF Moved, RegType, Labels, Running
<1>4. /\ pc'[t] = "ld_value" /\ reg'[t].n = reg[t].n /\ reg'[t].k = reg[t].k
      /\ reg'[t].lock_v = lock_table[L(t)]
  BY <1>1 DEF RegType
<1>5. L(t)' = L(t) /\ \A a \in Addr : StoresOf(t, a)' = StoresOf(t, a)
  BY <1>1, <1>4, SameOp DEF Committing
<1> QED  BY <1>1, <1>3, <1>4, <1>5 DEF Runs, Rest, SameSets, Body, Running, ghosts

LEMMA LoadValueKind ==
  ASSUME IInv, NEW t \in Tasklet, LoadValue(t)
  PROVE  Runs(t) \/ GivesUp(t)
<1>1. /\ pc[t] = "ld_value"
      /\ UNCHANGED <<shared, prog, tx, committed>>
      /\ reg \in [Tasklet -> RegType] /\ pc \in [Tasklet -> Labels]
  BY Facts DEF LoadValue, At
<1>2. CASE Abort(t, Len(WSet(t)))
  BY <1>1, <1>2, GivesUpKind DEF Body, Running
<1>3. CASE /\ reg' = [reg EXCEPT ![t].value = mem[Op(t).addr]]
           /\ Goto(t, "ld_again")
           /\ UNCHANGED view
  <2>1. mem[Op(t).addr] \in Val
    BY <1>1, Facts, OperationType DEF InLoad, Types
  <2>2. Moved(t)
    BY <1>1, <1>3, <2>1 DEF Moved, RegType, Labels, Running, Goto
  <2>3. /\ pc'[t] = "ld_again" /\ reg'[t].n = reg[t].n /\ reg'[t].k = reg[t].k
        /\ reg'[t].lock_v = reg[t].lock_v
    BY <1>1, <1>3 DEF RegType, Goto
  <2>4. L(t)' = L(t) /\ \A a \in Addr : StoresOf(t, a)' = StoresOf(t, a)
    BY <1>1, <2>3, SameOp DEF Committing
  <2> QED  BY <1>1, <1>3, <2>2, <2>3, <2>4 DEF Runs, Rest, SameSets, Body, Running, ghosts
<1> QED  BY <1>2, <1>3 DEF LoadValue

LEMMA LoadDoneKind ==
  ASSUME IInv, NEW t \in Tasklet, LoadDone(t)
  PROVE  Loads(t)
<1> DEFINE a == Op(t).addr
<1>1. /\ pc[t] = "ld_again" /\ NextOp(t)
      /\ UNCHANGED <<shared, prog, committed>>
      /\ Unchanged(t) \/ OwnLock(t, reg[t].lock_v)
      /\ tx' = IF Unchanged(t) THEN [tx EXCEPT ![t].r_set = Append(@, L(t))] ELSE tx
      /\ tx \in [Tasklet -> TxType] /\ view \in [Tasklet -> View]
  BY Facts DEF LoadDone, At
<1>2. /\ Moved(t) /\ pc'[t] \in Begun /\ reg'[t].n = reg[t].n
      /\ \A b \in Addr : StoresOf(t, b)' = StoresOf(t, b)
  BY <1>1, NextOpKind DEF InLoad, InStore, shared
<1>3. /\ \A u \in Tasklet \ {t} : tx'[u] = tx[u]
      /\ tx'[t].w_set = tx[t].w_set /\ tx'[t].ts = tx[t].ts
      /\ tx'[t].r_set = IF Unchanged(t) THEN Append(tx[t].r_set, L(t)) ELSE tx[t].r_set
  BY <1>1 DEF TxType
<1>4. EntriesOf(t, a) # {} <=> \E j \in DOMAIN WSet(t) : WSet(t)[j].addr = a
  BY DEF EntriesOf
<1>5. view' = IF EntriesOf(t, a) # {} THEN view
              ELSE [view EXCEPT ![t] = [reads |-> @.reads \cup {<<a, reg[t].value>>},
                                        dirty |-> @.dirty \/ reg[t].value # mem[a]]]
  BY <1>4 DEF LoadDone, Sees
<1> QED  BY <1>1, <1>2, <1>3, <1>5 DEF Loads, Rest, SameSets

\* A conflict that the tasklet wins: the other one is told, and it tries again.
LEMMA TellsKind ==
  ASSUME IInv, NEW t \in Tasklet, NEW other \in Tasklet, NEW label \in {"load", "store"},
         pc[t] \in {"ld_again", "st_cm"}, Goto(t, label),
         tx' = [tx EXCEPT ![other].aborted = TRUE], reg' = [reg EXCEPT ![t] = Fresh(@.n, @.k)],
         UNCHANGED <<shared, prog, ghosts>>
  PROVE  Runs(t)
<1>1. /\ pc[t] # "done" /\ Types
      /\ reg \in [Tasklet -> RegType] /\ pc \in [Tasklet -> Labels]
  BY Facts
<1>2. /\ reg[t].n \in Nat \ {0} /\ reg[t].k \in Nat \ {0} /\ Fresh(reg[t].n, reg[t].k) \in RegType
  BY <1>1, FreshType DEF RegType
<1>3. \A u \in Tasklet : SameSets(u)
  BY <1>1 DEF SameSets, Types, TxType
<1>4. Moved(t)
  BY <1>1, <1>2 DEF Moved, Labels, Running, Goto
<1>5. pc'[t] = label /\ reg'[t].n = reg[t].n /\ reg'[t].k = reg[t].k
  BY <1>1 DEF Goto, Fresh
<1>6. \A a \in Addr : StoresOf(t, a)' = StoresOf(t, a)
  BY <1>5, SameOp DEF Committing
<1> QED  BY <1>3, <1>4, <1>5, <1>6 DEF Runs, Rest, Body, Running, ghosts

LEMMA LoadConflictKind ==
  ASSUME IInv, NEW t \in Tasklet, LoadConflict(t)
  PROVE  Runs(t) \/ GivesUp(t)
<1> DEFINE w == reg[t].lock_v
<1>1. /\ pc[t] = "ld_again" /\ UNCHANGED <<shared, prog, committed>> /\ w \in LockWord
  BY Facts DEF LoadConflict, At, RegType
<1>2. CASE /\ Locked(w)
           /\ tx' = [tx EXCEPT ![w.own].aborted = TRUE]
           /\ Goto(t, "load")
           /\ reg' = [reg EXCEPT ![t] = Fresh(@.n, @.k)]
           /\ UNCHANGED view
  BY <1>1, <1>2, Owner, TellsKind DEF ghosts
<1>3. CASE Abort(t, Len(WSet(t))) /\ UNCHANGED tx
  BY <1>1, <1>3, GivesUpKind DEF Body, Running
<1> QED  BY <1>2, <1>3 DEF LoadConflict

LEMMA StoreConflictKind ==
  ASSUME IInv, NEW t \in Tasklet, StoreConflict(t)
  PROVE  Runs(t) \/ GivesUp(t)
<1> DEFINE other == reg[t].lock_v.own
<1>1. /\ pc[t] = "st_cm" /\ UNCHANGED <<shared, prog, committed>> /\ other \in Tasklet
  BY Facts, Owner DEF StoreConflict, At, RegType, Control
<1>2. CASE /\ tx' = [tx EXCEPT ![other].aborted = TRUE]
           /\ Goto(t, "store")
           /\ reg' = [reg EXCEPT ![t] = Fresh(@.n, @.k)]
           /\ UNCHANGED view
  BY <1>1, <1>2, TellsKind DEF ghosts
<1>3. CASE Abort(t, Len(WSet(t))) /\ UNCHANGED tx
  BY <1>1, <1>3, GivesUpKind DEF Body, Running
<1> QED  BY <1>2, <1>3 DEF StoreConflict

LEMMA StoreLockKind ==
  ASSUME IInv, NEW t \in Tasklet, StoreLock(t)
  PROVE  Runs(t) \/ GivesUp(t)
<1> DEFINE w == lock_table[L(t)]
<1>1. /\ pc[t] = "store" /\ UNCHANGED <<shared, prog, tx, committed>>
      /\ reg \in [Tasklet -> RegType] /\ pc \in [Tasklet -> Labels]
  BY Facts DEF StoreLock, At
<1>2. CASE Abort(t, Len(WSet(t)))
  BY <1>1, <1>2, GivesUpKind DEF Body, Running
<1>3. CASE /\ reg' = [reg EXCEPT ![t].lock_v = w]
           /\ Goto(t, IF Locked(w) THEN "st_cm" ELSE "st_cas")
           /\ UNCHANGED view
  <2>1. w \in LockWord
    BY <1>1, Facts, OperationType DEF InStore, Types
  <2>2. Moved(t)
    BY <1>1, <1>3, <2>1 DEF Moved, RegType, Labels, Running, Goto
  <2>3. pc'[t] \in {"st_cm", "st_cas"} /\ reg'[t].n = reg[t].n /\ reg'[t].k = reg[t].k
    BY <1>1, <1>3 DEF RegType, Goto
  <2>4. \A a \in Addr : StoresOf(t, a)' = StoresOf(t, a)
    BY <1>1, <2>3, SameOp DEF Committing
  <2> QED  BY <1>1, <1>3, <2>2, <2>3, <2>4 DEF Runs, Rest, SameSets, Body, Running, ghosts
<1> QED  BY <1>2, <1>3 DEF StoreLock

LEMMA WriteThroughKind ==
  ASSUME IInv, NEW t \in Tasklet, pc[t] \in {"store", "st_write"}, lock_table' = lock_table,
         NEW lock, lock = IF pc[t] = "st_write" THEN L(t) ELSE NoLock,
         NEW version \in Nat, WriteThrough(t, lock, version),
         IF pc[t] = "st_write" THEN version = reg[t].lock_v.val ELSE OwnLock(t, lock_table[L(t)])
  PROVE  Logs(t, lock, version)
<1> DEFINE e == [addr |-> Op(t).addr, lock |-> lock, version |-> version, value |-> mem[Op(t).addr]]
<1>1. /\ pc[t] # "done" /\ pc[t] \in InStore /\ Types /\ Control(t)
      /\ WSet(t) = tx[t].w_set /\ Len(WSet(t)) \in Nat
      /\ tx \in [Tasklet -> TxType] /\ tx[t].ts \in Nat
      /\ reg \in [Tasklet -> RegType] /\ pc \in [Tasklet -> Labels] /\ view \in [Tasklet -> View]
      /\ prog' = prog /\ clock' = clock /\ committed' = committed
      /\ mem' = [mem EXCEPT ![Op(t).addr] = Op(t).val]
      /\ tx' = [tx EXCEPT ![t].w_set = Append(@, e)]
  BY Facts DEF WriteThrough, InStore, TxType
<1>2. /\ tx'[t].w_set = Append(WSet(t), e)
      /\ tx'[t].r_set = tx[t].r_set /\ tx'[t].ts = tx[t].ts
      /\ \A u \in Tasklet \ {t} : tx'[u] = tx[u]
  BY <1>1 DEF TxType
<1>3. CASE version > tx[t].ts
  <2>1. /\ Len(WSet(t)) + 1 \in Nat \ {0} /\ reg[t].n \in Nat \ {0}
        /\ pc' = [pc EXCEPT ![t] = IF Len(WSet(t)) + 1 = 0 THEN "ab_end" ELSE "ab_undo"]
        /\ reg' = [reg EXCEPT ![t] = [Fresh(reg[t].n, 1) EXCEPT !.i = Len(WSet(t)) + 1]]
        /\ view' = [view EXCEPT ![t] = NewView]
    BY <1>1, <1>3 DEF WriteThrough, Abort, Goto, RegType
  <2>2. [Fresh(reg[t].n, 1) EXCEPT !.i = Len(WSet(t)) + 1] \in RegType
    BY <2>1, LoopType
  <2>3. /\ pc' = [pc EXCEPT ![t] = "ab_undo"]
        /\ reg'[t].n = reg[t].n /\ reg'[t].i = Len(WSet(t)) + 1
    BY <1>1, <2>1 DEF Fresh
  <2>4. Moved(t)
    BY <1>1, <2>1, <2>2, <2>3 DEF Moved, Labels, Running
  <2> QED  BY <1>1, <1>2, <2>1, <2>3, <2>4 DEF Logs, Rest, SameSets
<1>4. CASE ~ (version > tx[t].ts)
  <2>1. NextOp(t) /\ view' = view /\ version <= tx[t].ts
    BY <1>1, <1>4 DEF WriteThrough
  <2>2. /\ Moved(t) /\ pc'[t] \in Begun /\ reg'[t].n = reg[t].n
        /\ Past(t)' = Past(t) \cup {reg[t].k}
    BY <1>1, <2>1, NextOpKind
  <2> QED  BY <1>1, <1>2, <2>1, <2>2 DEF Logs, Rest, SameSets
<1> QED  BY <1>3, <1>4

LEMMA StoreKind ==
  ASSUME IInv, NEW t \in Tasklet, StoreOwn(t) \/ StoreWrite(t)
  PROVE  \E lock \in Lock \cup {NoLock}, version \in Nat : Logs(t, lock, version)
<1>1. CASE StoreOwn(t)
  <2> DEFINE w == lock_table[L(t)]
  <2>1. /\ pc[t] = "store" /\ lock_table' = lock_table
        /\ WriteThrough(t, NoLock, WSet(t)[w.val].version)
        /\ OwnLock(t, w)
    BY <1>1 DEF StoreOwn, At
  <2>2. WSet(t)[w.val] \in WEntry
    BY <2>1, Facts DEF OwnLock
  <2>3. WSet(t)[w.val].version \in Nat
    BY <2>2 DEF WEntry
  <2>4. Logs(t, NoLock, WSet(t)[w.val].version)
    BY <2>1, <2>3, WriteThroughKind
  <2> QED  BY <2>3, <2>4
<1>2. CASE StoreWrite(t)
  <2>1. /\ pc[t] = "st_write" /\ lock_table' = lock_table
        /\ WriteThrough(t, L(t), reg[t].lock_v.val)
    BY <1>2 DEF StoreWrite, At
  <2>2. L(t) \in Lock /\ reg[t].lock_v.val \in Nat
    BY <2>1, Facts, OperationType DEF InStore, RegType, LockWord
  <2>3. Logs(t, L(t), reg[t].lock_v.val)
    BY <2>1, <2>2, WriteThroughKind
  <2> QED  BY <2>2, <2>3
<1> QED  BY <1>1, <1>2

LEMMA CasKind ==
  ASSUME IInv, NEW t \in Tasklet, Cas(t)
  PROVE  Wins(t) \/ Runs(t)
<1>1. /\ pc[t] = "st_cas" /\ ~ Locked(reg[t].lock_v)
      /\ UNCHANGED <<clock, mem, prog, tx, ghosts>>
      /\ reg \in [Tasklet -> RegType] /\ pc \in [Tasklet -> Labels]
  BY Facts DEF Cas, At, Control
<1>2. CASE /\ lock_table[L(t)] = reg[t].lock_v
           /\ lock_table' = [lock_table EXCEPT ![L(t)] = Owned(t, Len(WSet(t)) + 1)]
           /\ Goto(t, "st_write")
           /\ UNCHANGED reg
  <2>1. Moved(t) /\ pc'[t] = "st_write"
    BY <1>1, <1>2 DEF Moved, Labels, Running, Goto
  <2> QED  BY <1>1, <1>2, <2>1 DEF Wins, Rest, SameSets, ghosts
<1>3. CASE /\ Goto(t, "store")
           /\ reg' = [reg EXCEPT ![t] = Fresh(@.n, @.k)]
           /\ UNCHANGED lock_table
  <2>1. reg[t].n \in Nat \ {0} /\ reg[t].k \in Nat \ {0} /\ Fresh(reg[t].n, reg[t].k) \in RegType
    BY <1>1, FreshType DEF RegType
  <2>2. Moved(t)
    BY <1>1, <1>3, <2>1 DEF Moved, Labels, Running, Goto
  <2>3. pc'[t] = "store" /\ reg'[t].n = reg[t].n /\ reg'[t].k = reg[t].k
    BY <1>1, <1>3 DEF Goto, Fresh
  <2>4. \A a \in Addr : StoresOf(t, a)' = StoresOf(t, a)
    BY <1>1, <2>3, SameOp DEF Committing
  <2> QED  BY <1>1, <1>3, <2>2, <2>3, <2>4 DEF Runs, Rest, SameSets, Body, Running, shared, ghosts
<1> QED  BY <1>2, <1>3 DEF Cas

\* Waiting for its turn, a tasklet looks at the clock and at its flag.
LEMMA CommitWaitKind ==
  ASSUME IInv, NEW t \in Tasklet, CommitWait(t) \/ CommitFlag(t)
  PROVE  Runs(t) \/ GivesUp(t)
<1>1. /\ pc[t] \in {"cm_wait", "cm_flag"}
      /\ UNCHANGED <<shared, prog, tx, committed>>
      /\ reg \in [Tasklet -> RegType] /\ pc \in [Tasklet -> Labels]
  BY Facts DEF CommitWait, CommitFlag, At, ghosts
<1>2. CASE Abort(t, Len(WSet(t)))
  BY <1>1, <1>2, GivesUpKind DEF Body, Running
<1>3. CASE /\ \E label \in {"cm_wait", "cm_flag", "cm_inc"} : Goto(t, label)
           /\ UNCHANGED <<reg, view>>
  <2>1. Moved(t) /\ pc'[t] \in {"cm_wait", "cm_flag", "cm_inc"}
    BY <1>1, <1>3 DEF Moved, Labels, Running, Goto
  <2>2. \A a \in Addr : StoresOf(t, a)' = StoresOf(t, a)
    BY <1>1, <1>3, <2>1, SameOp DEF Committing
  <2> QED  BY <1>1, <1>3, <2>1, <2>2 DEF Runs, Rest, SameSets, Body, Running, ghosts
<1>4. CommitWait(t) => (\E label \in {"cm_flag", "cm_inc"} : Goto(t, label)) /\ UNCHANGED <<reg, view>>
  BY DEF CommitWait, ghosts
<1> QED  BY <1>2, <1>3, <1>4 DEF CommitFlag

LEMMA DecidesKind ==
  ASSUME IInv, NEW t \in Tasklet, pc[t] # "done", NEW at \in Nat, Decide(t, at), WSet(t) # <<>>,
         UNCHANGED <<prog, tx, view>>
  PROVE  /\ Rest(t) /\ SameSets(t)
         /\ pc'[t] = "cm_drop" /\ Record(t, at)
         /\ reg'[t].n = reg[t].n /\ reg'[t].i = 1 /\ reg'[t].commit_ts = at
<1>1. Moved(t) /\ pc'[t] = "cm_drop" /\ reg'[t].i = 1
  BY Facts, DecideOK
<1>2. reg'[t].n = reg[t].n /\ reg'[t].commit_ts = at
  BY Facts DEF Decide, Fresh
<1> QED  BY <1>1, <1>2 DEF Rest, SameSets, Decide

LEMMA CommitIncKind ==
  ASSUME IInv, NEW t \in Tasklet, CommitInc(t)
  PROVE  Finishes(t) \/ Draws(t) \/ \E at \in Nat : Decides(t, at)
<1>1. /\ pc[t] = "cm_inc" /\ Types /\ Control(t)
      /\ clock' = clock + 2 /\ clock + 2 \in Nat
      /\ UNCHANGED <<lock_table, mem, prog, tx>>
      /\ reg \in [Tasklet -> RegType] /\ pc \in [Tasklet -> Labels] /\ view \in [Tasklet -> View]
  BY Facts DEF CommitInc, At
<1>2. CASE WSet(t) = <<>> /\ Record(t, tx[t].ts + 1) /\ NextTx(t)
  <2>1. Moved(t) /\ pc'[t] \in {"start", "done"}
    BY <1>1, <1>2, NextTxOK
  <2>2. reg'[t].n = reg[t].n + 1 /\ view' = [view EXCEPT ![t] = NewView]
    BY <1>1, <1>2 DEF NextTx, Fresh
  <2> QED  BY <1>1, <1>2, <2>1, <2>2 DEF Finishes, Rest, SameSets
<1>3. CASE /\ WSet(t) # <<>> /\ Decide(t, clock + 2) /\ UNCHANGED view
           /\ NoneSinceStart(t, clock + 2) \/ tx[t].r_set = <<>>
  <2>1. Decides(t, clock + 2)
    BY <1>1, <1>3, DecidesKind DEF Decides
  <2> QED  BY <1>1, <2>1
<1>4. CASE /\ Goto(t, "cm_check")
           /\ reg' = [reg EXCEPT ![t] = [Fresh(@.n, 1) EXCEPT !.i = 1, !.commit_ts = clock + 2]]
           /\ UNCHANGED ghosts
  <2>1. [Fresh(reg[t].n, 1) EXCEPT !.i = 1, !.commit_ts = clock + 2] \in RegType
    <3>1. reg[t].n \in Nat \ {0}
      BY <1>1 DEF RegType
    <3> QED  BY <1>1, <3>1, LoopType
  <2>2. Moved(t)
    BY <1>1, <1>4, <2>1 DEF Moved, Labels, Running, Goto
  <2>3. /\ pc'[t] = "cm_check" /\ reg'[t].n = reg[t].n /\ reg'[t].i = 1
        /\ reg'[t].commit_ts = clock + 2
    BY <1>1, <1>4 DEF Goto, Fresh
  <2> QED  BY <1>1, <1>4, <2>2, <2>3 DEF Draws, Rest, SameSets, ghosts
<1> QED  BY <1>2, <1>3, <1>4 DEF CommitInc

LEMMA CommitCheckKind ==
  ASSUME IInv, NEW t \in Tasklet, CommitCheck(t)
  PROVE  GivesUp(t) \/ Checks(t) \/ \E at \in Nat : Decides(t, at)
<1>1. /\ pc[t] = "cm_check" /\ Types /\ Control(t)
      /\ UNCHANGED <<shared, prog, tx>>
      /\ reg \in [Tasklet -> RegType] /\ pc \in [Tasklet -> Labels]
      /\ reg[t].commit_ts \in Nat /\ reg[t].i \in Nat
  BY Facts DEF CommitCheck, At, RegType
<1>2. CASE Abort(t, Len(WSet(t))) /\ UNCHANGED committed
  BY <1>1, <1>2, GivesUpKind DEF Body, Running
<1>3. CASE /\ Coherent(t, lock_table[tx[t].r_set[reg[t].i]])
           /\ reg' = [reg EXCEPT ![t].i = reg[t].i + 1]
           /\ UNCHANGED <<pc, ghosts>>
  <2>1. reg[t].i + 1 \in Nat
    BY <1>1
  <2>2. /\ Moved(t) /\ reg'[t].i = reg[t].i + 1 /\ reg'[t].n = reg[t].n
        /\ reg'[t].commit_ts = reg[t].commit_ts
    BY <1>1, <1>3, <2>1, CountType DEF Moved, RegType
  <2> QED  BY <1>1, <1>3, <2>2 DEF Checks, Rest, SameSets, ghosts
<1>4. CASE /\ Coherent(t, lock_table[tx[t].r_set[reg[t].i]]) /\ reg[t].i = Len(tx[t].r_set)
           /\ Decide(t, reg[t].commit_ts) /\ UNCHANGED view
  <2>1. WSet(t) # <<>>
    BY <1>1 DEF Control
  <2>2. Decides(t, reg[t].commit_ts)
    BY <1>1, <1>4, <2>1, DecidesKind DEF Decides, shared
  <2> QED  BY <1>1, <2>2
<1> QED  BY <1>2, <1>3, <1>4 DEF CommitCheck

LEMMA ReleaseKind ==
  ASSUME IInv, NEW t \in Tasklet, NEW version \in Nat, NEW last \in {"cm_end", "ab_end"},
         \/ pc[t] = "cm_drop" /\ last = "cm_end" /\ version = reg[t].commit_ts
         \/ pc[t] = "ab_drop" /\ last = "ab_end" /\ version = WSet(t)[reg[t].i].version,
         Release(t, reg[t].i, version), ReleaseLoop(t, last)
  PROVE  Drops(t, version)
<1>1. /\ pc' = [pc EXCEPT ![t] = IF reg[t].i < Len(WSet(t)) THEN pc[t] ELSE last]
      /\ reg' = [reg EXCEPT ![t].i = reg[t].i + 1]
      /\ UNCHANGED <<clock, mem, prog, tx, ghosts>>
      /\ pc[t] # "done"
  BY DEF ReleaseLoop, Goto
<1>2. /\ reg[t].i + 1 \in Nat
      /\ reg \in [Tasklet -> RegType] /\ pc \in [Tasklet -> Labels]
  BY <1>1, Facts DEF RegType
<1>3. pc'[t] \in {pc[t], last} /\ pc'[t] \in Labels
  BY <1>1, <1>2 DEF Labels
<1>4. /\ Moved(t) /\ reg'[t].n = reg[t].n /\ reg'[t].commit_ts = reg[t].commit_ts
  BY <1>1, <1>2, <1>3, CountType DEF Moved, RegType
<1> QED  BY <1>1, <1>3, <1>4 DEF Drops, Rest, SameSets, ghosts

LEMMA DropKind ==
  ASSUME IInv, NEW t \in Tasklet, CommitDrop(t) \/ AbortDrop(t)
  PROVE  \E version \in Nat : Drops(t, version)
<1>1. CASE CommitDrop(t)
  <2>1. reg[t].commit_ts \in Nat
    BY <1>1, Facts DEF RegType, CommitDrop, At
  <2>2. Drops(t, reg[t].commit_ts)
    BY <1>1, <2>1, ReleaseKind DEF CommitDrop, At
  <2> QED  BY <2>1, <2>2
<1>2. CASE AbortDrop(t)
  <2>1. WSet(t)[reg[t].i] \in WEntry
    BY <1>2, Facts DEF Control, Releasing, AbortDrop, At
  <2>2. WSet(t)[reg[t].i].version \in Nat
    BY <2>1 DEF WEntry
  <2>3. Drops(t, WSet(t)[reg[t].i].version)
    BY <1>2, <2>2, ReleaseKind DEF AbortDrop, At
  <2> QED  BY <2>2, <2>3
<1> QED  BY <1>1, <1>2

LEMMA EndKind ==
  ASSUME IInv, NEW t \in Tasklet, CommitEnd(t) \/ AbortEnd(t)
  PROVE  Ends(t)
<1>1. CASE CommitEnd(t)
  <2>1. /\ pc[t] = "cm_end" /\ NextTx(t)
        /\ UNCHANGED <<shared, prog, tx, committed>>
        /\ reg \in [Tasklet -> RegType] /\ view \in [Tasklet -> View]
    BY <1>1, Facts DEF CommitEnd, At
  <2>2. Moved(t) /\ pc'[t] \in {"start", "done"}
    BY <2>1, Facts, NextTxOK
  <2>3. reg'[t].n = reg[t].n + 1 /\ view' = [view EXCEPT ![t] = NewView]
    BY <2>1 DEF NextTx, Fresh
  <2> QED  BY <2>1, <2>2, <2>3 DEF Ends, Rest, SameSets
<1>2. CASE AbortEnd(t)
  <2>1. /\ pc[t] = "ab_end"
        /\ pc' = [pc EXCEPT ![t] = "start"]
        /\ reg' = [reg EXCEPT ![t] = Fresh(reg[t].n, 1)]
        /\ UNCHANGED <<shared, prog, tx, ghosts>>
        /\ reg \in [Tasklet -> RegType] /\ pc \in [Tasklet -> Labels]
    BY <1>2, Facts DEF AbortEnd, At, Goto
  <2>2. Fresh(reg[t].n, 1) \in RegType
    BY <2>1, FreshType DEF RegType
  <2>3. Moved(t) /\ pc'[t] = "start" /\ reg'[t].n = reg[t].n
    BY <2>1, <2>2 DEF Moved, Labels, Fresh
  <2> QED  BY <2>1, <2>3 DEF Ends, Rest, SameSets, ghosts
<1> QED  BY <1>1, <1>2

LEMMA AbortUndoKind ==
  ASSUME IInv, NEW t \in Tasklet, AbortUndo(t)
  PROVE  Undoes(t)
<1> DEFINE w == WSet(t)[reg[t].i]
           next == IF reg[t].i > 1 THEN reg[t].i - 1 ELSE 1
           label == IF reg[t].i > 1 THEN "ab_undo" ELSE "ab_drop"
<1>1. /\ pc[t] = "ab_undo"
      /\ mem' = [mem EXCEPT ![w.addr] = w.value]
      /\ pc' = [pc EXCEPT ![t] = label]
      /\ reg' = [reg EXCEPT ![t].i = next]
      /\ UNCHANGED <<clock, lock_table, prog, tx, ghosts>>
  BY DEF AbortUndo, At, Goto, UndoesMore
<1>2. /\ reg[t].i \in Nat /\ next \in Nat /\ label \in Labels
      /\ reg \in [Tasklet -> RegType] /\ pc \in [Tasklet -> Labels]
  BY <1>1, Facts DEF RegType, Labels, Running, Releasing
<1>3. Moved(t) /\ pc'[t] = label /\ reg'[t].i = next /\ reg'[t].n = reg[t].n
  BY <1>1, <1>2, CountType DEF Moved, RegType
<1> QED  BY <1>1, <1>3 DEF Undoes, Rest, SameSets, ghosts

LEMMA StepKind ==
  ASSUME IInv, NEW t \in Tasklet, Step(t)
  PROVE  Kind(t)
<1>1. CASE Start(t) \/ Malloc(t)
  BY <1>1, StartKind, MallocKind DEF Kind
<1>2. CASE Load(t)
  BY <1>2, LoadLockKind, LoadValueKind, LoadDoneKind, LoadConflictKind, IdlesKind
     DEF Load, ReadSetFull, Kind
<1>3. CASE Store(t)
  BY <1>3, StoreKind, StoreLockKind, StoreConflictKind, CasKind, IdlesKind
     DEF Store, WriteSetFull, Kind
<1>4. CASE Commit(t)
  BY <1>4, CommitWaitKind, CommitIncKind, CommitCheckKind, DropKind, EndKind DEF Commit, Kind
<1>5. CASE Undo(t)
  BY <1>5, AbortUndoKind, DropKind, EndKind DEF Undo, Kind
<1> QED  BY <1>1, <1>2, <1>3, <1>4, <1>5 DEF Step

------------------------------------------------------------------------------
(* The invariant: what the log of a transaction says of its stores, of its  *)
(* time stamps and of the memory under its locks.                           *)

\* The word of every entry is under a lock that an entry has taken.
Covered(t) ==
  \A j \in DOMAIN WSet(t) :
    \E i \in DOMAIN WSet(t) : WSet(t)[i].lock = LOCK_ADDR[WSet(t)[j].addr]

\* There are entries for the words stored to, and memory has the last store.
Logged(t) ==
  Active(t) =>
    \A a \in Addr :
      /\ EntriesOf(t, a) # {} <=> StoresOf(t, a) # {}
      /\ StoresOf(t, a) # {} /\ OwnerOf(a) = t => mem[a] = Tx(t).ops[Max(StoresOf(t, a))].val

\* Nothing the transaction has overwritten is newer than its start, and its
\* own time stamp is newer.
Timely(t) ==
  /\ tx[t].ts <= clock
  /\ Active(t) => \A j \in DOMAIN WSet(t) : WSet(t)[j].version <= tx[t].ts
  /\ pc[t] \in {"cm_check", "cm_drop"} => tx[t].ts < reg[t].commit_ts /\ reg[t].commit_ts <= clock

\* The entries for word a that an abort has undone so far, and their effect.
UndoneOf(t, a) == {j \in EntriesOf(t, a) : pc[t] = "ab_drop" \/ j > reg[t].i}

Undone(t) ==
  pc[t] \in {"ab_undo", "ab_drop"} =>
    \A a \in Addr : OwnerOf(a) = t /\ UndoneOf(t, a) # {} =>
      mem[a] = WSet(t)[Min(UndoneOf(t, a))].value

LogOK(t) == Covered(t) /\ Logged(t) /\ Timely(t) /\ Undone(t)

LogsOK == \A t \in Tasklet : LogOK(t)

\* What is known of a lock that tasklet t has.
LEMMA Owns ==
  ASSUME IInv, NEW t \in Tasklet, NEW l \in Lock, lock_table[l].own = t
  PROVE  LET j == lock_table[l].val IN
         /\ lock_table[l] = Owned(t, j)
         /\ j \in 1 .. Len(WSet(t)) + 1
         /\ pc[t] \in Running \cup Releasing
         /\ \/ j \in DOMAIN WSet(t) /\ WSet(t)[j].lock = l /\ j \in Holds(t)
            \/ pc[t] = "st_write" /\ L(t) = l /\ j = Len(WSet(t)) + 1 /\ j \notin DOMAIN WSet(t)
<1> DEFINE j == lock_table[l].val
<1>1. j \in 1 .. Len(WSet(t)) + 1
  BY DEF IInv, LocksMatchWriteSets
<1>2. lock_table[l] = Owned(t, j)
  BY DEF IInv, Types, LockWord, Owned
<1>3. Takes(t, j, l)
  BY <1>1, <1>2 DEF IInv, LocksMatchWriteSets
<1>4. WSet(t) \in Seq(WEntry)
  BY DEF IInv, Types, TxType, WSet
<1> QED  BY <1>1, <1>2, <1>3, <1>4 DEF Takes, Holds, Running, Releasing

LEMMA Has ==
  ASSUME IInv, NEW t \in Tasklet, NEW j \in Holds(t)
  PROVE  WSet(t)[j].lock \in Lock /\ lock_table[WSet(t)[j].lock] = Owned(t, j)
<1>1. WSet(t) \in Seq(WEntry) /\ j \in DOMAIN WSet(t)
  BY DEF IInv, Types, TxType, WSet, Holds
<1>2. WSet(t)[j] \in WEntry /\ j \in 1 .. Len(WSet(t)) + 1
  BY <1>1
<1>3. WSet(t)[j].lock \in Lock
  BY <1>2 DEF WEntry, Holds
<1>4. Takes(t, j, WSet(t)[j].lock)
  BY DEF Takes
<1> QED  BY <1>2, <1>3, <1>4 DEF IInv, LocksMatchWriteSets

\* A tasklet that has taken a lock and not written yet.
LEMMA JustWon ==
  ASSUME IInv, NEW t \in Tasklet, pc[t] = "st_write"
  PROVE  /\ lock_table[L(t)] = Owned(t, Len(WSet(t)) + 1)
         /\ L(t) \in Lock /\ Op(t).addr \in Addr /\ L(t) = LOCK_ADDR[Op(t).addr]
<1>1. L(t) \in Lock /\ Op(t).addr \in Addr
  BY Facts, OperationType DEF InStore
<1>2. Len(WSet(t)) \in Nat
  BY Facts
<1>3. Takes(t, Len(WSet(t)) + 1, L(t))
  BY DEF Takes
<1>4. Len(WSet(t)) + 1 \in 1 .. Len(WSet(t)) + 1
  BY <1>2
<1> QED  BY <1>1, <1>3, <1>4 DEF IInv, LocksMatchWriteSets, L

\* Until it releases one, a transaction has the locks of all the words it logged.
LEMMA OwnsLogged ==
  ASSUME IInv, NEW t \in Tasklet, Covered(t), NEW j \in DOMAIN WSet(t),
         pc[t] \in Running
  PROVE  OwnerOf(WSet(t)[j].addr) = t /\ WSet(t)[j].addr \in Addr
<1>1. WSet(t) \in Seq(WEntry)
  BY DEF IInv, Types, TxType, WSet
<1>2. WSet(t)[j].addr \in Addr
  <2>1. WSet(t)[j] \in WEntry
    BY <1>1
  <2> QED  BY <2>1 DEF WEntry
<1>3. PICK i \in DOMAIN WSet(t) : WSet(t)[i].lock = LOCK_ADDR[WSet(t)[j].addr]
  BY DEF Covered
<1>4. i \in Holds(t)
  BY <1>2, <1>3, TMAssumption DEF Holds
<1>5. lock_table[LOCK_ADDR[WSet(t)[j].addr]] = Owned(t, i)
  BY <1>3, <1>4, Has
<1> QED  BY <1>2, <1>5 DEF OwnerOf, Owned

\* A tasklet that runs no transaction has no lock.
LEMMA OwnsNothing ==
  ASSUME IInv, NEW t \in Tasklet, pc[t] \notin Running \cup Releasing
  PROVE  \A a \in Addr : OwnerOf(a) # t
<1> SUFFICES ASSUME NEW a \in Addr, OwnerOf(a) = t
             PROVE  FALSE
  OBVIOUS
<1>1. LOCK_ADDR[a] \in Lock
  BY TMAssumption
<1> QED  BY <1>1, Owns DEF OwnerOf

LEMMA OwnerType ==
  ASSUME IInv, NEW a \in Addr
  PROVE  /\ LOCK_ADDR[a] \in Lock
         /\ OwnerOf(a) \in Tasklet \cup {NoTx}
         /\ Locked(lock_table[LOCK_ADDR[a]]) <=> OwnerOf(a) \in Tasklet
         /\ NoTx \notin Tasklet
<1>1. LOCK_ADDR[a] \in Lock
  BY TMAssumption
<1>2. NoTx \notin Tasklet
  BY AllocAssumption DEF NoTx, Tasklet
<1> QED  BY <1>1, <1>2 DEF IInv, Types, LockWord, OwnerOf, Locked

LEMMA EntriesType ==
  ASSUME IInv, NEW t \in Tasklet
  PROVE  /\ WSet(t) \in Seq(WEntry) /\ Len(WSet(t)) \in Nat /\ DOMAIN WSet(t) = 1 .. Len(WSet(t))
         /\ \A j \in DOMAIN WSet(t) : WSet(t)[j] \in WEntry
         /\ \A a \in Addr : EntriesOf(t, a) \subseteq Nat /\ EntriesOf(t, a) \subseteq DOMAIN WSet(t)
<1>1. WSet(t) \in Seq(WEntry) 
  BY DEF IInv, Types, TxType, WSet
<1> QED  BY <1>1 DEF EntriesOf

------------------------------------------------------------------------------
(* What a step of tasklet t may do to words and locks: only to its own.     *)
Local(t) ==
  /\ clock <= clock' /\ clock' \in Nat
  /\ \A l \in Lock : \/ lock_table'[l] = lock_table[l]
                     \/ lock_table[l].own \in {t, NoTx} /\ lock_table'[l].own \in {t, NoTx}
  /\ \A a \in Addr : mem'[a] = mem[a] \/ (OwnerOf(a) = t /\ OwnerOf(a)' = t)

LEMMA OthersKept ==
  ASSUME IInv, NEW t \in Tasklet, NEW u \in Tasklet \ {t}, LogOK(u), Rest(t), Local(t)
  PROVE  LogOK(u)'
<1>1. /\ prog' = prog /\ pc'[u] = pc[u] /\ reg'[u] = reg[u]
      /\ WSet(u)' = WSet(u) /\ tx'[u].ts = tx[u].ts /\ tx[u].ts \in Nat
      /\ reg[u].commit_ts \in Nat
      /\ clock \in Nat /\ clock' \in Nat /\ clock <= clock'
  BY DEF Rest, Moved, SameSets, WSet, Local, IInv, Types, TxType, RegType
<1>2. \A a \in Addr : EntriesOf(u, a)' = EntriesOf(u, a) /\ StoresOf(u, a)' = StoresOf(u, a)
  BY <1>1 DEF EntriesOf, StoresOf, Past, Tx
<1>3. ASSUME NEW a \in Addr, OwnerOf(a)' = u
      PROVE  OwnerOf(a) = u /\ mem'[a] = mem[a]
  BY <1>3, OwnerType DEF Local, OwnerOf
<1>4. Covered(u)'
  BY <1>1 DEF LogOK, Covered
<1>5. Logged(u)'
  <2>1. Tx(u)' = Tx(u) /\ Active(u)' = Active(u)
    BY <1>1 DEF Tx, Active
  <2> QED  BY <1>2, <1>3, <2>1 DEF LogOK, Logged
<1>6. Timely(u)'
  BY <1>1 DEF LogOK, Timely, Active
<1>7. Undone(u)'
  <2>1. \A a \in Addr : UndoneOf(u, a)' = UndoneOf(u, a)
    BY <1>1, <1>2 DEF UndoneOf
  <2> QED  BY <1>1, <1>3, <2>1 DEF LogOK, Undone
<1> QED  BY <1>4, <1>5, <1>6, <1>7 DEF LogOK

\* The committed value of a word in terms of its owner.
LEMMA CommittedValIs ==
  ASSUME IInv, NEW a \in Addr
  PROVE  /\ OwnerOf(a) \notin Tasklet => CommittedVal(a) = mem[a]
         /\ \A t \in Tasklet : OwnerOf(a) = t =>
              CommittedVal(a) = IF Decided(t) \/ EntriesOf(t, a) = {} THEN mem[a]
                                ELSE WSet(t)[Min(EntriesOf(t, a))].value
BY OwnerType DEF CommittedVal, OwnerOf, EntriesOf

LEMMA CommittedValNext ==
  ASSUME IInv', NEW a \in Addr
  PROVE  /\ OwnerOf(a)' \notin Tasklet => CommittedVal(a)' = mem'[a]
         /\ \A t \in Tasklet : OwnerOf(a)' = t =>
              CommittedVal(a)' = IF Decided(t)' \/ EntriesOf(t, a)' = {} THEN mem'[a]
                                 ELSE WSet(t)'[Min(EntriesOf(t, a)')].value
<1>1. /\ LOCK_ADDR[a] \in Lock
      /\ OwnerOf(a)' \in Tasklet \cup {NoTx}
      /\ Locked(lock_table'[LOCK_ADDR[a]]) <=> OwnerOf(a)' \in Tasklet
      /\ NoTx \notin Tasklet
  <2>1. LOCK_ADDR[a] \in Lock
    BY TMAssumption
  <2>2. NoTx \notin Tasklet
    BY AllocAssumption DEF NoTx, Tasklet
  <2> QED  BY <2>1, <2>2 DEF IInv, Types, LockWord, OwnerOf, Locked
<1> QED  BY <1>1 DEF CommittedVal, OwnerOf, EntriesOf

\* Words and locks that t has neither before nor after the step.
LEMMA WordOfOthers ==
  ASSUME IInv, IInv', NEW t \in Tasklet, Rest(t), Local(t), NEW a \in Addr,
         OwnerOf(a) # t, OwnerOf(a)' # t
  PROVE  CommittedVal(a)' = CommittedVal(a)
<1>1. /\ LOCK_ADDR[a] \in Lock /\ NoTx \notin Tasklet
      /\ OwnerOf(a) \in Tasklet \cup {NoTx}
      /\ mem'[a] = mem[a]
  BY OwnerType DEF Local
<1>2. OwnerOf(a)' = OwnerOf(a)
  BY <1>1 DEF Local, OwnerOf
<1>3. CASE OwnerOf(a) = NoTx
  BY <1>1, <1>2, <1>3, CommittedValIs, CommittedValNext
<1>4. CASE OwnerOf(a) \in Tasklet \ {t}
  <2>1. PICK u \in Tasklet \ {t} : OwnerOf(a) = u /\ OwnerOf(a)' = u
    BY <1>2, <1>4
  <2>2. WSet(u)' = WSet(u) /\ Decided(u)' = Decided(u)
    BY DEF Rest, Moved, SameSets, WSet, Decided
  <2>3. EntriesOf(u, a)' = EntriesOf(u, a)
    BY <2>2 DEF EntriesOf
  <2>4. CommittedVal(a) = IF Decided(u) \/ EntriesOf(u, a) = {} THEN mem[a]
                          ELSE WSet(u)[Min(EntriesOf(u, a))].value
    BY <2>1, CommittedValIs
  <2>5. CommittedVal(a)' = IF Decided(u)' \/ EntriesOf(u, a)' = {} THEN mem'[a]
                           ELSE WSet(u)'[Min(EntriesOf(u, a)')].value
    BY <2>1, CommittedValNext
  <2> QED  BY <1>1, <2>2, <2>3, <2>4, <2>5
<1> QED  BY <1>1, <1>3, <1>4

\* A word of t's, when the step changes neither the word nor its log.
LEMMA WordSame ==
  ASSUME IInv, IInv', NEW t \in Tasklet, NEW a \in Addr, OwnerOf(a) = t, OwnerOf(a)' = t,
         mem'[a] = mem[a], WSet(t)' = WSet(t), Decided(t)' = Decided(t)
  PROVE  CommittedVal(a)' = CommittedVal(a)
<1>1. EntriesOf(t, a)' = EntriesOf(t, a)
  BY DEF EntriesOf
<1>2. CommittedVal(a) = IF Decided(t) \/ EntriesOf(t, a) = {} THEN mem[a]
                        ELSE WSet(t)[Min(EntriesOf(t, a))].value
  BY CommittedValIs
<1>3. CommittedVal(a)' = IF Decided(t)' \/ EntriesOf(t, a)' = {} THEN mem'[a]
                         ELSE WSet(t)'[Min(EntriesOf(t, a)')].value
  BY CommittedValNext
<1> QED  BY <1>1, <1>2, <1>3

LEMMA VersionOfOthers ==
  ASSUME IInv, NEW t \in Tasklet, Rest(t), NEW l \in Lock,
         lock_table'[l] = lock_table[l], lock_table[l].own # t
  PROVE  Version(l)' = Version(l)
<1>1. lock_table[l] \in LockWord /\ NoTx \notin Tasklet
  BY AllocAssumption DEF IInv, Types, NoTx, Tasklet
<1>2. CASE ~ Locked(lock_table[l])
  BY <1>2 DEF Version
<1>3. CASE Locked(lock_table[l])
  <2> DEFINE u == lock_table[l].own
  <2>1. u \in Tasklet \ {t}
    BY <1>1, <1>3 DEF LockWord, Locked
  <2>2. WSet(u)' = WSet(u) /\ reg'[u] = reg[u]
    BY <2>1 DEF Rest, Moved, SameSets, WSet
  <2> QED  BY <2>2 DEF Version
<1> QED  BY <1>2, <1>3

\* A lock of t's, when the step does not change what t logged about it.
LEMMA VersionSame ==
  ASSUME IInv, NEW t \in Tasklet, NEW l \in Lock, lock_table[l].own = t,
         lock_table'[l] = lock_table[l], pc[t] # "st_write",
         \A j \in DOMAIN WSet(t) : j \in DOMAIN WSet(t)' /\ WSet(t)'[j] = WSet(t)[j]
  PROVE  Version(l)' = Version(l)
<1>1. lock_table[l].val \in DOMAIN WSet(t)
  BY Owns
<1>2. Locked(lock_table[l])
  BY AllocAssumption DEF Locked, NoTx, Tasklet
<1> QED  BY <1>1, <1>2 DEF Version

\* What most steps leave as it is.
Steady ==
  /\ \A a \in Addr : CommittedVal(a)' = CommittedVal(a)
  /\ \A l \in Lock : Version(l)' = Version(l)

CountSame == \A u \in Tasklet : CommittedCount(u)' = CommittedCount(u)

LEMMA CountKept ==
  ASSUME IInv, NEW t \in Tasklet, Rest(t), reg'[t].n = reg[t].n, Decided(t)' = Decided(t)
  PROVE  CountSame
BY DEF CountSame, CommittedCount, Decided, Rest, Moved

\* A step that touches neither the locks, the memory nor a log.
LEMMA SteadyIf ==
  ASSUME IInv, IInv', NEW t \in Tasklet, Rest(t), Local(t), mem' = mem, lock_table' = lock_table,
         tx'[t].w_set = tx[t].w_set, pc[t] # "st_write",
         Decided(t)' = Decided(t) \/ pc[t] \notin Running \cup Releasing
  PROVE  Steady
<1>1. WSet(t)' = WSet(t) /\ \A a \in Addr : OwnerOf(a)' = OwnerOf(a)
  BY DEF WSet, OwnerOf
<1>2. ASSUME NEW a \in Addr
      PROVE  CommittedVal(a)' = CommittedVal(a)
  <2>1. CASE OwnerOf(a) # t
    BY <1>1, <2>1, WordOfOthers
  <2>2. CASE OwnerOf(a) = t
    BY <1>1, <2>2, WordSame, OwnsNothing
  <2> QED  BY <2>1, <2>2
<1>3. ASSUME NEW l \in Lock
      PROVE  Version(l)' = Version(l)
  BY <1>1, VersionOfOthers, VersionSame
<1> QED  BY <1>2, <1>3 DEF Steady

\* The logs of all tasklets, from that of the one that moves.
LEMMA LogsStep ==
  ASSUME IInv, LogsOK, NEW t \in Tasklet, Rest(t), Local(t), LogOK(t)'
  PROVE  LogsOK'
BY OthersKept DEF LogsOK

------------------------------------------------------------------------------
(* Each kind of step keeps the logs as they should be. *)

\* A tasklet that commits has all its operations behind it.
LEMMA AllPast ==
  ASSUME NEW t \in Tasklet, prog' = prog, reg'[t].n = reg[t].n,
         pc[t] \in Committing, pc'[t] \in Committing
  PROVE  \A a \in Addr : StoresOf(t, a)' = StoresOf(t, a)
BY DEF StoresOf, Past, Tx

\* A transaction that goes on, or is decided, without a store.
LEMMA StaysLocal ==
  ASSUME IInv, IInv', LogsOK, NEW t \in Tasklet, Rest(t), lock_table' = lock_table, mem' = mem,
         clock <= clock', tx'[t].w_set = tx[t].w_set, tx'[t].ts = tx[t].ts,
         reg'[t].n = reg[t].n, pc[t] \in Body, pc'[t] \in Body \cup {"cm_drop"},
         \A a \in Addr : StoresOf(t, a)' = StoresOf(t, a),
         pc'[t] \in {"cm_check", "cm_drop"} =>
           tx[t].ts < reg'[t].commit_ts /\ reg'[t].commit_ts <= clock'
  PROVE  Local(t) /\ LogsOK'
<1>1. Local(t)
  BY DEF Local, IInv, Types
<1>2. /\ WSet(t)' = WSet(t) /\ Tx(t)' = Tx(t) /\ LogOK(t) /\ Active(t) /\ Active(t)'
      /\ \A a \in Addr : OwnerOf(a)' = OwnerOf(a) /\ EntriesOf(t, a)' = EntriesOf(t, a)
      /\ tx[t].ts \in Nat /\ clock \in Nat /\ clock' \in Nat
  BY DEF WSet, Tx, LogsOK, Active, OwnerOf, EntriesOf, Rest, IInv, Types, TxType
<1>3. Covered(t)'
  BY <1>2 DEF LogOK, Covered
<1>4. Logged(t)'
  BY <1>2 DEF LogOK, Logged
<1>5. Timely(t)'
  BY <1>2 DEF LogOK, Timely
<1>6. Undone(t)'
  BY DEF Undone, Body, Running
<1>7. LogOK(t)'
  BY <1>3, <1>4, <1>5, <1>6 DEF LogOK
<1> QED  BY <1>1, <1>7, LogsStep

LEMMA RunsAtomic ==
  ASSUME IInv, IInv', LogsOK, NEW t \in Tasklet, Runs(t) \/ Loads(t)
  PROVE  Local(t) /\ LogsOK' /\ Steady /\ CountSame
<1>1. /\ Rest(t) /\ lock_table' = lock_table /\ mem' = mem /\ clock' = clock /\ clock \in Nat
      /\ tx'[t].w_set = tx[t].w_set /\ tx'[t].ts = tx[t].ts /\ reg'[t].n = reg[t].n
      /\ pc[t] \in Body \ {"st_write"} /\ pc'[t] \in Body \ {"cm_check"}
      /\ \A a \in Addr : StoresOf(t, a)' = StoresOf(t, a)
  BY DEF Runs, Loads, SameSets, Begun, Body, Running, shared, IInv, Types
<1>2. pc'[t] \notin {"cm_check", "cm_drop"}
  BY <1>1 DEF Body, Running
<1>3. Local(t) /\ LogsOK'
  BY <1>1, <1>2, StaysLocal
<1>4. Decided(t)' = Decided(t)
  BY <1>1 DEF Decided, Body, Running
<1>5. Steady /\ CountSame
  BY <1>1, <1>3, <1>4, SteadyIf, CountKept
<1> QED  BY <1>3, <1>5

LEMMA ValidatesAtomic ==
  ASSUME IInv, IInv', LogsOK, NEW t \in Tasklet, Draws(t) \/ Checks(t)
  PROVE  Local(t) /\ LogsOK' /\ Steady /\ CountSame
<1>1. /\ Rest(t) /\ lock_table' = lock_table /\ mem' = mem /\ clock \in Nat
      /\ clock <= clock' /\ clock' \in Nat
      /\ tx'[t].w_set = tx[t].w_set /\ tx'[t].ts = tx[t].ts /\ reg'[t].n = reg[t].n
      /\ pc[t] \in {"cm_inc", "cm_check"} /\ pc'[t] = "cm_check"
      /\ Timely(t) /\ tx[t].ts \in Nat
  BY DEF Draws, Checks, SameSets, shared, IInv, Types, TxType, LogsOK, LogOK
<1>2. tx[t].ts < reg'[t].commit_ts /\ reg'[t].commit_ts <= clock'
  BY <1>1 DEF Draws, Checks, Timely, shared
<1>3. \A a \in Addr : StoresOf(t, a)' = StoresOf(t, a)
  BY <1>1, AllPast DEF Rest, Committing
<1>4. pc[t] \in Body \ {"st_write"} /\ pc'[t] \in Body
  BY <1>1 DEF Body, Running
<1>5. Local(t) /\ LogsOK'
  BY <1>1, <1>2, <1>3, <1>4, StaysLocal
<1>6. Decided(t)' = Decided(t)
  BY <1>1 DEF Decided
<1>7. Steady /\ CountSame
  BY <1>1, <1>4, <1>5, <1>6, SteadyIf, CountKept
<1> QED  BY <1>5, <1>7

LEMMA BeginsAtomic ==
  ASSUME IInv, IInv', LogsOK, NEW t \in Tasklet, Begins(t)
  PROVE  Local(t) /\ LogsOK' /\ Steady /\ CountSame
<1>1. /\ Rest(t) /\ lock_table' = lock_table /\ mem' = mem /\ clock' = clock /\ clock \in Nat
      /\ reg' = reg /\ prog' = prog /\ pc[t] = "start" /\ pc'[t] \in Begun /\ reg[t].k = 1
      /\ pc'[t] \in Committing => DOMAIN Tx(t).ops = {}
      /\ tx'[t].w_set = <<>> /\ tx'[t].ts = clock
  BY DEF Begins, Rest, shared, IInv, Types
<1>2. Local(t)
  BY <1>1 DEF Local
<1>3. WSet(t)' = <<>> /\ Tx(t)' = Tx(t)
  BY <1>1 DEF WSet, Tx
<1>4. \A a \in Addr : EntriesOf(t, a)' = {}
  BY <1>3 DEF EntriesOf
<1>5. \A a \in Addr : StoresOf(t, a)' = {}
  <2>1. Tx(t).ops \in Seq(Operation)
    BY <1>1, Facts, TransactionType
  <2>2. Past(t)' = {k \in DOMAIN Tx(t).ops : pc'[t] \in Committing \/ k < 1}
    BY <1>1, <1>3 DEF Past
  <2>3. Past(t)' = {}
    BY <1>1, <2>1, <2>2
  <2> QED  BY <2>3 DEF StoresOf
<1>6. LogOK(t)'
  BY <1>1, <1>3, <1>4, <1>5 DEF LogOK, Covered, Logged, Timely, Undone, Begun
<1>7. LogsOK'
  BY <1>1, <1>2, <1>6, LogsStep
<1>8. ASSUME NEW a \in Addr
      PROVE  CommittedVal(a)' = CommittedVal(a)
  <2>1. OwnerOf(a) # t /\ OwnerOf(a)' # t
    BY <1>1, OwnsNothing DEF OwnerOf, Running, Releasing
  <2> QED  BY <1>1, <1>2, <2>1, WordOfOthers
<1>9. ASSUME NEW l \in Lock
      PROVE  Version(l)' = Version(l)
  <2>1. lock_table[l].own # t
    BY <1>1, Owns DEF Running, Releasing
  <2> QED  BY <1>1, <2>1, VersionOfOthers
<1>10. Decided(t)' = Decided(t)
  BY <1>1 DEF Decided, Begun
<1>11. CountSame
  BY <1>1, <1>10, CountKept
<1> QED  BY <1>2, <1>7, <1>8, <1>9, <1>11 DEF Steady

LEMMA GivesUpAtomic ==
  ASSUME IInv, IInv', LogsOK, NEW t \in Tasklet, GivesUp(t)
  PROVE  Local(t) /\ LogsOK' /\ Steady /\ CountSame
<1>1. /\ Rest(t) /\ lock_table' = lock_table /\ mem' = mem /\ clock' = clock /\ clock \in Nat
      /\ tx'[t].w_set = tx[t].w_set /\ tx'[t].ts = tx[t].ts /\ reg'[t].n = reg[t].n
      /\ reg'[t].i = Len(WSet(t))
      /\ pc[t] \in Body \ {"st_write"} /\ pc'[t] \in {"ab_undo", "ab_end"}
      /\ LogOK(t) /\ WSet(t)' = WSet(t)
  BY DEF GivesUp, SameSets, shared, IInv, Types, LogsOK, WSet
<1>2. Local(t)
  BY <1>1 DEF Local
<1>3. pc'[t] = "ab_undo" => \A a \in Addr : UndoneOf(t, a)' = {}
  <2>1. DOMAIN WSet(t) = 1 .. Len(WSet(t)) /\ Len(WSet(t)) \in Nat
    BY EntriesType
  <2> QED  BY <1>1, <2>1 DEF UndoneOf, EntriesOf
<1>4. LogOK(t)'
  BY <1>1, <1>3 DEF LogOK, Covered, Logged, Timely, Undone, Active, Body, Running
<1>5. LogsOK'
  BY <1>1, <1>2, <1>4, LogsStep
<1>6. Decided(t)' = Decided(t)
  BY <1>1 DEF Decided, Body, Running
<1> QED  BY <1>1, <1>2, <1>5, <1>6, SteadyIf, CountKept

LEMMA EndsAtomic ==
  ASSUME IInv, IInv', LogsOK, NEW t \in Tasklet, Ends(t)
  PROVE  Local(t) /\ LogsOK' /\ Steady /\ CountSame
<1>1. /\ Rest(t) /\ lock_table' = lock_table /\ mem' = mem /\ clock' = clock /\ clock \in Nat
      /\ tx'[t].w_set = tx[t].w_set /\ tx'[t].ts = tx[t].ts
      /\ pc[t] \in {"cm_end", "ab_end"} /\ pc'[t] \in {"start", "done"}
      /\ LogOK(t) /\ WSet(t)' = WSet(t)
  BY DEF Ends, SameSets, shared, IInv, Types, LogsOK, WSet
<1>2. Local(t)
  BY <1>1 DEF Local
<1>3. LogOK(t)'
  BY <1>1 DEF LogOK, Covered, Logged, Timely, Undone, Active, Body, Running
<1>4. LogsOK'
  BY <1>1, <1>2, <1>3, LogsStep
<1>5. Steady
  BY <1>1, <1>2, SteadyIf DEF Running, Releasing
<1>6. CountSame
  <2>1. \A u \in Tasklet \ {t} : CommittedCount(u)' = CommittedCount(u)
    BY <1>1 DEF CommittedCount, Decided, Rest, Moved
  <2>2. reg[t].n \in Nat /\ reg'[t].n \in Nat
    BY DEF IInv, Types, RegType
  <2>3. CommittedCount(t)' = CommittedCount(t)
    BY <1>1, <2>2 DEF Ends, CommittedCount, Decided
  <2> QED  BY <2>1, <2>3 DEF CountSame
<1> QED  BY <1>2, <1>4, <1>5, <1>6

LEMMA IdlesAtomic ==
  ASSUME IInv, LogsOK, Idles
  PROVE  LogsOK' /\ Steady /\ CountSame /\ prog' = prog
<1>1. \A t \in Tasklet : WSet(t)' = WSet(t) /\ Tx(t)' = Tx(t) /\ Decided(t)' = Decided(t)
  BY DEF Idles, WSet, Tx, Decided
<1>2. \A t \in Tasklet, a \in Addr : /\ EntriesOf(t, a)' = EntriesOf(t, a)
                                     /\ StoresOf(t, a)' = StoresOf(t, a)
                                     /\ UndoneOf(t, a)' = UndoneOf(t, a)
                                     /\ OwnerOf(a)' = OwnerOf(a)
  BY <1>1 DEF Idles, EntriesOf, StoresOf, Past, UndoneOf, OwnerOf, shared
<1>3. LogsOK'
  BY <1>1, <1>2 DEF Idles, LogsOK, LogOK, Covered, Logged, Timely, Undone, Active, shared
<1>4. \A a \in Addr : CommittedVal(a)' = CommittedVal(a)
  BY DEF Idles, CommittedVal, WSet, Decided, shared
<1>5. \A l \in Lock : Version(l)' = Version(l)
  BY DEF Idles, Version, WSet, shared
<1>6. CountSame
  BY DEF Idles, CountSame, CommittedCount, Decided
<1> QED  BY <1>3, <1>4, <1>5, <1>6 DEF Steady, Idles

\* A lock is won: it was free, and no word under it was logged before.
LEMMA WinsAtomic ==
  ASSUME IInv, IInv', LogsOK, NEW t \in Tasklet, Wins(t)
  PROVE  Local(t) /\ LogsOK' /\ Steady /\ CountSame
<1> DEFINE n == Len(WSet(t)) + 1
<1>1. /\ Rest(t) /\ mem' = mem /\ clock' = clock /\ clock \in Nat
      /\ tx'[t].w_set = tx[t].w_set /\ tx'[t].ts = tx[t].ts /\ reg' = reg /\ prog' = prog
      /\ pc[t] = "st_cas" /\ pc'[t] = "st_write"
      /\ lock_table[L(t)] = reg[t].lock_v /\ ~ Locked(reg[t].lock_v)
      /\ lock_table' = [lock_table EXCEPT ![L(t)] = Owned(t, n)]
      /\ LogOK(t) /\ WSet(t)' = WSet(t)
      /\ lock_table \in [Lock -> LockWord]
      /\ L(t)' = L(t)
  BY DEF Wins, Rest, SameSets, IInv, Types, LogsOK, WSet, L, Op, Tx
<1>2. L(t) \in Lock /\ Len(WSet(t)) \in Nat
  BY <1>1, Facts, OperationType, EntriesType DEF InStore
<1>3. /\ lock_table'[L(t)] = Owned(t, n) /\ Owned(t, n).own = t /\ Owned(t, n).val = n
      /\ lock_table[L(t)].own = NoTx
      /\ \A l \in Lock : l # L(t) => lock_table'[l] = lock_table[l]
  BY <1>1, <1>2 DEF Owned, Locked
<1>4. Local(t)
  BY <1>1, <1>3 DEF Local
<1>5. \A a \in Addr : OwnerOf(a) \in Tasklet \cup {NoTx}
  BY OwnerType
<1>6. ASSUME NEW a \in Addr, LOCK_ADDR[a] = L(t)
      PROVE  EntriesOf(t, a) = {}
  <2> SUFFICES ASSUME NEW j \in EntriesOf(t, a)
               PROVE  FALSE
    OBVIOUS
  <2>1. OwnerOf(a) = t
    BY <1>1, OwnsLogged DEF LogOK, EntriesOf, Running
  <2> QED  BY <1>3, <1>6, <2>1, OwnerType DEF OwnerOf
<1>7. ASSUME NEW a \in Addr
      PROVE  \/ LOCK_ADDR[a] = L(t) /\ OwnerOf(a)' = t /\ OwnerOf(a) = NoTx
             \/ LOCK_ADDR[a] # L(t) /\ OwnerOf(a)' = OwnerOf(a)
  BY <1>3, TMAssumption DEF OwnerOf
<1>8. /\ Tx(t)' = Tx(t)
      /\ \A a \in Addr : EntriesOf(t, a)' = EntriesOf(t, a) /\ StoresOf(t, a)' = StoresOf(t, a)
  BY <1>1 DEF Tx, EntriesOf, StoresOf, Past, Committing
<1>9. LogOK(t)'
  <2>1. Active(t)
    BY <1>1 DEF Active, Body, Running
  <2>2. Logged(t)'
    BY <1>1, <1>6, <1>7, <1>8, <2>1 DEF LogOK, Logged
  <2> QED  BY <1>1, <2>1, <2>2 DEF LogOK, Covered, Timely, Undone
<1>10. LogsOK'
  BY <1>1, <1>4, <1>9, LogsStep
<1>11. ASSUME NEW a \in Addr
       PROVE  CommittedVal(a)' = CommittedVal(a)
  <2>1. CASE LOCK_ADDR[a] = L(t)
    <3>1. EntriesOf(t, a)' = {} /\ OwnerOf(a)' = t /\ OwnerOf(a) \notin Tasklet
      BY <1>6, <1>7, <1>8, <2>1, OwnerType
    <3>2. CommittedVal(a)' = mem'[a]
      BY <3>1, CommittedValNext
    <3> QED  BY <1>1, <3>1, <3>2, CommittedValIs
  <2>2. CASE LOCK_ADDR[a] # L(t) /\ OwnerOf(a) = t
    <3>1. Decided(t)' = Decided(t) /\ OwnerOf(a)' = t
      BY <1>1, <1>7, <2>2 DEF Decided
    <3> QED  BY <1>1, <2>2, <3>1, WordSame
  <2>3. CASE LOCK_ADDR[a] # L(t) /\ OwnerOf(a) # t
    BY <1>1, <1>4, <1>7, <2>3, WordOfOthers
  <2> QED  BY <2>1, <2>2, <2>3
<1>12. ASSUME NEW l \in Lock
       PROVE  Version(l)' = Version(l)
  <2>1. CASE l = L(t)
    <3>1. Version(l) = reg[t].lock_v.val
      BY <1>1, <2>1 DEF Version
    <3>2. n \notin DOMAIN WSet(t)
      BY EntriesType
    <3>3. t # NoTx
      BY AllocAssumption DEF NoTx, Tasklet
    <3>4. Version(l)' = reg'[t].lock_v.val
      BY <1>1, <1>3, <2>1, <3>2, <3>3 DEF Version, Locked
    <3> QED  BY <1>1, <3>1, <3>4
  <2>2. CASE l # L(t)
    BY <1>1, <1>3, <2>2, VersionOfOthers, VersionSame
  <2> QED  BY <2>1, <2>2
<1>13. CountSame
  BY <1>1, CountKept DEF Decided
<1> QED  BY <1>4, <1>10, <1>11, <1>12, <1>13 DEF Steady

\* A store is logged before it is done.
LEMMA LogsAtomic ==
  ASSUME IInv, IInv', LogsOK, NEW t \in Tasklet, NEW lock, NEW version, Logs(t, lock, version)
  PROVE  Local(t) /\ LogsOK' /\ Steady /\ CountSame
<1> DEFINE a == Op(t).addr
           n == Len(WSet(t)) + 1
           e == [addr |-> a, lock |-> lock, version |-> version, value |-> mem[a]]
<1>1. /\ Rest(t) /\ clock' = clock /\ clock \in Nat /\ lock_table' = lock_table
      /\ mem' = [mem EXCEPT ![a] = Op(t).val] /\ mem \in [Addr -> Val]
      /\ tx'[t].w_set = Append(WSet(t), e) /\ tx'[t].ts = tx[t].ts
      /\ reg'[t].n = reg[t].n /\ prog' = prog
      /\ pc[t] \in {"store", "st_write"} /\ pc'[t] \in Begun \cup {"ab_undo"}
      /\ LogOK(t) /\ Tx(t)' = Tx(t)
  BY DEF Logs, Rest, IInv, Types, LogsOK, Tx
<1>2. /\ a \in Addr /\ L(t) \in Lock /\ L(t) = LOCK_ADDR[a]
      /\ Op(t).kind = "store" /\ Op(t) = Tx(t).ops[reg[t].k] /\ reg[t].k \in DOMAIN Tx(t).ops
      /\ Tx(t).ops \in Seq(Operation)
  BY <1>1, Facts, OperationType, TransactionType DEF InStore, Control, L, Op
<1>3. /\ WSet(t)' = Append(WSet(t), e) /\ DOMAIN WSet(t) = 1 .. n - 1 /\ n \in Nat \ {0}
      /\ DOMAIN WSet(t)' = 1 .. n
      /\ \A j \in 1 .. n - 1 : WSet(t)'[j] = WSet(t)[j]
      /\ WSet(t)'[n] = e
  <2>1. WSet(t) \in Seq(WEntry) /\ WSet(t)' = Append(WSet(t), e)
    BY <1>1, EntriesType DEF WSet
  <2> QED  BY <2>1
<1> HIDE DEF e
<1>4. e.addr = a /\ e.lock = lock /\ e.version = version /\ e.value = mem[a]
  BY DEF e
<1>5. OwnerOf(a) = t /\ \A b \in Addr : OwnerOf(b)' = OwnerOf(b)
  <2>1. CASE pc[t] = "st_write"
    <3>1. lock_table[LOCK_ADDR[a]] = Owned(t, n)
      BY <2>1, JustWon
    <3> QED  BY <1>1, <3>1 DEF OwnerOf, Owned
  <2>2. CASE pc[t] = "store"
    BY <1>1, <1>2, <2>2 DEF Logs, OwnLock, OwnerOf
  <2> QED  BY <1>1, <2>1, <2>2 DEF OwnerOf
<1>6. Local(t)
  BY <1>1, <1>5 DEF Local
<1>7. \A b \in Addr : EntriesOf(t, b)' = IF b = a THEN EntriesOf(t, b) \cup {n} ELSE EntriesOf(t, b)
  BY <1>3, <1>4 DEF EntriesOf
<1>8. Covered(t)'
  <2>1. \E i \in DOMAIN WSet(t)' : WSet(t)'[i].lock = LOCK_ADDR[a]
    <3>1. CASE pc[t] = "st_write"
      <4>1. lock = LOCK_ADDR[a]
        BY <1>2, <3>1 DEF Logs
      <4>2. n \in 1 .. n
        BY <1>3
      <4> QED  BY <1>3, <1>4, <4>1, <4>2
    <3>2. CASE pc[t] = "store"
      <4>1. lock_table[L(t)].own = t /\ lock_table[L(t)].val \in DOMAIN WSet(t)
        BY <1>1, <3>2 DEF Logs, OwnLock
      <4>2. WSet(t)[lock_table[L(t)].val].lock = L(t)
        BY <1>2, <4>1, Owns
      <4>3. \A j \in 1 .. n - 1 : j \in 1 .. n
        BY <1>3
      <4>4. lock_table[L(t)].val \in 1 .. n - 1
        BY <1>3, <4>1
      <4> QED  BY <1>2, <1>3, <4>2, <4>3, <4>4
    <3> QED  BY <1>1, <3>1, <3>2
  <2>2. ASSUME NEW j \in 1 .. n - 1
        PROVE  \E i \in DOMAIN WSet(t)' : WSet(t)'[i].lock = LOCK_ADDR[WSet(t)'[j].addr]
    <3>1. PICK i \in DOMAIN WSet(t) : WSet(t)[i].lock = LOCK_ADDR[WSet(t)[j].addr]
      BY <1>1, <1>3 DEF LogOK, Covered
    <3> QED  BY <1>3, <3>1
  <2>3. \A j \in 1 .. n : j = n \/ j \in 1 .. n - 1
    BY <1>3
  <2> QED  BY <1>3, <1>4, <2>1, <2>2, <2>3 DEF Covered
<1>9. Active(t)' => /\ pc'[t] \in Begun /\ version <= tx[t].ts
                    /\ Past(t)' = Past(t) \cup {reg[t].k}
  BY <1>1 DEF Logs, Active, Body, Running
<1>10. Active(t) /\ Past(t) = {k \in DOMAIN Tx(t).ops : k < reg[t].k}
  BY <1>1 DEF Active, Body, Running, Past, Committing
<1>11. Logged(t)'
  <2> SUFFICES ASSUME Active(t)', NEW b \in Addr
               PROVE  /\ EntriesOf(t, b)' # {} <=> StoresOf(t, b)' # {}
                      /\ StoresOf(t, b)' # {} /\ OwnerOf(b)' = t =>
                           mem'[b] = Tx(t).ops[Max(StoresOf(t, b)')].val
    BY <1>1 DEF Logged
  <2>1. StoresOf(t, b)' = IF b = a THEN StoresOf(t, b) \cup {reg[t].k} ELSE StoresOf(t, b)
    BY <1>1, <1>2, <1>9 DEF StoresOf
  <2>2. CASE b = a
    <3>1. /\ StoresOf(t, b)' \subseteq Nat /\ reg[t].k \in StoresOf(t, b)'
          /\ \A m \in StoresOf(t, b)' : m <= reg[t].k
      BY <1>2, <1>10, <2>1, <2>2 DEF StoresOf
    <3>2. Max(StoresOf(t, b)') = reg[t].k
      BY <3>1, MaxUnique
    <3>3. mem'[b] = Op(t).val
      BY <1>1, <1>2, <2>2
    <3> QED  BY <1>2, <1>7, <2>2, <3>1, <3>2, <3>3
  <2>3. CASE b # a
    <3>1. mem'[b] = mem[b]
      BY <1>1, <2>3
    <3> QED  BY <1>1, <1>5, <1>7, <1>10, <2>1, <2>3, <3>1 DEF LogOK, Logged
  <2> QED  BY <2>2, <2>3
<1>12. Timely(t)'
  <2>1. ASSUME Active(t)', NEW j \in 1 .. n
        PROVE  WSet(t)'[j].version <= tx'[t].ts
    <3>1. j \in 1 .. n - 1 => WSet(t)[j].version <= tx[t].ts
      BY <1>1, <1>3, <1>10 DEF LogOK, Timely
    <3>2. j = n \/ j \in 1 .. n - 1
      BY <1>3
    <3> QED  BY <1>1, <1>3, <1>4, <1>9, <2>1, <3>1, <3>2
  <2> QED  BY <1>1, <1>3, <2>1 DEF LogOK, Timely, Begun
<1>13. Undone(t)'
  <2> SUFFICES ASSUME pc'[t] = "ab_undo"
               PROVE  \A b \in Addr : UndoneOf(t, b)' = {}
    BY <1>1 DEF Undone, Begun
  <2>1. reg'[t].i = n
    BY DEF Logs, Begun
  <2> QED  BY <1>3, <2>1 DEF UndoneOf, EntriesOf
<1>14. LogsOK'
  <2>1. LogOK(t)'
    BY <1>8, <1>11, <1>12, <1>13 DEF LogOK
  <2> QED  BY <1>1, <1>6, <2>1, LogsStep
<1>15. Decided(t)' = Decided(t) /\ ~ Decided(t)
  BY <1>1 DEF Decided, Begun
<1>16. ASSUME NEW b \in Addr
       PROVE  CommittedVal(b)' = CommittedVal(b)
  <2>1. CASE OwnerOf(b) # t
    BY <1>1, <1>5, <1>6, <2>1, WordOfOthers
  <2>2. CASE OwnerOf(b) = t
    <3>0. /\ EntriesOf(t, b) \subseteq Nat /\ EntriesOf(t, b) \subseteq 1 .. n - 1
      BY <1>3, EntriesType
    <3>1. CommittedVal(b) = IF EntriesOf(t, b) = {} THEN mem[b]
                            ELSE WSet(t)[Min(EntriesOf(t, b))].value
      BY <1>15, <2>2, CommittedValIs
    <3>2. CommittedVal(b)' = IF EntriesOf(t, b)' = {} THEN mem'[b]
                             ELSE WSet(t)'[Min(EntriesOf(t, b)')].value
      BY <1>5, <1>15, <2>2, CommittedValNext
    <3>3. CASE b # a
      <4>1. mem'[b] = mem[b] /\ EntriesOf(t, b)' = EntriesOf(t, b)
        BY <1>1, <1>7, <3>3
      <4>2. EntriesOf(t, b) # {} => Min(EntriesOf(t, b)) \in 1 .. n - 1
        BY <3>0, MinIs
      <4> QED  BY <1>3, <3>1, <3>2, <4>1, <4>2
    <3>4. CASE b = a /\ EntriesOf(t, b) = {}
      <4>1. EntriesOf(t, b)' = {n}
        BY <1>7, <3>4
      <4>2. Min({n}) = n
        BY <1>3, MinUnique
      <4> QED  BY <1>3, <1>4, <3>1, <3>2, <3>4, <4>1, <4>2
    <3>5. CASE b = a /\ EntriesOf(t, b) # {}
      <4>1. EntriesOf(t, b)' = EntriesOf(t, b) \cup {n}
        BY <1>7, <3>5
      <4> DEFINE m == Min(EntriesOf(t, b))
      <4>2. m \in EntriesOf(t, b) /\ \A j \in EntriesOf(t, b) : m <= j
        BY <3>0, <3>5, MinIs
      <4> HIDE DEF m
      <4>3. m \in EntriesOf(t, b) \cup {n} /\ \A j \in EntriesOf(t, b) \cup {n} : m <= j
        BY <1>3, <3>0, <4>2
      <4>4. Min(EntriesOf(t, b) \cup {n}) = m
        <5>1. EntriesOf(t, b) \cup {n} \subseteq Nat
          BY <1>3, <3>0
        <5> QED  BY <4>3, <5>1, MinUnique
      <4>5. WSet(t)'[m] = WSet(t)[m]
        BY <1>3, <3>0, <4>2
      <4> QED  BY <3>1, <3>2, <3>5, <4>1, <4>4, <4>5 DEF m
    <3> QED  BY <3>3, <3>4, <3>5
  <2> QED  BY <2>1, <2>2
<1>17. ASSUME NEW l \in Lock
       PROVE  Version(l)' = Version(l)
  <2>1. CASE lock_table[l].own # t
    BY <1>1, <2>1, VersionOfOthers
  <2>2. CASE lock_table[l].own = t /\ lock_table[l].val \in DOMAIN WSet(t)
    <3>1. Locked(lock_table[l])
      BY <2>2, AllocAssumption DEF Locked, NoTx, Tasklet
    <3> QED  BY <1>1, <1>3, <2>2, <3>1 DEF Version
  <2>3. CASE lock_table[l].own = t /\ lock_table[l].val \notin DOMAIN WSet(t)
    <3>1. Locked(lock_table[l])
      BY <2>3, AllocAssumption DEF Locked, NoTx, Tasklet
    <3>2. pc[t] = "st_write" /\ lock_table[l].val = n
      BY <2>3, Owns
    <3>3. version = reg[t].lock_v.val
      BY <3>2 DEF Logs
    <3> QED  BY <1>1, <1>3, <1>4, <2>3, <3>1, <3>2, <3>3 DEF Version
  <2> QED  BY <2>1, <2>2, <2>3
<1>18. CountSame
  BY <1>1, <1>15, CountKept
<1> QED  BY <1>6, <1>14, <1>16, <1>17, <1>18 DEF Steady

\* An abort restores the oldest value, in memory only: the log knew it already.
LEMMA UndoesAtomic ==
  ASSUME IInv, IInv', LogsOK, NEW t \in Tasklet, Undoes(t)
  PROVE  Local(t) /\ LogsOK' /\ Steady /\ CountSame
<1> DEFINE i == reg[t].i
           w == WSet(t)[i]
<1>1. /\ Rest(t) /\ clock' = clock /\ clock \in Nat /\ lock_table' = lock_table
      /\ mem' = [mem EXCEPT ![w.addr] = w.value] /\ mem \in [Addr -> Val]
      /\ tx'[t].w_set = tx[t].w_set /\ tx'[t].ts = tx[t].ts /\ reg'[t].n = reg[t].n
      /\ pc[t] = "ab_undo" /\ pc'[t] \in {"ab_undo", "ab_drop"}
      /\ LogOK(t) /\ WSet(t)' = WSet(t)
      /\ \A a \in Addr : OwnerOf(a)' = OwnerOf(a) /\ EntriesOf(t, a)' = EntriesOf(t, a)
      /\ i \in DOMAIN WSet(t)
  BY Facts DEF Undoes, SameSets, IInv, Types, LogsOK, WSet, OwnerOf, EntriesOf, Control
<1>2. OwnerOf(w.addr) = t /\ w.addr \in Addr
  BY <1>1, OwnsLogged DEF LogOK, Running
<1>3. Local(t)
  BY <1>1, <1>2 DEF Local
<1>4. /\ DOMAIN WSet(t) = 1 .. Len(WSet(t)) /\ Len(WSet(t)) \in Nat /\ i \in Nat \ {0}
      /\ \A a \in Addr : EntriesOf(t, a) \subseteq Nat /\ EntriesOf(t, a) \subseteq DOMAIN WSet(t)
  BY <1>1, EntriesType
<1>5. ASSUME NEW a \in Addr
      PROVE  UndoneOf(t, a)' = {j \in EntriesOf(t, a) : j >= i}
  <2>1. CASE i > 1
    <3>1. pc'[t] = "ab_undo" /\ reg'[t].i = i - 1
      BY <2>1 DEF Undoes
    <3> QED  BY <1>1, <1>4, <3>1 DEF UndoneOf
  <2>2. CASE ~ (i > 1)
    <3>1. pc'[t] = "ab_drop"
      BY <2>2 DEF Undoes
    <3>2. i = 1
      BY <1>4, <2>2
    <3>3. \A j \in EntriesOf(t, a) : j >= 1
      BY <1>4
    <3> QED  BY <1>1, <3>1, <3>2, <3>3 DEF UndoneOf
  <2> QED  BY <2>1, <2>2
<1>6. Undone(t)'
  <2> SUFFICES ASSUME NEW a \in Addr, OwnerOf(a) = t, UndoneOf(t, a)' # {}
               PROVE  mem'[a] = WSet(t)[Min(UndoneOf(t, a)')].value
    BY <1>1 DEF Undone
  <2>1. CASE a = w.addr
    <3>1. i \in UndoneOf(t, a)' /\ UndoneOf(t, a)' \subseteq Nat /\ \A j \in UndoneOf(t, a)' : i <= j
      BY <1>1, <1>4, <1>5, <2>1 DEF EntriesOf
    <3>2. Min(UndoneOf(t, a)') = i
      BY <3>1, MinUnique
    <3> QED  BY <1>1, <1>2, <2>1, <3>2
  <2>2. CASE a # w.addr
    <3>1. UndoneOf(t, a) = {j \in EntriesOf(t, a) : j > i}
      BY <1>1 DEF UndoneOf
    <3>2. i \notin EntriesOf(t, a)
      BY <2>2 DEF EntriesOf
    <3>3. UndoneOf(t, a)' = UndoneOf(t, a)
      BY <1>4, <1>5, <3>1, <3>2
    <3>4. mem'[a] = mem[a]
      BY <1>1, <2>2
    <3> QED  BY <1>1, <3>3, <3>4 DEF LogOK, Undone
  <2> QED  BY <2>1, <2>2
<1>7. LogOK(t)'
  BY <1>1, <1>6 DEF LogOK, Covered, Logged, Timely, Active, Body, Running
<1>8. LogsOK'
  BY <1>1, <1>3, <1>7, LogsStep
<1>9. Decided(t)' = Decided(t) /\ ~ Decided(t)
  BY <1>1 DEF Decided
<1>10. ASSUME NEW a \in Addr
       PROVE  CommittedVal(a)' = CommittedVal(a)
  <2>1. CASE OwnerOf(a) # t
    BY <1>1, <1>3, <2>1, WordOfOthers
  <2>2. CASE OwnerOf(a) = t /\ a # w.addr
    <3>1. mem'[a] = mem[a]
      BY <1>1, <2>2
    <3> QED  BY <1>1, <1>9, <2>2, <3>1, WordSame
  <2>3. CASE a = w.addr
    <3>1. EntriesOf(t, a) # {}
      BY <1>1, <2>3 DEF EntriesOf
    <3>2. CommittedVal(a) = WSet(t)[Min(EntriesOf(t, a))].value
      BY <1>2, <1>9, <2>3, <3>1, CommittedValIs
    <3>3. OwnerOf(a)' = t /\ EntriesOf(t, a)' # {} /\ ~ Decided(t)'
      BY <1>1, <1>2, <1>9, <2>3, <3>1
    <3>4. CommittedVal(a)' = WSet(t)'[Min(EntriesOf(t, a)')].value
      BY <3>3, CommittedValNext
    <3> QED  BY <1>1, <3>2, <3>4
  <2> QED  BY <2>1, <2>2, <2>3
<1>11. ASSUME NEW l \in Lock
       PROVE  Version(l)' = Version(l)
  BY <1>1, VersionOfOthers, VersionSame
<1>12. CountSame
  BY <1>1, <1>9, CountKept
<1> QED  BY <1>3, <1>8, <1>10, <1>11, <1>12 DEF Steady

\* A lock is released: what is in memory then is the committed value.  Only a
\* commit gives the lock another version, and a newer one.
LEMMA DropsAtomic ==
  ASSUME IInv, IInv', LogsOK, NEW t \in Tasklet, NEW version \in Nat, Drops(t, version)
  PROVE  /\ Local(t) /\ LogsOK' /\ CountSame
         /\ \A a \in Addr : CommittedVal(a)' = CommittedVal(a)
         /\ \A l \in Lock : \/ Version(l)' = Version(l)
                            \/ /\ pc[t] = "cm_drop" /\ lock_table[l].own = t
                               /\ Version(l)' = reg[t].commit_ts /\ Version(l) < reg[t].commit_ts
<1> DEFINE i == reg[t].i
           e == WSet(t)[i]
<1>1. /\ Rest(t) /\ clock' = clock /\ clock \in Nat /\ mem' = mem
      /\ tx'[t].w_set = tx[t].w_set /\ tx'[t].ts = tx[t].ts
      /\ reg'[t].n = reg[t].n /\ reg'[t].commit_ts = reg[t].commit_ts
      /\ lock_table' = [l \in Lock |-> IF l = e.lock THEN Free(version) ELSE lock_table[l]]
      /\ \/ pc[t] = "cm_drop" /\ pc'[t] \in {"cm_drop", "cm_end"} /\ version = reg[t].commit_ts
         \/ pc[t] = "ab_drop" /\ pc'[t] \in {"ab_drop", "ab_end"} /\ version = e.version
      /\ LogOK(t) /\ WSet(t)' = WSet(t) /\ prog' = prog
      /\ i \in DOMAIN WSet(t)
      /\ tx[t].ts \in Nat /\ reg[t].commit_ts \in Nat
  BY Facts DEF Drops, Release, Rest, SameSets, IInv, Types, TxType, RegType, LogsOK, WSet, Control,
               Releasing
<1>2. /\ Free(version).own = NoTx /\ Free(version).val = version
      /\ NoTx \notin Tasklet
  BY AllocAssumption DEF Free, NoTx, Tasklet
<1>3. e \in WEntry /\ e.version \in Nat
  <2>1. e \in WEntry
    BY <1>1, EntriesType
  <2> QED  BY <2>1 DEF WEntry
<1>4. ASSUME NEW l \in Lock, l = e.lock
      PROVE  lock_table[l] = Owned(t, i)
  <2>1. i \in Holds(t)
    BY <1>1, <1>4, TMAssumption DEF Holds, Releasing, IInv, Types, RegType
  <2> QED  BY <1>4, <2>1, Has
<1>5. ASSUME NEW l \in Lock
      PROVE  \/ l = e.lock /\ lock_table[l].own = t /\ lock_table[l].val = i
                           /\ lock_table'[l] = Free(version)
             \/ l # e.lock /\ lock_table'[l] = lock_table[l]
  BY <1>1, <1>4 DEF Owned
<1>6. Local(t)
  BY <1>1, <1>2, <1>5 DEF Local
<1>7. /\ Tx(t)' = Tx(t)
      /\ \A a \in Addr : EntriesOf(t, a)' = EntriesOf(t, a)
      /\ \A a \in Addr : OwnerOf(a)' = t => OwnerOf(a) = t
      /\ \A a \in Addr : OwnerOf(a)' \in {NoTx, OwnerOf(a)}
      /\ pc'[t] = "cm_drop" => \A a \in Addr : StoresOf(t, a)' = StoresOf(t, a)
      /\ pc'[t] = "ab_drop" => \A a \in Addr : UndoneOf(t, a)' = UndoneOf(t, a)
  <2>1. \A a \in Addr : OwnerOf(a)' \in {NoTx, OwnerOf(a)}
    BY <1>2, <1>5, TMAssumption DEF OwnerOf
  <2>2. \A a \in Addr : EntriesOf(t, a)' = EntriesOf(t, a)
    BY <1>1 DEF EntriesOf
  <2>3. pc'[t] = "ab_drop" => \A a \in Addr : UndoneOf(t, a)' = UndoneOf(t, a)
    BY <1>1, <2>2 DEF UndoneOf
  <2>4. pc'[t] = "cm_drop" => \A a \in Addr : StoresOf(t, a)' = StoresOf(t, a)
    BY <1>1, AllPast DEF Committing
  <2> QED  BY <1>1, <1>2, <2>1, <2>2, <2>3, <2>4 DEF Tx
<1>8. LogOK(t)'
  <2>1. Logged(t)'
    BY <1>1, <1>7 DEF LogOK, Logged, Active, Body, Running
  <2>2. Undone(t)'
    BY <1>1, <1>7 DEF LogOK, Undone
  <2> QED  BY <1>1, <2>1, <2>2 DEF LogOK, Covered, Timely, Active, Body, Running
<1>9. LogsOK'
  BY <1>1, <1>6, <1>8, LogsStep
<1>10. Decided(t)' = Decided(t) /\ (Decided(t) <=> pc[t] = "cm_drop")
  BY <1>1 DEF Decided
<1>11. ASSUME NEW a \in Addr
       PROVE  CommittedVal(a)' = CommittedVal(a)
  <2>1. CASE OwnerOf(a) # t
    BY <1>1, <1>2, <1>6, <1>7, <2>1, WordOfOthers
  <2>2. CASE OwnerOf(a) = t /\ OwnerOf(a)' = t
    BY <1>1, <1>10, <2>2, WordSame
  <2>3. CASE OwnerOf(a) = t /\ OwnerOf(a)' # t
    <3>1. OwnerOf(a)' \notin Tasklet
      BY <1>2, <1>7, <2>3
    <3>2. CommittedVal(a)' = mem[a]
      BY <1>1, <3>1, CommittedValNext
    <3>3. CommittedVal(a) = IF Decided(t) \/ EntriesOf(t, a) = {} THEN mem[a]
                            ELSE WSet(t)[Min(EntriesOf(t, a))].value
      BY <2>3, CommittedValIs
    <3>4. pc[t] = "ab_drop" => UndoneOf(t, a) = EntriesOf(t, a)
      BY DEF UndoneOf
    <3>5. pc[t] = "ab_drop" /\ EntriesOf(t, a) # {} =>
            mem[a] = WSet(t)[Min(EntriesOf(t, a))].value
      BY <1>1, <2>3, <3>4 DEF LogOK, Undone
    <3> QED  BY <1>1, <1>10, <3>2, <3>3, <3>5
  <2> QED  BY <2>1, <2>2, <2>3
<1>12. ASSUME NEW l \in Lock
       PROVE  \/ Version(l)' = Version(l)
              \/ /\ pc[t] = "cm_drop" /\ lock_table[l].own = t
                 /\ Version(l)' = reg[t].commit_ts /\ Version(l) < reg[t].commit_ts
  <2>1. CASE l # e.lock
    <3>1. lock_table'[l] = lock_table[l]
      BY <1>5, <2>1
    <3>2. pc[t] # "st_write"
      BY <1>1
    <3> QED  BY <1>1, <3>1, <3>2, VersionOfOthers, VersionSame
  <2>2. CASE l = e.lock
    <3>1. /\ lock_table[l].own = t /\ lock_table[l].val = i
          /\ lock_table'[l] = Free(version)
      BY <1>5, <2>2
    <3>2. Version(l) = e.version
      BY <1>1, <1>2, <3>1 DEF Version, Locked
    <3>3. Version(l)' = version
      BY <1>2, <3>1 DEF Version, Locked
    <3>4. CASE pc[t] = "ab_drop"
      BY <1>1, <3>2, <3>3, <3>4
    <3>5. CASE pc[t] = "cm_drop"
      <4>1. Active(t)
        BY <3>5 DEF Active
      <4>2. e.version <= tx[t].ts /\ tx[t].ts < reg[t].commit_ts
        BY <1>1, <3>5, <4>1 DEF LogOK, Timely
      <4> QED  BY <1>1, <1>3, <3>1, <3>2, <3>3, <3>5, <4>2
    <3> QED  BY <1>1, <3>4, <3>5
  <2> QED  BY <2>1, <2>2
<1>13. CountSame
  BY <1>1, <1>10, CountKept
<1> QED  BY <1>6, <1>9, <1>11, <1>12, <1>13

\* A transaction that has done all its operations has logged all its writes,
\* and has the locks of the words and their new values.
LEMMA WritesLogged ==
  ASSUME IInv, NEW t \in Tasklet, LogOK(t), pc[t] \in {"cm_inc", "cm_check"}, NEW a \in Addr
  PROVE  /\ Memory!Writes(Tx(t).ops, a) <=> EntriesOf(t, a) # {}
         /\ Memory!Writes(Tx(t).ops, a) =>
              OwnerOf(a) = t /\ mem[a] = Memory!Written(Tx(t).ops, a)
<1>1. Active(t) /\ pc[t] \in Running /\ pc[t] \in Committing
  BY DEF Active, Body, Running, Committing
<1>2. StoresOf(t, a) = Memory!Stores(Tx(t).ops, a)
  BY <1>1 DEF StoresOf, Past, Memory!Stores
<1>3. Memory!Writes(Tx(t).ops, a) <=> EntriesOf(t, a) # {}
  BY <1>1, <1>2 DEF LogOK, Logged, Memory!Writes
<1>4. EntriesOf(t, a) # {} => OwnerOf(a) = t
  BY <1>1, OwnsLogged DEF EntriesOf, LogOK
<1>5. Memory!Written(Tx(t).ops, a) = Tx(t).ops[Max(StoresOf(t, a))].val
  BY <1>2 DEF Memory!Written, Memory!Max, Max
<1> QED  BY <1>1, <1>3, <1>4, <1>5 DEF LogOK, Logged

\* The instant at which a transaction takes effect.
LEMMA DecidesAtomic ==
  ASSUME IInv, IInv', LogsOK, NEW t \in Tasklet, NEW at \in Nat, Decides(t, at)
  PROVE  /\ Local(t) /\ LogsOK'
         /\ \A a \in Addr : CommittedVal(a)' = IF Memory!Writes(Tx(t).ops, a)
                                               THEN Memory!Written(Tx(t).ops, a)
                                               ELSE CommittedVal(a)
         /\ \A l \in Lock : Version(l)' = Version(l)
         /\ \A u \in Tasklet : CommittedCount(u)' = IF u = t THEN CommittedCount(u) + 1
                                                             ELSE CommittedCount(u)
<1>1. /\ Rest(t) /\ lock_table' = lock_table /\ mem' = mem /\ clock \in Nat
      /\ tx'[t].w_set = tx[t].w_set /\ tx'[t].ts = tx[t].ts
      /\ reg'[t].n = reg[t].n /\ reg'[t].commit_ts = at /\ reg[t].n \in Nat
      /\ pc[t] \in {"cm_inc", "cm_check"} /\ pc'[t] = "cm_drop"
      /\ LogOK(t) /\ WSet(t)' = WSet(t) /\ prog' = prog
      /\ tx[t].ts \in Nat /\ reg[t].commit_ts \in Nat
  BY DEF Decides, Rest, SameSets, IInv, Types, TxType, RegType, LogsOK, WSet
<1>2. clock <= clock' /\ tx[t].ts < at /\ at <= clock'
  BY <1>1 DEF Decides, LogOK, Timely
<1>3. \A a \in Addr : StoresOf(t, a)' = StoresOf(t, a)
  BY <1>1, AllPast DEF Committing
<1>4. Local(t) /\ LogsOK'
  BY <1>1, <1>2, <1>3, StaysLocal DEF Body, Running
<1>5. ~ Decided(t) /\ Decided(t)'
  BY <1>1 DEF Decided
<1>6. ASSUME NEW a \in Addr
      PROVE  CommittedVal(a)' = IF Memory!Writes(Tx(t).ops, a) THEN Memory!Written(Tx(t).ops, a)
                                ELSE CommittedVal(a)
  <2>0. OwnerOf(a)' = OwnerOf(a)
    BY <1>1 DEF OwnerOf
  <2>1. CASE OwnerOf(a) # t
    <3>1. ~ Memory!Writes(Tx(t).ops, a)
      BY <1>1, <2>1, WritesLogged
    <3> QED  BY <1>1, <1>4, <2>0, <2>1, <3>1, WordOfOthers
  <2>2. CASE OwnerOf(a) = t
    <3>1. CommittedVal(a)' = mem[a]
      BY <1>1, <1>5, <2>0, <2>2, CommittedValNext
    <3>2. EntriesOf(t, a) = {} => CommittedVal(a) = mem[a]
      BY <2>2, CommittedValIs
    <3> QED  BY <1>1, <3>1, <3>2, WritesLogged
  <2> QED  BY <2>1, <2>2
<1>7. ASSUME NEW l \in Lock
      PROVE  Version(l)' = Version(l)
  BY <1>1, VersionOfOthers, VersionSame
<1>8. ASSUME NEW u \in Tasklet
      PROVE  CommittedCount(u)' = IF u = t THEN CommittedCount(u) + 1 ELSE CommittedCount(u)
  BY <1>1, <1>5 DEF CommittedCount, Decided, Rest, Moved
<1> QED  BY <1>4, <1>6, <1>7, <1>8

\* A transaction that has written nothing.
LEMMA FinishesAtomic ==
  ASSUME IInv, IInv', LogsOK, NEW t \in Tasklet, Finishes(t)
  PROVE  /\ Local(t) /\ LogsOK' /\ Steady
         /\ \A a \in Addr : ~ Memory!Writes(Tx(t).ops, a)
         /\ \A u \in Tasklet : CommittedCount(u)' = IF u = t THEN CommittedCount(u) + 1
                                                             ELSE CommittedCount(u)
<1>1. /\ Rest(t) /\ lock_table' = lock_table /\ mem' = mem /\ clock \in Nat /\ clock' = clock + 2
      /\ tx'[t].w_set = tx[t].w_set /\ tx'[t].ts = tx[t].ts /\ tx[t].ts \in Nat
      /\ reg'[t].n = reg[t].n + 1 /\ reg[t].n \in Nat
      /\ pc[t] = "cm_inc" /\ pc'[t] \in {"start", "done"}
      /\ LogOK(t) /\ WSet(t)' = WSet(t) /\ WSet(t) = <<>>
  BY DEF Finishes, SameSets, IInv, Types, TxType, RegType, LogsOK, WSet
<1>2. Local(t)
  BY <1>1 DEF Local
<1>3. LogOK(t)'
  BY <1>1 DEF LogOK, Covered, Logged, Timely, Undone, Active, Body, Running
<1>4. LogsOK'
  BY <1>1, <1>2, <1>3, LogsStep
<1>5. ~ Decided(t) /\ Decided(t)' = Decided(t)
  BY <1>1 DEF Decided
<1>6. Steady
  BY <1>1, <1>2, <1>5, SteadyIf
<1>7. ASSUME NEW a \in Addr
      PROVE  ~ Memory!Writes(Tx(t).ops, a)
  BY <1>1, WritesLogged DEF EntriesOf
<1>8. ASSUME NEW u \in Tasklet
      PROVE  CommittedCount(u)' = IF u = t THEN CommittedCount(u) + 1 ELSE CommittedCount(u)
  BY <1>1, <1>5 DEF CommittedCount, Decided, Rest, Moved
<1> QED  BY <1>2, <1>4, <1>6, <1>7, <1>8
=================================================================================
