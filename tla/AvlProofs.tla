------------------------------- MODULE AvlProofs -------------------------------
(***************************************************************************)
(* Proofs about AvlTree, for any number of tasklets and nodes, any keys    *)
(* and any transactions of inserts and finds: every variable keeps its     *)
(* type; and as long as nothing is read that is then rolled back, the      *)
(* committed tree holds no node that was never committed, and nothing but  *)
(* a commit changes its rows.  The inductive invariant,                    *)
(* Typed /\ (tainted # {} \/ Pure), says that what tasklets hold and point *)
(* to is committed or their own; a tasklet that has read something else    *)
(* directly has a store before it that it will not be granted.             *)
(***************************************************************************)
EXTENDS AvlTree, NatLemmas, FiniteSetTheorems

Datum == Nat \cup (-1 .. 1) \cup Pointer

\* Logs of values: the old ones of a write set, and that of a load on its way.
Logs == UNION {[S -> Datum] : S \in SUBSET Word}

Txs  == [reads: SUBSET Word, undo: Logs, fresh: 0 .. NR_NODES, stale: SUBSET Word, late: BOOLEAN,
         peeked: BOOLEAN, got: Logs]
Regs == [n: Nat \ {0}, k: Nat \ {0}, current: Pointer, parent: Pointer, side: Side, bal: -1 .. 1,
         rx: Pointer, rz: Pointer, rside: Side, above: Side, phase: {"single", "first", "second"},
         ptr: Pointer, row: [k: Nat, data: Nat \cup {-1}]]

\* What tasklet t is at.
Running(t) ==
  /\ pc[t] # "idle" => reg[t].n <= Len(case.prog[t]) /\ reg[t].k \in 1 .. Len(Txn(t))
  /\ pc[t] = "idle" => tx[t] = NewTx /\ reg[t].k = 1

LogTyped(log) == \A w \in DOMAIN log : log[w] \in Value(w)

Typed ==
  /\ case \in Case
  /\ DOMAIN mem = Word /\ \A w \in Word : mem[w] \in Value(w)
  /\ owner \in [Word -> Tasklet \cup {NoTx}]
  /\ used \in [Tasklet -> 0 .. NR_NODES]
  /\ pc \in [Tasklet -> Labels]
  /\ tx \in [Tasklet -> Txs] /\ reg \in [Tasklet -> Regs]
  /\ \A t \in Tasklet : /\ Running(t) /\ used[t] + tx[t].fresh <= NR_NODES
                        /\ LogTyped(tx[t].undo) /\ LogTyped(tx[t].got)
  /\ rawRead \subseteq Tasklet \X Tasklet /\ tainted \subseteq {"read", "load"}

------------------------------------------------------------------------------
(* Words and logs *)

LEMMA EmptyLog == <<>> \in Logs /\ DOMAIN <<>> = {}
<1>1. <<>> = [x \in {} |-> x] /\ DOMAIN <<>> = {}
  OBVIOUS
<1>2. [x \in {} |-> x] \in [{} -> Datum]
  OBVIOUS
<1> QED  BY <1>1, <1>2 DEF Logs

LEMMA Logged ==
  ASSUME NEW u \in Logs
  PROVE  DOMAIN u \subseteq Word /\ u = [w \in DOMAIN u |-> u[w]]
BY DEF Logs

\* The log u with the old values of more words.
LEMMA LogGrows ==
  ASSUME NEW u \in Logs, NEW S \in SUBSET Word, NEW m, \A w \in Word : m[w] \in Value(w), LogTyped(u)
  PROVE  LET v == [w \in DOMAIN u \cup S |-> IF w \in DOMAIN u THEN u[w] ELSE m[w]]
         IN  v \in Logs /\ LogTyped(v)
<1> DEFINE v == [w \in DOMAIN u \cup S |-> IF w \in DOMAIN u THEN u[w] ELSE m[w]]
<1>1. \A w : Value(w) \subseteq Datum
  BY DEF Value, Datum
<1>2. DOMAIN u \cup S \in SUBSET Word
  BY Logged
<1>3. \A w \in DOMAIN u \cup S : v[w] \in Value(w)
  BY <1>2 DEF LogTyped
<1>4. v \in [DOMAIN u \cup S -> Datum]
  BY <1>1, <1>3
<1> QED  BY <1>2, <1>3, <1>4 DEF Logs, LogTyped

\* The log of one value.
LEMMA LogOfOne ==
  ASSUME NEW w \in Word, NEW v \in Value(w)
  PROVE  [x \in {w} |-> v] \in Logs /\ LogTyped([x \in {w} |-> v])
<1>1. v \in Datum
  BY DEF Value, Datum
<1>2. [x \in {w} |-> v] \in [{w} -> Datum]
  BY <1>1
<1> QED  BY <1>2 DEF Logs, LogTyped

LEMMA NewTxTyped ==
  /\ NewTx \in Txs /\ DOMAIN NewTx.undo = {} /\ NewTx.fresh = 0 /\ NewTx.stale = {}
  /\ LogTyped(NewTx.undo) /\ LogTyped(NewTx.got)
<1>1. NR_NODES \in Nat
  BY AvlAssumption
<1> QED  BY <1>1, EmptyLog DEF NewTx, Txs, LogTyped

LEMMA FreshTyped ==
  ASSUME NEW n \in Nat \ {0}, NEW k \in Nat \ {0}
  PROVE  Fresh(n, k) \in Regs /\ Fresh(n, k).n = n /\ Fresh(n, k).k = k
BY DEF Fresh, Regs, Pointer, Side, BALANCED

LEMMA Words ==
  /\ Root \in Word /\ Value(Root) = Pointer
  /\ \A n \in Pointer :
       /\ \A f \in Field : <<n, f>> \in Word
       /\ \A f \in Side \cup {"parent"} : <<n, f>> \in Word /\ Value(<<n, f>>) = Pointer
       /\ <<n, "key">> \in Word /\ Value(<<n, "key">>) = Nat
       /\ <<n, "data">> \in Word /\ Value(<<n, "data">>) = Nat
       /\ <<n, "balance">> \in Word /\ Value(<<n, "balance">>) = -1 .. 1
BY DEF Word, Value, Field, Side, Root

LEMMA Registers ==
  ASSUME Typed, NEW t \in Tasklet
  PROVE  /\ reg[t] \in Regs
         /\ {reg[t].current, reg[t].parent, reg[t].rx, reg[t].rz, reg[t].ptr} \subseteq Pointer
         /\ reg[t].side \in Side /\ reg[t].rside \in Side /\ reg[t].above \in Side
         /\ reg[t].n \in Nat \ {0} /\ reg[t].k \in Nat \ {0} /\ reg[t].bal \in -1 .. 1
         /\ Opp(reg[t].side) \in Side /\ Opp(reg[t].rside) \in Side
BY DEF Typed, Regs, Opp, Side

\* A load returns a value of its word.
LEMMA SeenTyped ==
  ASSUME Typed, NEW t \in Tasklet, NEW w \in Word
  PROVE  Seen(t, w) \in Value(w)
BY DEF Typed, Seen, LogTyped

------------------------------------------------------------------------------
(* Where a tasklet goes on *)

GoesOn(t, locals, label) ==
  /\ label \in Labels \ {"idle"} /\ locals \in Regs /\ locals.n = reg[t].n
  /\ locals.k \in 1 .. Len(Txn(t))

LEMMA CurrentOp ==
  ASSUME Typed, NEW t \in Tasklet, pc[t] # "idle"
  PROVE  CurOp(t) \in Op /\ CurOp(t).key \in Nat /\ CurOp(t).data \in Nat
<1>1. reg[t].n \in 1 .. Len(case.prog[t]) /\ reg[t].k \in 1 .. Len(Txn(t))
  <2>1. reg[t].n \in Nat \ {0} /\ reg[t].k \in Nat \ {0}
    BY DEF Typed, Regs
  <2>2. Running(t)
    BY DEF Typed
  <2>3. case.prog[t] \in Seq(Seq(Op) \ {<<>>})
    BY DEF Typed, Case
  <2> QED  BY <2>1, <2>2, <2>3 DEF Running
<1>2. Txn(t) \in Seq(Op)
  BY <1>1 DEF Typed, Case, Txn
<1>3. CurOp(t) \in Op
  BY <1>1, <1>2 DEF CurOp
<1> QED  BY <1>3, AvlAssumption DEF Op

\* A transaction whose operation has returned, with data or without.
LEMMA Returning ==
  ASSUME Typed, NEW t \in Tasklet, pc[t] # "idle"
  PROVE  /\ GoesOn(t, Returned(t), Return(t))
         /\ \A data \in Nat \cup {-1} : GoesOn(t, Answer(t, data), Return(t))
<1>1. reg[t].n \in Nat \ {0} /\ reg[t].k \in Nat \ {0} /\ reg[t].k <= Len(Txn(t)) /\ Len(Txn(t)) \in Nat
  <2>1. Txn(t) \in Seq(Op) /\ reg[t].k \in 1 .. Len(Txn(t))
    <3>1. Running(t) /\ case.prog[t] \in Seq(Seq(Op) \ {<<>>}) /\ reg[t].n \in Nat \ {0}
      BY Registers DEF Typed, Case
    <3> QED  BY <3>1 DEF Running, Txn
  <2> QED  BY <2>1, Registers
<1>2. Return(t) \in Labels \ {"idle"}
  BY DEF Return, Labels
<1> DEFINE k == IF reg[t].k < Len(Txn(t)) THEN reg[t].k + 1 ELSE reg[t].k
<1>3. k \in Nat \ {0} /\ k \in 1 .. Len(Txn(t))
  BY <1>1
<1>4. Returned(t) = Fresh(reg[t].n, k)
  BY DEF Returned
<1> HIDE DEF k
<1>5. Returned(t) \in Regs /\ Returned(t).n = reg[t].n /\ Returned(t).k = k
  BY <1>1, <1>3, <1>4, FreshTyped
<1>6. ASSUME NEW data \in Nat \cup {-1}
      PROVE  /\ Answer(t, data) \in Regs /\ Answer(t, data).n = reg[t].n /\ Answer(t, data).k = k
             /\ Answer(t, data).current = Returned(t).current
  BY <1>1, <1>5, <1>6 DEF Answer, Regs
<1> QED  BY <1>2, <1>3, <1>5, <1>6 DEF GoesOn

\* Other local variables in the same operation.
LEMMA Within ==
  ASSUME Typed, NEW t \in Tasklet, pc[t] # "idle", NEW label \in Labels \ {"idle"},
         NEW locals \in Regs, locals.n = reg[t].n, locals.k = reg[t].k
  PROVE  GoesOn(t, locals, label)
BY DEF Typed, Running, GoesOn, Txn

------------------------------------------------------------------------------
(* Every step keeps the types *)

\* Tasklet t does something of its own.
LEMMA MovesTyped ==
  ASSUME Typed, NEW t \in Tasklet, case' = case, used' = used,
         DOMAIN mem' = Word, \A w \in Word : mem'[w] \in Value(w),
         owner' \in [Word -> Tasklet \cup {NoTx}],
         NEW new, tx' = [tx EXCEPT ![t] = new], new \in Txs, new.fresh = tx[t].fresh,
         LogTyped(new.undo), LogTyped(new.got), pc[t] # "idle",
         NEW locals, NEW label, GoesOn(t, locals, label),
         \/ pc' = pc /\ reg' = reg
         \/ GiveUp(t)
         \/ Proceed(t, locals, label),
         rawRead' \subseteq Tasklet \X Tasklet, tainted' \subseteq {"read", "load"}
  PROVE  Typed'
<1>1. /\ tx' \in [Tasklet -> Txs] /\ tx'[t] = new /\ \A u \in Tasklet \ {t} : tx'[u] = tx[u]
      /\ \A u \in Tasklet \ {t} : reg'[u] = reg[u] /\ pc'[u] = pc[u]
      /\ reg' \in [Tasklet -> Regs] /\ pc' \in [Tasklet -> Labels] /\ pc'[t] # "idle"
      /\ reg'[t] \in {reg[t], locals}
  <2>1. tx' \in [Tasklet -> Txs] /\ tx'[t] = new /\ \A u \in Tasklet \ {t} : tx'[u] = tx[u]
    BY DEF Typed
  <2>2. \/ pc' = pc
        \/ \E l \in Labels \ {"idle"} : pc' = [pc EXCEPT ![t] = l]
    BY DEF GiveUp, Goto, Proceed, GoesOn, Labels
  <2>3. pc' \in [Tasklet -> Labels] /\ pc'[t] # "idle" /\ \A u \in Tasklet \ {t} : pc'[u] = pc[u]
    BY <2>2 DEF Typed
  <2>4. reg' = reg \/ reg' = [reg EXCEPT ![t] = locals]
    BY DEF GiveUp, Proceed
  <2>5. /\ reg' \in [Tasklet -> Regs] /\ reg'[t] \in {reg[t], locals}
        /\ \A u \in Tasklet \ {t} : reg'[u] = reg[u]
    BY <2>4 DEF Typed, GoesOn
  <2> QED  BY <2>1, <2>3, <2>5
<1> DEFINE Each(u) == /\ Running(u)' /\ used'[u] + tx'[u].fresh <= NR_NODES
                      /\ LogTyped(tx[u].undo)' /\ LogTyped(tx[u].got)'
<1>2. ASSUME NEW u \in Tasklet
      PROVE  Each(u)
  <2>1. /\ Running(u) /\ used[u] + tx[u].fresh <= NR_NODES
        /\ LogTyped(tx[u].undo) /\ LogTyped(tx[u].got)
    BY DEF Typed
  <2>2. CASE u = t
    <3>1. Running(t)'
      BY <1>1, <2>1, <2>2 DEF GoesOn, Running, Txn
    <3>2. used'[t] + tx'[t].fresh <= NR_NODES
      BY <1>1, <2>1, <2>2
    <3>3. LogTyped(tx[t].undo)' /\ LogTyped(tx[t].got)'
      BY <1>1 DEF LogTyped, Value
    <3> QED  BY <2>2, <3>1, <3>2, <3>3
  <2>3. CASE u # t
    <3>1. tx'[u] = tx[u] /\ reg'[u] = reg[u] /\ pc'[u] = pc[u]
      BY <1>1, <2>3
    <3>2. Running(u)'
      BY <2>1, <3>1 DEF Running, Txn
    <3>3. LogTyped(tx[u].undo)' /\ LogTyped(tx[u].got)'
      BY <2>1, <3>1 DEF LogTyped, Value
    <3> QED  BY <2>1, <3>1, <3>2, <3>3
  <2> QED  BY <2>2, <2>3
<1>3. case' \in Case /\ used' \in [Tasklet -> 0 .. NR_NODES]
  BY DEF Typed
<1>4. \A w \in Word : mem'[w] \in Value(w)'
  BY DEF Value
<1> QED  BY <1>1, <1>2, <1>3, <1>4 DEF Typed

LEMMA LoadTyped ==
  ASSUME Typed, NEW t \in Tasklet, pc[t] # "idle", NEW w \in Word, NEW locals, NEW label,
         GoesOn(t, locals, label), Load(t, w, locals, label)
  PROVE  Typed'
<1>0. /\ case' = case /\ used' = used /\ mem' = mem /\ owner' = owner /\ rawRead' = rawRead
      /\ tx[t] \in Txs /\ tx[t].undo \in Logs /\ LogTyped(tx[t].undo) /\ LogTyped(tx[t].got)
  BY DEF Load, Typed, Txs
<1>1. CASE tx' = [tx EXCEPT ![t].peeked = TRUE] /\ UNCHANGED <<pc, reg, tainted>>
  <2> DEFINE new == [tx[t] EXCEPT !.peeked = TRUE]
  <2>1. new \in Txs /\ new.fresh = tx[t].fresh /\ new.undo = tx[t].undo /\ new.got = tx[t].got
    BY <1>0 DEF Txs
  <2>2. tx' = [tx EXCEPT ![t] = new]
    BY <1>1 DEF Typed
  <2> HIDE DEF new
  <2> QED  BY <1>0, <1>1, <2>1, <2>2, MovesTyped DEF Typed
<1>2. CASE tx' = [tx EXCEPT ![t].got = [x \in {w} |-> mem[w]]] /\ UNCHANGED <<pc, reg, tainted>>
  <2> DEFINE log == [x \in {w} |-> mem[w]]
             new == [tx[t] EXCEPT !.got = log]
  <2>1. log \in Logs /\ LogTyped(log)
    BY LogOfOne DEF Typed
  <2>2. tx' = [tx EXCEPT ![t] = new]
    BY <1>2 DEF Typed
  <2> HIDE DEF log
  <2>3. new \in Txs /\ new.fresh = tx[t].fresh /\ new.undo = tx[t].undo /\ new.got = log
    BY <1>0, <2>1 DEF Txs
  <2> HIDE DEF new
  <2> QED  BY <1>0, <1>2, <2>1, <2>2, <2>3, MovesTyped DEF Typed
<1>3. CASE /\ tx' = [tx EXCEPT ![t].reads = IF owner[w] = t THEN @ ELSE @ \cup {w},
                               ![t].peeked = FALSE, ![t].got = <<>>]
           /\ Proceed(t, locals, label)
           /\ tainted' = IF Seen(t, w) = mem[w] THEN tainted ELSE tainted \cup {"load"}
  <2> DEFINE reads == IF owner[w] = t THEN tx[t].reads ELSE tx[t].reads \cup {w}
             new   == [tx[t] EXCEPT !.reads = reads, !.peeked = FALSE, !.got = <<>>]
  <2>1. reads \in SUBSET Word
    BY <1>0 DEF Txs
  <2>2. tx' = [tx EXCEPT ![t] = new]
    BY <1>3 DEF Typed
  <2> HIDE DEF reads
  <2>3. new \in Txs /\ new.fresh = tx[t].fresh /\ new.undo = tx[t].undo /\ new.got = <<>>
    BY <1>0, <2>1, EmptyLog DEF Txs
  <2>4. LogTyped(<<>>)
    BY EmptyLog DEF LogTyped
  <2> HIDE DEF new
  <2>5. tainted' \subseteq {"read", "load"}
    BY <1>3 DEF Typed
  <2>6. Proceed(t, locals, label)
    BY <1>3
  <2>7. DOMAIN mem = Word /\ (\A x \in Word : mem[x] \in Value(x)) /\ owner \in [Word -> Tasklet \cup {NoTx}]
        /\ rawRead \subseteq Tasklet \X Tasklet
    BY DEF Typed
  <2> QED  BY <1>0, <2>2, <2>3, <2>4, <2>5, <2>6, <2>7, MovesTyped
<1>4. CASE GiveUp(t) /\ UNCHANGED <<tx, tainted>>
  <2>1. tx' = [tx EXCEPT ![t] = tx[t]]
    BY <1>4 DEF Typed
  <2> QED  BY <1>0, <1>4, <2>1, MovesTyped DEF Typed
<1> QED  BY <1>1, <1>2, <1>3, <1>4 DEF Load

LEMMA ReadTyped ==
  ASSUME Typed, NEW t \in Tasklet, pc[t] # "idle", NEW w \in Word, NEW locals, NEW label,
         GoesOn(t, locals, label), ReadDirectly(t, w, locals, label)
  PROVE  Typed'
<1>1. /\ Proceed(t, locals, label) /\ UNCHANGED <<case, mem, owner, used, tx, snap, tainted>>
      /\ rawRead' = rawRead \cup {<<t, v>> : v \in Sources(t, w)}
  BY DEF ReadDirectly
<1>2. Sources(t, w) \subseteq Tasklet
  BY DEF Typed, Sources, Other
<1>3. tx[t] \in Txs /\ LogTyped(tx[t].undo) /\ LogTyped(tx[t].got) /\ tx' = [tx EXCEPT ![t] = tx[t]]
  BY <1>1 DEF Typed
<1>4. rawRead' \subseteq Tasklet \X Tasklet
  BY <1>1, <1>2 DEF Typed
<1> QED  BY <1>1, <1>3, <1>4, MovesTyped DEF Typed

\* What a store makes of the write set.
Logging(t, w) ==
  [x \in DOMAIN tx[t].undo \cup {w} |-> IF x \in DOMAIN tx[t].undo THEN tx[t].undo[x] ELSE mem[x]]

LEMMA StoreTyped ==
  ASSUME Typed, NEW t \in Tasklet, pc[t] # "idle", NEW w \in Word, NEW v \in Value(w),
         NEW locals, NEW label, GoesOn(t, locals, label), Store(t, w, v, locals, label)
  PROVE  Typed'
<1>0. tx[t] \in Txs /\ tx[t].undo \in Logs /\ LogTyped(tx[t].undo) /\ LogTyped(tx[t].got)
  BY DEF Typed, Txs
<1>1. CASE ~ Other(t, w)
  <2> DEFINE undo == Logging(t, w)
             new  == [tx[t] EXCEPT !.undo = undo]
  <2>1. /\ mem' = [mem EXCEPT ![w] = v] /\ owner' = [owner EXCEPT ![w] = t]
        /\ tx' = [tx EXCEPT ![t] = new]
        /\ GiveUp(t) \/ Proceed(t, locals, label)
        /\ case' = case /\ used' = used /\ rawRead' = rawRead /\ tainted' = tainted
    BY <1>1 DEF Store, Logging, ghosts, Typed
  <2>2. undo \in Logs /\ LogTyped(undo)
    <3>1. {w} \in SUBSET Word /\ \A x \in Word : mem[x] \in Value(x)
      BY DEF Typed
    <3> QED  BY <1>0, <3>1, LogGrows DEF Logging
  <2> HIDE DEF undo
  <2>3. new \in Txs /\ new.fresh = tx[t].fresh /\ new.undo = undo /\ new.got = tx[t].got
    BY <1>0, <2>2 DEF Txs
  <2> HIDE DEF new
  <2>4. DOMAIN mem' = Word /\ \A x \in Word : mem'[x] \in Value(x)
    BY <2>1 DEF Typed
  <2>5. owner' \in [Word -> Tasklet \cup {NoTx}]
    BY <2>1 DEF Typed
  <2> QED  BY <1>0, <2>1, <2>2, <2>3, <2>4, <2>5, MovesTyped DEF Typed
<1>2. CASE Other(t, w)
  <2>1. GiveUp(t) /\ UNCHANGED <<case, mem, owner, used, tx, ghosts>>
    BY <1>2 DEF Store
  <2>2. tx' = [tx EXCEPT ![t] = tx[t]]
    BY <2>1 DEF Typed
  <2> QED  BY <1>0, <2>1, <2>2, MovesTyped DEF Typed, ghosts
<1> QED  BY <1>1, <1>2

LEMMA RollBackTyped ==
  ASSUME Typed, NEW t \in Tasklet, RollBack(t), tx' \in [Tasklet -> Txs], tx'[t] = NewTx,
         \A u \in Tasklet \ {t} : /\ tx'[u].undo = tx[u].undo /\ tx'[u].fresh = tx[u].fresh /\ tx'[u].got = tx[u].got
                                  /\ pc[u] = "idle" => tx'[u] = NewTx
  PROVE  Typed'
<1>1. /\ case' = case /\ used' = used
      /\ mem' = [w \in Word |-> IF w \in DOMAIN tx[t].undo THEN tx[t].undo[w] ELSE mem[w]]
      /\ owner' = [w \in Word |-> IF owner[w] = t THEN NoTx ELSE owner[w]]
      /\ reg' = [reg EXCEPT ![t] = Fresh(reg[t].n, 1)] /\ pc' = [pc EXCEPT ![t] = "idle"]
      /\ rawRead' \subseteq rawRead /\ tainted' \subseteq {"read", "load"}
  BY DEF RollBack, Goto, Typed
<1>2. case' \in Case /\ used' \in [Tasklet -> 0 .. NR_NODES]
  BY <1>1 DEF Typed
<1>3. DOMAIN mem' = Word /\ \A w \in Word : mem'[w] \in Value(w)
  BY <1>1 DEF Typed, LogTyped
<1>4. owner' \in [Word -> Tasklet \cup {NoTx}] /\ pc' \in [Tasklet -> Labels]
  BY <1>1 DEF Typed, Labels
<1>5. reg' \in [Tasklet -> Regs] /\ reg'[t].k = 1
  <2>1. reg[t] \in Regs
    BY DEF Typed
  <2>2. reg[t].n \in Nat \ {0}
    BY <2>1 DEF Regs
  <2>3. Fresh(reg[t].n, 1) \in Regs /\ Fresh(reg[t].n, 1).k = 1
    BY <2>2, FreshTyped
  <2> QED  BY <1>1, <2>3 DEF Typed
<1>6. ASSUME NEW u \in Tasklet
      PROVE  /\ Running(u)' /\ used'[u] + tx'[u].fresh <= NR_NODES
             /\ LogTyped(tx[u].undo)' /\ LogTyped(tx[u].got)'
  <2>1. CASE u = t
    <3>1. used[t] \in 0 .. NR_NODES /\ NR_NODES \in Nat
      BY AvlAssumption DEF Typed
    <3>2. pc'[t] = "idle"
      BY <1>1 DEF Typed
    <3> QED  BY <1>1, <1>5, <2>1, <3>1, <3>2, NewTxTyped DEF Running, LogTyped, Value
  <2>2. CASE u # t
    <3>1. pc'[u] = pc[u] /\ reg'[u] = reg[u]
      BY <1>1, <2>2 DEF Typed
    <3>2. Running(u) /\ used[u] + tx[u].fresh <= NR_NODES
          /\ LogTyped(tx[u].undo) /\ LogTyped(tx[u].got)
      BY DEF Typed
    <3>3. tx'[u].undo = tx[u].undo /\ tx'[u].fresh = tx[u].fresh /\ tx'[u].got = tx[u].got /\ (pc[u] = "idle" => tx'[u] = NewTx)
      BY <2>2
    <3> QED  BY <1>1, <3>1, <3>2, <3>3 DEF Running, Txn, LogTyped, Value
  <2> QED  BY <2>1, <2>2
<1>7. rawRead' \subseteq Tasklet \X Tasklet /\ tainted' \subseteq {"read", "load"}
  BY <1>1 DEF Typed
<1> QED
  <2> DEFINE Each(u) == /\ Running(u)' /\ used'[u] + tx'[u].fresh <= NR_NODES
                        /\ LogTyped(tx[u].undo)' /\ LogTyped(tx[u].got)'
  <2>1. \A u \in Tasklet : Each(u)
    BY <1>6
  <2> QED  BY <1>2, <1>3, <1>4, <1>5, <1>7, <2>1 DEF Typed, Value

LEMMA AbortTyped ==
  ASSUME Typed, NEW t \in Tasklet, Abort(t)
  PROVE  Typed'
<1>1. RollBack(t) /\ tx' = [tx EXCEPT ![t] = NewTx]
  BY DEF Abort
<1>2. tx' \in [Tasklet -> Txs] /\ tx'[t] = NewTx /\ \A u \in Tasklet \ {t} : tx'[u] = tx[u]
  BY <1>1, NewTxTyped DEF Typed
<1>3. \A u \in Tasklet \ {t} : pc[u] = "idle" => tx[u] = NewTx
  BY DEF Typed, Running
<1> QED  BY <1>1, <1>2, <1>3, RollBackTyped

LEMMA BeginTyped ==
  ASSUME Typed, NEW t \in Tasklet, Begin(t)
  PROVE  Typed'
<1>1. /\ case' = case /\ mem' = mem /\ owner' = owner /\ used' = used /\ reg' = reg
      /\ rawRead' = rawRead /\ tainted' = tainted
      /\ tx' = [tx EXCEPT ![t] = NewTx] /\ pc' = [pc EXCEPT ![t] = "enter"]
      /\ pc[t] = "idle" /\ reg[t].n <= Len(case.prog[t])
  BY DEF Begin, Goto
<1>2. tx' = tx
  BY <1>1 DEF Typed, Running
<1>3. Running(t)'
  <2>1. case.prog[t] \in Seq(Seq(Op) \ {<<>>}) /\ reg[t].n \in Nat \ {0} /\ reg[t].k = 1
    BY <1>1, Registers DEF Typed, Case, Running
  <2>2. Txn(t) \in Seq(Op) \ {<<>>}
    BY <1>1, <2>1 DEF Txn
  <2>3. Len(Txn(t)) \in Nat \ {0}
    BY <2>2
  <2>4. pc'[t] # "idle"
    BY <1>1 DEF Typed
  <2>5. reg[t].k \in 1 .. Len(Txn(t))
    BY <2>1, <2>3
  <2> QED  BY <1>1, <2>4, <2>5 DEF Running, Txn
<1>4. pc' \in [Tasklet -> Labels]
  BY <1>1 DEF Typed, Labels
<1>5. ASSUME NEW u \in Tasklet
      PROVE  Running(u)'
  <2>1. CASE u = t
    BY <1>3, <2>1
  <2>2. CASE u # t
    <3>1. pc'[u] = pc[u] /\ Running(u)
      BY <1>1, <2>2 DEF Typed
    <3> QED  BY <1>1, <1>2, <3>1 DEF Running, Txn
  <2> QED  BY <2>1, <2>2
<1> QED  BY <1>1, <1>2, <1>4, <1>5 DEF Typed, Value, LogTyped

\* What the commit of t, or its failing validation, does to the descriptors.
LEMMA Overtaken ==
  ASSUME Typed, NEW t \in Tasklet, NEW writes \in SUBSET Word, Overtake(t, writes)
  PROVE  /\ tx' \in [Tasklet -> Txs] /\ tx'[t] = NewTx
         /\ \A u \in Tasklet : pc[u] = "idle" => tx'[u] = NewTx
         /\ \A u \in Tasklet \ {t} : /\ tx'[u].undo = tx[u].undo /\ tx'[u].fresh = tx[u].fresh /\ tx'[u].got = tx[u].got
                                     /\ pc[u] # "idle" => tx'[u].stale = tx[u].stale \cup writes
<1> DEFINE other(u) == [tx[u] EXCEPT !.stale = @ \cup writes, !.late = TRUE]
<1>1. tx' = [u \in Tasklet |-> IF u = t \/ pc[u] = "idle" THEN NewTx ELSE other(u)]
  BY DEF Overtake
<1>2. ASSUME NEW u \in Tasklet
      PROVE  /\ other(u) \in Txs /\ other(u).undo = tx[u].undo /\ other(u).fresh = tx[u].fresh
             /\ other(u).stale = tx[u].stale \cup writes /\ other(u).got = tx[u].got
  <2>1. tx[u] \in Txs
    BY DEF Typed
  <2> QED  BY <2>1 DEF Txs
<1>3. \A u \in Tasklet : pc[u] = "idle" => tx[u] = NewTx
  BY DEF Typed, Running
<1> HIDE DEF other
<1> QED  BY <1>1, <1>2, <1>3, NewTxTyped

LEMMA CommitTyped ==
  ASSUME Typed, NEW t \in Tasklet, Commit(t)
  PROVE  Typed'
<1> DEFINE writes == DOMAIN tx[t].undo
<1>0. pc[t] = "commit" /\ tx[t] \in Txs /\ tx[t].undo \in Logs /\ writes \subseteq Word
  BY Logged DEF Commit, Typed, Txs
<1>1. CASE /\ Overtake(t, writes) /\ Goto(t, "idle")
           /\ owner' = [w \in Word |-> IF w \in writes THEN NoTx ELSE owner[w]]
           /\ used' = [used EXCEPT ![t] = @ + tx[t].fresh]
           /\ reg' = [reg EXCEPT ![t] = Fresh(@.n + 1, 1)]
           /\ rawRead' = {p \in rawRead : t \notin {p[1], p[2]}}
           /\ UNCHANGED <<case, mem, snap, tainted>>
  <2>1. /\ tx' \in [Tasklet -> Txs] /\ tx'[t] = NewTx
        /\ \A u \in Tasklet : pc[u] = "idle" => tx'[u] = NewTx
        /\ \A u \in Tasklet \ {t} : tx'[u].undo = tx[u].undo /\ tx'[u].fresh = tx[u].fresh /\ tx'[u].got = tx[u].got
    BY <1>0, <1>1, Overtaken
  <2>2. /\ case' = case /\ mem' = mem /\ tainted' = tainted /\ rawRead' \subseteq rawRead
        /\ pc' = [pc EXCEPT ![t] = "idle"]
    BY <1>1 DEF Goto
  <2>3. owner' \in [Word -> Tasklet \cup {NoTx}] /\ pc' \in [Tasklet -> Labels]
    BY <1>1, <2>2 DEF Typed, Labels
  <2>4. used' \in [Tasklet -> 0 .. NR_NODES] /\ used'[t] + tx'[t].fresh <= NR_NODES
    <3>1. used[t] \in 0 .. NR_NODES /\ tx[t].fresh \in 0 .. NR_NODES /\ NR_NODES \in Nat
          /\ used[t] + tx[t].fresh <= NR_NODES
      BY <1>0, AvlAssumption DEF Typed, Txs
    <3>2. used'[t] = used[t] + tx[t].fresh
      BY <1>1 DEF Typed
    <3>3. used[t] + tx[t].fresh \in 0 .. NR_NODES /\ tx'[t].fresh = 0
      BY <2>1, <3>1, NewTxTyped
    <3> QED  BY <1>1, <3>1, <3>2, <3>3 DEF Typed
  <2>5. reg' \in [Tasklet -> Regs] /\ reg'[t].k = 1
    <3>1. reg[t].n + 1 \in Nat \ {0}
      BY Registers
    <3>2. Fresh(reg[t].n + 1, 1) \in Regs /\ Fresh(reg[t].n + 1, 1).k = 1
      BY <3>1, FreshTyped
    <3> QED  BY <1>1, <3>2 DEF Typed
  <2> DEFINE Each(u) == /\ Running(u)' /\ used'[u] + tx'[u].fresh <= NR_NODES
                        /\ LogTyped(tx[u].undo)' /\ LogTyped(tx[u].got)'
  <2>6. ASSUME NEW u \in Tasklet
        PROVE  Each(u)
    <3>1. CASE u = t
      <4>1. pc'[t] = "idle"
        BY <2>2 DEF Typed
      <4> QED  BY <2>1, <2>4, <2>5, <3>1, <4>1, NewTxTyped DEF Running, LogTyped, Value
    <3>2. CASE u # t
      <4>1. pc'[u] = pc[u] /\ reg'[u] = reg[u] /\ used'[u] = used[u]
        BY <1>1, <2>2, <3>2 DEF Typed
      <4>2. Running(u) /\ used[u] + tx[u].fresh <= NR_NODES
            /\ LogTyped(tx[u].undo) /\ LogTyped(tx[u].got)
        BY DEF Typed
      <4> QED  BY <2>1, <2>2, <3>2, <4>1, <4>2 DEF Running, Txn, LogTyped, Value
    <3> QED  BY <3>1, <3>2
  <2> HIDE DEF writes
  <2>7. /\ case' \in Case /\ DOMAIN mem' = Word /\ \A w \in Word : mem'[w] \in Value(w)
        /\ rawRead' \subseteq Tasklet \X Tasklet /\ tainted' \subseteq {"read", "load"}
    BY <2>2 DEF Typed
  <2> QED  BY <2>1, <2>3, <2>4, <2>5, <2>6, <2>7 DEF Typed, Value
<1>2. CASE Overtake(t, {}) /\ RollBack(t)
  <2>1. /\ tx' \in [Tasklet -> Txs] /\ tx'[t] = NewTx
        /\ \A u \in Tasklet : pc[u] = "idle" => tx'[u] = NewTx
        /\ \A u \in Tasklet \ {t} : tx'[u].undo = tx[u].undo /\ tx'[u].fresh = tx[u].fresh /\ tx'[u].got = tx[u].got
    BY <1>2, Overtaken
  <2> QED  BY <1>2, <2>1, RollBackTyped
<1> QED  BY <1>1, <1>2 DEF Commit

\* The words of a node as it is allocated.
NewNode(t) ==
  [f \in Field |-> CASE f = "key" -> CurOp(t).key [] f = "data" -> CurOp(t).data
                     [] f = "parent" -> reg[t].parent [] f = "balance" -> BALANCED
                     [] OTHER -> Null]

NextNode(t) == <<t, used[t] + tx[t].fresh + 1>>

LEMMA AllocDone ==
  ASSUME Typed, NEW t \in Tasklet, Alloc(t)
  PROVE  /\ NextNode(t) \in Node /\ NextNode(t) # Null
         /\ pc[t] = "alloc" /\ \E l \in {"hang", "link"} : pc' = [pc EXCEPT ![t] = l]
         /\ mem' = [w \in Word |-> IF w[1] = NextNode(t) THEN NewNode(t)[w[2]] ELSE mem[w]]
         /\ tx' = [tx EXCEPT ![t] = [tx[t] EXCEPT !.fresh = tx[t].fresh + 1]]
         /\ reg' = [reg EXCEPT ![t] = [reg[t] EXCEPT !.current = NextNode(t)]]
         /\ used[t] + tx[t].fresh + 1 <= NR_NODES
         /\ UNCHANGED <<case, owner, used, ghosts>>
<1>1. used[t] \in Nat /\ tx[t].fresh \in Nat /\ NR_NODES \in Nat
  BY AvlAssumption DEF Typed, Txs
<1>2. used[t] + tx[t].fresh + 1 <= NR_NODES
  BY DEF Alloc
<1>3. NextNode(t) \in Node
  BY <1>1, <1>2 DEF NextNode, Node
<1>4. NextNode(t) # Null
  BY <1>3, AvlAssumption
<1>5. tx' = [tx EXCEPT ![t] = [tx[t] EXCEPT !.fresh = tx[t].fresh + 1]]
  BY DEF Alloc, Typed
<1>6. reg' = [reg EXCEPT ![t] = [reg[t] EXCEPT !.current = NextNode(t)]]
  BY DEF Alloc, Proceed, NextNode, Typed
<1>7. mem' = [w \in Word |-> IF w[1] = NextNode(t) THEN NewNode(t)[w[2]] ELSE mem[w]]
  BY DEF Alloc, NextNode, NewNode
<1>8. \E l \in {"hang", "link"} : pc' = [pc EXCEPT ![t] = l]
  BY DEF Alloc, Proceed, Goto
<1> QED  BY <1>2, <1>3, <1>4, <1>5, <1>6, <1>7, <1>8 DEF Alloc, At

LEMMA AllocTyped ==
  ASSUME Typed, NEW t \in Tasklet, Alloc(t)
  PROVE  Typed'
<1>1. /\ NextNode(t) \in Pointer /\ NextNode(t) # Null /\ pc[t] # "idle"
      /\ \E l \in {"hang", "link"} : pc' = [pc EXCEPT ![t] = l]
      /\ mem' = [w \in Word |-> IF w[1] = NextNode(t) THEN NewNode(t)[w[2]] ELSE mem[w]]
      /\ tx' = [tx EXCEPT ![t] = [tx[t] EXCEPT !.fresh = tx[t].fresh + 1]]
      /\ reg' = [reg EXCEPT ![t] = [reg[t] EXCEPT !.current = NextNode(t)]]
      /\ used[t] + tx[t].fresh + 1 <= NR_NODES
      /\ case' = case /\ owner' = owner /\ used' = used /\ rawRead' = rawRead /\ tainted' = tainted
  BY AllocDone DEF Pointer, ghosts
<1>0. NextNode(t) # Tree
  BY AllocDone, AvlAssumption
<1>2. ASSUME NEW w \in Word
      PROVE  mem'[w] \in Value(w)
  <2>1. CASE w[1] # NextNode(t)
    BY <1>1, <2>1 DEF Typed
  <2>2. CASE w[1] = NextNode(t) /\ w # Root
    <3>1. w[2] \in Field
      BY <2>2 DEF Word
    <3>2. mem'[w] = NewNode(t)[w[2]]
      BY <1>1, <2>2
    <3>3. CurOp(t).key \in Nat /\ CurOp(t).data \in Nat /\ reg[t].parent \in Pointer /\ Null \in Pointer
      BY <1>1, CurrentOp, Registers DEF Pointer
    <3>4. NewNode(t)[w[2]] = CASE w[2] = "key" -> CurOp(t).key [] w[2] = "data" -> CurOp(t).data
                     [] w[2] = "parent" -> reg[t].parent [] w[2] = "balance" -> BALANCED
                     [] OTHER -> Null
      BY <3>1 DEF NewNode
    <3> QED  BY <3>1, <3>2, <3>3, <3>4 DEF Value, BALANCED, Field, Side
  <2>3. CASE w = Root /\ w[1] = NextNode(t)
    BY <1>0, <2>3 DEF Root
  <2> QED  BY <2>1, <2>2, <2>3
<1>3. tx[t] \in Txs /\ reg[t] \in Regs /\ used[t] \in Nat /\ tx[t].fresh \in Nat /\ NR_NODES \in Nat
  BY AvlAssumption DEF Typed, Txs
<1>4. /\ tx' \in [Tasklet -> Txs] /\ tx'[t].fresh = tx[t].fresh + 1 /\ tx'[t].undo = tx[t].undo /\ tx'[t].got = tx[t].got
      /\ \A u \in Tasklet \ {t} : tx'[u] = tx[u]
  <2> DEFINE new == [tx[t] EXCEPT !.fresh = tx[t].fresh + 1]
  <2>1. tx[t].fresh + 1 \in 0 .. NR_NODES
    BY <1>1, <1>3
  <2>2. new \in Txs /\ new.fresh = tx[t].fresh + 1 /\ new.undo = tx[t].undo /\ new.got = tx[t].got
    BY <1>3, <2>1 DEF Txs
  <2> HIDE DEF new
  <2>3. tx' = [tx EXCEPT ![t] = new]
    BY <1>1 DEF new
  <2> QED  BY <2>2, <2>3 DEF Typed
<1>5. /\ reg' \in [Tasklet -> Regs] /\ reg'[t].n = reg[t].n /\ reg'[t].k = reg[t].k
      /\ \A u \in Tasklet \ {t} : reg'[u] = reg[u]
  <2> DEFINE new == [reg[t] EXCEPT !.current = NextNode(t)]
  <2>1. new \in Regs /\ new.n = reg[t].n /\ new.k = reg[t].k
    BY <1>1, <1>3 DEF Regs
  <2> HIDE DEF new
  <2>2. reg' = [reg EXCEPT ![t] = new]
    BY <1>1 DEF new
  <2> QED  BY <2>1, <2>2 DEF Typed
<1>6. DOMAIN mem' = Word /\ pc' \in [Tasklet -> Labels]
  BY <1>1 DEF Typed, Labels
<1> DEFINE Each(u) == /\ Running(u)' /\ used'[u] + tx'[u].fresh <= NR_NODES
                      /\ LogTyped(tx[u].undo)' /\ LogTyped(tx[u].got)'
<1>7. ASSUME NEW u \in Tasklet
      PROVE  Each(u)
  <2>1. Running(u) /\ used[u] + tx[u].fresh <= NR_NODES
        /\ LogTyped(tx[u].undo) /\ LogTyped(tx[u].got)
    BY DEF Typed
  <2>2. CASE u = t
    <3>1. pc'[t] # "idle"
      BY <1>1 DEF Typed
    <3> QED  BY <1>1, <1>3, <1>4, <1>5, <2>1, <2>2, <3>1 DEF Running, Txn, LogTyped, Value
  <2>3. CASE u # t
    <3>1. pc'[u] = pc[u]
      BY <1>1, <2>3 DEF Typed
    <3> QED  BY <1>1, <1>4, <1>5, <2>1, <2>3, <3>1 DEF Running, Txn, LogTyped, Value
  <2> QED  BY <2>2, <2>3
<1> QED  BY <1>1, <1>2, <1>4, <1>5, <1>6, <1>7 DEF Typed, Value

------------------------------------------------------------------------------
(* What the steps have in common *)

\* The fields that are pointers, and the words that are.
Links     == Side \cup {"parent"}
Points(w) == w = Root \/ w[2] \in Links

Ptrs(r) == {r.current, r.parent, r.rx, r.rz, r.ptr}

\* Words that have been or may have been read directly, and that the rotation has
\* still to store before it returns: where x points to z, where z points to its
\* inner child and where x points up.
Moving == {"take", "give", "adopt", "raise", "lift", "test", "peer", "which", "again", "replace", "sink"}

PendingAt(r, l) ==
  (IF l \in {"heavier", "hook", "take", "give"} THEN {<<r.rx, r.rside>>} ELSE {})
    \cup (IF l \in Moving THEN {<<r.rz, Opp(r.rside)>>} ELSE {})
    \cup (IF l \in Moving \cup {"turn"} THEN {<<r.rx, "parent">>} ELSE {})

Pending(t) == PendingAt(reg[t], pc[t])

\* t accesses w, which it has a pointer to, and goes on with nothing but the pointers
\* it has and v.
Onward(t, w, v, locals, label) ==
  /\ w \in Word /\ (w = Root \/ w[1] \in Ptrs(reg[t]))
  /\ GoesOn(t, locals, label)
  /\ Ptrs(locals) \subseteq Ptrs(reg[t]) \cup {Null} \cup (IF Points(w) THEN {v} ELSE {})

Loading(t) ==
  \E w \in Word, locals \in Regs, label \in Labels :
    /\ Load(t, w, locals, label) /\ Onward(t, w, Seen(t, w), locals, label)
    /\ Pending(t) \subseteq PendingAt(locals, label)

Reading(t) ==
  \E w \in Word, locals \in Regs, label \in Labels :
    /\ ReadDirectly(t, w, locals, label) /\ Onward(t, w, mem[w], locals, label)
    /\ Pending(t) \cup {w} \subseteq PendingAt(locals, label)

Storing(t) ==
  \E w \in Word, locals \in Regs, label \in Labels : \E v \in Value(w) :
    /\ Store(t, w, v, locals, label) /\ Onward(t, w, Null, locals, label)
    /\ Points(w) => v \in Ptrs(reg[t]) \cup {Null}
    /\ Pending(t) \ {w} \subseteq PendingAt(locals, label)

Accesses(t) == pc[t] \notin {"idle", "abort"} /\ (Loading(t) \/ Reading(t) \/ Storing(t))

LEMMA NothingPending ==
  ASSUME NEW r, NEW l, l \notin Moving \cup {"heavier", "hook", "turn"}
  PROVE  PendingAt(r, l) = {}
BY DEF PendingAt, Moving

LEMMA Opposite == \A s \in Side : Opp(s) \in Side /\ s \in Links /\ s \in Field
BY DEF Opp, Side, Links, Field

LEMMA LinkWords ==
  /\ Points(Root)
  /\ \A n \in Pointer : /\ \A f \in Links : /\ <<n, f>> \in Word /\ Points(<<n, f>>)
                                            /\ Value(<<n, f>>) = Pointer /\ <<n, f>>[1] = n
                        /\ \A f \in Field : <<n, f>> \in Word /\ <<n, f>>[1] = n
BY Words DEF Points, Links

LEMMA PointsTyped ==
  ASSUME NEW w \in Word, Points(w)
  PROVE  Value(w) = Pointer
BY Words DEF Points, Links, Side, Value, Root

\* Back in the transaction, with nothing pending and nothing pointed to.
LEMMA ReturnsPlain ==
  ASSUME Typed, NEW t \in Tasklet, pc[t] # "idle"
  PROVE  /\ Return(t) \in Labels /\ Returned(t) \in Regs /\ Ptrs(Returned(t)) = {Null}
         /\ GoesOn(t, Returned(t), Return(t))
         /\ \A data \in Nat \cup {-1} : /\ Answer(t, data) \in Regs /\ Ptrs(Answer(t, data)) = {Null}
                                        /\ GoesOn(t, Answer(t, data), Return(t))
<1>1. /\ Returned(t).current = Null /\ Returned(t).parent = Null /\ Returned(t).rx = Null
      /\ Returned(t).rz = Null /\ Returned(t).ptr = Null
  BY DEF Returned, Fresh
<1>2. ASSUME NEW data \in Nat \cup {-1}
      PROVE  Ptrs(Answer(t, data)) = {Null}
  <2>1. /\ Answer(t, data).current = Null /\ Answer(t, data).parent = Null /\ Answer(t, data).rx = Null
        /\ Answer(t, data).rz = Null /\ Answer(t, data).ptr = Null
    BY <1>1 DEF Answer, Returned, Fresh
  <2> QED  BY <2>1 DEF Ptrs
<1>3. Ptrs(Returned(t)) = {Null}
  BY <1>1 DEF Ptrs
<1> QED  BY <1>2, <1>3, Returning DEF GoesOn

LEMMA FollowAccesses ==
  ASSUME Typed, NEW t \in Tasklet, pc[t] \in {"enter", "child"}, NEW w \in Word, Points(w),
         w = Root \/ w[1] \in Ptrs(reg[t]), NEW locals \in Regs, Follow(t, w, locals),
         locals.n = reg[t].n, locals.k = reg[t].k, Ptrs(locals) \subseteq Ptrs(reg[t])
  PROVE  Accesses(t)
<1> DEFINE next == [locals EXCEPT !.current = Seen(t, w)]
<1>0. /\ pc[t] \notin {"idle", "abort"} /\ Pending(t) = {} /\ Seen(t, w) \in Pointer
      /\ NoData \in Nat \cup {-1} /\ "alloc" \in Labels \ {"idle"} /\ "key" \in Labels \ {"idle"}
  BY SeenTyped, PointsTyped, NothingPending DEF Pending, Moving, NoData, Labels
<1>1. CASE Load(t, w, next, "key")
  <2>1. next \in Regs /\ next.n = reg[t].n /\ next.k = reg[t].k
    BY <1>0 DEF Regs
  <2>2. Ptrs(next) \subseteq Ptrs(reg[t]) \cup {Seen(t, w)}
    BY <1>0 DEF Regs, Ptrs
  <2>3. GoesOn(t, next, "key")
    BY <1>0, <2>1, Within
  <2> HIDE DEF next
  <2>4. Onward(t, w, Seen(t, w), next, "key")
    BY <2>2, <2>3 DEF Onward
  <2> QED  BY <1>0, <1>1, <2>1, <2>4 DEF Accesses, Loading
<1>2. CASE Load(t, w, locals, "alloc")
  <2>1. GoesOn(t, locals, "alloc")
    BY <1>0, Within
  <2>2. Onward(t, w, Seen(t, w), locals, "alloc")
    BY <2>1 DEF Onward
  <2> QED  BY <1>0, <1>2, <2>2 DEF Accesses, Loading
<1>3. CASE Load(t, w, Answer(t, NoData), Return(t))
  <2>1. Onward(t, w, Seen(t, w), Answer(t, NoData), Return(t))
    BY <1>0, ReturnsPlain DEF Onward
  <2> QED  BY <1>0, <1>3, <2>1, ReturnsPlain DEF Accesses, Loading
<1> QED  BY <1>1, <1>2, <1>3 DEF Follow

LEMMA Loads ==
  ASSUME Typed, NEW t \in Tasklet, pc[t] \notin {"idle", "abort"}, NEW w \in Word,
         w = Root \/ w[1] \in Ptrs(reg[t]), NEW locals \in Regs, NEW label \in Labels \ {"idle"},
         locals.n = reg[t].n, locals.k = reg[t].k,
         Ptrs(locals) \subseteq Ptrs(reg[t]) \cup {Null} \cup (IF Points(w) THEN {Seen(t, w)} ELSE {}),
         Pending(t) \subseteq PendingAt(locals, label), Load(t, w, locals, label)
  PROVE  Accesses(t)
<1>1. GoesOn(t, locals, label)
  BY Within
<1>2. Onward(t, w, Seen(t, w), locals, label)
  BY <1>1 DEF Onward
<1> QED  BY <1>2 DEF Accesses, Loading

LEMMA LoadsLast ==
  ASSUME Typed, NEW t \in Tasklet, pc[t] \notin {"idle", "abort"}, NEW w \in Word,
         w = Root \/ w[1] \in Ptrs(reg[t]), Pending(t) = {},
         \/ Load(t, w, Returned(t), Return(t))
         \/ \E data \in Nat : Load(t, w, Answer(t, data), Return(t))
  PROVE  Accesses(t)
<1>1. Onward(t, w, Seen(t, w), Returned(t), Return(t))
  BY ReturnsPlain DEF Onward
<1>2. \A data \in Nat : Onward(t, w, Seen(t, w), Answer(t, data), Return(t))
  BY ReturnsPlain DEF Onward
<1>3. Return(t) \in Labels /\ Returned(t) \in Regs /\ \A data \in Nat : Answer(t, data) \in Regs
  BY ReturnsPlain
<1>4. CASE Load(t, w, Returned(t), Return(t))
  BY <1>1, <1>3, <1>4 DEF Accesses, Loading
<1>5. ASSUME NEW data \in Nat, Load(t, w, Answer(t, data), Return(t))
      PROVE  Accesses(t)
  BY <1>2, <1>3, <1>5 DEF Accesses, Loading
<1> QED  BY <1>4, <1>5

LEMMA Reads ==
  ASSUME Typed, NEW t \in Tasklet, pc[t] \notin {"idle", "abort"}, NEW w \in Word,
         w[1] \in Ptrs(reg[t]), Points(w), NEW locals \in Regs, NEW label \in Labels \ {"idle"},
         locals.n = reg[t].n, locals.k = reg[t].k, Ptrs(locals) \subseteq Ptrs(reg[t]) \cup {mem[w]},
         Pending(t) \cup {w} \subseteq PendingAt(locals, label), ReadDirectly(t, w, locals, label)
  PROVE  Accesses(t)
<1>1. GoesOn(t, locals, label)
  BY Within
<1>2. Onward(t, w, mem[w], locals, label)
  BY <1>1 DEF Onward
<1> QED  BY <1>2 DEF Accesses, Reading

LEMMA Stores ==
  ASSUME Typed, NEW t \in Tasklet, pc[t] \notin {"idle", "abort"}, NEW w \in Word,
         w = Root \/ w[1] \in Ptrs(reg[t]), NEW locals \in Regs, NEW label \in Labels \ {"idle"},
         locals.n = reg[t].n, locals.k = reg[t].k, Ptrs(locals) \subseteq Ptrs(reg[t]),
         NEW v \in Value(w), Points(w) => v \in Ptrs(reg[t]) \cup {Null},
         Pending(t) \ {w} \subseteq PendingAt(locals, label), Store(t, w, v, locals, label)
  PROVE  Accesses(t)
<1>1. GoesOn(t, locals, label)
  BY Within
<1>2. Onward(t, w, Null, locals, label)
  BY <1>1 DEF Onward
<1> QED  BY <1>2 DEF Accesses, Storing

LEMMA StoresLast ==
  ASSUME Typed, NEW t \in Tasklet, pc[t] \notin {"idle", "abort"}, NEW w \in Word,
         w = Root \/ w[1] \in Ptrs(reg[t]), Pending(t) = {},
         NEW v \in Value(w), Points(w) => v \in Ptrs(reg[t]) \cup {Null},
         Store(t, w, v, Returned(t), Return(t))
  PROVE  Accesses(t)
<1>1. Onward(t, w, Null, Returned(t), Return(t)) /\ Return(t) \in Labels /\ Returned(t) \in Regs
  BY ReturnsPlain DEF Onward
<1> QED  BY <1>1 DEF Accesses, Storing

\* Pointers and words that t has.
LEMMA Reachable ==
  ASSUME Typed, NEW t \in Tasklet
  PROVE  /\ Ptrs(reg[t]) \subseteq Pointer
         /\ \A n \in Ptrs(reg[t]) :
              /\ \A f \in Field : <<n, f>> \in Word /\ <<n, f>>[1] = n
              /\ \A f \in Links : <<n, f>> \in Word /\ Points(<<n, f>>) /\ Value(<<n, f>>) = Pointer
              /\ Value(<<n, "balance">>) = -1 .. 1 /\ Value(<<n, "key">>) = Nat
              /\ Value(<<n, "data">>) = Nat
              /\ <<n, "key">> \in Word /\ <<n, "data">> \in Word /\ <<n, "balance">> \in Word
              /\ <<n, "left">> \in Word /\ <<n, "parent">> \in Word
              /\ Points(<<n, "left">>) /\ Points(<<n, "parent">>) /\ ~ Points(<<n, "balance">>)
              /\ Value(<<n, "left">>) = Pointer /\ Value(<<n, "parent">>) = Pointer
         /\ {reg[t].current, reg[t].parent, reg[t].rx, reg[t].rz, reg[t].ptr} = Ptrs(reg[t])
<1>1. Ptrs(reg[t]) \subseteq Pointer
  BY Registers DEF Ptrs
<1>2. \A n : ~ Points(<<n, "balance">>)
  BY DEF Points, Links, Side, Root
<1>3. "left" \in Links /\ "parent" \in Links
  BY DEF Links, Side
<1> QED  BY <1>1, <1>2, <1>3, Words, LinkWords DEF Ptrs, Field, Side

\* The balance of a node that t points to.
LEMMA Balances ==
  ASSUME Typed, NEW t \in Tasklet, NEW n \in Ptrs(reg[t])
  PROVE  LET w == <<n, "balance">>
         IN  w \in Word /\ w[1] \in Ptrs(reg[t]) /\ Seen(t, w) \in -1 .. 1
<1>1. PICK w : w = <<n, "balance">>
  OBVIOUS
<1>2. w \in Word /\ Value(w) = -1 .. 1
  BY <1>1, Reachable
<1>3. Seen(t, w) \in -1 .. 1
  BY <1>2, SeenTyped
<1> QED  BY <1>1, <1>2, <1>3

LEMMA DescendAccesses ==
  ASSUME Typed, NEW t \in Tasklet, Descend(t)
  PROVE  Accesses(t)
<1>0. reg[t] \in Regs /\ reg[t].current \in Ptrs(reg[t]) /\ reg[t].side \in Side
      /\ Ptrs(reg[t]) \subseteq Pointer
  BY Registers, Reachable DEF Ptrs
<1>1. CASE Enter(t)
  BY <1>0, <1>1, LinkWords, Words, FollowAccesses DEF Enter, At
<1>2. CASE Child(t)
  <2> DEFINE next == [reg[t] EXCEPT !.parent = reg[t].current]
  <2>1. /\ next \in Regs /\ next.n = reg[t].n /\ next.k = reg[t].k
        /\ Ptrs(next) \subseteq Ptrs(reg[t])
    BY <1>0 DEF Regs, Ptrs
  <2> HIDE DEF next
  <2>2. Follow(t, <<reg[t].current, reg[t].side>>, next) /\ pc[t] \in {"enter", "child"}
    BY <1>2 DEF Child, At, next
  <2>3. <<reg[t].current, reg[t].side>> \in Word /\ Points(<<reg[t].current, reg[t].side>>)
    BY <1>0, LinkWords, Opposite
  <2> QED  BY <1>0, <2>1, <2>2, <2>3, FollowAccesses
<1>3. CASE Compare(t)
  <2> DEFINE w == <<reg[t].current, "key">>
             s == IF Seen(t, w) > CurOp(t).key THEN "left" ELSE "right"
             next == [reg[t] EXCEPT !.side = s]
  <2>0. w \in Word /\ w[1] \in Ptrs(reg[t]) /\ pc[t] \notin {"idle", "abort"} /\ Pending(t) = {}
    BY <1>0, <1>3, Reachable, NothingPending DEF Compare, At, Moving, Pending
  <2>1. next \in Regs /\ next.n = reg[t].n /\ next.k = reg[t].k /\ Ptrs(next) = Ptrs(reg[t])
    BY <1>0 DEF Regs, Ptrs, Side
  <2>2. Load(t, w, reg[t], "here") \/ Load(t, w, next, "child")
    BY <1>3 DEF Compare
  <2> HIDE DEF next, w
  <2> QED  BY <1>0, <2>0, <2>1, <2>2, Loads DEF Labels
<1>4. CASE Here(t)
  <2> DEFINE w == <<reg[t].current, "data">>
  <2>0. w \in Word /\ w[1] \in Ptrs(reg[t]) /\ pc[t] \notin {"idle", "abort"} /\ Pending(t) = {}
        /\ Value(w) = Nat /\ ~ Points(w)
    BY <1>0, <1>4, Reachable, NothingPending DEF Here, At, Moving, Pending, Points, Links, Side, Root
  <2>1. CurOp(t).data \in Nat /\ Seen(t, w) \in Nat
    BY <2>0, CurrentOp, SeenTyped
  <2>2. Store(t, w, CurOp(t).data, Returned(t), Return(t)) \/ Load(t, w, Answer(t, Seen(t, w)), Return(t))
    BY <1>4 DEF Here
  <2> HIDE DEF w
  <2> QED  BY <2>0, <2>1, <2>2, StoresLast, LoadsLast
<1> QED  BY <1>1, <1>2, <1>3, <1>4 DEF Descend

LEMMA HangAccesses ==
  ASSUME Typed, NEW t \in Tasklet, Link(t) \/ Hang(t)
  PROVE  Accesses(t)
<1>0. /\ reg[t] \in Regs /\ {reg[t].current, reg[t].parent} \subseteq Ptrs(reg[t]) /\ reg[t].side \in Side
      /\ Ptrs(reg[t]) \subseteq Pointer /\ pc[t] \notin {"idle", "abort"} /\ Pending(t) = {}
  BY Registers, Reachable, NothingPending DEF Ptrs, Link, Hang, At, Pending, Moving
<1>1. CASE Link(t)
  <2> DEFINE w == <<reg[t].parent, "key">>
             s == IF Seen(t, w) > CurOp(t).key THEN "left" ELSE "right"
             next == [reg[t] EXCEPT !.side = s]
  <2>0. w \in Word /\ w[1] \in Ptrs(reg[t])
    BY <1>0, Reachable
  <2>1. next \in Regs /\ next.n = reg[t].n /\ next.k = reg[t].k /\ Ptrs(next) = Ptrs(reg[t])
    BY <1>0 DEF Regs, Ptrs, Side
  <2>2. Load(t, w, next, "hang")
    BY <1>1 DEF Link
  <2> HIDE DEF next, w
  <2> QED  BY <1>0, <2>0, <2>1, <2>2, Loads DEF Labels
<1>2. CASE Hang(t)
  <2> DEFINE w == <<reg[t].parent, reg[t].side>>
  <2>1. Root \in Word /\ Value(Root) = Pointer /\ w \in Word /\ Value(w) = Pointer /\ w[1] = reg[t].parent
    BY <1>0, Words, LinkWords, Opposite
  <2>2. \/ Store(t, Root, reg[t].current, Returned(t), Return(t))
        \/ Store(t, w, reg[t].current, reg[t], "retrace")
    BY <1>2 DEF Hang
  <2> HIDE DEF w
  <2> QED  BY <1>0, <2>1, <2>2, Stores, StoresLast DEF Labels
<1> QED  BY <1>1, <1>2

LEMMA ClimbAccesses ==
  ASSUME Typed, NEW t \in Tasklet, Climb(t)
  PROVE  Accesses(t)
<1>0. /\ reg[t] \in Regs /\ {reg[t].current, reg[t].parent} \subseteq Ptrs(reg[t]) /\ reg[t].side \in Side
      /\ Ptrs(reg[t]) \subseteq Pointer /\ pc[t] \notin {"idle", "abort"} /\ Pending(t) = {}
  BY Registers, Reachable, NothingPending
     DEF Ptrs, Climb, Retrace, Weigh, Settle, Up, Above, At, Pending, Moving
<1>1. CASE Retrace(t)
  <2> DEFINE w == <<reg[t].parent, "left">>
             s == IF Seen(t, w) = reg[t].current THEN "left" ELSE "right"
             next == [reg[t] EXCEPT !.side = s]
  <2>0. w \in Word /\ w[1] \in Ptrs(reg[t])
    BY <1>0, Reachable
  <2>1. next \in Regs /\ next.n = reg[t].n /\ next.k = reg[t].k /\ Ptrs(next) = Ptrs(reg[t])
    BY <1>0 DEF Regs, Ptrs, Side
  <2>2. Load(t, w, next, "weigh")
    BY <1>1 DEF Retrace
  <2> HIDE DEF next, w
  <2> QED  BY <1>0, <2>0, <2>1, <2>2, Loads DEF Labels
<1>2. CASE Weigh(t)
  <2> DEFINE w == <<reg[t].parent, "balance">>
             next == [reg[t] EXCEPT !.bal = Seen(t, w)]
  <2>0. w \in Word /\ w[1] \in Ptrs(reg[t]) /\ Seen(t, w) \in -1 .. 1
    BY <1>0, Balances
  <2>1. next \in Regs /\ next.n = reg[t].n /\ next.k = reg[t].k /\ Ptrs(next) = Ptrs(reg[t])
    BY <1>0, <2>0 DEF Regs, Ptrs
  <2>2. Load(t, w, next, "fix") \/ Load(t, w, next, "settle")
    BY <1>2 DEF Weigh
  <2> HIDE DEF next, w
  <2> QED  BY <1>0, <2>0, <2>1, <2>2, Loads DEF Labels
<1>3. CASE Settle(t)
  <2> DEFINE w == <<reg[t].parent, "balance">>
  <2>0. w \in Word /\ w[1] \in Ptrs(reg[t]) /\ Value(w) = -1 .. 1 /\ ~ Points(w)
    BY <1>0, Reachable
  <2>1. BALANCED \in -1 .. 1 /\ Heavy(reg[t].side) \in -1 .. 1
    BY DEF BALANCED, Heavy
  <2>2. Store(t, w, Heavy(reg[t].side), reg[t], "up") \/ Store(t, w, BALANCED, Returned(t), Return(t))
    BY <1>3 DEF Settle
  <2> HIDE DEF w
  <2> QED  BY <1>0, <2>0, <2>1, <2>2, Stores, StoresLast DEF Labels
<1>4. CASE Up(t)
  <2> DEFINE w == <<reg[t].current, "parent">>
             next == [reg[t] EXCEPT !.current = Seen(t, w)]
  <2>0. w \in Word /\ w[1] \in Ptrs(reg[t]) /\ Points(w) /\ Seen(t, w) \in Pointer
    <3>1. w \in Word /\ w[1] \in Ptrs(reg[t]) /\ Points(w) /\ Value(w) = Pointer
      BY <1>0, Reachable
    <3> HIDE DEF w
    <3> QED  BY <3>1, SeenTyped
  <2>1. next \in Regs /\ next.n = reg[t].n /\ next.k = reg[t].k /\ Ptrs(next) \subseteq Ptrs(reg[t]) \cup {Seen(t, w)}
    BY <1>0, <2>0 DEF Regs, Ptrs
  <2>2. Load(t, w, next, "above")
    BY <1>4 DEF Up
  <2> HIDE DEF next, w
  <2> QED  BY <1>0, <2>0, <2>1, <2>2, Loads DEF Labels
<1>5. CASE Above(t)
  <2> DEFINE w == <<reg[t].current, "parent">>
             next == [reg[t] EXCEPT !.parent = Seen(t, w)]
  <2>0. w \in Word /\ w[1] \in Ptrs(reg[t]) /\ Points(w) /\ Seen(t, w) \in Pointer
    <3>1. w \in Word /\ w[1] \in Ptrs(reg[t]) /\ Points(w) /\ Value(w) = Pointer
      BY <1>0, Reachable
    <3> HIDE DEF w
    <3> QED  BY <3>1, SeenTyped
  <2>1. next \in Regs /\ next.n = reg[t].n /\ next.k = reg[t].k /\ Ptrs(next) \subseteq Ptrs(reg[t]) \cup {Seen(t, w)}
    BY <1>0, <2>0 DEF Regs, Ptrs
  <2>2. Load(t, w, next, "retrace") \/ Load(t, w, Returned(t), Return(t))
    BY <1>5 DEF Above
  <2> HIDE DEF next, w
  <2> QED  BY <1>0, <2>0, <2>1, <2>2, Loads, LoadsLast DEF Labels
<1> QED  BY <1>1, <1>2, <1>3, <1>4, <1>5 DEF Climb

\* The words of a rotation.
LEMMA Spots ==
  ASSUME Typed, NEW t \in Tasklet
  PROVE  /\ Inner(t) \in Word /\ Hook(t) \in Word /\ Top(t) \in Word
         /\ Points(Inner(t)) /\ Points(Hook(t)) /\ Points(Top(t))
         /\ Value(Inner(t)) = Pointer /\ Value(Hook(t)) = Pointer /\ Value(Top(t)) = Pointer
         /\ {Inner(t)[1], Hook(t)[1], Top(t)[1]} \subseteq Ptrs(reg[t])
         /\ \A w \in {Inner(t), Hook(t), Top(t)} : mem[w] \in Pointer /\ Seen(t, w) \in Pointer
<1>1. reg[t].rz \in Pointer /\ reg[t].rx \in Pointer /\ reg[t].rside \in Side /\ Opp(reg[t].rside) \in Side
  BY Registers
<1>2. reg[t].rside \in Links /\ Opp(reg[t].rside) \in Links /\ "parent" \in Links
  BY <1>1 DEF Links
<1>3. /\ Inner(t) \in Word /\ Hook(t) \in Word /\ Top(t) \in Word
      /\ Points(Inner(t)) /\ Points(Hook(t)) /\ Points(Top(t))
      /\ Value(Inner(t)) = Pointer /\ Value(Hook(t)) = Pointer /\ Value(Top(t)) = Pointer
  BY <1>1, <1>2, LinkWords DEF Inner, Hook, Top
<1>4. {Inner(t)[1], Hook(t)[1], Top(t)[1]} \subseteq Ptrs(reg[t])
  BY DEF Inner, Hook, Top, Ptrs
<1>5. \A w \in {Inner(t), Hook(t), Top(t)} : mem[w] \in Pointer /\ Seen(t, w) \in Pointer
  BY <1>3, SeenTyped DEF Typed
<1> QED  BY <1>3, <1>4, <1>5

\* The variable ptr, or z, gets another value.
LEMMA Changes ==
  ASSUME NEW r \in Regs, NEW p \in Pointer
  PROVE  LET a == [r EXCEPT !.ptr = p]
             b == [r EXCEPT !.rz = p]
         IN  /\ a \in Regs /\ a.n = r.n /\ a.k = r.k /\ Ptrs(a) \subseteq Ptrs(r) \cup {p}
             /\ a.rx = r.rx /\ a.rz = r.rz /\ a.rside = r.rside
             /\ b \in Regs /\ b.n = r.n /\ b.k = r.k /\ Ptrs(b) \subseteq Ptrs(r) \cup {p}
             /\ b.rx = r.rx /\ b.rside = r.rside
BY DEF Regs, Ptrs

\* What is pending in the course of a rotation.
LEMMA PendingIs ==
  ASSUME NEW r
  PROVE  LET hook  == <<r.rx, r.rside>>
             inner == <<r.rz, Opp(r.rside)>>
             top   == <<r.rx, "parent">>
         IN  /\ \A l \in {"heavier", "hook"} : PendingAt(r, l) = {hook}
             /\ \A l \in {"take", "give"} : PendingAt(r, l) = {hook, inner, top}
             /\ \A l \in {"adopt", "raise", "lift", "test", "peer", "which", "again", "replace", "sink"} :
                  PendingAt(r, l) = {inner, top}
             /\ PendingAt(r, "turn") = {top}
BY DEF PendingAt, Moving

LEMMA RotateAccesses ==
  ASSUME Typed, NEW t \in Tasklet, Rotate(t)
  PROVE  Accesses(t)
<1> DEFINE r == reg[t]
<1>0. /\ r \in Regs /\ {r.current, r.parent, r.rx, r.rz, r.ptr} = Ptrs(r) /\ Ptrs(r) \subseteq Pointer
      /\ r.rside \in Side /\ r.above \in Side /\ r.side \in Side
      /\ Hook(t) = <<r.rx, r.rside>> /\ Inner(t) = <<r.rz, Opp(r.rside)>> /\ Top(t) = <<r.rx, "parent">>
      /\ pc[t] \notin {"idle", "abort"}
  BY Registers, Reachable DEF Hook, Inner, Top, Rotate, Take, Give, Adopt, Raise, Lift, Test, Peer,
     Which, Again, Replace, Sink, Turn, At
<1>1. CASE Take(t)
  <2> DEFINE next == [r EXCEPT !.ptr = mem[Inner(t)]]
  <2>1. /\ next \in Regs /\ next.n = r.n /\ next.k = r.k /\ Ptrs(next) \subseteq Ptrs(r) \cup {mem[Inner(t)]}
        /\ next.rx = r.rx /\ next.rz = r.rz /\ next.rside = r.rside
    BY <1>0, Spots, Changes
  <2>2. ReadDirectly(t, Inner(t), next, "give") /\ pc[t] = "take"
    BY <1>1 DEF Take, At
  <2> HIDE DEF next
  <2>3. Pending(t) \cup {Inner(t)} \subseteq PendingAt(next, "give")
    BY <1>0, <2>1, <2>2, PendingIs DEF Pending
  <2>4. "give" \in Labels \ {"idle"}
    BY DEF Labels
  <2> QED  BY <1>0, <2>1, <2>2, <2>3, <2>4, Spots, Reads
<1>2. CASE Raise(t) \/ Peer(t) \/ Again(t)
  <2> DEFINE next == [r EXCEPT !.ptr = mem[Top(t)]]
  <2>1. /\ next \in Regs /\ next.n = r.n /\ next.k = r.k /\ Ptrs(next) \subseteq Ptrs(r) \cup {mem[Top(t)]}
        /\ next.rx = r.rx /\ next.rz = r.rz /\ next.rside = r.rside
    BY <1>0, Spots, Changes
  <2>2. PICK l \in {"lift", "which", "replace"} :
          ReadDirectly(t, Top(t), next, l) /\ pc[t] \in {"raise", "peer", "again"}
    BY <1>2 DEF Raise, Peer, Again, At
  <2> HIDE DEF next
  <2>3. Pending(t) \cup {Top(t)} \subseteq PendingAt(next, l)
    BY <1>0, <2>1, <2>2, PendingIs DEF Pending
  <2>4. l \in Labels \ {"idle"}
    BY <2>2 DEF Labels
  <2> QED  BY <1>0, <2>1, <2>2, <2>3, <2>4, Spots, Reads
<1>3. CASE Give(t)
  <2>1. PICK l \in {"raise", "adopt"} : Store(t, Hook(t), r.ptr, r, l) /\ pc[t] = "give"
    BY <1>3 DEF Give, At
  <2>2. Pending(t) \ {Hook(t)} \subseteq PendingAt(r, l) /\ l \in Labels \ {"idle"}
    BY <1>0, <2>1, PendingIs DEF Pending, Labels
  <2> QED  BY <1>0, <2>1, <2>2, Spots, Stores
<1>4. CASE Adopt(t) \/ Lift(t) \/ Replace(t)
  <2>1. PICK n \in Ptrs(r), f \in Links, v \in Ptrs(r), l \in {"raise", "test", "sink"} :
          Store(t, <<n, f>>, v, r, l) /\ pc[t] \in {"adopt", "lift", "replace"}
    <3>1. "parent" \in Links /\ r.above \in Links
      BY <1>0 DEF Links
    <3> QED  BY <1>0, <1>4, <3>1 DEF Adopt, Lift, Replace, At
  <2>2. /\ <<n, f>> \in Word /\ <<n, f>>[1] = n /\ Value(<<n, f>>) = Pointer /\ v \in Pointer
    BY <1>0, LinkWords
  <2>3. l \in Labels \ {"idle"}
    BY <2>1 DEF Labels
  <2>4. Pending(t) \subseteq PendingAt(r, l)
    BY <1>0, <2>1, PendingIs DEF Pending
  <2> QED  BY <1>0, <2>1, <2>2, <2>3, <2>4, Stores
<1>5. CASE Test(t)
  <2>1. PICK l \in {"sink", "peer"} : Load(t, Top(t), r, l) /\ pc[t] = "test"
    BY <1>5 DEF Test, At
  <2>2. Pending(t) \subseteq PendingAt(r, l) /\ l \in Labels \ {"idle"}
    BY <1>0, <2>1, PendingIs DEF Pending, Labels
  <2> QED  BY <1>0, <2>1, <2>2, Spots, Loads
<1>6. CASE Which(t)
  <2> DEFINE w == <<r.ptr, "left">>
             s == IF Seen(t, w) = r.rx THEN "left" ELSE "right"
             next == [r EXCEPT !.above = s]
  <2>1. w \in Word /\ w[1] \in Ptrs(r)
    BY <1>0, Reachable
  <2>2. /\ next \in Regs /\ next.n = r.n /\ next.k = r.k /\ Ptrs(next) = Ptrs(r)
        /\ next.rx = r.rx /\ next.rz = r.rz /\ next.rside = r.rside
    BY <1>0 DEF Regs, Ptrs, Side
  <2>3. Load(t, w, next, "again") /\ pc[t] = "which"
    BY <1>6 DEF Which, At
  <2> HIDE DEF next, w
  <2>4. Pending(t) \subseteq PendingAt(next, "again") /\ "again" \in Labels \ {"idle"}
    BY <1>0, <2>2, <2>3, PendingIs DEF Pending, Labels
  <2> QED  BY <1>0, <2>1, <2>2, <2>3, <2>4, Loads
<1>7. CASE Sink(t)
  <2>1. Store(t, Inner(t), r.rx, r, "turn") /\ pc[t] = "sink"
    BY <1>7 DEF Sink, At
  <2>2. Pending(t) \ {Inner(t)} \subseteq PendingAt(r, "turn") /\ "turn" \in Labels \ {"idle"}
    BY <1>0, <2>1, PendingIs DEF Pending, Labels
  <2> QED  BY <1>0, <2>1, <2>2, Spots, Stores
<1>8. CASE Turn(t)
  <2> DEFINE next == [r EXCEPT !.rx = r.parent, !.rside = r.side, !.phase = "second"]
  <2>1. next \in Regs /\ next.n = r.n /\ next.k = r.k /\ Ptrs(next) \subseteq Ptrs(r)
    BY <1>0 DEF Regs, Ptrs
  <2>2. /\ pc[t] = "turn"
        /\ \/ Store(t, Top(t), r.rz, next, "hook")
           \/ \E l \in {"one", "top"} : Store(t, Top(t), r.rz, r, l)
    BY <1>8 DEF Turn, At
  <2> HIDE DEF next
  <2>3. Pending(t) \ {Top(t)} = {} /\ {"hook", "one", "top"} \subseteq Labels \ {"idle"}
    BY <1>0, <2>2, PendingIs DEF Pending, Labels
  <2>4. r.rz \in Value(Top(t))
    BY <1>0, Spots
  <2>5. CASE Store(t, Top(t), r.rz, next, "hook")
    BY <1>0, <2>1, <2>3, <2>4, <2>5, Spots, Stores
  <2>6. ASSUME NEW l \in {"one", "top"}, Store(t, Top(t), r.rz, r, l)
        PROVE  Accesses(t)
    <3>1. l \in Labels \ {"idle"}
      BY <2>3
    <3> QED  BY <1>0, <2>3, <2>4, <2>6, <3>1, Spots, Stores
  <2> QED  BY <2>2, <2>5, <2>6
<1> QED  BY <1>1, <1>2, <1>3, <1>4, <1>5, <1>6, <1>7, <1>8 DEF Rotate

LEMMA RepairAccesses ==
  ASSUME Typed, NEW t \in Tasklet, Repair(t)
  PROVE  Accesses(t)
<1> DEFINE r == reg[t]
<1>0. /\ r \in Regs /\ {r.current, r.parent, r.rx, r.rz, r.ptr} = Ptrs(r) /\ Ptrs(r) \subseteq Pointer
      /\ r.rside \in Side /\ r.above \in Side /\ r.side \in Side /\ Opp(r.side) \in Side
      /\ Hook(t) = <<r.rx, r.rside>>
  BY Registers, Reachable DEF Hook
<1>1. CASE Fix(t)
  <2> DEFINE w == <<r.parent, "balance">>
             next == [r EXCEPT !.bal = Seen(t, w)]
  <2>0. w \in Word /\ w[1] \in Ptrs(r) /\ Seen(t, w) \in -1 .. 1
    BY <1>0, Balances
  <2>1. next \in Regs /\ next.n = r.n /\ next.k = r.k /\ Ptrs(next) = Ptrs(r)
    BY <1>0, <2>0 DEF Regs, Ptrs
  <2>2. Load(t, w, next, "match") /\ pc[t] = "fix"
    BY <1>1 DEF Fix, At
  <2> HIDE DEF next, w
  <2>3. Pending(t) = {} /\ "match" \in Labels \ {"idle"}
    BY <2>2, NothingPending DEF Pending, Moving, Labels
  <2> QED  BY <1>0, <2>0, <2>1, <2>2, <2>3, Loads
<1>2. CASE Match(t)
  <2> DEFINE w == <<r.current, "balance">>
             one == [r EXCEPT !.rx = r.parent, !.rz = r.current, !.rside = r.side, !.phase = "single"]
             two == [r EXCEPT !.rx = r.current, !.rside = Opp(r.side), !.phase = "first"]
  <2>0. w \in Word /\ w[1] \in Ptrs(r)
    BY <1>0, Reachable
  <2>1. one \in Regs /\ one.n = r.n /\ one.k = r.k /\ Ptrs(one) \subseteq Ptrs(r)
    BY <1>0 DEF Regs, Ptrs
  <2>2. two \in Regs /\ two.n = r.n /\ two.k = r.k /\ Ptrs(two) \subseteq Ptrs(r)
    BY <1>0 DEF Regs, Ptrs
  <2>3. (Load(t, w, one, "take") \/ Load(t, w, two, "look")) /\ pc[t] = "match"
    BY <1>2 DEF Match, At
  <2> HIDE DEF one, two, w
  <2>4. Pending(t) = {} /\ {"take", "look"} \subseteq Labels \ {"idle"}
    BY <2>3, NothingPending DEF Pending, Moving, Labels
  <2> QED  BY <1>0, <2>0, <2>1, <2>2, <2>3, <2>4, Loads
<1>3. CASE Look(t)
  <2> DEFINE next == [r EXCEPT !.ptr = mem[Hook(t)]]
  <2>1. /\ next \in Regs /\ next.n = r.n /\ next.k = r.k /\ Ptrs(next) \subseteq Ptrs(r) \cup {mem[Hook(t)]}
        /\ next.rx = r.rx /\ next.rz = r.rz /\ next.rside = r.rside
    BY <1>0, Spots, Changes
  <2>2. ReadDirectly(t, Hook(t), next, "heavier") /\ pc[t] = "look"
    BY <1>3 DEF Look, At
  <2> HIDE DEF next
  <2>3. Pending(t) = {} /\ "heavier" \in Labels \ {"idle"}
    BY <2>2, NothingPending DEF Pending, Moving, Labels
  <2>4. Pending(t) \cup {Hook(t)} \subseteq PendingAt(next, "heavier")
    BY <1>0, <2>1, <2>3, PendingIs
  <2> QED  BY <1>0, <2>1, <2>2, <2>3, <2>4, Spots, Reads
<1>4. CASE Heavier(t)
  <2> DEFINE w == <<r.ptr, "balance">>
             next == [r EXCEPT !.bal = Seen(t, w)]
  <2>0. w \in Word /\ w[1] \in Ptrs(r) /\ Seen(t, w) \in -1 .. 1
    BY <1>0, Balances
  <2>1. /\ next \in Regs /\ next.n = r.n /\ next.k = r.k /\ Ptrs(next) = Ptrs(r)
        /\ next.rx = r.rx /\ next.rz = r.rz /\ next.rside = r.rside
    BY <1>0, <2>0 DEF Regs, Ptrs
  <2>2. Load(t, w, next, "hook") /\ pc[t] = "heavier"
    BY <1>4 DEF Heavier, At
  <2> HIDE DEF next, w
  <2>3. Pending(t) \subseteq PendingAt(next, "hook") /\ "hook" \in Labels \ {"idle"}
    BY <1>0, <2>1, <2>2, PendingIs DEF Pending, Labels
  <2> QED  BY <1>0, <2>0, <2>1, <2>2, <2>3, Loads
<1>5. CASE Grasp(t)
  <2> DEFINE next == [r EXCEPT !.rz = mem[Hook(t)]]
  <2>1. /\ next \in Regs /\ next.n = r.n /\ next.k = r.k /\ Ptrs(next) \subseteq Ptrs(r) \cup {mem[Hook(t)]}
        /\ next.rx = r.rx /\ next.rside = r.rside
    BY <1>0, Spots, Changes
  <2>2. ReadDirectly(t, Hook(t), next, "take") /\ pc[t] = "hook"
    BY <1>5 DEF Grasp, At
  <2> HIDE DEF next
  <2>3. Pending(t) \cup {Hook(t)} \subseteq PendingAt(next, "take") /\ "take" \in Labels \ {"idle"}
    BY <1>0, <2>1, <2>2, PendingIs DEF Pending, Labels
  <2> QED  BY <1>0, <2>1, <2>2, <2>3, Spots, Reads
<1>6. CASE Crest(t) \/ One(t) \/ Two(t)
  <2>1. PICK n \in {r.rz, r.parent, r.current}, v \in -1 .. 1, l \in {"one", "two", "root"} :
          Store(t, <<n, "balance">>, v, r, l) /\ pc[t] \in {"top", "one", "two"}
    <3>1. BALANCED \in -1 .. 1 /\ BalanceX(t) \in -1 .. 1 /\ BalanceZ(t) \in -1 .. 1
      BY DEF BALANCED, BalanceX, BalanceZ, Heavy
    <3> QED  BY <1>6, <3>1 DEF Crest, One, Two, SettleX, SettleZ, At
  <2>2. /\ <<n, "balance">> \in Word /\ <<n, "balance">>[1] \in Ptrs(r)
        /\ Value(<<n, "balance">>) = -1 .. 1 /\ ~ Points(<<n, "balance">>)
    BY <1>0, <2>1, Reachable
  <2>3. Pending(t) = {} /\ l \in Labels \ {"idle"} /\ pc[t] \notin {"idle", "abort"}
    BY <2>1, NothingPending DEF Pending, Moving, Labels
  <2> QED  BY <1>0, <2>1, <2>2, <2>3, Stores
<1>7. CASE WasRoot(t)
  <2>1. (Load(t, Root, r, "crown") \/ Load(t, Root, Returned(t), Return(t))) /\ pc[t] = "root"
    BY <1>7 DEF WasRoot, At
  <2>2. Pending(t) = {} /\ "crown" \in Labels \ {"idle"}
    BY <2>1, NothingPending DEF Pending, Moving, Labels
  <2> QED  BY <1>0, <2>1, <2>2, Words, Loads, LoadsLast
<1>8. CASE Crown(t)
  <2>1. Store(t, Root, r.rz, Returned(t), Return(t)) /\ pc[t] = "crown"
    BY <1>8 DEF Crown, At
  <2>2. Pending(t) = {}
    BY <2>1, NothingPending DEF Pending, Moving
  <2> QED  BY <1>0, <2>1, <2>2, Words, StoresLast
<1> QED  BY <1>1, <1>2, <1>3, <1>4, <1>5, <1>6, <1>7, <1>8, RotateAccesses DEF Repair

\* There is no other kind of step.
LEMMA StepIs ==
  ASSUME Typed, NEW t \in Tasklet, Step(t)
  PROVE  Begin(t) \/ Alloc(t) \/ Commit(t) \/ Abort(t) \/ Accesses(t)
BY DescendAccesses, HangAccesses, ClimbAccesses, RepairAccesses DEF Step, Insert

LEMMA AccessTyped ==
  ASSUME Typed, NEW t \in Tasklet, Accesses(t)
  PROVE  Typed'
<1>1. CASE Loading(t)
  BY <1>1, LoadTyped DEF Loading, Onward, Accesses
<1>2. CASE Reading(t)
  BY <1>2, ReadTyped DEF Reading, Onward, Accesses
<1>3. CASE Storing(t)
  BY <1>3, StoreTyped DEF Storing, Onward, Accesses
<1> QED  BY <1>1, <1>2, <1>3 DEF Accesses

LEMMA InitTyped ==
  ASSUME Init
  PROVE  Typed
<1>1. NR_NODES \in Nat /\ NoTx \notin Tasklet
  BY AvlAssumption DEF Tasklet, NoTx
<1>2. reg \in [Tasklet -> Regs] /\ \A t \in Tasklet : reg[t].k = 1
  <2>1. Fresh(1, 1) \in Regs /\ Fresh(1, 1).k = 1
    BY FreshTyped
  <2> QED  BY <2>1 DEF Init
<1>3. tx \in [Tasklet -> Txs] /\ \A t \in Tasklet : tx[t] = NewTx
  BY NewTxTyped DEF Init
<1>4. \A w \in Word : mem[w] \in Value(w)
  BY DEF Init, Initially, Value, Pointer
<1>5. case \in Case
  BY AvlAssumption DEF Init
<1>6. /\ DOMAIN mem = Word /\ owner \in [Word -> Tasklet \cup {NoTx}]
      /\ used \in [Tasklet -> 0 .. NR_NODES] /\ pc \in [Tasklet -> Labels]
      /\ \A t \in Tasklet : pc[t] = "idle" /\ used[t] = 0
      /\ rawRead = {} /\ tainted = {}
  BY <1>1 DEF Init, Labels
<1>7. ASSUME NEW t \in Tasklet
      PROVE  /\ Running(t) /\ used[t] + tx[t].fresh <= NR_NODES
             /\ LogTyped(tx[t].undo) /\ LogTyped(tx[t].got)
  BY <1>1, <1>2, <1>3, <1>6, NewTxTyped DEF Running
<1> QED  BY <1>2, <1>3, <1>4, <1>5, <1>6, <1>7 DEF Typed

LEMMA NextTyped ==
  ASSUME Typed, [Next]_vars
  PROVE  Typed'
<1>1. ASSUME NEW t \in Tasklet, Step(t)
      PROVE  Typed'
  BY <1>1, StepIs, AccessTyped, BeginTyped, AllocTyped, CommitTyped, AbortTyped
<1>2. CASE UNCHANGED vars
  BY <1>2 DEF vars, ghosts, Typed, Running, Txn, Value, LogTyped
<1> QED  BY <1>1, <1>2 DEF Next, Terminating

(* Every variable keeps its type: the balance fields are -1, 0 or 1, and    *)
(* whatever is found where a pointer is looked for is one, also by a        *)
(* rotation that reads what others are writing and by a load that returns   *)
(* what was rolled back (avl_tree.c:71-259,313-359, tm.c:318-330).          *)
THEOREM TypesCorrect == Spec => []TypeOK
<1>1. Init => Typed
  BY InitTyped
<1>2. Typed /\ [Next]_vars => Typed'
  BY NextTyped
<1>3. Typed => TypeOK
  <2>1. ASSUME Typed
        PROVE  \A t \in Tasklet :
                 /\ {reg[t].current, reg[t].parent, reg[t].rx, reg[t].rz, reg[t].ptr} \subseteq Pointer
                 /\ pc[t] # "idle" => CurOp(t) \in Op
    BY <2>1, Registers, CurrentOp
  <2> QED  BY <2>1 DEF Typed, TypeOK
<1> QED  BY <1>1, <1>2, <1>3, PTL DEF Spec

------------------------------------------------------------------------------
(* What the tasklets may point to *)

\* NULL and the nodes of committed transactions; for tasklet t also its new nodes.
KeptPtr == {Null} \cup {n \in Node : Kept(n)}
Own(t)  == KeptPtr \cup {<<t, i>> : i \in 1 .. used[t] + tx[t].fresh}

\* With what t may have read directly of others.
Span(t) == Own(t) \cup UNION {Own(v) : v \in {u \in Tasklet : <<t, u>> \in rawRead}}

\* t will not be granted w, unless a tasklet rolls back of which t has read something
\* directly.
Blocked(t, w) == w \in tx[t].stale \/ (Other(t, w) /\ <<t, owner[w]>> \in rawRead)

\* t will not commit.
Doomed(t) == pc[t] = "abort" \/ \E w \in Pending(t) : Blocked(t, w)

\* The words of t's write set are those it has locked.
Locks == \A t \in Tasklet, w \in Word : owner[w] = t <=> w \in DOMAIN tx[t].undo

\* Committed words point to committed nodes, those of a new node to what its tasklet
\* may point to.
Fixed ==
  /\ Decided(Root) \in KeptPtr
  /\ \A n \in KeptPtr, f \in Links : Decided(<<n, f>>) \in KeptPtr
  /\ \A t \in Tasklet : \A n \in Own(t), f \in Links : Decided(<<n, f>>) \in Own(t)

\* What t points to is in S, and the words it has locked are of nodes in S and point
\* to such nodes.
Holds(t, S) ==
  /\ Ptrs(reg[t]) \subseteq S
  /\ \A w \in Word : owner[w] = t => (w = Root \/ w[1] \in S) /\ (Points(w) => mem[w] \in S)

Sane(t) == Holds(t, Span(t)) /\ (Doomed(t) \/ Holds(t, Own(t)))

Pure == Locks /\ Fixed /\ \A t \in Tasklet : Sane(t)

LEMMA NoTxIs == NoTx \notin Tasklet
BY AvlAssumption DEF Tasklet, NoTx

LEMMA OwnIs ==
  ASSUME Typed
  PROVE  /\ Null \in KeptPtr /\ KeptPtr \subseteq Pointer
         /\ \A t \in Tasklet : KeptPtr \subseteq Own(t) /\ Own(t) \subseteq Pointer
<1>1. ASSUME NEW t \in Tasklet
      PROVE  Own(t) \subseteq Pointer
  <2>1. used[t] \in Nat /\ tx[t].fresh \in Nat /\ NR_NODES \in Nat /\ used[t] + tx[t].fresh <= NR_NODES
    BY AvlAssumption DEF Typed, Txs
  <2>2. \A i \in 1 .. used[t] + tx[t].fresh : <<t, i>> \in Node
    BY <2>1 DEF Node
  <2> QED  BY <2>2 DEF Own, KeptPtr, Pointer
<1> QED  BY <1>1 DEF KeptPtr, Own, Pointer

LEMMA SpanIs ==
  ASSUME NEW t \in Tasklet
  PROVE  /\ Own(t) \subseteq Span(t)
         /\ \A v \in Tasklet : <<t, v>> \in rawRead => Own(v) \subseteq Span(t)
         /\ \A n \in Span(t) : \E v \in Tasklet : n \in Own(v) /\ (v = t \/ <<t, v>> \in rawRead)
BY DEF Span

LEMMA PendingWords ==
  ASSUME Typed, NEW t \in Tasklet
  PROVE  Pending(t) \subseteq Word /\ (pc[t] = "idle" => Pending(t) = {})
<1>1. Pending(t) \subseteq {Hook(t), Inner(t), Top(t)}
  BY DEF Pending, PendingAt, Hook, Inner, Top
<1>2. pc[t] = "idle" => Pending(t) = {}
  BY NothingPending DEF Pending, Moving
<1> QED  BY <1>1, <1>2, Spots

\* A tasklet that nobody disturbs.
LEMMA Undisturbed ==
  ASSUME Typed, NEW u \in Tasklet, Sane(u), reg'[u] = reg[u], pc'[u] = pc[u],
         \A w \in Word : owner'[w] = u <=> owner[w] = u,
         \A w \in Word : owner[w] = u => mem'[w] = mem[w],
         Own(u) \subseteq Own(u)', Span(u) \subseteq Span(u)',
         \A w \in Word : pc[u] # "idle" /\ Blocked(u, w) => Blocked(u, w)'
  PROVE  Sane(u)'
<1>1. ASSUME NEW S, NEW R, S \subseteq R, Holds(u, S)
      PROVE  Ptrs(reg'[u]) \subseteq R
             /\ \A w \in Word : owner'[w] = u => (w = Root \/ w[1] \in R) /\ (Points(w) => mem'[w] \in R)
  BY <1>1 DEF Holds
<1>2. Holds(u, Span(u))'
  BY <1>1 DEF Sane, Holds, Ptrs, Points
<1>3. CASE Doomed(u)
  <2>1. Pending(u)' = Pending(u) /\ Pending(u) \subseteq Word /\ (pc[u] = "idle" => Pending(u) = {})
    BY PendingWords DEF Pending, PendingAt
  <2>2. Doomed(u)'
    BY <1>3, <2>1 DEF Doomed
  <2> QED  BY <1>2, <2>2 DEF Sane
<1>4. CASE Holds(u, Own(u))
  <2>1. Holds(u, Own(u))'
    BY <1>1, <1>4 DEF Holds, Ptrs, Points
  <2> QED  BY <1>2, <2>1 DEF Sane
<1> QED  BY <1>3, <1>4 DEF Sane

\* What a step of t does to the others, and to the committed values, if it neither
\* begins, ends nor allocates.
Local(t) ==
  /\ used' = used /\ rawRead \subseteq rawRead'
  /\ \A u \in Tasklet \ {t} : reg'[u] = reg[u] /\ pc'[u] = pc[u] /\ tx'[u] = tx[u]
  /\ tx'[t].fresh = tx[t].fresh /\ tx'[t].stale = tx[t].stale
  /\ \A w \in Word : owner'[w] = owner[w] \/ (owner[w] = NoTx /\ owner'[w] = t)
  /\ \A w \in Word : mem'[w] = mem[w] \/ (owner[w] \in {NoTx, t} /\ owner'[w] = t)
  /\ \A w \in Word : Decided(w)' = Decided(w)
  /\ Locks'

LEMMA LocalOwn ==
  ASSUME Typed, NEW t \in Tasklet, Local(t)
  PROVE  /\ KeptPtr' = KeptPtr
         /\ \A v \in Tasklet : Own(v)' = Own(v) /\ Span(v) \subseteq Span(v)'
         /\ \A u \in Tasklet, w \in Word : Blocked(u, w) => Blocked(u, w)'
<1>1. KeptPtr' = KeptPtr
  BY DEF Local, KeptPtr, Kept
<1>2. ASSUME NEW v \in Tasklet
      PROVE  Own(v)' = Own(v)
  <2>1. tx'[v].fresh = tx[v].fresh
    BY DEF Local
  <2> QED  BY <1>1, <2>1 DEF Local, Own
<1>3. \A v \in Tasklet : Span(v) \subseteq Span(v)'
  BY <1>2 DEF Span, Local
<1>4. ASSUME NEW u \in Tasklet, NEW w \in Word, Blocked(u, w)
      PROVE  Blocked(u, w)'
  <2>1. tx'[u].stale = tx[u].stale
    BY DEF Local
  <2>2. Other(u, w) => owner'[w] = owner[w]
    BY DEF Local, Other
  <2> QED  BY <1>4, <2>1, <2>2 DEF Blocked, Other, Local
<1> QED  BY <1>1, <1>2, <1>3, <1>4

LEMMA LocalPure ==
  ASSUME Typed, Pure, NEW t \in Tasklet, Local(t), Sane(t)'
  PROVE  Pure'
<1>1. Fixed'
  <2>1. /\ \A w \in Word : Decided(w)' = Decided(w)
        /\ KeptPtr' = KeptPtr /\ \A v \in Tasklet : Own(v)' = Own(v)
    BY LocalOwn DEF Local
  <2>2. Root \in Word /\ \A n \in Pointer, f \in Links : <<n, f>> \in Word
    BY LinkWords, Words
  <2>3. Decided(Root)' \in KeptPtr'
    BY <2>1, <2>2 DEF Pure, Fixed
  <2>4. ASSUME NEW n \in KeptPtr, NEW f \in Links
        PROVE  Decided(<<n, f>>)' \in KeptPtr'
    <3>1. Decided(<<n, f>>)' = Decided(<<n, f>>)
      BY <2>1, <2>2, OwnIs
    <3> QED  BY <2>1, <3>1 DEF Pure, Fixed
  <2>5. ASSUME NEW v \in Tasklet, NEW n \in Own(v), NEW f \in Links
        PROVE  Decided(<<n, f>>)' \in Own(v)'
    <3>1. Decided(<<n, f>>)' = Decided(<<n, f>>)
      BY <2>1, <2>2, OwnIs
    <3> QED  BY <2>1, <3>1 DEF Pure, Fixed
  <2> QED  BY <2>1, <2>3, <2>4, <2>5 DEF Fixed
<1>2. ASSUME NEW u \in Tasklet \ {t}
      PROVE  Sane(u)'
  <2>1. /\ reg'[u] = reg[u] /\ pc'[u] = pc[u]
        /\ \A w \in Word : owner'[w] = u <=> owner[w] = u
        /\ \A w \in Word : owner[w] = u => mem'[w] = mem[w]
    BY NoTxIs DEF Local
  <2> QED  BY <2>1, LocalOwn, Undisturbed DEF Pure
<1> QED  BY <1>1, <1>2 DEF Pure, Local

\* What t finds in a word that is free or its own.
LEMMA Finds ==
  ASSUME Typed, Pure, NEW t \in Tasklet, NEW S \in {Own(t), Span(t)}, Holds(t, S),
         NEW w \in Word, w = Root \/ w[1] \in S, Points(w), ~ Other(t, w)
  PROVE  mem[w] \in S
<1>1. CASE owner[w] = t
  BY <1>1 DEF Holds
<1>2. CASE owner[w] # t
  <2>1. Decided(w) = mem[w]
    BY <1>2 DEF Other, Decided
  <2>2. CASE w = Root
    BY <2>1, <2>2, OwnIs, SpanIs DEF Pure, Fixed
  <2>3. CASE w # Root
    <3>1. w[2] \in Links /\ w = <<w[1], w[2]>>
      BY <2>3 DEF Points, Word
    <3>2. PICK v \in Tasklet : w[1] \in Own(v) /\ Own(v) \subseteq S
      BY <2>3, SpanIs
    <3>3. Decided(<<w[1], w[2]>>) \in Own(v)
      BY <3>1, <3>2 DEF Pure, Fixed
    <3> QED  BY <2>1, <3>1, <3>2, <3>3
  <2> QED  BY <2>2, <2>3
<1> QED  BY <1>1, <1>2

LEMMA SameLocks ==
  ASSUME Typed, Pure, NEW t \in Tasklet, mem' = mem, owner' = owner,
         \A u \in Tasklet : tx'[u].undo = tx[u].undo
  PROVE  Locks' /\ \A w \in Word : Decided(w)' = Decided(w)
<1>1. \A w \in Word : owner[w] \in Tasklet \cup {NoTx}
  BY DEF Typed
<1> QED  BY <1>1 DEF Pure, Locks, Decided

LEMMA GivesUp ==
  ASSUME Typed, NEW t \in Tasklet, GiveUp(t)
  PROVE  /\ reg' = reg /\ pc'[t] = "abort" /\ \A u \in Tasklet \ {t} : pc'[u] = pc[u]
BY DEF GiveUp, Goto, Typed

LEMMA Proceeds ==
  ASSUME Typed, NEW t \in Tasklet, NEW locals, NEW label, Proceed(t, locals, label)
  PROVE  /\ reg'[t] = locals /\ pc'[t] = label /\ Pending(t)' = PendingAt(locals, label)
         /\ \A u \in Tasklet \ {t} : reg'[u] = reg[u] /\ pc'[u] = pc[u]
<1>1. /\ reg'[t] = locals /\ pc'[t] = label
      /\ \A u \in Tasklet \ {t} : reg'[u] = reg[u] /\ pc'[u] = pc[u]
  BY DEF Proceed, Goto, Typed
<1> QED  BY <1>1 DEF Pending, PendingAt

LEMMA LoadLocal ==
  ASSUME Typed, Pure, NEW t \in Tasklet, NEW w, NEW locals, NEW label, Load(t, w, locals, label)
  PROVE  Local(t) /\ mem' = mem /\ owner' = owner /\ rawRead' = rawRead
<1>1. mem' = mem /\ owner' = owner /\ used' = used /\ rawRead' = rawRead
  BY DEF Load
<1>2. tx[t] \in Txs
  BY DEF Typed
<1>3. /\ \A u \in Tasklet \ {t} : tx'[u] = tx[u] /\ reg'[u] = reg[u] /\ pc'[u] = pc[u]
      /\ tx'[t].undo = tx[t].undo /\ tx'[t].fresh = tx[t].fresh /\ tx'[t].stale = tx[t].stale
  <2>1. CASE tx' = [tx EXCEPT ![t].peeked = TRUE] /\ UNCHANGED <<pc, reg, tainted>>
    BY <1>2, <2>1 DEF Typed, Txs
  <2>2. CASE tx' = [tx EXCEPT ![t].got = [x \in {w} |-> mem[w]]] /\ UNCHANGED <<pc, reg, tainted>>
    BY <1>2, <2>2 DEF Typed, Txs
  <2>3. CASE /\ tx' = [tx EXCEPT ![t].reads = IF owner[w] = t THEN @ ELSE @ \cup {w},
                                 ![t].peeked = FALSE, ![t].got = <<>>]
             /\ Proceed(t, locals, label)
    BY <1>2, <2>3, Proceeds DEF Typed, Txs
  <2>4. CASE GiveUp(t) /\ tx' = tx
    BY <2>4, GivesUp
  <2> QED  BY <2>1, <2>2, <2>3, <2>4 DEF Load
<1>4. Locks' /\ \A x \in Word : Decided(x)' = Decided(x)
  <2>1. \A u \in Tasklet : tx'[u].undo = tx[u].undo
    BY <1>3
  <2> QED  BY <1>1, <2>1, SameLocks
<1> QED  BY <1>1, <1>3, <1>4 DEF Local

\* t goes on, or gives up, with words as they were.
LEMMA StillHolds ==
  ASSUME Typed, NEW t \in Tasklet, NEW S, NEW R, S \subseteq R, Holds(t, S), mem' = mem, owner' = owner,
         Ptrs(reg'[t]) \subseteq R
  PROVE  Ptrs(reg'[t]) \subseteq R
         /\ \A w \in Word : owner'[w] = t => (w = Root \/ w[1] \in R) /\ (Points(w) => mem'[w] \in R)
BY DEF Holds

LEMMA StillDoomed ==
  ASSUME Typed, NEW t \in Tasklet, Local(t), Doomed(t), pc[t] # "abort",
         \A w \in Pending(t) : Blocked(t, w) => w \in Pending(t)'
  PROVE  Doomed(t)'
BY PendingWords, LocalOwn DEF Doomed

LEMMA LoadPure ==
  ASSUME Typed, Pure, NEW t \in Tasklet, pc[t] # "abort", NEW w \in Word, NEW locals, NEW label,
         Load(t, w, locals, label), Onward(t, w, Seen(t, w), locals, label),
         Pending(t) \subseteq PendingAt(locals, label), tainted' = {}
  PROVE  Pure' /\ Local(t)
<1>1. /\ Local(t) /\ mem' = mem /\ owner' = owner
      /\ Own(t)' = Own(t) /\ Span(t) \subseteq Span(t)'
      /\ \A x \in Word : Blocked(t, x) => Blocked(t, x)'
  BY LoadLocal, LocalOwn
<1>2. CASE pc' = pc /\ reg' = reg
  <2>1. Sane(t)'
    BY <1>1, <1>2, Undisturbed DEF Pure
  <2> QED  BY <1>1, <2>1, LocalPure
<1>3. CASE GiveUp(t)
  <2>1. reg' = reg /\ pc'[t] = "abort"
    BY <1>3, GivesUp
  <2>2. Holds(t, Span(t))'
    <3>1. Holds(t, Span(t)) /\ Ptrs(reg'[t]) \subseteq Span(t)'
      BY <1>1, <2>1 DEF Pure, Sane, Holds
    <3> QED  BY <1>1, <3>1, StillHolds DEF Holds, Ptrs, Points
  <2>3. Sane(t)'
    BY <2>1, <2>2 DEF Sane, Doomed
  <2> QED  BY <1>1, <2>3, LocalPure
<1>4. CASE /\ owner[w] = t \/ Unchanged(t, w)
           /\ Proceed(t, locals, label)
           /\ tainted' = IF Seen(t, w) = mem[w] THEN tainted ELSE tainted \cup {"load"}
  <2>1. /\ reg'[t] = locals /\ pc'[t] = label /\ Pending(t)' = PendingAt(locals, label)
    BY <1>4, Proceeds
  <2>2. Seen(t, w) = mem[w] /\ ~ Other(t, w)
    BY <1>4 DEF Unchanged, Other
  <2>3. ASSUME NEW S \in {Own(t), Span(t)}, Holds(t, S)
        PROVE  Ptrs(locals) \subseteq S
    <3>1. Null \in S
      BY OwnIs, SpanIs
    <3>2. w = Root \/ w[1] \in S
      BY <2>3 DEF Onward, Holds
    <3>3. Points(w) => mem[w] \in S
      BY <2>2, <2>3, <3>2, Finds
    <3> QED  BY <2>2, <2>3, <3>1, <3>3 DEF Onward, Holds
  <2>4. Holds(t, Span(t))'
    <3>1. Holds(t, Span(t))
      BY DEF Pure, Sane
    <3>2. Ptrs(reg'[t]) \subseteq Span(t)'
      BY <1>1, <2>1, <2>3, <3>1
    <3> QED  BY <1>1, <3>1, <3>2, StillHolds DEF Holds, Ptrs, Points
  <2>5. CASE Doomed(t)
    <3>1. Doomed(t)'
      BY <1>1, <2>1, <2>5, StillDoomed
    <3>2. Sane(t)'
      BY <2>4, <3>1 DEF Sane
    <3> QED  BY <1>1, <3>2, LocalPure
  <2>6. CASE Holds(t, Own(t))
    <3>1. Ptrs(reg'[t]) \subseteq Own(t)'
      BY <1>1, <2>1, <2>3, <2>6
    <3>2. Holds(t, Own(t))'
      BY <1>1, <2>6, <3>1, StillHolds DEF Holds, Ptrs, Points
    <3>3. Sane(t)'
      BY <2>4, <3>2 DEF Sane
    <3> QED  BY <1>1, <3>3, LocalPure
  <2> QED  BY <2>5, <2>6 DEF Pure, Sane
<1> QED  BY <1>2, <1>3, <1>4 DEF Load

LEMMA ReadPure ==
  ASSUME Typed, Pure, NEW t \in Tasklet, pc[t] # "abort", NEW w \in Word, NEW locals, NEW label,
         ReadDirectly(t, w, locals, label), Onward(t, w, mem[w], locals, label),
         Pending(t) \cup {w} \subseteq PendingAt(locals, label)
  PROVE  Pure' /\ Local(t)
<1>1. /\ mem' = mem /\ owner' = owner /\ used' = used /\ tx' = tx
      /\ rawRead' = rawRead \cup {<<t, v>> : v \in Sources(t, w)}
      /\ reg'[t] = locals /\ pc'[t] = label /\ Pending(t)' = PendingAt(locals, label)
      /\ \A u \in Tasklet \ {t} : reg'[u] = reg[u] /\ pc'[u] = pc[u]
  BY Proceeds DEF ReadDirectly
<1>2. Local(t)
  <2>1. Locks' /\ \A x \in Word : Decided(x)' = Decided(x)
    BY <1>1, SameLocks
  <2> QED  BY <1>1, <2>1 DEF Local
<1>3. /\ \A v \in Tasklet : Own(v)' = Own(v)
      /\ Span(t) \subseteq Span(t)' /\ \A x \in Word : Blocked(t, x) => Blocked(t, x)'
  BY <1>2, LocalOwn
<1>4. ASSUME NEW S \in {Own(t), Span(t)}, Holds(t, S), ~ Other(t, w)
      PROVE  Ptrs(locals) \subseteq S
  <2>1. Null \in S
    BY OwnIs, SpanIs
  <2>2. w = Root \/ w[1] \in S
    BY <1>4 DEF Onward, Holds
  <2>3. Points(w) => mem[w] \in S
    BY <1>4, <2>2, Finds
  <2> QED  BY <1>4, <2>1, <2>3 DEF Onward, Holds
\* What it gets of another tasklet, that one may point to.
<1>5. ASSUME Other(t, w)
      PROVE  /\ Points(w) => mem[w] \in Span(t)'
             /\ <<t, owner[w]>> \in rawRead'
  <2>1. PICK u \in Tasklet \ {t} : owner[w] = u
    BY <1>5 DEF Other, Typed
  <2>2. <<t, u>> \in rawRead' /\ \A v \in Tasklet \ {t} : <<u, v>> \in rawRead => <<t, v>> \in rawRead'
    BY <1>1, <1>5, <2>1 DEF Sources
  <2>3. Span(u) \subseteq Span(t)'
    <3>1. ASSUME NEW v \in Tasklet, v = u \/ <<u, v>> \in rawRead
          PROVE  Own(v) \subseteq Span(t)'
      <4>1. CASE v = t
        BY <1>3, <4>1, SpanIs
      <4>2. CASE v # t
        <5>1. <<t, v>> \in rawRead' /\ Own(v)' = Own(v)
          BY <1>3, <2>2, <3>1, <4>2
        <5> QED  BY <5>1 DEF Span
      <4> QED  BY <4>1, <4>2
    <3> QED  BY <3>1, SpanIs
  <2>4. Points(w) => mem[w] \in Span(u)
    BY <2>1 DEF Pure, Sane, Holds
  <2> QED  BY <2>1, <2>2, <2>3, <2>4
<1>6. Holds(t, Span(t)) /\ Null \in Span(t)
  BY OwnIs, SpanIs DEF Pure, Sane
<1>7. Holds(t, Span(t))'
  <2>1. Ptrs(reg'[t]) \subseteq Span(t)'
    <3>1. CASE Other(t, w)
      BY <1>1, <1>3, <1>5, <1>6, <3>1 DEF Onward, Holds
    <3>2. CASE ~ Other(t, w)
      BY <1>1, <1>3, <1>4, <1>6, <3>2
    <3> QED  BY <3>1, <3>2
  <2> QED  BY <1>1, <1>3, <1>6, <2>1, StillHolds DEF Holds, Ptrs, Points
<1>8. CASE Other(t, w)
  <2>1. Blocked(t, w)' /\ w \in Pending(t)'
    BY <1>1, <1>5, <1>8 DEF Blocked, Other
  <2>2. Sane(t)'
    BY <1>7, <2>1 DEF Sane, Doomed
  <2> QED  BY <1>2, <2>2, LocalPure
<1>9. CASE Doomed(t)
  <2>1. Doomed(t)'
    BY <1>1, <1>2, <1>9, StillDoomed
  <2>2. Sane(t)'
    BY <1>7, <2>1 DEF Sane
  <2> QED  BY <1>2, <2>2, LocalPure
<1>10. CASE Holds(t, Own(t)) /\ ~ Other(t, w)
  <2>1. Ptrs(reg'[t]) \subseteq Own(t)'
    BY <1>1, <1>3, <1>4, <1>10
  <2>2. Holds(t, Own(t))'
    BY <1>1, <1>3, <1>10, <2>1, StillHolds DEF Holds, Ptrs, Points
  <2>3. Sane(t)'
    BY <1>7, <2>2 DEF Sane
  <2> QED  BY <1>2, <2>3, LocalPure
<1> QED  BY <1>8, <1>9, <1>10 DEF Pure, Sane

LEMMA StoreLocal ==
  ASSUME Typed, Pure, NEW t \in Tasklet, NEW w \in Word, NEW v, NEW locals, NEW label,
         Store(t, w, v, locals, label), ~ Other(t, w)
  PROVE  /\ Local(t) /\ rawRead' = rawRead
         /\ mem' = [mem EXCEPT ![w] = v] /\ owner' = [owner EXCEPT ![w] = t]
         /\ IF w \in tx[t].stale THEN GiveUp(t) ELSE Proceed(t, locals, label)
<1> DEFINE new == [tx[t] EXCEPT !.undo = Logging(t, w)]
<1>1. /\ mem' = [mem EXCEPT ![w] = v] /\ owner' = [owner EXCEPT ![w] = t]
      /\ tx' = [tx EXCEPT ![t] = new]
      /\ IF w \in tx[t].stale THEN GiveUp(t) ELSE Proceed(t, locals, label)
      /\ used' = used /\ rawRead' = rawRead
  BY DEF Store, Logging, ghosts, Typed
<1>2. tx[t] \in Txs
  BY DEF Typed
<1>3. new.undo = Logging(t, w) /\ new.fresh = tx[t].fresh /\ new.stale = tx[t].stale
  BY <1>2 DEF Txs
<1> HIDE DEF new
<1>4. /\ tx'[t].undo = Logging(t, w) /\ tx'[t].fresh = tx[t].fresh /\ tx'[t].stale = tx[t].stale
      /\ \A u \in Tasklet \ {t} : tx'[u] = tx[u] /\ reg'[u] = reg[u] /\ pc'[u] = pc[u]
  BY <1>1, <1>3, GivesUp, Proceeds DEF Typed
<1>5. /\ owner[w] \in {NoTx, t} /\ owner'[w] = t
      /\ \A x \in Word \ {w} : owner'[x] = owner[x] /\ mem'[x] = mem[x]
  BY <1>1 DEF Typed, Other
<1>6. Locks'
  <2>1. ASSUME NEW u \in Tasklet, NEW x \in Word
        PROVE  owner'[x] = u <=> x \in DOMAIN tx'[u].undo
    <3>1. owner[x] = u <=> x \in DOMAIN tx[u].undo
      BY DEF Pure, Locks
    <3>2. CASE u = t
      BY <1>4, <1>5, <3>1, <3>2 DEF Logging
    <3>3. CASE u # t
      BY <1>4, <1>5, <3>1, <3>3, NoTxIs
    <3> QED  BY <3>2, <3>3
  <2> QED  BY <2>1 DEF Locks
<1>7. ASSUME NEW x \in Word
      PROVE  Decided(x)' = Decided(x)
  <2>0. t # NoTx /\ owner[x] \in Tasklet \cup {NoTx} /\ \A u \in Tasklet : owner[x] = u <=> x \in DOMAIN tx[u].undo
    BY NoTxIs DEF Typed, Pure, Locks
  <2>1. CASE owner[x] = t
    <3>1. x \in DOMAIN tx[t].undo /\ owner'[x] = t
      BY <1>5, <2>0, <2>1
    <3>2. Logging(t, w)[x] = tx[t].undo[x]
      BY <3>1 DEF Logging
    <3> QED  BY <1>4, <2>0, <2>1, <3>1, <3>2 DEF Decided
  <2>2. CASE owner[x] = NoTx /\ x = w
    <3>1. x \notin DOMAIN tx[t].undo /\ owner'[x] = t
      BY <1>5, <2>0, <2>2
    <3>2. Logging(t, w)[x] = mem[x]
      BY <2>2, <3>1 DEF Logging
    <3> QED  BY <1>4, <2>0, <2>2, <3>1, <3>2 DEF Decided
  <2>3. CASE x # w /\ owner[x] # t
    <3>1. owner'[x] = owner[x] /\ mem'[x] = mem[x]
      BY <1>5, <2>3
    <3> QED  BY <1>4, <2>0, <2>3, <3>1 DEF Decided
  <2> QED  BY <1>5, <2>0, <2>1, <2>2, <2>3
<1> QED  BY <1>1, <1>4, <1>5, <1>6, <1>7 DEF Local

LEMMA StorePure ==
  ASSUME Typed, Pure, NEW t \in Tasklet, pc[t] # "abort", NEW w \in Word, NEW v, NEW locals, NEW label,
         Store(t, w, v, locals, label), Onward(t, w, Null, locals, label),
         Points(w) => v \in Ptrs(reg[t]) \cup {Null},
         Pending(t) \ {w} \subseteq PendingAt(locals, label)
  PROVE  Pure' /\ Local(t)
<1>1. CASE Other(t, w)
  <2>1. /\ reg' = reg /\ pc'[t] = "abort" /\ mem' = mem /\ owner' = owner /\ used' = used
        /\ tx' = tx /\ rawRead' = rawRead /\ \A u \in Tasklet \ {t} : pc'[u] = pc[u]
    BY <1>1, GivesUp DEF Store, ghosts
  <2>2. Local(t)
    <3>1. Locks' /\ \A x \in Word : Decided(x)' = Decided(x)
      BY <2>1, SameLocks
    <3> QED  BY <2>1, <3>1 DEF Local
  <2>3. Holds(t, Span(t))'
    <3>1. Holds(t, Span(t)) /\ Span(t) \subseteq Span(t)'
      BY <2>2, LocalOwn DEF Pure, Sane
    <3>2. Ptrs(reg'[t]) \subseteq Span(t)'
      BY <2>1, <3>1 DEF Holds
    <3> QED  BY <2>1, <3>1, <3>2, StillHolds DEF Holds, Ptrs, Points
  <2>4. Sane(t)'
    BY <2>1, <2>3 DEF Sane, Doomed
  <2> QED  BY <2>2, <2>4, LocalPure
<1>2. CASE ~ Other(t, w)
  <2>1. /\ Local(t) /\ mem' = [mem EXCEPT ![w] = v] /\ owner' = [owner EXCEPT ![w] = t]
        /\ IF w \in tx[t].stale THEN GiveUp(t) ELSE Proceed(t, locals, label)
        /\ Own(t)' = Own(t) /\ Span(t) \subseteq Span(t)'
    BY <1>2, StoreLocal, LocalOwn
  <2>2. /\ mem'[w] = v /\ \A x \in Word \ {w} : owner'[x] = owner[x] /\ mem'[x] = mem[x]
    BY <2>1 DEF Typed
  <2>3. reg'[t] \in {reg[t], locals}
    BY <2>1, GivesUp, Proceeds
  <2>4. ASSUME NEW S \in {Own(t), Span(t)}, Holds(t, S), NEW R, S \subseteq R
        PROVE  Ptrs(reg'[t]) \subseteq R
               /\ \A x \in Word : owner'[x] = t => (x = Root \/ x[1] \in R) /\ (Points(x) => mem'[x] \in R)
    <3>1. Null \in S /\ Ptrs(reg[t]) \subseteq S
      BY <2>4, OwnIs, SpanIs DEF Holds
    <3>2. Ptrs(locals) \subseteq S /\ (w = Root \/ w[1] \in S) /\ (Points(w) => v \in S)
      BY <3>1 DEF Onward
    <3>3. ASSUME NEW x \in Word, owner'[x] = t
          PROVE  (x = Root \/ x[1] \in S) /\ (Points(x) => mem'[x] \in S)
      <4>1. CASE x = w
        BY <2>2, <3>2, <4>1
      <4>2. CASE x # w
        BY <2>2, <2>4, <3>3, <4>2 DEF Holds
      <4> QED  BY <4>1, <4>2
    <3> QED  BY <2>3, <2>4, <3>1, <3>2, <3>3
  <2>5. Holds(t, Span(t))'
    <3>1. Holds(t, Span(t))
      BY DEF Pure, Sane
    <3> QED  BY <2>1, <2>4, <3>1 DEF Holds, Ptrs, Points
  <2>6. CASE w \in tx[t].stale
    <3>1. pc'[t] = "abort"
      BY <2>1, <2>6, GivesUp
    <3>2. Sane(t)'
      BY <2>5, <3>1 DEF Sane, Doomed
    <3> QED  BY <2>1, <3>2, LocalPure
  <2>7. CASE w \notin tx[t].stale /\ Doomed(t)
    <3>1. Pending(t)' = PendingAt(locals, label)
      BY <2>1, <2>7, Proceeds
    <3>2. ~ Blocked(t, w)
      BY <1>2, <2>7 DEF Blocked
    <3>3. Doomed(t)'
      BY <2>1, <2>7, <3>1, <3>2, StillDoomed
    <3>4. Sane(t)'
      BY <2>5, <3>3 DEF Sane
    <3> QED  BY <2>1, <3>4, LocalPure
  <2>8. CASE Holds(t, Own(t))
    <3>1. Holds(t, Own(t))'
      BY <2>1, <2>4, <2>8 DEF Holds, Ptrs, Points
    <3>2. Sane(t)'
      BY <2>5, <3>1 DEF Sane
    <3> QED  BY <2>1, <3>2, LocalPure
  <2> QED  BY <2>6, <2>7, <2>8 DEF Pure, Sane
<1> QED  BY <1>1, <1>2

LEMMA AccessPure ==
  ASSUME Typed, Pure, NEW t \in Tasklet, Accesses(t), tainted' = {}
  PROVE  Pure' /\ Local(t)
BY LoadPure, ReadPure, StorePure DEF Accesses, Loading, Reading, Storing


\* A tasklet that has just been reset points to nothing and has locked nothing.
LEMMA ResetSane ==
  ASSUME Typed, NEW t \in Tasklet, NEW n, NEW k, reg'[t] = Fresh(n, k), \A w \in Word : owner'[w] # t,
         Null \in Own(t)'
  PROVE  Sane(t)'
<1>1. Ptrs(Fresh(n, k)) = {Null}
  BY DEF Ptrs, Fresh
<1>2. Holds(t, Own(t))'
  BY <1>1 DEF Holds, Ptrs
<1>3. Holds(t, Span(t))'
  BY <1>2 DEF Holds, Span, Ptrs
<1> QED  BY <1>2, <1>3 DEF Sane

\* t rolls back, and nobody has read directly what it had written.
LEMMA RollBackPure ==
  ASSUME Typed, Pure, NEW t \in Tasklet, RollBack(t), tainted' = {}, tx'[t] = NewTx,
         \A u \in Tasklet \ {t} : /\ tx'[u].undo = tx[u].undo /\ tx'[u].fresh = tx[u].fresh
                                  /\ pc[u] # "idle" => tx[u].stale \subseteq tx'[u].stale
  PROVE  Pure' /\ \A w \in Word : Decided(w)' = Decided(w)
<1>1. /\ used' = used
      /\ mem' = [w \in Word |-> IF w \in DOMAIN tx[t].undo THEN tx[t].undo[w] ELSE mem[w]]
      /\ owner' = [w \in Word |-> IF owner[w] = t THEN NoTx ELSE owner[w]]
      /\ reg'[t] = Fresh(reg[t].n, 1)
      /\ \A u \in Tasklet \ {t} : reg'[u] = reg[u] /\ pc'[u] = pc[u]
      /\ rawRead' = {p \in rawRead : t \notin {p[1], p[2]}}
      /\ \A p \in rawRead : p[2] # t
  BY DEF RollBack, Goto, Typed
<1>2. NoTx \notin Tasklet /\ NewTx.fresh = 0 /\ DOMAIN NewTx.undo = {}
  BY NoTxIs, NewTxTyped
<1>3. \A u \in Tasklet, w \in Word : owner[w] = u <=> w \in DOMAIN tx[u].undo
  BY DEF Pure, Locks
<1>4. ASSUME NEW w \in Word
      PROVE  Decided(w)' = Decided(w)
  <2>1. CASE owner[w] = t
    BY <1>1, <1>2, <1>3, <2>1 DEF Decided
  <2>2. CASE owner[w] # t
    <3>1. owner'[w] = owner[w] /\ mem'[w] = mem[w] /\ owner[w] \in Tasklet \cup {NoTx}
      BY <1>1, <1>3, <2>2 DEF Typed
    <3> QED  BY <1>2, <2>2, <3>1 DEF Decided
  <2> QED  BY <2>1, <2>2
<1>5. Locks'
  <2>1. ASSUME NEW u \in Tasklet, NEW w \in Word
        PROVE  owner'[w] = u <=> w \in DOMAIN tx'[u].undo
    <3>1. CASE u = t
      BY <1>1, <1>2, <3>1
    <3>2. CASE u # t
      BY <1>1, <1>2, <1>3, <3>2
    <3> QED  BY <3>1, <3>2
  <2> QED  BY <2>1 DEF Locks
<1>6. KeptPtr' = KeptPtr
  BY <1>1 DEF KeptPtr, Kept
<1>7. \A u \in Tasklet \ {t} : Own(u)' = Own(u)
  BY <1>1, <1>6 DEF Own
<1>8. Own(t)' = KeptPtr
  <2>1. used[t] \in Nat /\ used[t] + 0 = used[t] /\ used[t] <= NR_NODES /\ NR_NODES \in Nat
    BY AvlAssumption DEF Typed
  <2>2. \A i \in 1 .. used[t] : <<t, i>> \in KeptPtr
    BY <2>1 DEF KeptPtr, Kept, Node
  <2> QED  BY <1>1, <1>2, <1>6, <2>1, <2>2 DEF Own
<1>9. Fixed'
  <2>1. Root \in Word /\ \A n \in Pointer, f \in Links : <<n, f>> \in Word
    BY LinkWords, Words
  <2>2. ASSUME NEW n \in KeptPtr, NEW f \in Links
        PROVE  Decided(<<n, f>>)' \in KeptPtr'
    BY <1>4, <1>6, <2>1, OwnIs DEF Pure, Fixed
  <2>3. ASSUME NEW v \in Tasklet \ {t}, NEW n \in Own(v), NEW f \in Links
        PROVE  Decided(<<n, f>>)' \in Own(v)'
    BY <1>4, <1>7, <2>1, OwnIs DEF Pure, Fixed
  <2>4. Decided(Root)' \in KeptPtr'
    BY <1>4, <1>6, <2>1 DEF Pure, Fixed
  <2> QED  BY <1>6, <1>7, <1>8, <2>2, <2>3, <2>4 DEF Fixed
<1>10. Sane(t)'
  <2>1. \A w \in Word : owner'[w] # t
    BY <1>1, <1>2
  <2> QED  BY <1>1, <1>8, <2>1, ResetSane, OwnIs
<1>11. ASSUME NEW u \in Tasklet \ {t}
       PROVE  Sane(u)'
  <2>1. reg'[u] = reg[u] /\ pc'[u] = pc[u] /\ Own(u)' = Own(u)
    BY <1>1, <1>7
  <2>2. \A w \in Word : (owner'[w] = u <=> owner[w] = u) /\ (owner[w] = u => mem'[w] = mem[w])
    BY <1>1, <1>2, <1>3
  <2>3. ASSUME NEW w \in Word, pc[u] # "idle", Blocked(u, w)
        PROVE  Blocked(u, w)'
    <3>1. CASE w \in tx[u].stale
      BY <2>3, <3>1 DEF Blocked
    <3>2. CASE Other(u, w) /\ <<u, owner[w]>> \in rawRead
      <4>1. owner[w] # t /\ <<u, owner[w]>> \in rawRead' /\ owner'[w] = owner[w]
        BY <1>1, <3>2
      <4> QED  BY <3>2, <4>1 DEF Blocked, Other
    <3> QED  BY <2>3, <3>1, <3>2 DEF Blocked
  <2>4. Span(u) \subseteq Span(u)'
    <3>1. \A v \in Tasklet : <<u, v>> \in rawRead => v # t /\ <<u, v>> \in rawRead' /\ Own(v)' = Own(v)
      BY <1>1, <1>7
    <3> QED  BY <2>1, <3>1 DEF Span
  <2> QED  BY <2>1, <2>2, <2>3, <2>4, Undisturbed DEF Pure
<1> QED  BY <1>4, <1>5, <1>9, <1>10, <1>11 DEF Pure

LEMMA AbortPure ==
  ASSUME Typed, Pure, NEW t \in Tasklet, Abort(t), tainted' = {}
  PROVE  Pure' /\ \A w \in Word : Decided(w)' = Decided(w)
<1>1. RollBack(t) /\ tx'[t] = NewTx /\ \A u \in Tasklet \ {t} : tx'[u] = tx[u]
  BY DEF Abort, Typed
<1> QED  BY <1>1, RollBackPure

\* t rolls back as it tries to commit.
LEMMA FailsPure ==
  ASSUME Typed, Pure, NEW t \in Tasklet, Overtake(t, {}), RollBack(t), tainted' = {}
  PROVE  Pure' /\ \A w \in Word : Decided(w)' = Decided(w)
<1>1. PICK none \in SUBSET Word : none = {}
  OBVIOUS
<1>2. Overtake(t, none)
  BY <1>1
<1>3. /\ tx'[t] = NewTx
      /\ \A u \in Tasklet \ {t} : /\ tx'[u].undo = tx[u].undo /\ tx'[u].fresh = tx[u].fresh
                                  /\ pc[u] # "idle" => tx[u].stale \subseteq tx'[u].stale
  BY <1>2, Overtaken
<1> QED  BY <1>3, RollBackPure

\* t commits: what it points to is kept, and so is what its words point to.
LEMMA CommittedPure ==
  ASSUME Typed, Pure, NEW t \in Tasklet, pc[t] = "commit", Overtake(t, DOMAIN tx[t].undo),
         pc' = [pc EXCEPT ![t] = "idle"],
         owner' = [w \in Word |-> IF w \in DOMAIN tx[t].undo THEN NoTx ELSE owner[w]],
         used' = [used EXCEPT ![t] = used[t] + tx[t].fresh],
         reg' = [reg EXCEPT ![t] = Fresh(reg[t].n + 1, 1)],
         rawRead' = {p \in rawRead : t \notin {p[1], p[2]}}, mem' = mem
  PROVE  Pure'
<1> DEFINE writes == DOMAIN tx[t].undo
<1>0. /\ tx'[t] = NewTx
      /\ \A u \in Tasklet \ {t} : /\ tx'[u].undo = tx[u].undo /\ tx'[u].fresh = tx[u].fresh
                                  /\ pc[u] # "idle" => tx'[u].stale = tx[u].stale \cup writes
  <2>1. writes \in SUBSET Word
    BY Logged DEF Typed, Txs
  <2> QED  BY <2>1, Overtaken
<1>1. /\ reg'[t] = Fresh(reg[t].n + 1, 1) /\ used'[t] = used[t] + tx[t].fresh
      /\ \A u \in Tasklet \ {t} : reg'[u] = reg[u] /\ pc'[u] = pc[u] /\ used'[u] = used[u]
  BY DEF Typed
<1>2. NoTx \notin Tasklet /\ NewTx.fresh = 0 /\ DOMAIN NewTx.undo = {}
  BY NoTxIs, NewTxTyped
<1>3. \A u \in Tasklet, w \in Word : owner[w] = u <=> w \in DOMAIN tx[u].undo
  BY DEF Pure, Locks
<1>4. KeptPtr' = Own(t) /\ Own(t)' = Own(t)
  <2>1. used[t] \in Nat /\ tx[t].fresh \in Nat /\ NR_NODES \in Nat
        /\ used[t] + tx[t].fresh <= NR_NODES /\ \A u \in Tasklet : used[u] \in Nat
    BY AvlAssumption DEF Typed, Txs
  <2>2. ASSUME NEW n \in Node
        PROVE  n[2] <= used'[n[1]] <=> (n[2] <= used[n[1]] \/ n \in {<<t, i>> : i \in 1 .. used[t] + tx[t].fresh})
    <3>1. PICK u \in Tasklet, i \in 1 .. NR_NODES : n = <<u, i>>
      BY DEF Node
    <3>2. CASE u = t
      BY <1>1, <2>1, <3>1, <3>2
    <3>3. CASE u # t
      BY <1>1, <2>1, <3>1, <3>3
    <3> QED  BY <3>2, <3>3
  <2>3. {<<t, i>> : i \in 1 .. used[t] + tx[t].fresh} \subseteq Node
    BY <2>1 DEF Node
  <2>4. KeptPtr' = Own(t)
    BY <2>2, <2>3 DEF KeptPtr, Own, Kept
  <2>5. {<<t, i>> : i \in 1 .. used'[t] + tx'[t].fresh} = {<<t, i>> : i \in 1 .. used[t] + tx[t].fresh}
    <3>1. used'[t] + tx'[t].fresh = used[t] + tx[t].fresh
      BY <1>0, <1>1, <1>2, <2>1
    <3> QED  BY <3>1
  <2>6. Own(t)' = Own(t) \cup {<<t, i>> : i \in 1 .. used[t] + tx[t].fresh}
    BY <2>4, <2>5 DEF Own
  <2> QED  BY <2>4, <2>6 DEF Own
<1>5. \A u \in Tasklet \ {t} : Own(u)' = Own(t) \cup Own(u)
  <2>1. ASSUME NEW u \in Tasklet \ {t}
        PROVE  Own(u)' = Own(t) \cup Own(u)
    <3>1. Own(u)' = KeptPtr' \cup {<<u, i>> : i \in 1 .. used[u] + tx[u].fresh}
      BY <1>0, <1>1 DEF Own
    <3> QED  BY <1>4, <3>1 DEF Own
  <2> QED  BY <2>1
\* Nothing is pending when it commits, so that t holds what is its own only.
<1>6. ASSUME NEW w \in Word, owner[w] = t
      PROVE  /\ Decided(w)' = mem[w]
             /\ Points(w) => mem[w] \in Own(t)
  <2>1. Decided(w)' = mem[w]
    BY <1>3, <1>6 DEF Decided
  <2>2. ~ Doomed(t)
    BY NothingPending DEF Doomed, Pending, Moving
  <2> QED  BY <1>6, <2>1, <2>2 DEF Pure, Sane, Holds
<1>7. ASSUME NEW w \in Word, owner[w] # t
      PROVE  Decided(w)' = Decided(w)
  <2>1. owner'[w] = owner[w] /\ mem'[w] = mem[w] /\ owner[w] \in Tasklet \cup {NoTx}
    BY <1>3, <1>7 DEF Typed
  <2> QED  BY <1>0, <1>2, <1>7, <2>1 DEF Decided
<1>8. Locks'
  <2>1. ASSUME NEW u \in Tasklet, NEW w \in Word
        PROVE  owner'[w] = u <=> w \in DOMAIN tx'[u].undo
    <3>1. CASE u = t
      BY <1>0, <1>2, <1>3, <3>1
    <3>2. CASE u # t
      BY <1>0, <1>2, <1>3, <3>2
    <3> QED  BY <3>1, <3>2
  <2> QED  BY <2>1 DEF Locks
<1>9. Fixed'
  <2>1. Root \in Word /\ Points(Root)
        /\ \A n \in Pointer, f \in Links : <<n, f>> \in Word /\ Points(<<n, f>>)
    BY LinkWords, Words
  <2>2. ASSUME NEW v \in Tasklet, NEW n \in Own(v), NEW f \in Links
        PROVE  Decided(<<n, f>>)' \in Own(t) \cup Own(v)
    <3>1. <<n, f>> \in Word /\ Points(<<n, f>>) /\ Decided(<<n, f>>) \in Own(v)
      BY <2>1, OwnIs DEF Pure, Fixed
    <3>2. CASE owner[<<n, f>>] = t
      BY <1>6, <3>1, <3>2
    <3>3. CASE owner[<<n, f>>] # t
      BY <1>7, <3>1, <3>3
    <3> QED  BY <3>2, <3>3
  <2>3. Decided(Root)' \in KeptPtr'
    <3>1. CASE owner[Root] = t
      BY <1>4, <1>6, <2>1, <3>1
    <3>2. CASE owner[Root] # t
      BY <1>4, <1>7, <2>1, <3>2, OwnIs DEF Pure, Fixed
    <3> QED  BY <3>1, <3>2
  <2>4. ASSUME NEW v \in Tasklet, NEW n \in Own(v)', NEW f \in Links
        PROVE  Decided(<<n, f>>)' \in Own(v)'
    <3>1. Own(v)' = Own(t) \cup Own(v)
      BY <1>4, <1>5
    <3>2. CASE n \in Own(t)
      BY <2>2, <3>1, <3>2
    <3>3. CASE n \in Own(v)
      BY <2>2, <3>1, <3>3
    <3> QED  BY <3>1, <3>2, <3>3
  <2>5. \A n \in KeptPtr', f \in Links : Decided(<<n, f>>)' \in KeptPtr'
    BY <1>4, <2>4
  <2> QED  BY <2>3, <2>4, <2>5 DEF Fixed
<1>10. Sane(t)'
  <2>1. \A w \in Word : owner'[w] # t
    BY <1>2, <1>3
  <2>2. Null \in Own(t)
    BY OwnIs
  <2> QED  BY <1>1, <1>4, <2>1, <2>2, ResetSane
<1>11. ASSUME NEW u \in Tasklet \ {t}
       PROVE  Sane(u)'
  <2>1. reg'[u] = reg[u] /\ pc'[u] = pc[u] /\ Own(u) \subseteq Own(u)' /\ Own(t) \subseteq Own(u)'
    BY <1>1, <1>5
  <2>2. \A w \in Word : (owner'[w] = u <=> owner[w] = u) /\ mem'[w] = mem[w]
    BY <1>2, <1>3
  <2>3. ASSUME NEW w \in Word, pc[u] # "idle", Blocked(u, w)
        PROVE  Blocked(u, w)'
    <3>1. CASE w \in tx[u].stale \/ owner[w] = t
      BY <1>0, <1>3, <2>3, <3>1 DEF Blocked
    <3>2. CASE Other(u, w) /\ owner[w] # t /\ <<u, owner[w]>> \in rawRead
      <4>1. <<u, owner[w]>> \in rawRead' /\ owner'[w] = owner[w]
        BY <1>3, <3>2
      <4> QED  BY <3>2, <4>1 DEF Blocked, Other
    <3> QED  BY <2>3, <3>1, <3>2 DEF Blocked
  <2>4. Span(u) \subseteq Span(u)'
    <3>1. ASSUME NEW v \in Tasklet, v = u \/ <<u, v>> \in rawRead
          PROVE  Own(v) \subseteq Span(u)'
      <4>1. CASE v \in {u, t}
        BY <2>1, <4>1 DEF Span
      <4>2. CASE v \notin {u, t}
        <5>1. <<u, v>> \in rawRead' /\ Own(v) \subseteq Own(v)'
          BY <1>5, <3>1, <4>2
        <5> QED  BY <5>1 DEF Span
      <4> QED  BY <4>1, <4>2
    <3> QED  BY <3>1, SpanIs
  <2> QED  BY <2>1, <2>2, <2>3, <2>4, Undisturbed DEF Pure
<1> QED  BY <1>8, <1>9, <1>10, <1>11 DEF Pure

LEMMA CommitPure ==
  ASSUME Typed, Pure, NEW t \in Tasklet, Commit(t), tainted' = {}
  PROVE  Pure'
<1>1. CASE /\ Overtake(t, DOMAIN tx[t].undo) /\ Goto(t, "idle")
           /\ owner' = [w \in Word |-> IF w \in DOMAIN tx[t].undo THEN NoTx ELSE owner[w]]
           /\ used' = [used EXCEPT ![t] = @ + tx[t].fresh]
           /\ reg' = [reg EXCEPT ![t] = Fresh(@.n + 1, 1)]
           /\ rawRead' = {p \in rawRead : t \notin {p[1], p[2]}}
           /\ UNCHANGED <<case, mem, snap, tainted>>
  <2>1. pc[t] = "commit" /\ mem' = mem /\ pc' = [pc EXCEPT ![t] = "idle"]
    BY <1>1 DEF Commit, Goto
  <2>2. used' = [used EXCEPT ![t] = used[t] + tx[t].fresh] /\ reg' = [reg EXCEPT ![t] = Fresh(reg[t].n + 1, 1)]
    BY <1>1 DEF Typed
  <2> QED  BY <1>1, <2>1, <2>2, CommittedPure
<1>2. CASE Overtake(t, {}) /\ RollBack(t)
  BY <1>2, FailsPure
<1> QED  BY <1>1, <1>2 DEF Commit

LEMMA BeginPure ==
  ASSUME Typed, Pure, NEW t \in Tasklet, Begin(t)
  PROVE  Pure' /\ (\A w \in Word : Decided(w)' = Decided(w)) /\ KeptPtr' = KeptPtr
<1>1. /\ mem' = mem /\ owner' = owner /\ used' = used /\ reg' = reg /\ rawRead' = rawRead
      /\ tx' = tx /\ pc[t] = "idle" /\ pc'[t] = "enter" /\ \A u \in Tasklet \ {t} : pc'[u] = pc[u]
  BY DEF Begin, Goto, Typed, Running
<1>2. KeptPtr' = KeptPtr /\ (\A v \in Tasklet : Own(v)' = Own(v)) /\ \A w : Decided(w)' = Decided(w)
  BY <1>1 DEF Decided, KeptPtr, Kept, Own
<1>3. Locks' /\ Fixed'
  BY <1>1, <1>2 DEF Pure, Fixed, Locks
<1>4. \A u \in Tasklet : Span(u)' = Span(u) /\ \A w : Blocked(u, w)' = Blocked(u, w)
  BY <1>1, <1>2 DEF Span, Blocked, Other
<1>5. ASSUME NEW u \in Tasklet \ {t}
      PROVE  Sane(u)'
  BY <1>1, <1>2, <1>4, Undisturbed DEF Pure
<1>6. Sane(t)'
  <2>1. \A S : Holds(t, S) => /\ Ptrs(reg'[t]) \subseteq S
                              /\ \A w \in Word : owner'[w] = t => (w = Root \/ w[1] \in S) /\ (Points(w) => mem'[w] \in S)
    BY <1>1 DEF Holds
  <2>2. ~ Doomed(t)
    BY <1>1, PendingWords DEF Doomed
  <2>3. Holds(t, Own(t)) /\ Holds(t, Span(t))
    BY <2>2 DEF Pure, Sane
  <2>4. Holds(t, Own(t))' /\ Holds(t, Span(t))'
    BY <1>2, <1>4, <2>1, <2>3 DEF Holds, Ptrs, Points
  <2> QED  BY <2>4 DEF Sane
<1> QED  BY <1>2, <1>3, <1>5, <1>6 DEF Pure

\* The new node is nobody's yet.
LEMMA NewIsNew ==
  ASSUME Typed, NEW t \in Tasklet, pc[t] = "alloc", NextNode(t) \in Node
  PROVE  \A v \in Tasklet : NextNode(t) \notin Own(v) /\ NextNode(t) \notin Span(v)
<1>1. used[t] \in Nat /\ tx[t].fresh \in Nat
  BY DEF Typed, Txs
<1>2. ~ Kept(NextNode(t))
  BY <1>1 DEF Kept, NextNode
<1>3. NextNode(t) \notin KeptPtr
  BY <1>2, AvlAssumption DEF KeptPtr
<1>4. NextNode(t) \notin {<<t, i>> : i \in 1 .. used[t] + tx[t].fresh}
  BY <1>1 DEF NextNode
<1>5. \A v \in Tasklet \ {t} : NextNode(t) \notin {<<v, i>> : i \in 1 .. used[v] + tx[v].fresh}
  BY DEF NextNode
<1>6. \A v \in Tasklet : NextNode(t) \notin Own(v)
  BY <1>3, <1>4, <1>5 DEF Own
<1> QED  BY <1>6, SpanIs

LEMMA AllocPure ==
  ASSUME Typed, Pure, NEW t \in Tasklet, Alloc(t)
  PROVE  /\ Pure' /\ KeptPtr' = KeptPtr
         /\ \A w \in Word : w[1] # NextNode(t) => Decided(w)' = Decided(w)
<1>0. PICK new : new = NextNode(t)
  OBVIOUS
<1>1. /\ new \in Node /\ new # Null /\ pc[t] = "alloc"
      /\ \E l \in {"hang", "link"} : pc' = [pc EXCEPT ![t] = l]
      /\ mem' = [w \in Word |-> IF w[1] = new THEN NewNode(t)[w[2]] ELSE mem[w]]
      /\ tx' = [tx EXCEPT ![t] = [tx[t] EXCEPT !.fresh = tx[t].fresh + 1]]
      /\ reg' = [reg EXCEPT ![t] = [reg[t] EXCEPT !.current = new]]
      /\ owner' = owner /\ used' = used /\ rawRead' = rawRead
  BY <1>0, AllocDone DEF ghosts
<1>2. \A v \in Tasklet : new \notin Own(v) /\ new \notin Span(v)
  BY <1>0, <1>1, NewIsNew
<1>3. /\ tx'[t].fresh = tx[t].fresh + 1 /\ tx'[t].undo = tx[t].undo /\ tx'[t].stale = tx[t].stale
      /\ \A u \in Tasklet \ {t} : tx'[u] = tx[u]
  <2>1. tx[t] \in Txs
    BY DEF Typed
  <2> QED  BY <1>1, <2>1 DEF Typed, Txs
<1>4. /\ Ptrs(reg'[t]) \subseteq Ptrs(reg[t]) \cup {new}
      /\ \A u \in Tasklet \ {t} : reg'[u] = reg[u]
  <2>1. reg[t] \in Regs
    BY Registers
  <2> QED  BY <1>1, <2>1 DEF Typed, Regs, Ptrs
<1>5. \A u \in Tasklet \ {t} : pc'[u] = pc[u]
  BY <1>1 DEF Typed
<1>6. new # Tree /\ Tree = Root[1] /\ NoTx \notin Tasklet
  BY <1>1, AvlAssumption, NoTxIs DEF Root
\* Nobody has locked a word of it.
<1>7. \A w \in Word : w[1] = new => owner[w] = NoTx
  <2>1. ASSUME NEW w \in Word, w[1] = new, owner[w] # NoTx
        PROVE  FALSE
    <3>1. PICK u \in Tasklet : owner[w] = u
      BY <2>1 DEF Typed
    <3>2. w = Root \/ w[1] \in Span(u)
      BY <3>1 DEF Pure, Sane, Holds
    <3> QED  BY <1>2, <1>6, <2>1, <3>2
  <2> QED  BY <2>1
<1>8. KeptPtr' = KeptPtr /\ \A u \in Tasklet \ {t} : Own(u)' = Own(u)
  <2>1. KeptPtr' = KeptPtr
    BY <1>1 DEF KeptPtr, Kept
  <2> QED  BY <1>1, <1>3, <2>1 DEF Own
<1>9. Own(t)' = Own(t) \cup {new}
  <2>1. used[t] \in Nat /\ tx[t].fresh \in Nat
    BY DEF Typed, Txs
  <2>2. {<<t, i>> : i \in 1 .. used[t] + (tx[t].fresh + 1)}
          = {<<t, i>> : i \in 1 .. used[t] + tx[t].fresh} \cup {new}
    BY <1>0, <2>1 DEF NextNode
  <2> QED  BY <1>1, <1>3, <1>8, <2>2 DEF Own
<1>10. ASSUME NEW w \in Word, w[1] # new
       PROVE  mem'[w] = mem[w] /\ Decided(w)' = Decided(w)
  <2>1. mem'[w] = mem[w] /\ owner'[w] = owner[w] /\ owner[w] \in Tasklet \cup {NoTx}
    BY <1>1, <1>10 DEF Typed
  <2> QED  BY <1>3, <1>6, <2>1 DEF Decided
\* Nothing is pending, so that t holds what is its own only.
<1>11. Holds(t, Own(t))
  <2>1. ~ Doomed(t)
    BY <1>1, NothingPending DEF Doomed, Pending, Moving
  <2> QED  BY <2>1 DEF Pure, Sane
<1>12. ASSUME NEW f \in Links
       PROVE  Decided(<<new, f>>)' \in Own(t)
  <2>1. <<new, f>> \in Word /\ f \in Field /\ f \notin {"key", "data", "balance"} /\ <<new, f>>[1] = new
    BY <1>1, <1>12, Words DEF Links, Field, Pointer, Side
  <2>2. Decided(<<new, f>>)' = NewNode(t)[f]
    <3>1. owner[<<new, f>>] = NoTx
      BY <1>7, <2>1
    <3>2. mem'[<<new, f>>] = NewNode(t)[f]
      BY <1>1, <2>1
    <3> QED  BY <1>1, <3>1, <3>2 DEF Decided
  <2>3. NewNode(t)[f] \in {reg[t].parent, Null}
    BY <2>1 DEF NewNode
  <2> QED  BY <1>11, <2>2, <2>3, OwnIs DEF Holds, Ptrs
<1>13. Locks'
  BY <1>1, <1>3 DEF Pure, Locks
<1>14. Fixed'
  <2>1. Root \in Word /\ \A n \in Pointer, f \in Links : <<n, f>> \in Word /\ <<n, f>>[1] = n
    BY LinkWords, Words
  <2>2. Decided(Root)' \in KeptPtr'
    BY <1>6, <1>8, <1>10, <2>1 DEF Pure, Fixed
  <2>3. ASSUME NEW v \in Tasklet, NEW n \in Own(v), NEW f \in Links
        PROVE  Decided(<<n, f>>)' = Decided(<<n, f>>)
    BY <1>2, <1>10, <2>1, OwnIs
  <2>4. \A n \in KeptPtr, f \in Links : Decided(<<n, f>>)' \in KeptPtr'
    BY <1>8, <2>3, OwnIs DEF Pure, Fixed
  <2>5. ASSUME NEW v \in Tasklet, NEW n \in Own(v)', NEW f \in Links
        PROVE  Decided(<<n, f>>)' \in Own(v)'
    <3>1. CASE n \in Own(v)
      <4>1. Decided(<<n, f>>)' \in Own(v)
        BY <2>3, <3>1 DEF Pure, Fixed
      <4> QED  BY <1>8, <1>9, <4>1
    <3>2. CASE n \notin Own(v)
      <4>1. v = t /\ n = new
        BY <1>8, <1>9, <3>2
      <4> QED  BY <1>9, <1>12, <4>1
    <3> QED  BY <3>1, <3>2
  <2> QED  BY <1>8, <2>2, <2>4, <2>5 DEF Fixed
<1>15. /\ \A v \in Tasklet : Own(v) \subseteq Own(v)'
       /\ \A v \in Tasklet : Span(v) \subseteq Span(v)'
       /\ \A v \in Tasklet, w \in Word : Blocked(v, w) => Blocked(v, w)'
  <2>1. \A v \in Tasklet : Own(v) \subseteq Own(v)'
    BY <1>8, <1>9
  <2>2. ASSUME NEW v \in Tasklet
        PROVE  Span(v) \subseteq Span(v)'
    BY <1>1, <2>1 DEF Span
  <2>3. \A v \in Tasklet : tx'[v].stale = tx[v].stale
    BY <1>3
  <2> QED  BY <1>1, <2>1, <2>2, <2>3 DEF Blocked, Other
<1>16. ASSUME NEW u \in Tasklet \ {t}
       PROVE  Sane(u)'
  <2>1. \A w \in Word : (owner'[w] = u <=> owner[w] = u) /\ (owner[w] = u => mem'[w] = mem[w])
    <3>1. \A w \in Word : owner[w] = u => w[1] # new
      BY <1>6, <1>7
    <3> QED  BY <1>1, <1>10, <3>1
  <2> QED  BY <1>4, <1>5, <1>15, <2>1, Undisturbed DEF Pure
<1>17. Sane(t)'
  <2>1. ASSUME NEW S, Own(t)' \subseteq S
        PROVE  /\ Ptrs(reg'[t]) \subseteq S
               /\ \A w \in Word : owner'[w] = t => (w = Root \/ w[1] \in S) /\ (Points(w) => mem'[w] \in S)
    <3>1. \A w \in Word : owner[w] = t => w[1] # new
      BY <1>6, <1>7
    <3>2. Ptrs(reg'[t]) \subseteq S
      BY <1>4, <1>9, <1>11, <2>1 DEF Holds
    <3> QED  BY <1>1, <1>9, <1>10, <1>11, <2>1, <3>1, <3>2 DEF Holds
  <2>2. Own(t)' \subseteq Span(t)'
    BY DEF Span
  <2>3. Holds(t, Own(t))' /\ Holds(t, Span(t))'
    BY <2>1, <2>2 DEF Holds, Ptrs, Points
  <2> QED  BY <2>3 DEF Sane
<1> QED  BY <1>8, <1>10, <1>0, <1>13, <1>14, <1>16, <1>17 DEF Pure

LEMMA InitPure ==
  ASSUME Init
  PROVE  Pure
<1>1. /\ \A t \in Tasklet : tx[t] = NewTx /\ pc[t] = "idle" /\ reg[t] = Fresh(1, 1)
      /\ \A w \in Word : owner[w] = NoTx
      /\ \A w \in Word : w[2] \notin {"key", "data", "balance"} => mem[w] = Null
  BY DEF Init, Initially
<1>2. NoTx \notin Tasklet /\ Null \in KeptPtr /\ \A t \in Tasklet : Null \in Own(t) /\ Null \in Span(t)
  BY NoTxIs DEF KeptPtr, Own, Span
<1>3. Locks
  BY <1>1, <1>2, NewTxTyped DEF Locks
<1>4. \A w \in Word : Points(w) => Decided(w) = Null
  BY <1>1 DEF Decided, Points, Links, Side, Root
<1>5. Fixed
  <2>1. KeptPtr \subseteq Pointer /\ \A t \in Tasklet : Own(t) \subseteq Pointer
    BY InitTyped, OwnIs
  <2> QED  BY <1>2, <1>4, <2>1, LinkWords, Words DEF Fixed
<1>6. \A t \in Tasklet : Sane(t)
  <2>1. \A t \in Tasklet : Ptrs(reg[t]) = {Null}
    BY <1>1 DEF Ptrs, Fresh
  <2> QED  BY <1>1, <1>2, <2>1 DEF Sane, Holds
<1> QED  BY <1>3, <1>5, <1>6 DEF Pure

\* Once something that was rolled back has been read, that is never taken back.
LEMMA StepMonotone ==
  ASSUME Typed, NEW t \in Tasklet, Step(t)
  PROVE  tainted \subseteq tainted'
<1>1. Begin(t) \/ Alloc(t) \/ Commit(t) \/ Abort(t) => tainted \subseteq tainted'
  BY DEF Begin, Alloc, Commit, Abort, RollBack, ghosts
<1>2. Accesses(t) => tainted \subseteq tainted'
  BY DEF Accesses, Loading, Reading, Storing, Load, ReadDirectly, Store, ghosts
<1> QED  BY <1>1, <1>2, StepIs

LEMMA NextPure ==
  ASSUME Typed, tainted # {} \/ Pure, [Next]_vars
  PROVE  tainted' # {} \/ Pure'
<1>1. \A t \in Tasklet : Step(t) /\ tainted # {} => tainted' # {}
  BY StepMonotone
<1>2. ASSUME NEW t \in Tasklet, Step(t), Pure, tainted' = {}
      PROVE  Pure'
  BY <1>2, StepIs, BeginPure, AllocPure, CommitPure, AbortPure, AccessPure
<1>3. CASE UNCHANGED vars
  <2>1. /\ case' = case /\ mem' = mem /\ owner' = owner /\ used' = used /\ pc' = pc
        /\ tx' = tx /\ reg' = reg /\ rawRead' = rawRead /\ tainted' = tainted
    BY <1>3 DEF vars, ghosts
  <2>2. KeptPtr' = KeptPtr /\ (\A v \in Tasklet : Own(v)' = Own(v)) /\ \A w : Decided(w)' = Decided(w)
    BY <2>1 DEF Decided, KeptPtr, Kept, Own
  <2>3. Locks' = Locks /\ Fixed' = Fixed
    BY <2>1, <2>2 DEF Locks, Fixed
  <2>4. ASSUME NEW u \in Tasklet, Sane(u)
        PROVE  Sane(u)'
    <3>1. Span(u)' = Span(u) /\ \A w : Blocked(u, w)' = Blocked(u, w)
      BY <2>1, <2>2 DEF Span, Blocked, Other
    <3> QED  BY <2>1, <2>2, <2>4, <3>1, Undisturbed
  <2> QED  BY <2>1, <2>3, <2>4 DEF Pure
<1> QED  BY <1>1, <1>2, <1>3 DEF Next, Terminating

------------------------------------------------------------------------------
(* The committed tree *)

\* The levels of the committed tree below n.
Levels(n, f) ==
  f = [d \in 0 .. Cardinality(Key) |-> IF d = 0 THEN {n} \ {Null} ELSE Children(f[d - 1])]

LEMMA KeyCount == Cardinality(Key) \in Nat
BY AvlAssumption, FS_CardinalityType

LEMMA LevelsExist == \A n : \E f : Levels(n, f)
<1> SUFFICES ASSUME NEW n
             PROVE  \E f : Levels(n, f)
  OBVIOUS
<1> DEFINE Upto(k, f) == f = [d \in 0 .. k |-> IF d = 0 THEN {n} \ {Null} ELSE Children(f[d - 1])]
           S == {k \in Nat : \E f : Upto(k, f)}
<1>1. 0 \in S
  <2> DEFINE f == [d \in 0 .. 0 |-> {n} \ {Null}]
  <2>1. Upto(0, f)
    OBVIOUS
  <2> QED  BY <2>1
<1>2. ASSUME NEW k \in Nat, k \in S
      PROVE  k + 1 \in S
  <2>1. PICK f : Upto(k, f)
    BY <1>2
  <2>2. PICK g : g = [d \in 0 .. k + 1 |-> IF d = k + 1 THEN Children(f[k]) ELSE f[d]]
    OBVIOUS
  <2>3. ASSUME NEW d \in 0 .. k + 1
        PROVE  g[d] = IF d = 0 THEN {n} \ {Null} ELSE Children(g[d - 1])
    <3>1. CASE d = k + 1
      <4>1. d - 1 = k /\ g[k] = f[k] /\ g[d] = Children(f[k]) /\ d # 0
        BY <2>2, <3>1
      <4> QED  BY <4>1
    <3>2. CASE d # k + 1 /\ d # 0
      <4>1. d \in 0 .. k /\ d - 1 \in 0 .. k /\ g[d] = f[d] /\ g[d - 1] = f[d - 1]
        BY <2>2, <3>2
      <4> QED  BY <2>1, <3>2, <4>1
    <3>3. CASE d = 0
      <4>1. d \in 0 .. k /\ g[d] = f[d]
        BY <2>2, <3>3
      <4> QED  BY <2>1, <3>3, <4>1
    <3> QED  BY <3>1, <3>2, <3>3
  <2>4. Upto(k + 1, g)
    <3>1. g = [d \in 0 .. k + 1 |-> g[d]]
      BY <2>2
    <3> HIDE DEF Children
    <3> QED  BY <2>3, <3>1
  <2> QED  BY <2>4
<1> HIDE DEF S
<1>3. Cardinality(Key) \in S
  BY <1>1, <1>2, KeyCount, SetInduction
<1> QED  BY <1>3 DEF S, Levels

\* Two functions that agree at the start, and go on alike where they agree.
LEMMA SameLevels ==
  ASSUME NEW C \in Nat, NEW f, NEW g, f = [d \in 0 .. C |-> f[d]], g = [d \in 0 .. C |-> g[d]],
         g[0] = f[0], \A d \in 1 .. C : g[d - 1] = f[d - 1] => g[d] = f[d]
  PROVE  g[C] = f[C]
<1> DEFINE S == {k \in Nat : k <= C => g[k] = f[k]}
<1>1. 0 \in S
  OBVIOUS
<1>2. ASSUME NEW k \in Nat, k \in S
      PROVE  k + 1 \in S
  <2>1. CASE k + 1 <= C
    <3>1. k + 1 \in 1 .. C /\ (k + 1) - 1 = k /\ k <= C
      BY <2>1
    <3>2. g[k] = f[k]
      BY <1>2, <3>1
    <3>3. g[(k + 1) - 1] = f[(k + 1) - 1]
      BY <3>1, <3>2
    <3>4. g[k + 1] = f[k + 1]
      BY <3>1, <3>3
    <3> QED  BY <3>4
  <2>2. CASE ~ (k + 1 <= C)
    BY <2>2
  <2> QED  BY <2>1, <2>2
<1> HIDE DEF S
<1>3. C \in S
  BY <1>1, <1>2, SetInduction
<1> QED  BY <1>3 DEF S

\* What the levels are, one by one.
LEMMA LevelsAre ==
  ASSUME NEW n, NEW h, Levels(n, h)
  PROVE  LET C == Cardinality(Key)
         IN  /\ h = [d \in 0 .. C |-> h[d]] /\ h[0] = {n} \ {Null}
             /\ \A d \in 1 .. C : h[d] = Children(h[d - 1])
<1> DEFINE C == Cardinality(Key)
<1>1. h = [d \in 0 .. C |-> IF d = 0 THEN {n} \ {Null} ELSE Children(h[d - 1])]
  BY DEF Levels
<1> HIDE DEF Children
<1>2. \A d \in 0 .. C : h[d] = IF d = 0 THEN {n} \ {Null} ELSE Children(h[d - 1])
  BY <1>1, Zenon
<1>3. h = [d \in 0 .. C |-> h[d]]
  BY <1>1, Zenon
<1>4. C \in Nat
  BY KeyCount
<1> HIDE DEF C
<1>5. h[0] = {n} \ {Null}
  <2>1. 0 \in 0 .. C
    BY <1>4
  <2> QED  BY <1>2, <2>1
<1>6. ASSUME NEW d \in 1 .. C
      PROVE  h[d] = Children(h[d - 1])
  <2>1. d \in 0 .. C /\ d # 0
    BY <1>4
  <2> QED  BY <1>2, <2>1
<1>7. /\ h = [d \in 0 .. C |-> h[d]] /\ h[0] = {n} \ {Null}
      /\ \A d \in 1 .. C : h[d] = Children(h[d - 1])
  BY <1>3, <1>5, <1>6, Zenon
<1> QED  BY <1>7, Zenon DEF C

LEMMA BelowIs ==
  ASSUME NEW n, NEW f, Levels(n, f)
  PROVE  Below(n) = f[Cardinality(Key)]
<1>1. PICK g : g = CHOOSE h : Levels(n, h)
  OBVIOUS
<1>2. Below(n) = g[Cardinality(Key)]
  BY <1>1 DEF Below, Levels
<1>3. Levels(n, g)
  BY <1>1
<1> DEFINE C == Cardinality(Key)
<1>4. \A h : Levels(n, h) => /\ h = [d \in 0 .. C |-> h[d]] /\ h[0] = {n} \ {Null}
                             /\ \A d \in 1 .. C : h[d] = Children(h[d - 1])
  BY LevelsAre, Zenon
<1>5. C \in Nat
  BY KeyCount
<1> HIDE DEF C
<1>6. \A d \in 1 .. C : g[d - 1] = f[d - 1] => g[d] = f[d]
  BY <1>3, <1>4
<1>7. f = [d \in 0 .. C |-> f[d]] /\ g = [d \in 0 .. C |-> g[d]] /\ g[0] = f[0]
  BY <1>3, <1>4, Zenon
<1>8. g[C] = f[C]
  BY <1>5, <1>6, <1>7, SameLevels, Zenon
<1> QED  BY <1>2, <1>8 DEF C

\* The tree below a committed node has committed nodes only.
LEMMA LevelsKept ==
  ASSUME Fixed, NEW n \in KeptPtr, NEW f, Levels(n, f)
  PROVE  \A d \in 0 .. Cardinality(Key) : f[d] \subseteq KeptPtr \ {Null}
<1> DEFINE C == Cardinality(Key)
           S == {k \in Nat : k <= C => f[k] \subseteq KeptPtr \ {Null}}
<1>1. C \in Nat /\ f[0] = {n} \ {Null} /\ \A d \in 1 .. C : f[d] = Children(f[d - 1])
  BY LevelsAre, KeyCount
<1> HIDE DEF C
<1>2. 0 \in S
  BY <1>1
<1>3. ASSUME NEW k \in Nat, k \in S
      PROVE  k + 1 \in S
  <2>1. CASE k + 1 <= C
    <3>1. k + 1 \in 1 .. C /\ (k + 1) - 1 = k /\ k <= C
      BY <1>1, <2>1
    <3>2. f[k] \subseteq KeptPtr \ {Null}
      BY <1>3, <3>1
    <3>3. f[k + 1] = Children(f[k])
      BY <1>1, <3>1
    <3>4. Children(f[k]) \subseteq KeptPtr \ {Null}
      <4>1. \A m \in KeptPtr, s \in Side : Decided(<<m, s>>) \in KeptPtr
        BY DEF Fixed, Links
      <4>2. \A m \in f[k] : ({m} \cup {Decided(<<m, s>>) : s \in Side}) \ {Null} \subseteq KeptPtr \ {Null}
        BY <3>2, <4>1
      <4> QED  BY <4>2 DEF Children
    <3> QED  BY <3>3, <3>4
  <2>2. CASE ~ (k + 1 <= C)
    BY <2>2
  <2> QED  BY <2>1, <2>2
<1> HIDE DEF S
<1>4. Nat \subseteq S
  BY <1>2, <1>3, SetInduction
<1>5. \A d \in 0 .. C : f[d] \subseteq KeptPtr \ {Null}
  BY <1>1, <1>4 DEF S
<1> QED  BY <1>5 DEF C

LEMMA BelowKept ==
  ASSUME Fixed, NEW n \in KeptPtr
  PROVE  Below(n) \subseteq KeptPtr \ {Null}
<1>1. PICK f : Levels(n, f)
  BY LevelsExist
<1>2. Cardinality(Key) \in 0 .. Cardinality(Key)
  BY KeyCount
<1> QED  BY <1>1, <1>2, LevelsKept, BelowIs

\* It is the same after a step that leaves their words alone.
LEMMA BelowSame ==
  ASSUME Fixed, NEW n \in KeptPtr,
         \A m \in KeptPtr, s \in Side : Decided(<<m, s>>)' = Decided(<<m, s>>)
  PROVE  Below(n)' = Below(n)
<1> DEFINE C == Cardinality(Key)
<1>1. PICK f : Levels(n, f)
  BY LevelsExist
<1>2. \A d \in 0 .. C : f[d] \subseteq KeptPtr \ {Null}
  BY <1>1, LevelsKept
<1>3. ASSUME NEW S, S \subseteq KeptPtr
      PROVE  Children(S)' = Children(S)
  BY <1>3 DEF Children
<1>4. C \in Nat
  BY KeyCount
<1>5. PICK g : g = CHOOSE h : Levels(n, h)'
  OBVIOUS
<1>6. Below(n)' = g[C]
  BY <1>5 DEF Below, Levels
<1>7. /\ f = [d \in 0 .. C |-> f[d]] /\ f[0] = {n} \ {Null}
      /\ \A d \in 1 .. C : f[d] = Children(f[d - 1])
  BY <1>1, LevelsAre
<1>8. \A d \in 1 .. C : f[d] = Children(f[d - 1])'
  <2> HIDE DEF C
  <2>1. ASSUME NEW d \in 1 .. C
        PROVE  f[d] = Children(f[d - 1])'
    <3>1. d - 1 \in 0 .. C
      BY <1>4
    <3>2. f[d - 1] \subseteq KeptPtr
      BY <1>2, <3>1
    <3>3. Children(f[d - 1])' = Children(f[d - 1])
      BY <1>3, <3>2
    <3> QED  BY <1>7, <3>3
  <2> QED  BY <2>1
<1>9. Levels(n, f)'
  <2>1. f = [d \in 0 .. C |-> IF d = 0 THEN {n} \ {Null} ELSE Children(f[d - 1])']
    <3> HIDE DEF C
    <3>1. \A d \in 0 .. C : f[d] = IF d = 0 THEN {n} \ {Null} ELSE Children(f[d - 1])'
      <4>1. \A d \in 0 .. C : d = 0 \/ d \in 1 .. C
        BY <1>4
      <4> QED  BY <1>7, <1>8, <4>1, Zenon
    <3> QED  BY <1>7, <3>1, Zenon
  <2> QED  BY <2>1 DEF Levels
<1>10. Levels(n, g)'
  BY <1>5, <1>9
<1>11. /\ g = [d \in 0 .. C |-> g[d]] /\ g[0] = {n} \ {Null}
       /\ \A d \in 1 .. C : g[d] = Children(g[d - 1])'
  <2>1. g = [d \in 0 .. C |-> IF d = 0 THEN {n} \ {Null} ELSE Children(g[d - 1])']
    BY <1>10 DEF Levels
  <2> HIDE DEF C
  <2>2. \A d \in 0 .. C : g[d] = IF d = 0 THEN {n} \ {Null} ELSE Children(g[d - 1])'
    BY <2>1, Zenon
  <2>3. g = [d \in 0 .. C |-> g[d]]
    BY <2>1, Zenon
  <2>4. 0 \in 0 .. C /\ \A d \in 1 .. C : d \in 0 .. C /\ d # 0
    BY <1>4
  <2> QED  BY <2>2, <2>3, <2>4, Zenon
<1>12. \A d \in 1 .. C : g[d - 1] = f[d - 1] => g[d] = f[d]
  BY <1>8, <1>11, Zenon
<1>13. f = [d \in 0 .. C |-> f[d]] /\ g = [d \in 0 .. C |-> g[d]] /\ g[0] = f[0]
  BY <1>7, <1>11, Zenon
<1> HIDE DEF C
<1>14. g[C] = f[C]
  BY <1>4, <1>12, <1>13, SameLevels, Zenon
<1>15. Below(n) = f[C]
  BY <1>1, BelowIs DEF C
<1> QED  BY <1>6, <1>14, <1>15

(* The committed tree holds no node that was never committed: a new node    *)
(* that was stored into it, and everything a rotation of another tasklet    *)
(* made of it, is gone when its transaction rolls back (avl_tree.c:71-139,  *)
(* 301-311 with tm.c:491-504 and alloc.c:90-99).  This holds as long as     *)
(* neither a direct read of a rotation nor a load (tm.c:318-330) has        *)
(* returned something that was then rolled back.                            *)
THEOREM NodesKept == Spec => []OnlyKeptNodes
<1>1. Init => Typed /\ (tainted # {} \/ Pure)
  BY InitTyped, InitPure
<1>2. (Typed /\ (tainted # {} \/ Pure)) /\ [Next]_vars => (Typed /\ (tainted # {} \/ Pure))'
  BY NextTyped, NextPure
<1>3. Typed /\ (tainted # {} \/ Pure) => OnlyKeptNodes
  <2> SUFFICES ASSUME Pure
               PROVE  \A n \in Below(Decided(Root)) : Kept(n)
    BY DEF OnlyKeptNodes
  <2>1. Below(Decided(Root)) \subseteq KeptPtr \ {Null}
    BY BelowKept DEF Pure, Fixed
  <2> QED  BY <2>1 DEF KeptPtr
<1> QED  BY <1>1, <1>2, <1>3, PTL DEF Spec

------------------------------------------------------------------------------
(* The committed rows *)

\* What the committed tree is made of.
SameTree ==
  /\ Decided(Root)' = Decided(Root)
  /\ \A n \in KeptPtr, f \in Field : Decided(<<n, f>>)' = Decided(<<n, f>>)

LEMMA AllSame ==
  ASSUME Typed, \A w \in Word : Decided(w)' = Decided(w)
  PROVE  SameTree
BY OwnIs, Words DEF SameTree

LEMMA CommitKeeps ==
  ASSUME Typed, Pure, NEW t \in Tasklet, Commit(t), tainted' = {}
  PROVE  SameTree \/ reg'[t].n # reg[t].n
<1>1. CASE reg' = [reg EXCEPT ![t] = Fresh(@.n + 1, 1)]
  <2>1. reg[t].n \in Nat
    BY Registers
  <2>2. reg'[t].n = reg[t].n + 1
    BY <1>1 DEF Typed, Fresh
  <2> QED  BY <2>1, <2>2
<1>2. CASE Overtake(t, {}) /\ RollBack(t)
  BY <1>2, FailsPure, AllSame
<1> QED  BY <1>1, <1>2 DEF Commit

LEMMA StepKeeps ==
  ASSUME Typed, Pure, NEW t \in Tasklet, Step(t), tainted' = {}
  PROVE  SameTree \/ reg'[t].n # reg[t].n
<1>1. CASE Begin(t)
  BY <1>1, BeginPure, AllSame
<1>2. CASE Alloc(t)
  <2>1. \A w \in Word : w[1] # NextNode(t) => Decided(w)' = Decided(w)
    BY <1>2, AllocPure
  <2>2. NextNode(t) \notin KeptPtr /\ NextNode(t) # Root[1]
    <3>1. NextNode(t) \in Node /\ pc[t] = "alloc"
      BY <1>2, AllocDone
    <3>2. NextNode(t) \notin Own(t)
      BY <3>1, NewIsNew
    <3> QED  BY <3>1, <3>2, OwnIs, AvlAssumption DEF Root
  <2>3. ASSUME NEW n \in KeptPtr, NEW f \in Field
        PROVE  Decided(<<n, f>>)' = Decided(<<n, f>>)
    <3>1. <<n, f>> \in Word
      BY OwnIs, Words
    <3>2. n # NextNode(t) /\ <<n, f>>[1] = n
      BY <2>2
    <3> QED  BY <2>1, <3>1, <3>2
  <2>4. Decided(Root)' = Decided(Root)
    BY <2>1, <2>2, Words
  <2> QED  BY <2>3, <2>4 DEF SameTree
<1>3. CASE Commit(t)
  BY <1>3, CommitKeeps
<1>4. CASE Abort(t)
  BY <1>4, AbortPure, AllSame
<1>5. CASE Accesses(t)
  BY <1>5, AccessPure, AllSame DEF Local
<1> QED  BY <1>1, <1>2, <1>3, <1>4, <1>5, StepIs

LEMMA SameContents ==
  ASSUME Typed, Pure, SameTree
  PROVE  Contents' = Contents
<1>1. PICK r : r = Decided(Root)
  OBVIOUS
<1>2. r \in KeptPtr /\ Decided(Root)' = r
  BY <1>1 DEF Pure, Fixed, SameTree
<1>3. Below(r)' = Below(r) /\ Below(r) \subseteq KeptPtr
  BY <1>2, BelowSame, BelowKept DEF Pure, SameTree, Field
<1>4. \A n \in Below(r) : /\ Decided(<<n, "key">>)' = Decided(<<n, "key">>)
                          /\ Decided(<<n, "data">>)' = Decided(<<n, "data">>)
  BY <1>3 DEF SameTree, Field
<1>5. PICK B : B = Below(r)
  OBVIOUS
<1>6. Below(Decided(Root)) = B /\ Below(Decided(Root))' = B
  BY <1>1, <1>2, <1>3, <1>5
<1>7. Contents = {<<Decided(<<n, "key">>), Decided(<<n, "data">>)>> : n \in B}
  BY <1>6 DEF Contents
<1>8. Contents' = {<<Decided(<<n, "key">>)', Decided(<<n, "data">>)'>> : n \in B}
  BY <1>6 DEF Contents
<1> QED  BY <1>4, <1>5, <1>7, <1>8

(* No row of the committed table changes unless a transaction has come to   *)
(* its end, or something was read that had been rolled back: by a direct    *)
(* read of a rotation (avl_tree.c:75-101) or by a load (tm.c:318-330).      *)
CommittedStays ==
  [][tainted' # {} \/ (\E t \in Tasklet : reg'[t].n # reg[t].n) \/ Contents' = Contents]_vars

(* For any number of tasklets: with that exception, an insert that is on    *)
(* its way, a rotation, a rollback or the reuse of a node that was given    *)
(* back changes no committed row (avl_tree.c:71-360 with tm.c:318-504).     *)
THEOREM RowsStay == Spec => CommittedStays
<1>1. Init => Typed /\ (tainted # {} \/ Pure)
  BY InitTyped, InitPure
<1>2. (Typed /\ (tainted # {} \/ Pure)) /\ [Next]_vars => (Typed /\ (tainted # {} \/ Pure))'
  BY NextTyped, NextPure
<1>3. Typed /\ (tainted # {} \/ Pure) /\ [Next]_vars
        => [tainted' # {} \/ (\E t \in Tasklet : reg'[t].n # reg[t].n) \/ Contents' = Contents]_vars
  <2> SUFFICES ASSUME Typed, tainted # {} \/ Pure, Next, tainted' = {}
               PROVE  (\E t \in Tasklet : reg'[t].n # reg[t].n) \/ Contents' = Contents \/ UNCHANGED vars
    OBVIOUS
  <2>1. ASSUME NEW t \in Tasklet, Step(t)
        PROVE  (\E u \in Tasklet : reg'[u].n # reg[u].n) \/ Contents' = Contents
    <3>1. Pure
      BY <2>1, StepMonotone
    <3> QED  BY <2>1, <3>1, StepKeeps, SameContents
  <2> QED  BY <2>1 DEF Next, Terminating
<1> QED  BY <1>1, <1>2, <1>3, PTL DEF Spec, CommittedStays
================================================================================
