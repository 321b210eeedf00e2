------------------------------- MODULE AvlTree --------------------------------
(***************************************************************************)
(* The AVL trees the tables of the application are kept in                 *)
(* (src/dpu/avl_tree.c), run by the tasklets of a DPU inside optimistic    *)
(* transactions.  The fields of the nodes are words of MRAM.  Most of them *)
(* are read and written through the transactional memory, TM_LOAD_F and    *)
(* TM_STORE_F.  As in TM, a load reads the lock word, the value and the    *)
(* lock word again, so that it can return what another tasklet has stored  *)
(* and then rolled back; versions are abstracted to the words that others  *)
(* have committed since a transaction started.  The rotations also follow  *)
(* pointers without the transactional memory; those reads see whatever is  *)
(* in memory.  One step is one access to a word that is shared.            *)
(***************************************************************************)
EXTENDS Integers, Sequences, FiniteSetsExt

CONSTANTS
  NR_TASKLETS,  \* number of tasklets of the DPU
  NR_NODES,     \* bound: nodes that fit into the block of a tasklet
  Key,          \* keys of the table
  Null,         \* NULL: as a pointer, and as the object found at that address
  Tree,         \* the object avl_tree_t
  Cases         \* what the tasklets may be given to run

Tasklet == 0 .. NR_TASKLETS - 1
NoTx    == NR_TASKLETS

\* mram_malloc hands out a tasklet's own nodes, in order.
Node    == Tasklet \X (1 .. NR_NODES)
Pointer == Node \cup {Null}

BALANCED == 0
Side     == {"left", "right"}
Opp(s)   == IF s = "left" THEN "right" ELSE "left"

\* LEFTHEAVY and RIGHTHEAVY.
NoData   == -1  \* NULL, of a find
Heavy(s) == IF s = "left" THEN -1 ELSE 1

Field == {"key", "data", "parent", "balance"} \cup Side
Root  == <<Tree, "root">>
Word  == (Pointer \X Field) \cup {Root}

\* An operation on the table.  A case: for each tasklet a list of transactions,
\* each a list of operations, and how many of tasklet 0's load the table at boot.
Op   == [kind: {"insert", "find"}, key: Key, data: Nat]
Case == [load: Nat, prog: [Tasklet -> Seq(Seq(Op) \ {<<>>})]]

ASSUME AvlAssumption ==
  /\ NR_TASKLETS \in Nat \ {0} /\ NR_NODES \in Nat
  /\ Key \subseteq Nat \ {0} /\ IsFiniteSet(Key)
  /\ Null \notin Node /\ Tree \notin Node
  /\ Cases \subseteq Case

VARIABLES
  case,   \* the case being run
  mem,    \* the words
  owner,  \* owner[w], the tasklet that has locked word w
  used,   \* nodes each tasklet's committed transactions have allocated
  pc,     \* where each tasklet is
  tx,     \* transaction descriptors
  reg,    \* local variables of insert, fix and rotate
  \* The history, which no guard reads.
  snap,    \* the table when a transaction with finds started
  rawRead, \* <<t, u>>: t has read a word directly that u had written and not
           \* committed, or that somebody had who had such a word from u
  tainted  \* "read": u of such a pair has rolled back; "load": a load has returned
           \* a value that its writer had rolled back

ghosts == <<snap, rawRead, tainted>>
vars   == <<case, mem, owner, used, pc, tx, reg, ghosts>>

\* reads, undo: the read set and the write set.  fresh: nodes allocated.
\* stale: words others have committed since the start; late: somebody has
\* advanced the clock since.  Of a load on its way, peeked: the lock has been seen
\* free; got: the value, if it was read while another tasklet held the lock.
NewTx == [reads |-> {}, undo |-> <<>>, fresh |-> 0, stale |-> {}, late |-> FALSE,
          peeked |-> FALSE, got |-> <<>>]

\* n: transaction; k: its operation; current, parent: of insert and find; side: of
\* insert and fix; bal: a balance that was loaded; rx, rz, rside: x, z and direction
\* of the rotation; above: the side x is on; phase: which rotation of fix it is;
\* ptr: a pointer read directly; row: what operation row.k, a find, has returned.
Fresh(n, k) == [n |-> n, k |-> k, current |-> Null, parent |-> Null, side |-> "left",
                bal |-> BALANCED, rx |-> Null, rz |-> Null, rside |-> "left", above |-> "left",
                phase |-> "single", ptr |-> Null, row |-> [k |-> 0, data |-> 0]]

Txn(t)   == case.prog[t][reg[t].n]
CurOp(t) == Txn(t)[reg[t].k]

Initially(w) == IF w[2] \in {"key", "data", "balance"} THEN 0 ELSE Null

Init ==
  /\ case \in Cases
  /\ mem = [w \in Word |-> Initially(w)]
  /\ owner = [w \in Word |-> NoTx]
  /\ used = [t \in Tasklet |-> 0]
  /\ pc = [t \in Tasklet |-> "idle"]
  /\ tx = [t \in Tasklet |-> NewTx]
  /\ reg = [t \in Tasklet |-> Fresh(1, 1)]
  /\ snap = [t \in Tasklet |-> {}]
  /\ rawRead = {}
  /\ tainted = {}

------------------------------------------------------------------------------
(* The committed table *)

\* The committed value of a word.
Decided(w) == IF owner[w] = NoTx THEN mem[w] ELSE tx[owner[w]].undo[w]

\* The nodes of the committed tree below n, n included (and its height): no tree
\* of distinct keys is deeper than their number.
Children(S) == UNION {({m} \cup {Decided(<<m, s>>) : s \in Side}) \ {Null} : m \in S}

Below(n) ==
  LET level[d \in 0 .. Cardinality(Key)] ==
        IF d = 0 THEN {n} \ {Null} ELSE Children(level[d - 1])
  IN level[Cardinality(Key)]

Height(n) ==
  LET h[m \in Pointer, d \in 0 .. Cardinality(Key)] ==
        IF m = Null \/ d = 0 THEN 0
        ELSE 1 + Max({h[Decided(<<m, s>>), d - 1] : s \in Side})
  IN h[n, Cardinality(Key)]

\* The rows of the table.
Contents == {<<Decided(<<n, "key">>), Decided(<<n, "data">>)>> : n \in Below(Decided(Root))}

Table == INSTANCE AtomicTable
           WITH Tasklets <- Tasklet, program <- case.prog, table <- Contents,
                done <- [t \in Tasklet |-> reg[t].n - 1]

------------------------------------------------------------------------------
(* The transactional memory, as tm.h offers it *)

Goto(t, label) == pc' = [pc EXCEPT ![t] = label]

\* Transaction t gives up: it rolls back next.
GiveUp(t) == Goto(t, "abort") /\ UNCHANGED reg

Proceed(t, locals, label) == Goto(t, label) /\ reg' = [reg EXCEPT ![t] = locals]

\* Another tasklet has locked word w.
Other(t, w) == owner[w] \notin {NoTx, t}

\* What a load of w returns.
Seen(t, w) == IF w \in DOMAIN tx[t].got THEN tx[t].got[w] ELSE mem[w]

\* Mutant: whatever the version.
UnchangedAnyVersion(t, w) == tx[t].peeked /\ owner[w] = NoTx

\* The lock word is what it was, and no newer than t.
Unchanged(t, w) == tx[t].peeked /\ owner[w] = NoTx /\ w \notin tx[t].stale

\* TM_LOAD_F of w by t, which goes on at label with the local variables locals.
Load(t, w, locals, label) ==
  /\ \/ /\ ~ tx[t].peeked /\ owner[w] = NoTx
        /\ tx' = [tx EXCEPT ![t].peeked = TRUE]
        /\ UNCHANGED <<pc, reg, tainted>>
     \/ /\ tx[t].peeked /\ Other(t, w) /\ tx[t].got = <<>>
        /\ tx' = [tx EXCEPT ![t].got = [x \in {w} |-> mem[w]]]
        /\ UNCHANGED <<pc, reg, tainted>>
     \/ /\ owner[w] = t \/ Unchanged(t, w)
        /\ tx' = [tx EXCEPT ![t].reads = IF owner[w] = t THEN @ ELSE @ \cup {w},
                            ![t].peeked = FALSE, ![t].got = <<>>]
        /\ Proceed(t, locals, label)
        /\ tainted' = IF Seen(t, w) = mem[w] THEN tainted ELSE tainted \cup {"load"}
     \/ /\ Other(t, w) \/ (tx[t].peeked /\ owner[w] = NoTx /\ ~ Unchanged(t, w))
        /\ GiveUp(t)
        /\ UNCHANGED <<tx, tainted>>
  /\ UNCHANGED <<case, mem, owner, used, snap, rawRead>>

\* TM_STORE_F: a word that is too new is written before t gives up.
Store(t, w, v, locals, label) ==
  \/ /\ ~ Other(t, w)
     /\ mem' = [mem EXCEPT ![w] = v]
     /\ owner' = [owner EXCEPT ![w] = t]
     /\ tx' = [tx EXCEPT ![t].undo = [x \in DOMAIN @ \cup {w} |-> IF x \in DOMAIN @ THEN @[x] ELSE mem[x]]]
     /\ IF w \in tx[t].stale THEN GiveUp(t) ELSE Proceed(t, locals, label)
     /\ UNCHANGED <<case, used, ghosts>>
  \/ /\ Other(t, w)
     /\ GiveUp(t)
     /\ UNCHANGED <<case, mem, owner, used, tx, ghosts>>

\* Whose values t gets when it reads w directly.
Sources(t, w) ==
  IF Other(t, w) THEN {owner[w]} \cup {v \in Tasklet \ {t} : <<owner[w], v>> \in rawRead} ELSE {}

\* t reads w without the transactional memory.
ReadDirectly(t, w, locals, label) ==
  /\ Proceed(t, locals, label)
  /\ rawRead' = rawRead \cup {<<t, v>> : v \in Sources(t, w)}
  /\ UNCHANGED <<case, mem, owner, used, tx, snap, tainted>>

\* Transaction t rolls back and will be run again.
RollBack(t) ==
  LET undo == tx[t].undo IN
  /\ mem' = [w \in Word |-> IF w \in DOMAIN undo THEN undo[w] ELSE mem[w]]
  /\ owner' = [w \in Word |-> IF owner[w] = t THEN NoTx ELSE owner[w]]
  /\ reg' = [reg EXCEPT ![t] = Fresh(@.n, 1)]
  /\ Goto(t, "idle")
  /\ rawRead' = {p \in rawRead : t \notin {p[1], p[2]}}
  /\ tainted' = IF \E p \in rawRead : p[2] = t THEN tainted \cup {"read"} ELSE tainted
  /\ UNCHANGED <<case, used, snap>>

Abort(t) == pc[t] = "abort" /\ RollBack(t) /\ tx' = [tx EXCEPT ![t] = NewTx]

\* TM_START.  The tasklets wait until tasklet 0 has loaded the table.
Begin(t) ==
  /\ pc[t] = "idle" /\ reg[t].n <= Len(case.prog[t])
  /\ t = 0 \/ reg[0].n > case.load
  /\ tx' = [tx EXCEPT ![t] = NewTx]
  /\ Goto(t, "enter")
  /\ snap' = [snap EXCEPT ![t] =
                IF \E k \in DOMAIN Txn(t) : Txn(t)[k].kind = "find" THEN Contents ELSE {}]
  /\ UNCHANGED <<case, mem, owner, used, reg, rawRead, tainted>>

\* Where a transaction goes when the current operation returns.
Return(t)   == IF reg[t].k < Len(Txn(t)) THEN "enter" ELSE "commit"
Returned(t) == Fresh(reg[t].n, IF reg[t].k < Len(Txn(t)) THEN reg[t].k + 1 ELSE reg[t].k)

\* The same for a find that returns data.
Answer(t, data) == [Returned(t) EXCEPT !.row = [k |-> reg[t].k, data |-> data]]

\* The clock has been advanced, and the words of writes committed, by t.
Overtake(t, writes) ==
  tx' = [u \in Tasklet |->
           IF u = t \/ pc[u] = "idle" THEN NewTx
           ELSE [tx[u] EXCEPT !.stale = @ \cup writes, !.late = TRUE]]

\* The read set is still what the memory holds.
Valid(t) == \A w \in tx[t].reads : ~ Other(t, w) /\ w \notin tx[t].stale

\* TM_COMMIT: without writes at once, else unless the read set is out of date.
Commit(t) ==
  LET writes == DOMAIN tx[t].undo IN
  /\ pc[t] = "commit"
  /\ \/ /\ writes = {} \/ ~ tx[t].late \/ Valid(t)
        /\ Overtake(t, writes)
        /\ owner' = [w \in Word |-> IF w \in writes THEN NoTx ELSE owner[w]]
        /\ used' = [used EXCEPT ![t] = @ + tx[t].fresh]
        /\ reg' = [reg EXCEPT ![t] = Fresh(@.n + 1, 1)]
        /\ Goto(t, "idle")
        /\ rawRead' = {p \in rawRead : t \notin {p[1], p[2]}}
        /\ UNCHANGED <<case, mem, snap, tainted>>
     \/ /\ writes # {} /\ tx[t].late /\ ~ Valid(t)
        /\ Overtake(t, {})
        /\ RollBack(t)

------------------------------------------------------------------------------
(* avl_tree_find and the first half of avl_tree_insert *)

At(t, label) == pc[t] = label

Inserts(t) == CurOp(t).kind = "insert"

\* Follow the pointer in w.  Where it ends a find returns NULL, an insert allocates.
Follow(t, w, locals) ==
  \/ Seen(t, w) # Null /\ Load(t, w, [locals EXCEPT !.current = Seen(t, w)], "key")
  \/ Seen(t, w) = Null /\ Inserts(t) /\ Load(t, w, locals, "alloc")
  \/ Seen(t, w) = Null /\ ~ Inserts(t) /\ Load(t, w, Answer(t, NoData), Return(t))

Enter(t) == At(t, "enter") /\ Follow(t, Root, reg[t])

\* The key is here, or it may be below.
Compare(t) ==
  LET w == <<reg[t].current, "key">> IN
  /\ At(t, "key")
  /\ \/ Seen(t, w) = CurOp(t).key /\ Load(t, w, reg[t], "here")
     \/ /\ Seen(t, w) # CurOp(t).key
        /\ Load(t, w, [reg[t] EXCEPT !.side = IF Seen(t, w) > CurOp(t).key THEN "left" ELSE "right"],
                "child")

Here(t) ==
  LET w == <<reg[t].current, "data">> IN
  /\ At(t, "here")
  /\ IF Inserts(t) THEN Store(t, w, CurOp(t).data, Returned(t), Return(t))
                   ELSE Load(t, w, Answer(t, Seen(t, w)), Return(t))

Child(t) ==
  /\ At(t, "child")
  /\ Follow(t, <<reg[t].current, reg[t].side>>, [reg[t] EXCEPT !.parent = reg[t].current])

\* avl_tree_node_alloc writes the new node directly.
Alloc(t) ==
  LET i    == used[t] + tx[t].fresh + 1
      node == [f \in Field |-> CASE f = "key" -> CurOp(t).key [] f = "data" -> CurOp(t).data
                                  [] f = "parent" -> reg[t].parent [] f = "balance" -> BALANCED
                                  [] OTHER -> Null]
  IN
  /\ At(t, "alloc")
  /\ i <= NR_NODES
  /\ mem' = [w \in Word |-> IF w[1] = <<t, i>> THEN node[w[2]] ELSE mem[w]]
  /\ tx' = [tx EXCEPT ![t].fresh = @ + 1]
  /\ Proceed(t, [reg[t] EXCEPT !.current = <<t, i>>], IF reg[t].parent = Null THEN "hang" ELSE "link")
  /\ UNCHANGED <<case, owner, used, ghosts>>

\* The new node becomes the root, or the child of the last node visited.
Link(t) ==
  LET w == <<reg[t].parent, "key">> IN
  /\ At(t, "link")
  /\ Load(t, w, [reg[t] EXCEPT !.side = IF Seen(t, w) > CurOp(t).key THEN "left" ELSE "right"], "hang")

\* Mutant: the pointer is written as the node was, directly.
HangDirectly(t) ==
  LET p == reg[t].parent IN
  /\ At(t, "hang")
  /\ IF p = Null THEN Store(t, Root, reg[t].current, Returned(t), Return(t))
     ELSE /\ mem' = [mem EXCEPT ![<<p, reg[t].side>>] = reg[t].current]
          /\ Goto(t, "retrace")
          /\ UNCHANGED <<case, owner, used, tx, reg, ghosts>>

Hang(t) ==
  LET p == reg[t].parent IN
  /\ At(t, "hang")
  /\ IF p = Null THEN Store(t, Root, reg[t].current, Returned(t), Return(t))
                 ELSE Store(t, <<p, reg[t].side>>, reg[t].current, reg[t], "retrace")

------------------------------------------------------------------------------
(* The second half of avl_tree_insert: the balance on the way up *)

\* The side of its parent the subtree that has grown is on.
Retrace(t) ==
  LET w == <<reg[t].parent, "left">> IN
  /\ At(t, "retrace")
  /\ Load(t, w, [reg[t] EXCEPT !.side = IF Seen(t, w) = reg[t].current THEN "left" ELSE "right"], "weigh")

\* Mutant: what has become too heavy is only counted.
WeighAndCount(t) ==
  LET w == <<reg[t].parent, "balance">> IN
  /\ At(t, "weigh")
  /\ Store(t, w, mem[w] + Heavy(reg[t].side), reg[t], "up")

Weigh(t) ==
  LET w == <<reg[t].parent, "balance">> IN
  /\ At(t, "weigh")
  /\ Load(t, w, [reg[t] EXCEPT !.bal = Seen(t, w)],
          IF Seen(t, w) = Heavy(reg[t].side) THEN "fix" ELSE "settle")

Settle(t) ==
  LET w == <<reg[t].parent, "balance">> IN
  /\ At(t, "settle")
  /\ IF reg[t].bal = BALANCED THEN Store(t, w, Heavy(reg[t].side), reg[t], "up")
                              ELSE Store(t, w, BALANCED, Returned(t), Return(t))

Up(t) ==
  LET w == <<reg[t].current, "parent">> IN
  /\ At(t, "up")
  /\ Load(t, w, [reg[t] EXCEPT !.current = Seen(t, w)], "above")

Above(t) ==
  LET w == <<reg[t].current, "parent">> IN
  /\ At(t, "above")
  /\ IF Seen(t, w) = Null THEN Load(t, w, Returned(t), Return(t))
                          ELSE Load(t, w, [reg[t] EXCEPT !.parent = Seen(t, w)], "retrace")

Climb(t) == Retrace(t) \/ Weigh(t) \/ Settle(t) \/ Up(t) \/ Above(t)

------------------------------------------------------------------------------
(* avl_tree_rotate_right(x, z) (rside "left") and avl_tree_rotate_left *)

\* Where x points to z; where z points to its inner child; where x points up.
Hook(t)  == <<reg[t].rx, reg[t].rside>>
Inner(t) == <<reg[t].rz, Opp(reg[t].rside)>>
Top(t)   == <<reg[t].rx, "parent">>

\* z's inner child, read directly, becomes x's; its parent, if it is one, is then x:
\* it is taken from where give has just stored it.
Take(t)  == At(t, "take") /\ ReadDirectly(t, Inner(t), [reg[t] EXCEPT !.ptr = mem[Inner(t)]], "give")
Give(t)  == At(t, "give") /\ Store(t, Hook(t), reg[t].ptr, reg[t], IF reg[t].ptr = Null THEN "raise" ELSE "adopt")
Adopt(t) == At(t, "adopt") /\ Store(t, <<reg[t].ptr, "parent">>, reg[t].rx, reg[t], "raise")

\* z gets x's parent, read directly.
Raise(t) == At(t, "raise") /\ ReadDirectly(t, Top(t), [reg[t] EXCEPT !.ptr = mem[Top(t)]], "lift")
Lift(t)  == At(t, "lift") /\ Store(t, <<reg[t].rz, "parent">>, reg[t].ptr, reg[t], "test")

\* Mutant: x may be the root.
TestNothing(t) == At(t, "test") /\ Load(t, Top(t), reg[t], "peer")

\* If x was not the root z replaces it below that parent, which is read directly
\* for each of the two accesses.
Test(t) ==
  /\ At(t, "test")
  /\ Load(t, Top(t), reg[t], IF Seen(t, Top(t)) = Null THEN "sink" ELSE "peer")

Peer(t)  == At(t, "peer") /\ ReadDirectly(t, Top(t), [reg[t] EXCEPT !.ptr = mem[Top(t)]], "which")

Which(t) ==
  LET w == <<reg[t].ptr, "left">> IN
  /\ At(t, "which")
  /\ Load(t, w, [reg[t] EXCEPT !.above = IF Seen(t, w) = reg[t].rx THEN "left" ELSE "right"], "again")

Again(t)   == At(t, "again") /\ ReadDirectly(t, Top(t), [reg[t] EXCEPT !.ptr = mem[Top(t)]], "replace")
Replace(t) == At(t, "replace") /\ Store(t, <<reg[t].ptr, reg[t].above>>, reg[t].rz, reg[t], "sink")

\* x becomes z's child.
Sink(t) == At(t, "sink") /\ Store(t, Inner(t), reg[t].rx, reg[t], "turn")

\* After the first of two rotations comes the second one.
Turn(t) ==
  /\ At(t, "turn")
  /\ IF reg[t].phase = "first"
     THEN Store(t, Top(t), reg[t].rz,
                [reg[t] EXCEPT !.rx = reg[t].parent, !.rside = reg[t].side, !.phase = "second"], "hook")
     ELSE Store(t, Top(t), reg[t].rz, reg[t], IF reg[t].phase = "single" THEN "one" ELSE "top")

Rotate(t) == \/ Take(t) \/ Give(t) \/ Adopt(t) \/ Raise(t) \/ Lift(t) \/ Test(t) \/ Peer(t)
             \/ Which(t) \/ Again(t) \/ Replace(t) \/ Sink(t) \/ Turn(t)

------------------------------------------------------------------------------
(* avl_tree_fix_left_imbalance (side "left") and avl_tree_fix_right_imbalance, *)
(* with x and z in parent and current                                          *)

Fix(t) ==
  LET w == <<reg[t].parent, "balance">> IN
  /\ At(t, "fix")
  /\ Load(t, w, [reg[t] EXCEPT !.bal = Seen(t, w)], "match")

\* One rotation of x and z, or first one of z and its inner child.
Match(t) ==
  LET w == <<reg[t].current, "balance">>
      r == reg[t]
  IN
  /\ At(t, "match")
  /\ IF Seen(t, w) = r.bal
     THEN Load(t, w, [r EXCEPT !.rx = r.parent, !.rz = r.current, !.rside = r.side, !.phase = "single"],
               "take")
     ELSE Load(t, w, [r EXCEPT !.rx = r.current, !.rside = Opp(r.side), !.phase = "first"], "look")

\* The inner child is read directly, for its balance and for the rotation; and so
\* is what the first rotation has put in z's place.
Look(t) == At(t, "look") /\ ReadDirectly(t, Hook(t), [reg[t] EXCEPT !.ptr = mem[Hook(t)]], "heavier")

Heavier(t) ==
  LET w == <<reg[t].ptr, "balance">> IN
  /\ At(t, "heavier")
  /\ Load(t, w, [reg[t] EXCEPT !.bal = Seen(t, w)], "hook")

Grasp(t) == At(t, "hook") /\ ReadDirectly(t, Hook(t), [reg[t] EXCEPT !.rz = mem[Hook(t)]], "take")

\* The balances of x and z: after two rotations, whatever was the heavier side of
\* the node that is now on top.
BalanceX(t) ==
  IF reg[t].phase = "second" /\ reg[t].bal = Heavy(reg[t].side) THEN Heavy(Opp(reg[t].side)) ELSE BALANCED
BalanceZ(t) ==
  IF reg[t].phase = "second" /\ reg[t].bal = Heavy(Opp(reg[t].side)) THEN Heavy(reg[t].side) ELSE BALANCED

SettleX(t, label) == Store(t, <<reg[t].parent, "balance">>, BalanceX(t), reg[t], label)
SettleZ(t, label) == Store(t, <<reg[t].current, "balance">>, BalanceZ(t), reg[t], label)

\* x->parent is what turn has stored there.
Crest(t) == At(t, "top") /\ Store(t, <<reg[t].rz, "balance">>, BALANCED, reg[t], "one")

\* The one order of x and z, or the other.
ZFirst(t) == reg[t].phase = "second" /\ reg[t].side = "left"
One(t)    == At(t, "one") /\ IF ZFirst(t) THEN SettleZ(t, "two") ELSE SettleX(t, "two")
Two(t)    == At(t, "two") /\ IF ZFirst(t) THEN SettleX(t, "root") ELSE SettleZ(t, "root")

\* Mutant: the tree keeps its root.
SameRoot(t) == At(t, "root") /\ Load(t, Root, Returned(t), Return(t))

\* The tree has a new root if x was the root.
WasRoot(t) ==
  /\ At(t, "root")
  /\ IF Seen(t, Root) = reg[t].parent THEN Load(t, Root, reg[t], "crown")
                                      ELSE Load(t, Root, Returned(t), Return(t))

Crown(t) == At(t, "crown") /\ Store(t, Root, reg[t].rz, Returned(t), Return(t))

Repair(t) == \/ Fix(t) \/ Match(t) \/ Look(t) \/ Heavier(t) \/ Grasp(t) \/ Rotate(t)
             \/ Crest(t) \/ One(t) \/ Two(t) \/ WasRoot(t) \/ Crown(t)

------------------------------------------------------------------------------
Descend(t) == Enter(t) \/ Compare(t) \/ Here(t) \/ Child(t)
Insert(t)  == Alloc(t) \/ Link(t) \/ Hang(t) \/ Climb(t) \/ Repair(t)
Step(t)    == Begin(t) \/ Descend(t) \/ Insert(t) \/ Commit(t) \/ Abort(t)

Finished == \A t \in Tasklet : reg[t].n > Len(case.prog[t])

Terminating == Finished /\ UNCHANGED vars

Next == (\E t \in Tasklet : Step(t)) \/ Terminating

Spec == Init /\ [][Next]_vars

------------------------------------------------------------------------------
(* Properties *)

Labels == {"idle", "enter", "key", "here", "child", "alloc", "link", "hang", "retrace", "weigh",
           "settle", "up", "above", "fix", "match", "look", "heavier", "hook", "take", "give",
           "adopt", "raise", "lift", "test", "peer", "which", "again", "replace", "sink", "turn",
           "top", "one", "two", "root", "crown", "commit", "abort"}

Value(w) ==
  IF w[2] \in {"key", "data"} THEN Nat ELSE IF w[2] = "balance" THEN -1 .. 1 ELSE Pointer

TypeOK ==
  /\ case \in Case
  /\ DOMAIN mem = Word /\ \A w \in Word : mem[w] \in Value(w)
  /\ owner \in [Word -> Tasklet \cup {NoTx}]
  /\ used \in [Tasklet -> 0 .. NR_NODES]
  /\ pc \in [Tasklet -> Labels]
  /\ \A t \in Tasklet : {reg[t].current, reg[t].parent, reg[t].rx, reg[t].rz, reg[t].ptr} \subseteq Pointer
  /\ \A t \in Tasklet : pc[t] # "idle" => CurOp(t) \in Op
  /\ rawRead \subseteq Tasklet \X Tasklet /\ tainted \subseteq {"read", "load"}

(* Nothing that was written through NULL is ever committed.  A rotation     *)
(* looks at the parent of x three more times after it has tested it (lines  *)
(* 87, 91, 94, 98), without the transactional memory, and follows it even   *)
(* if the rotation of another tasklet has made x the root by then; but then *)
(* it gives up when it stores into x->parent itself (103).                  *)
NothingThroughNull == tainted # {} \/ \A f \in Field : Decided(<<Null, f>>) = Initially(<<Null, f>>)

\* The subtree of n is balanced, and its balance field says how.
Balanced(n) ==
  /\ Decided(<<n, "balance">>) = Height(Decided(<<n, "right">>)) - Height(Decided(<<n, "left">>))
  /\ Decided(<<n, "balance">>) \in -1 .. 1

\* The keys of the subtree of n.
Keys(n) ==
  LET k[m \in Pointer, d \in 0 .. Cardinality(Key)] ==
        IF m = Null \/ d = 0 THEN {}
        ELSE {Decided(<<m, "key">>)} \cup UNION {k[Decided(<<m, s>>), d - 1] : s \in Side}
  IN k[n, Cardinality(Key)]

Ordered(n) ==
  /\ \A k \in Keys(Decided(<<n, "left">>)) : k < Decided(<<n, "key">>)
  /\ \A k \in Keys(Decided(<<n, "right">>)) : k > Decided(<<n, "key">>)

ChildrenKnowIt(n) ==
  \A s \in Side : LET c == Decided(<<n, s>>) IN c # Null => Decided(<<c, "parent">>) = n

(* README.md:3 promises "consistency, atomicity, and isolation": the        *)
(* committed words are an AVL tree at every moment.  It is ordered, its     *)
(* balance fields are its heights, and parents and children know each       *)
(* other.                                                                   *)
Sound ==
  LET r == Decided(Root) IN
  /\ r # Null => Decided(<<r, "parent">>) = Null
  /\ \A n \in Below(r) : Balanced(n) /\ Ordered(n) /\ ChildrenKnowIt(n)

(* The committed tree is sound in whatever order keys are inserted and      *)
(* wherever transactions overlap, abort and start again, unless one of the  *)
(* direct reads of a rotation (lines 77-94, 112-129, 166-171, 226-231) has  *)
(* returned a pointer that its writer then rolled back, or a load           *)
(* (tm.c:318-330) a value that had been rolled back.                        *)
TreeOK == tainted # {} \/ Sound

(* The direct reads are by themselves enough to break the tree.             *)
SoundButForLoads == "load" \in tainted \/ Sound

\* Node n was allocated by a transaction that has committed.
Kept(n) == n[2] <= used[n[1]]

(* With the same exception, the committed tree holds no node that was never *)
(* committed, whose place in memory the next transaction of its tasklet     *)
(* will be given (alloc.c, mram_malloc_revert): a new node that is stored   *)
(* into the tree, or that a rotation of another tasklet has met there, is   *)
(* out of it again when the transaction rolls back.                         *)
OnlyKeptNodes == tainted # {} \/ \A n \in Below(Decided(Root)) : Kept(n)

(* With the same exception, a find (lines 41-69) returns the row the table  *)
(* had for its key when its transaction started, or that the transaction    *)
(* itself has inserted: never one that was committed later, and never       *)
(* nothing because a rotation moved the node away from the path.            *)
FindsSnapshot ==
  tainted # {} \/ \A t \in Tasklet :
    LET r    == reg[t].row
        rows == {row \in Table!After(snap[t], SubSeq(Txn(t), 1, r.k - 1)) : row[1] = Txn(t)[r.k].key}
    IN  r.k # 0 => r.data = (IF rows = {} THEN NoData ELSE (CHOOSE row \in rows : TRUE)[2])

(* With the same exception, the rows of the committed tree change only as   *)
(* AtomicTable allows: all inserts of a transaction at the instant it       *)
(* commits, and never through rotations, aborts or the reuse of a node that *)
(* was given back.                                                          *)
TableImplemented ==
  [][tainted' # {} \/ Table!ANext]_<<case.prog, Contents, [t \in Tasklet |-> reg[t].n]>>
===============================================================================
