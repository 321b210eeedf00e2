------------------------------ MODULE AllocLife ------------------------------
(***************************************************************************)
(* The life of the allocator on one DPU: scheduler_init runs               *)
(* application_init on tasklet 0 (src/dpu/application.c:23-33), which loads *)
(* the warehouse into tasklet 0's block and then shares the rest; from     *)
(* then on every tasklet allocates inside its transactions and commits or  *)
(* reverts with them (src/dpu/tm.c:480,498).                               *)
(***************************************************************************)
EXTENDS MramAlloc

CONSTANT Sizes  \* sizes of the objects transactions allocate

\* No object is so large that adding it to an address wraps.
ASSUME SizesAssumption == Sizes \subseteq 1 .. WORD - MRAM_LIMIT - 1

VARIABLE phase  \* "off", what warehouse_init does next, or "run" (transactions)

vars == <<blocks, halted, phase>>

Init ==
  /\ blocks = [t \in Tasklet |-> NoBlock]
  /\ halted = FALSE
  /\ phase = "off"

Boot ==
  /\ phase = "off"
  /\ mram_malloc_init
  /\ phase' = "tables"
  /\ UNCHANGED halted

------------------------------------------------------------------------------
(* Loading: warehouse_init on tasklet 0.  Every row is allocated before the  *)
(* transaction that inserts it, and its node within; alone on the DPU, none  *)
(* aborts.                                                                   *)

Loading == {"tables", "row", "node", "commit", "loaded"}

\* The warehouse and the tables, which the first transaction will commit.
LoadTable(size) ==
  /\ phase = "tables"
  /\ mram_malloc(0, size)
  /\ phase' \in {"tables", "row"}
  /\ UNCHANGED halted

LoadRow(size) ==
  /\ phase = "row"
  /\ mram_malloc(0, size)
  /\ phase' = "node"
  /\ UNCHANGED halted

LoadNode(size) ==
  /\ phase = "node"
  /\ mram_malloc(0, size)
  /\ phase' = "commit"
  /\ UNCHANGED halted

\* Mutant: tm_commit returns early, as it does when nothing was stored.
LoadCommitEarly ==
  /\ phase = "commit"
  /\ phase' \in {"row", "loaded"}
  /\ UNCHANGED <<blocks, halted>>

\* An insert stores, so that its transaction commits what was allocated.
LoadCommit ==
  /\ phase = "commit"
  /\ mram_malloc_commit(0)
  /\ phase' \in {"row", "loaded"}
  /\ UNCHANGED halted

Rebalance ==
  /\ phase = "loaded"
  /\ mram_malloc_rebalance
  /\ phase' = "run"
  /\ UNCHANGED halted

------------------------------------------------------------------------------
(* Transactions *)

Malloc(t, size) ==
  /\ phase = "run"
  /\ mram_malloc(t, size)
  /\ UNCHANGED <<halted, phase>>

Allocates(t) == \/ phase = "run"
                \/ phase \in {"tables", "row", "node"} /\ t = 0

\* assert(0) in mram_malloc stops the DPU.
MallocFault(t, size) ==
  /\ Allocates(t)
  /\ Refused(t, size)
  /\ halted' = TRUE
  /\ UNCHANGED <<blocks, phase>>

Commit(t) ==
  /\ phase = "run"
  /\ mram_malloc_commit(t)
  /\ UNCHANGED <<halted, phase>>

\* A transaction of tasklet t aborts.
Revert(t) ==
  /\ phase = "run"
  /\ mram_malloc_revert(t)
  /\ UNCHANGED <<halted, phase>>

Step ==
  \/ Boot
  \/ \E size \in Sizes : LoadTable(size) \/ LoadRow(size) \/ LoadNode(size)
  \/ LoadCommit
  \/ Rebalance
  \/ \E t \in Tasklet :
       \/ \E size \in Sizes : Malloc(t, size) \/ MallocFault(t, size)
       \/ Commit(t)
       \/ Revert(t)

Next == ~ halted /\ Step

Spec == Init /\ [][Next]_vars

------------------------------------------------------------------------------
(* Every field is a machine word and the phases are those above. *)
TypeOK ==
  /\ blocks \in [Tasklet -> Block]
  /\ halted \in BOOLEAN
  /\ phase \in {"off", "run"} \cup Loading

(* A block's two ends and its two byte counts tell the same story, the      *)
(* committed part is a prefix of the tentative one, and what is allocated   *)
(* leaves at least a byte of the block free (the test of alloc.c:65 against *)
(* the size rebalancing gives a block, alloc.c:35-48).                      *)
Accounted ==
  \A t \in Tasklet :
    /\ blocks[t].t_addr - blocks[t].addr = blocks[t].t_used - blocks[t].used
    /\ blocks[t].used <= blocks[t].t_used
    /\ blocks[t].t_used = 0 \/ blocks[t].t_used < blocks[t].size

(* What one tasklet holds, committed or tentative, ends before the block of *)
(* every later tasklet begins, and within MRAM_LIMIT: no sequence of        *)
(* allocations, commits and reverts makes two tasklets' objects overlap     *)
(* (the split of alloc.c:35-48, which leaves tasklet 0's tentative end      *)
(* where the load has put it, against the test of alloc.c:65).              *)
Disjoint ==
  phase = "run" =>
    \A t \in Tasklet :
      /\ blocks[t].t_addr <= MRAM_LIMIT
      /\ \A u \in Tasklet : t < u => blocks[t].t_addr <= Base(u)

(* The committed objects of a tasklet, and the warehouse tasklet 0 loaded,  *)
(* are never handed out again: once the DPU runs, the committed end of a    *)
(* block never moves back and its base never moves (alloc.c:86,97).         *)
CommittedStays ==
  [][phase = "run" =>
       \A t \in Tasklet : /\ blocks'[t].addr >= blocks[t].addr
                          /\ Base(t)' = Base(t)]_vars
==============================================================================
