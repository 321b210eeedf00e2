------------------------------ MODULE MramAlloc ------------------------------
(***************************************************************************)
(* The MRAM bump allocator of a DPU (src/dpu/alloc.c): one block of memory *)
(* per tasklet, each with a committed and a tentative end.  This module    *)
(* has the operations only; AllocLife runs them through a DPU's life and   *)
(* TM calls them from the transactional memory.                            *)
(***************************************************************************)
EXTENDS Integers

CONSTANTS
  NR_TASKLETS,  \* number of tasklets of a DPU
  WORD,         \* uintptr_t values are 0 .. WORD-1
  HEAP,         \* DPU_MRAM_HEAP_POINTER, where the linker's own data ends
  INIT_SIZE,    \* size of tasklet 0's block while the warehouse is loaded
  MRAM_LIMIT    \* last address rebalancing hands out

Tasklet == 0 .. NR_TASKLETS - 1

\* The word width, and the layout under which alloc.c:35 does not wrap: the
\* block tasklet 0 loads into ends before MRAM_LIMIT.
ASSUME AllocAssumption ==
  /\ NR_TASKLETS \in Nat \ {0}
  /\ WORD \in Nat /\ HEAP \in Nat /\ INIT_SIZE \in Nat /\ MRAM_LIMIT \in Nat
  /\ HEAP + INIT_SIZE <= MRAM_LIMIT
  /\ MRAM_LIMIT < WORD

VARIABLES
  blocks,  \* blocks[t], the memory block of tasklet t
  halted   \* an assert failed: the DPU has stopped with a fault

Uintptr == 0 .. WORD - 1
Block   == [addr: Uintptr, t_addr: Uintptr, used: Uintptr, t_used: Uintptr, size: Uintptr]

\* Unsigned arithmetic.
Wrap(n) == IF n >= 0 /\ n < WORD THEN n ELSE n % WORD

NoBlock == [addr |-> 0, t_addr |-> 0, used |-> 0, t_used |-> 0, size |-> 0]

\* An empty block that starts at address a.
EmptyBlock(a, size) == [addr |-> a, t_addr |-> a, used |-> 0, t_used |-> 0, size |-> size]

\* First address of tasklet t's block.
Base(t) == blocks[t].addr - blocks[t].used

------------------------------------------------------------------------------
mram_malloc_init ==
  blocks' = [blocks EXCEPT ![0] = EmptyBlock(HEAP, INIT_SIZE)]

\* Share what is left between the tasklets.  Tasklet 0 keeps its t_addr.
ShareSize == Wrap(MRAM_LIMIT - blocks[0].addr) \div NR_TASKLETS

\* Mutant: tasklet 0's counts still include the warehouse.
RebalanceKeepsUsed ==
  blocks' = [t \in Tasklet |->
               IF t = 0 THEN [blocks[0] EXCEPT !.size = ShareSize]
               ELSE EmptyBlock(Wrap(blocks[0].addr + t * ShareSize), ShareSize)]

mram_malloc_rebalance ==
  blocks' = [t \in Tasklet |->
               IF t = 0
               THEN [EmptyBlock(blocks[0].addr, ShareSize) EXCEPT !.t_addr = blocks[0].t_addr]
               ELSE EmptyBlock(Wrap(blocks[0].addr + t * ShareSize), ShareSize)]

\* mram_malloc asserts that the request is not empty and fits.
Refused(t, size) == size <= 0 \/ Wrap(blocks[t].t_used + size) >= blocks[t].size

mram_malloc(t, size) ==
  /\ ~ Refused(t, size)
  /\ blocks' = [blocks EXCEPT ![t].t_addr = Wrap(@ + size),
                              ![t].t_used = Wrap(@ + size)]

\* Mutant: the committed count is forgotten.
CommitForgetsUsed(t) == blocks' = [blocks EXCEPT ![t].addr = blocks[t].t_addr]

mram_malloc_commit(t) ==
  blocks' = [blocks EXCEPT ![t].addr = blocks[t].t_addr,
                           ![t].used = blocks[t].t_used]

\* Mutant: the tentative end is forgotten.
RevertForgetsEnd(t) ==
  blocks' = [blocks EXCEPT ![t].t_used = blocks[t].used]

mram_malloc_revert(t) ==
  blocks' = [blocks EXCEPT ![t].t_addr = blocks[t].addr,
                           ![t].t_used = blocks[t].used]
==============================================================================
