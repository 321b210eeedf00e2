--------------------------- MODULE AllocLifeProofs ---------------------------
(***************************************************************************)
(* Proofs about AllocLife, for any number of tasklets, any word width, any *)
(* layout AllocAssumption allows and any object sizes.  The inductive      *)
(* invariant adds to Accounted where each phase has put the blocks: at     *)
(* fixed bases at least a block's size apart.                              *)
(***************************************************************************)
EXTENDS AllocLife, TLAPS

Assumptions == AllocAssumption /\ SizesAssumption

LEMMA ZeroTasklet == 0 \in Tasklet
  BY AllocAssumption DEF Tasklet

\* While the warehouse is loaded, tasklet 0's block starts at HEAP.
LoadLayout ==
  /\ Base(0) = HEAP
  /\ blocks[0].size = INIT_SIZE
  /\ \A t \in Tasklet \ {0} : blocks[t] = NoBlock

\* Once the DPU runs, each block ends before the next begins and before
\* MRAM_LIMIT.
RunLayout ==
  \A t \in Tasklet :
    /\ Base(t) \in Nat
    /\ Base(t) + blocks[t].size <= MRAM_LIMIT
    /\ \A u \in Tasklet : t < u => Base(t) + blocks[t].size <= Base(u)

IInv ==
  /\ TypeOK
  /\ Accounted
  /\ phase = "off" => \A t \in Tasklet : blocks[t] = NoBlock
  /\ phase \in Loading => LoadLayout
  /\ phase = "loaded" => blocks[0].t_used = blocks[0].used
  /\ phase = "run" => RunLayout

------------------------------------------------------------------------------
\* Arithmetic.

LEMMA TimesMonotone ==
  ASSUME NEW a \in Nat, NEW b \in Nat, NEW c \in Nat, a <= b
  PROVE  a * c <= b * c
<1> DEFINE d == b - a
<1>1. d \in Nat /\ b = a + d
  OBVIOUS
<1> HIDE DEF d
<1>2. b * c = a * c + d * c
  BY <1>1
<1>3. d * c \in Nat /\ a * c \in Nat
  BY <1>1
<1> QED  BY <1>2, <1>3

LEMMA ShareFits ==
  ASSUME NEW n \in Nat, NEW k \in Nat \ {0}
  PROVE  n \div k \in Nat /\ k * (n \div k) <= n
  OBVIOUS

\* Shares of the same size laid end to end do not overlap, nor does the last
\* one leave the space that is shared.
LEMMA SharesApart ==
  ASSUME NEW n \in Nat, NEW t \in Tasklet
  PROVE  LET S == n \div NR_TASKLETS IN
         /\ S \in Nat /\ t * S \in Nat
         /\ t * S + S <= n
         /\ \A u \in Tasklet : t < u => t * S + S <= u * S
<1> DEFINE S == n \div NR_TASKLETS
<1>1. S \in Nat /\ NR_TASKLETS * S <= n
  BY ShareFits, AllocAssumption
<1>2. t \in Nat /\ t + 1 <= NR_TASKLETS /\ NR_TASKLETS \in Nat
  BY AllocAssumption DEF Tasklet
<1> HIDE DEF S
<1>3. (t + 1) * S = t * S + S /\ t * S \in Nat
  BY <1>1, <1>2
<1>4. (t + 1) * S <= NR_TASKLETS * S
  BY <1>1, <1>2, TimesMonotone
<1>5. ASSUME NEW u \in Tasklet, t < u
      PROVE  (t + 1) * S <= u * S
  <2>1. u \in Nat /\ t + 1 <= u
    BY <1>2, <1>5 DEF Tasklet
  <2> QED  BY <2>1, <1>1, <1>2, TimesMonotone
<1>6. NR_TASKLETS * S \in Nat
  BY <1>1, <1>2
<1>7. t * S + S <= n
  BY <1>1, <1>2, <1>3, <1>4, <1>6
<1>8. \A u \in Tasklet : t < u => t * S + S <= u * S
  BY <1>3, <1>5
<1> QED  BY <1>1, <1>3, <1>7, <1>8 DEF S

------------------------------------------------------------------------------
\* Where a block that is laid out may be written to.

LEMMA WithinBlock ==
  ASSUME IInv, NEW t \in Tasklet, phase = "run" \/ (phase \in Loading /\ t = 0)
  PROVE  /\ Base(t) \in Nat
         /\ Base(t) + blocks[t].size <= MRAM_LIMIT
         /\ blocks[t].t_addr = Base(t) + blocks[t].t_used
         /\ blocks[t].t_used <= blocks[t].size
<1>1. blocks[t] \in Block
  BY DEF IInv, TypeOK
<1>2. blocks[t].addr \in Nat /\ blocks[t].t_addr \in Nat /\ blocks[t].used \in Nat
      /\ blocks[t].t_used \in Nat /\ blocks[t].size \in Nat
  BY <1>1, AllocAssumption DEF Block, Uintptr
<1>3. Base(t) \in Nat /\ Base(t) + blocks[t].size <= MRAM_LIMIT
  BY AllocAssumption DEF IInv, LoadLayout, RunLayout
<1>4. /\ blocks[t].t_addr - blocks[t].addr = blocks[t].t_used - blocks[t].used
      /\ blocks[t].t_used = 0 \/ blocks[t].t_used < blocks[t].size
  BY DEF IInv, Accounted
<1>5. blocks[t].t_used <= blocks[t].size
  BY <1>2, <1>4
<1>6. blocks[t].t_addr = Base(t) + blocks[t].t_used
  BY <1>2, <1>4 DEF Base
<1> QED  BY <1>3, <1>5, <1>6

LEMMA InitOK == Init => IInv
<1> SUFFICES ASSUME Init PROVE IInv
  OBVIOUS
<1>1. \A t \in Tasklet : blocks[t] = NoBlock
  BY DEF Init
<1>2. 0 \in Uintptr
  BY AllocAssumption DEF Uintptr
<1>3. NoBlock \in Block
  BY <1>2 DEF NoBlock, Block
<1>4. TypeOK
  BY <1>3 DEF Init, TypeOK
<1>5. Accounted
  BY <1>1 DEF Accounted, NoBlock
<1> QED  BY <1>1, <1>4, <1>5 DEF Init, IInv, Loading

LEMMA BootOK == IInv /\ Boot => IInv'
<1> SUFFICES ASSUME IInv, Boot PROVE IInv'
  OBVIOUS
<1>0. 0 \in Tasklet
  BY ZeroTasklet
<1>1. blocks' = [blocks EXCEPT ![0] = EmptyBlock(HEAP, INIT_SIZE)]
  BY DEF Boot, mram_malloc_init
<1>2. blocks \in [Tasklet -> Block] /\ \A t \in Tasklet : blocks[t] = NoBlock
  BY DEF Boot, IInv, TypeOK
<1>3. HEAP \in Uintptr /\ INIT_SIZE \in Uintptr /\ 0 \in Uintptr
  BY AllocAssumption DEF Uintptr
<1>4. EmptyBlock(HEAP, INIT_SIZE) \in Block
  BY <1>3 DEF EmptyBlock, Block
<1>5. blocks' \in [Tasklet -> Block]
  BY <1>1, <1>2, <1>4
<1>6. blocks'[0] = EmptyBlock(HEAP, INIT_SIZE)
      /\ \A t \in Tasklet \ {0} : blocks'[t] = NoBlock
  BY <1>0, <1>1, <1>2
<1>7. Accounted'
  BY <1>6, AllocAssumption DEF Accounted, EmptyBlock, NoBlock
<1>8. LoadLayout'
  BY <1>6, AllocAssumption DEF LoadLayout, Base, EmptyBlock
<1>9. halted' = halted /\ phase' = "tables"
  BY DEF Boot
<1> QED  BY <1>5, <1>7, <1>8, <1>9 DEF IInv, TypeOK, Loading

\* A step of tasklet t, of the load or of a transaction.
Turn(t) ==
  /\ UNCHANGED halted
  /\ \/ phase = "run" /\ phase' = "run"
     \/ phase \in Loading /\ phase' \in Loading /\ t = 0

\* A block that one tasklet changes keeps its base and its size.
LEMMA BlockStep ==
  ASSUME IInv, NEW t \in Tasklet, Turn(t), NEW b \in Block,
         blocks' = [blocks EXCEPT ![t] = b],
         phase' = "loaded" => b.t_used = b.used,
         b.size = blocks[t].size,
         b.addr - b.used = Base(t),
         b.t_addr - b.addr = b.t_used - b.used,
         b.used <= b.t_used,
         b.t_used = 0 \/ b.t_used < b.size
  PROVE  IInv'
<1>1. blocks \in [Tasklet -> Block]
  BY DEF IInv, TypeOK
<1>2. blocks'[t] = b /\ \A u \in Tasklet \ {t} : blocks'[u] = blocks[u]
  BY <1>1
<1>3. TypeOK'
  BY <1>1 DEF IInv, TypeOK, Turn
<1>4. Accounted'
  BY <1>2 DEF IInv, Accounted
<1>5. \A u \in Tasklet : Base(u)' = Base(u) /\ blocks'[u].size = blocks[u].size
  BY <1>2 DEF Base
<1>6. CASE phase = "run"
  <2>1. RunLayout'
    BY <1>5, <1>6 DEF IInv, RunLayout
  <2>2. phase' = "run"
    BY <1>6 DEF Turn, Loading
  <2> QED  BY <1>3, <1>4, <2>1, <2>2 DEF IInv, Loading
<1>7. CASE phase \in Loading
  <2>1. t = 0 /\ phase' \in Loading
    BY <1>7 DEF Turn, Loading
  <2>2. LoadLayout'
    BY <1>2, <1>5, <1>7, <2>1, ZeroTasklet DEF IInv, LoadLayout
  <2>3. phase' = "loaded" => blocks'[0].t_used = blocks'[0].used
    BY <1>2, <2>1
  <2> QED  BY <1>3, <1>4, <2>1, <2>2, <2>3 DEF IInv, Loading
<1> QED  BY <1>6, <1>7 DEF Turn

LEMMA MallocOK ==
  ASSUME IInv, NEW t \in Tasklet, NEW n \in Sizes, mram_malloc(t, n), Turn(t), phase' # "loaded"
  PROVE  IInv'
<1> DEFINE b == [blocks[t] EXCEPT !.t_addr = Wrap(@ + n), !.t_used = Wrap(@ + n)]
<1>1. ~ Refused(t, n) /\ blocks' = [blocks EXCEPT ![t] = b]
  BY DEF mram_malloc
<1>2. blocks[t] \in Block
  BY DEF IInv, TypeOK
<1>3. blocks[t].addr \in Nat /\ blocks[t].t_addr \in Nat /\ blocks[t].used \in Nat
      /\ blocks[t].t_used \in Nat /\ blocks[t].size \in Nat
  BY <1>2, AllocAssumption DEF Block, Uintptr
<1>4. /\ Base(t) + blocks[t].size <= MRAM_LIMIT
      /\ blocks[t].t_addr = Base(t) + blocks[t].t_used
      /\ blocks[t].t_used <= blocks[t].size /\ Base(t) \in Nat
  BY <1>1, WithinBlock DEF Turn
<1>5. n \in Nat /\ n > 0 /\ n < WORD - MRAM_LIMIT
  BY SizesAssumption, AllocAssumption
<1>6. blocks[t].t_used + n < WORD
  BY <1>3, <1>4, <1>5, AllocAssumption
<1>7. Wrap(blocks[t].t_used + n) = blocks[t].t_used + n
  BY <1>3, <1>5, <1>6 DEF Wrap
<1>8. blocks[t].t_used + n < blocks[t].size
  BY <1>1, <1>3, <1>5, <1>7 DEF Refused
<1>9. blocks[t].t_addr + n < WORD
  BY <1>3, <1>4, <1>5, <1>8, AllocAssumption
<1>10. Wrap(blocks[t].t_addr + n) = blocks[t].t_addr + n
  BY <1>3, <1>5, <1>9 DEF Wrap
<1>11. /\ b.t_addr = blocks[t].t_addr + n /\ b.t_used = blocks[t].t_used + n
      /\ b.addr = blocks[t].addr /\ b.used = blocks[t].used /\ b.size = blocks[t].size
  BY <1>2, <1>7, <1>10 DEF Block
<1>12. b \in Block
  <2>1. Wrap(blocks[t].t_used + n) \in Uintptr
    BY <1>3, <1>5, <1>6, <1>7, AllocAssumption DEF Uintptr
  <2>2. Wrap(blocks[t].t_addr + n) \in Uintptr
    BY <1>3, <1>5, <1>9, <1>10, AllocAssumption DEF Uintptr
  <2> QED  BY <1>2, <2>1, <2>2 DEF Block
<1>13. /\ blocks[t].t_addr - blocks[t].addr = blocks[t].t_used - blocks[t].used
      /\ blocks[t].used <= blocks[t].t_used
  BY DEF IInv, Accounted
<1>14. /\ b.size = blocks[t].size
      /\ b.addr - b.used = Base(t)
      /\ b.t_addr - b.addr = b.t_used - b.used
      /\ b.used <= b.t_used
  BY <1>3, <1>5, <1>8, <1>11, <1>13 DEF Base
<1>15. b.t_used < b.size
  BY <1>3, <1>5, <1>8, <1>11
<1> HIDE DEF b
<1> QED  BY <1>1, <1>12, <1>14, <1>15, BlockStep

LEMMA CommitOK ==
  ASSUME IInv, NEW t \in Tasklet, mram_malloc_commit(t), Turn(t)
  PROVE  IInv'
<1> DEFINE b == [blocks[t] EXCEPT !.addr = blocks[t].t_addr, !.used = blocks[t].t_used]
<1>1. blocks' = [blocks EXCEPT ![t] = b]
  BY DEF mram_malloc_commit
<1>2. blocks[t] \in Block
  BY DEF IInv, TypeOK
<1>3. blocks[t].t_addr \in Nat /\ blocks[t].t_used \in Nat
  BY <1>2, AllocAssumption DEF Block, Uintptr
<1>4. /\ blocks[t].t_addr = Base(t) + blocks[t].t_used
      /\ Base(t) \in Nat
  BY <1>1, WithinBlock DEF Turn
<1>5. b \in Block
  BY <1>2 DEF Block
<1>6. /\ b.addr = blocks[t].t_addr /\ b.t_addr = blocks[t].t_addr
      /\ b.used = blocks[t].t_used /\ b.t_used = blocks[t].t_used
      /\ b.size = blocks[t].size
  BY <1>2 DEF Block
<1>7. b.t_used = 0 \/ b.t_used < b.size
  BY <1>6 DEF IInv, Accounted
<1>8. /\ b.size = blocks[t].size
      /\ b.addr - b.used = Base(t)
      /\ b.t_addr - b.addr = b.t_used - b.used
      /\ b.used <= b.t_used /\ b.t_used = b.used
  BY <1>3, <1>4, <1>6
<1> HIDE DEF b
<1> QED  BY <1>1, <1>5, <1>7, <1>8, BlockStep

LEMMA RevertOK == ASSUME NEW t \in Tasklet PROVE IInv /\ Revert(t) => IInv'
<1> SUFFICES ASSUME IInv, Revert(t) PROVE IInv'
  OBVIOUS
<1> DEFINE b == [blocks[t] EXCEPT !.t_addr = blocks[t].addr, !.t_used = blocks[t].used]
<1>1. blocks' = [blocks EXCEPT ![t] = b] /\ Turn(t) /\ phase' # "loaded"
  BY DEF Revert, mram_malloc_revert, Turn
<1>2. blocks[t] \in Block
  BY DEF IInv, TypeOK
<1>3. blocks[t].addr \in Nat /\ blocks[t].used \in Nat /\ blocks[t].t_used \in Nat
      /\ blocks[t].size \in Nat
  BY <1>2, AllocAssumption DEF Block, Uintptr
<1>4. b \in Block
  BY <1>2 DEF Block
<1>5. /\ b.addr = blocks[t].addr /\ b.t_addr = blocks[t].addr
      /\ b.used = blocks[t].used /\ b.t_used = blocks[t].used
      /\ b.size = blocks[t].size
  BY <1>2 DEF Block
<1>6. /\ blocks[t].used <= blocks[t].t_used
      /\ blocks[t].t_used = 0 \/ blocks[t].t_used < blocks[t].size
  BY DEF IInv, Accounted
<1>7. b.t_used = 0 \/ b.t_used < b.size
  BY <1>3, <1>5, <1>6
<1>8. /\ b.size = blocks[t].size
      /\ b.addr - b.used = Base(t)
      /\ b.t_addr - b.addr = b.t_used - b.used
      /\ b.used <= b.t_used
  BY <1>3, <1>5 DEF Base
<1> HIDE DEF b
<1> QED  BY <1>1, <1>4, <1>7, <1>8, BlockStep

\* What is left after the warehouse is laid out in equal shares.
LEMMA RebalanceOK == IInv /\ Rebalance => IInv'
<1> SUFFICES ASSUME IInv, Rebalance PROVE IInv'
  OBVIOUS
<1> DEFINE a == blocks[0].addr
           n == MRAM_LIMIT - a
           S == n \div NR_TASKLETS
<1>0. 0 \in Tasklet
  BY ZeroTasklet
<1>1. blocks[0] \in Block
  BY <1>0 DEF IInv, TypeOK
<1>2. a \in Nat /\ blocks[0].t_addr \in Nat /\ blocks[0].used \in Nat /\ blocks[0].t_used \in Nat
      /\ blocks[0].size \in Nat
  BY <1>1, AllocAssumption DEF Block, Uintptr
<1>3. phase = "loaded" /\ blocks[0].t_used = blocks[0].used
      /\ phase' = "run" /\ UNCHANGED halted
  BY DEF Rebalance, IInv
<1>4. blocks[0].t_addr = a
  BY <1>0, <1>2, <1>3 DEF IInv, Accounted
<1>5. a <= MRAM_LIMIT
  BY <1>0, <1>2, <1>3, <1>4, WithinBlock, AllocAssumption DEF Loading
<1>6. n \in Nat /\ n < WORD
  BY <1>2, <1>5, AllocAssumption
<1>7. ShareSize = S
  BY <1>6 DEF ShareSize, Wrap
<1>8. \A t \in Tasklet : /\ S \in Nat /\ t * S \in Nat
                         /\ t * S + S <= n
                         /\ \A u \in Tasklet : t < u => t * S + S <= u * S
  BY <1>6, SharesApart
<1>9. \A t \in Tasklet : Wrap(a + t * S) = a + t * S
  <2> TAKE t \in Tasklet
  <2>1. S \in Nat /\ t * S \in Nat /\ t * S + S <= n
    BY <1>8
  <2> DEFINE x == t * S
  <2> HIDE DEF S
  <2>2. x \in Nat /\ x <= n
    BY <2>1, <1>6
  <2> HIDE DEF x
  <2>3. a + x >= 0 /\ a + x < WORD
    BY <2>2, <1>2, <1>5, AllocAssumption
  <2> QED  BY <2>3 DEF Wrap, x
<1>10. 0 * S = 0
  BY <1>0, <1>8
<1> HIDE DEF S
<1>11. \A t \in Tasklet : blocks'[t] = EmptyBlock(a + t * S, S)
  <2> TAKE t \in Tasklet
  <2>1. CASE t = 0
    <3>1. blocks'[0] = [EmptyBlock(a, S) EXCEPT !.t_addr = a]
      BY <1>0, <1>4, <1>7 DEF Rebalance, mram_malloc_rebalance
    <3>2. blocks'[0] = EmptyBlock(a, S)
      BY <3>1 DEF EmptyBlock
    <3> QED  BY <2>1, <3>2, <1>2, <1>10
  <2>2. CASE t # 0
    BY <2>2, <1>7, <1>9 DEF Rebalance, mram_malloc_rebalance
  <2> QED  BY <2>1, <2>2
<1>12. \A t \in Tasklet : a + t * S \in Uintptr /\ S \in Uintptr /\ 0 \in Uintptr
  <2> TAKE t \in Tasklet
  <2> DEFINE x == t * S
  <2>1. S \in Nat /\ x \in Nat /\ x + S <= n
    BY <1>8
  <2> HIDE DEF x
  <2>2. a + x \in Uintptr /\ S \in Uintptr /\ 0 \in Uintptr
    BY <2>1, <1>2, <1>5, AllocAssumption DEF Uintptr
  <2> QED  BY <2>2 DEF x
<1>13. \A t \in Tasklet : EmptyBlock(a + t * S, S) \in Block
  BY <1>12 DEF EmptyBlock, Block
<1>14. TypeOK'
  <2>1. blocks' = [t \in Tasklet |-> blocks'[t]]
    BY DEF Rebalance, mram_malloc_rebalance
  <2>2. blocks' \in [Tasklet -> Block]
    BY <2>1, <1>11, <1>13
  <2> QED  BY <2>2, <1>3 DEF IInv, TypeOK
<1>15. Accounted'
  <2> SUFFICES ASSUME NEW t \in Tasklet
               PROVE  /\ blocks'[t].t_addr - blocks'[t].addr = blocks'[t].t_used - blocks'[t].used
                      /\ blocks'[t].used <= blocks'[t].t_used
                      /\ blocks'[t].t_used = 0
    BY DEF Accounted
  <2> DEFINE x == a + t * S
  <2>1. blocks'[t] = EmptyBlock(x, S) /\ x \in Nat
    BY <1>11, <1>12, AllocAssumption DEF Uintptr
  <2> HIDE DEF x
  <2> QED  BY <2>1 DEF EmptyBlock
<1>16. RunLayout'
  <2>1. \A t \in Tasklet : Base(t)' = a + t * S /\ blocks'[t].size = S
    <3> TAKE t \in Tasklet
    <3> DEFINE x == a + t * S
    <3>1. blocks'[t] = EmptyBlock(x, S) /\ x \in Nat
      BY <1>11, <1>12, AllocAssumption DEF Uintptr
    <3> HIDE DEF x
    <3>2. Base(t)' = x /\ blocks'[t].size = S
      BY <3>1 DEF EmptyBlock, Base
    <3> QED  BY <3>2 DEF x
  <2> SUFFICES ASSUME NEW t \in Tasklet
               PROVE  /\ a + t * S \in Nat
                      /\ a + t * S + S <= MRAM_LIMIT
                      /\ \A u \in Tasklet : t < u => a + t * S + S <= a + u * S
    BY <2>1 DEF RunLayout
  <2> DEFINE x == t * S
  <2>2. S \in Nat /\ x \in Nat /\ x + S <= n
        /\ \A u \in Tasklet : t < u => u * S \in Nat /\ x + S <= u * S
    BY <1>8
  <2> HIDE DEF x
  <2>3. a + x \in Nat /\ a + x + S <= MRAM_LIMIT
    BY <2>2, <1>2, <1>5, AllocAssumption
  <2>4. \A u \in Tasklet : t < u => a + x + S <= a + u * S
    <3> TAKE u \in Tasklet
    <3> HAVE t < u
    <3> DEFINE y == u * S
    <3>1. y \in Nat /\ x + S <= y
      BY <2>2
    <3> HIDE DEF y
    <3>2. a + x + S <= a + y
      BY <3>1, <2>2, <1>2
    <3> QED  BY <3>2 DEF y
  <2> QED  BY <2>3, <2>4 DEF x
<1> QED  BY <1>3, <1>14, <1>15, <1>16 DEF IInv, Loading

LEMMA NextOK == IInv /\ [Next]_vars => IInv'
<1> SUFFICES ASSUME IInv, [Next]_vars PROVE IInv'
  OBVIOUS
<1>1. ASSUME UNCHANGED <<blocks, phase, halted>> PROVE IInv'
  BY <1>1 DEF IInv, TypeOK, Accounted, LoadLayout, RunLayout, Base
<1>2. ASSUME NEW t \in Tasklet, NEW size \in Sizes, MallocFault(t, size) PROVE IInv'
  BY <1>2 DEF MallocFault, IInv, TypeOK, Accounted, LoadLayout, RunLayout, Base
<1>3. ASSUME NEW size \in Sizes, LoadTable(size) \/ LoadRow(size) \/ LoadNode(size)
      PROVE  IInv'
  <2>1. mram_malloc(0, size) /\ Turn(0) /\ phase' # "loaded"
    BY <1>3 DEF LoadTable, LoadRow, LoadNode, Turn, Loading
  <2> QED  BY <2>1, MallocOK, ZeroTasklet
<1>4. ASSUME NEW t \in Tasklet, NEW size \in Sizes, Malloc(t, size) PROVE IInv'
  <2>1. mram_malloc(t, size) /\ Turn(t) /\ phase' # "loaded"
    BY <1>4 DEF Malloc, Turn
  <2> QED  BY <2>1, MallocOK
<1>5. ASSUME LoadCommit PROVE IInv'
  <2>1. mram_malloc_commit(0) /\ Turn(0)
    BY <1>5 DEF LoadCommit, Turn, Loading
  <2> QED  BY <2>1, CommitOK, ZeroTasklet
<1>6. ASSUME NEW t \in Tasklet, Commit(t) PROVE IInv'
  <2>1. mram_malloc_commit(t) /\ Turn(t)
    BY <1>6 DEF Commit, Turn
  <2> QED  BY <2>1, CommitOK
<1> QED
  BY <1>1, <1>2, <1>3, <1>4, <1>5, <1>6, BootOK, RebalanceOK, RevertOK DEF Next, Step, vars

------------------------------------------------------------------------------
(* What keeps the tasklets apart: the bases rebalancing sets never move, and *)
(* no allocation leaves its block (alloc.c:30-77).                          *)
THEOREM Inductive == Spec => []IInv
<1> QED  BY InitOK, NextOK, PTL DEF Spec

(* Every field of a block stays a machine word (alloc.c:7-14).  That no sum *)
(* of alloc.c:65-74 wraps is what AccountsCorrect and BlocksDisjoint add.   *)
THEOREM TypeCorrect == Spec => []TypeOK
<1>1. IInv => TypeOK
  BY DEF IInv
<1> QED  BY <1>1, Inductive, PTL

(* For any number of tasklets and any object sizes, the pointers and the    *)
(* byte counts of a block agree and stay within its size (alloc.c:65-98).   *)
THEOREM AccountsCorrect == Spec => []Accounted
<1>1. IInv => Accounted
  BY DEF IInv
<1> QED  BY <1>1, Inductive, PTL

(* For any number of tasklets and any object sizes, the memory of two       *)
(* tasklets never overlaps and none lies beyond MRAM_LIMIT (alloc.c:35-65). *)
THEOREM BlocksDisjoint == Spec => []Disjoint
<1>1. IInv => Disjoint
  <2> SUFFICES ASSUME IInv, phase = "run", NEW t \in Tasklet
               PROVE  /\ blocks[t].t_addr <= MRAM_LIMIT
                      /\ \A u \in Tasklet : t < u => blocks[t].t_addr <= Base(u)
    BY DEF Disjoint
  <2>1. blocks[t] \in Block
    BY DEF IInv, TypeOK
  <2>2. blocks[t].t_used \in Nat /\ blocks[t].size \in Nat
    BY <2>1, AllocAssumption DEF Block, Uintptr
  <2>3. /\ Base(t) \in Nat
        /\ Base(t) + blocks[t].size <= MRAM_LIMIT
        /\ blocks[t].t_addr = Base(t) + blocks[t].t_used
        /\ blocks[t].t_used <= blocks[t].size
    BY WithinBlock
  <2>4. \A u \in Tasklet : t < u => Base(u) \in Nat /\ Base(t) + blocks[t].size <= Base(u)
    BY DEF IInv, RunLayout
  <2> QED  BY <2>2, <2>3, <2>4, AllocAssumption
<1> QED  BY <1>1, Inductive, PTL

(* Once transactions run, no step moves the committed end of any block back *)
(* or moves its base: what is committed, the warehouse included, is never   *)
(* handed out again (alloc.c:79-99).                                        *)
THEOREM CommittedKept == Spec => CommittedStays
<1>1. IInv /\ [Next]_vars =>
        [phase = "run" =>
           \A t \in Tasklet : /\ blocks'[t].addr >= blocks[t].addr
                              /\ Base(t)' = Base(t)]_vars
  <2> SUFFICES ASSUME IInv, Next, phase = "run", NEW t \in Tasklet
               PROVE  blocks'[t].addr >= blocks[t].addr /\ Base(t)' = Base(t)
    OBVIOUS
  <2>1. blocks \in [Tasklet -> Block] /\ blocks[t] \in Block
    BY DEF IInv, TypeOK
  <2>2. blocks[t].addr \in Nat /\ blocks[t].t_addr \in Nat /\ blocks[t].used \in Nat
        /\ blocks[t].t_used \in Nat
    BY <2>1, AllocAssumption DEF Block, Uintptr
  <2>3. /\ blocks[t].t_addr - blocks[t].addr = blocks[t].t_used - blocks[t].used
        /\ blocks[t].used <= blocks[t].t_used
    BY DEF IInv, Accounted
  <2>4. ASSUME NEW u \in Tasklet, NEW size \in Sizes, Malloc(u, size)
        PROVE  blocks'[t].addr = blocks[t].addr /\ blocks'[t].used = blocks[t].used
    BY <2>1, <2>4 DEF Malloc, mram_malloc, Block
  <2>5. ASSUME NEW u \in Tasklet, Revert(u)
        PROVE  blocks'[t].addr = blocks[t].addr /\ blocks'[t].used = blocks[t].used
    BY <2>1, <2>5 DEF Revert, mram_malloc_revert, Block
  <2>6. ASSUME NEW u \in Tasklet, Commit(u)
        PROVE  \/ blocks'[t] = blocks[t]
               \/ blocks'[t].addr = blocks[t].t_addr /\ blocks'[t].used = blocks[t].t_used
    BY <2>1, <2>6 DEF Commit, mram_malloc_commit, Block
  <2>7. \/ blocks'[t].addr = blocks[t].addr /\ blocks'[t].used = blocks[t].used
        \/ blocks'[t].addr = blocks[t].t_addr /\ blocks'[t].used = blocks[t].t_used
    BY <2>4, <2>5, <2>6 DEF Next, Step, Boot, LoadTable, LoadRow, LoadNode, LoadCommit, Rebalance, MallocFault
  <2> QED  BY <2>2, <2>3, <2>7 DEF Base
<1> QED  BY <1>1, Inductive, PTL DEF Spec, CommittedStays
==============================================================================
