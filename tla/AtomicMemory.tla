----------------------------- MODULE AtomicMemory -----------------------------
(***************************************************************************)
(* What the transactional memory of a DPU promises about its memory: every *)
(* tasklet runs the transactions of its batch one after the other, and     *)
(* each of them takes effect at one instant, all its writes together.      *)
(***************************************************************************)
EXTENDS Integers, Sequences, FiniteSetsExt

CONSTANTS
  Tasklets,  \* the tasklets of the DPU
  Addrs,     \* the words of MRAM that transactions read and write
  Zero       \* the value every word has at first

VARIABLES
  program,  \* program[t], the transactions tasklet t has to run
  store,    \* store[a], the committed value of word a
  done      \* done[t], how many of its transactions tasklet t has committed

\* The writes of an operation list ops to word a, and the one that stays.
Stores(ops, a) == {k \in DOMAIN ops : ops[k].kind = "store" /\ ops[k].addr = a}
Writes(ops, a) == Stores(ops, a) # {}
Written(ops, a) == ops[Max(Stores(ops, a))].val

AInit ==
  /\ store = [a \in Addrs |-> Zero]
  /\ done = [t \in Tasklets |-> 0]

\* The next transaction of tasklet t commits.
ACommit(t) ==
  /\ done[t] < Len(program[t])
  /\ done' = [done EXCEPT ![t] = @ + 1]
  /\ LET ops == program[t][done[t] + 1].ops
     IN  store' = [a \in Addrs |-> IF Writes(ops, a) THEN Written(ops, a) ELSE store[a]]
  /\ UNCHANGED program

ANext == \E t \in Tasklets : ACommit(t)

avars == <<program, store, done>>

ASpec == AInit /\ [][ANext]_avars
===============================================================================
