----------------------------- MODULE AtomicTable ------------------------------
(***************************************************************************)
(* What a table of the application promises: a set of rows, one for each   *)
(* key that has been inserted.  The tasklets run transactions, each a list *)
(* of finds and inserts, and all inserts of a transaction take effect at   *)
(* one instant.                                                            *)
(***************************************************************************)
EXTENDS Integers, Sequences, FiniteSetsExt

CONSTANT Tasklets  \* the tasklets of the DPU

VARIABLES
  program,  \* program[t], the transactions tasklet t has to run
  table,    \* the rows <<key, data>>
  done      \* done[t], how many of its transactions tasklet t has committed

\* The places in the list ops where key k is inserted; the last one counts.
Inserts(ops, k) == {i \in DOMAIN ops : ops[i].kind = "insert" /\ ops[i].key = k}
Inserted(ops)   == {ops[i].key : i \in {j \in DOMAIN ops : ops[j].kind = "insert"}}

\* The table once the operations ops have been applied to it.
After(tab, ops) ==
  {r \in tab : r[1] \notin Inserted(ops)}
    \cup {<<k, ops[Max(Inserts(ops, k))].data>> : k \in Inserted(ops)}

AInit == table = {} /\ done = [t \in Tasklets |-> 0]

\* The next transaction of tasklet t commits.
ACommit(t) ==
  /\ done[t] < Len(program[t])
  /\ done' = [done EXCEPT ![t] = @ + 1]
  /\ table' = After(table, program[t][done[t] + 1])
  /\ UNCHANGED program

ANext == \E t \in Tasklets : ACommit(t)

avars == <<program, table, done>>

ASpec == AInit /\ [][ANext]_avars
===============================================================================
