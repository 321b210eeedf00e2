------------------------------ MODULE MC_Rounds ------------------------------
(***************************************************************************)
(* Workloads on which TLC checks DpuRounds.                                *)
(***************************************************************************)
EXTENDS DpuRounds

CONSTANT MaxTxs  \* the most transactions of a workload

\* All sequences of transactions on one or two DPUs.
AllWorkloads ==
  LET Kinds == {s \in SUBSET Dpu : Cardinality(s) \in {1, 2}}
  IN  UNION {[1 .. n -> Kinds] : n \in 1 .. MaxTxs}

\* In every batch of a DPU, NR_TASKLETS * BATCH_SIZE entries of its queue, the
\* deterministic sub-transactions come before the optimistic ones.
Capacity == NR_TASKLETS * BATCH_SIZE

DetFirst(w) ==
  \A d \in Dpu :
    LET q == SelectSeq([n \in DOMAIN w |-> w[n]], LAMBDA s : d \in s)
    IN  \A m, n \in DOMAIN q :
          m < n /\ (m - 1) \div Capacity = (n - 1) \div Capacity
            => Cardinality(q[m]) >= Cardinality(q[n])

Separate == {w \in AllWorkloads : DetFirst(w)}
==============================================================================
