------------------------------- MODULE MC_Host -------------------------------
(***************************************************************************)
(* Workloads on which TLC checks HostSystem.                               *)
(***************************************************************************)
EXTENDS HostSystem

CONSTANT MaxTxs  \* the most transactions of a workload

\* All sequences of transactions on one or two DPUs.
AllWorkloads ==
  LET Kinds == {s \in SUBSET Dpu : Cardinality(s) \in {1, 2}}
  IN  UNION {[1 .. n -> Kinds] : n \in 1 .. MaxTxs}
==============================================================================
