--------------------------- MODULE DpuRoundsProofs ---------------------------
(***************************************************************************)
(* Proofs about rounds, for every number of DPUs and tasklets: that the    *)
(* scheduler's barrier keeps the two phases of a round apart (PhasesApart) *)
(* and that the clock keeps up with the host's numbering (ClockKeepsUp),   *)
(* for all batches, and that the deterministic transactions commit in the  *)
(* order of exec (ExecOrder), for batches that are not mixed.              *)
(***************************************************************************)
EXTENDS DpuRounds, FiniteSetTheorems, SequenceTheorems, TLAPS

\* s is a sequence, whatever its elements are.
IsSeq(s) == s \in Seq(ToSet(s))

Types ==
  /\ host \in [Dpu -> {"begin", "take", "ready", "run"}]
  /\ pc \in [Dpu -> [Tasklet -> {"det", "barrier", "opt", "done"}]]
  /\ pos \in [Dpu -> [Tasklet -> Nat]]
  /\ DOMAIN log = Dpu /\ \A d \in Dpu : IsSeq(log[d])
  /\ DOMAIN batch = Dpu
  /\ \A d \in Dpu : DOMAIN batch[d] = Tasklet
  /\ \A d \in Dpu, t \in Tasklet :
       DOMAIN batch[d][t] = {"det", "opt"} /\ IsSeq(batch[d][t].det)

\* While its batch is built a DPU is idle.
Idle(d) == host[d] # "run" => \A t \in Tasklet : pc[d][t] = "done"

\* The deterministic sub-transactions before the tasklet's position, and all once
\* it has come to the barrier, are committed.
Done(d, t) ==
  \A n \in DOMAIN batch[d][t].det :
    pc[d][t] # "det" \/ n < pos[d][t] => batch[d][t].det[n].tx \in Committed(d)

\* Beyond the barrier are all tasklets or none.
Beyond(d) ==
  \A t, u \in Tasklet : pc[d][t] \in {"opt", "done"} => pc[d][u] \in {"opt", "done"}

PhaseInv ==
  \A d \in Dpu : /\ Idle(d) /\ Beyond(d)
                 /\ host[d] = "run" => \A t \in Tasklet : Done(d, t)

IInv == Types /\ PhaseInv

------------------------------------------------------------------------------
(* Sequences of unknown elements *)

LEMMA EmptyIsSeq == IsSeq(<<>>)
BY EmptySeq DEF IsSeq

LEMMA SeqDomain ==
  ASSUME NEW s, IsSeq(s)
  PROVE  Len(s) \in Nat /\ DOMAIN s = 1 .. Len(s)
BY LenProperties DEF IsSeq

LEMMA AppendSeq ==
  ASSUME NEW s, IsSeq(s), NEW e
  PROVE  IsSeq(Append(s, e)) /\ ToSet(Append(s, e)) = ToSet(s) \cup {e}
<1>. DEFINE S == ToSet(s) \cup {e}
<1>1. s \in Seq(S) /\ e \in S
  BY SeqMonotonic DEF IsSeq
<1>. HIDE DEF S
<1>2. /\ Append(s, e) \in Seq(S)
      /\ Len(Append(s, e)) = Len(s) + 1
      /\ \A i \in 1 .. Len(s) : Append(s, e)[i] = s[i]
      /\ Append(s, e)[Len(s) + 1] = e
  BY <1>1, AppendProperties
<1>3. DOMAIN s = 1 .. Len(s) /\ DOMAIN Append(s, e) = 1 .. Len(s) + 1 /\ Len(s) \in Nat
  BY <1>1, <1>2, LenProperties
<1>4. ToSet(Append(s, e)) = S
  BY <1>2, <1>3 DEF ToSet, S
<1>. QED
  BY <1>2, <1>4 DEF IsSeq, S

------------------------------------------------------------------------------
(* The host's steps *)

LEMMA InitPhases == Init => IInv
<1>. SUFFICES ASSUME Init PROVE IInv
  OBVIOUS
<1>1. Types
  BY EmptyIsSeq DEF Init, BatchInit, NoSubTxs, Types
<1>2. PhaseInv
  BY DEF Init, PhaseInv, Idle, Beyond
<1>. QED
  BY <1>1, <1>2 DEF IInv

\* A step that changes the batch of one idle DPU, which stays idle.
LEMMA HostChanges ==
  ASSUME IInv, NEW d \in Dpu, host[d] \in {"begin", "take"}, UNCHANGED dpuVars,
         NEW label \in {"begin", "take", "ready"}, host' = [host EXCEPT ![d] = label],
         DOMAIN batch' = Dpu, \A e \in Dpu \ {d} : batch'[e] = batch[e],
         DOMAIN batch'[d] = Tasklet,
         \A t \in Tasklet : DOMAIN batch'[d][t] = {"det", "opt"} /\ IsSeq(batch'[d][t].det)
  PROVE  IInv'
<1>1. Types'
  <2>1. pc' = pc /\ pos' = pos /\ log' = log
    BY DEF dpuVars
  <2>2. host' \in [Dpu -> {"begin", "take", "ready", "run"}]
    BY DEF IInv, Types
  <2>3. ASSUME NEW e \in Dpu
        PROVE  /\ DOMAIN batch'[e] = Tasklet
               /\ \A t \in Tasklet : DOMAIN batch'[e][t] = {"det", "opt"} /\ IsSeq(batch'[e][t].det)
    <3>1. CASE e = d
      BY <3>1
    <3>2. CASE e # d
      BY <3>2 DEF IInv, Types
    <3>. QED
      BY <3>1, <3>2
  <2>. QED
    BY <2>1, <2>2, <2>3 DEF IInv, Types
<1>2. PhaseInv'
  <2>. SUFFICES ASSUME NEW e \in Dpu
                PROVE  (Idle(e) /\ Beyond(e) /\ (host[e] = "run" => \A t \in Tasklet : Done(e, t)))'
    BY DEF PhaseInv
  <2>1. pc' = pc /\ pos' = pos /\ log' = log
    BY DEF dpuVars
  <2>2. Idle(e) /\ Beyond(e) /\ (host[e] = "run" => \A t \in Tasklet : Done(e, t))
    BY DEF IInv, PhaseInv
  <2>3. CASE e = d
    BY <2>1, <2>2, <2>3 DEF IInv, Types, Idle, Beyond
  <2>4. CASE e # d
    <3>1. host'[e] = host[e] /\ batch'[e] = batch[e]
      BY <2>4 DEF IInv, Types
    <3>. QED
      BY <2>1, <2>2, <3>1 DEF Idle, Beyond, Done, Committed
  <2>. QED
    BY <2>3, <2>4
<1>. QED
  BY <1>1, <1>2 DEF IInv

LEMMA BeginStep ==
  ASSUME IInv, NEW d \in Dpu, Begin(d)
  PROVE  IInv'
<1>1. batch' = [batch EXCEPT ![d] = [t \in Tasklet |-> NoSubTxs]]
  BY DEF Begin, BeginBatch
<1>2. /\ DOMAIN batch' = Dpu /\ \A e \in Dpu \ {d} : batch'[e] = batch[e]
      /\ batch'[d] = [t \in Tasklet |-> NoSubTxs]
  BY <1>1 DEF IInv, Types
<1>3. DOMAIN NoSubTxs = {"det", "opt"} /\ IsSeq(NoSubTxs.det)
  BY EmptyIsSeq DEF NoSubTxs
<1>4. UNCHANGED dpuVars /\ host[d] = "begin" /\ host' = [host EXCEPT ![d] = "take"]
  BY DEF Begin
<1>. QED
  BY <1>2, <1>3, <1>4, HostChanges

LEMMA TakeStep ==
  ASSUME IInv, NEW d \in Dpu, BuildTake(d)
  PROVE  IInv'
<1>. DEFINE tx     == Head(queue[d])
            thread == turn[d].thread
            ts     == turn[d].prev + Position(thread, Len(batch[d][thread].det))
            new    == Stored(batch[d][thread], tx, ts)
<1>1. batch' = [batch EXCEPT ![d][thread] = new]
  BY DEF BuildTake, Take
<1>2. /\ UNCHANGED dpuVars /\ host[d] = "take" /\ host' = host
      /\ host' = [host EXCEPT ![d] = "take"]
  BY DEF BuildTake, IInv, Types
<1>3. /\ DOMAIN batch' = Dpu /\ \A e \in Dpu \ {d} : batch'[e] = batch[e]
      /\ batch'[d] = [batch[d] EXCEPT ![thread] = new]
  BY <1>1 DEF IInv, Types
<1>4. ASSUME thread \in Tasklet
      PROVE  DOMAIN new = {"det", "opt"} /\ IsSeq(new.det)
  <2>. DEFINE old == batch[d][thread]
  <2>1. DOMAIN old = {"det", "opt"} /\ IsSeq(old.det)
    BY <1>4 DEF IInv, Types
  <2>2. IsSeq(Append(old.det, [tx |-> tx, ts |-> ts]))
    BY <2>1, AppendSeq
  <2>. QED
    BY <2>1, <2>2 DEF Stored
<1>5. DOMAIN batch[d] = Tasklet
  BY DEF IInv, Types
<1>6. ASSUME NEW t \in Tasklet
      PROVE  DOMAIN batch'[d][t] = {"det", "opt"} /\ IsSeq(batch'[d][t].det)
  <2>. HIDE DEF new, thread, tx, ts
  <2>1. CASE t = thread
    BY <1>3, <1>4, <1>5, <2>1
  <2>2. CASE t # thread
    <3>1. batch'[d][t] = batch[d][t]
      BY <1>3, <1>5, <2>2
    <3>. QED
      BY <3>1 DEF IInv, Types
  <2>. QED
    BY <2>1, <2>2
<1>7. DOMAIN batch'[d] = Tasklet
  BY <1>3, <1>5
<1>. QED
  BY <1>2, <1>3, <1>6, <1>7, HostChanges

LEMMA BuiltStep ==
  ASSUME IInv, NEW d \in Dpu, Built(d)
  PROVE  IInv'
<1>1. /\ UNCHANGED dpuVars /\ host[d] = "take" /\ host' = [host EXCEPT ![d] = "ready"]
      /\ batch' = batch
  BY DEF Built, batchVars
<1>2. /\ DOMAIN batch = Dpu /\ DOMAIN batch[d] = Tasklet
      /\ \A t \in Tasklet : DOMAIN batch[d][t] = {"det", "opt"} /\ IsSeq(batch[d][t].det)
  BY DEF IInv, Types
<1>. QED
  BY <1>1, <1>2, HostChanges

LEMMA LaunchStep ==
  ASSUME IInv, Launch
  PROVE  IInv'
<1>1. /\ host' = [d \in Dpu |-> "run"]
      /\ pc' = [d \in Dpu |-> [t \in Tasklet |-> "det"]]
      /\ pos' = [d \in Dpu |-> [t \in Tasklet |-> 1]]
      /\ batch' = batch /\ log' = log
  BY DEF Launch, batchVars
<1>2. Types'
  BY <1>1 DEF IInv, Types
<1>3. ASSUME NEW d \in Dpu, NEW t \in Tasklet PROVE Done(d, t)'
  <2>1. DOMAIN batch[d][t].det = 1 .. Len(batch[d][t].det)
    BY SeqDomain DEF IInv, Types
  <2>. QED
    BY <1>1, <2>1 DEF Done
<1>4. PhaseInv'
  BY <1>1, <1>3 DEF PhaseInv, Idle, Beyond
<1>. QED
  BY <1>2, <1>4 DEF IInv

LEMMA ReturnStep ==
  ASSUME IInv, Return
  PROVE  IInv'
<1>1. /\ host' = [d \in Dpu |-> "begin"] /\ UNCHANGED <<batch, pc, pos, log>>
      /\ \A d \in Dpu, t \in Tasklet : pc[d][t] = "done"
  BY DEF Return, batchVars, dpuVars
<1>2. Types'
  BY <1>1 DEF IInv, Types
<1>3. PhaseInv'
  BY <1>1 DEF PhaseInv, Idle, Beyond
<1>. QED
  BY <1>2, <1>3 DEF IInv

------------------------------------------------------------------------------
(* The tasklets' steps *)

\* A committed transaction stays committed.
LEMMA LogGrows ==
  ASSUME IInv, NEW d \in Dpu, NEW e \in Dpu, NEW tx, log' = [log EXCEPT ![d] = Append(@, tx)]
  PROVE  /\ DOMAIN log' = Dpu /\ IsSeq(log'[e])
         /\ Committed(e) \subseteq Committed(e)'
         /\ e = d => tx \in Committed(e)'
<1>1. DOMAIN log = Dpu /\ IsSeq(log[d]) /\ IsSeq(log[e])
  BY DEF IInv, Types
<1>2. log'[d] = Append(log[d], tx) /\ (e # d => log'[e] = log[e]) /\ DOMAIN log' = Dpu
  BY <1>1
<1>3. IsSeq(log'[d]) /\ ToSet(log'[d]) = ToSet(log[d]) \cup {tx}
  BY <1>1, <1>2, AppendSeq
<1>. QED
  BY <1>1, <1>2, <1>3 DEF Committed

\* Whatever an attempt does, tasklet t's part of the invariant goes on.
LEMMA AttemptStep ==
  ASSUME IInv, NEW d \in Dpu, NEW t \in Tasklet, NEW sub, Attempt(d, t, sub),
         pc[d][t] \in {"det", "opt"},
         pc[d][t] = "det" => sub = batch[d][t].det[pos[d][t]]
  PROVE  IInv'
<1>1. UNCHANGED <<batch, host, pc>>
  BY DEF Attempt, batchVars
<1>2. CASE UNCHANGED <<log, pos>>
  BY <1>1, <1>2 DEF IInv, Types, PhaseInv, Idle, Beyond, Done, Committed
<1>3. CASE /\ log' = [log EXCEPT ![d] = Append(@, sub.tx)]
           /\ pos' = [pos EXCEPT ![d][t] = @ + 1]
  <2>1. DOMAIN log' = Dpu /\ \A e \in Dpu : IsSeq(log'[e]) /\ Committed(e) \subseteq Committed(e)'
    BY <1>3, LogGrows
  <2>2. sub.tx \in Committed(d)'
    BY <1>3, LogGrows
  <2>3. /\ pos' \in [Dpu -> [Tasklet -> Nat]]
        /\ pos'[d][t] = pos[d][t] + 1 /\ pos[d][t] \in Nat
        /\ \A e \in Dpu, u \in Tasklet : e # d \/ u # t => pos'[e][u] = pos[e][u]
    BY <1>3 DEF IInv, Types
  <2>4. Types'
    BY <1>1, <2>1, <2>3 DEF IInv, Types
  <2>5. ASSUME NEW e \in Dpu, host[e] = "run", NEW u \in Tasklet
        PROVE  Done(e, u)'
    <3>1. Done(e, u)
      BY <2>5 DEF IInv, PhaseInv
    <3>2. CASE e # d \/ u # t
      BY <1>1, <2>1, <2>3, <3>1, <3>2 DEF Done
    <3>3. CASE e = d /\ u = t
      <4>. SUFFICES ASSUME NEW n \in DOMAIN batch[d][t].det,
                           pc[d][t] # "det" \/ n < pos[d][t] + 1
                    PROVE  batch[d][t].det[n].tx \in Committed(d)'
        BY <1>1, <2>3, <3>3 DEF Done
      <4>1. DOMAIN batch[d][t].det = 1 .. Len(batch[d][t].det) /\ Len(batch[d][t].det) \in Nat
        BY SeqDomain DEF IInv, Types
      <4>2. CASE pc[d][t] # "det" \/ n < pos[d][t]
        BY <2>1, <3>1, <3>3, <4>2 DEF Done
      <4>3. CASE pc[d][t] = "det" /\ n = pos[d][t]
        BY <2>2, <4>3
      <4>. QED
        BY <2>3, <4>1, <4>2, <4>3
    <3>. QED
      BY <3>2, <3>3
  <2>6. PhaseInv'
    BY <1>1, <2>5 DEF IInv, PhaseInv, Idle, Beyond
  <2>. QED
    BY <2>4, <2>6 DEF IInv
<1>. QED
  BY <1>2, <1>3 DEF Attempt

\* Tasklets run only in a round.
LEMMA Running ==
  ASSUME IInv, NEW d \in Dpu, NEW t \in Tasklet, pc[d][t] # "done"
  PROVE  host[d] = "run"
BY DEF IInv, PhaseInv, Idle

LEMMA DetDoneStep ==
  ASSUME IInv, NEW d \in Dpu, NEW t \in Tasklet, DetDone(d, t)
  PROVE  IInv'
<1>1. /\ pc[d][t] = "det" /\ pos[d][t] > Len(batch[d][t].det)
      /\ pc' = [pc EXCEPT ![d][t] = "barrier"] /\ UNCHANGED <<batch, host, pos, log>>
  BY DEF DetDone, Goto, batchVars
<1>2. Types'
  BY <1>1 DEF IInv, Types
<1>3. /\ pc'[d][t] = "barrier"
      /\ \A e \in Dpu, u \in Tasklet : e # d \/ u # t => pc'[e][u] = pc[e][u]
  BY <1>1 DEF IInv, Types
<1>4. host[d] = "run"
  BY <1>1, Running
<1>5. \A n \in DOMAIN batch[d][t].det : n < pos[d][t]
  <2>1. /\ DOMAIN batch[d][t].det = 1 .. Len(batch[d][t].det) /\ Len(batch[d][t].det) \in Nat
        /\ pos[d][t] \in Nat
    BY SeqDomain DEF IInv, Types
  <2>. QED
    BY <1>1, <2>1
<1>6. ASSUME NEW e \in Dpu PROVE (Idle(e) /\ Beyond(e))'
  <2>1. Idle(e) /\ Beyond(e)
    BY DEF IInv, PhaseInv
  <2>. QED
    BY <1>1, <1>3, <1>4, <2>1 DEF Idle, Beyond
<1>7. ASSUME NEW e \in Dpu, host[e] = "run", NEW u \in Tasklet PROVE Done(e, u)'
  <2>1. Done(e, u)
    BY <1>7 DEF IInv, PhaseInv
  <2>. QED
    BY <1>1, <1>3, <1>5, <2>1 DEF Done, Committed
<1>8. PhaseInv'
  BY <1>1, <1>6, <1>7 DEF PhaseInv
<1>. QED
  BY <1>2, <1>8 DEF IInv

LEMMA OpenBarrierStep ==
  ASSUME IInv, NEW d \in Dpu, OpenBarrier(d)
  PROVE  IInv'
<1>1. /\ \A t \in Tasklet : pc[d][t] = "barrier"
      /\ pc' = [pc EXCEPT ![d] = [t \in Tasklet |-> "opt"]]
      /\ pos' = [pos EXCEPT ![d] = [t \in Tasklet |-> 1]]
      /\ UNCHANGED <<batch, host, log>>
  BY DEF OpenBarrier, Together, batchVars
<1>2. Types'
  BY <1>1 DEF IInv, Types
<1>3. /\ \A t \in Tasklet : pc'[d][t] = "opt"
      /\ \A e \in Dpu \ {d} : pc'[e] = pc[e] /\ pos'[e] = pos[e]
  BY <1>1 DEF IInv, Types
<1>4. ASSUME NEW e \in Dpu PROVE (Idle(e) /\ Beyond(e))'
  <2>1. Idle(e) /\ Beyond(e)
    BY DEF IInv, PhaseInv
  <2>. QED
    BY <1>1, <1>3, <2>1 DEF Idle, Beyond
<1>5. ASSUME NEW e \in Dpu, host[e] = "run", NEW u \in Tasklet PROVE Done(e, u)'
  <2>1. Done(e, u)
    BY <1>5 DEF IInv, PhaseInv
  <2>. QED
    BY <1>1, <1>3, <2>1 DEF Done, Committed
<1>6. PhaseInv'
  BY <1>1, <1>4, <1>5 DEF PhaseInv
<1>. QED
  BY <1>2, <1>6 DEF IInv

LEMMA OptDoneStep ==
  ASSUME IInv, NEW d \in Dpu, NEW t \in Tasklet, OptDone(d, t)
  PROVE  IInv'
<1>1. /\ pc[d][t] = "opt" /\ pc' = [pc EXCEPT ![d][t] = "done"]
      /\ UNCHANGED <<batch, host, pos, log>>
  BY DEF OptDone, Goto, batchVars
<1>2. Types'
  BY <1>1 DEF IInv, Types
<1>3. /\ pc'[d][t] = "done"
      /\ \A e \in Dpu, u \in Tasklet : e # d \/ u # t => pc'[e][u] = pc[e][u]
  BY <1>1 DEF IInv, Types
<1>4. ASSUME NEW e \in Dpu PROVE (Idle(e) /\ Beyond(e))'
  <2>1. Idle(e) /\ Beyond(e)
    BY DEF IInv, PhaseInv
  <2>. QED
    BY <1>1, <1>3, <2>1 DEF Idle, Beyond
<1>5. ASSUME NEW e \in Dpu, host[e] = "run", NEW u \in Tasklet PROVE Done(e, u)'
  <2>1. Done(e, u)
    BY <1>5 DEF IInv, PhaseInv
  <2>. QED
    BY <1>1, <1>3, <2>1 DEF Done, Committed
<1>6. PhaseInv'
  BY <1>1, <1>4, <1>5 DEF PhaseInv
<1>. QED
  BY <1>2, <1>6 DEF IInv

LEMMA TaskletKeeps ==
  ASSUME IInv, NEW d \in Dpu, NEW t \in Tasklet, TaskletStep(d, t)
  PROVE  IInv'
<1>1. CASE Deterministic(d, t)
  BY <1>1, AttemptStep DEF Deterministic
<1>2. CASE DetDone(d, t)
  BY <1>2, DetDoneStep
<1>3. CASE OptimisticOne(d, t)
  BY <1>3, AttemptStep DEF OptimisticOne
<1>4. CASE OptDone(d, t)
  BY <1>4, OptDoneStep
<1>. QED
  BY <1>1, <1>2, <1>3, <1>4 DEF TaskletStep

LEMMA Stutter ==
  ASSUME IInv, UNCHANGED vars
  PROVE  IInv'
BY DEF IInv, Types, PhaseInv, Idle, Beyond, Done, Committed, vars, batchVars, dpuVars

------------------------------------------------------------------------------

LEMMA PhasesNext ==
  ASSUME IInv, [Next]_vars
  PROVE  IInv'
<1>1. CASE HostStep
  <2>1. ASSUME NEW d \in Dpu, Begin(d) \/ BuildTake(d) \/ Built(d) PROVE IInv'
    BY <2>1, BeginStep, TakeStep, BuiltStep
  <2>. QED
    BY <1>1, <2>1, LaunchStep, ReturnStep DEF HostStep
<1>2. ASSUME NEW d \in Dpu, OpenBarrier(d) PROVE IInv'
  BY <1>2, OpenBarrierStep
<1>3. ASSUME NEW d \in Dpu, NEW t \in Tasklet, TaskletStep(d, t) PROVE IInv'
  BY <1>3, TaskletKeeps
<1>4. CASE Terminating \/ UNCHANGED vars
  BY <1>4, Stutter DEF Terminating
<1>. QED
  BY <1>1, <1>2, <1>3, <1>4 DEF Next

(* A DPU runs no optimistic transaction of a round before every             *)
(* deterministic one of that round has committed there (scheduler.c:30-60), *)
(* however many tasklets share the batch and however often attempts fail.   *)
THEOREM PhasesSeparated == Spec => []PhasesApart
<1>1. ASSUME IInv PROVE PhasesApart
  <2>. SUFFICES ASSUME NEW d \in Dpu, NEW t \in Tasklet, pc[d][t] = "opt", NEW u \in Tasklet,
                       NEW n \in DOMAIN batch[d][u].det
                PROVE  batch[d][u].det[n].tx \in Committed(d)
    BY DEF PhasesApart
  <2>1. host[d] = "run"
    BY <1>1, Running
  <2>2. pc[d][u] # "det" /\ Done(d, u)
    BY <1>1, <2>1 DEF IInv, PhaseInv, Beyond
  <2>. QED
    BY <2>2 DEF Done
<1>. QED
  BY <1>1, PhasesNext, InitPhases, PTL DEF Spec

------------------------------------------------------------------------------
(* The clock of a DPU *)

\* The places of a batch: a tasklet, one of its two lists, a position in it.
Place == Tasklet \X {"det", "opt"} \X Nat

\* Whether what is in a place has yet to be committed, in a round.
Pending(d, t, kind, n) ==
  IF kind = "det" THEN pc[d][t] = "det" /\ n >= pos[d][t]
                  ELSE pc[d][t] \in {"det", "barrier"} \/ (pc[d][t] = "opt" /\ n >= pos[d][t])

\* The places of what the host has taken from the queue of a DPU and the DPU has
\* yet to commit.
Left(d) ==
  {p \in Place : /\ host[d] # "begin" /\ p[3] \in DOMAIN batch[d][p[1]][p[2]]
                 /\ host[d] = "run" => Pending(d, p[1], p[2], p[3])}

\* The clock has counted what is taken except what is left, and the failures.
Tally(d) == IsFiniteSet(Left(d)) /\ clock[d] + Cardinality(Left(d)) = dpu_ts[d] + fails[d]

Counters ==
  /\ clock \in [Dpu -> Nat] /\ fails \in [Dpu -> Nat] /\ dpu_ts \in [Dpu -> Nat]
  /\ turn \in [Dpu -> [thread : Tasklet, prev : Nat]]
  /\ pos \in [Dpu -> [Tasklet -> Nat \ {0}]]
  /\ \A d \in Dpu, t \in Tasklet : IsSeq(batch[d][t].opt)

CInv == IInv /\ Counters /\ \A d \in Dpu : Tally(d)

\* What the count of a DPU depends on.
DpuView(d) == <<host[d], batch[d], pc[d], pos[d], clock[d], fails[d], dpu_ts[d]>>

LEMMA TallySame ==
  ASSUME NEW d \in Dpu, Tally(d), UNCHANGED DpuView(d)
  PROVE  Tally(d)'
<1>1. /\ host'[d] = host[d] /\ batch'[d] = batch[d] /\ pc'[d] = pc[d] /\ pos'[d] = pos[d]
      /\ clock'[d] = clock[d] /\ fails'[d] = fails[d] /\ dpu_ts'[d] = dpu_ts[d]
  BY DEF DpuView
<1>2. Left(d)' = Left(d)
  BY <1>1 DEF Left, Pending
<1>. QED
  BY <1>1, <1>2 DEF Tally

\* The count goes on when nothing moves and the places left are the same.
LEMMA TallyKept ==
  ASSUME NEW d \in Dpu, Tally(d), clock'[d] = clock[d], fails'[d] = fails[d],
         dpu_ts'[d] = dpu_ts[d], Left(d)' = Left(d)
  PROVE  Tally(d)'
BY DEF Tally

\* Something is taken.
LEMMA TallyTaken ==
  ASSUME NEW d \in Dpu, Tally(d), NEW p, p \notin Left(d), Left(d)' = Left(d) \cup {p},
         clock[d] \in Nat, dpu_ts[d] \in Nat, fails[d] \in Nat,
         clock'[d] = clock[d], fails'[d] = fails[d], dpu_ts'[d] = dpu_ts[d] + 1
  PROVE  Tally(d)'
<1>1. /\ IsFiniteSet(Left(d) \cup {p})
      /\ Cardinality(Left(d) \cup {p}) = Cardinality(Left(d)) + 1
      /\ Cardinality(Left(d)) \in Nat
  BY FS_AddElement, FS_CardinalityType DEF Tally
<1>. QED
  BY <1>1 DEF Tally

\* Something is committed.
LEMMA TallyDone ==
  ASSUME NEW d \in Dpu, Tally(d), NEW p, p \in Left(d), Left(d)' = Left(d) \ {p},
         clock[d] \in Nat, dpu_ts[d] \in Nat, fails[d] \in Nat,
         clock'[d] = clock[d] + 1, fails'[d] = fails[d], dpu_ts'[d] = dpu_ts[d]
  PROVE  Tally(d)'
<1>1. /\ IsFiniteSet(Left(d) \ {p})
      /\ Cardinality(Left(d) \ {p}) = Cardinality(Left(d)) - 1
      /\ Cardinality(Left(d)) \in Nat
  BY FS_RemoveElement, FS_CardinalityType DEF Tally
<1>. QED
  BY <1>1 DEF Tally

\* An attempt fails.
LEMMA TallyFailed ==
  ASSUME NEW d \in Dpu, Tally(d), Left(d)' = Left(d),
         clock[d] \in Nat, dpu_ts[d] \in Nat, fails[d] \in Nat,
         clock'[d] = clock[d] + 1, fails'[d] = fails[d] + 1, dpu_ts'[d] = dpu_ts[d]
  PROVE  Tally(d)'
<1>1. Cardinality(Left(d)) \in Nat
  BY FS_CardinalityType DEF Tally
<1>. QED
  BY <1>1 DEF Tally

LEMMA PrependSeq ==
  ASSUME NEW s, IsSeq(s), NEW e
  PROVE  IsSeq(<<e>> \o s) /\ Len(<<e>> \o s) = Len(s) + 1
<1>. DEFINE S == ToSet(s) \cup {e}
<1>1. s \in Seq(S) /\ e \in S
  BY SeqMonotonic DEF IsSeq
<1>. HIDE DEF S
<1>2. <<e>> \in Seq(S) /\ Len(<<e>>) = 1
  BY <1>1
<1>3. /\ <<e>> \o s \in Seq(S)
      /\ Len(<<e>> \o s) = Len(s) + 1
  BY <1>1, <1>2, ConcatProperties, LenProperties
<1>4. \A q : q \in Seq(S) => IsSeq(q)
  <2>. SUFFICES ASSUME NEW q \in Seq(S) PROVE q \in Seq(ToSet(q))
    BY DEF IsSeq
  <2>1. DOMAIN q = 1 .. Len(q) /\ Len(q) \in Nat /\ q \in [1 .. Len(q) -> S]
    BY LenProperties
  <2>2. q \in [1 .. Len(q) -> ToSet(q)]
    BY <2>1 DEF ToSet
  <2>. QED
    BY <2>1, <2>2, SeqDef
<1>. QED
  BY <1>3, <1>4

LEMMA InitCounts == Init => CInv
<1>. SUFFICES ASSUME Init PROVE CInv
  OBVIOUS
<1>1. IInv
  BY InitPhases
<1>2. Counters
  BY HostAssumption, EmptyIsSeq DEF Init, BatchInit, NoSubTxs, Counters, Tasklet
<1>3. ASSUME NEW d \in Dpu PROVE Tally(d)
  <2>1. host[d] = "begin" /\ clock[d] = 0 /\ dpu_ts[d] = 0 /\ fails[d] = 0
    BY DEF Init, BatchInit
  <2>2. Left(d) = {}
    BY <2>1 DEF Left
  <2>. QED
    BY <2>1, <2>2, FS_EmptySet DEF Tally
<1>. QED
  BY <1>1, <1>2, <1>3 DEF CInv

\* The other DPUs' counts are not concerned.
LEMMA Others ==
  ASSUME CInv, NEW d \in Dpu,
         \A e \in Dpu \ {d} : UNCHANGED DpuView(e),
         IInv', Counters', Tally(d)'
  PROVE  CInv'
<1>1. ASSUME NEW e \in Dpu PROVE Tally(e)'
  <2>1. CASE e = d
    BY <2>1
  <2>2. CASE e # d
    BY <2>2, TallySame DEF CInv
  <2>. QED
    BY <2>1, <2>2
<1>. QED
  BY <1>1 DEF CInv

LEMMA BeginCounts ==
  ASSUME CInv, NEW d \in Dpu, Begin(d), IInv'
  PROVE  CInv'
<1>1. /\ host[d] = "begin" /\ host' = [host EXCEPT ![d] = "take"]
      /\ batch' = [batch EXCEPT ![d] = [t \in Tasklet |-> NoSubTxs]]
      /\ turn' = [turn EXCEPT ![d] = [thread |-> 0, prev |-> dpu_ts[d]]]
      /\ UNCHANGED <<pc, pos, clock, fails, dpu_ts>>
  BY DEF Begin, BeginBatch, dpuVars
<1>2. 0 \in Tasklet /\ dpu_ts[d] \in Nat
  BY HostAssumption DEF Tasklet, CInv, Counters
<1>3. batch'[d] = [t \in Tasklet |-> NoSubTxs] /\ \A e \in Dpu \ {d} : batch'[e] = batch[e]
  BY <1>1 DEF CInv, IInv, Types
<1>4. host'[d] = "take" /\ \A e \in Dpu \ {d} : host'[e] = host[e]
  BY <1>1 DEF CInv, IInv, Types
<1>5. turn' \in [Dpu -> [thread : Tasklet, prev : Nat]]
  BY <1>1, <1>2 DEF CInv, Counters
<1>6. ASSUME NEW e \in Dpu, NEW t \in Tasklet PROVE IsSeq(batch'[e][t].opt)
  <2>1. CASE e = d
    <3>1. NoSubTxs.opt = <<>>
      BY DEF NoSubTxs
    <3>. QED
      BY <1>3, <2>1, <3>1, EmptyIsSeq
  <2>2. CASE e # d
    BY <1>3, <2>2 DEF CInv, Counters
  <2>. QED
    BY <2>1, <2>2
<1>7. Counters'
  BY <1>1, <1>5, <1>6 DEF CInv, Counters
<1>8. Left(d)' = Left(d)
  <2>1. Left(d) = {}
    BY <1>1 DEF Left
  <2>2. ASSUME NEW p \in Place PROVE p[3] \notin DOMAIN batch'[d][p[1]][p[2]]
    <3>1. p[1] \in Tasklet /\ p[2] \in {"det", "opt"}
      BY DEF Place
    <3>2. batch'[d][p[1]][p[2]] = <<>>
      BY <1>3, <3>1 DEF NoSubTxs
    <3>. QED
      BY <3>2, EmptySeq
  <2>. QED
    BY <2>1, <2>2 DEF Left
<1>9. Tally(d)'
  BY <1>1, <1>8, TallyKept DEF CInv
<1>. QED
  BY <1>1, <1>3, <1>4, <1>7, <1>9, Others DEF DpuView

LEMMA TakeCounts ==
  ASSUME CInv, NEW d \in Dpu, BuildTake(d), IInv'
  PROVE  CInv'
<1>. DEFINE tx     == Head(queue[d])
            thread == turn[d].thread
            ts     == turn[d].prev + Position(thread, Len(batch[d][thread].det))
            old    == batch[d][thread]
            new    == Stored(old, tx, ts)
            kind   == IF Optimistic(tx) THEN "opt" ELSE "det"
            p      == <<thread, kind, Len(old[kind]) + 1>>
<1>1. /\ host[d] = "take" /\ UNCHANGED <<host, pc, pos, clock, fails>>
      /\ batch' = [batch EXCEPT ![d][thread] = new]
      /\ dpu_ts' = [dpu_ts EXCEPT ![d] = @ + 1]
      /\ turn' = [turn EXCEPT ![d].thread = (@ + 1) % NR_TASKLETS]
  BY DEF BuildTake, Take, Counts, dpuVars
<1>2. /\ thread \in Tasklet /\ (thread + 1) % NR_TASKLETS \in Tasklet
      /\ clock[d] \in Nat /\ dpu_ts[d] \in Nat /\ fails[d] \in Nat
  BY HostAssumption DEF Tasklet, CInv, Counters
<1>3. /\ DOMAIN old = {"det", "opt"} /\ IsSeq(old.det) /\ IsSeq(old.opt)
      /\ DOMAIN batch = Dpu /\ DOMAIN batch[d] = Tasklet
  BY <1>2 DEF CInv, IInv, Types, Counters
<1>4. /\ DOMAIN new = {"det", "opt"} /\ IsSeq(new.det) /\ IsSeq(new.opt)
      /\ DOMAIN new[kind] = 1 .. Len(old[kind]) + 1
      /\ \A k \in {"det", "opt"} \ {kind} : DOMAIN new[k] = DOMAIN old[k]
  <2>1. CASE Optimistic(tx)
    <3>. DEFINE longer == <<[tx |-> tx, ts |-> 0]>> \o old.opt
    <3>1. IsSeq(longer) /\ Len(longer) = Len(old.opt) + 1
      BY <1>3, PrependSeq
    <3>2. DOMAIN longer = 1 .. Len(old.opt) + 1
      BY <3>1, SeqDomain
    <3>3. new = [old EXCEPT !.opt = longer]
      BY <2>1 DEF Stored
    <3>. HIDE DEF longer, new, old
    <3>. QED
      BY <1>3, <2>1, <3>1, <3>2, <3>3
  <2>2. CASE ~ Optimistic(tx)
    <3>. DEFINE longer == Append(old.det, [tx |-> tx, ts |-> ts])
    <3>1. IsSeq(longer) /\ Len(longer) = Len(old.det) + 1
      BY <1>3, AppendSeq, AppendProperties DEF IsSeq
    <3>2. DOMAIN longer = 1 .. Len(old.det) + 1
      BY <3>1, SeqDomain
    <3>3. new = [old EXCEPT !.det = longer]
      BY <2>2 DEF Stored
    <3>. HIDE DEF longer, new, old
    <3>. QED
      BY <1>3, <2>2, <3>1, <3>2, <3>3
  <2>. QED
    BY <2>1, <2>2
<1>5. DOMAIN old[kind] = 1 .. Len(old[kind]) /\ Len(old[kind]) \in Nat
  BY <1>3, SeqDomain
<1>. HIDE DEF tx, ts, old, new, kind
<1>6. /\ batch'[d][thread] = new /\ \A t \in Tasklet \ {thread} : batch'[d][t] = batch[d][t]
      /\ \A e \in Dpu \ {d} : batch'[e] = batch[e]
  BY <1>1, <1>2, <1>3
<1>7. kind \in {"det", "opt"} /\ batch[d][thread] = old
  BY DEF kind, old
<1>8. Counters'
  <2>1. turn' \in [Dpu -> [thread : Tasklet, prev : Nat]]
    BY <1>1, <1>2 DEF CInv, Counters
  <2>2. ASSUME NEW e \in Dpu, NEW t \in Tasklet PROVE IsSeq(batch'[e][t].opt)
    BY <1>4, <1>6 DEF CInv, Counters
  <2>. QED
    BY <1>1, <2>1, <2>2 DEF CInv, Counters
<1>9. p \in Place /\ p \notin Left(d) /\ Left(d)' = Left(d) \cup {p}
  <2>1. p \in Place
    BY <1>2, <1>5, <1>7 DEF Place
  <2>2. p \notin Left(d)
    BY <1>5, <1>7 DEF Left
  <2>3. ASSUME NEW q \in Place
        PROVE  q[3] \in DOMAIN batch'[d][q[1]][q[2]] <=> q[3] \in DOMAIN batch[d][q[1]][q[2]] \/ q = p
    <3>1. /\ q = <<q[1], q[2], q[3]>> /\ q[1] \in Tasklet /\ q[2] \in {"det", "opt"}
          /\ q[3] \in Nat
      BY DEF Place
    <3>2. CASE q[1] # thread
      BY <1>6, <3>1, <3>2
    <3>3. CASE q[1] = thread /\ q[2] # kind
      BY <1>4, <1>6, <1>7, <3>1, <3>3
    <3>4. CASE q[1] = thread /\ q[2] = kind
      BY <1>4, <1>5, <1>6, <1>7, <3>1, <3>4
    <3>. QED
      BY <3>2, <3>3, <3>4
  <2>4. host'[d] = "take" /\ host[d] = "take"
    BY <1>1
  <2>. QED
    BY <2>1, <2>2, <2>3, <2>4 DEF Left
<1>10. /\ clock'[d] = clock[d] /\ fails'[d] = fails[d] /\ dpu_ts'[d] = dpu_ts[d] + 1
       /\ \A e \in Dpu \ {d} : dpu_ts'[e] = dpu_ts[e]
  BY <1>1 DEF CInv, Counters
<1>11. Tally(d)'
  <2>. HIDE DEF p
  <2>. QED
    BY <1>2, <1>9, <1>10, TallyTaken DEF CInv
<1>. QED
  BY <1>1, <1>6, <1>8, <1>10, <1>11, Others DEF DpuView

LEMMA BuiltCounts ==
  ASSUME CInv, NEW d \in Dpu, Built(d), IInv'
  PROVE  CInv'
<1>1. /\ host[d] = "take" /\ host' = [host EXCEPT ![d] = "ready"]
      /\ UNCHANGED <<batch, turn, dpu_ts, pc, pos, clock, fails>>
  BY DEF Built, batchVars, dpuVars
<1>2. host'[d] = "ready" /\ \A e \in Dpu \ {d} : host'[e] = host[e]
  BY <1>1 DEF CInv, IInv, Types
<1>3. Counters'
  BY <1>1 DEF CInv, Counters
<1>4. Left(d)' = Left(d)
  BY <1>1, <1>2 DEF Left
<1>5. Tally(d)'
  BY <1>1, <1>4, TallyKept DEF CInv
<1>. QED
  BY <1>1, <1>2, <1>3, <1>5, Others DEF DpuView

\* A step of the host that leaves the places alone on all DPUs.
LEMMA AllCounts ==
  ASSUME CInv, IInv', UNCHANGED <<batch, turn, dpu_ts, clock, fails>>,
         pos' \in [Dpu -> [Tasklet -> Nat \ {0}]],
         \A d \in Dpu : Left(d)' = Left(d)
  PROVE  CInv'
<1>1. Counters'
  BY DEF CInv, Counters
<1>2. ASSUME NEW d \in Dpu PROVE Tally(d)'
  BY TallyKept DEF CInv
<1>. QED
  BY <1>1, <1>2 DEF CInv

LEMMA LaunchCounts ==
  ASSUME CInv, Launch, IInv'
  PROVE  CInv'
<1>1. /\ \A d \in Dpu : host[d] = "ready"
      /\ host' = [d \in Dpu |-> "run"]
      /\ pc' = [d \in Dpu |-> [t \in Tasklet |-> "det"]]
      /\ pos' = [d \in Dpu |-> [t \in Tasklet |-> 1]]
      /\ UNCHANGED <<batch, turn, dpu_ts, clock, fails>>
  BY DEF Launch, batchVars
<1>2. ASSUME NEW d \in Dpu PROVE Left(d)' = Left(d)
  <2>1. ASSUME NEW p \in Place, p[3] \in DOMAIN batch[d][p[1]][p[2]]
        PROVE  Pending(d, p[1], p[2], p[3])'
    <3>1. p[1] \in Tasklet /\ p[2] \in {"det", "opt"} /\ p[3] \in Nat
      BY DEF Place
    <3>2. DOMAIN batch[d][p[1]][p[2]] = 1 .. Len(batch[d][p[1]][p[2]])
      BY <3>1, SeqDomain DEF CInv, IInv, Types, Counters
    <3>3. pc'[d][p[1]] = "det" /\ pos'[d][p[1]] = 1
      BY <1>1, <3>1
    <3>4. p[3] >= 1
      BY <2>1, <3>1, <3>2
    <3>. QED
      BY <3>3, <3>4 DEF Pending
  <2>2. host[d] = "ready" /\ host'[d] = "run" /\ batch' = batch
    BY <1>1
  <2>. QED
    BY <2>1, <2>2 DEF Left
<1>3. pos' \in [Dpu -> [Tasklet -> Nat \ {0}]]
  BY <1>1
<1>. QED
  BY <1>1, <1>2, <1>3, AllCounts

LEMMA ReturnCounts ==
  ASSUME CInv, Return, IInv'
  PROVE  CInv'
<1>1. /\ \A d \in Dpu : host[d] = "run" /\ \A t \in Tasklet : pc[d][t] = "done"
      /\ host' = [d \in Dpu |-> "begin"]
      /\ UNCHANGED <<batch, turn, dpu_ts, clock, fails, pos>>
  BY DEF Return, batchVars, dpuVars
<1>2. ASSUME NEW d \in Dpu PROVE Left(d)' = Left(d)
  <2>1. Left(d)' = {}
    BY <1>1 DEF Left
  <2>2. Left(d) = {}
    BY <1>1 DEF Left, Pending, Place
  <2>. QED
    BY <2>1, <2>2
<1>. QED
  BY <1>1, <1>2, AllCounts DEF CInv, Counters

\* What an attempt of tasklet t does to the count: it commits place p or fails.
LEMMA AttemptCounts ==
  ASSUME CInv, NEW d \in Dpu, NEW t \in Tasklet, NEW kind \in {"det", "opt"}, NEW sub,
         pc[d][t] = kind, pos[d][t] <= Len(batch[d][t][kind]), Attempt(d, t, sub), IInv'
  PROVE  CInv'
<1>. DEFINE p == <<t, kind, pos[d][t]>>
<1>1. /\ UNCHANGED <<batch, turn, dpu_ts, host, pc>>
      /\ clock' = [clock EXCEPT ![d] = @ + 1]
  BY DEF Attempt, batchVars
<1>2. /\ clock \in [Dpu -> Nat] /\ fails \in [Dpu -> Nat] /\ dpu_ts \in [Dpu -> Nat]
      /\ pos \in [Dpu -> [Tasklet -> Nat \ {0}]] /\ Tally(d)
  BY DEF CInv, Counters
<1>3. /\ clock'[d] = clock[d] + 1 /\ dpu_ts'[d] = dpu_ts[d]
      /\ \A e \in Dpu \ {d} : clock'[e] = clock[e]
  BY <1>1, <1>2
<1>4. host[d] = "run"
  BY Running DEF CInv
<1>5. CASE UNCHANGED <<log, pos>> /\ fails' = [fails EXCEPT ![d] = @ + 1]
  <2>1. fails' \in [Dpu -> Nat] /\ clock' \in [Dpu -> Nat] /\ fails'[d] = fails[d] + 1
    BY <1>1, <1>2, <1>5
  <2>2. Counters'
    BY <1>1, <1>5, <2>1 DEF CInv, Counters
  <2>3. Left(d)' = Left(d)
    BY <1>1, <1>5 DEF Left, Pending
  <2>4. Tally(d)'
    BY <1>2, <1>3, <2>1, <2>3, TallyFailed
  <2>. QED
    BY <1>1, <1>2, <1>3, <1>5, <2>2, <2>4, Others DEF DpuView
<1>6. CASE pos' = [pos EXCEPT ![d][t] = @ + 1] /\ fails' = fails
  <2>1. /\ pos'[d][t] = pos[d][t] + 1
        /\ \A u \in Tasklet \ {t} : pos'[d][u] = pos[d][u]
        /\ \A e \in Dpu \ {d} : pos'[e] = pos[e]
    BY <1>2, <1>6
  <2>2. clock' \in [Dpu -> Nat] /\ pos' \in [Dpu -> [Tasklet -> Nat \ {0}]]
    BY <1>1, <1>2, <1>6
  <2>3. Counters'
    BY <1>1, <1>6, <2>2 DEF CInv, Counters
  <2>4. ASSUME NEW q \in Place, q[3] \in DOMAIN batch[d][q[1]][q[2]]
        PROVE  Pending(d, q[1], q[2], q[3])' <=> Pending(d, q[1], q[2], q[3]) /\ q # p
    <3>1. /\ q = <<q[1], q[2], q[3]>> /\ q[1] \in Tasklet /\ q[2] \in {"det", "opt"}
          /\ q[3] \in Nat
      BY DEF Place
    <3>2. pc' = pc /\ pos[d][t] \in Nat
      BY <1>1, <1>2
    <3>3. CASE q[1] # t
      BY <2>1, <3>1, <3>2, <3>3 DEF Pending
    <3>4. CASE q[1] = t /\ q[2] # kind
      BY <2>1, <3>1, <3>2, <3>4 DEF Pending
    <3>5. CASE q[1] = t /\ q[2] = kind
      <4>1. q = p <=> q[3] = pos[d][t]
        BY <3>1, <3>5
      <4>2. Pending(d, q[1], q[2], q[3]) <=> q[3] >= pos[d][t]
        BY <3>5 DEF Pending
      <4>3. Pending(d, q[1], q[2], q[3])' <=> q[3] >= pos[d][t] + 1
        BY <2>1, <3>2, <3>5 DEF Pending
      <4>. QED
        BY <3>1, <3>2, <4>1, <4>2, <4>3
    <3>. QED
      BY <3>3, <3>4, <3>5
  <2>5. p \in Left(d)
    <3>1. DOMAIN batch[d][t][kind] = 1 .. Len(batch[d][t][kind])
      BY SeqDomain DEF CInv, IInv, Types, Counters
    <3>2. pos[d][t] \in Nat /\ pos[d][t] >= 1
      BY <1>2
    <3>3. p[3] \in DOMAIN batch[d][p[1]][p[2]] /\ p \in Place
      BY <3>1, <3>2 DEF Place
    <3>4. Pending(d, p[1], p[2], p[3])
      BY <3>2 DEF Pending
    <3>. QED
      BY <1>4, <3>3, <3>4 DEF Left
  <2>6. Left(d)' = Left(d) \ {p}
    BY <1>1, <1>4, <2>4 DEF Left
  <2>7. Tally(d)'
    <3>. HIDE DEF p
    <3>. QED
      BY <1>2, <1>3, <1>6, <2>5, <2>6, TallyDone
  <2>. QED
    BY <1>1, <1>3, <1>6, <2>1, <2>3, <2>7, Others DEF DpuView
<1>. QED
  BY <1>5, <1>6 DEF Attempt

\* A tasklet moves on without an attempt.
LEMMA MoveCounts ==
  ASSUME CInv, NEW d \in Dpu, IInv',
         UNCHANGED <<batchVars, host, clock, fails>>,
         pos' \in [Dpu -> [Tasklet -> Nat \ {0}]],
         \A e \in Dpu \ {d} : pc'[e] = pc[e] /\ pos'[e] = pos[e],
         \A t \in Tasklet, kind \in {"det", "opt"} : \A n \in 1 .. Len(batch[d][t][kind]) :
           Pending(d, t, kind, n)' <=> Pending(d, t, kind, n)
  PROVE  CInv'
<1>1. UNCHANGED <<batch, turn, dpu_ts, host, clock, fails>>
  BY DEF batchVars
<1>2. Counters'
  BY <1>1 DEF CInv, Counters
<1>3. ASSUME NEW q \in Place, q[3] \in DOMAIN batch[d][q[1]][q[2]]
      PROVE  Pending(d, q[1], q[2], q[3])' <=> Pending(d, q[1], q[2], q[3])
  <2>1. q[1] \in Tasklet /\ q[2] \in {"det", "opt"}
    BY DEF Place
  <2>2. DOMAIN batch[d][q[1]][q[2]] = 1 .. Len(batch[d][q[1]][q[2]])
    BY <2>1, SeqDomain DEF CInv, IInv, Types, Counters
  <2>. QED
    BY <1>3, <2>1, <2>2
<1>4. Left(d)' = Left(d)
  BY <1>1, <1>3 DEF Left
<1>5. Tally(d)'
  BY <1>1, <1>4, TallyKept DEF CInv
<1>. QED
  BY <1>1, <1>2, <1>5, Others DEF DpuView

LEMMA DetDoneCounts ==
  ASSUME CInv, NEW d \in Dpu, NEW t \in Tasklet, DetDone(d, t), IInv'
  PROVE  CInv'
<1>1. /\ pc[d][t] = "det" /\ pos[d][t] > Len(batch[d][t].det)
      /\ pc' = [pc EXCEPT ![d][t] = "barrier"] /\ UNCHANGED <<batchVars, host, pos, clock, fails>>
  BY DEF DetDone, Goto
<1>2. /\ pos' \in [Dpu -> [Tasklet -> Nat \ {0}]]
      /\ pc \in [Dpu -> [Tasklet -> {"det", "barrier", "opt", "done"}]]
  BY <1>1 DEF CInv, IInv, Types, Counters
<1>3. /\ pc'[d][t] = "barrier" /\ \A u \in Tasklet \ {t} : pc'[d][u] = pc[d][u]
      /\ \A e \in Dpu \ {d} : pc'[e] = pc[e]
  BY <1>1, <1>2
<1>4. ASSUME NEW u \in Tasklet, NEW kind \in {"det", "opt"}, NEW n \in 1 .. Len(batch[d][u][kind])
      PROVE  Pending(d, u, kind, n)' <=> Pending(d, u, kind, n)
  <2>1. CASE u = t /\ kind = "det"
    <3>1. Len(batch[d][t].det) \in Nat /\ pos[d][t] \in Nat
      BY SeqDomain DEF CInv, IInv, Types
    <3>. QED
      BY <1>1, <1>3, <2>1, <3>1 DEF Pending
  <2>2. CASE u = t /\ kind = "opt"
    BY <1>1, <1>3, <2>2 DEF Pending
  <2>3. CASE u # t
    BY <1>1, <1>3, <2>3 DEF Pending
  <2>. QED
    BY <2>1, <2>2, <2>3
<1>. QED
  BY <1>1, <1>2, <1>3, <1>4, MoveCounts

LEMMA OpenBarrierCounts ==
  ASSUME CInv, NEW d \in Dpu, OpenBarrier(d), IInv'
  PROVE  CInv'
<1>1. /\ \A t \in Tasklet : pc[d][t] = "barrier"
      /\ pc' = [pc EXCEPT ![d] = [t \in Tasklet |-> "opt"]]
      /\ pos' = [pos EXCEPT ![d] = [t \in Tasklet |-> 1]]
      /\ UNCHANGED <<batchVars, host, clock, fails>>
  BY DEF OpenBarrier, Together
<1>2. /\ pos' \in [Dpu -> [Tasklet -> Nat \ {0}]]
      /\ pc \in [Dpu -> [Tasklet -> {"det", "barrier", "opt", "done"}]]
  BY <1>1 DEF CInv, IInv, Types, Counters
<1>3. /\ \A t \in Tasklet : pc'[d][t] = "opt" /\ pos'[d][t] = 1
      /\ \A e \in Dpu \ {d} : pc'[e] = pc[e] /\ pos'[e] = pos[e]
  BY <1>1, <1>2 DEF CInv, IInv, Types
<1>4. ASSUME NEW u \in Tasklet, NEW kind \in {"det", "opt"}, NEW n \in 1 .. Len(batch[d][u][kind])
      PROVE  Pending(d, u, kind, n)' <=> Pending(d, u, kind, n)
  BY <1>1, <1>3 DEF Pending
<1>. QED
  BY <1>1, <1>2, <1>3, <1>4, MoveCounts

LEMMA OptDoneCounts ==
  ASSUME CInv, NEW d \in Dpu, NEW t \in Tasklet, OptDone(d, t), IInv'
  PROVE  CInv'
<1>1. /\ pc[d][t] = "opt" /\ pos[d][t] > Len(batch[d][t].opt)
      /\ pc' = [pc EXCEPT ![d][t] = "done"] /\ UNCHANGED <<batchVars, host, pos, clock, fails>>
  BY DEF OptDone, Goto
<1>2. /\ pos' \in [Dpu -> [Tasklet -> Nat \ {0}]]
      /\ pc \in [Dpu -> [Tasklet -> {"det", "barrier", "opt", "done"}]]
  BY <1>1 DEF CInv, IInv, Types, Counters
<1>3. /\ pc'[d][t] = "done" /\ \A u \in Tasklet \ {t} : pc'[d][u] = pc[d][u]
      /\ \A e \in Dpu \ {d} : pc'[e] = pc[e]
  BY <1>1, <1>2
<1>4. ASSUME NEW u \in Tasklet, NEW kind \in {"det", "opt"}, NEW n \in 1 .. Len(batch[d][u][kind])
      PROVE  Pending(d, u, kind, n)' <=> Pending(d, u, kind, n)
  <2>1. CASE u = t /\ kind = "opt"
    <3>1. Len(batch[d][t].opt) \in Nat /\ pos[d][t] \in Nat
      BY SeqDomain DEF CInv, IInv, Types, Counters
    <3>. QED
      BY <1>1, <1>3, <2>1, <3>1 DEF Pending
  <2>2. CASE u = t /\ kind = "det"
    BY <1>1, <1>3, <2>2 DEF Pending
  <2>3. CASE u # t
    BY <1>1, <1>3, <2>3 DEF Pending
  <2>. QED
    BY <2>1, <2>2, <2>3
<1>. QED
  BY <1>1, <1>2, <1>3, <1>4, MoveCounts

LEMMA CountsNext ==
  ASSUME CInv, [Next]_vars
  PROVE  CInv'
<1>1. IInv'
  BY PhasesNext DEF CInv
<1>2. CASE HostStep
  <2>1. ASSUME NEW d \in Dpu, Begin(d) \/ BuildTake(d) \/ Built(d) PROVE CInv'
    BY <1>1, <2>1, BeginCounts, TakeCounts, BuiltCounts
  <2>. QED
    BY <1>1, <1>2, <2>1, LaunchCounts, ReturnCounts DEF HostStep
<1>3. ASSUME NEW d \in Dpu, OpenBarrier(d) PROVE CInv'
  BY <1>1, <1>3, OpenBarrierCounts
<1>4. ASSUME NEW d \in Dpu, NEW t \in Tasklet, TaskletStep(d, t) PROVE CInv'
  <2>1. CASE Deterministic(d, t)
    BY <1>1, <2>1, AttemptCounts DEF Deterministic
  <2>2. CASE OptimisticOne(d, t)
    BY <1>1, <2>2, AttemptCounts DEF OptimisticOne
  <2>. QED
    BY <1>1, <1>4, <2>1, <2>2, DetDoneCounts, OptDoneCounts DEF TaskletStep
<1>5. CASE Terminating \/ UNCHANGED vars
  <2>1. UNCHANGED <<batch, turn, dpu_ts, host, clock, fails, pc, pos>>
    BY <1>5 DEF Terminating, vars, batchVars, dpuVars
  <2>2. \A d \in Dpu : Left(d)' = Left(d)
    BY <2>1 DEF Left, Pending
  <2>. QED
    BY <1>1, <2>1, <2>2, AllCounts DEF CInv, Counters
<1>. QED
  BY <1>2, <1>3, <1>4, <1>5 DEF Next

(* Host and DPU count the sub-transactions separately, and whenever a round *)
(* begins the clock of the DPU has come to dpu_ts_, and is ahead by the     *)
(* attempts that failed (system.cpp:182, tm.c:464): no attempt is missed or *)
(* counted twice, for every batch, number of tasklets and failures.         *)
THEOREM CountsAgree == Spec => []ClockKeepsUp
<1>1. ASSUME CInv PROVE ClockKeepsUp
  <2>. SUFFICES ASSUME NEW d \in Dpu, host[d] = "begin" PROVE clock[d] = dpu_ts[d] + fails[d]
    BY DEF ClockKeepsUp
  <2>1. Left(d) = {}
    BY DEF Left
  <2>2. Tally(d) /\ clock[d] \in Nat
    BY <1>1 DEF CInv, Counters
  <2>. QED
    BY <2>1, <2>2, FS_EmptySet DEF Tally
<1>. QED
  BY <1>1, CountsNext, InitCounts, PTL DEF Spec

------------------------------------------------------------------------------
(* The queues as exec leaves them *)

\* The part of a set of numbers below one of them.
Below(S, x) == {y \in S : y < x}

LEMMA RanksDiffer ==
  ASSUME NEW S, S \subseteq Nat, IsFiniteSet(S), NEW x \in S, NEW y \in S, x < y
  PROVE  /\ Cardinality(Below(S, x)) \in Nat /\ Cardinality(Below(S, y)) \in Nat
         /\ Cardinality(Below(S, x)) < Cardinality(Below(S, y))
<1>1. IsFiniteSet(Below(S, x)) /\ IsFiniteSet(Below(S, y))
  BY FS_Subset DEF Below
<1>2. /\ x \notin Below(S, x)
      /\ Below(S, x) \cup {x} \subseteq Below(S, y)
  <2>1. ASSUME NEW z \in Below(S, x) \cup {x} PROVE z \in Below(S, y)
    <3>1. x \in Nat /\ y \in Nat /\ z \in S /\ z \in Nat /\ z <= x
      BY DEF Below
    <3>2. z < y
      BY <3>1
    <3>. QED
      BY <3>1, <3>2 DEF Below
  <2>2. ~ (x < x)
    BY x \in Nat
  <2>. QED
    BY <2>1, <2>2 DEF Below
<1>3. Cardinality(Below(S, x) \cup {x}) = Cardinality(Below(S, x)) + 1
  BY <1>1, <1>2, FS_AddElement
<1>4. Cardinality(Below(S, x) \cup {x}) <= Cardinality(Below(S, y))
  BY <1>1, <1>2, FS_Subset
<1>. QED
  BY <1>1, <1>3, <1>4, FS_CardinalityType

\* Every rank below the size of a set is the rank of one of its elements.
LEMMA RankTaken ==
  ASSUME NEW S, S \subseteq Nat, IsFiniteSet(S), NEW n \in 0 .. Cardinality(S) - 1
  PROVE  \E x \in S : Cardinality(Below(S, x)) = n
<1>. DEFINE N    == Cardinality(S)
            rank == [x \in S |-> Cardinality(Below(S, x))]
<1>1. N \in Nat
  BY FS_CardinalityType
<1>2. ASSUME NEW x \in S PROVE rank[x] \in 0 .. N - 1
  <2>1. IsFiniteSet(Below(S, x)) /\ x \notin Below(S, x) /\ Below(S, x) \cup {x} \subseteq S
    BY FS_Subset DEF Below
  <2>2. Cardinality(Below(S, x) \cup {x}) = Cardinality(Below(S, x)) + 1
    BY <2>1, FS_AddElement
  <2>3. Cardinality(Below(S, x) \cup {x}) <= N
    BY <2>1, FS_Subset
  <2>4. Cardinality(Below(S, x)) \in Nat
    BY <2>1, FS_CardinalityType
  <2>. QED
    BY <1>1, <2>2, <2>3, <2>4
<1>3. ASSUME NEW x \in S, NEW y \in S, rank[x] = rank[y] PROVE x = y
  <2>0. /\ Cardinality(Below(S, x)) = Cardinality(Below(S, y))
        /\ Cardinality(Below(S, x)) \in Nat
    BY <1>1, <1>2, <1>3
  <2>1. ASSUME x < y PROVE FALSE
    <3>1. Cardinality(Below(S, x)) < Cardinality(Below(S, y))
      BY <2>1, RanksDiffer
    <3>. QED
      BY <2>0, <3>1
  <2>2. ASSUME y < x PROVE FALSE
    <3>1. Cardinality(Below(S, y)) < Cardinality(Below(S, x))
      BY <2>2, RanksDiffer
    <3>. QED
      BY <2>0, <3>1
  <2>3. x \in Nat /\ y \in Nat
    OBVIOUS
  <2>. QED
    BY <2>1, <2>2, <2>3
<1>4. rank \in Injection(S, 0 .. N - 1)
  BY <1>2, <1>3 DEF Injection, IsInjective
<1>5. IsFiniteSet(0 .. N - 1) /\ Cardinality(0 .. N - 1) = N
  BY <1>1, FS_Interval
<1>6. rank \in Surjection(S, 0 .. N - 1)
  BY <1>4, <1>5, FS_Injection
<1>. QED
  BY <1>6 DEF Surjection

\* The queues begin in the order in which the client generated the transactions.
LEMMA QueueOfAscends ==
  ASSUME txs \in Workloads, NEW d \in Dpu
  PROVE  /\ QueueOf(d) \in Seq(Nat)
         /\ \A m, n \in DOMAIN QueueOf(d) : m < n => QueueOf(d)[m] < QueueOf(d)[n]
<1>. DEFINE due == {tx \in DOMAIN txs : d \in txs[tx]}
            q   == QueueOf(d)
            N   == Cardinality(due)
<1>1. due \subseteq Nat /\ IsFiniteSet(due)
  <2>1. DOMAIN txs = 1 .. Len(txs) /\ Len(txs) \in Nat
    BY HostAssumption, LenProperties
  <2>2. due \subseteq 1 .. Len(txs)
    BY <2>1
  <2>. QED
    <3>1. IsFiniteSet(1 .. Len(txs))
      BY <2>1, FS_Interval
    <3>. QED
      BY <2>1, <2>2, <3>1, FS_Subset
<1>2. N \in Nat
  BY <1>1, FS_CardinalityType
<1>3. q = [n \in 1 .. N |-> CHOOSE tx \in due : Cardinality(Below(due, tx)) = n - 1]
  BY DEF QueueOf, Below
<1>. HIDE DEF due, q
<1>4. ASSUME NEW n \in 1 .. N PROVE q[n] \in due /\ Cardinality(Below(due, q[n])) = n - 1
  <2>1. n - 1 \in 0 .. N - 1
    BY <1>2
  <2>2. \E tx \in due : Cardinality(Below(due, tx)) = n - 1
    BY <1>1, <2>1, RankTaken
  <2>. QED
    BY <1>3, <2>2
<1>5. q \in Seq(Nat) /\ DOMAIN q = 1 .. N
  <2>1. q \in [1 .. N -> Nat]
    BY <1>1, <1>3, <1>4
  <2>. QED
    BY <1>2, <2>1, SeqDef
<1>6. ASSUME NEW m \in 1 .. N, NEW n \in 1 .. N, m < n PROVE q[m] < q[n]
  <2>1. q[m] \in Nat /\ q[n] \in Nat
    BY <1>1, <1>4
  <2>2. q[m] # q[n]
    BY <1>2, <1>4, <1>6
  <2>3. ASSUME q[n] < q[m] PROVE FALSE
    <3>1. n - 1 < m - 1
      BY <1>1, <1>4, <2>3, RanksDiffer
    <3>. QED
      BY <1>2, <1>6, <3>1
  <2>. QED
    BY <2>1, <2>2, <2>3
<1>. QED
  BY <1>5, <1>6 DEF q

------------------------------------------------------------------------------
(* The order of the deterministic transactions *)

\* No deterministic sub-transaction is put into a batch that has optimistic ones.
Unmixed ==
  \A d \in Dpu : host[d] = "take" /\ Takes(d) /\ ~ Optimistic(Head(queue[d])) =>
    \A t \in Tasklet : batch[d][t].opt = <<>>

SubTx == [tx : Nat, ts : Nat]

\* The batch of tasklet t: its deterministic sub-transactions, their time stamps
\* and transactions, the same of its optimistic ones, and how many there are.
NDets(d, t) == Len(batch[d][t].det)
Dets(d, t)  == DOMAIN batch[d][t].det
Ts(d, t, n) == batch[d][t].det[n].ts
Tx(d, t, n) == batch[d][t].det[n].tx
Opts(d, t)     == DOMAIN batch[d][t].opt
OptTx(d, t, n) == batch[d][t].opt[n].tx
Load(d, t)     == Len(batch[d][t].det) + Len(batch[d][t].opt)

Contents(d) ==
  /\ queue[d] \in Seq(Nat) /\ log[d] \in Seq(Nat)
  /\ \A t \in Tasklet : batch[d][t].det \in Seq(SubTx) /\ batch[d][t].opt \in Seq(SubTx)
  /\ \A t \in Tasklet : \A n \in Opts(d, t) : Optimistic(OptTx(d, t, n))

\* The tasklets get theirs in turn: r each, and one more those before the next.
Turns(d) ==
  host[d] = "take" =>
    \E r \in Nat :
      /\ dpu_ts[d] = turn[d].prev + r * NR_TASKLETS + turn[d].thread
      /\ \A t \in Tasklet :
           Load(d, t) = IF t < turn[d].thread THEN r + 1 ELSE r

\* Sub-transaction n of tasklet t has yet to commit.
Undone(d, t, n) == host[d] = "run" => Pending(d, t, "det", n)

QueueInOrder(d) == \A m, n \in DOMAIN queue[d] : m < n => queue[d][m] < queue[d][n]

\* The time stamps of the batch are of this round, and in the order of exec.
Numbered(d) ==
  host[d] # "begin" =>
    \A t \in Tasklet : \A n \in Dets(d, t) :
      /\ turn[d].prev <= Ts(d, t, n) /\ Ts(d, t, n) < dpu_ts[d]
      /\ \A m \in DOMAIN queue[d] : Tx(d, t, n) < queue[d][m]
      /\ \A u \in Tasklet : \A m \in Dets(d, u) :
           /\ Ts(d, u, m) = Ts(d, t, n) => u = t /\ m = n
           /\ Ts(d, u, m) < Ts(d, t, n) =>
                Tx(d, u, m) < Tx(d, t, n)

\* The clock stands at the first time stamp that has yet to commit.
InTurn(d) ==
  fails[d] = 0 =>
    /\ host[d] \in {"take", "ready"} => clock[d] = turn[d].prev
    /\ host[d] # "begin" =>
         \A t \in Tasklet : \A n \in Dets(d, t) :
           Undone(d, t, n) <=> clock[d] <= Ts(d, t, n)

\* What has committed comes before what has not.
LogInOrder(d) ==
  fails[d] = 0 =>
    \A m \in DOMAIN log[d] : ~ Optimistic(log[d][m]) =>
      /\ \A n \in DOMAIN log[d] : m < n /\ ~ Optimistic(log[d][n]) => log[d][m] < log[d][n]
      /\ \A n \in DOMAIN queue[d] : log[d][m] < queue[d][n]
      /\ host[d] # "begin" =>
           \A t \in Tasklet : \A n \in Dets(d, t) :
             Undone(d, t, n) => log[d][m] < Tx(d, t, n)

OrderInv(d) ==
  /\ Contents(d) /\ Turns(d) /\ QueueInOrder(d)
  /\ Numbered(d) /\ InTurn(d) /\ LogInOrder(d)

OInv == CInv /\ txs \in Workloads /\ DOMAIN queue = Dpu /\ \A d \in Dpu : OrderInv(d)

\* What the order on a DPU depends on.
OrderView(d) == <<txs, queue[d], turn[d], log[d], DpuView(d)>>

\* A transaction and its time stamp are numbers.
LEMMA DetTypes ==
  ASSUME NEW d, NEW t \in Tasklet, Contents(d)
  PROVE  /\ Dets(d, t) = 1 .. NDets(d, t) /\ NDets(d, t) \in Nat
         /\ \A n \in Dets(d, t) : Tx(d, t, n) \in Nat /\ Ts(d, t, n) \in Nat
<1>1. batch[d][t].det \in Seq(SubTx)
  BY DEF Contents
<1>. DEFINE det == batch[d][t].det
<1>2. DOMAIN det = 1 .. Len(det) /\ Len(det) \in Nat /\ \A n \in DOMAIN det : det[n] \in SubTx
  BY <1>1, LenProperties, ElementOfSeq
<1>. HIDE DEF det
<1>3. \A n \in DOMAIN det : det[n].tx \in Nat /\ det[n].ts \in Nat
  BY <1>2 DEF SubTx
<1>. QED
  BY <1>2, <1>3 DEF det, Dets, NDets, Tx, Ts

LEMMA DetsSame ==
  ASSUME NEW d, batch'[d] = batch[d]
  PROVE  /\ \A t : Dets(d, t)' = Dets(d, t) /\ NDets(d, t)' = NDets(d, t)
         /\ \A t, n : Ts(d, t, n)' = Ts(d, t, n) /\ Tx(d, t, n)' = Tx(d, t, n)
         /\ \A t : Opts(d, t)' = Opts(d, t) /\ Load(d, t)' = Load(d, t)
         /\ \A t, n : OptTx(d, t, n)' = OptTx(d, t, n)
BY DEF Dets, NDets, Ts, Tx, Opts, OptTx, Load

\* A step that leaves the transactions, the queue and the batch of a DPU alone.
LEMMA BatchStays ==
  ASSUME NEW d \in Dpu, OrderInv(d), txs' = txs, queue'[d] = queue[d], batch'[d] = batch[d],
         turn'[d] = turn[d], dpu_ts'[d] = dpu_ts[d], host'[d] = "take" => host[d] = "take",
         log'[d] \in Seq(Nat)
  PROVE  Contents(d)' /\ Turns(d)' /\ QueueInOrder(d)'
<1>1. Contents(d) /\ Turns(d) /\ QueueInOrder(d)
  BY DEF OrderInv
<1>2. /\ \A t : Opts(d, t)' = Opts(d, t) /\ Load(d, t)' = Load(d, t)
      /\ \A t, n : OptTx(d, t, n)' = OptTx(d, t, n)
  BY DetsSame
<1>3. Contents(d)'
  <2>1. \A t, n : Optimistic(OptTx(d, t, n))' <=> Optimistic(OptTx(d, t, n))
    BY <1>2 DEF Optimistic
  <2>. QED
    BY <1>1, <1>2, <2>1 DEF Contents
<1>4. QueueInOrder(d)'
  BY <1>1 DEF QueueInOrder
<1>5. Turns(d)'
  BY <1>1, <1>2 DEF Turns
<1>. QED
  BY <1>3, <1>4, <1>5

LEMMA OrderSame ==
  ASSUME NEW d \in Dpu, OrderInv(d), UNCHANGED OrderView(d)
  PROVE  OrderInv(d)'
<1>1. /\ host'[d] = host[d] /\ batch'[d] = batch[d] /\ pc'[d] = pc[d] /\ pos'[d] = pos[d]
      /\ clock'[d] = clock[d] /\ fails'[d] = fails[d] /\ dpu_ts'[d] = dpu_ts[d]
      /\ txs' = txs /\ queue'[d] = queue[d] /\ turn'[d] = turn[d] /\ log'[d] = log[d]
  BY DEF OrderView, DpuView
<1>2. Contents(d)' /\ Turns(d)' /\ QueueInOrder(d)'
  BY <1>1, BatchStays DEF OrderInv, Contents
<1>3. Numbered(d)'
  BY <1>1, DetsSame DEF OrderInv, Numbered
<1>4. \A t, n : Undone(d, t, n)' <=> Undone(d, t, n)
  BY <1>1 DEF Undone, Pending
<1>5. InTurn(d)' /\ LogInOrder(d)'
  BY <1>1, <1>4, DetsSame DEF OrderInv, InTurn, LogInOrder, Optimistic
<1>. QED
  BY <1>2, <1>3, <1>5 DEF OrderInv

\* The other DPUs' orders are not concerned.
LEMMA OtherOrders ==
  ASSUME OInv, NEW d \in Dpu,
         \A e \in Dpu \ {d} : UNCHANGED OrderView(e),
         CInv', txs' = txs, DOMAIN queue' = Dpu, OrderInv(d)'
  PROVE  OInv'
<1>1. ASSUME NEW e \in Dpu PROVE OrderInv(e)'
  <2>1. CASE e = d
    BY <2>1
  <2>2. CASE e # d
    BY <2>2, OrderSame DEF OInv
  <2>. QED
    BY <2>1, <2>2
<1>. QED
  BY <1>1 DEF OInv

LEMMA InitOrder == Init => OInv
<1>. SUFFICES ASSUME Init PROVE OInv
  OBVIOUS
<1>1. CInv /\ txs \in Workloads /\ DOMAIN queue = Dpu
  BY InitCounts DEF Init, BatchInit
<1>2. ASSUME NEW d \in Dpu PROVE OrderInv(d)
  <2>1. /\ host[d] = "begin" /\ queue[d] = QueueOf(d) /\ log[d] = <<>>
        /\ \A t \in Tasklet : batch[d][t].det = <<>> /\ batch[d][t].opt = <<>>
    BY DEF Init, BatchInit, NoSubTxs
  <2>2. Contents(d) /\ QueueInOrder(d)
    <3>1. queue[d] \in Seq(Nat) /\ QueueInOrder(d)
      BY <1>1, <2>1, QueueOfAscends DEF QueueInOrder
    <3>2. <<>> \in Seq(Nat) /\ <<>> \in Seq(SubTx) /\ DOMAIN <<>> = {}
      BY EmptySeq
    <3>. QED
      BY <2>1, <3>1, <3>2 DEF Contents, Opts
  <2>3. Turns(d) /\ Numbered(d)
    BY <2>1 DEF Turns, Numbered
  <2>4. InTurn(d)
    BY <2>1 DEF InTurn
  <2>5. LogInOrder(d)
    BY <2>1 DEF LogInOrder
  <2>. QED
    BY <2>2, <2>3, <2>4, <2>5 DEF OrderInv
<1>. QED
  BY <1>1, <1>2 DEF OInv

\* A DPU whose batch is empty, when a round begins.
LEMMA BeginOrders ==
  ASSUME OInv, NEW d \in Dpu, Begin(d), CInv'
  PROVE  OInv'
<1>1. /\ host[d] = "begin" /\ host' = [host EXCEPT ![d] = "take"]
      /\ batch' = [batch EXCEPT ![d] = [t \in Tasklet |-> NoSubTxs]]
      /\ turn' = [turn EXCEPT ![d] = [thread |-> 0, prev |-> dpu_ts[d]]]
      /\ UNCHANGED <<txs, queue, pc, pos, clock, fails, dpu_ts, log>>
  BY DEF Begin, BeginBatch, dpuVars
<1>2. /\ DOMAIN batch = Dpu /\ DOMAIN host = Dpu /\ DOMAIN turn = Dpu
      /\ dpu_ts[d] \in Nat /\ clock[d] \in Nat /\ fails[d] \in Nat
      /\ NR_TASKLETS \in Nat /\ \A t \in Tasklet : ~ (t < 0)
  BY HostAssumption DEF OInv, CInv, IInv, Types, Counters, Tasklet
<1>3. /\ batch'[d] = [t \in Tasklet |-> NoSubTxs] /\ host'[d] = "take"
      /\ turn'[d].thread = 0 /\ turn'[d].prev = dpu_ts[d]
      /\ \A e \in Dpu \ {d} : UNCHANGED <<batch[e], host[e], turn[e]>>
  BY <1>1, <1>2
<1>4. OrderInv(d)
  BY DEF OInv
<1>5. /\ \A t \in Tasklet : batch'[d][t].det = <<>> /\ batch'[d][t].opt = <<>>
      /\ DOMAIN <<>> = {} /\ <<>> \in Seq(SubTx) /\ Len(<<>>) = 0
  BY <1>3, EmptySeq DEF NoSubTxs
<1>6. Contents(d)'
  BY <1>1, <1>4, <1>5 DEF OrderInv, Contents, Opts
<1>7. Turns(d)'
  <2>1. dpu_ts'[d] = turn'[d].prev + 0 * NR_TASKLETS + turn'[d].thread
    BY <1>1, <1>2, <1>3
  <2>2. ASSUME NEW t \in Tasklet
        PROVE  Load(d, t)'
                 = IF t < turn'[d].thread THEN 0 + 1 ELSE 0
    <3>1. Len(batch'[d][t].det) = 0 /\ Len(batch'[d][t].opt) = 0
      BY <1>5
    <3>2. ~ (t < turn'[d].thread)
      BY <1>2, <1>3
    <3>. QED
      BY <3>1, <3>2 DEF Load
  <2>. QED
    BY <2>1, <2>2 DEF Turns
<1>8. QueueInOrder(d)' /\ Numbered(d)'
  BY <1>1, <1>4, <1>5 DEF OrderInv, QueueInOrder, Numbered, Dets
<1>9. InTurn(d)'
  <2>1. fails[d] = 0 => clock[d] = dpu_ts[d]
    <3>1. Left(d) = {} /\ Tally(d)
      BY <1>1 DEF Left, OInv, CInv
    <3>. QED
      BY <1>2, <3>1, FS_EmptySet DEF Tally
  <2>. QED
    BY <1>1, <1>3, <1>5, <2>1 DEF InTurn, Dets
<1>10. LogInOrder(d)'
  BY <1>1, <1>4, <1>5 DEF OrderInv, LogInOrder, Optimistic, Dets
<1>11. OrderInv(d)'
  BY <1>6, <1>7, <1>8, <1>9, <1>10 DEF OrderInv
<1>. QED
  BY <1>1, <1>3, <1>11, OtherOrders DEF OInv, OrderView, DpuView

LEMMA BuiltOrders ==
  ASSUME OInv, NEW d \in Dpu, Built(d), CInv'
  PROVE  OInv'
<1>1. /\ host[d] = "take" /\ host' = [host EXCEPT ![d] = "ready"]
      /\ UNCHANGED <<txs, queue, batch, turn, dpu_ts, pc, pos, clock, fails, log>>
  BY DEF Built, batchVars, dpuVars
<1>2. host'[d] = "ready" /\ \A e \in Dpu \ {d} : host'[e] = host[e]
  BY <1>1 DEF OInv, CInv, IInv, Types
<1>3. OrderInv(d)
  BY DEF OInv
<1>6. /\ \A t : Dets(d, t)' = Dets(d, t)
      /\ \A t, n : Ts(d, t, n)' = Ts(d, t, n) /\ Tx(d, t, n)' = Tx(d, t, n)
  BY <1>1, DetsSame
<1>4. Contents(d)' /\ Turns(d)' /\ QueueInOrder(d)' /\ Numbered(d)'
  <2>1. Contents(d)' /\ Turns(d)' /\ QueueInOrder(d)'
    BY <1>1, <1>2, <1>3, BatchStays DEF OrderInv, Contents
  <2>2. Numbered(d)'
    BY <1>1, <1>2, <1>3, <1>6 DEF OrderInv, Numbered
  <2>. QED
    BY <2>1, <2>2
<1>5. \A t, n : Undone(d, t, n)' <=> Undone(d, t, n)
  BY <1>1, <1>2 DEF Undone
<1>7. InTurn(d)' /\ LogInOrder(d)'
  BY <1>1, <1>2, <1>3, <1>5, <1>6 DEF OrderInv, InTurn, LogInOrder, Optimistic
<1>8. OrderInv(d)'
  BY <1>4, <1>7 DEF OrderInv
<1>. QED
  BY <1>1, <1>2, <1>8, OtherOrders DEF OInv, OrderView, DpuView

LEMMA LaunchOrders ==
  ASSUME OInv, Launch, CInv'
  PROVE  OInv'
<1>1. /\ \A d \in Dpu : host[d] = "ready"
      /\ host' = [d \in Dpu |-> "run"]
      /\ pc' = [d \in Dpu |-> [t \in Tasklet |-> "det"]]
      /\ pos' = [d \in Dpu |-> [t \in Tasklet |-> 1]]
      /\ UNCHANGED <<txs, queue, batch, turn, dpu_ts, clock, fails, log>>
  BY DEF Launch, batchVars
<1>2. ASSUME NEW d \in Dpu PROVE OrderInv(d)'
  <2>1. OrderInv(d) /\ host[d] = "ready" /\ host'[d] = "run"
    BY <1>1 DEF OInv
  <2>5. /\ \A t : Dets(d, t)' = Dets(d, t)
        /\ \A t, n : Ts(d, t, n)' = Ts(d, t, n) /\ Tx(d, t, n)' = Tx(d, t, n)
    BY <1>1, DetsSame
  <2>2. Contents(d)' /\ Turns(d)' /\ QueueInOrder(d)' /\ Numbered(d)'
    <3>1. Contents(d)' /\ Turns(d)' /\ QueueInOrder(d)'
      BY <1>1, <2>1, BatchStays DEF OrderInv, Contents
    <3>2. Numbered(d)'
      BY <1>1, <2>1, <2>5 DEF OrderInv, Numbered
    <3>. QED
      BY <3>1, <3>2
  <2>3. ASSUME NEW t \in Tasklet, NEW n \in Dets(d, t)
        PROVE  Undone(d, t, n) /\ Undone(d, t, n)'
    <3>1. Dets(d, t) = 1 .. Len(batch[d][t].det)
      BY SeqDomain DEF OInv, CInv, IInv, Types, Dets
    <3>2. pc'[d][t] = "det" /\ pos'[d][t] = 1 /\ n >= 1
      BY <1>1, <3>1
    <3>. QED
      BY <2>1, <3>2 DEF Undone, Pending
  <2>4. InTurn(d)' /\ LogInOrder(d)'
    BY <1>1, <2>1, <2>3, <2>5 DEF OrderInv, InTurn, LogInOrder, Optimistic
  <2>. QED
    BY <2>2, <2>4 DEF OrderInv
<1>. QED
  BY <1>1, <1>2 DEF OInv

LEMMA ReturnOrders ==
  ASSUME OInv, Return, CInv'
  PROVE  OInv'
<1>1. /\ host' = [d \in Dpu |-> "begin"]
      /\ UNCHANGED <<txs, queue, batch, turn, dpu_ts, pc, pos, clock, fails, log>>
  BY DEF Return, batchVars, dpuVars
<1>2. ASSUME NEW d \in Dpu PROVE OrderInv(d)'
  <2>1. OrderInv(d) /\ host'[d] = "begin"
    BY <1>1 DEF OInv
  <2>2. Contents(d)' /\ Turns(d)' /\ QueueInOrder(d)'
    BY <1>1, <2>1, BatchStays DEF OrderInv, Contents
  <2>3. Numbered(d)' /\ InTurn(d)' /\ LogInOrder(d)'
    BY <1>1, <2>1 DEF OrderInv, Numbered, InTurn, LogInOrder, Optimistic
  <2>. QED
    BY <2>2, <2>3 DEF OrderInv
<1>. QED
  BY <1>1, <1>2 DEF OInv

\* The next tasklet in turn.
LEMMA NextInTurn ==
  ASSUME NEW n \in Nat \ {0}, NEW k \in 0 .. n - 1
  PROVE  (k + 1) % n = IF k + 1 = n THEN 0 ELSE k + 1
<1>1. ASSUME NEW j \in 0 .. n - 1 PROVE j % n = j
  OBVIOUS
<1>2. n % n = 0
  OBVIOUS
<1>3. CASE k + 1 = n
  BY <1>2, <1>3
<1>4. CASE k + 1 # n
  BY <1>1, <1>4
<1>. QED
  BY <1>3, <1>4

\* What tasklet t has when tasklet th has got one more.
LEMMA OneMore ==
  ASSUME NEW th \in Nat, NEW t \in Nat, NEW r \in Nat, NEW a, a = IF t < th THEN r + 1 ELSE r
  PROVE  a + (IF t = th THEN 1 ELSE 0) = IF t < th + 1 THEN r + 1 ELSE r
<1>1. CASE t < th
  BY <1>1
<1>2. CASE t = th
  BY <1>2
<1>3. CASE t > th
  BY <1>3
<1>. QED
  BY <1>1, <1>2, <1>3

\* One more in turn.
LEMMA TurnsGoOn ==
  ASSUME NEW d \in Dpu, Turns(d), host[d] = "take", turn[d].thread \in Tasklet,
         dpu_ts'[d] = dpu_ts[d] + 1, dpu_ts[d] \in Nat, turn[d].prev \in Nat,
         turn'[d].prev = turn[d].prev,
         turn'[d].thread = (turn[d].thread + 1) % NR_TASKLETS,
         \A t \in Tasklet :
           Load(d, t)'
             = Load(d, t) + (IF t = turn[d].thread THEN 1 ELSE 0)
  PROVE  Turns(d)'
<1>1. PICK r \in Nat : /\ dpu_ts[d] = turn[d].prev + r * NR_TASKLETS + turn[d].thread
                       /\ \A t \in Tasklet : Load(d, t) = IF t < turn[d].thread THEN r + 1 ELSE r
  BY DEF Turns
<1>2. PICK th \in Nat : th = turn[d].thread
  BY DEF Tasklet
<1>3. /\ th < NR_TASKLETS /\ NR_TASKLETS \in Nat \ {0} /\ th \in 0 .. NR_TASKLETS - 1
      /\ Tasklet = 0 .. NR_TASKLETS - 1
  BY <1>2, HostAssumption DEF Tasklet
<1>4. PICK p \in Nat : p = turn[d].prev
  OBVIOUS
<1>5. PICK k \in Nat : k = r * NR_TASKLETS
  BY <1>1, <1>3
<1>6. /\ dpu_ts'[d] = p + k + th + 1 /\ turn'[d].prev = p
      /\ turn'[d].thread = (th + 1) % NR_TASKLETS
  BY <1>1, <1>2, <1>4, <1>5
<1>7. ASSUME NEW t \in Tasklet
      PROVE  Load(d, t)' = IF t < th + 1 THEN r + 1 ELSE r
  <2>1. Load(d, t) = IF t < th THEN r + 1 ELSE r
    BY <1>1, <1>2
  <2>2. Load(d, t)' = Load(d, t) + (IF t = th THEN 1 ELSE 0)
    BY <1>2
  <2>3. t \in Nat
    BY <1>3
  <2>. QED
    BY <2>1, <2>2, <2>3, OneMore
<1>8. CASE th + 1 < NR_TASKLETS
  <2>1. (th + 1) % NR_TASKLETS = th + 1
    BY <1>3, <1>8, NextInTurn
  <2>2. dpu_ts'[d] = turn'[d].prev + r * NR_TASKLETS + turn'[d].thread
    <3>1. p + k + th + 1 = p + k + (th + 1)
      BY <1>2
    <3>. QED
      BY <1>5, <1>6, <2>1, <3>1
  <2>3. \A t \in Tasklet : Load(d, t)' = IF t < turn'[d].thread THEN r + 1 ELSE r
    BY <1>6, <1>7, <2>1
  <2>. QED
    BY <2>2, <2>3 DEF Turns
<1>9. CASE th + 1 = NR_TASKLETS
  <2>1. (th + 1) % NR_TASKLETS = 0
    BY <1>3, <1>9, NextInTurn
  <2>2. (r + 1) * NR_TASKLETS = k + NR_TASKLETS
    BY <1>3, <1>5
  <2>3. dpu_ts'[d] = turn'[d].prev + (r + 1) * NR_TASKLETS + turn'[d].thread
    <3>1. p + k + th + 1 = p + (k + NR_TASKLETS) + 0
      BY <1>3, <1>9
    <3>. QED
      BY <1>6, <2>1, <2>2, <3>1
  <2>4. ASSUME NEW t \in Tasklet
        PROVE  Load(d, t)' = IF t < turn'[d].thread THEN r + 1 + 1 ELSE r + 1
    <3>1. t < th + 1 /\ ~ (t < 0)
      BY <1>3, <1>9
    <3>. QED
      BY <1>6, <1>7, <2>1, <3>1
  <2>. QED
    <3>1. r + 1 \in Nat
      BY <1>1
    <3>. QED
      BY <2>3, <2>4, <3>1 DEF Turns
<1>. QED
  BY <1>3, <1>8, <1>9

\* What a sub-transaction taken from the queue of a DPU becomes: the last of the
\* deterministic ones of tasklet th with time stamp dpu_ts, or the first optimistic one.
LEMMA TakeStores ==
  ASSUME OInv, Unmixed, NEW d \in Dpu, BuildTake(d)
  PROVE  LET tx == queue[d][1]
             th == turn[d].thread
         IN  /\ \A t \in Tasklet : /\ batch'[d][t].det \in Seq(SubTx)
                                   /\ batch'[d][t].opt \in Seq(SubTx)
                                   /\ \A n \in Opts(d, t)' :
                                        /\ Optimistic(OptTx(d, t, n)')
                                        /\ \/ OptTx(d, t, n)' = tx
                                           \/ \E k \in Opts(d, t) :
                                                OptTx(d, t, n)' = OptTx(d, t, k)
             /\ \A t \in Tasklet :
                  Load(d, t)'
                    = Load(d, t) + (IF t = th THEN 1 ELSE 0)
             /\ \A t \in Tasklet : \A n \in Dets(d, t)' :
                  \/ n \in Dets(d, t) /\ Tx(d, t, n)' = Tx(d, t, n) /\ Ts(d, t, n)' = Ts(d, t, n)
                  \/ /\ t = th /\ n = NDets(d, t) + 1
                     /\ Tx(d, t, n)' = tx /\ Ts(d, t, n)' = dpu_ts[d]
<1>. DEFINE tx  == queue[d][1]
            th  == turn[d].thread
            old == batch[d][th]
            ts  == turn[d].prev + Position(th, Len(old.det))
            new == batch'[d][th]
<1>1. /\ host[d] = "take" /\ Takes(d) /\ queue[d] # <<>>
      /\ batch' = [batch EXCEPT ![d][th] = Stored(old, Head(queue[d]), ts)]
  BY DEF BuildTake, Take, Takes
<1>2. /\ OrderInv(d) /\ queue[d] \in Seq(Nat) /\ th \in Tasklet /\ DOMAIN batch = Dpu
      /\ DOMAIN batch[d] = Tasklet /\ DOMAIN old = {"det", "opt"}
      /\ dpu_ts[d] \in Nat /\ turn[d].prev \in Nat
  BY DEF OInv, OrderInv, Contents, CInv, IInv, Types, Counters
<1>3. Head(queue[d]) = tx /\ tx \in Nat
  BY <1>1, <1>2, HeadTailProperties
<1>4. /\ new = Stored(old, tx, ts)
      /\ \A t \in Tasklet \ {th} : batch'[d][t] = batch[d][t]
  BY <1>1, <1>2, <1>3
<1>5. \A t \in Tasklet : /\ batch[d][t].det \in Seq(SubTx) /\ batch[d][t].opt \in Seq(SubTx)
                         /\ \A n \in Opts(d, t) : Optimistic(OptTx(d, t, n))
  BY <1>2 DEF OrderInv, Contents
<1>6. /\ old.det \in Seq(SubTx) /\ old.opt \in Seq(SubTx)
      /\ \A n \in DOMAIN old.opt : Optimistic(old.opt[n].tx)
      /\ Len(old.det) \in Nat /\ DOMAIN old.det = 1 .. Len(old.det) /\ Len(old.opt) \in Nat
      /\ DOMAIN old.opt = 1 .. Len(old.opt)
  <2>1. /\ old.det \in Seq(SubTx) /\ old.opt \in Seq(SubTx)
        /\ \A n \in DOMAIN old.opt : Optimistic(old.opt[n].tx)
    BY <1>2, <1>5 DEF Opts, OptTx
  <2>. QED
    BY <2>1, LenProperties
<1>. HIDE DEF tx, th, old, new, ts
<1>7. /\ new.det \in Seq(SubTx) /\ new.opt \in Seq(SubTx)
      /\ \A n \in DOMAIN new.opt :
           /\ Optimistic(new.opt[n].tx)
           /\ new.opt[n].tx = tx \/ \E k \in DOMAIN old.opt : new.opt[n].tx = old.opt[k].tx
      /\ Len(new.det) + Len(new.opt) = Len(old.det) + Len(old.opt) + 1
      /\ \A n \in DOMAIN new.det :
           \/ n \in DOMAIN old.det /\ new.det[n] = old.det[n]
           \/ n = Len(old.det) + 1 /\ new.det[n] = [tx |-> tx, ts |-> dpu_ts[d]]
  <2>1. CASE Optimistic(tx)
    <3>. DEFINE sub == [tx |-> tx, ts |-> 0]
    <3>1. new.det = old.det /\ new.opt = <<sub>> \o old.opt
      BY <1>2, <1>4, <2>1 DEF Stored, old
    <3>2. sub \in SubTx /\ sub.tx = tx
      BY <1>3 DEF SubTx
    <3>. HIDE DEF sub
    <3>3. <<sub>> \in Seq(SubTx) /\ Len(<<sub>>) = 1 /\ <<sub>>[1] = sub
      BY <3>2
    <3>4. /\ new.opt \in Seq(SubTx) /\ Len(new.opt) = 1 + Len(old.opt)
          /\ \A i \in 1 .. 1 + Len(old.opt) :
               new.opt[i] = IF i <= 1 THEN <<sub>>[i] ELSE old.opt[i - 1]
      BY <1>6, <3>1, <3>3, ConcatProperties
    <3>5. ASSUME NEW n \in DOMAIN new.opt
          PROVE  /\ Optimistic(new.opt[n].tx)
                 /\ new.opt[n].tx = tx \/ \E k \in DOMAIN old.opt : new.opt[n].tx = old.opt[k].tx
      <4>1. n \in 1 .. 1 + Len(old.opt)
        BY <1>6, <3>4, LenProperties
      <4>2. CASE n = 1
        BY <2>1, <3>2, <3>3, <3>4, <4>1, <4>2
      <4>3. CASE n # 1
        <5>1. n - 1 \in DOMAIN old.opt /\ new.opt[n] = old.opt[n - 1]
          BY <1>6, <3>4, <4>1, <4>3
        <5>. QED
          BY <1>6, <5>1
      <4>. QED
        BY <4>2, <4>3
    <3>6. Len(new.det) + Len(new.opt) = Len(old.det) + Len(old.opt) + 1
      <4>1. Len(new.det) = Len(old.det) /\ Len(new.opt) = 1 + Len(old.opt)
        BY <3>1, <3>4
      <4>2. PICK a \in Nat, b \in Nat : a = Len(old.det) /\ b = Len(old.opt)
        BY <1>6
      <4>3. PICK a1 \in Nat, b1 \in Nat : a1 = Len(new.det) /\ b1 = Len(new.opt)
        BY <4>1, <4>2
      <4>4. a1 = a
        BY <4>1, <4>2, <4>3
      <4>5. b1 = 1 + b
        BY <4>1, <4>2, <4>3
      <4>6. a1 + b1 = a + b + 1
        BY <4>4, <4>5
      <4>. QED
        BY <4>2, <4>3, <4>6
    <3>7. new.det \in Seq(SubTx) /\ \A n \in DOMAIN new.det : n \in DOMAIN old.det /\ new.det[n] = old.det[n]
      BY <1>6, <3>1
    <3>8. new.opt \in Seq(SubTx)
      BY <3>4
    <3>. QED
      BY <3>5, <3>6, <3>7, <3>8
  <2>2. CASE ~ Optimistic(tx)
    <3>. DEFINE sub == [tx |-> tx, ts |-> dpu_ts[d]]
    <3>1. ts = dpu_ts[d]
      <4>1. \A t \in Tasklet : batch[d][t].opt = <<>>
        BY <1>1, <1>3, <2>2 DEF Unmixed
      <4>2. PICK r \in Nat : /\ dpu_ts[d] = turn[d].prev + r * NR_TASKLETS + th
                             /\ \A t \in Tasklet : Load(d, t) = IF t < th THEN r + 1 ELSE r
        BY <1>1, <1>2 DEF OrderInv, Turns, th
      <4>3. Len(old.det) + Len(old.opt) = r /\ Len(old.opt) = 0
        <5>1. th \in Nat /\ ~ (th < th)
          BY <1>2, HostAssumption DEF Tasklet
        <5>. QED
          BY <1>2, <4>1, <4>2, <5>1, EmptySeq DEF old, Load
      <4>4. Len(old.det) = r
        BY <1>6, <4>3
      <4>5. PICK k \in Nat : k = r * NR_TASKLETS
        BY HostAssumption
      <4>6. th \in Nat
        BY <1>2, HostAssumption DEF Tasklet
      <4>7. ts = turn[d].prev + (th + k)
        BY <4>4, <4>5 DEF ts, Position
      <4>8. dpu_ts[d] = turn[d].prev + k + th
        BY <4>2, <4>5
      <4>. QED
        BY <1>2, <4>6, <4>7, <4>8
    <3>2. new.det = Append(old.det, sub) /\ new.opt = old.opt
      BY <1>2, <1>4, <2>2, <3>1 DEF Stored, old
    <3>3. sub \in SubTx
      BY <1>2, <1>3 DEF SubTx
    <3>. HIDE DEF sub
    <3>4. /\ new.det \in Seq(SubTx) /\ Len(new.det) = Len(old.det) + 1
          /\ \A i \in 1 .. Len(old.det) : new.det[i] = old.det[i]
          /\ new.det[Len(old.det) + 1] = sub
      BY <1>6, <3>2, <3>3, AppendProperties
    <3>5. DOMAIN new.det = 1 .. Len(old.det) + 1
      BY <3>4, LenProperties
    <3>6. ASSUME NEW n \in DOMAIN new.det
          PROVE  \/ n \in DOMAIN old.det /\ new.det[n] = old.det[n]
                 \/ n = Len(old.det) + 1 /\ new.det[n] = sub
      BY <1>6, <3>4, <3>5
    <3>7. Len(new.det) + Len(new.opt) = Len(old.det) + Len(old.opt) + 1
      <4>1. Len(new.opt) = Len(old.opt) /\ Len(new.det) = Len(old.det) + 1
        BY <3>2, <3>4
      <4>2. PICK a \in Nat, b \in Nat : a = Len(old.det) /\ b = Len(old.opt)
        BY <1>6
      <4>3. PICK a1 \in Nat, b1 \in Nat : a1 = Len(new.det) /\ b1 = Len(new.opt)
        BY <4>1, <4>2
      <4>4. a1 = a + 1
        BY <4>1, <4>2, <4>3
      <4>5. b1 = b
        BY <4>1, <4>2, <4>3
      <4>6. a1 + b1 = a + b + 1
        BY <4>4, <4>5
      <4>. QED
        BY <4>2, <4>3, <4>6
    <3>8. /\ new.opt \in Seq(SubTx)
          /\ \A n \in DOMAIN new.opt :
               /\ Optimistic(new.opt[n].tx)
               /\ new.opt[n].tx = tx \/ \E k \in DOMAIN old.opt : new.opt[n].tx = old.opt[k].tx
      BY <1>6, <3>2
    <3>. QED
      BY <3>4, <3>6, <3>7, <3>8 DEF sub
  <2>. QED
    BY <2>1, <2>2
<1>8. ASSUME NEW t \in Tasklet
      PROVE  /\ batch'[d][t].det \in Seq(SubTx) /\ batch'[d][t].opt \in Seq(SubTx)
             /\ \A n \in Opts(d, t)' :
                  /\ Optimistic(OptTx(d, t, n)')
                  /\ \/ OptTx(d, t, n)' = tx
                     \/ \E k \in Opts(d, t) :
                          OptTx(d, t, n)' = OptTx(d, t, k)
             /\ Load(d, t)'
                  = Load(d, t) + (IF t = th THEN 1 ELSE 0)
             /\ \A n \in Dets(d, t)' :
                  \/ n \in Dets(d, t) /\ Tx(d, t, n)' = Tx(d, t, n) /\ Ts(d, t, n)' = Ts(d, t, n)
                  \/ /\ t = th /\ n = NDets(d, t) + 1
                     /\ Tx(d, t, n)' = tx /\ Ts(d, t, n)' = dpu_ts[d]
  <2>1. CASE t = th
    <3>1. batch'[d][t] = new /\ batch[d][t] = old
      BY <2>1 DEF new, old
    <3>2. /\ Opts(d, t)' = DOMAIN new.opt /\ Opts(d, t) = DOMAIN old.opt
          /\ Dets(d, t)' = DOMAIN new.det /\ Dets(d, t) = DOMAIN old.det
          /\ NDets(d, t) = Len(old.det)
          /\ Load(d, t)' = Len(new.det) + Len(new.opt) /\ Load(d, t) = Len(old.det) + Len(old.opt)
      BY <3>1 DEF Opts, Dets, NDets, Load
    <3>3. \A n : OptTx(d, t, n)' = new.opt[n].tx /\ OptTx(d, t, n) = old.opt[n].tx
      BY <3>1 DEF OptTx
    <3>4. \A n : /\ Tx(d, t, n)' = new.det[n].tx /\ Tx(d, t, n) = old.det[n].tx
                 /\ Ts(d, t, n)' = new.det[n].ts /\ Ts(d, t, n) = old.det[n].ts
      BY <3>1 DEF Tx, Ts
    <3>5. \A n \in Opts(d, t)' :
             /\ Optimistic(OptTx(d, t, n)')
             /\ OptTx(d, t, n)' = tx \/ \E k \in Opts(d, t) : OptTx(d, t, n)' = OptTx(d, t, k)
      BY <1>7, <3>2, <3>3
    <3>6. \A n \in Dets(d, t)' :
             \/ n \in Dets(d, t) /\ Tx(d, t, n)' = Tx(d, t, n) /\ Ts(d, t, n)' = Ts(d, t, n)
             \/ /\ t = th /\ n = NDets(d, t) + 1
                /\ Tx(d, t, n)' = tx /\ Ts(d, t, n)' = dpu_ts[d]
      <4>. SUFFICES ASSUME NEW n \in DOMAIN new.det
                    PROVE  \/ n \in Dets(d, t) /\ new.det[n].tx = old.det[n].tx /\ new.det[n].ts = old.det[n].ts
                           \/ n = NDets(d, t) + 1 /\ new.det[n].tx = tx /\ new.det[n].ts = dpu_ts[d]
        BY <2>1, <3>2, <3>4
      <4>1. CASE n \in DOMAIN old.det /\ new.det[n] = old.det[n]
        BY <3>2, <4>1
      <4>2. CASE n = Len(old.det) + 1 /\ new.det[n] = [tx |-> tx, ts |-> dpu_ts[d]]
        BY <3>2, <4>2
      <4>. QED
        BY <1>7, <4>1, <4>2
    <3>7. Load(d, t)' = Load(d, t) + (IF t = th THEN 1 ELSE 0)
      BY <1>7, <2>1, <3>2
    <3>8. batch'[d][t].det \in Seq(SubTx) /\ batch'[d][t].opt \in Seq(SubTx)
      BY <1>7, <3>1
    <3>. QED
      BY <3>5, <3>6, <3>7, <3>8
  <2>2. CASE t # th
    <3>1. batch'[d][t] = batch[d][t]
      BY <1>4, <2>2
    <3>2. Len(batch[d][t].det) \in Nat /\ Len(batch[d][t].opt) \in Nat
      BY <1>5, LenProperties
    <3>3. /\ Opts(d, t)' = Opts(d, t) /\ Dets(d, t)' = Dets(d, t)
          /\ Load(d, t)' = Load(d, t) /\ Load(d, t) \in Nat
      <4>1. Opts(d, t)' = Opts(d, t) /\ Dets(d, t)' = Dets(d, t)
        BY <3>1 DEF Opts, Dets
      <4>2. Load(d, t)' = Load(d, t)
        BY <3>1 DEF Load
      <4>3. Load(d, t) \in Nat
        <5>1. PICK a \in Nat, b \in Nat : a = Len(batch[d][t].det) /\ b = Len(batch[d][t].opt)
          BY <3>2
        <5>2. a + b \in Nat
          OBVIOUS
        <5>. QED
          BY <5>1, <5>2 DEF Load
      <4>. QED
        BY <4>1, <4>2, <4>3
    <3>4. \A n : /\ OptTx(d, t, n)' = OptTx(d, t, n)
                 /\ Tx(d, t, n)' = Tx(d, t, n) /\ Ts(d, t, n)' = Ts(d, t, n)
      BY <3>1 DEF OptTx, Tx, Ts
    <3>. QED
      BY <1>5, <2>2, <3>1, <3>3, <3>4
  <2>. QED
    BY <2>1, <2>2
<1>. QED
  BY <1>8 DEF tx, th

LEMMA TakeOrders ==
  ASSUME OInv, Unmixed, NEW d \in Dpu, BuildTake(d), CInv'
  PROVE  OInv'
<1>. DEFINE tx == queue[d][1]
            th == turn[d].thread
<1>1. /\ host[d] = "take" /\ queue[d] # <<>>
      /\ UNCHANGED <<txs, host, pc, pos, clock, fails, log>>
      /\ queue' = [queue EXCEPT ![d] = Tail(@)]
      /\ dpu_ts' = [dpu_ts EXCEPT ![d] = @ + 1]
      /\ turn' = [turn EXCEPT ![d].thread = (@ + 1) % NR_TASKLETS]
      /\ \E b : batch' = [batch EXCEPT ![d] = b]
  <2>1. \E b : batch' = [batch EXCEPT ![d] = b]
    BY DEF BuildTake, Take
  <2>. QED
    BY <2>1 DEF BuildTake, Take, Takes, Counts, dpuVars
<1>2. /\ OrderInv(d) /\ queue[d] \in Seq(Nat) /\ log[d] \in Seq(Nat) /\ th \in Tasklet
      /\ dpu_ts[d] \in Nat /\ turn[d].prev \in Nat
      /\ dpu_ts \in [Dpu -> Nat] /\ turn \in [Dpu -> [thread : Tasklet, prev : Nat]]
      /\ DOMAIN batch = Dpu /\ clock[d] \in Nat
  BY DEF OInv, OrderInv, Contents, CInv, IInv, Types, Counters
<1>3. /\ dpu_ts'[d] = dpu_ts[d] + 1
      /\ turn'[d].prev = turn[d].prev /\ turn'[d].thread = (th + 1) % NR_TASKLETS
      /\ host'[d] = "take"
  BY <1>1, <1>2
<1>4. /\ \A e \in Dpu \ {d} : dpu_ts'[e] = dpu_ts[e] /\ turn'[e] = turn[e] /\ batch'[e] = batch[e]
      /\ txs' = txs
  BY <1>1, <1>2
<1>5. DOMAIN queue = Dpu
  BY DEF OInv
<1>6. /\ \A e \in Dpu \ {d} : queue'[e] = queue[e]
      /\ queue'[d] = Tail(queue[d]) /\ DOMAIN queue' = Dpu
  BY <1>1, <1>5
<1>7. /\ queue'[d] \in Seq(Nat) /\ tx \in Nat
      /\ \A n \in DOMAIN queue'[d] : n + 1 \in DOMAIN queue[d] /\ queue'[d][n] = queue[d][n + 1]
      /\ DOMAIN queue'[d] \subseteq Nat \ {0} /\ 1 \in DOMAIN queue[d]
  <2>1. /\ Tail(queue[d]) \in Seq(Nat) /\ Len(Tail(queue[d])) = Len(queue[d]) - 1
        /\ \A i \in 1 .. Len(Tail(queue[d])) : Tail(queue[d])[i] = queue[d][i + 1]
    BY <1>1, <1>2, HeadTailProperties
  <2>2. DOMAIN queue[d] = 1 .. Len(queue[d]) /\ Len(queue[d]) \in Nat /\ Len(queue[d]) # 0
    BY <1>1, <1>2, LenProperties, EmptySeq
  <2>3. DOMAIN Tail(queue[d]) = 1 .. Len(Tail(queue[d]))
    BY <2>1, LenProperties
  <2>4. 1 \in DOMAIN queue[d] /\ queue[d][1] \in Nat
    BY <1>2, <2>2, ElementOfSeq
  <2>. QED
    BY <1>6, <2>1, <2>2, <2>3, <2>4
<1>8. \A n \in DOMAIN queue'[d] : tx < queue'[d][n]
  BY <1>2, <1>7 DEF OrderInv, QueueInOrder
<1>9. /\ \A t \in Tasklet : /\ batch'[d][t].det \in Seq(SubTx) /\ batch'[d][t].opt \in Seq(SubTx)
                            /\ \A n \in Opts(d, t)' :
                                 Optimistic(OptTx(d, t, n)')
      /\ \A t \in Tasklet :
           Load(d, t)'
             = Load(d, t) + (IF t = th THEN 1 ELSE 0)
      /\ \A t \in Tasklet : \A n \in Dets(d, t)' :
           \/ n \in Dets(d, t) /\ Tx(d, t, n)' = Tx(d, t, n) /\ Ts(d, t, n)' = Ts(d, t, n)
           \/ /\ t = th /\ n = NDets(d, t) + 1
              /\ Tx(d, t, n)' = tx /\ Ts(d, t, n)' = dpu_ts[d]
  BY TakeStores
<1>. HIDE DEF tx, th
<1>10. Contents(d)'
  BY <1>1, <1>2, <1>7, <1>9 DEF Contents, Optimistic
<1>11. Turns(d)'
  BY <1>1, <1>2, <1>3, <1>9, TurnsGoOn DEF OrderInv, th
<1>12. QueueInOrder(d)'
  <2>. SUFFICES ASSUME NEW m \in DOMAIN queue'[d], NEW n \in DOMAIN queue'[d], m < n
                PROVE  queue'[d][m] < queue'[d][n]
    BY DEF QueueInOrder
  <2>1. m + 1 < n + 1
    BY <1>7
  <2>. QED
    BY <1>2, <1>7, <2>1 DEF OrderInv, QueueInOrder
\* Every deterministic one of the new batch is an old one or the one just taken.
<1>13. ASSUME NEW t \in Tasklet, NEW n \in Dets(d, t)'
       PROVE  \/ /\ n \in Dets(d, t) /\ Tx(d, t, n)' = Tx(d, t, n) /\ Ts(d, t, n)' = Ts(d, t, n)
                 /\ Tx(d, t, n)' < tx /\ Ts(d, t, n)' < dpu_ts[d]
                 /\ turn[d].prev <= Ts(d, t, n)'
                 /\ Tx(d, t, n)' \in Nat /\ Ts(d, t, n)' \in Nat
              \/ /\ t = th /\ n = NDets(d, t) + 1
                 /\ Tx(d, t, n)' = tx /\ Ts(d, t, n)' = dpu_ts[d]
  <2>1. CASE n \in Dets(d, t) /\ Tx(d, t, n)' = Tx(d, t, n) /\ Ts(d, t, n)' = Ts(d, t, n)
    <3>1. /\ Ts(d, t, n) < dpu_ts[d] /\ turn[d].prev <= Ts(d, t, n)
          /\ Tx(d, t, n) < tx
      BY <1>1, <1>2, <1>7, <2>1 DEF OrderInv, Numbered, tx
    <3>2. Tx(d, t, n) \in Nat /\ Ts(d, t, n) \in Nat
      BY <1>2, <2>1, DetTypes DEF OrderInv
    <3>. QED
      BY <2>1, <3>1, <3>2
  <2>2. CASE /\ t = th /\ n = NDets(d, t) + 1
             /\ Tx(d, t, n)' = tx /\ Ts(d, t, n)' = dpu_ts[d]
    BY <2>2
  <2>. QED
    BY <1>9, <2>1, <2>2
<1>14. Numbered(d)'
  <2>. SUFFICES ASSUME NEW t \in Tasklet, NEW n \in Dets(d, t)'
                PROVE  /\ turn[d].prev <= Ts(d, t, n)'
                       /\ Ts(d, t, n)' < dpu_ts[d] + 1
                       /\ \A m \in DOMAIN queue'[d] : Tx(d, t, n)' < queue'[d][m]
                       /\ \A u \in Tasklet : \A m \in Dets(d, u)' :
                            /\ Ts(d, u, m)' = Ts(d, t, n)' => u = t /\ m = n
                            /\ Ts(d, u, m)' < Ts(d, t, n)' =>
                                 Tx(d, u, m)' < Tx(d, t, n)'
    BY <1>3 DEF Numbered
  <2>1. turn[d].prev <= dpu_ts[d]
    <3>1. PICK r \in Nat : dpu_ts[d] = turn[d].prev + r * NR_TASKLETS + th
      BY <1>1, <1>2 DEF OrderInv, Turns, th
    <3>2. r * NR_TASKLETS \in Nat /\ th \in Nat
      BY <1>2, HostAssumption DEF Tasklet
    <3>. QED
      BY <1>2, <3>1, <3>2
  <2>2. turn[d].prev <= Ts(d, t, n)' /\ Ts(d, t, n)' < dpu_ts[d] + 1
    <3>1. CASE /\ turn[d].prev <= Ts(d, t, n)' /\ Ts(d, t, n)' < dpu_ts[d]
               /\ Ts(d, t, n)' \in Nat
      BY <1>2, <3>1
    <3>2. CASE Ts(d, t, n)' = dpu_ts[d]
      BY <1>2, <2>1, <3>2
    <3>. QED
      BY <1>13, <3>1, <3>2
  <2>3. ASSUME NEW m \in DOMAIN queue'[d] PROVE Tx(d, t, n)' < queue'[d][m]
    <3>1. tx < queue'[d][m] /\ queue'[d][m] \in Nat
      BY <1>7, <1>8, ElementOfSeq, LenProperties
    <3>. QED
      <4>1. CASE Tx(d, t, n)' < tx /\ Tx(d, t, n)' \in Nat
        BY <1>7, <3>1, <4>1
      <4>2. CASE Tx(d, t, n)' = tx
        BY <3>1, <4>2
      <4>. QED
        BY <1>13, <4>1, <4>2
  <2>4. ASSUME NEW u \in Tasklet, NEW m \in Dets(d, u)'
        PROVE  /\ Ts(d, u, m)' = Ts(d, t, n)' => u = t /\ m = n
               /\ Ts(d, u, m)' < Ts(d, t, n)' =>
                    Tx(d, u, m)' < Tx(d, t, n)'
    <3>1. CASE /\ n \in Dets(d, t) /\ Tx(d, t, n)' = Tx(d, t, n) /\ Ts(d, t, n)' = Ts(d, t, n)
               /\ m \in Dets(d, u) /\ Tx(d, u, m)' = Tx(d, u, m) /\ Ts(d, u, m)' = Ts(d, u, m)
      BY <1>1, <1>2, <3>1 DEF OrderInv, Numbered
    <3>2. CASE /\ t = th /\ n = NDets(d, t) + 1
               /\ Tx(d, t, n)' = tx /\ Ts(d, t, n)' = dpu_ts[d]
      BY <1>2, <1>13, <3>2
    <3>3. CASE /\ u = th /\ m = NDets(d, u) + 1
               /\ Tx(d, u, m)' = tx /\ Ts(d, u, m)' = dpu_ts[d]
      <4>1. CASE Ts(d, t, n)' < dpu_ts[d] /\ Ts(d, t, n)' \in Nat
        BY <1>2, <3>3, <4>1
      <4>2. CASE /\ t = th /\ n = NDets(d, t) + 1 /\ Ts(d, t, n)' = dpu_ts[d]
        BY <1>2, <3>3, <4>2
      <4>. QED
        BY <1>13, <4>1, <4>2
    <3>. QED
      BY <1>13, <3>1, <3>2, <3>3
  <2>. QED
    BY <2>2, <2>3, <2>4
<1>15. InTurn(d)'
  <2>. SUFFICES ASSUME fails[d] = 0
                PROVE  /\ clock[d] = turn[d].prev
                       /\ \A t \in Tasklet : \A n \in Dets(d, t)' :
                            clock[d] <= Ts(d, t, n)'
    BY <1>1, <1>3 DEF InTurn, Undone
  <2>1. clock[d] = turn[d].prev
    BY <1>1, <1>2 DEF OrderInv, InTurn
  <2>2. ASSUME NEW t \in Tasklet, NEW n \in Dets(d, t)'
        PROVE  turn[d].prev <= Ts(d, t, n)'
    BY <1>3, <1>14, <2>2 DEF Numbered
  <2>. QED
    BY <2>1, <2>2
<1>16. LogInOrder(d)'
  <2>. SUFFICES ASSUME fails[d] = 0, NEW m \in DOMAIN log[d], ~ Optimistic(log[d][m])
                PROVE  /\ \A n \in DOMAIN log[d] :
                            m < n /\ ~ Optimistic(log[d][n]) => log[d][m] < log[d][n]
                       /\ \A n \in DOMAIN queue'[d] : log[d][m] < queue'[d][n]
                       /\ \A t \in Tasklet : \A n \in Dets(d, t)' :
                            log[d][m] < Tx(d, t, n)'
    BY <1>1 DEF LogInOrder, Optimistic
  <2>1. /\ \A n \in DOMAIN log[d] : m < n /\ ~ Optimistic(log[d][n]) => log[d][m] < log[d][n]
        /\ \A n \in DOMAIN queue[d] : log[d][m] < queue[d][n]
        /\ \A t \in Tasklet : \A n \in Dets(d, t) : log[d][m] < Tx(d, t, n)
    BY <1>1, <1>2 DEF OrderInv, LogInOrder, Undone
  <2>2. log[d][m] < tx
    BY <1>7, <2>1 DEF tx
  <2>. QED
    BY <1>7, <1>13, <2>1, <2>2
<1>17. OrderInv(d)'
  BY <1>10, <1>11, <1>12, <1>14, <1>15, <1>16 DEF OrderInv
<1>18. \A e \in Dpu \ {d} : UNCHANGED OrderView(e)
  BY <1>1, <1>4, <1>6 DEF OrderView, DpuView
<1>. QED
  BY <1>4, <1>6, <1>17, <1>18, OtherOrders

\* What the tasklets may change of the parts of OrderInv that do not speak of them.
LEMMA BatchSame ==
  ASSUME NEW d \in Dpu, OrderInv(d), UNCHANGED <<batchVars, host>>, log'[d] \in Seq(Nat)
  PROVE  Contents(d)' /\ Turns(d)' /\ QueueInOrder(d)' /\ Numbered(d)'
<1>1. UNCHANGED <<txs, queue, batch, dpu_ts, turn, host>>
  BY DEF batchVars
<1>2. Contents(d)' /\ Turns(d)' /\ QueueInOrder(d)'
  BY <1>1, BatchStays
<1>3. /\ \A t : Dets(d, t)' = Dets(d, t)
      /\ \A t, n : Ts(d, t, n)' = Ts(d, t, n) /\ Tx(d, t, n)' = Tx(d, t, n)
  BY <1>1, DetsSame
<1>4. Numbered(d)'
  BY <1>1, <1>3 DEF OrderInv, Numbered
<1>. QED
  BY <1>2, <1>4

\* A deterministic transaction commits in its turn: it is the first not yet committed.
LEMMA DetInTurn ==
  ASSUME OInv, NEW d \in Dpu, NEW t \in Tasklet, pc[d][t] = "det",
         NEW p \in Dets(d, t), p = pos[d][t],
         Turn(d, batch[d][t].det[p]), fails[d] = 0
  PROVE  /\ Undone(d, t, p) /\ Ts(d, t, p) = clock[d] /\ clock[d] \in Nat
         /\ \A u \in Tasklet : \A n \in Dets(d, u) :
              /\ n \in Nat /\ Ts(d, u, n) \in Nat
              /\ Undone(d, u, n) <=> clock[d] <= Ts(d, u, n)
              /\ Ts(d, u, n) = clock[d] => u = t /\ n = p
              /\ clock[d] < Ts(d, u, n) => Tx(d, t, p) < Tx(d, u, n)
<1>. DEFINE c        == clock[d]
            ts(u, n) == Ts(d, u, n)
            tx(u, n) == Tx(d, u, n)
            N(u)     == Dets(d, u)
<1>1. /\ Contents(d) /\ Numbered(d) /\ InTurn(d) /\ host[d] = "run" /\ c \in Nat
  BY Running DEF OInv, OrderInv, CInv, Counters
<1>2. \A u \in Tasklet : \A n \in N(u) : n \in Nat /\ ts(u, n) \in Nat
  <2>. SUFFICES ASSUME NEW u \in Tasklet, NEW n \in N(u)
                PROVE  n \in Nat /\ ts(u, n) \in Nat
    OBVIOUS
  <2>. QED
    BY <1>1, DetTypes
<1>3. \A u \in Tasklet : \A n \in N(u) : Undone(d, u, n) <=> c <= ts(u, n)
  BY <1>1 DEF InTurn
<1>4. \A u \in Tasklet : \A n \in N(u) :
        /\ ts(u, n) = ts(t, p) => u = t /\ n = p
        /\ ts(t, p) < ts(u, n) => tx(t, p) < tx(u, n)
  BY <1>1 DEF Numbered
<1>5. p \in N(t) /\ c >= ts(t, p) /\ Undone(d, t, p)
  <2>1. p >= p
    BY <1>2
  <2>. QED
    BY <2>1 DEF Turn, Undone, Pending, Ts
<1>. HIDE DEF c, ts, tx, N
<1>6. ts(t, p) = c
  BY <1>1, <1>2, <1>3, <1>5
<1>7. \A u \in Tasklet : \A n \in N(u) :
        /\ n \in Nat /\ ts(u, n) \in Nat
        /\ Undone(d, u, n) <=> c <= ts(u, n)
        /\ ts(u, n) = c => u = t /\ n = p
        /\ c < ts(u, n) => tx(t, p) < tx(u, n)
  BY <1>2, <1>3, <1>4, <1>6
<1>. QED
  BY <1>1, <1>5, <1>6, <1>7 DEF c, ts, tx, N

\* Sequence new is old with x at its end.
Extended(old, new, x) ==
  \E L \in Nat : /\ DOMAIN old = 1 .. L /\ DOMAIN new = 1 .. L + 1
                 /\ \A m \in 1 .. L : new[m] = old[m]
                 /\ new[L + 1] = x

LEMMA ExtendedIs ==
  ASSUME NEW old \in Seq(Nat), NEW x \in Nat
  PROVE  Extended(old, Append(old, x), x)
<1>1. /\ Append(old, x) \in Seq(Nat)
      /\ Len(Append(old, x)) = Len(old) + 1
      /\ \A i \in 1 .. Len(old) : Append(old, x)[i] = old[i]
      /\ Append(old, x)[Len(old) + 1] = x
  BY AppendProperties
<1>2. /\ Len(old) \in Nat /\ DOMAIN old = 1 .. Len(old)
      /\ DOMAIN Append(old, x) = 1 .. Len(old) + 1
  BY <1>1, LenProperties
<1>. QED
  BY <1>1, <1>2 DEF Extended

\* The deterministic transaction whose turn it is commits.
LEMMA DetOrders ==
  ASSUME OInv, NEW d \in Dpu, NEW t \in Tasklet, pc[d][t] = "det",
         NEW p \in Dets(d, t), p = pos[d][t],
         Turn(d, batch[d][t].det[p]), fails[d] = 0,
         UNCHANGED <<txs, queue, batch, turn, dpu_ts, host, pc>>,
         clock'[d] = clock[d] + 1,
         Extended(log[d], log'[d], Tx(d, t, p)),
         pos'[d][t] = p + 1, \A u \in Tasklet \ {t} : pos'[d][u] = pos[d][u]
  PROVE  InTurn(d)' /\ LogInOrder(d)'
<1>. DEFINE c        == clock[d]
            ts(u, n) == Ts(d, u, n)
            tx(u, n) == Tx(d, u, n)
            N(u)     == Dets(d, u)
            U(u, n)  == Undone(d, u, n)
            V(u, n)  == Undone(d, u, n)'
            x        == tx(t, p)
            old      == log[d]
            new      == log'[d]
            Q        == DOMAIN queue[d]
            q(n)     == queue[d][n]
<1>1. /\ U(t, p) /\ ts(t, p) = c /\ c \in Nat /\ p \in N(t)
      /\ \A u \in Tasklet : \A n \in N(u) :
           /\ n \in Nat /\ ts(u, n) \in Nat
           /\ U(u, n) <=> c <= ts(u, n)
           /\ ts(u, n) = c => u = t /\ n = p
           /\ c < ts(u, n) => x < tx(u, n)
  BY DetInTurn
<1>2. host[d] = "run" /\ Numbered(d) /\ LogInOrder(d)
  BY Running DEF OInv, CInv, OrderInv
<1>3. ASSUME NEW u \in Tasklet, NEW n \in N(u)
      PROVE  V(u, n) <=> U(u, n) /\ (u # t \/ n # p)
  <2>1. CASE u = t
    <3>1. U(u, n) <=> n >= p
      BY <1>2, <2>1 DEF Undone, Pending
    <3>2. V(u, n) <=> n >= p + 1
      BY <1>2, <2>1 DEF Undone, Pending
    <3>3. n \in Nat /\ p \in Nat
      BY <1>1
    <3>4. n >= p + 1 <=> n >= p /\ n # p
      BY <3>3
    <3>. QED
      BY <2>1, <3>1, <3>2, <3>4
  <2>2. CASE u # t
    BY <1>2, <2>2 DEF Undone, Pending
  <2>. QED
    BY <2>1, <2>2
<1>4. \A n \in Q : x < q(n)
  BY <1>1, <1>2 DEF Numbered
<1>5. \A m \in DOMAIN old : ~ Optimistic(old[m]) =>
        /\ \A n \in DOMAIN old : m < n /\ ~ Optimistic(old[n]) => old[m] < old[n]
        /\ \A n \in Q : old[m] < q(n)
        /\ \A u \in Tasklet : \A n \in N(u) : U(u, n) => old[m] < tx(u, n)
  BY <1>2 DEF LogInOrder
<1>6. PICK L \in Nat : /\ DOMAIN old = 1 .. L /\ DOMAIN new = 1 .. L + 1
                       /\ \A m \in 1 .. L : new[m] = old[m]
                       /\ new[L + 1] = x
  BY DEF Extended
<1>. DEFINE same == /\ \A u : Dets(d, u)' = Dets(d, u)
                    /\ \A u, n : Ts(d, u, n)' = Ts(d, u, n) /\ Tx(d, u, n)' = Tx(d, u, n)
<1>12. same
  BY DetsSame
<1>7. (\A u \in Tasklet : \A n \in N(u) : V(u, n) <=> c + 1 <= ts(u, n)) => InTurn(d)'
  BY <1>2, <1>12 DEF InTurn
<1>8. (\A m \in DOMAIN new : ~ Optimistic(new[m]) =>
         /\ \A n \in DOMAIN new : m < n /\ ~ Optimistic(new[n]) => new[m] < new[n]
         /\ \A n \in Q : new[m] < q(n)
         /\ \A u \in Tasklet : \A n \in N(u) : V(u, n) => new[m] < tx(u, n))
      => LogInOrder(d)'
  BY <1>12 DEF LogInOrder, Optimistic
<1>. HIDE DEF same, c, ts, tx, N, U, V, x, old, new, Q, q
<1>9. \A u \in Tasklet : \A n \in N(u) :
        /\ V(u, n) <=> c + 1 <= ts(u, n)
        /\ V(u, n) => U(u, n) /\ x < tx(u, n)
  <2>. SUFFICES ASSUME NEW u \in Tasklet, NEW n \in N(u)
                PROVE  /\ V(u, n) <=> c + 1 <= ts(u, n)
                       /\ V(u, n) => U(u, n) /\ x < tx(u, n)
    OBVIOUS
  <2>1. V(u, n) <=> U(u, n) /\ ts(u, n) # c
    BY <1>1, <1>3
  <2>2. PICK k \in Nat : k = ts(u, n)
    BY <1>1
  <2>3. V(u, n) <=> c < k
    BY <1>1, <2>1, <2>2
  <2>. QED
    BY <1>1, <2>1, <2>2, <2>3
<1>10. \A m \in DOMAIN old : ~ Optimistic(old[m]) => old[m] < x
  BY <1>1, <1>5 DEF x
<1>11. ASSUME NEW m \in DOMAIN new, ~ Optimistic(new[m])
       PROVE  /\ \A n \in DOMAIN new : m < n /\ ~ Optimistic(new[n]) => new[m] < new[n]
              /\ \A n \in Q : new[m] < q(n)
              /\ \A u \in Tasklet : \A n \in N(u) : V(u, n) => new[m] < tx(u, n)
  <2>1. CASE m = L + 1
    <3>1. \A n \in DOMAIN new : ~ (m < n)
      BY <1>6, <2>1
    <3>. QED
      BY <1>4, <1>6, <1>9, <2>1, <3>1
  <2>2. CASE m \in DOMAIN old
    <3>1. new[m] = old[m] /\ ~ Optimistic(old[m])
      BY <1>6, <1>11, <2>2
    <3>2. ASSUME NEW n \in DOMAIN new, m < n, ~ Optimistic(new[n]) PROVE old[m] < new[n]
      <4>1. CASE n \in DOMAIN old
        <5>1. new[n] = old[n]
          BY <1>6, <4>1
        <5>. QED
          BY <1>5, <2>2, <3>1, <3>2, <4>1, <5>1
      <4>2. CASE n = L + 1
        BY <1>6, <1>10, <2>2, <3>1, <4>2
      <4>. QED
        BY <1>6, <4>1, <4>2
    <3>. QED
      BY <1>5, <1>9, <2>2, <3>1, <3>2
  <2>. QED
    BY <1>6, <2>1, <2>2
<1>. QED
  BY <1>7, <1>8, <1>9, <1>11

\* Beyond the barrier no deterministic one is left, and no order is broken.
LEMMA OptOrders ==
  ASSUME OInv, NEW d \in Dpu, NEW t \in Tasklet, pc[d][t] = "opt",
         NEW tx \in Nat, Optimistic(tx),
         UNCHANGED <<batchVars, host, pc>>, clock'[d] = clock[d] + 1,
         log'[d] = Append(log[d], tx), fails[d] = 0
  PROVE  InTurn(d)' /\ LogInOrder(d)'
<1>1. /\ OrderInv(d) /\ host[d] = "run" /\ clock[d] \in Nat /\ log[d] \in Seq(Nat)
      /\ \A u \in Tasklet : pc[d][u] # "det"
  BY Running DEF OInv, OrderInv, Contents, CInv, Counters, IInv, PhaseInv, Beyond
<1>2. UNCHANGED <<txs, queue, batch, turn, dpu_ts, host, pc>>
  BY DEF batchVars
<1>3. \A u, n : u \in Tasklet => ~ Undone(d, u, n) /\ ~ Undone(d, u, n)'
  BY <1>1, <1>2 DEF Undone, Pending
<1>4. InTurn(d)'
  <2>1. ASSUME NEW u \in Tasklet, NEW n \in Dets(d, u)
        PROVE  ~ (clock[d] + 1 <= Ts(d, u, n))
    <3>1. Ts(d, u, n) \in Nat
      BY <1>1, DetTypes DEF OrderInv
    <3>2. ~ (clock[d] <= Ts(d, u, n))
      BY <1>1, <1>3 DEF OrderInv, InTurn
    <3>. QED
      BY <1>1, <3>1, <3>2
  <2>2. /\ \A u : Dets(d, u)' = Dets(d, u)
        /\ \A u, n : Ts(d, u, n)' = Ts(d, u, n)
    BY <1>2, DetsSame
  <2>. QED
    BY <1>1, <1>2, <1>3, <2>1, <2>2 DEF InTurn
<1>5. /\ DOMAIN log'[d] = 1 .. Len(log[d]) + 1 /\ DOMAIN log[d] = 1 .. Len(log[d])
      /\ Len(log[d]) \in Nat
      /\ \A m \in DOMAIN log[d] : log'[d][m] = log[d][m]
      /\ log'[d][Len(log[d]) + 1] = tx
  BY <1>1, AppendProperties, LenProperties
<1>6. \A m \in DOMAIN log'[d] : ~ Optimistic(log'[d][m]) =>
        m \in DOMAIN log[d] /\ log'[d][m] = log[d][m]
  BY <1>5
<1>7. LogInOrder(d)'
  BY <1>1, <1>2, <1>3, <1>6 DEF OrderInv, LogInOrder, Optimistic
<1>. QED
  BY <1>4, <1>7

LEMMA AttemptOrders ==
  ASSUME OInv, NEW d \in Dpu, NEW t \in Tasklet, NEW kind \in {"det", "opt"}, NEW sub,
         pc[d][t] = kind, pos[d][t] <= Len(batch[d][t][kind]),
         sub = batch[d][t][kind][pos[d][t]], kind = "det" => Turn(d, sub),
         Attempt(d, t, sub), CInv'
  PROVE  OInv'
<1>1. /\ UNCHANGED <<batchVars, host, pc>> /\ txs' = txs /\ queue' = queue
      /\ clock' = [clock EXCEPT ![d] = @ + 1]
  BY DEF Attempt, batchVars
<1>2. /\ OrderInv(d) /\ pos[d][t] \in Nat \ {0} /\ clock \in [Dpu -> Nat] /\ fails \in [Dpu -> Nat]
      /\ pos \in [Dpu -> [Tasklet -> Nat \ {0}]] /\ DOMAIN log = Dpu /\ log[d] \in Seq(Nat)
      /\ batch[d][t][kind] \in Seq(SubTx)
      /\ kind = "opt" => \A n \in Opts(d, t) : Optimistic(OptTx(d, t, n))
      /\ DOMAIN queue = Dpu
  <2>1. /\ OrderInv(d) /\ DOMAIN queue = Dpu
        /\ clock \in [Dpu -> Nat] /\ fails \in [Dpu -> Nat]
        /\ pos \in [Dpu -> [Tasklet -> Nat \ {0}]] /\ DOMAIN log = Dpu
    BY DEF OInv, CInv, Counters, IInv, Types
  <2>2. /\ log[d] \in Seq(Nat) /\ batch[d][t].det \in Seq(SubTx) /\ batch[d][t].opt \in Seq(SubTx)
        /\ \A n \in Opts(d, t) : Optimistic(OptTx(d, t, n))
    BY <2>1 DEF OrderInv, Contents
  <2>. QED
    BY <2>1, <2>2
<1>3. pos[d][t] \in DOMAIN batch[d][t][kind] /\ sub.tx \in Nat
  <2>1. pos[d][t] \in 1 .. Len(batch[d][t][kind])
    BY <1>2, LenProperties
  <2>2. sub \in SubTx
    BY <1>2, <2>1, ElementOfSeq
  <2>. QED
    BY <1>2, <2>1, <2>2, LenProperties DEF SubTx
<1>4. clock'[d] = clock[d] + 1 /\ \A e \in Dpu \ {d} : clock'[e] = clock[e]
  BY <1>1, <1>2
<1>5. CASE UNCHANGED <<log, pos>> /\ fails' = [fails EXCEPT ![d] = @ + 1]
  <2>1. fails'[d] # 0 /\ \A e \in Dpu \ {d} : fails'[e] = fails[e]
    BY <1>2, <1>5
  <2>2. InTurn(d)' /\ LogInOrder(d)'
    BY <2>1 DEF InTurn, LogInOrder
  <2>3. OrderInv(d)'
    BY <1>1, <1>2, <1>5, <2>2, BatchSame DEF OrderInv
  <2>4. \A e \in Dpu \ {d} : UNCHANGED OrderView(e)
    BY <1>1, <1>4, <1>5, <2>1 DEF OrderView, DpuView, batchVars
  <2>. QED
    BY <1>1, <1>2, <2>3, <2>4, OtherOrders
<1>6. CASE /\ log' = [log EXCEPT ![d] = Append(@, sub.tx)]
           /\ pos' = [pos EXCEPT ![d][t] = @ + 1]
           /\ fails' = fails
  <2>1. /\ log'[d] = Append(log[d], sub.tx) /\ \A e \in Dpu \ {d} : log'[e] = log[e]
        /\ \A e \in Dpu \ {d} : pos'[e] = pos[e]
    BY <1>2, <1>6
  <2>2. log'[d] \in Seq(Nat)
    BY <1>2, <1>3, <2>1, AppendProperties
  <2>3. InTurn(d)' /\ LogInOrder(d)'
    <3>1. CASE fails[d] # 0
      BY <1>6, <3>1 DEF InTurn, LogInOrder
    <3>2. CASE fails[d] = 0 /\ kind = "det"
      <4>1. Extended(log[d], log'[d], sub.tx)
        BY <1>2, <1>3, <2>1, ExtendedIs
      <4>2. /\ UNCHANGED <<txs, queue, batch, turn, dpu_ts, host, pc>>
            /\ pos'[d][t] = pos[d][t] + 1 /\ \A u \in Tasklet \ {t} : pos'[d][u] = pos[d][u]
        BY <1>1, <1>2, <1>6 DEF batchVars
      <4>3. pos[d][t] \in Dets(d, t) /\ Tx(d, t, pos[d][t]) = sub.tx /\ sub = batch[d][t].det[pos[d][t]]
        BY <1>3, <3>2 DEF Dets, Tx
      <4>4. pc[d][t] = "det" /\ Turn(d, sub)
        BY <3>2
      <4>. QED
        BY <1>4, <3>2, <4>1, <4>2, <4>3, <4>4, DetOrders
    <3>3. CASE fails[d] = 0 /\ kind = "opt"
      <4>1. Optimistic(sub.tx)
        BY <1>2, <1>3, <3>3 DEF Opts, OptTx
      <4>. QED
        BY <1>1, <1>3, <1>4, <2>1, <3>3, <4>1, OptOrders
    <3>. QED
      BY <3>1, <3>2, <3>3
  <2>4. OrderInv(d)'
    BY <1>1, <1>2, <2>2, <2>3, BatchSame DEF OrderInv
  <2>5. \A e \in Dpu \ {d} : UNCHANGED OrderView(e)
    BY <1>1, <1>4, <1>6, <2>1 DEF OrderView, DpuView, batchVars
  <2>. QED
    BY <1>1, <1>2, <2>4, <2>5, OtherOrders
<1>. QED
  BY <1>5, <1>6 DEF Attempt

\* A tasklet moves on without an attempt.
LEMMA MoveOrders ==
  ASSUME OInv, NEW d \in Dpu, CInv', UNCHANGED <<batchVars, host, clock, fails, log>>,
         \A e \in Dpu \ {d} : pc'[e] = pc[e] /\ pos'[e] = pos[e],
         \A t \in Tasklet : \A n \in Dets(d, t) :
           Pending(d, t, "det", n)' <=> Pending(d, t, "det", n)
  PROVE  OInv'
<1>1. /\ OrderInv(d) /\ log[d] \in Seq(Nat)
      /\ UNCHANGED <<txs, queue, batch, turn, dpu_ts, host, clock, fails, log>>
  BY DEF OInv, OrderInv, Contents, batchVars
<1>2. \A t \in Tasklet : \A n \in Dets(d, t) : Undone(d, t, n)' <=> Undone(d, t, n)
  BY <1>1 DEF Undone
<1>3. /\ \A u : Dets(d, u)' = Dets(d, u)
      /\ \A u, n : Ts(d, u, n)' = Ts(d, u, n) /\ Tx(d, u, n)' = Tx(d, u, n)
  BY <1>1, DetsSame
<1>4. InTurn(d)' /\ LogInOrder(d)'
  BY <1>1, <1>2, <1>3 DEF OrderInv, InTurn, LogInOrder, Optimistic
<1>5. OrderInv(d)'
  BY <1>1, <1>4, BatchSame DEF OrderInv
<1>6. \A e \in Dpu \ {d} : UNCHANGED OrderView(e)
  BY <1>1 DEF OrderView, DpuView
<1>. QED
  BY <1>1, <1>5, <1>6, OtherOrders DEF OInv

LEMMA DetDoneOrders ==
  ASSUME OInv, NEW d \in Dpu, NEW t \in Tasklet, DetDone(d, t), CInv'
  PROVE  OInv'
<1>1. /\ pc[d][t] = "det" /\ pos[d][t] > Len(batch[d][t].det)
      /\ pc' = [pc EXCEPT ![d][t] = "barrier"]
      /\ UNCHANGED <<batchVars, host, pos, clock, fails, log>>
  BY DEF DetDone, Goto
<1>2. /\ pos \in [Dpu -> [Tasklet -> Nat]]
      /\ pc \in [Dpu -> [Tasklet -> {"det", "barrier", "opt", "done"}]]
  BY DEF OInv, CInv, IInv, Types
<1>3. /\ pc'[d][t] = "barrier" /\ \A u \in Tasklet \ {t} : pc'[d][u] = pc[d][u]
      /\ \A e \in Dpu \ {d} : pc'[e] = pc[e]
  BY <1>1, <1>2
<1>4. ASSUME NEW u \in Tasklet, NEW n \in Dets(d, u)
      PROVE  Pending(d, u, "det", n)' <=> Pending(d, u, "det", n)
  <2>1. CASE u = t
    <3>1. Dets(d, t) = 1 .. Len(batch[d][t].det) /\ Len(batch[d][t].det) \in Nat
      BY SeqDomain DEF OInv, CInv, IInv, Types, Dets
    <3>2. ~ (n >= pos[d][t])
      BY <1>1, <1>2, <2>1, <3>1
    <3>. QED
      BY <1>3, <2>1, <3>2 DEF Pending
  <2>2. CASE u # t
    BY <1>1, <1>3, <2>2 DEF Pending
  <2>. QED
    BY <2>1, <2>2
<1>. QED
  BY <1>1, <1>3, <1>4, MoveOrders

LEMMA OpenBarrierOrders ==
  ASSUME OInv, NEW d \in Dpu, OpenBarrier(d), CInv'
  PROVE  OInv'
<1>1. /\ \A t \in Tasklet : pc[d][t] = "barrier"
      /\ pc' = [pc EXCEPT ![d] = [t \in Tasklet |-> "opt"]]
      /\ pos' = [pos EXCEPT ![d] = [t \in Tasklet |-> 1]]
      /\ UNCHANGED <<batchVars, host, clock, fails, log>>
  BY DEF OpenBarrier, Together
<1>2. /\ \A t \in Tasklet : pc'[d][t] = "opt"
      /\ \A e \in Dpu \ {d} : pc'[e] = pc[e] /\ pos'[e] = pos[e]
  BY <1>1 DEF OInv, CInv, IInv, Types
<1>3. \A t \in Tasklet : \A n \in Dets(d, t) :
        Pending(d, t, "det", n)' <=> Pending(d, t, "det", n)
  BY <1>1, <1>2 DEF Pending
<1>. QED
  BY <1>1, <1>2, <1>3, MoveOrders

LEMMA OptDoneOrders ==
  ASSUME OInv, NEW d \in Dpu, NEW t \in Tasklet, OptDone(d, t), CInv'
  PROVE  OInv'
<1>1. /\ pc[d][t] = "opt" /\ pc' = [pc EXCEPT ![d][t] = "done"]
      /\ UNCHANGED <<batchVars, host, pos, clock, fails, log>>
  BY DEF OptDone, Goto
<1>2. pc \in [Dpu -> [Tasklet -> {"det", "barrier", "opt", "done"}]]
  BY DEF OInv, CInv, IInv, Types
<1>3. /\ pc'[d][t] = "done" /\ \A u \in Tasklet \ {t} : pc'[d][u] = pc[d][u]
      /\ \A e \in Dpu \ {d} : pc'[e] = pc[e]
  BY <1>1, <1>2
<1>4. ASSUME NEW u \in Tasklet, NEW n \in Dets(d, u)
      PROVE  Pending(d, u, "det", n)' <=> Pending(d, u, "det", n)
  BY <1>1, <1>3 DEF Pending
<1>. QED
  BY <1>1, <1>3, <1>4, MoveOrders

LEMMA OrderNext ==
  ASSUME OInv, Unmixed, CInv', [Next]_vars
  PROVE  OInv'
<1>1. CASE HostStep
  <2>1. ASSUME NEW d \in Dpu, Begin(d) \/ BuildTake(d) \/ Built(d) PROVE OInv'
    BY <2>1, BeginOrders, TakeOrders, BuiltOrders
  <2>. QED
    BY <1>1, <2>1, LaunchOrders, ReturnOrders DEF HostStep
<1>2. ASSUME NEW d \in Dpu, OpenBarrier(d) PROVE OInv'
  BY <1>2, OpenBarrierOrders
<1>3. ASSUME NEW d \in Dpu, NEW t \in Tasklet, TaskletStep(d, t) PROVE OInv'
  <2>1. CASE Deterministic(d, t)
    BY <2>1, AttemptOrders DEF Deterministic
  <2>2. CASE OptimisticOne(d, t)
    BY <2>2, AttemptOrders DEF OptimisticOne
  <2>. QED
    BY <1>3, <2>1, <2>2, DetDoneOrders, OptDoneOrders DEF TaskletStep
<1>4. CASE Terminating \/ UNCHANGED vars
  <2>1. UNCHANGED <<batchVars, turn, host, clock, fails, log, queue, pc, pos, batch, dpu_ts, txs>>
    BY <1>4 DEF Terminating, vars, batchVars, dpuVars
  <2>2. \A d \in Dpu : UNCHANGED OrderView(d)
    BY <2>1 DEF OrderView, DpuView
  <2>. QED
    BY <2>1, <2>2, OrderSame DEF OInv
<1>. QED
  BY <1>1, <1>2, <1>3, <1>4 DEF Next

------------------------------------------------------------------------------
(* Batches that are not mixed *)

Capacity == NR_TASKLETS * BATCH_SIZE

\* In every batch of a DPU, Capacity entries of its queue, the deterministic
\* sub-transactions come before the optimistic ones.
DetFirst ==
  \A d \in Dpu : \A j \in Nat : \A m, n \in DOMAIN QueueOf(d) :
    j * Capacity < m /\ m < n /\ n <= (j + 1) * Capacity /\ Optimistic(QueueOf(d)[m])
      => Optimistic(QueueOf(d)[n])

\* The queue is what build_batch has yet to take, and a batch that leaves something
\* in it is full.
Cut(d) ==
  /\ \A n \in DOMAIN queue[d] : /\ dpu_ts[d] + n \in DOMAIN QueueOf(d)
                                /\ queue[d][n] = QueueOf(d)[dpu_ts[d] + n]
  /\ host[d] # "take" /\ queue[d] # <<>> => \E j \in Nat : dpu_ts[d] = j * Capacity
  /\ host[d] = "take" =>
       /\ dpu_ts[d] <= turn[d].prev + Capacity
       /\ queue[d] # <<>> => \E j \in Nat : turn[d].prev = j * Capacity
       /\ \A t \in Tasklet : \A n \in Opts(d, t) :
            \E k \in DOMAIN QueueOf(d) :
              turn[d].prev < k /\ k <= dpu_ts[d] /\ OptTx(d, t, n) = QueueOf(d)[k]

Separated == DetFirst /\ \A d \in Dpu : Cut(d)

LEMMA CutSame ==
  ASSUME NEW d \in Dpu, Cut(d), UNCHANGED OrderView(d)
  PROVE  Cut(d)'
<1>1. /\ host'[d] = host[d] /\ batch'[d] = batch[d] /\ dpu_ts'[d] = dpu_ts[d]
      /\ txs' = txs /\ queue'[d] = queue[d] /\ turn'[d] = turn[d]
  BY DEF OrderView, DpuView
<1>2. QueueOf(d)' = QueueOf(d)
  BY <1>1 DEF QueueOf
<1>3. \A t, n : Opts(d, t)' = Opts(d, t) /\ OptTx(d, t, n)' = OptTx(d, t, n)
  BY <1>1, DetsSame
<1>. QED
  BY <1>1, <1>2, <1>3 DEF Cut

LEMMA DetFirstKept ==
  ASSUME DetFirst, UNCHANGED txs
  PROVE  DetFirst'
<1>1. ASSUME NEW d \in Dpu PROVE QueueOf(d)' = QueueOf(d)
  BY DEF QueueOf
<1>2. \A tx : Optimistic(tx)' <=> Optimistic(tx)
  BY DEF Optimistic
<1>. QED
  BY <1>1, <1>2 DEF DetFirst

\* While a batch is built: how far, and whether the next tasklet is full.
LEMMA Room ==
  ASSUME OInv, NEW d \in Dpu, host[d] = "take", Cut(d)
  PROVE  /\ Takes(d) => dpu_ts[d] < turn[d].prev + Capacity
         /\ ~ Takes(d) /\ queue[d] # <<>> => dpu_ts[d] = turn[d].prev + Capacity
<1>. DEFINE th  == turn[d].thread
            has == Load(d, th)
<1>1. /\ OrderInv(d) /\ th \in Tasklet /\ dpu_ts[d] \in Nat /\ turn[d].prev \in Nat
      /\ NR_TASKLETS \in Nat \ {0} /\ BATCH_SIZE \in Nat \ {0}
  BY HostAssumption DEF OInv, CInv, IInv, Types, Counters
<1>2. th \in Nat /\ th < NR_TASKLETS
  BY <1>1 DEF Tasklet
<1>3. PICK r \in Nat : dpu_ts[d] = turn[d].prev + r * NR_TASKLETS + th /\ has = r
  <2>1. ~ (th < th)
    BY <1>2
  <2>. QED
    BY <1>1, <2>1 DEF OrderInv, Turns
<1>4. Takes(d) <=> queue[d] # <<>> /\ r < BATCH_SIZE
  BY <1>3 DEF Takes, Load
<1>5. PICK k \in Nat : k = r * NR_TASKLETS
  BY <1>1
<1>6. PICK c \in Nat : c = Capacity
  BY <1>1 DEF Capacity
<1>7. PICK p \in Nat : p = turn[d].prev
  BY <1>1
<1>8. dpu_ts[d] = p + k + th
  BY <1>3, <1>5, <1>7
<1>9. ASSUME r < BATCH_SIZE PROVE k + NR_TASKLETS <= c
  <2>1. PICK e \in Nat : BATCH_SIZE = r + 1 + e
    <3>1. BATCH_SIZE - r - 1 \in Nat /\ BATCH_SIZE = r + 1 + (BATCH_SIZE - r - 1)
      BY <1>1, <1>9
    <3>. QED
      BY <3>1
  <2>2. PICK en \in Nat : en = e * NR_TASKLETS
    BY <1>1
  <2>3. NR_TASKLETS * (r + 1 + e) = r * NR_TASKLETS + NR_TASKLETS + e * NR_TASKLETS
    BY <1>1
  <2>. QED
    BY <1>1, <1>5, <1>6, <2>1, <2>2, <2>3 DEF Capacity
<1>10. ASSUME r >= BATCH_SIZE PROVE k >= c
  <2>1. PICK e \in Nat : r = BATCH_SIZE + e
    <3>1. r - BATCH_SIZE \in Nat /\ r = BATCH_SIZE + (r - BATCH_SIZE)
      BY <1>1, <1>10
    <3>. QED
      BY <3>1
  <2>2. PICK en \in Nat : en = e * NR_TASKLETS
    BY <1>1
  <2>3. (BATCH_SIZE + e) * NR_TASKLETS = NR_TASKLETS * BATCH_SIZE + e * NR_TASKLETS
    BY <1>1
  <2>. QED
    BY <1>5, <1>6, <2>1, <2>2, <2>3 DEF Capacity
<1>11. dpu_ts[d] <= p + c
  BY <1>6, <1>7 DEF Cut
<1>12. CASE r < BATCH_SIZE
  <2>1. dpu_ts[d] < p + c
    BY <1>1, <1>2, <1>8, <1>9, <1>12
  <2>. QED
    BY <1>4, <1>6, <1>7, <1>12, <2>1
<1>13. CASE r >= BATCH_SIZE
  <2>1. ~ (r < BATCH_SIZE)
    BY <1>1, <1>13
  <2>2. dpu_ts[d] = p + c
    BY <1>2, <1>8, <1>10, <1>11, <1>13
  <2>. QED
    BY <1>4, <1>6, <1>7, <2>1, <2>2
<1>. QED
  BY <1>1, <1>12, <1>13

LEMMA SeparatedUnmixed == OInv /\ Separated => Unmixed
<1>. SUFFICES ASSUME OInv, Separated, NEW d \in Dpu,
                     host[d] = "take", Takes(d), ~ Optimistic(Head(queue[d])),
                     NEW t \in Tasklet, batch[d][t].opt # <<>>
              PROVE  FALSE
  BY DEF Unmixed
<1>1. Cut(d) /\ Contents(d) /\ dpu_ts[d] \in Nat /\ turn[d].prev \in Nat
  BY DEF Separated, OInv, OrderInv, CInv, IInv, Counters
<1>2. queue[d] # <<>> /\ dpu_ts[d] < turn[d].prev + Capacity
  BY <1>1, Room DEF Takes
<1>3. /\ dpu_ts[d] + 1 \in DOMAIN QueueOf(d)
      /\ Head(queue[d]) = QueueOf(d)[dpu_ts[d] + 1]
  <2>1. 1 \in DOMAIN queue[d] /\ Head(queue[d]) = queue[d][1]
    BY <1>1, <1>2, HeadTailProperties, LenProperties, EmptySeq DEF Contents
  <2>. QED
    BY <1>1, <2>1 DEF Cut
<1>4. 1 \in Opts(d, t)
  BY <1>1, LenProperties, EmptySeq DEF Contents, Opts
<1>5. PICK k \in DOMAIN QueueOf(d) :
        turn[d].prev < k /\ k <= dpu_ts[d] /\ Optimistic(QueueOf(d)[k])
  BY <1>1, <1>4 DEF Cut, Contents
<1>6. PICK j \in Nat : turn[d].prev = j * Capacity
  BY <1>1, <1>2 DEF Cut
<1>7. k \in Nat
  BY DEF QueueOf
<1>8. PICK c \in Nat : c = Capacity
  BY HostAssumption DEF Capacity
<1>9. (j + 1) * Capacity = turn[d].prev + c
  <2>1. (j + 1) * c = j * c + c
    BY <1>8
  <2>. QED
    BY <1>6, <1>8, <2>1
<1>10. j * Capacity < k /\ k < dpu_ts[d] + 1 /\ dpu_ts[d] + 1 <= (j + 1) * Capacity
  BY <1>1, <1>2, <1>5, <1>6, <1>7, <1>8, <1>9
<1>. QED
  BY <1>3, <1>5, <1>10 DEF Separated, DetFirst

\* A step of the host for DPU d, or of a tasklet.
LEMMA CutOthers ==
  ASSUME Separated, NEW d \in Dpu, \A e \in Dpu \ {d} : UNCHANGED OrderView(e),
         UNCHANGED txs, Cut(d)'
  PROVE  Separated'
<1>1. ASSUME NEW e \in Dpu PROVE Cut(e)'
  <2>1. CASE e = d
    BY <2>1
  <2>2. CASE e # d
    BY <2>2, CutSame DEF Separated
  <2>. QED
    BY <2>1, <2>2
<1>. QED
  BY <1>1, DetFirstKept DEF Separated

LEMMA InitCut == Init => \A d \in Dpu : Cut(d)
<1>. SUFFICES ASSUME Init, NEW d \in Dpu PROVE Cut(d)
  OBVIOUS
<1>1. /\ queue[d] = QueueOf(d) /\ dpu_ts[d] = 0 /\ host[d] = "begin"
      /\ txs \in Workloads
  BY DEF Init, BatchInit
<1>2. DOMAIN QueueOf(d) \subseteq Nat
  BY DEF QueueOf
<1>3. 0 = 0 * Capacity
  BY HostAssumption DEF Capacity
<1>. QED
  BY <1>1, <1>2, <1>3 DEF Cut

LEMMA BeginCut ==
  ASSUME OInv, Separated, NEW d \in Dpu, Begin(d)
  PROVE  Separated'
<1>1. /\ host[d] = "begin" /\ host' = [host EXCEPT ![d] = "take"]
      /\ batch' = [batch EXCEPT ![d] = [t \in Tasklet |-> NoSubTxs]]
      /\ turn' = [turn EXCEPT ![d] = [thread |-> 0, prev |-> dpu_ts[d]]]
      /\ UNCHANGED <<txs, queue, pc, pos, clock, fails, dpu_ts, log>>
  BY DEF Begin, BeginBatch, dpuVars
<1>2. DOMAIN batch = Dpu /\ DOMAIN host = Dpu /\ DOMAIN turn = Dpu /\ dpu_ts[d] \in Nat
  BY DEF OInv, CInv, IInv, Types, Counters
<1>3. /\ host'[d] = "take" /\ turn'[d].prev = dpu_ts[d]
      /\ \A t \in Tasklet : batch'[d][t].opt = <<>>
      /\ \A e \in Dpu \ {d} : UNCHANGED <<batch[e], host[e], turn[e]>>
  BY <1>1, <1>2 DEF NoSubTxs
<1>4. Cut(d) /\ QueueOf(d)' = QueueOf(d)
  BY <1>1 DEF Separated, QueueOf
<1>5. PICK c \in Nat : c = Capacity
  BY HostAssumption DEF Capacity
<1>6. dpu_ts[d] <= dpu_ts[d] + Capacity
  BY <1>2, <1>5
<1>7. DOMAIN <<>> = {}
  BY EmptySeq
<1>8. Cut(d)'
  BY <1>1, <1>3, <1>4, <1>6, <1>7 DEF Cut, Opts
<1>. QED
  BY <1>1, <1>3, <1>8, CutOthers DEF OrderView, DpuView

LEMMA TakeCut ==
  ASSUME OInv, Separated, NEW d \in Dpu, BuildTake(d)
  PROVE  Separated'
<1>1. /\ host[d] = "take" /\ Takes(d) /\ queue[d] # <<>>
      /\ UNCHANGED <<txs, host, pc, pos, clock, fails, log>>
      /\ queue' = [queue EXCEPT ![d] = Tail(@)]
      /\ dpu_ts' = [dpu_ts EXCEPT ![d] = @ + 1]
      /\ turn' = [turn EXCEPT ![d].thread = (@ + 1) % NR_TASKLETS]
      /\ \E b : batch' = [batch EXCEPT ![d] = b]
  <2>1. \E b : batch' = [batch EXCEPT ![d] = b]
    BY DEF BuildTake, Take
  <2>. QED
    BY <2>1 DEF BuildTake, Take, Takes, Counts, dpuVars
<1>2. /\ Cut(d) /\ queue[d] \in Seq(Nat) /\ DOMAIN queue = Dpu
      /\ dpu_ts[d] \in Nat /\ turn[d].prev \in Nat
      /\ dpu_ts \in [Dpu -> Nat] /\ turn \in [Dpu -> [thread : Tasklet, prev : Nat]]
      /\ DOMAIN batch = Dpu
  BY DEF Separated, OInv, OrderInv, Contents, CInv, IInv, Types, Counters
<1>3. /\ dpu_ts'[d] = dpu_ts[d] + 1 /\ turn'[d].prev = turn[d].prev /\ host'[d] = "take"
      /\ queue'[d] = Tail(queue[d])
      /\ \A e \in Dpu \ {d} : UNCHANGED <<dpu_ts[e], turn[e], batch[e], queue[e]>>
  BY <1>1, <1>2
<1>4. QueueOf(d)' = QueueOf(d)
  BY <1>1 DEF QueueOf
<1>5. /\ 1 \in DOMAIN queue[d]
      /\ \A n \in DOMAIN queue'[d] : /\ n \in Nat /\ n + 1 \in DOMAIN queue[d]
                                     /\ queue'[d][n] = queue[d][n + 1]
  <2>1. /\ Tail(queue[d]) \in Seq(Nat) /\ Len(Tail(queue[d])) = Len(queue[d]) - 1
        /\ \A i \in 1 .. Len(Tail(queue[d])) : Tail(queue[d])[i] = queue[d][i + 1]
    BY <1>1, <1>2, HeadTailProperties
  <2>2. DOMAIN queue[d] = 1 .. Len(queue[d]) /\ Len(queue[d]) \in Nat /\ Len(queue[d]) # 0
    BY <1>1, <1>2, LenProperties, EmptySeq
  <2>3. DOMAIN Tail(queue[d]) = 1 .. Len(Tail(queue[d]))
    BY <2>1, LenProperties
  <2>. QED
    BY <1>3, <2>1, <2>2, <2>3
<1>6. /\ dpu_ts[d] + 1 \in DOMAIN QueueOf(d)
      /\ queue[d][1] = QueueOf(d)[dpu_ts[d] + 1]
  BY <1>2, <1>5 DEF Cut
<1>7. ASSUME NEW n \in DOMAIN queue'[d]
      PROVE  /\ dpu_ts'[d] + n \in DOMAIN QueueOf(d)
             /\ queue'[d][n] = QueueOf(d)[dpu_ts'[d] + n]
  <2>1. dpu_ts'[d] + n = dpu_ts[d] + (n + 1)
    BY <1>2, <1>3, <1>5
  <2>. QED
    BY <1>2, <1>5, <2>1 DEF Cut
<1>8. PICK c \in Nat : c = Capacity
  BY HostAssumption DEF Capacity
<1>9. dpu_ts'[d] <= turn'[d].prev + Capacity
  BY <1>1, <1>2, <1>3, <1>8, Room
<1>10. \E j \in Nat : turn'[d].prev = j * Capacity
  BY <1>1, <1>2, <1>3 DEF Cut
<1>11. turn[d].prev <= dpu_ts[d]
  <2>1. PICK r \in Nat : dpu_ts[d] = turn[d].prev + r * NR_TASKLETS + turn[d].thread
    BY <1>1 DEF OInv, OrderInv, Turns
  <2>2. PICK k \in Nat : k = r * NR_TASKLETS
    BY HostAssumption
  <2>3. turn[d].thread \in Nat
    BY <1>2 DEF Tasklet
  <2>. QED
    BY <1>2, <2>1, <2>2, <2>3
<1>12. Unmixed
  BY SeparatedUnmixed
<1>13. \A t \in Tasklet : \A n \in Opts(d, t)' :
         /\ Optimistic(OptTx(d, t, n)')
         /\ \/ OptTx(d, t, n)' = queue[d][1]
            \/ \E k \in Opts(d, t) : OptTx(d, t, n)' = OptTx(d, t, k)
  BY <1>12, TakeStores
<1>14. ASSUME NEW t \in Tasklet, NEW n \in Opts(d, t)'
       PROVE  \E k \in DOMAIN QueueOf(d) :
                /\ turn[d].prev < k /\ k <= dpu_ts[d] + 1
                /\ OptTx(d, t, n)' = QueueOf(d)[k]
  <2>1. CASE OptTx(d, t, n)' = queue[d][1]
    BY <1>2, <1>6, <1>11, <2>1
  <2>2. CASE \E k \in Opts(d, t) : OptTx(d, t, n)' = OptTx(d, t, k)
    <3>1. PICK k \in DOMAIN QueueOf(d) :
            /\ turn[d].prev < k /\ k <= dpu_ts[d]
            /\ OptTx(d, t, n)' = QueueOf(d)[k]
      BY <1>1, <1>2, <2>2 DEF Cut
    <3>2. k \in Nat
      BY DEF QueueOf
    <3>3. k <= dpu_ts[d] + 1
      BY <1>2, <3>1, <3>2
    <3>. QED
      BY <3>1, <3>3
  <2>. QED
    BY <1>13, <2>1, <2>2
<1>15. Cut(d)'
  BY <1>3, <1>4, <1>7, <1>9, <1>10, <1>14 DEF Cut
<1>. QED
  BY <1>1, <1>3, <1>15, CutOthers DEF OrderView, DpuView

LEMMA BuiltCut ==
  ASSUME OInv, Separated, NEW d \in Dpu, Built(d)
  PROVE  Separated'
<1>1. /\ host[d] = "take" /\ ~ Takes(d) /\ host' = [host EXCEPT ![d] = "ready"]
      /\ UNCHANGED <<txs, queue, batch, turn, dpu_ts, pc, pos, clock, fails, log>>
  BY DEF Built, batchVars, dpuVars
<1>2. host'[d] = "ready" /\ \A e \in Dpu \ {d} : host'[e] = host[e]
  BY <1>1 DEF OInv, CInv, IInv, Types
<1>3. Cut(d) /\ QueueOf(d)' = QueueOf(d)
  BY <1>1 DEF Separated, QueueOf
<1>4. ASSUME queue[d] # <<>> PROVE \E j \in Nat : dpu_ts[d] = j * Capacity
  <2>1. dpu_ts[d] = turn[d].prev + Capacity
    BY <1>1, <1>3, <1>4, Room
  <2>2. PICK j \in Nat : turn[d].prev = j * Capacity
    BY <1>1, <1>3, <1>4 DEF Cut
  <2>3. PICK c \in Nat : c = Capacity
    BY HostAssumption DEF Capacity
  <2>4. (j + 1) * c = j * c + c
    BY <2>3
  <2>. QED
    BY <2>1, <2>2, <2>3, <2>4
<1>5. Cut(d)'
  BY <1>1, <1>2, <1>3, <1>4 DEF Cut
<1>. QED
  BY <1>1, <1>2, <1>5, CutOthers DEF OrderView, DpuView

\* Steps that leave the host's part alone.
LEMMA CutAlone ==
  ASSUME Separated, UNCHANGED batchVars,
         \A d \in Dpu : (host[d] # "take" /\ host'[d] # "take") \/ host'[d] = host[d]
  PROVE  Separated'
<1>1. UNCHANGED <<txs, queue, batch, dpu_ts, turn>>
  BY DEF batchVars
<1>2. ASSUME NEW d \in Dpu PROVE Cut(d)'
  <2>1. Cut(d) /\ QueueOf(d)' = QueueOf(d)
    BY <1>1 DEF Separated, QueueOf
  <2>4. \A t, n : Opts(d, t)' = Opts(d, t) /\ OptTx(d, t, n)' = OptTx(d, t, n)
    BY <1>1, DetsSame
  <2>2. CASE host[d] # "take" /\ host'[d] # "take"
    BY <1>1, <2>1, <2>2 DEF Cut
  <2>3. CASE host'[d] = host[d]
    BY <1>1, <2>1, <2>3, <2>4 DEF Cut
  <2>. QED
    BY <2>2, <2>3
<1>. QED
  BY <1>1, <1>2, DetFirstKept DEF Separated

LEMMA SeparatedNext ==
  ASSUME OInv, Separated, [Next]_vars
  PROVE  Separated'
<1>1. CASE Launch
  BY <1>1, CutAlone DEF Launch, batchVars
<1>2. CASE Return
  BY <1>2, CutAlone DEF Return
<1>3. ASSUME NEW d \in Dpu, Begin(d) \/ BuildTake(d) \/ Built(d) PROVE Separated'
  BY <1>3, BeginCut, TakeCut, BuiltCut
<1>4. ASSUME NEW d \in Dpu, OpenBarrier(d) PROVE Separated'
  BY <1>4, CutAlone DEF OpenBarrier
<1>5. ASSUME NEW d \in Dpu, NEW t \in Tasklet, TaskletStep(d, t) PROVE Separated'
  BY <1>5, CutAlone DEF TaskletStep, Deterministic, DetDone, OptimisticOne, OptDone, Attempt
<1>6. CASE Terminating \/ UNCHANGED vars
  BY <1>6, CutAlone DEF Terminating, vars
<1>. QED
  BY <1>1, <1>2, <1>3, <1>4, <1>5, <1>6 DEF Next, HostStep

(* While no attempt fails, a DPU commits the deterministic transactions in   *)
(* the order in which exec queued them (system.cpp:191, tm.c:452), if every  *)
(* batch has its deterministic ones first: build_batch numbers them as if    *)
(* the tasklets had no optimistic ones, and takes them in turn.              *)
THEOREM ExecOrderKept == Spec /\ DetFirst => []ExecOrder
<1>1. Init /\ DetFirst => OInv /\ Separated
  BY InitOrder, InitCut DEF Separated
<1>2. OInv /\ Separated /\ [Next]_vars => (OInv /\ Separated)'
  <2>. SUFFICES ASSUME OInv, Separated, [Next]_vars PROVE OInv' /\ Separated'
    OBVIOUS
  <2>1. CInv'
    BY CountsNext DEF OInv
  <2>. QED
    BY <2>1, SeparatedUnmixed, OrderNext, SeparatedNext
<1>3. OInv => ExecOrder
  <2>. SUFFICES ASSUME OInv, NEW d \in Dpu, fails[d] = 0,
                       NEW m \in DOMAIN log[d], NEW n \in DOMAIN log[d], m < n,
                       ~ Optimistic(log[d][m]), ~ Optimistic(log[d][n])
                PROVE  log[d][m] < log[d][n]
    BY DEF ExecOrder
  <2>. QED
    BY DEF OInv, OrderInv, LogInOrder
<1>. QED
  BY <1>1, <1>2, <1>3, PTL DEF Spec
==============================================================================
