----------------------------- MODULE HostProofs ------------------------------
(***************************************************************************)
(* What the host's queues, batches and rounds keep, for every number of    *)
(* threads and DPUs and every workload: the barrier keeps building and     *)
(* copying apart (NoTornBatch); every sub-transaction is at one place of   *)
(* the system and runs at most once (RunOnce); a round that stops leaves   *)
(* none behind (NothingLeftBehind); none starts without room for it        *)
(* (StartNeedsRoom).                                                       *)
(***************************************************************************)
EXTENDS HostSystem, NatLemmas, FiniteSetTheorems, SequenceTheorems, TLAPS

\* The places of the code a thread may be at.
Label == {"exec", "poll", "join", "init", "start", "loop", "built", "count", "copy", "copied",
          "launch", "build", "dpu", "take", "exit"}

\* The threads that meet in every round.
Worker == Helper \cup {Run}

\* The barrier's counter is the number of the sleeping threads, until it opens.
BarrierOK ==
  /\ asleep \subseteq Thread /\ notifying \subseteq Thread
  /\ notifying = {} => waiting = Cardinality(asleep)
  /\ notifying # {} => waiting = 0
  /\ \A a, b \in notifying : a = b

\* Thread th is at one of before, or has come to the barrier and goes on at after.
Placed(th, before, after) ==
  /\ Outside(th) => pc[th] \in before
  /\ ~ Outside(th) => pc[th] = after

\* Once the barrier is open, all of members are there.
Opened(members) == notifying # {} => \A th \in members : ~ Outside(th)

\* The three stages of the threads: the start, building the batches, copying them.
Starting ==
  /\ Placed(Main, {"exec"}, "poll")
  /\ Placed(Run, {"init", "start"}, "loop")
  /\ \A h \in Helper : Placed(h, {"start"}, "loop")
  /\ Opened(Thread)

MainBeyond == Outside(Main) /\ pc[Main] \in {"poll", "join", "exit"}

Building ==
  /\ MainBeyond
  /\ Placed(Run, {"loop", "built", "launch", "exit"}, "count")
  /\ \A h \in Helper : Placed(h, {"loop", "build", "dpu", "take", "built", "exit"}, "copied")
  /\ Opened(Worker)

Copying ==
  /\ MainBeyond
  /\ Placed(Run, {"count", "copy", "copied"}, "launch")
  /\ \A h \in Helper : Placed(h, {"copied"}, "loop")
  /\ Opened(Worker)

Stages == Starting \/ Building \/ Copying

IInv == pc \in [Thread -> Label] /\ BarrierOK /\ Stages

------------------------------------------------------------------------------
(* The roles of the threads *)

LEMMA Roles ==
  /\ N_THREADS \in Nat /\ N_THREADS >= 2
  /\ Main \in Thread /\ Run \in Thread /\ Helper \subseteq Thread
  /\ Thread = Worker \cup {Main}
  /\ Main # Run /\ Main \notin Helper /\ Run \notin Helper
BY ThreadsAssumption DEF Main, Run, Helper, Thread, Worker

LEMMA Sizes ==
  /\ IsFiniteSet(Thread) /\ Cardinality(Thread) = N_THREADS + 1
  /\ IsFiniteSet(Worker) /\ Cardinality(Worker) = N_THREADS
<1>1. Worker = 0 .. N_THREADS - 1
  BY ThreadsAssumption DEF Worker, Helper, Run
<1>. QED
  BY <1>1, ThreadsAssumption, FS_Interval DEF Thread

\* The last of members to come finds the others asleep.
LEMMA LastOne ==
  ASSUME NEW members, IsFiniteSet(members), NEW S \in SUBSET members, NEW th \in members \ S,
         Cardinality(S) + 1 = Cardinality(members)
  PROVE  S \cup {th} = members
<1>1. IsFiniteSet(S)
  BY FS_Subset
<1>2. Cardinality(S \cup {th}) = Cardinality(S) + 1
  BY <1>1, FS_AddElement
<1>3. S \cup {th} \subseteq members
  OBVIOUS
<1>. QED
  BY <1>2, <1>3, FS_Subset

\* A thread arrives while the barrier is closed; all who may sleep are members.
LEMMA ArriveStep ==
  ASSUME BarrierOK, notifying = {},
         NEW members \in SUBSET Thread, NEW th \in members, asleep \subseteq members,
         IsFiniteSet(members), Arrive(th, Cardinality(members))
  PROVE  /\ BarrierOK'
         /\ Opened(members)'
         /\ ~ Outside(th)'
         /\ \A o \in Thread \ {th} : Outside(o)' <=> Outside(o)
<1>1. IsFiniteSet(asleep) /\ th \notin asleep
  BY FS_Subset DEF Arrive, Outside
<1>2. waiting = Cardinality(asleep) /\ waiting \in Nat
  BY <1>1, FS_CardinalityType DEF BarrierOK
<1>3. CASE waiting + 1 = Cardinality(members)
  <2>1. asleep \cup {th} = members
    BY <1>1, <1>2, <1>3, LastOne
  <2>2. waiting' = 0 /\ notifying' = {th} /\ asleep' = asleep
    BY <1>3 DEF Arrive
  <2>. QED
    BY <1>1, <2>1, <2>2 DEF BarrierOK, Opened, Outside
<1>4. CASE waiting + 1 # Cardinality(members)
  <2>1. waiting' = waiting + 1 /\ asleep' = asleep \cup {th} /\ notifying' = {}
    BY <1>4 DEF Arrive
  <2>2. Cardinality(asleep') = waiting'
    BY <1>1, <1>2, <2>1, FS_AddElement
  <2>. QED
    BY <2>1, <2>2 DEF BarrierOK, Opened, Outside
<1>. QED
  BY <1>3, <1>4

------------------------------------------------------------------------------
(* What the steps do to the stages *)

LEMMA SameStage ==
  ASSUME IInv, UNCHANGED <<pc, barrierVars>>
  PROVE  IInv'
BY DEF IInv, BarrierOK, Stages, Starting, Building, Copying, MainBeyond, Placed, Opened, Outside,
       barrierVars

\* A thread outside the barrier goes on without leaving its part of the stage.
LEMMA MoveStep ==
  ASSUME IInv, UNCHANGED barrierVars,
         NEW th \in Thread, Outside(th), NEW label \in Label, Goto(th, label),
         th = Main => pc[th] # "exec" /\ label \in {"poll", "join", "exit"},
         th = Run => \/ pc[th] = "init" /\ label = "start"
                     \/ /\ pc[th] \in {"loop", "built", "launch"}
                        /\ label \in {"loop", "built", "launch", "exit"}
                     \/ pc[th] \in {"count", "copy"} /\ label \in {"count", "copy", "copied"},
         th \in Helper => /\ pc[th] \in {"loop", "build", "dpu", "take"}
                          /\ label \in {"loop", "build", "dpu", "take", "built", "exit"}
  PROVE  IInv'
<1>1. pc' \in [Thread -> Label] /\ BarrierOK'
  BY DEF IInv, Goto, BarrierOK, barrierVars
<1>2. /\ pc'[th] = label
      /\ \A o \in Thread \ {th} : pc'[o] = pc[o]
      /\ \A o \in Thread : Outside(o)' <=> Outside(o)
  BY DEF IInv, Goto, Outside, barrierVars
<1>3. notifying' = notifying
  BY DEF barrierVars
<1>4. CASE Starting
  <2>1. Starting'
    BY <1>2, <1>3, <1>4, Roles DEF Starting, Placed, Opened
  <2>. QED
    BY <1>1, <2>1 DEF IInv, Stages
<1>5. CASE Building
  <2>1. Building'
    BY <1>2, <1>3, <1>5, Roles DEF Building, MainBeyond, Placed, Opened
  <2>. QED
    BY <1>1, <2>1 DEF IInv, Stages
<1>6. CASE Copying
  <2>1. Copying'
    BY <1>2, <1>3, <1>6, Roles DEF Copying, MainBeyond, Placed, Opened
  <2>. QED
    BY <1>1, <2>1 DEF IInv, Stages
<1>. QED
  BY <1>4, <1>5, <1>6 DEF IInv, Stages

\* A thread that is still outside finds the barrier closed.
LEMMA Closed ==
  ASSUME NEW members, NEW th \in members, Outside(th), Opened(members)
  PROVE  notifying = {}
BY DEF Opened

LEMMA StartWait ==
  ASSUME IInv, NEW th \in Thread, Outside(th), pc[th] \in {"exec", "start"}, NEW label \in Label,
         th = Main => label = "poll", th # Main => label = "loop",
         Wait(th, N_THREADS + 1, label)
  PROVE  IInv'
<1>1. Starting
  BY Roles DEF IInv, Stages, Building, Copying, MainBeyond, Placed, Worker
<1>2. notifying = {}
  BY <1>1, Closed DEF Starting
<1>3. asleep \subseteq Thread /\ BarrierOK
  BY DEF IInv, BarrierOK
<1>4. /\ BarrierOK' /\ Opened(Thread)' /\ ~ Outside(th)'
      /\ \A o \in Thread \ {th} : Outside(o)' <=> Outside(o)
  BY <1>2, <1>3, Sizes, ArriveStep DEF Wait
<1>5. pc' \in [Thread -> Label] /\ pc'[th] = label /\ \A o \in Thread \ {th} : pc'[o] = pc[o]
  BY DEF IInv, Wait, Goto
<1>6. Starting'
  BY <1>1, <1>4, <1>5, Roles DEF Starting, Placed
<1>. QED
  BY <1>4, <1>5, <1>6 DEF IInv, Stages

\* In the two other stages only workers sleep.
LEMMA WorkersSleep ==
  ASSUME BarrierOK, MainBeyond
  PROVE  asleep \subseteq Worker
BY Roles DEF BarrierOK, MainBeyond, Outside

LEMMA BuiltWait ==
  ASSUME IInv, NEW th \in Worker, Outside(th), pc[th] = "built", NEW label \in Label,
         th = Run => label = "count", th # Run => label = "copied",
         Wait(th, N_THREADS, label)
  PROVE  IInv'
<1>1. Building
  BY Roles DEF IInv, Stages, Starting, Copying, Placed, Worker
<1>2. notifying = {}
  BY <1>1, Closed DEF Building
<1>3. asleep \subseteq Worker /\ BarrierOK
  BY <1>1, WorkersSleep DEF IInv, Building
<1>4. /\ BarrierOK' /\ Opened(Worker)' /\ ~ Outside(th)'
      /\ \A o \in Thread \ {th} : Outside(o)' <=> Outside(o)
  BY <1>2, <1>3, Sizes, Roles, ArriveStep DEF Wait
<1>5. pc' \in [Thread -> Label] /\ pc'[th] = label /\ \A o \in Thread \ {th} : pc'[o] = pc[o]
  BY Roles DEF IInv, Wait, Goto
<1>6. Building'
  BY <1>1, <1>4, <1>5, Roles DEF Building, MainBeyond, Placed, Worker
<1>. QED
  BY <1>4, <1>5, <1>6 DEF IInv, Stages

LEMMA CopiedWait ==
  ASSUME IInv, NEW th \in Worker, Outside(th), pc[th] = "copied", NEW label \in Label,
         th = Run => label = "launch", th # Run => label = "loop",
         Wait(th, N_THREADS, label)
  PROVE  IInv'
<1>1. Copying
  BY Roles DEF IInv, Stages, Starting, Building, Placed, Worker
<1>2. notifying = {}
  BY <1>1, Closed DEF Copying
<1>3. asleep \subseteq Worker /\ BarrierOK
  BY <1>1, WorkersSleep DEF IInv, Copying
<1>4. /\ BarrierOK' /\ Opened(Worker)' /\ ~ Outside(th)'
      /\ \A o \in Thread \ {th} : Outside(o)' <=> Outside(o)
  BY <1>2, <1>3, Sizes, Roles, ArriveStep DEF Wait
<1>5. pc' \in [Thread -> Label] /\ pc'[th] = label /\ \A o \in Thread \ {th} : pc'[o] = pc[o]
  BY Roles DEF IInv, Wait, Goto
<1>6. Copying'
  BY <1>1, <1>4, <1>5, Roles DEF Copying, MainBeyond, Placed, Worker
<1>. QED
  BY <1>4, <1>5, <1>6 DEF IInv, Stages

\* The notification: everybody goes on, to the next stage.
LEMMA WakeStep ==
  ASSUME IInv, NEW th \in Thread, Wake(th)
  PROVE  IInv'
<1>1. /\ notifying # {} /\ notifying' = {} /\ asleep' = {} /\ waiting' = 0
      /\ pc' = pc
  BY DEF Wake, Notify, IInv, BarrierOK
<1>2. BarrierOK' /\ \A o \in Thread : Outside(o)'
  BY <1>1, FS_EmptySet DEF BarrierOK, Outside
<1>3. CASE Starting
  <2>1. Building'
    BY <1>1, <1>2, <1>3, Roles DEF Starting, Building, MainBeyond, Placed, Opened
  <2>. QED
    BY <1>1, <1>2, <2>1 DEF IInv, Stages
<1>4. CASE Building
  <2>1. Copying'
    BY <1>1, <1>2, <1>4, Roles DEF Building, Copying, MainBeyond, Placed, Opened, Worker
  <2>. QED
    BY <1>1, <1>2, <2>1 DEF IInv, Stages
<1>5. CASE Copying
  <2>1. Building'
    BY <1>1, <1>2, <1>5, Roles DEF Building, Copying, MainBeyond, Placed, Opened, Worker
  <2>. QED
    BY <1>1, <1>2, <2>1 DEF IInv, Stages
<1>. QED
  BY <1>3, <1>4, <1>5 DEF IInv, Stages

------------------------------------------------------------------------------
(* The actions *)

LEMMA InitStage == Init => IInv
<1>. SUFFICES ASSUME Init PROVE IInv
  OBVIOUS
<1>1. BarrierOK /\ \A th \in Thread : Outside(th)
  BY FS_EmptySet DEF Init, BarrierInit, BarrierOK, Outside
<1>2. pc \in [Thread -> Label]
  BY DEF Init, Label
<1>3. pc[Main] = "exec" /\ pc[Run] = "init" /\ \A h \in Helper : pc[h] = "start"
  BY Roles DEF Init
<1>4. Starting
  BY <1>1, <1>3, Roles DEF Init, BarrierInit, Starting, Placed, Opened
<1>. QED
  BY <1>1, <1>2, <1>4 DEF IInv, Stages

LEMMA MainKeepsStage ==
  ASSUME IInv, MainStep
  PROVE  IInv'
<1>1. ASSUME NEW d \in Dpu, Exec(d) PROVE IInv'
  BY <1>1, SameStage DEF Exec
<1>2. CASE MainStart
  BY <1>2, Roles, StartWait DEF MainStart, At, Label
<1>3. CASE Stop
  <2>1. Goto(Main, "join") /\ UNCHANGED barrierVars /\ Outside(Main) /\ pc[Main] = "poll"
    BY <1>3 DEF Stop, At
  <2>. QED
    BY <2>1, Roles, MoveStep DEF Label
<1>4. CASE Join
  <2>1. Goto(Main, "exit") /\ UNCHANGED barrierVars /\ Outside(Main) /\ pc[Main] = "join"
    BY <1>4 DEF Join, At
  <2>. QED
    BY <2>1, Roles, MoveStep DEF Label
<1>. QED
  BY <1>1, <1>2, <1>3, <1>4 DEF MainStep

LEMMA RunKeepsStage ==
  ASSUME IInv, RunStep
  PROVE  IInv'
<1>1. CASE LaunchInit
  <2>1. Goto(Run, "start") /\ UNCHANGED barrierVars /\ Outside(Run) /\ pc[Run] = "init"
    BY <1>1 DEF LaunchInit, At
  <2>. QED
    BY <2>1, Roles, MoveStep DEF Label
<1>2. CASE RunStart
  BY <1>2, Roles, StartWait DEF RunStart, At, Label
<1>3. CASE RunLoop
  <2>1. /\ UNCHANGED barrierVars /\ Outside(Run) /\ pc[Run] = "loop"
        /\ Goto(Run, "built") \/ Goto(Run, "exit")
    BY <1>3 DEF RunLoop, While, At
  <2>. QED
    BY <2>1, Roles, MoveStep DEF Label
<1>4. CASE RunBuilt
  BY <1>4, Roles, BuiltWait DEF RunBuilt, At, Worker, Label
<1>5. CASE Count
  <2>1. /\ UNCHANGED barrierVars /\ Outside(Run) /\ pc[Run] = "count"
        /\ Goto(Run, "count") \/ Goto(Run, "copy")
    BY <1>5 DEF Count, At
  <2>. QED
    BY <2>1, Roles, MoveStep DEF Label
<1>6. CASE Copy
  <2>1. /\ UNCHANGED barrierVars /\ Outside(Run) /\ pc[Run] = "copy"
        /\ Goto(Run, "copy") \/ Goto(Run, "copied")
    BY <1>6 DEF Copy, At
  <2>. QED
    BY <2>1, Roles, MoveStep DEF Label
<1>7. CASE RunCopied
  BY <1>7, Roles, CopiedWait DEF RunCopied, At, Worker, Label
<1>8. CASE Launch
  <2>1. UNCHANGED barrierVars /\ Outside(Run) /\ pc[Run] = "launch" /\ Goto(Run, "loop")
    BY <1>8 DEF Launch, At
  <2>. QED
    BY <2>1, Roles, MoveStep DEF Label
<1>. QED
  BY <1>1, <1>2, <1>3, <1>4, <1>5, <1>6, <1>7, <1>8 DEF RunStep

LEMMA HelperKeepsStage ==
  ASSUME IInv, NEW h \in Helper, HelperStep(h)
  PROVE  IInv'
<1>. /\ h \in Thread /\ h \in Worker /\ h # Main /\ h # Run
  BY Roles DEF Worker
<1>1. CASE HelperStart(h)
  BY <1>1, StartWait DEF HelperStart, At, Label
<1>2. CASE HelperLoop(h)
  <2>1. /\ UNCHANGED barrierVars /\ Outside(h) /\ pc[h] = "loop"
        /\ Goto(h, "build") \/ Goto(h, "exit")
    BY <1>2 DEF HelperLoop, While, At
  <2>. QED
    BY <2>1, MoveStep DEF Label
<1>3. CASE Build(h)
  <2>1. UNCHANGED barrierVars /\ Outside(h) /\ pc[h] = "build" /\ Goto(h, "dpu")
    BY <1>3 DEF Build, At
  <2>. QED
    BY <2>1, MoveStep DEF Label
<1>4. CASE BuildDpu(h)
  <2>1. UNCHANGED barrierVars /\ Outside(h) /\ pc[h] = "dpu" /\ Goto(h, "take")
    BY <1>4 DEF BuildDpu, At
  <2>. QED
    BY <2>1, MoveStep DEF Label
<1>5. CASE BuildTake(h)
  BY <1>5, SameStage DEF BuildTake
<1>6. CASE BuildNext(h)
  <2>1. /\ UNCHANGED barrierVars /\ Outside(h) /\ pc[h] = "take"
        /\ Goto(h, "dpu") \/ Goto(h, "built")
    BY <1>6 DEF BuildNext, At
  <2>. QED
    BY <2>1, MoveStep DEF Label
<1>7. CASE HelperBuilt(h)
  BY <1>7, BuiltWait DEF HelperBuilt, At, Label
<1>8. CASE HelperCopied(h)
  BY <1>8, CopiedWait DEF HelperCopied, At, Label
<1>. QED
  BY <1>1, <1>2, <1>3, <1>4, <1>5, <1>6, <1>7, <1>8 DEF HelperStep

LEMMA StagesNext ==
  ASSUME IInv, [Next]_vars
  PROVE  IInv'
<1>1. CASE MainStep
  BY <1>1, MainKeepsStage
<1>2. CASE RunStep
  BY <1>2, RunKeepsStage
<1>3. CASE DpuError
  BY <1>3, SameStage DEF DpuError
<1>4. ASSUME NEW h \in Helper, HelperStep(h) PROVE IInv'
  BY <1>4, HelperKeepsStage
<1>5. ASSUME NEW th \in Thread, Wake(th) PROVE IInv'
  BY <1>5, WakeStep
<1>6. CASE UNCHANGED vars
  BY <1>6, SameStage DEF vars
<1>. QED
  BY <1>1, <1>2, <1>3, <1>4, <1>5, <1>6 DEF Next

(* The threads move from stage to stage together, and the barrier's counter *)
(* is the number of the threads that sleep at it (barrier.h, system.cpp:    *)
(* 118-156), whatever the number of threads.                                *)
THEOREM StagesKept == Spec => []IInv
<1>. QED
  BY InitStage, StagesNext, PTL DEF Spec

(* Batches are never summed up or copied while a helper builds one          *)
(* (system.cpp:133-136, 241), for every number of threads and DPUs.         *)
THEOREM BatchesWhole == Spec => []NoTornBatch
<1>1. ASSUME IInv PROVE NoTornBatch
  <2>. SUFFICES ASSUME At(Run, "count") \/ At(Run, "copy"), NEW h \in Helper
                PROVE  pc[h] \notin {"dpu", "take"}
    BY DEF NoTornBatch
  <2>1. Copying
    BY <1>1 DEF IInv, Stages, Starting, Building, Placed, At
  <2>. QED
    BY <2>1 DEF Copying, Placed
<1>. QED
  BY <1>1, StagesKept, PTL

------------------------------------------------------------------------------
(* Where every sub-transaction is *)

\* The helper that builds the batches of DPU d.
HelperOf(d) == d % (N_THREADS - 1)

Entry == [tx : DOMAIN txs, ts : Nat]

Batch == [Tasklet -> [det : Seq(Entry), opt : Seq(Entry)]]

\* The transaction at a place of a batch.
TxAt(b, p) == b[p[1]][p[2]][p[3]].tx

\* The transactions of a batch.
Held(b) == {tx \in DOMAIN txs : \E p \in Places(b) : TxAt(b, p) = tx}

\* No transaction is in a batch twice.
Once(b) == \A p, q \in Places(b) : TxAt(b, p) = TxAt(b, q) => p = q

Types ==
  /\ txs \in Workloads
  /\ queue \in [Dpu -> Seq(DOMAIN txs)]
  /\ batch \in [Dpu -> Batch] /\ input \in [Dpu -> Batch]
  /\ dpu_ts \in [Dpu -> Nat] /\ turn \in [Dpu -> [thread : Tasklet, prev : Nat]]
  /\ reg \in [Thread -> Nat] /\ parts \in SUBSET Dpu
  /\ n_transactions \in Nat /\ n_commited \in Nat /\ n_thread \in [Helper -> Nat]
  /\ executed \in [Dpu -> [DOMAIN txs -> Nat]]

\* Helper h has reset its counter and has yet to reset it for the next round.
Counting(h) == pc[h] \in {"dpu", "take", "built", "copied"} \/ (pc[h] = "loop" /\ ~ Outside(h))

\* What is in the batch of DPU d is of this round, and not yet launched.
Fresh(d) ==
  LET h == HelperOf(d)
  IN  /\ Counting(h)
      /\ pc[h] = "dpu" => d < reg[h]
      /\ pc[h] = "take" => d <= reg[h]

\* Run has added the counter of helper h.
Added(h) ==
  \/ pc[Run] \in {"copy", "copied"} \/ (pc[Run] = "launch" /\ ~ Outside(Run))
  \/ pc[Run] = "count" /\ Outside(Run) /\ h < reg[Run]

Launching == pc[Run] = "launch" /\ Outside(Run)

Unqueued(d) == {tx \in Due(d) : tx > reg[Main] \/ (tx = reg[Main] /\ d \in parts)}
Queued(d)   == {tx \in DOMAIN txs : \E n \in DOMAIN queue[d] : queue[d][n] = tx}
InBatch(d)  == IF Fresh(d) THEN Held(batch[d]) ELSE {}
InInput(d)  == IF Launching THEN Held(input[d]) ELSE {}

\* Every sub-transaction of a DPU is in exactly one place.
Partition(d) ==
  /\ Due(d) = Unqueued(d) \cup Queued(d) \cup InBatch(d) \cup InInput(d) \cup Ran(d)
  /\ Unqueued(d) \cap (Queued(d) \cup InBatch(d) \cup InInput(d) \cup Ran(d)) = {}
  /\ Queued(d) \cap (InBatch(d) \cup InInput(d) \cup Ran(d)) = {}
  /\ InBatch(d) \cap (InInput(d) \cup Ran(d)) = {}
  /\ InInput(d) \cap Ran(d) = {}

Singly(d) ==
  /\ \A m, n \in DOMAIN queue[d] : queue[d][m] = queue[d][n] => m = n
  /\ Len(queue[d]) <= BUFFER_SIZE
  /\ Once(batch[d]) /\ Once(input[d])
  /\ \A tx \in DOMAIN txs : executed[d][tx] <= 1

PlacesOK == \A d \in Dpu : Partition(d) /\ Singly(d)

\* The sub-transactions of a DPU whose number is in the sum.
Told(d) == InInput(d) \cup Ran(d) \cup (IF Added(HelperOf(d)) THEN InBatch(d) ELSE {})

\* Pairs of a DPU and a transaction: all that were queued, those in the batches that
\* helper h has built, and those whose number is in the sum.
Pair       == Dpu \X DOMAIN txs
Entered    == {p \in Pair : p[2] \in Due(p[1]) \ Unqueued(p[1])}
Batched(h) == {p \in Pair : HelperOf(p[1]) = h /\ p[2] \in InBatch(p[1])}
Summed     == {p \in Pair : p[2] \in Told(p[1])}

SumsOK ==
  /\ n_transactions = Cardinality(Entered)
  /\ n_commited = Cardinality(Summed)
  /\ \A h \in Helper : Counting(h) => n_thread[h] = Cardinality(Batched(h))

MainOK ==
  /\ reg[Main] \in 1 .. Len(txs) + 1
  /\ reg[Main] <= Len(txs) => parts \subseteq txs[reg[Main]]
  /\ parts = {} <=> reg[Main] = Len(txs) + 1
  /\ pc[Main] # "exec" => parts = {} /\ Room
  /\ pc[Main] \in {"join", "exit"} => n_commited >= n_transactions
  /\ pc[Main] = "exit" => \A th \in Worker : pc[th] = "exit"

\* The batch of DPU d has been copied and not yet launched.
Copied(d) ==
  \/ pc[Run] = "copy" /\ d < reg[Run]
  \/ pc[Run] = "copied"
  \/ pc[Run] = "launch" /\ ~ Outside(Run)

RunOK ==
  /\ pc[Run] = "count" /\ Outside(Run) => reg[Run] \in Helper
  /\ pc[Run] = "copy" => reg[Run] \in Dpu
  /\ pc[Run] # "copy" /\ ~ (pc[Run] = "count" /\ Outside(Run)) => reg[Run] = 0
  /\ \A d \in Dpu : Copied(d) => input[d] = batch[d]

HelperOK == \A h \in Helper : pc[h] \in {"dpu", "take"} => reg[h] \in Dpu /\ HelperOf(reg[h]) = h

\* Nothing is built before the start.
StartOK ==
  Starting => /\ \A d \in Dpu : dpu_ts[d] = 0 /\ Held(batch[d]) = {} /\ Ran(d) = {}
              /\ n_commited = 0 /\ \A h \in Helper : n_thread[h] = 0

PInv == Types /\ MainOK /\ RunOK /\ HelperOK /\ StartOK /\ PlacesOK /\ SumsOK

------------------------------------------------------------------------------
(* The batches *)

LEMMA HelperIs ==
  /\ \A d \in Dpu : HelperOf(d) \in Helper /\ HelperOf(d) <= d
  /\ \A h \in Helper : h \in Dpu /\ HelperOf(h) = h
  /\ \A d, e \in Dpu : HelperOf(d) = HelperOf(e) /\ d < e + N_THREADS - 1 => d <= e
  /\ \A d \in Dpu : d + N_THREADS - 1 \in Nat /\ HelperOf(d + N_THREADS - 1) = HelperOf(d)
<1>1. PICK M \in Nat \ {0} : M = N_THREADS - 1
  BY ThreadsAssumption
<1>2. /\ Helper = 0 .. M - 1 /\ Dpu \subseteq Nat /\ N_DPUS \in Nat \ {0} /\ N_DPUS % M = 0
      /\ Dpu = 0 .. N_DPUS - 1
  BY <1>1, ThreadsAssumption, HostAssumption DEF Helper, Dpu
<1>3. N_DPUS >= M
  BY <1>2, MultipleIs
<1>4. \A d : HelperOf(d) = d % M
  BY <1>1 DEF HelperOf
<1>5. ASSUME NEW d \in Dpu PROVE HelperOf(d) \in Helper /\ HelperOf(d) <= d
  BY <1>2, <1>4, RemainderIs
<1>6. ASSUME NEW h \in Helper PROVE h \in Dpu /\ HelperOf(h) = h
  <2>1. h \in Nat /\ h < M
    BY <1>2
  <2>2. h \in Dpu
    BY <1>2, <1>3, <2>1
  <2>. QED
    BY <1>4, <2>1, <2>2, RemainderIs
<1>7. ASSUME NEW d \in Dpu, NEW e \in Dpu, HelperOf(d) = HelperOf(e), d < e + N_THREADS - 1
      PROVE  d <= e
  <2>1. d % M = e % M /\ d < e + M /\ d \in Nat /\ e \in Nat
    BY <1>1, <1>2, <1>4, <1>7, ThreadsAssumption
  <2>. QED
    BY <2>1, SameRemainder
<1>8. ASSUME NEW d \in Dpu
      PROVE  d + N_THREADS - 1 \in Nat /\ HelperOf(d + N_THREADS - 1) = HelperOf(d)
  <2>1. d \in Nat /\ d + N_THREADS - 1 = d + M /\ d + M \in Nat
    BY <1>1, <1>2, ThreadsAssumption
  <2>2. (d + M) % M = d % M
    BY <2>1, RemainderIs
  <2>. QED
    BY <1>4, <2>1, <2>2
<1>. QED
  BY <1>5, <1>6, <1>7, <1>8

LEMMA PlaceIs ==
  ASSUME NEW b, NEW p
  PROVE  p \in Places(b) <=> \E t \in Tasklet : \E kind \in {"det", "opt"} :
                               \E n \in DOMAIN b[t][kind] : p = <<t, kind, n>>
<1>. DEFINE Slots(t, kind) == {t} \X {kind} \X DOMAIN b[t][kind]
<1>1. Places(b) = UNION {Slots(t, kind) : t \in Tasklet, kind \in {"det", "opt"}}
  BY DEF Places
<1>2. ASSUME NEW t, NEW kind
      PROVE  p \in Slots(t, kind) <=> \E n \in DOMAIN b[t][kind] : p = <<t, kind, n>>
  OBVIOUS
<1>. HIDE DEF Slots
<1>3. p \in Places(b) <=> \E t \in Tasklet : \E kind \in {"det", "opt"} : p \in Slots(t, kind)
  BY <1>1
<1>. QED
  BY <1>2, <1>3

\* A batch has finitely many places.
LEMMA PlacesFinite ==
  ASSUME NEW b \in Batch
  PROVE  IsFiniteSet(Places(b))
<1>. DEFINE Slots(t, kind) == {t} \X {kind} \X DOMAIN b[t][kind]
            Of(kind) == {Slots(t, kind) : t \in Tasklet}
            All == {Slots(t, kind) : t \in Tasklet, kind \in {"det", "opt"}}
<1>1. Places(b) = UNION All
  BY DEF Places
<1>2. ASSUME NEW t \in Tasklet, NEW kind \in {"det", "opt"} PROVE IsFiniteSet(Slots(t, kind))
  <2>1. PICK s \in Seq(Entry) : s = b[t][kind]
    BY DEF Batch
  <2>2. Len(s) \in Nat /\ DOMAIN b[t][kind] = 1 .. Len(s)
    BY <2>1, LenProperties
  <2>3. IsFiniteSet(1 .. Len(s))
    BY <2>2, FS_Interval
  <2>4. IsFiniteSet({<<t, kind, n>> : n \in 1 .. Len(s)})
    <3>1. PICK T : T = {<<t, kind, n>> : n \in 1 .. Len(s)}
      OBVIOUS
    <3>2. PICK f : f = [n \in 1 .. Len(s) |-> <<t, kind, n>>]
      OBVIOUS
    <3>3. f \in Surjection(1 .. Len(s), T)
      BY <3>1, <3>2 DEF Surjection
    <3>. QED
      BY <2>3, <3>1, <3>3, FS_Surjection
  <2>5. Slots(t, kind) = {<<t, kind, n>> : n \in 1 .. Len(s)}
    BY <2>2
  <2>. QED
    BY <2>4, <2>5
<1>. HIDE DEF Slots
<1>3. IsFiniteSet(All)
  <2>1. IsFiniteSet(Tasklet)
    BY FS_Interval, HostAssumption DEF Tasklet
  <2>2. ASSUME NEW kind PROVE IsFiniteSet(Of(kind))
    <3>1. PICK f : f = [t \in Tasklet |-> Slots(t, kind)]
      OBVIOUS
    <3>2. f \in Surjection(Tasklet, Of(kind))
      BY <3>1 DEF Surjection
    <3>. HIDE DEF Of
    <3>. QED
      BY <2>1, <3>2, FS_Surjection
  <2>3. ASSUME NEW T PROVE T \in All <=> T \in Of("det") \/ T \in Of("opt")
    <3>1. T \in All <=> \E t \in Tasklet : \E kind \in {"det", "opt"} : T = Slots(t, kind)
      OBVIOUS
    <3>2. \A kind : T \in Of(kind) <=> \E t \in Tasklet : T = Slots(t, kind)
      OBVIOUS
    <3>. HIDE DEF All, Of
    <3>. QED
      BY <3>1, <3>2
  <2>4. All = Of("det") \cup Of("opt")
    <3>. HIDE DEF All, Of
    <3>. QED
      BY <2>3
  <2>. HIDE DEF All, Of
  <2>. QED
    BY <2>2, <2>4, FS_Union
<1>4. \A T \in All : IsFiniteSet(T)
  BY <1>2
<1>. HIDE DEF All
<1>. QED
  BY <1>1, <1>3, <1>4, FS_UNION

\* The batch that every round begins with.
LEMMA NothingHeld ==
  ASSUME NEW b, b = [t \in Tasklet |-> NoSubTxs]
  PROVE  b \in Batch /\ Held(b) = {} /\ Once(b)
<1>1. /\ \A t \in Tasklet : b[t].det = <<>> /\ b[t].opt = <<>>
      /\ <<>> \in Seq(Entry) /\ DOMAIN <<>> = {}
  BY EmptySeq DEF NoSubTxs
<1>2. Places(b) = {}
  BY <1>1, PlaceIs
<1>3. b \in Batch
  BY <1>1 DEF Batch, NoSubTxs
<1>. QED
  BY <1>2, <1>3 DEF Held, Once

\* A transaction of a batch is there once.
LEMMA TimesOnce ==
  ASSUME NEW b, Once(b), NEW tx \in DOMAIN txs
  PROVE  Times(b, tx) = IF tx \in Held(b) THEN 1 ELSE 0
<1>. DEFINE S == {p \in Places(b) : TxAt(b, p) = tx}
<1>1. Times(b, tx) = Cardinality(S)
  BY DEF Times, TxAt
<1>2. CASE tx \in Held(b)
  <2>1. PICK p \in Places(b) : TxAt(b, p) = tx
    BY <1>2 DEF Held
  <2>2. S = {p}
    BY <2>1 DEF Once
  <2>. QED
    BY <1>1, <1>2, <2>2, FS_Singleton
<1>3. CASE tx \notin Held(b)
  <2>1. S = {}
    BY <1>3 DEF Held
  <2>. QED
    BY <1>1, <1>3, <2>1, FS_EmptySet
<1>. QED
  BY <1>2, <1>3

\* Batch c has what batch b has, elsewhere maybe, and transaction tx.
LEMMA Grown ==
  ASSUME NEW b, NEW c, NEW tx \in DOMAIN txs \ Held(b), Once(b),
         NEW new \in Places(c), TxAt(c, new) = tx, NEW old,
         \A p \in Places(c) \ {new} : old[p] \in Places(b) /\ TxAt(c, p) = TxAt(b, old[p]),
         \A p, q \in Places(c) \ {new} : old[p] = old[q] => p = q,
         \A q \in Places(b) : \E p \in Places(c) \ {new} : old[p] = q
  PROVE  Held(c) = Held(b) \cup {tx} /\ Once(c)
<1>1. ASSUME NEW p \in Places(c) \ {new} PROVE TxAt(c, p) # tx
  BY DEF Held
<1>2. Held(c) \subseteq Held(b) \cup {tx}
  BY DEF Held
<1>3. Held(b) \cup {tx} \subseteq Held(c)
  BY DEF Held
<1>4. Once(c)
  <2>. SUFFICES ASSUME NEW p \in Places(c), NEW q \in Places(c), TxAt(c, p) = TxAt(c, q)
                PROVE  p = q
    BY DEF Once
  <2>1. CASE p = new
    BY <1>1, <2>1
  <2>2. CASE q = new
    BY <1>1, <2>2
  <2>3. CASE p # new /\ q # new
    BY <2>3 DEF Once
  <2>. QED
    BY <2>1, <2>2, <2>3
<1>. QED
  BY <1>2, <1>3, <1>4

\* Sequence new is old with a sub-transaction of tx at its end, or at its front.
Appended(old, new, tx) ==
  \E L \in Nat : /\ DOMAIN old = 1 .. L /\ DOMAIN new = 1 .. L + 1
                 /\ \A n \in 1 .. L : new[n] = old[n]
                 /\ new[L + 1].tx = tx

Prepended(old, new, tx) ==
  \E L \in Nat : /\ DOMAIN old = 1 .. L /\ DOMAIN new = 1 .. L + 1
                 /\ \A n \in 1 .. L : new[n + 1] = old[n]
                 /\ new[1].tx = tx

LEMMA AppendedIs ==
  ASSUME NEW old \in Seq(Entry), NEW e \in Entry
  PROVE  Append(old, e) \in Seq(Entry) /\ Appended(old, Append(old, e), e.tx)
<1>1. PICK L \in Nat : L = Len(old) /\ DOMAIN old = 1 .. L
  BY LenProperties
<1>2. PICK new \in Seq(Entry) : new = Append(old, e)
  BY AppendProperties
<1>3. /\ Len(new) = L + 1 /\ \A n \in 1 .. L : new[n] = old[n]
      /\ new[L + 1] = e
  BY <1>1, <1>2, AppendProperties
<1>4. DOMAIN new = 1 .. L + 1
  BY <1>3, LenProperties
<1>. QED
  BY <1>1, <1>2, <1>3, <1>4 DEF Appended

LEMMA PrependedIs ==
  ASSUME NEW old \in Seq(Entry), NEW e \in Entry
  PROVE  <<e>> \o old \in Seq(Entry) /\ Prepended(old, <<e>> \o old, e.tx)
<1>1. PICK L \in Nat : L = Len(old) /\ DOMAIN old = 1 .. L
  BY LenProperties
<1>8. <<e>> \in Seq(Entry) /\ Len(<<e>>) = 1 /\ <<e>>[1] = e
  OBVIOUS
<1>2. PICK one \in Seq(Entry) : one = <<e>> /\ Len(one) = 1 /\ one[1] = e
  BY <1>8
<1>3. PICK new \in Seq(Entry) : new = one \o old
  BY ConcatProperties
<1>4. /\ Len(new) = 1 + L
      /\ \A i \in 1 .. 1 + L : new[i] = IF i <= 1 THEN one[i] ELSE old[i - 1]
  BY <1>1, <1>2, <1>3, ConcatProperties
<1>5. DOMAIN new = 1 .. L + 1
  BY <1>4, LenProperties
<1>6. new[1] = e
  BY <1>2, <1>4
<1>7. ASSUME NEW n \in 1 .. L PROVE new[n + 1] = old[n]
  <2>1. n + 1 \in 1 .. 1 + L /\ ~ (n + 1 <= 1) /\ (n + 1) - 1 = n
    OBVIOUS
  <2>. QED
    BY <1>4, <2>1
<1>. QED
  BY <1>1, <1>2, <1>3, <1>5, <1>6, <1>7 DEF Prepended

\* What a tasklet gets, with one more, is a part of a batch.
LEMMA StoredIs ==
  ASSUME NEW b \in [det : Seq(Entry), opt : Seq(Entry)], NEW tx \in DOMAIN txs, NEW ts \in Nat,
         NEW c, c = Stored(b, tx, ts)
  PROVE  /\ c \in [det : Seq(Entry), opt : Seq(Entry)]
         /\ \/ c.opt = b.opt /\ Appended(b.det, c.det, tx)
            \/ c.det = b.det /\ Prepended(b.opt, c.opt, tx)
<1>1. PICK det \in Seq(Entry), opt \in Seq(Entry) : b = [det |-> det, opt |-> opt]
  OBVIOUS
<1>2. CASE Optimistic(tx)
  <2>1. PICK e \in Entry : e = [tx |-> tx, ts |-> 0]
    BY DEF Entry
  <2>2. PICK new \in Seq(Entry) : new = <<e>> \o opt /\ Prepended(opt, new, e.tx)
    BY PrependedIs
  <2>0. b.opt = opt
    BY <1>1
  <2>5. c = [b EXCEPT !.opt = <<[tx |-> tx, ts |-> 0]>> \o b.opt]
    BY <1>2, Zenon DEF Stored
  <2>3. c = [b EXCEPT !.opt = new]
    BY <2>0, <2>1, <2>2, <2>5
  <2>4. c = [det |-> det, opt |-> new]
    BY <1>1, <2>3
  <2>6. Prepended(opt, new, tx)
    <3>1. e.tx = tx
      BY <2>1
    <3>. QED
      BY <2>2, <3>1
  <2>7. c \in [det : Seq(Entry), opt : Seq(Entry)]
    BY <2>4
  <2>8. c.det = b.det /\ c.opt = new /\ b.opt = opt
    BY <1>1, <2>4
  <2>. QED
    BY <2>6, <2>7, <2>8
<1>3. CASE ~ Optimistic(tx)
  <2>1. PICK e \in Entry : e = [tx |-> tx, ts |-> ts]
    BY DEF Entry
  <2>2. PICK new \in Seq(Entry) : new = Append(det, e) /\ Appended(det, new, e.tx)
    BY AppendedIs
  <2>0. b.det = det
    BY <1>1
  <2>5. c = [b EXCEPT !.det = Append(b.det, [tx |-> tx, ts |-> ts])]
    BY <1>3, Zenon DEF Stored
  <2>3. c = [b EXCEPT !.det = new]
    BY <2>0, <2>1, <2>2, <2>5
  <2>4. c = [det |-> new, opt |-> opt]
    BY <1>1, <2>3
  <2>6. Appended(det, new, tx)
    <3>1. e.tx = tx
      BY <2>1
    <3>. QED
      BY <2>2, <3>1
  <2>7. c \in [det : Seq(Entry), opt : Seq(Entry)]
    BY <2>4
  <2>8. c.opt = b.opt /\ c.det = new /\ b.det = det
    BY <1>1, <2>4
  <2>. QED
    BY <2>6, <2>7, <2>8
<1>. QED
  BY <1>2, <1>3

\* A batch with one more deterministic sub-transaction: the places are the old
\* ones and a new one.
LEMMA AppendedHeld ==
  ASSUME NEW b, NEW c, NEW t \in Tasklet, NEW tx \in DOMAIN txs, tx \notin Held(b), Once(b),
         \A u \in Tasklet \ {t} : c[u] = b[u],
         c[t].opt = b[t].opt, Appended(b[t].det, c[t].det, tx)
  PROVE  Held(c) = Held(b) \cup {tx} /\ Once(c)
<1>1. PICK L \in Nat : /\ DOMAIN b[t].det = 1 .. L /\ DOMAIN c[t].det = 1 .. L + 1
                       /\ \A n \in 1 .. L : c[t].det[n] = b[t].det[n]
                       /\ c[t].det[L + 1].tx = tx
  BY DEF Appended
<1>. DEFINE new == <<t, "det", L + 1>>
<1>2. TxAt(c, new) = tx
  BY <1>1 DEF TxAt
<1>3. new \in Places(c)
  <2>1. L + 1 \in DOMAIN c[t].det
    BY <1>1
  <2>. QED
    BY <2>1, PlaceIs
<1>4. ASSUME NEW p \in Places(c) \ {new} PROVE p \in Places(b) /\ TxAt(c, p) = TxAt(b, p)
  <2>1. PICK u \in Tasklet, kind \in {"det", "opt"} : \E n \in DOMAIN c[u][kind] : p = <<u, kind, n>>
    BY PlaceIs
  <2>2. PICK n \in DOMAIN c[u][kind] : p = <<u, kind, n>>
    BY <2>1
  <2>3. n \in DOMAIN b[u][kind] /\ c[u][kind][n] = b[u][kind][n]
    <3>1. CASE u = t /\ kind = "det"
      <4>1. n # L + 1 /\ n \in DOMAIN c[t].det
        BY <2>2, <3>1
      <4>2. n \in 1 .. L
        BY <1>1, <4>1
      <4>. QED
        BY <1>1, <3>1, <4>2
    <3>2. CASE u = t /\ kind = "opt"
      BY <3>2
    <3>3. CASE u # t
      BY <3>3
    <3>. QED
      BY <3>1, <3>2, <3>3
  <2>4. p \in Places(b)
    BY <2>2, <2>3, PlaceIs
  <2>. QED
    BY <2>2, <2>3, <2>4 DEF TxAt
<1>5. ASSUME NEW q \in Places(b) PROVE q \in Places(c) \ {new}
  <2>1. PICK u \in Tasklet, kind \in {"det", "opt"} : \E n \in DOMAIN b[u][kind] : q = <<u, kind, n>>
    BY PlaceIs
  <2>2. PICK n \in DOMAIN b[u][kind] : q = <<u, kind, n>>
    BY <2>1
  <2>3. n \in DOMAIN c[u][kind] /\ q # new
    <3>1. CASE u = t /\ kind = "det"
      <4>1. n \in 1 .. L
        BY <1>1, <3>1
      <4>2. n \in 1 .. L + 1 /\ n # L + 1
        BY <4>1
      <4>. QED
        BY <1>1, <2>2, <3>1, <4>2
    <3>2. CASE u = t /\ kind = "opt"
      BY <2>2, <3>2
    <3>3. CASE u # t
      BY <2>2, <3>3
    <3>. QED
      BY <3>1, <3>2, <3>3
  <2>. QED
    BY <2>2, <2>3, PlaceIs
<1>. HIDE DEF new
<1>6. PICK old : old = [p \in Places(c) |-> p]
  OBVIOUS
<1>7. \A p \in Places(c) : old[p] = p
  BY <1>6
<1>. QED
  BY <1>2, <1>3, <1>4, <1>5, <1>7, Grown

\* The same with one more optimistic one, before the others.
LEMMA PrependedHeld ==
  ASSUME NEW b, NEW c, NEW t \in Tasklet, NEW tx \in DOMAIN txs, tx \notin Held(b), Once(b),
         \A u \in Tasklet \ {t} : c[u] = b[u],
         c[t].det = b[t].det, Prepended(b[t].opt, c[t].opt, tx)
  PROVE  Held(c) = Held(b) \cup {tx} /\ Once(c)
<1>1. PICK L \in Nat : /\ DOMAIN b[t].opt = 1 .. L /\ DOMAIN c[t].opt = 1 .. L + 1
                       /\ \A n \in 1 .. L : c[t].opt[n + 1] = b[t].opt[n]
                       /\ c[t].opt[1].tx = tx
  BY DEF Prepended
<1>. DEFINE new      == <<t, "opt", 1>>
            Moved(p) == p[1] = t /\ p[2] = "opt"
            was(p)   == IF Moved(p) THEN <<t, "opt", p[3] - 1>> ELSE p
<1>2. TxAt(c, new) = tx
  BY <1>1 DEF TxAt
<1>3. new \in Places(c)
  <2>1. 1 \in DOMAIN c[t].opt
    BY <1>1
  <2>. QED
    BY <2>1, PlaceIs
\* A place of c that has moved, and one that has not.
<1>4. ASSUME NEW p \in Places(c) \ {new}, Moved(p)
      PROVE  \E m \in 1 .. L : p = <<t, "opt", m + 1>> /\ was(p) = <<t, "opt", m>>
  <2>1. PICK u \in Tasklet, kind \in {"det", "opt"} : \E n \in DOMAIN c[u][kind] : p = <<u, kind, n>>
    BY PlaceIs
  <2>2. PICK n \in DOMAIN c[u][kind] : p = <<u, kind, n>>
    BY <2>1
  <2>3. u = t /\ kind = "opt"
    BY <1>4, <2>2
  <2>4. n \in 1 .. L + 1 /\ n # 1
    BY <1>1, <2>2, <2>3
  <2>5. PICK m \in 1 .. L : n = m + 1
    <3>1. n - 1 \in 1 .. L /\ n = (n - 1) + 1
      BY <2>4
    <3>. QED
      BY <3>1
  <2>6. p = <<t, "opt", m + 1>> /\ p[3] - 1 = m
    BY <2>2, <2>3, <2>5
  <2>. QED
    BY <1>4, <2>6
<1>5. ASSUME NEW p, ~ Moved(p)
      PROVE  /\ p \in Places(c) \ {new} <=> p \in Places(b)
             /\ p \in Places(b) => TxAt(c, p) = TxAt(b, p)
             /\ was(p) = p
  <2>1. ASSUME NEW u \in Tasklet, NEW kind \in {"det", "opt"}, NEW n, p = <<u, kind, n>>
        PROVE  c[u][kind] = b[u][kind]
    <3>1. u # t \/ kind = "det"
      BY <1>5, <2>1
    <3>. QED
      BY <3>1
  <2>2. p # new
    BY <1>5
  <2>3. p \in Places(c) <=> p \in Places(b)
    <3>1. ASSUME p \in Places(c) PROVE p \in Places(b)
      BY <2>1, <3>1, PlaceIs
    <3>2. ASSUME p \in Places(b) PROVE p \in Places(c)
      BY <2>1, <3>2, PlaceIs
    <3>. QED
      BY <3>1, <3>2
  <2>4. ASSUME p \in Places(b) PROVE TxAt(c, p) = TxAt(b, p)
    <3>1. PICK u \in Tasklet, kind \in {"det", "opt"} : \E n \in DOMAIN b[u][kind] : p = <<u, kind, n>>
      BY <2>4, PlaceIs
    <3>2. PICK n : p = <<u, kind, n>>
      BY <3>1
    <3>. QED
      BY <2>1, <3>2 DEF TxAt
  <2>. QED
    BY <1>5, <2>2, <2>3, <2>4
<1>6. ASSUME NEW m \in 1 .. L
      PROVE  /\ <<t, "opt", m>> \in Places(b) /\ Moved(<<t, "opt", m>>)
             /\ <<t, "opt", m + 1>> \in Places(c) \ {new} /\ Moved(<<t, "opt", m + 1>>)
             /\ was(<<t, "opt", m + 1>>) = <<t, "opt", m>>
             /\ TxAt(c, <<t, "opt", m + 1>>) = TxAt(b, <<t, "opt", m>>)
  <2>1. m + 1 \in 1 .. L + 1 /\ m + 1 # 1 /\ (m + 1) - 1 = m
    OBVIOUS
  <2>2. m \in DOMAIN b[t].opt /\ m + 1 \in DOMAIN c[t].opt
    BY <1>1, <2>1
  <2>3. <<t, "opt", m>> \in Places(b) /\ <<t, "opt", m + 1>> \in Places(c)
    BY <2>2, PlaceIs
  <2>4. TxAt(c, <<t, "opt", m + 1>>) = TxAt(b, <<t, "opt", m>>)
    BY <1>1 DEF TxAt
  <2>. QED
    BY <2>1, <2>3, <2>4
<1>7. ASSUME NEW q \in Places(b), Moved(q) PROVE \E m \in 1 .. L : q = <<t, "opt", m>>
  <2>1. PICK u \in Tasklet, kind \in {"det", "opt"} : \E n \in DOMAIN b[u][kind] : q = <<u, kind, n>>
    BY PlaceIs
  <2>2. PICK n \in DOMAIN b[u][kind] : q = <<u, kind, n>>
    BY <2>1
  <2>3. u = t /\ kind = "opt"
    BY <1>7, <2>2
  <2>. QED
    BY <1>1, <2>2, <2>3
<1>. HIDE DEF new, Moved, was
<1>8. PICK old : old = [p \in Places(c) |-> was(p)]
  OBVIOUS
<1>9. \A p \in Places(c) : old[p] = was(p)
  BY <1>8
<1>10. ASSUME NEW p \in Places(c) \ {new}
       PROVE  /\ old[p] \in Places(b) /\ TxAt(c, p) = TxAt(b, old[p])
              /\ Moved(old[p]) <=> Moved(p)
  <2>1. CASE Moved(p)
    <3>1. PICK m \in 1 .. L : p = <<t, "opt", m + 1>> /\ was(p) = <<t, "opt", m>>
      BY <1>4, <2>1
    <3>. QED
      BY <1>6, <1>9, <2>1, <3>1
  <2>2. CASE ~ Moved(p)
    BY <1>5, <1>9, <2>2
  <2>. QED
    BY <2>1, <2>2
<1>11. ASSUME NEW p \in Places(c) \ {new}, NEW q \in Places(c) \ {new}, old[p] = old[q]
       PROVE  p = q
  <2>1. CASE Moved(p)
    <3>1. Moved(q)
      BY <1>10, <1>11, <2>1
    <3>2. PICK m \in 1 .. L : p = <<t, "opt", m + 1>> /\ was(p) = <<t, "opt", m>>
      BY <1>4, <2>1
    <3>3. PICK n \in 1 .. L : q = <<t, "opt", n + 1>> /\ was(q) = <<t, "opt", n>>
      BY <1>4, <3>1
    <3>4. m = n
      BY <1>9, <1>11, <3>2, <3>3
    <3>. QED
      BY <3>2, <3>3, <3>4
  <2>2. CASE ~ Moved(p)
    BY <1>5, <1>9, <1>10, <1>11, <2>2
  <2>. QED
    BY <2>1, <2>2
<1>12. ASSUME NEW q \in Places(b) PROVE \E p \in Places(c) \ {new} : old[p] = q
  <2>1. CASE Moved(q)
    <3>1. PICK m \in 1 .. L : q = <<t, "opt", m>>
      BY <1>7, <2>1
    <3>. QED
      BY <1>6, <1>9, <3>1
  <2>2. CASE ~ Moved(q)
    BY <1>5, <1>9, <2>2
  <2>. QED
    BY <2>1, <2>2
<1>. QED
  BY <1>2, <1>3, <1>10, <1>11, <1>12, Grown

\* Batch c is b with a sub-transaction of tx stored for tasklet t.
Storing(b, c, t, tx, ts) == c = [b EXCEPT ![t] = Stored(@, tx, ts)]

\* A sub-transaction is added to a batch that does not have it.
LEMMA StoredHeld ==
  ASSUME NEW b \in Batch, NEW t \in Tasklet, NEW tx \in DOMAIN txs, NEW ts \in Nat,
         tx \notin Held(b), Once(b), NEW c, Storing(b, c, t, tx, ts)
  PROVE  c \in Batch /\ Held(c) = Held(b) \cup {tx} /\ Once(c)
<1>1. DOMAIN b = Tasklet /\ b[t] \in [det : Seq(Entry), opt : Seq(Entry)]
  BY DEF Batch
<1>2. c[t] = Stored(b[t], tx, ts) /\ \A u \in Tasklet \ {t} : c[u] = b[u]
  BY <1>1 DEF Storing
<1>3. /\ c[t] \in [det : Seq(Entry), opt : Seq(Entry)]
      /\ \/ c[t].opt = b[t].opt /\ Appended(b[t].det, c[t].det, tx)
         \/ c[t].det = b[t].det /\ Prepended(b[t].opt, c[t].opt, tx)
  BY <1>1, <1>2, StoredIs
<1>4. c \in Batch
  <2>1. c = [b EXCEPT ![t] = c[t]]
    BY <1>1 DEF Storing
  <2>. QED
    BY <1>3, <2>1 DEF Batch
<1>5. CASE c[t].opt = b[t].opt /\ Appended(b[t].det, c[t].det, tx)
  <2>1. \A u \in Tasklet \ {t} : c[u] = b[u]
    BY <1>2
  <2>2. Held(c) = Held(b) \cup {tx} /\ Once(c)
    BY <1>5, <2>1, AppendedHeld
  <2>. QED
    BY <1>4, <2>2
<1>6. CASE c[t].det = b[t].det /\ Prepended(b[t].opt, c[t].opt, tx)
  <2>1. \A u \in Tasklet \ {t} : c[u] = b[u]
    BY <1>2
  <2>2. Held(c) = Held(b) \cup {tx} /\ Once(c)
    BY <1>6, <2>1, PrependedHeld
  <2>. QED
    BY <1>4, <2>2
<1>. QED
  BY <1>3, <1>5, <1>6

------------------------------------------------------------------------------
(* What the steps leave alone *)

\* Thread th does not move.
Still(th) == pc'[th] = pc[th] /\ reg'[th] = reg[th] /\ (Outside(th)' <=> Outside(th))

LEMMA ArriveOutside ==
  ASSUME NEW th, NEW n, Arrive(th, n)
  PROVE  ~ Outside(th)' /\ \A o : o # th => (Outside(o)' <=> Outside(o))
BY DEF Arrive, Outside

LEMMA MainFrame ==
  ASSUME pc \in [Thread -> Label], reg \in [Thread -> Nat], MainStep
  PROVE  /\ UNCHANGED <<txs, batch, dpu_ts, turn, n_commited, n_thread, dpus>>
         /\ \A th \in Worker : Still(th)
         /\ Outside(Main)
<1>. \A th \in Worker : th \in Thread /\ th # Main
  BY Roles DEF Worker
<1>1. ASSUME UNCHANGED barrierVars PROVE \A th : Outside(th)' <=> Outside(th)
  BY <1>1 DEF barrierVars, Outside
<1>2. ASSUME NEW d \in Dpu, Exec(d)
      PROVE  /\ UNCHANGED <<txs, batch, dpu_ts, turn, n_commited, n_thread, dpus>>
             /\ \A th \in Worker : Still(th)
             /\ Outside(Main)
  <2>1. \E n : reg' = [reg EXCEPT ![Main] = n]
    BY <1>2 DEF Exec
  <2>2. UNCHANGED <<pc, barrierVars, txs, batch, dpu_ts, turn, n_commited, n_thread, dpus>>
    BY <1>2 DEF Exec, Enqueue
  <2>3. Outside(Main)
    BY <1>2 DEF Exec, At
  <2>. QED
    BY <1>1, <2>1, <2>2, <2>3 DEF Still
<1>3. CASE MainStart
  <2>1. /\ UNCHANGED <<reg, txs, batch, dpu_ts, turn, n_commited, n_thread, dpus>>
        /\ Goto(Main, "poll") /\ Arrive(Main, N_THREADS + 1) /\ Outside(Main)
    BY <1>3 DEF MainStart, Wait, At, batchVars, counters
  <2>. QED
    BY <2>1, ArriveOutside DEF Still, Goto
<1>4. CASE Stop \/ Join
  <2>1. /\ UNCHANGED <<barrierVars, reg, txs, batch, dpu_ts, turn, n_commited, n_thread, dpus>>
        /\ Goto(Main, "join") \/ Goto(Main, "exit")
        /\ Outside(Main)
    BY <1>4 DEF Stop, Join, At, batchVars, counters
  <2>. QED
    BY <1>1, <2>1 DEF Still, Goto
<1>. QED
  BY <1>2, <1>3, <1>4 DEF MainStep

LEMMA RunFrame ==
  ASSUME pc \in [Thread -> Label], reg \in [Thread -> Nat], RunStep
  PROVE  /\ UNCHANGED <<batchVars, parts, n_transactions, n_thread, exited>>
         /\ \A th \in Thread \ {Run} : Still(th)
         /\ pc[Run] # "exit" /\ Outside(Run)
<1>1. ASSUME UNCHANGED barrierVars PROVE \A th : Outside(th)' <=> Outside(th)
  BY <1>1 DEF barrierVars, Outside
<1>. DEFINE Kept == UNCHANGED <<batchVars, parts, n_transactions, n_thread, exited>>
<1>2. CASE LaunchInit
  <2>1. Kept /\ UNCHANGED <<barrierVars, reg>> /\ Goto(Run, "start") /\ At(Run, "init")
    BY <1>2 DEF LaunchInit, counters, dpus
  <2>. QED
    BY <1>1, <2>1 DEF Still, Goto, At
<1>3. CASE RunStart
  <2>1. /\ Kept /\ UNCHANGED reg /\ Goto(Run, "loop") /\ At(Run, "start")
        /\ Arrive(Run, N_THREADS + 1)
    BY <1>3 DEF RunStart, Wait, counters, dpus
  <2>. QED
    BY <2>1, ArriveOutside DEF Still, Goto, At
<1>4. CASE RunLoop
  <2>1. /\ Kept /\ UNCHANGED <<barrierVars, reg>> /\ At(Run, "loop")
        /\ Goto(Run, "built") \/ Goto(Run, "exit")
    BY <1>4 DEF RunLoop, While, counters, dpus
  <2>. QED
    BY <1>1, <2>1 DEF Still, Goto, At
<1>5. CASE RunBuilt
  <2>1. Kept /\ UNCHANGED reg /\ Goto(Run, "count") /\ At(Run, "built") /\ Arrive(Run, N_THREADS)
    BY <1>5 DEF RunBuilt, Wait, counters, dpus
  <2>. QED
    BY <2>1, ArriveOutside DEF Still, Goto, At
<1>6. CASE Count
  <2>1. /\ Kept /\ UNCHANGED barrierVars /\ At(Run, "count")
        /\ \E n : reg' = [reg EXCEPT ![Run] = n]
        /\ \E label : Goto(Run, label)
    BY <1>6 DEF Count, dpus
  <2>. QED
    BY <1>1, <2>1 DEF Still, Goto, At
<1>7. CASE Copy
  <2>1. /\ Kept /\ UNCHANGED barrierVars /\ At(Run, "copy")
        /\ \E n : reg' = [reg EXCEPT ![Run] = n]
        /\ \E label : Goto(Run, label)
    BY <1>7 DEF Copy, counters
  <2>. QED
    BY <1>1, <2>1 DEF Still, Goto, At
<1>8. CASE RunCopied
  <2>1. Kept /\ UNCHANGED reg /\ Goto(Run, "launch") /\ At(Run, "copied") /\ Arrive(Run, N_THREADS)
    BY <1>8 DEF RunCopied, Wait, counters, dpus
  <2>. QED
    BY <2>1, ArriveOutside DEF Still, Goto, At
<1>9. CASE Launch
  <2>1. Kept /\ UNCHANGED <<barrierVars, reg>> /\ Goto(Run, "loop") /\ At(Run, "launch")
    BY <1>9 DEF Launch, counters
  <2>. QED
    BY <1>1, <2>1 DEF Still, Goto, At
<1>. QED
  BY <1>2, <1>3, <1>4, <1>5, <1>6, <1>7, <1>8, <1>9 DEF RunStep

LEMMA HelperFrame ==
  ASSUME pc \in [Thread -> Label], reg \in [Thread -> Nat], NEW h \in Helper, HelperStep(h)
  PROVE  /\ UNCHANGED <<txs, parts, n_transactions, n_commited, dpus>>
         /\ \A th \in Thread \ {h} : Still(th)
         /\ pc[h] # "exit" /\ Outside(h)
<1>1. ASSUME UNCHANGED barrierVars PROVE \A th : Outside(th)' <=> Outside(th)
  BY <1>1 DEF barrierVars, Outside
<1>. DEFINE Kept == UNCHANGED <<txs, parts, n_transactions, n_commited, dpus>>
<1>2. CASE HelperStart(h)
  <2>1. /\ Kept /\ UNCHANGED reg /\ Goto(h, "loop") /\ At(h, "start")
        /\ Arrive(h, N_THREADS + 1)
    BY <1>2 DEF HelperStart, Wait, counters, batchVars
  <2>. QED
    BY <2>1, ArriveOutside DEF Still, Goto, At
<1>3. CASE HelperLoop(h)
  <2>1. /\ Kept /\ UNCHANGED <<barrierVars, reg>> /\ At(h, "loop")
        /\ Goto(h, "build") \/ Goto(h, "exit")
    BY <1>3 DEF HelperLoop, While, counters, batchVars
  <2>. QED
    BY <1>1, <2>1 DEF Still, Goto, At
<1>4. CASE Build(h)
  <2>1. /\ Kept /\ UNCHANGED barrierVars /\ Goto(h, "dpu") /\ At(h, "build")
        /\ reg' = [reg EXCEPT ![h] = h]
    BY <1>4 DEF Build, batchVars
  <2>. QED
    BY <1>1, <2>1 DEF Still, Goto, At
<1>5. CASE BuildDpu(h)
  <2>1. Kept /\ UNCHANGED <<barrierVars, reg>> /\ Goto(h, "take") /\ At(h, "dpu")
    BY <1>5 DEF BuildDpu, BeginBatch, counters
  <2>. QED
    BY <1>1, <2>1 DEF Still, Goto, At
<1>6. CASE BuildTake(h)
  <2>1. Kept /\ UNCHANGED <<barrierVars, pc, reg>> /\ At(h, "take")
    BY <1>6 DEF BuildTake, Take
  <2>. QED
    BY <1>1, <2>1 DEF Still, At
<1>7. CASE BuildNext(h)
  <2>1. /\ Kept /\ UNCHANGED barrierVars /\ At(h, "take")
        /\ \E n : reg' = [reg EXCEPT ![h] = n]
        /\ \E label : Goto(h, label)
    BY <1>7 DEF BuildNext, counters, batchVars
  <2>. QED
    BY <1>1, <2>1 DEF Still, Goto, At
<1>8. CASE HelperBuilt(h)
  <2>1. Kept /\ UNCHANGED reg /\ Goto(h, "copied") /\ At(h, "built") /\ Arrive(h, N_THREADS)
    BY <1>8 DEF HelperBuilt, Wait, counters, batchVars
  <2>. QED
    BY <2>1, ArriveOutside DEF Still, Goto, At
<1>9. CASE HelperCopied(h)
  <2>1. Kept /\ UNCHANGED reg /\ Goto(h, "loop") /\ At(h, "copied") /\ Arrive(h, N_THREADS)
    BY <1>9 DEF HelperCopied, Wait, counters, batchVars
  <2>. QED
    BY <2>1, ArriveOutside DEF Still, Goto, At
<1>. QED
  BY <1>2, <1>3, <1>4, <1>5, <1>6, <1>7, <1>8, <1>9 DEF HelperStep

\* The barrier opens: everybody is outside, and nothing else changes.
LEMMA WakeFrame ==
  ASSUME IInv, NEW th \in Thread, Wake(th)
  PROVE  /\ UNCHANGED <<batchVars, pc, reg, parts, counters, dpus>>
         /\ \A o : Outside(o)'
         /\ notifying # {}
BY DEF Wake, Notify, Outside, IInv, BarrierOK

------------------------------------------------------------------------------
(* Types *)

\* One turn of the loop of build_batch: the front of the queue is stored in the batch.
LEMMA TakeStep ==
  ASSUME Types, NEW d \in Dpu, Take(d)
  PROVE  \E t \in Tasklet, tx \in DOMAIN txs, ts \in Nat :
           /\ queue[d] # <<>> /\ tx = Head(queue[d])
           /\ queue' = [queue EXCEPT ![d] = Tail(queue[d])]
           /\ batch' = [batch EXCEPT ![d] = [batch[d] EXCEPT ![t] = Stored(batch[d][t], tx, ts)]]
           /\ dpu_ts' = [dpu_ts EXCEPT ![d] = @ + 1]
           /\ turn' \in [Dpu -> [thread : Tasklet, prev : Nat]]
           /\ UNCHANGED txs
<1>1. /\ queue \in [Dpu -> Seq(DOMAIN txs)] /\ batch \in [Dpu -> Batch]
      /\ turn \in [Dpu -> [thread : Tasklet, prev : Nat]]
  BY DEF Types
<1>2. PICK q \in Seq(DOMAIN txs), b \in Batch : q = queue[d] /\ b = batch[d]
  BY <1>1
<1>3. PICK t \in Tasklet, prev \in Nat : turn[d] = [thread |-> t, prev |-> prev]
  BY <1>1
<1>4. turn[d].thread = t /\ turn[d].prev = prev
  BY <1>3
<1>5. queue[d] # <<>>
  BY DEF Take, Takes
<1>6. PICK tx \in DOMAIN txs : tx = Head(queue[d])
  BY <1>2, <1>5, HeadTailProperties
<1>7. b[t] \in [det : Seq(Entry), opt : Seq(Entry)] /\ DOMAIN b = Tasklet
  BY DEF Batch
<1>8. PICK n \in Nat : n = Len(batch[d][t].det)
  <2>1. PICK s \in Seq(Entry) : s = b[t].det
    BY <1>7
  <2>2. Len(s) \in Nat
    BY <2>1, LenProperties
  <2>. QED
    BY <1>2, <2>1, <2>2
<1>9. PICK ts \in Nat : ts = turn[d].prev + Position(turn[d].thread, Len(batch[d][turn[d].thread].det))
  <2>1. t \in Nat /\ NR_TASKLETS \in Nat
    BY HostAssumption DEF Tasklet
  <2>2. n * NR_TASKLETS \in Nat
    BY <2>1
  <2>3. PICK k \in Nat : k = n * NR_TASKLETS
    BY <2>2
  <2>4. Position(t, n) = t + k
    BY <2>3 DEF Position
  <2>5. prev + (t + k) \in Nat
    BY <2>1, <2>3
  <2>. QED
    BY <1>4, <1>8, <2>4, <2>5
<1>10. /\ queue' = [queue EXCEPT ![d] = Tail(queue[d])]
       /\ dpu_ts' = [dpu_ts EXCEPT ![d] = @ + 1]
       /\ UNCHANGED txs
  BY DEF Take, Counts
<1>11. batch' = [batch EXCEPT ![d] = [batch[d] EXCEPT ![t] = Stored(batch[d][t], tx, ts)]]
  <2>1. batch' = [batch EXCEPT ![d] = [batch[d] EXCEPT ![turn[d].thread] =
                                         Stored(batch[d][turn[d].thread], tx, ts)]]
    BY <1>6, <1>9, Zenon DEF Take
  <2>. QED
    BY <1>4, <2>1
<1>12. turn' \in [Dpu -> [thread : Tasklet, prev : Nat]]
  <2>1. turn' = [turn EXCEPT ![d] = [turn[d] EXCEPT !.thread = (turn[d].thread + 1) % NR_TASKLETS]]
    BY Zenon DEF Take
  <2>2. PICK u \in Tasklet : u = (t + 1) % NR_TASKLETS
    <3>1. NR_TASKLETS \in Nat \ {0} /\ t + 1 \in Nat
      BY HostAssumption DEF Tasklet
    <3>2. (t + 1) % NR_TASKLETS \in 0 .. NR_TASKLETS - 1
      BY <3>1, RemainderIs
    <3>. QED
      BY <3>2 DEF Tasklet
  <2>3. turn' = [turn EXCEPT ![d] = [thread |-> u, prev |-> prev]]
    <3>1. [turn[d] EXCEPT !.thread = u] = [thread |-> u, prev |-> prev]
      BY <1>3
    <3>2. turn' = [turn EXCEPT ![d] = [turn[d] EXCEPT !.thread = u]]
      BY <1>4, <2>1, <2>2, Zenon
    <3>. QED
      BY <3>1, <3>2, Zenon
  <2>. QED
    BY <1>1, <2>3
<1>. QED
  BY <1>5, <1>6, <1>10, <1>11, <1>12

LEMMA TypesMain ==
  ASSUME Types, MainOK, pc \in [Thread -> Label], MainStep
  PROVE  Types'
<1>1. UNCHANGED <<txs, batch, dpu_ts, turn, n_commited, n_thread, input, executed>> /\ Batch' = Batch
  BY MainFrame DEF Types, dpus, Batch, Entry
<1>2. ASSUME NEW d \in Dpu, Exec(d) PROVE Types'
  <2>1. /\ reg[Main] \in 1 .. Len(txs) + 1 /\ parts \in SUBSET Dpu /\ parts # {}
        /\ parts = {} <=> reg[Main] = Len(txs) + 1
    BY <1>2 DEF Exec, MainOK, Types
  <2>2. txs \in Seq((SUBSET Dpu) \ {{}})
    BY HostAssumption DEF Types
  <2>3. PICK L \in Nat : L = Len(txs) /\ DOMAIN txs = 1 .. L /\ \A n \in 1 .. L : txs[n] \in SUBSET Dpu
    BY <2>2, LenProperties
  <2>4. PICK r \in 1 .. L : r = reg[Main]
    BY <2>1, <2>3
  <2>5. PICK n \in {r, r + 1} : /\ reg' = [reg EXCEPT ![Main] = n]
                                /\ parts' = IF n = r THEN parts \ {d} ELSE IF n <= L THEN txs[n] ELSE {}
    BY <1>2, <2>3, <2>4 DEF Exec
  <2>6. reg' \in [Thread -> Nat]
    <3>1. reg \in [Thread -> Nat] /\ n \in Nat
      BY <2>5 DEF Types
    <3>. QED
      BY <2>5, <3>1
  <2>7. parts' \in SUBSET Dpu
    <3>1. CASE n = r
      BY <2>1, <2>5, <3>1
    <3>2. CASE n # r /\ n <= L
      <4>1. n \in 1 .. L
        BY <2>4, <2>5, <3>2
      <4>. QED
        BY <2>3, <2>5, <3>2, <4>1
    <3>3. CASE n # r /\ ~ (n <= L)
      BY <2>5, <3>3
    <3>. QED
      BY <3>1, <3>2, <3>3
  <2>8. queue' \in [Dpu -> Seq(DOMAIN txs)]
    <3>1. queue' = [queue EXCEPT ![d] = Append(queue[d], r)]
      BY <1>2, <2>4 DEF Exec, Enqueue
    <3>2. queue[d] \in Seq(DOMAIN txs) /\ r \in DOMAIN txs
      BY <2>3, <2>4 DEF Types
    <3>3. PICK q \in Seq(DOMAIN txs) : q = Append(queue[d], r)
      BY <3>2, AppendProperties
    <3>. QED
      BY <3>1, <3>3 DEF Types
  <2>9. n_transactions' \in Nat
    BY <1>2 DEF Types, Exec
  <2>. QED
    BY <1>1, <2>6, <2>7, <2>8, <2>9 DEF Types
<1>3. CASE MainStart \/ Stop \/ Join
  <2>1. UNCHANGED <<queue, reg, parts, n_transactions>>
    BY <1>3 DEF MainStart, Wait, Stop, Join, batchVars, counters
  <2>. QED
    BY <1>1, <2>1 DEF Types
<1>. QED
  BY <1>2, <1>3 DEF MainStep

LEMMA TypesRun ==
  ASSUME Types, RunOK, pc \in [Thread -> Label], RunStep
  PROVE  Types'
<1>1. UNCHANGED <<txs, queue, batch, dpu_ts, turn, parts, n_transactions, n_thread>> /\ Batch' = Batch
  BY RunFrame DEF Types, batchVars, Batch, Entry
<1>2. CASE LaunchInit \/ RunStart \/ RunLoop \/ RunBuilt \/ RunCopied
  <2>1. UNCHANGED <<reg, n_commited, input, executed>>
    BY <1>2 DEF LaunchInit, RunStart, RunLoop, While, RunBuilt, RunCopied, Wait, counters, dpus
  <2>. QED
    BY <1>1, <2>1 DEF Types
<1>3. CASE Count
  <2>1. PICK h \in Helper : h = reg[Run]
    BY <1>3 DEF RunOK, Count, At
  <2>2. n_commited' \in Nat
    BY <1>3, <2>1 DEF Count, Types
  <2>3. reg' \in [Thread -> Nat]
    <3>1. h + 1 \in Nat
      BY <2>1 DEF Helper
    <3>2. PICK n \in Nat : reg' = [reg EXCEPT ![Run] = n]
      BY <1>3, <2>1, <3>1 DEF Count
    <3>. QED
      BY <3>2 DEF Types
  <2>4. UNCHANGED <<input, executed>>
    BY <1>3 DEF Count, dpus
  <2>. QED
    BY <1>1, <2>2, <2>3, <2>4 DEF Types
<1>4. CASE Copy
  <2>1. PICK d \in Dpu : d = reg[Run]
    BY <1>4 DEF RunOK, Copy, At
  <2>2. input' = [input EXCEPT ![d] = batch[d]] /\ batch[d] \in Batch
    BY <1>4, <2>1 DEF Copy, Types
  <2>3. input' \in [Dpu -> Batch]
    BY <2>2 DEF Types
  <2>4. reg' \in [Thread -> Nat]
    <3>1. d + 1 \in Nat
      BY <2>1 DEF Dpu
    <3>2. PICK n \in Nat : reg' = [reg EXCEPT ![Run] = n]
      BY <1>4, <2>1, <3>1 DEF Copy
    <3>. QED
      BY <3>2 DEF Types
  <2>5. UNCHANGED <<executed, n_commited>>
    BY <1>4 DEF Copy, counters
  <2>. QED
    BY <1>1, <2>3, <2>4, <2>5 DEF Types
<1>5. CASE Launch
  <2>1. ASSUME NEW d \in Dpu, NEW tx \in DOMAIN txs PROVE Times(input[d], tx) \in Nat
    <3>1. IsFiniteSet(Places(input[d]))
      <4>1. PICK b \in Batch : b = input[d]
        BY DEF Types
      <4>. QED
        BY <4>1, PlacesFinite
    <3>2. PICK S \in SUBSET Places(input[d]) : Times(input[d], tx) = Cardinality(S)
      BY DEF Times
    <3>. QED
      BY <3>1, <3>2, FS_Subset, FS_CardinalityType
  <2>2. \A d \in Dpu : \A tx \in DOMAIN txs : executed[d][tx] \in Nat
    BY DEF Types
  <2>3. executed' \in [Dpu -> [DOMAIN txs -> Nat]]
    BY <1>5, <2>1, <2>2 DEF Launch
  <2>4. UNCHANGED <<reg, n_commited, input>>
    BY <1>5 DEF Launch, counters
  <2>. QED
    BY <1>1, <2>3, <2>4 DEF Types
<1>. QED
  BY <1>2, <1>3, <1>4, <1>5 DEF RunStep

LEMMA TypesHelper ==
  ASSUME Types, HelperOK, pc \in [Thread -> Label], NEW h \in Helper, HelperStep(h)
  PROVE  Types'
<1>1. UNCHANGED <<txs, parts, n_transactions, n_commited, input, executed>> /\ Batch' = Batch
  BY HelperFrame DEF Types, dpus, Batch, Entry
<1>2. CASE HelperStart(h) \/ HelperLoop(h) \/ HelperBuilt(h) \/ HelperCopied(h)
  <2>1. UNCHANGED <<queue, batch, dpu_ts, turn, reg, n_thread>>
    BY <1>2 DEF HelperStart, HelperLoop, While, HelperBuilt, HelperCopied, Wait, counters, batchVars
  <2>. QED
    BY <1>1, <2>1 DEF Types
<1>3. CASE Build(h)
  <2>1. UNCHANGED <<queue, batch, dpu_ts, turn>>
    BY <1>3 DEF Build, batchVars
  <2>2. reg' = [reg EXCEPT ![h] = h] /\ n_thread' = [n_thread EXCEPT ![h] = 0] /\ h \in Nat
    BY <1>3 DEF Build, Helper
  <2>3. reg' \in [Thread -> Nat] /\ n_thread' \in [Helper -> Nat]
    BY <2>2 DEF Types
  <2>. QED
    BY <1>1, <2>1, <2>3 DEF Types
<1>4. CASE BuildDpu(h)
  <2>1. PICK d \in Dpu : d = reg[h]
    BY <1>4 DEF HelperOK, BuildDpu, At
  <2>2. PICK b : b = [t \in Tasklet |-> NoSubTxs]
    OBVIOUS
  <2>3. /\ batch' = [batch EXCEPT ![d] = b]
        /\ turn' = [turn EXCEPT ![d] = [thread |-> 0, prev |-> dpu_ts[d]]]
        /\ UNCHANGED <<queue, dpu_ts, reg, n_thread>>
    BY <1>4, <2>1, <2>2 DEF BuildDpu, BeginBatch, counters
  <2>4. batch' \in [Dpu -> Batch]
    BY <2>2, <2>3, NothingHeld DEF Types
  <2>5. turn' \in [Dpu -> [thread : Tasklet, prev : Nat]]
    <3>1. 0 \in Tasklet /\ dpu_ts[d] \in Nat
      BY HostAssumption DEF Tasklet, Types
    <3>. QED
      BY <2>3, <3>1 DEF Types
  <2>. QED
    BY <1>1, <2>3, <2>4, <2>5 DEF Types
<1>5. CASE BuildTake(h)
  <2>1. PICK d \in Dpu : d = reg[h]
    BY <1>5 DEF HelperOK, BuildTake, At
  <2>2. Take(d)
    BY <1>5, <2>1 DEF BuildTake
  <2>3. PICK t \in Tasklet, tx \in DOMAIN txs, ts \in Nat :
           /\ queue[d] # <<>> /\ tx = Head(queue[d])
           /\ queue' = [queue EXCEPT ![d] = Tail(queue[d])]
           /\ batch' = [batch EXCEPT ![d] = [batch[d] EXCEPT ![t] = Stored(batch[d][t], tx, ts)]]
           /\ dpu_ts' = [dpu_ts EXCEPT ![d] = @ + 1]
           /\ turn' \in [Dpu -> [thread : Tasklet, prev : Nat]]
    BY <2>2, TakeStep
  <2>4. queue' \in [Dpu -> Seq(DOMAIN txs)]
    <3>1. queue[d] \in Seq(DOMAIN txs)
      BY DEF Types
    <3>2. PICK q \in Seq(DOMAIN txs) : q = Tail(queue[d])
      BY <2>3, <3>1, HeadTailProperties
    <3>. QED
      BY <2>3, <3>2 DEF Types
  <2>5. batch' \in [Dpu -> Batch]
    <3>1. PICK b \in Batch : b = batch[d]
      BY DEF Types
    <3>2. b[t] \in [det : Seq(Entry), opt : Seq(Entry)]
      BY DEF Batch
    <3>3. PICK s \in [det : Seq(Entry), opt : Seq(Entry)] : s = Stored(b[t], tx, ts)
      BY <3>2, StoredIs
    <3>4. PICK c : c = [b EXCEPT ![t] = s]
      OBVIOUS
    <3>5. c \in Batch
      BY <3>4 DEF Batch
    <3>6. batch' = [batch EXCEPT ![d] = c]
      BY <2>3, <3>1, <3>3, <3>4
    <3>. QED
      BY <3>5, <3>6 DEF Types
  <2>6. dpu_ts' \in [Dpu -> Nat]
    BY <2>3 DEF Types
  <2>7. UNCHANGED reg /\ n_thread' \in [Helper -> Nat]
    BY <1>5 DEF BuildTake, Types
  <2>. QED
    BY <1>1, <2>3, <2>4, <2>5, <2>6, <2>7 DEF Types
<1>6. CASE BuildNext(h)
  <2>1. UNCHANGED <<queue, batch, dpu_ts, turn, n_thread>>
    BY <1>6 DEF BuildNext, batchVars, counters
  <2>2. PICK d \in Dpu : d = reg[h]
    BY <1>6 DEF HelperOK, BuildNext, At
  <2>3. reg' = [reg EXCEPT ![h] = d + N_THREADS - 1] /\ d + N_THREADS - 1 \in Nat
    BY <1>6, <2>2, HelperIs DEF BuildNext
  <2>4. reg' \in [Thread -> Nat]
    BY <2>3 DEF Types
  <2>. QED
    BY <1>1, <2>1, <2>4 DEF Types
<1>. QED
  BY <1>2, <1>3, <1>4, <1>5, <1>6 DEF HelperStep

------------------------------------------------------------------------------
(* The main thread, the thread of System::run and the helpers *)

\* As long as the threads start, only they arrive at the barrier.
LEMMA NotStarting ==
  ASSUME MainBeyond
  PROVE  ~ Starting
BY DEF MainBeyond, Starting, Placed

LEMMA StartingWhere ==
  ASSUME Starting, NEW h \in Helper
  PROVE  /\ Outside(Run) => pc[Run] \in {"init", "start"}
         /\ Outside(h) => pc[h] = "start"
         /\ Outside(Main) => pc[Main] = "exec"
BY DEF Starting, Placed

\* Room, and the transactions due, depend on the workload only.
LEMMA SameWork ==
  ASSUME UNCHANGED txs
  PROVE  (Room <=> Room') /\ \A d : Due(d)' = Due(d)
BY DEF Room, Due

\* Main's part of the invariant is not disturbed by the others.
LEMMA MainUndisturbed ==
  ASSUME MainOK, Types, UNCHANGED <<txs, parts, n_transactions>>, Still(Main),
         n_commited' \in Nat, n_commited' >= n_commited,
         pc[Main] = "exit" => \A th \in Worker : pc'[th] = "exit"
  PROVE  MainOK'
<1>1. Room' <=> Room
  BY SameWork
<1>2. pc'[Main] = pc[Main] /\ reg'[Main] = reg[Main]
  BY DEF Still
<1>3. pc[Main] \in {"join", "exit"} => n_commited' >= n_transactions
  BY DEF MainOK, Types
<1>. QED
  BY <1>1, <1>2, <1>3 DEF MainOK

LEMMA MainMain ==
  ASSUME IInv, PInv, MainStep
  PROVE  MainOK'
<1>0. /\ pc \in [Thread -> Label] /\ reg \in [Thread -> Nat] /\ Main \in Thread
      /\ txs \in Seq((SUBSET Dpu) \ {{}})
  BY Roles, HostAssumption DEF PInv, IInv, Types
<1>1. UNCHANGED <<txs, n_commited>> /\ \A th \in Worker : pc'[th] = pc[th]
  BY <1>0, MainFrame DEF Still
<1>2. PICK L \in Nat : L = Len(txs) /\ \A n \in 1 .. L : txs[n] \in (SUBSET Dpu) \ {{}}
  <2>1. txs \in [1 .. Len(txs) -> (SUBSET Dpu) \ {{}}] /\ Len(txs) \in Nat
    BY <1>0, LenProperties
  <2>. QED
    BY <2>1, Zenon
<1>3. MainOK
  BY DEF PInv
<1>4. ASSUME NEW d \in Dpu, Exec(d) PROVE MainOK'
  <2>1. PICK r \in 1 .. L + 1 : r = reg[Main]
    BY <1>2, <1>3 DEF MainOK
  <2>2. /\ d \in parts /\ pc[Main] = "exec"
        /\ UNCHANGED pc
    BY <1>4 DEF Exec, At
  <2>3. r <= L /\ parts \subseteq txs[r]
    BY <1>2, <1>3, <2>1, <2>2 DEF MainOK
  <2>4. CASE parts = {d}
    <3>1. /\ reg' = [reg EXCEPT ![Main] = r + 1]
          /\ parts' = IF r + 1 <= L THEN txs[r + 1] ELSE {}
      <4>1. r + 1 # r
        BY <2>1
      <4>. QED
        BY <1>2, <1>4, <2>1, <2>4, <4>1 DEF Exec
    <3>2. reg'[Main] = r + 1
      BY <1>0, <3>1
    <3>3. r + 1 \in 1 .. L + 1 /\ (r + 1 <= L => r + 1 \in 1 .. L) /\ (~ (r + 1 <= L) <=> r + 1 = L + 1)
      BY <2>1, <2>3
    <3>4. parts' = {} <=> r + 1 = L + 1
      BY <1>2, <3>1, <3>3
    <3>5. r + 1 <= L => parts' \subseteq txs[r + 1]
      BY <3>1
    <3>. QED
      BY <1>1, <1>2, <2>2, <3>2, <3>3, <3>4, <3>5 DEF MainOK
  <2>5. CASE parts # {d}
    <3>1. parts' = parts \ {d} /\ reg'[Main] = r
      BY <1>0, <1>4, <2>1, <2>5 DEF Exec
    <3>2. parts' # {} /\ parts' \subseteq txs[r]
      BY <2>2, <2>3, <2>5, <3>1
    <3>3. r # L + 1
      BY <2>3
    <3>. QED
      BY <1>1, <1>2, <2>1, <2>2, <3>1, <3>2, <3>3 DEF MainOK
  <2>. QED
    BY <2>4, <2>5
<1>5. CASE MainStart
  <2>1. /\ parts = {} /\ pc[Main] = "exec" /\ pc' = [pc EXCEPT ![Main] = "poll"]
        /\ UNCHANGED <<reg, parts, n_transactions, n_commited>>
    BY <1>5 DEF MainStart, At, Wait, Goto, counters
  <2>2. Starting
    BY <2>1 DEF IInv, Stages, Building, Copying, MainBeyond
  <2>3. Room
    <3>. SUFFICES ASSUME NEW d \in Dpu PROVE Cardinality(Due(d)) <= BUFFER_SIZE
      BY DEF Room
    <3>1. Due(d) = Queued(d)
      <4>1. Partition(d) /\ Ran(d) = {} /\ Held(batch[d]) = {}
        BY <2>2 DEF PInv, PlacesOK, StartOK
      <4>2. Unqueued(d) = {}
        <5>1. reg[Main] = L + 1 /\ DOMAIN txs = 1 .. L
          BY <1>0, <1>2, <1>3, <2>1, LenProperties DEF MainOK
        <5>. QED
          BY <2>1, <5>1 DEF Unqueued, Due
      <4>3. InBatch(d) = {} /\ InInput(d) = {}
        <5>1. ~ Launching
          BY <2>2, StartingWhere, Roles DEF Launching, Starting, Placed
        <5>. QED
          BY <4>1, <5>1 DEF InBatch, InInput
      <4>. QED
        BY <4>1, <4>2, <4>3 DEF Partition
    <3>2. PICK q \in Seq(DOMAIN txs) : q = queue[d]
      BY DEF PInv, Types
    <3>3. Len(q) \in Nat /\ DOMAIN q = 1 .. Len(q) /\ Len(q) <= BUFFER_SIZE
      BY <3>2, LenProperties DEF PInv, PlacesOK, Singly
    <3>4. IsFiniteSet(1 .. Len(q)) /\ Cardinality(1 .. Len(q)) = Len(q)
      <4>1. PICK n \in Nat : n = Len(q)
        BY <3>3, Zenon
      <4>2. IsFiniteSet(1 .. n) /\ Cardinality(1 .. n) = n
        BY FS_Interval
      <4>. QED
        BY <4>1, <4>2, Zenon
    <3>5. Queued(d) = {tx \in DOMAIN txs : \E n \in 1 .. Len(q) : q[n] = tx}
      BY <3>2, <3>3 DEF Queued
    <3>6. \A n \in 1 .. Len(q) : q[n] \in DOMAIN txs
      BY <3>2, <3>3, LenProperties
    <3>7. PICK Q : Q = Queued(d)
      OBVIOUS
    <3>8. PICK f : f = [n \in 1 .. Len(q) |-> q[n]]
      OBVIOUS
    <3>9. f \in Surjection(1 .. Len(q), Q)
      BY <3>5, <3>6, <3>7, <3>8 DEF Surjection
    <3>10. Cardinality(Q) <= Len(q) /\ IsFiniteSet(Q)
      BY <3>4, <3>9, FS_Surjection
    <3>11. Cardinality(Q) \in Nat /\ BUFFER_SIZE \in Nat
      BY <3>10, FS_CardinalityType, HostAssumption
    <3>. QED
      BY <3>1, <3>3, <3>7, <3>10, <3>11
  <2>4. Room'
    BY <1>1, <2>3, SameWork
  <2>5. pc'[Main] = "poll"
    BY <1>0, <2>1
  <2>. QED
    BY <1>1, <1>3, <2>1, <2>4, <2>5 DEF MainOK
<1>6. CASE Stop
  <2>1. /\ pc[Main] = "poll" /\ n_commited >= n_transactions /\ pc' = [pc EXCEPT ![Main] = "join"]
        /\ UNCHANGED <<reg, parts, n_transactions>>
    BY <1>6 DEF Stop, At, Goto, counters
  <2>2. pc'[Main] = "join"
    BY <1>0, <2>1
  <2>3. Room' <=> Room
    BY <1>1, SameWork
  <2>. QED
    BY <1>1, <1>3, <2>1, <2>2, <2>3 DEF MainOK
<1>7. CASE Join
  <2>1. /\ pc[Main] = "join" /\ pc' = [pc EXCEPT ![Main] = "exit"]
        /\ \A th \in Thread \ {Main} : pc[th] = "exit"
        /\ UNCHANGED <<reg, parts, n_transactions>>
    BY <1>7 DEF Join, At, Goto, counters
  <2>2. pc'[Main] = "exit" /\ \A th \in Worker : pc'[th] = "exit"
    BY <1>0, <1>1, <2>1, Roles DEF Worker
  <2>3. Room' <=> Room
    BY <1>1, SameWork
  <2>. QED
    BY <1>1, <1>3, <2>1, <2>2, <2>3 DEF MainOK
<1>. QED
  BY <1>4, <1>5, <1>6, <1>7 DEF MainStep

LEMMA MainNext ==
  ASSUME IInv, PInv, [Next]_vars, Types'
  PROVE  MainOK'
<1>0. /\ pc \in [Thread -> Label] /\ reg \in [Thread -> Nat] /\ MainOK /\ Types /\ RunOK
      /\ n_commited \in Nat
  BY DEF PInv, IInv, Types
<1>1. CASE MainStep
  BY <1>1, MainMain
<1>2. CASE RunStep
  <2>1. /\ UNCHANGED <<txs, parts, n_transactions>> /\ Still(Main)
        /\ pc[Run] # "exit" /\ Outside(Run)
    BY <1>0, <1>2, RunFrame, Roles DEF batchVars
  <2>2. n_commited' >= n_commited
    <3>1. CASE Count
      <4>1. n_thread[reg[Run]] \in Nat
        BY <1>0, <2>1, <3>1 DEF Types, RunOK, Count, At
      <4>. QED
        BY <1>0, <3>1, <4>1 DEF Count
    <3>2. CASE ~ Count
      <4>1. UNCHANGED n_commited
        BY <1>2, <3>2 DEF RunStep, LaunchInit, RunStart, RunLoop, While, RunBuilt, Copy, RunCopied,
                         Launch, Wait, counters
      <4>. QED
        BY <1>0, <4>1
    <3>. QED
      BY <3>1, <3>2
  <2>3. pc[Main] # "exit"
    BY <1>0, <2>1 DEF MainOK, Worker
  <2>. QED
    BY <1>0, <2>1, <2>2, <2>3, MainUndisturbed DEF Types
<1>3. ASSUME NEW h \in Helper, HelperStep(h) PROVE MainOK'
  <2>1. /\ UNCHANGED <<txs, parts, n_transactions, n_commited>> /\ Still(Main)
        /\ pc[h] # "exit"
    BY <1>0, <1>3, HelperFrame, Roles
  <2>2. pc[Main] # "exit"
    BY <1>0, <2>1 DEF MainOK, Worker
  <2>. QED
    BY <1>0, <2>1, <2>2, MainUndisturbed DEF Types
<1>4. CASE \/ DpuError \/ UNCHANGED vars \/ \E th \in Thread : Wake(th)
  <2>1. UNCHANGED <<pc, reg, txs, parts, n_transactions, n_commited>>
    BY <1>4 DEF DpuError, Wake, vars, batchVars, counters
  <2>2. Room' <=> Room
    BY <2>1, SameWork
  <2>. QED
    BY <1>0, <2>1, <2>2 DEF MainOK
<1>. QED
  BY <1>1, <1>2, <1>3, <1>4 DEF Next

\* The thread of System::run and what it copies are not disturbed by the others.
LEMMA RunUndisturbed ==
  ASSUME RunOK, Still(Run), UNCHANGED input,
         \A d \in Dpu : Copied(d) => batch'[d] = batch[d]
  PROVE  RunOK'
<1>1. \A d \in Dpu : Copied(d)' <=> Copied(d)
  BY DEF Copied, Still
<1>2. \A d \in Dpu : Copied(d)' => input'[d] = batch'[d]
  BY <1>1 DEF RunOK
<1>. QED
  BY <1>2 DEF RunOK, Still

\* While a helper builds, nothing has been copied that is not launched.
LEMMA BuildingWhere ==
  ASSUME Building
  PROVE  /\ \A d : ~ Copied(d)
         /\ \A h : ~ Added(h)
BY DEF Building, Placed, Copied, Added

LEMMA BuildersBuild ==
  ASSUME IInv, NEW h \in Helper, Outside(h), pc[h] \in {"loop", "build", "dpu", "take", "built"}
  PROVE  Building
BY DEF IInv, Stages, Starting, Copying, Placed

LEMMA CopiersCopy ==
  ASSUME IInv, Outside(Run), pc[Run] \in {"count", "copy", "copied"}
  PROVE  Copying
BY DEF IInv, Stages, Starting, Building, Placed

LEMMA RunRun ==
  ASSUME RunOK, pc \in [Thread -> Label], reg \in [Thread -> Nat], input \in [Dpu -> Batch], RunStep
  PROVE  RunOK'
<1>0. Run \in Thread /\ 0 \in Helper
  BY Roles, ThreadsAssumption DEF Helper
<1>1. UNCHANGED batch /\ Outside(Run)
  BY RunFrame DEF batchVars
<1>2. CASE LaunchInit \/ RunLoop \/ Launch
  <2>1. /\ UNCHANGED <<reg, input, barrierVars>>
        /\ pc'[Run] \in {"start", "built", "exit", "loop"}
        /\ pc[Run] \in {"init", "loop", "launch"}
    BY <1>0, <1>2 DEF LaunchInit, RunLoop, While, Launch, At, Goto, dpus
  <2>2. reg'[Run] = 0 /\ \A d \in Dpu : ~ Copied(d)'
    BY <2>1 DEF Copied, RunOK
  <2>. QED
    BY <2>1, <2>2 DEF RunOK
<1>3. CASE RunStart \/ RunBuilt
  <2>1. /\ UNCHANGED <<reg, input>> /\ ~ Outside(Run)'
        /\ pc'[Run] \in {"loop", "count"} /\ pc[Run] \in {"start", "built"}
    BY <1>0, <1>3, ArriveOutside DEF RunStart, RunBuilt, Wait, At, Goto, dpus
  <2>2. reg'[Run] = 0 /\ \A d \in Dpu : ~ Copied(d)'
    BY <2>1 DEF Copied, RunOK
  <2>. QED
    BY <2>1, <2>2 DEF RunOK
<1>4. CASE RunCopied
  <2>1. /\ UNCHANGED <<reg, input>> /\ pc'[Run] = "launch" /\ pc[Run] = "copied"
    BY <1>0, <1>4 DEF RunCopied, Wait, At, Goto, dpus
  <2>2. reg'[Run] = 0 /\ \A d \in Dpu : input'[d] = batch'[d]
    BY <1>1, <2>1 DEF Copied, RunOK
  <2>. QED
    BY <2>1, <2>2 DEF RunOK
<1>5. CASE Count
  <2>1. PICK h \in Helper : h = reg[Run]
    BY <1>5 DEF RunOK, Count, At
  <2>2. UNCHANGED <<input, barrierVars>> /\ pc[Run] = "count"
    BY <1>5 DEF Count, At, dpus
  <2>3. Outside(Run)'
    BY <1>1, <2>2 DEF barrierVars, Outside
  <2>4. \/ h = N_THREADS - 2 /\ reg'[Run] = 0 /\ pc'[Run] = "copy"
        \/ h # N_THREADS - 2 /\ reg'[Run] = h + 1 /\ pc'[Run] = "count"
    BY <1>0, <1>5, <2>1 DEF Count, Goto
  <2>5. \A d \in Dpu : ~ Copied(d)'
    <3>1. \A d \in Dpu : ~ (d < 0)
      BY DEF Dpu
    <3>. QED
      BY <2>4, <3>1 DEF Copied
  <2>6. h # N_THREADS - 2 => h + 1 \in Helper
    BY <2>1, ThreadsAssumption DEF Helper
  <2>7. 0 \in Dpu
    BY HostAssumption DEF Dpu
  <2>. QED
    BY <2>3, <2>4, <2>5, <2>6, <2>7 DEF RunOK
<1>6. CASE Copy
  <2>1. PICK e \in Dpu : e = reg[Run]
    BY <1>6 DEF RunOK, Copy, At
  <2>2. pc[Run] = "copy" /\ input' = [input EXCEPT ![e] = batch[e]]
    BY <1>6, <2>1 DEF Copy, At
  <2>3. \/ e = N_DPUS - 1 /\ reg'[Run] = 0 /\ pc'[Run] = "copied"
        \/ e # N_DPUS - 1 /\ reg'[Run] = e + 1 /\ pc'[Run] = "copy"
    BY <1>0, <1>6, <2>1 DEF Copy, Goto
  <2>4. ASSUME NEW d \in Dpu, Copied(d)' PROVE input'[d] = batch'[d]
    <3>1. d < e \/ d = e
      BY <2>1, <2>3, <2>4, HostAssumption DEF Copied, Dpu
    <3>2. CASE d = e
      BY <1>1, <2>2, <3>2
    <3>3. CASE d < e
      <4>1. input[d] = batch[d]
        BY <2>1, <2>2, <3>3 DEF RunOK, Copied
      <4>2. d # e
        BY <3>3 DEF Dpu
      <4>. QED
        BY <1>1, <2>2, <4>1, <4>2
    <3>. QED
      BY <3>1, <3>2, <3>3
  <2>5. e # N_DPUS - 1 => e + 1 \in Dpu
    BY <2>1, HostAssumption DEF Dpu
  <2>. QED
    BY <2>3, <2>4, <2>5 DEF RunOK
<1>. QED
  BY <1>2, <1>3, <1>4, <1>5, <1>6 DEF RunStep

LEMMA RunNext ==
  ASSUME IInv, PInv, [Next]_vars
  PROVE  RunOK'
<1>0. /\ pc \in [Thread -> Label] /\ reg \in [Thread -> Nat] /\ input \in [Dpu -> Batch] /\ RunOK
  BY DEF PInv, IInv, Types
<1>1. CASE MainStep
  <2>1. Still(Run) /\ UNCHANGED <<input, batch>>
    BY <1>0, <1>1, MainFrame DEF dpus, Worker
  <2>. QED
    BY <1>0, <2>1, RunUndisturbed
<1>2. CASE RunStep
  BY <1>0, <1>2, RunRun
<1>3. ASSUME NEW h \in Helper, HelperStep(h) PROVE RunOK'
  <2>1. Still(Run) /\ UNCHANGED input /\ Outside(h)
    BY <1>0, <1>3, HelperFrame, Roles DEF dpus
  <2>2. UNCHANGED batch \/ Building
    <3>1. UNCHANGED batch \/ pc[h] \in {"dpu", "take"}
      BY <1>3 DEF HelperStep, HelperStart, HelperLoop, While, Build, BuildDpu, BuildTake, BuildNext,
                  HelperBuilt, HelperCopied, Wait, At, batchVars
    <3>. QED
      BY <2>1, <3>1, BuildersBuild
  <2>. QED
    BY <1>0, <2>1, <2>2, RunUndisturbed, BuildingWhere
<1>4. CASE DpuError \/ UNCHANGED vars
  <2>1. UNCHANGED <<pc, reg, barrierVars, input, batch>>
    BY <1>4 DEF DpuError, vars, dpus, batchVars
  <2>2. Still(Run)
    BY <2>1 DEF Still, Outside, barrierVars
  <2>. QED
    BY <1>0, <2>1, <2>2, RunUndisturbed
<1>5. ASSUME NEW th \in Thread, Wake(th) PROVE RunOK'
  <2>1. UNCHANGED <<pc, reg, input, batch>> /\ Outside(Run)'
    BY <1>5, WakeFrame DEF dpus, batchVars
  <2>2. \A d \in Dpu : Copied(d)' => Copied(d)
    BY <2>1 DEF Copied
  <2>3. 0 \in Helper
    BY ThreadsAssumption DEF Helper
  <2>4. \A d \in Dpu : Copied(d)' => input'[d] = batch'[d]
    BY <1>0, <2>1, <2>2 DEF RunOK
  <2>. QED
    BY <1>0, <2>1, <2>3, <2>4 DEF RunOK
<1>. QED
  BY <1>1, <1>2, <1>3, <1>4, <1>5 DEF Next

LEMMA HelperNext ==
  ASSUME IInv, PInv, [Next]_vars
  PROVE  HelperOK'
<1>0. /\ pc \in [Thread -> Label] /\ reg \in [Thread -> Nat] /\ HelperOK
  BY DEF PInv, IInv, Types
<1>1. ASSUME NEW h \in Helper, pc'[h] = pc[h], reg'[h] = reg[h], pc'[h] \in {"dpu", "take"}
      PROVE  reg'[h] \in Dpu /\ HelperOf(reg'[h]) = h
  BY <1>0, <1>1 DEF HelperOK
<1>2. CASE MainStep \/ RunStep \/ DpuError \/ UNCHANGED vars \/ \E th \in Thread : Wake(th)
  <2>1. ASSUME NEW h \in Helper PROVE pc'[h] = pc[h] /\ reg'[h] = reg[h]
    <3>1. h \in Worker /\ h \in Thread \ {Run}
      BY Roles DEF Worker
    <3>2. CASE MainStep
      BY <1>0, <3>1, <3>2, MainFrame DEF Still
    <3>3. CASE RunStep
      BY <1>0, <3>1, <3>3, RunFrame DEF Still
    <3>4. CASE DpuError \/ UNCHANGED vars \/ \E th \in Thread : Wake(th)
      BY <3>4 DEF DpuError, vars, Wake
    <3>. QED
      BY <1>2, <3>2, <3>3, <3>4
  <2>. QED
    BY <1>1, <2>1 DEF HelperOK
<1>3. ASSUME NEW h \in Helper, HelperStep(h) PROVE HelperOK'
  <2>1. h \in Thread /\ \A g \in Helper \ {h} : pc'[g] = pc[g] /\ reg'[g] = reg[g]
    BY <1>0, <1>3, HelperFrame, Roles DEF Still
  <2>2. ASSUME pc'[h] \in {"dpu", "take"} PROVE reg'[h] \in Dpu /\ HelperOf(reg'[h]) = h
    <3>1. CASE Build(h)
      BY <1>0, <2>1, <3>1, HelperIs DEF Build
    <3>2. CASE BuildNext(h)
      <4>1. PICK d \in Dpu : d = reg[h] /\ HelperOf(d) = h
        BY <1>0, <3>2 DEF BuildNext, At, HelperOK
      <4>2. /\ reg'[h] = d + N_THREADS - 1
            /\ pc'[h] = (IF d + N_THREADS - 1 < N_DPUS THEN "dpu" ELSE "built")
        BY <1>0, <2>1, <3>2, <4>1 DEF BuildNext, Goto
      <4>3. d + N_THREADS - 1 \in Nat /\ HelperOf(d + N_THREADS - 1) = h
        BY <4>1, HelperIs
      <4>4. d + N_THREADS - 1 < N_DPUS
        BY <2>2, <4>2
      <4>5. d + N_THREADS - 1 \in Dpu
        BY <4>3, <4>4, HostAssumption DEF Dpu
      <4>. QED
        BY <4>2, <4>3, <4>5
    <3>3. CASE BuildDpu(h) \/ BuildTake(h)
      <4>1. pc[h] \in {"dpu", "take"} /\ reg'[h] = reg[h]
        BY <3>3 DEF BuildDpu, BuildTake, At
      <4>. QED
        BY <1>0, <4>1 DEF HelperOK
    <3>4. CASE HelperStart(h) \/ HelperLoop(h) \/ HelperBuilt(h) \/ HelperCopied(h)
      <4>1. pc'[h] \in {"loop", "build", "exit", "copied"}
        BY <1>0, <2>1, <3>4 DEF HelperStart, HelperLoop, While, HelperBuilt, HelperCopied, Wait, Goto
      <4>. QED
        BY <2>2, <4>1
    <3>. QED
      BY <1>3, <3>1, <3>2, <3>3, <3>4 DEF HelperStep
  <2>. QED
    BY <1>1, <2>1, <2>2 DEF HelperOK
<1>. QED
  BY <1>2, <1>3 DEF Next

\* The threads do not come back to the start.
LEMMA NoRestart ==
  ASSUME IInv, reg \in [Thread -> Nat], [Next]_vars, Starting'
  PROVE  Starting
<1>. SUFFICES ASSUME ~ Starting PROVE FALSE
  OBVIOUS
<1>1. MainBeyond /\ pc \in [Thread -> Label] /\ Main \in Thread
  BY Roles DEF IInv, Stages, Building, Copying
<1>2. ~ MainBeyond'
  BY DEF MainBeyond, Starting, Placed
<1>3. ASSUME pc'[Main] = pc[Main], Outside(Main)' <=> Outside(Main) PROVE FALSE
  BY <1>1, <1>2, <1>3 DEF MainBeyond
<1>4. CASE MainStep
  <2>1. pc[Main] \in {"poll", "join", "exit"} /\ Outside(Main)
    BY <1>1 DEF MainBeyond
  <2>2. pc'[Main] \in {"poll", "join", "exit"} /\ UNCHANGED barrierVars
    BY <1>1, <1>4, <2>1 DEF MainStep, Exec, MainStart, Stop, Join, At, Goto
  <2>. QED
    BY <1>2, <2>1, <2>2 DEF MainBeyond, Outside, barrierVars
<1>5. CASE RunStep
  BY <1>1, <1>3, <1>5, RunFrame, Roles DEF Still
<1>6. ASSUME NEW h \in Helper, HelperStep(h) PROVE FALSE
  BY <1>1, <1>3, <1>6, HelperFrame, Roles DEF Still
<1>7. CASE DpuError \/ UNCHANGED vars
  <2>1. UNCHANGED <<pc, barrierVars>>
    BY <1>7 DEF DpuError, vars
  <2>. QED
    BY <1>3, <2>1 DEF barrierVars, Outside
<1>8. ASSUME NEW th \in Thread, Wake(th) PROVE FALSE
  <2>1. UNCHANGED pc /\ Outside(Main)'
    BY <1>8, WakeFrame
  <2>. QED
    BY <1>1, <1>2, <2>1 DEF MainBeyond
<1>. QED
  BY <1>4, <1>5, <1>6, <1>7, <1>8 DEF Next

LEMMA StartNext ==
  ASSUME IInv, PInv, [Next]_vars
  PROVE  StartOK'
<1>. SUFFICES ASSUME Starting'
              PROVE  /\ \A d \in Dpu : dpu_ts'[d] = 0 /\ Held(batch[d])' = {} /\ Ran(d)' = {}
                     /\ n_commited' = 0 /\ \A h \in Helper : n_thread'[h] = 0
  BY DEF StartOK
<1>1. Starting
  BY NoRestart DEF PInv, Types
<1>2. /\ \A d \in Dpu : dpu_ts[d] = 0 /\ Held(batch[d]) = {} /\ Ran(d) = {}
      /\ n_commited = 0 /\ \A h \in Helper : n_thread[h] = 0
  BY <1>1 DEF PInv, StartOK
<1>3. UNCHANGED <<txs, dpu_ts, batch, executed, n_commited, n_thread>>
  <2>0. pc \in [Thread -> Label] /\ reg \in [Thread -> Nat]
    BY DEF IInv, PInv, Types
  <2>1. CASE MainStep
    BY <2>0, <2>1, MainFrame DEF dpus
  <2>2. CASE RunStep
    <3>1. Outside(Run) /\ UNCHANGED <<batchVars, n_thread>>
      BY <2>0, <2>2, RunFrame
    <3>2. pc[Run] \in {"init", "start"}
      BY <1>1, <3>1 DEF Starting, Placed
    <3>3. UNCHANGED <<executed, n_commited>>
      BY <2>2, <3>2 DEF RunStep, LaunchInit, RunStart, RunLoop, While, RunBuilt, Count, Copy,
                        RunCopied, Launch, Wait, At, counters, dpus
    <3>. QED
      BY <3>1, <3>3 DEF batchVars
  <2>3. ASSUME NEW h \in Helper, HelperStep(h)
        PROVE  UNCHANGED <<txs, dpu_ts, batch, executed, n_commited, n_thread>>
    <3>1. Outside(h)
      BY <2>0, <2>3, HelperFrame
    <3>2. pc[h] = "start"
      BY <1>1, <3>1 DEF Starting, Placed
    <3>. QED
      BY <2>3, <3>2 DEF HelperStep, HelperStart, HelperLoop, While, Build, BuildDpu, BuildTake,
                        BuildNext, HelperBuilt, HelperCopied, Wait, At, batchVars, counters, dpus
  <2>4. CASE DpuError \/ UNCHANGED vars \/ \E th \in Thread : Wake(th)
    BY <2>4 DEF DpuError, vars, Wake, batchVars, counters, dpus
  <2>. QED
    BY <2>1, <2>2, <2>3, <2>4 DEF Next
<1>4. \A d \in Dpu : Held(batch[d])' = Held(batch[d]) /\ Ran(d)' = Ran(d)
  BY <1>3 DEF Held, Places, TxAt, Ran
<1>. QED
  BY <1>2, <1>3, <1>4

------------------------------------------------------------------------------
(* The places and the sums *)

LEMMA StillHelper ==
  ASSUME NEW h \in Helper, Still(h)
  PROVE  /\ Counting(h)' <=> Counting(h)
         /\ \A d \in Dpu : HelperOf(d) = h => (Fresh(d)' <=> Fresh(d))
BY DEF Still, Counting, Fresh

LEMMA StillRun ==
  ASSUME Still(Run)
  PROVE  (Launching' <=> Launching) /\ \A h \in Helper : Added(h)' <=> Added(h)
BY DEF Still, Launching, Added

\* The sets that Partition is about do not change.
Unmoved(d) ==
  /\ Unqueued(d)' = Unqueued(d) /\ Queued(d)' = Queued(d) /\ InBatch(d)' = InBatch(d)
  /\ InInput(d)' = InInput(d) /\ Ran(d)' = Ran(d)

LEMMA UnmovedStays ==
  ASSUME NEW d \in Dpu, Partition(d), UNCHANGED txs, Unmoved(d)
  PROVE  Partition(d)'
BY SameWork DEF Partition, Unmoved

LEMMA EnteredStays ==
  ASSUME UNCHANGED txs, \A d \in Dpu : Unqueued(d)' = Unqueued(d)
  PROVE  Entered' = Entered
BY SameWork DEF Entered, Pair

LEMMA BatchedStays ==
  ASSUME UNCHANGED txs, NEW h, \A d \in Dpu : HelperOf(d) = h => InBatch(d)' = InBatch(d)
  PROVE  Batched(h)' = Batched(h)
BY DEF Batched, Pair

LEMMA SummedStays ==
  ASSUME UNCHANGED txs, \A d \in Dpu : Told(d)' = Told(d)
  PROVE  Summed' = Summed
BY DEF Summed, Pair

\* What is in the batches, in the queue and in the history of a DPU does not change.
LEMMA SinglyStays ==
  ASSUME NEW d \in Dpu, Singly(d), UNCHANGED <<txs, queue, batch, input, executed>>
  PROVE  /\ Singly(d)'
         /\ Held(batch[d])' = Held(batch[d]) /\ Held(input[d])' = Held(input[d])
<1>1. (Once(batch[d])' <=> Once(batch[d])) /\ (Once(input[d])' <=> Once(input[d]))
  BY DEF Once, Places, TxAt
<1>2. Held(batch[d])' = Held(batch[d]) /\ Held(input[d])' = Held(input[d])
  BY DEF Held, Places, TxAt
<1>. QED
  BY <1>1, <1>2 DEF Singly

\* Nothing has moved; counters may be reset while there is nothing to count.
LEMMA PlacesStay ==
  ASSUME PlacesOK, SumsOK, UNCHANGED <<txs, queue, executed, n_transactions, n_commited>>,
         \A d \in Dpu : /\ Unqueued(d)' = Unqueued(d) /\ InBatch(d)' = InBatch(d)
                        /\ InInput(d)' = InInput(d) /\ Singly(d)',
         \A h \in Helper : Added(h)' <=> Added(h),
         \A h \in Helper : Counting(h)' => \/ Counting(h) /\ n_thread'[h] = n_thread[h]
                                           \/ Batched(h) = {} /\ n_thread'[h] = 0
  PROVE  PlacesOK' /\ SumsOK'
<1>1. \A d \in Dpu : Queued(d)' = Queued(d) /\ Ran(d)' = Ran(d)
  BY Zenon DEF Queued, Ran
<1>2. \A d \in Dpu : Partition(d)'
  BY <1>1, UnmovedStays DEF Unmoved, PlacesOK
<1>3. \A d \in Dpu : Told(d)' = Told(d)
  BY <1>1, HelperIs DEF Told
<1>4. Entered' = Entered /\ Summed' = Summed
  BY <1>3, EnteredStays, SummedStays
<1>5. ASSUME NEW h \in Helper, Counting(h)' PROVE n_thread'[h] = Cardinality(Batched(h)')
  <2>1. Batched(h)' = Batched(h)
    BY BatchedStays
  <2>2. CASE Counting(h) /\ n_thread'[h] = n_thread[h]
    BY <2>1, <2>2 DEF SumsOK
  <2>3. CASE Batched(h) = {} /\ n_thread'[h] = 0
    BY <2>1, <2>3, FS_EmptySet
  <2>. QED
    BY <1>5, <2>2, <2>3
<1>6. SumsOK'
  BY <1>4, <1>5 DEF SumsOK
<1>. QED
  BY <1>2, <1>6 DEF PlacesOK

\* A thread moves without a batch being begun, copied or launched.
LEMMA ThreadMoves ==
  ASSUME PlacesOK, SumsOK, UNCHANGED <<txs, queue, batch, input, executed, counters, parts>>,
         reg'[Main] = reg[Main],
         \A d \in Dpu : Fresh(d)' <=> Fresh(d), Launching' <=> Launching,
         \A h \in Helper : (Added(h)' <=> Added(h)) /\ (Counting(h)' => Counting(h))
  PROVE  PlacesOK' /\ SumsOK'
<1>1. ASSUME NEW d \in Dpu
      PROVE  /\ Unqueued(d)' = Unqueued(d) /\ InBatch(d)' = InBatch(d) /\ InInput(d)' = InInput(d)
             /\ Singly(d)'
  <2>1. Unqueued(d)' = Unqueued(d)
    BY SameWork DEF Unqueued
  <2>2. Held(batch[d])' = Held(batch[d]) /\ Held(input[d])' = Held(input[d]) /\ Singly(d)'
    BY SinglyStays DEF PlacesOK
  <2>. QED
    BY <2>1, <2>2 DEF InBatch, InInput
<1>2. UNCHANGED <<n_transactions, n_commited, n_thread>>
  BY DEF counters
<1>. QED
  BY <1>1, <1>2, PlacesStay

\* What a set of pairs has at most.
LEMMA PairsFinite ==
  ASSUME Types
  PROVE  /\ IsFiniteSet(Pair)
         /\ IsFiniteSet(Entered) /\ IsFiniteSet(Summed) /\ \A h : IsFiniteSet(Batched(h))
<1>1. PICK L \in Nat : DOMAIN txs = 1 .. L
  BY HostAssumption, LenProperties DEF Types
<1>2. IsFiniteSet(1 .. L)
  BY FS_Interval
<1>3. IsFiniteSet(Dpu)
  BY FS_Interval, HostAssumption DEF Dpu
<1>4. IsFiniteSet(Pair)
  BY <1>1, <1>2, <1>3, FS_Product DEF Pair
<1>5. Entered \subseteq Pair /\ Summed \subseteq Pair /\ \A h : Batched(h) \subseteq Pair
  BY DEF Entered, Summed, Batched
<1>. QED
  BY <1>4, <1>5, FS_Subset

\* One part of a transaction is put into the queue of its DPU.
LEMMA PlacesExec ==
  ASSUME IInv, PInv, NEW d \in Dpu, Exec(d)
  PROVE  PlacesOK' /\ SumsOK'
<1>0. /\ pc \in [Thread -> Label] /\ reg \in [Thread -> Nat] /\ Main \in Thread
      /\ txs \in Seq((SUBSET Dpu) \ {{}}) /\ Types /\ MainOK /\ PlacesOK /\ SumsOK
  BY Roles, HostAssumption DEF PInv, IInv, Types
<1>1. /\ UNCHANGED <<txs, batch, input, executed, n_commited, n_thread>>
      /\ \A th \in Worker : Still(th)
  <2>1. MainStep
    BY DEF MainStep
  <2>. QED
    BY <1>0, <2>1, MainFrame DEF dpus
<1>2. PICK L \in Nat : /\ L = Len(txs) /\ DOMAIN txs = 1 .. L
  BY <1>0, LenProperties
<1>3. PICK tx \in 1 .. L : tx = reg[Main] /\ parts \subseteq txs[tx] /\ d \in parts
  BY <1>0, <1>2 DEF Exec, MainOK
<1>4. d \in Dpu /\ tx \in DOMAIN txs /\ tx \in Unqueued(d)
  BY <1>2, <1>3 DEF Unqueued, Due
<1>5. ASSUME NEW e \in Dpu PROVE Unqueued(e)' = IF e = d THEN Unqueued(e) \ {tx} ELSE Unqueued(e)
  <2>1. Due(e)' = Due(e) /\ \A x \in Due(e) : x \in 1 .. L /\ e \in txs[x]
    BY <1>1, <1>2, SameWork DEF Due
  <2>2. CASE parts = {d}
    <3>1. /\ reg'[Main] = tx + 1
          /\ parts' = IF tx + 1 <= L THEN txs[tx + 1] ELSE {}
      <4>1. tx + 1 # tx
        OBVIOUS
      <4>. QED
        BY <1>0, <1>2, <1>3, <2>2, <4>1 DEF Exec
    <3>2. Unqueued(e)' = {x \in Due(e) : x > tx + 1 \/ (x = tx + 1 /\ e \in parts')}
      BY <2>1, <3>1 DEF Unqueued
    <3>3. Unqueued(e) = {x \in Due(e) : x > tx \/ (x = tx /\ e = d)}
      BY <1>3, <2>2 DEF Unqueued
    <3>4. ASSUME NEW x \in Due(e)
          PROVE  (x > tx + 1 \/ (x = tx + 1 /\ e \in parts')) <=> x > tx
      <4>1. x \in 1 .. L /\ e \in txs[x]
        BY <2>1
      <4>2. CASE x = tx + 1
        BY <3>1, <4>1, <4>2
      <4>3. CASE x # tx + 1
        BY <4>1, <4>3
      <4>. QED
        BY <4>2, <4>3
    <3>5. \A x \in Due(e) : x > tx => x # tx
      BY <2>1
    <3>. QED
      BY <3>2, <3>3, <3>4, <3>5
  <2>3. CASE parts # {d}
    <3>1. parts' = parts \ {d} /\ reg'[Main] = tx
      BY <1>0, <1>3, <2>3 DEF Exec
    <3>2. Unqueued(e)' = {x \in Due(e) : x > tx \/ (x = tx /\ e \in parts \ {d})}
      BY <2>1, <3>1 DEF Unqueued
    <3>3. Unqueued(e) = {x \in Due(e) : x > tx \/ (x = tx /\ e \in parts)}
      BY <1>3 DEF Unqueued
    <3>4. \A x \in Due(e) : x > tx => x # tx
      BY <2>1
    <3>. QED
      BY <3>2, <3>3, <3>4
  <2>. QED
    BY <2>2, <2>3
<1>6. PICK q \in Seq(DOMAIN txs), m \in Nat : q = queue[d] /\ m = Len(q) /\ DOMAIN q = 1 .. m
  <2>1. PICK q \in Seq(DOMAIN txs) : q = queue[d]
    BY <1>0 DEF Types
  <2>. QED
    BY <2>1, LenProperties
<1>7. PICK new \in Seq(DOMAIN txs) :
        /\ new = Append(q, tx) /\ Len(new) = m + 1 /\ DOMAIN new = 1 .. m + 1
        /\ \A n \in 1 .. m : new[n] = q[n]
        /\ new[m + 1] = tx
  <2>1. PICK new \in Seq(DOMAIN txs) : new = Append(q, tx)
    BY <1>4, AppendProperties
  <2>2. /\ Len(new) = m + 1 /\ \A n \in 1 .. m : new[n] = q[n]
        /\ new[m + 1] = tx
    BY <1>4, <1>6, <2>1, AppendProperties
  <2>. QED
    BY <2>1, <2>2, LenProperties
<1>8. m < BUFFER_SIZE /\ queue' = [queue EXCEPT ![d] = new]
  BY <1>3, <1>6, <1>7 DEF Exec, Enqueue
<1>9. queue'[d] = new /\ \A e \in Dpu \ {d} : queue'[e] = queue[e]
  BY <1>0, <1>8 DEF Types
<1>10. ASSUME NEW e \in Dpu PROVE Queued(e)' = IF e = d THEN Queued(e) \cup {tx} ELSE Queued(e)
  <2>1. CASE e = d
    <3>1. Queued(d)' = {x \in DOMAIN txs : \E n \in 1 .. m + 1 : new[n] = x}
      BY <1>1, <1>7, <1>9 DEF Queued
    <3>2. Queued(d) = {x \in DOMAIN txs : \E n \in 1 .. m : q[n] = x}
      BY <1>6 DEF Queued
    <3>3. ASSUME NEW x PROVE (\E n \in 1 .. m + 1 : new[n] = x) <=> x = tx \/ \E n \in 1 .. m : q[n] = x
      <4>1. \A n \in 1 .. m + 1 : n \in 1 .. m \/ n = m + 1
        OBVIOUS
      <4>2. m + 1 \in 1 .. m + 1 /\ \A n \in 1 .. m : n \in 1 .. m + 1
        OBVIOUS
      <4>. QED
        BY <1>7, <4>1, <4>2
    <3>. QED
      BY <1>4, <2>1, <3>1, <3>2, <3>3
  <2>2. CASE e # d
    BY <1>1, <1>9, <2>2 DEF Queued
  <2>. QED
    BY <2>1, <2>2
<1>11. /\ \A h \in Helper : (Counting(h)' <=> Counting(h)) /\ (Added(h)' <=> Added(h))
       /\ \A e \in Dpu : Fresh(e)' <=> Fresh(e)
       /\ Launching' <=> Launching
  BY <1>1, StillHelper, StillRun, HelperIs DEF Worker
<1>12. ASSUME NEW e \in Dpu
       PROVE  InBatch(e)' = InBatch(e) /\ InInput(e)' = InInput(e) /\ Ran(e)' = Ran(e) /\ Told(e)' = Told(e)
  <2>1. Held(batch[e])' = Held(batch[e]) /\ Held(input[e])' = Held(input[e]) /\ Ran(e)' = Ran(e)
    BY <1>1 DEF Held, Places, TxAt, Ran
  <2>2. InBatch(e)' = InBatch(e) /\ InInput(e)' = InInput(e)
    BY <1>11, <2>1 DEF InBatch, InInput
  <2>. QED
    BY <1>11, <2>1, <2>2, HelperIs DEF Told
<1>13. ASSUME NEW e \in Dpu PROVE Partition(e)'
  <2>1. Partition(e) /\ Due(e)' = Due(e)
    BY <1>0, <1>1, SameWork DEF PlacesOK
  <2>2. CASE e = d
    BY <1>4, <1>5, <1>10, <1>12, <2>1, <2>2 DEF Partition
  <2>3. CASE e # d
    BY <1>5, <1>10, <1>12, <2>1, <2>3 DEF Partition
  <2>. QED
    BY <2>2, <2>3
<1>14. tx \notin Queued(d)
  BY <1>0, <1>4 DEF PlacesOK, Partition
<1>15. ASSUME NEW e \in Dpu PROVE Singly(e)'
  <2>1. Singly(e)
    BY <1>0 DEF PlacesOK
  <2>2. (Once(batch[e])' <=> Once(batch[e])) /\ (Once(input[e])' <=> Once(input[e]))
    BY <1>1 DEF Once, Places, TxAt
  <2>3. /\ \A i, n \in DOMAIN queue'[e] : queue'[e][i] = queue'[e][n] => i = n
        /\ Len(queue'[e]) <= BUFFER_SIZE
    <3>1. CASE e # d
      BY <1>9, <2>1, <3>1 DEF Singly
    <3>2. CASE e = d
      <4>1. ASSUME NEW n \in 1 .. m PROVE new[n] # tx
        BY <1>6, <1>7, <1>14, <1>4 DEF Queued
      <4>2. ASSUME NEW i \in 1 .. m + 1, NEW n \in 1 .. m + 1, new[i] = new[n] PROVE i = n
        <5>1. (i \in 1 .. m \/ i = m + 1) /\ (n \in 1 .. m \/ n = m + 1)
          OBVIOUS
        <5>2. ASSUME i \in 1 .. m, n \in 1 .. m PROVE i = n
          <6>1. q[i] = q[n]
            BY <1>7, <4>2, <5>2
          <6>2. \A j, k \in DOMAIN q : q[j] = q[k] => j = k
            BY <1>6, <2>1, <3>2, Zenon DEF Singly
          <6>. QED
            BY <1>6, <5>2, <6>1, <6>2
        <5>. QED
          BY <1>7, <4>1, <4>2, <5>1, <5>2
      <4>3. m + 1 <= BUFFER_SIZE
        BY <1>8, HostAssumption
      <4>4. queue'[e] = new /\ DOMAIN new = 1 .. m + 1 /\ Len(new) = m + 1
        BY <1>7, <1>9, <3>2
      <4>. QED
        BY <4>2, <4>3, <4>4
    <3>. QED
      BY <3>1, <3>2
  <2>. QED
    BY <1>1, <2>1, <2>2, <2>3 DEF Singly
<1>16. n_transactions' = Cardinality(Entered')
  <2>1. <<d, tx>> \notin Entered /\ Entered' = Entered \cup {<<d, tx>>}
    <3>1. Pair' = Pair /\ <<d, tx>> \in Pair
      BY <1>1, <1>4 DEF Pair
    <3>2. \A p \in Pair : p[1] \in Dpu /\ (p = <<d, tx>> <=> p[1] = d /\ p[2] = tx)
      BY DEF Pair
    <3>3. Entered' = {p \in Pair : p[2] \in Due(p[1]) \ Unqueued(p[1])'}
      BY <1>1, <3>1, <3>2, SameWork DEF Entered
    <3>4. tx \in Due(d)
      BY <1>4 DEF Unqueued
    <3>5. ASSUME NEW p \in Pair
          PROVE  p[2] \in Due(p[1]) \ Unqueued(p[1])' <=> p[2] \in Due(p[1]) \ Unqueued(p[1]) \/ p = <<d, tx>>
      BY <1>5, <3>2, <3>4
    <3>. QED
      BY <1>4, <3>1, <3>3, <3>5 DEF Entered
  <2>2. Cardinality(Entered') = Cardinality(Entered) + 1
    BY <1>0, <2>1, PairsFinite, FS_AddElement
  <2>. QED
    BY <1>0, <2>2 DEF SumsOK, Exec
<1>17. Summed' = Summed /\ \A h \in Helper : Batched(h)' = Batched(h)
  BY <1>1, <1>12, SummedStays, BatchedStays
<1>18. SumsOK'
  BY <1>0, <1>1, <1>11, <1>16, <1>17 DEF SumsOK
<1>. QED
  BY <1>13, <1>15, <1>18 DEF PlacesOK

\* What a step of a helper leaves alone, in the terms of the places.
LEMMA HelperPlaces ==
  ASSUME IInv, PInv, NEW h \in Helper, HelperStep(h)
  PROVE  /\ UNCHANGED <<txs, parts, n_transactions, n_commited, input, executed>>
         /\ reg'[Main] = reg[Main] /\ h \in Thread /\ Outside(h)
         /\ Launching' <=> Launching
         /\ \A g \in Helper : Added(g)' <=> Added(g)
         /\ \A g \in Helper \ {h} : Counting(g)' <=> Counting(g)
         /\ \A d \in Dpu : HelperOf(d) # h => (Fresh(d)' <=> Fresh(d))
         /\ \A d \in Dpu : Unqueued(d)' = Unqueued(d)
<1>0. pc \in [Thread -> Label] /\ reg \in [Thread -> Nat]
  BY DEF PInv, IInv, Types
<1>1. /\ UNCHANGED <<txs, parts, n_transactions, n_commited, input, executed>>
      /\ \A th \in Thread \ {h} : Still(th)
      /\ Outside(h)
  BY <1>0, HelperFrame DEF dpus
<1>2. Still(Main) /\ Still(Run) /\ \A g \in Helper \ {h} : Still(g)
  BY <1>1, Roles
<1>3. reg'[Main] = reg[Main]
  BY <1>2 DEF Still
<1>4. \A d \in Dpu : Unqueued(d)' = Unqueued(d)
  BY <1>1, <1>3, SameWork DEF Unqueued
<1>5. \A g \in Helper \ {h} : Counting(g)' <=> Counting(g)
  BY <1>2, StillHelper
<1>6. \A d \in Dpu : HelperOf(d) # h => (Fresh(d)' <=> Fresh(d))
  BY <1>2, StillHelper, HelperIs
<1>. QED
  BY <1>1, <1>2, <1>3, <1>4, <1>5, <1>6, StillRun, Roles

\* A helper arrives at the barrier, or goes on from there.
LEMMA PlacesWaits ==
  ASSUME IInv, PInv, NEW h \in Helper, HelperLoop(h) \/ HelperBuilt(h) \/ HelperCopied(h)
  PROVE  PlacesOK' /\ SumsOK'
<1>0. pc \in [Thread -> Label] /\ PlacesOK /\ SumsOK /\ HelperStep(h)
  BY DEF PInv, IInv, HelperStep
<1>1. UNCHANGED <<queue, batch, n_thread>>
  BY DEF HelperLoop, While, HelperBuilt, HelperCopied, Wait, counters, batchVars
<1>2. (Counting(h)' <=> Counting(h)) /\ \A d \in Dpu : HelperOf(d) = h => (Fresh(d)' <=> Fresh(d))
  <2>1. h \in Thread /\ Outside(h)
    BY <1>0, HelperPlaces
  <2>2. CASE HelperLoop(h)
    <3>1. pc[h] = "loop" /\ pc'[h] \in {"build", "exit"}
      BY <1>0, <2>1, <2>2 DEF HelperLoop, While, At, Goto
    <3>. QED
      BY <2>1, <3>1 DEF Counting, Fresh
  <2>3. CASE HelperBuilt(h) \/ HelperCopied(h)
    <3>1. pc[h] \in {"built", "copied"} /\ pc'[h] \in {"copied", "loop"} /\ ~ Outside(h)'
      BY <1>0, <2>1, <2>3, ArriveOutside DEF HelperBuilt, HelperCopied, Wait, At, Goto
    <3>. QED
      BY <3>1 DEF Counting, Fresh
  <2>. QED
    BY <2>2, <2>3
<1>3. \A g \in Helper : Counting(g)' <=> Counting(g)
  BY <1>0, <1>2, HelperPlaces
<1>4. \A d \in Dpu : Fresh(d)' <=> Fresh(d)
  BY <1>0, <1>2, HelperPlaces
<1>5. UNCHANGED <<txs, queue, batch, input, executed, counters, parts>>
  BY <1>0, <1>1, HelperPlaces DEF counters
<1>. QED
  BY <1>0, <1>3, <1>4, <1>5, HelperPlaces, ThreadMoves

\* The helper goes to its next DPU, whose batch is not yet of this round.
LEMMA PlacesBuildNext ==
  ASSUME IInv, PInv, NEW h \in Helper, BuildNext(h)
  PROVE  PlacesOK' /\ SumsOK'
<1>0. /\ pc \in [Thread -> Label] /\ reg \in [Thread -> Nat] /\ PlacesOK /\ SumsOK
      /\ HelperStep(h) /\ h \in Thread
  BY Roles DEF PInv, IInv, HelperStep, Types
<1>1. UNCHANGED <<queue, batch, n_thread>>
  BY DEF BuildNext, counters, batchVars
<1>2. PICK e \in Dpu : e = reg[h] /\ HelperOf(e) = h
  BY DEF PInv, HelperOK, BuildNext, At
<1>3. PICK n \in Nat : n = e + N_THREADS - 1
  BY <1>2, HelperIs
<1>4. /\ reg'[h] = n /\ pc[h] = "take"
      /\ \/ n < N_DPUS /\ pc'[h] = "dpu"
         \/ ~ (n < N_DPUS) /\ pc'[h] = "built"
  BY <1>0, <1>2, <1>3 DEF BuildNext, At, Goto
<1>5. Counting(h)' <=> Counting(h)
  BY <1>4 DEF Counting
<1>6. ASSUME NEW d \in Dpu, HelperOf(d) = h PROVE Fresh(d)' <=> Fresh(d)
  <2>1. d < n <=> d <= e
    <3>1. d < n => d <= e
      BY <1>2, <1>3, <1>6, HelperIs
    <3>2. d <= e => d < n
      BY <1>2, <1>3, ThreadsAssumption DEF Dpu
    <3>. QED
      BY <3>1, <3>2
  <2>2. d < N_DPUS /\ d \in Nat /\ N_DPUS \in Nat
    BY HostAssumption DEF Dpu
  <2>3. Fresh(d) <=> d <= e
    BY <1>2, <1>4, <1>6 DEF Fresh, Counting
  <2>4. Fresh(d)' <=> d < n
    BY <1>4, <1>6, <2>2 DEF Fresh, Counting
  <2>. QED
    BY <2>1, <2>3, <2>4
<1>7. \A g \in Helper : Counting(g)' <=> Counting(g)
  BY <1>0, <1>5, HelperPlaces
<1>8. \A d \in Dpu : Fresh(d)' <=> Fresh(d)
  BY <1>0, <1>6, HelperPlaces
<1>9. UNCHANGED <<txs, queue, batch, input, executed, counters, parts>>
  BY <1>0, <1>1, HelperPlaces DEF counters
<1>. QED
  BY <1>0, <1>7, <1>8, <1>9, HelperPlaces, ThreadMoves

\* The helpers start: the batches are empty.
LEMMA PlacesHelperStart ==
  ASSUME IInv, PInv, NEW h \in Helper, HelperStart(h)
  PROVE  PlacesOK' /\ SumsOK'
<1>0. pc \in [Thread -> Label] /\ PlacesOK /\ SumsOK /\ HelperStep(h) /\ h \in Thread
  BY Roles DEF PInv, IInv, HelperStep
<1>1. UNCHANGED <<txs, queue, batch, input, executed, n_transactions, n_commited, n_thread>>
  BY DEF HelperStart, Wait, counters, batchVars, dpus
<1>2. Starting
  BY DEF HelperStart, At, IInv, Stages, Building, Copying, Placed
<1>3. /\ \A d \in Dpu : Held(batch[d]) = {}
      /\ \A g \in Helper : n_thread[g] = 0
  BY <1>2 DEF PInv, StartOK
<1>4. ASSUME NEW d \in Dpu
      PROVE  /\ InBatch(d) = {} /\ InBatch(d)' = {} /\ InInput(d)' = InInput(d) /\ Singly(d)'
  <2>1. Singly(d)' /\ Held(batch[d])' = Held(batch[d]) /\ Held(input[d])' = Held(input[d])
    BY <1>0, <1>1, SinglyStays DEF PlacesOK
  <2>. QED
    BY <1>0, <1>3, <2>1, HelperPlaces DEF InBatch, InInput
<1>5. \A g \in Helper : Batched(g) = {}
  BY <1>4 DEF Batched, Pair
<1>. QED
  BY <1>0, <1>1, <1>3, <1>4, <1>5, HelperPlaces, PlacesStay

\* The helper resets its counter: it has not begun a batch.
LEMMA PlacesBuild ==
  ASSUME IInv, PInv, NEW h \in Helper, Build(h)
  PROVE  PlacesOK' /\ SumsOK'
<1>0. /\ pc \in [Thread -> Label] /\ reg \in [Thread -> Nat] /\ n_thread \in [Helper -> Nat]
      /\ PlacesOK /\ SumsOK
      /\ HelperStep(h) /\ h \in Thread
  BY Roles DEF PInv, IInv, HelperStep, Types
<1>1. UNCHANGED <<txs, queue, batch, input, executed, n_transactions, n_commited>>
  BY DEF Build, batchVars, dpus
<1>2. /\ pc[h] = "build" /\ pc'[h] = "dpu" /\ reg'[h] = h
      /\ n_thread'[h] = 0 /\ \A g \in Helper \ {h} : n_thread'[g] = n_thread[g]
  BY <1>0 DEF Build, At, Goto
<1>3. ASSUME NEW d \in Dpu, HelperOf(d) = h PROVE ~ Fresh(d) /\ ~ Fresh(d)'
  <2>1. ~ Fresh(d)
    BY <1>2, <1>3 DEF Fresh, Counting
  <2>2. ~ (d < h)
    BY <1>3, HelperIs DEF Dpu, Helper
  <2>. QED
    BY <1>2, <1>3, <2>1, <2>2 DEF Fresh
<1>4. ASSUME NEW d \in Dpu
      PROVE  InBatch(d)' = InBatch(d) /\ InInput(d)' = InInput(d) /\ Singly(d)'
  <2>1. Singly(d)' /\ Held(batch[d])' = Held(batch[d]) /\ Held(input[d])' = Held(input[d])
    BY <1>0, <1>1, SinglyStays DEF PlacesOK
  <2>2. Fresh(d)' <=> Fresh(d)
    BY <1>0, <1>3, HelperPlaces
  <2>. QED
    BY <1>0, <2>1, <2>2, HelperPlaces DEF InBatch, InInput
<1>5. Batched(h) = {}
  BY <1>3 DEF Batched, Pair, InBatch
<1>6. \A g \in Helper : Counting(g)' => \/ Counting(g) /\ n_thread'[g] = n_thread[g]
                                        \/ Batched(g) = {} /\ n_thread'[g] = 0
  BY <1>0, <1>2, <1>5, HelperPlaces
<1>. QED
  BY <1>0, <1>1, <1>4, <1>6, HelperPlaces, PlacesStay

\* What is in the batches after a step.
LEMMA HeldNow ==
  ASSUME UNCHANGED txs, NEW d, NEW c
  PROVE  /\ batch'[d] = c => Held(batch[d])' = Held(c) /\ (Once(batch[d])' <=> Once(c))
         /\ input'[d] = c => Held(input[d])' = Held(c) /\ (Once(input[d])' <=> Once(c))
<1>1. ASSUME batch'[d] = c
      PROVE  Held(batch[d])' = Held(c) /\ (Once(batch[d])' <=> Once(c))
  <2>1. Places(batch[d])' = Places(c) /\ \A p : TxAt(batch[d], p)' = TxAt(c, p)
    BY <1>1 DEF Places, TxAt
  <2>. QED
    BY <2>1 DEF Held, Once
<1>2. ASSUME input'[d] = c
      PROVE  Held(input[d])' = Held(c) /\ (Once(input[d])' <=> Once(c))
  <2>1. Places(input[d])' = Places(c) /\ \A p : TxAt(input[d], p)' = TxAt(c, p)
    BY <1>2 DEF Places, TxAt
  <2>. QED
    BY <2>1 DEF Held, Once
<1>. QED
  BY <1>1, <1>2

\* The batch of the last round is cleared: it has been launched.
LEMMA PlacesBuildDpu ==
  ASSUME IInv, PInv, NEW h \in Helper, BuildDpu(h)
  PROVE  PlacesOK' /\ SumsOK'
<1>0. /\ pc \in [Thread -> Label] /\ reg \in [Thread -> Nat] /\ batch \in [Dpu -> Batch]
      /\ PlacesOK /\ SumsOK
      /\ HelperStep(h) /\ h \in Thread
  BY Roles DEF PInv, IInv, HelperStep, Types
<1>1. UNCHANGED <<txs, queue, input, executed, n_transactions, n_commited, n_thread, reg>>
  BY DEF BuildDpu, BeginBatch, counters, dpus
<1>2. PICK e \in Dpu : e = reg[h] /\ HelperOf(e) = h
  BY DEF PInv, HelperOK, BuildDpu, At
<1>3. pc[h] = "dpu" /\ pc'[h] = "take" /\ reg'[h] = e
  BY <1>0, <1>1, <1>2 DEF BuildDpu, At, Goto
<1>4. /\ batch'[e] = [t \in Tasklet |-> NoSubTxs]
      /\ \A d \in Dpu \ {e} : batch'[d] = batch[d]
  BY <1>0, <1>2 DEF BuildDpu, BeginBatch
<1>5. Held(batch[e])' = {} /\ Once(batch[e])'
  <2>1. PICK b : b = [t \in Tasklet |-> NoSubTxs]
    OBVIOUS
  <2>2. Held(b) = {} /\ Once(b)
    BY <2>1, NothingHeld
  <2>. QED
    BY <1>1, <1>4, <2>1, <2>2, HeldNow
<1>6. ~ Fresh(e) /\ \A d \in Dpu \ {e} : Fresh(d)' <=> Fresh(d)
  <2>1. ~ (e < e) /\ \A d \in Dpu \ {e} : d < e <=> d <= e
    BY DEF Dpu
  <2>2. ASSUME NEW d \in Dpu \ {e}, HelperOf(d) = h PROVE Fresh(d)' <=> Fresh(d)
    BY <1>2, <1>3, <2>1, <2>2 DEF Fresh, Counting
  <2>3. ~ Fresh(e)
    BY <1>2, <1>3, <2>1 DEF Fresh
  <2>. QED
    BY <1>0, <2>2, <2>3, HelperPlaces
<1>7. ASSUME NEW d \in Dpu
      PROVE  InBatch(d)' = InBatch(d) /\ InInput(d)' = InInput(d) /\ Singly(d)'
  <2>1. PICK c : c = input[d] /\ input'[d] = c
    BY <1>1
  <2>2. Singly(d) /\ Held(input[d])' = Held(input[d]) /\ Once(input[d])'
    BY <1>0, <1>1, <2>1, HeldNow DEF PlacesOK, Singly
  <2>3. InInput(d)' = InInput(d)
    BY <1>0, <2>2, HelperPlaces DEF InInput
  <2>4. InBatch(d)' = InBatch(d) /\ Once(batch[d])'
    <3>1. CASE d = e
      BY <1>5, <1>6, <3>1 DEF InBatch
    <3>2. CASE d # e
      <4>1. PICK b : b = batch[d] /\ batch'[d] = b
        BY <1>4, <3>2
      <4>2. Held(batch[d])' = Held(batch[d]) /\ Once(batch[d])'
        BY <1>1, <2>2, <4>1, HeldNow DEF Singly
      <4>. QED
        BY <1>6, <3>2, <4>2 DEF InBatch
    <3>. QED
      BY <3>1, <3>2
  <2>. QED
    BY <1>1, <2>2, <2>3, <2>4 DEF Singly
<1>8. Counting(h)' <=> Counting(h)
  BY <1>3 DEF Counting
<1>. QED
  BY <1>0, <1>1, <1>7, <1>8, HelperPlaces, PlacesStay

\* A sub-transaction goes from the front of the queue into the batch.
LEMMA PlacesBuildTake ==
  ASSUME IInv, PInv, NEW h \in Helper, BuildTake(h)
  PROVE  PlacesOK' /\ SumsOK'
<1>0. /\ pc \in [Thread -> Label] /\ reg \in [Thread -> Nat] /\ batch \in [Dpu -> Batch]
      /\ queue \in [Dpu -> Seq(DOMAIN txs)] /\ n_thread \in [Helper -> Nat]
      /\ Types /\ PlacesOK /\ SumsOK
      /\ HelperStep(h) /\ h \in Thread
  BY Roles DEF PInv, IInv, HelperStep, Types
<1>1. UNCHANGED <<pc, reg, barrierVars, txs, input, executed, n_transactions, n_commited>>
  BY DEF BuildTake, Take, dpus
<1>2. PICK e \in Dpu : e = reg[h] /\ HelperOf(e) = h
  BY DEF PInv, HelperOK, BuildTake, At
<1>3. pc[h] = "take" /\ Take(e) /\ n_thread' = [n_thread EXCEPT ![h] = n_thread[h] + 1] /\ Outside(h)
  BY <1>2 DEF BuildTake, At
<1>4. PICK t \in Tasklet, tx \in DOMAIN txs, ts \in Nat :
        /\ queue[e] # <<>> /\ tx = Head(queue[e])
        /\ queue' = [queue EXCEPT ![e] = Tail(queue[e])]
        /\ batch' = [batch EXCEPT ![e] = [batch[e] EXCEPT ![t] = Stored(batch[e][t], tx, ts)]]
        /\ dpu_ts' = [dpu_ts EXCEPT ![e] = @ + 1]
        /\ turn' \in [Dpu -> [thread : Tasklet, prev : Nat]]
        /\ UNCHANGED txs
  <2>1. Types /\ Take(e)
    BY <1>0, <1>3
  <2>. QED
    BY <2>1, TakeStep
<1>5. PICK q \in Seq(DOMAIN txs), m \in Nat : q = queue[e] /\ m + 1 = Len(q) /\ DOMAIN q = 1 .. m + 1
  <2>1. PICK q \in Seq(DOMAIN txs) : q = queue[e]
    BY <1>0
  <2>2. Len(q) \in Nat \ {0} /\ DOMAIN q = 1 .. Len(q)
    BY <1>4, <2>1, EmptySeq, LenProperties
  <2>3. PICK m \in Nat : m + 1 = Len(q)
    <3>1. Len(q) - 1 \in Nat /\ (Len(q) - 1) + 1 = Len(q)
      BY <2>2
    <3>. QED
      BY <3>1, Zenon
  <2>. QED
    BY <2>1, <2>2, <2>3
<1>6. PICK new \in Seq(DOMAIN txs) :
        /\ new = Tail(q) /\ Len(new) = m /\ DOMAIN new = 1 .. m
        /\ \A n \in 1 .. m : new[n] = q[n + 1]
  <2>1. q # <<>>
    BY <1>4, <1>5
  <2>2. PICK new \in Seq(DOMAIN txs) : new = Tail(q)
    BY <2>1, HeadTailProperties
  <2>3. Len(new) = Len(q) - 1 /\ \A n \in 1 .. Len(new) : new[n] = q[n + 1]
    BY <2>1, <2>2, HeadTailProperties
  <2>4. Len(new) = m
    BY <1>5, <2>3
  <2>. QED
    BY <2>2, <2>3, <2>4, LenProperties
<1>7. tx = q[1]
  BY <1>4, <1>5
<1>8. queue'[e] = new /\ \A d \in Dpu \ {e} : queue'[d] = queue[d]
  BY <1>0, <1>4, <1>5, <1>6
<1>9. \A d \in Dpu : Partition(d) /\ Singly(d) /\ Due(d)' = Due(d)
  BY <1>0, <1>1, SameWork DEF PlacesOK
<1>10. \A i, n \in 1 .. m + 1 : q[i] = q[n] => i = n
  BY <1>5, <1>9, Zenon DEF Singly
<1>11. Queued(e) = {x \in DOMAIN txs : \E n \in 1 .. m + 1 : q[n] = x}
  BY <1>5 DEF Queued
<1>12. Queued(e)' = {x \in DOMAIN txs : \E n \in 1 .. m : q[n + 1] = x}
  <2>1. Queued(e)' = {x \in DOMAIN txs : \E n \in 1 .. m : new[n] = x}
    BY <1>1, <1>6, <1>8 DEF Queued
  <2>2. ASSUME NEW x PROVE (\E n \in 1 .. m : new[n] = x) <=> \E n \in 1 .. m : q[n + 1] = x
    BY <1>6
  <2>. QED
    BY <2>1, <2>2
<1>13. tx \in Queued(e) /\ Queued(e)' = Queued(e) \ {tx}
  <2>1. \A n \in 1 .. m : n + 1 \in 1 .. m + 1 /\ n + 1 # 1
    OBVIOUS
  <2>2. \A n \in 1 .. m + 1 : n # 1 => n - 1 \in 1 .. m /\ (n - 1) + 1 = n
    OBVIOUS
  <2>3. 1 \in 1 .. m + 1
    OBVIOUS
  <2>4. tx \in Queued(e)
    BY <1>7, <1>11, <2>3
  <2>5. ASSUME NEW x \in DOMAIN txs
        PROVE  (\E n \in 1 .. m : q[n + 1] = x) <=> x # tx /\ \E n \in 1 .. m + 1 : q[n] = x
    <3>1. ASSUME NEW n \in 1 .. m, q[n + 1] = x PROVE x # tx /\ \E k \in 1 .. m + 1 : q[k] = x
      BY <1>7, <1>10, <2>1, <2>3, <3>1
    <3>2. ASSUME x # tx, NEW n \in 1 .. m + 1, q[n] = x PROVE \E k \in 1 .. m : q[k + 1] = x
      BY <1>7, <2>2, <3>2
    <3>. QED
      BY <3>1, <3>2
  <2>6. Queued(e)' = {x \in DOMAIN txs : x # tx /\ \E n \in 1 .. m + 1 : q[n] = x}
    BY <1>12, <2>5
  <2>. QED
    BY <1>11, <2>4, <2>6
<1>14. Fresh(e) /\ \A d \in Dpu : (Fresh(d)' <=> Fresh(d)) /\ Counting(h) /\ Counting(h)'
  <2>1. e <= e
    BY DEF Dpu
  <2>2. Counting(h) /\ Counting(h)'
    BY <1>1, <1>3 DEF Counting
  <2>3. Fresh(e)
    BY <1>2, <1>3, <2>1, <2>2 DEF Fresh
  <2>4. Still(h)
    BY <1>1 DEF Still, Outside, barrierVars
  <2>. QED
    BY <1>0, <2>2, <2>3, <2>4, StillHelper, HelperPlaces
<1>15. tx \notin Held(batch[e])
  BY <1>9, <1>13, <1>14 DEF Partition, InBatch
<1>16. Held(batch[e])' = Held(batch[e]) \cup {tx} /\ Once(batch[e])'
  <2>1. PICK b \in Batch : b = batch[e] /\ Once(b)
    BY <1>0, <1>9 DEF Singly
  <2>2. PICK c : c = [b EXCEPT ![t] = Stored(@, tx, ts)]
    OBVIOUS
  <2>3. Held(c) = Held(b) \cup {tx} /\ Once(c)
    <3>1. tx \notin Held(b)
      BY <1>15, <2>1
    <3>2. Storing(b, c, t, tx, ts)
      BY <2>2 DEF Storing
    <3>. QED
      BY <2>1, <3>1, <3>2, StoredHeld
  <2>4. batch'[e] = c
    BY <1>0, <1>4, <2>1, <2>2
  <2>. QED
    BY <1>1, <2>1, <2>3, <2>4, HeldNow
<1>17. ASSUME NEW d \in Dpu
       PROVE  /\ Held(input[d])' = Held(input[d]) /\ Once(input[d])'
              /\ d # e => Held(batch[d])' = Held(batch[d]) /\ Once(batch[d])'
  <2>1. PICK c : c = input[d] /\ input'[d] = c
    BY <1>1
  <2>2. PICK b : b = batch[d] /\ (d # e => batch'[d] = b)
    BY <1>0, <1>4
  <2>. QED
    BY <1>1, <1>9, <2>1, <2>2, HeldNow DEF Singly
<1>18. ASSUME NEW d \in Dpu
       PROVE  /\ InInput(d)' = InInput(d) /\ Ran(d)' = Ran(d) /\ Unqueued(d)' = Unqueued(d)
              /\ d # e => InBatch(d)' = InBatch(d) /\ Queued(d)' = Queued(d)
  <2>1. InInput(d)' = InInput(d) /\ Unqueued(d)' = Unqueued(d)
    BY <1>0, <1>17, HelperPlaces DEF InInput
  <2>2. Ran(d)' = Ran(d)
    BY <1>1 DEF Ran
  <2>3. ASSUME d # e PROVE InBatch(d)' = InBatch(d)
    BY <1>14, <1>17, <2>3 DEF InBatch
  <2>4. ASSUME d # e PROVE Queued(d)' = Queued(d)
    BY <1>1, <1>8, <2>4 DEF Queued
  <2>. QED
    BY <2>1, <2>2, <2>3, <2>4
<1>19. InBatch(e)' = InBatch(e) \cup {tx}
  BY <1>14, <1>16 DEF InBatch
<1>20. ASSUME NEW d \in Dpu PROVE Partition(d)'
  <2>1. CASE d = e
    BY <1>9, <1>13, <1>18, <1>19, <2>1 DEF Partition
  <2>2. CASE d # e
    BY <1>9, <1>18, <2>2 DEF Partition
  <2>. QED
    BY <2>1, <2>2
<1>21. ASSUME NEW d \in Dpu PROVE Singly(d)'
  <2>1. /\ \A i, n \in DOMAIN queue'[d] : queue'[d][i] = queue'[d][n] => i = n
        /\ Len(queue'[d]) <= BUFFER_SIZE
    <3>1. CASE d = e
      <4>1. ASSUME NEW i \in 1 .. m, NEW n \in 1 .. m, new[i] = new[n] PROVE i = n
        <5>1. i + 1 \in 1 .. m + 1 /\ n + 1 \in 1 .. m + 1
          OBVIOUS
        <5>2. q[i + 1] = q[n + 1]
          BY <1>6, <4>1
        <5>3. i + 1 = n + 1
          BY <1>10, <5>1, <5>2
        <5>. QED
          BY <5>3
      <4>2. m + 1 <= BUFFER_SIZE
        BY <1>5, <1>9 DEF Singly
      <4>3. m <= BUFFER_SIZE
        BY <4>2, HostAssumption
      <4>4. queue'[d] = new /\ DOMAIN new = 1 .. m /\ Len(new) = m
        BY <1>6, <1>8, <3>1
      <4>. QED
        BY <4>1, <4>3, <4>4
    <3>2. CASE d # e
      BY <1>8, <1>9, <3>2 DEF Singly
    <3>. QED
      BY <3>1, <3>2
  <2>2. Once(batch[d])' /\ Once(input[d])'
    BY <1>16, <1>17
  <2>. QED
    BY <1>1, <1>9, <2>1, <2>2 DEF Singly
<1>22. ~ Added(h)
  BY <1>3, BuildersBuild, BuildingWhere
<1>23. Summed' = Summed /\ Entered' = Entered
  <2>1. ASSUME NEW d \in Dpu PROVE Told(d)' = Told(d)
    BY <1>0, <1>2, <1>18, <1>22, HelperPlaces, HelperIs DEF Told
  <2>. QED
    BY <1>1, <1>18, <2>1, SummedStays, EnteredStays
<1>24. n_thread'[h] = Cardinality(Batched(h)')
  <2>1. <<e, tx>> \notin Batched(h) /\ Batched(h)' = Batched(h) \cup {<<e, tx>>}
    <3>1. Pair' = Pair /\ <<e, tx>> \in Pair
      BY <1>1 DEF Pair
    <3>2. \A p \in Pair : p[1] \in Dpu /\ (p = <<e, tx>> <=> p[1] = e /\ p[2] = tx)
      BY DEF Pair
    <3>3. Batched(h)' = {p \in Pair : HelperOf(p[1]) = h /\ p[2] \in InBatch(p[1])'}
      BY <3>1 DEF Batched
    <3>4. ASSUME NEW p \in Pair
          PROVE  /\ HelperOf(p[1]) = h /\ p[2] \in InBatch(p[1])'
                 <=> (HelperOf(p[1]) = h /\ p[2] \in InBatch(p[1])) \/ p = <<e, tx>>
      BY <1>2, <1>18, <1>19, <3>2
    <3>5. tx \notin InBatch(e)
      BY <1>15 DEF InBatch
    <3>. QED
      BY <3>1, <3>3, <3>4, <3>5 DEF Batched
  <2>2. Cardinality(Batched(h)') = Cardinality(Batched(h)) + 1
    BY <1>0, <2>1, PairsFinite, FS_AddElement
  <2>3. n_thread[h] = Cardinality(Batched(h))
    BY <1>0, <1>14, <1>2 DEF SumsOK
  <2>. QED
    BY <1>0, <1>3, <2>2, <2>3
<1>25. ASSUME NEW g \in Helper \ {h}, Counting(g)' PROVE n_thread'[g] = Cardinality(Batched(g)')
  <2>1. Counting(g)
    BY <1>0, <1>25, HelperPlaces
  <2>2. Batched(g)' = Batched(g)
    BY <1>1, <1>2, <1>18, BatchedStays
  <2>. QED
    BY <1>0, <1>3, <2>1, <2>2 DEF SumsOK
<1>26. SumsOK'
  BY <1>0, <1>1, <1>23, <1>24, <1>25 DEF SumsOK
<1>. QED
  BY <1>20, <1>21, <1>26 DEF PlacesOK

LEMMA PlacesHelperStep ==
  ASSUME IInv, PInv, NEW h \in Helper, HelperStep(h)
  PROVE  PlacesOK' /\ SumsOK'
BY PlacesHelperStart, PlacesWaits, PlacesBuild, PlacesBuildDpu, PlacesBuildTake, PlacesBuildNext
   DEF HelperStep

\* What a step of System::run leaves alone, in the terms of the places.
LEMMA RunPlaces ==
  ASSUME IInv, PInv, RunStep
  PROVE  /\ UNCHANGED <<txs, queue, batch, parts, n_transactions, n_thread>>
         /\ reg'[Main] = reg[Main] /\ Outside(Run) /\ Run \in Thread
         /\ \A h \in Helper : Counting(h)' <=> Counting(h)
         /\ \A d \in Dpu : Fresh(d)' <=> Fresh(d)
         /\ \A d \in Dpu : Unqueued(d)' = Unqueued(d)
<1>0. pc \in [Thread -> Label] /\ reg \in [Thread -> Nat]
  BY DEF PInv, IInv, Types
<1>1. /\ UNCHANGED <<txs, queue, batch, parts, n_transactions, n_thread>>
      /\ \A th \in Thread \ {Run} : Still(th)
      /\ Outside(Run)
  BY <1>0, RunFrame DEF batchVars
<1>2. Still(Main) /\ \A h \in Helper : Still(h)
  BY <1>1, Roles
<1>3. reg'[Main] = reg[Main]
  BY <1>2 DEF Still
<1>4. \A d \in Dpu : Unqueued(d)' = Unqueued(d)
  BY <1>1, <1>3, SameWork DEF Unqueued
<1>. QED
  BY <1>1, <1>2, <1>3, <1>4, StillHelper, HelperIs, Roles

\* System::run goes on, or arrives at the barrier.
LEMMA PlacesRunWaits ==
  ASSUME IInv, PInv, LaunchInit \/ RunStart \/ RunLoop \/ RunBuilt \/ RunCopied
  PROVE  PlacesOK' /\ SumsOK'
<1>0. pc \in [Thread -> Label] /\ PlacesOK /\ SumsOK /\ RunStep
  BY DEF PInv, IInv, RunStep
<1>1. UNCHANGED <<input, executed, n_commited, reg>>
  BY DEF LaunchInit, RunStart, RunLoop, While, RunBuilt, RunCopied, Wait, counters, dpus
<1>2. (Launching' <=> Launching) /\ \A h \in Helper : Added(h)' <=> Added(h)
  <2>1. Outside(Run) /\ Run \in Thread
    BY <1>0, RunPlaces
  <2>2. CASE LaunchInit \/ RunLoop
    <3>1. pc[Run] \in {"init", "loop"} /\ pc'[Run] \in {"start", "built", "exit"}
      BY <1>0, <2>1, <2>2 DEF LaunchInit, RunLoop, While, At, Goto
    <3>. QED
      BY <3>1 DEF Launching, Added
  <2>3. CASE RunStart \/ RunBuilt
    <3>1. pc[Run] \in {"start", "built"} /\ pc'[Run] \in {"loop", "count"} /\ ~ Outside(Run)'
      BY <1>0, <2>1, <2>3, ArriveOutside DEF RunStart, RunBuilt, Wait, At, Goto
    <3>. QED
      BY <3>1 DEF Launching, Added
  <2>4. CASE RunCopied
    <3>1. pc[Run] = "copied" /\ pc'[Run] = "launch" /\ ~ Outside(Run)'
      BY <1>0, <2>1, <2>4, ArriveOutside DEF RunCopied, Wait, At, Goto
    <3>. QED
      BY <3>1 DEF Launching, Added
  <2>. QED
    BY <2>2, <2>3, <2>4
<1>3. UNCHANGED <<txs, queue, batch, input, executed, counters, parts>>
  BY <1>0, <1>1, RunPlaces DEF counters
<1>. QED
  BY <1>0, <1>2, <1>3, RunPlaces, ThreadMoves

\* While the counters are added up, every helper has counted its batches.
LEMMA AllCounting ==
  ASSUME Copying
  PROVE  /\ \A h \in Helper : Counting(h)
         /\ \A d \in Dpu : Fresh(d)
         /\ ~ Launching
<1>1. ASSUME NEW h \in Helper PROVE pc[h] = "copied" \/ (pc[h] = "loop" /\ ~ Outside(h))
  BY DEF Copying, Placed
<1>2. ~ Launching
  BY DEF Copying, Placed, Launching
<1>. QED
  BY <1>1, <1>2, HelperIs DEF Counting, Fresh

\* The counter of a helper is added to the sum.
LEMMA PlacesCount ==
  ASSUME IInv, PInv, Count
  PROVE  PlacesOK' /\ SumsOK'
<1>0. /\ pc \in [Thread -> Label] /\ reg \in [Thread -> Nat]
      /\ Types /\ PlacesOK /\ SumsOK /\ RunStep /\ Run \in Thread
  BY Roles DEF PInv, IInv, RunStep, Types
<1>1. /\ UNCHANGED <<input, executed, barrierVars>> /\ pc[Run] = "count" /\ Outside(Run)
  BY DEF Count, dpus, At
<1>2. PICK h \in Helper : h = reg[Run]
  BY <1>1 DEF PInv, RunOK
<1>3. n_commited' = n_commited + n_thread[h]
  BY <1>2 DEF Count
<1>4. Copying
  BY <1>1, CopiersCopy
<1>5. /\ \A g \in Helper : Counting(g)
      /\ \A d \in Dpu : Fresh(d) /\ Fresh(d)'
      /\ ~ Launching
  BY <1>0, <1>4, AllCounting, RunPlaces
<1>6. \/ h = N_THREADS - 2 /\ reg'[Run] = 0 /\ pc'[Run] = "copy"
      \/ h # N_THREADS - 2 /\ reg'[Run] = h + 1 /\ pc'[Run] = "count"
  BY <1>0, <1>2 DEF Count, Goto
<1>7. Outside(Run)' /\ ~ Launching'
  BY <1>1, <1>6 DEF Outside, barrierVars, Launching
<1>8. \A g \in Helper : Added(g) <=> g < h
  BY <1>1, <1>2 DEF Added
<1>9. \A g \in Helper : Added(g)' <=> g <= h
  <2>1. ASSUME NEW g \in Helper PROVE g <= N_THREADS - 2 /\ (g < h + 1 <=> g <= h)
    BY ThreadsAssumption DEF Helper
  <2>2. CASE h = N_THREADS - 2
    BY <1>6, <2>1, <2>2 DEF Added
  <2>3. CASE h # N_THREADS - 2
    BY <1>6, <1>7, <2>1, <2>3 DEF Added
  <2>. QED
    BY <2>2, <2>3
<1>10. ~ Added(h) /\ \A g \in Helper : Added(g)' <=> Added(g) \/ g = h
  <2>1. \A g \in Helper : g <= h <=> g < h \/ g = h
    BY DEF Helper
  <2>2. ~ (h < h)
    BY DEF Helper
  <2>. QED
    BY <1>8, <1>9, <2>1, <2>2
<1>11. ASSUME NEW d \in Dpu
       PROVE  /\ InBatch(d)' = InBatch(d) /\ InInput(d)' = InInput(d) /\ Singly(d)'
              /\ Queued(d)' = Queued(d) /\ Ran(d)' = Ran(d)
  <2>1. UNCHANGED <<txs, queue, batch>>
    BY <1>0, RunPlaces
  <2>2. Singly(d)' /\ Held(batch[d])' = Held(batch[d]) /\ Held(input[d])' = Held(input[d])
    BY <1>0, <1>1, <2>1, SinglyStays DEF PlacesOK
  <2>3. Queued(d)' = Queued(d) /\ Ran(d)' = Ran(d)
    BY <1>1, <2>1, Zenon DEF Queued, Ran
  <2>. QED
    BY <1>5, <1>7, <2>2, <2>3 DEF InBatch, InInput
<1>12. UNCHANGED txs
  BY <1>0, RunPlaces
<1>13. ASSUME NEW d \in Dpu PROVE Partition(d)'
  BY <1>0, <1>11, <1>12, RunPlaces, UnmovedStays DEF Unmoved, PlacesOK
<1>14. n_commited' = Cardinality(Summed')
  <2>1. ASSUME NEW d \in Dpu
        PROVE  Told(d)' = Told(d) \cup (IF HelperOf(d) = h THEN InBatch(d) ELSE {})
    BY <1>10, <1>11, HelperIs DEF Told
  <2>2. Summed' = Summed \cup Batched(h)
    <3>1. \A p \in Pair : p[1] \in Dpu
      BY DEF Pair
    <3>2. Summed' = {p \in Pair : p[2] \in Told(p[1])'}
      BY <1>12 DEF Summed, Pair
    <3>3. ASSUME NEW p \in Pair
          PROVE  p[2] \in Told(p[1])' <=> p[2] \in Told(p[1]) \/ (HelperOf(p[1]) = h /\ p[2] \in InBatch(p[1]))
      BY <2>1, <3>1
    <3>. QED
      BY <3>2, <3>3 DEF Summed, Batched
  <2>3. Summed \cap Batched(h) = {}
    <3>1. ASSUME NEW p \in Pair, HelperOf(p[1]) = h, p[2] \in InBatch(p[1]) PROVE p[2] \notin Told(p[1])
      <4>1. p[1] \in Dpu
        BY DEF Pair
      <4>2. Partition(p[1])
        BY <1>0, <4>1 DEF PlacesOK
      <4>. QED
        BY <1>10, <3>1, <4>2 DEF Partition, Told
    <3>. QED
      BY <3>1 DEF Summed, Batched
  <2>4. Cardinality(Summed') = Cardinality(Summed) + Cardinality(Batched(h))
    <3>1. /\ IsFiniteSet(Summed) /\ IsFiniteSet(Batched(h)) /\ Cardinality(Summed \cap Batched(h)) = 0
          /\ Cardinality(Summed) \in Nat /\ Cardinality(Batched(h)) \in Nat
      BY <1>0, <2>3, PairsFinite, FS_EmptySet, FS_CardinalityType
    <3>2. Cardinality(Summed') = Cardinality(Summed) + Cardinality(Batched(h)) - Cardinality(Summed \cap Batched(h))
      BY <2>2, <3>1, FS_Union
    <3>. QED
      BY <3>1, <3>2
  <2>5. n_thread[h] = Cardinality(Batched(h))
    BY <1>0, <1>5 DEF SumsOK
  <2>. QED
    BY <1>0, <1>3, <2>4, <2>5 DEF SumsOK
<1>15. Entered' = Entered /\ \A g \in Helper : Batched(g)' = Batched(g)
  BY <1>0, <1>11, <1>12, RunPlaces, EnteredStays, BatchedStays
<1>16. SumsOK'
  BY <1>0, <1>14, <1>15, RunPlaces DEF SumsOK
<1>. QED
  BY <1>11, <1>13, <1>16 DEF PlacesOK

\* A batch is copied: the copies count only when they are launched.
LEMMA PlacesCopy ==
  ASSUME IInv, PInv, Copy
  PROVE  PlacesOK' /\ SumsOK'
<1>0. /\ pc \in [Thread -> Label] /\ reg \in [Thread -> Nat] /\ input \in [Dpu -> Batch]
      /\ PlacesOK /\ SumsOK /\ RunStep /\ Run \in Thread
  BY Roles DEF PInv, IInv, RunStep, Types
<1>1. UNCHANGED <<executed, n_commited>> /\ pc[Run] = "copy"
  BY DEF Copy, counters, At
<1>2. PICK e \in Dpu : e = reg[Run]
  BY <1>1 DEF PInv, RunOK
<1>3. input' = [input EXCEPT ![e] = batch[e]] /\ pc'[Run] \in {"copy", "copied"}
  BY <1>0, <1>2 DEF Copy, Goto
<1>4. /\ ~ Launching /\ ~ Launching'
      /\ \A g \in Helper : Added(g) /\ Added(g)'
  BY <1>1, <1>3 DEF Launching, Added
<1>5. UNCHANGED <<txs, queue, batch>>
  BY <1>0, RunPlaces
<1>6. ASSUME NEW d \in Dpu
      PROVE  InBatch(d)' = InBatch(d) /\ InInput(d)' = InInput(d) /\ Singly(d)'
  <2>1. PICK b : b = batch[d] /\ batch'[d] = b
    BY <1>5
  <2>2. PICK c \in {input[d], batch[d]} : input'[d] = c
    BY <1>0, <1>3
  <2>3. Singly(d)
    BY <1>0 DEF PlacesOK
  <2>4. /\ Held(batch[d])' = Held(batch[d])
        /\ Once(batch[d])' /\ Once(input[d])'
    BY <1>5, <2>1, <2>2, <2>3, HeldNow DEF Singly
  <2>5. Singly(d)'
    BY <1>1, <1>5, <2>3, <2>4 DEF Singly
  <2>. QED
    BY <1>0, <1>4, <2>4, <2>5, RunPlaces DEF InBatch, InInput
<1>. QED
  BY <1>0, <1>1, <1>4, <1>5, <1>6, RunPlaces, PlacesStay

\* The DPUs run their batches.
LEMMA PlacesLaunch ==
  ASSUME IInv, PInv, Launch
  PROVE  PlacesOK' /\ SumsOK'
<1>0. /\ pc \in [Thread -> Label] /\ executed \in [Dpu -> [DOMAIN txs -> Nat]]
      /\ PlacesOK /\ SumsOK /\ RunStep /\ Run \in Thread
  BY Roles DEF PInv, IInv, RunStep, Types
<1>1. UNCHANGED <<input, n_commited>> /\ pc[Run] = "launch" /\ pc'[Run] = "loop" /\ Outside(Run)
  BY <1>0 DEF Launch, counters, At, Goto
<1>2. Launching /\ ~ Launching' /\ \A g \in Helper : ~ Added(g) /\ ~ Added(g)'
  BY <1>1 DEF Launching, Added
<1>3. UNCHANGED <<txs, queue, batch>>
  BY <1>0, RunPlaces
<1>4. \A d \in Dpu : Partition(d) /\ Singly(d) /\ Due(d)' = Due(d)
  BY <1>0, <1>3, SameWork DEF PlacesOK
<1>5. ASSUME NEW d \in Dpu, NEW tx \in DOMAIN txs
      PROVE  /\ executed'[d][tx] = executed[d][tx] + (IF tx \in Held(input[d]) THEN 1 ELSE 0)
             /\ executed[d][tx] \in Nat
  <2>1. executed'[d][tx] = executed[d][tx] + Times(input[d], tx)
    BY DEF Launch
  <2>2. Times(input[d], tx) = IF tx \in Held(input[d]) THEN 1 ELSE 0
    BY <1>4, TimesOnce DEF Singly
  <2>. QED
    BY <1>0, <2>1, <2>2
<1>6. ASSUME NEW d \in Dpu
      PROVE  /\ Ran(d)' = Ran(d) \cup InInput(d) /\ InInput(d)' = {}
             /\ InBatch(d)' = InBatch(d) /\ Queued(d)' = Queued(d)
  <2>1. InInput(d) = Held(input[d]) /\ InInput(d)' = {}
    BY <1>2 DEF InInput
  <2>2. Held(input[d]) \subseteq DOMAIN txs
    BY DEF Held
  <2>3. Ran(d)' = {tx \in DOMAIN txs : executed'[d][tx] > 0}
    BY <1>3 DEF Ran
  <2>4. ASSUME NEW tx \in DOMAIN txs PROVE executed'[d][tx] > 0 <=> executed[d][tx] > 0 \/ tx \in Held(input[d])
    BY <1>5
  <2>5. Ran(d)' = Ran(d) \cup InInput(d)
    BY <2>1, <2>2, <2>3, <2>4 DEF Ran
  <2>6. PICK b : b = batch[d] /\ batch'[d] = b
    BY <1>3
  <2>7. InBatch(d)' = InBatch(d)
    BY <1>0, <1>3, <2>6, HeldNow, RunPlaces DEF InBatch
  <2>8. Queued(d)' = Queued(d)
    BY <1>3, Zenon DEF Queued
  <2>. QED
    BY <2>1, <2>5, <2>7, <2>8
<1>7. ASSUME NEW d \in Dpu PROVE Partition(d)'
  BY <1>0, <1>4, <1>6, RunPlaces DEF Partition
<1>8. ASSUME NEW d \in Dpu PROVE Singly(d)'
  <2>1. ASSUME NEW tx \in DOMAIN txs PROVE executed'[d][tx] <= 1
    <3>1. CASE tx \in Held(input[d])
      <4>1. tx \notin Ran(d)
        BY <1>2, <1>4, <3>1 DEF Partition, InInput
      <4>2. executed[d][tx] = 0
        BY <1>5, <4>1 DEF Ran
      <4>. QED
        BY <1>5, <3>1, <4>2
    <3>2. CASE tx \notin Held(input[d])
      <4>1. executed[d][tx] <= 1
        BY <1>4 DEF Singly
      <4>. QED
        BY <1>5, <3>2, <4>1
    <3>. QED
      BY <3>1, <3>2
  <2>2. PICK b, c : b = batch[d] /\ batch'[d] = b /\ c = input[d] /\ input'[d] = c
    BY <1>1, <1>3
  <2>3. Once(batch[d])' /\ Once(input[d])'
    BY <1>3, <1>4, <2>2, HeldNow DEF Singly
  <2>. QED
    BY <1>3, <1>4, <2>1, <2>3 DEF Singly
<1>9. ASSUME NEW d \in Dpu PROVE Told(d)' = Told(d)
  BY <1>2, <1>6, HelperIs DEF Told
<1>10. SumsOK'
  <2>1. Entered' = Entered /\ Summed' = Summed /\ \A h \in Helper : Batched(h)' = Batched(h)
    BY <1>0, <1>3, <1>6, <1>9, RunPlaces, EnteredStays, SummedStays, BatchedStays
  <2>. QED
    BY <1>0, <1>1, <2>1, RunPlaces DEF SumsOK
<1>. QED
  BY <1>7, <1>8, <1>10 DEF PlacesOK

LEMMA PlacesRunStep ==
  ASSUME IInv, PInv, RunStep
  PROVE  PlacesOK' /\ SumsOK'
BY PlacesRunWaits, PlacesCount, PlacesCopy, PlacesLaunch DEF RunStep

LEMMA PlacesMainStep ==
  ASSUME IInv, PInv, MainStep
  PROVE  PlacesOK' /\ SumsOK'
<1>1. ASSUME NEW d \in Dpu, Exec(d) PROVE PlacesOK' /\ SumsOK'
  BY <1>1, PlacesExec
<1>2. CASE MainStart \/ Stop \/ Join
  <2>0. pc \in [Thread -> Label] /\ reg \in [Thread -> Nat] /\ PlacesOK /\ SumsOK
    BY DEF PInv, IInv, Types
  <2>1. UNCHANGED <<txs, queue, batch, input, executed, counters, parts, reg>>
    BY <1>2 DEF MainStart, Stop, Join, Wait, batchVars, dpus
  <2>2. Still(Run) /\ \A h \in Helper : Still(h)
    BY <2>0, MainFrame DEF Worker
  <2>. QED
    BY <2>0, <2>1, <2>2, StillRun, StillHelper, HelperIs, ThreadMoves
<1>. QED
  BY <1>1, <1>2 DEF MainStep

\* The barrier opens.  After the start the batches are empty, after the copies have
\* been made they are what the launch will run.
LEMMA PlacesWake ==
  ASSUME IInv, PInv, NEW th \in Thread, Wake(th)
  PROVE  PlacesOK' /\ SumsOK'
<1>0. PlacesOK /\ SumsOK /\ RunOK
  BY DEF PInv
<1>1. /\ UNCHANGED <<txs, queue, batch, input, executed, pc, reg, parts, counters>>
      /\ \A o : Outside(o)'
      /\ notifying # {}
  BY WakeFrame DEF batchVars, dpus
<1>2. UNCHANGED <<n_transactions, n_commited, n_thread>>
  BY <1>1 DEF counters
<1>3. \A d \in Dpu : /\ Held(batch[d])' = Held(batch[d]) /\ Held(input[d])' = Held(input[d])
                     /\ Singly(d)' /\ Unqueued(d)' = Unqueued(d)
                     /\ Queued(d)' = Queued(d) /\ Ran(d)' = Ran(d)
  <2>1. ASSUME NEW d \in Dpu
        PROVE  Held(batch[d])' = Held(batch[d]) /\ Held(input[d])' = Held(input[d]) /\ Singly(d)'
    BY <1>0, <1>1, SinglyStays DEF PlacesOK
  <2>2. ASSUME NEW d \in Dpu PROVE Unqueued(d)' = Unqueued(d)
    BY <1>1, SameWork DEF Unqueued
  <2>3. ASSUME NEW d \in Dpu PROVE Queued(d)' = Queued(d) /\ Ran(d)' = Ran(d)
    BY <1>1, Zenon DEF Queued, Ran
  <2>. QED
    BY <2>1, <2>2, <2>3
<1>4. CASE Starting
  <2>1. ~ Outside(Run) /\ pc[Run] = "loop" /\ \A h \in Helper : ~ Outside(h) /\ pc[h] = "loop"
    BY <1>1, <1>4, Roles DEF Starting, Placed, Opened
  <2>2. /\ ~ Launching /\ ~ Launching'
        /\ \A h \in Helper : ~ Added(h) /\ ~ Added(h)' /\ ~ Counting(h)'
    BY <1>1, <2>1 DEF Launching, Added, Counting
  <2>3. \A d \in Dpu : InBatch(d) = {} /\ InBatch(d)' = {}
    BY <1>3, <1>4 DEF PInv, StartOK, InBatch
  <2>4. \A d \in Dpu : InInput(d) = {} /\ InInput(d)' = {}
    BY <2>2 DEF InInput
  <2>. QED
    BY <1>0, <1>1, <1>2, <1>3, <2>2, <2>3, <2>4, PlacesStay
<1>5. CASE Building
  <2>1. ~ Outside(Run) /\ pc[Run] = "count" /\ \A h \in Helper : ~ Outside(h) /\ pc[h] = "copied"
    BY <1>1, <1>5, Roles DEF Building, Placed, Opened, Worker
  <2>2. reg[Run] = 0
    BY <1>0, <2>1 DEF RunOK
  <2>3. /\ ~ Launching /\ ~ Launching'
        /\ \A h \in Helper : ~ Added(h) /\ Counting(h) /\ Counting(h)'
    BY <1>1, <2>1 DEF Launching, Added, Counting
  <2>4. \A h \in Helper : ~ Added(h)'
    <3>1. \A h \in Helper : ~ (h < 0)
      BY DEF Helper
    <3>. QED
      BY <1>1, <2>1, <2>2, <3>1 DEF Added
  <2>5. \A d \in Dpu : Fresh(d) /\ Fresh(d)'
    BY <1>1, <2>1, <2>3, HelperIs DEF Fresh
  <2>. QED
    BY <1>0, <1>1, <2>3, <2>4, <2>5, ThreadMoves
<1>6. CASE Copying
  <2>1. ~ Outside(Run) /\ pc[Run] = "launch" /\ \A h \in Helper : ~ Outside(h) /\ pc[h] = "loop"
    BY <1>1, <1>6, Roles DEF Copying, Placed, Opened, Worker
  <2>2. /\ ~ Launching /\ Launching'
        /\ \A h \in Helper : Added(h) /\ ~ Added(h)' /\ Counting(h) /\ ~ Counting(h)'
    BY <1>1, <2>1 DEF Launching, Added, Counting
  <2>3. \A d \in Dpu : Fresh(d) /\ ~ Fresh(d)'
    BY <2>1, <2>2, HelperIs DEF Fresh
  <2>4. \A d \in Dpu : input[d] = batch[d]
    BY <1>0, <2>1 DEF RunOK, Copied
  <2>5. ASSUME NEW d \in Dpu
        PROVE  /\ InInput(d) = {} /\ InBatch(d)' = {} /\ InInput(d)' = InBatch(d)
               /\ Told(d)' = Told(d)
    <3>1. InInput(d) = {} /\ InBatch(d)' = {} /\ InInput(d)' = InBatch(d)
      BY <1>3, <2>2, <2>3, <2>4 DEF InInput, InBatch
    <3>. QED
      BY <1>3, <2>2, <3>1, HelperIs DEF Told
  <2>6. ASSUME NEW d \in Dpu PROVE Partition(d)'
    <3>1. Partition(d) /\ Due(d)' = Due(d)
      BY <1>0, <1>1, SameWork DEF PlacesOK
    <3>. QED
      BY <1>3, <2>5, <3>1 DEF Partition
  <2>7. Entered' = Entered /\ Summed' = Summed
    BY <1>1, <1>3, <2>5, EnteredStays, SummedStays
  <2>8. SumsOK'
    BY <1>0, <1>2, <2>2, <2>7 DEF SumsOK
  <2>. QED
    BY <1>3, <2>6, <2>8 DEF PlacesOK
<1>. QED
  BY <1>4, <1>5, <1>6 DEF IInv, Stages

LEMMA PlacesNext ==
  ASSUME IInv, PInv, [Next]_vars
  PROVE  PlacesOK' /\ SumsOK'
<1>1. CASE MainStep
  BY <1>1, PlacesMainStep
<1>2. CASE RunStep
  BY <1>2, PlacesRunStep
<1>3. ASSUME NEW h \in Helper, HelperStep(h) PROVE PlacesOK' /\ SumsOK'
  BY <1>3, PlacesHelperStep
<1>4. ASSUME NEW th \in Thread, Wake(th) PROVE PlacesOK' /\ SumsOK'
  BY <1>4, PlacesWake
<1>5. CASE DpuError \/ UNCHANGED vars
  <2>0. PlacesOK /\ SumsOK
    BY DEF PInv
  <2>1. /\ UNCHANGED <<txs, queue, batch, input, executed, counters, parts>>
        /\ UNCHANGED <<pc, reg, barrierVars>>
    BY <1>5 DEF DpuError, vars, batchVars, dpus
  <2>2. \A th : Still(th)
    BY <2>1 DEF Still, Outside, barrierVars
  <2>. QED
    BY <2>0, <2>1, <2>2, StillRun, StillHelper, HelperIs, ThreadMoves
<1>. QED
  BY <1>1, <1>2, <1>3, <1>4, <1>5 DEF Next

LEMMA TypesNext ==
  ASSUME IInv, PInv, [Next]_vars
  PROVE  Types'
<1>0. pc \in [Thread -> Label] /\ Types /\ MainOK /\ RunOK /\ HelperOK
  BY DEF PInv, IInv
<1>1. CASE MainStep
  BY <1>0, <1>1, TypesMain
<1>2. CASE RunStep
  BY <1>0, <1>2, TypesRun
<1>3. ASSUME NEW h \in Helper, HelperStep(h) PROVE Types'
  BY <1>0, <1>3, TypesHelper
<1>4. CASE DpuError \/ UNCHANGED vars \/ \E th \in Thread : Wake(th)
  <2>1. UNCHANGED <<txs, queue, batch, input, dpu_ts, turn, reg, parts, n_transactions, n_commited,
                    n_thread, executed>>
    BY <1>4 DEF DpuError, vars, Wake, batchVars, counters, dpus
  <2>2. Batch' = Batch
    BY <2>1 DEF Batch, Entry
  <2>. QED
    BY <1>0, <2>1, <2>2 DEF Types
<1>. QED
  BY <1>1, <1>2, <1>3, <1>4 DEF Next

LEMMA PInvNext ==
  ASSUME IInv, PInv, [Next]_vars
  PROVE  PInv'
BY TypesNext, MainNext, RunNext, HelperNext, StartNext, PlacesNext DEF PInv

\* At first nothing is queued.
LEMMA PInvInit == Init => PInv
<1>. SUFFICES ASSUME Init PROVE PInv
  OBVIOUS
<1>1. PICK L \in Nat : /\ L = Len(txs) /\ DOMAIN txs = 1 .. L
                       /\ \A n \in 1 .. L : txs[n] \in (SUBSET Dpu) \ {{}}
  <2>1. txs \in Seq((SUBSET Dpu) \ {{}})
    BY HostAssumption DEF Init, BatchInit
  <2>2. Len(txs) \in Nat /\ DOMAIN txs = 1 .. Len(txs)
        /\ txs \in [1 .. Len(txs) -> (SUBSET Dpu) \ {{}}]
    BY <2>1, LenProperties
  <2>. QED
    BY <2>2, Zenon
<1>2. /\ reg = [th \in Thread |-> IF th = Main THEN 1 ELSE 0]
      /\ parts = IF L = 0 THEN {} ELSE txs[1]
  <2>1. txs = <<>> <=> L = 0
    <3>1. txs \in Seq((SUBSET Dpu) \ {{}})
      BY HostAssumption DEF Init, BatchInit
    <3>. QED
      BY <1>1, <3>1, EmptySeq
  <2>. QED
    BY <2>1 DEF Init
<1>3. reg[Main] = 1 /\ reg[Run] = 0 /\ reg \in [Thread -> Nat]
  BY <1>2, Roles
<1>4. parts \in SUBSET Dpu /\ (parts = {} <=> L = 0) /\ (L # 0 => parts = txs[1])
  <2>1. L # 0 => 1 \in 1 .. L
    OBVIOUS
  <2>. QED
    BY <1>1, <1>2, <2>1
<1>5. PICK b : b = [t \in Tasklet |-> NoSubTxs]
  OBVIOUS
<1>6. b \in Batch /\ Held(b) = {} /\ Once(b)
  BY <1>5, NothingHeld
<1>7. /\ batch = [d \in Dpu |-> b] /\ input = [d \in Dpu |-> b]
      /\ dpu_ts = [d \in Dpu |-> 0] /\ turn = [d \in Dpu |-> [thread |-> 0, prev |-> 0]]
      /\ queue = [d \in Dpu |-> <<>>] /\ n_transactions = 0 /\ n_commited = 0
      /\ n_thread = [h \in Helper |-> 0]
      /\ executed = [d \in Dpu |-> [tx \in DOMAIN txs |-> 0]]
  BY <1>5 DEF Init, BatchInit
<1>8. pc[Main] = "exec" /\ pc[Run] = "init" /\ \A h \in Helper : pc[h] = "start"
  BY Roles DEF Init
<1>9. Types
  <2>1. 0 \in Tasklet /\ 0 \in Nat
    BY HostAssumption DEF Tasklet
  <2>2. txs \in Workloads
    BY DEF Init, BatchInit
  <2>3. queue \in [Dpu -> Seq(DOMAIN txs)]
    BY <1>7, EmptySeq
  <2>4. turn \in [Dpu -> [thread : Tasklet, prev : Nat]]
    BY <1>7, <2>1
  <2>5. executed \in [Dpu -> [DOMAIN txs -> Nat]]
    BY <1>7, <2>1
  <2>. QED
    BY <1>3, <1>4, <1>6, <1>7, <2>1, <2>2, <2>3, <2>4, <2>5 DEF Types
<1>10. MainOK
  <2>1. 1 \in 1 .. L + 1 /\ (1 = L + 1 <=> L = 0) /\ (1 <= L => L # 0)
    OBVIOUS
  <2>. QED
    BY <1>1, <1>3, <1>4, <1>8, <2>1 DEF MainOK
<1>11. RunOK /\ HelperOK
  BY <1>3, <1>8 DEF RunOK, HelperOK, Copied
<1>12. \A d \in Dpu : /\ Ran(d) = {} /\ Held(batch[d]) = {} /\ Once(batch[d]) /\ Once(input[d])
                      /\ dpu_ts[d] = 0
  BY <1>6, <1>7 DEF Ran
<1>13. StartOK
  BY <1>7, <1>12 DEF StartOK
<1>14. ~ Launching /\ \A h \in Helper : ~ Added(h) /\ ~ Counting(h)
  BY <1>8 DEF Launching, Added, Counting
<1>15. ASSUME NEW d \in Dpu
       PROVE  /\ Due(d) = Unqueued(d) /\ Queued(d) = {} /\ InBatch(d) = {} /\ InInput(d) = {}
              /\ Told(d) = {}
  <2>1. Queued(d) = {}
    BY <1>7 DEF Queued
  <2>2. InBatch(d) = {} /\ InInput(d) = {}
    BY <1>12, <1>14 DEF InBatch, InInput
  <2>3. Due(d) = Unqueued(d)
    <3>1. ASSUME NEW tx \in Due(d) PROVE tx > 1 \/ (tx = 1 /\ d \in parts)
      <4>1. tx \in 1 .. L /\ d \in txs[tx] /\ L # 0
        BY <1>1 DEF Due
      <4>2. tx > 1 \/ tx = 1
        BY <4>1
      <4>. QED
        BY <1>4, <4>1, <4>2
    <3>. QED
      BY <1>3, <3>1 DEF Unqueued
  <2>. QED
    BY <1>12, <2>1, <2>2, <2>3 DEF Told
<1>16. PlacesOK
  <2>1. ASSUME NEW d \in Dpu PROVE Partition(d)
    BY <1>12, <1>15 DEF Partition
  <2>2. ASSUME NEW d \in Dpu PROVE Singly(d)
    <3>1. queue[d] = <<>> /\ Len(queue[d]) = 0 /\ DOMAIN queue[d] = {} /\ 0 <= BUFFER_SIZE
      BY <1>7, HostAssumption
    <3>2. \A tx \in DOMAIN txs : executed[d][tx] <= 1
      BY <1>7
    <3>. QED
      BY <1>12, <3>1, <3>2 DEF Singly
  <2>. QED
    BY <2>1, <2>2 DEF PlacesOK
<1>17. SumsOK
  <2>1. Entered = {} /\ Summed = {}
    <3>1. \A p \in Pair : p[1] \in Dpu
      BY DEF Pair
    <3>. QED
      BY <1>15, <3>1 DEF Entered, Summed
  <2>. QED
    BY <1>7, <1>14, <2>1, FS_EmptySet DEF SumsOK
<1>. QED
  BY <1>9, <1>10, <1>11, <1>13, <1>16, <1>17, Zenon DEF PInv

------------------------------------------------------------------------------
(* The theorems *)

(* Every sub-transaction is in one place, the counters count what they are  *)
(* said to, and the threads only change what is theirs (system.cpp:87-252). *)
THEOREM PlacesKept == Spec => [](IInv /\ PInv)
<1>1. Init => IInv /\ PInv
  BY InitStage, PInvInit
<1>2. IInv /\ PInv /\ [Next]_vars => IInv' /\ PInv'
  BY StagesNext, PInvNext
<1>. QED
  BY <1>1, <1>2, PTL DEF Spec

(* No sub-transaction is run twice, and a DPU runs only what has a part on  *)
(* it (system.cpp:159-203, 241-248).                                        *)
THEOREM RunAtMostOnce == Spec => []RunOnce
<1>1. ASSUME PInv PROVE RunOnce
  <2>. SUFFICES ASSUME NEW d \in Dpu, NEW tx \in DOMAIN txs
                PROVE  executed[d][tx] <= IF d \in txs[tx] THEN 1 ELSE 0
    BY DEF RunOnce
  <2>1. executed[d][tx] \in Nat /\ executed[d][tx] <= 1 /\ Ran(d) \subseteq Due(d)
    BY <1>1 DEF PInv, Types, PlacesOK, Partition, Singly
  <2>2. executed[d][tx] > 0 => d \in txs[tx]
    BY <2>1 DEF Ran, Due
  <2>. QED
    BY <2>1, <2>2
<1>. QED
  BY <1>1, PlacesKept, PTL

(* stop returns only when every sub-transaction has been run (system.cpp:   *)
(* 87-95), although they are counted before they are launched.              *)
THEOREM StopLeavesNothing == Spec => []NothingLeftBehind
<1>1. ASSUME IInv, PInv PROVE NothingLeftBehind
  <2>. SUFFICES ASSUME pc[Main] = "exit", NEW d \in Dpu
                PROVE  Ran(d) = Due(d)
    BY DEF NothingLeftBehind
  <2>0. MainOK /\ Types /\ PlacesOK /\ SumsOK
    BY <1>1 DEF PInv
  <2>1. /\ parts = {} /\ n_commited >= n_transactions /\ reg[Main] = Len(txs) + 1
        /\ \A th \in Worker : pc[th] = "exit"
    BY <2>0 DEF MainOK
  <2>2. \A e \in Dpu : InBatch(e) = {} /\ InInput(e) = {}
    <3>1. pc[Run] = "exit" /\ \A h \in Helper : pc[h] = "exit"
      BY <2>1 DEF Worker
    <3>2. ~ Launching /\ \A h \in Helper : ~ Counting(h)
      BY <3>1 DEF Launching, Counting
    <3>. QED
      BY <3>2, HelperIs DEF InBatch, InInput, Fresh
  <2>3. \A e \in Dpu : Unqueued(e) = {}
    <3>1. PICK L \in Nat : L = Len(txs) /\ DOMAIN txs = 1 .. L
      BY <2>0, HostAssumption, LenProperties DEF Types
    <3>. QED
      BY <2>1, <3>1 DEF Unqueued, Due
  <2>4. Summed = Entered
    <3>1. Summed \subseteq Entered
      <4>1. ASSUME NEW p \in Pair, p[2] \in Told(p[1]) PROVE p[2] \in Due(p[1]) \ Unqueued(p[1])
        <5>1. p[1] \in Dpu
          BY DEF Pair
        <5>2. Partition(p[1])
          BY <2>0, <5>1 DEF PlacesOK
        <5>. QED
          BY <4>1, <5>2 DEF Partition, Told
      <4>. QED
        BY <4>1 DEF Summed, Entered
    <3>2. /\ IsFiniteSet(Entered) /\ Cardinality(Summed) <= Cardinality(Entered)
          /\ Cardinality(Summed) \in Nat /\ Cardinality(Entered) \in Nat
      BY <2>0, <3>1, PairsFinite, FS_Subset, FS_CardinalityType
    <3>3. Cardinality(Summed) = Cardinality(Entered)
      BY <2>0, <2>1, <3>2 DEF SumsOK
    <3>. QED
      BY <3>1, <3>2, <3>3, FS_Subset
  <2>5. ASSUME NEW tx \in Due(d) PROVE tx \in Ran(d)
    <3>1. PICK p \in Pair : p[1] = d /\ p[2] = tx
      <4>1. <<d, tx>> \in Pair /\ <<d, tx>>[1] = d /\ <<d, tx>>[2] = tx
        BY DEF Pair, Due
      <4>. QED
        BY <4>1
    <3>2. p \in Summed
      BY <2>3, <2>4, <3>1 DEF Entered
    <3>3. tx \in Told(d)
      BY <3>1, <3>2 DEF Summed
    <3>. QED
      BY <2>2, <3>3 DEF Told
  <2>6. Ran(d) \subseteq Due(d)
    BY <2>0 DEF PlacesOK, Partition
  <2>. QED
    BY <2>5, <2>6
<1>. QED
  BY <1>1, PlacesKept, PTL

(* Unless the queues can hold the whole workload, the client never gets     *)
(* past queueing it, and no DPU gets anything (tpcc.cpp:102-122,            *)
(* buffer.h:27-30).                                                         *)
THEOREM NothingWithoutRoom == Spec => []StartNeedsRoom
<1>1. ASSUME IInv, PInv PROVE StartNeedsRoom
  <2>. SUFFICES ASSUME ~ Room PROVE pc[Main] = "exec" /\ \A d \in Dpu : dpu_ts[d] = 0
    BY DEF StartNeedsRoom
  <2>1. pc[Main] = "exec"
    BY <1>1 DEF PInv, MainOK
  <2>2. Starting
    BY <1>1, <2>1 DEF IInv, Stages, Building, Copying, MainBeyond
  <2>. QED
    BY <1>1, <2>1, <2>2 DEF PInv, StartOK
<1>. QED
  BY <1>1, PlacesKept, PTL
==============================================================================
