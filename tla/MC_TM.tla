--------------------------------- MODULE MC_TM ---------------------------------
(***************************************************************************)
(* Batches and layouts of memory on which TLC checks TM.                   *)
(***************************************************************************)
EXTENDS TM, TLC

CONSTANTS x, y, z, lx, ly, lz

\* Each word has a lock of its own, or y and z share one (lock_table is smaller
\* than MRAM: LOCK_ADDR folds addresses).
OwnLocks   == [a \in Addr |-> CASE a = x -> lx [] a = y -> ly [] OTHER -> lz]
SharedLock == [a \in Addr |-> IF a = x THEN lx ELSE ly]

ld(a)    == [kind |-> "load", addr |-> a]
st(a, v) == [kind |-> "store", addr |-> a, val |-> v]
al(s)    == [kind |-> "alloc", size |-> s]

opt(ops)     == [mode |-> OPTIMISTIC, ts |-> 0, ops |-> ops]
det(ts, ops) == [mode |-> DETERMINISTIC, ts |-> ts, ops |-> ops]

\* Every pair of optimistic transactions of two accesses; tasklet t writes t + 1.
Accesses(v) == {ld(a) : a \in {x, y}} \cup {st(a, v) : a \in {x, y}}
Pairs(v)    == {opt(<<o1, o2>>) : o1, o2 \in Accesses(v)}
TwoByTwo    == {(0 :> <<p>>) @@ (1 :> <<q>>) : p \in Pairs(1), q \in Pairs(2)}

\* Two transactions on tasklet 0 and one on tasklet 1, with allocations and two
\* words under one lock; some load or store more often than the sets of
\* MC_TM_Opt.cfg hold, or ask for more than their block.
Others == {<<o, al(3), st(y, 3), p>> : o \in {ld(z), st(y, 4)}, p \in {ld(z), st(z, 3)}}
            \cup {<<ld(z), ld(y), al(3), ld(x), st(y, 3)>>}

Allocating == {(0 :> <<opt(<<al(s), st(z, 1)>>), opt(<<ld(y), al(2), st(z, 2), st(y, 2)>>)>>)
                 @@ (1 :> <<opt(ops)>>) : s \in {1, 9}, ops \in Others}

\* Three tasklets: a cycle of two transactions that each read what the other
\* writes, watched by one that only reads; and three that chase each other.
Threesome == {(0 :> <<opt(<<ld(x), st(y, 1)>>)>>) @@ (1 :> <<opt(<<ld(y), st(x, 2)>>)>>)
                @@ (2 :> <<opt(ops)>>) : ops \in {<<ld(x), ld(y)>>, <<st(x, 3), st(y, 3)>>}}

\* All of these; tasklets without a batch stay idle.
OptBatches == {p @@ [t \in Tasklet |-> <<>>] : p \in TwoByTwo \cup Allocating \cup Threesome}

\* Deterministic batches, numbered as build_batch numbers them when there are no
\* optimistic transactions in between: tasklet t gets every NR_TASKLETS-th one.
\* Every deterministic transaction of the application writes.
DetPairs(ts, v) == {det(ts, ops) : ops \in {<<o1, o2>> : o1, o2 \in Accesses(v)}
                                            \ {<<ld(a), ld(b)>> : a, b \in {x, y}}}

\* Two transactions of two accesses, up to the names of the words, and one more round.
DetRounds == {(0 :> <<p, det(2, <<st(x, 1)>>)>>) @@ (1 :> <<q>>) :
                p \in {d \in DetPairs(0, 1) : d.ops[1].addr = x}, q \in DetPairs(1, 2)}

\* Two full rounds of crossing accesses.
Crossing == (0 :> <<det(0, <<st(x, 1), st(y, 1)>>), det(2, <<ld(x), st(y, 1)>>)>>)
              @@ (1 :> <<det(1, <<st(y, 2), ld(x)>>), det(3, <<st(x, 2)>>)>>)

\* On DPUs with more tasklets the others get nothing.
DetBatches == {p @@ [t \in Tasklet |-> <<>>] : p \in DetRounds \cup {Crossing}}

\* Three tasklets, each of which wants what the next one has.
DetRing == {(0 :> <<det(0, <<st(x, 1), st(y, 1)>>)>>) @@ (1 :> <<det(1, <<st(y, 2), st(z, 2)>>)>>)
              @@ (2 :> <<det(2, <<st(z, 3), st(x, 3)>>)>>)}

DetThree == DetBatches \cup DetRing
==============================================================================
