--------------------------------- MODULE MC_Avl ---------------------------------
(***************************************************************************)
(* Tables and transactions on which TLC checks AvlTree.                    *)
(***************************************************************************)
EXTENDS AvlTree

CONSTANT MaxLoad  \* the most keys tasklet 0 loads

ins(k, v) == [kind |-> "insert", key |-> k, data |-> v]
fnd(k)    == [kind |-> "find", key |-> k, data |-> 0]

\* The keys 1 .. MaxLoad in every order, and six keys whose last one makes the inner
\* child of two rotations heavy on either side; k is loaded as row k.
Orders  == {f \in [1 .. MaxLoad -> 1 .. MaxLoad] : \A i, j \in DOMAIN f : f[i] = f[j] => i = j}
             \cup {<<5, 2, 6, 1, 4, 3>>, <<5, 2, 6, 1, 3, 4>>, <<2, 5, 1, 6, 3, 4>>, <<2, 5, 1, 6, 4, 3>>}
Loading == {[load |-> Len(f),
             prog |-> [t \in Tasklet |-> IF t = 0 THEN [i \in 1 .. Len(f) |-> <<ins(f[i], f[i])>>]
                                                  ELSE <<>>]] : f \in Orders}

\* Two tasklets that insert keys into a table of each of these shapes, before or
\* after a find; tasklet 1 then changes a row that has long been there.
Tables  == {<<4, 2>>, <<2, 4>>, <<4, 2, 6>>, <<4, 2, 6, 1>>, <<4, 2, 6, 1, 3>>,
            <<4, 2, 6, 5, 7>>}
Firsts  == {<<ins(1, 8)>>, <<ins(3, 8)>>, <<ins(5, 8)>>, <<ins(7, 8)>>,
            <<fnd(2), ins(5, 8)>>, <<ins(3, 8), fnd(5)>>, <<ins(5, 8), ins(3, 8)>>}
Seconds == {<<<<ins(k, 9)>>, <<ins(2, 9)>>>> : k \in {3, 5}}

Pair(l, a, b) == [load |-> Len(l),
                  prog |-> [t \in Tasklet |-> IF t = 0 THEN [i \in 1 .. Len(l) |-> <<ins(l[i], l[i])>>] \o <<a>>
                                                     ELSE b]]

Together == {Pair(l, a, b) : l \in Tables, a \in Firsts, b \in Seconds}

\* The rotation of 5 and 4 meets two inserts of which the second makes 5 the root.
NewRoot == {Pair(<<2, 1, 5, 4>>, <<ins(3, 8)>>, <<<<ins(6, 9)>>, <<ins(7, 9)>>>>)}

AllCases == Loading \cup Together \cup NewRoot

\* The rotation of 4 and 2 meets the insert of 3, which gives up.
Crossing == {Pair(<<4, 2>>, <<ins(1, 8)>>, <<<<ins(3, 9)>>, <<ins(5, 9)>>>>)}
===============================================================================
