------------------------------ MODULE NatLemmas ------------------------------
(***************************************************************************)
(* Facts about sets of natural numbers that the proofs of other modules    *)
(* cite.  Induction is stated on sets, never on operators, so that the     *)
(* provers can use it.                                                     *)
(***************************************************************************)
EXTENDS Integers, FiniteSetsExt, WellFoundedInduction, TLAPS

\* Every non-empty set of natural numbers has a least element.
LEMMA NatMin ==
  ASSUME NEW S, S \subseteq Nat, S # {}
  PROVE  \E n \in S : \A m \in S : n <= m
<1> DEFINE R == OpToRel(<, Nat)
<1>1. IsWellFoundedOn(R, Nat)
  BY NatLessThanWellFounded
<1>2. R = {ss \in Nat \X Nat : ss[1] < ss[2]}
  BY DEF OpToRel
<1> HIDE DEF R
<1>3. PICK n \in S : \A m \in S : ~ (<<m, n>> \in R)
  BY <1>1, WFMin
<1>4. ASSUME NEW m \in S
      PROVE  n <= m
  <2>1. m \in Nat /\ n \in Nat /\ <<m, n>> \in Nat \X Nat
    OBVIOUS
  <2>2. ~ (m < n)
    BY <1>2, <1>3, <2>1
  <2> QED  BY <2>1, <2>2
<1> QED  BY <1>4

\* What holds of 0 and passes from n to n + 1 holds of every natural number.
LEMMA SetInduction ==
  ASSUME NEW S, 0 \in S, \A n \in Nat : n \in S => n + 1 \in S
  PROVE  Nat \subseteq S
<1> SUFFICES ASSUME Nat \ S # {}
             PROVE  FALSE
  OBVIOUS
<1>1. PICK n \in Nat \ S : \A m \in Nat \ S : n <= m
  BY NatMin
<1>2. n # 0 /\ n - 1 \in Nat /\ n - 1 \in S
  BY <1>1
<1> QED  BY <1>2

\* A bounded set of natural numbers that is not empty has a largest element.
LEMMA NatMax ==
  ASSUME NEW S, S \subseteq Nat, S # {}, NEW b \in Nat, \A m \in S : m <= b
  PROVE  \E n \in S : \A m \in S : m <= n
<1> DEFINE T == {b - m : m \in S}
<1>1. T \subseteq Nat /\ T # {}
  <2>1. \A m \in S : b - m \in Nat
    OBVIOUS
  <2> QED  BY <2>1
<1>2. PICK d \in T : \A e \in T : d <= e
  BY <1>1, NatMin
<1>3. PICK n \in S : d = b - n
  OBVIOUS
<1>4. ASSUME NEW m \in S
      PROVE  m <= n
  <2>1. b - m \in T
    OBVIOUS
  <2> QED  BY <1>2, <1>3, <2>1
<1> QED  BY <1>4

\* Min and Max are what their names say.
LEMMA MinIs ==
  ASSUME NEW S, S \subseteq Nat, S # {}
  PROVE  Min(S) \in S /\ \A m \in S : Min(S) <= m
<1>1. \E n \in S : \A m \in S : n <= m
  BY NatMin
<1> QED  BY <1>1, Zenon DEF Min

LEMMA MaxIs ==
  ASSUME NEW S, S \subseteq Nat, S # {}, NEW b \in Nat, \A m \in S : m <= b
  PROVE  Max(S) \in S /\ \A m \in S : m <= Max(S)
<1>1. \E n \in S : \A m \in S : m <= n
  BY NatMax
<1>2. \E n \in S : \A m \in S : n >= m
  BY <1>1
<1>3. Max(S) \in S /\ \A m \in S : Max(S) >= m
  BY <1>2, Zenon DEF Max
<1> QED  BY <1>3

\* An element that bounds a set is its minimum, or its maximum.
LEMMA MinUnique ==
  ASSUME NEW S, S \subseteq Nat, NEW n \in S, \A m \in S : n <= m
  PROVE  Min(S) = n
<1>1. Min(S) \in S /\ \A m \in S : Min(S) <= m
  BY MinIs
<1>2. Min(S) <= n /\ n <= Min(S) /\ Min(S) \in Nat /\ n \in Nat
  BY <1>1
<1> QED  BY <1>2

LEMMA MaxUnique ==
  ASSUME NEW S, S \subseteq Nat, NEW n \in S, \A m \in S : m <= n
  PROVE  Max(S) = n
<1>1. Max(S) \in S /\ \A m \in S : m <= Max(S)
  <2>1. n \in Nat /\ S # {}
    OBVIOUS
  <2> QED  BY <2>1, MaxIs
<1>2. Max(S) <= n /\ n <= Max(S) /\ Max(S) \in Nat /\ n \in Nat
  BY <1>1
<1> QED  BY <1>2

------------------------------------------------------------------------------
(* Remainders *)

\* Every number is a multiple of M and a remainder.
LEMMA Quotient ==
  ASSUME NEW M \in Nat \ {0}, NEW d \in Nat
  PROVE  \E q \in Nat : \E h \in 0 .. M - 1 : d = h + q * M
<1> DEFINE S == {e \in Nat : \E q \in Nat : \E h \in 0 .. M - 1 : e = h + q * M}
<1>1. 0 \in S
  <2>1. 0 \in 0 .. M - 1 /\ 0 = 0 + 0 * M
    OBVIOUS
  <2> QED  BY <2>1
<1>2. ASSUME NEW n \in Nat, n \in S
      PROVE  n + 1 \in S
  <2>1. PICK q \in Nat, h \in 0 .. M - 1 : n = h + q * M
    BY <1>2
  <2>2. PICK k \in Nat : k = q * M
    OBVIOUS
  <2>3. CASE h + 1 < M
    <3>1. h + 1 \in 0 .. M - 1 /\ n + 1 = (h + 1) + q * M
      BY <2>1, <2>2, <2>3
    <3> QED  BY <3>1
  <2>4. CASE h + 1 = M
    <3>1. (q + 1) * M = k + M
      BY <2>2
    <3>2. n + 1 = 0 + (k + M)
      BY <2>1, <2>2, <2>4
    <3>3. PICK p \in Nat, g \in 0 .. M - 1 : p = q + 1 /\ g = 0
      OBVIOUS
    <3>4. n + 1 = g + p * M
      BY <3>1, <3>2, <3>3
    <3> QED  BY <3>4
  <2> QED  BY <2>3, <2>4
<1> HIDE DEF S
<1>3. d \in S
  BY <1>1, <1>2, SetInduction
<1> QED  BY <1>3 DEF S

LEMMA Remainder ==
  ASSUME NEW M \in Nat \ {0}, NEW q \in Nat, NEW h \in 0 .. M - 1
  PROVE  (h + q * M) % M = h
OBVIOUS

\* A remainder is not larger than the number, and small numbers are their own.
LEMMA RemainderIs ==
  ASSUME NEW M \in Nat \ {0}, NEW d \in Nat
  PROVE  /\ d % M \in 0 .. M - 1 /\ d % M <= d
         /\ d < M => d % M = d
         /\ (d + M) % M = d % M
<1>1. PICK q \in Nat, h \in 0 .. M - 1 : d = h + q * M
  BY Quotient
<1>2. d % M = h
  BY <1>1, Remainder
<1>3. PICK k \in Nat : k = q * M
  OBVIOUS
<1>4. d % M \in 0 .. M - 1 /\ d % M <= d
  BY <1>1, <1>2, <1>3
<1>5. ASSUME d < M
      PROVE  d % M = d
  <2>1. d \in 0 .. M - 1 /\ d = d + 0 * M
    BY <1>5
  <2>2. (d + 0 * M) % M = d
    BY <2>1, Remainder
  <2> QED  BY <2>1, <2>2
<1>6. (d + M) % M = d % M
  <2>1. (q + 1) * M = k + M
    BY <1>3
  <2>2. d + M = h + (q + 1) * M
    BY <1>1, <1>3, <2>1
  <2>3. (h + (q + 1) * M) % M = h
    BY Remainder
  <2> QED  BY <1>2, <2>2, <2>3
<1> QED  BY <1>4, <1>5, <1>6

\* Numbers with the same remainder are M apart, or the same.
LEMMA SameRemainder ==
  ASSUME NEW M \in Nat \ {0}, NEW d \in Nat, NEW r \in Nat, d % M = r % M, d < r + M
  PROVE  d <= r
<1>1. PICK q \in Nat, h \in 0 .. M - 1 : d = h + q * M
  BY Quotient
<1>2. PICK p \in Nat, g \in 0 .. M - 1 : r = g + p * M
  BY Quotient
<1>3. h = g
  BY <1>1, <1>2, Remainder
<1>4. PICK k \in Nat, j \in Nat : k = q * M /\ j = p * M
  OBVIOUS
<1>5. CASE q <= p
  <2>1. PICK e \in Nat : p = q + e
    <3>1. p - q \in Nat /\ p = q + (p - q)
      BY <1>5
    <3> QED  BY <3>1
  <2>2. PICK i \in Nat : i = e * M
    OBVIOUS
  <2>3. (q + e) * M = q * M + e * M
    OBVIOUS
  <2>4. j = k + i
    BY <1>4, <2>1, <2>2, <2>3
  <2> QED  BY <1>1, <1>2, <1>3, <1>4, <2>4
<1>6. CASE q > p
  <2>1. PICK e \in Nat : q = p + 1 + e
    <3>1. q - p - 1 \in Nat /\ q = p + 1 + (q - p - 1)
      BY <1>6
    <3> QED  BY <3>1
  <2>2. PICK i \in Nat : i = e * M
    OBVIOUS
  <2>3. (p + 1 + e) * M = p * M + M + e * M
    OBVIOUS
  <2>4. k = j + M + i
    BY <1>4, <2>1, <2>2, <2>3
  <2>5. FALSE
    BY <1>1, <1>2, <1>3, <1>4, <2>4
  <2> QED  BY <2>5
<1> QED  BY <1>5, <1>6

\* A multiple of M is 0 or at least M.
LEMMA MultipleIs ==
  ASSUME NEW M \in Nat \ {0}, NEW d \in Nat \ {0}, d % M = 0
  PROVE  d >= M
<1>1. ASSUME d < M
      PROVE  FALSE
  BY <1>1, RemainderIs
<1> QED  BY <1>1
==============================================================================
