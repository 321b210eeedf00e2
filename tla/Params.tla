-------------------------------- MODULE Params --------------------------------
(***************************************************************************)
(* The parameters of a sub-transaction: the host appends them to an array  *)
(* of bytes (src/host/sub_transaction.cpp, add_param), the DPU takes them  *)
(* from it one after the other (src/dpu/byte_utils.h).  Nobody writes down *)
(* what was appended: only the order and the sizes tell.                   *)
(*                                                                         *)
(* The array is a sequence of cells of two bytes, the lower ones first.    *)
(***************************************************************************)
EXTENDS Integers, SequencesExt

CONSTANTS
  N_PARAMS,  \* the size of the array
  Amount     \* the amounts of money that are paid: of the two generate() of random.h
             \* it is the one for whole numbers that is called

ASSUME ParamsAssumption == N_PARAMS \in Nat \ {0} /\ Amount \subseteq 1 .. 5000

CELL == 65536

\* The bits of the float with the value a: behind the sign come 8 bits of an
\* exponent and 23 of a fraction.
Exponent(a)  == CHOOSE e \in 0 .. 12 : 2^e <= a /\ a < 2^(e + 1)
Normal(a, e) == (127 + e) * 2^23 + (a - 2^e) * 2^(23 - e)
FloatBits(a) == Normal(a, Exponent(a))

\* The overloads of add_param.
uint16(v) == [size |-> 2, cells |-> <<v>>]
uint32(v) == [size |-> 4, cells |-> <<v % CELL, v \div CELL>>]
float(a)  == [size |-> 4, cells |-> <<FloatBits(a) % CELL, FloatBits(a) \div CELL>>]
char(n)   == [size |-> n, cells |-> [i \in 1 .. n \div 2 |-> 0]]

Empty == [n_params |-> 0, cells |-> <<>>, failed |-> FALSE]

\* Mutant: what is too long is refused without a word, as with NDEBUG.
add_param_silent(p, field) ==
  IF p.n_params + field.size >= N_PARAMS THEN p
  ELSE [p EXCEPT !.n_params = @ + field.size, !.cells = @ \o field.cells]

\* An assert stops the host when the array would be full.
add_param(p, field) ==
  IF p.n_params + field.size >= N_PARAMS THEN [p EXCEPT !.failed = TRUE]
  ELSE [p EXCEPT !.n_params = @ + field.size, !.cells = @ \o field.cells]

Encode(fields) == FoldLeft(add_param, Empty, fields)

\* What the DPU finds from cell i on.
bytes_to_uint16(cells, i) == cells[i]
bytes_to_uint32(cells, i) == cells[i] + CELL * cells[i + 1]

\* A float that is no amount is made of two numbers below 16256: it is less than 1
\* by so much that no sum of money changes by it.
bytes_to_float(cells, i) ==
  IF \E a \in Amount : <<cells[i], cells[i + 1]>> = float(a).cells
  THEN CHOOSE a \in Amount : <<cells[i], cells[i + 1]>> = float(a).cells
  ELSE 0
===============================================================================
