------------------------------ MODULE Application ------------------------------
(***************************************************************************)
(* The TPC-C transactions end to end: the client makes them up and queues  *)
(* their parts (src/host/tpcc.cpp, tpcc_client.cpp), and the DPUs decode   *)
(* and run them on their tables (src/dpu/application.c).                   *)
(*                                                                         *)
(* Every part is run once and is atomic, in any order: what that takes is  *)
(* in HostSystem, TM and AvlTree.  A table is a function from keys to      *)
(* rows.  Sums of money are floats, and a float that is a whole number is  *)
(* written as that number.  Tables that no transaction reads after loading *)
(* are left out.                                                           *)
(***************************************************************************)
EXTENDS TpccClient, FiniteSetsExt

CONSTANTS
  EXACT,    \* 2^24: all whole numbers below are floats
  WAREHOUSE_INITIAL_YTD,
  DISTRICT_INITIAL_YTD,
  CUSTOMER_INITIAL_YTD_PAYMENT,
  CUSTOMER_INITIAL_BALANCE,
  CUSTOMER_INITIAL_PAYMENT_CNT,
  Garbage,  \* items that may lie on the stack behind those of an order
  Drawn,    \* the calls the client may make
  MaxTxs    \* bound: how many calls it makes

ASSUME ApplicationAssumption ==
  /\ EXACT \in Nat /\ \E p \in 1 .. 24 : EXACT = 2^p
  /\ {WAREHOUSE_INITIAL_YTD, DISTRICT_INITIAL_YTD, CUSTOMER_INITIAL_YTD_PAYMENT,
      CUSTOMER_INITIAL_BALANCE} \subseteq 1 - EXACT .. EXACT - 1
  /\ CUSTOMER_INITIAL_PAYMENT_CNT \in 0 .. 255
  /\ Drawn \subseteq Calls
  /\ MaxTxs \in Nat

Dpu == 0 .. n_warehouses - 1

VARIABLES
  calls,    \* the calls the client has made
  pending,  \* the sub-transactions each DPU has yet to run
  phase,    \* "generating", "running", or "aborted" by an assert of the host
  db,       \* the tables of each DPU
  done      \* history: what each DPU has run, with the calls and what was read

vars == <<calls, pending, phase, db, done>>

------------------------------------------------------------------------------
(* Loading *)

Order(w_id, d_id, c_id, o_id, carrier, ol_cnt) ==
  [o_w_id |-> w_id, o_d_id |-> d_id, o_c_id |-> c_id, o_id |-> o_id,
   o_carrier_id |-> carrier, o_ol_cnt |-> ol_cnt]

OrderLine(o_id, ol_number, i_id, quantity) ==
  [ol_o_id |-> o_id, ol_number |-> ol_number, ol_i_id |-> i_id, ol_quantity |-> quantity]

\* A table of the rows row(d, ...) under the keys key(d, ...).
Table(Index, key(_), row(_)) ==
  [k \in {key(i) : i \in Index} |-> row(CHOOSE i \in Index : key(i) = k)]

generate_district(i) == [d_ytd |-> DISTRICT_INITIAL_YTD, d_next_o_id |-> NUM_CUSTOMERS_PER_DISTRICT + 1]

\* The word of c_payment_cnt, whose low byte it is.
generate_customer(w, i) ==
  [c_w_id |-> w, c_d_id |-> i[1], c_id |-> i[2], c_balance |-> CUSTOMER_INITIAL_BALANCE,
   c_ytd_payment |-> CUSTOMER_INITIAL_YTD_PAYMENT, c_payment_cnt |-> CUSTOMER_INITIAL_PAYMENT_CNT]

\* warehouse_init of warehouse w: order o is that of customer o.
Loaded(w) ==
  LET Orders == District \X Customer
      Lines  == Orders \X (1 .. ORDER_MIN_OL_COUNT)
  IN  [w_ytd    |-> WAREHOUSE_INITIAL_YTD,
       district |-> Table(District, LAMBDA d : make_district_key(w, d), generate_district),
       customer |-> Table(Orders, LAMBDA i : make_customer_key(w, i[1], i[2]),
                          LAMBDA i : generate_customer(w, i)),
       order    |-> Table(Orders, LAMBDA i : make_order_key(w, i[1], i[2]),
                          LAMBDA i : Order(w, i[1], i[2], i[2], 1, ORDER_MIN_OL_COUNT)),
       line     |-> Table(Lines, LAMBDA i : make_order_line_key(w, i[1][1], i[1][2], i[2]),
                          LAMBDA i : OrderLine(i[1][2], i[2], 1, 5)),
       new_order |-> <<>>,
       wild      |-> FALSE]

insert(table, key, row) == [k \in DOMAIN table \cup {key} |-> IF k = key THEN row ELSE table[k]]

update(table, key, row) == [table EXCEPT ![key] = row]

\* A find found nothing, and the transaction reads and writes through NULL.
Null(s) == [s EXCEPT !.wild = TRUE]

------------------------------------------------------------------------------
(* The transactions: the tables s after one with the parameters cells *)

Size(x) == IF x < 0 THEN -x ELSE x

\* The float next to the sum x of two: one of the multiples of 2^k with 24 bits at
\* most, in the middle the even one.
Round(x) ==
  IF Size(x) < EXACT THEN x
  ELSE LET k == CHOOSE k \in 1 .. 104 : EXACT * 2^(k - 1) <= Size(x) /\ Size(x) < EXACT * 2^k
           n == x \div 2^k
           r == 2 * (x % 2^k)
       IN  2^k * IF r < 2^k \/ (r = 2^k /\ n % 2 = 0) THEN n ELSE n + 1

\* A district with more money, or with one order more.
Credited(district, h_amount) ==
  [d_ytd |-> Round(district.d_ytd + h_amount), d_next_o_id |-> district.d_next_o_id]

Advanced(district) ==
  [d_ytd |-> district.d_ytd, d_next_o_id |-> district.d_next_o_id + 1]

\* The count is a byte: what its word carries goes to c_delivery_cnt, which nobody reads.
Paid(row, h_amount) ==
  [row EXCEPT !.c_balance = Round(@ - h_amount), !.c_ytd_payment = Round(@ + h_amount),
              !.c_payment_cnt = (@ + 1) % 256]

\* Mutant: only the districts are compared.
SameDistrict(cells) == cells[2] = cells[4]

\* The customer lives where she pays.
Local(cells) == cells[1] = cells[3] /\ cells[2] = cells[4]

payment(s, cells) ==
  LET d_key    == make_district_key(cells[1], cells[2])
      c_key    == make_customer_key(cells[3], cells[4], cells[5])
      h_amount == bytes_to_float(cells, 6)
  IN  IF d_key \notin DOMAIN s.district \/ (Local(cells) /\ c_key \notin DOMAIN s.customer)
      THEN Null(s)
      ELSE [s EXCEPT !.w_ytd = Round(@ + h_amount),
                     !.district = update(@, d_key, Credited(s.district[d_key], h_amount)),
                     !.customer = IF Local(cells) THEN update(@, c_key, Paid(s.customer[c_key], h_amount)) ELSE @]

\* The first three numbers are taken for c_w_id, c_d_id and c_id, and the next two
\* for the amount.
payment_remote(s, cells) ==
  LET c_key == make_customer_key(cells[1], cells[2], cells[3])
  IN  IF c_key \notin DOMAIN s.customer THEN Null(s)
      ELSE [s EXCEPT !.customer[c_key] = Paid(@, bytes_to_float(cells, 4))]

\* The array items: ol_cnt of them are set, those behind are what lies there.
Items(cells, garbage) ==
  [i \in 0 .. ORDER_MAX_OL_COUNT |->
     IF i < cells[4]
     THEN [i_id |-> bytes_to_uint32(cells, 5 + 4 * i), ol_supply_w_id |-> cells[7 + 4 * i],
           ol_quantity |-> cells[8 + 4 * i]]
     ELSE garbage]

\* Mutant: the same item in every line.
FirstItem(items, ol_number) == items[0]

\* The lines count from 1, the array from 0.
ItemOf(items, ol_number) == items[ol_number]

\* Mutant: the last number that was given out.
NextNumberAgain(district) == district.d_next_o_id - 1

\* Mutant: the number after the next.
NextNumberLate(district) == district.d_next_o_id + 1

NextNumber(district) == district.d_next_o_id

\* The table of order lines with the lines 1 .. ol_cnt of order o_id; of two under
\* one key the later one is left.
WithLines(table, cells, o_id, items) ==
  LET key(n)   == make_order_line_key(cells[1], cells[2], o_id, n)
      line(n)  == OrderLine(o_id, n, ItemOf(items, n).i_id, ItemOf(items, n).ol_quantity)
      Under(k) == {n \in 1 .. cells[4] : key(n) = k}
  IN  [k \in DOMAIN table \cup {key(n) : n \in 1 .. cells[4]} |->
         IF Under(k) = {} THEN table[k] ELSE line(Max(Under(k)))]

\* A customer that is not found is not used; an assert checks that all items
\* come from this warehouse.
new_order(s, cells, items) ==
  LET w_id   == cells[1]
      d_id   == cells[2]
      ol_cnt == cells[4]
      d_key  == make_district_key(w_id, d_id)
      o_id   == NextNumber(s.district[d_key])
  IN  IF \/ d_key \notin DOMAIN s.district
         \/ \E i \in 0 .. ol_cnt - 1 : items[i].ol_supply_w_id # w_id
      THEN Null(s)
      ELSE [s EXCEPT !.district  = update(@, d_key, Advanced(s.district[d_key])),
                     !.order     = insert(@, make_order_key(w_id, d_id, o_id),
                                          Order(w_id, d_id, cells[3], o_id, 0, ol_cnt)),
                     !.new_order = insert(@, make_new_order_key(w_id, d_id, o_id), <<w_id, d_id, o_id>>),
                     !.line      = WithLines(@, cells, o_id, items)]

\* Mutant: lines are counted from 0.
LinesFromZero(s, order) ==
  LET found(n) == make_order_line_key(order.o_w_id, order.o_d_id, order.o_id, n) \in DOMAIN s.line
  IN  {n \in 0 .. order.o_ol_cnt - 1 : \A m \in 0 .. n : found(m)}

\* The lines of an order that a search from 1 on finds before it misses one.
LinesFound(s, order) ==
  LET found(n) == make_order_line_key(order.o_w_id, order.o_d_id, order.o_id, n) \in DOMAIN s.line
  IN  {n \in 1 .. order.o_ol_cnt : \A m \in 1 .. n : found(m)}

\* The number of the customer is taken for that of the order.  No line has a
\* negative amount, so that the customer's credit is not touched.
order_status(s, cells) ==
  LET w_id  == bytes_to_uint32(cells, 1)
      d_id  == bytes_to_uint32(cells, 3)
      c_id  == bytes_to_uint32(cells, 5)
      c_key == make_customer_key(w_id, d_id, c_id)
      c     == s.customer[c_key]
      o_key == make_order_key(c.c_w_id, c.c_d_id, c.c_id)
  IN  IF c_key \notin DOMAIN s.customer \/ o_key \notin DOMAIN s.order
      THEN [s |-> Null(s), read |-> {}]
      ELSE [s |-> s, read |-> {[order |-> s.order[o_key], found |-> LinesFound(s, s.order[o_key])]}]

\* exec: the tables afterwards and what has been read.
Outcomes(s, sub) ==
  LET cells == sub.params.cells
      silent(t) == [s |-> t, read |-> {}]
  IN  CASE sub.type = "PAYMENT"        -> {silent(payment(s, cells))}
        [] sub.type = "PAYMENT_REMOTE" -> {silent(payment_remote(s, cells))}
        [] sub.type = "NEW_ORDER"      -> {silent(new_order(s, cells, Items(cells, g))) : g \in Garbage}
        [] sub.type = "ORDER_STATUS"   -> {order_status(s, cells)}
        [] OTHER                       -> {silent(s)}

------------------------------------------------------------------------------
Init ==
  /\ calls = <<>>
  /\ pending = [d \in Dpu |-> <<>>]
  /\ phase = "generating"
  /\ db = [d \in Dpu |-> Loaded(d + 1)]
  /\ done = [d \in Dpu |-> <<>>]

\* One turn of main's loop.  A failing assert ends the process; otherwise exec
\* queues the parts.
Generate(call) ==
  /\ phase = "generating"
  /\ Len(calls) < MaxTxs
  /\ calls' = Append(calls, call)
  /\ LET parts == Parts(call)
     IN  IF \E d \in DOMAIN parts : parts[d].params.failed
         THEN /\ phase' = "aborted"
              /\ UNCHANGED pending
         ELSE /\ pending' = [d \in Dpu |-> pending[d] \o IF d \in DOMAIN parts THEN <<parts[d]>> ELSE <<>>]
              /\ UNCHANGED phase
  /\ UNCHANGED <<db, done>>

\* Only now do the other threads start.
Start ==
  /\ phase = "generating"
  /\ phase' = "running"
  /\ UNCHANGED <<calls, pending, db, done>>

\* A DPU runs one of its parts.  Nothing is known of a DPU that has written
\* through NULL.
Exec(d, i) ==
  /\ phase = "running"
  /\ ~ db[d].wild
  /\ \E o \in Outcomes(db[d], pending[d][i]) :
       /\ db' = [db EXCEPT ![d] = o.s]
       /\ done' = [done EXCEPT ![d] = Append(@, [type |-> pending[d][i].type, call |-> pending[d][i].call,
                                                 read |-> o.read])]
  /\ pending' = [pending EXCEPT ![d] = RemoveAt(@, i)]
  /\ UNCHANGED <<calls, phase>>

Next == \/ \E call \in Drawn : Generate(call)
        \/ Start
        \/ \E d \in Dpu : \E i \in DOMAIN pending[d] : Exec(d, i)

Spec == Init /\ [][Next]_vars

------------------------------------------------------------------------------
\* What DPU d has run for calls of which Of holds.
Ran(d, type, Of(_)) == {i \in DOMAIN done[d] : done[d][i].type = type /\ Of(done[d][i].call)}

Received(d, Of(_)) == MapThenSumSet(LAMBDA i : done[d][i].call.h_amount, Ran(d, "PAYMENT", Of))

\* A book says what the sum is, as long as the sum is small enough.
Agrees(book, sum) == Size(sum) < EXACT => book = sum

(* The books of a DPU are what one gets by adding up the payments the        *)
(* client asked for: by warehouse, by district and, for customers who paid   *)
(* at home, by customer (application.c:86-114, decoding what                 *)
(* tpcc_client.cpp:58-65 encoded).  The sums are right below 2^24, however   *)
(* far the others are above, and payments are counted modulo 256.            *)
BooksAgree ==
  \A d \in {e \in Dpu : ~ db[e].wild} :
    LET w == d + 1
    IN  /\ Agrees(db[d].w_ytd, WAREHOUSE_INITIAL_YTD + Received(d, LAMBDA c : c.w_id = w))
        /\ \A i \in District :
             Agrees(db[d].district[make_district_key(w, i)].d_ytd,
                    DISTRICT_INITIAL_YTD + Received(d, LAMBDA c : c.w_id = w /\ c.d_id = i))
        /\ \A i \in District, j \in Customer :
             LET Of(c) == c.c_w_id = w /\ c.c_d_id = i /\ c.c_id = j
                 row   == db[d].customer[make_customer_key(w, i, j)]
             IN  /\ Agrees(row.c_ytd_payment, CUSTOMER_INITIAL_YTD_PAYMENT + Received(d, Of))
                 /\ Agrees(row.c_balance, CUSTOMER_INITIAL_BALANCE - Received(d, Of))
                 /\ row.c_payment_cnt
                      = (CUSTOMER_INITIAL_PAYMENT_CNT + Cardinality(Ran(d, "PAYMENT", Of))) % 256

\* The new orders DPU d has run for its district i, as places in done[d], and the
\* number of the one at place j.
Placed(d, i) ==
  {j \in DOMAIN done[d] : done[d][j].type = "NEW_ORDER" /\ done[d][j].call.d_id = i}

NumberOf(d, j) ==
  NUM_CUSTOMERS_PER_DISTRICT + Cardinality({k \in Placed(d, done[d][j].call.d_id) : k <= j})

\* Order o_id of district i is in the tables s of warehouse w, with all its lines.
Whole(s, w, i, o_id) ==
  LET key   == make_order_key(w, i, o_id)
      order == s.order[key]
  IN  /\ key \in DOMAIN s.order
      /\ order.o_d_id = i /\ order.o_id = o_id
      /\ \A n \in 1 .. order.o_ol_cnt :
           LET l_key == make_order_line_key(w, i, o_id, n)
               line  == s.line[l_key]
           IN  l_key \in DOMAIN s.line /\ line.ol_o_id = o_id /\ line.ol_number = n

(* The orders of a district are numbered without a gap behind those that     *)
(* were loaded, d_next_o_id is the next number, and no key is used for two   *)
(* rows: every order is in its table with the customer and the number of     *)
(* lines asked for, and with all its lines (lines 196-235, 376-405).         *)
OrdersPlaced ==
  \A d \in {e \in Dpu : ~ db[e].wild}, i \in District :
    LET w    == d + 1
        s    == db[d]
        last == NUM_CUSTOMERS_PER_DISTRICT + Cardinality(Placed(d, i))
    IN  /\ s.district[make_district_key(w, i)].d_next_o_id = last + 1
        /\ \A o_id \in 1 .. last : Whole(s, w, i, o_id)
        /\ \A j \in Placed(d, i) :
             LET o_id  == NumberOf(d, j)
                 call  == done[d][j].call
                 order == s.order[make_order_key(w, i, o_id)]
             IN  /\ order.o_c_id = call.c_id /\ order.o_ol_cnt = Len(call.items)
                 /\ make_new_order_key(w, i, o_id) \in DOMAIN s.new_order

(* The number a district will give to its next order is above those of all   *)
(* its orders, whatever the parameters said: numbers are not given twice.    *)
NumbersFresh ==
  \A d \in Dpu : \A k \in DOMAIN db[d].order :
    LET order == db[d].order[k]
        d_key == make_district_key(order.o_w_id, order.o_d_id)
    IN  d_key \in DOMAIN db[d].district /\ order.o_id < db[d].district[d_key].d_next_o_id

(* Line n of a new order has the item n + 1 that the client ordered; what    *)
(* the last line has is left to chance, and the first item is lost           *)
(* (lines 222-236).                                                          *)
ItemsShifted ==
  \A d \in {e \in Dpu : ~ db[e].wild}, i \in District :
    \A j \in Placed(d, i) :
      LET items == done[d][j].call.items
          line(n) == db[d].line[make_order_line_key(d + 1, i, NumberOf(d, j), n)]
      IN  \A n \in 1 .. Len(items) - 1 :
            line(n).ol_i_id = items[n + 1].i_id /\ line(n).ol_quantity = items[n + 1].quantity

(* No transaction uses a row it has not found, except payment_remote, which  *)
(* never finds its customer (lines 136-145): it takes the numbers of the     *)
(* place of payment for those of the customer.                               *)
NullIfRemote ==
  \A d \in Dpu : db[d].wild <=> \E i \in DOMAIN done[d] : done[d][i].type = "PAYMENT_REMOTE"

(* order_status always reads an order of its district with all its lines,    *)
(* whatever has been ordered since (lines 254-283).                          *)
StatusComplete ==
  \A d \in Dpu : \A i \in DOMAIN done[d] : \A r \in done[d][i].read :
    r.order.o_d_id = done[d][i].call.d_id /\ r.found = 1 .. r.order.o_ol_cnt

(* One new order whose parameters do not fit stops the program before any    *)
(* transaction is run (sub_transaction.cpp:92, tpcc.cpp:102-122): 8 bytes,   *)
(* 8 for each item and 15 for the time, all less than N_PARAMS.              *)
TooLong(call) == call.kind = "new_order" /\ 8 + 8 * Len(call.items) + 15 >= N_PARAMS

NothingRunsIfTooLong ==
  (\E k \in DOMAIN calls : TooLong(calls[k])) <=> phase = "aborted"
===============================================================================
