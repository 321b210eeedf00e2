--------------------------- MODULE ApplicationProofs ---------------------------
(***************************************************************************)
(* Proofs about Application: keys of different rows differ, with the       *)
(* numbers of app_common.h and keys of 32 bits, payment_remote looks for a *)
(* key no customer has, and no order number is given out twice.  Then what *)
(* the client encodes is what the DPUs decode: an order that does not fit  *)
(* stops the program, nothing but payment_remote ends at NULL, the sums of *)
(* money are those of the payments asked for, and every order has the next *)
(* number of its district, keeps all its lines, one item further on than   *)
(* drawn, and is found whole by order_status.                              *)
(***************************************************************************)
EXTENDS Application, NatLemmas, SequenceTheorems, FiniteSetTheorems

------------------------------------------------------------------------------
(* Keys *)

\* The constants of app_common.h and the width of a key.
AppCommon ==
  /\ MAX_WAREHOUSE_ID = 2600 /\ NUM_DISTRICTS_PER_WAREHOUSE = 10
  /\ NUM_CUSTOMERS_PER_DISTRICT = 3000 /\ ORDER_MAX_OL_COUNT = 15
  /\ UINT = 4294967296

LEMMA LineKey ==
  ASSUME AppCommon, NEW w \in Nat, NEW o \in Nat, NEW d \in Nat, NEW n \in Nat
  PROVE  make_order_line_key(w, d, o, n) = (390000 * o + 39000 * d + 15 * w + n) % UINT
<1>1. make_order_line_key(w, d, o, n) = ((((o * 10 + d) * 2600 + w) * 15) + n) % UINT
  <2>1. o * NUM_DISTRICTS_PER_WAREHOUSE + d = o * 10 + d
    BY SMT DEF AppCommon
  <2>2. (o * 10 + d) * MAX_WAREHOUSE_ID + w = (o * 10 + d) * 2600 + w
    BY SMT DEF AppCommon
  <2>3. ((o * 10 + d) * 2600 + w) * ORDER_MAX_OL_COUNT + n = ((o * 10 + d) * 2600 + w) * 15 + n
    BY SMT DEF AppCommon
  <2>. QED
    BY <2>1, <2>2, <2>3, SMT DEF AppCommon, make_order_line_key
<1>2. ((o * 10 + d) * 2600 + w) * 15 + n = 390000 * o + 39000 * d + 15 * w + n
  BY SMT
<1>. QED
  BY <1>1, <1>2, SMT

LEMMA SameKey32 ==
  ASSUME NEW a \in Nat, NEW b \in Nat, a % 4294967296 = b % 4294967296
  PROVE  \E q \in Int : a - b = 4294967296 * q
<1>1. a = 4294967296 * (a \div 4294967296) + (a % 4294967296)
  BY SMT
<1>2. b = 4294967296 * (b \div 4294967296) + (b % 4294967296)
  BY SMT
<1>3. (a \div 4294967296) \in Int /\ (b \div 4294967296) \in Int /\ (b % 4294967296) \in Int
  BY SMT
<1>4. \A x, y, z \in Int : (a = 4294967296 * x + z /\ b = 4294967296 * y + z) => a - b = 4294967296 * (x - y)
  BY SMT
<1>5. a - b = 4294967296 * ((a \div 4294967296) - (b \div 4294967296))
  BY <1>1, <1>2, <1>3, <1>4, SMT
<1>. QED
  BY <1>3, <1>5, SMT

\* The difference of two keys of one warehouse is never close to 2^32 or a small
\* multiple of it: order numbers up to a million wrap around without a clash.
LEMMA NoClash ==
  ASSUME NEW a \in Int, a >= -10000000, a <= 10000000, NEW b \in Int, b >= -14, b <= 14,
         NEW q \in Int, 39000 * a + b = 4294967296 * q
  PROVE  a = 0 /\ b = 0
<1>1. q >= -91 /\ q <= 91
  BY SMT
<1>2. b = 0
  BY <1>1, SMTT(60)
<1>. QED
  BY <1>1, <1>2, SMTT(60)

\* A line of an order of a district; 2^32 is left after 11012 orders.
IsLine(d_id, o_id, ol_number) ==
  /\ d_id \in Nat /\ 1 <= d_id /\ d_id <= 10
  /\ o_id \in Nat /\ o_id < 1000000
  /\ ol_number \in Nat /\ 1 <= ol_number /\ ol_number <= 15

(* No two lines of orders on a DPU have the same key, for order numbers up   *)
(* to a million (make_order_line_key, lines 400-405), although the line 15   *)
(* is no digit to the base 15 and the keys wrap around.                      *)
THEOREM OrderLineKeysDiffer ==
  ASSUME AppCommon, NEW w \in Nat, NEW o1, NEW d1, NEW n1, NEW o2, NEW d2, NEW n2,
         IsLine(d1, o1, n1), IsLine(d2, o2, n2),
         make_order_line_key(w, d1, o1, n1) = make_order_line_key(w, d2, o2, n2)
  PROVE  o1 = o2 /\ d1 = d2 /\ n1 = n2
<1>. DEFINE k1 == 390000 * o1 + 39000 * d1 + 15 * w + n1
            k2 == 390000 * o2 + 39000 * d2 + 15 * w + n2
            a  == 10 * (o1 - o2) + (d1 - d2)
            b  == n1 - n2
<1>1. k1 \in Nat /\ k2 \in Nat
  BY SMT DEF IsLine
<1>2. make_order_line_key(w, d1, o1, n1) = k1 % UINT
  BY LineKey, SMT DEF IsLine
<1>3. make_order_line_key(w, d2, o2, n2) = k2 % UINT
  BY LineKey, SMT DEF IsLine
<1>4. k1 % UINT = k2 % UINT
  <2>. HIDE DEF k1, k2
  <2>. QED  BY <1>2, <1>3, Zenon
<1>5. PICK q \in Int : k1 - k2 = 4294967296 * q
  <2>. HIDE DEF k1, k2
  <2>. QED  BY <1>1, <1>4, SameKey32, SMT DEF AppCommon
<1>6. 39000 * a + b = 4294967296 * q
  BY <1>5, SMT DEF IsLine
<1>7. /\ a \in Int /\ a >= -10000000 /\ a <= 10000000
      /\ b \in Int /\ b >= -14 /\ b <= 14
  BY SMT DEF IsLine
<1>8. a = 0 /\ b = 0
  <2>. HIDE DEF a, b
  <2>. QED  BY <1>6, <1>7, NoClash, SMT
<1>. QED
  BY <1>8, SMT DEF IsLine

\* A customer as far as numbers go.
IsCustomer(w, d, c) ==
  /\ w \in Nat /\ 1 <= w /\ w <= 2600
  /\ d \in Nat /\ 1 <= d /\ d <= 10
  /\ c \in Nat /\ 1 <= c /\ c <= 3000

LEMMA CustomerKey ==
  ASSUME AppCommon, NEW w, NEW d, NEW c, IsCustomer(w, d, c)
  PROVE  make_customer_key(w, d, c) = 30000 * w + 3000 * d + c
<1>1. w * NUM_DISTRICTS_PER_WAREHOUSE + d = w * 10 + d
  BY SMT DEF AppCommon, IsCustomer
<1>2. (w * 10 + d) * NUM_CUSTOMERS_PER_DISTRICT + c = (w * 10 + d) * 3000 + c
  BY SMT DEF AppCommon, IsCustomer
<1>3. (w * 10 + d) * 3000 + c = 30000 * w + 3000 * d + c
  BY SMT DEF IsCustomer
<1>4. (30000 * w + 3000 * d + c) % 4294967296 = 30000 * w + 3000 * d + c
  BY SMT DEF IsCustomer
<1>. QED
  BY <1>1, <1>2, <1>3, <1>4, SMT DEF AppCommon, make_customer_key

(* payment_remote takes the place of payment, warehouse w_id and district    *)
(* d_id, for that of the customer, and the customer's warehouse c_w_id for   *)
(* her number (lines 136-139): what it looks for (line 143) is the key of no *)
(* customer of c_w_id, whose DPU runs it, whatever was paid.                 *)
THEOREM RemoteMisses ==
  ASSUME AppCommon, NEW w_id, NEW d_id, NEW c_w_id, NEW i, NEW j, w_id # c_w_id,
         IsCustomer(w_id, d_id, c_w_id), IsCustomer(c_w_id, i, j)
  PROVE  make_customer_key(w_id, d_id, c_w_id) # make_customer_key(c_w_id, i, j)
<1>1. make_customer_key(w_id, d_id, c_w_id) = 30000 * w_id + 3000 * d_id + c_w_id
  BY CustomerKey, SMT
<1>2. make_customer_key(c_w_id, i, j) = 30000 * c_w_id + 3000 * i + j
  BY CustomerKey, SMT
<1>3. 30000 * w_id + 3000 * d_id + c_w_id # 30000 * c_w_id + 3000 * i + j
  BY SMT DEF IsCustomer
<1>. QED
  BY <1>1, <1>2, <1>3, SMT

------------------------------------------------------------------------------
(* Order numbers *)

\* The tables have their fields, and every order has a number below the next one
\* of its district.
TablesOK(s) ==
  /\ {"w_ytd", "district", "customer", "order", "new_order", "line", "wild"} \subseteq DOMAIN s
  /\ \A k \in DOMAIN s.district : s.district[k].d_next_o_id \in Int
  /\ \A k \in DOMAIN s.order :
       /\ s.order[k].o_id \in Int
       /\ make_district_key(s.order[k].o_w_id, s.order[k].o_d_id) \in DOMAIN s.district
       /\ s.order[k].o_id
            < s.district[make_district_key(s.order[k].o_w_id, s.order[k].o_d_id)].d_next_o_id

IInv == DOMAIN db = Dpu /\ \A d \in Dpu : TablesOK(db[d])

LEMMA NullKeeps ==
  ASSUME NEW s, TablesOK(s)
  PROVE  TablesOK(Null(s))
BY DEF TablesOK, Null

\* A district whose number does not go down keeps its orders below it.
LEMMA DistrictKeeps ==
  ASSUME NEW s, TablesOK(s), NEW t, DOMAIN t = DOMAIN s, t.order = s.order,
         DOMAIN t.district = DOMAIN s.district,
         \A k \in DOMAIN s.district : /\ t.district[k].d_next_o_id \in Int
                                      /\ s.district[k].d_next_o_id <= t.district[k].d_next_o_id
  PROVE  TablesOK(t)
<1>1. ASSUME NEW k \in DOMAIN t.order
      PROVE  /\ t.order[k].o_id \in Int
             /\ make_district_key(t.order[k].o_w_id, t.order[k].o_d_id) \in DOMAIN t.district
             /\ t.order[k].o_id
                  < t.district[make_district_key(t.order[k].o_w_id, t.order[k].o_d_id)].d_next_o_id
  <2>. DEFINE dk == make_district_key(s.order[k].o_w_id, s.order[k].o_d_id)
  <2>1. k \in DOMAIN s.order /\ t.order[k] = s.order[k]
    BY <1>1
  <2>2. dk \in DOMAIN s.district /\ s.order[k].o_id \in Int /\ s.order[k].o_id < s.district[dk].d_next_o_id
    BY <2>1 DEF TablesOK
  <2>3. /\ t.district[dk].d_next_o_id \in Int /\ s.district[dk].d_next_o_id \in Int
        /\ s.district[dk].d_next_o_id <= t.district[dk].d_next_o_id
    BY <2>2 DEF TablesOK
  <2>4. s.order[k].o_id < t.district[dk].d_next_o_id
    <3>. HIDE DEF dk
    <3>. QED  BY <2>2, <2>3
  <2>. QED
    BY <2>1, <2>2, <2>4
<1>. QED
  BY <1>1 DEF TablesOK

LEMMA PaymentKeeps ==
  ASSUME NEW s, TablesOK(s), NEW cells
  PROVE  TablesOK(payment(s, cells))
<1>. DEFINE dk == make_district_key(cells[1], cells[2])
            ck == make_customer_key(cells[3], cells[4], cells[5])
            h  == bytes_to_float(cells, 6)
            t  == [s EXCEPT !.w_ytd = Round(@ + h),
                            !.district = update(@, dk, Credited(s.district[dk], h)),
                            !.customer = IF Local(cells) THEN update(@, ck, Paid(s.customer[ck], h)) ELSE @]
<1>1. payment(s, cells) \in {Null(s), t}
  BY DEF payment
<1>2. TablesOK(t)
  <2>. HIDE DEF dk, ck, h
  <2>1. DOMAIN t = DOMAIN s /\ t.order = s.order /\ t.district = update(s.district, dk, Credited(s.district[dk], h))
    BY DEF TablesOK
  <2>. HIDE DEF t
  <2>2. DOMAIN t.district = DOMAIN s.district
    BY <2>1 DEF update
  <2>3. ASSUME NEW k \in DOMAIN s.district
        PROVE  t.district[k].d_next_o_id = s.district[k].d_next_o_id
    BY <2>1 DEF Credited, update
  <2>4. \A k \in DOMAIN s.district : s.district[k].d_next_o_id \in Int
    BY DEF TablesOK
  <2>. QED
    BY <2>1, <2>2, <2>3, <2>4, DistrictKeeps
<1>. QED
  BY <1>1, <1>2, NullKeeps

LEMMA RemoteKeeps ==
  ASSUME NEW s, TablesOK(s), NEW cells
  PROVE  TablesOK(payment_remote(s, cells))
<1>. DEFINE ck == make_customer_key(cells[1], cells[2], cells[3])
            t  == [s EXCEPT !.customer[ck] = Paid(@, bytes_to_float(cells, 4))]
<1>1. payment_remote(s, cells) \in {Null(s), t}
  BY DEF payment_remote
<1>2. TablesOK(t)
  BY DEF TablesOK
<1>. QED
  BY <1>1, <1>2, NullKeeps

LEMMA NewOrderKeeps ==
  ASSUME NEW s, TablesOK(s), NEW cells, NEW items
  PROVE  TablesOK(new_order(s, cells, items))
<1>. DEFINE dk  == make_district_key(cells[1], cells[2])
            id  == NextNumber(s.district[dk])
            ok  == make_order_key(cells[1], cells[2], id)
            row == Order(cells[1], cells[2], cells[3], id, 0, cells[4])
            t   == [s EXCEPT !.district  = update(@, dk, Advanced(s.district[dk])),
                             !.order     = insert(@, ok, row),
                             !.new_order = insert(@, make_new_order_key(cells[1], cells[2], id),
                                                  <<cells[1], cells[2], id>>),
                             !.line      = WithLines(@, cells, id, items)]
<1>1. new_order(s, cells, items) = Null(s)
        \/ (dk \in DOMAIN s.district /\ new_order(s, cells, items) = t)
  BY DEF new_order
<1>2. ASSUME dk \in DOMAIN s.district
      PROVE  TablesOK(t)
  <2>1. id \in Int /\ id = s.district[dk].d_next_o_id
    BY <1>2 DEF TablesOK, NextNumber
  <2>2. row.o_id = id /\ make_district_key(row.o_w_id, row.o_d_id) = dk
    BY DEF Order
  <2>. DEFINE u == [s EXCEPT !.district = update(@, dk, Advanced(s.district[dk]))]
  <2>3. /\ DOMAIN u = DOMAIN s /\ u.order = s.order
        /\ u.district = update(s.district, dk, Advanced(s.district[dk]))
    BY DEF TablesOK
  <2>4. /\ DOMAIN t = DOMAIN s /\ t.order = insert(s.order, ok, row)
        /\ t.district = u.district
    <3>. HIDE DEF dk, id, ok, row
    <3>. QED  BY DEF TablesOK
  <2>. HIDE DEF t, u, ok, row, id, dk
  <2>5. DOMAIN u.district = DOMAIN s.district /\ u.district[dk] = Advanced(s.district[dk])
    BY <1>2, <2>3 DEF update
  <2>6. \A k \in DOMAIN s.district \ {dk} : u.district[k] = s.district[k]
    BY <2>3 DEF update
  <2>7. u.district[dk].d_next_o_id = id + 1
    BY <2>1, <2>5 DEF Advanced
  <2>8. \A k \in DOMAIN s.district : /\ u.district[k].d_next_o_id \in Int
                                     /\ s.district[k].d_next_o_id <= u.district[k].d_next_o_id
    BY <2>1, <2>6, <2>7 DEF TablesOK
  <2>9. TablesOK(u)
    BY <2>3, <2>5, <2>8, DistrictKeeps
  <2>10. ASSUME NEW k \in DOMAIN t.order
         PROVE  /\ t.order[k].o_id \in Int
                /\ make_district_key(t.order[k].o_w_id, t.order[k].o_d_id) \in DOMAIN t.district
                /\ t.order[k].o_id
                     < t.district[make_district_key(t.order[k].o_w_id, t.order[k].o_d_id)].d_next_o_id
    <3>1. CASE k = ok
      <4>1. t.order[k] = row
        BY <2>4, <3>1 DEF insert
      <4>. QED
        BY <1>2, <2>1, <2>2, <2>4, <2>5, <2>7, <4>1
    <3>2. CASE k # ok
      <4>1. k \in DOMAIN u.order /\ t.order[k] = u.order[k]
        BY <2>3, <2>4, <3>2 DEF insert
      <4>. QED
        BY <2>4, <2>9, <4>1 DEF TablesOK
    <3>. QED
      BY <3>1, <3>2
  <2>11. \A k \in DOMAIN t.district : t.district[k].d_next_o_id \in Int
    BY <2>4, <2>9 DEF TablesOK
  <2>. QED
    BY <2>4, <2>10, <2>11 DEF TablesOK
<1>. QED
  BY <1>1, <1>2, NullKeeps

\* Whatever is run, and whatever its parameters are.
LEMMA OutcomeKeeps ==
  ASSUME NEW s, TablesOK(s), NEW sub, NEW o \in Outcomes(s, sub)
  PROVE  TablesOK(o.s)
<1>. DEFINE cells == sub.params.cells
<1>1. TablesOK(order_status(s, cells).s)
  BY NullKeeps DEF order_status
<1>2. \/ o.s \in {s, payment(s, cells), payment_remote(s, cells), order_status(s, cells).s}
      \/ \E items : o.s = new_order(s, cells, items)
  BY DEF Outcomes
<1>. QED
  BY <1>1, <1>2, PaymentKeeps, RemoteKeeps, NewOrderKeeps

LEMMA LoadedOK ==
  ASSUME NEW w
  PROVE  TablesOK(Loaded(w))
<1>. DEFINE s    == Loaded(w)
            key(i) == make_order_key(w, i[1], i[2])
            at(k)  == CHOOSE i \in District \X Customer : key(i) = k
<1>1. {"w_ytd", "district", "customer", "order", "new_order", "line", "wild"} \subseteq DOMAIN s
  BY DEF Loaded
<1>2. s.district = [k \in {make_district_key(w, d) : d \in District} |->
                      generate_district(CHOOSE d \in District : make_district_key(w, d) = k)]
  BY DEF Loaded, Table
<1>3. s.order = [k \in {key(i) : i \in District \X Customer} |->
                   Order(w, at(k)[1], at(k)[2], at(k)[2], 1, ORDER_MIN_OL_COUNT)]
  BY DEF Loaded, Table
<1>. HIDE DEF s
<1>4. /\ DOMAIN s.district = {make_district_key(w, d) : d \in District}
      /\ \A k \in DOMAIN s.district : s.district[k].d_next_o_id = NUM_CUSTOMERS_PER_DISTRICT + 1
  BY <1>2 DEF generate_district
<1>5. NUM_CUSTOMERS_PER_DISTRICT \in Nat
  BY KeysAssumption
<1>6. ASSUME NEW k \in DOMAIN s.order
      PROVE  /\ s.order[k].o_id \in Int
             /\ make_district_key(s.order[k].o_w_id, s.order[k].o_d_id) \in DOMAIN s.district
             /\ s.order[k].o_id
                  < s.district[make_district_key(s.order[k].o_w_id, s.order[k].o_d_id)].d_next_o_id
  <2>1. \E i \in District \X Customer : key(i) = k
    BY <1>3, <1>6
  <2>2. at(k) \in District \X Customer
    BY <2>1
  <2>3. s.order[k] = Order(w, at(k)[1], at(k)[2], at(k)[2], 1, ORDER_MIN_OL_COUNT)
    BY <1>3, <1>6
  <2>. HIDE DEF at, key
  <2>4. at(k)[1] \in District /\ at(k)[2] \in Int /\ at(k)[2] <= NUM_CUSTOMERS_PER_DISTRICT
    BY <2>2, <1>5 DEF Customer
  <2>5. s.order[k].o_id = at(k)[2] /\ s.order[k].o_w_id = w /\ s.order[k].o_d_id = at(k)[1]
    BY <2>3 DEF Order
  <2>6. make_district_key(w, at(k)[1]) \in DOMAIN s.district
    BY <1>4, <2>4
  <2>. QED
    BY <1>4, <1>5, <2>4, <2>5, <2>6
<1>7. \A k \in DOMAIN s.district : s.district[k].d_next_o_id \in Int
  BY <1>4, <1>5
<1>8. TablesOK(s)
  BY <1>1, <1>6, <1>7 DEF TablesOK
<1>. QED
  BY <1>8 DEF s

THEOREM TablesKept == Spec => []IInv
<1>1. Init => IInv
  BY LoadedOK DEF Init, IInv
<1>2. IInv /\ [Next]_vars => IInv'
  <2>. SUFFICES ASSUME IInv, [Next]_vars
                PROVE  IInv'
    OBVIOUS
  <2>1. CASE \E call \in Drawn : Generate(call)
    BY <2>1 DEF Generate, IInv
  <2>2. CASE Start
    BY <2>2 DEF Start, IInv
  <2>3. CASE \E d \in Dpu : \E i \in DOMAIN pending[d] : Exec(d, i)
    <3>0. PICK d \in Dpu : \E i \in DOMAIN pending[d] : Exec(d, i)
      BY <2>3
    <3>1. PICK i \in DOMAIN pending[d] : Exec(d, i)
      BY <3>0
    <3>2. PICK o \in Outcomes(db[d], pending[d][i]) : db' = [db EXCEPT ![d] = o.s]
      BY <3>1 DEF Exec
    <3>3. TablesOK(o.s)
      BY <3>2, OutcomeKeeps DEF IInv
    <3>4. DOMAIN db' = Dpu /\ \A e \in Dpu : db'[e] = IF e = d THEN o.s ELSE db[e]
      BY <3>2 DEF IInv
    <3>5. \A e \in Dpu : TablesOK(db'[e])
      BY <3>3, <3>4 DEF IInv
    <3>. QED
      BY <3>4, <3>5 DEF IInv
  <2>4. CASE UNCHANGED vars
    BY <2>4 DEF vars, IInv
  <2>. QED
    BY <2>1, <2>2, <2>3, <2>4 DEF Next
<1>. QED
  BY <1>1, <1>2, PTL DEF Spec

(* No number of an order is given out twice (new_order, lines 190-211; the   *)
(* numbers that were loaded included, lines 332-340), whatever the           *)
(* parameters say and whatever the constants are.                            *)
THEOREM NumbersNeverReused == Spec => []NumbersFresh
<1>1. IInv => NumbersFresh
  BY DEF IInv, TablesOK, NumbersFresh
<1>. QED
  BY <1>1, TablesKept, PTL

------------------------------------------------------------------------------
(* Parameters *)

\* The function a fold computes, on the subsets of the first n indexes.
IsFold(s, n, g) ==
  g = [S \in SUBSET (1 .. n) |-> IF S = {} THEN Empty ELSE add_param(g[S \ {Max(S)}], s[Max(S)])]

LEMMA FoldExists ==
  ASSUME NEW s, NEW n \in Nat
  PROVE  \E g : IsFold(s, n, g)
<1> DEFINE Ns == {k \in Nat : \E g : IsFold(s, k, g)}
<1>1. 0 \in Ns
  <2> DEFINE g == [S \in SUBSET (1 .. 0) |-> Empty]
  <2>1. 1 .. 0 = {}
    OBVIOUS
  <2>2. g = [S \in SUBSET (1 .. 0) |-> IF S = {} THEN Empty ELSE add_param(g[S \ {Max(S)}], s[Max(S)])]
    BY <2>1
  <2> QED  BY <2>2 DEF IsFold
<1>2. ASSUME NEW k \in Nat, k \in Ns
      PROVE  k + 1 \in Ns
  <2>1. PICK g : IsFold(s, k, g)
    BY <1>2
  <2> DEFINE h == [S \in SUBSET (1 .. k + 1) |->
                     IF k + 1 \in S THEN add_param(g[S \ {k + 1}], s[k + 1]) ELSE g[S]]
  <2>2. ASSUME NEW S \in SUBSET (1 .. k + 1)
        PROVE  h[S] = IF S = {} THEN Empty ELSE add_param(h[S \ {Max(S)}], s[Max(S)])
    <3>1. CASE k + 1 \in S
      <4>1. Max(S) = k + 1
        <5>1. S \subseteq Nat /\ \A m \in S : m <= k + 1
          OBVIOUS
        <5> QED  BY <3>1, <5>1, MaxUnique
      <4>2. S \ {k + 1} \in SUBSET (1 .. k + 1) /\ k + 1 \notin S \ {k + 1} /\ S # {}
        BY <3>1
      <4>3. h[S \ {k + 1}] = g[S \ {k + 1}]
        BY <4>2
      <4> QED  BY <3>1, <4>1, <4>2, <4>3
    <3>2. CASE k + 1 \notin S
      <4>1. S \in SUBSET (1 .. k)
        BY <3>2
      <4>2. h[S] = g[S]
        BY <3>2
      <4>3. g[S] = IF S = {} THEN Empty ELSE add_param(g[S \ {Max(S)}], s[Max(S)])
        BY <2>1, <4>1 DEF IsFold
      <4>4. S \ {Max(S)} \in SUBSET (1 .. k + 1) /\ k + 1 \notin S \ {Max(S)}
        BY <3>2
      <4>5. h[S \ {Max(S)}] = g[S \ {Max(S)}]
        BY <4>4
      <4> QED  BY <4>2, <4>3, <4>5
    <3> QED  BY <3>1, <3>2
  <2> HIDE DEF h
  <2>3. DOMAIN h = SUBSET (1 .. k + 1) /\ h = [S \in DOMAIN h |-> h[S]]
    BY DEF h
  <2>4. IsFold(s, k + 1, h)
    BY <2>2, <2>3 DEF IsFold
  <2> QED  BY <2>4
<1> HIDE DEF Ns
<1>3. n \in Ns
  BY <1>1, <1>2, SetInduction
<1> QED  BY <1>3 DEF Ns

\* e goes through what Encode(s) has after each field.
Encoding(s, e) ==
  /\ e[0] = Empty
  /\ \A k \in 1 .. Len(s) : e[k] = add_param(e[k - 1], s[k])
  /\ Encode(s) = e[Len(s)]

LEMMA EncodeSteps ==
  ASSUME NEW T, NEW s \in Seq(T)
  PROVE  \E e : Encoding(s, e)
<1>1. Len(s) \in Nat /\ DOMAIN s = 1 .. Len(s)
  OBVIOUS
<1> DEFINE F == CHOOSE g : IsFold(s, Len(s), g)
           e == [k \in 0 .. Len(s) |-> F[1 .. k]]
<1>2. Encode(s) = (CHOOSE g : g = [S \in SUBSET DOMAIN s |->
                                     IF S = {} THEN Empty ELSE add_param(g[S \ {Max(S)}], s[Max(S)])])[DOMAIN s]
  BY DEF Encode, FoldLeft, MapThenFoldSet
<1>3. Encode(s) = F[1 .. Len(s)]
  BY <1>1, <1>2 DEF IsFold
<1>4. IsFold(s, Len(s), F)
  BY <1>1, FoldExists
<1> HIDE DEF F
<1>5. \A S \in SUBSET (1 .. Len(s)) :
        F[S] = IF S = {} THEN Empty ELSE add_param(F[S \ {Max(S)}], s[Max(S)])
  BY <1>4 DEF IsFold
<1>6. e[0] = Empty
  <2>1. 1 .. 0 = {} /\ 0 \in 0 .. Len(s)
    BY <1>1
  <2>2. F[{}] = Empty
    BY <1>5
  <2> QED  BY <2>1, <2>2
<1>7. ASSUME NEW k \in 1 .. Len(s)
      PROVE  e[k] = add_param(e[k - 1], s[k])
  <2>1. Max(1 .. k) = k
    <3>1. 1 .. k \subseteq Nat /\ k \in 1 .. k /\ \A m \in 1 .. k : m <= k
      BY <1>1
    <3> QED  BY <3>1, MaxUnique
  <2>2. (1 .. k) \ {k} = 1 .. k - 1 /\ 1 .. k # {} /\ 1 .. k \in SUBSET (1 .. Len(s))
    <3>1. k \in Nat /\ 1 <= k /\ k <= Len(s)
      BY <1>1
    <3>2. \A m \in Int : m \in (1 .. k) \ {k} <=> m \in 1 .. k - 1
      BY <3>1
    <3>3. (1 .. k) \ {k} = 1 .. k - 1
      BY <3>1, <3>2
    <3>4. k \in 1 .. k /\ \A m \in 1 .. k : m \in 1 .. Len(s)
      BY <1>1, <3>1
    <3> QED  BY <3>3, <3>4
  <2>3. F[1 .. k] = add_param(F[1 .. k - 1], s[k])
    BY <1>5, <2>1, <2>2
  <2>4. k \in 0 .. Len(s) /\ k - 1 \in 0 .. Len(s)
    BY <1>1
  <2> QED  BY <2>3, <2>4
<1>8. e[Len(s)] = Encode(s)
  BY <1>1, <1>3
<1> HIDE DEF e
<1> QED  BY <1>6, <1>7, <1>8 DEF Encoding

\* Fields of b bytes have been added to p: too many, or their n cells are those of c.
Has(p, b, n, c) ==
  /\ {"n_params", "cells", "failed"} \subseteq DOMAIN p /\ p.failed \in BOOLEAN
  /\ p.failed => b >= N_PARAMS
  /\ ~ p.failed => /\ p.n_params = b /\ b < N_PARAMS
                   /\ p.cells \in Seq(Int) /\ Len(p.cells) = n
                   /\ \A i \in 1 .. n : p.cells[i] = c[i]

LEMMA HasNothing ==
  ASSUME NEW c
  PROVE  Has(Empty, 0, 0, c)
BY ParamsAssumption DEF Has, Empty

LEMMA Concat ==
  ASSUME NEW T, NEW a \in Seq(T), NEW b \in Seq(T)
  PROVE  /\ a \o b \in Seq(T) /\ Len(a \o b) = Len(a) + Len(b)
         /\ \A i \in 1 .. Len(a) : (a \o b)[i] = a[i]
         /\ \A j \in 1 .. Len(b) : (a \o b)[Len(a) + j] = b[j]
OBVIOUS

LEMMA HasMore ==
  ASSUME NEW p, NEW b \in Nat, NEW n \in Nat, NEW c, Has(p, b, n, c),
         NEW f, NEW m \in Nat, NEW k \in Nat, f.size = k, f.cells \in Seq(Int), Len(f.cells) = m,
         \A j \in 1 .. m : f.cells[j] = c[n + j]
  PROVE  Has(add_param(p, f), b + k, n + m, c)
<1>1. N_PARAMS \in Nat
  BY ParamsAssumption
<1>2. CASE p.failed
  <2>1. b + k >= N_PARAMS
    BY <1>1, <1>2 DEF Has
  <2>2. add_param(p, f).failed = TRUE
    BY <1>2 DEF add_param, Has
  <2>3. {"n_params", "cells", "failed"} \subseteq DOMAIN add_param(p, f)
    BY DEF add_param, Has
  <2> QED  BY <2>1, <2>2, <2>3 DEF Has
<1>3. CASE ~ p.failed
  <2>1. /\ p.n_params = b /\ p.cells \in Seq(Int) /\ Len(p.cells) = n
        /\ \A i \in 1 .. n : p.cells[i] = c[i]
        /\ {"n_params", "cells", "failed"} \subseteq DOMAIN p
    BY <1>3 DEF Has
  <2>2. CASE b + k >= N_PARAMS
    <3>1. add_param(p, f) = [p EXCEPT !.failed = TRUE]
      BY <2>1, <2>2 DEF add_param
    <3> QED  BY <2>1, <2>2, <3>1 DEF Has
  <2>3. CASE ~ b + k >= N_PARAMS
    <3> DEFINE q == add_param(p, f)
    <3>1. q = [p EXCEPT !.n_params = @ + f.size, !.cells = @ \o f.cells]
      BY <2>1, <2>3 DEF add_param
    <3>2. /\ q.n_params = b + k /\ q.cells = p.cells \o f.cells /\ q.failed = FALSE
          /\ DOMAIN q = DOMAIN p
      BY <1>3, <2>1, <3>1 DEF Has
    <3> HIDE DEF q
    <3>3. /\ p.cells \o f.cells \in Seq(Int) /\ Len(p.cells \o f.cells) = n + m
          /\ \A i \in 1 .. n : (p.cells \o f.cells)[i] = p.cells[i]
          /\ \A j \in 1 .. m : (p.cells \o f.cells)[n + j] = f.cells[j]
      <4> DEFINE x == p.cells
                 y == f.cells
      <4>1. x \in Seq(Int) /\ y \in Seq(Int)
        BY <2>1
      <4>2. Len(x) = n /\ Len(y) = m
        BY <2>1
      <4> HIDE DEF x, y
      <4>3. /\ x \o y \in Seq(Int) /\ Len(x \o y) = Len(x) + Len(y)
            /\ \A i \in 1 .. Len(x) : (x \o y)[i] = x[i]
            /\ \A j \in 1 .. Len(y) : (x \o y)[Len(x) + j] = y[j]
        BY <4>1, Concat
      <4>4. /\ x \o y \in Seq(Int) /\ Len(x \o y) = n + m
            /\ \A i \in 1 .. n : (x \o y)[i] = x[i]
            /\ \A j \in 1 .. m : (x \o y)[n + j] = y[j]
        BY <4>2, <4>3, Zenon
      <4> QED  BY <4>4 DEF x, y
    <3>4. ASSUME NEW i \in 1 .. n + m
          PROVE  (p.cells \o f.cells)[i] = c[i]
      <4>1. CASE i <= n
        <5>1. i \in 1 .. n
          BY <4>1
        <5> QED  BY <2>1, <3>3, <5>1
      <4>2. CASE i > n
        <5>1. i - n \in 1 .. m /\ n + (i - n) = i
          BY <4>2
        <5>2. (p.cells \o f.cells)[n + (i - n)] = f.cells[i - n]
          BY <3>3, <5>1, Zenon
        <5>3. f.cells[i - n] = c[n + (i - n)]
          BY <5>1, Zenon
        <5> QED  BY <5>1, <5>2, <5>3, Zenon
      <4>3. i <= n \/ i > n
        OBVIOUS
      <4> QED  BY <4>1, <4>2, <4>3, Zenon
    <3>5. b + k < N_PARAMS
      BY <1>1, <2>3
    <3>6. Has(q, b + k, n + m, c)
      BY <2>1, <3>2, <3>3, <3>4, <3>5 DEF Has
    <3> QED  BY <3>6 DEF q
  <2> QED  BY <2>2, <2>3
<1> QED  BY <1>2, <1>3

\* The powers of two that an exponent stands for.
Powers(e) ==
  /\ 2^e \in Nat \ {0} /\ 2^(23 - e) \in Nat \ {0}
  /\ 2^(e + 1) = 2 * 2^e /\ 2^e * 2^(23 - e) = 8388608

LEMMA PowersAre == \A e \in 0 .. 12 : Powers(e)
<1> SUFFICES ASSUME NEW e \in 0 .. 12
             PROVE  Powers(e)
  BY SMT
<1>0. CASE e = 0
  BY <1>0, SMT DEF Powers
<1>1. CASE e = 1
  BY <1>1, SMT DEF Powers
<1>2. CASE e = 2
  BY <1>2, SMT DEF Powers
<1>3. CASE e = 3
  BY <1>3, SMT DEF Powers
<1>4. CASE e = 4
  BY <1>4, SMT DEF Powers
<1>5. CASE e = 5
  BY <1>5, SMT DEF Powers
<1>6. CASE e = 6
  BY <1>6, SMT DEF Powers
<1>7. CASE e = 7
  BY <1>7, SMT DEF Powers
<1>8. CASE e = 8
  BY <1>8, SMT DEF Powers
<1>9. CASE e = 9
  BY <1>9, SMT DEF Powers
<1>10. CASE e = 10
  BY <1>10, SMT DEF Powers
<1>11. CASE e = 11
  BY <1>11, SMT DEF Powers
<1>12. CASE e = 12
  BY <1>12, SMT DEF Powers
<1> QED  BY <1>0, <1>1, <1>2, <1>3, <1>4, <1>5, <1>6, <1>7, <1>8, <1>9, <1>10, <1>11, <1>12, SMT

\* Numbers with one exponent have fractions of their own, all below 2^23.
LEMMA FractionIs ==
  ASSUME NEW p \in Nat \ {0}, NEW q \in Nat \ {0}, p * q = 8388608, NEW k \in Nat,
         NEW a \in Nat, NEW b \in Nat, p <= a, a < 2 * p
  PROVE  /\ k * 8388608 + (a - p) * q \in k * 8388608 .. (k + 1) * 8388608 - 1
         /\ (a - p) * q = (b - p) * q => a = b
<1> DEFINE x == a - p
<1>1. x \in Nat /\ x + 1 <= p
  BY SMT
<1> HIDE DEF x
<1>2. x * q >= 0 /\ x * q + q <= p * q
  BY <1>1, SMT
<1>3. k * 8388608 + x * q \in k * 8388608 .. (k + 1) * 8388608 - 1
  BY <1>1, <1>2, SMT
<1>4. (a - p) * q = (b - p) * q => a = b
  BY SMT
<1> QED  BY <1>3, <1>4, SMT DEF x

\* Two amounts are two floats.
LEMMA FloatsDiffer ==
  /\ \A a \in Amount : FloatBits(a) \in Nat
  /\ \A a, b \in Amount : FloatBits(a) = FloatBits(b) => a = b
<1>1. ASSUME NEW a \in Amount
      PROVE  /\ a \in Nat /\ Exponent(a) \in 0 .. 12
             /\ 2^Exponent(a) <= a /\ a < 2 * 2^Exponent(a)
  <2>1. a \in 1 .. 5000
    BY ParamsAssumption, SMT
  <2>2. \E e \in 0 .. 12 : 2^e <= a /\ a < 2^(e + 1)
    <3>1. /\ 2^0 = 1 /\ 2^1 = 2 /\ 2^2 = 4 /\ 2^3 = 8 /\ 2^4 = 16 /\ 2^5 = 32 /\ 2^6 = 64
          /\ 2^7 = 128 /\ 2^8 = 256 /\ 2^9 = 512 /\ 2^10 = 1024 /\ 2^11 = 2048 /\ 2^12 = 4096
          /\ 2^13 = 8192
      BY SMT
    <3>2. CASE 1 <= a /\ a < 2
      <4>1. 2^0 <= a /\ a < 2^(0 + 1)
        BY <3>1, <3>2, SMT
      <4> QED  BY <4>1, SMT
    <3>3. CASE 2 <= a /\ a < 4
      <4>1. 2^1 <= a /\ a < 2^(1 + 1)
        BY <3>1, <3>3, SMT
      <4> QED  BY <4>1, SMT
    <3>4. CASE 4 <= a /\ a < 8
      <4>1. 2^2 <= a /\ a < 2^(2 + 1)
        BY <3>1, <3>4, SMT
      <4> QED  BY <4>1, SMT
    <3>5. CASE 8 <= a /\ a < 16
      <4>1. 2^3 <= a /\ a < 2^(3 + 1)
        BY <3>1, <3>5, SMT
      <4> QED  BY <4>1, SMT
    <3>6. CASE 16 <= a /\ a < 32
      <4>1. 2^4 <= a /\ a < 2^(4 + 1)
        BY <3>1, <3>6, SMT
      <4> QED  BY <4>1, SMT
    <3>7. CASE 32 <= a /\ a < 64
      <4>1. 2^5 <= a /\ a < 2^(5 + 1)
        BY <3>1, <3>7, SMT
      <4> QED  BY <4>1, SMT
    <3>8. CASE 64 <= a /\ a < 128
      <4>1. 2^6 <= a /\ a < 2^(6 + 1)
        BY <3>1, <3>8, SMT
      <4> QED  BY <4>1, SMT
    <3>9. CASE 128 <= a /\ a < 256
      <4>1. 2^7 <= a /\ a < 2^(7 + 1)
        BY <3>1, <3>9, SMT
      <4> QED  BY <4>1, SMT
    <3>10. CASE 256 <= a /\ a < 512
      <4>1. 2^8 <= a /\ a < 2^(8 + 1)
        BY <3>1, <3>10, SMT
      <4> QED  BY <4>1, SMT
    <3>11. CASE 512 <= a /\ a < 1024
      <4>1. 2^9 <= a /\ a < 2^(9 + 1)
        BY <3>1, <3>11, SMT
      <4> QED  BY <4>1, SMT
    <3>12. CASE 1024 <= a /\ a < 2048
      <4>1. 2^10 <= a /\ a < 2^(10 + 1)
        BY <3>1, <3>12, SMT
      <4> QED  BY <4>1, SMT
    <3>13. CASE 2048 <= a /\ a < 4096
      <4>1. 2^11 <= a /\ a < 2^(11 + 1)
        BY <3>1, <3>13, SMT
      <4> QED  BY <4>1, SMT
    <3>14. CASE 4096 <= a /\ a < 8192
      <4>1. 2^12 <= a /\ a < 2^(12 + 1)
        BY <3>1, <3>14, SMT
      <4> QED  BY <4>1, SMT
    <3> QED  BY <2>1, <3>2, <3>3, <3>4, <3>5, <3>6, <3>7, <3>8, <3>9, <3>10, <3>11, <3>12, <3>13, <3>14, SMT
  <2>3. Exponent(a) \in 0 .. 12 /\ 2^Exponent(a) <= a /\ a < 2^(Exponent(a) + 1)
    BY <2>2, Zenon DEF Exponent
  <2>4. 2^(Exponent(a) + 1) = 2 * 2^Exponent(a)
    <3>1. Powers(Exponent(a))
      BY <2>3, PowersAre, SMT
    <3> QED  BY <3>1, SMT DEF Powers
  <2> QED  BY <2>1, <2>3, <2>4, SMT
<1>2. 2^23 = 8388608
  BY SMT
<1>3. ASSUME NEW a \in Amount, NEW b \in Amount
      PROVE  /\ FloatBits(a) \in (127 + Exponent(a)) * 8388608 .. (128 + Exponent(a)) * 8388608 - 1
             /\ Exponent(a) = Exponent(b) /\ FloatBits(a) = FloatBits(b) => a = b
  <2> DEFINE e == Exponent(a)
             p == 2^e
             q == 2^(23 - e)
  <2>1. /\ e \in 0 .. 12 /\ a \in Nat /\ b \in Nat /\ p <= a /\ a < 2 * p
        /\ p \in Nat \ {0} /\ q \in Nat \ {0} /\ p * q = 8388608
    <3>1. e \in 0 .. 12 /\ a \in Nat /\ b \in Nat /\ p <= a /\ a < 2 * p
      BY <1>1, SMT
    <3>2. Powers(e)
      BY <3>1, PowersAre, SMT
    <3> QED  BY <3>1, <3>2, SMT DEF Powers
  <2>2. FloatBits(a) = (127 + e) * 8388608 + (a - p) * q
    BY <1>2, SMT DEF FloatBits, Normal
  <2>3. Exponent(b) = e => FloatBits(b) = (127 + e) * 8388608 + (b - p) * q
    BY <1>2, SMT DEF FloatBits, Normal
  <2> HIDE DEF e, p, q
  <2>4. 127 + e \in Nat /\ 127 + e + 1 = 128 + e
    BY <2>1, SMT
  <2>5. /\ (127 + e) * 8388608 + (a - p) * q \in (127 + e) * 8388608 .. (127 + e + 1) * 8388608 - 1
        /\ (a - p) * q = (b - p) * q => a = b
    BY <2>1, <2>4, FractionIs, SMT
  <2>6. (a - p) * q \in Int /\ (b - p) * q \in Int /\ (127 + e) * 8388608 \in Int
    BY <2>1, SMT
  <2>7. e = Exponent(b) /\ FloatBits(a) = FloatBits(b) => a = b
    BY <2>2, <2>3, <2>5, <2>6, SMT
  <2>8. FloatBits(a) \in (127 + e) * 8388608 .. (128 + e) * 8388608 - 1
    BY <2>2, <2>4, <2>5, SMT
  <2> QED  BY <2>7, <2>8, SMT DEF e
<1>4. ASSUME NEW a \in Amount, NEW b \in Amount, FloatBits(a) = FloatBits(b)
      PROVE  a = b
  <2>1. Exponent(a) = Exponent(b)
    BY <1>1, <1>3, <1>4, SMT
  <2> QED  BY <1>3, <1>4, <2>1, SMT
<1>5. ASSUME NEW a \in Amount
      PROVE  FloatBits(a) \in Nat
  BY <1>1, <1>3, SMT
<1> QED  BY <1>4, <1>5, SMT

\* The four kinds of fields.
LEMMA FieldsAre ==
  /\ \A v \in Int : /\ uint16(v).size = 2 /\ uint16(v).cells \in Seq(Int) /\ Len(uint16(v).cells) = 1
                    /\ uint16(v).cells[1] = v
  /\ \A v \in Nat : /\ uint32(v).size = 4 /\ uint32(v).cells \in Seq(Int) /\ Len(uint32(v).cells) = 2
                    /\ uint32(v).cells[1] = v % CELL /\ uint32(v).cells[2] = v \div CELL
  /\ \A a \in Amount : /\ float(a).size = 4 /\ float(a).cells \in Seq(Int) /\ Len(float(a).cells) = 2
                       /\ float(a).cells[1] = FloatBits(a) % CELL
                       /\ float(a).cells[2] = FloatBits(a) \div CELL
  /\ now.size = 15 /\ now.cells \in Seq(Int) /\ Len(now.cells) = 7 /\ \A i \in 1 .. 7 : now.cells[i] = 0
<1>1. ASSUME NEW v \in Int
      PROVE  /\ uint16(v).size = 2 /\ uint16(v).cells \in Seq(Int) /\ Len(uint16(v).cells) = 1
             /\ uint16(v).cells[1] = v
  BY DEF uint16
<1>2. ASSUME NEW v \in Nat
      PROVE  /\ uint32(v).size = 4 /\ uint32(v).cells \in Seq(Int) /\ Len(uint32(v).cells) = 2
             /\ uint32(v).cells[1] = v % CELL /\ uint32(v).cells[2] = v \div CELL
  <2>1. v % CELL \in Int /\ v \div CELL \in Int
    BY DEF CELL
  <2> QED  BY <2>1 DEF uint32
<1>3. ASSUME NEW a \in Amount
      PROVE  /\ float(a).size = 4 /\ float(a).cells \in Seq(Int) /\ Len(float(a).cells) = 2
             /\ float(a).cells[1] = FloatBits(a) % CELL /\ float(a).cells[2] = FloatBits(a) \div CELL
  <2>1. FloatBits(a) % CELL \in Int /\ FloatBits(a) \div CELL \in Int
    BY FloatsDiffer DEF CELL
  <2> QED  BY <2>1 DEF float
<1>4. /\ now.size = 15 /\ now.cells \in Seq(Int) /\ Len(now.cells) = 7
      /\ \A i \in 1 .. 7 : now.cells[i] = 0
  BY DEF now, char
<1> QED  BY <1>1, <1>2, <1>3, <1>4

\* The same for fields of one and of two cells.
LEMMA HasOne ==
  ASSUME NEW p, NEW b \in Nat, NEW n \in Nat, NEW c, Has(p, b, n, c), NEW v \in Int, c[n + 1] = v
  PROVE  Has(add_param(p, uint16(v)), b + 2, n + 1, c)
<1>1. /\ uint16(v).size = 2 /\ uint16(v).cells \in Seq(Int) /\ Len(uint16(v).cells) = 1
      /\ uint16(v).cells[1] = v
  BY FieldsAre, Zenon
<1> DEFINE f == uint16(v)
<1> HIDE DEF f
<1>2. \A j \in 1 .. 1 : f.cells[j] = c[n + j]
  BY <1>1 DEF f
<1> QED  BY <1>1, <1>2, HasMore DEF f

LEMMA HasTwo ==
  ASSUME NEW p, NEW b \in Nat, NEW n \in Nat, NEW c, Has(p, b, n, c),
         NEW f, f.size = 4, f.cells \in Seq(Int), Len(f.cells) = 2,
         f.cells[1] = c[n + 1], f.cells[2] = c[n + 2]
  PROVE  Has(add_param(p, f), b + 4, n + 2, c)
<1>1. \A j \in 1 .. 2 : f.cells[j] = c[n + j]
  OBVIOUS
<1> QED  BY <1>1, HasMore

\* The parts of a payment have these parameters.
PaymentParams(call) ==
  Encode(<<uint16(call.w_id), uint16(call.d_id), uint16(call.c_w_id), uint16(call.c_d_id),
           uint16(call.c_id), float(call.h_amount), now>>)

\* The cells of a payment.
PaymentCells(call) ==
  [i \in 1 .. 14 |-> IF i <= 7 THEN <<call.w_id, call.d_id, call.c_w_id, call.c_d_id, call.c_id,
                                      FloatBits(call.h_amount) % CELL,
                                      FloatBits(call.h_amount) \div CELL>>[i] ELSE 0]

LEMMA PaymentEncoded ==
  ASSUME NEW call, call.w_id \in Int, call.d_id \in Int, call.c_w_id \in Int, call.c_d_id \in Int,
         call.c_id \in Int, call.h_amount \in Amount
  PROVE  Has(PaymentParams(call), 29, 14, PaymentCells(call))
<1> DEFINE f1 == uint16(call.w_id)
           f2 == uint16(call.d_id)
           f3 == uint16(call.c_w_id)
           f4 == uint16(call.c_d_id)
           f5 == uint16(call.c_id)
           f6 == float(call.h_amount)
           s  == <<f1, f2, f3, f4, f5, f6, now>>
           T  == {f1, f2, f3, f4, f5, f6, now}
           c  == PaymentCells(call)
<1>0. s \in Seq(T) /\ Len(s) = 7
  <2> HIDE DEF f1, f2, f3, f4, f5, f6
  <2> QED  OBVIOUS
<1>1. PICK e : Encoding(s, e)
  <2> HIDE DEF s, T
  <2> QED  BY <1>0, EncodeSteps
<1>2. /\ e[0] = Empty
      /\ e[1] = add_param(e[0], f1) /\ e[2] = add_param(e[1], f2) /\ e[3] = add_param(e[2], f3)
      /\ e[4] = add_param(e[3], f4) /\ e[5] = add_param(e[4], f5) /\ e[6] = add_param(e[5], f6)
      /\ e[7] = add_param(e[6], now)
      /\ PaymentParams(call) = e[7]
  <2>1. \A k \in 1 .. 7 : e[k] = add_param(e[k - 1], s[k])
    BY <1>0, <1>1 DEF Encoding
  <2>2. s[1] = f1 /\ s[2] = f2 /\ s[3] = f3 /\ s[4] = f4 /\ s[5] = f5 /\ s[6] = f6 /\ s[7] = now
    OBVIOUS
  <2>3. PaymentParams(call) = e[7] /\ e[0] = Empty
    BY <1>0, <1>1 DEF PaymentParams, Encoding
  <2> HIDE DEF s
  <2> QED  BY <2>1, <2>2, <2>3
<1>3. /\ c[1] = call.w_id /\ c[2] = call.d_id /\ c[3] = call.c_w_id /\ c[4] = call.c_d_id
      /\ c[5] = call.c_id
      /\ c[6] = FloatBits(call.h_amount) % CELL /\ c[7] = FloatBits(call.h_amount) \div CELL
      /\ \A i \in 1 .. 7 : c[7 + i] = 0
  BY DEF PaymentCells
<1>5. /\ now.size = 15 /\ now.cells \in Seq(Int) /\ Len(now.cells) = 7
      /\ \A i \in 1 .. 7 : now.cells[i] = c[7 + i]
  <2> HIDE DEF c
  <2> QED  BY <1>3, FieldsAre
<1> HIDE DEF s, c
<1>6. Has(e[0], 0, 0, c)
  BY <1>2, HasNothing
<1>7. Has(e[1], 2, 1, c)
  BY <1>2, <1>3, <1>6, HasOne
<1>8. Has(e[2], 4, 2, c)
  BY <1>2, <1>3, <1>7, HasOne
<1>9. Has(e[3], 6, 3, c)
  BY <1>2, <1>3, <1>8, HasOne
<1>10. Has(e[4], 8, 4, c)
  BY <1>2, <1>3, <1>9, HasOne
<1>11. Has(e[5], 10, 5, c)
  BY <1>2, <1>3, <1>10, HasOne
<1>12. Has(e[6], 14, 7, c)
  <2>1. f6.size = 4 /\ f6.cells \in Seq(Int) /\ Len(f6.cells) = 2 /\ f6.cells[1] = c[6] /\ f6.cells[2] = c[7]
    BY <1>3, FieldsAre
  <2> HIDE DEF f6
  <2>2. f6.cells[1] = c[5 + 1] /\ f6.cells[2] = c[5 + 2]
    BY <2>1
  <2>3. Has(add_param(e[5], f6), 10 + 4, 5 + 2, c)
    BY <1>11, <2>1, <2>2, HasTwo
  <2> QED  BY <1>2, <2>3
<1>13. Has(e[7], 29, 14, c)
  <2>1. Has(add_param(e[6], now), 14 + 15, 7 + 7, c)
    BY <1>5, <1>12, HasMore
  <2> QED  BY <1>2, <2>1
<1> QED  BY <1>2, <1>13 DEF c

\* The parameters of an order status.
StatusParams(call) == Encode(<<uint32(call.w_id), uint32(call.d_id), uint32(call.c_id)>>)

StatusCells(call) ==
  [i \in 1 .. 6 |-> <<call.w_id % CELL, call.w_id \div CELL, call.d_id % CELL, call.d_id \div CELL,
                      call.c_id % CELL, call.c_id \div CELL>>[i]]

LEMMA StatusEncoded ==
  ASSUME NEW call, call.w_id \in Nat, call.d_id \in Nat, call.c_id \in Nat
  PROVE  Has(StatusParams(call), 12, 6, StatusCells(call))
<1> DEFINE f1 == uint32(call.w_id)
           f2 == uint32(call.d_id)
           f3 == uint32(call.c_id)
           s  == <<f1, f2, f3>>
           T  == {f1, f2, f3}
           c  == StatusCells(call)
<1>0. s \in Seq(T) /\ Len(s) = 3
  <2> HIDE DEF f1, f2, f3
  <2> QED  OBVIOUS
<1>1. PICK e : Encoding(s, e)
  <2> HIDE DEF s, T
  <2> QED  BY <1>0, EncodeSteps
<1>2. /\ e[0] = Empty
      /\ e[1] = add_param(e[0], f1) /\ e[2] = add_param(e[1], f2) /\ e[3] = add_param(e[2], f3)
      /\ StatusParams(call) = e[3]
  <2>1. \A k \in 1 .. 3 : e[k] = add_param(e[k - 1], s[k])
    BY <1>0, <1>1 DEF Encoding
  <2>2. s[1] = f1 /\ s[2] = f2 /\ s[3] = f3
    OBVIOUS
  <2>3. StatusParams(call) = e[3] /\ e[0] = Empty
    BY <1>0, <1>1 DEF StatusParams, Encoding
  <2> HIDE DEF s
  <2> QED  BY <2>1, <2>2, <2>3
<1>3. /\ c[1] = call.w_id % CELL /\ c[2] = call.w_id \div CELL
      /\ c[3] = call.d_id % CELL /\ c[4] = call.d_id \div CELL
      /\ c[5] = call.c_id % CELL /\ c[6] = call.c_id \div CELL
  BY DEF StatusCells
<1> HIDE DEF s, c
<1>4. /\ f1.size = 4 /\ f1.cells \in Seq(Int) /\ Len(f1.cells) = 2
      /\ f1.cells[1] = c[0 + 1] /\ f1.cells[2] = c[0 + 2]
  <2>1. /\ f1.size = 4 /\ f1.cells \in Seq(Int) /\ Len(f1.cells) = 2
        /\ f1.cells[1] = call.w_id % CELL /\ f1.cells[2] = call.w_id \div CELL
    BY FieldsAre, Zenon
  <2> HIDE DEF f1
  <2> QED  BY <1>3, <2>1
<1>5. /\ f2.size = 4 /\ f2.cells \in Seq(Int) /\ Len(f2.cells) = 2
      /\ f2.cells[1] = c[2 + 1] /\ f2.cells[2] = c[2 + 2]
  <2>1. /\ f2.size = 4 /\ f2.cells \in Seq(Int) /\ Len(f2.cells) = 2
        /\ f2.cells[1] = call.d_id % CELL /\ f2.cells[2] = call.d_id \div CELL
    BY FieldsAre, Zenon
  <2> HIDE DEF f2
  <2> QED  BY <1>3, <2>1
<1>6. /\ f3.size = 4 /\ f3.cells \in Seq(Int) /\ Len(f3.cells) = 2
      /\ f3.cells[1] = c[4 + 1] /\ f3.cells[2] = c[4 + 2]
  <2>1. /\ f3.size = 4 /\ f3.cells \in Seq(Int) /\ Len(f3.cells) = 2
        /\ f3.cells[1] = call.c_id % CELL /\ f3.cells[2] = call.c_id \div CELL
    BY FieldsAre, Zenon
  <2> HIDE DEF f3
  <2> QED  BY <1>3, <2>1
<1> HIDE DEF f1, f2, f3
<1>7. Has(e[0], 0, 0, c)
  BY <1>2, HasNothing
<1>8. Has(add_param(e[0], f1), 0 + 4, 0 + 2, c)
  BY <1>4, <1>7, HasTwo
<1>9. Has(e[1], 4, 2, c)
  BY <1>2, <1>8
<1>10. Has(add_param(e[1], f2), 4 + 4, 2 + 2, c)
  BY <1>5, <1>9, HasTwo
<1>11. Has(e[2], 8, 4, c)
  BY <1>2, <1>10
<1>12. Has(add_param(e[2], f3), 8 + 4, 4 + 2, c)
  BY <1>6, <1>11, HasTwo
<1> QED  BY <1>2, <1>12 DEF c

\* What a sequence of n triples is when it is flattened.
LEMMA Flattened ==
  ASSUME NEW T, NEW n \in Nat \ {0}, NEW q \in Seq(Seq(T)), Len(q) = n, \A i \in 1 .. n : Len(q[i]) = 3
  PROVE  /\ FlattenSeq(q) \in Seq(T) /\ Len(FlattenSeq(q)) = 3 * n
         /\ \A j \in 1 .. n : \A r \in 1 .. 3 : FlattenSeq(q)[3 * (j - 1) + r] = q[j][r]
<1> DEFINE IsFlat(m, f) == f = [i \in 1 .. m |-> IF i = 1 THEN q[i] ELSE f[i - 1] \o q[i]]
           Ms == {m \in Nat : \E f : IsFlat(m, f)}
           F  == CHOOSE f : IsFlat(n, f)
<1>1. 0 \in Ms
  <2> DEFINE f == [i \in 1 .. 0 |-> 0]
  <2>1. f = [i \in 1 .. 0 |-> IF i = 1 THEN q[i] ELSE f[i - 1] \o q[i]]
    OBVIOUS
  <2> QED  BY <2>1
<1>2. ASSUME NEW m \in Nat, m \in Ms
      PROVE  m + 1 \in Ms
  <2>1. PICK f : IsFlat(m, f)
    BY <1>2
  <2> DEFINE g == [i \in 1 .. m + 1 |-> IF i = m + 1 THEN (IF i = 1 THEN q[1] ELSE f[m] \o q[i]) ELSE f[i]]
  <2>2. ASSUME NEW i \in 1 .. m + 1
        PROVE  g[i] = IF i = 1 THEN q[i] ELSE g[i - 1] \o q[i]
    <3>1. CASE i = m + 1
      <4>1. CASE i = 1
        BY <3>1, <4>1
      <4>2. CASE i # 1
        <5>1. i - 1 = m /\ m \in 1 .. m + 1 /\ m # m + 1
          BY <3>1, <4>2
        <5>2. g[i - 1] = f[m]
          BY <5>1
        <5> QED  BY <3>1, <4>2, <5>2
      <4> QED  BY <4>1, <4>2
    <3>2. CASE i # m + 1
      <4>1. i \in 1 .. m
        BY <3>2
      <4>2. f[i] = IF i = 1 THEN q[i] ELSE f[i - 1] \o q[i]
        BY <2>1, <4>1
      <4>3. CASE i # 1
        <5>1. i - 1 \in 1 .. m + 1 /\ i - 1 # m + 1
          BY <4>1, <4>3
        <5>2. g[i - 1] = f[i - 1]
          BY <5>1
        <5> QED  BY <3>2, <4>2, <4>3, <5>2
      <4>4. CASE i = 1
        BY <3>2, <4>2, <4>4
      <4> QED  BY <4>3, <4>4
    <3> QED  BY <3>1, <3>2
  <2>3. DOMAIN g = 1 .. m + 1 /\ g = [i \in 1 .. m + 1 |-> g[i]]
    OBVIOUS
  <2> HIDE DEF g
  <2>4. IsFlat(m + 1, g)
    BY <2>2, <2>3
  <2> HIDE DEF IsFlat
  <2> QED  BY <2>4
<1>3. n \in Ms
  <2> HIDE DEF Ms
  <2> QED  BY <1>1, <1>2, SetInduction
<1>4. FlattenSeq(q) = F[n]
  BY DEF FlattenSeq
<1>5. IsFlat(n, F)
  BY <1>3
<1> HIDE DEF F
<1>6. \A i \in 1 .. n : F[i] = IF i = 1 THEN q[i] ELSE F[i - 1] \o q[i]
  BY <1>5
<1> DEFINE Good(m) == /\ F[m] \in Seq(T) /\ Len(F[m]) = 3 * m
                      /\ \A j \in 1 .. m : \A r \in 1 .. 3 : F[m][3 * (j - 1) + r] = q[j][r]
           Ks == {m \in Nat : m \in 1 .. n => Good(m)}
<1>7. \A i \in 1 .. n : q[i] \in Seq(T) /\ Len(q[i]) = 3
  OBVIOUS
<1>8. 0 \in Ks
  OBVIOUS
<1>9. ASSUME NEW m \in Nat, m \in Ks
      PROVE  m + 1 \in Ks
  <2> SUFFICES ASSUME m + 1 \in 1 .. n
               PROVE  Good(m + 1)
    <3> HIDE DEF Good
    <3> QED  OBVIOUS
  <2>1. CASE m = 0
    <3>1. F[1] = q[1] /\ 1 \in 1 .. n /\ m + 1 = 1
      <4> HIDE DEF Good, Ks
      <4>1. m + 1 = 1
        BY <2>1
      <4>2. 1 \in 1 .. n
        BY <4>1, Zenon
      <4>3. F[1] = q[1]
        BY <1>6, <4>2, Zenon
      <4> QED  BY <4>1, <4>2, <4>3, Zenon
    <3>2. \A j \in 1 .. 1 : \A r \in 1 .. 3 : F[1][3 * (j - 1) + r] = q[j][r]
      BY <3>1
    <3>3. F[1] \in Seq(T) /\ Len(F[1]) = 3 * 1
      BY <1>7, <3>1
    <3> QED  BY <3>1, <3>2, <3>3
  <2>2. CASE m # 0
    <3>1. m \in 1 .. n /\ F[m + 1] = F[m] \o q[m + 1]
      <4>1. m + 1 # 1 /\ (m + 1) - 1 = m /\ m \in 1 .. n
        BY <2>2
      <4> QED  BY <1>6, <4>1
    <3>2. Good(m)
      BY <1>9, <3>1
    <3> DEFINE a == F[m]
               b == q[m + 1]
    <3>3. a \in Seq(T) /\ b \in Seq(T)
      BY <1>7, <3>2
    <3>8. Len(a) = 3 * m /\ Len(b) = 3
      BY <1>7, <3>2
    <3> HIDE DEF a, b
    <3>4. /\ a \o b \in Seq(T) /\ Len(a \o b) = 3 * m + 3
          /\ \A i \in 1 .. 3 * m : (a \o b)[i] = a[i]
          /\ \A r \in 1 .. 3 : (a \o b)[3 * m + r] = b[r]
      <4>1. /\ a \o b \in Seq(T) /\ Len(a \o b) = Len(a) + Len(b)
            /\ \A i \in 1 .. Len(a) : (a \o b)[i] = a[i]
            /\ \A r \in 1 .. Len(b) : (a \o b)[Len(a) + r] = b[r]
        BY <3>3, Concat
      <4> QED  BY <3>8, <4>1, Zenon
    <3>5. ASSUME NEW j \in 1 .. m + 1, NEW r \in 1 .. 3
          PROVE  (a \o b)[3 * (j - 1) + r] = q[j][r]
      <4>1. CASE j = m + 1
        <5>1. 3 * (j - 1) + r = 3 * m + r
          BY <4>1
        <5> QED  BY <3>4, <4>1, <5>1 DEF b
      <4>2. CASE j # m + 1
        <5>1. j \in 1 .. m /\ 3 * (j - 1) + r \in 1 .. 3 * m
          BY <4>2
        <5>2. a[3 * (j - 1) + r] = q[j][r]
          BY <3>2, <5>1 DEF a
        <5> QED  BY <3>4, <5>1, <5>2
      <4> QED  BY <4>1, <4>2
    <3>6. F[m + 1] = a \o b /\ 3 * (m + 1) = 3 * m + 3
      BY <3>1 DEF a, b
    <3>7. Good(m + 1) <=> /\ a \o b \in Seq(T) /\ Len(a \o b) = 3 * (m + 1)
                          /\ \A j \in 1 .. m + 1 : \A r \in 1 .. 3 : (a \o b)[3 * (j - 1) + r] = q[j][r]
      BY <3>6, Zenon
    <3> HIDE DEF Good
    <3> QED  BY <3>4, <3>5, <3>6, <3>7, Zenon
  <2> QED  BY <2>1, <2>2
<1> HIDE DEF Ks, Good
<1>10. n \in Ks
  BY <1>8, <1>9, SetInduction
<1>11. Good(n)
  BY <1>10 DEF Ks
<1> QED  BY <1>4, <1>11 DEF Good

\* The parameters of a new order.
ItemFields(call, i) ==
  <<uint32(call.items[i].i_id), uint16(call.w_id), uint16(call.items[i].quantity)>>

OrderParams(call) ==
  Encode(<<uint16(call.w_id), uint16(call.d_id), uint16(call.c_id), uint16(Len(call.items))>>
           \o FlattenSeq([i \in DOMAIN call.items |-> ItemFields(call, i)]) \o <<now>>)

OrderCell(call, i) ==
  IF i <= 4 THEN <<call.w_id, call.d_id, call.c_id, Len(call.items)>>[i]
  ELSE IF i <= 4 + 4 * Len(call.items)
       THEN LET item == call.items[(i - 1) \div 4]
            IN  <<item.i_id % CELL, item.i_id \div CELL, call.w_id, item.quantity>>[((i - 1) % 4) + 1]
       ELSE 0

OrderCells(call) == [i \in 1 .. 11 + 4 * Len(call.items) |-> OrderCell(call, i)]

\* A new order as far as its numbers go.
IsOrder(call, n) ==
  /\ call.w_id \in Nat /\ call.d_id \in Nat /\ call.c_id \in Nat
  /\ n \in Nat \ {0} /\ Len(call.items) = n /\ DOMAIN call.items = 1 .. n
  /\ \A j \in 1 .. n : call.items[j].i_id \in Nat /\ call.items[j].quantity \in Nat

LEMMA OrderCellsAre ==
  ASSUME NEW call, NEW n, IsOrder(call, n), NEW c, c = OrderCells(call)
  PROVE  /\ c[1] = call.w_id /\ c[2] = call.d_id /\ c[3] = call.c_id /\ c[4] = n
         /\ \A j \in 1 .. n : /\ c[4 * j + 1] = call.items[j].i_id % CELL
                              /\ c[4 * j + 2] = call.items[j].i_id \div CELL
                              /\ c[4 * j + 3] = call.w_id
                              /\ c[4 * j + 4] = call.items[j].quantity
         /\ \A i \in 1 .. 7 : c[4 + 4 * n + i] = 0
<1>1. /\ n \in Nat \ {0} /\ Len(call.items) = n
      /\ \A i \in 1 .. 11 + 4 * n : c[i] = OrderCell(call, i)
  BY DEF IsOrder, OrderCells
<1>2. c[1] = call.w_id /\ c[2] = call.d_id /\ c[3] = call.c_id /\ c[4] = n
  <2>1. c[1] = OrderCell(call, 1) /\ c[2] = OrderCell(call, 2) /\ c[3] = OrderCell(call, 3) /\ c[4] = OrderCell(call, 4)
    BY <1>1
  <2> QED  BY <1>1, <2>1 DEF OrderCell
<1>3. ASSUME NEW j \in 1 .. n
      PROVE  /\ c[4 * j + 1] = call.items[j].i_id % CELL
             /\ c[4 * j + 2] = call.items[j].i_id \div CELL
             /\ c[4 * j + 3] = call.w_id
             /\ c[4 * j + 4] = call.items[j].quantity
  <2> DEFINE item == call.items[j]
             tuple == <<item.i_id % CELL, item.i_id \div CELL, call.w_id, item.quantity>>
  <2>1. ASSUME NEW r \in 1 .. 4
        PROVE  c[4 * j + r] = tuple[r]
    <3>1. /\ 4 * j + r \in 1 .. 11 + 4 * n /\ ~ 4 * j + r <= 4 /\ 4 * j + r <= 4 + 4 * n
          /\ (4 * j + r - 1) \div 4 = j /\ ((4 * j + r - 1) % 4) + 1 = r
      BY <1>1
    <3> DEFINE k == 4 * j + r
    <3> HIDE DEF k
    <3>2. c[k] = OrderCell(call, k)
      BY <1>1, <3>1 DEF k
    <3>3. OrderCell(call, k) = tuple[r]
      BY <1>1, <3>1 DEF OrderCell, k
    <3> QED  BY <3>2, <3>3 DEF k
  <2>2. tuple[1] = item.i_id % CELL /\ tuple[2] = item.i_id \div CELL /\ tuple[3] = call.w_id /\ tuple[4] = item.quantity
    OBVIOUS
  <2> HIDE DEF tuple
  <2> QED  BY <2>1, <2>2
<1>4. ASSUME NEW i \in 1 .. 7
      PROVE  c[4 + 4 * n + i] = 0
  <2>1. 4 + 4 * n + i \in 1 .. 11 + 4 * n /\ ~ 4 + 4 * n + i <= 4 /\ ~ 4 + 4 * n + i <= 4 + 4 * n
    BY <1>1
  <2>2. OrderCell(call, 4 + 4 * n + i) = 0
    BY <1>1, <2>1 DEF OrderCell
  <2> QED  BY <1>1, <2>1, <2>2
<1> QED  BY <1>2, <1>3, <1>4

Field == [size : Nat, cells : Seq(Int)]

LEMMA FieldsTyped ==
  /\ \A v \in Nat : uint16(v) \in Field /\ uint32(v) \in Field
  /\ now \in Field
<1>1. ASSUME NEW v \in Nat
      PROVE  uint16(v) \in Field
  BY DEF uint16, Field
<1>2. ASSUME NEW v \in Nat
      PROVE  uint32(v) \in Field
  <2>1. v % CELL \in Int /\ v \div CELL \in Int
    BY DEF CELL
  <2> QED  BY <2>1 DEF uint32, Field
<1>3. now \in Field
  <2>1. now = [size |-> 15, cells |-> now.cells]
    BY DEF now, char
  <2>2. now.cells \in Seq(Int)
    BY FieldsAre
  <2> QED  BY <2>1, <2>2 DEF Field
<1> QED  BY <1>1, <1>2, <1>3

\* The fields of a new order: four, three for each item, and the time.
LEMMA OrderFields ==
  ASSUME NEW call, NEW n, IsOrder(call, n)
  PROVE  \E s \in Seq(Field) :
           /\ OrderParams(call) = Encode(s)
           /\ Len(s) = 3 * n + 5
           /\ s[1] = uint16(call.w_id) /\ s[2] = uint16(call.d_id) /\ s[3] = uint16(call.c_id)
           /\ s[4] = uint16(n)
           /\ \A j \in 1 .. n : \A r \in 1 .. 3 : s[3 * (j - 1) + 4 + r] = ItemFields(call, j)[r]
           /\ s[3 * n + 5] = now
<1> DEFINE h == <<uint16(call.w_id), uint16(call.d_id), uint16(call.c_id), uint16(n)>>
           q == [i \in 1 .. n |-> ItemFields(call, i)]
           F == FlattenSeq(q)
           hF == h \o F
           s == hF \o <<now>>
<1>1. n \in Nat \ {0} /\ Len(call.items) = n /\ DOMAIN call.items = 1 .. n
  BY DEF IsOrder
<1>2. OrderParams(call) = Encode(s)
  BY <1>1 DEF OrderParams
<1>3. /\ h \in Seq(Field) /\ Len(h) = 4
      /\ h[1] = uint16(call.w_id) /\ h[2] = uint16(call.d_id) /\ h[3] = uint16(call.c_id) /\ h[4] = uint16(n)
  <2>1. uint16(call.w_id) \in Field /\ uint16(call.d_id) \in Field /\ uint16(call.c_id) \in Field /\ uint16(n) \in Field
    BY FieldsTyped DEF IsOrder
  <2> QED  BY <2>1
<1>4. /\ q \in Seq(Seq(Field)) /\ Len(q) = n /\ \A i \in 1 .. n : q[i] = ItemFields(call, i) /\ Len(q[i]) = 3
  <2>1. ASSUME NEW i \in 1 .. n
        PROVE  ItemFields(call, i) \in Seq(Field) /\ Len(ItemFields(call, i)) = 3
    <3>1. /\ uint32(call.items[i].i_id) \in Field /\ uint16(call.w_id) \in Field
          /\ uint16(call.items[i].quantity) \in Field
      BY FieldsTyped DEF IsOrder
    <3> QED  BY <3>1 DEF ItemFields
  <2>2. \A i \in 1 .. n : q[i] = ItemFields(call, i)
    OBVIOUS
  <2> QED  BY <1>1, <2>1, <2>2
<1> HIDE DEF q
<1>5. /\ F \in Seq(Field) /\ Len(F) = 3 * n
      /\ \A j \in 1 .. n : \A r \in 1 .. 3 : F[3 * (j - 1) + r] = q[j][r]
  BY <1>1, <1>4, Flattened
<1> HIDE DEF F, h
<1>6. /\ hF \in Seq(Field) /\ Len(hF) = Len(h) + Len(F)
      /\ \A i \in 1 .. Len(h) : hF[i] = h[i]
      /\ \A j \in 1 .. Len(F) : hF[Len(h) + j] = F[j]
  <2>1. h \in Seq(Field) /\ F \in Seq(Field)
    BY <1>3, <1>5
  <2> QED  BY <2>1, Concat
<1> HIDE DEF hF
<1>7. <<now>> \in Seq(Field) /\ Len(<<now>>) = 1 /\ <<now>>[1] = now
  BY FieldsTyped
<1>8. /\ s \in Seq(Field) /\ Len(s) = Len(hF) + Len(<<now>>)
      /\ \A i \in 1 .. Len(hF) : s[i] = hF[i]
      /\ \A j \in 1 .. Len(<<now>>) : s[Len(hF) + j] = <<now>>[j]
  <2>1. <<now>> \in Seq(Field) /\ hF \in Seq(Field)
    BY <1>6, <1>7
  <2> DEFINE nw == <<now>>
  <2> HIDE DEF nw
  <2>2. /\ hF \o nw \in Seq(Field) /\ Len(hF \o nw) = Len(hF) + Len(nw)
        /\ \A i \in 1 .. Len(hF) : (hF \o nw)[i] = hF[i]
        /\ \A j \in 1 .. Len(nw) : (hF \o nw)[Len(hF) + j] = nw[j]
    <3>1. nw \in Seq(Field) /\ hF \in Seq(Field)
      BY <2>1 DEF nw
    <3> QED  BY <3>1, Concat
  <2> QED  BY <2>2 DEF nw
<1> HIDE DEF s
<1>9. /\ Len(hF) = 4 + 3 * n
      /\ \A i \in 1 .. 4 : hF[i] = h[i]
      /\ \A j \in 1 .. 3 * n : hF[4 + j] = F[j]
  BY <1>3, <1>5, <1>6, Zenon
<1>10. /\ Len(s) = 4 + 3 * n + 1
       /\ \A i \in 1 .. 4 + 3 * n : s[i] = hF[i]
       /\ \A j \in 1 .. 1 : s[4 + 3 * n + j] = <<now>>[j]
  BY <1>7, <1>8, <1>9, Zenon
<1>11. s[1] = h[1] /\ s[2] = h[2] /\ s[3] = h[3] /\ s[4] = h[4]
  <2>1. \A i \in 1 .. 4 : i \in 1 .. 4 + 3 * n
    BY <1>1
  <2>2. \A i \in 1 .. 4 : s[i] = h[i]
    BY <1>9, <1>10, <2>1
  <2> QED  BY <2>2
<1>12. ASSUME NEW j \in 1 .. n, NEW r \in 1 .. 3
       PROVE  s[3 * (j - 1) + 4 + r] = ItemFields(call, j)[r]
  <2> DEFINE i == 3 * (j - 1) + r
  <2>1. i \in 1 .. 3 * n /\ 4 + i \in 1 .. 4 + 3 * n /\ 3 * (j - 1) + 4 + r = 4 + i
    BY <1>1
  <2>2. F[i] = ItemFields(call, j)[r]
    BY <1>4, <1>5
  <2> HIDE DEF i
  <2>3. s[4 + i] = F[i]
    BY <1>9, <1>10, <2>1
  <2> QED  BY <2>1, <2>2, <2>3
<1>13. s[3 * n + 5] = now /\ Len(s) = 3 * n + 5
  <2>1. 4 + 3 * n + 1 = 3 * n + 5 /\ 1 \in 1 .. 1
    BY <1>1
  <2>2. s[4 + 3 * n + 1] = <<now>>[1]
    BY <1>10, <2>1
  <2> QED  BY <1>7, <1>10, <2>1, <2>2
<1> QED  BY <1>2, <1>3, <1>8, <1>11, <1>12, <1>13

LEMMA OrderEncoded ==
  ASSUME NEW call, NEW n, IsOrder(call, n)
  PROVE  Has(OrderParams(call), 23 + 8 * n, 11 + 4 * n, OrderCells(call))
<1> DEFINE c == OrderCells(call)
<1>1. PICK s \in Seq(Field) :
        /\ OrderParams(call) = Encode(s)
        /\ Len(s) = 3 * n + 5
        /\ s[1] = uint16(call.w_id) /\ s[2] = uint16(call.d_id) /\ s[3] = uint16(call.c_id)
        /\ s[4] = uint16(n)
        /\ \A j \in 1 .. n : \A r \in 1 .. 3 : s[3 * (j - 1) + 4 + r] = ItemFields(call, j)[r]
        /\ s[3 * n + 5] = now
  BY OrderFields
<1>2. PICK e : Encoding(s, e)
  BY EncodeSteps
<1>3. /\ n \in Nat \ {0} /\ call.w_id \in Nat /\ call.d_id \in Nat /\ call.c_id \in Nat
      /\ \A j \in 1 .. n : call.items[j].i_id \in Nat /\ call.items[j].quantity \in Nat
  BY DEF IsOrder
<1>4. /\ c[1] = call.w_id /\ c[2] = call.d_id /\ c[3] = call.c_id /\ c[4] = n
      /\ \A j \in 1 .. n : /\ c[4 * j + 1] = call.items[j].i_id % CELL
                           /\ c[4 * j + 2] = call.items[j].i_id \div CELL
                           /\ c[4 * j + 3] = call.w_id
                           /\ c[4 * j + 4] = call.items[j].quantity
      /\ \A i \in 1 .. 7 : c[4 + 4 * n + i] = 0
  BY OrderCellsAre
<1> HIDE DEF c
<1>5. /\ e[0] = Empty /\ OrderParams(call) = e[3 * n + 5]
      /\ \A k \in 1 .. 3 * n + 5 : e[k] = add_param(e[k - 1], s[k])
  BY <1>1, <1>2 DEF Encoding
<1>6. /\ e[1] = add_param(e[0], s[1]) /\ e[2] = add_param(e[1], s[2])
      /\ e[3] = add_param(e[2], s[3]) /\ e[4] = add_param(e[3], s[4])
  <2>1. 1 \in 1 .. 3 * n + 5 /\ 2 \in 1 .. 3 * n + 5 /\ 3 \in 1 .. 3 * n + 5 /\ 4 \in 1 .. 3 * n + 5
    BY <1>3
  <2>2. e[1] = add_param(e[1 - 1], s[1]) /\ e[2] = add_param(e[2 - 1], s[2])
        /\ e[3] = add_param(e[3 - 1], s[3]) /\ e[4] = add_param(e[4 - 1], s[4])
    BY <1>5, <2>1
  <2> QED  BY <2>2
<1>7. Has(e[0], 0, 0, c)
  BY <1>5, HasNothing
<1>8. Has(e[1], 2, 1, c)
  <2>1. call.w_id \in Int /\ c[0 + 1] = call.w_id
    BY <1>3, <1>4
  <2>2. Has(add_param(e[0], uint16(call.w_id)), 0 + 2, 0 + 1, c)
    BY <1>7, <2>1, HasOne
  <2>3. e[1] = add_param(e[0], uint16(call.w_id))
    BY <1>1, <1>6, Zenon
  <2> QED  BY <2>2, <2>3
<1>9. Has(e[2], 4, 2, c)
  <2>1. call.d_id \in Int /\ c[1 + 1] = call.d_id
    BY <1>3, <1>4
  <2>2. Has(add_param(e[1], uint16(call.d_id)), 2 + 2, 1 + 1, c)
    BY <1>8, <2>1, HasOne
  <2>3. e[2] = add_param(e[1], uint16(call.d_id))
    BY <1>1, <1>6, Zenon
  <2> QED  BY <2>2, <2>3
<1>10. Has(e[3], 6, 3, c)
  <2>1. call.c_id \in Int /\ c[2 + 1] = call.c_id
    BY <1>3, <1>4
  <2>2. Has(add_param(e[2], uint16(call.c_id)), 4 + 2, 2 + 1, c)
    BY <1>9, <2>1, HasOne
  <2>3. e[3] = add_param(e[2], uint16(call.c_id))
    BY <1>1, <1>6, Zenon
  <2> QED  BY <2>2, <2>3
<1>11. Has(e[4], 8, 4, c)
  <2>1. n \in Int /\ c[3 + 1] = n
    BY <1>3, <1>4
  <2>2. Has(add_param(e[3], uint16(n)), 6 + 2, 3 + 1, c)
    BY <1>10, <2>1, HasOne
  <2>3. e[4] = add_param(e[3], uint16(n))
    BY <1>1, <1>6, Zenon
  <2> QED  BY <2>2, <2>3
<1> DEFINE Ks == {k \in Nat : k <= n => Has(e[4 + 3 * k], 8 + 8 * k, 4 + 4 * k, c)}
<1>12. 0 \in Ks
  BY <1>11
<1>13. ASSUME NEW k \in Nat, k \in Ks
       PROVE  k + 1 \in Ks
  <2> SUFFICES ASSUME k + 1 <= n
               PROVE  Has(e[4 + 3 * (k + 1)], 8 + 8 * (k + 1), 4 + 4 * (k + 1), c)
    OBVIOUS
  <2> DEFINE j == k + 1
             m == 4 + 3 * k
             b == 8 + 8 * k
             l == 4 + 4 * k
             item == call.items[j]
  <2>1. Has(e[m], b, l, c)
    BY <1>3, <1>13
  <2>2. j \in 1 .. n /\ m \in Nat /\ b \in Nat /\ l \in Nat
    BY <1>3
  <2>3. /\ s[m + 1] = ItemFields(call, j)[1] /\ s[m + 2] = ItemFields(call, j)[2]
        /\ s[m + 3] = ItemFields(call, j)[3]
    <3>1. 1 \in 1 .. 3 /\ 2 \in 1 .. 3 /\ 3 \in 1 .. 3
      OBVIOUS
    <3>2. /\ s[3 * (j - 1) + 4 + 1] = ItemFields(call, j)[1] /\ s[3 * (j - 1) + 4 + 2] = ItemFields(call, j)[2]
          /\ s[3 * (j - 1) + 4 + 3] = ItemFields(call, j)[3]
      <4> HIDE DEF j
      <4> QED  BY <1>1, <2>2, <3>1
    <3>3. 3 * (j - 1) + 4 = m
      OBVIOUS
    <3> QED  BY <3>2, <3>3
  <2>4. /\ ItemFields(call, j)[1] = uint32(item.i_id) /\ ItemFields(call, j)[2] = uint16(call.w_id)
        /\ ItemFields(call, j)[3] = uint16(item.quantity)
    BY DEF ItemFields
  <2>5. /\ e[m + 1] = add_param(e[m], uint32(item.i_id))
        /\ e[m + 2] = add_param(e[m + 1], uint16(call.w_id))
        /\ e[m + 3] = add_param(e[m + 2], uint16(item.quantity))
    <3>1. /\ m + 1 \in 1 .. 3 * n + 5 /\ m + 2 \in 1 .. 3 * n + 5 /\ m + 3 \in 1 .. 3 * n + 5
          /\ (m + 1) - 1 = m /\ (m + 2) - 1 = m + 1 /\ (m + 3) - 1 = m + 2
      BY <1>3
    <3> HIDE DEF m, j, item
    <3>2. e[m + 1] = add_param(e[(m + 1) - 1], s[m + 1])
      BY <1>5, <3>1
    <3>3. e[m + 2] = add_param(e[(m + 2) - 1], s[m + 2])
      BY <1>5, <3>1
    <3>4. e[m + 3] = add_param(e[(m + 3) - 1], s[m + 3])
      BY <1>5, <3>1
    <3> QED  BY <2>3, <2>4, <3>1, <3>2, <3>3, <3>4, Zenon
  <2>6. /\ c[l + 1] = item.i_id % CELL /\ c[l + 2] = item.i_id \div CELL
        /\ c[l + 2 + 1] = call.w_id /\ c[l + 3 + 1] = item.quantity
    <3>1. 4 * j + 1 = l + 1 /\ 4 * j + 2 = l + 2 /\ 4 * j + 3 = l + 2 + 1 /\ 4 * j + 4 = l + 3 + 1
      OBVIOUS
    <3>2. /\ c[4 * j + 1] = item.i_id % CELL /\ c[4 * j + 2] = item.i_id \div CELL
          /\ c[4 * j + 3] = call.w_id /\ c[4 * j + 4] = item.quantity
      <4> HIDE DEF j
      <4> QED  BY <1>4, <2>2
    <3> QED  BY <3>1, <3>2
  <2>7. item.i_id \in Nat /\ item.quantity \in Nat
    <3> HIDE DEF j
    <3> QED  BY <1>3, <2>2
  <2>8. 4 + 3 * (k + 1) = m + 3 /\ 8 + 8 * (k + 1) = b + 4 + 2 + 2 /\ 4 + 4 * (k + 1) = l + 2 + 1 + 1
    OBVIOUS
  <2> HIDE DEF m, b, l, item, j
  <2>9. Has(add_param(e[m], uint32(item.i_id)), b + 4, l + 2, c)
    <3>1. LET f == uint32(item.i_id)
          IN  f.size = 4 /\ f.cells \in Seq(Int) /\ Len(f.cells) = 2 /\ f.cells[1] = c[l + 1] /\ f.cells[2] = c[l + 2]
      BY <2>6, <2>7, FieldsAre
    <3> QED  BY <2>1, <2>2, <3>1, HasTwo
  <2>10. Has(e[m + 1], b + 4, l + 2, c) /\ b + 4 \in Nat /\ l + 2 \in Nat
    BY <2>2, <2>5, <2>9
  <2>11. Has(add_param(e[m + 1], uint16(call.w_id)), b + 4 + 2, l + 2 + 1, c)
    BY <1>3, <2>6, <2>10, HasOne
  <2>12. Has(e[m + 2], b + 4 + 2, l + 2 + 1, c) /\ b + 4 + 2 \in Nat /\ l + 2 + 1 \in Nat /\ l + 3 + 1 = l + 2 + 1 + 1
    BY <2>2, <2>5, <2>11
  <2>13. Has(add_param(e[m + 2], uint16(item.quantity)), b + 4 + 2 + 2, l + 2 + 1 + 1, c)
    BY <2>6, <2>7, <2>12, HasOne
  <2> QED  BY <2>5, <2>8, <2>13
<1> HIDE DEF Ks
<1>14. n \in Ks
  BY <1>3, <1>12, <1>13, SetInduction
<1>15. Has(e[4 + 3 * n], 8 + 8 * n, 4 + 4 * n, c)
  BY <1>3, <1>14 DEF Ks
<1>16. e[3 * n + 5] = add_param(e[4 + 3 * n], now)
  <2>1. 3 * n + 5 \in 1 .. 3 * n + 5 /\ (3 * n + 5) - 1 = 4 + 3 * n
    BY <1>3
  <2>2. e[3 * n + 5] = add_param(e[(3 * n + 5) - 1], s[3 * n + 5])
    BY <1>5, <2>1
  <2> QED  BY <1>1, <2>1, <2>2
<1>17. Has(add_param(e[4 + 3 * n], now), 8 + 8 * n + 15, 4 + 4 * n + 7, c)
  <2> DEFINE b == 8 + 8 * n
             l == 4 + 4 * n
  <2>1. b \in Nat /\ l \in Nat
    BY <1>3
  <2>2. now.size = 15 /\ now.cells \in Seq(Int) /\ Len(now.cells) = 7 /\ \A i \in 1 .. 7 : now.cells[i] = c[l + i]
    BY <1>4, FieldsAre
  <2> HIDE DEF b, l
  <2>3. Has(add_param(e[4 + 3 * n], now), b + 15, l + 7, c)
    BY <1>15, <2>1, <2>2, HasMore DEF b, l
  <2> QED  BY <2>3 DEF b, l
<1>18. 8 + 8 * n + 15 = 23 + 8 * n /\ 4 + 4 * n + 7 = 11 + 4 * n
  BY <1>3
<1> QED  BY <1>5, <1>16, <1>17, <1>18 DEF c

------------------------------------------------------------------------------
(* The client's calls *)

LEMMA PaymentIs ==
  ASSUME NEW call \in PaymentCalls
  PROVE  /\ call.kind = "payment" /\ call.w_id \in Warehouse /\ call.d_id \in District
         /\ call.c_w_id \in Warehouse /\ call.c_d_id \in District /\ call.c_id \in Customer
         /\ call.h_amount \in Amount
         /\ call.c_w_id = call.w_id => call.c_d_id = call.d_id
<1>1. PICK w \in Warehouse, d \in District :
        call \in {[kind |-> "payment", w_id |-> w, d_id |-> d, c_w_id |-> r[1], c_d_id |-> r[2],
                   c_id |-> c, h_amount |-> a] : r \in Residence(w, d), c \in Customer, a \in Amount}
  BY DEF PaymentCalls
<1>2. PICK r \in Residence(w, d), c \in Customer, a \in Amount :
        call = [kind |-> "payment", w_id |-> w, d_id |-> d, c_w_id |-> r[1], c_d_id |-> r[2],
                c_id |-> c, h_amount |-> a]
  BY <1>1
<1>3. r = <<w, d>> \/ r \in (Warehouse \ {w}) \X District
  BY DEF Residence
<1>4. r[1] \in Warehouse /\ r[2] \in District /\ (r[1] = w => r[2] = d)
  BY <1>3
<1> QED  BY <1>2, <1>4

LEMMA OrderIs ==
  ASSUME NEW call \in NewOrderCalls
  PROVE  /\ call.kind = "new_order" /\ call.w_id \in Warehouse /\ call.d_id \in District
         /\ call.c_id \in Customer
         /\ Len(call.items) \in 1 .. ORDER_MAX_OL_COUNT
         /\ IsOrder(call, Len(call.items))
         /\ call.items \in [1 .. Len(call.items) -> Item]
<1>1. /\ call.kind = "new_order" /\ call.w_id \in Warehouse /\ call.d_id \in District
      /\ call.c_id \in Customer
      /\ call.items \in UNION {[1 .. n -> Item] : n \in ORDER_MIN_OL_COUNT .. ORDER_MAX_OL_COUNT}
  BY DEF NewOrderCalls
<1>2. PICK n \in ORDER_MIN_OL_COUNT .. ORDER_MAX_OL_COUNT : call.items \in [1 .. n -> Item]
  BY <1>1
<1>3. n \in Nat /\ n \in 1 .. ORDER_MAX_OL_COUNT
  BY ClientAssumption, KeysAssumption
<1>4. Len(call.items) = n /\ DOMAIN call.items = 1 .. n
  <2> DEFINE q == call.items
  <2>1. q \in [1 .. n -> Item]
    BY <1>2
  <2> HIDE DEF q
  <2>2. Len(q) = n /\ DOMAIN q = 1 .. n
    BY <1>3, <2>1
  <2> QED  BY <2>2 DEF q
<1>5. \A j \in 1 .. n : call.items[j].i_id \in Nat /\ call.items[j].quantity \in Nat
  BY <1>2 DEF Item
<1>6. call.w_id \in Nat /\ call.d_id \in Nat /\ call.c_id \in Nat
  BY <1>1 DEF Warehouse, District, Customer
<1> QED  BY <1>1, <1>2, <1>3, <1>4, <1>5, <1>6 DEF IsOrder

LEMMA StatusIs ==
  ASSUME NEW call \in OrderStatusCalls
  PROVE  /\ call.kind = "order_status" /\ call.w_id \in Warehouse /\ call.d_id \in District
         /\ call.c_id \in Customer
BY DEF OrderStatusCalls

\* What the parts of each kind of call are.
LEMMA PartsAre ==
  ASSUME NEW call
  PROVE  /\ call.kind = "payment" =>
              Parts(call) = [d \in {call.w_id - 1, call.c_w_id - 1} |->
                               [type   |-> IF d = call.w_id - 1 THEN "PAYMENT" ELSE "PAYMENT_REMOTE",
                                params |-> PaymentParams(call), call |-> call]]
         /\ call.kind = "new_order" =>
              Parts(call) = [d \in {call.w_id - 1} |->
                               [type |-> "NEW_ORDER", params |-> OrderParams(call), call |-> call]]
         /\ call.kind = "order_status" =>
              Parts(call) = [d \in {call.w_id - 1} |->
                               [type |-> "ORDER_STATUS", params |-> StatusParams(call), call |-> call]]
<1>1. ASSUME call.kind = "payment"
      PROVE  Parts(call) = [d \in {call.w_id - 1, call.c_w_id - 1} |->
                              [type   |-> IF d = call.w_id - 1 THEN "PAYMENT" ELSE "PAYMENT_REMOTE",
                               params |-> PaymentParams(call), call |-> call]]
  BY <1>1 DEF Parts, payment_parts, PaymentParams
<1>2. ASSUME call.kind = "new_order"
      PROVE  Parts(call) = [d \in {call.w_id - 1} |->
                              [type |-> "NEW_ORDER", params |-> OrderParams(call), call |-> call]]
  <2>1. Parts(call) = new_order_parts(call)
    BY <1>2 DEF Parts
  <2> QED  BY <2>1 DEF new_order_parts, OrderParams, ItemFields
<1>3. ASSUME call.kind = "order_status"
      PROVE  Parts(call) = [d \in {call.w_id - 1} |->
                              [type |-> "ORDER_STATUS", params |-> StatusParams(call), call |-> call]]
  <2>1. Parts(call) = order_status_parts(call)
    BY <1>3 DEF Parts
  <2> QED  BY <2>1 DEF order_status_parts, StatusParams
<1> QED  BY <1>1, <1>2, <1>3

\* communication.h:5 gives 56 bytes: payments and order statuses fit, and new orders of
\* up to four items.
ParamsFit == N_PARAMS > 29

LEMMA PartsFail ==
  ASSUME ParamsFit, NEW call \in Calls
  PROVE  (\E d \in DOMAIN Parts(call) : Parts(call)[d].params.failed) <=> TooLong(call)
<1>1. CASE call \in PaymentCalls
  <2>1. /\ call.kind = "payment" /\ call.w_id \in Int /\ call.d_id \in Int /\ call.c_w_id \in Int
        /\ call.c_d_id \in Int /\ call.c_id \in Int /\ call.h_amount \in Amount
    BY <1>1, PaymentIs DEF Warehouse, District, Customer
  <2>2. ~ PaymentParams(call).failed
    BY <2>1, PaymentEncoded, ParamsAssumption DEF Has, ParamsFit
  <2>3. \A d \in DOMAIN Parts(call) : Parts(call)[d].params = PaymentParams(call)
    <3>1. Parts(call) = [d \in {call.w_id - 1, call.c_w_id - 1} |->
                           [type   |-> IF d = call.w_id - 1 THEN "PAYMENT" ELSE "PAYMENT_REMOTE",
                            params |-> PaymentParams(call), call |-> call]]
      BY <2>1, PartsAre, Zenon
    <3> QED  BY <3>1
  <2> QED  BY <2>1, <2>2, <2>3 DEF TooLong
<1>2. CASE call \in NewOrderCalls
  <2> DEFINE n == Len(call.items)
  <2>1. call.kind = "new_order" /\ IsOrder(call, n) /\ n \in Nat
    BY <1>2, OrderIs DEF IsOrder
  <2>2. OrderParams(call).failed <=> 23 + 8 * n >= N_PARAMS
    <3>1. Has(OrderParams(call), 23 + 8 * n, 11 + 4 * n, OrderCells(call))
      BY <2>1, OrderEncoded
    <3> HIDE DEF n
    <3> QED  BY <2>1, <3>1, ParamsAssumption DEF Has
  <2>3. DOMAIN Parts(call) # {} /\ \A d \in DOMAIN Parts(call) : Parts(call)[d].params = OrderParams(call)
    <3>1. Parts(call) = [d \in {call.w_id - 1} |->
                           [type |-> "NEW_ORDER", params |-> OrderParams(call), call |-> call]]
      BY <2>1, PartsAre, Zenon
    <3> QED  BY <3>1
  <2>4. TooLong(call) <=> 23 + 8 * n >= N_PARAMS
    <3>1. TooLong(call) <=> 8 + 8 * n + 15 >= N_PARAMS
      BY <2>1 DEF TooLong
    <3> HIDE DEF n
    <3> QED  BY <2>1, <3>1
  <2> QED  BY <2>2, <2>3, <2>4
<1>3. CASE call \in OrderStatusCalls
  <2>1. /\ call.kind = "order_status" /\ call.w_id \in Nat /\ call.d_id \in Nat /\ call.c_id \in Nat
    BY <1>3, StatusIs DEF Warehouse, District, Customer
  <2>2. ~ StatusParams(call).failed
    BY <2>1, StatusEncoded, ParamsAssumption DEF Has, ParamsFit
  <2>3. \A d \in DOMAIN Parts(call) : Parts(call)[d].params = StatusParams(call)
    <3>1. Parts(call) = [d \in {call.w_id - 1} |->
                           [type |-> "ORDER_STATUS", params |-> StatusParams(call), call |-> call]]
      BY <2>1, PartsAre, Zenon
    <3> QED  BY <3>1
  <2> QED  BY <2>1, <2>2, <2>3 DEF TooLong
<1> QED  BY <1>1, <1>2, <1>3 DEF Calls

(* A call whose parameters do not fit ends the program (sub_transaction.cpp: *)
(* 92), and nothing else does: nothing runs before all calls have been made  *)
(* (tpcc.cpp:102-122).                                                       *)
THEOREM NothingRunsAfterTooLong == Spec /\ ParamsFit => []NothingRunsIfTooLong
<1> DEFINE I == /\ ParamsFit /\ calls \in Seq(Calls) /\ NothingRunsIfTooLong
<1>1. Init /\ ParamsFit => I
  BY DEF Init, NothingRunsIfTooLong
<1>2. I /\ [Next]_vars => I'
  <2> SUFFICES ASSUME I, [Next]_vars
               PROVE  I'
    OBVIOUS
  <2>0. ParamsFit'
    BY DEF ParamsFit
  <2>1. ASSUME NEW call \in Drawn, Generate(call)
        PROVE  I'
    <3>1. call \in Calls /\ calls' = Append(calls, call) /\ phase = "generating"
      BY <2>1, ApplicationAssumption DEF Generate
    <3>2. /\ calls' \in Seq(Calls)
          /\ DOMAIN calls' = DOMAIN calls \cup {Len(calls) + 1}
          /\ \A k \in DOMAIN calls : calls'[k] = calls[k]
          /\ calls'[Len(calls) + 1] = call
      BY <3>1
    <3>3. (\E k \in DOMAIN calls' : TooLong(calls'[k])) <=> TooLong(call)
      <4>1. ~ \E k \in DOMAIN calls : TooLong(calls[k])
        BY <3>1 DEF NothingRunsIfTooLong
      <4> QED  BY <3>2, <4>1
    <3>4. phase' = "aborted" <=> TooLong(call)
      BY <2>1, <3>1, PartsFail DEF Generate
    <3> QED  BY <2>0, <3>2, <3>3, <3>4 DEF NothingRunsIfTooLong
  <2>2. CASE Start
    BY <2>0, <2>2 DEF Start, NothingRunsIfTooLong
  <2>3. ASSUME NEW d \in Dpu, NEW i \in DOMAIN pending[d], Exec(d, i)
        PROVE  I'
    BY <2>0, <2>3 DEF Exec, NothingRunsIfTooLong
  <2>4. CASE UNCHANGED vars
    BY <2>0, <2>4 DEF vars, NothingRunsIfTooLong
  <2> QED  BY <2>1, <2>2, <2>3, <2>4 DEF Next
<1> QED  BY <1>1, <1>2, PTL DEF Spec

------------------------------------------------------------------------------
(* The tables of a DPU *)

\* No warehouse number is above MAX_WAREHOUSE_ID, on which the keys of orders rely.
WarehousesFit == n_warehouses <= MAX_WAREHOUSE_ID

\* The districts, customers and orders that were loaded are still there, and the
\* customers are who their keys say; nothing has been written through NULL.
TablesWhole(w, s) ==
  /\ {"w_ytd", "district", "customer", "order", "new_order", "line", "wild"} \subseteq DOMAIN s
  /\ s.wild = FALSE
  /\ \A i \in District : /\ make_district_key(w, i) \in DOMAIN s.district
                         /\ "d_ytd" \in DOMAIN s.district[make_district_key(w, i)]
  /\ DOMAIN s.customer = {make_customer_key(w, i[1], i[2]) : i \in District \X Customer}
  /\ \A i \in District, j \in Customer :
       LET row == s.customer[make_customer_key(w, i, j)]
       IN  /\ {"c_w_id", "c_d_id", "c_id", "c_balance", "c_ytd_payment", "c_payment_cnt"} \subseteq DOMAIN row
           /\ row.c_w_id = w /\ row.c_d_id = i /\ row.c_id = j
           /\ make_order_key(w, i, j) \in DOMAIN s.order

LEMMA Places ==
  ASSUME AppCommon, WarehousesFit
  PROVE  /\ Warehouse = 1 .. n_warehouses /\ District = 1 .. 10 /\ Customer = 1 .. 3000
         /\ \A w \in Warehouse, i \in District, j \in Customer : IsCustomer(w, i, j)
         /\ \A d \in Dpu : d + 1 \in Warehouse /\ d \in Nat
         /\ \A w \in Warehouse : w - 1 \in Dpu
<1>1. n_warehouses \in Nat /\ n_warehouses <= 2600
  BY ClientAssumption DEF WarehousesFit, AppCommon
<1>2. Warehouse = 1 .. n_warehouses /\ District = 1 .. 10 /\ Customer = 1 .. 3000
  BY DEF Warehouse, District, Customer, AppCommon
<1>3. ASSUME NEW w \in Warehouse, NEW i \in District, NEW j \in Customer
      PROVE  IsCustomer(w, i, j)
  BY <1>1, <1>2 DEF IsCustomer
<1>4. \A d \in Dpu : d + 1 \in Warehouse /\ d \in Nat
  BY <1>1, <1>2 DEF Dpu
<1>5. \A w \in Warehouse : w - 1 \in Dpu
  BY <1>1, <1>2 DEF Dpu
<1> QED  BY <1>2, <1>3, <1>4, <1>5

LEMMA IsOne ==
  ASSUME AppCommon, WarehousesFit, NEW w \in Warehouse, NEW i \in District, NEW j \in Customer
  PROVE  IsCustomer(w, i, j)
BY Places

LEMMA DistrictsDiffer ==
  ASSUME AppCommon, WarehousesFit, NEW w \in Warehouse, NEW i \in District, NEW k \in District,
         make_district_key(w, i) = make_district_key(w, k)
  PROVE  i = k
<1>1. w \in Nat /\ w <= 2600 /\ i \in 1 .. 10 /\ k \in 1 .. 10
  BY Places, ClientAssumption DEF WarehousesFit, AppCommon
<1>2. \A x \in 1 .. 10 : make_district_key(w, x) = w * 10 + x
  <2>1. ASSUME NEW x \in 1 .. 10
        PROVE  make_district_key(w, x) = w * 10 + x
    <3>1. make_district_key(w, x) = (w * 10 + x) % 4294967296
      BY SMT DEF make_district_key, AppCommon
    <3>2. (w * 10 + x) % 4294967296 = w * 10 + x
      BY <1>1, SMT
    <3> QED  BY <3>1, <3>2
  <2> QED  BY <2>1
<1>3. w * 10 + i = w * 10 + k
  BY <1>1, <1>2
<1> QED  BY <1>1, <1>3

LEMMA CustomersDiffer ==
  ASSUME AppCommon, NEW w, NEW i, NEW j, NEW k, NEW l, IsCustomer(w, i, j), IsCustomer(w, k, l),
         make_customer_key(w, i, j) = make_customer_key(w, k, l)
  PROVE  i = k /\ j = l
<1>1. 30000 * w + 3000 * i + j = 30000 * w + 3000 * k + l
  BY CustomerKey
<1>2. 3000 * (i - k) = l - j
  BY <1>1 DEF IsCustomer
<1> QED  BY <1>2 DEF IsCustomer

LEMMA LoadedWhole ==
  ASSUME AppCommon, WarehousesFit, NEW w \in Warehouse
  PROVE  /\ TablesWhole(w, Loaded(w))
         /\ Loaded(w).w_ytd = WAREHOUSE_INITIAL_YTD
         /\ \A i \in District : Loaded(w).district[make_district_key(w, i)].d_ytd = DISTRICT_INITIAL_YTD
         /\ \A i \in District, j \in Customer :
              LET row == Loaded(w).customer[make_customer_key(w, i, j)]
              IN  /\ row.c_ytd_payment = CUSTOMER_INITIAL_YTD_PAYMENT
                  /\ row.c_balance = CUSTOMER_INITIAL_BALANCE
                  /\ row.c_payment_cnt = CUSTOMER_INITIAL_PAYMENT_CNT
<1> DEFINE s == Loaded(w)
           Cs == District \X Customer
           ck(i) == make_customer_key(w, i[1], i[2])
           ok(i) == make_order_key(w, i[1], i[2])
           dk(i) == make_district_key(w, i)
<1>1. /\ {"w_ytd", "district", "customer", "order", "new_order", "line", "wild"} \subseteq DOMAIN s
      /\ s.wild = FALSE /\ s.w_ytd = WAREHOUSE_INITIAL_YTD
  BY DEF Loaded
<1>2. s.district = [k \in {dk(i) : i \in District} |-> generate_district(CHOOSE i \in District : dk(i) = k)]
  BY DEF Loaded, Table
<1>3. s.customer = [k \in {ck(i) : i \in Cs} |-> generate_customer(w, CHOOSE i \in Cs : ck(i) = k)]
  BY DEF Loaded, Table
<1>4. DOMAIN s.order = {ok(i) : i \in Cs}
  BY DEF Loaded, Table
<1> HIDE DEF s
<1>5. ASSUME NEW i \in District
      PROVE  /\ make_district_key(w, i) \in DOMAIN s.district
             /\ "d_ytd" \in DOMAIN s.district[make_district_key(w, i)]
             /\ s.district[make_district_key(w, i)].d_ytd = DISTRICT_INITIAL_YTD
  BY <1>2 DEF generate_district
<1>6. DOMAIN s.customer = {make_customer_key(w, i[1], i[2]) : i \in District \X Customer}
  BY <1>3
<1>7. ASSUME NEW i \in District, NEW j \in Customer
      PROVE  LET row == s.customer[make_customer_key(w, i, j)]
             IN  /\ {"c_w_id", "c_d_id", "c_id", "c_balance", "c_ytd_payment", "c_payment_cnt"} \subseteq DOMAIN row
                 /\ row.c_w_id = w /\ row.c_d_id = i /\ row.c_id = j
                 /\ make_order_key(w, i, j) \in DOMAIN s.order
                 /\ row.c_ytd_payment = CUSTOMER_INITIAL_YTD_PAYMENT
                 /\ row.c_balance = CUSTOMER_INITIAL_BALANCE
                 /\ row.c_payment_cnt = CUSTOMER_INITIAL_PAYMENT_CNT
  <2> DEFINE k == make_customer_key(w, i, j)
             x == CHOOSE y \in Cs : ck(y) = k
  <2>1. <<i, j>> \in Cs /\ ck(<<i, j>>) = k
    OBVIOUS
  <2>2. x \in Cs /\ ck(x) = k
    BY <2>1
  <2> HIDE DEF x
  <2>3. x[1] \in District /\ x[2] \in Customer /\ x = <<x[1], x[2]>>
    BY <2>2
  <2>4. x[1] = i /\ x[2] = j
    <3>1. IsCustomer(w, x[1], x[2]) /\ IsCustomer(w, i, j)
      BY <2>3, Places
    <3> QED  BY <2>2, <3>1, CustomersDiffer
  <2>5. s.customer[k] = generate_customer(w, x)
    BY <1>3, <2>1 DEF x
  <2>6. make_order_key(w, i, j) \in DOMAIN s.order
    <3>1. make_order_key(w, i, j) = ok(<<i, j>>)
      OBVIOUS
    <3> QED  BY <1>4, <2>1, <3>1
  <2> QED  BY <2>4, <2>5, <2>6 DEF generate_customer
<1> QED  BY <1>1, <1>5, <1>6, <1>7 DEF TablesWhole, s

------------------------------------------------------------------------------
(* What the DPUs are given to run *)

\* What DPU d can be given to run.
Part(d) ==
  {Parts(call)[d] : call \in {c \in Calls : d \in DOMAIN Parts(c) /\ ~ Parts(c)[d].params.failed}}

\* The first n cells are those of c.
Cells(cells, n, c) == \A i \in 1 .. n : cells[i] = c[i]

\* The kinds of parts.
IsPayment(d, p) ==
  /\ p.type = "PAYMENT" /\ p.call \in PaymentCalls /\ p.call.w_id = d + 1
  /\ Cells(p.params.cells, 14, PaymentCells(p.call))

IsRemote(d, p) ==
  /\ p.type = "PAYMENT_REMOTE" /\ p.call \in PaymentCalls
  /\ p.call.c_w_id = d + 1 /\ p.call.w_id # d + 1
  /\ Cells(p.params.cells, 14, PaymentCells(p.call))

IsNewOrder(d, p) ==
  /\ p.type = "NEW_ORDER" /\ p.call \in NewOrderCalls /\ p.call.w_id = d + 1
  /\ Cells(p.params.cells, 11 + 4 * Len(p.call.items), OrderCells(p.call))

IsStatus(d, p) ==
  /\ p.type = "ORDER_STATUS" /\ p.call \in OrderStatusCalls /\ p.call.w_id = d + 1
  /\ Cells(p.params.cells, 6, StatusCells(p.call))

LEMMA PartIs ==
  ASSUME NEW d \in Dpu, NEW p \in Part(d)
  PROVE  IsPayment(d, p) \/ IsRemote(d, p) \/ IsNewOrder(d, p) \/ IsStatus(d, p)
<1>1. PICK call \in Calls : d \in DOMAIN Parts(call) /\ ~ Parts(call)[d].params.failed /\ p = Parts(call)[d]
  BY DEF Part
<1>2. d \in Nat
  BY ClientAssumption DEF Dpu
<1>3. CASE call \in PaymentCalls
  <2>1. /\ call.kind = "payment" /\ call.w_id \in Int /\ call.d_id \in Int /\ call.c_w_id \in Int
        /\ call.c_d_id \in Int /\ call.c_id \in Int /\ call.h_amount \in Amount
    BY <1>3, PaymentIs DEF Warehouse, District, Customer
  <2>2. Parts(call) = [e \in {call.w_id - 1, call.c_w_id - 1} |->
                         [type   |-> IF e = call.w_id - 1 THEN "PAYMENT" ELSE "PAYMENT_REMOTE",
                          params |-> PaymentParams(call), call |-> call]]
    BY <2>1, PartsAre, Zenon
  <2>3. d \in {call.w_id - 1, call.c_w_id - 1}
    BY <1>1, <2>2
  <2>4. /\ p.type = IF d = call.w_id - 1 THEN "PAYMENT" ELSE "PAYMENT_REMOTE"
        /\ p.params = PaymentParams(call) /\ p.call = call
    BY <1>1, <2>2, <2>3
  <2>5. Cells(p.params.cells, 14, PaymentCells(call))
    BY <1>1, <2>1, <2>4, PaymentEncoded DEF Has, Cells
  <2>6. CASE d = call.w_id - 1
    <3>1. call.w_id = d + 1
      BY <1>2, <2>1, <2>6
    <3> QED  BY <1>3, <2>4, <2>5, <2>6, <3>1 DEF IsPayment
  <2>7. CASE d # call.w_id - 1
    <3>1. call.c_w_id = d + 1 /\ call.w_id # d + 1
      BY <1>2, <2>1, <2>3, <2>7
    <3> QED  BY <1>3, <2>4, <2>5, <2>7, <3>1 DEF IsRemote
  <2> QED  BY <2>6, <2>7
<1>4. CASE call \in NewOrderCalls
  <2> DEFINE n == Len(call.items)
  <2>1. call.kind = "new_order" /\ call.w_id \in Int /\ IsOrder(call, n)
    BY <1>4, OrderIs DEF IsOrder
  <2>2. Parts(call) = [e \in {call.w_id - 1} |->
                         [type |-> "NEW_ORDER", params |-> OrderParams(call), call |-> call]]
    BY <2>1, PartsAre, Zenon
  <2>3. d = call.w_id - 1
    BY <1>1, <2>2
  <2>4. p.type = "NEW_ORDER" /\ p.params = OrderParams(call) /\ p.call = call
    BY <1>1, <2>2, <2>3
  <2>5. call.w_id = d + 1
    BY <1>2, <2>1, <2>3
  <2>6. Has(OrderParams(call), 23 + 8 * n, 11 + 4 * n, OrderCells(call))
    BY <2>1, OrderEncoded
  <2>7. Cells(p.params.cells, 11 + 4 * n, OrderCells(call))
    <3> HIDE DEF n
    <3> QED  BY <1>1, <2>4, <2>6 DEF Has, Cells
  <2> QED  BY <1>4, <2>4, <2>5, <2>7 DEF IsNewOrder
<1>5. CASE call \in OrderStatusCalls
  <2>1. call.kind = "order_status" /\ call.w_id \in Nat /\ call.d_id \in Nat /\ call.c_id \in Nat
    BY <1>5, StatusIs DEF Warehouse, District, Customer
  <2>2. Parts(call) = [e \in {call.w_id - 1} |->
                         [type |-> "ORDER_STATUS", params |-> StatusParams(call), call |-> call]]
    BY <2>1, PartsAre, Zenon
  <2>3. d = call.w_id - 1
    BY <1>1, <2>2
  <2>4. p.type = "ORDER_STATUS" /\ p.params = StatusParams(call) /\ p.call = call
    BY <1>1, <2>2, <2>3
  <2>5. call.w_id = d + 1
    BY <1>2, <2>1, <2>3
  <2>6. Cells(p.params.cells, 6, StatusCells(call))
    BY <1>1, <2>1, <2>4, StatusEncoded DEF Has, Cells
  <2> QED  BY <1>5, <2>4, <2>5, <2>6 DEF IsStatus
<1> QED  BY <1>1, <1>3, <1>4, <1>5 DEF Calls

\* What is decoded is what was encoded.
LEMMA PaymentDecoded ==
  ASSUME NEW call \in PaymentCalls, NEW cells, Cells(cells, 14, PaymentCells(call))
  PROVE  /\ cells[1] = call.w_id /\ cells[2] = call.d_id /\ cells[3] = call.c_w_id
         /\ cells[4] = call.c_d_id /\ cells[5] = call.c_id
         /\ bytes_to_float(cells, 6) = call.h_amount
         /\ Local(cells) <=> call.c_w_id = call.w_id
<1>1. \A i \in 1 .. 14 : cells[i] = PaymentCells(call)[i]
  BY DEF Cells
<1>2. /\ cells[1] = call.w_id /\ cells[2] = call.d_id /\ cells[3] = call.c_w_id
      /\ cells[4] = call.c_d_id /\ cells[5] = call.c_id
      /\ cells[6] = FloatBits(call.h_amount) % CELL /\ cells[7] = FloatBits(call.h_amount) \div CELL
  BY <1>1 DEF PaymentCells
<1> DEFINE h == call.h_amount
<1>3. h \in Amount
  BY PaymentIs
<1>4. \A a \in Amount : <<cells[6], cells[7]>> = float(a).cells <=> a = h
  <2>1. ASSUME NEW a \in Amount
        PROVE  <<cells[6], cells[7]>> = float(a).cells <=> a = h
    <3> DEFINE x == FloatBits(a)
               y == FloatBits(h)
    <3>1. x \in Nat /\ y \in Nat /\ (x = y <=> a = h)
      BY <1>3, FloatsDiffer
    <3>2. float(a).cells = <<x % CELL, x \div CELL>>
      BY DEF float
    <3>3. <<cells[6], cells[7]>> = <<y % CELL, y \div CELL>>
      BY <1>2
    <3> HIDE DEF x, y
    <3>4. x % CELL = y % CELL /\ x \div CELL = y \div CELL <=> x = y
      BY <3>1 DEF CELL
    <3> QED  BY <3>1, <3>2, <3>3, <3>4
  <2> QED  BY <2>1
<1>5. bytes_to_float(cells, 6) = h
  <2>1. /\ \E a \in Amount : <<cells[6], cells[7]>> = float(a).cells
        /\ (CHOOSE a \in Amount : <<cells[6], cells[7]>> = float(a).cells) = h
    <3> HIDE DEF h
    <3> QED  BY <1>3, <1>4
  <2>2. 6 + 1 = 7
    OBVIOUS
  <2> HIDE DEF h
  <2> QED  BY <2>1, <2>2, Zenon DEF bytes_to_float
<1>6. Local(cells) <=> call.c_w_id = call.w_id
  BY <1>2, PaymentIs DEF Local
<1> QED  BY <1>2, <1>5, <1>6

LEMMA StatusDecoded ==
  ASSUME NEW call \in OrderStatusCalls, NEW cells, Cells(cells, 6, StatusCells(call))
  PROVE  /\ bytes_to_uint32(cells, 1) = call.w_id
         /\ bytes_to_uint32(cells, 3) = call.d_id
         /\ bytes_to_uint32(cells, 5) = call.c_id
<1>1. \A i \in 1 .. 6 : cells[i] = StatusCells(call)[i]
  BY DEF Cells
<1>2. /\ cells[1] = call.w_id % CELL /\ cells[2] = call.w_id \div CELL
      /\ cells[3] = call.d_id % CELL /\ cells[4] = call.d_id \div CELL
      /\ cells[5] = call.c_id % CELL /\ cells[6] = call.c_id \div CELL
  BY <1>1 DEF StatusCells
<1>3. call.w_id \in Nat /\ call.d_id \in Nat /\ call.c_id \in Nat
  BY StatusIs DEF Warehouse, District, Customer
<1>4. \A v \in Nat : (v % CELL) + CELL * (v \div CELL) = v
  BY DEF CELL
<1> QED  BY <1>2, <1>3, <1>4 DEF bytes_to_uint32

\* What new_order reads of the cells of a part for call c: the items are those that
\* were ordered, from 0 on.
Decoded(c, cells, g) ==
  LET n == Len(c.items)
  IN  /\ c.d_id \in District /\ n \in 1 .. 15
      /\ cells[1] = c.w_id /\ cells[2] = c.d_id /\ cells[3] = c.c_id /\ cells[4] = n
      /\ \A i \in 0 .. n - 1 : /\ Items(cells, g)[i].i_id = c.items[i + 1].i_id
                               /\ Items(cells, g)[i].ol_supply_w_id = c.w_id
                               /\ Items(cells, g)[i].ol_quantity = c.items[i + 1].quantity

LEMMA OrderDecoded ==
  ASSUME AppCommon, NEW d, NEW p, IsNewOrder(d, p), NEW g
  PROVE  Decoded(p.call, p.params.cells, g)
<1> DEFINE c == p.call
           cells == p.params.cells
           n == Len(c.items)
<1>0. c \in NewOrderCalls /\ Cells(cells, 11 + 4 * n, OrderCells(c))
  BY DEF IsNewOrder
<1> HIDE DEF c, cells
<1>1. /\ c.d_id \in District /\ n \in 1 .. 15 /\ IsOrder(c, n)
  BY <1>0, OrderIs DEF AppCommon
<1> HIDE DEF n
<1> DEFINE q == OrderCells(c)
<1>2. \A i \in 1 .. 11 + 4 * n : cells[i] = q[i]
  BY <1>0 DEF Cells
<1>3. /\ q[1] = c.w_id /\ q[2] = c.d_id /\ q[3] = c.c_id /\ q[4] = n
      /\ \A j \in 1 .. n : /\ q[4 * j + 1] = c.items[j].i_id % CELL
                           /\ q[4 * j + 2] = c.items[j].i_id \div CELL
                           /\ q[4 * j + 3] = c.w_id
                           /\ q[4 * j + 4] = c.items[j].quantity
  BY <1>1, OrderCellsAre
<1> HIDE DEF q
<1>4. /\ cells[1] = c.w_id /\ cells[2] = c.d_id /\ cells[3] = c.c_id /\ cells[4] = n
      /\ \A j \in 1 .. n : /\ cells[4 * j + 1] = c.items[j].i_id % CELL
                           /\ cells[4 * j + 2] = c.items[j].i_id \div CELL
                           /\ cells[4 * j + 3] = c.w_id
                           /\ cells[4 * j + 4] = c.items[j].quantity
  BY <1>1, <1>2, <1>3
<1>5. ASSUME NEW i \in 0 .. n - 1
      PROVE  /\ Items(cells, g)[i].i_id = c.items[i + 1].i_id
             /\ Items(cells, g)[i].ol_supply_w_id = c.w_id
             /\ Items(cells, g)[i].ol_quantity = c.items[i + 1].quantity
  <2> DEFINE item == c.items[i + 1]
  <2>1. i \in 0 .. ORDER_MAX_OL_COUNT /\ i < cells[4]
    BY <1>1, <1>4 DEF AppCommon
  <2>2. Items(cells, g)[i] = [i_id |-> bytes_to_uint32(cells, 5 + 4 * i), ol_supply_w_id |-> cells[7 + 4 * i],
                              ol_quantity |-> cells[8 + 4 * i]]
    BY <2>1 DEF Items
  <2>3. /\ i + 1 \in 1 .. n /\ 4 * (i + 1) + 1 = 5 + 4 * i /\ 4 * (i + 1) + 2 = 5 + 4 * i + 1
        /\ 4 * (i + 1) + 3 = 7 + 4 * i /\ 4 * (i + 1) + 4 = 8 + 4 * i
    BY <1>1
  <2>4. item.i_id \in Nat
    BY <1>1, <2>3 DEF IsOrder
  <2> HIDE DEF item
  <2>5. /\ cells[5 + 4 * i] = item.i_id % CELL /\ cells[5 + 4 * i + 1] = item.i_id \div CELL
        /\ cells[7 + 4 * i] = c.w_id /\ cells[8 + 4 * i] = item.quantity
    BY <1>4, <2>3, Zenon DEF item
  <2>6. bytes_to_uint32(cells, 5 + 4 * i) = item.i_id
    <3>1. (item.i_id % CELL) + CELL * (item.i_id \div CELL) = item.i_id
      BY <2>4 DEF CELL
    <3> QED  BY <2>5, <3>1 DEF bytes_to_uint32
  <2> QED  BY <2>2, <2>5, <2>6 DEF item
<1> QED  BY <1>1, <1>4, <1>5 DEF Decoded, n, c, cells

------------------------------------------------------------------------------
(* What the parts do to the tables *)

\* What BooksAgree looks at, from tables s to tables t: the district dist and the
\* customer <<home, id>> get h more.
Books(w, s, t, h, dist, home, id) ==
  /\ t.w_ytd = Round(s.w_ytd + h)
  /\ \A i \in District :
       t.district[make_district_key(w, i)].d_ytd
         = IF i = dist THEN Round(s.district[make_district_key(w, i)].d_ytd + h)
           ELSE s.district[make_district_key(w, i)].d_ytd
  /\ \A i \in District, j \in Customer :
       LET key == make_customer_key(w, i, j)
       IN  t.customer[key] = IF i = home /\ j = id THEN Paid(s.customer[key], h) ELSE s.customer[key]

\* The same where nobody pays.
SameBooks(w, s, t) ==
  /\ t.w_ytd = s.w_ytd
  /\ \A i \in District :
       t.district[make_district_key(w, i)].d_ytd = s.district[make_district_key(w, i)].d_ytd
  /\ t.customer = s.customer

\* No order is added.
SameOrders(w, s, t) ==
  /\ \A i \in District : t.district[make_district_key(w, i)].d_next_o_id
                          = s.district[make_district_key(w, i)].d_next_o_id
  /\ t.order = s.order /\ t.new_order = s.new_order /\ t.line = s.line

LEMMA PaymentRuns ==
  ASSUME AppCommon, WarehousesFit, NEW d \in Dpu, NEW s, TablesWhole(d + 1, s),
         NEW p, IsPayment(d, p)
  PROVE  LET t == payment(s, p.params.cells)
             c == p.call
         IN  /\ TablesWhole(d + 1, t)
             /\ Books(d + 1, s, t, c.h_amount, c.d_id,
                      IF c.c_w_id = d + 1 THEN c.c_d_id ELSE 0, c.c_id)
             /\ SameOrders(d + 1, s, t)
<1> DEFINE w  == d + 1
           c  == p.call
           cells == p.params.cells
           h  == c.h_amount
           dk == make_district_key(w, c.d_id)
           ck == make_customer_key(w, c.c_d_id, c.c_id)
           local == c.c_w_id = w
           t  == payment(s, cells)
<1>1. /\ c \in PaymentCalls /\ c.w_id = w /\ Cells(cells, 14, PaymentCells(c))
  BY DEF IsPayment
<1>2. /\ cells[1] = w /\ cells[2] = c.d_id /\ cells[3] = c.c_w_id
      /\ cells[4] = c.c_d_id /\ cells[5] = c.c_id /\ bytes_to_float(cells, 6) = h
      /\ Local(cells) <=> local
  BY <1>1, PaymentDecoded
<1>3. c.d_id \in District /\ c.c_d_id \in District /\ c.c_id \in Customer /\ h \in Amount
  BY <1>1, PaymentIs
<1>4. dk \in DOMAIN s.district /\ ck \in DOMAIN s.customer
  <2>1. <<c.c_d_id, c.c_id>> \in District \X Customer
    BY <1>3
  <2> QED  BY <1>3, <2>1 DEF TablesWhole
<1>5. t = [s EXCEPT !.w_ytd = Round(@ + h),
                    !.district = update(@, dk, Credited(s.district[dk], h)),
                    !.customer = IF local THEN update(@, ck, Paid(s.customer[ck], h)) ELSE @]
  <2>1. make_district_key(cells[1], cells[2]) = dk
    BY <1>2
  <2>2. local => make_customer_key(cells[3], cells[4], cells[5]) = ck
    BY <1>2
  <2> HIDE DEF dk, ck, local, h
  <2> QED  BY <1>2, <1>4, <2>1, <2>2 DEF payment
<1> HIDE DEF t, local, cells, h, c
<1>6. /\ DOMAIN t = DOMAIN s
      /\ t.wild = s.wild /\ t.order = s.order /\ t.new_order = s.new_order /\ t.line = s.line
      /\ t.w_ytd = Round(s.w_ytd + h)
      /\ t.district = update(s.district, dk, Credited(s.district[dk], h))
      /\ t.customer = IF local THEN update(s.customer, ck, Paid(s.customer[ck], h)) ELSE s.customer
  <2> HIDE DEF dk, ck
  <2> QED  BY <1>5 DEF TablesWhole
<1>7. ASSUME NEW i \in District
      PROVE  /\ make_district_key(w, i) \in DOMAIN t.district
             /\ "d_ytd" \in DOMAIN t.district[make_district_key(w, i)]
             /\ t.district[make_district_key(w, i)].d_ytd
                  = IF i = c.d_id THEN Round(s.district[make_district_key(w, i)].d_ytd + h)
                    ELSE s.district[make_district_key(w, i)].d_ytd
  <2> DEFINE k == make_district_key(w, i)
  <2>1. k \in DOMAIN s.district /\ "d_ytd" \in DOMAIN s.district[k]
    BY DEF TablesWhole
  <2>2. CASE i = c.d_id
    <3>1. k = dk
      BY <2>2
    <3>2. t.district[k] = Credited(s.district[dk], h)
      BY <1>4, <1>6, <3>1 DEF update
    <3>3. k \in DOMAIN t.district
      BY <1>6, <2>1 DEF update
    <3> HIDE DEF k, dk, w
    <3>4. /\ "d_ytd" \in DOMAIN Credited(s.district[dk], h)
          /\ Credited(s.district[dk], h).d_ytd = Round(s.district[dk].d_ytd + h)
      BY DEF Credited
    <3>5. t.district[k].d_ytd = Round(s.district[k].d_ytd + h) /\ "d_ytd" \in DOMAIN t.district[k]
      BY <3>1, <3>2, <3>4, Zenon
    <3> QED  BY <2>2, <3>3, <3>5 DEF k
  <2>3. CASE i # c.d_id
    <3>1. k # dk
      BY <1>3, <2>3, DistrictsDiffer, Places
    <3>2. t.district[k] = s.district[k] /\ k \in DOMAIN t.district
      BY <1>6, <2>1, <3>1 DEF update
    <3> QED  BY <2>1, <2>3, <3>2
  <2> QED  BY <2>2, <2>3
<1>8. DOMAIN t.customer = {make_customer_key(w, i[1], i[2]) : i \in District \X Customer}
  <2>1. DOMAIN t.customer = DOMAIN s.customer
    BY <1>6 DEF update
  <2> QED  BY <2>1 DEF TablesWhole
<1>9. ASSUME NEW i \in District, NEW j \in Customer
      PROVE  LET key == make_customer_key(w, i, j)
             IN  /\ key \in DOMAIN s.customer
                 /\ t.customer[key] = IF local /\ i = c.c_d_id /\ j = c.c_id
                                      THEN Paid(s.customer[key], h) ELSE s.customer[key]
  <2> DEFINE key == make_customer_key(w, i, j)
  <2>1. <<i, j>> \in District \X Customer
    OBVIOUS
  <2>2. key \in DOMAIN s.customer
    BY <2>1 DEF TablesWhole
  <2>3. CASE i = c.c_d_id /\ j = c.c_id
    <3>1. key = ck
      BY <2>3
    <3>2. t.customer[key] = IF local THEN Paid(s.customer[key], h) ELSE s.customer[key]
      <4> HIDE DEF key, ck
      <4> QED  BY <1>4, <1>6, <2>2, <3>1 DEF update
    <3> HIDE DEF key
    <3>3. t.customer[key] = IF local /\ i = c.c_d_id /\ j = c.c_id
                            THEN Paid(s.customer[key], h) ELSE s.customer[key]
      BY <2>3, <3>2
    <3> QED  BY <2>2, <3>3 DEF key
  <2>4. CASE ~ (i = c.c_d_id /\ j = c.c_id)
    <3>1. IsCustomer(w, i, j) /\ IsCustomer(w, c.c_d_id, c.c_id)
      <4>1. w \in Warehouse
        BY Places
      <4> HIDE DEF w
      <4> QED  BY <1>3, <4>1, IsOne
    <3>2. key # ck
      BY <2>4, <3>1, CustomersDiffer
    <3>3. t.customer[key] = s.customer[key]
      <4> HIDE DEF key, ck
      <4> QED  BY <1>6, <2>2, <3>2 DEF update
    <3> HIDE DEF key
    <3>4. t.customer[key] = IF local /\ i = c.c_d_id /\ j = c.c_id
                            THEN Paid(s.customer[key], h) ELSE s.customer[key]
      BY <2>4, <3>3
    <3> QED  BY <2>2, <3>4 DEF key
  <2> QED  BY <2>2, <2>3, <2>4
<1>10. ASSUME NEW i \in District, NEW j \in Customer
       PROVE  LET row == t.customer[make_customer_key(w, i, j)]
              IN  /\ {"c_w_id", "c_d_id", "c_id", "c_balance", "c_ytd_payment", "c_payment_cnt"} \subseteq DOMAIN row
                  /\ row.c_w_id = w /\ row.c_d_id = i /\ row.c_id = j
                  /\ make_order_key(w, i, j) \in DOMAIN t.order
  <2> DEFINE key == make_customer_key(w, i, j)
             old == s.customer[key]
             new == t.customer[key]
  <2>1. /\ {"c_w_id", "c_d_id", "c_id", "c_balance", "c_ytd_payment", "c_payment_cnt"} \subseteq DOMAIN old
        /\ old.c_w_id = w /\ old.c_d_id = i /\ old.c_id = j
        /\ make_order_key(w, i, j) \in DOMAIN s.order
    BY DEF TablesWhole
  <2>2. new \in {old, Paid(old, h)}
    BY <1>9
  <2> HIDE DEF old, new, key
  <2>3. /\ {"c_w_id", "c_d_id", "c_id", "c_balance", "c_ytd_payment", "c_payment_cnt"} \subseteq DOMAIN new
        /\ new.c_w_id = w /\ new.c_d_id = i /\ new.c_id = j
    BY <2>1, <2>2 DEF Paid
  <2> QED  BY <1>6, <2>1, <2>3 DEF new, key
<1>11. TablesWhole(w, t)
  <2> HIDE DEF w
  <2> QED  BY <1>6, <1>7, <1>8, <1>10 DEF TablesWhole, w
<1>12. Books(w, s, t, h, c.d_id, IF local THEN c.c_d_id ELSE 0, c.c_id)
  <2>1. 0 \notin District
    BY DEF District
  <2>2. ASSUME NEW i \in District, NEW j \in Customer
        PROVE  LET key == make_customer_key(w, i, j)
               IN  t.customer[key] = IF i = (IF local THEN c.c_d_id ELSE 0) /\ j = c.c_id
                                     THEN Paid(s.customer[key], h) ELSE s.customer[key]
    BY <1>9, <2>1
  <2> QED  BY <1>6, <1>7, <2>2 DEF Books
<1>13. SameOrders(w, s, t)
  <2> DEFINE x == s.district
             y == t.district
  <2>1. y = update(x, dk, Credited(x[dk], h)) /\ dk \in DOMAIN x
    BY <1>4, <1>6
  <2>2. ASSUME NEW i \in District
        PROVE  y[make_district_key(w, i)].d_next_o_id = x[make_district_key(w, i)].d_next_o_id
    <3> DEFINE k == make_district_key(w, i)
    <3>1. k \in DOMAIN x
      BY DEF TablesWhole
    <3> HIDE DEF k, x, y, dk
    <3>2. y[k] = IF k = dk THEN Credited(x[dk], h) ELSE x[k]
      BY <2>1, <3>1 DEF update
    <3>3. y[k].d_next_o_id = x[k].d_next_o_id
      BY <3>2 DEF Credited
    <3> QED  BY <3>3 DEF k
  <2> QED  BY <1>6, <2>2 DEF SameOrders
<1> QED  BY <1>11, <1>12, <1>13 DEF t, local, cells, h, c

\* payment_remote finds nobody.
LEMMA RemoteRuns ==
  ASSUME AppCommon, WarehousesFit, NEW d \in Dpu, NEW s, TablesWhole(d + 1, s),
         NEW p, IsRemote(d, p)
  PROVE  payment_remote(s, p.params.cells) = Null(s)
<1> DEFINE w == d + 1
           c == p.call
           cells == p.params.cells
<1>1. /\ c \in PaymentCalls /\ c.c_w_id = w /\ c.w_id # w /\ Cells(cells, 14, PaymentCells(c))
  BY DEF IsRemote
<1>2. cells[1] = c.w_id /\ cells[2] = c.d_id /\ cells[3] = w
  BY <1>1, PaymentDecoded
<1>3. c.w_id \in Warehouse /\ c.d_id \in District /\ w \in Warehouse
  BY <1>1, PaymentIs
<1> HIDE DEF c, cells, w
<1>4. IsCustomer(c.w_id, c.d_id, w)
  <2>1. /\ c.w_id \in 1 .. n_warehouses /\ w \in 1 .. n_warehouses /\ c.d_id \in 1 .. 10
        /\ n_warehouses \in Nat /\ n_warehouses <= 2600
    BY <1>3, Places, ClientAssumption DEF WarehousesFit, AppCommon
  <2> QED  BY <2>1 DEF IsCustomer
<1>5. make_customer_key(c.w_id, c.d_id, w) \notin DOMAIN s.customer
  <2>1. ASSUME NEW i \in District, NEW j \in Customer
        PROVE  make_customer_key(c.w_id, c.d_id, w) # make_customer_key(w, i, j)
    <3>1. IsCustomer(w, i, j)
      BY <1>3, IsOne
    <3> QED  BY <1>1, <1>4, <3>1, RemoteMisses
  <2>2. DOMAIN s.customer = {make_customer_key(w, i[1], i[2]) : i \in District \X Customer}
    BY Zenon DEF TablesWhole, w
  <2> QED  BY <2>1, <2>2
<1>6. payment_remote(s, cells) = Null(s)
  BY <1>2, <1>5, Zenon DEF payment_remote
<1> QED  BY <1>6 DEF cells

\* What order_status reads: the order with the number of the customer.
StatusRead(w, s, c, read) ==
  LET order == s.order[make_order_key(w, c.d_id, c.c_id)]
  IN  /\ c.d_id \in District /\ c.c_id \in Customer
      /\ read = {[order |-> order, found |-> LinesFound(s, order)]}

\* order_status changes nothing.
LEMMA StatusRuns ==
  ASSUME AppCommon, WarehousesFit, NEW d \in Dpu, NEW s, TablesWhole(d + 1, s),
         NEW p, IsStatus(d, p)
  PROVE  LET o == order_status(s, p.params.cells)
         IN  o.s = s /\ StatusRead(d + 1, s, p.call, o.read)
<1> DEFINE w == d + 1
           c == p.call
           cells == p.params.cells
           ck == make_customer_key(w, c.d_id, c.c_id)
           row == s.customer[ck]
           ok == make_order_key(row.c_w_id, row.c_d_id, row.c_id)
<1>1. c \in OrderStatusCalls /\ c.w_id = w /\ Cells(cells, 6, StatusCells(c))
  BY DEF IsStatus
<1>2. /\ bytes_to_uint32(cells, 1) = w /\ bytes_to_uint32(cells, 3) = c.d_id
      /\ bytes_to_uint32(cells, 5) = c.c_id
  BY <1>1, StatusDecoded
<1>3. c.d_id \in District /\ c.c_id \in Customer
  BY <1>1, StatusIs
<1>4. ck \in DOMAIN s.customer
  <2>1. <<c.d_id, c.c_id>> \in District \X Customer
    BY <1>3
  <2> QED  BY <2>1 DEF TablesWhole
<1>5. ok \in DOMAIN s.order
  BY <1>3 DEF TablesWhole
<1> HIDE DEF w, cells
<1>6. order_status(s, cells) =
        [s |-> s, read |-> {[order |-> s.order[ok], found |-> LinesFound(s, s.order[ok])]}]
  BY <1>2, <1>4, <1>5, Zenon DEF order_status
<1>7. ok = make_order_key(w, c.d_id, c.c_id)
  <2>1. row.c_w_id = w /\ row.c_d_id = c.d_id /\ row.c_id = c.c_id
    BY <1>3 DEF TablesWhole, w
  <2> QED  BY <2>1
<1>8. order_status(s, cells).s = s /\ order_status(s, cells).read = {[order |-> s.order[ok], found |-> LinesFound(s, s.order[ok])]}
  <2> HIDE DEF ok
  <2> QED  BY <1>6
<1>9. StatusRead(w, s, c, order_status(s, cells).read)
  BY <1>3, <1>7, <1>8 DEF StatusRead
<1> QED  BY <1>8, <1>9 DEF w, cells

\* What new_order does to the tables s, which are t then.
OrderPut(s, t, w, c, cells, items) ==
  LET dk == make_district_key(w, c.d_id)
      id == NextNumber(s.district[dk])
  IN  /\ DOMAIN t = DOMAIN s /\ t.wild = s.wild /\ t.w_ytd = s.w_ytd /\ t.customer = s.customer
      /\ t.district = update(s.district, dk, Advanced(s.district[dk]))
      /\ t.order = insert(s.order, make_order_key(w, c.d_id, id),
                          Order(w, c.d_id, c.c_id, id, 0, Len(c.items)))
      /\ t.new_order = insert(s.new_order, make_new_order_key(w, c.d_id, id), <<w, c.d_id, id>>)
      /\ t.line = WithLines(s.line, cells, id, items)

LEMMA OrderDone ==
  ASSUME AppCommon, WarehousesFit, NEW d \in Dpu, NEW s, TablesWhole(d + 1, s),
         NEW p, IsNewOrder(d, p), NEW g
  PROVE  LET items == Items(p.params.cells, g)
         IN  OrderPut(s, new_order(s, p.params.cells, items), d + 1, p.call, p.params.cells, items)
<1> DEFINE w == d + 1
           c == p.call
           cells == p.params.cells
           n == Len(c.items)
           items == Items(cells, g)
           dk == make_district_key(w, c.d_id)
           id == NextNumber(s.district[dk])
           t == new_order(s, cells, items)
<1>1. c \in NewOrderCalls /\ c.w_id = w /\ Cells(cells, 11 + 4 * n, OrderCells(c))
  BY DEF IsNewOrder
<1>2. /\ c.d_id \in District
      /\ cells[1] = w /\ cells[2] = c.d_id /\ cells[3] = c.c_id /\ cells[4] = n
      /\ \A i \in 0 .. n - 1 : items[i].ol_supply_w_id = w
  <2>1. Decoded(c, cells, g)
    BY OrderDecoded
  <2> QED  BY <1>1, <2>1, Zenon DEF Decoded
<1>3. dk \in DOMAIN s.district
  BY <1>2 DEF TablesWhole
<1> HIDE DEF cells, items, n, w, t
<1>4. t = [s EXCEPT !.district  = update(@, dk, Advanced(s.district[dk])),
                    !.order     = insert(@, make_order_key(w, c.d_id, id), Order(w, c.d_id, c.c_id, id, 0, n)),
                    !.new_order = insert(@, make_new_order_key(w, c.d_id, id), <<w, c.d_id, id>>),
                    !.line      = WithLines(@, cells, id, items)]
  BY <1>2, <1>3, Zenon DEF new_order, t
<1>5. /\ DOMAIN t = DOMAIN s /\ t.wild = s.wild /\ t.w_ytd = s.w_ytd /\ t.customer = s.customer
      /\ t.district = update(s.district, dk, Advanced(s.district[dk]))
      /\ t.order = insert(s.order, make_order_key(w, c.d_id, id), Order(w, c.d_id, c.c_id, id, 0, n))
      /\ t.new_order = insert(s.new_order, make_new_order_key(w, c.d_id, id), <<w, c.d_id, id>>)
      /\ t.line = WithLines(s.line, cells, id, items)
  <2> HIDE DEF dk, id
  <2> QED  BY <1>4, SMT DEF TablesWhole
<1> QED  BY <1>5 DEF OrderPut, w, cells, items, n, t

\* new_order only adds.
LEMMA OrderRuns ==
  ASSUME AppCommon, WarehousesFit, NEW d \in Dpu, NEW s, TablesWhole(d + 1, s),
         NEW p, IsNewOrder(d, p), NEW g
  PROVE  LET t == new_order(s, p.params.cells, Items(p.params.cells, g))
         IN  TablesWhole(d + 1, t) /\ SameBooks(d + 1, s, t)
<1> DEFINE w == d + 1
           c == p.call
           cells == p.params.cells
           items == Items(cells, g)
           dk == make_district_key(w, c.d_id)
           t == new_order(s, cells, items)
<1>1. c.d_id \in District
  BY OrderIs DEF IsNewOrder
<1>4. dk \in DOMAIN s.district
  BY <1>1 DEF TablesWhole
<1>5. OrderPut(s, t, w, c, cells, items)
  BY OrderDone
<1> HIDE DEF cells, items, w, t
<1>7. /\ DOMAIN t = DOMAIN s /\ t.wild = s.wild /\ t.w_ytd = s.w_ytd /\ t.customer = s.customer
      /\ DOMAIN s.order \subseteq DOMAIN t.order
      /\ t.district = update(s.district, dk, Advanced(s.district[dk]))
  BY <1>5 DEF OrderPut, insert
<1>8. ASSUME NEW i \in District
      PROVE  /\ make_district_key(w, i) \in DOMAIN t.district
             /\ "d_ytd" \in DOMAIN t.district[make_district_key(w, i)]
             /\ t.district[make_district_key(w, i)].d_ytd = s.district[make_district_key(w, i)].d_ytd
  <2> DEFINE k == make_district_key(w, i)
  <2>1. k \in DOMAIN s.district /\ "d_ytd" \in DOMAIN s.district[k]
    BY DEF TablesWhole, w
  <2> HIDE DEF k, dk
  <2>2. k \in DOMAIN t.district
    BY <1>7, <2>1 DEF update
  <2>3. /\ "d_ytd" \in DOMAIN Advanced(s.district[dk])
        /\ Advanced(s.district[dk]).d_ytd = s.district[dk].d_ytd
    BY DEF Advanced
  <2>4. t.district[k] = IF k = dk THEN Advanced(s.district[dk]) ELSE s.district[k]
    BY <1>7, <1>4, <2>1 DEF update
  <2>5. "d_ytd" \in DOMAIN t.district[k] /\ t.district[k].d_ytd = s.district[k].d_ytd
    BY <2>1, <2>3, <2>4, Zenon
  <2> QED  BY <2>2, <2>5 DEF k
<1>9. TablesWhole(w, t)
  <2>1. TablesWhole(w, s)
    BY DEF w
  <2> QED  BY <1>7, <1>8, <2>1 DEF TablesWhole
<1>10. SameBooks(w, s, t)
  BY <1>7, <1>8 DEF SameBooks
<1> QED  BY <1>9, <1>10 DEF t, w, cells, items

------------------------------------------------------------------------------
(* What the DPUs have run *)

\* A sequence of whatever elements.
IsSeq(s) == s \in Seq(ToSet(s))

LEMMA EmptyIsSeq == IsSeq(<<>>) /\ ToSet(<<>>) = {}
BY EmptySeq DEF IsSeq, ToSet

LEMMA AppendSeq ==
  ASSUME NEW s, IsSeq(s), NEW e
  PROVE  LET t == Append(s, e)
         IN  /\ IsSeq(t) /\ Len(s) \in Nat /\ DOMAIN s = 1 .. Len(s)
             /\ Len(t) = Len(s) + 1 /\ DOMAIN t = 1 .. Len(s) + 1
             /\ \A i \in 1 .. Len(s) : t[i] = s[i]
             /\ t[Len(s) + 1] = e
<1> DEFINE S == ToSet(s) \cup {e}
           t == Append(s, e)
<1>1. s \in Seq(S) /\ e \in S
  BY SeqMonotonic DEF IsSeq
<1> HIDE DEF S
<1>2. /\ t \in Seq(S)
      /\ Len(t) = Len(s) + 1
      /\ \A i \in 1 .. Len(s) : t[i] = s[i]
      /\ t[Len(s) + 1] = e
  BY <1>1, AppendProperties
<1>3. DOMAIN s = 1 .. Len(s) /\ DOMAIN t = 1 .. Len(s) + 1 /\ Len(s) \in Nat
  BY <1>1, <1>2, LenProperties
<1> HIDE DEF t
<1>4. ToSet(t) = S
  BY <1>2, <1>3 DEF ToSet, S
<1> QED  BY <1>2, <1>3, <1>4 DEF IsSeq, t

LEMMA RemoveSeq ==
  ASSUME NEW T, NEW s \in Seq(T), NEW i \in DOMAIN s
  PROVE  RemoveAt(s, i) \in Seq(T)
<1>1. i \in Nat /\ 1 <= i /\ i <= Len(s) /\ Len(s) \in Nat
  BY LenProperties
<1>2. SubSeq(s, 1, i - 1) \in Seq(T) /\ SubSeq(s, i + 1, Len(s)) \in Seq(T)
  BY <1>1
<1> QED  BY <1>2, ConcatProperties DEF RemoveAt

(* Every DPU has run parts of calls that are its own, and its tables are whole until   *)
(* a part of a payment has missed its customer.                                        *)
PartsInv ==
  /\ DOMAIN pending = Dpu /\ \A d \in Dpu : pending[d] \in Seq(Part(d))
  /\ DOMAIN done = Dpu /\ \A d \in Dpu : IsSeq(done[d])
  /\ DOMAIN db = Dpu
  /\ \A d \in Dpu : db[d].wild \in BOOLEAN /\ (~ db[d].wild => TablesWhole(d + 1, db[d]))

\* What a new order has done.
Ordered(w, s, t, p) ==
  /\ p.call \in NewOrderCalls /\ p.call.w_id = w
  /\ \E g : LET items == Items(p.params.cells, g)
            IN  /\ Decoded(p.call, p.params.cells, g)
                /\ OrderPut(s, t, w, p.call, p.params.cells, items)

\* What one part does: the remote part of a payment writes through NULL, and no
\* other does.
Ran1(d, s, p, t) ==
  IF p.type = "PAYMENT_REMOTE" THEN t.wild = TRUE
  ELSE /\ t.wild = FALSE /\ TablesWhole(d + 1, t)
       /\ IF p.type = "PAYMENT"
          THEN /\ p.call \in PaymentCalls /\ p.call.w_id = d + 1
               /\ Books(d + 1, s, t, p.call.h_amount, p.call.d_id,
                        IF p.call.c_w_id = d + 1 THEN p.call.c_d_id ELSE 0, p.call.c_id)
          ELSE SameBooks(d + 1, s, t)
       /\ IF p.type = "NEW_ORDER" THEN Ordered(d + 1, s, t, p) ELSE SameOrders(d + 1, s, t)

\* What it has read.
Read1(d, s, p, read) ==
  IF p.type = "ORDER_STATUS" THEN StatusRead(d + 1, s, p.call, read) ELSE read = {}

LEMMA PartRuns ==
  ASSUME AppCommon, WarehousesFit, NEW d \in Dpu, NEW s, TablesWhole(d + 1, s),
         NEW p \in Part(d), NEW o \in Outcomes(s, p)
  PROVE  Ran1(d, s, p, o.s) /\ Read1(d, s, p, o.read)
<1> DEFINE cells == p.params.cells
<1>1. CASE IsPayment(d, p)
  <2>1. p.type = "PAYMENT" /\ p.call \in PaymentCalls /\ p.call.w_id = d + 1
    BY <1>1 DEF IsPayment
  <2>2. o.s = payment(s, cells) /\ o.read = {}
    BY <2>1 DEF Outcomes
  <2> HIDE DEF cells
  <2>3. /\ TablesWhole(d + 1, o.s)
        /\ Books(d + 1, s, o.s, p.call.h_amount, p.call.d_id,
                 IF p.call.c_w_id = d + 1 THEN p.call.c_d_id ELSE 0, p.call.c_id)
        /\ SameOrders(d + 1, s, o.s)
    BY <1>1, <2>2, PaymentRuns DEF cells
  <2>4. o.s.wild = FALSE
    BY <2>3 DEF TablesWhole
  <2> QED  BY <2>1, <2>2, <2>3, <2>4 DEF Ran1, Read1
<1>2. CASE IsRemote(d, p)
  <2>1. p.type = "PAYMENT_REMOTE"
    BY <1>2 DEF IsRemote
  <2>2. o.s = payment_remote(s, cells) /\ o.read = {}
    BY <2>1 DEF Outcomes
  <2>3. o.s = Null(s)
    BY <1>2, <2>2, RemoteRuns
  <2>4. o.s.wild = TRUE
    BY <2>3 DEF Null, TablesWhole
  <2> QED  BY <2>1, <2>2, <2>4 DEF Ran1, Read1
<1>3. CASE IsNewOrder(d, p)
  <2>1. p.type = "NEW_ORDER" /\ p.call \in NewOrderCalls /\ p.call.w_id = d + 1
    BY <1>3 DEF IsNewOrder
  <2>2. PICK g : o.s = new_order(s, cells, Items(cells, g)) /\ o.read = {}
    BY <2>1 DEF Outcomes
  <2> HIDE DEF cells
  <2>3. TablesWhole(d + 1, o.s) /\ SameBooks(d + 1, s, o.s)
    BY <1>3, <2>2, OrderRuns DEF cells
  <2>4. o.s.wild = FALSE
    BY <2>3 DEF TablesWhole
  <2>5. Ordered(d + 1, s, o.s, p)
    <3>1. OrderPut(s, o.s, d + 1, p.call, cells, Items(cells, g))
      BY <1>3, <2>2, OrderDone DEF cells
    <3>2. Decoded(p.call, cells, g)
      BY <1>3, OrderDecoded DEF cells
    <3> QED  BY <2>1, <3>1, <3>2 DEF Ordered, cells
  <2> QED  BY <2>1, <2>2, <2>3, <2>4, <2>5 DEF Ran1, Read1
<1>4. CASE IsStatus(d, p)
  <2>1. p.type = "ORDER_STATUS"
    BY <1>4 DEF IsStatus
  <2>2. o.s = s /\ StatusRead(d + 1, s, p.call, o.read)
    <3>1. o = order_status(s, cells)
      BY <2>1 DEF Outcomes
    <3> QED  BY <1>4, <3>1, StatusRuns
  <2>3. SameBooks(d + 1, s, s) /\ SameOrders(d + 1, s, s)
    BY DEF SameBooks, SameOrders
  <2>4. s.wild = FALSE
    BY DEF TablesWhole
  <2> QED  BY <2>1, <2>2, <2>3, <2>4 DEF Ran1, Read1
<1> QED  BY <1>1, <1>2, <1>3, <1>4, PartIs

\* One run of a part.
LEMMA ExecRuns ==
  ASSUME AppCommon, WarehousesFit, PartsInv, NEW d \in Dpu, NEW i \in DOMAIN pending[d], Exec(d, i)
  PROVE  /\ PartsInv'
         /\ ~ db[d].wild
         /\ \E p \in Part(d) : \E read :
              /\ Ran1(d, db[d], p, db'[d]) /\ Read1(d, db[d], p, read)
              /\ done'[d] = Append(done[d], [type |-> p.type, call |-> p.call, read |-> read])
         /\ \A e \in Dpu \ {d} : db'[e] = db[e] /\ done'[e] = done[e]
<1> DEFINE p == pending[d][i]
<1>1. PICK o \in Outcomes(db[d], p) :
        /\ db' = [db EXCEPT ![d] = o.s]
        /\ done' = [done EXCEPT ![d] = Append(@, [type |-> p.type, call |-> p.call, read |-> o.read])]
  BY DEF Exec
<1>2. ~ db[d].wild /\ pending' = [pending EXCEPT ![d] = RemoveAt(@, i)]
  BY DEF Exec
<1>3. p \in Part(d)
  BY DEF PartsInv
<1>4. TablesWhole(d + 1, db[d])
  BY <1>2 DEF PartsInv
<1>5. Ran1(d, db[d], p, o.s) /\ Read1(d, db[d], p, o.read)
  <2> HIDE DEF p
  <2> QED  BY <1>3, <1>4, PartRuns
<1>6. DOMAIN pending' = Dpu /\ \A e \in Dpu : pending'[e] \in Seq(Part(e))
  <2>1. RemoveAt(pending[d], i) \in Seq(Part(d))
    BY RemoveSeq DEF PartsInv
  <2> QED  BY <1>2, <2>1 DEF PartsInv
<1>7. /\ DOMAIN done' = Dpu
      /\ done'[d] = Append(done[d], [type |-> p.type, call |-> p.call, read |-> o.read])
      /\ \A e \in Dpu \ {d} : done'[e] = done[e]
  BY <1>1 DEF PartsInv
<1>8. DOMAIN db' = Dpu /\ db'[d] = o.s /\ \A e \in Dpu \ {d} : db'[e] = db[e]
  BY <1>1 DEF PartsInv
<1> HIDE DEF p
<1>9. \A e \in Dpu : IsSeq(done'[e])
  <2>1. IsSeq(done[d]) /\ \A e \in Dpu : IsSeq(done[e])
    BY DEF PartsInv
  <2>2. IsSeq(done'[d])
    BY <1>7, <2>1, AppendSeq
  <2> QED  BY <1>7, <2>1, <2>2
<1>10. \A e \in Dpu : db'[e].wild \in BOOLEAN /\ (~ db'[e].wild => TablesWhole(e + 1, db'[e]))
  <2>1. db'[d].wild \in BOOLEAN /\ (~ db'[d].wild => TablesWhole(d + 1, db'[d]))
    BY <1>5, <1>8 DEF Ran1
  <2> QED  BY <1>8, <2>1 DEF PartsInv
<1>11. PartsInv'
  BY <1>6, <1>7, <1>8, <1>9, <1>10 DEF PartsInv, Dpu, TablesWhole
<1> QED  BY <1>2, <1>3, <1>5, <1>7, <1>8, <1>11

LEMMA Generated ==
  ASSUME PartsInv, NEW call \in Drawn, Generate(call)
  PROVE  PartsInv'
<1> DEFINE parts == Parts(call)
<1>1. db' = db /\ done' = done
  BY DEF Generate
<1>2. DOMAIN pending' = Dpu /\ \A d \in Dpu : pending'[d] \in Seq(Part(d))
  <2>1. CASE \E d \in DOMAIN parts : parts[d].params.failed
    BY <2>1 DEF Generate, PartsInv
  <2>2. CASE ~ \E d \in DOMAIN parts : parts[d].params.failed
    <3>1. pending' = [d \in Dpu |-> pending[d] \o IF d \in DOMAIN parts THEN <<parts[d]>> ELSE <<>>]
      BY <2>2 DEF Generate
    <3>2. ASSUME NEW d \in Dpu
          PROVE  pending'[d] \in Seq(Part(d))
      <4>1. pending[d] \in Seq(Part(d))
        BY DEF PartsInv
      <4>2. d \in DOMAIN parts => parts[d] \in Part(d)
        BY <2>2, ApplicationAssumption DEF Part
      <4> HIDE DEF parts
      <4>3. (IF d \in DOMAIN parts THEN <<parts[d]>> ELSE <<>>) \in Seq(Part(d))
        BY <4>2
      <4> QED  BY <3>1, <4>1, <4>3, ConcatProperties
    <3> QED  BY <3>1, <3>2
  <2> QED  BY <2>1, <2>2
<1> QED  BY <1>1, <1>2 DEF PartsInv, TablesWhole, Dpu

LEMMA PartsStart ==
  ASSUME AppCommon, WarehousesFit, Init
  PROVE  PartsInv
<1>1. ASSUME NEW d \in Dpu
      PROVE  db[d].wild = FALSE /\ TablesWhole(d + 1, db[d])
  <2>1. d + 1 \in Warehouse
    BY Places
  <2>2. TablesWhole(d + 1, Loaded(d + 1))
    BY <2>1, LoadedWhole
  <2>3. db[d] = Loaded(d + 1)
    BY DEF Init
  <2> QED  BY <2>2, <2>3 DEF TablesWhole
<1>2. \A d \in Dpu : IsSeq(done[d])
  BY EmptyIsSeq DEF Init
<1> QED  BY <1>1, <1>2, EmptySeq DEF Init, PartsInv

(* No transaction uses a row it has not found, except payment_remote, which  *)
(* never finds its customer (application.c:76, 136-145, 190, 255-263).       *)
THEOREM NullOnlyIfRemote == Spec /\ AppCommon /\ WarehousesFit => []NullIfRemote
<1> DEFINE I == AppCommon /\ WarehousesFit /\ PartsInv /\ NullIfRemote
<1>1. Init /\ AppCommon /\ WarehousesFit => I
  <2> SUFFICES ASSUME Init, AppCommon, WarehousesFit
               PROVE  I
    OBVIOUS
  <2>1. PartsInv
    BY PartsStart
  <2>2. NullIfRemote
    BY DEF Init, NullIfRemote, Loaded
  <2> QED  BY <2>1, <2>2
<1>2. I /\ [Next]_vars => I'
  <2> SUFFICES ASSUME I, [Next]_vars
               PROVE  I'
    OBVIOUS
  <2>0. AppCommon' /\ WarehousesFit'
    BY DEF AppCommon, WarehousesFit
  <2>1. ASSUME NEW call \in Drawn, Generate(call)
        PROVE  PartsInv' /\ NullIfRemote'
    <3>1. NullIfRemote'
      BY <2>1 DEF Generate, NullIfRemote
    <3> QED  BY <2>1, <3>1, Generated
  <2>2. CASE Start
    BY <2>2 DEF Start, PartsInv, NullIfRemote
  <2>3. ASSUME NEW d \in Dpu, NEW i \in DOMAIN pending[d], Exec(d, i)
        PROVE  PartsInv' /\ NullIfRemote'
    <3>1. PartsInv'
      BY <2>3, ExecRuns
    <3>2. PICK p, read :
            /\ Ran1(d, db[d], p, db'[d])
            /\ done'[d] = Append(done[d], [type |-> p.type, call |-> p.call, read |-> read])
      BY <2>3, ExecRuns
    <3>3. ~ db[d].wild /\ \A e \in Dpu \ {d} : db'[e] = db[e] /\ done'[e] = done[e]
      BY <2>3, ExecRuns
    <3>4. IsSeq(done[d])
      BY DEF PartsInv
    <3> DEFINE entry == [type |-> p.type, call |-> p.call, read |-> read]
    <3>5. /\ DOMAIN done[d] = 1 .. Len(done[d]) /\ DOMAIN done'[d] = 1 .. Len(done[d]) + 1
          /\ Len(done[d]) \in Nat
          /\ \A k \in 1 .. Len(done[d]) : done'[d][k] = done[d][k]
          /\ done'[d][Len(done[d]) + 1] = entry
      <4> HIDE DEF entry
      <4> QED  BY <3>2, <3>4, AppendSeq DEF entry
    <3>6. db'[d].wild <=> p.type = "PAYMENT_REMOTE"
      BY <3>2 DEF Ran1
    <3>7. ~ \E k \in DOMAIN done[d] : done[d][k].type = "PAYMENT_REMOTE"
      BY <3>3 DEF NullIfRemote
    <3>8. (\E k \in DOMAIN done'[d] : done'[d][k].type = "PAYMENT_REMOTE") <=> p.type = "PAYMENT_REMOTE"
      <4>1. entry.type = p.type
        OBVIOUS
      <4> HIDE DEF entry
      <4> QED  BY <3>5, <3>7, <4>1
    <3>9. \A e \in Dpu : db'[e].wild <=> \E k \in DOMAIN done'[e] : done'[e][k].type = "PAYMENT_REMOTE"
      BY <3>3, <3>6, <3>8 DEF NullIfRemote
    <3> QED  BY <3>1, <3>9 DEF NullIfRemote, Dpu
  <2>4. CASE UNCHANGED vars
    BY <2>4 DEF vars, PartsInv, NullIfRemote
  <2> QED  BY <2>0, <2>1, <2>2, <2>3, <2>4 DEF Next
<1> QED  BY <1>1, <1>2, PTL DEF Spec

------------------------------------------------------------------------------
(* Sums over finite sets, in whatever order they are taken *)

First(s) == CHOOSE x \in s : TRUE

\* g is the sum of f over each subset of S.
IsSum(g, f, S) ==
  g = [s \in SUBSET S |-> IF s = {} THEN 0 ELSE f[First(s)] + g[s \ {First(s)}]]

Total(f, S) == (CHOOSE g : IsSum(g, f, S))[S]

LEMMA FirstIn ==
  ASSUME NEW S, IsFiniteSet(S), NEW s \in SUBSET S, s # {}
  PROVE  /\ First(s) \in s /\ s \ {First(s)} \in SUBSET S
         /\ Cardinality(s) \in Nat \ {0}
         /\ \A x \in s : /\ s \ {x} \in SUBSET S
                         /\ Cardinality(s \ {x}) = Cardinality(s) - 1
<1>1. IsFiniteSet(s)
  BY FS_Subset
<1>2. Cardinality(s) \in Nat \ {0}
  BY <1>1, FS_CardinalityType, FS_EmptySet
<1>3. First(s) \in s
  BY DEF First
<1>4. \A x \in s : Cardinality(s \ {x}) = Cardinality(s) - 1
  BY <1>1, FS_RemoveElement
<1> QED  BY <1>2, <1>3, <1>4

LEMMA SumExists ==
  ASSUME NEW S, IsFiniteSet(S), NEW f
  PROVE  \E g : IsSum(g, f, S)
<1> DEFINE Sum(g, s) == IF s = {} THEN 0 ELSE f[First(s)] + g[s \ {First(s)}]
           UpTo(g, m) == /\ g = [s \in SUBSET S |-> g[s]]
                         /\ \A s \in SUBSET S : Cardinality(s) <= m => g[s] = Sum(g, s)
           Ms == {m \in Nat : \E g : UpTo(g, m)}
<1>1. 0 \in Ms
  <2> DEFINE g == [s \in SUBSET S |-> 0]
  <2>1. ASSUME NEW s \in SUBSET S, Cardinality(s) <= 0
        PROVE  s = {}
    BY <2>1, FirstIn
  <2>2. UpTo(g, 0)
    BY <2>1
  <2> QED  BY <2>2
<1>2. ASSUME NEW m \in Nat, m \in Ms
      PROVE  m + 1 \in Ms
  <2>1. PICK g : UpTo(g, m)
    BY <1>2
  <2> DEFINE h == [s \in SUBSET S |-> Sum(g, s)]
  <2>2. ASSUME NEW s \in SUBSET S, Cardinality(s) <= m + 1
        PROVE  h[s] = Sum(h, s)
    <3>1. CASE s = {}
      BY <3>1
    <3>2. CASE s # {}
      <4> DEFINE t == s \ {First(s)}
      <4>1. First(s) \in s /\ t \in SUBSET S /\ Cardinality(t) = Cardinality(s) - 1 /\ Cardinality(s) \in Nat
        BY <3>2, FirstIn
      <4>2. Cardinality(t) <= m
        BY <2>2, <4>1
      <4>3. g[t] = h[t]
        BY <2>1, <4>1, <4>2
      <4> QED  BY <3>2, <4>1, <4>3
    <3> QED  BY <3>1, <3>2
  <2>3. UpTo(h, m + 1)
    <3>1. h = [s \in SUBSET S |-> h[s]]
      OBVIOUS
    <3> HIDE DEF h
    <3> QED  BY <2>2, <3>1
  <2> HIDE DEF h, UpTo
  <2> QED  BY <2>3
<1> HIDE DEF Ms
<1>3. Cardinality(S) \in Nat /\ \A s \in SUBSET S : Cardinality(s) <= Cardinality(S)
  BY FS_CardinalityType, FS_Subset
<1>4. Cardinality(S) \in Ms
  BY <1>1, <1>2, <1>3, SetInduction
<1>5. PICK g : UpTo(g, Cardinality(S))
  BY <1>4 DEF Ms
<1>6. IsSum(g, f, S)
  BY <1>3, <1>5 DEF IsSum
<1> QED  BY <1>6

\* g is the sum of the numbers f.
SumsNumbers(g, f, S) == IsFiniteSet(S) /\ (\A x \in S : f[x] \in Int) /\ IsSum(g, f, S)

\* The order does not matter.
LEMMA SumAnyOrder ==
  ASSUME NEW S, NEW f, NEW g, SumsNumbers(g, f, S), NEW s \in SUBSET S
  PROVE  g[s] \in Int /\ \A x \in s : g[s] = f[x] + g[s \ {x}]
<1> USE DEF SumsNumbers
<1> DEFINE Good(t) == g[t] \in Int /\ \A x \in t : g[t] = f[x] + g[t \ {x}]
           Ms == {m \in Nat : \A t \in SUBSET S : Cardinality(t) <= m => Good(t)}
<1>1. \A t \in SUBSET S : g[t] = IF t = {} THEN 0 ELSE f[First(t)] + g[t \ {First(t)}]
  BY DEF IsSum
<1>0. Good({})
  <2>1. {} \in SUBSET S
    OBVIOUS
  <2>2. g[{}] = 0
    BY <1>1, <2>1, Zenon
  <2> QED  BY <2>2
<1>2. 0 \in Ms
  <2>1. ASSUME NEW t \in SUBSET S, Cardinality(t) <= 0
        PROVE  t = {}
    BY <2>1, FirstIn
  <2> HIDE DEF Good
  <2> QED  BY <1>0, <2>1
<1>3. ASSUME NEW m \in Nat, m \in Ms
      PROVE  m + 1 \in Ms
  <2> SUFFICES ASSUME NEW t \in SUBSET S, Cardinality(t) <= m + 1, t # {}
               PROVE  Good(t)
    <3> HIDE DEF Good
    <3> QED  BY <1>0
  <2> DEFINE c == First(t)
  <2>1. /\ c \in t /\ Cardinality(t) \in Nat
        /\ \A x \in t : t \ {x} \in SUBSET S /\ Cardinality(t \ {x}) = Cardinality(t) - 1
    BY FirstIn
  <2>2. g[t] = f[c] + g[t \ {c}]
    BY <1>1
  <2> HIDE DEF c, Good
  <2>3. \A x \in t : Good(t \ {x})
    BY <1>3, <2>1
  <2>4. g[t] \in Int
    BY <2>1, <2>2, <2>3 DEF Good
  <2>5. ASSUME NEW x \in t
        PROVE  g[t] = f[x] + g[t \ {x}]
    <3>1. CASE x = c
      BY <2>2, <3>1
    <3>2. CASE x # c
      <4> DEFINE u == (t \ {c}) \ {x}
      <4>1. u = (t \ {x}) \ {c} /\ x \in t \ {c} /\ c \in t \ {x}
        BY <2>1, <3>2
      <4>2. g[t \ {c}] = f[x] + g[u]
        BY <2>1, <2>3, <4>1 DEF Good
      <4>3. g[t \ {x}] = f[c] + g[u]
        BY <2>3, <4>1 DEF Good
      <4>4. u \in SUBSET S /\ Good(u)
        <5>1. u \in SUBSET S /\ Cardinality(u) <= m
          <6>1. t \ {c} \in SUBSET S /\ Cardinality(t \ {c}) = Cardinality(t) - 1 /\ t \ {c} # {}
            BY <2>1, <4>1
          <6> DEFINE v == t \ {c}
          <6>3. v \in SUBSET S /\ v # {} /\ x \in v
            BY <4>1, <6>1
          <6> HIDE DEF v
          <6>4. v \ {x} \in SUBSET S /\ Cardinality(v \ {x}) = Cardinality(v) - 1
            BY <6>3, FirstIn
          <6>2. Cardinality(u) = Cardinality(t \ {c}) - 1 /\ u \in SUBSET S
            BY <6>4 DEF v
          <6> HIDE DEF u
          <6> QED  BY <2>1, <6>1, <6>2
        <5> QED  BY <1>3, <5>1
      <4> HIDE DEF u
      <4>5. f[x] \in Int /\ f[c] \in Int /\ g[u] \in Int
        BY <2>1, <4>4 DEF Good
      <4> QED  BY <2>2, <4>2, <4>3, <4>5
    <3> QED  BY <3>1, <3>2
  <2> QED  BY <2>4, <2>5 DEF Good
<1> HIDE DEF Ms
<1>4. Cardinality(s) \in Nat
  BY FS_CardinalityType, FS_Subset
<1>5. Cardinality(s) \in Ms
  BY <1>2, <1>3, <1>4, SetInduction
<1>6. Good(s)
  <2> HIDE DEF Good
  <2> QED  BY <1>4, <1>5 DEF Ms
<1> QED  BY <1>6

\* What f is elsewhere does not matter either.
LEMMA SumSame ==
  ASSUME NEW S, IsFiniteSet(S), NEW f, NEW g, IsSum(g, f, S),
         NEW T, IsFiniteSet(T), NEW e, NEW h, IsSum(h, e, T),
         NEW s, s \in SUBSET S, s \in SUBSET T, \A x \in s : f[x] = e[x]
  PROVE  g[s] = h[s]
<1> DEFINE Ms == {m \in Nat : \A t \in SUBSET s : Cardinality(t) <= m => g[t] = h[t]}
<1>1. /\ \A t \in SUBSET S : g[t] = IF t = {} THEN 0 ELSE f[First(t)] + g[t \ {First(t)}]
      /\ \A t \in SUBSET T : h[t] = IF t = {} THEN 0 ELSE e[First(t)] + h[t \ {First(t)}]
  BY DEF IsSum
<1>2. 0 \in Ms
  <2>1. ASSUME NEW t \in SUBSET s, Cardinality(t) <= 0
        PROVE  t = {}
    BY <2>1, FirstIn
  <2>2. \A t \in SUBSET s : t = {} => g[t] = h[t]
    BY <1>1
  <2> QED  BY <2>1, <2>2
<1>3. ASSUME NEW m \in Nat, m \in Ms
      PROVE  m + 1 \in Ms
  <2> SUFFICES ASSUME NEW t \in SUBSET s, Cardinality(t) <= m + 1
               PROVE  g[t] = h[t]
    OBVIOUS
  <2>0. t \in SUBSET S /\ t \in SUBSET T
    OBVIOUS
  <2>1. CASE t = {}
    BY <1>1, <2>0, <2>1
  <2>2. CASE t # {}
    <3> DEFINE c == First(t)
               u == t \ {c}
    <3>1. c \in t /\ u \in SUBSET s /\ Cardinality(t) \in Nat /\ Cardinality(u) = Cardinality(t) - 1
      BY <2>0, <2>2, FirstIn
    <3>2. g[u] = h[u]
      <4> HIDE DEF u
      <4>1. Cardinality(u) <= m
        BY <3>1
      <4> QED  BY <1>3, <3>1, <4>1
    <3>3. f[c] = e[c]
      BY <3>1
    <3>4. g[t] = f[c] + g[u] /\ h[t] = e[c] + h[u]
      BY <1>1, <2>0, <2>2
    <3> QED  BY <3>2, <3>3, <3>4
  <2> QED  BY <2>1, <2>2
<1> HIDE DEF Ms
<1>4. Cardinality(s) \in Nat
  BY FS_CardinalityType, FS_Subset
<1>5. Cardinality(s) \in Ms
  BY <1>2, <1>3, <1>4, SetInduction
<1> QED  BY <1>4, <1>5 DEF Ms

LEMMA TotalIs ==
  ASSUME NEW S, IsFiniteSet(S), NEW f
  PROVE  \E g : IsSum(g, f, S) /\ Total(f, S) = g[S]
<1>1. IsSum(CHOOSE g : IsSum(g, f, S), f, S)
  BY SumExists
<1> QED  BY <1>1 DEF Total

\* f goes on from e with x.
GoesOn(S, e, f, x) ==
  /\ IsFiniteSet(S) /\ x \notin S /\ f[x] \in Int
  /\ \A y \in S : f[y] \in Int /\ e[y] = f[y]

LEMMA TotalMore ==
  ASSUME NEW S, NEW e, NEW f, NEW x, GoesOn(S, e, f, x)
  PROVE  Total(f, S \cup {x}) = Total(e, S) + f[x]
<1> DEFINE T == S \cup {x}
<1>0. /\ IsFiniteSet(S) /\ x \notin S /\ f[x] \in Int
      /\ \A y \in S : f[y] \in Int /\ e[y] = f[y]
  BY DEF GoesOn
<1>1. IsFiniteSet(T) /\ T \ {x} = S
  BY <1>0, FS_AddElement
<1> HIDE DEF T
<1>2. PICK g : IsSum(g, f, T) /\ Total(f, T) = g[T]
  BY <1>1, TotalIs
<1>3. PICK h : IsSum(h, e, S) /\ Total(e, S) = h[S]
  BY <1>0, TotalIs
<1>7. g[T] = f[x] + g[S]
  <2>1. x \in T /\ T \in SUBSET T /\ \A y \in T : f[y] \in Int
    BY <1>0 DEF T
  <2>2. SumsNumbers(g, f, T)
    BY <1>1, <1>2, <2>1 DEF SumsNumbers
  <2> QED  BY <1>1, <2>1, <2>2, SumAnyOrder
<1>8. g[S] = h[S]
  <2>1. S \in SUBSET T
    BY DEF T
  <2> QED  BY <1>0, <1>1, <1>2, <1>3, <2>1, SumSame
<1>9. h[S] \in Int
  <2>1. SumsNumbers(h, e, S)
    BY <1>0, <1>3 DEF SumsNumbers
  <2> QED  BY <2>1, SumAnyOrder
<1> QED  BY <1>0, <1>2, <1>3, <1>7, <1>8, <1>9 DEF T

LEMMA TotalNone ==
  ASSUME NEW f
  PROVE  Total(f, {}) = 0
<1>1. PICK g : IsSum(g, f, {}) /\ Total(f, {}) = g[{}]
  BY TotalIs, FS_EmptySet
<1>2. {} \in SUBSET {}
  OBVIOUS
<1> QED  BY <1>1, <1>2 DEF IsSum

------------------------------------------------------------------------------
(* The books *)

\* What Received adds up, of the entries R of q.
Paying(q, R) == MapThenSumSet(LAMBDA i : q[i].call.h_amount, R)

LEMMA PayingIs ==
  ASSUME NEW q, NEW R, IsFiniteSet(R)
  PROVE  Paying(q, R) = Total([i \in R |-> q[i].call.h_amount], R)
<1> DEFINE f == [i \in R |-> q[i].call.h_amount]
           IsF(g) == g = [s \in SUBSET R |->
                            IF s = {} THEN 0
                            ELSE q[CHOOSE x \in s : TRUE].call.h_amount + g[s \ {CHOOSE x \in s : TRUE}]]
           F == CHOOSE g : IsF(g)
<1>1. Paying(q, R) = F[R]
  BY DEF Paying, MapThenSumSet, MapThenFoldSet
<1>2. \A g : IsSum(g, f, R) <=> IsF(g)
  <2> SUFFICES ASSUME NEW g
               PROVE  IsSum(g, f, R) <=>
                        g = [s \in SUBSET R |->
                               IF s = {} THEN 0
                               ELSE q[First(s)].call.h_amount + g[s \ {First(s)}]]
    BY DEF First
  <2>1. \A s \in SUBSET R : s # {} => First(s) \in R /\ f[First(s)] = q[First(s)].call.h_amount
    <3>1. \A s \in SUBSET R : s # {} => First(s) \in R
      BY DEF First
    <3> QED  BY <3>1
  <2> HIDE DEF f
  <2>2. [s \in SUBSET R |-> IF s = {} THEN 0 ELSE f[First(s)] + g[s \ {First(s)}]]
          = [s \in SUBSET R |-> IF s = {} THEN 0 ELSE q[First(s)].call.h_amount + g[s \ {First(s)}]]
    BY <2>1
  <2> QED  BY <2>2, Zenon DEF IsSum
<1>3. \E g : IsSum(g, f, R)
  <2> HIDE DEF f
  <2> QED  BY SumExists
<1>4. IsSum(F, f, R)
  <2> HIDE DEF IsF, f
  <2> QED  BY <1>2, <1>3, Zenon
<1> HIDE DEF F, f
<1>5. PICK g : IsSum(g, f, R) /\ Total(f, R) = g[R]
  BY TotalIs
<1>6. F[R] = g[R]
  BY <1>4, <1>5, SumSame
<1> QED  BY <1>1, <1>5, <1>6 DEF f

\* t has one entry more than q.
Grown(q, e, t) == IsSeq(q) /\ t = Append(q, e)

\* Entries of q whose amounts are numbers.
Numbers(q, R) == R \subseteq DOMAIN q /\ \A k \in R : q[k].call.h_amount \in Int

\* What then becomes of their sum.
SumGrows(q, e, t, R) ==
  /\ Paying(q, R) \in Int /\ Paying(t, R) = Paying(q, R)
  /\ e.call.h_amount \in Int =>
       Paying(t, R \cup {Len(q) + 1}) = Paying(q, R) + e.call.h_amount
  /\ Cardinality(R) \in Int /\ Cardinality(R \cup {Len(q) + 1}) = Cardinality(R) + 1

LEMMA PayingMore ==
  ASSUME NEW q, NEW e, NEW t, NEW R, Grown(q, e, t), Numbers(q, R)
  PROVE  SumGrows(q, e, t, R)
<1> DEFINE x == Len(q) + 1
           f == [i \in R |-> q[i].call.h_amount]
           f1 == [i \in R |-> t[i].call.h_amount]
           T == R \cup {x}
           f2 == [i \in T |-> t[i].call.h_amount]
<1>1. /\ Len(q) \in Nat /\ DOMAIN q = 1 .. Len(q)
      /\ \A i \in 1 .. Len(q) : t[i] = q[i]
      /\ t[x] = e
  BY AppendSeq DEF Grown
<1>0. R \in SUBSET (DOMAIN q) /\ \A k \in R : q[k].call.h_amount \in Int
  BY DEF Numbers
<1>2. x \notin R /\ IsFiniteSet(R) /\ IsFiniteSet(T)
  <2>1. IsFiniteSet(1 .. Len(q)) /\ x \notin 1 .. Len(q)
    BY <1>1, FS_Interval
  <2>2. IsFiniteSet(R)
    BY <1>0, <1>1, <2>1, FS_Subset
  <2> QED  BY <1>0, <1>1, <2>1, <2>2, FS_AddElement
<1>3. f1 = f
  BY <1>0, <1>1
<1>4. \A y \in R : f[y] \in Int /\ f2[y] = f[y]
  BY <1>0, <1>1
<1>5. f2[x] = e.call.h_amount
  BY <1>1
<1>6. Paying(q, R) = Total(f, R)
  BY <1>2, PayingIs
<1>7. Paying(t, R) = Total(f1, R)
  BY <1>2, PayingIs
<1>8. Paying(t, T) = Total(f2, T)
  <2> HIDE DEF T
  <2> QED  BY <1>2, PayingIs
<1> HIDE DEF f, f1, f2, x
<1>11. Cardinality(R) \in Int /\ Cardinality(R \cup {x}) = Cardinality(R) + 1
  BY <1>2, FS_CardinalityType, FS_AddElement
<1>9. Total(f, R) \in Int
  <2>1. PICK g : IsSum(g, f, R) /\ Total(f, R) = g[R]
    BY <1>2, TotalIs
  <2>2. SumsNumbers(g, f, R)
    BY <1>2, <1>4, <2>1 DEF SumsNumbers
  <2> QED  BY <2>1, <2>2, SumAnyOrder
<1>10. ASSUME f2[x] \in Int
       PROVE  Total(f2, T) = Total(f, R) + f2[x]
  <2>1. GoesOn(R, f, f2, x)
    BY <1>2, <1>4, <1>10 DEF GoesOn
  <2>2. Total(f2, R \cup {x}) = Total(f, R) + f2[x]
    BY <2>1, TotalMore
  <2> QED  BY <2>2
<1> QED  BY <1>3, <1>5, <1>6, <1>7, <1>8, <1>9, <1>10, <1>11 DEF x, SumGrows

LEMMA PayingNone ==
  ASSUME NEW q
  PROVE  Paying(q, {}) = 0
BY PayingIs, TotalNone, FS_EmptySet

\* The payments at warehouse w, in its district i, and those of customer <<i, j>>
\* who lives there.
RanW(q, w) == {k \in DOMAIN q : q[k].type = "PAYMENT" /\ q[k].call.w_id = w}

RanD(q, w, i) ==
  {k \in DOMAIN q : q[k].type = "PAYMENT" /\ q[k].call.w_id = w /\ q[k].call.d_id = i}

RanC(q, w, i, j) ==
  {k \in DOMAIN q : /\ q[k].type = "PAYMENT"
                    /\ q[k].call.c_w_id = w /\ q[k].call.c_d_id = i /\ q[k].call.c_id = j}

\* A book with an initial sum and one that was received since.
Book(book, initial, sum) == sum \in Nat /\ Agrees(book, initial + sum)

\* The books of warehouse w with the tables s after the parts q.
RowOf(row, n, sum) ==
  /\ Book(row.c_ytd_payment, CUSTOMER_INITIAL_YTD_PAYMENT, sum)
  /\ Agrees(row.c_balance, CUSTOMER_INITIAL_BALANCE - sum)
  /\ row.c_payment_cnt = (CUSTOMER_INITIAL_PAYMENT_CNT + n) % 256

BooksOf(w, s, q) ==
  /\ Book(s.w_ytd, WAREHOUSE_INITIAL_YTD, Paying(q, RanW(q, w)))
  /\ \A i \in District :
       Book(s.district[make_district_key(w, i)].d_ytd, DISTRICT_INITIAL_YTD, Paying(q, RanD(q, w, i)))
  /\ \A i \in District, j \in Customer :
       RowOf(s.customer[make_customer_key(w, i, j)],
             Cardinality(RanC(q, w, i, j)), Paying(q, RanC(q, w, i, j)))

\* The amounts paid are natural numbers.
Amounts(q) == \A k \in DOMAIN q : q[k].type = "PAYMENT" => q[k].call.h_amount \in Nat

\* A sum that is small enough has only been small enough before, when it was
\* between the initial one and this: nothing has been rounded.
LEMMA BookMore ==
  ASSUME NEW initial \in 1 - EXACT .. EXACT - 1, NEW book, NEW sum, NEW h \in Nat
  PROVE  /\ Book(book, initial, sum) => Book(Round(book + h), initial, sum + h)
         /\ sum \in Nat /\ Agrees(book, initial - sum) => Agrees(Round(book - h), initial - (sum + h))
<1>1. EXACT \in Nat
  BY ApplicationAssumption
<1>2. \A x \in Int : Size(x) < EXACT <=> x \in 1 - EXACT .. EXACT - 1
  BY <1>1 DEF Size
<1>3. \A x : Size(x) < EXACT => Round(x) = x
  BY DEF Round
<1>4. ASSUME Book(book, initial, sum)
      PROVE  Book(Round(book + h), initial, sum + h)
  <2>1. sum \in Nat /\ (Size(initial + sum) < EXACT => book = initial + sum)
    BY <1>4 DEF Book, Agrees
  <2>2. ASSUME Size(initial + (sum + h)) < EXACT
        PROVE  Round(book + h) = initial + (sum + h)
    <3>1. initial + (sum + h) \in 1 - EXACT .. EXACT - 1
      BY <1>1, <1>2, <2>1, <2>2
    <3>2. initial + sum \in 1 - EXACT .. EXACT - 1
      BY <1>1, <2>1, <3>1
    <3>3. book = initial + sum
      BY <1>1, <1>2, <2>1, <3>2
    <3>4. book + h = initial + (sum + h)
      BY <1>1, <2>1, <3>3
    <3> QED  BY <1>3, <2>2, <3>4
  <2> QED  BY <2>1, <2>2 DEF Book, Agrees
<1>5. ASSUME sum \in Nat, Agrees(book, initial - sum)
      PROVE  Agrees(Round(book - h), initial - (sum + h))
  <2>1. Size(initial - sum) < EXACT => book = initial - sum
    BY <1>5 DEF Agrees
  <2>2. ASSUME Size(initial - (sum + h)) < EXACT
        PROVE  Round(book - h) = initial - (sum + h)
    <3>1. initial - (sum + h) \in 1 - EXACT .. EXACT - 1
      BY <1>1, <1>2, <1>5, <2>2
    <3>2. initial - sum \in 1 - EXACT .. EXACT - 1
      BY <1>1, <1>5, <3>1
    <3>3. book = initial - sum
      BY <1>1, <1>2, <1>5, <2>1, <3>2
    <3>4. book - h = initial - (sum + h)
      BY <1>1, <1>5, <3>3
    <3> QED  BY <1>3, <2>2, <3>4
  <2> QED  BY <2>2 DEF Agrees
<1> QED  BY <1>4, <1>5

BooksInv ==
  \A d \in Dpu : Amounts(done[d]) /\ (~ db[d].wild => BooksOf(d + 1, db[d], done[d]))

\* The entries of a longer sequence.
RanGrows(q, e, t, w, i, j) ==
  LET x == {Len(q) + 1}
      paid == e.type = "PAYMENT"
  IN  /\ RanW(t, w) = RanW(q, w) \cup (IF paid /\ e.call.w_id = w THEN x ELSE {})
      /\ RanD(t, w, i) = RanD(q, w, i)
           \cup (IF paid /\ e.call.w_id = w /\ e.call.d_id = i THEN x ELSE {})
      /\ RanC(t, w, i, j) = RanC(q, w, i, j)
           \cup (IF paid /\ e.call.c_w_id = w /\ e.call.c_d_id = i /\ e.call.c_id = j THEN x ELSE {})

LEMMA RanMore ==
  ASSUME NEW q, NEW e, NEW t, NEW w, NEW i, NEW j, Grown(q, e, t)
  PROVE  RanGrows(q, e, t, w, i, j)
<1> DEFINE n == Len(q)
<1>1. /\ n \in Nat /\ DOMAIN q = 1 .. n /\ DOMAIN t = 1 .. n + 1
      /\ \A k \in 1 .. n : t[k] = q[k]
      /\ t[n + 1] = e
  BY AppendSeq DEF Grown
<1> HIDE DEF n
<1>2. DOMAIN t = (DOMAIN q) \cup {n + 1} /\ n + 1 \notin DOMAIN q
  BY <1>1
<1>3. \A k \in DOMAIN q : t[k] = q[k]
  BY <1>1
<1>4. RanW(t, w) = RanW(q, w) \cup (IF e.type = "PAYMENT" /\ e.call.w_id = w THEN {n + 1} ELSE {})
  BY <1>1, <1>2, <1>3 DEF RanW
<1>5. RanD(t, w, i) = RanD(q, w, i)
        \cup (IF e.type = "PAYMENT" /\ e.call.w_id = w /\ e.call.d_id = i THEN {n + 1} ELSE {})
  BY <1>1, <1>2, <1>3 DEF RanD
<1>6. RanC(t, w, i, j) = RanC(q, w, i, j)
        \cup (IF e.type = "PAYMENT" /\ e.call.c_w_id = w /\ e.call.c_d_id = i /\ e.call.c_id = j
              THEN {n + 1} ELSE {})
  BY <1>1, <1>2, <1>3 DEF RanC
<1> QED  BY <1>4, <1>5, <1>6 DEF n, RanGrows

\* Entries of q that are payments.
Payments(q, R) == R \subseteq {k \in DOMAIN q : q[k].type = "PAYMENT"}

\* Sums and numbers of the payments that are added or not.
LEMMA SumsMore ==
  ASSUME NEW q, NEW e, NEW t, NEW R, Grown(q, e, t), Amounts(q), Payments(q, R)
  PROVE  SumGrows(q, e, t, R)
<1>1. Len(q) \in Nat /\ DOMAIN q = 1 .. Len(q)
  BY AppendSeq DEF Grown
<1>2. R \in SUBSET (DOMAIN q) /\ Len(q) + 1 \notin R
  BY <1>1 DEF Payments
<1>3. \A k \in R : q[k].call.h_amount \in Int
  BY DEF Amounts, Payments
<1>4. IsFiniteSet(R)
  <2>1. IsFiniteSet(1 .. Len(q))
    BY <1>1, FS_Interval
  <2> QED  BY <1>1, <1>2, <2>1, FS_Subset
<1>6. SumGrows(q, e, t, R)
  <2>1. Numbers(q, R)
    BY <1>2, <1>3 DEF Numbers
  <2> QED  BY <2>1, PayingMore
<1> QED  BY <1>6

LEMMA BooksStep ==
  ASSUME AppCommon, WarehousesFit, NEW d \in Dpu, NEW s, TablesWhole(d + 1, s),
         NEW q, IsSeq(q), Amounts(q), BooksOf(d + 1, s, q),
         NEW p, NEW t, Ran1(d, s, p, t), NEW read,
         NEW u, u = Append(q, [type |-> p.type, call |-> p.call, read |-> read])
  PROVE  Amounts(u) /\ (~ t.wild => BooksOf(d + 1, t, u))
<1> DEFINE w == d + 1
           e == [type |-> p.type, call |-> p.call, read |-> read]
           c == p.call
           h == c.h_amount
           x == {Len(q) + 1}
<1>0. e.type = p.type /\ e.call = c /\ Grown(q, e, u)
  BY DEF Grown
<1>1. p.type = "PAYMENT" => c \in PaymentCalls /\ h \in Nat /\ c.w_id = w
  <2>1. p.type = "PAYMENT" => c \in PaymentCalls /\ c.w_id = w
    BY DEF Ran1
  <2>2. p.type = "PAYMENT" => h \in Amount
    BY <2>1, PaymentIs
  <2>3. Amount \subseteq Nat
    BY ParamsAssumption
  <2> QED  BY <2>1, <2>2, <2>3
<1>2. Amounts(u)
  <2>1. /\ Len(q) \in Nat /\ DOMAIN q = 1 .. Len(q) /\ DOMAIN u = 1 .. Len(q) + 1
        /\ \A k \in 1 .. Len(q) : u[k] = q[k]
        /\ u[Len(q) + 1] = e
    BY AppendSeq
  <2> HIDE DEF e, c, h
  <2> QED  BY <1>0, <1>1, <2>1 DEF Amounts, h
<1> HIDE DEF e, w, x
<1>3. ASSUME NEW i, NEW j
      PROVE  /\ RanW(u, w) = RanW(q, w) \cup (IF p.type = "PAYMENT" /\ c.w_id = w THEN x ELSE {})
             /\ RanD(u, w, i) = RanD(q, w, i)
                  \cup (IF p.type = "PAYMENT" /\ c.w_id = w /\ c.d_id = i THEN x ELSE {})
             /\ RanC(u, w, i, j) = RanC(q, w, i, j)
                  \cup (IF p.type = "PAYMENT" /\ c.c_w_id = w /\ c.c_d_id = i /\ c.c_id = j THEN x ELSE {})
  <2>1. RanGrows(q, e, u, w, i, j)
    BY <1>0, RanMore
  <2> QED  BY <1>0, <2>1 DEF x, RanGrows
<1>4. ASSUME NEW R, Payments(q, R)
      PROVE  /\ Paying(q, R) \in Int /\ Cardinality(R) \in Int
             /\ Paying(u, R) = Paying(q, R)
             /\ Cardinality(R \cup x) = Cardinality(R) + 1
             /\ p.type = "PAYMENT" => Paying(u, R \cup x) = Paying(q, R) + h
  <2>1. SumGrows(q, e, u, R)
    BY <1>0, <1>4, SumsMore
  <2> QED  BY <1>0, <1>1, <2>1 DEF x, SumGrows
<1> HIDE DEF c, h
<1>5. ASSUME NEW i, NEW j
      PROVE  /\ Payments(q, RanW(q, w))
             /\ Payments(q, RanD(q, w, i))
             /\ Payments(q, RanC(q, w, i, j))
  BY DEF RanW, RanD, RanC, Payments
<1>6. ASSUME ~ t.wild, p.type # "PAYMENT"
      PROVE  BooksOf(w, t, u)
  <2>1. SameBooks(w, s, t)
    BY <1>6 DEF Ran1, w
  <2>2. \A i, j : RanW(u, w) = RanW(q, w) /\ RanD(u, w, i) = RanD(q, w, i) /\ RanC(u, w, i, j) = RanC(q, w, i, j)
    <3> SUFFICES ASSUME NEW i, NEW j
                 PROVE  RanW(u, w) = RanW(q, w) /\ RanD(u, w, i) = RanD(q, w, i) /\ RanC(u, w, i, j) = RanC(q, w, i, j)
      OBVIOUS
    <3>1. RanGrows(q, e, u, w, i, j)
      BY <1>0, RanMore
    <3> QED  BY <1>0, <1>6, <3>1 DEF RanGrows
  <2>3. \A i, j : /\ Paying(u, RanW(u, w)) = Paying(q, RanW(q, w))
                  /\ Paying(u, RanD(u, w, i)) = Paying(q, RanD(q, w, i))
                  /\ Paying(u, RanC(u, w, i, j)) = Paying(q, RanC(q, w, i, j))
    BY <1>4, <1>5, <2>2
  <2>4. BooksOf(w, s, q)
    BY DEF w
  <2> QED  BY <2>1, <2>2, <2>3, <2>4 DEF BooksOf, SameBooks
<1>7. ASSUME ~ t.wild, p.type = "PAYMENT"
      PROVE  BooksOf(w, t, u)
  <2>1. Books(w, s, t, h, c.d_id, IF c.c_w_id = w THEN c.c_d_id ELSE 0, c.c_id)
    BY <1>7 DEF Ran1, w, c, h
  <2>2. BooksOf(w, s, q)
    BY DEF w
  <2>3. h \in Nat /\ c.w_id = w
    BY <1>1, <1>7
  <2>4. Book(t.w_ytd, WAREHOUSE_INITIAL_YTD, Paying(u, RanW(u, w)))
    <3>1. RanW(u, w) = RanW(q, w) \cup x
      BY <1>3, <1>7, <2>3
    <3>2. Paying(u, RanW(u, w)) = Paying(q, RanW(q, w)) + h
      BY <1>4, <1>5, <1>7, <3>1
    <3>3. t.w_ytd = Round(s.w_ytd + h) /\ Book(s.w_ytd, WAREHOUSE_INITIAL_YTD, Paying(q, RanW(q, w)))
      BY <2>1, <2>2 DEF Books, BooksOf
    <3>4. WAREHOUSE_INITIAL_YTD \in 1 - EXACT .. EXACT - 1
      BY ApplicationAssumption
    <3> QED  BY <2>3, <3>2, <3>3, <3>4, BookMore
  <2>5. ASSUME NEW i \in District
        PROVE  Book(t.district[make_district_key(w, i)].d_ytd, DISTRICT_INITIAL_YTD, Paying(u, RanD(u, w, i)))
    <3> DEFINE old == s.district[make_district_key(w, i)].d_ytd
               new == t.district[make_district_key(w, i)].d_ytd
    <3>1. new = (IF i = c.d_id THEN Round(old + h) ELSE old)
      BY <2>1 DEF Books
    <3>2. Book(old, DISTRICT_INITIAL_YTD, Paying(q, RanD(q, w, i)))
      BY <2>2 DEF BooksOf
    <3> HIDE DEF old, new
    <3>3. ASSUME i = c.d_id
          PROVE  Book(new, DISTRICT_INITIAL_YTD, Paying(u, RanD(u, w, i)))
      <4>1. RanD(u, w, i) = RanD(q, w, i) \cup x
        BY <1>3, <1>7, <2>3, <3>3
      <4>2. Paying(u, RanD(u, w, i)) = Paying(q, RanD(q, w, i)) + h
        BY <1>4, <1>5, <1>7, <3>3, <4>1
      <4>3. DISTRICT_INITIAL_YTD \in 1 - EXACT .. EXACT - 1
        BY ApplicationAssumption
      <4> QED  BY <2>3, <3>1, <3>2, <3>3, <4>2, <4>3, BookMore
    <3>4. ASSUME i # c.d_id
          PROVE  Book(new, DISTRICT_INITIAL_YTD, Paying(u, RanD(u, w, i)))
      <4>1. RanD(u, w, i) = RanD(q, w, i)
        BY <1>3, <3>4
      <4>2. Paying(u, RanD(u, w, i)) = Paying(q, RanD(q, w, i))
        BY <1>4, <1>5, <4>1
      <4> QED  BY <3>1, <3>2, <3>4, <4>2
    <3>5. Book(new, DISTRICT_INITIAL_YTD, Paying(u, RanD(u, w, i)))
      BY <3>3, <3>4
    <3> QED  BY <3>5 DEF new
  <2>6. ASSUME NEW i \in District, NEW j \in Customer
        PROVE  RowOf(t.customer[make_customer_key(w, i, j)],
                     Cardinality(RanC(u, w, i, j)), Paying(u, RanC(u, w, i, j)))
    <3> DEFINE old == s.customer[make_customer_key(w, i, j)]
               new == t.customer[make_customer_key(w, i, j)]
               hers == c.c_w_id = w /\ c.c_d_id = i /\ c.c_id = j
               R == RanC(q, w, i, j)
               T == RanC(u, w, i, j)
    <3>1. new = IF hers THEN Paid(old, h) ELSE old
      <4>1. i # 0
        BY DEF District
      <4> QED  BY <2>1, <4>1 DEF Books
    <3>2. RowOf(old, Cardinality(R), Paying(q, R))
      BY <2>2 DEF BooksOf
    <3>3. {"c_balance", "c_ytd_payment", "c_payment_cnt"} \subseteq DOMAIN old
      BY DEF TablesWhole, w
    <3>4. T = R \cup (IF hers THEN x ELSE {})
      BY <1>3, <1>7
    <3>5. Payments(q, R)
      BY <1>5
    <3> HIDE DEF old, new, R, T, hers
    <3>6. Paying(q, R) \in Int /\ Cardinality(R) \in Int
      BY <1>4, <3>5
    <3>7. CASE hers
      <4>1. Paying(u, T) = Paying(q, R) + h /\ Cardinality(T) = Cardinality(R) + 1
        BY <1>4, <1>7, <3>4, <3>5, <3>7
      <4>2. /\ new.c_balance = Round(old.c_balance - h)
            /\ new.c_ytd_payment = Round(old.c_ytd_payment + h)
            /\ new.c_payment_cnt = (old.c_payment_cnt + 1) % 256
        BY <3>1, <3>3, <3>7 DEF Paid
      <4>3. /\ CUSTOMER_INITIAL_YTD_PAYMENT \in 1 - EXACT .. EXACT - 1
            /\ CUSTOMER_INITIAL_BALANCE \in 1 - EXACT .. EXACT - 1
            /\ CUSTOMER_INITIAL_PAYMENT_CNT \in Int
        BY ApplicationAssumption
      <4>4. Paying(q, R) \in Nat
        BY <3>2 DEF RowOf, Book
      <4>5. Book(new.c_ytd_payment, CUSTOMER_INITIAL_YTD_PAYMENT, Paying(u, T))
        <5>1. Book(old.c_ytd_payment, CUSTOMER_INITIAL_YTD_PAYMENT, Paying(q, R))
          BY <3>2 DEF RowOf
        <5>2. Book(Round(old.c_ytd_payment + h), CUSTOMER_INITIAL_YTD_PAYMENT, Paying(q, R) + h)
          BY <2>3, <4>3, <5>1, BookMore
        <5> QED  BY <4>1, <4>2, <5>2
      <4>6. Agrees(new.c_balance, CUSTOMER_INITIAL_BALANCE - Paying(u, T))
        <5>1. Agrees(old.c_balance, CUSTOMER_INITIAL_BALANCE - Paying(q, R))
          BY <3>2 DEF RowOf
        <5>2. Agrees(Round(old.c_balance - h), CUSTOMER_INITIAL_BALANCE - (Paying(q, R) + h))
          BY <2>3, <4>3, <4>4, <5>1, BookMore
        <5> QED  BY <4>1, <4>2, <5>2
      <4>7. new.c_payment_cnt = (CUSTOMER_INITIAL_PAYMENT_CNT + Cardinality(T)) % 256
        BY <3>2, <3>6, <4>1, <4>2, <4>3 DEF RowOf
      <4>8. RowOf(new, Cardinality(T), Paying(u, T))
        BY <4>5, <4>6, <4>7 DEF RowOf
      <4> QED  BY <4>8 DEF new, T
    <3>8. CASE ~ hers
      <4>1. T = R /\ Paying(u, T) = Paying(q, R)
        BY <1>4, <3>4, <3>5, <3>8
      <4>2. RowOf(new, Cardinality(T), Paying(u, T))
        BY <3>1, <3>2, <3>8, <4>1
      <4> QED  BY <4>2 DEF new, T
    <3> QED  BY <3>7, <3>8
  <2> QED  BY <2>4, <2>5, <2>6 DEF BooksOf
<1> QED  BY <1>2, <1>6, <1>7 DEF w

LEMMA BooksStart ==
  ASSUME AppCommon, WarehousesFit, Init
  PROVE  BooksInv
<1> SUFFICES ASSUME NEW d \in Dpu
             PROVE  Amounts(done[d]) /\ BooksOf(d + 1, db[d], done[d])
  BY DEF BooksInv
<1> DEFINE w == d + 1
           s == db[d]
           q == done[d]
<1>1. q = <<>> /\ DOMAIN q = {}
  BY DEF Init
<1>2. w \in Warehouse /\ s = Loaded(w)
  BY Places DEF Init
<1> HIDE DEF w, s, q
<1>3. /\ s.w_ytd = WAREHOUSE_INITIAL_YTD
      /\ \A i \in District : s.district[make_district_key(w, i)].d_ytd = DISTRICT_INITIAL_YTD
      /\ \A i \in District, j \in Customer :
           LET row == s.customer[make_customer_key(w, i, j)]
           IN  /\ row.c_ytd_payment = CUSTOMER_INITIAL_YTD_PAYMENT
               /\ row.c_balance = CUSTOMER_INITIAL_BALANCE
               /\ row.c_payment_cnt = CUSTOMER_INITIAL_PAYMENT_CNT
  BY <1>2, LoadedWhole
<1>4. \A i, j : RanW(q, w) = {} /\ RanD(q, w, i) = {} /\ RanC(q, w, i, j) = {}
  BY <1>1 DEF RanW, RanD, RanC
<1>5. Paying(q, {}) = 0 /\ Cardinality({}) = 0
  BY PayingNone, FS_EmptySet
<1>6. Amounts(q)
  BY <1>1 DEF Amounts
<1>7. BooksOf(w, s, q)
  <2>0. \A book \in Int : Book(book, book, 0)
    BY DEF Book, Agrees
  <2>1. Book(s.w_ytd, WAREHOUSE_INITIAL_YTD, Paying(q, RanW(q, w)))
    BY <1>3, <1>4, <1>5, <2>0, ApplicationAssumption
  <2>2. \A i \in District :
          Book(s.district[make_district_key(w, i)].d_ytd, DISTRICT_INITIAL_YTD, Paying(q, RanD(q, w, i)))
    <3> SUFFICES ASSUME NEW i \in District
                 PROVE  Book(s.district[make_district_key(w, i)].d_ytd, DISTRICT_INITIAL_YTD,
                             Paying(q, RanD(q, w, i)))
      OBVIOUS
    <3>1. Paying(q, RanD(q, w, i)) = 0
      BY <1>4, <1>5
    <3>2. s.district[make_district_key(w, i)].d_ytd = DISTRICT_INITIAL_YTD
      BY <1>3
    <3>3. DISTRICT_INITIAL_YTD \in Int
      BY ApplicationAssumption
    <3> QED  BY <2>0, <3>1, <3>2, <3>3
  <2>3. ASSUME NEW i \in District, NEW j \in Customer
        PROVE  RowOf(s.customer[make_customer_key(w, i, j)],
                     Cardinality(RanC(q, w, i, j)), Paying(q, RanC(q, w, i, j)))
    <3> DEFINE row == s.customer[make_customer_key(w, i, j)]
    <3>1. Paying(q, RanC(q, w, i, j)) = 0 /\ Cardinality(RanC(q, w, i, j)) = 0
      BY <1>4, <1>5
    <3>2. /\ row.c_ytd_payment = CUSTOMER_INITIAL_YTD_PAYMENT
          /\ row.c_balance = CUSTOMER_INITIAL_BALANCE
          /\ row.c_payment_cnt = CUSTOMER_INITIAL_PAYMENT_CNT
      BY <1>3
    <3> HIDE DEF row
    <3>3. RowOf(row, 0, 0)
      <4>1. /\ CUSTOMER_INITIAL_YTD_PAYMENT \in Int /\ CUSTOMER_INITIAL_BALANCE \in Int
            /\ CUSTOMER_INITIAL_PAYMENT_CNT \in 0 .. 255
        BY ApplicationAssumption
      <4>2. /\ CUSTOMER_INITIAL_BALANCE - 0 = CUSTOMER_INITIAL_BALANCE
            /\ (CUSTOMER_INITIAL_PAYMENT_CNT + 0) % 256 = CUSTOMER_INITIAL_PAYMENT_CNT
        BY <4>1
      <4> QED  BY <2>0, <3>2, <4>1, <4>2 DEF RowOf, Agrees
    <3> QED  BY <3>1, <3>3 DEF row
  <2> QED  BY <2>1, <2>2, <2>3 DEF BooksOf
<1> QED  BY <1>6, <1>7 DEF w, s, q

\* BooksInv says what BooksAgree says.
LEMMA BooksSame ==
  ASSUME BooksInv
  PROVE  BooksAgree
<1> SUFFICES ASSUME NEW d \in Dpu, ~ db[d].wild
             PROVE  LET w == d + 1
                    IN  /\ Agrees(db[d].w_ytd, WAREHOUSE_INITIAL_YTD + Received(d, LAMBDA c : c.w_id = w))
                        /\ \A i \in District :
                             Agrees(db[d].district[make_district_key(w, i)].d_ytd,
                                    DISTRICT_INITIAL_YTD + Received(d, LAMBDA c : c.w_id = w /\ c.d_id = i))
                        /\ \A i \in District, j \in Customer :
                             LET Of(c) == c.c_w_id = w /\ c.c_d_id = i /\ c.c_id = j
                                 row   == db[d].customer[make_customer_key(w, i, j)]
                             IN  /\ Agrees(row.c_ytd_payment, CUSTOMER_INITIAL_YTD_PAYMENT + Received(d, Of))
                                 /\ Agrees(row.c_balance, CUSTOMER_INITIAL_BALANCE - Received(d, Of))
                                 /\ row.c_payment_cnt
                                      = (CUSTOMER_INITIAL_PAYMENT_CNT + Cardinality(Ran(d, "PAYMENT", Of))) % 256
  BY DEF BooksAgree
<1> DEFINE w == d + 1
           q == done[d]
<1>1. BooksOf(w, db[d], q)
  BY DEF BooksInv
<1>2. Agrees(db[d].w_ytd, WAREHOUSE_INITIAL_YTD + Received(d, LAMBDA c : c.w_id = w))
  <2>1. Agrees(db[d].w_ytd, WAREHOUSE_INITIAL_YTD + Paying(q, RanW(q, w)))
    BY <1>1 DEF BooksOf, Book
  <2> QED  BY <2>1 DEF Received, Paying, Ran, RanW
<1>3. ASSUME NEW i \in District
      PROVE  Agrees(db[d].district[make_district_key(w, i)].d_ytd,
                    DISTRICT_INITIAL_YTD + Received(d, LAMBDA c : c.w_id = w /\ c.d_id = i))
  <2>1. Agrees(db[d].district[make_district_key(w, i)].d_ytd, DISTRICT_INITIAL_YTD + Paying(q, RanD(q, w, i)))
    BY <1>1 DEF BooksOf, Book
  <2> QED  BY <2>1 DEF Received, Paying, Ran, RanD
<1>4. ASSUME NEW i \in District, NEW j \in Customer
      PROVE  LET Of(c) == c.c_w_id = w /\ c.c_d_id = i /\ c.c_id = j
                 row   == db[d].customer[make_customer_key(w, i, j)]
             IN  /\ Agrees(row.c_ytd_payment, CUSTOMER_INITIAL_YTD_PAYMENT + Received(d, Of))
                 /\ Agrees(row.c_balance, CUSTOMER_INITIAL_BALANCE - Received(d, Of))
                 /\ row.c_payment_cnt
                      = (CUSTOMER_INITIAL_PAYMENT_CNT + Cardinality(Ran(d, "PAYMENT", Of))) % 256
  <2> DEFINE row == db[d].customer[make_customer_key(w, i, j)]
  <2>1. /\ Agrees(row.c_ytd_payment, CUSTOMER_INITIAL_YTD_PAYMENT + Paying(q, RanC(q, w, i, j)))
        /\ Agrees(row.c_balance, CUSTOMER_INITIAL_BALANCE - Paying(q, RanC(q, w, i, j)))
        /\ row.c_payment_cnt = (CUSTOMER_INITIAL_PAYMENT_CNT + Cardinality(RanC(q, w, i, j))) % 256
    BY <1>1 DEF BooksOf, RowOf, Book
  <2> QED  BY <2>1 DEF Received, Paying, Ran, RanC
<1> QED  BY <1>2, <1>3, <1>4

(* The books of a DPU are what one gets by adding up the payments the        *)
(* client asked for: by warehouse, by district and, for customers who paid   *)
(* at home, by customer (application.c:86-114), in whatever order the DPU    *)
(* ran its parts and for all amounts from 1 to 5000.  A sum is right as long *)
(* as it is less than 2^24, where floats begin to be rounded; the number of  *)
(* a customer's payments is right modulo 256.                                *)
THEOREM BooksAlwaysAgree == Spec /\ AppCommon /\ WarehousesFit => []BooksAgree
<1> DEFINE I == AppCommon /\ WarehousesFit /\ PartsInv /\ BooksInv
<1>1. Init /\ AppCommon /\ WarehousesFit => I
  BY PartsStart, BooksStart
<1>2. I /\ [Next]_vars => I'
  <2> SUFFICES ASSUME I, [Next]_vars
               PROVE  I'
    OBVIOUS
  <2>0. AppCommon' /\ WarehousesFit'
    BY DEF AppCommon, WarehousesFit
  <2>1. ASSUME db' = db, done' = done
        PROVE  BooksInv'
    BY <2>1 DEF BooksInv, Dpu
  <2>2. ASSUME NEW call \in Drawn, Generate(call)
        PROVE  PartsInv' /\ BooksInv'
    <3>1. db' = db /\ done' = done
      BY <2>2 DEF Generate
    <3> QED  BY <2>1, <2>2, <3>1, Generated
  <2>3. CASE Start
    BY <2>1, <2>3 DEF Start, PartsInv
  <2>4. ASSUME NEW d \in Dpu, NEW i \in DOMAIN pending[d], Exec(d, i)
        PROVE  PartsInv' /\ BooksInv'
    <3>1. PartsInv'
      BY <2>4, ExecRuns
    <3>2. PICK p, read :
            /\ Ran1(d, db[d], p, db'[d])
            /\ done'[d] = Append(done[d], [type |-> p.type, call |-> p.call, read |-> read])
      BY <2>4, ExecRuns
    <3>3. ~ db[d].wild /\ \A e \in Dpu \ {d} : db'[e] = db[e] /\ done'[e] = done[e]
      BY <2>4, ExecRuns
    <3>4. IsSeq(done[d]) /\ TablesWhole(d + 1, db[d])
      BY <3>3 DEF PartsInv
    <3>5. Amounts(done[d]) /\ BooksOf(d + 1, db[d], done[d])
      BY <3>3 DEF BooksInv
    <3>6. Amounts(done'[d]) /\ (~ db'[d].wild => BooksOf(d + 1, db'[d], done'[d]))
      BY <3>2, <3>4, <3>5, BooksStep
    <3>7. ASSUME NEW e \in Dpu
          PROVE  Amounts(done'[e]) /\ (~ db'[e].wild => BooksOf(e + 1, db'[e], done'[e]))
      <4>1. CASE e = d
        BY <3>6, <4>1
      <4>2. CASE e # d
        BY <3>3, <4>2 DEF BooksInv
      <4> QED  BY <4>1, <4>2
    <3>8. BooksInv'
      BY <3>7 DEF BooksInv, Dpu
    <3> QED  BY <3>1, <3>8
  <2>5. CASE UNCHANGED vars
    BY <2>1, <2>5 DEF vars, PartsInv
  <2> QED  BY <2>0, <2>2, <2>3, <2>4, <2>5 DEF Next
<1>3. I => BooksAgree
  BY BooksSame
<1> QED  BY <1>1, <1>2, <1>3, PTL DEF Spec

------------------------------------------------------------------------------
(* The rows of orders *)

\* A number of an order with which keys differ.
IsId(o) == o \in Nat /\ 1 <= o /\ o < 1000000

LEMMA OrderKeysDiffer ==
  ASSUME AppCommon, NEW w \in Nat, NEW i \in 1 .. 10, NEW k \in 1 .. 10, NEW o, NEW u,
         IsId(o), IsId(u), make_order_key(w, i, o) = make_order_key(w, k, u)
  PROVE  o = u /\ i = k
<1> DEFINE x == 26000 * o + 2600 * i + w
           y == 26000 * u + 2600 * k + w
           a == 10 * (o - u) + (i - k)
           big == 4294967296
<1>1. ASSUME NEW v \in Nat, NEW j \in Nat
      PROVE  make_order_key(w, j, v) = (26000 * v + 2600 * j + w) % big
  <2>1. (v * 10 + j) * 2600 + w = 26000 * v + 2600 * j + w
    BY SMT
  <2> QED  BY <2>1, SMT DEF make_order_key, AppCommon
<1>2. x \in Nat /\ y \in Nat
  BY DEF IsId
<1>3. x % big = y % big
  <2>1. o \in Nat /\ u \in Nat /\ i \in Nat /\ k \in Nat
    BY DEF IsId
  <2>2. make_order_key(w, i, o) = x % big
    BY <1>1, <2>1
  <2>3. make_order_key(w, k, u) = y % big
    BY <1>1, <2>1
  <2> HIDE DEF x, y, big
  <2> QED  BY <2>2, <2>3, Zenon
<1>4. PICK q \in Int : x - y = 4294967296 * q
  <2> HIDE DEF x, y
  <2> QED  BY <1>2, <1>3, SameKey32
<1>5. a \in Int /\ a >= -10000000 /\ a <= 10000000 /\ x - y = 2600 * a
  BY DEF IsId
<1>6. 39000 * a + 0 = 4294967296 * (15 * q) /\ 15 * q \in Int
  <2> HIDE DEF x, y, a
  <2> QED  BY <1>4, <1>5
<1>7. a = 0
  <2> HIDE DEF a
  <2>1. 0 \in Int /\ 0 >= -14 /\ 0 <= 14
    OBVIOUS
  <2> DEFINE z == 15 * q
  <2>2. z \in Int /\ 39000 * a + 0 = 4294967296 * z
    BY <1>6
  <2> HIDE DEF z
  <2> QED  BY <1>5, <2>1, <2>2, NoClash
<1> QED  BY <1>7 DEF IsId

\* The lines of a new order are under their own keys, and no others change.
LinesOf(w, i, id, items, m, new) ==
  \A n \in 1 .. m :
    LET key == make_order_line_key(w, i, id, n)
    IN  key \in DOMAIN new /\ new[key] = OrderLine(id, n, items[n].i_id, items[n].ol_quantity)

OtherLines(w, i, id, table, new) ==
  \A k \in 1 .. 10, n \in 1 .. 15 : \A o :
    LET key == make_order_line_key(w, k, o, n)
    IN  IsId(o) /\ (k # i \/ o # id) /\ key \in DOMAIN table
        => key \in DOMAIN new /\ new[key] = table[key]

LEMMA LinesAdded ==
  ASSUME AppCommon, NEW w \in Nat, NEW i \in 1 .. 10, NEW id, IsId(id),
         NEW table, NEW cells, NEW items, NEW m \in 1 .. 15,
         cells[1] = w, cells[2] = i, cells[4] = m,
         NEW new, new = WithLines(table, cells, id, items)
  PROVE  LinesOf(w, i, id, items, m, new) /\ OtherLines(w, i, id, table, new)
<1> DEFINE key(n)   == make_order_line_key(w, i, id, n)
           line(n)  == OrderLine(id, n, items[n].i_id, items[n].ol_quantity)
           Under(k) == {n \in 1 .. m : key(n) = k}
<1>1. new = [k \in DOMAIN table \cup {key(n) : n \in 1 .. m} |->
               IF Under(k) = {} THEN table[k] ELSE line(Max(Under(k)))]
  BY DEF WithLines, ItemOf
<1>2. ASSUME NEW k \in 1 .. 10, NEW o, IsId(o), NEW n \in 1 .. 15, NEW l \in 1 .. m,
             make_order_line_key(w, k, o, n) = key(l)
      PROVE  k = i /\ o = id /\ n = l
  <2>1. IsLine(k, o, n) /\ IsLine(i, id, l)
    BY <1>2 DEF IsLine, IsId
  <2> QED  BY <1>2, <2>1, OrderLineKeysDiffer
<1>3. ASSUME NEW n \in 1 .. m
      PROVE  key(n) \in DOMAIN new /\ new[key(n)] = line(n)
  <2>1. n \in 1 .. 15
    OBVIOUS
  <2>2. Under(key(n)) = {n}
    <3>1. \A l \in 1 .. m : key(n) = key(l) => n = l
      BY <1>2, <2>1
    <3> HIDE DEF key
    <3> QED  BY <3>1
  <2>3. Max({n}) = n
    BY DEF Max
  <2> HIDE DEF key, line
  <2>4. new[key(n)] = line(Max(Under(key(n))))
    BY <1>1, <2>2
  <2> QED  BY <1>1, <2>2, <2>3, <2>4
<1>4. ASSUME NEW k \in 1 .. 10, NEW o, NEW n \in 1 .. 15, IsId(o), k # i \/ o # id,
             make_order_line_key(w, k, o, n) \in DOMAIN table
      PROVE  LET x == make_order_line_key(w, k, o, n)
             IN  x \in DOMAIN new /\ new[x] = table[x]
  <2> DEFINE x == make_order_line_key(w, k, o, n)
  <2>1. \A l \in 1 .. m : key(l) # x
    BY <1>2, <1>4
  <2>2. x \in DOMAIN table
    BY <1>4
  <2> HIDE DEF x, key, line
  <2>3. Under(x) = {}
    BY <2>1
  <2>4. x \in DOMAIN new /\ new[x] = table[x]
    BY <1>1, <2>2, <2>3
  <2> QED  BY <2>4 DEF x
<1> QED  BY <1>3, <1>4 DEF LinesOf, OtherLines

\* Order o of district i is in the tables s, with all its lines.
LineThere(w, s, i, o, n) ==
  LET key == make_order_line_key(w, i, o, n)
  IN  key \in DOMAIN s.line /\ s.line[key].ol_o_id = o /\ s.line[key].ol_number = n

Entire(w, s, i, o) ==
  LET key == make_order_key(w, i, o)
      row == s.order[key]
  IN  /\ key \in DOMAIN s.order
      /\ row.o_w_id = w /\ row.o_d_id = i /\ row.o_id = o
      /\ row.o_ol_cnt \in 1 .. 15
      /\ \A n \in 1 .. row.o_ol_cnt : LineThere(w, s, i, o, n)

\* It is the order that was placed by call c, with the items shifted by one.
IsFor(w, s, i, o, c) ==
  LET row == s.order[make_order_key(w, i, o)]
  IN  /\ row.o_c_id = c.c_id /\ row.o_ol_cnt = Len(c.items)
      /\ make_new_order_key(w, i, o) \in DOMAIN s.new_order
      /\ \A n \in 1 .. Len(c.items) - 1 :
           LET line == s.line[make_order_line_key(w, i, o, n)]
           IN  line.ol_i_id = c.items[n + 1].i_id /\ line.ol_quantity = c.items[n + 1].quantity

\* Its rows are the same in the tables s and t.
SameRows(w, s, t, i, o) ==
  /\ LET key == make_order_key(w, i, o)
     IN  key \in DOMAIN s.order => key \in DOMAIN t.order /\ t.order[key] = s.order[key]
  /\ LET key == make_new_order_key(w, i, o)
     IN  key \in DOMAIN s.new_order => key \in DOMAIN t.new_order
  /\ \A n \in 1 .. 15 :
       LET key == make_order_line_key(w, i, o, n)
       IN  key \in DOMAIN s.line => key \in DOMAIN t.line /\ t.line[key] = s.line[key]

LEMMA RowsStay ==
  ASSUME NEW w, NEW s, NEW t, NEW i, NEW o, SameRows(w, s, t, i, o), Entire(w, s, i, o)
  PROVE  Entire(w, t, i, o) /\ \A c : IsFor(w, s, i, o, c) => IsFor(w, t, i, o, c)
<1> DEFINE key == make_order_key(w, i, o)
           row == s.order[key]
           l(n) == make_order_line_key(w, i, o, n)
<1>1. key \in DOMAIN t.order /\ t.order[key] = row
  BY DEF SameRows, Entire
<1>2. row.o_ol_cnt \in 1 .. 15
  BY DEF Entire
<1>3. \A n \in 1 .. row.o_ol_cnt : l(n) \in DOMAIN s.line /\ LineThere(w, s, i, o, n)
  BY DEF Entire, LineThere
<1> HIDE DEF row, l, key
<1>4. \A n \in 1 .. row.o_ol_cnt : n \in 1 .. 15
  BY <1>2
<1>5. \A n \in 1 .. row.o_ol_cnt : l(n) \in DOMAIN t.line /\ t.line[l(n)] = s.line[l(n)]
  BY <1>3, <1>4 DEF SameRows, l
<1>6. \A n \in 1 .. row.o_ol_cnt : LineThere(w, t, i, o, n)
  BY <1>3, <1>5 DEF LineThere, l
<1>7. Entire(w, t, i, o)
  BY <1>1, <1>6 DEF Entire, row, key
<1>8. ASSUME NEW c, IsFor(w, s, i, o, c)
      PROVE  IsFor(w, t, i, o, c)
  <2>1. row.o_c_id = c.c_id /\ row.o_ol_cnt = Len(c.items)
    BY <1>8 DEF IsFor, row, key
  <2>2. make_new_order_key(w, i, o) \in DOMAIN t.new_order
    BY <1>8 DEF IsFor, SameRows
  <2>3. \A n \in 1 .. Len(c.items) - 1 : n \in 1 .. row.o_ol_cnt
    BY <1>2, <2>1
  <2>4. ASSUME NEW n \in 1 .. Len(c.items) - 1
        PROVE  t.line[l(n)].ol_i_id = c.items[n + 1].i_id /\ t.line[l(n)].ol_quantity = c.items[n + 1].quantity
    <3>1. t.line[l(n)] = s.line[l(n)]
      BY <1>5, <2>3
    <3>2. s.line[l(n)].ol_i_id = c.items[n + 1].i_id /\ s.line[l(n)].ol_quantity = c.items[n + 1].quantity
      BY <1>8 DEF IsFor, l
    <3> QED  BY <3>1, <3>2
  <2> QED  BY <1>1, <2>1, <2>2, <2>4 DEF IsFor, l, key
<1> QED  BY <1>7, <1>8

\* A new order gets the next number of its district, is there with all its lines,
\* and leaves the rows of other orders alone.
Added(w, s, t, c, id) ==
  /\ \A i \in District :
       LET key == make_district_key(w, i)
       IN  t.district[key].d_next_o_id = s.district[key].d_next_o_id + (IF i = c.d_id THEN 1 ELSE 0)
  /\ \A i \in District : \A o : IsId(o) /\ (i # c.d_id \/ o # id) => SameRows(w, s, t, i, o)
  /\ Entire(w, t, c.d_id, id) /\ IsFor(w, t, c.d_id, id, c)

LEMMA OrderAdds ==
  ASSUME AppCommon, WarehousesFit, NEW d \in Dpu, NEW s, TablesWhole(d + 1, s),
         NEW p, NEW t, Ordered(d + 1, s, t, p),
         NEW id, id = s.district[make_district_key(d + 1, p.call.d_id)].d_next_o_id, IsId(id),
         \A i \in District : s.district[make_district_key(d + 1, i)].d_next_o_id \in Int
  PROVE  Added(d + 1, s, t, p.call, id)
<1> DEFINE w == d + 1
           c == p.call
           cells == p.params.cells
           n == Len(c.items)
           dk == make_district_key(w, c.d_id)
           ok == make_order_key(w, c.d_id, id)
           nk == make_new_order_key(w, c.d_id, id)
           l(m) == make_order_line_key(w, c.d_id, id, m)
<1>1. c \in NewOrderCalls /\ c.w_id = w
  BY DEF Ordered
<1>2. PICK g : /\ Decoded(c, cells, g)
               /\ OrderPut(s, t, w, c, cells, Items(cells, g))
  BY DEF Ordered
<1> DEFINE items == Items(cells, g)
<1>3. /\ c.d_id \in District /\ n \in 1 .. 15 /\ cells[1] = w /\ cells[2] = c.d_id /\ cells[4] = n
      /\ \A j \in 0 .. n - 1 : /\ items[j].i_id = c.items[j + 1].i_id
                               /\ items[j].ol_quantity = c.items[j + 1].quantity
  BY <1>1, <1>2, Zenon DEF Decoded
<1>4. /\ w \in Nat /\ c.d_id \in 1 .. 10 /\ District = 1 .. 10
      /\ w \in Warehouse
  BY <1>3, Places
<1>5. dk \in DOMAIN s.district
  BY <1>3 DEF TablesWhole
<1>6. /\ t.district = update(s.district, dk, Advanced(s.district[dk]))
      /\ t.order = insert(s.order, ok, Order(w, c.d_id, c.c_id, id, 0, n))
      /\ t.new_order = insert(s.new_order, nk, <<w, c.d_id, id>>)
      /\ t.line = WithLines(s.line, cells, id, items)
  BY <1>2 DEF OrderPut, NextNumber
<1>7. ASSUME NEW i \in District
      PROVE  LET key == make_district_key(w, i)
             IN  t.district[key].d_next_o_id = s.district[key].d_next_o_id + (IF i = c.d_id THEN 1 ELSE 0)
  <2> DEFINE key == make_district_key(w, i)
  <2>1. key \in DOMAIN s.district /\ s.district[key].d_next_o_id \in Int
    BY DEF TablesWhole
  <2>2. i # c.d_id => key # dk
    BY <1>3, <1>4, DistrictsDiffer
  <2>3. i = c.d_id => key = dk
    OBVIOUS
  <2> HIDE DEF key, dk, c, w
  <2>4. t.district[key] = IF key = dk THEN Advanced(s.district[dk]) ELSE s.district[key]
    BY <1>6, <2>1 DEF update
  <2>5. Advanced(s.district[dk]).d_next_o_id = s.district[dk].d_next_o_id + 1
    BY DEF Advanced
  <2>6. t.district[key].d_next_o_id = s.district[key].d_next_o_id + (IF i = c.d_id THEN 1 ELSE 0)
    BY <2>1, <2>2, <2>3, <2>4, <2>5
  <2> QED  BY <2>6 DEF key
<1> HIDE DEF w, c, cells, n, items
<1>8. LinesOf(w, c.d_id, id, items, n, t.line) /\ OtherLines(w, c.d_id, id, s.line, t.line)
  <2>1. /\ w \in Nat /\ c.d_id \in 1 .. 10 /\ n \in 1 .. 15
        /\ cells[1] = w /\ cells[2] = c.d_id /\ cells[4] = n
        /\ t.line = WithLines(s.line, cells, id, items)
    BY <1>3, <1>4, <1>6
  <2> DEFINE i == c.d_id
             table == s.line
             new == t.line
  <2>2. i \in 1 .. 10 /\ cells[2] = i /\ new = WithLines(table, cells, id, items)
    BY <2>1
  <2> HIDE DEF i, table, new
  <2>3. LinesOf(w, i, id, items, n, new) /\ OtherLines(w, i, id, table, new)
    BY <2>1, <2>2, LinesAdded
  <2> QED  BY <2>3 DEF i, table, new
<1>9. ASSUME NEW i \in District, NEW o, IsId(o), i # c.d_id \/ o # id
      PROVE  SameRows(w, s, t, i, o)
  <2>1. make_order_key(w, i, o) # ok
    BY <1>4, <1>9, OrderKeysDiffer
  <2>2. make_new_order_key(w, i, o) # nk
    BY <2>1 DEF make_order_key, make_new_order_key
  <2> HIDE DEF ok, nk, l
  <2>3. \A m \in 1 .. 15 :
          LET key == make_order_line_key(w, i, o, m)
          IN  key \in DOMAIN s.line => key \in DOMAIN t.line /\ t.line[key] = s.line[key]
    <3>1. i \in 1 .. 10
      BY <1>4
    <3>2. ASSUME NEW m \in 1 .. 15
          PROVE  LET key == make_order_line_key(w, i, o, m)
                 IN  key \in DOMAIN s.line => key \in DOMAIN t.line /\ t.line[key] = s.line[key]
      BY <1>8, <1>9, <3>1 DEF OtherLines
    <3> QED  BY <3>2
  <2>4. LET key == make_order_key(w, i, o)
        IN  key \in DOMAIN s.order => key \in DOMAIN t.order /\ t.order[key] = s.order[key]
    BY <1>6, <2>1 DEF insert
  <2>5. LET key == make_new_order_key(w, i, o)
        IN  key \in DOMAIN s.new_order => key \in DOMAIN t.new_order
    BY <1>6 DEF insert
  <2> QED  BY <2>3, <2>4, <2>5 DEF SameRows
<1>10. Entire(w, t, c.d_id, id) /\ IsFor(w, t, c.d_id, id, c)
  <2> DEFINE row == Order(w, c.d_id, c.c_id, id, 0, n)
  <2>1. /\ row.o_w_id = w /\ row.o_d_id = c.d_id /\ row.o_id = id /\ row.o_c_id = c.c_id
        /\ row.o_ol_cnt = n
    BY DEF Order
  <2> HIDE DEF row, ok, nk, l
  <2>2. ok \in DOMAIN t.order /\ t.order[ok] = row /\ nk \in DOMAIN t.new_order
    BY <1>6 DEF insert, row
  <2>3. ASSUME NEW m \in 1 .. n
        PROVE  /\ t.line[l(m)].ol_o_id = id /\ t.line[l(m)].ol_number = m /\ l(m) \in DOMAIN t.line
               /\ t.line[l(m)].ol_i_id = items[m].i_id
               /\ t.line[l(m)].ol_quantity = items[m].ol_quantity
    <3>1. l(m) \in DOMAIN t.line /\ t.line[l(m)] = OrderLine(id, m, items[m].i_id, items[m].ol_quantity)
      BY <1>8 DEF l, LinesOf
    <3> QED  BY <3>1 DEF OrderLine
  <2>4. \A m \in 1 .. n : LineThere(w, t, c.d_id, id, m)
    BY <2>3 DEF LineThere, l
  <2>5. Entire(w, t, c.d_id, id)
    BY <1>3, <2>1, <2>2, <2>4 DEF Entire, ok
  <2>6. ASSUME NEW m \in 1 .. n - 1
        PROVE  /\ t.line[l(m)].ol_i_id = c.items[m + 1].i_id
               /\ t.line[l(m)].ol_quantity = c.items[m + 1].quantity
    <3>1. m \in 1 .. n /\ m \in 0 .. n - 1
      BY <1>3
    <3> QED  BY <1>3, <2>3, <3>1
  <2>7. IsFor(w, t, c.d_id, id, c)
    BY <2>1, <2>2, <2>6 DEF IsFor, ok, nk, l, n
  <2> QED  BY <2>5, <2>7
<1> QED  BY <1>7, <1>9, <1>10 DEF Added, w, c

LEMMA LoadedOrders ==
  ASSUME AppCommon, WarehousesFit, NEW w \in Warehouse
  PROVE  \A i \in District :
           /\ Loaded(w).district[make_district_key(w, i)].d_next_o_id = NUM_CUSTOMERS_PER_DISTRICT + 1
           /\ \A o \in 1 .. NUM_CUSTOMERS_PER_DISTRICT : Entire(w, Loaded(w), i, o)
<1> DEFINE s == Loaded(w)
           m == ORDER_MIN_OL_COUNT
           Os == District \X Customer
           Ls == Os \X (1 .. m)
           dk(i) == make_district_key(w, i)
           ok(x) == make_order_key(w, x[1], x[2])
           lk(x) == make_order_line_key(w, x[1][1], x[1][2], x[2])
<1>1. /\ District = 1 .. 10 /\ Customer = 1 .. 3000 /\ w \in Nat
      /\ m \in 1 .. 15 /\ NUM_CUSTOMERS_PER_DISTRICT = 3000
  <2>1. District = 1 .. 10 /\ Customer = 1 .. 3000 /\ Warehouse = 1 .. n_warehouses
    BY Places
  <2>2. ORDER_MIN_OL_COUNT \in 1 .. ORDER_MAX_OL_COUNT
    BY ClientAssumption
  <2>3. m \in 1 .. 15 /\ NUM_CUSTOMERS_PER_DISTRICT = 3000
    BY <2>2, SMT DEF AppCommon
  <2>4. w \in Nat
    BY <2>1
  <2> QED  BY <2>1, <2>3, <2>4
<1>0. (\A i \in District : i \in 1 .. 10) /\ (\A o \in Customer : IsId(o))
  BY <1>1 DEF IsId
<1>2. s.district = [k \in {dk(i) : i \in District} |-> generate_district(CHOOSE i \in District : dk(i) = k)]
  BY DEF Loaded, Table
<1>3. s.order = [k \in {ok(x) : x \in Os} |->
                   Order(w, (CHOOSE x \in Os : ok(x) = k)[1], (CHOOSE x \in Os : ok(x) = k)[2],
                         (CHOOSE x \in Os : ok(x) = k)[2], 1, m)]
  BY DEF Loaded, Table
<1>4. s.line = [k \in {lk(x) : x \in Ls} |->
                  OrderLine((CHOOSE x \in Ls : lk(x) = k)[1][2], (CHOOSE x \in Ls : lk(x) = k)[2], 1, 5)]
  BY DEF Loaded, Table
<1> HIDE DEF s, m
<1>5. ASSUME NEW i \in District
      PROVE  s.district[make_district_key(w, i)].d_next_o_id = NUM_CUSTOMERS_PER_DISTRICT + 1
  BY <1>2 DEF generate_district
<1>6. ASSUME NEW i \in District, NEW o \in Customer
      PROVE  LET key == make_order_key(w, i, o)
             IN  key \in DOMAIN s.order /\ s.order[key] = Order(w, i, o, o, 1, m)
  <2> DEFINE key == make_order_key(w, i, o)
             y == CHOOSE x \in Os : ok(x) = key
  <2>1. <<i, o>> \in Os /\ ok(<<i, o>>) = key
    OBVIOUS
  <2>2. y \in Os /\ ok(y) = key
    BY <2>1
  <2>3. key \in DOMAIN s.order /\ s.order[key] = Order(w, y[1], y[2], y[2], 1, m)
    <3>1. key \in {ok(x) : x \in Os}
      BY <2>1
    <3> HIDE DEF ok, key
    <3> QED  BY <1>3, <3>1
  <2> HIDE DEF y
  <2>4. y[1] = i /\ y[2] = o
    <3>1. y[1] \in District /\ y[2] \in Customer
      BY <2>2
    <3>2. make_order_key(w, y[1], y[2]) = make_order_key(w, i, o)
      BY <2>2
    <3> DEFINE k == y[1]
               u == y[2]
    <3> HIDE DEF k, u
    <3>3. k \in District /\ u \in Customer /\ make_order_key(w, k, u) = make_order_key(w, i, o)
      BY <3>1, <3>2 DEF k, u
    <3>4. k \in 1 .. 10 /\ i \in 1 .. 10 /\ IsId(u) /\ IsId(o)
      BY <1>0, <3>3
    <3>5. k = i /\ u = o
      BY <1>1, <3>3, <3>4, OrderKeysDiffer
    <3> QED  BY <3>5 DEF k, u
  <2> QED  BY <2>3, <2>4
<1>7. ASSUME NEW i \in District, NEW o \in Customer, NEW n \in 1 .. m
      PROVE  LineThere(w, s, i, o, n)
  <2> DEFINE key == make_order_line_key(w, i, o, n)
             y == CHOOSE x \in Ls : lk(x) = key
  <2>1. <<<<i, o>>, n>> \in Ls /\ lk(<<<<i, o>>, n>>) = key
    OBVIOUS
  <2>2. y \in Ls /\ lk(y) = key
    BY <2>1
  <2>3. key \in DOMAIN s.line /\ s.line[key] = OrderLine(y[1][2], y[2], 1, 5)
    <3>1. key \in {lk(x) : x \in Ls}
      BY <2>1
    <3> HIDE DEF lk, key
    <3> QED  BY <1>4, <3>1
  <2> HIDE DEF y
  <2>4. y[1][1] = i /\ y[1][2] = o /\ y[2] = n
    <3>1. y[1][1] \in District /\ y[1][2] \in Customer /\ y[2] \in 1 .. m
      <4>1. y \in Ls
        BY <2>2
      <4> QED  BY <4>1
    <3>2. make_order_line_key(w, y[1][1], y[1][2], y[2]) = make_order_line_key(w, i, o, n)
      BY <2>2
    <3> DEFINE k == y[1][1]
               u == y[1][2]
               l == y[2]
    <3> HIDE DEF k, u, l
    <3>3. /\ k \in District /\ u \in Customer /\ l \in 1 .. m
          /\ make_order_line_key(w, k, u, l) = make_order_line_key(w, i, o, n)
      BY <3>1, <3>2 DEF k, u, l
    <3>4. /\ k \in 1 .. 10 /\ i \in 1 .. 10 /\ IsId(u) /\ IsId(o)
          /\ l \in 1 .. 15 /\ n \in 1 .. 15
      <4>1. k \in 1 .. 10 /\ i \in 1 .. 10 /\ IsId(u) /\ IsId(o)
        BY <1>0, <3>3
      <4>2. \A x \in 1 .. m : x \in 1 .. 15
        BY <1>1
      <4>3. l \in 1 .. 15 /\ n \in 1 .. 15
        BY <3>3, <4>2
      <4> QED  BY <4>1, <4>3
    <3>5. IsLine(k, u, l) /\ IsLine(i, o, n)
      BY <3>4 DEF IsLine, IsId
    <3>6. k = i /\ u = o /\ l = n
      BY <1>1, <3>3, <3>5, OrderLineKeysDiffer
    <3> QED  BY <3>6 DEF k, u, l
  <2>5. s.line[key] = OrderLine(o, n, 1, 5)
    BY <2>3, <2>4
  <2> HIDE DEF key
  <2>6. s.line[key].ol_o_id = o /\ s.line[key].ol_number = n
    BY <2>5 DEF OrderLine
  <2> QED  BY <2>3, <2>6 DEF LineThere, key
<1>8. ASSUME NEW i \in District, NEW o \in 1 .. NUM_CUSTOMERS_PER_DISTRICT
      PROVE  Entire(w, s, i, o)
  <2> DEFINE key == make_order_key(w, i, o)
  <2>1. o \in Customer
    BY <1>1
  <2>2. key \in DOMAIN s.order /\ s.order[key] = Order(w, i, o, o, 1, m)
    BY <1>6, <2>1
  <2>3. \A n \in 1 .. m : LineThere(w, s, i, o, n)
    BY <1>7, <2>1
  <2> HIDE DEF key
  <2>4. /\ s.order[key].o_w_id = w /\ s.order[key].o_d_id = i /\ s.order[key].o_id = o
        /\ s.order[key].o_ol_cnt = m
    BY <2>2 DEF Order
  <2> QED  BY <1>1, <2>2, <2>3, <2>4 DEF Entire, key
<1> QED  BY <1>5, <1>8 DEF s

\* The new orders of q for district i, and the number of the one at place j.
PlacedIn(q, i) == {j \in DOMAIN q : q[j].type = "NEW_ORDER" /\ q[j].call.d_id = i}

NumberIn(q, j) ==
  NUM_CUSTOMERS_PER_DISTRICT + Cardinality({k \in PlacedIn(q, q[j].call.d_id) : k <= j})

LastIn(q, i) == NUM_CUSTOMERS_PER_DISTRICT + Cardinality(PlacedIn(q, i))

\* t is q and the entry e: the orders in q keep their numbers.
Longer(q, e, t, i) ==
  LET x == Len(q) + 1
      new == e.type = "NEW_ORDER" /\ e.call.d_id = i
  IN  /\ LastIn(q, i) \in Nat /\ NUM_CUSTOMERS_PER_DISTRICT <= LastIn(q, i)
      /\ LastIn(t, i) = LastIn(q, i) + (IF new THEN 1 ELSE 0)
      /\ PlacedIn(t, i) = PlacedIn(q, i) \cup (IF new THEN {x} ELSE {})
      /\ \A j \in PlacedIn(q, i) : /\ t[j] = q[j] /\ NumberIn(t, j) = NumberIn(q, j)
                                   /\ NumberIn(q, j) \in 1 .. LastIn(q, i)
      /\ new => t[x] = e /\ NumberIn(t, x) = LastIn(q, i) + 1

LEMMA PlacedMore ==
  ASSUME NEW q, NEW e, NEW t, Grown(q, e, t), NEW i
  PROVE  Longer(q, e, t, i)
<1> DEFINE n == Len(q)
           x == n + 1
           new == e.type = "NEW_ORDER" /\ e.call.d_id = i
           P == PlacedIn(q, i)
           N == NUM_CUSTOMERS_PER_DISTRICT
<1>1. /\ n \in Nat /\ DOMAIN q = 1 .. n /\ DOMAIN t = 1 .. n + 1
      /\ \A k \in 1 .. n : t[k] = q[k]
      /\ t[n + 1] = e
  BY AppendSeq DEF Grown
<1>2. N \in Nat
  BY KeysAssumption
<1> HIDE DEF n, N
<1>3. P \subseteq 1 .. n /\ x \notin P
  BY <1>1 DEF PlacedIn
<1>4. PlacedIn(t, i) = P \cup (IF new THEN {x} ELSE {})
  BY <1>1 DEF PlacedIn
<1>5. IsFiniteSet(P) /\ Cardinality(P) \in Nat
  <2>1. IsFiniteSet(1 .. n)
    BY <1>1, FS_Interval
  <2>2. IsFiniteSet(P)
    BY <1>3, <2>1, FS_Subset
  <2> QED  BY <2>2, FS_CardinalityType
<1>6. Cardinality(P \cup {x}) = Cardinality(P) + 1
  <2> HIDE DEF P, x
  <2> QED  BY <1>3, <1>5, FS_AddElement
<1>7. LastIn(q, i) = N + Cardinality(P) /\ LastIn(t, i) = N + Cardinality(PlacedIn(t, i))
  BY DEF LastIn, N
<1>8. /\ LastIn(q, i) \in Nat /\ N <= LastIn(q, i)
      /\ LastIn(t, i) = LastIn(q, i) + (IF new THEN 1 ELSE 0)
  <2> HIDE DEF P, new
  <2>1. CASE new
    BY <1>2, <1>4, <1>5, <1>6, <1>7, <2>1
  <2>2. CASE ~ new
    <3>1. PlacedIn(t, i) = P
      BY <1>4, <2>2
    <3> QED  BY <1>2, <1>5, <1>7, <2>2, <3>1
  <2> QED  BY <2>1, <2>2
<1>9. ASSUME NEW j \in P
      PROVE  t[j] = q[j] /\ NumberIn(t, j) = NumberIn(q, j) /\ NumberIn(q, j) \in 1 .. LastIn(q, i)
  <2>1. j \in 1 .. n /\ t[j] = q[j] /\ q[j].call.d_id = i
    BY <1>1, <1>3 DEF PlacedIn
  <2> DEFINE S == {k \in P : k <= j}
  <2>2. {k \in PlacedIn(t, i) : k <= j} = S
    <3> HIDE DEF P, new
    <3>1. ~ (x <= j)
      BY <1>1, <2>1
    <3> QED  BY <1>4, <3>1
  <2>3. NumberIn(q, j) = N + Cardinality(S) /\ NumberIn(t, j) = N + Cardinality(S)
    BY <2>1, <2>2 DEF NumberIn, N
  <2>4. Cardinality(S) \in Nat /\ Cardinality(S) <= Cardinality(P) /\ Cardinality(S) # 0
    <3>1. S \subseteq P /\ j \in S
      BY <2>1
    <3> HIDE DEF S, P
    <3>2. IsFiniteSet(S) /\ Cardinality(S) <= Cardinality(P)
      BY <1>5, <3>1, FS_Subset
    <3>3. Cardinality(S) # 0
      BY <3>1, <3>2, FS_EmptySet
    <3> QED  BY <3>2, <3>3, FS_CardinalityType
  <2> HIDE DEF S, P
  <2> QED  BY <1>2, <1>5, <1>7, <2>1, <2>3, <2>4
<1>10. ASSUME new
       PROVE  t[x] = e /\ NumberIn(t, x) = LastIn(q, i) + 1
  <2>1. t[x] = e
    BY <1>1
  <2>2. PlacedIn(t, i) = P \cup {x} /\ e.call.d_id = i
    BY <1>4, <1>10
  <2>3. \A k \in P \cup {x} : k <= x
    BY <1>1, <1>3
  <2> HIDE DEF P, x, new
  <2>4. {k \in PlacedIn(t, i) : k <= x} = P \cup {x}
    BY <2>2, <2>3
  <2>5. NumberIn(t, x) = N + Cardinality(P \cup {x})
    BY <2>1, <2>2, <2>4 DEF NumberIn, N
  <2> QED  BY <1>2, <1>5, <1>6, <1>7, <2>1, <2>5
<1> QED  BY <1>4, <1>8, <1>9, <1>10 DEF Longer, n, N

\* The orders of warehouse w in the tables s after the parts q.
OrdersOf(w, s, q) ==
  \A i \in District :
    /\ s.district[make_district_key(w, i)].d_next_o_id = LastIn(q, i) + 1
    /\ \A o \in 1 .. LastIn(q, i) : Entire(w, s, i, o)
    /\ \A j \in PlacedIn(q, i) : IsFor(w, s, i, NumberIn(q, j), q[j].call)

\* No district has given out the numbers below a million.
Below(w, s) == \A i \in District : s.district[make_district_key(w, i)].d_next_o_id < 1000000

\* A part that adds no order.
LEMMA OrdersSame ==
  ASSUME NEW w, NEW s, NEW t, SameOrders(w, s, t), NEW q, IsSeq(q), OrdersOf(w, s, q),
         NEW e, e.type # "NEW_ORDER", NEW u, u = Append(q, e)
  PROVE  OrdersOf(w, t, u)
<1>1. ASSUME NEW i \in District
      PROVE  /\ t.district[make_district_key(w, i)].d_next_o_id = LastIn(u, i) + 1
             /\ \A o \in 1 .. LastIn(u, i) : Entire(w, t, i, o)
             /\ \A j \in PlacedIn(u, i) : IsFor(w, t, i, NumberIn(u, j), u[j].call)
  <2>1. Grown(q, e, u)
    BY DEF Grown
  <2>2. /\ LastIn(q, i) \in Nat /\ LastIn(u, i) = LastIn(q, i) /\ PlacedIn(u, i) = PlacedIn(q, i)
        /\ \A j \in PlacedIn(q, i) : u[j] = q[j] /\ NumberIn(u, j) = NumberIn(q, j)
    <3>1. Longer(q, e, u, i)
      BY <2>1, PlacedMore
    <3>2. LastIn(q, i) \in Nat /\ LastIn(u, i) = LastIn(q, i) + 0
      BY <3>1, Zenon DEF Longer
    <3>3. PlacedIn(u, i) = PlacedIn(q, i)
      BY <3>1, Zenon DEF Longer
    <3>4. \A j \in PlacedIn(q, i) : u[j] = q[j] /\ NumberIn(u, j) = NumberIn(q, j)
      BY <3>1, Zenon DEF Longer
    <3>5. LastIn(u, i) = LastIn(q, i)
      BY <3>2
    <3> QED  BY <3>2, <3>3, <3>4, <3>5, Zenon
  <2>3. /\ s.district[make_district_key(w, i)].d_next_o_id = LastIn(q, i) + 1
        /\ \A o \in 1 .. LastIn(q, i) : Entire(w, s, i, o)
        /\ \A j \in PlacedIn(q, i) : IsFor(w, s, i, NumberIn(q, j), q[j].call)
    BY DEF OrdersOf
  <2>4. \A o : Entire(w, s, i, o) => Entire(w, t, i, o)
    BY DEF SameOrders, Entire, LineThere
  <2>5. \A o, c : IsFor(w, s, i, o, c) => IsFor(w, t, i, o, c)
    BY DEF SameOrders, IsFor
  <2>6. t.district[make_district_key(w, i)].d_next_o_id = LastIn(u, i) + 1
    BY <2>2, <2>3 DEF SameOrders
  <2> QED  BY <2>2, <2>3, <2>4, <2>5, <2>6
<1> QED  BY <1>1 DEF OrdersOf

\* A new order.
LEMMA OrdersGrow ==
  ASSUME AppCommon, WarehousesFit, NEW d \in Dpu, NEW s, TablesWhole(d + 1, s), Below(d + 1, s),
         NEW q, IsSeq(q), OrdersOf(d + 1, s, q), NEW p, NEW t, Ordered(d + 1, s, t, p),
         NEW e, e.type = "NEW_ORDER", e.call = p.call, NEW u, u = Append(q, e)
  PROVE  OrdersOf(d + 1, t, u)
<1> DEFINE w == d + 1
           c == p.call
           x == Len(q) + 1
           next(v, i) == v.district[make_district_key(w, i)].d_next_o_id
           id == next(s, c.d_id)
<1>1. Grown(q, e, u)
  BY DEF Grown
<1>2. ASSUME NEW i \in District
      PROVE  LET new == i = c.d_id
             IN  /\ LastIn(q, i) \in Nat
                 /\ LastIn(u, i) = LastIn(q, i) + (IF new THEN 1 ELSE 0)
                 /\ PlacedIn(u, i) = PlacedIn(q, i) \cup (IF new THEN {x} ELSE {})
                 /\ \A j \in PlacedIn(q, i) : /\ u[j] = q[j] /\ NumberIn(u, j) = NumberIn(q, j)
                                              /\ NumberIn(q, j) \in 1 .. LastIn(q, i)
                 /\ new => u[x].call = c /\ NumberIn(u, x) = LastIn(q, i) + 1
  <2>1. Longer(q, e, u, i)
    BY <1>1, PlacedMore
  <2> HIDE DEF c
  <2>2. e.type = "NEW_ORDER" /\ (e.call.d_id = i <=> i = c.d_id) /\ e.call = c
    BY DEF c
  <2> QED  BY <2>1, <2>2 DEF Longer
<1>3. ASSUME NEW i \in District
      PROVE  /\ next(s, i) = LastIn(q, i) + 1 /\ next(s, i) < 1000000
             /\ \A o \in 1 .. LastIn(q, i) : IsId(o) /\ Entire(w, s, i, o)
             /\ \A j \in PlacedIn(q, i) : IsFor(w, s, i, NumberIn(q, j), q[j].call)
  <2>1. /\ next(s, i) = LastIn(q, i) + 1 /\ next(s, i) < 1000000
        /\ \A o \in 1 .. LastIn(q, i) : Entire(w, s, i, o)
        /\ \A j \in PlacedIn(q, i) : IsFor(w, s, i, NumberIn(q, j), q[j].call)
    BY DEF OrdersOf, Below
  <2>2. \A o \in 1 .. LastIn(q, i) : IsId(o)
    <3> DEFINE last == LastIn(q, i)
               n == next(s, i)
    <3>1. last \in Nat /\ n = last + 1 /\ n < 1000000
      BY <1>2, <2>1
    <3> HIDE DEF last, n
    <3>2. \A o \in 1 .. last : IsId(o)
      BY <3>1 DEF IsId
    <3> QED  BY <3>2 DEF last
  <2> QED  BY <2>1, <2>2
<1>4. c.d_id \in District
  BY OrderIs DEF Ordered
<1>5. IsId(id) /\ \A i \in District : next(s, i) \in Int
  <2>1. \A i \in District : next(s, i) = LastIn(q, i) + 1 /\ LastIn(q, i) \in Nat /\ next(s, i) < 1000000
    BY <1>2, <1>3
  <2> HIDE DEF next
  <2> QED  BY <1>4, <2>1 DEF IsId
<1>6. Added(w, s, t, c, id)
  BY <1>5, OrderAdds
<1> HIDE DEF w, c, x
<1>7. ASSUME NEW i \in District
      PROVE  /\ next(t, i) = LastIn(u, i) + 1
             /\ \A o \in 1 .. LastIn(u, i) : Entire(w, t, i, o)
             /\ \A j \in PlacedIn(u, i) : IsFor(w, t, i, NumberIn(u, j), u[j].call)
  <2>1. next(t, i) = next(s, i) + (IF i = c.d_id THEN 1 ELSE 0)
    BY <1>6 DEF Added
  <2>2. \A o : IsId(o) /\ (i # c.d_id \/ o # id) => SameRows(w, s, t, i, o)
    BY <1>6 DEF Added
  <2>3. i = c.d_id => Entire(w, t, i, id) /\ IsFor(w, t, i, id, c) /\ id = LastIn(q, i) + 1
    BY <1>3, <1>6 DEF Added
  <2>4. next(s, i) = LastIn(q, i) + 1 /\ LastIn(q, i) \in Nat
    BY <1>2, <1>3
  <2> HIDE DEF next, id
  <2>5. ASSUME NEW o \in 1 .. LastIn(q, i)
        PROVE  Entire(w, t, i, o) /\ \A k : IsFor(w, s, i, o, k) => IsFor(w, t, i, o, k)
    <3>1. IsId(o) /\ Entire(w, s, i, o)
      BY <1>3
    <3>2. i # c.d_id \/ o # id
      BY <2>3, <2>4
    <3>3. SameRows(w, s, t, i, o)
      BY <2>2, <3>1, <3>2
    <3> QED  BY <3>1, <3>3, RowsStay
  <2>6. next(t, i) = LastIn(u, i) + 1
    BY <1>2, <2>1, <2>4
  <2>7. ASSUME NEW o \in 1 .. LastIn(u, i)
        PROVE  Entire(w, t, i, o)
    <3>1. o \in 1 .. LastIn(q, i) \/ (i = c.d_id /\ o = LastIn(q, i) + 1)
      BY <1>2, <2>4
    <3> QED  BY <2>3, <2>5, <3>1
  <2>8. ASSUME NEW j \in PlacedIn(u, i)
        PROVE  IsFor(w, t, i, NumberIn(u, j), u[j].call)
    <3>1. CASE j \in PlacedIn(q, i)
      <4>1. /\ u[j] = q[j] /\ NumberIn(u, j) = NumberIn(q, j) /\ NumberIn(q, j) \in 1 .. LastIn(q, i)
        BY <1>2, <3>1
      <4>2. IsFor(w, s, i, NumberIn(q, j), q[j].call)
        BY <1>3, <3>1
      <4> QED  BY <2>5, <4>1, <4>2
    <3>2. CASE j \notin PlacedIn(q, i)
      <4>1. i = c.d_id /\ j = x
        BY <1>2, <3>2
      <4>2. u[x].call = c /\ NumberIn(u, x) = LastIn(q, i) + 1
        BY <1>2, <4>1
      <4> QED  BY <2>3, <4>1, <4>2
    <3> QED  BY <3>1, <3>2
  <2> QED  BY <2>6, <2>7, <2>8
<1> QED  BY <1>7 DEF OrdersOf, w

\* What order_status finds of an order that is there.
LEMMA AllLinesFound ==
  ASSUME NEW w, NEW s, NEW i, NEW o, Entire(w, s, i, o),
         NEW row, row = s.order[make_order_key(w, i, o)]
  PROVE  row.o_d_id = i /\ LinesFound(s, row) = 1 .. row.o_ol_cnt
<1>1. /\ row.o_w_id = w /\ row.o_d_id = i /\ row.o_id = o /\ row.o_ol_cnt \in 1 .. 15
      /\ \A n \in 1 .. row.o_ol_cnt : LineThere(w, s, i, o, n)
  BY DEF Entire
<1>2. \A n \in 1 .. row.o_ol_cnt : make_order_line_key(row.o_w_id, row.o_d_id, row.o_id, n) \in DOMAIN s.line
  BY <1>1 DEF LineThere
<1>3. \A n \in 1 .. row.o_ol_cnt : \A m \in 1 .. n : m \in 1 .. row.o_ol_cnt
  BY <1>1
<1> QED  BY <1>1, <1>2, <1>3 DEF LinesFound

\* Whatever was read is right.
ReadsOf(q) ==
  \A k \in DOMAIN q : \A r \in q[k].read :
    r.order.o_d_id = q[k].call.d_id /\ r.found = 1 .. r.order.o_ol_cnt

LEMMA ReadsGrow ==
  ASSUME AppCommon, NEW d, NEW s, NEW q, IsSeq(q), ReadsOf(q), OrdersOf(d + 1, s, q),
         NEW p, NEW read, Read1(d, s, p, read),
         NEW e, e.call = p.call, e.read = read, NEW u, u = Append(q, e)
  PROVE  ReadsOf(u)
<1>1. /\ Len(q) \in Nat /\ DOMAIN q = 1 .. Len(q) /\ DOMAIN u = 1 .. Len(q) + 1
      /\ \A k \in 1 .. Len(q) : u[k] = q[k]
      /\ u[Len(q) + 1] = e
  BY AppendSeq
<1>2. ASSUME NEW r \in read
      PROVE  r.order.o_d_id = p.call.d_id /\ r.found = 1 .. r.order.o_ol_cnt
  <2> DEFINE c == p.call
             row == s.order[make_order_key(d + 1, c.d_id, c.c_id)]
  <2>1. StatusRead(d + 1, s, c, read)
    BY <1>2 DEF Read1
  <2>2. c.d_id \in District /\ c.c_id \in Customer /\ r = [order |-> row, found |-> LinesFound(s, row)]
    BY <1>2, <2>1 DEF StatusRead
  <2>3. c.c_id \in 1 .. LastIn(q, c.d_id)
    <3>1. LastIn(q, c.d_id) \in Nat /\ NUM_CUSTOMERS_PER_DISTRICT <= LastIn(q, c.d_id)
      <4>1. Longer(q, e, u, c.d_id)
        BY PlacedMore DEF Grown
      <4> QED  BY <4>1 DEF Longer
    <3>2. c.c_id \in 1 .. NUM_CUSTOMERS_PER_DISTRICT /\ NUM_CUSTOMERS_PER_DISTRICT \in Nat
      BY <2>2, KeysAssumption DEF Customer
    <3> HIDE DEF c
    <3> QED  BY <3>1, <3>2
  <2>4. Entire(d + 1, s, c.d_id, c.c_id)
    BY <2>2, <2>3 DEF OrdersOf
  <2>5. row.o_d_id = c.d_id /\ LinesFound(s, row) = 1 .. row.o_ol_cnt
    BY <2>4, AllLinesFound
  <2> HIDE DEF row, c
  <2>6. r.order = row /\ r.found = LinesFound(s, row)
    BY <2>2
  <2> QED  BY <2>5, <2>6 DEF c
<1>3. ASSUME NEW k \in DOMAIN u, NEW r \in u[k].read
      PROVE  r.order.o_d_id = u[k].call.d_id /\ r.found = 1 .. r.order.o_ol_cnt
  <2>1. CASE k = Len(q) + 1
    BY <1>1, <1>2, <1>3, <2>1
  <2>2. CASE k # Len(q) + 1
    <3>1. k \in DOMAIN q /\ u[k] = q[k]
      BY <1>1, <2>2
    <3> QED  BY <1>3, <3>1 DEF ReadsOf
  <2> QED  BY <2>1, <2>2
<1> QED  BY <1>3 DEF ReadsOf

------------------------------------------------------------------------------
(* The orders of all districts *)

\* Orders and what was read of them.
OrdersInv ==
  \A d \in Dpu : /\ ReadsOf(done[d])
                 /\ ~ db[d].wild => OrdersOf(d + 1, db[d], done[d])

\* No district gets to the number of a million, for which keys are known to differ:
\* the orders before it with their lines do not fit into the memory of a DPU.
NumbersFit == \A d \in Dpu : ~ db[d].wild => Below(d + 1, db[d])

LEMMA OrdersStart ==
  ASSUME AppCommon, WarehousesFit, Init
  PROVE  OrdersInv
<1>1. ASSUME NEW d \in Dpu
      PROVE  ReadsOf(done[d]) /\ OrdersOf(d + 1, db[d], done[d])
  <2>1. done[d] = <<>> /\ db[d] = Loaded(d + 1)
    BY <1>1 DEF Init
  <2>2. ReadsOf(<<>>)
    BY DEF ReadsOf
  <2>3. \A i : PlacedIn(<<>>, i) = {}
    BY DEF PlacedIn
  <2>4. \A i : LastIn(<<>>, i) = NUM_CUSTOMERS_PER_DISTRICT
    <3>1. Cardinality({}) = 0
      BY FS_EmptySet
    <3>2. NUM_CUSTOMERS_PER_DISTRICT \in Nat
      BY KeysAssumption
    <3> QED  BY <2>3, <3>1, <3>2 DEF LastIn
  <2>5. d + 1 \in Warehouse
    BY Places
  <2>6. OrdersOf(d + 1, Loaded(d + 1), <<>>)
    <3> DEFINE w == d + 1
               s == Loaded(w)
    <3>1. \A i \in District : /\ s.district[make_district_key(w, i)].d_next_o_id = NUM_CUSTOMERS_PER_DISTRICT + 1
                              /\ \A o \in 1 .. NUM_CUSTOMERS_PER_DISTRICT : Entire(w, s, i, o)
      BY <2>5, LoadedOrders
    <3> HIDE DEF s, w
    <3>2. OrdersOf(w, s, <<>>)
      BY <2>3, <2>4, <3>1 DEF OrdersOf
    <3> QED  BY <3>2 DEF s, w
  <2> QED  BY <2>1, <2>2, <2>6
<1> QED  BY <1>1 DEF OrdersInv

LEMMA OrdersStep ==
  ASSUME AppCommon, WarehousesFit, PartsInv, OrdersInv, NumbersFit,
         NEW d \in Dpu, NEW i \in DOMAIN pending[d], Exec(d, i)
  PROVE  OrdersInv'
<1>1. PICK p, read :
        /\ Ran1(d, db[d], p, db'[d]) /\ Read1(d, db[d], p, read)
        /\ done'[d] = Append(done[d], [type |-> p.type, call |-> p.call, read |-> read])
  BY ExecRuns
<1>2. ~ db[d].wild /\ \A e \in Dpu \ {d} : db'[e] = db[e] /\ done'[e] = done[e]
  BY ExecRuns
<1> DEFINE s == db[d]
           q == done[d]
           t == db'[d]
           u == done'[d]
           entry == [type |-> p.type, call |-> p.call, read |-> read]
<1>3. /\ IsSeq(q) /\ TablesWhole(d + 1, s) /\ Below(d + 1, s)
      /\ ReadsOf(q) /\ OrdersOf(d + 1, s, q)
  BY <1>2 DEF PartsInv, NumbersFit, OrdersInv
<1>4. entry.type = p.type /\ entry.call = p.call /\ entry.read = read /\ u = Append(q, entry)
  BY <1>1
<1>5. Ran1(d, s, p, t) /\ Read1(d, s, p, read)
  BY <1>1
<1> HIDE DEF s, q, t, u, entry
<1>6. ReadsOf(u)
  BY <1>3, <1>4, <1>5, ReadsGrow
<1>7. ASSUME ~ t.wild
      PROVE  OrdersOf(d + 1, t, u)
  <2>1. p.type # "PAYMENT_REMOTE"
    BY <1>5, <1>7 DEF Ran1
  <2>2. CASE p.type = "NEW_ORDER"
    <3>1. Ordered(d + 1, s, t, p)
      BY <1>5, <2>1, <2>2 DEF Ran1
    <3> QED  BY <1>3, <1>4, <2>2, <3>1, OrdersGrow
  <2>3. CASE p.type # "NEW_ORDER"
    <3>1. SameOrders(d + 1, s, t)
      BY <1>5, <2>1, <2>3 DEF Ran1
    <3> DEFINE w == d + 1
    <3>2. SameOrders(w, s, t) /\ OrdersOf(w, s, q)
      BY <1>3, <3>1
    <3> HIDE DEF w
    <3>3. OrdersOf(w, t, u)
      BY <1>3, <1>4, <2>3, <3>2, OrdersSame
    <3> QED  BY <3>3 DEF w
  <2> QED  BY <2>2, <2>3
<1>8. ASSUME NEW e \in Dpu
      PROVE  ReadsOf(done'[e]) /\ (~ db'[e].wild => OrdersOf(e + 1, db'[e], done'[e]))
  <2>1. CASE e = d
    BY <1>6, <1>7, <2>1 DEF t, u
  <2>2. CASE e # d
    BY <1>2, <2>2 DEF OrdersInv
  <2> QED  BY <2>1, <2>2
<1> QED  BY <1>8 DEF OrdersInv, Dpu

LEMMA PartsOrders ==
  ASSUME AppCommon, WarehousesFit, PartsInv, OrdersInv, NumbersFit, [Next]_vars
  PROVE  PartsInv' /\ OrdersInv'
<1>1. ASSUME db' = db, done' = done
      PROVE  OrdersInv'
  BY <1>1 DEF OrdersInv, Dpu
<1>2. ASSUME NEW call \in Drawn, Generate(call)
      PROVE  PartsInv' /\ OrdersInv'
  <2>1. db' = db /\ done' = done
    BY <1>2 DEF Generate
  <2> QED  BY <1>1, <1>2, <2>1, Generated
<1>3. CASE Start
  BY <1>1, <1>3 DEF Start, PartsInv
<1>4. ASSUME NEW d \in Dpu, NEW i \in DOMAIN pending[d], Exec(d, i)
      PROVE  PartsInv' /\ OrdersInv'
  BY <1>4, ExecRuns, OrdersStep
<1>5. CASE UNCHANGED vars
  BY <1>1, <1>5 DEF vars, PartsInv
<1> QED  BY <1>2, <1>3, <1>4, <1>5 DEF Next

LEMMA OrdersKept ==
  Spec /\ AppCommon /\ WarehousesFit /\ []NumbersFit => [](PartsInv /\ OrdersInv)
<1> DEFINE I == AppCommon /\ WarehousesFit /\ PartsInv /\ OrdersInv
<1>1. Init /\ AppCommon /\ WarehousesFit => I
  BY PartsStart, OrdersStart
<1>2. I /\ NumbersFit /\ [Next]_vars => I'
  <2>1. ASSUME AppCommon, WarehousesFit
        PROVE  AppCommon' /\ WarehousesFit'
    BY <2>1 DEF AppCommon, WarehousesFit
  <2> QED  BY <2>1, PartsOrders
<1>3. I => PartsInv /\ OrdersInv
  OBVIOUS
<1> QED  BY <1>1, <1>2, <1>3, PTL DEF Spec

\* The operators of the properties are those of the invariant.
LEMMA PlacedIs ==
  ASSUME NEW d, NEW i
  PROVE  /\ Placed(d, i) = PlacedIn(done[d], i)
         /\ \A j : NumberOf(d, j) = NumberIn(done[d], j)
<1>1. \A k : Placed(d, k) = PlacedIn(done[d], k)
  BY DEF Placed, PlacedIn
<1> QED  BY <1>1 DEF NumberOf, NumberIn

(* The orders of a district are numbered without a gap behind those that     *)
(* were loaded, and every order is in its table with the customer and the    *)
(* number of lines asked for and with all its lines: no key is ever used for *)
(* two rows (application.c:196-235, 376-405), although keys wrap around      *)
(* from order 11012 on.                                                      *)
THEOREM OrdersAlwaysPlaced ==
  Spec /\ AppCommon /\ WarehousesFit /\ []NumbersFit => []OrdersPlaced
<1>1. PartsInv /\ OrdersInv => OrdersPlaced
  <2> SUFFICES ASSUME OrdersInv, NEW d \in Dpu, ~ db[d].wild, NEW i \in District
               PROVE  LET w    == d + 1
                          s    == db[d]
                          last == NUM_CUSTOMERS_PER_DISTRICT + Cardinality(Placed(d, i))
                      IN  /\ s.district[make_district_key(w, i)].d_next_o_id = last + 1
                          /\ \A o_id \in 1 .. last : Whole(s, w, i, o_id)
                          /\ \A j \in Placed(d, i) :
                               LET o_id  == NumberOf(d, j)
                                   call  == done[d][j].call
                                   order == s.order[make_order_key(w, i, o_id)]
                               IN  /\ order.o_c_id = call.c_id /\ order.o_ol_cnt = Len(call.items)
                                   /\ make_new_order_key(w, i, o_id) \in DOMAIN s.new_order
    BY DEF OrdersPlaced
  <2> DEFINE w == d + 1
             s == db[d]
             q == done[d]
  <2>1. /\ s.district[make_district_key(w, i)].d_next_o_id = LastIn(q, i) + 1
        /\ \A o \in 1 .. LastIn(q, i) : Entire(w, s, i, o)
        /\ \A j \in PlacedIn(q, i) : IsFor(w, s, i, NumberIn(q, j), q[j].call)
    BY DEF OrdersInv, OrdersOf
  <2>2. Placed(d, i) = PlacedIn(q, i) /\ \A j : NumberOf(d, j) = NumberIn(q, j)
    BY PlacedIs
  <2> HIDE DEF w, s, q
  <2>3. LastIn(q, i) = NUM_CUSTOMERS_PER_DISTRICT + Cardinality(Placed(d, i))
    BY <2>2 DEF LastIn
  <2>4. \A o : Entire(w, s, i, o) => Whole(s, w, i, o)
    BY DEF Entire, LineThere, Whole
  <2>5. ASSUME NEW j \in Placed(d, i)
        PROVE  LET o_id  == NumberOf(d, j)
                   call  == q[j].call
                   order == s.order[make_order_key(w, i, o_id)]
               IN  /\ order.o_c_id = call.c_id /\ order.o_ol_cnt = Len(call.items)
                   /\ make_new_order_key(w, i, o_id) \in DOMAIN s.new_order
    BY <2>1, <2>2 DEF IsFor
  <2> QED  BY <2>1, <2>3, <2>4, <2>5 DEF w, s, q
<1> QED  BY <1>1, OrdersKept, PTL

(* Line n of every new order has the item n + 1 that the client ordered: the *)
(* first item is lost whatever is ordered, in whatever order parts are run,  *)
(* and however many orders follow (application.c:222-236).                   *)
THEOREM ItemsAlwaysShifted ==
  Spec /\ AppCommon /\ WarehousesFit /\ []NumbersFit => []ItemsShifted
<1>1. PartsInv /\ OrdersInv => ItemsShifted
  <2> SUFFICES ASSUME OrdersInv, NEW d \in Dpu, ~ db[d].wild, NEW i \in District, NEW j \in Placed(d, i)
               PROVE  LET items == done[d][j].call.items
                          line(n) == db[d].line[make_order_line_key(d + 1, i, NumberOf(d, j), n)]
                      IN  \A n \in 1 .. Len(items) - 1 :
                            line(n).ol_i_id = items[n + 1].i_id /\ line(n).ol_quantity = items[n + 1].quantity
    BY DEF ItemsShifted
  <2>1. j \in PlacedIn(done[d], i) /\ NumberOf(d, j) = NumberIn(done[d], j)
    BY PlacedIs
  <2>2. IsFor(d + 1, db[d], i, NumberIn(done[d], j), done[d][j].call)
    BY <2>1 DEF OrdersInv, OrdersOf
  <2> QED  BY <2>1, <2>2 DEF IsFor
<1> QED  BY <1>1, OrdersKept, PTL

(* order_status always reads an order of its district with all its lines,    *)
(* whatever has been ordered since (application.c:254-283).                  *)
THEOREM StatusAlwaysComplete ==
  Spec /\ AppCommon /\ WarehousesFit /\ []NumbersFit => []StatusComplete
<1>1. PartsInv /\ OrdersInv => StatusComplete
  BY DEF OrdersInv, ReadsOf, StatusComplete
<1> QED  BY <1>1, OrdersKept, PTL

\* A DPU has at most one part of every call.
CountInv ==
  /\ calls \in Seq(Drawn) /\ Len(calls) <= MaxTxs
  /\ \A d \in Dpu : Len(pending[d]) + Len(done[d]) <= Len(calls)

LEMMA RemoveLen ==
  ASSUME NEW T, NEW s \in Seq(T), NEW i \in DOMAIN s
  PROVE  Len(RemoveAt(s, i)) = Len(s) - 1 /\ Len(s) \in Nat
<1>1. i \in Nat /\ 1 <= i /\ i <= Len(s) /\ Len(s) \in Nat
  BY LenProperties
<1> DEFINE a == SubSeq(s, 1, i - 1)
           b == SubSeq(s, i + 1, Len(s))
<1>2. \A j \in 1 .. Len(s) : s[j] \in T
  BY LenProperties
<1>3. a \in Seq(T) /\ Len(a) = i - 1
  <2>1. 1 \in Int /\ i - 1 \in Int /\ \A j \in 1 .. i - 1 : s[j] \in T
    BY <1>1, <1>2
  <2>2. a \in Seq(T) /\ Len(a) = IF 1 <= i - 1 THEN i - 1 - 1 + 1 ELSE 0
    BY <2>1, SubSeqProperties
  <2> QED  BY <1>1, <2>2
<1>4. b \in Seq(T) /\ Len(b) = Len(s) - i
  <2>1. i + 1 \in Int /\ Len(s) \in Int /\ \A j \in i + 1 .. Len(s) : s[j] \in T
    BY <1>1, <1>2
  <2>2. b \in Seq(T) /\ Len(b) = IF i + 1 <= Len(s) THEN Len(s) - (i + 1) + 1 ELSE 0
    BY <2>1, SubSeqProperties
  <2> QED  BY <1>1, <2>2
<1>5. RemoveAt(s, i) = a \o b
  BY DEF RemoveAt
<1> HIDE DEF a, b
<1>6. Len(a \o b) = Len(a) + Len(b)
  BY <1>3, <1>4, ConcatProperties
<1>7. Len(RemoveAt(s, i)) = (i - 1) + (Len(s) - i)
  BY <1>3, <1>4, <1>5, <1>6
<1>8. \A n \in Nat : (i - 1) + (n - i) = n - 1
  BY <1>1
<1> QED  BY <1>1, <1>7, <1>8

LEMMA CountStep ==
  ASSUME PartsInv, CountInv, [Next]_vars
  PROVE  CountInv'
<1>0. \A d \in Dpu : /\ pending[d] \in Seq(Part(d)) /\ Len(pending[d]) \in Nat
                     /\ IsSeq(done[d]) /\ Len(done[d]) \in Nat
  BY AppendSeq, LenProperties DEF PartsInv
<1>1. ASSUME NEW call \in Drawn, Generate(call)
      PROVE  CountInv'
  <2>1. /\ calls' = Append(calls, call) /\ Len(calls) < MaxTxs /\ done' = done
    BY <1>1 DEF Generate
  <2>2. calls' \in Seq(Drawn) /\ Len(calls') = Len(calls) + 1 /\ Len(calls) \in Nat
    BY <2>1, AppendProperties, LenProperties DEF CountInv
  <2>3. ASSUME NEW d \in Dpu
        PROVE  Len(pending'[d]) <= Len(pending[d]) + 1
    <3> DEFINE parts == Parts(call)
               more == IF d \in DOMAIN parts THEN <<parts[d]>> ELSE <<>>
    <3>1. pending'[d] = pending[d] \/ (more \in Seq(Part(d)) /\ pending'[d] = pending[d] \o more)
      <4>1. CASE \E e \in DOMAIN parts : parts[e].params.failed
        BY <1>1, <4>1 DEF Generate
      <4>2. CASE ~ \E e \in DOMAIN parts : parts[e].params.failed
        <5>1. pending'[d] = pending[d] \o more
          BY <1>1, <4>2 DEF Generate
        <5>2. d \in DOMAIN parts => parts[d] \in Part(d)
          BY <4>2, ApplicationAssumption DEF Part
        <5> HIDE DEF parts
        <5>3. more \in Seq(Part(d))
          BY <5>2
        <5> QED  BY <5>1, <5>3
      <4> QED  BY <4>1, <4>2
    <3>2. Len(more) <= 1 /\ Len(more) \in Nat
      <4> HIDE DEF parts
      <4>1. CASE d \in DOMAIN parts
        BY <4>1
      <4>2. CASE d \notin DOMAIN parts
        BY <4>2
      <4> QED  BY <4>1, <4>2
    <3> HIDE DEF more
    <3>3. more \in Seq(Part(d)) => Len(pending[d] \o more) = Len(pending[d]) + Len(more)
      BY <1>0, ConcatProperties
    <3> QED  BY <1>0, <3>1, <3>2, <3>3
  <2>4. \A d \in Dpu : Len(pending'[d]) \in Nat
    <3>1. DOMAIN pending' = Dpu /\ \A d \in Dpu : pending'[d] \in Seq(Part(d))
      BY <1>1, Generated DEF PartsInv, Dpu, Part
    <3> QED  BY <3>1, LenProperties
  <2>5. ASSUME NEW d \in Dpu
        PROVE  Len(pending'[d]) + Len(done'[d]) <= Len(calls')
    <3>1. Len(pending[d]) + Len(done[d]) <= Len(calls)
      BY DEF CountInv
    <3>2. Len(pending[d]) \in Nat /\ Len(done[d]) \in Nat
      BY <1>0
    <3>3. /\ Len(pending'[d]) \in Nat /\ Len(calls) \in Nat
          /\ Len(calls') = Len(calls) + 1 /\ Len(done'[d]) = Len(done[d])
      BY <2>1, <2>2, <2>4
    <3> DEFINE m == Len(pending[d])
               n == Len(done[d])
               c == Len(calls)
               k == Len(pending'[d])
               x == Len(calls')
               y == Len(done'[d])
    <3>4. /\ m \in Nat /\ n \in Nat /\ c \in Nat /\ k \in Nat /\ x = c + 1 /\ y = n
          /\ m + n <= c /\ k <= m + 1
      BY <2>3, <3>1, <3>2, <3>3
    <3> HIDE DEF m, n, c, k, x, y
    <3>5. k + y <= x
      BY <3>4
    <3> QED  BY <3>5 DEF k, x, y
  <2>6. Len(calls') <= MaxTxs
    BY <2>1, <2>2, ApplicationAssumption
  <2> QED  BY <2>2, <2>5, <2>6 DEF CountInv, Dpu
<1>2. ASSUME NEW d \in Dpu, NEW i \in DOMAIN pending[d], Exec(d, i)
      PROVE  CountInv'
  <2>1. /\ calls' = calls
        /\ pending' = [pending EXCEPT ![d] = RemoveAt(@, i)]
        /\ \E e : done' = [done EXCEPT ![d] = Append(@, e)]
    BY <1>2 DEF Exec
  <2>2. PICK e : done' = [done EXCEPT ![d] = Append(@, e)]
    BY <2>1
  <2>3. Len(pending'[d]) = Len(pending[d]) - 1
    <3>1. pending'[d] = RemoveAt(pending[d], i)
      BY <2>1 DEF PartsInv
    <3> QED  BY <1>0, <3>1, RemoveLen
  <2>4. Len(done'[d]) = Len(done[d]) + 1
    <3>1. done'[d] = Append(done[d], e)
      BY <2>2 DEF PartsInv
    <3> QED  BY <1>0, <3>1, AppendSeq
  <2>5. \A k \in Dpu \ {d} : pending'[k] = pending[k] /\ done'[k] = done[k]
    BY <2>1, <2>2 DEF PartsInv
  <2>6. ASSUME NEW k \in Dpu
        PROVE  Len(pending'[k]) + Len(done'[k]) <= Len(calls')
    <3>1. Len(pending[k]) + Len(done[k]) <= Len(calls)
      BY DEF CountInv
    <3>2. CASE k = d
      <4>1. Len(pending'[d]) + Len(done'[d]) = Len(pending[d]) + Len(done[d])
        <5> DEFINE m == Len(pending[d])
                   n == Len(done[d])
                   x == Len(pending'[d])
                   y == Len(done'[d])
        <5>1. m \in Nat /\ n \in Nat /\ x = m - 1 /\ y = n + 1
          BY <1>0, <2>3, <2>4
        <5> HIDE DEF m, n, x, y
        <5>2. x + y = m + n
          BY <5>1
        <5> QED  BY <5>2 DEF m, n, x, y
      <4> QED  BY <2>1, <3>1, <3>2, <4>1
    <3>3. CASE k # d
      BY <2>1, <2>5, <3>1, <3>3
    <3> QED  BY <3>2, <3>3
  <2> QED  BY <2>1, <2>6 DEF CountInv, Dpu
<1>3. CASE Start
  BY <1>3 DEF Start, CountInv, Dpu
<1>4. CASE UNCHANGED vars
  BY <1>4 DEF vars, CountInv, Dpu
<1> QED  BY <1>1, <1>2, <1>3, <1>4 DEF Next

\* There are fewer calls than a district has numbers below a million.
FewTxs == MaxTxs < 996999

LEMMA FewFit ==
  ASSUME AppCommon, PartsInv, OrdersInv, CountInv, FewTxs
  PROVE  NumbersFit
<1>1. ASSUME NEW d \in Dpu, ~ db[d].wild, NEW i \in District
      PROVE  db[d].district[make_district_key(d + 1, i)].d_next_o_id < 1000000
  <2> DEFINE q == done[d]
             n == Len(q)
             P == PlacedIn(q, i)
             x == db[d].district[make_district_key(d + 1, i)].d_next_o_id
  <2>1. x = LastIn(q, i) + 1
    BY <1>1 DEF OrdersInv, OrdersOf
  <2>2. LastIn(q, i) = 3000 + Cardinality(P)
    BY SMT DEF LastIn, AppCommon
  <2>3. n \in Nat /\ P \subseteq 1 .. n
    <3>1. IsSeq(q)
      BY DEF PartsInv
    <3> QED  BY <3>1, AppendSeq DEF PlacedIn
  <2> HIDE DEF x, P, n
  <2>4. Cardinality(P) \in Nat /\ Cardinality(P) <= n
    <3>1. IsFiniteSet(1 .. n) /\ Cardinality(1 .. n) = n
      BY <2>3, FS_Interval
    <3>2. IsFiniteSet(P) /\ Cardinality(P) <= Cardinality(1 .. n)
      BY <2>3, <3>1, FS_Subset
    <3> QED  BY <3>1, <3>2, FS_CardinalityType
  <2>5. n < 996999
    <3>1. Len(pending[d]) + n <= Len(calls) /\ Len(calls) <= MaxTxs
      BY DEF CountInv, n
    <3>2. Len(pending[d]) \in Nat /\ Len(calls) \in Nat
      BY LenProperties DEF PartsInv, CountInv
    <3>3. MaxTxs \in Nat
      BY ApplicationAssumption
    <3>4. n <= MaxTxs
      BY <2>3, <3>1, <3>2, <3>3
    <3> QED  BY SMT, <2>3, <3>3, <3>4 DEF FewTxs
  <2> HIDE DEF q
  <2>6. x < 1000000
    BY SMT, <2>1, <2>2, <2>3, <2>4, <2>5
  <2> QED  BY SMT, <2>6 DEF x
<1> QED  BY SMT, <1>1 DEF NumbersFit, Below

(* Numbers fit as long as there are fewer calls than a district can number:  *)
(* every DPU runs at most one part of a call (tpcc.cpp:102-122).             *)
THEOREM FewNumbersFit ==
  Spec /\ AppCommon /\ WarehousesFit /\ FewTxs => []NumbersFit
<1> DEFINE I == AppCommon /\ WarehousesFit /\ FewTxs /\ PartsInv /\ OrdersInv /\ CountInv
<1>1. Init /\ AppCommon /\ WarehousesFit /\ FewTxs => I
  <2> SUFFICES ASSUME Init, AppCommon, WarehousesFit, FewTxs
               PROVE  I
    OBVIOUS
  <2>1. PartsInv /\ OrdersInv
    BY PartsStart, OrdersStart
  <2>2. CountInv
    <3>1. calls = <<>> /\ \A d \in Dpu : pending[d] = <<>> /\ done[d] = <<>>
      BY DEF Init
    <3>2. calls \in Seq(Drawn) /\ Len(calls) = 0 /\ 0 <= MaxTxs
      BY <3>1, EmptySeq, ApplicationAssumption
    <3>3. \A d \in Dpu : Len(pending[d]) = 0 /\ Len(done[d]) = 0
      BY <3>1, <3>2
    <3>4. \A d \in Dpu : Len(pending[d]) + Len(done[d]) <= Len(calls)
      <4> DEFINE m(d) == Len(pending[d])
                 n(d) == Len(done[d])
                 c == Len(calls)
      <4>1. c = 0 /\ \A d \in Dpu : m(d) = 0 /\ n(d) = 0
        BY <3>2, <3>3
      <4> HIDE DEF m, n, c
      <4>2. \A d \in Dpu : m(d) + n(d) <= c
        BY <4>1
      <4> QED  BY <4>2 DEF m, n, c
    <3> QED  BY <3>2, <3>4 DEF CountInv
  <2> QED  BY <2>1, <2>2
<1>2. I /\ [Next]_vars => I'
  <2> SUFFICES ASSUME I, [Next]_vars
               PROVE  I'
    OBVIOUS
  <2>0. AppCommon' /\ WarehousesFit' /\ FewTxs'
    BY SMT DEF AppCommon, WarehousesFit, FewTxs
  <2>1. NumbersFit
    BY FewFit
  <2>2. CountInv'
    BY CountStep
  <2>3. PartsInv' /\ OrdersInv'
    BY <2>1, PartsOrders
  <2> QED  BY <2>0, <2>2, <2>3
<1>3. I => NumbersFit
  BY FewFit
<1> QED  BY <1>1, <1>2, <1>3, PTL DEF Spec
===============================================================================
