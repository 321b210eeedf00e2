------------------------------ MODULE TpccClient ------------------------------
(***************************************************************************)
(* The transactions the client makes up (src/host/tpcc_client.cpp) and the *)
(* sub-transactions it cuts them into: one for each DPU, with a type and   *)
(* encoded parameters.  DPU w - 1 holds warehouse w.                       *)
(***************************************************************************)
EXTENDS Params, Keys

CONSTANTS
  n_warehouses,                 \* as many as there are DPUs
  DIST_PAYMENT,                 \* payments out of 100 that may be remote
  NUM_ITEMS,
  MAX_OL_QUANTITY,
  ORDER_MIN_OL_COUNT

ASSUME ClientAssumption ==
  /\ n_warehouses \in Nat \ {0} /\ DIST_PAYMENT \in 0 .. 100
  /\ NUM_ITEMS \in Nat \ {0} /\ MAX_OL_QUANTITY \in Nat \ {0}
  /\ ORDER_MIN_OL_COUNT \in 1 .. ORDER_MAX_OL_COUNT

Warehouse == 1 .. n_warehouses
District  == 1 .. NUM_DISTRICTS_PER_WAREHOUSE
Customer  == 1 .. NUM_CUSTOMERS_PER_DISTRICT

\* Where the customer of a payment in district d of warehouse w may live, over
\* all draws of x from 1 to 100.
Residence(w, d) ==
  (IF n_warehouses = 1 \/ 1 <= 100 - DIST_PAYMENT THEN {<<w, d>>} ELSE {})
    \cup (IF n_warehouses > 1 /\ 100 > 100 - DIST_PAYMENT
          THEN (Warehouse \ {w}) \X District ELSE {})

\* DATETIME_SIZE + 1
now == char(15)

PaymentCalls ==
  UNION {{[kind |-> "payment", w_id |-> w, d_id |-> d, c_w_id |-> r[1], c_d_id |-> r[2],
           c_id |-> c, h_amount |-> a] : r \in Residence(w, d), c \in Customer, a \in Amount}
         : w \in Warehouse, d \in District}

\* Mutant: the customer's district is encoded before her warehouse.
payment_parts_swapped(call) ==
  LET params == Encode(<<uint16(call.w_id), uint16(call.d_id), uint16(call.c_d_id),
                         uint16(call.c_w_id), uint16(call.c_id), float(call.h_amount), now>>)
      part(type) == [type |-> type, params |-> params, call |-> call]
  IN  [d \in {call.w_id - 1, call.c_w_id - 1} |->
         part(IF d = call.w_id - 1 THEN "PAYMENT" ELSE "PAYMENT_REMOTE")]

\* Both parts get the same parameters; there is one when the customer lives where
\* she pays.
payment_parts(call) ==
  LET params == Encode(<<uint16(call.w_id), uint16(call.d_id), uint16(call.c_w_id),
                         uint16(call.c_d_id), uint16(call.c_id), float(call.h_amount), now>>)
      part(type) == [type |-> type, params |-> params, call |-> call]
  IN  [d \in {call.w_id - 1, call.c_w_id - 1} |->
         part(IF d = call.w_id - 1 THEN "PAYMENT" ELSE "PAYMENT_REMOTE")]

Item == [i_id : 1 .. NUM_ITEMS, quantity : 1 .. MAX_OL_QUANTITY]

NewOrderCalls ==
  [kind : {"new_order"}, w_id : Warehouse, d_id : District, c_id : Customer,
   items : UNION {[1 .. n -> Item] : n \in ORDER_MIN_OL_COUNT .. ORDER_MAX_OL_COUNT}]

\* Four numbers, three for each item, the time.
new_order_parts(call) ==
  LET item(i) == <<uint32(call.items[i].i_id), uint16(call.w_id), uint16(call.items[i].quantity)>>
      params  == Encode(<<uint16(call.w_id), uint16(call.d_id), uint16(call.c_id),
                          uint16(Len(call.items))>>
                        \o FlattenSeq([i \in DOMAIN call.items |-> item(i)]) \o <<now>>)
  IN  [d \in {call.w_id - 1} |-> [type |-> "NEW_ORDER", params |-> params, call |-> call]]

OrderStatusCalls ==
  [kind : {"order_status"}, w_id : Warehouse, d_id : District, c_id : Customer]

order_status_parts(call) ==
  LET params == Encode(<<uint32(call.w_id), uint32(call.d_id), uint32(call.c_id)>>)
  IN  [d \in {call.w_id - 1} |-> [type |-> "ORDER_STATUS", params |-> params, call |-> call]]

Calls == PaymentCalls \cup NewOrderCalls \cup OrderStatusCalls

\* The sub-transactions of a call, by DPU; call itself is only kept for comparison.
Parts(call) ==
  CASE call.kind = "payment"      -> payment_parts(call)
    [] call.kind = "new_order"    -> new_order_parts(call)
    [] call.kind = "order_status" -> order_status_parts(call)
===============================================================================
