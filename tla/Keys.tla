--------------------------------- MODULE Keys ---------------------------------
(***************************************************************************)
(* The keys of the tables (src/dpu/application.c): all numbers of a row    *)
(* packed into one word.                                                   *)
(***************************************************************************)
EXTENDS Integers

CONSTANTS
  MAX_WAREHOUSE_ID,
  NUM_DISTRICTS_PER_WAREHOUSE,
  NUM_CUSTOMERS_PER_DISTRICT,
  ORDER_MAX_OL_COUNT,
  UINT  \* 2^32, the number of keys

ASSUME KeysAssumption ==
  /\ MAX_WAREHOUSE_ID \in Nat \ {0} /\ NUM_DISTRICTS_PER_WAREHOUSE \in Nat \ {0}
  /\ NUM_CUSTOMERS_PER_DISTRICT \in Nat \ {0} /\ ORDER_MAX_OL_COUNT \in Nat \ {0}
  /\ UINT \in Nat \ {0}

make_district_key(w_id, d_id) == (w_id * NUM_DISTRICTS_PER_WAREHOUSE + d_id) % UINT

make_customer_key(w_id, d_id, c_id) ==
  ((w_id * NUM_DISTRICTS_PER_WAREHOUSE + d_id) * NUM_CUSTOMERS_PER_DISTRICT + c_id) % UINT

\* Orders and new orders have the same keys.
make_order_key(w_id, d_id, o_id) ==
  ((o_id * NUM_DISTRICTS_PER_WAREHOUSE + d_id) * MAX_WAREHOUSE_ID + w_id) % UINT

make_new_order_key(w_id, d_id, o_id) ==
  ((o_id * NUM_DISTRICTS_PER_WAREHOUSE + d_id) * MAX_WAREHOUSE_ID + w_id) % UINT

make_order_line_key(w_id, d_id, o_id, ol_number) ==
  (((o_id * NUM_DISTRICTS_PER_WAREHOUSE + d_id) * MAX_WAREHOUSE_ID + w_id) * ORDER_MAX_OL_COUNT
    + ol_number) % UINT
===============================================================================
