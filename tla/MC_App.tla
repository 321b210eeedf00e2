-------------------------------- MODULE MC_App --------------------------------
(***************************************************************************)
(* The calls with which TLC checks Application.                            *)
(***************************************************************************)
EXTENDS Application

\* Calls at the first warehouse: all payments by customers who live there, some by
\* customers of the second warehouse, all status requests and new orders of the
\* first customer whose items alternate; and a payment that comes from the second.
SomeCalls ==
  {c \in PaymentCalls : \/ c.w_id = 1 /\ c.c_w_id = 1
                        \/ c.w_id = 1 /\ c.c_w_id = 2 /\ c.c_id = 1 /\ c.h_amount = 1
                        \/ c.w_id = 2 /\ c.c_w_id = 1 /\ c.d_id = 1 /\ c.c_id = 1 /\ c.h_amount = 1}
    \cup {c \in OrderStatusCalls : c.w_id = 1}
    \cup {c \in NewOrderCalls : /\ c.w_id = 1 /\ c.c_id = 1
                                /\ \A i \in DOMAIN c.items : c.items[i].i_id = 1 + (i % 2)}

\* What lies behind the items: nothing, or an item of another transaction.
SomeGarbage == {[i_id |-> i, ol_supply_w_id |-> 1, ol_quantity |-> i] : i \in {0, 1}}

InDebt == -10
===============================================================================
