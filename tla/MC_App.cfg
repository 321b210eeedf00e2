CONSTANTS
  N_PARAMS = 40
  Amount = {1, 257}
  n_warehouses = 2
  DIST_PAYMENT = 50
  MAX_WAREHOUSE_ID = 2
  NUM_DISTRICTS_PER_WAREHOUSE = 2
  NUM_CUSTOMERS_PER_DISTRICT = 2
  NUM_ITEMS = 2
  MAX_OL_QUANTITY = 1
  ORDER_MIN_OL_COUNT = 1
  ORDER_MAX_OL_COUNT = 3
  UINT = 1000000
  EXACT = 512
  WAREHOUSE_INITIAL_YTD = 300
  DISTRICT_INITIAL_YTD = 30
  CUSTOMER_INITIAL_YTD_PAYMENT = 10
  CUSTOMER_INITIAL_BALANCE <- InDebt
  CUSTOMER_INITIAL_PAYMENT_CNT = 254
  Garbage <- SomeGarbage
  Drawn <- SomeCalls
  MaxTxs = 3
SPECIFICATION Spec
INVARIANTS
  NumbersFresh
  BooksAgree
  OrdersPlaced
  ItemsShifted
  NullIfRemote
  StatusComplete
  NothingRunsIfTooLong
CHECK_DEADLOCK FALSE
