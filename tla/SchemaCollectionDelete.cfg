SPECIFICATION Spec
CONSTANTS
  Customers = {c1, c2}
  Orders = {o1}
  Emails = {e1}
  Null = Null
  NoDoc = NoDoc
  NoList = NoList
  Garbled = Garbled
  Threads = {t1}
  Ops = {"insert", "update", "delete", "compact"}
INVARIANTS
  OrdersHaveCustomers
