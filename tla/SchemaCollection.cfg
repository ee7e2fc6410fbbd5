SPECIFICATION Spec
CONSTANTS
  Customers = {c1, c2}
  Orders = {o1, o2}
  Emails = {e1}
  Null = Null
  NoDoc = NoDoc
  NoList = NoList
  Garbled = Garbled
  Threads = {t1, t2}
  Ops = {"insert", "update", "delete", "compact"}
INVARIANTS
  TypeOK
  
  ReverseExact
CONSTRAINT OneAtATime
CONSTRAINT LostAreOnlyDeleted
CONSTRAINT SomethingToSay
SYMMETRY Symmetry
