------------------------- MODULE MCSchemaCollection -------------------------
EXTENDS SchemaCollection, TLC

\* Threads, customers and orders are interchangeable, and every property is safety.
Symmetry == Permutations(Threads) \cup Permutations(Customers) \cup Permutations(Orders)

OrdersUntouched ==
  /\ \A t \in Threads : opc[t] \in {"idle", "read", "check"}
  /\ \A o \in Orders : orders[o] = NoDoc
  /\ \A c \in Customers : reverse[c] = NoList
  /\ lost = {}

\* All customers are there, without an email.
EmailsUntouched ==
  /\ \A t \in Threads : cpc[t] = "idle"
  /\ \A c \in Customers : customers[c] = Null
  /\ emailIdx = {} /\ emailFile = {} /\ unsaved = {} /\ contested = {}

\* The two collections touch nothing in common but the customers that there are:
\* either emails are used or orders.
OneAtATime == OrdersUntouched \/ EmailsUntouched

\* The order that is lost is deleted at most; no insert or update of it begins.
LostAreOnlyDeleted ==
  \A t \in Threads :
    opc[t] \in {"read", "check"} /\ ocall[t].op # "delete" => ocall[t].id \notin lost

\* Nothing is said any more when all emails are contested or all orders lost.
SomethingToSay == contested # Emails /\ lost # Orders
=============================================================================
