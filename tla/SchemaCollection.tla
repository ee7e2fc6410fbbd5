-------------------------- MODULE SchemaCollection --------------------------
(***************************************************************************)
(* Two schema collections of one database: the customers, with a unique    *)
(* field, and their orders, with a foreign key.  A thread is in one call   *)
(* at a time; a crash ends the calls on both.                              *)
(***************************************************************************)
CONSTANTS
  Customers, Orders, Emails, Null, NoDoc, NoList, Garbled, Threads, Ops

ASSUME NoDocAssumption ==
  NoDoc \notin Emails \cup Customers \cup Orders \cup {Null}
ASSUME NullAssumption == Null \notin Emails \cup Customers
ASSUME NoListAssumption == \A s \in SUBSET Orders : s # NoList
ASSUME GarbledAssumption ==
  \A r \in [Customers -> (SUBSET Orders) \cup {NoList}] : r # Garbled

VARIABLES
  customers, emailIdx, emailFile, cpc, ccall, cold, live, unsaved, contested,
  orders, reverse, ridx, opc, ocall, oold, after, clash, lost

OfCustomers == <<customers, emailIdx, emailFile, cpc, ccall, cold, live, unsaved, contested>>
OfOrders == <<orders, reverse, ridx, opc, ocall, oold, after, clash, lost>>
vars == <<OfCustomers, OfOrders>>

Uniques == INSTANCE UniqueFields
  WITH docs <- customers, pc <- cpc, call <- ccall, old <- cold

Reverses == INSTANCE ReverseIndex
  WITH docs <- orders, pc <- opc, call <- ocall, old <- oold,
       present <- {c \in Customers : customers[c] # NoDoc}

Init == Uniques!Init /\ Reverses!Init

CustomerNext(t) ==
  /\ opc[t] = "idle"
  /\ Uniques!ThreadNext(t)
  /\ UNCHANGED OfOrders

OrderNext(t) ==
  /\ cpc[t] = "idle"
  /\ Reverses!ThreadNext(t)
  /\ UNCHANGED OfCustomers

Crash == Uniques!Crash /\ Reverses!Crash

Next ==
  \/ \E t \in Threads : CustomerNext(t) \/ OrderNext(t)
  \/ Crash

Spec == Init /\ [][Next]_vars

-----------------------------------------------------------------------------
(* Properties *)

\* The variables of both collections keep their types.
TypeOK == Uniques!TypeOK /\ Reverses!TypeOK

\* The properties of UniqueFields and of ReverseIndex
UniqueEmails == Uniques!UniqueEmails
ReverseExact == Reverses!ReverseExact

\* delete(), "enforcing on_delete rules", raises "ReferentialIntegrityError:
\* When on_delete='restrict' and child documents exist" (collection.py:124-131):
\* an order's customer is there.  The code deletes it all the same.
OrdersHaveCustomers ==
  \A o \in Orders : orders[o] \notin {NoDoc, Null} => customers[orders[o]] # NoDoc
=============================================================================
