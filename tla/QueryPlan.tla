----------------------------- MODULE QueryPlan -----------------------------
(***************************************************************************)
(* query/planner.py: which scan a query makes.                             *)
(*                                                                         *)
(* A query is the list of its where() predicates, all of which a result    *)
(* has to satisfy.  A predicate is the list of the clauses that "and"      *)
(* joins.  The clauses are those that the planner can tell apart in the    *)
(* source of a lambda, all of them about the one indexed field; whatever   *)
(* it does not recognise ("or", calls, 18 <= c["age"], None, a closure) is *)
(* an opaque clause, given by the values for which it is true.             *)
(***************************************************************************)
EXTENDS Naturals, Sequences

CONSTANTS
  Values,   \* of the indexed field
  Number,   \* Number[v]: what v is compared by in a predicate
  Key,      \* Key[v]: the place of str(v) among all strings, 0 being ""
  LastKey   \* the place of "\uffff" * 10

ASSUME ValuesAssumption ==
  /\ Number \in [Values -> Nat]
  /\ Key \in [Values -> Nat \ {0}]
  /\ LastKey \in Nat

Clauses ==
  [op : {"==", ">=", ">", "<=", "<"}, value : Values]
    \cup [op : {"between"}, low : Values, high : Values]
    \cup [op : {"opaque"}, values : SUBSET Values]

Holds(clause, v) ==
  CASE clause.op = "=="      -> Number[v] = Number[clause.value]
    [] clause.op = ">="      -> Number[v] >= Number[clause.value]
    [] clause.op = ">"       -> Number[v] > Number[clause.value]
    [] clause.op = "<="      -> Number[v] <= Number[clause.value]
    [] clause.op = "<"       -> Number[v] < Number[clause.value]
    [] clause.op = "between" -> Number[v] \in Number[clause.low] .. Number[clause.high]
    [] clause.op = "opaque"  -> v \in clause.values

Satisfies(predicate, v) == \A i \in DOMAIN predicate : Holds(predicate[i], v)

Matches(query, v) == \A i \in DOMAIN query : Satisfies(query[i], v)

FullScan == [scan |-> "full", low |-> 0, high |-> 0]

Lookup(v) == [scan |-> "lookup", low |-> Key[v], high |-> Key[v]]

\* > and < are widened to >= and <=.
RangeScan(low, high) == [scan |-> "range", low |-> low, high |-> high]

\* _parse_predicate, which looks at the first clause only
Parse(predicate) ==
  LET clause == predicate[1] IN
  CASE clause.op = "=="           -> Lookup(clause.value)
    [] clause.op \in {">=", ">"}  -> RangeScan(Key[clause.value], LastKey)
    [] clause.op \in {"<=", "<"}  -> RangeScan(0, Key[clause.value])
    [] clause.op = "between"      -> RangeScan(Key[clause.low], Key[clause.high])
    [] OTHER                      -> FullScan

\* QueryPlanner.plan, which looks at the first predicate only
Plan(query) == IF query = <<>> THEN FullScan ELSE Parse(query[1])

\* The values that the first clause of a query names
Literals(query) ==
  IF query = <<>> THEN {}
  ELSE LET clause == query[1][1] IN
       CASE clause.op = "opaque"  -> {}
         [] clause.op = "between" -> {clause.low, clause.high}
         [] OTHER                 -> {clause.value}

\* Strings order and tell apart v and the literals as numbers do: not 9 and 10,
\* nor 1 and 1.0; and v is no string beyond the open end of a range.
InOrder(query, v) ==
  /\ Key[v] <= LastKey
  /\ \A w \in Literals(query) : /\ Number[v] < Number[w] <=> Key[v] < Key[w]
                                /\ Number[v] = Number[w] <=> Key[v] = Key[w]
=============================================================================
