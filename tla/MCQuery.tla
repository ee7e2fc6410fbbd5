------------------------------ MODULE MCQuery ------------------------------
EXTENDS Query

CONSTANTS nine, ten

\* "10" < "9"
NumberDef == (nine :> 9) @@ (ten :> 10)
KeyDef == (ten :> 1) @@ (nine :> 2)

\* No predicate; == 10 and one more predicate; <= 9 and one more clause, a range
\* of both keys; >= 9, a range of one key.
QueriesDef ==
  LET opaque == [op |-> "opaque", values |-> {nine, ten}] IN
  { <<>>,
    <<<<[op |-> "==", value |-> ten]>>, <<opaque>>>>,
    <<<<[op |-> "<=", value |-> nine], opaque>>>>,
    <<<<[op |-> ">=", value |-> nine]>>>> }
=============================================================================
