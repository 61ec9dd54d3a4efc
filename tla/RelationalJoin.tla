--------------------------- MODULE RelationalJoin ---------------------------
(***************************************************************************)
(* What a join node promises (src/include/plan.h, JoinNode; the reference  *)
(* is a database's equi-join): the bag of all pairs of a left and a right  *)
(* row with equal, non-NULL keys, projected to the output attributes.  The *)
(* attributes 0, 1, ... number the left columns first, then the right      *)
(* ones.  Which side is the build side does not show.                      *)
(***************************************************************************)
EXTENDS Integers, Sequences, FiniteSets

CONSTANTS
    Left, Right,        \* sequences of columns, a column a sequence of values
    LeftCol, RightCol,  \* key columns, counted from 0
    OutputAttrs,        \* sequence of attributes
    NullValue,
    Pending

VARIABLE result

RowsOf(rel) == IF rel = <<>> THEN {} ELSE 1 .. Len(rel[1])

Pairs == {pair \in RowsOf(Left) \X RowsOf(Right) :
            /\ Left[LeftCol + 1][pair[1]] # NullValue
            /\ Left[LeftCol + 1][pair[1]] = Right[RightCol + 1][pair[2]]}

Attribute(pair, attr) ==
    IF attr < Len(Left) THEN Left[attr + 1][pair[1]] ELSE Right[attr - Len(Left) + 1][pair[2]]

Project(pair) == [i \in DOMAIN OutputAttrs |-> Attribute(pair, OutputAttrs[i])]

\* How often each row is in the result.
JoinResult ==
    [values \in {Project(pair) : pair \in Pairs} |->
        Cardinality({pair \in Pairs : Project(pair) = values})]

Init == result = Pending

Deliver ==
    /\ result = Pending
    /\ result' = JoinResult

Safety == Init /\ [][Deliver]_result
=============================================================================
