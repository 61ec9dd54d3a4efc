----------------------------- MODULE MCQueryRun -----------------------------
(***************************************************************************)
(* Two tables.  The key of the first is read in place, over pages of two   *)
(* and one rows; the key of the second has a NULL on its second page, so   *)
(* that its first page alone looks like a view.  Both have strings, at the *)
(* last table, column and page that a StringIndex can number.              *)
(***************************************************************************)
EXTENDS QueryRun

A == [num_rows |-> 3, columns |-> <<
        [type |-> "INT32", pages |-> << <<7, 8>>, <<9>> >>],
        [type |-> "VARCHAR", pages |-> << <<"a1", Null, "a3">> >>],
        [type |-> "INT32", pages |-> << <<1, Null>>, <<3>> >>] >>]
B == [num_rows |-> 4, columns |-> <<
        [type |-> "VARCHAR", pages |-> << <<"b1">>, <<"b2", "b3", "b4">> >>],
        [type |-> "INT32", pages |-> << <<9, 7>>, <<Null, 7>> >>] >>]
Empty0 == [num_rows |-> 0, columns |-> << [type |-> "INT32", pages |-> <<>>] >>]
MCInputs == <<A, B, Empty0>>
MCValues == [INT32 |-> {1, 3, 7, 8, 9}, VARCHAR |-> {"a1", "a3", "b1", "b2", "b3", "b4"}]

Scan(table, attrs) == [base_table_id |-> table, output_attrs |-> attrs]
Join(build_left, left, right, left_attr, right_attr, attrs) ==
    [build_left |-> build_left, left |-> left, right |-> right,
     left_attr |-> left_attr, right_attr |-> right_attr, output_attrs |-> attrs]

ScanA == Scan(0, << <<1, "VARCHAR">>, <<0, "INT32">> >>)
ScanB == Scan(1, << <<1, "INT32">>, <<0, "VARCHAR">> >>)

\* A alone; A with B; that joined with A once more, through the keys of B.
ScanPlan == [nodes |-> << Scan(0, << <<2, "INT32">>, <<0, "INT32">>, <<1, "VARCHAR">> >>) >>, root |-> 0]
JoinPlan(build_left) ==
    [nodes |-> << Join(build_left, 2, 1, 1, 0, << <<3, "VARCHAR">>, <<1, "INT32">>, <<0, "VARCHAR">> >>),
                  ScanB, ScanA >>, root |-> 0]
SelfPlan(outer, inner) ==
    [nodes |-> << ScanA, ScanB,
                  Join(inner, 1, 0, 0, 1, << <<2, "VARCHAR">>, <<0, "INT32">> >>),
                  Scan(0, << <<0, "INT32">>, <<1, "VARCHAR">> >>),
                  Join(outer, 3, 2, 0, 1, << <<2, "VARCHAR">>, <<1, "VARCHAR">>, <<0, "INT32">> >>) >>,
     root |-> 4]
EmptyPlan ==
    [nodes |-> << ScanA, Scan(2, << <<0, "INT32">> >>),
                  Join(TRUE, 0, 1, 1, 0, << <<0, "VARCHAR">>, <<2, "INT32">> >>) >>, root |-> 2]

\* A with itself on a key that is NULL in one row.
ScanKey == Scan(0, << <<2, "INT32">>, <<1, "VARCHAR">> >>)
NullPlan == [nodes |-> << ScanKey, ScanKey, Join(FALSE, 0, 1, 0, 0, << <<3, "VARCHAR">>, <<0, "INT32">> >>) >>,
             root |-> 2]

MCPlans == {ScanPlan, EmptyPlan, NullPlan}
           \union {JoinPlan(b) : b \in BOOLEAN}
           \union {SelfPlan(o, i) : o, i \in BOOLEAN}
===============================================================================
