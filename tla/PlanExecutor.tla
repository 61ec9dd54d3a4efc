----------------------------- MODULE PlanExecutor -----------------------------
(***************************************************************************)
(* A plan of scans and joins (src/include/plan.h) executed to a columnar   *)
(* table (src/src/execute.cpp): execute_impl's recursion over the nodes,   *)
(* execute_scan's choice between reading a column in place and copying it, *)
(* JoinAlgorithm's choice of sides and outputs, and the output columns     *)
(* that execute fills in parallel.                                         *)
(*                                                                         *)
(* A page is the sequence of its values (FixedPages and StringPages show   *)
(* that it is), and a join leaves the matches in some order (HashJoin      *)
(* shows that it leaves exactly them).  Nodes, inputs, rows, columns and   *)
(* attributes count from 0 in the code and in the plans; sequences here    *)
(* are indexed from 1.                                                     *)
(***************************************************************************)
EXTENDS Integers, Sequences, FiniteSets, SequencesExt

CONSTANTS
    Inputs,         \* plan.inputs: sequence of [num_rows, columns]
    Plans,          \* plans, [nodes, root]; the execution is of one of them
    Values,         \* Values[type]: the values of a column of that type
    ChunkSize,      \* CHUNK_SIZE of PagedColumn, 4096
    OutputChunk,    \* chunk_size of execute, 1024
    TableIds,       \* 2^6 values of StringIndex::table_id
    ColIds,         \* 2^6 of col_id
    PageIds,        \* 2^16 of page_id
    Null

\* A column's pages hold the rows of its table.  An INT32 column without a NULL has
\* full pages but for the last one (ViewSound of FixedPages).
WellFormedColumn(column, num_rows) ==
    /\ column.type \in DOMAIN Values
    /\ column.pages \in Seq(Seq(Values[column.type] \union {Null}))
    /\ Len(FlattenSeq(column.pages)) = num_rows
    /\ column.type = "INT32" /\ (\A p \in DOMAIN column.pages : Null \notin ToSet(column.pages[p])) =>
          \A p \in DOMAIN column.pages :
             /\ column.pages[p] # <<>>
             /\ Len(column.pages[p]) <= Len(column.pages[1])
             /\ p < Len(column.pages) => Len(column.pages[p]) = Len(column.pages[1])

\* A plan is a tree of nodes.  A scan's attributes are columns of its table, a join's
\* are attributes of its children, of the same types; its keys are INT32.
WellFormed(p) ==
    LET ids == 0 .. (Len(p.nodes) - 1)
        node(n) == p.nodes[n + 1]
        joins == {n \in ids : "left" \in DOMAIN node(n)}
        children(n) == {node(n).left, node(n).right}
        attrs(n) == node(n).output_attrs
        both(n) == attrs(node(n).left) \o attrs(node(n).right)
    IN  /\ Len(p.nodes) \in Nat
        /\ p.root \in ids
        /\ \A n \in ids : attrs(n) \in Seq(Nat \X DOMAIN Values) /\ attrs(n) # <<>>
        /\ \A n \in ids \ joins :
              /\ node(n).base_table_id \in Nat /\ node(n).base_table_id + 1 \in DOMAIN Inputs
              /\ \A out \in DOMAIN attrs(n) :
                    LET columns == Inputs[node(n).base_table_id + 1].columns
                        attr == attrs(n)[out]
                    IN  attr[1] + 1 \in DOMAIN columns /\ attr[2] = columns[attr[1] + 1].type
        /\ \A n \in joins :
              /\ children(n) \subseteq ids \ {p.root} /\ node(n).left # node(n).right
              /\ node(n).left_attr \in Nat /\ node(n).left_attr + 1 \in DOMAIN attrs(node(n).left)
              /\ node(n).right_attr \in Nat /\ node(n).right_attr + 1 \in DOMAIN attrs(node(n).right)
              /\ attrs(node(n).left)[node(n).left_attr + 1][2] = "INT32"
              /\ attrs(node(n).right)[node(n).right_attr + 1][2] = "INT32"
              /\ \A out \in DOMAIN attrs(n) :
                    LET attr == attrs(n)[out]
                    IN  attr[1] + 1 \in DOMAIN both(n) /\ attr[2] = both(n)[attr[1] + 1][2]
        /\ \A n \in ids \ {p.root} : \E m \in joins : n \in children(m)
        /\ \A m, n \in joins : m # n => children(m) \intersect children(n) = {}
        /\ \E depth \in [ids -> ids] :
              \A n \in joins : \A child \in children(n) : depth[n] < depth[child]

\* A StringIndex can tell the pages of all VARCHAR columns apart.
IndexesFit ==
    \A t \in DOMAIN Inputs : \A c \in DOMAIN Inputs[t].columns :
        Inputs[t].columns[c].type = "VARCHAR" =>
            t <= TableIds /\ c <= ColIds /\ Len(Inputs[t].columns[c].pages) <= PageIds

\* Scan, output and ColumnCursor::next have branches for INT32 and VARCHAR only.
ASSUME PlanAssumption ==
    /\ ChunkSize \in Nat \ {0}
    /\ OutputChunk \in Nat \ {0}
    /\ {TableIds, ColIds, PageIds} \subseteq Nat \ {0}
    /\ DOMAIN Values \subseteq {"INT32", "VARCHAR"}
    /\ \A type \in DOMAIN Values : Null \notin Values[type]
    /\ Null \notin [table : Nat, col : Nat, page : Nat, at : Nat]
    /\ Len(Inputs) \in Nat /\ DOMAIN Inputs = 1 .. Len(Inputs)
    /\ \A t \in DOMAIN Inputs :
          /\ Inputs[t].num_rows \in Nat
          /\ Len(Inputs[t].columns) \in Nat /\ DOMAIN Inputs[t].columns = 1 .. Len(Inputs[t].columns)
          /\ \A c \in DOMAIN Inputs[t].columns : WellFormedColumn(Inputs[t].columns[c], Inputs[t].num_rows)
    /\ IndexesFit
    /\ \A p \in Plans : WellFormed(p)

VARIABLES
    plan,
    result,         \* result[n]: columns that execute_impl returned for node n
    filled,         \* filled[j]: rows of output column j already inserted
    output          \* output[j]: what its inserter was given

execVars == <<plan, result, filled, output>>

Node(n) == plan.nodes[n + 1]
NodeIds == 0 .. (Len(plan.nodes) - 1)
Attrs(n) == Node(n).output_attrs
IsJoin(n) == "left" \in DOMAIN Node(n)
Outputs == DOMAIN Attrs(plan.root)

ExecInit ==
    /\ plan \in Plans
    /\ result = << >>
    /\ filled = [j \in Outputs |-> 0]
    /\ output = [j \in Outputs |-> <<>>]

-----------------------------------------------------------------------------
(* PagedColumn *)

Garbage == -1

EmptyColumn == [is_view |-> FALSE, chunks |-> <<>>, total_size |-> 0]

AppendTo(col, val) ==
    LET n == Len(col.chunks)
        chunks == IF col.total_size % ChunkSize = 0 THEN Append(col.chunks, <<val>>)
                  ELSE [col.chunks EXCEPT ![n] = Append(@, val)]
    IN  [col EXCEPT !.chunks = chunks, !.total_size = @ + 1]

\* A column that val after val of vals was appended to.
Filled(vals) ==
    LET after[i \in 0 .. Len(vals)] == IF i = 0 THEN EmptyColumn ELSE AppendTo(after[i - 1], vals[i])
    IN  after[Len(vals)]

\* view_rows_per_page is that of the first page; it serves for all.
ChunkRows(col) == IF col.is_view THEN Len(col.chunks[1]) ELSE ChunkSize

Get(col, idx) == col.chunks[(idx \div ChunkRows(col)) + 1][(idx % ChunkRows(col)) + 1]

\* rel.empty() ? 0 : rel[0].size()
Rows(rel) == IF rel = <<>> THEN 0 ELSE rel[1].total_size

\* The results held when the one of node n is returned and those in gone are destroyed.
Returned(n, gone, rel) == [m \in (DOMAIN result \ gone) \union {n} |-> IF m = n THEN rel ELSE result[m]]

-----------------------------------------------------------------------------
(* execute_scan *)

\* MUTANT: a column is read in place if its first page has no NULL.
CanViewFirst(column, type) ==
    /\ type = "INT32"
    /\ column.pages # <<>>
    /\ Null \notin Range(column.pages[1])

CanView(column, type) ==
    /\ type = "INT32"
    /\ column.pages # <<>>
    /\ \A p \in DOMAIN column.pages : Null \notin Range(column.pages[p])

\* The values of a column in the order ColumnCursor::next returns them, and NULL
\* behind its last page.  A string is not copied: its index names the base table,
\* its column, page and place there, the first three in a few bits each.
CursorValues(table, col_idx, type) ==
    LET column == Inputs[table + 1].columns[col_idx + 1]
        value(p, k) ==
            LET v == column.pages[p][k]
            IN  IF type = "VARCHAR" /\ v # Null
                THEN [table |-> table % TableIds, col |-> col_idx % ColIds,
                      page |-> (p - 1) % PageIds, at |-> k]
                ELSE v
        read == FlattenSeq([p \in DOMAIN column.pages |->
                    [k \in DOMAIN column.pages[p] |-> value(p, k)]])
    IN  [r \in 1 .. Inputs[table + 1].num_rows |-> IF r \in DOMAIN read THEN read[r] ELSE Null]

\* What stands at the places of a page's rows: only values are stored, so behind a
\* NULL the values of later rows move up.
InPlace(page) ==
    LET stored == {r \in DOMAIN page : page[r] # Null}
    IN  [k \in DOMAIN page |-> IF k > Cardinality(stored) THEN Garbage
                               ELSE page[CHOOSE r \in stored : Cardinality({s \in stored : s <= r}) = k]]

\* MUTANT: a view is as long as its pages would be if they were all full.
ScanColumnWholePages(table, attr) ==
    LET column == Inputs[table + 1].columns[attr[1] + 1]
    IN  IF CanView(column, attr[2])
        THEN [is_view |-> TRUE, chunks |-> [p \in DOMAIN column.pages |-> InPlace(column.pages[p])],
              total_size |-> Len(column.pages) * Len(column.pages[1])]
        ELSE Filled(CursorValues(table, attr[1], attr[2]))

ScanColumn(table, attr) ==
    LET column == Inputs[table + 1].columns[attr[1] + 1]
    IN  IF CanView(column, attr[2])
        THEN [is_view |-> TRUE, chunks |-> [p \in DOMAIN column.pages |-> InPlace(column.pages[p])],
              total_size |-> Inputs[table + 1].num_rows]
        ELSE Filled(CursorValues(table, attr[1], attr[2]))

ExecuteScan(n) ==
    /\ n \notin DOMAIN result
    /\ ~IsJoin(n)
    /\ result' = Returned(n, {},
                    [out \in DOMAIN Attrs(n) |-> ScanColumn(Node(n).base_table_id, Attrs(n)[out])])
    /\ UNCHANGED <<plan, filled, output>>

-----------------------------------------------------------------------------
(* execute_hash_join *)

\* MUTANT: the probe does not skip a NULL key.
MatchesNullKeys(build, probe, build_col, probe_col) ==
    {m \in (0 .. (Rows(build) - 1)) \X (0 .. (Rows(probe) - 1)) :
        Get(build[build_col + 1], m[1]) = Get(probe[probe_col + 1], m[2])}

\* Build and probe rows with one key, as they come out of hash table and probe.
Matches(build, probe, build_col, probe_col) ==
    {m \in (0 .. (Rows(build) - 1)) \X (0 .. (Rows(probe) - 1)) :
        LET key == Get(build[build_col + 1], m[1])
        IN  key # Null /\ key = Get(probe[probe_col + 1], m[2])}

\* The value of output attribute attr for a match of build and probe row.
MatchValue(join, build, probe, attr, match) ==
    LET left  == IF join.build_left THEN build ELSE probe
        right == IF join.build_left THEN probe ELSE build
        left_row  == IF join.build_left THEN match[1] ELSE match[2]
        right_row == IF join.build_left THEN match[2] ELSE match[1]
    IN  IF attr < Len(left) THEN Get(left[attr + 1], left_row)
                            ELSE Get(right[attr - Len(left) + 1], right_row)

\* execute_impl of the left child comes before that of the right one; both
\* results are gone when the join returns.
ExecuteJoin(n) ==
    /\ n \notin DOMAIN result
    /\ IsJoin(n)
    /\ Node(n).left \in DOMAIN result /\ Node(n).right \in DOMAIN result
    /\ LET join  == Node(n)
           left  == result[join.left]
           right == result[join.right]
           build == IF join.build_left THEN left ELSE right
           probe == IF join.build_left THEN right ELSE left
           build_col == IF join.build_left THEN join.left_attr ELSE join.right_attr
           probe_col == IF join.build_left THEN join.right_attr ELSE join.left_attr
       IN  \E order \in SetToSeqs(Matches(build, probe, build_col, probe_col)) :
              result' = Returned(n, {join.left, join.right},
                          [out \in DOMAIN Attrs(n) |->
                              Filled([i \in DOMAIN order |->
                                  MatchValue(join, build, probe, Attrs(n)[out][1], order[i])])])
    /\ UNCHANGED <<plan, filled, output>>

\* Nodes are entered from the root on, left before right.
FirstPending[n \in NodeIds] ==
    IF ~IsJoin(n) THEN n
    ELSE IF Node(n).left \notin DOMAIN result THEN FirstPending[Node(n).left]
    ELSE IF Node(n).right \notin DOMAIN result THEN FirstPending[Node(n).right]
    ELSE n

ExecuteNode ==
    /\ plan.root \notin DOMAIN result
    /\ \E n \in NodeIds : n = FirstPending[plan.root] /\ (ExecuteScan(n) \/ ExecuteJoin(n))

-----------------------------------------------------------------------------
(* execute: the columns of the root become those of the output table. *)

Root == result[plan.root]
NumRows == Rows(Root)

\* materialize_string
Text(index) == Inputs[index.table + 1].columns[index.col + 1].pages[index.page + 1][index.at]

Inserted(type, val) == IF type = "VARCHAR" /\ val # Null THEN Text(val) ELSE val

\* One page of a view or one chunk of rows; the columns advance independently.
OutputStep(j) ==
    /\ plan.root \in DOMAIN result
    /\ filled[j] < NumRows
    /\ LET src == Root[j]
           type == Attrs(plan.root)[j][2]
           step == IF type = "INT32" /\ src.is_view /\ src.total_size = NumRows THEN ChunkRows(src) ELSE OutputChunk
           end == Min({filled[j] + step, NumRows})
       IN  /\ output' = [output EXCEPT ![j] = @ \o
                    [k \in 1 .. (end - filled[j]) |-> Inserted(type, Get(src, filled[j] + k - 1))]]
           /\ filled' = [filled EXCEPT ![j] = end]
    /\ UNCHANGED <<plan, result>>

\* MUTANT: the threads that fill the output columns are not waited for.
ExecutedAny == plan.root \in DOMAIN result /\ \E j \in Outputs : filled[j] = NumRows

\* The parallel region over the columns ends when all of them are complete.
Executed == plan.root \in DOMAIN result /\ \A j \in Outputs : filled[j] = NumRows

-----------------------------------------------------------------------------
(* What the plan asks for, without intermediate results. *)

Scans == {n \in NodeIds : ~IsJoin(n)}

\* The scan and the base column each output attribute of a node comes from: a join
\* numbers the outputs of its left child first.
Origins[n \in NodeIds] ==
    IF ~IsJoin(n) THEN [out \in DOMAIN Attrs(n) |-> <<n, Attrs(n)[out][1]>>]
    ELSE LET both == Origins[Node(n).left] \o Origins[Node(n).right]
         IN  [out \in DOMAIN Attrs(n) |-> both[Attrs(n)[out][1] + 1]]

BaseRows(scan) == 1 .. Inputs[Node(scan).base_table_id + 1].num_rows
BaseValue(origin, row) ==
    FlattenSeq(Inputs[Node(origin[1]).base_table_id + 1].columns[origin[2] + 1].pages)[row[origin[1]]]

\* The rows of the scans under join n that row names have one key, not NULL.
KeysAgree(n, row) ==
    LET key == BaseValue(Origins[Node(n).left][Node(n).left_attr + 1], row)
    IN  key # Null /\ key = BaseValue(Origins[Node(n).right][Node(n).right_attr + 1], row)

\* A row of every scan such that all joins' keys agree.
Assignments ==
    {row \in [Scans -> UNION {BaseRows(s) : s \in Scans}] :
        /\ \A s \in Scans : row[s] \in BaseRows(s)
        /\ \A n \in NodeIds \ Scans : KeysAgree(n, row)}

\* How often each row is in the answer.
Answer ==
    LET value(row) == [j \in Outputs |-> BaseValue(Origins[plan.root][j], row)]
    IN  [v \in {value(row) : row \in Assignments} |-> Cardinality({row \in Assignments : value(row) = v})]

\* The rows of the output table are the plan's answer, each as often.
OutputIsAnswer ==
    LET value(i) == [j \in Outputs |-> output[j][i]]
    IN  /\ \A j \in Outputs : Len(output[j]) = NumRows
        /\ Answer = [v \in {value(i) : i \in 1 .. NumRows} |->
                        Cardinality({i \in 1 .. NumRows : value(i) = v})]

-----------------------------------------------------------------------------
\* The columns of a result, viewed and copied ones alike, have the same rows:
\* JoinAlgorithm and execute take the first column's size for all.
ColumnsAligned ==
    \A n \in DOMAIN result : \A out \in DOMAIN result[n] :
        LET col == result[n][out]
        IN  /\ col.total_size = result[n][1].total_size
            /\ col.total_size = Len(FlattenSeq(col.chunks))
===============================================================================
