----------------------------- MODULE ColumnMemory -----------------------------
(***************************************************************************)
(* Who frees the pages of columns (src/include/plan.h: Column and          *)
(* MappedMemory).  A column owns the pages it got by new_page, or shares   *)
(* the mapping of a cache file with the table's other columns and counts   *)
(* as one of its references.  A vector that grows moves its columns and    *)
(* destroys what is left of them.                                          *)
(***************************************************************************)
EXTENDS Naturals, Sequences, FiniteSets

CONSTANT None       \* nullptr

VARIABLES
    tables,     \* live tables: name -> [columns, capacity] of vector<Column>
    heap,       \* pages that are allocated
    allocated,  \* pages allocated so far, for their names
    mappings,   \* live mappings: name -> refs
    misfreed    \* history: something was freed that was not live

MemoryInit ==
    /\ tables = << >>
    /\ heap = {}
    /\ allocated = 0
    /\ mappings = << >>
    /\ misfreed = FALSE

Without(f, x) == [y \in DOMAIN f \ {x} |-> f[y]]
With(f, x, v) == [y \in DOMAIN f \union {x} |-> IF y = x THEN v ELSE f[y]]

\* Pages are named by where they are: in a mapping, or in the heap.
HeapPage(k) == <<None, k>>
MappedPage(mapping, k) == <<mapping, k>>

-----------------------------------------------------------------------------
(* What one column does to memory m = [heap, mappings, misfreed]. *)

Memory == [heap |-> heap, mappings |-> mappings, misfreed |-> misfreed]

NewColumn == [pages |-> {}, mapped_memory |-> None]

\* ~Column: a reference is given back, and with the last one the mapping; or the
\* pages are deleted.
Destroyed(m, column) ==
    LET mapping == column.mapped_memory
    IN  IF mapping = None
        THEN [m EXCEPT !.heap = @ \ column.pages,
                       !.misfreed = @ \/ ~(column.pages \subseteq m.heap)]
        ELSE IF mapping \notin DOMAIN m.mappings THEN [m EXCEPT !.misfreed = TRUE]
        ELSE IF m.mappings[mapping] = 1 THEN [m EXCEPT !.mappings = Without(@, mapping)]
        ELSE [m EXCEPT !.mappings[mapping] = @ - 1]

\* One column after the other is destroyed.
AllDestroyed(m, columns) ==
    LET after[i \in 0 .. Len(columns)] == IF i = 0 THEN m ELSE Destroyed(after[i - 1], columns[i])
    IN  after[Len(columns)]

\* MUTANT: the column moved from still has its reference to the mapping.
MovedFromKeepsReference(column) == [column EXCEPT !.pages = {}]

\* What Column(Column&&) leaves of the column moved from.
MovedFrom(column) == NewColumn

\* emplace_back to a full vector: its columns are moved to one of twice the
\* capacity, then destroyed where they were.
Grown(m, vector) ==
    IF Len(vector.columns) < vector.capacity THEN m
    ELSE AllDestroyed(m, [j \in DOMAIN vector.columns |-> MovedFrom(vector.columns[j])])

EmplaceBack(vector, column) ==
    [columns |-> Append(vector.columns, column),
     capacity |-> IF Len(vector.columns) < vector.capacity THEN vector.capacity
                  ELSE IF vector.capacity = 0 THEN 1 ELSE 2 * vector.capacity]

Become(m) ==
    /\ heap' = m.heap
    /\ mappings' = m.mappings
    /\ misfreed' = m.misfreed

VectorOf(name) == IF name \in DOMAIN tables THEN tables[name] ELSE [columns |-> <<>>, capacity |-> 0]

-----------------------------------------------------------------------------
\* from_cache, one turn of its loop: the column counts itself as a reference to
\* the mapping, which is new with the first one, and names its pages.
AddMappedColumn(name, pages) ==
    LET vector == VectorOf(name)
        column == [pages |-> {MappedPage(name, k) : k \in pages}, mapped_memory |-> name]
        m == Grown(Memory, vector)
        refs == IF name \in DOMAIN m.mappings THEN m.mappings[name] ELSE 0
    IN  /\ tables' = With(tables, name, EmplaceBack(vector, column))
        /\ Become([m EXCEPT !.mappings = With(@, name, refs + 1)])
        /\ UNCHANGED allocated

\* to_columnar and CSV loading, one column: new_page for each of its pages.
AddOwnedColumn(name, num_pages) ==
    LET vector == VectorOf(name)
        pages == {HeapPage(allocated + k) : k \in 1 .. num_pages}
        m == Grown(Memory, vector)
    IN  /\ tables' = With(tables, name, EmplaceBack(vector, [NewColumn EXCEPT !.pages = pages]))
        /\ Become([m EXCEPT !.heap = @ \union pages])
        /\ allocated' = allocated + num_pages

\* execute: the output columns are reserved, so that growing moves none of them
\* while an inserter refers to it.
ReserveColumns(name, num_cols) ==
    /\ tables' = With(tables, name, [columns |-> [j \in 1 .. num_cols |-> NewColumn],
                                     capacity |-> num_cols])
    /\ UNCHANGED <<heap, allocated, mappings, misfreed>>

\* Column::new_page
NewPage(name, j) ==
    /\ heap' = heap \union {HeapPage(allocated + 1)}
    /\ tables' = [tables EXCEPT ![name].columns[j].pages = @ \union {HeapPage(allocated + 1)}]
    /\ allocated' = allocated + 1
    /\ UNCHANGED <<mappings, misfreed>>

\* A table goes out of scope.
DestroyTable(name) ==
    /\ Become(AllDestroyed(Memory, tables[name].columns))
    /\ tables' = Without(tables, name)
    /\ UNCHANGED allocated

-----------------------------------------------------------------------------
Columns == UNION {{<<name, j>> : j \in DOMAIN tables[name].columns} : name \in DOMAIN tables}
Column(c) == tables[c[1]].columns[c[2]]
References(mapping) == {c \in Columns : Column(c).mapped_memory = mapping}

\* No page is freed twice, too early or never: what is allocated is owned by one
\* column, the references of a mapping are its columns, and it lives while there
\* is one.  In particular nothing is left when the tables are gone.
PagesOwned ==
    /\ ~misfreed
    /\ heap = UNION {Column(c).pages : c \in References(None)}
    /\ \A c, d \in Columns : c # d => Column(c).pages \intersect Column(d).pages = {}
    /\ DOMAIN mappings = {Column(c).mapped_memory : c \in Columns} \ {None}
    /\ \A mapping \in DOMAIN mappings : mappings[mapping] = Cardinality(References(mapping))
===============================================================================
