------------------------------ MODULE FixedPages ------------------------------
(***************************************************************************)
(* Pages of a column of fixed-length values.  Two writers fill them:       *)
(* ColumnInserter<T> (src/include/plan.h) and Table::to_columnar           *)
(* (src/src/build_table.cpp).  Their readers are ColumnCursor,             *)
(* execute_scan and the view of PagedColumn (src/src/execute.cpp), and     *)
(* copy_scan and from_columnar (src/src/build_table.cpp).                  *)
(*                                                                         *)
(* A page is two counters, values from data_begin upwards and a bitmap     *)
(* from its end downwards; nothing but the test in insert keeps the two    *)
(* apart, so the bytes are modelled one by one.  A byte is a part of a     *)
(* value, a set of bits, or was never written.  The value of a row is the  *)
(* number of the row.                                                      *)
(***************************************************************************)
EXTENDS Integers, Sequences, FiniteSets, SequencesExt

CONSTANTS
    PageSize,       \* PAGE_SIZE
    BitsPerByte,    \* 8, scaled so that a bitmap of few rows takes many bytes
    ValueSizes,     \* sizeof(T): 4 for INT32, 8 for INT64 and FP64
    Writers,        \* "inserter": ColumnInserter<T>; "to_columnar"
    MaxRows,        \* BOUND: rows inserted
    Null

ASSUME ConstantsAssumption ==
    /\ ValueSizes \subseteq {4, 8}
    /\ Writers \subseteq {"inserter", "to_columnar"}
    /\ BitsPerByte \in Nat \ {0}
    /\ PageSize \in Nat /\ PageSize > 16    \* the counters, a value and a byte of the bitmap
    /\ Null \notin Nat                       \* is no row

VARIABLES
    writer,
    value_size,     \* of the column's type
    pages,          \* column.pages
    last_page_idx,
    num_rows,
    data_end,
    bitmap,         \* bits set in the writer's bitmap; the inserter's keeps stale ones
    finalized,      \* history: finalize() has been called
    inserted        \* history: the rows so far

column == <<writer, value_size>>
vars == <<column, pages, last_page_idx, num_rows, data_end, bitmap, finalized, inserted>>

Byte == 4 .. (PageSize - 1)
Junk == <<"junk">>
NewPage == [num_rows |-> 0, val_count |-> 0, data |-> [b \in Byte |-> Junk]]

DataBegin == IF value_size < 4 THEN 4 ELSE value_size
BitmapSize(n) == (n + BitsPerByte - 1) \div BitsPerByte

Init ==
    /\ writer \in Writers
    /\ value_size \in ValueSizes
    /\ pages = <<>>
    /\ last_page_idx = 0
    /\ num_rows = 0
    /\ data_end = DataBegin
    /\ bitmap = {}
    /\ finalized = FALSE
    /\ inserted = <<>>

-----------------------------------------------------------------------------
(* The writers; each operator takes and returns the writer's state s.      *)
(* to_columnar keeps values and bitmap in vectors and gets a page when it  *)
(* saves one; as nobody reads before the end this is the inserter's page   *)
(* but for the two differences named below.                                *)

State == [pages |-> pages, idx |-> last_page_idx, rows |-> num_rows, end |-> data_end,
          bits |-> bitmap]

\* get_page: a page is added when the last one has been saved
WithPage(s) == IF s.idx = Len(s.pages) THEN Append(s.pages, NewPage) ELSE s.pages

\* The bits of byte b of bitmap bits.
BitsOfByte(bits, b) == {k \in 0 .. (BitsPerByte - 1) : b * BitsPerByte + k \in bits}

\* memcpy of the bitmap to the end of the page
SavedData(data, n, bits) ==
    LET first == PageSize - BitmapSize(n)
    IN  [b \in Byte |-> IF b >= first THEN <<"bits", BitsOfByte(bits, b - first)>> ELSE data[b]]

\* The bitmap a page is begun with: only to_columnar clears it.
NextBits(bits) == IF writer = "to_columnar" THEN {} ELSE bits

SavePage(s) ==
    LET ps == WithPage(s)
    IN  [pages |-> [ps EXCEPT ![s.idx + 1] =
                      [num_rows |-> s.rows,
                       val_count |-> (s.end - DataBegin) \div value_size,
                       data |-> SavedData(@.data, s.rows, s.bits)]],
         idx |-> s.idx + 1, rows |-> 0, end |-> DataBegin,
         bits |-> NextBits(s.bits)]

\* The bytes of row r's value are stored at offset e.
Stored(data, e, r) ==
    [b \in Byte |-> IF b \in e .. (e + value_size - 1) THEN <<"value", r, b - e>> ELSE data[b]]

\* MUTANT: no room is kept for the row's bit.
InsertFullNoBitmap == data_end + 4 > PageSize

\* The inserter reserves four bytes for every T, to_columnar a value's.
Reserve == IF writer = "to_columnar" THEN value_size ELSE 4

InsertFull == data_end + Reserve + num_rows \div BitsPerByte + 1 > PageSize
NullFull == data_end + num_rows \div BitsPerByte + 1 > PageSize

SetBit(bits, n) == bits \union {n}
UnsetBit(bits, n) == bits \ {n}

Become(s) ==
    /\ pages' = s.pages
    /\ last_page_idx' = s.idx
    /\ num_rows' = s.rows
    /\ data_end' = s.end
    /\ bitmap' = s.bits

Insert ==
    /\ ~finalized /\ Len(inserted) < MaxRows
    /\ LET s == IF InsertFull THEN SavePage(State) ELSE State
           row == Len(inserted) + 1
       IN  /\ Become([pages |-> [WithPage(s) EXCEPT ![s.idx + 1].data = Stored(@, s.end, row)],
                      idx |-> s.idx, rows |-> s.rows + 1, end |-> s.end + value_size,
                      bits |-> SetBit(s.bits, s.rows)])
           /\ inserted' = Append(inserted, row)
    /\ UNCHANGED <<column, finalized>>

\* MUTANT: the bit a former page left is not cleared.
InsertNullStale ==
    /\ ~finalized /\ Len(inserted) < MaxRows
    /\ LET s == IF NullFull THEN SavePage(State) ELSE State
       IN  Become([s EXCEPT !.rows = @ + 1])
    /\ inserted' = Append(inserted, Null)
    /\ UNCHANGED <<column, finalized>>

InsertNull ==
    /\ ~finalized /\ Len(inserted) < MaxRows
    /\ LET s == IF NullFull THEN SavePage(State) ELSE State
       IN  Become([pages |-> s.pages, idx |-> s.idx, rows |-> s.rows + 1, end |-> s.end,
                  bits |-> UnsetBit(s.bits, s.rows)])
    /\ inserted' = Append(inserted, Null)
    /\ UNCHANGED <<column, finalized>>

Finalize ==
    /\ ~finalized
    /\ Become(IF num_rows # 0 THEN SavePage(State) ELSE State)
    /\ finalized' = TRUE
    /\ UNCHANGED <<column, inserted>>

Done == finalized /\ UNCHANGED vars

Next == Insert \/ InsertNull \/ Finalize \/ Done

Spec == Init /\ [][Next]_vars

-----------------------------------------------------------------------------
(* The readers. *)

Garbage == 0    \* rows count from 1

\* The value whose bytes stand at offset e.
ValueAt(page, e) ==
    LET b == page.data[e]
    IN  IF /\ b[1] = "value"
           /\ \A k \in 0 .. (value_size - 1) : page.data[e + k] = <<"value", b[2], k>>
        THEN b[2] ELSE Garbage

\* get_bitmap_at
BitAt(page, n) ==
    LET b == page.data[PageSize - BitmapSize(page.num_rows) + n \div BitsPerByte]
    IN  IF b[1] = "bits" THEN n % BitsPerByte \in b[2] ELSE FALSE

\* The rows of a page by the page format.
PageRows(page) ==
    LET valid(n) == Cardinality({m \in 0 .. (n - 1) : BitAt(page, m)})
    IN  [n \in 1 .. page.num_rows |->
           IF BitAt(page, n - 1) THEN ValueAt(page, DataBegin + value_size * valid(n - 1)) ELSE Null]

\* copy_scan and from_columnar read every type.
FormatRows == FlattenSeq([p \in DOMAIN pages |-> PageRows(pages[p])])

\* ColumnCursor::next, called for each row of the table, has a branch for INT32 only:
\* a value of 8 bytes is passed over, and what is returned for its row is the next
\* NULL, also behind the last page.
CursorRows(table_rows) ==
    LET returned == IF value_size = 4 THEN FormatRows
                    ELSE SelectSeq(FormatRows, LAMBDA val : val = Null)
    IN  [r \in 1 .. table_rows |-> IF r \in DOMAIN returned THEN returned[r] ELSE Null]

\* copy_scan and from_columnar: a result of as many rows as the table has, NULL
\* where nothing is written; a value of a later row is an exception.
CopyScan(table_rows) ==
    LET read == FormatRows
    IN  IF \E r \in DOMAIN read : r > table_rows /\ read[r] # Null
        THEN "exception"
        ELSE [r \in 1 .. table_rows |-> IF r \in DOMAIN read THEN read[r] ELSE Null]

\* MUTANT: only the last page decides.
CanViewLast == pages # <<>> /\ pages[Len(pages)].num_rows = pages[Len(pages)].val_count

\* execute_scan: a column without NULL is read in place
CanView == pages # <<>> /\ \A p \in DOMAIN pages : pages[p].num_rows = pages[p].val_count
RowsPerPage == pages[1].num_rows

\* PagedColumn::get of a view, for row n counted from 0
ViewRow(n) == ValueAt(pages[n \div RowsPerPage + 1], DataBegin + value_size * (n % RowsPerPage))

-----------------------------------------------------------------------------
(* Properties. *)

\* The inserter stays within the page: the values and the bitmap fit, also of
\* the page in progress, whose counters are 16 bits wide in units of rows.
TypeOK ==
    /\ num_rows \in 0 .. (BitsPerByte * PageSize - 1)
    /\ last_page_idx \in {Len(pages), Len(pages) - 1}
    /\ writer = "to_columnar" \/ value_size = 4 =>
          data_end + BitmapSize(num_rows) <= PageSize
    /\ \A p \in DOMAIN pages : pages[p].val_count <= pages[p].num_rows

\* Values and bitmap of a saved page do not overlap, for either writer and every
\* type but the inserter's wide ones (see InserterKeepsFormat), so that
\* copy_scan and from_columnar find what was inserted, row by row, and do not fail,
\* and so does the cursor in an INT32 column, the one fixed-length type it has.
RoundTrip ==
    finalized /\ (writer = "to_columnar" \/ value_size = 4) =>
        /\ value_size = 4 => CursorRows(Len(inserted)) = inserted
        /\ CopyScan(Len(inserted)) = inserted

\* A column that execute_scan takes for a view reads as it was inserted, though
\* one page's row count is applied to all pages.
ViewSound ==
    finalized /\ value_size = 4 /\ CanView =>
        \A n \in DOMAIN inserted : ViewRow(n - 1) = inserted[n]

\* ASSIGNMENT.md: the layout of a page in which values and bitmap are apart, for
\* what ColumnInserter<T> writes; its reserve is too small for the wide types.
InserterKeepsFormat ==
    finalized /\ writer = "inserter" => FormatRows = inserted
=============================================================================
