----------------------------- MODULE StringPages -----------------------------
(***************************************************************************)
(* Pages of a VARCHAR column: how ColumnInserter<string>                   *)
(* (src/include/plan.h) and Table::to_columnar (src/src/build_table.cpp)   *)
(* fill them, how ColumnCursor turns them into StringIndex values and      *)
(* materialize_string follows those (src/src/execute.cpp), and how         *)
(* copy_scan and from_columnar read them (src/src/build_table.cpp).        *)
(*                                                                         *)
(* An ordinary page is two counters, the end offsets of its strings, their *)
(* characters, and a bitmap at its end.  A string too long for that fills  *)
(* pages of its own, marked by values of the row counter no ordinary page  *)
(* must reach.  A character is <<string number, index>> or NUL.            *)
(***************************************************************************)
EXTENDS Integers, Sequences, FiniteSets, SequencesExt

CONSTANTS
    PageSize,       \* PAGE_SIZE
    BitsPerByte,    \* 8; scaled so that rows of NULLs fill a page
    PageIds,        \* 2^16: the page numbers a StringIndex tells apart, scaled down
    Writers,        \* "inserter": ColumnInserter<string>; "to_columnar"
    Sizes,          \* lengths of the strings inserted
    MaxRows,        \* BOUND: rows inserted
    MaxStrings,     \* BOUND: rows that are not NULL
    Null, Nul

Char == {Nul} \union (Nat \X Nat)
StringIndex == [page_id : Nat, offset : Nat, length : Nat]

ASSUME ConstantsAssumption ==
    /\ PageSize \in Nat /\ PageSize >= 12
    /\ BitsPerByte \in Nat \ {0}
    /\ PageIds \in Nat \ {0}
    /\ Writers \subseteq {"inserter", "to_columnar"}
    /\ Sizes \subseteq Nat
    /\ Null \notin Seq(Char)
    /\ Null \notin StringIndex

VARIABLES
    writer,
    pages,          \* column.pages that have been saved
    num_rows,
    data,           \* characters of the page in progress; data_size is their number
    offsets,        \* end offsets of the page in progress
    bitmap,         \* bits set in the writer's bitmap; the inserter's keeps stale ones
    finalized,      \* history: finalize() has been called
    inserted        \* history: the rows so far

vars == <<writer, pages, num_rows, data, offsets, bitmap, finalized, inserted>>

\* 0xffff and 0xfffe: one and two less than the bits of a page
First == BitsPerByte * PageSize - 1
Following == First - 1

BitmapSize(n) == (n + BitsPerByte - 1) \div BitsPerByte

\* offset_end
OffsetEnd == 4 + 2 * Len(offsets)

Init ==
    /\ writer \in Writers
    /\ pages = <<>>
    /\ num_rows = 0
    /\ data = <<>>
    /\ offsets = <<>>
    /\ bitmap = {}
    /\ finalized = FALSE
    /\ inserted = <<>>

-----------------------------------------------------------------------------
(* The writers. *)

\* The ends of the chunks of PAGE_SIZE - 4 characters a string of length n is cut into.
ChunkEnds(n) == [c \in 1 .. ((n + PageSize - 5) \div (PageSize - 4)) |->
    IF c * (PageSize - 4) < n THEN c * (PageSize - 4) ELSE n]

\* save_long_string
LongPages(value) ==
    LET ends == ChunkEnds(Len(value))
    IN  [c \in DOMAIN ends |->
           [num_rows |-> IF c = 1 THEN First ELSE Following,
            chars |-> SubSeq(value, IF c = 1 THEN 1 ELSE ends[c - 1] + 1, ends[c])]]

\* save_page: counters, offsets, characters from offset_end on, bitmap at the end
SavedPage ==
    [num_rows |-> num_rows, offsets |-> offsets, chars |-> data,
     bits |-> {n \in bitmap : n < BitsPerByte * BitmapSize(num_rows)}]

\* The bitmap a page is begun with: only to_columnar clears it.
NextBitmap == IF writer = "to_columnar" THEN {} ELSE bitmap

\* Bytes of the page in progress if n characters and one row are added.
Need(n, offset_bytes) == OffsetEnd + offset_bytes + Len(data) + n + num_rows \div BitsPerByte + 1

IsLong(value) == Len(value) > PageSize - 7

\* MUTANT: the page in progress is kept, the long string's pages get before it.
InsertLongFirst(value) ==
    /\ IsLong(value)
    /\ pages' = pages \o LongPages(value)
    /\ UNCHANGED <<num_rows, data, offsets, bitmap>>

InsertLong(value) ==
    /\ IsLong(value)
    /\ pages' = pages \o (IF num_rows > 0 THEN <<SavedPage>> ELSE <<>>) \o LongPages(value)
    /\ num_rows' = 0 /\ data' = <<>> /\ offsets' = <<>>
    /\ bitmap' = IF num_rows > 0 THEN NextBitmap ELSE bitmap

\* MUTANT: the page is not saved before its characters would run into the bitmap.
InsertShortFits(value) ==
    /\ ~IsLong(value)
    /\ data' = data \o value
    /\ offsets' = Append(offsets, Len(data) + Len(value))
    /\ bitmap' = bitmap \union {num_rows}
    /\ num_rows' = num_rows + 1
    /\ UNCHANGED pages

InsertShort(value) ==
    /\ ~IsLong(value)
    /\ IF Need(Len(value), 2) > PageSize
       THEN /\ pages' = Append(pages, SavedPage)
            /\ data' = value
            /\ offsets' = <<Len(value)>>
            /\ bitmap' = NextBitmap \union {0}
            /\ num_rows' = 1
       ELSE /\ data' = data \o value
            /\ offsets' = Append(offsets, Len(data) + Len(value))
            /\ bitmap' = bitmap \union {num_rows}
            /\ num_rows' = num_rows + 1
            /\ UNCHANGED pages

\* The string of row r: its characters are its own; its last one may be NUL.
StringOf(r, size, nul) ==
    [k \in 1 .. size |-> IF nul /\ k = size THEN Nul ELSE <<r, k>>]

Insert ==
    /\ ~finalized /\ Len(inserted) < MaxRows
    /\ Cardinality({r \in DOMAIN inserted : inserted[r] # Null}) < MaxStrings
    /\ \E size \in Sizes, nul \in BOOLEAN :
          LET value == StringOf(Len(inserted) + 1, size, nul)
          IN  /\ InsertLong(value) \/ InsertShort(value)
              /\ inserted' = Append(inserted, value)
    /\ UNCHANGED <<writer, finalized>>

\* MUTANT: a page of NULLs is never full.
InsertNullUnbounded ==
    /\ ~finalized /\ Len(inserted) < MaxRows
    /\ bitmap' = bitmap \ {num_rows}
    /\ num_rows' = num_rows + 1
    /\ inserted' = Append(inserted, Null)
    /\ UNCHANGED <<writer, pages, data, offsets, finalized>>

InsertNull ==
    /\ ~finalized /\ Len(inserted) < MaxRows
    /\ IF Need(0, 0) > PageSize
       THEN /\ pages' = Append(pages, SavedPage)
            /\ data' = <<>> /\ offsets' = <<>>
            /\ bitmap' = NextBitmap \ {0}
            /\ num_rows' = 1
       ELSE /\ bitmap' = bitmap \ {num_rows}
            /\ num_rows' = num_rows + 1
            /\ UNCHANGED <<pages, data, offsets>>
    /\ inserted' = Append(inserted, Null)
    /\ UNCHANGED <<writer, finalized>>

Finalize ==
    /\ ~finalized
    /\ IF num_rows # 0
       THEN /\ pages' = Append(pages, SavedPage)
            /\ num_rows' = 0 /\ data' = <<>> /\ offsets' = <<>>
            /\ bitmap' = NextBitmap
       ELSE UNCHANGED <<pages, num_rows, data, offsets, bitmap>>
    /\ finalized' = TRUE
    /\ UNCHANGED <<writer, inserted>>

Done == finalized /\ UNCHANGED vars

Next == Insert \/ InsertNull \/ Finalize \/ Done

Spec == Init /\ [][Next]_vars

-----------------------------------------------------------------------------
(* The scan and the materialization of its strings. *)

\* A StringIndex: page number, offset and length; a long string has offset 4 and
\* length 0.  The page number counts from 0 and is cut to its field.
Index(p, offset, length) ==
    [page_id |-> (p - 1) % PageIds, offset |-> offset, length |-> length]

OverPage(index) == index.offset + index.length > PageSize

\* chars_base_ptr: behind the offsets, one per string that is not NULL
CharBegin(page) == 4 + 2 * Len(page.offsets)

\* ColumnCursor::next over the rows of ordinary page p; the rest of a page is
\* dropped from the first string on that would reach over its end.
CursorOrdinary(p) ==
    LET page == pages[p]
        before(n) == Cardinality({m \in page.bits : m < n})
        start(i) == IF i = 0 THEN 0 ELSE page.offsets[i]
        index(i) == Index(p, CharBegin(page) + start(i), page.offsets[i + 1] - start(i))
        rows == [n \in 1 .. page.num_rows |->
                   IF n - 1 \in page.bits THEN index(before(n - 1)) ELSE Null]
        bad == SelectInSeq(rows, LAMBDA v : v # Null /\ OverPage(v))
    IN  IF bad = 0 THEN rows ELSE SubSeq(rows, 1, bad - 1)

CursorPage(p) ==
    CASE pages[p].num_rows = First     -> <<Index(p, 4, 0)>>
      [] pages[p].num_rows = Following -> <<>>
      [] OTHER                         -> CursorOrdinary(p)

CursorRows == FlattenSeq([p \in DOMAIN pages |-> CursorPage(p)])

\* A trailing NUL does not survive.
WithoutNul(value) ==
    IF value # <<>> /\ Last(value) = Nul THEN SubSeq(value, 1, Len(value) - 1) ELSE value

\* MUTANT: the chunks of the next long string are taken along.
LongStringGreedy(p) ==
    LET more == {q \in p .. Len(pages) : \A o \in (p + 1) .. q : pages[o].num_rows \in {First, Following}}
    IN  FlattenSeq([c \in 1 .. Cardinality(more) |-> pages[p + c - 1].chars])

\* A long string is its first page and the following pages right behind.
LongString(p) ==
    LET more == {q \in p .. Len(pages) : \A o \in (p + 1) .. q : pages[o].num_rows = Following}
    IN  FlattenSeq([c \in 1 .. Cardinality(more) |-> pages[p + c - 1].chars])

\* The characters at an offset of an ordinary page.
CharsAt(page, offset, length) ==
    LET skip == offset - CharBegin(page) IN SubSeq(page.chars, skip + 1, skip + length)

Materialize(index) ==
    LET p == index.page_id + 1
    IN  IF pages[p].num_rows = First THEN WithoutNul(LongString(p))
        ELSE IF OverPage(index) THEN <<>>
        ELSE WithoutNul(CharsAt(pages[p], index.offset, index.length))

-----------------------------------------------------------------------------
(* copy_scan and from_columnar. *)

Exception == << <<0, 0>> >>     \* no string has number 0

OrdinaryRows(page) ==
    LET before(n) == Cardinality({m \in page.bits : m < n})
        start(i) == IF i = 0 THEN 0 ELSE page.offsets[i]
        string(i) == SubSeq(page.chars, start(i) + 1, page.offsets[i + 1])
    IN  [n \in 1 .. page.num_rows |->
           IF n - 1 \in page.bits THEN string(before(n - 1)) ELSE Null]

\* The page behind rows: a following page continues the string of the last row,
\* which must be one.
WithPageRows(rows, page) ==
    CASE page.num_rows = First     -> Append(rows, page.chars)
      [] page.num_rows = Following ->
           [rows EXCEPT ![Len(rows)] = IF @ = Null THEN Exception ELSE @ \o page.chars]
      [] OTHER                     -> rows \o OrdinaryRows(page)

\* A result of as many rows as the table has, NULL where nothing is written; a
\* string of a later row is an exception.
CopyScan(table_rows) ==
    LET read[p \in 0 .. Len(pages)] ==
            IF p = 0 THEN <<>> ELSE WithPageRows(read[p - 1], pages[p])
        rows == read[Len(pages)]
    IN  [r \in 1 .. table_rows |-> IF r \notin DOMAIN rows THEN Null
                                  ELSE IF \E l \in DOMAIN rows : l > table_rows /\ rows[l] # Null
                                  THEN Exception ELSE rows[r]]

-----------------------------------------------------------------------------
(* Properties. *)

\* The page in progress: counters, offsets that ascend, room for its bitmap.
TypeOK ==
    /\ OffsetEnd + Len(data) + BitmapSize(num_rows) <= PageSize
    /\ \A p \in DOMAIN pages : pages[p].num_rows \in 1 .. First
    /\ \A k \in DOMAIN offsets : offsets[k] \in 0 .. Len(data)
    /\ \A k \in 2 .. Len(offsets) : offsets[k - 1] <= offsets[k]
    /\ Len(offsets) <= num_rows

\* An ordinary page never has as many rows as a marker of a long string.
MarkersReserved ==
    \A p \in DOMAIN pages : "offsets" \in DOMAIN pages[p] => pages[p].num_rows < Following

\* Whoever wrote them, copy_scan and from_columnar return the rows inserted:
\* strings of any length, at page boundaries, next to other long strings,
\* behind NULLs; the bits of an earlier page do not show.
CopyRoundTrip == finalized => CopyScan(Len(inserted)) = inserted

\* What a scan reads and the result materializes is what was inserted, but for
\* a trailing NUL, in every column whose pages a StringIndex can number.
RoundTrip ==
    finalized /\ Len(pages) <= PageIds =>
        LET read == CursorRows
        IN  /\ Len(read) = Len(inserted)
            /\ \A r \in DOMAIN inserted :
                  IF inserted[r] = Null THEN read[r] = Null
                  ELSE read[r] # Null /\ Materialize(read[r]) = WithoutNul(inserted[r])

\* ASSIGNMENT.md: "the content of the varchars which begins at char_begin =
\* data + 4 + n_r * 2", n_r being the number of rows of the page.
CharsWhereDocumented ==
    \A p \in DOMAIN pages : "offsets" \in DOMAIN pages[p] /\ pages[p].chars # <<>> =>
        CharBegin(pages[p]) = 4 + 2 * pages[p].num_rows
=============================================================================
