---------------------------- MODULE FilteredLoad ----------------------------
(***************************************************************************)
(* Loading a table with a filter: Table::from_csv (src/src/build_table.cpp)*)
(* from the records the parser delivers to the columns it returns, with    *)
(* its two caches; the columns and kernels of src/include/inner_column.h;  *)
(* the two evaluations of a statement in src/src/statement.cpp.            *)
(*                                                                         *)
(* A statement is evaluated over whole columns, on bitmaps whose last byte *)
(* has bits of no row.  It is evaluated here the way the recursion does,   *)
(* children first, on a stack.  Beside every bitmap stands what            *)
(* eval(record) says of the same statement, row by row.                    *)
(*                                                                         *)
(* One INT32 and one VARCHAR column; strings are numbers in their order, a *)
(* LIKE pattern is the set of strings it matches.  One file, which does    *)
(* not change once it is loaded.                                           *)
(***************************************************************************)
EXTENDS Integers, Sequences, FiniteSets, SequencesExt

CONSTANTS
    BitsPerByte,    \* 8, scaled so that few rows take several bytes
    IntBits,        \* 32, scaled so that literals need not fit
    IntValues, IntLiterals,
    StrValues, StrLiterals, Patterns,
    MaxRows,        \* BOUND: records of the file
    MaxCalls,       \* BOUND: calls of from_csv
    Null, None

ASSUME ConstantsAssumption ==
    /\ BitsPerByte \in Nat \ {0} /\ IntBits \in Nat \ {0}
    /\ IntValues \subseteq (-(2 ^ (IntBits - 1))) .. (2 ^ (IntBits - 1) - 1)
    /\ IntLiterals \subseteq Int /\ StrValues \subseteq Nat /\ StrLiterals \subseteq Nat

VARIABLES
    phase,          \* where the call is
    calls,
    file,           \* records parsed so far
    columns,        \* columns of full_table: data and bitmap
    table_cached,   \* table_cache has the table
    result_cache,   \* the columns of an unfiltered load, or None
    filtered,       \* the call has a filter
    stack,          \* bitmaps of the statements evaluated and not combined yet
    out,            \* columns of ret
    ret_rows

vars == <<phase, calls, file, columns, table_cached, result_cache, filtered, stack, out, ret_rows>>

Column == {"int", "str"}
EmptyColumns == [c \in Column |-> [data |-> <<>>, bitmap |-> <<>>]]
NoOutput == [c \in Column |-> None]

Init ==
    /\ phase = "idle"
    /\ calls = 0
    /\ file = <<>>
    /\ columns = EmptyColumns
    /\ table_cached = FALSE
    /\ result_cache = None
    /\ filtered = FALSE
    /\ stack = <<>>
    /\ out = NoOutput
    /\ ret_rows = 0

Rows == 0 .. (Len(file) - 1)
BytesFor(n) == (n + BitsPerByte - 1) \div BitsPerByte

\* The rows whose bit is set; the padding of the last byte included.
BitsOf(bitmap) == {i \in 0 .. (Len(bitmap) * BitsPerByte - 1) :
                      i % BitsPerByte \in bitmap[i \div BitsPerByte + 1]}
BytesOf(S, n) == [b \in 1 .. n |-> {k \in 0 .. (BitsPerByte - 1) : (b - 1) * BitsPerByte + k \in S}]

-----------------------------------------------------------------------------
(* Filling the columns. *)

\* MUTANT: a byte is added one row early.
PushBitEarly(bitmap, n, not_null) ==
    IF BytesFor(n + 2) > Len(bitmap) THEN Append(bitmap, IF not_null THEN {0} ELSE {})
    ELSE [bitmap EXCEPT ![n \div BitsPerByte + 1] =
             IF not_null THEN @ \union {n % BitsPerByte} ELSE @ \ {n % BitsPerByte}]

\* bitmap_push_back for row n
PushBit(bitmap, n, not_null) ==
    LET byte == n \div BitsPerByte + 1
        bit == n % BitsPerByte
    IN  IF byte > Len(bitmap) THEN Append(bitmap, IF not_null THEN {0} ELSE {})
        ELSE [bitmap EXCEPT ![byte] = IF not_null THEN @ \union {bit} ELSE @ \ {bit}]

\* push_back, push_back_null: a NULL has a value, 0 or the empty string
Push(column, v) ==
    [data |-> Append(column.data, IF v = Null THEN 0 ELSE v),
     bitmap |-> PushBit(column.bitmap, Len(column.data), v # Null)]

\* add_record
AddRecord ==
    /\ phase = "parse"
    /\ Len(file) < MaxRows
    /\ \E i \in IntValues \union {Null}, s \in StrValues \union {Null} :
          LET record == [int |-> i, str |-> s]
          IN  /\ file' = Append(file, record)
              /\ columns' = [c \in Column |-> Push(columns[c], record[c])]
    /\ UNCHANGED <<phase, calls, table_cached, result_cache, filtered, stack, out, ret_rows>>

\* A parse error is thrown: nothing is cached.
ParseError ==
    /\ phase = "parse"
    /\ phase' = "idle"
    /\ file' = <<>>
    /\ columns' = EmptyColumns
    /\ UNCHANGED <<calls, table_cached, result_cache, filtered, stack, out, ret_rows>>

\* What follows once the table is there.
AfterTable(has_filter) == IF has_filter THEN "eval" ELSE "copy"

EndParse ==
    /\ phase = "parse"
    /\ table_cached' = TRUE
    /\ phase' = AfterTable(filtered)
    /\ UNCHANGED <<calls, file, columns, result_cache, filtered, stack, out, ret_rows>>

-----------------------------------------------------------------------------
(* Evaluating the filter. *)

Compared(op, v, literal) ==
    CASE op = "EQ" -> v = literal [] op = "NEQ" -> v # literal
      [] op = "LT" -> v < literal [] op = "GT" -> v > literal
      [] op = "LEQ" -> v <= literal [] op = "GEQ" -> v >= literal
      [] op = "LIKE" -> v \in literal [] op = "NOT_LIKE" -> v \notin literal

Orders == {"EQ", "NEQ", "LT", "GT", "LEQ", "GEQ"}
Likes == {"LIKE", "NOT_LIKE"}

\* Comparison::eval(record)
RecordTest(c, op, literal, i) ==
    LET v == file[i + 1][c]
    IN  CASE op = "IS_NULL" -> v = Null
          [] op = "IS_NOT_NULL" -> v # Null
          [] OTHER -> v # Null /\ Compared(op, v, literal)

\* MUTANT: a NULL compares as the value that stands for it.
KernelDefault(c, op, literal, byte_begin, byte_end) ==
    {i \in (byte_begin * BitsPerByte) .. (Min({byte_end * BitsPerByte, Len(columns[c].data)}) - 1) :
        Compared(op, columns[c].data[i + 1], literal)}

\* The rows a comparison finds in bytes byte_begin .. byte_end - 1.
Kernel(c, op, literal, byte_begin, byte_end) ==
    {i \in (byte_begin * BitsPerByte) .. (Min({byte_end * BitsPerByte, Len(columns[c].data)}) - 1) :
        i \in BitsOf(columns[c].bitmap) /\ Compared(op, columns[c].data[i + 1], literal)}

\* static_cast<int32_t>: the literal modulo 2^IntBits
Narrow(c, literal) ==
    IF c = "int" THEN ((literal + 2 ^ (IntBits - 1)) % (2 ^ IntBits)) - 2 ^ (IntBits - 1) ELSE literal

\* The complement of every byte, padding included.
NotBytes(bytes) == [b \in DOMAIN bytes |-> (0 .. (BitsPerByte - 1)) \ bytes[b]]

\* A statement whose bitmap is bytes, which eval(record) finds true of the rows
\* truth; exact unless a literal of it does not fit.
Entry(bytes, truth, exact) == [bytes |-> bytes, truth |-> truth, exact |-> exact]

PushEntry(entry) ==
    /\ phase = "eval"
    /\ Len(stack) < 2
    /\ stack' = Append(stack, entry)
    /\ UNCHANGED <<phase, calls, file, columns, table_cached, result_cache, filtered, out, ret_rows>>

\* A comparison: the pool cuts the bytes into ranges, each of which a thread
\* evaluates.  Two ranges, any cut, stand for all of them.
EvalCompare(c, op, literal) ==
    \E n \in {BytesFor(Len(columns[c].data))} : \E cut \in 0 .. n :
        LET value == Narrow(c, literal)
            found == Kernel(c, op, value, 0, cut) \union Kernel(c, op, value, cut, n)
        IN  PushEntry(Entry(BytesOf(found, Len(columns[c].bitmap)),
                            {i \in Rows : RecordTest(c, op, literal, i)},
                            value = literal))

EvalNull(c, op) ==
    PushEntry(Entry(IF op = "IS_NULL" THEN NotBytes(columns[c].bitmap) ELSE columns[c].bitmap,
                    {i \in Rows : RecordTest(c, op, 0, i)}, TRUE))

Compare ==
    \/ \E op \in Orders, literal \in IntLiterals : EvalCompare("int", op, literal)
    \/ \E op \in Orders, literal \in StrLiterals : EvalCompare("str", op, literal)
    \/ \E op \in Likes, pattern \in Patterns : EvalCompare("str", op, pattern)
    \/ \E c \in Column, op \in {"IS_NULL", "IS_NOT_NULL"} : EvalNull(c, op)

Not ==
    /\ phase = "eval"
    /\ stack # <<>>
    /\ LET top == Last(stack)
       IN  stack' = Append(Front(stack), Entry(NotBytes(top.bytes), Rows \ top.truth, top.exact))
    /\ UNCHANGED <<phase, calls, file, columns, table_cached, result_cache, filtered, out, ret_rows>>

\* bitmap_and, bitmap_or
AndOr ==
    /\ phase = "eval"
    /\ Len(stack) = 2
    /\ LET l == stack[1]
           r == stack[2]
           exact == l.exact /\ r.exact
       IN  \/ stack' = <<Entry([b \in DOMAIN l.bytes |-> l.bytes[b] \intersect r.bytes[b]],
                               l.truth \intersect r.truth, exact)>>
           \/ stack' = <<Entry([b \in DOMAIN l.bytes |-> l.bytes[b] \union r.bytes[b]],
                               l.truth \union r.truth, exact)>>
    /\ UNCHANGED <<phase, calls, file, columns, table_cached, result_cache, filtered, out, ret_rows>>

EndEval ==
    /\ phase = "eval"
    /\ Len(stack) = 1
    /\ phase' = "copy"
    /\ UNCHANGED <<calls, file, columns, table_cached, result_cache, filtered, stack, out, ret_rows>>

-----------------------------------------------------------------------------
(* Copying the selected rows; from_csv as a whole. *)

\* The numbers of S in their order, as the loop over the rows meets them.
InOrder(S) ==
    CHOOSE s \in [1 .. Cardinality(S) -> S] : \A j, k \in DOMAIN s : j < k => s[j] < s[k]

\* The rows whose bit is set in results.
Selected ==
    LET bytes == IF filtered THEN stack[1].bytes
                 ELSE [b \in 1 .. BytesFor(Len(file)) |-> 0 .. (BitsPerByte - 1)]
    IN  InOrder(BitsOf(bytes) \intersect Rows)

\* from_inner_to_column: a task of the pool, whatever column it gets next
CopyColumn ==
    /\ phase = "copy"
    /\ \E c \in Column :
          /\ out[c] = None
          /\ out' = [out EXCEPT ![c] = [k \in DOMAIN Selected |->
                IF Selected[k] \in BitsOf(columns[c].bitmap) THEN columns[c].data[Selected[k] + 1]
                                                             ELSE Null]]
    /\ ret_rows' = Len(Selected)
    /\ UNCHANGED <<phase, calls, file, columns, table_cached, result_cache, filtered, stack>>

\* MUTANT: the result of a call with a filter is cached too.
ReturnCachesAny ==
    /\ phase = "copy"
    /\ \A c \in Column : out[c] # None
    /\ phase' = "returned"
    /\ result_cache' = out
    /\ UNCHANGED <<calls, file, columns, table_cached, filtered, stack, out, ret_rows>>

Return ==
    /\ phase = "copy"
    /\ \A c \in Column : out[c] # None
    /\ phase' = "returned"
    /\ result_cache' = IF filtered THEN result_cache ELSE out
    /\ UNCHANGED <<calls, file, columns, table_cached, filtered, stack, out, ret_rows>>

\* The lookups at the beginning of from_csv.
Call ==
    /\ phase \in {"idle", "returned"}
    /\ calls < MaxCalls
    /\ calls' = calls + 1
    /\ filtered' \in BOOLEAN
    /\ stack' = <<>>
    /\ IF ~filtered' /\ result_cache # None
       THEN phase' = "returned" /\ out' = result_cache /\ ret_rows' = Len(result_cache["int"])
       ELSE /\ phase' = IF table_cached THEN AfterTable(filtered') ELSE "parse"
            /\ out' = NoOutput
            /\ ret_rows' = 0
    /\ UNCHANGED <<file, columns, table_cached, result_cache>>

Done == calls = MaxCalls /\ phase \in {"idle", "returned"} /\ UNCHANGED vars

Next ==
    \/ Call
    \/ AddRecord \/ ParseError \/ EndParse
    \/ Compare \/ Not \/ AndOr \/ EndEval
    \/ CopyColumn \/ Return
    \/ Done

Spec == Init /\ [][Next]_vars

-----------------------------------------------------------------------------
(* Properties. *)

\* The bitmaps that are and-ed and or-ed have one size (asserted in
\* statement.cpp), that of the rows, in columns of either kind.
TypeOK ==
    /\ phase \in {"idle", "parse", "eval", "copy", "returned"}
    /\ \A c \in Column :
          /\ Len(columns[c].data) = Len(file)
          /\ Len(columns[c].bitmap) = BytesFor(Len(file))
    /\ \A k \in DOMAIN stack : Len(stack[k].bytes) = BytesFor(Len(file))
    /\ phase \in {"eval", "copy", "returned"} => table_cached

\* A statement evaluated on columns selects the rows of which it is true when
\* evaluated record by record: NULLs, negations and the padding of the bitmaps
\* included, however the pool cuts the bytes.
FilterAgrees ==
    \A k \in DOMAIN stack :
        stack[k].exact => BitsOf(stack[k].bytes) \intersect Rows = stack[k].truth

\* from_csv returns the records its filter selects, each with all of its values,
\* in the order of the file, from whichever cache.
ReturnsSelection ==
    phase = "returned" /\ (filtered => stack[1].exact) =>
        LET chosen == InOrder(IF filtered THEN stack[1].truth ELSE Rows)
        IN  /\ ret_rows = Len(chosen)
            /\ \A c \in Column : out[c] = [k \in DOMAIN chosen |-> file[chosen[k] + 1][c]]
=============================================================================
