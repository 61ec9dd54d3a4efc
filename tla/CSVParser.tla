------------------------------ MODULE CSVParser ------------------------------
(***************************************************************************)
(* The CSV parser of src/src/csv_parser.cpp, fed as Table::from_csv feeds  *)
(* it: the text arrives in buffers cut anywhere, execute keeps its place   *)
(* in flags between two of them, finish ends the last record.              *)
(*                                                                         *)
(* A text is a sequence of characters; the five with a meaning have names. *)
(* The texts are all short ones, well-formed or not, and those a writer    *)
(* makes of small tables.                                                  *)
(***************************************************************************)
EXTENDS Naturals, Sequences, SequencesExt

CONSTANTS
    Char,           \* the characters
    Escapes,        \* characters that may be escape_
    Texts,          \* BOUND: texts fed as they are
    Tables,         \* BOUND: tables written and read back
    None

Special == {"comma", "lf", "cr", "quote"}

\* A table has rows of one number of fields, at least one.
ASSUME ConstantsAssumption ==
    /\ Special \union Escapes \subseteq Char
    /\ None \notin Char
    /\ Escapes \intersect {"comma", "lf", "cr"} = {}
    /\ Texts \subseteq Seq(Char)
    /\ \A table \in Tables :
          /\ table \in Seq(Seq(Seq(Char))) /\ table # <<>>
          /\ \A r \in DOMAIN table : Len(table[r]) = Len(table[1]) /\ table[r] # <<>>

VARIABLES
    escape,         \* escape_
    trailing,       \* has_trailing_comma_
    text, pos,      \* the file, and how much of it has been read
    written,        \* the table the text was written from, or None
    parser          \* the parser's other members, what it delivered and returned

vars == <<escape, trailing, text, pos, written, parser>>

Start ==
    [current_field |-> <<>>, col_idx |-> 0, row_idx |-> 0, num_cols |-> 0,
     after_first_row |-> FALSE, quoted |-> FALSE,
     after_field_sep |-> FALSE, after_record_sep |-> FALSE,
     escaping |-> FALSE, newlining |-> FALSE,
     fields |-> <<>>,       \* calls of on_field
     skip |-> FALSE,        \* the next character has been consumed with this one
     error |-> "Ok", finished |-> FALSE]

-----------------------------------------------------------------------------
(* execute *)

PushBack(p, c) == [p EXCEPT !.current_field = Append(@, c)]

OnField(p) ==
    [p EXCEPT !.fields = Append(@, <<p.col_idx, p.row_idx, p.current_field>>),
              !.current_field = <<>>]

Separated(p, field_sep, record_sep) ==
    [p EXCEPT !.after_field_sep = field_sep, !.after_record_sep = record_sep]

\* MUTANT: the columns are not counted from 0 again.
EndRecordKeepsColumn(p, with_trailing) ==
    LET columns == IF with_trailing THEN p.col_idx ELSE p.col_idx + 1
        counted == IF p.after_first_row THEN p
                   ELSE [p EXCEPT !.after_first_row = TRUE, !.num_cols = columns]
        delivered == IF with_trailing THEN counted ELSE OnField(counted)
    IN  IF with_trailing /\ ~p.after_field_sep THEN [p EXCEPT !.error = "NoTrailingComma"]
        ELSE IF counted.num_cols # columns THEN [p EXCEPT !.error = "InconsistentColumns"]
        ELSE [delivered EXCEPT !.row_idx = @ + 1]

EndRecord(p, with_trailing) ==
    LET columns == IF with_trailing THEN p.col_idx ELSE p.col_idx + 1
        counted == IF p.after_first_row THEN p
                   ELSE [p EXCEPT !.after_first_row = TRUE, !.num_cols = columns]
        delivered == IF with_trailing THEN counted ELSE OnField(counted)
    IN  IF with_trailing /\ ~p.after_field_sep THEN [p EXCEPT !.error = "NoTrailingComma"]
        ELSE IF counted.num_cols # columns THEN [p EXCEPT !.error = "InconsistentColumns"]
        ELSE [delivered EXCEPT !.col_idx = 0, !.row_idx = @ + 1]

LineEnds == {"lf", "cr"}

\* One turn of the loop on c, with next the character behind it or None at the
\* end of the buffer.  A character that needs a next one leaves a flag and
\* returns, before the turn's end sets after_field_sep and after_record_sep.
Comma(p) ==
    IF p.quoted THEN Separated(PushBack(p, "comma"), FALSE, FALSE)
    ELSE Separated([OnField(p) EXCEPT !.col_idx = @ + 1], TRUE, FALSE)

\* MUTANT: the second character of a CRLF begins a record.
LineEndSingle(p, c, next) ==
    IF p.quoted THEN Separated(PushBack(p, c), FALSE, FALSE)
    ELSE IF c = "cr" /\ next = None THEN [p EXCEPT !.newlining = TRUE]
    ELSE Separated(EndRecord(p, trailing), FALSE, TRUE)

LineEnd(p, c, next) ==
    IF p.quoted THEN Separated(PushBack(p, c), FALSE, FALSE)
    ELSE IF c = "cr" /\ next = None THEN [p EXCEPT !.newlining = TRUE]
    ELSE Separated([EndRecord(p, trailing) EXCEPT !.skip = (c = "cr" /\ next = "lf")], FALSE, TRUE)

Quote(p, next) ==
    IF escape = "quote" /\ p.quoted
    THEN IF next = None THEN [p EXCEPT !.escaping = TRUE]
         ELSE IF next = "quote" THEN Separated([PushBack(p, next) EXCEPT !.skip = TRUE], FALSE, FALSE)
         ELSE Separated([p EXCEPT !.quoted = FALSE], FALSE, FALSE)
    ELSE Separated([p EXCEPT !.quoted = ~@], FALSE, FALSE)

Escape(p, next) ==
    IF ~p.quoted THEN Separated(PushBack(p, escape), FALSE, FALSE)
    ELSE IF next = None THEN [p EXCEPT !.escaping = TRUE]
    ELSE IF next \in {"quote", escape} THEN Separated([PushBack(p, next) EXCEPT !.skip = TRUE], FALSE, FALSE)
    ELSE Separated(PushBack(p, escape), FALSE, FALSE)

Turn(p, c, next) ==
    CASE p.error # "Ok" -> p
      [] p.error = "Ok" /\ p.skip -> [p EXCEPT !.skip = FALSE]
      [] OTHER -> CASE c = "comma" -> Comma(p)
                    [] c \in LineEnds -> LineEnd(p, c, next)
                    [] c = "quote" -> Quote(p, next)
                    [] c = escape /\ c # "quote" -> Escape(p, next)
                    [] OTHER -> Separated(PushBack(p, c), FALSE, FALSE)

\* The escape the last buffer ended in; first is the first character of this one.
ResumeEscape(p, first) ==
    LET q == [p EXCEPT !.escaping = FALSE]
    IN  IF ~p.escaping THEN p
        ELSE IF first = "quote" \/ (escape # "quote" /\ first = escape)
             THEN [PushBack(q, first) EXCEPT !.skip = TRUE]
        ELSE IF escape = "quote" THEN [q EXCEPT !.quoted = FALSE]
        ELSE PushBack(q, escape)

\* MUTANT: a CRLF cut in two ends two records.
ResumeNewlineBlind(p, first) ==
    IF ~p.newlining THEN p
    ELSE LET q == EndRecord(p, trailing)
         IN  IF q.error # "Ok" THEN q
             ELSE [q EXCEPT !.after_record_sep = TRUE, !.newlining = FALSE]

\* The line end the last buffer ended in; first is None if finish calls.
ResumeNewline(p, first) ==
    IF ~p.newlining THEN p
    ELSE LET q == EndRecord(p, trailing)
         IN  IF q.error # "Ok" THEN q
             ELSE [q EXCEPT !.after_record_sep = TRUE, !.newlining = FALSE, !.skip = (first = "lf")]

CharOrNone(s, i) == IF i \in DOMAIN s THEN s[i] ELSE None

Executed(p, buffer) ==
    LET first == CharOrNone(buffer, 1)
        begun == ResumeNewline(ResumeEscape(p, first), first)
        after[i \in 0 .. Len(buffer)] ==
            IF i = 0 THEN begun ELSE Turn(after[i - 1], buffer[i], CharOrNone(buffer, i + 1))
    IN  after[Len(buffer)]

Finished(p) ==
    LET q == [p EXCEPT !.finished = TRUE]
    IN  CASE q.quoted -> [q EXCEPT !.error = "QuoteNotClosed"]
          [] ~q.quoted /\ q.newlining -> Executed(q, <<>>)
          [] ~q.quoted /\ ~q.newlining /\ ~q.after_record_sep -> Executed(q, <<"lf">>)
          [] OTHER -> q

-----------------------------------------------------------------------------
(* TableParser (src/src/build_table.cpp): the records from_csv is given, of a *)
(* table with columns attributes.  An empty field is NULL; numbers stay text. *)

Converted(field) == IF field = <<>> THEN None ELSE field

\* TableParser::on_field: the row of the header is skipped, and a record is handed
\* on with the field of its last column.
OnTableField(t, call, columns, header) ==
    LET record == Append(t.last_record, Converted(call[3]))
    IN  IF header /\ call[2] = 0 THEN t
        ELSE IF call[1] + 1 = columns
        THEN [last_record |-> <<>>, records |-> Append(t.records, record)]
        ELSE [t EXCEPT !.last_record = record]

Records(calls, columns, header) ==
    LET t[i \in 0 .. Len(calls)] ==
            IF i = 0 THEN [last_record |-> <<>>, records |-> <<>>]
            ELSE OnTableField(t[i - 1], calls[i], columns, header)
    IN  t[Len(calls)].records

-----------------------------------------------------------------------------
(* Texts a writer makes of a table: every field in quotes or only those that  *)
(* need them, one kind of line end, the last one left out or not.             *)

NeedsQuotes(field) == ToSet(field) \intersect Special # {}

WriteField(field, quotes, esc) ==
    IF quotes \/ NeedsQuotes(field)
    THEN <<"quote">>
         \o FlattenSeq([i \in DOMAIN field |->
                IF field[i] \in {"quote", esc} THEN <<esc, field[i]>> ELSE <<field[i]>>])
         \o <<"quote">>
    ELSE field

WriteRow(row, quotes, esc, comma) ==
    FlattenSeq([c \in DOMAIN row |->
        WriteField(row[c], quotes, esc) \o (IF comma \/ c < Len(row) THEN <<"comma">> ELSE <<>>)])

Write(table, quotes, esc, comma, line_end, last) ==
    FlattenSeq([r \in DOMAIN table |->
        WriteRow(table[r], quotes, esc, comma) \o (IF last \/ r < Len(table) THEN line_end ELSE <<>>)])

-----------------------------------------------------------------------------
Init ==
    /\ escape \in Escapes
    /\ trailing \in BOOLEAN
    /\ pos = 0
    /\ parser = Start
    /\ \/ written = None /\ text \in Texts
       \/ \E table \in Tables, quotes, last \in BOOLEAN, line_end \in {<<"lf">>, <<"cr">>, <<"cr", "lf">>} :
             /\ written = table
             /\ text = Write(table, quotes, escape, trailing, line_end, last)
             /\ last \/ WriteRow(Last(table), quotes, escape, trailing) # <<>>

\* fread and execute; from_csv throws on an error
Execute ==
    /\ parser.error = "Ok"
    /\ \E n \in (pos + 1) .. Len(text) :
          /\ parser' = Executed(parser, SubSeq(text, pos + 1, n))
          /\ pos' = n
    /\ UNCHANGED <<escape, trailing, text, written>>

\* fread has nothing more to give
Finish ==
    /\ parser.error = "Ok"
    /\ ~parser.finished
    /\ pos = Len(text)
    /\ parser' = Finished(parser)
    /\ UNCHANGED <<escape, trailing, text, pos, written>>

Done == (parser.finished \/ parser.error # "Ok") /\ UNCHANGED vars

Next == Execute \/ Finish \/ Done

Spec == Init /\ [][Next]_vars

-----------------------------------------------------------------------------
(* Properties. *)

\* Between two buffers at most one thing is pending, an escape within quotes or
\* a line end outside of them; a record that has ended leaves nothing behind.
TypeOK ==
    /\ pos \in 0 .. Len(text)
    /\ parser.error \in {"Ok", "QuoteNotClosed", "InconsistentColumns", "NoTrailingComma"}
    /\ parser.escaping => parser.quoted
    /\ parser.newlining => ~parser.quoted
    /\ parser.error = "Ok" => ~parser.skip
    /\ parser.error = "Ok" /\ parser.after_record_sep =>
          parser.col_idx = 0 /\ parser.current_field = <<>>

\* Wherever the buffers cut the text, well-formed or not, the parser accepts and
\* refuses the same texts as in one buffer and delivers the same fields.
ChunkingInvisible ==
    parser.finished =>
        LET whole == Finished(Executed(Start, text))
        IN  /\ (parser.error = "Ok") = (whole.error = "Ok")
            /\ parser.error = "Ok" => parser.fields = whole.fields

\* A table that has been written is read back, field by field, and TableParser
\* makes its rows of them, without the first one if that is a header.  With the
\* quote itself as escape_ (from_csv does not use it) a quote that ends the file
\* stays pending, and finish takes the field for an open one.
ReadsWhatWasWritten ==
    written # None /\ ~(escape = "quote" /\ text # <<>> /\ Last(text) = "quote") =>
        /\ parser.error = "Ok"
        /\ parser.finished =>
              /\ parser.fields = FlattenSeq([r \in DOMAIN written |->
                                    [c \in DOMAIN written[r] |-> <<c - 1, r - 1, written[r][c]>>]])
              /\ \A header \in BOOLEAN :
                    LET rows == IF header THEN Tail(written) ELSE written
                    IN  Records(parser.fields, Len(written[1]), header) =
                            [r \in DOMAIN rows |-> [c \in DOMAIN rows[r] |-> Converted(rows[r][c])]]
==============================================================================
