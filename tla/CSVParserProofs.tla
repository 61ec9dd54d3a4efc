--------------------------- MODULE CSVParserProofs ---------------------------
(***************************************************************************)
(* Proofs about CSVParser, for texts, tables and buffers of every size.    *)
(*                                                                         *)
(* The parser is compared with the run of Turn on the whole text, which    *)
(* sees every character with the one behind it.  A parser that has read n  *)
(* characters in buffers is where the run is, but for what the last buffer *)
(* has cut off (Cut) and for a flag no turn depends on (Like).  On a text  *)
(* that has been written of a table the run is followed field by field and *)
(* row by row, and TableParser through the calls it makes.                 *)
(***************************************************************************)
EXTENDS CSVParser, CommonLemmas

Errors == {"Ok", "QuoteNotClosed", "InconsistentColumns", "NoTrailingComma"}

Parser ==
    [current_field : Seq(Char), col_idx : Nat, row_idx : Nat, num_cols : Nat,
     after_first_row : BOOLEAN, quoted : BOOLEAN,
     after_field_sep : BOOLEAN, after_record_sep : BOOLEAN,
     escaping : BOOLEAN, newlining : BOOLEAN,
     fields : Seq(Nat \X Nat \X Seq(Char)),
     skip : BOOLEAN, error : Errors, finished : BOOLEAN]

\* What holds of a parser that has not met an error.
Sound(p) ==
    /\ p.quoted => ~p.after_field_sep /\ ~p.after_record_sep
    /\ p.after_record_sep => p.col_idx = 0 /\ p.current_field = <<>>
    /\ trailing /\ p.after_first_row => p.num_cols > 0
    /\ p.after_field_sep => p.current_field = <<>> /\ (p.col_idx > 0 \/ p.after_first_row)

\* A parser that no character waits in, and that has not met an error unless it
\* stays with that.
Settled(p) ==
    /\ p \in Parser
    /\ ~p.finished
    /\ p.escaping => p.quoted
    /\ p.newlining => ~p.quoted
    /\ p.error = "Ok" => Sound(p) /\ ~p.escaping /\ ~p.newlining

\* Parser x, fed in buffers, is as good as y, fed at once: after a line end that
\* was cut off it may take a separator that ended the last field for the last
\* thing it saw.
Like(x, y) ==
    IF y.error # "Ok" THEN x.error # "Ok"
    ELSE \/ x = y
         \/ /\ x = [y EXCEPT !.after_field_sep = TRUE]
            /\ ~y.after_field_sep /\ y.after_record_sep /\ y.after_first_row

Facts == escape \in Char /\ escape \notin {"comma", "lf", "cr"} /\ trailing \in BOOLEAN

-----------------------------------------------------------------------------
(* The operations of the parser. *)

\* Types of what the operations make of a parser.
LEMMA Types ==
    ASSUME NEW p \in Parser
    PROVE  /\ \A c \in Char : PushBack(p, c) \in Parser
           /\ OnField(p) \in Parser
           /\ \A f, r \in BOOLEAN : Separated(p, f, r) \in Parser
<1>1. ASSUME NEW c \in Char PROVE PushBack(p, c) \in Parser
  <2>1. Append(p.current_field, c) \in Seq(Char)
    BY DEF Parser
  <2> QED
    BY <2>1 DEF PushBack, Parser
<1>2. OnField(p) \in Parser
  <2> DEFINE f == Append(p.fields, <<p.col_idx, p.row_idx, p.current_field>>)
  <2>1. <<p.col_idx, p.row_idx, p.current_field>> \in Nat \X Nat \X Seq(Char)
    BY DEF Parser
  <2>2. f \in Seq(Nat \X Nat \X Seq(Char)) /\ <<>> \in Seq(Char)
    BY <2>1 DEF Parser
  <2>3. OnField(p) = [p EXCEPT !.fields = f, !.current_field = <<>>]
    BY DEF OnField
  <2> HIDE DEF f
  <2> QED
    BY <2>2, <2>3 DEF Parser
<1>3. ASSUME NEW f \in BOOLEAN, NEW r \in BOOLEAN PROVE Separated(p, f, r) \in Parser
  BY DEF Separated, Parser
<1> QED
  BY <1>1, <1>2, <1>3

\* The fields EndRecord sets keep their types.
LEMMA NextRow ==
    ASSUME NEW p \in Parser, NEW r \in Nat
    PROVE  [p EXCEPT !.col_idx = 0, !.row_idx = r] \in Parser
BY DEF Parser

\* A record that ends well is counted and leaves the parser at the first column.
LEMMA RecordEnds ==
    ASSUME NEW p \in Parser, NEW t \in BOOLEAN, p.error = "Ok", NEW q, q = EndRecord(p, t)
    PROVE  /\ q \in Parser
           /\ q.skip = p.skip /\ q.quoted = p.quoted /\ q.finished = p.finished
           /\ q.newlining = p.newlining /\ q.escaping = p.escaping
           /\ q.error = "Ok" =>
                 /\ q.after_field_sep = p.after_field_sep
                 /\ q.after_record_sep = p.after_record_sep
                 /\ q.col_idx = 0 /\ q.after_first_row
                 /\ t => p.after_field_sep /\ q.num_cols = p.col_idx /\ q.current_field = p.current_field
                 /\ ~t => q.current_field = <<>>
                 /\ q.num_cols = IF p.after_first_row THEN p.num_cols
                                 ELSE IF t THEN p.col_idx ELSE p.col_idx + 1
<1> DEFINE columns == IF t THEN p.col_idx ELSE p.col_idx + 1
           counted == IF p.after_first_row THEN p
                      ELSE [p EXCEPT !.after_first_row = TRUE, !.num_cols = columns]
           delivered == IF t THEN counted ELSE OnField(counted)
<1>1. columns \in Nat
  BY DEF Parser
<1>2. /\ counted \in Parser /\ counted.after_first_row
      /\ counted.num_cols = IF p.after_first_row THEN p.num_cols ELSE columns
      /\ counted.skip = p.skip /\ counted.quoted = p.quoted /\ counted.finished = p.finished
      /\ counted.newlining = p.newlining /\ counted.escaping = p.escaping
      /\ counted.after_field_sep = p.after_field_sep /\ counted.after_record_sep = p.after_record_sep
      /\ counted.error = "Ok" /\ counted.row_idx \in Nat /\ counted.current_field = p.current_field
  BY <1>1 DEF Parser
<1>3. q = IF t /\ ~p.after_field_sep THEN [p EXCEPT !.error = "NoTrailingComma"]
          ELSE IF counted.num_cols # columns THEN [p EXCEPT !.error = "InconsistentColumns"]
          ELSE [delivered EXCEPT !.col_idx = 0, !.row_idx = @ + 1]
  BY DEF EndRecord
<1> HIDE DEF counted
<1>4. OnField(counted) \in Parser
  BY <1>2, Types
<1>5. /\ delivered \in Parser /\ delivered.after_first_row
      /\ delivered.num_cols = counted.num_cols
      /\ delivered.skip = p.skip /\ delivered.quoted = p.quoted /\ delivered.finished = p.finished
      /\ delivered.newlining = p.newlining /\ delivered.escaping = p.escaping
      /\ delivered.after_field_sep = p.after_field_sep /\ delivered.after_record_sep = p.after_record_sep
      /\ delivered.error = "Ok" /\ delivered.row_idx + 1 \in Nat
      /\ delivered.current_field = IF t THEN p.current_field ELSE <<>>
  <2>1. CASE t
    BY <2>1, <1>2
  <2>2. CASE ~t
    <3>1. delivered \in Parser
      BY <2>2, <1>4
    <3>2. delivered = [counted EXCEPT !.fields = Append(@, <<counted.col_idx, counted.row_idx, counted.current_field>>),
                                      !.current_field = <<>>]
      BY <2>2 DEF OnField
    <3> HIDE DEF delivered
    <3> QED
      BY <1>2, <2>2, <3>1, <3>2 DEF Parser
  <2> QED
    BY <2>1, <2>2
<1> HIDE DEF delivered
<1>6. CASE t /\ ~p.after_field_sep
  BY <1>3, <1>6 DEF Parser, Errors
<1>7. CASE ~(t /\ ~p.after_field_sep) /\ counted.num_cols # columns
  BY <1>3, <1>7 DEF Parser, Errors
<1>8. CASE ~(t /\ ~p.after_field_sep) /\ counted.num_cols = columns
  <2>1. q = [delivered EXCEPT !.col_idx = 0, !.row_idx = delivered.row_idx + 1]
    BY <1>3, <1>8
  <2>2. q.error = "Ok" /\ q.num_cols = columns
    BY <2>1, <1>5, <1>8 DEF Parser
  <2>3. q \in Parser
    <3> DEFINE r == delivered.row_idx + 1
    <3>1. delivered \in Parser /\ r \in Nat /\ q = [delivered EXCEPT !.col_idx = 0, !.row_idx = r]
      BY <2>1, <1>5
    <3> HIDE DEF r
    <3> QED
      BY ONLY <3>1, NextRow
  <2>4. t => p.after_field_sep
    BY <1>8
  <2> HIDE DEF columns
  <2>5. columns = IF p.after_first_row THEN p.num_cols ELSE columns
    BY <1>2, <1>8
  <2>6. /\ q.skip = p.skip /\ q.quoted = p.quoted /\ q.finished = p.finished
        /\ q.newlining = p.newlining /\ q.escaping = p.escaping
        /\ q.after_field_sep = p.after_field_sep /\ q.after_record_sep = p.after_record_sep
        /\ q.col_idx = 0 /\ q.after_first_row
        /\ q.current_field = IF t THEN p.current_field ELSE <<>>
    <3>1. /\ q.skip = delivered.skip /\ q.quoted = delivered.quoted /\ q.finished = delivered.finished
          /\ q.newlining = delivered.newlining /\ q.escaping = delivered.escaping
      BY <2>1, <1>5 DEF Parser
    <3>2. /\ q.after_field_sep = delivered.after_field_sep
          /\ q.after_record_sep = delivered.after_record_sep
          /\ q.after_first_row = delivered.after_first_row
          /\ q.current_field = delivered.current_field
      BY <2>1, <1>5 DEF Parser
    <3>3. q.col_idx = 0
      BY <2>1, <1>5 DEF Parser
    <3> QED
      BY <3>1, <3>2, <3>3, <1>5
  <2> QED
    BY <2>2, <2>3, <2>4, <2>5, <2>6 DEF columns
<1> QED
  BY <1>6, <1>7, <1>8

\* The turn of the loop, by the character.
LEMMA TurnIs ==
    ASSUME Facts, NEW p, NEW c, NEW n
    PROVE  Turn(p, c, n) =
              IF p.error # "Ok" THEN p
              ELSE IF p.skip THEN [p EXCEPT !.skip = FALSE]
              ELSE IF c = "comma" THEN Comma(p)
              ELSE IF c \in LineEnds THEN LineEnd(p, c, n)
              ELSE IF c = "quote" THEN Quote(p, n)
              ELSE IF c = escape THEN Escape(p, n)
              ELSE Separated(PushBack(p, c), FALSE, FALSE)
<1>1. CASE p.error # "Ok"
  BY <1>1 DEF Turn
<1>2. CASE p.error = "Ok" /\ p.skip
  BY <1>2 DEF Turn
<1>3. CASE p.error = "Ok" /\ ~p.skip
  <2>1. Turn(p, c, n) = CASE c = "comma" -> Comma(p)
                          [] c \in LineEnds -> LineEnd(p, c, n)
                          [] c = "quote" -> Quote(p, n)
                          [] c = escape /\ c # "quote" -> Escape(p, n)
                          [] OTHER -> Separated(PushBack(p, c), FALSE, FALSE)
    BY <1>3 DEF Turn
  <2> QED
    BY <1>3, <2>1 DEF Facts, LineEnds
<1> QED
  BY <1>1, <1>2, <1>3

\* Where a parser is after a turn on a character with n behind it.
Turned(q, n) ==
    /\ q \in Parser
    /\ ~q.finished
    /\ q.escaping => q.quoted
    /\ q.newlining => ~q.quoted
    /\ q.error = "Ok" => /\ Sound(q)
                         /\ n # None => ~q.escaping /\ ~q.newlining
                         /\ n = None => ~q.skip

\* A separated state is sound, after a comma,
LEMMA CommaTurns ==
    ASSUME Facts, NEW p, Settled(p), p.error = "Ok", ~p.skip, NEW n
    PROVE  Turned(Comma(p), n)
<1>1. p \in Parser /\ Sound(p) /\ ~p.escaping /\ ~p.newlining /\ ~p.finished
  BY DEF Settled
<1>2. "comma" \in Char
  BY ConstantsAssumption DEF Special
<1>3. CASE p.quoted
  <2> DEFINE r == PushBack(p, "comma")
  <2>1. r \in Parser
    BY <1>1, <1>2, Types
  <2>2. /\ r.error = "Ok" /\ r.quoted /\ r.skip = p.skip /\ ~r.escaping /\ ~r.newlining
        /\ ~r.finished /\ r.num_cols = p.num_cols /\ r.after_first_row = p.after_first_row
    BY <1>1, <1>3 DEF PushBack, Parser
  <2>3. Comma(p) = Separated(r, FALSE, FALSE)
    BY <1>3 DEF Comma
  <2> HIDE DEF r
  <2>4. Separated(r, FALSE, FALSE) \in Parser
    BY <2>1, Types
  <2> QED
    BY <1>1, <2>1, <2>2, <2>3, <2>4 DEF Turned, Sound, Separated, Parser
<1>4. CASE ~p.quoted
  <2> DEFINE f == OnField(p)
             r == [f EXCEPT !.col_idx = f.col_idx + 1]
  <2>1. f \in Parser
    BY <1>1, Types
  <2>2. /\ f.error = "Ok" /\ ~f.quoted /\ f.skip = p.skip /\ ~f.escaping /\ ~f.newlining
        /\ ~f.finished /\ f.num_cols = p.num_cols /\ f.after_first_row = p.after_first_row
        /\ f.current_field = <<>>
    BY <1>1, <1>4 DEF OnField, Parser
  <2>3. Comma(p) = Separated(r, TRUE, FALSE)
    BY <1>4 DEF Comma
  <2> HIDE DEF f
  <2>4. f.col_idx + 1 \in Nat /\ f.col_idx + 1 > 0
    BY <2>1 DEF Parser
  <2>5. r \in Parser
    BY <2>1, <2>4 DEF Parser
  <2>6. /\ r.error = "Ok" /\ ~r.quoted /\ r.skip = p.skip /\ ~r.escaping /\ ~r.newlining
        /\ ~r.finished /\ r.num_cols = p.num_cols /\ r.after_first_row = p.after_first_row
        /\ r.current_field = <<>> /\ r.col_idx > 0
    BY <2>1, <2>2, <2>4 DEF Parser
  <2> HIDE DEF r
  <2>7. Separated(r, TRUE, FALSE) \in Parser
    BY <2>5, Types
  <2> QED
    BY <1>1, <2>3, <2>5, <2>6, <2>7 DEF Turned, Sound, Separated, Parser
<1> QED
  BY <1>3, <1>4

\* after a character that is part of a field,
LEMMA PushTurns ==
    ASSUME Facts, NEW p, Settled(p), p.error = "Ok", ~p.skip, NEW n, NEW c \in Char,
           NEW s \in BOOLEAN, s => n # None,
           NEW q, q = Separated([PushBack(p, c) EXCEPT !.skip = s], FALSE, FALSE)
    PROVE  Turned(q, n)
<1>1. p \in Parser /\ Sound(p) /\ ~p.escaping /\ ~p.newlining /\ ~p.finished
  BY DEF Settled
<1> DEFINE f == PushBack(p, c)
           r == [f EXCEPT !.skip = s]
<1>2. f \in Parser
  BY <1>1, Types
<1>3. /\ f.error = "Ok" /\ f.quoted = p.quoted /\ ~f.escaping /\ ~f.newlining
      /\ ~f.finished /\ f.num_cols = p.num_cols /\ f.after_first_row = p.after_first_row
  BY <1>1 DEF PushBack, Parser
<1> HIDE DEF f
<1>4. /\ r \in Parser
      /\ r.error = "Ok" /\ r.quoted = p.quoted /\ ~r.escaping /\ ~r.newlining
      /\ ~r.finished /\ r.num_cols = p.num_cols /\ r.after_first_row = p.after_first_row
      /\ r.skip = s
  BY <1>2, <1>3 DEF Parser
<1>5. q = Separated(r, FALSE, FALSE)
  BY DEF f
<1> HIDE DEF r
<1>6. q \in Parser
  BY <1>4, <1>5, Types
<1>7. /\ q.error = "Ok" /\ q.quoted = p.quoted /\ ~q.escaping /\ ~q.newlining
      /\ ~q.finished /\ q.num_cols = p.num_cols /\ q.after_first_row = p.after_first_row
      /\ q.skip = s /\ ~q.after_field_sep /\ ~q.after_record_sep
  BY <1>4, <1>5 DEF Separated, Parser
<1> QED
  BY <1>1, <1>6, <1>7 DEF Turned, Sound

\* also one with nothing special about it,
LEMMA PlainTurns ==
    ASSUME Facts, NEW p, Settled(p), p.error = "Ok", ~p.skip, NEW n, NEW c \in Char
    PROVE  Turned(Separated(PushBack(p, c), FALSE, FALSE), n)
<1> DEFINE f == PushBack(p, c)
<1>1. p \in Parser
  BY DEF Settled
<1>2. f \in Parser /\ f.skip = FALSE
  BY <1>1, Types DEF PushBack, Parser
<1>3. [f EXCEPT !.skip = FALSE] = f
  BY <1>2 DEF Parser
<1> QED
  BY <1>3, PushTurns

\* after a line end,
LEMMA RecordTurns ==
    ASSUME Facts, NEW p, Settled(p), p.error = "Ok", ~p.quoted, NEW n,
           NEW s \in BOOLEAN, s => n # None,
           NEW q, q = Separated([EndRecord(p, trailing) EXCEPT !.skip = s], FALSE, TRUE)
    PROVE  Turned(q, n)
<1>1. p \in Parser /\ Sound(p) /\ ~p.escaping /\ ~p.newlining /\ ~p.finished /\ trailing \in BOOLEAN
  BY DEF Settled, Facts
<1> DEFINE e == EndRecord(p, trailing)
           r == [e EXCEPT !.skip = s]
<1>2. /\ e \in Parser
      /\ e.quoted = p.quoted /\ e.finished = p.finished
      /\ e.newlining = p.newlining /\ e.escaping = p.escaping
      /\ e.error = "Ok" =>
            /\ e.col_idx = 0
            /\ trailing => p.after_field_sep /\ e.num_cols = p.col_idx /\ e.current_field = p.current_field
            /\ ~trailing => e.current_field = <<>>
            /\ e.num_cols = IF p.after_first_row THEN p.num_cols
                            ELSE IF trailing THEN p.col_idx ELSE p.col_idx + 1
  BY <1>1, RecordEnds
<1>3. e.error = "Ok" => e.col_idx = 0 /\ e.current_field = <<>> /\ (trailing => e.num_cols > 0)
  BY <1>1, <1>2 DEF Sound, Parser
<1> HIDE DEF e
<1>4. /\ r \in Parser /\ r.error = e.error
      /\ ~r.quoted /\ ~r.finished /\ ~r.newlining /\ ~r.escaping /\ r.skip = s
      /\ r.col_idx = e.col_idx /\ r.current_field = e.current_field /\ r.num_cols = e.num_cols
  BY <1>1, <1>2 DEF Parser
<1>5. q = Separated(r, FALSE, TRUE)
  BY DEF e
<1> HIDE DEF r
<1>6. q \in Parser
  BY <1>4, <1>5, Types
<1>7. /\ q.error = e.error
      /\ ~q.quoted /\ ~q.finished /\ ~q.newlining /\ ~q.escaping /\ q.skip = s
      /\ q.col_idx = e.col_idx /\ q.current_field = e.current_field /\ q.num_cols = e.num_cols
      /\ ~q.after_field_sep
  BY <1>4, <1>5 DEF Separated, Parser
<1> QED
  BY <1>3, <1>6, <1>7 DEF Turned, Sound

\* in and outside of quotes,
LEMMA LineEndTurns ==
    ASSUME Facts, NEW p, Settled(p), p.error = "Ok", ~p.skip, NEW n, NEW c \in LineEnds
    PROVE  Turned(LineEnd(p, c, n), n)
<1>1. p \in Parser /\ Sound(p) /\ ~p.escaping /\ ~p.newlining /\ ~p.finished
  BY DEF Settled
<1>2. c \in Char /\ "lf" \in Char
  BY ConstantsAssumption DEF Special, LineEnds
<1>3. CASE p.quoted
  BY <1>2, <1>3, PlainTurns DEF LineEnd
<1>4. CASE ~p.quoted /\ c = "cr" /\ n = None
  <2>1. LineEnd(p, c, n) = [p EXCEPT !.newlining = TRUE]
    BY <1>4 DEF LineEnd
  <2> DEFINE q == [p EXCEPT !.newlining = TRUE]
  <2>2. /\ q \in Parser /\ q.error = "Ok" /\ ~q.quoted /\ ~q.finished /\ q.newlining /\ ~q.escaping
        /\ ~q.skip /\ q.col_idx = p.col_idx /\ q.current_field = p.current_field
        /\ q.num_cols = p.num_cols /\ q.after_first_row = p.after_first_row
        /\ q.after_field_sep = p.after_field_sep /\ q.after_record_sep = p.after_record_sep
    BY <1>1, <1>4 DEF Parser
  <2> HIDE DEF q
  <2>3. Turned(q, n)
    BY <1>1, <1>4, <2>2 DEF Turned, Sound
  <2> QED
    BY <2>1, <2>3 DEF q
<1>5. CASE ~p.quoted /\ ~(c = "cr" /\ n = None)
  <2> DEFINE s == c = "cr" /\ n = "lf"
  <2>1. LineEnd(p, c, n) = Separated([EndRecord(p, trailing) EXCEPT !.skip = s], FALSE, TRUE)
    BY <1>5 DEF LineEnd
  <2>2. s \in BOOLEAN /\ (s => n # None)
    BY <1>2, ConstantsAssumption
  <2> QED
    BY <1>5, <2>1, <2>2, RecordTurns
<1> QED
  BY <1>3, <1>4, <1>5

\* after a quote,
LEMMA FlagTurns ==
    ASSUME Facts, NEW p, Settled(p), p.error = "Ok", ~p.skip, NEW n
    PROVE  /\ p.quoted /\ n = None => Turned([p EXCEPT !.escaping = TRUE], n)
           /\ \A b \in BOOLEAN : Turned(Separated([p EXCEPT !.quoted = b], FALSE, FALSE), n)
<1>1. p \in Parser /\ Sound(p) /\ ~p.escaping /\ ~p.newlining /\ ~p.finished
  BY DEF Settled
<1>2. ASSUME p.quoted, n = None PROVE Turned([p EXCEPT !.escaping = TRUE], n)
  <2> DEFINE q == [p EXCEPT !.escaping = TRUE]
  <2>1. /\ q \in Parser /\ q.error = "Ok" /\ q.quoted /\ ~q.finished /\ ~q.newlining
        /\ ~q.skip /\ q.col_idx = p.col_idx /\ q.current_field = p.current_field
        /\ q.num_cols = p.num_cols /\ q.after_first_row = p.after_first_row
        /\ q.after_field_sep = p.after_field_sep /\ q.after_record_sep = p.after_record_sep
    BY <1>1, <1>2 DEF Parser
  <2> HIDE DEF q
  <2>2. Turned(q, n)
    BY <1>1, <1>2, <2>1 DEF Turned, Sound
  <2> QED
    BY <2>2 DEF q
<1>3. ASSUME NEW b \in BOOLEAN PROVE Turned(Separated([p EXCEPT !.quoted = b], FALSE, FALSE), n)
  <2> DEFINE r == [p EXCEPT !.quoted = b]
             q == Separated(r, FALSE, FALSE)
  <2>1. /\ r \in Parser /\ r.error = "Ok" /\ ~r.finished /\ ~r.newlining /\ ~r.escaping
        /\ ~r.skip /\ r.num_cols = p.num_cols /\ r.after_first_row = p.after_first_row
    BY <1>1 DEF Parser
  <2> HIDE DEF r
  <2>2. q \in Parser
    BY <2>1, Types
  <2>3. /\ q.error = "Ok" /\ ~q.finished /\ ~q.newlining /\ ~q.escaping
        /\ ~q.skip /\ q.num_cols = p.num_cols /\ q.after_first_row = p.after_first_row
        /\ ~q.after_field_sep /\ ~q.after_record_sep
    BY <2>1 DEF Separated, Parser
  <2> HIDE DEF q
  <2>4. Turned(q, n)
    BY <1>1, <2>2, <2>3 DEF Turned, Sound
  <2> QED
    BY <2>4 DEF q, r
<1> QED
  BY <1>2, <1>3

\* whatever it means,
LEMMA QuoteTurns ==
    ASSUME Facts, NEW p, Settled(p), p.error = "Ok", ~p.skip, NEW n \in Char \union {None}
    PROVE  Turned(Quote(p, n), n)
<1>1. p \in Parser /\ "quote" \in Char /\ (n = "quote" => n # None)
  BY ConstantsAssumption DEF Settled, Special
<1>2. (~p.quoted) \in BOOLEAN
  OBVIOUS
<1>3. CASE escape = "quote" /\ p.quoted /\ n = None
  BY <1>3, FlagTurns DEF Quote
<1>4. CASE escape = "quote" /\ p.quoted /\ n = "quote"
  <2>1. Quote(p, n) = Separated([PushBack(p, n) EXCEPT !.skip = TRUE], FALSE, FALSE)
    BY <1>1, <1>4 DEF Quote
  <2> QED
    BY <1>1, <1>4, <2>1, PushTurns
<1>5. CASE escape = "quote" /\ p.quoted /\ n \notin {None, "quote"}
  <2>1. Quote(p, n) = Separated([p EXCEPT !.quoted = FALSE], FALSE, FALSE)
    BY <1>5 DEF Quote
  <2> QED
    BY <2>1, FlagTurns
<1>6. CASE ~(escape = "quote" /\ p.quoted)
  <2>1. Quote(p, n) = Separated([p EXCEPT !.quoted = ~p.quoted], FALSE, FALSE)
    BY <1>6 DEF Quote
  <2> QED
    BY <1>2, <2>1, FlagTurns
<1> QED
  BY <1>3, <1>4, <1>5, <1>6

\* and after an escape.
LEMMA EscapeTurns ==
    ASSUME Facts, NEW p, Settled(p), p.error = "Ok", ~p.skip, NEW n \in Char \union {None}
    PROVE  Turned(Escape(p, n), n)
<1>1. escape \in Char
  BY DEF Facts
<1>2. CASE ~p.quoted \/ n \notin {None, "quote", escape}
  <2>1. Escape(p, n) = Separated(PushBack(p, escape), FALSE, FALSE)
    BY <1>2 DEF Escape
  <2> QED
    BY <1>1, <2>1, PlainTurns
<1>3. CASE p.quoted /\ n = None
  BY <1>3, FlagTurns DEF Escape
<1>4. CASE p.quoted /\ n \in {"quote", escape} /\ n # None
  <2>1. Escape(p, n) = Separated([PushBack(p, n) EXCEPT !.skip = TRUE], FALSE, FALSE)
    BY <1>4 DEF Escape
  <2>2. n \in Char
    BY <1>4
  <2> QED
    BY <1>4, <2>1, <2>2, PushTurns
<1> QED
  BY <1>2, <1>3, <1>4

\* A turn leads from a settled parser to a settled one if a character follows,
\* and to one that nothing but a last character waits in if none does.
LEMMA TurnTurns ==
    ASSUME Facts, NEW p, Settled(p), NEW c \in Char, NEW n \in Char \union {None}
    PROVE  Turned(Turn(p, c, n), n)
<1>1. p \in Parser
  BY DEF Settled
<1>2. CASE p.error # "Ok"
  BY <1>2, TurnIs DEF Settled, Turned
<1>3. CASE p.error = "Ok" /\ p.skip
  <2> DEFINE q == [p EXCEPT !.skip = FALSE]
  <2>1. Turn(p, c, n) = q
    BY <1>3, TurnIs
  <2>2. /\ q \in Parser /\ q.error = "Ok" /\ q.finished = p.finished
        /\ q.newlining = p.newlining /\ q.escaping = p.escaping /\ q.quoted = p.quoted
        /\ ~q.skip /\ q.col_idx = p.col_idx /\ q.current_field = p.current_field
        /\ q.num_cols = p.num_cols /\ q.after_first_row = p.after_first_row
        /\ q.after_field_sep = p.after_field_sep /\ q.after_record_sep = p.after_record_sep
    BY <1>1, <1>3 DEF Parser
  <2> HIDE DEF q
  <2> QED
    BY <1>3, <2>1, <2>2 DEF Turned, Settled, Sound
<1>4. CASE p.error = "Ok" /\ ~p.skip
  <2>1. Turn(p, c, n) = IF c = "comma" THEN Comma(p)
                        ELSE IF c \in LineEnds THEN LineEnd(p, c, n)
                        ELSE IF c = "quote" THEN Quote(p, n)
                        ELSE IF c = escape THEN Escape(p, n)
                        ELSE Separated(PushBack(p, c), FALSE, FALSE)
    BY <1>4, TurnIs
  <2>2. CASE c = "comma"
    BY <1>4, <2>1, <2>2, CommaTurns
  <2>3. CASE c \in LineEnds
    BY <1>4, <2>1, <2>3, LineEndTurns DEF LineEnds
  <2>4. CASE c = "quote"
    BY <1>4, <2>1, <2>4, QuoteTurns DEF LineEnds
  <2>5. CASE c = escape /\ c # "quote"
    BY <1>4, <2>1, <2>5, EscapeTurns DEF LineEnds, Facts
  <2>6. CASE c \notin LineEnds \union {"comma", "quote", escape}
    BY <1>4, <2>1, <2>6, PlainTurns
  <2> QED
    BY <2>2, <2>3, <2>4, <2>5, <2>6
<1> QED
  BY <1>2, <1>3, <1>4

-----------------------------------------------------------------------------
(* A text in two buffers. *)

\* A record that x ends ends for y, which x is like; if it does not end well for
\* one it does not for the other.
LEMMA RecordsEndLike ==
    ASSUME Facts, NEW x \in Parser, NEW y \in Parser, Sound(y), Like(x, y), y.error = "Ok"
    PROVE  LET a == EndRecord(x, trailing)
               b == EndRecord(y, trailing)
           IN  /\ a.error # "Ok" <=> b.error # "Ok"
               /\ b.error = "Ok" => a = b \/ a = [b EXCEPT !.after_field_sep = TRUE]
<1> DEFINE a == EndRecord(x, trailing)
           b == EndRecord(y, trailing)
<1>1. CASE x = y
  BY <1>1
<1>2. CASE x = [y EXCEPT !.after_field_sep = TRUE] /\ ~y.after_field_sep /\ y.after_record_sep /\ y.after_first_row
  <2>1. /\ x \in Parser /\ y \in Parser /\ Sound(y) /\ trailing \in BOOLEAN
        /\ y.col_idx = 0
    BY <1>2 DEF Facts, Sound
  <2>2. /\ x.error = "Ok" /\ x.after_field_sep /\ x.after_first_row
        /\ x.col_idx = y.col_idx /\ x.num_cols = y.num_cols /\ x.fields = y.fields
        /\ x.row_idx = y.row_idx /\ x.current_field = y.current_field
    BY <1>2, <2>1 DEF Parser
  <2>3. CASE trailing
    <3>1. b = [y EXCEPT !.error = "NoTrailingComma"]
      BY <1>2, <2>3 DEF EndRecord
    <3>2. x.num_cols > 0 /\ x.num_cols # x.col_idx
      BY <1>2, <2>1, <2>2, <2>3 DEF Sound, Parser
    <3>3. a = [x EXCEPT !.error = "InconsistentColumns"]
      BY <2>2, <2>3, <3>2 DEF EndRecord
    <3>4. a.error # "Ok" /\ b.error # "Ok"
      BY <3>1, <3>3, <2>1 DEF Parser
    <3> QED
      BY <3>4
  <2>4. CASE ~trailing
    <3>1. CASE y.num_cols # y.col_idx + 1
      <4>1. /\ a = [x EXCEPT !.error = "InconsistentColumns"]
            /\ b = [y EXCEPT !.error = "InconsistentColumns"]
        BY <1>2, <2>2, <2>4, <3>1 DEF EndRecord
      <4>2. a.error # "Ok" /\ b.error # "Ok"
        BY <4>1, <2>1 DEF Parser
      <4> QED
        BY <4>2
    <3>2. CASE y.num_cols = y.col_idx + 1
      <4>1. /\ a = [OnField(x) EXCEPT !.col_idx = 0, !.row_idx = @ + 1]
            /\ b = [OnField(y) EXCEPT !.col_idx = 0, !.row_idx = @ + 1]
        BY <1>2, <2>2, <2>4, <3>2 DEF EndRecord
      <4> DEFINE f == Append(y.fields, <<y.col_idx, y.row_idx, y.current_field>>)
      <4>2. /\ OnField(x) = [x EXCEPT !.fields = f, !.current_field = <<>>]
            /\ OnField(y) = [y EXCEPT !.fields = f, !.current_field = <<>>]
        BY <2>2 DEF OnField
      <4>3. OnField(x) \in Parser /\ OnField(y) \in Parser
        BY <2>1, Types
      <4> HIDE DEF f
      <4>4. OnField(x) = [OnField(y) EXCEPT !.after_field_sep = TRUE]
        BY <1>2, <2>1, <4>2, ZenonT(40) DEF Parser
      <4>5. OnField(x).row_idx = OnField(y).row_idx /\ OnField(y).error = "Ok" /\ OnField(x).error = "Ok"
        BY <2>1, <2>2, <4>2 DEF Parser
      <4> DEFINE r == OnField(y).row_idx + 1
                 u == OnField(x)
                 v == OnField(y)
      <4>6. a = [u EXCEPT !.col_idx = 0, !.row_idx = r] /\ b = [v EXCEPT !.col_idx = 0, !.row_idx = r]
        BY <4>1, <4>5
      <4>7. /\ u = [v EXCEPT !.after_field_sep = TRUE] /\ u \in Parser /\ v \in Parser
            /\ u.error = "Ok" /\ v.error = "Ok"
        BY <4>3, <4>4, <4>5
      <4> HIDE DEF r, u, v, a, b
      <4>8. a = [b EXCEPT !.after_field_sep = TRUE] /\ a.error = "Ok" /\ b.error = "Ok"
        BY <4>6, <4>7 DEF Parser
      <4> QED
        BY <4>8 DEF a, b
    <3> QED
      BY <3>1, <3>2
  <2> QED
    BY <2>3, <2>4
<1> QED
  BY <1>1, <1>2 DEF Like

\* What was separated last is forgotten.
LEMMA SeparatedSame ==
    ASSUME NEW r \in Parser, NEW s \in Parser, r = s \/ r = [s EXCEPT !.after_field_sep = TRUE]
    PROVE  \A f, t \in BOOLEAN : Separated(r, f, t) = Separated(s, f, t)
BY DEF Separated, Parser

\* Parsers that are alike stay so.
LEMMA TurnsLike ==
    ASSUME Facts, NEW x, NEW y, Settled(x), Settled(y), Like(x, y), NEW c \in Char, NEW n
    PROVE  Like(Turn(x, c, n), Turn(y, c, n))
<1> DEFINE a == Turn(x, c, n)
           b == Turn(y, c, n)
<1> SUFFICES Like(a, b)
  OBVIOUS
<1> HIDE DEF a, b
<1>1. CASE x = y
  BY <1>1 DEF Like, a, b
<1>2. CASE y.error # "Ok"
  BY <1>2, TurnIs DEF Like, a, b
<1>3. CASE /\ y.error = "Ok" /\ x = [y EXCEPT !.after_field_sep = TRUE]
           /\ ~y.after_field_sep /\ y.after_record_sep /\ y.after_first_row
  <2>1. x \in Parser /\ y \in Parser /\ Sound(y) /\ ~y.quoted
    BY <1>3 DEF Settled, Sound
  <2>2. /\ x.error = "Ok" /\ x.skip = y.skip /\ x.quoted = y.quoted /\ ~x.quoted
        /\ x.col_idx = y.col_idx /\ x.fields = y.fields
        /\ x.row_idx = y.row_idx /\ x.current_field = y.current_field
    BY <1>3, <2>1 DEF Parser
  <2>4. ASSUME NEW e \in Char PROVE Separated(PushBack(x, e), FALSE, FALSE) = Separated(PushBack(y, e), FALSE, FALSE)
    <3> DEFINE w == Append(y.current_field, e)
    <3>1. PushBack(x, e) = [x EXCEPT !.current_field = w] /\ PushBack(y, e) = [y EXCEPT !.current_field = w]
      BY <2>2 DEF PushBack
    <3>2. PushBack(x, e) \in Parser /\ PushBack(y, e) \in Parser
      BY <2>1, Types
    <3> HIDE DEF w
    <3>3. PushBack(x, e) = [PushBack(y, e) EXCEPT !.after_field_sep = TRUE]
      BY <1>3, <2>1, <3>1 DEF Parser
    <3> QED
      BY SeparatedSame, <3>2, <3>3
  <2>5. CASE y.skip
    <3>1. a = [x EXCEPT !.skip = FALSE] /\ b = [y EXCEPT !.skip = FALSE]
      <4>1. a = [x EXCEPT !.skip = FALSE]
        <5>1. x.skip
          BY <2>2, <2>5
        <5>2. x.error = "Ok"
          BY <2>2
        <5> QED
          BY <5>1, <5>2, TurnIs DEF a
      <4>2. b = [y EXCEPT !.skip = FALSE]
        BY <1>3, <2>5, TurnIs DEF b
      <4> QED
        BY <4>1, <4>2
    <3>2. /\ a = [b EXCEPT !.after_field_sep = TRUE]
          /\ ~b.after_field_sep /\ b.after_record_sep /\ b.after_first_row
      BY <1>3, <2>1, <3>1 DEF Parser
    <3>3. a.error = "Ok" /\ b.error = "Ok"
      BY <1>3, <2>1, <2>2, <3>1 DEF Parser
    <3> QED
      BY <3>2, <3>3 DEF Like
  <2>6. CASE ~y.skip
    <3>1. /\ a = IF c = "comma" THEN Comma(x)
                 ELSE IF c \in LineEnds THEN LineEnd(x, c, n)
                 ELSE IF c = "quote" THEN Quote(x, n)
                 ELSE IF c = escape THEN Escape(x, n)
                 ELSE Separated(PushBack(x, c), FALSE, FALSE)
          /\ b = IF c = "comma" THEN Comma(y)
                 ELSE IF c \in LineEnds THEN LineEnd(y, c, n)
                 ELSE IF c = "quote" THEN Quote(y, n)
                 ELSE IF c = escape THEN Escape(y, n)
                 ELSE Separated(PushBack(y, c), FALSE, FALSE)
      BY <1>3, <2>2, <2>6, TurnIs DEF a, b
    <3>2. Comma(x) = Comma(y)
      <4> DEFINE f == Append(y.fields, <<y.col_idx, y.row_idx, y.current_field>>)
                 k == y.col_idx + 1
                 u == OnField(x)
                 v == OnField(y)
      <4>1. /\ u = [x EXCEPT !.fields = f, !.current_field = <<>>]
            /\ v = [y EXCEPT !.fields = f, !.current_field = <<>>]
        BY <2>2 DEF OnField
      <4>2. u \in Parser /\ v \in Parser
        BY <2>1, Types
      <4> HIDE DEF f
      <4>3. u = [v EXCEPT !.after_field_sep = TRUE] /\ u.col_idx = y.col_idx /\ v.col_idx = y.col_idx
        <5> HIDE DEF u, v
        <5>1. u.col_idx = x.col_idx /\ v.col_idx = y.col_idx
          BY <2>1, <4>1 DEF Parser
        <5>2. u = [v EXCEPT !.after_field_sep = TRUE]
          BY <1>3, <2>1, <4>1 DEF Parser
        <5> QED
          BY <2>2, <5>1, <5>2
      <4>4. /\ Comma(x) = Separated([u EXCEPT !.col_idx = k], TRUE, FALSE)
            /\ Comma(y) = Separated([v EXCEPT !.col_idx = k], TRUE, FALSE)
        BY <2>1, <2>2, <4>3 DEF Comma
      <4>5. k \in Nat
        BY <2>1 DEF Parser
      <4> HIDE DEF u, v, k
      <4>6. [u EXCEPT !.col_idx = k] \in Parser /\ [v EXCEPT !.col_idx = k] \in Parser
        BY <4>2, <4>5 DEF Parser
      <4>7. [u EXCEPT !.col_idx = k] = [[v EXCEPT !.col_idx = k] EXCEPT !.after_field_sep = TRUE]
        BY <4>2, <4>3 DEF Parser
      <4> QED
        BY SeparatedSame, <4>4, <4>6, <4>7
    <3>3. CASE c \in LineEnds /\ c = "cr" /\ n = None
      <4>1. LineEnd(x, c, n) = [x EXCEPT !.newlining = TRUE] /\ LineEnd(y, c, n) = [y EXCEPT !.newlining = TRUE]
        BY <2>1, <2>2, <3>3 DEF LineEnd
      <4>2. a = [x EXCEPT !.newlining = TRUE] /\ b = [y EXCEPT !.newlining = TRUE]
        BY <3>1, <3>3, <4>1
      <4>3. /\ a = [b EXCEPT !.after_field_sep = TRUE]
            /\ ~b.after_field_sep /\ b.after_record_sep /\ b.after_first_row
        BY <1>3, <2>1, <4>2 DEF Parser
      <4>4. a.error = "Ok" /\ b.error = "Ok"
        BY <1>3, <2>1, <2>2, <4>2 DEF Parser
      <4> QED
        BY <4>3, <4>4 DEF Like
    <3>4. CASE c \in LineEnds /\ ~(c = "cr" /\ n = None)
      <4> DEFINE s == c = "cr" /\ n = "lf"
                 u == EndRecord(x, trailing)
                 v == EndRecord(y, trailing)
      <4>1. /\ LineEnd(x, c, n) = Separated([u EXCEPT !.skip = s], FALSE, TRUE)
            /\ LineEnd(y, c, n) = Separated([v EXCEPT !.skip = s], FALSE, TRUE)
        BY <2>1, <2>2, <3>4 DEF LineEnd
      <4>2. u \in Parser /\ v \in Parser
        BY <1>3, <2>1, <2>2, RecordEnds DEF Facts
      <4>3. /\ u.error # "Ok" <=> v.error # "Ok"
            /\ v.error = "Ok" => u = v \/ u = [v EXCEPT !.after_field_sep = TRUE]
        BY <1>3, <2>1, RecordsEndLike
      <4>4. s \in BOOLEAN
        OBVIOUS
      <4>5. /\ a = Separated([u EXCEPT !.skip = s], FALSE, TRUE)
            /\ b = Separated([v EXCEPT !.skip = s], FALSE, TRUE)
        BY <3>1, <3>4, <4>1 DEF LineEnds
      <4> HIDE DEF s, u, v
      <4>6. [u EXCEPT !.skip = s] \in Parser /\ [v EXCEPT !.skip = s] \in Parser
        BY <4>2, <4>4 DEF Parser
      <4>7. a.error = u.error /\ b.error = v.error
        BY <4>2, <4>5 DEF Separated, Parser
      <4>8. CASE v.error # "Ok"
        BY <4>3, <4>7, <4>8 DEF Like
      <4>9. CASE v.error = "Ok"
        <5>1. \/ [u EXCEPT !.skip = s] = [v EXCEPT !.skip = s]
              \/ [u EXCEPT !.skip = s] = [[v EXCEPT !.skip = s] EXCEPT !.after_field_sep = TRUE]
          BY <4>2, <4>3, <4>9 DEF Parser
        <5>2. a = b
          BY SeparatedSame, <4>5, <4>6, <5>1
        <5> QED
          BY <4>7, <4>9, <5>2 DEF Like
      <4> QED
        BY <4>8, <4>9
    <3>5. ASSUME NEW q \in BOOLEAN
          PROVE  Separated([x EXCEPT !.quoted = q], FALSE, FALSE) = Separated([y EXCEPT !.quoted = q], FALSE, FALSE)
      <4>1. [x EXCEPT !.quoted = q] \in Parser /\ [y EXCEPT !.quoted = q] \in Parser
        BY <2>1 DEF Parser
      <4>2. [x EXCEPT !.quoted = q] = [[y EXCEPT !.quoted = q] EXCEPT !.after_field_sep = TRUE]
        BY <1>3, <2>1 DEF Parser
      <4> QED
        BY SeparatedSame, <4>1, <4>2
    <3>6. Quote(x, n) = Quote(y, n)
      <4>1. /\ Quote(x, n) = Separated([x EXCEPT !.quoted = TRUE], FALSE, FALSE)
            /\ Quote(y, n) = Separated([y EXCEPT !.quoted = TRUE], FALSE, FALSE)
        BY <2>1, <2>2 DEF Quote
      <4> QED
        BY <3>5, <4>1
    <3>7. escape \in Char /\ Escape(x, n) = Separated(PushBack(x, escape), FALSE, FALSE)
          /\ Escape(y, n) = Separated(PushBack(y, escape), FALSE, FALSE)
      BY <2>1, <2>2 DEF Escape, Facts
    <3>8. CASE c \notin LineEnds
      <4>1. a = b
        BY <2>4, <3>1, <3>2, <3>6, <3>7, <3>8
      <4> QED
        BY <4>1 DEF Like
    <3> QED
      BY <3>3, <3>4, <3>8
  <2> QED
    BY <2>5, <2>6
<1> QED
  BY <1>1, <1>2, <1>3 DEF Like

\* What is like a settled parser is settled.
LEMMA LikeSettled ==
    ASSUME NEW x, NEW y, Settled(y), y.error = "Ok", Like(x, y)
    PROVE  Settled(x)
<1>1. CASE x = y
  BY <1>1
<1>2. CASE /\ x = [y EXCEPT !.after_field_sep = TRUE]
           /\ ~y.after_field_sep /\ y.after_record_sep /\ y.after_first_row
  <2>1. y \in Parser /\ Sound(y) /\ ~y.quoted /\ y.current_field = <<>>
    BY <1>2 DEF Settled, Sound
  <2>2. /\ x \in Parser /\ x.finished = y.finished /\ x.quoted = y.quoted /\ x.error = "Ok"
        /\ x.escaping = y.escaping /\ x.newlining = y.newlining /\ x.col_idx = y.col_idx
        /\ x.current_field = y.current_field /\ x.num_cols = y.num_cols
        /\ x.after_first_row /\ x.after_record_sep
    BY <1>2, <2>1 DEF Parser
  <2> QED
    BY <1>2, <2>1, <2>2 DEF Settled, Sound
<1> QED
  BY <1>1, <1>2 DEF Like

\* A parser that a buffer has ended for goes on in the next as if it had not.
Resumed(p, first) == ResumeNewline(ResumeEscape(p, first), first)

\* A character that the end of a buffer has cut off from the next one is taken, with
\* the first one of the next buffer, for what it is in one buffer.
LEMMA Resumes ==
    ASSUME Facts, NEW x, Settled(x), NEW c \in Char, NEW d \in Char,
           Turn(x, c, None).error = "Ok"
    PROVE  /\ Like(Resumed(Turn(x, c, None), d), Turn(x, c, d))
           /\ Settled(Resumed(Turn(x, c, None), d))
<1> DEFINE q == Turn(x, c, None)
           w == Turn(x, c, d)
<1>1. /\ x \in Parser /\ Sound(x) /\ x.error = "Ok" /\ ~x.escaping /\ ~x.newlining /\ ~x.finished
      /\ trailing \in BOOLEAN /\ d # None /\ "quote" \in Char /\ escape \in Char
  <2>1. x.error = "Ok"
    BY TurnIs
  <2> QED
    BY <2>1, ConstantsAssumption DEF Settled, Facts, Special
<1>2. Turned(w, d) /\ Settled(w)
  <2>1. Turned(w, d)
    BY TurnTurns
  <2> QED
    BY <1>1, <2>1 DEF Turned, Settled
<1>3. ASSUME q = w PROVE Like(Resumed(q, d), w) /\ Settled(Resumed(q, d))
  <2>1. ~w.escaping /\ ~w.newlining
    BY <1>2, <1>3 DEF Settled
  <2> HIDE DEF q, w
  <2>2. Resumed(q, d) = w
    BY <1>3, <2>1 DEF Resumed, ResumeNewline, ResumeEscape
  <2> QED
    BY <1>2, <2>2 DEF Like
<1>4. CASE x.skip
  <2>1. q = w
    BY <1>1, <1>4, TurnIs
  <2> QED
    BY <1>3, <2>1
<1>5. CASE ~x.skip
  <2>1. /\ q = IF c = "comma" THEN Comma(x)
               ELSE IF c \in LineEnds THEN LineEnd(x, c, None)
               ELSE IF c = "quote" THEN Quote(x, None)
               ELSE IF c = escape THEN Escape(x, None)
               ELSE Separated(PushBack(x, c), FALSE, FALSE)
        /\ w = IF c = "comma" THEN Comma(x)
               ELSE IF c \in LineEnds THEN LineEnd(x, c, d)
               ELSE IF c = "quote" THEN Quote(x, d)
               ELSE IF c = escape THEN Escape(x, d)
               ELSE Separated(PushBack(x, c), FALSE, FALSE)
    BY <1>1, <1>5, TurnIs
  <2>2. CASE c = "cr" /\ ~x.quoted
    <3> DEFINE p == [x EXCEPT !.newlining = TRUE]
               s == d = "lf"
               u == EndRecord(x, trailing)
               v == EndRecord(p, trailing)
               m == [v EXCEPT !.after_record_sep = TRUE, !.newlining = FALSE, !.skip = s]
    <3>1. q = p
      BY <2>1, <2>2 DEF LineEnd, LineEnds
    <3>2. w = Separated([u EXCEPT !.skip = s], FALSE, TRUE)
      BY <1>1, <2>1, <2>2 DEF LineEnd, LineEnds
    <3>3. /\ p \in Parser /\ p.error = "Ok" /\ p.newlining /\ ~p.escaping /\ ~p.quoted /\ ~p.finished
          /\ p.col_idx = x.col_idx /\ p.row_idx = x.row_idx /\ p.fields = x.fields
          /\ p.current_field = x.current_field /\ p.num_cols = x.num_cols
          /\ p.after_first_row = x.after_first_row
          /\ p.after_field_sep = x.after_field_sep /\ p.after_record_sep = x.after_record_sep
      BY <1>1, <2>2 DEF Parser
    <3>4. Resumed(q, d) = IF v.error # "Ok" THEN v ELSE m
      <4>1. ResumeEscape(p, d) = p
        BY <3>3 DEF ResumeEscape
      <4> QED
        BY <3>1, <3>3, <4>1 DEF Resumed, ResumeNewline
    <3>5. /\ u \in Parser /\ ~u.newlining
          /\ u.error = "Ok" => u.after_field_sep = x.after_field_sep /\ u.after_first_row
      BY <1>1, RecordEnds
    <3>6. v \in Parser /\ ~v.quoted /\ ~v.finished /\ v.newlining /\ ~v.escaping
      <4> HIDE DEF p
      <4> QED
        BY <1>1, <3>3, RecordEnds
    <3>7. v = [u EXCEPT !.newlining = TRUE] /\ v.error = u.error
      <4> HIDE DEF p
      <4>1. p = [x EXCEPT !.newlining = TRUE]
        BY DEF p
      <4>2. ASSUME NEW a \in Parser, NEW e, p = [a EXCEPT !.newlining = TRUE]
            PROVE  [p EXCEPT !.error = e] = [[a EXCEPT !.error = e] EXCEPT !.newlining = TRUE]
        BY <4>2, <3>3 DEF Parser
      <4> DEFINE cols == IF trailing THEN x.col_idx ELSE x.col_idx + 1
                 f == Append(x.fields, <<x.col_idx, x.row_idx, x.current_field>>)
                 r == x.row_idx + 1
                 ux == IF x.after_first_row THEN x ELSE [x EXCEPT !.after_first_row = TRUE, !.num_cols = cols]
                 vx == IF x.after_first_row THEN p ELSE [p EXCEPT !.after_first_row = TRUE, !.num_cols = cols]
                 uy == IF trailing THEN ux ELSE [ux EXCEPT !.fields = f, !.current_field = <<>>]
                 vy == IF trailing THEN vx ELSE [vx EXCEPT !.fields = f, !.current_field = <<>>]
      <4>3. /\ vx = [ux EXCEPT !.newlining = TRUE] /\ vx.num_cols = ux.num_cols
            /\ ux.row_idx = x.row_idx /\ vx.row_idx = x.row_idx
            /\ ux.col_idx = x.col_idx /\ vx.col_idx = x.col_idx
            /\ ux.fields = x.fields /\ vx.fields = x.fields
            /\ ux.current_field = x.current_field /\ vx.current_field = x.current_field
        BY <1>1, <3>3, <4>1 DEF Parser
      <4>4. u = IF trailing /\ ~x.after_field_sep THEN [x EXCEPT !.error = "NoTrailingComma"]
                ELSE IF ux.num_cols # cols THEN [x EXCEPT !.error = "InconsistentColumns"]
                ELSE [uy EXCEPT !.col_idx = 0, !.row_idx = uy.row_idx + 1]
        BY <4>3 DEF EndRecord, OnField
      <4>5. v = IF trailing /\ ~x.after_field_sep THEN [p EXCEPT !.error = "NoTrailingComma"]
                ELSE IF vx.num_cols # cols THEN [p EXCEPT !.error = "InconsistentColumns"]
                ELSE [vy EXCEPT !.col_idx = 0, !.row_idx = vy.row_idx + 1]
        <5> DEFINE pcols == IF trailing THEN p.col_idx ELSE p.col_idx + 1
                   px == IF p.after_first_row THEN p ELSE [p EXCEPT !.after_first_row = TRUE, !.num_cols = pcols]
                   py == IF trailing THEN px ELSE OnField(px)
        <5>1. v = IF trailing /\ ~p.after_field_sep THEN [p EXCEPT !.error = "NoTrailingComma"]
                  ELSE IF px.num_cols # pcols THEN [p EXCEPT !.error = "InconsistentColumns"]
                  ELSE [py EXCEPT !.col_idx = 0, !.row_idx = @ + 1]
          BY DEF EndRecord
        <5>2. pcols = cols
          BY <3>3
        <5>3. px = vx
          <6> HIDE DEF cols, pcols
          <6> QED
            BY <3>3, <5>2
        <5>4. py = vy
          <6> HIDE DEF vx, px
          <6> QED
            BY <4>3, <5>3 DEF OnField
        <5> HIDE DEF v, cols, pcols, px, vx, py, vy
        <5> QED
          BY <3>3, <5>1, <5>2, <5>3, <5>4
      <4>6. vy = [uy EXCEPT !.newlining = TRUE] /\ vy.row_idx = uy.row_idx /\ ux \in Parser /\ uy \in Parser
        <5>1. cols \in Nat
          BY <1>1 DEF Parser
        <5>2. ux \in Parser
          <6> HIDE DEF cols
          <6> QED
            BY <1>1, <5>1 DEF Parser
        <5>3. OnField(ux) \in Parser
          BY <5>2, Types
        <5>4. uy = IF trailing THEN ux ELSE OnField(ux)
          <6> HIDE DEF ux
          <6> QED
            BY <4>3 DEF OnField
        <5>5. uy \in Parser
          BY <5>2, <5>3, <5>4
        <5> HIDE DEF ux, vx, f
        <5>6. vy = [uy EXCEPT !.newlining = TRUE]
          BY <4>3, <5>2 DEF Parser
        <5> HIDE DEF uy, vy
        <5> QED
          BY <5>2, <5>5, <5>6 DEF Parser
      <4> HIDE DEF u, v, ux, uy, vx, vy, cols
      <4>7. CASE trailing /\ ~x.after_field_sep
        BY <1>1, <4>1, <4>4, <4>5, <4>7 DEF Parser
      <4>8. CASE ~(trailing /\ ~x.after_field_sep) /\ ux.num_cols # cols
        BY <1>1, <4>1, <4>3, <4>4, <4>5, <4>8 DEF Parser
      <4>9. CASE ~(trailing /\ ~x.after_field_sep) /\ ux.num_cols = cols
        <5> DEFINE row == uy.row_idx + 1
        <5>1. /\ u = [uy EXCEPT !.col_idx = 0, !.row_idx = row]
              /\ v = [vy EXCEPT !.col_idx = 0, !.row_idx = row]
          BY <4>3, <4>4, <4>5, <4>6, <4>9
        <5> HIDE DEF row
        <5> QED
          BY <4>6, <5>1 DEF Parser
      <4> QED
        BY <4>7, <4>8, <4>9
    <3> HIDE DEF p, u, v, w
    <3>8. CASE v.error # "Ok"
      <4>1. Resumed(q, d) = v
        BY <3>4, <3>8
      <4>2. w.error = u.error
        BY <3>2, <3>5 DEF Separated, Parser
      <4>3. Settled(v)
        BY <3>6, <3>8 DEF Settled
      <4> QED
        BY <3>7, <3>8, <4>1, <4>2, <4>3 DEF Like, q, w
    <3>9. CASE v.error = "Ok"
      <4>1. Resumed(q, d) = m
        BY <3>4, <3>9
      <4>2. /\ w = [u EXCEPT !.skip = s, !.after_field_sep = FALSE, !.after_record_sep = TRUE]
            /\ m = [u EXCEPT !.skip = s, !.after_record_sep = TRUE]
        <5> HIDE DEF s
        <5> QED
          BY <3>2, <3>5, <3>7 DEF Separated, Parser
      <4>3. /\ w.error = "Ok" /\ ~w.after_field_sep /\ w.after_record_sep /\ w.after_first_row
            /\ m = w \/ m = [w EXCEPT !.after_field_sep = TRUE]
        <5>1. u.error = "Ok" /\ u.after_first_row
          BY <3>5, <3>7, <3>9
        <5>2. CASE u.after_field_sep
          <6> HIDE DEF s, m
          <6> QED
            BY <3>5, <4>2, <5>1, <5>2 DEF Parser
        <5>3. CASE ~u.after_field_sep
          <6> HIDE DEF s, m
          <6> QED
            BY <3>5, <4>2, <5>1, <5>3 DEF Parser
        <5> QED
          BY <5>2, <5>3
      <4> HIDE DEF m
      <4>4. Like(m, w)
        BY <4>3 DEF Like
      <4>5. Settled(m)
        BY <1>2, <4>3, <4>4, LikeSettled
      <4> QED
        BY <4>1, <4>4, <4>5 DEF q, w
    <3> QED
      BY <3>8, <3>9
  <2>3. CASE c = escape /\ x.quoted
    <3> DEFINE p == [x EXCEPT !.escaping = TRUE]
               r == ResumeEscape(p, d)
    <3>1. c \notin LineEnds \union {"comma"} /\ ~x.after_field_sep /\ ~x.after_record_sep
      BY <1>1, <2>3 DEF Facts, LineEnds, Sound
    <3>2. q = p
      BY <2>1, <2>3, <3>1 DEF Quote, Escape
    <3>3. [p EXCEPT !.escaping = FALSE] = x /\ p.escaping
      BY <1>1 DEF Parser
    <3>4. r \in Parser /\ ~r.newlining /\ w = Separated(r, FALSE, FALSE) /\ ~r.after_field_sep /\ ~r.after_record_sep
      <4>1. CASE d = "quote" \/ (escape # "quote" /\ d = escape)
        <5>1. r = [PushBack(x, d) EXCEPT !.skip = TRUE]
          <6> HIDE DEF p
          <6> QED
            BY <3>3, <4>1 DEF ResumeEscape
        <5>2. w = Separated([PushBack(x, d) EXCEPT !.skip = TRUE], FALSE, FALSE)
          BY <1>1, <2>1, <2>3, <3>1, <4>1 DEF Quote, Escape
        <5>3. PushBack(x, d) \in Parser
          BY <1>1, Types
        <5>4. LET b == PushBack(x, d) IN ~b.newlining /\ ~b.after_field_sep /\ ~b.after_record_sep
          BY <1>1, <3>1 DEF PushBack, Parser
        <5> HIDE DEF r, w
        <5> QED
          BY <5>1, <5>2, <5>3, <5>4 DEF Parser
      <4>2. CASE d # "quote" /\ escape = "quote"
        <5>1. r = [x EXCEPT !.quoted = FALSE]
          <6> HIDE DEF p
          <6> QED
            BY <3>3, <4>2 DEF ResumeEscape
        <5>2. w = Separated([x EXCEPT !.quoted = FALSE], FALSE, FALSE)
          BY <1>1, <2>1, <2>3, <3>1, <4>2 DEF Quote
        <5> HIDE DEF r, w
        <5> QED
          BY <1>1, <3>1, <5>1, <5>2 DEF Parser
      <4>3. CASE d # "quote" /\ escape # "quote" /\ d # escape
        <5>1. r = PushBack(x, escape)
          <6> HIDE DEF p
          <6> QED
            BY <3>3, <4>3 DEF ResumeEscape
        <5>2. w = Separated(PushBack(x, escape), FALSE, FALSE)
          BY <1>1, <2>1, <2>3, <3>1, <4>3 DEF Escape
        <5>3. PushBack(x, escape) \in Parser
          BY <1>1, Types
        <5>4. LET b == PushBack(x, escape) IN ~b.newlining /\ ~b.after_field_sep /\ ~b.after_record_sep
          BY <1>1, <3>1 DEF PushBack, Parser
        <5> HIDE DEF r, w
        <5> QED
          BY <5>1, <5>2, <5>3, <5>4
      <4> QED
        BY <4>1, <4>2, <4>3
    <3> HIDE DEF p, r, w
    <3>5. Resumed(q, d) = r
      BY <3>2, <3>4 DEF Resumed, ResumeNewline, r
    <3>6. r = w
      BY <3>4 DEF Separated, Parser
    <3> QED
      BY <1>2, <3>5, <3>6 DEF Like, q, w
  <2>4. CASE ~(c = "cr" /\ ~x.quoted) /\ ~(c = escape /\ x.quoted)
    <3>1. LineEnd(x, c, None) = LineEnd(x, c, d) \/ c \notin LineEnds
      BY <2>4 DEF LineEnd, LineEnds
    <3>2. Quote(x, None) = Quote(x, d) \/ c # "quote"
      BY <2>4 DEF Quote
    <3>3. Escape(x, None) = Escape(x, d) \/ c # escape
      BY <2>4 DEF Escape
    <3>4. q = w
      <4> HIDE DEF q, w
      <4>1. CASE c \in LineEnds
        BY <2>1, <3>1, <4>1 DEF LineEnds
      <4>2. CASE c = "quote"
        BY <2>1, <3>2, <4>2 DEF LineEnds
      <4>3. CASE c = escape /\ c # "quote"
        BY <2>1, <3>3, <4>3 DEF LineEnds, Facts
      <4>4. CASE c \notin LineEnds \union {"quote", escape}
        BY <2>1, <4>4
      <4> QED
        BY <4>1, <4>2, <4>3, <4>4
    <3> QED
      BY <1>3, <3>4
  <2> QED
    BY <2>2, <2>3, <2>4
<1> QED
  BY <1>4, <1>5

\* A parser like one that is like a third is like that.
LEMMA LikeTransitive ==
    ASSUME NEW x, NEW y, NEW z \in Parser, Like(x, y), Like(y, z)
    PROVE  Like(x, z)
<1>1. CASE z.error # "Ok" \/ y = z
  BY <1>1 DEF Like
<1>2. CASE z.error = "Ok" /\ y = [z EXCEPT !.after_field_sep = TRUE] /\ Like(y, z)
  <2>1. y.error = "Ok" /\ y.after_field_sep
    BY <1>2 DEF Parser
  <2> QED
    BY <1>2, <2>1 DEF Like
<1> QED
  BY <1>1, <1>2 DEF Like

\* A new parser waits for the first character, and has nothing to resume.
LEMMA StartSettled ==
    /\ Settled(Start) /\ Start.error = "Ok" /\ ~Start.skip /\ ~Start.escaping /\ ~Start.newlining
    /\ \A c : Resumed(Start, c) = Start
<1>1. <<>> \in Seq(Char) /\ <<>> \in Seq(Nat \X Nat \X Seq(Char))
  OBVIOUS
<1>2. Start \in Parser
  BY <1>1 DEF Start, Parser, Errors
<1>3. /\ Start.error = "Ok" /\ ~Start.skip /\ ~Start.escaping /\ ~Start.newlining /\ ~Start.finished
      /\ ~Start.quoted /\ ~Start.after_field_sep /\ ~Start.after_record_sep /\ ~Start.after_first_row
  BY DEF Start
<1>4. ASSUME NEW c PROVE Resumed(Start, c) = Start
  BY <1>3 DEF Resumed, ResumeNewline, ResumeEscape
<1> QED
  BY <1>2, <1>3, <1>4 DEF Settled, Sound

\* The states of the parser in the turns on a buffer: run[i] after the turn on
\* character number i.
Runs(run, p, buffer) ==
    /\ run[0] = Resumed(p, CharOrNone(buffer, 1))
    /\ \A i \in 1 .. Len(buffer) : run[i] = Turn(run[i - 1], buffer[i], CharOrNone(buffer, i + 1))

\* The recursion of Executed has a result: there are states of its turns.
LEMMA ExecutedRuns ==
    ASSUME NEW p, NEW buffer, Len(buffer) \in Nat
    PROVE  \E run : Runs(run, p, buffer) /\ Executed(p, buffer) = run[Len(buffer)]
<1> DEFINE l == Len(buffer)
           begun == Resumed(p, CharOrNone(buffer, 1))
           Step(f, i) == IF i = 0 THEN begun ELSE Turn(f[i - 1], buffer[i], CharOrNone(buffer, i + 1))
           Upto(m) == \E f : f = [i \in 0 .. m |-> Step(f, i)]
           Bad == {m \in Nat : ~ Upto(m)}
<1>1. Bad = {}
  <2> SUFFICES ASSUME Bad # {} PROVE FALSE
    OBVIOUS
  <2>1. PICK m \in Bad : \A k \in Bad : m <= k
    <3>1. Bad \in SUBSET Nat /\ Bad # {}
      OBVIOUS
    <3> HIDE DEF Bad
    <3> QED
      BY <3>1, Least
  <2>2. m # 0
    <3> DEFINE f == [i \in 0 .. 0 |-> begun]
    <3>1. f = [i \in 0 .. 0 |-> Step(f, i)]
      OBVIOUS
    <3> QED
      BY <3>1
  <2>3. m - 1 \in Nat /\ m - 1 \notin Bad
    BY <2>1, <2>2
  <2>4. PICK f : f = [i \in 0 .. (m - 1) |-> Step(f, i)]
    BY <2>3
  <2> DEFINE g == [i \in 0 .. m |-> IF i = m THEN Step(f, m) ELSE f[i]]
  <2>5. ASSUME NEW i \in 0 .. m PROVE g[i] = Step(g, i)
    <3>1. CASE i = 0
      <4>1. g[i] = f[0] /\ f[0] = Step(f, 0)
        BY <2>2, <2>3, <2>4, <3>1
      <4> QED
        BY <3>1, <4>1
    <3>2. CASE i # 0
      <4>1. i - 1 \in 0 .. (m - 1) /\ i - 1 \in 0 .. m /\ i - 1 # m
        BY <2>3, <3>2
      <4>2. g[i - 1] = f[i - 1]
        BY <4>1
      <4>3. g[i] = Step(f, i)
        <5>1. CASE i = m
          BY <5>1
        <5>2. CASE i # m
          <6>1. i \in 0 .. (m - 1)
            BY <5>2, <2>3
          <6> QED
            BY <2>4, <5>2, <6>1
        <5> QED
          BY <5>1, <5>2
      <4> QED
        BY <3>2, <4>2, <4>3
    <3> QED
      BY <3>1, <3>2
  <2>6. g = [i \in 0 .. m |-> Step(g, i)]
    <3> HIDE DEF Step
    <3>1. \A i \in 0 .. m : g[i] = Step(g, i)
      BY <2>5
    <3>2. g = [i \in 0 .. m |-> g[i]]
      OBVIOUS
    <3> HIDE DEF g
    <3> QED
      BY <3>1, <3>2
  <2>7. Upto(m)
    <3> HIDE DEF g, Step
    <3> QED
      BY <2>6
  <2> QED
    BY <2>1, <2>7
<1>2. Upto(l)
  BY <1>1
<1> DEFINE after == CHOOSE f : f = [i \in 0 .. l |-> Step(f, i)]
<1>3. after = [i \in 0 .. l |-> Step(after, i)]
  <2> HIDE DEF Step
  <2> QED
    BY <1>2
<1>4. Executed(p, buffer) = after[l]
  BY DEF Executed, Resumed
<1> HIDE DEF after
<1>5. ASSUME NEW i \in 0 .. l PROVE after[i] = Step(after, i)
  <2> HIDE DEF Step
  <2> QED
    BY <1>3
<1>6. after[0] = begun
  BY <1>5
<1>7. ASSUME NEW i \in 1 .. l PROVE after[i] = Turn(after[i - 1], buffer[i], CharOrNone(buffer, i + 1))
  BY <1>5
<1> QED
  BY <1>4, <1>6, <1>7 DEF Runs

-----------------------------------------------------------------------------
(* The run on the whole text, and the parser that gets it in buffers. *)

\* The states of a parser in the turns on the whole of s.
WholeRun(g, s) ==
    /\ g[0] = Start
    /\ \A i \in 1 .. Len(s) : g[i] = Turn(g[i - 1], s[i], CharOrNone(s, i + 1))

\* Parser p has read n characters of s, the last one at the end of a buffer.
Cut(p, n, s, g) ==
    IF n = 0 THEN p = Start
    ELSE \E x : Settled(x) /\ Like(x, g[n - 1]) /\ p = Turn(x, s[n], None)

\* Operations depend on escape_ and has_trailing_comma_, which stay.
LEMMA Kept ==
    ASSUME UNCHANGED <<escape, trailing>>
    PROVE  /\ \A p, c, n : Turn(p, c, n)' = Turn(p, c, n)
           /\ \A p : Settled(p)' = Settled(p)
<1>1. ASSUME NEW p, NEW c, NEW n PROVE Turn(p, c, n)' = Turn(p, c, n)
  <2>1. LineEnd(p, c, n)' = LineEnd(p, c, n)
    BY DEF LineEnd
  <2>2. Quote(p, n)' = Quote(p, n)
    BY DEF Quote
  <2>3. Escape(p, n)' = Escape(p, n)
    BY DEF Escape
  <2> QED
    BY <2>1, <2>2, <2>3 DEF Turn
<1>2. ASSUME NEW p PROVE Settled(p)' = Settled(p)
  BY DEF Settled, Sound
<1> QED
  BY <1>1, <1>2

\* So the run on a text, and where a parser is in it, stay the same.
LEMMA RunsKept ==
    ASSUME UNCHANGED <<escape, trailing>>, NEW g, NEW s
    PROVE  /\ WholeRun(g, s)' <=> WholeRun(g, s)
           /\ \A p, n : Cut(p, n, s, g)' <=> Cut(p, n, s, g)
<1>1. WholeRun(g, s)' <=> WholeRun(g, s)
  BY Kept DEF WholeRun
<1>2. ASSUME NEW p, NEW n PROVE Cut(p, n, s, g)' <=> Cut(p, n, s, g)
  BY Kept DEF Cut
<1> QED
  BY <1>1, <1>2

\* What is behind a character is a character, or nothing.
LEMMA BehindIs ==
    ASSUME NEW s \in Seq(Char), NEW i \in 0 .. Len(s)
    PROVE  /\ Len(s) \in Nat
           /\ i # 0 => s[i] \in Char
           /\ CharOrNone(s, i + 1) \in Char \union {None}
           /\ i < Len(s) => CharOrNone(s, i + 1) = s[i + 1] /\ s[i + 1] \in Char /\ s[i + 1] # None
           /\ i = Len(s) => CharOrNone(s, i + 1) = None
<1>1. Len(s) \in Nat /\ DOMAIN s = 1 .. Len(s) /\ \A k \in 1 .. Len(s) : s[k] \in Char
  BY LenProperties, ElementOfSeq
<1>2. i # 0 => i \in 1 .. Len(s)
  BY <1>1
<1>3. i < Len(s) => i + 1 \in 1 .. Len(s)
  BY <1>1
<1>4. i = Len(s) => i + 1 \notin 1 .. Len(s)
  BY <1>1
<1>5. i = Len(s) \/ i < Len(s)
  <2> DEFINE l == Len(s)
  <2>1. l \in Nat /\ i \in 0 .. l
    BY <1>1
  <2> HIDE DEF l
  <2>2. i = l \/ i < l
    BY <2>1
  <2> QED
    BY <2>2 DEF l
<1>6. None \notin Char
  BY ConstantsAssumption
<1>7. CharOrNone(s, i + 1) = IF i + 1 \in 1 .. Len(s) THEN s[i + 1] ELSE None
  BY <1>1 DEF CharOrNone
<1> QED
  BY <1>1, <1>2, <1>3, <1>4, <1>5, <1>6, <1>7

\* Within a buffer nothing is pending.
LEMMA WithinSettled ==
    ASSUME Facts, NEW s \in Seq(Char), NEW run, Settled(run[0]),
           \A i \in 1 .. Len(s) : run[i] = Turn(run[i - 1], s[i], CharOrNone(s, i + 1))
    PROVE  /\ \A i \in 0 .. Len(s) : i < Len(s) => Settled(run[i])
           /\ Len(s) # 0 => Turned(run[Len(s)], None)
<1>1. Len(s) \in Nat
  BY LenProperties
<1> DEFINE Bad == {i \in 0 .. Len(s) : i < Len(s) /\ ~Settled(run[i])}
<1>2. Bad = {}
  <2> SUFFICES ASSUME Bad # {} PROVE FALSE
    OBVIOUS
  <2>1. PICK i \in Bad : \A k \in Bad : i <= k
    <3>1. Bad \in SUBSET Nat /\ Bad # {}
      BY <1>1
    <3> HIDE DEF Bad
    <3> QED
      BY <3>1, Least
  <2>2. i \in 1 .. Len(s) /\ i < Len(s) /\ i - 1 \in 0 .. Len(s) /\ i - 1 < Len(s) /\ i - 1 \notin Bad
    BY <1>1, <2>1
  <2>3. Settled(run[i - 1])
    BY <2>2
  <2>4. s[i] \in Char /\ CharOrNone(s, i + 1) \in Char /\ CharOrNone(s, i + 1) # None
    BY <2>2, BehindIs
  <2>5. Turned(run[i], CharOrNone(s, i + 1))
    BY <2>2, <2>3, <2>4, TurnTurns
  <2>6. Settled(run[i])
    BY <2>4, <2>5 DEF Turned, Settled
  <2> QED
    BY <2>1, <2>6
<1>3. ASSUME Len(s) # 0 PROVE Turned(run[Len(s)], None)
  <2> DEFINE l == Len(s)
  <2>1. l \in 1 .. Len(s) /\ l - 1 \in 0 .. Len(s) /\ l - 1 < Len(s)
    BY <1>1, <1>3
  <2>2. Settled(run[l - 1])
    BY <1>2, <2>1
  <2>3. s[l] \in Char /\ CharOrNone(s, l + 1) = None
    BY <2>1, BehindIs
  <2> QED
    BY <2>1, <2>2, <2>3, TurnTurns
<1> QED
  BY <1>2, <1>3

\* A parser that has read some of the text reads more of it.
LEMMA CutGrows ==
    ASSUME Facts, NEW s \in Seq(Char), NEW g, WholeRun(g, s),
           NEW m \in 0 .. Len(s), NEW n \in (m + 1) .. Len(s),
           NEW p, p.error = "Ok", Cut(p, m, s, g)
    PROVE  Cut(Executed(p, SubSeq(s, m + 1, n)), n, s, g)
<1> DEFINE b == SubSeq(s, m + 1, n)
           l == n - m
           d == s[m + 1]
<1>1. /\ Len(s) \in Nat /\ m \in Nat /\ n \in Nat /\ l \in Nat /\ l # 0 /\ m + l = n
      /\ m + 1 \in 1 .. Len(s) /\ n \in 1 .. Len(s)
  BY LenProperties
<1>2. b \in Seq(Char) /\ Len(b) = l /\ \A i \in 1 .. l : b[i] = s[m + i]
  <2>1. /\ b \in Seq(Char)
        /\ Len(b) = IF m + 1 <= n THEN n - (m + 1) + 1 ELSE 0
        /\ \A i \in 1 .. n - (m + 1) + 1 : b[i] = s[m + 1 + i - 1]
    BY <1>1, SubSeqProperties
  <2> QED
    BY <1>1, <2>1
<1>3. Settled(g[0]) /\ \A i \in 0 .. Len(s) : i < Len(s) => Settled(g[i])
  BY StartSettled, WithinSettled DEF WholeRun
<1> HIDE DEF b
<1>4. PICK f : Runs(f, p, b) /\ Executed(p, b) = f[l]
  BY <1>1, <1>2, ExecutedRuns
<1>5. CharOrNone(b, 1) = d /\ d \in Char
  <2>1. 0 \in 0 .. Len(b) /\ 0 < Len(b) /\ 0 + 1 = 1
    BY <1>1, <1>2
  <2>2. CharOrNone(b, 1) = b[1] /\ b[1] \in Char
    BY <1>2, <2>1, BehindIs
  <2> QED
    BY <1>1, <1>2, <2>2
<1>6. f[0] = Resumed(p, d)
  BY <1>4, <1>5 DEF Runs
<1>7. Settled(f[0]) /\ Like(f[0], g[m])
  <2>1. CASE m = 0
    <3>1. f[0] = Start /\ g[m] = Start
      BY <1>6, <2>1, StartSettled DEF Cut, WholeRun
    <3> QED
      BY <3>1, StartSettled DEF Like
  <2>2. CASE m # 0
    <3>1. PICK x : Settled(x) /\ Like(x, g[m - 1]) /\ p = Turn(x, s[m], None)
      BY <2>2 DEF Cut
    <3>2. m \in 1 .. Len(s) /\ m - 1 \in 0 .. Len(s) /\ m - 1 < Len(s) /\ m < Len(s)
      BY <1>1, <2>2
    <3>3. s[m] \in Char /\ CharOrNone(s, m + 1) = d
      BY <3>2, BehindIs
    <3>4. Like(f[0], Turn(x, s[m], d)) /\ Settled(f[0])
      BY <1>5, <1>6, <3>1, <3>3, Resumes
    <3>5. g[m] = Turn(g[m - 1], s[m], d)
      BY <3>2, <3>3 DEF WholeRun
    <3>6. Settled(g[m - 1]) /\ Settled(g[m])
      BY <1>3, <3>2
    <3>7. Like(Turn(x, s[m], d), g[m])
      BY <3>1, <3>3, <3>5, <3>6, TurnsLike
    <3>8. g[m] \in Parser
      BY <3>6 DEF Settled
    <3> QED
      BY <3>4, <3>7, <3>8, LikeTransitive
  <2> QED
    BY <2>1, <2>2
<1>8. \A i \in 1 .. l : f[i] = Turn(f[i - 1], b[i], CharOrNone(b, i + 1))
  BY <1>2, <1>4 DEF Runs
<1>9. \A i \in 0 .. l : i < l => Settled(f[i])
  BY <1>2, <1>7, <1>8, WithinSettled
<1> DEFINE Bad == {i \in 0 .. l : i < l /\ ~Like(f[i], g[m + i])}
<1>10. Bad = {}
  <2> SUFFICES ASSUME Bad # {} PROVE FALSE
    OBVIOUS
  <2>1. PICK i \in Bad : \A k \in Bad : i <= k
    <3>1. Bad \in SUBSET Nat /\ Bad # {}
      BY <1>1
    <3> HIDE DEF Bad
    <3> QED
      BY <3>1, Least
  <2>2. i # 0
    BY <1>1, <1>7, <2>1
  <2>3. /\ i \in 1 .. l /\ i < l /\ i - 1 \in 0 .. l /\ i - 1 < l /\ i - 1 \notin Bad
        /\ m + i \in 1 .. Len(s) /\ m + i < Len(s) /\ m + (i - 1) = (m + i) - 1
        /\ (m + i) - 1 \in 0 .. Len(s) /\ (m + i) - 1 < Len(s) /\ i + 1 \in 1 .. l
        /\ m + (i + 1) = (m + i) + 1
    BY <1>1, <2>1, <2>2
  <2>4. Like(f[i - 1], g[(m + i) - 1]) /\ Settled(f[i - 1]) /\ Settled(g[(m + i) - 1])
    BY <1>3, <1>9, <2>3
  <2>5. b[i] = s[m + i] /\ s[m + i] \in Char
    BY <1>2, <2>3, BehindIs
  <2>6. CharOrNone(b, i + 1) = s[m + i + 1] /\ CharOrNone(s, m + i + 1) = s[m + i + 1]
    <3>1. CharOrNone(b, i + 1) = b[i + 1]
      BY <1>2, <2>3, BehindIs
    <3>2. b[i + 1] = s[m + (i + 1)]
      BY <1>2, <2>3
    <3>3. CharOrNone(s, (m + i) + 1) = s[(m + i) + 1]
      BY <2>3, BehindIs
    <3> QED
      BY <3>1, <3>2, <3>3, <2>3
  <2>7. f[i] = Turn(f[i - 1], s[m + i], s[m + i + 1])
    BY <1>8, <2>3, <2>5, <2>6
  <2>8. g[m + i] = Turn(g[(m + i) - 1], s[m + i], s[m + i + 1])
    BY <2>3, <2>6 DEF WholeRun
  <2>9. Like(f[i], g[m + i])
    BY <2>4, <2>5, <2>7, <2>8, TurnsLike
  <2> QED
    BY <2>1, <2>9
<1>11. f[l] = Turn(f[l - 1], s[n], None)
  <2>1. l \in 1 .. l /\ l \in 0 .. Len(b) /\ l = Len(b)
    BY <1>1, <1>2
  <2>2. b[l] = s[n] /\ CharOrNone(b, l + 1) = None
    BY <1>1, <1>2, <2>1, BehindIs
  <2> QED
    BY <1>8, <2>1, <2>2
<1>12. Settled(f[l - 1]) /\ Like(f[l - 1], g[n - 1])
  <2>1. l - 1 \in 0 .. l /\ l - 1 < l /\ m + (l - 1) = n - 1 /\ l - 1 \notin Bad
    BY <1>1, <1>10
  <2> QED
    BY <1>9, <2>1
<1> QED
  BY <1>1, <1>4, <1>11, <1>12 DEF Cut, b

\* What finish makes of a parser without an error: only has_trailing_comma_ counts,
\* it is t.
Ended(p, t) ==
    LET q == [p EXCEPT !.finished = TRUE]
        e == EndRecord(q, t)
    IN  IF q.quoted THEN [q EXCEPT !.error = "QuoteNotClosed"]
        ELSE IF q.newlining
             THEN IF e.error # "Ok" THEN e
                  ELSE [e EXCEPT !.after_record_sep = TRUE, !.newlining = FALSE, !.skip = FALSE]
        ELSE IF q.after_record_sep THEN q
        ELSE Separated([e EXCEPT !.skip = FALSE], FALSE, TRUE)

\* A parser that has met no error finishes as Ended says.
LEMMA FinishedIs ==
    ASSUME Facts, NEW p, Turned(p, None), p.error = "Ok"
    PROVE  Finished(p) = Ended(p, trailing)
<1> DEFINE q == [p EXCEPT !.finished = TRUE]
           e == EndRecord(q, trailing)
<1>1. "lf" # None /\ "lf" \in Char
  BY ConstantsAssumption DEF Special
<1>2. /\ q.error = "Ok" /\ ~q.skip /\ (~q.quoted => ~q.escaping)
  BY DEF Turned, Parser
<1>3. Finished(p) = IF q.quoted THEN [q EXCEPT !.error = "QuoteNotClosed"]
                    ELSE IF q.newlining THEN Executed(q, <<>>)
                    ELSE IF q.after_record_sep THEN q
                    ELSE Executed(q, <<"lf">>)
  BY DEF Finished
<1>4. Ended(p, trailing) =
        IF q.quoted THEN [q EXCEPT !.error = "QuoteNotClosed"]
        ELSE IF q.newlining
             THEN IF e.error # "Ok" THEN e
                  ELSE [e EXCEPT !.after_record_sep = TRUE, !.newlining = FALSE, !.skip = FALSE]
        ELSE IF q.after_record_sep THEN q
        ELSE Separated([e EXCEPT !.skip = FALSE], FALSE, TRUE)
  BY DEF Ended
<1> HIDE DEF q
<1>5. CASE ~q.quoted /\ q.newlining
  <2>1. CharOrNone(<<>>, 1) = None /\ Len(<<>>) = 0
    BY DEF CharOrNone
  <2>2. PICK run : Runs(run, q, <<>>) /\ Executed(q, <<>>) = run[0]
    <3>1. Len(<<>>) \in Nat
      BY <2>1
    <3> QED
      BY <2>1, <3>1, ExecutedRuns
  <2>3. Executed(q, <<>>) = Resumed(q, None)
    BY <2>1, <2>2 DEF Runs
  <2>4. Resumed(q, None) = ResumeNewline(q, None)
    BY <1>2, <1>5 DEF Resumed, ResumeEscape
  <2> HIDE DEF e
  <2>5. ResumeNewline(q, None) = IF e.error # "Ok" THEN e
            ELSE [e EXCEPT !.after_record_sep = TRUE, !.newlining = FALSE, !.skip = FALSE]
    BY <1>1, <1>5 DEF ResumeNewline, e
  <2> QED
    BY <1>3, <1>4, <1>5, <2>3, <2>4, <2>5
<1>6. CASE ~q.quoted /\ ~q.newlining /\ ~q.after_record_sep
  <2> DEFINE b == <<"lf">>
  <2>1. /\ Len(b) = 1 /\ b[1] = "lf" /\ CharOrNone(b, 1) = "lf" /\ CharOrNone(b, 2) = None
    BY DEF CharOrNone
  <2> HIDE DEF b
  <2>2. PICK run : Runs(run, q, b) /\ Executed(q, b) = run[1]
    <3>1. Len(b) \in Nat
      BY <2>1
    <3> QED
      BY <2>1, <3>1, ExecutedRuns
  <2>3. Executed(q, b) = Turn(Resumed(q, "lf"), "lf", None)
    <3>1. 1 \in 1 .. Len(b) /\ 1 - 1 = 0 /\ 1 + 1 = 2
      BY <2>1
    <3> QED
      BY <2>1, <2>2, <3>1 DEF Runs
  <2>4. Resumed(q, "lf") = q
    BY <1>2, <1>6 DEF Resumed, ResumeEscape, ResumeNewline
  <2>5. Turn(q, "lf", None) = LineEnd(q, "lf", None)
    BY <1>2, TurnIs DEF LineEnds
  <2>6. LineEnd(q, "lf", None) = Separated([e EXCEPT !.skip = FALSE], FALSE, TRUE)
    BY <1>6 DEF LineEnd
  <2> QED
    BY <1>3, <1>4, <1>6, <2>3, <2>4, <2>5, <2>6 DEF b
<1>7. CASE q.quoted
  BY <1>3, <1>4, <1>7
<1>8. CASE ~q.quoted /\ ~q.newlining /\ q.after_record_sep
  BY <1>3, <1>4, <1>8
<1> QED
  BY <1>5, <1>6, <1>7, <1>8

\* What TypeOK says of a parser.
Tidy(p) ==
    /\ p.error \in Errors
    /\ p.escaping => p.quoted
    /\ p.newlining => ~p.quoted
    /\ p.error = "Ok" => ~p.skip
    /\ p.error = "Ok" /\ p.after_record_sep => p.col_idx = 0 /\ p.current_field = <<>>

\* A parser that has finished is as TypeOK says.
LEMMA EndedTidy ==
    ASSUME Facts, NEW p, Turned(p, None), p.error = "Ok"
    PROVE  Tidy(Ended(p, trailing)) /\ Ended(p, trailing).finished
<1> DEFINE q == [p EXCEPT !.finished = TRUE]
           e == EndRecord(q, trailing)
           r == Ended(p, trailing)
<1> SUFFICES Tidy(r) /\ r.finished
  OBVIOUS
<1>1. /\ q \in Parser /\ q.error = "Ok" /\ ~q.skip /\ q.finished
      /\ (q.escaping => q.quoted) /\ (q.newlining => ~q.quoted)
      /\ q.after_record_sep => q.col_idx = 0 /\ q.current_field = <<>>
      /\ q.after_field_sep => q.current_field = <<>>
  BY DEF Turned, Sound, Parser
<1>2. r =
        IF q.quoted THEN [q EXCEPT !.error = "QuoteNotClosed"]
        ELSE IF q.newlining
             THEN IF e.error # "Ok" THEN e
                  ELSE [e EXCEPT !.after_record_sep = TRUE, !.newlining = FALSE, !.skip = FALSE]
        ELSE IF q.after_record_sep THEN q
        ELSE Separated([e EXCEPT !.skip = FALSE], FALSE, TRUE)
  BY DEF Ended
<1> HIDE DEF q, r
<1>3. /\ e \in Parser /\ e.finished /\ e.quoted = q.quoted /\ e.escaping = q.escaping
      /\ e.newlining = q.newlining
      /\ e.error = "Ok" => e.col_idx = 0 /\ e.current_field = <<>>
  BY <1>1, RecordEnds DEF Facts
<1> HIDE DEF e
<1>4. CASE q.quoted
  BY <1>1, <1>2, <1>4 DEF Tidy, Parser, Errors
<1>5. CASE ~q.quoted /\ q.newlining /\ e.error # "Ok"
  BY <1>1, <1>2, <1>3, <1>5 DEF Tidy, Parser
<1>6. CASE ~q.quoted /\ q.newlining /\ e.error = "Ok"
  BY <1>1, <1>2, <1>3, <1>6 DEF Tidy, Parser
<1>7. CASE ~q.quoted /\ ~q.newlining /\ q.after_record_sep
  BY <1>1, <1>2, <1>7 DEF Tidy, Parser
<1>8. CASE ~q.quoted /\ ~q.newlining /\ ~q.after_record_sep
  <2>1. r = Separated([e EXCEPT !.skip = FALSE], FALSE, TRUE)
    BY <1>2, <1>8
  <2>2. r = [e EXCEPT !.skip = FALSE, !.after_field_sep = FALSE, !.after_record_sep = TRUE]
    BY <2>1, <1>3 DEF Separated, Parser
  <2> QED
    BY <1>1, <1>3, <1>8, <2>2 DEF Tidy, Parser
<1> QED
  BY <1>4, <1>5, <1>6, <1>7, <1>8

\* Parsers that are alike end alike.
LEMMA EndedLike ==
    ASSUME Facts, NEW p, NEW w, Turned(p, None), Turned(w, None), Like(p, w), p.error = "Ok"
    PROVE  /\ (Ended(p, trailing).error = "Ok") = (Ended(w, trailing).error = "Ok")
           /\ Ended(p, trailing).error = "Ok" => Ended(p, trailing).fields = Ended(w, trailing).fields
<1>1. CASE p = w
  BY <1>1
<1>2. CASE /\ p = [w EXCEPT !.after_field_sep = TRUE] /\ w.error = "Ok"
           /\ ~w.after_field_sep /\ w.after_record_sep /\ w.after_first_row
  <2> DEFINE q == [p EXCEPT !.finished = TRUE]
             v == [w EXCEPT !.finished = TRUE]
             a == EndRecord(q, trailing)
             b == EndRecord(v, trailing)
  <2>1. /\ q \in Parser /\ v \in Parser /\ Sound(v) /\ v.error = "Ok" /\ Like(q, v) /\ q.error = "Ok"
        /\ ~v.quoted /\ ~q.quoted /\ v.newlining = q.newlining /\ q.fields = v.fields
        /\ q.after_record_sep /\ v.after_record_sep
    BY <1>2 DEF Turned, Sound, Like, Parser
  <2>2. /\ Ended(p, trailing) =
             IF q.newlining
             THEN IF a.error # "Ok" THEN a
                  ELSE [a EXCEPT !.after_record_sep = TRUE, !.newlining = FALSE, !.skip = FALSE]
             ELSE q
        /\ Ended(w, trailing) =
             IF v.newlining
             THEN IF b.error # "Ok" THEN b
                  ELSE [b EXCEPT !.after_record_sep = TRUE, !.newlining = FALSE, !.skip = FALSE]
             ELSE v
    BY <2>1 DEF Ended
  <2> HIDE DEF q, v
  <2>3. /\ a.error # "Ok" <=> b.error # "Ok"
        /\ b.error = "Ok" => a = b \/ a = [b EXCEPT !.after_field_sep = TRUE]
        /\ a \in Parser /\ b \in Parser
    BY <2>1, RecordsEndLike, RecordEnds DEF Facts
  <2> HIDE DEF a, b
  <2>4. CASE v.newlining
    BY <2>1, <2>2, <2>3, <2>4, SMTT(30) DEF Parser
  <2>5. CASE ~v.newlining
    BY <2>1, <2>2, <2>5
  <2> QED
    BY <2>4, <2>5
<1> QED
  BY <1>1, <1>2 DEF Like

-----------------------------------------------------------------------------
(* A text is one of characters. *)

\* What is joined of sequences over a set is one.
LEMMA FlattenType ==
    ASSUME NEW S, NEW seqs \in Seq(Seq(S))
    PROVE  FlattenSeq(seqs) \in Seq(S)
<1> DEFINE n == Len(seqs)
<1>1. n \in Nat /\ \A i \in 1 .. n : seqs[i] \in Seq(S)
  BY LenProperties, ElementOfSeq
<1>2. CASE n = 0
  <2>1. FlattenSeq(seqs) = seqs /\ seqs = <<>>
    BY <1>2, EmptySeq DEF FlattenSeq
  <2> QED
    BY <2>1
<1>3. CASE n # 0
  <2>1. n \in Nat \ {0}
    BY <1>1, <1>3
  <2> HIDE DEF n
  <2>2. PICK first, all : all \in Seq(S) /\ Follow(S, seqs, n, first, all)
    BY <1>1, <2>1, FollowExists
  <2>3. FlattenSeq(seqs) = all
    BY <2>2, FlattenedIsAll DEF n
  <2> QED
    BY <2>2, <2>3
<1> QED
  BY <1>2, <1>3

\* What is written of a field is a text of the characters.
LEMMA WriteFieldType ==
    ASSUME Facts, NEW field \in Seq(Char), NEW quotes
    PROVE  WriteField(field, quotes, escape) \in Seq(Char)
<1> DEFINE F(i) == IF field[i] \in {"quote", escape} THEN <<escape, field[i]>> ELSE <<field[i]>>
           seqs == [i \in DOMAIN field |-> F(i)]
<1>1. "quote" \in Char /\ escape \in Char /\ <<"quote">> \in Seq(Char)
  BY ConstantsAssumption DEF Facts, Special
<1>2. DOMAIN field = 1 .. Len(field) /\ Len(field) \in Nat
  BY LenProperties
<1>3. ASSUME NEW i \in 1 .. Len(field) PROVE F(i) \in Seq(Char)
  <2>1. field[i] \in Char
    BY <1>3, ElementOfSeq
  <2> QED
    BY <1>1, <2>1
<1>4. seqs \in Seq(Seq(Char))
  <2> HIDE DEF F
  <2> QED
    BY <1>2, <1>3, IsASeq
<1>5. FlattenSeq(seqs) \in Seq(Char)
  <2> HIDE DEF seqs
  <2> QED
    BY <1>4, FlattenType
<1>6. WriteField(field, quotes, escape) =
         IF quotes \/ NeedsQuotes(field) THEN <<"quote">> \o FlattenSeq(seqs) \o <<"quote">> ELSE field
  BY DEF WriteField
<1> HIDE DEF seqs
<1>7. <<"quote">> \o FlattenSeq(seqs) \o <<"quote">> \in Seq(Char)
  BY <1>1, <1>5
<1> QED
  BY <1>6, <1>7

\* So is what is written of a row,
LEMMA WriteRowType ==
    ASSUME Facts, NEW row \in Seq(Seq(Char)), NEW quotes
    PROVE  WriteRow(row, quotes, escape, trailing) \in Seq(Char)
<1> DEFINE F(c) == WriteField(row[c], quotes, escape)
                   \o (IF trailing \/ c < Len(row) THEN <<"comma">> ELSE <<>>)
           seqs == [c \in DOMAIN row |-> F(c)]
<1>1. <<"comma">> \in Seq(Char) /\ <<>> \in Seq(Char)
  BY ConstantsAssumption DEF Special
<1>2. DOMAIN row = 1 .. Len(row) /\ Len(row) \in Nat
  BY LenProperties
<1>3. ASSUME NEW c \in 1 .. Len(row) PROVE F(c) \in Seq(Char)
  <2>1. row[c] \in Seq(Char)
    BY <1>3, ElementOfSeq
  <2>2. WriteField(row[c], quotes, escape) \in Seq(Char)
    BY <2>1, WriteFieldType
  <2> QED
    BY <1>1, <2>2
<1>4. seqs \in Seq(Seq(Char))
  <2> HIDE DEF F
  <2> QED
    BY <1>2, <1>3, IsASeq
<1>5. WriteRow(row, quotes, escape, trailing) = FlattenSeq(seqs)
  BY DEF WriteRow
<1> HIDE DEF seqs
<1> QED
  BY <1>4, <1>5, FlattenType

\* and of a table.
LEMMA WriteType ==
    ASSUME Facts, NEW table \in Seq(Seq(Seq(Char))), NEW quotes, NEW last, NEW line_end \in Seq(Char)
    PROVE  Write(table, quotes, escape, trailing, line_end, last) \in Seq(Char)
<1> DEFINE F(r) == WriteRow(table[r], quotes, escape, trailing)
                   \o (IF last \/ r < Len(table) THEN line_end ELSE <<>>)
           seqs == [r \in DOMAIN table |-> F(r)]
<1>1. <<>> \in Seq(Char)
  OBVIOUS
<1>2. DOMAIN table = 1 .. Len(table) /\ Len(table) \in Nat
  BY LenProperties
<1>3. ASSUME NEW r \in 1 .. Len(table) PROVE F(r) \in Seq(Char)
  <2>1. table[r] \in Seq(Seq(Char))
    BY <1>3, ElementOfSeq
  <2>2. WriteRow(table[r], quotes, escape, trailing) \in Seq(Char)
    BY <2>1, WriteRowType
  <2> QED
    BY <1>1, <2>2
<1>4. seqs \in Seq(Seq(Char))
  <2> HIDE DEF F
  <2> QED
    BY <1>2, <1>3, IsASeq
<1>5. Write(table, quotes, escape, trailing, line_end, last) = FlattenSeq(seqs)
  BY DEF Write
<1> HIDE DEF seqs
<1> QED
  BY <1>4, <1>5, FlattenType

-----------------------------------------------------------------------------
(* Reading what was written: the turns on one or two characters. *)

\* Nothing is pending in the parser, and it has not met an error.
Calm(p) == p \in Parser /\ p.error = "Ok" /\ ~p.skip /\ ~p.escaping /\ ~p.newlining /\ ~p.finished

\* From p to q no field has ended.
Stays(p, q) ==
    /\ q.col_idx = p.col_idx /\ q.row_idx = p.row_idx /\ q.num_cols = p.num_cols
    /\ q.after_first_row = p.after_first_row /\ q.fields = p.fields

\* Parser q is p with current_field, within a field or behind it.
Within(p, q, quoted, field) ==
    /\ Calm(q) /\ Stays(p, q) /\ q.quoted = quoted /\ q.current_field = field
    /\ ~q.after_field_sep /\ ~q.after_record_sep

\* A turn that pushes a character and may consume the next one.
LEMMA Pushes ==
    ASSUME NEW p, Calm(p), NEW c \in Char, NEW s \in BOOLEAN, NEW q,
           q = Separated([PushBack(p, c) EXCEPT !.skip = s], FALSE, FALSE)
    PROVE  /\ Within(p, [q EXCEPT !.skip = FALSE], p.quoted, Append(p.current_field, c))
           /\ q.skip = s /\ q.error = "Ok" /\ (~s => q = [q EXCEPT !.skip = FALSE])
<1> DEFINE f == Append(p.current_field, c)
           r == [p EXCEPT !.current_field = f, !.skip = s,
                          !.after_field_sep = FALSE, !.after_record_sep = FALSE]
<1>1. p \in Parser /\ f \in Seq(Char)
  BY DEF Calm, Parser
<1>2. q = r
  BY <1>1 DEF Separated, PushBack, Parser
<1> HIDE DEF f
<1>3. r \in Parser /\ r.error = "Ok" /\ r.skip = s /\ r.current_field = f
      /\ [r EXCEPT !.skip = FALSE] \in Parser
      /\ (~s => r = [r EXCEPT !.skip = FALSE])
  BY <1>1 DEF Parser, Calm
<1>4. Within(p, [r EXCEPT !.skip = FALSE], p.quoted, f)
  BY <1>1, <1>3 DEF Within, Calm, Stays, Parser
<1> QED
  BY <1>2, <1>3, <1>4 DEF f

\* A character that is part of a field.
LEMMA PlainRead ==
    ASSUME Facts, NEW p, Calm(p), NEW c \in Char, NEW n,
           p.quoted => c \notin {"quote", escape}, ~p.quoted => c \notin Special
    PROVE  Within(p, Turn(p, c, n), p.quoted, Append(p.current_field, c))
<1> DEFINE r == PushBack(p, c)
           q == Separated(r, FALSE, FALSE)
<1>1. p \in Parser /\ p.error = "Ok" /\ p.skip = FALSE
  BY DEF Calm, Parser
<1>2. Turn(p, c, n) = q
  <2>1. CASE p.quoted
    BY <2>1, <1>1, TurnIs DEF Comma, LineEnd
  <2>2. CASE ~p.quoted
    <3>1. c \notin {"comma", "lf", "cr", "quote"}
      BY <2>2 DEF Special
    <3> QED
      BY <2>2, <3>1, <1>1, TurnIs DEF LineEnds, Escape
  <2> QED
    BY <2>1, <2>2
<1>3. r \in Parser /\ r.skip = FALSE
  BY <1>1, Types DEF PushBack, Parser
<1>4. [r EXCEPT !.skip = FALSE] = r
  BY <1>3 DEF Parser
<1>5. q = Separated([PushBack(p, c) EXCEPT !.skip = FALSE], FALSE, FALSE)
  BY <1>4
<1> HIDE DEF q
<1>6. Within(p, [q EXCEPT !.skip = FALSE], p.quoted, Append(p.current_field, c)) /\ q = [q EXCEPT !.skip = FALSE]
  BY <1>5, Pushes
<1> QED
  BY <1>2, <1>6

\* An escaped quote or escape within quotes.
LEMMA EscapedRead ==
    ASSUME Facts, NEW p, Calm(p), p.quoted, NEW c \in {"quote", escape}, NEW n
    PROVE  Within(p, Turn(Turn(p, escape, c), c, n), TRUE, Append(p.current_field, c))
<1> DEFINE q == Turn(p, escape, c)
<1>1. p \in Parser /\ p.error = "Ok" /\ p.skip = FALSE
  BY DEF Calm, Parser
<1>2. c \in Char /\ c # None
  BY ConstantsAssumption DEF Facts, Special
<1>3. q = Separated([PushBack(p, c) EXCEPT !.skip = TRUE], FALSE, FALSE)
  <2>1. CASE escape = "quote"
    BY <2>1, <1>1, <1>2, TurnIs DEF Quote, LineEnds
  <2>2. CASE escape # "quote"
    BY <2>2, <1>1, <1>2, TurnIs DEF Escape, Facts, LineEnds
  <2> QED
    BY <2>1, <2>2
<1> HIDE DEF q
<1>4. q.skip /\ q.error = "Ok" /\ Within(p, [q EXCEPT !.skip = FALSE], p.quoted, Append(p.current_field, c))
  BY <1>2, <1>3, Pushes
<1>5. Turn(q, c, n) = [q EXCEPT !.skip = FALSE]
  BY <1>4, TurnIs
<1> QED
  BY <1>4, <1>5 DEF q, Within

\* A quote that begins a field, and one that ends it.
LEMMA QuotesRead ==
    ASSUME Facts, NEW p, Calm(p), NEW n, p.quoted /\ escape = "quote" => n \notin {None, "quote"}
    PROVE  Within(p, Turn(p, "quote", n), ~p.quoted, p.current_field)
<1>1. p \in Parser /\ p.error = "Ok" /\ p.skip = FALSE
  BY DEF Calm, Parser
<1> DEFINE b == ~p.quoted
           q == Separated([p EXCEPT !.quoted = b], FALSE, FALSE)
<1>2. Turn(p, "quote", n) = q
  <2>1. Turn(p, "quote", n) = Quote(p, n)
    BY <1>1, TurnIs DEF LineEnds
  <2>2. CASE p.quoted /\ escape = "quote"
    BY <2>1, <2>2, <1>1 DEF Quote
  <2>3. CASE ~(p.quoted /\ escape = "quote")
    BY <2>1, <2>3, <1>1 DEF Quote
  <2> QED
    BY <2>2, <2>3
<1>3. b \in BOOLEAN
  OBVIOUS
<1>4. Within(p, q, b, p.current_field)
  <2> HIDE DEF b
  <2>1. q = [p EXCEPT !.quoted = b, !.after_field_sep = FALSE, !.after_record_sep = FALSE]
    BY <1>1 DEF Separated, Parser
  <2> HIDE DEF q
  <2> QED
    BY <1>1, <1>3, <2>1 DEF Within, Calm, Stays, Parser
<1> QED
  BY <1>2, <1>4

\* A comma behind a field.
LEMMA CommaRead ==
    ASSUME Facts, NEW p, Calm(p), ~p.quoted, NEW n, NEW q, q = Turn(p, "comma", n)
    PROVE  /\ Calm(q) /\ ~q.quoted /\ q.current_field = <<>>
           /\ q.col_idx = p.col_idx + 1 /\ q.row_idx = p.row_idx /\ q.num_cols = p.num_cols
           /\ q.after_first_row = p.after_first_row
           /\ q.fields = Append(p.fields, <<p.col_idx, p.row_idx, p.current_field>>)
           /\ q.after_field_sep /\ ~q.after_record_sep
<1> DEFINE f == Append(p.fields, <<p.col_idx, p.row_idx, p.current_field>>)
           k == p.col_idx + 1
<1>1. p \in Parser /\ p.error = "Ok" /\ p.skip = FALSE
  BY DEF Calm, Parser
<1>2. <<p.col_idx, p.row_idx, p.current_field>> \in Nat \X Nat \X Seq(Char)
  BY <1>1 DEF Parser
<1>3. f \in Seq(Nat \X Nat \X Seq(Char)) /\ k \in Nat /\ <<>> \in Seq(Char)
  BY <1>1, <1>2 DEF Parser
<1>4. q = Comma(p)
  BY <1>1, TurnIs
<1>5. q = [p EXCEPT !.fields = f, !.current_field = <<>>, !.col_idx = k,
                    !.after_field_sep = TRUE, !.after_record_sep = FALSE]
  BY <1>1, <1>4 DEF Comma, OnField, Separated, Parser
<1> HIDE DEF f, k
<1>6. q \in Parser
  BY <1>1, <1>3, <1>5 DEF Parser
<1>7. /\ q.error = "Ok" /\ ~q.skip /\ ~q.escaping /\ ~q.newlining /\ ~q.finished
      /\ ~q.quoted /\ q.current_field = <<>> /\ q.col_idx = k
      /\ q.row_idx = p.row_idx /\ q.num_cols = p.num_cols /\ q.after_first_row = p.after_first_row
      /\ q.fields = f /\ q.after_field_sep /\ ~q.after_record_sep
  BY <1>1, <1>5 DEF Calm, Parser
<1> QED
  BY <1>6, <1>7 DEF Calm, f, k

-----------------------------------------------------------------------------
(* Reading what was written: parts of a text. *)

\* The words w stand in s behind the first a characters.
At(s, a, w) ==
    /\ a \in Nat /\ a + Len(w) <= Len(s)
    /\ \A k \in 1 .. Len(w) : s[a + k] = w[k]

\* What a joined sequence is part of, its parts are parts of, one behind the other.
LEMMA AtParts ==
    ASSUME NEW s \in Seq(Char), NEW a, NEW all \in Seq(Char), At(s, a, all),
           NEW seqs, NEW n, NEW first, Follow(Char, seqs, n, first, all), NEW p \in 1 .. n
    PROVE  /\ At(s, a + first[p], seqs[p])
           /\ a + first[p] \in Nat
           /\ (a + first[p]) + Len(seqs[p]) = a + first[p + 1]
           /\ a + first[p + 1] <= a + Len(all)
<1> DEFINE w == seqs[p]
           f == first[p]
           m == Len(all)
<1>1. a \in Nat /\ m \in Nat /\ Len(s) \in Nat /\ a + m <= Len(s) /\ \A k \in 1 .. m : s[a + k] = all[k]
  BY LenProperties DEF At
<1>2. n \in Nat /\ p \in 1 .. n + 1
  BY DEF Follow
<1>3. /\ w \in Seq(Char) /\ f \in Nat /\ first[p + 1] = f + Len(w) /\ first[p + 1] <= m
      /\ \A k \in 1 .. Len(w) : w[k] = all[f + k]
  BY <1>2 DEF Follow
<1>4. Len(w) \in Nat
  BY <1>3, LenProperties
<1>5. first[p + 1] = f + Len(w)
  BY <1>3
<1> DEFINE l == Len(w)
<1> HIDE DEF w, f, m
<1>6. ASSUME NEW k \in 1 .. l PROVE s[(a + f) + k] = w[k]
  <2>1. l \in Nat
    BY <1>4
  <2>2. f + k \in 1 .. m /\ a + (f + k) = (a + f) + k
    <3>1. f + l <= m
      BY <1>3
    <3> HIDE DEF l
    <3> QED
      BY <1>1, <1>3, <2>1, <3>1
  <2> QED
    BY <1>1, <1>3, <2>2
<1>7. a + f \in Nat /\ (a + f) + l <= Len(s) /\ (a + f) + l = a + first[p + 1] /\ a + first[p + 1] <= a + m
  <2>1. l \in Nat /\ f + l <= m /\ first[p + 1] = f + l
    BY <1>3, <1>4
  <2> HIDE DEF l
  <2> QED
    BY <1>1, <1>3, <2>1
<1>8. At(s, a + f, w)
  BY <1>6, <1>7 DEF At
<1> QED
  BY <1>7, <1>8 DEF w, f, m

\* The same of two sequences.
LEMMA AtConcat ==
    ASSUME NEW s \in Seq(Char), NEW a, NEW u \in Seq(Char), NEW v \in Seq(Char), At(s, a, u \o v)
    PROVE  /\ At(s, a, u) /\ At(s, a + Len(u), v)
           /\ Len(u \o v) = Len(u) + Len(v)
           /\ a + Len(u \o v) = (a + Len(u)) + Len(v)
<1> DEFINE w == u \o v
           k == Len(u)
           l == Len(v)
<1>1. Len(w) = k + l /\ (\A i \in 1 .. k + l : w[i] = IF i <= k THEN u[i] ELSE v[i - k])
  BY ConcatProperties, Zenon
<1>2. k \in Nat /\ l \in Nat /\ Len(s) \in Nat
  BY LenProperties
<1>3. a \in Nat /\ a + Len(w) <= Len(s) /\ \A i \in 1 .. Len(w) : s[a + i] = w[i]
  BY DEF At
<1> HIDE DEF w, k, l
<1>4. ASSUME NEW i \in 1 .. k PROVE s[a + i] = u[i]
  <2>1. i \in 1 .. k + l /\ i <= k
    BY <1>2
  <2> QED
    BY <1>1, <1>3, <2>1
<1>5. ASSUME NEW i \in 1 .. l PROVE s[(a + k) + i] = v[i]
  <2>1. k + i \in 1 .. k + l /\ ~(k + i <= k) /\ (k + i) - k = i /\ a + (k + i) = (a + k) + i
    BY <1>2, <1>3
  <2> QED
    BY <1>1, <1>3, <2>1
<1>6. a + k <= Len(s) /\ a + k \in Nat /\ (a + k) + l <= Len(s) /\ a + (k + l) = (a + k) + l
  BY <1>1, <1>2, <1>3
<1> QED
  BY <1>1, <1>3, <1>4, <1>5, <1>6 DEF At, k, l, w

\* The run on a text makes its turns on the words in it.
LEMMA TurnAt ==
    ASSUME NEW s \in Seq(Char), NEW g, WholeRun(g, s), NEW w \in Seq(Char), NEW a, At(s, a, w),
           NEW i \in 1 .. Len(w)
    PROVE  /\ g[a + i] = Turn(g[a + (i - 1)], w[i], CharOrNone(s, (a + i) + 1))
           /\ i < Len(w) => CharOrNone(s, (a + i) + 1) = w[i + 1]
           /\ i = Len(w) => a + i = a + Len(w)
           /\ w[i] \in Char
<1> DEFINE l == Len(w)
           m == Len(s)
<1>1. l \in Nat /\ m \in Nat /\ DOMAIN s = 1 .. m
  BY LenProperties
<1>2. a \in Nat /\ a + l <= m /\ \A k \in 1 .. l : s[a + k] = w[k]
  BY DEF At
<1>3. \A k \in 1 .. m : g[k] = Turn(g[k - 1], s[k], CharOrNone(s, k + 1))
  BY DEF WholeRun
<1>4. w[i] \in Char
  BY ElementOfSeq
<1>5. i \in 1 .. l
  OBVIOUS
<1> HIDE DEF l, m
<1>6. a + i \in 1 .. m /\ (a + i) - 1 = a + (i - 1)
  BY <1>1, <1>2, <1>5
<1>7. ASSUME i < l PROVE CharOrNone(s, (a + i) + 1) = w[i + 1]
  <2>1. (a + i) + 1 \in 1 .. m /\ (a + i) + 1 = a + (i + 1) /\ i + 1 \in 1 .. l
    BY <1>1, <1>2, <1>5, <1>7
  <2> QED
    BY <1>1, <1>2, <2>1 DEF CharOrNone
<1>8. g[a + i] = Turn(g[a + (i - 1)], w[i], CharOrNone(s, (a + i) + 1))
  BY <1>2, <1>3, <1>5, <1>6
<1> QED
  BY <1>4, <1>7, <1>8 DEF l

\* What comes next after the words w, when the words v follow.
LEMMA NextAt ==
    ASSUME NEW s \in Seq(Char), NEW v \in Seq(Char), v # <<>>, NEW b, At(s, b, v)
    PROVE  CharOrNone(s, b + 1) = v[1] /\ v[1] \in Char /\ Len(v) \in Nat \ {0}
<1>1. Len(v) \in Nat \ {0} /\ Len(s) \in Nat /\ DOMAIN s = 1 .. Len(s)
  BY LenProperties, EmptySeq
<1> DEFINE l == Len(v)
           m == Len(s)
<1>2. b \in Nat /\ b + l <= m /\ \A k \in 1 .. l : s[b + k] = v[k]
  BY DEF At
<1>3. v[1] \in Char
  BY <1>1, ElementOfSeq
<1>4. DOMAIN s = 1 .. m /\ l \in Nat \ {0} /\ m \in Nat
  BY <1>1
<1> HIDE DEF l, m
<1>5. b + 1 \in 1 .. m /\ 1 \in 1 .. l
  BY <1>2, <1>4
<1> QED
  BY <1>1, <1>2, <1>3, <1>4, <1>5 DEF CharOrNone

-----------------------------------------------------------------------------
(* Reading what was written: a field. *)

\* The beginnings of a sequence.
LEMMA PrefixGrows ==
    ASSUME NEW S, NEW f \in Seq(S)
    PROVE  /\ SubSeq(f, 1, 0) = <<>> /\ SubSeq(f, 1, Len(f)) = f
           /\ \A i \in 1 .. Len(f) : Append(SubSeq(f, 1, i - 1), f[i]) = SubSeq(f, 1, i)
           /\ \A i \in 0 .. Len(f) : SubSeq(f, 1, i) \in Seq(S)
<1> DEFINE l == Len(f)
<1>1. l \in Nat /\ \A i \in 1 .. l : f[i] \in S
  BY LenProperties, ElementOfSeq
<1> HIDE DEF l
<1>2. ASSUME NEW i \in 0 .. l
      PROVE  /\ SubSeq(f, 1, i) \in Seq(S) /\ Len(SubSeq(f, 1, i)) = i
             /\ \A k \in 1 .. i : SubSeq(f, 1, i)[k] = f[k]
  <2>1. 1 \in Int /\ i \in Int /\ \A k \in 1 .. i : f[k] \in S
    BY <1>1
  <2>2. /\ SubSeq(f, 1, i) \in Seq(S)
        /\ Len(SubSeq(f, 1, i)) = IF 1 <= i THEN i - 1 + 1 ELSE 0
        /\ \A k \in 1 .. i - 1 + 1 : SubSeq(f, 1, i)[k] = f[1 + k - 1]
    BY ONLY <2>1, SubSeqProperties
  <2>3. i - 1 + 1 = i /\ (~(1 <= i) => i = 0)
    BY <1>1
  <2>4. \A k \in 1 .. i : 1 + k - 1 = k
    BY <1>1
  <2> QED
    BY <2>2, <2>3, <2>4
<1>3. ASSUME NEW i \in 1 .. l PROVE Append(SubSeq(f, 1, i - 1), f[i]) = SubSeq(f, 1, i)
  <2> DEFINE a == SubSeq(f, 1, i - 1)
             b == SubSeq(f, 1, i)
             c == Append(a, f[i])
  <2>1. i - 1 \in 0 .. l /\ i \in 0 .. l /\ f[i] \in S
    BY <1>1
  <2>2. /\ a \in Seq(S) /\ Len(a) = i - 1 /\ \A k \in 1 .. (i - 1) : a[k] = f[k]
        /\ b \in Seq(S) /\ Len(b) = i /\ \A k \in 1 .. i : b[k] = f[k]
    BY <1>2, <2>1
  <2> HIDE DEF a, b
  <2>3. /\ c \in Seq(S) /\ Len(c) = (i - 1) + 1
        /\ \A k \in 1 .. (i - 1) : c[k] = a[k]
        /\ c[(i - 1) + 1] = f[i]
    BY <2>1, <2>2, AppendProperties
  <2> HIDE DEF c
  <2>4. ASSUME NEW k \in 1 .. i PROVE c[k] = b[k]
    <3>1. CASE k = i
      <4>1. (i - 1) + 1 = i
        BY <1>1
      <4> QED
        BY <2>2, <2>3, <3>1, <4>1
    <3>2. CASE k # i
      <4>1. k \in 1 .. (i - 1)
        BY <1>1, <3>2
      <4> QED
        BY <2>2, <2>3, <4>1
    <3> QED
      BY <3>1, <3>2
  <2>5. Len(c) = i
    BY <1>1, <2>3
  <2>6. c = b
    BY <2>2, <2>3, <2>4, <2>5, SeqEqual
  <2> QED
    BY <2>6 DEF a, b, c
<1>4. SubSeq(f, 1, l) = f
  <2>1. l \in 0 .. l
    BY <1>1
  <2>2. Len(SubSeq(f, 1, l)) = Len(f) /\ SubSeq(f, 1, l) \in Seq(S)
        /\ \A k \in 1 .. Len(f) : f[k] = SubSeq(f, 1, l)[k]
    BY <1>2, <2>1 DEF l
  <2> QED
    BY <2>2, SeqEqual
<1>5. SubSeq(f, 1, 0) = <<>>
  <2>1. 0 \in 0 .. l
    BY <1>1
  <2> QED
    BY <1>2, <2>1, EmptySeq
<1> QED
  BY <1>2, <1>3, <1>4, <1>5 DEF l

\* Parser q is p with the first i characters of the field read.
ReadUpTo(p, q, quoted, field, i) ==
    /\ Calm(q) /\ Stays(p, q) /\ q.quoted = quoted /\ q.current_field = SubSeq(field, 1, i)
    /\ quoted \/ i > 0 => ~q.after_field_sep /\ ~q.after_record_sep

\* One more character.
LEMMA ReadsOn ==
    ASSUME NEW p, NEW q, NEW r, NEW quoted \in BOOLEAN, NEW field \in Seq(Char), NEW i \in 1 .. Len(field),
           ReadUpTo(p, q, quoted, field, i - 1), Within(q, r, quoted, Append(q.current_field, field[i]))
    PROVE  ReadUpTo(p, r, quoted, field, i)
<1>1. Append(q.current_field, field[i]) = SubSeq(field, 1, i)
  <2>1. \A k \in 1 .. Len(field) : Append(SubSeq(field, 1, k - 1), field[k]) = SubSeq(field, 1, k)
    BY PrefixGrows
  <2> QED
    BY <2>1 DEF ReadUpTo
<1>2. Stays(p, r)
  BY DEF ReadUpTo, Within, Stays
<1> QED
  BY <1>1, <1>2 DEF ReadUpTo, Within

\* A field that is not in quotes.
LEMMA PlainFieldRead ==
    ASSUME Facts, NEW s \in Seq(Char), NEW g, WholeRun(g, s),
           NEW field \in Seq(Char), ~NeedsQuotes(field), NEW a, At(s, a, field),
           Calm(g[a]), ~g[a].quoted, g[a].current_field = <<>>
    PROVE  ReadUpTo(g[a], g[a + Len(field)], FALSE, field, Len(field))
<1> DEFINE p == g[a]
           l == Len(field)
           T == {i \in 0 .. l : ReadUpTo(p, g[a + i], FALSE, field, i)}
<1>1. l \in Nat /\ a \in Nat
  BY LenProperties DEF At
<1>2. 0 \in T
  <2>1. a + 0 = a /\ 0 \in 0 .. l
    BY <1>1
  <2>2. p.quoted = FALSE /\ ~(0 > 0)
    BY DEF Calm, Parser
  <2> QED
    <3>1. SubSeq(field, 1, 0) = <<>>
      BY PrefixGrows
    <3> HIDE DEF T
    <3>2. ReadUpTo(p, p, FALSE, field, 0)
      BY <2>2, <3>1 DEF ReadUpTo, Stays
    <3> QED
      BY <2>1, <3>2 DEF T
<1>3. ASSUME NEW i \in 1 .. l, i - 1 \in T PROVE i \in T
  <2>1. ReadUpTo(p, g[a + (i - 1)], FALSE, field, i - 1)
    BY <1>3
  <2>2. /\ g[a + i] = Turn(g[a + (i - 1)], field[i], CharOrNone(s, (a + i) + 1))
        /\ field[i] \in Char
    BY TurnAt
  <2>3. field[i] \notin Special
    <3>1. i \in DOMAIN field
      BY LenProperties
    <3> QED
      BY <3>1 DEF NeedsQuotes, ToSet
  <2> DEFINE q == g[a + (i - 1)]
             r == g[a + i]
  <2>4. Calm(q) /\ q.quoted = FALSE
    BY <2>1 DEF ReadUpTo
  <2>5. Within(q, r, FALSE, Append(q.current_field, field[i]))
    BY <2>2, <2>3, <2>4, PlainRead
  <2>6. ReadUpTo(p, r, FALSE, field, i)
    BY <2>1, <2>5, ReadsOn
  <2>7. i \in 0 .. l
    BY <1>1
  <2> QED
    BY <2>6, <2>7
<1>4. l \in 0 .. l
  BY <1>1
<1>5. l \in T
  <2> HIDE DEF T, l
  <2> QED
    BY <1>1, <1>2, <1>3, <1>4, Ascend
<1> QED
  BY <1>5

\* What stands between the quotes.
Escaped(field) ==
    [i \in DOMAIN field |-> IF field[i] \in {"quote", escape} THEN <<escape, field[i]>> ELSE <<field[i]>>]

\* What stands between the quotes, character by character.
LEMMA EscapedType ==
    ASSUME Facts, NEW field \in Seq(Char)
    PROVE  /\ Escaped(field) \in Seq(Seq(Char)) /\ Len(Escaped(field)) = Len(field)
           /\ \A i \in 1 .. Len(field) :
                 Escaped(field)[i] = IF field[i] \in {"quote", escape} THEN <<escape, field[i]>> ELSE <<field[i]>>
<1> DEFINE F(i) == IF field[i] \in {"quote", escape} THEN <<escape, field[i]>> ELSE <<field[i]>>
           seqs == [i \in DOMAIN field |-> F(i)]
<1>1. DOMAIN field = 1 .. Len(field) /\ Len(field) \in Nat
  BY LenProperties
<1>2. ASSUME NEW i \in 1 .. Len(field) PROVE F(i) \in Seq(Char)
  <2>1. field[i] \in Char /\ escape \in Char
    BY ElementOfSeq DEF Facts
  <2> QED
    BY <2>1
<1>3. \A i \in 1 .. Len(field) : seqs[i] = F(i)
  BY <1>1
<1>4. seqs \in Seq(Seq(Char)) /\ DOMAIN seqs = 1 .. Len(field)
  <2> HIDE DEF F
  <2> QED
    BY <1>1, <1>2, IsASeq
<1>5. seqs = Escaped(field)
  BY DEF Escaped
<1> HIDE DEF seqs
<1>6. Len(seqs) = Len(field)
  BY <1>1, <1>4, LenProperties
<1> QED
  BY <1>3, <1>4, <1>5, <1>6

\* The characters between the quotes are read back, one by one.
LEMMA EscapedFieldRead ==
    ASSUME Facts, NEW s \in Seq(Char), NEW g, WholeRun(g, s),
           NEW field \in Seq(Char), NEW b, At(s, b, FlattenSeq(Escaped(field))),
           NEW p, ReadUpTo(p, g[b], TRUE, field, 0)
    PROVE  ReadUpTo(p, g[b + Len(FlattenSeq(Escaped(field)))], TRUE, field, Len(field))
<1> DEFINE l == Len(field)
           seqs == Escaped(field)
<1>1. l \in Nat /\ b \in Nat
  BY LenProperties DEF At
<1>2. /\ seqs \in Seq(Seq(Char)) /\ Len(seqs) = l
      /\ \A i \in 1 .. l :
            seqs[i] = IF field[i] \in {"quote", escape} THEN <<escape, field[i]>> ELSE <<field[i]>>
  BY EscapedType
<1> HIDE DEF seqs
<1>3. CASE l = 0
  <2>1. FlattenSeq(seqs) = <<>>
    BY <1>2, <1>3, EmptySeq DEF FlattenSeq
  <2>2. b + Len(<<>>) = b
    BY <1>1
  <2> QED
    BY <1>3, <2>1, <2>2 DEF seqs
<1>4. CASE l # 0
  <2>1. l \in Nat \ {0} /\ \A i \in 1 .. l : seqs[i] \in Seq(Char)
    BY <1>1, <1>2, <1>4, ElementOfSeq
  <2> HIDE DEF l
  <2>2. PICK first, all : all \in Seq(Char) /\ Follow(Char, seqs, l, first, all)
    BY <2>1, FollowExists
  <2>3. FlattenSeq(seqs) = all
    BY <1>2, <2>2, FlattenedIsAll
  <2>4. At(s, b, all)
    BY <2>3 DEF seqs
  <2> DEFINE T == {i \in 0 .. l : ReadUpTo(p, g[b + first[i + 1]], TRUE, field, i)}
  <2>5. first[1] = 0 /\ first[l + 1] = Len(all)
    BY <2>2 DEF Follow
  <2>6. 0 \in T
    <3>1. b + first[0 + 1] = b /\ 0 \in 0 .. l
      BY <1>1, <2>5
    <3> QED
      BY <3>1
  <2>7. ASSUME NEW i \in 1 .. l, i - 1 \in T PROVE i \in T
    <3> DEFINE w == seqs[i]
               c == b + first[i]
               q == g[c]
               r == g[b + first[i + 1]]
    <3>1. /\ At(s, c, w) /\ c \in Nat /\ c + Len(w) = b + first[i + 1] /\ w \in Seq(Char)
      BY <2>1, <2>2, <2>4, AtParts
    <3>2. (i - 1) + 1 = i /\ i \in 0 .. l /\ i \in 1 .. Len(field)
      BY <2>1 DEF l
    <3>3. ReadUpTo(p, q, TRUE, field, i - 1)
      BY <2>7, <3>2
    <3>4. Calm(q) /\ q.quoted
      BY <3>3 DEF ReadUpTo
    <3>5. field[i] \in Char
      BY <3>2, ElementOfSeq
    <3> HIDE DEF q, c
    <3>6. CASE field[i] \in {"quote", escape}
      <4>1. w = <<escape, field[i]>>
        BY <1>2, <3>6
      <4>2. Len(w) = 2 /\ w[1] = escape /\ w[2] = field[i]
        BY <4>1
      <4>3. 1 \in 1 .. Len(w) /\ 2 \in 1 .. Len(w) /\ 1 < Len(w) /\ c + (1 - 1) = c /\ c + (2 - 1) = c + 1
            /\ 1 + 1 = 2
        BY <3>1, <4>2
      <4> HIDE DEF w
      <4>4. g[c + 1] = Turn(q, escape, field[i])
        <5>1. /\ g[c + 1] = Turn(g[c + (1 - 1)], w[1], CharOrNone(s, (c + 1) + 1))
              /\ CharOrNone(s, (c + 1) + 1) = w[1 + 1]
          <6>1. s \in Seq(Char) /\ WholeRun(g, s) /\ w \in Seq(Char) /\ At(s, c, w) /\ 1 \in 1 .. Len(w) /\ 1 < Len(w)
            BY <3>1, <4>3
          <6> QED
            BY ONLY <6>1, TurnAt
        <5>2. g[c + (1 - 1)] = q
          BY <4>3 DEF q
        <5> QED
          BY <4>2, <4>3, <5>1, <5>2
      <4>5. g[c + 2] = Turn(g[c + 1], field[i], CharOrNone(s, (c + 2) + 1))
        <5>1. g[c + 2] = Turn(g[c + (2 - 1)], w[2], CharOrNone(s, (c + 2) + 1))
          <6>1. s \in Seq(Char) /\ WholeRun(g, s) /\ w \in Seq(Char) /\ At(s, c, w) /\ 2 \in 1 .. Len(w)
            BY <3>1, <4>3
          <6> QED
            BY ONLY <6>1, TurnAt
        <5> QED
          BY <4>2, <4>3, <5>1
      <4>6. r = Turn(Turn(q, escape, field[i]), field[i], CharOrNone(s, (c + 2) + 1))
        BY <3>1, <4>2, <4>4, <4>5
      <4> HIDE DEF r
      <4>7. Within(q, r, TRUE, Append(q.current_field, field[i]))
        BY <3>4, <3>6, <4>6, EscapedRead
      <4>8. ReadUpTo(p, r, TRUE, field, i)
        BY <3>2, <3>3, <4>7, ReadsOn
      <4> QED
        BY <3>2, <4>8 DEF r
    <3>7. CASE field[i] \notin {"quote", escape}
      <4>1. w = <<field[i]>>
        BY <1>2, <3>7
      <4>2. Len(w) = 1 /\ w[1] = field[i]
        BY <4>1
      <4>3. 1 \in 1 .. Len(w) /\ c + (1 - 1) = c
        BY <3>1, <4>2
      <4> HIDE DEF w
      <4>4. g[c + 1] = Turn(q, field[i], CharOrNone(s, (c + 1) + 1))
        <5>1. g[c + 1] = Turn(g[c + (1 - 1)], w[1], CharOrNone(s, (c + 1) + 1))
          BY <3>1, <4>3, TurnAt
        <5>2. g[c + (1 - 1)] = q
          BY <4>3 DEF q
        <5> QED
          BY <4>2, <5>1, <5>2
      <4>5. r = Turn(q, field[i], CharOrNone(s, (c + 1) + 1))
        BY <3>1, <4>2, <4>4
      <4> HIDE DEF r
      <4>6. q.quoted = TRUE
        BY <3>3 DEF ReadUpTo
      <4>7. Within(q, r, TRUE, Append(q.current_field, field[i]))
        BY <3>4, <3>5, <3>7, <4>5, <4>6, PlainRead
      <4>8. ReadUpTo(p, r, TRUE, field, i)
        BY <3>2, <3>3, <4>7, ReadsOn
      <4> QED
        BY <3>2, <4>8 DEF r
    <3> QED
      BY <3>6, <3>7
  <2>8. l \in T
    <3>1. l \in 0 .. l /\ l \in Nat
      BY <2>1
    <3> HIDE DEF T
    <3> QED
      BY <2>6, <2>7, <3>1, Ascend
  <2> QED
    BY <2>3, <2>5, <2>8 DEF seqs, l
<1> QED
  BY <1>3, <1>4

\* A field that has been written, in quotes or not, is read back.
LEMMA FieldRead ==
    ASSUME Facts, NEW s \in Seq(Char), NEW g, WholeRun(g, s),
           NEW field \in Seq(Char), NEW quotes, NEW w, w = WriteField(field, quotes, escape),
           NEW a, At(s, a, w), Calm(g[a]), ~g[a].quoted, g[a].current_field = <<>>,
           NEW q, q = g[a + Len(w)],
           escape = "quote" /\ w # <<>> /\ w[Len(w)] = "quote" =>
              CharOrNone(s, (a + Len(w)) + 1) \notin {None, "quote"}
    PROVE  /\ Calm(q) /\ ~q.quoted /\ q.current_field = field /\ Stays(g[a], q)
           /\ w # <<>> => ~q.after_record_sep
           /\ w = <<>> => q = g[a]
<1> DEFINE p == g[a]
<1>1. SubSeq(field, 1, 0) = <<>> /\ SubSeq(field, 1, Len(field)) = field /\ Len(field) \in Nat
  BY PrefixGrows, LenProperties
<1>2. w \in Seq(Char) /\ a \in Nat
  BY WriteFieldType DEF At
<1>3. w = <<>> => q = p
  BY <1>2
<1>4. CASE ~(quotes \/ NeedsQuotes(field))
  <2>1. w = field
    BY <1>4 DEF WriteField
  <2>2. ReadUpTo(p, q, FALSE, field, Len(field))
    BY <1>4, <2>1, PlainFieldRead
  <2>3. w # <<>> => Len(field) > 0
    BY <1>1, <2>1, EmptySeq
  <2> QED
    BY <1>1, <1>3, <2>2, <2>3 DEF ReadUpTo
<1>5. CASE quotes \/ NeedsQuotes(field)
  <2> DEFINE Q == <<"quote">>
             f == FlattenSeq(Escaped(field))
             m == Len(f)
  <2>1. w = (Q \o f) \o Q
    BY <1>5 DEF WriteField, Escaped
  <2>2. "quote" \in Char
    BY ConstantsAssumption DEF Special
  <2>3. Q \in Seq(Char) /\ Len(Q) = 1 /\ Q[1] = "quote" /\ Q # <<>>
    BY <2>2
  <2>4. f \in Seq(Char) /\ m \in Nat
    <3>1. Escaped(field) \in Seq(Seq(Char))
      BY EscapedType
    <3>2. f \in Seq(Char)
      BY <3>1, FlattenType
    <3> QED
      BY <3>2, LenProperties
  <2> HIDE DEF Q, f
  <2> DEFINE Qf == Q \o f
  <2>5. Qf \in Seq(Char)
    BY <2>3, <2>4, ConcatProperties
  <2>16. w = Qf \o Q
    BY <2>1
  <2>6. /\ At(s, a, Qf) /\ At(s, a + Len(Qf), Q) /\ Len(w) = Len(Qf) + Len(Q)
        /\ a + Len(w) = (a + Len(Qf)) + Len(Q)
    <3> HIDE DEF Qf
    <3>1. At(s, a, Qf \o Q)
      BY <2>16
    <3>2. /\ At(s, a, Qf) /\ At(s, a + Len(Qf), Q) /\ Len(Qf \o Q) = Len(Qf) + Len(Q)
          /\ a + Len(Qf \o Q) = (a + Len(Qf)) + Len(Q)
      <4>1. s \in Seq(Char) /\ Qf \in Seq(Char) /\ Q \in Seq(Char) /\ At(s, a, Qf \o Q)
        BY <2>3, <2>5, <3>1
      <4> QED
        BY ONLY <4>1, AtConcat
    <3> QED
      BY <2>16, <3>2
  <2>7. /\ At(s, a, Q) /\ At(s, a + Len(Q), f) /\ Len(Qf) = Len(Q) + Len(f)
        /\ a + Len(Qf) = (a + Len(Q)) + Len(f)
    <3>1. At(s, a, Q \o f)
      BY <2>6
    <3>2. /\ At(s, a, Q) /\ At(s, a + Len(Q), f) /\ Len(Q \o f) = Len(Q) + Len(f)
          /\ a + Len(Q \o f) = (a + Len(Q)) + Len(f)
      <4>1. s \in Seq(Char) /\ Q \in Seq(Char) /\ f \in Seq(Char) /\ At(s, a, Q \o f)
        BY <2>3, <2>4, <3>1
      <4> QED
        BY ONLY <4>1, AtConcat
    <3> QED
      BY <3>2
  <2>8. w # <<>> /\ w[Len(w)] = "quote"
    <3>1. /\ Len(w) = Len(Qf) + Len(Q)
          /\ \A i \in 1 .. Len(Qf) + Len(Q) : w[i] = IF i <= Len(Qf) THEN Qf[i] ELSE Q[i - Len(Qf)]
      <4> HIDE DEF Qf
      <4> QED
        BY <2>3, <2>5, <2>16, ConcatProperties
    <3> DEFINE k == Len(Qf)
    <3>2. k \in Nat
      BY <2>5, LenProperties
    <3>3. Len(w) = k + 1 /\ \A i \in 1 .. k + 1 : w[i] = IF i <= k THEN Qf[i] ELSE Q[i - k]
      BY <2>3, <3>1
    <3> HIDE DEF k
    <3>4. k + 1 \in 1 .. k + 1 /\ ~(k + 1 <= k) /\ (k + 1) - k = 1
      BY <3>2
    <3>5. w[k + 1] = "quote"
      BY <2>3, <3>3, <3>4
    <3>6. Len(w) # 0
      BY <3>2, <3>3
    <3> QED
      BY <1>2, <3>3, <3>5, <3>6, EmptySeq
  <2> HIDE DEF Qf
  <2> DEFINE x == g[a + 1]
             b == (a + 1) + m
             y == g[b]
  <2>9. a + Len(Q) = a + 1 /\ a + Len(Qf) = b /\ a + Len(w) = b + 1 /\ b \in Nat
    BY <1>2, <2>3, <2>4, <2>6, <2>7
  <2>10. Within(p, x, TRUE, <<>>)
    <3>1. 1 \in 1 .. Len(Q) /\ a + (1 - 1) = a
      BY <1>2, <2>3
    <3>2. x = Turn(g[a + (1 - 1)], Q[1], CharOrNone(s, (a + 1) + 1))
      BY <2>3, <2>7, <3>1, TurnAt
    <3>3. x = Turn(p, "quote", CharOrNone(s, (a + 1) + 1))
      BY <2>3, <3>1, <3>2
    <3>4. Within(p, x, ~p.quoted, p.current_field)
      BY <3>3, QuotesRead
    <3> QED
      BY <3>4
  <2>11. ReadUpTo(p, x, TRUE, field, 0)
    BY <1>1, <2>10 DEF Within, ReadUpTo
  <2>12. ReadUpTo(p, y, TRUE, field, Len(field))
    <3>1. At(s, a + 1, f)
      BY <2>7, <2>9
    <3> QED
      BY <2>11, <3>1, EscapedFieldRead DEF f
  <2>13. q = Turn(y, "quote", CharOrNone(s, (b + 1) + 1))
    <3>1. 1 \in 1 .. Len(Q) /\ b + (1 - 1) = b
      BY <2>3, <2>9
    <3>2. At(s, b, Q)
      BY <2>6, <2>9
    <3> HIDE DEF b
    <3>3. g[b + 1] = Turn(g[b + (1 - 1)], Q[1], CharOrNone(s, (b + 1) + 1))
      BY <2>3, <3>1, <3>2, TurnAt
    <3> QED
      BY <2>3, <2>9, <3>1, <3>3
  <2> HIDE DEF b, x, y
  <2>14. Calm(y) /\ y.quoted /\ y.current_field = field /\ Stays(p, y)
    BY <1>1, <2>12 DEF ReadUpTo
  <2>15. Within(y, q, ~y.quoted, y.current_field)
    BY <2>8, <2>9, <2>13, <2>14, QuotesRead
  <2> QED
    BY <2>8, <2>14, <2>15 DEF Within, Stays
<1> QED
  BY <1>4, <1>5

-----------------------------------------------------------------------------
(* Reading what was written: a row. *)

FieldCall == Nat \X Nat \X Seq(Char)

\* The calls of on_field for the first k fields of row number r.
FieldCalls(r, row, k) == [c \in 1 .. k |-> <<c - 1, r, row[c]>>]

\* The calls for a row up to one of its fields.
LEMMA FieldCallsGrow ==
    ASSUME NEW r \in Nat, NEW row \in Seq(Seq(Char)), NEW before \in Seq(FieldCall)
    PROVE  /\ \A k \in 0 .. Len(row) :
                 FieldCalls(r, row, k) \in Seq(FieldCall) /\ Len(FieldCalls(r, row, k)) = k
           /\ before \o FieldCalls(r, row, 0) = before
           /\ \A k \in 1 .. Len(row) :
                 Append(before \o FieldCalls(r, row, k - 1), <<k - 1, r, row[k]>>)
                    = before \o FieldCalls(r, row, k)
<1> DEFINE l == Len(row)
           F(k) == FieldCalls(r, row, k)
<1>1. l \in Nat /\ \A c \in 1 .. l : row[c] \in Seq(Char)
  BY LenProperties, ElementOfSeq
<1> HIDE DEF l
<1>2. ASSUME NEW k \in 0 .. l
      PROVE  F(k) \in Seq(FieldCall) /\ Len(F(k)) = k /\ \A c \in 1 .. k : F(k)[c] = <<c - 1, r, row[c]>>
  <2>1. ASSUME NEW c \in 1 .. k PROVE <<c - 1, r, row[c]>> \in FieldCall
    <3>1. c - 1 \in Nat /\ row[c] \in Seq(Char)
      BY <1>1
    <3> QED
      BY <3>1 DEF FieldCall
  <2>2. F(k) = [c \in 1 .. k |-> <<c - 1, r, row[c]>>] /\ k \in Nat
    BY <1>1 DEF FieldCalls
  <2>3. F(k) \in [1 .. k -> FieldCall]
    BY <2>1, <2>2
  <2>4. F(k) \in Seq(FieldCall) /\ DOMAIN F(k) = 1 .. k
    BY <2>2, <2>3, SeqDef
  <2>5. Len(F(k)) = k
    BY <2>2, <2>4, LenProperties
  <2> QED
    BY <2>2, <2>4, <2>5
<1>3. before \o F(0) = before
  <2>1. F(0) = <<>>
    <3>1. 0 \in 0 .. l
      BY <1>1
    <3> HIDE DEF F
    <3> QED
      BY <1>2, <3>1, EmptySeq
  <2> HIDE DEF F
  <2> QED
    BY <2>1, ConcatEmptySeq
<1>4. ASSUME NEW k \in 1 .. l
      PROVE  Append(before \o F(k - 1), <<k - 1, r, row[k]>>) = before \o F(k)
  <2> DEFINE e == <<k - 1, r, row[k]>>
             b == F(k - 1)
             d == F(k)
  <2>1. k - 1 \in 0 .. l /\ k \in 0 .. l /\ k \in 1 .. k
    BY <1>1
  <2>2. /\ b \in Seq(FieldCall) /\ Len(b) = k - 1 /\ \A c \in 1 .. (k - 1) : b[c] = <<c - 1, r, row[c]>>
        /\ d \in Seq(FieldCall) /\ Len(d) = k /\ \A c \in 1 .. k : d[c] = <<c - 1, r, row[c]>>
    BY <1>2, <2>1
  <2>3. d[k] = e
    BY <2>1, <2>2
  <2>4. d[k] \in FieldCall
    BY <2>1, <2>2, ElementOfSeq
  <2>5. \A c \in 1 .. (k - 1) : d[c] = b[c]
    <3>1. \A c \in 1 .. (k - 1) : c \in 1 .. k
      BY <2>1
    <3> QED
      BY <2>2, <3>1
  <2> HIDE DEF b, d, e, F
  <2>6. e \in FieldCall
    BY <2>3, <2>4
  <2>7. /\ Append(b, e) \in Seq(FieldCall) /\ Len(Append(b, e)) = (k - 1) + 1
        /\ \A c \in 1 .. (k - 1) : Append(b, e)[c] = b[c]
        /\ Append(b, e)[(k - 1) + 1] = e
    BY <2>2, <2>6, AppendProperties
  <2> DEFINE a == Append(b, e)
  <2>8. (k - 1) + 1 = k
    BY <1>1
  <2>9. a \in Seq(FieldCall) /\ Len(a) = Len(d)
    BY <2>2, <2>7, <2>8
  <2>10. ASSUME NEW c \in 1 .. Len(a) PROVE a[c] = d[c]
    <3>1. c \in 1 .. k
      BY <2>2, <2>9
    <3>2. CASE c = k
      BY <2>3, <2>7, <2>8, <3>2
    <3>3. CASE c # k
      <4>1. c \in 1 .. (k - 1)
        BY <3>1, <3>3
      <4> QED
        BY <2>5, <2>7, <4>1
    <3> QED
      BY <3>2, <3>3
  <2> HIDE DEF a
  <2>11. a = d
    BY <2>2, <2>9, <2>10, SeqEqual
  <2>12. Append(before \o b, e) = before \o a
    <3>1. <<e>> \in Seq(FieldCall) /\ Append(b, e) = b \o <<e>>
      BY <2>2, <2>6, AppendIsConcat
    <3>2. before \o b \in Seq(FieldCall)
      BY <2>2, ConcatProperties
    <3>3. Append(before \o b, e) = (before \o b) \o <<e>>
      BY <2>6, <3>2, AppendIsConcat
    <3>4. (before \o b) \o <<e>> = before \o (b \o <<e>>)
      <4>1. before \in Seq(FieldCall) /\ b \in Seq(FieldCall) /\ <<e>> \in Seq(FieldCall)
        BY <2>2, <3>1
      <4> QED
        BY ONLY <4>1, ConcatAssociative
    <3> QED
      BY <3>1, <3>3, <3>4 DEF a
  <2> QED
    BY <2>11, <2>12 DEF b, d, e
<1> QED
  BY <1>2, <1>3, <1>4 DEF l

\* Parser q has read the first c fields of row number r, each with its comma; before
\* it there were the calls before.
RowAt(q, r, row, before, c) ==
    /\ Calm(q) /\ ~q.quoted /\ q.current_field = <<>> /\ q.col_idx = c /\ q.row_idx = r
    /\ q.after_first_row <=> r > 0
    /\ r > 0 => q.num_cols = Len(row)
    /\ q.fields = before \o FieldCalls(r, row, c)
    /\ c > 0 => q.after_field_sep /\ ~q.after_record_sep

\* Parser q has read the row, but not its end.
RowOver(q, r, row, before) ==
    /\ q \in Parser /\ q.error = "Ok" /\ ~q.quoted /\ q.row_idx = r
    /\ q.after_first_row <=> r > 0
    /\ r > 0 => q.num_cols = Len(row)
    /\ IF trailing
       THEN /\ q.current_field = <<>> /\ q.col_idx = Len(row) /\ q.after_field_sep
            /\ q.fields = before \o FieldCalls(r, row, Len(row))
       ELSE /\ q.current_field = row[Len(row)] /\ q.col_idx = Len(row) - 1
            /\ q.fields = before \o FieldCalls(r, row, Len(row) - 1)

\* What is written of the fields of a row.
Pieces(row, quotes) ==
    [c \in DOMAIN row |->
        WriteField(row[c], quotes, escape) \o (IF trailing \/ c < Len(row) THEN <<"comma">> ELSE <<>>)]

\* What is written of the fields of a row, each with the comma behind it.
LEMMA PiecesType ==
    ASSUME Facts, NEW row \in Seq(Seq(Char)), row # <<>>, NEW quotes
    PROVE  /\ WriteRow(row, quotes, escape, trailing) = FlattenSeq(Pieces(row, quotes))
           /\ Len(Pieces(row, quotes)) = Len(row)
           /\ \A c \in 1 .. Len(row) :
                 /\ row[c] \in Seq(Char)
                 /\ WriteField(row[c], quotes, escape) \in Seq(Char)
                 /\ Pieces(row, quotes)[c] =
                       WriteField(row[c], quotes, escape)
                          \o (IF trailing \/ c < Len(row) THEN <<"comma">> ELSE <<>>)
                 /\ Pieces(row, quotes)[c] \in Seq(Char)
<1> DEFINE F(c) == WriteField(row[c], quotes, escape)
                   \o (IF trailing \/ c < Len(row) THEN <<"comma">> ELSE <<>>)
           seqs == [c \in DOMAIN row |-> F(c)]
<1>1. <<"comma">> \in Seq(Char) /\ <<>> \in Seq(Char)
  BY ConstantsAssumption DEF Special
<1>2. DOMAIN row = 1 .. Len(row) /\ Len(row) \in Nat
  BY LenProperties
<1>3. ASSUME NEW c \in 1 .. Len(row)
      PROVE  row[c] \in Seq(Char) /\ WriteField(row[c], quotes, escape) \in Seq(Char) /\ F(c) \in Seq(Char)
  <2>1. row[c] \in Seq(Char)
    BY <1>3, ElementOfSeq
  <2>2. WriteField(row[c], quotes, escape) \in Seq(Char)
    BY <2>1, WriteFieldType
  <2> QED
    BY <1>1, <2>1, <2>2
<1>4. seqs \in Seq(Seq(Char)) /\ DOMAIN seqs = 1 .. Len(row)
  <2> HIDE DEF F
  <2> QED
    BY <1>2, <1>3, IsASeq
<1>5. seqs = Pieces(row, quotes) /\ WriteRow(row, quotes, escape, trailing) = FlattenSeq(seqs)
  BY DEF Pieces, WriteRow
<1>6. \A c \in 1 .. Len(row) : seqs[c] = F(c)
  BY <1>2
<1> HIDE DEF seqs
<1>7. Len(seqs) = Len(row)
  BY <1>2, <1>4, LenProperties
<1> QED
  BY <1>3, <1>5, <1>6, <1>7

\* A field with the comma behind it.
LEMMA FieldAndComma ==
    ASSUME Facts, NEW s \in Seq(Char), NEW g, WholeRun(g, s), NEW r \in Nat,
           NEW row \in Seq(Seq(Char)), NEW before \in Seq(FieldCall), NEW quotes, NEW c \in 1 .. Len(row),
           NEW w, w = WriteField(row[c], quotes, escape),
           NEW a, At(s, a, w \o <<"comma">>), NEW p, p = g[a], RowAt(p, r, row, before, c - 1)
    PROVE  RowAt(g[a + Len(w \o <<"comma">>)], r, row, before, c)
<1> DEFINE field == row[c]
           Com == <<"comma">>
           b == a + Len(w)
           q == g[b]
           x == g[b + 1]
<1>1. field \in Seq(Char)
  BY ElementOfSeq
<1>2. w \in Seq(Char)
  BY <1>1, WriteFieldType
<1>3. "comma" \in Char
  BY ConstantsAssumption DEF Special
<1>4. Com \in Seq(Char) /\ Len(Com) = 1 /\ Com[1] = "comma" /\ Com # <<>>
  BY <1>3
<1> HIDE DEF Com
<1>5. At(s, a, w) /\ At(s, b, Com) /\ a + Len(w \o Com) = b + Len(Com)
  <2>1. At(s, a, w \o Com)
    BY DEF Com
  <2>2. w \in Seq(Char) /\ Com \in Seq(Char) /\ s \in Seq(Char)
    BY <1>2, <1>4
  <2>3. At(s, a, w) /\ At(s, a + Len(w), Com) /\ a + Len(w \o Com) = (a + Len(w)) + Len(Com)
    BY ONLY <2>1, <2>2, AtConcat
  <2> QED
    BY <2>3
<1>6. b \in Nat /\ a + Len(w \o Com) = b + 1
  BY <1>4, <1>5 DEF At
<1>7. CharOrNone(s, b + 1) = "comma"
  BY <1>4, <1>5, NextAt
<1>8. "comma" # None
  BY <1>3, ConstantsAssumption
<1>9. Calm(p) /\ ~p.quoted /\ p.current_field = <<>>
  BY DEF RowAt
<1> HIDE DEF field
<1>10. Calm(q) /\ ~q.quoted /\ q.current_field = field /\ Stays(p, q)
  <2>1. q = g[a + Len(w)] /\ CharOrNone(s, (a + Len(w)) + 1) \notin {None, "quote"}
    BY <1>7, <1>8
  <2>2. w = WriteField(field, quotes, escape)
    BY DEF field
  <2> QED
    BY <1>1, <1>5, <1>9, <2>1, <2>2, FieldRead
<1>11. x = Turn(q, "comma", CharOrNone(s, (b + 1) + 1))
  <2>1. 1 \in 1 .. Len(Com) /\ b + (1 - 1) = b
    BY <1>4, <1>6
  <2> HIDE DEF b
  <2>2. g[b + 1] = Turn(g[b + (1 - 1)], Com[1], CharOrNone(s, (b + 1) + 1))
    <3>1. s \in Seq(Char) /\ WholeRun(g, s) /\ Com \in Seq(Char) /\ At(s, b, Com) /\ 1 \in 1 .. Len(Com)
      BY <1>4, <1>5, <2>1 DEF b
    <3> QED
      BY ONLY <3>1, TurnAt
  <2> QED
    BY <1>4, <2>1, <2>2
<1> HIDE DEF b, q, x
<1>12. /\ Calm(x) /\ ~x.quoted /\ x.current_field = <<>>
       /\ x.col_idx = q.col_idx + 1 /\ x.row_idx = q.row_idx /\ x.num_cols = q.num_cols
       /\ x.after_first_row = q.after_first_row
       /\ x.fields = Append(q.fields, <<q.col_idx, q.row_idx, q.current_field>>)
       /\ x.after_field_sep /\ ~x.after_record_sep
  <2>1. PICK n : x = Turn(q, "comma", n)
    BY <1>11
  <2>2. Facts /\ Calm(q) /\ ~q.quoted
    BY <1>10
  <2> QED
    BY ONLY <2>1, <2>2, CommaRead
<1>13. Append(before \o FieldCalls(r, row, c - 1), <<c - 1, r, row[c]>>) = before \o FieldCalls(r, row, c)
  BY FieldCallsGrow
<1>14. RowAt(x, r, row, before, c)
  <2>1. /\ q.col_idx = c - 1 /\ q.row_idx = r /\ q.num_cols = p.num_cols
        /\ q.after_first_row = p.after_first_row
        /\ q.fields = before \o FieldCalls(r, row, c - 1) /\ q.current_field = row[c]
    BY <1>10 DEF RowAt, Stays, field
  <2>2. (c - 1) + 1 = c
    OBVIOUS
  <2>3. x.fields = before \o FieldCalls(r, row, c) /\ x.col_idx = c
    BY <1>12, <1>13, <2>1, <2>2
  <2>4. /\ p.after_first_row <=> r > 0
        /\ r > 0 => p.num_cols = Len(row)
    BY DEF RowAt
  <2>5. /\ x.after_first_row <=> r > 0
        /\ r > 0 => x.num_cols = Len(row)
        /\ x.row_idx = r
    BY <1>12, <2>1, <2>4
  <2> QED
    BY <1>12, <2>3, <2>5 DEF RowAt
<1>15. a + Len(w \o <<"comma">>) = b + 1
  BY <1>6 DEF Com
<1> QED
  BY <1>14, <1>15 DEF x

\* The fields of a row.
LEMMA RowRead ==
    ASSUME Facts, NEW s \in Seq(Char), NEW g, WholeRun(g, s), NEW r \in Nat,
           NEW row \in Seq(Seq(Char)), row # <<>>, NEW before \in Seq(FieldCall), NEW quotes,
           NEW u, u = WriteRow(row, quotes, escape, trailing),
           NEW a, At(s, a, u), RowAt(g[a], r, row, before, 0),
           escape = "quote" /\ u # <<>> /\ u[Len(u)] = "quote" =>
              CharOrNone(s, (a + Len(u)) + 1) \notin {None, "quote"},
           NEW q, q = g[a + Len(u)]
    PROVE  /\ Calm(q) /\ RowOver(q, r, row, before)
           /\ u # <<>> => ~q.after_record_sep
<1> DEFINE l == Len(row)
           seqs == Pieces(row, quotes)
           m == IF trailing THEN l ELSE l - 1
<1>1. l \in Nat \ {0} /\ a \in Nat
  BY LenProperties, EmptySeq DEF At
<1>2. /\ u = FlattenSeq(seqs) /\ Len(seqs) = l
      /\ \A c \in 1 .. l :
            /\ row[c] \in Seq(Char)
            /\ WriteField(row[c], quotes, escape) \in Seq(Char)
            /\ seqs[c] = WriteField(row[c], quotes, escape) \o (IF trailing \/ c < l THEN <<"comma">> ELSE <<>>)
            /\ seqs[c] \in Seq(Char)
  BY PiecesType
<1> HIDE DEF seqs
<1>3. PICK first, all : all \in Seq(Char) /\ Follow(Char, seqs, l, first, all)
  BY <1>1, <1>2, FollowExists
<1>4. u = all
  BY <1>2, <1>3, FlattenedIsAll
<1>5. first[1] = 0 /\ first[l + 1] = Len(u)
  BY <1>3, <1>4 DEF Follow
<1> DEFINE T == {c \in 0 .. m : RowAt(g[a + first[c + 1]], r, row, before, c)}
<1>6. m \in Nat /\ m <= l
  BY <1>1
<1>7. 0 \in T
  <2>1. a + first[0 + 1] = a /\ 0 \in 0 .. m
    BY <1>1, <1>5, <1>6
  <2> HIDE DEF m
  <2> QED
    BY <2>1
<1>8. ASSUME NEW c \in 1 .. m, c - 1 \in T PROVE c \in T
  <2>1. c \in 1 .. l /\ c \in 0 .. m /\ (c - 1) + 1 = c
    BY <1>1, <1>6
  <2> DEFINE w == WriteField(row[c], quotes, escape)
             b == a + first[c]
  <2>2. seqs[c] = w \o <<"comma">>
    <3>1. trailing \/ c < l
      BY <1>1
    <3> QED
      BY <1>2, <2>1, <3>1
  <2>3. At(s, b, seqs[c]) /\ b + Len(seqs[c]) = a + first[c + 1]
    BY <1>3, <1>4, <2>1, AtParts
  <2>4. RowAt(g[b], r, row, before, c - 1)
    BY <1>8, <2>1
  <2> HIDE DEF b, w, m
  <2>5. At(s, b, w \o <<"comma">>) /\ w = WriteField(row[c], quotes, escape) /\ c \in 1 .. Len(row)
    BY <2>1, <2>2, <2>3 DEF w
  <2>6. RowAt(g[b + Len(w \o <<"comma">>)], r, row, before, c)
    BY <2>4, <2>5, FieldAndComma
  <2>7. b + Len(w \o <<"comma">>) = a + first[c + 1]
    BY <2>2, <2>3
  <2> QED
    BY <2>1, <2>6, <2>7
<1>9. RowAt(g[a + first[m + 1]], r, row, before, m)
  <2>1. m \in 0 .. m
    BY <1>6
  <2> HIDE DEF T, m
  <2>2. m \in T
    BY <1>6, <1>7, <1>8, <2>1, Ascend
  <2> QED
    BY <2>2 DEF T
<1>10. CASE trailing
  <2>1. m = l /\ l > 0
    BY <1>1, <1>10
  <2>2. RowAt(q, r, row, before, l)
    BY <1>5, <1>9, <2>1
  <2> QED
    BY <1>10, <2>1, <2>2 DEF RowAt, RowOver, Calm
<1>11. CASE ~trailing
  <2> DEFINE w == WriteField(row[l], quotes, escape)
             b == a + first[l]
             p == g[b]
             k == first[l]
  <2>1. m = l - 1 /\ (l - 1) + 1 = l /\ l \in 1 .. l
    BY <1>1, <1>11
  <2>2. RowAt(p, r, row, before, l - 1)
    BY <1>9, <2>1
  <2>3. seqs[l] = w /\ w \in Seq(Char) /\ row[l] \in Seq(Char)
    <3>1. ~(trailing \/ l < l)
      BY <1>1, <1>11
    <3>2. seqs[l] = w \o <<>> /\ w \in Seq(Char) /\ row[l] \in Seq(Char)
      BY <1>2, <2>1, <3>1
    <3> QED
      BY <3>2, ConcatEmptySeq
  <2>4. At(s, b, w) /\ b + Len(w) = a + Len(u)
    <3>1. At(s, a, all)
      BY <1>4
    <3>2. At(s, b, seqs[l]) /\ b + Len(seqs[l]) = a + first[l + 1]
      <4>1. s \in Seq(Char) /\ all \in Seq(Char) /\ Follow(Char, seqs, l, first, all) /\ l \in 1 .. l
        BY <1>3, <2>1
      <4> HIDE DEF l, b
      <4>2. At(s, a + first[l], seqs[l]) /\ (a + first[l]) + Len(seqs[l]) = a + first[l + 1]
        BY ONLY <3>1, <4>1, AtParts
      <4> QED
        BY <4>2 DEF b
    <3> HIDE DEF b, w
    <3> QED
      BY <1>5, <2>3, <3>2
  <2>5. /\ k \in Nat /\ Len(u) = k + Len(w)
        /\ \A i \in 1 .. Len(w) : w[i] = u[k + i]
    <3>1. l \in 1 .. l + 1
      BY <1>1
    <3> QED
      BY <1>3, <1>4, <1>5, <2>1, <2>3, <3>1 DEF Follow
  <2>6. w # <<>> => u # <<>> /\ u[Len(u)] = w[Len(w)]
    <3> SUFFICES ASSUME w # <<>> PROVE u # <<>> /\ u[Len(u)] = w[Len(w)]
      OBVIOUS
    <3> DEFINE n == Len(w)
    <3>1. n \in Nat \ {0} /\ Len(u) = k + n
      BY <2>3, <2>5, LenProperties, EmptySeq
    <3> HIDE DEF n, k
    <3>2. n \in 1 .. n /\ k + n # 0
      BY <2>5, <3>1
    <3>3. w[n] = u[k + n]
      BY <2>5, <3>2 DEF n
    <3>4. Len(u) # 0
      BY <3>1, <3>2
    <3>5. u # <<>>
      BY <1>3, <1>4, <3>4, EmptySeq
    <3> QED
      BY <3>1, <3>3, <3>5 DEF n
  <2>7. Calm(p) /\ ~p.quoted /\ p.current_field = <<>>
    BY <2>2 DEF RowAt
  <2>8. q = g[b + Len(w)]
    BY <2>4
  <2>9. escape = "quote" /\ w # <<>> /\ w[Len(w)] = "quote" =>
           CharOrNone(s, (b + Len(w)) + 1) \notin {None, "quote"}
    BY <2>4, <2>6
  <2> DEFINE field == row[l]
  <2> HIDE DEF b, k, m, T
  <2>10. /\ Calm(q) /\ ~q.quoted /\ q.current_field = field /\ Stays(p, q)
         /\ w # <<>> => ~q.after_record_sep
         /\ w = <<>> => q = p
    <3>1. w = WriteField(field, quotes, escape) /\ field \in Seq(Char) /\ p = g[b]
      BY <2>3
    <3> HIDE DEF w, field, p
    <3>2. At(s, b, w) /\ Calm(g[b]) /\ ~g[b].quoted /\ g[b].current_field = <<>> /\ q = g[b + Len(w)]
      BY <2>4, <2>7, <2>8, <3>1
    <3>3. /\ Calm(q) /\ ~q.quoted /\ q.current_field = field /\ Stays(g[b], q)
          /\ w # <<>> => ~q.after_record_sep
          /\ w = <<>> => q = g[b]
      <4>1. Facts /\ s \in Seq(Char) /\ WholeRun(g, s)
        OBVIOUS
      <4> QED
        BY ONLY <2>9, <3>1, <3>2, <4>1, FieldRead
    <3> QED
      BY <3>1, <3>3
  <2>11. RowOver(q, r, row, before)
    <3>1. /\ q.col_idx = l - 1 /\ q.row_idx = r /\ q.num_cols = p.num_cols
          /\ q.after_first_row = p.after_first_row
          /\ q.fields = before \o FieldCalls(r, row, l - 1)
          /\ p.after_first_row <=> r > 0
          /\ r > 0 => p.num_cols = Len(row)
      BY <2>2, <2>10 DEF RowAt, Stays
    <3> HIDE DEF p
    <3> QED
      BY <1>11, <2>10, <3>1 DEF RowOver, Calm
  <2>12. ASSUME u # <<>> PROVE ~q.after_record_sep
    <3>1. CASE w # <<>>
      BY <2>10, <3>1
    <3>2. CASE w = <<>>
      <4>1. l - 1 > 0
        <5>1. l # 1
          <6> SUFFICES ASSUME l = 1 PROVE FALSE
            OBVIOUS
          <6>1. k = 0
            BY <1>5 DEF k
          <6>2. Len(w) = 0
            BY <3>2
          <6>3. Len(u) = 0
            BY <2>5, <6>1, <6>2
          <6> QED
            BY <1>3, <1>4, <2>12, <6>3, EmptySeq
        <5> HIDE DEF l
        <5> QED
          BY <1>1, <5>1
      <4> QED
        BY <2>2, <2>10, <3>2, <4>1 DEF RowAt
    <3> QED
      BY <3>1, <3>2
  <2> QED
    BY <2>10, <2>11, <2>12
<1> QED
  BY <1>10, <1>11

-----------------------------------------------------------------------------
(* Reading what was written: the end of a row. *)

\* Parser q has read row number r and its end, and made the calls.
RowDone(q, r, row, calls) ==
    /\ Calm(q) /\ ~q.quoted /\ q.current_field = <<>> /\ q.col_idx = 0 /\ q.row_idx = r + 1
    /\ q.after_first_row /\ q.num_cols = Len(row) /\ q.after_record_sep
    /\ q.fields = calls

\* The calls of on_field up to and with row number r.
CallsWith(before, r, row) == before \o FieldCalls(r, row, Len(row))

\* The record of a row that has been read ends well.
LEMMA RecordOver ==
    ASSUME Facts, NEW r \in Nat, NEW row \in Seq(Seq(Char)), row # <<>>, NEW before \in Seq(FieldCall),
           NEW p, RowOver(p, r, row, before), NEW e, e = EndRecord(p, trailing)
    PROVE  /\ e \in Parser /\ e.error = "Ok"
           /\ e.skip = p.skip /\ e.quoted = p.quoted /\ e.finished = p.finished
           /\ e.newlining = p.newlining /\ e.escaping = p.escaping
           /\ e.current_field = <<>> /\ e.col_idx = 0 /\ e.row_idx = r + 1
           /\ e.after_first_row /\ e.num_cols = Len(row)
           /\ e.fields = CallsWith(before, r, row)
<1> DEFINE l == Len(row)
           columns == IF trailing THEN p.col_idx ELSE p.col_idx + 1
           counted == IF p.after_first_row THEN p
                      ELSE [p EXCEPT !.after_first_row = TRUE, !.num_cols = columns]
           delivered == IF trailing THEN counted ELSE OnField(counted)
           calls == CallsWith(before, r, row)
<1>1. l \in Nat \ {0} /\ trailing \in BOOLEAN
  BY LenProperties, EmptySeq DEF Facts
<1>2. /\ p \in Parser /\ p.error = "Ok" /\ p.row_idx = r
      /\ p.after_first_row => p.num_cols = l
      /\ trailing => /\ p.current_field = <<>> /\ p.col_idx = l /\ p.after_field_sep
                     /\ p.fields = before \o FieldCalls(r, row, l)
      /\ ~trailing => /\ p.current_field = row[l] /\ p.col_idx = l - 1
                      /\ p.fields = before \o FieldCalls(r, row, l - 1)
  BY DEF RowOver
<1>3. columns = l
  <2> HIDE DEF l
  <2> QED
    BY <1>1, <1>2
<1>4. /\ e \in Parser
      /\ e.skip = p.skip /\ e.quoted = p.quoted /\ e.finished = p.finished
      /\ e.newlining = p.newlining /\ e.escaping = p.escaping
      /\ e.error = "Ok" =>
            /\ e.col_idx = 0 /\ e.after_first_row
            /\ trailing => e.current_field = p.current_field
            /\ ~trailing => e.current_field = <<>>
            /\ e.num_cols = IF p.after_first_row THEN p.num_cols ELSE columns
  BY <1>1, <1>2, RecordEnds
<1>5. e = IF trailing /\ ~p.after_field_sep THEN [p EXCEPT !.error = "NoTrailingComma"]
          ELSE IF counted.num_cols # columns THEN [p EXCEPT !.error = "InconsistentColumns"]
          ELSE [delivered EXCEPT !.col_idx = 0, !.row_idx = @ + 1]
  BY DEF EndRecord
<1> HIDE DEF l, columns
<1>6. /\ counted \in Parser /\ counted.num_cols = columns /\ counted.error = "Ok" /\ counted.row_idx = r
      /\ counted.fields = p.fields /\ counted.col_idx = p.col_idx /\ counted.current_field = p.current_field
  BY <1>1, <1>2, <1>3 DEF Parser
<1> HIDE DEF counted
<1>7. /\ delivered \in Parser /\ delivered.error = "Ok" /\ delivered.row_idx = r
      /\ delivered.fields = calls
  <2>1. CASE trailing
    BY <1>2, <1>6, <2>1 DEF CallsWith, l
  <2>2. CASE ~trailing
    <3>1. delivered = OnField(counted)
      BY <2>2
    <3>2. delivered \in Parser
      BY <1>6, <3>1, Types
    <3>3. delivered = [counted EXCEPT !.fields = Append(@, <<counted.col_idx, counted.row_idx, counted.current_field>>),
                                      !.current_field = <<>>]
      BY <3>1 DEF OnField
    <3>4. Append(before \o FieldCalls(r, row, l - 1), <<l - 1, r, row[l]>>) = before \o FieldCalls(r, row, l)
      <4>1. l \in 1 .. Len(row)
        BY <1>1 DEF l
      <4> QED
        BY <4>1, FieldCallsGrow
    <3>5. /\ counted.fields = before \o FieldCalls(r, row, l - 1) /\ counted.col_idx = l - 1
          /\ counted.current_field = row[l]
      BY <1>2, <1>6, <2>2
    <3>6. Append(counted.fields, <<counted.col_idx, counted.row_idx, counted.current_field>>) = calls
      BY <1>6, <3>4, <3>5 DEF CallsWith, l
    <3> HIDE DEF delivered, calls
    <3>7. delivered.fields = calls /\ delivered.error = "Ok" /\ delivered.row_idx = r
      BY <1>6, <3>3, <3>6 DEF Parser
    <3> QED
      BY <3>2, <3>7
  <2> QED
    BY <2>1, <2>2
<1> HIDE DEF delivered, calls
<1>8. e = [delivered EXCEPT !.col_idx = 0, !.row_idx = @ + 1]
  BY <1>2, <1>5, <1>6
<1>9. e.error = "Ok" /\ e.fields = calls /\ e.row_idx = r + 1
  BY <1>7, <1>8 DEF Parser
<1>10. e.current_field = <<>> /\ e.num_cols = l
  BY <1>1, <1>2, <1>3, <1>4, <1>9
<1> QED
  BY <1>4, <1>9, <1>10 DEF l, calls

\* A turn on the first character of a line end, which may consume the second one.
LEMMA LineEndTurned ==
    ASSUME Facts, NEW r \in Nat, NEW row \in Seq(Seq(Char)), row # <<>>, NEW before \in Seq(FieldCall),
           NEW p, Calm(p), RowOver(p, r, row, before), NEW c \in LineEnds, NEW n, c = "cr" => n # None,
           NEW x, x = Turn(p, c, n)
    PROVE  /\ RowDone([x EXCEPT !.skip = FALSE], r, row, CallsWith(before, r, row))
           /\ x.error = "Ok" /\ x.skip = (c = "cr" /\ n = "lf")
           /\ ~x.skip => x = [x EXCEPT !.skip = FALSE]
<1> DEFINE e == EndRecord(p, trailing)
           b == (c = "cr" /\ n = "lf")
           calls == CallsWith(before, r, row)
           y == [x EXCEPT !.skip = FALSE]
<1>1. p \in Parser /\ p.error = "Ok" /\ ~p.skip /\ ~p.quoted /\ ~p.escaping /\ ~p.newlining /\ ~p.finished
  BY DEF Calm, RowOver
<1>2. x = Separated([e EXCEPT !.skip = b], FALSE, TRUE)
  <2>1. Turn(p, c, n) = LineEnd(p, c, n)
    BY <1>1, TurnIs DEF LineEnds
  <2> QED
    BY <1>1, <2>1 DEF LineEnd
<1>3. /\ e \in Parser /\ e.error = "Ok"
      /\ e.skip = p.skip /\ e.quoted = p.quoted /\ e.finished = p.finished
      /\ e.newlining = p.newlining /\ e.escaping = p.escaping
      /\ e.current_field = <<>> /\ e.col_idx = 0 /\ e.row_idx = r + 1
      /\ e.after_first_row /\ e.num_cols = Len(row)
      /\ e.fields = calls
  BY RecordOver
<1>4. b \in BOOLEAN
  OBVIOUS
<1> HIDE DEF e, b, calls
<1>5. x = [e EXCEPT !.skip = b, !.after_field_sep = FALSE, !.after_record_sep = TRUE]
  BY <1>2, <1>3 DEF Separated, Parser
<1>6. y = [e EXCEPT !.skip = FALSE, !.after_field_sep = FALSE, !.after_record_sep = TRUE]
  BY <1>3, <1>5 DEF Parser
<1>7. x \in Parser /\ y \in Parser
  <2>1. x \in Parser
    BY <1>3, <1>4, <1>5, ZenonT(40) DEF Parser
  <2>2. y \in Parser
    BY <1>3, <1>6, ZenonT(40) DEF Parser
  <2> QED
    BY <2>1, <2>2
<1>8. x.error = "Ok" /\ x.skip = b
  BY <1>3, <1>4, <1>5 DEF Parser
<1>9. ~x.skip => x = y
  BY <1>7, <1>8 DEF Parser
<1> HIDE DEF y
<1>10. /\ y.error = "Ok" /\ ~y.skip /\ ~y.quoted /\ ~y.escaping /\ ~y.newlining /\ ~y.finished
       /\ y.current_field = <<>> /\ y.col_idx = 0 /\ y.row_idx = r + 1
       /\ y.after_first_row /\ y.num_cols = Len(row) /\ y.after_record_sep /\ y.fields = calls
  BY <1>1, <1>3, <1>6 DEF Parser
<1>11. RowDone(y, r, row, calls)
  BY <1>7, <1>10 DEF RowDone, Calm
<1> QED
  BY <1>8, <1>9, <1>11 DEF y, b, calls

\* The line end of a row: one whole record, unless it is one CR that ends the text.
LEMMA LineEndRead ==
    ASSUME Facts, NEW s \in Seq(Char), NEW g, WholeRun(g, s),
           NEW r \in Nat, NEW row \in Seq(Seq(Char)), row # <<>>, NEW before \in Seq(FieldCall),
           NEW line_end \in {<<"lf">>, <<"cr">>, <<"cr", "lf">>}, NEW b, At(s, b, line_end),
           line_end = <<"cr">> => CharOrNone(s, (b + 1) + 1) # "lf",
           NEW p, p = g[b], Calm(p), RowOver(p, r, row, before),
           NEW q, q = g[b + Len(line_end)]
    PROVE  IF line_end = <<"cr">> /\ CharOrNone(s, (b + 1) + 1) = None
           THEN q = [p EXCEPT !.newlining = TRUE]
           ELSE RowDone(q, r, row, CallsWith(before, r, row))
<1> DEFINE c == line_end[1]
           n == CharOrNone(s, (b + 1) + 1)
           x == g[b + 1]
<1>1. "lf" \in Char /\ "cr" \in Char /\ None \notin Char
  BY ConstantsAssumption DEF Special
<1>2. line_end \in Seq(Char) /\ line_end # <<>> /\ Len(line_end) \in Nat /\ b \in Nat
  <2>1. <<"lf">> \in Seq(Char) /\ <<"cr">> \in Seq(Char)
    BY <1>1
  <2>2. <<"cr", "lf">> \in Seq(Char)
    BY <1>1
  <2>3. line_end \in Seq(Char)
    BY <2>1, <2>2
  <2>4. line_end # <<>>
    <3>1. <<"lf">> # <<>> /\ <<"cr">> # <<>> /\ <<"cr", "lf">> # <<>>
      OBVIOUS
    <3> QED
      BY <3>1
  <2>5. b \in Nat
    BY DEF At
  <2> QED
    BY <2>3, <2>4, <2>5, LenProperties
<1>3. c \in LineEnds /\ 1 \in 1 .. Len(line_end) /\ b + (1 - 1) = b
  BY <1>2 DEF LineEnds
<1>4. x = Turn(p, c, n) /\ (1 < Len(line_end) => n = line_end[1 + 1])
  <2>1. /\ g[b + 1] = Turn(g[b + (1 - 1)], line_end[1], CharOrNone(s, (b + 1) + 1))
        /\ 1 < Len(line_end) => CharOrNone(s, (b + 1) + 1) = line_end[1 + 1]
    <3>1. s \in Seq(Char) /\ WholeRun(g, s) /\ line_end \in Seq(Char) /\ At(s, b, line_end) /\ 1 \in 1 .. Len(line_end)
      BY <1>2, <1>3
    <3> QED
      BY ONLY <3>1, TurnAt
  <2> QED
    BY <1>3, <2>1
<1>5. CASE line_end = <<"cr">> /\ n = None
  <2>1. c = "cr" /\ q = x
    BY <1>5
  <2>2. p \in Parser /\ p.error = "Ok" /\ ~p.skip /\ ~p.quoted
    BY DEF Calm, RowOver
  <2>3. q = LineEnd(p, "cr", None)
    BY <1>4, <1>5, <2>1, <2>2, TurnIs DEF LineEnds
  <2> QED
    BY <1>5, <2>2, <2>3 DEF LineEnd
<1>6. CASE line_end = <<"lf">> \/ (line_end = <<"cr">> /\ n # None)
  <2>1. q = x /\ ~(c = "cr" /\ n = "lf") /\ (c = "cr" => n # None)
    <3>1. CASE line_end = <<"lf">>
      BY <3>1
    <3>2. CASE line_end = <<"cr">> /\ n # None
      BY <3>2
    <3> QED
      BY <1>6, <3>1, <3>2
  <2> HIDE DEF c, n, x
  <2>2. /\ RowDone([x EXCEPT !.skip = FALSE], r, row, CallsWith(before, r, row))
        /\ x.skip = (c = "cr" /\ n = "lf")
        /\ ~x.skip => x = [x EXCEPT !.skip = FALSE]
    <3>1. Facts /\ r \in Nat /\ row \in Seq(Seq(Char)) /\ row # <<>> /\ before \in Seq(FieldCall)
      OBVIOUS
    <3>2. Calm(p) /\ RowOver(p, r, row, before) /\ c \in LineEnds /\ (c = "cr" => n # None) /\ x = Turn(p, c, n)
      BY <1>3, <1>4, <2>1
    <3> QED
      BY ONLY <3>1, <3>2, LineEndTurned
  <2>3. RowDone(q, r, row, CallsWith(before, r, row))
    BY <2>1, <2>2
  <2> QED
    BY <1>6, <2>3 DEF n
<1>7. CASE line_end = <<"cr", "lf">>
  <2>1. c = "cr" /\ 1 < Len(line_end) /\ line_end[1 + 1] = "lf" /\ line_end[2] = "lf" /\ 2 \in 1 .. Len(line_end)
        /\ b + (2 - 1) = b + 1 /\ Len(line_end) = 2
    BY <1>2, <1>7
  <2>2. n = "lf" /\ n # None
    BY <1>1, <1>4, <2>1
  <2>3. g[b + 2] = Turn(g[b + (2 - 1)], line_end[2], CharOrNone(s, (b + 2) + 1))
    <3>1. s \in Seq(Char) /\ WholeRun(g, s) /\ line_end \in Seq(Char) /\ At(s, b, line_end)
          /\ 2 \in 1 .. Len(line_end)
      BY <1>2, <2>1
    <3> QED
      BY ONLY <3>1, TurnAt
  <2>4. q = Turn(x, "lf", CharOrNone(s, (b + 2) + 1))
    BY <2>1, <2>3
  <2> HIDE DEF c, n, x
  <2>5. /\ RowDone([x EXCEPT !.skip = FALSE], r, row, CallsWith(before, r, row))
        /\ x.error = "Ok" /\ x.skip = (c = "cr" /\ n = "lf")
    BY <1>3, <1>4, <2>2, LineEndTurned
  <2>6. q = [x EXCEPT !.skip = FALSE]
    <3>1. x.skip /\ x.error = "Ok"
      BY <2>1, <2>2, <2>5
    <3> QED
      BY <2>4, <3>1, TurnIs
  <2>7. RowDone(q, r, row, CallsWith(before, r, row))
    BY <2>5, <2>6
  <2>8. line_end # <<"cr">>
    BY <1>7
  <2> QED
    BY <2>7, <2>8
<1> QED
  BY <1>5, <1>6, <1>7

\* Parser q has read row number r and a CR that may be half of a line end.
RowPending(q, r, row, before) ==
    \E p : Calm(p) /\ RowOver(p, r, row, before) /\ q = [p EXCEPT !.newlining = TRUE]

\* A row with its line end.
LEMMA RowAndEndRead ==
    ASSUME Facts, NEW s \in Seq(Char), NEW g, WholeRun(g, s), NEW r \in Nat,
           NEW row \in Seq(Seq(Char)), row # <<>>, NEW before \in Seq(FieldCall), NEW quotes,
           NEW line_end \in {<<"lf">>, <<"cr">>, <<"cr", "lf">>},
           NEW u, u = WriteRow(row, quotes, escape, trailing),
           NEW a, At(s, a, u \o line_end), RowAt(g[a], r, row, before, 0),
           NEW e, e = a + Len(u \o line_end),
           line_end = <<"cr">> => CharOrNone(s, e + 1) # "lf",
           NEW q, q = g[e]
    PROVE  IF line_end = <<"cr">> /\ CharOrNone(s, e + 1) = None
           THEN RowPending(q, r, row, before)
           ELSE RowDone(q, r, row, CallsWith(before, r, row))
<1> DEFINE b == a + Len(u)
           p == g[b]
<1>1. "lf" \in Char /\ "cr" \in Char /\ None \notin Char
  BY ConstantsAssumption DEF Special
<1>2. line_end \in Seq(Char)
  <2>1. <<"lf">> \in Seq(Char) /\ <<"cr">> \in Seq(Char)
    BY <1>1
  <2>2. <<"cr", "lf">> \in Seq(Char)
    BY <1>1
  <2> QED
    BY <2>1, <2>2
<1>3. line_end # <<>> /\ line_end[1] \in {"lf", "cr"}
  <2>1. <<"lf">> # <<>> /\ <<"cr">> # <<>> /\ <<"cr", "lf">> # <<>>
    OBVIOUS
  <2>2. <<"lf">>[1] = "lf" /\ <<"cr">>[1] = "cr" /\ <<"cr", "lf">>[1] = "cr"
    OBVIOUS
  <2> QED
    BY <2>1, <2>2
<1>4. u \in Seq(Char)
  BY WriteRowType
<1>5. At(s, a, u) /\ At(s, b, line_end) /\ e = b + Len(line_end)
  <2>1. s \in Seq(Char) /\ u \in Seq(Char) /\ line_end \in Seq(Char) /\ At(s, a, u \o line_end)
    BY <1>2, <1>4
  <2>2. At(s, a, u) /\ At(s, a + Len(u), line_end) /\ a + Len(u \o line_end) = (a + Len(u)) + Len(line_end)
    BY ONLY <2>1, AtConcat
  <2> QED
    BY <2>2
<1>6. CharOrNone(s, b + 1) \notin {None, "quote"}
  <2>1. s \in Seq(Char) /\ line_end \in Seq(Char) /\ line_end # <<>> /\ At(s, b, line_end)
    BY <1>2, <1>3, <1>5
  <2>2. CharOrNone(s, b + 1) = line_end[1]
    BY ONLY <2>1, NextAt
  <2> QED
    BY <1>1, <1>3, <2>2
<1>7. Calm(p) /\ RowOver(p, r, row, before)
  <2>1. /\ Facts /\ s \in Seq(Char) /\ WholeRun(g, s) /\ r \in Nat /\ row \in Seq(Seq(Char)) /\ row # <<>>
        /\ before \in Seq(FieldCall) /\ u = WriteRow(row, quotes, escape, trailing)
        /\ At(s, a, u) /\ RowAt(g[a], r, row, before, 0) /\ p = g[a + Len(u)]
    BY <1>5
  <2>2. CharOrNone(s, (a + Len(u)) + 1) \notin {None, "quote"}
    BY <1>6
  <2> HIDE DEF p
  <2> QED
    BY ONLY <2>1, <2>2, RowRead
<1> HIDE DEF b
<1>8. line_end = <<"cr">> => e = b + 1
  <2>1. Len(<<"cr">>) = 1
    OBVIOUS
  <2> QED
    BY <1>5, <2>1
<1>9. IF line_end = <<"cr">> /\ CharOrNone(s, (b + 1) + 1) = None
      THEN q = [p EXCEPT !.newlining = TRUE]
      ELSE RowDone(q, r, row, CallsWith(before, r, row))
  <2>1. /\ Facts /\ s \in Seq(Char) /\ WholeRun(g, s) /\ r \in Nat /\ row \in Seq(Seq(Char)) /\ row # <<>>
        /\ before \in Seq(FieldCall) /\ line_end \in {<<"lf">>, <<"cr">>, <<"cr", "lf">>}
        /\ At(s, b, line_end) /\ Calm(p) /\ RowOver(p, r, row, before) /\ p = g[b]
        /\ q = g[b + Len(line_end)]
    BY <1>5, <1>7
  <2>2. line_end = <<"cr">> => CharOrNone(s, (b + 1) + 1) # "lf"
    BY <1>8
  <2> HIDE DEF p
  <2> QED
    BY ONLY <2>1, <2>2, LineEndRead
<1>10. CASE line_end = <<"cr">>
  BY <1>7, <1>8, <1>9, <1>10 DEF RowPending
<1>11. CASE line_end # <<"cr">>
  BY <1>9, <1>11
<1> QED
  BY <1>10, <1>11

\* A row that is written begins with no LF of its own.
LEMMA BeginsWithNoLF ==
    ASSUME Facts, NEW row \in Seq(Seq(Char)), row # <<>>, NEW quotes,
           NEW u, u = WriteRow(row, quotes, escape, trailing), u # <<>>
    PROVE  u[1] # "lf"
<1> DEFINE n == Len(row)
           seqs == Pieces(row, quotes)
<1>1. n \in Nat \ {0}
  BY EmptySeq
<1>2. /\ u = FlattenSeq(seqs) /\ Len(seqs) = n
      /\ \A c \in 1 .. n :
            /\ row[c] \in Seq(Char)
            /\ WriteField(row[c], quotes, escape) \in Seq(Char)
            /\ seqs[c] = WriteField(row[c], quotes, escape) \o (IF trailing \/ c < n THEN <<"comma">> ELSE <<>>)
            /\ seqs[c] \in Seq(Char)
  BY PiecesType
<1> HIDE DEF seqs, n
<1>3. PICK first, all : all \in Seq(Char) /\ Follow(Char, seqs, n, first, all) /\ Covers(seqs, n, first, all)
  BY <1>1, <1>2, FollowExists
<1>4. u = all
  BY <1>2, <1>3, FlattenedIsAll
<1>5. 1 \in 1 .. Len(all)
  <2>1. Len(all) \in Nat \ {0}
    BY <1>3, <1>4, EmptySeq
  <2> QED
    BY <2>1
<1>6. PICK c \in 1 .. n : \E k \in 1 .. Len(seqs[c]) : 1 = first[c] + k
  BY <1>3, <1>5 DEF Covers
<1>7. PICK k \in 1 .. Len(seqs[c]) : 1 = first[c] + k
  BY <1>6
<1>8. first[c] \in Nat /\ Len(seqs[c]) \in Nat
  <2>1. c \in 1 .. n + 1
    BY <1>1
  <2> QED
    BY <1>2, <1>3, <2>1, LenProperties DEF Follow
<1>9. k = 1 /\ first[c] + 1 = 1
  BY <1>7, <1>8
<1>10. u[1] = seqs[c][1] /\ 1 \in 1 .. Len(seqs[c])
  <2>1. \A i \in 1 .. Len(seqs[c]) : seqs[c][i] = all[first[c] + i]
    BY <1>3 DEF Follow
  <2>2. 1 \in 1 .. Len(seqs[c])
    BY <1>7, <1>9
  <2>3. seqs[c][1] = all[first[c] + 1]
    BY <2>1, <2>2
  <2> QED
    BY <1>4, <1>9, <2>2, <2>3
<1> DEFINE w == WriteField(row[c], quotes, escape)
           v == IF trailing \/ c < n THEN <<"comma">> ELSE <<>>
           f == row[c]
<1>11. seqs[c] = w \o v /\ w \in Seq(Char) /\ f \in Seq(Char)
  BY <1>2
<1>12. v \in Seq(Char) /\ (v # <<>> => v[1] = "comma")
  <2>1. "comma" \in Char
    BY ConstantsAssumption DEF Special
  <2>2. <<"comma">> \in Seq(Char) /\ <<>> \in Seq(Char) /\ <<"comma">>[1] = "comma"
    BY <2>1
  <2> QED
    BY <2>2
<1>13. w # <<>> => w[1] # "lf"
  <2>1. CASE quotes \/ NeedsQuotes(f)
    <3> DEFINE Q == <<"quote">>
               x == FlattenSeq(Escaped(f))
    <3>1. w = (Q \o x) \o Q
      BY <2>1 DEF WriteField, Escaped
    <3>2. "quote" \in Char
      BY ConstantsAssumption DEF Special
    <3>3. Q \in Seq(Char) /\ Len(Q) = 1 /\ Q[1] = "quote"
      BY <3>2
    <3>4. x \in Seq(Char) /\ Len(x) \in Nat
      <4>1. Escaped(f) \in Seq(Seq(Char))
        BY <1>11, EscapedType
      <4>2. x \in Seq(Char)
        BY <4>1, FlattenType
      <4> QED
        BY <4>2, LenProperties
    <3> HIDE DEF Q, x
    <3>5. Q \o x \in Seq(Char) /\ Len(Q \o x) = 1 + Len(x) /\ (Q \o x)[1] = "quote"
      <4>1. /\ Q \o x \in Seq(Char) /\ Len(Q \o x) = Len(Q) + Len(x)
            /\ \A i \in 1 .. Len(Q) + Len(x) : (Q \o x)[i] = IF i <= Len(Q) THEN Q[i] ELSE x[i - Len(Q)]
        BY <3>3, <3>4, ConcatProperties
      <4>2. 1 \in 1 .. Len(Q) + Len(x) /\ 1 <= Len(Q)
        BY <3>3, <3>4
      <4> QED
        BY <3>3, <4>1, <4>2
    <3>6. ((Q \o x) \o Q)[1] = (Q \o x)[1]
      <4> DEFINE y == Q \o x
      <4>1. y \in Seq(Char) /\ Len(y) = 1 + Len(x)
        BY <3>5
      <4> HIDE DEF y
      <4>2. \A i \in 1 .. Len(y) + Len(Q) : (y \o Q)[i] = IF i <= Len(y) THEN y[i] ELSE Q[i - Len(y)]
        BY <3>3, <4>1, ConcatProperties
      <4>3. 1 \in 1 .. Len(y) + Len(Q) /\ 1 <= Len(y)
        BY <3>3, <3>4, <4>1
      <4>4. (y \o Q)[1] = y[1]
        BY <4>2, <4>3
      <4> QED
        BY <4>4 DEF y
    <3> QED
      BY <3>1, <3>5, <3>6
  <2>2. CASE ~(quotes \/ NeedsQuotes(f))
    <3>1. w = f
      BY <2>2 DEF WriteField
    <3> SUFFICES ASSUME f # <<>> PROVE f[1] # "lf"
      BY <3>1
    <3>2. Len(f) \in Nat \ {0} /\ DOMAIN f = 1 .. Len(f)
      BY <1>11, LenProperties, EmptySeq
    <3>3. 1 \in DOMAIN f
      BY <3>2
    <3> QED
      BY <2>2, <3>3 DEF NeedsQuotes, ToSet, Special
  <2> QED
    BY <2>1, <2>2
<1> HIDE DEF w, v, f
<1>14. CASE w = <<>>
  <2>1. seqs[c] = v
    BY <1>11, <1>12, <1>14, ConcatEmptySeq
  <2>2. v # <<>>
    BY <1>10, <2>1
  <2> QED
    BY <1>10, <1>12, <2>1, <2>2
<1>15. CASE w # <<>>
  <2>1. Len(w) \in Nat \ {0} /\ Len(v) \in Nat
    BY <1>11, <1>12, <1>15, EmptySeq, LenProperties
  <2>2. \A i \in 1 .. Len(w) + Len(v) : (w \o v)[i] = IF i <= Len(w) THEN w[i] ELSE v[i - Len(w)]
    BY <1>11, <1>12, ConcatProperties
  <2>3. 1 \in 1 .. Len(w) + Len(v) /\ 1 <= Len(w)
    BY <2>1
  <2>4. seqs[c][1] = w[1]
    BY <1>11, <2>2, <2>3
  <2> QED
    BY <1>10, <1>13, <1>15, <2>4
<1> QED
  BY <1>14, <1>15

\* The first k elements of a sequence.
Beginning(all, k) == SubSeq(all, 1, k)

\* With w behind it, v becomes x.
Joins(v, w, x) == v \o w = x

\* Sequences that follow each other, one at a time.
LEMMA JoinedGrow ==
    ASSUME NEW S, NEW all \in Seq(S), NEW seqs, NEW n, NEW first, Follow(S, seqs, n, first, all)
    PROVE  /\ Beginning(all, first[1]) = <<>> /\ Beginning(all, first[n + 1]) = all
           /\ \A p \in 1 .. n + 1 : Beginning(all, first[p]) \in Seq(S)
           /\ \A p \in 1 .. n : Joins(Beginning(all, first[p]), seqs[p], Beginning(all, first[p + 1]))
<1> DEFINE m == Len(all)
<1>1. /\ n \in Nat \ {0} /\ m \in Nat
      /\ first \in [1 .. n + 1 -> Nat] /\ first[1] = 0 /\ first[n + 1] = m
      /\ \A p \in 1 .. n :
             /\ seqs[p] \in Seq(S) /\ first[p + 1] = first[p] + Len(seqs[p])
             /\ first[p + 1] <= m
             /\ \A k \in 1 .. Len(seqs[p]) : seqs[p][k] = all[first[p] + k]
  BY LenProperties DEF Follow
<1>2. \A i \in 1 .. m : all[i] \in S
  BY ElementOfSeq
<1>3. SubSeq(all, 1, 0) = <<>> /\ SubSeq(all, 1, m) = all
  BY PrefixGrows
<1> HIDE DEF m
<1>4. ASSUME NEW i \in 0 .. m
      PROVE  /\ SubSeq(all, 1, i) \in Seq(S) /\ Len(SubSeq(all, 1, i)) = i
             /\ \A k \in 1 .. i : SubSeq(all, 1, i)[k] = all[k]
  <2>1. 1 \in Int /\ i \in Int /\ \A k \in 1 .. i : all[k] \in S
    BY <1>1, <1>2
  <2>2. /\ SubSeq(all, 1, i) \in Seq(S)
        /\ Len(SubSeq(all, 1, i)) = IF 1 <= i THEN i - 1 + 1 ELSE 0
        /\ \A k \in 1 .. i - 1 + 1 : SubSeq(all, 1, i)[k] = all[1 + k - 1]
    BY ONLY <2>1, SubSeqProperties
  <2>3. i - 1 + 1 = i /\ (~(1 <= i) => i = 0)
    BY <1>1
  <2>4. \A k \in 1 .. i : 1 + k - 1 = k
    BY <1>1
  <2> QED
    BY <2>2, <2>3, <2>4
<1>5. ASSUME NEW p \in 1 .. n
      PROVE  first[p] \in 0 .. m /\ SubSeq(all, 1, first[p]) \o seqs[p] = SubSeq(all, 1, first[p + 1])
  <2> DEFINE f == first[p]
             h == first[p + 1]
             w == seqs[p]
             l == Len(w)
             x == SubSeq(all, 1, f)
             y == SubSeq(all, 1, h)
  <2>1. p \in 1 .. n + 1 /\ p + 1 \in 1 .. n + 1
    BY <1>1
  <2>2. f \in Nat /\ h \in Nat /\ w \in Seq(S) /\ h = f + l /\ h <= m /\ \A k \in 1 .. l : w[k] = all[f + k]
    BY <1>1, <2>1
  <2>3. l \in Nat
    BY <2>2, LenProperties
  <2> HIDE DEF f, h, l
  <2>4. f \in 0 .. m /\ h \in 0 .. m
    BY <1>1, <2>2, <2>3
  <2>5. x \in Seq(S) /\ Len(x) = f /\ (\A k \in 1 .. f : x[k] = all[k])
        /\ y \in Seq(S) /\ Len(y) = h /\ (\A k \in 1 .. h : y[k] = all[k])
    BY <1>4, <2>4
  <2> HIDE DEF x, y, w
  <2>6. x \o w \in Seq(S) /\ Len(x \o w) = f + l
        /\ \A i \in 1 .. f + l : (x \o w)[i] = IF i <= f THEN x[i] ELSE w[i - f]
    BY <2>2, <2>5, ConcatProperties DEF l
  <2> DEFINE z == x \o w
  <2>7. ASSUME NEW i \in 1 .. f + l PROVE z[i] = y[i]
    <3>1. i \in 1 .. h
      BY <2>2
    <3>2. CASE i <= f
      <4>1. i \in 1 .. f
        BY <2>2, <2>3, <3>2
      <4> QED
        BY <2>5, <2>6, <3>1, <3>2, <4>1
    <3>3. CASE ~(i <= f)
      <4>1. i - f \in 1 .. l /\ f + (i - f) = i
        BY <2>2, <2>3, <3>3
      <4>2. z[i] = all[f + (i - f)]
        BY <2>2, <2>6, <3>3, <4>1
      <4> QED
        BY <2>5, <3>1, <4>1, <4>2
    <3> QED
      BY <3>2, <3>3
  <2>8. z \in Seq(S) /\ Len(z) = f + l
    BY <2>6
  <2> HIDE DEF z
  <2>9. z = y
    BY <2>2, <2>5, <2>7, <2>8, SeqEqual
  <2> QED
    BY <2>4, <2>9 DEF z, x, y, w, f, h
<1>6. ASSUME NEW p \in 1 .. n + 1 PROVE SubSeq(all, 1, first[p]) \in Seq(S)
  <2>1. first[p] \in 0 .. m
    <3>1. CASE p = n + 1
      BY <1>1, <3>1
    <3>2. CASE p # n + 1
      <4>1. p \in 1 .. n
        BY <1>1, <3>2
      <4> QED
        BY <1>5, <4>1
    <3> QED
      BY <3>1, <3>2
  <2> QED
    BY <1>4, <2>1
<1> QED
  BY <1>1, <1>3, <1>5, <1>6 DEF Beginning, Joins

-----------------------------------------------------------------------------
(* Reading what was written: the table. *)

LineSeparators == {<<"lf">>, <<"cr">>, <<"cr", "lf">>}

\* A line end is a text that begins with a LF or a CR.
LEMMA SeparatorsType ==
    ASSUME NEW v \in LineSeparators
    PROVE  v \in Seq(Char) /\ v # <<>> /\ v[1] \in {"lf", "cr"} /\ (v = <<"cr">> => v[1] = "cr")
<1>1. "lf" \in Char /\ "cr" \in Char
  BY ConstantsAssumption DEF Special
<1>2. CASE v = <<"lf">>
  BY <1>1, <1>2
<1>3. CASE v = <<"cr">>
  BY <1>1, <1>3
<1>4. CASE v = <<"cr", "lf">>
  BY <1>1, <1>4
<1> QED
  BY <1>2, <1>3, <1>4 DEF LineSeparators

\* What follows a CR that ends a row is no LF.
LEMMA LineBegins ==
    ASSUME Facts, NEW row \in Seq(Seq(Char)), row # <<>>, NEW quotes,
           NEW u, u = WriteRow(row, quotes, escape, trailing),
           NEW line_end \in LineSeparators, NEW v \in {line_end, <<>>}, u \o v # <<>>
    PROVE  line_end = <<"cr">> => (u \o v)[1] # "lf"
<1>1. u \in Seq(Char) /\ v \in Seq(Char) /\ (v # <<>> /\ line_end = <<"cr">> => v[1] # "lf")
  <2>1. u \in Seq(Char)
    BY WriteRowType
  <2>2. v \in Seq(Char)
    <3>1. line_end \in Seq(Char) /\ <<>> \in Seq(Char)
      BY SeparatorsType
    <3> QED
      BY <3>1
  <2>3. v # <<>> /\ line_end = <<"cr">> => v[1] # "lf"
    <3>1. line_end = <<"cr">> => line_end[1] = "cr"
      BY SeparatorsType
    <3> QED
      BY <3>1
  <2> QED
    BY <2>1, <2>2, <2>3
<1>2. CASE u = <<>>
  <2>1. u \o v = v
    BY <1>1, <1>2, ConcatEmptySeq
  <2> QED
    BY <1>1, <2>1
<1>3. CASE u # <<>>
  <2>1. Len(u) \in Nat \ {0} /\ Len(v) \in Nat
    BY <1>1, <1>3, EmptySeq, LenProperties
  <2>2. \A i \in 1 .. Len(u) + Len(v) : (u \o v)[i] = IF i <= Len(u) THEN u[i] ELSE v[i - Len(u)]
    BY <1>1, ConcatProperties
  <2>3. 1 \in 1 .. Len(u) + Len(v) /\ 1 <= Len(u)
    BY <2>1
  <2>4. (u \o v)[1] = u[1]
    BY <2>2, <2>3
  <2>5. u[1] # "lf"
    BY <1>3, BeginsWithNoLF
  <2> QED
    BY <2>4, <2>5
<1> QED
  BY <1>2, <1>3

\* A table with rows of one number of fields, at least one.
Rectangular(table) ==
    /\ table \in Seq(Seq(Seq(Char))) /\ table # <<>>
    /\ \A r \in DOMAIN table : Len(table[r]) = Len(table[1]) /\ table[r] # <<>>

\* What is written of the rows of a table.
Lines(table, quotes, line_end, last) ==
    [r \in DOMAIN table |->
        WriteRow(table[r], quotes, escape, trailing)
           \o (IF last \/ r < Len(table) THEN line_end ELSE <<>>)]

\* What is written of the rows, each with the line end behind it.
LEMMA LinesType ==
    ASSUME Facts, NEW table, Rectangular(table), NEW quotes, NEW last, NEW line_end \in LineSeparators
    PROVE  /\ Write(table, quotes, escape, trailing, line_end, last) = FlattenSeq(Lines(table, quotes, line_end, last))
           /\ Len(Lines(table, quotes, line_end, last)) = Len(table)
           /\ Len(table) \in Nat \ {0}
           /\ \A r \in 1 .. Len(table) :
                 /\ table[r] \in Seq(Seq(Char)) /\ table[r] # <<>> /\ Len(table[r]) = Len(table[1])
                 /\ WriteRow(table[r], quotes, escape, trailing) \in Seq(Char)
                 /\ Lines(table, quotes, line_end, last)[r] =
                       WriteRow(table[r], quotes, escape, trailing)
                          \o (IF last \/ r < Len(table) THEN line_end ELSE <<>>)
                 /\ Lines(table, quotes, line_end, last)[r] \in Seq(Char)
<1> DEFINE F(r) == WriteRow(table[r], quotes, escape, trailing)
                   \o (IF last \/ r < Len(table) THEN line_end ELSE <<>>)
           seqs == [r \in DOMAIN table |-> F(r)]
<1>1. line_end \in Seq(Char) /\ <<>> \in Seq(Char)
  BY SeparatorsType
<1>2. /\ table \in Seq(Seq(Seq(Char))) /\ table # <<>>
      /\ \A r \in DOMAIN table : Len(table[r]) = Len(table[1]) /\ table[r] # <<>>
  BY DEF Rectangular
<1>3. DOMAIN table = 1 .. Len(table) /\ Len(table) \in Nat \ {0}
  BY <1>2, LenProperties, EmptySeq
<1>4. ASSUME NEW r \in 1 .. Len(table)
      PROVE  /\ table[r] \in Seq(Seq(Char)) /\ table[r] # <<>> /\ Len(table[r]) = Len(table[1])
             /\ WriteRow(table[r], quotes, escape, trailing) \in Seq(Char) /\ F(r) \in Seq(Char)
  <2>1. table[r] \in Seq(Seq(Char))
    BY <1>2, <1>4, ElementOfSeq
  <2>2. WriteRow(table[r], quotes, escape, trailing) \in Seq(Char)
    BY <2>1, WriteRowType
  <2>3. F(r) \in Seq(Char)
    BY <1>1, <2>2
  <2> QED
    BY <1>2, <1>3, <2>1, <2>2, <2>3
<1>5. seqs \in Seq(Seq(Char)) /\ DOMAIN seqs = 1 .. Len(table)
  <2> HIDE DEF F
  <2>1. \A r \in 1 .. Len(table) : F(r) \in Seq(Char)
    BY <1>4
  <2> QED
    BY <1>3, <2>1, IsASeq
<1>6. seqs = Lines(table, quotes, line_end, last)
      /\ Write(table, quotes, escape, trailing, line_end, last) = FlattenSeq(seqs)
  BY DEF Lines, Write
<1>7. \A r \in 1 .. Len(table) : seqs[r] = F(r)
  BY <1>3
<1> HIDE DEF seqs
<1>8. Len(seqs) = Len(table)
  BY <1>3, <1>5, LenProperties
<1> QED
  BY <1>3, <1>4, <1>6, <1>7, <1>8

\* The calls of on_field for a table, row by row.
TableCalls(table) == [r \in DOMAIN table |-> [c \in DOMAIN table[r] |-> <<c - 1, r - 1, table[r][c]>>]]

\* The calls for the rows of a table.
LEMMA CallsType ==
    ASSUME NEW table, Rectangular(table)
    PROVE  /\ Len(TableCalls(table)) = Len(table)
           /\ \A r \in 1 .. Len(table) :
                 /\ TableCalls(table)[r] = FieldCalls(r - 1, table[r], Len(table[r]))
                 /\ TableCalls(table)[r] \in Seq(FieldCall)
<1> DEFINE F(r) == [c \in DOMAIN table[r] |-> <<c - 1, r - 1, table[r][c]>>]
           calls == [r \in DOMAIN table |-> F(r)]
<1>1. DOMAIN table = 1 .. Len(table) /\ Len(table) \in Nat /\ table \in Seq(Seq(Seq(Char)))
  BY LenProperties DEF Rectangular
<1>2. ASSUME NEW r \in 1 .. Len(table)
      PROVE  F(r) = FieldCalls(r - 1, table[r], Len(table[r])) /\ F(r) \in Seq(FieldCall)
  <2>1. table[r] \in Seq(Seq(Char))
    BY <1>1, <1>2, ElementOfSeq
  <2>2. DOMAIN table[r] = 1 .. Len(table[r]) /\ Len(table[r]) \in Nat
    BY <2>1, LenProperties
  <2>3. F(r) = FieldCalls(r - 1, table[r], Len(table[r]))
    BY <2>2 DEF FieldCalls
  <2>4. r - 1 \in Nat /\ Len(table[r]) \in 0 .. Len(table[r]) /\ <<>> \in Seq(FieldCall)
    BY <1>1, <2>2
  <2>5. FieldCalls(r - 1, table[r], Len(table[r])) \in Seq(FieldCall)
    BY <2>1, <2>4, FieldCallsGrow
  <2> QED
    BY <2>3, <2>5
<1> HIDE DEF F
<1>3. calls \in Seq(Seq(FieldCall)) /\ DOMAIN calls = 1 .. Len(table)
  BY <1>1, <1>2, IsASeq
<1>4. \A r \in 1 .. Len(table) : calls[r] = F(r)
  BY <1>1
<1>5. calls = TableCalls(table)
  BY DEF TableCalls, F
<1> HIDE DEF calls
<1>6. Len(calls) = Len(table)
  BY <1>1, <1>3, LenProperties
<1> QED
  BY <1>2, <1>4, <1>5, <1>6

\* Parser w has read a table whose last row is number r, but for finish.
TableRead(w, r, row, before) ==
    \/ Calm(w) /\ RowOver(w, r, row, before) /\ ~w.after_record_sep
    \/ RowPending(w, r, row, before)
    \/ RowDone(w, r, row, CallsWith(before, r, row))

\* A table that has been written is read back row by row, as far as the last line end,
\* which may be missing.
LEMMA TextRead ==
    ASSUME Facts, NEW table, Rectangular(table), NEW quotes, NEW last, NEW line_end \in LineSeparators,
           NEW s, s = Write(table, quotes, escape, trailing, line_end, last),
           last \/ WriteRow(table[Len(table)], quotes, escape, trailing) # <<>>,
           ~(escape = "quote" /\ s # <<>> /\ s[Len(s)] = "quote"),
           NEW g, WholeRun(g, s)
    PROVE  \E before \in Seq(FieldCall) :
              /\ CallsWith(before, Len(table) - 1, table[Len(table)]) = FlattenSeq(TableCalls(table))
              /\ TableRead(g[Len(s)], Len(table) - 1, table[Len(table)], before)
<1> DEFINE n == Len(table)
           k == Len(table[1])
           seqs == Lines(table, quotes, line_end, last)
           rows == TableCalls(table)
           U(r) == WriteRow(table[r], quotes, escape, trailing)
           V(r) == IF last \/ r < n THEN line_end ELSE <<>>
<1>1. /\ s = FlattenSeq(seqs) /\ Len(seqs) = n /\ n \in Nat \ {0}
      /\ \A r \in 1 .. n :
            /\ table[r] \in Seq(Seq(Char)) /\ table[r] # <<>> /\ Len(table[r]) = k
            /\ U(r) \in Seq(Char) /\ seqs[r] = U(r) \o V(r) /\ seqs[r] \in Seq(Char)
  <2>1. /\ s = FlattenSeq(seqs) /\ Len(seqs) = Len(table) /\ Len(table) \in Nat \ {0}
        /\ \A r \in 1 .. Len(table) :
              /\ table[r] \in Seq(Seq(Char)) /\ table[r] # <<>> /\ Len(table[r]) = Len(table[1])
              /\ WriteRow(table[r], quotes, escape, trailing) \in Seq(Char)
              /\ seqs[r] = WriteRow(table[r], quotes, escape, trailing)
                              \o (IF last \/ r < Len(table) THEN line_end ELSE <<>>)
              /\ seqs[r] \in Seq(Char)
    <3>1. Facts /\ Rectangular(table) /\ line_end \in LineSeparators
      OBVIOUS
    <3>2. s = Write(table, quotes, escape, trailing, line_end, last)
      OBVIOUS
    <3> HIDE DEF U, V, rows
    <3>3. /\ Write(table, quotes, escape, trailing, line_end, last) = FlattenSeq(Lines(table, quotes, line_end, last))
          /\ Len(Lines(table, quotes, line_end, last)) = Len(table)
          /\ Len(table) \in Nat \ {0}
          /\ \A r \in 1 .. Len(table) :
                /\ table[r] \in Seq(Seq(Char)) /\ table[r] # <<>> /\ Len(table[r]) = Len(table[1])
                /\ WriteRow(table[r], quotes, escape, trailing) \in Seq(Char)
                /\ Lines(table, quotes, line_end, last)[r] =
                      WriteRow(table[r], quotes, escape, trailing)
                         \o (IF last \/ r < Len(table) THEN line_end ELSE <<>>)
                /\ Lines(table, quotes, line_end, last)[r] \in Seq(Char)
      BY ONLY <3>1, LinesType
    <3> QED
      BY <3>2, <3>3
  <2> HIDE DEF seqs
  <2> QED
    BY <2>1
<1>2. /\ Len(rows) = n
      /\ \A r \in 1 .. n : rows[r] = FieldCalls(r - 1, table[r], Len(table[r])) /\ rows[r] \in Seq(FieldCall)
  BY CallsType
<1>3. \A r \in 1 .. n : V(r) \in {line_end, <<>>}
  OBVIOUS
<1>4. \A r \in 1 .. n : r < n => V(r) = line_end
  OBVIOUS
<1>5. V(n) = IF last THEN line_end ELSE <<>>
  BY <1>1
<1> HIDE DEF seqs, rows, n, k, V
<1>6. PICK first, all : all \in Seq(Char) /\ Follow(Char, seqs, n, first, all)
  BY <1>1, FollowExists
<1>7. s = all /\ s \in Seq(Char)
  BY <1>1, <1>6, FlattenedIsAll
<1>8. PICK at, calls : calls \in Seq(FieldCall) /\ Follow(FieldCall, rows, n, at, calls)
  BY <1>1, <1>2, FollowExists
<1>9. FlattenSeq(rows) = calls
  BY <1>2, <1>8, FlattenedIsAll
<1> DEFINE B(r) == Beginning(calls, at[r])
<1>10. /\ B(1) = <<>> /\ B(n + 1) = calls
       /\ \A r \in 1 .. n + 1 : B(r) \in Seq(FieldCall)
       /\ \A r \in 1 .. n : Joins(B(r), rows[r], B(r + 1))
  <2>1. calls \in Seq(FieldCall) /\ Follow(FieldCall, rows, n, at, calls)
    BY <1>8
  <2> QED
    BY ONLY <2>1, JoinedGrow
<1>11. ASSUME NEW r \in 1 .. n PROVE CallsWith(B(r), r - 1, table[r]) = B(r + 1)
  <2>1. Joins(B(r), rows[r], B(r + 1)) /\ rows[r] = FieldCalls(r - 1, table[r], Len(table[r]))
    BY <1>2, <1>10
  <2> HIDE DEF B
  <2> QED
    BY <2>1 DEF CallsWith, Joins
<1> HIDE DEF B, U
<1>12. first[1] = 0 /\ first[n + 1] = Len(s) /\ \A r \in 1 .. n + 1 : first[r] \in Nat
  BY <1>6, <1>7 DEF Follow
<1>13. ASSUME NEW r \in 1 .. n
       PROVE  At(s, first[r], seqs[r]) /\ first[r] + Len(seqs[r]) = first[r + 1] /\ first[r] \in Nat
  <2>1. r \in 1 .. n + 1
    BY <1>1
  <2>2. first[r] \in Nat /\ 0 + first[r] = first[r]
    BY <1>12, <2>1
  <2>3. At(s, 0, all)
    <3>1. Len(s) \in Nat
      BY <1>7, LenProperties
    <3>2. \A i \in 1 .. Len(s) : 0 + i = i
      BY <3>1
    <3> QED
      BY <1>7, <3>1, <3>2 DEF At
  <2>4. At(s, 0 + first[r], seqs[r])
    BY <1>6, <1>7, <2>3, AtParts
  <2>5. first[r] + Len(seqs[r]) = first[r + 1]
    BY <1>6 DEF Follow
  <2> QED
    BY <2>2, <2>4, <2>5
<1>14. ASSUME NEW r \in 1 .. n, seqs[r] # <<>>
       PROVE  /\ CharOrNone(s, first[r] + 1) \in Char
              /\ line_end = <<"cr">> => CharOrNone(s, first[r] + 1) # "lf"
  <2>1. CharOrNone(s, first[r] + 1) = seqs[r][1] /\ seqs[r][1] \in Char
    <3>1. s \in Seq(Char) /\ seqs[r] \in Seq(Char) /\ seqs[r] # <<>> /\ At(s, first[r], seqs[r])
      BY <1>1, <1>7, <1>13, <1>14
    <3> QED
      BY ONLY <3>1, NextAt
  <2>2. line_end = <<"cr">> => (U(r) \o V(r))[1] # "lf"
    <3>1. /\ Facts /\ table[r] \in Seq(Seq(Char)) /\ table[r] # <<>>
          /\ U(r) = WriteRow(table[r], quotes, escape, trailing)
          /\ line_end \in LineSeparators /\ V(r) \in {line_end, <<>>} /\ U(r) \o V(r) # <<>>
      BY <1>1, <1>3, <1>14 DEF U
    <3> QED
      BY ONLY <3>1, LineBegins
  <2> QED
    BY <1>1, <2>1, <2>2
<1> DEFINE Beg(r) == RowAt(g[first[r]], r - 1, table[r], B(r), 0)
           T == {r \in 0 .. (n - 1) : Beg(r + 1)}
<1>15. Beg(1)
  <2>1. g[first[1]] = Start
    BY <1>12 DEF WholeRun
  <2>2. 1 \in 1 .. n /\ 1 - 1 = 0 /\ 0 \in Nat /\ 1 \in 1 .. n + 1
    BY <1>1
  <2>3. <<>> \o FieldCalls(0, table[1], 0) = <<>>
    <3>1. <<>> \in Seq(FieldCall) /\ table[1] \in Seq(Seq(Char)) /\ 0 \in Nat
      BY <1>1, <2>2
    <3> QED
      BY ONLY <3>1, FieldCallsGrow
  <2>4. Calm(Start)
    BY StartSettled DEF Settled, Calm
  <2>5. RowAt(Start, 0, table[1], <<>>, 0)
    BY <2>3, <2>4 DEF RowAt, Start
  <2> QED
    BY <1>10, <2>1, <2>2, <2>5
<1>16. ASSUME NEW r \in 1 .. n, r < n, Beg(r) PROVE Beg(r + 1)
  <2> DEFINE a == first[r]
             e == first[r + 1]
             row == table[r]
             q == g[e]
             u == U(r)
             before == B(r)
  <2>1. r + 1 \in 1 .. n /\ r - 1 \in Nat /\ (r - 1) + 1 = r /\ (r + 1) - 1 = r /\ r > 0 /\ r \in Nat
        /\ r \in 1 .. n + 1 /\ r + 1 \in 1 .. n + 1
    BY <1>1, <1>16
  <2>2. seqs[r] = u \o line_end /\ e = a + Len(u \o line_end) /\ At(s, a, u \o line_end)
    BY <1>1, <1>4, <1>13, <1>16
  <2>3. seqs[r + 1] # <<>>
    <3>1. seqs[r + 1] = U(r + 1) \o V(r + 1) /\ U(r + 1) \in Seq(Char)
      BY <1>1, <2>1
    <3>2. line_end \in Seq(Char) /\ line_end # <<>> /\ <<>> \in Seq(Char)
      BY SeparatorsType
    <3>3. CASE V(r + 1) = line_end
      <4> DEFINE x == U(r + 1)
      <4> HIDE DEF x
      <4>1. x \in Seq(Char)
        BY <3>1 DEF x
      <4>2. x \o line_end # <<>>
        BY <3>2, <4>1, ConcatEqualIffEmpty
      <4> QED
        BY <3>1, <3>3, <4>2 DEF x
    <3>4. CASE V(r + 1) # line_end
      <4>1. r + 1 = n /\ ~last /\ V(r + 1) = <<>>
        <5>1. ~(r + 1 < n)
          BY <1>4, <2>1, <3>4
        <5>2. r + 1 = n
          BY <1>1, <2>1, <5>1
        <5> QED
          BY <1>5, <3>4, <5>2
      <4>2. seqs[r + 1] = U(r + 1)
        BY <3>1, <4>1, ConcatEmptySeq
      <4> QED
        BY <4>1, <4>2 DEF U, n
    <3> QED
      BY <3>3, <3>4
  <2>4. CharOrNone(s, e + 1) \in Char /\ (line_end = <<"cr">> => CharOrNone(s, e + 1) # "lf")
    BY <1>14, <2>1, <2>3
  <2>5. CharOrNone(s, e + 1) # None
    BY <2>4, ConstantsAssumption
  <2>6. /\ Facts /\ s \in Seq(Char) /\ WholeRun(g, s) /\ r - 1 \in Nat /\ row \in Seq(Seq(Char)) /\ row # <<>>
        /\ before \in Seq(FieldCall) /\ line_end \in {<<"lf">>, <<"cr">>, <<"cr", "lf">>}
        /\ u = WriteRow(row, quotes, escape, trailing)
        /\ RowAt(g[a], r - 1, row, before, 0) /\ q = g[e]
    BY <1>1, <1>7, <1>10, <1>16, <2>1 DEF U, LineSeparators
  <2> HIDE DEF a, e, row, q, u, before
  <2>7. RowDone(q, r - 1, row, CallsWith(before, r - 1, row))
    BY ONLY <2>2, <2>4, <2>5, <2>6, RowAndEndRead
  <2>8. CallsWith(before, r - 1, row) = B(r + 1)
    BY <1>11 DEF before, row
  <2>9. Len(row) = Len(table[r + 1])
    BY <1>1, <2>1 DEF row
  <2>10. B(r + 1) = B(r + 1) \o FieldCalls(r, table[r + 1], 0)
    <3>1. B(r + 1) \in Seq(FieldCall) /\ table[r + 1] \in Seq(Seq(Char)) /\ r \in Nat
      BY <1>1, <1>10, <2>1
    <3> QED
      BY ONLY <3>1, FieldCallsGrow
  <2>11. RowAt(q, r, table[r + 1], B(r + 1), 0)
    <3>1. /\ Calm(q) /\ ~q.quoted /\ q.current_field = <<>> /\ q.col_idx = 0 /\ q.row_idx = r
          /\ q.after_first_row /\ q.num_cols = Len(table[r + 1]) /\ q.fields = B(r + 1)
      BY <2>1, <2>7, <2>8, <2>9 DEF RowDone
    <3> QED
      BY <2>1, <2>10, <3>1 DEF RowAt
  <2> QED
    BY <2>1, <2>11 DEF q, e
<1>17. Beg(n)
  <2> HIDE DEF Beg
  <2>1. 0 \in T
    BY <1>1, <1>15
  <2>2. ASSUME NEW r \in 1 .. (n - 1), r - 1 \in T PROVE r \in T
    <3>1. r \in 1 .. n /\ r < n /\ (r - 1) + 1 = r /\ r \in 0 .. (n - 1)
      BY <1>1
    <3>2. Beg(r)
      BY <2>2, <3>1
    <3> QED
      BY <1>16, <3>1, <3>2
  <2>3. n - 1 \in Nat /\ n - 1 \in 0 .. (n - 1) /\ (n - 1) + 1 = n
    BY <1>1
  <2> HIDE DEF T
  <2>4. n - 1 \in T
    BY <2>1, <2>2, <2>3, Ascend
  <2> QED
    BY <2>3, <2>4 DEF T
<1> DEFINE a == first[n]
           row == table[n]
           w == g[Len(s)]
           u == U(n)
           before == B(n)
<1>18. n \in 1 .. n /\ n - 1 \in Nat /\ n \in 1 .. n + 1
  BY <1>1
<1>19. /\ Facts /\ s \in Seq(Char) /\ WholeRun(g, s) /\ n - 1 \in Nat /\ row \in Seq(Seq(Char)) /\ row # <<>>
       /\ before \in Seq(FieldCall) /\ u = WriteRow(row, quotes, escape, trailing)
       /\ RowAt(g[a], n - 1, row, before, 0) /\ u \in Seq(Char)
  BY <1>1, <1>7, <1>10, <1>17, <1>18 DEF U
<1>20. seqs[n] = u \o V(n) /\ At(s, a, seqs[n]) /\ a + Len(seqs[n]) = Len(s)
  BY <1>1, <1>12, <1>13, <1>18
<1>21. CallsWith(before, n - 1, row) = calls
  BY <1>10, <1>11, <1>18
<1>22. CharOrNone(s, Len(s) + 1) = None
  <2>1. Len(s) \in Nat /\ Len(s) \in 0 .. Len(s)
    BY <1>7, LenProperties
  <2> QED
    BY <1>7, <2>1, BehindIs
<1>23. TableRead(w, n - 1, row, before)
  <2> HIDE DEF a, row, w, u, before
  <2>1. CASE last
    <3>1. At(s, a, u \o line_end) /\ Len(s) = a + Len(u \o line_end) /\ w = g[Len(s)]
      BY <1>5, <1>20, <2>1 DEF w
    <3>2. line_end \in {<<"lf">>, <<"cr">>, <<"cr", "lf">>}
      BY DEF LineSeparators
    <3>3. CharOrNone(s, Len(s) + 1) # "lf"
      <4>1. "lf" # None
        BY ConstantsAssumption DEF Special
      <4> QED
        BY <1>22, <4>1
    <3>4. IF line_end = <<"cr">> /\ CharOrNone(s, Len(s) + 1) = None
          THEN RowPending(w, n - 1, row, before)
          ELSE RowDone(w, n - 1, row, CallsWith(before, n - 1, row))
      <4> DEFINE e == Len(s)
      <4>1. /\ At(s, a, u \o line_end) /\ e = a + Len(u \o line_end) /\ w = g[e]
            /\ line_end = <<"cr">> => CharOrNone(s, e + 1) # "lf"
        BY <3>1, <3>3
      <4> HIDE DEF e
      <4>2. IF line_end = <<"cr">> /\ CharOrNone(s, e + 1) = None
            THEN RowPending(w, n - 1, row, before)
            ELSE RowDone(w, n - 1, row, CallsWith(before, n - 1, row))
        BY ONLY <1>19, <3>2, <4>1, RowAndEndRead
      <4> QED
        BY <4>2 DEF e
    <3> QED
      BY <3>4 DEF TableRead
  <2>2. CASE ~last
    <3>1. seqs[n] = u /\ u # <<>>
      <4>1. V(n) = <<>>
        BY <1>5, <2>2
      <4>2. u \o <<>> = u
        BY <1>19, ConcatEmptySeq
      <4>3. u # <<>>
        BY <2>2 DEF u, U, n
      <4> QED
        BY <1>20, <4>1, <4>2, <4>3
    <3>2. At(s, a, u) /\ a + Len(u) = Len(s) /\ w = g[a + Len(u)]
      BY <1>20, <3>1 DEF w
    <3>3. ~(escape = "quote" /\ u # <<>> /\ u[Len(u)] = "quote")
      <4>1. Len(u) \in Nat \ {0} /\ Len(s) \in Nat /\ a \in Nat
        BY <1>7, <1>12, <1>18, <1>19, <3>1, LenProperties, EmptySeq DEF a
      <4>2. Len(u) \in 1 .. Len(u)
        BY <4>1
      <4>3. s[a + Len(u)] = u[Len(u)]
        BY <3>2, <4>2 DEF At
      <4>4. s # <<>>
        <5>1. Len(s) # 0
          <6> DEFINE l == Len(u)
          <6>1. l \in Nat \ {0} /\ Len(s) = a + l
            BY <3>2, <4>1
          <6> HIDE DEF l
          <6> QED
            BY <4>1, <6>1
        <5> QED
          BY <5>1, EmptySeq
      <4> QED
        BY <3>2, <4>3, <4>4
    <3>4. Calm(w) /\ RowOver(w, n - 1, row, before) /\ (u # <<>> => ~w.after_record_sep)
      BY ONLY <1>19, <3>2, <3>3, RowRead
    <3> QED
      BY <3>1, <3>4 DEF TableRead
  <2> QED
    BY <2>1, <2>2
<1> QED
  BY <1>9, <1>19, <1>21, <1>23 DEF n, rows

\* finish ends what has been read of a table.
LEMMA ReadThenEnded ==
    ASSUME Facts, NEW r \in Nat, NEW row \in Seq(Seq(Char)), row # <<>>, NEW before \in Seq(FieldCall),
           NEW w, TableRead(w, r, row, before)
    PROVE  /\ w.error = "Ok" /\ Ended(w, trailing).error = "Ok"
           /\ Ended(w, trailing).fields = CallsWith(before, r, row)
<1> DEFINE q == [w EXCEPT !.finished = TRUE]
           e == EndRecord(q, trailing)
           calls == CallsWith(before, r, row)
<1>1. Ended(w, trailing) =
        IF q.quoted THEN [q EXCEPT !.error = "QuoteNotClosed"]
        ELSE IF q.newlining
             THEN IF e.error # "Ok" THEN e
                  ELSE [e EXCEPT !.after_record_sep = TRUE, !.newlining = FALSE, !.skip = FALSE]
        ELSE IF q.after_record_sep THEN q
        ELSE Separated([e EXCEPT !.skip = FALSE], FALSE, TRUE)
  BY DEF Ended
<1>2. ASSUME NEW p, p \in Parser, RowOver(p, r, row, before), NEW x, x \in Parser,
             x = [p EXCEPT !.finished = TRUE] \/ x = [p EXCEPT !.newlining = TRUE, !.finished = TRUE]
      PROVE  RowOver(x, r, row, before)
  <2>1. /\ x.error = p.error /\ x.quoted = p.quoted /\ x.row_idx = p.row_idx
        /\ x.after_first_row = p.after_first_row /\ x.num_cols = p.num_cols
        /\ x.current_field = p.current_field /\ x.col_idx = p.col_idx
        /\ x.after_field_sep = p.after_field_sep /\ x.fields = p.fields
    BY <1>2 DEF Parser
  <2> QED
    BY <1>2, <2>1 DEF RowOver
<1>3. ASSUME RowOver(q, r, row, before)
      PROVE  e \in Parser /\ e.error = "Ok" /\ e.fields = calls
  BY <1>3, RecordOver
<1>4. CASE Calm(w) /\ RowOver(w, r, row, before) /\ ~w.after_record_sep
  <2>1. w \in Parser /\ w.error = "Ok" /\ ~w.quoted /\ ~w.newlining
    BY <1>4 DEF Calm, RowOver
  <2>2. q \in Parser /\ ~q.quoted /\ ~q.newlining /\ ~q.after_record_sep
    BY <1>4, <2>1 DEF Parser
  <2>3. RowOver(q, r, row, before)
    BY <1>2, <1>4, <2>1, <2>2
  <2>4. e \in Parser /\ e.error = "Ok" /\ e.fields = calls
    BY <1>3, <2>3
  <2> HIDE DEF q, e, calls
  <2>5. Ended(w, trailing) = Separated([e EXCEPT !.skip = FALSE], FALSE, TRUE)
    BY <1>1, <2>2
  <2>6. Ended(w, trailing) = [e EXCEPT !.skip = FALSE, !.after_field_sep = FALSE, !.after_record_sep = TRUE]
    BY <2>4, <2>5 DEF Separated, Parser
  <2>7. Ended(w, trailing).error = "Ok" /\ Ended(w, trailing).fields = calls
    BY <2>4, <2>6 DEF Parser
  <2> QED
    BY <2>1, <2>7 DEF calls
<1>5. CASE RowPending(w, r, row, before)
  <2>1. PICK p : Calm(p) /\ RowOver(p, r, row, before) /\ w = [p EXCEPT !.newlining = TRUE]
    BY <1>5 DEF RowPending
  <2>2. p \in Parser /\ p.error = "Ok" /\ ~p.quoted
    BY <2>1 DEF Calm, RowOver
  <2>3. w \in Parser /\ w.error = "Ok" /\ w.newlining /\ ~w.quoted
    BY <2>1, <2>2 DEF Parser
  <2>4. q \in Parser /\ ~q.quoted /\ q.newlining /\ q = [p EXCEPT !.newlining = TRUE, !.finished = TRUE]
    BY <2>1, <2>2, <2>3 DEF Parser
  <2>5. RowOver(q, r, row, before)
    <3> HIDE DEF q
    <3> QED
      BY <1>2, <2>1, <2>2, <2>4
  <2>6. e \in Parser /\ e.error = "Ok" /\ e.fields = calls
    BY <1>3, <2>5
  <2> HIDE DEF q, e, calls
  <2>7. Ended(w, trailing) = [e EXCEPT !.after_record_sep = TRUE, !.newlining = FALSE, !.skip = FALSE]
    BY <1>1, <2>4, <2>6
  <2>8. Ended(w, trailing).error = "Ok" /\ Ended(w, trailing).fields = calls
    BY <2>6, <2>7 DEF Parser
  <2> QED
    BY <2>3, <2>8 DEF calls
<1>6. CASE RowDone(w, r, row, calls)
  <2>1. w \in Parser /\ w.error = "Ok" /\ ~w.quoted /\ ~w.newlining /\ w.after_record_sep /\ w.fields = calls
    BY <1>6 DEF Calm, RowDone
  <2> HIDE DEF calls
  <2>2. /\ q.error = "Ok" /\ q.quoted = w.quoted /\ q.newlining = w.newlining
        /\ q.after_record_sep = w.after_record_sep /\ q.fields = calls
    BY <2>1 DEF Parser
  <2> HIDE DEF q, e
  <2>3. Ended(w, trailing) = q
    BY <1>1, <2>1, <2>2
  <2> QED
    BY <2>1, <2>2, <2>3 DEF calls
<1> QED
  BY <1>4, <1>5, <1>6 DEF TableRead

\* An error that the run has met stays.
LEMMA ErrorsStay ==
    ASSUME Facts, NEW s \in Seq(Char), NEW g, WholeRun(g, s), g[Len(s)].error = "Ok"
    PROVE  \A i \in 0 .. Len(s) : g[i].error = "Ok"
<1> DEFINE l == Len(s)
           T == {k \in 0 .. l : g[l - k].error = "Ok"}
<1>1. l \in Nat
  BY LenProperties
<1>2. \A i \in 1 .. l : g[i] = Turn(g[i - 1], s[i], CharOrNone(s, i + 1))
  BY DEF WholeRun
<1> HIDE DEF l
<1>3. 0 \in T
  <2>1. l - 0 = l /\ 0 \in 0 .. l
    BY <1>1
  <2> QED
    BY <2>1 DEF l
<1>4. ASSUME NEW k \in 1 .. l, k - 1 \in T PROVE k \in T
  <2> DEFINE i == l - (k - 1)
             j == l - k
  <2>1. i \in 1 .. l /\ i - 1 = j /\ k \in 0 .. l
    BY <1>1
  <2>2. g[i].error = "Ok"
    BY <1>4
  <2> HIDE DEF i
  <2>3. g[i] = Turn(g[j], s[i], CharOrNone(s, i + 1))
    BY <1>2, <2>1
  <2>4. g[j].error = "Ok"
    <3> HIDE DEF j
    <3>1. PICK q, c, n : q = g[j] /\ c = s[i] /\ n = CharOrNone(s, i + 1)
      OBVIOUS
    <3>2. Facts /\ g[i] = Turn(q, c, n) /\ g[i].error = "Ok"
      BY <2>2, <2>3, <3>1
    <3>3. q.error = "Ok"
      BY ONLY <3>2, TurnIs
    <3> QED
      BY <3>1, <3>3
  <2> QED
    BY <2>1, <2>4
<1>5. ASSUME NEW i \in 0 .. l PROVE g[i].error = "Ok"
  <2>1. l - i \in 0 .. l /\ l - (l - i) = i
    BY <1>1
  <2> HIDE DEF T
  <2>2. l - i \in T
    BY <1>1, <1>3, <1>4, <2>1, Ascend
  <2>3. g[l - (l - i)].error = "Ok"
    BY <2>2 DEF T
  <2> QED
    BY <2>1, <2>3
<1> QED
  BY <1>5 DEF l

\* The end of a buffer makes no error where there is none.
LEMMA CutsMakeNoError ==
    ASSUME Facts, NEW y \in Parser, NEW c, NEW d, Turn(y, c, d).error = "Ok"
    PROVE  Turn(y, c, None).error = "Ok"
<1> DEFINE a == Turn(y, c, None)
           b == Turn(y, c, d)
<1>1. y.error = "Ok" /\ y.skip \in BOOLEAN /\ y.quoted \in BOOLEAN
  BY TurnIs DEF Parser
<1>2. /\ b = IF y.skip THEN [y EXCEPT !.skip = FALSE]
              ELSE IF c = "comma" THEN Comma(y)
              ELSE IF c \in LineEnds THEN LineEnd(y, c, d)
              ELSE IF c = "quote" THEN Quote(y, d)
              ELSE IF c = escape THEN Escape(y, d)
              ELSE Separated(PushBack(y, c), FALSE, FALSE)
      /\ a = IF y.skip THEN [y EXCEPT !.skip = FALSE]
              ELSE IF c = "comma" THEN Comma(y)
              ELSE IF c \in LineEnds THEN LineEnd(y, c, None)
              ELSE IF c = "quote" THEN Quote(y, None)
              ELSE IF c = escape THEN Escape(y, None)
              ELSE Separated(PushBack(y, c), FALSE, FALSE)
  BY <1>1, TurnIs
<1>3. b.error = "Ok"
  OBVIOUS
<1> HIDE DEF a, b
<1>4. /\ [y EXCEPT !.newlining = TRUE].error = "Ok"
      /\ [y EXCEPT !.escaping = TRUE].error = "Ok"
  BY <1>1 DEF Parser
<1>5. LineEnd(y, c, None) = LineEnd(y, c, d) \/ LineEnd(y, c, None) = [y EXCEPT !.newlining = TRUE]
      \/ c \notin LineEnds
  BY DEF LineEnd, LineEnds
<1>6. Quote(y, None) = Quote(y, d) \/ Quote(y, None) = [y EXCEPT !.escaping = TRUE]
  BY DEF Quote
<1>7. Escape(y, None) = Escape(y, d) \/ Escape(y, None) = [y EXCEPT !.escaping = TRUE]
  BY DEF Escape
<1>8. a = b \/ a = [y EXCEPT !.newlining = TRUE] \/ a = [y EXCEPT !.escaping = TRUE]
  BY <1>2, <1>5, <1>6, <1>7
<1>9. a.error = "Ok"
  BY <1>3, <1>4, <1>8
<1> QED
  BY <1>9 DEF a

\* What stays of how the text was made.
WrittenText ==
    written # None =>
        /\ written \in Tables
        /\ \E quotes, last \in BOOLEAN, line_end \in LineSeparators :
              /\ text = Write(written, quotes, escape, trailing, line_end, last)
              /\ last \/ WriteRow(written[Len(written)], quotes, escape, trailing) # <<>>

\* The run on a text that has been written of a table.
LEMMA WrittenRead ==
    ASSUME Facts, WrittenText, written # None, ~(escape = "quote" /\ text # <<>> /\ text[Len(text)] = "quote"),
           NEW g, WholeRun(g, text), NEW w, w = g[Len(text)]
    PROVE  /\ w.error = "Ok" /\ Ended(w, trailing).error = "Ok"
           /\ Ended(w, trailing).fields = FlattenSeq(TableCalls(written))
<1> DEFINE n == Len(written)
           row == written[n]
<1>1. PICK quotes \in BOOLEAN, last \in BOOLEAN, line_end \in LineSeparators :
         /\ text = Write(written, quotes, escape, trailing, line_end, last)
         /\ last \/ WriteRow(written[Len(written)], quotes, escape, trailing) # <<>>
  BY DEF WrittenText
<1>2. Rectangular(written)
  BY ConstantsAssumption DEF WrittenText, Rectangular
<1>3. PICK before \in Seq(FieldCall) :
         /\ CallsWith(before, n - 1, row) = FlattenSeq(TableCalls(written))
         /\ TableRead(w, n - 1, row, before)
  BY <1>1, <1>2, TextRead
<1>4. n \in Nat \ {0} /\ row \in Seq(Seq(Char)) /\ row # <<>>
  <2>1. /\ written \in Seq(Seq(Seq(Char))) /\ written # <<>>
        /\ \A r \in DOMAIN written : Len(written[r]) = Len(written[1]) /\ written[r] # <<>>
    BY <1>2 DEF Rectangular
  <2>2. n \in Nat \ {0} /\ DOMAIN written = 1 .. n
    BY <2>1, LenProperties, EmptySeq
  <2>3. n \in 1 .. n
    BY <2>2
  <2> QED
    BY <2>1, <2>2, <2>3, ElementOfSeq
<1>5. n - 1 \in Nat
  BY <1>4
<1> HIDE DEF n, row
<1> QED
  BY <1>3, <1>4, <1>5, ReadThenEnded

-----------------------------------------------------------------------------
(* The inductive invariant. *)

\* However it was cut, what has been read leaves the parser as good as the run on
\* the whole text that has come as far, or it has been finished there.
ReadSoFar ==
    \A g : WholeRun(g, text) =>
        \E p : /\ Cut(p, pos, text, g)
               /\ IF parser.finished
                  THEN pos = Len(text) /\ p.error = "Ok" /\ parser = Ended(p, trailing)
                  ELSE parser = p

IInv ==
    /\ escape \in Escapes /\ trailing \in BOOLEAN
    /\ text \in Seq(Char) /\ pos \in 0 .. Len(text)
    /\ ReadSoFar
    /\ WrittenText

\* What the operations need to know of the parser's two parameters.
LEMMA EscapeFacts ==
    ASSUME escape \in Escapes, trailing \in BOOLEAN
    PROVE  Facts
BY ConstantsAssumption DEF Facts

\* What has been read of a text is settled, but for its end.
LEMMA CutTurned ==
    ASSUME Facts, NEW s \in Seq(Char), NEW g, WholeRun(g, s), NEW n \in 0 .. Len(s),
           NEW p, Cut(p, n, s, g)
    PROVE  Turned(p, None)
<1>1. CASE n = 0
  BY <1>1, StartSettled DEF Cut, Turned, Settled
<1>2. CASE n # 0
  <2>1. PICK x : Settled(x) /\ p = Turn(x, s[n], None)
    BY <1>2 DEF Cut
  <2>2. s[n] \in Char
    BY <1>2, BehindIs
  <2> QED
    BY <2>1, <2>2, TurnTurns
<1> QED
  BY <1>1, <1>2

\* The parser begins with nothing read.
LEMMA InitInv == Init => IInv
<1> SUFFICES ASSUME Init PROVE IInv
  OBVIOUS
<1>1. escape \in Escapes /\ trailing \in BOOLEAN /\ Facts
  BY EscapeFacts DEF Init
<1>2. text \in Seq(Char)
  <2>1. CASE text \in Texts
    BY <2>1, ConstantsAssumption
  <2>2. CASE \E table \in Tables, quotes, last \in BOOLEAN, line_end \in {<<"lf">>, <<"cr">>, <<"cr", "lf">>} :
                text = Write(table, quotes, escape, trailing, line_end, last)
    <3>1. PICK table \in Tables, quotes \in BOOLEAN, last \in BOOLEAN,
               line_end \in {<<"lf">>, <<"cr">>, <<"cr", "lf">>} :
                text = Write(table, quotes, escape, trailing, line_end, last)
      BY <2>2
    <3>2. "lf" \in Char /\ "cr" \in Char
      BY ConstantsAssumption DEF Special
    <3>3. line_end \in Seq(Char)
      <4>1. <<"lf">> \in Seq(Char) /\ <<"cr">> \in Seq(Char)
        BY <3>2
      <4>2. <<"cr", "lf">> \in Seq(Char)
        BY <3>2
      <4> QED
        BY <4>1, <4>2
    <3>4. table \in Seq(Seq(Seq(Char)))
      BY ConstantsAssumption
    <3> QED
      BY <1>1, <3>1, <3>3, <3>4, WriteType
  <2> QED
    BY <2>1, <2>2 DEF Init
<1>3. pos = 0 /\ pos \in 0 .. Len(text)
  BY <1>2, LenProperties DEF Init
<1>4. ReadSoFar
  BY <1>3 DEF Init, ReadSoFar, Cut, Start
<1>5. WrittenText
  <2>1. CASE written = None
    BY <2>1 DEF WrittenText
  <2>2. CASE written # None
    <3>1. PICK table \in Tables, quotes \in BOOLEAN, last \in BOOLEAN, line_end \in LineSeparators :
             /\ written = table
             /\ text = Write(table, quotes, escape, trailing, line_end, last)
             /\ last \/ WriteRow(table[Len(table)], quotes, escape, trailing) # <<>>
      BY <2>2 DEF Init, LineSeparators, Last
    <3> QED
      BY <3>1 DEF WrittenText
  <2> QED
    BY <2>1, <2>2
<1> QED
  BY <1>1, <1>2, <1>3, <1>4, <1>5 DEF IInv

\* No step changes the text or what it has been written of.
LEMMA TextKept ==
    ASSUME WrittenText, escape' = escape, trailing' = trailing, text' = text, written' = written
    PROVE  WrittenText'
BY DEF WrittenText

\* execute reads on.
LEMMA ExecuteInv ==
    ASSUME IInv, Execute
    PROVE  IInv'
<1>1. /\ escape' = escape /\ trailing' = trailing /\ text' = text /\ parser.error = "Ok" /\ Facts
      /\ escape \in Escapes /\ trailing \in BOOLEAN /\ text \in Seq(Char) /\ pos \in 0 .. Len(text)
  BY EscapeFacts DEF IInv, Execute
<1>2. PICK n \in (pos + 1) .. Len(text) : parser' = Executed(parser, SubSeq(text, pos + 1, n)) /\ pos' = n
  BY DEF Execute
<1>3. Len(text) \in Nat /\ n \in 0 .. Len(text) /\ pos # Len(text)
  BY <1>1, LenProperties
<1>4. PICK s : s = text
  OBVIOUS
<1>5. ASSUME NEW g, WholeRun(g, s)'
      PROVE  \E p : /\ Cut(p, pos, s, g)'
                    /\ IF parser'.finished
                       THEN pos' = Len(text)' /\ p.error = "Ok" /\ parser' = Ended(p, trailing)'
                       ELSE parser' = p
  <2>1. WholeRun(g, s)
    BY <1>1, <1>5, RunsKept
  <2>2. ~parser.finished /\ Cut(parser, pos, s, g)
    BY <1>3, <1>4, <2>1 DEF IInv, ReadSoFar
  <2>3. PICK q : q = parser'
    OBVIOUS
  <2>4. Cut(q, n, s, g)
    BY <1>1, <1>2, <1>4, <2>1, <2>2, <2>3, CutGrows
  <2>5. ~q.finished
    BY <1>1, <1>3, <1>4, <2>1, <2>4, CutTurned DEF Turned
  <2>6. Cut(q, n, s, g)'
    BY <1>1, <2>4, RunsKept
  <2>7. Cut(q, pos, s, g)'
    BY <1>2, <2>6 DEF Cut
  <2> QED
    BY <2>3, <2>5, <2>7
<1>6. ReadSoFar'
  BY <1>1, <1>4, <1>5 DEF ReadSoFar
<1>7. WrittenText'
  BY <1>1, TextKept DEF IInv, Execute
<1> QED
  BY <1>1, <1>2, <1>3, <1>6, <1>7 DEF IInv

\* finish ends what has been read.
LEMMA FinishInv ==
    ASSUME IInv, Finish
    PROVE  IInv'
<1>1. /\ escape' = escape /\ trailing' = trailing /\ text' = text /\ pos' = pos
      /\ parser.error = "Ok" /\ ~parser.finished /\ pos = Len(text) /\ parser' = Finished(parser) /\ Facts
      /\ escape \in Escapes /\ trailing \in BOOLEAN /\ text \in Seq(Char) /\ pos \in 0 .. Len(text)
  BY EscapeFacts DEF IInv, Finish
<1>2. PICK s : s = text
  OBVIOUS
<1>3. ASSUME NEW g, WholeRun(g, s)'
      PROVE  \E p : /\ Cut(p, pos, s, g)'
                    /\ IF parser'.finished
                       THEN pos' = Len(text)' /\ p.error = "Ok" /\ parser' = Ended(p, trailing)'
                       ELSE parser' = p
  <2>1. WholeRun(g, s)
    BY <1>1, <1>3, RunsKept
  <2>2. PICK q : q = parser
    OBVIOUS
  <2>3. PICK n : n = pos
    OBVIOUS
  <2>4. Cut(q, n, s, g)
    BY <1>1, <1>2, <2>1, <2>2, <2>3 DEF IInv, ReadSoFar
  <2>5. Turned(q, None)
    BY <1>1, <1>2, <2>1, <2>3, <2>4, CutTurned
  <2>6. parser' = Ended(q, trailing)
    BY <1>1, <2>2, <2>5, FinishedIs
  <2>7. parser' = Ended(q, trailing)'
    BY <1>1, <2>6
  <2>8. Cut(q, n, s, g)'
    BY <1>1, <2>4, RunsKept
  <2>9. Cut(q, pos, s, g)'
    BY <1>1, <2>3, <2>8 DEF Cut
  <2>10. parser'.finished
    BY <1>1, <2>2, <2>5, <2>6, EndedTidy
  <2> QED
    BY <1>1, <2>2, <2>7, <2>9, <2>10
<1>4. ReadSoFar'
  BY <1>1, <1>2, <1>3 DEF ReadSoFar
<1>5. WrittenText'
  BY <1>1, TextKept DEF IInv, Finish
<1> QED
  BY <1>1, <1>4, <1>5 DEF IInv

\* Nothing else changes.
LEMMA StutterInv ==
    ASSUME IInv, UNCHANGED vars
    PROVE  IInv'
<1>1. /\ escape' = escape /\ trailing' = trailing /\ text' = text /\ pos' = pos /\ parser' = parser
  BY DEF vars
<1>2. PICK s : s = text
  OBVIOUS
<1>3. ASSUME NEW g, WholeRun(g, s)'
      PROVE  \E p : /\ Cut(p, pos, s, g)'
                    /\ IF parser'.finished
                       THEN pos' = Len(text)' /\ p.error = "Ok" /\ parser' = Ended(p, trailing)'
                       ELSE parser' = p
  <2>1. WholeRun(g, s)
    BY <1>1, <1>3, RunsKept
  <2>2. PICK p : /\ Cut(p, pos, s, g)
                 /\ IF parser.finished
                    THEN pos = Len(text) /\ p.error = "Ok" /\ parser = Ended(p, trailing)
                    ELSE parser = p
    BY <1>2, <2>1 DEF IInv, ReadSoFar
  <2>3. PICK n : n = pos
    OBVIOUS
  <2>4. Cut(p, n, s, g)'
    BY <1>1, <2>2, <2>3, RunsKept
  <2>5. Cut(p, pos, s, g)'
    BY <1>1, <2>3, <2>4 DEF Cut
  <2> QED
    BY <1>1, <2>2, <2>5
<1>4. ReadSoFar'
  BY <1>1, <1>2, <1>3 DEF ReadSoFar
<1>5. WrittenText'
  BY <1>1, TextKept DEF IInv, vars
<1> QED
  BY <1>1, <1>4, <1>5 DEF IInv

-----------------------------------------------------------------------------
(* What the invariant gives. *)

\* There is a run on the whole text, and it is what execute makes of it.
LEMMA WholeExists ==
    ASSUME NEW s \in Seq(Char)
    PROVE  \E g : WholeRun(g, s) /\ Executed(Start, s) = g[Len(s)]
<1>1. Len(s) \in Nat
  BY LenProperties
<1>2. PICK g : Runs(g, Start, s) /\ Executed(Start, s) = g[Len(s)]
  BY <1>1, ExecutedRuns
<1> QED
  BY <1>2, StartSettled DEF Runs, WholeRun

\* Neither a buffer's end nor finish leaves more than one thing pending.
LEMMA InvTidy == IInv => TypeOK
<1> SUFFICES ASSUME IInv PROVE TypeOK
  OBVIOUS
<1>1. /\ Facts /\ text \in Seq(Char) /\ pos \in 0 .. Len(text)
  BY EscapeFacts DEF IInv
<1>2. PICK g : WholeRun(g, text)
  BY <1>1, WholeExists
<1>3. PICK p : /\ Cut(p, pos, text, g)
               /\ IF parser.finished
                  THEN pos = Len(text) /\ p.error = "Ok" /\ parser = Ended(p, trailing)
                  ELSE parser = p
  BY <1>2 DEF IInv, ReadSoFar
<1>4. Turned(p, None)
  BY <1>1, <1>2, <1>3, CutTurned
<1>5. Tidy(parser)
  <2>1. CASE parser.finished
    BY <1>1, <1>3, <1>4, <2>1, EndedTidy
  <2>2. CASE ~parser.finished
    BY <1>3, <1>4, <2>2 DEF Turned, Sound, Tidy, Parser
  <2> QED
    BY <2>1, <2>2
<1> QED
  BY <1>1, <1>5 DEF TypeOK, Tidy, Errors

\* The whole text in one buffer gives what the buffers gave.
LEMMA InvChunks == IInv => ChunkingInvisible
<1> SUFFICES ASSUME IInv, parser.finished
             PROVE  LET whole == Finished(Executed(Start, text))
                    IN  /\ (parser.error = "Ok") = (whole.error = "Ok")
                        /\ parser.error = "Ok" => parser.fields = whole.fields
  BY DEF ChunkingInvisible
<1> DEFINE l == Len(text)
<1>1. /\ Facts /\ text \in Seq(Char) /\ l \in Nat /\ l \in 0 .. Len(text)
  BY EscapeFacts, LenProperties DEF IInv
<1>2. PICK g : WholeRun(g, text) /\ Executed(Start, text) = g[l]
  BY <1>1, WholeExists
<1>3. PICK p : Cut(p, l, text, g) /\ p.error = "Ok" /\ parser = Ended(p, trailing)
  BY <1>2 DEF IInv, ReadSoFar
<1> DEFINE w == g[l]
<1>4. Turned(p, None)
  BY <1>1, <1>2, <1>3, CutTurned
<1>5. Turned(w, None) /\ Like(p, w)
  <2>1. CASE l = 0
    <3>1. p = Start /\ w = Start
      BY <1>2, <1>3, <2>1 DEF Cut, WholeRun
    <3> QED
      BY <3>1, <1>4 DEF Like
  <2>2. CASE l # 0
    <3>1. PICK x : Settled(x) /\ Like(x, g[l - 1]) /\ p = Turn(x, text[l], None)
      BY <1>3, <2>2 DEF Cut
    <3>2. l \in 1 .. Len(text) /\ l - 1 \in 0 .. Len(text) /\ l - 1 < Len(text)
      BY <1>1, <2>2
    <3>3. text[l] \in Char /\ CharOrNone(text, l + 1) = None
      BY <1>1, <3>2, BehindIs
    <3>4. w = Turn(g[l - 1], text[l], None)
      BY <1>2, <3>2, <3>3 DEF WholeRun
    <3>5. Settled(g[l - 1]) /\ Turned(w, None)
      BY <1>1, <1>2, <3>2, <2>2, StartSettled, WithinSettled DEF WholeRun
    <3> QED
      BY <1>1, <3>1, <3>3, <3>4, <3>5, TurnsLike
  <2> QED
    BY <2>1, <2>2
<1>6. w.error = "Ok"
  BY <1>3, <1>5 DEF Like
<1>7. Finished(w) = Ended(w, trailing)
  BY <1>1, <1>5, <1>6, FinishedIs
<1> HIDE DEF w
<1>8. /\ (Ended(p, trailing).error = "Ok") = (Ended(w, trailing).error = "Ok")
      /\ Ended(p, trailing).error = "Ok" => Ended(p, trailing).fields = Ended(w, trailing).fields
  BY <1>1, <1>3, <1>4, <1>5, EndedLike
<1>9. Executed(Start, text) = w
  BY <1>2 DEF w
<1> QED
  BY <1>3, <1>7, <1>8, <1>9

\* The run on a text stays settled up to its last character.
LEMMA WholeTurned ==
    ASSUME Facts, NEW s \in Seq(Char), NEW g, WholeRun(g, s)
    PROVE  Turned(g[Len(s)], None) /\ \A i \in 0 .. Len(s) : i < Len(s) => Settled(g[i])
<1>1. Settled(g[0]) /\ \A i \in 1 .. Len(s) : g[i] = Turn(g[i - 1], s[i], CharOrNone(s, i + 1))
  BY StartSettled DEF WholeRun
<1>2. /\ \A i \in 0 .. Len(s) : i < Len(s) => Settled(g[i])
      /\ Len(s) # 0 => Turned(g[Len(s)], None)
  BY <1>1, WithinSettled
<1>3. CASE Len(s) = 0
  <2>1. g[Len(s)] = Start
    BY <1>3 DEF WholeRun
  <2>2. Turned(Start, None)
    BY StartSettled DEF Turned, Settled
  <2> QED
    BY <1>2, <2>1, <2>2
<1> QED
  BY <1>2, <1>3

\* A parser gets no error where the run on the whole text gets none.
LEMMA CutOk ==
    ASSUME Facts, NEW s \in Seq(Char), NEW g, WholeRun(g, s), g[Len(s)].error = "Ok",
           NEW n \in 0 .. Len(s), NEW p, Cut(p, n, s, g)
    PROVE  p.error = "Ok"
<1>1. CASE n = 0
  BY <1>1, StartSettled DEF Cut
<1>2. CASE n # 0
  <2>1. PICK x : Settled(x) /\ Like(x, g[n - 1]) /\ p = Turn(x, s[n], None)
    BY <1>2 DEF Cut
  <2>2. Len(s) \in Nat /\ n \in 1 .. Len(s) /\ n - 1 \in 0 .. Len(s) /\ n - 1 < Len(s)
    BY <1>2, LenProperties
  <2>3. s[n] \in Char
    BY <2>2, BehindIs
  <2> DEFINE y == g[n - 1]
             z == Turn(y, s[n], None)
  <2>4. Settled(y)
    BY <2>2, WholeTurned
  <2>5. g[n] = Turn(y, s[n], CharOrNone(s, n + 1))
    BY <2>2 DEF WholeRun
  <2>6. g[n].error = "Ok"
    BY ErrorsStay
  <2> HIDE DEF y
  <2>7. z.error = "Ok"
    <3>1. y \in Parser
      BY <2>4 DEF Settled
    <3> QED
      BY <2>5, <2>6, <3>1, CutsMakeNoError
  <2>8. Like(p, z)
    BY <2>1, <2>3, <2>4, TurnsLike DEF y
  <2>9. z \in Parser
    BY <2>3, <2>4, TurnTurns DEF Turned
  <2> HIDE DEF z
  <2> QED
    BY <2>7, <2>8, <2>9 DEF Like, Parser
<1> QED
  BY <1>1, <1>2

\* What is delivered of a table that has been written.
LEMMA InvReads ==
    ASSUME IInv, written # None,
           ~(escape = "quote" /\ text # <<>> /\ text[Len(text)] = "quote")
    PROVE  /\ parser.error = "Ok"
           /\ parser.finished => parser.fields = FlattenSeq(TableCalls(written))
<1> DEFINE l == Len(text)
<1>1. Facts /\ text \in Seq(Char) /\ l \in Nat /\ pos \in 0 .. Len(text)
  BY EscapeFacts, LenProperties DEF IInv
<1>2. PICK g : WholeRun(g, text) /\ Executed(Start, text) = g[l]
  BY <1>1, WholeExists
<1>3. PICK w : w = g[l]
  OBVIOUS
<1>4. /\ w.error = "Ok" /\ Ended(w, trailing).error = "Ok"
      /\ Ended(w, trailing).fields = FlattenSeq(TableCalls(written))
  BY <1>1, <1>2, <1>3, WrittenRead DEF IInv
<1>5. CASE ~parser.finished
  <2>1. Cut(parser, pos, text, g)
    BY <1>2, <1>5 DEF IInv, ReadSoFar
  <2> QED
    BY <1>1, <1>2, <1>3, <1>4, <1>5, <2>1, CutOk
<1>6. CASE parser.finished
  <2>1. Turned(w, None)
    BY <1>1, <1>2, <1>3, WholeTurned
  <2>2. Finished(w) = Ended(w, trailing)
    BY <1>1, <1>4, <2>1, FinishedIs
  <2>3. /\ (parser.error = "Ok") = (Finished(w).error = "Ok")
        /\ parser.error = "Ok" => parser.fields = Finished(w).fields
    BY <1>2, <1>3, <1>6, InvChunks DEF ChunkingInvisible
  <2> QED
    BY <1>4, <2>2, <2>3
<1> QED
  BY <1>5, <1>6

-----------------------------------------------------------------------------
(* The records of a table that has been written. *)

\* The states of TableParser in the calls of on_field.
TableRun(t, calls, columns, header) ==
    /\ t[0] = [last_record |-> <<>>, records |-> <<>>]
    /\ \A i \in 1 .. Len(calls) : t[i] = OnTableField(t[i - 1], calls[i], columns, header)

\* The recursion of Records has a result: there are states of TableParser.
LEMMA RecordsRun ==
    ASSUME NEW calls, Len(calls) \in Nat, NEW columns, NEW header
    PROVE  \E t : TableRun(t, calls, columns, header) /\ Records(calls, columns, header) = t[Len(calls)].records
<1> DEFINE l == Len(calls)
           begun == [last_record |-> <<>>, records |-> <<>>]
           Step(f, i) == IF i = 0 THEN begun ELSE OnTableField(f[i - 1], calls[i], columns, header)
           Upto(m) == \E f : f = [i \in 0 .. m |-> Step(f, i)]
           T == {m \in 0 .. l : Upto(m)}
<1> HIDE DEF begun
<1>1. 0 \in T
  <2> DEFINE f == [i \in 0 .. 0 |-> begun]
  <2>1. f = [i \in 0 .. 0 |-> Step(f, i)] /\ 0 \in 0 .. l
    OBVIOUS
  <2> QED
    BY <2>1
<1>2. ASSUME NEW m \in 1 .. l, m - 1 \in T PROVE m \in T
  <2>1. PICK f : f = [i \in 0 .. (m - 1) |-> Step(f, i)]
    BY <1>2
  <2> DEFINE g == [i \in 0 .. m |-> IF i = m THEN Step(f, m) ELSE f[i]]
  <2>2. ASSUME NEW i \in 0 .. m PROVE g[i] = Step(g, i)
    <3>1. CASE i = 0
      <4>1. g[i] = f[0] /\ f[0] = Step(f, 0)
        <5>1. 0 \in 0 .. (m - 1) /\ 0 # m /\ 0 \in 0 .. m
          OBVIOUS
        <5>2. g[0] = f[0]
          BY <5>1
        <5> HIDE DEF Step, g
        <5> QED
          BY <2>1, <3>1, <5>1, <5>2
      <4> QED
        BY <3>1, <4>1
    <3>2. CASE i # 0
      <4>1. i - 1 \in 0 .. (m - 1) /\ i - 1 \in 0 .. m /\ i - 1 # m
        BY <3>2
      <4>2. g[i - 1] = f[i - 1]
        BY <4>1
      <4>3. g[i] = Step(f, i)
        <5>1. CASE i = m
          BY <5>1
        <5>2. CASE i # m
          <6>1. i \in 0 .. (m - 1)
            BY <5>2
          <6>2. g[i] = f[i]
            BY <5>2
          <6>3. f[i] = Step(f, i)
            <7> HIDE DEF Step, g
            <7> QED
              BY <2>1, <6>1
          <6> QED
            BY <6>2, <6>3
        <5> QED
          BY <5>1, <5>2
      <4> QED
        BY <3>2, <4>2, <4>3
    <3> QED
      BY <3>1, <3>2
  <2>3. g = [i \in 0 .. m |-> Step(g, i)]
    <3> HIDE DEF Step
    <3>1. \A i \in 0 .. m : g[i] = Step(g, i)
      BY <2>2
    <3>2. g = [i \in 0 .. m |-> g[i]]
      OBVIOUS
    <3> HIDE DEF g
    <3> QED
      BY <3>1, <3>2
  <2>4. Upto(m)
    <3> HIDE DEF g, Step
    <3> QED
      BY <2>3
  <2> HIDE DEF Upto
  <2> QED
    BY <2>4
<1>3. Upto(l)
  <2> HIDE DEF T, l
  <2>1. l \in Nat /\ l \in 0 .. l
    BY DEF l
  <2>2. l \in T
    BY <1>1, <1>2, <2>1, Ascend
  <2> QED
    BY <2>2 DEF T
<1> DEFINE t == CHOOSE f : f = [i \in 0 .. l |-> Step(f, i)]
<1>4. t = [i \in 0 .. l |-> Step(t, i)]
  <2> HIDE DEF Step
  <2> QED
    BY <1>3
<1>5. Records(calls, columns, header) = t[l].records
  BY DEF Records, begun
<1> HIDE DEF t
<1>6. ASSUME NEW i \in 0 .. l PROVE t[i] = Step(t, i)
  <2> HIDE DEF Step
  <2> QED
    BY <1>4
<1>7. t[0] = begun
  BY <1>6
<1>8. ASSUME NEW i \in 1 .. l PROVE t[i] = OnTableField(t[i - 1], calls[i], columns, header)
  BY <1>6
<1> QED
  BY <1>5, <1>7, <1>8 DEF TableRun, begun

\* What is stored of a row, and of a table, without the first row if that is a header.
Value == Seq(Char) \union {None}
RecordOf(row) == [c \in DOMAIN row |-> Converted(row[c])]
Skipped(header) == IF header THEN 1 ELSE 0
RecordsOf(table, header, k) ==
    [r \in 1 .. (IF k <= Skipped(header) THEN 0 ELSE k - Skipped(header)) |->
        RecordOf(table[r + Skipped(header)])]

\* A record has a value for each field of its row.
LEMMA RecordType ==
    ASSUME NEW row \in Seq(Seq(Char))
    PROVE  /\ RecordOf(row) \in Seq(Value) /\ Len(RecordOf(row)) = Len(row)
           /\ \A c \in 1 .. Len(row) : RecordOf(row)[c] = Converted(row[c]) /\ Converted(row[c]) \in Value
<1> DEFINE F(c) == Converted(row[c])
           rec == [c \in DOMAIN row |-> F(c)]
<1>1. DOMAIN row = 1 .. Len(row) /\ Len(row) \in Nat
  BY LenProperties
<1>2. ASSUME NEW c \in 1 .. Len(row) PROVE F(c) \in Value
  <2>1. row[c] \in Seq(Char)
    BY ElementOfSeq
  <2> QED
    BY <2>1 DEF Converted, Value
<1>3. \A c \in 1 .. Len(row) : rec[c] = F(c)
  BY <1>1
<1>4. rec \in Seq(Value) /\ DOMAIN rec = 1 .. Len(row)
  <2> HIDE DEF F
  <2> QED
    BY <1>1, <1>2, IsASeq
<1>5. rec = RecordOf(row)
  BY DEF RecordOf
<1> HIDE DEF rec
<1>6. Len(rec) = Len(row)
  BY <1>1, <1>4, LenProperties
<1> QED
  BY <1>2, <1>3, <1>4, <1>5, <1>6

\* One more row is one more record, unless it is the header.
LEMMA RecordsGrow ==
    ASSUME NEW table, Rectangular(table), NEW header \in BOOLEAN
    PROVE  /\ RecordsOf(table, header, 0) = <<>>
           /\ \A k \in 1 .. Len(table) :
                 RecordsOf(table, header, k) =
                    IF k <= Skipped(header) THEN RecordsOf(table, header, k - 1)
                    ELSE Append(RecordsOf(table, header, k - 1), RecordOf(table[k]))
<1> DEFINE n == Len(table)
           h == Skipped(header)
           F(r) == RecordOf(table[r + h])
           G(m) == [r \in 1 .. m |-> F(r)]
           R(k) == RecordsOf(table, header, k)
<1>1. n \in Nat /\ h \in {0, 1}
  BY LenProperties DEF Rectangular, Skipped
<1>2. \A k : R(k) = G(IF k <= h THEN 0 ELSE k - h)
  BY DEF RecordsOf
<1> HIDE DEF n, h, R
<1>3. ASSUME NEW m \in Nat, m + h <= n
      PROVE  G(m) \in Seq(Seq(Value)) /\ Len(G(m)) = m /\ \A r \in 1 .. m : G(m)[r] = F(r)
  <2>1. ASSUME NEW r \in 1 .. m PROVE F(r) \in Seq(Value)
    <3>1. r + h \in 1 .. n
      BY <1>1, <1>3
    <3>2. table[r + h] \in Seq(Seq(Char))
      BY <3>1, ElementOfSeq DEF Rectangular, n
    <3> QED
      BY <3>2, RecordType
  <2> HIDE DEF F
  <2>2. G(m) \in Seq(Seq(Value)) /\ DOMAIN G(m) = 1 .. m /\ \A r \in 1 .. m : G(m)[r] = F(r)
    BY <2>1, IsASeq
  <2>3. Len(G(m)) = m
    <3> HIDE DEF G
    <3> QED
      BY <2>2, LenProperties
  <2> QED
    BY <2>2, <2>3
<1>4. R(0) = <<>>
  <2>1. R(0) = G(0) /\ 0 + h <= n /\ 0 \in Nat
    <3>1. n # 0
      BY EmptySeq DEF Rectangular, n
    <3> QED
      BY <1>1, <1>2, <3>1
  <2> HIDE DEF G
  <2> QED
    BY <1>3, <2>1, EmptySeq
<1>5. ASSUME NEW k \in 1 .. n, k <= h PROVE R(k) = R(k - 1)
  <2>1. k - 1 <= h
    BY <1>1, <1>5
  <2> HIDE DEF G
  <2> QED
    BY <1>2, <1>5, <2>1
<1>6. ASSUME NEW k \in 1 .. n, ~(k <= h) PROVE R(k) = Append(R(k - 1), RecordOf(table[k]))
  <2> DEFINE m == k - h
             j == m - 1
             e == RecordOf(table[k])
             x == G(j)
             y == G(m)
             z == Append(x, e)
  <2>1. /\ m \in Nat \ {0} /\ m + h = k /\ j \in Nat /\ j + h <= n /\ m + h <= n /\ j + 1 = m
        /\ (k - 1 <= h => j = 0) /\ (~(k - 1 <= h) => (k - 1) - h = j)
    BY <1>1, <1>6
  <2>2. R(k) = y
    BY <1>2, <1>6
  <2>3. R(k - 1) = x
    <3> HIDE DEF G, j
    <3> QED
      BY <1>2, <2>1
  <2>4. /\ x \in Seq(Seq(Value)) /\ Len(x) = j /\ (\A r \in 1 .. j : x[r] = F(r))
        /\ y \in Seq(Seq(Value)) /\ Len(y) = m /\ (\A r \in 1 .. m : y[r] = F(r))
    <3> HIDE DEF G, F, m, j
    <3> QED
      BY <1>3, <2>1
  <2>5. F(m) = e
    BY <2>1
  <2>6. e \in Seq(Value)
    <3>1. table[k] \in Seq(Seq(Char))
      BY ElementOfSeq DEF Rectangular, n
    <3> QED
      BY <3>1, RecordType
  <2> HIDE DEF x, y, F, G, e, m, j
  <2>7. /\ z \in Seq(Seq(Value)) /\ Len(z) = j + 1 /\ (\A r \in 1 .. j : z[r] = x[r])
        /\ z[j + 1] = e
    BY <2>4, <2>6, AppendProperties
  <2> HIDE DEF z
  <2>8. ASSUME NEW r \in 1 .. Len(z) PROVE z[r] = y[r]
    <3>1. r \in 1 .. m
      BY <2>1, <2>7
    <3>2. CASE r = m
      BY <2>1, <2>4, <2>5, <2>7, <3>1, <3>2
    <3>3. CASE r # m
      <4>1. r \in 1 .. j
        BY <2>1, <3>1, <3>3
      <4> QED
        BY <2>4, <2>7, <3>1, <4>1
    <3> QED
      BY <3>2, <3>3
  <2>9. z = y
    <3>1. Len(z) = Len(y)
      BY <2>1, <2>4, <2>7
    <3> QED
      BY <2>4, <2>7, <2>8, <3>1, SeqEqual
  <2> QED
    BY <2>2, <2>3, <2>9 DEF z, e
<1> QED
  BY <1>4, <1>5, <1>6 DEF n, h, R

\* TableParser between two rows.
Stored(table, header, k) == [last_record |-> <<>>, records |-> RecordsOf(table, header, k)]

\* The calls up to number b are for rows before number r, those up to number e for rows up to it.
RowComes(t, table, header, r, b, e) ==
    /\ r \in 1 .. Len(table) /\ b \in Nat /\ e = b + Len(table[r])
    /\ t[b] = Stored(table, header, r - 1)
    /\ \A c \in 1 .. Len(table[r]) :
          t[b + c] = OnTableField(t[b + (c - 1)], <<c - 1, r - 1, table[r][c]>>, Len(table[r]), header)

\* The calls for a row make a record of it, unless it is the header.
LEMMA RowStored ==
    ASSUME NEW table, Rectangular(table), NEW header \in BOOLEAN, NEW t, NEW r, NEW b, NEW e,
           RowComes(t, table, header, r, b, e)
    PROVE  t[e] = Stored(table, header, r)
<1>0. PICK row : row = table[r]
  OBVIOUS
<1> DEFINE l == Len(row)
           rec == RecordOf(row)
           R(k) == RecordsOf(table, header, k)
<1>1. /\ row \in Seq(Seq(Char)) /\ l \in Nat \ {0} /\ Len(table) \in Nat
      /\ r \in 1 .. Len(table) /\ b \in Nat /\ e = b + l /\ t[b] = Stored(table, header, r - 1)
  <2>1. table \in Seq(Seq(Seq(Char))) /\ DOMAIN table = 1 .. Len(table) /\ Len(table) \in Nat
    BY LenProperties DEF Rectangular
  <2>2. row \in Seq(Seq(Char)) /\ row # <<>>
    BY <1>0, <2>1, ElementOfSeq DEF Rectangular, RowComes
  <2> QED
    BY <1>0, <2>1, <2>2, EmptySeq DEF RowComes
<1>2. /\ rec \in Seq(Value) /\ Len(rec) = l
      /\ \A c \in 1 .. l : rec[c] = Converted(row[c])
  BY <1>1, RecordType
<1>3. R(r) = IF r <= Skipped(header) THEN R(r - 1) ELSE Append(R(r - 1), rec)
  BY <1>0, <1>1, RecordsGrow
<1>4. \A c \in 1 .. l :
         t[b + c] = OnTableField(t[b + (c - 1)], <<c - 1, r - 1, row[c]>>, l, header)
  BY <1>0 DEF RowComes
<1>5. b + 0 = b /\ r - 1 \in Nat
  BY <1>1
<1> HIDE DEF l, rec, R
<1>6. CASE header /\ r = 1
  <2> DEFINE T == {c \in 0 .. l : t[b + c] = Stored(table, header, r - 1)}
  <2>1. 0 \in T
    BY <1>1, <1>5
  <2>2. ASSUME NEW c \in 1 .. l, c - 1 \in T PROVE c \in T
    <3>1. t[b + c] = OnTableField(Stored(table, header, r - 1), <<c - 1, r - 1, row[c]>>, l, header)
      BY <1>4, <2>2
    <3>2. OnTableField(Stored(table, header, r - 1), <<c - 1, r - 1, row[c]>>, l, header) = Stored(table, header, r - 1)
      <4>1. r - 1 = 0
        BY <1>6
      <4> QED
        BY <1>6, <4>1 DEF OnTableField
    <3>3. c \in 0 .. l
      BY <1>1
    <3> QED
      BY <3>1, <3>2, <3>3
  <2>3. l \in T
    <3>1. l \in Nat /\ l \in 0 .. l
      BY <1>1
    <3> HIDE DEF T
    <3> QED
      BY <2>1, <2>2, <3>1, Ascend
  <2>4. R(r) = R(r - 1)
    BY <1>3, <1>6 DEF Skipped
  <2> QED
    BY <1>1, <2>3, <2>4 DEF Stored, R
<1>7. CASE ~(header /\ r = 1)
  <2> DEFINE P(c) == [last_record |-> Beginning(rec, c), records |-> R(r - 1)]
             T == {c \in 0 .. (l - 1) : t[b + c] = P(c)}
  <2>1. /\ Beginning(rec, 0) = <<>> /\ Beginning(rec, l) = rec
        /\ \A c \in 1 .. l : Append(Beginning(rec, c - 1), Converted(row[c])) = Beginning(rec, c)
    <3>1. /\ SubSeq(rec, 1, 0) = <<>> /\ SubSeq(rec, 1, l) = rec
          /\ \A c \in 1 .. l : Append(SubSeq(rec, 1, c - 1), rec[c]) = SubSeq(rec, 1, c)
      BY <1>2, PrefixGrows
    <3> QED
      BY <1>2, <3>1 DEF Beginning
  <2>2. ASSUME NEW c \in 1 .. l, t[b + (c - 1)] = P(c - 1)
        PROVE  t[b + c] = IF c = l THEN [last_record |-> <<>>, records |-> Append(R(r - 1), rec)] ELSE P(c)
    <3>1. t[b + c] = OnTableField(P(c - 1), <<c - 1, r - 1, row[c]>>, l, header)
      BY <1>4, <2>2
    <3>2. /\ P(c - 1).last_record = Beginning(rec, c - 1) /\ P(c - 1).records = R(r - 1)
          /\ \A f : [P(c - 1) EXCEPT !.last_record = f] = [last_record |-> f, records |-> R(r - 1)]
      OBVIOUS
    <3> DEFINE call == <<c - 1, r - 1, row[c]>>
               p == P(c - 1)
               f == Append(p.last_record, Converted(call[3]))
    <3>3. call[1] = c - 1 /\ call[2] = r - 1 /\ call[3] = row[c]
      OBVIOUS
    <3>4. f = Beginning(rec, c)
      BY <2>1, <3>2, <3>3
    <3>5. ~(header /\ call[2] = 0) /\ (call[1] + 1 = l <=> c = l)
      BY <1>1, <1>7, <3>3
    <3> HIDE DEF call, p
    <3>6. OnTableField(p, call, l, header) =
             IF call[1] + 1 = l THEN [last_record |-> <<>>, records |-> Append(p.records, f)]
             ELSE [p EXCEPT !.last_record = f]
      BY <3>5 DEF OnTableField
    <3> HIDE DEF f
    <3>7. p.records = R(r - 1) /\ [p EXCEPT !.last_record = f] = [last_record |-> f, records |-> R(r - 1)]
      BY <3>2 DEF p
    <3>8. t[b + c] = IF c = l THEN [last_record |-> <<>>, records |-> Append(R(r - 1), f)]
                     ELSE [last_record |-> f, records |-> R(r - 1)]
      BY <3>1, <3>5, <3>6, <3>7 DEF call, p
    <3>9. CASE c = l
      <4>1. f = rec
        BY <2>1, <3>4, <3>9
      <4> QED
        BY <3>8, <3>9, <4>1
    <3>10. CASE c # l
      BY <3>4, <3>8, <3>10
    <3> QED
      BY <3>9, <3>10
  <2>3. 0 \in T
    <3>1. t[b + 0] = P(0) /\ 0 \in 0 .. (l - 1)
      BY <1>1, <1>5, <2>1 DEF Stored, R
    <3> QED
      BY <3>1
  <2> HIDE DEF P
  <2>4. ASSUME NEW c \in 1 .. (l - 1), c - 1 \in T PROVE c \in T
    <3>1. c \in 1 .. l /\ c # l /\ c \in 0 .. (l - 1)
      BY <1>1
    <3>2. t[b + c] = P(c)
      BY <2>2, <2>4, <3>1
    <3> QED
      BY <3>1, <3>2
  <2>5. l - 1 \in T
    <3>1. l - 1 \in Nat /\ l - 1 \in 0 .. (l - 1)
      BY <1>1
    <3> HIDE DEF T
    <3> QED
      BY <2>3, <2>4, <3>1, Ascend
  <2>6. t[b + l] = [last_record |-> <<>>, records |-> Append(R(r - 1), rec)]
    <3>1. l \in 1 .. l
      BY <1>1
    <3> QED
      BY <2>2, <2>5, <3>1
  <2>7. ~(r <= Skipped(header))
    BY <1>1, <1>7 DEF Skipped
  <2>8. R(r) = Append(R(r - 1), rec)
    BY <1>3, <2>7
  <2> QED
    BY <1>1, <2>6, <2>8 DEF Stored, R
<1> QED
  BY <1>6, <1>7

\* The calls for a table make its records.
LEMMA TableStored ==
    ASSUME NEW table, Rectangular(table), NEW header \in BOOLEAN,
           NEW calls, calls = FlattenSeq(TableCalls(table))
    PROVE  Records(calls, Len(table[1]), header) = RecordsOf(table, header, Len(table))
<1> DEFINE n == Len(table)
           k == Len(table[1])
           seqs == TableCalls(table)
<1>1. /\ Len(seqs) = n /\ n \in Nat \ {0}
      /\ \A r \in 1 .. n :
            /\ table[r] \in Seq(Seq(Char)) /\ Len(table[r]) = k
            /\ seqs[r] = FieldCalls(r - 1, table[r], Len(table[r])) /\ seqs[r] \in Seq(FieldCall)
  <2>1. n \in Nat \ {0} /\ DOMAIN table = 1 .. n
    BY EmptySeq, LenProperties DEF Rectangular
  <2>2. \A r \in 1 .. n : table[r] \in Seq(Seq(Char)) /\ Len(table[r]) = k
    BY <2>1, ElementOfSeq DEF Rectangular
  <2> QED
    BY <2>1, <2>2, CallsType
<1> HIDE DEF seqs, n, k
<1>2. PICK at, made : made \in Seq(FieldCall) /\ Follow(FieldCall, seqs, n, at, made)
  BY <1>1, FollowExists
<1>3. calls = made
  BY <1>1, <1>2, FlattenedIsAll DEF seqs
<1>4. Len(calls) \in Nat
  BY <1>2, <1>3, LenProperties
<1>5. PICK t : TableRun(t, calls, k, header) /\ Records(calls, k, header) = t[Len(calls)].records
  BY <1>4, RecordsRun
<1> DEFINE Rows(r) == t[at[r]] = Stored(table, header, r - 1)
           T == {r \in 0 .. n : Rows(r + 1)}
<1>6. Rows(1)
  <2>1. at[1] = 0 /\ 1 - 1 = 0
    BY <1>2 DEF Follow
  <2>2. RecordsOf(table, header, 0) = <<>>
    BY RecordsGrow
  <2> QED
    BY <1>5, <2>1, <2>2 DEF TableRun, Stored
<1>7. ASSUME NEW r \in 1 .. n, Rows(r) PROVE Rows(r + 1)
  <2> DEFINE b == at[r]
             row == table[r]
             l == Len(row)
  <2>1. r \in 1 .. n + 1 /\ (r + 1) - 1 = r
    BY <1>1
  <2>2. /\ b \in Nat /\ at[r + 1] = b + Len(seqs[r]) /\ at[r + 1] <= Len(calls)
        /\ \A c \in 1 .. Len(seqs[r]) : seqs[r][c] = calls[b + c]
    BY <1>2, <1>3, <2>1 DEF Follow
  <2>3. l = k /\ row \in Seq(Seq(Char)) /\ l \in Nat /\ l \in 0 .. Len(row)
    BY <1>1, LenProperties
  <2>4. Len(seqs[r]) = l /\ \A c \in 1 .. l : seqs[r][c] = <<c - 1, r - 1, row[c]>>
    <3>1. r - 1 \in Nat /\ <<>> \in Seq(FieldCall)
      BY <1>1
    <3>2. Len(FieldCalls(r - 1, row, l)) = l
      BY <2>3, <3>1, FieldCallsGrow
    <3>3. \A c \in 1 .. l : FieldCalls(r - 1, row, l)[c] = <<c - 1, r - 1, row[c]>>
      BY DEF FieldCalls
    <3> QED
      BY <1>1, <3>2, <3>3
  <2> HIDE DEF b, row, l
  <2>5. ASSUME NEW c \in 1 .. l
        PROVE  t[b + c] = OnTableField(t[b + (c - 1)], <<c - 1, r - 1, row[c]>>, l, header)
    <3>1. b + c \in 1 .. Len(calls) /\ (b + c) - 1 = b + (c - 1)
      <4> DEFINE m == Len(calls)
      <4>1. m \in Nat /\ b \in Nat /\ l \in Nat /\ b + l <= m /\ c \in 1 .. l
        BY <1>4, <2>2, <2>3, <2>4
      <4> HIDE DEF m
      <4>2. b + c \in 1 .. m /\ (b + c) - 1 = b + (c - 1)
        BY <4>1
      <4> QED
        BY <4>2 DEF m
    <3>2. calls[b + c] = <<c - 1, r - 1, row[c]>>
      BY <2>2, <2>4
    <3>3. t[b + c] = OnTableField(t[(b + c) - 1], calls[b + c], k, header)
      BY <1>5, <3>1 DEF TableRun
    <3> QED
      BY <2>3, <3>1, <3>2, <3>3
  <2>6. t[b + l] = Stored(table, header, r)
    <3>1. PICK e : e = b + l
      OBVIOUS
    <3>2. RowComes(t, table, header, r, b, e)
      BY <1>7, <2>2, <2>5, <3>1 DEF n, b, row, l, RowComes
    <3> QED
      BY <3>1, <3>2, RowStored
  <2> QED
    BY <2>1, <2>2, <2>4, <2>6
<1>8. Rows(n + 1)
  <2> HIDE DEF Rows
  <2>1. 0 \in T
    BY <1>1, <1>6
  <2>2. ASSUME NEW r \in 1 .. n, r - 1 \in T PROVE r \in T
    <3>1. r \in 0 .. n /\ (r - 1) + 1 = r
      BY <1>1
    <3>2. Rows(r)
      BY <2>2, <3>1
    <3> QED
      BY <1>7, <3>1, <3>2
  <2>3. n \in T
    <3>1. n \in Nat /\ n \in 0 .. n
      BY <1>1
    <3> HIDE DEF T
    <3> QED
      BY <2>1, <2>2, <3>1, Ascend
  <2> QED
    BY <2>3
<1>9. at[n + 1] = Len(calls) /\ (n + 1) - 1 = n
  BY <1>1, <1>2, <1>3 DEF Follow
<1>10. t[Len(calls)].records = RecordsOf(table, header, n)
  BY <1>8, <1>9 DEF Stored
<1> QED
  BY <1>5, <1>10 DEF n, k

\* All records of a table are those of its rows.
LEMMA AllRecords ==
    ASSUME NEW table, Rectangular(table), NEW header \in BOOLEAN,
           NEW rows, rows = IF header THEN Tail(table) ELSE table
    PROVE  RecordsOf(table, header, Len(table)) =
              [r \in DOMAIN rows |-> [c \in DOMAIN rows[r] |-> Converted(rows[r][c])]]
<1> DEFINE n == Len(table)
           h == Skipped(header)
<1>1. n \in Nat \ {0} /\ table \in Seq(Seq(Seq(Char))) /\ table # <<>> /\ DOMAIN table = 1 .. n
  BY EmptySeq, LenProperties DEF Rectangular
<1>2. DOMAIN rows = 1 .. (n - h) /\ \A r \in 1 .. (n - h) : rows[r] = table[r + h]
  <2>1. CASE header
    <3>1. /\ rows \in Seq(Seq(Seq(Char))) /\ Len(rows) = n - 1
          /\ \A r \in 1 .. Len(rows) : rows[r] = table[r + 1]
      BY <1>1, <2>1, HeadTailProperties
    <3>2. DOMAIN rows = 1 .. Len(rows)
      BY <3>1, LenProperties
    <3> QED
      BY <2>1, <3>1, <3>2 DEF Skipped
  <2>2. CASE ~header
    <3>1. n - 0 = n /\ \A r \in 1 .. n : r + 0 = r
      BY <1>1
    <3> QED
      BY <1>1, <2>2, <3>1 DEF Skipped
  <2> QED
    BY <2>1, <2>2
<1>3. (IF n <= h THEN 0 ELSE n - h) = n - h
  <2>1. h \in {0, 1}
    BY DEF Skipped
  <2> HIDE DEF n, h
  <2> QED
    BY <1>1, <2>1
<1>4. RecordsOf(table, header, n) = [r \in 1 .. (n - h) |-> RecordOf(table[r + h])]
  BY <1>3 DEF RecordsOf
<1> HIDE DEF n, h
<1>5. RecordsOf(table, header, n) = [r \in DOMAIN rows |-> RecordOf(rows[r])]
  BY <1>2, <1>4
<1> QED
  BY <1>5 DEF RecordOf, n

\* A table is read back once it has been written and read.
LEMMA InvReadsWritten == IInv => ReadsWhatWasWritten
<1> SUFFICES ASSUME IInv, written # None, ~(escape = "quote" /\ text # <<>> /\ Last(text) = "quote")
             PROVE  /\ parser.error = "Ok"
                    /\ parser.finished =>
                          /\ parser.fields = FlattenSeq([r \in DOMAIN written |->
                                                [c \in DOMAIN written[r] |-> <<c - 1, r - 1, written[r][c]>>]])
                          /\ \A header \in BOOLEAN :
                                LET rows == IF header THEN Tail(written) ELSE written
                                IN  Records(parser.fields, Len(written[1]), header) =
                                        [r \in DOMAIN rows |-> [c \in DOMAIN rows[r] |-> Converted(rows[r][c])]]
  BY DEF ReadsWhatWasWritten
<1>1. ~(escape = "quote" /\ text # <<>> /\ text[Len(text)] = "quote")
  BY DEF Last
<1>2. /\ parser.error = "Ok"
      /\ parser.finished => parser.fields = FlattenSeq(TableCalls(written))
  BY <1>1, InvReads
<1>3. Rectangular(written)
  BY ConstantsAssumption DEF IInv, WrittenText, Rectangular
<1>4. TableCalls(written) = [r \in DOMAIN written |-> [c \in DOMAIN written[r] |-> <<c - 1, r - 1, written[r][c]>>]]
  BY DEF TableCalls
<1>5. ASSUME parser.finished, NEW header \in BOOLEAN
      PROVE  LET rows == IF header THEN Tail(written) ELSE written
             IN  Records(parser.fields, Len(written[1]), header) =
                    [r \in DOMAIN rows |-> [c \in DOMAIN rows[r] |-> Converted(rows[r][c])]]
  <2>1. PICK calls : calls = parser.fields
    OBVIOUS
  <2>2. Records(calls, Len(written[1]), header) = RecordsOf(written, header, Len(written))
    BY <1>2, <1>3, <1>5, <2>1, TableStored
  <2>3. PICK rows : rows = IF header THEN Tail(written) ELSE written
    OBVIOUS
  <2>4. RecordsOf(written, header, Len(written)) =
           [r \in DOMAIN rows |-> [c \in DOMAIN rows[r] |-> Converted(rows[r][c])]]
    <3>1. Rectangular(written) /\ header \in BOOLEAN
      BY <1>3
    <3> QED
      BY ONLY <2>3, <3>1, AllRecords
  <2>5. Records(parser.fields, Len(written[1]), header) =
           [r \in DOMAIN rows |-> [c \in DOMAIN rows[r] |-> Converted(rows[r][c])]]
    BY <2>1, <2>2, <2>4
  <2> QED
    BY ONLY <2>3, <2>5
<1>6. parser.finished =>
         parser.fields = FlattenSeq([r \in DOMAIN written |->
                            [c \in DOMAIN written[r] |-> <<c - 1, r - 1, written[r][c]>>]])
  BY <1>2, <1>4
<1> QED
  BY <1>2, <1>5, <1>6

-----------------------------------------------------------------------------
\* Whatever the characters, the texts and where the buffers cut them: the parser is
\* as good as one that has read as much of the text in one go.
THEOREM Invariant == Spec => []IInv
<1>1. IInv /\ [Next]_vars => IInv'
  BY ExecuteInv, FinishInv, StutterInv DEF Next, Done
<1> QED
  BY InitInv, <1>1, PTL DEF Spec

\* Between two buffers at most one thing is pending, and a record that has ended
\* leaves nothing behind.
THEOREM TypeCorrect == Spec => []TypeOK
BY Invariant, InvTidy, PTL

\* The program loads the same tables and refuses the same files whatever the size of
\* the buffers fread fills.
THEOREM ChunksInvisible == Spec => []ChunkingInvisible
BY Invariant, InvChunks, PTL

\* A table that has been written is read back field by field, and its rows become the
\* records of the table, with or without a header, whatever the quotes, the line ends
\* and the buffers.
THEOREM TablesReadBack == Spec => []ReadsWhatWasWritten
BY Invariant, InvReadsWritten, PTL
=============================================================================
