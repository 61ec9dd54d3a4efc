------------------------- MODULE StringPagesProofs -------------------------
(***************************************************************************)
(* Pages of a VARCHAR column, for any page size, any strings and any       *)
(* number of rows: the page in progress never runs into its bitmap, no     *)
(* page with offsets has the row count of a long string's marker, and both *)
(* ways of reading the pages give the rows that were inserted.             *)
(*                                                                         *)
(* The invariant IInv says of the saved pages which row each begins with   *)
(* (Layout) and what copy_scan has read after each of them (Reads), and of *)
(* the page in progress that it holds the rows behind those (PageHolds).   *)
(* Layout is what the cursor needs: it numbers pages, and follows a long   *)
(* string from its first page.  Reads is what copy_scan needs: it reads    *)
(* page after page and continues the last row.                             *)
(***************************************************************************)
EXTENDS StringPages, CommonLemmas

\* Strings, and rows: a string or NULL.
Value == Seq(Char)
Row == Value \union {Null}

\* Where string number c of a page, counted from 0, begins, and the string.
Start(offs, c) == IF c = 0 THEN 0 ELSE offs[c]
StringAt(offs, chars, c) == SubSeq(chars, Start(offs, c) + 1, offs[c + 1])

\* The strings follow one another, up to the last character.
Ends(offs, chars) ==
    /\ \A k \in 1 .. Len(offs) : Start(offs, k - 1) <= offs[k] /\ offs[k] <= Len(chars)
    /\ Start(offs, Len(offs)) = Len(chars)

\* Row m of a page, counted from 0, reads as row.
HoldsRow(offs, chars, bits, m, row) ==
    IF m \in bits THEN row # Null /\ row = StringAt(offs, chars, Count(bits, m)) ELSE row = Null

\* A page of n rows, in progress or saved, reads as the rows after row number base.
PageHolds(n, offs, chars, bits, base, ins) ==
    /\ n \in Nat /\ offs \in Seq(Nat) /\ chars \in Value /\ bits \in SUBSET Nat
    /\ Len(offs) = Count(bits, n)
    /\ Ends(offs, chars)
    /\ \A m \in 0 .. (n - 1) : HoldsRow(offs, chars, bits, m, ins[base + m + 1])
    /\ 4 + 2 * Len(offs) + Len(chars) + BitmapSize(n) <= PageSize

-----------------------------------------------------------------------------
(* Sizes and sequences. *)

\* Every row has its bit in the bytes of n rows.
LEMMA BitmapBytes ==
    ASSUME NEW n \in Nat
    PROVE  /\ BitmapSize(n) \in Nat
           /\ n <= BitmapSize(n) * BitsPerByte
           /\ BitmapSize(n + 1) = n \div BitsPerByte + 1
           /\ n \div BitsPerByte \in Nat
           /\ BitmapSize(0) = 0 /\ BitmapSize(1) = 1 /\ 0 \div BitsPerByte = 0
<1>1. /\ BitmapSize(n) = Ceiling(n, BitsPerByte) /\ BitmapSize(n + 1) = Ceiling(n + 1, BitsPerByte)
      /\ BitsPerByte \in Nat \ {0}
  BY ConstantsAssumption DEF BitmapSize, Ceiling
<1>2. 0 \div BitsPerByte = 0
  BY <1>1, DivMod
<1>3. BitmapSize(0) = 0
  <2>1. BitmapSize(0) = Ceiling(0, BitsPerByte)
    BY DEF BitmapSize, Ceiling
  <2>2. Ceiling(0, BitsPerByte) \in Nat /\ ~ (0 < Ceiling(0, BitsPerByte))
    <3>1. /\ Ceiling(0, BitsPerByte) \in Nat
          /\ \A q \in Nat : q < Ceiling(0, BitsPerByte) => q * BitsPerByte < 0
      BY <1>1, CeilingIs
    <3>2. 0 * BitsPerByte = 0
      BY <1>1
    <3> QED
      BY <3>1, <3>2
  <2> QED
    BY <2>1, <2>2
<1>4. BitmapSize(1) = 1
  <2>1. BitmapSize(1) = Ceiling(0 + 1, BitsPerByte)
    BY DEF BitmapSize, Ceiling
  <2>2. Ceiling(0 + 1, BitsPerByte) = 0 \div BitsPerByte + 1
    BY <1>1, CeilingOfNext
  <2> QED
    BY <2>1, <2>2, <1>2
<1>5. /\ Ceiling(n, BitsPerByte) \in Nat /\ n <= Ceiling(n, BitsPerByte) * BitsPerByte
  BY <1>1, CeilingIs
<1>6. /\ n \div BitsPerByte \in Nat /\ Ceiling(n + 1, BitsPerByte) = n \div BitsPerByte + 1
  BY <1>1, CeilingOfNext
<1> QED
  BY <1>1, <1>2, <1>3, <1>4, <1>5, <1>6

\* A part of a sequence, element by element.
LEMMA PartIs ==
    ASSUME NEW S, NEW s \in Seq(S), NEW a \in Nat, NEW b \in Nat, a <= b, b <= Len(s)
    PROVE  /\ SubSeq(s, a + 1, b) \in Seq(S) /\ Len(SubSeq(s, a + 1, b)) = b - a
           /\ \A k \in 1 .. (b - a) : SubSeq(s, a + 1, b)[k] = s[a + k]
<1>1. \A k \in (a + 1) .. b : s[k] \in S
  OBVIOUS
<1>2. /\ SubSeq(s, a + 1, b) \in Seq(S)
      /\ Len(SubSeq(s, a + 1, b)) = IF a + 1 <= b THEN b - (a + 1) + 1 ELSE 0
      /\ \A k \in 1 .. b - (a + 1) + 1 : SubSeq(s, a + 1, b)[k] = s[a + 1 + k - 1]
  <2>1. a + 1 \in Int /\ b \in Int
    OBVIOUS
  <2> QED
    BY <1>1, <2>1, SubSeqProperties
<1>3. b - (a + 1) + 1 = b - a /\ (a + 1 <= b \/ b - a = 0)
  OBVIOUS
<1>4. \A k \in 1 .. (b - a) : a + 1 + k - 1 = a + k
  OBVIOUS
<1> QED
  BY <1>2, <1>3, <1>4

\* Sequences with the same elements are the same.
LEMMA SameElements ==
    ASSUME NEW S, NEW s \in Seq(S), NEW t \in Seq(S), Len(s) = Len(t),
           \A k \in 1 .. Len(s) : s[k] = t[k]
    PROVE  s = t
OBVIOUS

\* A sequence that is part of another, at its beginning or at its end.
LEMMA PartsOfConcat ==
    ASSUME NEW S, NEW s \in Seq(S), NEW t \in Seq(S)
    PROVE  /\ \A a, b \in Nat : a <= b /\ b <= Len(s) => SubSeq(s \o t, a + 1, b) = SubSeq(s, a + 1, b)
           /\ SubSeq(s \o t, Len(s) + 1, Len(s) + Len(t)) = t
<1>1. /\ s \o t \in Seq(S) /\ Len(s) \in Nat /\ Len(t) \in Nat /\ Len(s \o t) = Len(s) + Len(t)
      /\ \A k \in 1 .. Len(s) : (s \o t)[k] = s[k]
      /\ \A k \in 1 .. Len(t) : (s \o t)[Len(s) + k] = t[k]
  BY ConcatProperties
<1> DEFINE c == s \o t
           l == Len(s)
           m == Len(t)
<1> HIDE DEF c
<1>2. ASSUME NEW a \in Nat, NEW b \in Nat, a <= b, b <= l
      PROVE  SubSeq(c, a + 1, b) = SubSeq(s, a + 1, b)
  <2>1. b <= Len(c) /\ c \in Seq(S)
    BY <1>1, <1>2 DEF c
  <2>2. /\ SubSeq(c, a + 1, b) \in Seq(S) /\ Len(SubSeq(c, a + 1, b)) = b - a
        /\ \A k \in 1 .. (b - a) : SubSeq(c, a + 1, b)[k] = c[a + k]
    BY <1>2, <2>1, PartIs
  <2>3. /\ SubSeq(s, a + 1, b) \in Seq(S) /\ Len(SubSeq(s, a + 1, b)) = b - a
        /\ \A k \in 1 .. (b - a) : SubSeq(s, a + 1, b)[k] = s[a + k]
    BY <1>2, PartIs
  <2>4. \A k \in 1 .. (b - a) : a + k \in 1 .. l
    BY <1>1, <1>2
  <2>5. \A k \in 1 .. (b - a) : c[a + k] = s[a + k]
    BY <2>4, <1>1 DEF c
  <2> QED
    BY ONLY <2>2, <2>3, <2>5, SameElements
<1>3. SubSeq(c, l + 1, l + m) = t
  <2>1. c \in Seq(S) /\ l \in Nat /\ l + m \in Nat /\ l <= l + m /\ l + m <= Len(c) /\ l + m - l = m
    BY <1>1 DEF c
  <2>2. /\ SubSeq(c, l + 1, l + m) \in Seq(S) /\ Len(SubSeq(c, l + 1, l + m)) = l + m - l
        /\ \A k \in 1 .. (l + m - l) : SubSeq(c, l + 1, l + m)[k] = c[l + k]
    BY <2>1, PartIs
  <2>3. \A k \in 1 .. m : c[l + k] = t[k]
    BY <1>1 DEF c
  <2> QED
    BY ONLY <2>1, <2>2, <2>3, SameElements, t \in Seq(S), m = Len(t)
<1> QED
  BY <1>2, <1>3 DEF c

-----------------------------------------------------------------------------
(* The page in progress. *)

\* Bounds of the program are as large as the page format needs.
LEMMA Bounds ==
    /\ PageSize \in Nat /\ PageSize >= 12 /\ BitsPerByte \in Nat \ {0}
    /\ Null \notin Value /\ Null \notin StringIndex
    /\ writer \in Writers => writer \in {"inserter", "to_columnar"}
BY ConstantsAssumption DEF Value

\* A page without rows, whatever bits its bitmap has.
LEMMA EmptyPage ==
    ASSUME NEW bits \in SUBSET Nat, NEW base, NEW ins
    PROVE  PageHolds(0, <<>>, <<>>, bits, base, ins)
<1>1. Count(bits, 0) = 0 /\ BitmapSize(0) = 0
  BY CountRows, BitmapBytes
<1>2. <<>> \in Seq(Nat) /\ <<>> \in Value /\ Len(<<>>) = 0
  BY DEF Value
<1>3. Ends(<<>>, <<>>)
  BY DEF Ends, Start
<1> QED
  BY <1>1, <1>2, <1>3, Bounds DEF PageHolds

\* Rows that are added later do not change it.
LEMMA PageKept ==
    ASSUME NEW n, NEW offs, NEW chars, NEW bits, NEW base \in Nat, NEW ins \in Seq(Row), NEW x,
           PageHolds(n, offs, chars, bits, base, ins), base + n <= Len(ins)
    PROVE  PageHolds(n, offs, chars, bits, base, Append(ins, x))
<1>1. n \in Nat /\ \A m \in 0 .. (n - 1) : HoldsRow(offs, chars, bits, m, ins[base + m + 1])
  BY DEF PageHolds
<1>2. ASSUME NEW m \in 0 .. (n - 1) PROVE Append(ins, x)[base + m + 1] = ins[base + m + 1]
  <2>1. base + m + 1 \in 1 .. Len(ins)
    BY <1>1
  <2> QED
    BY <2>1
<1> QED
  BY <1>1, <1>2 DEF PageHolds

\* Nor do bits of rows it does not have.
LEMMA PageWithBits ==
    ASSUME NEW n, NEW offs, NEW chars, NEW bits, NEW base, NEW ins, NEW same \in SUBSET Nat,
           PageHolds(n, offs, chars, bits, base, ins), \A m \in 0 .. (n - 1) : m \in bits <=> m \in same
    PROVE  PageHolds(n, offs, chars, same, base, ins)
<1>1. n \in Nat /\ \A m \in 0 .. (n - 1) : HoldsRow(offs, chars, bits, m, ins[base + m + 1])
  BY DEF PageHolds
<1>2. \A m \in 0 .. n : Count(bits, m) = Count(same, m)
  BY <1>1, CountSame
<1>3. ASSUME NEW m \in 0 .. (n - 1) PROVE HoldsRow(offs, chars, same, m, ins[base + m + 1])
  <2>1. Count(bits, m) = Count(same, m) /\ (m \in bits <=> m \in same)
    BY <1>1, <1>2
  <2>2. HoldsRow(offs, chars, bits, m, ins[base + m + 1])
    BY <1>1
  <2> QED
    BY <2>1, <2>2 DEF HoldsRow
<1>4. Count(bits, n) = Count(same, n)
  BY <1>1, <1>2
<1> QED
  BY <1>3, <1>4 DEF PageHolds

\* A NULL takes a bit.
LEMMA AddNull ==
    ASSUME NEW n, NEW offs, NEW chars, NEW bits, NEW base \in Nat, NEW ins \in Seq(Row),
           PageHolds(n, offs, chars, bits, base, ins), base + n = Len(ins),
           4 + 2 * Len(offs) + Len(chars) + n \div BitsPerByte + 1 <= PageSize
    PROVE  PageHolds(n + 1, offs, chars, bits \ {n}, base, Append(ins, Null))
<1> DEFINE now == bits \ {n}
           new == Append(ins, Null)
<1>1. /\ n \in Nat /\ offs \in Seq(Nat) /\ chars \in Value /\ now \in SUBSET Nat
      /\ Len(offs) = Count(bits, n) /\ Ends(offs, chars)
  BY DEF PageHolds
<1>2. PageHolds(n, offs, chars, bits, base, new)
  BY <1>1, PageKept
<1>3. PageHolds(n, offs, chars, now, base, new)
  <2>1. \A m \in 0 .. (n - 1) : m \in bits <=> m \in now
    BY <1>1
  <2> HIDE DEF now, new
  <2> QED
    BY <1>1, <1>2, <2>1, PageWithBits
<1>4. Count(now, n + 1) = Count(now, n)
  <2>1. n \notin now
    OBVIOUS
  <2> HIDE DEF now
  <2> QED
    BY <2>1, <1>1, CountRows
<1>5. new[base + n + 1] = Null /\ n \notin now
  <2>1. base + n + 1 = Len(ins) + 1
    BY <1>1
  <2>2. Null \in Row
    BY DEF Row
  <2> HIDE DEF now
  <2>3. new[Len(ins) + 1] = Null
    BY <2>2
  <2> QED
    BY <2>1, <2>3 DEF now
<1>6. BitmapSize(n + 1) = n \div BitsPerByte + 1
  BY <1>1, BitmapBytes
<1> HIDE DEF now, new
<1>7. \A m \in 0 .. (n - 1) : HoldsRow(offs, chars, now, m, new[base + m + 1])
  BY <1>3 DEF PageHolds
<1>8. HoldsRow(offs, chars, now, n, new[base + n + 1])
  BY <1>5 DEF HoldsRow
<1>9. \A m \in 0 .. (n + 1 - 1) : HoldsRow(offs, chars, now, m, new[base + m + 1])
  <2> TAKE m \in 0 .. (n + 1 - 1)
  <2>1. m \in 0 .. (n - 1) \/ m = n
    BY <1>1
  <2> QED
    BY <2>1, <1>7, <1>8
<1>10. Len(offs) = Count(now, n + 1)
  BY <1>3, <1>4 DEF PageHolds
<1>11. 4 + 2 * Len(offs) + Len(chars) + BitmapSize(n + 1) <= PageSize
  <2>1. Len(offs) \in Nat /\ Len(chars) \in Nat /\ n \div BitsPerByte \in Nat
    BY <1>1, BitmapBytes, LenProperties DEF Value
  <2> QED
    BY <2>1, <1>6, Bounds
<1>12. n + 1 \in Nat
  BY <1>1
<1>13. PageHolds(n + 1, offs, chars, now, base, new)
  BY <1>1, <1>9, <1>10, <1>11, <1>12 DEF PageHolds
<1> QED
  BY <1>13 DEF now, new

\* A string takes its characters, an offset and a bit.
LEMMA AddString ==
    ASSUME NEW n, NEW offs, NEW chars, NEW bits, NEW base \in Nat, NEW ins \in Seq(Row),
           PageHolds(n, offs, chars, bits, base, ins), base + n = Len(ins), NEW value \in Value,
           4 + 2 * Len(offs) + 2 + Len(chars) + Len(value) + n \div BitsPerByte + 1 <= PageSize
    PROVE  PageHolds(n + 1, Append(offs, Len(chars) + Len(value)), chars \o value, bits \union {n}, base,
                     Append(ins, value))
<1> DEFINE now == bits \union {n}
           new == Append(ins, value)
           l == Len(chars)
           e == l + Len(value)
           k == Len(offs)
           ends == Append(offs, e)
           all == chars \o value
<1>1. /\ n \in Nat /\ offs \in Seq(Nat) /\ chars \in Value /\ now \in SUBSET Nat
      /\ k = Count(bits, n) /\ Ends(offs, chars)
      /\ k \in Nat /\ l \in Nat /\ Len(value) \in Nat /\ e \in Nat
  BY LenProperties DEF PageHolds, Value
<1>2. PageHolds(n, offs, chars, bits, base, new)
  BY <1>1, PageKept
<1>3. PageHolds(n, offs, chars, now, base, new)
  <2>1. \A m \in 0 .. (n - 1) : m \in bits <=> m \in now
    BY <1>1
  <2> HIDE DEF now, new
  <2> QED
    BY <1>1, <1>2, <2>1, PageWithBits
<1>4. /\ Count(now, n) = k /\ Count(now, n + 1) = k + 1
      /\ \A m \in 0 .. (n - 1) : m \in now => Count(now, m) < k
  <2>1. n \in now
    OBVIOUS
  <2> HIDE DEF now
  <2>2. Count(now, n) = k
    BY <1>3 DEF PageHolds
  <2> QED
    BY <2>1, <2>2, <1>1, CountRows
<1>5. new[base + n + 1] = value /\ n \in now
  <2>1. base + n + 1 = Len(ins) + 1
    BY <1>1
  <2>2. value \in Row
    BY DEF Row
  <2> HIDE DEF now
  <2>3. new[Len(ins) + 1] = value
    BY <2>2
  <2> QED
    BY <2>1, <2>3 DEF now
<1>6. BitmapSize(n + 1) = n \div BitsPerByte + 1 /\ n \div BitsPerByte \in Nat
  BY <1>1, BitmapBytes
<1>7. /\ ends \in Seq(Nat) /\ Len(ends) = k + 1 /\ ends[k + 1] = e
      /\ \A c \in 1 .. k : ends[c] = offs[c]
  <2>1. offs \in Seq(Nat) /\ e \in Nat
    BY <1>1
  <2> HIDE DEF e
  <2> QED
    BY ONLY <2>1
<1>8. /\ all \in Value /\ Len(all) = e
      /\ \A a, b \in Nat : a <= b /\ b <= l => SubSeq(all, a + 1, b) = SubSeq(chars, a + 1, b)
      /\ SubSeq(all, l + 1, e) = value
  <2>1. chars \in Seq(Char) /\ value \in Seq(Char)
    BY <1>1 DEF Value
  <2>2. all \in Seq(Char) /\ Len(all) = e
    BY ONLY <2>1, ConcatProperties
  <2>3. /\ \A a, b \in Nat : a <= b /\ b <= l => SubSeq(all, a + 1, b) = SubSeq(chars, a + 1, b)
        /\ SubSeq(all, l + 1, e) = value
    BY ONLY <2>1, PartsOfConcat, Zenon
  <2> QED
    BY <2>2, <2>3 DEF Value
<1> HIDE DEF now, new, ends, all, l, e, k
<1>17. k \in Nat /\ l \in Nat /\ e \in Nat
  BY <1>1
<1>9. /\ \A c \in 1 .. k : Start(offs, c - 1) <= offs[c] /\ offs[c] <= l /\ offs[c] \in Nat
      /\ Start(offs, k) = l
  <2>1. /\ \A c \in 1 .. k : Start(offs, c - 1) <= offs[c] /\ offs[c] <= l
        /\ Start(offs, k) = l
    BY <1>1 DEF Ends, l, k
  <2>2. \A c \in 1 .. k : offs[c] \in Nat
    BY <1>1, ElementOfSeq DEF k
  <2> QED
    BY <2>1, <2>2
<1>10. ASSUME NEW c \in 0 .. k PROVE Start(ends, c) = Start(offs, c) /\ Start(offs, c) \in Nat
  <2>1. CASE c = 0
    BY <2>1 DEF Start
  <2>2. CASE c # 0
    <3>1. c \in 1 .. k
      BY <2>2, <1>1
    <3>2. ends[c] = offs[c] /\ offs[c] \in Nat
      BY <3>1, <1>7, <1>9
    <3> QED
      BY <2>2, <3>2 DEF Start
  <2> QED
    BY <2>1, <2>2
<1>11. Ends(ends, all)
  <2>1. ASSUME NEW c \in 1 .. (k + 1) PROVE Start(ends, c - 1) <= ends[c] /\ ends[c] <= e
    <3>1. CASE c \in 1 .. k
      <4>1. c - 1 \in 0 .. k
        BY <3>1, <1>1
      <4>2. Start(ends, c - 1) = Start(offs, c - 1)
        BY <4>1, <1>10
      <4>3. l <= e /\ l \in Nat /\ e \in Nat
        BY <1>1 DEF e
      <4>4. Start(offs, c - 1) <= offs[c] /\ offs[c] <= l /\ offs[c] \in Nat /\ ends[c] = offs[c]
        BY <3>1, <1>7, <1>9
      <4> QED
        BY <4>2, <4>3, <4>4
    <3>2. CASE c = k + 1
      <4>1. c - 1 = k /\ k \in 0 .. k
        BY <3>2, <1>17
      <4>2. Start(ends, k) = l /\ l <= e /\ ends[c] = e
        <5>1. l <= e
          BY <1>1, <1>17 DEF e
        <5> QED
          BY <5>1, <4>1, <3>2, <1>7, <1>9, <1>10
      <4> QED
        BY <4>1, <4>2, <1>17
    <3> QED
      BY <3>1, <3>2, <1>1
  <2>2. Start(ends, k + 1) = e
    BY <1>1, <1>7 DEF Start
  <2> QED
    BY <2>1, <2>2, <1>7, <1>8 DEF Ends
<1>12. ASSUME NEW m \in 0 .. (n - 1) PROVE HoldsRow(ends, all, now, m, new[base + m + 1])
  <2>1. HoldsRow(offs, chars, now, m, new[base + m + 1])
    BY <1>3 DEF PageHolds
  <2>2. CASE m \in now
    <3> DEFINE c == Count(now, m)
    <3>1. c \in Nat /\ c < k
      <4>1. m \in Nat
        BY <1>1
      <4> QED
        BY <4>1, <2>2, <1>4, CountRows
    <3> HIDE DEF c
    <3>2. c \in 0 .. k /\ c + 1 \in 1 .. k /\ c + 1 - 1 = c
      BY <3>1, <1>17
    <3>3. /\ Start(ends, c) = Start(offs, c) /\ Start(offs, c) \in Nat /\ ends[c + 1] = offs[c + 1]
          /\ Start(offs, c) <= offs[c + 1] /\ offs[c + 1] <= l /\ offs[c + 1] \in Nat
      <4> DEFINE d == c + 1
      <4>1. d \in 1 .. k /\ d - 1 = c
        BY <3>2
      <4> HIDE DEF d
      <4>2. Start(offs, d - 1) <= offs[d] /\ offs[d] <= l /\ offs[d] \in Nat /\ ends[d] = offs[d]
        BY <4>1, <1>7, <1>9
      <4>3. Start(ends, c) = Start(offs, c) /\ Start(offs, c) \in Nat
        BY <3>2, <1>10
      <4> QED
        BY <4>1, <4>2, <4>3 DEF d
    <3>4. StringAt(ends, all, c) = StringAt(offs, chars, c)
      BY <3>3, <1>8 DEF StringAt
    <3> QED
      BY <2>1, <2>2, <3>4 DEF HoldsRow, c
  <2>3. CASE m \notin now
    BY <2>1, <2>3 DEF HoldsRow
  <2> QED
    BY <2>2, <2>3
<1>13. HoldsRow(ends, all, now, n, new[base + n + 1])
  <2>1. Start(ends, k) = l
    BY <1>1, <1>9, <1>10
  <2>2. StringAt(ends, all, k) = value
    BY <2>1, <1>7, <1>8 DEF StringAt
  <2>3. value # Null
    BY Bounds
  <2> QED
    BY <2>2, <2>3, <1>4, <1>5 DEF HoldsRow
<1>14. \A m \in 0 .. (n + 1 - 1) : HoldsRow(ends, all, now, m, new[base + m + 1])
  <2> TAKE m \in 0 .. (n + 1 - 1)
  <2>1. m \in 0 .. (n - 1) \/ m = n
    BY <1>1
  <2> QED
    BY <2>1, <1>12, <1>13
<1>15. 4 + 2 * Len(ends) + Len(all) + BitmapSize(n + 1) <= PageSize
  <2> DEFINE q == n \div BitsPerByte
             v == Len(value)
  <2>1. 4 + 2 * k + 2 + l + v + q + 1 <= PageSize
    BY DEF k, l
  <2>2. /\ e = l + v /\ BitmapSize(n + 1) = q + 1
        /\ q \in Nat /\ v \in Nat /\ k \in Nat /\ l \in Nat /\ PageSize \in Nat
    BY <1>1, <1>6, Bounds DEF e
  <2> HIDE DEF q, v
  <2>3. 4 + 2 * (k + 1) + e + (q + 1) <= PageSize
    BY <2>1, <2>2
  <2> QED
    BY <2>2, <2>3, <1>7, <1>8
<1>16. PageHolds(n + 1, ends, all, now, base, new)
  BY <1>1, <1>4, <1>7, <1>8, <1>11, <1>14, <1>15 DEF PageHolds
<1> QED
  BY <1>16 DEF ends, all, now, new, e, l

\* A page never has as many rows as a marker of a long string.
LEMMA RowsBelowMarkers ==
    ASSUME NEW n, NEW offs, NEW chars, NEW bits, NEW base, NEW ins, PageHolds(n, offs, chars, bits, base, ins)
    PROVE  n < Following /\ Following < First /\ Following \in Nat /\ First \in Nat /\ n <= First
<1>1. n \in Nat /\ Len(offs) \in Nat /\ Len(chars) \in Nat
      /\ 4 + 2 * Len(offs) + Len(chars) + BitmapSize(n) <= PageSize
  BY LenProperties DEF PageHolds, Value
<1>2. BitmapSize(n) \in Nat /\ n <= BitmapSize(n) * BitsPerByte
  BY <1>1, BitmapBytes
<1> DEFINE d == BitsPerByte
           b == BitmapSize(n)
           s == PageSize - 4
<1>3. d \in Nat /\ d >= 1 /\ b \in Nat /\ s \in Nat /\ b <= s /\ PageSize = s + 4
  BY <1>1, <1>2, Bounds
<1>4. First = d * PageSize - 1 /\ Following = d * PageSize - 1 - 1
  BY DEF First, Following
<1> HIDE DEF d, b, s
<1>5. b * d <= s * d
  BY <1>3, ProductsAscend
<1>6. d * PageSize = s * d + 4 * d /\ s * d \in Nat /\ b * d \in Nat
  BY <1>3
<1>7. n <= b * d
  BY <1>2 DEF b, d
<1> QED
  BY <1>1, <1>3, <1>4, <1>5, <1>6, <1>7

-----------------------------------------------------------------------------
(* Saved pages. *)

OrdinaryPage == [num_rows : Nat, offsets : Seq(Nat), chars : Value, bits : SUBSET Nat]
LongPage == [num_rows : {First, Following}, chars : Value]

\* An ordinary page reads as the rows after row number base.
Ordinary(page, base, ins) ==
    /\ page \in OrdinaryPage /\ page.num_rows # 0
    /\ PageHolds(page.num_rows, page.offsets, page.chars, page.bits, base, ins)

\* Saving the page in progress gives one that reads as the same rows.
LEMMA SavedHolds ==
    ASSUME NEW base, NEW ins, PageHolds(num_rows, offsets, data, bitmap, base, ins), num_rows # 0
    PROVE  Ordinary(SavedPage, base, ins) /\ SavedPage.num_rows = num_rows
<1> DEFINE bits == {n \in bitmap : n < BitsPerByte * BitmapSize(num_rows)}
<1>1. /\ num_rows \in Nat /\ offsets \in Seq(Nat) /\ data \in Value /\ bitmap \in SUBSET Nat
  BY DEF PageHolds
<1>2. BitmapSize(num_rows) \in Nat /\ num_rows <= BitsPerByte * BitmapSize(num_rows) /\ BitsPerByte \in Nat
  <2>1. BitmapSize(num_rows) \in Nat /\ num_rows <= BitmapSize(num_rows) * BitsPerByte /\ BitsPerByte \in Nat
    BY <1>1, BitmapBytes, Bounds
  <2>2. BitmapSize(num_rows) * BitsPerByte = BitsPerByte * BitmapSize(num_rows)
    BY <2>1
  <2> QED
    BY <2>1, <2>2
<1>3. \A m \in 0 .. (num_rows - 1) : m \in bitmap <=> m \in bits
  <2> DEFINE top == BitsPerByte * BitmapSize(num_rows)
  <2>1. top \in Nat /\ num_rows <= top
    BY <1>2
  <2> HIDE DEF top
  <2>2. bits = {n \in bitmap : n < top}
    BY DEF top
  <2> HIDE DEF bits
  <2> QED
    BY <1>1, <2>1, <2>2
<1>4. bits \in SUBSET Nat
  BY <1>1
<1>5. SavedPage = [num_rows |-> num_rows, offsets |-> offsets, chars |-> data, bits |-> bits]
  BY DEF SavedPage
<1> HIDE DEF bits
<1>6. PageHolds(num_rows, offsets, data, bits, base, ins)
  BY <1>3, <1>4, PageWithBits
<1>7. SavedPage \in OrdinaryPage
  BY <1>1, <1>4, <1>5 DEF OrdinaryPage
<1> QED
  BY <1>5, <1>6, <1>7 DEF Ordinary

\* copy_scan and from_columnar read the rows of an ordinary page.
LEMMA OrdinaryReads ==
    ASSUME NEW page, NEW base \in Nat, NEW ins \in Seq(Row), Ordinary(page, base, ins),
           base + page.num_rows <= Len(ins)
    PROVE  /\ OrdinaryRows(page) \in Seq(Row) /\ Len(OrdinaryRows(page)) = page.num_rows
           /\ \A k \in 1 .. page.num_rows : OrdinaryRows(page)[k] = ins[base + k]
<1> DEFINE n == page.num_rows
           bits == page.bits
           rows == OrdinaryRows(page)
           before(m) == Cardinality({b \in page.bits : b < m})
<1>1. /\ n \in Nat /\ bits \in SUBSET Nat
      /\ \A m \in 0 .. (n - 1) : HoldsRow(page.offsets, page.chars, bits, m, ins[base + m + 1])
  BY DEF Ordinary, PageHolds
<1>2. \A m \in Nat : before(m) = Count(bits, m)
  <2> TAKE m \in Nat
  <2>1. {b \in page.bits : b < m} = Valid(bits, m)
    BY <1>1 DEF Valid
  <2> QED
    BY <2>1 DEF Count
<1>3. rows = [k \in 1 .. n |-> IF k - 1 \in bits THEN StringAt(page.offsets, page.chars, before(k - 1)) ELSE Null]
  BY DEF OrdinaryRows, StringAt, Start
<1> HIDE DEF before, rows, bits, n
<1>4. ASSUME NEW k \in 1 .. n PROVE rows[k] = ins[base + k] /\ ins[base + k] \in Row
  <2> DEFINE m == k - 1
  <2>1. m \in 0 .. (n - 1) /\ m \in Nat /\ base + m + 1 = base + k /\ base + k \in 1 .. Len(ins)
    BY <1>1 DEF n
  <2>2. rows[k] = IF m \in bits THEN StringAt(page.offsets, page.chars, before(m)) ELSE Null
    BY <1>3
  <2> HIDE DEF m
  <2>3. HoldsRow(page.offsets, page.chars, bits, m, ins[base + k])
    BY <2>1, <1>1
  <2>4. before(m) = Count(bits, m)
    BY <2>1, <1>2
  <2>5. rows[k] = ins[base + k]
    BY <2>2, <2>3, <2>4 DEF HoldsRow
  <2>6. ins[base + k] \in Row
    BY <2>1, ElementOfSeq
  <2> QED
    BY <2>5, <2>6
<1>5. rows \in [1 .. n -> Row]
  BY <1>3, <1>4
<1>6. rows \in Seq(Row) /\ Len(rows) = n
  BY <1>1, <1>5, SeqDef
<1> QED
  BY <1>4, <1>6 DEF rows, n

-----------------------------------------------------------------------------
(* The pages of a column. *)

Chunks(value) == Len(LongPages(value))

\* The string value is on page p and the pages behind it, and ends with the last.
HoldsLong(pgs, p, value) ==
    /\ value \in Value /\ IsLong(value)
    /\ p + Chunks(value) - 1 <= Len(pgs)
    /\ \A c \in 1 .. Chunks(value) : pgs[p + c - 1] = LongPages(value)[c]
    /\ p + Chunks(value) <= Len(pgs) => pgs[p + Chunks(value)].num_rows # Following

\* Page p holds the rows after row number first[p], the page behind it those after
\* first[p + 1].
HoldsPage(first, pgs, p, ins) ==
    \/ /\ Ordinary(pgs[p], first[p], ins)
       /\ first[p + 1] = first[p] + pgs[p].num_rows
    \/ /\ pgs[p] \in LongPage /\ pgs[p].num_rows = First
       /\ first[p + 1] = first[p] + 1
       /\ HoldsLong(pgs, p, ins[first[p] + 1])
    \/ /\ pgs[p] \in LongPage /\ pgs[p].num_rows = Following
       /\ first[p + 1] = first[p]

Layout(first, pgs, base, ins) ==
    /\ first \in [1 .. Len(pgs) + 1 -> Nat]
    /\ first[1] = 0 /\ first[Len(pgs) + 1] = base
    /\ \A p \in 1 .. Len(pgs) : first[p + 1] <= base /\ HoldsPage(first, pgs, p, ins)

\* copy_scan has read read[p] of the first p pages, and of all the first rows.
Reads(read, pgs, base, ins) ==
    /\ read \in [0 .. Len(pgs) -> Seq(Row)]
    /\ read[0] = <<>> /\ read[Len(pgs)] = SubSeq(ins, 1, base)
    /\ \A p \in 1 .. Len(pgs) : read[p] = WithPageRows(read[p - 1], pgs[p])

\* The saved pages hold the first rows.
SavedInv(pgs, base, ins) ==
    /\ pgs \in Seq(OrdinaryPage \union LongPage)
    /\ \E first : Layout(first, pgs, base, ins)
    /\ \E read : Reads(read, pgs, base, ins)

\* Rows that are added later do not change what the pages hold.
LEMMA SavedKept ==
    ASSUME NEW pgs, NEW base \in Nat, NEW ins \in Seq(Row), NEW x \in Row, base <= Len(ins),
           SavedInv(pgs, base, ins)
    PROVE  SavedInv(pgs, base, Append(ins, x))
<1> DEFINE new == Append(ins, x)
<1>0. new \in Seq(Row) /\ Len(new) = Len(ins) + 1 /\ \A r \in 1 .. Len(ins) : new[r] = ins[r]
  OBVIOUS
<1>1. PICK first : Layout(first, pgs, base, ins)
  BY DEF SavedInv
<1>2. PICK read : Reads(read, pgs, base, ins)
  BY DEF SavedInv
<1>3. Len(pgs) \in Nat
  BY LenProperties DEF SavedInv
<1> HIDE DEF new
<1>4. ASSUME NEW p \in 1 .. Len(pgs) PROVE HoldsPage(first, pgs, p, new)
  <2>1. /\ HoldsPage(first, pgs, p, ins)
        /\ first[p] \in Nat /\ first[p + 1] \in Nat /\ first[p + 1] <= Len(ins)
    BY <1>1, <1>3 DEF Layout
  <2>2. CASE Ordinary(pgs[p], first[p], ins) /\ first[p + 1] = first[p] + pgs[p].num_rows
    <3>1. /\ pgs[p] \in OrdinaryPage /\ pgs[p].num_rows # 0
          /\ PageHolds(pgs[p].num_rows, pgs[p].offsets, pgs[p].chars, pgs[p].bits, first[p], ins)
      BY <2>2 DEF Ordinary
    <3>2. PageHolds(pgs[p].num_rows, pgs[p].offsets, pgs[p].chars, pgs[p].bits, first[p], Append(ins, x))
      BY <2>1, <2>2, <3>1, PageKept
    <3> QED
      BY <2>2, <3>1, <3>2 DEF HoldsPage, Ordinary, new
  <2>3. CASE pgs[p] \in LongPage /\ pgs[p].num_rows = First /\ first[p + 1] = first[p] + 1
             /\ HoldsLong(pgs, p, ins[first[p] + 1])
    <3>1. first[p] + 1 \in 1 .. Len(ins)
      BY <2>1, <2>3
    <3>2. new[first[p] + 1] = ins[first[p] + 1]
      BY <3>1, <1>0
    <3> QED
      BY <2>3, <3>2 DEF HoldsPage
  <2>4. CASE pgs[p] \in LongPage /\ pgs[p].num_rows = Following /\ first[p + 1] = first[p]
    BY <2>4 DEF HoldsPage
  <2> QED
    BY <2>1, <2>2, <2>3, <2>4 DEF HoldsPage
<1>5. Layout(first, pgs, base, new)
  BY <1>1, <1>4 DEF Layout
<1>6. SubSeq(new, 1, base) = SubSeq(ins, 1, base)
  <2>1. /\ SubSeq(new, 0 + 1, base) \in Seq(Row) /\ Len(SubSeq(new, 0 + 1, base)) = base - 0
        /\ \A k \in 1 .. (base - 0) : SubSeq(new, 0 + 1, base)[k] = new[0 + k]
    BY <1>0, PartIs
  <2>2. /\ SubSeq(ins, 0 + 1, base) \in Seq(Row) /\ Len(SubSeq(ins, 0 + 1, base)) = base - 0
        /\ \A k \in 1 .. (base - 0) : SubSeq(ins, 0 + 1, base)[k] = ins[0 + k]
    BY PartIs
  <2>3. \A k \in 1 .. (base - 0) : new[0 + k] = ins[0 + k]
    BY <1>0
  <2>4. SubSeq(new, 0 + 1, base) = SubSeq(ins, 0 + 1, base)
    BY ONLY <2>1, <2>2, <2>3, SameElements
  <2> QED
    BY <2>4
<1>7. Reads(read, pgs, base, new)
  BY <1>2, <1>6 DEF Reads
<1> QED
  BY <1>5, <1>7 DEF SavedInv, new

-----------------------------------------------------------------------------
(* Saving pages. *)

\* The characters of a long string before its chunk number c + 1.
End(value, c) == IF c = 0 THEN 0 ELSE ChunkEnds(Len(value))[c]

\* The chunks of a long string follow one another, up to its last character.
LEMMA ChunksAre ==
    ASSUME NEW value \in Value, IsLong(value)
    PROVE  /\ Chunks(value) \in Nat \ {0}
           /\ End(value, 0) = 0 /\ End(value, Chunks(value)) = Len(value)
           /\ \A c \in 0 .. Chunks(value) : End(value, c) \in Nat /\ End(value, c) <= Len(value)
           /\ \A c \in 1 .. Chunks(value) : End(value, c - 1) <= End(value, c)
           /\ LongPages(value) \in Seq(LongPage)
           /\ \A c \in 1 .. Chunks(value) :
                  LongPages(value)[c] = [num_rows |-> IF c = 1 THEN First ELSE Following,
                                         chars |-> SubSeq(value, End(value, c - 1) + 1, End(value, c))]
<1> DEFINE n == Len(value)
           d == PageSize - 4
           k == (n + PageSize - 5) \div (PageSize - 4)
           ends == ChunkEnds(n)
<1>1. n \in Nat /\ n >= 1 /\ d \in Nat \ {0} /\ value \in Seq(Char)
  BY Bounds, LenProperties DEF IsLong, Value
<1>2. k = Ceiling(n, d)
  <2>1. n + PageSize - 5 = n + d - 1
    BY <1>1, Bounds
  <2> QED
    BY <2>1 DEF Ceiling
<1>3. k \in Nat /\ n <= k * d /\ \A q \in Nat : q < k => q * d < n
  BY <1>1, <1>2, CeilingIs
<1>4. ends = [c \in 1 .. k |-> IF c * d < n THEN c * d ELSE n]
  BY DEF ChunkEnds
<1>5. DOMAIN LongPages(value) = 1 .. k
  BY <1>4 DEF LongPages
<1>6. Chunks(value) = k
  <2>1. LongPages(value) = [c \in 1 .. k |-> LongPages(value)[c]]
    BY <1>5 DEF LongPages
  <2> HIDE DEF k
  <2>2. LongPages(value) \in [1 .. k -> {LongPages(value)[c] : c \in 1 .. k}]
    BY <2>1
  <2>3. Len(LongPages(value)) = k
    BY <2>2, <1>3, SeqDef
  <2> QED
    BY <2>3 DEF Chunks
<1>7. k # 0
  <2> HIDE DEF k, n, d
  <2>1. k = 0 => k * d = 0
    BY <1>1
  <2> QED
    BY <2>1, <1>1, <1>3
<1>8. \A c \in 1 .. k : End(value, c) = IF c * d < n THEN c * d ELSE n
  <2> HIDE DEF k, d
  <2>1. \A c \in 1 .. k : c # 0 /\ End(value, c) = ends[c]
    BY <1>3 DEF End
  <2> HIDE DEF ends
  <2> QED
    BY <2>1, <1>4
<1>9. End(value, 0) = 0
  BY DEF End
<1>10. \A c \in 1 .. k : LongPages(value)[c] =
          [num_rows |-> IF c = 1 THEN First ELSE Following,
           chars |-> SubSeq(value, IF c = 1 THEN 1 ELSE ends[c - 1] + 1, ends[c])]
  BY <1>5 DEF LongPages
<1> HIDE DEF k, d, n, ends
<1>11. \A c \in Nat : c * d \in Nat /\ (c + 1) * d = c * d + d
  BY <1>1
<1>12. End(value, k) = n
  <2>1. ~ (k * d < n) /\ k \in 1 .. k
    BY <1>1, <1>3, <1>7, <1>11
  <2> QED
    BY <2>1, <1>8
<1>13. ASSUME NEW c \in 0 .. k PROVE End(value, c) \in Nat /\ End(value, c) <= n
  <2>1. c \in Nat /\ c * d \in Nat
    BY <1>3, <1>11
  <2>2. CASE c = 0
    BY <2>2, <1>1, <1>9
  <2>3. CASE c # 0
    BY <2>1, <2>3, <1>1, <1>3, <1>8
  <2> QED
    BY <2>2, <2>3
<1>14. ASSUME NEW c \in 1 .. k PROVE End(value, c - 1) <= End(value, c)
  <2> DEFINE b == c - 1
  <2>1. b \in Nat /\ c = b + 1 /\ b \in 0 .. k
    BY <1>3
  <2> HIDE DEF b
  <2>2. b * d \in Nat /\ c * d = b * d + d
    BY <2>1, <1>11
  <2>3. CASE b = 0
    <3>1. End(value, c) \in Nat
      BY <1>13, <1>3
    <3> QED
      BY <2>3, <3>1, <1>9 DEF b
  <2>4. CASE b # 0
    <3>1. b \in 1 .. k
      BY <2>1, <2>4
    <3>2. /\ End(value, b) = IF b * d < n THEN b * d ELSE n
          /\ End(value, c) = IF c * d < n THEN c * d ELSE n
      BY <3>1, <1>8
    <3>3. End(value, b) <= End(value, c)
      BY <3>2, <2>2, <1>1
    <3> QED
      BY <3>3 DEF b
  <2> QED
    BY <2>3, <2>4
<1>15. ASSUME NEW c \in 1 .. k
       PROVE  LongPages(value)[c] = [num_rows |-> IF c = 1 THEN First ELSE Following,
                                     chars |-> SubSeq(value, End(value, c - 1) + 1, End(value, c))]
  <2>1. End(value, c) = ends[c] /\ (c # 1 => End(value, c - 1) = ends[c - 1])
    BY <1>3 DEF End, ends, n
  <2>2. c = 1 => End(value, c - 1) + 1 = 1
    BY <1>9
  <2>3. (IF c = 1 THEN 1 ELSE ends[c - 1] + 1) = End(value, c - 1) + 1
    BY <2>1, <2>2
  <2> QED
    BY <2>1, <2>3, <1>10
<1>16. \A c \in 1 .. k : LongPages(value)[c] \in LongPage
  <2> TAKE c \in 1 .. k
  <2>1. c - 1 \in 0 .. k /\ c \in 0 .. k
    BY <1>3
  <2>2. SubSeq(value, End(value, c - 1) + 1, End(value, c)) \in Value
    <3> DEFINE a == End(value, c - 1)
               b == End(value, c)
    <3>1. a \in Nat /\ b \in Nat /\ a <= b /\ b <= Len(value)
      BY <2>1, <1>13, <1>14 DEF n
    <3> HIDE DEF a, b
    <3>2. SubSeq(value, a + 1, b) \in Seq(Char)
      BY <3>1, <1>1, PartIs
    <3> QED
      BY <3>2 DEF a, b, Value
  <2>3. (IF c = 1 THEN First ELSE Following) \in {First, Following}
    OBVIOUS
  <2> DEFINE m == IF c = 1 THEN First ELSE Following
             s == SubSeq(value, End(value, c - 1) + 1, End(value, c))
  <2>4. LongPages(value)[c] = [num_rows |-> m, chars |-> s]
    BY <1>15
  <2>5. m \in {First, Following} /\ s \in Value
    BY <2>2
  <2> HIDE DEF m, s
  <2> QED
    BY <2>4, <2>5 DEF LongPage
<1>17. LongPages(value) \in Seq(LongPage)
  <2>1. LongPages(value) = [c \in 1 .. k |-> LongPages(value)[c]]
    BY <1>5 DEF LongPages
  <2>2. LongPages(value) \in [1 .. k -> LongPage]
    BY <2>1, <1>16
  <2> QED
    BY <2>2, <1>3, SeqDef
<1> QED
  BY <1>3, <1>6, <1>7, <1>9, <1>12, <1>13, <1>14, <1>15, <1>17 DEF n

\* What a page holds does not change when pages are added that begin with new rows.
LEMMA PageHoldsOn ==
    ASSUME NEW pgs, NEW now, NEW first, NEW begin, NEW ins,
           Len(pgs) \in Nat, Len(now) \in Nat, Len(pgs) < Len(now),
           \A q \in 1 .. Len(pgs) : now[q] = pgs[q],
           now[Len(pgs) + 1].num_rows # Following,
           \A q \in 1 .. (Len(pgs) + 1) : begin[q] = first[q],
           NEW p \in 1 .. Len(pgs), HoldsPage(first, pgs, p, ins)
    PROVE  HoldsPage(begin, now, p, ins)
<1> DEFINE n == Len(pgs)
           value == ins[first[p] + 1]
           k == Chunks(value)
<1>1. begin[p] = first[p] /\ begin[p + 1] = first[p + 1] /\ now[p] = pgs[p]
  <2>1. p \in 1 .. (n + 1) /\ p + 1 \in 1 .. (n + 1)
    OBVIOUS
  <2> QED
    BY <2>1
<1>2. ASSUME HoldsLong(pgs, p, value) PROVE HoldsLong(now, p, value)
  <2>1. /\ value \in Value /\ IsLong(value) /\ p + k - 1 <= n
        /\ \A c \in 1 .. k : pgs[p + c - 1] = LongPages(value)[c]
        /\ p + k <= n => pgs[p + k].num_rows # Following
    BY <1>2 DEF HoldsLong
  <2>2. k \in Nat \ {0}
    BY <2>1, ChunksAre
  <2> HIDE DEF k, value
  <2>3. ASSUME NEW c \in 1 .. k PROVE now[p + c - 1] = LongPages(value)[c]
    <3>1. p + c - 1 \in 1 .. n
      BY <2>1, <2>2
    <3> QED
      BY <2>1, <3>1
  <2>4. ASSUME p + k <= Len(now) PROVE now[p + k].num_rows # Following
    <3>1. CASE p + k <= n
      <4>1. p + k \in 1 .. n
        BY <3>1, <2>2
      <4> QED
        BY <4>1, <3>1, <2>1
    <3>2. CASE ~(p + k <= n)
      <4>1. p + k = n + 1
        <5>1. n \in Nat /\ p \in Nat /\ k \in Nat /\ p + k - 1 <= n
          BY <2>1, <2>2
        <5> HIDE DEF n
        <5> QED
          BY <5>1, <3>2
      <4> QED
        BY <4>1
    <3> QED
      BY <3>1, <3>2
  <2>5. p + k - 1 <= Len(now)
    BY <2>1, <2>2
  <2> QED
    BY <2>1, <2>3, <2>4, <2>5 DEF HoldsLong, k
<1> HIDE DEF value
<1> QED
  BY <1>1, <1>2 DEF HoldsPage, value

\* Saving a page adds its rows.
LEMMA AppendPage ==
    ASSUME NEW pgs, NEW base \in Nat, NEW ins \in Seq(Row), SavedInv(pgs, base, ins),
           NEW page, Ordinary(page, base, ins), base + page.num_rows <= Len(ins)
    PROVE  SavedInv(Append(pgs, page), base + page.num_rows, ins)
<1> DEFINE now == Append(pgs, page)
           n == Len(pgs)
           m == page.num_rows
           P == OrdinaryPage \union LongPage
           to == base + m
<1>1. PICK first : Layout(first, pgs, base, ins)
  BY DEF SavedInv
<1>2. PICK read : Reads(read, pgs, base, ins)
  BY DEF SavedInv
<1>3. /\ now \in Seq(P) /\ n \in Nat /\ Len(now) = n + 1 /\ now[n + 1] = page
      /\ \A p \in 1 .. n : now[p] = pgs[p]
  <2>1. pgs \in Seq(P) /\ page \in P
    BY DEF SavedInv, Ordinary
  <2> HIDE DEF P
  <2> QED
    BY <2>1
<1>4. m \in Nat /\ m # First /\ m # Following /\ to \in Nat /\ base <= to /\ to <= Len(ins)
  <2>1. PageHolds(m, page.offsets, page.chars, page.bits, base, ins)
    BY DEF Ordinary
  <2>2. m < Following /\ Following < First /\ Following \in Nat /\ First \in Nat
    BY <2>1, RowsBelowMarkers
  <2>3. m \in Nat
    BY <2>1 DEF PageHolds
  <2> QED
    BY <2>2, <2>3
<1> HIDE DEF now, P
<1> DEFINE f == [p \in 1 .. (n + 1) + 1 |-> IF p = n + 2 THEN to ELSE first[p]]
           r == [p \in 0 .. (n + 1) |-> IF p = n + 1 THEN SubSeq(ins, 1, to) ELSE read[p]]
<1>5. /\ first \in [1 .. n + 1 -> Nat] /\ first[1] = 0 /\ first[n + 1] = base
      /\ \A p \in 1 .. n : first[p + 1] <= base /\ HoldsPage(first, pgs, p, ins)
  BY <1>1 DEF Layout
<1>6. /\ f \in [1 .. (n + 1) + 1 -> Nat] /\ f[n + 2] = to
      /\ \A p \in 1 .. (n + 1) : f[p] = first[p]
  <2> HIDE DEF to
  <2> QED
    BY <1>3, <1>4, <1>5
<1> HIDE DEF f
<1>7. Layout(f, now, to, ins)
  <2>1. ASSUME NEW p \in 1 .. (n + 1) PROVE f[p + 1] <= to /\ HoldsPage(f, now, p, ins)
    <3>1. CASE p \in 1 .. n
      <4>1. HoldsPage(f, now, p, ins)
        <5>1. HoldsPage(first, pgs, p, ins) /\ Len(now) \in Nat /\ n < Len(now)
              /\ now[n + 1].num_rows # Following
          BY <3>1, <1>3, <1>4, <1>5
        <5> QED
          BY <3>1, <5>1, <1>3, <1>6, PageHoldsOn
      <4>2. p + 1 \in 1 .. (n + 1)
        BY <3>1, <1>3
      <4>3. f[p + 1] = first[p + 1] /\ first[p + 1] <= base /\ first[p + 1] \in Nat
        BY <3>1, <4>2, <1>5, <1>6
      <4> QED
        BY <4>1, <4>3, <1>4
    <3>2. CASE p = n + 1
      <4>1. f[p] = base /\ f[p + 1] = to /\ now[p] = page
        <5>1. p + 1 = n + 2 /\ p \in 1 .. (n + 1)
          BY <3>2, <1>3
        <5> QED
          BY <3>2, <5>1, <1>3, <1>5, <1>6
      <4>2. HoldsPage(f, now, p, ins)
        BY <4>1 DEF HoldsPage
      <4> QED
        BY <4>1, <4>2, <1>4
    <3> QED
      BY <3>1, <3>2, <1>3
  <2>2. f[1] = 0 /\ f[Len(now) + 1] = to
    <3>1. 1 \in 1 .. (n + 1) /\ n + 1 + 1 = n + 2
      BY <1>3
    <3> QED
      BY <3>1, <1>3, <1>5, <1>6
  <2> QED
    BY <2>1, <2>2, <1>3, <1>6 DEF Layout
<1>8. /\ read \in [0 .. n -> Seq(Row)] /\ read[0] = <<>> /\ read[n] = SubSeq(ins, 1, base)
      /\ \A p \in 1 .. n : read[p] = WithPageRows(read[p - 1], pgs[p])
  BY <1>2 DEF Reads
<1>9. SubSeq(ins, 1, to) \in Seq(Row) /\ SubSeq(ins, 1, base) \o OrdinaryRows(page) = SubSeq(ins, 1, to)
  <2> DEFINE a == SubSeq(ins, 0 + 1, base)
             b == OrdinaryRows(page)
             c == SubSeq(ins, 0 + 1, to)
  <2>1. a \in Seq(Row) /\ Len(a) = base - 0 /\ \A j \in 1 .. (base - 0) : a[j] = ins[0 + j]
    <3>1. base <= Len(ins)
      BY <1>4
    <3> QED
      BY <3>1, PartIs
  <2>2. c \in Seq(Row) /\ Len(c) = to - 0 /\ \A j \in 1 .. (to - 0) : c[j] = ins[0 + j]
    BY <1>4, PartIs
  <2>3. b \in Seq(Row) /\ Len(b) = m /\ \A j \in 1 .. m : b[j] = ins[base + j]
    BY OrdinaryReads
  <2> HIDE DEF a, b, c, to
  <2>4. /\ a \o b \in Seq(Row) /\ Len(a \o b) = base + m
        /\ \A j \in 1 .. base : (a \o b)[j] = a[j]
        /\ \A j \in 1 .. m : (a \o b)[base + j] = b[j]
    <3>0. a \in Seq(Row) /\ b \in Seq(Row)
      BY <2>1, <2>3
    <3>1. Len(a) = base /\ Len(b) = m
      BY <2>1, <2>3
    <3>2. /\ a \o b \in Seq(Row) /\ Len(a \o b) = Len(a) + Len(b)
          /\ \A j \in 1 .. Len(a) : (a \o b)[j] = a[j]
          /\ \A j \in 1 .. Len(b) : (a \o b)[Len(a) + j] = b[j]
      BY ONLY <3>0, ConcatProperties
    <3> QED
      BY ONLY <3>1, <3>2
  <2>5. ASSUME NEW j \in 1 .. (base + m) PROVE (a \o b)[j] = c[j]
    <3>1. CASE j <= base
      <4>1. j \in 1 .. base /\ j \in 1 .. (to - 0)
        BY <3>1, <1>4 DEF to
      <4> QED
        BY <4>1, <2>1, <2>2, <2>4
    <3>2. CASE ~(j <= base)
      <4>1. j - base \in 1 .. m /\ base + (j - base) = j /\ j \in 1 .. (to - 0) /\ 0 + j = j
        BY <3>2, <1>4 DEF to
      <4>2. (a \o b)[base + (j - base)] = b[j - base] /\ b[j - base] = ins[base + (j - base)]
        BY <4>1, <2>3, <2>4
      <4> QED
        BY <4>1, <4>2, <2>2
    <3> QED
      BY <3>1, <3>2
  <2>6. Len(c) = base + m
    BY <2>2, <1>4 DEF to
  <2>7. a \o b = c
    BY ONLY <2>2, <2>4, <2>5, <2>6, SameElements
  <2> QED
    BY <2>2, <2>7 DEF a, b, c
<1>10. WithPageRows(read[n], page) = SubSeq(ins, 1, to)
  <2>1. WithPageRows(read[n], page) = read[n] \o OrdinaryRows(page)
    BY <1>4 DEF WithPageRows
  <2> QED
    BY <2>1, <1>8, <1>9
<1> HIDE DEF to, m
<1>11. /\ r \in [0 .. (n + 1) -> Seq(Row)] /\ r[n + 1] = SubSeq(ins, 1, to)
       /\ \A p \in 0 .. n : r[p] = read[p]
  BY <1>3, <1>8, <1>9
<1> HIDE DEF r
<1>12. Reads(r, now, to, ins)
  <2>1. ASSUME NEW p \in 1 .. (n + 1) PROVE r[p] = WithPageRows(r[p - 1], now[p])
    <3>1. p - 1 \in 0 .. n /\ r[p - 1] = read[p - 1]
      BY <1>3, <1>11
    <3>2. CASE p \in 1 .. n
      <4>1. p \in 0 .. n
        BY <3>2
      <4> QED
        BY <3>1, <3>2, <4>1, <1>3, <1>8, <1>11
    <3>3. CASE p = n + 1
      <4>1. p - 1 = n
        BY <3>3, <1>3
      <4> QED
        BY <3>1, <3>3, <4>1, <1>3, <1>10, <1>11
    <3> QED
      BY <3>2, <3>3, <1>3
  <2>2. r[0] = <<>>
    BY <1>3, <1>8, <1>11
  <2> QED
    BY <2>1, <2>2, <1>3, <1>11 DEF Reads
<1>13. SavedInv(now, to, ins)
  BY <1>3, <1>7, <1>12 DEF SavedInv, P
<1> QED
  BY <1>13 DEF now, to, m

\* Adding the characters of one more chunk.
LEMMA OneMoreChunk ==
    ASSUME NEW value \in Value, NEW a \in Nat, NEW b \in Nat, a <= b, b <= Len(value)
    PROVE  /\ SubSeq(value, 1, a) \in Value
           /\ SubSeq(value, 1, a) \o SubSeq(value, a + 1, b) = SubSeq(value, 1, b)
<1> DEFINE s == SubSeq(value, 0 + 1, a)
           t == SubSeq(value, a + 1, b)
           u == SubSeq(value, 0 + 1, b)
<1>1. value \in Seq(Char) /\ Len(value) \in Nat
  BY LenProperties DEF Value
<1>2. s \in Seq(Char) /\ Len(s) = a - 0 /\ \A k \in 1 .. (a - 0) : s[k] = value[0 + k]
  BY <1>1, PartIs
<1>3. t \in Seq(Char) /\ Len(t) = b - a /\ \A k \in 1 .. (b - a) : t[k] = value[a + k]
  BY <1>1, PartIs
<1>4. u \in Seq(Char) /\ Len(u) = b - 0 /\ \A k \in 1 .. (b - 0) : u[k] = value[0 + k]
  BY <1>1, PartIs
<1> HIDE DEF s, t, u
<1>5. /\ s \o t \in Seq(Char) /\ Len(s \o t) = Len(s) + Len(t)
      /\ \A k \in 1 .. Len(s) : (s \o t)[k] = s[k]
      /\ \A k \in 1 .. Len(t) : (s \o t)[Len(s) + k] = t[k]
  <2>1. s \in Seq(Char) /\ t \in Seq(Char)
    BY <1>2, <1>3
  <2> QED
    BY ONLY <2>1, ConcatProperties
<1>6. Len(s) = a /\ Len(t) = b - a /\ Len(u) = b
  BY <1>2, <1>3, <1>4
<1>7. ASSUME NEW k \in 1 .. b PROVE (s \o t)[k] = u[k]
  <2>1. u[k] = value[k]
    BY <1>4
  <2>2. CASE k <= a
    <3>1. k \in 1 .. Len(s) /\ k \in 1 .. (a - 0) /\ 0 + k = k
      BY <2>2, <1>6
    <3> QED
      BY <2>1, <3>1, <1>2, <1>5
  <2>3. CASE ~(k <= a)
    <3>1. k - a \in 1 .. (b - a) /\ a + (k - a) = k
      BY <2>3
    <3>2. (s \o t)[a + (k - a)] = t[k - a] /\ t[k - a] = value[a + (k - a)]
      BY <3>1, <1>3, <1>5, <1>6
    <3> QED
      BY <2>1, <3>1, <3>2
  <2> QED
    BY <2>2, <2>3
<1>8. Len(s \o t) = b
  BY <1>5, <1>6
<1>9. s \o t = u
  BY ONLY <1>4, <1>5, <1>6, <1>7, <1>8, SameElements
<1>10. s \in Value
  BY <1>2 DEF Value
<1> QED
  BY <1>9, <1>10 DEF s, t, u

\* Saving the pages of a long string adds one row.
LEMMA AppendLong ==
    ASSUME NEW pgs, NEW ins \in Seq(Row), SavedInv(pgs, Len(ins), ins),
           NEW value \in Value, IsLong(value)
    PROVE  SavedInv(pgs \o LongPages(value), Len(ins) + 1, Append(ins, value))
<1> DEFINE new == Append(ins, value)
           base == Len(ins)
           long == LongPages(value)
           now == pgs \o long
           n == Len(pgs)
           k == Chunks(value)
           P == OrdinaryPage \union LongPage
<1>1. /\ base \in Nat /\ new \in Seq(Row) /\ Len(new) = base + 1 /\ new[base + 1] = value /\ value \in Row
      /\ \A p \in 1 .. base : new[p] = ins[p]
  <2>1. value \in Row
    BY DEF Row
  <2> HIDE DEF Row
  <2> QED
    BY <2>1
<1>2. /\ k \in Nat \ {0} /\ End(value, 0) = 0 /\ End(value, k) = Len(value)
      /\ \A c \in 0 .. k : End(value, c) \in Nat /\ End(value, c) <= Len(value)
      /\ \A c \in 1 .. k : End(value, c - 1) <= End(value, c)
      /\ long \in Seq(LongPage) /\ Len(long) = k
      /\ \A c \in 1 .. k : long[c] = [num_rows |-> IF c = 1 THEN First ELSE Following,
                                      chars |-> SubSeq(value, End(value, c - 1) + 1, End(value, c))]
  BY ChunksAre DEF Chunks
<1>22. ASSUME NEW c \in 1 .. k
       PROVE  /\ long[c].num_rows = (IF c = 1 THEN First ELSE Following)
              /\ long[c].chars = SubSeq(value, End(value, c - 1) + 1, End(value, c))
              /\ long[c] \in LongPage
  <2>1. long[c] = [num_rows |-> IF c = 1 THEN First ELSE Following,
                   chars |-> SubSeq(value, End(value, c - 1) + 1, End(value, c))]
    BY <1>2
  <2>2. long \in Seq(LongPage) /\ c \in 1 .. Len(long)
    BY <1>2
  <2> HIDE DEF long
  <2>3. long[c] \in LongPage
    BY <2>2, ElementOfSeq
  <2> DEFINE m == IF c = 1 THEN First ELSE Following
             s == SubSeq(value, End(value, c - 1) + 1, End(value, c))
  <2>4. long[c] = [num_rows |-> m, chars |-> s]
    BY <2>1
  <2> HIDE DEF m, s
  <2>5. long[c].num_rows = m /\ long[c].chars = s
    BY <2>4
  <2> QED
    BY <2>3, <2>5 DEF m, s
<1>3. SavedInv(pgs, base, new)
  BY <1>1, SavedKept
<1> HIDE DEF new, long
<1>4. PICK first : Layout(first, pgs, base, new)
  BY <1>3 DEF SavedInv
<1>5. PICK read : Reads(read, pgs, base, new)
  BY <1>3 DEF SavedInv
<1>6. /\ now \in Seq(P) /\ n \in Nat /\ Len(now) = n + k
      /\ \A p \in 1 .. n : now[p] = pgs[p]
      /\ \A c \in 1 .. k : now[n + c] = long[c]
  <2>1. pgs \in Seq(P)
    BY <1>3 DEF SavedInv
  <2>2. long \in Seq(P)
    <3>1. long \in Seq(LongPage) /\ Len(long) \in Nat
      BY <1>2
    <3>2. long \in [1 .. Len(long) -> LongPage]
      BY <3>1, SeqDef
    <3>3. long \in [1 .. Len(long) -> P]
      BY <3>2
    <3> HIDE DEF P
    <3> QED
      BY <3>1, <3>3, SeqDef
  <2> HIDE DEF P
  <2>3. /\ now \in Seq(P) /\ Len(now) = Len(pgs) + Len(long)
        /\ \A p \in 1 .. Len(pgs) : now[p] = pgs[p]
        /\ \A c \in 1 .. Len(long) : now[Len(pgs) + c] = long[c]
    BY ONLY <2>1, <2>2, ConcatProperties
  <2>4. n \in Nat /\ Len(long) = k
    BY <2>1, <1>2
  <2> QED
    BY ONLY <2>3, <2>4
<1>7. First # Following
  BY Bounds DEF First, Following
<1> HIDE DEF now, P, base, k, n
<1> DEFINE f == [p \in 1 .. (n + k) + 1 |-> IF p <= n + 1 THEN first[p] ELSE base + 1]
           r == [p \in 0 .. (n + k) |-> IF p <= n THEN read[p] ELSE Append(read[n], SubSeq(value, 1, End(value, p - n)))]
<1>8. /\ first \in [1 .. n + 1 -> Nat] /\ first[1] = 0 /\ first[n + 1] = base
      /\ \A p \in 1 .. n : first[p + 1] <= base /\ HoldsPage(first, pgs, p, new)
  BY <1>4 DEF Layout, n
<1>9. /\ f \in [1 .. (n + k) + 1 -> Nat]
      /\ \A p \in 1 .. (n + 1) : f[p] = first[p]
      /\ \A p \in (n + 2) .. (n + k + 1) : f[p] = base + 1
  <2>1. \A p \in 1 .. (n + 1) : f[p] = first[p] /\ first[p] \in Nat
    <3> TAKE p \in 1 .. (n + 1)
    <3>1. p \in 1 .. (n + k) + 1 /\ p <= n + 1
      BY <1>2, <1>6
    <3>2. first[p] \in Nat
      BY <1>8
    <3> QED
      BY <3>1, <3>2
  <2>2. \A p \in (n + 2) .. (n + k + 1) : f[p] = base + 1
    BY <1>2, <1>6
  <2>3. \A p \in 1 .. (n + k) + 1 : f[p] \in Nat
    <3> TAKE p \in 1 .. (n + k) + 1
    <3>1. p \in 1 .. (n + 1) \/ p \in (n + 2) .. (n + k + 1)
      BY <1>2, <1>6
    <3> HIDE DEF f
    <3> QED
      BY <3>1, <2>1, <2>2, <1>1
  <2> QED
    BY <2>1, <2>2, <2>3
<1> HIDE DEF f
<1>10. Layout(f, now, base + 1, new)
  <2>1. ASSUME NEW p \in 1 .. n PROVE f[p + 1] <= base + 1 /\ HoldsPage(f, now, p, new)
    <3>1. HoldsPage(first, pgs, p, new) /\ Len(now) \in Nat /\ n < Len(now) /\ n \in Nat
      BY <1>2, <1>6, <1>8
    <3>2. now[n + 1].num_rows # Following
      <4>1. 1 \in 1 .. k
        BY <1>2
      <4>2. long[1].num_rows = First
        BY <4>1, <1>22
      <4> QED
        BY <4>1, <4>2, <1>6, <1>7
    <3>3. HoldsPage(f, now, p, new)
      BY <3>1, <3>2, <1>6, <1>9, PageHoldsOn DEF n
    <3>4. p + 1 \in 1 .. (n + 1)
      BY <1>6
    <3>5. f[p + 1] = first[p + 1] /\ first[p + 1] <= base /\ first[p + 1] \in Nat
      BY <3>4, <1>8, <1>9
    <3> QED
      BY <3>3, <3>5, <1>1
  <2>2. f[n + 1] = base /\ f[n + 2] = base + 1 /\ f[n + k + 1] = base + 1 /\ f[1] = 0
    <3>1. n + 1 \in 1 .. (n + 1) /\ 1 \in 1 .. (n + 1) /\ n + 2 \in (n + 2) .. (n + k + 1)
          /\ n + k + 1 \in (n + 2) .. (n + k + 1)
      BY <1>2, <1>6
    <3> QED
      BY <3>1, <1>8, <1>9
  <2>3. HoldsLong(now, n + 1, value)
    <3>1. \A c \in 1 .. k : now[n + 1 + c - 1] = long[c]
      <4> TAKE c \in 1 .. k
      <4>1. n + 1 + c - 1 = n + c
        BY <1>2, <1>6
      <4> QED
        BY <4>1, <1>6
    <3>2. n + 1 + k - 1 <= Len(now) /\ ~(n + 1 + k <= Len(now))
      BY <1>2, <1>6
    <3> QED
      BY <3>1, <3>2 DEF HoldsLong, k, long
  <2>4. HoldsPage(f, now, n + 1, new)
    <3>1. now[n + 1] = long[1] /\ long[1] \in LongPage /\ long[1].num_rows = First
      <4>1. 1 \in 1 .. k
        BY <1>2
      <4> QED
        BY <4>1, <1>6, <1>22
    <3>2. f[n + 1 + 1] = f[n + 1] + 1 /\ new[f[n + 1] + 1] = value
      <4>1. n + 1 + 1 = n + 2
        BY <1>6
      <4> QED
        BY <4>1, <2>2, <1>1
    <3> QED
      BY <2>3, <3>1, <3>2 DEF HoldsPage
  <2>5. ASSUME NEW c \in 2 .. k PROVE f[n + c + 1] <= base + 1 /\ HoldsPage(f, now, n + c, new)
    <3>1. f[n + c] = base + 1 /\ f[n + c + 1] = base + 1
      <4>1. n + c \in (n + 2) .. (n + k + 1) /\ n + c + 1 \in (n + 2) .. (n + k + 1)
        BY <1>2, <1>6
      <4> QED
        BY <4>1, <1>9
    <3>2. now[n + c] = long[c] /\ long[c] \in LongPage /\ long[c].num_rows = Following
      <4>1. c \in 1 .. k /\ c # 1
        OBVIOUS
      <4> QED
        BY <4>1, <1>6, <1>22
    <3> QED
      BY <3>1, <3>2, <1>1 DEF HoldsPage
  <2>6. ASSUME NEW p \in 1 .. Len(now) PROVE f[p + 1] <= base + 1 /\ HoldsPage(f, now, p, new)
    <3>1. CASE p \in 1 .. n
      BY <3>1, <2>1
    <3>2. CASE p = n + 1
      <4>1. p + 1 = n + 2
        BY <3>2, <1>6
      <4> QED
        BY <3>2, <4>1, <2>2, <2>4, <1>1
    <3>3. CASE p > n + 1
      <4>1. p - n \in 2 .. k /\ n + (p - n) = p
        BY <3>3, <1>2, <1>6
      <4> QED
        BY <4>1, <2>5
    <3> QED
      BY <3>1, <3>2, <3>3, <1>6
  <2> QED
    BY <2>2, <2>6, <1>6, <1>9 DEF Layout
<1>11. /\ read \in [0 .. n -> Seq(Row)] /\ read[0] = <<>> /\ read[n] = SubSeq(new, 1, base)
       /\ \A p \in 1 .. n : read[p] = WithPageRows(read[p - 1], pgs[p])
  BY <1>5 DEF Reads, n
<1>12. read[n] \in Seq(Row) /\ Len(read[n]) = base
  <2>1. Len(SubSeq(new, 0 + 1, base)) = base - 0
    BY <1>1, PartIs
  <2>2. read[n] \in Seq(Row)
    <3>1. n \in 0 .. n
      BY <1>6
    <3> QED
      BY <3>1, <1>11
  <2> QED
    BY <2>1, <2>2, <1>1, <1>11
<1> DEFINE old == read[n]
<1> HIDE DEF old
<1>13. ASSUME NEW c \in 0 .. k PROVE SubSeq(value, 1, End(value, c)) \in Value
  <2> DEFINE e == End(value, c)
  <2>1. e \in Nat /\ e <= Len(value)
    BY <1>2
  <2> HIDE DEF e
  <2>2. SubSeq(value, 1, e) \in Value
    BY <2>1, OneMoreChunk
  <2> QED
    BY <2>2 DEF e
<1> DEFINE with(c) == Append(old, SubSeq(value, 1, End(value, c)))
<1>14. ASSUME NEW c \in 0 .. k
       PROVE  /\ with(c) \in Seq(Row) /\ Len(with(c)) = base + 1
              /\ with(c)[base + 1] = SubSeq(value, 1, End(value, c))
              /\ \A p \in 1 .. base : with(c)[p] = old[p]
  <2> DEFINE s == SubSeq(value, 1, End(value, c))
  <2>1. s \in Row
    BY <1>13 DEF Row
  <2>2. old \in Seq(Row) /\ Len(old) = base
    BY <1>12 DEF old
  <2> HIDE DEF s
  <2>3. Append(old, s) \in Seq(Row) /\ Len(Append(old, s)) = base + 1 /\ Append(old, s)[base + 1] = s
        /\ \A p \in 1 .. base : Append(old, s)[p] = old[p]
    BY <2>1, <2>2
  <2> QED
    BY <2>3 DEF s
<1>15. \A p \in 0 .. n : r[p] = read[p]
  <2> TAKE p \in 0 .. n
  <2>1. p \in 0 .. (n + k) /\ p <= n
    BY <1>2, <1>6
  <2> QED
    BY <2>1
<1>16. \A c \in 1 .. k : r[n + c] = with(c)
  <2> TAKE c \in 1 .. k
  <2> DEFINE i == n + c
  <2>1. i \in 0 .. (n + k) /\ ~(i <= n) /\ i - n = c
    BY <1>2, <1>6
  <2> HIDE DEF i
  <2>2. r[i] = Append(read[n], SubSeq(value, 1, End(value, i - n)))
    BY <2>1
  <2>3. r[i] = with(c)
    BY <2>1, <2>2 DEF old
  <2> QED
    BY <2>3 DEF i
<1>17. WithPageRows(old, long[1]) = with(1)
  <2>1. 1 \in 1 .. k /\ 1 \in 0 .. k
    BY <1>2
  <2>2. long[1].num_rows = First /\ long[1].chars = SubSeq(value, End(value, 1 - 1) + 1, End(value, 1))
    BY <2>1, <1>22
  <2>3. End(value, 1 - 1) + 1 = 1
    BY <1>2
  <2>4. long[1].chars = SubSeq(value, 1, End(value, 1))
    BY <2>2, <2>3
  <2>5. WithPageRows(old, long[1]) = Append(old, long[1].chars)
    BY <2>2, <1>7 DEF WithPageRows
  <2> QED
    BY <2>4, <2>5
<1> HIDE DEF r
<1>18. ASSUME NEW c \in 2 .. k PROVE WithPageRows(with(c - 1), long[c]) = with(c)
  <2> DEFINE b == c - 1
             s == SubSeq(value, 1, End(value, b))
             chunk == SubSeq(value, End(value, b) + 1, End(value, c))
             rows == with(b)
             all == with(c)
  <2>1. b \in 0 .. k /\ c \in 1 .. k /\ c \in 0 .. k /\ c # 1
    BY <1>2
  <2>2. long[c].num_rows = Following /\ long[c].chars = chunk
    BY <2>1, <1>22
  <2>3. s \in Value /\ s # Null
    BY <2>1, <1>13, Bounds
  <2>4. s \o chunk = SubSeq(value, 1, End(value, c))
    <3> DEFINE x == End(value, b)
               y == End(value, c)
    <3>1. x \in Nat /\ y \in Nat /\ x <= y /\ y <= Len(value)
      BY <2>1, <1>2
    <3> HIDE DEF x, y
    <3>2. SubSeq(value, 1, x) \o SubSeq(value, x + 1, y) = SubSeq(value, 1, y)
      BY <3>1, OneMoreChunk
    <3> QED
      BY <3>2 DEF x, y
  <2>5. /\ rows \in Seq(Row) /\ Len(rows) = base + 1 /\ rows[base + 1] = s
        /\ \A p \in 1 .. base : rows[p] = old[p]
    BY <2>1, <1>14
  <2>6. /\ all \in Seq(Row) /\ Len(all) = base + 1 /\ all[base + 1] = s \o chunk
        /\ \A p \in 1 .. base : all[p] = old[p]
    BY <2>1, <2>4, <1>14
  <2>7. WithPageRows(rows, long[c]) = [rows EXCEPT ![Len(rows)] = IF @ = Null THEN Exception ELSE @ \o long[c].chars]
    BY <2>2, <1>7 DEF WithPageRows
  <2> HIDE DEF rows, all, s, chunk, b
  <2>8. WithPageRows(rows, long[c]) = [rows EXCEPT ![base + 1] = s \o chunk]
    <3>1. Len(rows) = base + 1 /\ rows[base + 1] = s /\ s # Null /\ long[c].chars = chunk
      BY <2>2, <2>3, <2>5
    <3> QED
      BY ONLY <3>1, <2>7
  <2> DEFINE res == [rows EXCEPT ![base + 1] = s \o chunk]
             t == s \o chunk
  <2>9. rows = [p \in 1 .. base + 1 |-> rows[p]] /\ all = [p \in 1 .. base + 1 |-> all[p]] /\ base + 1 \in 1 .. base + 1
    BY <2>5, <2>6, <1>1
  <2>10. res = [p \in 1 .. base + 1 |-> IF p = base + 1 THEN t ELSE rows[p]]
    BY <2>9
  <2> HIDE DEF t
  <2>11. \A p \in 1 .. base + 1 : (IF p = base + 1 THEN t ELSE rows[p]) = all[p]
    <3> TAKE p \in 1 .. base + 1
    <3>1. p = base + 1 \/ (p # base + 1 /\ p \in 1 .. base)
      BY <1>1
    <3> QED
      BY <3>1, <2>5, <2>6 DEF t
  <2>12. res = all
    BY <2>9, <2>10, <2>11
  <2> QED
    BY <2>8, <2>12 DEF rows, all, b
<1>19. with(k) = new /\ SubSeq(new, 1, base + 1) = new
  <2>1. SubSeq(value, 1, End(value, k)) = value
    <3>1. value \in Seq(Char)
      BY DEF Value
    <3> QED
      BY <3>1, <1>2
  <2>2. old = ins
    <3>1. /\ SubSeq(new, 0 + 1, base) \in Seq(Row) /\ Len(SubSeq(new, 0 + 1, base)) = base - 0
          /\ \A j \in 1 .. (base - 0) : SubSeq(new, 0 + 1, base)[j] = new[0 + j]
      BY <1>1, PartIs
    <3>2. \A j \in 1 .. base : new[0 + j] = ins[j]
      BY <1>1
    <3>3. Len(ins) = base - 0 /\ base - 0 = base
      BY <1>1 DEF base
    <3>4. SubSeq(new, 0 + 1, base) = ins
      BY ONLY <3>1, <3>2, <3>3, ins \in Seq(Row), SameElements
    <3> QED
      BY <3>4, <1>11 DEF old
  <2>3. SubSeq(new, 1, base + 1) = new
    BY <1>1
  <2> QED
    BY <2>1, <2>2, <2>3 DEF new
<1> HIDE DEF with
<1>20. Reads(r, now, base + 1, new)
  <2>1. ASSUME NEW p \in 0 .. (n + k) PROVE r[p] \in Seq(Row)
    <3>1. CASE p \in 0 .. n
      BY <3>1, <1>11, <1>15
    <3>2. CASE p \notin 0 .. n
      <4>1. p - n \in 1 .. k /\ p - n \in 0 .. k /\ n + (p - n) = p
        BY <3>2, <1>2, <1>6
      <4>2. r[n + (p - n)] = with(p - n) /\ with(p - n) \in Seq(Row)
        BY <4>1, <1>14, <1>16
      <4> QED
        BY <4>1, <4>2
    <3> QED
      BY <3>1, <3>2
  <2>2. r \in [0 .. (n + k) -> Seq(Row)]
    BY <2>1 DEF r
  <2>3. r[0] = <<>> /\ r[n] = old
    <3>1. 0 \in 0 .. n /\ n \in 0 .. n
      BY <1>6
    <3> QED
      BY <3>1, <1>11, <1>15 DEF old
  <2>4. r[n + k] = SubSeq(new, 1, base + 1)
    <3>1. k \in 1 .. k
      BY <1>2
    <3> QED
      BY <3>1, <1>16, <1>19
  <2>5. ASSUME NEW p \in 1 .. (n + k) PROVE r[p] = WithPageRows(r[p - 1], now[p])
    <3>1. CASE p \in 1 .. n
      <4>1. p \in 0 .. n /\ p - 1 \in 0 .. n
        BY <3>1, <1>6
      <4> QED
        BY <3>1, <4>1, <1>6, <1>11, <1>15
    <3>2. CASE p = n + 1
      <4>1. p - 1 = n /\ 1 \in 1 .. k
        BY <3>2, <1>2, <1>6
      <4>2. r[n + 1] = with(1) /\ now[n + 1] = long[1]
        BY <4>1, <1>6, <1>16
      <4> QED
        BY <3>2, <4>1, <4>2, <2>3, <1>17
    <3>3. CASE p > n + 1
      <4> DEFINE c == p - n
      <4>1. c \in 2 .. k /\ c \in 1 .. k /\ c - 1 \in 1 .. k /\ n + c = p /\ n + (c - 1) = p - 1
        BY <3>3, <1>2, <1>6
      <4> HIDE DEF c
      <4>2. r[n + c] = with(c) /\ r[n + (c - 1)] = with(c - 1) /\ now[n + c] = long[c]
        BY <4>1, <1>6, <1>16
      <4> QED
        BY <4>1, <4>2, <1>18
    <3> QED
      BY <3>1, <3>2, <3>3, <1>2, <1>6
  <2> QED
    BY <2>2, <2>3, <2>4, <2>5, <1>6 DEF Reads
<1>21. SavedInv(now, base + 1, new)
  BY <1>6, <1>10, <1>20 DEF SavedInv, P
<1> QED
  BY <1>21 DEF now, base, new, long

-----------------------------------------------------------------------------
(* The invariant. *)

\* The saved pages hold the first rows, the page in progress the rest.
IInv ==
    /\ writer \in Writers /\ finalized \in BOOLEAN
    /\ finalized => num_rows = 0
    /\ inserted \in Seq(Row)
    /\ num_rows \in 0 .. Len(inserted)
    /\ PageHolds(num_rows, offsets, data, bitmap, Len(inserted) - num_rows, inserted)
    /\ SavedInv(pages, Len(inserted) - num_rows, inserted)

\* Saving the page in progress completes the saved pages.
LEMMA SavedAll ==
    ASSUME IInv
    PROVE  /\ num_rows # 0 => SavedInv(Append(pages, SavedPage), Len(inserted), inserted)
           /\ num_rows = 0 => SavedInv(pages, Len(inserted), inserted)
           /\ NextBitmap \in SUBSET Nat /\ bitmap \in SUBSET Nat
           /\ Len(inserted) \in Nat /\ num_rows \in Nat
<1> DEFINE base == Len(inserted) - num_rows
<1>1. /\ inserted \in Seq(Row) /\ Len(inserted) \in Nat /\ num_rows \in Nat
      /\ base \in Nat /\ base + num_rows = Len(inserted)
      /\ num_rows = 0 => base = Len(inserted)
  BY LenProperties DEF IInv
<1>2. PageHolds(num_rows, offsets, data, bitmap, base, inserted) /\ SavedInv(pages, base, inserted)
  BY DEF IInv
<1>3. bitmap \in SUBSET Nat
  BY <1>2 DEF PageHolds
<1>4. NextBitmap \in SUBSET Nat
  BY <1>3 DEF NextBitmap
<1> HIDE DEF base
<1>5. ASSUME num_rows # 0 PROVE SavedInv(Append(pages, SavedPage), Len(inserted), inserted)
  <2> DEFINE page == SavedPage
  <2>1. Ordinary(page, base, inserted) /\ page.num_rows = num_rows
    BY <1>2, <1>5, SavedHolds
  <2> HIDE DEF page
  <2>2. base + page.num_rows <= Len(inserted) /\ base + page.num_rows = Len(inserted)
    BY <1>1, <2>1
  <2>3. SavedInv(Append(pages, page), base + page.num_rows, inserted)
    BY <1>1, <1>2, <2>1, <2>2, AppendPage
  <2> QED
    BY <2>2, <2>3 DEF page
<1> QED
  BY <1>1, <1>2, <1>3, <1>4, <1>5

\* After a step that leaves nothing on the page in progress.
LEMMA EmptyAfter ==
    ASSUME writer' \in Writers, finalized' \in BOOLEAN, inserted' \in Seq(Row), num_rows' = 0,
           offsets' = <<>>, data' = <<>>, bitmap' \in SUBSET Nat, SavedInv(pages', Len(inserted'), inserted')
    PROVE  IInv'
<1>1. /\ Len(inserted') \in Nat /\ Len(inserted') - num_rows' = Len(inserted')
      /\ num_rows' \in 0 .. Len(inserted')
  BY LenProperties
<1>2. PageHolds(num_rows', offsets', data', bitmap', Len(inserted') - num_rows', inserted')
  BY EmptyPage
<1> QED
  BY <1>1, <1>2 DEF IInv

\* No pages hold no rows.
LEMMA InitHolds == Init => IInv
<1> SUFFICES ASSUME Init PROVE IInv
  OBVIOUS
<1>1. /\ writer \in Writers /\ finalized \in BOOLEAN /\ inserted = <<>> /\ inserted \in Seq(Row)
      /\ num_rows = 0 /\ offsets = <<>> /\ data = <<>> /\ bitmap \in SUBSET Nat /\ pages = <<>>
      /\ Len(inserted) = 0 /\ Len(pages) = 0
  <2>1. /\ writer \in Writers /\ finalized = FALSE /\ inserted = <<>>
        /\ num_rows = 0 /\ offsets = <<>> /\ data = <<>> /\ bitmap = {} /\ pages = <<>>
    BY DEF Init
  <2>2. <<>> \in Seq(Row) /\ Len(<<>>) = 0
    OBVIOUS
  <2> QED
    BY <2>1, <2>2
<1>2. Layout([p \in 1 .. 1 |-> 0], pages, Len(inserted), inserted)
  <2> DEFINE f == [p \in 1 .. 1 |-> 0]
  <2>1. f \in [1 .. 1 -> Nat] /\ f[1] = 0
    OBVIOUS
  <2> HIDE DEF f
  <2>2. f \in [1 .. Len(pages) + 1 -> Nat] /\ f[Len(pages) + 1] = Len(inserted)
    BY <1>1, <2>1
  <2>3. 1 .. Len(pages) = {}
    BY <1>1
  <2>4. Layout(f, pages, Len(inserted), inserted)
    BY <2>1, <2>2, <2>3 DEF Layout
  <2> QED
    BY <2>4 DEF f
<1>3. Reads([p \in 0 .. 0 |-> <<>>], pages, Len(inserted), inserted)
  <2> DEFINE r == [p \in 0 .. 0 |-> <<>>]
  <2>1. r \in [0 .. 0 -> Seq(Row)] /\ r[0] = <<>>
    OBVIOUS
  <2> HIDE DEF r
  <2>2. r \in [0 .. Len(pages) -> Seq(Row)] /\ r[Len(pages)] = <<>> /\ SubSeq(inserted, 1, Len(inserted)) = <<>>
    BY <1>1, <2>1
  <2>3. 1 .. Len(pages) = {}
    BY <1>1
  <2>4. Reads(r, pages, Len(inserted), inserted)
    BY <2>1, <2>2, <2>3 DEF Reads
  <2> QED
    BY <2>4 DEF r
<1>4. pages \in Seq(OrdinaryPage \union LongPage)
  BY <1>1
<1>5. SavedInv(pages, Len(inserted), inserted)
  BY <1>2, <1>3, <1>4 DEF SavedInv
<1>6. PageHolds(num_rows, offsets, data, bitmap, Len(inserted) - num_rows, inserted)
  BY <1>1, EmptyPage
<1>7. Len(inserted) - num_rows = Len(inserted) /\ num_rows \in 0 .. Len(inserted)
  BY <1>1
<1> QED
  BY <1>1, <1>5, <1>6, <1>7 DEF IInv

\* The strings inserted are sequences of characters.
LEMMA StringIs ==
    ASSUME IInv, NEW size \in Sizes, NEW nul \in BOOLEAN
    PROVE  StringOf(Len(inserted) + 1, size, nul) \in Value
<1> DEFINE r == Len(inserted) + 1
           s == StringOf(r, size, nul)
<1>1. r \in Nat /\ size \in Nat
  BY ConstantsAssumption, LenProperties DEF IInv
<1> HIDE DEF r
<1>2. s = [k \in 1 .. size |-> IF nul /\ k = size THEN Nul ELSE <<r, k>>]
  BY DEF StringOf
<1>3. \A k \in 1 .. size : (IF nul /\ k = size THEN Nul ELSE <<r, k>>) \in Char
  <2> TAKE k \in 1 .. size
  <2>1. k \in Nat
    BY <1>1
  <2>2. <<r, k>> \in Char /\ Nul \in Char
    BY <1>1, <2>1 DEF Char
  <2> QED
    BY <2>2
<1> HIDE DEF s
<1>4. s \in [1 .. size -> Char]
  BY <1>2, <1>3
<1>5. s \in Seq(Char)
  BY <1>1, <1>4, SeqDef
<1> QED
  BY <1>5 DEF s, r, Value

\* A long string: the page in progress is saved before its pages.
LEMMA LongStep ==
    ASSUME IInv, NEW value \in Value, InsertLong(value), inserted' = Append(inserted, value),
           UNCHANGED <<writer, finalized>>, ~finalized
    PROVE  IInv'
<1> DEFINE now == pages \o (IF num_rows > 0 THEN <<SavedPage>> ELSE <<>>)
           new == Append(inserted, value)
<1>1. /\ IsLong(value) /\ pages' = now \o LongPages(value)
      /\ num_rows' = 0 /\ data' = <<>> /\ offsets' = <<>>
      /\ bitmap' = IF num_rows > 0 THEN NextBitmap ELSE bitmap
  BY DEF InsertLong
<1>2. inserted \in Seq(Row) /\ writer \in Writers /\ value \in Row
  BY DEF IInv, Row
<1>3. SavedInv(now, Len(inserted), inserted)
  <2>1. pages \in Seq(OrdinaryPage \union LongPage)
    BY DEF IInv, SavedInv
  <2>2. CASE num_rows > 0
    <3> DEFINE page == SavedPage
    <3>1. num_rows # 0
      BY <2>2, SavedAll
    <3>2. SavedInv(Append(pages, page), Len(inserted), inserted)
      BY <3>1, SavedAll
    <3> HIDE DEF page
    <3>3. Append(pages, page) = pages \o <<page>>
      BY <2>1
    <3> QED
      BY <2>2, <3>2, <3>3 DEF page
  <2>3. CASE ~(num_rows > 0)
    <3>1. num_rows = 0
      BY <2>3, SavedAll
    <3>2. pages \o <<>> = pages
      BY <2>1
    <3> QED
      BY <2>3, <3>1, <3>2, SavedAll
  <2> QED
    BY <2>2, <2>3
<1>4. bitmap' \in SUBSET Nat
  BY <1>1, SavedAll
<1>5. new \in Seq(Row) /\ Len(new) = Len(inserted) + 1
  BY <1>2
<1> HIDE DEF now
<1>6. SavedInv(now \o LongPages(value), Len(inserted) + 1, new)
  BY <1>1, <1>2, <1>3, AppendLong
<1>7. inserted' = new
  OBVIOUS
<1> HIDE DEF new
<1>8. inserted' \in Seq(Row) /\ SavedInv(pages', Len(inserted'), inserted')
  BY <1>1, <1>5, <1>6, <1>7
<1>9. writer' \in Writers /\ finalized' \in BOOLEAN
  <2>1. writer \in Writers /\ finalized \in BOOLEAN
    BY DEF IInv
  <2>2. writer' = writer /\ finalized' = finalized
    OBVIOUS
  <2> QED
    BY <2>1, <2>2
<1>10. num_rows' = 0 /\ offsets' = <<>> /\ data' = <<>>
  BY <1>1
<1> QED
  BY <1>4, <1>8, <1>9, <1>10, EmptyAfter

\* A short string: onto the page in progress, or, when there is no room, onto a new one.
LEMMA ShortStep ==
    ASSUME IInv, NEW value \in Value, InsertShort(value), inserted' = Append(inserted, value),
           UNCHANGED <<writer, finalized>>, ~finalized
    PROVE  IInv'
<1> DEFINE new == Append(inserted, value)
           l == Len(inserted)
           base == l - num_rows
<1>1. /\ inserted \in Seq(Row) /\ writer \in Writers /\ value \in Row /\ num_rows \in 0 .. l
      /\ PageHolds(num_rows, offsets, data, bitmap, base, inserted)
      /\ SavedInv(pages, base, inserted)
  BY DEF IInv, Row
<1>2. l \in Nat /\ num_rows \in Nat /\ base \in Nat /\ base + num_rows = l /\ base <= l
      /\ l - 0 = l /\ l + 1 - 1 = l /\ l + 1 - (num_rows + 1) = base
  BY <1>1, SavedAll
<1>3. new \in Seq(Row) /\ Len(new) = l + 1
  BY <1>1
<1>4. /\ offsets \in Seq(Nat) /\ data \in Value /\ Len(offsets) \in Nat /\ Len(data) \in Nat /\ Len(value) \in Nat
      /\ num_rows \div BitsPerByte \in Nat
  BY <1>1, <1>2, BitmapBytes, LenProperties DEF PageHolds, Value
<1>5. inserted' = new
  OBVIOUS
<1> HIDE DEF new, l, base
<1>6. CASE Need(Len(value), 2) > PageSize
  <2>1. /\ pages' = Append(pages, SavedPage) /\ data' = value /\ offsets' = <<Len(value)>>
        /\ bitmap' = NextBitmap \union {0} /\ num_rows' = 1
    BY <1>6 DEF InsertShort
  <2>2. Len(value) <= PageSize - 7
    BY <1>4, Bounds DEF InsertShort, IsLong
  <2>3. num_rows # 0
    <3> SUFFICES ASSUME num_rows = 0 PROVE FALSE
      OBVIOUS
    <3>1. Count(bitmap, 0) = 0
      BY <1>1, CountRows DEF PageHolds
    <3>2. Len(offsets) = 0
      BY <1>1, <3>1 DEF PageHolds
    <3>3. Len(data) = 0
      BY <1>1, <3>2 DEF PageHolds, Ends, Start
    <3>4. Need(Len(value), 2) = 4 + 2 * 0 + 2 + 0 + Len(value) + 0 + 1
      BY <3>2, <3>3, BitmapBytes DEF Need, OffsetEnd
    <3> QED
      BY <1>4, <1>6, <2>2, <3>4, Bounds
  <2>4. SavedInv(pages', l, inserted)
    BY <2>1, <2>3, SavedAll DEF l
  <2>5. SavedInv(pages', l, new)
    BY <2>4, <1>1, <1>2, SavedKept DEF l, new
  <2>6. PageHolds(1, <<Len(value)>>, value, NextBitmap \union {0}, l, new)
    <3> DEFINE bits == NextBitmap
    <3>1. bits \in SUBSET Nat
      BY SavedAll
    <3> HIDE DEF bits
    <3>2. PageHolds(0, <<>>, <<>>, bits, l, inserted)
      BY <3>1, EmptyPage
    <3>3. 4 + 2 * Len(<<>>) + 2 + Len(<<>>) + Len(value) + (0 \div BitsPerByte) + 1 <= PageSize
      <4>1. Len(<<>>) = 0 /\ 0 \div BitsPerByte = 0
        BY BitmapBytes
      <4> QED
        BY <4>1, <1>4, <2>2, Bounds
    <3>4. l + 0 = Len(inserted)
      BY <1>2 DEF l
    <3>5. PageHolds(0 + 1, Append(<<>>, Len(<<>>) + Len(value)), <<>> \o value, bits \union {0}, l, Append(inserted, value))
      BY <3>2, <3>3, <3>4, <1>1, <1>2, AddString
    <3>6. 0 + 1 = 1 /\ Append(<<>>, Len(<<>>) + Len(value)) = <<Len(value)>> /\ <<>> \o value = value
      <4>1. value \in Seq(Char)
        BY DEF Value
      <4>2. Len(<<>>) + Len(value) = Len(value)
        BY <1>4
      <4> QED
        BY <4>1, <4>2
    <3> QED
      BY <3>5, <3>6 DEF bits, new
  <2>7. num_rows' \in 0 .. Len(inserted') /\ Len(inserted') - num_rows' = l
    BY <1>2, <1>3, <1>5, <2>1
  <2>8. PageHolds(num_rows', offsets', data', bitmap', Len(inserted') - num_rows', inserted')
    BY <2>1, <2>6, <2>7, <1>5
  <2>9. SavedInv(pages', Len(inserted') - num_rows', inserted')
    BY <2>5, <2>7, <1>5
  <2> QED
    BY <1>1, <1>3, <1>5, <2>7, <2>8, <2>9 DEF IInv
<1>7. CASE ~(Need(Len(value), 2) > PageSize)
  <2>1. /\ pages' = pages /\ data' = data \o value /\ offsets' = Append(offsets, Len(data) + Len(value))
        /\ bitmap' = bitmap \union {num_rows} /\ num_rows' = num_rows + 1
    BY <1>7 DEF InsertShort
  <2>2. 4 + 2 * Len(offsets) + 2 + Len(data) + Len(value) + (num_rows \div BitsPerByte) + 1 <= PageSize
    BY <1>4, <1>7, Bounds DEF Need, OffsetEnd
  <2>3. PageHolds(num_rows + 1, Append(offsets, Len(data) + Len(value)), data \o value, bitmap \union {num_rows},
                  base, Append(inserted, value))
    BY <1>1, <1>2, <2>2, AddString DEF l
  <2>4. SavedInv(pages, base, new)
    BY <1>1, <1>2, SavedKept DEF l, new
  <2>5. num_rows' \in 0 .. Len(inserted') /\ Len(inserted') - num_rows' = base
    BY <1>1, <1>2, <1>3, <1>5, <2>1
  <2>6. PageHolds(num_rows', offsets', data', bitmap', Len(inserted') - num_rows', inserted')
    BY <2>1, <2>3, <2>5, <1>5 DEF new
  <2>7. SavedInv(pages', Len(inserted') - num_rows', inserted')
    BY <2>1, <2>4, <2>5, <1>5
  <2> QED
    BY <1>1, <1>3, <1>5, <2>5, <2>6, <2>7 DEF IInv
<1> QED
  BY <1>6, <1>7

\* A NULL: onto the page in progress, or, when there is no room for its bit, onto a new one.
LEMMA NullStep ==
    ASSUME IInv, InsertNull
    PROVE  IInv'
<1> DEFINE new == Append(inserted, Null)
           l == Len(inserted)
           base == l - num_rows
<1>1. /\ inserted \in Seq(Row) /\ writer \in Writers /\ Null \in Row /\ num_rows \in 0 .. l
      /\ PageHolds(num_rows, offsets, data, bitmap, base, inserted)
      /\ SavedInv(pages, base, inserted)
  BY DEF IInv, Row
<1>2. l \in Nat /\ num_rows \in Nat /\ base \in Nat /\ base + num_rows = l /\ base <= l
      /\ l - 0 = l /\ l + 1 - 1 = l /\ l + 1 - (num_rows + 1) = base
  BY <1>1, SavedAll
<1>3. new \in Seq(Row) /\ Len(new) = l + 1
  BY <1>1
<1>4. /\ offsets \in Seq(Nat) /\ data \in Value /\ Len(offsets) \in Nat /\ Len(data) \in Nat
      /\ num_rows \div BitsPerByte \in Nat
  BY <1>1, <1>2, BitmapBytes, LenProperties DEF PageHolds, Value
<1>5. inserted' = new /\ ~finalized /\ writer' = writer /\ finalized' = finalized
  BY DEF InsertNull
<1> HIDE DEF new, l, base
<1>6. CASE Need(0, 0) > PageSize
  <2>1. /\ pages' = Append(pages, SavedPage) /\ data' = <<>> /\ offsets' = <<>>
        /\ bitmap' = NextBitmap \ {0} /\ num_rows' = 1
    BY <1>6 DEF InsertNull
  <2>3. num_rows # 0
    <3> SUFFICES ASSUME num_rows = 0 PROVE FALSE
      OBVIOUS
    <3>1. Count(bitmap, 0) = 0
      BY <1>1, CountRows DEF PageHolds
    <3>2. Len(offsets) = 0
      BY <1>1, <3>1 DEF PageHolds
    <3>3. Len(data) = 0
      BY <1>1, <3>2 DEF PageHolds, Ends, Start
    <3>4. Need(0, 0) = 4 + 2 * 0 + 0 + 0 + 0 + 0 + 1
      BY <3>2, <3>3, BitmapBytes DEF Need, OffsetEnd
    <3> QED
      BY <1>6, <3>4, Bounds
  <2>4. SavedInv(pages', l, inserted)
    BY <2>1, <2>3, SavedAll DEF l
  <2>5. SavedInv(pages', l, new)
    BY <2>4, <1>1, <1>2, SavedKept DEF l, new
  <2>6. PageHolds(1, <<>>, <<>>, NextBitmap \ {0}, l, new)
    <3> DEFINE bits == NextBitmap
    <3>1. bits \in SUBSET Nat
      BY SavedAll
    <3> HIDE DEF bits
    <3>2. PageHolds(0, <<>>, <<>>, bits, l, inserted)
      BY <3>1, EmptyPage
    <3>3. 4 + 2 * Len(<<>>) + Len(<<>>) + (0 \div BitsPerByte) + 1 <= PageSize
      <4>1. Len(<<>>) = 0 /\ 0 \div BitsPerByte = 0
        BY BitmapBytes
      <4> QED
        BY <4>1, Bounds
    <3>4. l + 0 = Len(inserted)
      BY <1>2 DEF l
    <3>5. PageHolds(0 + 1, <<>>, <<>>, bits \ {0}, l, Append(inserted, Null))
      BY <3>2, <3>3, <3>4, <1>1, <1>2, AddNull
    <3> QED
      BY <3>5 DEF bits, new
  <2>7. num_rows' \in 0 .. Len(inserted') /\ Len(inserted') - num_rows' = l
    BY <1>2, <1>3, <1>5, <2>1
  <2>8. PageHolds(num_rows', offsets', data', bitmap', Len(inserted') - num_rows', inserted')
    BY <2>1, <2>6, <2>7, <1>5
  <2>9. SavedInv(pages', Len(inserted') - num_rows', inserted')
    BY <2>5, <2>7, <1>5
  <2> QED
    BY <1>1, <1>3, <1>5, <2>7, <2>8, <2>9 DEF IInv
<1>7. CASE ~(Need(0, 0) > PageSize)
  <2>1. /\ pages' = pages /\ data' = data /\ offsets' = offsets
        /\ bitmap' = bitmap \ {num_rows} /\ num_rows' = num_rows + 1
    BY <1>7 DEF InsertNull
  <2>2. 4 + 2 * Len(offsets) + Len(data) + (num_rows \div BitsPerByte) + 1 <= PageSize
    BY <1>4, <1>7, Bounds DEF Need, OffsetEnd
  <2>3. PageHolds(num_rows + 1, offsets, data, bitmap \ {num_rows}, base, Append(inserted, Null))
    BY <1>1, <1>2, <2>2, AddNull DEF l
  <2>4. SavedInv(pages, base, new)
    BY <1>1, <1>2, SavedKept DEF l, new
  <2>5. num_rows' \in 0 .. Len(inserted') /\ Len(inserted') - num_rows' = base
    BY <1>1, <1>2, <1>3, <1>5, <2>1
  <2>6. PageHolds(num_rows', offsets', data', bitmap', Len(inserted') - num_rows', inserted')
    BY <2>1, <2>3, <2>5, <1>5 DEF new
  <2>7. SavedInv(pages', Len(inserted') - num_rows', inserted')
    BY <2>1, <2>4, <2>5, <1>5
  <2> QED
    BY <1>1, <1>3, <1>5, <2>5, <2>6, <2>7 DEF IInv
<1> QED
  BY <1>6, <1>7

\* The invariant holds of every state.
THEOREM Invariant == Spec => []IInv
<1>1. Init => IInv
  BY InitHolds
<1>2. ASSUME IInv, [Next]_vars PROVE IInv'
  <2>1. CASE Insert
    <3>1. PICK size \in Sizes, nul \in BOOLEAN :
             LET value == StringOf(Len(inserted) + 1, size, nul)
             IN  (InsertLong(value) \/ InsertShort(value)) /\ inserted' = Append(inserted, value)
      BY <2>1 DEF Insert
    <3> DEFINE value == StringOf(Len(inserted) + 1, size, nul)
    <3>2. value \in Value
      BY <1>2, StringIs
    <3>3. /\ InsertLong(value) \/ InsertShort(value)
          /\ inserted' = Append(inserted, value)
      BY <3>1
    <3>4. UNCHANGED <<writer, finalized>> /\ ~finalized
      BY <2>1 DEF Insert
    <3> HIDE DEF value
    <3> QED
      BY <1>2, <3>2, <3>3, <3>4, LongStep, ShortStep
  <2>2. CASE InsertNull
    BY <1>2, <2>2, NullStep
  <2>3. CASE Finalize
    <3>1. /\ inserted \in Seq(Row) /\ writer \in Writers
          /\ writer' = writer /\ inserted' = inserted /\ finalized' = TRUE
      BY <1>2, <2>3 DEF IInv, Finalize
    <3>2. CASE num_rows # 0
      <4>1. /\ pages' = Append(pages, SavedPage) /\ num_rows' = 0 /\ data' = <<>> /\ offsets' = <<>>
            /\ bitmap' = NextBitmap
        BY <2>3, <3>2 DEF Finalize
      <4>2. SavedInv(pages', Len(inserted'), inserted') /\ bitmap' \in SUBSET Nat
        BY <1>2, <3>1, <3>2, <4>1, SavedAll
      <4> QED
        BY <3>1, <4>1, <4>2, EmptyAfter
    <3>3. CASE num_rows = 0
      <4>1. UNCHANGED <<pages, num_rows, data, offsets, bitmap>>
        BY <2>3, <3>3 DEF Finalize
      <4> QED
        BY <1>2, <3>1, <3>3, <4>1 DEF IInv
    <3> QED
      BY <3>2, <3>3
  <2>4. CASE Done \/ UNCHANGED vars
    <3>1. UNCHANGED vars
      BY <2>4 DEF Done
    <3> QED
      BY <1>2, <3>1 DEF IInv, vars
  <2> QED
    BY <1>2, <2>1, <2>2, <2>3, <2>4 DEF Next
<1> QED
  BY <1>1, <1>2, PTL DEF Spec

\* Of a saved page: an ordinary one has fewer rows than a marker, any other has no offsets.
LEMMA PagesAre ==
    ASSUME NEW pgs, NEW base \in Nat, NEW ins, SavedInv(pgs, base, ins), NEW p \in 1 .. Len(pgs)
    PROVE  \/ /\ pgs[p] \in OrdinaryPage /\ pgs[p].num_rows \in 1 .. First
              /\ pgs[p].num_rows < Following
           \/ pgs[p] \in LongPage /\ pgs[p].num_rows \in 1 .. First
<1>1. PICK first : Layout(first, pgs, base, ins)
  BY DEF SavedInv
<1>2. HoldsPage(first, pgs, p, ins)
  BY <1>1 DEF Layout
<1>3. First \in Nat /\ Following \in 1 .. First /\ First \in 1 .. First
  <2>1. BitsPerByte * PageSize \in Nat /\ BitsPerByte * PageSize >= PageSize
    <3>1. 1 * PageSize <= BitsPerByte * PageSize
      BY Bounds, ProductsAscend
    <3> QED
      BY <3>1, Bounds
  <2> DEFINE m == BitsPerByte * PageSize
  <2> HIDE DEF m
  <2>2. First = m - 1 /\ Following = m - 1 - 1
    BY DEF First, Following, m
  <2> QED
    BY <2>1, <2>2, Bounds DEF m
<1>4. CASE Ordinary(pgs[p], first[p], ins)
  <2> DEFINE n == pgs[p].num_rows
  <2>1. pgs[p] \in OrdinaryPage /\ n # 0 /\ PageHolds(n, pgs[p].offsets, pgs[p].chars, pgs[p].bits, first[p], ins)
    BY <1>4 DEF Ordinary
  <2>2. n < Following /\ n <= First
    BY <2>1, RowsBelowMarkers
  <2>3. n \in Nat
    BY <2>1 DEF PageHolds
  <2> HIDE DEF n
  <2>4. n \in 1 .. First
    BY <2>1, <2>2, <2>3, <1>3
  <2> QED
    BY <2>1, <2>2, <2>4 DEF n
<1>5. CASE pgs[p] \in LongPage /\ pgs[p].num_rows \in {First, Following}
  BY <1>3, <1>5
<1> QED
  BY <1>2, <1>4, <1>5 DEF HoldsPage

\* The counters and offsets of the page in progress, and the row counts of saved ones.
LEMMA TypeIs == IInv => TypeOK
<1> SUFFICES ASSUME IInv PROVE TypeOK
  OBVIOUS
<1> DEFINE base == Len(inserted) - num_rows
<1>1. num_rows \in Nat /\ base \in Nat
  BY SavedAll DEF IInv
<1>2. PageHolds(num_rows, offsets, data, bitmap, base, inserted) /\ SavedInv(pages, base, inserted)
  BY DEF IInv
<1> HIDE DEF base
<1>3. /\ offsets \in Seq(Nat) /\ data \in Value /\ Len(offsets) \in Nat /\ Len(data) \in Nat
      /\ BitmapSize(num_rows) \in Nat
      /\ 4 + 2 * Len(offsets) + Len(data) + BitmapSize(num_rows) <= PageSize
      /\ Len(offsets) = Count(bitmap, num_rows)
      /\ \A k \in 1 .. Len(offsets) : Start(offsets, k - 1) <= offsets[k] /\ offsets[k] <= Len(data)
  BY <1>1, <1>2, BitmapBytes, LenProperties DEF PageHolds, Value, Ends
<1>4. OffsetEnd + Len(data) + BitmapSize(num_rows) <= PageSize
  BY <1>3 DEF OffsetEnd
<1>5. \A p \in DOMAIN pages : pages[p].num_rows \in 1 .. First
  <2> TAKE p \in DOMAIN pages
  <2>1. p \in 1 .. Len(pages)
    <3>1. pages \in Seq(OrdinaryPage \union LongPage)
      BY <1>2 DEF SavedInv
    <3> QED
      BY <3>1
  <2> QED
    BY <1>1, <1>2, <2>1, PagesAre
<1>6. \A k \in DOMAIN offsets : offsets[k] \in 0 .. Len(data)
  <2> TAKE k \in DOMAIN offsets
  <2>1. k \in 1 .. Len(offsets)
    BY <1>3
  <2>2. offsets[k] \in Nat
    BY <2>1, <1>3
  <2> QED
    BY <2>1, <2>2, <1>3
<1>7. \A k \in 2 .. Len(offsets) : offsets[k - 1] <= offsets[k]
  <2> TAKE k \in 2 .. Len(offsets)
  <2>1. k \in 1 .. Len(offsets) /\ k - 1 # 0
    BY <1>3
  <2> QED
    BY <2>1, <1>3 DEF Start
<1>8. Len(offsets) <= num_rows
  BY <1>1, <1>3, CountRows
<1> QED
  BY <1>4, <1>5, <1>6, <1>7, <1>8 DEF TypeOK

\* A page in progress never overruns its bitmap, and its offsets ascend.
THEOREM TypeCorrect == Spec => []TypeOK
BY Invariant, TypeIs, PTL

\* So the markers are of no ordinary page.
LEMMA MarkersAre == IInv => MarkersReserved
<1> SUFFICES ASSUME IInv, NEW p \in DOMAIN pages, "offsets" \in DOMAIN pages[p]
             PROVE  pages[p].num_rows < Following
  BY DEF MarkersReserved
<1> DEFINE base == Len(inserted) - num_rows
<1>1. base \in Nat
  BY SavedAll DEF IInv
<1>2. SavedInv(pages, base, inserted)
  BY DEF IInv
<1> HIDE DEF base
<1>3. p \in 1 .. Len(pages)
  <2>1. pages \in Seq(OrdinaryPage \union LongPage)
    BY <1>2 DEF SavedInv
  <2> QED
    BY <2>1
<1>4. pages[p] \in LongPage => FALSE
  BY DEF LongPage
<1> QED
  BY <1>1, <1>2, <1>3, <1>4, PagesAre

\* No ordinary page is taken for a page of a long string.
THEOREM MarkersAreReserved == Spec => []MarkersReserved
BY Invariant, MarkersAre, PTL

-----------------------------------------------------------------------------
(* copy_scan and from_columnar. *)

\* They read all rows.
LEMMA CopyReads == IInv => CopyRoundTrip
<1> SUFFICES ASSUME IInv, finalized PROVE CopyScan(Len(inserted)) = inserted
  BY DEF CopyRoundTrip
<1> DEFINE n == Len(pages)
           l == Len(inserted)
           Def(f) == [p \in 0 .. n |-> IF p = 0 THEN <<>> ELSE WithPageRows(f[p - 1], pages[p])]
           read == CHOOSE f : f = Def(f)
<1>1. num_rows = 0 /\ inserted \in Seq(Row) /\ l \in Nat /\ SavedInv(pages, l, inserted)
  BY SavedAll DEF IInv
<1>2. n \in Nat
  BY <1>1, LenProperties DEF SavedInv
<1>3. PICK w : Reads(w, pages, l, inserted)
  BY <1>1 DEF SavedInv
<1>4. /\ w \in [0 .. n -> Seq(Row)] /\ w[0] = <<>> /\ w[n] = inserted
      /\ \A p \in 1 .. n : w[p] = WithPageRows(w[p - 1], pages[p])
  <2>1. SubSeq(inserted, 1, l) = inserted
    BY <1>1
  <2> QED
    BY <2>1, <1>3 DEF Reads
<1> HIDE DEF n
<1>5. w = Def(w)
  <2>1. w = [p \in 0 .. n |-> w[p]]
    BY <1>4
  <2>2. \A p \in 0 .. n : w[p] = IF p = 0 THEN <<>> ELSE WithPageRows(w[p - 1], pages[p])
    <3> TAKE p \in 0 .. n
    <3>1. p = 0 \/ p \in 1 .. n
      BY <1>2
    <3> QED
      BY <3>1, <1>4
  <2> QED
    BY <2>1, <2>2
<1>6. read = Def(read)
  <2> HIDE DEF Def
  <2>1. \E f : f = Def(f)
    BY <1>5
  <2> QED
    BY <2>1
<1>7. CopyScan(l) = [r \in 1 .. l |->
          IF r \notin DOMAIN read[n] THEN Null
          ELSE IF \E k \in DOMAIN read[n] : k > l /\ read[n][k] # Null THEN Exception ELSE read[n][r]]
  BY DEF CopyScan, n
<1> HIDE DEF read
<1>8. \A p \in 0 .. n : read[p] = IF p = 0 THEN <<>> ELSE WithPageRows(read[p - 1], pages[p])
  BY <1>6
<1>9. \A p \in 0 .. n : read[p] = w[p]
  <2> DEFINE Bad == {p \in 0 .. n : read[p] # w[p]}
  <2>1. SUFFICES ASSUME Bad # {} PROVE FALSE
    OBVIOUS
  <2>2. Bad \in SUBSET Nat
    OBVIOUS
  <2> HIDE DEF Bad
  <2>3. PICK p \in Bad : \A j \in Bad : p <= j
    BY <2>1, <2>2, Least
  <2>4. p \in 0 .. n /\ read[p] # w[p] /\ \A j \in 0 .. n : j < p => read[j] = w[j]
    BY <2>2, <2>3 DEF Bad
  <2>5. CASE p = 0
    BY <2>4, <2>5, <1>4, <1>8
  <2>6. CASE p # 0
    <3>1. p \in 1 .. n /\ p - 1 \in 0 .. n /\ p - 1 < p
      BY <2>4, <2>6, <1>2
    <3>2. read[p - 1] = w[p - 1]
      BY <3>1, <2>4
    <3> QED
      BY <3>1, <3>2, <2>4, <2>6, <1>4, <1>8
  <2> QED
    BY <2>5, <2>6
<1>10. read[n] = inserted
  <2>1. n \in 0 .. n
    BY <1>2
  <2> QED
    BY <2>1, <1>4, <1>9
<1>11. DOMAIN inserted = 1 .. l /\ inserted = [r \in 1 .. l |-> inserted[r]]
  BY <1>1, LenProperties
<1>12. ~ \E k \in 1 .. l : k > l
  BY <1>1
<1>13. CopyScan(l) = [r \in 1 .. l |-> inserted[r]]
  BY <1>7, <1>10, <1>11, <1>12
<1> QED
  BY <1>11, <1>13

\* Whoever wrote them, copy_scan and from_columnar return the rows inserted.
THEOREM CopiesReadBack == Spec => []CopyRoundTrip
BY Invariant, CopyReads, PTL

-----------------------------------------------------------------------------
(* The scan. *)

\* What the scan returns for a row.
Cell == StringIndex \union {Null}

Shows(v, row) ==
    IF row = Null THEN v = Null ELSE v \in StringIndex /\ Materialize(v) = WithoutNul(row)

\* Where the pages are few enough, an index has the number of its page.
LEMMA IndexIs ==
    ASSUME NEW p \in Nat \ {0}, p <= PageIds, NEW o \in Nat, NEW l \in Nat
    PROVE  /\ Index(p, o, l) \in StringIndex
           /\ Index(p, o, l).page_id + 1 = p
           /\ Index(p, o, l).offset = o /\ Index(p, o, l).length = l
<1> DEFINE a == p - 1
           d == PageIds
           w == a \div d
           r == a % d
<1>1. a \in Nat /\ d \in Nat \ {0} /\ a < d /\ a + 1 = p
  BY ConstantsAssumption
<1>2. Index(p, o, l) = [page_id |-> r, offset |-> o, length |-> l]
  BY DEF Index
<1> HIDE DEF a, d
<1>3. w \in Nat /\ r \in 0 .. (d - 1) /\ a = w * d + r
  BY <1>1, DivMod
<1> HIDE DEF w, r
<1>4. w = 0
  <2> SUFFICES ASSUME w # 0 PROVE FALSE
    OBVIOUS
  <2>1. 1 <= w /\ 1 \in Nat
    BY <1>3
  <2>2. 1 * d <= w * d
    BY <2>1, <1>1, <1>3, ProductsAscend
  <2>3. 1 * d = d /\ w * d \in Nat
    BY <1>1, <1>3
  <2> QED
    BY <2>2, <2>3, <1>1, <1>3
<1>5. r = a /\ r \in Nat
  <2>1. 0 * d = 0
    BY <1>1
  <2> QED
    BY <2>1, <1>1, <1>3, <1>4
<1> QED
  BY <1>1, <1>2, <1>5 DEF StringIndex

\* The index of string number c of a page.
IndexOf(p, page, c) == Index(p, CharBegin(page) + Start(page.offsets, c), page.offsets[c + 1] - Start(page.offsets, c))

\* It is followed to its characters.
LEMMA IndexFollowed ==
    ASSUME NEW p \in 1 .. Len(pages), Len(pages) \in Nat, p <= PageIds, NEW base, NEW ins,
           Ordinary(pages[p], base, ins), NEW c \in Nat, c < Len(pages[p].offsets)
    PROVE  /\ IndexOf(p, pages[p], c) \in StringIndex
           /\ ~OverPage(IndexOf(p, pages[p], c))
           /\ Materialize(IndexOf(p, pages[p], c)) = WithoutNul(StringAt(pages[p].offsets, pages[p].chars, c))
<1> DEFINE page == pages[p]
           offs == page.offsets
           chars == page.chars
           n == page.num_rows
           a == Start(offs, c)
           b == offs[c + 1]
           i == IndexOf(p, page, c)
<1>1. /\ PageHolds(n, offs, chars, page.bits, base, ins)
      /\ p \in Nat \ {0}
  BY DEF Ordinary
<1>2. /\ n \in Nat /\ Len(offs) \in Nat /\ Len(chars) \in Nat /\ offs \in Seq(Nat)
      /\ BitmapSize(n) \in Nat /\ 4 + 2 * Len(offs) + Len(chars) + BitmapSize(n) <= PageSize
      /\ n # First
  <2>1. n \in Nat /\ offs \in Seq(Nat) /\ chars \in Seq(Char)
        /\ 4 + 2 * Len(offs) + Len(chars) + BitmapSize(n) <= PageSize
    BY <1>1 DEF PageHolds, Value
  <2>2. BitmapSize(n) \in Nat
    BY <2>1, BitmapBytes
  <2>3. n < Following /\ Following < First /\ Following \in Nat /\ First \in Nat
    BY <1>1, RowsBelowMarkers
  <2> HIDE DEF n, offs, chars
  <2>4. Len(offs) \in Nat /\ Len(chars) \in Nat
    BY <2>1, LenProperties
  <2> QED
    BY <2>1, <2>2, <2>3, <2>4
<1>3. /\ \A k \in 1 .. Len(offs) : Start(offs, k - 1) <= offs[k] /\ offs[k] <= Len(chars)
  BY <1>1 DEF PageHolds, Ends
<1>4. a \in Nat /\ b \in Nat /\ a <= b /\ b <= Len(chars)
  <2>1. c + 1 \in 1 .. Len(offs) /\ c + 1 - 1 = c /\ (c # 0 => c \in 1 .. Len(offs))
    BY <1>2
  <2>2. b \in Nat /\ (c # 0 => offs[c] \in Nat)
    <3>1. offs \in Seq(Nat)
      BY <1>2
    <3> HIDE DEF offs
    <3> QED
      BY <2>1, <3>1, ElementOfSeq
  <2>3. a \in Nat
    BY <2>2 DEF Start
  <2> QED
    BY <2>1, <2>2, <2>3, <1>3
<1> DEFINE g == CharBegin(page)
<1>5. g = 4 + 2 * Len(offs) /\ g \in Nat
  BY <1>2 DEF CharBegin
<1>6. i = Index(p, g + a, b - a)
  BY DEF IndexOf
<1> HIDE DEF a, b, i, g, offs, chars, n, page
<1>7. g + a \in Nat /\ b - a \in Nat
  BY <1>4, <1>5
<1>8. i \in StringIndex /\ i.page_id + 1 = p /\ i.offset = g + a /\ i.length = b - a
  BY <1>1, <1>6, <1>7, IndexIs
<1>9. ~OverPage(i)
  <2>1. i.offset + i.length = g + b
    BY <1>4, <1>5, <1>8
  <2>2. g + b <= PageSize
    BY <1>2, <1>4, <1>5, Bounds
  <2>3. ~ (g + b > PageSize)
    BY <2>2, <1>4, <1>5, Bounds
  <2> QED
    BY <2>1, <2>3 DEF OverPage
<1>10. CharsAt(page, i.offset, i.length) = SubSeq(chars, a + 1, b)
  <2>1. CharsAt(page, i.offset, i.length) = SubSeq(chars, i.offset - g + 1, i.offset - g + i.length)
    BY DEF CharsAt, chars, g
  <2>2. i.offset - g = a /\ i.offset - g + i.length = b
    BY <1>4, <1>5, <1>8
  <2> QED
    BY <2>1, <2>2
<1>11. Materialize(i) = WithoutNul(CharsAt(page, i.offset, i.length))
  <2>1. pages[i.page_id + 1] = page /\ page.num_rows # First
    BY <1>2, <1>8 DEF page, n
  <2> QED
    BY <2>1, <1>9 DEF Materialize
<1>12. StringAt(offs, chars, c) = SubSeq(chars, a + 1, b)
  BY DEF StringAt, a, b
<1> QED
  BY <1>8, <1>9, <1>10, <1>11, <1>12 DEF i, offs, chars, page

\* The scan of an ordinary page drops none of its rows.
LEMMA OrdinaryScanned ==
    ASSUME NEW p \in 1 .. Len(pages), Len(pages) \in Nat, p <= PageIds, NEW base \in Nat, NEW ins \in Seq(Row),
           Ordinary(pages[p], base, ins), base + pages[p].num_rows <= Len(ins)
    PROVE  /\ CursorOrdinary(p) \in Seq(Cell) /\ Len(CursorOrdinary(p)) = pages[p].num_rows
           /\ \A k \in 1 .. pages[p].num_rows : Shows(CursorOrdinary(p)[k], ins[base + k])
<1> DEFINE page == pages[p]
           n == page.num_rows
           bits == page.bits
           before(m) == Cardinality({b \in page.bits : b < m})
           rows == [k \in 1 .. n |-> IF k - 1 \in bits THEN IndexOf(p, page, before(k - 1)) ELSE Null]
<1>1. /\ n \in Nat /\ bits \in SUBSET Nat
      /\ Len(page.offsets) = Count(bits, n)
      /\ \A m \in 0 .. (n - 1) : HoldsRow(page.offsets, page.chars, bits, m, ins[base + m + 1])
  BY DEF Ordinary, PageHolds
<1>2. \A m \in Nat : before(m) = Count(bits, m)
  <2> TAKE m \in Nat
  <2>1. {b \in page.bits : b < m} = Valid(bits, m)
    BY <1>1 DEF Valid
  <2> QED
    BY <2>1 DEF Count
<1>3. (\A k \in 1 .. Len(rows) : ~(rows[k] # Null /\ OverPage(rows[k]))) => CursorOrdinary(p) = rows
  BY DEF CursorOrdinary, SelectInSeq, IndexOf, Start
<1>4. \A k \in 1 .. n : rows[k] = IF k - 1 \in bits THEN IndexOf(p, page, before(k - 1)) ELSE Null
  OBVIOUS
<1>5. rows = [k \in 1 .. n |-> rows[k]]
  OBVIOUS
<1> HIDE DEF rows, before, bits, n
<1>6. ASSUME NEW k \in 1 .. n
      PROVE  rows[k] \in Cell /\ ~(rows[k] # Null /\ OverPage(rows[k])) /\ Shows(rows[k], ins[base + k])
  <2> DEFINE m == k - 1
  <2>1. m \in 0 .. (n - 1) /\ m \in Nat /\ base + m + 1 = base + k
    BY <1>1
  <2>2. rows[k] = IF m \in bits THEN IndexOf(p, page, before(m)) ELSE Null
    BY <1>4
  <2> HIDE DEF m
  <2>3. HoldsRow(page.offsets, page.chars, bits, m, ins[base + k])
    BY <2>1, <1>1
  <2>4. CASE m \in bits
    <3> DEFINE c == Count(bits, m)
               i == IndexOf(p, page, c)
    <3>1. c \in Nat /\ c < Len(page.offsets)
      BY <2>1, <2>4, <1>1, CountRows
    <3>2. rows[k] = i
      BY <2>1, <2>2, <2>4, <1>2
    <3>3. ins[base + k] # Null /\ ins[base + k] = StringAt(page.offsets, page.chars, c)
      BY <2>3, <2>4 DEF HoldsRow
    <3> HIDE DEF c
    <3>4. /\ i \in StringIndex /\ ~OverPage(i)
          /\ Materialize(i) = WithoutNul(StringAt(page.offsets, page.chars, c))
      BY <3>1, IndexFollowed
    <3> QED
      BY <3>2, <3>3, <3>4 DEF Shows, Cell
  <2>5. CASE m \notin bits
    BY <2>2, <2>3, <2>5 DEF HoldsRow, Shows, Cell
  <2> QED
    BY <2>4, <2>5
<1>7. rows \in Seq(Cell) /\ Len(rows) = n
  <2>1. rows \in [1 .. n -> Cell]
    BY <1>5, <1>6
  <2> QED
    BY <2>1, <1>1, SeqDef
<1>8. CursorOrdinary(p) = rows
  BY <1>3, <1>6, <1>7
<1> QED
  BY <1>6, <1>7, <1>8 DEF n

\* The pages of a long string are its chunks, up to the next page that begins rows.
LEMMA LongFollowed ==
    ASSUME Len(pages) \in Nat, NEW p \in 1 .. Len(pages), NEW value, HoldsLong(pages, p, value)
    PROVE  LongString(p) = value
<1> DEFINE n == Len(pages)
           k == Chunks(value)
           more == {q \in p .. Len(pages) : \A o \in (p + 1) .. q : pages[o].num_rows = Following}
           seqs == [c \in 1 .. k |-> pages[p + c - 1].chars]
           first == [c \in 1 .. (k + 1) |-> End(value, c - 1)]
<1>1. /\ value \in Value /\ IsLong(value) /\ p + k - 1 <= n
      /\ \A c \in 1 .. k : pages[p + c - 1] = LongPages(value)[c]
      /\ p + k <= n => pages[p + k].num_rows # Following
  BY DEF HoldsLong
<1>2. /\ k \in Nat \ {0} /\ End(value, 0) = 0 /\ End(value, k) = Len(value)
      /\ \A c \in 0 .. k : End(value, c) \in Nat /\ End(value, c) <= Len(value)
      /\ \A c \in 1 .. k : End(value, c - 1) <= End(value, c)
      /\ \A c \in 1 .. k : LongPages(value)[c] = [num_rows |-> IF c = 1 THEN First ELSE Following,
                                      chars |-> SubSeq(value, End(value, c - 1) + 1, End(value, c))]
  BY <1>1, ChunksAre
<1>3. ASSUME NEW c \in 1 .. k
      PROVE  /\ c # 1 => pages[p + c - 1].num_rows = Following
             /\ pages[p + c - 1].chars = SubSeq(value, End(value, c - 1) + 1, End(value, c))
  <2> DEFINE m == IF c = 1 THEN First ELSE Following
             s == SubSeq(value, End(value, c - 1) + 1, End(value, c))
  <2>1. pages[p + c - 1] = [num_rows |-> m, chars |-> s]
    BY <1>1, <1>2
  <2> HIDE DEF m, s
  <2>2. pages[p + c - 1].num_rows = m /\ pages[p + c - 1].chars = s
    BY <2>1
  <2> QED
    BY <2>2 DEF m, s
<1>4. n \in Nat /\ p \in Nat /\ p >= 1
  OBVIOUS
<1>5. LongString(p) = FlattenSeq([c \in 1 .. Cardinality(more) |-> pages[p + c - 1].chars])
  BY DEF LongString
<1>6. more = {q \in p .. n : \A o \in (p + 1) .. q : pages[o].num_rows = Following}
  OBVIOUS
<1> HIDE DEF more, n, k
<1>7. more = p .. (p + k - 1)
  <2>1. ASSUME NEW q \in p .. (p + k - 1) PROVE q \in more
    <3>1. q \in p .. n
      BY <1>1, <1>2, <1>4
    <3>2. ASSUME NEW o \in (p + 1) .. q PROVE pages[o].num_rows = Following
      <4> DEFINE c == o - p + 1
      <4>1. c \in 1 .. k /\ c # 1 /\ p + c - 1 = o
        BY <1>2, <1>4
      <4> HIDE DEF c
      <4> QED
        BY <4>1, <1>3
    <3> QED
      BY <3>1, <3>2, <1>6
  <2>2. ASSUME NEW q \in more PROVE q \in p .. (p + k - 1)
    <3>1. q \in p .. n /\ \A o \in (p + 1) .. q : pages[o].num_rows = Following
      BY <1>6
    <3>2. ~(q >= p + k)
      <4> SUFFICES ASSUME q >= p + k PROVE FALSE
        OBVIOUS
      <4>1. p + k \in (p + 1) .. q /\ p + k <= n
        BY <3>1, <1>2, <1>4
      <4> QED
        BY <4>1, <3>1, <1>1
    <3> QED
      BY <3>1, <3>2, <1>2, <1>4
  <2> QED
    BY <2>1, <2>2
<1>8. Cardinality(more) = k
  <2> DEFINE b == p + k - 1
  <2>1. b \in Int /\ p \in Int /\ ~(p > b) /\ b - p + 1 = k
    BY <1>2, <1>4
  <2>2. more = p .. b
    BY <1>7
  <2> HIDE DEF b
  <2>3. Cardinality(p .. b) = IF p > b THEN 0 ELSE b - p + 1
    BY <2>1, FS_Interval
  <2> QED
    BY <2>1, <2>2, <2>3
<1>9. LongString(p) = FlattenSeq(seqs)
  BY <1>5, <1>8
<1>10. Len(seqs) = k /\ \A c \in 1 .. k : seqs[c] = SubSeq(value, End(value, c - 1) + 1, End(value, c))
  <2>1. \A c \in 1 .. k : seqs[c] = SubSeq(value, End(value, c - 1) + 1, End(value, c))
    BY <1>3
  <2>2. Len(seqs) = k
    BY <1>2
  <2> QED
    BY <2>1, <2>2
<1>11. \A c \in 1 .. (k + 1) : first[c] = End(value, c - 1)
  OBVIOUS
<1>12. first \in [1 .. k + 1 -> Nat]
  <2>1. ASSUME NEW c \in 1 .. (k + 1) PROVE End(value, c - 1) \in Nat
    <3>1. c - 1 \in 0 .. k
      BY <1>2
    <3> QED
      BY <3>1, <1>2
  <2> QED
    BY <2>1
<1> HIDE DEF seqs, first
<1>13. first[1] = 0 /\ first[k + 1] = Len(value)
  <2> DEFINE e == k + 1
  <2>1. 1 \in 1 .. (k + 1) /\ e \in 1 .. (k + 1) /\ 1 - 1 = 0 /\ e - 1 = k
    BY <1>2
  <2> HIDE DEF e
  <2>2. first[e] = Len(value)
    <3>1. first[e] = End(value, e - 1)
      BY <2>1, <1>11
    <3> QED
      BY <3>1, <2>1, <1>2
  <2>3. first[1] = 0
    <3>1. \A c \in 1 .. (k + 1) : c = 1 => first[c] = 0
      <4> TAKE c \in 1 .. (k + 1)
      <4> HAVE c = 1
      <4>1. first[c] = End(value, c - 1)
        BY <1>11
      <4>2. c - 1 = 0
        OBVIOUS
      <4> HIDE DEF k
      <4> QED
        BY <4>1, <4>2, <1>2
    <3> QED
      BY <3>1, <2>1
  <2> QED
    BY <2>2, <2>3 DEF e
<1>14. ASSUME NEW c \in 1 .. k
       PROVE  /\ seqs[c] \in Seq(Char) /\ first[c + 1] = first[c] + Len(seqs[c])
              /\ first[c + 1] <= Len(value)
              /\ \A j \in 1 .. Len(seqs[c]) : seqs[c][j] = value[first[c] + j]
  <2> DEFINE a == End(value, c - 1)
             b == End(value, c)
  <2>1. c \in 1 .. (k + 1) /\ c + 1 \in 1 .. (k + 1) /\ c + 1 - 1 = c /\ c - 1 \in 0 .. k /\ c \in 0 .. k
    BY <1>2
  <2>2. first[c] = a /\ first[c + 1] = b
    <3>1. first[c + 1] = End(value, c + 1 - 1)
      BY <2>1, <1>11
    <3> QED
      BY <3>1, <2>1, <1>11
  <2>3. a \in Nat /\ b \in Nat /\ a <= b /\ b <= Len(value)
    BY <2>1, <1>2
  <2>4. seqs[c] = SubSeq(value, a + 1, b)
    BY <1>10
  <2> HIDE DEF a, b
  <2>5. value \in Seq(Char)
    BY <1>1 DEF Value
  <2>6. /\ SubSeq(value, a + 1, b) \in Seq(Char) /\ Len(SubSeq(value, a + 1, b)) = b - a
        /\ \A j \in 1 .. (b - a) : SubSeq(value, a + 1, b)[j] = value[a + j]
    BY <2>3, <2>5, PartIs
  <2>7. b = a + (b - a)
    BY <2>3
  <2> QED
    BY <2>2, <2>3, <2>4, <2>6, <2>7
<1>15. Follow(Char, seqs, k, first, value)
  BY <1>2, <1>12, <1>13, <1>14 DEF Follow
<1>16. FlattenSeq(seqs) = value
  <2>1. value \in Seq(Char)
    BY <1>1 DEF Value
  <2> QED
    BY <2>1, <1>10, <1>15, FlattenedIsAll
<1> QED
  BY <1>9, <1>16

\* The scan of a page returns its rows.
LEMMA PageScanned ==
    ASSUME NEW first, NEW ins \in Seq(Row), Layout(first, pages, Len(ins), ins),
           Len(pages) \in Nat, Len(pages) <= PageIds, NEW p \in 1 .. Len(pages)
    PROVE  /\ CursorPage(p) \in Seq(Cell) /\ first[p + 1] = first[p] + Len(CursorPage(p))
           /\ first[p] \in Nat /\ first[p + 1] \in Nat /\ first[p + 1] <= Len(ins)
           /\ \A k \in 1 .. Len(CursorPage(p)) : Shows(CursorPage(p)[k], ins[first[p] + k])
<1>1. /\ HoldsPage(first, pages, p, ins)
      /\ first[p] \in Nat /\ first[p + 1] \in Nat /\ first[p + 1] <= Len(ins)
  BY DEF Layout
<1>2. First # Following /\ p <= PageIds /\ p \in Nat \ {0}
  BY Bounds, ConstantsAssumption DEF First, Following
<1>3. CASE Ordinary(pages[p], first[p], ins) /\ first[p + 1] = first[p] + pages[p].num_rows
  <2>1. pages[p].num_rows # First /\ pages[p].num_rows # Following
    <3>1. PageHolds(pages[p].num_rows, pages[p].offsets, pages[p].chars, pages[p].bits, first[p], ins)
      BY <1>3 DEF Ordinary
    <3>2. /\ pages[p].num_rows < Following /\ Following < First
          /\ Following \in Nat /\ First \in Nat /\ pages[p].num_rows \in Nat
      BY <3>1, RowsBelowMarkers DEF PageHolds
    <3> QED
      BY <3>2
  <2>2. CursorPage(p) = CursorOrdinary(p)
    BY <2>1 DEF CursorPage
  <2>3. /\ CursorOrdinary(p) \in Seq(Cell) /\ Len(CursorOrdinary(p)) = pages[p].num_rows
        /\ \A k \in 1 .. pages[p].num_rows : Shows(CursorOrdinary(p)[k], ins[first[p] + k])
    <3>1. first[p] + pages[p].num_rows <= Len(ins)
      BY <1>1, <1>3
    <3> QED
      BY <3>1, <1>1, <1>2, <1>3, OrdinaryScanned
  <2> QED
    BY <1>1, <1>3, <2>2, <2>3
<1>4. CASE pages[p] \in LongPage /\ pages[p].num_rows = First /\ first[p + 1] = first[p] + 1
           /\ HoldsLong(pages, p, ins[first[p] + 1])
  <2> DEFINE v == Index(p, 4, 0)
             value == ins[first[p] + 1]
  <2>1. CursorPage(p) = <<v>>
    BY <1>2, <1>4 DEF CursorPage
  <2>2. v \in StringIndex /\ v.page_id + 1 = p
    BY <1>2, IndexIs
  <2>3. LongString(p) = value
    BY <1>4, LongFollowed
  <2> HIDE DEF v
  <2>4. Materialize(v) = WithoutNul(value)
    BY <2>2, <2>3, <1>4 DEF Materialize
  <2>5. value # Null
    BY <1>4, Bounds DEF HoldsLong
  <2> HIDE DEF value
  <2>6. v \in Cell /\ Shows(v, value)
    BY <2>2, <2>4, <2>5 DEF Shows, Cell
  <2>7. <<v>> \in Seq(Cell) /\ Len(<<v>>) = 1 /\ <<v>>[1] = v
    BY <2>6
  <2>8. \A k \in 1 .. Len(<<v>>) : k = 1
    BY <2>7
  <2> QED
    BY <1>1, <1>4, <2>1, <2>6, <2>7, <2>8 DEF value
<1>5. CASE pages[p] \in LongPage /\ pages[p].num_rows = Following /\ first[p + 1] = first[p]
  <2>1. CursorPage(p) = <<>>
    BY <1>2, <1>5 DEF CursorPage
  <2>2. <<>> \in Seq(Cell) /\ Len(<<>>) = 0
    OBVIOUS
  <2> QED
    BY <1>1, <1>5, <2>1, <2>2
<1> QED
  BY <1>1, <1>3, <1>4, <1>5 DEF HoldsPage

\* The scan returns all rows.
LEMMA AllScanned ==
    ASSUME NEW first, NEW ins \in Seq(Row), Layout(first, pages, Len(ins), ins),
           pages \in Seq(OrdinaryPage \union LongPage), Len(pages) <= PageIds
    PROVE  /\ Len(CursorRows) = Len(ins)
           /\ \A r \in 1 .. Len(ins) : Shows(CursorRows[r], ins[r])
<1> DEFINE n == Len(pages)
           l == Len(ins)
           seqs == [p \in DOMAIN pages |-> CursorPage(p)]
<1>1. /\ n \in Nat /\ l \in Nat /\ DOMAIN pages = 1 .. n
      /\ first \in [1 .. n + 1 -> Nat] /\ first[1] = 0 /\ first[n + 1] = l
  BY LenProperties DEF Layout
<1>2. ASSUME NEW p \in 1 .. n
      PROVE  /\ CursorPage(p) \in Seq(Cell) /\ first[p + 1] = first[p] + Len(CursorPage(p))
             /\ first[p] \in Nat /\ first[p + 1] \in Nat /\ first[p + 1] <= l
             /\ \A k \in 1 .. Len(CursorPage(p)) : Shows(CursorPage(p)[k], ins[first[p] + k])
  <2>1. Len(pages) \in Nat
    BY <1>1
  <2> QED
    BY <2>1, PageScanned
<1>3. CursorRows = FlattenSeq(seqs)
  BY DEF CursorRows
<1>4. Len(seqs) = n /\ \A p \in 1 .. n : seqs[p] = CursorPage(p)
  BY <1>1
<1> HIDE DEF n, l, seqs
<1>5. CASE n = 0
  <2>1. l = 0
    BY <1>1, <1>5
  <2>2. FlattenSeq(seqs) = seqs
    BY <1>4, <1>5 DEF FlattenSeq
  <2> QED
    BY <2>1, <2>2, <1>3, <1>4, <1>5 DEF l
<1>6. CASE n # 0
  <2>1. PICK begin, all : all \in Seq(Cell) /\ Follow(Cell, seqs, n, begin, all) /\ Covers(seqs, n, begin, all)
    <3>1. n \in Nat \ {0} /\ \A p \in 1 .. n : seqs[p] \in Seq(Cell)
      BY <1>1, <1>2, <1>4, <1>6
    <3> QED
      BY <3>1, FollowExists
  <2>2. /\ begin \in [1 .. n + 1 -> Nat] /\ begin[1] = 0 /\ begin[n + 1] = Len(all)
        /\ \A p \in 1 .. n :
               /\ begin[p + 1] = begin[p] + Len(seqs[p])
               /\ \A k \in 1 .. Len(seqs[p]) : seqs[p][k] = all[begin[p] + k]
    BY <2>1 DEF Follow
  <2>3. \A p \in 1 .. (n + 1) : begin[p] = first[p]
    <3> DEFINE Bad == {p \in 1 .. (n + 1) : begin[p] # first[p]}
    <3>1. SUFFICES ASSUME Bad # {} PROVE FALSE
      OBVIOUS
    <3>2. Bad \in SUBSET Nat
      OBVIOUS
    <3> HIDE DEF Bad
    <3>3. PICK p \in Bad : \A j \in Bad : p <= j
      BY <3>1, <3>2, Least
    <3>4. p \in 1 .. (n + 1) /\ begin[p] # first[p] /\ \A j \in 1 .. (n + 1) : j < p => begin[j] = first[j]
      BY <3>2, <3>3 DEF Bad
    <3>5. CASE p = 1
      BY <3>4, <3>5, <1>1, <2>2
    <3>6. CASE p # 1
      <4> DEFINE q == p - 1
      <4>1. q \in 1 .. n /\ q \in 1 .. (n + 1) /\ q < p /\ q + 1 = p
        BY <3>4, <3>6, <1>1
      <4> HIDE DEF q
      <4>2. begin[q] = first[q]
        BY <4>1, <3>4
      <4>3. begin[q + 1] = begin[q] + Len(seqs[q])
        BY <4>1, <2>2
      <4>4. first[q + 1] = first[q] + Len(seqs[q])
        BY <4>1, <1>2, <1>4
      <4> QED
        BY <4>1, <4>2, <4>3, <4>4, <3>4
    <3> QED
      BY <3>5, <3>6
  <2>4. FlattenSeq(seqs) = all
    BY <2>1, <1>4, FlattenedIsAll
  <2>5. Len(all) = l
    <3>1. n + 1 \in 1 .. (n + 1)
      BY <1>1
    <3> QED
      BY <3>1, <2>2, <2>3, <1>1
  <2>6. ASSUME NEW r \in 1 .. l PROVE Shows(all[r], ins[r])
    <3>1. PICK p \in 1 .. n : \E k \in 1 .. Len(seqs[p]) : r = begin[p] + k
      BY <2>1, <2>5 DEF Covers
    <3>2. PICK k \in 1 .. Len(seqs[p]) : r = begin[p] + k
      BY <3>1
    <3>3. p \in 1 .. (n + 1)
      BY <1>1
    <3>4. begin[p] = first[p]
      BY <3>3, <2>3
    <3>5. seqs[p][k] = all[begin[p] + k]
      BY <2>2
    <3>6. Shows(seqs[p][k], ins[first[p] + k])
      BY <1>2, <1>4
    <3> QED
      BY <3>2, <3>4, <3>5, <3>6
  <2> QED
    BY <2>4, <2>5, <2>6, <1>3 DEF l
<1> QED
  BY <1>5, <1>6

\* So a scan whose pages can be numbered returns every row.
LEMMA RowsRead == IInv => RoundTrip
<1> SUFFICES ASSUME IInv, finalized, Len(pages) <= PageIds
             PROVE  /\ Len(CursorRows) = Len(inserted)
                    /\ \A r \in DOMAIN inserted :
                         IF inserted[r] = Null THEN CursorRows[r] = Null
                         ELSE CursorRows[r] # Null /\ Materialize(CursorRows[r]) = WithoutNul(inserted[r])
  BY DEF RoundTrip
<1>1. num_rows = 0 /\ inserted \in Seq(Row) /\ SavedInv(pages, Len(inserted), inserted)
  BY SavedAll DEF IInv
<1>2. pages \in Seq(OrdinaryPage \union LongPage)
  BY <1>1 DEF SavedInv
<1>3. PICK first : Layout(first, pages, Len(inserted), inserted)
  BY <1>1 DEF SavedInv
<1>4. /\ Len(CursorRows) = Len(inserted)
      /\ \A r \in 1 .. Len(inserted) : Shows(CursorRows[r], inserted[r])
  BY <1>1, <1>2, <1>3, AllScanned
<1>5. DOMAIN inserted = 1 .. Len(inserted)
  BY <1>1
<1>6. ASSUME NEW r \in DOMAIN inserted
      PROVE  IF inserted[r] = Null THEN CursorRows[r] = Null
             ELSE CursorRows[r] # Null /\ Materialize(CursorRows[r]) = WithoutNul(inserted[r])
  <2>1. Shows(CursorRows[r], inserted[r])
    BY <1>4, <1>5
  <2> QED
    BY <2>1, Bounds DEF Shows
<1> QED
  BY <1>4, <1>6

\* What a scan reads and the result materializes is what was inserted.
THEOREM RowsReadBack == Spec => []RoundTrip
BY Invariant, RowsRead, PTL
=============================================================================
