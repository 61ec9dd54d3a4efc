-------------------------- MODULE FixedPagesProofs --------------------------
(***************************************************************************)
(* Proofs about FixedPages for every size of a page and of a byte and for  *)
(* every number of rows: values and bitmap of a page do not overlap, each  *)
(* reader finds the rows that were inserted, and a view of pages without   *)
(* NULL is one.  The exceptions are the inserter's types of eight bytes.   *)
(***************************************************************************)
EXTENDS FixedPages, CommonLemmas

\* Room for a value is kept: the pages are those of the page format.
Fits == writer = "to_columnar" \/ value_size = 4

\* Where value number c of a page stands.
Offset(c) == DataBegin + value_size * c

ByteContent ==
    {Junk} \union {<<"value", r, k>> : r \in Nat, k \in Nat} \union {<<"bits", S>> : S \in SUBSET Nat}

Page == [num_rows : Nat, val_count : Nat, data : [Byte -> ByteContent]]

\* Rows and their values; row number k is k.
Inserted == {ins \in Seq(Nat \union {Null}) : \A k \in DOMAIN ins : ins[k] # Null => ins[k] = k}

\* The counters of the writer's state s, and where the values end.
CounterInv(s, ins) ==
    /\ s.pages \in Seq(Page) /\ s.idx \in Nat
    /\ Len(s.pages) = s.idx \/ (Len(s.pages) = s.idx + 1 /\ s.rows > 0)
    /\ s.rows \in 0 .. Len(ins) /\ s.bits \in SUBSET Nat
    /\ s.end = Offset(Count(s.bits, s.rows))
    /\ BitmapSize(s.rows) + 4 <= PageSize
    /\ Fits => s.end + BitmapSize(s.rows) <= PageSize
    /\ \A p \in DOMAIN s.pages : s.pages[p].val_count <= s.pages[p].num_rows

\* The bytes data hold the values of the n rows after row number base.
HoldsValues(data, bits, n, base) ==
    \A m \in 0 .. (n - 1) : m \in bits =>
        \A k \in 0 .. (value_size - 1) : data[Offset(Count(bits, m)) + k] = <<"value", base + m + 1, k>>

\* The bits tell which of these rows have one.
HoldsBits(bits, n, base, ins) ==
    \A m \in 0 .. (n - 1) : m \in bits <=> ins[base + m + 1] # Null

\* The page in progress.
CurrentInv(s, ins) ==
    LET base == Len(ins) - s.rows
    IN  /\ HoldsBits(s.bits, s.rows, base, ins)
        /\ HoldsValues(WithPage(s)[s.idx + 1].data, s.bits, s.rows, base)

\* A page that has been saved reads as the rows after row number base.
HoldsRows(page, base, ins) ==
    /\ PageRows(page) = [n \in 1 .. page.num_rows |-> ins[base + n]]
    /\ page.val_count = Cardinality({m \in 0 .. (page.num_rows - 1) : BitAt(page, m)})
    /\ Offset(page.val_count) + BitmapSize(page.num_rows) <= PageSize

\* Not even a page without NULL has room for one more value.
FullPage(page) ==
    Offset(page.val_count) + value_size + page.num_rows \div BitsPerByte + 1 > PageSize

NoNull(page) == page.num_rows = page.val_count

\* Page p of n pages begins after row number first[p].
Begins(first, pages_, n, fin, ins) ==
    /\ first \in [1 .. n + 1 -> Nat] /\ first[1] = 0
    /\ \A p \in 1 .. n :
          /\ first[p + 1] = first[p] + pages_[p].num_rows /\ first[p + 1] <= Len(ins)
          /\ HoldsRows(pages_[p], first[p], ins)
          /\ p < n \/ ~fin => FullPage(pages_[p])
          /\ (\A q \in 1 .. (p - 1) : NoNull(pages_[q])) => first[p] = (p - 1) * pages_[1].num_rows

SavedInv(s, ins, fin) ==
    \E first : /\ Begins(first, s.pages, s.idx, fin, ins)
               /\ first[s.idx + 1] + s.rows = Len(ins)

IInv ==
    /\ writer \in Writers /\ value_size \in ValueSizes
    /\ inserted \in Inserted
    /\ finalized \in BOOLEAN
    /\ finalized => num_rows = 0
    /\ CounterInv(State, inserted)
    /\ Fits => CurrentInv(State, inserted) /\ SavedInv(State, inserted, finalized)

-----------------------------------------------------------------------------
(* Sizes and offsets.                                                       *)

\* Every row has its bit in the bytes of n rows, which are no more than needed.
LEMMA BitmapOfRows ==
    ASSUME NEW n \in Nat
    PROVE  /\ BitmapSize(n) \in Nat
           /\ n <= BitmapSize(n) * BitsPerByte
           /\ \A i \in 0 .. (n - 1) : i \div BitsPerByte + 1 \in 1 .. BitmapSize(n)
           /\ \A q \in Nat : q < BitmapSize(n) => q * BitsPerByte < n
<1>1. BitmapSize(n) = Ceiling(n, BitsPerByte) /\ BitsPerByte \in Nat \ {0}
  BY ConstantsAssumption DEF BitmapSize, Ceiling
<1> QED
  BY <1>1, CeilingIs

\* One more row needs one more byte when the last one is full.
LEMMA BitmapOfNext ==
    ASSUME NEW n \in Nat
    PROVE  /\ n \div BitsPerByte \in Nat
           /\ BitmapSize(n + 1) = n \div BitsPerByte + 1
           /\ \/ BitmapSize(n) = n \div BitsPerByte + 1
              \/ BitmapSize(n) = n \div BitsPerByte /\ (n % BitsPerByte) = 0
<1>1. /\ BitmapSize(n) = Ceiling(n, BitsPerByte) /\ BitmapSize(n + 1) = Ceiling(n + 1, BitsPerByte)
      /\ BitsPerByte \in Nat \ {0}
  BY ConstantsAssumption DEF BitmapSize, Ceiling
<1> QED
  BY <1>1, CeilingOfNext

\* More rows need no fewer bytes of bitmap.
LEMMA BitmapGrows ==
    ASSUME NEW m \in Nat, NEW n \in Nat, m <= n
    PROVE  BitmapSize(m) <= BitmapSize(n)
<1>1. /\ BitmapSize(m) = Ceiling(m, BitsPerByte) /\ BitmapSize(n) = Ceiling(n, BitsPerByte)
      /\ BitsPerByte \in Nat \ {0}
  BY ConstantsAssumption DEF BitmapSize, Ceiling
<1> QED
  BY <1>1, CeilingGrows

\* What the two widths of a value make of the writer's constants.
LEMMA Sizes ==
    ASSUME writer \in Writers, value_size \in ValueSizes
    PROVE  /\ value_size \in {4, 8} /\ DataBegin = value_size
           /\ writer \in {"inserter", "to_columnar"}
           /\ PageSize \in Nat /\ PageSize > 16 /\ BitsPerByte \in Nat \ {0}
           /\ \A c \in Nat : Offset(c) \in Nat /\ Offset(c) >= value_size
           /\ \A c, d \in Nat : c < d => Offset(c) + value_size <= Offset(d)
           /\ \A c \in Nat : Offset(c + 1) = Offset(c) + value_size /\ (Offset(c) - DataBegin) \div value_size = c
           /\ Offset(0) = value_size
<1>1. value_size \in {4, 8} /\ writer \in {"inserter", "to_columnar"}
  BY ConstantsAssumption
<1>2. DataBegin = value_size
  BY <1>1 DEF DataBegin
<1> QED
  BY <1>1, <1>2, ConstantsAssumption DEF Offset

-----------------------------------------------------------------------------
(* The operations of the writers. *)

\* get_page gives the page after the saved ones.
LEMMA PageReady ==
    ASSUME NEW s, NEW ins, CounterInv(s, ins)
    PROVE  /\ WithPage(s) \in Seq(Page) /\ Len(WithPage(s)) = s.idx + 1
           /\ \A p \in 1 .. s.idx : WithPage(s)[p] = s.pages[p]
           /\ \A p \in 1 .. (s.idx + 1) : WithPage(s)[p].val_count <= WithPage(s)[p].num_rows
           /\ WithPage(s)[s.idx + 1] \in Page
<1>1. s.pages \in Seq(Page) /\ s.idx \in Nat /\ (Len(s.pages) = s.idx \/ Len(s.pages) = s.idx + 1)
  BY DEF CounterInv
<1>2. NewPage \in Page /\ NewPage.val_count <= NewPage.num_rows
  BY DEF NewPage, Page, ByteContent
<1>3. \A p \in DOMAIN s.pages : s.pages[p].val_count <= s.pages[p].num_rows
  BY DEF CounterInv
<1> HIDE DEF NewPage
<1>4. CASE Len(s.pages) = s.idx
  <2>1. WithPage(s) = Append(s.pages, NewPage)
    BY <1>4 DEF WithPage
  <2> QED
    BY <2>1, <1>1, <1>2, <1>3, <1>4
<1>5. CASE Len(s.pages) = s.idx + 1
  <2>1. WithPage(s) = s.pages
    BY <1>1, <1>5 DEF WithPage
  <2> QED
    BY <2>1, <1>1, <1>3, <1>5
<1> QED
  BY <1>1, <1>4, <1>5

\* A page at the end of a sequence of pages is replaced.
LEMMA LastReplaced ==
    ASSUME NEW ps \in Seq(Page), NEW i \in Nat, Len(ps) = i + 1, NEW page \in Page
    PROVE  LET qs == [ps EXCEPT ![i + 1] = page]
           IN  /\ qs \in Seq(Page) /\ Len(qs) = i + 1
               /\ \A p \in 1 .. i : qs[p] = ps[p]
               /\ qs[i + 1] = page
OBVIOUS

\* The state after a value of row number row has been stored.
WithValue(s, row) ==
    [pages |-> [WithPage(s) EXCEPT ![s.idx + 1].data = Stored(@, s.end, row)],
     idx |-> s.idx, rows |-> s.rows + 1, end |-> s.end + value_size, bits |-> SetBit(s.bits, s.rows)]

WithNull(s) ==
    [pages |-> s.pages, idx |-> s.idx, rows |-> s.rows + 1, end |-> s.end,
     bits |-> UnsetBit(s.bits, s.rows)]

\* The bytes of the new value are beyond those of the earlier ones.
LEMMA StoredHolds ==
    ASSUME writer \in Writers, value_size \in ValueSizes, NEW data \in [Byte -> ByteContent],
           NEW bits \in SUBSET Nat, NEW n \in Nat, NEW base \in Nat,
           HoldsValues(data, bits, n, base), Offset(Count(bits, n)) + value_size <= PageSize
    PROVE  LET stored == Stored(data, Offset(Count(bits, n)), base + n + 1)
           IN  /\ stored \in [Byte -> ByteContent]
               /\ HoldsValues(stored, SetBit(bits, n), n + 1, base)
<1> DEFINE e == Offset(Count(bits, n))
           stored == Stored(data, e, base + n + 1)
           new == SetBit(bits, n)
<1>1. /\ value_size \in {4, 8} /\ PageSize \in Nat
      /\ \A c \in Nat : Offset(c) \in Nat /\ Offset(c) >= value_size
      /\ \A c, d \in Nat : c < d => Offset(c) + value_size <= Offset(d)
  BY Sizes
<1>2. Count(bits, n) \in Nat /\ \A m \in 0 .. (n - 1) : m \in bits => Count(bits, m) < Count(bits, n)
  BY CountRows
<1>3. \A m \in 0 .. n : Count(new, m) = Count(bits, m)
  <2>1. \A m \in 0 .. (n - 1) : m \in new <=> m \in bits
    BY DEF SetBit
  <2> HIDE DEF new
  <2> QED
    BY <2>1, CountSame
<1>4. e \in Nat /\ e >= 4 /\ e + value_size <= PageSize
  BY <1>1, <1>2
<1>5. \A b \in Byte : stored[b] = IF b \in e .. (e + value_size - 1)
                                  THEN <<"value", base + n + 1, b - e>> ELSE data[b]
  BY DEF Stored
<1>6. stored \in [Byte -> ByteContent]
  <2>1. \A b \in Byte : b \in e .. (e + value_size - 1) => <<"value", base + n + 1, b - e>> \in ByteContent
    <3> HIDE DEF e
    <3>1. \A r \in Nat, k \in Nat : <<"value", r, k>> \in ByteContent
      BY DEF ByteContent
    <3>2. \A b \in Byte : b \in e .. (e + value_size - 1) => b - e \in Nat
      BY <1>1, <1>4 DEF Byte
    <3>3. base + n + 1 \in Nat
      OBVIOUS
    <3> QED
      BY <3>1, <3>2, <3>3
  <2>2. stored = [b \in Byte |-> stored[b]]
    BY DEF Stored
  <2> HIDE DEF stored
  <2> QED
    BY <2>1, <2>2, <1>5
<1> HIDE DEF e, stored, new
<1>7. ASSUME NEW m \in 0 .. n, m \in new, NEW k \in 0 .. (value_size - 1)
      PROVE  stored[Offset(Count(new, m)) + k] = <<"value", base + m + 1, k>>
  <2>1. Count(new, m) = Count(bits, m) /\ m \in Nat
    BY <1>3
  <2>2. CASE m = n
    <3>1. e + k \in e .. (e + value_size - 1) /\ e + k \in Byte /\ e + k - e = k
      BY <1>1, <1>4 DEF Byte
    <3>2. stored[e + k] = <<"value", base + n + 1, k>>
      <4> DEFINE b == e + k
      <4>1. b \in Byte /\ b \in e .. (e + value_size - 1) /\ b - e = k
        BY <3>1, <1>1, <1>4
      <4> HIDE DEF b
      <4>2. stored[b] = <<"value", base + n + 1, k>>
        BY <4>1, <1>5
      <4> QED
        BY <4>2 DEF b
    <3> QED
      BY <3>2, <2>1, <2>2 DEF e
  <2>3. CASE m \in 0 .. (n - 1)
    <3>1. m \in bits
      BY <2>3, <1>7 DEF new, SetBit
    <3>2. Count(bits, m) < Count(bits, n) /\ Count(bits, m) \in Nat
      BY <2>1, <2>3, <3>1, <1>2, CountRows
    <3>3. Offset(Count(bits, m)) + value_size <= e /\ Offset(Count(bits, m)) \in Nat
          /\ Offset(Count(bits, m)) >= 4
      BY <3>2, <1>1, <1>2 DEF e
    <3> DEFINE b == Offset(Count(bits, m)) + k
    <3>4. b \in Byte /\ b \notin e .. (e + value_size - 1)
      <4> DEFINE o == Offset(Count(bits, m))
      <4>1. o + value_size <= e /\ o \in Nat /\ o >= 4
        BY <3>3
      <4> HIDE DEF o
      <4>2. o + k >= 4 /\ o + k < e /\ o + k \in Nat /\ o + k < PageSize
        BY <4>1, <1>1, <1>4
      <4>3. o + k \in Byte
        BY <4>2, <1>1 DEF Byte
      <4>4. o + k \notin e .. (e + value_size - 1)
        BY <4>2, <1>4
      <4> QED
        BY <4>3, <4>4 DEF o
    <3>5. data[b] = <<"value", base + m + 1, k>>
      BY <3>1, <2>3 DEF HoldsValues
    <3>6. stored[b] = data[b]
      <4> HIDE DEF b
      <4> QED
        BY <3>4, <1>5
    <3> QED
      BY <3>5, <3>6, <2>1
  <2> QED
    BY <2>2, <2>3
<1>8. HoldsValues(stored, new, n + 1, base)
  BY <1>7 DEF HoldsValues
<1> QED
  BY <1>6, <1>8 DEF stored, new, e

\* A value or NULL appended to the inserted ones is the next of them.
LEMMA InsertedGrows ==
    ASSUME NEW ins \in Inserted, NEW v, v = Null \/ v = Len(ins) + 1
    PROVE  /\ Append(ins, v) \in Inserted
           /\ Len(ins) \in Nat /\ Len(Append(ins, v)) = Len(ins) + 1
           /\ \A k \in 1 .. Len(ins) : Append(ins, v)[k] = ins[k]
           /\ Append(ins, v)[Len(ins) + 1] = v
<1>1. ins \in Seq(Nat \union {Null}) /\ \A k \in DOMAIN ins : ins[k] # Null => ins[k] = k
  BY DEF Inserted
<1>2. Append(ins, v) \in Seq(Nat \union {Null}) /\ Len(ins) \in Nat
  BY <1>1
<1>3. /\ Len(Append(ins, v)) = Len(ins) + 1
      /\ \A k \in 1 .. Len(ins) : Append(ins, v)[k] = ins[k]
      /\ Append(ins, v)[Len(ins) + 1] = v
  BY <1>1
<1>4. \A k \in DOMAIN Append(ins, v) : Append(ins, v)[k] # Null => Append(ins, v)[k] = k
  <2>1. DOMAIN Append(ins, v) = 1 .. Len(ins) + 1 /\ DOMAIN ins = 1 .. Len(ins)
    BY <1>1, <1>2, <1>3
  <2>2. \A k \in 1 .. Len(ins) + 1 : k = Len(ins) + 1 \/ k \in 1 .. Len(ins)
    BY <1>2
  <2> QED
    BY <2>1, <2>2, <1>1, <1>3
<1> QED
  BY <1>2, <1>3, <1>4 DEF Inserted

\* The bits of the earlier rows stay, and tell the same of them.
LEMMA BitsHold ==
    ASSUME NEW ins \in Inserted, NEW v, v = Null \/ v = Len(ins) + 1, NEW n \in 0 .. Len(ins),
           NEW bits \in SUBSET Nat, HoldsBits(bits, n, Len(ins) - n, ins)
    PROVE  /\ v # Null => HoldsBits(SetBit(bits, n), n + 1, Len(ins) - n, Append(ins, v))
           /\ v = Null => HoldsBits(UnsetBit(bits, n), n + 1, Len(ins) - n, Append(ins, v))
<1> DEFINE base == Len(ins) - n
           next == Append(ins, v)
<1>1. /\ Len(ins) \in Nat /\ base \in Nat /\ n \in Nat /\ base + n + 1 = Len(ins) + 1
      /\ \A k \in 1 .. Len(ins) : next[k] = ins[k]
      /\ next[Len(ins) + 1] = v
  BY InsertedGrows
<1>2. \A m \in 0 .. (n - 1) : m \in bits <=> ins[base + m + 1] # Null
  BY DEF HoldsBits
<1>3. \A m \in 0 .. (n - 1) : base + m + 1 \in 1 .. Len(ins)
  BY <1>1
<1> HIDE DEF base, next
<1>4. \A m \in 0 .. (n + 1 - 1) : m = n \/ (m \in 0 .. (n - 1) /\ m # n)
  BY <1>1
<1>5. \A m \in 0 .. (n - 1) : m \in bits <=> next[base + m + 1] # Null
  BY <1>1, <1>2, <1>3
<1>6. next[base + n + 1] = v
  BY <1>1
<1>7. v # Null => HoldsBits(SetBit(bits, n), n + 1, base, next)
  BY <1>4, <1>5, <1>6 DEF HoldsBits, SetBit
<1>8. v = Null => HoldsBits(UnsetBit(bits, n), n + 1, base, next)
  BY <1>4, <1>5, <1>6 DEF HoldsBits, UnsetBit
<1> QED
  BY <1>7, <1>8 DEF base, next

\* A stored value changes the bytes of a page to bytes.
LEMMA StoredBytes ==
    ASSUME value_size \in {4, 8}, NEW data \in [Byte -> ByteContent], NEW e \in Nat, NEW r \in Nat
    PROVE  Stored(data, e, r) \in [Byte -> ByteContent]
<1>1. \A b \in Byte : b \in e .. (e + value_size - 1) => b - e \in Nat
  BY DEF Byte
<1>2. \A k \in Nat : <<"value", r, k>> \in ByteContent
  BY DEF ByteContent
<1>3. \A b \in Byte : b \in e .. (e + value_size - 1) => <<"value", r, b - e>> \in ByteContent
  BY <1>1, <1>2
<1>4. \A b \in Byte : (IF b \in e .. (e + value_size - 1) THEN <<"value", r, b - e>> ELSE data[b])
                        \in ByteContent
  BY <1>3
<1> QED
  BY <1>4, Zenon DEF Stored

\* The counters while a row is added to the page in progress.
LEMMA RowCounted ==
    ASSUME NEW s, NEW ins \in Inserted, CounterInv(s, ins), NEW v, v = Null \/ v = Len(ins) + 1
    PROVE  /\ s.rows \in Nat /\ s.bits \in SUBSET Nat /\ s.idx \in Nat
           /\ s.rows + 1 \in 0 .. Len(Append(ins, v))
           /\ Len(Append(ins, v)) - (s.rows + 1) = Len(ins) - s.rows
           /\ Len(ins) - s.rows \in Nat
           /\ BitmapSize(s.rows + 1) = s.rows \div BitsPerByte + 1
           /\ s.rows \div BitsPerByte \in Nat
           /\ Count(s.bits, s.rows) \in Nat /\ s.end = Offset(Count(s.bits, s.rows))
<1>1. Len(ins) \in Nat /\ Len(Append(ins, v)) = Len(ins) + 1
  BY InsertedGrows
<1>2. /\ s.rows \in 0 .. Len(ins) /\ s.bits \in SUBSET Nat /\ s.idx \in Nat
      /\ s.end = Offset(Count(s.bits, s.rows))
  BY DEF CounterInv
<1>3. s.rows \in Nat
  BY <1>1, <1>2
<1>4. /\ BitmapSize(s.rows + 1) = s.rows \div BitsPerByte + 1
      /\ s.rows \div BitsPerByte \in Nat
  BY <1>3, BitmapOfNext
<1>5. Count(s.bits, s.rows) \in Nat
  BY <1>3, CountRows
<1>6. /\ s.rows + 1 \in 0 .. Len(Append(ins, v))
      /\ Len(Append(ins, v)) - (s.rows + 1) = Len(ins) - s.rows
      /\ Len(ins) - s.rows \in Nat
  <2> DEFINE n == s.rows
             l == Len(ins)
             k == Len(Append(ins, v))
  <2>1. l \in Nat /\ k = l + 1 /\ n \in 0 .. l
    BY <1>1, <1>2
  <2> HIDE DEF n, l, k
  <2>2. n + 1 \in 0 .. k /\ k - (n + 1) = l - n /\ l - n \in Nat
    BY <2>1
  <2> QED
    BY <2>2 DEF n, l, k
<1> QED
  BY <1>2, <1>3, <1>4, <1>5, <1>6

\* A value that has room is added to the page in progress.
LEMMA ValueAdded ==
    ASSUME writer \in Writers, value_size \in ValueSizes,
           NEW s, NEW ins \in Inserted, CounterInv(s, ins),
           s.rows \div BitsPerByte + 5 <= PageSize,
           Fits => s.end + value_size + s.rows \div BitsPerByte + 1 <= PageSize
    PROVE  LET t == WithValue(s, Len(ins) + 1)
               next == Append(ins, Len(ins) + 1)
           IN  /\ next \in Inserted /\ CounterInv(t, next)
               /\ Fits /\ CurrentInv(s, ins) => CurrentInv(t, next)
               /\ t.idx = s.idx /\ t.rows = s.rows + 1
               /\ \A p \in 1 .. s.idx : t.pages[p] = s.pages[p]
<1> DEFINE v == Len(ins) + 1
           next == Append(ins, v)
           ps == WithPage(s)
           old == ps[s.idx + 1]
           page == [old EXCEPT !.data = Stored(@, s.end, v)]
           t == WithValue(s, v)
           n == s.rows
           bits == SetBit(s.bits, n)
           base == Len(ins) - n
<1>1. /\ n \in Nat /\ s.bits \in SUBSET Nat /\ s.idx \in Nat /\ n + 1 \in 0 .. Len(next)
      /\ Len(next) - (n + 1) = base /\ base \in Nat
      /\ BitmapSize(n + 1) = n \div BitsPerByte + 1 /\ n \div BitsPerByte \in Nat
      /\ Count(s.bits, n) \in Nat /\ s.end = Offset(Count(s.bits, n))
  BY RowCounted
<1>2. next \in Inserted /\ Len(ins) \in Nat
  BY InsertedGrows
<1>3. /\ value_size \in {4, 8} /\ PageSize \in Nat
      /\ s.end \in Nat /\ Offset(Count(s.bits, n) + 1) = s.end + value_size
  BY <1>1, Sizes
<1>4. /\ ps \in Seq(Page) /\ Len(ps) = s.idx + 1
      /\ \A p \in 1 .. s.idx : ps[p] = s.pages[p]
      /\ \A p \in 1 .. (s.idx + 1) : ps[p].val_count <= ps[p].num_rows
      /\ old \in Page
  BY PageReady
<1>5. Stored(old.data, s.end, v) \in [Byte -> ByteContent]
  <2>1. old.data \in [Byte -> ByteContent] /\ v \in Nat
    BY <1>2, <1>4 DEF Page
  <2> HIDE DEF old, v
  <2> QED
    BY <2>1, <1>3, StoredBytes
<1>6. /\ page \in Page /\ page.data = Stored(old.data, s.end, v)
      /\ page.val_count = old.val_count /\ page.num_rows = old.num_rows
  BY <1>4, <1>5 DEF Page
<1>7. t = [pages |-> [ps EXCEPT ![s.idx + 1] = page],
           idx |-> s.idx, rows |-> n + 1, end |-> s.end + value_size, bits |-> bits]
  BY DEF WithValue
<1> HIDE DEF page, old, ps, t
<1>8. /\ t.pages \in Seq(Page) /\ Len(t.pages) = s.idx + 1
      /\ \A p \in 1 .. s.idx : t.pages[p] = ps[p]
      /\ t.pages[s.idx + 1] = page
  <2> DEFINE qs == [ps EXCEPT ![s.idx + 1] = page]
  <2>1. s.idx \in Nat /\ ps \in Seq(Page) /\ Len(ps) = s.idx + 1 /\ page \in Page
    BY <1>1, <1>4, <1>6
  <2>2. /\ qs \in Seq(Page) /\ Len(qs) = s.idx + 1
        /\ \A p \in 1 .. s.idx : qs[p] = ps[p]
        /\ qs[s.idx + 1] = page
    BY <2>1, LastReplaced
  <2>3. t.pages = qs
    BY <1>7
  <2> HIDE DEF qs
  <2> QED
    BY <2>2, <2>3
<1>9. /\ t.idx = s.idx /\ t.rows = n + 1 /\ t.end = s.end + value_size /\ t.bits = bits
  BY <1>7
<1>10. /\ bits \in SUBSET Nat /\ Count(bits, n + 1) = Count(s.bits, n) + 1
  <2>1. bits \in SUBSET Nat /\ n \in bits /\ \A m \in 0 .. (n - 1) : m \in bits <=> m \in s.bits
    <3>1. n \in Nat /\ s.bits \in SUBSET Nat
      BY <1>1
    <3> HIDE DEF n
    <3> QED
      BY <3>1 DEF SetBit
  <2> HIDE DEF bits, n
  <2>2. Count(bits, n) = Count(s.bits, n)
    <3>1. n \in Nat
      BY <1>1
    <3>2. n \in 0 .. n
      BY <3>1
    <3> QED
      BY <2>1, <3>1, <3>2, CountSame
  <2> QED
    BY <2>1, <2>2, <1>1, CountRows
<1>11. \A p \in DOMAIN t.pages : t.pages[p].val_count <= t.pages[p].num_rows
  <2>1. DOMAIN t.pages = 1 .. (s.idx + 1)
    BY <1>8
  <2>2. \A p \in 1 .. (s.idx + 1) : p = s.idx + 1 \/ p \in 1 .. s.idx
    BY <1>1
  <2> QED
    BY <2>1, <2>2, <1>4, <1>6, <1>8 DEF old
<1>12. CounterInv(t, next)
  <2>1. t.end = Offset(Count(t.bits, t.rows))
    BY <1>1, <1>3, <1>9, <1>10
  <2>2. BitmapSize(t.rows) + 4 <= PageSize
    BY <1>1, <1>3, <1>9
  <2>3. Fits => t.end + BitmapSize(t.rows) <= PageSize
    <3> DEFINE w == n \div BitsPerByte
    <3>1. /\ t.end = s.end + value_size /\ BitmapSize(t.rows) = w + 1 /\ w \in Nat
          /\ Fits => s.end + value_size + w + 1 <= PageSize
      BY <1>1, <1>9
    <3> HIDE DEF w
    <3> QED
      BY <3>1, <1>3
  <2>4. Len(t.pages) = t.idx + 1 /\ t.rows > 0 /\ t.rows \in 0 .. Len(next) /\ t.idx \in Nat
    BY <1>1, <1>8, <1>9
  <2> HIDE DEF next, bits, n
  <2> QED
    BY <2>1, <2>2, <2>3, <2>4, <1>8, <1>9, <1>10, <1>11 DEF CounterInv
<1>13. ASSUME Fits, CurrentInv(s, ins) PROVE CurrentInv(t, next)
  <2>1. HoldsBits(s.bits, n, base, ins) /\ HoldsValues(old.data, s.bits, n, base)
    BY <1>13 DEF CurrentInv, old, ps
  <2>2. HoldsBits(bits, n + 1, base, next)
    <3>1. v # Null
      BY <1>2, ConstantsAssumption
    <3>2. n \in 0 .. Len(ins)
      BY <1>1, <1>2
    <3> HIDE DEF v
    <3>3. v = Null \/ v = Len(ins) + 1
      BY DEF v
    <3> QED
      BY <2>1, <3>1, <3>2, <3>3, <1>1, BitsHold
  <2>3. HoldsValues(page.data, bits, n + 1, base)
    <3>1. old.data \in [Byte -> ByteContent]
      BY <1>4 DEF Page
    <3>2. Offset(Count(s.bits, n)) + value_size <= PageSize
      <4> DEFINE w == n \div BitsPerByte
      <4>1. s.end + value_size + w + 1 <= PageSize /\ w \in Nat /\ s.end = Offset(Count(s.bits, n))
        BY <1>1, <1>13
      <4> HIDE DEF w
      <4>2. s.end + value_size <= PageSize
        BY <4>1, <1>3
      <4> QED
        BY <4>1, <4>2
    <3>3. base + n + 1 = v
      <4>1. n \in Nat /\ Len(ins) \in Nat
        BY <1>1, <1>2
      <4> HIDE DEF n
      <4> QED
        BY <4>1
    <3> HIDE DEF base, n, v
    <3>4. HoldsValues(Stored(old.data, Offset(Count(s.bits, n)), base + n + 1), SetBit(s.bits, n), n + 1, base)
      BY <2>1, <3>1, <3>2, <1>1, StoredHolds
    <3> QED
      BY <3>3, <3>4, <1>1, <1>6
  <2>4. WithPage(t)[t.idx + 1] = page
    BY <1>1, <1>8, <1>9 DEF WithPage
  <2>5. Len(next) - t.rows = base
    BY <1>1, <1>9
  <2> HIDE DEF next, base, bits, n
  <2> QED
    BY <2>2, <2>3, <2>4, <2>5, <1>9 DEF CurrentInv
<1>14. \A p \in 1 .. s.idx : t.pages[p] = s.pages[p]
  BY <1>4, <1>8
<1> QED
  BY <1>2, <1>9, <1>12, <1>13, <1>14 DEF t

\* A row without a value does not count, and no value moves.
LEMMA CountNull ==
    ASSUME NEW bits \in SUBSET Nat, NEW n \in Nat
    PROVE  /\ UnsetBit(bits, n) \in SUBSET Nat /\ n \notin UnsetBit(bits, n)
           /\ \A m \in 0 .. (n - 1) : m \in UnsetBit(bits, n) <=> m \in bits
           /\ \A m \in 0 .. n : Count(UnsetBit(bits, n), m) = Count(bits, m)
           /\ Count(UnsetBit(bits, n), n + 1) = Count(bits, n)
<1> DEFINE new == UnsetBit(bits, n)
<1>1. new \in SUBSET Nat /\ n \notin new /\ \A m \in 0 .. (n - 1) : m \in new <=> m \in bits
  BY DEF UnsetBit
<1> HIDE DEF new
<1>2. \A m \in 0 .. n : Count(new, m) = Count(bits, m)
  BY <1>1, CountSame
<1>3. Count(new, n + 1) = Count(bits, n)
  <2>1. n \in 0 .. n
    OBVIOUS
  <2> QED
    BY <2>1, <1>1, <1>2, CountRows
<1> QED
  BY <1>1, <1>2, <1>3 DEF new

\* A NULL adds a row and no value: the page still holds the values before it.
LEMMA NullHolds ==
    ASSUME NEW data, NEW bits \in SUBSET Nat, NEW n \in Nat, NEW base \in Nat,
           HoldsValues(data, bits, n, base)
    PROVE  HoldsValues(data, UnsetBit(bits, n), n + 1, base)
<1> DEFINE new == UnsetBit(bits, n)
<1>1. /\ n \notin new /\ \A m \in 0 .. (n - 1) : m \in new <=> m \in bits
      /\ \A m \in 0 .. n : Count(new, m) = Count(bits, m)
  BY CountNull
<1> HIDE DEF new
<1>2. ASSUME NEW m \in 0 .. n, m \in new, NEW k \in 0 .. (value_size - 1)
      PROVE  data[Offset(Count(new, m)) + k] = <<"value", base + m + 1, k>>
  <2>1. m \in 0 .. (n - 1) /\ m \in bits /\ Count(new, m) = Count(bits, m)
    BY <1>1, <1>2
  <2>2. data[Offset(Count(bits, m)) + k] = <<"value", base + m + 1, k>>
    BY <2>1 DEF HoldsValues
  <2> QED
    BY <2>1, <2>2
<1>3. HoldsValues(data, new, n + 1, base)
  BY <1>2 DEF HoldsValues
<1> QED
  BY <1>3 DEF new

\* A NULL is added to the page in progress.
LEMMA NullAdded ==
    ASSUME writer \in Writers, value_size \in ValueSizes,
           NEW s, NEW ins \in Inserted, CounterInv(s, ins),
           s.rows \div BitsPerByte + 5 <= PageSize,
           Fits => s.end + s.rows \div BitsPerByte + 1 <= PageSize
    PROVE  LET t == WithNull(s)
               next == Append(ins, Null)
           IN  /\ next \in Inserted /\ CounterInv(t, next)
               /\ Fits /\ CurrentInv(s, ins) => CurrentInv(t, next)
               /\ t.idx = s.idx /\ t.rows = s.rows + 1
               /\ \A p \in 1 .. s.idx : t.pages[p] = s.pages[p]
<1> DEFINE next == Append(ins, Null)
           t == WithNull(s)
           n == s.rows
           bits == UnsetBit(s.bits, n)
           base == Len(ins) - n
<1>1. /\ n \in Nat /\ s.bits \in SUBSET Nat /\ s.idx \in Nat /\ n + 1 \in 0 .. Len(next)
      /\ Len(next) - (n + 1) = base /\ base \in Nat
      /\ BitmapSize(n + 1) = n \div BitsPerByte + 1 /\ n \div BitsPerByte \in Nat
      /\ Count(s.bits, n) \in Nat /\ s.end = Offset(Count(s.bits, n))
  BY RowCounted
<1>2. next \in Inserted /\ Len(ins) \in Nat
  BY InsertedGrows
<1>4. t = [pages |-> s.pages, idx |-> s.idx, rows |-> n + 1, end |-> s.end, bits |-> bits]
  BY DEF WithNull
<1> HIDE DEF t
<1>5. /\ t.pages = s.pages /\ t.idx = s.idx /\ t.rows = n + 1 /\ t.end = s.end /\ t.bits = bits
  BY <1>4
<1>7. bits \in SUBSET Nat /\ Count(bits, n + 1) = Count(s.bits, n)
  <2> HIDE DEF n
  <2> QED
    BY <1>1, CountNull
<1>10. CounterInv(t, next)
  <2>1. t.end = Offset(Count(t.bits, t.rows))
    BY <1>1, <1>5, <1>7
  <2>2. BitmapSize(t.rows) + 4 <= PageSize
    BY <1>1, <1>5, ConstantsAssumption
  <2>3. Fits => t.end + BitmapSize(t.rows) <= PageSize
    <3>1. s.end \in Nat
      BY <1>1, Sizes
    <3> QED
      BY <3>1, <1>1, <1>5, ConstantsAssumption
  <2>4. t.rows > 0 /\ t.rows \in 0 .. Len(next)
    BY <1>1, <1>5
  <2> HIDE DEF next, bits, n
  <2> QED
    BY <2>1, <2>2, <2>3, <2>4, <1>5, <1>7 DEF CounterInv
<1>11. ASSUME CurrentInv(s, ins) PROVE CurrentInv(t, next)
  <2> DEFINE data == WithPage(s)[s.idx + 1].data
  <2>1. HoldsBits(s.bits, n, base, ins) /\ HoldsValues(data, s.bits, n, base)
    BY <1>11 DEF CurrentInv
  <2>2. HoldsBits(bits, n + 1, base, next)
    <3>1. n \in 0 .. Len(ins)
      BY <1>1, <1>2
    <3> QED
      BY <2>1, <3>1, <1>1, BitsHold
  <2>3. WithPage(t)[t.idx + 1].data = data
    BY <1>5 DEF WithPage
  <2>6. HoldsValues(data, bits, n + 1, base)
    <3> HIDE DEF data, n, base
    <3> QED
      BY <2>1, <1>1, NullHolds
  <2> HIDE DEF data, bits, n, base, next
  <2>7. Len(next) - t.rows = base
    BY <1>1, <1>5
  <2> QED
    BY <2>2, <2>3, <2>6, <2>7, <1>5 DEF CurrentInv
<1> QED
  BY <1>2, <1>5, <1>10, <1>11 DEF t

-----------------------------------------------------------------------------
(* Saving a page. *)

\* The page that save_page makes of the page in progress.
PageOf(n, c, data, bits) ==
    [num_rows |-> n, val_count |-> c, data |-> SavedData(data, n, bits)]

SavedAs(s) ==
    PageOf(s.rows, (s.end - DataBegin) \div value_size, WithPage(s)[s.idx + 1].data, s.bits)

\* The bitmap in the page is the writer's.
LEMMA BitmapSaved ==
    ASSUME NEW data, NEW bits \in SUBSET Nat, NEW n \in Nat, NEW c,
           BitmapSize(n) + 4 <= PageSize,
           NEW m \in 0 .. (n - 1)
    PROVE  BitAt(PageOf(n, c, data, bits), m) <=> m \in bits
<1> DEFINE page == PageOf(n, c, data, bits)
           w == m \div BitsPerByte
           k == m % BitsPerByte
           first == PageSize - BitmapSize(n)
           b == first + w
<1>1. BitsPerByte \in Nat \ {0} /\ PageSize \in Nat /\ m \in Nat
  BY ConstantsAssumption
<1>2. w \in Nat /\ k \in 0 .. (BitsPerByte - 1) /\ m = w * BitsPerByte + k
  BY <1>1, DivMod
<1>3. BitmapSize(n) \in Nat /\ w + 1 \in 1 .. BitmapSize(n)
  BY BitmapOfRows
<1>4. page.num_rows = n /\ page.data = SavedData(data, n, bits)
  BY DEF PageOf
<1> HIDE DEF page
<1>5. BitAt(page, m) <=> (IF page.data[b][1] = "bits" THEN k \in page.data[b][2] ELSE FALSE)
  BY <1>4 DEF BitAt
<1> HIDE DEF w, k
<1>6. b \in Byte /\ b >= first /\ b - first = w
  BY <1>1, <1>2, <1>3 DEF Byte
<1>7. \A c2 \in Byte : page.data[c2] = IF c2 >= first THEN <<"bits", BitsOfByte(bits, c2 - first)>>
                                                     ELSE data[c2]
  BY <1>4 DEF SavedData
<1> HIDE DEF b
<1>8. page.data[b] = <<"bits", BitsOfByte(bits, w)>>
  BY <1>6, <1>7
<1>9. k \in BitsOfByte(bits, w) <=> m \in bits
  BY <1>2 DEF BitsOfByte
<1> QED
  BY <1>5, <1>8, <1>9 DEF page

\* The values in the page are the writer's: the bitmap does not reach them.
LEMMA ValuesSaved ==
    ASSUME writer \in Writers, value_size \in ValueSizes, NEW data \in [Byte -> ByteContent],
           NEW bits \in SUBSET Nat, NEW n \in Nat, NEW base \in Nat, NEW c,
           HoldsValues(data, bits, n, base), Offset(Count(bits, n)) + BitmapSize(n) <= PageSize,
           NEW m \in 0 .. (n - 1), m \in bits
    PROVE  ValueAt(PageOf(n, c, data, bits), Offset(Count(bits, m))) = base + m + 1
<1> DEFINE page == PageOf(n, c, data, bits)
           e == Offset(Count(bits, m))
           first == PageSize - BitmapSize(n)
<1>1. /\ value_size \in {4, 8} /\ PageSize \in Nat
      /\ \A d \in Nat : Offset(d) \in Nat /\ Offset(d) >= value_size
      /\ \A d, f \in Nat : d < f => Offset(d) + value_size <= Offset(f)
  BY Sizes
<1>2. m \in Nat /\ Count(bits, m) \in Nat /\ Count(bits, n) \in Nat /\ Count(bits, m) < Count(bits, n)
  BY CountRows
<1>3. e \in Nat /\ e >= 4 /\ e + value_size <= Offset(Count(bits, n)) /\ Offset(Count(bits, n)) \in Nat
  BY <1>1, <1>2
<1>4. BitmapSize(n) \in Nat
  BY BitmapOfRows
<1>5. \A k \in 0 .. (value_size - 1) : data[e + k] = <<"value", base + m + 1, k>>
  BY DEF HoldsValues
<1>6. \A b \in Byte : page.data[b] = IF b >= first THEN <<"bits", BitsOfByte(bits, b - first)>>
                                                   ELSE data[b]
  BY DEF SavedData, PageOf
<1> HIDE DEF e, page
<1>7. \A k \in 0 .. (value_size - 1) : e + k \in Byte /\ ~ (e + k >= first)
  <2> TAKE k \in 0 .. (value_size - 1)
  <2>1. Offset(Count(bits, n)) <= first /\ first \in Int /\ first <= PageSize
    BY <1>1, <1>3, <1>4
  <2> HIDE DEF first
  <2>2. e + k \in Nat /\ e + k >= 4 /\ e + k < first
    BY <2>1, <1>1, <1>3
  <2>3. e + k \in Byte
    BY <2>1, <2>2, <1>1 DEF Byte
  <2> QED
    BY <2>1, <2>2, <2>3
<1>8. \A k \in 0 .. (value_size - 1) : page.data[e + k] = <<"value", base + m + 1, k>>
  BY <1>5, <1>6, <1>7
<1>9. page.data[e] = <<"value", base + m + 1, 0>>
  <2>1. 0 \in 0 .. (value_size - 1) /\ e + 0 = e
    BY <1>1, <1>3
  <2> QED
    BY <2>1, <1>8
<1>10. page.data[e][1] = "value" /\ page.data[e][2] = base + m + 1
  BY <1>9
<1> QED
  BY <1>8, <1>10 DEF ValueAt, e, page

\* What has been saved is read back.
LEMMA SavedReads ==
    ASSUME writer \in Writers, value_size \in ValueSizes, NEW s, NEW ins \in Inserted, Fits,
           CounterInv(s, ins), CurrentInv(s, ins)
    PROVE  HoldsRows(SavedAs(s), Len(ins) - s.rows, ins)
<1> DEFINE n == s.rows
           bits == s.bits
           base == Len(ins) - n
           data == WithPage(s)[s.idx + 1].data
           c == Count(bits, n)
           page == SavedAs(s)
<1>1. /\ n \in Nat /\ bits \in SUBSET Nat /\ base \in Nat /\ c \in Nat /\ Len(ins) \in Nat
      /\ s.end = Offset(c)
      /\ BitmapSize(n) + 4 <= PageSize /\ Offset(c) + BitmapSize(n) <= PageSize
  <2>1. Len(ins) \in Nat
    BY DEF Inserted
  <2>2. s.rows \in 0 .. Len(ins) /\ bits \in SUBSET Nat /\ s.end = Offset(c)
        /\ BitmapSize(n) + 4 <= PageSize /\ s.end + BitmapSize(n) <= PageSize
    BY DEF CounterInv
  <2>3. n \in Nat /\ base \in Nat
    BY <2>1, <2>2
  <2>4. c \in Nat
    <3> HIDE DEF n, bits
    <3> QED
      BY <2>3, CountRows
  <2> QED
    BY <2>1, <2>2, <2>3, <2>4
<1>2. HoldsBits(bits, n, base, ins) /\ HoldsValues(data, bits, n, base)
  BY DEF CurrentInv
<1>3. data \in [Byte -> ByteContent]
  BY PageReady DEF Page
<1>4. (s.end - DataBegin) \div value_size = c /\ DataBegin = value_size
  BY <1>1, Sizes
<1>5. page = PageOf(n, c, data, bits)
  BY <1>4 DEF SavedAs
<1>6. \A k \in DOMAIN ins : ins[k] # Null => ins[k] = k
  BY DEF Inserted
<1> HIDE DEF n, bits, base, data, c, page
<1>7. page.num_rows = n /\ page.val_count = c
  BY <1>5 DEF PageOf
<1>8. \A m \in 0 .. (n - 1) : BitAt(page, m) <=> m \in bits
  <2> TAKE m \in 0 .. (n - 1)
  <2> QED
    BY <1>1, <1>5, BitmapSaved
<1>9. \A m \in 0 .. (n - 1) : m \in bits => ValueAt(page, Offset(Count(bits, m))) = base + m + 1
  <2> SUFFICES ASSUME NEW m \in 0 .. (n - 1), m \in bits
               PROVE  ValueAt(page, Offset(Count(bits, m))) = base + m + 1
    OBVIOUS
  <2>1. Offset(Count(bits, n)) + BitmapSize(n) <= PageSize
    BY <1>1 DEF c
  <2> QED
    BY <2>1, <1>1, <1>2, <1>3, <1>5, ValuesSaved
<1>10. \A m \in 0 .. n : Cardinality({l \in 0 .. (m - 1) : BitAt(page, l)}) = Count(bits, m)
  <2> TAKE m \in 0 .. n
  <2>1. {l \in 0 .. (m - 1) : BitAt(page, l)} = Valid(bits, m)
    <3>1. \A l \in 0 .. (m - 1) : l \in 0 .. (n - 1)
      BY <1>1
    <3> QED
      BY <3>1, <1>8 DEF Valid
  <2> QED
    BY <2>1 DEF Count
<1>11. ASSUME NEW k \in 1 .. n
       PROVE  (IF BitAt(page, k - 1)
               THEN ValueAt(page, DataBegin + value_size * Cardinality({l \in 0 .. (k - 1 - 1) : BitAt(page, l)}))
               ELSE Null) = ins[base + k]
  <2>1. k - 1 \in 0 .. (n - 1) /\ k - 1 \in 0 .. n /\ base + (k - 1) + 1 = base + k
    BY <1>1
  <2>2. base + k \in DOMAIN ins
    BY <1>1 DEF base, n, Inserted
  <2>3. BitAt(page, k - 1) <=> ins[base + k] # Null
    BY <2>1, <1>2, <1>8 DEF HoldsBits
  <2>4. CASE BitAt(page, k - 1)
    <3>1. ins[base + k] = base + k
      BY <2>2, <2>3, <2>4, <1>6
    <3>2. ValueAt(page, Offset(Count(bits, k - 1))) = base + k
      BY <2>1, <2>4, <1>8, <1>9
    <3>3. Cardinality({l \in 0 .. (k - 1 - 1) : BitAt(page, l)}) = Count(bits, k - 1)
      BY <2>1, <1>10
    <3> QED
      BY <2>4, <3>1, <3>2, <3>3 DEF Offset
  <2>5. CASE ~ BitAt(page, k - 1)
    BY <2>3, <2>5
  <2> QED
    BY <2>4, <2>5
<1>12. PageRows(page) = [k \in 1 .. n |-> ins[base + k]]
  BY <1>7, <1>11 DEF PageRows
<1>13. c = Cardinality({m \in 0 .. (n - 1) : BitAt(page, m)})
  <2>1. n \in 0 .. n
    BY <1>1
  <2> QED
    BY <2>1, <1>10 DEF c
<1> QED
  BY <1>1, <1>7, <1>12, <1>13 DEF HoldsRows, page, base, n

\* A full page without NULL has as many rows as any page without NULL can have.
LEMMA FullHasMost ==
    ASSUME writer \in Writers, value_size \in ValueSizes, NEW a \in Page, NEW b \in Page,
           NoNull(a), NoNull(b), FullPage(a),
           Offset(b.val_count) + BitmapSize(b.num_rows) <= PageSize
    PROVE  b.num_rows <= a.num_rows
<1> DEFINE m == a.num_rows
           n == b.num_rows
<1>1. m \in Nat /\ n \in Nat /\ a.val_count = m /\ b.val_count = n
  BY DEF Page, NoNull
<1>2. /\ PageSize \in Nat /\ value_size \in Nat
      /\ \A c \in Nat : Offset(c) \in Nat /\ Offset(c + 1) = Offset(c) + value_size
      /\ \A c, d \in Nat : c < d => Offset(c) + value_size <= Offset(d)
  BY Sizes
<1>3. BitmapSize(m + 1) = m \div BitsPerByte + 1 /\ BitmapSize(m + 1) \in Nat
  <2> HIDE DEF m, n
  <2>1. m + 1 \in Nat
    BY <1>1
  <2>2. BitmapSize(m + 1) \in Nat
    BY <2>1, BitmapOfRows
  <2>3. BitmapSize(m + 1) = m \div BitsPerByte + 1
    BY <1>1, BitmapOfNext
  <2> QED
    BY <2>2, <2>3
<1>4. Offset(m) + value_size + BitmapSize(m + 1) > PageSize
  <2> DEFINE w == m \div BitsPerByte
  <2>1. w \in Nat /\ BitmapSize(m + 1) = w + 1 /\ Offset(m) + value_size + w + 1 > PageSize
    <3>1. Offset(m) + value_size + w + 1 > PageSize
      BY <1>1 DEF FullPage
    <3>2. BitmapSize(m + 1) = w + 1
      BY <1>3
    <3>3. w \in Nat
      <4> HIDE DEF m
      <4> QED
        BY <1>1, ConstantsAssumption, DivMod
    <3> QED
      BY <3>1, <3>2, <3>3
  <2>2. Offset(m) \in Nat
    BY <1>1, <1>2
  <2> HIDE DEF w, m
  <2> QED
    BY <2>1, <2>2, <1>2
<1>5. Offset(n) + BitmapSize(n) <= PageSize /\ BitmapSize(n) \in Nat
  BY <1>1, BitmapOfRows
<1> HIDE DEF m, n
<1>6. m + 1 <= n => BitmapSize(m + 1) <= BitmapSize(n)
  BY <1>1, BitmapGrows
<1>7. m < n => Offset(m) + value_size <= Offset(n)
  BY <1>1, <1>2
<1>8. ~ (m < n)
  BY <1>1, <1>2, <1>3, <1>4, <1>5, <1>6, <1>7
<1> QED
  BY <1>1, <1>8 DEF m, n

\* save_page writes a page.
LEMMA SavedType ==
    ASSUME NEW n \in Nat, NEW c \in Nat, NEW data \in [Byte -> ByteContent], NEW bits
    PROVE  PageOf(n, c, data, bits) \in Page
<1>1. \A b : BitsOfByte(bits, b) \in SUBSET Nat
  BY ConstantsAssumption DEF BitsOfByte
<1>2. \A S \in SUBSET Nat : <<"bits", S>> \in ByteContent
  BY DEF ByteContent
<1>3. \A b : <<"bits", BitsOfByte(bits, b)>> \in ByteContent
  BY <1>1, <1>2
<1>4. SavedData(data, n, bits) \in [Byte -> ByteContent]
  BY <1>3 DEF SavedData
<1> QED
  BY <1>4 DEF PageOf, Page

\* save_page begins a page that holds nothing.
LEMMA SaveCounts ==
    ASSUME writer \in Writers, value_size \in ValueSizes, NEW s, NEW ins \in Inserted,
           CounterInv(s, ins)
    PROVE  LET t == SavePage(s)
           IN  /\ CounterInv(t, ins)
               /\ t.rows = 0 /\ t.idx = s.idx + 1
               /\ \A p \in 1 .. s.idx : t.pages[p] = s.pages[p]
               /\ t.pages[s.idx + 1] = SavedAs(s) /\ SavedAs(s) \in Page
<1> DEFINE t == SavePage(s)
           ps == WithPage(s)
           page == SavedAs(s)
           c == Count(s.bits, s.rows)
<1>1. /\ s.idx \in Nat /\ s.rows \in Nat /\ s.bits \in SUBSET Nat /\ s.end = Offset(c)
      /\ Len(ins) \in Nat
  BY DEF CounterInv, Inserted
<1>2. c \in 0 .. s.rows
  BY <1>1, CountRows
<1>3. /\ ps \in Seq(Page) /\ Len(ps) = s.idx + 1
      /\ \A p \in 1 .. s.idx : ps[p] = s.pages[p]
      /\ \A p \in 1 .. (s.idx + 1) : ps[p].val_count <= ps[p].num_rows
      /\ ps[s.idx + 1] \in Page
  BY PageReady
<1>4. page = PageOf(s.rows, c, ps[s.idx + 1].data, s.bits)
  <2>1. (s.end - DataBegin) \div value_size = c
    <3> HIDE DEF c
    <3> QED
      BY <1>1, <1>2, Sizes
  <2> QED
    BY <2>1 DEF SavedAs
<1>5. page \in Page /\ page.val_count = c /\ page.num_rows = s.rows
  <2>1. ps[s.idx + 1].data \in [Byte -> ByteContent]
    BY <1>3 DEF Page
  <2>2. page \in Page
    <3> DEFINE data == ps[s.idx + 1].data
    <3>1. c \in Nat /\ data \in [Byte -> ByteContent]
      BY <2>1, <1>1, <1>2
    <3> HIDE DEF c, page, data, ps
    <3>2. page = PageOf(s.rows, c, data, s.bits)
      BY <1>4 DEF data
    <3> QED
      BY <3>1, <3>2, <1>1, SavedType
  <2> QED
    BY <2>2, <1>4 DEF PageOf
<1>6. t = [pages |-> [ps EXCEPT ![s.idx + 1] = page],
           idx |-> s.idx + 1, rows |-> 0, end |-> DataBegin, bits |-> NextBits(s.bits)]
  BY DEF SavePage, SavedAs, PageOf
<1> HIDE DEF page, ps, c, t
<1>7. /\ t.pages \in Seq(Page) /\ Len(t.pages) = s.idx + 1
      /\ \A p \in 1 .. s.idx : t.pages[p] = ps[p]
      /\ t.pages[s.idx + 1] = page
  BY <1>1, <1>3, <1>5, <1>6, LastReplaced
<1>8. t.idx = s.idx + 1 /\ t.rows = 0 /\ t.end = DataBegin /\ t.bits = NextBits(s.bits)
  BY <1>6
<1>9. t.bits \in SUBSET Nat /\ Count(t.bits, 0) = 0
  BY <1>1, <1>8, CountRows DEF NextBits
<1>10. BitmapSize(0) = 0
  <2>1. BitsPerByte \in Nat \ {0} /\ BitmapSize(0) \in Nat /\ 0 * BitsPerByte = 0
    BY ConstantsAssumption, BitmapOfRows
  <2>2. 0 < BitmapSize(0) => 0 * BitsPerByte < 0
    BY BitmapOfRows
  <2> QED
    BY <2>1, <2>2
<1>11. \A p \in DOMAIN t.pages : t.pages[p].val_count <= t.pages[p].num_rows
  <2>1. DOMAIN t.pages = 1 .. (s.idx + 1)
    BY <1>7
  <2>2. \A p \in 1 .. (s.idx + 1) : p = s.idx + 1 \/ p \in 1 .. s.idx
    BY <1>1
  <2>3. c <= s.rows
    BY <1>1, <1>2
  <2> QED
    BY <2>1, <2>2, <2>3, <1>3, <1>5, <1>7
<1>12. /\ t.end = Offset(Count(t.bits, t.rows)) /\ BitmapSize(t.rows) + 4 <= PageSize
       /\ t.end + BitmapSize(t.rows) <= PageSize
  <2>1. DataBegin = value_size /\ Offset(0) = value_size /\ value_size \in {4, 8} /\ PageSize \in Nat
        /\ PageSize > 16
    BY Sizes
  <2> QED
    BY <2>1, <1>8, <1>9, <1>10
<1>13. t.rows \in 0 .. Len(ins) /\ Len(t.pages) = t.idx /\ t.idx \in Nat
  BY <1>1, <1>7, <1>8
<1>14. CounterInv(t, ins)
  BY <1>7, <1>9, <1>11, <1>12, <1>13 DEF CounterInv
<1> QED
  BY <1>3, <1>5, <1>7, <1>8, <1>14 DEF t, page

\* It is the page after those saved before, and full unless the column is finalized.
LEMMA SaveExtends ==
    ASSUME writer \in Writers, value_size \in ValueSizes, Fits, NEW s, NEW ins \in Inserted,
           CounterInv(s, ins), CurrentInv(s, ins), SavedInv(s, ins, FALSE), NEW fin \in BOOLEAN,
           fin \/ s.end + value_size + s.rows \div BitsPerByte + 1 > PageSize
    PROVE  CurrentInv(SavePage(s), ins) /\ SavedInv(SavePage(s), ins, fin)
<1> DEFINE t == SavePage(s)
           n == s.idx
           page == SavedAs(s)
           base == Len(ins) - s.rows
<1>1. /\ t.rows = 0 /\ t.idx = n + 1
      /\ \A p \in 1 .. n : t.pages[p] = s.pages[p]
      /\ t.pages[n + 1] = page /\ page \in Page
  BY SaveCounts
<1>2. n \in Nat /\ s.rows \in Nat /\ Len(ins) \in Nat /\ base \in Nat /\ s.pages \in Seq(Page)
      /\ n <= Len(s.pages) /\ s.end = Offset(Count(s.bits, s.rows))
  BY DEF CounterInv, Inserted
<1>3. HoldsRows(page, base, ins)
  BY SavedReads
<1>4. ~fin => FullPage(page)
  <2> DEFINE c == Count(s.bits, s.rows)
  <2>1. c \in Nat
    <3>1. s.rows \in Nat
      BY <1>2
    <3>2. c \in 0 .. s.rows
      BY <3>1, CountRows
    <3> HIDE DEF c
    <3> QED
      BY <3>1, <3>2
  <2>2. (s.end - DataBegin) \div value_size = c
    <3> HIDE DEF c
    <3> QED
      BY <1>2, <2>1, Sizes DEF c
  <2>3. page.num_rows = s.rows /\ page.val_count = c
    BY <2>2 DEF SavedAs, PageOf
  <2> QED
    BY <2>3, <1>2 DEF FullPage
<1>5. page.num_rows = s.rows
  BY DEF SavedAs, PageOf
<1> HIDE DEF t, page, base, n
<1>6. CurrentInv(t, ins)
  BY <1>1 DEF CurrentInv, HoldsBits, HoldsValues
<1>7. PICK first : Begins(first, s.pages, n, FALSE, ins) /\ first[n + 1] + s.rows = Len(ins)
  BY DEF SavedInv, n
<1> DEFINE next == [p \in 1 .. n + 2 |-> IF p = n + 2 THEN Len(ins) ELSE first[p]]
<1>8. /\ first \in [1 .. n + 1 -> Nat] /\ first[1] = 0 /\ first[n + 1] = base
      /\ \A p \in 1 .. n :
            /\ first[p + 1] = first[p] + s.pages[p].num_rows /\ first[p + 1] <= Len(ins)
            /\ HoldsRows(s.pages[p], first[p], ins)
            /\ FullPage(s.pages[p])
            /\ (\A q \in 1 .. (p - 1) : NoNull(s.pages[q]))
                 => first[p] = (p - 1) * s.pages[1].num_rows
  BY <1>2, <1>7 DEF Begins, base, n
<1>9. /\ next \in [1 .. n + 2 -> Nat] /\ next[1] = 0
      /\ \A p \in 1 .. n + 1 : next[p] = first[p]
      /\ next[n + 2] = Len(ins)
  BY <1>2, <1>8
<1> HIDE DEF next
<1>10. ASSUME \A q \in 1 .. n : NoNull(t.pages[q])
       PROVE  first[n + 1] = n * t.pages[1].num_rows
  <2>1. CASE n = 0
    <3>1. t.pages[1].num_rows \in Nat
      BY <2>1, <1>1 DEF Page
    <3> QED
      BY <2>1, <3>1, <1>8
  <2>2. CASE n # 0
    <3> DEFINE r == s.pages[1].num_rows
    <3>1. 1 \in 1 .. n /\ n \in 1 .. n
      BY <2>2, <1>2
    <3>2. s.pages[1] \in Page /\ s.pages[n] \in Page /\ t.pages[1] = s.pages[1] /\ r \in Nat
      <4>1. s.pages[1] \in Page /\ s.pages[n] \in Page
        BY <3>1, <1>2
      <4>2. t.pages[1] = s.pages[1]
        BY <3>1, <1>1
      <4>3. r \in Nat
        BY <4>1 DEF Page
      <4> QED
        BY <4>1, <4>2, <4>3
    <3>3. \A q \in 1 .. n : NoNull(s.pages[q])
      BY <1>1, <1>10
    <3>4. \A p \in 1 .. n : Offset(s.pages[p].val_count) + BitmapSize(s.pages[p].num_rows) <= PageSize
      BY <1>8 DEF HoldsRows
    <3>5. s.pages[n].num_rows <= r /\ r <= s.pages[n].num_rows
      BY <3>1, <3>2, <3>3, <3>4, <1>8, FullHasMost
    <3>6. s.pages[n].num_rows = r
      BY <3>2, <3>5 DEF Page
    <3>7. \A q \in 1 .. (n - 1) : NoNull(s.pages[q])
      BY <3>3, <1>2
    <3>8. first[n] = (n - 1) * r /\ first[n + 1] = first[n] + r
      BY <3>1, <3>6, <3>7, <1>8
    <3> HIDE DEF r
    <3>9. (n - 1) * r + r = n * r
      BY <3>2, <1>2
    <3> QED
      BY <3>2, <3>8, <3>9 DEF r
  <2> QED
    BY <2>1, <2>2
<1>11. ASSUME NEW p \in 1 .. n + 1
       PROVE  /\ next[p + 1] = next[p] + t.pages[p].num_rows /\ next[p + 1] <= Len(ins)
              /\ HoldsRows(t.pages[p], next[p], ins)
              /\ p < n + 1 \/ ~fin => FullPage(t.pages[p])
              /\ (\A q \in 1 .. (p - 1) : NoNull(t.pages[q]))
                   => next[p] = (p - 1) * t.pages[1].num_rows
  <2>1. CASE p = n + 1
    <3>1. next[p] = base /\ next[p + 1] = Len(ins) /\ t.pages[p] = page
      BY <2>1, <1>1, <1>2, <1>8, <1>9
    <3>2. base + s.rows = Len(ins)
      BY <1>2 DEF base
    <3>3. p - 1 = n
      BY <2>1, <1>2
    <3>4. ~ (p < n + 1)
      BY <2>1, <1>2
    <3>5. (\A q \in 1 .. n : NoNull(t.pages[q])) => next[p] = n * t.pages[1].num_rows
      BY <2>1, <3>1, <1>8, <1>10
    <3> QED
      BY <3>1, <3>2, <3>3, <3>4, <3>5, <1>2, <1>3, <1>4, <1>5
  <2>2. CASE p \in 1 .. n
    <3>1. t.pages[p] = s.pages[p] /\ t.pages[1] = s.pages[1] /\ next[p] = first[p]
      BY <2>2, <1>1, <1>2, <1>9
    <3>2. next[p + 1] = first[p + 1]
      BY <2>2, <1>2, <1>9
    <3>3. \A q \in 1 .. (p - 1) : t.pages[q] = s.pages[q]
      BY <2>2, <1>1, <1>2
    <3> QED
      BY <2>2, <3>1, <3>2, <3>3, <1>8
  <2> QED
    BY <2>1, <2>2, <1>2
<1>12. Begins(next, t.pages, t.idx, fin, ins)
  <2>1. n + 2 = n + 1 + 1
    BY <1>2
  <2> QED
    BY <2>1, <1>1, <1>9, <1>11 DEF Begins
<1>13. next[t.idx + 1] + t.rows = Len(ins)
  BY <1>1, <1>2, <1>9
<1>14. SavedInv(t, ins, fin)
  BY <1>12, <1>13 DEF SavedInv
<1> QED
  BY <1>6, <1>14 DEF t


\* One more row leaves the saved pages as they are.
LEMMA SavedKept ==
    ASSUME NEW s, NEW t, NEW ins \in Inserted, NEW v, v = Null \/ v = Len(ins) + 1,
           s.idx \in Nat, s.rows \in Nat, s.pages \in Seq(Page), s.idx <= Len(s.pages),
           t.idx = s.idx, t.rows = s.rows + 1, \A p \in 1 .. s.idx : t.pages[p] = s.pages[p],
           SavedInv(s, ins, FALSE)
    PROVE  SavedInv(t, Append(ins, v), FALSE)
<1> DEFINE next == Append(ins, v)
           n == s.idx
<1>1. /\ Len(ins) \in Nat /\ Len(next) = Len(ins) + 1
      /\ \A k \in 1 .. Len(ins) : next[k] = ins[k]
  BY InsertedGrows
<1> HIDE DEF next, n
<1>2. PICK first : Begins(first, s.pages, n, FALSE, ins) /\ first[n + 1] + s.rows = Len(ins)
  BY DEF SavedInv, n
<1>3. /\ first \in [1 .. n + 1 -> Nat] /\ first[1] = 0
      /\ \A p \in 1 .. n :
            /\ first[p + 1] = first[p] + s.pages[p].num_rows /\ first[p + 1] <= Len(ins)
            /\ HoldsRows(s.pages[p], first[p], ins)
            /\ FullPage(s.pages[p])
            /\ (\A q \in 1 .. (p - 1) : NoNull(s.pages[q]))
                 => first[p] = (p - 1) * s.pages[1].num_rows
  BY <1>2 DEF Begins, n
<1>4. ASSUME NEW p \in 1 .. n
      PROVE  /\ first[p + 1] = first[p] + t.pages[p].num_rows /\ first[p + 1] <= Len(next)
             /\ HoldsRows(t.pages[p], first[p], next)
             /\ FullPage(t.pages[p])
             /\ (\A q \in 1 .. (p - 1) : NoNull(t.pages[q]))
                  => first[p] = (p - 1) * t.pages[1].num_rows
  <2>1. n \in Nat /\ 1 \in 1 .. n /\ \A q \in 1 .. (p - 1) : q \in 1 .. n
    BY DEF n
  <2>2. t.pages[p] = s.pages[p] /\ t.pages[1] = s.pages[1]
        /\ \A q \in 1 .. (p - 1) : t.pages[q] = s.pages[q]
    BY <2>1 DEF n
  <2> DEFINE page == s.pages[p]
             base == first[p]
  <2>3. HoldsRows(page, base, next)
    <3>1. base \in Nat /\ page.num_rows \in Nat /\ base + page.num_rows <= Len(ins)
      <4>1. p \in 1 .. (n + 1) /\ page \in Page
        BY <2>1 DEF n
      <4>2. page.num_rows \in Nat
        BY <4>1 DEF Page
      <4> QED
        BY <4>1, <4>2, <1>3
    <3>2. HoldsRows(page, base, ins)
      BY <1>3
    <3> HIDE DEF page, base
    <3>3. \A k \in 1 .. page.num_rows : base + k \in 1 .. Len(ins)
      BY <3>1, <1>1
    <3>4. \A k \in 1 .. page.num_rows : next[base + k] = ins[base + k]
      BY <3>3, <1>1
    <3>5. [k \in 1 .. page.num_rows |-> next[base + k]] = [k \in 1 .. page.num_rows |-> ins[base + k]]
      BY <3>4
    <3> QED
      BY <3>2, <3>5 DEF HoldsRows
  <2>4. first[p + 1] <= Len(next)
    <3>1. p + 1 \in 1 .. (n + 1)
      BY <2>1
    <3>2. first[p + 1] \in Nat /\ first[p + 1] <= Len(ins)
      BY <3>1, <1>3
    <3> QED
      BY <3>2, <1>1
  <2> QED
    BY <2>2, <2>3, <2>4, <1>3
<1>5. Begins(first, t.pages, t.idx, FALSE, next)
  BY <1>3, <1>4 DEF Begins, n
<1>6. first[t.idx + 1] + t.rows = Len(next)
  <2>1. n + 1 \in 1 .. (n + 1)
    BY DEF n
  <2>2. first[n + 1] \in Nat
    BY <2>1, <1>3
  <2> QED
    BY <2>2, <1>1, <1>2 DEF n
<1> QED
  BY <1>5, <1>6 DEF SavedInv, next

-----------------------------------------------------------------------------
(* The steps. *)

\* What the invariants say of the pages depends on the type and the writer only.
LEMMA ColumnKept ==
    ASSUME UNCHANGED column, NEW s, NEW ins, NEW fin
    PROVE  /\ Fits' <=> Fits
           /\ CounterInv(s, ins)' <=> CounterInv(s, ins)
           /\ CurrentInv(s, ins)' <=> CurrentInv(s, ins)
           /\ SavedInv(s, ins, fin)' <=> SavedInv(s, ins, fin)
<1>1. value_size' = value_size /\ writer' = writer
  BY DEF column
<1>2. \A c : Offset(c)' = Offset(c)
  BY <1>1 DEF Offset, DataBegin
<1>3. Fits' <=> Fits
  BY <1>1 DEF Fits
<1>4. CounterInv(s, ins)' <=> CounterInv(s, ins)
  BY <1>2, <1>3 DEF CounterInv
<1>5. CurrentInv(s, ins)' <=> CurrentInv(s, ins)
  BY <1>1, <1>2 DEF CurrentInv, HoldsValues
<1>6. \A page, e : ValueAt(page, e)' = ValueAt(page, e)
  BY <1>1 DEF ValueAt
<1>7. DataBegin' = DataBegin
  BY <1>1 DEF DataBegin
<1>8. \A page : PageRows(page)' = PageRows(page)
  BY <1>1, <1>6, <1>7 DEF PageRows
<1>9. \A page, base : HoldsRows(page, base, ins)' <=> HoldsRows(page, base, ins)
  BY <1>2, <1>8 DEF HoldsRows
<1>10. \A page : FullPage(page)' <=> FullPage(page)
  BY <1>1, <1>2 DEF FullPage
<1>11. \A first, pages_, n : Begins(first, pages_, n, fin, ins)' <=> Begins(first, pages_, n, fin, ins)
  BY <1>9, <1>10 DEF Begins
<1>12. SavedInv(s, ins, fin)' <=> SavedInv(s, ins, fin)
  BY <1>11 DEF SavedInv
<1> QED
  BY <1>3, <1>4, <1>5, <1>12

\* A step to a sound writer keeps the invariant.
LEMMA StepTo ==
    ASSUME IInv, UNCHANGED column, NEW t, NEW ins \in Inserted, NEW fin \in BOOLEAN,
           t = [pages |-> t.pages, idx |-> t.idx, rows |-> t.rows, end |-> t.end, bits |-> t.bits],
           Become(t), inserted' = ins, finalized' = fin, fin => t.rows = 0,
           CounterInv(t, ins), Fits => CurrentInv(t, ins) /\ SavedInv(t, ins, fin)
    PROVE  IInv'
<1>1. State' = t
  BY DEF State, Become
<1>2. CounterInv(State, inserted)'
  BY <1>1, ColumnKept
<1>3. Fits' => (CurrentInv(State, inserted) /\ SavedInv(State, inserted, finalized))'
  BY <1>1, ColumnKept
<1>4. writer' \in Writers /\ value_size' \in ValueSizes
  BY DEF IInv, column
<1>5. finalized' => num_rows' = 0
  BY DEF Become
<1> QED
  BY <1>2, <1>3, <1>4, <1>5 DEF IInv

Fresh(s) == s.rows = 0 /\ s.end = value_size

\* The page that the next row goes to.
LEMMA PageForRow ==
    ASSUME IInv, ~ finalized, NEW full,
           full /\ Fits => data_end + value_size + num_rows \div BitsPerByte + 1 > PageSize
    PROVE  LET s == IF full THEN SavePage(State) ELSE State
           IN  /\ CounterInv(s, inserted)
               /\ Fits => CurrentInv(s, inserted) /\ SavedInv(s, inserted, FALSE)
               /\ full => Fresh(s)
<1>1. /\ writer \in Writers /\ value_size \in ValueSizes /\ inserted \in Inserted
      /\ CounterInv(State, inserted)
      /\ Fits => CurrentInv(State, inserted) /\ SavedInv(State, inserted, FALSE)
  <2>1. finalized = FALSE
    BY DEF IInv
  <2> QED
    BY <2>1 DEF IInv
<1>2. CASE full
  <2> DEFINE s == SavePage(State)
  <2>1. CounterInv(s, inserted) /\ s.rows = 0
    BY <1>1, SaveCounts
  <2>2. ASSUME Fits PROVE CurrentInv(s, inserted) /\ SavedInv(s, inserted, FALSE)
    <3>1. State.end + value_size + State.rows \div BitsPerByte + 1 > PageSize
      BY <1>2, <2>2 DEF State
    <3> QED
      BY <1>1, <2>2, <3>1, SaveExtends
  <2>3. s.end = value_size
    BY <1>1, Sizes DEF SavePage
  <2> QED
    BY <1>2, <2>1, <2>2, <2>3 DEF Fresh
<1>3. CASE ~ full
  BY <1>1, <1>3
<1> QED
  BY <1>2, <1>3

\* insert keeps the invariant.
LEMMA InsertStep ==
    ASSUME IInv, Insert
    PROVE  IInv'
<1> DEFINE full == InsertFull
           s == IF full THEN SavePage(State) ELSE State
           row == Len(inserted) + 1
           w == num_rows \div BitsPerByte
<1>1. /\ writer \in Writers /\ value_size \in ValueSizes /\ inserted \in Inserted /\ ~ finalized
      /\ CounterInv(State, inserted)
  BY DEF IInv, Insert
<1>2. /\ Become(WithValue(s, row)) /\ inserted' = Append(inserted, row)
      /\ UNCHANGED column /\ finalized' = FALSE
  BY <1>1 DEF Insert, WithValue, IInv
<1>3. /\ data_end \in Nat /\ data_end >= 4 /\ w \in Nat
      /\ value_size \in {4, 8} /\ Reserve \in {4, 8} /\ (Fits => Reserve = value_size)
      /\ PageSize \in Nat /\ PageSize > 16
  <2>1. /\ value_size \in {4, 8} /\ writer \in {"inserter", "to_columnar"}
        /\ PageSize \in Nat /\ PageSize > 16
        /\ \A c \in Nat : Offset(c) \in Nat /\ Offset(c) >= value_size
    BY <1>1, Sizes
  <2>2. num_rows \in Nat /\ data_end = Offset(Count(bitmap, num_rows)) /\ Count(bitmap, num_rows) \in Nat
    <3>1. State.rows \in Nat /\ State.end = Offset(Count(State.bits, State.rows))
          /\ Count(State.bits, State.rows) \in Nat
      BY <1>1, RowCounted
    <3> QED
      BY <3>1 DEF State
  <2>3. w \in Nat
    BY <2>2, ConstantsAssumption, DivMod
  <2> QED
    BY <2>1, <2>2, <2>3 DEF Reserve, Fits
<1>4. full <=> data_end + Reserve + w + 1 > PageSize
  BY DEF InsertFull
<1> HIDE DEF full, w
<1>5. full /\ Fits => data_end + value_size + num_rows \div BitsPerByte + 1 > PageSize
  BY <1>4, <1>3 DEF w
<1>6. /\ CounterInv(s, inserted)
      /\ Fits => CurrentInv(s, inserted) /\ SavedInv(s, inserted, FALSE)
      /\ full => Fresh(s)
  BY <1>1, <1>5, PageForRow
<1>7. /\ s.rows \div BitsPerByte + 5 <= PageSize
      /\ Fits => s.end + value_size + s.rows \div BitsPerByte + 1 <= PageSize
  <2>1. CASE full
    <3>1. s.rows = 0 /\ s.end = value_size /\ 0 \div BitsPerByte = 0
      BY <2>1, <1>6, ConstantsAssumption DEF Fresh
    <3> HIDE DEF s
    <3> QED
      BY <3>1, <1>3
  <2>2. CASE ~ full
    <3>1. s.rows \div BitsPerByte = w /\ s.end = data_end
      BY <2>2 DEF State, w
    <3>2. data_end + Reserve + w + 1 <= PageSize
      BY <2>2, <1>3, <1>4
    <3> HIDE DEF s
    <3>3. w + 5 <= PageSize
      BY <3>2, <1>3
    <3>4. Fits => data_end + value_size + w + 1 <= PageSize
      BY <3>2, <1>3
    <3> QED
      BY <3>1, <3>3, <3>4
  <2> QED
    BY <2>1, <2>2
<1> HIDE DEF s
<1>8. PICK t : t = WithValue(s, row)
  OBVIOUS
<1>9. PICK next : next = Append(inserted, row)
  OBVIOUS
<1>10. /\ next \in Inserted /\ CounterInv(t, next)
       /\ Fits => CurrentInv(t, next)
  BY <1>1, <1>6, <1>7, <1>8, <1>9, ValueAdded
<1>11. Fits => SavedInv(t, next, FALSE)
  <2> SUFFICES ASSUME Fits PROVE SavedInv(t, next, FALSE)
    OBVIOUS
  <2>1. s.idx \in Nat /\ s.rows \in Nat /\ s.pages \in Seq(Page) /\ s.idx <= Len(s.pages)
        /\ row = Len(inserted) + 1 /\ Len(WithPage(s)) = s.idx + 1 /\ WithPage(s) \in Seq(Page)
        /\ \A p \in 1 .. s.idx : WithPage(s)[p] = s.pages[p]
    <3>1. Len(WithPage(s)) = s.idx + 1 /\ WithPage(s) \in Seq(Page)
          /\ \A p \in 1 .. s.idx : WithPage(s)[p] = s.pages[p]
      BY <1>6, PageReady
    <3>2. s.rows \in Nat
      BY <1>1, <1>6, RowCounted
    <3>3. s.idx \in Nat /\ s.pages \in Seq(Page) /\ s.idx <= Len(s.pages)
      BY <1>6 DEF CounterInv
    <3> QED
      BY <3>1, <3>2, <3>3
  <2>2. t.idx = s.idx /\ t.rows = s.rows + 1
        /\ t.pages = [WithPage(s) EXCEPT ![s.idx + 1].data = Stored(@, s.end, row)]
    BY <1>8 DEF WithValue
  <2>3. \A p \in 1 .. s.idx : t.pages[p] = s.pages[p]
    BY <2>1, <2>2
  <2>4. SavedInv(s, inserted, FALSE)
    BY <1>6
  <2> HIDE DEF row
  <2> QED
    BY <2>1, <2>2, <2>3, <2>4, <1>1, <1>9, SavedKept
<1>12. t = [pages |-> t.pages, idx |-> t.idx, rows |-> t.rows, end |-> t.end, bits |-> t.bits]
  BY <1>8 DEF WithValue
<1> HIDE DEF row
<1> QED
  BY <1>2, <1>8, <1>9, <1>10, <1>11, <1>12, StepTo

\* insert_null keeps the invariant.
LEMMA InsertNullStep ==
    ASSUME IInv, InsertNull
    PROVE  IInv'
<1> DEFINE full == NullFull
           s == IF full THEN SavePage(State) ELSE State
           w == num_rows \div BitsPerByte
<1>1. /\ writer \in Writers /\ value_size \in ValueSizes /\ inserted \in Inserted /\ ~ finalized
      /\ CounterInv(State, inserted)
  BY DEF IInv, InsertNull
<1>2. /\ Become(WithNull(s)) /\ inserted' = Append(inserted, Null)
      /\ UNCHANGED column /\ finalized' = FALSE
  BY <1>1 DEF InsertNull, WithNull, IInv
<1>3. /\ data_end \in Nat /\ data_end >= 4 /\ w \in Nat
      /\ value_size \in {4, 8} /\ PageSize \in Nat /\ PageSize > 16
  <2>1. /\ value_size \in {4, 8} /\ PageSize \in Nat /\ PageSize > 16
        /\ \A c \in Nat : Offset(c) \in Nat /\ Offset(c) >= value_size
    BY <1>1, Sizes
  <2>2. num_rows \in Nat /\ data_end = Offset(Count(bitmap, num_rows)) /\ Count(bitmap, num_rows) \in Nat
    <3>1. State.rows \in Nat /\ State.end = Offset(Count(State.bits, State.rows))
          /\ Count(State.bits, State.rows) \in Nat
      BY <1>1, RowCounted
    <3> QED
      BY <3>1 DEF State
  <2>3. w \in Nat
    BY <2>2, ConstantsAssumption, DivMod
  <2> QED
    BY <2>1, <2>2, <2>3
<1>4. full <=> data_end + w + 1 > PageSize
  BY DEF NullFull
<1> HIDE DEF full, w
<1>5. full /\ Fits => data_end + value_size + num_rows \div BitsPerByte + 1 > PageSize
  BY <1>4, <1>3 DEF w
<1>6. /\ CounterInv(s, inserted)
      /\ Fits => CurrentInv(s, inserted) /\ SavedInv(s, inserted, FALSE)
      /\ full => Fresh(s)
  BY <1>1, <1>5, PageForRow
<1>7. /\ s.rows \div BitsPerByte + 5 <= PageSize
      /\ Fits => s.end + s.rows \div BitsPerByte + 1 <= PageSize
  <2>1. CASE full
    <3>1. s.rows = 0 /\ s.end = value_size /\ 0 \div BitsPerByte = 0
      BY <2>1, <1>6, ConstantsAssumption DEF Fresh
    <3> HIDE DEF s
    <3> QED
      BY <3>1, <1>3
  <2>2. CASE ~ full
    <3>1. s.rows \div BitsPerByte = w /\ s.end = data_end
      BY <2>2 DEF State, w
    <3>2. data_end + w + 1 <= PageSize
      BY <2>2, <1>3, <1>4
    <3> HIDE DEF s
    <3>3. w + 5 <= PageSize
      BY <3>2, <1>3
    <3> QED
      BY <3>1, <3>2, <3>3
  <2> QED
    BY <2>1, <2>2
<1> HIDE DEF s
<1>8. PICK t : t = WithNull(s)
  OBVIOUS
<1>9. PICK next : next = Append(inserted, Null)
  OBVIOUS
<1>10. /\ next \in Inserted /\ CounterInv(t, next)
       /\ Fits => CurrentInv(t, next)
  BY <1>1, <1>6, <1>7, <1>8, <1>9, NullAdded
<1>11. Fits => SavedInv(t, next, FALSE)
  <2> SUFFICES ASSUME Fits PROVE SavedInv(t, next, FALSE)
    OBVIOUS
  <2>1. s.idx \in Nat /\ s.rows \in Nat /\ s.pages \in Seq(Page) /\ s.idx <= Len(s.pages)
    <3>1. s.rows \in Nat
      BY <1>1, <1>6, RowCounted
    <3>2. s.idx \in Nat /\ s.pages \in Seq(Page) /\ s.idx <= Len(s.pages)
      BY <1>6 DEF CounterInv
    <3> QED
      BY <3>1, <3>2
  <2>2. t.idx = s.idx /\ t.rows = s.rows + 1 /\ t.pages = s.pages
    BY <1>8 DEF WithNull
  <2>3. SavedInv(s, inserted, FALSE)
    BY <1>6
  <2> QED
    BY <2>1, <2>2, <2>3, <1>1, <1>9, SavedKept
<1>12. t = [pages |-> t.pages, idx |-> t.idx, rows |-> t.rows, end |-> t.end, bits |-> t.bits]
  BY <1>8 DEF WithNull
<1> QED
  BY <1>2, <1>8, <1>9, <1>10, <1>11, <1>12, StepTo

\* finalize keeps the invariant.
LEMMA FinalizeStep ==
    ASSUME IInv, Finalize
    PROVE  IInv'
<1> DEFINE s == IF num_rows # 0 THEN SavePage(State) ELSE State
<1>1. /\ writer \in Writers /\ value_size \in ValueSizes /\ inserted \in Inserted /\ ~ finalized
      /\ CounterInv(State, inserted)
      /\ Fits => CurrentInv(State, inserted) /\ SavedInv(State, inserted, FALSE)
  <2>1. finalized = FALSE
    BY DEF IInv, Finalize
  <2> QED
    BY <2>1 DEF IInv
<1>2. /\ Become(s) /\ inserted' = inserted /\ UNCHANGED column /\ finalized' = TRUE
  BY DEF Finalize
<1>3. CounterInv(s, inserted) /\ s.rows = 0
  BY <1>1, SaveCounts DEF State
<1>4. ASSUME Fits PROVE CurrentInv(s, inserted) /\ SavedInv(s, inserted, TRUE)
  <2>1. CASE num_rows # 0
    BY <1>1, <1>4, <2>1, SaveExtends
  <2>2. CASE num_rows = 0
    <3>1. SavedInv(State, inserted, TRUE)
      BY <1>1, <1>4 DEF SavedInv, Begins
    <3> QED
      BY <1>1, <1>4, <2>2, <3>1
  <2> QED
    BY <2>1, <2>2
<1>5. s = [pages |-> s.pages, idx |-> s.idx, rows |-> s.rows, end |-> s.end, bits |-> s.bits]
  BY DEF SavePage, State
<1> HIDE DEF s
<1>6. PICK t : t = s
  OBVIOUS
<1>7. PICK ins : ins = inserted
  OBVIOUS
<1> QED
  BY <1>1, <1>2, <1>3, <1>4, <1>5, <1>6, <1>7, StepTo

\* A new inserter satisfies the invariant.
LEMMA Initially ==
    ASSUME Init
    PROVE  IInv
<1>1. writer \in Writers /\ value_size \in ValueSizes
  BY DEF Init
<1>2. inserted = <<>> /\ <<>> \in Inserted /\ Len(inserted) = 0
  BY DEF Init, Inserted
<1>3. State = [pages |-> <<>>, idx |-> 0, rows |-> 0, end |-> DataBegin, bits |-> {}]
  BY DEF Init, State
<1>4. Count({}, 0) = 0 /\ Offset(0) = value_size /\ DataBegin = value_size
      /\ value_size \in {4, 8} /\ PageSize \in Nat /\ PageSize > 16
  BY <1>1, CountRows, Sizes
<1>5. BitmapSize(0) = 0
  <2>1. BitsPerByte \in Nat \ {0} /\ BitmapSize(0) \in Nat /\ 0 * BitsPerByte = 0
    BY ConstantsAssumption, BitmapOfRows
  <2>2. 0 < BitmapSize(0) => 0 * BitsPerByte < 0
    BY BitmapOfRows
  <2> QED
    BY <2>1, <2>2
<1>6. CounterInv(State, inserted)
  BY <1>2, <1>3, <1>4, <1>5 DEF CounterInv
<1>7. CurrentInv(State, inserted)
  BY <1>3 DEF CurrentInv, HoldsBits, HoldsValues
<1>8. SavedInv(State, inserted, finalized)
  <2> DEFINE first == [p \in 1 .. 1 |-> 0]
  <2>1. Begins(first, <<>>, 0, finalized, inserted)
    BY DEF Begins
  <2>2. first[0 + 1] + 0 = Len(inserted)
    BY <1>2
  <2> HIDE DEF first
  <2> QED
    BY <2>1, <2>2, <1>3 DEF SavedInv
<1> QED
  BY <1>1, <1>2, <1>6, <1>7, <1>8 DEF IInv, Init

\* Every state of the specification satisfies the inductive invariant.
THEOREM Invariant == Spec => []IInv
<1>1. Init => IInv
  BY Initially
<1>2. IInv /\ [Next]_vars => IInv'
  <2> SUFFICES ASSUME IInv, [Next]_vars PROVE IInv'
    OBVIOUS
  <2>1. CASE UNCHANGED vars
    <3>1. UNCHANGED column /\ Become(State) /\ inserted' = inserted /\ finalized' = finalized
      BY <2>1 DEF vars, State, Become
    <3>2. PICK t : t = State
      OBVIOUS
    <3>3. PICK ins : ins = inserted
      OBVIOUS
    <3>4. t = [pages |-> t.pages, idx |-> t.idx, rows |-> t.rows, end |-> t.end, bits |-> t.bits]
          /\ t.rows = num_rows
      BY <3>2 DEF State
    <3>5. ins \in Inserted /\ CounterInv(t, ins) /\ Become(t) /\ inserted' = ins
      BY <3>1, <3>2, <3>3 DEF IInv
    <3>6. CASE finalized = TRUE
      <4>1. (Fits => CurrentInv(t, ins) /\ SavedInv(t, ins, TRUE)) /\ t.rows = 0
        BY <3>2, <3>3, <3>4, <3>6 DEF IInv
      <4> QED
        BY <3>1, <3>4, <3>5, <3>6, <4>1, StepTo
    <3>7. CASE finalized = FALSE
      <4>1. Fits => CurrentInv(t, ins) /\ SavedInv(t, ins, FALSE)
        BY <3>2, <3>3, <3>4, <3>7 DEF IInv
      <4> QED
        BY <3>1, <3>4, <3>5, <3>7, <4>1, StepTo
    <3> QED
      BY <3>6, <3>7 DEF IInv
  <2>2. CASE Insert
    BY <2>2, InsertStep
  <2>3. CASE InsertNull
    BY <2>3, InsertNullStep
  <2>4. CASE Finalize
    BY <2>4, FinalizeStep
  <2> QED
    BY <2>1, <2>2, <2>3, <2>4 DEF Next, Done
<1> QED
  BY <1>1, <1>2, PTL DEF Spec

-----------------------------------------------------------------------------
(* The readers. *)

\* When the writer is done each page is saved, and the rows of the pages are all rows.
LEMMA AllSaved ==
    ASSUME IInv, finalized, Fits
    PROVE  /\ writer \in Writers /\ value_size \in ValueSizes
           /\ pages \in Seq(Page) /\ Len(pages) \in Nat
           /\ inserted \in Seq(Nat \union {Null}) /\ Len(inserted) \in Nat
           /\ \E first : /\ Begins(first, pages, Len(pages), TRUE, inserted)
                         /\ first[Len(pages) + 1] = Len(inserted)
<1>1. finalized = TRUE /\ num_rows = 0 /\ SavedInv(State, inserted, TRUE) /\ CounterInv(State, inserted)
      /\ writer \in Writers /\ value_size \in ValueSizes /\ inserted \in Inserted
  BY DEF IInv
<1>2. State.pages = pages /\ State.idx = last_page_idx /\ State.rows = 0
  BY <1>1 DEF State
<1>3. pages \in Seq(Page) /\ Len(pages) = last_page_idx /\ last_page_idx \in Nat
  BY <1>1, <1>2 DEF CounterInv
<1>4. inserted \in Seq(Nat \union {Null}) /\ Len(inserted) \in Nat
  BY <1>1 DEF Inserted
<1>5. PICK first : Begins(first, pages, last_page_idx, TRUE, inserted)
                   /\ first[last_page_idx + 1] + 0 = Len(inserted)
  BY <1>1, <1>2 DEF SavedInv
<1>6. first[last_page_idx + 1] \in Nat
  BY <1>3, <1>5 DEF Begins
<1>7. first[last_page_idx + 1] = Len(inserted)
  BY <1>4, <1>5, <1>6
<1>8. Begins(first, pages, Len(pages), TRUE, inserted) /\ first[Len(pages) + 1] = Len(inserted)
  BY <1>3, <1>5, <1>7
<1> QED
  BY <1>1, <1>3, <1>4, <1>8

\* What the invariant says of the pages suffices for the reader to find what was inserted.
LEMMA ReadBack ==
    ASSUME IInv
    PROVE  RoundTrip
<1> SUFFICES ASSUME finalized, Fits
             PROVE  /\ value_size = 4 => CursorRows(Len(inserted)) = inserted
                    /\ CopyScan(Len(inserted)) = inserted
  BY DEF RoundTrip, Fits
<1> DEFINE n == Len(pages)
           S == Nat \union {Null}
           seqs == [p \in DOMAIN pages |-> PageRows(pages[p])]
<1>1. /\ pages \in Seq(Page) /\ n \in Nat
      /\ inserted \in Seq(S) /\ Len(inserted) \in Nat
  BY AllSaved
<1>2. PICK first : Begins(first, pages, n, TRUE, inserted) /\ first[n + 1] = Len(inserted)
  BY AllSaved
<1>3. first \in [1 .. n + 1 -> Nat] /\ first[1] = 0 /\ first[n + 1] = Len(inserted)
  BY <1>2 DEF Begins
<1>4. DOMAIN pages = 1 .. n /\ Len(seqs) = n /\ \A p \in 1 .. n : seqs[p] = PageRows(pages[p])
  BY <1>1
<1>5. ASSUME NEW p \in 1 .. n
      PROVE  /\ seqs[p] \in Seq(S) /\ first[p + 1] = first[p] + Len(seqs[p])
             /\ first[p + 1] <= Len(inserted)
             /\ \A k \in 1 .. Len(seqs[p]) : seqs[p][k] = inserted[first[p] + k]
  <2> DEFINE m == pages[p].num_rows
             base == first[p]
  <2>1. /\ first[p + 1] = base + m /\ first[p + 1] <= Len(inserted)
        /\ seqs[p] = [k \in 1 .. m |-> inserted[base + k]]
    <3>1. first[p + 1] = base + m /\ first[p + 1] <= Len(inserted) /\ HoldsRows(pages[p], base, inserted)
      BY <1>2 DEF Begins
    <3>2. PageRows(pages[p]) = [k \in 1 .. m |-> inserted[base + k]]
      BY <3>1 DEF HoldsRows
    <3> HIDE DEF seqs, m, base
    <3> QED
      BY <3>1, <3>2, <1>4
  <2>2. m \in Nat /\ base \in Nat
    <3>1. pages[p] \in Page
      BY <1>1
    <3>2. p \in 1 .. (n + 1)
      BY <1>1
    <3> QED
      BY <3>1, <3>2, <1>3 DEF Page
  <2> HIDE DEF m, base, n, seqs
  <2>3. \A k \in 1 .. m : inserted[base + k] \in S
    <3>1. \A k \in 1 .. m : base + k \in 1 .. Len(inserted)
      BY <2>1, <2>2, <1>1
    <3> QED
      BY <3>1, <1>1, ElementOfSeq
  <2> HIDE DEF S
  <2>4. seqs[p] \in [1 .. m -> S]
    BY <2>1, <2>3
  <2>5. seqs[p] \in Seq(S) /\ Len(seqs[p]) = m
    BY <2>2, <2>4, SeqDef
  <2> QED
    BY <2>1, <2>5 DEF base
<1>6. FormatRows = FlattenSeq(seqs)
  BY DEF FormatRows
<1>7. CASE n = 0
  <2>1. pages = <<>> /\ seqs = <<>> /\ Len(inserted) = 0
    BY <1>1, <1>3, <1>4, <1>7
  <2>2. inserted = <<>>
    BY <2>1, <1>1
  <2>3. FlattenSeq(seqs) = seqs
    BY <1>4, <1>7 DEF FlattenSeq
  <2> HIDE DEF seqs
  <2>4. FormatRows = inserted
    BY <2>1, <2>2, <2>3, <1>6
  <2>5. CopyScan(Len(inserted)) = inserted
    BY <2>1, <2>2, <2>4 DEF CopyScan
  <2>6. value_size = 4 => CursorRows(Len(inserted)) = inserted
    BY <2>1, <2>2, <2>4 DEF CursorRows
  <2> QED
    BY <2>5, <2>6
<1>8. CASE n # 0
  <2>1. n \in Nat \ {0}
    BY <1>1, <1>8
  <2> HIDE DEF n, seqs, S
  <2>2. FlattenSeq(seqs) = inserted
    <3>1. \A p \in 1 .. n :
            /\ seqs[p] \in Seq(S) /\ first[p + 1] = first[p] + Len(seqs[p])
            /\ first[p + 1] <= Len(inserted)
            /\ \A k \in 1 .. Len(seqs[p]) : seqs[p][k] = inserted[first[p] + k]
      BY <1>5
    <3>2. Len(seqs) = n /\ inserted \in Seq(S)
      BY <1>1, <1>4
    <3> QED
      <4>1. Follow(S, seqs, n, first, inserted)
        BY <2>1, <3>1, <1>3 DEF Follow
      <4> QED
        BY <4>1, <3>2, FlattenedIsAll
  <2>3. FormatRows = inserted
    BY <2>2, <1>6
  <2>4. DOMAIN inserted = 1 .. Len(inserted) /\ inserted = [r \in 1 .. Len(inserted) |-> inserted[r]]
    BY <1>1, LenProperties
  <2>5. ~ \E r \in 1 .. Len(inserted) : r > Len(inserted)
    BY <1>1
  <2>6. CopyScan(Len(inserted)) = [r \in 1 .. Len(inserted) |-> inserted[r]]
    BY <2>3, <2>4, <2>5 DEF CopyScan
  <2>7. value_size = 4 => CursorRows(Len(inserted)) = [r \in 1 .. Len(inserted) |-> inserted[r]]
    BY <2>3, <2>4 DEF CursorRows
  <2> QED
    BY <2>4, <2>6, <2>7
<1> QED
  BY <1>7, <1>8

\* A page without NULL has its values one after another.
LEMMA DenseReads ==
    ASSUME NEW page \in Page, NoNull(page), NEW base, NEW ins, HoldsRows(page, base, ins),
           NEW r \in Nat, r < page.num_rows
    PROVE  ValueAt(page, DataBegin + value_size * r) = ins[base + (r + 1)]
<1> DEFINE m == page.num_rows
           bits == {b \in Nat : BitAt(page, b)}
<1>1. m \in Nat /\ r + 1 \in 1 .. m /\ r \in 0 .. (m - 1)
  BY DEF Page
<1>2. \A i \in 0 .. m : {b \in 0 .. (i - 1) : BitAt(page, b)} = Valid(bits, i)
  BY DEF Valid
<1>3. PageRows(page) = [k \in 1 .. m |-> ins[base + k]]
  BY DEF HoldsRows
<1>4. m = Cardinality({b \in 0 .. (m - 1) : BitAt(page, b)})
  BY DEF HoldsRows, NoNull
<1> HIDE DEF m, bits
<1>5. Count(bits, m) = m
  <2>1. m \in 0 .. m
    BY <1>1
  <2> QED
    BY <2>1, <1>2, <1>4 DEF Count
<1>6. \A b \in 0 .. (m - 1) : b \in bits
  BY <1>1, <1>5, CountRows
<1>7. BitAt(page, r)
  BY <1>1, <1>6 DEF bits
<1>8. Count(bits, r) = r
  <2>1. \A b \in 0 .. (r - 1) : b \in 0 .. (m - 1)
    BY <1>1
  <2>2. \A b \in 0 .. (r - 1) : b \in bits
    BY <2>1, <1>6
  <2> QED
    BY <2>2, CountRows
<1>9. PageRows(page)[r + 1] = IF BitAt(page, r)
        THEN ValueAt(page, DataBegin + value_size * Cardinality({b \in 0 .. (r - 1) : BitAt(page, b)}))
        ELSE Null
  <2>1. r + 1 - 1 = r
    OBVIOUS
  <2> QED
    BY <2>1, <1>1 DEF PageRows, m
<1>10. Cardinality({b \in 0 .. (r - 1) : BitAt(page, b)}) = r
  <2>1. r \in 0 .. m
    BY <1>1
  <2> QED
    BY <2>1, <1>2, <1>8 DEF Count
<1> QED
  BY <1>1, <1>3, <1>7, <1>9, <1>10

\* The page and the place in it of a row, when each page but the last has r rows.
LEMMA PlaceOfRow ==
    ASSUME NEW r \in Nat, NEW n \in Nat, NEW m \in Nat, m < n * r
    PROVE  /\ r \in Nat \ {0}
           /\ m \div r + 1 \in 1 .. n /\ m % r \in 0 .. (r - 1)
           /\ m = (m \div r) * r + (m % r)
<1>1. r # 0
  OBVIOUS
<1> DEFINE w == m \div r
           k == m % r
<1>2. w \in Nat /\ k \in 0 .. (r - 1) /\ m = w * r + k
  BY <1>1, DivMod
<1> HIDE DEF w, k
<1>3. w < n
  <2>1. SUFFICES ASSUME n <= w PROVE FALSE
    BY <1>2
  <2>2. n * r <= w * r
    BY <2>1, <1>2, ProductsAscend
  <2>3. n * r \in Nat /\ w * r \in Nat
    BY <1>2
  <2> QED
    BY <2>2, <2>3, <1>2
<1>4. w + 1 \in 1 .. n
  BY <1>2, <1>3
<1> QED
  BY <1>1, <1>2, <1>4 DEF w, k

\* What the invariant says of the pages suffices for every view of one value.
LEMMA ViewReads ==
    ASSUME IInv
    PROVE  ViewSound
<1> SUFFICES ASSUME finalized, value_size = 4, CanView, NEW i \in DOMAIN inserted
             PROVE  ViewRow(i - 1) = inserted[i]
  BY DEF ViewSound
<1> DEFINE n == Len(pages)
           r == RowsPerPage
           m == i - 1
<1>1. Fits
  BY DEF Fits
<1>2. /\ writer \in Writers /\ value_size \in ValueSizes
      /\ pages \in Seq(Page) /\ n \in Nat
      /\ inserted \in Seq(Nat \union {Null}) /\ Len(inserted) \in Nat
  BY <1>1, AllSaved
<1>3. PICK first : Begins(first, pages, n, TRUE, inserted) /\ first[n + 1] = Len(inserted)
  BY <1>1, AllSaved
<1>4. n \in Nat \ {0} /\ 1 \in 1 .. n /\ DOMAIN pages = 1 .. n
  BY <1>2 DEF CanView
<1>5. \A p \in 1 .. n : NoNull(pages[p]) /\ pages[p] \in Page /\ pages[p].num_rows \in Nat
  <2> TAKE p \in 1 .. n
  <2>1. pages[p] \in Page
    BY <1>2, <1>4
  <2>2. NoNull(pages[p])
    BY <1>4 DEF CanView, NoNull
  <2> QED
    BY <2>1, <2>2 DEF Page
<1>6. r = pages[1].num_rows /\ r \in Nat
  BY <1>4, <1>5 DEF RowsPerPage
<1>7. m \in Nat /\ i \in 1 .. Len(inserted) /\ m < Len(inserted)
  BY <1>2
<1> HIDE DEF n, r, m
<1>8. /\ first \in [1 .. n + 1 -> Nat]
      /\ \A p \in 1 .. n :
            /\ first[p + 1] = first[p] + pages[p].num_rows
            /\ HoldsRows(pages[p], first[p], inserted)
            /\ p < n => FullPage(pages[p])
            /\ (\A q \in 1 .. (p - 1) : NoNull(pages[q])) => first[p] = (p - 1) * r
  BY <1>3, <1>6 DEF Begins
<1>9. \A p \in 1 .. n : first[p] = (p - 1) * r
  <2> TAKE p \in 1 .. n
  <2>1. \A q \in 1 .. (p - 1) : q \in 1 .. n
    BY <1>4
  <2> QED
    BY <2>1, <1>5, <1>8
<1>10. pages[n].num_rows <= r
  <2>1. n \in 1 .. n
    BY <1>4
  <2>2. CASE n = 1
    BY <2>2, <1>4, <1>5, <1>6
  <2>3. CASE n # 1
    <3>1. 1 < n
      BY <2>3, <1>4
    <3>2. FullPage(pages[1])
      BY <3>1, <1>4, <1>8
    <3>3. Offset(pages[n].val_count) + BitmapSize(pages[n].num_rows) <= PageSize
      BY <2>1, <1>8 DEF HoldsRows
    <3> QED
      BY <2>1, <3>2, <3>3, <1>2, <1>4, <1>5, <1>6, FullHasMost
  <2> QED
    BY <2>2, <2>3
<1>11. first[n] = (n - 1) * r /\ Len(inserted) = (n - 1) * r + pages[n].num_rows
  <2>1. n \in 1 .. n
    BY <1>4
  <2>2. first[n] = (n - 1) * r
    BY <2>1, <1>9
  <2>3. first[n + 1] = first[n] + pages[n].num_rows
    BY <2>1, <1>8
  <2> QED
    BY <2>2, <2>3, <1>3
<1>12. m < n * r
  <2>1. n * r = (n - 1) * r + r /\ (n - 1) * r \in Nat
    <3> DEFINE k == n - 1
    <3>1. k \in Nat /\ n = k + 1
      BY <1>4
    <3> HIDE DEF k
    <3>2. (k + 1) * r = k * r + r /\ k * r \in Nat
      BY <3>1, <1>6, OneMore
    <3> QED
      BY <3>1, <3>2 DEF k
  <2>2. pages[n].num_rows \in Nat
    BY <1>4, <1>5
  <2> QED
    BY <2>1, <2>2, <1>6, <1>7, <1>10, <1>11
<1> DEFINE w == m \div r
           k == m % r
           p == w + 1
<1>13. r \in Nat \ {0} /\ p \in 1 .. n /\ k \in 0 .. (r - 1) /\ m = w * r + k
  BY <1>4, <1>6, <1>7, <1>12, PlaceOfRow
<1>14. w \in Nat
  BY <1>7, <1>13, DivMod
<1>15. ViewRow(i - 1) = ValueAt(pages[p], DataBegin + value_size * k)
  BY DEF ViewRow, m, r
<1> HIDE DEF w, k
<1>16. first[p] = w * r /\ p - 1 = w
  BY <1>9, <1>13, <1>14
<1>17. k \in Nat /\ k < pages[p].num_rows
  <2>1. CASE p = n
    <3>1. Len(inserted) = w * r + pages[p].num_rows
      BY <2>1, <1>11, <1>14
    <3>2. w * r \in Nat /\ pages[p].num_rows \in Nat
      BY <1>5, <1>6, <1>13, <1>14
    <3> HIDE DEF p
    <3> QED
      BY <3>1, <3>2, <1>7, <1>13
  <2>2. CASE p # n
    <3>1. p + 1 \in 1 .. n /\ p + 1 - 1 = w + 1
      BY <2>2, <1>4, <1>13, <1>14
    <3>2. first[p + 1] = (w + 1) * r /\ first[p + 1] = w * r + pages[p].num_rows
      BY <3>1, <1>8, <1>9, <1>13, <1>16
    <3>3. (w + 1) * r = w * r + r /\ w * r \in Nat /\ pages[p].num_rows \in Nat
      BY <1>5, <1>6, <1>13, <1>14
    <3> HIDE DEF p
    <3> QED
      BY <3>2, <3>3, <1>13
  <2> QED
    BY <2>1, <2>2
<1>18. first[p] + (k + 1) = i
  <2>1. w * r \in Nat
    BY <1>13, <1>14
  <2>2. i = m + 1
    BY <1>7 DEF m
  <2> QED
    BY <2>1, <2>2, <1>13, <1>16, <1>17
<1>19. ValueAt(pages[p], DataBegin + value_size * k) = inserted[first[p] + (k + 1)]
  <2> HIDE DEF p
  <2>1. HoldsRows(pages[p], first[p], inserted) /\ NoNull(pages[p]) /\ pages[p] \in Page
    BY <1>5, <1>8, <1>13
  <2> QED
    BY <2>1, <1>17, DenseReads
<1> QED
  BY <1>15, <1>18, <1>19

-----------------------------------------------------------------------------

\* The counters of the page in progress are in their range, and its values and
\* bitmap fit the page whose space insert has tested.
THEOREM TypeCorrect == Spec => []TypeOK
<1>1. IInv => TypeOK
  <2> SUFFICES ASSUME IInv PROVE TypeOK
    OBVIOUS
  <2> DEFINE n == num_rows
  <2>1. CounterInv(State, inserted) /\ writer \in Writers /\ value_size \in ValueSizes
        /\ inserted \in Inserted
    BY DEF IInv
  <2>2. /\ State.rows = n /\ State.idx = last_page_idx /\ State.pages = pages
        /\ State.end = data_end
    BY DEF State
  <2>3. n \in Nat
    BY <2>1, <2>2 DEF CounterInv, Inserted
  <2>4. last_page_idx \in {Len(pages), Len(pages) - 1}
    BY <2>1, <2>2 DEF CounterInv
  <2>5. \A p \in DOMAIN pages : pages[p].val_count <= pages[p].num_rows
    BY <2>1, <2>2 DEF CounterInv
  <2>6. BitmapSize(n) + 4 <= PageSize /\ (Fits => data_end + BitmapSize(n) <= PageSize)
    BY <2>1, <2>2 DEF CounterInv
  <2> DEFINE b == BitmapSize(n)
  <2>7. b \in Nat /\ n <= b * BitsPerByte
    BY <2>3, BitmapOfRows
  <2>8. BitsPerByte \in Nat \ {0} /\ PageSize \in Nat
    BY ConstantsAssumption
  <2> HIDE DEF b, n
  <2>9. n \in 0 .. (BitsPerByte * PageSize - 1)
    <3>1. b + 1 <= PageSize /\ b + 1 \in Nat
      BY <2>6, <2>7, <2>8 DEF b
    <3>2. (b + 1) * BitsPerByte <= PageSize * BitsPerByte
      BY <3>1, <2>8, ProductsAscend
    <3>3. (b + 1) * BitsPerByte = b * BitsPerByte + BitsPerByte /\ b * BitsPerByte \in Nat
          /\ PageSize * BitsPerByte \in Nat /\ PageSize * BitsPerByte = BitsPerByte * PageSize
      BY <2>7, <2>8
    <3> QED
      BY <3>2, <3>3, <2>3, <2>7, <2>8
  <2> QED
    BY <2>4, <2>5, <2>6, <2>9 DEF TypeOK, Fits, n
<1> QED
  BY <1>1, Invariant, PTL

\* copy_scan, and the cursor in an INT32 column, find the rows that were inserted.
THEOREM RowsReadBack == Spec => []RoundTrip
<1>1. IInv => RoundTrip
  BY ReadBack
<1> QED
  BY <1>1, Invariant, PTL

\* A column that is taken for a view reads as it was inserted.
THEOREM ViewsAreSound == Spec => []ViewSound
<1>1. IInv => ViewSound
  BY ViewReads
<1> QED
  BY <1>1, Invariant, PTL
=============================================================================
