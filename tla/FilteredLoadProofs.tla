------------------------- MODULE FilteredLoadProofs -------------------------
(***************************************************************************)
(* Proofs about filtered loading.  FilteredLoad, for every set of values,  *)
(* literals and patterns, every size of a byte and every number of records *)
(* and calls: the evaluation of a statement over bitmaps selects the       *)
(* records of which it is true, and from_csv returns those records, from   *)
(* whichever cache.  FilterThreadPool, on which the kernels of that        *)
(* evaluation run, for every number of workers, of tasks, of calls and of  *)
(* spurious wake-ups: the caller never touches the function while a worker *)
(* may read it, no wake-up is lost, and a call of run is a parallel for,   *)
(* so that FilteredLoad may take a kernel for one step.                    *)
(***************************************************************************)
EXTENDS FilteredLoad, FilterThreadPool, CommonLemmas

Bit == 0 .. (BitsPerByte - 1)

\* The bitmaps of n rows.
Bitmap(n) == [1 .. BytesFor(n) -> SUBSET Bit]

\* The bit of row i is set.
IsSet(bitmap, i) == i % BitsPerByte \in bitmap[i \div BitsPerByte + 1]

Cell == IntValues \union StrValues \union {0, Null}
Record == [Column -> Cell]

\* A column of n values, the i-th of which has its bit set when it is not NULL.
Shape(n) == [data : Seq(Cell), bitmap : Bitmap(n)]

\* The column is column c of the n records of f.
HoldsFile(column, f, n, c) ==
    /\ column \in Shape(n)
    /\ Len(column.data) = n
    /\ \A i \in 0 .. (n - 1) : IsSet(column.bitmap, i) <=> f[i + 1][c] # Null
    /\ \A i \in 0 .. (n - 1) : f[i + 1][c] # Null => column.data[i + 1] = f[i + 1][c]

\* The columns hold the file: a bit for every value that is not NULL.
ColumnInv ==
    /\ file \in Seq(Record)
    /\ columns = [c \in Column |-> columns[c]]
    /\ \A c \in Column : HoldsFile(columns[c], file, Len(file), c)

\* Where the call is, and what it has by then.
PhaseInv ==
    /\ phase \in {"idle", "parse", "eval", "copy", "returned"}
    /\ filtered \in BOOLEAN
    /\ table_cached \in BOOLEAN
    /\ phase \in {"eval", "copy", "returned"} => table_cached
    /\ phase \in {"idle", "parse"} => stack = <<>> /\ ~table_cached
    /\ phase = "eval" => filtered
    /\ phase \in {"copy", "returned"} /\ filtered => Len(stack) = 1

\* The entries of the stack whose bitmap, when exact, selects the rows of truth.
SoundEntry ==
    {e \in [bytes : Bitmap(Len(file)), truth : SUBSET Rows, exact : BOOLEAN] :
        e.exact => \A i \in Rows : IsSet(e.bytes, i) <=> i \in e.truth}

StackInv == stack \in Seq(SoundEntry)

\* The records at the rows of s, column c.
RecordsAt(s, c) == [k \in DOMAIN s |-> file[s[k] + 1][c]]

\* What has been copied so far is what is selected.
OutInv ==
    /\ out = [c \in Column |-> out[c]]
    /\ phase \in {"parse", "eval"} => \A c \in Column : out[c] = None
    /\ phase = "copy" =>
          \A c \in Column :
              out[c] # None => out[c] = RecordsAt(Selected, c) /\ ret_rows = Len(Selected)
    /\ phase = "returned" =>
          \A c \in Column : out[c] = RecordsAt(Selected, c) /\ ret_rows = Len(Selected)

\* The cached result is the whole table.
CacheInv ==
    result_cache # None =>
        /\ table_cached
        /\ result_cache = [c \in Column |-> RecordsAt(InOrder(Rows), c)]

IInv == ColumnInv /\ PhaseInv /\ StackInv /\ OutInv /\ CacheInv

-----------------------------------------------------------------------------
(* Bytes and bits. *)

\* Every row has its bit in the bytes of n rows, which are no more than needed.
LEMMA BytesOfRows ==
    ASSUME NEW n \in Nat
    PROVE  /\ BytesFor(n) \in Nat
           /\ n <= BytesFor(n) * BitsPerByte
           /\ \A i \in 0 .. (n - 1) : i \div BitsPerByte + 1 \in 1 .. BytesFor(n)
           /\ \A q \in Nat : q < BytesFor(n) => q * BitsPerByte < n
<1> DEFINE d == BitsPerByte
           m == BytesFor(n)
<1>1. d \in Nat \ {0}
  BY ConstantsAssumption
<1>2. m = (n + d - 1) \div d /\ n + d - 1 \in Nat
  BY <1>1 DEF BytesFor
<1>3. m \in Nat
  BY <1>1, <1>2, DivMod
<1>4. \A q \in Nat : q <= m <=> q * d <= n + d - 1
  BY <1>1, <1>2, Quotient
<1> HIDE DEF d, m
<1>5. \A q \in Nat : q * d \in Nat /\ (q + 1) * d = q * d + d
  BY <1>1
<1>6. n <= m * d
  <2>1. ~ ((m + 1) * d <= n + d - 1)
    BY <1>3, <1>4
  <2> QED
    BY <2>1, <1>1, <1>3, <1>5
<1>7. \A q \in Nat : q < m => q * d < n
  <2> TAKE q \in Nat
  <2>1. q + 1 <= m <=> (q + 1) * d <= n + d - 1
    BY <1>4
  <2> QED
    BY <2>1, <1>1, <1>3, <1>5
<1>8. ASSUME NEW i \in 0 .. (n - 1) PROVE i \div d + 1 \in 1 .. m
  <2>1. i \in Nat /\ i \div d \in Nat /\ (i \div d) * d <= i
    BY <1>1, <1>8, DivMod, Quotient
  <2>2. ~ (m <= i \div d)
    BY <2>1, <1>1, <1>3, <1>5, <1>6, <1>8, Quotient
  <2> QED
    BY <2>1, <2>2, <1>3
<1> QED
  BY <1>3, <1>6, <1>7, <1>8 DEF d, m

\* One more row needs one more byte when the last one is full.
LEMMA BytesOfNext ==
    ASSUME NEW n \in Nat
    PROVE  /\ n \div BitsPerByte \in Nat
           /\ BytesFor(n + 1) = n \div BitsPerByte + 1
           /\ \/ BytesFor(n) = n \div BitsPerByte + 1
              \/ BytesFor(n) = n \div BitsPerByte /\ (n % BitsPerByte) = 0
<1> DEFINE d == BitsPerByte
           w == n \div d
           r == n % d
<1>1. d \in Nat \ {0}
  BY ConstantsAssumption
<1>2. w \in Nat /\ r \in 0 .. (d - 1) /\ n = w * d + r
  BY <1>1, DivMod
<1>3. /\ BytesFor(n + 1) \in Nat /\ BytesFor(n) \in Nat
      /\ n < BytesFor(n + 1) * d
      /\ n <= BytesFor(n) * d
      /\ w < BytesFor(n) => w * d < n
      /\ w + 1 < BytesFor(n) => (w + 1) * d < n
      /\ w + 1 < BytesFor(n + 1) => (w + 1) * d < n + 1
  <2>1. n + 1 \in Nat /\ w + 1 \in Nat
    BY <1>2
  <2>2. n + 1 <= BytesFor(n + 1) * d
    BY <2>1, BytesOfRows
  <2>3. BytesFor(n + 1) \in Nat /\ BytesFor(n + 1) * d \in Nat
    BY <2>1, <1>1, BytesOfRows
  <2> HIDE DEF w
  <2> QED
    BY <2>1, <2>2, <2>3, <1>2, BytesOfRows
<1> HIDE DEF d, w, r
<1>4. \A q \in Nat : q * d \in Nat /\ (q + 1) * d = q * d + d
  BY <1>1
<1>5. \A q \in Nat : q <= w => q * d <= w * d
  BY <1>1, <1>2, ProductsAscend
<1>6. BytesFor(n + 1) = w + 1
  BY <1>1, <1>2, <1>3, <1>4, <1>5
<1>7. BytesFor(n) <= w + 1
  BY <1>1, <1>2, <1>3, <1>4
<1>8. CASE BytesFor(n) = w + 1
  BY <1>2, <1>6, <1>8 DEF d, w
<1>9. CASE BytesFor(n) <= w
  <2>1. BytesFor(n) * d <= w * d
    BY <1>3, <1>5, <1>9
  <2>2. r = 0
    BY <2>1, <1>1, <1>2, <1>3, <1>4
  <2>3. ~ (BytesFor(n) + 1 <= w)
    BY <2>2, <1>1, <1>2, <1>3, <1>4, <1>5
  <2> QED
    BY <2>2, <2>3, <1>2, <1>3, <1>6, <1>9 DEF d, w, r
<1> QED
  BY <1>2, <1>3, <1>7, <1>8, <1>9

\* The bits of a bitmap that belong to rows.
LEMMA BitsOfRows ==
    ASSUME NEW n \in Nat, NEW bitmap \in Bitmap(n), NEW i \in 0 .. (n - 1)
    PROVE  /\ i \in BitsOf(bitmap) <=> IsSet(bitmap, i)
           /\ i % BitsPerByte \in Bit
           /\ i \div BitsPerByte + 1 \in 1 .. BytesFor(n)
<1>1. BitsPerByte \in Nat \ {0} /\ i \in Nat
  BY ConstantsAssumption
<1>2. Len(bitmap) = BytesFor(n)
  BY BytesOfRows DEF Bitmap
<1>3. BytesFor(n) \in Nat /\ n <= BytesFor(n) * BitsPerByte
  BY BytesOfRows
<1>4. BytesFor(n) * BitsPerByte \in Nat
  BY <1>1, <1>3
<1>5. i \in 0 .. (BytesFor(n) * BitsPerByte - 1)
  BY <1>1, <1>3, <1>4
<1>6. i % BitsPerByte \in Bit
  BY <1>1, DivMod DEF Bit
<1> QED
  BY <1>2, <1>5, <1>6, BytesOfRows DEF BitsOf, IsSet

-----------------------------------------------------------------------------
(* Filling the columns. *)

\* push_back of a bit adds one to the bitmap and leaves the earlier bits as they are.
LEMMA PushBitSets ==
    ASSUME NEW n \in Nat, NEW bitmap \in Bitmap(n), NEW not_null \in BOOLEAN
    PROVE  /\ PushBit(bitmap, n, not_null) \in Bitmap(n + 1)
           /\ \A i \in 0 .. (n - 1) : IsSet(PushBit(bitmap, n, not_null), i) <=> IsSet(bitmap, i)
           /\ IsSet(PushBit(bitmap, n, not_null), n) <=> not_null
<1> DEFINE w == n \div BitsPerByte
           bit == n % BitsPerByte
           pushed == PushBit(bitmap, n, not_null)
           new == IF not_null THEN {0} ELSE {}
           m == BytesFor(n)
<1>1. BitsPerByte \in Nat \ {0}
  BY ConstantsAssumption
<1>2. m \in Nat
  BY BytesOfRows
<1>3. bitmap \in [1 .. m -> SUBSET Bit]
  BY DEF Bitmap
<1>4. w \in Nat /\ bit \in 0 .. (BitsPerByte - 1) /\ n = w * BitsPerByte + bit
  BY <1>1, DivMod
<1>5. BytesFor(n + 1) = w + 1 /\ (m = w + 1 \/ (m = w /\ bit = 0))
  BY BytesOfNext
<1>6. pushed = IF w + 1 > Len(bitmap) THEN Append(bitmap, new)
               ELSE [bitmap EXCEPT ![w + 1] =
                       IF not_null THEN @ \union {bit} ELSE @ \ {bit}]
  BY DEF PushBit
<1>7. /\ pushed \in Bitmap(n + 1) <=> pushed \in [1 .. w + 1 -> SUBSET Bit]
      /\ IsSet(pushed, n) <=> bit \in pushed[w + 1]
  BY <1>5 DEF Bitmap, IsSet
<1> HIDE DEF w, bit, pushed, new, m
<1>8. Len(bitmap) = m
  BY <1>2, <1>3
<1>9. bit \in Bit /\ new \in SUBSET Bit
  BY <1>1, <1>4 DEF Bit, new
<1>10. /\ pushed \in [1 .. w + 1 -> SUBSET Bit]
       /\ \A b \in 1 .. m : b # w + 1 => pushed[b] = bitmap[b]
       /\ bit \in pushed[w + 1] <=> not_null
       /\ m = w + 1 => \A k : k # bit => (k \in pushed[w + 1] <=> k \in bitmap[w + 1])
  <2>1. CASE m = w + 1
    <3>1. pushed = [bitmap EXCEPT ![w + 1] =
                      IF not_null THEN bitmap[w + 1] \union {bit} ELSE bitmap[w + 1] \ {bit}]
      BY <2>1, <1>4, <1>6, <1>8
    <3> QED
      BY <2>1, <3>1, <1>3, <1>4, <1>9
  <2>2. CASE m = w /\ bit = 0
    <3>1. pushed = Append(bitmap, new)
      BY <2>2, <1>4, <1>6, <1>8
    <3>2. bitmap \in Seq(SUBSET Bit)
      <4>1. bitmap \in UNION {[1 .. k -> SUBSET Bit] : k \in Nat}
        BY <1>2, <1>3
      <4> QED
        BY <4>1, SeqDef
    <3>3. /\ Len(bitmap) = w /\ 0 \in Bit
          /\ DOMAIN pushed = 1 .. w + 1
          /\ \A b \in 1 .. w : pushed[b] = bitmap[b]
          /\ pushed[w + 1] = new
          /\ pushed \in Seq(SUBSET Bit)
      <4> HIDE <1>3
      <4> QED
        BY <3>1, <3>2, <2>2, <1>4, <1>8, <1>9
    <3> QED
      BY <2>2, <3>3, <1>3, <1>4, <1>9 DEF new
  <2> QED
    BY <2>1, <2>2, <1>5
<1>11. ASSUME NEW i \in 0 .. (n - 1)
       PROVE  IsSet(pushed, i) <=> IsSet(bitmap, i)
  <2> DEFINE v == i \div BitsPerByte
             k == i % BitsPerByte
  <2>0. i \in Nat
    OBVIOUS
  <2>1. v \in Nat /\ k \in 0 .. (BitsPerByte - 1) /\ i = v * BitsPerByte + k
    BY <1>1, <2>0, DivMod
  <2>2. v + 1 \in 1 .. m
    BY BytesOfRows DEF m
  <2>3. /\ IsSet(pushed, i) <=> k \in pushed[v + 1]
        /\ IsSet(bitmap, i) <=> k \in bitmap[v + 1]
    BY DEF IsSet
  <2> HIDE DEF v, k
  <2>4. CASE v + 1 # w + 1
    BY <2>2, <2>3, <2>4, <1>10
  <2>5. CASE v + 1 = w + 1
    <3>1. v = w
      BY <2>1, <2>5, <1>4
    <3>2. k # bit
      BY <3>1, <2>1, <1>4, <1>11
    <3>3. m = w + 1
      BY <3>1, <2>2, <1>2, <1>4, <1>5
    <3> QED
      BY <3>1, <3>2, <3>3, <2>3, <1>10
  <2> QED
    BY <2>4, <2>5
<1>12. \A i \in 0 .. (n - 1) : IsSet(pushed, i) <=> IsSet(bitmap, i)
  BY <1>11
<1> QED
  BY <1>7, <1>10, <1>12 DEF pushed

\* Column pushed is column and the value v.
Adds(pushed, column, n, v) ==
    /\ pushed \in Shape(n + 1)
    /\ Len(pushed.data) = n + 1
    /\ \A i \in 0 .. (n - 1) : pushed.data[i + 1] = column.data[i + 1]
    /\ \A i \in 0 .. (n - 1) : IsSet(pushed.bitmap, i) <=> IsSet(column.bitmap, i)
    /\ IsSet(pushed.bitmap, n) <=> v # Null
    /\ v # Null => pushed.data[n + 1] = v

\* push_back and push_back_null keep the earlier values and bits.
LEMMA PushAdds ==
    ASSUME NEW n \in Nat, NEW column \in Shape(n), Len(column.data) = n, NEW v \in Cell
    PROVE  Adds(Push(column, v), column, n, v)
<1> DEFINE pushed == Push(column, v)
           value == IF v = Null THEN 0 ELSE v
           bits == PushBit(column.bitmap, n, v # Null)
<1>1. pushed = [data |-> Append(column.data, value), bitmap |-> bits]
  BY DEF Push
<1>2. column.data \in Seq(Cell) /\ column.bitmap \in Bitmap(n) /\ (v # Null) \in BOOLEAN
  BY DEF Shape
<1>3. /\ bits \in Bitmap(n + 1)
      /\ \A i \in 0 .. (n - 1) : IsSet(bits, i) <=> IsSet(column.bitmap, i)
      /\ IsSet(bits, n) <=> (v # Null)
  BY <1>2, PushBitSets
<1>4. value \in Cell /\ (v # Null => value = v)
  BY DEF Cell
<1> HIDE DEF pushed, value, bits
<1>5. /\ Append(column.data, value) \in Seq(Cell)
      /\ Len(Append(column.data, value)) = n + 1
      /\ \A k \in 1 .. n : Append(column.data, value)[k] = column.data[k]
      /\ Append(column.data, value)[n + 1] = value
  BY <1>2, <1>4
<1>6. \A i \in 0 .. (n - 1) : i + 1 \in 1 .. n
  OBVIOUS
<1>7. pushed \in Shape(n + 1)
  BY <1>1, <1>3, <1>5 DEF Shape
<1>8. pushed.data = Append(column.data, value) /\ pushed.bitmap = bits
  BY <1>1
<1>9. \A i \in 0 .. (n - 1) : pushed.data[i + 1] = column.data[i + 1]
  BY <1>5, <1>6, <1>8
<1>10. Adds(pushed, column, n, v)
  BY <1>3, <1>4, <1>5, <1>7, <1>8, <1>9 DEF Adds
<1> QED
  BY <1>10 DEF pushed

\* A column that holds a file holds one more record once its value is pushed.
LEMMA ColumnGrows ==
    ASSUME NEW n \in Nat, NEW f, NEW g, NEW c, \A k \in 1 .. n : g[k] = f[k],
           NEW column, HoldsFile(column, f, n, c), g[n + 1][c] \in Cell
    PROVE  HoldsFile(Push(column, g[n + 1][c]), g, n + 1, c)
<1> DEFINE v == g[n + 1][c]
           pushed == Push(column, v)
<1>1. Adds(pushed, column, n, v)
  BY PushAdds DEF HoldsFile
<1> HIDE DEF pushed
<1>2. \A k \in 0 .. n : k = n \/ (k \in 0 .. (n - 1) /\ g[k + 1] = f[k + 1])
  OBVIOUS
<1>3. \A k \in 0 .. n : IsSet(pushed.bitmap, k) <=> g[k + 1][c] # Null
  BY <1>1, <1>2 DEF Adds, HoldsFile
<1>4. \A k \in 0 .. n : g[k + 1][c] # Null => pushed.data[k + 1] = g[k + 1][c]
  BY <1>1, <1>2 DEF Adds, HoldsFile
<1>5. n + 1 - 1 = n
  OBVIOUS
<1>6. pushed \in Shape(n + 1) /\ Len(pushed.data) = n + 1
  BY <1>1 DEF Adds
<1>7. HoldsFile(pushed, g, n + 1, c)
  BY <1>3, <1>4, <1>5, <1>6 DEF HoldsFile
<1> QED
  BY <1>7 DEF pushed

\* add_record of a column appends the row of the file that is read.
LEMMA AddRecordPreserves ==
    ASSUME ColumnInv, AddRecord
    PROVE  ColumnInv'
<1> DEFINE n == Len(file)
<1>1. PICK i \in IntValues \union {Null}, s \in StrValues \union {Null} :
        LET record == [int |-> i, str |-> s]
        IN  /\ file' = Append(file, record)
            /\ columns' = [c \in Column |-> Push(columns[c], record[c])]
  BY DEF AddRecord
<1> DEFINE record == [int |-> i, str |-> s]
<1>2. record \in Record
  <2>1. record = [c \in {"int", "str"} |-> IF c = "int" THEN i ELSE s]
    OBVIOUS
  <2>2. i \in Cell /\ s \in Cell
    BY DEF Cell
  <2> QED
    BY <2>1, <2>2 DEF Record, Column
<1>3. file' = Append(file, record) /\ columns' = [c \in Column |-> Push(columns[c], record[c])]
  BY <1>1
<1> HIDE DEF record
<1>4. file \in Seq(Record) /\ n \in Nat
  BY DEF ColumnInv
<1>5. /\ file' \in Seq(Record) /\ Len(file') = n + 1
      /\ \A k \in 1 .. n : file'[k] = file[k]
      /\ file'[n + 1] = record
  BY <1>2, <1>3, <1>4
<1>6. ASSUME NEW c \in Column
      PROVE  HoldsFile(columns'[c], file', n + 1, c)
  <2>1. HoldsFile(columns[c], file, n, c)
    BY DEF ColumnInv
  <2>2. file'[n + 1][c] \in Cell /\ columns'[c] = Push(columns[c], file'[n + 1][c])
    BY <1>2, <1>3, <1>5 DEF Record
  <2> HIDE DEF n
  <2> QED
    BY <2>1, <2>2, <1>4, <1>5, ColumnGrows
<1>7. columns' = [c \in Column |-> columns'[c]]
  BY <1>3
<1> QED
  BY <1>5, <1>6, <1>7 DEF ColumnInv, HoldsFile, Shape, IsSet, Bitmap, BytesFor, Bit

-----------------------------------------------------------------------------
(* Evaluating the filter.                                                   *)

\* The lesser of two numbers.
LEMMA MinOfTwo ==
    ASSUME NEW a \in Int, NEW b \in Int
    PROVE  Min({a, b}) = IF a <= b THEN a ELSE b
<1> DEFINE m == IF a <= b THEN a ELSE b
<1>1. m \in {a, b} /\ \A y \in {a, b} : m <= y
  OBVIOUS
<1>2. \A x \in {a, b} : (\A y \in {a, b} : x <= y) => x = m
  OBVIOUS
<1> HIDE DEF m
<1> QED
  BY <1>1, <1>2 DEF Min

\* The rows are numbered from 0.
LEMMA RowsOfFile ==
    ASSUME ColumnInv
    PROVE  Len(file) \in Nat /\ Rows = 0 .. (Len(file) - 1)
BY DEF ColumnInv, Rows

\* The bitmap of a set of rows has the bits of that set.
LEMMA BytesOfBits ==
    ASSUME NEW n \in Nat, NEW S
    PROVE  /\ BytesOf(S, BytesFor(n)) \in Bitmap(n)
           /\ \A i \in 0 .. (n - 1) : IsSet(BytesOf(S, BytesFor(n)), i) <=> i \in S
<1> DEFINE m == BytesFor(n)
           bytes == BytesOf(S, m)
<1>1. BitsPerByte \in Nat \ {0}
  BY ConstantsAssumption
<1>2. /\ bytes \in Bitmap(n)
      /\ \A b \in 1 .. m : bytes[b] = {k \in Bit : (b - 1) * BitsPerByte + k \in S}
  BY DEF BytesOf, Bitmap, Bit
<1>3. ASSUME NEW i \in 0 .. (n - 1)
      PROVE  IsSet(bytes, i) <=> i \in S
  <2> DEFINE v == i \div BitsPerByte
             k == i % BitsPerByte
  <2>1. i \in Nat
    OBVIOUS
  <2>2. v \in Nat /\ k \in Bit /\ i = v * BitsPerByte + k
    BY <1>1, <2>1, DivMod DEF Bit
  <2>3. v + 1 \in 1 .. m
    BY BytesOfRows
  <2>4. IsSet(bytes, i) <=> k \in bytes[v + 1]
    BY DEF IsSet
  <2> HIDE DEF bytes, v, k, m
  <2>5. v + 1 - 1 = v
    BY <2>2
  <2> QED
    BY <1>2, <2>2, <2>3, <2>4, <2>5
<1> QED
  BY <1>2, <1>3

\* The inverted bitmap has, within the rows, the bits the given one has not.
LEMMA NotBytesComplement ==
    ASSUME NEW n \in Nat, NEW bitmap \in Bitmap(n)
    PROVE  /\ NotBytes(bitmap) \in Bitmap(n)
           /\ \A i \in 0 .. (n - 1) : IsSet(NotBytes(bitmap), i) <=> ~ IsSet(bitmap, i)
<1>1. /\ NotBytes(bitmap) \in Bitmap(n)
      /\ \A b \in 1 .. BytesFor(n) : NotBytes(bitmap)[b] = Bit \ bitmap[b]
  BY DEF NotBytes, Bitmap, Bit
<1> QED
  BY <1>1, BitsOfRows DEF IsSet

\* Two ranges of bytes, whatever the cut, find the rows of the whole column.
LEMMA KernelFinds ==
    ASSUME NEW n \in Nat, NEW c, HoldsFile(columns[c], file, n, c), NEW op, NEW value,
           NEW cut \in 0 .. BytesFor(n), NEW i \in 0 .. (n - 1)
    PROVE  i \in Kernel(c, op, value, 0, cut) \union Kernel(c, op, value, cut, BytesFor(n))
             <=> file[i + 1][c] # Null /\ Compared(op, file[i + 1][c], value)
<1> DEFINE d == BitsPerByte
           m == BytesFor(n)
           bits == BitsOf(columns[c].bitmap)
           found(j) == j \in bits /\ Compared(op, columns[c].data[j + 1], value)
<1>1. d \in Nat \ {0} /\ m \in Nat /\ n <= m * d /\ cut \in Nat
  BY ConstantsAssumption, BytesOfRows
<1>2. cut * d \in Nat /\ m * d \in Nat /\ 0 * d = 0
  BY <1>1
<1>3. Len(columns[c].data) = n
  BY DEF HoldsFile
<1>4. Min({cut * d, n}) = (IF cut * d <= n THEN cut * d ELSE n) /\ Min({m * d, n}) = n
  BY <1>1, <1>2, MinOfTwo
<1>5. /\ Kernel(c, op, value, 0, cut) = {j \in 0 .. (Min({cut * d, n}) - 1) : found(j)}
      /\ Kernel(c, op, value, cut, m) = {j \in (cut * d) .. (n - 1) : found(j)}
  BY <1>2, <1>3, <1>4 DEF Kernel
<1>6. found(i) <=> file[i + 1][c] # Null /\ Compared(op, file[i + 1][c], value)
  <2>1. columns[c].bitmap \in Bitmap(n)
    BY DEF HoldsFile, Shape
  <2>2. i \in bits <=> IsSet(columns[c].bitmap, i)
    BY <2>1, BitsOfRows
  <2>3. /\ IsSet(columns[c].bitmap, i) <=> file[i + 1][c] # Null
        /\ file[i + 1][c] # Null => columns[c].data[i + 1] = file[i + 1][c]
    BY DEF HoldsFile
  <2> QED
    BY <2>2, <2>3
<1> HIDE DEF d, m, bits, found
<1>7. i \in 0 .. (Min({cut * d, n}) - 1) \/ i \in (cut * d) .. (n - 1)
  BY <1>2, <1>4
<1>8. i \in Kernel(c, op, value, 0, cut) \union Kernel(c, op, value, cut, m) <=> found(i)
  BY <1>5, <1>7
<1> QED
  BY <1>6, <1>8 DEF m

\* A comparison selects the records that eval(record) selects if its literal fits.
LEMMA CompareIsSound ==
    ASSUME ColumnInv, NEW c \in Column, NEW op \in Orders \union Likes, NEW literal,
           EvalCompare(c, op, literal)
    PROVE  \E e \in SoundEntry : stack' = Append(stack, e)
<1> DEFINE n == Len(file)
           value == Narrow(c, literal)
           truth == {i \in Rows : RecordTest(c, op, literal, i)}
<1>1. n \in Nat /\ Rows = 0 .. (n - 1) /\ HoldsFile(columns[c], file, n, c)
  BY RowsOfFile DEF ColumnInv
<1>2. Len(columns[c].data) = n /\ Len(columns[c].bitmap) = BytesFor(n)
  <2>1. Len(columns[c].data) = n /\ columns[c].bitmap \in [1 .. BytesFor(n) -> SUBSET Bit]
    BY <1>1 DEF HoldsFile, Shape, Bitmap
  <2>2. BytesFor(n) \in Nat
    BY <1>1, BytesOfRows
  <2> HIDE DEF n
  <2> QED
    BY <2>1, <2>2
<1>3. PICK cut \in 0 .. BytesFor(n) :
        stack' = Append(stack,
                        Entry(BytesOf(Kernel(c, op, value, 0, cut)
                                        \union Kernel(c, op, value, cut, BytesFor(n)),
                                      BytesFor(n)),
                              truth, value = literal))
  BY <1>2 DEF EvalCompare, PushEntry
<1> DEFINE found == Kernel(c, op, value, 0, cut) \union Kernel(c, op, value, cut, BytesFor(n))
           bytes == BytesOf(found, BytesFor(n))
           e == Entry(bytes, truth, value = literal)
<1>4. bytes \in Bitmap(n) /\ \A i \in 0 .. (n - 1) : IsSet(bytes, i) <=> i \in found
  <2> HIDE DEF n, found
  <2> QED
    BY <1>1, BytesOfBits
<1>5. \A i \in 0 .. (n - 1) :
         i \in found <=> file[i + 1][c] # Null /\ Compared(op, file[i + 1][c], value)
  <2> HIDE DEF n, value
  <2> QED
    BY <1>1, KernelFinds
<1>6. \A i \in Rows : i \in truth <=> file[i + 1][c] # Null /\ Compared(op, file[i + 1][c], literal)
  <2>1. op # "IS_NULL" /\ op # "IS_NOT_NULL"
    BY DEF Orders, Likes
  <2> QED
    BY <2>1 DEF RecordTest
<1> HIDE DEF found, bytes, value
<1>7. truth \in SUBSET Rows
  OBVIOUS
<1> HIDE DEF truth
<1> DEFINE same == value = literal
<1>8. e = [bytes |-> bytes, truth |-> truth, exact |-> same]
  BY DEF Entry
<1>9. same \in BOOLEAN
  OBVIOUS
<1>10. same => \A i \in Rows : IsSet(bytes, i) <=> i \in truth
  BY <1>1, <1>4, <1>5, <1>6
<1> HIDE DEF e, same
<1>11. e \in SoundEntry
  BY <1>4, <1>7, <1>8, <1>9, <1>10 DEF SoundEntry
<1> QED
  BY <1>3, <1>11 DEF e, same, found, bytes, truth, value

\* IS NULL and IS NOT NULL give a bitmap that selects the rows of which they are true.
LEMMA NullIsSound ==
    ASSUME ColumnInv, NEW c \in Column, NEW op \in {"IS_NULL", "IS_NOT_NULL"}, EvalNull(c, op)
    PROVE  \E e \in SoundEntry : stack' = Append(stack, e)
<1> DEFINE n == Len(file)
           bitmap == columns[c].bitmap
           bytes == IF op = "IS_NULL" THEN NotBytes(bitmap) ELSE bitmap
           truth == {i \in Rows : RecordTest(c, op, 0, i)}
           e == [bytes |-> bytes, truth |-> truth, exact |-> TRUE]
<1>1. n \in Nat /\ Rows = 0 .. (n - 1) /\ HoldsFile(columns[c], file, n, c)
  BY RowsOfFile DEF ColumnInv
<1>2. bitmap \in Bitmap(n) /\ \A i \in 0 .. (n - 1) : IsSet(bitmap, i) <=> file[i + 1][c] # Null
  BY <1>1 DEF HoldsFile, Shape
<1>3. stack' = Append(stack, e)
  BY DEF EvalNull, PushEntry, Entry
<1>4. \A i \in Rows : i \in truth <=> IF op = "IS_NULL" THEN file[i + 1][c] = Null
                                                       ELSE file[i + 1][c] # Null
  BY DEF RecordTest
<1>5. /\ NotBytes(bitmap) \in Bitmap(n)
      /\ \A i \in 0 .. (n - 1) : IsSet(NotBytes(bitmap), i) <=> ~ IsSet(bitmap, i)
  <2> HIDE DEF bitmap, n
  <2> QED
    BY <1>1, <1>2, NotBytesComplement
<1>6. bytes \in Bitmap(n)
  BY <1>2, <1>5
<1>7. \A i \in Rows : IsSet(bytes, i) <=> i \in truth
  <2> HIDE DEF bitmap, n, truth
  <2>1. CASE op = "IS_NULL"
    BY <2>1, <1>1, <1>2, <1>4, <1>5
  <2>2. CASE op # "IS_NULL"
    BY <2>2, <1>1, <1>2, <1>4
  <2> QED
    BY <2>1, <2>2
<1>8. truth \in SUBSET Rows
  OBVIOUS
<1> HIDE DEF bytes, truth
<1>9. e \in SoundEntry
  BY <1>6, <1>7, <1>8 DEF SoundEntry
<1> QED
  BY <1>3, <1>9

\* Each operator of a statement leaves a sound bitmap on the stack.
LEMMA EvalPreserves ==
    ASSUME ColumnInv, StackInv, Compare \/ Not \/ AndOr
    PROVE  StackInv'
<1> DEFINE n == Len(file)
<1>1. n \in Nat /\ Rows = 0 .. (n - 1)
  BY RowsOfFile
<1>2. SoundEntry' = SoundEntry
  BY DEF Compare, EvalCompare, EvalNull, PushEntry, Not, AndOr, SoundEntry, IsSet, Bitmap,
         BytesFor, Bit, Rows
<1>3. stack \in Seq(SoundEntry)
  BY DEF StackInv
<1>4. ASSUME NEW e \in SoundEntry
      PROVE  /\ e.bytes \in Bitmap(n) /\ e.truth \in SUBSET Rows /\ e.exact \in BOOLEAN
             /\ e.exact => \A i \in Rows : IsSet(e.bytes, i) <=> i \in e.truth
  BY <1>4 DEF SoundEntry
<1>5. ASSUME NEW bytes \in Bitmap(n), NEW truth \in SUBSET Rows, NEW exact \in BOOLEAN,
             exact => \A i \in Rows : IsSet(bytes, i) <=> i \in truth
      PROVE  Entry(bytes, truth, exact) \in SoundEntry
  BY <1>5 DEF SoundEntry, Entry
<1> HIDE DEF n
<1>6. CASE Compare
  <2>1. \E e \in SoundEntry : stack' = Append(stack, e)
    <3>1. ASSUME NEW op \in Orders, NEW literal \in IntLiterals, EvalCompare("int", op, literal)
          PROVE  \E e \in SoundEntry : stack' = Append(stack, e)
      BY <3>1, CompareIsSound DEF Column
    <3>2. ASSUME NEW op \in Orders, NEW literal \in StrLiterals, EvalCompare("str", op, literal)
          PROVE  \E e \in SoundEntry : stack' = Append(stack, e)
      BY <3>2, CompareIsSound DEF Column
    <3>3. ASSUME NEW op \in Likes, NEW pattern \in Patterns, EvalCompare("str", op, pattern)
          PROVE  \E e \in SoundEntry : stack' = Append(stack, e)
      BY <3>3, CompareIsSound DEF Column
    <3>4. ASSUME NEW c \in Column, NEW op \in {"IS_NULL", "IS_NOT_NULL"}, EvalNull(c, op)
          PROVE  \E e \in SoundEntry : stack' = Append(stack, e)
      BY <3>4, NullIsSound
    <3> QED
      BY <1>6, <3>1, <3>2, <3>3, <3>4 DEF Compare
  <2>2. stack' \in Seq(SoundEntry)
    BY <2>1, <1>3
  <2> QED
    BY <2>2, <1>2 DEF StackInv
<1>7. CASE Not
  <2> DEFINE top == stack[Len(stack)]
  <2>1. /\ Len(stack) \in Nat \ {0}
        /\ stack' = Append(SubSeq(stack, 1, Len(stack) - 1),
                           Entry(NotBytes(top.bytes), Rows \ top.truth, top.exact))
    BY <1>3, <1>7 DEF Not, Last, Front
  <2>2. top \in SoundEntry
    BY <1>3, <2>1
  <2> HIDE DEF top
  <2>3. /\ NotBytes(top.bytes) \in Bitmap(n)
        /\ \A i \in 0 .. (n - 1) : IsSet(NotBytes(top.bytes), i) <=> ~ IsSet(top.bytes, i)
    BY <1>1, <1>4, <2>2, NotBytesComplement
  <2>4. Entry(NotBytes(top.bytes), Rows \ top.truth, top.exact) \in SoundEntry
    <3>1. Rows \ top.truth \in SUBSET Rows /\ top.exact \in BOOLEAN
      BY <1>4, <2>2
    <3>2. top.exact => \A i \in Rows : IsSet(NotBytes(top.bytes), i) <=> i \in Rows \ top.truth
      BY <1>1, <1>4, <2>2, <2>3
    <3> QED
      BY <3>1, <3>2, <2>3, <1>5
  <2>5. SubSeq(stack, 1, Len(stack) - 1) \in Seq(SoundEntry)
    BY <1>3, <2>1
  <2>6. stack' \in Seq(SoundEntry)
    BY <2>1, <2>4, <2>5
  <2> QED
    BY <2>6, <1>2 DEF StackInv
<1>8. CASE AndOr
  <2> DEFINE l == stack[1]
             r == stack[2]
             both == [b \in DOMAIN l.bytes |-> l.bytes[b] \intersect r.bytes[b]]
             any == [b \in DOMAIN l.bytes |-> l.bytes[b] \union r.bytes[b]]
             exact == l.exact /\ r.exact
  <2>1. /\ Len(stack) = 2
        /\ \/ stack' = <<Entry(both, l.truth \intersect r.truth, exact)>>
           \/ stack' = <<Entry(any, l.truth \union r.truth, exact)>>
    BY <1>8 DEF AndOr
  <2>2. l \in SoundEntry /\ r \in SoundEntry
    <3>1. Len(stack) = 2
      BY <2>1
    <3>2. stack[1] \in SoundEntry /\ stack[2] \in SoundEntry
      BY <3>1, <1>3
    <3> QED
      BY <3>2
  <2>3. exact \in BOOLEAN /\ (exact => l.exact /\ r.exact)
    BY <1>4, <2>2
  <2> HIDE DEF l, r, exact
  <2>4. l.bytes \in Bitmap(n) /\ r.bytes \in Bitmap(n)
    BY <1>4, <2>2
  <2>5. /\ both \in Bitmap(n) /\ any \in Bitmap(n)
        /\ \A b \in 1 .. BytesFor(n) : /\ both[b] = l.bytes[b] \intersect r.bytes[b]
                                       /\ any[b] = l.bytes[b] \union r.bytes[b]
    BY <2>4 DEF Bitmap
  <2> HIDE DEF both, any
  <2>6. \A i \in Rows : /\ IsSet(both, i) <=> IsSet(l.bytes, i) /\ IsSet(r.bytes, i)
                        /\ IsSet(any, i) <=> IsSet(l.bytes, i) \/ IsSet(r.bytes, i)
    BY <1>1, <2>5, BytesOfRows DEF IsSet
  <2>7. Entry(both, l.truth \intersect r.truth, exact) \in SoundEntry
    <3>1. l.truth \intersect r.truth \in SUBSET Rows
      BY <1>4, <2>2
    <3>2. exact => \A i \in Rows : IsSet(both, i) <=> i \in l.truth \intersect r.truth
      BY <1>4, <2>2, <2>3, <2>6
    <3> QED
      BY <3>1, <3>2, <2>3, <2>5, <1>5
  <2>8. Entry(any, l.truth \union r.truth, exact) \in SoundEntry
    <3>1. l.truth \union r.truth \in SUBSET Rows
      BY <1>4, <2>2
    <3>2. exact => \A i \in Rows : IsSet(any, i) <=> i \in l.truth \union r.truth
      BY <1>4, <2>2, <2>3, <2>6
    <3> QED
      BY <3>1, <3>2, <2>3, <2>5, <1>5
  <2>9. \A e \in SoundEntry : <<e>> \in Seq(SoundEntry)
    OBVIOUS
  <2>10. stack' \in Seq(SoundEntry)
    BY <2>1, <2>7, <2>8, <2>9, Zenon
  <2> QED
    BY <2>10, <1>2 DEF StackInv
<1> QED
  BY <1>6, <1>7, <1>8

-----------------------------------------------------------------------------
(* Copying the selected rows.                                               *)

\* The numbers of a finite set, counted off from the smallest.
LEMMA InOrderEnumerates ==
    ASSUME NEW S \in SUBSET Int, IsFiniteSet(S)
    PROVE  /\ InOrder(S) \in [1 .. Cardinality(S) -> S]
           /\ \A j, k \in 1 .. Cardinality(S) : j < k => InOrder(S)[j] < InOrder(S)[k]
<1> DEFINE n == Cardinality(S)
           upto(x) == {y \in S : y <= x}
           rank == [x \in S |-> Cardinality(upto(x))]
<1>0. \A x \in S : x \in Int
  OBVIOUS
<1>1. n \in Nat
  BY FS_CardinalityType
<1>2. ASSUME NEW x \in S PROVE upto(x) \in SUBSET S /\ IsFiniteSet(upto(x)) /\ rank[x] \in 1 .. n
  <2>1. upto(x) \in SUBSET S /\ x \in upto(x)
    OBVIOUS
  <2> HIDE DEF upto
  <2>2. IsFiniteSet(upto(x)) /\ Cardinality(upto(x)) <= n
    BY <2>1, FS_Subset
  <2>3. Cardinality(upto(x)) \in Nat /\ Cardinality(upto(x)) # 0
    BY <2>1, <2>2, FS_CardinalityType, FS_EmptySet
  <2> QED
    BY <2>1, <2>2, <2>3, <1>1
<1>3. ASSUME NEW x \in S, NEW y \in S, x < y PROVE rank[x] < rank[y]
  <2>0. x \in Int /\ y \in Int /\ x < y
    BY <1>0, <1>3
  <2>1. upto(x) \in SUBSET upto(y) /\ y \in upto(y) /\ y \notin upto(x)
    <3>1. \A z \in S : z <= x => z <= y
      BY <2>0, <1>0
    <3>2. y <= y /\ ~ (y <= x)
      BY <2>0
    <3> QED
      BY <3>1, <3>2
  <2>2. IsFiniteSet(upto(y)) /\ rank[x] = Cardinality(upto(x)) /\ rank[y] = Cardinality(upto(y))
    BY <1>2
  <2>3. rank[x] \in 1 .. n /\ rank[y] \in 1 .. n
    BY <1>2
  <2> HIDE DEF upto, rank
  <2>4. /\ Cardinality(upto(x)) <= Cardinality(upto(y))
        /\ Cardinality(upto(y)) = Cardinality(upto(x)) => upto(x) = upto(y)
    BY <2>1, <2>2, FS_Subset
  <2> QED
    BY <2>1, <2>2, <2>3, <2>4, <1>1
<1>4. rank \in [S -> 1 .. n]
  BY <1>2
<1> HIDE DEF rank
<1>5. rank \in Injection(S, 1 .. n)
  BY <1>2, <1>3, <1>4 DEF Injection, IsInjective
<1>6. IsFiniteSet(1 .. n) /\ Cardinality(1 .. n) = n
  BY <1>1, FS_Interval
<1>7. rank \in Surjection(S, 1 .. n)
  BY <1>5, <1>6, FS_Injection
<1>8. \A k \in 1 .. n : \E x \in S : rank[x] = k
  BY <1>7 DEF Surjection
<1> DEFINE listed == [k \in 1 .. n |-> CHOOSE x \in S : rank[x] = k]
<1>9. \A k \in 1 .. n : listed[k] \in S /\ rank[listed[k]] = k
  BY <1>8
<1>10. listed \in [1 .. n -> S]
  BY <1>9
<1> HIDE DEF listed
<1>11. ASSUME NEW j \in 1 .. n, NEW k \in 1 .. n, j < k PROVE listed[j] < listed[k]
  <2>1. listed[j] \in S /\ listed[k] \in S /\ rank[listed[j]] = j /\ rank[listed[k]] = k
    BY <1>9
  <2>2. listed[j] # listed[k] /\ ~ (k < j)
    BY <2>1, <1>1, <1>11
  <2>3. ~ (listed[k] < listed[j])
    BY <2>1, <2>2, <1>3
  <2>4. listed[j] \in Int /\ listed[k] \in Int
    BY <2>1, <1>0
  <2> QED
    BY <2>2, <2>3, <2>4
<1>12. \E s \in [1 .. n -> S] : \A j, k \in DOMAIN s : j < k => s[j] < s[k]
  BY <1>10, <1>11
<1> HIDE DEF n
<1>13. InOrder(S) = CHOOSE s \in [1 .. n -> S] : \A j, k \in DOMAIN s : j < k => s[j] < s[k]
  BY DEF InOrder, n
<1>14. /\ InOrder(S) \in [1 .. n -> S]
       /\ \A j, k \in DOMAIN InOrder(S) : j < k => InOrder(S)[j] < InOrder(S)[k]
  BY <1>12, <1>13
<1> QED
  BY <1>14 DEF n

\* A set of rows in ascending order lists each of its rows once.
LEMMA InOrderOfRows ==
    ASSUME ColumnInv, NEW S \in SUBSET Rows
    PROVE  /\ InOrder(S) \in [1 .. Cardinality(S) -> S] /\ Cardinality(S) \in Nat
           /\ Len(InOrder(S)) = Cardinality(S)
<1>1. Len(file) \in Nat /\ Rows = 0 .. (Len(file) - 1)
  BY RowsOfFile
<1>2. IsFiniteSet(Rows)
  BY <1>1, FS_Interval
<1>3. IsFiniteSet(S)
  BY <1>2, FS_Subset
<1>4. S \in SUBSET Int /\ Cardinality(S) \in Nat
  BY <1>1, <1>3, FS_CardinalityType
<1>5. InOrder(S) \in [1 .. Cardinality(S) -> S]
  BY <1>3, <1>4, InOrderEnumerates
<1> QED
  BY <1>4, <1>5

\* Without a filter every row is selected.
LEMMA AllRowsSelected ==
    ASSUME ColumnInv
    PROVE  BitsOf([b \in 1 .. BytesFor(Len(file)) |-> Bit]) \intersect Rows = Rows
<1> DEFINE n == Len(file)
           all == [b \in 1 .. BytesFor(n) |-> Bit]
<1>1. n \in Nat /\ Rows = 0 .. (n - 1)
  BY RowsOfFile
<1>2. all \in Bitmap(n)
  BY DEF Bitmap
<1>3. ASSUME NEW i \in Rows PROVE i \in BitsOf(all)
  <2>1. /\ i \in BitsOf(all) <=> IsSet(all, i)
        /\ i % BitsPerByte \in Bit
        /\ i \div BitsPerByte + 1 \in 1 .. BytesFor(n)
    <3> HIDE DEF n, all
    <3> QED
      BY <1>1, <1>2, BitsOfRows
  <2> QED
    BY <2>1 DEF IsSet
<1> HIDE DEF all
<1>4. BitsOf(all) \intersect Rows = Rows
  BY <1>3
<1> QED
  BY <1>4 DEF all

\* The rows copied: those the bitmap selects, or all.
SelectedSet == IF filtered THEN BitsOf(stack[1].bytes) \intersect Rows ELSE Rows

\* The rows of the result are those the statement selects, in the order of the file.
LEMMA SelectedRows ==
    ASSUME ColumnInv
    PROVE  SelectedSet \in SUBSET Rows /\ Selected = InOrder(SelectedSet)
<1>1. CASE filtered
  BY <1>1 DEF Selected, SelectedSet
<1>2. CASE ~filtered
  <2>1. Selected = InOrder(BitsOf([b \in 1 .. BytesFor(Len(file)) |-> Bit]) \intersect Rows)
    BY <1>2 DEF Selected, Bit
  <2> QED
    BY <2>1, <1>2, AllRowsSelected DEF SelectedSet
<1> QED
  BY <1>1, <1>2

\* A column copied holds the records at the selected rows.
LEMMA CopyColumnCopies ==
    ASSUME ColumnInv, CopyColumn
    PROVE  \E d \in Column : out' = [out EXCEPT ![d] = RecordsAt(Selected, d)]
<1>1. PICK d \in Column :
         out' = [out EXCEPT ![d] = [k \in DOMAIN Selected |->
                   IF Selected[k] \in BitsOf(columns[d].bitmap)
                   THEN columns[d].data[Selected[k] + 1] ELSE Null]]
  BY DEF CopyColumn
<1> DEFINE copied == [k \in DOMAIN Selected |->
                        IF Selected[k] \in BitsOf(columns[d].bitmap)
                        THEN columns[d].data[Selected[k] + 1] ELSE Null]
<1>2. \A k \in DOMAIN Selected : Selected[k] \in Rows
  BY SelectedRows, InOrderOfRows
<1>3. Len(file) \in Nat /\ Rows = 0 .. (Len(file) - 1) /\ HoldsFile(columns[d], file, Len(file), d)
  BY RowsOfFile DEF ColumnInv
<1>4. ASSUME NEW i \in Rows
      PROVE  (IF i \in BitsOf(columns[d].bitmap) THEN columns[d].data[i + 1] ELSE Null)
                = file[i + 1][d]
  <2>1. columns[d].bitmap \in Bitmap(Len(file))
    BY <1>3 DEF HoldsFile, Shape
  <2>2. i \in BitsOf(columns[d].bitmap) <=> IsSet(columns[d].bitmap, i)
    BY <2>1, <1>3, BitsOfRows
  <2> QED
    BY <2>2, <1>3 DEF HoldsFile
<1>5. copied = RecordsAt(Selected, d)
  BY <1>2, <1>4 DEF RecordsAt
<1>6. out' = [out EXCEPT ![d] = copied]
  BY <1>1
<1> HIDE DEF copied
<1> QED
  BY <1>5, <1>6

-----------------------------------------------------------------------------
(* The invariant.                                                           *)

\* Columns with no rows hold an empty file.
LEMMA EmptyHoldsNothing ==
    \A c \in Column : HoldsFile(EmptyColumns[c], <<>>, 0, c)
<1>1. BytesFor(0) = 0
  <2>1. BitsPerByte \in Nat \ {0} /\ BytesFor(0) \in Nat
    BY ConstantsAssumption, BytesOfRows
  <2>2. 0 < BytesFor(0) => 0 * BitsPerByte < 0
    BY BytesOfRows
  <2>3. 0 * BitsPerByte = 0
    BY <2>1
  <2> QED
    BY <2>1, <2>2, <2>3
<1>2. <<>> \in Bitmap(0)
  BY <1>1 DEF Bitmap
<1>3. <<>> \in Seq(Cell) /\ Len(<<>>) = 0
  OBVIOUS
<1>4. \A c \in Column : EmptyColumns[c] = [data |-> <<>>, bitmap |-> <<>>]
  BY DEF EmptyColumns
<1> SUFFICES ASSUME NEW c \in Column PROVE HoldsFile(EmptyColumns[c], <<>>, 0, c)
  OBVIOUS
<1>5. EmptyColumns[c] \in Shape(0) /\ EmptyColumns[c].data = <<>>
  <2>1. EmptyColumns[c] = [data |-> <<>>, bitmap |-> <<>>]
    BY <1>4
  <2>2. [data |-> <<>>, bitmap |-> <<>>] \in [data : Seq(Cell), bitmap : Bitmap(0)]
    BY <1>2, <1>3
  <2> QED
    BY <2>1, <2>2 DEF Shape
<1>6. 0 .. (0 - 1) = {}
  OBVIOUS
<1> QED
  BY <1>3, <1>5, <1>6 DEF HoldsFile

\* The state before the load satisfies the invariant.
LEMMA Initially == Init => IInv
<1> SUFFICES ASSUME Init PROVE IInv
  OBVIOUS
<1>1. /\ phase = "idle" /\ file = <<>> /\ columns = EmptyColumns /\ table_cached = FALSE
      /\ result_cache = None /\ filtered = FALSE /\ stack = <<>> /\ out = NoOutput
  BY DEF Init
<1>2. ColumnInv
  BY <1>1, EmptyHoldsNothing DEF ColumnInv, EmptyColumns
<1>3. PhaseInv
  BY <1>1 DEF PhaseInv
<1>4. StackInv
  BY <1>1 DEF StackInv
<1>5. OutInv
  BY <1>1 DEF OutInv, NoOutput
<1>6. CacheInv
  BY <1>1 DEF CacheInv
<1> QED
  BY <1>2, <1>3, <1>4, <1>5, <1>6 DEF IInv

\* Every step keeps the columns a copy of the rows read so far.
LEMMA ColumnPreserved ==
    ASSUME IInv, [Next]_vars
    PROVE  ColumnInv'
<1>1. CASE AddRecord
  BY <1>1, AddRecordPreserves DEF IInv
<1>2. CASE ParseError
  <2>1. file' = <<>> /\ columns' = EmptyColumns
    BY <1>2 DEF ParseError
  <2> QED
    BY <2>1, EmptyHoldsNothing DEF ColumnInv, EmptyColumns
<1>3. CASE UNCHANGED <<file, columns>>
  BY <1>3 DEF IInv, ColumnInv, HoldsFile, Shape, IsSet, Bitmap, BytesFor, Bit
<1> QED
  BY <1>1, <1>2, <1>3 DEF Next, Call, EndParse, Compare, EvalCompare, EvalNull, PushEntry, Not,
       AndOr, EndEval, CopyColumn, Return, Done, vars

\* Every step keeps the phase in agreement with what was read and evaluated.
LEMMA PhasePreserved ==
    ASSUME IInv, [Next]_vars
    PROVE  PhaseInv'
<1>1. PhaseInv
  BY DEF IInv
<1>2. CASE Call
  BY <1>1, <1>2 DEF PhaseInv, Call, AfterTable, IInv, CacheInv
<1>3. CASE AddRecord \/ ParseError
  BY <1>1, <1>3 DEF PhaseInv, AddRecord, ParseError
<1>7. CASE EndParse
  BY <1>1, <1>7 DEF PhaseInv, EndParse, AfterTable
<1>4. CASE Compare \/ Not \/ AndOr
  <2>1. phase = "eval" /\ UNCHANGED <<phase, filtered, table_cached>>
    BY <1>4 DEF Compare, EvalCompare, EvalNull, PushEntry, Not, AndOr
  <2> QED
    BY <2>1, <1>1 DEF PhaseInv
<1>5. CASE EndEval \/ CopyColumn \/ Return
  BY <1>1, <1>5 DEF PhaseInv, EndEval, CopyColumn, Return
<1>6. CASE UNCHANGED vars
  BY <1>1, <1>6 DEF PhaseInv, vars
<1> QED
  BY <1>2, <1>3, <1>4, <1>5, <1>6, <1>7 DEF Next, Done

\* Every step keeps the bitmaps on the stack sound.
LEMMA StackPreserved ==
    ASSUME IInv, [Next]_vars
    PROVE  StackInv'
<1>1. ColumnInv /\ PhaseInv /\ StackInv
  BY DEF IInv
<1>2. CASE Compare \/ Not \/ AndOr
  BY <1>1, <1>2, EvalPreserves
<1>3. CASE Call \/ AddRecord \/ ParseError
  <2>1. stack' = <<>>
    BY <1>1, <1>3 DEF Call, AddRecord, ParseError, PhaseInv
  <2> QED
    BY <2>1 DEF StackInv
<1>4. CASE UNCHANGED <<file, stack>>
  BY <1>1, <1>4 DEF StackInv, SoundEntry, IsSet, Bitmap, BytesFor, Bit, Rows
<1> QED
  BY <1>2, <1>3, <1>4 DEF Next, EndParse, EndEval, CopyColumn, Return, Done, vars

\* Every step keeps the output a beginning of the selected rows.
LEMMA OutPreserved ==
    ASSUME IInv, [Next]_vars
    PROVE  OutInv'
<1>1. ColumnInv /\ PhaseInv /\ StackInv /\ OutInv /\ CacheInv
  BY DEF IInv
<1>2. CASE Call
  <2>1. CASE ~filtered' /\ result_cache # None
    <3>1. /\ result_cache = [c \in Column |-> RecordsAt(InOrder(Rows), c)]
          /\ table_cached
      BY <2>1, <1>1 DEF CacheInv
    <3>2. phase' = "returned" /\ out' = result_cache /\ ret_rows' = Len(result_cache["int"])
          /\ UNCHANGED <<file, table_cached>>
      BY <2>1, <1>2 DEF Call
    <3>3. Rows' = Rows
      BY <3>2 DEF Rows
    <3>4. Selected' = InOrder(Rows)
      <4>1. Selected' = InOrder(BitsOf([b \in 1 .. BytesFor(Len(file)) |-> Bit]) \intersect Rows)
        BY <2>1, <3>2, <3>3 DEF Selected, BitsOf, BytesFor, Bit
      <4> QED
        BY <4>1, <1>1, AllRowsSelected
    <3>5. InOrder(Rows) \in [1 .. Cardinality(Rows) -> Rows] /\ Cardinality(Rows) \in Nat
          /\ Len(InOrder(Rows)) = Cardinality(Rows)
      BY <1>1, InOrderOfRows
    <3>6. Len(RecordsAt(InOrder(Rows), "int")) = Len(InOrder(Rows))
      BY <3>5 DEF RecordsAt
    <3>7. \A c \in Column : RecordsAt(Selected, c)' = RecordsAt(InOrder(Rows), c)
      BY <3>2, <3>4 DEF RecordsAt
    <3> QED
      BY <3>1, <3>2, <3>4, <3>6, <3>7 DEF OutInv, Column
  <2>2. CASE ~ (~filtered' /\ result_cache # None)
    BY <2>2, <1>2 DEF Call, OutInv, NoOutput, AfterTable
  <2> QED
    BY <2>1, <2>2
<1>3. CASE CopyColumn
  <2>1. phase = "copy" /\ phase' = "copy" /\ UNCHANGED <<file, filtered, stack>>
    BY <1>1, <1>3 DEF CopyColumn
  <2>2. Selected' = Selected
    BY <2>1 DEF Selected, BitsOf, Rows
  <2>3. \A c \in Column : RecordsAt(Selected, c)' = RecordsAt(Selected, c)
    BY <2>1, <2>2 DEF RecordsAt
  <2>4. PICK d \in Column : out' = [out EXCEPT ![d] = RecordsAt(Selected, d)]
    BY <1>1, <1>3, CopyColumnCopies
  <2>5. ret_rows' = Len(Selected)
    BY <1>3 DEF CopyColumn
  <2> QED
    BY <2>1, <2>2, <2>3, <2>4, <2>5, <1>1 DEF OutInv
<1>4. CASE Return
  <2>1. phase = "copy" /\ phase' = "returned" /\ UNCHANGED <<file, filtered, stack, out, ret_rows>>
    BY <1>4 DEF Return
  <2>2. Selected' = Selected
    BY <2>1 DEF Selected, BitsOf, Rows
  <2>3. \A c \in Column : RecordsAt(Selected, c)' = RecordsAt(Selected, c)
    BY <2>1, <2>2 DEF RecordsAt
  <2>4. \A c \in Column : out[c] # None
    BY <1>4 DEF Return
  <2> QED
    BY <2>1, <2>2, <2>3, <2>4, <1>1 DEF OutInv
<1>5. CASE EndEval \/ EndParse
  BY <1>1, <1>5 DEF OutInv, EndEval, EndParse, AfterTable
<1>6. CASE AddRecord \/ ParseError
  BY <1>1, <1>6 DEF OutInv, AddRecord, ParseError
<1>7. CASE Compare \/ Not \/ AndOr
  <2>1. phase = "eval" /\ UNCHANGED <<phase, out>>
    BY <1>7 DEF Compare, EvalCompare, EvalNull, PushEntry, Not, AndOr
  <2> QED
    BY <2>1, <1>1 DEF OutInv
<1>8. CASE UNCHANGED vars
  <2>1. UNCHANGED <<file, filtered, stack, out, ret_rows, phase>>
    BY <1>8 DEF vars
  <2>2. Selected' = Selected
    BY <2>1 DEF Selected, BitsOf, Rows
  <2>3. \A c \in Column : RecordsAt(Selected, c)' = RecordsAt(Selected, c)
    BY <2>1, <2>2 DEF RecordsAt
  <2> QED
    BY <2>1, <2>2, <2>3, <1>1 DEF OutInv
<1> QED
  BY <1>2, <1>3, <1>4, <1>5, <1>6, <1>7, <1>8 DEF Next, Done

\* Every step keeps the cached result the whole table.
LEMMA CachePreserved ==
    ASSUME IInv, [Next]_vars
    PROVE  CacheInv'
<1>1. ColumnInv /\ PhaseInv /\ OutInv /\ CacheInv
  BY DEF IInv
<1>2. CASE Return
  <2>1. phase = "copy" /\ UNCHANGED <<file, table_cached>>
    BY <1>2 DEF Return
  <2>2. Rows' = Rows /\ \A c \in Column : RecordsAt(InOrder(Rows), c)' = RecordsAt(InOrder(Rows), c)
    BY <2>1 DEF Rows, RecordsAt
  <2>3. CASE filtered
    BY <2>1, <2>2, <2>3, <1>1, <1>2 DEF CacheInv, Return
  <2>4. CASE ~filtered
    <3>1. Selected = InOrder(Rows)
      BY <2>4, <1>1, SelectedRows DEF SelectedSet
    <3>2. out = [c \in Column |-> RecordsAt(InOrder(Rows), c)]
      BY <2>1, <3>1, <1>1, <1>2 DEF OutInv, Return
    <3>3. result_cache' = out /\ table_cached
      BY <2>1, <2>4, <1>1, <1>2 DEF Return, PhaseInv
    <3> QED
      BY <2>1, <2>2, <3>2, <3>3 DEF CacheInv
  <2> QED
    BY <2>3, <2>4
<1>3. CASE AddRecord \/ ParseError
  <2>1. ~table_cached /\ UNCHANGED result_cache
    BY <1>1, <1>3 DEF PhaseInv, AddRecord, ParseError
  <2> QED
    BY <2>1, <1>1 DEF CacheInv
<1>4. CASE UNCHANGED <<file, result_cache>> /\ (table_cached' = table_cached \/ table_cached')
  <2>1. Rows' = Rows /\ \A c \in Column : RecordsAt(InOrder(Rows), c)' = RecordsAt(InOrder(Rows), c)
    BY <1>4 DEF Rows, RecordsAt
  <2> QED
    BY <2>1, <1>1, <1>4 DEF CacheInv
<1> QED
  BY <1>2, <1>3, <1>4 DEF Next, Call, EndParse, Compare, EvalCompare, EvalNull, PushEntry, Not,
       AndOr, EndEval, CopyColumn, Done, vars

-----------------------------------------------------------------------------
(* Theorems. *)

\* The inductive invariant: the columns hold the parsed file with its NULLs; every
\* bitmap on the stack that is exact selects the rows of which the statement is true;
\* what is copied and what is cached is the records selected.
THEOREM Invariant == Spec => []IInv
<1>1. IInv /\ [Next]_vars => IInv'
  BY ColumnPreserved, PhasePreserved, StackPreserved, OutPreserved, CachePreserved DEF IInv
<1> QED
  BY Initially, <1>1, PTL DEF Spec

\* The columns and every bitmap have one entry and one bit for each row
\* (FilteredColumn, src/include/inner_column.h).
THEOREM TypeCorrect == Spec => []TypeOK
<1>1. IInv => TypeOK
  <2> SUFFICES ASSUME IInv PROVE TypeOK
    OBVIOUS
  <2>1. ColumnInv /\ PhaseInv /\ StackInv
    BY DEF IInv
  <2>2. Len(file) \in Nat /\ BytesFor(Len(file)) \in Nat
    BY <2>1, RowsOfFile, BytesOfRows
  <2>3. \A c \in Column : /\ Len(columns[c].data) = Len(file)
                          /\ Len(columns[c].bitmap) = BytesFor(Len(file))
    BY <2>1, <2>2 DEF ColumnInv, HoldsFile, Shape, Bitmap
  <2>4. \A k \in DOMAIN stack : Len(stack[k].bytes) = BytesFor(Len(file))
    BY <2>1, <2>2 DEF StackInv, SoundEntry, Bitmap
  <2> QED
    BY <2>1, <2>3, <2>4 DEF TypeOK, PhaseInv
<1> QED
  BY Invariant, <1>1, PTL

\* An exact entry selects what eval(record) selects.
LEMMA SoundEntriesAgree ==
    ASSUME ColumnInv, NEW e \in SoundEntry, e.exact
    PROVE  BitsOf(e.bytes) \intersect Rows = e.truth
<1>1. Len(file) \in Nat /\ Rows = 0 .. (Len(file) - 1)
  BY RowsOfFile
<1>2. /\ e.bytes \in Bitmap(Len(file)) /\ e.truth \in SUBSET Rows
      /\ \A i \in Rows : IsSet(e.bytes, i) <=> i \in e.truth
  BY DEF SoundEntry
<1>3. \A i \in Rows : i \in BitsOf(e.bytes) <=> IsSet(e.bytes, i)
  BY <1>1, <1>2, BitsOfRows
<1> QED
  BY <1>2, <1>3

\* A statement evaluated over bitmaps selects the rows of which eval(record) is true.
THEOREM FiltersAgree == Spec => []FilterAgrees
<1>1. IInv => FilterAgrees
  BY SoundEntriesAgree DEF IInv, StackInv, FilterAgrees
<1> QED
  BY Invariant, <1>1, PTL

\* from_csv returns the records that its filter selects, in the order of the file,
\* whether it parsed the file, found the table or found the result.
THEOREM SelectionReturned == Spec => []ReturnsSelection
<1>1. IInv => ReturnsSelection
  <2> SUFFICES ASSUME IInv, phase = "returned", filtered => stack[1].exact
               PROVE  LET chosen == InOrder(IF filtered THEN stack[1].truth ELSE Rows)
                      IN  /\ ret_rows = Len(chosen)
                          /\ \A c \in Column : out[c] = RecordsAt(chosen, c)
    BY DEF ReturnsSelection, RecordsAt
  <2>1. ColumnInv /\ PhaseInv /\ StackInv /\ OutInv
    BY DEF IInv
  <2>2. SelectedSet = IF filtered THEN stack[1].truth ELSE Rows
    <3>1. CASE filtered
      <4>1. Len(stack) = 1 /\ stack \in Seq(SoundEntry)
        BY <2>1, <3>1 DEF PhaseInv, StackInv
      <4>2. stack[1] \in SoundEntry /\ stack[1].exact
        BY <4>1, <3>1
      <4> QED
        BY <4>2, <2>1, <3>1, SoundEntriesAgree DEF SelectedSet
    <3>2. CASE ~filtered
      BY <3>2 DEF SelectedSet
    <3> QED
      BY <3>1, <3>2
  <2>3. Selected = InOrder(IF filtered THEN stack[1].truth ELSE Rows)
    BY <2>1, <2>2, SelectedRows
  <2> QED
    BY <2>1, <2>3 DEF OutInv, Column
<1> QED
  BY Invariant, <1>1, PTL

-----------------------------------------------------------------------------
(* The pool the kernels run on. *)

\* Worker w has been called and has not finished.
Pending(w) == has_function[w] /\ ~finished[w]

\* A worker in its critical section and the caller exclude each other.
MutexInv == main = "check" => pc[place] \notin {"check", "finish"}

\* Where the caller is with arming the workers and with waiting for them.
CallInv ==
    \A w \in Worker :
        /\ main = "arm" =>
              /\ w < place => has_function[w]
              /\ place <= w => ~Pending(w)
        /\ main \in {"notify", "await", "check", "wait", "relock"} => has_function[w]
        /\ main \in {"await", "check", "wait", "relock"} /\ w < place => ~Pending(w)
        /\ ~Running => ~Pending(w)
        /\ pc[w] = "finish" => Pending(w)

\* Where the caller is with destroying the pool.
DestroyInv ==
    \A w \in Worker :
        /\ destructed[w] => main \in {"flag", "wake", "join", "destroyed"}
        /\ main = "flag" /\ destructed[w] => w < place
        /\ pc[w] = "exited" => destructed[w]

\* Worker w has applied the function in the current call, or the last one.
Applied(w) == (main = "arm" => w < place) /\ (finished[w] \/ pc[w] = "finish")

TasksOf(w) == BeginIdx(w) .. (BeginIdx(w + 1) - 1)

\* The tasks of such a worker have been applied once, the others not at all.
AppliedInv ==
    /\ applied \in [0 .. (num_tasks - 1) -> Nat]
    /\ \A w \in Worker : \A k \in TasksOf(w) : applied[k] = IF Applied(w) THEN 1 ELSE 0

PoolInv ==
    /\ PoolTypeOK
    /\ MutexInv
    /\ CallInv
    /\ DestroyInv
    /\ NoLostWakeup
    /\ AppliedInv

-----------------------------------------------------------------------------
(* The ranges of begin_idx. *)

\* Every number lies between two consecutive multiples.
LEMMA BetweenMultiples ==
    ASSUME NEW k \in Nat, NEW d \in Nat \ {0}
    PROVE  \E w \in Nat : w * d <= k /\ k < w * d + d
<1> DEFINE w == k \div d
<1>1. w \in Nat /\ k % d \in 0 .. (d - 1) /\ k = w * d + (k % d)
  BY DivMod
<1> HIDE DEF w
<1>2. w * d \in Nat
  BY <1>1
<1>3. w * d <= k /\ k < w * d + d
  BY <1>1, <1>2
<1> QED
  BY <1>1, <1>3

\* The first task of a worker; that after the last one is num_tasks.
LEMMA BeginIdxIs ==
    ASSUME num_tasks \in Nat
    PROVE  \E q \in Nat, r \in 0 .. (NumThreads - 1) :
              /\ num_tasks = q * NumThreads + r
              /\ \A w \in 0 .. NumThreads :
                    BeginIdx(w) = w * q + (IF w < r THEN w ELSE r)
<1> DEFINE q == num_tasks \div NumThreads
           r == num_tasks % NumThreads
<1>1. q \in Nat /\ r \in 0 .. (NumThreads - 1) /\ num_tasks = q * NumThreads + r
  BY PoolConstants, DivMod
<1>2. \A w \in 0 .. NumThreads : BeginIdx(w) = w * q + (IF w < r THEN w ELSE r)
  BY DEF BeginIdx
<1> HIDE DEF q, r
<1> QED
  BY <1>1, <1>2

\* The begin indexes of the workers ascend from 0 to the number of tasks.
LEMMA BeginIdxAscends ==
    ASSUME num_tasks \in Nat
    PROVE  /\ \A w \in 0 .. NumThreads : BeginIdx(w) \in 0 .. num_tasks
           /\ \A v, w \in 0 .. NumThreads : v <= w => BeginIdx(v) <= BeginIdx(w)
<1>1. PICK q \in Nat, r \in 0 .. (NumThreads - 1) :
         /\ num_tasks = q * NumThreads + r
         /\ \A w \in 0 .. NumThreads : BeginIdx(w) = w * q + (IF w < r THEN w ELSE r)
  BY BeginIdxIs
<1> DEFINE least(w) == IF w < r THEN w ELSE r
<1>2. \A w \in 0 .. NumThreads : w * q \in Nat /\ least(w) \in Nat /\ least(w) <= r
  BY PoolConstants
<1>3. \A v, w \in 0 .. NumThreads : v <= w => v * q <= w * q
  BY ProductsAscend, PoolConstants
<1>4. \A v, w \in 0 .. NumThreads : v <= w => least(v) <= least(w)
  BY PoolConstants
<1>5. NumThreads \in 0 .. NumThreads /\ NumThreads * q = q * NumThreads
  BY PoolConstants
<1>6. \A w \in 0 .. NumThreads : BeginIdx(w) = w * q + least(w)
  BY <1>1
<1> HIDE DEF least
<1>7. \A w \in 0 .. NumThreads : w * q <= NumThreads * q
  BY <1>3, <1>5
<1>8. ASSUME NEW w \in 0 .. NumThreads
      PROVE  BeginIdx(w) \in 0 .. num_tasks
  <2>1. /\ BeginIdx(w) = w * q + least(w)
        /\ w * q \in Nat /\ w * q <= NumThreads * q
        /\ least(w) \in Nat /\ least(w) <= r
    BY <1>2, <1>6, <1>7
  <2>2. NumThreads * q + r = num_tasks
    BY <1>1, <1>5
  <2>3. NumThreads * q \in Nat
    BY <1>2, <1>5
  <2> QED
    BY <2>1, <2>2, <2>3
<1>9. ASSUME NEW v \in 0 .. NumThreads, NEW w \in 0 .. NumThreads, v <= w
      PROVE  BeginIdx(v) <= BeginIdx(w)
  BY <1>2, <1>3, <1>4, <1>6, <1>9
<1> QED
  BY <1>8, <1>9

\* The workers' ranges lie within the tasks and do not overlap.
LEMMA RangesDisjoint ==
    ASSUME num_tasks \in Nat
    PROVE  /\ \A w \in Worker : TasksOf(w) \subseteq 0 .. (num_tasks - 1)
           /\ \A v, w \in Worker : v # w => TasksOf(v) \intersect TasksOf(w) = {}
<1>1. \A w \in Worker : w \in 0 .. NumThreads /\ w + 1 \in 0 .. NumThreads
  BY PoolConstants DEF Worker
<1>2. \A w \in Worker : BeginIdx(w) \in 0 .. num_tasks /\ BeginIdx(w + 1) \in 0 .. num_tasks
  BY <1>1, BeginIdxAscends
<1>3. ASSUME NEW v \in Worker, NEW w \in Worker, v < w
      PROVE  BeginIdx(v + 1) <= BeginIdx(w)
  <2>1. v + 1 <= w
    BY <1>3 DEF Worker
  <2> QED
    BY <2>1, <1>1, BeginIdxAscends
<1>4. ASSUME NEW v \in Worker, NEW w \in Worker, v < w
      PROVE  TasksOf(v) \intersect TasksOf(w) = {}
  BY <1>2, <1>3, <1>4 DEF TasksOf
<1>5. \A v, w \in Worker : v # w => v < w \/ w < v
  BY DEF Worker
<1> QED
  BY <1>2, <1>4, <1>5 DEF TasksOf

\* After a step, too, a worker's range holds indexes of tasks only.
LEMMA NextRanges ==
    (num_tasks \in Nat)' => (\A w \in Worker : TasksOf(w) \subseteq 0 .. (num_tasks - 1))'
<1>1. num_tasks \in Nat => \A w \in Worker : TasksOf(w) \subseteq 0 .. (num_tasks - 1)
  BY RangesDisjoint
<1> QED
  BY <1>1, PTL

\* Every task is in the range of a worker.
LEMMA RangesCover ==
    ASSUME num_tasks \in Nat, NEW k \in 0 .. (num_tasks - 1)
    PROVE  \E w \in Worker : k \in TasksOf(w)
<1>1. PICK q \in Nat, r \in 0 .. (NumThreads - 1) :
         /\ num_tasks = q * NumThreads + r
         /\ \A w \in 0 .. NumThreads : BeginIdx(w) = w * q + (IF w < r THEN w ELSE r)
  BY BeginIdxIs
<1> USE PoolConstants
<1>2. r * q \in Nat /\ r * (q + 1) = r * q + r
  BY <1>1
<1>3. CASE k < r * q + r
  <2>0. k \in Nat /\ q + 1 \in Nat \ {0}
    BY <1>1
  <2>1. PICK w \in Nat : w * (q + 1) <= k /\ k < w * (q + 1) + (q + 1)
    BY <2>0, BetweenMultiples
  <2>2. w * q \in Nat /\ w * (q + 1) = w * q + w /\ (w + 1) * q = w * q + q
    OBVIOUS
  <2>3. w < r
    <3>1. r <= w => r * (q + 1) <= w * (q + 1)
      BY ProductsAscend
    <3> QED
      BY <3>1, <2>1, <2>2, <1>2, <1>3
  <2>4. w \in Worker /\ w \in 0 .. NumThreads /\ w + 1 \in 0 .. NumThreads
    BY <2>3, <1>1 DEF Worker
  <2>5. BeginIdx(w) = w * q + w /\ BeginIdx(w + 1) = w * q + q + w + 1
    BY <2>2, <2>3, <2>4, <1>1
  <2> QED
    BY <2>1, <2>2, <2>4, <2>5 DEF TasksOf
<1>4. CASE r * q + r <= k
  <2>1. q # 0
    BY <1>1, <1>4
  <2> DEFINE rest == k - (r * q + r)
  <2>2. rest \in Nat
    BY <1>2, <1>4
  <2>3. PICK m \in Nat : m * q <= rest /\ rest < m * q + q
    BY <2>1, <2>2, BetweenMultiples
  <2> DEFINE w == r + m
  <2>4. w \in Nat /\ m * q \in Nat /\ w * q = r * q + m * q /\ (w + 1) * q = r * q + m * q + q
    OBVIOUS
  <2>5. w * q + r <= k /\ k < (w + 1) * q + r
    BY <2>3, <2>4, <1>2
  <2>6. ~(w < r) /\ ~(w + 1 < r)
    OBVIOUS
  <2> HIDE DEF w, rest
  <2>7. w < NumThreads
    <3>1. NumThreads <= w => NumThreads * q <= w * q
      BY <2>4, ProductsAscend
    <3>2. NumThreads * q = q * NumThreads /\ NumThreads * q \in Nat /\ w * q \in Nat
      BY <2>4
    <3> QED
      BY <3>1, <3>2, <2>4, <2>5, <1>1
  <2>8. w \in Worker /\ w \in 0 .. NumThreads /\ w + 1 \in 0 .. NumThreads
    BY <2>4, <2>7 DEF Worker
  <2>9. BeginIdx(w) = w * q + r /\ BeginIdx(w + 1) = (w + 1) * q + r
    BY <2>6, <2>8, <1>1
  <2> QED
    BY <2>4, <2>5, <2>8, <2>9, <1>2 DEF TasksOf
<1> QED
  BY <1>2, <1>3, <1>4

-----------------------------------------------------------------------------
(* Every step preserves the invariant. *)

\* Types, and a mutex is held where the code holds it.
LEMMA TypePreserved ==
    ASSUME PoolInv, [PoolNext]_poolVars
    PROVE  PoolTypeOK'
<1> USE PoolConstants DEF PoolInv, PoolTypeOK, Worker, flagVars, MutexInv
<1>1. ASSUME NEW v \in Worker, WorkerLock(v)
      PROVE  PoolTypeOK'
  BY <1>1 DEF WorkerLock
<1>2. ASSUME NEW v \in Worker, WorkerWait(v)
      PROVE  PoolTypeOK'
  BY <1>2 DEF WorkerWait
<1>3. ASSUME NEW v \in Worker, WorkerExit(v)
      PROVE  PoolTypeOK'
  BY <1>3 DEF WorkerExit
<1>4. ASSUME NEW v \in Worker, WorkerApply(v)
      PROVE  PoolTypeOK'
  BY <1>4 DEF WorkerApply
<1>5. ASSUME NEW v \in Worker, WorkerFinish(v)
      PROVE  PoolTypeOK'
  BY <1>5 DEF WorkerFinish
<1>6. ASSUME NEW v \in Worker, WorkerNotify(v)
      PROVE  PoolTypeOK'
  BY <1>6 DEF WorkerNotify
<1>7. CASE Run
  BY <1>7 DEF Run
<1>8. CASE Arm
  BY <1>8 DEF Arm, Advance
<1>9. CASE Notify
  BY <1>9 DEF Notify, Advance
<1>10. CASE AwaitLock
  BY <1>10 DEF AwaitLock
<1>11. CASE AwaitWait
  BY <1>11 DEF AwaitWait
<1>12. CASE AwaitNext
  <2>1. /\ main' \in {"await", "idle"}
        /\ place' \in Worker
    BY <1>12 DEF AwaitNext
  <2>2. owner' = [w \in Worker |-> IF pc'[w] \in {"check", "finish"} THEN "worker" ELSE "free"]
    BY <1>12 DEF AwaitNext
  <2> QED
    BY <1>12, <2>1, <2>2 DEF AwaitNext
<1>13. CASE Destroy
  BY <1>13 DEF Destroy
<1>14. CASE Flag
  BY <1>14 DEF Flag, Advance
<1>15. CASE Wake
  BY <1>15 DEF Wake, Advance
<1>16. CASE Join
  BY <1>16 DEF Join, Advance
<1>17. CASE SpuriousWake
  BY <1>17 DEF SpuriousWake
<1>18. CASE Destroyed
  BY <1>18 DEF Destroyed, poolVars, flagVars
<1>19. CASE UNCHANGED poolVars
  BY <1>19 DEF poolVars, flagVars
<1> QED
  BY <1>1, <1>2, <1>3, <1>4, <1>5, <1>6, <1>7, <1>8, <1>9, <1>10, <1>11, <1>12, <1>13, <1>14, <1>15, <1>16, <1>17, <1>18, <1>19
     DEF PoolNext, WorkerStep, RunStep, DestroyStep

\* The caller and a worker do not hold one mutex together.
LEMMA MutexPreserved ==
    ASSUME PoolInv, [PoolNext]_poolVars
    PROVE  MutexInv'
<1> USE PoolConstants DEF PoolInv, PoolTypeOK, Worker, flagVars, MutexInv
<1>1. ASSUME NEW v \in Worker, WorkerLock(v)
      PROVE  MutexInv'
  BY <1>1 DEF WorkerLock
<1>2. ASSUME NEW v \in Worker, WorkerWait(v)
      PROVE  MutexInv'
  BY <1>2 DEF WorkerWait
<1>3. ASSUME NEW v \in Worker, WorkerExit(v)
      PROVE  MutexInv'
  BY <1>3 DEF WorkerExit
<1>4. ASSUME NEW v \in Worker, WorkerApply(v)
      PROVE  MutexInv'
  BY <1>4 DEF WorkerApply
<1>5. ASSUME NEW v \in Worker, WorkerFinish(v)
      PROVE  MutexInv'
  BY <1>5 DEF WorkerFinish
<1>6. ASSUME NEW v \in Worker, WorkerNotify(v)
      PROVE  MutexInv'
  BY <1>6 DEF WorkerNotify
<1>7. CASE Run
  BY <1>7 DEF Run
<1>8. CASE Arm
  BY <1>8 DEF Arm, Advance
<1>9. CASE Notify
  BY <1>9 DEF Notify, Advance
<1>10. CASE AwaitLock
  BY <1>10 DEF AwaitLock
<1>11. CASE AwaitWait
  BY <1>11 DEF AwaitWait
<1>12. CASE AwaitNext
  BY <1>12 DEF AwaitNext
<1>13. CASE Destroy
  BY <1>13 DEF Destroy
<1>14. CASE Flag
  BY <1>14 DEF Flag, Advance
<1>15. CASE Wake
  BY <1>15 DEF Wake, Advance
<1>16. CASE Join
  BY <1>16 DEF Join, Advance
<1>17. CASE SpuriousWake
  BY <1>17 DEF SpuriousWake
<1>18. CASE Destroyed
  BY <1>18 DEF Destroyed, poolVars, flagVars
<1>19. CASE UNCHANGED poolVars
  BY <1>19 DEF poolVars, flagVars
<1> QED
  BY <1>1, <1>2, <1>3, <1>4, <1>5, <1>6, <1>7, <1>8, <1>9, <1>10, <1>11, <1>12, <1>13, <1>14, <1>15, <1>16, <1>17, <1>18, <1>19
     DEF PoolNext, WorkerStep, RunStep, DestroyStep

\* Which workers are called follows the loops of run.
LEMMA CallPreserved ==
    ASSUME PoolInv, [PoolNext]_poolVars
    PROVE  CallInv'
<1> USE PoolConstants DEF PoolInv, PoolTypeOK, Worker, flagVars, CallInv, Running, Pending
<1>1. ASSUME NEW v \in Worker, WorkerLock(v)
      PROVE  CallInv'
  BY <1>1 DEF WorkerLock
<1>2. ASSUME NEW v \in Worker, WorkerWait(v)
      PROVE  CallInv'
  BY <1>2 DEF WorkerWait
<1>3. ASSUME NEW v \in Worker, WorkerExit(v)
      PROVE  CallInv'
  BY <1>3 DEF WorkerExit
<1>4. ASSUME NEW v \in Worker, WorkerApply(v)
      PROVE  CallInv'
  BY <1>4 DEF WorkerApply, Called
<1>5. ASSUME NEW v \in Worker, WorkerFinish(v)
      PROVE  CallInv'
  BY <1>5 DEF WorkerFinish
<1>6. ASSUME NEW v \in Worker, WorkerNotify(v)
      PROVE  CallInv'
  BY <1>6 DEF WorkerNotify
<1>7. CASE Run
  BY <1>7 DEF Run
<1>8. CASE Arm
  BY <1>8 DEF Arm, Advance
<1>9. CASE Notify
  BY <1>9 DEF Notify, Advance
<1>10. CASE AwaitLock
  BY <1>10 DEF AwaitLock
<1>11. CASE AwaitWait
  BY <1>11 DEF AwaitWait
<1>12. CASE AwaitNext
  BY <1>12 DEF AwaitNext
<1>13. CASE Destroy
  BY <1>13 DEF Destroy
<1>14. CASE Flag
  BY <1>14 DEF Flag, Advance
<1>15. CASE Wake
  BY <1>15 DEF Wake, Advance
<1>16. CASE Join
  BY <1>16 DEF Join, Advance
<1>17. CASE SpuriousWake
  BY <1>17 DEF SpuriousWake
<1>18. CASE Destroyed
  BY <1>18 DEF Destroyed, poolVars, flagVars
<1>19. CASE UNCHANGED poolVars
  BY <1>19 DEF poolVars, flagVars
<1> QED
  BY <1>1, <1>2, <1>3, <1>4, <1>5, <1>6, <1>7, <1>8, <1>9, <1>10, <1>11, <1>12, <1>13, <1>14, <1>15, <1>16, <1>17, <1>18, <1>19
     DEF PoolNext, WorkerStep, RunStep, DestroyStep

\* Flags are set by the destructor only, one after the other.
LEMMA DestroyPreserved ==
    ASSUME PoolInv, [PoolNext]_poolVars
    PROVE  DestroyInv'
<1> USE PoolConstants DEF PoolInv, PoolTypeOK, Worker, flagVars, DestroyInv
<1>1. ASSUME NEW v \in Worker, WorkerLock(v)
      PROVE  DestroyInv'
  BY <1>1 DEF WorkerLock
<1>2. ASSUME NEW v \in Worker, WorkerWait(v)
      PROVE  DestroyInv'
  BY <1>2 DEF WorkerWait
<1>3. ASSUME NEW v \in Worker, WorkerExit(v)
      PROVE  DestroyInv'
  BY <1>3 DEF WorkerExit
<1>4. ASSUME NEW v \in Worker, WorkerApply(v)
      PROVE  DestroyInv'
  BY <1>4 DEF WorkerApply
<1>5. ASSUME NEW v \in Worker, WorkerFinish(v)
      PROVE  DestroyInv'
  BY <1>5 DEF WorkerFinish
<1>6. ASSUME NEW v \in Worker, WorkerNotify(v)
      PROVE  DestroyInv'
  BY <1>6 DEF WorkerNotify
<1>7. CASE Run
  BY <1>7 DEF Run
<1>8. CASE Arm
  BY <1>8 DEF Arm, Advance
<1>9. CASE Notify
  BY <1>9 DEF Notify, Advance
<1>10. CASE AwaitLock
  BY <1>10 DEF AwaitLock
<1>11. CASE AwaitWait
  BY <1>11 DEF AwaitWait
<1>12. CASE AwaitNext
  BY <1>12 DEF AwaitNext
<1>13. CASE Destroy
  BY <1>13 DEF Destroy
<1>14. CASE Flag
  BY <1>14 DEF Flag, Advance
<1>15. CASE Wake
  BY <1>15 DEF Wake, Advance
<1>16. CASE Join
  BY <1>16 DEF Join, Advance
<1>17. CASE SpuriousWake
  BY <1>17 DEF SpuriousWake
<1>18. CASE Destroyed
  BY <1>18 DEF Destroyed, poolVars, flagVars
<1>19. CASE UNCHANGED poolVars
  BY <1>19 DEF poolVars, flagVars
<1> QED
  BY <1>1, <1>2, <1>3, <1>4, <1>5, <1>6, <1>7, <1>8, <1>9, <1>10, <1>11, <1>12, <1>13, <1>14, <1>15, <1>16, <1>17, <1>18, <1>19
     DEF PoolNext, WorkerStep, RunStep, DestroyStep

\* No wake-up gets lost.
LEMMA WakeupPreserved ==
    ASSUME PoolInv, [PoolNext]_poolVars
    PROVE  NoLostWakeup'
<1> USE PoolConstants DEF PoolInv, PoolTypeOK, Worker, flagVars, DestroyInv, CallInv, NoLostWakeup, Called, Pending, Running
<1>1. ASSUME NEW v \in Worker, WorkerLock(v)
      PROVE  NoLostWakeup'
  BY <1>1 DEF WorkerLock
<1>2. ASSUME NEW v \in Worker, WorkerWait(v)
      PROVE  NoLostWakeup'
  BY <1>2 DEF WorkerWait
<1>3. ASSUME NEW v \in Worker, WorkerExit(v)
      PROVE  NoLostWakeup'
  BY <1>3 DEF WorkerExit
<1>4. ASSUME NEW v \in Worker, WorkerApply(v)
      PROVE  NoLostWakeup'
  BY <1>4 DEF WorkerApply
<1>5. ASSUME NEW v \in Worker, WorkerFinish(v)
      PROVE  NoLostWakeup'
  BY <1>5 DEF WorkerFinish
<1>6. ASSUME NEW v \in Worker, WorkerNotify(v)
      PROVE  NoLostWakeup'
  BY <1>6 DEF WorkerNotify
<1>7. CASE Run
  BY <1>7 DEF Run
<1>8. CASE Arm
  BY <1>8 DEF Arm, Advance
<1>9. CASE Notify
  BY <1>9 DEF Notify, Advance
<1>10. CASE AwaitLock
  BY <1>10 DEF AwaitLock
<1>11. CASE AwaitWait
  BY <1>11 DEF AwaitWait
<1>12. CASE AwaitNext
  BY <1>12 DEF AwaitNext
<1>13. CASE Destroy
  BY <1>13 DEF Destroy
<1>14. CASE Flag
  BY <1>14 DEF Flag, Advance
<1>15. CASE Wake
  BY <1>15 DEF Wake, Advance
<1>16. CASE Join
  BY <1>16 DEF Join, Advance
<1>17. CASE SpuriousWake
  BY <1>17 DEF SpuriousWake
<1>18. CASE Destroyed
  BY <1>18 DEF Destroyed, poolVars, flagVars
<1>19. CASE UNCHANGED poolVars
  BY <1>19 DEF poolVars, flagVars
<1> QED
  BY <1>1, <1>2, <1>3, <1>4, <1>5, <1>6, <1>7, <1>8, <1>9, <1>10, <1>11, <1>12, <1>13, <1>14, <1>15, <1>16, <1>17, <1>18, <1>19
     DEF PoolNext, WorkerStep, RunStep, DestroyStep

\* A task is applied by the one worker in whose range it is.
LEMMA AppliedPreserved ==
    ASSUME PoolInv, [PoolNext]_poolVars
    PROVE  AppliedInv'
<1> USE DEF PoolInv, PoolTypeOK, AppliedInv, flagVars
<1>1. ASSUME UNCHANGED <<applied, num_tasks>>,
             \A w \in Worker : Applied(w)' = Applied(w)
      PROVE  AppliedInv'
  BY <1>1 DEF TasksOf, BeginIdx
<1>2. ASSUME NEW v \in Worker, WorkerLock(v) \/ WorkerWait(v) \/ WorkerExit(v)
      PROVE  AppliedInv'
  <2>1. \A w \in Worker : pc'[w] = "finish" <=> pc[w] = "finish"
    BY <1>2 DEF WorkerLock, WorkerWait, WorkerExit
  <2>2. UNCHANGED <<main, place, finished, applied, num_tasks>>
    BY <1>2 DEF WorkerLock, WorkerWait, WorkerExit
  <2> QED
    BY <2>1, <2>2, <1>1 DEF Applied
<1>3. ASSUME NEW v \in Worker, WorkerApply(v)
      PROVE  AppliedInv'
  <2>1. /\ applied' = [k \in DOMAIN applied |-> IF k \in TasksOf(v) THEN applied[k] + 1 ELSE applied[k]]
        /\ UNCHANGED <<main, place, finished, num_tasks>>
        /\ pc' = [pc EXCEPT ![v] = "finish"]
    BY <1>3 DEF WorkerApply, TasksOf
  <2>2. ~Applied(v)
    BY <1>3 DEF WorkerApply, Called, Applied
  <2>3. Applied(v)'
    BY <1>3, <2>1 DEF WorkerApply, Called, Applied, CallInv, Pending, Worker
  <2>4. \A w \in Worker \ {v} : Applied(w)' = Applied(w)
    BY <2>1 DEF Applied
  <2>5. \A w \in Worker : TasksOf(w)' = TasksOf(w)
    BY <2>1 DEF TasksOf, BeginIdx
  <2>6. /\ \A w \in Worker : TasksOf(w) \subseteq 0 .. (num_tasks - 1)
        /\ \A w \in Worker \ {v} : TasksOf(v) \intersect TasksOf(w) = {}
    BY RangesDisjoint
  <2>7. applied' \in [0 .. (num_tasks - 1) -> Nat]
    BY <2>1
  <2>8. ASSUME NEW w \in Worker, NEW k \in TasksOf(w)
        PROVE  applied'[k] = IF Applied(w)' THEN 1 ELSE 0
    <3>1. k \in DOMAIN applied /\ (k \in TasksOf(v) <=> w = v)
      BY <2>6, <2>8
    <3>2. applied[k] = IF Applied(w) THEN 1 ELSE 0
      OBVIOUS
    <3>3. CASE w = v
      BY <3>1, <3>2, <3>3, <2>1, <2>2, <2>3
    <3>4. CASE w # v
      BY <3>1, <3>2, <3>4, <2>1, <2>4
    <3> QED
      BY <3>3, <3>4
  <2> QED
    BY <2>1, <2>5, <2>7, <2>8
<1>4. ASSUME NEW v \in Worker, WorkerFinish(v)
      PROVE  AppliedInv'
  BY <1>1, <1>4 DEF WorkerFinish, Applied
<1>5. ASSUME NEW v \in Worker, WorkerNotify(v)
      PROVE  AppliedInv'
  BY <1>1, <1>5 DEF WorkerNotify, Applied
<1>6. CASE Run
  <2>1. PICK n \in TaskCounts : num_tasks' = n /\ applied' = [k \in 0 .. (n - 1) |-> 0]
    BY <1>6 DEF Run
  <2>2. n \in Nat
    BY PoolConstants
  <2>3. \A w \in Worker : ~Applied(w)'
    BY <1>6 DEF Run, Applied, Worker
  <2>4. num_tasks' \in Nat => \A w \in Worker : TasksOf(w)' \subseteq 0 .. (num_tasks' - 1)
    BY NextRanges
  <2> QED
    BY <2>1, <2>2, <2>3, <2>4
<1>7. CASE Arm
  <2>1. \A w \in Worker : Applied(w)' = Applied(w)
    BY <1>7, PoolConstants DEF Arm, Advance, Applied, Worker, CallInv, Pending
  <2> QED
    BY <1>1, <1>7, <2>1 DEF Arm
<1>8. CASE Notify \/ Wake
  BY <1>1, <1>8 DEF Notify, Wake, Advance, Applied
<1>9. CASE AwaitLock \/ AwaitWait \/ AwaitNext
  BY <1>1, <1>9 DEF AwaitLock, AwaitWait, AwaitNext, Applied
<1>10. CASE Destroy \/ Flag \/ Join
  BY <1>1, <1>10 DEF Destroy, Flag, Join, Advance, Applied
<1>11. CASE SpuriousWake
  BY <1>1, <1>11 DEF SpuriousWake, Applied
<1>12. CASE Destroyed \/ UNCHANGED poolVars
  BY <1>1, <1>12 DEF Destroyed, poolVars, Applied
<1> QED
  BY <1>2, <1>3, <1>4, <1>5, <1>6, <1>7, <1>8, <1>9, <1>10, <1>11, <1>12
     DEF PoolNext, WorkerStep, RunStep, DestroyStep

-----------------------------------------------------------------------------
(* Theorems. *)

\* The pool of the constructor satisfies the invariant.
LEMMA PoolInitially == PoolInit => PoolInv
<1> SUFFICES ASSUME PoolInit PROVE PoolInv
  OBVIOUS
<1> USE PoolConstants DEF PoolInit
<1>1. 0 \in Worker
  BY DEF Worker
<1>2. DOMAIN applied = 0 .. (num_tasks - 1) /\ applied \in [0 .. (num_tasks - 1) -> Nat]
  BY SMT
<1>3. \A w \in Worker : TasksOf(w) = {}
  BY RangesDisjoint DEF TasksOf
<1> QED
  BY <1>1, <1>2, <1>3
     DEF PoolInv, PoolTypeOK, MutexInv, CallInv, DestroyInv, NoLostWakeup, AppliedInv, Running, Pending,
         Called

\* The inductive invariant: types, mutexes, the loops of run and of the
\* destructor, wake-ups, and which tasks have been applied.
THEOREM PoolInvariant == PoolSpec => []PoolInv
<1>1. PoolInv /\ [PoolNext]_poolVars => PoolInv'
  BY TypePreserved, MutexPreserved, CallPreserved, DestroyPreserved, WakeupPreserved,
     AppliedPreserved DEF PoolInv
<1> QED
  BY PoolInitially, <1>1, PTL DEF PoolSpec

\* Flags, program counters and mutexes are always what the code makes of them.
THEOREM PoolTypeCorrect == PoolSpec => []PoolTypeOK
<1>1. PoolInv => PoolTypeOK
  BY DEF PoolInv
<1> QED
  BY PoolInvariant, <1>1, PTL

\* function and num_tasks, which no mutex protects, are never written while a
\* worker reads them or is about to, for any number of workers and calls.
THEOREM FunctionIsCallers == PoolSpec => []CallerOwnsFunction
<1>1. PoolInv => CallerOwnsFunction
  BY DEF PoolInv, CallInv, CallerOwnsFunction, Pending
<1> QED
  BY PoolInvariant, <1>1, PTL

\* notify_one on the one condition variable of a worker always wakes the side
\* that has to be woken, spurious wake-ups or not.
THEOREM WakeupsArrive == PoolSpec => []NoLostWakeup
<1>1. PoolInv => NoLostWakeup
  BY DEF PoolInv
<1> QED
  BY PoolInvariant, <1>1, PTL

\* A step of the pool is a call, an application of tasks that were not applied
\* before, a return after all tasks, or nothing, for the caller of run.
LEMMA StepImplements ==
    ASSUME PoolInv, [PoolNext]_poolVars
    PROVE  [Abstract!Next]_<<Running, applied, runs>>
<1> USE DEF PoolInv, PoolTypeOK, AppliedInv, flagVars
<1>1. ASSUME NEW v \in Worker, WorkerApply(v)
      PROVE  \E S \in SUBSET (DOMAIN applied) : Abstract!Apply(S)
  <2>1. TasksOf(v) \subseteq DOMAIN applied
    BY RangesDisjoint
  <2>2. \A k \in TasksOf(v) : applied[k] = 0
    BY <1>1 DEF WorkerApply, Called, Applied
  <2>3. Running /\ Running'
    BY <1>1 DEF WorkerApply, Called, CallInv, Pending, Running
  <2>4. applied' = [k \in DOMAIN applied |-> IF k \in TasksOf(v) THEN 1 ELSE applied[k]]
    BY <1>1, <2>1, <2>2 DEF WorkerApply, TasksOf
  <2> QED
    BY <1>1, <2>1, <2>2, <2>3, <2>4 DEF WorkerApply, Abstract!Apply
<1>2. CASE Run
  BY <1>2 DEF Run, Running, Abstract!Call, Abstract!Next
<1>3. CASE AwaitNext /\ place + 1 < NumThreads
  BY <1>3 DEF AwaitNext, Running
<1>4. CASE AwaitNext /\ ~(place + 1 < NumThreads)
  <2>1. \A w \in Worker : finished[w]
    BY <1>4, PoolConstants DEF AwaitNext, CallInv, Pending, Worker
  <2>2. ASSUME NEW k \in DOMAIN applied
        PROVE  applied[k] = 1
    <3>1. PICK w \in Worker : k \in TasksOf(w)
      BY RangesCover
    <3> QED
      BY <1>4, <2>1, <3>1 DEF AwaitNext, Applied
  <2> QED
    BY <1>4, <2>2 DEF AwaitNext, Running, Abstract!Return, Abstract!Next
<1>5. ASSUME NEW v \in Worker,
             \/ WorkerLock(v) \/ WorkerWait(v) \/ WorkerExit(v) \/ WorkerFinish(v) \/ WorkerNotify(v)
      PROVE  UNCHANGED <<Running, applied, runs>>
  BY <1>5 DEF WorkerLock, WorkerWait, WorkerExit, WorkerFinish, WorkerNotify, Running
<1>6. CASE Arm \/ Notify \/ AwaitLock \/ AwaitWait
  BY <1>6 DEF Arm, Notify, AwaitLock, AwaitWait, Advance, Running
<1>7. CASE Destroy \/ DestroyStep \/ Destroyed \/ UNCHANGED poolVars
  BY <1>7 DEF Destroy, DestroyStep, Flag, Wake, Join, Advance, Destroyed, poolVars, Running
<1>8. CASE SpuriousWake
  BY <1>8 DEF SpuriousWake, Running
<1> QED
  BY <1>1, <1>2, <1>3, <1>4, <1>5, <1>6, <1>7, <1>8
     DEF PoolNext, WorkerStep, RunStep, Abstract!Next

\* run is a parallel for: the function is applied to every task exactly once,
\* between the call and the return.  (That run returns is checked by TLC.)
THEOREM ImplementsSafely == PoolSpec => ImplementsParallelFor
<1>1. PoolInit => Abstract!Init
  BY DEF PoolInit, Abstract!Init, Running
<1>2. PoolInv /\ [PoolNext]_poolVars => [Abstract!Next]_<<Running, applied, runs>>
  BY StepImplements
<1> QED
  BY PoolInvariant, <1>1, <1>2, PTL DEF PoolSpec, ImplementsParallelFor, Abstract!Safety, Abstract!vars
=============================================================================
