-------------------------- MODULE ExecutionProofs ---------------------------
(***************************************************************************)
(* Proofs about execution.                                                  *)
(*   - A join node, for relations of every size, every team of threads and  *)
(*     every size of grains, ranges, buffers and chunks.  What              *)
(*     SlabCollectProofs shows of the collection is used through INSTANCE   *)
(*     with the join's own substitution.                                    *)
(*   - A query, for every plan of scans and joins over every set of tables: *)
(*     the memory of its columns, and the answer it delivers.               *)
(***************************************************************************)
EXTENDS HashJoin, QueryRun, CommonLemmas

CollectProofs == INSTANCE SlabCollectProofs WITH
    Thread <- Worker,
    Partition <- 0 .. (NumPartitions - 1),
    KeyOf <- BuildKey,
    Key <- Keys,
    PartOf <- [k \in Keys |-> CrcOf[k] % NumPartitions],
    Null <- NullValue,
    local <- slabLocal,
    at <- slabAt

-----------------------------------------------------------------------------
(* HashJoin and this module take the collection from two instances with the *)
(* same substitution.                                                       *)

\* The collection this join instantiates starts like the one proved correct.
LEMMA SameInit == Collect!Init <=> CollectProofs!Init
BY DEF Collect!Init, CollectProofs!Init

\* The two visit the same rows.
LEMMA SameVisited == Collect!Visited = CollectProofs!Visited /\ \A v : Collect!RowAt(v) = CollectProofs!RowAt(v)
BY DEF Collect!Visited, CollectProofs!Visited, Collect!RowAt, CollectProofs!RowAt

\* A step of the one is a step of the other.
LEMMA SameStep ==
    ASSUME NEW t \in Worker
    PROVE  Collect!ThreadStep(t) => CollectProofs!ThreadStep(t)
<1> USE DEF Collect!loopVars, CollectProofs!loopVars, Collect!storeVars, CollectProofs!storeVars,
   Collect!slabVars, CollectProofs!slabVars
<1>1. Collect!Claim(t) <=> CollectProofs!Claim(t)
  BY Zenon DEF Collect!Claim, CollectProofs!Claim
<1>2. Collect!SkipNull(t) <=> CollectProofs!SkipNull(t)
  BY Zenon DEF Collect!SkipNull, CollectProofs!SkipNull
<1>3. Collect!Buffer(t) => CollectProofs!Buffer(t)
  BY Zenon DEF Collect!Buffer, CollectProofs!Buffer, Collect!Cardinality, CollectProofs!Cardinality
<1>4. Collect!EndRange(t) <=> CollectProofs!EndRange(t)
  BY Zenon DEF Collect!EndRange, CollectProofs!EndRange
<1>5. Collect!EndLoop(t) <=> CollectProofs!EndLoop(t)
  BY Zenon DEF Collect!EndLoop, CollectProofs!EndLoop
<1>6. Collect!LeaveBarrier(t) <=> CollectProofs!LeaveBarrier(t)
  BY Zenon DEF Collect!LeaveBarrier, CollectProofs!LeaveBarrier
<1>7. Collect!RestNext(t) <=> CollectProofs!RestNext(t)
  BY Zenon DEF Collect!RestNext, CollectProofs!RestNext
<1>8. Collect!RestDone(t) <=> CollectProofs!RestDone(t)
  BY Zenon DEF Collect!RestDone, CollectProofs!RestDone
<1>9. Collect!Lock(t) <=> CollectProofs!Lock(t)
  BY Zenon DEF Collect!Lock, CollectProofs!Lock
<1>10. Collect!Allocate(t) <=> CollectProofs!Allocate(t)
  BY Zenon DEF Collect!Allocate, CollectProofs!Allocate, Collect!FreeSpace,
     CollectProofs!FreeSpace, Collect!Current, CollectProofs!Current, Collect!EmptyChunk,
     CollectProofs!EmptyChunk, Collect!Storable, CollectProofs!Storable, Collect!Cell,
     CollectProofs!Cell
<1>11. Collect!Store(t) <=> CollectProofs!Store(t)
  BY Zenon DEF Collect!Store, CollectProofs!Store, Collect!Current, CollectProofs!Current
<1>12. Collect!Unlock(t) <=> CollectProofs!Unlock(t)
  BY Zenon DEF Collect!Unlock, CollectProofs!Unlock
<1> QED
  BY Zenon, <1>1, <1>2, <1>3, <1>4, <1>5, <1>6, <1>7, <1>8, <1>9, <1>10, <1>11,
     <1>12 DEF Collect!ThreadStep, CollectProofs!ThreadStep

-----------------------------------------------------------------------------
(* The assumptions of the collection hold in the join.                      *)

\* The lesser of two numbers.
LEMMA MinOfTwo ==
    ASSUME NEW a \in Int, NEW b \in Int
    PROVE  Min({a, b}) = IF a <= b THEN a ELSE b
<1> DEFINE m == IF a <= b THEN a ELSE b
<1>1. m \in {a, b} /\ \A y \in {a, b} : m <= y
  OBVIOUS
<1>2. \A x \in {a, b} : (\A y \in {a, b} : x <= y) => x = m
  OBVIOUS
<1> HIDE DEF m
<1> QED
  BY <1>1, <1>2 DEF Min

\* The greater of two numbers.
LEMMA MaxOfTwo ==
    ASSUME NEW a \in Int, NEW b \in Int
    PROVE  Max({a, b}) = IF a >= b THEN a ELSE b
<1> DEFINE m == IF a >= b THEN a ELSE b
<1>1. m \in {a, b} /\ \A y \in {a, b} : m >= y
  OBVIOUS
<1>2. \A x \in {a, b} : (\A y \in {a, b} : x >= y) => x = m
  OBVIOUS
<1> HIDE DEF m
<1> QED
  BY <1>1, <1>2 DEF Max

\* The loop that doubles p ends with a power of two that is at least n.
LEMMA PowerExists ==
    ASSUME NEW n \in 0 .. 64
    PROVE  PowerAtLeast(n) \in PowersOfTwo
<1>1. \E p \in PowersOfTwo : p >= n /\ \A q \in PowersOfTwo : q >= n => q >= p
  BY DEF PowersOfTwo
<1> QED
  BY <1>1 DEF PowerAtLeast

\* A power of two is positive.
LEMMA PowersPositive == PowersOfTwo \subseteq Nat \ {0}
BY DEF PowersOfTwo

\* There is a partition, whatever the sizes of the relations.
LEMMA PartitionsExist == NumPartitions \in Nat \ {0}
<1> DEFINE n == Max({BuildRows, ProbeRows})
           m == n \div RowsPerPartition
           k == Max({1, m})
           j == Min({64, k})
<1>1. n \in Nat
  BY JoinAssumption, MaxOfTwo
<1>2. RowsPerPartition \in Nat \ {0}
  BY JoinAssumption
<1> HIDE DEF n
<1>3. m \in Nat
  BY <1>1, <1>2
<1> HIDE DEF m
<1>4. k \in Nat
  BY <1>3, MaxOfTwo
<1> HIDE DEF k
<1>5. j \in 0 .. 64
  <2>1. j = IF 64 <= k THEN 64 ELSE k
    BY <1>4, MinOfTwo
  <2> HIDE DEF j
  <2> QED
    BY <1>4, <2>1
<1> HIDE DEF j
<1>6. PowerAtLeast(j) \in Nat \ {0}
  BY <1>5, PowerExists, PowersPositive
<1> QED
  BY <1>6 DEF NumPartitions, n, m, k, j

\* What is assumed of the join implies what the proofs of the collection assume.
LEMMA Assumed == CollectProofs!ConstantsAssumption
<1> USE JoinAssumption
<1>1. Worker # {}
  <2>1. 0 \in Worker
    BY DEF Worker
  <2> QED
    BY <2>1
<1>2. DOMAIN BuildKey = CollectProofs!BuildRow /\ CollectProofs!BuildRow = 0 .. (BuildRows - 1)
  BY DEF BuildKey, CollectProofs!BuildRow
<1>3. BuildKey \in [CollectProofs!BuildRow -> Keys \union {NullValue}]
  BY <1>2 DEF BuildKey
<1>4. [k \in Keys |-> CrcOf[k] % NumPartitions] \in [Keys -> 0 .. (NumPartitions - 1)]
  <2> DEFINE n == NumPartitions
  <2>1. n \in Nat \ {0}
    BY PartitionsExist
  <2> HIDE DEF n
  <2>2. ASSUME NEW k \in Keys
        PROVE  (CrcOf[k] % n) \in 0 .. (n - 1)
    BY <2>1
  <2>3. [k \in Keys |-> CrcOf[k] % n] \in [Keys -> 0 .. (n - 1)]
    BY <2>2
  <2> QED
    BY <2>3 DEF n
<1> QED
  BY <1>1, <1>2, <1>3, <1>4 DEF CollectProofs!ConstantsAssumption

\* So what is proved of the collection applies.
LEMMA CollectInductive ==
    CollectProofs!IInv /\ [CollectProofs!Next]_(CollectProofs!vars) => CollectProofs!IInv'
BY Assumed, CollectProofs!Inductive

-----------------------------------------------------------------------------
(* The invariant of the probe. *)

\* The values an output column can get from a build row and a probe row.
Value == {OutputValue(o, b, i) : o \in Out, b \in DOMAIN BuildKey, i \in 0 .. (ProbeRows - 1)}

\* The table holds build rows under their keys.
TableInv ==
    /\ IsFiniteSet(DOMAIN table)
    /\ \A p \in DOMAIN table : /\ table[p].row \in DOMAIN BuildKey
                               /\ table[p].key = BuildKey[table[p].row]
                               /\ table[p].key # NullValue

\* A thread advances the counter past the last row once, when it stops; the
\* grains lie below the counter.
CounterInv ==
    /\ stopped \subseteq Worker
    /\ global_idx \in Nat
    /\ global_idx <= ProbeRows + (Cardinality(stopped) + 1) * GrainSize
    /\ at \in [Worker -> 0 .. ProbeRows]
    /\ end \in [Worker -> 0 .. ProbeRows]
    /\ \A t \in Worker : at[t] <= end[t] /\ end[t] <= global_idx
    /\ \A t, u \in Worker : t # u =>
          end[t] <= at[u] \/ end[u] <= at[t] \/ at[t] = end[t] \/ at[u] = end[u]

MergeInv ==
    /\ out \in 1 .. (Len(OutputAttrs) + 1)
    /\ DOMAIN results = Out

\* What stands at one position of columns comes from one matching pair.
FromPairs(columns) ==
    /\ Aligned(columns)
    /\ \A q \in Out : \A i \in DOMAIN columns[q] :
          \E b \in DOMAIN BuildKey, p \in 1 .. ProbeRows :
              /\ BuildKey[b] = ProbeRel[ProbeCol][p]
              /\ BuildKey[b] # NullValue
              /\ RowOf(columns, i) = [o \in Out |->
                    IF BuildLeft THEN Accessor(o, b, p - 1) ELSE Accessor(o, p - 1, b)]

ColumnsInv ==
    /\ local \in [Worker -> [Out -> Seq(Value)]]
    /\ \A t \in Worker : FromPairs(local[t])

ProbeInv == TableInv /\ CounterInv /\ MergeInv /\ ColumnsInv

IInv == CollectProofs!IInv /\ ProbeInv

-----------------------------------------------------------------------------
(* Stealing grains. *)

\* There are NumThreads workers.
LEMMA WorkersFinite == IsFiniteSet(Worker) /\ Cardinality(Worker) = NumThreads
<1> DEFINE m == NumThreads - 1
<1>1. 0 \in Int /\ m \in Int /\ ~(0 > m) /\ m - 0 + 1 = NumThreads
  BY JoinAssumption
<1>2. Worker = 0 .. m
  BY DEF Worker
<1> HIDE DEF m
<1> QED
  BY <1>1, <1>2, FS_Interval

\* The bound grows by a grain with every thread that stops.
LEMMA BoundGrows ==
    ASSUME NEW r \in Nat, NEW c \in Nat, NEW s \in Nat
    PROVE  /\ r + s <= r + (c + 1) * s
           /\ r + (c + 1 + 1) * s = r + (c + 1) * s + s
<1>1. (c + 1) * s = c * s + s /\ (c + 1 + 1) * s = c * s + s + s
  OBVIOUS
<1>2. c * s \in Nat
  OBVIOUS
<1> DEFINE x == c * s
<1> HIDE DEF x
<1> QED
  BY <1>1, <1>2 DEF x

\* The bound of the counter grows with the number of threads that have stopped.
LEMMA BoundMonotonic ==
    ASSUME NEW c \in Nat, NEW n \in Nat, NEW s \in Nat, c <= n
    PROVE  (c + 1) * s <= (n + 1) * s
<1>1. PICK d \in Nat : n = c + d
  <2>1. n - c \in Nat /\ n = c + (n - c)
    OBVIOUS
  <2> QED
    BY <2>1
<1>2. (n + 1) * s = (c + 1) * s + d * s /\ d * s \in Nat /\ (c + 1) * s \in Nat
  BY <1>1
<1> QED
  BY <1>2

\* No more workers have stopped than there are.
LEMMA StoppedFinite ==
    ASSUME NEW S \in SUBSET Worker
    PROVE  IsFiniteSet(S) /\ Cardinality(S) \in Nat /\ Cardinality(S) <= NumThreads
BY WorkersFinite, FS_Subset, FS_CardinalityType

\* A worker that steals a grain takes rows no other has, and the counter stays bounded.
LEMMA StealPreserves ==
    ASSUME CounterInv, NEW t \in Worker, Steal(t)
    PROVE  CounterInv'
<1>1. /\ ProbeRows \in Nat /\ GrainSize \in Nat /\ GrainSize > 0 /\ global_idx \in Nat
      /\ Cardinality(stopped) \in Nat
  BY JoinAssumption, StoppedFinite DEF CounterInv
<1> DEFINE c == Cardinality(stopped)
           bound == ProbeRows + (c + 1) * GrainSize
<1>2. c \in Nat /\ ProbeRows + GrainSize <= bound /\ bound \in Nat
  BY <1>1, BoundGrows
<1>3. global_idx' = global_idx + GrainSize /\ at[t] = end[t] /\ t \notin stopped
  BY DEF Steal
<1>4. CASE global_idx >= ProbeRows
  <2>1. stopped' = stopped \union {t} /\ UNCHANGED <<at, end>>
    BY <1>4 DEF Steal
  <2>2. Cardinality(stopped') = c + 1
    BY <1>3, <2>1, StoppedFinite, FS_AddElement DEF CounterInv
  <2>3. global_idx' <= ProbeRows + (Cardinality(stopped') + 1) * GrainSize
    <3>1. global_idx <= bound
      BY DEF CounterInv
    <3>2. ProbeRows + (c + 1 + 1) * GrainSize = bound + GrainSize
      BY <1>1, BoundGrows
    <3> HIDE DEF bound
    <3>3. global_idx' <= bound + GrainSize
      BY <1>1, <1>2, <1>3, <3>1
    <3> HIDE DEF c
    <3> QED
      BY <2>2, <3>2, <3>3
  <2>4. \A u \in Worker : end[u] <= global_idx' /\ end[u] \in Int /\ at[u] \in Int
    BY <1>1, <1>3 DEF CounterInv
  <2>5. stopped' \subseteq Worker /\ global_idx' \in Nat
    BY <1>1, <1>3, <2>1 DEF CounterInv
  <2> QED
    BY <2>1, <2>3, <2>4, <2>5 DEF CounterInv
<1>5. CASE ~(global_idx >= ProbeRows)
  <2> DEFINE e == Min({global_idx + GrainSize, ProbeRows})
  <2>1. /\ at' = [at EXCEPT ![t] = global_idx] /\ end' = [end EXCEPT ![t] = e]
        /\ UNCHANGED stopped
    BY <1>5 DEF Steal
  <2>2. e \in 0 .. ProbeRows /\ global_idx <= e /\ e <= global_idx'
    <3>1. global_idx + GrainSize \in Int /\ ProbeRows \in Int
      BY <1>1
    <3>2. e = IF global_idx + GrainSize <= ProbeRows THEN global_idx + GrainSize ELSE ProbeRows
      BY <3>1, MinOfTwo
    <3> HIDE DEF e
    <3> QED
      BY <1>1, <1>3, <1>5, <3>2
  <2> HIDE DEF e
  <2>3. global_idx' <= bound
    <3> HIDE DEF bound
    <3> QED
      BY <1>1, <1>2, <1>3, <1>5
  <2>4. /\ at'[t] = global_idx /\ end'[t] = e
        /\ \A u \in Worker : u # t => at'[u] = at[u] /\ end'[u] = end[u]
    BY <2>1 DEF CounterInv
  <2>5. at' \in [Worker -> 0 .. ProbeRows] /\ end' \in [Worker -> 0 .. ProbeRows]
    BY <1>1, <1>5, <2>1, <2>2 DEF CounterInv
  <2>6. \A u \in Worker : at'[u] <= end'[u] /\ end'[u] <= global_idx'
    BY <1>1, <1>3, <2>2, <2>4 DEF CounterInv
  <2>7. \A u, w \in Worker : u # w =>
           end'[u] <= at'[w] \/ end'[w] <= at'[u] \/ at'[u] = end'[u] \/ at'[w] = end'[w]
    <3> TAKE u, w \in Worker
    <3> HAVE u # w
    <3>1. CASE u = t
      BY <2>4, <3>1 DEF CounterInv
    <3>2. CASE w = t
      BY <2>4, <3>2 DEF CounterInv
    <3>3. CASE u # t /\ w # t
      BY <2>4, <3>3 DEF CounterInv
    <3> QED
      BY <3>1, <3>2, <3>3
  <2>8. stopped' \subseteq Worker /\ global_idx' \in Nat /\ Cardinality(stopped') = c
    BY <1>1, <1>3, <2>1 DEF CounterInv
  <2>9. global_idx' <= ProbeRows + (Cardinality(stopped') + 1) * GrainSize
    BY <2>3, <2>8
  <2> QED
    BY <2>5, <2>6, <2>7, <2>8, <2>9 DEF CounterInv
<1> QED
  BY <1>4, <1>5

-----------------------------------------------------------------------------
(* Probing a row. *)

\* The values that build rows b[1], ..., b[n] give column o for probe row i.
Matched(o, b, n, i) == [m \in 1 .. n |-> OutputValue(o, b[m], i)]
Appended(old, b, n, i) == [o \in Out |-> old[o] \o Matched(o, b, n, i)]

\* Appending to every column the values of a build row for each match keeps the
\* columns tied together by position.
LEMMA AppendMatches ==
    ASSUME NEW old \in [Out -> Seq(Value)], FromPairs(old),
           NEW n \in Nat, NEW i \in 0 .. (ProbeRows - 1),
           NEW b \in [1 .. n -> DOMAIN BuildKey],
           \A m \in 1 .. n : BuildKey[b[m]] = ProbeRel[ProbeCol][i + 1] /\ BuildKey[b[m]] # NullValue
    PROVE  /\ Appended(old, b, n, i) \in [Out -> Seq(Value)]
           /\ FromPairs(Appended(old, b, n, i))
<1> DEFINE new == Appended(old, b, n, i)
           app(o) == Matched(o, b, n, i)
<1>1. ASSUME NEW o \in Out
      PROVE  /\ app(o) \in Seq(Value) /\ Len(app(o)) = n
             /\ \A m \in 1 .. n : app(o)[m] = OutputValue(o, b[m], i)
  <2>1. \A m \in 1 .. n : OutputValue(o, b[m], i) \in Value
    BY DEF Value
  <2>2. app(o) \in [1 .. n -> Value]
    BY <2>1 DEF Matched
  <2> HIDE DEF app
  <2>3. app(o) \in Seq(Value)
    <3>1. app(o) \in UNION {[1 .. k -> Value] : k \in Nat}
      BY <2>2
    <3> QED
      BY <3>1, SeqDef
  <2>4. Len(app(o)) = n
    BY <2>2, <2>3, LenProperties
  <2> QED
    BY <2>3, <2>4 DEF app, Matched
<1>2. \A o \in Out : new[o] = old[o] \o app(o)
  BY DEF Appended
<1>0. new = [o \in Out |-> new[o]]
  BY DEF Appended
<1> HIDE DEF app, new
<1>3. ASSUME NEW o \in Out
      PROVE  /\ new[o] \in Seq(Value) /\ Len(new[o]) = Len(old[o]) + n
             /\ Len(old[o]) \in Nat /\ DOMAIN old[o] = 1 .. Len(old[o])
             /\ DOMAIN new[o] = 1 .. (Len(old[o]) + n)
             /\ \A j \in 1 .. Len(old[o]) : new[o][j] = old[o][j]
             /\ \A j \in (Len(old[o]) + 1) .. (Len(old[o]) + n) :
                   new[o][j] = OutputValue(o, b[j - Len(old[o])], i)
  <2>1. old[o] \in Seq(Value)
    OBVIOUS
  <2> DEFINE s == old[o]
             a == app(o)
             k == Len(s)
  <2>2. a \in Seq(Value) /\ Len(a) = n /\ \A m \in 1 .. n : a[m] = OutputValue(o, b[m], i)
    BY <1>1
  <2> HIDE DEF a
  <2>3. k \in Nat /\ DOMAIN s = 1 .. k
    BY <2>1, LenProperties
  <2>4. /\ s \o a \in Seq(Value) /\ Len(s \o a) = k + n
        /\ \A j \in 1 .. (k + n) : (s \o a)[j] = IF j <= k THEN s[j] ELSE a[j - k]
    BY <2>1, <2>2, ConcatProperties
  <2>5. new[o] = s \o a
    BY <1>2 DEF a
  <2>6. DOMAIN new[o] = 1 .. (k + n)
    BY <2>4, <2>5, LenProperties
  <2>7. \A j \in 1 .. k : new[o][j] = s[j]
    BY <2>3, <2>4, <2>5
  <2>8. ASSUME NEW j \in (k + 1) .. (k + n)
        PROVE  new[o][j] = OutputValue(o, b[j - k], i)
    <3>1. j \in 1 .. (k + n) /\ ~(j <= k) /\ j - k \in 1 .. n
      BY <2>3
    <3> QED
      BY <2>2, <2>4, <2>5, <3>1
  <2> QED
    BY <2>3, <2>4, <2>5, <2>6, <2>7, <2>8
<1>4. \A o, q \in Out : Len(old[o]) = Len(old[q])
  BY DEF FromPairs, Aligned
<1>5. Aligned(new)
  BY <1>3, <1>4 DEF Aligned
<1>6. ASSUME NEW q \in Out, NEW j \in DOMAIN new[q]
      PROVE  \E r \in DOMAIN BuildKey, p \in 1 .. ProbeRows :
                /\ BuildKey[r] = ProbeRel[ProbeCol][p]
                /\ BuildKey[r] # NullValue
                /\ RowOf(new, j) = [o \in Out |->
                      IF BuildLeft THEN Accessor(o, r, p - 1) ELSE Accessor(o, p - 1, r)]
  <2> DEFINE k == Len(old[q])
  <2>1. k \in Nat /\ j \in 1 .. (k + n) /\ \A o \in Out : Len(old[o]) = k
    BY <1>3, <1>4
  <2> HIDE DEF k
  <2>2. CASE j <= k
    <3>1. \A o \in Out : new[o][j] = old[o][j]
      BY <1>3, <2>1, <2>2
    <3>2. RowOf(new, j) = RowOf(old, j)
      BY <3>1 DEF RowOf
    <3>3. j \in DOMAIN old[q]
      BY <1>3, <2>1, <2>2
    <3>4. PICK r \in DOMAIN BuildKey, p \in 1 .. ProbeRows :
             /\ BuildKey[r] = ProbeRel[ProbeCol][p]
             /\ BuildKey[r] # NullValue
             /\ RowOf(old, j) = [o \in Out |->
                   IF BuildLeft THEN Accessor(o, r, p - 1) ELSE Accessor(o, p - 1, r)]
      BY <3>3, Zenon DEF FromPairs
    <3>5. RowOf(new, j) = [o \in Out |->
             IF BuildLeft THEN Accessor(o, r, p - 1) ELSE Accessor(o, p - 1, r)]
      BY <3>2, <3>4
    <3> QED
      BY <3>4, <3>5
  <2>3. CASE ~(j <= k)
    <3> DEFINE r == b[j - k]
               p == i + 1
    <3>1. j - k \in 1 .. n /\ j \in (k + 1) .. (k + n)
      BY <2>1, <2>3
    <3>2. r \in DOMAIN BuildKey /\ BuildKey[r] = ProbeRel[ProbeCol][p] /\ BuildKey[r] # NullValue
      BY <3>1
    <3>3. p \in 1 .. ProbeRows /\ p - 1 = i
      BY JoinAssumption
    <3>4. ASSUME NEW o \in Out
          PROVE  new[o][j] = OutputValue(o, r, i)
      <4>1. Len(old[o]) = k
        BY <2>1
      <4>2. \A l \in (k + 1) .. (k + n) : new[o][l] = OutputValue(o, b[l - k], i)
        BY <1>3, <4>1
      <4> QED
        BY <3>1, <4>2
    <3> HIDE DEF r, p
    <3>5. RowOf(new, j) = [o \in Out |->
             IF BuildLeft THEN Accessor(o, r, p - 1) ELSE Accessor(o, p - 1, r)]
      BY <3>3, <3>4 DEF RowOf, OutputValue
    <3> QED
      BY <3>2, <3>3, <3>5
  <2> QED
    BY <2>2, <2>3
<1>7. new \in [Out -> Seq(Value)]
  BY <1>0, <1>3
<1> QED
  BY <1>5, <1>6, <1>7 DEF FromPairs, new

\* find returns build rows that have the key.
LEMMA FindsMatches ==
    ASSUME TableInv, NEW key, key # NullValue, NEW matches \in Find(key)
    PROVE  \E n \in Nat :
              /\ DOMAIN matches = 1 .. n
              /\ \A m \in 1 .. n : /\ table[matches[m]].row \in DOMAIN BuildKey
                                   /\ BuildKey[table[matches[m]].row] = key
<1> DEFINE S == {p \in DOMAIN table : table[p].key = key}
           n == Cardinality(S)
<1>1. n \in Nat
  BY FS_Subset, FS_CardinalityType DEF TableInv
<1>2. matches \in [1 .. n -> S]
  BY DEF Find, SetToSeqs
<1>3. ASSUME NEW m \in 1 .. n
      PROVE  /\ table[matches[m]].row \in DOMAIN BuildKey
             /\ BuildKey[table[matches[m]].row] = key
  <2> HIDE DEF n
  <2>1. matches[m] \in DOMAIN table /\ table[matches[m]].key = key
    BY <1>2
  <2> QED
    BY <2>1 DEF TableInv
<1> HIDE DEF n, S
<1>4. DOMAIN matches = 1 .. n
  BY <1>2
<1> QED
  BY <1>1, <1>3, <1>4

\* A worker that probes a row adds pairs of matching rows to its columns.
LEMMA ProbeRowPreserves ==
    ASSUME TableInv, CounterInv, ColumnsInv, NEW t \in Worker, ProbeRow(t)
    PROVE  CounterInv' /\ ColumnsInv'
<1>1. /\ at[t] < end[t] /\ at' = [at EXCEPT ![t] = @ + 1]
      /\ UNCHANGED <<global_idx, end, stopped>>
  BY DEF ProbeRow
<1>2. /\ ProbeRows \in Nat /\ at[t] \in 0 .. ProbeRows /\ end[t] \in 0 .. ProbeRows
      /\ \A u \in Worker : at[u] \in Int /\ end[u] \in Int
  BY JoinAssumption DEF CounterInv
<1>3. CounterInv'
  <2>1. at'[t] = at[t] + 1 /\ \A u \in Worker : u # t => at'[u] = at[u]
    BY <1>1 DEF CounterInv
  <2>2. at' \in [Worker -> 0 .. ProbeRows]
    BY <1>1, <1>2 DEF CounterInv
  <2>3. \A u \in Worker : at'[u] <= end[u] /\ end[u] <= global_idx
    BY <1>1, <1>2, <2>1 DEF CounterInv
  <2>4. \A u, w \in Worker : u # w =>
           end[u] <= at'[w] \/ end[w] <= at'[u] \/ at'[u] = end[u] \/ at'[w] = end[w]
    <3> TAKE u, w \in Worker
    <3> HAVE u # w
    <3>1. end[u] <= at[w] \/ end[w] <= at[u] \/ at[u] = end[u] \/ at[w] = end[w]
      BY DEF CounterInv
    <3> QED
      BY <1>1, <1>2, <2>1, <3>1
  <2> QED
    BY <1>1, <2>2, <2>3, <2>4 DEF CounterInv
<1> DEFINE i == at[t]
           key == ProbeRel[ProbeCol][i + 1]
<1>4. i \in 0 .. (ProbeRows - 1)
  BY <1>1, <1>2
<1>5. ColumnsInv'
  <2>1. CASE key = NullValue
    <3>1. UNCHANGED local
      BY <2>1 DEF ProbeRow
    <3> QED
      BY <3>1 DEF ColumnsInv, FromPairs, Aligned, RowOf
  <2>2. CASE key # NullValue
    <3>1. PICK matches \in Find(key) :
             local' = [local EXCEPT ![t] = [o \in Out |->
                @[o] \o [m \in DOMAIN matches |-> OutputValue(o, table[matches[m]].row, i)]]]
      BY <2>2 DEF ProbeRow
    <3>2. PICK n \in Nat :
             /\ DOMAIN matches = 1 .. n
             /\ \A m \in 1 .. n : /\ table[matches[m]].row \in DOMAIN BuildKey
                                  /\ BuildKey[table[matches[m]].row] = key
      BY <2>2, FindsMatches
    <3> DEFINE b == [m \in 1 .. n |-> table[matches[m]].row]
               new == Appended(local[t], b, n, i)
    <3>3. /\ b \in [1 .. n -> DOMAIN BuildKey]
          /\ \A m \in 1 .. n : BuildKey[b[m]] = key /\ BuildKey[b[m]] # NullValue
      BY <2>2, <3>2
    <3>4. local[t] \in [Out -> Seq(Value)] /\ FromPairs(local[t])
      BY DEF ColumnsInv
    <3>5. new \in [Out -> Seq(Value)] /\ FromPairs(new)
      <4> HIDE DEF b, i
      <4>1. \A m \in 1 .. n : BuildKey[b[m]] = ProbeRel[ProbeCol][i + 1] /\ BuildKey[b[m]] # NullValue
        BY <3>3
      <4> HIDE DEF key
      <4> QED
        BY <1>4, <3>3, <3>4, <4>1, AppendMatches
    <3>6. local' = [local EXCEPT ![t] = new]
      <4>1. \A o \in Out : [m \in DOMAIN matches |-> OutputValue(o, table[matches[m]].row, i)]
                              = Matched(o, b, n, i)
        BY <3>2 DEF Matched
      <4> HIDE DEF b, i
      <4> QED
        BY <3>1, <4>1 DEF Appended
    <3> HIDE DEF new, b, key, i
    <3>7. local' \in [Worker -> [Out -> Seq(Value)]]
      BY <3>5, <3>6 DEF ColumnsInv
    <3>8. \A u \in Worker : FromPairs(local'[u])
      BY <3>5, <3>6 DEF ColumnsInv
    <3> QED
      BY <3>7, <3>8 DEF ColumnsInv, FromPairs, Aligned, RowOf
  <2> QED
    BY <2>1, <2>2
<1> QED
  BY <1>3, <1>5

-----------------------------------------------------------------------------
(* The other steps. *)

\* The state before the join satisfies the invariant.
LEMMA Initially == Init => IInv
<1> SUFFICES ASSUME Init
             PROVE  IInv
  OBVIOUS
<1>1. CollectProofs!IInv
  BY SameInit, Assumed, CollectProofs!Initially DEF Init
<1>2. TableInv
  BY FS_EmptySet DEF Init, TableInv
<1>3. CounterInv
  <2>1. ProbeRows \in Nat /\ GrainSize \in Nat
    BY JoinAssumption
  <2>2. Cardinality({}) = 0
    BY FS_EmptySet
  <2>3. stopped = {} /\ global_idx = 0 /\ 0 <= ProbeRows + (Cardinality(stopped) + 1) * GrainSize
    BY <2>1, <2>2 DEF Init, ProbeInit
  <2> QED
    BY <2>1, <2>3 DEF Init, ProbeInit, CounterInv
<1>4. MergeInv
  <2>1. Len(OutputAttrs) \in Nat
    BY JoinAssumption, LenProperties
  <2> QED
    BY <2>1 DEF Init, ProbeInit, MergeInv
<1>5. ColumnsInv
  <2>1. <<>> \in Seq(Value) /\ Len(<<>>) = 0 /\ DOMAIN <<>> = {}
    BY EmptySeq
  <2>2. local = [t \in Worker |-> [o \in Out |-> <<>>]]
    BY DEF Init, ProbeInit
  <2>3. local \in [Worker -> [Out -> Seq(Value)]]
    BY <2>1, <2>2
  <2>4. \A t \in Worker, o \in Out : local[t][o] = <<>>
    BY <2>2
  <2> QED
    BY <2>1, <2>3, <2>4 DEF ColumnsInv, FromPairs, Aligned
<1> QED
  BY <1>1, <1>2, <1>3, <1>4, <1>5 DEF IInv, ProbeInv

\* A step that changes neither side.
LEMMA CollectUnchanged ==
    ASSUME CollectProofs!IInv, UNCHANGED collectVars
    PROVE  CollectProofs!IInv'
<1>1. UNCHANGED CollectProofs!vars
  BY DEF collectVars, CollectProofs!vars, CollectProofs!loopVars, CollectProofs!storeVars,
         CollectProofs!slabVars
<1> QED
  BY <1>1, CollectInductive

\* The invariant of the probe is about the variables of the probe only.
LEMMA ProbeUnchanged ==
    ASSUME ProbeInv, UNCHANGED probeVars
    PROVE  ProbeInv'
BY DEF ProbeInv, probeVars, TableInv, CounterInv, MergeInv, ColumnsInv, FromPairs, Aligned, RowOf

\* The steps of the collection keep the invariant.
LEMMA CollectPreserves ==
    ASSUME IInv, CollectStep
    PROVE  IInv'
<1>1. PICK t \in Worker : Collect!ThreadStep(t)
  BY DEF CollectStep
<1>2. CollectProofs!Next
  BY <1>1, SameStep DEF CollectProofs!Next
<1>3. CollectProofs!IInv'
  BY <1>2, CollectInductive DEF IInv
<1>4. ProbeInv'
  BY ProbeUnchanged DEF IInv, CollectStep
<1> QED
  BY <1>3, <1>4 DEF IInv

\* The table is built from the visited cells, which hold build rows with keys.
LEMMA BuildPreserves ==
    ASSUME IInv, Build
    PROVE  IInv'
<1>1. /\ table' = [v \in Collect!Visited |->
                     [key |-> BuildKey[Collect!RowAt(v)], row |-> Collect!RowAt(v)]]
      /\ UNCHANGED <<collectVars, global_idx, at, end, stopped, local, out, results>>
  BY DEF Build
<1>2. CollectProofs!IInv'
  BY <1>1, CollectUnchanged DEF IInv
<1>3. IsFiniteSet(Collect!Visited)
  <2>1. CollectProofs!IsFiniteSet(CollectProofs!Visited)
    BY Assumed, CollectProofs!VisitedFinite DEF IInv
  <2> QED
    BY <2>1, SameVisited, Zenon DEF CollectProofs!IsFiniteSet, IsFiniteSet
<1>4. ASSUME NEW v \in Collect!Visited
      PROVE  Collect!RowAt(v) \in DOMAIN BuildKey /\ BuildKey[Collect!RowAt(v)] # NullValue
  <2>1. CollectProofs!RowAt(v) \in CollectProofs!Keyed
    BY Assumed, SameVisited, CollectProofs!OneCellPerRow DEF IInv
  <2>2. DOMAIN BuildKey = CollectProofs!BuildRow
    BY DEF BuildKey, CollectProofs!BuildRow
  <2> QED
    BY <2>1, <2>2, SameVisited DEF CollectProofs!Keyed
<1>5. TableInv'
  BY <1>1, <1>3, <1>4 DEF TableInv
<1>6. CounterInv' /\ MergeInv' /\ ColumnsInv'
  BY <1>1 DEF IInv, ProbeInv, CounterInv, MergeInv, ColumnsInv, FromPairs, Aligned, RowOf
<1> QED
  BY <1>2, <1>5, <1>6 DEF IInv, ProbeInv

\* The steps of the probe and of the merge keep the invariant.
LEMMA ProbePreserves ==
    ASSUME IInv, Probe
    PROVE  IInv'
<1>1. CollectProofs!IInv'
  BY CollectUnchanged DEF IInv, Probe
<1>2. TableInv /\ CounterInv /\ MergeInv /\ ColumnsInv
  BY DEF IInv, ProbeInv
<1>3. ASSUME NEW t \in Worker, Steal(t)
      PROVE  ProbeInv'
  <2>1. UNCHANGED <<table, local, out, results>>
    BY <1>3 DEF Steal
  <2>2. TableInv' /\ MergeInv'
    BY <1>2, <2>1 DEF TableInv, MergeInv
  <2>3. ColumnsInv'
    BY <1>2, <2>1 DEF ColumnsInv, FromPairs, Aligned, RowOf
  <2> QED
    BY <1>2, <1>3, <2>2, <2>3, StealPreserves DEF ProbeInv
<1>4. ASSUME NEW t \in Worker, ProbeRow(t)
      PROVE  ProbeInv'
  <2>1. UNCHANGED <<table, out, results>>
    BY <1>4 DEF ProbeRow
  <2>2. TableInv' /\ MergeInv'
    BY <1>2, <2>1 DEF TableInv, MergeInv
  <2> QED
    BY <1>2, <1>4, <2>2, ProbeRowPreserves DEF ProbeInv
<1>5. ASSUME MergeColumn
      PROVE  ProbeInv'
  <2>1. /\ out <= Len(OutputAttrs) /\ out' = out + 1 /\ DOMAIN results' = DOMAIN results
        /\ UNCHANGED <<table, global_idx, at, end, stopped, local>>
    BY <1>5 DEF MergeColumn
  <2>2. Len(OutputAttrs) \in Nat
    BY JoinAssumption, LenProperties
  <2>3. MergeInv'
    BY <1>2, <2>1, <2>2 DEF MergeInv
  <2>4. TableInv' /\ CounterInv' /\ ColumnsInv'
    BY <1>2, <2>1 DEF TableInv, CounterInv, ColumnsInv, FromPairs, Aligned, RowOf
  <2> QED
    BY <2>3, <2>4 DEF ProbeInv
<1> QED
  BY <1>1, <1>3, <1>4, <1>5 DEF Probe, ProbeStep, IInv

\* The inductive invariant of the join node.
THEOREM Invariant == Spec => []IInv
<1>1. ASSUME IInv, [Next]_vars
      PROVE  IInv'
  <2>1. CASE Return
    BY <1>1, <2>1, CollectUnchanged, ProbeUnchanged DEF Return, IInv
  <2>2. CASE UNCHANGED vars
    BY <1>1, <2>2, CollectUnchanged, ProbeUnchanged DEF vars, IInv
  <2> QED
    BY <1>1, <2>1, <2>2, CollectPreserves, BuildPreserves, ProbePreserves DEF Next, Done
<1> QED
  BY <1>1, Initially, PTL DEF Spec

\* The probe counter stays within one grain per thread of the last row, and the
\* grains within the probe side.
THEOREM TypeCorrect == Spec => []ProbeTypeOK
<1>1. ASSUME IInv
      PROVE  ProbeTypeOK
  <2>1. CounterInv /\ MergeInv /\ ColumnsInv
    BY <1>1 DEF IInv, ProbeInv
  <2>2. /\ ProbeRows \in Nat /\ GrainSize \in Nat /\ NumThreads \in Nat
        /\ Cardinality(stopped) \in Nat /\ Cardinality(stopped) <= NumThreads
    BY <2>1, JoinAssumption, StoppedFinite DEF CounterInv
  <2>3. (Cardinality(stopped) + 1) * GrainSize <= (NumThreads + 1) * GrainSize
    BY <2>2, BoundMonotonic
  <2>4. global_idx \in 0 .. (ProbeRows + (NumThreads + 1) * GrainSize)
    <3> DEFINE x == (Cardinality(stopped) + 1) * GrainSize
               y == (NumThreads + 1) * GrainSize
    <3>1. x \in Nat /\ y \in Nat /\ x <= y /\ global_idx <= ProbeRows + x /\ global_idx \in Nat
      BY <2>1, <2>2, <2>3 DEF CounterInv
    <3> HIDE DEF x, y
    <3>2. global_idx \in 0 .. (ProbeRows + y)
      BY <2>2, <3>1
    <3> QED
      BY <3>2 DEF y
  <2>5. \A t \in Worker : at[t] <= end[t] /\ DOMAIN local[t] = Out
    BY <2>1 DEF CounterInv, ColumnsInv
  <2> QED
    BY <2>1, <2>4, <2>5 DEF ProbeTypeOK, CounterInv, MergeInv
<1> QED
  BY <1>1, Invariant, PTL

\* No two threads probe the same row: global_idx.fetch_add gives each grain once.
THEOREM GrainsAreDisjoint == Spec => []GrainsDisjoint
<1>1. ASSUME IInv
      PROVE  GrainsDisjoint
  <2>1. CounterInv
    BY <1>1 DEF IInv, ProbeInv
  <2>2. ASSUME NEW t \in Worker, NEW u \in Worker \ {t}
        PROVE  (at[t] .. (end[t] - 1)) \intersect (at[u] .. (end[u] - 1)) = {}
    <3>1. /\ at[t] \in Int /\ end[t] \in Int /\ at[u] \in Int /\ end[u] \in Int
          /\ end[t] <= at[u] \/ end[u] <= at[t] \/ at[t] = end[t] \/ at[u] = end[u]
      BY <2>1 DEF CounterInv
    <3> QED
      BY <3>1
  <2> QED
    BY <2>1, <2>2 DEF GrainsDisjoint, CounterInv
<1> QED
  BY <1>1, Invariant, PTL

\* However the threads interleave, the output columns of each stay aligned and
\* every position of them comes from one matching pair of a build and a probe row.
THEOREM RowsComeFromPairs == Spec => []RowsFromPairs
<1>1. ASSUME IInv
      PROVE  RowsFromPairs
  BY <1>1 DEF IInv, ProbeInv, ColumnsInv, FromPairs, RowsFromPairs
<1> QED
  BY <1>1, Invariant, PTL

\* The join's first stage is the collection: what SlabCollectProofs shows of it
\* holds in the join.
THEOREM CollectsAsSpecified == Spec => Collect!Spec
<1>1. Init => Collect!Init
  BY DEF Init
<1>2. [Next]_vars => [Collect!Next]_(Collect!vars)
  <2> SUFFICES ASSUME [Next]_vars
               PROVE  Collect!Next \/ UNCHANGED Collect!vars
    OBVIOUS
  <2>1. CASE CollectStep
    BY <2>1 DEF CollectStep, Collect!Next
  <2>2. CASE UNCHANGED collectVars
    BY <2>2 DEF collectVars, Collect!vars, Collect!loopVars, Collect!storeVars, Collect!slabVars
  <2> QED
    BY <2>1, <2>2 DEF Next, Build, Probe, Return, Done, vars
<1> QED
  BY <1>1, <1>2, PTL DEF Spec, Collect!Spec

-----------------------------------------------------------------------------
(* The pairs of the relational join. *)

\* Cardinality is the same operator in both modules.
LEMMA RelationalCounts == \A S : Relational!Cardinality(S) = Cardinality(S)
BY DEF Relational!Cardinality, Cardinality

\* The pair of rows, counted from 1, of a build row and a probe row.
PairOf(b, i) == IF BuildLeft THEN <<b + 1, i + 1>> ELSE <<i + 1, b + 1>>
BuildOf(pair) == (IF BuildLeft THEN pair[1] ELSE pair[2]) - 1
ProbeOf(pair) == (IF BuildLeft THEN pair[2] ELSE pair[1]) - 1

\* A build row and a probe row with the same key that is not NULL.
Match(b, i) ==
    /\ BuildKey[b] = ProbeRel[ProbeCol][i + 1]
    /\ BuildKey[b] # NullValue

\* A build row and a probe row with the same key are a pair of the relational join,
\* which projects them to the values the probe appends.
LEMMA PairsMatch ==
    ASSUME NEW b \in DOMAIN BuildKey, NEW i \in 0 .. (ProbeRows - 1)
    PROVE  /\ PairOf(b, i) \in Relational!Pairs <=> Match(b, i)
           /\ BuildOf(PairOf(b, i)) = b /\ ProbeOf(PairOf(b, i)) = i
           /\ \A o \in Out : Relational!Attribute(PairOf(b, i), OutputAttrs[o]) = OutputValue(o, b, i)
<1> DEFINE x == b + 1
           y == i + 1
<1>1. /\ BuildRows \in Nat /\ ProbeRows \in Nat /\ DOMAIN BuildKey = 0 .. (BuildRows - 1)
  BY JoinAssumption DEF BuildKey
<1>2. x \in 1 .. BuildRows /\ y \in 1 .. ProbeRows /\ x - 1 = b /\ y - 1 = i
  BY <1>1
<1>3. BuildKey[b] = BuildRel[BuildCol][x]
  BY <1>1 DEF BuildKey
<1>4. 1 .. BuildRows = Relational!RowsOf(BuildRel) /\ 1 .. ProbeRows = Relational!RowsOf(ProbeRel)
  <2>1. 1 .. 0 = {}
    OBVIOUS
  <2> QED
    BY <2>1 DEF BuildRows, ProbeRows, Relational!RowsOf
<1>5. CASE BuildLeft
  <2>1. /\ BuildRel = Left /\ ProbeRel = Right /\ BuildCol = LeftCol + 1 /\ ProbeCol = RightCol + 1
        /\ PairOf(b, i) = <<x, y>>
    BY <1>5 DEF BuildRel, ProbeRel, BuildCol, ProbeCol, PairOf
  <2> HIDE DEF x, y
  <2>2. <<x, y>> \in Relational!Pairs <=> Match(b, i)
    BY <1>2, <1>3, <1>4, <2>1 DEF Relational!Pairs, Match, y
  <2>3. BuildOf(<<x, y>>) = b /\ ProbeOf(<<x, y>>) = i
    BY <1>2, <1>5 DEF BuildOf, ProbeOf
  <2>4. ASSUME NEW o \in Out
        PROVE  Relational!Attribute(<<x, y>>, OutputAttrs[o]) = OutputValue(o, b, i)
    BY <1>5 DEF Relational!Attribute, OutputValue, Accessor, x, y
  <2> QED
    BY <2>1, <2>2, <2>3, <2>4
<1>6. CASE ~BuildLeft
  <2>1. /\ BuildRel = Right /\ ProbeRel = Left /\ BuildCol = RightCol + 1 /\ ProbeCol = LeftCol + 1
        /\ PairOf(b, i) = <<y, x>>
    BY <1>6 DEF BuildRel, ProbeRel, BuildCol, ProbeCol, PairOf
  <2> HIDE DEF x, y
  <2>2. <<y, x>> \in Relational!Pairs <=> Match(b, i)
    BY <1>2, <1>3, <1>4, <2>1 DEF Relational!Pairs, Match, y
  <2>3. BuildOf(<<y, x>>) = b /\ ProbeOf(<<y, x>>) = i
    BY <1>2, <1>6 DEF BuildOf, ProbeOf
  <2>4. ASSUME NEW o \in Out
        PROVE  Relational!Attribute(<<y, x>>, OutputAttrs[o]) = OutputValue(o, b, i)
    BY <1>6 DEF Relational!Attribute, OutputValue, Accessor, x, y
  <2> QED
    BY <2>1, <2>2, <2>3, <2>4
<1> QED
  BY <1>5, <1>6

\* Every pair of the relational join comes from a build row and a probe row.
LEMMA PairsFromRows ==
    ASSUME NEW pair \in Relational!Pairs
    PROVE  /\ BuildOf(pair) \in DOMAIN BuildKey /\ ProbeOf(pair) \in 0 .. (ProbeRows - 1)
           /\ pair = PairOf(BuildOf(pair), ProbeOf(pair))
<1> DEFINE l == pair[1]
           r == pair[2]
<1>1. /\ BuildRows \in Nat /\ ProbeRows \in Nat /\ DOMAIN BuildKey = 0 .. (BuildRows - 1)
  BY JoinAssumption DEF BuildKey
<1>2. pair = <<l, r>> /\ l \in Relational!RowsOf(Left) /\ r \in Relational!RowsOf(Right)
  BY DEF Relational!Pairs
<1>3. 1 .. BuildRows = Relational!RowsOf(BuildRel) /\ 1 .. ProbeRows = Relational!RowsOf(ProbeRel)
  <2>1. 1 .. 0 = {}
    OBVIOUS
  <2> QED
    BY <2>1 DEF BuildRows, ProbeRows, Relational!RowsOf
<1> HIDE DEF l, r
<1>4. CASE BuildLeft
  <2>1. l \in 1 .. BuildRows /\ r \in 1 .. ProbeRows
    BY <1>2, <1>3, <1>4 DEF BuildRel, ProbeRel
  <2>2. BuildOf(pair) = l - 1 /\ ProbeOf(pair) = r - 1
    BY <1>2, <1>4 DEF BuildOf, ProbeOf
  <2>3. PairOf(l - 1, r - 1) = pair
    BY <1>1, <1>2, <1>4, <2>1 DEF PairOf
  <2> QED
    BY <1>1, <2>1, <2>2, <2>3
<1>5. CASE ~BuildLeft
  <2>1. r \in 1 .. BuildRows /\ l \in 1 .. ProbeRows
    BY <1>2, <1>3, <1>5 DEF BuildRel, ProbeRel
  <2>2. BuildOf(pair) = r - 1 /\ ProbeOf(pair) = l - 1
    BY <1>2, <1>5 DEF BuildOf, ProbeOf
  <2>3. PairOf(r - 1, l - 1) = pair
    BY <1>1, <1>2, <1>5, <2>1 DEF PairOf
  <2> QED
    BY <1>1, <2>1, <2>2, <2>3
<1> QED
  BY <1>4, <1>5

-----------------------------------------------------------------------------
(* The invariant of delivery. *)

\* Row i of the probe side is below the counter and in nobody's grain any more.
Probed(i) == i < global_idx /\ \A t \in Worker : ~ (at[t] <= i /\ i < end[t])

\* The columns hold, position by position, what the pairs s are projected to.
Projections(o, s) == [k \in 1 .. Len(s) |-> Relational!Attribute(s[k], OutputAttrs[o])]
HoldsPairs(columns, s) == columns = [o \in Out |-> Projections(o, s)]

\* No pair stands at two positions of one thread or of two.
Distinct(from) ==
    \A t, u \in Worker : \A j \in 1 .. Len(from[t]) : \A k \in 1 .. Len(from[u]) :
        from[t][j] = from[u][k] => t = u /\ j = k

Found(from, pair) == \E t \in Worker : \E k \in 1 .. Len(from[t]) : from[t][k] = pair

\* The threads' columns come from the pairs of from, which are all pairs probed.
Gathered(from) ==
    /\ from \in [Worker -> Seq(Relational!Pairs)]
    /\ \A t \in Worker : HoldsPairs(local[t], from[t])
    /\ Distinct(from)
    /\ \A pair \in Relational!Pairs : Probed(ProbeOf(pair)) <=> Found(from, pair)

PairsInv == \E from : Gathered(from)

\* The table holds each build row with a key, and once.
FullInv ==
    stage # "collect" =>
        /\ \A p, q \in DOMAIN table : table[p].row = table[q].row => p = q
        /\ \A b \in DOMAIN BuildKey : BuildKey[b] # NullValue => \E p \in DOMAIN table : table[p].row = b

\* A thread stops when it has probed its grains and the counter has passed the rows.
StopInv ==
    /\ stopped # {} => global_idx >= ProbeRows
    /\ \A t \in stopped : at[t] = end[t]

\* The threads' columns number o, in the order of the threads.
Columns(o) == [n \in 1 .. NumThreads |-> local[n - 1][o]]

\* When the first column has been appended all threads have stopped.
MergedInv ==
    /\ out > 1 => stopped = Worker
    /\ \A o \in Out : results[o] = IF o < out THEN FlattenSeq(Columns(o)) ELSE <<>>

DeliverInv == FullInv /\ StopInv /\ MergedInv /\ PairsInv

-----------------------------------------------------------------------------
(* The matches of a row. *)

\* The matches stand for the build rows b[1], ..., b[n]: those with the key, each once.
FindsRows(matches, key, n, b) ==
    /\ n \in Nat /\ DOMAIN matches = 1 .. n
    /\ b = [m \in 1 .. n |-> table[matches[m]].row]
    /\ \A m \in 1 .. n : b[m] \in DOMAIN BuildKey /\ BuildKey[b[m]] = key
    /\ \A l, m \in 1 .. n : b[l] = b[m] => l = m
    /\ \A r \in DOMAIN BuildKey : BuildKey[r] = key => \E m \in 1 .. n : b[m] = r

\* What find gives for a key stands for such rows.
LEMMA FindsAll ==
    ASSUME TableInv, FullInv, stage = "probe", NEW key, key # NullValue, NEW matches \in Find(key)
    PROVE  \E n, b : FindsRows(matches, key, n, b)
<1> DEFINE S == {p \in DOMAIN table : table[p].key = key}
           n == Cardinality(S)
           b == [m \in 1 .. n |-> table[matches[m]].row]
<1>1. IsFiniteSet(S) /\ n \in Nat
  BY FS_Subset, FS_CardinalityType DEF TableInv
<1>2. matches \in [1 .. n -> S] /\ \A l, m \in 1 .. n : l # m => matches[l] # matches[m]
  BY DEF Find, SetToSeqs
<1>3. n = Cardinality(S)
  OBVIOUS
<1>4. \A p \in S : /\ table[p].row \in DOMAIN BuildKey /\ BuildKey[table[p].row] = key
                   /\ p \in DOMAIN table
  BY DEF TableInv
<1>5. \A r \in DOMAIN BuildKey : BuildKey[r] = key => \E p \in S : table[p].row = r
  BY DEF FullInv, TableInv
<1>6. \A p, q \in DOMAIN table : table[p].row = table[q].row => p = q
  BY DEF FullInv
<1> HIDE DEF n, S
<1>7. matches \in Injection(1 .. n, S)
  BY <1>2 DEF Injection, IsInjective
<1>8. Cardinality(1 .. n) = n
  BY <1>1, FS_Interval
<1>9. matches \in Surjection(1 .. n, S)
  BY <1>1, <1>3, <1>7, <1>8, FS_Injection
<1>10. \A p \in S : \E m \in 1 .. n : matches[m] = p
  BY <1>9 DEF Surjection
<1>11. DOMAIN matches = 1 .. n
  BY <1>2
<1>12. \A m \in 1 .. n : b[m] = table[matches[m]].row /\ matches[m] \in S
  BY <1>2
<1>13. b = [m \in 1 .. n |-> table[matches[m]].row]
  OBVIOUS
<1> HIDE DEF b
<1>14. \A l, m \in 1 .. n : b[l] = b[m] => l = m
  BY <1>2, <1>4, <1>6, <1>12
<1>15. \A r \in DOMAIN BuildKey : BuildKey[r] = key => \E m \in 1 .. n : b[m] = r
  BY <1>5, <1>10, <1>12
<1>16. \A m \in 1 .. n : b[m] \in DOMAIN BuildKey /\ BuildKey[b[m]] = key
  BY <1>4, <1>12
<1>17. FindsRows(matches, key, n, b)
  BY <1>1, <1>11, <1>13, <1>14, <1>15, <1>16 DEF FindsRows
<1> QED
  BY <1>17

\* The pairs of probe row i and the build rows b[1], ..., b[n].
NewPairs(b, n, i) == [m \in 1 .. n |-> PairOf(b[m], i)]

\* They are pairs of the relational join, and b and i can be read from them.
LEMMA NewPairsAre ==
    ASSUME NEW n \in Nat, NEW i \in 0 .. (ProbeRows - 1), NEW b \in [1 .. n -> DOMAIN BuildKey],
           \A m \in 1 .. n : Match(b[m], i)
    PROVE  /\ NewPairs(b, n, i) \in Seq(Relational!Pairs) /\ Len(NewPairs(b, n, i)) = n
           /\ \A m \in 1 .. n : /\ NewPairs(b, n, i)[m] = PairOf(b[m], i)
                                /\ BuildOf(NewPairs(b, n, i)[m]) = b[m]
                                /\ ProbeOf(NewPairs(b, n, i)[m]) = i
<1> DEFINE new == NewPairs(b, n, i)
<1>1. \A m \in 1 .. n : /\ PairOf(b[m], i) \in Relational!Pairs
                        /\ BuildOf(PairOf(b[m], i)) = b[m] /\ ProbeOf(PairOf(b[m], i)) = i
  BY PairsMatch
<1>2. \A m \in 1 .. n : new[m] = PairOf(b[m], i)
  BY DEF NewPairs
<1>3. new \in [1 .. n -> Relational!Pairs]
  BY <1>1 DEF NewPairs
<1> HIDE DEF new
<1>4. new \in Seq(Relational!Pairs) /\ Len(new) = n
  BY <1>3, SeqDef
<1> QED
  BY <1>1, <1>2, <1>4 DEF new

\* Values that are appended for these pairs are what they are projected to.
LEMMA AppendPairs ==
    ASSUME NEW old \in [Out -> Seq(Value)], NEW s \in Seq(Relational!Pairs), HoldsPairs(old, s),
           NEW n \in Nat, NEW i \in 0 .. (ProbeRows - 1), NEW b \in [1 .. n -> DOMAIN BuildKey],
           \A m \in 1 .. n : Match(b[m], i), Appended(old, b, n, i) \in [Out -> Seq(Value)]
    PROVE  HoldsPairs(Appended(old, b, n, i), s \o NewPairs(b, n, i))
<1> DEFINE new == NewPairs(b, n, i)
           both == s \o new
           l == Len(s)
<1>1. new \in Seq(Relational!Pairs) /\ Len(new) = n /\ \A m \in 1 .. n : new[m] = PairOf(b[m], i)
  BY NewPairsAre
<1> HIDE DEF new
<1>2. /\ both \in Seq(Relational!Pairs) /\ Len(both) = l + n /\ l \in Nat
      /\ \A k \in 1 .. (l + n) : both[k] = IF k <= l THEN s[k] ELSE new[k - l]
  <2>1. s \o new \in Seq(Relational!Pairs) /\ Len(s \o new) = Len(s) + Len(new)
        /\ \A k \in 1 .. Len(s) + Len(new) : (s \o new)[k] = IF k <= Len(s) THEN s[k] ELSE new[k - Len(s)]
    BY ONLY <1>1, s \in Seq(Relational!Pairs), ConcatProperties, Zenon
  <2> QED
    BY <1>1, <2>1, LenProperties
<1> HIDE DEF both
<1>3. ASSUME NEW o \in Out
      PROVE  Appended(old, b, n, i)[o] = Projections(o, both)
  <2> DEFINE a == Matched(o, b, n, i)
             c == old[o]
             d == Appended(old, b, n, i)[o]
             e == Projections(o, both)
             A == {Relational!Attribute(pair, OutputAttrs[o]) : pair \in Relational!Pairs}
  <2>1. c = [k \in 1 .. l |-> Relational!Attribute(s[k], OutputAttrs[o])]
    BY DEF HoldsPairs, Projections
  <2>2. c \in Seq(Value)
    OBVIOUS
  <2>3. Len(c) = l /\ \A k \in 1 .. l : c[k] = Relational!Attribute(s[k], OutputAttrs[o])
    <3> HIDE DEF c
    <3>1. DOMAIN c = 1 .. l /\ Len(c) \in Nat /\ DOMAIN c = 1 .. Len(c)
      BY <2>1, <2>2, LenProperties
    <3> QED
      BY <1>2, <2>1, <3>1
  <2>4. a \in [1 .. n -> Value] /\ \A m \in 1 .. n : a[m] = OutputValue(o, b[m], i)
    BY DEF Matched, Value
  <2>5. d = c \o a
    BY DEF Appended
  <2>6. \A m \in 1 .. n : a[m] = Relational!Attribute(PairOf(b[m], i), OutputAttrs[o])
    BY <2>4, PairsMatch
  <2>10. e = [k \in 1 .. (l + n) |-> Relational!Attribute(both[k], OutputAttrs[o])]
    BY <1>2 DEF Projections
  <2> HIDE DEF a, c, d, e
  <2>7. a \in Seq(Value) /\ Len(a) = n
    BY <2>4, SeqDef
  <2>8. c \o a \in Seq(Value) /\ Len(c \o a) = Len(c) + Len(a)
        /\ \A k \in 1 .. Len(c) + Len(a) : (c \o a)[k] = IF k <= Len(c) THEN c[k] ELSE a[k - Len(c)]
    BY ONLY <2>2, <2>7, ConcatProperties, Zenon
  <2>9. DOMAIN d = 1 .. (l + n) /\ d = [k \in 1 .. (l + n) |-> d[k]]
    <3>1. d \in Seq(Value) /\ Len(d) = l + n
      BY <2>3, <2>5, <2>7, <2>8
    <3> QED
      BY <3>1, LenProperties
  <2>11. ASSUME NEW k \in 1 .. (l + n)
         PROVE  d[k] = Relational!Attribute(both[k], OutputAttrs[o])
    <3>1. CASE k <= l
      <4>1. k \in 1 .. l
        BY <1>2, <3>1
      <4> QED
        BY <3>1, <4>1, <1>2, <2>3, <2>5, <2>7, <2>8
    <3>2. CASE ~(k <= l)
      <4>1. k - l \in 1 .. n
        BY <1>2, <3>2
      <4>2. d[k] = a[k - l]
        BY <3>2, <2>3, <2>5, <2>7, <2>8
      <4>3. both[k] = PairOf(b[k - l], i)
        BY <3>2, <4>1, <1>1, <1>2
      <4> QED
        BY <4>1, <4>2, <4>3, <2>6
    <3> QED
      BY <3>1, <3>2
  <2>12. d = e
    BY <2>9, <2>10, <2>11
  <2> QED
    BY <2>12 DEF d, e
<1>4. Appended(old, b, n, i) = [o \in Out |-> Projections(o, both)]
  BY <1>3
<1> QED
  BY <1>4 DEF HoldsPairs, both, new

-----------------------------------------------------------------------------
(* Steps that add no pairs, and sequences that grow. *)

\* Pairs are found in the columns after a step if the step probes no row,
LEMMA PairsKept ==
    ASSUME PairsInv, UNCHANGED local, \A i \in 0 .. (ProbeRows - 1) : Probed(i)' <=> Probed(i)
    PROVE  PairsInv'
<1>1. PICK from : Gathered(from)
  BY DEF PairsInv
<1>2. \A pair \in Relational!Pairs : Probed(ProbeOf(pair))' <=> Found(from, pair)
  BY <1>1, PairsFromRows DEF Gathered
<1>3. Gathered(from)'
  BY <1>1, <1>2 DEF Gathered, HoldsPairs
<1> QED
  BY <1>3 DEF PairsInv

\* as when a thread takes a grain
LEMMA StealPairs ==
    ASSUME CounterInv, PairsInv, NEW t \in Worker, Steal(t)
    PROVE  PairsInv'
<1>1. /\ ProbeRows \in Nat /\ GrainSize \in Nat /\ GrainSize > 0 /\ global_idx \in Nat
      /\ \A u \in Worker : at[u] \in Int /\ end[u] \in Int /\ end[u] <= global_idx
  BY JoinAssumption DEF CounterInv
<1>2. global_idx' = global_idx + GrainSize /\ at[t] = end[t] /\ UNCHANGED local
  BY DEF Steal
<1>3. ASSUME NEW i \in 0 .. (ProbeRows - 1)
      PROVE  Probed(i)' <=> Probed(i)
  <2>1. CASE global_idx >= ProbeRows
    <3>1. UNCHANGED <<at, end>> /\ i < global_idx /\ i < global_idx'
      BY <1>1, <1>2, <2>1 DEF Steal
    <3> QED
      BY <3>1 DEF Probed
  <2>2. CASE ~(global_idx >= ProbeRows)
    <3> DEFINE e == Min({global_idx + GrainSize, ProbeRows})
    <3>1. at' = [at EXCEPT ![t] = global_idx] /\ end' = [end EXCEPT ![t] = e]
      BY <2>2 DEF Steal
    <3>2. e = IF global_idx + GrainSize <= ProbeRows THEN global_idx + GrainSize ELSE ProbeRows
      <4>1. global_idx + GrainSize \in Int /\ ProbeRows \in Int
        BY <1>1
      <4> QED
        BY <4>1, MinOfTwo
    <3> HIDE DEF e
    <3>3. /\ at'[t] = global_idx /\ end'[t] = e
          /\ \A u \in Worker : u # t => at'[u] = at[u] /\ end'[u] = end[u]
      BY <3>1 DEF CounterInv
    <3>4. CASE i < global_idx
      <4>1. \A u \in Worker : (at'[u] <= i /\ i < end'[u]) <=> (at[u] <= i /\ i < end[u])
        <5> TAKE u \in Worker
        <5>1. CASE u = t
          BY <1>1, <1>2, <3>3, <3>4, <5>1
        <5>2. CASE u # t
          BY <3>3, <5>2
        <5> QED
          BY <5>1, <5>2
      <4>2. i < global_idx'
        BY <1>1, <1>2, <3>4
      <4> QED
        BY <3>4, <4>1, <4>2 DEF Probed
    <3>5. CASE ~(i < global_idx)
      <4>1. i < global_idx' => at'[t] <= i /\ i < end'[t]
        BY <1>1, <1>2, <3>2, <3>3, <3>5
      <4> QED
        BY <3>5, <4>1 DEF Probed
    <3> QED
      BY <3>4, <3>5
  <2> QED
    BY <2>1, <2>2
<1> QED
  BY <1>2, <1>3, PairsKept

Extended(from, t, s) == [from EXCEPT ![t] = @ \o s]

\* What has been found stays where it is when s is appended to from[t].
LEMMA FoundAfterAppend ==
    ASSUME NEW from \in [Worker -> Seq(Relational!Pairs)], NEW t \in Worker,
           NEW s \in Seq(Relational!Pairs), NEW pair
    PROVE  Found(Extended(from, t, s), pair) <=> Found(from, pair) \/ \E m \in 1 .. Len(s) : s[m] = pair
<1> DEFINE old == from[t]
           new == old \o s
           l == Len(old)
           n == Len(s)
           f == Extended(from, t, s)
<1>1. old \in Seq(Relational!Pairs) /\ l \in Nat /\ n \in Nat
  BY LenProperties
<1>2. Len(new) = l + n /\ \A k \in 1 .. l + n : new[k] = IF k <= l THEN old[k] ELSE s[k - l]
  BY ONLY <1>1, s \in Seq(Relational!Pairs), ConcatProperties, Zenon
<1>3. f[t] = new /\ \A u \in Worker : u # t => f[u] = from[u]
  BY DEF Extended
<1> HIDE DEF new, f
<1>4. ASSUME Found(f, pair)
      PROVE  Found(from, pair) \/ \E m \in 1 .. n : s[m] = pair
  <2>1. PICK u \in Worker : \E k \in 1 .. Len(f[u]) : f[u][k] = pair
    BY <1>4 DEF Found
  <2>2. PICK k \in 1 .. Len(f[u]) : f[u][k] = pair
    BY <2>1
  <2>3. CASE u # t
    BY <1>3, <2>2, <2>3 DEF Found
  <2>4. CASE u = t
    <3>1. k \in 1 .. l + n /\ new[k] = pair
      BY <1>2, <1>3, <2>2, <2>4
    <3>2. CASE k <= l
      <4>1. k \in 1 .. Len(from[t]) /\ from[t][k] = pair
        BY <1>1, <1>2, <3>1, <3>2
      <4> QED
        BY <4>1 DEF Found
    <3>3. CASE ~(k <= l)
      <4>1. k - l \in 1 .. n /\ s[k - l] = pair
        BY <1>1, <1>2, <3>1, <3>3
      <4> QED
        BY <4>1
    <3> QED
      BY <3>2, <3>3
  <2> QED
    BY <2>3, <2>4
<1>5. ASSUME Found(from, pair)
      PROVE  Found(f, pair)
  <2>1. PICK u \in Worker : \E k \in 1 .. Len(from[u]) : from[u][k] = pair
    BY <1>5 DEF Found
  <2>2. PICK k \in 1 .. Len(from[u]) : from[u][k] = pair
    BY <2>1
  <2>3. CASE u # t
    BY <1>3, <2>2, <2>3 DEF Found
  <2>4. CASE u = t
    <3>1. k \in 1 .. l + n /\ k <= l /\ old[k] = pair
      BY <1>1, <2>2, <2>4
    <3>2. k \in 1 .. Len(f[t]) /\ f[t][k] = pair
      BY <1>2, <1>3, <3>1
    <3> QED
      BY <3>2 DEF Found
  <2> QED
    BY <2>3, <2>4
<1>6. ASSUME NEW m \in 1 .. n, s[m] = pair
      PROVE  Found(f, pair)
  <2>1. l + m \in 1 .. l + n /\ ~(l + m <= l) /\ (l + m) - l = m
    BY <1>1
  <2>2. l + m \in 1 .. Len(f[t]) /\ f[t][l + m] = pair
    BY <1>2, <1>3, <1>6, <2>1
  <2> QED
    BY <2>2 DEF Found
<1> QED
  BY <1>4, <1>5, <1>6 DEF f

\* New pairs that are not in from and differ leave the pairs distinct.
LEMMA DistinctAfterAppend ==
    ASSUME NEW from \in [Worker -> Seq(Relational!Pairs)], NEW t \in Worker,
           NEW s \in Seq(Relational!Pairs), Distinct(from),
           \A l, m \in 1 .. Len(s) : s[l] = s[m] => l = m,
           \A m \in 1 .. Len(s) : ~ Found(from, s[m])
    PROVE  Distinct(Extended(from, t, s))
<1> DEFINE old == from[t]
           new == old \o s
           l == Len(old)
           n == Len(s)
           f == Extended(from, t, s)
<1>1. old \in Seq(Relational!Pairs) /\ l \in Nat /\ n \in Nat
  BY LenProperties
<1>2. Len(new) = l + n /\ \A k \in 1 .. l + n : new[k] = IF k <= l THEN old[k] ELSE s[k - l]
  BY ONLY <1>1, s \in Seq(Relational!Pairs), ConcatProperties, Zenon
<1>3. f[t] = new /\ \A u \in Worker : u # t => f[u] = from[u]
  BY DEF Extended
<1> HIDE DEF new, f
\* A position of f is one of from, or one of s.
<1>4. ASSUME NEW u \in Worker, NEW k \in 1 .. Len(f[u])
      PROVE  \/ k \in 1 .. Len(from[u]) /\ f[u][k] = from[u][k]
             \/ u = t /\ k - l \in 1 .. n /\ f[u][k] = s[k - l]
  <2>1. CASE u # t
    BY <1>3, <2>1
  <2>2. CASE u = t /\ k <= l
    BY <1>1, <1>2, <1>3, <2>2
  <2>3. CASE u = t /\ ~(k <= l)
    BY <1>1, <1>2, <1>3, <2>3
  <2> QED
    BY <2>1, <2>2, <2>3
<1>5. ASSUME NEW u \in Worker, NEW w \in Worker, NEW j \in 1 .. Len(f[u]), NEW k \in 1 .. Len(f[w]),
             f[u][j] = f[w][k]
      PROVE  u = w /\ j = k
  <2>1. CASE j \in 1 .. Len(from[u]) /\ f[u][j] = from[u][j] /\ k \in 1 .. Len(from[w]) /\ f[w][k] = from[w][k]
    <3>1. from[u][j] = from[w][k] /\ j \in 1 .. Len(from[u]) /\ k \in 1 .. Len(from[w])
      BY <1>5, <2>1
    <3> QED
      BY ONLY <3>1, u \in Worker, w \in Worker, Distinct(from) DEF Distinct
  <2>2. CASE j \in 1 .. Len(from[u]) /\ f[u][j] = from[u][j] /\ k - l \in 1 .. n /\ f[w][k] = s[k - l]
    <3>1. Found(from, s[k - l])
      BY <1>5, <2>2 DEF Found
    <3> QED
      BY <2>2, <3>1
  <2>3. CASE k \in 1 .. Len(from[w]) /\ f[w][k] = from[w][k] /\ j - l \in 1 .. n /\ f[u][j] = s[j - l]
    <3>1. Found(from, s[j - l])
      BY <1>5, <2>3 DEF Found
    <3> QED
      BY <2>3, <3>1
  <2>4. CASE u = t /\ w = t /\ j - l \in 1 .. n /\ f[u][j] = s[j - l] /\ k - l \in 1 .. n /\ f[w][k] = s[k - l]
    <3>1. j - l = k - l
      BY <1>5, <2>4
    <3>2. j \in Int /\ k \in Int
      OBVIOUS
    <3> QED
      BY <1>1, <2>4, <3>1, <3>2
  <2> QED
    BY <1>4, <2>1, <2>2, <2>3, <2>4
<1> QED
  BY <1>5 DEF Distinct, f

-----------------------------------------------------------------------------
(* Probing a row adds its pairs. *)

\* A row that is probed has not been, and nobody else has it.
LEMMA RowProbed ==
    ASSUME CounterInv, NEW t \in Worker, ProbeRow(t)
    PROVE  /\ at[t] \in 0 .. (ProbeRows - 1) /\ ~ Probed(at[t])
           /\ \A i \in 0 .. (ProbeRows - 1) : Probed(i)' <=> Probed(i) \/ i = at[t]
<1>1. /\ at[t] < end[t] /\ at' = [at EXCEPT ![t] = @ + 1]
      /\ UNCHANGED <<global_idx, end, stopped>>
  BY DEF ProbeRow
<1>2. /\ ProbeRows \in Nat /\ at[t] \in 0 .. ProbeRows /\ end[t] \in 0 .. ProbeRows
      /\ global_idx \in Nat
      /\ \A u \in Worker : at[u] \in Int /\ end[u] \in Int /\ end[u] <= global_idx
  BY JoinAssumption DEF CounterInv
<1>3. at'[t] = at[t] + 1 /\ \A u \in Worker : u # t => at'[u] = at[u]
  BY <1>1 DEF CounterInv
<1>4. at[t] \in 0 .. (ProbeRows - 1) /\ ~ Probed(at[t])
  BY <1>1, <1>2 DEF Probed
<1>5. ASSUME NEW i \in 0 .. (ProbeRows - 1)
      PROVE  Probed(i)' <=> Probed(i) \/ i = at[t]
  <2>1. CASE i = at[t]
    <3>1. i < global_idx'
      BY <1>1, <1>2, <2>1
    <3>2. ASSUME NEW u \in Worker
          PROVE  ~ (at'[u] <= i /\ i < end'[u])
      <4>1. CASE u = t
        BY <1>2, <1>3, <2>1, <4>1
      <4>2. CASE u # t
        <5>1. end[t] <= at[u] \/ end[u] <= at[t] \/ at[t] = end[t] \/ at[u] = end[u]
          BY <4>2 DEF CounterInv
        <5> QED
          BY <1>1, <1>2, <1>3, <2>1, <4>2, <5>1
      <4> QED
        BY <4>1, <4>2
    <3> QED
      BY <2>1, <3>1, <3>2 DEF Probed
  <2>2. CASE i # at[t]
    <3>1. ASSUME NEW u \in Worker
          PROVE  (at'[u] <= i /\ i < end'[u]) <=> (at[u] <= i /\ i < end[u])
      <4>1. CASE u = t
        BY <1>1, <1>2, <1>3, <2>2, <4>1
      <4>2. CASE u # t
        BY <1>1, <1>3, <4>2
      <4> QED
        BY <4>1, <4>2
    <3> QED
      BY <1>1, <2>2, <3>1 DEF Probed
  <2> QED
    BY <2>1, <2>2
<1> QED
  BY <1>4, <1>5

\* Probing a row adds its pairs, each once, to those of the thread.
LEMMA ProbeRowPairs ==
    ASSUME TableInv, FullInv, CounterInv, ColumnsInv, PairsInv, stage = "probe",
           NEW t \in Worker, ProbeRow(t)
    PROVE  PairsInv'
<1> DEFINE i == at[t]
           key == ProbeRel[ProbeCol][i + 1]
<1>1. /\ i \in 0 .. (ProbeRows - 1) /\ ~ Probed(i)
      /\ \A r \in 0 .. (ProbeRows - 1) : Probed(r)' <=> Probed(r) \/ r = i
  BY RowProbed
<1>2. PICK from : Gathered(from)
  BY DEF PairsInv
<1>3. /\ from \in [Worker -> Seq(Relational!Pairs)] /\ Distinct(from)
      /\ \A u \in Worker : HoldsPairs(local[u], from[u])
      /\ \A pair \in Relational!Pairs : Probed(ProbeOf(pair)) <=> Found(from, pair)
  BY <1>2 DEF Gathered
<1>4. ASSUME NEW pair \in Relational!Pairs
      PROVE  /\ Probed(ProbeOf(pair))' <=> Found(from, pair) \/ ProbeOf(pair) = i
             /\ ProbeOf(pair) = i => ~ Found(from, pair)
  BY <1>1, <1>3, PairsFromRows
<1>5. CASE key = NullValue
  <2>1. UNCHANGED local
    BY <1>5 DEF ProbeRow
  <2>2. ASSUME NEW pair \in Relational!Pairs
        PROVE  ProbeOf(pair) # i
    <3>1. Match(BuildOf(pair), ProbeOf(pair))
      <4> DEFINE b == BuildOf(pair)
                 r == ProbeOf(pair)
      <4>1. b \in DOMAIN BuildKey /\ r \in 0 .. (ProbeRows - 1) /\ pair = PairOf(b, r)
        BY PairsFromRows
      <4> HIDE DEF b, r
      <4>2. PairOf(b, r) \in Relational!Pairs
        BY <4>1
      <4>3. Match(b, r)
        BY <4>1, <4>2, PairsMatch
      <4> QED
        BY <4>3 DEF b, r
    <3> QED
      BY <3>1, <1>5 DEF Match
  <2>3. Gathered(from)'
    BY <1>3, <1>4, <2>1, <2>2 DEF Gathered, HoldsPairs
  <2> QED
    BY <2>3 DEF PairsInv
<1>6. CASE key # NullValue
  <2>1. PICK matches \in Find(key) :
           local' = [local EXCEPT ![t] = [o \in Out |->
              @[o] \o [m \in DOMAIN matches |-> OutputValue(o, table[matches[m]].row, i)]]]
    BY <1>6 DEF ProbeRow
  <2>2. PICK n, b : FindsRows(matches, key, n, b)
    BY <1>6, FindsAll
  <2>3. /\ n \in Nat /\ DOMAIN matches = 1 .. n
        /\ b = [m \in 1 .. n |-> table[matches[m]].row]
        /\ \A m \in 1 .. n : b[m] \in DOMAIN BuildKey /\ BuildKey[b[m]] = key
        /\ \A l, m \in 1 .. n : b[l] = b[m] => l = m
        /\ \A r \in DOMAIN BuildKey : BuildKey[r] = key => \E m \in 1 .. n : b[m] = r
    BY <2>2 DEF FindsRows
  <2>4. b \in [1 .. n -> DOMAIN BuildKey]
    BY <2>3
  <2>5. \A m \in 1 .. n : Match(b[m], i)
    BY <1>6, <2>3 DEF Match
  <2> DEFINE new == Appended(local[t], b, n, i)
             s == NewPairs(b, n, i)
             f == Extended(from, t, s)
  <2>6. local' = [local EXCEPT ![t] = new]
    <3>1. \A o \in Out : [m \in DOMAIN matches |-> OutputValue(o, table[matches[m]].row, i)]
                            = Matched(o, b, n, i)
      BY <2>3 DEF Matched
    <3> HIDE DEF i
    <3> QED
      BY <2>1, <3>1 DEF Appended
  <2> HIDE DEF i
  <2>7. local[t] \in [Out -> Seq(Value)] /\ FromPairs(local[t])
    BY DEF ColumnsInv
  <2>8. new \in [Out -> Seq(Value)]
    <3>1. \A m \in 1 .. n : BuildKey[b[m]] = ProbeRel[ProbeCol][i + 1] /\ BuildKey[b[m]] # NullValue
      BY <1>6, <2>3
    <3> QED
      BY <1>1, <2>3, <2>4, <2>7, <3>1, AppendMatches
  <2>9. /\ s \in Seq(Relational!Pairs) /\ Len(s) = n
        /\ \A m \in 1 .. n : /\ s[m] = PairOf(b[m], i) /\ BuildOf(s[m]) = b[m] /\ ProbeOf(s[m]) = i
    <3>1. n \in Nat /\ i \in 0 .. (ProbeRows - 1)
      BY <1>1, <2>3
    <3> QED
      BY <2>4, <2>5, <3>1, NewPairsAre
  <2>10. HoldsPairs(new, from[t] \o s)
    <3>1. HoldsPairs(local[t], from[t]) /\ from[t] \in Seq(Relational!Pairs)
      BY <1>3
    <3> QED
      BY <1>1, <2>3, <2>4, <2>5, <2>7, <2>8, <3>1, AppendPairs
  <2> HIDE DEF new, s
  <2>11. f \in [Worker -> Seq(Relational!Pairs)]
    <3>1. from[t] \o s \in Seq(Relational!Pairs)
      <4>1. from[t] \in Seq(Relational!Pairs) /\ s \in Seq(Relational!Pairs)
        BY <1>3, <2>9
      <4> QED
        BY ONLY <4>1, ConcatProperties, Zenon
    <3> QED
      BY <1>3, <3>1 DEF Extended
  <2>12. \A u \in Worker : HoldsPairs(local'[u], f[u])
    <3> TAKE u \in Worker
    <3>1. CASE u = t
      <4>1. local'[u] = new /\ f[u] = from[t] \o s
        BY <1>3, <2>6, <3>1 DEF ColumnsInv, Extended
      <4> QED
        BY <2>10, <4>1
    <3>2. CASE u # t
      <4>1. local'[u] = local[u] /\ f[u] = from[u]
        BY <1>3, <2>6, <3>2 DEF ColumnsInv, Extended
      <4> QED
        BY <1>3, <4>1
    <3> QED
      BY <3>1, <3>2
  <2>13. Distinct(f)
    <3>1. \A l, m \in 1 .. Len(s) : s[l] = s[m] => l = m
      BY <2>3, <2>9
    <3>2. \A m \in 1 .. Len(s) : ~ Found(from, s[m])
      <4> TAKE m \in 1 .. Len(s)
      <4>1. s[m] \in Relational!Pairs /\ ProbeOf(s[m]) = i
        BY <2>9, ElementOfSeq
      <4> QED
        BY <1>4, <4>1
    <3> QED
      BY <1>3, <2>9, <3>1, <3>2, DistinctAfterAppend
  <2>14. ASSUME NEW pair \in Relational!Pairs
         PROVE  Probed(ProbeOf(pair))' <=> Found(f, pair)
    <3>1. Found(f, pair) <=> Found(from, pair) \/ \E m \in 1 .. Len(s) : s[m] = pair
      <4>1. from \in [Worker -> Seq(Relational!Pairs)] /\ s \in Seq(Relational!Pairs)
        BY <1>3, <2>9
      <4> DEFINE Claim(y) == Found(Extended(from, t, y), pair)
                               <=> Found(from, pair) \/ \E m \in 1 .. Len(y) : y[m] = pair
      <4>2. \A y \in Seq(Relational!Pairs) : Claim(y)
        BY ONLY <4>1, t \in Worker, FoundAfterAppend
      <4> HIDE DEF Claim
      <4>3. Claim(s)
        BY <4>1, <4>2
      <4> QED
        BY <4>3 DEF Claim
    <3> DEFINE r == ProbeOf(pair)
               c == BuildOf(pair)
    <3>2. c \in DOMAIN BuildKey /\ r \in 0 .. (ProbeRows - 1) /\ pair = PairOf(c, r)
      BY PairsFromRows
    <3> HIDE DEF f, r, c
    <3>3. Match(c, r)
      <4>1. PairOf(c, r) \in Relational!Pairs
        BY <3>2
      <4> QED
        BY <3>2, <4>1, PairsMatch
    <3>4. r = i <=> \E m \in 1 .. Len(s) : s[m] = pair
      <4>1. ASSUME r = i
            PROVE  \E m \in 1 .. Len(s) : s[m] = pair
        <5>1. BuildKey[c] = key
          BY <3>3, <4>1 DEF Match
        <5>2. PICK m \in 1 .. n : b[m] = c
          BY <2>3, <3>2, <5>1
        <5>3. s[m] = pair
          BY <2>9, <3>2, <4>1, <5>2
        <5> QED
          BY <2>9, <5>3
      <4>2. ASSUME NEW m \in 1 .. Len(s), s[m] = pair
            PROVE  r = i
        BY <2>9, <4>2 DEF r
      <4> QED
        BY <4>1, <4>2
    <3> QED
      BY <1>4, <3>1, <3>4 DEF r
  <2>15. \E g : /\ g \in [Worker -> Seq(Relational!Pairs)] /\ Distinct(g)
                /\ \A u \in Worker : HoldsPairs(local'[u], g[u])
                /\ \A pair \in Relational!Pairs : Probed(ProbeOf(pair))' <=> Found(g, pair)
    <3> HIDE DEF f
    <3> QED
      BY <2>11, <2>12, <2>13, <2>14
  <2>16. PICK g : /\ g \in [Worker -> Seq(Relational!Pairs)] /\ Distinct(g)
                  /\ \A u \in Worker : HoldsPairs(local'[u], g[u])
                  /\ \A pair \in Relational!Pairs : Probed(ProbeOf(pair))' <=> Found(g, pair)
    BY <2>15
  <2>17. Gathered(g)'
    BY <2>16 DEF Gathered, HoldsPairs
  <2> QED
    BY <2>17 DEF PairsInv
<1> QED
  BY <1>5, <1>6

-----------------------------------------------------------------------------
(* The table and the merge. *)

\* The table is filled from all cells of the collection, which CollectProofs shows to
\* hold each row with a key in one place.
LEMMA FullPreserved ==
    ASSUME IInv, IInv', FullInv, Next
    PROVE  FullInv'
<1>1. CASE Build
  <2>1. table' = [v \in Collect!Visited |->
                    [key |-> BuildKey[Collect!RowAt(v)], row |-> Collect!RowAt(v)]]
        /\ Collect!AllDone
    BY <1>1 DEF Build
  <2>2. CollectProofs!RowsInOnePlace
    BY Assumed, CollectProofs!OneCellPerRow DEF IInv
  <2>3. CollectProofs!AllDone
    BY <2>1 DEF Collect!AllDone, CollectProofs!AllDone
  <2>4. /\ \A v, w \in Collect!Visited : Collect!RowAt(v) = Collect!RowAt(w) => v = w
        /\ {Collect!RowAt(v) : v \in Collect!Visited} = CollectProofs!Keyed
    BY <2>2, <2>3, SameVisited DEF CollectProofs!RowsInOnePlace
  <2>5. \A b \in DOMAIN BuildKey : BuildKey[b] # NullValue => b \in CollectProofs!Keyed
    BY DEF BuildKey, CollectProofs!Keyed, CollectProofs!BuildRow
  <2>6. \A p \in DOMAIN table' : p \in Collect!Visited /\ table'[p].row = Collect!RowAt(p)
    BY <2>1
  <2>7. DOMAIN table' = Collect!Visited
    BY <2>1
  <2> QED
    BY <2>4, <2>5, <2>6, <2>7 DEF FullInv
<1>2. CASE CollectStep
  BY <1>2 DEF CollectStep, FullInv
<1>3. CASE Probe
  <2>1. UNCHANGED table
    BY <1>3 DEF Probe, ProbeStep, Steal, ProbeRow, MergeColumn
  <2> QED
    BY <1>3, <2>1 DEF Probe, FullInv
<1>4. CASE Return
  BY <1>4 DEF Return, probeVars, FullInv
<1>5. CASE Done
  BY <1>5 DEF Done, vars, probeVars, FullInv
<1> QED
  BY <1>1, <1>2, <1>3, <1>4, <1>5 DEF Next

\* The columns number o of the threads, appended to each other, are a sequence.
LEMMA ColumnsJoin ==
    ASSUME ColumnsInv, NEW o \in Out
    PROVE  FlattenSeq(Columns(o)) \in Seq(Value)
<1>1. NumThreads \in Nat \ {0}
  BY JoinAssumption
<1>2. \A n \in 1 .. NumThreads : Columns(o)[n] \in Seq(Value)
  <2>1. \A n \in 1 .. NumThreads : n - 1 \in Worker
    BY <1>1 DEF Worker
  <2> QED
    BY <2>1 DEF ColumnsInv, Columns
<1>3. Len(Columns(o)) = NumThreads
  BY <1>1 DEF Columns
<1> DEFINE c == Columns(o)
<1> HIDE DEF c
<1>4. \A n \in 1 .. NumThreads : c[n] \in Seq(Value)
  BY <1>2 DEF c
<1>5. PICK first, all : all \in Seq(Value) /\ Follow(Value, c, NumThreads, first, all)
  BY <1>1, <1>4, FollowExists
<1>6. FlattenSeq(c) = all
  BY <1>3, <1>5, FlattenedIsAll DEF c
<1> QED
  BY <1>5, <1>6 DEF c

\* While a thread takes grains nothing is merged;
LEMMA StealMerged ==
    ASSUME CounterInv, MergedInv, StopInv, NEW t \in Worker, Steal(t)
    PROVE  MergedInv' /\ StopInv'
<1>1. /\ global_idx \in Nat /\ ProbeRows \in Nat /\ GrainSize \in Nat
      /\ t \notin stopped /\ at[t] = end[t] /\ global_idx' = global_idx + GrainSize
      /\ UNCHANGED <<local, out, results>>
  BY JoinAssumption DEF Steal, CounterInv
<1>2. ~(out > 1)
  BY <1>1 DEF MergedInv
<1>3. MergedInv'
  BY <1>1, <1>2 DEF MergedInv, Columns
<1>4. CASE global_idx >= ProbeRows
  <2>1. stopped' = stopped \union {t} /\ UNCHANGED <<at, end>>
    BY <1>4 DEF Steal
  <2>2. global_idx' >= ProbeRows
    BY <1>1, <1>4
  <2> QED
    BY <1>1, <1>3, <2>1, <2>2 DEF StopInv
<1>5. CASE ~(global_idx >= ProbeRows)
  <2>1. /\ UNCHANGED stopped
        /\ at' = [at EXCEPT ![t] = global_idx]
        /\ end' = [end EXCEPT ![t] = Min({global_idx + GrainSize, ProbeRows})]
    BY <1>5 DEF Steal
  <2>2. stopped = {}
    BY <1>5 DEF StopInv
  <2> QED
    BY <1>3, <2>1, <2>2 DEF StopInv
<1> QED
  BY <1>4, <1>5

\* nor while it probes a row;
LEMMA ProbeRowMerged ==
    ASSUME CounterInv, MergeInv, MergedInv, StopInv, NEW t \in Worker, ProbeRow(t)
    PROVE  MergedInv' /\ StopInv'
<1>1. /\ at[t] < end[t] /\ at' = [at EXCEPT ![t] = @ + 1]
      /\ UNCHANGED <<global_idx, end, stopped, out, results>>
      /\ at[t] \in Int /\ end[t] \in Int
  BY DEF ProbeRow, CounterInv
<1>2. t \notin stopped
  BY <1>1 DEF StopInv
<1>3. StopInv'
  <2>1. \A u \in stopped : at'[u] = at[u]
    BY <1>1, <1>2 DEF CounterInv
  <2> QED
    BY <1>1, <2>1 DEF StopInv
<1>4. out = 1
  <2>1. ~(out > 1)
    BY <1>2 DEF MergedInv
  <2>2. Len(OutputAttrs) \in Nat
    BY JoinAssumption, LenProperties
  <2> QED
    BY <2>1, <2>2 DEF MergeInv
<1>5. \A o \in Out : ~(o < 1)
  <2>1. Out = 1 .. Len(OutputAttrs)
    BY JoinAssumption, LenProperties DEF Out
  <2> QED
    BY <2>1
<1>6. \A o \in Out : results[o] = <<>>
  BY <1>4, <1>5 DEF MergedInv
<1>7. MergedInv'
  BY <1>1, <1>4, <1>5, <1>6 DEF MergedInv
<1> QED
  BY <1>3, <1>7

\* and merging a column appends those of all threads, which have stopped.
LEMMA MergeMerged ==
    ASSUME ColumnsInv, MergeInv, MergedInv, StopInv, MergeColumn
    PROVE  MergedInv' /\ StopInv'
<1>1. /\ stopped = Worker /\ out' = out + 1 /\ out <= Len(OutputAttrs)
      /\ results' = [results EXCEPT ![out] = @ \o FlattenSeq(Columns(out))]
      /\ UNCHANGED <<global_idx, at, end, stopped, local>>
  BY DEF MergeColumn, Columns
<1>2. StopInv'
  BY <1>1 DEF StopInv
<1>3. out \in Out /\ \A o \in Out : o \in Nat
  <2>1. Out = 1 .. Len(OutputAttrs) /\ Len(OutputAttrs) \in Nat
    BY JoinAssumption, LenProperties DEF Out
  <2> QED
    BY <1>1, <2>1 DEF MergeInv
<1>4. results[out] = <<>>
  BY <1>3 DEF MergedInv
<1>5. <<>> \o FlattenSeq(Columns(out)) = FlattenSeq(Columns(out))
  <2>1. FlattenSeq(Columns(out)) \in Seq(Value)
    BY <1>3, ColumnsJoin
  <2> QED
    BY ONLY <2>1, ConcatEmptySeq
<1>6. \A o \in Out : results'[o] = IF o = out THEN FlattenSeq(Columns(out)) ELSE results[o]
  BY <1>1, <1>4, <1>5 DEF MergeInv
<1>7. ASSUME NEW o \in Out
      PROVE  results'[o] = IF o < out' THEN FlattenSeq(Columns(o)) ELSE <<>>
  <2>1. o \in Nat /\ out \in Nat
    BY <1>3
  <2>2. CASE o = out
    BY <1>1, <1>6, <2>1, <2>2
  <2>3. CASE o # out
    <3>1. o < out' <=> o < out
      BY <1>1, <2>1, <2>3
    <3>2. results'[o] = results[o]
      BY <1>6, <2>3
    <3>3. results[o] = IF o < out THEN FlattenSeq(Columns(o)) ELSE <<>>
      BY DEF MergedInv
    <3> QED
      BY <3>1, <3>2, <3>3
  <2> QED
    BY <2>2, <2>3
<1>8. \A o \in Out : Columns(o)' = Columns(o)
  BY <1>1 DEF Columns
<1>9. MergedInv'
  BY <1>1, <1>7, <1>8 DEF MergedInv
<1> QED
  BY <1>2, <1>9

-----------------------------------------------------------------------------
(* Every step delivers. *)

\* Nothing has been collected, probed or merged.
LEMMA DeliverInitially == Init => DeliverInv
<1> SUFFICES ASSUME Init
             PROVE  DeliverInv
  OBVIOUS
<1>1. FullInv /\ StopInv
  BY DEF Init, ProbeInit, FullInv, StopInv
<1>2. MergedInv
  <2>1. Out = 1 .. Len(OutputAttrs)
    BY JoinAssumption, LenProperties DEF Out
  <2>2. \A o \in Out : ~(o < 1) /\ results[o] = <<>>
    BY <2>1 DEF Init, ProbeInit
  <2> QED
    BY <2>2 DEF Init, ProbeInit, MergedInv
<1>3. PairsInv
  <2> DEFINE from == [t \in Worker |-> <<>>]
  <2>1. <<>> \in Seq(Relational!Pairs) /\ Len(<<>>) = 0
    BY EmptySeq
  <2>2. from \in [Worker -> Seq(Relational!Pairs)] /\ \A t \in Worker : from[t] = <<>>
    BY <2>1
  <2> HIDE DEF from
  <2>3. ASSUME NEW o \in Out
        PROVE  Projections(o, <<>>) = <<>>
    BY DEF Projections
  <2>4. \A t \in Worker : HoldsPairs(local[t], from[t])
    <3> TAKE t \in Worker
    <3>1. local[t] = [o \in Out |-> <<>>]
      BY DEF Init, ProbeInit
    <3> QED
      BY <2>2, <2>3, <3>1 DEF HoldsPairs
  <2>5. Distinct(from) /\ \A pair : ~ Found(from, pair)
    BY <2>1, <2>2 DEF Distinct, Found
  <2>6. \A pair \in Relational!Pairs : ~ Probed(ProbeOf(pair))
    <3> TAKE pair \in Relational!Pairs
    <3>1. ProbeOf(pair) \in 0 .. (ProbeRows - 1) /\ ProbeRows \in Nat
      BY PairsFromRows, JoinAssumption
    <3>2. global_idx = 0
      BY DEF Init, ProbeInit
    <3> QED
      BY <3>1, <3>2 DEF Probed
  <2>7. Gathered(from)
    BY <2>2, <2>4, <2>5, <2>6 DEF Gathered
  <2> QED
    BY <2>7 DEF PairsInv
<1> QED
  BY <1>1, <1>2, <1>3 DEF DeliverInv

\* Collecting, building and returning leave what has been probed.
LEMMA DeliverUnchanged ==
    ASSUME DeliverInv, UNCHANGED <<global_idx, at, end, stopped, local, out, results>>, FullInv'
    PROVE  DeliverInv'
<1>1. StopInv' /\ MergedInv'
  BY DEF DeliverInv, StopInv, MergedInv, Columns
<1>2. \A i \in 0 .. (ProbeRows - 1) : Probed(i)' <=> Probed(i)
  BY DEF Probed
<1>3. PairsInv'
  BY <1>2, PairsKept DEF DeliverInv
<1> QED
  BY <1>1, <1>3 DEF DeliverInv

\* Every step of the join preserves the invariant.
LEMMA DeliverPreserved ==
    ASSUME IInv, IInv', DeliverInv, Next
    PROVE  DeliverInv'
<1>1. FullInv'
  BY FullPreserved DEF DeliverInv
<1>2. TableInv /\ CounterInv /\ MergeInv /\ ColumnsInv /\ FullInv /\ StopInv /\ MergedInv /\ PairsInv
  BY DEF IInv, ProbeInv, DeliverInv
<1>3. CASE CollectStep \/ Build \/ Return \/ Done
  <2>1. UNCHANGED <<global_idx, at, end, stopped, local, out, results>>
    BY <1>3 DEF CollectStep, Build, Return, Done, vars, probeVars
  <2> QED
    BY <1>1, <2>1, DeliverUnchanged
<1>4. ASSUME NEW t \in Worker, Steal(t)
      PROVE  DeliverInv'
  BY <1>1, <1>2, <1>4, StealMerged, StealPairs DEF DeliverInv
<1>5. ASSUME NEW t \in Worker, ProbeRow(t), stage = "probe"
      PROVE  DeliverInv'
  BY <1>1, <1>2, <1>5, ProbeRowMerged, ProbeRowPairs DEF DeliverInv
<1>6. ASSUME MergeColumn
      PROVE  DeliverInv'
  <2>1. UNCHANGED <<global_idx, at, end, local>>
    BY <1>6 DEF MergeColumn
  <2>2. \A i \in 0 .. (ProbeRows - 1) : Probed(i)' <=> Probed(i)
    BY <2>1 DEF Probed
  <2>3. PairsInv'
    BY <1>2, <2>1, <2>2, PairsKept
  <2> QED
    BY <1>1, <1>2, <1>6, <2>3, MergeMerged DEF DeliverInv
<1> QED
  BY <1>3, <1>4, <1>5, <1>6 DEF Next, Probe, ProbeStep

\* It is an invariant of the join: what is in the threads' columns or merged is, at any
\* time, the pairs of the rows that have been probed.
LEMMA Delivers == Spec => []DeliverInv
<1>1. ASSUME IInv, IInv', DeliverInv, [Next]_vars
      PROVE  DeliverInv'
  <2>1. CASE Next
    BY <1>1, <2>1, DeliverPreserved
  <2>2. CASE UNCHANGED vars
    <3>1. FullInv'
      BY <1>1, <2>2 DEF DeliverInv, FullInv, vars, probeVars
    <3>2. UNCHANGED <<global_idx, at, end, stopped, local, out, results>>
      BY <2>2 DEF vars, probeVars
    <3> QED
      BY <1>1, <3>1, <3>2, DeliverUnchanged
  <2> QED
    BY <1>1, <2>1, <2>2
<1> QED
  BY <1>1, DeliverInitially, Invariant, PTL DEF Spec

-----------------------------------------------------------------------------
(* The result. *)

\* When all columns have been merged the positions of the result are the pairs.
ResultIs(all) ==
    /\ all \in Seq(Relational!Pairs)
    /\ \A o \in Out : results[o] = Projections(o, all)
    /\ \A j, k \in 1 .. Len(all) : all[j] = all[k] => j = k
    /\ \A pair \in Relational!Pairs : \E k \in 1 .. Len(all) : all[k] = pair

\* After the merge every row with a pair has been probed, and every column merged.
LEMMA AllProbed ==
    ASSUME IInv, DeliverInv, Merged, OutputAttrs # <<>>
    PROVE  /\ \A pair \in Relational!Pairs : Probed(ProbeOf(pair))
           /\ \A o \in Out : results[o] = FlattenSeq(Columns(o))
<1>1. Len(OutputAttrs) \in Nat \ {0} /\ Out = 1 .. Len(OutputAttrs) /\ out \in Nat
  <2>1. Len(OutputAttrs) \in Nat /\ Len(OutputAttrs) # 0 /\ Out = 1 .. Len(OutputAttrs)
    BY JoinAssumption, LenProperties, EmptySeq DEF Out
  <2> QED
    BY <2>1 DEF IInv, ProbeInv, MergeInv
<1>2. out > 1 /\ \A o \in Out : o < out
  BY <1>1 DEF Merged
<1>3. stopped = Worker
  BY <1>2 DEF DeliverInv, MergedInv
<1>4. 0 \in Worker
  BY JoinAssumption DEF Worker
<1>5. global_idx >= ProbeRows /\ \A t \in Worker : at[t] = end[t]
  BY <1>3, <1>4 DEF DeliverInv, StopInv
<1>6. ASSUME NEW pair \in Relational!Pairs
      PROVE  Probed(ProbeOf(pair))
  <2> DEFINE i == ProbeOf(pair)
  <2>1. i \in 0 .. (ProbeRows - 1) /\ ProbeRows \in Nat
    BY PairsFromRows, JoinAssumption
  <2>2. global_idx \in Nat /\ \A t \in Worker : at[t] \in Int /\ end[t] \in Int
    BY DEF IInv, ProbeInv, CounterInv
  <2> HIDE DEF i
  <2>3. Probed(i)
    BY <1>5, <2>1, <2>2 DEF Probed
  <2> QED
    BY <2>3 DEF i
<1> QED
  BY <1>2, <1>6 DEF DeliverInv, MergedInv

\* The pairs of all threads, appended to each other, are those of the result.
LEMMA MergedPairs ==
    ASSUME IInv, DeliverInv, Merged, OutputAttrs # <<>>
    PROVE  \E all : ResultIs(all)
<1> DEFINE P == Relational!Pairs
           N == NumThreads
<1>1. PICK from : Gathered(from)
  BY DEF DeliverInv, PairsInv
<1>2. /\ from \in [Worker -> Seq(P)] /\ Distinct(from)
      /\ \A t \in Worker : HoldsPairs(local[t], from[t])
      /\ \A pair \in P : Found(from, pair)
  BY <1>1, AllProbed DEF Gathered
<1> DEFINE parts == [n \in 1 .. N |-> from[n - 1]]
<1>3. N \in Nat \ {0} /\ \A n \in 1 .. N : n - 1 \in Worker
  BY JoinAssumption DEF Worker
<1>4. \A t \in Worker : t + 1 \in 1 .. N /\ (t + 1) - 1 = t
  BY <1>3 DEF Worker
<1>5. \A n \in 1 .. N : parts[n] = from[n - 1] /\ parts[n] \in Seq(P)
  BY <1>2, <1>3
<1>9. \A t \in Worker : parts[t + 1] = from[t]
  BY <1>4, <1>5
<1> HIDE DEF parts, P, N
<1>6. PICK first, all : all \in Seq(P) /\ Follow(P, parts, N, first, all) /\ Covers(parts, N, first, all)
  BY <1>3, <1>5, FollowExists
<1>7. /\ first \in [1 .. N + 1 -> Nat] /\ first[1] = 0 /\ first[N + 1] = Len(all)
      /\ \A p \in 1 .. N :
            /\ first[p + 1] = first[p] + Len(parts[p])
            /\ first[p + 1] <= Len(all)
            /\ \A k \in 1 .. Len(parts[p]) : parts[p][k] = all[first[p] + k]
  BY <1>6 DEF Follow
<1>8. \A p \in 1 .. N : first[p] \in Nat /\ Len(parts[p]) \in Nat /\ first[p] + Len(parts[p]) <= Len(all)
  <2> TAKE p \in 1 .. N
  <2>1. p \in 1 .. N + 1
    BY <1>3
  <2>2. Len(parts[p]) \in Nat
    BY <1>5, LenProperties
  <2> QED
    BY <1>7, <2>1, <2>2
<1>10. Len(all) \in Nat
  BY <1>6, LenProperties
<1>11. ASSUME NEW j \in 1 .. Len(all), NEW k \in 1 .. Len(all), all[j] = all[k]
       PROVE  j = k
  <2>1. PICK p \in 1 .. N : \E x \in 1 .. Len(parts[p]) : j = first[p] + x
    BY <1>6 DEF Covers
  <2>2. PICK x \in 1 .. Len(parts[p]) : j = first[p] + x
    BY <2>1
  <2>3. PICK q \in 1 .. N : \E y \in 1 .. Len(parts[q]) : k = first[q] + y
    BY <1>6 DEF Covers
  <2>4. PICK y \in 1 .. Len(parts[q]) : k = first[q] + y
    BY <2>3
  <2>5. parts[p][x] = parts[q][y]
    BY <1>7, <1>11, <2>2, <2>4
  <2>6. from[p - 1][x] = from[q - 1][y] /\ x \in 1 .. Len(from[p - 1]) /\ y \in 1 .. Len(from[q - 1])
    BY <1>5, <2>5
  <2>7. p - 1 = q - 1 /\ x = y
    BY <1>2, <1>3, <2>6 DEF Distinct
  <2>8. p = q
    BY <2>7, <1>3
  <2> QED
    BY <2>2, <2>4, <2>7, <2>8
<1>12. ASSUME NEW pair \in P
       PROVE  \E k \in 1 .. Len(all) : all[k] = pair
  <2>1. PICK t \in Worker : \E x \in 1 .. Len(from[t]) : from[t][x] = pair
    BY <1>2 DEF Found
  <2>2. PICK x \in 1 .. Len(from[t]) : from[t][x] = pair
    BY <2>1
  <2> DEFINE p == t + 1
  <2>3. p \in 1 .. N /\ parts[p] = from[t]
    BY <1>4, <1>9
  <2> HIDE DEF p
  <2>4. x \in 1 .. Len(parts[p]) /\ parts[p][x] = pair
    BY <2>2, <2>3
  <2>5. all[first[p] + x] = pair
    BY <1>7, <2>3, <2>4
  <2>6. first[p] + x \in 1 .. Len(all)
    BY <1>8, <1>10, <2>3, <2>4
  <2> QED
    BY <2>5, <2>6
<1>13. ASSUME NEW o \in Out
       PROVE  FlattenSeq(Columns(o)) = Projections(o, all)
  <2> DEFINE c == Columns(o)
             a == Projections(o, all)
             A == {Relational!Attribute(pair, OutputAttrs[o]) : pair \in P}
  <2>1. \A n \in 1 .. N : c[n] = Projections(o, parts[n])
    <3> TAKE n \in 1 .. N
    <3>1. c[n] = local[n - 1][o]
      BY DEF Columns, N
    <3>2. local[n - 1][o] = Projections(o, from[n - 1])
      BY <1>2, <1>3 DEF HoldsPairs
    <3> HIDE DEF c
    <3> QED
      BY <1>5, <3>1, <3>2
  <2>2. Len(c) = N
    BY <1>3 DEF Columns, N
  <2>3. ASSUME NEW s \in Seq(P)
        PROVE  /\ Projections(o, s) \in Seq(A) /\ Len(Projections(o, s)) = Len(s)
               /\ \A k \in 1 .. Len(s) :
                     Projections(o, s)[k] = Relational!Attribute(s[k], OutputAttrs[o])
    <3> DEFINE m == Len(s)
               z == Projections(o, s)
    <3>1. m \in Nat /\ \A k \in 1 .. m : s[k] \in P
      BY LenProperties, ElementOfSeq
    <3>2. z = [k \in 1 .. m |-> Relational!Attribute(s[k], OutputAttrs[o])]
      BY DEF Projections
    <3> HIDE DEF m, z
    <3>3. \A k \in 1 .. m : Relational!Attribute(s[k], OutputAttrs[o]) \in A
      BY <3>1
    <3> HIDE DEF A
    <3>4. z \in [1 .. m -> A]
      BY <3>2, <3>3
    <3>5. z \in Seq(A) /\ Len(z) = m
      BY <3>1, <3>4, SeqDef
    <3> QED
      BY <3>2, <3>5 DEF z, m
  <2> HIDE DEF A, c
  <2>4. ASSUME NEW p \in 1 .. N
        PROVE  /\ c[p] \in Seq(A) /\ Len(c[p]) = Len(parts[p])
               /\ \A k \in 1 .. Len(parts[p]) : c[p][k] = a[first[p] + k]
    <3>1. c[p] = Projections(o, parts[p]) /\ parts[p] \in Seq(P)
      BY <1>5, <2>1
    <3>2. ASSUME NEW k \in 1 .. Len(parts[p])
          PROVE  c[p][k] = a[first[p] + k]
      <4>1. first[p] + k \in 1 .. Len(all)
        BY <1>8, <1>10
      <4>2. a[first[p] + k] = Relational!Attribute(all[first[p] + k], OutputAttrs[o])
        BY <1>6, <2>3, <4>1
      <4>3. c[p][k] = Relational!Attribute(parts[p][k], OutputAttrs[o])
        BY <2>3, <3>1
      <4>4. parts[p][k] = all[first[p] + k]
        BY <1>7
      <4> QED
        BY <4>2, <4>3, <4>4
    <3> QED
      BY <2>3, <3>1, <3>2
  <2>5. a \in Seq(A) /\ Len(a) = Len(all)
    BY <1>6, <2>3
  <2> HIDE DEF a
  <2>6. Follow(A, c, N, first, a)
    BY <1>3, <1>7, <2>4, <2>5 DEF Follow
  <2>7. FlattenSeq(c) = a
    BY <2>2, <2>5, <2>6, FlattenedIsAll
  <2> QED
    BY <2>7 DEF c, a
<1>14. \A o \in Out : results[o] = Projections(o, all)
  BY <1>13, AllProbed
<1>15. ResultIs(all)
  BY <1>6, <1>11, <1>12, <1>14 DEF ResultIs, P
<1> QED
  BY <1>15

\* So the result, as a bag, is that of the relational join.
LEMMA BagsAgree ==
    ASSUME OutputAttrs # <<>>, NEW all, ResultIs(all)
    PROVE  Aligned(results) /\ ResultBag = Relational!JoinResult
<1> DEFINE P == Relational!Pairs
           m == Len(all)
           proj(pair) == Relational!Project(pair)
           is(v) == {i \in 1 .. m : RowOf(results, i) = v}
           ps(v) == {pair \in P : proj(pair) = v}
<1>1. all \in Seq(P) /\ m \in Nat /\ \A k \in 1 .. m : all[k] \in P
  BY LenProperties, ElementOfSeq DEF ResultIs
<1>2. \A o \in Out : results[o] = [k \in 1 .. m |-> Relational!Attribute(all[k], OutputAttrs[o])]
  BY DEF ResultIs, Projections
<1>3. \A j, k \in 1 .. m : all[j] = all[k] => j = k
  BY DEF ResultIs
<1>4. \A pair \in P : \E k \in 1 .. m : all[k] = pair
  BY DEF ResultIs
<1> HIDE DEF m, P
<1>5. \A o \in Out : DOMAIN results[o] = 1 .. m /\ Len(results[o]) = m
  <2> TAKE o \in Out
  <2> DEFINE A == {Relational!Attribute(all[k], OutputAttrs[o]) : k \in 1 .. m}
             r == results[o]
  <2>1. r = [k \in 1 .. m |-> Relational!Attribute(all[k], OutputAttrs[o])]
    BY <1>2
  <2>2. \A k \in 1 .. m : Relational!Attribute(all[k], OutputAttrs[o]) \in A
    OBVIOUS
  <2> HIDE DEF A, r
  <2>3. r \in [1 .. m -> A]
    BY <2>1, <2>2
  <2>4. r \in Seq(A) /\ Len(r) = m
    BY <1>1, <2>3, SeqDef
  <2> QED
    BY <2>3, <2>4 DEF r
<1>6. Aligned(results)
  BY <1>5 DEF Aligned
<1>7. 1 \in Out
  BY JoinAssumption, LenProperties, EmptySeq DEF Out
<1>8. DOMAIN results[1] = 1 .. m
  BY <1>5, <1>7
<1>9. ASSUME NEW i \in 1 .. m
      PROVE  RowOf(results, i) = proj(all[i])
  <2>1. \A o \in Out : results[o][i] = Relational!Attribute(all[i], OutputAttrs[o])
    BY <1>2
  <2> QED
    BY <2>1 DEF RowOf, Relational!Project, Out
<1> HIDE DEF proj
<1>10. {RowOf(results, i) : i \in 1 .. m} = {proj(pair) : pair \in P}
  BY <1>1, <1>4, <1>9
<1>11. ASSUME NEW v
       PROVE  Cardinality(is(v)) = Relational!Cardinality(ps(v))
  <2> DEFINE S == is(v)
             T == ps(v)
             h == [i \in S |-> all[i]]
  <2>1. \A i \in S : i \in 1 .. m /\ all[i] \in T
    BY <1>1, <1>9
  <2>2. \A pair \in T : \E i \in S : all[i] = pair
    BY <1>4, <1>9
  <2>3. IsFiniteSet(S)
    <3>1. IsFiniteSet(1 .. m)
      BY <1>1, FS_Interval
    <3>2. S \in SUBSET (1 .. m)
      OBVIOUS
    <3> HIDE DEF S
    <3> QED
      BY <3>1, <3>2, FS_Subset
  <2> HIDE DEF S, T
  <2>4. h \in Bijection(S, T)
    BY <1>3, <2>1, <2>2 DEF Bijection, Injection, IsInjective, Surjection
  <2>5. ExistsBijection(S, T)
    BY <2>4 DEF ExistsBijection
  <2>6. Cardinality(T) = Cardinality(S)
    BY <2>3, <2>5, FS_Bijection
  <2>7. Relational!Cardinality(T) = Cardinality(T)
    BY RelationalCounts
  <2> QED
    BY <2>6, <2>7 DEF S, T
<1>12. ResultBag = [v \in {RowOf(results, i) : i \in 1 .. m} |-> Cardinality(is(v))]
  BY <1>8 DEF ResultBag
<1>13. Relational!JoinResult = [v \in {proj(pair) : pair \in P} |-> Relational!Cardinality(ps(v))]
  BY DEF Relational!JoinResult, proj, P
<1> HIDE DEF is, ps
<1>14. ResultBag = Relational!JoinResult
  BY <1>10, <1>11, <1>12, <1>13
<1> QED
  BY <1>6, <1>14

\* The join of any two relations, whatever its threads do, delivers the bag of the
\* relational join, and once.
THEOREM DeliversTheJoin ==
    ASSUME OutputAttrs # <<>>
    PROVE  Spec => DeliversJoin
<1> DEFINE delivered == IF stage = "done" THEN (IF Aligned(results) THEN ResultBag ELSE <<>>) ELSE Pending
<1>1. Init => Relational!Init
  BY DEF Init, Relational!Init
<1>2. ASSUME IInv, DeliverInv, [Next]_vars
      PROVE  [Relational!Deliver]_delivered
  <2>1. CASE Return
    <3>1. stage = "probe" /\ Merged /\ stage' = "done" /\ UNCHANGED results
      BY <2>1 DEF Return, probeVars
    <3>2. Aligned(results) /\ ResultBag = Relational!JoinResult
      BY <1>2, <3>1, MergedPairs, BagsAgree
    <3>3. Aligned(results)' = Aligned(results) /\ ResultBag' = ResultBag
      BY <3>1 DEF Aligned, ResultBag, RowOf
    <3>4. delivered = Pending /\ delivered' = Relational!JoinResult
      BY <3>1, <3>2, <3>3
    <3> QED
      BY <3>4 DEF Relational!Deliver
  <2>2. CASE CollectStep \/ Build \/ Probe
    <3>1. stage # "done" /\ stage' # "done"
      BY <2>2 DEF CollectStep, Build, Probe
    <3>2. delivered' = delivered
      BY <3>1
    <3> QED
      BY <3>2
  <2>3. CASE UNCHANGED vars
    <3>1. UNCHANGED <<stage, results>>
      BY <2>3 DEF vars, probeVars
    <3>2. Aligned(results)' = Aligned(results) /\ ResultBag' = ResultBag
      BY <3>1 DEF Aligned, ResultBag, RowOf
    <3>3. delivered' = delivered
      BY <3>1, <3>2
    <3> QED
      BY <3>3
  <2> QED
    BY <1>2, <2>1, <2>2, <2>3 DEF Next, Done
<1> QED
  BY <1>1, <1>2, Invariant, Delivers, PTL DEF Spec, DeliversJoin, Relational!Safety

-----------------------------------------------------------------------------
(* The memory of a query's columns. *)

Mapping == {NoMapping} \union Names
PageName == Mapping \X Nat
MemoryColumn == [pages : SUBSET PageName, mapped_memory : Mapping]
Vector == [columns : Seq(MemoryColumn), capacity : Nat]

\* The places of column c's pages in the cache file of table t.
Places(t, c) == (PagesBefore(t, c - 1) + 1) .. PagesBefore(t, c)

\* What from_cache makes of column c.
MappedColumn(t, c) == [pages |-> {Memory!MappedPage(t, k) : k \in Places(t, c)}, mapped_memory |-> t]

\* Tables hold vectors of columns, those with a cache file the pages that are theirs
\* in it, the others none of any.
TablesInv ==
    /\ DOMAIN tables \subseteq Names \union {OutputName}
    /\ tables \in [DOMAIN tables -> Vector]
    /\ \A t \in DOMAIN tables \ {OutputName} :
          tables[t].columns # <<>> /\ Len(tables[t].columns) <= Len(Inputs[t].columns)
    /\ \A t \in DOMAIN tables : \A c \in 1 .. Len(tables[t].columns) :
          IF t \in cached THEN tables[t].columns[c] = MappedColumn(t, c)
                          ELSE tables[t].columns[c].mapped_memory = NoMapping

\* The columns that own their pages, and what column o owns.
Owners == {o \in (DOMAIN tables \ cached) \X Nat : o[2] \in 1 .. Len(tables[o[1]].columns)}
Own(o) == tables[o[1]].columns[o[2]].pages

\* The heap is what columns own, each page one of them, and pages to come are new.
HeapInv ==
    /\ allocated \in Nat
    /\ misfreed = FALSE
    /\ heap \subseteq {Memory!HeapPage(k) : k \in 1 .. allocated}
    /\ heap = UNION {Own(o) : o \in Owners}
    /\ \A o, p \in Owners : o # p => Own(o) \intersect Own(p) = {}

\* A mapping has the columns of its table as references.
MappingsInv == mappings = [t \in cached \intersect DOMAIN tables |-> Len(tables[t].columns)]

\* The inputs are complete while the plan is executed and the output filled, and the
\* output table is there from the end of the execution on.
PhaseInv ==
    /\ cached \subseteq Names
    /\ phase \in {"load", "execute", "output", "destroy"}
    /\ phase \in {"execute", "output"} => Loaded
    /\ phase \in {"load", "execute"} => OutputName \notin DOMAIN tables
    /\ phase = "output" => OutputName \in DOMAIN tables /\ DOMAIN tables[OutputName].columns = Outputs

MemoryInv == TablesInv /\ HeapInv /\ MappingsInv /\ PhaseInv

LEMMA NamesAre == /\ NoMapping \notin Names /\ NoMapping # OutputName /\ OutputName \notin Names
                  /\ Names = 1 .. Len(Inputs) /\ Len(Inputs) \in Nat
BY PlanAssumption, MappingAssumption DEF Names, OutputName

\* Nothing is freed with a column that has been moved from.
LEMMA MovedFree ==
    ASSUME NEW m, m \in [heap : SUBSET PageName, mappings : {mappings}, misfreed : BOOLEAN]
    PROVE  Memory!Destroyed(m, Memory!NewColumn) = m
<1>1. Memory!Destroyed(m, Memory!NewColumn) = [m EXCEPT !.heap = @ \ {}, !.misfreed = @ \/ ~({} \subseteq m.heap)]
  BY DEF Memory!Destroyed, Memory!NewColumn
<1> QED
  BY <1>1

\* The states of memory while one column after the other is destroyed.
Freeing(after, m, columns) ==
    /\ after[0] = m
    /\ \A i \in 1 .. Len(columns) : after[i] = Memory!Destroyed(after[i - 1], columns[i])

\* They exist, and AllDestroyed is the last of them.
LEMMA DestroyedInOrder ==
    ASSUME NEW start, NEW columns, Len(columns) \in Nat
    PROVE  \E after : Freeing(after, start, columns) /\ Memory!AllDestroyed(start, columns) = after[Len(columns)]
<1> DEFINE l == Len(columns)
           Step(f, i) == IF i = 0 THEN start ELSE Memory!Destroyed(f[i - 1], columns[i])
           Upto(m) == \E f : f = [i \in 0 .. m |-> Step(f, i)]
           Bad == {m \in Nat : ~ Upto(m)}
<1>1. Bad = {}
  <2> SUFFICES ASSUME Bad # {} PROVE FALSE
    OBVIOUS
  <2>1. PICK m \in Bad : \A k \in Bad : m <= k
    <3>1. Bad \in SUBSET Nat /\ Bad # {}
      OBVIOUS
    <3> HIDE DEF Bad
    <3> QED
      BY <3>1, Least
  <2>2. m # 0
    <3> DEFINE f == [i \in 0 .. 0 |-> start]
    <3>1. f = [i \in 0 .. 0 |-> Step(f, i)]
      OBVIOUS
    <3> QED
      BY <3>1
  <2>3. m - 1 \in Nat /\ m - 1 \notin Bad
    <3>1. m \in Nat
      BY <2>1
    <3> HIDE DEF Bad
    <3> QED
      BY <2>1, <2>2, <3>1
  <2>4. PICK f : f = [i \in 0 .. (m - 1) |-> Step(f, i)]
    BY <2>3
  <2> DEFINE g == [i \in 0 .. m |-> IF i = m THEN Step(f, m) ELSE f[i]]
  <2>5. ASSUME NEW i \in 0 .. m PROVE g[i] = Step(g, i)
    <3>1. CASE i = 0
      <4>1. g[i] = f[0] /\ f[0] = Step(f, 0)
        BY <2>2, <2>3, <2>4, <3>1
      <4> QED
        BY <3>1, <4>1
    <3>2. CASE i # 0
      <4>1. i - 1 \in 0 .. (m - 1) /\ i - 1 \in 0 .. m /\ i - 1 # m
        BY <2>3, <3>2
      <4>2. g[i - 1] = f[i - 1]
        BY <4>1
      <4>3. g[i] = Step(f, i)
        <5>1. CASE i = m
          BY <5>1
        <5>2. CASE i # m
          <6>1. i \in 0 .. (m - 1)
            BY <5>2, <2>3
          <6> QED
            BY <2>4, <5>2, <6>1
        <5> QED
          BY <5>1, <5>2
      <4> QED
        BY <3>2, <4>2, <4>3
    <3> QED
      BY <3>1, <3>2
  <2>6. g = [i \in 0 .. m |-> Step(g, i)]
    <3> HIDE DEF Step
    <3>1. \A i \in 0 .. m : g[i] = Step(g, i)
      BY <2>5
    <3>2. g = [i \in 0 .. m |-> g[i]]
      OBVIOUS
    <3> HIDE DEF g
    <3> QED
      BY <3>1, <3>2
  <2>7. Upto(m)
    <3> HIDE DEF g, Step
    <3> QED
      BY <2>6
  <2> QED
    BY <2>1, <2>7
<1>2. Upto(l)
  BY <1>1
<1> DEFINE after == CHOOSE f : f = [i \in 0 .. l |-> Step(f, i)]
<1>3. after = [i \in 0 .. l |-> Step(after, i)]
  <2> HIDE DEF Step
  <2> QED
    BY <1>2
<1>4. Memory!AllDestroyed(start, columns) = after[l]
  BY DEF Memory!AllDestroyed
<1> HIDE DEF after
<1>5. ASSUME NEW i \in 0 .. l PROVE after[i] = Step(after, i)
  <2> HIDE DEF Step
  <2> QED
    BY <1>3
<1>6. after[0] = start
  BY <1>5
<1>7. ASSUME NEW i \in 1 .. l PROVE after[i] = Memory!Destroyed(after[i - 1], columns[i])
  BY <1>5
<1> QED
  BY <1>4, <1>6, <1>7 DEF Freeing

\* The numbers of pages in front of the columns of table t, up to column c.
Counting(before, t, c) ==
    /\ before[0] = 0
    /\ \A i \in 1 .. c : before[i] = before[i - 1] + Len(Inputs[t].columns[i].pages)

\* So do the sums of PagesBefore.
LEMMA PagesCounted ==
    ASSUME NEW t, NEW c \in Nat
    PROVE  \E before : Counting(before, t, c) /\ PagesBefore(t, c) = before[c]
<1> DEFINE l == c
           Step(f, i) == IF i = 0 THEN 0 ELSE f[i - 1] + Len(Inputs[t].columns[i].pages)
           Upto(m) == \E f : f = [i \in 0 .. m |-> Step(f, i)]
           Bad == {m \in Nat : ~ Upto(m)}
<1>1. Bad = {}
  <2> SUFFICES ASSUME Bad # {} PROVE FALSE
    OBVIOUS
  <2>1. PICK m \in Bad : \A k \in Bad : m <= k
    <3>1. Bad \in SUBSET Nat /\ Bad # {}
      OBVIOUS
    <3> HIDE DEF Bad
    <3> QED
      BY <3>1, Least
  <2>2. m # 0
    <3> DEFINE f == [i \in 0 .. 0 |-> 0]
    <3>1. f = [i \in 0 .. 0 |-> Step(f, i)]
      OBVIOUS
    <3> QED
      BY <3>1
  <2>3. m - 1 \in Nat /\ m - 1 \notin Bad
    <3>1. m \in Nat
      BY <2>1
    <3> HIDE DEF Bad
    <3> QED
      BY <2>1, <2>2, <3>1
  <2>4. PICK f : f = [i \in 0 .. (m - 1) |-> Step(f, i)]
    BY <2>3
  <2> DEFINE g == [i \in 0 .. m |-> IF i = m THEN Step(f, m) ELSE f[i]]
  <2>5. ASSUME NEW i \in 0 .. m PROVE g[i] = Step(g, i)
    <3>1. CASE i = 0
      <4>1. g[i] = f[0] /\ f[0] = Step(f, 0)
        BY <2>2, <2>3, <2>4, <3>1
      <4> QED
        BY <3>1, <4>1
    <3>2. CASE i # 0
      <4>1. i - 1 \in 0 .. (m - 1) /\ i - 1 \in 0 .. m /\ i - 1 # m
        BY <2>3, <3>2
      <4>2. g[i - 1] = f[i - 1]
        BY <4>1
      <4>3. g[i] = Step(f, i)
        <5>1. CASE i = m
          BY <5>1
        <5>2. CASE i # m
          <6>1. i \in 0 .. (m - 1)
            BY <5>2, <2>3
          <6> QED
            BY <2>4, <5>2, <6>1
        <5> QED
          BY <5>1, <5>2
      <4> QED
        BY <3>2, <4>2, <4>3
    <3> QED
      BY <3>1, <3>2
  <2>6. g = [i \in 0 .. m |-> Step(g, i)]
    <3> HIDE DEF Step
    <3>1. \A i \in 0 .. m : g[i] = Step(g, i)
      BY <2>5
    <3>2. g = [i \in 0 .. m |-> g[i]]
      OBVIOUS
    <3> HIDE DEF g
    <3> QED
      BY <3>1, <3>2
  <2>7. Upto(m)
    <3> HIDE DEF g, Step
    <3> QED
      BY <2>6
  <2> QED
    BY <2>1, <2>7
<1>2. Upto(l)
  BY <1>1
<1> DEFINE after == CHOOSE f : f = [i \in 0 .. l |-> Step(f, i)]
<1>3. after = [i \in 0 .. l |-> Step(after, i)]
  <2> HIDE DEF Step
  <2> QED
    BY <1>2
<1>4. PagesBefore(t, c) = after[l]
  BY DEF PagesBefore
<1> HIDE DEF after
<1>5. ASSUME NEW i \in 0 .. l PROVE after[i] = Step(after, i)
  <2> HIDE DEF Step
  <2> QED
    BY <1>3
<1>6. after[0] = 0
  BY <1>5
<1>7. ASSUME NEW i \in 1 .. l PROVE after[i] = after[i - 1] + Len(Inputs[t].columns[i].pages)
  BY <1>5
<1> QED
  BY <1>4, <1>6, <1>7 DEF Counting

\* Growing a vector frees nothing: what is destroyed has been moved from.
LEMMA GrownIs ==
    ASSUME NEW vector \in Vector, NEW m, m \in [heap : SUBSET PageName, mappings : {mappings}, misfreed : BOOLEAN]
    PROVE  Memory!Grown(m, vector) = m
<1> DEFINE columns == [j \in DOMAIN vector.columns |-> Memory!MovedFrom(vector.columns[j])]
           n == Len(vector.columns)
<1>1. n \in Nat /\ DOMAIN vector.columns = 1 .. n
  BY LenProperties DEF Vector
<1>2. columns \in Seq({Memory!NewColumn}) /\ Len(columns) = n
  <2>1. columns \in [1 .. n -> {Memory!NewColumn}]
    BY <1>1 DEF Memory!MovedFrom
  <2> HIDE DEF columns
  <2> QED
    BY <1>1, <2>1, SeqDef, LenProperties
<1>3. \A i \in 1 .. n : columns[i] = Memory!NewColumn
  BY <1>1 DEF Memory!MovedFrom
<1>4. Memory!Grown(m, vector) = m \/ Memory!Grown(m, vector) = Memory!AllDestroyed(m, columns)
  BY DEF Memory!Grown
<1> HIDE DEF columns
<1>5. PICK after : Freeing(after, m, columns) /\ Memory!AllDestroyed(m, columns) = after[n]
  BY <1>1, <1>2, DestroyedInOrder
<1> DEFINE T == {i \in 0 .. n : after[i] = m}
<1>6. 0 \in T
  BY <1>1, <1>5 DEF Freeing
<1>7. ASSUME NEW i \in 1 .. n, i - 1 \in T PROVE i \in T
  <2>1. after[i] = Memory!Destroyed(m, Memory!NewColumn)
    BY <1>2, <1>3, <1>5, <1>7 DEF Freeing
  <2> QED
    BY <2>1, MovedFree
<1>8. n \in 0 .. n
  BY <1>1
<1>9. n \in T
  <2> HIDE DEF T
  <2> QED
    BY <1>1, <1>6, <1>7, <1>8, Ascend
<1> QED
  BY <1>4, <1>5, <1>9

\* The pages of the first i columns.
PagesUpTo(columns, i) == UNION {columns[c].pages : c \in 1 .. i}

\* Columns that own their pages give back just these.
LEMMA OwnedDestroyed ==
    ASSUME NEW columns \in Seq(MemoryColumn), NEW n, n = Len(columns), NEW h, NEW maps,
           \A c \in 1 .. n : columns[c].mapped_memory = NoMapping /\ columns[c].pages \subseteq h,
           \A c, d \in 1 .. n : c # d => columns[c].pages \intersect columns[d].pages = {}
    PROVE  Memory!AllDestroyed([heap |-> h, mappings |-> maps, misfreed |-> FALSE], columns) =
              [heap |-> h \ PagesUpTo(columns, n), mappings |-> maps, misfreed |-> FALSE]
<1> DEFINE State(i) == [heap |-> h \ PagesUpTo(columns, i), mappings |-> maps, misfreed |-> FALSE]
           start == [heap |-> h, mappings |-> maps, misfreed |-> FALSE]
<1>1. n \in Nat
  BY LenProperties
<1>2. PICK after : Freeing(after, start, columns) /\ Memory!AllDestroyed(start, columns) = after[n]
  BY <1>1, DestroyedInOrder
<1> DEFINE T == {i \in 0 .. n : after[i] = State(i)}
<1>3. 0 \in T
  <2>1. PagesUpTo(columns, 0) = {}
    BY DEF PagesUpTo
  <2>2. after[0] = start
    BY <1>2 DEF Freeing
  <2>3. State(0) = start
    BY <2>1
  <2>4. 0 \in 0 .. n
    BY <1>1
  <2> QED
    BY <2>2, <2>3, <2>4
<1>4. ASSUME NEW i \in 1 .. n, i - 1 \in T PROVE i \in T
  <2>1. after[i] = Memory!Destroyed(State(i - 1), columns[i])
    BY <1>2, <1>4 DEF Freeing
  <2>2. columns[i].mapped_memory = NoMapping
    OBVIOUS
  <2>3. PagesUpTo(columns, i) = PagesUpTo(columns, i - 1) \union columns[i].pages
    BY <1>1 DEF PagesUpTo
  <2>4. columns[i].pages \subseteq h \ PagesUpTo(columns, i - 1)
    <3>1. ASSUME NEW c \in 1 .. (i - 1) PROVE columns[i].pages \intersect columns[c].pages = {}
      <4>1. c \in 1 .. n /\ c # i
        BY <1>1
      <4> QED
        BY <4>1
    <3> QED
      BY <3>1 DEF PagesUpTo
  <2>5. Memory!Destroyed(State(i - 1), columns[i]) =
           [State(i - 1) EXCEPT !.heap = @ \ columns[i].pages,
                                !.misfreed = @ \/ ~(columns[i].pages \subseteq State(i - 1).heap)]
    BY <2>2 DEF Memory!Destroyed
  <2>6. Memory!Destroyed(State(i - 1), columns[i]) = State(i)
    BY <2>3, <2>4, <2>5
  <2> QED
    BY <2>1, <2>6
<1>5. n \in T
  <2>1. n \in 0 .. n
    BY <1>1
  <2> HIDE DEF T
  <2> QED
    BY <1>1, <1>3, <1>4, <2>1, Ascend
<1> QED
  BY <1>2, <1>5

IsMap(f) == f = [u \in DOMAIN f |-> f[u]]

\* Columns that share a mapping give it back with the last of them.
LEMMA MappedDestroyed ==
    ASSUME NEW columns \in Seq(MemoryColumn), NEW n, n = Len(columns), n # 0, NEW h, NEW maps,
           NEW t \in DOMAIN maps, IsMap(maps), maps[t] = n, t # NoMapping,
           \A c \in 1 .. n : columns[c].mapped_memory = t
    PROVE  Memory!AllDestroyed([heap |-> h, mappings |-> maps, misfreed |-> FALSE], columns) =
              [heap |-> h, mappings |-> Memory!Without(maps, t), misfreed |-> FALSE]
<1> DEFINE Remaining(i) == [u \in DOMAIN maps |-> IF u = t THEN n - i ELSE maps[u]]
           State(i) == [heap |-> h, mappings |-> Remaining(i), misfreed |-> FALSE]
           start == [heap |-> h, mappings |-> maps, misfreed |-> FALSE]
<1>1. n \in Nat
  BY LenProperties
<1>2. PICK after : Freeing(after, start, columns) /\ Memory!AllDestroyed(start, columns) = after[n]
  BY <1>1, DestroyedInOrder
<1> DEFINE T == {i \in 0 .. (n - 1) : after[i] = State(i)}
<1>3. 0 \in T
  <2>1. Remaining(0) = maps
    BY <1>1 DEF IsMap
  <2>2. after[0] = start
    BY <1>2 DEF Freeing
  <2>3. 0 \in 0 .. (n - 1)
    BY <1>1
  <2> HIDE DEF Remaining
  <2> QED
    BY <2>1, <2>2, <2>3
<1>4. ASSUME NEW i \in 0 .. (n - 1), after[i] = State(i)
      PROVE  after[i + 1] = IF i = n - 1 THEN [heap |-> h, mappings |-> [u \in DOMAIN maps \ {t} |-> maps[u]],
                                               misfreed |-> FALSE]
                            ELSE State(i + 1)
  <2>1. i + 1 \in 1 .. n /\ (i + 1) - 1 = i
    BY <1>1
  <2>2. after[i + 1] = Memory!Destroyed(State(i), columns[i + 1])
    BY <1>2, <1>4, <2>1 DEF Freeing
  <2>3. columns[i + 1].mapped_memory = t
    BY <2>1
  <2>4. t \in DOMAIN Remaining(i) /\ Remaining(i)[t] = n - i
    OBVIOUS
  <2>5. Memory!Destroyed(State(i), columns[i + 1]) =
           IF Remaining(i)[t] = 1 THEN [State(i) EXCEPT !.mappings = Memory!Without(@, t)]
           ELSE [State(i) EXCEPT !.mappings[t] = @ - 1]
    BY <2>3, <2>4 DEF Memory!Destroyed
  <2>6. Memory!Without(Remaining(i), t) = [u \in DOMAIN maps \ {t} |-> maps[u]]
    BY DEF Memory!Without
  <2>7. [Remaining(i) EXCEPT ![t] = @ - 1] = Remaining(i + 1)
    <3>1. (n - i) - 1 = n - (i + 1)
      BY <1>1
    <3> QED
      BY <3>1
  <2>8. Remaining(i)[t] = 1 <=> i = n - 1
    BY <1>1, <2>4
  <2> HIDE DEF Remaining
  <2> QED
    BY <2>2, <2>5, <2>6, <2>7, <2>8
<1>5. ASSUME NEW i \in 1 .. (n - 1), i - 1 \in T PROVE i \in T
  <2>1. i - 1 \in 0 .. (n - 1) /\ i - 1 # n - 1 /\ (i - 1) + 1 = i /\ after[i - 1] = State(i - 1)
    BY <1>1, <1>5
  <2> HIDE DEF State
  <2>2. after[i] = State(i)
    BY <1>4, <2>1
  <2> QED
    BY <1>1, <2>2
<1>6. n - 1 \in T
  <2>1. n - 1 \in 0 .. (n - 1) /\ n - 1 \in Nat
    BY <1>1
  <2> HIDE DEF T
  <2> QED
    BY <1>3, <1>5, <2>1, Ascend
<1>7. (n - 1) + 1 = n /\ n - 1 \in 0 .. (n - 1) /\ after[n - 1] = State(n - 1)
  BY <1>1, <1>6
<1> HIDE DEF State
<1>8. Memory!Without(maps, t) = [u \in DOMAIN maps \ {t} |-> maps[u]]
  BY DEF Memory!Without
<1> QED
  BY <1>2, <1>4, <1>7, <1>8

\* The pages of a column stand behind those of the columns before it.
LEMMA PagesBeforeIs ==
    ASSUME NEW t \in Names
    PROVE  /\ PagesBefore(t, 0) = 0
           /\ \A c \in 0 .. Len(Inputs[t].columns) : PagesBefore(t, c) \in Nat
           /\ \A c \in 1 .. Len(Inputs[t].columns) :
                 PagesBefore(t, c) = PagesBefore(t, c - 1) + Len(Inputs[t].columns[c].pages)
<1> DEFINE w == Len(Inputs[t].columns)
           len(c) == Len(Inputs[t].columns[c].pages)
<1>1. w \in Nat /\ \A c \in 1 .. w : len(c) \in Nat
  <2>1. t \in DOMAIN Inputs
    BY DEF Names
  <2>2. Len(Inputs[t].columns) \in Nat /\ DOMAIN Inputs[t].columns = 1 .. Len(Inputs[t].columns)
    BY <2>1, PlanAssumption
  <2>3. ASSUME NEW c \in 1 .. w PROVE len(c) \in Nat
    <3>1. WellFormedColumn(Inputs[t].columns[c], Inputs[t].num_rows)
      BY <2>1, <2>2, PlanAssumption
    <3>2. Inputs[t].columns[c].pages \in Seq(Seq(Values[Inputs[t].columns[c].type] \union {Null}))
      BY <3>1 DEF WellFormedColumn
    <3> QED
      BY <3>2, LenProperties
  <2> QED
    BY <2>2, <2>3
<1> HIDE DEF len
<1>2. ASSUME NEW c \in 0 .. w PROVE \E before : Counting(before, t, c) /\ PagesBefore(t, c) = before[c]
  BY <1>1, PagesCounted
<1>3. PagesBefore(t, 0) = 0
  <2>1. PICK before : Counting(before, t, 0) /\ PagesBefore(t, 0) = before[0]
    BY <1>1, <1>2
  <2> QED
    BY <2>1 DEF Counting
\* Sums up to different columns agree.
<1>4. ASSUME NEW c \in 1 .. w PROVE PagesBefore(t, c) = PagesBefore(t, c - 1) + len(c)
  <2>1. PICK before : Counting(before, t, c) /\ PagesBefore(t, c) = before[c]
    BY <1>2
  <2>2. PICK shorter : Counting(shorter, t, c - 1) /\ PagesBefore(t, c - 1) = shorter[c - 1]
    BY <1>1, <1>2
  <2> DEFINE T == {i \in 0 .. (c - 1) : before[i] = shorter[i]}
  <2>3. 0 \in T
    BY <2>1, <2>2 DEF Counting
  <2>4. ASSUME NEW i \in 1 .. (c - 1), i - 1 \in T PROVE i \in T
    <3>1. i \in 1 .. c
      OBVIOUS
    <3> QED
      BY <2>1, <2>2, <2>4, <3>1 DEF Counting
  <2>5. c - 1 \in T
    <3>1. c - 1 \in Nat /\ c - 1 \in 0 .. (c - 1)
      BY <1>1
    <3> HIDE DEF T
    <3> QED
      BY <2>3, <2>4, <3>1, Ascend
  <2>6. before[c] = before[c - 1] + len(c)
    BY <2>1 DEF Counting, len
  <2> QED
    BY <2>1, <2>2, <2>5, <2>6
<1> DEFINE T == {c \in 0 .. w : PagesBefore(t, c) \in Nat}
<1>5. \A c \in 0 .. w : c \in T
  <2>1. 0 \in T
    BY <1>1, <1>3
  <2>2. ASSUME NEW c \in 1 .. w, c - 1 \in T PROVE c \in T
    <3>1. PagesBefore(t, c) = PagesBefore(t, c - 1) + len(c) /\ len(c) \in Nat /\ PagesBefore(t, c - 1) \in Nat
      BY <1>1, <1>4, <2>2
    <3> QED
      BY <3>1
  <2> HIDE DEF T
  <2> QED
    BY <1>1, <2>1, <2>2, Ascend
<1> QED
  BY <1>3, <1>4, <1>5 DEF len

\* A column that is added is the last of its vector.
LEMMA EmplaceIs ==
    ASSUME NEW v \in Vector, NEW column \in MemoryColumn
    PROVE  /\ Memory!EmplaceBack(v, column) \in Vector
           /\ Len(Memory!EmplaceBack(v, column).columns) = Len(v.columns) + 1
           /\ \A i \in 1 .. Len(v.columns) : Memory!EmplaceBack(v, column).columns[i] = v.columns[i]
           /\ Memory!EmplaceBack(v, column).columns[Len(v.columns) + 1] = column
<1> DEFINE n == Len(v.columns)
           new == Append(v.columns, column)
           size == IF n < v.capacity THEN v.capacity ELSE IF v.capacity = 0 THEN 1 ELSE 2 * v.capacity
<1>1. v.columns \in Seq(MemoryColumn) /\ v.capacity \in Nat /\ n \in Nat
  BY LenProperties DEF Vector
<1>2. /\ new \in Seq(MemoryColumn) /\ Len(new) = n + 1
      /\ \A i \in 1 .. n : new[i] = v.columns[i]
      /\ new[n + 1] = column
  BY <1>1, AppendProperties
<1>3. size \in Nat
  BY <1>1
<1>4. Memory!EmplaceBack(v, column) = [columns |-> new, capacity |-> size]
  BY DEF Memory!EmplaceBack
<1> HIDE DEF new, size
<1> QED
  BY <1>2, <1>3, <1>4 DEF Vector

\* The vector of a table that is being loaded.
LEMMA VectorIs ==
    ASSUME TablesInv, NEW t
    PROVE  Memory!VectorOf(t) \in Vector /\ LoadedColumns(t) = Len(Memory!VectorOf(t).columns)
<1>1. CASE t \in DOMAIN tables
  BY <1>1 DEF TablesInv, Memory!VectorOf, LoadedColumns
<1>2. CASE t \notin DOMAIN tables
  <2>1. Memory!VectorOf(t) = [columns |-> <<>>, capacity |-> 0] /\ LoadedColumns(t) = 0
    BY <1>2 DEF Memory!VectorOf, LoadedColumns
  <2>2. <<>> \in Seq(MemoryColumn) /\ Len(<<>>) = 0
    OBVIOUS
  <2> QED
    BY <2>1, <2>2 DEF Vector
<1> QED
  BY <1>1, <1>2

\* A table's vector with one column more.
LEMMA TablesGrow ==
    ASSUME TablesInv, NEW t \in Names, LoadedColumns(t) < Len(Inputs[t].columns),
           NEW column \in MemoryColumn, UNCHANGED cached,
           tables' = Memory!With(tables, t, Memory!EmplaceBack(Memory!VectorOf(t), column)),
           IF t \in cached THEN column = MappedColumn(t, LoadedColumns(t) + 1)
                           ELSE column.mapped_memory = NoMapping
    PROVE  /\ TablesInv'
           /\ DOMAIN tables' = DOMAIN tables \union {t}
           /\ Len(tables'[t].columns) = LoadedColumns(t) + 1
           /\ tables'[t].columns[LoadedColumns(t) + 1] = column
           /\ \A u \in DOMAIN tables : u # t => tables'[u] = tables[u]
           /\ \A c \in 1 .. LoadedColumns(t) :
                 t \in DOMAIN tables /\ tables'[t].columns[c] = tables[t].columns[c]
<1> DEFINE v == Memory!VectorOf(t)
           n == LoadedColumns(t)
           e == Memory!EmplaceBack(v, column)
<1>1. v \in Vector /\ n = Len(v.columns)
  BY VectorIs
<1>2. n \in Nat
  BY <1>1, LenProperties DEF Vector
<1>3. e \in Vector /\ Len(e.columns) = n + 1 /\ (\A i \in 1 .. n : e.columns[i] = v.columns[i]) /\ e.columns[n + 1] = column
  BY <1>1, EmplaceIs
<1>4. t \in DOMAIN tables => v = tables[t]
  BY DEF Memory!VectorOf
<1>5. t \notin DOMAIN tables => n = 0
  BY DEF LoadedColumns
<1>6. /\ DOMAIN tables' = DOMAIN tables \union {t} /\ tables'[t] = e
      /\ \A u \in DOMAIN tables : u # t => tables'[u] = tables[u]
  <2>1. tables' = Memory!With(tables, t, e)
    OBVIOUS
  <2>2. tables' = [y \in DOMAIN tables \union {t} |-> IF y = t THEN e ELSE tables[y]]
    BY <2>1 DEF Memory!With
  <2> HIDE DEF e
  <2> QED
    BY <2>2
<1>7. \A c \in 1 .. n : t \in DOMAIN tables /\ tables'[t].columns[c] = tables[t].columns[c]
  BY <1>2, <1>3, <1>4, <1>5, <1>6
<1>8. tables' \in [DOMAIN tables' -> Vector]
  <2>1. tables' = [u \in DOMAIN tables' |-> tables'[u]]
    BY DEF Memory!With
  <2>2. \A u \in DOMAIN tables' : tables'[u] \in Vector
    BY <1>3, <1>6 DEF TablesInv
  <2> QED
    BY <2>1, <2>2
<1> HIDE DEF v, n, e
<1>9. DOMAIN tables' \subseteq Names \union {OutputName}
  BY <1>6 DEF TablesInv
<1>10. ASSUME NEW u \in DOMAIN tables' \ {OutputName}
       PROVE  tables'[u].columns # <<>> /\ Len(tables'[u].columns) <= Len(Inputs[u].columns)
  <2>1. CASE u = t
    <3>1. Len(e.columns) # 0 /\ n + 1 <= Len(Inputs[t].columns)
      <4>1. Len(Inputs[t].columns) \in Nat
        BY PlanAssumption DEF Names
      <4> QED
        BY <1>2, <1>3, <4>1 DEF n
    <3> QED
      BY <1>3, <1>6, <2>1, <3>1
  <2>2. CASE u # t
    BY <1>6, <2>2 DEF TablesInv
  <2> QED
    BY <2>1, <2>2
<1>11. ASSUME NEW u \in DOMAIN tables', NEW c \in 1 .. Len(tables'[u].columns)
       PROVE  IF u \in cached THEN tables'[u].columns[c] = MappedColumn(u, c)
                              ELSE tables'[u].columns[c].mapped_memory = NoMapping
  <2>1. CASE u # t
    BY <1>6, <2>1 DEF TablesInv
  <2>2. CASE u = t /\ c = n + 1
    BY <1>3, <1>6, <2>2 DEF n
  <2>3. CASE u = t /\ c \in 1 .. n
    <3>1. t \in DOMAIN tables /\ tables'[t].columns[c] = tables[t].columns[c]
      BY <1>7, <2>3
    <3>2. c \in 1 .. Len(tables[t].columns)
      BY <1>1, <1>4, <2>3, <3>1
    <3> QED
      BY <2>3, <3>1, <3>2 DEF TablesInv
  <2> QED
    BY <1>2, <1>3, <1>6, <2>1, <2>2, <2>3
<1>12. TablesInv'
  <2>1. \A u, c : MappedColumn(u, c)' = MappedColumn(u, c)
    BY DEF MappedColumn, Places
  <2> QED
    BY <1>8, <1>9, <1>10, <1>11, <2>1 DEF TablesInv
<1> QED
  BY <1>3, <1>6, <1>7, <1>12 DEF n

\* Owned pages stay what they are when no owning column changes.
LEMMA HeapSame ==
    ASSUME HeapInv, UNCHANGED <<heap, allocated, misfreed, cached>>,
           DOMAIN tables' \ cached = DOMAIN tables \ cached,
           \A u \in DOMAIN tables \ cached : tables'[u] = tables[u]
    PROVE  HeapInv'
<1>1. Owners' = Owners
  BY DEF Owners
<1>2. \A o \in Owners : Own(o)' = Own(o)
  BY DEF Owners, Own
<1>3. heap' = UNION {Own(o)' : o \in Owners'}
  <2>1. heap' = UNION {Own(o) : o \in Owners}
    BY DEF HeapInv
  <2> HIDE DEF Owners, Own
  <2> QED
    BY <1>1, <1>2, <2>1
<1>4. \A o, p \in Owners' : o # p => Own(o)' \intersect Own(p)' = {}
  BY <1>1, <1>2 DEF HeapInv
<1>5. heap' \subseteq {Memory!HeapPage(k) : k \in 1 .. allocated'} /\ allocated' \in Nat /\ misfreed' = FALSE
  BY DEF HeapInv
<1> QED
  BY <1>3, <1>4, <1>5 DEF HeapInv

\* New pages are nobody's but those of the column they are for.
LEMMA HeapGrows ==
    ASSUME HeapInv, NEW num \in Nat, NEW o, NEW pages, pages = {Memory!HeapPage(allocated + k) : k \in 1 .. num},
           heap' = heap \union pages, allocated' = allocated + num, UNCHANGED misfreed,
           Owners' = Owners \union {o},
           Own(o)' = (IF o \in Owners THEN Own(o) ELSE {}) \union pages,
           \A p \in Owners : p # o => Own(p)' = Own(p)
    PROVE  HeapInv'
<1>1. allocated \in Nat /\ allocated' \in Nat /\ misfreed' = FALSE
  BY DEF HeapInv
<1>2. \A page \in pages : page \notin heap
  <2>1. ASSUME NEW k \in 1 .. num, NEW j \in 1 .. allocated PROVE Memory!HeapPage(allocated + k) # Memory!HeapPage(j)
    BY <1>1 DEF Memory!HeapPage
  <2> QED
    BY <2>1 DEF HeapInv
<1>3. heap' \subseteq {Memory!HeapPage(k) : k \in 1 .. allocated'}
  <2>1. \A k \in 1 .. allocated : k \in 1 .. allocated'
    BY <1>1
  <2>2. \A k \in 1 .. num : allocated + k \in 1 .. allocated'
    BY <1>1
  <2> QED
    BY <2>1, <2>2 DEF HeapInv
<1> DEFINE old == IF o \in Owners THEN Own(o) ELSE {}
<1>4. heap = UNION {Own(p) : p \in Owners} /\ \A p, q \in Owners : p # q => Own(p) \intersect Own(q) = {}
  BY DEF HeapInv
<1>5. \A p \in Owners : Own(p) \subseteq heap
  BY <1>4
<1>6. heap' = UNION {Own(p)' : p \in Owners'}
  <2>1. ASSUME NEW page \in heap' PROVE \E p \in Owners' : page \in Own(p)'
    BY <1>4
  <2>2. ASSUME NEW p \in Owners', NEW page \in Own(p)' PROVE page \in heap'
    BY <1>5
  <2> QED
    BY <2>1, <2>2
<1>7. ASSUME NEW p \in Owners', NEW q \in Owners', p # q PROVE Own(p)' \intersect Own(q)' = {}
  <2>1. CASE p # o /\ q # o
    BY <1>4, <1>7, <2>1
  <2>2. CASE p = o
    <3>1. q # o /\ q \in Owners /\ Own(q)' = Own(q)
      BY <1>7, <2>2
    <3>2. Own(q) \intersect pages = {}
      BY <1>2, <1>5, <3>1
    <3>3. Own(q) \intersect old = {}
      BY <1>4, <3>1
    <3> QED
      BY <2>2, <3>1, <3>2, <3>3
  <2>3. CASE q = o
    <3>1. p # o /\ p \in Owners /\ Own(p)' = Own(p)
      BY <1>7, <2>3
    <3>2. Own(p) \intersect pages = {}
      BY <1>2, <1>5, <3>1
    <3>3. Own(p) \intersect old = {}
      BY <1>4, <3>1
    <3> QED
      BY <2>3, <3>1, <3>2, <3>3
  <2> QED
    BY <2>1, <2>2, <2>3
<1> QED
  BY <1>1, <1>3, <1>6, <1>7 DEF HeapInv

\* The memory as it is is one that columns can be destroyed in.
LEMMA MemoryIs ==
    ASSUME HeapInv
    PROVE  /\ Memory!Memory \in [heap : SUBSET PageName, mappings : {mappings}, misfreed : BOOLEAN]
           /\ Memory!Memory = [heap |-> heap, mappings |-> mappings, misfreed |-> FALSE]
<1>1. \A k \in 1 .. allocated : Memory!HeapPage(k) \in PageName
  BY DEF HeapInv, Memory!HeapPage, PageName, Mapping
<1>2. heap \in SUBSET PageName
  BY <1>1 DEF HeapInv
<1> QED
  BY <1>2 DEF HeapInv, Memory!Memory

\* A column is mapped.
LEMMA MappedLoad ==
    ASSUME MemoryInv, phase = "load", UNCHANGED <<phase, cached, plan>>, NEW t \in Names, t \in cached,
           LoadedColumns(t) < Len(Inputs[t].columns),
           Memory!AddMappedColumn(t, Places(t, LoadedColumns(t) + 1))
    PROVE  MemoryInv'
<1> DEFINE c == LoadedColumns(t) + 1
           v == Memory!VectorOf(t)
           column == MappedColumn(t, c)
           m == Memory!Grown(Memory!Memory, v)
           refs == IF t \in DOMAIN m.mappings THEN m.mappings[t] ELSE 0
<1>1. TablesInv /\ HeapInv /\ MappingsInv /\ PhaseInv
  BY DEF MemoryInv
<1>2. m = [heap |-> heap, mappings |-> mappings, misfreed |-> FALSE]
  BY <1>1, VectorIs, MemoryIs, GrownIs
<1>3. LoadedColumns(t) \in Nat /\ LoadedColumns(t) = IF t \in DOMAIN tables THEN Len(tables[t].columns) ELSE 0
  BY <1>1, LenProperties DEF LoadedColumns, TablesInv, Vector
<1>4. refs = LoadedColumns(t)
  BY <1>1, <1>2, <1>3 DEF MappingsInv
<1>5. /\ tables' = Memory!With(tables, t, Memory!EmplaceBack(v, column))
      /\ Memory!Become([m EXCEPT !.mappings = Memory!With(@, t, refs + 1)])
      /\ UNCHANGED allocated
  BY DEF Memory!AddMappedColumn, MappedColumn
<1>6. /\ heap' = heap /\ misfreed' = misfreed /\ allocated' = allocated
      /\ mappings' = Memory!With(mappings, t, LoadedColumns(t) + 1)
  <2>1. misfreed = FALSE
    BY <1>1 DEF HeapInv
  <2> HIDE DEF m, refs
  <2> QED
    BY <1>2, <1>4, <1>5, <2>1 DEF Memory!Become
<1>7. column \in MemoryColumn
  <2>1. \A k \in Places(t, c) : k \in Nat
    <3>1. t \in DOMAIN Inputs /\ Len(Inputs[t].columns) \in Nat
      BY PlanAssumption DEF Names
    <3>2. c - 1 \in 0 .. Len(Inputs[t].columns)
      BY <1>3, <3>1
    <3>3. PagesBefore(t, c - 1) \in Nat
      BY <3>2, PagesBeforeIs
    <3> QED
      BY <3>3 DEF Places
  <2>2. t \in Mapping
    BY DEF Mapping
  <2> QED
    BY <2>1, <2>2 DEF MappedColumn, Memory!MappedPage, MemoryColumn, PageName
<1> HIDE DEF column
<1>8. /\ TablesInv'
      /\ DOMAIN tables' = DOMAIN tables \union {t}
      /\ Len(tables'[t].columns) = LoadedColumns(t) + 1
      /\ \A u \in DOMAIN tables : u # t => tables'[u] = tables[u]
  BY <1>1, <1>5, <1>7, TablesGrow DEF column
<1>9. HeapInv'
  <2>1. DOMAIN tables' \ cached = DOMAIN tables \ cached
    BY <1>8
  <2>2. \A u \in DOMAIN tables \ cached : tables'[u] = tables[u]
    BY <1>8
  <2> QED
    BY <1>1, <1>6, <2>1, <2>2, HeapSame
<1>10. MappingsInv'
  <2> DEFINE all == [u \in cached \intersect DOMAIN tables |-> Len(tables[u].columns)]
  <2>1. mappings = all
    BY <1>1 DEF MappingsInv
  <2>2. mappings' = [u \in (cached \intersect DOMAIN tables) \union {t} |-> IF u = t THEN LoadedColumns(t) + 1 ELSE all[u]]
    BY <1>6, <2>1 DEF Memory!With
  <2>3. cached' \intersect DOMAIN tables' = (cached \intersect DOMAIN tables) \union {t}
    BY <1>8
  <2>4. \A u \in cached' \intersect DOMAIN tables' :
           Len(tables'[u].columns) = IF u = t THEN LoadedColumns(t) + 1 ELSE all[u]
    BY <1>8, <2>3
  <2> QED
    BY <2>2, <2>3, <2>4 DEF MappingsInv
<1>11. PhaseInv'
  BY <1>1, <1>8, NamesAre DEF PhaseInv
<1> QED
  BY <1>8, <1>9, <1>10, <1>11 DEF MemoryInv

\* A column gets pages of its own.
LEMMA OwnedLoad ==
    ASSUME MemoryInv, phase = "load", UNCHANGED <<phase, cached, plan>>, NEW t \in Names, t \notin cached,
           LoadedColumns(t) < Len(Inputs[t].columns), NEW num \in Nat,
           Memory!AddOwnedColumn(t, num)
    PROVE  MemoryInv'
<1> DEFINE c == LoadedColumns(t) + 1
           v == Memory!VectorOf(t)
           pages == {Memory!HeapPage(allocated + k) : k \in 1 .. num}
           column == [Memory!NewColumn EXCEPT !.pages = pages]
           m == Memory!Grown(Memory!Memory, v)
<1>1. TablesInv /\ HeapInv /\ MappingsInv /\ PhaseInv
  BY DEF MemoryInv
<1>2. m = [heap |-> heap, mappings |-> mappings, misfreed |-> FALSE]
  BY <1>1, VectorIs, MemoryIs, GrownIs
<1>3. LoadedColumns(t) \in Nat /\ LoadedColumns(t) = IF t \in DOMAIN tables THEN Len(tables[t].columns) ELSE 0
  BY <1>1, LenProperties DEF LoadedColumns, TablesInv, Vector
<1>4. /\ tables' = Memory!With(tables, t, Memory!EmplaceBack(v, column))
      /\ Memory!Become([m EXCEPT !.heap = @ \union pages])
      /\ allocated' = allocated + num
  BY DEF Memory!AddOwnedColumn
<1>5. heap' = heap \union pages /\ misfreed' = misfreed /\ mappings' = mappings
  <2>1. misfreed = FALSE
    BY <1>1 DEF HeapInv
  <2> HIDE DEF m
  <2> QED
    BY <1>2, <1>4, <2>1 DEF Memory!Become
<1>6. column = [pages |-> pages, mapped_memory |-> NoMapping] /\ column \in MemoryColumn
  <2>1. column = [pages |-> pages, mapped_memory |-> NoMapping]
    <3> HIDE DEF pages
    <3> QED
      BY DEF Memory!NewColumn
  <2>2. pages \in SUBSET PageName
    <3>1. \A k \in 1 .. num : allocated + k \in Nat
      BY <1>1 DEF HeapInv
    <3> QED
      BY <3>1 DEF Memory!HeapPage, PageName, Mapping
  <2> HIDE DEF column, pages
  <2> QED
    BY <2>1, <2>2 DEF MemoryColumn, Mapping
<1> HIDE DEF column
<1>7. /\ TablesInv'
      /\ DOMAIN tables' = DOMAIN tables \union {t}
      /\ Len(tables'[t].columns) = c
      /\ tables'[t].columns[c] = column
      /\ \A u \in DOMAIN tables : u # t => tables'[u] = tables[u]
      /\ \A d \in 1 .. LoadedColumns(t) : t \in DOMAIN tables /\ tables'[t].columns[d] = tables[t].columns[d]
  BY <1>1, <1>4, <1>6, TablesGrow
<1>8. HeapInv'
  <2>0. PICK o : o = <<t, c>>
    OBVIOUS
  <2>1. Owners' = Owners \union {o} /\ o \notin Owners
    <3>1. o \in Owners' /\ o \notin Owners
      BY <1>3, <1>7, <2>0 DEF Owners
    <3>2. ASSUME NEW p \in Owners PROVE p \in Owners'
      <4>1. CASE p[1] = t
        BY <1>3, <1>7, <4>1 DEF Owners
      <4>2. CASE p[1] # t
        BY <1>7, <4>2 DEF Owners
      <4> QED
        BY <4>1, <4>2
    <3>3. ASSUME NEW p \in Owners', p # o PROVE p \in Owners
      <4>1. p[1] \in DOMAIN tables' \ cached /\ p[2] \in Nat /\ p[2] \in 1 .. Len(tables'[p[1]].columns) /\ p = <<p[1], p[2]>>
        BY DEF Owners
      <4>2. CASE p[1] = t
        <5>1. p[2] \in 1 .. LoadedColumns(t)
          BY <1>3, <1>7, <2>0, <3>3, <4>1, <4>2
        <5> QED
          BY <1>3, <1>7, <4>1, <4>2, <5>1 DEF Owners
      <4>3. CASE p[1] # t
        BY <1>7, <4>1, <4>3 DEF Owners
      <4> QED
        BY <4>2, <4>3
    <3> QED
      BY <3>1, <3>2, <3>3
  <2>2. Own(o)' = pages
    <3> HIDE DEF pages
    <3> QED
      BY <1>6, <1>7, <2>0 DEF Own
  <2>3. ASSUME NEW p \in Owners, p # o PROVE Own(p)' = Own(p)
    <3>1. CASE p[1] = t
      BY <1>3, <1>7, <3>1 DEF Owners, Own
    <3>2. CASE p[1] # t
      BY <1>7, <3>2 DEF Owners, Own
    <3> QED
      BY <3>1, <3>2
  <2>4. pages = {Memory!HeapPage(allocated + k) : k \in 1 .. num}
    OBVIOUS
  <2>5. heap' = heap \union pages /\ allocated' = allocated + num /\ misfreed' = misfreed
    BY <1>4, <1>5
  <2>6. Own(o)' = (IF o \in Owners THEN Own(o) ELSE {}) \union pages
    BY <2>1, <2>2
  <2> HIDE DEF pages
  <2> QED
    BY <1>1, <2>1, <2>3, <2>4, <2>5, <2>6, HeapGrows
<1>9. MappingsInv'
  <2>1. cached' \intersect DOMAIN tables' = cached \intersect DOMAIN tables
    BY <1>7
  <2>2. \A u \in cached \intersect DOMAIN tables : tables'[u] = tables[u]
    BY <1>7
  <2>3. mappings' = mappings
    BY <1>5
  <2> QED
    BY <1>1, <2>1, <2>2, <2>3 DEF MappingsInv
<1>10. PhaseInv'
  BY <1>1, <1>7, NamesAre DEF PhaseInv
<1> QED
  BY <1>7, <1>8, <1>9, <1>10 DEF MemoryInv

\* Every node has attributes, and the root is a node.
LEMMA AttrsAre ==
    ASSUME plan \in Plans
    PROVE  /\ plan.root \in NodeIds /\ Len(plan.nodes) \in Nat
           /\ \A n \in NodeIds : /\ Attrs(n) \in Seq(Nat \X DOMAIN Values) /\ Len(Attrs(n)) \in Nat \ {0}
                                 /\ DOMAIN Attrs(n) = 1 .. Len(Attrs(n))
<1>1. WellFormed(plan)
  BY PlanAssumption
<1>2. /\ Len(plan.nodes) \in Nat /\ plan.root \in NodeIds
      /\ \A n \in NodeIds : Attrs(n) \in Seq(Nat \X DOMAIN Values) /\ Attrs(n) # <<>>
  BY <1>1 DEF WellFormed, NodeIds, Attrs, Node
<1>3. ASSUME NEW n \in NodeIds PROVE Len(Attrs(n)) \in Nat \ {0} /\ DOMAIN Attrs(n) = 1 .. Len(Attrs(n))
  BY <1>2, LenProperties
<1> QED
  BY <1>2, <1>3

\* The inputs stay complete while they stay as they are.
LEMMA LoadedSame ==
    ASSUME Loaded, \A t \in Names : t \in DOMAIN tables' <=> t \in DOMAIN tables,
           \A t \in Names \intersect DOMAIN tables : tables'[t] = tables[t]
    PROVE  Loaded'
BY DEF Loaded, LoadedColumns, Names

\* The output table gets its columns, which have no page yet.
LEMMA ColumnsReserved ==
    ASSUME MemoryInv, plan \in Plans, phase = "execute", phase' = "output", UNCHANGED <<cached, plan>>,
           Memory!ReserveColumns(OutputName, Len(Attrs(plan.root)))
    PROVE  MemoryInv'
<1> DEFINE w == Len(Attrs(plan.root))
           columns == [j \in 1 .. w |-> Memory!NewColumn]
           v == [columns |-> columns, capacity |-> w]
<1>1. TablesInv /\ HeapInv /\ MappingsInv /\ PhaseInv
  BY DEF MemoryInv
<1>2. w \in Nat \ {0} /\ Outputs = 1 .. w
  BY AttrsAre DEF Outputs
<1>3. Memory!NewColumn = [pages |-> {}, mapped_memory |-> NoMapping] /\ Memory!NewColumn \in MemoryColumn
  <2>1. Memory!NewColumn = [pages |-> {}, mapped_memory |-> NoMapping]
    BY DEF Memory!NewColumn
  <2> QED
    BY <2>1 DEF MemoryColumn, Mapping
<1>4. columns \in Seq(MemoryColumn) /\ Len(columns) = w /\ \A j \in 1 .. w : columns[j] = Memory!NewColumn
  <2>1. columns \in [1 .. w -> MemoryColumn]
    BY <1>3
  <2>2. \A j \in 1 .. w : columns[j] = Memory!NewColumn
    OBVIOUS
  <2> HIDE DEF columns
  <2> QED
    BY <1>2, <2>1, <2>2, SeqDef, LenProperties
<1>5. tables' = [y \in DOMAIN tables \union {OutputName} |-> IF y = OutputName THEN v ELSE tables[y]]
  BY DEF Memory!ReserveColumns, Memory!With
<1>6. UNCHANGED <<heap, allocated, mappings, misfreed>>
  BY DEF Memory!ReserveColumns
<1>7. OutputName \notin DOMAIN tables /\ OutputName \notin cached /\ OutputName \notin Names /\ cached \subseteq Names
  BY <1>1, NamesAre DEF PhaseInv
<1> HIDE DEF w, columns, Outputs
<1>8. v \in Vector /\ v.columns = columns
  BY <1>2, <1>4 DEF Vector
<1> HIDE DEF v
<1>9. /\ DOMAIN tables' = DOMAIN tables \union {OutputName} /\ tables'[OutputName] = v
      /\ \A u \in DOMAIN tables : u # OutputName /\ tables'[u] = tables[u]
  BY <1>5, <1>7
<1>10. TablesInv'
  <2>1. tables' \in [DOMAIN tables' -> Vector]
    BY <1>1, <1>5, <1>8 DEF TablesInv
  <2>2. \A u \in DOMAIN tables' \ {OutputName} : u \in DOMAIN tables
    BY <1>9
  <2>3. \A u, c : MappedColumn(u, c)' = MappedColumn(u, c)
    BY DEF MappedColumn, Places
  <2>4. ASSUME NEW u \in DOMAIN tables', NEW c \in 1 .. Len(tables'[u].columns)
        PROVE  IF u \in cached THEN tables'[u].columns[c] = MappedColumn(u, c)
                               ELSE tables'[u].columns[c].mapped_memory = NoMapping
    <3>1. CASE u = OutputName
      <4>1. c \in 1 .. w /\ tables'[u].columns = columns
        BY <1>4, <1>8, <1>9, <3>1
      <4>2. columns[c].mapped_memory = NoMapping
        BY <1>3, <1>4, <4>1
      <4> QED
        BY <1>7, <3>1, <4>1, <4>2
    <3>2. CASE u # OutputName
      BY <1>1, <1>9, <3>2 DEF TablesInv
    <3> QED
      BY <3>1, <3>2
  <2>5. \A u \in DOMAIN tables' \ {OutputName} :
           tables'[u].columns # <<>> /\ Len(tables'[u].columns) <= Len(Inputs[u].columns)
    BY <1>1, <1>9 DEF TablesInv
  <2>6. DOMAIN tables' \subseteq Names \union {OutputName}
    BY <1>1, <1>9 DEF TablesInv
  <2> QED
    BY <2>1, <2>3, <2>4, <2>5, <2>6 DEF TablesInv
<1>11. HeapInv'
  <2> DEFINE New == {o \in {OutputName} \X Nat : o[2] \in 1 .. w}
  <2>1. Owners' = Owners \union New /\ Owners \intersect New = {}
    <3>1. ASSUME NEW o \in Owners' PROVE o \in Owners \union New
      BY <1>4, <1>8, <1>9 DEF Owners
    <3>2. ASSUME NEW o \in Owners \union New PROVE o \in Owners'
      <4>1. CASE o \in Owners
        BY <1>9, <4>1 DEF Owners
      <4>2. CASE o \in New
        BY <1>4, <1>7, <1>8, <1>9, <4>2 DEF Owners
      <4> QED
        BY <4>1, <4>2
    <3>3. Owners \intersect New = {}
      BY <1>7 DEF Owners
    <3> QED
      BY <3>1, <3>2, <3>3
  <2>2. \A o \in Owners : Own(o)' = Own(o)
    BY <1>9 DEF Owners, Own
  <2>3. ASSUME NEW o \in New PROVE Own(o)' = {}
    <3>1. o[1] = OutputName /\ o[2] \in 1 .. w
      OBVIOUS
    <3> QED
      BY <1>3, <1>4, <1>8, <1>9, <3>1 DEF Own
  <2> HIDE DEF New
  <2>4. heap = UNION {Own(p) : p \in Owners} /\ \A p, q \in Owners : p # q => Own(p) \intersect Own(q) = {}
    BY <1>1 DEF HeapInv
  <2>5. heap' = UNION {Own(p)' : p \in Owners'}
    <3>1. ASSUME NEW page \in heap' PROVE \E p \in Owners' : page \in Own(p)'
      BY <1>6, <2>1, <2>2, <2>4
    <3>2. ASSUME NEW p \in Owners', NEW page \in Own(p)' PROVE page \in heap'
      BY <1>6, <2>1, <2>2, <2>3, <2>4
    <3> QED
      BY <3>1, <3>2
  <2>6. \A p, q \in Owners' : p # q => Own(p)' \intersect Own(q)' = {}
    BY <2>1, <2>2, <2>3, <2>4
  <2> QED
    BY <1>1, <1>6, <2>5, <2>6 DEF HeapInv
<1>12. MappingsInv'
  <2>1. cached' \intersect DOMAIN tables' = cached \intersect DOMAIN tables
    BY <1>7, <1>9
  <2>2. \A u \in cached \intersect DOMAIN tables : tables'[u] = tables[u]
    BY <1>9
  <2> QED
    BY <1>1, <1>6, <2>1, <2>2 DEF MappingsInv
<1>13. PhaseInv'
  <2>1. Outputs' = Outputs
    BY DEF Outputs, Attrs, Node
  <2>2. DOMAIN columns = 1 .. w
    BY DEF columns
  <2> QED
    <3>1. Loaded'
      BY <1>1, <1>7, <1>9, LoadedSame DEF PhaseInv
    <3> QED
      BY <1>1, <1>2, <1>8, <1>9, <2>1, <2>2, <3>1 DEF PhaseInv
<1> QED
  BY <1>10, <1>11, <1>12, <1>13 DEF MemoryInv

\* An output column gets a page.
LEMMA PageAdded ==
    ASSUME MemoryInv, plan \in Plans, phase = "output", UNCHANGED <<phase, cached, plan>>, NEW j \in Outputs,
           Memory!NewPage(OutputName, j)
    PROVE  MemoryInv'
<1> DEFINE v == tables[OutputName]
           page == Memory!HeapPage(allocated + 1)
<1>1. TablesInv /\ HeapInv /\ MappingsInv /\ PhaseInv
  BY DEF MemoryInv
<1>2. OutputName \in DOMAIN tables /\ OutputName \notin cached /\ DOMAIN v.columns = Outputs /\ v \in Vector
  BY <1>1, NamesAre DEF PhaseInv, TablesInv
<1>3. v.columns \in Seq(MemoryColumn) /\ DOMAIN v.columns = 1 .. Len(v.columns) /\ Len(v.columns) \in Nat
      /\ \A k \in DOMAIN v.columns : v.columns[k] \in MemoryColumn
  BY <1>2, LenProperties, ElementOfSeq DEF Vector
<1>4. j \in 1 .. Len(v.columns) /\ j \in Nat
  BY <1>2, <1>3
<1> DEFINE column == [v.columns[j] EXCEPT !.pages = @ \union {page}]
           w == [v EXCEPT !.columns = [v.columns EXCEPT ![j] = column]]
<1>5. tables' = [tables EXCEPT ![OutputName] = w] /\ heap' = heap \union {page}
      /\ allocated' = allocated + 1 /\ mappings' = mappings /\ misfreed' = misfreed
  BY DEF Memory!NewPage
<1>6. column \in MemoryColumn /\ column.pages = v.columns[j].pages \union {page}
      /\ column.mapped_memory = v.columns[j].mapped_memory
  <2>1. page \in PageName
    BY <1>1 DEF HeapInv, Memory!HeapPage, PageName, Mapping
  <2>2. v.columns[j] \in MemoryColumn
    BY <1>3, <1>4
  <2> HIDE DEF page
  <2> QED
    BY <2>1, <2>2 DEF MemoryColumn
<1> HIDE DEF column
<1>7. /\ w \in Vector /\ DOMAIN w.columns = DOMAIN v.columns /\ Len(w.columns) = Len(v.columns)
      /\ w.columns[j] = column /\ \A k \in DOMAIN v.columns : k # j => w.columns[k] = v.columns[k]
  <2> DEFINE new == [v.columns EXCEPT ![j] = column]
  <2>1. v.columns \in [1 .. Len(v.columns) -> MemoryColumn]
    BY <1>3
  <2>2. new \in [1 .. Len(v.columns) -> MemoryColumn]
    BY <1>6, <2>1
  <2>3. new \in Seq(MemoryColumn) /\ DOMAIN new = 1 .. Len(v.columns)
    BY <1>3, <2>2, SeqDef
  <2>4. Len(new) = Len(v.columns)
    BY <1>3, <2>3, LenProperties
  <2>5. new[j] = column /\ \A k \in DOMAIN v.columns : k # j => new[k] = v.columns[k]
    BY <1>3, <1>4
  <2> HIDE DEF new
  <2>6. w.columns = new /\ w \in Vector
    BY <1>2, <2>3 DEF Vector, new
  <2> QED
    BY <1>3, <2>3, <2>4, <2>5, <2>6
<1> HIDE DEF w
<1>8. /\ DOMAIN tables' = DOMAIN tables /\ tables'[OutputName] = w
      /\ \A u \in DOMAIN tables : u # OutputName => tables'[u] = tables[u]
      /\ tables' \in [DOMAIN tables -> Vector]
  BY <1>1, <1>2, <1>5, <1>7 DEF TablesInv
<1>9. TablesInv'
  <2>1. \A u, c : MappedColumn(u, c)' = MappedColumn(u, c)
    BY DEF MappedColumn, Places
  <2>2. ASSUME NEW u \in DOMAIN tables', NEW c \in 1 .. Len(tables'[u].columns)
        PROVE  IF u \in cached THEN tables'[u].columns[c] = MappedColumn(u, c)
                               ELSE tables'[u].columns[c].mapped_memory = NoMapping
    <3>1. CASE u = OutputName
      <4>1. c \in 1 .. Len(v.columns) /\ v.columns[c].mapped_memory = NoMapping
        BY <1>1, <1>2, <1>7, <1>8, <3>1 DEF TablesInv
      <4>2. w.columns[c].mapped_memory = NoMapping
        BY <1>3, <1>6, <1>7, <4>1
      <4> QED
        BY <1>2, <1>8, <3>1, <4>2
    <3>2. CASE u # OutputName
      BY <1>1, <1>8, <3>2 DEF TablesInv
    <3> QED
      BY <3>1, <3>2
  <2>3. \A u \in DOMAIN tables' \ {OutputName} :
           tables'[u].columns # <<>> /\ Len(tables'[u].columns) <= Len(Inputs[u].columns)
    BY <1>1, <1>8 DEF TablesInv
  <2>4. DOMAIN tables' \subseteq Names \union {OutputName}
    BY <1>1, <1>8 DEF TablesInv
  <2> QED
    BY <1>8, <2>1, <2>2, <2>3, <2>4 DEF TablesInv
<1>10. HeapInv'
  <2>1. PICK o : o = <<OutputName, j>>
    OBVIOUS
  <2>2. o \in Owners
    BY <1>2, <1>4, <2>1 DEF Owners
  <2>3. Owners' = Owners
    <3>1. \A u \in DOMAIN tables : Len(tables'[u].columns) = Len(tables[u].columns)
      BY <1>7, <1>8
    <3> QED
      BY <1>8, <3>1 DEF Owners
  <2>4. Own(o)' = Own(o) \union {page}
    BY <1>6, <1>7, <1>8, <2>1 DEF Own
  <2>5. ASSUME NEW p \in Owners, p # o PROVE Own(p)' = Own(p)
    <3>1. p = <<p[1], p[2]>> /\ p[1] \in DOMAIN tables /\ p[2] \in 1 .. Len(tables[p[1]].columns)
      BY DEF Owners
    <3>2. CASE p[1] = OutputName
      <4>1. p[2] # j /\ p[2] \in DOMAIN v.columns
        BY <1>3, <2>1, <2>5, <3>1, <3>2
      <4> QED
        BY <1>7, <1>8, <3>1, <3>2, <4>1 DEF Own
    <3>3. CASE p[1] # OutputName
      BY <1>8, <3>1, <3>3 DEF Own
    <3> QED
      BY <3>2, <3>3
  <2>6. {page} = {Memory!HeapPage(allocated + k) : k \in 1 .. 1}
    OBVIOUS
  <2> HIDE DEF page
  <2>7. Owners' = Owners \union {o} /\ Own(o)' = (IF o \in Owners THEN Own(o) ELSE {}) \union {page}
    BY <2>2, <2>3, <2>4
  <2>8. 1 \in Nat
    OBVIOUS
  <2> QED
    BY <1>1, <1>5, <2>5, <2>6, <2>7, <2>8, HeapGrows
<1>11. MappingsInv'
  <2>1. \A u \in cached \intersect DOMAIN tables : tables'[u] = tables[u]
    BY <1>2, <1>8
  <2> QED
    BY <1>1, <1>5, <1>8, <2>1 DEF MappingsInv
<1>12. PhaseInv'
  <2>1. Outputs' = Outputs
    BY DEF Outputs, Attrs, Node
  <2> QED
    <3>1. Loaded'
      BY <1>1, <1>8, NamesAre, LoadedSame DEF PhaseInv
    <3> QED
      BY <1>1, <1>2, <1>7, <1>8, <2>1, <3>1 DEF PhaseInv
<1> QED
  BY <1>9, <1>10, <1>11, <1>12 DEF MemoryInv

\* A table goes, with the pages it owns or with its mapping.
LEMMA TableDestroyed ==
    ASSUME MemoryInv, phase = "destroy", UNCHANGED <<phase, cached, plan>>, NEW t \in DOMAIN tables,
           Memory!DestroyTable(t)
    PROVE  MemoryInv'
<1> DEFINE columns == tables[t].columns
           n == Len(columns)
           m == Memory!AllDestroyed(Memory!Memory, columns)
<1>1. TablesInv /\ HeapInv /\ MappingsInv /\ PhaseInv
  BY DEF MemoryInv
<1>2. /\ tables' = [u \in DOMAIN tables \ {t} |-> tables[u]] /\ allocated' = allocated
      /\ heap' = m.heap /\ mappings' = m.mappings /\ misfreed' = m.misfreed
  BY DEF Memory!DestroyTable, Memory!Without, Memory!Become
<1>3. /\ DOMAIN tables' = DOMAIN tables \ {t}
      /\ \A u \in DOMAIN tables' : tables'[u] = tables[u]
  BY <1>2
<1>4. columns \in Seq(MemoryColumn) /\ n \in Nat
  BY <1>1, LenProperties DEF TablesInv, Vector
<1>5. Memory!Memory = [heap |-> heap, mappings |-> mappings, misfreed |-> FALSE]
  BY <1>1, MemoryIs
<1> HIDE DEF m
<1>6. TablesInv'
  <2>1. \A u, c : MappedColumn(u, c)' = MappedColumn(u, c)
    BY DEF MappedColumn, Places
  <2>2. tables' \in [DOMAIN tables' -> Vector] /\ DOMAIN tables' \subseteq Names \union {OutputName}
    BY <1>1, <1>2 DEF TablesInv
  <2>3. \A u \in DOMAIN tables' \ {OutputName} :
           tables'[u].columns # <<>> /\ Len(tables'[u].columns) <= Len(Inputs[u].columns)
    BY <1>1, <1>3 DEF TablesInv
  <2>4. \A u \in DOMAIN tables' : \A c \in 1 .. Len(tables'[u].columns) :
           IF u \in cached THEN tables'[u].columns[c] = MappedColumn(u, c)
                           ELSE tables'[u].columns[c].mapped_memory = NoMapping
    BY <1>1, <1>3 DEF TablesInv
  <2> QED
    BY <2>1, <2>2, <2>3, <2>4 DEF TablesInv
<1>7. PhaseInv'
  BY <1>1 DEF PhaseInv
<1>8. CASE t \in cached
  <2>1. \A c \in 1 .. n : columns[c].mapped_memory = t
    <3>1. \A c \in 1 .. n : columns[c] = MappedColumn(t, c)
      BY <1>1, <1>8 DEF TablesInv
    <3>2. \A c : MappedColumn(t, c).mapped_memory = t
      BY DEF MappedColumn
    <3> QED
      BY <3>1, <3>2
  <2>2. t \in Names /\ t # NoMapping /\ t # OutputName
    BY <1>1, <1>8, NamesAre DEF PhaseInv
  <2>3. n # 0
    <3>1. columns # <<>>
      BY <1>1, <2>2 DEF TablesInv
    <3> QED
      BY <1>4, <3>1, EmptySeq
  <2>4. /\ t \in DOMAIN mappings /\ IsMap(mappings)
        /\ mappings[t] = n /\ DOMAIN mappings = cached \intersect DOMAIN tables
    BY <1>1, <1>8 DEF MappingsInv, IsMap
  <2>5. m = [heap |-> heap, mappings |-> Memory!Without(mappings, t), misfreed |-> FALSE]
    <3>1. n = Len(columns) /\ m = Memory!AllDestroyed([heap |-> heap, mappings |-> mappings, misfreed |-> FALSE], columns)
      BY <1>5 DEF m
    <3> HIDE DEF columns, n
    <3> QED
      BY <1>4, <2>1, <2>2, <2>3, <2>4, <3>1, MappedDestroyed
  <2>6. heap' = heap /\ misfreed' = misfreed /\ mappings' = [u \in DOMAIN mappings \ {t} |-> mappings[u]]
    BY <1>1, <1>2, <2>5 DEF HeapInv, Memory!Without
  <2>7. HeapInv'
    <3>1. DOMAIN tables' \ cached = DOMAIN tables \ cached
      BY <1>3, <1>8
    <3>2. \A u \in DOMAIN tables \ cached : tables'[u] = tables[u]
      BY <1>3, <1>8
    <3> QED
      BY <1>1, <1>2, <2>6, <3>1, <3>2, HeapSame
  <2>8. MappingsInv'
    <3>1. cached' \intersect DOMAIN tables' = DOMAIN mappings \ {t}
      BY <1>3, <2>4
    <3>2. \A u \in DOMAIN mappings \ {t} : mappings[u] = Len(tables'[u].columns)
      BY <1>1, <1>3, <2>4 DEF MappingsInv
    <3> QED
      BY <2>6, <3>1, <3>2 DEF MappingsInv
  <2> QED
    BY <1>6, <1>7, <2>7, <2>8 DEF MemoryInv
<1>9. CASE t \notin cached
  <2>1. ASSUME NEW c \in 1 .. n PROVE <<t, c>> \in Owners /\ Own(<<t, c>>) = columns[c].pages
    BY <1>4, <1>9 DEF Owners, Own
  <2>2. /\ heap = UNION {Own(p) : p \in Owners} /\ \A p, q \in Owners : p # q => Own(p) \intersect Own(q) = {}
    BY <1>1 DEF HeapInv
  <2>3. \A c \in 1 .. n : columns[c].mapped_memory = NoMapping /\ columns[c].pages \subseteq heap
    <3>1. \A c \in 1 .. n : columns[c].mapped_memory = NoMapping
      BY <1>1, <1>9 DEF TablesInv
    <3>2. \A c \in 1 .. n : Own(<<t, c>>) \subseteq heap
      BY <2>1, <2>2
    <3> QED
      BY <2>1, <3>1, <3>2
  <2>4. ASSUME NEW c \in 1 .. n, NEW d \in 1 .. n, c # d PROVE columns[c].pages \intersect columns[d].pages = {}
    <3>1. <<t, c>> # <<t, d>>
      BY <2>4
    <3> QED
      BY <2>1, <2>2, <3>1
  <2>5. m = [heap |-> heap \ PagesUpTo(columns, n), mappings |-> mappings, misfreed |-> FALSE]
    BY <1>4, <1>5, <2>3, <2>4, OwnedDestroyed DEF m
  <2>6. heap' = heap \ PagesUpTo(columns, n) /\ misfreed' = FALSE /\ mappings' = mappings
    BY <1>2, <2>5
  <2>7. ASSUME NEW p PROVE p \in Owners' <=> p \in Owners /\ p[1] # t
    BY <1>3 DEF Owners
  <2>8. \A p \in Owners' : Own(p)' = Own(p)
    <3>1. ASSUME NEW p \in Owners' PROVE Own(p)' = Own(p)
      <4>1. p[1] \in DOMAIN tables'
        BY DEF Owners
      <4> QED
        BY <1>3, <4>1 DEF Own
    <3> QED
      BY <3>1
  <2>9. ASSUME NEW p \in Owners, p[1] = t PROVE p[2] \in 1 .. n /\ Own(p) = columns[p[2]].pages
    BY <2>9 DEF Owners, Own
  <2>10. ASSUME NEW p \in Owners, p[1] # t PROVE Own(p) \intersect PagesUpTo(columns, n) = {}
    <3>1. ASSUME NEW c \in 1 .. n PROVE Own(p) \intersect columns[c].pages = {}
      <4>1. p # <<t, c>>
        BY <2>10
      <4> QED
        BY <2>1, <2>2, <4>1
    <3> QED
      BY <3>1 DEF PagesUpTo
  <2> HIDE DEF columns, n
  <2>11. heap' = UNION {Own(p)' : p \in Owners'}
    <3>1. ASSUME NEW page \in heap' PROVE \E p \in Owners' : page \in Own(p)'
      <4>1. page \in heap /\ page \notin PagesUpTo(columns, n)
        BY <2>6
      <4>2. PICK p \in Owners : page \in Own(p)
        BY <2>2, <4>1
      <4>3. p[1] # t
        BY <2>9, <4>1, <4>2 DEF PagesUpTo
      <4> QED
        BY <2>7, <2>8, <4>2, <4>3
    <3>2. ASSUME NEW p \in Owners', NEW page \in Own(p)' PROVE page \in heap'
      <4>1. p \in Owners /\ p[1] # t /\ page \in Own(p)
        BY <2>7, <2>8
      <4>2. page \in heap
        BY <2>2, <4>1
      <4> QED
        BY <2>6, <2>10, <4>1, <4>2
    <3> QED
      BY <3>1, <3>2
  <2>12. \A p, q \in Owners' : p # q => Own(p)' \intersect Own(q)' = {}
    BY <2>2, <2>7, <2>8
  <2>13. HeapInv'
    <3>1. heap' \subseteq {Memory!HeapPage(k) : k \in 1 .. allocated'} /\ allocated' \in Nat
      BY <1>1, <1>2, <2>6 DEF HeapInv
    <3> QED
      BY <2>6, <2>11, <2>12, <3>1 DEF HeapInv
  <2>14. MappingsInv'
    <3>1. cached' \intersect DOMAIN tables' = cached \intersect DOMAIN tables
      BY <1>3, <1>9
    <3>2. \A u \in cached \intersect DOMAIN tables : tables'[u] = tables[u]
      BY <1>3, <1>9
    <3> QED
      BY <1>1, <2>6, <3>1, <3>2 DEF MappingsInv
  <2> QED
    BY <1>6, <1>7, <2>13, <2>14 DEF MemoryInv
<1> QED
  BY <1>8, <1>9

\* What the memory is depends on it alone, but for what is known of the output.
LEMMA MemorySame ==
    ASSUME MemoryInv, UNCHANGED <<cached, memoryVars>>, PhaseInv'
    PROVE  MemoryInv'
<1>1. UNCHANGED <<cached, tables, heap, allocated, mappings, misfreed>>
  BY DEF memoryVars
<1>2. TablesInv'
  <2>1. TablesInv
    BY DEF MemoryInv
  <2>2. \A u, c : MappedColumn(u, c)' = MappedColumn(u, c)
    BY DEF MappedColumn, Places
  <2> QED
    BY <1>1, <2>1, <2>2 DEF TablesInv
<1>3. HeapInv'
  BY <1>1, HeapSame DEF MemoryInv
<1>4. MappingsInv'
  BY <1>1 DEF MemoryInv, MappingsInv
<1> QED
  BY <1>2, <1>3, <1>4 DEF MemoryInv

\* While not all is loaded, the first incomplete table is an input that lacks a column.
LEMMA FirstIncomplete ==
    ASSUME MemoryInv, ~ Loaded
    PROVE  LET t == Min({u \in Names : LoadedColumns(u) < Len(Inputs[u].columns)})
           IN  t \in Names /\ LoadedColumns(t) < Len(Inputs[t].columns) /\ LoadedColumns(t) \in Nat
<1> DEFINE T == {u \in Names : LoadedColumns(u) < Len(Inputs[u].columns)}
<1>1. TablesInv
  BY DEF MemoryInv
<1>2. ASSUME NEW u \in Names
      PROVE  /\ LoadedColumns(u) \in Nat /\ Len(Inputs[u].columns) \in Nat
             /\ LoadedColumns(u) <= Len(Inputs[u].columns)
  <2>1. Len(Inputs[u].columns) \in Nat /\ u # OutputName
    BY PlanAssumption, NamesAre DEF Names
  <2>2. CASE u \in DOMAIN tables
    BY <1>1, <2>1, <2>2, LenProperties DEF LoadedColumns, TablesInv, Vector
  <2>3. CASE u \notin DOMAIN tables
    BY <2>1, <2>3 DEF LoadedColumns
  <2> QED
    BY <2>1, <2>2, <2>3
<1>3. T # {}
  <2>1. PICK u \in Names : LoadedColumns(u) # Len(Inputs[u].columns)
    BY DEF Loaded
  <2> QED
    BY <1>2, <2>1
<1>4. T \in SUBSET Nat
  BY NamesAre
<1>5. Min(T) \in T
  <2> HIDE DEF T
  <2>1. \E x \in T : \A y \in T : x <= y
    BY <1>3, <1>4, Least
  <2> QED
    BY <2>1 DEF Min
<1> QED
  BY <1>2, <1>5

\* The memory of the columns at the start, and after every step.
LEMMA MemoryStart ==
    ASSUME QueryInit
    PROVE  MemoryInv /\ plan \in Plans
<1>1. plan \in Plans /\ phase = "load" /\ cached \in SUBSET Names
  BY DEF QueryInit, ExecInit
<1>2. tables = << >> /\ heap = {} /\ allocated = 0 /\ mappings = << >> /\ misfreed = FALSE
  BY DEF QueryInit, Memory!MemoryInit
<1>3. DOMAIN tables = {} /\ tables = [t \in {} |-> 0] /\ mappings = [t \in {} |-> 0]
  BY <1>2
<1>4. TablesInv
  BY <1>3 DEF TablesInv
<1>5. HeapInv
  <2>1. Owners = {}
    BY <1>3 DEF Owners
  <2> QED
    BY <1>2, <2>1 DEF HeapInv
<1>6. MappingsInv
  BY <1>3 DEF MappingsInv
<1>7. PhaseInv
  BY <1>1, <1>3 DEF PhaseInv
<1> QED
  BY <1>1, <1>4, <1>5, <1>6, <1>7 DEF MemoryInv

LEMMA MemoryStep ==
    ASSUME MemoryInv, plan \in Plans, [QueryNext]_queryVars
    PROVE  MemoryInv' /\ plan' \in Plans
<1>0. PhaseInv
  BY DEF MemoryInv
<1>1. CASE Load
  <2>1. phase = "load" /\ UNCHANGED <<cached, plan>>
    BY <1>1 DEF Load, execVars
  <2>2. CASE Loaded
    <3>1. UNCHANGED memoryVars /\ phase' = "execute"
      BY <1>1, <2>2 DEF Load
    <3>2. tables' = tables
      BY <3>1 DEF memoryVars
    <3>3. PhaseInv'
      BY <1>0, <2>1, <2>2, <3>1, <3>2, LoadedSame DEF PhaseInv
    <3> QED
      BY <2>1, <3>1, <3>3, MemorySame
  <2>3. CASE ~ Loaded
    <3> DEFINE t == Min({u \in Names : LoadedColumns(u) < Len(Inputs[u].columns)})
               c == LoadedColumns(t)
    <3>1. t \in Names /\ c < Len(Inputs[t].columns) /\ c \in Nat
      BY <2>3, FirstIncomplete
    <3>2. /\ phase' = phase
          /\ IF t \in cached
             THEN Memory!AddMappedColumn(t, (PagesBefore(t, c) + 1) .. PagesBefore(t, c + 1))
             ELSE Memory!AddOwnedColumn(t, Len(Inputs[t].columns[c + 1].pages))
      BY <1>1, <2>3 DEF Load
    <3> HIDE DEF t
    <3>3. CASE t \in cached
      <4>1. (c + 1) - 1 = c
        BY <3>1
      <4>2. Memory!AddMappedColumn(t, Places(t, c + 1))
        BY <3>2, <3>3, <4>1 DEF Places
      <4> QED
        BY <2>1, <3>1, <3>2, <3>3, <4>2, MappedLoad
    <3>4. CASE t \notin cached
      <4>1. Len(Inputs[t].columns[c + 1].pages) \in Nat
        <5>1. t \in DOMAIN Inputs /\ DOMAIN Inputs[t].columns = 1 .. Len(Inputs[t].columns) /\ Len(Inputs[t].columns) \in Nat
          BY <3>1, PlanAssumption DEF Names
        <5>2. c + 1 \in DOMAIN Inputs[t].columns
          BY <3>1, <5>1
        <5>3. WellFormedColumn(Inputs[t].columns[c + 1], Inputs[t].num_rows)
          BY <5>1, <5>2, PlanAssumption
        <5> QED
          BY <5>3, LenProperties DEF WellFormedColumn
      <4> QED
        BY <2>1, <3>1, <3>2, <3>4, <4>1, OwnedLoad
    <3> QED
      BY <2>1, <3>3, <3>4
  <2> QED
    BY <2>2, <2>3
<1>2. CASE Execute
  <2>1. phase = "execute" /\ cached' = cached /\ plan' = plan
    BY <1>2 DEF Execute, ExecuteNode, ExecuteScan, ExecuteJoin, execVars
  <2>2. CASE plan.root \notin DOMAIN result
    <3>1. UNCHANGED <<phase, memoryVars>>
      BY <1>2, <2>2 DEF Execute
    <3>2. tables' = tables
      BY <3>1 DEF memoryVars
    <3>3. PhaseInv'
      BY <1>0, <2>1, <2>2, <3>1, <3>2, LoadedSame DEF PhaseInv
    <3> QED
      BY <2>1, <3>1, <3>3, MemorySame
  <2>3. CASE plan.root \in DOMAIN result
    <3>1. Memory!ReserveColumns(OutputName, Len(Attrs(plan.root))) /\ phase' = "output"
      BY <1>2, <2>3 DEF Execute
    <3> QED
      BY <2>1, <3>1, ColumnsReserved
  <2> QED
    BY <2>2, <2>3
<1>3. CASE Output
  <2>1. phase = "output" /\ cached' = cached
    BY <1>3 DEF Output
  <2>2. CASE Executed
    <3>1. phase' = "destroy" /\ plan' = plan /\ UNCHANGED memoryVars
      BY <1>3, <2>2 DEF Output, execVars
    <3>2. PhaseInv'
      BY <1>0, <2>1, <3>1 DEF PhaseInv
    <3> QED
      BY <2>1, <3>1, <3>2, MemorySame
  <2>3. CASE ~ Executed
    <3>1. PICK j \in Outputs : /\ OutputStep(j) /\ phase' = phase
                               /\ IF filled[j] = 0 THEN Memory!NewPage(OutputName, j) ELSE UNCHANGED memoryVars
      BY <1>3, <2>3 DEF Output
    <3>2. plan' = plan
      BY <3>1 DEF OutputStep
    <3>3. CASE filled[j] = 0
      BY <2>1, <3>1, <3>2, <3>3, PageAdded
    <3>4. CASE filled[j] # 0
      <4>1. UNCHANGED memoryVars
        BY <3>1, <3>4
      <4>2. tables' = tables
        BY <4>1 DEF memoryVars
      <4>3. Outputs' = Outputs
        BY <3>2 DEF Outputs, Attrs, Node
      <4>4. PhaseInv'
        BY <1>0, <2>1, <3>1, <4>2, <4>3, LoadedSame DEF PhaseInv
      <4> QED
        BY <2>1, <3>2, <4>1, <4>4, MemorySame
    <3> QED
      BY <3>2, <3>3, <3>4
  <2> QED
    BY <2>2, <2>3
<1>4. CASE Destroy
  <2>1. /\ phase = "destroy" /\ UNCHANGED <<phase, cached, plan>>
        /\ \E t \in DOMAIN tables : Memory!DestroyTable(t)
    BY <1>4 DEF Destroy, execVars
  <2> QED
    BY <2>1, TableDestroyed
<1>5. CASE UNCHANGED queryVars
  <2>1. UNCHANGED <<phase, cached, memoryVars, plan, tables>>
    BY <1>5 DEF queryVars, memoryVars, execVars
  <2>2. Outputs' = Outputs
    BY <2>1 DEF Outputs, Attrs, Node
  <2>3. PhaseInv'
    BY <1>0, <2>1, <2>2, LoadedSame DEF PhaseInv
  <2> QED
    BY <2>1, <2>3, MemorySame
<1> QED
  BY <1>1, <1>2, <1>3, <1>4, <1>5 DEF QueryNext, QueryDone

-----------------------------------------------------------------------------
(* What MemoryInv says of the pages. *)

\* A column's pages stand behind those of the columns before it.
LEMMA PlacesApart ==
    ASSUME NEW t \in Names, NEW c \in 1 .. Len(Inputs[t].columns), NEW d \in 1 .. Len(Inputs[t].columns), c < d
    PROVE  Places(t, c) \intersect Places(t, d) = {}
<1> DEFINE w == Len(Inputs[t].columns)
           T == {i \in 0 .. (d - 1 - c) : PagesBefore(t, c) <= PagesBefore(t, c + i)}
<1>1. w \in Nat /\ c \in Nat /\ d \in Nat /\ d <= w /\ d - 1 - c \in Nat
  BY PlanAssumption DEF Names
<1>2. /\ \A i \in 0 .. w : PagesBefore(t, i) \in Nat
      /\ \A i \in 1 .. w : PagesBefore(t, i) = PagesBefore(t, i - 1) + Len(Inputs[t].columns[i].pages)
  BY PagesBeforeIs
<1>3. 0 \in T
  <2>1. c + 0 = c /\ c \in 0 .. w
    BY <1>1
  <2> QED
    BY <1>1, <1>2, <2>1
<1>4. ASSUME NEW i \in 1 .. (d - 1 - c), i - 1 \in T PROVE i \in T
  <2>1. c + i \in 1 .. w /\ c + (i - 1) = (c + i) - 1 /\ (c + i) - 1 \in 0 .. w /\ c \in 0 .. w
    BY <1>1
  <2>2. Len(Inputs[t].columns[c + i].pages) \in Nat
    <3>1. WellFormedColumn(Inputs[t].columns[c + i], Inputs[t].num_rows)
      BY <2>1, PlanAssumption DEF Names
    <3> QED
      BY <3>1, LenProperties DEF WellFormedColumn
  <2>3. PagesBefore(t, c) <= PagesBefore(t, c + (i - 1))
    BY <1>4
  <2>4. PagesBefore(t, c + i) = PagesBefore(t, c + (i - 1)) + Len(Inputs[t].columns[c + i].pages)
    BY <1>2, <2>1
  <2>5. PagesBefore(t, c) \in Nat /\ PagesBefore(t, c + (i - 1)) \in Nat
    BY <1>2, <2>1
  <2>6. PagesBefore(t, c) <= PagesBefore(t, c + i)
    BY <2>2, <2>3, <2>4, <2>5
  <2> QED
    BY <1>1, <2>6
<1>5. d - 1 - c \in T
  <2>1. d - 1 - c \in 0 .. (d - 1 - c)
    BY <1>1
  <2> HIDE DEF T
  <2> QED
    BY <1>1, <1>3, <1>4, <2>1, Ascend
<1>6. PagesBefore(t, c) <= PagesBefore(t, d - 1) /\ PagesBefore(t, c) \in Nat /\ PagesBefore(t, d - 1) \in Nat
  <2>1. c + (d - 1 - c) = d - 1 /\ c \in 0 .. w /\ d - 1 \in 0 .. w
    BY <1>1
  <2> QED
    BY <1>2, <1>5, <2>1
<1> QED
  BY <1>6 DEF Places

\* The columns of all tables.
LEMMA ColumnsAre ==
    ASSUME TablesInv
    PROVE  /\ \A c : c \in Memory!Columns <=> /\ c = <<c[1], c[2]>> /\ c[1] \in DOMAIN tables
                                              /\ c[2] \in 1 .. Len(tables[c[1]].columns)
           /\ \A t \in DOMAIN tables : Len(tables[t].columns) \in Nat
<1>1. ASSUME NEW t \in DOMAIN tables
      PROVE  DOMAIN tables[t].columns = 1 .. Len(tables[t].columns) /\ Len(tables[t].columns) \in Nat
  BY LenProperties DEF TablesInv, Vector
<1>2. ASSUME NEW c
      PROVE  c \in Memory!Columns <=> \E t \in DOMAIN tables : \E j \in DOMAIN tables[t].columns : c = <<t, j>>
  BY DEF Memory!Columns
<1> QED
  BY <1>1, <1>2

\* ColumnMemory counts as everybody does.
LEMMA SameCardinality == \A S : Memory!Cardinality(S) = Cardinality(S)
BY DEF Memory!Cardinality, Cardinality

\* Every page of a column is in the heap and the column's own, or in the mapping.
LEMMA Owned ==
    ASSUME MemoryInv
    PROVE  Memory!PagesOwned
<1>1. TablesInv /\ HeapInv /\ MappingsInv /\ PhaseInv
  BY DEF MemoryInv
<1>2. \A c : c \in Memory!Columns <=> /\ c = <<c[1], c[2]>> /\ c[1] \in DOMAIN tables
                                      /\ c[2] \in 1 .. Len(tables[c[1]].columns)
  BY <1>1, ColumnsAre
<1>3. ASSUME NEW c \in Memory!Columns
      PROVE  /\ c[1] \in cached => Memory!Column(c) = MappedColumn(c[1], c[2]) /\ c[1] \in Names
                                   /\ Memory!Column(c).mapped_memory = c[1] /\ c[1] # NoMapping
             /\ c[1] \notin cached => Memory!Column(c).mapped_memory = NoMapping /\ c \in Owners
                                      /\ Memory!Column(c).pages = Own(c)
  <2>1. c = <<c[1], c[2]>> /\ c[1] \in DOMAIN tables /\ c[2] \in 1 .. Len(tables[c[1]].columns)
    BY <1>2
  <2>2. IF c[1] \in cached THEN Memory!Column(c) = MappedColumn(c[1], c[2])
                           ELSE Memory!Column(c).mapped_memory = NoMapping
    BY <1>1, <2>1 DEF TablesInv, Memory!Column
  <2>3. MappedColumn(c[1], c[2]).mapped_memory = c[1]
    BY DEF MappedColumn
  <2>4. c[2] \in Nat
    BY <2>1
  <2>5. c[1] \notin cached => c \in Owners /\ Memory!Column(c).pages = Own(c)
    BY <2>1, <2>4 DEF Owners, Own, Memory!Column
  <2> QED
    BY <1>1, <2>2, <2>3, <2>5, NamesAre DEF PhaseInv
<1>4. \A o \in Owners : o \in Memory!Columns /\ o[1] \notin cached
  BY <1>2 DEF Owners
<1>5. heap = UNION {Memory!Column(c).pages : c \in Memory!References(NoMapping)}
  <2>1. Memory!References(NoMapping) = Owners
    BY <1>3, <1>4 DEF Memory!References
  <2>2. \A o \in Owners : Memory!Column(o).pages = Own(o)
    BY <1>3, <1>4
  <2>3. heap = UNION {Own(o) : o \in Owners}
    BY <1>1 DEF HeapInv
  <2> QED
    BY <2>1, <2>2, <2>3
<1>6. ASSUME NEW c \in Memory!Columns, NEW d \in Memory!Columns, c # d
      PROVE  Memory!Column(c).pages \intersect Memory!Column(d).pages = {}
  <2>1. CASE c[1] \notin cached /\ d[1] \notin cached
    BY <1>1, <1>3, <1>6, <2>1 DEF HeapInv
  <2>2. ASSUME NEW p \in Memory!Columns, p[1] \in cached, NEW page \in Memory!Column(p).pages
        PROVE  \E k \in Places(p[1], p[2]) : page = <<p[1], k>>
    BY <1>3, <2>2 DEF MappedColumn, Memory!MappedPage
  <2>3. ASSUME NEW p \in Memory!Columns, p[1] \notin cached, NEW page \in Memory!Column(p).pages
        PROVE  page[1] = NoMapping
    <3>1. page \in heap
      BY <1>1, <1>3, <2>3 DEF HeapInv
    <3> QED
      BY <1>1, <3>1 DEF HeapInv, Memory!HeapPage
  <2>4. CASE c[1] \in cached /\ d[1] \notin cached
    BY <1>3, <2>2, <2>3, <2>4
  <2>5. CASE c[1] \notin cached /\ d[1] \in cached
    BY <1>3, <2>2, <2>3, <2>5
  <2>6. CASE c[1] \in cached /\ d[1] \in cached
    <3>1. CASE c[1] # d[1]
      BY <2>2, <2>6, <3>1
    <3>2. CASE c[1] = d[1]
      <4>1. c[2] # d[2] /\ c[1] \in Names /\ c[1] \in DOMAIN tables /\ c[1] # OutputName
        BY <1>2, <1>3, <1>6, <2>6, <3>2, NamesAre
      <4>2. Len(tables[c[1]].columns) <= Len(Inputs[c[1]].columns) /\ Len(tables[c[1]].columns) \in Nat
            /\ Len(Inputs[c[1]].columns) \in Nat
        BY <1>1, <4>1, ColumnsAre, PlanAssumption DEF TablesInv, Names
      <4>3. c[2] \in 1 .. Len(Inputs[c[1]].columns) /\ d[2] \in 1 .. Len(Inputs[c[1]].columns)
        BY <1>2, <3>2, <4>2
      <4>4. c[2] < d[2] \/ d[2] < c[2]
        BY <4>1, <4>3
      <4>5. Places(c[1], c[2]) \intersect Places(c[1], d[2]) = {}
        BY <4>1, <4>3, <4>4, PlacesApart
      <4> QED
        BY <2>2, <2>6, <3>2, <4>5
    <3> QED
      BY <3>1, <3>2
  <2> QED
    BY <2>1, <2>4, <2>5, <2>6
<1>7. DOMAIN mappings = cached \intersect DOMAIN tables
  BY <1>1 DEF MappingsInv
<1>8. ASSUME NEW t \in DOMAIN mappings
      PROVE  /\ mappings[t] \in Nat \ {0} /\ mappings[t] = Len(tables[t].columns)
             /\ Memory!References(t) = {<<t, j>> : j \in 1 .. mappings[t]}
  <2>1. t \in cached /\ t \in DOMAIN tables /\ mappings[t] = Len(tables[t].columns) /\ mappings[t] \in Nat
    BY <1>1, <1>7, ColumnsAre DEF MappingsInv
  <2>2. mappings[t] # 0
    <3>1. tables[t].columns # <<>> /\ tables[t].columns \in Seq(MemoryColumn)
      BY <1>1, <2>1, NamesAre DEF TablesInv, PhaseInv, Vector
    <3> QED
      BY <2>1, <3>1, EmptySeq
  <2>3. ASSUME NEW c \in Memory!Columns, Memory!Column(c).mapped_memory = t
        PROVE  c = <<t, c[2]>> /\ c[2] \in 1 .. mappings[t]
    <3>1. t \in Names
      BY <1>1, <2>1 DEF PhaseInv
    <3>2. c[1] = t
      BY <1>3, <2>3, <3>1, NamesAre
    <3> QED
      BY <1>2, <2>1, <3>2
  <2>4. ASSUME NEW j \in 1 .. mappings[t]
        PROVE  <<t, j>> \in Memory!Columns /\ Memory!Column(<<t, j>>).mapped_memory = t
    <3>1. <<t, j>> \in Memory!Columns
      BY <1>2, <2>1
    <3> QED
      BY <1>3, <2>1, <3>1
  <2> QED
    BY <2>1, <2>2, <2>3, <2>4 DEF Memory!References
<1>9. DOMAIN mappings = {Memory!Column(c).mapped_memory : c \in Memory!Columns} \ {NoMapping}
  <2>1. ASSUME NEW t \in DOMAIN mappings
        PROVE  t \in {Memory!Column(c).mapped_memory : c \in Memory!Columns} \ {NoMapping}
    <3>1. <<t, 1>> \in Memory!Columns /\ Memory!Column(<<t, 1>>).mapped_memory = t
      BY <1>8 DEF Memory!References
    <3> QED
      BY <1>1, <1>7, <3>1, NamesAre DEF PhaseInv
  <2>2. ASSUME NEW c \in Memory!Columns, Memory!Column(c).mapped_memory # NoMapping
        PROVE  Memory!Column(c).mapped_memory \in DOMAIN mappings
    BY <1>2, <1>3, <1>7, <2>2
  <2> QED
    BY <2>1, <2>2
<1>10. ASSUME NEW t \in DOMAIN mappings
       PROVE  mappings[t] = Cardinality(Memory!References(t))
  <2> DEFINE n == mappings[t]
             T == {<<t, j>> : j \in 1 .. n}
             f == [j \in 1 .. n |-> <<t, j>>]
  <2>1. n \in Nat
    BY <1>8
  <2>2. f \in Bijection(1 .. n, T)
    <3>1. f \in Injection(1 .. n, T)
      <4>1. f \in [1 .. n -> T]
        OBVIOUS
      <4>2. \A a, b \in 1 .. n : f[a] = f[b] => a = b
        OBVIOUS
      <4> HIDE DEF f, T
      <4> QED
        BY <4>1, <4>2 DEF Injection, IsInjective
    <3>2. f \in Surjection(1 .. n, T)
      BY DEF Surjection
    <3> QED
      BY <3>1, <3>2 DEF Bijection
  <2>3. ExistsBijection(1 .. n, T)
    <3> HIDE DEF f, T
    <3> QED
      BY <2>2 DEF ExistsBijection
  <2>4. IsFiniteSet(1 .. n) /\ Cardinality(1 .. n) = n
    BY <2>1, FS_Interval
  <2>5. Cardinality(T) = n
    <3> HIDE DEF T
    <3> QED
      BY <2>3, <2>4, FS_Bijection
  <2> QED
    BY <1>8, <2>5
<1>11. ~ misfreed
  BY <1>1 DEF HeapInv
<1>12. \A c, d \in Memory!Columns : c # d => Memory!Column(c).pages \intersect Memory!Column(d).pages = {}
  BY <1>6
<1>13. \A t \in DOMAIN mappings : mappings[t] = Cardinality(Memory!References(t))
  BY <1>10
<1> QED
  BY <1>5, <1>9, <1>11, <1>12, <1>13, SameCardinality DEF Memory!PagesOwned

\* The pages of any column of table t.
AnyPage == UNION {Seq(Values[type] \union {Null}) : type \in DOMAIN Values}

\* Page number k of column c of table t is behind the pages of the columns before c.
LEMMA DumpedBehind ==
    ASSUME NEW t \in Names, NEW c \in 1 .. Len(Inputs[t].columns), NEW k \in 1 .. Len(Inputs[t].columns[c].pages)
    PROVE  DumpedPages(t)[PagesBefore(t, c - 1) + k] = Inputs[t].columns[c].pages[k]
<1> DEFINE w == Len(Inputs[t].columns)
           seqs == [d \in DOMAIN Inputs[t].columns |-> Inputs[t].columns[d].pages]
<1>1. t \in DOMAIN Inputs /\ w \in Nat \ {0} /\ DOMAIN Inputs[t].columns = 1 .. w
  BY PlanAssumption DEF Names
<1>2. \A d \in 1 .. w : seqs[d] = Inputs[t].columns[d].pages
  BY <1>1
<1>3. ASSUME NEW d \in 1 .. w PROVE seqs[d] \in Seq(AnyPage)
  <2> DEFINE pages == Inputs[t].columns[d].pages
             A == Seq(Values[Inputs[t].columns[d].type] \union {Null})
  <2>1. WellFormedColumn(Inputs[t].columns[d], Inputs[t].num_rows)
    BY <1>1, PlanAssumption
  <2>2. pages \in Seq(A) /\ A \subseteq AnyPage
    BY <2>1 DEF WellFormedColumn, AnyPage
  <2> HIDE DEF A
  <2>3. pages \in [1 .. Len(pages) -> A] /\ Len(pages) \in Nat
    BY <2>2, LenProperties
  <2>4. pages \in [1 .. Len(pages) -> AnyPage]
    BY <2>2, <2>3
  <2>5. pages \in Seq(AnyPage)
    <3> HIDE DEF pages
    <3> QED
      BY <2>3, <2>4, SeqDef
  <2> QED
    BY <1>2, <2>5
<1>4. seqs \in Seq(Seq(AnyPage)) /\ Len(seqs) = w
  <2>1. seqs \in [1 .. w -> Seq(AnyPage)]
    BY <1>1, <1>3
  <2> HIDE DEF seqs
  <2> QED
    BY <1>1, <2>1, SeqDef, LenProperties
<1>5. DumpedPages(t) = FlattenSeq(seqs)
  BY DEF DumpedPages
<1> HIDE DEF seqs
<1>6. PICK first, all : all \in Seq(AnyPage) /\ Follow(AnyPage, seqs, w, first, all)
  BY <1>1, <1>3, FollowExists
<1>7. FlattenSeq(seqs) = all
  BY <1>4, <1>6, FlattenedIsAll
<1>8. first[1] = 0 /\ \A d \in 1 .. w : first[d + 1] = first[d] + Len(seqs[d])
  BY <1>6 DEF Follow
<1>9. \A j \in 1 .. Len(seqs[c]) : seqs[c][j] = all[first[c] + j]
  BY <1>6 DEF Follow
<1> DEFINE T == {i \in 0 .. (w - 1) : first[i + 1] = PagesBefore(t, i)}
<1>10. c - 1 \in T
  <2>1. 0 \in T
    <3>1. 0 \in 0 .. (w - 1) /\ 0 + 1 = 1
      BY <1>1
    <3> QED
      BY <1>8, <3>1, PagesBeforeIs
  <2>2. ASSUME NEW i \in 1 .. (w - 1), i - 1 \in T PROVE i \in T
    <3>1. i \in 1 .. w /\ (i - 1) + 1 = i
      BY <1>1
    <3>2. first[i] = PagesBefore(t, i - 1)
      BY <2>2, <3>1
    <3>3. first[i + 1] = first[i] + Len(seqs[i]) /\ PagesBefore(t, i) = PagesBefore(t, i - 1) + Len(Inputs[t].columns[i].pages)
      BY <1>8, <3>1, PagesBeforeIs
    <3>4. first[i + 1] = PagesBefore(t, i)
      BY <1>2, <3>1, <3>2, <3>3
    <3> QED
      BY <3>4
  <2>3. w - 1 \in Nat /\ c - 1 \in 0 .. (w - 1)
    BY <1>1
  <2> HIDE DEF T
  <2> QED
    BY <2>1, <2>2, <2>3, Ascend
<1>11. first[c] = PagesBefore(t, c - 1)
  <2>1. (c - 1) + 1 = c
    BY <1>1
  <2> QED
    BY <1>10, <2>1
<1> QED
  BY <1>2, <1>5, <1>7, <1>9, <1>11

\* A mapped column has its own pages.
LEMMA DumpedOnes ==
    ASSUME MemoryInv
    PROVE  MappedAsDumped
<1> SUFFICES ASSUME NEW t \in cached \intersect DOMAIN tables, NEW c \in DOMAIN tables[t].columns
             PROVE  LET places == {page[2] : page \in tables[t].columns[c].pages}
                        rank(k) == Cardinality({i \in places : i <= k})
                    IN  /\ Cardinality(places) = Len(Inputs[t].columns[c].pages)
                        /\ \A k \in places : DumpedPages(t)[k] = Inputs[t].columns[c].pages[rank(k)]
  BY DEF MappedAsDumped
<1> DEFINE places == {page[2] : page \in tables[t].columns[c].pages}
           b == PagesBefore(t, c - 1)
           l == Len(Inputs[t].columns[c].pages)
<1>1. TablesInv /\ PhaseInv
  BY DEF MemoryInv
<1>2. t \in Names /\ t # OutputName /\ DOMAIN tables[t].columns = 1 .. Len(tables[t].columns)
      /\ Len(tables[t].columns) \in Nat
  BY <1>1, NamesAre, LenProperties DEF PhaseInv, TablesInv, Vector
<1>3. Len(tables[t].columns) <= Len(Inputs[t].columns) /\ Len(Inputs[t].columns) \in Nat
      /\ DOMAIN Inputs[t].columns = 1 .. Len(Inputs[t].columns)
  BY <1>1, <1>2, PlanAssumption DEF TablesInv, Names
<1>4. c \in 1 .. Len(Inputs[t].columns) /\ c - 1 \in 0 .. Len(Inputs[t].columns)
  BY <1>2, <1>3
<1>5. l \in Nat
  <2>1. WellFormedColumn(Inputs[t].columns[c], Inputs[t].num_rows)
    BY <1>2, <1>3, <1>4, PlanAssumption DEF Names
  <2> QED
    BY <2>1, LenProperties DEF WellFormedColumn
<1>6. b \in Nat /\ PagesBefore(t, c) = b + l
  BY <1>2, <1>4, PagesBeforeIs
<1>7. places = (b + 1) .. (b + l)
  <2>1. tables[t].columns[c] = MappedColumn(t, c)
    BY <1>1, <1>2 DEF TablesInv
  <2>2. tables[t].columns[c].pages = {Memory!MappedPage(t, k) : k \in Places(t, c)}
    BY <2>1 DEF MappedColumn
  <2>3. Places(t, c) = (b + 1) .. (b + l)
    BY <1>6 DEF Places
  <2>4. \A k : Memory!MappedPage(t, k)[2] = k
    BY DEF Memory!MappedPage
  <2> QED
    BY <2>2, <2>3, <2>4
<1> HIDE DEF places, b, l
<1>8. Cardinality(places) = l
  <2>1. Cardinality((b + 1) .. (b + l)) = IF b + 1 > b + l THEN 0 ELSE (b + l) - (b + 1) + 1
    <3>1. b + 1 \in Int /\ b + l \in Int
      BY <1>5, <1>6
    <3> QED
      BY <3>1, FS_Interval
  <2> QED
    BY <1>5, <1>6, <1>7, <2>1
<1>9. ASSUME NEW k \in places PROVE DumpedPages(t)[k] = Inputs[t].columns[c].pages[Cardinality({i \in places : i <= k})]
  <2>1. k \in Nat /\ k - b \in 1 .. l /\ b + (k - b) = k
    BY <1>5, <1>6, <1>7
  <2>2. {i \in places : i <= k} = (b + 1) .. k
    BY <1>5, <1>6, <1>7, <2>1
  <2>3. Cardinality((b + 1) .. k) = k - b
    <3>1. Cardinality((b + 1) .. k) = IF b + 1 > k THEN 0 ELSE k - (b + 1) + 1
      <4>1. b + 1 \in Int /\ k \in Int
        BY <1>6, <2>1
      <4> QED
        BY <4>1, FS_Interval
    <3> QED
      BY <1>5, <1>6, <2>1, <3>1
  <2>4. DumpedPages(t)[b + (k - b)] = Inputs[t].columns[c].pages[k - b]
    BY <1>2, <1>4, <2>1, DumpedBehind DEF b, l
  <2> QED
    BY <2>1, <2>2, <2>3, <2>4
<1> QED
  BY <1>8, <1>9 DEF places, l

-----------------------------------------------------------------------------
(* The columns of results. *)

\* The states of a column while value after value is appended.
Appending(after, vals) ==
    /\ after[0] = EmptyColumn
    /\ \A i \in 1 .. Len(vals) : after[i] = AppendTo(after[i - 1], vals[i])

\* The columns while value after value is appended.
LEMMA AppendedInOrder ==
    ASSUME NEW vals, Len(vals) \in Nat
    PROVE  \E after : Appending(after, vals) /\ Filled(vals) = after[Len(vals)]
<1> DEFINE l == Len(vals)
           Step(f, i) == IF i = 0 THEN EmptyColumn ELSE AppendTo(f[i - 1], vals[i])
           Upto(m) == \E f : f = [i \in 0 .. m |-> Step(f, i)]
           Bad == {m \in Nat : ~ Upto(m)}
<1>1. Bad = {}
  <2> SUFFICES ASSUME Bad # {} PROVE FALSE
    OBVIOUS
  <2>1. PICK m \in Bad : \A k \in Bad : m <= k
    <3>1. Bad \in SUBSET Nat /\ Bad # {}
      OBVIOUS
    <3> HIDE DEF Bad
    <3> QED
      BY <3>1, Least
  <2>2. m # 0
    <3> DEFINE f == [i \in 0 .. 0 |-> EmptyColumn]
    <3>1. f = [i \in 0 .. 0 |-> Step(f, i)]
      OBVIOUS
    <3> QED
      BY <3>1
  <2>3. m - 1 \in Nat /\ m - 1 \notin Bad
    <3>1. m \in Nat
      BY <2>1
    <3> HIDE DEF Bad
    <3> QED
      BY <2>1, <2>2, <3>1
  <2>4. PICK f : f = [i \in 0 .. (m - 1) |-> Step(f, i)]
    BY <2>3
  <2> DEFINE g == [i \in 0 .. m |-> IF i = m THEN Step(f, m) ELSE f[i]]
  <2>5. ASSUME NEW i \in 0 .. m PROVE g[i] = Step(g, i)
    <3>1. CASE i = 0
      <4>1. g[i] = f[0] /\ f[0] = Step(f, 0)
        BY <2>2, <2>3, <2>4, <3>1
      <4> QED
        BY <3>1, <4>1
    <3>2. CASE i # 0
      <4>1. i - 1 \in 0 .. (m - 1) /\ i - 1 \in 0 .. m /\ i - 1 # m
        BY <2>3, <3>2
      <4>2. g[i - 1] = f[i - 1]
        BY <4>1
      <4>3. g[i] = Step(f, i)
        <5>1. CASE i = m
          BY <5>1
        <5>2. CASE i # m
          <6>1. i \in 0 .. (m - 1)
            BY <5>2, <2>3
          <6> QED
            BY <2>4, <5>2, <6>1
        <5> QED
          BY <5>1, <5>2
      <4> QED
        BY <3>2, <4>2, <4>3
    <3> QED
      BY <3>1, <3>2
  <2>6. g = [i \in 0 .. m |-> Step(g, i)]
    <3> HIDE DEF Step
    <3>1. \A i \in 0 .. m : g[i] = Step(g, i)
      BY <2>5
    <3>2. g = [i \in 0 .. m |-> g[i]]
      OBVIOUS
    <3> HIDE DEF g
    <3> QED
      BY <3>1, <3>2
  <2>7. Upto(m)
    <3> HIDE DEF g, Step
    <3> QED
      BY <2>6
  <2> QED
    BY <2>1, <2>7
<1>2. Upto(l)
  BY <1>1
<1> DEFINE after == CHOOSE f : f = [i \in 0 .. l |-> Step(f, i)]
<1>3. after = [i \in 0 .. l |-> Step(after, i)]
  <2> HIDE DEF Step
  <2> QED
    BY <1>2
<1>4. Filled(vals) = after[l]
  BY DEF Filled
<1> HIDE DEF after
<1>5. ASSUME NEW i \in 0 .. l PROVE after[i] = Step(after, i)
  <2> HIDE DEF Step
  <2> QED
    BY <1>3
<1>6. after[0] = EmptyColumn
  BY <1>5
<1>7. ASSUME NEW i \in 1 .. l PROVE after[i] = AppendTo(after[i - 1], vals[i])
  BY <1>5
<1> QED
  BY <1>4, <1>6, <1>7 DEF Appending

\* Values of S in chunks, i of those of vals, all chunks but the last one full.
InChunks(S, pieces, vals, i) ==
    LET n == Len(pieces)
    IN  /\ pieces \in Seq(Seq(S))
        /\ i <= n * ChunkSize
        /\ n # 0 => (n - 1) * ChunkSize < i
        /\ \A q \in 1 .. n : Len(pieces[q]) = IF q < n THEN ChunkSize ELSE i - (n - 1) * ChunkSize
        /\ \A q \in 1 .. n : \A k \in 1 .. Len(pieces[q]) : pieces[q][k] = vals[(q - 1) * ChunkSize + k]

\* The last chunk is full when the number of values is a multiple of its size.
LEMMA LastIsFull ==
    ASSUME NEW n \in Nat, NEW i \in Nat, i <= n * ChunkSize, n # 0 => (n - 1) * ChunkSize < i, n = 0 => i = 0
    PROVE  i % ChunkSize = 0 <=> i = n * ChunkSize
<1> DEFINE w == i \div ChunkSize
           r == i % ChunkSize
<1>1. ChunkSize \in Nat \ {0}
  BY PlanAssumption
<1>2. w \in Nat /\ r \in 0 .. (ChunkSize - 1) /\ i = w * ChunkSize + r
  BY <1>1, DivMod
<1>3. \A q \in Nat : q <= w <=> q * ChunkSize <= i
  BY <1>1, Quotient
<1> HIDE DEF w, r
<1>4. ASSUME r = 0 PROVE i = n * ChunkSize
  <2>1. CASE n = 0
    BY <1>1, <2>1
  <2>2. CASE n # 0
    <3>1. n - 1 \in Nat /\ (n - 1) * ChunkSize < w * ChunkSize /\ (n - 1) * ChunkSize \in Nat /\ w * ChunkSize \in Nat
      BY <1>1, <1>2, <1>4, <2>2
    <3>2. ~ (w <= n - 1)
      <4>1. ASSUME w <= n - 1 PROVE w * ChunkSize <= (n - 1) * ChunkSize
        BY <1>1, <1>2, <3>1, <4>1, ProductsAscend
      <4> QED
        BY <3>1, <4>1
    <3>3. n <= w
      BY <1>2, <3>1, <3>2
    <3>4. n * ChunkSize <= i
      BY <1>3, <3>3
    <3>5. n * ChunkSize \in Nat
      BY <1>1
    <3> QED
      BY <3>4, <3>5
  <2> QED
    BY <2>1, <2>2
<1>5. ASSUME i = n * ChunkSize PROVE r = 0
  <2>1. n <= w
    BY <1>1, <1>3, <1>5
  <2>2. n * ChunkSize <= w * ChunkSize /\ n * ChunkSize \in Nat /\ w * ChunkSize \in Nat
    BY <1>1, <1>2, <2>1, ProductsAscend
  <2> QED
    BY <1>1, <1>2, <1>5, <2>2
<1> QED
  BY <1>4, <1>5 DEF r

\* A column of chunks.
Copied(pieces, i) == [is_view |-> FALSE, chunks |-> pieces, total_size |-> i]

\* One more value goes behind the others.
LEMMA ChunksGrow ==
    ASSUME NEW S, NEW vals \in Seq(S), NEW i \in Nat, i < Len(vals), NEW pieces, InChunks(S, pieces, vals, i)
    PROVE  \E new : AppendTo(Copied(pieces, i), vals[i + 1]) = Copied(new, i + 1) /\ InChunks(S, new, vals, i + 1)
<1> DEFINE n == Len(pieces)
           val == vals[i + 1]
           new == IF i % ChunkSize = 0 THEN Append(pieces, <<val>>) ELSE [pieces EXCEPT ![n] = Append(@, val)]
<1>1. ChunkSize \in Nat \ {0}
  BY PlanAssumption
<1>2. /\ pieces \in Seq(Seq(S)) /\ i <= n * ChunkSize /\ (n # 0 => (n - 1) * ChunkSize < i)
      /\ \A q \in 1 .. n : Len(pieces[q]) = IF q < n THEN ChunkSize ELSE i - (n - 1) * ChunkSize
      /\ \A q \in 1 .. n : \A k \in 1 .. Len(pieces[q]) : pieces[q][k] = vals[(q - 1) * ChunkSize + k]
  BY DEF InChunks
<1>3. n \in Nat /\ DOMAIN pieces = 1 .. n /\ \A q \in 1 .. n : pieces[q] \in Seq(S)
  BY <1>2, LenProperties, ElementOfSeq
<1>4. val \in S
  <2>1. i + 1 \in 1 .. Len(vals)
    BY LenProperties
  <2> QED
    BY <2>1, ElementOfSeq
<1>5. AppendTo(Copied(pieces, i), val) = Copied(new, i + 1)
  <2> HIDE DEF val
  <2>1. Copied(pieces, i).chunks = pieces /\ Copied(pieces, i).total_size = i
    BY DEF Copied
  <2>2. AppendTo(Copied(pieces, i), val) = [Copied(pieces, i) EXCEPT !.chunks = new, !.total_size = @ + 1]
    BY <2>1 DEF AppendTo
  <2> HIDE DEF new
  <2> QED
    BY <2>2 DEF Copied
<1> HIDE DEF n, val
<1>6. i % ChunkSize = 0 <=> i = n * ChunkSize
  <2>1. n = 0 => i = 0
    BY <1>1, <1>2
  <2> QED
    BY <1>2, <1>3, <2>1, LastIsFull
<1>7. /\ n * ChunkSize \in Nat /\ (n + 1) * ChunkSize = n * ChunkSize + ChunkSize
      /\ (n + 1) - 1 = n
      /\ n # 0 => (n - 1) * ChunkSize \in Nat /\ n * ChunkSize = (n - 1) * ChunkSize + ChunkSize
  BY <1>1, <1>3
<1>8. InChunks(S, new, vals, i + 1)
  <2>1. CASE i = n * ChunkSize
    <3>1. new = Append(pieces, <<val>>) /\ <<val>> \in Seq(S) /\ Len(<<val>>) = 1
      BY <1>4, <1>6, <2>1
    <3>2. /\ new \in Seq(Seq(S)) /\ Len(new) = n + 1 /\ (\A q \in 1 .. n : new[q] = pieces[q]) /\ new[n + 1] = <<val>>
      BY <1>2, <3>1, AppendProperties DEF n
    <3> HIDE DEF new
    <3>3. ASSUME NEW q \in 1 .. n + 1
          PROVE  /\ Len(new[q]) = IF q < n + 1 THEN ChunkSize ELSE (i + 1) - ((n + 1) - 1) * ChunkSize
                 /\ \A k \in 1 .. Len(new[q]) : new[q][k] = vals[(q - 1) * ChunkSize + k]
      <4>1. CASE q = n + 1
        <5>1. new[q] = <<val>> /\ (i + 1) - ((n + 1) - 1) * ChunkSize = 1
          BY <1>7, <2>1, <3>2, <4>1
        <5>2. (q - 1) * ChunkSize + 1 = i + 1
          BY <1>3, <2>1, <4>1
        <5>3. ASSUME NEW k \in 1 .. Len(new[q]) PROVE new[q][k] = vals[(q - 1) * ChunkSize + k]
          <6>1. k = 1 /\ <<val>>[1] = val
            <7>1. k \in 1 .. Len(<<val>>)
              BY <5>1
            <7> QED
              BY <7>1
          <6> QED
            BY <5>1, <5>2, <6>1 DEF val
        <5>4. ~ (q < n + 1)
          BY <1>3, <4>1
        <5> QED
          BY <3>1, <5>1, <5>3, <5>4
      <4>2. CASE q # n + 1
        <5>1. q \in 1 .. n /\ q < n + 1 /\ new[q] = pieces[q]
          BY <1>3, <3>2, <4>2
        <5>2. Len(pieces[q]) = ChunkSize
          <6>1. CASE q < n
            BY <1>2, <5>1, <6>1
          <6>2. CASE q = n
            <7>1. Len(pieces[q]) = i - (n - 1) * ChunkSize /\ n # 0
              BY <1>2, <1>3, <5>1, <6>2
            <7> QED
              BY <1>1, <1>7, <2>1, <7>1
          <6> QED
            BY <1>3, <5>1, <6>1, <6>2
        <5> QED
          BY <1>2, <5>1, <5>2
      <4> QED
        BY <4>1, <4>2
    <3>4. i + 1 <= (n + 1) * ChunkSize /\ ((n + 1) - 1) * ChunkSize < i + 1
      <4> DEFINE nc == n * ChunkSize
      <4>1. nc \in Nat /\ (n + 1) * ChunkSize = nc + ChunkSize /\ ((n + 1) - 1) * ChunkSize = nc /\ i = nc
        BY <1>7, <2>1
      <4> HIDE DEF nc
      <4> QED
        BY <1>1, <4>1
    <3> QED
      BY <3>2, <3>3, <3>4 DEF InChunks
  <2>2. CASE i # n * ChunkSize
    <3>1. n # 0 /\ n \in 1 .. n
      BY <1>1, <1>2, <1>3, <2>2
    <3> DEFINE last == Append(pieces[n], val)
    <3>2. new = [pieces EXCEPT ![n] = last]
      BY <1>6, <2>2
    <3>3. /\ last \in Seq(S) /\ Len(last) = Len(pieces[n]) + 1
          /\ (\A k \in 1 .. Len(pieces[n]) : last[k] = pieces[n][k]) /\ last[Len(pieces[n]) + 1] = val
      BY <1>3, <1>4, <3>1, AppendProperties
    <3>4. Len(pieces[n]) = i - (n - 1) * ChunkSize
      BY <1>2, <1>3, <3>1
    <3> HIDE DEF last, new
    <3>5. new \in Seq(Seq(S)) /\ Len(new) = n /\ new[n] = last /\ \A q \in 1 .. n : q # n => new[q] = pieces[q]
      <4>1. pieces \in [1 .. n -> Seq(S)]
        BY <1>2, LenProperties DEF n
      <4>2. new \in [1 .. n -> Seq(S)]
        BY <3>2, <3>3, <4>1
      <4>3. new \in Seq(Seq(S)) /\ Len(new) = n
        BY <1>3, <4>2, SeqDef, LenProperties
      <4> QED
        BY <1>3, <3>1, <3>2, <4>3
    <3>6. ASSUME NEW q \in 1 .. n
          PROVE  /\ Len(new[q]) = IF q < n THEN ChunkSize ELSE (i + 1) - (n - 1) * ChunkSize
                 /\ \A k \in 1 .. Len(new[q]) : new[q][k] = vals[(q - 1) * ChunkSize + k]
      <4>1. CASE q = n
        <5>1. Len(new[q]) = (i + 1) - (n - 1) * ChunkSize /\ Len(new[q]) = Len(pieces[n]) + 1
          <6>1. PICK m \in Nat : m = (n - 1) * ChunkSize
            BY <1>7, <3>1
          <6>2. Len(pieces[n]) = i - m /\ Len(new[q]) = Len(pieces[n]) + 1
            BY <3>3, <3>4, <3>5, <4>1, <6>1
          <6>3. (i - m) + 1 = (i + 1) - m
            OBVIOUS
          <6> QED
            BY <6>1, <6>2, <6>3
        <5>2. ASSUME NEW k \in 1 .. Len(new[q]) PROVE new[q][k] = vals[(q - 1) * ChunkSize + k]
          <6>0. Len(pieces[n]) \in Nat
            BY <1>3, <3>1, LenProperties
          <6>1. CASE k = Len(pieces[n]) + 1
            <7>1. (n - 1) * ChunkSize + k = i + 1
              BY <1>7, <3>1, <3>4, <6>1
            <7> QED
              BY <3>3, <3>5, <4>1, <6>1, <7>1 DEF val
          <6>2. CASE k # Len(pieces[n]) + 1
            <7>1. k \in 1 .. Len(pieces[n])
              BY <5>1, <6>0, <6>2
            <7> QED
              BY <1>2, <3>1, <3>3, <3>5, <4>1, <7>1
          <6> QED
            BY <6>1, <6>2
        <5> QED
          BY <4>1, <5>1, <5>2
      <4>2. CASE q # n
        <5>1. q < n /\ q \in 1 .. n /\ new[q] = pieces[q]
          BY <1>3, <3>5, <4>2
        <5>2. Len(pieces[q]) = ChunkSize
          BY <1>2, <5>1
        <5> QED
          BY <1>2, <5>1, <5>2
      <4> QED
        BY <4>1, <4>2
    <3>7. i + 1 <= n * ChunkSize /\ (n - 1) * ChunkSize < i + 1
      BY <1>2, <1>7, <2>2, <3>1
    <3> QED
      BY <3>1, <3>5, <3>6, <3>7 DEF InChunks
  <2> QED
    BY <2>1, <2>2
<1> HIDE DEF new
<1> QED
  BY <1>5, <1>8 DEF val

\* What a sequence of values filled into a column is: its chunks give it back, and
\* get gives back each of its values.
LEMMA FilledIs ==
    ASSUME NEW S, NEW vals \in Seq(S)
    PROVE  \E pieces : /\ Filled(vals) = Copied(pieces, Len(vals)) /\ InChunks(S, pieces, vals, Len(vals))
<1> DEFINE l == Len(vals)
<1>1. l \in Nat
  BY LenProperties
<1>2. PICK after : Appending(after, vals) /\ Filled(vals) = after[l]
  BY <1>1, AppendedInOrder
<1> DEFINE Good(i) == \E pieces : after[i] = Copied(pieces, i) /\ InChunks(S, pieces, vals, i)
           G == {i \in 0 .. l : Good(i)}
<1>3. 0 \in G
  <2>1. after[0] = Copied(<<>>, 0)
    BY <1>2 DEF Appending, EmptyColumn, Copied
  <2>2. InChunks(S, <<>>, vals, 0)
    <3>1. <<>> \in Seq(Seq(S)) /\ Len(<<>>) = 0 /\ 0 * ChunkSize = 0 /\ 1 .. 0 = {}
      BY PlanAssumption
    <3> QED
      BY <3>1 DEF InChunks
  <2>3. Good(0)
    BY <2>1, <2>2
  <2> HIDE DEF Good
  <2> QED
    BY <1>1, <2>3
<1>4. ASSUME NEW i \in 1 .. l, i - 1 \in G PROVE i \in G
  <2>1. PICK pieces : after[i - 1] = Copied(pieces, i - 1) /\ InChunks(S, pieces, vals, i - 1)
    BY <1>4
  <2>2. after[i] = AppendTo(after[i - 1], vals[i])
    BY <1>2 DEF Appending
  <2>3. i - 1 \in Nat /\ i - 1 < Len(vals) /\ (i - 1) + 1 = i
    BY <1>1
  <2>4. PICK new : AppendTo(Copied(pieces, i - 1), vals[i]) = Copied(new, i) /\ InChunks(S, new, vals, i)
    <3>1. \E new : AppendTo(Copied(pieces, i - 1), vals[(i - 1) + 1]) = Copied(new, (i - 1) + 1)
                   /\ InChunks(S, new, vals, (i - 1) + 1)
      BY <2>1, <2>3, ChunksGrow
    <3> QED
      BY <2>3, <3>1
  <2>5. Good(i)
    BY <2>1, <2>2, <2>4
  <2> HIDE DEF Good
  <2> QED
    BY <1>4, <2>5
<1>5. l \in G
  <2>1. l \in 0 .. l
    BY <1>1
  <2> HIDE DEF G
  <2> QED
    BY <1>1, <1>3, <1>4, <2>1, Ascend
<1> QED
  BY <1>2, <1>5

\* Chunks are flattened to the values they were filled with.
LEMMA ChunksFlattened ==
    ASSUME NEW S, NEW vals \in Seq(S), NEW pieces, InChunks(S, pieces, vals, Len(vals))
    PROVE  FlattenSeq(pieces) = vals
<1> DEFINE n == Len(pieces)
           l == Len(vals)
           first == [p \in 1 .. n + 1 |-> IF p = n + 1 THEN l ELSE (p - 1) * ChunkSize]
<1>1. ChunkSize \in Nat \ {0} /\ l \in Nat
  BY PlanAssumption, LenProperties
<1>2. /\ pieces \in Seq(Seq(S)) /\ l <= n * ChunkSize /\ (n # 0 => (n - 1) * ChunkSize < l)
      /\ \A q \in 1 .. n : Len(pieces[q]) = IF q < n THEN ChunkSize ELSE l - (n - 1) * ChunkSize
      /\ \A q \in 1 .. n : \A k \in 1 .. Len(pieces[q]) : pieces[q][k] = vals[(q - 1) * ChunkSize + k]
  BY DEF InChunks
<1>3. n \in Nat /\ \A q \in 1 .. n : pieces[q] \in Seq(S)
  BY <1>2, LenProperties, ElementOfSeq
<1>4. CASE n = 0
  <2>1. l = 0
    <3>1. n * ChunkSize = 0
      BY <1>1, <1>4
    <3> QED
      BY <1>1, <1>2, <3>1
  <2>2. pieces = <<>> /\ vals = <<>>
    BY <1>2, <1>4, <2>1, EmptySeq
  <2>3. FlattenSeq(<<>>) = <<>>
    BY DEF FlattenSeq
  <2> QED
    BY <2>2, <2>3
<1>5. CASE n # 0
  <2>1. n \in Nat \ {0} /\ 1 \in 1 .. n + 1 /\ n + 1 \in 1 .. n + 1 /\ 1 # n + 1
    BY <1>3, <1>5
  <2>2. \A p \in 1 .. n : (p - 1) * ChunkSize \in Nat /\ p * ChunkSize = (p - 1) * ChunkSize + ChunkSize
    <3>1. ASSUME NEW p \in 1 .. n PROVE (p - 1) * ChunkSize \in Nat /\ p * ChunkSize = (p - 1) * ChunkSize + ChunkSize
      <4>1. p - 1 \in Nat /\ (p - 1) + 1 = p
        BY <1>3
      <4> QED
        BY <1>1, <4>1, OneMore
    <3> QED
      BY <3>1
  <2>3. first \in [1 .. n + 1 -> Nat]
    <3>1. ASSUME NEW p \in 1 .. n + 1 PROVE (IF p = n + 1 THEN l ELSE (p - 1) * ChunkSize) \in Nat
      <4>1. p # n + 1 => p \in 1 .. n
        BY <1>3
      <4> QED
        BY <1>1, <2>2, <4>1
    <3> QED
      BY <3>1
  <2>4. /\ first[n + 1] = l /\ \A p \in 1 .. n : first[p] = (p - 1) * ChunkSize
    <3>1. ASSUME NEW p \in 1 .. n PROVE p \in 1 .. n + 1 /\ p # n + 1
      BY <1>3
    <3> QED
      BY <2>1, <3>1
  <2> HIDE DEF first
  <2>5. first[1] = 0
    <3>1. 1 \in 1 .. n /\ (1 - 1) * ChunkSize = 0
      BY <1>1, <2>1
    <3> QED
      BY <2>4, <3>1
  <2>6. ASSUME NEW p \in 1 .. n
        PROVE  /\ pieces[p] \in Seq(S) /\ first[p + 1] = first[p] + Len(pieces[p])
               /\ first[p + 1] <= l
               /\ \A k \in 1 .. Len(pieces[p]) : pieces[p][k] = vals[first[p] + k]
    <3>1. CASE p = n
      <4>1. PICK m \in Nat : m = (n - 1) * ChunkSize
        BY <2>1, <2>2, <3>1
      <4>2. Len(pieces[p]) = l - m /\ first[p + 1] = l /\ first[p] = m
        BY <1>2, <1>3, <2>4, <3>1, <4>1
      <4>3. first[p + 1] = first[p] + Len(pieces[p]) /\ first[p + 1] <= l
        BY <1>1, <4>1, <4>2
      <4>4. \A k \in 1 .. Len(pieces[p]) : pieces[p][k] = vals[first[p] + k]
        BY <1>2, <2>4
      <4> QED
        BY <1>3, <4>3, <4>4
    <3>2. CASE p # n
      <4>1. p < n /\ p + 1 \in 1 .. n /\ (p + 1) - 1 = p /\ p \in Nat /\ n - 1 \in Nat /\ p <= n - 1
        BY <1>3, <3>2
      <4>2. Len(pieces[p]) = ChunkSize /\ first[p + 1] = p * ChunkSize /\ first[p] = (p - 1) * ChunkSize
        <5>1. first[p + 1] = ((p + 1) - 1) * ChunkSize
          BY <2>4, <4>1
        <5> QED
          BY <1>2, <2>4, <4>1, <5>1
      <4>3. p * ChunkSize <= (n - 1) * ChunkSize
        BY <1>1, <4>1, ProductsAscend
      <4>4. (n - 1) * ChunkSize < l /\ (n - 1) * ChunkSize \in Nat /\ p * ChunkSize \in Nat
        <5>1. n \in 1 .. n /\ ChunkSize \in Nat
          BY <1>1, <2>1
        <5>2. (n - 1) * ChunkSize \in Nat /\ p * ChunkSize \in Nat
          BY <2>2, <5>1
        <5> QED
          BY <1>2, <2>1, <5>2
      <4>5. first[p + 1] <= l
        BY <1>1, <4>2, <4>3, <4>4
      <4>6. first[p + 1] = first[p] + Len(pieces[p])
        BY <2>2, <4>2
      <4> QED
        BY <1>2, <1>3, <2>4, <4>5, <4>6
    <3> QED
      BY <3>1, <3>2
  <2>7. Follow(S, pieces, n, first, vals)
    BY <2>1, <2>3, <2>4, <2>5, <2>6 DEF Follow
  <2> QED
    BY <2>7, FlattenedIsAll
<1> QED
  BY <1>4, <1>5

\* Every value is found where get looks for it.
LEMMA GetFinds ==
    ASSUME NEW S, NEW vals \in Seq(S), NEW pieces, InChunks(S, pieces, vals, Len(vals)), NEW i \in 1 .. Len(vals)
    PROVE  Get(Copied(pieces, Len(vals)), i - 1) = vals[i]
<1> DEFINE n == Len(pieces)
           l == Len(vals)
           q == (i - 1) \div ChunkSize
           r == (i - 1) % ChunkSize
<1>1. ChunkSize \in Nat \ {0} /\ l \in Nat /\ i - 1 \in Nat
  BY PlanAssumption, LenProperties
<1>2. /\ pieces \in Seq(Seq(S)) /\ l <= n * ChunkSize /\ (n # 0 => (n - 1) * ChunkSize < l)
      /\ \A p \in 1 .. n : Len(pieces[p]) = IF p < n THEN ChunkSize ELSE l - (n - 1) * ChunkSize
      /\ \A p \in 1 .. n : \A k \in 1 .. Len(pieces[p]) : pieces[p][k] = vals[(p - 1) * ChunkSize + k]
  BY DEF InChunks
<1>3. n \in Nat
  BY <1>2, LenProperties
<1>4. q \in Nat /\ r \in 0 .. (ChunkSize - 1) /\ i - 1 = q * ChunkSize + r
  BY <1>1, DivMod
<1>5. Get(Copied(pieces, l), i - 1) = pieces[q + 1][r + 1]
  BY DEF Get, ChunkRows, Copied
<1> HIDE DEF q, r
<1>6. PICK m \in Nat : m = q * ChunkSize
  BY <1>1, <1>4
<1>7. q + 1 \in 1 .. n
  <2>1. ASSUME n <= q PROVE FALSE
    <3>1. n * ChunkSize <= q * ChunkSize /\ n * ChunkSize \in Nat
      BY <1>1, <1>3, <1>4, <2>1, ProductsAscend
    <3>2. PICK z \in Nat : z = n * ChunkSize
      BY <3>1
    <3>3. z <= m /\ l <= z /\ i - 1 = m + r /\ i <= l /\ i \in Nat
      BY <1>1, <1>2, <1>4, <1>6, <3>1, <3>2
    <3> QED
      BY <1>1, <1>4, <3>3
  <2> QED
    BY <1>3, <1>4, <2>1
<1>8. r + 1 \in 1 .. Len(pieces[q + 1])
  <2>1. CASE q + 1 < n
    BY <1>1, <1>2, <1>4, <1>7, <2>1
  <2>2. CASE q + 1 = n
    <3>1. q = n - 1 /\ Len(pieces[q + 1]) = l - m
      <4>1. q = n - 1 /\ ~ (q + 1 < n)
        BY <1>3, <1>4, <2>2
      <4>2. Len(pieces[q + 1]) = l - (n - 1) * ChunkSize
        BY <1>2, <1>7, <4>1
      <4> QED
        BY <1>6, <4>1, <4>2
    <3> QED
      BY <1>1, <1>4, <1>6, <3>1
  <2> QED
    BY <1>3, <1>7, <2>1, <2>2
<1>9. pieces[q + 1][r + 1] = vals[((q + 1) - 1) * ChunkSize + (r + 1)]
  BY <1>2, <1>7, <1>8
<1>10. ((q + 1) - 1) * ChunkSize + (r + 1) = i
  <2>1. (q + 1) - 1 = q
    BY <1>4
  <2> QED
    BY <1>1, <1>4, <1>6, <2>1
<1> QED
  BY <1>5, <1>9, <1>10

\* A place of all is a place of one of the pages, and the same place of both is one
\* of its twin.
Alike(first, all, both, seqs, twins, n) ==
    /\ first[1] = 0 /\ \A p \in 1 .. n : first[p + 1] = first[p] + Len(seqs[p])
    /\ \A i \in 1 .. Len(all) : \E p \in 1 .. n : \E k \in 1 .. Len(seqs[p]) :
          i = first[p] + k /\ all[i] = seqs[p][k] /\ both[i] = twins[p][k]

\* Sequences of pages of the same lengths are flattened alike.
LEMMA FlattenedAlike ==
    ASSUME NEW S, NEW R, NEW seqs \in Seq(Seq(S)), NEW twins \in Seq(Seq(R)), NEW n, n = Len(seqs), Len(twins) = n,
           \A p \in 1 .. n : Len(twins[p]) = Len(seqs[p])
    PROVE  /\ FlattenSeq(seqs) \in Seq(S) /\ FlattenSeq(twins) \in Seq(R)
           /\ Len(FlattenSeq(twins)) = Len(FlattenSeq(seqs))
           /\ \E first : Alike(first, FlattenSeq(seqs), FlattenSeq(twins), seqs, twins, n)
<1>1. n \in Nat
  BY LenProperties
<1>2. (\A p \in 1 .. n : seqs[p] \in Seq(S)) /\ (\A p \in 1 .. n : twins[p] \in Seq(R))
  BY <1>1, ElementOfSeq
<1>3. CASE n = 0
  <2>1. seqs = <<>> /\ twins = <<>>
    BY <1>3, EmptySeq
  <2>2. FlattenSeq(<<>>) = <<>>
    BY DEF FlattenSeq
  <2> DEFINE first == [p \in 1 .. 1 |-> 0]
  <2>3. first[1] = 0 /\ 1 .. n = {} /\ 1 .. Len(<<>>) = {} /\ <<>> \in Seq(S) /\ <<>> \in Seq(R)
    BY <1>3
  <2> HIDE DEF first
  <2>4. Alike(first, <<>>, <<>>, seqs, twins, n)
    BY <2>3 DEF Alike
  <2> QED
    BY <2>1, <2>2, <2>3, <2>4
<1>4. CASE n # 0
  <2>1. n \in Nat \ {0}
    BY <1>1, <1>4
  <2>2. PICK first, all : all \in Seq(S) /\ Follow(S, seqs, n, first, all) /\ Covers(seqs, n, first, all)
    BY <1>2, <2>1, FollowExists
  <2>3. PICK begin, both : both \in Seq(R) /\ Follow(R, twins, n, begin, both)
    BY <1>2, <2>1, FollowExists
  <2>4. FlattenSeq(seqs) = all /\ FlattenSeq(twins) = both
    BY <2>2, <2>3, FlattenedIsAll
  <2>5. /\ first \in [1 .. n + 1 -> Nat] /\ first[1] = 0 /\ first[n + 1] = Len(all)
        /\ \A p \in 1 .. n : first[p + 1] = first[p] + Len(seqs[p])
                             /\ \A k \in 1 .. Len(seqs[p]) : seqs[p][k] = all[first[p] + k]
    BY <2>2 DEF Follow
  <2>6. /\ begin[1] = 0 /\ begin[n + 1] = Len(both)
        /\ \A p \in 1 .. n : begin[p + 1] = begin[p] + Len(twins[p])
                             /\ \A k \in 1 .. Len(twins[p]) : twins[p][k] = both[begin[p] + k]
    BY <2>3 DEF Follow
  <2> DEFINE T == {p \in 0 .. n : first[p + 1] = begin[p + 1]}
  <2>7. 0 \in T
    <3>1. 0 \in 0 .. n /\ 0 + 1 = 1
      BY <1>1
    <3> QED
      BY <2>5, <2>6, <3>1
  <2>8. ASSUME NEW p \in 1 .. n, p - 1 \in T PROVE p \in T
    <3>1. (p - 1) + 1 = p /\ p \in 0 .. n
      BY <1>1
    <3>2. first[p] = begin[p]
      BY <2>8, <3>1
    <3> QED
      BY <2>5, <2>6, <3>1, <3>2
  <2>9. \A p \in 0 .. n : p \in T
    <3> HIDE DEF T
    <3> QED
      BY <1>1, <2>7, <2>8, Ascend
  <2>10. ASSUME NEW p \in 1 .. n + 1 PROVE first[p] = begin[p]
    <3>1. p - 1 \in 0 .. n /\ (p - 1) + 1 = p
      BY <1>1
    <3> QED
      BY <2>9, <3>1
  <2>11. Len(both) = Len(all)
    <3>1. n + 1 \in 1 .. n + 1
      BY <1>1
    <3>2. first[n + 1] = begin[n + 1]
      BY <2>10, <3>1
    <3> QED
      BY <2>5, <2>6, <3>2
  <2>12. ASSUME NEW i \in 1 .. Len(all)
         PROVE  \E p \in 1 .. n : \E k \in 1 .. Len(seqs[p]) :
                   i = first[p] + k /\ all[i] = seqs[p][k] /\ both[i] = twins[p][k]
    <3>1. PICK p \in 1 .. n : \E k \in 1 .. Len(seqs[p]) : i = first[p] + k
      BY <2>2 DEF Covers
    <3>2. PICK k \in 1 .. Len(seqs[p]) : i = first[p] + k
      BY <3>1
    <3>0. p \in 1 .. n + 1
      BY <1>1
    <3>3. first[p] = begin[p]
      BY <2>10, <3>0
    <3>4. all[i] = seqs[p][k] /\ both[i] = twins[p][k]
      BY <2>5, <2>6, <3>2, <3>3
    <3> QED
      BY <3>2, <3>4
  <2>13. first[1] = 0 /\ \A p \in 1 .. n : first[p + 1] = first[p] + Len(seqs[p])
    BY <2>5
  <2>14. all \in Seq(S) /\ both \in Seq(R)
    BY <2>2, <2>3
  <2>15. \A i \in 1 .. Len(all) : \E p \in 1 .. n : \E k \in 1 .. Len(seqs[p]) :
            i = first[p] + k /\ all[i] = seqs[p][k] /\ both[i] = twins[p][k]
    BY <2>12
  <2> HIDE DEF T
  <2>16. Alike(first, all, both, seqs, twins, n)
    BY <2>13, <2>15 DEF Alike
  <2> QED
    BY <2>4, <2>11, <2>14, <2>16
<1> QED
  BY <1>3, <1>4

\* A column of a result that has the values of vals, each where get looks for it.
Reads(col, vals) ==
    /\ Len(vals) \in Nat
    /\ col.total_size = Len(vals)
    /\ Len(FlattenSeq(col.chunks)) = Len(vals)
    /\ col.is_view \in BOOLEAN
    /\ col.is_view /\ Len(vals) # 0 => ChunkRows(col) \in Nat \ {0}
    /\ \A i \in 1 .. Len(vals) : Get(col, i - 1) = vals[i]

\* A column that is filled with values has them.
LEMMA FilledReads ==
    ASSUME NEW S, NEW vals \in Seq(S)
    PROVE  Reads(Filled(vals), vals)
<1>1. PICK pieces : Filled(vals) = Copied(pieces, Len(vals)) /\ InChunks(S, pieces, vals, Len(vals))
  BY FilledIs
<1>2. FlattenSeq(pieces) = vals
  BY <1>1, ChunksFlattened
<1>3. \A i \in 1 .. Len(vals) : Get(Filled(vals), i - 1) = vals[i]
  BY <1>1, GetFinds
<1>4. Filled(vals).total_size = Len(vals) /\ Filled(vals).chunks = pieces /\ Filled(vals).is_view = FALSE
  BY <1>1 DEF Copied
<1>5. Len(vals) \in Nat
  BY LenProperties
<1> QED
  BY <1>2, <1>3, <1>4, <1>5 DEF Reads

\* Nothing moves on a page without a NULL.
LEMMA InPlaceIs ==
    ASSUME NEW S, NEW page \in Seq(S), Null \notin Range(page)
    PROVE  InPlace(page) = page
<1> DEFINE n == Len(page)
           stored == {r \in DOMAIN page : page[r] # Null}
           upto(r) == {s \in stored : s <= r}
<1>1. n \in Nat /\ DOMAIN page = 1 .. n
  BY LenProperties
<1>2. stored = 1 .. n
  BY <1>1 DEF Range
<1> HIDE DEF stored
<1>3. \A r \in 1 .. n : Cardinality(upto(r)) = r
  <2>1. ASSUME NEW r \in 1 .. n PROVE Cardinality(upto(r)) = r
    <3>1. upto(r) = 1 .. r
      BY <1>1, <1>2
    <3>2. Cardinality(1 .. r) = r
      <4>1. 1 \in Int /\ r \in Int /\ ~ (1 > r) /\ r - 1 + 1 = r
        BY <1>1
      <4> QED
        BY <4>1, FS_Interval
    <3> HIDE DEF upto
    <3> QED
      BY <3>1, <3>2
  <2> QED
    BY <2>1
<1>4. Cardinality(stored) = n
  <2>1. 1 \in Int /\ n \in Int /\ (1 > n <=> n = 0) /\ n - 1 + 1 = n
    BY <1>1
  <2> QED
    BY <1>2, <2>1, FS_Interval
<1>5. InPlace(page) = [k \in DOMAIN page |-> IF k > Cardinality(stored) THEN Garbage
                               ELSE page[CHOOSE r \in stored : Cardinality(upto(r)) = k]]
  BY DEF InPlace, stored
<1> HIDE DEF upto
<1>6. ASSUME NEW k \in 1 .. n
      PROVE  (IF k > Cardinality(stored) THEN Garbage ELSE page[CHOOSE r \in stored : Cardinality(upto(r)) = k]) = page[k]
  <2>1. ~ (k > Cardinality(stored))
    BY <1>1, <1>4
  <2>2. (CHOOSE r \in stored : Cardinality(upto(r)) = k) = k
    BY <1>2, <1>3
  <2> QED
    BY <2>1, <2>2
<1>7. InPlace(page) = [k \in DOMAIN page |-> page[k]]
  BY <1>1, <1>5, <1>6
<1>8. page = [k \in DOMAIN page |-> page[k]]
  BY <1>1, SeqDef
<1> QED
  BY <1>7, <1>8

\* Pages that are full but for the last one, which is not empty.
FullPages(pages, full) ==
    /\ full = Len(pages[1])
    /\ \A p \in DOMAIN pages :
          /\ pages[p] # <<>>
          /\ Len(pages[p]) <= full
          /\ p < Len(pages) => Len(pages[p]) = full

\* Every row of such pages is where the first page's rows per page say.
LEMMA FullPagesRead ==
    ASSUME NEW S, NEW pages \in Seq(Seq(S)), NEW full, FullPages(pages, full), NEW i \in 1 .. Len(FlattenSeq(pages))
    PROVE  /\ full \in Nat \ {0}
           /\ pages[((i - 1) \div full) + 1][((i - 1) % full) + 1] = FlattenSeq(pages)[i]
<1> DEFINE n == Len(pages)
           all == FlattenSeq(pages)
<1>1. n \in Nat /\ DOMAIN pages = 1 .. n /\ \A p \in 1 .. n : pages[p] \in Seq(S)
  BY LenProperties, ElementOfSeq
<1>2. all \in Seq(S) /\ \E first : Alike(first, all, all, pages, pages, n)
  BY FlattenedAlike
<1>3. PICK first : Alike(first, all, all, pages, pages, n)
  BY <1>2
<1> HIDE DEF all
<1>4. /\ first[1] = 0 /\ \A p \in 1 .. n : first[p + 1] = first[p] + Len(pages[p])
      /\ \A j \in 1 .. Len(all) : \E p \in 1 .. n : \E k \in 1 .. Len(pages[p]) :
            j = first[p] + k /\ all[j] = pages[p][k] /\ all[j] = pages[p][k]
  BY <1>3 DEF Alike
<1>5. PICK p \in 1 .. n : \E k \in 1 .. Len(pages[p]) : i = first[p] + k /\ all[i] = pages[p][k]
  BY <1>4 DEF all
<1>6. PICK k \in 1 .. Len(pages[p]) : i = first[p] + k /\ all[i] = pages[p][k]
  BY <1>5
<1>7. /\ full = Len(pages[1]) /\ \A q \in 1 .. n : pages[q] # <<>> /\ Len(pages[q]) <= full
                                                   /\ (q < n => Len(pages[q]) = full)
  BY <1>1 DEF FullPages
<1>8. full \in Nat \ {0}
  <2>1. 1 \in 1 .. n
    BY <1>1
  <2>2. pages[1] \in Seq(S) /\ pages[1] # <<>>
    BY <1>1, <1>7, <2>1
  <2> QED
    BY <1>7, <2>2, EmptySeq, LenProperties
<1> DEFINE T == {q \in 0 .. n - 1 : first[q + 1] = q * full}
<1>9. 0 \in T
  BY <1>1, <1>4, <1>8
<1>10. ASSUME NEW q \in 1 .. n - 1, q - 1 \in T PROVE q \in T
  <2>1. q \in 1 .. n /\ q < n /\ (q - 1) + 1 = q /\ q \in 0 .. n - 1
    BY <1>1
  <2>2. first[q] = (q - 1) * full
    BY <1>10, <2>1
  <2>3. first[q + 1] = (q - 1) * full + full
    BY <1>4, <1>7, <2>1, <2>2
  <2>4. q * full = (q - 1) * full + full
    <3>1. q - 1 \in Nat
      BY <1>1
    <3>2. ((q - 1) + 1) * full = (q - 1) * full + full
      BY <1>8, <3>1, OneMore
    <3> QED
      BY <2>1, <3>2
  <2> QED
    BY <2>1, <2>3, <2>4
<1>11. first[p] = (p - 1) * full
  <2>1. p - 1 \in 0 .. n - 1 /\ n - 1 \in Nat /\ (p - 1) + 1 = p
    BY <1>1
  <2> HIDE DEF T
  <2>2. p - 1 \in T
    BY <1>9, <1>10, <2>1, Ascend
  <2> QED
    BY <2>1, <2>2 DEF T
<1> HIDE DEF T
<1>12. k - 1 \in 0 .. full - 1 /\ p - 1 \in Nat
  <2>1. pages[p] \in Seq(S) /\ Len(pages[p]) <= full
    BY <1>1, <1>7
  <2>2. Len(pages[p]) \in Nat
    BY <2>1, LenProperties
  <2> QED
    BY <1>1, <1>8, <2>1, <2>2
<1> DEFINE q == (i - 1) \div full
           r == (i - 1) % full
<1>13. PICK m \in Nat : m = (p - 1) * full
  BY <1>8, <1>12
<1>14. i - 1 = m + (k - 1) /\ i - 1 \in Nat
  <2>1. i = m + k
    <3>1. first[p] = m
      BY <1>11, <1>13
    <3> QED
      BY <1>6, <3>1
  <2>2. k \in Int /\ k >= 1
    BY <1>12
  <2> QED
    BY <2>1, <2>2
<1>15. q = p - 1 /\ r = k - 1
  <2>1. q \in Nat /\ r \in 0 .. (full - 1) /\ i - 1 = q * full + r
    BY <1>8, <1>14, DivMod
  <2>2. \A x \in Nat : x <= q <=> x * full <= i - 1
    BY <1>8, <1>14, Quotient
  <2> HIDE DEF q, r
  <2>3. p - 1 <= q
    BY <1>12, <1>13, <1>14, <2>2
  <2>4. ~ (p <= q)
    <3>1. p * full = m + full
      <4>1. ((p - 1) + 1) * full = (p - 1) * full + full /\ (p - 1) + 1 = p
        BY <1>8, <1>12, OneMore
      <4> QED
        BY <1>13, <4>1
    <3>2. ~ (p * full <= i - 1)
      BY <1>8, <1>12, <1>13, <1>14, <3>1
    <3> QED
      BY <1>1, <2>2, <3>2
  <2>5. q = p - 1
    BY <1>12, <2>1, <2>3, <2>4
  <2> QED
    BY <1>12, <1>13, <1>14, <2>1, <2>5
<1>16. q + 1 = p /\ r + 1 = k
  BY <1>12, <1>15
<1> HIDE DEF q, r
<1>17. pages[q + 1][r + 1] = all[i]
  BY <1>6, <1>16
<1> QED
  BY <1>8, <1>17 DEF q, r, all

\* The value of each row is the base column's, when strings are looked up.
LooksUp(vals, type, base) ==
    /\ Len(vals) = Len(base)
    /\ \A i \in 1 .. Len(base) : Inserted(type, vals[i]) = base[i]

StringPlaces == [table : Nat, col : Nat, page : Nat, at : Nat]

\* A number that fits is not changed by the width of its field.
LEMMA SmallMod == \A n \in Nat \ {0} : \A i \in 0 .. (n - 1) : i % n = i
OBVIOUS

\* What a cursor reads are the column's values, or where its strings are, by numbers
\* that fit a StringIndex.
LEMMA CursorReads ==
    ASSUME NEW t \in DOMAIN Inputs, NEW c \in Nat, c + 1 \in DOMAIN Inputs[t].columns
    PROVE  LET column == Inputs[t].columns[c + 1]
               vals == CursorValues(t - 1, c, column.type)
           IN  /\ vals \in Seq(Values[column.type] \union {Null} \union StringPlaces)
               /\ LooksUp(vals, column.type, FlattenSeq(column.pages))
<1> DEFINE column == Inputs[t].columns[c + 1]
           type == column.type
           pages == column.pages
           n == Len(pages)
           S == Values[type] \union {Null}
           R == S \union StringPlaces
           m == Inputs[t].num_rows
           value(p, k) == LET v == pages[p][k]
                          IN  IF type = "VARCHAR" /\ v # Null THEN [table |-> (t - 1) % TableIds, col |-> c % ColIds, page |-> (p - 1) % PageIds, at |-> k] ELSE v
           page(p) == [k \in DOMAIN pages[p] |-> value(p, k)]
           twins == [p \in DOMAIN pages |-> page(p)]
           read == FlattenSeq(twins)
           base == FlattenSeq(pages)
           vals == CursorValues(t - 1, c, type)
<1>1. /\ t - 1 \in Nat /\ (t - 1) + 1 = t /\ m \in Nat
      /\ pages \in Seq(Seq(S)) /\ Len(base) = m /\ Null \notin StringPlaces
  <2>1. WellFormedColumn(Inputs[t].columns[c + 1], m) /\ m \in Nat
    BY PlanAssumption
  <2>2. t - 1 \in Nat /\ (t - 1) + 1 = t
    BY PlanAssumption
  <2> QED
    BY <2>1, <2>2, PlanAssumption DEF WellFormedColumn, StringPlaces
<1>2. n \in Nat /\ DOMAIN pages = 1 .. n
      /\ \A p \in 1 .. n : pages[p] \in Seq(S) /\ Len(pages[p]) \in Nat /\ DOMAIN pages[p] = 1 .. Len(pages[p])
  BY <1>1, LenProperties, ElementOfSeq
<1>3. vals = [r \in 1 .. m |-> IF r \in DOMAIN read THEN read[r] ELSE Null]
  BY <1>1 DEF CursorValues
<1>4. ASSUME NEW p \in 1 .. n, NEW k \in 1 .. Len(pages[p])
      PROVE  value(p, k) \in R /\ Inserted(type, value(p, k)) = pages[p][k]
  <2>1. pages[p][k] \in S
    BY <1>2, ElementOfSeq
  <2>2. CASE type = "VARCHAR" /\ pages[p][k] # Null
    <3> DEFINE place == [table |-> t - 1, col |-> c, page |-> p - 1, at |-> k]
    <3>1. value(p, k) = place
      <4>1. t <= TableIds /\ c + 1 <= ColIds /\ n <= PageIds
        <5>1. IndexesFit /\ Inputs[t].columns[c + 1].type = "VARCHAR"
          BY <2>2, PlanAssumption
        <5> QED
          BY <5>1 DEF IndexesFit
      <4>2. /\ t - 1 \in 0 .. (TableIds - 1) /\ c \in 0 .. (ColIds - 1) /\ p - 1 \in 0 .. (PageIds - 1)
            /\ TableIds \in Nat \ {0} /\ ColIds \in Nat \ {0} /\ PageIds \in Nat \ {0}
        <5>1. TableIds \in Nat \ {0} /\ ColIds \in Nat \ {0} /\ PageIds \in Nat \ {0}
          BY PlanAssumption
        <5>2. n \in Nat /\ p \in 1 .. n /\ c \in Nat
          BY <1>2
        <5> HIDE DEF n
        <5>3. t - 1 \in 0 .. (TableIds - 1) /\ c \in 0 .. (ColIds - 1)
          BY <1>1, <4>1, <5>1, <5>2, PlanAssumption
        <5>4. p - 1 \in 0 .. (PageIds - 1)
          BY <4>1, <5>1, <5>2
        <5> QED
          BY <5>1, <5>3, <5>4
      <4>3. (t - 1) % TableIds = t - 1 /\ c % ColIds = c /\ (p - 1) % PageIds = p - 1
        BY <4>2, SmallMod
      <4> QED
        BY <2>2, <4>3
    <3>2. place \in StringPlaces
      <4>1. p - 1 \in Nat /\ k \in Nat
        BY <1>2
      <4> QED
        BY <1>1, <4>1 DEF StringPlaces
    <3>3. place # Null
      BY <1>1, <3>2
    <3>4. Text(place) = pages[p][k]
      <4>1. (p - 1) + 1 = p
        BY <1>2
      <4> QED
        BY <1>1, <4>1 DEF Text
    <3> HIDE DEF place, value
    <3> QED
      BY <2>2, <3>1, <3>2, <3>3, <3>4 DEF Inserted
  <2>3. CASE ~ (type = "VARCHAR" /\ pages[p][k] # Null)
    <3>1. value(p, k) = pages[p][k]
      BY <2>3
    <3> HIDE DEF value
    <3> QED
      BY <2>1, <2>3, <3>1 DEF Inserted
  <2> QED
    BY <2>2, <2>3
<1> HIDE DEF value
<1>5. ASSUME NEW p \in 1 .. n PROVE page(p) \in Seq(R) /\ Len(page(p)) = Len(pages[p])
  <2>1. page(p) \in [1 .. Len(pages[p]) -> R]
    BY <1>2, <1>4
  <2>2. Len(pages[p]) \in Nat
    BY <1>2
  <2> HIDE DEF page, R
  <2>3. page(p) \in Seq(R)
    BY <2>1, <2>2, SeqDef
  <2> QED
    BY <2>1, <2>2, <2>3, LenProperties
<1> HIDE DEF page
<1>6. twins \in Seq(Seq(R)) /\ Len(twins) = n /\ \A p \in 1 .. n : twins[p] = page(p)
  <2>1. twins \in [1 .. n -> Seq(R)]
    BY <1>2, <1>5
  <2> QED
    BY <1>2, <2>1, SeqDef, LenProperties
<1> HIDE DEF twins
<1>7. \A p \in 1 .. n : Len(twins[p]) = Len(pages[p])
  BY <1>5, <1>6
<1>8. /\ base \in Seq(S) /\ read \in Seq(R) /\ Len(read) = Len(base)
      /\ \E first : Alike(first, base, read, pages, twins, n)
  <2>1. pages \in Seq(Seq(S)) /\ twins \in Seq(Seq(R)) /\ n = Len(pages) /\ Len(twins) = n
    BY <1>1, <1>6
  <2> HIDE DEF S, R, pages, n
  <2> QED
    BY <1>7, <2>1, FlattenedAlike
<1>9. PICK first : Alike(first, base, read, pages, twins, n)
  BY <1>8
<1> HIDE DEF read, base
<1>10. DOMAIN read = 1 .. m /\ Len(read) = m
  BY <1>1, <1>8, LenProperties
<1>11. vals = read
  <2>1. vals = [r \in 1 .. m |-> read[r]]
    BY <1>3, <1>10
  <2>2. read = [r \in 1 .. m |-> read[r]]
    BY <1>8, <1>10, SeqDef
  <2> QED
    BY <2>1, <2>2
<1>12. ASSUME NEW i \in 1 .. Len(base) PROVE Inserted(type, read[i]) = base[i]
  <2>1. PICK p \in 1 .. n : \E k \in 1 .. Len(pages[p]) : base[i] = pages[p][k] /\ read[i] = twins[p][k]
    BY <1>9 DEF Alike
  <2>2. PICK k \in 1 .. Len(pages[p]) : base[i] = pages[p][k] /\ read[i] = twins[p][k]
    BY <2>1
  <2>3. twins[p][k] = value(p, k)
    <3>1. k \in DOMAIN pages[p]
      BY <1>2
    <3> QED
      BY <1>6, <3>1 DEF page
  <2> QED
    BY <1>4, <2>2, <2>3
<1> HIDE DEF vals
<1>13. LooksUp(vals, type, base) /\ vals \in Seq(R)
  BY <1>8, <1>11, <1>12 DEF LooksUp
<1> QED
  BY <1>13 DEF vals, base

\* The columns a scan can read in place.
LEMMA ViewReads ==
    ASSUME NEW t \in DOMAIN Inputs, NEW c \in Nat, c + 1 \in DOMAIN Inputs[t].columns,
           CanView(Inputs[t].columns[c + 1], Inputs[t].columns[c + 1].type)
    PROVE  LET column == Inputs[t].columns[c + 1]
           IN  /\ LooksUp(FlattenSeq(column.pages), column.type, FlattenSeq(column.pages))
               /\ Reads([is_view |-> TRUE, chunks |-> [p \in DOMAIN column.pages |-> InPlace(column.pages[p])],
                         total_size |-> Inputs[t].num_rows], FlattenSeq(column.pages))
<1> DEFINE column == Inputs[t].columns[c + 1]
           type == column.type
           pages == column.pages
           n == Len(pages)
           S == Values[type] \union {Null}
           m == Inputs[t].num_rows
           base == FlattenSeq(pages)
           pieces == [p \in DOMAIN pages |-> InPlace(pages[p])]
           view == [is_view |-> TRUE, chunks |-> pieces, total_size |-> m]
<1>1. m \in Nat /\ WellFormedColumn(column, m)
  BY PlanAssumption
<1>2. pages \in Seq(Seq(S)) /\ Len(base) = m
  BY <1>1 DEF WellFormedColumn
<1>3. type = "INT32" /\ pages # <<>> /\ \A p \in DOMAIN pages : Null \notin Range(pages[p])
  BY DEF CanView
<1>4. FullPages(pages, Len(pages[1]))
  <2>1. \A p \in DOMAIN pages : Null \notin ToSet(pages[p])
    BY <1>3 DEF Range, ToSet
  <2> QED
    BY <1>1, <1>3, <2>1 DEF WellFormedColumn, FullPages
<1>5. n \in Nat /\ DOMAIN pages = 1 .. n /\ \A p \in 1 .. n : pages[p] \in Seq(S)
  BY <1>2, LenProperties, ElementOfSeq
<1>6. pieces = pages
  <2>1. \A p \in DOMAIN pages : InPlace(pages[p]) = pages[p]
    BY <1>3, <1>5, InPlaceIs
  <2> HIDE DEF pages, S
  <2>2. pages = [p \in DOMAIN pages |-> pages[p]]
    <3>1. pages \in [1 .. n -> Seq(S)]
      BY <1>2, LenProperties DEF n
    <3> QED
      BY <3>1
  <2> QED
    BY <2>1, <2>2
<1> HIDE DEF pieces
<1>7. view.is_view = TRUE /\ view.chunks = pages /\ view.total_size = m
  BY <1>6
<1> HIDE DEF view
<1>8. ChunkRows(view) = Len(pages[1])
  BY <1>7 DEF ChunkRows
<1>9. \A i \in 1 .. Len(base) :
         Len(pages[1]) \in Nat \ {0} /\ pages[((i - 1) \div Len(pages[1])) + 1][((i - 1) % Len(pages[1])) + 1] = base[i]
  <2> HIDE DEF S, pages
  <2> QED
    BY <1>2, <1>4, FullPagesRead
<1>10. \A i \in 1 .. Len(base) : Get(view, i - 1) = base[i]
  BY <1>7, <1>8, <1>9 DEF Get
<1>11. Reads(view, base)
  <2>1. Len(base) # 0 => Len(pages[1]) \in Nat \ {0}
    <3>1. Len(base) # 0 => 1 \in 1 .. Len(base)
      BY <1>1, <1>2
    <3> QED
      BY <1>9, <3>1
  <2> QED
    BY <1>1, <1>2, <1>7, <1>8, <1>10, <2>1 DEF Reads
<1>12. LooksUp(base, type, base)
  BY <1>3 DEF LooksUp, Inserted
<1> QED
  BY <1>11, <1>12 DEF view, pieces

\* A scanned column has the values of the table's, in place or copied.
LEMMA ScanReads ==
    ASSUME NEW t \in DOMAIN Inputs, NEW attr, attr[1] \in Nat, attr[1] + 1 \in DOMAIN Inputs[t].columns,
           attr[2] = Inputs[t].columns[attr[1] + 1].type
    PROVE  \E vals : /\ Reads(ScanColumn(t - 1, attr), vals)
                     /\ LooksUp(vals, attr[2], FlattenSeq(Inputs[t].columns[attr[1] + 1].pages))
<1> DEFINE c == attr[1]
           column == Inputs[t].columns[c + 1]
           base == FlattenSeq(column.pages)
           view == [is_view |-> TRUE, chunks |-> [p \in DOMAIN column.pages |-> InPlace(column.pages[p])],
                    total_size |-> Inputs[t].num_rows]
<1>1. (t - 1) + 1 = t
  BY PlanAssumption
<1>2. ScanColumn(t - 1, attr) = IF CanView(column, attr[2]) THEN view ELSE Filled(CursorValues(t - 1, c, attr[2]))
  BY <1>1 DEF ScanColumn
<1>3. CASE CanView(column, attr[2])
  <2>1. Reads(view, base) /\ LooksUp(base, attr[2], base)
    BY <1>3, ViewReads
  <2> HIDE DEF view
  <2> QED
    BY <1>2, <1>3, <2>1
<1>4. CASE ~ CanView(column, attr[2])
  <2> DEFINE vals == CursorValues(t - 1, c, attr[2])
  <2>1. vals \in Seq(Values[column.type] \union {Null} \union StringPlaces) /\ LooksUp(vals, attr[2], base)
    BY CursorReads
  <2> HIDE DEF vals
  <2>2. Reads(Filled(vals), vals)
    BY <2>1, FilledReads
  <2> QED
    BY <1>2, <1>4, <2>1, <2>2 DEF vals
<1> QED
  BY <1>3, <1>4

-----------------------------------------------------------------------------
(* A plan is a tree. *)

NodeIn(p, n) == p.nodes[n + 1]
Ids(p) == 0 .. (Len(p.nodes) - 1)
IsJoinIn(p, n) == "left" \in DOMAIN NodeIn(p, n)
Joins(p) == {n \in Ids(p) : IsJoinIn(p, n)}
LeftChild(p, n) == NodeIn(p, n).left
RightChild(p, n) == NodeIn(p, n).right
Children(p, n) == {LeftChild(p, n), RightChild(p, n)}
AttrsIn(p, n) == NodeIn(p, n).output_attrs

\* A depth that grows from every join to its children.
Descends(p, depth) ==
    /\ depth \in [Ids(p) -> Ids(p)]
    /\ \A n \in Joins(p) : \A child \in Children(p, n) : depth[n] < depth[child]

IsTree(p) ==
    /\ Len(p.nodes) \in Nat
    /\ p.root \in Ids(p)
    /\ \A n \in Joins(p) : Children(p, n) \subseteq Ids(p) \ {p.root} /\ LeftChild(p, n) # RightChild(p, n)
    /\ \A n \in Ids(p) \ {p.root} : \E m \in Joins(p) : n \in Children(p, m)
    /\ \A m, n \in Joins(p) : m # n => Children(p, m) \intersect Children(p, n) = {}
    /\ \E depth : Descends(p, depth)

LEMMA PlansAreTrees ==
    ASSUME NEW p \in Plans
    PROVE  IsTree(p)
<1>1. WellFormed(p)
  BY PlanAssumption
<1> DEFINE joins == {n \in Ids(p) : "left" \in DOMAIN p.nodes[n + 1]}
<1>2. Joins(p) = joins
  BY DEF Joins, IsJoinIn, NodeIn
<1>3. \A n : Children(p, n) = {p.nodes[n + 1].left, p.nodes[n + 1].right}
             /\ LeftChild(p, n) = p.nodes[n + 1].left /\ RightChild(p, n) = p.nodes[n + 1].right
  BY DEF Children, LeftChild, RightChild, NodeIn
<1>4. /\ Len(p.nodes) \in Nat /\ p.root \in Ids(p)
      /\ \A n \in joins : /\ {p.nodes[n + 1].left, p.nodes[n + 1].right} \subseteq Ids(p) \ {p.root}
                          /\ p.nodes[n + 1].left # p.nodes[n + 1].right
      /\ \A n \in Ids(p) \ {p.root} : \E m \in joins : n \in {p.nodes[m + 1].left, p.nodes[m + 1].right}
      /\ \A m, n \in joins : m # n => {p.nodes[m + 1].left, p.nodes[m + 1].right}
                                      \intersect {p.nodes[n + 1].left, p.nodes[n + 1].right} = {}
  BY <1>1 DEF WellFormed, Ids
<1>5. \E depth \in [Ids(p) -> Ids(p)] :
          \A n \in joins : \A child \in {p.nodes[n + 1].left, p.nodes[n + 1].right} : depth[n] < depth[child]
  BY <1>1 DEF WellFormed, Ids
<1> HIDE DEF joins
<1>6. \E depth : Descends(p, depth)
  <2>1. PICK depth \in [Ids(p) -> Ids(p)] :
          \A n \in joins : \A child \in {p.nodes[n + 1].left, p.nodes[n + 1].right} : depth[n] < depth[child]
    BY <1>5
  <2>2. Descends(p, depth)
    BY <1>2, <1>3, <2>1 DEF Descends
  <2> QED
    BY <2>2
<1>7. \A n \in Joins(p) : Children(p, n) \subseteq Ids(p) \ {p.root} /\ LeftChild(p, n) # RightChild(p, n)
  BY <1>2, <1>3, <1>4
<1>8. ASSUME NEW n \in Ids(p) \ {p.root} PROVE \E m \in Joins(p) : n \in Children(p, m)
  <2>1. PICK m \in joins : n \in {p.nodes[m + 1].left, p.nodes[m + 1].right}
    BY <1>4
  <2>2. Children(p, m) = {p.nodes[m + 1].left, p.nodes[m + 1].right}
    BY <1>3
  <2> QED
    BY <1>2, <2>1, <2>2
<1>9. ASSUME NEW m \in Joins(p), NEW n \in Joins(p), m # n PROVE Children(p, m) \intersect Children(p, n) = {}
  <2>1. {p.nodes[m + 1].left, p.nodes[m + 1].right} \intersect {p.nodes[n + 1].left, p.nodes[n + 1].right} = {}
    BY <1>2, <1>4, <1>9
  <2>2. /\ Children(p, m) = {p.nodes[m + 1].left, p.nodes[m + 1].right}
        /\ Children(p, n) = {p.nodes[n + 1].left, p.nodes[n + 1].right}
    BY <1>3
  <2> QED
    BY <2>1, <2>2
<1> QED
  BY <1>4, <1>6, <1>7, <1>8, <1>9 DEF IsTree

\* The nodes of the subtree of node a: whatever contains a and the children of every
\* join in it contains them.
Closed(p, T) == \A n \in T \intersect Joins(p) : Children(p, n) \subseteq T
Under(p, a) == {x \in Ids(p) : \A T \in SUBSET Ids(p) : a \in T /\ Closed(p, T) => x \in T}
ScansUnder(p, a) == Under(p, a) \ Joins(p)
JoinsUnder(p, a) == Under(p, a) \intersect Joins(p)

LEMMA UnderClosed ==
    ASSUME NEW p, IsTree(p), NEW a \in Ids(p)
    PROVE  a \in Under(p, a) /\ Under(p, a) \subseteq Ids(p) /\ Closed(p, Under(p, a))
<1>1. a \in Under(p, a) /\ Under(p, a) \subseteq Ids(p)
  BY DEF Under
<1>2. ASSUME NEW n \in Under(p, a) \intersect Joins(p), NEW child \in Children(p, n) PROVE child \in Under(p, a)
  <2>1. child \in Ids(p)
    BY <1>2 DEF IsTree
  <2>2. ASSUME NEW T \in SUBSET Ids(p), a \in T, Closed(p, T) PROVE child \in T
    <3>1. n \in T
      BY <1>2, <2>2 DEF Under
    <3> QED
      BY <1>2, <2>2, <3>1 DEF Closed
  <2> QED
    BY <2>1, <2>2 DEF Under
<1> QED
  BY <1>1, <1>2 DEF Closed

LEMMA UnderLeast ==
    ASSUME NEW p, NEW a \in Ids(p), NEW T \in SUBSET Ids(p), a \in T, Closed(p, T)
    PROVE  Under(p, a) \subseteq T
BY DEF Under

\* Every node of the subtree but its root has its parent there.
LEMMA ParentUnder ==
    ASSUME NEW p, IsTree(p), NEW a \in Ids(p), NEW x \in Under(p, a), x # a
    PROVE  \E m \in JoinsUnder(p, a) : x \in Children(p, m)
<1> SUFFICES ASSUME \A m \in JoinsUnder(p, a) : x \notin Children(p, m) PROVE FALSE
  OBVIOUS
<1> DEFINE T == Under(p, a) \ {x}
<1>1. a \in T /\ T \in SUBSET Ids(p)
  BY UnderClosed
<1>2. Closed(p, T)
  <2>1. Closed(p, Under(p, a))
    BY UnderClosed
  <2> QED
    BY <2>1 DEF Closed, JoinsUnder
<1>3. Under(p, a) \subseteq T
  <2> HIDE DEF T
  <2> QED
    BY <1>1, <1>2, UnderLeast
<1> QED
  BY <1>3

\* The subtree goes down.
LEMMA UnderDeeper ==
    ASSUME NEW p, IsTree(p), NEW depth, Descends(p, depth), NEW a \in Ids(p)
    PROVE  \A x \in Under(p, a) : depth[a] <= depth[x]
<1> DEFINE T == {x \in Ids(p) : depth[a] <= depth[x]}
<1>1. depth \in [Ids(p) -> Ids(p)] /\ Ids(p) \subseteq Nat
  BY DEF Descends, Ids
<1>2. a \in T /\ T \in SUBSET Ids(p)
  BY <1>1
<1>3. ASSUME NEW n \in T, n \in Joins(p), NEW child \in Children(p, n) PROVE child \in T
  <2>1. child \in Ids(p) /\ depth[n] < depth[child]
    BY <1>3 DEF IsTree, Descends
  <2>2. depth[n] \in Nat /\ depth[a] \in Nat /\ depth[child] \in Nat
    BY <1>1, <2>1
  <2> QED
    BY <2>1, <2>2
<1>4. Closed(p, T)
  BY <1>3 DEF Closed
<1> HIDE DEF T
<1>5. Under(p, a) \subseteq T
  BY <1>2, <1>4, UnderLeast
<1> QED
  BY <1>5 DEF T

\* Of nodes there is one that is nowhere deeper than another.
LEMMA Shallowest ==
    ASSUME NEW p, NEW depth, Descends(p, depth), NEW T \in SUBSET Ids(p), T # {}
    PROVE  \E x \in T : \A y \in T : depth[x] <= depth[y]
<1> DEFINE D == {depth[x] : x \in T}
<1>1. depth \in [Ids(p) -> Ids(p)] /\ Ids(p) \subseteq Nat
  BY DEF Descends, Ids
<1>2. D \in SUBSET Nat /\ D # {}
  BY <1>1
<1>3. \E d \in D : \A e \in D : d <= e
  <2> HIDE DEF D
  <2> QED
    BY <1>2, Least
<1> QED
  BY <1>3

\* A scan is alone, a join is above the subtrees of its children, which are apart, and
\* every node is under the root.
LEMMA UnderScan ==
    ASSUME NEW p, IsTree(p), NEW a \in Ids(p) \ Joins(p)
    PROVE  Under(p, a) = {a}
<1>1. Closed(p, {a})
  BY DEF Closed
<1> QED
  BY <1>1, UnderClosed, UnderLeast

LEMMA UnderJoin ==
    ASSUME NEW p, IsTree(p), NEW a \in Joins(p)
    PROVE  LET l == LeftChild(p, a)
               r == RightChild(p, a)
           IN  /\ l \in Ids(p) /\ r \in Ids(p)
               /\ Under(p, a) = {a} \union Under(p, l) \union Under(p, r)
               /\ Under(p, l) \intersect Under(p, r) = {}
               /\ a \notin Under(p, l) /\ a \notin Under(p, r)
<1> DEFINE l == LeftChild(p, a)
           r == RightChild(p, a)
           T == {a} \union Under(p, l) \union Under(p, r)
<1>0. a \in Ids(p)
  BY DEF Joins
<1>1. l \in Ids(p) /\ r \in Ids(p) /\ l # r /\ Children(p, a) = {l, r}
  BY DEF IsTree, Children
<1>2. PICK depth : Descends(p, depth)
  BY DEF IsTree
<1>3. depth \in [Ids(p) -> Ids(p)] /\ Ids(p) \subseteq Nat
  BY <1>2 DEF Descends, Ids
<1> HIDE DEF l, r
<1>4. l \in Under(p, l) /\ r \in Under(p, r) /\ Under(p, l) \subseteq Ids(p) /\ Under(p, r) \subseteq Ids(p)
      /\ Closed(p, Under(p, l)) /\ Closed(p, Under(p, r))
  BY <1>1, UnderClosed
<1>5. Under(p, a) \subseteq T
  <2>1. Closed(p, T) /\ T \in SUBSET Ids(p) /\ a \in T
    BY <1>0, <1>1, <1>4 DEF Closed
  <2> HIDE DEF T
  <2> QED
    BY <1>0, <2>1, UnderLeast
<1>6. T \subseteq Under(p, a)
  <2>1. a \in Under(p, a) /\ Closed(p, Under(p, a)) /\ Under(p, a) \in SUBSET Ids(p)
    BY <1>0, UnderClosed
  <2>2. l \in Under(p, a) /\ r \in Under(p, a)
    BY <1>1, <2>1 DEF Closed
  <2>3. Under(p, l) \subseteq Under(p, a) /\ Under(p, r) \subseteq Under(p, a)
    BY <1>1, <2>1, <2>2, UnderLeast
  <2> QED
    BY <2>1, <2>3
<1>7. ASSUME NEW child \in {l, r} PROVE a \notin Under(p, child)
  <2>1. depth[a] < depth[child] /\ child \in Ids(p)
    BY <1>1, <1>2 DEF Descends
  <2>2. a \in Under(p, child) => depth[child] <= depth[a]
    BY <1>2, <2>1, UnderDeeper
  <2>3. depth[a] \in Nat /\ depth[child] \in Nat
    BY <1>0, <1>3, <2>1
  <2> QED
    BY <2>1, <2>2, <2>3
<1>8. Under(p, l) \intersect Under(p, r) = {}
  <2> DEFINE both == Under(p, l) \intersect Under(p, r)
  <2> SUFFICES ASSUME both # {} PROVE FALSE
    OBVIOUS
  <2>1. PICK x \in both : \A y \in both : depth[x] <= depth[y]
    <3>1. both \in SUBSET Ids(p)
      BY <1>4
    <3> HIDE DEF both
    <3> QED
      BY <1>2, <3>1, Shallowest
  <2>2. \A m, n \in Joins(p) : m # n => Children(p, m) \intersect Children(p, n) = {}
    BY DEF IsTree
  <2>3. ASSUME x # l PROVE \E m \in JoinsUnder(p, l) : x \in Children(p, m)
    BY <1>1, <2>3, ParentUnder
  <2>4. ASSUME x # r PROVE \E m \in JoinsUnder(p, r) : x \in Children(p, m)
    BY <1>1, <2>4, ParentUnder
  <2>5. CASE x = l
    <3>1. PICK m \in JoinsUnder(p, r) : x \in Children(p, m)
      BY <1>1, <2>4, <2>5
    <3>2. m = a
      BY <1>1, <2>2, <2>5, <3>1 DEF JoinsUnder
    <3> QED
      BY <1>7, <3>1, <3>2 DEF JoinsUnder
  <2>6. CASE x = r
    <3>1. PICK m \in JoinsUnder(p, l) : x \in Children(p, m)
      BY <1>1, <2>3, <2>6
    <3>2. m = a
      BY <1>1, <2>2, <2>6, <3>1 DEF JoinsUnder
    <3> QED
      BY <1>7, <3>1, <3>2 DEF JoinsUnder
  <2>7. CASE x # l /\ x # r
    <3>1. PICK m \in JoinsUnder(p, l) : x \in Children(p, m)
      BY <2>3, <2>7
    <3>2. PICK n \in JoinsUnder(p, r) : x \in Children(p, n)
      BY <2>4, <2>7
    <3>3. m = n
      BY <2>2, <3>1, <3>2 DEF JoinsUnder
    <3>4. m \in both /\ m \in Ids(p) /\ x \in Ids(p) /\ depth[m] < depth[x]
      BY <1>2, <1>4, <3>1, <3>2, <3>3 DEF JoinsUnder, Descends
    <3>5. depth[x] <= depth[m] /\ depth[m] \in Nat /\ depth[x] \in Nat
      BY <1>3, <2>1, <3>4
    <3> QED
      BY <3>4, <3>5
  <2> QED
    BY <2>5, <2>6, <2>7
<1> QED
  BY <1>1, <1>5, <1>6, <1>7, <1>8 DEF l, r

LEMMA UnderRoot ==
    ASSUME NEW p, IsTree(p)
    PROVE  Under(p, p.root) = Ids(p)
<1> DEFINE rest == Ids(p) \ Under(p, p.root)
<1>1. p.root \in Ids(p)
  BY DEF IsTree
<1>2. PICK depth : Descends(p, depth)
  BY DEF IsTree
<1>3. depth \in [Ids(p) -> Ids(p)] /\ Ids(p) \subseteq Nat
  BY <1>2 DEF Descends, Ids
<1>4. p.root \in Under(p, p.root) /\ Under(p, p.root) \subseteq Ids(p) /\ Closed(p, Under(p, p.root))
  BY <1>1, UnderClosed
<1>5. SUFFICES ASSUME rest # {} PROVE FALSE
  BY <1>4
<1>6. PICK x \in rest : \A y \in rest : depth[x] <= depth[y]
  <2> HIDE DEF rest
  <2> SUFFICES rest \in SUBSET Ids(p)
    BY <1>2, <1>5, Shallowest
  <2> QED
    BY DEF rest
<1>7. PICK m \in Joins(p) : x \in Children(p, m)
  BY <1>4 DEF IsTree
<1>8. m \in Ids(p) /\ depth[m] < depth[x]
  BY <1>2, <1>7 DEF Joins, Descends
<1>9. depth[m] \in Nat /\ depth[x] \in Nat
  BY <1>3, <1>8
<1>10. m \in Under(p, p.root)
  BY <1>6, <1>8, <1>9
<1> QED
  BY <1>4, <1>6, <1>7, <1>10 DEF Closed

\* What holds of a node when it holds of its children holds of all nodes.
LEMMA TreeInduction ==
    ASSUME NEW p, IsTree(p), NEW T \in SUBSET Ids(p),
           \A n \in Ids(p) : (n \in Joins(p) => LeftChild(p, n) \in T /\ RightChild(p, n) \in T) => n \in T
    PROVE  T = Ids(p)
<1> DEFINE rest == Ids(p) \ T
           l == Len(p.nodes)
<1>1. PICK depth : Descends(p, depth)
  BY DEF IsTree
<1>2. depth \in [Ids(p) -> Ids(p)] /\ l \in Nat /\ \A i \in Ids(p) : i \in Nat /\ l - i \in Nat
  BY <1>1 DEF Descends, Ids, IsTree
<1>3. SUFFICES ASSUME rest # {} PROVE FALSE
  OBVIOUS
<1> DEFINE D == {l - depth[x] : x \in rest}
<1>4. D \in SUBSET Nat /\ D # {}
  BY <1>2, <1>3
<1>5. \E d \in D : \A e \in D : d <= e
  <2> HIDE DEF D
  <2> QED
    BY <1>4, Least
<1>6. PICK x \in rest : \A y \in rest : l - depth[x] <= l - depth[y]
  BY <1>5
<1>7. x \in Joins(p) /\ (LeftChild(p, x) \in rest \/ RightChild(p, x) \in rest)
  BY DEF IsTree, Children
<1>8. PICK child \in Children(p, x) : child \in rest
  BY <1>7 DEF Children
<1>9. depth[x] < depth[child] /\ l - depth[x] <= l - depth[child]
  BY <1>1, <1>6, <1>7, <1>8 DEF Descends
<1>10. depth[x] \in Nat /\ depth[child] \in Nat
  BY <1>2, <1>8
<1> HIDE DEF l
<1> QED
  BY <1>2, <1>9, <1>10

\* The attributes of the nodes of a plan.
AttrsFit(p) ==
    /\ \A n \in Ids(p) : /\ AttrsIn(p, n) \in Seq(Nat \X DOMAIN Values)
                         /\ Len(AttrsIn(p, n)) \in Nat \ {0} /\ DOMAIN AttrsIn(p, n) = 1 .. Len(AttrsIn(p, n))
    /\ \A n \in Ids(p) \ Joins(p) :
          /\ NodeIn(p, n).base_table_id \in Nat /\ NodeIn(p, n).base_table_id + 1 \in DOMAIN Inputs
          /\ \A nth \in DOMAIN AttrsIn(p, n) :
                LET columns == Inputs[NodeIn(p, n).base_table_id + 1].columns
                    attr == AttrsIn(p, n)[nth]
                IN  attr[1] \in Nat /\ attr[1] + 1 \in DOMAIN columns /\ attr[2] = columns[attr[1] + 1].type
    /\ \A n \in Joins(p) :
          /\ NodeIn(p, n).left_attr + 1 \in DOMAIN AttrsIn(p, LeftChild(p, n))
          /\ NodeIn(p, n).right_attr + 1 \in DOMAIN AttrsIn(p, RightChild(p, n))
          /\ AttrsIn(p, LeftChild(p, n))[NodeIn(p, n).left_attr + 1][2] = "INT32"
          /\ AttrsIn(p, RightChild(p, n))[NodeIn(p, n).right_attr + 1][2] = "INT32"
          /\ NodeIn(p, n).left_attr \in Nat /\ NodeIn(p, n).right_attr \in Nat
          /\ \A nth \in DOMAIN AttrsIn(p, n) :
                LET attr == AttrsIn(p, n)[nth]
                    both == AttrsIn(p, LeftChild(p, n)) \o AttrsIn(p, RightChild(p, n))
                IN  attr[1] \in Nat /\ attr[1] + 1 \in DOMAIN both /\ attr[2] = both[attr[1] + 1][2]

LEMMA PlansFit ==
    ASSUME NEW p \in Plans
    PROVE  AttrsFit(p)
<1>1. WellFormed(p)
  BY PlanAssumption
<1>2. \A n \in Ids(p) : AttrsIn(p, n) \in Seq(Nat \X DOMAIN Values) /\ AttrsIn(p, n) # <<>>
  BY <1>1 DEF WellFormed, Ids, AttrsIn, NodeIn
<1>3. ASSUME NEW n \in Ids(p)
      PROVE  /\ Len(AttrsIn(p, n)) \in Nat \ {0} /\ DOMAIN AttrsIn(p, n) = 1 .. Len(AttrsIn(p, n))
             /\ \A nth \in DOMAIN AttrsIn(p, n) : AttrsIn(p, n)[nth][1] \in Nat
  <2> DEFINE s == AttrsIn(p, n)
  <2>1. s \in Seq(Nat \X DOMAIN Values) /\ s # <<>>
    BY <1>2
  <2> HIDE DEF s
  <2>2. Len(s) \in Nat \ {0} /\ DOMAIN s = 1 .. Len(s)
    BY <2>1, LenProperties
  <2>3. ASSUME NEW nth \in DOMAIN s PROVE s[nth][1] \in Nat
    <3>1. s[nth] \in Nat \X DOMAIN Values
      BY <2>1, <2>2, ElementOfSeq
    <3> QED
      BY <3>1
  <2> QED
    BY <2>2, <2>3 DEF s
<1> DEFINE joins == {n \in Ids(p) : "left" \in DOMAIN p.nodes[n + 1]}
<1>4. Joins(p) = joins
  BY DEF Joins, IsJoinIn, NodeIn
<1>5. ASSUME NEW n \in Ids(p) \ Joins(p)
      PROVE  /\ NodeIn(p, n).base_table_id \in Nat /\ NodeIn(p, n).base_table_id + 1 \in DOMAIN Inputs
             /\ \A nth \in DOMAIN AttrsIn(p, n) :
                   LET columns == Inputs[NodeIn(p, n).base_table_id + 1].columns
                       attr == AttrsIn(p, n)[nth]
                   IN  attr[1] \in Nat /\ attr[1] + 1 \in DOMAIN columns /\ attr[2] = columns[attr[1] + 1].type
  <2>1. n \in Ids(p) \ joins
    BY <1>4
  <2>2. \A m \in Ids(p) \ joins :
           /\ p.nodes[m + 1].base_table_id \in Nat /\ p.nodes[m + 1].base_table_id + 1 \in DOMAIN Inputs
           /\ \A nth \in DOMAIN p.nodes[m + 1].output_attrs :
                 LET columns == Inputs[p.nodes[m + 1].base_table_id + 1].columns
                     attr == p.nodes[m + 1].output_attrs[nth]
                 IN  attr[1] + 1 \in DOMAIN columns /\ attr[2] = columns[attr[1] + 1].type
    BY <1>1 DEF WellFormed, Ids
  <2> HIDE DEF joins
  <2> QED
    BY <1>3, <2>1, <2>2 DEF NodeIn, AttrsIn
<1>6. ASSUME NEW n \in Joins(p)
      PROVE  /\ NodeIn(p, n).left_attr + 1 \in DOMAIN AttrsIn(p, LeftChild(p, n))
             /\ NodeIn(p, n).right_attr + 1 \in DOMAIN AttrsIn(p, RightChild(p, n))
             /\ AttrsIn(p, LeftChild(p, n))[NodeIn(p, n).left_attr + 1][2] = "INT32"
             /\ AttrsIn(p, RightChild(p, n))[NodeIn(p, n).right_attr + 1][2] = "INT32"
             /\ NodeIn(p, n).left_attr \in Nat /\ NodeIn(p, n).right_attr \in Nat
             /\ \A nth \in DOMAIN AttrsIn(p, n) :
                   LET attr == AttrsIn(p, n)[nth]
                       both == AttrsIn(p, LeftChild(p, n)) \o AttrsIn(p, RightChild(p, n))
                   IN  attr[1] \in Nat /\ attr[1] + 1 \in DOMAIN both /\ attr[2] = both[attr[1] + 1][2]
  <2>1. n \in joins /\ n \in Ids(p)
    BY <1>4
  <2>2. \A m \in joins :
           LET node == p.nodes[m + 1]
               l == p.nodes[node.left + 1].output_attrs
               r == p.nodes[node.right + 1].output_attrs
           IN  /\ node.left_attr \in Nat /\ node.left_attr + 1 \in DOMAIN l
               /\ node.right_attr \in Nat /\ node.right_attr + 1 \in DOMAIN r
               /\ l[node.left_attr + 1][2] = "INT32"
               /\ r[node.right_attr + 1][2] = "INT32"
               /\ \A nth \in DOMAIN node.output_attrs :
                     LET attr == node.output_attrs[nth]
                     IN  attr[1] + 1 \in DOMAIN (l \o r) /\ attr[2] = (l \o r)[attr[1] + 1][2]
    BY <1>1 DEF WellFormed, Ids
  <2> HIDE DEF joins
  <2> QED
    BY <1>3, <2>1, <2>2 DEF NodeIn, AttrsIn, LeftChild, RightChild
<1> QED
  BY <1>2, <1>3, <1>5, <1>6 DEF AttrsFit

\* The scan and the base column of every attribute.
OriginStep(p, f, n) ==
    IF ~ IsJoinIn(p, n) THEN [nth \in DOMAIN AttrsIn(p, n) |-> <<n, AttrsIn(p, n)[nth][1]>>]
    ELSE LET both == f[LeftChild(p, n)] \o f[RightChild(p, n)]
         IN  [nth \in DOMAIN AttrsIn(p, n) |-> both[AttrsIn(p, n)[nth][1] + 1]]

OriginsIn(p) == CHOOSE f : f = [n \in Ids(p) |-> OriginStep(p, f, n)]

LEMMA OriginsAre == Origins = OriginsIn(plan)
<1>1. NodeIds = Ids(plan)
  BY DEF NodeIds, Ids
<1> QED
  BY DEF Origins, OriginsIn, OriginStep, NodeIds, Ids, IsJoin, IsJoinIn, Attrs, AttrsIn, Node, NodeIn, LeftChild, RightChild

LEMMA OriginsUnfold ==
    ASSUME NEW p, IsTree(p), NEW n \in Ids(p)
    PROVE  OriginsIn(p)[n] = OriginStep(p, OriginsIn(p), n)
<1> DEFINE Good(f, a) == \A m \in Under(p, a) : f[m] = OriginStep(p, f, m)
           T == {a \in Ids(p) : \E f : Good(f, a)}
<1>1. ASSUME NEW f, NEW g, NEW m, IsJoinIn(p, m) => f[LeftChild(p, m)] = g[LeftChild(p, m)] /\ f[RightChild(p, m)] = g[RightChild(p, m)]
      PROVE  OriginStep(p, f, m) = OriginStep(p, g, m)
  BY <1>1 DEF OriginStep
<1>2. ASSUME NEW a \in Ids(p), a \in Joins(p) => LeftChild(p, a) \in T /\ RightChild(p, a) \in T
      PROVE  a \in T
  <2>1. CASE a \notin Joins(p)
    <3> DEFINE f == [m \in Ids(p) |-> OriginStep(p, <<>>, m)]
    <3>1. Under(p, a) = {a} /\ ~ IsJoinIn(p, a)
      BY <2>1, UnderScan DEF Joins
    <3>2. f[a] = OriginStep(p, <<>>, a)
      OBVIOUS
    <3> HIDE DEF f
    <3>3. f[a] = OriginStep(p, f, a)
      BY <1>1, <3>1, <3>2
    <3>4. Good(f, a)
      BY <3>1, <3>3
    <3> QED
      BY <3>4
  <2>2. CASE a \in Joins(p)
    <3> DEFINE l == LeftChild(p, a)
               r == RightChild(p, a)
    <3>1. PICK fl : Good(fl, l)
      BY <1>2, <2>2
    <3>2. PICK fr : Good(fr, r)
      BY <1>2, <2>2
    <3>3. /\ l \in Ids(p) /\ r \in Ids(p) /\ Under(p, a) = {a} \union Under(p, l) \union Under(p, r)
          /\ Under(p, l) \intersect Under(p, r) = {} /\ a \notin Under(p, l) /\ a \notin Under(p, r)
      BY <2>2, UnderJoin
    <3>4. /\ l \in Under(p, l) /\ r \in Under(p, r) /\ Closed(p, Under(p, l)) /\ Closed(p, Under(p, r))
          /\ Under(p, l) \subseteq Ids(p) /\ Under(p, r) \subseteq Ids(p)
      BY <3>3, UnderClosed
    <3> DEFINE g == [m \in Ids(p) |-> IF m \in Under(p, l) THEN fl[m] ELSE fr[m]]
               f == [m \in Ids(p) |-> IF m = a THEN OriginStep(p, g, a) ELSE g[m]]
    <3>5. /\ \A m \in Under(p, l) : f[m] = fl[m] /\ g[m] = fl[m]
          /\ \A m \in Under(p, r) : f[m] = fr[m] /\ g[m] = fr[m]
          /\ f[a] = OriginStep(p, g, a)
      <4> HIDE DEF l, r
      <4> QED
        BY <3>3, <3>4
    <3> HIDE DEF f, g
    <3>6. f[a] = OriginStep(p, f, a)
      BY <1>1, <3>4, <3>5
    <3>7. ASSUME NEW m \in Under(p, l) PROVE f[m] = OriginStep(p, f, m)
      <4>1. IsJoinIn(p, m) => LeftChild(p, m) \in Under(p, l) /\ RightChild(p, m) \in Under(p, l)
        BY <3>4 DEF Closed, Children, Joins
      <4>2. OriginStep(p, fl, m) = OriginStep(p, f, m)
        BY <1>1, <3>5, <4>1
      <4> QED
        BY <3>1, <3>5, <4>2
    <3>8. ASSUME NEW m \in Under(p, r) PROVE f[m] = OriginStep(p, f, m)
      <4>1. IsJoinIn(p, m) => LeftChild(p, m) \in Under(p, r) /\ RightChild(p, m) \in Under(p, r)
        BY <3>4 DEF Closed, Children, Joins
      <4>2. OriginStep(p, fr, m) = OriginStep(p, f, m)
        BY <1>1, <3>5, <4>1
      <4> QED
        BY <3>2, <3>5, <4>2
    <3>9. Good(f, a)
      BY <3>3, <3>6, <3>7, <3>8
    <3> HIDE DEF Good
    <3> QED
      BY <3>9
  <2> QED
    BY <2>1, <2>2
<1>3. T = Ids(p)
  <2>1. T \in SUBSET Ids(p)
    OBVIOUS
  <2> HIDE DEF T
  <2> QED
    BY <1>2, <2>1, TreeInduction
<1>4. PICK f : Good(f, p.root)
  <2>1. p.root \in Ids(p)
    BY DEF IsTree
  <2> QED
    BY <1>3, <2>1
<1>5. \A m \in Ids(p) : f[m] = OriginStep(p, f, m)
  BY <1>4, UnderRoot
<1> DEFINE h == [m \in Ids(p) |-> f[m]]
<1>6. ASSUME NEW m \in Ids(p) PROVE h[m] = OriginStep(p, h, m)
  <2>1. IsJoinIn(p, m) => LeftChild(p, m) \in Ids(p) /\ RightChild(p, m) \in Ids(p)
    BY DEF IsTree, Children, Joins
  <2>2. IsJoinIn(p, m) => f[LeftChild(p, m)] = h[LeftChild(p, m)] /\ f[RightChild(p, m)] = h[RightChild(p, m)]
    BY <2>1
  <2>3. h[m] = f[m]
    OBVIOUS
  <2> HIDE DEF h
  <2>4. OriginStep(p, f, m) = OriginStep(p, h, m)
    BY <1>1, <2>2
  <2> QED
    BY <1>5, <2>3, <2>4
<1>7. h = [m \in Ids(p) |-> OriginStep(p, h, m)]
  <2>1. h = [m \in Ids(p) |-> h[m]]
    OBVIOUS
  <2> HIDE DEF h
  <2> QED
    BY <1>6, <2>1
<1>8. OriginsIn(p) = [m \in Ids(p) |-> OriginStep(p, OriginsIn(p), m)]
  <2> HIDE DEF h
  <2> QED
    BY <1>7 DEF OriginsIn
<1> QED
  BY <1>8

-----------------------------------------------------------------------------
(* The rows of a node. *)

TableIn(p, s) == Inputs[NodeIn(p, s).base_table_id + 1]
BaseIn(p, origin) == FlattenSeq(TableIn(p, origin[1]).columns[origin[2] + 1].pages)
ValueIn(p, origin, tup) == BaseIn(p, origin)[tup[origin[1]]]

\* The attributes of a node come from columns of their types, of scans under it.
OriginsFit(p, n) ==
    LET origins == OriginsIn(p)[n]
    IN  /\ origins \in Seq(Ids(p) \X Nat) /\ Len(origins) = Len(AttrsIn(p, n))
        /\ \A nth \in 1 .. Len(AttrsIn(p, n)) : origins[nth][1] \in ScansUnder(p, n)

\* An attribute of a join is one of its left child or of its right one.
LEMMA JoinOrigins ==
    ASSUME NEW p, IsTree(p), AttrsFit(p), NEW n \in Joins(p), OriginsFit(p, LeftChild(p, n)), OriginsFit(p, RightChild(p, n)),
           NEW nth \in 1 .. Len(AttrsIn(p, n))
    PROVE  LET attr == AttrsIn(p, n)[nth][1]
               l == Len(AttrsIn(p, LeftChild(p, n)))
           IN  IF attr < l
               THEN /\ attr + 1 \in 1 .. l
                    /\ OriginsIn(p)[n][nth] = OriginsIn(p)[LeftChild(p, n)][attr + 1]
                    /\ AttrsIn(p, n)[nth][2] = AttrsIn(p, LeftChild(p, n))[attr + 1][2]
               ELSE /\ attr - l + 1 \in 1 .. Len(AttrsIn(p, RightChild(p, n)))
                    /\ OriginsIn(p)[n][nth] = OriginsIn(p)[RightChild(p, n)][attr - l + 1]
                    /\ AttrsIn(p, n)[nth][2] = AttrsIn(p, RightChild(p, n))[attr - l + 1][2]
<1> DEFINE a == AttrsIn(p, n)[nth]
           attr == a[1]
           lhs == AttrsIn(p, LeftChild(p, n))
           rhs == AttrsIn(p, RightChild(p, n))
           l == Len(lhs)
           r == Len(rhs)
           ol == OriginsIn(p)[LeftChild(p, n)]
           or == OriginsIn(p)[RightChild(p, n)]
<1>1. n \in Ids(p) /\ IsJoinIn(p, n) /\ LeftChild(p, n) \in Ids(p) /\ RightChild(p, n) \in Ids(p)
  BY DEF Joins, IsTree, Children
<1>2. /\ lhs \in Seq(Nat \X DOMAIN Values) /\ rhs \in Seq(Nat \X DOMAIN Values)
      /\ l \in Nat /\ r \in Nat /\ DOMAIN AttrsIn(p, n) = 1 .. Len(AttrsIn(p, n))
  BY <1>1 DEF AttrsFit
<1>3. attr \in Nat /\ attr + 1 \in DOMAIN (lhs \o rhs) /\ a[2] = (lhs \o rhs)[attr + 1][2]
  BY <1>2 DEF AttrsFit
<1>4. OriginsIn(p)[n] = [o \in DOMAIN AttrsIn(p, n) |-> (ol \o or)[AttrsIn(p, n)[o][1] + 1]]
  BY <1>1, OriginsUnfold DEF OriginStep
<1>5. OriginsIn(p)[n][nth] = (ol \o or)[attr + 1]
  BY <1>2, <1>4
<1>6. ol \in Seq(Ids(p) \X Nat) /\ or \in Seq(Ids(p) \X Nat) /\ Len(ol) = l /\ Len(or) = r
  BY DEF OriginsFit
<1> HIDE DEF lhs, rhs, ol, or, a
<1>7. /\ DOMAIN (lhs \o rhs) = 1 .. (l + r)
      /\ \A i \in 1 .. (l + r) : (lhs \o rhs)[i] = IF i <= l THEN lhs[i] ELSE rhs[i - l]
  <2>1. lhs \o rhs \in Seq(Nat \X DOMAIN Values) /\ Len(lhs \o rhs) = l + r
        /\ \A i \in 1 .. (l + r) : (lhs \o rhs)[i] = IF i <= l THEN lhs[i] ELSE rhs[i - l]
    BY ONLY <1>2, ConcatProperties, Zenon DEF l, r
  <2> QED
    BY <2>1, LenProperties
<1>8. \A i \in 1 .. (l + r) : (ol \o or)[i] = IF i <= l THEN ol[i] ELSE or[i - l]
  <2>1. \A i \in 1 .. (Len(ol) + Len(or)) : (ol \o or)[i] = IF i <= Len(ol) THEN ol[i] ELSE or[i - Len(ol)]
    BY ONLY <1>6, ConcatProperties, Zenon
  <2> QED
    BY <1>6, <2>1
<1> HIDE DEF l, r
<1>9. attr + 1 \in 1 .. (l + r)
  BY <1>3, <1>7
<1>10. CASE attr < l
  <2>1. attr + 1 \in 1 .. l /\ attr + 1 <= l
    BY <1>2, <1>3, <1>10
  <2>2. (lhs \o rhs)[attr + 1] = lhs[attr + 1] /\ (ol \o or)[attr + 1] = ol[attr + 1]
    BY <1>7, <1>8, <1>9, <2>1
  <2> QED
    BY <1>3, <1>5, <1>10, <2>1, <2>2 DEF l, r, lhs, rhs, ol, or, a
<1>11. CASE ~ (attr < l)
  <2>0. attr \in Nat /\ attr + 1 \in 1 .. (l + r) /\ l \in Nat /\ r \in Nat /\ ~ (attr < l)
    BY <1>2, <1>3, <1>9, <1>11
  <2> HIDE DEF attr
  <2>1. attr - l + 1 \in 1 .. r /\ ~ (attr + 1 <= l) /\ attr + 1 - l = attr - l + 1
    BY ONLY <2>0
  <2>2. (lhs \o rhs)[attr + 1] = rhs[attr - l + 1] /\ (ol \o or)[attr + 1] = or[attr - l + 1]
    <3>1. PICK i \in 1 .. (l + r) : i = attr + 1
      BY <2>0
    <3>2. ~ (i <= l) /\ i - l = attr - l + 1
      BY <2>0, <3>1
    <3>3. (lhs \o rhs)[i] = rhs[i - l] /\ (ol \o or)[i] = or[i - l]
      BY <1>7, <1>8, <3>2
    <3> QED
      BY <3>1, <3>2, <3>3
  <2> USE DEF attr
  <2> QED
    BY <1>3, <1>5, <1>11, <2>1, <2>2 DEF l, r, lhs, rhs, ol, or, a
<1> QED
  BY <1>10, <1>11 DEF l, a, lhs

LEMMA PlanOriginsFit ==
    ASSUME NEW p, IsTree(p), AttrsFit(p)
    PROVE  \A n \in Ids(p) : OriginsFit(p, n)
<1> DEFINE T == {n \in Ids(p) : OriginsFit(p, n)}
<1>1. ASSUME NEW n \in Ids(p), n \in Joins(p) => LeftChild(p, n) \in T /\ RightChild(p, n) \in T
      PROVE  n \in T
  <2> DEFINE origins == OriginsIn(p)[n]
             k == Len(AttrsIn(p, n))
  <2>1. k \in Nat /\ DOMAIN AttrsIn(p, n) = 1 .. k
    BY DEF AttrsFit
  <2>2. origins = OriginStep(p, OriginsIn(p), n)
    BY OriginsUnfold
  <2>3. DOMAIN origins = 1 .. k /\ origins = [nth \in 1 .. k |-> origins[nth]]
    BY <2>1, <2>2 DEF OriginStep
  <2>4. ASSUME NEW nth \in 1 .. k PROVE origins[nth] \in Ids(p) \X Nat /\ origins[nth][1] \in ScansUnder(p, n)
    <3>1. CASE n \notin Joins(p)
      <4>1. origins[nth] = <<n, AttrsIn(p, n)[nth][1]>>
        BY <2>1, <2>2, <3>1 DEF OriginStep, Joins
      <4>2. AttrsIn(p, n)[nth][1] \in Nat
        BY <2>1, <3>1 DEF AttrsFit
      <4>3. ScansUnder(p, n) = {n}
        BY <3>1, UnderScan DEF ScansUnder
      <4> QED
        BY <4>1, <4>2, <4>3
    <3>2. CASE n \in Joins(p)
      <4>1. OriginsFit(p, LeftChild(p, n)) /\ OriginsFit(p, RightChild(p, n))
        BY <1>1, <3>2
      <4>2. ScansUnder(p, LeftChild(p, n)) \subseteq ScansUnder(p, n) /\ ScansUnder(p, RightChild(p, n)) \subseteq ScansUnder(p, n)
        BY <3>2, UnderJoin DEF ScansUnder
      <4> DEFINE attr == AttrsIn(p, n)[nth][1]
                 l == Len(AttrsIn(p, LeftChild(p, n)))
      <4>3. CASE attr < l
        <5>1. attr + 1 \in 1 .. l /\ origins[nth] = OriginsIn(p)[LeftChild(p, n)][attr + 1]
          BY <3>2, <4>1, <4>3, JoinOrigins
        <5>2. OriginsIn(p)[LeftChild(p, n)] \in Seq(Ids(p) \X Nat) /\ Len(OriginsIn(p)[LeftChild(p, n)]) = l
              /\ OriginsIn(p)[LeftChild(p, n)][attr + 1][1] \in ScansUnder(p, LeftChild(p, n))
          BY <4>1, <5>1 DEF OriginsFit
        <5>3. OriginsIn(p)[LeftChild(p, n)][attr + 1] \in Ids(p) \X Nat
          BY <5>1, <5>2, ElementOfSeq
        <5> QED
          BY <4>2, <5>1, <5>2, <5>3
      <4>4. CASE ~ (attr < l)
        <5> DEFINE i == attr - l + 1
        <5>1. i \in 1 .. Len(AttrsIn(p, RightChild(p, n))) /\ origins[nth] = OriginsIn(p)[RightChild(p, n)][i]
          BY <3>2, <4>1, <4>4, JoinOrigins
        <5> HIDE DEF i
        <5>2. OriginsIn(p)[RightChild(p, n)] \in Seq(Ids(p) \X Nat)
              /\ Len(OriginsIn(p)[RightChild(p, n)]) = Len(AttrsIn(p, RightChild(p, n)))
              /\ OriginsIn(p)[RightChild(p, n)][i][1] \in ScansUnder(p, RightChild(p, n))
          BY <4>1, <5>1 DEF OriginsFit
        <5>3. OriginsIn(p)[RightChild(p, n)][i] \in Ids(p) \X Nat
          BY <5>1, <5>2, ElementOfSeq
        <5> QED
          BY <4>2, <5>1, <5>2, <5>3
      <4> QED
        BY <4>3, <4>4
    <3> QED
      BY <3>1, <3>2
  <2> HIDE DEF origins, k
  <2>5. origins \in [1 .. k -> Ids(p) \X Nat]
    BY <2>3, <2>4
  <2>6. origins \in Seq(Ids(p) \X Nat) /\ Len(origins) = k
    BY <2>1, <2>5, SeqDef, LenProperties
  <2> QED
    BY <2>4, <2>6 DEF OriginsFit, origins, k
<1>2. T = Ids(p)
  <2>1. T \in SUBSET Ids(p)
    OBVIOUS
  <2> HIDE DEF T
  <2> QED
    BY <1>1, <2>1, TreeInduction
<1> QED
  BY <1>2

\* The keys of join n agree on a row of its scans.
AgreeIn(p, n, tup) ==
    LET key == ValueIn(p, OriginsIn(p)[LeftChild(p, n)][NodeIn(p, n).left_attr + 1], tup)
    IN  key # Null /\ key = ValueIn(p, OriginsIn(p)[RightChild(p, n)][NodeIn(p, n).right_attr + 1], tup)

\* A row of each scan under node a on which the keys of the joins agree.
IsRow(p, a, tup) ==
    /\ tup = [s \in ScansUnder(p, a) |-> tup[s]]
    /\ \A s \in ScansUnder(p, a) : tup[s] \in 1 .. TableIn(p, s).num_rows
    /\ \A n \in JoinsUnder(p, a) : AgreeIn(p, n, tup)

\* The first num of rows are all of them, each once.
Lists(p, a, rows, num) ==
    /\ \A i \in 1 .. num : IsRow(p, a, rows[i])
    /\ \A i, j \in 1 .. num : rows[i] = rows[j] => i = j
    /\ \A tup : IsRow(p, a, tup) => \E i \in 1 .. num : tup = rows[i]

\* Column out of node a has the values of these rows.
HasValues(p, a, col, nth, rows, num) ==
    \E vals : /\ Reads(col, vals) /\ Len(vals) = num
              /\ \A i \in 1 .. num :
                    Inserted(AttrsIn(p, a)[nth][2], vals[i]) = ValueIn(p, OriginsIn(p)[a][nth], rows[i])

\* The columns of node a are the values of the rows of the scans under it.
Holds(p, a, rel, rows, num) ==
    /\ num \in Nat
    /\ DOMAIN rel = 1 .. Len(AttrsIn(p, a)) /\ Len(rel) = Len(AttrsIn(p, a))
    /\ Lists(p, a, rows, num)
    /\ \A nth \in 1 .. Len(AttrsIn(p, a)) : HasValues(p, a, rel[nth], nth, rows, num)

Correct(p, a, rel) == \E rows, num : Holds(p, a, rel, rows, num)

\* A function on 1 .. k is as long.
LEMMA LengthIs ==
    ASSUME NEW k \in Nat, NEW f, f = [i \in 1 .. k |-> f[i]]
    PROVE  DOMAIN f = 1 .. k /\ Len(f) = k /\ f \in Seq({f[i] : i \in 1 .. k})
<1> DEFINE S == {f[i] : i \in 1 .. k}
<1>1. DOMAIN f = 1 .. k /\ \A i \in 1 .. k : f[i] \in S
  OBVIOUS
<1> HIDE DEF S
<1>2. f \in [1 .. k -> S]
  BY <1>1
<1>3. f \in Seq(S)
  BY <1>2, SeqDef
<1>4. Len(f) = k
  BY <1>1, <1>3, LenProperties
<1> QED
  BY <1>1, <1>3, <1>4 DEF S

\* A scan returns what it should.
LEMMA ScanCorrect ==
    ASSUME NEW p, IsTree(p), AttrsFit(p), NEW a \in Ids(p) \ Joins(p)
    PROVE  Correct(p, a, [nth \in DOMAIN AttrsIn(p, a) |-> ScanColumn(NodeIn(p, a).base_table_id, AttrsIn(p, a)[nth])])
<1> DEFINE t == NodeIn(p, a).base_table_id + 1
           attrs == AttrsIn(p, a)
           k == Len(attrs)
           num == Inputs[t].num_rows
           rel == [nth \in DOMAIN attrs |-> ScanColumn(NodeIn(p, a).base_table_id, attrs[nth])]
           rows == [i \in 1 .. num |-> [s \in {a} |-> i]]
<1>1. /\ attrs \in Seq(Nat \X DOMAIN Values) /\ k \in Nat \ {0} /\ DOMAIN attrs = 1 .. k
      /\ t \in DOMAIN Inputs
      /\ \A nth \in 1 .. k : /\ attrs[nth][1] \in Nat /\ attrs[nth][1] + 1 \in DOMAIN Inputs[t].columns
                             /\ attrs[nth][2] = Inputs[t].columns[attrs[nth][1] + 1].type
  BY DEF AttrsFit
<1>2. num \in Nat /\ t - 1 = NodeIn(p, a).base_table_id /\ t \in Nat
  <2>1. num \in Nat /\ t \in Nat
    BY <1>1, PlanAssumption
  <2>2. NodeIn(p, a).base_table_id \in Nat
    BY DEF AttrsFit
  <2> QED
    BY <2>1, <2>2
<1>3. Under(p, a) = {a} /\ ScansUnder(p, a) = {a} /\ JoinsUnder(p, a) = {} /\ ~ IsJoinIn(p, a) /\ TableIn(p, a) = Inputs[t]
  BY UnderScan DEF ScansUnder, JoinsUnder, TableIn, Joins
<1>4. \A nth \in 1 .. k : OriginsIn(p)[a][nth] = <<a, attrs[nth][1]>>
  BY <1>1, <1>3, OriginsUnfold DEF OriginStep
<1>5. \A i \in 1 .. num : rows[i] = [s \in {a} |-> i] /\ rows[i][a] = i
  OBVIOUS
<1>6. Lists(p, a, rows, num)
  <2>1. \A i \in 1 .. num : IsRow(p, a, rows[i])
    BY <1>3, <1>5 DEF IsRow
  <2>2. \A i, j \in 1 .. num : rows[i] = rows[j] => i = j
    BY <1>5
  <2>3. ASSUME NEW tup, IsRow(p, a, tup) PROVE \E i \in 1 .. num : tup = rows[i]
    <3>1. tup = [s \in {a} |-> tup[s]] /\ tup[a] \in 1 .. num
      BY <1>3, <2>3 DEF IsRow
    <3>2. tup = [s \in {a} |-> tup[a]]
      BY <3>1
    <3> QED
      BY <1>5, <3>1, <3>2
  <2> HIDE DEF rows
  <2> QED
    BY <2>1, <2>2, <2>3 DEF Lists
<1>7. ASSUME NEW nth \in 1 .. k PROVE HasValues(p, a, rel[nth], nth, rows, num)
  <2> DEFINE base == FlattenSeq(Inputs[t].columns[attrs[nth][1] + 1].pages)
  <2>1. PICK vals : Reads(ScanColumn(t - 1, attrs[nth]), vals) /\ LooksUp(vals, attrs[nth][2], base)
    BY <1>1, ScanReads
  <2>2. Len(base) = num
    <3>1. WellFormedColumn(Inputs[t].columns[attrs[nth][1] + 1], num)
      BY <1>1, PlanAssumption
    <3> QED
      BY <3>1 DEF WellFormedColumn
  <2>3. ASSUME NEW i \in 1 .. num PROVE ValueIn(p, OriginsIn(p)[a][nth], rows[i]) = base[i]
    <3>1. BaseIn(p, <<a, attrs[nth][1]>>) = base
      BY <1>3 DEF BaseIn
    <3>2. OriginsIn(p)[a][nth] = <<a, attrs[nth][1]>>
      BY <1>4
    <3>3. rows[i][a] = i
      BY <1>5
    <3> HIDE DEF base, rows, rel, num, attrs, t, k
    <3>4. ValueIn(p, <<a, attrs[nth][1]>>, rows[i]) = base[rows[i][a]]
      BY <3>1 DEF ValueIn
    <3> QED
      BY <3>2, <3>3, <3>4
  <2>4. rel[nth] = ScanColumn(t - 1, attrs[nth])
    BY <1>1, <1>2
  <2> HIDE DEF rel, rows, base
  <2>5. Len(vals) = num /\ \A i \in 1 .. num : Inserted(attrs[nth][2], vals[i]) = ValueIn(p, OriginsIn(p)[a][nth], rows[i])
    BY <2>1, <2>2, <2>3 DEF LooksUp
  <2> QED
    BY <2>1, <2>4, <2>5 DEF HasValues
<1>8. DOMAIN rel = 1 .. k /\ Len(rel) = k
  <2>1. rel = [nth \in 1 .. k |-> rel[nth]]
    BY <1>1
  <2> HIDE DEF rel
  <2> QED
    BY <1>1, <2>1, LengthIs
<1> HIDE DEF rel, rows
<1>9. Holds(p, a, rel, rows, num)
  BY <1>2, <1>6, <1>7, <1>8 DEF Holds
<1> QED
  BY <1>9 DEF Correct, rel

\* An INT32 attribute has the values themselves.
LEMMA KeysRead ==
    ASSUME NEW p, NEW a, NEW rel, NEW rows, NEW num, Holds(p, a, rel, rows, num),
           NEW nth \in 1 .. Len(AttrsIn(p, a)), AttrsIn(p, a)[nth][2] = "INT32", NEW i \in 1 .. num
    PROVE  Get(rel[nth], i - 1) = ValueIn(p, OriginsIn(p)[a][nth], rows[i])
<1>1. HasValues(p, a, rel[nth], nth, rows, num)
  BY DEF Holds
<1>2. PICK vals : /\ Reads(rel[nth], vals) /\ Len(vals) = num
                  /\ \A j \in 1 .. num :
                        Inserted(AttrsIn(p, a)[nth][2], vals[j]) = ValueIn(p, OriginsIn(p)[a][nth], rows[j])
  BY <1>1 DEF HasValues
<1>3. Inserted("INT32", vals[i]) = vals[i]
  BY DEF Inserted
<1>4. Get(rel[nth], i - 1) = vals[i]
  BY <1>2 DEF Reads
<1> QED
  BY <1>2, <1>3, <1>4

\* The number of rows is that of the first column.
LEMMA RowsAre ==
    ASSUME NEW p, NEW a, NEW rel, NEW rows, NEW num, Holds(p, a, rel, rows, num), Len(AttrsIn(p, a)) \in Nat \ {0}
    PROVE  Rows(rel) = num /\ num \in Nat
<1>1. 1 \in 1 .. Len(AttrsIn(p, a)) /\ DOMAIN rel = 1 .. Len(AttrsIn(p, a)) /\ num \in Nat
  BY DEF Holds
<1>2. HasValues(p, a, rel[1], 1, rows, num)
  BY <1>1 DEF Holds
<1>3. rel[1].total_size = num
  BY <1>2 DEF HasValues, Reads
<1>4. rel # <<>>
  BY <1>1
<1> QED
  BY <1>1, <1>3, <1>4 DEF Rows

\* The rows of the children that a match names.
LeftRow(join, m) == (IF join.build_left THEN m[1] ELSE m[2]) + 1
RightRow(join, m) == (IF join.build_left THEN m[2] ELSE m[1]) + 1

BuildSide(join, lhs, rhs) == IF join.build_left THEN lhs ELSE rhs
ProbeSide(join, lhs, rhs) == IF join.build_left THEN rhs ELSE lhs
MatchesOf(join, lhs, rhs) ==
    Matches(BuildSide(join, lhs, rhs), ProbeSide(join, lhs, rhs),
            BuildSide(join, join.left_attr, join.right_attr), ProbeSide(join, join.left_attr, join.right_attr))

\* Row x of the left child and row y of the right one have the same key.
SameKey(join, lhs, rhs, x, y) ==
    /\ Get(lhs[join.left_attr + 1], x - 1) # Null
    /\ Get(lhs[join.left_attr + 1], x - 1) = Get(rhs[join.right_attr + 1], y - 1)

\* The matches are the pairs of rows with the same key, whichever side is built.
LEMMA MatchesAre ==
    ASSUME NEW join, NEW lhs, NEW rhs, Rows(lhs) \in Nat, Rows(rhs) \in Nat
    PROVE  LET M == MatchesOf(join, lhs, rhs)
           IN  /\ IsFiniteSet(M)
               /\ \A m \in M : /\ LeftRow(join, m) \in 1 .. Rows(lhs) /\ RightRow(join, m) \in 1 .. Rows(rhs)
                               /\ SameKey(join, lhs, rhs, LeftRow(join, m), RightRow(join, m))
               /\ \A x \in 1 .. Rows(lhs) : \A y \in 1 .. Rows(rhs) :
                     SameKey(join, lhs, rhs, x, y) =>
                        \E m \in M : LeftRow(join, m) = x /\ RightRow(join, m) = y
               /\ \A m, o \in M : LeftRow(join, m) = LeftRow(join, o) /\ RightRow(join, m) = RightRow(join, o) => m = o
<1> DEFINE M == MatchesOf(join, lhs, rhs)
           a == Rows(lhs)
           b == Rows(rhs)
           lc == join.left_attr
           rc == join.right_attr
<1>1. a \in Nat /\ b \in Nat
  OBVIOUS
<1>2. CASE join.build_left
  <2>1. M = {m \in (0 .. (a - 1)) \X (0 .. (b - 1)) :
               Get(lhs[lc + 1], m[1]) # Null /\ Get(lhs[lc + 1], m[1]) = Get(rhs[rc + 1], m[2])}
    BY <1>2 DEF MatchesOf, BuildSide, ProbeSide, Matches
  <2>2. IsFiniteSet(M)
    <3>0. 0 \in Int /\ a - 1 \in Int /\ b - 1 \in Int
      BY <1>1
    <3> HIDE DEF a, b
    <3>1. IsFiniteSet(0 .. (a - 1)) /\ IsFiniteSet(0 .. (b - 1))
      BY <3>0, FS_Interval
    <3>2. IsFiniteSet((0 .. (a - 1)) \X (0 .. (b - 1)))
      BY <3>1, FS_Product
    <3>3. M \in SUBSET ((0 .. (a - 1)) \X (0 .. (b - 1)))
      BY <2>1
    <3> QED
      BY <3>2, <3>3, FS_Subset
  <2>3. \A m : LeftRow(join, m) = m[1] + 1 /\ RightRow(join, m) = m[2] + 1
    BY <1>2 DEF LeftRow, RightRow
  <2> HIDE DEF M, a, b
  <2>4. ASSUME NEW m \in M
        PROVE  /\ LeftRow(join, m) \in 1 .. a /\ RightRow(join, m) \in 1 .. b
               /\ SameKey(join, lhs, rhs, LeftRow(join, m), RightRow(join, m))
    <3>1. m[1] \in 0 .. (a - 1) /\ m[2] \in 0 .. (b - 1)
          /\ Get(lhs[lc + 1], m[1]) # Null /\ Get(lhs[lc + 1], m[1]) = Get(rhs[rc + 1], m[2])
      BY <2>1
    <3>2. (m[1] + 1) - 1 = m[1] /\ (m[2] + 1) - 1 = m[2] /\ m[1] + 1 \in 1 .. a /\ m[2] + 1 \in 1 .. b
      BY <1>1, <3>1
    <3> QED
      BY <2>3, <3>1, <3>2 DEF SameKey
  <2>5. ASSUME NEW x \in 1 .. a, NEW y \in 1 .. b, SameKey(join, lhs, rhs, x, y)
        PROVE  \E m \in M : LeftRow(join, m) = x /\ RightRow(join, m) = y
    <3> DEFINE m == <<x - 1, y - 1>>
    <3>1. x - 1 \in 0 .. (a - 1) /\ y - 1 \in 0 .. (b - 1) /\ (x - 1) + 1 = x /\ (y - 1) + 1 = y
      BY <1>1
    <3>2. m[1] = x - 1 /\ m[2] = y - 1 /\ m \in (0 .. (a - 1)) \X (0 .. (b - 1))
      BY <3>1
    <3> HIDE DEF m
    <3>3. m \in M
      BY <2>1, <2>5, <3>2 DEF SameKey
    <3> QED
      BY <2>3, <3>1, <3>2, <3>3
  <2>6. ASSUME NEW m \in M, NEW o \in M, LeftRow(join, m) = LeftRow(join, o), RightRow(join, m) = RightRow(join, o)
        PROVE  m = o
    <3>1. /\ m \in (0 .. (a - 1)) \X (0 .. (b - 1)) /\ o \in (0 .. (a - 1)) \X (0 .. (b - 1))
          /\ m[1] + 1 = o[1] + 1 /\ m[2] + 1 = o[2] + 1
      BY <2>1, <2>3, <2>6
    <3> QED
      BY <3>1
  <2> QED
    BY <2>2, <2>4, <2>5, <2>6 DEF M, a, b
<1>3. CASE ~ join.build_left
  <2>1. M = {m \in (0 .. (b - 1)) \X (0 .. (a - 1)) :
               Get(rhs[rc + 1], m[1]) # Null /\ Get(rhs[rc + 1], m[1]) = Get(lhs[lc + 1], m[2])}
    BY <1>3 DEF MatchesOf, BuildSide, ProbeSide, Matches
  <2>2. IsFiniteSet(M)
    <3>0. 0 \in Int /\ a - 1 \in Int /\ b - 1 \in Int
      BY <1>1
    <3> HIDE DEF a, b
    <3>1. IsFiniteSet(0 .. (a - 1)) /\ IsFiniteSet(0 .. (b - 1))
      BY <3>0, FS_Interval
    <3>2. IsFiniteSet((0 .. (b - 1)) \X (0 .. (a - 1)))
      BY <3>1, FS_Product
    <3>3. M \in SUBSET ((0 .. (b - 1)) \X (0 .. (a - 1)))
      BY <2>1
    <3> QED
      BY <3>2, <3>3, FS_Subset
  <2>3. \A m : LeftRow(join, m) = m[2] + 1 /\ RightRow(join, m) = m[1] + 1
    BY <1>3 DEF LeftRow, RightRow
  <2> HIDE DEF M, a, b
  <2>4. ASSUME NEW m \in M
        PROVE  /\ LeftRow(join, m) \in 1 .. a /\ RightRow(join, m) \in 1 .. b
               /\ SameKey(join, lhs, rhs, LeftRow(join, m), RightRow(join, m))
    <3>1. m[1] \in 0 .. (b - 1) /\ m[2] \in 0 .. (a - 1)
          /\ Get(rhs[rc + 1], m[1]) # Null /\ Get(rhs[rc + 1], m[1]) = Get(lhs[lc + 1], m[2])
      BY <2>1
    <3>2. (m[1] + 1) - 1 = m[1] /\ (m[2] + 1) - 1 = m[2] /\ m[1] + 1 \in 1 .. b /\ m[2] + 1 \in 1 .. a
      BY <1>1, <3>1
    <3> QED
      BY <2>3, <3>1, <3>2 DEF SameKey
  <2>5. ASSUME NEW x \in 1 .. a, NEW y \in 1 .. b, SameKey(join, lhs, rhs, x, y)
        PROVE  \E m \in M : LeftRow(join, m) = x /\ RightRow(join, m) = y
    <3> DEFINE m == <<y - 1, x - 1>>
    <3>1. x - 1 \in 0 .. (a - 1) /\ y - 1 \in 0 .. (b - 1) /\ (x - 1) + 1 = x /\ (y - 1) + 1 = y
      BY <1>1
    <3>2. m[2] = x - 1 /\ m[1] = y - 1 /\ m \in (0 .. (b - 1)) \X (0 .. (a - 1))
      BY <3>1
    <3> HIDE DEF m
    <3>3. m \in M
      BY <2>1, <2>5, <3>2 DEF SameKey
    <3> QED
      BY <2>3, <3>1, <3>2, <3>3
  <2>6. ASSUME NEW m \in M, NEW o \in M, LeftRow(join, m) = LeftRow(join, o), RightRow(join, m) = RightRow(join, o)
        PROVE  m = o
    <3>1. /\ m \in (0 .. (b - 1)) \X (0 .. (a - 1)) /\ o \in (0 .. (b - 1)) \X (0 .. (a - 1))
          /\ m[1] + 1 = o[1] + 1 /\ m[2] + 1 = o[2] + 1
      BY <2>1, <2>3, <2>6
    <3> QED
      BY <3>1
  <2> QED
    BY <2>2, <2>4, <2>5, <2>6 DEF M, a, b
<1> QED
  BY <1>2, <1>3

\* An order of a finite set has each of its elements once.
LEMMA OrderIs ==
    ASSUME NEW M, IsFiniteSet(M), NEW order \in SetToSeqs(M)
    PROVE  /\ Cardinality(M) \in Nat /\ DOMAIN order = 1 .. Cardinality(M)
           /\ \A i \in 1 .. Cardinality(M) : order[i] \in M
           /\ \A i, j \in 1 .. Cardinality(M) : order[i] = order[j] => i = j
           /\ \A m \in M : \E i \in 1 .. Cardinality(M) : order[i] = m
<1> DEFINE D == 1 .. Cardinality(M)
<1>1. Cardinality(M) \in Nat
  BY FS_CardinalityType
<1>2. order \in [D -> M] /\ \A i, j \in D : i # j => order[i] # order[j]
  BY DEF SetToSeqs
<1>3. Cardinality(D) = Cardinality(M)
  <2>1. 1 \in Int /\ Cardinality(M) \in Int /\ (IF 1 > Cardinality(M) THEN 0 ELSE Cardinality(M) - 1 + 1) = Cardinality(M)
    BY <1>1
  <2> QED
    BY <2>1, FS_Interval
<1> HIDE DEF D
<1>4. order \in Injection(D, M)
  BY <1>2 DEF Injection, IsInjective
<1>5. order \in Surjection(D, M)
  BY <1>3, <1>4, FS_Injection
<1> QED
  BY <1>1, <1>2, <1>5 DEF Surjection, D

\* Row x of the left child's scans and row y of the right child's.
Both(p, n, x, y) ==
    [s \in ScansUnder(p, n) |-> IF s \in ScansUnder(p, LeftChild(p, n)) THEN x[s] ELSE y[s]]

\* What is under the children of a join is what is under it.
LEMMA JoinUnder ==
    ASSUME NEW p, IsTree(p), NEW n \in Joins(p)
    PROVE  /\ n \in Ids(p) /\ LeftChild(p, n) \in Ids(p) /\ RightChild(p, n) \in Ids(p)
           /\ ScansUnder(p, n) = ScansUnder(p, LeftChild(p, n)) \union ScansUnder(p, RightChild(p, n))
           /\ ScansUnder(p, LeftChild(p, n)) \intersect ScansUnder(p, RightChild(p, n)) = {}
           /\ JoinsUnder(p, n) = {n} \union JoinsUnder(p, LeftChild(p, n)) \union JoinsUnder(p, RightChild(p, n))
<1>1. n \in Ids(p)
  BY DEF Joins
<1> QED
  BY <1>1, UnderJoin DEF ScansUnder, JoinsUnder

\* The keys of a join only depend on the rows of the scans under it.
LEMMA AgreeSame ==
    ASSUME NEW p, IsTree(p), AttrsFit(p), NEW a \in Ids(p), NEW n \in JoinsUnder(p, a), NEW tup, NEW other,
           \A s \in ScansUnder(p, a) : tup[s] = other[s]
    PROVE  AgreeIn(p, n, tup) <=> AgreeIn(p, n, other)
<1> DEFINE l == LeftChild(p, n)
           r == RightChild(p, n)
           ol == OriginsIn(p)[l][NodeIn(p, n).left_attr + 1]
           or == OriginsIn(p)[r][NodeIn(p, n).right_attr + 1]
<1>1. n \in Joins(p) /\ n \in Under(p, a)
  BY DEF JoinsUnder
<1>2. l \in Ids(p) /\ r \in Ids(p) /\ Children(p, n) = {l, r}
  BY <1>1 DEF IsTree, Children
<1>3. Under(p, l) \subseteq Under(p, a) /\ Under(p, r) \subseteq Under(p, a)
  <2>1. Closed(p, Under(p, a)) /\ Under(p, a) \in SUBSET Ids(p)
    BY UnderClosed
  <2>2. l \in Under(p, a) /\ r \in Under(p, a)
    BY <1>1, <1>2, <2>1 DEF Closed
  <2> QED
    BY <1>2, <2>1, <2>2, UnderLeast
<1>4. ScansUnder(p, l) \subseteq ScansUnder(p, a) /\ ScansUnder(p, r) \subseteq ScansUnder(p, a)
  BY <1>3 DEF ScansUnder
<1>5. OriginsFit(p, l) /\ OriginsFit(p, r)
  BY <1>2, PlanOriginsFit
<1>6. /\ NodeIn(p, n).left_attr + 1 \in 1 .. Len(AttrsIn(p, l))
      /\ NodeIn(p, n).right_attr + 1 \in 1 .. Len(AttrsIn(p, r))
  BY <1>1, <1>2 DEF AttrsFit
<1>7. ol[1] \in ScansUnder(p, l) /\ or[1] \in ScansUnder(p, r)
  BY <1>5, <1>6 DEF OriginsFit
<1> HIDE DEF ol, or
<1>8. tup[ol[1]] = other[ol[1]] /\ tup[or[1]] = other[or[1]]
  BY <1>4, <1>7
<1>9. ValueIn(p, ol, tup) = ValueIn(p, ol, other) /\ ValueIn(p, or, tup) = ValueIn(p, or, other)
  BY <1>8 DEF ValueIn
<1> QED
  BY <1>9 DEF AgreeIn, ol, or

\* Rows of the children whose keys agree are a row of the join, and every row of it is
\* made of such.
LEMMA BothIsRow ==
    ASSUME NEW p, IsTree(p), AttrsFit(p), NEW n \in Joins(p), NEW x, IsRow(p, LeftChild(p, n), x), NEW y, IsRow(p, RightChild(p, n), y)
    PROVE  LET tup == Both(p, n, x, y)
           IN  /\ \A s \in ScansUnder(p, LeftChild(p, n)) : tup[s] = x[s]
               /\ \A s \in ScansUnder(p, RightChild(p, n)) : tup[s] = y[s]
               /\ AgreeIn(p, n, tup) => IsRow(p, n, tup)
<1> DEFINE l == LeftChild(p, n)
           r == RightChild(p, n)
           tup == Both(p, n, x, y)
<1>1. /\ n \in Ids(p) /\ l \in Ids(p) /\ r \in Ids(p)
      /\ ScansUnder(p, n) = ScansUnder(p, l) \union ScansUnder(p, r)
      /\ ScansUnder(p, l) \intersect ScansUnder(p, r) = {}
      /\ JoinsUnder(p, n) = {n} \union JoinsUnder(p, l) \union JoinsUnder(p, r)
  BY JoinUnder
<1> HIDE DEF l, r
<1>2. (\A s \in ScansUnder(p, l) : tup[s] = x[s]) /\ (\A s \in ScansUnder(p, r) : tup[s] = y[s])
  BY <1>1 DEF Both, l, r
<1>3. tup = [s \in ScansUnder(p, n) |-> tup[s]]
  BY DEF Both
<1> HIDE DEF tup
<1>4. /\ \A s \in ScansUnder(p, l) : x[s] \in 1 .. TableIn(p, s).num_rows
      /\ \A s \in ScansUnder(p, r) : y[s] \in 1 .. TableIn(p, s).num_rows
      /\ \A m \in JoinsUnder(p, l) : AgreeIn(p, m, x)
      /\ \A m \in JoinsUnder(p, r) : AgreeIn(p, m, y)
  BY DEF IsRow, l, r
<1>5. \A m \in JoinsUnder(p, l) : AgreeIn(p, m, tup)
  BY <1>1, <1>2, <1>4, AgreeSame
<1>6. \A m \in JoinsUnder(p, r) : AgreeIn(p, m, tup)
  BY <1>1, <1>2, <1>4, AgreeSame
<1>7. \A s \in ScansUnder(p, n) : tup[s] \in 1 .. TableIn(p, s).num_rows
  BY <1>1, <1>2, <1>4
<1>8. AgreeIn(p, n, tup) => IsRow(p, n, tup)
  BY <1>1, <1>3, <1>5, <1>6, <1>7 DEF IsRow
<1> QED
  BY <1>2, <1>8 DEF tup, l, r

LEMMA RowIsBoth ==
    ASSUME NEW p, IsTree(p), AttrsFit(p), NEW n \in Joins(p), NEW tup, IsRow(p, n, tup)
    PROVE  \E x, y : /\ IsRow(p, LeftChild(p, n), x) /\ IsRow(p, RightChild(p, n), y)
                     /\ tup = Both(p, n, x, y) /\ AgreeIn(p, n, tup)
<1> DEFINE l == LeftChild(p, n)
           r == RightChild(p, n)
           x == [s \in ScansUnder(p, l) |-> tup[s]]
           y == [s \in ScansUnder(p, r) |-> tup[s]]
<1>1. /\ n \in Ids(p) /\ l \in Ids(p) /\ r \in Ids(p)
      /\ ScansUnder(p, n) = ScansUnder(p, l) \union ScansUnder(p, r)
      /\ ScansUnder(p, l) \intersect ScansUnder(p, r) = {}
      /\ JoinsUnder(p, n) = {n} \union JoinsUnder(p, l) \union JoinsUnder(p, r)
  BY JoinUnder
<1> HIDE DEF l, r
<1>2. /\ tup = [s \in ScansUnder(p, n) |-> tup[s]]
      /\ \A s \in ScansUnder(p, n) : tup[s] \in 1 .. TableIn(p, s).num_rows
      /\ \A m \in JoinsUnder(p, n) : AgreeIn(p, m, tup)
  BY DEF IsRow
<1>3. /\ \A s \in ScansUnder(p, l) : x[s] = tup[s]
      /\ \A s \in ScansUnder(p, r) : y[s] = tup[s]
      /\ x = [s \in ScansUnder(p, l) |-> x[s]] /\ y = [s \in ScansUnder(p, r) |-> y[s]]
  OBVIOUS
<1> HIDE DEF x, y
<1>4. IsRow(p, l, x)
  <2>1. \A m \in JoinsUnder(p, l) : AgreeIn(p, m, x)
    BY <1>1, <1>2, <1>3, AgreeSame
  <2> QED
    BY <1>1, <1>2, <1>3, <2>1 DEF IsRow
<1>5. IsRow(p, r, y)
  <2>1. \A m \in JoinsUnder(p, r) : AgreeIn(p, m, y)
    BY <1>1, <1>2, <1>3, AgreeSame
  <2> QED
    BY <1>1, <1>2, <1>3, <2>1 DEF IsRow
<1>6. tup = Both(p, n, x, y)
  <2>1. \A s \in ScansUnder(p, n) : tup[s] = IF s \in ScansUnder(p, l) THEN x[s] ELSE y[s]
    BY <1>1, <1>3
  <2>2. Both(p, n, x, y) = [s \in ScansUnder(p, n) |-> IF s \in ScansUnder(p, l) THEN x[s] ELSE y[s]]
    BY DEF Both, l
  <2> QED
    BY <1>2, <2>1, <2>2
<1>7. AgreeIn(p, n, tup)
  BY <1>1, <1>2
<1> QED
  BY <1>4, <1>5, <1>6, <1>7 DEF l, r

\* Pairs f[i], g[i] of rows of the children, each once, that are all pairs whose keys
\* agree, and their rows of the join.
Pairing(p, n, xs, a, ys, b, f, g, rows, num) ==
    /\ \A i \in 1 .. num : f[i] \in 1 .. a /\ g[i] \in 1 .. b /\ AgreeIn(p, n, Both(p, n, xs[f[i]], ys[g[i]]))
    /\ \A i, j \in 1 .. num : f[i] = f[j] /\ g[i] = g[j] => i = j
    /\ \A x \in 1 .. a : \A y \in 1 .. b :
          AgreeIn(p, n, Both(p, n, xs[x], ys[y])) => \E i \in 1 .. num : f[i] = x /\ g[i] = y
    /\ \A i \in 1 .. num : rows[i] = Both(p, n, xs[f[i]], ys[g[i]])

\* They are all rows of the join.
LEMMA JoinLists ==
    ASSUME NEW p, IsTree(p), AttrsFit(p), NEW n \in Joins(p),
           NEW xs, NEW a, Lists(p, LeftChild(p, n), xs, a), NEW ys, NEW b, Lists(p, RightChild(p, n), ys, b),
           NEW f, NEW g, NEW rows, NEW num, Pairing(p, n, xs, a, ys, b, f, g, rows, num)
    PROVE  Lists(p, n, rows, num)
<1> DEFINE l == LeftChild(p, n)
           r == RightChild(p, n)
<1>0. /\ \A i \in 1 .. num : f[i] \in 1 .. a /\ g[i] \in 1 .. b /\ AgreeIn(p, n, Both(p, n, xs[f[i]], ys[g[i]]))
      /\ \A i, j \in 1 .. num : f[i] = f[j] /\ g[i] = g[j] => i = j
      /\ \A x \in 1 .. a : \A y \in 1 .. b :
            AgreeIn(p, n, Both(p, n, xs[x], ys[y])) => \E i \in 1 .. num : f[i] = x /\ g[i] = y
  BY DEF Pairing
<1>1. \A i \in 1 .. num : rows[i] = Both(p, n, xs[f[i]], ys[g[i]])
  BY DEF Pairing
<1>2. /\ \A i \in 1 .. a : IsRow(p, l, xs[i])
      /\ \A i, j \in 1 .. a : xs[i] = xs[j] => i = j
      /\ \A tup : IsRow(p, l, tup) => \E i \in 1 .. a : tup = xs[i]
  BY DEF Lists
<1>3. /\ \A i \in 1 .. b : IsRow(p, r, ys[i])
      /\ \A i, j \in 1 .. b : ys[i] = ys[j] => i = j
      /\ \A tup : IsRow(p, r, tup) => \E i \in 1 .. b : tup = ys[i]
  BY DEF Lists
<1> HIDE DEF l, r
<1>4. ASSUME NEW i \in 1 .. num
      PROVE  /\ IsRow(p, n, rows[i])
             /\ \A s \in ScansUnder(p, l) : rows[i][s] = xs[f[i]][s]
             /\ \A s \in ScansUnder(p, r) : rows[i][s] = ys[g[i]][s]
  <2>1. IsRow(p, LeftChild(p, n), xs[f[i]]) /\ IsRow(p, RightChild(p, n), ys[g[i]]) /\ AgreeIn(p, n, Both(p, n, xs[f[i]], ys[g[i]]))
    BY <1>0, <1>2, <1>3 DEF l, r
  <2> QED
    BY <1>1, <2>1, BothIsRow DEF l, r
<1>5. ASSUME NEW i \in 1 .. num, NEW j \in 1 .. num, rows[i] = rows[j] PROVE i = j
  <2>1. xs[f[i]] = xs[f[j]]
    <3>1. /\ xs[f[i]] = [s \in ScansUnder(p, l) |-> xs[f[i]][s]]
          /\ xs[f[j]] = [s \in ScansUnder(p, l) |-> xs[f[j]][s]]
      BY <1>0, <1>2 DEF IsRow
    <3>2. \A s \in ScansUnder(p, l) : xs[f[i]][s] = xs[f[j]][s]
      BY <1>4, <1>5
    <3> QED
      BY <3>1, <3>2
  <2>2. ys[g[i]] = ys[g[j]]
    <3>1. /\ ys[g[i]] = [s \in ScansUnder(p, r) |-> ys[g[i]][s]]
          /\ ys[g[j]] = [s \in ScansUnder(p, r) |-> ys[g[j]][s]]
      BY <1>0, <1>3 DEF IsRow
    <3>2. \A s \in ScansUnder(p, r) : ys[g[i]][s] = ys[g[j]][s]
      BY <1>4, <1>5
    <3> QED
      BY <3>1, <3>2
  <2> QED
    BY <1>0, <1>2, <1>3, <2>1, <2>2
<1>6. ASSUME NEW tup, IsRow(p, n, tup) PROVE \E i \in 1 .. num : tup = rows[i]
  <2>1. PICK x, y : /\ IsRow(p, l, x) /\ IsRow(p, r, y)
                    /\ tup = Both(p, n, x, y) /\ AgreeIn(p, n, tup)
    BY <1>6, RowIsBoth DEF l, r
  <2>2. PICK i \in 1 .. a : x = xs[i]
    BY <1>2, <2>1
  <2>3. PICK j \in 1 .. b : y = ys[j]
    BY <1>3, <2>1
  <2>4. PICK k \in 1 .. num : f[k] = i /\ g[k] = j
    BY <1>0, <2>1, <2>2, <2>3
  <2> QED
    BY <1>1, <2>1, <2>2, <2>3, <2>4
<1> QED
  BY <1>4, <1>5, <1>6 DEF Lists

\* The value of a match is the left child's of its left row, or the right child's of its
\* right one.
LEMMA MatchValueIs ==
    ASSUME NEW join, NEW lhs, NEW rhs, NEW attr, NEW m \in MatchesOf(join, lhs, rhs)
    PROVE  MatchValue(join, BuildSide(join, lhs, rhs), ProbeSide(join, lhs, rhs), attr, m) =
              IF attr < Len(lhs) THEN Get(lhs[attr + 1], LeftRow(join, m) - 1)
                                  ELSE Get(rhs[attr - Len(lhs) + 1], RightRow(join, m) - 1)
<1>1. m[1] \in Int /\ m[2] \in Int
  BY DEF MatchesOf, Matches
<1>2. (m[1] + 1) - 1 = m[1] /\ (m[2] + 1) - 1 = m[2]
  BY <1>1
<1>3. CASE join.build_left
  BY <1>2, <1>3 DEF MatchValue, BuildSide, ProbeSide, LeftRow, RightRow
<1>4. CASE ~ join.build_left
  BY <1>2, <1>4 DEF MatchValue, BuildSide, ProbeSide, LeftRow, RightRow
<1> QED
  BY <1>3, <1>4

\* An attribute of a row of a join is one of the child's row that it comes from.
LEMMA BothValue ==
    ASSUME NEW p, IsTree(p), AttrsFit(p), NEW n \in Joins(p), NEW x, IsRow(p, LeftChild(p, n), x),
           NEW y, IsRow(p, RightChild(p, n), y), NEW i
    PROVE  /\ i \in 1 .. Len(AttrsIn(p, LeftChild(p, n))) =>
                 ValueIn(p, OriginsIn(p)[LeftChild(p, n)][i], Both(p, n, x, y)) = ValueIn(p, OriginsIn(p)[LeftChild(p, n)][i], x)
           /\ i \in 1 .. Len(AttrsIn(p, RightChild(p, n))) =>
                 ValueIn(p, OriginsIn(p)[RightChild(p, n)][i], Both(p, n, x, y)) = ValueIn(p, OriginsIn(p)[RightChild(p, n)][i], y)
<1> DEFINE tup == Both(p, n, x, y)
<1>1. /\ \A s \in ScansUnder(p, LeftChild(p, n)) : tup[s] = x[s]
      /\ \A s \in ScansUnder(p, RightChild(p, n)) : tup[s] = y[s]
  BY BothIsRow
<1>2. OriginsFit(p, LeftChild(p, n)) /\ OriginsFit(p, RightChild(p, n))
  BY JoinUnder, PlanOriginsFit
<1> HIDE DEF tup
<1>3. ASSUME i \in 1 .. Len(AttrsIn(p, LeftChild(p, n)))
      PROVE  ValueIn(p, OriginsIn(p)[LeftChild(p, n)][i], tup) = ValueIn(p, OriginsIn(p)[LeftChild(p, n)][i], x)
  <2>1. OriginsIn(p)[LeftChild(p, n)][i][1] \in ScansUnder(p, LeftChild(p, n))
    BY <1>2, <1>3 DEF OriginsFit
  <2> QED
    BY <1>1, <2>1 DEF ValueIn
<1>4. ASSUME i \in 1 .. Len(AttrsIn(p, RightChild(p, n)))
      PROVE  ValueIn(p, OriginsIn(p)[RightChild(p, n)][i], tup) = ValueIn(p, OriginsIn(p)[RightChild(p, n)][i], y)
  <2>1. OriginsIn(p)[RightChild(p, n)][i][1] \in ScansUnder(p, RightChild(p, n))
    BY <1>2, <1>4 DEF OriginsFit
  <2> QED
    BY <1>1, <2>1 DEF ValueIn
<1> QED
  BY <1>3, <1>4 DEF tup

\* The columns a join returns, for an order of its matches.
Joined(p, n, lhs, rhs, order) ==
    [nth \in DOMAIN AttrsIn(p, n) |->
        Filled([i \in DOMAIN order |->
            MatchValue(NodeIn(p, n), BuildSide(NodeIn(p, n), lhs, rhs), ProbeSide(NodeIn(p, n), lhs, rhs),
                       AttrsIn(p, n)[nth][1], order[i])])]

\* A join of what its children should return returns what it should.
LEMMA JoinCorrect ==
    ASSUME NEW p, IsTree(p), AttrsFit(p), NEW n \in Joins(p),
           NEW lhs, Correct(p, LeftChild(p, n), lhs), NEW rhs, Correct(p, RightChild(p, n), rhs),
           NEW order \in SetToSeqs(MatchesOf(NodeIn(p, n), lhs, rhs))
    PROVE  Correct(p, n, Joined(p, n, lhs, rhs, order))
<1> DEFINE join == NodeIn(p, n)
           l == LeftChild(p, n)
           r == RightChild(p, n)
           M == MatchesOf(join, lhs, rhs)
           num == Cardinality(M)
<1>1. PICK xs, a : Holds(p, l, lhs, xs, a)
  BY DEF Correct
<1>2. PICK ys, b : Holds(p, r, rhs, ys, b)
  BY DEF Correct
<1>3. n \in Ids(p) /\ l \in Ids(p) /\ r \in Ids(p)
  BY JoinUnder
<1>4. Rows(lhs) = a /\ a \in Nat /\ Rows(rhs) = b /\ b \in Nat
  BY <1>1, <1>2, <1>3, RowsAre DEF AttrsFit
<1>5. /\ IsFiniteSet(M)
      /\ \A m \in M : /\ LeftRow(join, m) \in 1 .. a /\ RightRow(join, m) \in 1 .. b
                      /\ SameKey(join, lhs, rhs, LeftRow(join, m), RightRow(join, m))
      /\ \A x \in 1 .. a : \A y \in 1 .. b :
            SameKey(join, lhs, rhs, x, y) => \E m \in M : LeftRow(join, m) = x /\ RightRow(join, m) = y
      /\ \A m, o \in M : LeftRow(join, m) = LeftRow(join, o) /\ RightRow(join, m) = RightRow(join, o) => m = o
  BY <1>4, MatchesAre
<1>6. /\ num \in Nat /\ DOMAIN order = 1 .. num
      /\ \A i \in 1 .. num : order[i] \in M
      /\ \A i, j \in 1 .. num : order[i] = order[j] => i = j
      /\ \A m \in M : \E i \in 1 .. num : order[i] = m
  <2> HIDE DEF M
  <2> QED
    BY <1>5, OrderIs DEF M
<1>7. Lists(p, l, xs, a) /\ Lists(p, r, ys, b)
  BY <1>1, <1>2 DEF Holds
<1>8. (\A i \in 1 .. a : IsRow(p, l, xs[i])) /\ (\A i \in 1 .. b : IsRow(p, r, ys[i]))
  BY <1>7 DEF Lists
<1>9. ASSUME NEW x \in 1 .. a, NEW y \in 1 .. b
      PROVE  SameKey(join, lhs, rhs, x, y) <=> AgreeIn(p, n, Both(p, n, xs[x], ys[y]))
  <2> DEFINE i == join.left_attr + 1
             j == join.right_attr + 1
  <2>1. /\ i \in 1 .. Len(AttrsIn(p, l)) /\ AttrsIn(p, l)[i][2] = "INT32"
        /\ j \in 1 .. Len(AttrsIn(p, r)) /\ AttrsIn(p, r)[j][2] = "INT32"
    BY <1>3 DEF AttrsFit
  <2>2. AgreeIn(p, n, Both(p, n, xs[x], ys[y])) <=>
          /\ ValueIn(p, OriginsIn(p)[l][i], Both(p, n, xs[x], ys[y])) # Null
          /\ ValueIn(p, OriginsIn(p)[l][i], Both(p, n, xs[x], ys[y])) = ValueIn(p, OriginsIn(p)[r][j], Both(p, n, xs[x], ys[y]))
    BY DEF AgreeIn
  <2>3. SameKey(join, lhs, rhs, x, y) <=>
          Get(lhs[i], x - 1) # Null /\ Get(lhs[i], x - 1) = Get(rhs[j], y - 1)
    BY DEF SameKey
  <2> HIDE DEF i, j, l, r
  <2>4. Get(lhs[i], x - 1) = ValueIn(p, OriginsIn(p)[l][i], xs[x])
    BY <1>1, <2>1, KeysRead
  <2>5. Get(rhs[j], y - 1) = ValueIn(p, OriginsIn(p)[r][j], ys[y])
    BY <1>2, <2>1, KeysRead
  <2>6. /\ ValueIn(p, OriginsIn(p)[l][i], Both(p, n, xs[x], ys[y])) = ValueIn(p, OriginsIn(p)[l][i], xs[x])
        /\ ValueIn(p, OriginsIn(p)[r][j], Both(p, n, xs[x], ys[y])) = ValueIn(p, OriginsIn(p)[r][j], ys[y])
    BY <1>8, <2>1, BothValue DEF l, r
  <2> QED
    BY <2>2, <2>3, <2>4, <2>5, <2>6
<1> DEFINE f == [i \in 1 .. num |-> LeftRow(join, order[i])]
           g == [i \in 1 .. num |-> RightRow(join, order[i])]
           rows == [i \in 1 .. num |-> Both(p, n, xs[f[i]], ys[g[i]])]
<1>10. \A i \in 1 .. num : f[i] = LeftRow(join, order[i]) /\ g[i] = RightRow(join, order[i])
  OBVIOUS
<1> HIDE DEF f, g, M, num, join, l, r
<1>11. \A i \in 1 .. num : f[i] \in 1 .. a /\ g[i] \in 1 .. b /\ AgreeIn(p, n, Both(p, n, xs[f[i]], ys[g[i]]))
  BY <1>5, <1>6, <1>9, <1>10
<1>12. \A i, j \in 1 .. num : f[i] = f[j] /\ g[i] = g[j] => i = j
  BY <1>5, <1>6, <1>10
<1>13. ASSUME NEW x \in 1 .. a, NEW y \in 1 .. b, AgreeIn(p, n, Both(p, n, xs[x], ys[y]))
       PROVE  \E i \in 1 .. num : f[i] = x /\ g[i] = y
  <2>1. PICK m \in M : LeftRow(join, m) = x /\ RightRow(join, m) = y
    BY <1>5, <1>9, <1>13
  <2>2. PICK i \in 1 .. num : order[i] = m
    BY <1>6
  <2> QED
    BY <1>10, <2>1, <2>2
<1>14. \A i \in 1 .. num : rows[i] = Both(p, n, xs[f[i]], ys[g[i]])
  OBVIOUS
<1> HIDE DEF rows
<1>15. Lists(p, n, rows, num)
  <2>1. Pairing(p, n, xs, a, ys, b, f, g, rows, num)
    BY <1>11, <1>12, <1>13, <1>14 DEF Pairing
  <2>2. Lists(p, LeftChild(p, n), xs, a) /\ Lists(p, RightChild(p, n), ys, b)
    BY <1>7 DEF l, r
  <2> QED
    BY <2>1, <2>2, JoinLists
<1> DEFINE k == Len(AttrsIn(p, n))
           rel == Joined(p, n, lhs, rhs, order)
<1>16. k \in Nat \ {0} /\ DOMAIN AttrsIn(p, n) = 1 .. k
  BY <1>3 DEF AttrsFit
<1>17. ASSUME NEW nth \in 1 .. k PROVE HasValues(p, n, rel[nth], nth, rows, num)
  <2> DEFINE attr == AttrsIn(p, n)[nth][1]
             type == AttrsIn(p, n)[nth][2]
             vals == [i \in 1 .. num |-> MatchValue(join, BuildSide(join, lhs, rhs), ProbeSide(join, lhs, rhs), attr, order[i])]
  <2>1. rel[nth] = Filled(vals)
    BY <1>6, <1>16 DEF Joined, join
  <2>2. Len(vals) = num /\ Reads(Filled(vals), vals)
    <3>1. vals = [i \in 1 .. num |-> vals[i]]
      OBVIOUS
    <3> HIDE DEF vals
    <3>2. Len(vals) = num /\ vals \in Seq({vals[i] : i \in 1 .. num})
      BY <1>6, <3>1, LengthIs
    <3> QED
      BY <3>2, FilledReads
  <2>3. \A i \in 1 .. num :
           vals[i] = IF attr < Len(lhs) THEN Get(lhs[attr + 1], f[i] - 1)
                                         ELSE Get(rhs[attr - Len(lhs) + 1], g[i] - 1)
    BY <1>6, <1>10, MatchValueIs DEF M
  <2> HIDE DEF vals, rel
  <2> DEFINE la == Len(AttrsIn(p, l))
             i1 == attr + 1
             i2 == attr - la + 1
  <2>4. Len(lhs) = la
    BY <1>1 DEF Holds
  <2>5. OriginsFit(p, l) /\ OriginsFit(p, r)
    BY <1>3, PlanOriginsFit
  <2>6. IF attr < la
        THEN /\ i1 \in 1 .. la
             /\ OriginsIn(p)[n][nth] = OriginsIn(p)[l][i1]
             /\ type = AttrsIn(p, l)[i1][2]
        ELSE /\ i2 \in 1 .. Len(AttrsIn(p, r))
             /\ OriginsIn(p)[n][nth] = OriginsIn(p)[r][i2]
             /\ type = AttrsIn(p, r)[i2][2]
    BY <2>5, JoinOrigins DEF l, r
  <2>7. ASSUME NEW i \in 1 .. num PROVE Inserted(type, vals[i]) = ValueIn(p, OriginsIn(p)[n][nth], rows[i])
    <3>1. f[i] \in 1 .. a /\ g[i] \in 1 .. b /\ IsRow(p, l, xs[f[i]]) /\ IsRow(p, r, ys[g[i]])
      BY <1>8, <1>11
    <3>2. CASE attr < la
      <4>1. i1 \in 1 .. la /\ OriginsIn(p)[n][nth] = OriginsIn(p)[l][i1] /\ type = AttrsIn(p, l)[i1][2]
        BY <2>6, <3>2
      <4>2. vals[i] = Get(lhs[i1], f[i] - 1)
        BY <2>3, <2>4, <3>2
      <4> HIDE DEF i1, type
      <4>3. HasValues(p, l, lhs[i1], i1, xs, a)
        BY <1>1, <4>1 DEF Holds
      <4>4. PICK v : /\ Reads(lhs[i1], v) /\ Len(v) = a
                     /\ \A j \in 1 .. a : Inserted(AttrsIn(p, l)[i1][2], v[j]) = ValueIn(p, OriginsIn(p)[l][i1], xs[j])
        BY <4>3 DEF HasValues
      <4>5. vals[i] = v[f[i]]
        BY <3>1, <4>2, <4>4 DEF Reads
      <4>6. Inserted(type, vals[i]) = ValueIn(p, OriginsIn(p)[l][i1], xs[f[i]])
        BY <3>1, <4>1, <4>4, <4>5
      <4>7. ValueIn(p, OriginsIn(p)[l][i1], rows[i]) = ValueIn(p, OriginsIn(p)[l][i1], xs[f[i]])
        BY <1>14, <3>1, <4>1, BothValue DEF l, r
      <4> QED
        BY <4>1, <4>6, <4>7
    <3>3. CASE ~ (attr < la)
      <4>1. i2 \in 1 .. Len(AttrsIn(p, r)) /\ OriginsIn(p)[n][nth] = OriginsIn(p)[r][i2] /\ type = AttrsIn(p, r)[i2][2]
        BY <2>6, <3>3
      <4>2. vals[i] = Get(rhs[i2], g[i] - 1)
        BY <2>3, <2>4, <3>3
      <4> HIDE DEF i2, type
      <4>3. HasValues(p, r, rhs[i2], i2, ys, b)
        BY <1>2, <4>1 DEF Holds
      <4>4. PICK v : /\ Reads(rhs[i2], v) /\ Len(v) = b
                     /\ \A j \in 1 .. b : Inserted(AttrsIn(p, r)[i2][2], v[j]) = ValueIn(p, OriginsIn(p)[r][i2], ys[j])
        BY <4>3 DEF HasValues
      <4>5. vals[i] = v[g[i]]
        BY <3>1, <4>2, <4>4 DEF Reads
      <4>6. Inserted(type, vals[i]) = ValueIn(p, OriginsIn(p)[r][i2], ys[g[i]])
        BY <3>1, <4>1, <4>4, <4>5
      <4>7. ValueIn(p, OriginsIn(p)[r][i2], rows[i]) = ValueIn(p, OriginsIn(p)[r][i2], ys[g[i]])
        BY <1>14, <3>1, <4>1, BothValue DEF l, r
      <4> QED
        BY <4>1, <4>6, <4>7
    <3> QED
      BY <3>2, <3>3
  <2> QED
    BY <2>1, <2>2, <2>7 DEF HasValues
<1>18. DOMAIN rel = 1 .. k /\ Len(rel) = k
  <2>1. rel = [nth \in 1 .. k |-> rel[nth]]
    BY <1>16 DEF Joined
  <2> HIDE DEF rel
  <2> QED
    BY <1>16, <2>1, LengthIs
<1> HIDE DEF rel
<1>19. Holds(p, n, rel, rows, num)
  BY <1>6, <1>15, <1>17, <1>18 DEF Holds
<1> QED
  BY <1>19 DEF Correct, rel

-----------------------------------------------------------------------------
(* Every result is correct, and the output is the part of the root's that has been *)
(* written.                                                                        *)

\* The first k values of a column, as they are inserted.
Written(o, k, type, col) == o = [i \in 1 .. k |-> Inserted(type, Get(col, i - 1))]

OutputPart(j) ==
    /\ filled[j] \in Nat
    /\ Written(output[j], filled[j], Attrs(plan.root)[j][2], Root[j])
    /\ IF plan.root \in DOMAIN result THEN filled[j] <= NumRows ELSE filled[j] = 0

ResultsInv == \A n \in DOMAIN result : n \in NodeIds /\ Correct(plan, n, result[n])

PartsInv ==
    /\ DOMAIN filled = Outputs /\ DOMAIN output = Outputs
    /\ \A j \in Outputs : OutputPart(j)
    /\ phase \in {"output", "destroy"} => plan.root \in DOMAIN result
    /\ phase = "destroy" => \A j \in Outputs : filled[j] = NumRows

ExecInv == plan \in Plans /\ ResultsInv /\ PartsInv

LEMMA PlanIs ==
    ASSUME plan \in Plans
    PROVE  /\ IsTree(plan) /\ AttrsFit(plan) /\ NodeIds = Ids(plan)
           /\ \A n : /\ Node(n) = NodeIn(plan, n) /\ Attrs(n) = AttrsIn(plan, n)
                     /\ IsJoin(n) <=> IsJoinIn(plan, n)
           /\ plan.root \in Ids(plan) /\ Outputs = 1 .. Len(AttrsIn(plan, plan.root))
           /\ Len(AttrsIn(plan, plan.root)) \in Nat \ {0}
<1>1. IsTree(plan) /\ AttrsFit(plan)
  BY PlansAreTrees, PlansFit
<1>2. \A n : /\ Node(n) = NodeIn(plan, n) /\ Attrs(n) = AttrsIn(plan, n)
             /\ IsJoin(n) <=> IsJoinIn(plan, n)
  BY DEF Node, NodeIn, Attrs, AttrsIn, IsJoin, IsJoinIn
<1>3. NodeIds = Ids(plan)
  BY DEF NodeIds, Ids
<1>4. plan.root \in Ids(plan)
  BY <1>1 DEF IsTree
<1>5. Outputs = DOMAIN AttrsIn(plan, plan.root)
  BY <1>2 DEF Outputs
<1> QED
  BY <1>1, <1>2, <1>3, <1>4, <1>5 DEF AttrsFit

\* Nothing written is nothing written of any column.
LEMMA NothingWritten ==
    ASSUME NEW o, NEW type, NEW c, NEW d, Written(o, 0, type, c)
    PROVE  Written(o, 0, type, d)
<1>1. 1 .. 0 = {}
  OBVIOUS
<1>2. o = [i \in {} |-> Inserted(type, Get(c, i - 1))]
  BY <1>1 DEF Written
<1>3. o = [i \in {} |-> Inserted(type, Get(d, i - 1))]
  BY <1>2
<1> QED
  BY <1>1, <1>3 DEF Written

LEMMA ExecStart ==
    ASSUME QueryInit
    PROVE  ExecInv
<1>1. plan \in Plans /\ result = << >> /\ filled = [j \in Outputs |-> 0] /\ output = [j \in Outputs |-> <<>>]
      /\ phase = "load"
  BY DEF QueryInit, ExecInit
<1>2. DOMAIN result = {}
  BY <1>1
<1>3. ASSUME NEW j \in Outputs PROVE OutputPart(j)
  <2>1. output[j] = <<>> /\ filled[j] = 0
    BY <1>1
  <2>2. <<>> = [i \in 1 .. 0 |-> Inserted(Attrs(plan.root)[j][2], Get(Root[j], i - 1))]
    <3>1. 1 .. 0 = {}
      OBVIOUS
    <3> QED
      BY <3>1
  <2> QED
    BY <1>2, <2>1, <2>2 DEF OutputPart, Written
<1> QED
  BY <1>1, <1>2, <1>3 DEF ExecInv, ResultsInv, PartsInv

\* Nothing of the execution changes.
LEMMA ExecSame ==
    ASSUME ExecInv, UNCHANGED execVars,
           phase' \in {"output", "destroy"} => plan.root \in DOMAIN result,
           phase' = "destroy" => \A j \in Outputs : filled[j] = NumRows
    PROVE  ExecInv'
<1>1. plan' = plan /\ result' = result /\ filled' = filled /\ output' = output
  BY DEF execVars
<1>2. ResultsInv'
  BY <1>1 DEF ExecInv, ResultsInv, NodeIds
<1>3. Outputs' = Outputs /\ NumRows' = NumRows /\ Root' = Root
  BY <1>1 DEF Outputs, NumRows, Root, Attrs, Node
<1>4. \A j \in Outputs : OutputPart(j)'
  BY <1>1, <1>3 DEF ExecInv, PartsInv, OutputPart, Attrs, Node
<1>5. PartsInv'
  BY <1>1, <1>3, <1>4 DEF ExecInv, PartsInv
<1> QED
  BY <1>1, <1>2, <1>5 DEF ExecInv

\* A result comes in, and the root's is not there before.
LEMMA ResultReturned ==
    ASSUME ExecInv, NEW n \in NodeIds, NEW gone, NEW rel, Correct(plan, n, rel),
           plan.root \notin DOMAIN result, result' = Returned(n, gone, rel),
           UNCHANGED <<plan, filled, output, phase>>
    PROVE  ExecInv'
<1>1. /\ DOMAIN result' = (DOMAIN result \ gone) \union {n}
      /\ \A m \in DOMAIN result' : result'[m] = IF m = n THEN rel ELSE result[m]
  BY DEF Returned
<1>2. ResultsInv'
  <2> SUFFICES ASSUME NEW m \in DOMAIN result' PROVE m \in NodeIds /\ Correct(plan, m, result'[m])
    BY DEF ResultsInv, NodeIds
  <2> QED
    BY <1>1 DEF ExecInv, ResultsInv
<1>3. PICK o : o = Outputs
  OBVIOUS
<1>4. Outputs' = o
  BY <1>3 DEF Outputs, Attrs, Node
<1>5. ASSUME NEW j \in o PROVE OutputPart(j)'
  <2>1. OutputPart(j) /\ filled[j] = 0
    BY <1>3 DEF ExecInv, PartsInv, OutputPart
  <2>2. Written(output[j], 0, Attrs(plan.root)[j][2], Root[j])
    BY <2>1 DEF OutputPart
  <2>3. Written(output[j], 0, Attrs(plan.root)[j][2], Root'[j])
    BY <2>2, NothingWritten
  <2>4. Written(output[j], 0, Attrs(plan.root)[j][2], Root[j])'
    BY <2>3 DEF Attrs, Node, Written
  <2>5. plan.root \in DOMAIN result' => 0 <= NumRows'
    <3> SUFFICES ASSUME plan.root \in DOMAIN result' PROVE 0 <= NumRows'
      OBVIOUS
    <3>1. result'[plan.root] = rel /\ n = plan.root
      BY <1>1
    <3>2. PICK rows, num : Holds(plan, n, rel, rows, num)
      BY DEF Correct
    <3>3. Rows(rel) \in Nat
      BY <3>1, <3>2, PlanIs, RowsAre DEF ExecInv
    <3>4. NumRows' = Rows(rel)
      BY <3>1 DEF NumRows, Root
    <3> QED
      BY <3>3, <3>4
  <2> QED
    BY <2>1, <2>4, <2>5 DEF OutputPart
<1>6. PartsInv'
  BY <1>3, <1>4, <1>5 DEF ExecInv, PartsInv
<1> QED
  BY <1>2, <1>6 DEF ExecInv

\* execute_impl of a node.
LEMMA NodeReturned ==
    ASSUME ExecInv, plan.root \notin DOMAIN result, ExecuteNode, UNCHANGED phase
    PROVE  ExecInv'
<1>1. PICK n \in NodeIds : ExecuteScan(n) \/ ExecuteJoin(n)
  BY DEF ExecuteNode
<1>2. /\ IsTree(plan) /\ AttrsFit(plan) /\ NodeIds = Ids(plan)
      /\ \A m : /\ Node(m) = NodeIn(plan, m) /\ Attrs(m) = AttrsIn(plan, m)
                /\ IsJoin(m) <=> IsJoinIn(plan, m)
  BY PlanIs DEF ExecInv
<1>3. CASE ExecuteScan(n)
  <2> DEFINE rel == [nth \in DOMAIN Attrs(n) |-> ScanColumn(Node(n).base_table_id, Attrs(n)[nth])]
  <2>1. n \in Ids(plan) \ Joins(plan)
    BY <1>2, <1>3 DEF ExecuteScan, Joins
  <2>2. rel = [nth \in DOMAIN AttrsIn(plan, n) |-> ScanColumn(NodeIn(plan, n).base_table_id, AttrsIn(plan, n)[nth])]
    BY <1>2
  <2>3. Correct(plan, n, rel)
    BY <1>2, <2>1, <2>2, ScanCorrect
  <2>4. result' = Returned(n, {}, rel) /\ UNCHANGED <<plan, filled, output>>
    BY <1>3 DEF ExecuteScan
  <2> HIDE DEF rel
  <2> QED
    BY <2>3, <2>4, ResultReturned
<1>4. CASE ExecuteJoin(n)
  <2> DEFINE join == NodeIn(plan, n)
             lhs == result[join.left]
             rhs == result[join.right]
             gone == {join.left, join.right}
  <2>1. n \in Joins(plan) /\ join.left \in DOMAIN result /\ join.right \in DOMAIN result
        /\ UNCHANGED <<plan, filled, output>>
    BY <1>2, <1>4 DEF ExecuteJoin, Joins
  <2>2. join.left = LeftChild(plan, n) /\ join.right = RightChild(plan, n)
    BY DEF LeftChild, RightChild
  <2>3. Correct(plan, LeftChild(plan, n), lhs) /\ Correct(plan, RightChild(plan, n), rhs)
    BY <2>1, <2>2 DEF ExecInv, ResultsInv
  <2>4. \E order \in SetToSeqs(MatchesOf(join, lhs, rhs)) :
           result' = Returned(n, gone, Joined(plan, n, lhs, rhs, order))
    <3>1. \E order \in SetToSeqs(MatchesOf(join, lhs, rhs)) :
             result' = Returned(n, gone,
                          [nth \in DOMAIN Attrs(n) |->
                              Filled([i \in DOMAIN order |->
                                  MatchValue(join, BuildSide(join, lhs, rhs), ProbeSide(join, lhs, rhs),
                                             Attrs(n)[nth][1], order[i])])])
      BY <1>2, <1>4 DEF ExecuteJoin, MatchesOf, BuildSide, ProbeSide
    <3>2. Attrs(n) = AttrsIn(plan, n)
      BY <1>2
    <3> QED
      BY <3>1, <3>2 DEF Joined
  <2>5. PICK order \in SetToSeqs(MatchesOf(join, lhs, rhs)) :
           result' = Returned(n, gone, Joined(plan, n, lhs, rhs, order))
    BY <2>4
  <2> DEFINE rel == Joined(plan, n, lhs, rhs, order)
  <2>6. Correct(plan, n, rel)
    <3> HIDE DEF lhs, rhs
    <3> QED
      BY <1>2, <2>1, <2>3, JoinCorrect
  <2> HIDE DEF rel, gone
  <2> QED
    BY <2>1, <2>5, <2>6, ResultReturned DEF rel
<1> QED
  BY <1>1, <1>3, <1>4

\* What is written behind what was written.
LEMMA WrittenOn ==
    ASSUME NEW o, NEW k \in Nat, NEW l \in Nat, k <= l, NEW type, NEW col, Written(o, k, type, col)
    PROVE  Written(o \o [i \in 1 .. (l - k) |-> Inserted(type, Get(col, k + i - 1))], l, type, col)
<1> DEFINE val(i) == Inserted(type, Get(col, i - 1))
           more == [i \in 1 .. (l - k) |-> Inserted(type, Get(col, k + i - 1))]
           all == [i \in 1 .. l |-> val(i)]
           S == {val(i) : i \in 1 .. l}
           d == l - k
<1>1. o = [i \in 1 .. k |-> val(i)]
  BY DEF Written
<1>2. d \in Nat /\ k + d = l /\ \A i \in 1 .. k : i \in 1 .. l
  OBVIOUS
<1>3. ASSUME NEW i \in 1 .. d PROVE more[i] = val(k + i) /\ k + i \in 1 .. l
  BY <1>2
<1>4. more = [i \in 1 .. d |-> more[i]]
  OBVIOUS
<1>5. \A i \in 1 .. l : all[i] = val(i) /\ val(i) \in S
  OBVIOUS
<1>6. all = [i \in 1 .. l |-> all[i]]
  OBVIOUS
<1>7. \A i \in 1 .. k : o[i] = val(i)
  BY <1>1
<1>8. o = [i \in 1 .. k |-> o[i]]
  BY <1>1
<1> HIDE DEF val, more, all, S, d
<1>9. o \in [1 .. k -> S] /\ more \in [1 .. d -> S] /\ all \in [1 .. l -> S]
  BY <1>2, <1>3, <1>4, <1>5, <1>6, <1>7, <1>8
<1>10. o \in Seq(S) /\ Len(o) = k /\ more \in Seq(S) /\ Len(more) = d /\ all \in Seq(S) /\ Len(all) = l
  <2>1. o \in Seq(S) /\ more \in Seq(S) /\ all \in Seq(S)
    BY <1>2, <1>9, SeqDef
  <2> QED
    BY <1>2, <1>9, <2>1, LenProperties
<1>11. /\ o \o more \in Seq(S) /\ Len(o \o more) = Len(o) + Len(more)
       /\ \A i \in 1 .. (Len(o) + Len(more)) : (o \o more)[i] = IF i <= Len(o) THEN o[i] ELSE more[i - Len(o)]
  BY ONLY <1>10, ConcatProperties, Zenon
<1>12. ASSUME NEW i \in 1 .. l PROVE (o \o more)[i] = all[i]
  <2>1. (o \o more)[i] = IF i <= k THEN o[i] ELSE more[i - k]
    BY <1>2, <1>10, <1>11
  <2>2. CASE i <= k
    <3>1. i \in 1 .. k
      BY <2>2
    <3> QED
      BY <1>5, <1>7, <2>1, <3>1
  <2>3. CASE ~ (i <= k)
    <3>1. i - k \in 1 .. d /\ k + (i - k) = i
      BY <1>2, <2>3
    <3>2. more[i - k] = val(i)
      BY <1>3, <3>1
    <3> QED
      BY <1>5, <2>1, <2>3, <3>2
  <2> QED
    BY <2>2, <2>3
<1>13. Len(o \o more) = l
  BY <1>2, <1>10, <1>11
<1>14. o \o more = all
  BY <1>10, <1>11, <1>12, <1>13, SeqEqual
<1> QED
  BY <1>14 DEF Written, all, val, more

\* One page or chunk of an output column.
LEMMA PartWritten ==
    ASSUME ExecInv, NEW j \in Outputs, OutputStep(j), UNCHANGED phase, phase = "output"
    PROVE  ExecInv'
<1> DEFINE src == Root[j]
           type == Attrs(plan.root)[j][2]
           step == IF type = "INT32" /\ src.is_view /\ src.total_size = NumRows THEN ChunkRows(src) ELSE OutputChunk
           upTo == Min({filled[j] + step, NumRows})
           k == filled[j]
<1>1. /\ plan' = plan /\ result' = result /\ plan.root \in DOMAIN result /\ k < NumRows
      /\ output' = [output EXCEPT ![j] = @ \o [i \in 1 .. (upTo - k) |-> Inserted(type, Get(src, k + i - 1))]]
      /\ filled' = [filled EXCEPT ![j] = upTo]
  BY DEF OutputStep
<1>2. OutputPart(j) /\ DOMAIN filled = Outputs /\ DOMAIN output = Outputs
  BY DEF ExecInv, PartsInv
<1>3. k \in Nat /\ Written(output[j], k, type, src)
  BY <1>2 DEF OutputPart
<1>4. PICK rows, num : Holds(plan, plan.root, Root, rows, num)
  BY <1>1 DEF ExecInv, ResultsInv, Correct, Root
<1>5. NumRows = num /\ num \in Nat
  BY <1>4, PlanIs, RowsAre DEF ExecInv, NumRows
<1>6. step \in Nat \ {0}
  <2>1. HasValues(plan, plan.root, src, j, rows, num)
    BY <1>4, PlanIs DEF ExecInv, Holds
  <2>2. PICK vals : Reads(src, vals) /\ Len(vals) = num
    BY <2>1 DEF HasValues
  <2>3. num # 0
    BY <1>1, <1>3, <1>5
  <2>4. src.is_view => ChunkRows(src) \in Nat \ {0}
    BY <2>2, <2>3 DEF Reads
  <2>5. OutputChunk \in Nat \ {0}
    BY PlanAssumption
  <2> HIDE DEF src, type
  <2> QED
    BY <2>4, <2>5
<1> HIDE DEF src, type, step
<1>7. upTo \in Nat /\ k <= upTo /\ upTo <= NumRows
  <2>1. upTo = IF k + step <= NumRows THEN k + step ELSE NumRows
    BY <1>3, <1>5, <1>6, MinOfTwo
  <2> HIDE DEF upTo
  <2> QED
    BY <1>1, <1>3, <1>5, <1>6, <2>1
<1> HIDE DEF upTo
<1>8. Written(output[j] \o [i \in 1 .. (upTo - k) |-> Inserted(type, Get(src, k + i - 1))], upTo, type, src)
  BY <1>3, <1>7, WrittenOn
<1>9. /\ output'[j] = output[j] \o [i \in 1 .. (upTo - k) |-> Inserted(type, Get(src, k + i - 1))]
      /\ filled'[j] = upTo
      /\ DOMAIN output' = Outputs /\ DOMAIN filled' = Outputs
      /\ \A i \in Outputs : i # j => output'[i] = output[i] /\ filled'[i] = filled[i]
  BY <1>1, <1>2
<1>10. Outputs' = Outputs /\ NumRows' = NumRows /\ Root' = Root /\ Attrs(plan.root)' = Attrs(plan.root)
  BY <1>1 DEF Outputs, NumRows, Root, Attrs, Node
<1>11. ASSUME NEW i \in Outputs PROVE OutputPart(i)'
  <2>1. CASE i = j
    <3>1. Written(output'[j], upTo, type, src)
      BY <1>8, <1>9
    <3>2. Written(output[j], filled[j], Attrs(plan.root)[j][2], Root[j])'
      BY <1>9, <1>10, <3>1 DEF Written, type, src
    <3> QED
      BY <1>1, <1>7, <1>9, <1>10, <2>1, <3>2 DEF OutputPart
  <2>2. CASE i # j
    <3>1. OutputPart(i)
      BY DEF ExecInv, PartsInv
    <3>2. Written(output[i], filled[i], Attrs(plan.root)[i][2], Root[i])'
      BY <1>9, <1>10, <2>2, <3>1 DEF Written, OutputPart
    <3> QED
      BY <1>1, <1>9, <1>10, <2>2, <3>1, <3>2 DEF OutputPart
  <2> QED
    BY <2>1, <2>2
<1>12. ResultsInv'
  BY <1>1 DEF ExecInv, ResultsInv, NodeIds
<1>13. PartsInv'
  BY <1>1, <1>9, <1>10, <1>11 DEF PartsInv
<1> QED
  BY <1>1, <1>12, <1>13 DEF ExecInv

LEMMA ExecStep ==
    ASSUME ExecInv, [QueryNext]_queryVars
    PROVE  ExecInv'
<1>1. CASE Load
  BY <1>1, ExecSame DEF Load, ExecInv, PartsInv
<1>2. CASE Execute
  <2>1. CASE plan.root \notin DOMAIN result
    BY <1>2, <2>1, NodeReturned DEF Execute
  <2>2. CASE plan.root \in DOMAIN result
    BY <1>2, <2>2, ExecSame DEF Execute
  <2> QED
    BY <2>1, <2>2
<1>3. CASE Output
  <2>1. CASE Executed
    BY <1>3, <2>1, ExecSame DEF Output, Executed
  <2>2. CASE ~ Executed
    BY <1>3, <2>2, PartWritten DEF Output
  <2> QED
    BY <2>1, <2>2
<1>4. CASE Destroy
  BY <1>4, ExecSame DEF Destroy, ExecInv, PartsInv
<1>5. CASE UNCHANGED queryVars
  BY <1>5, ExecSame DEF queryVars, ExecInv, PartsInv
<1> QED
  BY <1>1, <1>2, <1>3, <1>4, <1>5 DEF QueryNext, QueryDone

-----------------------------------------------------------------------------
(* The output is the plan's answer. *)

\* The assignments are the rows of the root.
LEMMA AssignmentsAre ==
    ASSUME plan \in Plans, NEW tup
    PROVE  tup \in Assignments <=> IsRow(plan, plan.root, tup)
<1>1. /\ IsTree(plan) /\ AttrsFit(plan) /\ NodeIds = Ids(plan)
      /\ \A n : /\ Node(n) = NodeIn(plan, n) /\ Attrs(n) = AttrsIn(plan, n)
                /\ IsJoin(n) <=> IsJoinIn(plan, n)
  BY PlanIs
<1>2. Under(plan, plan.root) = Ids(plan)
  BY <1>1, UnderRoot
<1>3. Scans = ScansUnder(plan, plan.root) /\ NodeIds \ Scans = JoinsUnder(plan, plan.root)
  BY <1>1, <1>2 DEF Scans, ScansUnder, JoinsUnder, Joins
<1>4. \A s : BaseRows(s) = 1 .. TableIn(plan, s).num_rows
  BY <1>1 DEF BaseRows, TableIn
<1>5. \A origin : BaseValue(origin, tup) = ValueIn(plan, origin, tup)
  BY <1>1 DEF BaseValue, ValueIn, BaseIn, TableIn
<1>6. \A n : KeysAgree(n, tup) <=> AgreeIn(plan, n, tup)
  BY <1>1, <1>5, OriginsAre DEF KeysAgree, AgreeIn, LeftChild, RightChild
<1> DEFINE U == UNION {BaseRows(s) : s \in Scans}
<1>7. tup \in Assignments <=> /\ tup \in [Scans -> U]
                              /\ \A s \in Scans : tup[s] \in BaseRows(s)
                              /\ \A n \in NodeIds \ Scans : KeysAgree(n, tup)
  BY DEF Assignments
<1>8. \A s \in Scans : BaseRows(s) \subseteq U
  OBVIOUS
<1> HIDE DEF U
<1>9. (\A s \in Scans : tup[s] \in BaseRows(s)) =>
         (tup \in [Scans -> U] <=> tup = [s \in Scans |-> tup[s]])
  BY <1>8
<1>10. IsRow(plan, plan.root, tup) <=> /\ tup = [s \in Scans |-> tup[s]]
                                       /\ \A s \in Scans : tup[s] \in BaseRows(s)
                                       /\ \A n \in NodeIds \ Scans : KeysAgree(n, tup)
  BY <1>3, <1>4, <1>6 DEF IsRow
<1> QED
  BY <1>7, <1>9, <1>10

\* When all of the output is written, its rows are the answer's, each as often.
LEMMA AnswerIs ==
    ASSUME ExecInv, plan.root \in DOMAIN result, \A j \in Outputs : filled[j] = NumRows
    PROVE  OutputIsAnswer
<1>1. PICK rows, num : Holds(plan, plan.root, Root, rows, num)
  BY DEF ExecInv, ResultsInv, Correct, Root
<1>2. /\ plan \in Plans /\ Outputs = 1 .. Len(AttrsIn(plan, plan.root))
      /\ \A n : Attrs(n) = AttrsIn(plan, n) /\ Node(n) = NodeIn(plan, n)
  BY PlanIs DEF ExecInv
<1>3. NumRows = num /\ num \in Nat
  BY <1>1, PlanIs, RowsAre DEF ExecInv, NumRows
<1>4. Lists(plan, plan.root, rows, num)
  BY <1>1 DEF Holds
<1>5. /\ \A i \in 1 .. num : rows[i] \in Assignments
      /\ \A i, j \in 1 .. num : rows[i] = rows[j] => i = j
      /\ \A tup \in Assignments : \E i \in 1 .. num : tup = rows[i]
  BY <1>2, <1>4, AssignmentsAre DEF Lists
<1>6. ASSUME NEW j \in Outputs
      PROVE  /\ Len(output[j]) = num
             /\ \A i \in 1 .. num : output[j][i] = BaseValue(Origins[plan.root][j], rows[i])
  <2> DEFINE type == Attrs(plan.root)[j][2]
             o == output[j]
             col == Root[j]
  <2>1. o = [i \in 1 .. num |-> Inserted(type, Get(col, i - 1))]
    BY <1>3 DEF ExecInv, PartsInv, OutputPart, Written
  <2>2. HasValues(plan, plan.root, col, j, rows, num)
    BY <1>1, <1>2 DEF Holds
  <2>3. PICK vals : /\ Reads(col, vals) /\ Len(vals) = num
                    /\ \A i \in 1 .. num :
                          Inserted(AttrsIn(plan, plan.root)[j][2], vals[i])
                             = ValueIn(plan, OriginsIn(plan)[plan.root][j], rows[i])
    BY <2>2 DEF HasValues
  <2>4. \A i \in 1 .. num : Get(col, i - 1) = vals[i]
    BY <2>3 DEF Reads
  <2>5. type = AttrsIn(plan, plan.root)[j][2]
    BY <1>2
  <2> HIDE DEF col, o, type
  <2>6. \A i \in 1 .. num : o[i] = ValueIn(plan, OriginsIn(plan)[plan.root][j], rows[i])
    BY <2>1, <2>3, <2>4, <2>5
  <2>7. o = [i \in 1 .. num |-> o[i]]
    BY <2>1
  <2>8. Len(o) = num
    BY <1>3, <2>7, LengthIs
  <2>9. \A origin, tup : BaseValue(origin, tup) = ValueIn(plan, origin, tup)
    BY <1>2 DEF BaseValue, ValueIn, BaseIn, TableIn
  <2>10. Origins = OriginsIn(plan)
    BY OriginsAre
  <2> QED
    BY <2>6, <2>8, <2>9, <2>10 DEF o
<1> DEFINE A == Assignments
           value(tup) == [j \in Outputs |-> BaseValue(Origins[plan.root][j], tup)]
           written(i) == [j \in Outputs |-> output[j][i]]
           is(v) == {i \in 1 .. num : written(i) = v}
           as(v) == {tup \in A : value(tup) = v}
<1>7. ASSUME NEW i \in 1 .. num PROVE written(i) = value(rows[i])
  BY <1>6
<1>8. OutputIsAnswer <=>
        /\ \A j \in Outputs : Len(output[j]) = num
        /\ Answer = [v \in {written(i) : i \in 1 .. num} |-> Cardinality(is(v))]
  BY <1>3 DEF OutputIsAnswer
<1>9. Answer = [v \in {value(tup) : tup \in A} |-> Cardinality(as(v))]
  BY DEF Answer
<1> HIDE DEF A, value, written
<1>10. {written(i) : i \in 1 .. num} = {value(tup) : tup \in A}
  BY <1>5, <1>7 DEF A
<1>11. ASSUME NEW v PROVE Cardinality(is(v)) = Cardinality(as(v))
  <2> DEFINE S == is(v)
             T == as(v)
             h == [i \in S |-> rows[i]]
  <2>1. \A i \in S : i \in 1 .. num /\ rows[i] \in T
    BY <1>5, <1>7 DEF A
  <2>2. \A tup \in T : \E i \in S : rows[i] = tup
    BY <1>5, <1>7 DEF A
  <2>3. IsFiniteSet(S)
    <3>1. IsFiniteSet(1 .. num)
      BY <1>3, FS_Interval
    <3>2. S \in SUBSET (1 .. num)
      OBVIOUS
    <3> HIDE DEF S
    <3> QED
      BY <3>1, <3>2, FS_Subset
  <2> HIDE DEF S, T
  <2>4. h \in Bijection(S, T)
    BY <1>5, <2>1, <2>2 DEF Bijection, Injection, IsInjective, Surjection
  <2>5. ExistsBijection(S, T)
    BY <2>4 DEF ExistsBijection
  <2>6. Cardinality(T) = Cardinality(S)
    BY <2>3, <2>5, FS_Bijection
  <2> QED
    BY <2>6 DEF S, T
<1> HIDE DEF is, as
<1>12. Answer = [v \in {written(i) : i \in 1 .. num} |-> Cardinality(is(v))]
  BY <1>9, <1>10, <1>11
<1> QED
  BY <1>6, <1>8, <1>12

\* The columns of every result have the rows the first one says (execute_scan's views
\* and copies, execute_hash_join's outputs; JoinAlgorithm and execute read all columns
\* up to the first one's size).
THEOREM QueryColumnsAligned == QuerySpec => []ColumnsAligned
<1>1. QueryInit => ExecInv
  BY ExecStart
<1>2. ExecInv /\ [QueryNext]_queryVars => ExecInv'
  BY ExecStep
<1>3. ExecInv => ColumnsAligned
  <2> SUFFICES ASSUME ExecInv, NEW n \in DOMAIN result, NEW nth \in DOMAIN result[n]
               PROVE  /\ result[n][nth].total_size = result[n][1].total_size
                      /\ result[n][nth].total_size = Len(FlattenSeq(result[n][nth].chunks))
    BY DEF ColumnsAligned
  <2>1. n \in NodeIds /\ Correct(plan, n, result[n])
    BY DEF ExecInv, ResultsInv
  <2>2. PICK rows, num : Holds(plan, n, result[n], rows, num)
    BY <2>1 DEF Correct
  <2>3. Len(AttrsIn(plan, n)) \in Nat \ {0}
    BY <2>1, PlanIs DEF ExecInv, AttrsFit
  <2>4. nth \in 1 .. Len(AttrsIn(plan, n)) /\ 1 \in 1 .. Len(AttrsIn(plan, n))
    BY <2>2, <2>3 DEF Holds
  <2>5. HasValues(plan, n, result[n][nth], nth, rows, num) /\ HasValues(plan, n, result[n][1], 1, rows, num)
    BY <2>2, <2>4 DEF Holds
  <2>6. PICK vals : Reads(result[n][nth], vals) /\ Len(vals) = num
    BY <2>5 DEF HasValues
  <2>7. PICK first : Reads(result[n][1], first) /\ Len(first) = num
    BY <2>5 DEF HasValues
  <2> QED
    BY <2>6, <2>7 DEF Reads
<1> QED
  BY <1>1, <1>2, <1>3, PTL DEF QuerySpec

\* The output of every plan of scans and joins is its answer, whichever columns are read
\* in place, whichever side a join builds and in whatever order its matches come
\* (execute of src/src/execute.cpp; ASSIGNMENT.md: it returns the joined rows).
THEOREM QueryAnswerDelivered == QuerySpec => []AnswerDelivered
<1>1. QueryInit => ExecInv
  BY ExecStart
<1>2. ExecInv /\ [QueryNext]_queryVars => ExecInv'
  BY ExecStep
<1>3. ExecInv => AnswerDelivered
  BY AnswerIs DEF ExecInv, PartsInv, AnswerDelivered
<1> QED
  BY <1>1, <1>2, <1>3, PTL DEF QuerySpec
-----------------------------------------------------------------------------
(* The memory while it is read. *)

\* Reading ends before the first table is destroyed.
LEMMA ReadBeforeDestroyed ==
    ASSUME MemoryInv, ExecInv, Reading
    PROVE  phase \in {"execute", "output"}
<1>1. phase \in {"load", "execute", "output", "destroy"} /\ phase # "load"
  BY DEF MemoryInv, PhaseInv, Reading
<1>2. ASSUME phase = "destroy" PROVE FALSE
  <2>1. plan.root \in DOMAIN result /\ \A j \in Outputs : OutputPart(j) /\ filled[j] = NumRows
    BY <1>2 DEF ExecInv, PartsInv
  <2>2. PICK j \in Outputs : Len(output[j]) < NumRows
    BY <2>1 DEF Reading
  <2>3. /\ NumRows \in Nat
        /\ output[j] = [i \in 1 .. NumRows |-> Inserted(Attrs(plan.root)[j][2], Get(Root[j], i - 1))]
    BY <2>1 DEF OutputPart, Written
  <2>4. output[j] = [i \in 1 .. NumRows |-> output[j][i]]
    BY <2>3
  <2>5. Len(output[j]) = NumRows
    BY <2>3, <2>4, LengthIs
  <2> QED
    BY <2>2, <2>3, <2>5
<1> QED
  BY <1>1, <1>2

\* All pages of the inputs are there while they may be read.
LEMMA PagesLive ==
    ASSUME MemoryInv, ExecInv
    PROVE  ReadPagesLive
<1> SUFFICES ASSUME Reading
             PROVE  /\ Loaded
                    /\ \A t \in Names \intersect DOMAIN tables : \A c \in DOMAIN tables[t].columns :
                          LET column == tables[t].columns[c]
                          IN  IF column.mapped_memory = NoMapping THEN column.pages \subseteq heap
                                                                 ELSE column.mapped_memory \in DOMAIN mappings
  BY DEF ReadPagesLive
<1>1. TablesInv /\ HeapInv /\ MappingsInv /\ PhaseInv
  BY DEF MemoryInv
<1>2. Loaded
  BY <1>1, ReadBeforeDestroyed DEF PhaseInv
<1>3. ASSUME NEW t \in Names \intersect DOMAIN tables, NEW c \in DOMAIN tables[t].columns
      PROVE  IF tables[t].columns[c].mapped_memory = NoMapping THEN tables[t].columns[c].pages \subseteq heap
             ELSE tables[t].columns[c].mapped_memory \in DOMAIN mappings
  <2>1. c \in 1 .. Len(tables[t].columns) /\ c \in Nat
    <3>1. tables[t].columns \in Seq(MemoryColumn)
      BY <1>1 DEF TablesInv, Vector
    <3> QED
      BY <3>1, LenProperties
  <2>2. CASE t \in cached
    <3>1. tables[t].columns[c].mapped_memory = t
      <4>1. tables[t].columns[c] = MappedColumn(t, c)
        BY <1>1, <2>1, <2>2 DEF TablesInv
      <4>2. MappedColumn(t, c).mapped_memory = t
        BY DEF MappedColumn
      <4> QED
        BY <4>1, <4>2
    <3>2. t \in DOMAIN mappings
      BY <1>1, <2>2 DEF MappingsInv
    <3>3. t # NoMapping
      BY NamesAre
    <3> QED
      BY <3>1, <3>2, <3>3
  <2>3. CASE t \notin cached
    <3>1. tables[t].columns[c].mapped_memory = NoMapping
      BY <1>1, <2>1, <2>3 DEF TablesInv
    <3>2. PICK o : o = <<t, c>>
      OBVIOUS
    <3>3. o \in Owners /\ Own(o) = tables[t].columns[c].pages
      BY <2>1, <2>3, <3>2 DEF Owners, Own
    <3>4. Own(o) \subseteq heap
      BY <1>1, <3>3 DEF HeapInv
    <3> QED
      BY <3>1, <3>3, <3>4
  <2> QED
    BY <2>2, <2>3
<1> QED
  BY <1>2, <1>3

\* Through loading, growth, execution, output and destruction, no page of a column is
\* freed twice, never, or while the execution or the output may read it, and a mapped
\* column has its own pages (~Column, MappedMemory and the moves of vector<Column>;
\* execute's reserved output columns, its views and string indices).
THEOREM QueryMemorySafe == QuerySpec => []MemorySafe
<1> DEFINE I == MemoryInv /\ ExecInv
<1>1. QueryInit => I
  BY MemoryStart, ExecStart
<1>2. I /\ [QueryNext]_queryVars => I'
  <2>1. ASSUME I, [QueryNext]_queryVars PROVE I'
    <3>1. plan \in Plans
      BY <2>1 DEF ExecInv
    <3>2. MemoryInv'
      BY <2>1, <3>1, MemoryStep
    <3>3. ExecInv'
      BY <2>1, ExecStep
    <3> QED
      BY <3>2, <3>3
  <2> QED
    BY <2>1
<1>3. I => MemorySafe
  BY Owned, DumpedOnes, PagesLive DEF MemorySafe
<1> HIDE DEF I
<1> QED
  BY <1>1, <1>2, <1>3, PTL DEF QuerySpec
=============================================================================
