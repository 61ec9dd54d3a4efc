-------------------------- MODULE SlabCollectProofs --------------------------
(***************************************************************************)
(* Proofs about SlabCollect for every team of threads, every number of     *)
(* build rows and partitions, every assignment of keys, and every size of  *)
(* ranges, buffers and chunks: allocate reserves, and the collection       *)
(* stores every row with a key once.                                       *)
(***************************************************************************)
EXTENDS SlabCollect, FiniteSetTheorems, TLAPS

Storing == {"lock", "space", "store", "unlock"}

\* The rows of its range that t has not read; a flush does not advance the loop
\* index past the row that filled the buffer before it ends.
Unread(t) == (IF pc[t] \in Storing /\ t \notin left THEN row[t] + 1 ELSE row[t]) .. (hi[t] - 1)

\* A row below next is read when no thread has it before it.
Read(r) == r < next /\ \A t \in Thread : r \notin Unread(t)

\* The ranges of the loop lie below next and are disjoint; a thread leaves the
\* loop with its range read, and the barrier when everyone has.
LoopInv ==
    /\ \A t \in Thread :
        /\ row[t] <= hi[t] /\ hi[t] <= next
        /\ pc[t] \in {"claim", "barrier", "rest", "done"} \/ t \in left => row[t] = hi[t]
        /\ pc[t] \in Storing /\ t \notin left => row[t] < hi[t]
        /\ pc[t] \in {"rest", "done"} => t \in left
        /\ t \in left => pc[t] \in {"rest", "done"} \union Storing
        /\ pc[t] = "barrier" => next = BuildRows
        /\ pc[t] = "done" => local[t] = {}
    /\ \A t, u \in Thread : t # u => hi[t] <= row[u] \/ hi[u] <= row[t] \/ row[t] = hi[t] \/ row[u] = hi[u]
    /\ left # {} => next = BuildRows /\ \A t \in Thread : pc[t] = "barrier" \/ t \in left

\* A mutex is held from Lock to Unlock by the thread that stores there.
MutexInv ==
    /\ \A t \in Thread : pc[t] \in Storing => target[t] \in Partition
    /\ \A t \in Thread, p \in Partition :
          holder[p] = t <=> pc[t] \in {"space", "store", "unlock"} /\ target[t] = p

Filled(id, c) == c < chunk[id].offset

\* Cells are filled from the first one on; every chunk that is not the current
\* one is full, and the current one is empty only while its first cell is being
\* stored.
ChunkInv ==
    /\ \A id \in DOMAIN chunk, c \in Cell :
          IF Filled(id, c) THEN chunk[id].cell[c] \in Keyed ELSE chunk[id].cell[c] = None
    /\ \A id \in DOMAIN chunk : id[2] < chunks[id[1]] => chunk[id].offset = Capacity
    /\ \A p \in Partition : chunks[p] <= BuildRows
    /\ \A p \in Partition : chunks[p] > 0 /\ chunk[Current(p)].offset = 0 =>
          \E t \in Thread : pc[t] = "store" /\ target[t] = p

\* A thread between allocate and its store has a row and a cell.
ReservedInv ==
    \A t \in Thread : pc[t] = "store" =>
        /\ cur[t] \in local[t]
        /\ chunks[target[t]] > 0
        /\ at[t] = chunk[Current(target[t])].offset

\* A row is in one place,
PlaceInv ==
    /\ \A t, u \in Thread : t # u => local[t] \intersect local[u] = {}
    /\ \A id \in DOMAIN chunk, c \in Cell, t \in Thread :
          Filled(id, c) => chunk[id].cell[c] \notin local[t]
    /\ \A id, jd \in DOMAIN chunk, c, d \in Cell :
          Filled(id, c) /\ Filled(jd, d) /\ chunk[id].cell[c] = chunk[jd].cell[d]
             => id = jd /\ c = d

\* once it has been read, and only then.
ReadInv ==
    /\ \A t \in Thread : \A r \in local[t] : Read(r)
    /\ \A id \in DOMAIN chunk, c \in Cell : Filled(id, c) => Read(chunk[id].cell[c])
    /\ \A r \in Keyed : Read(r) =>
          \/ \E t \in Thread : r \in local[t]
          \/ \E id \in DOMAIN chunk, c \in Cell : Filled(id, c) /\ chunk[id].cell[c] = r

IInv ==
    /\ TypeOK
    /\ LoopInv
    /\ MutexInv
    /\ ChunkInv
    /\ ReservedInv
    /\ PlaceInv
    /\ ReadInv

-----------------------------------------------------------------------------
(* What the steps that change buffers and chunks do. *)

\* Chunk lists have no gaps, so the current chunk of a list exists.
LEMMA CurrentExists ==
    ASSUME TypeOK, ChunkInv, NEW p \in Partition, chunks[p] > 0
    PROVE  /\ Current(p) \in DOMAIN chunk
           /\ Current(p)[1] = p /\ Current(p)[2] = chunks[p]
<1>1. chunks[p] \in 1 .. BuildRows
  BY ConstantsAssumption DEF TypeOK, ChunkInv
<1> QED
  BY <1>1 DEF TypeOK, Current

\* A chunk is named by its partition and its place in the list; what its record holds.
LEMMA ChunkShape ==
    ASSUME TypeOK, NEW id \in DOMAIN chunk
    PROVE  /\ id \in Partition \X (1 .. BuildRows)
           /\ id[2] <= chunks[id[1]]
           /\ chunk[id] = [offset |-> chunk[id].offset, cell |-> chunk[id].cell]
           /\ chunk[id].offset \in 0 .. Capacity
           /\ chunk[id].cell \in [Cell -> BuildRow \union {None}]
BY DEF TypeOK

\* A row is buffered; the loop index advances unless the buffer is full.
LEMMA BufferStep ==
    ASSUME NEW t, Buffer(t)
    PROVE  /\ pc[t] = "rows" /\ row[t] < hi[t] /\ KeyOf[row[t]] # Null
           /\ local' = [local EXCEPT ![t] = @ \union {row[t]}]
           /\ \/ /\ target' = [target EXCEPT ![t] = PartOf[KeyOf[row[t]]]]
                 /\ pc' = [pc EXCEPT ![t] = "lock"]
                 /\ UNCHANGED row
              \/ /\ row' = [row EXCEPT ![t] = @ + 1]
                 /\ UNCHANGED <<pc, target>>
           /\ UNCHANGED <<next, hi, left, cur, at, holder, chunks, chunk>>
<1> DEFINE full == Cardinality(local[t]) + 1 >= FlushAt
<1>1. /\ pc[t] = "rows" /\ row[t] < hi[t] /\ KeyOf[row[t]] # Null
      /\ local' = [local EXCEPT ![t] = @ \union {row[t]}]
      /\ IF full
         THEN /\ target' = [target EXCEPT ![t] = PartOf[KeyOf[row[t]]]]
              /\ pc' = [pc EXCEPT ![t] = "lock"]
              /\ UNCHANGED row
         ELSE /\ row' = [row EXCEPT ![t] = @ + 1]
              /\ UNCHANGED <<pc, target>>
      /\ UNCHANGED <<next, hi, left, cur, at, holder, chunks, chunk>>
  BY Zenon DEF Buffer, slabVars
<1> HIDE DEF full
<1> QED
  BY <1>1

\* A thread that allocates holds the mutex of the partition, and nobody is
\* between allocate and its store there.
LEMMA AllocatesAlone ==
    ASSUME IInv, NEW t \in Thread, pc[t] \in {"space", "store"}
    PROVE  /\ target[t] \in Partition
           /\ \A u \in Thread : pc[u] \in {"space", "store", "unlock"} /\ target[u] = target[t] => u = t
BY DEF IInv, MutexInv, Storing

\* Every chunk of a list holds a row of its own, so that with a row not stored yet
\* there is one more chunk to come at most.
LEMMA ChunkBound ==
    ASSUME IInv, NEW p \in Partition, NEW t \in Thread, NEW r \in local[t],
           FreeSpace(p) < 1,
           \A u \in Thread : ~(pc[u] = "store" /\ target[u] = p)
    PROVE  chunks[p] + 1 <= BuildRows
<1> DEFINE n == chunks[p]
           f == [c \in 1 .. (n + 1) |-> IF c = n + 1 THEN r ELSE chunk[<<p, c>>].cell[0]]
<1> USE ConstantsAssumption
<1>1. n \in Nat /\ n <= BuildRows /\ 0 \in Cell
  BY DEF IInv, TypeOK, ChunkInv, Cell
<1>2. ASSUME NEW c \in 1 .. n
      PROVE  <<p, c>> \in DOMAIN chunk /\ Filled(<<p, c>>, 0)
  <2>1. <<p, c>> \in DOMAIN chunk
    BY <1>1 DEF IInv, TypeOK
  <2>2. chunk[<<p, c>>].offset \in 0 .. Capacity
    BY <2>1, ChunkShape DEF IInv
  <2>3. CASE c < n
    BY <2>1, <2>2, <2>3 DEF IInv, ChunkInv, Filled
  <2>4. CASE c = n
    BY <2>1, <2>2, <2>4, <1>1 DEF Filled, Current, FreeSpace
  <2> QED
    BY <2>1, <2>3, <2>4, <1>1
<1>3. r \in BuildRow /\ r \in Keyed
  BY DEF IInv, TypeOK, Keyed
<1>4. ASSUME NEW c \in 1 .. n
      PROVE  f[c] \in BuildRow /\ f[c] = chunk[<<p, c>>].cell[0] /\ f[c] \notin local[t]
  BY <1>1, <1>2 DEF IInv, ChunkInv, PlaceInv, Keyed
<1>5. n + 1 \in 1 .. (n + 1) /\ f[n + 1] = r /\ 1 .. n = (1 .. (n + 1)) \ {n + 1}
  BY <1>1
<1>6. ASSUME NEW c \in 1 .. n, NEW d \in 1 .. n, f[c] = f[d]
      PROVE  c = d
  BY <1>1, <1>2, <1>4, <1>6 DEF IInv, PlaceInv
<1>7. f \in [1 .. (n + 1) -> BuildRow]
  BY <1>3, <1>4, <1>5
<1>8. ASSUME NEW c \in 1 .. (n + 1), NEW d \in 1 .. (n + 1), f[c] = f[d]
      PROVE  c = d
  <2>1. CASE c \in 1 .. n /\ d \in 1 .. n
    BY <1>6, <1>8, <2>1
  <2>2. CASE c \in 1 .. n /\ d = n + 1
    BY <1>4, <1>5, <1>8, <2>2
  <2>3. CASE c = n + 1 /\ d \in 1 .. n
    BY <1>4, <1>5, <1>8, <2>3
  <2> QED
    BY <1>5, <2>1, <2>2, <2>3
<1>9. IsFiniteSet(1 .. (n + 1)) /\ Cardinality(1 .. (n + 1)) = n + 1
  <2> HIDE DEF n
  <2>1. 1 \in Int /\ n + 1 \in Int /\ ~(1 > n + 1) /\ (n + 1) - 1 + 1 = n + 1
    BY <1>1
  <2> QED
    BY <2>1, FS_Interval
<1>10. IsFiniteSet(BuildRow) /\ Cardinality(BuildRow) = BuildRows
  <2> DEFINE m == BuildRows - 1
  <2>1. 0 \in Int /\ m \in Int /\ (0 > m => BuildRows = 0) /\ m - 0 + 1 = BuildRows
    BY ConstantsAssumption
  <2>2. BuildRow = 0 .. m
    BY DEF BuildRow
  <2> HIDE DEF m
  <2> QED
    BY <2>1, <2>2, FS_Interval
<1> HIDE DEF f, n
<1>11. ~(Cardinality(BuildRow) < Cardinality(1 .. (n + 1)))
  <2> SUFFICES ASSUME Cardinality(BuildRow) < Cardinality(1 .. (n + 1))
               PROVE  FALSE
    OBVIOUS
  <2> DEFINE S == 1 .. (n + 1)
  <2>1. /\ IsFiniteSet(S) /\ IsFiniteSet(BuildRow) /\ f \in [S -> BuildRow]
        /\ Cardinality(BuildRow) < Cardinality(S)
    BY <1>7, <1>9, <1>10
  <2>2. \A c, d \in S : f[c] = f[d] => c = d
    BY <1>8
  <2> HIDE DEF S
  <2>3. \E c, d \in S : c # d /\ f[c] = f[d]
    BY <2>1, FS_PigeonHole
  <2> QED
    BY <2>2, <2>3
<1> QED
  BY <1>1, <1>9, <1>10, <1>11 DEF n

\* allocate reserves the next cell of the current chunk, or begins a chunk.
LEMMA AllocateStep ==
    ASSUME IInv, NEW t \in Thread, Allocate(t)
    PROVE  LET p == target[t]
               fresh == <<p, chunks[p] + 1>>
           IN  /\ p \in Partition
               /\ \E r \in local[t] : cur' = [cur EXCEPT ![t] = r]
               /\ \/ /\ chunks[p] > 0 => chunk[Current(p)].offset = Capacity
                     /\ fresh \in Partition \X (1 .. BuildRows)
                     /\ fresh \notin DOMAIN chunk
                     /\ chunks' = [chunks EXCEPT ![p] = @ + 1]
                     /\ chunk' = [id \in DOMAIN chunk \union {fresh} |->
                                    IF id = fresh THEN EmptyChunk ELSE chunk[id]]
                     /\ at' = [at EXCEPT ![t] = 0]
                  \/ /\ chunks[p] > 0 /\ chunk[Current(p)].offset < Capacity
                     /\ at' = [at EXCEPT ![t] = chunk[Current(p)].offset]
                     /\ UNCHANGED <<chunks, chunk>>
<1> DEFINE p == target[t]
           fresh == <<p, chunks[p] + 1>>
<1> USE ConstantsAssumption
<1>1. pc[t] = "space"
  BY DEF Allocate
<1>2. /\ p \in Partition
      /\ \A u \in Thread : ~(pc[u] = "store" /\ target[u] = p)
  BY <1>1, AllocatesAlone
<1>3. PICK r \in local[t] : cur' = [cur EXCEPT ![t] = r]
  BY DEF Allocate, Storable
<1>4. chunks[p] \in Nat
  BY <1>2 DEF IInv, TypeOK
<1>5. chunks[p] > 0 => chunk[Current(p)].offset \in 0 .. Capacity
  BY <1>2, CurrentExists, ChunkShape DEF IInv
<1>6. CASE FreeSpace(p) < 1
  <2>1. chunks[p] + 1 <= BuildRows
    BY <1>2, <1>3, <1>6, ChunkBound
  <2>2. fresh \in Partition \X (1 .. BuildRows)
    BY <1>2, <1>4, <2>1
  <2>3. fresh \notin DOMAIN chunk
    BY <1>4, <1>2 DEF IInv, TypeOK
  <2>4. chunks[p] > 0 => chunk[Current(p)].offset = Capacity
    BY <1>4, <1>5, <1>6 DEF FreeSpace
  <2>5. /\ chunks' = [chunks EXCEPT ![p] = @ + 1]
        /\ chunk' = [id \in DOMAIN chunk \union {fresh} |->
                       IF id = fresh THEN EmptyChunk ELSE chunk[id]]
        /\ at' = [at EXCEPT ![t] = 0]
    BY <1>6 DEF Allocate
  <2> QED
    BY <1>2, <1>3, <2>2, <2>3, <2>4, <2>5
<1>7. CASE ~(FreeSpace(p) < 1)
  <2>1. chunks[p] > 0 /\ chunk[Current(p)].offset < Capacity
    BY <1>4, <1>5, <1>7 DEF FreeSpace
  <2>2. /\ at' = [at EXCEPT ![t] = chunk[Current(p)].offset]
        /\ UNCHANGED <<chunks, chunk>>
    BY <1>7 DEF Allocate, slabVars
  <2> QED
    BY <1>2, <1>3, <2>1, <2>2
<1> QED
  BY <1>6, <1>7

\* The reserved cell is written and counted; no other cell changes.
LEMMA StoreStep ==
    ASSUME IInv, NEW t \in Thread, Store(t)
    PROVE  LET id == Current(target[t])
               c == at[t]
           IN  /\ target[t] \in Partition /\ id \in DOMAIN chunk /\ c \in Cell
               /\ c = chunk[id].offset /\ cur[t] \in local[t]
               /\ chunk' = [chunk EXCEPT ![id] =
                              [offset |-> c + 1, cell |-> [chunk[id].cell EXCEPT ![c] = cur[t]]]]
               /\ local' = [local EXCEPT ![t] = @ \ {cur[t]}]
               /\ \/ pc' = [pc EXCEPT ![t] = "unlock"]
                  \/ pc' = [pc EXCEPT ![t] = "space"] /\ t \notin left
               /\ UNCHANGED <<next, row, hi, left, target, at, holder, chunks>>
<1> DEFINE id == Current(target[t])
<1>1. pc[t] = "store"
  BY DEF Store
<1>2. target[t] \in Partition /\ chunks[target[t]] > 0
  BY <1>1 DEF IInv, MutexInv, ReservedInv, Storing
<1>3. id \in DOMAIN chunk
  BY <1>2, CurrentExists DEF IInv
<1>4. at[t] \in Cell /\ at[t] = chunk[id].offset /\ cur[t] \in local[t]
  BY <1>1 DEF IInv, TypeOK, ReservedInv
<1> HIDE DEF id
<1>7. chunk' = [chunk EXCEPT ![id] =
                  [offset |-> at[t] + 1, cell |-> [chunk[id].cell EXCEPT ![at[t]] = cur[t]]]]
  BY <1>4 DEF Store, id
<1>8. /\ local' = [local EXCEPT ![t] = @ \ {cur[t]}]
      /\ \/ pc' = [pc EXCEPT ![t] = "unlock"]
         \/ pc' = [pc EXCEPT ![t] = "space"] /\ t \notin left
      /\ UNCHANGED <<next, row, hi, left, target, at, holder, chunks>>
  BY DEF Store, loopVars
<1> QED
  BY <1>2, <1>3, <1>4, <1>7, <1>8 DEF id

\* A row that was read, or was not, stays so when no loop goes on.
LEMMA SameRead ==
    ASSUME UNCHANGED next, \A u \in Thread : Unread(u)' = Unread(u)
    PROVE  \A r : Read(r)' <=> Read(r)
BY DEF Read

-----------------------------------------------------------------------------
(* Every step preserves the invariant. *)

\* Counters, buffers and the shape of the chunk lists.
LEMMA TypePreserved ==
    ASSUME IInv, NEW t \in Thread, ThreadStep(t)
    PROVE  TypeOK'
<1> USE ConstantsAssumption DEF IInv, TypeOK, BuildRow, Keyed, Cell, loopVars, storeVars, slabVars
<1>1. CASE Claim(t)
  <2> HIDE DEF IInv, TypeOK
  <2>1. PICK end \in (next + 1) .. BuildRows :
           row' = [row EXCEPT ![t] = next] /\ hi' = [hi EXCEPT ![t] = end] /\ next' = end
    BY <1>1 DEF Claim
  <2>2. /\ pc' = [pc EXCEPT ![t] = "rows"]
        /\ UNCHANGED <<left, local, target, cur, at, holder, chunks, chunk>>
    BY <1>1 DEF Claim
  <2>3. TypeOK
    BY DEF IInv
  <2>4. end \in 0 .. BuildRows
    BY <2>3 DEF TypeOK
  <2> QED
    BY <2>1, <2>2, <2>3, <2>4 DEF TypeOK
<1>2. CASE SkipNull(t)
  <2> HIDE DEF IInv, TypeOK
  <2>1. /\ row[t] < hi[t] /\ row' = [row EXCEPT ![t] = @ + 1]
        /\ UNCHANGED <<pc, next, hi, left, local, target, cur, at, holder, chunks, chunk>>
    BY <1>2 DEF SkipNull
  <2>2. TypeOK
    BY DEF IInv
  <2>3. row[t] + 1 \in 0 .. BuildRows
    BY <2>1, <2>2 DEF TypeOK
  <2> QED
    BY <2>1, <2>2, <2>3 DEF TypeOK
<1>3. CASE Buffer(t)
  <2>1. row[t] \in BuildRow /\ row[t] \in Keyed /\ KeyOf[row[t]] \in Key /\ row[t] + 1 \in 0 .. BuildRows
    BY <1>3, BufferStep
  <2>2. /\ local' = [local EXCEPT ![t] = @ \union {row[t]}]
        /\ UNCHANGED <<next, hi, left, cur, at, holder, chunks, chunk>>
        /\ row' = row \/ row' = [row EXCEPT ![t] = @ + 1]
        /\ pc' = pc \/ pc' = [pc EXCEPT ![t] = "lock"]
        /\ target' = target \/ target' = [target EXCEPT ![t] = PartOf[KeyOf[row[t]]]]
    BY <1>3, BufferStep
  <2>0. TypeOK /\ PartOf[KeyOf[row[t]]] \in Partition
    BY <2>1
  <2> HIDE DEF IInv
  <2>3. local' \in [Thread -> SUBSET Keyed]
    BY <2>1, <2>2, <2>0
  <2>6. row' \in [Thread -> 0 .. BuildRows]
    BY <2>1, <2>2, <2>0
  <2>4. target' \in [Thread -> Partition \union {None}]
    BY <2>2, <2>0
  <2>5. pc' \in [Thread -> {"claim", "rows", "barrier", "rest", "lock", "space", "store",
                          "unlock", "done"}]
    BY <2>2, <2>0
  <2> QED
    BY <2>2, <2>3, <2>4, <2>5, <2>6, <2>0
<1>4. CASE EndRange(t)
  BY <1>4 DEF EndRange
<1>5. CASE EndLoop(t)
  BY <1>5 DEF EndLoop
<1>6. CASE LeaveBarrier(t)
  BY <1>6 DEF LeaveBarrier
<1>7. CASE RestNext(t)
  BY <1>7 DEF RestNext
<1>8. CASE RestDone(t)
  BY <1>8 DEF RestDone
<1>9. CASE Lock(t)
  BY <1>9 DEF Lock
<1>10. CASE Allocate(t)
  <2> DEFINE p == target[t]
             fresh == <<p, chunks[p] + 1>>
             Ids == {id \in Partition \X (1 .. BuildRows) : id[2] <= chunks[id[1]]}
  <2>1. /\ UNCHANGED <<next, row, hi, left, local, target, holder>>
        /\ pc' = [pc EXCEPT ![t] = "store"]
    BY <1>10 DEF Allocate
  <2>2. cur' \in [Thread -> BuildRow \union {None}] /\ p \in Partition
    <3>1. PICK r \in local[t] : cur' = [cur EXCEPT ![t] = r]
      BY <1>10, AllocateStep
    <3>2. p \in Partition
      BY <1>10, AllocateStep
    <3> QED
      BY <3>1, <3>2
  <2>3. EmptyChunk \in [offset : 0 .. Capacity, cell : [Cell -> BuildRow \union {None}]]
    BY DEF EmptyChunk
  <2>4. /\ at' \in [Thread -> Cell] /\ chunks' \in [Partition -> Nat]
        /\ chunk' \in [Ids' -> [offset : 0 .. Capacity, cell : [Cell -> BuildRow \union {None}]]]
    <3>1. CASE /\ fresh \in Partition \X (1 .. BuildRows) /\ fresh \notin DOMAIN chunk
               /\ chunks' = [chunks EXCEPT ![p] = @ + 1]
               /\ chunk' = [id \in DOMAIN chunk \union {fresh} |->
                              IF id = fresh THEN EmptyChunk ELSE chunk[id]]
               /\ at' = [at EXCEPT ![t] = 0]
      <4>1. Ids' = DOMAIN chunk \union {fresh}
        <5>1. ASSUME NEW id \in Partition \X (1 .. BuildRows)
              PROVE  id[2] <= chunks'[id[1]] <=> id[2] <= chunks[id[1]] \/ id = fresh
          BY <2>2, <3>1
        <5> QED
          BY <3>1, <5>1
      <4>2. at' \in [Thread -> Cell] /\ chunks' \in [Partition -> Nat]
        BY <3>1, <2>2
      <4> QED
        BY <3>1, <4>1, <4>2, <2>3
    <3>2. CASE /\ chunks[p] > 0 /\ chunk[Current(p)].offset < Capacity
               /\ at' = [at EXCEPT ![t] = chunk[Current(p)].offset]
               /\ UNCHANGED <<chunks, chunk>>
      <4>1. chunk[Current(p)].offset \in Cell
        <5> HIDE DEF TypeOK, IInv
        <5>1. chunk[Current(p)].offset \in 0 .. Capacity
          BY <3>2, <2>2, CurrentExists, ChunkShape DEF IInv
        <5> QED
          BY <3>2, <5>1
      <4>2. at' \in [Thread -> Cell]
        BY <3>2, <4>1
      <4> QED
        BY <3>2, <4>2
    <3> QED
      BY <1>10, <3>1, <3>2, AllocateStep
  <2> QED
    BY <2>1, <2>2, <2>4
<1>11. CASE Store(t)
  <2> DEFINE id == Current(target[t])
             c == at[t]
             Chunk == [offset : 0 .. Capacity, cell : [Cell -> BuildRow \union {None}]]
  <2>1. /\ id \in DOMAIN chunk /\ c \in Cell /\ cur[t] \in local[t]
        /\ chunk' = [chunk EXCEPT ![id] =
                       [offset |-> c + 1, cell |-> [chunk[id].cell EXCEPT ![c] = cur[t]]]]
        /\ local' = [local EXCEPT ![t] = @ \ {cur[t]}]
        /\ pc' = [pc EXCEPT ![t] = "unlock"] \/ pc' = [pc EXCEPT ![t] = "space"]
        /\ UNCHANGED <<next, row, hi, left, target, at, holder, chunks>>
    BY <1>11, StoreStep
  <2> HIDE DEF id, c
  <2>2. chunk[id].cell \in [Cell -> BuildRow \union {None}] /\ cur[t] \in BuildRow
    BY <2>1, ChunkShape
  <2>3. [chunk[id].cell EXCEPT ![c] = cur[t]] \in [Cell -> BuildRow \union {None}]
    BY <2>1, <2>2
  <2>4. [offset |-> c + 1, cell |-> [chunk[id].cell EXCEPT ![c] = cur[t]]] \in Chunk
    BY <2>1, <2>3
  <2>5. chunk \in [DOMAIN chunk -> Chunk]
    OBVIOUS
  <2> HIDE DEF Chunk
  <2>6. chunk' \in [DOMAIN chunk -> Chunk]
    BY <2>1, <2>4, <2>5
  <2>0. TypeOK
    OBVIOUS
  <2> HIDE DEF IInv
  <2>7. local' \in [Thread -> SUBSET Keyed]
    BY <2>1, <2>0
  <2>8. cur' \in [Thread -> BuildRow \union {None}]
    BY <1>11, <2>0 DEF Store
  <2>9. pc' \in [Thread -> {"claim", "rows", "barrier", "rest", "lock", "space", "store",
                          "unlock", "done"}]
    BY <2>1, <2>0
  <2> QED
    BY <2>1, <2>6, <2>7, <2>8, <2>9, <2>0 DEF Chunk
<1>12. CASE Unlock(t)
  <2>1. t \notin left => row[t] + 1 \in 0 .. BuildRows
    BY <1>12 DEF Unlock, LoopInv, Storing
  <2>2. holder' \in [Partition -> Thread \union {None}]
    BY <1>12 DEF Unlock
  <2>0. TypeOK
    OBVIOUS
  <2> HIDE DEF IInv, TypeOK
  <2>3. /\ UNCHANGED <<next, hi, left, local, target, cur, at, chunks, chunk>>
        /\ \/ row' = row /\ pc' = [pc EXCEPT ![t] = "rest"]
           \/ row' = [row EXCEPT ![t] = @ + 1] /\ t \notin left /\ pc' = [pc EXCEPT ![t] = "rows"]
    BY <1>12 DEF Unlock
  <2> USE DEF TypeOK
  <2>4. row' \in [Thread -> 0 .. BuildRows]
    <3>1. row \in [Thread -> 0 .. BuildRows]
      BY <2>0
    <3> HIDE DEF TypeOK
    <3> QED
      BY <2>1, <2>3, <3>1
  <2>5. pc' \in [Thread -> {"claim", "rows", "barrier", "rest", "lock", "space", "store",
                          "unlock", "done"}]
    BY <2>3, <2>0
  <2> QED
    BY <2>2, <2>3, <2>4, <2>5, <2>0
<1> QED
  BY <1>1, <1>2, <1>3, <1>4, <1>5, <1>6, <1>7, <1>8, <1>9, <1>10, <1>11, <1>12 DEF ThreadStep

\* The ranges of the loop.
LEMMA LoopPreserved ==
    ASSUME IInv, NEW t \in Thread, ThreadStep(t)
    PROVE  LoopInv'
<1> USE ConstantsAssumption DEF IInv, TypeOK, BuildRow, Keyed, LoopInv, Storing, loopVars, storeVars, slabVars
<1>1. CASE Claim(t)
  BY <1>1 DEF Claim
<1>2. CASE SkipNull(t)
  BY <1>2 DEF SkipNull
<1>3. CASE Buffer(t)
  <2>1. row[t] \in Keyed /\ pc[t] = "rows" /\ row[t] < hi[t] /\ t \notin left
    BY <1>3, BufferStep
  <2>2. /\ local' = [local EXCEPT ![t] = @ \union {row[t]}]
        /\ \/ UNCHANGED row /\ pc' = [pc EXCEPT ![t] = "lock"]
           \/ UNCHANGED pc /\ row' = [row EXCEPT ![t] = @ + 1]
        /\ UNCHANGED <<next, hi, left>>
    BY <1>3, BufferStep
  <2>3. TypeOK /\ LoopInv
    OBVIOUS
  <2> HIDE DEF IInv
  <2>4. CASE UNCHANGED row /\ pc' = [pc EXCEPT ![t] = "lock"]
    BY <2>1, <2>2, <2>3, <2>4
  <2>5. CASE UNCHANGED pc /\ row' = [row EXCEPT ![t] = @ + 1]
    BY <2>1, <2>2, <2>3, <2>5
  <2> QED
    BY <2>2, <2>4, <2>5
<1>4. CASE EndRange(t)
  BY <1>4 DEF EndRange
<1>5. CASE EndLoop(t)
  BY <1>5 DEF EndLoop
<1>6. CASE LeaveBarrier(t)
  BY <1>6 DEF LeaveBarrier
<1>7. CASE RestNext(t)
  BY <1>7 DEF RestNext
<1>8. CASE RestDone(t)
  BY <1>8 DEF RestDone
<1>9. CASE Lock(t)
  BY <1>9 DEF Lock
<1>10. CASE Allocate(t)
  BY <1>10 DEF Allocate
<1>11. CASE Store(t)
  BY <1>11 DEF Store
<1>12. CASE Unlock(t)
  <2>1. TypeOK /\ LoopInv
    OBVIOUS
  <2> HIDE DEF IInv
  <2>2. CASE t \in left
    BY <1>12, <2>1, <2>2 DEF Unlock
  <2>3. CASE t \notin left
    <3>1. /\ pc[t] = "unlock" /\ pc' = [pc EXCEPT ![t] = "rows"]
          /\ row' = [row EXCEPT ![t] = @ + 1] /\ UNCHANGED <<next, hi, left, local>>
      BY <1>12, <2>3 DEF Unlock
    <3>2. row[t] < hi[t]
      BY <2>1, <2>3, <3>1
    <3>3. ASSUME NEW u \in Thread
          PROVE  (u # t => pc'[u] = pc[u] /\ row'[u] = row[u]) /\ pc'[t] = "rows" /\ row'[t] = row[t] + 1
      BY <2>1, <3>1
    <3> QED
      BY <2>1, <2>3, <3>1, <3>2, <3>3
  <2> QED
    BY <2>2, <2>3
<1> QED
  BY <1>1, <1>2, <1>3, <1>4, <1>5, <1>6, <1>7, <1>8, <1>9, <1>10, <1>11, <1>12 DEF ThreadStep

\* The mutexes.
LEMMA MutexPreserved ==
    ASSUME IInv, NEW t \in Thread, ThreadStep(t)
    PROVE  MutexInv'
<1> USE ConstantsAssumption DEF IInv, TypeOK, Keyed, BuildRow, MutexInv, Storing, loopVars, storeVars, slabVars
<1>1. CASE Claim(t)
  BY <1>1 DEF Claim
<1>2. CASE SkipNull(t)
  BY <1>2 DEF SkipNull
<1>3. CASE Buffer(t)
  <2>1. PartOf[KeyOf[row[t]]] \in Partition /\ pc[t] = "rows"
    BY <1>3, BufferStep
  <2>2. /\ \/ UNCHANGED <<pc, target>>
           \/ pc' = [pc EXCEPT ![t] = "lock"] /\ target' = [target EXCEPT ![t] = PartOf[KeyOf[row[t]]]]
        /\ UNCHANGED holder
    BY <1>3, BufferStep
  <2>3. TypeOK /\ MutexInv
    OBVIOUS
  <2> HIDE DEF IInv
  <2>4. CASE UNCHANGED <<pc, target>>
    BY <2>2, <2>3, <2>4
  <2>5. CASE pc' = [pc EXCEPT ![t] = "lock"] /\ target' = [target EXCEPT ![t] = PartOf[KeyOf[row[t]]]]
    <3>1. ASSUME NEW u \in Thread
          PROVE  /\ u # t => pc'[u] = pc[u] /\ target'[u] = target[u]
                 /\ pc'[t] = "lock" /\ target'[t] \in Partition
      BY <2>1, <2>3, <2>5
    <3>2. ASSUME NEW u \in Thread
          PROVE  /\ pc'[u] \in Storing => target'[u] \in Partition
                 /\ u # t => pc'[u] = pc[u] /\ target'[u] = target[u]
                 /\ pc'[t] = "lock" /\ \A p \in Partition : holder[p] # t
      BY <2>1, <2>3, <3>1
    <3>3. ASSUME NEW u \in Thread, NEW p \in Partition
          PROVE  holder'[p] = u <=> pc'[u] \in {"space", "store", "unlock"} /\ target'[u] = p
      BY <2>2, <2>3, <3>2
    <3> QED
      BY <3>2, <3>3
  <2> QED
    BY <2>2, <2>4, <2>5
<1>4. CASE EndRange(t)
  BY <1>4 DEF EndRange
<1>5. CASE EndLoop(t)
  BY <1>5 DEF EndLoop
<1>6. CASE LeaveBarrier(t)
  BY <1>6 DEF LeaveBarrier
<1>7. CASE RestNext(t)
  BY <1>7 DEF RestNext
<1>8. CASE RestDone(t)
  BY <1>8 DEF RestDone
<1>9. CASE Lock(t)
  BY <1>9 DEF Lock
<1>10. CASE Allocate(t)
  BY <1>10 DEF Allocate
<1>11. CASE Store(t)
  BY <1>11 DEF Store
<1>12. CASE Unlock(t)
  BY <1>12 DEF Unlock
<1> QED
  BY <1>1, <1>2, <1>3, <1>4, <1>5, <1>6, <1>7, <1>8, <1>9, <1>10, <1>11, <1>12 DEF ThreadStep

\* The chunks.
LEMMA ChunkPreserved ==
    ASSUME IInv, NEW t \in Thread, ThreadStep(t)
    PROVE  ChunkInv'
<1> USE ConstantsAssumption DEF IInv, TypeOK, Keyed, BuildRow, MutexInv, Storing, ChunkInv, ReservedInv, Filled, Cell, Current, FreeSpace, loopVars, storeVars, slabVars
<1>1. CASE Claim(t)
  BY <1>1 DEF Claim
<1>2. CASE SkipNull(t)
  BY <1>2 DEF SkipNull
<1>3. CASE Buffer(t)
  <2> HIDE DEF IInv
  <2>1. TypeOK /\ ChunkInv
    BY DEF IInv
  <2>2. /\ pc[t] = "rows" /\ UNCHANGED <<chunks, chunk>>
        /\ \/ /\ pc' = pc
              /\ target' = target
           \/ /\ pc' = [pc EXCEPT ![t] = "lock"]
              /\ target' = [target EXCEPT ![t] = PartOf[KeyOf[row[t]]]]
    BY <1>3, BufferStep
  <2>3. \A u \in Thread : pc[u] = "store" => pc'[u] = "store" /\ target'[u] = target[u]
    BY <2>1, <2>2
  <2> HIDE DEF TypeOK, Keyed, Cell
  <2> QED
    BY <2>1, <2>2, <2>3
<1>4. CASE EndRange(t)
  BY <1>4 DEF EndRange
<1>5. CASE EndLoop(t)
  BY <1>5 DEF EndLoop
<1>6. CASE LeaveBarrier(t)
  BY <1>6 DEF LeaveBarrier
<1>7. CASE RestNext(t)
  BY <1>7 DEF RestNext
<1>8. CASE RestDone(t)
  BY <1>8 DEF RestDone
<1>9. CASE Lock(t)
  BY <1>9 DEF Lock
<1>10. CASE Allocate(t)
  <2> HIDE DEF IInv
  <2>1. TypeOK /\ ChunkInv
    BY DEF IInv
  <2> DEFINE p == target[t]
             fresh == <<p, chunks[p] + 1>>
  <2>2. /\ p \in Partition /\ pc[t] = "space" /\ pc' = [pc EXCEPT ![t] = "store"]
        /\ UNCHANGED target
    BY <1>10, AllocateStep DEF Allocate
  <2>3. \A u \in Thread : pc[u] = "store" => pc'[u] = "store" /\ target'[u] = target[u]
    BY <2>1, <2>2
  <2>4. pc'[t] = "store" /\ target'[t] = p
    BY <2>1, <2>2
  <2>5. CASE /\ chunks[p] > 0 => chunk[Current(p)].offset = Capacity
             /\ fresh \in Partition \X (1 .. BuildRows) /\ fresh \notin DOMAIN chunk
             /\ chunks' = [chunks EXCEPT ![p] = @ + 1]
             /\ chunk' = [id \in DOMAIN chunk \union {fresh} |->
                            IF id = fresh THEN EmptyChunk ELSE chunk[id]]
    <3>1. /\ DOMAIN chunk' = DOMAIN chunk \union {fresh} /\ chunk'[fresh] = EmptyChunk
          /\ \A id \in DOMAIN chunk : chunk'[id] = chunk[id]
      BY <2>5
    <3>2. /\ chunks'[p] = chunks[p] + 1 /\ chunks'[p] <= BuildRows
          /\ \A q \in Partition : q # p => chunks'[q] = chunks[q]
      BY <2>1, <2>2, <2>5
    <3>3. ASSUME NEW id \in DOMAIN chunk', NEW c \in Cell
          PROVE  IF Filled(id, c)' THEN chunk'[id].cell[c] \in Keyed ELSE chunk'[id].cell[c] = None
      <4>1. CASE id = fresh
        BY <3>1, <4>1 DEF EmptyChunk
      <4>2. CASE id # fresh
        <5>1. id \in DOMAIN chunk /\ chunk'[id] = chunk[id]
          BY <3>1, <4>2
        <5>2. IF Filled(id, c) THEN chunk[id].cell[c] \in Keyed ELSE chunk[id].cell[c] = None
          BY <2>1, <5>1
        <5> HIDE DEF TypeOK, ChunkInv, Keyed, Current
        <5> QED
          BY <5>1, <5>2
      <4> QED
        BY <4>1, <4>2
    <3>4. ASSUME NEW id \in DOMAIN chunk', id[2] < chunks'[id[1]]
          PROVE  chunk'[id].offset = Capacity
      <4>1. id \in DOMAIN chunk
        BY <2>2, <3>1, <3>2, <3>4, <2>1
      <4>2. id \in Partition \X (1 .. BuildRows) /\ id[2] <= chunks[id[1]]
        BY <2>1, <4>1, ChunkShape
      <4>3. CASE id[2] < chunks[id[1]]
        BY <2>1, <3>1, <4>1, <4>3
      <4>4. CASE id[2] = chunks[id[1]]
        <5>1. id[1] = p
          BY <2>1, <3>2, <3>4, <4>2, <4>4
        <5>2. id = Current(p) /\ chunks[p] > 0
          BY <2>1, <4>2, <4>4, <5>1
        <5> QED
          BY <2>5, <3>1, <4>1, <5>2
      <4> QED
        BY <2>1, <4>2, <4>3, <4>4
    <3>5. ASSUME NEW q \in Partition, chunks'[q] > 0, chunk'[Current(q)'].offset = 0
          PROVE  \E u \in Thread : pc'[u] = "store" /\ target'[u] = q
      <4>1. CASE q = p
        BY <2>4, <4>1
      <4>2. CASE q # p
        <5>1. chunks[q] > 0 /\ Current(q)' = Current(q)
          BY <3>2, <3>5, <4>2
        <5>2. Current(q) \in DOMAIN chunk
          BY <2>1, <5>1, CurrentExists
        <5> HIDE DEF Current, TypeOK, Keyed
        <5>3. chunk[Current(q)].offset = 0
          BY <3>1, <3>5, <5>1, <5>2
        <5>4. \E u \in Thread : pc[u] = "store" /\ target[u] = q
          BY <2>1, <5>1, <5>3
        <5> QED
          BY <2>3, <5>4
      <4> QED
        BY <4>1, <4>2
    <3>6. \A q \in Partition : chunks'[q] <= BuildRows
      BY <2>1, <3>2
    <3> HIDE DEF TypeOK, Filled, Current, Keyed, Cell
    <3> QED
      BY <3>3, <3>4, <3>5, <3>6
  <2>6. CASE UNCHANGED <<chunks, chunk>>
    <3> HIDE DEF TypeOK, Keyed, Cell
    <3> QED
      BY <2>1, <2>3, <2>6
  <2> QED
    BY <1>10, <2>5, <2>6, AllocateStep
<1>11. CASE Store(t)
  <2> HIDE DEF IInv
  <2>1. TypeOK /\ ChunkInv
    BY DEF IInv
  <2> DEFINE p == target[t]
             id == Current(p)
             c == at[t]
  <2>2. /\ pc[t] = "store" /\ p \in Partition /\ id \in DOMAIN chunk /\ c \in Cell
        /\ c = chunk[id].offset /\ cur[t] \in local[t]
        /\ chunk' = [chunk EXCEPT ![id] =
                       [offset |-> c + 1, cell |-> [chunk[id].cell EXCEPT ![c] = cur[t]]]]
        /\ \/ pc' = [pc EXCEPT ![t] = "unlock"]
           \/ pc' = [pc EXCEPT ![t] = "space"]
        /\ UNCHANGED <<target, chunks>>
    BY <1>11, StoreStep DEF Store
  <2>3. chunk[id].cell \in [Cell -> BuildRow \union {None}] /\ cur[t] \in Keyed
    BY <2>1, <2>2, ChunkShape
  <2>4. /\ DOMAIN chunk' = DOMAIN chunk
        /\ chunk'[id].offset = c + 1
        /\ chunk'[id].cell[c] = cur[t]
        /\ \A d \in Cell : d # c => chunk'[id].cell[d] = chunk[id].cell[d]
        /\ \A jd \in DOMAIN chunk : jd # id => chunk'[jd] = chunk[jd]
    BY <2>2, <2>3
  <2>5. c \in 0 .. Capacity /\ id[1] = p /\ id[2] = chunks[p]
    BY <2>2
  <2>6. ASSUME NEW jd \in DOMAIN chunk', NEW d \in Cell
        PROVE  IF Filled(jd, d)' THEN chunk'[jd].cell[d] \in Keyed ELSE chunk'[jd].cell[d] = None
    <3> HIDE DEF TypeOK, Keyed, ChunkInv, MutexInv, ReservedInv
    <3> HIDE DEF id, c
    <3>0. IF Filled(jd, d) THEN chunk[jd].cell[d] \in Keyed ELSE chunk[jd].cell[d] = None
      BY <2>1, <2>4 DEF ChunkInv
    <3>1. CASE jd # id
      BY <2>4, <3>0, <3>1
    <3>2. CASE jd = id /\ d = c
      BY <2>3, <2>4, <2>5, <3>2
    <3>3. CASE jd = id /\ d # c
      <4>1. d \in Int /\ c \in Int
        BY <2>5
      <4>2. Filled(jd, d)' <=> Filled(jd, d)
        BY <2>2, <2>4, <3>3, <4>1
      <4>3. chunk'[jd].cell[d] = chunk[jd].cell[d]
        BY <2>4, <3>3
      <4> HIDE DEF Filled
      <4> QED
        BY <3>0, <4>2, <4>3
    <3> QED
      BY <3>1, <3>2, <3>3
  <2>7. ASSUME NEW jd \in DOMAIN chunk', jd[2] < chunks'[jd[1]]
        PROVE  chunk'[jd].offset = Capacity
    <3>1. jd # id
      BY <2>1, <2>2, <2>5, <2>7
    <3> QED
      BY <2>1, <2>2, <2>4, <2>7, <3>1
  <2>8. ASSUME NEW q \in Partition, chunks'[q] > 0, chunk'[Current(q)'].offset = 0
        PROVE  \E u \in Thread : pc'[u] = "store" /\ target'[u] = q
    <3>1. Current(q)' = Current(q) /\ chunks[q] > 0
      BY <2>2, <2>8
    <3>2. Current(q) \in DOMAIN chunk /\ Current(q)[1] = q
      BY <2>1, <3>1, CurrentExists
    <3>3. q # p
      BY <2>4, <2>5, <2>8, <3>1
    <3>4. Current(q) # id
      BY <2>5, <3>2, <3>3
    <3>5. chunk[Current(q)].offset = 0
      BY <2>4, <2>8, <3>1, <3>2, <3>4
    <3>6. PICK u \in Thread : pc[u] = "store" /\ target[u] = q
      BY <2>1, <3>1, <3>5
    <3>7. u # t
      BY <3>3, <3>6
    <3> QED
      BY <2>1, <2>2, <3>6, <3>7
  <2>9. \A q \in Partition : chunks'[q] <= BuildRows
    BY <2>1, <2>2
  <2> HIDE DEF TypeOK, Filled, Current, Keyed, Cell
  <2> QED
    BY <2>6, <2>7, <2>8, <2>9
<1>12. CASE Unlock(t)
  BY <1>12 DEF Unlock
<1> QED
  BY <1>1, <1>2, <1>3, <1>4, <1>5, <1>6, <1>7, <1>8, <1>9, <1>10, <1>11, <1>12 DEF ThreadStep

\* The cell that is reserved.
LEMMA ReservedPreserved ==
    ASSUME IInv, NEW t \in Thread, ThreadStep(t)
    PROVE  ReservedInv'
<1> USE ConstantsAssumption DEF IInv, TypeOK, Keyed, BuildRow, MutexInv, Storing, ReservedInv, Current, FreeSpace, loopVars, storeVars, slabVars
<1>1. CASE Claim(t)
  BY <1>1 DEF Claim
<1>2. CASE SkipNull(t)
  BY <1>2 DEF SkipNull
<1>3. CASE Buffer(t)
  BY <1>3 DEF Buffer
<1>4. CASE EndRange(t)
  BY <1>4 DEF EndRange
<1>5. CASE EndLoop(t)
  BY <1>5 DEF EndLoop
<1>6. CASE LeaveBarrier(t)
  BY <1>6 DEF LeaveBarrier
<1>7. CASE RestNext(t)
  BY <1>7 DEF RestNext
<1>8. CASE RestDone(t)
  BY <1>8 DEF RestDone
<1>9. CASE Lock(t)
  <2> HIDE DEF IInv
  <2>1. TypeOK /\ ReservedInv
    BY DEF IInv
  <2>2. /\ UNCHANGED <<local, cur, at, chunks, chunk>>
        /\ \A u \in Thread : pc'[u] = "store" => pc[u] = "store" /\ target'[u] = target[u]
    BY <1>9, <2>1 DEF Lock
  <2> HIDE DEF TypeOK, Keyed, FreeSpace
  <2> QED
    BY <2>1, <2>2
<1>10. CASE Allocate(t)
  <2> HIDE DEF IInv
  <2>1. TypeOK /\ ReservedInv /\ ChunkInv
    BY DEF IInv
  <2> DEFINE p == target[t]
             fresh == <<p, chunks[p] + 1>>
  <2>2. /\ p \in Partition /\ pc[t] = "space" /\ pc' = [pc EXCEPT ![t] = "store"]
        /\ UNCHANGED <<target, local>>
    BY <1>10, AllocateStep DEF Allocate
  <2>3. PICK r \in local[t] : cur' = [cur EXCEPT ![t] = r]
    BY <1>10, AllocateStep
  <2>4. ASSUME NEW u \in Thread, u # t, pc'[u] = "store"
        PROVE  /\ pc[u] = "store" /\ cur'[u] = cur[u]
               /\ target[u] \in Partition /\ target[u] # p /\ chunks[target[u]] > 0
               /\ Current(target[u]) \in DOMAIN chunk /\ Current(target[u])[1] # p
               /\ cur[u] \in local[u] /\ at[u] = chunk[Current(target[u])].offset
    <3>1. pc[u] = "store" /\ cur'[u] = cur[u]
      BY <2>1, <2>2, <2>3, <2>4
    <3>2. target[u] \in Partition /\ target[u] # p
      BY <2>2, <2>4, <3>1, AllocatesAlone
    <3>3. chunks[target[u]] > 0
      BY <2>1, <3>1
    <3> HIDE DEF TypeOK
    <3> QED
      BY <2>1, <3>1, <3>2, <3>3, CurrentExists DEF ReservedInv
  <2>5. cur'[t] = r
    BY <2>1, <2>3
  <2>6. CASE /\ fresh \notin DOMAIN chunk
             /\ chunks' = [chunks EXCEPT ![p] = @ + 1]
             /\ chunk' = [id \in DOMAIN chunk \union {fresh} |->
                            IF id = fresh THEN EmptyChunk ELSE chunk[id]]
             /\ at' = [at EXCEPT ![t] = 0]
    <3>1. /\ chunks'[p] = chunks[p] + 1 /\ chunks[p] \in Nat /\ at'[t] = 0
          /\ Current(p)' = fresh
      BY <2>1, <2>2, <2>6
    <3>2. chunk'[fresh].offset = 0
      BY <2>6 DEF EmptyChunk
    <3>3. ASSUME NEW u \in Thread, u # t, pc'[u] = "store"
          PROVE  /\ cur'[u] \in local'[u] /\ chunks'[target'[u]] > 0
                 /\ at'[u] = chunk'[Current(target[u])'].offset
      <4>1. chunks'[target[u]] = chunks[target[u]] /\ at'[u] = at[u]
        BY <2>1, <2>4, <2>6, <3>3
      <4>2. Current(target[u])' = Current(target[u])
        BY <2>2, <4>1
      <4>3. chunk'[Current(target[u])] = chunk[Current(target[u])]
        BY <2>4, <2>6, <3>3
      <4> HIDE DEF TypeOK, ReservedInv, Current
      <4> QED
        BY <2>2, <2>4, <3>3, <4>1, <4>2, <4>3
    <3> HIDE DEF TypeOK, FreeSpace, Current
    <3> QED
      BY <2>2, <2>3, <2>5, <3>1, <3>2, <3>3
  <2>7. CASE /\ chunks[p] > 0 /\ at' = [at EXCEPT ![t] = chunk[Current(p)].offset]
             /\ UNCHANGED <<chunks, chunk>>
    <3>1. at'[t] = chunk[Current(p)].offset /\ \A u \in Thread : u # t => at'[u] = at[u]
      BY <2>1, <2>7
    <3>2. \A q : Current(q)' = Current(q)
      BY <2>7
    <3> HIDE DEF TypeOK, FreeSpace, Current
    <3> QED
      BY <2>2, <2>3, <2>4, <2>5, <2>7, <3>1, <3>2
  <2> QED
    BY <1>10, <2>6, <2>7, AllocateStep
<1>11. CASE Store(t)
  <2> HIDE DEF IInv
  <2>1. TypeOK /\ ReservedInv /\ ChunkInv
    BY DEF IInv
  <2> DEFINE id == Current(target[t])
  <2>2. /\ pc[t] = "store" /\ id \in DOMAIN chunk
        /\ \A jd \in DOMAIN chunk : jd # id => chunk'[jd] = chunk[jd]
        /\ local' = [local EXCEPT ![t] = @ \ {cur[t]}]
        /\ cur' = [cur EXCEPT ![t] = None]
        /\ \/ pc' = [pc EXCEPT ![t] = "unlock"]
           \/ pc' = [pc EXCEPT ![t] = "space"]
        /\ UNCHANGED <<target, chunks, at>>
    BY <1>11, StoreStep DEF Store
  <2>3. ASSUME NEW u \in Thread, pc'[u] = "store"
        PROVE  u # t /\ pc[u] = "store" /\ cur'[u] = cur[u] /\ local'[u] = local[u]
    BY <2>1, <2>2, <2>3
  <2>4. ASSUME NEW u \in Thread, pc'[u] = "store"
        PROVE  chunk'[Current(target[u])] = chunk[Current(target[u])]
    <3>1. pc[u] = "store" /\ target[u] # target[t] /\ target[u] \in Partition
      BY <2>2, <2>3, <2>4, AllocatesAlone
    <3>2. chunks[target[u]] > 0
      BY <2>1, <3>1
    <3>3. Current(target[u]) \in DOMAIN chunk /\ Current(target[u]) # id
      BY <2>1, <3>1, <3>2, CurrentExists
    <3> QED
      BY <2>2, <3>3
  <2>5. \A q : Current(q)' = Current(q)
    BY <2>2
  <2> HIDE DEF TypeOK, FreeSpace, Current
  <2> QED
    BY <2>1, <2>2, <2>3, <2>4, <2>5
<1>12. CASE Unlock(t)
  <2> HIDE DEF IInv
  <2>1. TypeOK /\ ReservedInv
    BY DEF IInv
  <2>2. /\ UNCHANGED <<local, cur, at, chunks, chunk>>
        /\ \A u \in Thread : pc'[u] = "store" => pc[u] = "store" /\ target'[u] = target[u]
    BY <1>12, <2>1 DEF Unlock
  <2> HIDE DEF TypeOK, Keyed, FreeSpace
  <2> QED
    BY <2>1, <2>2
<1> QED
  BY <1>1, <1>2, <1>3, <1>4, <1>5, <1>6, <1>7, <1>8, <1>9, <1>10, <1>11, <1>12 DEF ThreadStep

\* Only a thread that takes a range or ends with a row changes what is unread.
LEMMA SameUnread ==
    ASSUME IInv, NEW t \in Thread, ThreadStep(t), ~Claim(t), ~SkipNull(t), ~Buffer(t)
    PROVE  UNCHANGED next /\ \A u \in Thread : Unread(u)' = Unread(u)
<1> USE ConstantsAssumption DEF loopVars, storeVars, slabVars
<1>1. TypeOK /\ LoopInv
  BY DEF IInv
<1>2. CASE EndRange(t) \/ EndLoop(t) \/ RestDone(t)
  <2>1. /\ UNCHANGED <<next, row, hi, left>> /\ pc[t] \notin Storing
        /\ \E q \in {"claim", "barrier", "done"} : pc' = [pc EXCEPT ![t] = q]
    BY <1>2 DEF EndRange, EndLoop, RestDone, Storing
  <2>2. \A u \in Thread : pc'[u] \in Storing <=> pc[u] \in Storing
    BY <1>1, <2>1 DEF TypeOK, Storing
  <2> QED
    BY <2>1, <2>2 DEF Unread
<1>3. CASE LeaveBarrier(t)
  <2>1. /\ UNCHANGED <<next, row, hi>> /\ pc[t] = "barrier"
        /\ pc' = [pc EXCEPT ![t] = "rest"] /\ left' = left \union {t}
    BY <1>3 DEF LeaveBarrier
  <2>2. \A u \in Thread : pc'[u] \in Storing /\ u \notin left' <=> pc[u] \in Storing /\ u \notin left
    BY <1>1, <2>1 DEF TypeOK, Storing
  <2> QED
    BY <2>1, <2>2 DEF Unread
<1>4. CASE RestNext(t)
  <2>1. /\ UNCHANGED <<next, row, hi, left>> /\ pc[t] = "rest"
        /\ pc' = [pc EXCEPT ![t] = "lock"]
    BY <1>4 DEF RestNext
  <2>2. t \in left
    BY <1>1, <2>1 DEF LoopInv
  <2>3. \A u \in Thread : pc'[u] \in Storing /\ u \notin left' <=> pc[u] \in Storing /\ u \notin left
    BY <1>1, <2>1, <2>2 DEF TypeOK, Storing
  <2> QED
    BY <2>1, <2>3 DEF Unread
<1>5. CASE Lock(t) \/ Allocate(t) \/ Store(t)
  <2>1. /\ UNCHANGED <<next, row, hi, left>> /\ pc[t] \in Storing
        /\ \E q \in Storing : pc' = [pc EXCEPT ![t] = q]
    <3>1. CASE Lock(t)
      BY <3>1 DEF Lock, Storing
    <3>2. CASE Allocate(t)
      <4>1. UNCHANGED <<next, row, hi, left>> /\ pc[t] = "space" /\ pc' = [pc EXCEPT ![t] = "store"]
        BY <3>2 DEF Allocate
      <4> QED
        BY <4>1 DEF Storing
    <3>3. CASE Store(t)
      <4>1. pc[t] = "store"
        BY <3>3 DEF Store
      <4> QED
        BY <3>3, <4>1, StoreStep DEF Storing
    <3> QED
      BY <1>5, <3>1, <3>2, <3>3
  <2>2. \A u \in Thread : pc'[u] \in Storing <=> pc[u] \in Storing
    BY <1>1, <2>1 DEF TypeOK
  <2> QED
    BY <2>1, <2>2 DEF Unread
<1>6. CASE Unlock(t)
  <2>1. pc[t] = "unlock" /\ pc[t] \in Storing /\ UNCHANGED <<next, hi, left>>
    BY <1>6 DEF Unlock, Storing
  <2>2. CASE t \in left
    <3>1. UNCHANGED row /\ pc' = [pc EXCEPT ![t] = "rest"]
      BY <1>6, <2>2 DEF Unlock
    <3>2. \A u \in Thread : pc'[u] \in Storing /\ u \notin left' <=> pc[u] \in Storing /\ u \notin left
      BY <1>1, <2>1, <2>2, <3>1 DEF TypeOK
    <3> QED
      BY <2>1, <3>1, <3>2 DEF Unread
  <2>3. CASE t \notin left
    <3>1. row' = [row EXCEPT ![t] = @ + 1] /\ pc' = [pc EXCEPT ![t] = "rows"]
      BY <1>6, <2>3 DEF Unlock
    <3>2. /\ pc'[t] \notin Storing /\ row'[t] = row[t] + 1
          /\ \A u \in Thread : u # t => pc'[u] = pc[u] /\ row'[u] = row[u]
      BY <1>1, <3>1 DEF TypeOK, Storing
    <3>3. Unread(t)' = Unread(t)
      BY <2>1, <2>3, <3>2 DEF Unread
    <3>4. \A u \in Thread : u # t => Unread(u)' = Unread(u)
      BY <2>1, <3>2 DEF Unread
    <3> QED
      BY <2>1, <3>3, <3>4
  <2> QED
    BY <2>2, <2>3
<1> QED
  BY <1>2, <1>3, <1>4, <1>5, <1>6 DEF ThreadStep

\* The rows with a key that a step reads: the one it buffers.
LEMMA ReadStep ==
    ASSUME IInv, NEW t \in Thread, ThreadStep(t), NEW r \in Keyed
    PROVE  Read(r)' <=> Read(r) \/ (Buffer(t) /\ r = row[t])
<1> USE ConstantsAssumption DEF loopVars, storeVars, slabVars
<1>1. TypeOK /\ LoopInv
  BY DEF IInv
<1>2. r \in 0 .. (BuildRows - 1) /\ BuildRows \in Nat /\ next \in Int
  BY <1>1 DEF Keyed, BuildRow, TypeOK
<1>3. \A u \in Thread : row[u] \in Int /\ hi[u] \in Int
  BY <1>1 DEF TypeOK
<1>4. CASE Claim(t)
  <2>1. PICK end \in (next + 1) .. BuildRows :
           /\ pc[t] = "claim" /\ next' = end /\ UNCHANGED left
           /\ row' = [row EXCEPT ![t] = next] /\ hi' = [hi EXCEPT ![t] = end]
           /\ pc' = [pc EXCEPT ![t] = "rows"]
    BY <1>4 DEF Claim
  <2>2. row[t] = hi[t] /\ pc[t] \notin Storing
    BY <1>1, <2>1 DEF LoopInv, Storing
  <2>3. /\ pc'[t] \notin Storing /\ row'[t] = next /\ hi'[t] = end
        /\ \A u \in Thread : u # t => pc'[u] = pc[u] /\ row'[u] = row[u] /\ hi'[u] = hi[u]
    BY <1>1, <2>1 DEF TypeOK, Storing
  <2>4. r \notin Unread(t) /\ (r \in Unread(t)' <=> next <= r /\ r < end)
    BY <1>2, <1>3, <2>1, <2>2, <2>3 DEF Unread
  <2>5. \A u \in Thread : u # t => Unread(u)' = Unread(u)
    BY <2>1, <2>3 DEF Unread
  <2>6. Read(r)' <=> r < next /\ \A u \in Thread : u # t => r \notin Unread(u)
    BY <1>2, <2>1, <2>4, <2>5 DEF Read
  <2>7. ~Buffer(t)
    BY <2>1 DEF Buffer
  <2> QED
    BY <2>4, <2>6, <2>7 DEF Read
<1>5. CASE SkipNull(t)
  <2>1. /\ pc[t] = "rows" /\ KeyOf[row[t]] = Null /\ row[t] < hi[t]
        /\ UNCHANGED <<pc, next, hi, left>> /\ row' = [row EXCEPT ![t] = @ + 1]
    BY <1>5 DEF SkipNull
  <2>2. r # row[t]
    BY <2>1 DEF Keyed
  <2>3. row'[t] = row[t] + 1 /\ \A u \in Thread : u # t => row'[u] = row[u]
    BY <1>1, <2>1 DEF TypeOK
  <2>4. r \in Unread(t)' <=> r \in Unread(t)
    BY <1>2, <1>3, <2>1, <2>2, <2>3 DEF Unread, Storing
  <2>5. \A u \in Thread : u # t => Unread(u)' = Unread(u)
    BY <2>1, <2>3 DEF Unread
  <2>6. ~Buffer(t)
    BY <2>1 DEF Buffer
  <2> QED
    BY <2>1, <2>4, <2>5, <2>6 DEF Read
<1>6. CASE Buffer(t)
  <2>1. /\ pc[t] = "rows" /\ row[t] < hi[t]
        /\ \/ pc' = [pc EXCEPT ![t] = "lock"] /\ UNCHANGED row
           \/ row' = [row EXCEPT ![t] = @ + 1] /\ UNCHANGED pc
        /\ UNCHANGED <<next, hi, left>>
    BY <1>6, BufferStep
  <2>2. t \notin left /\ hi[t] <= next
    BY <1>1, <2>1 DEF LoopInv, Storing
  <2>3. \A u \in Thread : u # t => pc'[u] = pc[u] /\ row'[u] = row[u]
    BY <1>1, <2>1 DEF TypeOK
  <2>4. \/ pc'[t] \in Storing /\ row'[t] = row[t]
        \/ pc'[t] \notin Storing /\ row'[t] = row[t] + 1
    BY <1>1, <2>1 DEF TypeOK, Storing
  <2>5. r \in Unread(t)' <=> row[t] + 1 <= r /\ r < hi[t]
    BY <1>2, <1>3, <2>1, <2>2, <2>4 DEF Unread
  <2>6. r \in Unread(t) <=> row[t] <= r /\ r < hi[t]
    BY <1>2, <1>3, <2>1 DEF Unread, Storing
  <2>7. \A u \in Thread : u # t => Unread(u)' = Unread(u)
    BY <2>1, <2>3 DEF Unread
  <2>8. ASSUME NEW u \in Thread, u # t, r = row[t]
        PROVE  r \notin Unread(u)
    <3>1. hi[t] <= row[u] \/ hi[u] <= row[t] \/ row[u] = hi[u]
      BY <1>1, <2>1, <2>8, <1>3 DEF LoopInv
    <3>2. r \in Unread(u) => row[u] <= r /\ r < hi[u]
      BY <1>2, <1>3 DEF Unread
    <3> QED
      BY <1>2, <1>3, <2>1, <2>8, <3>1, <3>2
  <2>9. r = row[t] => r < next
    BY <1>2, <1>3, <2>1, <2>2
  <2> QED
    BY <1>2, <1>3, <1>6, <2>1, <2>5, <2>6, <2>7, <2>8, <2>9 DEF Read
<1>7. CASE ~Claim(t) /\ ~SkipNull(t) /\ ~Buffer(t)
  BY <1>7, SameUnread, SameRead
<1> QED
  BY <1>4, <1>5, <1>6, <1>7

\* The row that is buffered has not been read.
LEMMA BuffersUnread ==
    ASSUME IInv, NEW t \in Thread, Buffer(t)
    PROVE  row[t] \in Keyed /\ ~Read(row[t])
<1>1. /\ pc[t] = "rows" /\ row[t] < hi[t] /\ KeyOf[row[t]] # Null
      /\ row[t] \in Int /\ hi[t] \in 0 .. BuildRows /\ row[t] >= 0 /\ BuildRows \in Nat
  BY BufferStep, ConstantsAssumption DEF IInv, TypeOK
<1>2. row[t] \in Unread(t)
  BY <1>1 DEF Unread, Storing
<1> QED
  BY <1>1, <1>2 DEF Read, Keyed, BuildRow

\* Only Buffer, Allocate and Store change what buffers and chunks hold.
LEMMA OthersKeepRows ==
    ASSUME NEW t \in Thread, ThreadStep(t), ~Buffer(t), ~Allocate(t), ~Store(t)
    PROVE  UNCHANGED <<local, chunks, chunk>>
BY DEF ThreadStep, Claim, SkipNull, EndRange, EndLoop, LeaveBarrier, RestNext, RestDone, Lock,
       Unlock, slabVars

\* A new chunk has no filled cell.
LEMMA AllocateKeepsRows ==
    ASSUME IInv, NEW t \in Thread, Allocate(t)
    PROVE  /\ UNCHANGED local
           /\ DOMAIN chunk \subseteq DOMAIN chunk'
           /\ \A id \in DOMAIN chunk : chunk'[id] = chunk[id]
           /\ \A id \in DOMAIN chunk', c \in Cell : Filled(id, c)' => id \in DOMAIN chunk
<1> DEFINE fresh == <<target[t], chunks[target[t]] + 1>>
<1>1. UNCHANGED local
  BY DEF Allocate
<1>2. CASE UNCHANGED chunk
  BY <1>1, <1>2
<1>3. CASE /\ fresh \notin DOMAIN chunk
           /\ chunk' = [id \in DOMAIN chunk \union {fresh} |->
                          IF id = fresh THEN EmptyChunk ELSE chunk[id]]
  <2>1. /\ DOMAIN chunk' = DOMAIN chunk \union {fresh}
        /\ chunk'[fresh] = EmptyChunk
        /\ \A id \in DOMAIN chunk : chunk'[id] = chunk[id]
    BY <1>3
  <2>2. \A c \in Cell : ~(c < chunk'[fresh].offset)
    BY <2>1, ConstantsAssumption DEF EmptyChunk, Cell
  <2> HIDE DEF fresh
  <2>3. ASSUME NEW id \in DOMAIN chunk', NEW c \in Cell, Filled(id, c)'
        PROVE  id \in DOMAIN chunk
    BY <2>1, <2>2, <2>3 DEF Filled
  <2> QED
    BY <1>1, <2>1, <2>3
<1> QED
  BY <1>2, <1>3, AllocateStep

\* A store moves a row from the buffer to the cell that becomes filled.
LEMMA StoreMovesRow ==
    ASSUME IInv, NEW t \in Thread, Store(t)
    PROVE  LET id == Current(target[t])
               c == at[t]
           IN  /\ id \in DOMAIN chunk /\ c \in Cell /\ ~Filled(id, c) /\ c < chunk'[id].offset
               /\ cur[t] \in local[t] /\ chunk'[id].cell[c] = cur[t]
               /\ local'[t] = local[t] \ {cur[t]}
               /\ \A u \in Thread : u # t => local'[u] = local[u]
               /\ DOMAIN chunk' = DOMAIN chunk
               /\ \A jd \in DOMAIN chunk, d \in Cell :
                     ~(jd = id /\ d = c) => /\ Filled(jd, d)' <=> Filled(jd, d)
                                            /\ chunk'[jd].cell[d] = chunk[jd].cell[d]
<1> DEFINE id == Current(target[t])
           c == at[t]
<1>1. /\ id \in DOMAIN chunk /\ c \in Cell /\ c = chunk[id].offset /\ cur[t] \in local[t]
      /\ chunk' = [chunk EXCEPT ![id] =
                     [offset |-> c + 1, cell |-> [chunk[id].cell EXCEPT ![c] = cur[t]]]]
      /\ local' = [local EXCEPT ![t] = @ \ {cur[t]}]
  BY StoreStep
<1>2. chunk[id].cell \in [Cell -> BuildRow \union {None}] /\ TypeOK
  BY <1>1, ChunkShape DEF IInv
<1>3. /\ local'[t] = local[t] \ {cur[t]}
      /\ \A u \in Thread : u # t => local'[u] = local[u]
  BY <1>1, <1>2 DEF TypeOK
<1> HIDE DEF id, c
<1>4. /\ DOMAIN chunk' = DOMAIN chunk
      /\ chunk'[id].offset = c + 1
      /\ chunk'[id].cell[c] = cur[t]
      /\ \A d \in Cell : d # c => chunk'[id].cell[d] = chunk[id].cell[d]
      /\ \A jd \in DOMAIN chunk : jd # id => chunk'[jd] = chunk[jd]
  BY <1>1, <1>2
<1>5. ~Filled(id, c) /\ c < chunk'[id].offset
  <2>1. c \in Int
    BY <1>1 DEF Cell
  <2> QED
    BY <1>1, <1>4, <2>1 DEF Filled
<1>6. ASSUME NEW jd \in DOMAIN chunk, NEW d \in Cell, ~(jd = id /\ d = c)
      PROVE  (Filled(jd, d)' <=> Filled(jd, d)) /\ chunk'[jd].cell[d] = chunk[jd].cell[d]
  <2>1. CASE jd # id
    BY <1>4, <2>1 DEF Filled
  <2>2. CASE jd = id /\ d # c
    <3>1. c \in Int /\ d \in Int
      BY <1>1 DEF Cell
    <3>2. chunk'[jd].cell[d] = chunk[jd].cell[d]
      BY <1>4, <2>2
    <3> QED
      BY <1>1, <1>4, <2>2, <3>1, <3>2 DEF Filled
  <2> QED
    BY <1>6, <2>1, <2>2
<1> QED
  BY <1>1, <1>3, <1>4, <1>5, <1>6 DEF id, c

\* Buffer puts the row the thread is at into its own buffer, and changes no other.
LEMMA BufferAddsRow ==
    ASSUME IInv, NEW t \in Thread, Buffer(t)
    PROVE  /\ local'[t] = local[t] \union {row[t]}
           /\ \A u \in Thread : u # t => local'[u] = local[u]
           /\ UNCHANGED <<chunks, chunk>>
BY BufferStep DEF IInv, TypeOK

\* Every step keeps each row in one place.
LEMMA PlacePreserved ==
    ASSUME IInv, NEW t \in Thread, ThreadStep(t)
    PROVE  PlaceInv'
<1>1. PlaceInv /\ ReadInv
  BY DEF IInv
<1>2. CASE UNCHANGED <<local, chunk>>
  BY <1>1, <1>2 DEF PlaceInv, Filled
<1>3. CASE Buffer(t)
  <2> DEFINE b == row[t]
  <2>1. /\ \A u \in Thread : b \notin local[u]
        /\ \A id \in DOMAIN chunk, c \in Cell : Filled(id, c) => chunk[id].cell[c] # b
    BY <1>1, <1>3, BuffersUnread DEF ReadInv
  <2>2. /\ local'[t] = local[t] \union {b}
        /\ \A u \in Thread : u # t => local'[u] = local[u]
        /\ UNCHANGED <<chunks, chunk>>
    BY <1>3, BufferAddsRow
  <2>3. \A id, c : Filled(id, c)' <=> Filled(id, c)
    BY <2>2 DEF Filled
  <2> HIDE DEF b
  <2> QED
    BY <1>1, <2>1, <2>2, <2>3 DEF PlaceInv
<1>4. CASE Allocate(t)
  <2>1. /\ UNCHANGED local
        /\ \A id \in DOMAIN chunk : chunk'[id] = chunk[id]
        /\ \A id \in DOMAIN chunk', c \in Cell :
              Filled(id, c)' => id \in DOMAIN chunk /\ Filled(id, c)
    BY <1>4, AllocateKeepsRows DEF Filled
  <2> QED
    BY <1>1, <2>1 DEF PlaceInv
<1>5. CASE Store(t)
  <2> DEFINE id == Current(target[t])
             c == at[t]
             v == cur[t]
  <2>1. /\ id \in DOMAIN chunk /\ c \in Cell /\ c < chunk'[id].offset
        /\ v \in local[t] /\ chunk'[id].cell[c] = v
        /\ local'[t] = local[t] \ {v}
        /\ \A u \in Thread : u # t => local'[u] = local[u]
        /\ DOMAIN chunk' = DOMAIN chunk
        /\ \A jd \in DOMAIN chunk, d \in Cell :
              ~(jd = id /\ d = c) => /\ Filled(jd, d)' <=> Filled(jd, d)
                                     /\ chunk'[jd].cell[d] = chunk[jd].cell[d]
    BY <1>5, StoreMovesRow
  <2> HIDE DEF id, c, v
  <2>2. \A u \in Thread : u # t => v \notin local[u]
    BY <1>1, <2>1 DEF PlaceInv
  <2>3. \A jd \in DOMAIN chunk, d \in Cell : Filled(jd, d) => chunk[jd].cell[d] # v
    BY <1>1, <2>1 DEF PlaceInv
  <2>4. \A u, w \in Thread : u # w => local'[u] \intersect local'[w] = {}
    BY <1>1, <2>1 DEF PlaceInv
  <2>5. ASSUME NEW jd \in DOMAIN chunk', NEW d \in Cell, NEW u \in Thread, Filled(jd, d)'
        PROVE  chunk'[jd].cell[d] \notin local'[u]
    BY <1>1, <2>1, <2>2, <2>5 DEF PlaceInv
  <2>6. ASSUME NEW jd \in DOMAIN chunk', NEW kd \in DOMAIN chunk', NEW d \in Cell, NEW e \in Cell,
               Filled(jd, d)', Filled(kd, e)', chunk'[jd].cell[d] = chunk'[kd].cell[e]
        PROVE  jd = kd /\ d = e
    <3>1. CASE jd = id /\ d = c
      BY <2>1, <2>3, <2>6, <3>1
    <3>2. CASE kd = id /\ e = c
      BY <2>1, <2>3, <2>6, <3>2
    <3>3. CASE ~(jd = id /\ d = c) /\ ~(kd = id /\ e = c)
      BY <1>1, <2>1, <2>6, <3>3 DEF PlaceInv
    <3> QED
      BY <3>1, <3>2, <3>3
  <2> QED
    BY <2>4, <2>5, <2>6 DEF PlaceInv
<1> QED
  BY <1>2, <1>3, <1>4, <1>5, OthersKeepRows

\* Every step keeps the rows in the buffers and chunks those that were read.
LEMMA ReadPreserved ==
    ASSUME IInv, NEW t \in Thread, ThreadStep(t)
    PROVE  ReadInv'
<1>1. /\ ReadInv
      /\ \A u \in Thread : local[u] \subseteq Keyed
      /\ \A id \in DOMAIN chunk, c \in Cell : Filled(id, c) => chunk[id].cell[c] \in Keyed
  BY DEF IInv, TypeOK, ChunkInv
<1>2. \A r \in Keyed : Read(r)' <=> Read(r) \/ (Buffer(t) /\ r = row[t])
  BY ReadStep
<1>3. CASE UNCHANGED <<local, chunk>> /\ ~Buffer(t)
  <2>1. \A id, c : Filled(id, c)' <=> Filled(id, c)
    BY <1>3 DEF Filled
  <2> QED
    BY <1>1, <1>2, <1>3, <2>1 DEF ReadInv
<1>4. CASE Buffer(t)
  <2>1. /\ local'[t] = local[t] \union {row[t]} /\ row[t] \in Keyed
        /\ \A u \in Thread : u # t => local'[u] = local[u]
        /\ UNCHANGED <<chunks, chunk>>
    BY <1>4, BufferAddsRow, BuffersUnread
  <2>2. \A id, c : Filled(id, c)' <=> Filled(id, c)
    BY <2>1 DEF Filled
  <2>3. \A u \in Thread : \A r \in local'[u] : Read(r)'
    BY <1>1, <1>2, <1>4, <2>1 DEF ReadInv
  <2>4. \A id \in DOMAIN chunk, c \in Cell : Filled(id, c) => Read(chunk[id].cell[c])'
    BY <1>1, <1>2, <2>1 DEF ReadInv
  <2>5. ASSUME NEW r \in Keyed, Read(r)'
        PROVE  \/ \E u \in Thread : r \in local'[u]
               \/ \E id \in DOMAIN chunk, c \in Cell : Filled(id, c) /\ chunk[id].cell[c] = r
    <3>1. CASE r = row[t]
      BY <2>1, <3>1
    <3>2. CASE Read(r)
      BY <1>1, <2>1, <3>2 DEF ReadInv
    <3> QED
      BY <1>2, <2>5, <3>1, <3>2
  <2> QED
    BY <2>1, <2>2, <2>3, <2>4, <2>5 DEF ReadInv
<1>5. CASE Allocate(t)
  <2>1. /\ UNCHANGED local /\ DOMAIN chunk \subseteq DOMAIN chunk'
        /\ \A id \in DOMAIN chunk : chunk'[id] = chunk[id]
        /\ \A id \in DOMAIN chunk', c \in Cell :
              Filled(id, c)' => id \in DOMAIN chunk /\ Filled(id, c)
        /\ \A id \in DOMAIN chunk, c \in Cell : Filled(id, c) => Filled(id, c)'
    BY <1>5, AllocateKeepsRows DEF Filled
  <2>2. ~Buffer(t)
    BY <1>5 DEF Allocate, Buffer
  <2> QED
    BY <1>1, <1>2, <2>1, <2>2 DEF ReadInv
<1>6. CASE Store(t)
  <2> DEFINE id == Current(target[t])
             c == at[t]
             v == cur[t]
  <2>1. /\ id \in DOMAIN chunk /\ c \in Cell /\ ~Filled(id, c) /\ c < chunk'[id].offset
        /\ v \in local[t] /\ chunk'[id].cell[c] = v
        /\ local'[t] = local[t] \ {v}
        /\ \A u \in Thread : u # t => local'[u] = local[u]
        /\ DOMAIN chunk' = DOMAIN chunk
        /\ \A jd \in DOMAIN chunk, d \in Cell :
              ~(jd = id /\ d = c) => /\ Filled(jd, d)' <=> Filled(jd, d)
                                     /\ chunk'[jd].cell[d] = chunk[jd].cell[d]
    BY <1>6, StoreMovesRow
  <2>2. ~Buffer(t)
    BY <1>6 DEF Store, Buffer
  <2> HIDE DEF id, c, v
  <2>3. \A r \in Keyed : Read(r)' <=> Read(r)
    BY <1>2, <2>2
  <2>4. \A u \in Thread : \A r \in local'[u] : Read(r)'
    BY <1>1, <2>1, <2>3 DEF ReadInv
  <2>5. ASSUME NEW jd \in DOMAIN chunk', NEW d \in Cell, Filled(jd, d)'
        PROVE  Read(chunk[jd].cell[d])'
    <3>1. CASE jd = id /\ d = c
      <4>1. chunk'[jd].cell[d] = v /\ v \in Keyed /\ Read(v)
        BY <1>1, <2>1, <3>1 DEF ReadInv
      <4> QED
        BY <2>3, <4>1 DEF Read
    <3>2. CASE ~(jd = id /\ d = c)
      <4>1. chunk'[jd].cell[d] = chunk[jd].cell[d] /\ Filled(jd, d) /\ jd \in DOMAIN chunk
        BY <2>1, <2>5, <3>2
      <4>2. chunk[jd].cell[d] \in Keyed /\ Read(chunk[jd].cell[d])
        BY <1>1, <4>1 DEF ReadInv
      <4> QED
        BY <2>3, <4>1, <4>2 DEF Read
    <3> QED
      BY <3>1, <3>2
  <2>6. ASSUME NEW r \in Keyed, Read(r)'
        PROVE  \/ \E u \in Thread : r \in local'[u]
               \/ \E jd \in DOMAIN chunk', d \in Cell : Filled(jd, d)' /\ chunk'[jd].cell[d] = r
    <3>1. CASE r = v
      BY <2>1, <3>1 DEF Filled
    <3>2. CASE r # v /\ \E u \in Thread : r \in local[u]
      BY <2>1, <3>2
    <3>3. CASE \E jd \in DOMAIN chunk, d \in Cell : Filled(jd, d) /\ chunk[jd].cell[d] = r
      <4>1. PICK jd \in DOMAIN chunk, d \in Cell : Filled(jd, d) /\ chunk[jd].cell[d] = r
        BY <3>3
      <4> QED
        BY <2>1, <4>1
    <3> QED
      BY <1>1, <2>3, <2>6, <3>1, <3>2, <3>3 DEF ReadInv
  <2> QED
    BY <2>4, <2>5, <2>6 DEF ReadInv
<1>7. CASE ~Buffer(t) /\ ~Allocate(t) /\ ~Store(t)
  BY <1>3, <1>7, OthersKeepRows
<1> QED
  BY <1>4, <1>5, <1>6, <1>7

-----------------------------------------------------------------------------
(* The theorems. *)

\* Empty buffers and chunk lists satisfy the invariant.
LEMMA Initially == Init => IInv
<1> SUFFICES ASSUME Init
             PROVE  IInv
  OBVIOUS
<1> USE ConstantsAssumption DEF Init
<1>1. TypeOK
  <2>1. DOMAIN chunk = {}
    OBVIOUS
  <2>2. {id \in Partition \X (1 .. BuildRows) : id[2] <= chunks[id[1]]} = {}
    OBVIOUS
  <2>3. chunk \in [{} -> [offset : 0 .. Capacity, cell : [Cell -> BuildRow \union {None}]]]
    BY <2>1
  <2>4. at \in [Thread -> Cell]
    BY DEF Cell
  <2> QED
    BY <2>2, <2>3, <2>4 DEF TypeOK
<1>2. LoopInv /\ MutexInv
  BY DEF LoopInv, MutexInv, Storing
<1>3. ChunkInv /\ ReservedInv /\ PlaceInv
  BY DEF ChunkInv, ReservedInv, PlaceInv
<1>4. ReadInv
  <2>1. \A r \in Keyed : ~Read(r)
    BY DEF Keyed, BuildRow, Read
  <2> QED
    BY <2>1 DEF ReadInv
<1> QED
  BY <1>1, <1>2, <1>3, <1>4 DEF IInv

\* The invariant is about the variables only.
LEMMA Stutters ==
    ASSUME IInv, UNCHANGED vars
    PROVE  IInv'
<1>1. UNCHANGED <<pc, next, row, hi, left, local, target, cur, at, holder, chunks, chunk>>
  BY DEF vars, loopVars, storeVars, slabVars
<1>2. TypeOK' /\ LoopInv' /\ MutexInv'
  BY <1>1 DEF IInv, TypeOK, LoopInv, MutexInv
<1>3. \A id, c : Filled(id, c)' <=> Filled(id, c)
  BY <1>1 DEF Filled
<1>4. (\A p : Current(p)' = Current(p)) /\ \A t : Unread(t)' = Unread(t)
  BY <1>1 DEF Current, Unread
<1>5. ChunkInv' /\ ReservedInv' /\ PlaceInv'
  BY <1>1, <1>3, <1>4 DEF IInv, ChunkInv, ReservedInv, PlaceInv
<1>6. \A r : Read(r)' <=> Read(r)
  BY <1>1, <1>4, SameRead
<1>7. ReadInv'
  BY <1>1, <1>3, <1>6 DEF IInv, ReadInv
<1> QED
  BY <1>2, <1>5, <1>7 DEF IInv

\* Every step keeps the invariant.
LEMMA Inductive == IInv /\ [Next]_vars => IInv'
<1> SUFFICES ASSUME IInv, [Next]_vars
             PROVE  IInv'
  OBVIOUS
<1>1. ASSUME NEW t \in Thread, ThreadStep(t)
      PROVE  IInv'
  BY <1>1, TypePreserved, LoopPreserved, MutexPreserved, ChunkPreserved, ReservedPreserved,
     PlacePreserved, ReadPreserved DEF IInv
<1>2. CASE UNCHANGED vars
  BY <1>2, Stutters
<1> QED
  BY <1>1, <1>2 DEF Next, Done

\* The inductive invariant.
THEOREM Invariant == Spec => []IInv
BY Initially, Inductive, PTL DEF Spec

\* Every list of chunks is numbered without gaps, every buffered row has a key,
\* and no offset passes the end of its chunk: the offset is a number of tuples
\* that fit.
THEOREM TypeCorrect == Spec => []TypeOK
BY Invariant, PTL DEF IInv

\* The cell that allocate reserves (PartitionAlloc::allocate under the mutex of
\* the partition) is written by the thread that reserved it and was not used.
THEOREM CellsReserved == Spec => []CellReserved
<1>1. IInv => CellReserved
  <2> SUFFICES ASSUME IInv, NEW t \in Thread, pc[t] = "store"
               PROVE  /\ at[t] = chunk[Current(target[t])].offset
                      /\ chunk[Current(target[t])].cell[at[t]] = None
                      /\ \A u \in Thread \ {t} : pc[u] = "store" => target[u] # target[t]
    BY DEF CellReserved
  <2>1. at[t] = chunk[Current(target[t])].offset /\ chunks[target[t]] > 0
    BY DEF IInv, ReservedInv
  <2>2. /\ target[t] \in Partition
        /\ \A u \in Thread : pc[u] = "store" /\ target[u] = target[t] => u = t
    BY AllocatesAlone
  <2>3. Current(target[t]) \in DOMAIN chunk /\ at[t] \in Cell
    BY <2>1, <2>2, CurrentExists DEF IInv, TypeOK
  <2>4. ~Filled(Current(target[t]), at[t])
    BY <2>1, <2>3, ConstantsAssumption DEF Filled, Cell
  <2>5. chunk[Current(target[t])].cell[at[t]] = None
    BY <2>3, <2>4 DEF IInv, ChunkInv
  <2> QED
    BY <2>1, <2>2, <2>5
<1> QED
  BY <1>1, Invariant, PTL

\* What build_from_slabs visits are the filled cells.
LEMMA VisitsFilled ==
    ASSUME IInv
    PROVE  /\ \A v \in Visited : /\ v[1] \in DOMAIN chunk /\ v[2] \in Cell /\ Filled(v[1], v[2])
                                 /\ v = <<v[1], v[2]>> /\ RowAt(v) = chunk[v[1]].cell[v[2]]
           /\ \A id \in DOMAIN chunk, c \in Cell : Filled(id, c) =>
                 <<id, c>> \in Visited /\ RowAt(<<id, c>>) = chunk[id].cell[c]
<1> USE ConstantsAssumption
<1>1. ASSUME NEW v \in Visited
      PROVE  /\ v[1] \in DOMAIN chunk /\ v[2] \in Cell /\ Filled(v[1], v[2])
             /\ v = <<v[1], v[2]>> /\ RowAt(v) = chunk[v[1]].cell[v[2]]
  <2>1. v[1] \in DOMAIN chunk /\ v[2] \in 0 .. Capacity /\ v[2] < chunk[v[1]].offset /\ v = <<v[1], v[2]>>
    BY DEF Visited
  <2>2. chunk[v[1]].offset \in 0 .. Capacity
    BY <2>1, ChunkShape DEF IInv
  <2>3. v[2] \in Cell
    BY <2>1, <2>2 DEF Cell
  <2> QED
    BY <2>1, <2>3 DEF Filled, RowAt
<1>2. ASSUME NEW id \in DOMAIN chunk, NEW c \in Cell, Filled(id, c)
      PROVE  <<id, c>> \in Visited /\ RowAt(<<id, c>>) = chunk[id].cell[c]
  <2>1. c \in 0 .. Capacity
    BY DEF Cell
  <2> QED
    BY <1>2, <2>1 DEF Visited, RowAt, Filled
<1> QED
  BY <1>1, <1>2

\* What the invariant says of rows and cells.
LEMMA OneCellPerRow ==
    ASSUME IInv
    PROVE  RowsInOnePlace /\ \A v \in Visited : RowAt(v) \in Keyed
<1>1. \A v \in Visited : /\ v[1] \in DOMAIN chunk /\ v[2] \in Cell /\ Filled(v[1], v[2])
                         /\ v = <<v[1], v[2]>> /\ RowAt(v) = chunk[v[1]].cell[v[2]]
  BY VisitsFilled
<1>2. \A v \in Visited : RowAt(v) \in Keyed
  BY <1>1 DEF IInv, ChunkInv
<1>3. \A v \in Visited : RowAt(v) # None
  BY <1>2, ConstantsAssumption DEF Keyed
<1>4. \A v, w \in Visited : RowAt(v) = RowAt(w) => v = w
  <2> TAKE v, w \in Visited
  <2> HAVE RowAt(v) = RowAt(w)
  <2>1. v[1] = w[1] /\ v[2] = w[2]
    BY <1>1 DEF IInv, PlaceInv
  <2> QED
    BY <1>1, <2>1
<1>5. \A v \in Visited, t \in Thread : RowAt(v) \notin local[t]
  BY <1>1 DEF IInv, PlaceInv
<1>6. \A t, u \in Thread : t # u => local[t] \intersect local[u] = {}
  BY DEF IInv, PlaceInv
<1>7. ASSUME AllDone, NEW r \in Keyed
      PROVE  r \in {RowAt(v) : v \in Visited}
  <2>1. \A t \in Thread : /\ pc[t] = "done" /\ t \in left /\ row[t] = hi[t] /\ local[t] = {}
                          /\ row[t] \in Int
    BY <1>7 DEF AllDone, IInv, LoopInv, TypeOK
  <2>2. next = BuildRows
    BY <2>1, ConstantsAssumption DEF IInv, LoopInv
  <2>3. \A t \in Thread : Unread(t) = {}
    BY <2>1 DEF Unread, Storing
  <2>4. Read(r)
    BY <2>2, <2>3, ConstantsAssumption DEF Read, Keyed, BuildRow
  <2>5. PICK id \in DOMAIN chunk, c \in Cell : Filled(id, c) /\ chunk[id].cell[c] = r
    BY <2>1, <2>4 DEF IInv, ReadInv
  <2>6. <<id, c>> \in Visited /\ RowAt(<<id, c>>) = r
    BY <2>5, VisitsFilled
  <2> QED
    BY <2>6
<1> QED
  BY <1>2, <1>3, <1>4, <1>5, <1>6, <1>7 DEF RowsInOnePlace

\* No flush, chunk boundary or leftover loses a tuple or stores it twice: when the
\* region ends, the cells that build_from_slabs visits hold every build row with a
\* key, each once.
THEOREM RowsStoredOnce == Spec => []RowsInOnePlace
BY OneCellPerRow, Invariant, PTL

\* The table is built from finitely many cells: each holds another row.
LEMMA VisitedFinite ==
    ASSUME IInv
    PROVE  IsFiniteSet(Visited)
<1> DEFINE f == [v \in Visited |-> RowAt(v)]
<1>1. f \in Injection(Visited, BuildRow)
  BY OneCellPerRow DEF RowsInOnePlace, Keyed, Injection, IsInjective
<1>2. IsFiniteSet(BuildRow)
  BY FS_Interval, ConstantsAssumption DEF BuildRow
<1> HIDE DEF f
<1> QED
  BY <1>1, <1>2, FS_Injection
==============================================================================
