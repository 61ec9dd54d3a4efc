---------------------------- MODULE SlabCollect ----------------------------
(***************************************************************************)
(* The parallel collection of the build side's tuples into slabs           *)
(* (src/src/execute.cpp, the first parallel region of JoinAlgorithm::run,  *)
(* with Chunk and PartitionAlloc of src/src/UnchainedHash.h).              *)
(*                                                                         *)
(* Every thread takes ranges of build rows, buffers the rows with a key,   *)
(* and, whenever the buffer is full, stores the WHOLE buffer into one      *)
(* partition: that of the row that filled it.  After the loop's barrier    *)
(* each thread stores what is left, every row in the partition of its own  *)
(* key.  A mutex per partition protects its chunk list.                    *)
(*                                                                         *)
(* A tuple {key, row} is known by its row.  A chunk is identified by       *)
(* <<partition, number>>; the one with the highest number is               *)
(* current_chunk.  Its offset and capacity count tuples, not bytes.        *)
(***************************************************************************)
EXTENDS Integers, FiniteSets

CONSTANTS
    Thread,         \* the OpenMP team
    Partition,      \* indices of level3 and part_mutexes
    BuildRows,      \* build_rows
    KeyOf,          \* [BuildRow -> Key \union {Null}]: the key column
    Key,
    PartOf,         \* [Key -> Partition]: crc32(key) & (num_partitions - 1)
    RangeSize,      \* chunk_size of schedule(guided, chunk_size): 2048
    FlushAt,        \* buffered tuples that trigger a flush: 256
    Capacity,       \* SMALL_CHUNK_SIZE / sizeof(TableTuple): 1024
    Null,           \* the NULL key
    None            \* no thread, no row, an unwritten cell

BuildRow == 0 .. (BuildRows - 1)
Cell == 0 .. (Capacity - 1)

ASSUME ConstantsAssumption ==
    /\ Thread # {}
    /\ BuildRows \in Nat
    /\ Null \notin Key
    /\ None \notin Thread
    /\ None \notin BuildRow
    /\ KeyOf \in [BuildRow -> Key \union {Null}]
    /\ PartOf \in [Key -> Partition]
    /\ RangeSize \in Nat \ {0}
    /\ FlushAt \in Nat \ {0}
    /\ Capacity \in Nat \ {0}

Keyed == {r \in BuildRow : KeyOf[r] # Null}

-----------------------------------------------------------------------------
VARIABLES
    pc,         \* where every thread is
    next,       \* first row the omp-for has not handed out
    row, hi,    \* row[t], hi[t]: loop index and end of t's range
    left,       \* threads past the loop's barrier
    local,      \* local[t]: rows in t's local_tuples that are not stored yet
    target,     \* target[t]: partition t locks
    cur,        \* cur[t]: row that t is storing
    at,         \* at[t]: cell that allocate has returned to t
    holder,     \* holder[p]: thread that holds part_mutexes[p]
    chunks,     \* chunks[p]: length of p's chunk list
    chunk       \* contents of every chunk

loopVars == <<next, row, hi, left>>
storeVars == <<target, cur, at>>
slabVars == <<chunks, chunk>>
vars == <<pc, loopVars, local, storeVars, holder, slabVars>>

Init ==
    /\ pc = [t \in Thread |-> "claim"]
    /\ next = 0
    /\ row = [t \in Thread |-> 0]
    /\ hi = [t \in Thread |-> 0]
    /\ left = {}
    /\ local = [t \in Thread |-> {}]
    /\ target = [t \in Thread |-> None]
    /\ cur = [t \in Thread |-> None]
    /\ at = [t \in Thread |-> 0]
    /\ holder = [p \in Partition |-> None]
    /\ chunks = [p \in Partition |-> 0]
    /\ chunk = [id \in {} |-> None]

Current(p) == <<p, chunks[p]>>
FreeSpace(p) == IF chunks[p] = 0 THEN 0 ELSE Capacity - chunk[Current(p)].offset

-----------------------------------------------------------------------------
(* The loop over the build rows. *)

\* schedule(guided, 2048): a range has at least RangeSize rows unless it is the last.
Claim(t) ==
    /\ pc[t] = "claim"
    /\ \E end \in (next + 1) .. BuildRows :
          /\ end - next >= RangeSize \/ end = BuildRows
          /\ row' = [row EXCEPT ![t] = next]
          /\ hi' = [hi EXCEPT ![t] = end]
          /\ next' = end
    /\ pc' = [pc EXCEPT ![t] = "rows"]
    /\ UNCHANGED <<left, local, storeVars, holder, slabVars>>

\* if (key_val.is_null()) continue;
SkipNull(t) ==
    /\ pc[t] = "rows"
    /\ row[t] < hi[t]
    /\ KeyOf[row[t]] = Null
    /\ row' = [row EXCEPT ![t] = @ + 1]
    /\ UNCHANGED <<pc, next, hi, left, local, storeVars, holder, slabVars>>

\* MUTANT: a full buffer starts the next one without the row that filled it.
BufferDrops(t) ==
    /\ pc[t] = "rows"
    /\ row[t] < hi[t]
    /\ KeyOf[row[t]] # Null
    /\ IF Cardinality(local[t]) + 1 >= FlushAt
       THEN /\ target' = [target EXCEPT ![t] = PartOf[KeyOf[row[t]]]]
            /\ pc' = [pc EXCEPT ![t] = "lock"]
            /\ UNCHANGED <<row, local>>
       ELSE /\ local' = [local EXCEPT ![t] = @ \union {row[t]}]
            /\ row' = [row EXCEPT ![t] = @ + 1]
            /\ UNCHANGED <<pc, target>>
    /\ UNCHANGED <<next, hi, left, cur, at, holder, slabVars>>

\* local_tuples.push_back; a full buffer goes to the partition of this key
Buffer(t) ==
    /\ pc[t] = "rows"
    /\ row[t] < hi[t]
    /\ KeyOf[row[t]] # Null
    /\ local' = [local EXCEPT ![t] = @ \union {row[t]}]
    /\ IF Cardinality(local[t]) + 1 >= FlushAt
       THEN /\ target' = [target EXCEPT ![t] = PartOf[KeyOf[row[t]]]]
            /\ pc' = [pc EXCEPT ![t] = "lock"]
            /\ UNCHANGED row
       ELSE /\ row' = [row EXCEPT ![t] = @ + 1]
            /\ UNCHANGED <<pc, target>>
    /\ UNCHANGED <<next, hi, left, cur, at, holder, slabVars>>

EndRange(t) ==
    /\ pc[t] = "rows"
    /\ row[t] = hi[t]
    /\ pc' = [pc EXCEPT ![t] = "claim"]
    /\ UNCHANGED <<loopVars, local, storeVars, holder, slabVars>>

\* No rows are left to hand out: the thread waits at the loop's barrier.
EndLoop(t) ==
    /\ pc[t] = "claim"
    /\ next = BuildRows
    /\ pc' = [pc EXCEPT ![t] = "barrier"]
    /\ UNCHANGED <<loopVars, local, storeVars, holder, slabVars>>

LeaveBarrier(t) ==
    /\ pc[t] = "barrier"
    /\ \A u \in Thread : pc[u] = "barrier" \/ u \in left
    /\ left' = left \union {t}
    /\ pc' = [pc EXCEPT ![t] = "rest"]
    /\ UNCHANGED <<next, row, hi, local, storeVars, holder, slabVars>>

-----------------------------------------------------------------------------
(* Storing tuples. *)

\* The loop over the tuples that are left: each goes to its own partition.
RestNext(t) ==
    /\ pc[t] = "rest"
    /\ \E r \in local[t] : target' = [target EXCEPT ![t] = PartOf[KeyOf[r]]]
    /\ pc' = [pc EXCEPT ![t] = "lock"]
    /\ UNCHANGED <<loopVars, local, cur, at, holder, slabVars>>

RestDone(t) ==
    /\ pc[t] = "rest"
    /\ local[t] = {}
    /\ pc' = [pc EXCEPT ![t] = "done"]
    /\ UNCHANGED <<loopVars, local, storeVars, holder, slabVars>>

\* MUTANT: the mutex is not waited for.
LockNot(t) ==
    /\ pc[t] = "lock"
    /\ holder' = [holder EXCEPT ![target[t]] = t]
    /\ pc' = [pc EXCEPT ![t] = "space"]
    /\ UNCHANGED <<loopVars, local, storeVars, slabVars>>

\* lock_guard<mutex> lock(part_mutexes[part])
Lock(t) ==
    /\ pc[t] = "lock"
    /\ holder[target[t]] = None
    /\ holder' = [holder EXCEPT ![target[t]] = t]
    /\ pc' = [pc EXCEPT ![t] = "space"]
    /\ UNCHANGED <<loopVars, local, storeVars, slabVars>>

\* The rows t may store now: any of a flushed buffer; of the rest, those whose
\* own partition is locked.
Storable(t) == {r \in local[t] : t \in left => PartOf[KeyOf[r]] = target[t]}

EmptyChunk == [offset |-> 0, cell |-> [c \in Cell |-> None]]

\* MUTANT: a chunk that is full by one tuple too many.
AllocateFull(t) ==
    /\ pc[t] = "space"
    /\ LET p == target[t]
           fresh == <<p, chunks[p] + 1>>
       IN  IF chunks[p] = 0 \/ chunk[Current(p)].offset > Capacity
           THEN /\ chunks' = [chunks EXCEPT ![p] = @ + 1]
                /\ chunk' = [id \in DOMAIN chunk \union {fresh} |->
                               IF id = fresh THEN EmptyChunk ELSE chunk[id]]
                /\ at' = [at EXCEPT ![t] = 0]
           ELSE /\ at' = [at EXCEPT ![t] = chunk[Current(p)].offset]
                /\ UNCHANGED slabVars
    /\ \E r \in Storable(t) : cur' = [cur EXCEPT ![t] = r]
    /\ pc' = [pc EXCEPT ![t] = "store"]
    /\ UNCHANGED <<loopVars, local, target, holder>>

\* A new chunk if freeSpace() is too small; allocate reads the offset.
Allocate(t) ==
    /\ pc[t] = "space"
    /\ LET p == target[t]
           fresh == <<p, chunks[p] + 1>>
       IN  IF FreeSpace(p) < 1
           THEN /\ chunks' = [chunks EXCEPT ![p] = @ + 1]
                /\ chunk' = [id \in DOMAIN chunk \union {fresh} |->
                               IF id = fresh THEN EmptyChunk ELSE chunk[id]]
                /\ at' = [at EXCEPT ![t] = 0]
           ELSE /\ at' = [at EXCEPT ![t] = chunk[Current(p)].offset]
                /\ UNCHANGED slabVars
    /\ \E r \in Storable(t) : cur' = [cur EXCEPT ![t] = r]
    /\ pc' = [pc EXCEPT ![t] = "store"]
    /\ UNCHANGED <<loopVars, local, target, holder>>

\* offset += sizeof(T); *slot = tuple; a flush goes on with its next tuple
Store(t) ==
    /\ pc[t] = "store"
    /\ chunk' = [chunk EXCEPT ![Current(target[t])] =
                   [offset |-> @.offset + 1, cell |-> [@.cell EXCEPT ![at[t]] = cur[t]]]]
    /\ local' = [local EXCEPT ![t] = @ \ {cur[t]}]
    /\ cur' = [cur EXCEPT ![t] = None]
    /\ pc' = [pc EXCEPT ![t] = IF t \notin left /\ local'[t] # {} THEN "space" ELSE "unlock"]
    /\ UNCHANGED <<loopVars, target, at, holder, chunks>>

\* MUTANT: the lock is not released after a flush.
UnlockRest(t) ==
    /\ pc[t] = "unlock"
    /\ holder' = IF t \in left THEN [holder EXCEPT ![target[t]] = None] ELSE holder
    /\ IF t \in left
       THEN /\ pc' = [pc EXCEPT ![t] = "rest"]
            /\ UNCHANGED row
       ELSE /\ pc' = [pc EXCEPT ![t] = "rows"]
            /\ row' = [row EXCEPT ![t] = @ + 1]
    /\ UNCHANGED <<next, hi, left, local, storeVars, slabVars>>

\* The end of the lock_guard's scope; a flush resumes the loop over the rows.
Unlock(t) ==
    /\ pc[t] = "unlock"
    /\ holder' = [holder EXCEPT ![target[t]] = None]
    /\ IF t \in left
       THEN /\ pc' = [pc EXCEPT ![t] = "rest"]
            /\ UNCHANGED row
       ELSE /\ pc' = [pc EXCEPT ![t] = "rows"]
            /\ row' = [row EXCEPT ![t] = @ + 1]
    /\ UNCHANGED <<next, hi, left, local, storeVars, slabVars>>

-----------------------------------------------------------------------------
ThreadStep(t) ==
    \/ Claim(t)
    \/ SkipNull(t)
    \/ Buffer(t)
    \/ EndRange(t)
    \/ EndLoop(t)
    \/ LeaveBarrier(t)
    \/ RestNext(t)
    \/ RestDone(t)
    \/ Lock(t)
    \/ Allocate(t)
    \/ Store(t)
    \/ Unlock(t)

AllDone == \A t \in Thread : pc[t] = "done"

Done == AllDone /\ UNCHANGED vars

Next == (\E t \in Thread : ThreadStep(t)) \/ Done

Spec == Init /\ [][Next]_vars

\* Every thread of the team is scheduled; a mutex that is free is acquired.
FairSpec == Spec /\ \A t \in Thread : WF_vars(ThreadStep(t))

-----------------------------------------------------------------------------
(* Properties. *)

\* The cells build_from_slabs visits: offset / sizeof(Tuple) of every chunk.
Visited == {v \in (DOMAIN chunk) \X (0 .. Capacity) : v[2] < chunk[v[1]].offset}
RowAt(v) == chunk[v[1]].cell[v[2]]

\* Program counters, buffers and the shape of the chunk lists.
TypeOK ==
    /\ pc \in [Thread -> {"claim", "rows", "barrier", "rest", "lock", "space", "store",
                          "unlock", "done"}]
    /\ next \in 0 .. BuildRows
    /\ row \in [Thread -> 0 .. BuildRows]
    /\ hi \in [Thread -> 0 .. BuildRows]
    /\ left \subseteq Thread
    /\ local \in [Thread -> SUBSET Keyed]
    /\ target \in [Thread -> Partition \union {None}]
    /\ cur \in [Thread -> BuildRow \union {None}]
    /\ at \in [Thread -> Cell]
    /\ holder \in [Partition -> Thread \union {None}]
    /\ chunks \in [Partition -> Nat]
    /\ chunk \in [{id \in Partition \X (1 .. BuildRows) : id[2] <= chunks[id[1]]} ->
                    [offset : 0 .. Capacity, cell : [Cell -> BuildRow \union {None}]]]

\* What allocate hands out is an unused cell of the current chunk, and no other
\* thread is between allocate and the store in the same partition.
CellReserved ==
    \A t \in Thread : pc[t] = "store" =>
        /\ at[t] = chunk[Current(target[t])].offset
        /\ chunk[Current(target[t])].cell[at[t]] = None
        /\ \A u \in Thread \ {t} : pc[u] = "store" => target[u] # target[t]

\* A row that has a key and has been read is in one place: in the buffer of one
\* thread or in one visited cell; nothing else is visited.  No flush, chunk
\* boundary or leftover loses a tuple or stores it twice.
RowsInOnePlace ==
    /\ \A v \in Visited : RowAt(v) # None
    /\ \A v, w \in Visited : RowAt(v) = RowAt(w) => v = w
    /\ \A v \in Visited, t \in Thread : RowAt(v) \notin local[t]
    /\ \A t, u \in Thread : t # u => local[t] \intersect local[u] = {}
    /\ AllDone => {RowAt(v) : v \in Visited} = Keyed

\* The region ends: no thread waits for a mutex or at the barrier for ever.
CollectEnds == <>AllDone
=============================================================================
