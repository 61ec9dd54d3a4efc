--------------------------- MODULE UnchainedHash ---------------------------
(***************************************************************************)
(* The parallel build of the unchained hash table and its lookup           *)
(* (src/src/UnchainedHash.h, build_from_slabs and find).                   *)
(*                                                                         *)
(* The build runs in four phases separated by OpenMP barriers:             *)
(*   count   every thread takes slab partitions and, per tuple, does four  *)
(*           SEPARATE atomic read-modify-writes: the slot's counter, the   *)
(*           slot's tag, the two Bloom bits;                               *)
(*   prefix  one thread turns the counters into start offsets;             *)
(*   place   every thread takes partitions again; per tuple a fetch_add on *)
(*           the slot hands out a position, a later plain store fills it;  *)
(*   slide   one thread moves every offset one slot to the right, which    *)
(*           turns the end offsets the placement left into start offsets.  *)
(* A directory word is 64 bits: offset[s] is its upper 48, tag[s] the set  *)
(* of bits of its lower 16.  A tuple is known by its identity; KeyOf gives *)
(* its key, PartOf the slab partition it lies in.  The order of the tuples *)
(* within a slab (newest chunk first) is left open, and so is the OpenMP   *)
(* schedule: any thread may get any partition that is still to be handed   *)
(* out.                                                                    *)
(***************************************************************************)
EXTENDS Integers, FiniteSets

CONSTANTS
    Thread,             \* the OpenMP team
    Partition,          \* slab partitions
    Tuple,              \* tuples of the build side
    Key,
    KeyOf,              \* [Tuple -> Key]
    PartOf,             \* [Tuple -> Partition]
    HashOf,             \* [Key -> Nat]: hash_key
    BloomHash1(_),      \* bloom_hash1
    BloomHash2(_),      \* bloom_hash2
    DirSize,            \* directory.size()
    BloomBits,          \* bloom_bit_count
    None                \* no partition, no tuple, an unwritten position

ASSUME ConstantsAssumption ==
    /\ IsFiniteSet(Tuple)
    /\ None \notin Tuple
    /\ None \notin Partition
    /\ KeyOf \in [Tuple -> Key]
    /\ PartOf \in [Tuple -> Partition]
    /\ HashOf \in [Key -> Nat]
    /\ DirSize \in Nat \ {0}
    /\ BloomBits \in Nat \ {0}
    /\ \A k \in Key : BloomHash1(HashOf[k]) \in Nat /\ BloomHash2(HashOf[k]) \in Nat

-----------------------------------------------------------------------------
(* What is computed from a key. *)

Slot == 0 .. (DirSize - 1)
TagBit == 0 .. 15

\* h & (dir_n - 1), for a power of two dir_n
SlotOf(k) == HashOf[k] % DirSize

\* fingerprint_to_mask(mini_hash(h)): one bit per nibble of the low 16 bits
TagOf(k) == LET h == HashOf[k]
            IN  {h % 16, (h \div 16) % 16, (h \div 256) % 16, (h \div 4096) % 16}

Bloom1(k) == BloomHash1(HashOf[k]) % BloomBits
Bloom2(k) == BloomHash2(HashOf[k]) % BloomBits

SlotOfTuple(x) == SlotOf(KeyOf[x])

-----------------------------------------------------------------------------
VARIABLES
    phase,          \* where the build is between the barriers
    unclaimed,      \* partitions the current omp-for has not handed out
    part,           \* part[t]: partition thread t works on
    todo,           \* tuples the current phase has not taken yet
    pc,             \* next instruction of every thread
    cur,            \* cur[t]: tuple thread t works on
    pos,            \* pos[t]: target_pos of thread t
    offset, tag,    \* directory
    bloom,          \* set bits of bloom_bits
    total,          \* total_tuples_sum
    loop,           \* index i of the sequential loops
    current_offset, \* accumulator of the prefix sum
    adjacency

threadVars == <<unclaimed, part, todo, pc, cur, pos>>
tableVars == <<offset, tag, bloom, adjacency>>
loopVars == <<total, loop, current_offset>>
vars == <<phase, threadVars, tableVars, loopVars>>

Position == DOMAIN adjacency

Init ==
    /\ phase = "count"
    /\ unclaimed = Partition
    /\ part = [t \in Thread |-> None]
    /\ todo = Tuple
    /\ pc = [t \in Thread |-> "idle"]
    /\ cur = [t \in Thread |-> None]
    /\ pos = [t \in Thread |-> 0]
    /\ offset = [s \in Slot |-> 0]
    /\ tag = [s \in Slot |-> {}]
    /\ bloom = {}
    /\ total = 0
    /\ loop = 0
    /\ current_offset = 0
    /\ adjacency = [p \in {} |-> None]

-----------------------------------------------------------------------------
(* The two parallel loops. *)

\* The omp-for hands a partition to an idle thread.
Claim(t) ==
    /\ phase \in {"count", "place"}
    /\ pc[t] = "idle"
    /\ \E p \in unclaimed :
          /\ unclaimed' = unclaimed \ {p}
          /\ part' = [part EXCEPT ![t] = p]
    /\ pc' = [pc EXCEPT ![t] = "next"]
    /\ UNCHANGED <<phase, todo, cur, pos, tableVars, loopVars>>

\* The tuples of t's partition that are still to be visited.
Ahead(t) == {x \in todo : PartOf[x] = part[t]}

Take(t, x) ==
    /\ x \in Ahead(t)
    /\ todo' = todo \ {x}
    /\ cur' = [cur EXCEPT ![t] = x]

\* #pragma omp atomic: directory[slot] += 1 << 16
CountAdd(t) ==
    /\ phase = "count"
    /\ pc[t] = "next"
    /\ \E x \in Ahead(t) :
          /\ Take(t, x)
          /\ offset' = [offset EXCEPT ![SlotOfTuple(x)] = @ + 1]
    /\ pc' = [pc EXCEPT ![t] = "tag"]
    /\ UNCHANGED <<phase, unclaimed, part, pos, tag, bloom, adjacency, loopVars>>

\* MUTANT: the tag is assigned, not or-ed.
OrTagAssigns(t) ==
    /\ pc[t] = "tag"
    /\ tag' = [tag EXCEPT ![SlotOfTuple(cur[t])] = TagOf(KeyOf[cur[t]])]
    /\ pc' = [pc EXCEPT ![t] = "bloom1"]
    /\ UNCHANGED <<phase, unclaimed, part, todo, cur, pos, offset, bloom, adjacency, loopVars>>

\* #pragma omp atomic: directory[slot] |= mask
OrTag(t) ==
    /\ pc[t] = "tag"
    /\ tag' = [tag EXCEPT ![SlotOfTuple(cur[t])] = @ \union TagOf(KeyOf[cur[t]])]
    /\ pc' = [pc EXCEPT ![t] = "bloom1"]
    /\ UNCHANGED <<phase, unclaimed, part, todo, cur, pos, offset, bloom, adjacency, loopVars>>

SetBloom1(t) ==
    /\ pc[t] = "bloom1"
    /\ bloom' = bloom \union {Bloom1(KeyOf[cur[t]])}
    /\ pc' = [pc EXCEPT ![t] = "bloom2"]
    /\ UNCHANGED <<phase, unclaimed, part, todo, cur, pos, offset, tag, adjacency, loopVars>>

SetBloom2(t) ==
    /\ pc[t] = "bloom2"
    /\ bloom' = bloom \union {Bloom2(KeyOf[cur[t]])}
    /\ pc' = [pc EXCEPT ![t] = "next"]
    /\ cur' = [cur EXCEPT ![t] = None]
    /\ UNCHANGED <<phase, unclaimed, part, todo, pos, offset, tag, adjacency, loopVars>>

\* MUTANT: add-and-fetch, the new offset is taken for the target.
FetchAddNew(t) ==
    /\ phase = "place"
    /\ pc[t] = "next"
    /\ \E x \in Ahead(t) :
          /\ Take(t, x)
          /\ pos' = [pos EXCEPT ![t] = offset[SlotOfTuple(x)] + 1]
          /\ offset' = [offset EXCEPT ![SlotOfTuple(x)] = @ + 1]
    /\ pc' = [pc EXCEPT ![t] = "write"]
    /\ UNCHANGED <<phase, unclaimed, part, tag, bloom, adjacency, loopVars>>

\* __atomic_fetch_add(&directory[slot], 1 << 16): the old offset is the target
FetchAdd(t) ==
    /\ phase = "place"
    /\ pc[t] = "next"
    /\ \E x \in Ahead(t) :
          /\ Take(t, x)
          /\ pos' = [pos EXCEPT ![t] = offset[SlotOfTuple(x)]]
          /\ offset' = [offset EXCEPT ![SlotOfTuple(x)] = @ + 1]
    /\ pc' = [pc EXCEPT ![t] = "write"]
    /\ UNCHANGED <<phase, unclaimed, part, tag, bloom, adjacency, loopVars>>

\* adjacency[target_pos] = ts[i]: an unsynchronised store
WriteAdjacency(t) ==
    /\ pc[t] = "write"
    /\ adjacency' = [adjacency EXCEPT ![pos[t]] = cur[t]]
    /\ pc' = [pc EXCEPT ![t] = "next"]
    /\ cur' = [cur EXCEPT ![t] = None]
    /\ UNCHANGED <<phase, unclaimed, part, todo, pos, offset, tag, bloom, loopVars>>

\* MUTANT: the reduction keeps the last partition's count only.
EndPartitionLast(t) ==
    /\ pc[t] = "next"
    /\ Ahead(t) = {}
    /\ total' = IF phase = "count"
                THEN Cardinality({x \in Tuple : PartOf[x] = part[t]})
                ELSE total
    /\ part' = [part EXCEPT ![t] = None]
    /\ pc' = [pc EXCEPT ![t] = "idle"]
    /\ UNCHANGED <<phase, unclaimed, todo, cur, pos, tableVars, loop, current_offset>>

\* The chunk list is exhausted; the count phase adds p_count to the reduction.
EndPartition(t) ==
    /\ pc[t] = "next"
    /\ Ahead(t) = {}
    /\ total' = IF phase = "count"
                THEN total + Cardinality({x \in Tuple : PartOf[x] = part[t]})
                ELSE total
    /\ part' = [part EXCEPT ![t] = None]
    /\ pc' = [pc EXCEPT ![t] = "idle"]
    /\ UNCHANGED <<phase, unclaimed, todo, cur, pos, tableVars, loop, current_offset>>

-----------------------------------------------------------------------------
(* The sequential code between the parallel loops. *)

\* The barrier that ends a parallel loop.
AllAtBarrier == unclaimed = {} /\ \A t \in Thread : pc[t] = "idle"

\* adjacency.resize(total_tuples_sum)
ResizeAdjacency ==
    /\ phase = "count"
    /\ AllAtBarrier
    /\ adjacency' = [p \in 0 .. (total - 1) |-> None]
    /\ phase' = "prefix"
    /\ loop' = 0
    /\ current_offset' = 0
    /\ UNCHANGED <<threadVars, offset, tag, bloom, total>>

\* MUTANT: an inclusive prefix sum.
PrefixStepInclusive ==
    /\ phase = "prefix"
    /\ loop < DirSize
    /\ offset' = [offset EXCEPT ![loop] = current_offset + @]
    /\ current_offset' = current_offset + offset[loop]
    /\ loop' = loop + 1
    /\ UNCHANGED <<phase, threadVars, tag, bloom, adjacency, total>>

\* One iteration of the exclusive prefix sum.
PrefixStep ==
    /\ phase = "prefix"
    /\ loop < DirSize
    /\ offset' = [offset EXCEPT ![loop] = current_offset]
    /\ current_offset' = current_offset + offset[loop]
    /\ loop' = loop + 1
    /\ UNCHANGED <<phase, threadVars, tag, bloom, adjacency, total>>

\* The placement loop starts over all partitions.
StartPlacement ==
    /\ phase = "prefix"
    /\ loop = DirSize
    /\ phase' = "place"
    /\ unclaimed' = Partition
    /\ todo' = Tuple
    /\ UNCHANGED <<part, pc, cur, pos, tableVars, loopVars>>

StartSlide ==
    /\ phase = "place"
    /\ AllAtBarrier
    /\ phase' = "slide"
    /\ loop' = DirSize - 1
    /\ UNCHANGED <<threadVars, tableVars, total, current_offset>>

\* MUTANT: an unsigned index that is never below zero.
SlideStepWraps ==
    /\ phase = "slide"
    /\ offset' = IF loop = 0 THEN offset ELSE [offset EXCEPT ![loop] = offset[loop - 1]]
    /\ loop' = IF loop = 0 THEN DirSize - 1 ELSE loop - 1
    /\ UNCHANGED <<phase, threadVars, tag, bloom, adjacency, total, current_offset>>

\* One iteration of the backward slide.
SlideStep ==
    /\ phase = "slide"
    /\ loop > 0
    /\ offset' = [offset EXCEPT ![loop] = offset[loop - 1]]
    /\ loop' = loop - 1
    /\ UNCHANGED <<phase, threadVars, tag, bloom, adjacency, total, current_offset>>

SlideFirst ==
    /\ phase = "slide"
    /\ loop = 0
    /\ offset' = [offset EXCEPT ![0] = 0]
    /\ phase' = "done"
    /\ UNCHANGED <<threadVars, tag, bloom, adjacency, loopVars>>

-----------------------------------------------------------------------------
ThreadStep(t) ==
    \/ Claim(t)
    \/ CountAdd(t)
    \/ OrTag(t)
    \/ SetBloom1(t)
    \/ SetBloom2(t)
    \/ FetchAdd(t)
    \/ WriteAdjacency(t)
    \/ EndPartition(t)

Sequential ==
    \/ ResizeAdjacency
    \/ PrefixStep
    \/ StartPlacement
    \/ StartSlide
    \/ SlideStep
    \/ SlideFirst

Done == phase = "done" /\ UNCHANGED vars

Next == (\E t \in Thread : ThreadStep(t)) \/ Sequential \/ Done

Spec == Init /\ [][Next]_vars

\* The operating system runs every thread of the team, and the initial thread
\* between the parallel regions; no thread ever blocks but at a barrier.
FairSpec ==
    /\ Spec
    /\ \A t \in Thread : WF_vars(ThreadStep(t))
    /\ WF_vars(Sequential)

-----------------------------------------------------------------------------
(* find: a lookup once the build is over. *)

BloomMayContain(k) == {Bloom1(k), Bloom2(k)} \subseteq bloom
TagMayContain(k) == TagOf(k) \subseteq tag[SlotOf(k)]

Begin(s) == offset[s]
End(s) == IF s + 1 = DirSize THEN total ELSE offset[s + 1]

\* The positions whose values find(k) returns.
FindPositions(k) ==
    IF BloomMayContain(k) /\ TagMayContain(k)
    THEN {p \in Begin(SlotOf(k)) .. (End(SlotOf(k)) - 1) : KeyOf[adjacency[p]] = k}
    ELSE {}

-----------------------------------------------------------------------------
(* Properties. *)

\* Values of the variables the parallel build works on.
TypeOK ==
    /\ phase \in {"count", "prefix", "place", "slide", "done"}
    /\ unclaimed \subseteq Partition
    /\ part \in [Thread -> Partition \union {None}]
    /\ todo \subseteq Tuple
    /\ pc \in [Thread -> {"idle", "next", "tag", "bloom1", "bloom2", "write"}]
    /\ cur \in [Thread -> Tuple \union {None}]
    /\ pos \in [Thread -> Nat]
    /\ offset \in [Slot -> Nat]
    /\ tag \in [Slot -> SUBSET TagBit]
    /\ bloom \subseteq 0 .. (BloomBits - 1)
    /\ total \in Nat
    /\ loop \in 0 .. DirSize
    /\ current_offset \in Nat
    /\ IF phase = "count"
       THEN adjacency = [p \in {} |-> None]
       ELSE adjacency \in [0 .. (Cardinality(Tuple) - 1) -> Tuple \union {None}]

\* The plain stores of the placement never race: a position a thread is about
\* to write lies inside adjacency, in no other thread's hands, and nothing has
\* been stored there (UnchainedHash.h: fetch_add and store are two steps).
ExclusiveWrites ==
    \A t \in Thread : pc[t] = "write" =>
        /\ pos[t] \in Position
        /\ adjacency[pos[t]] = None
        /\ \A u \in Thread \ {t} : pc[u] = "write" => pos[u] # pos[t]

\* A tuple that is stored lies in the region find searches for its slot, for
\* every slot boundary the prefix sum has fixed.
StoredInSlotRegion ==
    phase \in {"place", "slide", "done"} =>
        \A p \in Position : adjacency[p] # None =>
            LET s == SlotOfTuple(adjacency[p])
            IN  /\ Cardinality({x \in Tuple : SlotOfTuple(x) < s}) <= p
                /\ p < Cardinality({x \in Tuple : SlotOfTuple(x) <= s})

\* After the build, find(k) returns the tuples of key k: all of them, nothing
\* else, none twice.  Neither the Bloom filter nor the tag loses a key, though
\* their bits are set by atomics that interleave with other threads'.
FindExact ==
    phase = "done" => \A k \in Key :
        LET P == FindPositions(k)
        IN  /\ {adjacency[p] : p \in P} = {x \in Tuple : KeyOf[x] = k}
            /\ \A p, q \in P : adjacency[p] = adjacency[q] => p = q

\* The build ends.
BuildEnds == <>(phase = "done")
=============================================================================
