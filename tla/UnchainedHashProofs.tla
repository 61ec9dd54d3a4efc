------------------------ MODULE UnchainedHashProofs ------------------------
(***************************************************************************)
(* Proofs about UnchainedHash for every team of threads, every set of      *)
(* tuples and every hash function: the build is free of races between the  *)
(* stores and a lookup after it is exact.                                  *)
(***************************************************************************)
EXTENDS UnchainedHash, FiniteSetTheorems, TLAPS

Bucket(s) == {x \in Tuple : SlotOfTuple(x) = s}
Below(s) == {x \in Tuple : SlotOfTuple(x) < s}

\* The first position of slot s, and the number of its tuples taken so far.
First(s) == Cardinality(Below(s))
Taken(s) == Cardinality(Bucket(s) \ todo)

Holding == {"tag", "bloom1", "bloom2", "write"}

\* What a thread holds agrees with its program counter and the phase.
ThreadInv ==
    /\ \A t \in Thread :
        /\ pc[t] = "idle" <=> part[t] = None
        /\ pc[t] \in Holding <=> cur[t] # None
        /\ pc[t] \in {"tag", "bloom1", "bloom2"} => phase = "count"
        /\ pc[t] = "write" => phase = "place"
        /\ pc[t] # "idle" => phase \in {"count", "place"}
        /\ cur[t] \notin todo
    /\ \A t, u \in Thread : t # u /\ cur[t] # None => cur[t] # cur[u]
    /\ phase \notin {"count", "place"} => todo = {} /\ unclaimed = {}

\* Every partition is handed out once, and no tuple of it is left behind.
PartitionInv ==
    /\ \A t \in Thread : part[t] # None => part[t] \notin unclaimed
    /\ \A t, u \in Thread : t # u /\ part[t] # None => part[t] # part[u]
    /\ \A x \in todo : PartOf[x] \in unclaimed \/ \E t \in Thread : part[t] = PartOf[x]

Finished == {x \in Tuple : PartOf[x] \notin unclaimed /\ \A t \in Thread : part[t] # PartOf[x]}

TotalInv == total = IF phase = "count" THEN Cardinality(Finished) ELSE Cardinality(Tuple)

\* What the offsets of the directory mean in each phase.
OffsetInv ==
    /\ phase = "count" => \A s \in Slot : offset[s] = Taken(s)
    /\ phase = "prefix" =>
        /\ current_offset = First(loop)
        /\ \A s \in Slot : offset[s] = IF s < loop THEN First(s) ELSE Cardinality(Bucket(s))
    /\ phase = "place" => \A s \in Slot : offset[s] = First(s) + Taken(s)
    /\ phase = "slide" =>
        /\ loop < DirSize
        /\ \A s \in Slot : offset[s] = IF s <= loop THEN First(s + 1) ELSE First(s)
    /\ phase = "done" => \A s \in Slot : offset[s] = First(s)

TagSet(x) == TagOf(KeyOf[x]) \subseteq tag[SlotOfTuple(x)]
BloomSet(x) == {Bloom1(KeyOf[x]), Bloom2(KeyOf[x])} \subseteq bloom

\* The filters hold every tuple that the count phase is through with.
FilterInv ==
    /\ \A x \in Tuple :
          phase # "count" \/ (x \notin todo /\ \A t \in Thread : cur[t] # x)
            => TagSet(x) /\ BloomSet(x)
    /\ \A t \in Thread :
          /\ pc[t] \in {"bloom1", "bloom2"} => TagSet(cur[t])
          /\ pc[t] = "bloom2" => Bloom1(KeyOf[cur[t]]) \in bloom

\* A position of slot s that the placement has handed out.
Handed(p, s) == First(s) <= p /\ p < First(s) + Taken(s)

AdjacencyInv ==
    /\ phase = "prefix" => \A p \in Position : adjacency[p] = None
    /\ phase \in {"place", "slide", "done"} =>
        /\ \A p \in Position : adjacency[p] # None =>
              /\ Handed(p, SlotOfTuple(adjacency[p]))
              /\ adjacency[p] \notin todo
              /\ \A t \in Thread : cur[t] # adjacency[p]
        /\ \A p, q \in Position :
              adjacency[p] # None /\ adjacency[p] = adjacency[q] => p = q
        /\ \A x \in Tuple \ todo :
              (\E t \in Thread : cur[t] = x) \/ (\E p \in Position : adjacency[p] = x)

WriteInv ==
    /\ \A t \in Thread : pc[t] = "write" =>
          Handed(pos[t], SlotOfTuple(cur[t])) /\ adjacency[pos[t]] = None
    /\ \A t, u \in Thread : t # u /\ pc[t] = "write" /\ pc[u] = "write" => pos[t] # pos[u]

IInv ==
    /\ TypeOK
    /\ ThreadInv
    /\ PartitionInv
    /\ TotalInv
    /\ OffsetInv
    /\ FilterInv
    /\ AdjacencyInv
    /\ WriteInv

-----------------------------------------------------------------------------
(* Arithmetic and counting. *)

\* The slot, the tag and the Bloom bits of a key are in range.
LEMMA KeyBits ==
    ASSUME NEW k \in Key
    PROVE  /\ SlotOf(k) \in Slot
           /\ TagOf(k) \subseteq TagBit
           /\ Bloom1(k) \in 0 .. (BloomBits - 1)
           /\ Bloom2(k) \in 0 .. (BloomBits - 1)
<1> DEFINE h == HashOf[k]
<1>1. h \in Nat
  BY ConstantsAssumption
<1>2. /\ h % DirSize \in 0 .. (DirSize - 1)
      /\ h % 16 \in 0 .. 15
  BY <1>1, ConstantsAssumption
<1>3. /\ (h \div 16) % 16 \in 0 .. 15
      /\ (h \div 256) % 16 \in 0 .. 15
      /\ (h \div 4096) % 16 \in 0 .. 15
  BY <1>1
<1>4. ASSUME NEW b \in Nat
      PROVE  b % BloomBits \in 0 .. (BloomBits - 1)
  BY ConstantsAssumption
<1>5. BloomHash1(h) \in Nat /\ BloomHash2(h) \in Nat
  BY ConstantsAssumption
<1> QED
  BY <1>2, <1>3, <1>4, <1>5 DEF SlotOf, Slot, TagOf, TagBit, Bloom1, Bloom2

\* The slot of a tuple.
LEMMA TupleSlot ==
    ASSUME NEW x \in Tuple
    PROVE  KeyOf[x] \in Key /\ SlotOfTuple(x) \in Slot
BY KeyBits, ConstantsAssumption DEF SlotOfTuple

\* Sets of tuples are finite.
LEMMA TupleSets ==
    ASSUME NEW S \in SUBSET Tuple
    PROVE  IsFiniteSet(S) /\ Cardinality(S) \in Nat /\ Cardinality(S) <= Cardinality(Tuple)
<1>1. IsFiniteSet(Tuple)
  BY ConstantsAssumption
<1>2. IsFiniteSet(S) /\ Cardinality(S) <= Cardinality(Tuple)
  BY <1>1, FS_Subset
<1> QED
  BY <1>2, FS_CardinalityType

\* The regions of the slots follow each other without a gap.
LEMMA Regions ==
    ASSUME NEW s \in Slot
    PROVE  First(s) \in Nat /\ Cardinality(Bucket(s)) \in Nat
           /\ First(s + 1) = First(s) + Cardinality(Bucket(s))
<1>1. Below(s) \subseteq Tuple /\ Bucket(s) \subseteq Tuple
  BY DEF Below, Bucket
<1>2. Below(s + 1) = Below(s) \union Bucket(s) /\ Below(s) \intersect Bucket(s) = {}
  BY TupleSlot DEF Below, Bucket, Slot
<1>3. IsFiniteSet(Below(s)) /\ IsFiniteSet(Bucket(s))
      /\ Cardinality(Below(s)) \in Nat /\ Cardinality(Bucket(s)) \in Nat
  BY <1>1, TupleSets
<1>4. Cardinality(Below(s + 1))
        = Cardinality(Below(s)) + Cardinality(Bucket(s)) - Cardinality(Below(s) \intersect Bucket(s))
  BY <1>2, <1>3, FS_Union
<1>5. Cardinality(Below(s) \intersect Bucket(s)) = 0
  BY <1>2, FS_EmptySet
<1> QED
  BY <1>3, <1>4, <1>5 DEF First

\* A later slot starts no earlier than an earlier slot ends.
LEMMA RegionsAscend ==
    ASSUME NEW s \in Slot, NEW r \in Slot, s < r
    PROVE  First(s + 1) <= First(r) /\ First(r) \in Nat
<1>1. Below(s + 1) \subseteq Below(r) /\ Below(r) \subseteq Tuple
  BY TupleSlot DEF Below, Slot
<1>2. IsFiniteSet(Below(r)) /\ Cardinality(Below(r)) \in Nat
  BY <1>1, TupleSets
<1> QED
  BY <1>1, <1>2, FS_Subset DEF First

\* The first region starts at zero and the last one ends with the last tuple.
LEMMA RegionEnds ==
    First(0) = 0 /\ First(DirSize) = Cardinality(Tuple)
<1>1. Below(0) = {} /\ Below(DirSize) = Tuple
  BY TupleSlot, ConstantsAssumption DEF Below, Slot
<1> QED
  BY <1>1, FS_EmptySet DEF First

\* Every region lies within the adjacency array.
LEMMA RegionFits ==
    ASSUME NEW s \in Slot
    PROVE  First(s + 1) \in Nat /\ First(s + 1) <= Cardinality(Tuple)
BY TupleSets DEF First, Below

\* Taking a tuple adds one to what its slot has taken, and no slot takes more
\* than it has.
LEMMA TakenBound ==
    ASSUME NEW s \in Slot
    PROVE  Taken(s) \in Nat /\ Taken(s) <= Cardinality(Bucket(s))
<1>1. Bucket(s) \subseteq Tuple /\ Bucket(s) \ todo \subseteq Bucket(s)
  BY DEF Bucket
<1> QED
  BY <1>1, TupleSets, FS_Subset DEF Taken

\* A tuple that is taken is one more of its slot's, and no other slot's.
LEMMA TakenGrows ==
    ASSUME NEW x \in todo, todo \subseteq Tuple, todo' = todo \ {x}
    PROVE  /\ Taken(SlotOfTuple(x))' = Taken(SlotOfTuple(x)) + 1
           /\ Taken(SlotOfTuple(x)) < Cardinality(Bucket(SlotOfTuple(x)))
           /\ \A s \in Slot \ {SlotOfTuple(x)} : Taken(s)' = Taken(s)
<1> DEFINE B(s) == Bucket(s)
           r == SlotOfTuple(x)
<1>1. B(r) \subseteq Tuple /\ x \in B(r) /\ x \notin B(r) \ todo
  BY DEF Bucket
<1>2. B(r) \ todo' = (B(r) \ todo) \union {x}
  BY <1>1
<1>3. IsFiniteSet(B(r)) /\ IsFiniteSet(B(r) \ todo) /\ Cardinality(B(r)) \in Nat
      /\ Cardinality(B(r) \ todo) \in Nat
  BY <1>1, TupleSets
<1>4. Cardinality(B(r) \ todo') = Cardinality(B(r) \ todo) + 1
  BY <1>1, <1>2, <1>3, FS_AddElement
<1>5. Cardinality(B(r) \ todo') <= Cardinality(B(r))
  BY <1>3, FS_Subset
<1>6. ASSUME NEW s \in Slot \ {r}
      PROVE  B(s) \ todo' = B(s) \ todo
  BY DEF Bucket
<1> QED
  BY <1>3, <1>4, <1>5, <1>6 DEF Taken, Bucket

-----------------------------------------------------------------------------
(* The invariant holds initially and is preserved by every step. *)

\* The table before the build satisfies the invariant.
LEMMA InitInv == Init => IInv
<1> SUFFICES ASSUME Init
             PROVE  IInv
  OBVIOUS
<1>1. TypeOK
  BY ConstantsAssumption DEF Init, TypeOK, Slot, TagBit
<1>2. ThreadInv
  BY ConstantsAssumption DEF Init, ThreadInv, Holding
<1>3. PartitionInv
  BY ConstantsAssumption DEF Init, PartitionInv
<1>4. TotalInv
  <2>1. Finished = {}
    BY ConstantsAssumption DEF Init, Finished
  <2> QED
    BY <2>1, FS_EmptySet DEF Init, TotalInv
<1>5. OffsetInv
  <2>1. ASSUME NEW s \in Slot
        PROVE  Taken(s) = 0
    <3>1. Bucket(s) \ todo = {}
      BY DEF Init, Bucket
    <3> QED
      BY <3>1, FS_EmptySet DEF Taken
  <2> QED
    BY <2>1 DEF Init, OffsetInv
<1>6. FilterInv
  BY DEF Init, FilterInv
<1>7. AdjacencyInv
  BY DEF Init, AdjacencyInv
<1>8. WriteInv
  BY DEF Init, WriteInv
<1> QED
  BY <1>1, <1>2, <1>3, <1>4, <1>5, <1>6, <1>7, <1>8 DEF IInv

\* The tuple of a thread that holds one.
LEMMA Held ==
    ASSUME IInv, NEW t \in Thread, pc[t] \in Holding
    PROVE  cur[t] \in Tuple /\ KeyOf[cur[t]] \in Key /\ SlotOfTuple(cur[t]) \in Slot
<1>1. cur[t] \in Tuple
  BY DEF IInv, TypeOK, ThreadInv
<1> QED
  BY <1>1, TupleSlot

\* At the barrier of a parallel loop no tuple is left.
LEMMA Barrier ==
    ASSUME IInv, AllAtBarrier
    PROVE  todo = {} /\ (\A t \in Thread : part[t] = None /\ cur[t] = None) /\ Finished = Tuple
<1>1. \A t \in Thread : part[t] = None /\ cur[t] = None
  BY DEF IInv, ThreadInv, AllAtBarrier, Holding
<1>2. todo = {}
  BY <1>1, ConstantsAssumption DEF IInv, TypeOK, PartitionInv, AllAtBarrier
<1>3. Finished = Tuple
  BY <1>1, ConstantsAssumption DEF Finished, AllAtBarrier
<1> QED
  BY <1>1, <1>2, <1>3

\* Every step keeps the types.
LEMMA TypePreserved == IInv /\ Next => TypeOK'
<1> SUFFICES ASSUME IInv, Next
             PROVE  TypeOK'
  OBVIOUS
<1> USE DEF IInv, TypeOK, threadVars, tableVars, loopVars
<1>1. ASSUME NEW t \in Thread, Claim(t)
      PROVE  TypeOK'
  BY <1>1 DEF Claim
<1>2. ASSUME NEW t \in Thread, CountAdd(t)
      PROVE  TypeOK'
  BY <1>2, TupleSlot DEF CountAdd, Take, Ahead
<1>3. ASSUME NEW t \in Thread, OrTag(t)
      PROVE  TypeOK'
  <2>1. /\ SlotOfTuple(cur[t]) \in Slot
        /\ TagOf(KeyOf[cur[t]]) \subseteq TagBit
    BY <1>3, Held, KeyBits DEF OrTag, Holding
  <2>2. tag' \in [Slot -> SUBSET TagBit]
    BY <1>3, <2>1 DEF OrTag
  <2> QED
    BY <1>3, <2>2 DEF OrTag
<1>4. ASSUME NEW t \in Thread, SetBloom1(t)
      PROVE  TypeOK'
  <2>1. Bloom1(KeyOf[cur[t]]) \in 0 .. (BloomBits - 1)
    BY <1>4, Held, KeyBits DEF SetBloom1, Holding
  <2> QED
    BY <1>4, <2>1 DEF SetBloom1
<1>5. ASSUME NEW t \in Thread, SetBloom2(t)
      PROVE  TypeOK'
  <2>1. Bloom2(KeyOf[cur[t]]) \in 0 .. (BloomBits - 1)
    BY <1>5, Held, KeyBits DEF SetBloom2, Holding
  <2> QED
    BY <1>5, <2>1 DEF SetBloom2
<1>6. ASSUME NEW t \in Thread, FetchAdd(t)
      PROVE  TypeOK'
  BY <1>6, TupleSlot DEF FetchAdd, Take, Ahead
<1>7. ASSUME NEW t \in Thread, WriteAdjacency(t)
      PROVE  TypeOK'
  <2>1. cur[t] \in Tuple /\ phase = "place"
    BY <1>7, Held DEF WriteAdjacency, Holding, ThreadInv
  <2> QED
    BY <1>7, <2>1 DEF WriteAdjacency
<1>8. ASSUME NEW t \in Thread, EndPartition(t)
      PROVE  TypeOK'
  <2>1. Cardinality({x \in Tuple : PartOf[x] = part[t]}) \in Nat
    BY TupleSets
  <2> QED
    BY <1>8, <2>1 DEF EndPartition
<1>9. CASE ResizeAdjacency
  <2>1. total = Cardinality(Tuple)
    BY <1>9, Barrier DEF ResizeAdjacency, TotalInv
  <2> QED
    BY <1>9, <2>1, ConstantsAssumption DEF ResizeAdjacency
<1>10. CASE PrefixStep
  BY <1>10, ConstantsAssumption DEF PrefixStep, Slot
<1>11. CASE StartPlacement
  BY <1>11 DEF StartPlacement
<1>12. CASE StartSlide
  BY <1>12, ConstantsAssumption DEF StartSlide
<1>13. CASE SlideStep
  <2>1. loop \in Slot /\ loop - 1 \in Slot
    BY <1>13, ConstantsAssumption DEF SlideStep, Slot, OffsetInv
  <2> QED
    BY <1>13, <2>1, ConstantsAssumption DEF SlideStep
<1>14. CASE SlideFirst
  BY <1>14, ConstantsAssumption DEF SlideFirst, Slot
<1>15. CASE Done
  BY <1>15 DEF Done, vars
<1> QED
  BY <1>1, <1>2, <1>3, <1>4, <1>5, <1>6, <1>7, <1>8, <1>9, <1>10, <1>11, <1>12, <1>13,
     <1>14, <1>15 DEF Next, ThreadStep, Sequential

\* Every step keeps what a thread holds in agreement with its place in the code.
LEMMA ThreadPreserved == IInv /\ Next => ThreadInv'
<1> SUFFICES ASSUME IInv, Next
             PROVE  ThreadInv'
  OBVIOUS
<1> USE DEF IInv, TypeOK, ThreadInv, Holding, threadVars, tableVars, loopVars
<1>1. ASSUME NEW t \in Thread, Claim(t)
      PROVE  ThreadInv'
  BY <1>1, ConstantsAssumption DEF Claim
<1>2. ASSUME NEW t \in Thread, CountAdd(t)
      PROVE  ThreadInv'
  BY <1>2, ConstantsAssumption DEF CountAdd, Take, Ahead
<1>3. ASSUME NEW t \in Thread, OrTag(t)
      PROVE  ThreadInv'
  BY <1>3 DEF OrTag
<1>4. ASSUME NEW t \in Thread, SetBloom1(t)
      PROVE  ThreadInv'
  BY <1>4 DEF SetBloom1
<1>5. ASSUME NEW t \in Thread, SetBloom2(t)
      PROVE  ThreadInv'
  BY <1>5, ConstantsAssumption DEF SetBloom2
<1>6. ASSUME NEW t \in Thread, FetchAdd(t)
      PROVE  ThreadInv'
  BY <1>6, ConstantsAssumption DEF FetchAdd, Take, Ahead
<1>7. ASSUME NEW t \in Thread, WriteAdjacency(t)
      PROVE  ThreadInv'
  BY <1>7, ConstantsAssumption DEF WriteAdjacency
<1>8. ASSUME NEW t \in Thread, EndPartition(t)
      PROVE  ThreadInv'
  BY <1>8, ConstantsAssumption DEF EndPartition
<1>9. CASE ResizeAdjacency
  BY <1>9, Barrier DEF ResizeAdjacency, AllAtBarrier
<1>10. CASE PrefixStep
  BY <1>10 DEF PrefixStep
<1>11. CASE StartPlacement
  BY <1>11, ConstantsAssumption DEF StartPlacement
<1>12. CASE StartSlide
  BY <1>12, Barrier DEF StartSlide, AllAtBarrier
<1>13. CASE SlideStep
  BY <1>13 DEF SlideStep
<1>14. CASE SlideFirst
  BY <1>14 DEF SlideFirst
<1>15. CASE Done
  BY <1>15 DEF Done, vars
<1> QED
  BY <1>1, <1>2, <1>3, <1>4, <1>5, <1>6, <1>7, <1>8, <1>9, <1>10, <1>11, <1>12, <1>13,
     <1>14, <1>15 DEF Next, ThreadStep, Sequential

\* Every step keeps a partition with one thread at most, and no tuple of it left behind.
LEMMA PartitionPreserved == IInv /\ Next => PartitionInv'
<1> SUFFICES ASSUME IInv, Next
             PROVE  PartitionInv'
  OBVIOUS
<1> USE DEF IInv, TypeOK, PartitionInv, threadVars, tableVars, loopVars
<1>1. ASSUME NEW t \in Thread, Claim(t)
      PROVE  PartitionInv'
  BY <1>1, ConstantsAssumption DEF Claim, ThreadInv
<1>2. ASSUME NEW t \in Thread, CountAdd(t) \/ FetchAdd(t)
      PROVE  PartitionInv'
  BY <1>2 DEF CountAdd, FetchAdd, Take, Ahead
<1>3. ASSUME NEW t \in Thread,
             OrTag(t) \/ SetBloom1(t) \/ SetBloom2(t) \/ WriteAdjacency(t)
      PROVE  PartitionInv'
  BY <1>3 DEF OrTag, SetBloom1, SetBloom2, WriteAdjacency
<1>4. ASSUME NEW t \in Thread, EndPartition(t)
      PROVE  PartitionInv'
  BY <1>4 DEF EndPartition, Ahead
<1>5. CASE StartPlacement
  <2>1. \A t \in Thread : part[t] = None
    BY <1>5 DEF StartPlacement, ThreadInv
  <2> QED
    BY <1>5, <2>1, ConstantsAssumption DEF StartPlacement
<1>6. CASE ResizeAdjacency \/ PrefixStep \/ StartSlide \/ SlideStep \/ SlideFirst \/ Done
  BY <1>6 DEF ResizeAdjacency, PrefixStep, StartSlide, SlideStep, SlideFirst, Done, vars
<1> QED
  BY <1>1, <1>2, <1>3, <1>4, <1>5, <1>6 DEF Next, ThreadStep, Sequential

\* Every step keeps total the number of tuples in the finished partitions.
LEMMA TotalPreserved == IInv /\ Next => TotalInv'
<1> SUFFICES ASSUME IInv, Next
             PROVE  TotalInv'
  OBVIOUS
<1> USE DEF IInv, TypeOK, TotalInv, threadVars, tableVars, loopVars
<1>1. ASSUME NEW t \in Thread, Claim(t)
      PROVE  TotalInv'
  <2>1. Finished' = Finished
    BY <1>1, ConstantsAssumption DEF Claim, Finished, ThreadInv, PartitionInv
  <2> QED
    BY <1>1, <2>1 DEF Claim
<1>2. ASSUME NEW t \in Thread,
             CountAdd(t) \/ OrTag(t) \/ SetBloom1(t) \/ SetBloom2(t) \/ FetchAdd(t)
             \/ WriteAdjacency(t)
      PROVE  TotalInv'
  <2>1. Finished' = Finished
    BY <1>2 DEF CountAdd, OrTag, SetBloom1, SetBloom2, FetchAdd, WriteAdjacency, Finished
  <2> QED
    BY <1>2, <2>1 DEF CountAdd, OrTag, SetBloom1, SetBloom2, FetchAdd, WriteAdjacency
<1>3. ASSUME NEW t \in Thread, EndPartition(t)
      PROVE  TotalInv'
  <2> DEFINE S == {x \in Tuple : PartOf[x] = part[t]}
  <2>1. part[t] # None /\ part[t] \notin unclaimed
    BY <1>3 DEF EndPartition, ThreadInv, PartitionInv
  <2>2. Finished' = Finished \union S /\ Finished \intersect S = {}
    BY <1>3, <2>1, ConstantsAssumption DEF EndPartition, Finished, PartitionInv
  <2>3. /\ IsFiniteSet(Finished) /\ IsFiniteSet(S)
        /\ Cardinality(Finished) \in Nat /\ Cardinality(S) \in Nat
    BY TupleSets DEF Finished
  <2>4. Cardinality(Finished \union S)
          = Cardinality(Finished) + Cardinality(S) - Cardinality(Finished \intersect S)
    BY <2>3, FS_Union
  <2>5. Cardinality(Finished \intersect S) = 0
    BY <2>2, FS_EmptySet
  <2>6. Cardinality(Finished)' = Cardinality(Finished) + Cardinality(S)
    BY <2>2, <2>3, <2>4, <2>5
  <2> QED
    BY <1>3, <2>6 DEF EndPartition
<1>4. CASE ResizeAdjacency
  BY <1>4, Barrier DEF ResizeAdjacency
<1>5. CASE PrefixStep \/ StartPlacement \/ StartSlide \/ SlideStep \/ SlideFirst
  BY <1>5 DEF PrefixStep, StartPlacement, StartSlide, SlideStep, SlideFirst
<1>6. CASE Done
  BY <1>6 DEF Done, vars, Finished
<1> QED
  BY <1>1, <1>2, <1>3, <1>4, <1>5, <1>6 DEF Next, ThreadStep, Sequential

\* Every step keeps the offsets what they mean in its phase.
LEMMA OffsetPreserved == IInv /\ Next => OffsetInv'
<1> SUFFICES ASSUME IInv, Next
             PROVE  OffsetInv'
  OBVIOUS
<1> USE DEF IInv, TypeOK, OffsetInv, threadVars, tableVars, loopVars
<1>0. ASSUME todo' = todo
      PROVE  \A s \in Slot : Taken(s)' = Taken(s)
  BY <1>0 DEF Taken, Bucket
<1>1. ASSUME NEW t \in Thread,
             Claim(t) \/ OrTag(t) \/ SetBloom1(t) \/ SetBloom2(t) \/ WriteAdjacency(t)
             \/ EndPartition(t)
      PROVE  OffsetInv'
  <2>1. /\ todo' = todo /\ phase' = phase /\ offset' = offset
        /\ loop' = loop /\ current_offset' = current_offset
    BY <1>1 DEF Claim, OrTag, SetBloom1, SetBloom2, WriteAdjacency, EndPartition
  <2> QED
    BY <1>0, <2>1
<1>2. ASSUME NEW t \in Thread, CountAdd(t) \/ FetchAdd(t)
      PROVE  OffsetInv'
  <2>1. PICK x \in todo : /\ todo' = todo \ {x}
                          /\ offset' = [offset EXCEPT ![SlotOfTuple(x)] = @ + 1]
    BY <1>2 DEF CountAdd, FetchAdd, Take, Ahead
  <2>2. /\ Taken(SlotOfTuple(x))' = Taken(SlotOfTuple(x)) + 1
        /\ \A s \in Slot \ {SlotOfTuple(x)} : Taken(s)' = Taken(s)
    BY <2>1, TakenGrows
  <2>3. \A s \in Slot : First(s)' = First(s) /\ First(s) \in Nat /\ Taken(s) \in Nat
    BY Regions, TakenBound DEF First, Below
  <2>4. SlotOfTuple(x) \in Slot
    BY TupleSlot
  <2> QED
    BY <1>2, <2>1, <2>2, <2>3, <2>4 DEF CountAdd, FetchAdd
<1>3. CASE ResizeAdjacency
  <2>1. todo = {}
    BY <1>3, Barrier DEF ResizeAdjacency
  <2>2. \A s \in Slot : Taken(s) = Cardinality(Bucket(s))
    BY <2>1 DEF Taken
  <2> QED
    BY <1>3, <2>2, RegionEnds DEF ResizeAdjacency, First, Below, Bucket, Slot
<1>4. CASE PrefixStep
  <2>1. loop \in Slot
    BY <1>4, ConstantsAssumption DEF PrefixStep, Slot
  <2>2. offset[loop] = Cardinality(Bucket(loop)) /\ current_offset = First(loop)
    BY <1>4, <2>1 DEF PrefixStep, Slot
  <2>3. current_offset' = First(loop')
    BY <1>4, <2>1, <2>2, Regions DEF PrefixStep
  <2>4. \A s \in Slot : offset'[s] = IF s < loop + 1 THEN First(s) ELSE Cardinality(Bucket(s))
    BY <1>4, <2>1, <2>2 DEF PrefixStep, Slot
  <2> QED
    BY <1>4, <2>3, <2>4 DEF PrefixStep, First, Below, Bucket
<1>5. CASE StartPlacement
  <2>1. \A s \in Slot : Taken(s)' = 0
    <3>1. ASSUME NEW s \in Slot
          PROVE  Bucket(s) \ todo' = {}
      BY <1>5 DEF StartPlacement, Bucket
    <3>2. ASSUME NEW s \in Slot
          PROVE  Taken(s)' = Cardinality(Bucket(s) \ todo')
      BY DEF Taken, Bucket
    <3> QED
      BY <3>1, <3>2, FS_EmptySet
  <2>2. \A s \in Slot : offset[s] = First(s) /\ First(s) \in Nat
    BY <1>5, Regions DEF StartPlacement, Slot
  <2> QED
    BY <1>5, <2>1, <2>2 DEF StartPlacement, First, Below
<1>6. CASE StartSlide
  <2>1. todo = {}
    BY <1>6, Barrier DEF StartSlide
  <2>2. \A s \in Slot : offset[s] = First(s + 1)
    BY <1>6, <2>1, Regions DEF StartSlide, Taken
  <2> QED
    BY <1>6, <2>2, ConstantsAssumption DEF StartSlide, First, Below, Slot
<1>7. CASE SlideStep
  <2>1. loop \in Slot /\ loop - 1 \in Slot
    BY <1>7, ConstantsAssumption DEF SlideStep, Slot
  <2>2. \A s \in Slot : offset'[s] = IF s = loop THEN offset[loop - 1] ELSE offset[s]
    BY <1>7, <2>1 DEF SlideStep
  <2>3. offset[loop - 1] = First(loop)
    BY <1>7, <2>1 DEF SlideStep, Slot
  <2>4. \A s \in Slot : offset'[s] = IF s <= loop - 1 THEN First(s + 1) ELSE First(s)
    BY <1>7, <2>1, <2>2, <2>3 DEF SlideStep, Slot
  <2> QED
    BY <1>7, <2>1, <2>4, ConstantsAssumption DEF SlideStep, Slot
<1>8. CASE SlideFirst
  <2>1. \A s \in Slot : offset'[s] = First(s)
    BY <1>8, RegionEnds, ConstantsAssumption DEF SlideFirst, Slot
  <2> QED
    BY <1>8, <2>1 DEF SlideFirst, First, Below
<1>9. CASE Done
  BY <1>0, <1>9 DEF Done, vars, First, Below, Bucket
<1> QED
  BY <1>1, <1>2, <1>3, <1>4, <1>5, <1>6, <1>7, <1>8, <1>9 DEF Next, ThreadStep, Sequential

\* Every step keeps the filters those of the tuples that were counted.
LEMMA FilterPreserved == IInv /\ Next => FilterInv'
<1> SUFFICES ASSUME IInv, Next
             PROVE  FilterInv'
  OBVIOUS
<1> USE DEF IInv, TypeOK, FilterInv, ThreadInv, Holding, threadVars, tableVars, loopVars
<1>0. ASSUME tag' = tag, bloom' = bloom
      PROVE  \A x : TagSet(x)' = TagSet(x) /\ BloomSet(x)' = BloomSet(x)
  BY <1>0 DEF TagSet, BloomSet
<1>1. ASSUME NEW t \in Thread, Claim(t) \/ EndPartition(t)
      PROVE  FilterInv'
  <2>1. /\ tag' = tag /\ bloom' = bloom /\ todo' = todo /\ cur' = cur /\ phase' = phase
        /\ \A u \in Thread : pc'[u] \in {"bloom1", "bloom2"} => pc'[u] = pc[u]
    BY <1>1 DEF Claim, EndPartition
  <2> QED
    BY <1>0, <2>1
<1>2. ASSUME NEW t \in Thread, CountAdd(t)
      PROVE  FilterInv'
  <2>1. PICK x \in todo : todo' = todo \ {x} /\ cur' = [cur EXCEPT ![t] = x]
    BY <1>2 DEF CountAdd, Take, Ahead
  <2>2. /\ tag' = tag /\ bloom' = bloom /\ phase' = phase /\ phase = "count" /\ cur[t] = None
        /\ \A u \in Thread : pc'[u] \in {"bloom1", "bloom2"} => pc'[u] = pc[u] /\ u # t
    BY <1>2 DEF CountAdd
  <2>3. \A y \in Tuple : (y \notin todo' /\ \A u \in Thread : cur'[u] # y)
                           => (y \notin todo /\ \A u \in Thread : cur[u] # y)
    BY <2>1, <2>2, ConstantsAssumption
  <2>4. \A u \in Thread \ {t} : cur'[u] = cur[u]
    BY <2>1
  <2> QED
    BY <1>0, <2>2, <2>3, <2>4
<1>3. ASSUME NEW t \in Thread, OrTag(t)
      PROVE  FilterInv'
  <2>1. cur[t] \in Tuple /\ SlotOfTuple(cur[t]) \in Slot
    BY <1>3, Held DEF OrTag
  <2>2. \A s \in Slot : tag[s] \subseteq tag'[s]
    BY <1>3, <2>1 DEF OrTag
  <2>3. TagOf(KeyOf[cur[t]]) \subseteq tag'[SlotOfTuple(cur[t])]
    BY <1>3, <2>1 DEF OrTag
  <2>4. \A x \in Tuple : TagSet(x) => TagSet(x)'
    BY <2>2, TupleSlot DEF TagSet
  <2>5. TagSet(cur[t])' /\ cur' = cur /\ bloom' = bloom /\ todo' = todo /\ phase' = phase
        /\ pc' = [pc EXCEPT ![t] = "bloom1"]
    BY <1>3, <2>3 DEF OrTag, TagSet
  <2>6. \A x : BloomSet(x)' = BloomSet(x)
    BY <2>5 DEF BloomSet
  <2>7. \A u \in Thread : pc[u] \in Holding => cur[u] \in Tuple
    BY Held
  <2> QED
    BY <2>1, <2>4, <2>5, <2>6, <2>7
<1>4. ASSUME NEW t \in Thread, SetBloom1(t)
      PROVE  FilterInv'
  <2>1. /\ cur[t] \in Tuple /\ cur' = cur /\ pc' = [pc EXCEPT ![t] = "bloom2"]
        /\ tag' = tag /\ bloom \subseteq bloom' /\ todo' = todo /\ phase' = phase
        /\ Bloom1(KeyOf[cur[t]]) \in bloom'
    BY <1>4, Held DEF SetBloom1
  <2>2. \A x : TagSet(x)' = TagSet(x) /\ (BloomSet(x) => BloomSet(x)')
    BY <2>1 DEF TagSet, BloomSet
  <2>3. TagSet(cur[t])
    BY <1>4 DEF SetBloom1
  <2> QED
    BY <2>1, <2>2, <2>3
<1>9. ASSUME NEW t \in Thread, SetBloom2(t)
      PROVE  FilterInv'
  <2>1. PICK y \in Tuple : y = cur[t]
    BY <1>9, Held DEF SetBloom2
  <2>2. /\ cur' = [cur EXCEPT ![t] = None] /\ pc' = [pc EXCEPT ![t] = "next"]
        /\ tag' = tag /\ todo' = todo /\ phase' = phase
        /\ bloom' = bloom \union {Bloom2(KeyOf[y])} /\ Bloom1(KeyOf[y]) \in bloom /\ TagSet(y)
    BY <1>9, <2>1 DEF SetBloom2
  <2>3. \A x : TagSet(x)' = TagSet(x) /\ (BloomSet(x) => BloomSet(x)')
    BY <2>2 DEF TagSet, BloomSet
  <2>4. TagSet(y)' /\ BloomSet(y)'
    BY <2>2, <2>3 DEF BloomSet
  <2>5. \A x \in Tuple : x # y /\ (\A u \in Thread : cur'[u] # x)
                           => \A u \in Thread : cur[u] # x
    BY <2>1, <2>2
  <2>6. \A u \in Thread : pc'[u] \in {"bloom1", "bloom2"}
                            => u # t /\ pc'[u] = pc[u] /\ cur'[u] = cur[u]
    BY <2>2
  <2>7. \A x \in Tuple :
          phase' # "count" \/ (x \notin todo' /\ \A u \in Thread : cur'[u] # x)
            => TagSet(x)' /\ BloomSet(x)'
    BY <2>2, <2>3, <2>4, <2>5
  <2>8. ASSUME NEW u \in Thread, pc'[u] \in {"bloom1", "bloom2"}
        PROVE  TagSet(cur[u])' /\ (pc'[u] = "bloom2" => Bloom1(KeyOf[cur'[u]]) \in bloom')
    BY <2>2, <2>6, <2>8 DEF TagSet
  <2> QED
    BY <2>7, <2>8
<1>5. ASSUME NEW t \in Thread, FetchAdd(t) \/ WriteAdjacency(t)
      PROVE  FilterInv'
  <2>1. phase = "place" /\ phase' = phase /\ tag' = tag /\ bloom' = bloom
    BY <1>5 DEF FetchAdd, WriteAdjacency
  <2>2. \A u \in Thread : pc'[u] \notin {"bloom1", "bloom2"}
    BY <1>5, <2>1 DEF FetchAdd, WriteAdjacency
  <2> QED
    BY <1>0, <2>1, <2>2
<1>6. CASE ResizeAdjacency
  <2>1. todo = {} /\ \A t \in Thread : cur[t] = None
    BY <1>6, Barrier DEF ResizeAdjacency
  <2>2. \A x \in Tuple : TagSet(x) /\ BloomSet(x)
    BY <2>1, ConstantsAssumption
  <2> QED
    BY <1>0, <1>6, <2>2 DEF ResizeAdjacency, AllAtBarrier
<1>7. CASE PrefixStep \/ StartPlacement \/ StartSlide \/ SlideStep \/ SlideFirst
  <2>1. phase # "count" /\ phase' # "count" /\ tag' = tag /\ bloom' = bloom /\ pc' = pc
    BY <1>7 DEF PrefixStep, StartPlacement, StartSlide, SlideStep, SlideFirst
  <2> QED
    BY <1>0, <2>1
<1>8. CASE Done
  BY <1>0, <1>8 DEF Done, vars
<1> QED
  BY <1>1, <1>2, <1>3, <1>4, <1>5, <1>6, <1>7, <1>8, <1>9 DEF Next, ThreadStep, Sequential

\* What FetchAdd hands out: the next position of the tuple's slot, which no
\* stored tuple and no other thread has.
LEMMA FreshPosition ==
    ASSUME IInv, phase = "place", NEW x \in todo
    PROVE  LET s == SlotOfTuple(x)
           IN  /\ s \in Slot /\ offset[s] = First(s) + Taken(s)
               /\ offset[s] \in Position /\ adjacency[offset[s]] = None
               /\ \A t \in Thread : pc[t] = "write" => pos[t] # offset[s]
<1> USE DEF IInv, TypeOK
<1> DEFINE s == SlotOfTuple(x)
<1>1. s \in Slot /\ x \in Tuple
  BY TupleSlot
<1>2. offset[s] = First(s) + Taken(s)
  BY <1>1 DEF OffsetInv
<1>3. Taken(s) \in Nat /\ Taken(s) < Cardinality(Bucket(s))
  <2>1. Bucket(s) \ todo \subseteq Bucket(s) /\ x \in Bucket(s) \ (Bucket(s) \ todo)
    BY <1>1 DEF Bucket
  <2>2. IsFiniteSet(Bucket(s)) /\ Cardinality(Bucket(s)) \in Nat
    BY TupleSets DEF Bucket
  <2>3. Cardinality(Bucket(s) \ todo) # Cardinality(Bucket(s))
    BY <2>1, <2>2, FS_Subset
  <2> QED
    BY <1>1, <2>2, <2>3, TakenBound DEF Taken
<1>4. First(s) \in Nat /\ First(s + 1) = First(s) + Cardinality(Bucket(s))
      /\ First(s + 1) <= Cardinality(Tuple) /\ Cardinality(Tuple) \in Nat
      /\ Cardinality(Bucket(s)) \in Nat
  BY <1>1, Regions, RegionFits, TupleSets
<1>5. offset[s] \in Position
  BY <1>1, <1>2, <1>3, <1>4 DEF Position
<1>6. ASSUME NEW r \in Slot, NEW p \in Nat, Handed(p, r)
      PROVE  p # offset[s]
  <2>1. Taken(r) \in Nat /\ Taken(r) <= Cardinality(Bucket(r))
        /\ First(r) \in Nat /\ First(r + 1) = First(r) + Cardinality(Bucket(r))
        /\ Cardinality(Bucket(r)) \in Nat
    BY TakenBound, Regions
  <2>2. CASE r = s
    BY <1>2, <1>6, <2>2 DEF Handed
  <2>3. CASE r < s
    <3>1. First(r + 1) <= First(s)
      BY <1>1, <2>3, RegionsAscend
    <3> QED
      BY <1>2, <1>3, <1>4, <1>6, <2>1, <3>1 DEF Handed
  <2>4. CASE s < r
    <3>1. First(s + 1) <= First(r)
      BY <1>1, <2>4, RegionsAscend
    <3> QED
      BY <1>2, <1>3, <1>4, <1>6, <2>1, <3>1 DEF Handed
  <2> QED
    BY <1>1, <2>2, <2>3, <2>4 DEF Slot
<1>7. adjacency[offset[s]] = None
  <2> SUFFICES ASSUME adjacency[offset[s]] # None
               PROVE  FALSE
    OBVIOUS
  <2>1. adjacency[offset[s]] \in Tuple
    BY <1>5 DEF Position
  <2>2. Handed(offset[s], SlotOfTuple(adjacency[offset[s]]))
    BY <1>5 DEF AdjacencyInv
  <2> QED
    BY <1>1, <1>6, <2>1, <2>2, TupleSlot
<1>8. \A t \in Thread : pc[t] = "write" => pos[t] # offset[s]
  BY <1>6, Held DEF WriteInv, Holding
<1> QED
  BY <1>1, <1>2, <1>5, <1>7, <1>8

\* A handed-out position stays handed out when a tuple is taken.
LEMMA HandedStays ==
    ASSUME IInv, NEW x \in todo, todo' = todo \ {x}, NEW s \in Slot, NEW p \in Nat,
           Handed(p, s)
    PROVE  Handed(p, s)'
<1>1. Taken(s) \in Nat /\ First(s) \in Nat
  BY TakenBound, Regions
<1>3. todo \subseteq Tuple
  BY DEF IInv, TypeOK
<1>4. Taken(s)' = Taken(s) \/ Taken(s)' = Taken(s) + 1
  BY <1>3, TakenGrows
<1>2. First(s)' = First(s)
  BY DEF First, Below
<1> QED
  BY <1>1, <1>2, <1>4 DEF Handed

\* Every step keeps each written tuple in one position, in the range of its slot.
LEMMA AdjacencyPreserved == IInv /\ Next => AdjacencyInv'
<1> SUFFICES ASSUME IInv, Next
             PROVE  AdjacencyInv'
  OBVIOUS
<1> USE DEF IInv, TypeOK, Position, threadVars, tableVars, loopVars
<1>0. ASSUME todo' = todo
      PROVE  \A p, s : Handed(p, s)' = Handed(p, s)
  BY <1>0 DEF Handed, Taken, First, Bucket, Below
<1>1. ASSUME NEW t \in Thread, Claim(t) \/ OrTag(t) \/ SetBloom1(t) \/ EndPartition(t)
      PROVE  AdjacencyInv'
  <2>1. todo' = todo /\ cur' = cur /\ phase' = phase /\ adjacency' = adjacency
    BY <1>1 DEF Claim, OrTag, SetBloom1, EndPartition
  <2> QED
    BY <1>0, <2>1 DEF AdjacencyInv
<1>2. ASSUME NEW t \in Thread, CountAdd(t) \/ SetBloom2(t)
      PROVE  AdjacencyInv'
  <2>1. phase = "count" /\ phase' = phase
    BY <1>2 DEF CountAdd, SetBloom2, ThreadInv
  <2> QED
    BY <2>1 DEF AdjacencyInv
<1>3. ASSUME NEW t \in Thread, FetchAdd(t)
      PROVE  AdjacencyInv'
  <2>1. PICK x \in todo : todo' = todo \ {x} /\ cur' = [cur EXCEPT ![t] = x]
    BY <1>3 DEF FetchAdd, Take, Ahead
  <2>2. adjacency' = adjacency /\ phase' = phase /\ phase = "place" /\ cur[t] = None
    BY <1>3 DEF FetchAdd, ThreadInv, Holding
  <2>3. ASSUME NEW p \in Position, adjacency[p] # None
        PROVE  /\ Handed(p, SlotOfTuple(adjacency[p]))'
               /\ adjacency[p] \notin todo'
               /\ \A u \in Thread : cur'[u] # adjacency[p]
    <3>1. PICK y \in Tuple : y = adjacency[p]
      BY <2>2, <2>3
    <3>2. Handed(p, SlotOfTuple(y)) /\ y \notin todo /\ \A u \in Thread : cur[u] # y
      BY <2>2, <2>3, <3>1 DEF AdjacencyInv
    <3>3. Handed(p, SlotOfTuple(y))'
      BY <2>1, <2>2, <2>3, <3>2, HandedStays, TupleSlot
    <3> QED
      BY <2>1, <2>2, <3>1, <3>2, <3>3
  <2>4. \A y \in Tuple \ todo' :
          (\E u \in Thread : cur'[u] = y) \/ (\E p \in Position : adjacency[p] = y)
    BY <2>1, <2>2, ConstantsAssumption DEF AdjacencyInv
  <2> QED
    BY <2>2, <2>3, <2>4 DEF AdjacencyInv
<1>4. ASSUME NEW t \in Thread, WriteAdjacency(t)
      PROVE  AdjacencyInv'
  <2>1. PICK y \in Tuple : y = cur[t]
    BY <1>4, Held DEF WriteAdjacency, Holding
  <2>2. PICK q : q = pos[t]
    OBVIOUS
  <2>3. /\ adjacency' = [adjacency EXCEPT ![q] = y] /\ cur' = [cur EXCEPT ![t] = None]
        /\ todo' = todo /\ phase' = phase /\ phase = "place"
    BY <1>4, <2>1, <2>2 DEF WriteAdjacency, ThreadInv
  <2>4. Handed(q, SlotOfTuple(y)) /\ adjacency[q] = None
    BY <1>4, <2>1, <2>2 DEF WriteAdjacency, WriteInv
  <2>5. y \notin todo /\ \A u \in Thread \ {t} : cur[u] # y
    BY <1>4, <2>1, ConstantsAssumption DEF WriteAdjacency, ThreadInv, Holding
  <2>6. q \in Position
    <3>1. SlotOfTuple(y) \in Slot
      BY TupleSlot
    <3>2. q \in Nat /\ q < First(SlotOfTuple(y)) + Taken(SlotOfTuple(y))
      BY <2>2, <2>4 DEF Handed
    <3>3. /\ First(SlotOfTuple(y)) \in Nat /\ Taken(SlotOfTuple(y)) \in Nat
          /\ First(SlotOfTuple(y)) + Taken(SlotOfTuple(y)) <= Cardinality(Tuple)
          /\ Cardinality(Tuple) \in Nat
      BY <3>1, Regions, RegionFits, TakenBound, TupleSets
    <3> QED
      BY <2>3, <3>2, <3>3
  <2>7. \A p \in Position : adjacency'[p] = IF p = q THEN y ELSE adjacency[p]
    BY <2>3, <2>6
  <2>8. \A p \in Position : adjacency[p] # y
    BY <2>1, <2>3, ConstantsAssumption DEF AdjacencyInv
  <2>9. \A p \in Position : adjacency'[p] # None =>
           /\ Handed(p, SlotOfTuple(adjacency'[p]))
           /\ adjacency'[p] \notin todo
           /\ \A u \in Thread : cur'[u] # adjacency'[p]
    BY <2>3, <2>4, <2>5, <2>7, ConstantsAssumption DEF AdjacencyInv
  <2>10. \A p \in Position : adjacency'[p] # None =>
           Handed(p, SlotOfTuple(adjacency[p]))'
    BY <1>0, <2>3, <2>9
  <2>11. \A p, r \in Position : adjacency'[p] # None /\ adjacency'[p] = adjacency'[r] => p = r
    BY <2>3, <2>7, <2>8 DEF AdjacencyInv
  <2>12. \A x \in Tuple \ todo :
           (\E u \in Thread : cur'[u] = x) \/ (\E p \in Position : adjacency'[p] = x)
    <3> SUFFICES ASSUME NEW x \in Tuple \ todo
                 PROVE  (\E u \in Thread : cur'[u] = x) \/ (\E p \in Position : adjacency'[p] = x)
      OBVIOUS
    <3>1. CASE x = y
      BY <2>6, <2>7, <3>1
    <3>2. CASE x # y /\ \E u \in Thread : cur[u] = x
      BY <2>1, <2>3, <3>2
    <3>3. CASE \E p \in Position : adjacency[p] = x
      BY <2>4, <2>7, <3>3, ConstantsAssumption
    <3> QED
      BY <2>3, <3>1, <3>2, <3>3 DEF AdjacencyInv
  <2>13. Position' = Position
    BY <2>3
  <2> QED
    BY <2>3, <2>9, <2>10, <2>11, <2>12, <2>13 DEF AdjacencyInv
<1>5. CASE ResizeAdjacency
  BY <1>5 DEF ResizeAdjacency, AdjacencyInv
<1>6. CASE StartPlacement
  <2>1. \A p \in Position : adjacency'[p] = None
    BY <1>6 DEF StartPlacement, AdjacencyInv
  <2> QED
    BY <1>6, <2>1, ConstantsAssumption DEF StartPlacement, AdjacencyInv
<1>7. CASE PrefixStep \/ StartSlide \/ SlideStep \/ SlideFirst
  <2>1. /\ todo' = todo /\ cur' = cur /\ adjacency' = adjacency
        /\ phase = "prefix" => phase' = "prefix"
        /\ phase' = "prefix" => phase = "prefix"
        /\ phase \in {"prefix", "place", "slide"}
    BY <1>7 DEF PrefixStep, StartSlide, SlideStep, SlideFirst
  <2> QED
    BY <1>0, <2>1 DEF AdjacencyInv
<1>8. CASE Done
  BY <1>0, <1>8 DEF Done, vars, AdjacencyInv
<1> QED
  BY <1>1, <1>2, <1>3, <1>4, <1>5, <1>6, <1>7, <1>8 DEF Next, ThreadStep, Sequential

\* Every step keeps the position a thread is about to write empty, and its own.
LEMMA WritePreserved == IInv /\ Next => WriteInv'
<1> SUFFICES ASSUME IInv, Next
             PROVE  WriteInv'
  OBVIOUS
<1> USE DEF IInv, TypeOK, threadVars, tableVars, loopVars
<1>0. ASSUME todo' = todo
      PROVE  \A p, s : Handed(p, s)' = Handed(p, s)
  BY <1>0 DEF Handed, Taken, First, Bucket, Below
<1>1. ASSUME NEW t \in Thread,
             Claim(t) \/ OrTag(t) \/ SetBloom1(t) \/ SetBloom2(t) \/ EndPartition(t)
      PROVE  WriteInv'
  <2>1. /\ todo' = todo /\ pos' = pos /\ adjacency' = adjacency
        /\ \A u \in Thread : pc'[u] = "write" => pc[u] = "write" /\ cur'[u] = cur[u]
    BY <1>1 DEF Claim, OrTag, SetBloom1, SetBloom2, EndPartition
  <2> QED
    BY <1>0, <2>1 DEF WriteInv
<1>2. ASSUME NEW t \in Thread, CountAdd(t)
      PROVE  WriteInv'
  <2>1. \A u \in Thread : pc'[u] # "write"
    BY <1>2 DEF CountAdd, ThreadInv
  <2> QED
    BY <2>1 DEF WriteInv
<1>3. ASSUME NEW t \in Thread, FetchAdd(t)
      PROVE  WriteInv'
  <2>1. PICK x \in todo : /\ todo' = todo \ {x} /\ cur' = [cur EXCEPT ![t] = x]
                          /\ pos' = [pos EXCEPT ![t] = offset[SlotOfTuple(x)]]
    BY <1>3 DEF FetchAdd, Take, Ahead
  <2>2. PICK s \in Slot : s = SlotOfTuple(x)
    BY TupleSlot
  <2>3. PICK q : q = offset[s]
    OBVIOUS
  <2>4. /\ adjacency' = adjacency /\ phase = "place" /\ pc' = [pc EXCEPT ![t] = "write"]
    BY <1>3 DEF FetchAdd
  <2>5. /\ q = First(s) + Taken(s) /\ adjacency[q] = None
        /\ \A u \in Thread : pc[u] = "write" => pos[u] # q
    BY <2>2, <2>3, <2>4, FreshPosition
  <2>6. Handed(q, s)'
    <3>1. Taken(s)' = Taken(s) + 1 /\ Taken(s) \in Nat /\ First(s) \in Nat
      BY <2>1, <2>2, TakenGrows, TakenBound, Regions
    <3>2. First(s)' = First(s)
      BY DEF First, Below
    <3> QED
      BY <2>5, <3>1, <3>2 DEF Handed
  <2>7. ASSUME NEW u \in Thread \ {t}, pc'[u] = "write"
        PROVE  Handed(pos[u], SlotOfTuple(cur[u]))' /\ adjacency'[pos'[u]] = None /\ pos'[u] # q
    <3>1. pc[u] = "write" /\ cur'[u] = cur[u] /\ pos'[u] = pos[u]
      BY <2>1, <2>4, <2>7
    <3>2. PICK y \in Tuple : y = cur[u]
      BY <3>1, Held DEF Holding
    <3>3. PICK p \in Nat : p = pos[u]
      OBVIOUS
    <3>4. Handed(p, SlotOfTuple(y))'
      BY <2>1, <3>1, <3>2, <3>3, HandedStays, TupleSlot DEF WriteInv
    <3> QED
      BY <2>4, <2>5, <3>1, <3>2, <3>3, <3>4 DEF WriteInv
  <2>8. cur'[t] = x /\ pos'[t] = q
    BY <2>1, <2>2, <2>3
  <2>9. \A u \in Thread : pc'[u] = "write" =>
           Handed(pos[u], SlotOfTuple(cur[u]))' /\ adjacency'[pos'[u]] = None
    BY <2>2, <2>4, <2>5, <2>6, <2>7, <2>8
  <2>10. \A u, v \in Thread : u # v /\ pc'[u] = "write" /\ pc'[v] = "write" => pos'[u] # pos'[v]
    BY <2>1, <2>4, <2>7, <2>8 DEF WriteInv
  <2> QED
    BY <2>9, <2>10 DEF WriteInv
<1>4. ASSUME NEW t \in Thread, WriteAdjacency(t)
      PROVE  WriteInv'
  <2>1. /\ todo' = todo /\ pos' = pos
        /\ \A u \in Thread : pc'[u] = "write" => u # t /\ pc[u] = "write" /\ cur'[u] = cur[u]
    BY <1>4 DEF WriteAdjacency
  <2>2. \A u \in Thread : pc'[u] = "write" => pos[u] # pos[t]
    BY <1>4, <2>1 DEF WriteAdjacency, WriteInv
  <2>3. \A u \in Thread : pc'[u] = "write" => adjacency'[pos[u]] = adjacency[pos[u]]
    BY <1>4, <2>2, ConstantsAssumption DEF WriteAdjacency, ThreadInv
  <2> QED
    BY <1>0, <2>1, <2>3 DEF WriteInv
<1>5. CASE ResizeAdjacency \/ PrefixStep \/ StartPlacement \/ StartSlide \/ SlideStep \/ SlideFirst
  <2>1. \A u \in Thread : pc'[u] # "write"
    BY <1>5 DEF ResizeAdjacency, PrefixStep, StartPlacement, StartSlide, SlideStep, SlideFirst,
       ThreadInv, AllAtBarrier
  <2> QED
    BY <2>1 DEF WriteInv
<1>6. CASE Done
  BY <1>0, <1>6 DEF Done, vars, WriteInv
<1> QED
  BY <1>1, <1>2, <1>3, <1>4, <1>5, <1>6 DEF Next, ThreadStep, Sequential

\* The inductive invariant is an invariant.
THEOREM Invariant == Spec => []IInv
<1>1. Init => IInv
  BY InitInv
<1>2. IInv /\ [Next]_vars => IInv'
  <2>1. IInv /\ Next => IInv'
    BY TypePreserved, ThreadPreserved, PartitionPreserved, TotalPreserved, OffsetPreserved,
       FilterPreserved, AdjacencyPreserved, WritePreserved DEF IInv
  <2>2. IInv /\ UNCHANGED vars => IInv'
    <3> SUFFICES ASSUME IInv, UNCHANGED vars
                 PROVE  IInv'
      OBVIOUS
    <3> USE DEF vars, threadVars, tableVars, loopVars
    <3>1. TypeOK' /\ ThreadInv' /\ PartitionInv'
      BY DEF IInv, TypeOK, ThreadInv, PartitionInv
    <3>2. TotalInv'
      BY DEF IInv, TotalInv, Finished
    <3>3. OffsetInv'
      BY DEF IInv, OffsetInv, Taken, First, Below, Bucket
    <3>4. FilterInv'
      BY DEF IInv, FilterInv, TagSet, BloomSet
    <3>5. \A p, s : Handed(p, s)' = Handed(p, s)
      BY DEF Handed, Taken, First, Below, Bucket
    <3>6. AdjacencyInv' /\ WriteInv'
      BY <3>5 DEF IInv, AdjacencyInv, Position, WriteInv
    <3> QED
      BY <3>1, <3>2, <3>3, <3>4, <3>6 DEF IInv
  <2> QED
    BY <2>1, <2>2
<1> QED
  BY <1>1, <1>2, PTL DEF Spec

\* The variables of the build keep to their types: in particular adjacency is
\* sized to the number of tuples in the slabs (build_from_slabs).
THEOREM TypeCorrect == Spec => []TypeOK
<1>1. IInv => TypeOK
  BY DEF IInv
<1> QED
  BY <1>1, Invariant, PTL

\* The plain stores of the placement phase never race (build_from_slabs).
THEOREM WritesAreExclusive == Spec => []ExclusiveWrites
<1>1. IInv => ExclusiveWrites
  <2> SUFFICES ASSUME IInv, NEW t \in Thread, pc[t] = "write"
               PROVE  pos[t] \in Position /\ adjacency[pos[t]] = None
                      /\ \A u \in Thread \ {t} : pc[u] = "write" => pos[u] # pos[t]
    BY DEF ExclusiveWrites
  <2>1. SlotOfTuple(cur[t]) \in Slot
    BY Held DEF Holding
  <2>2. Handed(pos[t], SlotOfTuple(cur[t])) /\ adjacency[pos[t]] = None
    BY DEF IInv, WriteInv
  <2>3. /\ First(SlotOfTuple(cur[t])) \in Nat /\ Taken(SlotOfTuple(cur[t])) \in Nat
        /\ First(SlotOfTuple(cur[t])) + Taken(SlotOfTuple(cur[t])) <= Cardinality(Tuple)
        /\ Cardinality(Tuple) \in Nat
    BY <2>1, Regions, RegionFits, TakenBound, TupleSets
  <2>4. phase = "place" /\ pos[t] \in Nat
    BY DEF IInv, ThreadInv, TypeOK
  <2>5. pos[t] \in Position
    BY <2>2, <2>3, <2>4 DEF Handed, Position, IInv, TypeOK
  <2> QED
    BY <2>2, <2>5 DEF IInv, WriteInv
<1> QED
  BY <1>1, Invariant, PTL

\* A stored tuple lies in the region of its slot (prefix sum and placement).
THEOREM StoredInRegion == Spec => []StoredInSlotRegion
<1>1. IInv => StoredInSlotRegion
  <2> SUFFICES ASSUME IInv, phase \in {"place", "slide", "done"},
                      NEW p \in Position, adjacency[p] # None
               PROVE  LET s == SlotOfTuple(adjacency[p])
                      IN  /\ Cardinality({x \in Tuple : SlotOfTuple(x) < s}) <= p
                          /\ p < Cardinality({x \in Tuple : SlotOfTuple(x) <= s})
    BY DEF StoredInSlotRegion
  <2> DEFINE s == SlotOfTuple(adjacency[p])
  <2>1. adjacency[p] \in Tuple /\ p \in Nat
    BY TupleSets DEF IInv, TypeOK, Position
  <2>2. s \in Slot
    BY <2>1, TupleSlot
  <2>3. Handed(p, s)
    BY DEF IInv, AdjacencyInv
  <2>4. {x \in Tuple : SlotOfTuple(x) <= s} = Below(s + 1)
    BY <2>2, TupleSlot DEF Below, Slot
  <2>5. p < First(s + 1)
    BY <2>1, <2>2, <2>3, Regions, TakenBound DEF Handed
  <2> QED
    BY <2>3, <2>4, <2>5 DEF Handed, First, Below
<1> QED
  BY <1>1, Invariant, PTL

\* When the build is over the whole array is filled: no position is left with
\* its initial value, which find could mistake for a tuple.
LEMMA ArrayFull ==
    ASSUME IInv, phase = "done"
    PROVE  \A p \in Position : adjacency[p] \in Tuple
<1> DEFINE F == {p \in Position : adjacency[p] # None}
           f == [p \in F |-> adjacency[p]]
           N == Cardinality(Tuple)
<1>1. N \in Nat /\ Position = 0 .. (N - 1) /\ \A p \in F : adjacency[p] \in Tuple
  BY TupleSets DEF IInv, TypeOK, Position
<1>2. \A x \in Tuple : \E p \in F : adjacency[p] = x
  <2>1. todo = {} /\ \A t \in Thread : cur[t] = None
    BY DEF IInv, ThreadInv, Holding, TypeOK
  <2> QED
    BY <2>1, ConstantsAssumption DEF IInv, AdjacencyInv
<1>3. f \in Surjection(F, Tuple)
  BY <1>1, <1>2 DEF Surjection
<1>4. IsFiniteSet(Position) /\ Cardinality(Position) = N
  BY <1>1, FS_Interval
<1>5. F \subseteq Position /\ IsFiniteSet(F) /\ Cardinality(F) <= N /\ Cardinality(F) \in Nat
  BY <1>4, FS_Subset, FS_CardinalityType
<1>6. N <= Cardinality(F)
  BY <1>3, <1>5, FS_Surjection
<1>7. Position = F
  <2>1. Cardinality(Position) = Cardinality(F)
    BY <1>1, <1>4, <1>5, <1>6
  <2> HIDE DEF F
  <2> QED
    BY <1>4, <1>5, <2>1, FS_Subset
<1> QED
  BY <1>1, <1>7

\* A lookup after the build returns the tuples of its key, all of them, nothing
\* else, and none twice (build_from_slabs and find).
THEOREM LookupIsExact == Spec => []FindExact
<1>1. IInv => FindExact
  <2> SUFFICES ASSUME IInv, phase = "done", NEW k \in Key
               PROVE  /\ {adjacency[p] : p \in FindPositions(k)} = {x \in Tuple : KeyOf[x] = k}
                      /\ \A p, q \in FindPositions(k) : adjacency[p] = adjacency[q] => p = q
    BY DEF FindExact
  <2> DEFINE s == SlotOf(k)
             N == Cardinality(Tuple)
  <2>1. s \in Slot
    BY KeyBits
  <2>2. Begin(s) = First(s) /\ End(s) = First(s + 1)
    <3>1. \A r \in Slot : offset[r] = First(r)
      BY DEF IInv, OffsetInv
    <3>2. total = First(DirSize)
      BY RegionEnds DEF IInv, TotalInv
    <3> QED
      BY <2>1, <3>1, <3>2, ConstantsAssumption DEF Begin, End, Slot
  <2>3. First(s) \in Nat /\ First(s + 1) \in Nat /\ First(s + 1) <= N /\ N \in Nat
    BY <2>1, Regions, RegionFits, TupleSets
  <2>4. Position = 0 .. (N - 1)
    BY DEF IInv, TypeOK, Position
  <2>5. \A p \in Begin(s) .. (End(s) - 1) : p \in Position /\ adjacency[p] \in Tuple
    BY <2>2, <2>3, <2>4, ArrayFull
  <2>6. FindPositions(k) \subseteq Begin(s) .. (End(s) - 1)
        /\ \A p \in FindPositions(k) : KeyOf[adjacency[p]] = k
    BY DEF FindPositions
  <2>7. ASSUME NEW x \in Tuple, KeyOf[x] = k
        PROVE  \E p \in FindPositions(k) : adjacency[p] = x
    <3>1. todo = {} /\ \A t \in Thread : cur[t] = None
      BY DEF IInv, ThreadInv, Holding, TypeOK
    <3>2. PICK p \in Position : adjacency[p] = x
      BY <3>1, ConstantsAssumption DEF IInv, AdjacencyInv
    <3>3. Handed(p, s)
      BY <2>7, <3>2, ConstantsAssumption DEF IInv, AdjacencyInv, SlotOfTuple
    <3>4. Taken(s) <= Cardinality(Bucket(s)) /\ Taken(s) \in Nat
          /\ Cardinality(Bucket(s)) \in Nat /\ First(s + 1) = First(s) + Cardinality(Bucket(s))
      BY <2>1, TakenBound, Regions
    <3>5. p \in Begin(s) .. (End(s) - 1)
      BY <2>2, <2>3, <2>4, <3>2, <3>3, <3>4 DEF Handed
    <3>6. BloomMayContain(k) /\ TagMayContain(k)
      BY <2>7 DEF IInv, FilterInv, TagSet, BloomSet, BloomMayContain, TagMayContain, SlotOfTuple
    <3> QED
      BY <2>7, <3>2, <3>5, <3>6 DEF FindPositions
  <2>8. \A p, q \in FindPositions(k) : adjacency[p] = adjacency[q] => p = q
    BY <2>5, <2>6, ConstantsAssumption DEF IInv, AdjacencyInv
  <2> QED
    BY <2>5, <2>6, <2>7, <2>8
<1> QED
  BY <1>1, Invariant, PTL
=============================================================================
