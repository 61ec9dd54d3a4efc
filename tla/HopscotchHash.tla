---------------------------- MODULE HopscotchHash -----------------------------
(***************************************************************************)
(* HopscotchHashMap (src/src/HopscotchHash.h): a pair stays within a       *)
(* neighborhood of its home bucket, whose bitmap says where.  emplace      *)
(* takes the first free bucket and moves it towards the home by moving     *)
(* other pairs within their own neighborhoods.                             *)
(***************************************************************************)
EXTENDS HashSizes

CONSTANTS
    HashOf,             \* std::hash of a key
    NeighborhoodSize,   \* neighborhood_size, 32
    MaxBits             \* MAX_BITS, 64

VARIABLES
    hop,                \* [kv, bitmap, element_count]
    returned            \* what the last emplace returned: bucket and "inserted"

Home(key, size) == HashOf[key] % size

\* bitmap_set: an offset outside the neighborhood leaves no bit.
BitSet(bits, offset) ==
    IF offset < NeighborhoodSize /\ offset < MaxBits THEN bits \union {offset} ELSE bits

New(size) ==
    [kv |-> EmptyTable(size), bitmap |-> [idx \in 0 .. (size - 1) |-> {}], element_count |-> 0]

\* The buckets find visits, in its order.
FindIn(m, key) ==
    LET size == SizeOf(m.kv)
        base == Home(key, size)
        hits == {o \in m.bitmap[base] : LET b == m.kv[(base + o) % size] IN b # Empty /\ b.key = key}
    IN  IF hits = {} THEN size ELSE (base + Min(hits)) % size

Full(m) == \A idx \in DOMAIN m.kv : m.kv[idx] # Empty

\* The first free bucket from base on.
FirstFree(m, base) ==
    LET size == SizeOf(m.kv)
    IN  (base + Min({d \in 0 .. (size - 1) : m.kv[(base + d) % size] = Empty})) % size

\* The buckets before a free one whose pair may move to it.
Movable(m, free) ==
    LET size == SizeOf(m.kv)
        at(i) == (free + size - (NeighborhoodSize - 1) + i) % size
    IN  {i \in 0 .. (NeighborhoodSize - 2) :
           /\ m.kv[at(i)] # Empty
           /\ LET origin == Home(m.kv[at(i)].key, size)
              IN  /\ Behind(origin, at(i), size) < NeighborhoodSize
                  /\ Behind(origin, free, size) < NeighborhoodSize}

\* MUTANT: the bit of the bucket a pair leaves is not reset.
MovedKeepsBit(m, idx, free) ==
    LET size == SizeOf(m.kv)
        origin == Home(m.kv[idx].key, size)
    IN  [m EXCEPT !.kv = [@ EXCEPT ![free] = m.kv[idx], ![idx] = Empty],
                  !.bitmap[origin] = BitSet(@, Behind(origin, free, size))]

\* The pair of bucket idx moves to the free one.
Moved(m, idx, free) ==
    LET size == SizeOf(m.kv)
        origin == Home(m.kv[idx].key, size)
    IN  [m EXCEPT !.kv = [@ EXCEPT ![free] = m.kv[idx], ![idx] = Empty],
                  !.bitmap[origin] = BitSet(@ \ {Behind(origin, idx, size)},
                                            Behind(origin, free, size))]

\* The free bucket is brought into the neighborhood of base; "free" is the size of
\* the table if no pair can be moved.
RECURSIVE Approach(_, _, _)
Approach(m, base, free) ==
    LET size == SizeOf(m.kv)
        idx == (free + size - (NeighborhoodSize - 1) + Min(Movable(m, free))) % size
    IN  IF Behind(base, free, size) < NeighborhoodSize THEN [m |-> m, free |-> free]
        ELSE IF Movable(m, free) = {} THEN [m |-> m, free |-> size]
        ELSE Approach(Moved(m, idx, free), base, idx)

\* MUTANT: a pair that is overwritten is reported as inserted.
ResultInserted(m, idx, inserted) == [m |-> m, idx |-> idx, inserted |-> TRUE]

Result(m, idx, inserted) == [m |-> m, idx |-> idx, inserted |-> inserted]

RECURSIVE Emplaced(_, _)
Rehashed(m) ==
    FoldLeft(LAMBDA acc, b : Emplaced(acc, b).m, New(RehashSize(SizeOf(m.kv))), Pairs(m.kv))

Emplaced(m, new) ==
    LET size == SizeOf(m.kv)
        base == Home(new.key, size)
        found == FindIn(m, new.key)
        near == Approach(m, base, FirstFree(m, base))
    IN  IF found # size THEN Result([m EXCEPT !.kv[found].val = new.val], found, FALSE)
        ELSE IF m.bitmap[base] = 0 .. (MaxBits - 1) \/ Full(m) THEN Emplaced(Rehashed(m), new)
        ELSE IF near.free = size THEN Emplaced(Rehashed(near.m), new)
        ELSE Result([near.m EXCEPT !.kv[near.free] = new,
                                   !.bitmap[base] = BitSet(@, Behind(base, near.free, size)),
                                   !.element_count = @ + 1],
                    near.free, TRUE)

Init(expected) ==
    /\ hop = New(InitialSize(expected))
    /\ returned = Result(0, 0, TRUE)

Emplace(key, val) ==
    LET r == Emplaced(hop, [key |-> key, val |-> val])
    IN  hop' = r.m /\ returned' = [r EXCEPT !.m = 0]

Lookup(key, none) ==
    LET idx == FindIn(hop, key) IN IF idx = SizeOf(hop.kv) THEN none ELSE hop.kv[idx].val

\* A bit of a bucket is set exactly if a pair with that home is that far behind
\* it, so every pair is in the neighborhood of its home; element_count counts.
BitsTellPairs ==
    LET size == SizeOf(hop.kv)
    IN  /\ \A base \in DOMAIN hop.kv :
              hop.bitmap[base] =
                {Behind(base, idx, size) : idx \in {i \in DOMAIN hop.kv :
                    hop.kv[i] # Empty /\ Home(hop.kv[i].key, size) = base}}
        /\ hop.element_count = Len(Pairs(hop.kv))
===============================================================================
