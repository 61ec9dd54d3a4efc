---------------------------- MODULE RobinHoodHash -----------------------------
(***************************************************************************)
(* RobinHoodHashMap (src/src/RobinHoodHash.h): open addressing in which a  *)
(* pair far from its home takes the bucket of one closer to it.  find      *)
(* stops at the first bucket whose pair is closer to its home than the key *)
(* would be, so it depends on the order emplace and rehash leave behind.   *)
(***************************************************************************)
EXTENDS HashSizes

CONSTANTS
    HashOf          \* djb2 of a key, before it is reduced to the table's size

VARIABLE robin      \* [table, element_count]

Home(key, size) == HashOf[key] % size

New(size) == [table |-> EmptyTable(size), element_count |-> 0]

\* MUTANT: the distance of the pair taken along starts again.
RECURSIVE ProbeRestarts(_, _, _, _)
ProbeRestarts(table, new, cur, idx) ==
    LET b == table[idx]
        next == (idx + 1) % SizeOf(table)
    IN  IF b # Empty /\ b.key = new.key
        THEN [table |-> [table EXCEPT ![idx].val = new.val], added |-> FALSE]
        ELSE IF b = Empty THEN [table |-> [table EXCEPT ![idx] = cur], added |-> TRUE]
        ELSE IF b.distance < cur.distance
        THEN ProbeRestarts([table EXCEPT ![idx] = cur], new, [b EXCEPT !.distance = 1], next)
        ELSE ProbeRestarts(table, new, [cur EXCEPT !.distance = @ + 1], next)

\* The loop of emplace of the pair new, which carries cur to bucket idx.  Only
\* the key that was emplaced is looked for, not that of a pair taken along.
RECURSIVE Probe(_, _, _, _)
Probe(table, new, cur, idx) ==
    LET b == table[idx]
        next == (idx + 1) % SizeOf(table)
    IN  IF b # Empty /\ b.key = new.key
        THEN [table |-> [table EXCEPT ![idx].val = new.val], added |-> FALSE]
        ELSE IF b = Empty THEN [table |-> [table EXCEPT ![idx] = cur], added |-> TRUE]
        ELSE IF b.distance < cur.distance
        THEN Probe([table EXCEPT ![idx] = cur], new, [b EXCEPT !.distance = @ + 1], next)
        ELSE Probe(table, new, [cur EXCEPT !.distance = @ + 1], next)

\* load_factor > 0.6
Overloaded(m) == 10 * m.element_count > 6 * SizeOf(m.table)

RECURSIVE Emplaced(_, _)
Rehashed(m) ==
    FoldLeft(LAMBDA acc, b : Emplaced(acc, [key |-> b.key, val |-> b.val]),
             New(RehashSize(SizeOf(m.table))), Pairs(m.table))

Emplaced(m, new) ==
    LET cur == [key |-> new.key, val |-> new.val, distance |-> 0]
        p == Probe(m.table, new, cur, Home(new.key, SizeOf(m.table)))
        grown == [table |-> p.table, element_count |-> m.element_count + 1]
    IN  IF ~p.added THEN [m EXCEPT !.table = p.table]
        ELSE IF Overloaded(grown) THEN Rehashed(grown) ELSE grown

Init(expected) == robin = New(InitialSize(expected))

Emplace(key, val) == robin' = Emplaced(robin, [key |-> key, val |-> val])

\* find: the bucket of key, or end, which is the size of the table.
Find(key) ==
    LET size == SizeOf(robin.table)
        probe[idx \in 0 .. (size - 1), dist \in 0 .. size] ==
            LET b == robin.table[idx]
            IN  IF b = Empty \/ b.distance < dist THEN size
                ELSE IF b.key = key THEN idx
                ELSE probe[(idx + 1) % size, dist + 1]
    IN  probe[Home(key, size), 0]

Lookup(key, none) ==
    IF Find(key) = SizeOf(robin.table) THEN none ELSE robin.table[Find(key)].val

\* A bucket knows how far its pair is from home, and the pair before it on the
\* way from there is at most one step closer to its own; a table keeps free
\* buckets, and element_count counts its pairs.
Ordered ==
    LET size == SizeOf(robin.table)
        t == robin.table
    IN  /\ \A idx \in DOMAIN t : t[idx] # Empty =>
              /\ t[idx].distance = Behind(Home(t[idx].key, size), idx, size)
              /\ t[idx].distance > 0 =>
                    LET before == t[(idx + size - 1) % size]
                    IN  before # Empty /\ before.distance + 1 >= t[idx].distance
        /\ robin.element_count = Len(Pairs(t))
        /\ ~Overloaded(robin)
===============================================================================
