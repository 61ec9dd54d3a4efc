------------------------------ MODULE CuckooHash ------------------------------
(***************************************************************************)
(* CuckooMultiMap<K, vector> (src/src/CuckooHash.h): a key has one home in *)
(* each of two tables.  A new key kicks another out of its home if both    *)
(* are taken, that one goes to its other home, and so on; after MaxKicks   *)
(* the tables are rebuilt, larger.  The values of one key are appended.    *)
(***************************************************************************)
EXTENDS Naturals, Sequences, SequencesExt, FiniteSets

CONSTANTS
    Empty,          \* a bucket that is not occupied
    Hash1, Hash2,   \* mix64_u of the two hashes of a key
    MinCapacity,    \* 8
    MaxKicks,       \* MAX_KICKS of cuckoo_kick_insert, 256
    MaxBuildKicks   \* MAX_KICKS of try_build_tables, 512

VARIABLE cuckoo     \* [tables, size]

\* The powers of two as far as they are needed.
NextPow2(x) == Min({c \in {2 ^ e : e \in 0 .. 20} : c >= x /\ c >= MinCapacity})
Wanted(expected) == NextPow2(IF expected > 0 THEN expected * 2 ELSE MinCapacity)

\* tables[1] and tables[2] are table1_ and table2_
NewTables(cap) == [side \in {1, 2} |-> [idx \in 0 .. (cap - 1) |-> Empty]]
Capacity(tables) == Cardinality(DOMAIN tables[1])
Home(tables, side, key) ==
    (IF side = 1 THEN Hash1[key] ELSE Hash2[key]) % Capacity(tables)
At(tables, side, key) == tables[side][Home(tables, side, key)]

Occupied(tables, side) == {idx \in DOMAIN tables[side] : tables[side][idx] # Empty}
SizeOf(tables) == Cardinality(Occupied(tables, 1)) + Cardinality(Occupied(tables, 2))

\* collect_all
CollectAll(tables) ==
    LET all(side) == [i \in 1 .. Capacity(tables) |-> tables[side][i - 1]]
    IN  SelectSeq(all(1) \o all(2), LAMBDA b : b # Empty)

IsAt(tables, side, key) == At(tables, side, key) # Empty /\ At(tables, side, key).key = key
Takes(tables, side, b) == At(tables, side, b.key) = Empty \/ IsAt(tables, side, b.key)

\* b is put into its free home, or its values are appended there (merge_into).
Put(tables, side, b) ==
    [tables EXCEPT ![side][Home(tables, side, b.key)] =
        IF @ = Empty THEN b ELSE [@ EXCEPT !.val = @ \o b.val]]

\* cuckoo_kick_insert: cur is put into its home, or the pair there is kicked out
\* and goes to its home of the other side.  cur is the one left over if not done.
RECURSIVE Kick(_, _, _, _)
Kick(tables, side, cur, kicks) ==
    IF Takes(tables, side, cur) THEN [tables |-> Put(tables, side, cur), done |-> TRUE, cur |-> cur]
    ELSE IF kicks = 0 THEN [tables |-> tables, done |-> FALSE, cur |-> cur]
    ELSE Kick([tables EXCEPT ![side][Home(tables, side, cur.key)] = cur],
              3 - side, At(tables, side, cur.key), kicks - 1)

\* Both homes are tried before anything is kicked out.
Place(tables, b, kicks) ==
    IF Takes(tables, 1, b) THEN [tables |-> Put(tables, 1, b), done |-> TRUE, cur |-> b]
    ELSE IF Takes(tables, 2, b) THEN [tables |-> Put(tables, 2, b), done |-> TRUE, cur |-> b]
    ELSE Kick(tables, 1, b, kicks)

\* try_build_tables
Build(elems, cap) ==
    FoldLeft(LAMBDA acc, b : IF acc.done THEN Place(acc.tables, b, MaxBuildKicks) ELSE acc,
             [tables |-> NewTables(cap), done |-> TRUE, cur |-> Empty], elems)

\* MUTANT: the attempt that fails has moved the values out of the elements.
RECURSIVE RebuiltMoves(_, _)
RebuiltMoves(cap, elems) ==
    LET b == Build(elems, cap)
    IN  IF b.done THEN [tables |-> b.tables, size |-> SizeOf(b.tables)]
        ELSE RebuiltMoves(2 * cap, [i \in DOMAIN elems |-> [elems[i] EXCEPT !.val = <<>>]])

\* rebuild_internal: as large as it takes.
RECURSIVE Rebuilt(_, _)
Rebuilt(cap, elems) ==
    LET b == Build(elems, cap)
    IN  IF b.done THEN [tables |-> b.tables, size |-> SizeOf(b.tables)]
        ELSE Rebuilt(2 * cap, elems)

\* ensure_capacity_for_insert
Ensured(m) ==
    LET cap == Capacity(m.tables)
    IN  IF (m.size + 1) * 2 <= cap THEN m ELSE Rebuilt(2 * cap, CollectAll(m.tables))

\* MUTANT: the pair left over by the kicks is forgotten.
RehashedWithout(m, extra) == Rebuilt(2 * Capacity(m.tables), CollectAll(m.tables))

\* rehash_with_extra
RehashedWithExtra(m, extra) ==
    Rebuilt(2 * Capacity(m.tables), Append(CollectAll(m.tables), extra))

\* merge_if_present, then room for one more key, then one of its homes.
Emplaced(m, b) ==
    IF \E side \in {1, 2} : IsAt(m.tables, side, b.key)
    THEN [m EXCEPT !.tables = Put(@, IF IsAt(@, 1, b.key) THEN 1 ELSE 2, b)]
    ELSE LET e == Ensured(m)
             p == Place(e.tables, b, MaxKicks)
         IN  IF p.done THEN [tables |-> p.tables, size |-> e.size + 1]
             ELSE RehashedWithExtra([e EXCEPT !.tables = p.tables], p.cur)

Init(expected) == cuckoo = [tables |-> NewTables(Wanted(expected)), size |-> 0]

Emplace(key, val) == cuckoo' = Emplaced(cuckoo, [key |-> key, val |-> <<val>>])

Reserve(expected) ==
    IF Wanted(expected) <= Capacity(cuckoo.tables) THEN UNCHANGED cuckoo
    ELSE cuckoo' = Rebuilt(Wanted(expected), CollectAll(cuckoo.tables))

\* find
Lookup(key, none) ==
    IF IsAt(cuckoo.tables, 1, key) THEN At(cuckoo.tables, 1, key).val
    ELSE IF IsAt(cuckoo.tables, 2, key) THEN At(cuckoo.tables, 2, key).val
    ELSE none

\* A pair is in its home of its side, a key in one table only; size_ counts the
\* keys, which fill no more than half the capacity of one table.
InOneHome ==
    LET t == cuckoo.tables
    IN  /\ \A side \in {1, 2} : \A idx \in Occupied(t, side) :
              LET key == t[side][idx].key
              IN  idx = Home(t, side, key) /\ ~(IsAt(t, 1, key) /\ IsAt(t, 2, key))
        /\ cuckoo.size = SizeOf(t)
        /\ 2 * cuckoo.size <= Capacity(t)
===============================================================================
