------------------------------ MODULE HashTables ------------------------------
(***************************************************************************)
(* The three hash tables a build can choose instead of the unchained one   *)
(* (src/src/macro.h), filled side by side with the same pairs.  The values *)
(* of a key are numbered in the order they are emplaced.                   *)
(***************************************************************************)
EXTENDS Naturals, Sequences

CONSTANTS
    Keys,
    HashOf,             \* hash of a key for Robin Hood and hopscotch
    Hash1, Hash2,       \* mixed hashes of a key for the cuckoo tables
    NeighborhoodSize, MaxBits,
    MinCapacity, MaxKicks, MaxBuildKicks,
    Expected,           \* numbers of elements a constructor or reserve is given
    MaxPerKey,          \* BOUND: values emplaced of a key
    Empty

\* Keys of equal hashes are rehashed for ever in the hopscotch table and the
\* cuckoo tables if there are more than find a place.
ASSUME HashesDiffer ==
    /\ HashOf \in [Keys -> Nat]
    /\ Hash1 \in [Keys -> Nat] /\ Hash2 \in [Keys -> Nat]
    /\ \A k, l \in Keys : k # l => HashOf[k] # HashOf[l] /\ Hash1[k] # Hash1[l]

VARIABLES
    robin, hop, returned, cuckoo,
    emplaced        \* history: how many values of a key have been emplaced

vars == <<robin, hop, returned, cuckoo, emplaced>>

RobinHood == INSTANCE RobinHoodHash
Hopscotch == INSTANCE HopscotchHash
Cuckoo    == INSTANCE CuckooHash

Init ==
    /\ \E expected \in Expected :
          RobinHood!Init(expected) /\ Hopscotch!Init(expected) /\ Cuckoo!Init(expected)
    /\ emplaced = [k \in Keys |-> 0]

Emplace(key) ==
    LET val == emplaced[key] + 1
    IN  /\ emplaced[key] < MaxPerKey
        /\ RobinHood!Emplace(key, val)
        /\ Hopscotch!Emplace(key, val)
        /\ Cuckoo!Emplace(key, val)
        /\ emplaced' = [emplaced EXCEPT ![key] = val]

\* CuckooMultiMap::reserve, between insertions
Reserve ==
    /\ \E expected \in Expected : Cuckoo!Reserve(expected)
    /\ UNCHANGED <<robin, hop, returned, emplaced>>

Next == (\E key \in Keys : Emplace(key)) \/ Reserve

Spec == Init /\ [][Next]_vars

-----------------------------------------------------------------------------

\* test_robinhood.cpp, test_hopscotch.cpp: through collisions, swaps, moves and
\* rehashes, find returns the last value of every key and end() for the others.
FindsLatest ==
    \A key \in Keys :
        /\ RobinHood!Lookup(key, 0) = emplaced[key]
        /\ Hopscotch!Lookup(key, 0) = emplaced[key]

\* test_cuckoo.cpp: a key keeps all its values in order, through kicks, rebuilds
\* and reserve, and no key is found that was not emplaced.
KeepsAll ==
    \A key \in Keys : Cuckoo!Lookup(key, <<>>) = [v \in 1 .. emplaced[key] |-> v]

\* Every pair is where its table's find looks: in Robin Hood's order of distances, on
\* which the early end of find rests; in hopscotch's neighborhoods, after moves and
\* rehashes inside of rehashes; in one of a key's homes in the cuckoo tables, which are
\* never more than half full.
PairsWhereFindLooks ==
    /\ RobinHood!Ordered
    /\ Hopscotch!BitsTellPairs
    /\ Cuckoo!InOneHome

\* test_hopscotch.cpp: emplace returns the bucket of the pair just emplaced, also
\* after it had to rehash, and whether the key is new.
HopscotchReturns ==
    [][\A key \in Keys : emplaced'[key] # emplaced[key] =>
          /\ hop'.kv[returned'.idx] = [key |-> key, val |-> emplaced'[key]]
          /\ returned'.inserted = (emplaced[key] = 0)]_vars
===============================================================================
