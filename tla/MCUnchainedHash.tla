-------------------------- MODULE MCUnchainedHash --------------------------
(***************************************************************************)
(* A small instance of UnchainedHash.  Four keys: k1 and k2 share a slot   *)
(* and the tag of k1 lies within that of k2, k3 has the last slot, k4 is   *)
(* on no tuple but shares slot and tag bits with k1.  Sizes are what the   *)
(* constructor computes.                                                   *)
(***************************************************************************)
EXTENDS UnchainedHash, Bitwise

CONSTANTS t1, t2, t3, p1, p2, p3, x1, x2, x3, x4, x5, k1, k2, k3, k4

\* n - 1 with its highest bit smeared to the right, plus one: the next power
NextPowerOfTwo(n) == CHOOSE q \in {2 ^ i : i \in 0 .. n} :
                        q >= n /\ (q = 1 \/ q \div 2 < n)

DirSizeFor(expected) == NextPowerOfTwo(IF expected > 0 THEN expected * 2 ELSE 4)
BloomBitsFor(expected) == NextPowerOfTwo(IF expected > 0 THEN expected * 4 ELSE 64)

MixHash1(h) == LET x == h ^^ (h \div 65536) IN x ^^ (x * 8)
MixHash2(h) == LET x == h ^^ (h \div 131072) IN x ^^ (x * 32)

Threads == {t1, t2, t3}
Partitions == {p1, p2, p3}
Tuples == {x1, x2, x3, x4, x5}
Keys == {k1, k2, k3, k4}

Hashes == [k \in Keys |-> CASE k = k1 -> 0 [] k = k2 -> 16 [] k = k3 -> 15 [] k = k4 -> 65536]
Slabs == [x \in Tuples |-> CASE x \in {x1, x3} -> p1 [] x \in {x2, x4} -> p2 [] OTHER -> p3]
TupleKeys == [x \in Tuples |-> CASE x \in {x1, x2} -> k1 [] x \in {x3, x5} -> k2 [] OTHER -> k3]

\* The table is constructed for build_rows: six rows, one with a NULL key.
BuildRows == 6
DirectorySize == DirSizeFor(BuildRows)
BloomBitCount == BloomBitsFor(BuildRows)
=============================================================================
