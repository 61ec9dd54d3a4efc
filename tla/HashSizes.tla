------------------------------ MODULE HashSizes -------------------------------
(***************************************************************************)
(* What the Robin Hood and the hopscotch table share: the prime sizes and  *)
(* the buckets, numbered from 0 (src/src/RobinHoodHash.h,                  *)
(* src/src/HopscotchHash.h).                                               *)
(***************************************************************************)
EXTENDS Naturals, Sequences, SequencesExt, FiniteSets

CONSTANT Empty      \* a bucket without a pair

IsPrime(n) == n >= 2 /\ \A d \in 2 .. (n - 1) : n % d # 0

\* There is a prime between n and 2 * n.
NextPrime(n) == Min({p \in n .. (2 * n + 2) : IsPrime(p)})

\* The size of a table for an expected number of elements, and of the table after.
InitialSize(expected) == NextPrime(2 * Max({1, expected}))
RehashSize(size) == NextPrime(2 * Max({2, size}))

EmptyTable(size) == [idx \in 0 .. (size - 1) |-> Empty]
SizeOf(table) == Cardinality(DOMAIN table)

\* The pairs of a table in the order of its buckets.
Pairs(table) ==
    SelectSeq([i \in 1 .. SizeOf(table) |-> table[i - 1]], LAMBDA b : b # Empty)

\* How many buckets idx is behind base, around the end of a table.
Behind(base, idx, size) == (idx + size - base) % size
===============================================================================
