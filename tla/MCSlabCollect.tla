--------------------------- MODULE MCSlabCollect ---------------------------
(***************************************************************************)
(* A small instance of SlabCollect: three threads, two partitions, six     *)
(* build rows of which one has a NULL key.  A flush is due at two rows, so *)
(* buffers of mixed keys are stored in one partition; a chunk holds two    *)
(* tuples, so chunk lists grow; the first of a thread's rows may also be   *)
(* left over at the barrier.                                               *)
(***************************************************************************)
EXTENDS SlabCollect

CONSTANTS t1, t2, t3, a, b

Threads == {t1, t2, t3}
Partitions == {0, 1}
KeyColumn == [r \in 0 .. 5 |-> CASE r = 2 -> Null [] r \in {0, 3, 4} -> a [] OTHER -> b]
KeyPartition == [k \in {a, b} |-> IF k = a THEN 0 ELSE 1]
=============================================================================
