---------------------------- MODULE MCHashJoin ----------------------------
(***************************************************************************)
(* Two threads join five left with four right rows.  Both key columns hold *)
(* a NULL and a duplicate key, one key is on the left only.  The outputs   *)
(* take a column of either side, right before left.  Buffers of two and    *)
(* chunks of one tuple let flushes mix partitions and chunk lists grow;    *)
(* the last grain of the probe is short.                                   *)
(***************************************************************************)
EXTENDS HashJoin

LeftRel == << <<7, NullValue, 7, 8, 9>>, <<"l1", "l2", "l3", "l4", "l5">> >>
RightRel == << <<"r1", "r2", "r3", "r4">>, <<7, 8, NullValue, 7>> >>
Attrs == <<2, 1>>
Crc == [k \in {7, 8, 9} |-> k]
=============================================================================
