----------------------------- MODULE MCHashTables -----------------------------
(***************************************************************************)
(* Six keys that collide in small tables.  Robin Hood and hopscotch: two   *)
(* keys share bucket 8 of 11, three the next one, and one has bucket 0, so *)
(* that pairs are swapped and moved around the end of the table, which is  *)
(* bucket 10; of 5 buckets two keys share the last.  Cuckoo: three keys    *)
(* share both homes up to a capacity of 16, so that kicks run out and a    *)
(* rebuild of 16 fails; the others are placed by one or three kicks, in    *)
(* emplace and in rebuilds.                                                *)
(***************************************************************************)
EXTENDS HashTables

MCKeys == 1 .. 6
MCHashOf == <<8, 19, 9, 22, 31, 20>>
MCHash1 == <<0, 16, 32, 1, 17, 48>>
MCHash2 == <<3, 3, 3, 0, 9, 32>>
===============================================================================
