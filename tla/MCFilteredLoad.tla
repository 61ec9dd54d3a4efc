--------------------------- MODULE MCFilteredLoad ---------------------------
(***************************************************************************)
(* A small instance of FilteredLoad: three records fill one byte of two    *)
(* bits and half of another.  Integers have two bits, so the literal 2 is  *)
(* narrowed to -2; -1 is below the 0 that stands for NULL, 1 above it.     *)
(***************************************************************************)
EXTENDS FilteredLoad

Integers2Bit == {-1, 1}
Literals == {1, 2}
=============================================================================
