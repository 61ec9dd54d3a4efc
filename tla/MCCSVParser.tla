----------------------------- MODULE MCCSVParser -----------------------------
(***************************************************************************)
(* A small instance of CSVParser: all texts of up to MaxText characters,   *)
(* and tables of fields that need quotes, escapes or neither.              *)
(***************************************************************************)
EXTENDS CSVParser, FiniteSets

CONSTANT MaxText    \* BOUND: characters of a text that is not written

Characters == {"x", "comma", "lf", "cr", "quote", "backslash"}
ShortTexts == UNION {[1 .. n -> Characters] : n \in 0 .. MaxText}

Fields == {<<>>, <<"x">>, <<"quote">>, <<"backslash", "x">>, <<"x", "backslash">>,
           <<"comma", "backslash", "quote">>, <<"cr", "lf">>}
Pair == {<<>>, <<"x", "backslash">>, <<"cr", "quote">>}
SmallTables ==
    UNION {[1 .. rows -> [1 .. 1 -> Fields]] : rows \in 1 .. 2}
    \union [1 .. 1 -> [1 .. 2 -> Fields]]
    \union [1 .. 2 -> [1 .. 2 -> Pair]]
==============================================================================
