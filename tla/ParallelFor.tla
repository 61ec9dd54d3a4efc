----------------------------- MODULE ParallelFor -----------------------------
(***************************************************************************)
(* What FilterThreadPool promises its callers: run(function, n) applies    *)
(* function to every task 0 .. n-1 exactly once, all of it between the     *)
(* call and the return.                                                    *)
(***************************************************************************)
EXTENDS Integers

CONSTANTS TaskCounts, MaxRuns

VARIABLES
    running,    \* a call is in progress
    applied,    \* applied[k]: how often task k was applied in this call
    runs        \* calls so far

vars == <<running, applied, runs>>

Init ==
    /\ running = FALSE
    /\ applied = [k \in {} |-> 0]
    /\ runs = 0

Call ==
    /\ ~running
    /\ runs < MaxRuns
    /\ \E n \in TaskCounts : applied' = [k \in 0 .. (n - 1) |-> 0]
    /\ runs' = runs + 1
    /\ running' = TRUE

Apply(S) ==
    /\ running
    /\ \A k \in S : applied[k] = 0
    /\ applied' = [k \in DOMAIN applied |-> IF k \in S THEN 1 ELSE applied[k]]
    /\ UNCHANGED <<running, runs>>

Return ==
    /\ running
    /\ \A k \in DOMAIN applied : applied[k] = 1
    /\ running' = FALSE
    /\ UNCHANGED <<applied, runs>>

Next ==
    \/ Call
    \/ \E S \in SUBSET (DOMAIN applied) : Apply(S)
    \/ Return

\* Every task once, between the call and the return.
Safety == Init /\ [][Next]_vars
=============================================================================
