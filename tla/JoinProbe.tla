----------------------------- MODULE JoinProbe -----------------------------
(***************************************************************************)
(* The parallel probe of the hash table and the merge of the threads'      *)
(* results (src/src/execute.cpp, JoinAlgorithm::run from the accessors to  *)
(* its end).                                                               *)
(*                                                                         *)
(* The threads steal grains of probe rows from one atomic counter.  Every  *)
(* match appends one value to EACH of the thread's output columns, which   *)
(* only their position ties together; after the region one thread appends  *)
(* the columns of all threads, column by column.                           *)
(***************************************************************************)
EXTENDS Integers, Sequences, FiniteSets, SequencesExt

CONSTANTS
    NumThreads,         \* omp_get_max_threads()
    Left, Right,        \* relations: sequences of columns, a column a sequence of values
    LeftCol, RightCol,  \* key columns, counted from 0
    BuildLeft,          \* build_left
    OutputAttrs,        \* output_attrs, counted from 0 over left and right
    GrainSize,          \* grain_size: 4096
    NullValue

VARIABLES
    table,              \* the hash table: position -> [key, row]
    global_idx,         \* the atomic counter
    at, end,            \* rows at[t] .. end[t] - 1 of t's grain are still to be probed
    stopped,            \* threads that found no grain
    local,              \* local[t][out]: all_thread_results[t][out]
    out,                \* column the merge appends next
    results             \* results[out]

probeVars == <<table, global_idx, at, end, stopped, local, out, results>>

Worker == 0 .. (NumThreads - 1)
Out == DOMAIN OutputAttrs

ProbeRel == IF BuildLeft THEN Right ELSE Left
ProbeCol == (IF BuildLeft THEN RightCol ELSE LeftCol) + 1
ProbeRows == IF ProbeRel = <<>> THEN 0 ELSE Len(ProbeRel[1])

ProbeInit ==
    /\ global_idx = 0
    /\ at = [t \in Worker |-> 0]
    /\ end = [t \in Worker |-> 0]
    /\ stopped = {}
    /\ local = [t \in Worker |-> [o \in Out |-> <<>>]]
    /\ out = 1
    /\ results = [o \in Out |-> <<>>]

-----------------------------------------------------------------------------
\* OutputAccessor: an attribute of the left relation comes before all of the right
Accessor(o, left_row, right_row) ==
    LET idx == OutputAttrs[o]
    IN  IF idx < Len(Left) THEN Left[idx + 1][left_row + 1]
                           ELSE Right[idx - Len(Left) + 1][right_row + 1]

\* MUTANT: the accessors of a join that always builds left.
OutputValueBuildLeft(o, match, i) == Accessor(o, match, i)

\* The value output column o gets for build row match and probe row i.
OutputValue(o, match, i) ==
    IF BuildLeft THEN Accessor(o, match, i) ELSE Accessor(o, i, match)

\* hash_table.find(key), in any of the orders a parallel build may leave.
Find(key) == SetToSeqs({p \in DOMAIN table : table[p].key = key})

-----------------------------------------------------------------------------
\* MUTANT: the counter advances by one row less than a grain.
StealShort(t) ==
    /\ t \notin stopped
    /\ at[t] = end[t]
    /\ IF global_idx >= ProbeRows
       THEN /\ stopped' = stopped \union {t}
            /\ UNCHANGED <<at, end, global_idx>>
       ELSE /\ at' = [at EXCEPT ![t] = global_idx]
            /\ end' = [end EXCEPT ![t] = Min({global_idx + GrainSize, ProbeRows})]
            /\ global_idx' = global_idx + GrainSize - 1
            /\ UNCHANGED stopped
    /\ UNCHANGED <<table, local, out, results>>

\* MUTANT: a grain is not cut off at the last row.
StealPastEnd(t) ==
    /\ t \notin stopped
    /\ at[t] = end[t]
    /\ global_idx' = global_idx + GrainSize
    /\ IF global_idx >= ProbeRows
       THEN /\ stopped' = stopped \union {t}
            /\ UNCHANGED <<at, end>>
       ELSE /\ at' = [at EXCEPT ![t] = global_idx]
            /\ end' = [end EXCEPT ![t] = global_idx + GrainSize]
            /\ UNCHANGED stopped
    /\ UNCHANGED <<table, local, out, results>>

\* MUTANT: the counter ends at the last row, and a thread stops beyond it.
StealCapped(t) ==
    /\ t \notin stopped
    /\ at[t] = end[t]
    /\ global_idx' = Min({global_idx + GrainSize, ProbeRows})
    /\ IF global_idx > ProbeRows
       THEN /\ stopped' = stopped \union {t}
            /\ UNCHANGED <<at, end>>
       ELSE /\ at' = [at EXCEPT ![t] = global_idx]
            /\ end' = [end EXCEPT ![t] = Min({global_idx + GrainSize, ProbeRows})]
            /\ UNCHANGED stopped
    /\ UNCHANGED <<table, local, out, results>>

\* global_idx.fetch_add(grain_size); the counter runs past probe_rows
Steal(t) ==
    /\ t \notin stopped
    /\ at[t] = end[t]
    /\ global_idx' = global_idx + GrainSize
    /\ IF global_idx >= ProbeRows
       THEN /\ stopped' = stopped \union {t}
            /\ UNCHANGED <<at, end>>
       ELSE /\ at' = [at EXCEPT ![t] = global_idx]
            /\ end' = [end EXCEPT ![t] = Min({global_idx + GrainSize, ProbeRows})]
            /\ UNCHANGED stopped
    /\ UNCHANGED <<table, local, out, results>>

\* One probe row: skipped if its key is NULL, else every match is appended.
ProbeRow(t) ==
    /\ at[t] < end[t]
    /\ LET i == at[t]
           key == ProbeRel[ProbeCol][i + 1]
       IN  IF key = NullValue
           THEN UNCHANGED local
           ELSE \E matches \in Find(key) :
                  local' = [local EXCEPT ![t] = [o \in Out |->
                     @[o] \o [m \in DOMAIN matches |-> OutputValue(o, table[matches[m]].row, i)]]]
    /\ at' = [at EXCEPT ![t] = @ + 1]
    /\ UNCHANGED <<table, global_idx, end, stopped, out, results>>

\* The merge appends the threads' columns in the order of the thread ids.
MergeColumn ==
    /\ stopped = Worker
    /\ out <= Len(OutputAttrs)
    /\ results' = [results EXCEPT ![out] =
                     @ \o FlattenSeq([n \in 1 .. NumThreads |-> local[n - 1][out]])]
    /\ out' = out + 1
    /\ UNCHANGED <<table, global_idx, at, end, stopped, local>>

Merged == out > Len(OutputAttrs)

ProbeStep(t) == Steal(t) \/ ProbeRow(t)

-----------------------------------------------------------------------------
\* The counter, the grains and the columns.
ProbeTypeOK ==
    /\ global_idx \in 0 .. (ProbeRows + (NumThreads + 1) * GrainSize)
    /\ at \in [Worker -> 0 .. ProbeRows]
    /\ end \in [Worker -> 0 .. ProbeRows]
    /\ stopped \subseteq Worker
    /\ \A t \in Worker : at[t] <= end[t] /\ DOMAIN local[t] = Out
    /\ out \in 1 .. (Len(OutputAttrs) + 1)
    /\ DOMAIN results = Out

\* No two threads probe the same row: the grains in progress are disjoint, and
\* lie below the counter.
GrainsDisjoint ==
    \A t \in Worker :
        /\ end[t] <= global_idx
        /\ \A u \in Worker \ {t} :
              (at[t] .. (end[t] - 1)) \intersect (at[u] .. (end[u] - 1)) = {}
=============================================================================
