------------------------------ MODULE HashJoin ------------------------------
(***************************************************************************)
(* One join node (src/src/execute.cpp, JoinAlgorithm::run): the parallel   *)
(* collection of the build side (SlabCollect), the build of the hash table *)
(* and the parallel probe with its merge (JoinProbe), one after the other  *)
(* on the same data.  The build is one step here: it turns the cells the   *)
(* slabs hold into the table find looks into, which is what UnchainedHash  *)
(* shows of its interleavings (FindExact).                                 *)
(* The join implements RelationalJoin.                                     *)
(***************************************************************************)
EXTENDS JoinProbe

CONSTANTS
    CrcOf,              \* [Key -> Nat]: _mm_crc32_u32(0, key)
    RowsPerPartition,   \* 4096
    RangeSize, FlushAt, Capacity,   \* see SlabCollect
    None, Pending

VARIABLES
    stage,              \* collect, probe or done
    pc, next, row, hi, left, slabLocal, target, cur, slabAt, holder, chunks, chunk

collectVars == <<pc, next, row, hi, left, slabLocal, target, cur, slabAt, holder, chunks, chunk>>
vars == <<stage, collectVars, probeVars>>

BuildRel == IF BuildLeft THEN Left ELSE Right
BuildCol == (IF BuildLeft THEN LeftCol ELSE RightCol) + 1

\* build_rel.empty() ? 0 : build_rel[0].size()
BuildRows == IF BuildRel = <<>> THEN 0 ELSE Len(BuildRel[1])
BuildKey == [r \in 0 .. (BuildRows - 1) |-> BuildRel[BuildCol][r + 1]]
Keys == DOMAIN CrcOf

\* while (p < n) p <<= 1; n is at most 64
PowersOfTwo == {1, 2, 4, 8, 16, 32, 64}
PowerAtLeast(n) == CHOOSE p \in PowersOfTwo : p >= n /\ \A q \in PowersOfTwo : q >= n => q >= p

\* min(64, max(1, n / 4096)), rounded up to a power of two
NumPartitions ==
    LET n == Max({BuildRows, ProbeRows})
    IN  IF n = 0 THEN 1
        ELSE PowerAtLeast(Min({64, Max({1, n \div RowsPerPartition})}))

\* The relations' columns have lengths, the CRC is known of every key of the build
\* column, and the program's numbers are positive.
ASSUME JoinAssumption ==
    /\ NumThreads \in Nat \ {0}
    /\ GrainSize \in Nat \ {0}
    /\ RowsPerPartition \in Nat \ {0}
    /\ RangeSize \in Nat \ {0}
    /\ FlushAt \in Nat \ {0}
    /\ Capacity \in Nat \ {0}
    /\ OutputAttrs \in Seq(Nat)
    /\ BuildRows \in Nat
    /\ ProbeRows \in Nat
    /\ CrcOf \in [Keys -> Nat]
    /\ \A r \in DOMAIN BuildKey : BuildKey[r] \in Keys \union {NullValue}
    /\ NullValue \notin Keys
    /\ None \notin Worker
    /\ None \notin DOMAIN BuildKey

Collect == INSTANCE SlabCollect WITH
    Thread <- Worker,
    Partition <- 0 .. (NumPartitions - 1),
    KeyOf <- BuildKey,
    Key <- Keys,
    PartOf <- [k \in Keys |-> CrcOf[k] % NumPartitions],
    Null <- NullValue,
    local <- slabLocal,
    at <- slabAt

Init ==
    /\ stage = "collect"
    /\ Collect!Init
    /\ ProbeInit
    /\ table = <<>>

CollectStep ==
    /\ stage = "collect"
    /\ \E t \in Worker : Collect!ThreadStep(t)
    /\ UNCHANGED <<stage, probeVars>>

\* MUTANT: the newest chunk of every partition is taken, not its whole list.
BuildNewest ==
    /\ stage = "collect"
    /\ Collect!AllDone
    /\ table' = [v \in {w \in Collect!Visited : w[1] = Collect!Current(w[1][1])} |->
                    [key |-> BuildKey[Collect!RowAt(v)], row |-> Collect!RowAt(v)]]
    /\ stage' = "probe"
    /\ UNCHANGED <<collectVars, global_idx, at, end, stopped, local, out, results>>

\* hash_table.build_from_slabs(level3, num_partitions)
Build ==
    /\ stage = "collect"
    /\ Collect!AllDone
    /\ table' = [v \in Collect!Visited |->
                    [key |-> BuildKey[Collect!RowAt(v)], row |-> Collect!RowAt(v)]]
    /\ stage' = "probe"
    /\ UNCHANGED <<collectVars, global_idx, at, end, stopped, local, out, results>>

Probe ==
    /\ stage = "probe"
    /\ \/ \E t \in Worker : ProbeStep(t)
       \/ MergeColumn
    /\ UNCHANGED <<stage, collectVars>>

Return ==
    /\ stage = "probe"
    /\ Merged
    /\ stage' = "done"
    /\ UNCHANGED <<collectVars, probeVars>>

Done == stage = "done" /\ UNCHANGED vars

Next == CollectStep \/ Build \/ Probe \/ Return \/ Done

\* Every step of the join is taken by a thread that the system schedules.
Spec == Init /\ [][Next]_vars /\ WF_vars(CollectStep \/ Build \/ Probe \/ Return)

-----------------------------------------------------------------------------
\* The rows a set of columns holds: columns are tied together by position.
Aligned(columns) == \A o, q \in Out : Len(columns[o]) = Len(columns[q])
RowOf(columns, i) == [o \in Out |-> columns[o][i]]

\* While threads interleave, the output columns of each stay aligned, and what
\* stands at one position of them comes from ONE matching pair of rows.
RowsFromPairs ==
    \A t \in Worker :
        /\ Aligned(local[t])
        /\ \A q \in Out : \A i \in DOMAIN local[t][q] :
              \E b \in DOMAIN BuildKey, p \in 1 .. ProbeRows :
                  /\ BuildKey[b] = ProbeRel[ProbeCol][p]
                  /\ BuildKey[b] # NullValue
                  /\ RowOf(local[t], i) = [o \in Out |->
                        IF BuildLeft THEN Accessor(o, b, p - 1) ELSE Accessor(o, p - 1, b)]

\* How often each row is in the result.
ResultBag ==
    [values \in {RowOf(results, i) : i \in DOMAIN results[1]} |->
        Cardinality({i \in DOMAIN results[1] : RowOf(results, i) = values})]

\* The join, whatever its threads do, delivers the relational join, once: every
\* match is in it as often as the database has it.
Relational == INSTANCE RelationalJoin WITH
    result <- IF stage = "done" THEN (IF Aligned(results) THEN ResultBag ELSE <<>>) ELSE Pending

DeliversJoin == Relational!Safety

\* It does deliver it: run returns, whichever threads find no range, no grain or
\* no match.
JoinReturns == <>(stage = "done")
=============================================================================
