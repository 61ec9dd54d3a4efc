------------------------------- MODULE QueryRun -------------------------------
(***************************************************************************)
(* The life of a query: its input tables are loaded, from a cache file or  *)
(* from CSV (ColumnMemory), its plan is executed (PlanExecutor), which     *)
(* reads the pages of the inputs in place until the output is complete,    *)
(* and inputs and output are destroyed.                                    *)
(***************************************************************************)
EXTENDS PlanExecutor

CONSTANT NoMapping      \* nullptr of Column::mapped_memory

ASSUME MappingAssumption == NoMapping \notin {0} \union DOMAIN Inputs

VARIABLES
    phase,          \* load, execute, output, destroy
    cached,         \* tables with a cache file
    tables, heap, allocated, mappings, misfreed

Memory == INSTANCE ColumnMemory WITH None <- NoMapping

memoryVars == <<tables, heap, allocated, mappings, misfreed>>
queryVars == <<phase, cached, execVars, memoryVars>>

Names == DOMAIN Inputs
OutputName == 0     \* inputs are named 1, 2, ...

LoadedColumns(t) == IF t \in DOMAIN tables THEN Len(tables[t].columns) ELSE 0
Loaded == \A t \in Names : LoadedColumns(t) = Len(Inputs[t].columns)

\* DumpTable::dump: a cache file has the pages of column after column.
DumpedPages(t) == FlattenSeq([c \in DOMAIN Inputs[t].columns |-> Inputs[t].columns[c].pages])

\* from_cache counts through them by the page numbers DumpTable recorded.
PagesBefore(t, c) ==
    LET before[i \in 0 .. c] == IF i = 0 THEN 0 ELSE before[i - 1] + Len(Inputs[t].columns[i].pages)
    IN  before[c]

QueryInit ==
    /\ phase = "load"
    /\ cached \in SUBSET Names
    /\ ExecInit
    /\ Memory!MemoryInit

\* One column of the first table that is not complete.
Load ==
    /\ phase = "load"
    /\ IF Loaded
       THEN phase' = "execute" /\ UNCHANGED memoryVars
       ELSE LET t == Min({u \in Names : LoadedColumns(u) < Len(Inputs[u].columns)})
                c == LoadedColumns(t)
            IN  /\ IF t \in cached
                   THEN Memory!AddMappedColumn(t, (PagesBefore(t, c) + 1) .. PagesBefore(t, c + 1))
                   ELSE Memory!AddOwnedColumn(t, Len(Inputs[t].columns[c + 1].pages))
                /\ UNCHANGED phase
    /\ UNCHANGED <<cached, execVars>>

Execute ==
    /\ phase = "execute"
    /\ IF plan.root \notin DOMAIN result
       THEN ExecuteNode /\ UNCHANGED <<phase, memoryVars>>
       ELSE /\ Memory!ReserveColumns(OutputName, Len(Attrs(plan.root)))
            /\ phase' = "output"
            /\ UNCHANGED execVars
    /\ UNCHANGED cached

\* A column gets its page with the first rows; here all its rows fit.
Output ==
    /\ phase = "output"
    /\ IF Executed
       THEN phase' = "destroy" /\ UNCHANGED <<execVars, memoryVars>>
       ELSE \E j \in Outputs :
              /\ OutputStep(j)
              /\ IF filled[j] = 0 THEN Memory!NewPage(OutputName, j)
                                ELSE UNCHANGED memoryVars
              /\ UNCHANGED phase
    /\ UNCHANGED cached

Destroy ==
    /\ phase = "destroy"
    /\ \E t \in DOMAIN tables : Memory!DestroyTable(t)
    /\ UNCHANGED <<phase, cached, execVars>>

QueryDone == phase = "destroy" /\ DOMAIN tables = {} /\ UNCHANGED queryVars

QueryNext == Load \/ Execute \/ Output \/ Destroy \/ QueryDone

\* Every step is one the program takes next, or a thread of the output that the
\* system schedules.
QuerySpec == QueryInit /\ [][QueryNext]_queryVars /\ WF_queryVars(Load \/ Execute \/ Output \/ Destroy)

-----------------------------------------------------------------------------
\* The pages that from_cache gives a column are those that were dumped for it.
MappedAsDumped ==
    \A t \in cached \intersect DOMAIN tables : \A c \in DOMAIN tables[t].columns :
        LET places == {page[2] : page \in tables[t].columns[c].pages}
            rank(k) == Cardinality({i \in places : i <= k})
        IN  /\ Cardinality(places) = Len(Inputs[t].columns[c].pages)
            /\ \A k \in places : DumpedPages(t)[k] = Inputs[t].columns[c].pages[rank(k)]

\* Views point into the pages of the inputs and string indices name them, so these are
\* read until the last value of the last output column is inserted.
Reading ==
    /\ phase # "load"
    /\ plan.root \in DOMAIN result => \E j \in Outputs : Len(output[j]) < NumRows

\* While they may be read the inputs are complete and all their pages allocated: in a
\* mapping that lives, or in the heap.
ReadPagesLive ==
    Reading =>
        /\ Loaded
        /\ \A t \in Names \intersect DOMAIN tables : \A c \in DOMAIN tables[t].columns :
              LET column == tables[t].columns[c]
              IN  IF column.mapped_memory = NoMapping THEN column.pages \subseteq heap
                                                     ELSE column.mapped_memory \in DOMAIN mappings

\* The memory of the columns, through loading, growth, output and destruction: no
\* page is freed twice, never, or while execution and output may still read it, and a
\* mapped column has its own pages.
MemorySafe == Memory!PagesOwned /\ MappedAsDumped /\ ReadPagesLive

\* Whatever is left when the tables are destroyed, the output was the plan's answer.
AnswerDelivered == phase = "destroy" => OutputIsAnswer

\* ASSIGNMENT.md: executing the plan returns the joined rows.  Every execution ends
\* with the answer of the plan, whatever the order of a join's matches, the
\* sides it builds, and which columns are read in place.
DeliversAnswer == <>[](phase = "destroy" /\ OutputIsAnswer)
===============================================================================
