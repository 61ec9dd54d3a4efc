# Verification of the join engine

TLA+ modules that model the C++ engine of this repository, TLC configurations
that check them on small instances, and TLAPS proofs about ten components for
instances of every size. Paths are relative to the repository (`src/src/...` is its `src/`
directory). Every definition that stands for code is listed with its source
lines in `PROJECT.json` (`map`).

## 1. The system

The engine executes a plan of scans and equi-joins over columnar tables
(`Plan`, `ColumnarTable`). A CSV file is loaded into plain columns, filtered,
and turned into pages of 8 KiB; `execute` reads the pages, joins, and writes
pages again.

    CSV file -> CSVParser -> TableParser -> InnerColumn (table_cache)
                                               | filters: bitmaps, FilterThreadPool
                                               v
             ColumnInserter, to_columnar -> pages (result_cache)
                                               |  or pages of a mapped cache file
                                               v                     (from_cache)
                 execute_impl over the plan: execute_scan (copied or in place)
                                               v
       per join node: collect slabs -> build table -> probe -> merge
                                               v
                          materialize_string, ColumnInserter -> pages

| Component | State it keeps | Operations | What is hard |
|---|---|---|---|
| CSV parser (`src/src/csv_parser.cpp`) | current field, counters, six flags | `execute` per buffer, `finish` | a buffer may end between two characters that belong together; a second copy of the record end |
| Table loading (`src/src/build_table.cpp`) | a record in progress; `table_cache`, `result_cache` (global) | `on_field`, `from_csv`, `from_cache`, `DumpTable`, `copy_scan`, `from_columnar`, `to_columnar` | caches keyed by path, filtered and unfiltered loads share one; a second page writer; columns of a cache file told apart by counts only |
| Column filters (`src/src/statement.cpp`, `src/include/inner_column.h`) | bitmaps | comparisons, AND, OR, NOT | NULLs, padding bits, ranges of bytes cut by the pool |
| Filter thread pool (`src/include/inner_column.h`) | per worker: mutex, condition variable, three flags; shared: `function`, `num_tasks` | `run`, `run_loop`, destructor | two parties sleep on one condition variable; unprotected fields; a notification after the unlock |
| Pages (`src/include/plan.h`: `ColumnInserter`, `Column`) | pages, page in progress | `insert`, `insert_null`, `finalize` | hand-counted bytes, stale bitmap bits, markers that share a counter |
| Scan (`src/src/execute.cpp`: `ColumnCursor`, `execute_scan`, `PagedColumn`) | cursor per column | `next`, zero-copy view | one page's row count applied to all pages |
| Slab collection (`src/src/execute.cpp`, `Chunk`, `PartitionAlloc`) | per thread a buffer; per partition a mutex and a list of chunks | OpenMP loop, flush, leftovers | two copies of "lock, allocate, store"; seam between flush and leftover |
| Unchained hash table (`src/src/UnchainedHash.h`) | directory of atomics, Bloom filter, adjacency array | `build_from_slabs`, `find` | four separate atomics per tuple; a position handed out before it is written; offsets that change meaning |
| Probe and merge (`src/src/execute.cpp`) | atomic row counter, per-thread columns | steal a grain, probe, merge | columns tied together by position only; the counter overshoots |
| Plan executor (`execute_impl`, `execute_scan`, `JoinAlgorithm`, `execute`) | intermediate columns (`PagedColumn`) | recursion over the plan, parallel output | which columns are copied, which are read in the input's pages; one column's size stands for all |
| Column ownership (`Column`, `MappedMemory`) | pages, or a reference to a mapping | `new_page`, move, destroy | who deletes what when a vector of columns grows |
| Robin Hood, hopscotch, cuckoo tables | one table each | `emplace`, `find`, `reserve`, rehash, rebuild | displacement orders that `find` rests on; a rehash in the middle of an insertion |
| Test drivers, printing, hardware description | none that matters | - | - |

Components interact by calls on one thread, except at four places: the two
OpenMP regions of a join, the OpenMP regions of `build_from_slabs`, the OpenMP
loop over output columns, and the filter pool. Nothing is persisted while the
program runs and nothing is sent, so there are no crashes, messages or timeouts
to model. The hazards the code does have are listed, each at its line and
with the properties that cover it, in `PROJECT.json` (`hazards`).

What makes each component correct: the parser gives the same records wherever
the input is cut; a filter selects the rows its statement is true of; `run`
applies its function to every task once before it returns; a page gives back
what was put in; collection stores every row with a key once; the build stores
every tuple where `find` looks; the join is the relational one; a plan's output is
the nested join of its inputs, whatever was copied; every page is freed once, after
its last use; a hash table finds a key's last value, or all of them, across any
displacement.

## 2. Modules

| Module | Models | Abstracts |
|---|---|---|
| `UnchainedHash` | `build_from_slabs`, `find` | the order of tuples within a slab (left open), the words of 64 bits |
| `SlabCollect` | first parallel region of `JoinAlgorithm::run`, `Chunk`, `PartitionAlloc` | a tuple is its row; space counts tuples |
| `JoinProbe` | second parallel region and merge | values are model data |
| `HashJoin` | the join node: `SlabCollect` (INSTANCE) then the table then `JoinProbe` (EXTENDS) | the build is one step, its interleavings are `UnchainedHash`'s |
| `RelationalJoin` | abstract: the bag of matching pairs, projected | |
| `FilterThreadPool` | pool, every lock, wait, wake-up and notification | the function is "these tasks" |
| `ParallelFor` | abstract: every task once between call and return | |
| `FixedPages` | both page writers (`ColumnInserter<T>`, `to_columnar`) and all readers (`ColumnCursor`, the view, `copy_scan`, `from_columnar`), byte by byte | a value is its row number |
| `StringPages` | both writers for VARCHAR, cursor and `materialize_string` with the page number of a `StringIndex`, `copy_scan` and `from_columnar` | a character is its string and index |
| `PlanExecutor` | `execute_impl`, `execute_scan`, the sides and outputs of a join, `PagedColumn`, the output loop of `execute` | a page is the sequence of its values; a join leaves its matches in any order |
| `ColumnMemory` | `Column`, `MappedMemory`, a vector of columns that grows | a page is its name |
| `QueryRun` | a query's life: inputs loaded (`ColumnMemory` by INSTANCE), plan executed (`PlanExecutor` by EXTENDS), tables destroyed | |
| `HashSizes`, `RobinHoodHash`, `HopscotchHash`, `CuckooHash` | sizes and the three other tables | keys are numbers, hash values are given |
| `HashTables` | the three filled side by side | |
| `CSVParser` | `execute` and `finish` with every flag; `TableParser::on_field` over the fields | a field's value is its text |
| `FilteredLoad` | `from_csv` from records to result, with columns, kernels, statements, caches | one INT32 and one VARCHAR column; `like_match` is set membership; conversions of fields |

`MC...` modules hold the instances, `...Proofs` modules the theorems about the module
they are named after, `CommonLemmas` the lemmas that several of them share (section 4).
`FilteredLoadProofs` holds the theorems about `FilterThreadPool` too, on which the
kernels of a filter run. `ExecutionProofs` holds those about a join node (`HashJoin`) and those
about a query (`QueryRun`, with `PlanExecutor` and `ColumnMemory`).

### How state and actions correspond

*UnchainedHash.* `offset`, `tag` are the two halves of a directory word,
`bloom` the bits of the filter, `pos[t]` the local variable between
`fetch_add` and the store. Each atomic read-modify-write is an action
(`CountAdd`, `OrTag`, `SetBloom1`, `SetBloom2`, `FetchAdd`, `WriteAdjacency`),
and so is every turn of the two sequential loops (`PrefixStep`, `SlideStep`,
`SlideFirst`). Relaxed ordering is sound to model as interleaving here because
the phases are separated by OpenMP barriers and, within a phase, threads read
only what their own atomic returns. Any thread may take any partition that is
left, as OpenMP's schedules allow.

*SlabCollect.* `Claim` takes a range of the guided loop, `Buffer`/`SkipNull` a
row of it; a full buffer goes to `Lock`, then per row `Allocate` and `Store`,
then `Unlock`; after the loop's barrier the rest goes row by row through the
same steps. `schedule(guided, chunk)` is any range of at least the chunk size
(or what is left).

*JoinProbe / HashJoin.* `Steal` is the `fetch_add`, `ProbeRow` one probe row
with all its matches (it touches only the thread's own columns), `MergeColumn`
one output column. `Find` may give the matches in any order.

*FilterThreadPool.* A worker is at `lock`, `check`, `wait`, `finish`, `notify`
or `exited`; the caller walks `arm`, `notify`, `await/check/wait/relock`, and
for the destructor `flag`, `wake`, `join`; `place` is the index of the loop it is in.
`pc[w] = "wait"` says that worker `w` is in the wait set of its condition variable. `notify_one` with nobody asleep is lost.
`SpuriousWake` is what `std::condition_variable` permits.

*FixedPages, StringPages.* One action per call of `insert`, `insert_null` and
`finalize`; saving a page is part of the call that does it. The readers are
operators over the finished pages. A page of `FixedPages` is its bytes, so that
an overlap of values and bitmap shows. `FormatRows` is what the page format says and
`copy_scan` reads; `CursorRows` is what `ColumnCursor::next` makes of it, which passes over
values of 8 bytes. `writer` tells the two writers apart where
their conditions differ (`Reserve`, `NextBits`); `to_columnar` collects a page in
vectors and copies it at once, which no reader can tell from writing in place.

*PlanExecutor, QueryRun.* `ExecuteNode` is one return of `execute_impl`, in the
order of the recursion; `result[n]` are the columns it returned, for the nodes whose
result is still held: a join's return destroys those of its children. A join's
matches are left in an order the step chooses, as `HashJoin` leaves them.
`OutputStep(j)` is one chunk or page of the output loop's column `j`; the OpenMP
threads' columns interleave. A string's index has the fields of `StringIndex`, reduced to
their widths (`TableIds`, `ColIds`, `PageIds`), and the text is looked up by it. `Load` adds one column of one input table, from a
cache file or not, in the order of `from_cache`; `Destroy` takes the tables in
any order.

*ColumnMemory.* `heap` are the allocated pages, `mappings` the reference counts
of mapped cache files, `misfreed` remembers a free of what was not live. A vector
that is full moves every column (`MovedFrom`) and destroys what was moved from;
its capacity doubles, as in the standard library the program is built with.

*RobinHoodHash, HopscotchHash, CuckooHash.* One action per `emplace` (and
`reserve`), with all the swaps, moves, kicks, rehashes and rebuilds inside it, as
the tables are used by one thread. The loops are recursive operators.

*CSVParser.* `Execute` is a whole call on the next buffer, of any length;
`Turn` is one turn of its loop, `ResumeEscape` and `ResumeNewline` the two
blocks in front of it. `Records` calls `TableParser::on_field` with one field after
the other that the parser gave out. Loops over characters and fields are recursive
functions. `Char` are the characters, of which five have a meaning.

*FilteredLoad.* A call of `from_csv` walks `parse`, `eval`, `copy`,
`returned`. A statement tree is evaluated children first on a stack; beside
each bitmap stands the set of rows `eval(record)` finds, so the two evaluators
are compared on every tree that can be built.

## 3. Runs

| Run | Instance | Checks |
|---|---|---|
| `unchained_build` | 3 threads, 3 partitions, 5 tuples, 4 keys with slot and tag collisions, one key on no tuple | `TypeOK`, `ExclusiveWrites`, `StoredInSlotRegion`, `FindExact`, `BuildEnds` |
| `slab_collect` | 3 threads, 2 partitions, 6 rows, flush at 2, chunks of 2 | `TypeOK`, `CellReserved`, `RowsInOnePlace`, `CollectEnds` |
| `hash_join` | building right, 2 threads, 5 x 4 rows, NULLs and duplicate keys on both sides, outputs of both sides | `ProbeTypeOK`, `GrainsDisjoint`, `RowsFromPairs`, `DeliversJoin` (refinement of `RelationalJoin`), `JoinReturns` |
| `filter_pool` | 3 workers, 0, 2 or 4 tasks, 2 calls, 1 spurious wake-up | `PoolTypeOK`, `CallerOwnsFunction`, `NoLostWakeup`, `ImplementsParallelFor` (refinement), `CallerReturns` |
| `fixed_pages` | pages of 24 bytes, values of 4 and 8, both writers, up to 11 rows | `TypeOK`, `RoundTrip`, `ViewSound` |
| `string_pages` | pages of 12 bytes, lengths 0, 1, 5, 6, 9, both writers, up to 10 rows, page numbers up to 5 | `TypeOK`, `MarkersReserved`, `CopyRoundTrip`, `RoundTrip` |
| `hash_tables` | six keys that collide, up to 2 values of each in every order, neighborhoods of 3, 3 kicks (4 in a rebuild), `reserve` at any time | `FindsLatest`, `KeepsAll`, `PairsWhereFindLooks`, `HopscotchReturns` |
| `query_run` | tables of 3, 4 and 0 rows with NULLs and strings, each with a cache file or not; a scan, a join, a join with an empty table, one of keys that are NULL on both sides, a join of a join with one table twice, every choice of build sides | `ColumnsAligned`, `MemorySafe`, `AnswerDelivered`, `DeliversAnswer` |
| `csv_parser` | all texts of up to 5 of 6 characters, plus all writings of small tables, every cut into buffers, both escapes, with and without trailing comma | `TypeOK`, `ChunkingInvisible`, `ReadsWhatWasWritten` |
| `filtered_load` | up to 3 rows with NULLs, bytes of 2 bits, 2 calls, statements of up to 2 comparisons on the stack and any negations | `TypeOK`, `FilterAgrees`, `ReturnsSelection` |
| `wide_pages` | 8-byte values, the inserter | finds `InserterKeepsFormat` violated |
| `string_layout` | VARCHAR page with a NULL | finds `CharsWhereDocumented` violated |

Why the bounds are enough. Sizes are scaled so that each limit is hit several
times: buffers fill and leave rests, chunk lists grow, the last grain is short,
a page fills, is saved and a second one is begun with stale bits, a string is
below, at and above the limit of a page and of two, a bitmap has a partial last
byte. `BitsPerByte` (8 in the code) is scaled down so that this happens with
few rows; a bit is still one row and a byte still one unit of space. Three
threads let two race while a third is elsewhere. Five characters hold every
pair that a cut can separate together with what must precede it (an opening
quote) and follow it. In `filtered_load` the literal 2 does not fit the two
bits of an integer and exercises the narrowing, -1 and 1 lie around the 0 that
stands for a NULL. In `hash_join` the data are fixed; the interleavings are not. Pages of 24 bytes
hold two values of 8 bytes with their bitmap and have a rest, so the two writers'
conditions come apart. In `hash_tables` the hashes put several keys into the last
buckets of tables of 5 and 11, so Robin Hood's swaps and hopscotch's moves go
around the end of a table; neighborhoods fill and a rehash happens inside a
rehash. Three keys share both cuckoo homes up to a capacity of 16: kicks run out
in `emplace`, the rebuild of 16 fails and that of 32 is needed. The other keys are
placed by one or three kicks, in `emplace` and in rebuilds. In `query_run` the key of one table is read in place over
pages of 2 and 1 rows, that of the other has its NULL on the second page only, so
that the first page alone would look like a view; chunks of 2 rows make every
result longer than a chunk; three columns make a vector grow twice. The fields of a
`StringIndex` have just the values the strings' tables, columns and pages need. The side a
join builds is a matter of the plan, so both are in `query_run` and `hash_join`
has one.

Fairness. `UnchainedHash`, `SlabCollect` and `FilterThreadPool` assume weak
fairness of each thread's next step (`HashJoin` only that of some thread, as
none can keep the join from its end alone): the operating system runs
every runnable thread, a free mutex is acquired by a thread that keeps waiting
for it, and a thread whose loop has work goes on. Nothing else is assumed; in
particular no fairness for spurious wake-ups, nor for a call of `run` or of the
destructor to be made. The pool's mutexes are each contended by two
parties that alternate, the slab mutexes are released after a bounded number of
steps, so weak fairness of the acquiring step is enough. `QueryRun` assumes that some step of the query is taken while
one can be: the main thread goes on, and a thread of the output loop with a column
left runs. The page, parser, loading and hash table modules are sequential and
state safety only.

What the runs show beyond "it holds":

* The pool's worker and caller never sleep on their common condition variable
  at once (`NoLostWakeup`), which is why `notify_one` is enough. The late
  notification, after the unlock, is harmless although the caller may already
  be in the next call.
* The slabs put a whole buffer into one partition, that of the row that filled
  it; a partition therefore does not hold one part of the keys. Nothing
  depends on it: the build visits all partitions (`RowsInOnePlace`,
  `DeliversJoin`).
* With `"` as the escape, a file that ends in a closing quote is refused
  (`QuoteNotClosed`), because the quote stays pending. `from_csv` uses `\`, so
  `ReadsWhatWasWritten` excludes just this case.
* A bitmap evaluation is two-valued: NOT of a comparison is true of a NULL.
  `eval(record)` agrees (`FilterAgrees`); SQL would not.
* An integer literal that does not fit 32 bits is narrowed in the column
  evaluation only (`statement.cpp:56`), so the two evaluations differ on it;
  `FilterAgrees` is stated for literals that fit.
* The page number of a `StringIndex` has 16 bits (scaled to `PageIds`):
  `RoundTrip` of `StringPages` and the answer of `QueryRun` (`IndexesFit`) are stated for columns
  whose pages it can number;
  a string on a later page is looked up on an early one. `copy_scan` has no such
  limit (`CopyRoundTrip`).
* `to_columnar` reserves the size of the type's value where `ColumnInserter`
  reserves 4 bytes: `RoundTrip` holds for it with values of 8 bytes. Columns that
  `from_csv` builds go through the inserter (see the findings).
* The cursor returns values of INT32 and VARCHAR columns only: in one of INT64 or
  FP64 `next` passes over every value, and a row's value is the next NULL
  (`CursorRows`), and `execute` fills no output column of these types.
  `RoundTrip` states the cursor's part for INT32, and plans are over INT32 and
  VARCHAR columns (`PlanAssumption`); `copy_scan` and `from_columnar` read all types.
* `find` of the Robin Hood table may stop early because every displacement and
  rehash leaves the distances in order (`PairsWhereFindLooks`). Its `emplace` says
  `true` and gives the bucket of whatever pair it placed last; nothing in the
  repository uses that, and the model leaves the return value out.
* The hopscotch table's `emplace` may rehash and call itself; what it returns is
  the bucket of the new pair all the same (`HopscotchReturns`).
* When kicks run out in the cuckoo tables a pair other than the new one is left
  in hand; it gets into the rebuild with all its values (`KeepsAll`).
* More keys of one hash value than a neighborhood or two buckets can hold are
  rehashed for ever; the instance assumes that hashes differ (`HashesDiffer`).
* Views and string indices refer to the inputs' pages until the output is
  complete; in every order of loading, growth, output and destruction the pages
  live that long (`ReadPagesLive`) and are freed once (`MemorySafe`). What is read is
  modelled as a value of the input, so that it is there is what `ReadPagesLive` adds.

### Findings

* `wide_pages`: `ColumnInserter<T>::insert` reserves 4 bytes for a value of any
  type (`plan.h:266`). With 8-byte values the bitmap of a full page overwrites
  the end of its last value. (`to_columnar` is right, see above.)
* `string_layout`: the assignment puts the characters of a VARCHAR page behind
  2 bytes per ROW, the code behind 2 bytes per non-NULL row. Writer and readers
  of the code agree with each other (`string_pages`).

## 4. Proofs

| Module | Theorem | States | For every |
|---|---|---|---|
| `UnchainedHashProofs` | `Invariant` | `Spec => []IInv` | team, finite set of tuples, hash and partition of each, size of directory and Bloom filter |
| | `TypeCorrect` | `Spec => []TypeOK` | |
| | `WritesAreExclusive` | `Spec => []ExclusiveWrites` | |
| | `StoredInRegion` | `Spec => []StoredInSlotRegion` | |
| | `LookupIsExact` | `Spec => []FindExact` | |
| `SlabCollectProofs` | `Invariant` | `Spec => []IInv` | team, number of rows, keys and NULLs, partition of each key, size of ranges, buffers and chunks |
| | `TypeCorrect` | `Spec => []TypeOK` | |
| | `CellsReserved` | `Spec => []CellReserved` | |
| | `RowsStoredOnce` | `Spec => []RowsInOnePlace` | |
| `ExecutionProofs` | `Invariant` | `Spec => []IInv` | relations, side that is built, output columns, team, grain, and all of the above |
| | `TypeCorrect` | `Spec => []ProbeTypeOK` | |
| | `GrainsAreDisjoint` | `Spec => []GrainsDisjoint` | |
| | `RowsComeFromPairs` | `Spec => []RowsFromPairs` | |
| | `CollectsAsSpecified` | `Spec => Collect!Spec` | |
| | `DeliversTheJoin` | `Spec => DeliversJoin` | and at least one output column |
| | `QueryMemorySafe` | `QuerySpec => []MemorySafe` | tables, their pages and values, cache files, plans of scans and joins, sizes of chunks and of a string index's fields |
| | `QueryColumnsAligned` | `QuerySpec => []ColumnsAligned` | |
| | `QueryAnswerDelivered` | `QuerySpec => []AnswerDelivered` | |
| `FilteredLoadProofs` | `Invariant` | `Spec => []IInv` | values, literals and patterns, bits of a byte and of an integer, number of records and calls, statement tree |
| | `TypeCorrect` | `Spec => []TypeOK` | |
| | `FiltersAgree` | `Spec => []FilterAgrees` | |
| | `SelectionReturned` | `Spec => []ReturnsSelection` | |
| | `PoolInvariant` | `PoolSpec => []PoolInv` | number of workers, tasks, calls, spurious wake-ups |
| | `PoolTypeCorrect` | `PoolSpec => []PoolTypeOK` | |
| | `FunctionIsCallers` | `PoolSpec => []CallerOwnsFunction` | |
| | `WakeupsArrive` | `PoolSpec => []NoLostWakeup` | |
| | `ImplementsSafely` | `PoolSpec => ImplementsParallelFor` | |
| `FixedPagesProofs` | `Invariant` | `Spec => []IInv` | size of page and byte, number of rows, both writers |
| | `TypeCorrect` | `Spec => []TypeOK` | |
| | `RowsReadBack` | `Spec => []RoundTrip` | |
| | `ViewsAreSound` | `Spec => []ViewSound` | |
| `StringPagesProofs` | `Invariant` | `Spec => []IInv` | size of page and byte, lengths of strings, number of rows and of page numbers, both writers |
| | `TypeCorrect` | `Spec => []TypeOK` | |
| | `MarkersAreReserved` | `Spec => []MarkersReserved` | |
| | `CopiesReadBack` | `Spec => []CopyRoundTrip` | |
| | `RowsReadBack` | `Spec => []RoundTrip` | |
| `CSVParserProofs` | `Invariant` | `Spec => []IInv` | set of characters, escape, text, table and its writing, cut into buffers |
| | `TypeCorrect` | `Spec => []TypeOK` | |
| | `ChunksInvisible` | `Spec => []ChunkingInvisible` | |
| | `TablesReadBack` | `Spec => []ReadsWhatWasWritten` | |

Each `Invariant` rests on three facts: `Init => IInv`, `IInv /\ [Next]_vars => IInv'`
with one step per action, and `IInv => ` the property; `PTL` joins them. TLC
checked the conjuncts on the runs' instances before they were proved, but for those
that say a function or sequence exists (`Layout` and `Reads` of `StringPages`, `PairsInv` of
`HashJoin`, `Correct` of a query's results) or quantify over functions (`ReadSoFar` of
`CSVParser`), which it cannot enumerate; of these it checked what they imply.

### Assumptions

The theorems use the named `ASSUME` of each model and nothing else. They say that
functions have their types and sizes are positive, and that `None`, `Null` are not
values of the sort they stand beside. What they leave open matters more:
directory sizes need not be powers of two and hash functions are arbitrary, so the
table's correctness depends on neither; partitions are arbitrary, so nothing
depends on which partition a buffer goes to; the bits of a byte, of a page and of an
integer are any number. Some of them deserve a word:

* `SlabCollect` has `Thread # {}`: OpenMP's team has a thread. `ExecutionProofs`
  derives all of `SlabCollect`'s assumption from `JoinAssumption` (`Assumed`), that
  is, that every join gives the collection what it needs, with the number of
  partitions it computes (`PartitionsExist`: the loop that doubles `p` ends).
* `FixedPages` has `PageSize > 16`: a page has room for its counters, a value
  of 8 bytes and a byte of bitmap. The code's is 8192.
* `StringPages` has `PageSize >= 12`, what its formats need, and `Null` apart from
  strings and string indices: `std::monostate` and the tag `NULL_VAL` are.
* `CSVParser` has rows of one number of fields, at least one, in a table of at least one
  row, which is what a CSV file can write down; `escape_` is no comma and no
  line end.
* `PlanExecutor` has well-formed tables and plans (`PlanAssumption`), of INT32 and VARCHAR
  columns, the types cursor and output have branches for; a `StringIndex` can number the tables,
  columns and pages that have strings (`IndexesFit`). The pages of a column
  hold the rows of its table, and those of an INT32 column without a NULL are full but for
  the last one, which is what both writers make (`ViewSound`) and what reading in place
  relies on. A plan is a tree; a scan's attributes are columns of its table, a join's are
  attributes of its children, with their types; join keys are INT32, the only type
  `JoinAlgorithm` reads. The tree is what makes `execute_impl` end and a child's result be
  read by one join; its `depth` is any number per node that grows towards the leaves.
* `RoundTrip` and `ViewSound` of `FixedPages` except what is false in the code: the inserter with
  values of 8 bytes (see the findings). `Fits` is this exception, in `IInv` too. `RoundTrip` speaks of the cursor
  in INT32 columns only.

### Why the properties need an inductive invariant

*UnchainedHash.* `ExclusiveWrites` says nothing about the
counters the positions come from. `IInv` adds, in named conjuncts:

* `ThreadInv`: what a thread holds agrees with its place and the phase, and no
  two hold one tuple;
* `PartitionInv`: a partition is handed out once and no tuple of it is left;
* `TotalInv`: the total counts the tuples of finished partitions;
* `OffsetInv`: the meaning of a directory offset in each phase - tuples taken,
  then `First(s)` (tuples of smaller slots), then `First(s)` plus tuples taken,
  then half slid, then `First(s)` again;
* `FilterInv`: tag and Bloom bits of every tuple that has left the count phase,
  and of one in flight as far as its thread has come;
* `AdjacencyInv`, `WriteInv`: every tuple taken in the placement is at one
  position below its slot's offset, or about to be written there.

Counting is done with `Cardinality` (FiniteSetTheorems): the regions
`First(s) .. First(s+1) - 1` partition the array (`Regions`, `RegionsAscend`,
`RegionFits`), a position handed out is free (`FreshPosition`), and at the end
as many tuples as positions leave no position empty (`ArrayFull`), from which
`LookupIsExact` follows with the filters' bits.

*SlabCollect.* A row that is stored once must have been nowhere else before. `IInv`
follows it from the loop's counter to its cell: `LoopInv` (ranges are disjoint and lie
below the counter; when one thread has left the barrier, all ranges are read),
`ReadInv` (a row that has been read is in a buffer or a cell, one that has not is in
neither), `PlaceInv` (never in two), `ChunkInv` (cells fill from the first one on,
only the current chunk has room), and `MutexInv`, `ReservedInv` for the steps between
lock and unlock, where offset and cell disagree for the row being stored.

*HashJoin.* The invariant is the collection's own, by INSTANCE with the join's
substitution, and what the table, counter and columns hold: `TableInv`,
`CounterInv` (the counter overshoots by a grain for each thread that has stopped, and
grains are disjoint below it), `MergeInv`, `ColumnsInv`.

`DeliversTheJoin` says of the result that no match is missing, none is there twice and
each is projected to the right columns, so it needs to know which pair of rows stands
at each position of each thread's columns. The code keeps no such record: a position is
only a value per column, and two pairs may be projected to the same values.
`DeliverInv` therefore states that the pairs exist (`PairsInv`): there is a sequence of
pairs per thread, no pair is in them twice, the columns hold their projections, and a
pair of the relational join is in them exactly if its probe row is below the
counter and in nobody's grain any more (`Probed`). `FullInv` (the table holds every build
row that has a key, once) comes from `RowsInOnePlace`, used through INSTANCE. A
step of the probe adds the pairs of one row, which were nowhere before
(`RowProbed`, `FoundAfterAppend`, `DistinctAfterAppend`). `StopInv` and `MergedInv`
carry this over the merge: appended to each other, the threads' sequences are one
sequence of all pairs (`MergedPairs`), and counting positions by value counts
pairs by projection (`BagsAgree`, a bijection for each row of values).
The hypothesis that there is an output column is needed to state the theorem: a result
without columns has no positions to count, in the model as in the code.

*FilterThreadPool.* `NoLostWakeup` is a conjunct of `PoolInv` and not provable alone: `MutexInv`
keeps the caller's check of a flag apart from the worker's setting it; `CallInv`,
`DestroyInv` tell from the caller's place and loop index which workers have been
called, waited for or told to end. `AppliedInv` counts applications task by task;
`RangesDisjoint` and `RangesCover` show that the ranges of `begin_idx` cut
the tasks into disjoint parts without a gap, also when there are fewer tasks than
workers.

*FilteredLoad.* `ColumnInv` says what a bitmap means (bit `i % 8` of byte `i / 8`,
padding bits arbitrary) and that NULLs have none; `StackInv` carries the
equality of bitmap and set through comparisons, AND, OR and NOT, for entries
without a literal beyond the integer's width (`exact`); `PhaseInv`, `OutInv` and
`CacheInv` follow the call, and what a later one finds in the caches. The
enumeration of a set in ascending order (`InOrder`) is shown to exist and be unique by
the rank of its members.

*FixedPages.* `IInv` says where the bytes of each value and bit of the page in
progress stand (`CurrentInv`: value number `c` at `Offset(c)`), which rows each saved
page holds (`SavedInv`, with the first row of each page as a bound function), and that a
page is saved only when a further value would not fit (`FullPage`). `ViewSound`
needs the last: pages without a NULL that are full all have the first page's number of
rows (`FullHasMost`), which is what the view divides by. The readers concatenate
pages with `FlattenSeq`, a recursive function; that the concatenation of pieces that
follow each other is the whole (`FlattenedIsAll` in `CommonLemmas`, also used for the
merge of the join's columns and for strings) is shown by the least prefix for which it
would not be (`Least`), as induction over data is not available.

*StringPages.* That a page reads back is not inductive: the cursor finds string number `c` by
the count of bits before its row, so `PageHolds` carries, beside each row's string, that the
page has an offset per bit (`Count`) and that offsets ascend up to the last character. It
holds of the page in progress and, as `save_page` keeps the bits of its rows and at most
stale ones behind them (`PageWithBits`), of every saved one. `RowsBelowMarkers` follows from the
room the bitmap needs: the four bytes of the two counters hold no bits, so a page of
NULLs is full before its own counter reaches `0xfffe`. For strings over several pages `Layout` says where each
page's rows begin and that the pages behind a first page are its string's chunks up to the
next page that begins rows (`HoldsLong`): so the cursor's skipping of following pages loses no
row, and following a first page takes exactly its chunks (`LongFollowed`), not those of a
long string right behind. `Reads` holds what `copy_scan` has read behind each page, in which
a following page changes the last row (`AppendLong`); it solves the equation `CopyScan` is
defined by, and the solution is unique (`CopyReads`).

*CSVParser.* `ChunkingInvisible` speaks of the end only, and what it says is false in
the middle: behind a buffer that ends in a `\r` or an escape the parser has less behind
it than one that sees the next character. The parser is therefore compared with the
run of `Turn` on the whole text (`WholeRun`), in which every character is seen with the one
behind it. `ReadSoFar` says that a parser that has read `n` characters is a parser that
is where the run was one character earlier and has taken the last one without
seeing the next (`Cut`). Whatever that turn left pending, the first turn of the next
buffer makes up for (`Turned`, `Resumed`), and so does `finish` (`Ended`). "Where the run was" is
`Like`, not equality: the block that ends a record at the beginning of a buffer leaves
`after_field_sep` as it found it, the loop clears it. The difference survives no
character that reads the flag: it reads it only at a line end with a trailing comma,
where the next record has no field yet and both parsers refuse it, as they counted
at least one column in the first row. They may refuse it with another error, which is why
`ChunkingInvisible` compares whether there is one and not which.

`ReadsWhatWasWritten` needs the text's origin (`WrittenText`), and the rest is
about the run alone, as `ReadSoFar` carries it over to buffers. A text is taken apart
into parts that follow each other (`At`): a character or an escaped one, a field
(`ReadUpTo`), a row (`RowAt`, `RowOver`), the table (`TableRead`). For each part a lemma
says where a parser is behind it that was at its beginning, and the parts are joined by
ascending through a sequence (`Ascend`, again a least index for which it would
fail). Two seams took most of the work. A line end of `\r` looks at the next character,
which belongs to the next row: no written row begins with `\n`, as a
field that does is in quotes. And the last line end may be missing, so that what
`finish` makes of a table differs by where it stopped (`RowPending`, `RowDone`). `TableRun` then
follows `TableParser` through the calls, row by row (`RowComes`).

*QueryRun, memory.* `MemorySafe` is nearly inductive; what it lacks is how a query comes by its
columns. `MemoryInv` adds which tables there are in which phase, the inputs completely from
the load to the destruction (`PhaseInv`), that a cached
table's column `c` is exactly what `from_cache` makes of it (`TablesInv`, `MappedColumn`),
so the reference count is the number of its columns (`MappingsInv`), and that the heap is what
the other columns own, with names not used yet to come (`HeapInv`). The steps that
destroy several columns are recursions over a vector: what is left of memory after the first
`i` of them is shown by ascending (`Freeing`, `Ascend`). A vector that grows frees nothing,
as each column moved from is empty (`MovedFree`). The page numbers of `from_cache` reach
the pages that were dumped because counting and dumping add up the same lengths
(`Counting`, `DumpedOnes`). That reading ends before the destruction begins needs the invariant
of the answer, below: all columns are filled then (`ReadBeforeDestroyed`).

*QueryRun, answer.* `ColumnsAligned` cannot be carried through a join without knowing what is in
the columns. `ResultsInv` says it: every result held is `Correct`, that is, there is a list of
rows of the scans under the node, with each row on which the joins' keys agree in it once
(`Lists`), and column after column holds the values of the list in its order (`HasValues`). No
code keeps such a list, so it is an existential; a scan's is the rows of its table (`ScanCorrect`),
a join's is made of its children's along the matches (`JoinCorrect`, `Pairing`): two rows of
the children fit together to one (`Both`), as no scan is under both. That, and that a node's
origins are well-defined, rests on the plan being a tree (`TreeInduction`, `UnderJoin`,
`OriginsUnfold`), shown by a node of least or greatest depth for which it would fail.
`ScanCorrect` holds for each way a column is read: in place, where the first page's number of
rows divides all positions (`FullPagesRead`), and copied, where `append` value by value fills
chunks (`FilledIs`, `GetFinds`) with what the cursor reads (`CursorReads`). `PartsInv` says that
an output column is the first `filled[j]` values of the root's, with the strings looked up,
whatever the others have done (`PartWritten`). When all have ended, counting positions of
the output by row counts lists' members by value, as the answer does (`AnswerIs`).

### Only model-checked

* Liveness: `BuildEnds`, `CollectEnds`, `JoinReturns`, `CallerReturns`, `DeliversAnswer`.
  Liveness under fairness is out of the prover's reach.
* `HashTables` and its tables (`FindsLatest`, `KeepsAll`, `PairsWhereFindLooks`, `HopscotchReturns`): their loops
  (swaps, kicks, moves, a rehash that calls the insertion again) are recursive operators,
  which the prover does not read.

## 5. Not modelled

* Conversions of text to numbers in `TableParser`, with the exceptions they
  throw: the value of a field is its text.
* `like_match` and RE2: a pattern is the set of strings it matches. What differs
  between the columns' and the records' evaluation of INT64 (one of them compares
  doubles) is beyond the instance's two bits.
* `StringIndex::offset` and `length`: the place of a string on its page is one number.
* Plans over INT64 and FP64 columns, which the cursor and `execute` have no branch for.
* `Column`'s move assignment, which nothing calls.
* A cached table without columns, empty files, errors of `mmap` and of writing a
  cache file; the limit of 16 columns in `TableMeta`.
* Robin Hood's return value, and keys of equal hashes in the hopscotch and cuckoo
  tables (see section 3).
* Exceptions inside pool workers, allocation failure.
* The bits of a hash function and of a directory word. The hash values of the
  instances are chosen to collide; the proof holds for all.
* Test drivers, SQL reading, printing, hardware constants: no state the engine's
  results depend on.

## 6. Plan

Done in order of importance: the parallel build and its proof; the collection;
the probe; the join node against the relational join; the pool; the pages with
both writers and all readers; the parser with its records and the loading with
filters; the other hash tables; the plan executor with the memory of its columns.
With this every operation of the engine that changes state has an action, but for
those section 5 names.

Every safety property a run checks is proved for every instance, but for those of
`HashTables`. What is left are these and the liveness properties, which stay with the
model checker.
