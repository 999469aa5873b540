# Additional partition statistics in DuckDB: a TLA+ development

This directory is a verification development for the repository's modified
DuckDB (`src/duckdb`), which gives every partition (row group) and column an
*additional statistic* beside DuckDB's own flags: clusters of values, a Bloom
filter, a dictionary, or clusters of string prefixes. A scan asks the statistic
whether a filter can match in the partition and skips the partition when it
cannot. The question of this development is the one the repository's `README.md`
poses: *can the corresponding partition be pruned?* A wrong "yes" silently drops
rows from query results, and it may take a particular history of inserts,
updates, commits, rollbacks and restarts to get one.

All paths below are relative to `src/duckdb/src/` unless they say otherwise.

## 1. The system

### Components, state, operations

| Component | Source | State | Operations |
|---|---|---|---|
| Column data | `include/duckdb/storage/table/column_data.hpp`, `storage/table/column_data.cpp` | `statistics.additional_stats`, `additional_stats_invalidated`, static temp maps keyed by `this`, `updates`, `CanHaveNull` flag; `stats_lock`, `update_lock`, `map_mutex` | `AppendTemp`, `InitStats`, `UpdateInternal`, `CheckZonemap`, `RangeQueryAdditionalStats`, `MergeStatistics`, `InitializeColumn` |
| Row group, collection | `storage/table/row_group.cpp`, `row_group_collection.cpp` | sequence of row groups, `requires_new_row_group`, counts | `Append`, `InitializeAppend`, `InitStats`, `MergeStorage`, `RevertAppendInternal`, `Update`, `CheckZonemap`, `AddColumn`/`RemoveColumn` |
| Local storage, data table | `storage/local_storage.cpp`, `data_table.cpp` | one local collection per transaction and table, append lock | `LocalAppend`, `Flush`, `Commit`, `Rollback`, `RevertAppend` |
| INSERT | `execution/operator/persistent/physical_insert.cpp`, `parallel/pipeline_executor.cpp` | `insert_count`, local append state | `Sink`, `OnConflictHandling`, `FinishInitialiseStats`, `Combine` |
| Batch insert | `execution/operator/persistent/physical_batch_insert.cpp`, `batch_memory_manager.hpp`, `batch_task_manager.hpp`, `parallel/pipeline.cpp` | collections by batch, merge queue, memory, minimum batch, blocked tasks, batch indexes of the pipeline | `NextBatch`, `Sink`, `ExecuteTasks`, `FinishInitialiseStats`, `Combine`, `Finalize`, `UpdateBatchIndex` |
| Updates in place | `storage/table/update_segment.cpp` | version chains | `Update`, `RollbackUpdate`, `FetchUpdates` |
| Transactions | `transaction/` | start time, id, undo buffer | start, commit, rollback |
| Filters | `planner/filter/*.cpp`, `ColumnData::QueryAdditionalStats`, `RowGroup::CheckZonemap` | trees of filters, the labels of a scan | `CheckStatistics`, collecting bounds, `SetFilterAlwaysTrue` |
| Statistic kinds | `include/duckdb/storage/statistics/additional/*.hpp` | clusters, bits, dictionary | `Initialise`, `Query`, `QueryRange` |
| Table-wide statistics | `storage/statistics/base_statistics.cpp`, `storage/table/table_statistics.cpp`, `optimizer/statistics/operator/propagate_get.cpp` | merged statistics of a collection, with a pointer like that of a row group | `Merge`, `Serialize`, `Deserialize`, `TableScanStatistics`, `PropagateStatistics` |

How they interact: `PhysicalInsert::Sink` appends to the local collection of the
transaction, which copies every value to the temp vector of its column data.
When a row group is full, and again when the pipeline of the statement ends,
`InitStats` turns the temp vector into a statistic and erases the vector. Commit
moves whole local row groups, statistic included, into the table
(`MergeStorage`), or appends their rows to the table's last row group one chunk
after another. Updates write to a version chain under `update_lock`, then drop
and forbid the statistic under `stats_lock`. Scans read the statistic under
`stats_lock`, then look at the updates under `update_lock`; the range query of
BETWEEN reads the pointer under no lock.

An INSERT ... SELECT that keeps the order of its source is run by several tasks
of `PhysicalBatchInsert`. The source hands out numbered batches; a task fills a
collection of its own per batch, gives it to the global state, and small
neighbouring collections are merged by whoever has time. Tasks that are not at
the minimum batch go to sleep when memory is short.

Every append and update also merges the statistics of the row group into those
of the collection. The optimizer asks them before there is a scan: a filter they
rule out replaces the scan by an empty result.

### What is hard

* a statistic outliving the data it describes: rows appended later, in-place
  updates seen or not seen by snapshots, NULLs, rollbacks that leave temp data
  behind, addresses used again (the maps are keyed by the object's address and
  the destructor does not clean them);
* `InitStats` called more than once on a row group: a full row group is finished
  twice, a UNION ALL has one pipeline per child, an upsert counts rows that it
  never appended;
* the steps of an update interleaved with the steps of a scan;
* a scan shares the labels of its filters between row groups, and moves every column on
  by itself;
* locks nested in several ways, and one of them, shared by all tables, locked by hand;
* restarts: a row group from the file has no statistic, but may get one later;
* a pointer in the statistics of the whole table: it would make one partition
  answer for all, and in the file it would be a pointer of another process;
* filters in trees: an answer has four values, and a bound found somewhere in the
  tree is used for a range query of the whole filter;
* batch insert: what a task knows of the minimum batch is old at once, tasks sleep
  and are woken under different locks, merges run under none;
* the kinds themselves: hashing, sorted clusters with binary search, prefix
  boundaries, NaN and signed zero.

`PROJECT.json` lists the hazards line by line with the properties that cover
them, and every component, including those that are not modelled.

## 2. The modules

| Module | What it is |
|---|---|
| `ColumnData` | the record of one column (temp vector, statistic, flags) and one operator per method of `ColumnData` |
| `TableStats` | the table: rows with their versions, column data by address, row groups of the table and of every transaction, and one action per handler |
| `SnapshotScan` | the abstract specification: a store of rows with snapshots, whose scans leave out nothing they look for |
| `TableSnapshot` | the refinement mapping from `TableStats` to `SnapshotScan` |
| `MCTableStats` | symmetry and bounds for TLC, of both |
| `TableWideStats`, `MCTableWideStats` | `TableStats` together with the statistics of the whole table and of every local collection |
| `BatchInsert`, `MCBatchInsert` | the tasks of one statement of `PhysicalBatchInsert` |
| `TableStatsProofs` | theorems about types, columns and pruning |
| `SnapshotProofs` | theorems about versions, row groups and the refinement |
| `TableWideProofs`, `BatchInsertProofs` | theorems about the modules they are named after |
| `RowGroupScan` | the scan of a table, vector by vector, with the labels of its filters |
| `ColumnLocks` | the mutexes around a statistic, and the order in which each operation takes them |
| `ColumnValue` | the values of a column and the engine's comparisons, NaN and infinities included |
| `ClusterStats` | `ClusterAdditionalStats` of numbers: the clusters, the binary search, `Query`, `QueryRange` |
| `DictionaryStats`, `BloomStats` | `DictionaryAdditionalStats`, `BloomAdditionalStats` |
| `StatisticsSet` | the choice of a kind, the life of one statistic from collecting to querying, and what every kind promises |
| `ZoneMap` | `RowGroup::CheckZonemap` over trees of filters, asking a statistic of `StatisticsSet` |
| `StringClusterStats` | `StatisticsSet` for `ClusterAdditionalStats<std::string>` |
| `MCStatisticsSet`, `MCZoneMap`, `MCStringClusterStats` | values, hashes and filters for TLC |
| `FiniteOrders` | lemmas on finite sets, their minima and maxima, ranks in strict orders, and sums |
| `StatisticsSetProofs` | theorems about clusters of numbers, dictionaries, Bloom filters and the kinds together |
| `StringClusterProofs` | theorems about clusters of strings |
| `ZoneMapProofs` | theorems about trees of filters |

### `ColumnData`

A statistic is the *set of values it was built from*, or `NoStats` for a NULL
pointer. `Appended` is `ColumnData::Append`, the invalidation and the `AppendTemp` it
calls; `Built` is `InitStats`; `Updated` and `Invalidated` are the
two halves of `UpdateInternal`; `UpdateMerged` is the merge at the end of
`RowGroup::Update`; `Fresh` is the constructor, which inherits whatever the temp
maps hold for the address; `Loaded` is `InitializeColumn` in a new process.
`Excludes(x, matching)` says that a statistic *may* answer `FILTER_ALWAYS_FALSE`
for a filter satisfied by exactly the data in `matching`; a real kind answers so
less often. `EmptyPrunes` separates the kinds for which a statistic of no value
rules out everything (Bloom, dictionary, string clusters) from those for which it
rules out nothing (numeric clusters, whose queries return early on an empty
vector). `FilterExcludes` is a comparison, which asks the additional statistic. IS NULL
and IS NOT NULL are answered from the NULL flag, with or without a statistic: see
`ZoneMap`, and `NullFlagSound` of `TableWideStats` for when the flag is set. The field `built` counts `InitStats` calls up to two; it only serves
the invariants.

### `TableStats`

| Action | Code |
|---|---|
| `Begin`, `End` | `DuckTransactionManager::StartTransaction`, `RemoveTransaction` |
| `InsertBegin`, `Sink`, `SinkConflict`, `FinishInitialiseStats` | the sink of `PhysicalInsert` (non-parallel) and the call of `PipelineExecutor` |
| `AppendOpens`, `AppendFits`, `AppendOverflows` | `RowGroupCollection::InitializeAppend` and `Append` |
| `UpdateApply`, `UpdateInvalidate`, `UpdateMerge` | `UpdateInternal` up to `updates->Update`; the rest of it; the merge in `RowGroup::Update` |
| `CommitWithoutRows`, `MergeStorage`, `FlushBegin`, `FlushRow`, `FlushEnd`, `Commit` | `LocalStorage::Flush` and commit |
| `Rollback`, `RevertAppend` | rollback of local and of flushed rows |
| `Reopen`, `Alter` | `DataTable` built from the file; `AddColumn`/`RemoveColumn` |
| `ScanCheckStats`, `ScanNotExcluded`, `ScanCheckUpdates`, `ScanCheckRange`, `ScanEnd` | `ColumnData::CheckZonemap` and `RowGroup::CheckZonemap` |

A row has a home (the address of its column data), its base value, its inserter
and its version chain; `Reads` is what a snapshot sees of it. The clients issue
anything that `Workload` lets them, one statement at a time per transaction.

Abstractions: one column (the code treats the columns of a row group one by
one), scans with a comparison (the statistic of the updates never rules one out, so an
updated column is not pruned; `RowGroupScan` has updates whose statistic agrees), chunks
of one row (so every chunk boundary is covered), every transaction
runs once, the scan that feeds an UPDATE or INSERT ... SELECT of the same
transaction is not interleaved with the statement, an upsert that turns its whole
chunk into updates opens no local row group, and Reopen and Alter happen between
transactions (the code takes exclusive locks or runs at startup). The
parallel path of `PhysicalInsert`, deletes, checkpoints and vacuum are not in the
model.

### `TableSnapshot`

The refinement mapping computes the variables of `SnapshotScan` from those of
`TableStats`: `store` is what the committed transactions leave of every row,
`view[t]` what `t` reads, `wrote[t]` the rows `t` inserted or has a version of,
`skip[t]` the rows of the partition that its scan has pruned with the data it looks
for, and `phase` forgets what a transaction is doing inside a statement. Every
flush, merge, invalidation, build and check is a stutter; a row that is rewritten by
`FlushRow` into another row group is the same row to everyone.

### `TableWideStats`

Each step of `TableStats` that merges statistics is conjoined with the merge, which
the code makes under the same locks (`AppendMerges`, `UpdateMerges`,
`StorageMerges`, `Dropped`, `ReadBack`); the other steps leave `wide` alone. Of
`BaseStatistics` two fields are modelled, the pointer and `has_null`; `has_no_null`
is set from the start by `InitializeEmpty` and decides nothing.

### `BatchInsert`

| Action | Code |
|---|---|
| `Register`, `Fetch`, `UpdateBatchIndex` | `PipelineExecutor` and `Pipeline`: registering, the next batch of the source, the batch indexes |
| `AddCollection` | `AddCollection` with `ScheduleMergeTasks`, under one lock |
| `WakeOrMerge`, `NextBatchEnd` | the rest of `NextBatch` |
| `TakeTask`, `NoTask`, `Merge`, `Publish` | `ExecuteTasks`, `MergeCollections`, `MergeCollectionTask::Execute` |
| `SinkBegin`, `SinkCheckMemory`, `SinkWait`, `SinkAppend` | `Sink`, each access to the memory manager a step of its own |
| `FinishInitialiseStats`, `Combine`, `Finalize` | the methods of the same name |

A row is abstracted to the batch it came from and memory is counted in rows, so
order, completeness and accounting stay visible. An internal exception of the code
(`gotten lower batch index`, `usage below zero`, ...) is an element of `thrown`. The
`total_rows` of an entry is not kept once a run has been merged into it: the entry is
flushed then, and `total_rows` is read of entries that are not. A request for more memory
is answered with any reservation from one row to the request, even one below what there
was. Two internal exceptions are not in `thrown` because the code around them excludes them
on the spot: the executor compares batch indexes before it calls `NextBatch` (so "called
with the same batch index" cannot come up), and `Finalize` gives every flushed collection
a merger of its own ("Cannot merge flushed collections").

### `RowGroupScan`

| Action | Code |
|---|---|
| `InitializeScan` | `RowGroup::InitializeScan` with `CheckZonemap` and the labels of `ScanFilterInfo` |
| `SkipSegment` | `CheckZonemapSegments`, when it excludes the rest of a segment |
| `SkipVector`, `ScanVector`, `FilterVector` | one turn of the loop of `TemplatedScan`: no visible row, the full scan, the partial scan |
| `GetNextSegment` | `CollectionScanState::Scan`, to the next row group |

Where `ZoneMap` says which answer a statistic gives, this module takes any answer that is
sound for the values the statistic was built from, so a row is reduced to whether it
passes each filter. What it adds is what happens to the answers: the combination with the
statistic of the updates, the early return that leaves labels behind, `CheckAllFilters`
at the next row group, segments of each column that end where they like, rows the
transaction does not see, and the positions of the columns. A filter is evaluated in any
order (`AdaptiveFilter` permutes them, which changes no row), `segment_checked` only makes
answers weaker and a dynamic filter never sets it. Left out: sampling, prefetching, scans
of committed rows, several scans at once (each has a state of its own).

### `ColumnLocks`

An operation is the sequence of the locks it takes, spelled with `Guard`, `Pass` (a
section that waits for nothing else) and `MayThrow`: a chunk appended with its merge into
the statistics of the table, `InitStats` of a row group, an update, the rollback of one,
the zonemap check of a scan, and the optimizer's copy of the statistics. An exception
unwinds the guards of its thread; `InitStats` holds `map_mutex` by hand, so it stays
locked. What is done inside is the subject of `TableStats`. Left out: the locks of the
validity child, which are nested in the same way, and the shared lock that `FetchUpdates`
takes on an update segment, under which nothing is waited for.

## 3. The runs

| Run | Workload | Bounds | Shows |
|---|---|---|---|
| `updates` | updates, restarts, ALTER TABLE | 2 addresses, 3 transactions, 2 rows, 2 rows per group, 2 values and NULL | types, sound pruning by a numeric statistic, no statistic beside a visible update, no statistic ever again after an invalidation |
| `snapshots` | upserts, a unique index | 2 addresses, 3 transactions, 2 rows, 2 rows per group, 1 value and NULL | `TableStats` implements `SnapshotScan`; no live row loses its row group |
| `table_wide` | updates, restarts, ALTER, UNION ALL, unique index; a kind whose empty statistic prunes | 2 addresses, 2 transactions, 3 rows, 2 rows per group, 1 value and NULL | no table-wide statistic empties a scan or decides IS NULL wrongly; a scan misses a row only on a partition built twice or read back from the file |
| `refill`, `reloaded` | | smallest that reach the case | counterexamples to `PruneSound`, see below |
| `batch` | statements of 2 and 3 tasks, 3 to 5 batches | row groups of 10 rows, memory of 2 that may grow to 4 | the statement finishes, throws nothing, keeps every row once and in order; memory and merges are accounted for; nobody sleeps on the minimum batch |
| `batch_stats` | the same | the same | counterexample, see below |
| `kinds` | every kind, unknown and ERROR included, on signed 3-bit values, the infinities and two NaNs of one hash, asked by trees of filters | 10 values, 5 of them in a partition, 4 slots and 1, dictionary of 2, two blocks of 8 bits; 8 leaves, pairs of them under AND and OR, optional and dynamic filters, a second level, lists of two | sound for every comparison and range, and within the abstraction of `ColumnData`; the gaps chosen leave the least covered, the arrays are never overrun and exact while the values fit, linear and binary search agree; dictionaries are exact until given up; Bloom filters stay in their array; no partition with a row that passes the filters is skipped, and no filter is left out that would have rejected a row |
| `scan` | two filters, one of them OPTIONAL or not, on two of three columns | two row groups of 3 rows, vectors of 2, one updated row, one that the transaction does not see, segments cut anywhere | exactly the visible rows that pass are returned, whatever sound answers are given; labels end with their row group; the columns stay aligned; the scan ends |
| `locks` | append, build, update, rollback, scan, plan | 3 threads, one operation each, 2 columns | nobody waits in a circle; if a statistic can not be built, only scans of a column that is being appended to or built are lost |
| `nans` | Bloom filters, two NaNs | 3 rows | counterexample to `NoFalsePrune`, see below |
| `strings` | clusters of strings | 15 strings up to 3 bytes, prefix of 2, 3 rows, 2 slots | sound, exact at the ends for short strings, clusters in order whatever the folding does |

`InOrder` keeps, of the partitions of `kinds`, those whose values come in ascending
order and once each: `Initialise` sorts the vector, where equal neighbours have no gap
between them, or inserts every value in a set, so neither order nor repetition leaves a
trace in a statistic. A partition without special values is one of an integer column
as well. In the runs of the kinds the properties quantify over every comparison, constant
and range, so one state of a built statistic stands for all queries of it. Four
slots are the least for which the code gives NaN and the two infinities clusters
of their own next to finite values, and five rows can ask for one slot too many. `-4..3` with gaps of 3 bits has differences
beyond the signed range. Strings go one byte past the prefix on both sides of a
bound.

Why the bounds are enough to be interesting: one transaction inserts and two work
on its rows at the same time, the least for every race between an update and a
scan and for a snapshot older than a commit it shares a row group with; two rows per
group leave one partly filled, fill one exactly and overflow one; two addresses let
one be used again after a rollback; two values and NULL separate a filter that
matches from one that does not. With the one value of `snapshots` a scan skips
because of the NULL flag, and `updates` covers skips by the statistic. In `updates` a
row group read back from the file takes new rows but never fills up, which is
the case of `reloaded`; so `PruneSound` holds there. With the one value of
`table_wide` a twice-built or reloaded partition misses rows by its empty statistic
only; `MissesExcused` covers the rest. `OneAtATime` bounds the interleavings of
`reloaded`, whose history needs three transactions one after another. In `batch` the
sizes are chosen next to the limits of `ReadyToMerge`, so that batches merge at once,
later, or never, one is a whole row group, and one is empty after the filters; with
memory for two rows almost every task is held up.
In `scan` two row groups are the least for a label to outlive one; three rows in vectors
of two give a full and a partial vector and segments that end inside both; one updated
row agrees or disagrees with the statistic of its column; one row that is not seen makes
the full vector partly visible, or the other one not at all. In `locks` three threads can
wait in a circle of three, and there are four kinds of locks that are nested; two columns
tell the locks of a column from those of all. `SkipsSound` and `LabelsSound` put the same
values in all columns of a list of filters, which makes every pair of filters meet on the
same rows; `RowsReturned` has columns that differ.

`CHECK_DEADLOCK FALSE`: transactions run once, statements end, so the system really
stops. Values, addresses and transactions are only compared for equality, which makes
the symmetry sets sound; row identities are ordered and not symmetric.

Liveness and fairness. `BatchInsert!Fairness` is weak fairness of every task that is
not asleep, and of `Finalize`: the scheduler keeps running tasks that are runnable
and nothing else; a sleeping task runs again only when another one wakes it. Under
it `AlwaysFinishes` says the statement ends. `ColumnLocks` has weak fairness of every
thread, which goes on when it is not waiting, and gets a mutex that stays free;
`RowGroupScan` that of its one thread. `TableStats` has no fairness: its handlers wait
only for locks that are held for steps of another handler, and clients owe the table
nothing.

### Disagreements found

* `refill`: a row group filled exactly by one statement is finished by
  `FinishInitialiseStats` and finished *again* by the next statement's `Append`,
  from the erased temp vector. For Bloom filters, dictionaries and string
  clusters the new, empty statistic rules out every constant.
  Two other callers rebuild a finished statistic the same way: the second pipeline
  of `INSERT ... SELECT ... UNION ALL SELECT ...`, which keeps `insert_count`, and an
  upsert, whose updates count as inserted rows.
* `reloaded`: after a restart and an ALTER TABLE new rows go to an old row group,
  whose statistic is then built from the new rows alone. This one hits numeric
  kinds too.
* `batch_stats`: `FinishInitialiseStats` of a batch insert runs after the task has
  given its last collection away. Another merge may have destroyed it, and the
  pointer to its last row group dangles.

`MissNeedsRebuild` shows that, for the modelled part, two causes (a second
`InitStats`, a row group from the file) are the only ones.

* `nans`: a Bloom filter hashes the bits of a NaN, the engine compares all NaNs as
  equal. `inf - inf` leaves a NaN whose bits are not those of `'nan'`, so a filter
  `f = 'nan'` prunes the partition that holds it. Clusters and dictionaries compare
  with the engine's operators and are not affected (`kinds`, which has two NaNs).

`ZoneMap` shows, besides, that of several filters with a range only the last decides
whether the ranges skip the partition (`between_case_skip` is assigned, not or-ed): a
missed skip, never an unsound one. `ColumnLocks` shows, without calling it a fault since
nothing promises otherwise, what the kind ERROR (`-statistic -1`) does: `InitStats` throws
and leaves `map_mutex` locked, every later append and build waits for ever, and so do the
updates and scans of their columns. `OperationsEnd` says that nothing else makes anyone
wait for ever, `ScanLostToItsColumn` that scans of other columns go on.
In `BatchInsert`, `nextStart` is not moved back when merged entries in front of it are
erased, as in the code, and may pass over an entry nobody has checked; that costs memory
until the end of the statement and no more: `MergesAwaited`, `MemoryAccounted` and
`InsertedInOrder` hold all the same.


## 4. The proofs

TLAPS proves, for all values of the constants allowed by the assumptions in
`ColumnData`, `TableStats`, `StatisticsSet` and its parts, and `BatchInsert`:

| Theorem | Module | Statement |
|---|---|---|
| `TypeCorrect` | `TableStatsProofs` | `Spec => []TypeOK` |
| `Invariant` | `TableStatsProofs` | `Spec => []IInv` |
| `PruningSound` | `TableStatsProofs` | without reopening and for kinds with a harmless empty statistic, `Spec => []PruneSound` |
| `MissesExcused` | `TableStatsProofs` | `Spec => []MissNeedsRebuild` |
| `SeenUpdatesInvalidate` | `TableStatsProofs` | `Spec => []SeenUpdateInvalidates` |
| `EveryRowHoused` | `TableStatsProofs` | `Spec => []RowsHoused` |
| `InvalidStays` | `TableStatsProofs` | `Spec => NeverRevived` |
| `ExclusionSound` | `TableStatsProofs` | what a statistic that excludes a filter owes to its history |
| `ChainsInvariant` | `SnapshotProofs` | `Spec => []Chains`: who is on a chain of versions, and that no row group is in two collections |
| `Isolation` | `SnapshotProofs` | without reopening and for kinds with a harmless empty statistic, `Spec => SnapshotIsolation` |
| `EmptyResultsSound` | `TableWideProofs` | `WideSpec => []EmptyResultSound` |
| `NullFlagDecides` | `TableWideProofs` | `WideSpec => []NullFlagSound` |
| `IndexesInvariant` | `BatchInsertProofs` | `Spec => []IInv` of the batch indexes |
| `MinimumSound`, `WakeupsSound` | `BatchInsertProofs` | `Spec => []MinimumNotPassed`, `Spec => []NoLostWakeup` |
| `InsertInvariant` | `BatchInsertProofs` | `Spec => []InsertInv`: where every task, batch, merge and row is |
| `TypeCorrect` | `BatchInsertProofs` | `Spec => []TypeOK` |
| `NeverThrows` | `BatchInsertProofs` | `Spec => []NothingThrown` |
| `OrderKept` | `BatchInsertProofs` | `Spec => []InsertedInOrder`: every row once, in the order of the source |
| `NoMergeLost` | `BatchInsertProofs` | `Spec => []MergesAwaited` |
| `AccountsKept` | `BatchInsertProofs` | `Spec => []MemoryAccounted` |
| `MembershipSound` | `StatisticsSetProofs` | `Spec => []NoFalsePrune`, if equal values have equal hashes (which `nans` shows is needed) |
| `RangeSound` | `StatisticsSetProofs` | `Spec => []NoFalseRangePrune` |
| `TypeCorrect` | `StatisticsSetProofs` | `Spec => []TypeOK`: `map_mutex` stays locked only for the kind ERROR |
| `ClustersWithin` | `StatisticsSetProofs` | `Spec => []ClustersFit`: the clusters stay in their array, are in order and apart |
| `SearchesSame` | `StatisticsSetProofs` | `Spec => []SearchesAgree`: linear and binary search find the same |
| `GreedyOptimal` | `StatisticsSetProofs` | `Spec => []ClustersTightest`, if the finite values lie within one modulus |
| `FewValues` | `StatisticsSetProofs` | `Spec => []FewValuesExact`, with four slots or no special values |
| `DictionariesExact` | `StatisticsSetProofs` | `Spec => []DictionaryExact` |
| `BitsWithin` | `StatisticsSetProofs` | `Spec => []BitsInArray` |
| `EmptyPartitions` | `StatisticsSetProofs` | `Spec => []EmptyPartition`, if no NaN is encoded as an end of the empty interval |
| `AbstractionSound` | `StatisticsSetProofs` | `Spec => []AsColumnDataAbstracts`, if equal values have equal hashes: every kind is an instance of the statistic the theorems on `TableStats` are about |
| `PruningSound` | `StringClusterProofs` | `Spec => []NoFalsePrune` |
| `ShortStrings` | `StringClusterProofs` | `Spec => []ShortStringsExact` |
| `ClustersInOrder` | `StringClusterProofs` | `Spec => []ClustersOrdered` |
| `SkippingSound` | `ZoneMapProofs` | `Spec => []SkipsSound` for finite trees of filters, if equal values have equal hashes |
| `LabellingSound` | `ZoneMapProofs` | `Spec => []LabelsSound`, likewise |

The assumptions: NULL is not a value, `NoStats` is not a set of values, the table
is not a transaction, `Nowhere` is neither an address nor a transaction, rows are
numbers, a row group holds at least one row. Of a batch insert: its batches have
numbers of chunks, a chunk has rows, there is a task, and a row group holds at least
ten rows. Of the kinds: NaNs are encoded above
the infinities, hashes are numbers, strings are sequences of bytes. Of
filters: a constant is a value, a conjunction has a list of children, an optional
or dynamic filter at most one. `FiniteTrees`, a hypothesis of the theorems on
filters, says that every filter has a depth, which the code has because each filter
owns its children.

The argument. `PruneSound` is not inductive: that a scan may skip a partition
depends on what its statistic was built from, on which versions the scan can see,
and on what the column went through. `IInv` adds

* `ColumnsConsistent`: flag, statistic, temp vector and build count agree: an
  invalid column has no statistic, a column built once has an empty temp vector,
  one built twice the empty statistic;
* `RowsCovered`: every row's base value is accounted for by its column: in the
  temp vector before the first build, in the statistic after it, or the column is
  invalid, or NULL is covered by the flag;
* `VersionsInvalidate`: a version either has invalidated its column or is being
  added by a transaction that still holds `update_lock`;
* `SnapshotsCommitted`: a snapshot holds committed transactions only, so the
  version of a running update is in nobody else's snapshot;
* `RowsHoused`, `FlushedEmpty`: every row is in a row group of the table or
  of its running inserter (needed when the database is reopened);
* `JobsPlaced`, `ScansSound`: what a scan concluded under one lock is still true
  when it acts on it.

The proof that `IInv` is inductive does not go through the invariant action by
action. `ActorStep` describes what any step of one transaction may do: each column
is changed by one method of `ColumnData`, each row is kept, placed in a column that
covers it, removed, or given or relieved of a version of that transaction. One lemma
per part of `IInv` shows that any such step preserves it (`StepColumns`,
`StepRows`, `StepVersions`, `StepSnapshots`, `StepScans`); one lemma per group of
actions shows that they are such steps (`InsertSound`, `UpdateSound`,
`CommitSound`, `ScanSound`). The heart is `ScanArgument`: a statistic that
excludes the filter exists, so the column is not invalid, so no version is
visible, so the scan reads base values, and those are covered. `Reopen` and
`Alter` are treated apart.

`Isolation` needs more than `IInv`. `Chains` says that only the newest version of a
chain can belong to a transaction that is not committed, that whoever updated a row
sees it and inserted it or found it committed, and that a row group is in one
collection (restarts and ALTER included). The
refinement is not proved action by action either: the lemmas give every step a *shape*
(a row written by one transaction, rows moved with what everybody reads of them, a
transaction begun, committed or undone), and what a step of `u` does is shown to be
invisible to all who do not see `u`, so only the abstract variables of `u` itself need
an argument. That a pruned partition is an `SSkip` of the abstract specification is
`PruneSound`.

`EmptyResultsSound`: the invariant `NoPointers` says that no table-wide statistic has a
pointer. An append drops the pointer of its row group before it merges it; an update
has dropped it before, and `UpdatesMarked` keeps it dropped until the merge: the row
just updated stays in the row group, whose column stays invalid. `NullFlagDecides`:
a NULL that the table has not been told of is one whose transaction is still inside
its step (`NullsTold`), so no other transaction can see it. Neither assumes anything
of the kind or of the workload.

`MinimumSound` and `WakeupsSound`: what a task remembers of the minimum, and what the
memory manager was told, is a lower bound of all registered batch indexes however old
it is, because indexes only grow and a task registers at the minimum
(`KnownBehind`, `NothingKnown`); every increase wakes everyone, and a task decides to
sleep under the lock under which the minimum is raised.

The contents of a batch insert. None of `InsertedInOrder`, `NothingThrown`,
`MergesAwaited` and `MemoryAccounted` is inductive, and they need each other. `InsertInv`
adds to them and to `IInv`, of the tasks (`TaskInv`):

* `Phases`: the local state of a task goes with the place it is at, e.g. a task at
  `sink` has chunks left and has made its batch the current one;
* `HeldOnce`: a batch is with one task at most, which is registered at or behind it;

and of the rows (`DataInv`), where a batch is *delivered* when it has rows and is no
longer with a task:

* `StoreOfTasks`, `StoreFresh`: a collection that a task fills has what has been sunk
  of its batch, one not begun is empty;
* `EntryContents`: an entry *owns* the delivered batches from its own up to the next
  entry's, and its collection has the rows of those, in order; `JobsOk` says the same of
  the merge that an entry without a collection waits for, and `Published` of one that
  is done and not yet published;
* `Separated`: between an undelivered batch and a delivered one behind it lies an entry,
  so that the batch, when it comes, takes rows from nobody. Only runs up to the minimum
  a task knows are merged, nobody delivers below that (`IInv`), and that is why;
* `Covered`: before `Finalize` every delivered batch is owned by some entry, after it
  the table has all;
* `JobsOnce`: a merge is in the queue or with one task, for one entry;
* `QueueServed`: a queue that is not empty has a task that will still look at it, so
  no merge is left when all are done; `FlushedLarge`: an entry can be flushed only if
  `Finalize` will take the insert for a large one.

The difficult step is `AddCollection`: inserting the entry splits the batches its
predecessor owns without moving any (`Separated` for the batch just delivered), and
erasing the entries of a run leaves what they owned to the first one, in order. The
walk that finds the runs is a recursive function over the entries: `PrefixRecursion`
shows that it satisfies its equation, and the invariant of the loop (`WalkOk`: runs
disjoint and ascending, no flushed entry in them, none beyond the entries examined) is
proved by the least position at which it fails. Sums over sets of entries are
compared as those of gaps are, and what a list of
collections holds through the equation that concatenation satisfies (`FlattenIs`).
`AddCollection` may be called with any minimum a task ever read: the argument uses
only that it is no greater than the minimum now.

Clusters of numbers. A gap is kept if fewer others go before it, the widest first, than
there are slots left. `FiniteOrders` shows that in a finite strict order the ranks are
`1..n`, each once, so exactly as many gaps are kept as there are slots for. A gap
kept ends one cluster and starts the next, so as many clusters start as end, and the
i-th start and the i-th end are of one cluster (`ClustersFit`). Every value lies in
a cluster; a binary search that ends without a hit has the constant between two
neighbouring clusters, shown with a least counterexample in the number of clusters
left, because the prover has no induction over recursive functions. From those
two, `NoFalsePrune`, `NoFalseRangePrune` and `SearchesAgree` follow for whatever gaps
were kept, `FewValuesExact` if all were. `ClustersTightest` is an exchange: any other
choice of at most as many gaps has, outside what both share, no more gaps than the
greedy one and none that goes before one of the greedy ones (`FirstWeighMost`), and
the unsigned difference of two values of `w` bits is their distance (`GapIsWidth`);
sums are compared through the cardinality of a set, because a sum is a recursive
function (`SumIsWeight`).

Clusters of strings. The start of a cluster is at most, and its end at least, the
prefix of each string in it, whatever the numbers `StringToLong` makes of them; a
comparison with a string is answered from prefixes and lengths, and the proof shows
case by case that a prefix that is smaller decides and one that is equal leaves the
lengths to decide. Nothing is assumed of the numbers, so their overflow cannot matter.

Filters. `CheckStatistics`, `Selected` and `Bound` are recursive over trees of any
depth. A recursive definition is a CHOOSE of a function that satisfies its equation,
so the proof first shows that there is one (`Recursion`: a step that looks at smaller
depths only has a fixed point) and then argues by the least depth of a
counterexample: a filter that is false returns no row of the partition, one that is
true returns all (`ChecksTruthful`), and a bound found below ANDs bounds every row
the filter returns (`BoundsHold`). With `MembershipSound` and `RangeSound` for the
leaves, that is `SkipsSound` and `LabelsSound`. What a filter means (`Selected`, the
expression it stands for) is not what the scan lets pass when it evaluates it
(`FilterSelection`): an OPTIONAL_FILTER lets everything pass, because another operator
evaluates it again, so skipping owes to the meaning and labels to the selection.

What stays with TLC: liveness (`AlwaysFinishes`, `OperationsEnd`, `ScanEnds`), which the
prover cannot reach, restarts in the refinement, the counterexamples, and the invariants
of `ColumnLocks` and `RowGroupScan`. Every safety invariant of the other passing runs is
a theorem.

## 5. What is not modelled, and the plan

Not modelled: see the components with status `not_modelled` or `partly` in
`PROJECT.json`.

* The parallel path of `PhysicalInsert`. It applies the operators of `ColumnData` that
  `TableStats` applies: every task appends to a collection of its own and builds its
  last row group, unless `insert_count`, which it reads under no lock, is still 0, so
  the first tasks to finish leave theirs unbuilt; `Combine` adds to the count under
  the lock and then moves a large collection into the local storage, or appends a
  small one to it row by row, without building at the end. A row group that was built
  and is appended to afterwards is invalidated as everywhere else.
* Of batch insert: pipelines that stop early (LIMIT, an empty join), operators that
  emit rows after the last batch, unions of pipelines, writing row groups to disk, and
  what the statistics contain.
* Of filters: STRUCT_EXTRACT and EXPRESSION filters, and plans that prepared statements
  keep.
* Of the table-wide statistics: distinct counts, samples, lengths and character sets of
  strings, altered types.
* Of locks: those of transactions, checkpoints, segment trees and buffers.
* Deletes, checkpoints during use, vacuum, and the write-ahead log: `Reopen` stands for
  a shutdown with its checkpoint. Statistics are not logged, and the replay of a log
  does not call `FinishInitialiseStats`.
* The hashed n-grams and the profiling counters of the study, which answer no query.
* The rest of DuckDB, vendored in the repository (parser, optimizer, other operators,
  shell, extensions, third-party code): some 630,000 lines of which the study changes
  a small part. The modules cover the changed part and the code it meets.

Plan, in this order:

1. done: `ColumnData`, `TableStats`, the runs and the theorems above.
2. done: the kinds of statistics as pure algorithms (`ClusterStats`, `DictionaryStats`,
   `BloomStats`, `StatisticsSet`, `StringClusterStats`), all with proofs.
3. done: `ZoneMap`: `RowGroup::CheckZonemap` over trees of filters, checked on trees of
   two levels and lists of two filters, proved for all.
4. done: `SnapshotScan`, and the proof that `TableStats` implements it.
5. done: `BatchInsert`, with proofs of all its safety invariants. Left:
   `ParallelInsert`, several tasks sharing `insert_count` and `Combine`.
6. done: `TableWideStats`, with proofs.
7. done: `RowGroupScan` and `ColumnLocks`, model-checked.
8. left: durability (log, crash, checkpoint and vacuum) refined into `Reopen`; the
   restart as a step of `SnapshotScan`.
