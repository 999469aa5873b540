------------------------------ MODULE RowGroupScan -----------------------------
(***************************************************************************)
(* The scan of a table by one thread: row group after row group, vector    *)
(* after vector.  A zonemap answer can skip a row group, skip the rest of  *)
(* a segment, or label a filter as always true; the labels, their count    *)
(* and the columns that still have a filter live in a ScanFilterInfo that  *)
(* all row groups of the scan share.                                       *)
(*                                                                         *)
(* A row is what it does to each filter.  An answer is any that is sound   *)
(* for the values a statistic was built from: that the statistics give     *)
(* only such answers is the subject of ZoneMap and of TableStats.          *)
(***************************************************************************)
EXTENDS Naturals, FiniteSets, FiniteSetsExt

CONSTANTS
    Columns,        \* bound: the number of columns scanned
    FilterCount,    \* the first columns have a filter each, as in a TableFilterSet
    Optionals,      \* bound: which of them may be an OPTIONAL_FILTER
    Updated,        \* bound: the filter columns that may have been updated
    MaxUpdates,     \* bound: the number of updated rows of such a column
    MaxHidden,      \* bound: the number of rows the transaction does not see
    VectorSize,     \* STANDARD_VECTOR_SIZE
    Counts,         \* bound: how many rows of a row group the scan may reach
    RowGroups,      \* bound: the number of row groups
    NoRowGroup      \* the scan is between two row groups

VARIABLES
    phase,          \* where the scan is
    left,           \* how many row groups it has not come to yet
    rowGroup,       \* CollectionScanState::row_group, its data as the scan sees it
    filters,        \* the ScanFilterInfo
    vectorIndex,    \* CollectionScanState::vector_index
    position,       \* where each column scan is, in vectors
    returned        \* history: the rows of this row group that were returned

vars == <<phase, left, rowGroup, filters, vectorIndex, position, returned>>

Column == 1..Columns

Filter == 1..FilterCount

ASSUME ScanAssumption ==
    /\ FilterCount \in 1..Columns
    /\ Optionals \subseteq SUBSET Filter
    /\ Updated \subseteq Filter
    /\ {MaxUpdates, MaxHidden} \subseteq Nat
    /\ VectorSize \in Nat \ {0}
    /\ Counts \subseteq Nat \ {0}
    /\ RowGroups \in Nat \ {0}

-------------------------------------------------------------------------------
(* The data of a row group *)

(* Rows past max_row only widen the statistics, and so do updates this
   snapshot does not see: neither allows an answer that is not there without
   them.                                                                      *)
Updates(rows) ==
    UNION {[some -> BOOLEAN] : some \in {some \in SUBSET rows :
                                            Cardinality(some) <= MaxUpdates}}

NoUpdates == [row \in {} |-> TRUE]

(* GetSelVector: the rows of the row group that the transaction sees. *)
Visibilities(rows) ==
    {visible \in SUBSET rows : Cardinality(rows \ visible) <= MaxHidden}

(* pass: does a row in a segment pass a filter.  updates: does an updated row.
   ends: where a segment of a filter column ends before the row group does.   *)
Data(count) ==
    [count : {count}, visible : Visibilities(1..count),
     pass : [Filter -> [1..count -> BOOLEAN]],
     updates : {u \in [Filter -> Updates(1..count)] :
                   \A f \in Filter \ Updated : u[f] = NoUpdates},
     ends : [Filter -> SUBSET (1..count - 1)]]

(* FetchUpdates puts the updated values over those of the segments. *)
Passes(f, row) ==
    IF row \in DOMAIN rowGroup.updates[f]
    THEN rowGroup.updates[f][row]
    ELSE rowGroup.pass[f][row]

VectorRows(vector) ==
    {row \in 1..rowGroup.count : (row - 1) \div VectorSize = vector}

PassedRows == {row \in 1..rowGroup.count : (row - 1) \div VectorSize < vectorIndex}

-------------------------------------------------------------------------------
(* Zonemap answers *)

Answers == {"FILTER_ALWAYS_TRUE", "FILTER_ALWAYS_FALSE", "NO_PRUNING_POSSIBLE"}

(* What a filter's CheckStatistics can say of a statistic of some values. *)
CheckStatistics(outcomes) ==
    {answer \in Answers :
        /\ answer = "FILTER_ALWAYS_TRUE" => FALSE \notin outcomes
        /\ answer = "FILTER_ALWAYS_FALSE" => TRUE \notin outcomes}

Combined(prune_result, update_result) ==
    IF prune_result = update_result THEN prune_result ELSE "NO_PRUNING_POSSIBLE"

(* What ColumnData::CheckZonemap can say of some rows of a column: it asks the
   statistic of their segment or of the row group, and the one of all updates.
   A segment it asks a second time answers NO_PRUNING_POSSIBLE.               *)
CheckZonemap(data, f, rows) ==
    LET prune_results == CheckStatistics({data.pass[f][row] : row \in rows})
        updates == data.updates[f]
        update_results == CheckStatistics({updates[row] : row \in DOMAIN updates})
    IN  IF updates = NoUpdates
        THEN prune_results
        ELSE {Combined(a, b) : a \in prune_results, b \in update_results}

(* The additional statistic excludes the range of a filter.  The update of a
   column has dropped it.                                                     *)
BetweenCaseSkip(data) ==
    \E f \in Filter :
        /\ data.updates[f] = NoUpdates
        /\ \A row \in 1..data.count : ~data.pass[f][row]

-------------------------------------------------------------------------------
(* ScanFilterInfo *)

(* Mutants: what belongs to a row group survives it. *)
CheckAllFiltersCounting(info) ==
    [info EXCEPT !.column_has_filter = [column \in Column |-> column \in Filter],
                 !.always_true = {}]

CheckAllFiltersKeeping(info) ==
    [info EXCEPT !.always_true_filters = 0]

CheckAllFiltersScanned(info) ==
    [info EXCEPT !.always_true_filters = 0,
                 !.always_true = {}]

CheckAllFilters(info) ==
    [info EXCEPT !.always_true_filters = 0,
                 !.column_has_filter = [column \in Column |-> column \in Filter],
                 !.always_true = {}]

SetFilterAlwaysTrue(f, info) ==
    IF f \in info.always_true
    THEN info
    ELSE [info EXCEPT !.always_true = @ \cup {f},
                      !.column_has_filter[f] = FALSE,
                      !.always_true_filters = @ + 1]

HasFilters == filters.always_true_filters < FilterCount

Unlabelled == Filter \ filters.always_true

-------------------------------------------------------------------------------
(* Row groups *)

(* The filters are asked in order, and the first that excludes the row group
   ends it: those before it keep their label.                                 *)
Labels(prune_result) ==
    {f \in Filter :
        /\ \A e \in 1..f : prune_result[e] # "FILTER_ALWAYS_FALSE"
        /\ f \in filters.optional \/ prune_result[f] = "FILTER_ALWAYS_TRUE"}

(* RowGroup::InitializeScan of the next row group, with its CheckZonemap. *)
InitializeScan ==
    /\ phase = "between"
    /\ left > 0
    /\ left' = left - 1
    /\ rowGroup' \in UNION {Data(count) : count \in Counts}
    /\ \E prune_result \in [Filter -> Answers] :
         /\ \A f \in Filter :
               prune_result[f] \in CheckZonemap(rowGroup', f, 1..rowGroup'.count)
         /\ filters' = FoldSet(SetFilterAlwaysTrue, CheckAllFilters(filters),
                               Labels(prune_result))
         /\ \/ /\ \/ \E f \in Filter : prune_result[f] = "FILTER_ALWAYS_FALSE"
                  \/ BetweenCaseSkip(rowGroup')
               /\ phase' = "skipped"
               /\ UNCHANGED <<vectorIndex, position>>
            \/ /\ \A f \in Filter : prune_result[f] # "FILTER_ALWAYS_FALSE"
               /\ phase' = "scanning"
               /\ vectorIndex' = 0
               /\ position' = [column \in Column |-> 0]
    /\ UNCHANGED returned

Finished ==
    \/ phase = "skipped"
    \/ phase = "scanning" /\ vectorIndex * VectorSize >= rowGroup.count

(* CollectionScanState::Scan goes on to the next row group, or ends. *)
GetNextSegment ==
    /\ Finished
    /\ phase' = IF left > 0 THEN "between" ELSE "done"
    /\ rowGroup' = NoRowGroup
    /\ returned' = {}
    /\ UNCHANGED <<left, filters, vectorIndex, position>>

-------------------------------------------------------------------------------
(* Vectors *)

(* Where the segment ends that a filter column is in.  One that was scanned to
   the end of a segment still has that as its current one: it ends where the
   vector begins, which changes nothing.                                      *)
TargetRow(f) ==
    Min({row \in rowGroup.ends[f] \cup {rowGroup.count} :
            row > position[f] * VectorSize})

SegmentRows(f) ==
    LET before == {row \in rowGroup.ends[f] : row <= position[f] * VectorSize}
    IN  {row \in 1..TargetRow(f) : \A end \in before : row > end}

(* The filters that can exclude the segment they are in. *)
Excluding ==
    {f \in Unlabelled :
        "FILTER_ALWAYS_FALSE" \in CheckZonemap(rowGroup, f, SegmentRows(f))}

(* Mutant: nothing is scanned that can be excluded. *)
TargetVectorsExcluded ==
    LET targets == {TargetRow(f) \div VectorSize : f \in Excluding}
    IN  IF targets = {} THEN {vectorIndex} ELSE targets \ {vectorIndex}

(* Where CheckZonemapSegments can leave the scan.  The first filter that does
   exclude its segment moves it to the vector the segment ends in; if none
   does, or the segment ends in the current vector, that vector is scanned.   *)
TargetVectors == {vectorIndex} \cup {TargetRow(f) \div VectorSize : f \in Excluding}

NextVector(target) ==
    /\ vectorIndex' = target
    /\ position' = [column \in Column |-> position[column] + target - vectorIndex]

Scanning ==
    /\ phase = "scanning"
    /\ vectorIndex * VectorSize < rowGroup.count

(* The rest of a segment holds no wanted row: the vectors it covers are
   skipped, and the loop of TemplatedScan begins again.                       *)
SkipSegment ==
    /\ Scanning
    /\ \E target \in TargetVectors \ {vectorIndex} : NextVector(target)
    /\ UNCHANGED <<phase, left, rowGroup, filters, returned>>

(* CheckZonemapSegments lets the current vector be scanned. *)
ScanCurrent == Scanning /\ vectorIndex \in TargetVectors

VisibleRows == VectorRows(vectorIndex) \cap rowGroup.visible

(* GetSelVector finds no row of this vector for the transaction. *)
SkipVector ==
    /\ ScanCurrent
    /\ VisibleRows = {}
    /\ NextVector(vectorIndex + 1)
    /\ UNCHANGED <<phase, left, rowGroup, filters, returned>>

(* The full scan. *)
ScanVector ==
    /\ ScanCurrent
    /\ VisibleRows = VectorRows(vectorIndex)
    /\ ~HasFilters
    /\ NextVector(vectorIndex + 1)
    /\ returned' = returned \cup VisibleRows
    /\ UNCHANGED <<phase, left, rowGroup, filters>>

(* The partial scan: first the columns of the filters that are evaluated,
   skipped if no row is left, then all columns whose filter did not do it.    *)
Evaluated == IF HasFilters THEN Unlabelled ELSE {}

Remaining ==
    {column \in Column : ~(HasFilters /\ filters.column_has_filter[column])}

FilterVector ==
    /\ ScanCurrent
    /\ VisibleRows # {}
    /\ VisibleRows # VectorRows(vectorIndex) \/ HasFilters
    /\ returned' = returned \cup
          {row \in VisibleRows : \A f \in Evaluated : Passes(f, row)}
    /\ position' = [column \in Column |->
          position[column] + (IF column \in Evaluated THEN 1 ELSE 0)
                           + (IF column \in Remaining THEN 1 ELSE 0)]
    /\ vectorIndex' = vectorIndex + 1
    /\ UNCHANGED <<phase, left, rowGroup, filters>>

-------------------------------------------------------------------------------
Init ==
    /\ phase = "between"
    /\ left = RowGroups
    /\ rowGroup = NoRowGroup
    /\ \E optional \in Optionals :
         filters = [optional |-> optional, always_true |-> {}, always_true_filters |-> 0,
                    column_has_filter |-> [column \in Column |-> column \in Filter]]
    /\ vectorIndex = 0
    /\ position = [column \in Column |-> 0]
    /\ returned = {}

Next ==
    \/ InitializeScan
    \/ GetNextSegment
    \/ SkipSegment
    \/ SkipVector
    \/ ScanVector
    \/ FilterVector

Spec == Init /\ [][Next]_vars /\ WF_vars(Next)

-------------------------------------------------------------------------------
(* Properties *)

(* ScanFilterInfo: the count of the labels is never above the number of
   filters, which would turn the filters of later row groups off, whatever
   labels the early returns of CheckZonemap leave behind.                     *)
TypeOK ==
    /\ phase \in {"between", "scanning", "skipped", "done"}
    /\ left \in 0..RowGroups
    /\ rowGroup = NoRowGroup \/ rowGroup.count \in Counts
    /\ filters \in [optional : Optionals, always_true : SUBSET Filter,
                    always_true_filters : 0..FilterCount,
                    column_has_filter : [Column -> BOOLEAN]]
    /\ vectorIndex \in Nat
    /\ position \in [Column -> Nat]
    /\ returned = {} \/ returned \subseteq 1..rowGroup.count

Wanted(row, list) == row \in rowGroup.visible /\ \A f \in list : Passes(f, row)

(* RowGroup::CheckZonemap, CheckZonemapSegments and TemplatedScan: of the rows
   passed so far, scanned or skipped, the scan has returned every visible one
   that passes all filters, and none that a filter it must evaluate rejects.
   A label that outlived its row group, an answer that forgot the updates, a
   segment skipped past its end would each break it.                          *)
RowsReturned ==
    phase \in {"scanning", "skipped"} =>
        LET passed == IF phase = "skipped" THEN 1..rowGroup.count ELSE PassedRows
        IN  /\ \A row \in passed : Wanted(row, Filter) => row \in returned
            /\ \A row \in returned : Wanted(row, Filter \ filters.optional)

(* TemplatedScan: every column of the chunk holds the same rows.  A column is
   moved on either as the column of a filter or with the remaining ones: the
   labels and column_has_filter have to agree, row group after row group.     *)
ColumnsAligned ==
    phase = "scanning" => \A column \in Column : position[column] = vectorIndex

(* TemplatedScan loops until it has rows or the row group ends: a segment that
   is excluded but ends within the current vector must not make it ask again
   for ever (CheckZonemapSegments bails out).                                 *)
ScanEnds == <>(phase = "done")

===============================================================================
