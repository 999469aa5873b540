---------------------------- MODULE TableWideStats ----------------------------
(***************************************************************************)
(* The statistics of a whole table (TableStatistics), which the optimizer  *)
(* asks before there is a scan: a filter that they rule out replaces the   *)
(* scan by an empty result, and one that they make certain is dropped.     *)
(*                                                                         *)
(* They are BaseStatistics, with a pointer to an additional statistic like *)
(* those of a row group, and BaseStatistics::Merge hands that pointer on.  *)
(* A pointer that reached them would make one partition answer for all.    *)
(* Every step of TableStats is accompanied by what it merges, under the    *)
(* same locks.                                                             *)
(***************************************************************************)
EXTENDS TableStats

VARIABLE
    wide            \* stats of every RowGroupCollection, for one column

wvars == <<vars, wide>>

WideRecord ==
    [stats : {NoStats} \cup SUBSET Value,   \* additional_stats
     hasNull : BOOLEAN]                     \* has_null

(* BaseStatistics::CreateEmpty.  (has_no_null is set from the start.) *)
EmptyStats == [stats |-> NoStats, hasNull |-> FALSE]

WideTypeOK == wide \in [Collection -> WideRecord]

-------------------------------------------------------------------------------
(* BaseStatistics::Merge, of the statistics of a column or of another
   collection: the pointer that is there stays.                               *)
Merged(w, x) ==
    [stats |-> IF w.stats = NoStats THEN x.stats ELSE w.stats,
     hasNull |-> w.hasNull \/ x.hasNull]

(* Faulty variant of AppendMerges: the row group it has begun with. *)
AppendMergesStart(k) ==
    wide' = [wide EXCEPT ![k] = Merged(@, col'[groups'[k][1]])]

(* RowGroupCollection::Append merges the row group it has appended to, before
   anyone builds the statistic of that row group.                             *)
AppendMerges(k) ==
    wide' = [wide EXCEPT ![k] = Merged(@, col'[LastGroup(k)'])]

(* Faulty variant of UpdateMerges: the table is not told. *)
UpdateMergesNothing(t) == UNCHANGED wide

(* RowGroupCollection::Update merges the row group after RowGroup::Update. *)
UpdateMerges(t) ==
    wide' = [k \in Collection |->
                IF job[t].c \in Elements(groups[k])
                THEN Merged(wide[k], col'[job[t].c])
                ELSE wide[k]]

(* RowGroupCollection::MergeStorage; nothing is left of the other collection. *)
StorageMerges(t) ==
    wide' = [wide EXCEPT ![Table] = Merged(@, wide[t]), ![t] = EmptyStats]

(* The local collection is destroyed. *)
Dropped(t) == wide' = [wide EXCEPT ![t] = EmptyStats]

(* Serialize writes the pointer to the file as a number, and Deserialize makes
   it a pointer of the next process: to anything, unless it is NULL.          *)
ReadBack ==
    \E anything \in SUBSET Value :
       wide' = [wide EXCEPT ![Table].stats = IF @ = NoStats THEN @ ELSE anything]

-------------------------------------------------------------------------------
WideInit == Init /\ wide = [k \in Collection |-> EmptyStats]

(* The steps that merge or drop statistics. *)
WideStep(t) ==
    \/ Sink(t) /\ AppendMerges(t)
    \/ FlushRow(t) /\ AppendMerges(Table)
    \/ UpdateMerge(t) /\ UpdateMerges(t)
    \/ MergeStorage(t) /\ StorageMerges(t)
    \/ (FlushEnd(t) \/ Rollback(t) \/ RevertAppend(t)) /\ Dropped(t)

(* The others. *)
OtherStep(t) ==
    \/ Begin(t)
    \/ InsertBegin(t)
    \/ FinishInitialiseStats(t)
    \/ Update(t)
    \/ SinkConflict(t)
    \/ UpdateInvalidate(t)
    \/ CommitWithoutRows(t)
    \/ FlushBegin(t)
    \/ Commit(t)
    \/ ScanStep(t)

WideNext ==
    \/ \E t \in Txn : WideStep(t) \/ (OtherStep(t) /\ UNCHANGED wide)
    \/ Reopen /\ ReadBack
    \/ Alter /\ UNCHANGED wide

WideSpec == WideInit /\ [][WideNext]_wvars
-------------------------------------------------------------------------------
(* Properties. *)

(* The optimizer is given statistics for the scan: TableScanStatistics has none
   for a transaction with local rows in the table.                            *)
Planning(t) == pc[t] = "ready" /\ groups[t] = <<>>

(* The rows of the table that the transaction sees. *)
TableRows(t) ==
    {r \in Row : /\ row[r].home \in Elements(groups[Table])
                 /\ row[r].ins \in Visible(t)}

(* StatisticsPropagator replaces a scan by an empty result (FILTER_ALWAYS_FALSE
   and FILTER_FALSE_OR_NULL alike) only if no row of the table satisfies the
   filter: the statistic of one partition never answers for the table, nor
   does a pointer of another process.                                         *)
EmptyResultSound ==
    \A t \in Txn :
       Planning(t) =>
          \A vals \in SUBSET Value :
             Excludes(wide[Table], vals) =>
                \A r \in TableRows(t) : \A v \in vals : ~Reads(row[r], t, v)

(* IsNullFilter replaces a scan by an empty result, and IsNotNullFilter is
   dropped from one, because the table has no NULL, only if the transaction
   reads none: whichever row was updated to NULL by whom, and however the rows
   came to the table.                                                         *)
NullFlagSound ==
    \A t \in Txn :
       Planning(t) /\ ~wide[Table].hasNull =>
          \A r \in TableRows(t) : ~Reads(row[r], t, Null)
===============================================================================
