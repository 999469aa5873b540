------------------------------ MODULE TableStats ------------------------------
(***************************************************************************)
(* The life of the additional statistics of one table: who builds them,    *)
(* who invalidates them, and who prunes a partition (row group) because of *)
(* them, while transactions insert, update, commit, roll back and scan.    *)
(*                                                                         *)
(* A RowGroupCollection is a sequence of row groups: the table has one,    *)
(* and every transaction has one of its own for the rows it has not        *)
(* committed (LocalTableStorage).  Rows are appended to the last row group *)
(* of a collection; when it is full its statistic is built and a new row   *)
(* group is opened.  At the end of an INSERT statement the statistic of    *)
(* the last local row group is built too.  Commit moves the local row      *)
(* groups into the table, or appends their rows to it one by one.          *)
(*                                                                         *)
(* One column is modelled: RowGroup::Append, InitStats and Update treat    *)
(* the columns of a row group one by one and in the same way.  A chunk     *)
(* holds one row, so that every boundary between two chunks is covered.    *)
(***************************************************************************)
EXTENDS ColumnData, Integers, Sequences, FiniteSets

CONSTANTS
    Col,            \* addresses of ColumnData objects (one per row group)
    Txn,            \* transactions; each runs once
    Table,          \* the collection of the table itself
    Row,            \* row identities: a bound on the rows alive at a time
    Capacity,       \* row_group_size
    Nowhere,        \* the home of a row that does not exist
    Workload        \* what the clients do, beside INSERT and SELECT

Features == {"updates",     \* UPDATE statements
             "unique",      \* the table has a unique index: appending to it
                            \* can fail at commit
             "conflicts",   \* INSERT ... ON CONFLICT DO UPDATE
             "unions",      \* INSERT ... SELECT ... UNION ALL: one statement
                            \* feeds the sink from several pipelines
             "reopens"}     \* the database is closed and opened again, and the
                            \* table altered

ASSUME TableAssumption == Table \notin Txn
ASSUME NowhereAssumption == Nowhere \notin Col \cup Txn
ASSUME RowAssumption == Row \subseteq Nat
ASSUME CapacityAssumption == Capacity \in Nat \ {0}
ASSUME WorkloadAssumption == Workload \subseteq Features

Collection == Txn \cup {Table}

VARIABLES
    row,            \* the rows: where they live, their base value, who
                    \* inserted them, and their versions
    col,            \* the column data at every address
    groups,         \* the row groups of every collection, in order
    requiresNew,    \* requires_new_row_group of the table's collection
    pc,             \* what every transaction is doing
    job,            \* the row group and data its current step is about
    snap            \* the transactions committed when it began

vars == <<row, col, groups, requiresNew, pc, job, snap>>

-------------------------------------------------------------------------------
(* Types. *)

Version == [by: Txn, val: Datum]

RowRecord ==
    [home: Col \cup {Nowhere}, val: Datum, ins: Txn \cup {Nowhere},
     upd: Seq(Version)]

NoRow == [home |-> Nowhere, val |-> Null, ins |-> Nowhere, upd |-> <<>>]

Control ==
    {"idle", "ready",              \* not begun; between two statements
     "insert", "counted",          \* in an INSERT; insert_count is 0 / positive
     "applied", "invalidated",     \* in an update: see UpdateInternal
     "checked", "range", "pruned", \* in a scan: see RowGroup::CheckZonemap
     "flush", "flushed",           \* committing, under the table's append lock
     "committed", "aborted"}

Job == [c: Col \cup {Nowhere}, vals: SUBSET Datum, back: {"ready", "counted"}]

NoJob == [c |-> Nowhere, vals |-> {}, back |-> "ready"]

TypeOK ==
    /\ row \in [Row -> RowRecord]
    /\ col \in [Col -> ColumnRecord]
    /\ groups \in [Collection -> Seq(Col)]
    /\ requiresNew \in BOOLEAN
    /\ pc \in [Txn -> Control]
    /\ job \in [Txn -> Job]
    /\ snap \in [Txn -> SUBSET Txn]

-------------------------------------------------------------------------------
(* Rows and what a transaction sees of them. *)

Elements(s) == {s[i] : i \in DOMAIN s}

RowsAt(c) == {r \in Row : row[r].home = c}

RowsOf(k) == {r \in Row : row[r].home \in Elements(groups[k])}

LastGroup(k) == groups[k][Len(groups[k])]

Visible(t) == snap[t] \cup {t}

(* The versions of a row that the transaction sees. *)
Seen(x, t) == {i \in DOMAIN x.upd : x.upd[i].by \in Visible(t)}

(* The transaction reads v from the row: its newest visible version, or the
   value it was appended with when no version is visible.                    *)
Reads(x, t, v) ==
    \/ Seen(x, t) = {} /\ v = x.val
    \/ \E i \in Seen(x, t) : /\ \A j \in Seen(x, t) : j <= i
                             /\ v = x.upd[i].val

VisibleRows(c, t) == {r \in RowsAt(c) : row[r].ins \in Visible(t)}

(* The rows a pruned partition hides from the scan that pruned it. *)
Missed(t) ==
    {r \in VisibleRows(job[t].c, t) :
        \E v \in job[t].vals : Reads(row[r], t, v)}

Finished(t) == pc[t] \in {"idle", "committed", "aborted"}

Quiescent == \A t \in Txn : Finished(t)

-------------------------------------------------------------------------------
(* RowGroupCollection::InitializeAppend and Append of one row of value v,     *)
(* inserted by t, to collection k; it lands in row group c.                   *)

NeedsGroup(k) == groups[k] = <<>> \/ (k = Table /\ requiresNew)

Free(c) ==
    /\ \A k \in Collection : c \notin Elements(groups[k])
    /\ RowsAt(c) = {}

(* InitializeAppend opens a row group: the collection is empty, or the table
   must not append to its last row group.                                    *)
AppendOpens(k, v, c) ==
    /\ NeedsGroup(k)
    /\ Free(c)
    /\ col' = [col EXCEPT ![c] = Appended(Fresh(col[c]), v)]
    /\ groups' = [groups EXCEPT ![k] = Append(groups[k], c)]
    /\ requiresNew' = (requiresNew /\ k # Table)

(* There is room in the last row group. *)
AppendFits(k, v, c) ==
    /\ ~NeedsGroup(k)
    /\ c = LastGroup(k)
    /\ Cardinality(RowsAt(c)) < Capacity
    /\ col' = [col EXCEPT ![c] = Appended(col[c], v)]
    /\ UNCHANGED <<groups, requiresNew>>

(* There is none: its statistic is built, and the row goes to a new one. *)
AppendOverflows(k, v, c) ==
    /\ ~NeedsGroup(k)
    /\ Cardinality(RowsAt(LastGroup(k))) >= Capacity
    /\ Free(c)
    /\ col' = [col EXCEPT ![LastGroup(k)] = Built(col[LastGroup(k)]),
                          ![c] = Appended(Fresh(col[c]), v)]
    /\ groups' = [groups EXCEPT ![k] = Append(groups[k], c)]
    /\ requiresNew' = (requiresNew /\ k # Table)

AppendRow(k, r, v, t, c) ==
    /\ \/ AppendOpens(k, v, c)
       \/ AppendFits(k, v, c)
       \/ AppendOverflows(k, v, c)
    /\ row' = [row EXCEPT ![r] = [home |-> c, val |-> v, ins |-> t,
                                  upd |-> <<>>]]

-------------------------------------------------------------------------------
(* Transactions and INSERT statements. *)

Goto(t, label) == pc' = [pc EXCEPT ![t] = label]

(* The transaction ends; its snapshot is of no use any more. *)
End(t, label) ==
    /\ Goto(t, label)
    /\ snap' = [snap EXCEPT ![t] = {}]

Begin(t) ==
    /\ pc[t] = "idle"
    /\ Goto(t, "ready")
    /\ snap' = [snap EXCEPT ![t] = {u \in Txn : pc[u] = "committed"}]
    /\ UNCHANGED <<row, col, groups, requiresNew, job>>

InsertBegin(t) ==
    /\ pc[t] = "ready"
    /\ Goto(t, "insert")
    /\ UNCHANGED <<row, col, groups, requiresNew, job, snap>>

(* PhysicalInsert::Sink of a row that has no conflict: it is appended to the
   local storage.  Row identities are handed out in order.                   *)
Sink(t) ==
    /\ pc[t] \in {"insert", "counted"}
    /\ \E r \in RowsAt(Nowhere), v \in Datum, c \in Col :
          /\ \A q \in RowsAt(Nowhere) : r <= q
          /\ AppendRow(t, r, v, t, c)
    /\ Goto(t, "counted")
    /\ UNCHANGED <<job, snap>>

(* FinishInitialiseStats, called by the pipeline executor at the end of the
   input: build the statistic of the last local row group, if the statement
   counted a row and there is any local row.  A further pipeline of the same
   statement keeps the insert_count.                                         *)
FinishInitialiseStats(t) ==
    /\ pc[t] \in {"insert", "counted"}
    /\ IF pc[t] = "counted" /\ RowsOf(t) # {}
       THEN col' = [col EXCEPT ![LastGroup(t)] = Built(col[LastGroup(t)])]
       ELSE UNCHANGED col
    /\ \/ Goto(t, "ready")
       \/ "unions" \in Workload /\ UNCHANGED pc
    /\ UNCHANGED <<row, groups, requiresNew, job, snap>>

-------------------------------------------------------------------------------
(* Updates in place, by UPDATE and by INSERT ... ON CONFLICT DO UPDATE.       *)

(* u is inside UpdateInternal of the column at c, and holds its update_lock. *)
Applying(u, c) == pc[u] = "applied" /\ job[u].c = c

UpdateLocked(c) == \E u \in Txn : Applying(u, c)

(* A version is added to the chain, or overwritten when it is the
   transaction's own.                                                        *)
AddVersion(upd, t, v) ==
    IF upd # <<>> /\ upd[Len(upd)].by = t
    THEN [upd EXCEPT ![Len(upd)] = [by |-> t, val |-> v]]
    ELSE Append(upd, [by |-> t, val |-> v])

(* updates->Update, under the column's update_lock: fails on a row that has a
   version the transaction does not see.                                     *)
UpdateApply(t, back) ==
    \E r \in Row, v \in Datum :
       /\ row[r].home # Nowhere
       /\ row[r].ins \in Visible(t)
       /\ Seen(row[r], t) = DOMAIN row[r].upd
       /\ ~UpdateLocked(row[r].home)
       /\ row' = [row EXCEPT ![r].upd = AddVersion(row[r].upd, t, v)]
       /\ col' = [col EXCEPT ![row[r].home] = Updated(col[row[r].home])]
       /\ job' = [job EXCEPT ![t] = [c |-> row[r].home, vals |-> {v},
                                     back |-> back]]
       /\ Goto(t, "applied")
       /\ UNCHANGED <<groups, requiresNew, snap>>

Update(t) ==
    /\ "updates" \in Workload
    /\ pc[t] = "ready"
    /\ UpdateApply(t, "ready")

(* A row that conflicts is turned into an update of the existing row; it
   counts as an inserted row.                                                *)
SinkConflict(t) ==
    /\ "conflicts" \in Workload
    /\ pc[t] \in {"insert", "counted"}
    /\ UpdateApply(t, "counted")

(* Still under update_lock, and now under stats_lock. *)
UpdateInvalidate(t) ==
    /\ pc[t] = "applied"
    /\ col' = [col EXCEPT ![job[t].c] = Invalidated(col[job[t].c])]
    /\ Goto(t, "invalidated")
    /\ UNCHANGED <<row, groups, requiresNew, job, snap>>

UpdateMerge(t) ==
    /\ pc[t] = "invalidated"
    /\ col' = [col EXCEPT ![job[t].c] =
                  IF Null \in job[t].vals
                  THEN UpdateMerged(col[job[t].c], Null)
                  ELSE col[job[t].c]]
    /\ Goto(t, job[t].back)
    /\ job' = [job EXCEPT ![t] = NoJob]
    /\ UNCHANGED <<row, groups, requiresNew, snap>>

-------------------------------------------------------------------------------
(* Commit and rollback. *)

(* The append lock, and the transaction lock around a commit. *)
WriterFree(t) == \A u \in Txn \ {t} : pc[u] \notin {"flush", "flushed"}

CommitWithoutRows(t) ==
    /\ pc[t] = "ready"
    /\ RowsOf(t) = {}
    /\ End(t, "committed")
    /\ UNCHANGED <<row, col, groups, requiresNew, job>>

BulkAppend(t) == RowsOf(Table) = {} \/ Cardinality(RowsOf(t)) >= Capacity

(* LocalStorage::Flush, first case: the row groups move to the table. *)
MergeStorage(t) ==
    /\ pc[t] = "ready"
    /\ RowsOf(t) # {}
    /\ WriterFree(t)
    /\ BulkAppend(t)
    /\ groups' = [groups EXCEPT ![Table] = groups[Table] \o groups[t],
                                ![t] = <<>>]
    /\ Goto(t, "flushed")
    /\ UNCHANGED <<row, col, requiresNew, job, snap>>

(* Second case: the rows the transaction sees are appended to the table. *)
FlushBegin(t) ==
    /\ pc[t] = "ready"
    /\ RowsOf(t) # {}
    /\ WriterFree(t)
    /\ ~BulkAppend(t)
    /\ Goto(t, "flush")
    /\ UNCHANGED <<row, col, groups, requiresNew, job, snap>>

FlushRow(t) ==
    /\ pc[t] = "flush"
    /\ \E r \in RowsOf(t), v \in Datum, c \in Col :
          /\ \A q \in RowsOf(t) : r <= q
          /\ Reads(row[r], t, v)
          /\ AppendRow(Table, r, v, t, c)
    /\ UNCHANGED <<pc, job, snap>>

FlushEnd(t) ==
    /\ pc[t] = "flush"
    /\ RowsOf(t) = {}
    /\ groups' = [groups EXCEPT ![t] = <<>>]
    /\ Goto(t, "flushed")
    /\ UNCHANGED <<row, col, requiresNew, job, snap>>

Commit(t) ==
    /\ pc[t] = "flushed"
    /\ End(t, "committed")
    /\ UNCHANGED <<row, col, groups, requiresNew, job>>

(* Faulty variant of DropVersion: the last version goes, whoever made it. *)
DropVersionAny(upd, t) ==
    IF upd # <<>> THEN SubSeq(upd, 1, Len(upd) - 1) ELSE upd

(* The undo buffer takes the transaction's versions off the chains. *)
DropVersion(upd, t) ==
    IF upd # <<>> /\ upd[Len(upd)].by = t
    THEN SubSeq(upd, 1, Len(upd) - 1)
    ELSE upd

(* Faulty variant of Undone: the appended rows are not undone. *)
UndoneUpdates(t) ==
    [r \in Row |-> [row[r] EXCEPT !.upd = DropVersion(row[r].upd, t)]]

Undone(t) ==
    [r \in Row |->
        IF row[r].ins = t
        THEN NoRow
        ELSE [row[r] EXCEPT !.upd = DropVersion(row[r].upd, t)]]

(* The local row groups are destroyed; what they left in the temp maps stays.
   An INSERT that fails takes the transaction with it.                       *)
Rollback(t) ==
    /\ pc[t] \in {"ready", "insert", "counted"}
    /\ row' = Undone(t)
    /\ groups' = [groups EXCEPT ![t] = <<>>]
    /\ End(t, "aborted")
    /\ UNCHANGED <<col, requiresNew, job>>

HasOtherRows(c, t) == \E r \in RowsAt(c) : row[r].ins # t

(* A constraint error while the rows are appended, or an error after it and
   before the commit: RevertAppendInternal erases the row groups that hold
   only rows of this transaction and truncates the one they follow.          *)
RevertAppend(t) ==
    /\ \/ pc[t] = "flushed"
       \/ pc[t] = "flush" /\ "unique" \in Workload
    /\ \E n \in 0..Len(groups[Table]) :
          /\ \A i \in DOMAIN groups[Table] :
                i <= n <=> HasOtherRows(groups[Table][i], t)
          /\ groups' = [groups EXCEPT ![Table] = SubSeq(groups[Table], 1, n),
                                      ![t] = <<>>]
    /\ row' = Undone(t)
    /\ End(t, "aborted")
    /\ UNCHANGED <<col, requiresNew, job>>

-------------------------------------------------------------------------------
(* The database is closed, with its checkpoint, and opened again. *)

NewestValue(x) == IF x.upd = <<>> THEN x.val ELSE x.upd[Len(x.upd)].val

Reopen ==
    /\ "reopens" \in Workload
    /\ Quiescent
    /\ row' = [r \in Row |-> [row[r] EXCEPT !.val = NewestValue(row[r]),
                                            !.upd = <<>>]]
    /\ col' = [c \in Col |-> IF c \in Elements(groups[Table])
                             THEN Loaded(col[c])
                             ELSE Forgotten]
    /\ requiresNew' = (groups[Table] # <<>>)
    /\ UNCHANGED <<groups, pc, job, snap>>

(* ALTER TABLE ADD or DROP COLUMN, on another column: a new collection shares
   the column data; its requires_new_row_group is the constructor's.         *)
Alter ==
    /\ "reopens" \in Workload
    /\ Quiescent
    /\ requiresNew' = FALSE
    /\ UNCHANGED <<row, col, groups, pc, job, snap>>

-------------------------------------------------------------------------------
(* A scan comes to row group c with a filter that the data in vals satisfy.   *)

(* ColumnData::CheckZonemap, under stats_lock: the filter is excluded. *)
ScanCheckStats(t) ==
    /\ pc[t] = "ready"
    /\ \E c \in Col, vals \in (SUBSET Datum) \ {{}} :
          /\ c \in Elements(groups[Table]) \cup Elements(groups[t])
          /\ VisibleRows(c, t) # {}
          /\ FilterExcludes(col[c], vals)
          /\ job' = [job EXCEPT ![t] = [c |-> c, vals |-> vals,
                                        back |-> "ready"]]
    /\ Goto(t, "checked")
    /\ UNCHANGED <<row, col, groups, requiresNew, snap>>

(* The filter is not excluded, and is one that has a lower and an upper bound
   and so never matches NULL.  (Other filters end the check.)                *)
ScanNotExcluded(t) ==
    /\ pc[t] = "ready"
    /\ \E c \in Col, vals \in (SUBSET Value) \ {{}} :
          /\ c \in Elements(groups[Table]) \cup Elements(groups[t])
          /\ VisibleRows(c, t) # {}
          /\ job' = [job EXCEPT ![t] = [c |-> c, vals |-> vals,
                                        back |-> "ready"]]
    /\ Goto(t, "range")
    /\ UNCHANGED <<row, col, groups, requiresNew, snap>>

(* Then under update_lock: a column that has updates is pruned only if their
   statistics exclude the filter too, which those of comparisons never do.   *)
ScanCheckUpdates(t) ==
    /\ pc[t] = "checked"
    /\ ~UpdateLocked(job[t].c)
    /\ \/ /\ ~col[job[t].c].updated
          /\ Goto(t, "pruned")
          /\ UNCHANGED job
       \/ /\ col[job[t].c].updated
          /\ Null \notin job[t].vals
          /\ Goto(t, "range")
          /\ UNCHANGED job
       \/ /\ col[job[t].c].updated
          /\ Goto(t, "ready")
          /\ job' = [job EXCEPT ![t] = NoJob]
    /\ UNCHANGED <<row, col, groups, requiresNew, snap>>

(* RowGroup::CheckZonemap asks the statistic about the range: under no lock,
   and whatever the updates are.                                             *)
ScanCheckRange(t) ==
    /\ pc[t] = "range"
    /\ \/ /\ Excludes(col[job[t].c], job[t].vals)
          /\ Goto(t, "pruned")
          /\ UNCHANGED job
       \/ /\ Goto(t, "ready")
          /\ job' = [job EXCEPT ![t] = NoJob]
    /\ UNCHANGED <<row, col, groups, requiresNew, snap>>

ScanEnd(t) ==
    /\ pc[t] = "pruned"
    /\ Goto(t, "ready")
    /\ job' = [job EXCEPT ![t] = NoJob]
    /\ UNCHANGED <<row, col, groups, requiresNew, snap>>

-------------------------------------------------------------------------------
Init ==
    /\ row = [r \in Row |-> NoRow]
    /\ col = [c \in Col |-> Forgotten]
    /\ groups = [k \in Collection |-> <<>>]
    /\ requiresNew = FALSE
    /\ pc = [t \in Txn |-> "idle"]
    /\ job = [t \in Txn |-> NoJob]
    /\ snap = [t \in Txn |-> {}]

InsertStep(t) == InsertBegin(t) \/ Sink(t) \/ FinishInitialiseStats(t)

UpdateStep(t) ==
    Update(t) \/ SinkConflict(t) \/ UpdateInvalidate(t) \/ UpdateMerge(t)

CommitStep(t) ==
    \/ CommitWithoutRows(t)
    \/ MergeStorage(t)
    \/ FlushBegin(t)
    \/ FlushRow(t)
    \/ FlushEnd(t)
    \/ Commit(t)
    \/ Rollback(t)
    \/ RevertAppend(t)

ScanStep(t) ==
    \/ ScanCheckStats(t)
    \/ ScanNotExcluded(t)
    \/ ScanCheckUpdates(t)
    \/ ScanCheckRange(t)
    \/ ScanEnd(t)

Next ==
    \/ \E t \in Txn : \/ Begin(t)
                      \/ InsertStep(t)
                      \/ UpdateStep(t)
                      \/ CommitStep(t)
                      \/ ScanStep(t)
    \/ Reopen
    \/ Alter

Spec == Init /\ [][Next]_vars

-------------------------------------------------------------------------------
(* Properties. *)

(* A partition is pruned only if no row of it that the transaction sees
   satisfies the filter: AdditionalStats, built by FinishInitialiseStats and
   RowGroupCollection::Append and invalidated by UpdateInternal and Append,
   "can answer whether or not the corresponding partition can be pruned".    *)
PruneSound == \A t \in Txn : pc[t] = "pruned" => Missed(t) = {}

(* The only ways for a scan to miss a row, whatever the statistic: a partition
   read back from the file whose new rows alone were given to InitStats, or,
   for a kind whose empty statistic rules everything out, a partition for
   which InitStats ran again after its temp vector had been erased.          *)
MissNeedsRebuild ==
    \A t \in Txn :
       pc[t] = "pruned" /\ Missed(t) # {} => Excused(col[job[t].c])

(* An update that any transaction can see has invalidated its partition,
   whatever was built before or after it: CheckZonemap may thus ignore the
   updates when it asks for a range.                                         *)
SeenUpdateInvalidates ==
    \A t \in Txn, r \in Row :
       /\ pc[t] \in {"ready", "checked", "range", "pruned"}
       /\ row[r].home # Nowhere
       /\ row[r].ins \in Visible(t)
       /\ Seen(row[r], t) # {}
       => col[row[r].home].stats = NoStats

(* "Additional statistics are only valid until the row group is modified after
   initialization": an invalidated column never has a statistic again.       *)
NeverRevived ==
    [][\A c \in Col : col[c].invalid => col'[c].stats = NoStats]_vars

-------------------------------------------------------------------------------
(* The inductive invariant behind them (see TableStatsProofs). *)

ColumnsConsistent ==
    \A c \in Col : /\ Consistent(col[c])
                   /\ col[c].loaded => "reopens" \in Workload

RowsCovered ==
    \A r \in Row :
       row[r].home # Nowhere => Covers(col[row[r].home], row[r].val)

(* A version whose column is not invalid yet is one that is being added. *)
VersionsInvalidate ==
    \A r \in Row : \A i \in DOMAIN row[r].upd :
       row[r].home # Nowhere =>
          \/ col[row[r].home].invalid
          \/ Applying(row[r].upd[i].by, row[r].home)

SnapshotsCommitted == \A t \in Txn : \A u \in snap[t] : pc[u] = "committed"

JobPlaced(t) ==
    /\ pc[t] \in {"applied", "invalidated", "checked", "range", "pruned"}
          => job[t].c \in Col
    /\ pc[t] = "range" => job[t].vals \subseteq Value

JobsPlaced == \A t \in Txn : JobPlaced(t)

(* Every row is in a row group of the table or of the transaction that is
   inserting it: merging, appending, reverting and dropping row groups never
   leaves a live row without one.                                            *)
RowsHoused ==
    \A r \in Row :
       row[r].home # Nowhere =>
          \/ row[r].home \in Elements(groups[Table])
          \/ \E t \in Txn : /\ row[r].ins = t
                            /\ ~Finished(t)
                            /\ row[r].home \in Elements(groups[t])

FlushedEmpty == \A t \in Txn : pc[t] = "flushed" => groups[t] = <<>>

(* What a scan has concluded stays true. *)
ScansSound ==
    \A t \in Txn :
       pc[t] \in {"checked", "pruned"} /\ Missed(t) # {}
          => Excused(col[job[t].c])

IInv ==
    /\ TypeOK
    /\ ColumnsConsistent
    /\ RowsCovered
    /\ VersionsInvalidate
    /\ SnapshotsCommitted
    /\ RowsHoused
    /\ FlushedEmpty
    /\ JobsPlaced
    /\ ScansSound
===============================================================================
