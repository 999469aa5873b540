---------------------------- MODULE TableSnapshot ----------------------------
(***************************************************************************)
(* TableStats implements SnapshotScan: the row groups, the versions in     *)
(* place, the two ways to flush, the statistics and their invalidation     *)
(* cannot be told, by what transactions read, from a store of rows with    *)
(* snapshots whose scans leave out nothing they look for.                  *)
(***************************************************************************)
EXTENDS TableStats

-------------------------------------------------------------------------------
(* The refinement mapping. *)

SeenBy(x, S) == {i \in DOMAIN x.upd : x.upd[i].by \in S}

Newest(seen) == CHOOSE i \in seen : \A j \in seen : j <= i

(* What a row reads as to one who sees the transactions in S. *)
ReadBy(x, S) ==
    IF x.ins \notin S
    THEN Nowhere
    ELSE LET seen == SeenBy(x, S)
         IN  IF seen = {} THEN x.val ELSE x.upd[Newest(seen)].val

Committed == {t \in Txn : pc[t] = "committed"}

PhaseOf(t) == IF Finished(t) THEN pc[t] ELSE "active"

StoreOf(r) == ReadBy(row[r], Committed)

ViewOf(t, r) == IF Finished(t) THEN Nowhere ELSE ReadBy(row[r], Visible(t))

(* The rows a transaction has inserted, and those with a version of it. *)
WroteOf(t) ==
    IF Finished(t)
    THEN {}
    ELSE {r \in Row : row[r].ins = t \/ SeenBy(row[r], {t}) # {}}

SkipOf(t) ==
    IF pc[t] = "pruned"
    THEN [rows |-> VisibleRows(job[t].c, t), want |-> job[t].vals]
    ELSE NoJob

phases == [t \in Txn |-> PhaseOf(t)]

stores == [r \in Row |-> StoreOf(r)]

views == [t \in Txn |-> [r \in Row |-> ViewOf(t, r)]]

writes == [t \in Txn |-> WroteOf(t)]

skips == [t \in Txn |-> SkipOf(t)]

Snapshot == INSTANCE SnapshotScan WITH
    Absent <- Nowhere, Nothing <- NoJob,
    phase <- phases, store <- stores, view <- views, wrote <- writes,
    skip <- skips

(* Transactions on a table with statistics are isolated by snapshots: neither
   what LocalStorage::Flush moves, what UpdateSegment::Update and its rollback
   do to a chain of versions, nor what RowGroup::CheckZonemap skips shows.    *)
SnapshotIsolation == Snapshot!SSpec

-------------------------------------------------------------------------------
(* The invariant behind the refinement (see SnapshotProofs). *)

HomelessEmpty ==
    \A r \in Row :
       row[r].home = Nowhere => row[r].ins = Nowhere /\ row[r].upd = <<>>

(* Only the newest version of a row can be undone. *)
ChainsCommitted ==
    \A r \in Row : \A i \in DOMAIN row[r].upd :
       i # Len(row[r].upd) => pc[row[r].upd[i].by] = "committed"

(* Who has written a row has begun and not aborted. *)
WritersBegun ==
    \A r \in Row :
       /\ row[r].ins \in Txn => pc[row[r].ins] \notin {"idle", "aborted"}
       /\ \A i \in DOMAIN row[r].upd :
             pc[row[r].upd[i].by] \notin {"idle", "aborted"}

(* Who has updated a row sees it, and has inserted it or found it committed. *)
VersionsFounded ==
    \A r \in Row : \A i \in DOMAIN row[r].upd :
       LET w == row[r].upd[i].by
       IN  /\ row[r].ins \in Txn
           /\ row[r].ins = w \/ pc[row[r].ins] = "committed"
           /\ ~Finished(w) => row[r].ins \in Visible(w)

GroupsApart ==
    \A k, l \in Collection :
       k # l => Elements(groups[k]) \cap Elements(groups[l]) = {}

Chains ==
    /\ HomelessEmpty
    /\ ChainsCommitted
    /\ WritersBegun
    /\ VersionsFounded
    /\ GroupsApart
==============================================================================
