---------------------------- MODULE TableWideProofs ----------------------------
(***************************************************************************)
(* The optimizer may ask the statistics of the table: no pointer ever      *)
(* reaches them, and they know of every NULL that a plan can be about.     *)
(*                                                                         *)
(* The first needs that a row group stays invalid from UpdateInternal to   *)
(* the merge: the row that is being updated anchors its column, so that    *)
(* the address is not given to a new one in between.  The second needs     *)
(* that a NULL is told of by whoever adds it, and seen by nobody before.   *)
(***************************************************************************)
EXTENDS SnapshotProofs, TableWideStats

Writing(u) == pc[u] \in {"applied", "invalidated"}

(* u is adding a NULL to a row of the column at c, and has not merged yet. *)
Adding(u, c) == Writing(u) /\ job[u].c = c /\ Null \in job[u].vals

Anchored(u) ==
    Writing(u) => \E r \in Row : /\ row[r].home = job[u].c
                                 /\ row[r].ins \in Txn
                                 /\ row[r].ins = u \/ pc[row[r].ins] = "committed"

Marked(u) == pc[u] = "invalidated" => col[job[u].c].invalid

UpdatesMarked == \A u \in Txn : Anchored(u) /\ Marked(u)

NoPointers == \A k \in Collection : wide[k].stats = NoStats

Told(k, x) ==
    wide[k].hasNull \/ /\ x.val # Null
                       /\ \A i \in DOMAIN x.upd :
                             x.upd[i].val = Null => Adding(x.upd[i].by, x.home)

NullsTold ==
    \A k \in Collection, r \in Row :
       row[r].home \in Elements(groups[k]) => Told(k, row[r])

WInv == WideTypeOK /\ UpdatesMarked /\ NoPointers /\ NullsTold

Step(u) ==
    Begin(u) \/ InsertStep(u) \/ UpdateStep(u) \/ CommitStep(u) \/ ScanStep(u)

LEMMA NextSteps == Next <=> (\E u \in Txn : Step(u)) \/ Reopen \/ Alter
  BY DEF Next, Step

(* Every step of this module is one of TableStats. *)
LEMMA WideIsNext ==
    /\ WideNext => Next
    /\ \A u \in Txn : WideStep(u) \/ OtherStep(u) => Step(u)
  BY DEF WideNext, WideStep, OtherStep, Next, Step, InsertStep, UpdateStep,
         CommitStep

-------------------------------------------------------------------------------
(* Updates. *)

LEMMA StepFacts ==
    ASSUME IInv, Chains, NEW u \in Txn, Step(u)
    PROVE  Base /\ Shape(u) /\ Others(u) /\ ActorStep(u)
  <1>1. Base
    BY ChainsAre DEF Base, IInv
  <1>2. Shape(u)
    BY <1>1, InsertShape, UpdateShape, CommitShape, ScanShape DEF Base, Step
  <1>3. Sound(u)
    BY InsertSound, UpdateSound, CommitSound, ScanSound DEF Step
  <1>. QED
    BY <1>1, <1>2, <1>3 DEF Shape, Sound

(* A row that is being updated stays where it is. *)
LEMMA AnchorKept ==
    ASSUME Base, JobsPlaced, NEW w \in Txn, Shape(w), NEW u \in Txn,
           Writing(u), Anchored(u), job'[u] = job[u], u # w \/ row' = row
    PROVE  \E r \in Row :
              /\ row[r].home = job[u].c /\ row'[r].home = job[u].c
              /\ row'[r].ins \in Txn
              /\ row'[r].ins = u \/ pc'[row'[r].ins] = "committed"
  <1>1. PICK r \in Row : /\ row[r].home = job[u].c
                         /\ row[r].ins \in Txn
                         /\ row[r].ins = u \/ pc[row[r].ins] = "committed"
    BY DEF Anchored
  <1>2. Forward(w)
    BY ShapeForward
  <1>3. pc[row[r].ins] = "committed" => pc'[row[r].ins] = "committed"
    BY <1>1, <1>2 DEF Forward, Others
  <1>4. CASE row'[r] = row[r]
    BY <1>1, <1>3, <1>4
  <1>5. row[r] \in RowRecord /\ row[r].home # Nowhere
    <2>1. job[u].c \in Col
      BY DEF Writing, JobsPlaced, JobPlaced
    <2>. QED
      BY <1>1, <2>1, NowhereAssumption DEF Base, TypeOK
  <1>6. CASE u = w
    BY <1>4, <1>6
  <1>7. CASE u # w
    <2>1. row[r].ins # w
      BY <1>1, <1>2, <1>7 DEF Forward
    <2>2. CASE \/ Quiet(w) \/ Began(w) \/ Committing(w) \/ Pruned(w)
               \/ Resumed(w)
      BY <1>4, <2>2 DEF Quiet, Began, Committing, Pruned, Resumed
    <2>3. CASE Inserted(w)
      <3>1. PICK q \in Row, v \in Datum, c \in Col :
               /\ row[q].home = Nowhere
               /\ row' = [row EXCEPT ![q] = NewRow(w, c, v)]
        BY <2>3 DEF Inserted
      <3>2. q # r
        BY <1>5, <3>1
      <3>. QED
        BY <1>4, <3>1, <3>2 DEF Base, TypeOK
    <2>4. CASE Flushed(w)
      <3>1. PICK q \in RowsOf(w), v \in Datum, c \in Col :
               row' = [row EXCEPT ![q] = NewRow(w, c, v)]
        BY <2>4 DEF Flushed
      <3>2. q # r
        BY <2>1, LocalRows
      <3>. QED
        BY <1>4, <3>1, <3>2 DEF Base, TypeOK
    <2>5. CASE Wrote(w)
      <3>1. PICK q \in Row, v \in Datum :
               row' = [row EXCEPT ![q].upd = AddVersion(row[q].upd, w, v)]
        BY <2>5 DEF Wrote
      <3>2. row'[r].home = row[r].home /\ row'[r].ins = row[r].ins
        BY <1>5, <3>1 DEF Base, TypeOK, RowRecord
      <3>. QED
        BY <1>1, <1>3, <3>2
    <2>6. CASE Aborting(w)
      <3>1. row'[r] = [row[r] EXCEPT !.upd = DropVersion(row[r].upd, w)]
        BY <2>1, <2>6 DEF Aborting, Undone
      <3>2. row'[r].home = row[r].home /\ row'[r].ins = row[r].ins
        BY <1>5, <3>1 DEF RowRecord
      <3>. QED
        BY <1>1, <1>3, <3>2
    <2>. QED
      BY <2>2, <2>3, <2>4, <2>5, <2>6 DEF Shape
  <1>. QED
    BY <1>6, <1>7

(* How a transaction comes to be in an update. *)
LEMMA OwnUpdate ==
    ASSUME TypeOK, NEW u \in Txn, Step(u), Writing(u)'
    PROVE  \/ UpdateInvalidate(u)
           \/ \E back \in {"ready", "counted"} : UpdateApply(u, back)
  <1>1. \A label : Goto(u, label) => pc'[u] = label
    BY DEF Goto, TypeOK
  <1>2. CASE Begin(u) \/ InsertStep(u)
    <2>1. pc'[u] \in {"ready", "insert", "counted"}
      BY <1>1, <1>2 DEF Begin, InsertStep, InsertBegin, Sink,
                        FinishInitialiseStats
    <2>. QED
      BY <2>1 DEF Writing
  <1>3. CASE UpdateStep(u)
    <2>1. UpdateMerge(u) => pc'[u] \in {"ready", "counted"}
      <3>1. job[u].back \in {"ready", "counted"}
        BY DEF TypeOK, Job
      <3>. QED
        BY <1>1, <3>1 DEF UpdateMerge
    <2>2. ~UpdateMerge(u)
      BY <2>1 DEF Writing
    <2>. QED
      BY <1>3, <2>2 DEF UpdateStep, Update, SinkConflict
  <1>4. CASE CommitStep(u)
    <2>1. pc'[u] \in {"flush", "flushed", "committed", "aborted"}
      BY <1>1, <1>4 DEF CommitStep, CommitWithoutRows, MergeStorage, FlushBegin,
                        FlushRow, FlushEnd, Commit, Rollback, RevertAppend, End
    <2>. QED
      BY <2>1 DEF Writing
  <1>5. CASE ScanStep(u)
    <2>1. pc'[u] \in {"checked", "range", "pruned", "ready"}
      BY <1>1, <1>5 DEF ScanStep, ScanCheckStats, ScanNotExcluded,
                        ScanCheckUpdates, ScanCheckRange, ScanEnd
    <2>. QED
      BY <2>1 DEF Writing
  <1>. QED
    BY <1>2, <1>3, <1>4, <1>5 DEF Step

LEMMA UpdatesStep ==
    ASSUME IInv, Chains, UpdatesMarked, NEW w \in Txn, Step(w)
    PROVE  UpdatesMarked'
  <1>. SUFFICES ASSUME NEW u \in Txn, Writing(u)'
                PROVE  /\ \E r \in Row :
                             /\ row'[r].home = job'[u].c
                             /\ row'[r].ins \in Txn
                             /\ row'[r].ins = u \/ pc'[row'[r].ins] = "committed"
                       /\ pc'[u] = "invalidated" => col'[job'[u].c].invalid
    BY DEF UpdatesMarked, Anchored, Marked, Writing
  <1>1. Base /\ Shape(w) /\ Others(w) /\ ActorStep(w) /\ JobsPlaced
        /\ TypeOK /\ ColumnsConsistent
    BY StepFacts DEF IInv
  <1>2. CASE u # w
    <2>1. Writing(u) /\ pc'[u] = pc[u] /\ job'[u] = job[u]
      BY <1>1, <1>2 DEF Others, Writing
    <2>2. job[u].c \in Col /\ Anchored(u) /\ Marked(u)
      BY <1>1, <2>1 DEF Writing, JobsPlaced, JobPlaced, UpdatesMarked
    <2>3. PICK r \in Row :
             /\ row[r].home = job[u].c /\ row'[r].home = job[u].c
             /\ row'[r].ins \in Txn
             /\ row'[r].ins = u \/ pc'[row'[r].ins] = "committed"
      BY <1>1, <1>2, <2>1, <2>2, AnchorKept
    <2>4. RowsAt(job[u].c) # {} /\ ColumnStep(job[u].c)
      BY <1>1, <2>2, <2>3 DEF RowsAt, ActorStep
    <2>5. col[job[u].c].invalid => col'[job[u].c].invalid
      BY <1>1, <2>2, <2>4, ColumnStepKeeps
    <2>. QED
      BY <2>1, <2>2, <2>3, <2>5 DEF Marked
  <1>3. CASE u = w /\ UpdateInvalidate(u)
    <2>1. /\ Writing(u) /\ job' = job /\ row' = row
          /\ col' = [col EXCEPT ![job[u].c] = Invalidated(col[job[u].c])]
      BY <1>3 DEF UpdateInvalidate, Writing
    <2>2. job[u].c \in Col /\ Anchored(u)
      BY <1>1, <2>1 DEF Writing, JobsPlaced, JobPlaced, UpdatesMarked
    <2>3. col'[job[u].c].invalid
      <3>1. col'[job[u].c] = Invalidated(col[job[u].c])
        BY <1>1, <2>1, <2>2 DEF TypeOK
      <3>2. col[job[u].c] \in ColumnRecord
        BY <1>1, <2>2 DEF TypeOK
      <3>. QED
        BY <3>1, <3>2 DEF Invalidated, ColumnRecord
    <2>4. \E r \in Row :
             /\ row[r].home = job[u].c /\ row'[r].home = job[u].c
             /\ row'[r].ins \in Txn
             /\ row'[r].ins = u \/ pc'[row'[r].ins] = "committed"
      BY <1>1, <1>3, <2>1, <2>2, AnchorKept
    <2>. QED
      BY <2>1, <2>3, <2>4
  <1>4. CASE u = w /\ \E back \in {"ready", "counted"} : UpdateApply(u, back)
    <2>1. PICK r \in Row, v \in Datum, back \in {"ready", "counted"} :
             /\ row[r].ins \in Visible(u)
             /\ row' = [row EXCEPT ![r].upd = AddVersion(row[r].upd, u, v)]
             /\ job' = [job EXCEPT ![u] = [c |-> row[r].home, vals |-> {v},
                                             back |-> back]]
             /\ pc' = [pc EXCEPT ![u] = "applied"]
      BY <1>4 DEF UpdateApply, Goto
    <2>2. row'[r].home = row[r].home /\ row'[r].ins = row[r].ins
      <3>1. row[r] \in RowRecord
        BY <1>1 DEF TypeOK
      <3>. QED
        BY <1>1, <2>1, <3>1 DEF TypeOK, RowRecord
    <2>3. job'[u].c = row[r].home /\ pc'[u] = "applied"
      BY <1>1, <2>1 DEF TypeOK
    <2>4. row[r].ins = u \/ row[r].ins \in snap[u]
      BY <2>1 DEF Visible
    <2>5. row[r].ins \in Txn
      BY <1>1, <2>4 DEF TypeOK
    <2>6. row[r].ins = u \/ pc'[row[r].ins] = "committed"
      <3>1. row[r].ins \in snap[u] => pc[row[r].ins] = "committed"
        BY <1>1 DEF Base, SnapshotsCommitted
      <3>. QED
        BY <1>1, <2>1, <2>4, <2>5, <3>1 DEF TypeOK
    <2>. QED
      BY <2>2, <2>3, <2>5, <2>6
  <1>. QED
    BY <1>1, <1>2, <1>3, <1>4, OwnUpdate

-------------------------------------------------------------------------------
(* What is merged. *)

LEMMA MergedTypes ==
    ASSUME NEW w \in WideRecord, NEW x, x.hasNull \in BOOLEAN,
           x.stats \in {NoStats} \cup SUBSET Value
    PROVE  /\ Merged(w, x) \in WideRecord
           /\ w.stats = NoStats /\ x.stats = NoStats =>
                 Merged(w, x).stats = NoStats
           /\ w.hasNull \/ x.hasNull => Merged(w, x).hasNull
  BY DEF Merged, WideRecord

(* The column that a row has been appended to has no statistic: AppendTemp
   has dropped it, and nobody has built one since.                           *)
LEMMA AppendedColumn ==
    ASSUME TypeOK, NEW k \in Collection, NEW r \in Row, NEW v \in Datum,
           NEW u \in Txn, NEW c \in Col, AppendRow(k, r, v, u, c)
    PROVE  /\ LastGroup(k)' = c
           /\ col'[c] \in ColumnRecord
           /\ col'[c].stats = NoStats
           /\ v = Null => col'[c].hasNull
  <1>1. /\ groups \in [Collection -> Seq(Col)] /\ groups[k] \in Seq(Col)
        /\ col \in [Col -> ColumnRecord]
        /\ k \in Collection
    BY DEF TypeOK
  <1>2. LastGroup(k)' = c
    <2>1. CASE groups' = [groups EXCEPT ![k] = Append(groups[k], c)]
      <3>1. groups'[k] = Append(groups[k], c)
        BY <1>1, <2>1
      <3>2. Len(groups'[k]) = Len(groups[k]) + 1 /\ Len(groups[k]) \in Nat
        BY <1>1, <3>1
      <3>3. groups'[k][Len(groups'[k])] = c
        BY <1>1, <3>1, <3>2
      <3>. QED
        BY <3>3 DEF LastGroup
    <2>2. CASE groups' = groups /\ c = LastGroup(k)
      BY <2>2 DEF LastGroup
    <2>. QED
      BY <2>1, <2>2 DEF AppendRow, AppendOpens, AppendFits, AppendOverflows
  <1>3. \E x \in ColumnRecord : col'[c] = Appended(x, v)
    <2>1. col[c] \in ColumnRecord /\ Fresh(col[c]) \in ColumnRecord
      BY <1>1, ColumnTypes
    <2>2. col'[c] = Appended(col[c], v) \/ col'[c] = Appended(Fresh(col[c]), v)
      BY <1>1 DEF AppendRow, AppendOpens, AppendFits, AppendOverflows
    <2>. QED
      BY <2>1, <2>2
  <1>4. PICK x \in ColumnRecord : col'[c] = Appended(x, v)
    BY <1>3
  <1>5. Appended(x, v) \in ColumnRecord
    BY ColumnTypes
  <1>. QED
    BY <1>2, <1>4, <1>5 DEF Appended, AppendTemp, ColumnRecord

(* What UpdateMerge hands on. *)
LEMMA UpdatedColumn ==
    ASSUME IInv, UpdatesMarked, NEW u \in Txn, UpdateMerge(u)
    PROVE  /\ job[u].c \in Col
           /\ col'[job[u].c] \in ColumnRecord
           /\ col'[job[u].c].stats = NoStats
           /\ Null \in job[u].vals => col'[job[u].c].hasNull
  <1>. DEFINE c == job[u].c
  <1>1. c \in Col /\ col[c].invalid
    BY DEF UpdateMerge, IInv, JobsPlaced, JobPlaced, UpdatesMarked, Marked
  <1>2. col[c] \in ColumnRecord /\ Consistent(col[c])
    BY <1>1, Zenon DEF IInv, TypeOK, ColumnsConsistent
  <1>3. col[c].stats = NoStats
    BY <1>1, <1>2 DEF Consistent
  <1>4. col'[c] = IF Null \in job[u].vals THEN UpdateMerged(col[c], Null)
                                          ELSE col[c]
    BY <1>1 DEF UpdateMerge, IInv, TypeOK
  <1>. QED
    BY <1>1, <1>2, <1>3, <1>4 DEF UpdateMerged, ColumnRecord

LEMMA PointersMerge ==
    ASSUME IInv, UpdatesMarked, WideTypeOK, NoPointers, NEW u \in Txn,
           WideStep(u)
    PROVE  WideTypeOK' /\ NoPointers'
  <1>1. /\ TypeOK /\ wide \in [Collection -> WideRecord]
        /\ u \in Collection /\ Table \in Collection /\ u # Table
        /\ \A k \in Collection : wide[k] \in WideRecord /\ wide[k].stats = NoStats
    BY TableAssumption DEF IInv, WideTypeOK, NoPointers, Collection
  <1>2. EmptyStats \in WideRecord /\ EmptyStats.stats = NoStats
    BY DEF EmptyStats, WideRecord
  <1>3. ASSUME NEW k \in Collection, NEW r \in Row, NEW v \in Datum,
               NEW c \in Col, AppendRow(k, r, v, u, c), AppendMerges(k)
        PROVE  WideTypeOK' /\ NoPointers'
    <2>1. /\ LastGroup(k)' = c
          /\ col'[c] \in ColumnRecord /\ col'[c].stats = NoStats
      BY <1>1, <1>3, AppendedColumn
    <2>2. wide' = [wide EXCEPT ![k] = Merged(wide[k], col'[c])]
      BY <1>3, <2>1 DEF AppendMerges
    <2>3. /\ Merged(wide[k], col'[c]) \in WideRecord
          /\ Merged(wide[k], col'[c]).stats = NoStats
      BY <1>1, <2>1, MergedTypes DEF ColumnRecord
    <2>. QED
      BY <1>1, <2>2, <2>3 DEF WideTypeOK, NoPointers
  <1>4. CASE Sink(u) /\ AppendMerges(u)
    BY <1>1, <1>3, <1>4 DEF Sink, RowsAt
  <1>5. CASE FlushRow(u) /\ AppendMerges(Table)
    BY <1>1, <1>3, <1>5 DEF FlushRow, RowsOf
  <1>6. CASE UpdateMerge(u) /\ UpdateMerges(u)
    <2>. DEFINE c == job[u].c
    <2>1. col'[c] \in ColumnRecord /\ col'[c].stats = NoStats
      BY <1>6, UpdatedColumn
    <2>2. \A k \in Collection : /\ Merged(wide[k], col'[c]) \in WideRecord
                                /\ Merged(wide[k], col'[c]).stats = NoStats
      BY <1>1, <2>1, MergedTypes DEF ColumnRecord
    <2>3. wide' = [k \in Collection |-> IF c \in Elements(groups[k])
                                        THEN Merged(wide[k], col'[c])
                                        ELSE wide[k]]
      BY <1>6 DEF UpdateMerges
    <2>. QED
      BY <1>1, <2>2, <2>3 DEF WideTypeOK, NoPointers
  <1>7. CASE MergeStorage(u) /\ StorageMerges(u)
    <2>1. /\ Merged(wide[Table], wide[u]) \in WideRecord
          /\ Merged(wide[Table], wide[u]).stats = NoStats
      BY <1>1, MergedTypes DEF WideRecord
    <2>. QED
      BY <1>1, <1>2, <1>7, <2>1 DEF StorageMerges, WideTypeOK, NoPointers
  <1>8. CASE Dropped(u)
    BY <1>1, <1>2, <1>8 DEF Dropped, WideTypeOK, NoPointers
  <1>. QED
    BY <1>4, <1>5, <1>6, <1>7, <1>8 DEF WideStep

LEMMA PointersReadBack ==
    ASSUME WideTypeOK, NoPointers, ReadBack
    PROVE  wide' = wide
  <1>1. /\ Table \in Collection /\ wide \in [Collection -> WideRecord]
        /\ wide[Table].stats = NoStats /\ wide[Table] \in WideRecord
    BY DEF WideTypeOK, NoPointers, Collection
  <1>2. PICK anything \in SUBSET Value :
           wide' = [wide EXCEPT ![Table] = [wide[Table] EXCEPT !.stats = NoStats]]
    BY <1>1 DEF ReadBack
  <1>3. [wide[Table] EXCEPT !.stats = NoStats] = wide[Table]
    BY <1>1 DEF WideRecord
  <1>. QED
    BY <1>1, <1>2, <1>3

-------------------------------------------------------------------------------
(* NULLs. *)

(* The row stays where it is, with its value and no version that is new. *)
RowKept(r) ==
    /\ row'[r].home = row[r].home
    /\ row'[r].val = row[r].val
    /\ \A i \in DOMAIN row'[r].upd : /\ i \in DOMAIN row[r].upd
                                    /\ row'[r].upd[i] = row[r].upd[i]

StillAdding(u, c) ==
    pc'[u] \in {"applied", "invalidated"} /\ job'[u].c = c /\ Null \in job'[u].vals

LEMMA ToldKept ==
    ASSUME TypeOK, NEW u \in Txn, Others(u), NEW r \in Row, RowKept(r),
           NEW k \in Collection, NEW l \in Collection, Told(k, row[r]),
           wide[k].hasNull => wide'[l].hasNull,
           Adding(u, row[r].home) =>
              StillAdding(u, row[r].home) \/ wide'[l].hasNull
    PROVE  Told(l, row[r])'
  <1>. DEFINE x == row[r]
              y == row'[r]
  <1>1. CASE wide'[l].hasNull
    BY <1>1 DEF Told
  <1>2. CASE ~wide'[l].hasNull
    <2>1. y.val # Null
      BY <1>2 DEF Told, RowKept
    <2>2. ASSUME NEW i \in DOMAIN y.upd, y.upd[i].val = Null
          PROVE  StillAdding(y.upd[i].by, y.home)
      <3>1. i \in DOMAIN x.upd /\ y.upd[i] = x.upd[i] /\ y.home = x.home
        BY <2>2 DEF RowKept
      <3>2. Adding(x.upd[i].by, x.home)
        BY <1>2, <2>2, <3>1 DEF Told
      <3>3. x.upd[i].by \in Txn
        BY <3>1, RowTypes
      <3>4. CASE x.upd[i].by = u
        BY <1>2, <3>1, <3>2, <3>4
      <3>5. CASE x.upd[i].by # u
        BY <3>1, <3>2, <3>3, <3>5 DEF Others, Adding, StillAdding, Writing
      <3>. QED
        BY <3>4, <3>5
    <2>. QED
      BY <2>1, <2>2 DEF Told, StillAdding, Adding, Writing
  <1>. QED
    BY <1>1, <1>2

LEMMA SameRowKept == ASSUME NEW r \in Row, row'[r] = row[r] PROVE RowKept(r)
  BY DEF RowKept

(* A step that takes row groups and versions away, if anything. *)
LEMMA ToldFrame ==
    ASSUME TypeOK, NullsTold, NEW u \in Txn, Others(u),
           \A c : Adding(u, c) => StillAdding(u, c),
           \A r \in Row : RowKept(r) \/ row'[r] = NoRow,
           \A k \in Collection :
              \/ Elements(groups'[k]) = {}
              \/ /\ Elements(groups'[k]) \subseteq Elements(groups[k])
                 /\ wide[k].hasNull => wide'[k].hasNull,
           \A k \in Collection : Elements(groups'[k]) \subseteq Col
    PROVE  NullsTold'
  <1>. SUFFICES ASSUME NEW k \in Collection, NEW r \in Row,
                       row'[r].home \in Elements(groups'[k])
                PROVE  Told(k, row[r])'
    BY DEF NullsTold
  <1>1. RowKept(r)
    <2>1. row'[r].home # Nowhere
      BY NowhereAssumption
    <2>. QED
      BY <2>1 DEF NoRow
  <1>2. /\ row[r].home \in Elements(groups[k])
        /\ wide[k].hasNull => wide'[k].hasNull
    BY <1>1 DEF RowKept
  <1>3. Told(k, row[r])
    BY <1>2 DEF NullsTold
  <1>. QED
    BY <1>1, <1>2, <1>3, ToldKept

LEMMA UndoneKept ==
    ASSUME TypeOK, NEW u \in Txn, row' = Undone(u), NEW r \in Row
    PROVE  RowKept(r) \/ row'[r] = NoRow
  <1>. DEFINE old == row[r].upd
  <1>1. row[r] \in RowRecord /\ old \in Seq(Version)
    BY RowTypes
  <1>2. row'[r] = IF row[r].ins = u THEN NoRow
                  ELSE [row[r] EXCEPT !.upd = DropVersion(old, u)]
    BY DEF Undone
  <1>3. CASE row[r].ins # u
    <2>1. /\ row'[r].home = row[r].home
          /\ row'[r].val = row[r].val
          /\ row'[r].upd = DropVersion(old, u)
      BY <1>1, <1>2, <1>3 DEF RowRecord
    <2>2. \A i \in DOMAIN DropVersion(old, u) :
             i \in DOMAIN old /\ DropVersion(old, u)[i] = old[i]
      BY <1>1 DEF DropVersion
    <2>. QED
      BY <2>1, <2>2, Zenon DEF RowKept
  <1>. QED
    BY <1>2, <1>3

(* Rows elsewhere are not affected when one is appended. *)
LEMMA AppendElsewhere ==
    ASSUME TypeOK, NEW k \in Collection, NEW r \in Row, NEW v \in Datum,
           NEW u \in Txn, NEW c \in Col, AppendRow(k, r, v, u, c),
           NEW q \in Row \ {r}, NEW l \in Collection,
           row[q].home \in Elements(groups'[l])
    PROVE  row[q].home \in Elements(groups[l])
  <1>1. groups \in [Collection -> Seq(Col)] /\ groups[k] \in Seq(Col)
    BY DEF TypeOK
  <1>2. CASE groups' = groups
    BY <1>2
  <1>3. CASE /\ groups' = [groups EXCEPT ![k] = Append(groups[k], c)]
             /\ RowsAt(c) = {}
    <2>1. row[q].home # c
      BY <1>3 DEF RowsAt
    <2>2. CASE l = k
      <3>1. groups'[l] = Append(groups[l], c)
        BY <1>1, <1>3, <2>2
      <3>2. \A i \in DOMAIN groups'[l] :
               \/ groups'[l][i] = c
               \/ i \in DOMAIN groups[l] /\ groups'[l][i] = groups[l][i]
        BY <1>1, <2>2, <3>1
      <3>. QED
        BY <2>1, <3>2 DEF Elements
    <2>3. CASE l # k
      BY <1>1, <1>3, <2>3
    <2>. QED
      BY <2>2, <2>3
  <1>. QED
    BY <1>2, <1>3 DEF AppendRow, AppendOpens, AppendFits, AppendOverflows, Free

LEMMA NullsAppend ==
    ASSUME TypeOK, GroupsApart, WideTypeOK, NullsTold, NEW u \in Txn, Others(u),
           ~Writing(u), NEW k \in Collection, NEW r \in Row, NEW v \in Datum,
           NEW c \in Col, AppendRow(k, r, v, u, c), AppendMerges(k)
    PROVE  NullsTold'
  <1>. SUFFICES ASSUME NEW l \in Collection, NEW q \in Row,
                       row'[q].home \in Elements(groups'[l])
                PROVE  Told(l, row[q])'
    BY DEF NullsTold
  <1>1. /\ c \in Elements(groups'[k])
        /\ \A p \in Row \ {r} : row'[p] = row[p]
        /\ row'[r] = NewRow(u, c, v)
    BY HousedAppend DEF AppendRow, NewRow, TypeOK
  <1>2. /\ LastGroup(k)' = c
        /\ v = Null => col'[c].hasNull
    BY AppendedColumn
  <1>3. wide' = [wide EXCEPT ![k] = Merged(wide[k], col'[c])]
    BY <1>2 DEF AppendMerges
  <1>4. /\ wide[l].hasNull => wide'[l].hasNull
        /\ v = Null => wide'[k].hasNull
    BY <1>2, <1>3 DEF WideTypeOK, Merged
  <1>5. CASE q # r
    <2>1. RowKept(q) /\ row[q].home \in Elements(groups[l])
      BY <1>1, <1>5, SameRowKept, AppendElsewhere
    <2>2. Told(l, row[q])
      BY <2>1 DEF NullsTold
    <2>. QED
      BY <1>4, <2>1, <2>2, ToldKept DEF Adding
  <1>6. CASE q = r
    <2>1. row'[q].home = c /\ row'[q].val = v /\ row'[q].upd = <<>>
      BY <1>1, <1>6 DEF NewRow
    <2>2. GroupsApart'
      BY AppendApart
    <2>3. l = k
      BY <1>1, <2>1, <2>2 DEF GroupsApart
    <2>. QED
      BY <1>4, <2>1, <2>3 DEF Told
  <1>. QED
    BY <1>5, <1>6

(* Who puts a NULL on a chain is adding it until the table is told. *)
LEMMA NullsApply ==
    ASSUME TypeOK, NullsTold, NEW u \in Txn, Others(u), ~Writing(u),
           NEW back \in {"ready", "counted"}, UpdateApply(u, back), wide' = wide
    PROVE  NullsTold'
  <1>1. PICK r \in Row, v \in Datum :
           /\ row' = [row EXCEPT ![r].upd = AddVersion(row[r].upd, u, v)]
           /\ job' = [job EXCEPT ![u] = [c |-> row[r].home, vals |-> {v},
                                         back |-> back]]
           /\ pc' = [pc EXCEPT ![u] = "applied"]
           /\ groups' = groups
    BY DEF UpdateApply, Goto
  <1>. SUFFICES ASSUME NEW k \in Collection, NEW q \in Row,
                       row'[q].home \in Elements(groups[k])
                PROVE  Told(k, row[q])'
    BY <1>1 DEF NullsTold
  <1>2. CASE q # r
    <2>1. row'[q] = row[q]
      BY <1>1, <1>2 DEF TypeOK
    <2>2. RowKept(q) /\ Told(k, row[q])
      BY <2>1, SameRowKept DEF NullsTold
    <2>. QED
      BY <2>2, ToldKept DEF Adding
  <1>3. CASE q = r
    <2>. DEFINE old == row[r].upd
                new == row'[r].upd
                d == row[r].home
    <2>1. row[r] \in RowRecord /\ old \in Seq(Version)
      BY RowTypes
    <2>2. row'[r] = [row[r] EXCEPT !.upd = AddVersion(old, u, v)]
      BY <1>1 DEF TypeOK
    <2>3. /\ row'[r].home = d /\ row'[r].val = row[r].val
          /\ new = AddVersion(old, u, v)
      BY <2>1, <2>2 DEF RowRecord
    <2>4. \A i \in DOMAIN AddVersion(old, u, v) :
             \/ i \in DOMAIN old /\ AddVersion(old, u, v)[i] = old[i]
             \/ AddVersion(old, u, v)[i] = [by |-> u, val |-> v]
      BY <2>1 DEF AddVersion
    <2>5. Told(k, row[r])
      BY <1>3, <2>3 DEF NullsTold
    <2>6. CASE wide[k].hasNull
      BY <1>3, <2>6 DEF Told
    <2>7. CASE ~wide[k].hasNull
      <3>1. row'[r].val # Null
        BY <2>3, <2>5, <2>7 DEF Told
      <3>2. ASSUME NEW i \in DOMAIN new, new[i].val = Null
            PROVE  StillAdding(new[i].by, d)
        <4>1. CASE i \in DOMAIN old /\ new[i] = old[i]
          <5>1. Adding(old[i].by, d) /\ old[i].by \in Txn
            BY <2>5, <2>7, <3>2, <4>1, RowTypes DEF Told
          <5>2. old[i].by # u
            BY <5>1 DEF Adding
          <5>. QED
            BY <4>1, <5>1, <5>2 DEF Others, Adding, StillAdding, Writing
        <4>2. CASE new[i] = [by |-> u, val |-> v]
          <5>1. new[i].by = u /\ v = Null
            BY <3>2, <4>2
          <5>2. /\ pc'[u] = "applied"
                /\ job'[u].c = d /\ job'[u].vals = {v}
            BY <1>1 DEF TypeOK
          <5>. QED
            BY <5>1, <5>2 DEF StillAdding
        <4>. QED
          BY <2>3, <2>4, <4>1, <4>2
      <3>. QED
        BY <1>3, <2>3, <3>1, <3>2 DEF Told, StillAdding, Adding, Writing
    <2>. QED
      BY <2>6, <2>7
  <1>. QED
    BY <1>2, <1>3

LEMMA NullsMerge ==
    ASSUME IInv, UpdatesMarked, WideTypeOK, NullsTold, NEW u \in Txn, Others(u),
           UpdateMerge(u), UpdateMerges(u)
    PROVE  NullsTold'
  <1>. DEFINE c == job[u].c
  <1>1. /\ TypeOK /\ groups' = groups /\ row' = row
        /\ wide' = [k \in Collection |-> IF c \in Elements(groups[k])
                                         THEN Merged(wide[k], col'[c])
                                         ELSE wide[k]]
    BY DEF IInv, UpdateMerge, UpdateMerges
  <1>2. Null \in job[u].vals => col'[c].hasNull
    BY UpdatedColumn
  <1>. SUFFICES ASSUME NEW k \in Collection, NEW r \in Row,
                       row[r].home \in Elements(groups[k])
                PROVE  Told(k, row[r])'
    BY <1>1 DEF NullsTold
  <1>3. wide[k].hasNull => wide'[k].hasNull
    BY <1>1 DEF WideTypeOK, Merged
  <1>4. Adding(u, row[r].home) => wide'[k].hasNull
    BY <1>1, <1>2 DEF Adding, Merged
  <1>5. Told(k, row[r]) /\ RowKept(r)
    BY <1>1, SameRowKept DEF NullsTold
  <1>. QED
    BY <1>1, <1>3, <1>4, <1>5, ToldKept

LEMMA NullsMoved ==
    ASSUME TypeOK, WideTypeOK, NullsTold, NEW u \in Txn, Others(u), ~Writing(u),
           MergeStorage(u), StorageMerges(u)
    PROVE  NullsTold'
  <1>1. /\ u \in Collection /\ Table \in Collection /\ u # Table
        /\ groups \in [Collection -> Seq(Col)]
        /\ groups[u] \in Seq(Col) /\ groups[Table] \in Seq(Col)
    BY TableAssumption DEF TypeOK, Collection
  <1>2. /\ row' = row
        /\ groups' = [groups EXCEPT ![Table] = groups[Table] \o groups[u],
                                    ![u] = <<>>]
        /\ wide' = [wide EXCEPT ![Table] = Merged(wide[Table], wide[u]),
                                ![u] = EmptyStats]
    BY DEF MergeStorage, StorageMerges
  <1>3. /\ wide'[Table].hasNull = (wide[Table].hasNull \/ wide[u].hasNull)
        /\ \A k \in Collection \ {u, Table} : wide'[k] = wide[k]
    BY <1>1, <1>2 DEF WideTypeOK, Merged
  <1>4. /\ Elements(groups'[u]) = {}
        /\ Elements(groups'[Table]) \subseteq
              Elements(groups[Table]) \cup Elements(groups[u])
        /\ \A k \in Collection \ {u, Table} : groups'[k] = groups[k]
    <2>1. /\ groups'[u] = <<>>
          /\ groups'[Table] = groups[Table] \o groups[u]
          /\ \A k \in Collection \ {u, Table} : groups'[k] = groups[k]
      BY <1>1, <1>2
    <2>2. Elements(<<>>) = {}
      BY DEF Elements
    <2>. QED
      BY <1>1, <2>1, <2>2, ConcatParts
  <1>. SUFFICES ASSUME NEW k \in Collection, NEW r \in Row,
                       row[r].home \in Elements(groups'[k])
                PROVE  Told(k, row[r])'
    BY <1>2 DEF NullsTold
  <1>5. RowKept(r) /\ ~Adding(u, row[r].home)
    BY <1>2, SameRowKept DEF Adding
  <1>6. CASE k = Table
    <2>1. PICK j \in {u, Table} : row[r].home \in Elements(groups[j])
      BY <1>4, <1>6
    <2>2. Told(j, row[r]) /\ (wide[j].hasNull => wide'[k].hasNull)
      BY <1>1, <1>3, <1>6, <2>1 DEF NullsTold
    <2>. QED
      BY <1>1, <1>5, <2>2, ToldKept
  <1>7. CASE k # Table
    <2>1. k # u /\ Told(k, row[r])
      BY <1>4, <1>7 DEF NullsTold
    <2>. QED
      BY <1>3, <1>5, <1>7, <2>1, ToldKept
  <1>. QED
    BY <1>6, <1>7

(* The steps of a transaction. *)
LEMMA NullsStep ==
    ASSUME IInv, IInv', Chains, WInv, NEW u \in Txn,
           WideStep(u) \/ (OtherStep(u) /\ UNCHANGED wide)
    PROVE  NullsTold'
  <1>1. Step(u)
    BY WideIsNext
  <1>2. /\ TypeOK /\ GroupsApart /\ Others(u)
        /\ WideTypeOK /\ NullsTold /\ UpdatesMarked
        /\ u \in Collection /\ Table \in Collection
    BY <1>1, StepFacts DEF IInv, Chains, WInv, Collection
  <1>3. \A k \in Collection : Elements(groups'[k]) \subseteq Col
    <2>1. \A k \in Collection : groups'[k] \in Seq(Col)
      BY DEF IInv, TypeOK
    <2>. QED
      BY <2>1 DEF Elements
  <1>4. CASE Sink(u) /\ AppendMerges(u)
    <2>1. ~Writing(u)
      BY <1>4 DEF Sink, Writing
    <2>. QED
      BY <1>2, <1>4, <2>1, NullsAppend DEF Sink, RowsAt
  <1>5. CASE FlushRow(u) /\ AppendMerges(Table)
    <2>1. ~Writing(u)
      BY <1>5 DEF FlushRow, Writing
    <2>. QED
      BY <1>2, <1>5, <2>1, NullsAppend DEF FlushRow, RowsOf
  <1>6. CASE UpdateMerge(u) /\ UpdateMerges(u)
    BY <1>2, <1>6, NullsMerge
  <1>7. CASE MergeStorage(u) /\ StorageMerges(u)
    <2>1. ~Writing(u)
      BY <1>7 DEF MergeStorage, Writing
    <2>. QED
      BY <1>2, <1>7, <2>1, NullsMoved
  <1>8. CASE (FlushEnd(u) \/ Rollback(u) \/ RevertAppend(u)) /\ Dropped(u)
    <2>1. \A c : ~Adding(u, c)
      BY <1>8 DEF FlushEnd, Rollback, RevertAppend, Adding, Writing
    <2>2. \A r \in Row : RowKept(r) \/ row'[r] = NoRow
      BY <1>2, <1>8, UndoneKept, SameRowKept DEF FlushEnd, Rollback, RevertAppend
    <2>3. \A k \in Collection \ {u} : wide'[k] = wide[k]
      BY <1>2, <1>8 DEF Dropped, WideTypeOK
    <2>4. /\ Elements(groups'[u]) = {}
          /\ \A k \in Collection \ {u} :
                Elements(groups'[k]) \subseteq Elements(groups[k])
      <3>1. Elements(<<>>) = {}
        BY DEF Elements
      <3>2. /\ groups \in [Collection -> Seq(Col)]
            /\ groups[Table] \in Seq(Col) /\ u # Table
        BY <1>2, TableAssumption DEF TypeOK
      <3>3. CASE FlushEnd(u) \/ Rollback(u)
        BY <1>2, <3>1, <3>2, <3>3 DEF FlushEnd, Rollback
      <3>4. CASE RevertAppend(u)
        <4>1. PICK n \in 0..Len(groups[Table]) :
                 groups' = [groups EXCEPT
                              ![Table] = SubSeq(groups[Table], 1, n),
                              ![u] = <<>>]
          BY <3>4 DEF RevertAppend
        <4>2. Elements(SubSeq(groups[Table], 1, n)) \subseteq Elements(groups[Table])
          BY <3>2 DEF Elements
        <4>3. /\ groups'[u] = <<>>
              /\ groups'[Table] = SubSeq(groups[Table], 1, n)
              /\ \A k \in Collection \ {u, Table} : groups'[k] = groups[k]
          BY <1>2, <3>2, <4>1
        <4>. QED
          BY <3>1, <4>2, <4>3
      <3>. QED
        BY <1>8, <3>3, <3>4
    <2>. QED
      BY <1>2, <1>3, <2>1, <2>2, <2>3, <2>4, ToldFrame
  <1>9. CASE UpdateInvalidate(u) /\ UNCHANGED wide
    <2>1. \A c : Adding(u, c) => StillAdding(u, c)
      BY <1>2, <1>9 DEF UpdateInvalidate, Goto, TypeOK, Adding, StillAdding
    <2>2. /\ groups' = groups
          /\ \A r \in Row : RowKept(r)
      BY <1>9, SameRowKept DEF UpdateInvalidate
    <2>. QED
      BY <1>2, <1>3, <1>9, <2>1, <2>2, ToldFrame
  <1>10. CASE (Update(u) \/ SinkConflict(u)) /\ UNCHANGED wide
    <2>1. ~Writing(u)
      BY <1>10 DEF Update, SinkConflict, Writing
    <2>. QED
      BY <1>2, <1>10, <2>1, NullsApply DEF Update, SinkConflict
  <1>11. CASE /\ \/ Begin(u)
                 \/ InsertBegin(u)
                 \/ FinishInitialiseStats(u)
                 \/ CommitWithoutRows(u)
                 \/ FlushBegin(u)
                 \/ Commit(u)
                 \/ ScanStep(u)
              /\ UNCHANGED wide
    <2>1. groups' = groups /\ row' = row /\ ~Writing(u)
      BY <1>11 DEF Begin, InsertBegin, FinishInitialiseStats, CommitWithoutRows,
                   FlushBegin, Commit, ScanStep, ScanCheckStats,
                   ScanNotExcluded, ScanCheckUpdates, ScanCheckRange, ScanEnd,
                   Writing
    <2>2. /\ \A c : ~Adding(u, c)
          /\ \A r \in Row : RowKept(r)
      BY <2>1, SameRowKept DEF Adding
    <2>. QED
      BY <1>2, <1>3, <1>11, <2>1, <2>2, ToldFrame
  <1>. QED
    BY <1>4, <1>5, <1>6, <1>7, <1>8, <1>9, <1>10, <1>11 DEF WideStep, OtherStep

(* A restart makes the newest versions the values of the rows. *)
LEMMA NullsReopen ==
    ASSUME TypeOK, NullsTold, Reopen, wide' = wide
    PROVE  NullsTold'
  <1>1. /\ groups' = groups
        /\ \A u \in Txn : ~Writing(u)
    BY DEF Reopen, Quiescent, Finished, Writing
  <1>. SUFFICES ASSUME NEW k \in Collection, NEW r \in Row,
                       row'[r].home \in Elements(groups[k])
                PROVE  Told(k, row[r])'
    BY <1>1 DEF NullsTold
  <1>. DEFINE x == row[r]
  <1>2. /\ x \in RowRecord
        /\ row'[r] = [x EXCEPT !.val = NewestValue(x), !.upd = <<>>]
    BY RowTypes DEF Reopen
  <1>3. /\ row'[r].home = x.home
        /\ row'[r].val = NewestValue(x)
        /\ row'[r].upd = <<>>
    BY <1>2 DEF RowRecord
  <1>4. Told(k, x)
    BY <1>3 DEF NullsTold
  <1>5. wide[k].hasNull \/ NewestValue(x) # Null
    <2>1. CASE x.upd = <<>>
      BY <1>4, <2>1 DEF NewestValue, Told
    <2>2. CASE x.upd # <<>>
      <3>1. Len(x.upd) \in DOMAIN x.upd
        BY <1>2, <2>2 DEF RowRecord
      <3>2. x.upd[Len(x.upd)].by \in Txn
        BY <3>1, RowTypes
      <3>. QED
        BY <1>1, <1>4, <2>2, <3>1, <3>2 DEF NewestValue, Told, Adding
    <2>. QED
      BY <2>1, <2>2
  <1>. QED
    BY <1>3, <1>5 DEF Told

-------------------------------------------------------------------------------
(* The theorems. *)

LEMMA WideInductive ==
    ASSUME IInv, IInv', Chains, WInv, [WideNext]_wvars
    PROVE  WInv'
  <1>1. TypeOK /\ WideTypeOK /\ UpdatesMarked /\ NoPointers /\ NullsTold
    BY DEF IInv, WInv
  <1>2. ASSUME NEW u \in Txn, WideStep(u) \/ (OtherStep(u) /\ UNCHANGED wide)
        PROVE  WInv'
    <2>1. UpdatesMarked'
      BY <1>1, <1>2, WideIsNext, UpdatesStep
    <2>2. WideTypeOK' /\ NoPointers'
      BY <1>1, <1>2, PointersMerge DEF WideTypeOK, NoPointers
    <2>3. NullsTold'
      BY <1>2, NullsStep
    <2>. QED
      BY <2>1, <2>2, <2>3 DEF WInv
  <1>3. CASE Reopen /\ ReadBack
    <2>1. wide' = wide
      BY <1>1, <1>3, PointersReadBack
    <2>2. NullsTold'
      BY <1>1, <1>3, <2>1, NullsReopen
    <2>3. UpdatesMarked'
      BY <1>3 DEF Reopen, Quiescent, Finished, UpdatesMarked, Anchored, Marked,
                  Writing
    <2>. QED
      BY <1>1, <2>1, <2>2, <2>3 DEF WInv, WideTypeOK, NoPointers
  <1>4. CASE (Alter /\ UNCHANGED wide) \/ UNCHANGED wvars
    <2>1. UNCHANGED <<row, col, groups, pc, job, wide>>
      BY <1>4 DEF Alter, wvars, vars
    <2>2. NullsTold' /\ UpdatesMarked'
      BY <1>1, <2>1 DEF NullsTold, Told, Adding, Writing, UpdatesMarked,
                        Anchored, Marked
    <2>. QED
      BY <1>1, <2>1, <2>2 DEF WInv, WideTypeOK, NoPointers
  <1>. QED
    BY <1>2, <1>3, <1>4 DEF WideNext

(* The invariant of the statistics of a table, with those of its rows. *)
THEOREM WideInvariant == WideSpec => [](IInv /\ Chains /\ WInv)
  <1>1. WideInit => IInv /\ Chains /\ WInv
    <2>. SUFFICES ASSUME WideInit PROVE IInv /\ Chains /\ WInv
      OBVIOUS
    <2>1. IInv /\ Chains
      BY InitInvariant, InitChains DEF WideInit
    <2>2. /\ wide = [k \in Collection |-> EmptyStats]
          /\ \A u \in Txn : ~Writing(u)
          /\ \A k \in Collection : groups[k] = <<>>
      BY DEF WideInit, Init, Writing
    <2>3. WideTypeOK /\ NoPointers
      BY <2>2 DEF WideTypeOK, WideRecord, NoPointers, EmptyStats
    <2>4. UpdatesMarked /\ NullsTold
      BY <2>2 DEF UpdatesMarked, Anchored, Marked, Writing, NullsTold, Elements
    <2>. QED
      BY <2>1, <2>3, <2>4 DEF WInv
  <1>2. IInv /\ Chains /\ WInv /\ [WideNext]_wvars => (IInv /\ Chains /\ WInv)'
    <2>. SUFFICES ASSUME IInv, Chains, WInv, [WideNext]_wvars
                  PROVE  (IInv /\ Chains /\ WInv)'
      OBVIOUS
    <2>1. [Next]_vars
      BY WideIsNext DEF wvars
    <2>2. IInv' /\ Chains'
      BY <2>1, Inductive, ChainsInductive
    <2>. QED
      BY <2>2, WideInductive
  <1>. QED
    BY <1>1, <1>2, PTL DEF WideSpec

(* Whatever transactions do, and across restarts, the optimizer never replaces
   a scan of the table by an empty result because of the statistic of one
   partition: BaseStatistics::Merge never hands one on.                      *)
THEOREM EmptyResultsSound == WideSpec => []EmptyResultSound
  <1>1. WInv => EmptyResultSound
    BY DEF WInv, NoPointers, EmptyResultSound, Excludes, Collection
  <1>. QED
    BY <1>1, WideInvariant, PTL

(* A filter on NULL is decided from the table only when no row that the
   transaction reads is NULL: who has put a NULL on a chain of versions has
   told the table before anybody else may see it.                            *)
THEOREM NullFlagDecides == WideSpec => []NullFlagSound
  <1>1. ASSUME IInv, WInv PROVE NullFlagSound
    <2>. SUFFICES ASSUME NEW t \in Txn, Planning(t), ~wide[Table].hasNull,
                         NEW r \in TableRows(t), Reads(row[r], t, Null)
                  PROVE  FALSE
      BY DEF NullFlagSound
    <2>1. /\ r \in Row /\ Table \in Collection
          /\ row[r].home \in Elements(groups[Table])
      BY DEF TableRows, Collection
    <2>2. Told(Table, row[r])
      BY <1>1, <2>1 DEF WInv, NullsTold
    <2>3. PICK i \in Seen(row[r], t) : row[r].upd[i].val = Null
      BY <2>2 DEF Told, Reads
    <2>4. Adding(row[r].upd[i].by, row[r].home)
      BY <2>2, <2>3 DEF Told, Seen
    <2>5. row[r].upd[i].by \in snap[t] \cup {t}
      BY <2>3 DEF Seen, Visible
    <2>. QED
      BY <1>1, <2>4, <2>5
         DEF Adding, Writing, Planning, IInv, SnapshotsCommitted
  <1>. QED
    BY <1>1, WideInvariant, PTL
===============================================================================
