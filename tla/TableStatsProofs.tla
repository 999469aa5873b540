--------------------------- MODULE TableStatsProofs ---------------------------
(***************************************************************************)
(* Theorems about TableStats, for any number of partitions, transactions,  *)
(* rows and values: what the methods of ColumnData preserve, whatever the  *)
(* column was, type correctness, and the soundness of pruning.             *)
(*                                                                         *)
(* IInv is inductive, and implies the safety invariants.  Every action but *)
(* Reopen and Alter is a step of one transaction whose effect on a column  *)
(* is one method of ColumnData, and whose effect on a row is one of four;  *)
(* ActorStep says which, and the invariant is shown to survive any such    *)
(* step.                                                                   *)
(***************************************************************************)
EXTENDS TableStats, SequenceTheorems, TLAPS

-------------------------------------------------------------------------------
(* What the operators of ColumnData return. *)

(* Every method leaves a well-typed column behind. *)
LEMMA ColumnTypes ==
    ASSUME NEW x \in ColumnRecord, NEW v \in Datum
    PROVE  /\ Fresh(x) \in ColumnRecord
           /\ Loaded(x) \in ColumnRecord
           /\ Forgotten \in ColumnRecord
           /\ Appended(x, v) \in ColumnRecord
           /\ Built(x) \in ColumnRecord
           /\ Updated(x) \in ColumnRecord
           /\ Invalidated(x) \in ColumnRecord
           /\ UpdateMerged(x, v) \in ColumnRecord
  <1>1. x.temp \cup ({v} \ {Null}) \in SUBSET Value
    BY DEF Datum, ColumnRecord
  <1>2. Fresh(x) \in ColumnRecord /\ Forgotten \in ColumnRecord
    BY DEF ColumnRecord, Fresh, Forgotten
  <1>3. Loaded(x) \in ColumnRecord
    BY DEF ColumnRecord, Loaded
  <1>4. Appended(x, v) \in ColumnRecord
    <2>. DEFINE inv == x.invalid \/ x.stats # NoStats
                nul == x.hasNull \/ v = Null
    <2>1. inv \in BOOLEAN /\ nul \in BOOLEAN
      BY Zenon
    <2>2. Appended(x, v) = [x EXCEPT !.invalid = inv, !.stats = NoStats,
                                     !.temp = x.temp \cup ({v} \ {Null}),
                                     !.hasNull = nul]
      BY Zenon DEF Appended, AppendTemp
    <2>. HIDE DEF inv, nul
    <2>. QED
      BY <1>1, <2>1, <2>2 DEF ColumnRecord
  <1>5. Built(x) \in ColumnRecord
    <2>1. CASE x.invalid
      BY <2>1 DEF ColumnRecord, Built
    <2>2. CASE ~x.invalid
      <3>. DEFINE n == IF x.built = 0 THEN 1 ELSE 2
      <3>1. n \in 0..2
        OBVIOUS
      <3>2. Built(x) = [x EXCEPT !.temp = {}, !.stats = x.temp, !.built = n]
        BY <2>2 DEF Built
      <3>. HIDE DEF n
      <3>. QED
        BY <3>1, <3>2 DEF ColumnRecord
    <2>. QED
      BY <2>1, <2>2
  <1>6. Updated(x) \in ColumnRecord
    BY DEF ColumnRecord, Updated
  <1>7. Invalidated(x) \in ColumnRecord
    BY DEF ColumnRecord, Invalidated
  <1>8. UpdateMerged(x, v) \in ColumnRecord
    <2>. DEFINE nul == x.hasNull \/ v = Null
    <2>1. nul \in BOOLEAN
      BY Zenon
    <2>2. UpdateMerged(x, v) = [x EXCEPT !.hasNull = nul]
      BY Zenon DEF UpdateMerged
    <2>. HIDE DEF nul
    <2>. QED
      BY <2>1, <2>2 DEF ColumnRecord
  <1>. QED
    BY <1>2, <1>3, <1>4, <1>5, <1>6, <1>7, <1>8

-------------------------------------------------------------------------------
(* Consistency. *)

LEMMA NoStatsFact == ASSUME NEW S \in SUBSET Value PROVE S # NoStats
  BY NoStatsAssumption

(* Every method keeps the flags, the statistic and the temp vector in
   agreement.                                                                *)
LEMMA ConsistencyKept ==
    ASSUME NEW x \in ColumnRecord, NEW v \in Datum, Consistent(x)
    PROVE  /\ Consistent(Fresh(x))
           /\ Consistent(Loaded(x))
           /\ Consistent(Forgotten)
           /\ Consistent(Appended(x, v))
           /\ Consistent(Built(x))
           /\ Consistent(Updated(x))
           /\ Consistent(Invalidated(x))
           /\ Consistent(UpdateMerged(x, v))
  <1>1. Consistent(Fresh(x)) /\ Consistent(Loaded(x)) /\ Consistent(Forgotten)
    BY DEF Consistent, Fresh, Loaded, Forgotten
  <1>2. Consistent(Appended(x, v))
    BY DEF Consistent, Appended, AppendTemp, ColumnRecord
  <1>3. Consistent(Built(x))
    <2>1. x.temp # NoStats
      BY NoStatsFact DEF ColumnRecord
    <2>. QED
      BY <2>1 DEF Consistent, Built, ColumnRecord
  <1>4. Consistent(Updated(x)) /\ Consistent(UpdateMerged(x, v))
    BY DEF Consistent, Updated, UpdateMerged, ColumnRecord
  <1>5. Consistent(Invalidated(x))
    BY DEF Consistent, Invalidated, ColumnRecord
  <1>. QED
    BY <1>1, <1>2, <1>3, <1>4, <1>5

(* No method of a column that lives on loses track of a row it accounted for,
   or of an excuse.                                                          *)
LEMMA CoverKept ==
    ASSUME NEW x \in ColumnRecord, NEW v \in Datum, NEW w, Consistent(x)
    PROVE  /\ Covers(x, w) => /\ Covers(Appended(x, v), w)
                              /\ Covers(Built(x), w)
                              /\ Covers(Updated(x), w)
                              /\ Covers(Invalidated(x), w)
                              /\ Covers(UpdateMerged(x, v), w)
           /\ Excused(x) => /\ Excused(Appended(x, v))
                            /\ Excused(Built(x))
                            /\ Excused(Updated(x))
                            /\ Excused(Invalidated(x))
                            /\ Excused(UpdateMerged(x, v))
           /\ x.invalid => /\ Appended(x, v).invalid
                           /\ Built(x).invalid
                           /\ Updated(x).invalid
                           /\ UpdateMerged(x, v).invalid
           /\ Invalidated(x).invalid
  <1>1. Covers(x, w) => Covers(Appended(x, v), w)
    BY DEF Covers, Appended, AppendTemp, ColumnRecord, Consistent
  <1>2. Covers(x, w) => Covers(Built(x), w)
    BY DEF Covers, Built, ColumnRecord
  <1>3. Covers(x, w) => Covers(Updated(x), w) /\ Covers(Invalidated(x), w)
    BY DEF Covers, Updated, Invalidated, ColumnRecord
  <1>4. Covers(x, w) => Covers(UpdateMerged(x, v), w)
    BY DEF Covers, UpdateMerged, ColumnRecord
  <1>5. Excused(x) => /\ Excused(Appended(x, v))
                      /\ Excused(Built(x))
                      /\ Excused(Updated(x))
                      /\ Excused(Invalidated(x))
                      /\ Excused(UpdateMerged(x, v))
    BY DEF Excused, Appended, AppendTemp, Built, Updated, Invalidated, UpdateMerged,
           ColumnRecord
  <1>6. x.invalid => /\ Appended(x, v).invalid
                     /\ Built(x).invalid
                     /\ Updated(x).invalid
                     /\ UpdateMerged(x, v).invalid
    BY DEF Appended, AppendTemp, Built, Updated, UpdateMerged, ColumnRecord
  <1>7. Invalidated(x).invalid
    BY DEF Invalidated, ColumnRecord
  <1>. QED
    BY <1>1, <1>2, <1>3, <1>4, <1>5, <1>6, <1>7

(* The two lemmas together, and the flag loaded, for any method at all. *)
LEMMA MethodKeeps ==
    ASSUME NEW x \in ColumnRecord, NEW v \in Datum, Consistent(x), NEW y,
           \/ y = x
           \/ y = Appended(x, v)
           \/ y = Built(x)
           \/ y = Updated(x)
           \/ y = Invalidated(x)
           \/ y = UpdateMerged(x, v)
    PROVE  /\ Consistent(y)
           /\ \A w : Covers(x, w) => Covers(y, w)
           /\ Excused(x) => Excused(y)
           /\ x.invalid => y.invalid
           /\ y.loaded <=> x.loaded
  <1>1. Consistent(y)
    BY ConsistencyKept
  <1>2. ASSUME NEW w, Covers(x, w) PROVE Covers(y, w)
    BY <1>2, CoverKept
  <1>3. Excused(x) => Excused(y)
    BY CoverKept
  <1>4. x.invalid => y.invalid
    BY CoverKept
  <1>5. y.loaded <=> x.loaded
    BY DEF Appended, AppendTemp, Built, Updated, Invalidated, UpdateMerged, ColumnRecord
  <1>. QED
    BY <1>1, <1>2, <1>3, <1>4, <1>5

(* An appended value is accounted for. *)
LEMMA AppendCovers ==
    ASSUME NEW x \in ColumnRecord, NEW v \in Datum, Consistent(x)
    PROVE  Covers(Appended(x, v), v)
  BY DEF Consistent, Covers, Appended, AppendTemp, ColumnRecord, Datum

(* A column that has just been constructed and given its first value. *)
LEMMA NewbornConsistent ==
    ASSUME NEW x \in ColumnRecord, NEW v \in Datum, Consistent(x)
    PROVE  /\ Consistent(Appended(Fresh(x), v))
           /\ Covers(Appended(Fresh(x), v), v)
           /\ ~Appended(Fresh(x), v).loaded
  <1>1. Fresh(x) \in ColumnRecord /\ Consistent(Fresh(x)) /\ ~Fresh(x).loaded
    BY ColumnTypes, ConsistencyKept DEF Fresh
  <1>2. Consistent(Appended(Fresh(x), v)) /\ ~Appended(Fresh(x), v).loaded
    BY <1>1, MethodKeeps
  <1>3. Covers(Appended(Fresh(x), v), v)
    BY <1>1, AppendCovers
  <1>. QED
    BY <1>2, <1>3

(* A statistic that excludes a filter excludes no row it accounts for, unless
   its history excuses it.                                                   *)
LEMMA ExclusionSound ==
    ASSUME NEW x \in ColumnRecord, NEW matching, NEW w \in matching,
           Consistent(x), Covers(x, w), Excludes(x, matching), w # Null
    PROVE  Excused(x)
  BY DEF Consistent, Covers, Excludes, Excused, ColumnRecord

-------------------------------------------------------------------------------
(* Type correctness. *)

(* An append to a collection leaves well-typed rows, columns and groups. *)
LEMMA AppendTypes ==
    ASSUME TypeOK, NEW k \in Collection, NEW r \in Row, NEW v \in Datum,
           NEW t \in Txn, NEW c \in Col, AppendRow(k, r, v, t, c)
    PROVE  /\ row' \in [Row -> RowRecord]
           /\ col' \in [Col -> ColumnRecord]
           /\ groups' \in [Collection -> Seq(Col)]
           /\ requiresNew' \in BOOLEAN
  <1>1. row' \in [Row -> RowRecord]
    <2>1. [home |-> c, val |-> v, ins |-> t, upd |-> <<>>] \in RowRecord
      BY DEF RowRecord
    <2>. QED
      BY <2>1 DEF TypeOK, AppendRow
  <1>2. Append(groups[k], c) \in Seq(Col)
    BY DEF TypeOK
  <1>3. col[c] \in ColumnRecord /\ Fresh(col[c]) \in ColumnRecord
    BY ColumnTypes DEF TypeOK
  <1>4. Appended(col[c], v) \in ColumnRecord
    BY <1>3, ColumnTypes
  <1>5. Appended(Fresh(col[c]), v) \in ColumnRecord
    BY <1>3, ColumnTypes
  <1>6. CASE AppendOpens(k, v, c)
    BY <1>1, <1>2, <1>5, <1>6 DEF AppendOpens, TypeOK
  <1>7. CASE AppendFits(k, v, c)
    BY <1>1, <1>4, <1>7 DEF AppendFits, TypeOK
  <1>8. CASE AppendOverflows(k, v, c)
    <2>1. groups[k] \in Seq(Col) /\ groups[k] # <<>>
      BY <1>8 DEF AppendOverflows, NeedsGroup, TypeOK
    <2>2. LastGroup(k) \in Col
      BY <2>1 DEF LastGroup
    <2>3. Built(col[LastGroup(k)]) \in ColumnRecord
      BY <2>2, ColumnTypes DEF TypeOK
    <2>. QED
      BY <1>1, <1>2, <1>5, <1>8, <2>3 DEF AppendOverflows, TypeOK
  <1>. QED
    BY <1>6, <1>7, <1>8 DEF AppendRow

(* Versions stay sequences of versions. *)
LEMMA VersionTypes ==
    ASSUME NEW upd \in Seq(Version), NEW t \in Txn, NEW v \in Datum
    PROVE  /\ AddVersion(upd, t, v) \in Seq(Version)
           /\ DropVersion(upd, t) \in Seq(Version)
  <1>1. [by |-> t, val |-> v] \in Version
    BY DEF Version
  <1>2. AddVersion(upd, t, v) \in Seq(Version)
    <2>1. CASE upd # <<>> /\ upd[Len(upd)].by = t
      BY <1>1, <2>1 DEF AddVersion
    <2>2. CASE ~(upd # <<>> /\ upd[Len(upd)].by = t)
      BY <1>1, <2>2 DEF AddVersion
    <2>. QED
      BY <2>1, <2>2
  <1>3. DropVersion(upd, t) \in Seq(Version)
    <2>1. CASE upd # <<>>
      <3>1. Len(upd) - 1 \in 0..Len(upd)
        BY <2>1
      <3>2. SubSeq(upd, 1, Len(upd) - 1) \in Seq(Version)
        BY <3>1, SubSeqProperties
      <3>. QED
        BY <3>2 DEF DropVersion
    <2>2. CASE upd = <<>>
      BY <2>2 DEF DropVersion
    <2>. QED
      BY <2>1, <2>2
  <1>. QED
    BY <1>2, <1>3

(* The rows that are left when a transaction is undone. *)
LEMMA UndoneTypes ==
    ASSUME TypeOK, NEW t \in Txn
    PROVE  Undone(t) \in [Row -> RowRecord]
  <1>1. NoRow \in RowRecord
    BY DEF NoRow, RowRecord, Datum
  <1>2. ASSUME NEW r \in Row
        PROVE  [row[r] EXCEPT !.upd = DropVersion(row[r].upd, t)] \in RowRecord
    <2>1. row[r] \in RowRecord
      BY DEF TypeOK
    <2>2. DropVersion(row[r].upd, t) \in Seq(Version)
      BY <2>1, VersionTypes DEF RowRecord, Datum
    <2>. QED
      BY <2>1, <2>2 DEF RowRecord
  <1>. QED
    BY <1>1, <1>2 DEF Undone

(* What a step of an update leaves behind is well typed. *)
LEMMA UpdateTypes ==
    ASSUME TypeOK, NEW t \in Txn, NEW back \in {"ready", "counted"},
           UpdateApply(t, back)
    PROVE  TypeOK'
  <1>1. PICK r \in Row, v \in Datum :
           /\ row[r].home # Nowhere
           /\ row' = [row EXCEPT ![r].upd = AddVersion(row[r].upd, t, v)]
           /\ col' = [col EXCEPT ![row[r].home] = Updated(col[row[r].home])]
           /\ job' = [job EXCEPT ![t] = [c |-> row[r].home, vals |-> {v},
                                         back |-> back]]
           /\ pc' = [pc EXCEPT ![t] = "applied"]
           /\ UNCHANGED <<groups, requiresNew, snap>>
    BY DEF UpdateApply, Goto
  <1>2. row[r] \in RowRecord /\ row[r].home \in Col
    BY <1>1 DEF TypeOK, RowRecord
  <1>3. row' \in [Row -> RowRecord]
    <2>1. AddVersion(row[r].upd, t, v) \in Seq(Version)
      BY <1>2, VersionTypes DEF RowRecord
    <2>2. [row[r] EXCEPT !.upd = AddVersion(row[r].upd, t, v)] \in RowRecord
      BY <1>2, <2>1 DEF RowRecord
    <2>. QED
      BY <1>1, <2>2 DEF TypeOK
  <1>4. col' \in [Col -> ColumnRecord]
    <2>1. Updated(col[row[r].home]) \in ColumnRecord
      BY <1>2, ColumnTypes DEF TypeOK
    <2>. QED
      BY <1>1, <2>1 DEF TypeOK
  <1>5. job' \in [Txn -> Job]
    <2>1. [c |-> row[r].home, vals |-> {v}, back |-> back] \in Job
      BY <1>2 DEF Job
    <2>. QED
      BY <1>1, <2>1 DEF TypeOK
  <1>6. pc' \in [Txn -> Control]
    BY <1>1 DEF TypeOK, Control
  <1>. QED
    BY <1>1, <1>3, <1>4, <1>5, <1>6 DEF TypeOK

(* So is what the other steps of one transaction leave behind. *)
LEMMA InsertTypes ==
    ASSUME TypeOK, NEW t \in Txn, Begin(t) \/ InsertStep(t)
    PROVE  TypeOK'
  <1>1. CASE Begin(t)
    BY <1>1 DEF Begin, Goto, TypeOK, Control
  <1>2. CASE InsertBegin(t)
    BY <1>2 DEF InsertBegin, Goto, TypeOK, Control
  <1>3. CASE Sink(t)
    <2>1. PICK r \in Row, v \in Datum, c \in Col : AppendRow(t, r, v, t, c)
      BY <1>3 DEF Sink, RowsAt
    <2>2. t \in Collection
      BY DEF Collection
    <2>3. /\ row' \in [Row -> RowRecord]
          /\ col' \in [Col -> ColumnRecord]
          /\ groups' \in [Collection -> Seq(Col)]
          /\ requiresNew' \in BOOLEAN
      BY <2>1, <2>2, AppendTypes
    <2>. QED
      BY <1>3, <2>3 DEF Sink, Goto, TypeOK, Control
  <1>4. CASE FinishInitialiseStats(t)
    <2>1. pc' \in [Txn -> Control]
      BY <1>4 DEF FinishInitialiseStats, Goto, TypeOK, Control
    <2>2. col' \in [Col -> ColumnRecord]
      <3>1. CASE RowsOf(t) # {}
        <4>1. groups[t] \in Seq(Col) /\ groups[t] # <<>>
          BY <3>1 DEF RowsOf, Elements, TypeOK, Collection
        <4>2. LastGroup(t) \in Col
          BY <4>1 DEF LastGroup
        <4>3. Built(col[LastGroup(t)]) \in ColumnRecord
          BY <4>2, ColumnTypes DEF TypeOK, Datum
        <4>. QED
          BY <1>4, <4>3 DEF FinishInitialiseStats, TypeOK
      <3>2. CASE RowsOf(t) = {}
        BY <1>4, <3>2 DEF FinishInitialiseStats, TypeOK
      <3>. QED
        BY <3>1, <3>2
    <2>. QED
      BY <1>4, <2>1, <2>2 DEF FinishInitialiseStats, TypeOK
  <1>. QED
    BY <1>1, <1>2, <1>3, <1>4 DEF InsertStep

LEMMA UpdateStepTypes ==
    ASSUME TypeOK, NEW t \in Txn, UpdateStep(t)
    PROVE  TypeOK'
  <1>1. CASE Update(t)
    BY <1>1, UpdateTypes DEF Update
  <1>2. CASE SinkConflict(t)
    BY <1>2, UpdateTypes DEF SinkConflict
  <1>3. ASSUME NEW c \in Col
        PROVE  /\ Invalidated(col[c]) \in ColumnRecord
               /\ UpdateMerged(col[c], Null) \in ColumnRecord
    BY ColumnTypes DEF TypeOK, Datum
  <1>4. CASE UpdateInvalidate(t)
    <2>1. col' \in [Col -> ColumnRecord]
      BY <1>3, <1>4 DEF UpdateInvalidate, TypeOK
    <2>. QED
      BY <1>4, <2>1 DEF UpdateInvalidate, Goto, TypeOK, Control
  <1>5. CASE UpdateMerge(t)
    <2>1. NoJob \in Job /\ job[t].back \in Control
      BY DEF NoJob, Job, TypeOK, Control
    <2>2. job' \in [Txn -> Job] /\ pc' \in [Txn -> Control]
      BY <1>5, <2>1 DEF UpdateMerge, Goto, TypeOK
    <2>3. col' \in [Col -> ColumnRecord]
      BY <1>3, <1>5 DEF UpdateMerge, TypeOK
    <2>. QED
      BY <1>5, <2>2, <2>3 DEF UpdateMerge, TypeOK
  <1>. QED
    BY <1>1, <1>2, <1>4, <1>5 DEF UpdateStep

LEMMA CommitStepTypes ==
    ASSUME TypeOK, NEW t \in Txn, CommitStep(t)
    PROVE  TypeOK'
  <1>0. t \in Collection /\ Table \in Collection
    BY DEF Collection
  <1>1. CASE CommitWithoutRows(t) \/ Commit(t)
    BY <1>1 DEF CommitWithoutRows, Commit, End, Goto, TypeOK, Control
  <1>2. CASE MergeStorage(t)
    <2>1. groups[Table] \o groups[t] \in Seq(Col)
      BY <1>0 DEF TypeOK
    <2>2. groups' \in [Collection -> Seq(Col)]
      <3>1. <<>> \in Seq(Col)
        OBVIOUS
      <3>. QED
        BY <1>0, <1>2, <2>1, <3>1 DEF MergeStorage, TypeOK
    <2>. QED
      BY <1>2, <2>2 DEF MergeStorage, Goto, TypeOK, Control
  <1>3. CASE FlushBegin(t)
    BY <1>3 DEF FlushBegin, Goto, TypeOK, Control
  <1>4. CASE FlushRow(t)
    <2>1. PICK r \in Row, v \in Datum, c \in Col : AppendRow(Table, r, v, t, c)
      BY <1>4 DEF FlushRow, RowsOf
    <2>2. /\ row' \in [Row -> RowRecord]
          /\ col' \in [Col -> ColumnRecord]
          /\ groups' \in [Collection -> Seq(Col)]
          /\ requiresNew' \in BOOLEAN
      BY <1>0, <2>1, AppendTypes
    <2>. QED
      BY <1>4, <2>2 DEF FlushRow, TypeOK
  <1>5. CASE FlushEnd(t)
    <2>1. groups' \in [Collection -> Seq(Col)]
      BY <1>0, <1>5 DEF FlushEnd, TypeOK
    <2>. QED
      BY <1>5, <2>1 DEF FlushEnd, Goto, TypeOK, Control
  <1>6. CASE Rollback(t)
    <2>1. groups' \in [Collection -> Seq(Col)]
      BY <1>0, <1>6 DEF Rollback, TypeOK
    <2>2. row' \in [Row -> RowRecord]
      BY <1>6, UndoneTypes DEF Rollback
    <2>. QED
      BY <1>6, <2>1, <2>2 DEF Rollback, End, Goto, TypeOK, Control
  <1>7. CASE RevertAppend(t)
    <2>1. PICK n \in 0..Len(groups[Table]) :
            groups' = [groups EXCEPT ![Table] = SubSeq(groups[Table], 1, n),
                                     ![t] = <<>>]
      BY <1>7 DEF RevertAppend
    <2>2. SubSeq(groups[Table], 1, n) \in Seq(Col)
      <3>1. groups[Table] \in Seq(Col)
        BY <1>0 DEF TypeOK
      <3>2. \A i \in 1..n : groups[Table][i] \in Col
        BY <3>1
      <3>. QED
        BY <3>1, <3>2, SubSeqProperties
    <2>3. groups' \in [Collection -> Seq(Col)]
      <3>1. <<>> \in Seq(Col)
        OBVIOUS
      <3>. QED
        BY <1>0, <2>1, <2>2, <3>1 DEF TypeOK
    <2>4. row' \in [Row -> RowRecord]
      BY <1>7, UndoneTypes DEF RevertAppend
    <2>. QED
      BY <1>7, <2>3, <2>4 DEF RevertAppend, End, Goto, TypeOK, Control
  <1>. QED
    BY <1>1, <1>2, <1>3, <1>4, <1>5, <1>6, <1>7 DEF CommitStep

LEMMA ScanStepTypes ==
    ASSUME TypeOK, NEW t \in Txn, ScanStep(t)
    PROVE  TypeOK'
  <1>1. NoJob \in Job
    BY DEF NoJob, Job
  <1>2. ASSUME NEW c \in Col, NEW vals \in SUBSET Datum
        PROVE  [c |-> c, vals |-> vals, back |-> "ready"] \in Job
    BY DEF Job
  <1>3. CASE ScanCheckStats(t)
    <2>1. PICK c \in Col, vals \in (SUBSET Datum) \ {{}} :
            job' = [job EXCEPT ![t] = [c |-> c, vals |-> vals, back |-> "ready"]]
      BY <1>3 DEF ScanCheckStats
    <2>. QED
      BY <1>2, <1>3, <2>1 DEF ScanCheckStats, Goto, TypeOK, Control
  <1>4. CASE ScanNotExcluded(t)
    <2>1. PICK c \in Col, vals \in (SUBSET Value) \ {{}} :
            job' = [job EXCEPT ![t] = [c |-> c, vals |-> vals, back |-> "ready"]]
      BY <1>4 DEF ScanNotExcluded
    <2>2. vals \in SUBSET Datum
      BY DEF Datum
    <2>. QED
      BY <1>2, <1>4, <2>1, <2>2 DEF ScanNotExcluded, Goto, TypeOK, Control
  <1>5. CASE ScanCheckUpdates(t) \/ ScanCheckRange(t) \/ ScanEnd(t)
    BY <1>1, <1>5
       DEF ScanCheckUpdates, ScanCheckRange, ScanEnd, Goto, TypeOK, Control
  <1>. QED
    BY <1>3, <1>4, <1>5 DEF ScanStep

LEMMA ReopenTypes ==
    ASSUME TypeOK, Reopen \/ Alter
    PROVE  TypeOK'
  <1>1. CASE Reopen
    <2>1. row' \in [Row -> RowRecord]
      <3>1. ASSUME NEW r \in Row
            PROVE  [row[r] EXCEPT !.val = NewestValue(row[r]), !.upd = <<>>]
                      \in RowRecord
        <4>1. row[r] \in RowRecord
          BY DEF TypeOK
        <4>2. NewestValue(row[r]) \in Datum
          <5>1. CASE row[r].upd = <<>>
            BY <4>1, <5>1 DEF NewestValue, RowRecord
          <5>2. CASE row[r].upd # <<>>
            <6>1. row[r].upd[Len(row[r].upd)] \in Version
              BY <4>1, <5>2 DEF RowRecord
            <6>. QED
              BY <5>2, <6>1 DEF NewestValue, Version
          <5>. QED
            BY <5>1, <5>2
        <4>. DEFINE nv == NewestValue(row[r])
        <4>3. nv \in Datum /\ <<>> \in Seq(Version)
          BY <4>2
        <4>. HIDE DEF nv
        <4>4. [row[r] EXCEPT !.val = nv, !.upd = <<>>] \in RowRecord
          BY <4>1, <4>3 DEF RowRecord
        <4>. QED
          BY <4>4 DEF nv
      <3>. QED
        BY <1>1, <3>1 DEF Reopen
    <2>2. col' \in [Col -> ColumnRecord]
      <3>1. ASSUME NEW c \in Col
            PROVE  Loaded(col[c]) \in ColumnRecord /\ Forgotten \in ColumnRecord
        BY ColumnTypes DEF TypeOK, Datum
      <3>. QED
        BY <1>1, <3>1 DEF Reopen
    <2>. QED
      BY <1>1, <2>1, <2>2 DEF Reopen, TypeOK
  <1>2. CASE Alter
    BY <1>2 DEF Alter, TypeOK
  <1>. QED
    BY <1>1, <1>2

LEMMA InitTypes == Init => TypeOK
  <1>. SUFFICES ASSUME Init PROVE TypeOK
    OBVIOUS
  <1>1. NoRow \in RowRecord /\ Forgotten \in ColumnRecord /\ NoJob \in Job
    BY DEF NoRow, RowRecord, Datum, Forgotten, ColumnRecord, NoJob, Job
  <1>2. <<>> \in Seq(Col)
    OBVIOUS
  <1>. QED
    BY <1>1, <1>2 DEF Init, TypeOK, Control

LEMMA NextTypes ==
    ASSUME TypeOK, [Next]_vars
    PROVE  TypeOK'
  <1>1. CASE UNCHANGED vars
    BY <1>1 DEF vars, TypeOK
  <1>2. ASSUME NEW t \in Txn, Begin(t) \/ InsertStep(t) PROVE TypeOK'
    BY <1>2, InsertTypes
  <1>3. ASSUME NEW t \in Txn, UpdateStep(t) PROVE TypeOK'
    BY <1>3, UpdateStepTypes
  <1>4. ASSUME NEW t \in Txn, CommitStep(t) PROVE TypeOK'
    BY <1>4, CommitStepTypes
  <1>5. ASSUME NEW t \in Txn, ScanStep(t) PROVE TypeOK'
    BY <1>5, ScanStepTypes
  <1>6. CASE Reopen \/ Alter
    BY <1>6, ReopenTypes
  <1>. QED
    BY <1>1, <1>2, <1>3, <1>4, <1>5, <1>6 DEF Next

(* Rows, columns, collections and transactions keep their types in every
   behaviour: no handler leaves a half-made object behind, and no NULL ever
   gets into the values AppendTemp copies and a statistic is built from.     *)
THEOREM TypeCorrect == Spec => []TypeOK
  BY InitTypes, NextTypes, PTL DEF Spec

-------------------------------------------------------------------------------
(* Steps. *)

(* Applying(u, c) after the step, for u and c as they were before it. *)
StillApplying(u, c) == pc'[u] = "applied" /\ job'[u].c = c

Reborn(d, v) == RowsAt(d) = {} /\ col'[d] = Appended(Fresh(col[d]), v)

ColumnStep(d) ==
    \/ col'[d] = col[d]
    \/ col'[d] = Built(col[d])
    \/ col'[d] = Updated(col[d])
    \/ col'[d] = Invalidated(col[d])
    \/ \E v \in Datum : \/ col'[d] = Appended(col[d], v)
                        \/ col'[d] = UpdateMerged(col[d], v)
                        \/ Reborn(d, v)

Kept(r) == row'[r] = row[r]

Placed(r, u) ==
    /\ row'[r].home \in Col
    /\ row'[r].ins = u
    /\ row'[r].upd = <<>>
    /\ Covers(col'[row'[r].home], row'[r].val)

Removed(r) == row'[r] = NoRow

Versioned(r, u) ==
    /\ row'[r] \in RowRecord
    /\ row'[r].home = row[r].home
    /\ row'[r].val = row[r].val
    /\ row'[r].ins = row[r].ins
    /\ \/ /\ \E v \in Datum : row'[r].upd = AddVersion(row[r].upd, u, v)
          /\ StillApplying(u, row[r].home)
       \/ row'[r].upd = DropVersion(row[r].upd, u)

RowStep(r, u) == Kept(r) \/ Placed(r, u) \/ Removed(r) \/ Versioned(r, u)

ActorStep(u) ==
    /\ pc[u] # "committed"
    /\ \A t \in Txn \ {u} : /\ pc'[t] = pc[t]
                            /\ job'[t] = job[t]
                            /\ snap'[t] = snap[t]
    /\ \A w \in snap'[u] : w \in snap[u] \/ (w \in Txn /\ pc[w] = "committed")
    /\ \A d \in Col : ColumnStep(d)
    /\ \A r \in Row : RowStep(r, u)
    /\ \A d \in Col : Applying(u, d) => StillApplying(u, d) \/ col'[d].invalid

-------------------------------------------------------------------------------
(* What such a step does to a column that has rows, or to any column. *)

LEMMA ColumnStepKeeps ==
    ASSUME TypeOK, ColumnsConsistent, NEW d \in Col, ColumnStep(d)
    PROVE  /\ Consistent(col'[d])
           /\ col'[d].loaded => col[d].loaded
           /\ RowsAt(d) # {} =>
                 /\ \A w : Covers(col[d], w) => Covers(col'[d], w)
                 /\ Excused(col[d]) => Excused(col'[d])
                 /\ col[d].invalid => col'[d].invalid
  <1>1. col[d] \in ColumnRecord
    BY DEF TypeOK
  <1>2. Consistent(col[d])
    BY Zenon DEF ColumnsConsistent
  <1>3. ASSUME NEW v \in Datum, Reborn(d, v)
        PROVE  /\ Consistent(col'[d])
               /\ ~col'[d].loaded
               /\ RowsAt(d) = {}
    BY <1>1, <1>2, <1>3, NewbornConsistent DEF Reborn
  <1>4. CASE \E v \in Datum : Reborn(d, v)
    BY <1>3, <1>4
  <1>5. CASE ~ \E v \in Datum : Reborn(d, v)
    <2>1. PICK v \in Datum : \/ col'[d] = col[d]
                             \/ col'[d] = Appended(col[d], v)
                             \/ col'[d] = Built(col[d])
                             \/ col'[d] = Updated(col[d])
                             \/ col'[d] = Invalidated(col[d])
                             \/ col'[d] = UpdateMerged(col[d], v)
      BY <1>5 DEF ColumnStep, Datum
    <2>. QED
      BY <1>1, <1>2, <2>1, MethodKeeps
  <1>. QED
    BY <1>4, <1>5

LEMMA StepColumns ==
    ASSUME TypeOK, ColumnsConsistent, NEW u \in Txn, ActorStep(u)
    PROVE  ColumnsConsistent'
  <1>. SUFFICES ASSUME NEW d \in Col
                PROVE  /\ Consistent(col'[d])
                       /\ col'[d].loaded => "reopens" \in Workload
    BY Zenon DEF ColumnsConsistent
  <1>1. ColumnStep(d)
    BY DEF ActorStep
  <1>2. Consistent(col'[d]) /\ (col'[d].loaded => col[d].loaded)
    BY <1>1, ColumnStepKeeps
  <1>3. col[d].loaded => "reopens" \in Workload
    BY Zenon DEF ColumnsConsistent
  <1>. QED
    BY <1>2, <1>3

-------------------------------------------------------------------------------
(* What such a step does to a row. *)

(* A version of the step's own is all that appears or disappears. *)
LEMMA VersionsOf ==
    ASSUME NEW r \in Row, NEW u \in Txn, TypeOK, Versioned(r, u)
    PROVE  \A i \in DOMAIN row'[r].upd :
              \/ /\ i \in DOMAIN row[r].upd
                 /\ row'[r].upd[i] = row[r].upd[i]
              \/ row'[r].upd[i].by = u /\ StillApplying(u, row[r].home)
  <1>. DEFINE old == row[r].upd
              new == row'[r].upd
  <1>1. old \in Seq(Version)
    BY DEF TypeOK, RowRecord
  <1>2. ASSUME NEW v \in Datum, new = AddVersion(old, u, v),
               NEW i \in DOMAIN new
        PROVE  \/ i \in DOMAIN old /\ new[i] = old[i]
               \/ new[i].by = u
    BY <1>1, <1>2 DEF AddVersion
  <1>3. ASSUME new = DropVersion(old, u), NEW i \in DOMAIN new
        PROVE  i \in DOMAIN old /\ new[i] = old[i]
    <2>1. CASE old # <<>> /\ old[Len(old)].by = u
      BY <1>1, <1>3, <2>1 DEF DropVersion
    <2>2. CASE ~(old # <<>> /\ old[Len(old)].by = u)
      BY <1>3, <2>2 DEF DropVersion
    <2>. QED
      BY <2>1, <2>2
  <1>. QED
    BY <1>2, <1>3, Zenon DEF Versioned

LEMMA StepRows ==
    ASSUME TypeOK, ColumnsConsistent, RowsCovered, NEW u \in Txn, ActorStep(u)
    PROVE  RowsCovered'
  <1>. SUFFICES ASSUME NEW r \in Row, row'[r].home # Nowhere
                PROVE  Covers(col'[row'[r].home], row'[r].val)
    BY DEF RowsCovered
  <1>1. RowStep(r, u)
    BY DEF ActorStep
  <1>2. CASE Placed(r, u)
    BY <1>2 DEF Placed
  <1>3. CASE Removed(r)
    BY <1>3 DEF Removed, NoRow
  <1>4. CASE row'[r].home = row[r].home /\ row'[r].val = row[r].val
    <2>. DEFINE d == row[r].home
    <2>1. d \in Col /\ RowsAt(d) # {}
      BY <1>4 DEF TypeOK, RowRecord, RowsAt
    <2>2. Covers(col[d], row[r].val)
      BY <1>4 DEF RowsCovered
    <2>3. ColumnStep(d)
      BY <2>1 DEF ActorStep
    <2>4. Covers(col'[d], row[r].val)
      BY <2>1, <2>2, <2>3, ColumnStepKeeps
    <2>. QED
      BY <1>4, <2>4
  <1>. QED
    BY <1>1, <1>2, <1>3, <1>4 DEF RowStep, Kept, Versioned

LEMMA StepVersions ==
    ASSUME TypeOK, ColumnsConsistent, VersionsInvalidate, NEW u \in Txn,
           ActorStep(u)
    PROVE  VersionsInvalidate'
  <1>. SUFFICES ASSUME NEW r \in Row, NEW i \in DOMAIN row'[r].upd,
                       row'[r].home # Nowhere
                PROVE  \/ col'[row'[r].home].invalid
                       \/ StillApplying(row'[r].upd[i].by, row'[r].home)
    BY DEF VersionsInvalidate, Applying, StillApplying
  <1>1. RowStep(r, u)
    BY DEF ActorStep
  <1>2. CASE Placed(r, u)
    BY <1>2 DEF Placed
  <1>3. CASE Removed(r)
    BY <1>3 DEF Removed, NoRow
  <1>4. CASE Kept(r) \/ Versioned(r, u)
    <2>. DEFINE d == row[r].home
                w == row[r].upd[i].by
    <2>1. row'[r].home = d /\ d \in Col /\ RowsAt(d) # {}
      BY <1>4 DEF Kept, Versioned, TypeOK, RowRecord, RowsAt
    <2>2. CASE row'[r].upd[i].by = u /\ StillApplying(u, d)
      BY <2>1, <2>2
    <2>3. CASE i \in DOMAIN row[r].upd /\ row'[r].upd[i] = row[r].upd[i]
      <3>1. w \in Txn
        <4>1. row[r].upd \in Seq(Version)
          BY DEF TypeOK, RowRecord
        <4>2. row[r].upd[i] \in Version
          BY <2>3, <4>1
        <4>. QED
          BY <4>2 DEF Version
      <3>2. col[d].invalid \/ Applying(w, d)
        BY <2>1, <2>3 DEF VersionsInvalidate
      <3>3. col[d].invalid => col'[d].invalid
        <4>1. ColumnStep(d)
          BY <2>1 DEF ActorStep
        <4>. QED
          BY <2>1, <4>1, ColumnStepKeeps
      <3>4. Applying(w, d) => StillApplying(w, d) \/ col'[d].invalid
        BY <2>1, <3>1 DEF ActorStep, Applying, StillApplying
      <3>. QED
        BY <2>1, <2>3, <3>2, <3>3, <3>4
    <2>. QED
      BY <1>4, <2>2, <2>3, VersionsOf DEF Kept
  <1>. QED
    BY <1>1, <1>2, <1>3, <1>4 DEF RowStep

LEMMA StepSnapshots ==
    ASSUME TypeOK, SnapshotsCommitted, NEW u \in Txn, ActorStep(u)
    PROVE  SnapshotsCommitted'
  <1>. SUFFICES ASSUME NEW t \in Txn, NEW w \in snap'[t]
                PROVE  pc'[w] = "committed"
    BY DEF SnapshotsCommitted
  <1>1. pc[w] = "committed"
    BY DEF ActorStep, SnapshotsCommitted
  <1>2. w \in Txn
    BY DEF ActorStep, TypeOK
  <1>. QED
    BY <1>1, <1>2 DEF ActorStep

-------------------------------------------------------------------------------
(* What such a step does to the scans of the other transactions. *)

(* The versions of another, uncommitted transaction are not read. *)
LEMMA VersionReads ==
    ASSUME TypeOK, NEW r \in Row, NEW u \in Txn, NEW t \in Txn,
           u \notin Visible(t), snap'[t] = snap[t], Versioned(r, u), NEW v,
           Reads(row[r], t, v)'
    PROVE  Reads(row[r], t, v)
  <1>. DEFINE old == row[r].upd
              new == row'[r].upd
              sees(w) == w \in Visible(t)
  <1>1. old \in Seq(Version)
    BY DEF TypeOK, RowRecord
  <1>2. \A i \in DOMAIN old : sees(old[i].by) =>
            i \in DOMAIN new /\ new[i] = old[i]
    <2>1. ASSUME NEW w \in Datum, new = AddVersion(old, u, w),
                 NEW i \in DOMAIN old, sees(old[i].by)
          PROVE  i \in DOMAIN new /\ new[i] = old[i]
      BY <1>1, <2>1 DEF AddVersion
    <2>2. ASSUME new = DropVersion(old, u),
                 NEW i \in DOMAIN old, sees(old[i].by)
          PROVE  i \in DOMAIN new /\ new[i] = old[i]
      <3>1. CASE old # <<>> /\ old[Len(old)].by = u
        <4>1. new = SubSeq(old, 1, Len(old) - 1)
          BY <2>2, <3>1 DEF DropVersion
        <4>2. i # Len(old)
          BY <2>2, <3>1
        <4>. QED
          BY <1>1, <4>1, <4>2
      <3>2. CASE ~(old # <<>> /\ old[Len(old)].by = u)
        BY <2>2, <3>2 DEF DropVersion
      <3>. QED
        BY <3>1, <3>2
    <2>. QED
      BY <2>1, <2>2, Zenon DEF Versioned
  <1>3. \A i \in DOMAIN new : sees(new[i].by) =>
            i \in DOMAIN old /\ new[i] = old[i]
    BY VersionsOf
  <1>4. Visible(t)' = Visible(t)
    BY DEF Visible
  <1>5. Seen(row[r], t)' = Seen(row[r], t)
    <2>1. Seen(row[r], t)' = {i \in DOMAIN new : sees(new[i].by)}
      BY <1>4 DEF Seen
    <2>2. Seen(row[r], t) = {i \in DOMAIN old : sees(old[i].by)}
      BY DEF Seen
    <2>. HIDE DEF sees, old, new
    <2>. QED
      BY <1>2, <1>3, <2>1, <2>2
  <1>6. \A i \in Seen(row[r], t) : new[i] = old[i]
    BY <1>2 DEF Seen
  <1>7. row'[r].val = row[r].val
    BY DEF Versioned
  <1>. QED
    BY <1>5, <1>6, <1>7 DEF Reads

(* What a scan of another transaction missed after the step it missed before
   it.                                                                       *)
LEMMA StepMissed ==
    ASSUME TypeOK, SnapshotsCommitted, NEW u \in Txn, ActorStep(u),
           NEW t \in Txn \ {u}, job[t].c \in Col
    PROVE  Missed(t)' \subseteq Missed(t)
  <1>1. u \notin Visible(t)
    BY DEF Visible, ActorStep, SnapshotsCommitted
  <1>2. job'[t] = job[t] /\ snap'[t] = snap[t]
    BY DEF ActorStep
  <1>3. SUFFICES ASSUME NEW r \in Row, r \in Missed(t)'
                 PROVE  r \in Missed(t)
    BY DEF Missed, VisibleRows, RowsAt
  <1>4. /\ row'[r].home = job[t].c
        /\ row'[r].ins \in Visible(t)
        /\ \E v \in job[t].vals : Reads(row[r], t, v)'
    BY <1>2, <1>3 DEF Missed, VisibleRows, RowsAt, Visible
  <1>5. PICK v \in job[t].vals : Reads(row[r], t, v)'
    BY <1>4
  <1>6. RowStep(r, u)
    BY DEF ActorStep
  <1>7. CASE Kept(r)
    <2>1. Reads(row[r], t, v)
      BY <1>2, <1>5, <1>7 DEF Kept, Reads, Seen, Visible
    <2>. QED
      BY <1>4, <1>7, <2>1 DEF Kept, Missed, VisibleRows, RowsAt
  <1>8. CASE Placed(r, u)
    BY <1>1, <1>4, <1>8 DEF Placed
  <1>9. CASE Removed(r)
    BY <1>4, <1>9, NowhereAssumption DEF Removed, NoRow
  <1>10. CASE Versioned(r, u)
    <2>1. Reads(row[r], t, v)
      BY <1>1, <1>2, <1>5, <1>10, VersionReads
    <2>. QED
      BY <1>4, <1>10, <2>1 DEF Versioned, Missed, VisibleRows, RowsAt
  <1>. QED
    BY <1>6, <1>7, <1>8, <1>9, <1>10 DEF RowStep

(* What the transaction that takes the step has to show for its own scan. *)
Concluded(u) ==
    pc[u] \in {"checked", "pruned"} /\ Missed(u) # {} => Excused(col[job[u].c])

LEMMA StepScans ==
    ASSUME TypeOK, ColumnsConsistent, SnapshotsCommitted, JobsPlaced,
           ScansSound, NEW u \in Txn, ActorStep(u), Concluded(u)'
    PROVE  ScansSound'
  <1>. SUFFICES ASSUME NEW t \in Txn \ {u}, pc[t] \in {"checked", "pruned"},
                       Missed(t)' # {}
                PROVE  Excused(col'[job[t].c])
    BY DEF ScansSound, Concluded, ActorStep
  <1>1. job[t].c \in Col
    BY DEF JobsPlaced, JobPlaced
  <1>2. Missed(t) # {}
    BY <1>1, StepMissed
  <1>3. Excused(col[job[t].c]) /\ RowsAt(job[t].c) # {}
    BY <1>2 DEF ScansSound, Missed, VisibleRows
  <1>4. ColumnStep(job[t].c)
    BY <1>1 DEF ActorStep
  <1>. QED
    BY <1>1, <1>3, <1>4, ColumnStepKeeps

-------------------------------------------------------------------------------
(* Every action of a transaction is such a step. *)

Sound(u) == ActorStep(u) /\ Concluded(u)' /\ JobPlaced(u)'

(* A step that leaves the transaction between statements or in an INSERT. *)
LEMMA PlainStep ==
    ASSUME TypeOK, NEW u \in Txn, pc[u] \notin {"committed", "applied"},
           NEW label, pc' = [pc EXCEPT ![u] = label],
           label \in {"ready", "insert", "counted", "flush", "flushed",
                      "committed", "aborted"},
           \A t \in Txn \ {u} : job'[t] = job[t] /\ snap'[t] = snap[t],
           \A w \in snap'[u] : w \in snap[u] \/ (w \in Txn /\ pc[w] = "committed"),
           \A d \in Col : ColumnStep(d),
           \A r \in Row : RowStep(r, u)
    PROVE  Sound(u)
  <1>1. pc'[u] = label /\ \A t \in Txn \ {u} : pc'[t] = pc[t]
    BY DEF TypeOK
  <1>2. \A d \in Col : ~Applying(u, d)
    BY DEF Applying
  <1>3. ActorStep(u)
    BY <1>1, <1>2 DEF ActorStep
  <1>4. Concluded(u)' /\ JobPlaced(u)'
    BY <1>1 DEF Concluded, JobPlaced
  <1>. QED
    BY <1>3, <1>4 DEF Sound

(* Appending a row changes the row groups by methods of ColumnData, and leaves
   the row in a column that accounts for it.                                 *)
LEMMA AppendEffect ==
    ASSUME TypeOK, ColumnsConsistent, NEW k \in Collection, NEW r \in Row,
           NEW v \in Datum, NEW u \in Txn, NEW c \in Col,
           AppendRow(k, r, v, u, c)
    PROVE  /\ \A d \in Col : ColumnStep(d)
           /\ \A q \in Row : RowStep(q, u)
  <1>1. col \in [Col -> ColumnRecord] /\ row \in [Row -> RowRecord]
    BY DEF TypeOK
  <1>2. \A d \in Col : Consistent(col[d])
    BY Zenon DEF ColumnsConsistent
  <1>3. groups[k] \in Seq(Col)
    BY DEF TypeOK
  <1>4. /\ \A d \in Col : ColumnStep(d)
        /\ Covers(col'[c], v)
    <2>1. CASE AppendOpens(k, v, c)
      <3>1. /\ col'[c] = Appended(Fresh(col[c]), v)
            /\ \A d \in Col \ {c} : col'[d] = col[d]
            /\ RowsAt(c) = {}
        BY <1>1, <2>1 DEF AppendOpens, Free
      <3>2. Reborn(c, v)
        BY <3>1 DEF Reborn
      <3>. QED
        BY <1>1, <1>2, <3>1, <3>2, NewbornConsistent DEF ColumnStep
    <2>2. CASE AppendFits(k, v, c)
      <3>1. /\ col'[c] = Appended(col[c], v)
            /\ \A d \in Col \ {c} : col'[d] = col[d]
        BY <1>1, <2>2 DEF AppendFits
      <3>. QED
        BY <1>1, <1>2, <3>1, AppendCovers DEF ColumnStep
    <2>3. CASE AppendOverflows(k, v, c)
      <3>1. groups[k] # <<>> /\ c \notin Elements(groups[k]) /\ RowsAt(c) = {}
        BY <2>3 DEF AppendOverflows, NeedsGroup, Free
      <3>2. LastGroup(k) \in Col \ {c}
        <4>1. Len(groups[k]) \in DOMAIN groups[k]
          BY <1>3, <3>1
        <4>. QED
          BY <1>3, <3>1, <4>1 DEF LastGroup, Elements
      <3>3. /\ col'[c] = Appended(Fresh(col[c]), v)
            /\ col'[LastGroup(k)] = Built(col[LastGroup(k)])
            /\ \A d \in Col \ {c, LastGroup(k)} : col'[d] = col[d]
        BY <1>1, <2>3, <3>2 DEF AppendOverflows
      <3>4. Reborn(c, v)
        BY <3>1, <3>3 DEF Reborn
      <3>. QED
        BY <1>1, <1>2, <3>3, <3>4, NewbornConsistent DEF ColumnStep
    <2>. QED
      BY <2>1, <2>2, <2>3 DEF AppendRow
  <1>5. row'[r] = [home |-> c, val |-> v, ins |-> u, upd |-> <<>>]
    BY <1>1 DEF AppendRow
  <1>6. \A q \in Row \ {r} : row'[q] = row[q]
    BY <1>1 DEF AppendRow
  <1>7. Placed(r, u)
    BY <1>4, <1>5 DEF Placed
  <1>. QED
    BY <1>4, <1>6, <1>7 DEF RowStep, Kept

LEMMA InsertSound ==
    ASSUME IInv, NEW u \in Txn, Begin(u) \/ InsertStep(u)
    PROVE  Sound(u)
  <1>1. TypeOK /\ ColumnsConsistent
    BY DEF IInv
  <1>2. CASE Begin(u)
    <2>1. pc[u] = "idle" /\ pc' = [pc EXCEPT ![u] = "ready"]
      BY <1>2 DEF Begin, Goto
    <2>2. /\ \A d \in Col : ColumnStep(d)
          /\ \A r \in Row : RowStep(r, u)
      BY <1>2 DEF Begin, ColumnStep, RowStep, Kept
    <2>3. /\ \A t \in Txn \ {u} : job'[t] = job[t] /\ snap'[t] = snap[t]
          /\ \A w \in snap'[u] : w \in Txn /\ pc[w] = "committed"
      BY <1>1, <1>2 DEF Begin, TypeOK
    <2>. QED
      BY <1>1, <2>1, <2>2, <2>3, PlainStep
  <1>3. CASE InsertBegin(u)
    <2>1. pc[u] = "ready" /\ pc' = [pc EXCEPT ![u] = "insert"]
      BY <1>3 DEF InsertBegin, Goto
    <2>2. /\ \A d \in Col : ColumnStep(d)
          /\ \A r \in Row : RowStep(r, u)
      BY <1>3 DEF InsertBegin, ColumnStep, RowStep, Kept
    <2>. QED
      BY <1>1, <1>3, <2>1, <2>2, PlainStep DEF InsertBegin
  <1>4. CASE Sink(u)
    <2>1. pc[u] \in {"insert", "counted"} /\ pc' = [pc EXCEPT ![u] = "counted"]
      BY <1>4 DEF Sink, Goto
    <2>2. PICK r \in Row, v \in Datum, c \in Col : AppendRow(u, r, v, u, c)
      BY <1>4 DEF Sink, RowsAt
    <2>3. u \in Collection
      BY DEF Collection
    <2>4. /\ \A d \in Col : ColumnStep(d)
          /\ \A q \in Row : RowStep(q, u)
      BY <1>1, <2>2, <2>3, AppendEffect
    <2>. QED
      BY <1>1, <1>4, <2>1, <2>4, PlainStep DEF Sink
  <1>5. CASE FinishInitialiseStats(u)
    <2>1. PICK label \in {"ready", "insert", "counted"} :
             pc' = [pc EXCEPT ![u] = label]
      <3>1. CASE Goto(u, "ready")
        BY <3>1 DEF Goto
      <3>2. CASE UNCHANGED pc
        <4>1. pc' = [pc EXCEPT ![u] = pc[u]]
          BY <1>1, <3>2 DEF TypeOK
        <4>. QED
          BY <1>5, <4>1 DEF FinishInitialiseStats
      <3>. QED
        BY <1>5, <3>1, <3>2 DEF FinishInitialiseStats
    <2>2. \A d \in Col : ColumnStep(d)
      BY <1>1, <1>5 DEF FinishInitialiseStats, ColumnStep, TypeOK
    <2>3. \A r \in Row : RowStep(r, u)
      BY <1>5 DEF FinishInitialiseStats, RowStep, Kept
    <2>. QED
      BY <1>1, <1>5, <2>1, <2>2, <2>3, PlainStep DEF FinishInitialiseStats
  <1>. QED
    BY <1>2, <1>3, <1>4, <1>5 DEF InsertStep

LEMMA UpdateApplySound ==
    ASSUME IInv, NEW u \in Txn, NEW back \in {"ready", "counted"},
           pc[u] \in {"ready", "insert", "counted"}, UpdateApply(u, back)
    PROVE  Sound(u)
  <1>1. TypeOK
    BY DEF IInv
  <1>2. PICK r \in Row, v \in Datum :
           /\ row[r].home # Nowhere
           /\ row' = [row EXCEPT ![r].upd = AddVersion(row[r].upd, u, v)]
           /\ col' = [col EXCEPT ![row[r].home] = Updated(col[row[r].home])]
           /\ job' = [job EXCEPT ![u] = [c |-> row[r].home, vals |-> {v},
                                         back |-> back]]
           /\ pc' = [pc EXCEPT ![u] = "applied"]
           /\ UNCHANGED snap
    BY DEF UpdateApply, Goto
  <1>3. row[r].home \in Col
    BY <1>1, <1>2 DEF TypeOK, RowRecord
  <1>4. pc'[u] = "applied" /\ job'[u].c = row[r].home
    BY <1>1, <1>2 DEF TypeOK
  <1>5. Versioned(r, u)
    <2>1. row[r].upd \in Seq(Version)
      BY <1>1 DEF TypeOK, RowRecord
    <2>2. AddVersion(row[r].upd, u, v) \in Seq(Version)
      BY <2>1, VersionTypes
    <2>3. row'[r] = [row[r] EXCEPT !.upd = AddVersion(row[r].upd, u, v)]
      BY <1>1, <1>2 DEF TypeOK
    <2>4. row[r] \in RowRecord
      BY <1>1 DEF TypeOK
    <2>5. /\ row'[r] \in RowRecord
          /\ row'[r].home = row[r].home
          /\ row'[r].val = row[r].val
          /\ row'[r].ins = row[r].ins
          /\ row'[r].upd = AddVersion(row[r].upd, u, v)
      BY <2>2, <2>3, <2>4 DEF RowRecord
    <2>. QED
      BY <1>4, <2>5, Zenon DEF Versioned, StillApplying
  <1>6. \A q \in Row : RowStep(q, u)
    BY <1>1, <1>2, <1>5 DEF TypeOK, RowStep, Kept
  <1>7. \A d \in Col : ColumnStep(d)
    BY <1>1, <1>2, <1>3 DEF TypeOK, ColumnStep
  <1>8. \A t \in Txn \ {u} : /\ pc'[t] = pc[t]
                             /\ job'[t] = job[t]
                             /\ snap'[t] = snap[t]
    BY <1>1, <1>2 DEF TypeOK
  <1>9. ActorStep(u)
    BY <1>2, <1>6, <1>7, <1>8 DEF ActorStep, Applying
  <1>10. Concluded(u)' /\ JobPlaced(u)'
    BY <1>3, <1>4 DEF Concluded, JobPlaced
  <1>. QED
    BY <1>9, <1>10 DEF Sound

LEMMA UpdateSound ==
    ASSUME IInv, NEW u \in Txn, UpdateStep(u)
    PROVE  Sound(u)
  <1>1. TypeOK
    BY DEF IInv
  <1>2. CASE Update(u) \/ SinkConflict(u)
    BY <1>2, UpdateApplySound DEF Update, SinkConflict
  <1>3. CASE UpdateInvalidate(u)
    <2>. DEFINE c == job[u].c
    <2>1. c \in Col
      BY <1>3 DEF IInv, JobsPlaced, JobPlaced, UpdateInvalidate
    <2>2. /\ pc[u] = "applied"
          /\ pc' = [pc EXCEPT ![u] = "invalidated"]
          /\ col' = [col EXCEPT ![c] = Invalidated(col[c])]
          /\ UNCHANGED <<row, job, snap>>
      BY <1>3 DEF UpdateInvalidate, Goto
    <2>3. pc'[u] = "invalidated" /\ \A t \in Txn \ {u} : pc'[t] = pc[t]
      BY <1>1, <2>2 DEF TypeOK
    <2>4. /\ \A d \in Col : ColumnStep(d)
          /\ col'[c].invalid
      BY <1>1, <2>1, <2>2 DEF TypeOK, ColumnStep, Invalidated, ColumnRecord
    <2>5. \A r \in Row : RowStep(r, u)
      BY <2>2 DEF RowStep, Kept
    <2>6. ActorStep(u)
      BY <2>2, <2>3, <2>4, <2>5 DEF ActorStep, Applying
    <2>7. Concluded(u)' /\ JobPlaced(u)'
      BY <2>1, <2>2, <2>3 DEF Concluded, JobPlaced
    <2>. QED
      BY <2>6, <2>7 DEF Sound
  <1>4. CASE UpdateMerge(u)
    <2>1. job[u].c \in Col /\ job[u].back \in {"ready", "counted"}
      BY <1>1, <1>4 DEF IInv, JobsPlaced, JobPlaced, UpdateMerge, TypeOK, Job
    <2>2. /\ pc[u] = "invalidated"
          /\ pc' = [pc EXCEPT ![u] = job[u].back]
          /\ \A t \in Txn \ {u} : job'[t] = job[t] /\ snap'[t] = snap[t]
          /\ snap' = snap
          /\ row' = row
      BY <1>1, <1>4 DEF UpdateMerge, Goto, TypeOK
    <2>3. \A d \in Col : ColumnStep(d)
      <3>1. Null \in Datum
        BY DEF Datum
      <3>. QED
        BY <1>1, <1>4, <2>1, <3>1 DEF UpdateMerge, TypeOK, ColumnStep
    <2>4. \A r \in Row : RowStep(r, u)
      BY <2>2 DEF RowStep, Kept
    <2>. QED
      BY <1>1, <2>1, <2>2, <2>3, <2>4, PlainStep
  <1>. QED
    BY <1>2, <1>3, <1>4 DEF UpdateStep

(* Undoing a transaction removes its rows and takes back its versions. *)
LEMMA UndoneEffect ==
    ASSUME TypeOK, NEW u \in Txn, row' = Undone(u)
    PROVE  \A r \in Row : RowStep(r, u)
  <1>. SUFFICES ASSUME NEW r \in Row PROVE RowStep(r, u)
    OBVIOUS
  <1>1. row'[r] = IF row[r].ins = u
                  THEN NoRow
                  ELSE [row[r] EXCEPT !.upd = DropVersion(row[r].upd, u)]
    BY DEF Undone
  <1>2. CASE row[r].ins = u
    BY <1>1, <1>2 DEF RowStep, Removed
  <1>3. CASE row[r].ins # u
    <2>1. row'[r] \in RowRecord
      BY UndoneTypes
    <2>2. row[r] \in RowRecord
      BY DEF TypeOK
    <2>3. Versioned(r, u)
      BY <1>1, <1>3, <2>1, <2>2 DEF Versioned, RowRecord
    <2>. QED
      BY <2>3 DEF RowStep
  <1>. QED
    BY <1>2, <1>3

LEMMA CommitSound ==
    ASSUME IInv, NEW u \in Txn, CommitStep(u)
    PROVE  Sound(u)
  <1>1. TypeOK /\ ColumnsConsistent
    BY DEF IInv
  <1>2. CASE CommitWithoutRows(u) \/ Commit(u)
    <2>1. /\ pc[u] \in {"ready", "flushed"}
          /\ pc' = [pc EXCEPT ![u] = "committed"]
          /\ snap' = [snap EXCEPT ![u] = {}]
          /\ UNCHANGED <<row, col, job>>
      BY <1>2 DEF CommitWithoutRows, Commit, End, Goto
    <2>2. /\ \A d \in Col : ColumnStep(d)
          /\ \A r \in Row : RowStep(r, u)
      BY <2>1 DEF ColumnStep, RowStep, Kept
    <2>3. snap'[u] = {} /\ \A t \in Txn \ {u} : snap'[t] = snap[t]
      BY <1>1, <2>1 DEF TypeOK
    <2>. QED
      BY <1>1, <2>1, <2>2, <2>3, PlainStep
  <1>3. CASE MergeStorage(u) \/ FlushBegin(u) \/ FlushEnd(u)
    <2>1. PICK label \in {"flush", "flushed"} :
             /\ pc[u] \in {"ready", "flush"}
             /\ pc' = [pc EXCEPT ![u] = label]
             /\ UNCHANGED <<row, col, job, snap>>
      BY <1>3 DEF MergeStorage, FlushBegin, FlushEnd, Goto
    <2>2. /\ \A d \in Col : ColumnStep(d)
          /\ \A r \in Row : RowStep(r, u)
      BY <2>1 DEF ColumnStep, RowStep, Kept
    <2>. QED
      BY <1>1, <2>1, <2>2, PlainStep
  <1>4. CASE FlushRow(u)
    <2>1. /\ pc[u] = "flush"
          /\ pc' = [pc EXCEPT ![u] = "flush"]
          /\ UNCHANGED <<job, snap>>
      BY <1>1, <1>4 DEF FlushRow, TypeOK
    <2>2. PICK r \in Row, v \in Datum, c \in Col : AppendRow(Table, r, v, u, c)
      BY <1>4 DEF FlushRow, RowsOf
    <2>3. Table \in Collection
      BY DEF Collection
    <2>4. /\ \A d \in Col : ColumnStep(d)
          /\ \A q \in Row : RowStep(q, u)
      BY <1>1, <2>2, <2>3, AppendEffect
    <2>. QED
      BY <1>1, <2>1, <2>4, PlainStep
  <1>5. CASE Rollback(u) \/ RevertAppend(u)
    <2>1. /\ pc[u] \in {"ready", "insert", "counted", "flush", "flushed"}
          /\ pc' = [pc EXCEPT ![u] = "aborted"]
          /\ snap' = [snap EXCEPT ![u] = {}]
          /\ row' = Undone(u)
          /\ UNCHANGED <<col, job>>
      BY <1>5 DEF Rollback, RevertAppend, End, Goto
    <2>2. \A r \in Row : RowStep(r, u)
      BY <1>1, <2>1, UndoneEffect
    <2>3. \A d \in Col : ColumnStep(d)
      BY <2>1 DEF ColumnStep
    <2>4. snap'[u] = {} /\ \A t \in Txn \ {u} : snap'[t] = snap[t]
      BY <1>1, <2>1 DEF TypeOK
    <2>. QED
      BY <1>1, <2>1, <2>2, <2>3, <2>4, PlainStep
  <1>. QED
    BY <1>2, <1>3, <1>4, <1>5 DEF CommitStep

(* The heart of the argument.  A column whose statistic excludes the filter
   has one, so it is not invalid; so no version of its rows is visible, and
   the scan reads the values the rows were appended with; those the column
   accounts for.                                                             *)
LEMMA ScanArgument ==
    ASSUME IInv, NEW u \in Txn, NEW c \in Col, pc[u] # "applied",
           NEW vals \in SUBSET Datum, Excludes(col[c], vals),
           ~col[c].hasNull \/ Null \notin vals,
           NEW r \in VisibleRows(c, u), NEW v \in vals, Reads(row[r], u, v)
    PROVE  Excused(col[c])
  <1>1. r \in Row /\ row[r].home = c /\ c # Nowhere
    BY NowhereAssumption DEF VisibleRows, RowsAt
  <1>2. col[c] \in ColumnRecord /\ Consistent(col[c])
    BY Zenon DEF IInv, TypeOK, ColumnsConsistent
  <1>3. ~col[c].invalid
    BY <1>2 DEF Excludes, Consistent
  <1>4. Seen(row[r], u) = {}
    <2>. SUFFICES ASSUME NEW i \in DOMAIN row[r].upd,
                         row[r].upd[i].by \in Visible(u)
                  PROVE  FALSE
      BY DEF Seen
    <2>1. Applying(row[r].upd[i].by, c)
      BY <1>1, <1>3 DEF IInv, VersionsInvalidate
    <2>. QED
      BY <2>1 DEF Applying, Visible, IInv, SnapshotsCommitted
  <1>5. v = row[r].val
    BY <1>4 DEF Reads
  <1>6. Covers(col[c], v)
    BY <1>1, <1>5 DEF IInv, RowsCovered
  <1>7. CASE v = Null
    BY <1>2, <1>6, <1>7 DEF Covers, Excused
  <1>8. CASE v # Null
    BY <1>2, <1>6, <1>8, ExclusionSound
  <1>. QED
    BY <1>7, <1>8

(* A scan step that does not reach a conclusion, or keeps the one it had. *)
LEMMA ScanFrame ==
    ASSUME TypeOK, NEW u \in Txn, pc[u] \notin {"committed", "applied"},
           NEW label, pc' = [pc EXCEPT ![u] = label],
           \A t \in Txn \ {u} : job'[t] = job[t],
           UNCHANGED <<row, col, snap>>
    PROVE  /\ ActorStep(u)
           /\ pc'[u] = label
  <1>1. pc'[u] = label /\ \A t \in Txn \ {u} : pc'[t] = pc[t]
    BY DEF TypeOK
  <1>2. /\ \A d \in Col : ColumnStep(d)
        /\ \A r \in Row : RowStep(r, u)
    BY DEF ColumnStep, RowStep, Kept
  <1>. QED
    BY <1>1, <1>2 DEF ActorStep, Applying

LEMMA ScanSound ==
    ASSUME IInv, NEW u \in Txn, ScanStep(u)
    PROVE  Sound(u)
  <1>1. TypeOK
    BY DEF IInv
  <1>2. CASE ScanCheckStats(u)
    <2>1. PICK c \in Col, vals \in SUBSET Datum :
             /\ FilterExcludes(col[c], vals)
             /\ job' = [job EXCEPT ![u] = [c |-> c, vals |-> vals,
                                           back |-> "ready"]]
      BY <1>2 DEF ScanCheckStats
    <2>2. /\ job'[u].c = c
          /\ job'[u].vals = vals
          /\ \A t \in Txn \ {u} : job'[t] = job[t]
      BY <1>1, <2>1 DEF TypeOK
    <2>3. pc[u] = "ready" /\ ActorStep(u) /\ pc'[u] = "checked"
      BY <1>1, <1>2, <2>2, ScanFrame DEF ScanCheckStats, Goto
    <2>4. ASSUME NEW r \in Missed(u)' PROVE Excused(col[c])
      <3>1. r \in VisibleRows(c, u) /\ \E v \in vals : Reads(row[r], u, v)
        BY <1>2, <2>2, <2>4
           DEF Missed, VisibleRows, RowsAt, Reads, Seen, Visible, ScanCheckStats
      <3>2. PICK v \in vals : Reads(row[r], u, v)
        BY <3>1
      <3>. QED
        BY <2>1, <2>3, <3>1, <3>2, ScanArgument DEF FilterExcludes
    <2>5. Concluded(u)'
      <3>1. col' = col
        BY <1>2 DEF ScanCheckStats
      <3>. QED
        BY <2>2, <2>4, <3>1 DEF Concluded
    <2>. QED
      BY <2>2, <2>3, <2>5 DEF Sound, JobPlaced
  <1>3. CASE ScanNotExcluded(u)
    <2>1. PICK c \in Col, vals \in SUBSET Value :
             job' = [job EXCEPT ![u] = [c |-> c, vals |-> vals,
                                        back |-> "ready"]]
      BY <1>3 DEF ScanNotExcluded
    <2>2. /\ job'[u].c = c
          /\ job'[u].vals = vals
          /\ \A t \in Txn \ {u} : job'[t] = job[t]
      BY <1>1, <2>1 DEF TypeOK
    <2>3. ActorStep(u) /\ pc'[u] = "range"
      BY <1>1, <1>3, <2>2, ScanFrame DEF ScanNotExcluded, Goto
    <2>. QED
      BY <2>2, <2>3 DEF Sound, Concluded, JobPlaced
  <1>4. CASE ScanCheckUpdates(u)
    <2>1. pc[u] = "checked" /\ UNCHANGED <<row, col, snap>>
      BY <1>4 DEF ScanCheckUpdates
    <2>2. job[u].c \in Col
      BY <2>1 DEF IInv, JobsPlaced, JobPlaced
    <2>3. CASE pc' = [pc EXCEPT ![u] = "pruned"] /\ job' = job
      <3>1. ActorStep(u) /\ pc'[u] = "pruned"
        BY <1>1, <2>1, <2>3, ScanFrame
      <3>2. Missed(u)' = Missed(u)
        BY <2>1, <2>3
           DEF Missed, VisibleRows, RowsAt, Reads, Seen, Visible
      <3>3. Missed(u) # {} => Excused(col[job[u].c])
        BY <2>1 DEF IInv, ScansSound
      <3>. QED
        BY <2>1, <2>2, <2>3, <3>1, <3>2, <3>3 DEF Sound, Concluded, JobPlaced
    <2>4. CASE /\ pc' = [pc EXCEPT ![u] = "range"]
               /\ job' = job
               /\ Null \notin job[u].vals
      <3>1. ActorStep(u) /\ pc'[u] = "range"
        BY <1>1, <2>1, <2>4, ScanFrame
      <3>2. job[u].vals \subseteq Value
        BY <1>1, <2>4 DEF TypeOK, Job, Datum
      <3>. QED
        BY <2>2, <2>4, <3>1, <3>2 DEF Sound, Concluded, JobPlaced
    <2>5. CASE /\ pc' = [pc EXCEPT ![u] = "ready"]
               /\ job' = [job EXCEPT ![u] = NoJob]
      <3>1. ActorStep(u) /\ pc'[u] = "ready"
        BY <1>1, <2>1, <2>5, ScanFrame DEF TypeOK
      <3>. QED
        BY <3>1 DEF Sound, Concluded, JobPlaced
    <2>. QED
      BY <1>4, <2>3, <2>4, <2>5 DEF ScanCheckUpdates, Goto
  <1>5. CASE ScanCheckRange(u)
    <2>1. pc[u] = "range" /\ UNCHANGED <<row, col, snap>>
      BY <1>5 DEF ScanCheckRange
    <2>2. job[u].c \in Col /\ job[u].vals \subseteq Value
      BY <2>1 DEF IInv, JobsPlaced, JobPlaced
    <2>3. CASE /\ pc' = [pc EXCEPT ![u] = "pruned"]
               /\ job' = job
               /\ Excludes(col[job[u].c], job[u].vals)
      <3>1. ActorStep(u) /\ pc'[u] = "pruned"
        BY <1>1, <2>1, <2>3, ScanFrame
      <3>2. Missed(u)' = Missed(u)
        BY <2>1, <2>3
           DEF Missed, VisibleRows, RowsAt, Reads, Seen, Visible
      <3>3. ASSUME NEW r \in Missed(u) PROVE Excused(col[job[u].c])
        <4>1. PICK v \in job[u].vals : Reads(row[r], u, v)
          BY <3>3 DEF Missed
        <4>2. r \in VisibleRows(job[u].c, u)
          BY <3>3 DEF Missed
        <4>3. Null \notin job[u].vals /\ job[u].vals \in SUBSET Datum
          BY <2>2, NullAssumption DEF Datum
        <4>. QED
          BY <2>1, <2>2, <2>3, <4>1, <4>2, <4>3, ScanArgument
      <3>. QED
        BY <2>1, <2>2, <2>3, <3>1, <3>2, <3>3 DEF Sound, Concluded, JobPlaced
    <2>4. CASE /\ pc' = [pc EXCEPT ![u] = "ready"]
               /\ job' = [job EXCEPT ![u] = NoJob]
      <3>1. ActorStep(u) /\ pc'[u] = "ready"
        BY <1>1, <2>1, <2>4, ScanFrame DEF TypeOK
      <3>. QED
        BY <3>1 DEF Sound, Concluded, JobPlaced
    <2>. QED
      BY <1>5, <2>3, <2>4 DEF ScanCheckRange, Goto
  <1>6. CASE ScanEnd(u)
    <2>1. ActorStep(u) /\ pc'[u] = "ready"
      BY <1>1, <1>6, ScanFrame DEF ScanEnd, Goto, TypeOK
    <2>. QED
      BY <2>1 DEF Sound, Concluded, JobPlaced
  <1>. QED
    BY <1>2, <1>3, <1>4, <1>5, <1>6 DEF ScanStep

-------------------------------------------------------------------------------
(* Rows and row groups. *)

(* Steps that leave the row groups and the places of the rows alone. *)
LEMMA HousedSame ==
    ASSUME RowsHoused, FlushedEmpty, groups' = groups,
           \A r \in Row : /\ row'[r].home = row[r].home
                          /\ row'[r].ins = row[r].ins,
           \A t \in Txn : /\ ~Finished(t) => ~Finished(t)'
                          /\ pc'[t] = "flushed" => pc[t] = "flushed"
    PROVE  RowsHoused' /\ FlushedEmpty'
  BY DEF RowsHoused, FlushedEmpty, Finished

LEMMA HousedAppend ==
    ASSUME TypeOK, NEW k \in Collection, NEW r \in Row, NEW v \in Datum,
           NEW u \in Txn, NEW c \in Col, AppendRow(k, r, v, u, c)
    PROVE  /\ c \in Elements(groups'[k])
           /\ Elements(groups[k]) \subseteq Elements(groups'[k])
           /\ \A j \in Collection \ {k} : groups'[j] = groups[j]
           /\ row'[r].home = c /\ row'[r].ins = u
           /\ \A q \in Row \ {r} : row'[q] = row[q]
  <1>1. groups[k] \in Seq(Col) /\ groups \in [Collection -> Seq(Col)]
    BY DEF TypeOK
  <1>2. CASE groups' = [groups EXCEPT ![k] = Append(groups[k], c)]
    <2>1. groups'[k] = Append(groups[k], c)
      BY <1>1, <1>2
    <2>2. /\ c \in Elements(groups'[k])
          /\ Elements(groups[k]) \subseteq Elements(groups'[k])
      <3>1. \A i \in DOMAIN groups[k] :
               i \in DOMAIN groups'[k] /\ groups'[k][i] = groups[k][i]
        BY <1>1, <2>1
      <3>2. /\ Len(groups[k]) + 1 \in DOMAIN groups'[k]
            /\ groups'[k][Len(groups[k]) + 1] = c
        BY <1>1, <2>1
      <3>. QED
        BY <3>1, <3>2 DEF Elements
    <2>. QED
      BY <1>1, <1>2, <2>2 DEF AppendRow, TypeOK
  <1>3. CASE groups' = groups /\ ~NeedsGroup(k) /\ c = LastGroup(k)
    <2>1. groups[k] # <<>>
      BY <1>3 DEF NeedsGroup
    <2>2. Len(groups[k]) \in DOMAIN groups[k]
      BY <1>1, <2>1
    <2>. QED
      BY <1>3, <2>2 DEF AppendRow, TypeOK, LastGroup, Elements
  <1>. QED
    BY <1>2, <1>3
       DEF AppendRow, AppendOpens, AppendFits, AppendOverflows

LEMMA ConcatElements ==
    ASSUME NEW a \in Seq(Col), NEW b \in Seq(Col)
    PROVE  /\ Elements(a) \subseteq Elements(a \o b)
           /\ Elements(b) \subseteq Elements(a \o b)
  <1>1. /\ Len(a \o b) = Len(a) + Len(b)
        /\ \A i \in 1..Len(a) + Len(b) :
              (a \o b)[i] = IF i <= Len(a) THEN a[i] ELSE b[i - Len(a)]
    BY ConcatProperties
  <1>2. \A i \in 1..Len(a) : (a \o b)[i] = a[i] /\ i \in 1..Len(a \o b)
    BY <1>1
  <1>3. \A i \in 1..Len(b) : /\ (a \o b)[Len(a) + i] = b[i]
                            /\ Len(a) + i \in 1..Len(a \o b)
    BY <1>1
  <1>4. /\ DOMAIN a = 1..Len(a) /\ DOMAIN b = 1..Len(b)
        /\ DOMAIN (a \o b) = 1..Len(a \o b)
    OBVIOUS
  <1>. QED
    BY <1>2, <1>3, <1>4 DEF Elements

LEMMA HousedCommit ==
    ASSUME TypeOK, RowsHoused, FlushedEmpty, NEW u \in Txn, CommitStep(u)
    PROVE  RowsHoused' /\ FlushedEmpty'
  <1>1. /\ u \in Collection /\ Table \in Collection /\ u # Table
        /\ groups \in [Collection -> Seq(Col)]
        /\ \A t \in Txn : t # Table /\ t \in Collection
    BY TableAssumption DEF TypeOK, Collection
  <1>2. <<>> \in Seq(Col) /\ Elements(<<>>) = {}
    BY DEF Elements
  <1>3. CASE CommitWithoutRows(u) \/ Commit(u)
    <2>1. RowsOf(u) = {}
      BY <1>2, <1>3
         DEF CommitWithoutRows, Commit, FlushedEmpty, RowsOf
    <2>2. /\ UNCHANGED <<row, groups>>
          /\ pc' = [pc EXCEPT ![u] = "committed"]
      BY <1>3 DEF CommitWithoutRows, Commit, End, Goto
    <2>3. \A t \in Txn \ {u} : pc'[t] = pc[t]
      BY <2>2 DEF TypeOK
    <2>4. pc'[u] = "committed"
      BY <2>2 DEF TypeOK
    <2>5. \A r \in Row : row[r].home \notin Elements(groups[u])
      BY <2>1 DEF RowsOf
    <2>. QED
      BY <2>2, <2>3, <2>4, <2>5 DEF RowsHoused, FlushedEmpty, Finished
  <1>4. CASE MergeStorage(u)
    <2>1. /\ groups'[Table] = groups[Table] \o groups[u]
          /\ groups'[u] = <<>>
          /\ \A k \in Collection \ {u, Table} : groups'[k] = groups[k]
          /\ pc'[u] = "flushed"
          /\ \A t \in Txn \ {u} : pc'[t] = pc[t]
          /\ row' = row
      BY <1>1, <1>4 DEF MergeStorage, Goto, TypeOK
    <2>2. /\ Elements(groups[Table]) \subseteq Elements(groups'[Table])
          /\ Elements(groups[u]) \subseteq Elements(groups'[Table])
      <3>1. groups[Table] \in Seq(Col) /\ groups[u] \in Seq(Col)
        BY <1>1
      <3>. QED
        BY <2>1, <3>1, ConcatElements
    <2>. QED
      BY <1>1, <2>1, <2>2 DEF RowsHoused, FlushedEmpty, Finished
  <1>5. CASE FlushBegin(u)
    <2>1. /\ groups' = groups /\ row' = row
          /\ pc'[u] = "flush"
          /\ \A t \in Txn \ {u} : pc'[t] = pc[t]
      BY <1>5 DEF FlushBegin, Goto, TypeOK
    <2>. QED
      BY <2>1, HousedSame DEF Finished
  <1>6. CASE FlushRow(u)
    <2>1. PICK r \in Row, v \in Datum, c \in Col : AppendRow(Table, r, v, u, c)
      BY <1>6 DEF FlushRow, RowsOf
    <2>2. /\ c \in Elements(groups'[Table])
          /\ Elements(groups[Table]) \subseteq Elements(groups'[Table])
          /\ \A j \in Collection \ {Table} : groups'[j] = groups[j]
          /\ row'[r].home = c
          /\ \A q \in Row \ {r} : row'[q] = row[q]
      BY <1>1, <2>1, HousedAppend
    <2>3. pc' = pc
      BY <1>6 DEF FlushRow
    <2>. QED
      BY <1>1, <2>2, <2>3 DEF RowsHoused, FlushedEmpty, Finished
  <1>7. CASE FlushEnd(u)
    <2>1. /\ groups'[u] = <<>>
          /\ \A k \in Collection \ {u} : groups'[k] = groups[k]
          /\ pc'[u] = "flushed"
          /\ \A t \in Txn \ {u} : pc'[t] = pc[t]
          /\ row' = row
      BY <1>1, <1>7 DEF FlushEnd, Goto, TypeOK
    <2>2. \A r \in Row : row[r].home \notin Elements(groups[u])
      BY <1>7 DEF FlushEnd, RowsOf
    <2>. QED
      BY <1>1, <2>1, <2>2 DEF RowsHoused, FlushedEmpty, Finished
  <1>8. CASE Rollback(u) \/ RevertAppend(u)
    <2>1. row' = Undone(u) /\ pc' = [pc EXCEPT ![u] = "aborted"]
      BY <1>8 DEF Rollback, RevertAppend, End, Goto
    <2>2. /\ groups'[u] = <<>>
          /\ \A k \in Collection \ {u, Table} : groups'[k] = groups[k]
      BY <1>1, <1>8 DEF Rollback, RevertAppend
    <2>3. /\ pc'[u] = "aborted"
          /\ \A t \in Txn \ {u} : pc'[t] = pc[t]
      BY <2>1 DEF TypeOK
    <2>4. \A i \in DOMAIN groups[Table] :
             HasOtherRows(groups[Table][i], u) =>
                groups[Table][i] \in Elements(groups'[Table])
      <3>. DEFINE old == groups[Table]
      <3>1. old \in Seq(Col)
        BY <1>1
      <3>2. CASE Rollback(u)
        BY <1>1, <3>2 DEF Rollback, Elements
      <3>3. CASE RevertAppend(u)
        <4>1. PICK n \in 0..Len(old) :
                 /\ \A i \in DOMAIN old : i <= n <=> HasOtherRows(old[i], u)
                 /\ groups' = [groups EXCEPT ![Table] = SubSeq(old, 1, n),
                                             ![u] = <<>>]
          BY <3>3 DEF RevertAppend
        <4>2. groups'[Table] = SubSeq(old, 1, n)
          BY <1>1, <4>1
        <4>3. \A i \in DOMAIN old : i <= n =>
                 i \in DOMAIN groups'[Table] /\ groups'[Table][i] = old[i]
          BY <3>1, <4>2
        <4>. QED
          BY <4>1, <4>3 DEF Elements
      <3>. QED
        BY <1>8, <3>2, <3>3
    <2>5. ASSUME NEW r \in Row, row'[r].home # Nowhere
          PROVE  /\ row[r].ins # u
                 /\ row'[r].home = row[r].home
                 /\ row'[r].ins = row[r].ins
      <3>1. row'[r] = IF row[r].ins = u
                      THEN NoRow
                      ELSE [row[r] EXCEPT !.upd = DropVersion(row[r].upd, u)]
        BY <2>1 DEF Undone
      <3>2. row[r] \in RowRecord
        BY DEF TypeOK
      <3>. QED
        BY <2>5, <3>1, <3>2 DEF NoRow, RowRecord
    <2>6. ASSUME NEW r \in Row, row'[r].home # Nowhere,
                 row[r].home \in Elements(groups[Table])
          PROVE  row[r].home \in Elements(groups'[Table])
      <3>1. PICK i \in DOMAIN groups[Table] : groups[Table][i] = row[r].home
        BY <2>6 DEF Elements
      <3>2. HasOtherRows(groups[Table][i], u)
        BY <2>5, <2>6, <3>1 DEF HasOtherRows, RowsAt
      <3>. QED
        BY <2>4, <3>1, <3>2
    <2>7. RowsHoused'
      <3>. SUFFICES ASSUME NEW r \in Row, row'[r].home # Nowhere
                    PROVE  \/ row'[r].home \in Elements(groups'[Table])
                           \/ \E t \in Txn :
                                 /\ row'[r].ins = t
                                 /\ ~Finished(t)'
                                 /\ row'[r].home \in Elements(groups'[t])
        BY DEF RowsHoused
      <3>1. CASE row[r].home \in Elements(groups[Table])
        BY <2>5, <2>6, <3>1
      <3>2. CASE row[r].home \notin Elements(groups[Table])
        <4>1. PICK t \in Txn : /\ row[r].ins = t
                               /\ ~Finished(t)
                               /\ row[r].home \in Elements(groups[t])
          BY <2>5, <3>2 DEF RowsHoused
        <4>2. t # u
          BY <2>5, <4>1
        <4>3. groups'[t] = groups[t] /\ pc'[t] = pc[t]
          BY <1>1, <2>2, <2>3, <4>2
        <4>. QED
          BY <2>5, <4>1, <4>3 DEF Finished
      <3>. QED
        BY <3>1, <3>2
    <2>. QED
      BY <1>1, <2>2, <2>3, <2>7 DEF FlushedEmpty
  <1>. QED
    BY <1>3, <1>4, <1>5, <1>6, <1>7, <1>8 DEF CommitStep

LEMMA StepHoused ==
    ASSUME TypeOK, RowsHoused, FlushedEmpty, [Next]_vars
    PROVE  RowsHoused' /\ FlushedEmpty'
  <1>1. CASE UNCHANGED vars \/ Alter
    BY <1>1, HousedSame DEF vars, Alter, Finished
  <1>2. CASE Reopen
    <2>1. /\ groups' = groups /\ pc' = pc
          /\ \A r \in Row : /\ row[r] \in RowRecord
                            /\ row'[r] = [row[r] EXCEPT
                                            !.val = NewestValue(row[r]),
                                            !.upd = <<>>]
      BY <1>2 DEF Reopen, TypeOK
    <2>2. \A r \in Row : row'[r].home = row[r].home /\ row'[r].ins = row[r].ins
      BY <2>1 DEF RowRecord
    <2>. QED
      BY <2>1, <2>2, HousedSame DEF Finished
  <1>3. ASSUME NEW u \in Txn, Sink(u)
        PROVE  RowsHoused' /\ FlushedEmpty'
    <2>1. PICK r \in Row, v \in Datum, c \in Col : AppendRow(u, r, v, u, c)
      BY <1>3 DEF Sink, RowsAt
    <2>2. u \in Collection /\ Table \in Collection /\ Table # u
          /\ \A t \in Txn : t \in Collection
      BY TableAssumption DEF Collection
    <2>3. /\ c \in Elements(groups'[u])
          /\ Elements(groups[u]) \subseteq Elements(groups'[u])
          /\ \A j \in Collection \ {u} : groups'[j] = groups[j]
          /\ row'[r].home = c /\ row'[r].ins = u
          /\ \A q \in Row \ {r} : row'[q] = row[q]
      BY <2>1, <2>2, HousedAppend
    <2>4. pc'[u] = "counted" /\ \A t \in Txn \ {u} : pc'[t] = pc[t]
      BY <1>3 DEF Sink, Goto, TypeOK
    <2>. QED
      BY <2>2, <2>3, <2>4 DEF RowsHoused, FlushedEmpty, Finished
  <1>4. ASSUME NEW u \in Txn,
               \/ Begin(u)
               \/ InsertBegin(u)
               \/ FinishInitialiseStats(u)
               \/ UpdateInvalidate(u)
               \/ ScanStep(u)
        PROVE  RowsHoused' /\ FlushedEmpty'
    <2>1. /\ UNCHANGED <<row, groups>>
          /\ \A t \in Txn \ {u} : pc'[t] = pc[t]
          /\ ~Finished(u)'
          /\ pc'[u] # "flushed"
      BY <1>4 DEF Begin, InsertBegin, FinishInitialiseStats, UpdateInvalidate,
                  ScanStep, ScanCheckStats, ScanNotExcluded, ScanCheckUpdates,
                  ScanCheckRange, ScanEnd, Goto, TypeOK, Finished
    <2>. QED
      BY <2>1, HousedSame DEF Finished
  <1>5. ASSUME NEW u \in Txn, UpdateMerge(u)
        PROVE  RowsHoused' /\ FlushedEmpty'
    <2>1. job[u].back \in {"ready", "counted"}
      BY DEF TypeOK, Job
    <2>2. /\ UNCHANGED <<row, groups>>
          /\ pc'[u] = job[u].back
          /\ \A t \in Txn \ {u} : pc'[t] = pc[t]
      BY <1>5 DEF UpdateMerge, Goto, TypeOK
    <2>. QED
      BY <2>1, <2>2, HousedSame DEF Finished
  <1>6. ASSUME NEW u \in Txn, NEW back \in {"ready", "counted"},
               UpdateApply(u, back)
        PROVE  RowsHoused' /\ FlushedEmpty'
    <2>1. PICK r \in Row, v \in Datum :
             row' = [row EXCEPT ![r].upd = AddVersion(row[r].upd, u, v)]
      BY <1>6 DEF UpdateApply
    <2>2. \A q \in Row : row'[q].home = row[q].home /\ row'[q].ins = row[q].ins
      BY <2>1 DEF TypeOK, RowRecord
    <2>3. /\ groups' = groups
          /\ pc'[u] = "applied"
          /\ \A t \in Txn \ {u} : pc'[t] = pc[t]
      BY <1>6 DEF UpdateApply, Goto, TypeOK
    <2>. QED
      BY <2>2, <2>3, HousedSame DEF Finished
  <1>7. ASSUME NEW u \in Txn, Update(u) \/ SinkConflict(u)
        PROVE  RowsHoused' /\ FlushedEmpty'
    BY <1>6, <1>7 DEF Update, SinkConflict
  <1>8. ASSUME NEW u \in Txn, CommitStep(u)
        PROVE  RowsHoused' /\ FlushedEmpty'
    BY <1>8, HousedCommit
  <1>. QED
    BY <1>1, <1>2, <1>3, <1>4, <1>5, <1>7, <1>8
       DEF Next, InsertStep, UpdateStep

-------------------------------------------------------------------------------
(* The theorems. *)

LEMMA ReopenKeeps ==
    ASSUME IInv, Reopen
    PROVE  /\ ColumnsConsistent'
           /\ RowsCovered'
           /\ VersionsInvalidate'
           /\ SnapshotsCommitted'
           /\ JobsPlaced'
           /\ ScansSound'
  <1>1. TypeOK /\ Quiescent /\ UNCHANGED <<groups, pc, job, snap>>
    BY DEF IInv, Reopen
  <1>2. \A d \in Col : /\ col[d] \in ColumnRecord /\ Consistent(col[d])
                       /\ col'[d] = IF d \in Elements(groups[Table])
                                    THEN Loaded(col[d])
                                    ELSE Forgotten
    BY Zenon DEF IInv, TypeOK, ColumnsConsistent, Reopen
  <1>3. \A r \in Row : row'[r].home = row[r].home /\ row'[r].upd = <<>>
    <2>1. \A r \in Row : /\ row[r] \in RowRecord
                         /\ row'[r] = [row[r] EXCEPT
                                         !.val = NewestValue(row[r]),
                                         !.upd = <<>>]
      BY <1>1 DEF Reopen, TypeOK
    <2>. QED
      BY <2>1 DEF RowRecord
  <1>4. ColumnsConsistent'
    <2>. SUFFICES ASSUME NEW d \in Col
                  PROVE  /\ Consistent(col'[d])
                         /\ col'[d].loaded => "reopens" \in Workload
      BY Zenon DEF ColumnsConsistent
    <2>1. Consistent(col'[d])
      BY <1>2, ConsistencyKept DEF Datum
    <2>2. "reopens" \in Workload
      BY DEF Reopen
    <2>. QED
      BY <2>1, <2>2
  <1>5. RowsCovered'
    <2>. SUFFICES ASSUME NEW r \in Row, row'[r].home # Nowhere
                  PROVE  Covers(col'[row'[r].home], row'[r].val)
      BY DEF RowsCovered
    <2>1. row[r].home \in Col
      BY <1>1, <1>3 DEF TypeOK, RowRecord
    <2>2. row[r].home \in Elements(groups[Table])
      BY <1>1, <1>3 DEF IInv, RowsHoused, Quiescent
    <2>3. col'[row'[r].home] = Loaded(col[row[r].home])
      BY <1>2, <1>3, <2>1, <2>2, Zenon
    <2>4. Loaded(col[row[r].home]).loaded
      BY DEF Loaded
    <2>. QED
      BY <2>3, <2>4, Zenon DEF Covers
  <1>6. VersionsInvalidate'
    BY <1>3 DEF VersionsInvalidate
  <1>7. SnapshotsCommitted'
    BY <1>1 DEF IInv, SnapshotsCommitted
  <1>8. JobsPlaced' /\ ScansSound'
    BY <1>1 DEF Quiescent, Finished, JobsPlaced, JobPlaced, ScansSound
  <1>. QED
    BY <1>4, <1>5, <1>6, <1>7, <1>8

LEMMA Inductive ==
    ASSUME IInv, [Next]_vars
    PROVE  IInv'
  <1>1. TypeOK' /\ RowsHoused' /\ FlushedEmpty'
    BY NextTypes, StepHoused DEF IInv
  <1>2. CASE UNCHANGED vars \/ Alter
    <2>1. UNCHANGED <<row, col, pc, job, snap>>
      BY <1>2 DEF vars, Alter
    <2>2. ColumnsConsistent' /\ RowsCovered'
      BY <2>1, Zenon DEF IInv, ColumnsConsistent, RowsCovered
    <2>3. VersionsInvalidate' /\ SnapshotsCommitted' /\ JobsPlaced'
      BY <2>1 DEF IInv, VersionsInvalidate, Applying, SnapshotsCommitted,
                  JobsPlaced, JobPlaced
    <2>4. \A t \in Txn : Missed(t)' = Missed(t)
      BY <2>1 DEF Missed, VisibleRows, RowsAt, Reads, Seen, Visible
    <2>5. ScansSound'
      BY <2>1, <2>4 DEF IInv, ScansSound
    <2>. QED
      BY <1>1, <2>2, <2>3, <2>5 DEF IInv
  <1>3. CASE Reopen
    BY <1>1, <1>3, ReopenKeeps DEF IInv
  <1>4. ASSUME NEW u \in Txn,
               Begin(u) \/ InsertStep(u) \/ UpdateStep(u) \/ CommitStep(u)
                  \/ ScanStep(u)
        PROVE  IInv'
    <2>1. Sound(u)
      BY <1>4, InsertSound, UpdateSound, CommitSound, ScanSound
    <2>2. ActorStep(u) /\ Concluded(u)' /\ JobPlaced(u)'
      BY <2>1 DEF Sound
    <2>3. ColumnsConsistent' /\ RowsCovered' /\ VersionsInvalidate'
          /\ SnapshotsCommitted' /\ ScansSound'
      BY <2>2, StepColumns, StepRows, StepVersions, StepSnapshots, StepScans
         DEF IInv
    <2>4. JobsPlaced'
      BY <2>2 DEF IInv, ActorStep, JobsPlaced, JobPlaced
    <2>. QED
      BY <1>1, <2>3, <2>4 DEF IInv
  <1>. QED
    BY <1>2, <1>3, <1>4 DEF Next

LEMMA InitInvariant == Init => IInv
  <1>. SUFFICES ASSUME Init PROVE IInv
    OBVIOUS
  <1>1. TypeOK
    BY InitTypes
  <1>2. ColumnsConsistent
    <2>1. Consistent(Forgotten) /\ ~Forgotten.loaded
      BY DEF Consistent, Forgotten
    <2>. QED
      BY <2>1 DEF Init, ColumnsConsistent
  <1>3. RowsCovered /\ VersionsInvalidate /\ RowsHoused
    BY DEF Init, NoRow, RowsCovered, VersionsInvalidate, RowsHoused
  <1>4. SnapshotsCommitted /\ FlushedEmpty /\ JobsPlaced /\ ScansSound
    BY DEF Init, SnapshotsCommitted, FlushedEmpty, JobsPlaced, JobPlaced,
           ScansSound
  <1>. QED
    BY <1>1, <1>2, <1>3, <1>4 DEF IInv

(* All parts of the invariant hold together in every reachable state. *)
THEOREM Invariant == Spec => []IInv
  BY InitInvariant, Inductive, PTL DEF Spec

(* Every live row stays in a row group that its readers can reach, through
   commits, flushes, reverts and rollbacks.                                  *)
THEOREM EveryRowHoused == Spec => []RowsHoused
  <1>1. IInv => RowsHoused
    BY DEF IInv
  <1>. QED
    BY <1>1, Invariant, PTL

(* Whatever a scan misses, it misses because of a partition read back from the
   file or of an empty statistic built by a second InitStats.                *)
THEOREM MissesExcused == Spec => []MissNeedsRebuild
  <1>1. IInv => MissNeedsRebuild
    BY DEF IInv, ScansSound, MissNeedsRebuild
  <1>. QED
    BY <1>1, Invariant, PTL

(* A statistic never outlives an update that somebody can see. *)
THEOREM SeenUpdatesInvalidate == Spec => []SeenUpdateInvalidates
  <1>1. ASSUME IInv PROVE SeenUpdateInvalidates
    <2>. SUFFICES ASSUME NEW t \in Txn, NEW r \in Row,
                         pc[t] \in {"ready", "checked", "range", "pruned"},
                         row[r].home # Nowhere, Seen(row[r], t) # {}
                  PROVE  col[row[r].home].stats = NoStats
      BY DEF SeenUpdateInvalidates
    <2>1. PICK i \in DOMAIN row[r].upd : row[r].upd[i].by \in Visible(t)
      BY DEF Seen
    <2>2. ~Applying(row[r].upd[i].by, row[r].home)
      BY <1>1, <2>1 DEF Applying, Visible, IInv, SnapshotsCommitted
    <2>3. col[row[r].home].invalid
      BY <1>1, <2>1, <2>2 DEF IInv, VersionsInvalidate
    <2>4. row[r].home \in Col
      BY <1>1 DEF IInv, TypeOK, RowRecord
    <2>. QED
      BY <1>1, <2>3, <2>4, Zenon DEF IInv, ColumnsConsistent, Consistent
  <1>. QED
    BY <1>1, Invariant, PTL

(* For the kinds whose empty statistic rules nothing out, and as long as the
   database is not opened again, pruning is sound: no partition is skipped
   that has a row the transaction sees and asked for.                        *)
THEOREM PruningSound ==
    ASSUME ~EmptyPrunes, "reopens" \notin Workload
    PROVE  Spec => []PruneSound
  <1>1. ASSUME IInv PROVE PruneSound
    <2>. SUFFICES ASSUME NEW t \in Txn, pc[t] = "pruned", Missed(t) # {}
                  PROVE  FALSE
      BY DEF PruneSound
    <2>1. Excused(col[job[t].c])
      BY <1>1 DEF IInv, ScansSound
    <2>2. job[t].c \in Col
      BY <1>1 DEF IInv, JobsPlaced, JobPlaced
    <2>3. ~col[job[t].c].loaded
      BY <1>1, <2>2, Zenon DEF IInv, ColumnsConsistent
    <2>. QED
      BY <2>1, <2>3 DEF Excused
  <1>. QED
    BY <1>1, Invariant, PTL

(* No step gives a statistic to a column that has been invalidated, not even
   the construction of a new column at its address.                          *)
THEOREM InvalidStays == Spec => NeverRevived
  <1>. DEFINE A == \A c \in Col : col[c].invalid => col'[c].stats = NoStats
  <1>1. ASSUME IInv, [Next]_vars PROVE A \/ UNCHANGED vars
    <2>. SUFFICES ASSUME Next, NEW c \in Col, col[c].invalid
                  PROVE  col'[c].stats = NoStats
      BY <1>1
    <2>1. /\ TypeOK /\ ColumnsConsistent
          /\ col[c] \in ColumnRecord /\ Consistent(col[c])
      BY <1>1, Zenon DEF IInv, TypeOK, ColumnsConsistent
    <2>2. CASE col' = col
      BY <2>1, <2>2 DEF Consistent
    <2>3. CASE Reopen
      BY <2>3 DEF Reopen, Loaded, Forgotten
    <2>4. ASSUME NEW u \in Txn,
                 Begin(u) \/ InsertStep(u) \/ UpdateStep(u) \/ CommitStep(u)
                    \/ ScanStep(u)
          PROVE  col'[c].stats = NoStats
      <3>1. ColumnStep(c)
        BY <1>1, <2>4, InsertSound, UpdateSound, CommitSound, ScanSound
           DEF Sound, ActorStep
      <3>2. PICK v \in Datum : \/ col'[c] = col[c]
                               \/ col'[c] = Built(col[c])
                               \/ col'[c] = Updated(col[c])
                               \/ col'[c] = Invalidated(col[c])
                               \/ col'[c] = Appended(col[c], v)
                               \/ col'[c] = UpdateMerged(col[c], v)
                               \/ col'[c] = Appended(Fresh(col[c]), v)
        BY <3>1 DEF ColumnStep, Reborn, Datum
      <3>. QED
        BY <2>1, <3>2 DEF Consistent, Built, Updated, Invalidated, Appended, AppendTemp,
                          UpdateMerged, Fresh, ColumnRecord
    <2>. QED
      BY <2>2, <2>3, <2>4 DEF Next, Alter
  <1>2. IInv /\ [Next]_vars => [A]_vars
    BY <1>1
  <1>. QED
    BY <1>2, Invariant, PTL DEF Spec, NeverRevived
===============================================================================
