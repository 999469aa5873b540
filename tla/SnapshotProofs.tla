---------------------------- MODULE SnapshotProofs ----------------------------
(***************************************************************************)
(* What can be on the chain of versions of a row, and in whose row groups  *)
(* a row is.  Every step of a transaction has one of nine shapes (Shape);  *)
(* the proofs here and in TableWideProofs go by shapes instead of actions. *)
(*                                                                         *)
(* With that, TableStats implements SnapshotScan, without restarts and for *)
(* kinds of statistics whose empty form rules nothing out.  What a         *)
(* transaction does to a row is hidden from whoever does not see the       *)
(* transaction (Hidden), so only the abstract variables of the transaction *)
(* that takes the step need an argument of their own.                      *)
(***************************************************************************)
EXTENDS TableStatsProofs, TableSnapshot, FiniteSetTheorems, WellFoundedInduction

-------------------------------------------------------------------------------
(* The shapes of a step of the transaction u. *)

Others(u) == \A t \in Txn \ {u} : /\ pc'[t] = pc[t]
                                  /\ job'[t] = job[t]
                                  /\ snap'[t] = snap[t]

(* A statement that is not a scan goes on. *)
Working(u) ==
    /\ ~Finished(u) /\ ~Finished(u)'
    /\ pc[u] # "pruned" /\ pc'[u] # "pruned"
    /\ snap' = snap

Quiet(u) == Working(u) /\ row' = row

Began(u) ==
    /\ pc[u] = "idle"
    /\ pc'[u] = "ready"
    /\ snap'[u] = Committed
    /\ row' = row

NewRow(u, c, v) == [home |-> c, val |-> v, ins |-> u, upd |-> <<>>]

Inserted(u) ==
    /\ Working(u)
    /\ \E r \in Row, v \in Datum, c \in Col :
          /\ row[r].home = Nowhere
          /\ row' = [row EXCEPT ![r] = NewRow(u, c, v)]

Wrote(u) ==
    /\ Working(u)
    /\ \E r \in Row, v \in Datum :
          /\ row[r].home # Nowhere
          /\ row[r].ins \in Visible(u)
          /\ Seen(row[r], u) = DOMAIN row[r].upd
          /\ row' = [row EXCEPT ![r].upd = AddVersion(row[r].upd, u, v)]

Flushed(u) ==
    /\ Working(u)
    /\ \E r \in RowsOf(u), v \in Datum, c \in Col :
          /\ Reads(row[r], u, v)
          /\ row' = [row EXCEPT ![r] = NewRow(u, c, v)]

Committing(u) ==
    /\ ~Finished(u) /\ pc[u] # "pruned"
    /\ pc'[u] = "committed"
    /\ row' = row

Aborting(u) ==
    /\ ~Finished(u) /\ pc[u] # "pruned"
    /\ pc'[u] = "aborted"
    /\ row' = Undone(u)

Pruned(u) ==
    /\ pc[u] \in {"checked", "range"}
    /\ pc'[u] = "pruned"
    /\ snap' = snap /\ job' = job /\ row' = row

Resumed(u) ==
    /\ pc[u] = "pruned"
    /\ pc'[u] = "ready"
    /\ snap' = snap /\ row' = row

Shape(u) ==
    /\ Others(u)
    /\ \/ Quiet(u) \/ Began(u) \/ Inserted(u) \/ Wrote(u) \/ Flushed(u)
       \/ Committing(u) \/ Aborting(u) \/ Pruned(u) \/ Resumed(u)

LEMMA InsertShape ==
    ASSUME TypeOK, NEW u \in Txn, Begin(u) \/ InsertStep(u)
    PROVE  Shape(u)
  <1>1. CASE Begin(u)
    <2>1. Others(u) /\ Began(u)
      BY <1>1 DEF Begin, Goto, TypeOK, Others, Began, Committed
    <2>. QED
      BY <2>1 DEF Shape
  <1>2. CASE InsertBegin(u) \/ FinishInitialiseStats(u)
    <2>1. Others(u) /\ Quiet(u)
      BY <1>2 DEF InsertBegin, FinishInitialiseStats, Goto, TypeOK, Others,
                  Quiet, Working, Finished
    <2>. QED
      BY <2>1 DEF Shape
  <1>3. CASE Sink(u)
    <2>1. Others(u) /\ Working(u)
      BY <1>3 DEF Sink, Goto, TypeOK, Others, Working, Finished
    <2>2. PICK r \in Row, v \in Datum, c \in Col :
             row[r].home = Nowhere /\ AppendRow(u, r, v, u, c)
      BY <1>3 DEF Sink, RowsAt
    <2>3. Inserted(u)
      BY <2>1, <2>2 DEF Inserted, AppendRow, NewRow
    <2>. QED
      BY <2>1, <2>3 DEF Shape
  <1>. QED
    BY <1>1, <1>2, <1>3 DEF InsertStep

LEMMA UpdateShape ==
    ASSUME TypeOK, NEW u \in Txn, UpdateStep(u)
    PROVE  Shape(u)
  <1>1. CASE Update(u) \/ SinkConflict(u)
    <2>1. /\ pc[u] \in {"ready", "insert", "counted"}
          /\ \E back \in {"ready", "counted"} : UpdateApply(u, back)
      BY <1>1 DEF Update, SinkConflict
    <2>2. Others(u) /\ Working(u)
      BY <2>1 DEF UpdateApply, Goto, TypeOK, Others, Working, Finished
    <2>3. Wrote(u)
      BY <2>1, <2>2 DEF UpdateApply, Wrote
    <2>. QED
      BY <2>2, <2>3 DEF Shape
  <1>2. CASE UpdateInvalidate(u)
    <2>1. Others(u) /\ Quiet(u)
      BY <1>2 DEF UpdateInvalidate, Goto, TypeOK, Others, Quiet, Working,
                  Finished
    <2>. QED
      BY <2>1 DEF Shape
  <1>3. CASE UpdateMerge(u)
    <2>1. job[u].back \in {"ready", "counted"}
      BY DEF TypeOK, Job
    <2>2. Others(u) /\ Quiet(u)
      BY <1>3, <2>1 DEF UpdateMerge, Goto, TypeOK, Others, Quiet, Working,
                        Finished
    <2>. QED
      BY <2>2 DEF Shape
  <1>. QED
    BY <1>1, <1>2, <1>3 DEF UpdateStep

LEMMA CommitShape ==
    ASSUME TypeOK, NEW u \in Txn, CommitStep(u)
    PROVE  Shape(u)
  <1>1. CASE CommitWithoutRows(u) \/ Commit(u)
    <2>1. Others(u) /\ Committing(u)
      BY <1>1 DEF CommitWithoutRows, Commit, End, Goto, TypeOK, Others,
                  Committing, Finished
    <2>. QED
      BY <2>1 DEF Shape
  <1>2. CASE MergeStorage(u) \/ FlushBegin(u) \/ FlushEnd(u)
    <2>1. Others(u) /\ Quiet(u)
      BY <1>2 DEF MergeStorage, FlushBegin, FlushEnd, Goto, TypeOK, Others,
                  Quiet, Working, Finished
    <2>. QED
      BY <2>1 DEF Shape
  <1>3. CASE FlushRow(u)
    <2>1. Others(u) /\ Working(u)
      BY <1>3 DEF FlushRow, Others, Working, Finished
    <2>2. Flushed(u)
      BY <1>3, <2>1 DEF FlushRow, Flushed, AppendRow, NewRow
    <2>. QED
      BY <2>1, <2>2 DEF Shape
  <1>4. CASE Rollback(u) \/ RevertAppend(u)
    <2>1. Others(u) /\ Aborting(u)
      BY <1>4 DEF Rollback, RevertAppend, End, Goto, TypeOK, Others, Aborting,
                  Finished
    <2>. QED
      BY <2>1 DEF Shape
  <1>. QED
    BY <1>1, <1>2, <1>3, <1>4 DEF CommitStep

LEMMA ScanShape ==
    ASSUME TypeOK, NEW u \in Txn, ScanStep(u)
    PROVE  Shape(u)
  <1>1. CASE ScanCheckStats(u) \/ ScanNotExcluded(u)
    <2>1. Others(u) /\ Quiet(u)
      BY <1>1 DEF ScanCheckStats, ScanNotExcluded, Goto, TypeOK, Others, Quiet,
                  Working, Finished
    <2>. QED
      BY <2>1 DEF Shape
  <1>2. CASE ScanCheckUpdates(u) \/ ScanCheckRange(u)
    <2>1. Others(u) /\ (Quiet(u) \/ Pruned(u))
      BY <1>2 DEF ScanCheckUpdates, ScanCheckRange, Goto, TypeOK, Others, Quiet,
                  Pruned, Working, Finished
    <2>. QED
      BY <2>1 DEF Shape
  <1>3. CASE ScanEnd(u)
    <2>1. Others(u) /\ Resumed(u)
      BY <1>3 DEF ScanEnd, Goto, TypeOK, Others, Resumed
    <2>. QED
      BY <2>1 DEF Shape
  <1>. QED
    BY <1>1, <1>2, <1>3 DEF ScanStep

(* Every other step but a restart or ALTER TABLE is one of a transaction. *)
LEMMA NextShape ==
    ASSUME TypeOK, Next, ~Reopen, ~Alter
    PROVE  \E u \in Txn : Shape(u)
  BY InsertShape, UpdateShape, CommitShape, ScanShape DEF Next

-------------------------------------------------------------------------------
(* The chain of one row. *)

Chained(x) ==
    /\ x.home = Nowhere => x.ins = Nowhere /\ x.upd = <<>>
    /\ x.ins \in Txn => pc[x.ins] \notin {"idle", "aborted"}
    /\ \A i \in DOMAIN x.upd :
          LET w == x.upd[i].by
          IN  /\ i # Len(x.upd) => pc[w] = "committed"
              /\ pc[w] \notin {"idle", "aborted"}
              /\ x.ins \in Txn
              /\ x.ins = w \/ pc[x.ins] = "committed"
              /\ ~Finished(w) => x.ins \in Visible(w)

LEMMA ChainsAre == Chains <=> GroupsApart /\ \A r \in Row : Chained(row[r])
  BY DEF Chains, HomelessEmpty, ChainsCommitted, WritersBegun, VersionsFounded,
         Chained

LEMMA RowTypes ==
    ASSUME TypeOK, NEW r \in Row
    PROVE  /\ row[r] \in RowRecord
           /\ row[r].home \in Col \cup {Nowhere}
           /\ row[r].val \in Datum
           /\ row[r].ins \in Txn \cup {Nowhere}
           /\ row[r].upd \in Seq(Version)
           /\ \A i \in DOMAIN row[r].upd : /\ row[r].upd[i].by \in Txn
                                           /\ row[r].upd[i].val \in Datum
  <1>1. row[r] \in RowRecord
    BY DEF TypeOK
  <1>2. /\ row[r].home \in Col \cup {Nowhere}
        /\ row[r].val \in Datum
        /\ row[r].ins \in Txn \cup {Nowhere}
        /\ row[r].upd \in Seq(Version)
    BY <1>1 DEF RowRecord
  <1>3. \A i \in DOMAIN row[r].upd : row[r].upd[i] \in Version
    BY <1>2
  <1>. QED
    BY <1>1, <1>2, <1>3 DEF Version

(* What a step does to the transactions: nobody goes back to idle, who has
   committed stays so, and who goes on keeps its snapshot.                   *)
Forward(u) ==
    /\ Others(u)
    /\ pc[u] # "committed"
    /\ pc'[u] # "idle"
    /\ pc'[u] = "aborted" => row' = Undone(u)
    /\ pc[u] # "idle" /\ ~Finished(u)' => ~Finished(u) /\ snap'[u] = snap[u]

LEMMA ShapeForward ==
    ASSUME NEW u \in Txn, Shape(u)
    PROVE  Forward(u)
  BY DEF Shape, Forward, Quiet, Began, Inserted, Wrote, Flushed, Committing,
         Aborting, Pruned, Resumed, Working, Finished

(* A row the step leaves alone; if the transaction aborts, it is not its own. *)
LEMMA ChainedKept ==
    ASSUME TypeOK, NEW u \in Txn, Forward(u), NEW r \in Row, Chained(row[r]),
           row'[r] = row[r],
           pc'[u] = "aborted" =>
              /\ row[r].ins # u
              /\ \A i \in DOMAIN row[r].upd : row[r].upd[i].by # u
    PROVE  Chained(row[r])'
  <1>. DEFINE x == row[r]
  <1>1. /\ x.ins \in Txn \cup {Nowhere}
        /\ \A i \in DOMAIN x.upd : x.upd[i].by \in Txn
    BY RowTypes
  <1>2. \A t \in Txn : pc[t] = "committed" => pc'[t] = "committed"
    BY DEF Forward, Others
  <1>3. \A t \in Txn : /\ pc[t] \notin {"idle", "aborted"}
                       /\ t = u => pc'[u] # "aborted"
                       => pc'[t] \notin {"idle", "aborted"}
    BY DEF Forward, Others
  <1>4. \A t \in Txn : pc[t] # "idle" /\ ~Finished(t)' =>
                          ~Finished(t) /\ Visible(t)' = Visible(t)
    BY DEF Forward, Others, Finished, Visible
  <1>5. x.home = Nowhere => x.ins = Nowhere /\ x.upd = <<>>
    BY DEF Chained
  <1>6. x.ins \in Txn => pc'[x.ins] \notin {"idle", "aborted"}
    BY <1>1, <1>3 DEF Chained
  <1>7. ASSUME NEW i \in DOMAIN x.upd, NEW w, w = x.upd[i].by
        PROVE  /\ i # Len(x.upd) => pc'[w] = "committed"
               /\ pc'[w] \notin {"idle", "aborted"}
               /\ x.ins \in Txn
               /\ x.ins = w \/ pc'[x.ins] = "committed"
               /\ ~Finished(w)' => x.ins \in Visible(w)'
    <2>1. /\ i # Len(x.upd) => pc[w] = "committed"
          /\ pc[w] \notin {"idle", "aborted"}
          /\ x.ins \in Txn
          /\ x.ins = w \/ pc[x.ins] = "committed"
          /\ ~Finished(w) => x.ins \in Visible(w)
      BY <1>7 DEF Chained
    <2>. QED
      BY <1>1, <1>2, <1>3, <1>4, <1>7, <2>1
  <1>. QED
    BY <1>5, <1>6, <1>7 DEF Chained

(* A row the transaction has just inserted, or moved into the table. *)
LEMMA ChainedNew ==
    ASSUME NEW u \in Txn, ~Finished(u)', NEW r \in Row, NEW c \in Col, NEW v,
           row'[r] = NewRow(u, c, v)
    PROVE  Chained(row[r])'
  BY NowhereAssumption DEF Chained, NewRow, Finished

(* Every version there is, is seen by who adds one: so the older ones are
   committed, or its own and then the last.                                  *)
LEMMA ChainedWrote ==
    ASSUME TypeOK, SnapshotsCommitted, NEW u \in Txn, Others(u), Working(u),
           NEW r \in Row, NEW v \in Datum,
           Chained(row[r]), row[r].home # Nowhere, row[r].ins \in Visible(u),
           Seen(row[r], u) = DOMAIN row[r].upd,
           row'[r] = [row[r] EXCEPT !.upd = AddVersion(row[r].upd, u, v)]
    PROVE  Chained(row[r])'
  <1>. DEFINE x == row[r]
              old == x.upd
              y == row'[r]
              new == y.upd
  <1>1. /\ x \in RowRecord
        /\ x.ins \in Txn \cup {Nowhere}
        /\ old \in Seq(Version)
        /\ \A i \in DOMAIN old : old[i].by \in Txn
    BY RowTypes
  <1>2. y.home = x.home /\ y.ins = x.ins /\ new = AddVersion(old, u, v)
    BY <1>1 DEF RowRecord
  <1>3. snap[u] \in SUBSET Txn /\ x.ins \in Txn
    BY DEF TypeOK, Visible
  <1>4. \A t \in Txn : /\ pc[t] = "committed" => pc'[t] = "committed"
                       /\ Visible(t)' = Visible(t)
                       /\ ~Finished(t)' => ~Finished(t)
                       /\ pc[t] \notin {"idle", "aborted"} =>
                             pc'[t] \notin {"idle", "aborted"}
    BY DEF Others, Working, Finished, Visible
  <1>5. \A i \in DOMAIN old : old[i].by \in snap[u] \cup {u}
    BY DEF Seen, Visible
  <1>6. pc'[u] \notin {"idle", "aborted", "committed"} /\ pc[u] # "committed"
    BY DEF Working, Finished
  <1>7. x.ins = u \/ pc'[x.ins] = "committed"
    BY <1>3, <1>4 DEF Visible, SnapshotsCommitted
  <1>8. x.ins \in Visible(u)'
    BY <1>4
  <1>9. \A i \in DOMAIN old : i # Len(old) => old[i].by # u
    <2>. SUFFICES ASSUME NEW i \in DOMAIN old, i # Len(old)
                  PROVE  old[i].by # u
      OBVIOUS
    <2>1. pc[old[i].by] = "committed"
      BY DEF Chained
    <2>. QED
      BY <1>6, <2>1
  <1>10. ASSUME NEW i \in DOMAIN new
         PROVE  \/ i = Len(new) /\ new[i].by = u
                \/ /\ i \in DOMAIN old /\ new[i] = old[i]
                   /\ i # Len(new) /\ new[i].by \in snap[u]
    <2>1. CASE old # <<>> /\ old[Len(old)].by = u
      <3>1. new = [old EXCEPT ![Len(old)] = [by |-> u, val |-> v]]
        BY <1>2, <2>1 DEF AddVersion
      <3>2. /\ DOMAIN new = DOMAIN old
            /\ Len(new) = Len(old)
            /\ Len(old) \in DOMAIN old
        BY <1>1, <2>1, <3>1
      <3>3. i = Len(old) => new[i].by = u
        BY <3>1, <3>2
      <3>4. i # Len(old) => new[i] = old[i]
        BY <1>1, <3>1, <3>2
      <3>. QED
        BY <1>5, <1>9, <3>2, <3>3, <3>4
    <2>2. CASE ~(old # <<>> /\ old[Len(old)].by = u)
      <3>1. new = Append(old, [by |-> u, val |-> v])
        BY <1>2, <2>2 DEF AddVersion
      <3>2. /\ Len(new) = Len(old) + 1 /\ Len(old) \in Nat
            /\ DOMAIN new = 1..Len(old) + 1
            /\ DOMAIN old = 1..Len(old)
        BY <1>1, <3>1
      <3>3. i = Len(new) => new[i].by = u
        BY <1>1, <3>1, <3>2
      <3>4. i # Len(new) => i \in DOMAIN old /\ new[i] = old[i]
        BY <1>1, <3>1, <3>2
      <3>5. i # Len(new) => old[i].by # u
        <4>1. CASE i = Len(old)
          BY <2>2, <3>2, <3>4, <4>1
        <4>2. CASE i # Len(old)
          BY <1>9, <3>4, <4>2
        <4>. QED
          BY <4>1, <4>2
      <3>. QED
        BY <1>5, <3>3, <3>4, <3>5
    <2>. QED
      BY <2>1, <2>2
  <1>11. ASSUME NEW i \in DOMAIN new, NEW w, w = new[i].by
         PROVE  /\ i # Len(new) => pc'[w] = "committed"
                /\ pc'[w] \notin {"idle", "aborted"}
                /\ x.ins = w \/ pc'[x.ins] = "committed"
                /\ ~Finished(w)' => x.ins \in Visible(w)'
    <2>1. CASE i = Len(new) /\ w = u
      BY <1>6, <1>7, <1>8, <2>1
    <2>2. CASE i \in DOMAIN old /\ new[i] = old[i] /\ w \in snap[u]
      <3>1. w \in Txn /\ pc[w] = "committed"
        BY <1>3, <2>2 DEF SnapshotsCommitted
      <3>2. x.ins = w \/ pc[x.ins] = "committed"
        BY <1>11, <2>2 DEF Chained
      <3>. QED
        BY <1>3, <1>4, <3>1, <3>2 DEF Finished
    <2>. QED
      BY <1>10, <1>11, <2>1, <2>2
  <1>12. pc'[x.ins] \notin {"idle", "aborted"}
    BY <1>3, <1>4 DEF Chained
  <1>. QED
    BY <1>2, <1>3, <1>11, <1>12 DEF Chained

(* Who aborts has at most the last version of a row. *)
LEMMA ChainedUndone ==
    ASSUME TypeOK, NEW u \in Txn, Forward(u), row' = Undone(u),
           pc[u] # "committed", NEW r \in Row, Chained(row[r])
    PROVE  Chained(row[r])'
  <1>. DEFINE x == row[r]
              old == x.upd
              y == row'[r]
              new == y.upd
  <1>1. /\ x \in RowRecord
        /\ x.ins \in Txn \cup {Nowhere}
        /\ old \in Seq(Version)
        /\ \A i \in DOMAIN old : old[i].by \in Txn
    BY RowTypes
  <1>2. y = IF x.ins = u THEN NoRow
            ELSE [x EXCEPT !.upd = DropVersion(old, u)]
    BY DEF Undone
  <1>3. CASE x.ins = u
    BY <1>2, <1>3, NowhereAssumption DEF NoRow, Chained
  <1>4. CASE x.ins # u
    <2>1. y.home = x.home /\ y.ins = x.ins /\ new = DropVersion(old, u)
      BY <1>1, <1>2, <1>4 DEF RowRecord
    <2>2. /\ old = <<>> => new = <<>>
          /\ \A i \in DOMAIN new :
                /\ i \in DOMAIN old
                /\ new[i] = old[i]
                /\ i # Len(new) => i # Len(old)
                /\ i = Len(old) => old[i].by # u
      <3>1. CASE old # <<>> /\ old[Len(old)].by = u
        <4>1. new = SubSeq(old, 1, Len(old) - 1)
          BY <2>1, <3>1 DEF DropVersion
        <4>2. /\ DOMAIN new = 1..Len(old) - 1
              /\ DOMAIN old = 1..Len(old)
              /\ Len(old) \in Nat
              /\ \A i \in 1..Len(old) - 1 : new[i] = old[i]
          BY <1>1, <4>1
        <4>. QED
          BY <3>1, <4>2, SMTT(30)
      <3>2. CASE ~(old # <<>> /\ old[Len(old)].by = u)
        BY <2>1, <3>2 DEF DropVersion
      <3>. QED
        BY <3>1, <3>2
    <2>3. \A t \in Txn \ {u} : /\ pc'[t] = pc[t]
                               /\ Finished(t)' = Finished(t)
                               /\ Visible(t)' = Visible(t)
      BY DEF Forward, Others, Finished, Visible
    <2>4. ASSUME NEW i \in DOMAIN new, NEW w, w = new[i].by
          PROVE  /\ i # Len(new) => pc'[w] = "committed"
                 /\ pc'[w] \notin {"idle", "aborted"}
                 /\ x.ins \in Txn
                 /\ x.ins = w \/ pc'[x.ins] = "committed"
                 /\ ~Finished(w)' => x.ins \in Visible(w)'
      <3>1. /\ i # Len(new) => pc[w] = "committed"
            /\ pc[w] \notin {"idle", "aborted"}
            /\ x.ins \in Txn
            /\ x.ins = w \/ pc[x.ins] = "committed"
            /\ ~Finished(w) => x.ins \in Visible(w)
        BY <2>2, <2>4 DEF Chained
      <3>2. w \in Txn /\ w # u
        <4>1. i # Len(old) => pc[w] = "committed"
          BY <2>2, <2>4 DEF Chained
        <4>. QED
          BY <1>1, <2>2, <2>4, <4>1
      <3>. QED
        BY <1>4, <2>3, <3>1, <3>2
    <2>5. y.home = Nowhere => y.ins = Nowhere /\ new = <<>>
      BY <2>1, <2>2 DEF Chained
    <2>6. x.ins \in Txn => pc'[x.ins] \notin {"idle", "aborted"}
      BY <1>4, <2>3 DEF Chained
    <2>. QED
      BY <2>1, <2>4, <2>5, <2>6 DEF Chained
  <1>. QED
    BY <1>3, <1>4

LEMMA StepChained ==
    ASSUME TypeOK, SnapshotsCommitted, NEW u \in Txn, Shape(u),
           \A r \in Row : Chained(row[r])
    PROVE  \A r \in Row : Chained(row[r])'
  <1>. SUFFICES ASSUME NEW q \in Row PROVE Chained(row[q])'
    OBVIOUS
  <1>1. Forward(u) /\ Others(u) /\ Chained(row[q])
    BY ShapeForward DEF Shape
  <1>2. CASE row'[q] = row[q] /\ pc'[u] # "aborted"
    BY <1>1, <1>2, ChainedKept
  <1>3. CASE Quiet(u) \/ Began(u) \/ Committing(u) \/ Pruned(u) \/ Resumed(u)
    BY <1>2, <1>3 DEF Quiet, Working, Finished, Began, Committing, Pruned,
                      Resumed
  <1>4. CASE Inserted(u) \/ Flushed(u)
    <2>1. Working(u)
      BY <1>4 DEF Inserted, Flushed
    <2>2. PICK r \in Row, v \in Datum, c \in Col :
             row' = [row EXCEPT ![r] = NewRow(u, c, v)]
      BY <1>4 DEF Inserted, Flushed, RowsOf
    <2>3. CASE q = r
      <3>1. row'[q] = NewRow(u, c, v)
        BY <2>2, <2>3 DEF TypeOK
      <3>. QED
        BY <2>1, <3>1, ChainedNew DEF Working
    <2>4. CASE q # r
      BY <1>2, <2>1, <2>2, <2>4 DEF TypeOK, Working, Finished
    <2>. QED
      BY <2>3, <2>4
  <1>5. CASE Wrote(u)
    <2>1. PICK r \in Row, v \in Datum :
             /\ row[r].home # Nowhere
             /\ row[r].ins \in Visible(u)
             /\ Seen(row[r], u) = DOMAIN row[r].upd
             /\ row' = [row EXCEPT ![r].upd = AddVersion(row[r].upd, u, v)]
      BY <1>5 DEF Wrote
    <2>2. Working(u)
      BY <1>5 DEF Wrote
    <2>3. CASE q = r
      <3>1. row'[q] = [row[q] EXCEPT !.upd = AddVersion(row[q].upd, u, v)]
        BY <2>1, <2>3 DEF TypeOK
      <3>. QED
        BY <1>1, <2>1, <2>2, <2>3, <3>1, ChainedWrote
    <2>4. CASE q # r
      BY <1>2, <2>1, <2>2, <2>4 DEF TypeOK, Working, Finished
    <2>. QED
      BY <2>3, <2>4
  <1>6. CASE Aborting(u)
    BY <1>1, <1>6, ChainedUndone DEF Aborting, Finished
  <1>. QED
    BY <1>3, <1>4, <1>5, <1>6 DEF Shape

-------------------------------------------------------------------------------
(* No row group belongs to two collections. *)

(* A step takes row groups from one collection to another, drops some, or
   opens one that nobody has.                                                *)
LEMMA ApartMoved ==
    ASSUME TypeOK, GroupsApart, NEW k \in Collection, NEW j \in Collection,
           k # j,
           Elements(groups'[k]) \subseteq Elements(groups[k]) \cup Elements(groups[j]),
           Elements(groups'[j]) = {},
           \A l \in Collection \ {k, j} : groups'[l] = groups[l]
    PROVE  GroupsApart'
  BY DEF GroupsApart

LEMMA ApartOpened ==
    ASSUME TypeOK, GroupsApart, NEW k \in Collection, NEW c,
           \/ c \in Elements(groups[k])
           \/ \A l \in Collection : c \notin Elements(groups[l]),
           Elements(groups'[k]) \subseteq Elements(groups[k]) \cup {c},
           \A l \in Collection \ {k} : groups'[l] = groups[l]
    PROVE  GroupsApart'
  BY DEF GroupsApart

LEMMA AppendApart ==
    ASSUME TypeOK, GroupsApart, NEW k \in Collection, NEW r \in Row,
           NEW v \in Datum, NEW u \in Txn, NEW c \in Col,
           AppendRow(k, r, v, u, c)
    PROVE  GroupsApart'
  <1>1. groups \in [Collection -> Seq(Col)] /\ groups[k] \in Seq(Col)
    BY DEF TypeOK
  <1>2. CASE groups' = groups
    BY <1>2 DEF GroupsApart
  <1>3. CASE /\ groups' = [groups EXCEPT ![k] = Append(groups[k], c)]
             /\ \A l \in Collection : c \notin Elements(groups[l])
    <2>1. groups'[k] = Append(groups[k], c)
      BY <1>1, <1>3
    <2>2. \A i \in DOMAIN groups'[k] :
             \/ groups'[k][i] = c
             \/ i \in DOMAIN groups[k] /\ groups'[k][i] = groups[k][i]
      BY <1>1, <2>1
    <2>3. Elements(groups'[k]) \subseteq Elements(groups[k]) \cup {c}
      BY <2>2 DEF Elements
    <2>. QED
      BY <1>1, <1>3, <2>3, ApartOpened
  <1>. QED
    BY <1>2, <1>3
       DEF AppendRow, AppendOpens, AppendFits, AppendOverflows, Free

LEMMA ConcatParts ==
    ASSUME NEW a \in Seq(Col), NEW b \in Seq(Col)
    PROVE  Elements(a \o b) \subseteq Elements(a) \cup Elements(b)
  <1>1. \A i \in DOMAIN (a \o b) :
           \/ i \in DOMAIN a /\ (a \o b)[i] = a[i]
           \/ i - Len(a) \in DOMAIN b /\ (a \o b)[i] = b[i - Len(a)]
    <2>1. /\ Len(a \o b) = Len(a) + Len(b)
          /\ \A i \in 1..Len(a) + Len(b) :
                (a \o b)[i] = IF i <= Len(a) THEN a[i] ELSE b[i - Len(a)]
      BY ConcatProperties
    <2>2. /\ DOMAIN a = 1..Len(a) /\ Len(a) \in Nat
          /\ DOMAIN b = 1..Len(b) /\ Len(b) \in Nat
          /\ DOMAIN (a \o b) = 1..Len(a) + Len(b)
      BY <2>1
    <2>3. \A m, n \in Nat : \A i \in 1..m + n :
             /\ i <= m \/ i > m
             /\ i > m => i - m \in 1..n
             /\ i <= m => i \in 1..m
      OBVIOUS
    <2>4. \A i \in 1..Len(a) + Len(b) :
             /\ i > Len(a) => i - Len(a) \in 1..Len(b)
             /\ i <= Len(a) => i \in 1..Len(a)
      BY <2>2, <2>3, Zenon
    <2>. SUFFICES ASSUME NEW i \in 1..Len(a) + Len(b)
                  PROVE  \/ i \in DOMAIN a /\ (a \o b)[i] = a[i]
                         \/ /\ i - Len(a) \in DOMAIN b
                            /\ (a \o b)[i] = b[i - Len(a)]
      BY <2>2
    <2>5. i <= Len(a) \/ i > Len(a)
      BY <2>2, <2>3, Zenon
    <2>6. CASE i <= Len(a)
      BY <2>1, <2>2, <2>4, <2>6, Zenon
    <2>7. CASE ~(i <= Len(a))
      BY <2>1, <2>2, <2>4, <2>5, <2>7, Zenon
    <2>. QED
      BY <2>6, <2>7
  <1>. QED
    BY <1>1 DEF Elements

LEMMA CommitApart ==
    ASSUME TypeOK, GroupsApart, NEW u \in Txn, CommitStep(u)
    PROVE  GroupsApart'
  <1>1. /\ u \in Collection /\ Table \in Collection /\ u # Table
        /\ groups \in [Collection -> Seq(Col)]
        /\ groups[Table] \in Seq(Col) /\ groups[u] \in Seq(Col)
    BY TableAssumption DEF TypeOK, Collection
  <1>2. Elements(<<>>) = {}
    BY DEF Elements
  <1>3. CASE groups' = groups
    BY <1>3 DEF GroupsApart
  <1>4. CASE MergeStorage(u)
    <2>. DEFINE a == groups[Table]
                b == groups[u]
    <2>1. /\ groups'[Table] = a \o b
          /\ groups'[u] = <<>>
          /\ \A k \in Collection \ {u, Table} : groups'[k] = groups[k]
      BY <1>1, <1>4 DEF MergeStorage
    <2>2. Elements(a \o b) \subseteq Elements(a) \cup Elements(b)
      BY <1>1, ConcatParts
    <2>. QED
      BY <1>1, <1>2, <2>1, <2>2, ApartMoved
  <1>5. CASE FlushRow(u)
    BY <1>1, <1>5, AppendApart DEF FlushRow, RowsOf
  <1>6. CASE FlushEnd(u) \/ Rollback(u)
    <2>1. /\ groups'[u] = <<>>
          /\ \A k \in Collection \ {u} : groups'[k] = groups[k]
      BY <1>1, <1>6 DEF FlushEnd, Rollback
    <2>. QED
      BY <1>1, <1>2, <2>1 DEF GroupsApart
  <1>7. CASE RevertAppend(u)
    <2>. DEFINE old == groups[Table]
    <2>1. PICK n \in 0..Len(old) :
             groups' = [groups EXCEPT ![Table] = SubSeq(old, 1, n),
                                      ![u] = <<>>]
      BY <1>7 DEF RevertAppend
    <2>2. /\ groups'[Table] = SubSeq(old, 1, n)
          /\ groups'[u] = <<>>
          /\ \A k \in Collection \ {u, Table} : groups'[k] = groups[k]
      BY <1>1, <2>1
    <2>3. Elements(SubSeq(old, 1, n)) \subseteq Elements(old)
      BY <1>1 DEF Elements
    <2>. QED
      BY <1>1, <1>2, <2>2, <2>3, ApartMoved
  <1>. QED
    BY <1>3, <1>4, <1>5, <1>6, <1>7
       DEF CommitStep, CommitWithoutRows, FlushBegin, Commit

LEMMA StepApart ==
    ASSUME TypeOK, GroupsApart, [Next]_vars
    PROVE  GroupsApart'
  <1>1. CASE groups' = groups
    BY <1>1 DEF GroupsApart
  <1>2. ASSUME NEW u \in Txn, Sink(u) PROVE GroupsApart'
    BY <1>2, AppendApart DEF Sink, RowsAt, Collection
  <1>3. ASSUME NEW u \in Txn, CommitStep(u) PROVE GroupsApart'
    BY <1>3, CommitApart
  <1>4. ASSUME NEW u \in Txn,
               \/ Begin(u)
               \/ InsertBegin(u)
               \/ FinishInitialiseStats(u)
               \/ UpdateStep(u)
               \/ ScanStep(u)
        PROVE  groups' = groups
    BY <1>4 DEF Begin, InsertBegin, FinishInitialiseStats, UpdateStep, Update,
                SinkConflict, UpdateApply, UpdateInvalidate, UpdateMerge,
                ScanStep, ScanCheckStats, ScanNotExcluded, ScanCheckUpdates,
                ScanCheckRange, ScanEnd
  <1>5. CASE Reopen \/ Alter \/ UNCHANGED vars
    BY <1>1, <1>5 DEF Reopen, Alter, vars
  <1>. QED
    BY <1>1, <1>2, <1>3, <1>4, <1>5 DEF Next, InsertStep

-------------------------------------------------------------------------------
(* Local rows. *)

(* The part of the invariants that the proofs by shapes need. *)
Base ==
    /\ TypeOK
    /\ SnapshotsCommitted
    /\ RowsHoused
    /\ GroupsApart
    /\ \A r \in Row : Chained(row[r])

(* A row in the local row groups of a transaction is its own. *)
LEMMA LocalRows ==
    ASSUME Base, NEW u \in Txn, NEW r \in RowsOf(u)
    PROVE  row[r].ins = u /\ row[r].home # Nowhere
  <1>1. /\ r \in Row /\ row[r].home \in Elements(groups[u])
        /\ u \in Collection /\ Table \in Collection /\ u # Table
        /\ \A t \in Txn : t \in Collection
    BY TableAssumption DEF RowsOf, Collection
  <1>2. row[r].home # Nowhere
    <2>1. groups[u] \in Seq(Col)
      BY <1>1 DEF Base, TypeOK
    <2>2. \A i \in DOMAIN groups[u] : groups[u][i] \in Col
      BY <2>1
    <2>. QED
      BY <1>1, <2>2, NowhereAssumption DEF Elements
  <1>3. row[r].home \notin Elements(groups[Table])
    BY <1>1 DEF Base, GroupsApart
  <1>4. PICK t \in Txn : row[r].ins = t /\ row[r].home \in Elements(groups[t])
    BY <1>1, <1>2, <1>3 DEF Base, RowsHoused
  <1>5. t = u
    BY <1>1, <1>4 DEF Base, GroupsApart
  <1>. QED
    BY <1>2, <1>4, <1>5

-------------------------------------------------------------------------------
(* The theorem. *)

(* After a restart there are no versions. *)
LEMMA ReopenChained ==
    ASSUME TypeOK, Reopen, \A r \in Row : Chained(row[r])
    PROVE  \A r \in Row : Chained(row[r])'
  <1>. SUFFICES ASSUME NEW r \in Row PROVE Chained(row[r])'
    OBVIOUS
  <1>1. row[r] \in RowRecord
    BY DEF TypeOK
  <1>2. /\ row'[r].home = row[r].home
        /\ row'[r].ins = row[r].ins
        /\ row'[r].upd = <<>>
        /\ pc' = pc
    BY <1>1 DEF Reopen, RowRecord
  <1>3. Chained(row[r])
    OBVIOUS
  <1>. QED
    BY <1>2, <1>3 DEF Chained

LEMMA ChainsInductive ==
    ASSUME IInv, Chains, [Next]_vars
    PROVE  Chains'
  <1>1. TypeOK /\ SnapshotsCommitted /\ GroupsApart
        /\ \A r \in Row : Chained(row[r])
    BY ChainsAre DEF IInv
  <1>2. GroupsApart'
    BY <1>1, StepApart
  <1>3. \A r \in Row : Chained(row[r])'
    <2>1. CASE Next /\ ~Reopen /\ ~Alter
      BY <1>1, <2>1, NextShape, StepChained
    <2>2. CASE Reopen
      BY <1>1, <2>2, ReopenChained
    <2>3. CASE Alter \/ UNCHANGED vars
      BY <1>1, <2>3 DEF Alter, vars, Chained, Finished, Visible
    <2>. QED
      BY <2>1, <2>2, <2>3
  <1>. QED
    BY <1>2, <1>3
       DEF Chains, HomelessEmpty, ChainsCommitted, WritersBegun,
           VersionsFounded, Chained

LEMMA InitChains == Init => Chains
  <1>. SUFFICES ASSUME Init PROVE Chains
    OBVIOUS
  <1>1. /\ \A r \in Row : row[r] = NoRow
        /\ \A k \in Collection : groups[k] = <<>>
    BY DEF Init
  <1>2. \A r \in Row : Chained(row[r])
    BY <1>1, NowhereAssumption DEF Chained, NoRow
  <1>3. GroupsApart
    BY <1>1 DEF GroupsApart, Elements
  <1>. QED
    BY <1>2, <1>3, ChainsAre

(* A version that UpdateSegment::Update put on a chain is undone only while it
   is the newest, and by its own transaction; whoever added one saw the row it
   belongs to; and a row group is never in two collections.                  *)
THEOREM ChainsInvariant == Spec => []Chains
  <1>1. Init => IInv /\ Chains
    BY InitInvariant, InitChains
  <1>2. IInv /\ Chains /\ [Next]_vars => (IInv /\ Chains)'
    BY Inductive, ChainsInductive
  <1>. QED
    BY <1>1, <1>2, PTL DEF Spec

-------------------------------------------------------------------------------
(* What a row reads as. *)

(* A set of positions that is not empty has a greatest one. *)
LEMMA GreatestPosition ==
    ASSUME NEW n \in Nat, NEW S \in SUBSET (1..n), S # {}
    PROVE  \E x \in S : \A y \in S : y <= x
  <1>. DEFINE Above == {x..n : x \in S}
  <1>1. Above # {} /\ Above \subseteq FiniteSubsetsOf(Nat)
    <2>1. \A x \in S : x..n \subseteq Nat /\ IsFiniteSet(x..n)
      BY FS_Interval
    <2>. QED
      BY <2>1 DEF FiniteSubsetsOf
  <1>2. PICK I \in Above :
           \A J \in Above : ~ (<<J, I>> \in StrictSubsetOrdering(Nat))
    BY <1>1, FS_StrictSubsetOrderingWellFounded, WFMin
  <1>3. PICK x \in S : I = x..n
    OBVIOUS
  <1>4. ASSUME NEW y \in S PROVE y <= x
    <2>1. ~ (y..n \subseteq x..n /\ y..n # x..n)
      <3>1. y..n \in Above /\ y..n \in SUBSET Nat /\ x..n \in SUBSET Nat
        BY <1>4
      <3>2. <<y..n, x..n>> \notin StrictSubsetOrdering(Nat)
        BY <1>2, <1>3, <3>1
      <3>. QED
        BY <3>1, <3>2 DEF StrictSubsetOrdering
    <2>2. SUFFICES ASSUME x < y PROVE FALSE
      BY <1>4
    <2>3. x \in x..n /\ x \notin y..n /\ y..n \subseteq x..n
      BY <2>2
    <2>. QED
      BY <2>1, <2>3
  <1>. QED
    BY <1>4

LEMMA NewestIs ==
    ASSUME NEW seen \in SUBSET Nat, NEW m \in seen, \A j \in seen : j <= m
    PROVE  Newest(seen) = m
  <1>1. Newest(seen) \in seen /\ \A j \in seen : j <= Newest(seen)
    BY DEF Newest
  <1>2. \A a, b \in Nat : a <= b /\ b <= a => a = b
    OBVIOUS
  <1>. QED
    BY <1>1, <1>2

LEMMA SeenPositions ==
    ASSUME NEW x \in RowRecord, NEW S
    PROVE  /\ Len(x.upd) \in Nat
           /\ SeenBy(x, S) \subseteq 1..Len(x.upd)
           /\ DOMAIN x.upd = 1..Len(x.upd)
  BY DEF RowRecord, SeenBy

LEMMA NewestSeen ==
    ASSUME NEW x \in RowRecord, NEW S, SeenBy(x, S) # {}
    PROVE  /\ Newest(SeenBy(x, S)) \in SeenBy(x, S)
           /\ \A j \in SeenBy(x, S) : j <= Newest(SeenBy(x, S))
  <1>. DEFINE seen == SeenBy(x, S)
  <1>1. seen \subseteq 1..Len(x.upd) /\ Len(x.upd) \in Nat
    BY SeenPositions
  <1>2. PICK m \in seen : \A j \in seen : j <= m
    BY <1>1, GreatestPosition
  <1>3. seen \subseteq Nat
    BY <1>1
  <1>4. Newest(seen) = m
    BY <1>2, <1>3, NewestIs
  <1>. QED
    BY <1>2, <1>4

(* ReadBy is what Reads says of a transaction, for a row it sees. *)
LEMMA ReadsIsReadBy ==
    ASSUME NEW t \in Txn, NEW x \in RowRecord, x.ins \in Visible(t), NEW v
    PROVE  Reads(x, t, v) <=> v = ReadBy(x, Visible(t))
  <1>. DEFINE seen == SeenBy(x, Visible(t))
  <1>1. Seen(x, t) = seen
    BY DEF Seen, SeenBy
  <1>2. CASE seen = {}
    BY <1>1, <1>2 DEF Reads, ReadBy
  <1>3. CASE seen # {}
    <2>1. seen \subseteq Nat
      BY SeenPositions
    <2>2. /\ Newest(seen) \in seen
          /\ \A j \in seen : j <= Newest(seen)
      BY <1>3, NewestSeen
    <2>3. \A i \in seen : (\A j \in seen : j <= i) => i = Newest(seen)
      BY <2>1, <2>2
    <2>4. ReadBy(x, Visible(t)) = x.upd[Newest(seen)].val
      BY <1>3 DEF ReadBy
    <2>5. Reads(x, t, v) <=> \E i \in seen : /\ \A j \in seen : j <= i
                                             /\ v = x.upd[i].val
      BY <1>1, <1>3 DEF Reads
    <2>. QED
      BY <2>2, <2>3, <2>4, <2>5
  <1>. QED
    BY <1>2, <1>3

(* A row reads the same to two who see the same of it. *)
LEMMA ReadBySame ==
    ASSUME NEW x \in RowRecord, NEW y, NEW S, NEW T,
           x.ins \in S <=> y.ins \in T,
           x.ins \in S => /\ x.val = y.val
                          /\ SeenBy(x, S) = SeenBy(y, T)
                          /\ \A i \in SeenBy(x, S) : x.upd[i].val = y.upd[i].val
    PROVE  ReadBy(x, S) = ReadBy(y, T)
  <1>1. CASE x.ins \notin S
    BY <1>1 DEF ReadBy
  <1>2. CASE x.ins \in S /\ SeenBy(x, S) = {}
    BY <1>2 DEF ReadBy
  <1>3. CASE x.ins \in S /\ SeenBy(x, S) # {}
    <2>. DEFINE seen == SeenBy(x, S)
    <2>1. ReadBy(x, S) = x.upd[Newest(seen)].val
      BY <1>3 DEF ReadBy
    <2>2. ReadBy(y, T) = y.upd[Newest(seen)].val
      BY <1>3 DEF ReadBy
    <2>3. Newest(seen) \in seen
      BY <1>3, NewestSeen
    <2>. QED
      BY <1>3, <2>1, <2>2, <2>3
  <1>. QED
    BY <1>1, <1>2, <1>3

-------------------------------------------------------------------------------
(* What a transaction does to a row, the others do not see. *)

(* To those who do not see u, the row x and what it becomes, y, are alike. *)
Hidden(x, y, u) ==
    \A S \in SUBSET (Txn \ {u}) :
       /\ y.ins \in S <=> x.ins \in S
       /\ SeenBy(y, S) = SeenBy(x, S)
       /\ \A i \in SeenBy(x, S) : y.upd[i] = x.upd[i]
       /\ x.ins \in S => y.val = x.val /\ y.home = x.home

Only(x, u) == /\ x.ins \in {u, Nowhere}
              /\ \A i \in DOMAIN x.upd : x.upd[i].by = u

LEMMA HiddenOnly ==
    ASSUME NEW u \in Txn, NEW x, NEW y, Only(x, u), Only(y, u)
    PROVE  Hidden(x, y, u)
  <1>. SUFFICES ASSUME NEW S \in SUBSET (Txn \ {u})
                PROVE  /\ y.ins \notin S /\ x.ins \notin S
                       /\ SeenBy(y, S) = {} /\ SeenBy(x, S) = {}
    BY DEF Hidden
  <1>1. u \notin S /\ Nowhere \notin S
    BY NowhereAssumption
  <1>. QED
    BY <1>1 DEF Only, SeenBy

LEMMA HiddenVersion ==
    ASSUME NEW u \in Txn, NEW x \in RowRecord, NEW y,
           y.ins = x.ins, y.val = x.val, y.home = x.home,
           \/ \E v \in Datum : y.upd = AddVersion(x.upd, u, v)
           \/ y.upd = DropVersion(x.upd, u)
    PROVE  Hidden(x, y, u)
  <1>. SUFFICES ASSUME NEW S \in SUBSET (Txn \ {u})
                PROVE  /\ SeenBy(y, S) = SeenBy(x, S)
                       /\ \A i \in SeenBy(x, S) : y.upd[i] = x.upd[i]
    BY DEF Hidden
  <1>. DEFINE old == x.upd
              new == y.upd
              sees(w) == w \in S
  <1>1. old \in Seq(Version) /\ ~sees(u)
    BY DEF RowRecord
  <1>2. /\ \A i \in DOMAIN old : sees(old[i].by) =>
              i \in DOMAIN new /\ new[i] = old[i]
        /\ \A i \in DOMAIN new : sees(new[i].by) =>
              i \in DOMAIN old /\ new[i] = old[i]
    <2>1. ASSUME NEW v \in Datum, new = AddVersion(old, u, v) PROVE <1>2
      <3>1. CASE old # <<>> /\ old[Len(old)].by = u
        BY <1>1, <2>1, <3>1 DEF AddVersion
      <3>2. CASE ~(old # <<>> /\ old[Len(old)].by = u)
        BY <1>1, <2>1, <3>2 DEF AddVersion
      <3>. QED
        BY <3>1, <3>2
    <2>2. ASSUME new = DropVersion(old, u) PROVE <1>2
      <3>1. CASE old # <<>> /\ old[Len(old)].by = u
        <4>1. new = SubSeq(old, 1, Len(old) - 1)
          BY <2>2, <3>1 DEF DropVersion
        <4>2. /\ DOMAIN new = 1..Len(old) - 1
              /\ DOMAIN old = 1..Len(old)
              /\ Len(old) \in Nat
              /\ \A i \in 1..Len(old) - 1 : new[i] = old[i]
          BY <1>1, <4>1
        <4>3. \A i \in DOMAIN old : i # Len(old) => i \in DOMAIN new
          BY <4>2
        <4>4. \A i \in DOMAIN new : i \in DOMAIN old /\ new[i] = old[i]
          BY <4>2
        <4>5. ~sees(old[Len(old)].by)
          BY <1>1, <3>1
        <4>. HIDE DEF old, new, sees
        <4>. QED
          BY <4>3, <4>4, <4>5
      <3>2. CASE ~(old # <<>> /\ old[Len(old)].by = u)
        BY <2>2, <3>2 DEF DropVersion
      <3>. QED
        BY <3>1, <3>2
    <2>. QED
      BY <2>1, <2>2, Zenon
  <1>3. /\ SeenBy(y, S) = {i \in DOMAIN new : sees(new[i].by)}
        /\ SeenBy(x, S) = {i \in DOMAIN old : sees(old[i].by)}
    BY DEF SeenBy
  <1>. HIDE DEF sees, old, new
  <1>4. SeenBy(y, S) = SeenBy(x, S)
    BY <1>2, <1>3
  <1>5. \A i \in SeenBy(x, S) : new[i] = old[i]
    BY <1>2, <1>3
  <1>. QED
    BY <1>4, <1>5 DEF new, old

(* So a step of u leaves the store, and what the others read, write and skip,
   as they are, unless u commits.                                            *)
LEMMA HiddenFrame ==
    ASSUME TypeOK, TypeOK', SnapshotsCommitted, NEW u \in Txn, ~Finished(u) \/ pc[u] = "idle",
           \A t \in Txn \ {u} : /\ pc'[t] = pc[t]
                                 /\ job'[t] = job[t]
                                 /\ snap'[t] = snap[t],
           \A r \in Row : Hidden(row[r], row'[r], u)
    PROVE  /\ pc'[u] # "committed" => stores' = stores
           /\ \A t \in Txn \ {u} : /\ phases'[t] = phases[t]
                                    /\ views'[t] = views[t]
                                    /\ writes'[t] = writes[t]
                                    /\ skips'[t] = skips[t]
  <1>1. \A r \in Row : row[r] \in RowRecord /\ row'[r] \in RowRecord
    BY DEF TypeOK
  <1>2. ASSUME NEW S \in SUBSET (Txn \ {u}), NEW r \in Row
        PROVE  /\ ReadBy(row'[r], S) = ReadBy(row[r], S)
               /\ row'[r].ins \in S <=> row[r].ins \in S
               /\ SeenBy(row'[r], S) = SeenBy(row[r], S)
               /\ row[r].ins \in S => row'[r].home = row[r].home
    <2>1. /\ row'[r].ins \in S <=> row[r].ins \in S
          /\ SeenBy(row'[r], S) = SeenBy(row[r], S)
          /\ \A i \in SeenBy(row[r], S) : row'[r].upd[i] = row[r].upd[i]
          /\ row[r].ins \in S => /\ row'[r].val = row[r].val
                                 /\ row'[r].home = row[r].home
      BY DEF Hidden
    <2>2. ReadBy(row[r], S) = ReadBy(row'[r], S)
      <3>. DEFINE x == row[r]
                  y == row'[r]
      <3>1. x \in RowRecord
        BY <1>1
      <3>. HIDE DEF x, y
      <3>2. ReadBy(x, S) = ReadBy(y, S)
        BY <2>1, <3>1, ReadBySame DEF x, y
      <3>. QED
        BY <3>2 DEF x, y
    <2>. QED
      BY <2>1, <2>2
  <1>3. ASSUME pc'[u] # "committed" PROVE stores' = stores
    <2>1. Committed' = Committed /\ Committed \in SUBSET (Txn \ {u})
      BY <1>3 DEF Committed, Finished
    <2>2. \A r \in Row : StoreOf(r)' = StoreOf(r)
      BY <1>2, <2>1 DEF StoreOf
    <2>. QED
      BY <2>2 DEF stores
  <1>4. ASSUME NEW t \in Txn \ {u}
        PROVE  /\ phases'[t] = phases[t]
               /\ views'[t] = views[t]
               /\ writes'[t] = writes[t]
               /\ skips'[t] = skips[t]
    <2>1. /\ Finished(t)' = Finished(t)
          /\ Visible(t)' = Visible(t)
          /\ Visible(t) \in SUBSET (Txn \ {u})
          /\ {t} \in SUBSET (Txn \ {u})
      BY DEF Finished, Visible, SnapshotsCommitted, TypeOK
    <2>2. PhaseOf(t)' = PhaseOf(t)
      BY <2>1 DEF PhaseOf
    <2>3. \A r \in Row : ViewOf(t, r)' = ViewOf(t, r)
      BY <1>2, <2>1 DEF ViewOf
    <2>4. WroteOf(t)' = WroteOf(t)
      <3>1. \A r \in Row : /\ row'[r].ins = t <=> row[r].ins = t
                           /\ SeenBy(row'[r], {t}) = SeenBy(row[r], {t})
        BY <1>2, <2>1
      <3>. QED
        BY <2>1, <3>1 DEF WroteOf
    <2>5. SkipOf(t)' = SkipOf(t)
      <3>1. VisibleRows(job[t].c, t)' = VisibleRows(job[t].c, t)
        BY <1>2, <2>1 DEF VisibleRows, RowsAt
      <3>. QED
        BY <3>1 DEF SkipOf
    <2>. QED
      BY <2>2, <2>3, <2>4, <2>5 DEF phases, views, writes, skips
  <1>. QED
    BY <1>3, <1>4

(* Nobody else has updated the rows of an uncommitted transaction. *)
LEMMA OwnRow ==
    ASSUME NEW u \in Txn, pc[u] # "committed", NEW x, Chained(x), x.ins = u
    PROVE  Only(x, u)
  BY DEF Chained, Only

LEMMA ShapeHidden ==
    ASSUME Base, NEW u \in Txn, Shape(u), NEW q \in Row
    PROVE  Hidden(row[q], row'[q], u)
  <1>1. /\ row[q] \in RowRecord /\ Chained(row[q])
        /\ row \in [Row -> RowRecord]
    BY RowTypes DEF Base, TypeOK
  <1>2. CASE row'[q] = row[q]
    BY <1>2 DEF Hidden
  <1>3. CASE Inserted(u) \/ Flushed(u)
    <2>1. PICK r \in Row, v \in Datum, c \in Col :
             /\ row[r].home = Nowhere \/ r \in RowsOf(u)
             /\ row' = [row EXCEPT ![r] = NewRow(u, c, v)]
      BY <1>3 DEF Inserted, Flushed, RowsOf
    <2>2. CASE q = r
      <3>1. Only(row'[q], u)
        BY <1>1, <2>1, <2>2 DEF Only, NewRow
      <3>2. pc[u] # "committed"
        BY <1>3 DEF Inserted, Flushed, Working, Finished
      <3>3. CASE row[q].home = Nowhere
        <4>1. Only(row[q], u)
          BY <1>1, <3>3 DEF Only, Chained
        <4>. QED
          BY <3>1, <4>1, HiddenOnly
      <3>4. CASE q \in RowsOf(u)
        <4>1. Only(row[q], u)
          BY <1>1, <3>2, <3>4, LocalRows, OwnRow
        <4>. QED
          BY <3>1, <4>1, HiddenOnly
      <3>. QED
        BY <2>1, <2>2, <3>3, <3>4
    <2>. QED
      BY <1>1, <1>2, <2>1, <2>2
  <1>4. CASE Wrote(u)
    <2>1. PICK r \in Row, v \in Datum :
             row' = [row EXCEPT ![r].upd = AddVersion(row[r].upd, u, v)]
      BY <1>4 DEF Wrote
    <2>2. CASE q = r
      <3>1. /\ row'[q].home = row[q].home
            /\ row'[q].ins = row[q].ins
            /\ row'[q].val = row[q].val
            /\ row'[q].upd = AddVersion(row[q].upd, u, v)
        BY <1>1, <2>1, <2>2 DEF RowRecord
      <3>. QED
        BY <1>1, <3>1, HiddenVersion
    <2>. QED
      BY <1>1, <1>2, <2>1, <2>2
  <1>5. CASE Aborting(u)
    <2>1. row'[q] = IF row[q].ins = u
                    THEN NoRow
                    ELSE [row[q] EXCEPT !.upd = DropVersion(row[q].upd, u)]
      BY <1>5 DEF Aborting, Undone
    <2>2. CASE row[q].ins = u
      <3>1. Only(row[q], u)
        BY <1>1, <1>5, <2>2, OwnRow DEF Aborting, Finished
      <3>2. Only(row'[q], u)
        BY <2>1, <2>2 DEF Only, NoRow
      <3>. QED
        BY <3>1, <3>2, HiddenOnly
    <2>3. CASE row[q].ins # u
      <3>1. /\ row'[q].home = row[q].home
            /\ row'[q].ins = row[q].ins
            /\ row'[q].val = row[q].val
            /\ row'[q].upd = DropVersion(row[q].upd, u)
        BY <1>1, <2>1, <2>3 DEF RowRecord
      <3>. QED
        BY <1>1, <3>1, HiddenVersion
    <2>. QED
      BY <2>2, <2>3
  <1>. QED
    BY <1>2, <1>3, <1>4, <1>5
       DEF Shape, Quiet, Began, Committing, Pruned, Resumed

(* A step of u changes the abstract variables at u, and the store only if u
   commits.                                                                  *)
Framed(u) ==
    /\ phases' = [phases EXCEPT ![u] = PhaseOf(u)']
    /\ views' = [views EXCEPT ![u] = [r \in Row |-> ViewOf(u, r)']]
    /\ writes' = [writes EXCEPT ![u] = WroteOf(u)']
    /\ skips' = [skips EXCEPT ![u] = SkipOf(u)']
    /\ pc'[u] # "committed" => stores' = stores

LEMMA ShapeFramed ==
    ASSUME Base, TypeOK', NEW u \in Txn, Shape(u)
    PROVE  Framed(u)
  <1>1. /\ \A t \in Txn \ {u} : /\ pc'[t] = pc[t]
                                 /\ job'[t] = job[t]
                                 /\ snap'[t] = snap[t]
        /\ ~Finished(u) \/ pc[u] = "idle"
    BY DEF Shape, Others, Quiet, Began, Inserted, Wrote, Flushed, Committing,
           Aborting, Pruned, Resumed, Working, Finished
  <1>2. \A r \in Row : Hidden(row[r], row'[r], u)
    BY ShapeHidden
  <1>3. /\ pc'[u] # "committed" => stores' = stores
        /\ \A t \in Txn \ {u} : /\ phases'[t] = phases[t]
                                 /\ views'[t] = views[t]
                                 /\ writes'[t] = writes[t]
                                 /\ skips'[t] = skips[t]
    BY <1>1, <1>2, HiddenFrame DEF Base
  <1>4. /\ phases'[u] = PhaseOf(u)'
        /\ views'[u] = [r \in Row |-> ViewOf(u, r)']
        /\ writes'[u] = WroteOf(u)'
        /\ skips'[u] = SkipOf(u)'
    BY DEF phases, views, writes, skips
  <1>5. /\ phases = [t \in Txn |-> phases[t]]
        /\ phases' = [t \in Txn |-> phases'[t]]
    BY DEF phases
  <1>6. /\ views = [t \in Txn |-> views[t]]
        /\ views' = [t \in Txn |-> views'[t]]
    BY DEF views
  <1>7. /\ writes = [t \in Txn |-> writes[t]]
        /\ writes' = [t \in Txn |-> writes'[t]]
    BY DEF writes
  <1>8. /\ skips = [t \in Txn |-> skips[t]]
        /\ skips' = [t \in Txn |-> skips'[t]]
    BY DEF skips
  <1>9. phases' = [phases EXCEPT ![u] = PhaseOf(u)']
    BY <1>3, <1>4, <1>5
  <1>10. views' = [views EXCEPT ![u] = [r \in Row |-> ViewOf(u, r)']]
    BY <1>3, <1>4, <1>6
  <1>11. writes' = [writes EXCEPT ![u] = WroteOf(u)']
    BY <1>3, <1>4, <1>7
  <1>12. skips' = [skips EXCEPT ![u] = SkipOf(u)']
    BY <1>3, <1>4, <1>8
  <1>. QED
    BY <1>3, <1>9, <1>10, <1>11, <1>12 DEF Framed

-------------------------------------------------------------------------------
(* Every step of a transaction is one of SnapshotScan, or none. *)

(* A transaction at work in the two states of a step that leaves the rows as
   they are reads and writes the same.                                       *)
LEMMA SameReads ==
    ASSUME NEW u \in Txn, ~Finished(u), ~Finished(u)', snap' = snap, row' = row
    PROVE  /\ PhaseOf(u)' = PhaseOf(u)
           /\ \A r \in Row : ViewOf(u, r)' = ViewOf(u, r)
           /\ WroteOf(u)' = WroteOf(u)
  BY DEF PhaseOf, ViewOf, WroteOf, Visible, ReadBy, SeenBy

(* The abstract variables at u, unchanged, are unchanged everywhere. *)
LEMMA Unmoved ==
    ASSUME NEW u \in Txn, Framed(u)
    PROVE  /\ PhaseOf(u)' = PhaseOf(u) => phases' = phases
           /\ (\A r \in Row : ViewOf(u, r)' = ViewOf(u, r)) => views' = views
           /\ WroteOf(u)' = WroteOf(u) => writes' = writes
           /\ SkipOf(u)' = SkipOf(u) => skips' = skips
  <1>1. /\ phases = [t \in Txn |-> phases[t]] /\ phases[u] = PhaseOf(u)
        /\ writes = [t \in Txn |-> writes[t]] /\ writes[u] = WroteOf(u)
        /\ skips = [t \in Txn |-> skips[t]] /\ skips[u] = SkipOf(u)
        /\ views = [t \in Txn |-> views[t]]
        /\ views[u] = [r \in Row |-> ViewOf(u, r)]
    BY DEF phases, writes, skips, views
  <1>2. PhaseOf(u)' = PhaseOf(u) => phases' = phases
    BY <1>1 DEF Framed
  <1>3. WroteOf(u)' = WroteOf(u) => writes' = writes
    BY <1>1 DEF Framed
  <1>4. SkipOf(u)' = SkipOf(u) => skips' = skips
    BY <1>1 DEF Framed
  <1>5. ASSUME \A r \in Row : ViewOf(u, r)' = ViewOf(u, r)
        PROVE  views' = views
    <2>1. [r \in Row |-> ViewOf(u, r)'] = views[u]
      BY <1>1, <1>5
    <2>2. views' = [views EXCEPT ![u] = views[u]]
      BY <2>1 DEF Framed
    <2>. QED
      BY <1>1, <2>2
  <1>. QED
    BY <1>2, <1>3, <1>4, <1>5

LEMMA QuietStutters ==
    ASSUME NEW u \in Txn, Framed(u), Quiet(u)
    PROVE  UNCHANGED Snapshot!svars
  <1>1. /\ PhaseOf(u)' = PhaseOf(u)
        /\ \A r \in Row : ViewOf(u, r)' = ViewOf(u, r)
        /\ WroteOf(u)' = WroteOf(u)
    BY SameReads DEF Quiet, Working
  <1>2. SkipOf(u)' = SkipOf(u)
    BY DEF SkipOf, Quiet, Working
  <1>3. stores' = stores
    BY DEF Framed, Quiet, Working, Finished
  <1>. QED
    BY <1>1, <1>2, <1>3, Unmoved DEF Snapshot!svars

LEMMA BeganBegins ==
    ASSUME Base, NEW u \in Txn, Framed(u), Began(u)
    PROVE  Snapshot!SBegin(u)
  <1>1. /\ pc[u] = "idle" /\ pc'[u] = "ready"
        /\ row' = row /\ snap'[u] = Committed
        /\ Finished(u) /\ ~Finished(u)'
    BY DEF Began, Finished
  <1>2. \A r \in Row : /\ row[r].ins # u
                       /\ \A i \in DOMAIN row[r].upd : row[r].upd[i].by # u
    BY <1>1 DEF Base, Chained
  <1>3. phases[u] = "idle" /\ PhaseOf(u)' = "active"
    BY <1>1 DEF phases, PhaseOf
  <1>4. ASSUME NEW r \in Row PROVE ViewOf(u, r)' = stores[r]
    <2>1. SeenBy(row[r], Committed \cup {u}) = SeenBy(row[r], Committed)
      BY <1>2 DEF SeenBy
    <2>2. ReadBy(row[r], Committed \cup {u}) = ReadBy(row[r], Committed)
      BY <1>2, <2>1 DEF ReadBy
    <2>3. ViewOf(u, r)' = ReadBy(row[r], Committed \cup {u})
      BY <1>1 DEF ViewOf, Visible, ReadBy, SeenBy
    <2>. QED
      BY <2>2, <2>3 DEF stores, StoreOf
  <1>5. WroteOf(u)' = WroteOf(u)
    <2>1. WroteOf(u) = {}
      BY <1>1 DEF WroteOf
    <2>2. WroteOf(u)' = {}
      BY <1>1, <1>2 DEF WroteOf, SeenBy
    <2>. QED
      BY <2>1, <2>2
  <1>6. SkipOf(u)' = SkipOf(u) /\ stores' = stores
    BY <1>1 DEF SkipOf, Framed
  <1>7. [r \in Row |-> ViewOf(u, r)'] = stores
    BY <1>4 DEF stores
  <1>8. views' = [views EXCEPT ![u] = stores]
    BY <1>7 DEF Framed
  <1>9. phases' = [phases EXCEPT ![u] = "active"]
    BY <1>3 DEF Framed
  <1>. QED
    BY <1>3, <1>5, <1>6, <1>8, <1>9, Unmoved DEF Snapshot!SBegin

(* What Inserted and Wrote have in common: one row, r, is u's from now on and
   reads as v; nobody else has written it, and u reads the newest of it.     *)
LEMMA WorkingWrites ==
    ASSUME NEW u \in Txn, Framed(u), Working(u), NEW r \in Row, NEW v \in Datum,
           \A q \in Row \ {r} : row'[q] = row[q],
           \A t \in Txn \ {u} : r \notin WroteOf(t),
           r \in WroteOf(u) \/ ViewOf(u, r) = StoreOf(r),
           r \in WroteOf(u)', ViewOf(u, r)' = v
    PROVE  Snapshot!SWrite(u, r)
  <1>1. /\ ~Finished(u) /\ ~Finished(u)' /\ snap' = snap
        /\ pc[u] # "pruned" /\ pc'[u] # "pruned"
    BY DEF Working
  <1>2. phases[u] = "active" /\ PhaseOf(u)' = PhaseOf(u)
    BY <1>1 DEF PhaseOf, phases
  <1>3. skips[u] = NoJob /\ SkipOf(u)' = SkipOf(u)
    BY <1>1 DEF SkipOf, skips
  <1>4. stores' = stores
    BY <1>1 DEF Framed, Finished
  <1>5. \A q \in Row \ {r} : (q \in WroteOf(u)') <=> (q \in WroteOf(u))
    BY <1>1 DEF WroteOf, SeenBy
  <1>6. writes' = [writes EXCEPT ![u] = @ \cup {r}]
    <2>1. WroteOf(u) \subseteq Row /\ WroteOf(u)' \subseteq Row
      BY DEF WroteOf
    <2>2. \A q : (q \in WroteOf(u)') <=> (q \in WroteOf(u) \cup {r})
      BY <1>5, <2>1
    <2>3. WroteOf(u)' = WroteOf(u) \cup {r}
      BY <2>2
    <2>4. writes[u] = WroteOf(u) /\ DOMAIN writes = Txn
      BY DEF writes
    <2>. QED
      BY <2>3, <2>4 DEF Framed
  <1>7. views' = [views EXCEPT ![u][r] = v]
    <2>1. ASSUME NEW q \in Row \ {r} PROVE views'[u][q] = views[u][q]
      BY <1>1 DEF views, ViewOf, Visible, ReadBy, SeenBy
    <2>2. views'[u][r] = v
      BY DEF views
    <2>3. /\ views'[u] = [q \in Row |-> views'[u][q]]
          /\ views[u] = [q \in Row |-> views[u][q]]
          /\ DOMAIN views = Txn
      BY DEF views
    <2>4. views'[u] = [views[u] EXCEPT ![r] = v]
      BY <2>1, <2>2, <2>3
    <2>5. views' = [views EXCEPT ![u] = views'[u]]
      BY DEF Framed, views
    <2>. QED
      BY <2>3, <2>4, <2>5
  <1>8. /\ \A t \in Txn \ {u} : r \notin writes[t]
        /\ r \in writes[u] \/ views[u][r] = stores[r]
    BY DEF writes, views, stores
  <1>. QED
    BY <1>2, <1>3, <1>4, <1>6, <1>7, <1>8, Unmoved DEF Snapshot!SWrite

LEMMA InsertedWrites ==
    ASSUME Base, NEW u \in Txn, Framed(u), Inserted(u)
    PROVE  \E r \in Row : Snapshot!SWrite(u, r)
  <1>1. PICK r \in Row, v \in Datum, c \in Col :
           /\ row[r].home = Nowhere
           /\ row' = [row EXCEPT ![r] = NewRow(u, c, v)]
    BY DEF Inserted
  <1>2. Working(u)
    BY DEF Inserted
  <1>3. row[r].ins = Nowhere /\ row[r].upd = <<>>
    BY <1>1 DEF Base, Chained
  <1>4. /\ row'[r] = NewRow(u, c, v)
        /\ \A q \in Row \ {r} : row'[q] = row[q]
    BY <1>1 DEF Base, TypeOK
  <1>5. \A t \in Txn : r \notin WroteOf(t)
    BY <1>3, NowhereAssumption DEF WroteOf, SeenBy
  <1>6. ViewOf(u, r) = Nowhere /\ StoreOf(r) = Nowhere
    <2>1. Nowhere \notin Visible(u) /\ Nowhere \notin Committed
      BY NowhereAssumption DEF Base, TypeOK, Visible, Committed
    <2>. QED
      BY <1>3, <2>1 DEF ViewOf, StoreOf, ReadBy
  <1>7. r \in WroteOf(u)' /\ ViewOf(u, r)' = v
    BY <1>2, <1>4
       DEF Working, WroteOf, ViewOf, NewRow, ReadBy, SeenBy, Visible
  <1>. QED
    BY <1>2, <1>4, <1>5, <1>6, <1>7, WorkingWrites

(* A row reads as its last version to those who see that version. *)
LEMMA ReadByLast ==
    ASSUME NEW x \in RowRecord, NEW S, x.ins \in S, x.upd # <<>>,
           x.upd[Len(x.upd)].by \in S
    PROVE  ReadBy(x, S) = x.upd[Len(x.upd)].val
  <1>. DEFINE seen == SeenBy(x, S)
  <1>1. /\ Len(x.upd) \in Nat
        /\ DOMAIN x.upd = 1..Len(x.upd)
        /\ seen \subseteq 1..Len(x.upd)
    BY SeenPositions
  <1>2. x.upd \in Seq(Version)
    BY DEF RowRecord
  <1>3. Len(x.upd) \in DOMAIN x.upd
    BY <1>2
  <1>4. Len(x.upd) \in seen
    BY <1>3 DEF SeenBy
  <1>5. seen \in SUBSET Nat /\ \A j \in seen : j <= Len(x.upd)
    BY <1>1
  <1>6. Newest(seen) = Len(x.upd)
    BY <1>4, <1>5, NewestIs
  <1>. QED
    BY <1>4, <1>6 DEF ReadBy

LEMMA AddedLast ==
    ASSUME NEW old \in Seq(Version), NEW u \in Txn, NEW v \in Datum
    PROVE  LET new == AddVersion(old, u, v)
           IN  /\ new # <<>>
               /\ Len(new) \in DOMAIN new
               /\ new[Len(new)] = [by |-> u, val |-> v]
  <1>. DEFINE w == [by |-> u, val |-> v]
  <1>1. w \in Version
    BY DEF Version
  <1>2. CASE old # <<>> /\ old[Len(old)].by = u
    <2>1. AddVersion(old, u, v) = [old EXCEPT ![Len(old)] = w]
      BY <1>2 DEF AddVersion
    <2>. QED
      BY <1>1, <1>2, <2>1
  <1>3. CASE ~(old # <<>> /\ old[Len(old)].by = u)
    <2>1. AddVersion(old, u, v) = Append(old, w)
      BY <1>3 DEF AddVersion
    <2>. QED
      BY <1>1, <2>1
  <1>. QED
    BY <1>2, <1>3

LEMMA WroteWrites ==
    ASSUME Base, TypeOK', NEW u \in Txn, Framed(u), Wrote(u)
    PROVE  \E r \in Row : Snapshot!SWrite(u, r)
  <1>1. PICK r \in Row, v \in Datum :
           /\ row[r].home # Nowhere
           /\ row[r].ins \in Visible(u)
           /\ Seen(row[r], u) = DOMAIN row[r].upd
           /\ row' = [row EXCEPT ![r].upd = AddVersion(row[r].upd, u, v)]
    BY DEF Wrote
  <1>2. Working(u) /\ ~Finished(u) /\ ~Finished(u)' /\ snap' = snap
    BY DEF Wrote, Working
  <1>. DEFINE x == row[r]
              new == AddVersion(x.upd, u, v)
  <1>3. /\ x \in RowRecord /\ x.upd \in Seq(Version) /\ Chained(x)
        /\ row \in [Row -> RowRecord]
    BY RowTypes DEF Base, TypeOK
  <1>4. /\ row'[r].ins = x.ins /\ row'[r].upd = new
        /\ row'[r] \in RowRecord
        /\ \A q \in Row \ {r} : row'[q] = row[q]
    BY <1>1, <1>3 DEF TypeOK, RowRecord
  <1>5. /\ new # <<>>
        /\ Len(new) \in DOMAIN new
        /\ new[Len(new)] = [by |-> u, val |-> v]
    BY <1>3, AddedLast
  <1>6. /\ \A w \in snap[u] : w \in Txn /\ pc[w] = "committed"
        /\ \A i \in DOMAIN x.upd : x.upd[i].by \in snap[u] \cup {u}
        /\ x.ins \in snap[u] \cup {u}
    BY <1>1 DEF Base, TypeOK, SnapshotsCommitted, Seen, Visible
  <1>7. ASSUME NEW t \in Txn \ {u} PROVE r \notin WroteOf(t)
    BY <1>6 DEF WroteOf, SeenBy, Finished
  <1>8. r \in WroteOf(u) \/ ViewOf(u, r) = StoreOf(r)
    <2>. SUFFICES ASSUME r \notin WroteOf(u)
                  PROVE  ViewOf(u, r) = StoreOf(r)
      OBVIOUS
    <2>1. x.ins # u /\ \A i \in DOMAIN x.upd : x.upd[i].by # u
      BY <1>2 DEF WroteOf, SeenBy
    <2>2. /\ x.ins \in Visible(u) /\ x.ins \in Committed
          /\ SeenBy(x, Visible(u)) = DOMAIN x.upd
          /\ SeenBy(x, Committed) = DOMAIN x.upd
      BY <1>6, <2>1 DEF Visible, Committed, SeenBy
    <2>3. ReadBy(x, Visible(u)) = ReadBy(x, Committed)
      BY <1>3, <2>2, ReadBySame
    <2>. QED
      BY <1>2, <2>3 DEF ViewOf, StoreOf
  <1>9. r \in WroteOf(u)'
    BY <1>2, <1>4, <1>5 DEF WroteOf, SeenBy
  <1>10. ViewOf(u, r)' = v
    <2>1. row'[r].ins \in Visible(u) /\ u \in Visible(u)
      BY <1>1, <1>4 DEF Visible
    <2>2. ReadBy(row'[r], Visible(u)) = v
      BY <1>4, <1>5, <2>1, ReadByLast
    <2>. QED
      BY <1>2, <2>2 DEF ViewOf, Visible, ReadBy, SeenBy
  <1>. QED
    BY <1>2, <1>4, <1>7, <1>8, <1>9, <1>10, WorkingWrites

(* A row that LocalStorage::Flush moves into the table reads as before. *)
LEMMA FlushedStutters ==
    ASSUME Base, NEW u \in Txn, Framed(u), Flushed(u)
    PROVE  UNCHANGED Snapshot!svars
  <1>1. PICK r \in RowsOf(u), v \in Datum, c \in Col :
           /\ Reads(row[r], u, v)
           /\ row' = [row EXCEPT ![r] = NewRow(u, c, v)]
    BY DEF Flushed
  <1>2. /\ Working(u) /\ ~Finished(u) /\ ~Finished(u)' /\ snap' = snap
        /\ pc[u] # "pruned" /\ pc'[u] # "pruned"
    BY DEF Flushed, Working
  <1>3. r \in Row /\ row[r] \in RowRecord /\ row[r].ins = u
    BY LocalRows DEF Base, TypeOK, RowsOf
  <1>4. /\ row'[r] = NewRow(u, c, v)
        /\ \A q \in Row \ {r} : row'[q] = row[q]
    BY <1>1, <1>3 DEF Base, TypeOK
  <1>5. ViewOf(u, r) = v /\ ViewOf(u, r)' = v
    <2>1. u \in Visible(u)
      BY DEF Visible
    <2>2. ReadBy(row[r], Visible(u)) = v
      BY <1>1, <1>3, <2>1, ReadsIsReadBy
    <2>3. ViewOf(u, r)' = v
      BY <1>2, <1>4 DEF ViewOf, Visible, NewRow, ReadBy, SeenBy
    <2>. QED
      BY <1>2, <2>2, <2>3 DEF ViewOf
  <1>6. \A q \in Row \ {r} : ViewOf(u, q)' = ViewOf(u, q)
    BY <1>2, <1>4 DEF ViewOf, Visible, ReadBy, SeenBy
  <1>7. \A q \in Row : ViewOf(u, q)' = ViewOf(u, q)
    BY <1>5, <1>6
  <1>8. WroteOf(u)' = WroteOf(u)
    <2>1. row'[r].ins = u
      BY <1>4 DEF NewRow
    <2>. QED
      BY <1>2, <1>3, <1>4, <2>1 DEF WroteOf, SeenBy
  <1>9. PhaseOf(u)' = PhaseOf(u) /\ SkipOf(u)' = SkipOf(u)
    BY <1>2 DEF PhaseOf, SkipOf
  <1>10. stores' = stores
    BY <1>2 DEF Framed, Finished
  <1>. QED
    BY <1>7, <1>8, <1>9, <1>10, Unmoved DEF Snapshot!svars

LEMMA Ends ==
    ASSUME NEW u \in Txn, Framed(u), ~Finished(u), pc[u] # "pruned",
           NEW label \in {"committed", "aborted"}, pc'[u] = label
    PROVE  Snapshot!SEnd(u, label)
  <1>1. phases[u] = "active" /\ skips[u] = NoJob
    BY DEF phases, PhaseOf, skips, SkipOf
  <1>2. PhaseOf(u)' = label /\ WroteOf(u)' = {} /\ SkipOf(u)' = SkipOf(u)
    BY DEF PhaseOf, WroteOf, SkipOf, Finished
  <1>3. views' = [views EXCEPT ![u] = Snapshot!Empty]
    <2>1. views'[u] = Snapshot!Empty
      BY DEF views, ViewOf, Finished, Snapshot!Empty
    <2>2. views' = [views EXCEPT ![u] = views'[u]]
      BY DEF Framed, views
    <2>. QED
      BY <2>1, <2>2
  <1>. QED
    BY <1>1, <1>2, <1>3, Unmoved DEF Framed, Snapshot!SEnd

(* The store after a commit: the rows the transaction has written, as it read
   them, and the others as they were.                                        *)
LEMMA CommittingCommits ==
    ASSUME Base, NEW u \in Txn, Framed(u), Others(u), Committing(u)
    PROVE  Snapshot!SCommit(u)
  <1>1. /\ ~Finished(u) /\ pc[u] \notin {"pruned", "committed"}
        /\ pc'[u] = "committed" /\ row' = row
    BY DEF Committing, Finished
  <1>2. Committed' = Committed \cup {u}
    BY <1>1 DEF Committed, Others
  <1>3. ASSUME NEW r \in Row
        PROVE  stores'[r] = IF r \in WroteOf(u)
                            THEN ViewOf(u, r)
                            ELSE StoreOf(r)
    <2>. DEFINE x == row[r]
                S == Committed \cup {u}
    <2>1. x \in RowRecord /\ x.upd \in Seq(Version) /\ Chained(x)
      BY RowTypes DEF Base
    <2>2. stores'[r] = ReadBy(x, S)
      BY <1>1, <1>2 DEF stores, StoreOf, ReadBy, SeenBy
    <2>3. ViewOf(u, r) = ReadBy(x, Visible(u))
      BY <1>1 DEF ViewOf
    <2>4. CASE x.ins = u
      <3>1. \A i \in DOMAIN x.upd : x.upd[i].by = u
        BY <1>1, <2>1, <2>4 DEF Chained
      <3>2. /\ u \in S /\ u \in Visible(u)
            /\ SeenBy(x, S) = DOMAIN x.upd
            /\ SeenBy(x, Visible(u)) = DOMAIN x.upd
        BY <3>1 DEF SeenBy, Visible
      <3>3. ReadBy(x, S) = ReadBy(x, Visible(u))
        BY <2>1, <2>4, <3>2, ReadBySame
      <3>4. r \in WroteOf(u)
        BY <1>1, <2>4 DEF WroteOf
      <3>. QED
        BY <2>2, <2>3, <3>3, <3>4
    <2>5. CASE x.ins # u /\ SeenBy(x, {u}) # {}
      <3>1. PICK i \in DOMAIN x.upd : x.upd[i].by = u
        BY <2>5 DEF SeenBy
      <3>2. /\ i = Len(x.upd)
            /\ x.ins \in Visible(u)
            /\ x.ins \in Txn /\ pc[x.ins] = "committed"
        BY <1>1, <2>1, <2>5, <3>1 DEF Chained
      <3>3. x.upd # <<>> /\ x.ins \in S /\ u \in S /\ u \in Visible(u)
        BY <2>1, <3>1, <3>2 DEF Committed, Visible
      <3>4. ReadBy(x, S) = x.upd[Len(x.upd)].val
        BY <2>1, <3>1, <3>2, <3>3, ReadByLast
      <3>5. ReadBy(x, Visible(u)) = x.upd[Len(x.upd)].val
        BY <2>1, <3>1, <3>2, <3>3, ReadByLast
      <3>6. r \in WroteOf(u)
        BY <1>1, <2>5 DEF WroteOf
      <3>. QED
        BY <2>2, <2>3, <3>4, <3>5, <3>6
    <2>6. CASE x.ins # u /\ SeenBy(x, {u}) = {}
      <3>1. r \notin WroteOf(u)
        BY <1>1, <2>6 DEF WroteOf
      <3>2. \A i \in DOMAIN x.upd : x.upd[i].by # u
        BY <2>6 DEF SeenBy
      <3>3. SeenBy(x, S) = SeenBy(x, Committed)
        BY <3>2 DEF SeenBy
      <3>4. ReadBy(x, S) = ReadBy(x, Committed)
        BY <2>1, <2>6, <3>3, ReadBySame
      <3>. QED
        BY <2>2, <3>1, <3>4 DEF StoreOf
    <2>. QED
      BY <2>4, <2>5, <2>6
  <1>4. stores' = [r \in Row |-> IF r \in writes[u]
                                 THEN views[u][r]
                                 ELSE stores[r]]
    <2>1. /\ stores' = [r \in Row |-> stores'[r]]
          /\ \A r \in Row : stores[r] = StoreOf(r)
          /\ writes[u] = WroteOf(u)
          /\ \A r \in Row : views[u][r] = ViewOf(u, r)
      BY DEF stores, writes, views
    <2>. QED
      BY <1>3, <2>1
  <1>5. Snapshot!SEnd(u, "committed")
    BY <1>1, Ends
  <1>. QED
    BY <1>4, <1>5 DEF Snapshot!SCommit

LEMMA AbortingAborts ==
    ASSUME NEW u \in Txn, Framed(u), Aborting(u)
    PROVE  Snapshot!SAbort(u)
  <1>1. Snapshot!SEnd(u, "aborted")
    BY Ends DEF Aborting
  <1>2. stores' = stores
    BY DEF Framed, Aborting
  <1>. QED
    BY <1>1, <1>2 DEF Snapshot!SAbort

(* What a scan leaves out it does not look for: that is PruneSound. *)
LEMMA PrunedSkips ==
    ASSUME Base, NEW u \in Txn, Framed(u), Pruned(u), PruneSound'
    PROVE  \E rows \in SUBSET Row, want \in SUBSET Datum :
              Snapshot!SSkip(u, rows, want)
  <1>1. /\ ~Finished(u) /\ ~Finished(u)'
        /\ pc[u] # "pruned" /\ pc'[u] = "pruned"
        /\ snap' = snap /\ job' = job /\ row' = row
    BY DEF Pruned, Finished
  <1>. DEFINE rows == VisibleRows(job[u].c, u)
              want == job[u].vals
  <1>2. rows \in SUBSET Row /\ want \in SUBSET Datum
    BY DEF Base, TypeOK, Job, VisibleRows, RowsAt
  <1>3. phases[u] = "active" /\ skips[u] = NoJob
    BY <1>1 DEF phases, PhaseOf, skips, SkipOf
  <1>4. skips' = [skips EXCEPT ![u] = [rows |-> rows, want |-> want]]
    <2>1. skips'[u] = [rows |-> rows, want |-> want]
      BY <1>1 DEF skips, SkipOf, VisibleRows, RowsAt, Visible
    <2>2. skips' = [skips EXCEPT ![u] = skips'[u]]
      BY DEF Framed, skips
    <2>. QED
      BY <2>1, <2>2
  <1>5. ASSUME NEW r \in rows PROVE views[u][r] \notin want
    <2>1. r \in Row /\ row[r] \in RowRecord /\ row[r].ins \in Visible(u)
      BY DEF Base, TypeOK, VisibleRows, RowsAt
    <2>2. Missed(u) = {}
      BY <1>1 DEF PruneSound, Missed, VisibleRows, RowsAt, Reads, Seen, Visible
    <2>3. \A v \in want : ~Reads(row[r], u, v)
      BY <2>1, <2>2 DEF Missed
    <2>4. \A v \in want : v # ReadBy(row[r], Visible(u))
      BY <2>1, <2>3, ReadsIsReadBy
    <2>5. views[u][r] = ReadBy(row[r], Visible(u))
      BY <1>1, <2>1 DEF views, ViewOf
    <2>. QED
      BY <2>4, <2>5
  <1>6. /\ PhaseOf(u)' = PhaseOf(u)
        /\ \A r \in Row : ViewOf(u, r)' = ViewOf(u, r)
        /\ WroteOf(u)' = WroteOf(u)
    BY <1>1, SameReads
  <1>7. phases' = phases /\ views' = views /\ writes' = writes
    BY <1>6, Unmoved
  <1>8. stores' = stores
    BY <1>1 DEF Framed
  <1>9. Snapshot!SSkip(u, rows, want)
    BY <1>3, <1>4, <1>5, <1>7, <1>8 DEF Snapshot!SSkip
  <1>. QED
    BY <1>2, <1>9

LEMMA ResumedEnds ==
    ASSUME NEW u \in Txn, Framed(u), Resumed(u)
    PROVE  Snapshot!SScanEnd(u)
  <1>1. /\ ~Finished(u) /\ ~Finished(u)'
        /\ pc[u] = "pruned" /\ pc'[u] = "ready"
        /\ snap' = snap /\ row' = row
    BY DEF Resumed, Finished
  <1>2. skips[u] # NoJob
    <2>1. \A a, b : [rows |-> a, want |-> b] # NoJob
      <3>1. \A a, b : "c" \notin DOMAIN [rows |-> a, want |-> b]
        OBVIOUS
      <3>2. "c" \in DOMAIN NoJob
        BY DEF NoJob
      <3>. QED
        BY <3>1, <3>2
    <2>. QED
      BY <1>1, <2>1 DEF skips, SkipOf
  <1>3. /\ PhaseOf(u)' = PhaseOf(u)
        /\ \A r \in Row : ViewOf(u, r)' = ViewOf(u, r)
        /\ WroteOf(u)' = WroteOf(u)
    BY <1>1, SameReads
  <1>4. phases' = phases /\ views' = views /\ writes' = writes
    BY <1>3, Unmoved
  <1>5. stores' = stores /\ SkipOf(u)' = NoJob
    BY <1>1 DEF Framed, SkipOf
  <1>6. skips' = [skips EXCEPT ![u] = NoJob]
    BY <1>5 DEF Framed
  <1>. QED
    BY <1>2, <1>4, <1>5, <1>6 DEF Snapshot!SScanEnd

LEMMA ShapeImplements ==
    ASSUME Base, TypeOK', PruneSound', NEW u \in Txn, Shape(u)
    PROVE  [Snapshot!SNext]_(Snapshot!svars)
  <1>1. Framed(u) /\ Others(u)
    BY ShapeFramed DEF Shape
  <1>2. CASE Quiet(u)
    BY <1>1, <1>2, QuietStutters
  <1>3. CASE Began(u)
    BY <1>1, <1>3, BeganBegins DEF Snapshot!SNext
  <1>4. CASE Inserted(u)
    BY <1>1, <1>4, InsertedWrites DEF Snapshot!SNext
  <1>5. CASE Wrote(u)
    BY <1>1, <1>5, WroteWrites DEF Snapshot!SNext
  <1>6. CASE Flushed(u)
    BY <1>1, <1>6, FlushedStutters
  <1>7. CASE Committing(u)
    BY <1>1, <1>7, CommittingCommits DEF Snapshot!SNext
  <1>8. CASE Aborting(u)
    BY <1>1, <1>8, AbortingAborts DEF Snapshot!SNext
  <1>9. CASE Pruned(u)
    BY <1>1, <1>9, PrunedSkips DEF Snapshot!SNext
  <1>10. CASE Resumed(u)
    BY <1>1, <1>10, ResumedEnds DEF Snapshot!SNext
  <1>. QED
    BY <1>2, <1>3, <1>4, <1>5, <1>6, <1>7, <1>8, <1>9, <1>10 DEF Shape

-------------------------------------------------------------------------------
(* The theorem. *)

LEMMA InitImplements == Init => Snapshot!SInit
  <1>. SUFFICES ASSUME Init PROVE Snapshot!SInit
    OBVIOUS
  <1>1. /\ \A t \in Txn : pc[t] = "idle" /\ Finished(t)
        /\ \A r \in Row : row[r] = NoRow
    BY DEF Init, Finished
  <1>2. phases = [t \in Txn |-> "idle"]
    BY <1>1 DEF phases, PhaseOf
  <1>3. stores = Snapshot!Empty
    <2>1. Nowhere \notin Committed
      BY NowhereAssumption DEF Committed
    <2>. QED
      BY <1>1, <2>1 DEF stores, StoreOf, ReadBy, NoRow, Snapshot!Empty
  <1>4. views = [t \in Txn |-> Snapshot!Empty]
    BY <1>1 DEF views, ViewOf, Snapshot!Empty
  <1>5. writes = [t \in Txn |-> {}] /\ skips = [t \in Txn |-> NoJob]
    BY <1>1 DEF writes, WroteOf, skips, SkipOf
  <1>. QED
    BY <1>2, <1>3, <1>4, <1>5 DEF Snapshot!SInit

(* Transactions on a table with additional statistics cannot be told from
   transactions on a store with snapshots and no statistics: what they read is
   not changed by the two ways LocalStorage::Flush takes, nor by updates in
   place and their undoing, and a scan skips nothing it looks for.  This holds
   while the database is not opened again, for the kinds whose empty form
   rules nothing out.                                                        *)
THEOREM Isolation ==
    ASSUME ~EmptyPrunes, "reopens" \notin Workload
    PROVE  Spec => SnapshotIsolation
  <1>1. Init => Snapshot!SInit
    BY InitImplements
  <1>2. ASSUME IInv, IInv', Chains, PruneSound', [Next]_vars
        PROVE  [Snapshot!SNext]_(Snapshot!svars)
    <2>1. Base /\ TypeOK'
      BY <1>2, ChainsAre DEF Base, IInv
    <2>2. CASE Next
      <3>1. ~Reopen /\ ~Alter
        BY DEF Reopen, Alter
      <3>. QED
        BY <1>2, <2>1, <2>2, <3>1, NextShape, ShapeImplements DEF Base
    <2>3. CASE UNCHANGED vars
      BY <2>3 DEF vars, Snapshot!svars, phases, PhaseOf, Finished, stores,
                  StoreOf, Committed, views, ViewOf, Visible, writes, WroteOf,
                  skips, SkipOf, VisibleRows, RowsAt, ReadBy, SeenBy
    <2>. QED
      BY <1>2, <2>2, <2>3
  <1>3. Spec => []IInv
    BY Invariant
  <1>4. Spec => []Chains
    BY ChainsInvariant
  <1>5. Spec => []PruneSound
    BY PruningSound
  <1>. QED
    BY <1>1, <1>2, <1>3, <1>4, <1>5, PTL
       DEF Spec, SnapshotIsolation, Snapshot!SSpec
===============================================================================
