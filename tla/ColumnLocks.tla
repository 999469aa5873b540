------------------------------ MODULE ColumnLocks ------------------------------
(***************************************************************************)
(* The locks around a statistic.  Every column data has update_lock and    *)
(* stats_lock, its update segment a lock and a stats_lock of its own, the  *)
(* table one stats_lock for the statistics of all columns, and map_mutex   *)
(* is one for all columns of all tables.  Threads nest them differently,   *)
(* and map_mutex is locked by hand: an exception leaves it locked.         *)
(*                                                                         *)
(* What is done under the locks is the subject of TableStats.  Here an     *)
(* operation is the sequence of the locks it takes, and a section in which *)
(* no other lock is waited for is one step.                                *)
(***************************************************************************)
EXTENDS Naturals, Sequences, SequencesExt, Relation

CONSTANTS
    Threads,    \* bound: each runs one operation
    Columns,    \* bound: the number of columns of the table
    Nobody      \* the owner of a lock that is free

VARIABLES
    operation,  \* what a thread runs
    todo,       \* the rest of its steps
    owner       \* who holds a lock

vars == <<operation, todo, owner>>

ASSUME LocksAssumption == Columns \in Nat \ {0} /\ Nobody \notin Threads

Column == 1..Columns

ColumnLock == {"update_lock", "stats_lock", "segment", "segment_stats"} \X Column

MapMutex == <<"map_mutex">>

TableLock == <<"table">>

Lock == ColumnLock \cup {MapMutex, TableLock}

-------------------------------------------------------------------------------
(* Steps, and the operations made of them *)

(* A section under a lock that waits for no other; in one that MayThrow an
   exception can end the operation.                                           *)
Pass(lock) == <<[do |-> "pass", lock |-> lock]>>

MayThrow(lock) == <<[do |-> "throw", lock |-> lock]>>

(* A lock_guard around other steps. *)
Guard(lock, steps) ==
    <<[do |-> "lock", lock |-> lock]>> \o steps
        \o <<[do |-> "unlock", lock |-> lock]>>

EachColumn(steps(_)) == FlattenSeq([column \in Column |-> steps(column)])

(* AppendTemp under the guard of ColumnData::Append. *)
ColumnAppend(column) == Guard(<<"stats_lock", column>>, Pass(MapMutex))

(* MergeIntoStatistics, or MergeStats of GetStatistics, under the lock of the
   statistics of the table.                                                   *)
MergeStats(columns) ==
    Guard(TableLock,
          FlattenSeq([i \in DOMAIN columns |-> Pass(<<"stats_lock", columns[i]>>)]))

(* ... of a chunk, which merges the statistics after the rows. *)
RowGroupAppend == EachColumn(ColumnAppend) \o MergeStats([column \in Column |-> column])

ColumnInitStats(column) ==
    Guard(<<"stats_lock", column>>, MayThrow(MapMutex))

InitStats == EachColumn(ColumnInitStats)

(* updates->Update throws on a conflict. *)
UpdateInternal(column) ==
    Guard(<<"update_lock", column>>,
          Guard(<<"segment", column>>, MayThrow(<<"segment_stats", column>>))
              \o Pass(<<"stats_lock", column>>))

Update(column) ==
    UpdateInternal(column)
        \o Pass(<<"segment_stats", column>>)    \* GetUpdateStatistics
        \o Pass(<<"stats_lock", column>>)       \* MergeStatistics
        \o MergeStats(<<column>>)

(* Faulty variant of CheckZonemap: the scope of the first guard is missing. *)
CheckZonemapNested(column) ==
    Guard(<<"stats_lock", column>>,
          Guard(<<"update_lock", column>>, Pass(<<"segment_stats", column>>)))

(* Faulty variant of CheckZonemap: the statistic is read under map_mutex. *)
CheckZonemapUnderMap(column) ==
    Pass(MapMutex)
        \o Guard(<<"update_lock", column>>, Pass(<<"segment_stats", column>>))

CheckZonemap(column) ==
    Pass(<<"stats_lock", column>>)
        \o Guard(<<"update_lock", column>>, Pass(<<"segment_stats", column>>))

RollbackUpdate(column) == Pass(<<"segment", column>>)

(* The optimizer's look at the statistics of the table. *)
CopyStats == Pass(TableLock)

Operation ==
    [name : {"Append", "InitStats", "CopyStats"}]
        \cup [name : {"Update", "CheckZonemap", "RollbackUpdate"}, column : Column]

Steps(op) ==
    CASE op.name = "Append" -> RowGroupAppend
      [] op.name = "InitStats" -> InitStats
      [] op.name = "CopyStats" -> CopyStats
      [] op.name = "Update" -> Update(op.column)
      [] op.name = "CheckZonemap" -> CheckZonemap(op.column)
      [] op.name = "RollbackUpdate" -> RollbackUpdate(op.column)

-------------------------------------------------------------------------------
Idle == [name |-> "none"]

Init ==
    /\ operation = [t \in Threads |-> Idle]
    /\ todo = [t \in Threads |-> <<>>]
    /\ owner = [l \in Lock |-> Nobody]

Begin(t) ==
    /\ operation[t] = Idle
    /\ \E op \in Operation :
          /\ operation' = [operation EXCEPT ![t] = op]
          /\ todo' = [todo EXCEPT ![t] = Steps(op)]
    /\ UNCHANGED owner

(* The next step of a thread is to do something with a lock. *)
About(t, do) == todo[t] # <<>> /\ Head(todo[t]).do = do

Wanted(t) == Head(todo[t]).lock

LockMutex(t) ==
    /\ About(t, "lock") /\ owner[Wanted(t)] = Nobody
    /\ owner' = [owner EXCEPT ![Wanted(t)] = t]
    /\ todo' = [todo EXCEPT ![t] = Tail(@)]
    /\ UNCHANGED operation

PassMutex(t) ==
    /\ About(t, "pass") \/ About(t, "throw")
    /\ owner[Wanted(t)] = Nobody
    /\ todo' = [todo EXCEPT ![t] = Tail(@)]
    /\ UNCHANGED <<operation, owner>>

UnlockMutex(t) ==
    /\ About(t, "unlock")
    /\ owner' = [owner EXCEPT ![Wanted(t)] = Nobody]
    /\ todo' = [todo EXCEPT ![t] = Tail(@)]
    /\ UNCHANGED operation

(* Faulty variant of Unwound: stats_lock is locked by hand as well. *)
UnwoundByHand(t) ==
    [l \in Lock |-> CASE l = MapMutex /\ Wanted(t) = l -> t
                      [] owner[l] = t /\ l[1] # "stats_lock" -> Nobody
                      [] OTHER -> owner[l]]

(* An exception releases what its thread holds by guards.  map_mutex, in whose
   section construct throws if the kind of the column is ERROR, stays locked. *)
Unwound(t) ==
    [l \in Lock |-> CASE l = MapMutex /\ Wanted(t) = l -> t
                      [] owner[l] = t -> Nobody
                      [] OTHER -> owner[l]]

Throw(t) ==
    /\ About(t, "throw") /\ owner[Wanted(t)] = Nobody
    /\ owner' = Unwound(t)
    /\ todo' = [todo EXCEPT ![t] = <<>>]
    /\ UNCHANGED operation

Step(t) == LockMutex(t) \/ PassMutex(t) \/ UnlockMutex(t) \/ Throw(t)

Next == \E t \in Threads : Begin(t) \/ Step(t)

(* A thread that waits for a mutex gets it if it stays free. *)
Spec == Init /\ [][Next]_vars /\ \A t \in Threads : WF_vars(Step(t))

-------------------------------------------------------------------------------
Ended(t) == operation[t] # Idle /\ todo[t] = <<>>

(* Thread u holds the lock that t needs next. *)
Blocks ==
    [u, t \in Threads |->
        todo[t] # <<>> /\ Head(todo[t]).do # "unlock" /\ owner[Wanted(t)] = u]

(* t waits, directly or behind others, for one that will never unlock
   map_mutex.                                                                 *)
Lost(t) ==
    \E u \in Threads :
        Ended(u) /\ owner[MapMutex] = u /\ TransitiveClosure(Blocks, Threads)[u, t]

(* Every variable has its type.  An operation that has ended holds no lock,
   except map_mutex after a statistic that can not be built.                  *)
TypeOK ==
    /\ operation \in [Threads -> Operation \cup {Idle}]
    /\ owner \in [Lock -> Threads \cup {Nobody}]
    /\ \A t \in Threads, l \in Lock :
          owner[l] = t /\ todo[t] = <<>> =>
              l = MapMutex /\ operation[t].name = "InitStats"

(* Appends, builds, updates, rollbacks and scans of the same columns never wait
   for each other in a circle, in whatever order they nest the locks: every
   operation ends, or waits behind an InitStats that threw.                   *)
OperationsEnd ==
    \A t \in Threads : operation[t] # Idle ~> Ended(t) \/ Lost(t)

(* What a statistic that can not be built does to scans: one that never ends
   is on a column that another thread was appending to, or building, when
   map_mutex was lost; scans of other columns go on.                          *)
ScanLostToItsColumn ==
    \A t \in Threads :
        operation[t].name = "CheckZonemap" /\ Lost(t) =>
            LET u == owner[<<"stats_lock", operation[t].column>>]
            IN  /\ u # Nobody
                /\ operation[u].name \in {"Append", "InitStats"}
                /\ Wanted(u) = MapMutex /\ Lost(u)
===============================================================================
