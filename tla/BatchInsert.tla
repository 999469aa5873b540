----------------------------- MODULE BatchInsert -----------------------------
(***************************************************************************)
(* PhysicalBatchInsert: INSERT ... SELECT by several pipeline tasks whose  *)
(* rows must end up in the order of the source.                            *)
(*                                                                         *)
(* The source hands out numbered batches.  A task collects the rows of a   *)
(* batch in a row group collection of its own, hands the collection to the *)
(* global state at the next batch, and small adjacent collections are      *)
(* merged by whichever task has time.  A task whose batch is not the       *)
(* minimum one waits when unmerged collections take too much memory.  At   *)
(* its end a task builds the statistics of the row group it appended to    *)
(* last (FinishInitialiseStats).                                           *)
(*                                                                         *)
(* A row is abstracted to the batch it came from, a collection to the      *)
(* chunks in it; a collection is named after the batch that opened it.     *)
(* Memory is counted in rows.                                              *)
(***************************************************************************)
EXTENDS Integers, FiniteSets, SequencesExt

CONSTANTS
    Inputs,         \* the statements: for every batch of the source, the number
                    \* of chunks the filters leave of it and the rows of a
                    \* chunk; and the number of tasks that MaxThreads allows
    RowGroupSize,   \* row_group_size, in rows
    Memory,         \* available_memory at the start
    MemoryCap       \* request_cap: a quarter of the memory of the query

ASSUME InputsAssumption ==
    \A i \in Inputs : /\ i.chunks \in Seq(Nat) /\ i.rows \in Seq(Nat \ {0})
                      /\ Len(i.chunks) = Len(i.rows)
                      /\ i.tasks \in Nat \ {0}
ASSUME SizesAssumption ==
    /\ RowGroupSize \in Nat /\ RowGroupSize >= 10
    /\ Memory \in Nat /\ MemoryCap \in Nat

VARIABLES
    input,          \* the input of this statement
    handed,         \* the batches the source has handed out
    active,         \* batch_indexes of the pipeline, by task
    pc,             \* where every task is
    lstate,         \* the local sink state of every task
    gstate,         \* the global sink state
    memory,         \* the BatchMemoryManager
    store,          \* optimistic_collections; <<>> is no collection (any more)
    table,          \* the rows in the local storage, once finalised
    thrown          \* the internal exceptions thrown

vars == <<input, handed, active, pc, lstate, gstate, memory, store, table,
          thrown>>

-------------------------------------------------------------------------------
(* Batches are numbered from 1; 0 is base_batch_index, where tasks start, and
   also no collection and no batch.                                          *)
Batches == Len(input.chunks)

Task == 1..input.tasks

Batch == 1..Batches

MaxBatchIndex == Batches + 1

Unregistered == -1

NoWork == [batch |-> 0, colls |-> <<>>, memory |-> 0]

Rows(chunks) == SumFunction([i \in DOMAIN chunks |-> input.rows[chunks[i]]])

Contents(colls) ==
    FlattenSeq([i \in DOMAIN colls |-> IF colls[i] = 0 THEN <<>>
                                       ELSE store[colls[i]]])

(* The memory of a set of entries, or of a set of merge tasks. *)
SumOf(S) == SumFunction([e \in S |-> e.memory])

Control ==
    {"start", "fetch",
     "add", "wake", "moved", "index",   \* NextBatch
     "drain", "merge", "publish",       \* ExecuteTasks
     "sink", "memory", "wait", "blocked", "append",
     "stats", "combine", "done"}

Work == [batch : 0..Batches, colls : Seq(Batch), memory : Nat]

Entry == [batch : Batch, rows : Nat, memory : Nat, coll : 0..Batches,
          flushed : BOOLEAN]

LocalState ==
    [batch : 0..MaxBatchIndex,      \* partition_info.batch_index
     min : 0..MaxBatchIndex,        \* partition_info.min_batch_index
     current : 0..MaxBatchIndex,    \* current_index
     coll : 0..Batches,             \* collection_index
     tail : 0..Batches,             \* the collection of
                                    \* row_group_append_state.row_group
     left : Nat,                    \* chunks of the batch yet to be sunk
     work : Work,                   \* the merge task it executes
     back : {"index", "wait"}]      \* where it called ExecuteTasks

GlobalState ==
    [entries : Seq(Entry),          \* collections
     nextStart : Nat,               \* next_start
     queue : Seq(Work),             \* the BatchTaskManager
     written : BOOLEAN,             \* optimistically_written
     count : Nat]                   \* insert_count

TypeOK ==
    /\ input \in Inputs
    /\ handed \in 0..Batches
    /\ active \in [Task -> {Unregistered} \cup 0..MaxBatchIndex]
    /\ pc \in [Task -> Control]
    /\ lstate \in [Task -> LocalState]
    /\ gstate \in GlobalState
    /\ memory \in [used : Nat, available : Nat, mayGrow : BOOLEAN,
                   min : 0..MaxBatchIndex]
    /\ store \in [Batch -> Seq(Batch)]
    /\ table \in Seq(Batch)

-------------------------------------------------------------------------------
Goto(t, label) == pc' = [pc EXCEPT ![t] = label]

Require(holds, exception) ==
    thrown' = IF holds THEN thrown ELSE thrown \cup {exception}

(* UnblockTasks: every blocked task is scheduled again; t goes on at label.   *)
UnblockAll(t, label) ==
    pc' = [u \in Task |-> IF u = t THEN label
                          ELSE IF pc[u] = "blocked" THEN "sink" ELSE pc[u]]

(* Faulty variant of RaiseMinimum: nobody is woken up. *)
RaiseMinimumQuietly(t, min, label) ==
    /\ memory' = [memory EXCEPT !.min = IF min > @ THEN min ELSE @]
    /\ Goto(t, label)

(* UpdateMinBatchIndex(min), which unblocks on an increase. *)
RaiseMinimum(t, min, label) ==
    /\ memory' = [memory EXCEPT !.min = IF min > @ THEN min ELSE @]
    /\ IF min > memory.min THEN UnblockAll(t, label) ELSE Goto(t, label)

-------------------------------------------------------------------------------
(* The pipeline and its batch indexes. *)

Registered == {t \in Task : active[t] # Unregistered}

Minimum(indexes) == Min({indexes[t] : t \in Task} \ {Unregistered})

(* PipelineExecutor: RegisterNewBatchIndex. *)
Register(t) ==
    /\ pc[t] = "start"
    /\ LET min == IF Registered = {} THEN 0 ELSE Minimum(active)
       IN  /\ active' = [active EXCEPT ![t] = min]
           /\ lstate' = [lstate EXCEPT ![t].batch = min, ![t].min = min]
    /\ Goto(t, "fetch")
    /\ UNCHANGED <<input, handed, gstate, memory, store, table, thrown>>

(* The source hands the next batch to the task, or has no more. *)
Fetch(t) ==
    /\ pc[t] = "fetch"
    /\ LET more == handed < Batches
           index == IF more THEN handed + 1 ELSE MaxBatchIndex
       IN  /\ handed' = IF more THEN handed + 1 ELSE handed
           /\ lstate' = [lstate EXCEPT
                            ![t].batch = index,
                            ![t].left = IF more THEN input.chunks[index] ELSE 0]
           /\ Require(lstate[t].batch <= index, "gotten lower batch index")
           /\ Goto(t, IF lstate[t].batch = index THEN "stats"
                      ELSE IF lstate[t].coll = 0 THEN "moved" ELSE "add")
    /\ UNCHANGED <<input, active, gstate, memory, store, table>>

(* Faulty variant of UpdateBatchIndex: the minimum is taken to be the task's own
   index.                                                                    *)
UpdateBatchIndexOwn(t) ==
    /\ pc[t] = "index"
    /\ LET index == lstate[t].batch
       IN  /\ active' = [active EXCEPT ![t] = index]
           /\ lstate' = [lstate EXCEPT ![t].min = index]
           /\ Goto(t, IF index = MaxBatchIndex THEN "stats"
                      ELSE IF lstate[t].left > 0 THEN "sink" ELSE "fetch")
    /\ UNCHANGED <<input, handed, gstate, memory, store, table, thrown>>

(* After the sink's NextBatch: UpdateBatchIndex. *)
UpdateBatchIndex(t) ==
    /\ pc[t] = "index"
    /\ LET index == lstate[t].batch
       IN  /\ Require(index >= Minimum(active), "previous min batch index")
           /\ active' = [active EXCEPT ![t] = index]
           /\ lstate' = [lstate EXCEPT ![t].min = Minimum(active')]
           /\ Goto(t, IF index = MaxBatchIndex THEN "stats"
                      ELSE IF lstate[t].left > 0 THEN "sink" ELSE "fetch")
    /\ UNCHANGED <<input, handed, gstate, memory, store, table>>

-------------------------------------------------------------------------------
(* NextBatch: the collection of the last batch goes to the global state. *)

(* "so the count fits nicely into row groups" *)
ReadyToMerge(count) ==
    LET tenth == RowGroupSize \div 10
    IN  \/ \E k \in 1..3 : 9 * k * tenth <= count /\ count <= k * RowGroupSize
        \/ count >= 36 * tenth

(* Faulty variant of Examined: batches behind the minimum are merged too. *)
ExaminedAll(entries, min) == {i \in DOMAIN entries : i > gstate.nextStart}

(* The entries not examined before, up to the minimum batch. *)
Examined(entries, min) ==
    {i \in DOMAIN entries : /\ i > gstate.nextStart
                            /\ \A j \in (gstate.nextStart + 1)..i :
                                  entries[j].batch <= min}

(* One entry of the walk over them: a flushed entry ends the run of entries to
   merge, and moves next_start behind it; other entries extend the run until
   it is worth merging.  (The loop also tests the run it is left with, which
   was not ready when it last grew and so is not now.)                       *)
Walk(entries, walk, i) ==
    LET rows == walk.rows + entries[i].rows
        run == [first |-> walk.first, last |-> i]
    IN  IF entries[i].flushed
        THEN [runs |-> IF walk.rows > 0
                       THEN Append(walk.runs, [run EXCEPT !.last = i - 1])
                       ELSE walk.runs,
              first |-> i + 1, rows |-> 0, next |-> i]
        ELSE IF ReadyToMerge(rows)
        THEN [walk EXCEPT !.runs = Append(@, run), !.first = i + 1, !.rows = 0]
        ELSE [walk EXCEPT !.rows = rows]

Runs(entries, min) ==
    LET last == gstate.nextStart + Cardinality(Examined(entries, min))
        walk[i \in gstate.nextStart..last] ==
            IF i = gstate.nextStart
            THEN [runs |-> <<>>, first |-> i + 1, rows |-> 0, next |-> i]
            ELSE Walk(entries, walk[i - 1], i)
    IN  walk[last]

(* Faulty variant of MergeOf: the memory of the first collection only. *)
MergeOfFirst(entries, run) ==
    LET part == SubSeq(entries, run.first, run.last)
    IN  [batch |-> part[1].batch,
         colls |-> [i \in DOMAIN part |-> part[i].coll],
         memory |-> part[1].memory]

(* The merge task of a run: its collections in order. *)
MergeOf(entries, run) ==
    LET part == SubSeq(entries, run.first, run.last)
    IN  [batch |-> part[1].batch,
         colls |-> [i \in DOMAIN part |-> part[i].coll],
         memory |-> SumOf(ToSet(part))]

(* A run leaves its first entry, flushed and without a collection until the
   merge is done.  (Its total_rows, which nobody reads any more, is not kept.) *)
EntriesAfter(entries, runs) ==
    LET Heads == {runs[k].first : k \in DOMAIN runs}
        Erased == UNION {(runs[k].first + 1)..runs[k].last : k \in DOMAIN runs}
        Left(i) == IF i \in Erased THEN <<>>
                   ELSE IF i \in Heads
                   THEN <<[entries[i] EXCEPT !.coll = 0, !.flushed = TRUE]>>
                   ELSE <<entries[i]>>
    IN  FlattenSeq([i \in DOMAIN entries |-> Left(i)])

(* AddCollection and, under the same lock, ScheduleMergeTasks. *)
AddCollection(t) ==
    /\ pc[t] = "add"
    /\ LET l == lstate[t]
           rows == Rows(store[l.coll])
           flushed == rows >= RowGroupSize
           entry == [batch |-> l.current, rows |-> rows, coll |-> l.coll,
                     memory |-> IF flushed THEN 0 ELSE rows,
                     flushed |-> flushed]
           before == {i \in DOMAIN gstate.entries :
                         gstate.entries[i].batch < l.current}
           entries == InsertAt(gstate.entries, Cardinality(before) + 1, entry)
           walk == Runs(entries, l.min)
       IN  /\ thrown' = thrown
                \cup {x \in {"smaller than the min batch index"} :
                         l.current < l.min}
                \cup {x \in {"present in multiple collections"} :
                         \E e \in ToSet(gstate.entries) : e.batch = l.current}
                \cup {x \in {"should not be flushed"} :
                         \E k \in DOMAIN walk.runs :
                            \E i \in walk.runs[k].first..walk.runs[k].last :
                                entries[i].coll = 0 \/ entries[i].flushed}
           /\ memory' = [memory EXCEPT !.used = @ + entry.memory]
           /\ gstate' = [gstate EXCEPT
                            !.count = @ + rows,
                            !.entries = EntriesAfter(entries, walk.runs),
                            !.nextStart = walk.next,
                            !.queue = @ \o [k \in DOMAIN walk.runs |->
                                               MergeOf(entries, walk.runs[k])]]
    /\ Goto(t, "wake")
    /\ UNCHANGED <<input, handed, active, lstate, store, table>>

(* Faulty variant of WakeOrMerge: merging is left to tasks short of memory. *)
WakeOnly(t) ==
    /\ pc[t] = "wake"
    /\ UnblockAll(t, "moved")
    /\ lstate' = [lstate EXCEPT ![t].coll = 0]
    /\ UNCHANGED <<input, handed, active, gstate, memory, store, table, thrown>>

(* The task merges only if it has woken nobody up who could. *)
WakeOrMerge(t) ==
    /\ pc[t] = "wake"
    /\ UnblockAll(t, IF \E u \in Task : pc[u] = "blocked" THEN "moved" ELSE "drain")
    /\ lstate' = [lstate EXCEPT ![t].coll = 0, ![t].back = "index"]
    /\ UNCHANGED <<input, handed, active, gstate, memory, store, table, thrown>>

(* The end of NextBatch. *)
NextBatchEnd(t) ==
    /\ pc[t] = "moved"
    /\ UnblockAll(t, "index")
    /\ lstate' = [lstate EXCEPT ![t].current = lstate[t].batch]
    /\ UNCHANGED <<input, handed, active, gstate, memory, store, table, thrown>>

-------------------------------------------------------------------------------
(* ExecuteTasks, from NextBatch and from Sink. *)

(* Faulty variant of TakeTask: the task is not popped. *)
TakeTaskPeek(t) ==
    /\ pc[t] = "drain"
    /\ gstate.queue # <<>>
    /\ lstate' = [lstate EXCEPT ![t].work = Head(gstate.queue)]
    /\ Goto(t, "merge")
    /\ UNCHANGED <<input, handed, active, gstate, memory, store, table, thrown>>

TakeTask(t) ==
    /\ pc[t] = "drain"
    /\ gstate.queue # <<>>
    /\ lstate' = [lstate EXCEPT ![t].work = Head(gstate.queue)]
    /\ gstate' = [gstate EXCEPT !.queue = Tail(gstate.queue)]
    /\ Goto(t, "merge")
    /\ UNCHANGED <<input, handed, active, memory, store, table, thrown>>

NoTask(t) ==
    /\ pc[t] = "drain"
    /\ gstate.queue = <<>>
    /\ Goto(t, IF lstate[t].back = "index" THEN "moved" ELSE "wait")
    /\ UNCHANGED <<input, handed, active, lstate, gstate, memory, store, table,
                   thrown>>

(* MergeCollections, under no lock: all rows go to the first collection, the
   others are reset.                                                         *)
Merge(t) ==
    /\ pc[t] = "merge"
    /\ LET work == lstate[t].work
       IN  /\ gstate' = [gstate EXCEPT !.written = TRUE]
           /\ Require(memory.used >= work.memory, "usage below zero")
           /\ memory' = [memory EXCEPT !.used = @ - work.memory]
           /\ store' = [b \in Batch |->
                           IF b = work.colls[1] THEN Contents(work.colls)
                           ELSE IF b \in ToSet(work.colls) THEN <<>>
                           ELSE store[b]]
    /\ Goto(t, "publish")
    /\ UNCHANGED <<input, handed, active, lstate, table>>

(* Faulty variant of Publish: the entry does not get the collection. *)
PublishNothing(t) ==
    /\ pc[t] = "publish"
    /\ lstate' = [lstate EXCEPT ![t].work = NoWork]
    /\ Goto(t, "drain")
    /\ UNCHANGED <<input, handed, active, gstate, memory, store, table, thrown>>

(* MergeCollectionTask::Execute, under the lock again: the entry that waits
   for the merge gets the collection.                                        *)
Publish(t) ==
    /\ pc[t] = "publish"
    /\ LET work == lstate[t].work
           IsIts(e) == e.batch = work.batch
       IN  /\ Require(\E e \in ToSet(gstate.entries) : IsIts(e),
                      "Merged batch index was no longer present")
           /\ gstate' = [gstate EXCEPT !.entries =
                            [i \in DOMAIN @ |->
                                IF IsIts(@[i])
                                THEN [@[i] EXCEPT !.coll = work.colls[1]]
                                ELSE @[i]]]
    /\ lstate' = [lstate EXCEPT ![t].work = NoWork]
    /\ Goto(t, "drain")
    /\ UNCHANGED <<input, handed, active, memory, store, table>>

-------------------------------------------------------------------------------
(* Sink of one chunk, tried again from the start after the task was blocked. *)

SinkBegin(t) ==
    /\ pc[t] = "sink"
    /\ IF lstate[t].batch <= memory.min
       THEN Goto(t, "append") /\ UNCHANGED memory
       ELSE RaiseMinimum(t, lstate[t].min, "memory")
    /\ UNCHANGED <<input, handed, active, lstate, gstate, store, table, thrown>>

(* What IncreaseMemory can make of the memory: the request is for twice as
   much up to the cap, the reservation whatever the manager has to give, which
   may be less than before.  One that is no more ends the asking.             *)
Increased ==
    LET request == IF 2 * memory.available < MemoryCap
                   THEN 2 * memory.available ELSE MemoryCap
    IN  IF ~memory.mayGrow \/ request <= memory.available
        THEN {memory}
        ELSE {[memory EXCEPT !.available = next_reservation,
                             !.mayGrow = next_reservation > memory.available] :
                 next_reservation \in 1..request}

(* OutOfMemory: the minimum batch is never held up. *)
SinkCheckMemory(t) ==
    /\ pc[t] = "memory"
    /\ IF memory.used >= memory.available /\ lstate[t].batch > memory.min
       THEN \E increased \in Increased :
               /\ memory' = increased
               /\ Goto(t, IF increased.used >= increased.available
                          THEN "drain" ELSE "append")
       ELSE Goto(t, "append") /\ UNCHANGED memory
    /\ lstate' = [lstate EXCEPT ![t].back = "wait"]
    /\ UNCHANGED <<input, handed, active, gstate, store, table, thrown>>

(* Under the lock of the memory manager: BlockSink, unless the batch has become
   the minimum in the meantime.                                              *)
SinkWait(t) ==
    /\ pc[t] = "wait"
    /\ Goto(t, IF lstate[t].batch <= memory.min THEN "append" ELSE "blocked")
    /\ UNCHANGED <<input, handed, active, lstate, gstate, memory, store, table,
                   thrown>>

(* The chunk is appended, to a new collection if it is the first of a batch. *)
SinkAppend(t) ==
    /\ pc[t] = "append"
    /\ LET l == lstate[t]
           coll == IF l.coll = 0 THEN l.batch ELSE l.coll
       IN  /\ Require(l.current = l.batch, "NextBatch was not called")
           /\ store' = [store EXCEPT ![coll] = Append(@, l.batch)]
           /\ lstate' = [lstate EXCEPT ![t].coll = coll, ![t].tail = coll,
                                       ![t].left = l.left - 1]
           /\ Goto(t, IF l.left > 1 THEN "sink" ELSE "fetch")
    /\ UNCHANGED <<input, handed, active, gstate, memory, table>>

-------------------------------------------------------------------------------
(* The end of a task, and of the statement. *)

(* InitStats of the row group the append state points to; what it does to a
   row group is ColumnData's Built.                                          *)
FinishInitialiseStats(t) ==
    /\ pc[t] = "stats"
    /\ Goto(t, "combine")
    /\ UNCHANGED <<input, handed, active, lstate, gstate, memory, store, table,
                   thrown>>

(* Faulty variant of Combine: the minimum is not passed on. *)
CombineQuietly(t) ==
    /\ pc[t] = "combine"
    /\ UnblockAll(t, "done")
    /\ UNCHANGED <<input, handed, active, lstate, gstate, memory, store, table,
                   thrown>>

(* Combine, of a task that has exhausted its source and so has no collection
   left to add.                                                              *)
Combine(t) ==
    /\ pc[t] = "combine"
    /\ memory' = [memory EXCEPT !.min = IF lstate[t].min > @ THEN lstate[t].min
                                        ELSE @]
    /\ UnblockAll(t, "done")
    /\ UNCHANGED <<input, handed, active, lstate, gstate, store, table, thrown>>

Unflushed(entries) == SumOf({e \in ToSet(entries) : ~e.flushed})

(* Finalize, when every task is done.  A large insert merges the runs of small
   collections and moves all into the local storage, a small one appends all
   rows to it; in both cases in the order of the entries.                    *)
Finalize ==
    /\ \A t \in Task : pc[t] = "done"
    /\ table = <<>>
    /\ LET entries == gstate.entries
           large == gstate.written \/ gstate.count >= RowGroupSize
           flushed == \E e \in ToSet(entries) : e.flushed
       IN  /\ entries # <<>>
           /\ thrown' = thrown
                \cup {x \in {"Encountered a flushed batch"} : ~large /\ flushed}
                \cup {x \in {"access of an invalid index"} :
                         \E e \in ToSet(entries) : e.coll = 0}
                \cup {x \in {"memory usage is not zero"} :
                         memory.used # Unflushed(entries)}
           /\ table' = Contents([i \in DOMAIN entries |-> entries[i].coll])
           /\ memory' = [memory EXCEPT !.used = @ - Unflushed(entries)]
           /\ store' = [b \in Batch |-> <<>>]
           /\ gstate' = [gstate EXCEPT !.entries = <<>>]
    /\ UNCHANGED <<input, handed, active, pc, lstate>>

(* The statement is finished. *)
Finished == (\A t \in Task : pc[t] = "done") /\ gstate.entries = <<>>

-------------------------------------------------------------------------------
Init ==
    /\ input \in Inputs
    /\ handed = 0
    /\ active = [t \in Task |-> Unregistered]
    /\ pc = [t \in Task |-> "start"]
    /\ lstate = [t \in Task |-> [batch |-> 0, min |-> 0, current |-> 0,
                                 coll |-> 0, tail |-> 0, left |-> 0,
                                 work |-> NoWork, back |-> "index"]]
    /\ gstate = [entries |-> <<>>, nextStart |-> 0, queue |-> <<>>,
                 written |-> FALSE, count |-> 0]
    /\ memory = [used |-> 0, available |-> Memory, mayGrow |-> TRUE, min |-> 0]
    /\ store = [b \in Batch |-> <<>>]
    /\ table = <<>>
    /\ thrown = {}

Step(t) ==
    \/ Register(t)
    \/ Fetch(t)
    \/ AddCollection(t)
    \/ WakeOrMerge(t)
    \/ NextBatchEnd(t)
    \/ UpdateBatchIndex(t)
    \/ TakeTask(t)
    \/ NoTask(t)
    \/ Merge(t)
    \/ Publish(t)
    \/ SinkBegin(t)
    \/ SinkCheckMemory(t)
    \/ SinkWait(t)
    \/ SinkAppend(t)
    \/ FinishInitialiseStats(t)
    \/ Combine(t)

Next ==
    \/ \E t \in Task : Step(t)
    \/ Finalize

AnyTask == UNION {1..i.tasks : i \in Inputs}

Runnable(t) == t \in Task /\ pc[t] \notin {"blocked", "done"}

(* The scheduler keeps running every task that is not blocked: the weak
   fairness of Step(t), with its ENABLED spelled out as Runnable(t).          *)
Fairness ==
    /\ WF_vars(Finalize)
    /\ \A t \in AnyTask : \/ []<>~Runnable(t)
                           \/ []<><<Runnable(t) /\ Step(t)>>_vars

Spec == Init /\ [][Next]_vars /\ Fairness
-------------------------------------------------------------------------------
(* Properties. *)

(* None of the conditions for which the sink and the pipeline throw an
   InternalException can arise, whichever way the tasks are interleaved.     *)
NothingThrown == thrown = {}

Repeated(b) == [k \in 1..input.chunks[b] |-> b]

InSourceOrder == FlattenSeq([b \in Batch |-> Repeated(b)])

(* The table gets every row of the source once and in the order of the source,
   although tasks collect, merge and hand over batches in any order.         *)
InsertedInOrder == Finished => table = InSourceOrder

Jobs == ToSet(gstate.queue)
            \cup {lstate[t].work : t \in {u \in Task : pc[u] \in {"merge", "publish"}}}

(* An entry without a collection waits for exactly the merge that will bring
   it one, and no merge has lost its entry: a merge left over in the queue when
   the statement is finalised would lose its rows.                           *)
MergesAwaited ==
    {j.batch : j \in Jobs} =
        {e.batch : e \in {x \in ToSet(gstate.entries) : x.coll = 0}}

(* unflushed_memory_usage is what the entries and the merges to come account
   for, between any two steps of the tasks.                                  *)
MemoryAccounted ==
    memory.used =
        Unflushed(gstate.entries)
            + SumOf(ToSet(gstate.queue)
                        \cup {lstate[t].work : t \in {u \in Task : pc[u] = "merge"}})

(* The memory manager hears of the minimum from tasks that read it a while ago;
   still it never takes a batch for done that a task is working on.          *)
MinimumNotPassed ==
    \A t \in Registered : pc[t] # "done" => memory.min <= active[t]

(* No task sleeps on a batch that has become the minimum: whoever raises the
   minimum wakes up those it held back.                                      *)
NoLostWakeup ==
    \A t \in Task : pc[t] = "blocked" => lstate[t].batch > memory.min

(* Every INSERT comes to its end: tasks that wait for memory are always woken
   up by the task of the minimum batch.                                      *)
AlwaysFinishes == <>Finished

(* FinishInitialiseStats builds the statistics of "the current row_group we are
   appending to": one that still exists.                                     *)
StatsOfLiveRowGroup ==
    \A t \in Task :
        pc[t] = "stats" /\ lstate[t].tail # 0 => store[lstate[t].tail] # <<>>
===============================================================================
