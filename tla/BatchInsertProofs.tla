--------------------------- MODULE BatchInsertProofs ---------------------------
(***************************************************************************)
(* PhysicalBatchInsert, for any number of tasks and batches, any chunks    *)
(* that the filters leave of them and any amount of memory.                *)
(*                                                                         *)
(* First the batch indexes: the minimum the memory manager works with is   *)
(* never ahead of a running task, and no task is left asleep on a batch    *)
(* that has become the minimum.                                            *)
(*                                                                         *)
(* Then what is inserted: the table gets the rows of the source in the     *)
(* order of the source, nothing is thrown, no merge is lost and the memory *)
(* is accounted for.  The argument gives every entry the batches it owns,  *)
(* those from its own one up to the next entry, of the batches delivered   *)
(* so far: its collection, or the merge it waits for, holds exactly them.  *)
(***************************************************************************)
EXTENDS BatchInsert, FiniteOrders, SequenceTheorems

LocalFields ==
    {"batch", "min", "current", "coll", "tail", "left", "work", "back"}

-------------------------------------------------------------------------------
(* The inductive invariant. *)

(* What the argument needs of the types. *)
IndexesTyped ==
    /\ input \in Inputs
    /\ handed \in 0..Batches
    /\ active \in [Task -> {Unregistered} \cup 0..MaxBatchIndex]
    /\ pc \in [Task -> Control]
    /\ DOMAIN lstate = Task
    /\ \A t \in Task : /\ DOMAIN lstate[t] = LocalFields
                       /\ lstate[t].batch \in 0..MaxBatchIndex
                       /\ lstate[t].min \in 0..MaxBatchIndex
    /\ "min" \in DOMAIN memory
    /\ memory.min \in 0..MaxBatchIndex

RegisteredAtStart == \A t \in Task : pc[t] = "start" <=> active[t] = Unregistered

(* A task works on the batch it is registered for or on a later one. *)
ActiveBehind == \A t \in Registered : active[t] <= lstate[t].batch

(* A batch the source has handed out, or the end of the source. *)
BatchHanded ==
    \A t \in Task : \/ lstate[t].batch <= handed
                    \/ handed = Batches /\ lstate[t].batch = MaxBatchIndex

(* What a task and the memory manager know of the minimum is not ahead of any
   task, however old it is.                                                  *)
KnownBehind ==
    \A u \in Registered : /\ memory.min <= active[u]
                          /\ \A t \in Task : lstate[t].min <= active[u]

NothingKnown ==
    Registered = {} => memory.min = 0 /\ \A t \in Task : lstate[t].min = 0

IInv == /\ IndexesTyped
        /\ RegisteredAtStart
        /\ ActiveBehind
        /\ BatchHanded
        /\ KnownBehind
        /\ NothingKnown
        /\ NoLostWakeup

-------------------------------------------------------------------------------
(* Lemmas about the inputs and the minimum. *)

(* The number of batches is a number. *)
LEMMA BatchesNat == ASSUME IndexesTyped
                    PROVE  /\ Batches \in Nat
                           /\ MaxBatchIndex = Batches + 1
                           /\ input.tasks \in Nat \ {0}
  BY InputsAssumption DEF IndexesTyped, Batches, MaxBatchIndex

(* A set of numbers that is not empty has a least element, and Min is it. *)
LEMMA MinLeast == ASSUME NEW S \in SUBSET Nat, S # {}
                  PROVE  Min(S) \in S /\ \A y \in S : Min(S) <= y
<1> DEFINE Below == {0..x : x \in S}
<1>1. Below # {} /\ Below \subseteq FiniteSubsetsOf(Nat)
  <2>1. \A x \in S : 0..x \subseteq Nat /\ IsFiniteSet(0..x)
    BY FS_Interval
  <2> QED  BY <2>1 DEF FiniteSubsetsOf
<1>2. PICK I \in Below : \A J \in Below : ~ (<<J, I>> \in StrictSubsetOrdering(Nat))
  BY <1>1, FS_StrictSubsetOrderingWellFounded, WFMin
<1>3. PICK x \in S : I = 0..x
  OBVIOUS
<1>4. ASSUME NEW y \in S  PROVE x <= y
  <2>1. ~ (0..y \subseteq 0..x /\ 0..y # 0..x)
    <3>1. 0..y \in Below /\ 0..y \in SUBSET Nat /\ 0..x \in SUBSET Nat
      BY <1>4
    <3>2. <<0..y, 0..x>> \notin StrictSubsetOrdering(Nat)
      BY <1>2, <1>3, <3>1
    <3> QED  BY <3>1, <3>2 DEF StrictSubsetOrdering
  <2>2. SUFFICES ASSUME y < x  PROVE FALSE
    BY <1>4
  <2>3. x \in 0..x /\ x \notin 0..y /\ 0..y \subseteq 0..x
    BY <2>2
  <2> QED  BY <2>1, <2>3
<1> QED  BY <1>4 DEF Min

(* The minimum of the batch indexes is that of a registered task. *)
LEMMA MinimumRegistered ==
    ASSUME NEW D, NEW N \in Nat, NEW indexes \in [D -> {Unregistered} \cup 0..N],
           \E u \in D : indexes[u] # Unregistered, D = Task
    PROVE  /\ Minimum(indexes) \in 0..N
           /\ \E u \in D : Minimum(indexes) = indexes[u] /\ indexes[u] # Unregistered
           /\ \A u \in D : indexes[u] # Unregistered => Minimum(indexes) <= indexes[u]
<1> DEFINE S == {indexes[t] : t \in Task} \ {Unregistered}
<1>1. S \in SUBSET (0..N) /\ S \in SUBSET Nat /\ S # {}
  BY DEF Unregistered
<1>2. Min(S) \in S /\ \A y \in S : Min(S) <= y
  BY <1>1, MinLeast
<1>3. Minimum(indexes) = Min(S)
  BY DEF Minimum
<1> HIDE DEF S
<1>4. /\ Minimum(indexes) \in S
      /\ \A y \in S : Minimum(indexes) <= y
  BY <1>2, <1>3
<1> QED  BY <1>1, <1>4 DEF S

-------------------------------------------------------------------------------
(* Most steps touch neither the indexes nor whom they hold back. *)

QuietStep ==
    /\ UNCHANGED <<input, handed, active>>
    /\ DOMAIN lstate' = Task
    /\ \A u \in Task : /\ DOMAIN lstate'[u] = LocalFields
                       /\ lstate'[u].batch = lstate[u].batch
                       /\ lstate'[u].min = lstate[u].min
    /\ "min" \in DOMAIN memory' /\ memory'.min = memory.min
    /\ pc' \in [Task -> Control]
    /\ \A u \in Task : /\ pc'[u] = "start" <=> pc[u] = "start"
                       /\ pc'[u] = "blocked" => pc[u] = "blocked"

LEMMA QuietPreserves == ASSUME IInv, QuietStep  PROVE IInv'
<1>1. Task' = Task /\ Batches' = Batches /\ MaxBatchIndex' = MaxBatchIndex
  BY DEF QuietStep, Task, Batches, MaxBatchIndex
<1>2. Registered' = Registered
  BY <1>1 DEF QuietStep, Registered
<1>3. IndexesTyped'
  BY <1>1 DEF IInv, IndexesTyped, QuietStep
<1>4. RegisteredAtStart'
  BY <1>1 DEF IInv, RegisteredAtStart, QuietStep
<1>5. ActiveBehind'
  BY <1>1, <1>2 DEF IInv, ActiveBehind, QuietStep, Registered
<1>6. BatchHanded'
  BY <1>1 DEF IInv, BatchHanded, QuietStep
<1>7. KnownBehind' /\ NothingKnown'
  BY <1>1, <1>2 DEF IInv, KnownBehind, NothingKnown, QuietStep, Registered
<1>8. NoLostWakeup'
  BY <1>1 DEF IInv, NoLostWakeup, QuietStep
<1> QED  BY <1>3, <1>4, <1>5, <1>6, <1>7, <1>8 DEF IInv

(* Goto and UnblockAll, of a task that is neither at the start nor blocked. *)
LEMMA GotoQuiet ==
    ASSUME NEW t \in Task, NEW label \in Control \ {"start", "blocked"},
           pc \in [Task -> Control], pc[t] # "start",
           Goto(t, label) \/ UnblockAll(t, label)
    PROVE  /\ pc' \in [Task -> Control]
           /\ \A u \in Task : /\ pc'[u] = "start" <=> pc[u] = "start"
                              /\ pc'[u] = "blocked" => pc[u] = "blocked"
<1>1. "sink" \in Control
  BY DEF Control
<1> QED  BY <1>1 DEF Goto, UnblockAll

(* The steps within NextBatch. *)
LEMMA NextBatchQuiet ==
    ASSUME IInv, NEW t \in Task,
           AddCollection(t) \/ WakeOrMerge(t) \/ NextBatchEnd(t)
    PROVE  QuietStep
<1> USE DEF IInv, IndexesTyped
<1>1. CASE AddCollection(t)
  <2>1. Goto(t, "wake") /\ pc[t] # "start" /\ "wake" \in Control \ {"start", "blocked"}
    BY <1>1 DEF AddCollection, Control
  <2>2. UNCHANGED <<input, handed, active, lstate>>
    BY <1>1 DEF AddCollection
  <2>3. \E n : memory' = [memory EXCEPT !.used = n]
    BY <1>1 DEF AddCollection
  <2> QED  BY <2>1, <2>2, <2>3, GotoQuiet DEF QuietStep
<1>2. CASE WakeOrMerge(t)
  <2>1. \E label \in {"moved", "drain"} : UnblockAll(t, label)
    BY <1>2 DEF WakeOrMerge
  <2>2. pc[t] # "start" /\ {"moved", "drain"} \subseteq Control \ {"start", "blocked"}
    BY <1>2 DEF WakeOrMerge, Control
  <2>3. UNCHANGED <<input, handed, active, memory>>
    BY <1>2 DEF WakeOrMerge
  <2>4. lstate' = [lstate EXCEPT ![t].coll = 0, ![t].back = "index"]
    BY <1>2 DEF WakeOrMerge
  <2>5. DOMAIN lstate' = Task
        /\ \A u \in Task : /\ DOMAIN lstate'[u] = LocalFields
                           /\ lstate'[u].batch = lstate[u].batch
                           /\ lstate'[u].min = lstate[u].min
    BY <2>4 DEF LocalFields
  <2> QED  BY <2>1, <2>2, <2>3, <2>5, GotoQuiet DEF QuietStep
<1>3. CASE NextBatchEnd(t)
  <2>1. UnblockAll(t, "index") /\ pc[t] # "start"
        /\ "index" \in Control \ {"start", "blocked"}
    BY <1>3 DEF NextBatchEnd, Control
  <2>2. UNCHANGED <<input, handed, active, memory>>
    BY <1>3 DEF NextBatchEnd
  <2>3. DOMAIN lstate' = Task
        /\ \A u \in Task : /\ DOMAIN lstate'[u] = LocalFields
                           /\ lstate'[u].batch = lstate[u].batch
                           /\ lstate'[u].min = lstate[u].min
    BY <1>3 DEF NextBatchEnd, LocalFields
  <2> QED  BY <2>1, <2>2, <2>3, GotoQuiet DEF QuietStep
<1> QED  BY <1>1, <1>2, <1>3

(* The steps of ExecuteTasks. *)
LEMMA ExecuteTasksQuiet ==
    ASSUME IInv, NEW t \in Task,
           TakeTask(t) \/ NoTask(t) \/ Merge(t) \/ Publish(t)
    PROVE  QuietStep
<1> USE DEF IInv, IndexesTyped
<1>1. CASE TakeTask(t)
  <2>1. \E label \in {"merge"} : Goto(t, label) \/ UnblockAll(t, label)
    BY <1>1 DEF TakeTask
  <2>2. pc[t] # "start" /\ {"merge"} \subseteq Control \ {"start", "blocked"}
    BY <1>1 DEF TakeTask, Control
  <2>3. UNCHANGED <<input, handed, active>>
    BY <1>1 DEF TakeTask
  <2>4. DOMAIN lstate' = Task
        /\ \A u \in Task : /\ DOMAIN lstate'[u] = LocalFields
                           /\ lstate'[u].batch = lstate[u].batch
                           /\ lstate'[u].min = lstate[u].min
    BY <1>1 DEF TakeTask, LocalFields
  <2>5. "min" \in DOMAIN memory' /\ memory'.min = memory.min
    BY <1>1 DEF TakeTask
  <2> QED  BY <2>1, <2>2, <2>3, <2>4, <2>5, GotoQuiet DEF QuietStep
<1>2. CASE NoTask(t)
  <2>1. \E label \in {"moved", "wait"} : Goto(t, label) \/ UnblockAll(t, label)
    BY <1>2 DEF NoTask
  <2>2. pc[t] # "start" /\ {"moved", "wait"} \subseteq Control \ {"start", "blocked"}
    BY <1>2 DEF NoTask, Control
  <2>3. UNCHANGED <<input, handed, active>>
    BY <1>2 DEF NoTask
  <2>4. DOMAIN lstate' = Task
        /\ \A u \in Task : /\ DOMAIN lstate'[u] = LocalFields
                           /\ lstate'[u].batch = lstate[u].batch
                           /\ lstate'[u].min = lstate[u].min
    BY <1>2 DEF NoTask, LocalFields
  <2>5. "min" \in DOMAIN memory' /\ memory'.min = memory.min
    BY <1>2 DEF NoTask
  <2> QED  BY <2>1, <2>2, <2>3, <2>4, <2>5, GotoQuiet DEF QuietStep
<1>3. CASE Merge(t)
  <2>1. \E label \in {"publish"} : Goto(t, label) \/ UnblockAll(t, label)
    BY <1>3 DEF Merge
  <2>2. pc[t] # "start" /\ {"publish"} \subseteq Control \ {"start", "blocked"}
    BY <1>3 DEF Merge, Control
  <2>3. UNCHANGED <<input, handed, active>>
    BY <1>3 DEF Merge
  <2>4. DOMAIN lstate' = Task
        /\ \A u \in Task : /\ DOMAIN lstate'[u] = LocalFields
                           /\ lstate'[u].batch = lstate[u].batch
                           /\ lstate'[u].min = lstate[u].min
    BY <1>3 DEF Merge, LocalFields
  <2>5. "min" \in DOMAIN memory' /\ memory'.min = memory.min
    BY <1>3 DEF Merge
  <2> QED  BY <2>1, <2>2, <2>3, <2>4, <2>5, GotoQuiet DEF QuietStep
<1>4. CASE Publish(t)
  <2>1. \E label \in {"drain"} : Goto(t, label) \/ UnblockAll(t, label)
    BY <1>4 DEF Publish
  <2>2. pc[t] # "start" /\ {"drain"} \subseteq Control \ {"start", "blocked"}
    BY <1>4 DEF Publish, Control
  <2>3. UNCHANGED <<input, handed, active>>
    BY <1>4 DEF Publish
  <2>4. DOMAIN lstate' = Task
        /\ \A u \in Task : /\ DOMAIN lstate'[u] = LocalFields
                           /\ lstate'[u].batch = lstate[u].batch
                           /\ lstate'[u].min = lstate[u].min
    BY <1>4 DEF Publish, LocalFields
  <2>5. "min" \in DOMAIN memory' /\ memory'.min = memory.min
    BY <1>4 DEF Publish
  <2> QED  BY <2>1, <2>2, <2>3, <2>4, <2>5, GotoQuiet DEF QuietStep
<1> QED  BY <1>1, <1>2, <1>3, <1>4

(* Sink once the minimum is known, and the statistics. *)
LEMMA SinkQuiet ==
    ASSUME IInv, NEW t \in Task,
           SinkCheckMemory(t) \/ SinkAppend(t) \/ FinishInitialiseStats(t)
    PROVE  QuietStep
<1> USE DEF IInv, IndexesTyped
<1>1. CASE SinkCheckMemory(t)
  <2>1. \E label \in {"drain", "append"} : Goto(t, label) \/ UnblockAll(t, label)
    BY <1>1 DEF SinkCheckMemory
  <2>2. pc[t] # "start" /\ {"drain", "append"} \subseteq Control \ {"start", "blocked"}
    BY <1>1 DEF SinkCheckMemory, Control
  <2>3. UNCHANGED <<input, handed, active>>
    BY <1>1 DEF SinkCheckMemory
  <2>4. DOMAIN lstate' = Task
        /\ \A u \in Task : /\ DOMAIN lstate'[u] = LocalFields
                           /\ lstate'[u].batch = lstate[u].batch
                           /\ lstate'[u].min = lstate[u].min
    BY <1>1 DEF SinkCheckMemory, LocalFields
  <2>5. "min" \in DOMAIN memory' /\ memory'.min = memory.min
    BY <1>1 DEF SinkCheckMemory, Increased
  <2> QED  BY <2>1, <2>2, <2>3, <2>4, <2>5, GotoQuiet DEF QuietStep
<1>2. CASE SinkAppend(t)
  <2>1. \E label \in {"sink", "fetch"} : Goto(t, label) \/ UnblockAll(t, label)
    BY <1>2 DEF SinkAppend
  <2>2. pc[t] # "start" /\ {"sink", "fetch"} \subseteq Control \ {"start", "blocked"}
    BY <1>2 DEF SinkAppend, Control
  <2>3. UNCHANGED <<input, handed, active>>
    BY <1>2 DEF SinkAppend
  <2>4. DOMAIN lstate' = Task
        /\ \A u \in Task : /\ DOMAIN lstate'[u] = LocalFields
                           /\ lstate'[u].batch = lstate[u].batch
                           /\ lstate'[u].min = lstate[u].min
    BY <1>2 DEF SinkAppend, LocalFields
  <2>5. "min" \in DOMAIN memory' /\ memory'.min = memory.min
    BY <1>2 DEF SinkAppend
  <2> QED  BY <2>1, <2>2, <2>3, <2>4, <2>5, GotoQuiet DEF QuietStep
<1>3. CASE FinishInitialiseStats(t)
  <2>1. \E label \in {"combine"} : Goto(t, label) \/ UnblockAll(t, label)
    BY <1>3 DEF FinishInitialiseStats
  <2>2. pc[t] # "start" /\ {"combine"} \subseteq Control \ {"start", "blocked"}
    BY <1>3 DEF FinishInitialiseStats, Control
  <2>3. UNCHANGED <<input, handed, active>>
    BY <1>3 DEF FinishInitialiseStats
  <2>4. DOMAIN lstate' = Task
        /\ \A u \in Task : /\ DOMAIN lstate'[u] = LocalFields
                           /\ lstate'[u].batch = lstate[u].batch
                           /\ lstate'[u].min = lstate[u].min
    BY <1>3 DEF FinishInitialiseStats, LocalFields
  <2>5. "min" \in DOMAIN memory' /\ memory'.min = memory.min
    BY <1>3 DEF FinishInitialiseStats
  <2> QED  BY <2>1, <2>2, <2>3, <2>4, <2>5, GotoQuiet DEF QuietStep
<1> QED  BY <1>1, <1>2, <1>3

LEMMA FinalizeQuiet == ASSUME IInv, Finalize  PROVE QuietStep
<1> USE DEF IInv, IndexesTyped
<1>1. UNCHANGED <<input, handed, active, pc, lstate>>
  BY DEF Finalize
<1>2. \E n : memory' = [memory EXCEPT !.used = n]
  BY DEF Finalize
<1> QED  BY <1>1, <1>2 DEF QuietStep

-------------------------------------------------------------------------------
(* The steps that change what is known, one by one. *)

(* A new task starts at the minimum of those that run, or at the base. *)
LEMMA RegisterPreserves == ASSUME IInv, NEW t \in Task, Register(t)  PROVE IInv'
<1> DEFINE min == IF Registered = {} THEN 0 ELSE Minimum(active)
<1>1. /\ pc[t] = "start" /\ active[t] = Unregistered
      /\ UNCHANGED <<input, handed, memory>>
      /\ active' = [active EXCEPT ![t] = min]
      /\ lstate' = [lstate EXCEPT ![t].batch = min, ![t].min = min]
      /\ pc' = [pc EXCEPT ![t] = "fetch"]
  BY DEF IInv, RegisteredAtStart, Register, Goto
<1>2. Task' = Task /\ Batches' = Batches /\ MaxBatchIndex' = MaxBatchIndex
  BY <1>1 DEF Task, Batches, MaxBatchIndex
<1>3. MaxBatchIndex \in Nat /\ MaxBatchIndex = Batches + 1 /\ Batches \in Nat
  BY BatchesNat DEF IInv
<1>4. /\ min \in 0..MaxBatchIndex
      /\ \A u \in Registered : min <= active[u]
      /\ Registered = {} => min = 0
      /\ Registered # {} => \E u \in Registered : min = active[u]
  <2>1. CASE Registered = {}
    BY <2>1, <1>3
  <2>2. CASE Registered # {}
    <3>1. \E u \in Task : active[u] # Unregistered
      BY <2>2 DEF Registered
    <3>2. active \in [Task -> {Unregistered} \cup 0..MaxBatchIndex]
      BY DEF IInv, IndexesTyped
    <3> QED  BY <2>2, <3>1, <3>2, <1>3, MinimumRegistered DEF Registered
  <2> QED  BY <2>1, <2>2
<1> HIDE DEF min
<1>5. Registered' = Registered \cup {t}
  BY <1>1, <1>2, <1>4 DEF IInv, IndexesTyped, Registered, Unregistered
<1>6. /\ DOMAIN lstate' = Task
      /\ \A u \in Task : DOMAIN lstate'[u] = LocalFields
      /\ lstate'[t].batch = min /\ lstate'[t].min = min
      /\ \A u \in Task \ {t} : lstate'[u] = lstate[u]
      /\ active'[t] = min /\ \A u \in Task \ {t} : active'[u] = active[u]
      /\ pc'[t] = "fetch" /\ \A u \in Task \ {t} : pc'[u] = pc[u]
  BY <1>1 DEF IInv, IndexesTyped, LocalFields
<1>7. /\ memory.min <= min /\ \A u \in Task : lstate[u].min <= min
  BY <1>4 DEF IInv, IndexesTyped, KnownBehind, NothingKnown
<1>8. IndexesTyped'
  <2>1. "fetch" \in Control
    BY DEF Control
  <2> QED  BY <1>1, <1>2, <1>4, <1>6, <2>1 DEF IInv, IndexesTyped
<1>9. RegisteredAtStart'
  BY <1>1, <1>2, <1>4, <1>6 DEF IInv, RegisteredAtStart, Unregistered
<1>10. ActiveBehind'
  BY <1>4, <1>5, <1>6, <1>2 DEF IInv, ActiveBehind, Registered
<1>11. BatchHanded'
  <2>1. \/ min <= handed
        \/ handed = Batches /\ min = MaxBatchIndex
    <3>1. CASE Registered = {}
      BY <1>4, <3>1 DEF IInv, IndexesTyped
    <3>2. CASE Registered # {}
      <4>1. PICK u \in Registered : min = active[u] /\ u \in Task
        BY <1>4, <3>2 DEF Registered
      <4>2. min <= lstate[u].batch /\ lstate[u].batch \in 0..MaxBatchIndex
        BY <4>1 DEF IInv, IndexesTyped, ActiveBehind
      <4>3. \/ lstate[u].batch <= handed
            \/ handed = Batches /\ lstate[u].batch = MaxBatchIndex
        BY <4>1 DEF IInv, BatchHanded
      <4>4. handed \in 0..Batches
        BY DEF IInv, IndexesTyped
      <4> QED  BY <1>3, <1>4, <4>2, <4>3, <4>4
    <3> QED  BY <3>1, <3>2
  <2> QED  BY <1>1, <1>2, <1>6, <2>1 DEF IInv, BatchHanded
<1>12. KnownBehind'
  BY <1>1, <1>2, <1>4, <1>5, <1>6, <1>7 DEF IInv, IndexesTyped, KnownBehind, Registered
<1>13. NothingKnown'
  BY <1>5 DEF NothingKnown
<1>14. NoLostWakeup'
  BY <1>1, <1>2, <1>6 DEF IInv, NoLostWakeup
<1> QED  BY <1>8, <1>9, <1>10, <1>11, <1>12, <1>13, <1>14 DEF IInv

(* The source hands out ascending batches. *)
LEMMA FetchPreserves == ASSUME IInv, NEW t \in Task, Fetch(t)  PROVE IInv'
<1> DEFINE index == IF handed < Batches THEN handed + 1 ELSE MaxBatchIndex
<1>1. /\ pc[t] = "fetch"
      /\ UNCHANGED <<input, active, memory>>
      /\ handed' = IF handed < Batches THEN handed + 1 ELSE handed
      /\ \E n : lstate' = [lstate EXCEPT ![t].batch = index, ![t].left = n]
      /\ \E label \in {"stats", "moved", "add"} : pc' = [pc EXCEPT ![t] = label]
  BY DEF Fetch, Goto
<1>2. Task' = Task /\ Batches' = Batches /\ MaxBatchIndex' = MaxBatchIndex
  BY <1>1 DEF Task, Batches, MaxBatchIndex
<1>3. MaxBatchIndex \in Nat /\ MaxBatchIndex = Batches + 1 /\ Batches \in Nat
  BY BatchesNat DEF IInv
<1>4. index \in 0..MaxBatchIndex /\ handed' \in 0..Batches
      /\ lstate[t].batch <= index
      /\ \/ index <= handed'
         \/ handed' = Batches /\ index = MaxBatchIndex
  <2>1. handed \in 0..Batches /\ lstate[t].batch \in 0..MaxBatchIndex
    BY DEF IInv, IndexesTyped
  <2>2. \/ lstate[t].batch <= handed
        \/ handed = Batches /\ lstate[t].batch = MaxBatchIndex
    BY DEF IInv, BatchHanded
  <2> QED  BY <1>1, <1>3, <2>1, <2>2
<1> HIDE DEF index
<1>5. Registered' = Registered
  BY <1>1, <1>2 DEF Registered
<1>6. /\ DOMAIN lstate' = Task
      /\ \A u \in Task : DOMAIN lstate'[u] = LocalFields
      /\ lstate'[t].batch = index /\ lstate'[t].min = lstate[t].min
      /\ \A u \in Task \ {t} : lstate'[u] = lstate[u]
  BY <1>1 DEF IInv, IndexesTyped, LocalFields
<1>7. /\ pc' \in [Task -> Control]
      /\ pc'[t] # "start" /\ pc'[t] # "blocked"
      /\ \A u \in Task \ {t} : pc'[u] = pc[u]
  BY <1>1 DEF IInv, IndexesTyped, Control
<1>8. IndexesTyped'
  BY <1>1, <1>2, <1>4, <1>6, <1>7 DEF IInv, IndexesTyped
<1>9. RegisteredAtStart'
  BY <1>1, <1>2, <1>7 DEF IInv, RegisteredAtStart
<1>10. ActiveBehind'
  <2>1. Registered \subseteq Task
    BY DEF Registered
  <2>2. \A u \in Registered : active[u] <= lstate[u].batch /\ active[u] \in Int
    BY DEF IInv, IndexesTyped, ActiveBehind, Registered, Unregistered
  <2>3. lstate[t].batch \in Int /\ index \in Int
    BY <1>4 DEF IInv, IndexesTyped
  <2>4. \A u \in Registered : active[u] <= lstate'[u].batch
    BY <1>4, <1>6, <2>1, <2>2, <2>3
  <2> QED  BY <1>1, <1>5, <2>4 DEF ActiveBehind
<1>11. BatchHanded'
  BY <1>1, <1>2, <1>3, <1>4, <1>6 DEF IInv, IndexesTyped, BatchHanded
<1>12. KnownBehind' /\ NothingKnown'
  BY <1>1, <1>2, <1>5, <1>6 DEF IInv, KnownBehind, NothingKnown, Registered
<1>13. NoLostWakeup'
  BY <1>1, <1>2, <1>6, <1>7 DEF IInv, NoLostWakeup
<1> QED  BY <1>8, <1>9, <1>10, <1>11, <1>12, <1>13 DEF IInv

(* A task moves to a later batch, and learns the minimum of all tasks. *)
LEMMA UpdateBatchIndexPreserves ==
    ASSUME IInv, NEW t \in Task, UpdateBatchIndex(t)  PROVE IInv'
<1> DEFINE index == lstate[t].batch
           min == Minimum(active')
<1>1. /\ pc[t] = "index"
      /\ UNCHANGED <<input, handed, memory>>
      /\ active' = [active EXCEPT ![t] = index]
      /\ lstate' = [lstate EXCEPT ![t].min = min]
      /\ \E label \in {"stats", "sink", "fetch"} : pc' = [pc EXCEPT ![t] = label]
  BY DEF UpdateBatchIndex, Goto
<1>2. Task' = Task /\ Batches' = Batches /\ MaxBatchIndex' = MaxBatchIndex
  BY <1>1 DEF Task, Batches, MaxBatchIndex
<1>3. MaxBatchIndex \in Nat
  BY BatchesNat DEF IInv
<1>4. index \in 0..MaxBatchIndex /\ t \in Registered /\ active[t] <= index
  BY <1>1 DEF IInv, IndexesTyped, RegisteredAtStart, ActiveBehind, Registered
<1>5. /\ active' \in [Task -> {Unregistered} \cup 0..MaxBatchIndex]
      /\ active'[t] = index /\ active'[t] # Unregistered
      /\ \A u \in Task \ {t} : active'[u] = active[u]
  BY <1>1, <1>4 DEF IInv, IndexesTyped, Unregistered
<1>6. Registered' = Registered
  BY <1>2, <1>4, <1>5 DEF Registered
<1>7. min \in 0..MaxBatchIndex /\ \A u \in Registered : min <= active'[u]
  BY <1>3, <1>5, MinimumRegistered DEF Registered
<1> HIDE DEF min
<1>8. /\ DOMAIN lstate' = Task
      /\ \A u \in Task : DOMAIN lstate'[u] = LocalFields
      /\ lstate'[t].batch = index /\ lstate'[t].min = min
      /\ \A u \in Task \ {t} : lstate'[u] = lstate[u]
  BY <1>1 DEF IInv, IndexesTyped, LocalFields
<1>9. /\ pc' \in [Task -> Control]
      /\ pc'[t] # "start" /\ pc'[t] # "blocked"
      /\ \A u \in Task \ {t} : pc'[u] = pc[u]
  BY <1>1 DEF IInv, IndexesTyped, Control
<1>10. IndexesTyped'
  BY <1>1, <1>2, <1>4, <1>5, <1>7, <1>8, <1>9 DEF IInv, IndexesTyped
<1>11. RegisteredAtStart'
  BY <1>2, <1>5, <1>9 DEF IInv, RegisteredAtStart
<1>12. ActiveBehind'
  BY <1>2, <1>4, <1>5, <1>6, <1>8 DEF IInv, ActiveBehind, Registered
<1>13. BatchHanded'
  BY <1>1, <1>2, <1>8 DEF IInv, BatchHanded
<1>14. \A u \in Registered : active[u] <= active'[u]
  BY <1>4, <1>5 DEF IInv, IndexesTyped, Registered, Unregistered
<1>15. KnownBehind'
  <2>1. ASSUME NEW u \in Registered  PROVE memory.min <= active'[u]
    BY <1>3, <1>5, <1>14 DEF IInv, IndexesTyped, KnownBehind, Registered, Unregistered
  <2>2. ASSUME NEW u \in Registered, NEW v \in Task  PROVE lstate'[v].min <= active'[u]
    BY <1>3, <1>5, <1>7, <1>8, <1>14
       DEF IInv, IndexesTyped, KnownBehind, Registered, Unregistered
  <2> QED  BY <1>1, <1>2, <1>6, <2>1, <2>2 DEF KnownBehind
<1>16. NothingKnown'
  BY <1>4, <1>6 DEF NothingKnown
<1>17. NoLostWakeup'
  BY <1>1, <1>2, <1>8, <1>9 DEF IInv, NoLostWakeup
<1> QED
  BY <1>10, <1>11, <1>12, <1>13, <1>15, <1>16, <1>17 DEF IInv

(* A task falls asleep only under the lock that whoever raises the minimum
   takes.                                                                    *)
LEMMA SinkWaitPreserves == ASSUME IInv, NEW t \in Task, SinkWait(t)  PROVE IInv'
<1>1. /\ pc[t] = "wait"
      /\ UNCHANGED <<input, handed, active, lstate, memory>>
      /\ pc' = [pc EXCEPT ![t] = IF lstate[t].batch <= memory.min
                                 THEN "append" ELSE "blocked"]
  BY DEF SinkWait, Goto
<1>2. Task' = Task /\ Batches' = Batches /\ MaxBatchIndex' = MaxBatchIndex
  BY <1>1 DEF Task, Batches, MaxBatchIndex
<1>3. /\ pc' \in [Task -> Control] /\ pc'[t] # "start"
      /\ \A u \in Task \ {t} : pc'[u] = pc[u]
      /\ pc'[t] = "blocked" => ~ (lstate[t].batch <= memory.min)
  BY <1>1 DEF IInv, IndexesTyped, Control
<1>4. Registered' = Registered
  BY <1>1, <1>2 DEF Registered
<1>5. IndexesTyped'
  BY <1>1, <1>2, <1>3 DEF IInv, IndexesTyped
<1>6. RegisteredAtStart'
  BY <1>1, <1>2, <1>3 DEF IInv, RegisteredAtStart
<1>7. ActiveBehind' /\ BatchHanded' /\ KnownBehind' /\ NothingKnown'
  BY <1>1, <1>2, <1>4
     DEF IInv, ActiveBehind, BatchHanded, KnownBehind, NothingKnown
<1>8. NoLostWakeup'
  <2>1. lstate[t].batch \in 0..MaxBatchIndex /\ memory.min \in 0..MaxBatchIndex
        /\ MaxBatchIndex \in Nat
    BY BatchesNat DEF IInv, IndexesTyped
  <2>2. pc'[t] = "blocked" => lstate[t].batch > memory.min
    <3>1. lstate[t].batch <= memory.min \/ lstate[t].batch > memory.min
      BY <2>1
    <3> QED  BY <1>3, <3>1
  <2> QED  BY <1>1, <1>2, <1>3, <2>2 DEF IInv, NoLostWakeup
<1> QED  BY <1>5, <1>6, <1>7, <1>8 DEF IInv

(* The minimum is raised to what a task knows of it, and everybody is woken up. *)
LEMMA RaisePreserves ==
    ASSUME IInv, NEW t \in Task, SinkBegin(t) \/ Combine(t)  PROVE IInv'
<1> DEFINE min == IF lstate[t].min > memory.min THEN lstate[t].min ELSE memory.min
<1>1. /\ pc[t] # "start"
      /\ UNCHANGED <<input, handed, active, lstate>>
      /\ "min" \in DOMAIN memory'
      /\ memory'.min = min \/ UNCHANGED memory
      /\ memory'.min = memory.min \/ \A u \in Task : pc'[u] # "blocked"
      /\ pc' \in [Task -> Control]
      /\ \A u \in Task : /\ pc'[u] = "start" <=> pc[u] = "start"
                         /\ pc'[u] = "blocked" => pc[u] = "blocked"
  <2>1. CASE SinkBegin(t) /\ lstate[t].batch <= memory.min
    <3>1. Goto(t, "append") /\ UNCHANGED <<input, handed, active, lstate, memory>>
          /\ pc[t] # "start" /\ "append" \in Control \ {"start", "blocked"}
      BY <2>1 DEF SinkBegin, Control
    <3> QED  BY <3>1, GotoQuiet DEF IInv, IndexesTyped
  <2>2. CASE SinkBegin(t) /\ ~ (lstate[t].batch <= memory.min)
    <3>1. RaiseMinimum(t, lstate[t].min, "memory")
          /\ UNCHANGED <<input, handed, active, lstate>>
          /\ pc[t] # "start" /\ "memory" \in Control \ {"start", "blocked"}
      BY <2>2 DEF SinkBegin, Control
    <3>2. "min" \in DOMAIN memory' /\ memory'.min = min
      BY <3>1 DEF IInv, IndexesTyped, RaiseMinimum
    <3>3. Goto(t, "memory") \/ UnblockAll(t, "memory")
      BY <3>1 DEF RaiseMinimum
    <3>4. memory'.min = memory.min \/ UnblockAll(t, "memory")
      BY <3>1, <3>2 DEF RaiseMinimum
    <3>5. UnblockAll(t, "memory") => \A u \in Task : pc'[u] # "blocked"
      BY DEF UnblockAll
    <3> QED  BY <3>1, <3>2, <3>3, <3>4, <3>5, GotoQuiet DEF IInv, IndexesTyped
  <2>3. CASE Combine(t)
    <3>1. UnblockAll(t, "done") /\ UNCHANGED <<input, handed, active, lstate>>
          /\ pc[t] # "start" /\ "done" \in Control \ {"start", "blocked"}
      BY <2>3 DEF Combine, Control
    <3>2. "min" \in DOMAIN memory' /\ memory'.min = min
      BY <2>3 DEF IInv, IndexesTyped, Combine
    <3>3. \A u \in Task : pc'[u] # "blocked"
      BY <3>1 DEF UnblockAll
    <3> QED  BY <3>1, <3>2, <3>3, GotoQuiet DEF IInv, IndexesTyped
  <2> QED  BY <2>1, <2>2, <2>3
<1>2. Task' = Task /\ Batches' = Batches /\ MaxBatchIndex' = MaxBatchIndex
  BY <1>1 DEF Task, Batches, MaxBatchIndex
<1>3. Registered' = Registered /\ t \in Registered
  BY <1>1, <1>2 DEF IInv, RegisteredAtStart, Registered
<1>4. min \in 0..MaxBatchIndex /\ \A u \in Registered : min <= active[u]
  BY DEF IInv, IndexesTyped, KnownBehind, Registered
<1>5. memory'.min \in 0..MaxBatchIndex
      /\ \A u \in Registered : memory'.min <= active[u]
  BY <1>1, <1>4 DEF IInv, IndexesTyped, KnownBehind
<1>6. IndexesTyped'
  BY <1>1, <1>2, <1>5 DEF IInv, IndexesTyped
<1>7. RegisteredAtStart'
  BY <1>1, <1>2 DEF IInv, RegisteredAtStart
<1>8. ActiveBehind' /\ BatchHanded'
  BY <1>1, <1>2, <1>3 DEF IInv, ActiveBehind, BatchHanded
<1>9. KnownBehind' /\ NothingKnown'
  BY <1>1, <1>2, <1>3, <1>5 DEF IInv, KnownBehind, NothingKnown
<1>10. NoLostWakeup'
  BY <1>1, <1>2 DEF IInv, NoLostWakeup
<1> QED  BY <1>6, <1>7, <1>8, <1>9, <1>10 DEF IInv

-------------------------------------------------------------------------------
(* The theorems. *)

LEMMA InitIInv == Init => IInv
<1> SUFFICES ASSUME Init  PROVE IInv
  OBVIOUS
<1>1. /\ input \in Inputs /\ handed = 0
      /\ active = [t \in Task |-> Unregistered]
      /\ pc = [t \in Task |-> "start"]
      /\ DOMAIN lstate = Task
      /\ \A t \in Task : /\ DOMAIN lstate[t] = LocalFields
                         /\ lstate[t].batch = 0 /\ lstate[t].min = 0
      /\ "min" \in DOMAIN memory /\ memory.min = 0
  BY DEF Init, LocalFields
<1>2. Batches \in Nat /\ MaxBatchIndex = Batches + 1
  BY <1>1, InputsAssumption DEF Batches, MaxBatchIndex
<1>3. IndexesTyped
  BY <1>1, <1>2 DEF IndexesTyped, Control
<1>4. Registered = {} /\ RegisteredAtStart
  BY <1>1 DEF Registered, RegisteredAtStart
<1>5. ActiveBehind /\ BatchHanded /\ KnownBehind /\ NothingKnown /\ NoLostWakeup
  BY <1>1, <1>4
     DEF ActiveBehind, BatchHanded, KnownBehind, NothingKnown, NoLostWakeup
<1> QED  BY <1>3, <1>4, <1>5 DEF IInv

LEMMA NextIInv == IInv /\ [Next]_vars => IInv'
<1> SUFFICES ASSUME IInv, [Next]_vars  PROVE IInv'
  OBVIOUS
<1>1. ASSUME NEW t \in Task, Step(t)  PROVE IInv'
  <2>1. CASE \/ AddCollection(t) \/ WakeOrMerge(t) \/ NextBatchEnd(t)
             \/ TakeTask(t) \/ NoTask(t) \/ Merge(t) \/ Publish(t)
             \/ SinkCheckMemory(t) \/ SinkAppend(t) \/ FinishInitialiseStats(t)
    BY <2>1, QuietPreserves, NextBatchQuiet, ExecuteTasksQuiet, SinkQuiet
  <2> QED
    BY <1>1, <2>1, RegisterPreserves, FetchPreserves, UpdateBatchIndexPreserves,
       SinkWaitPreserves, RaisePreserves DEF Step
<1>2. CASE Finalize
  BY <1>2, FinalizeQuiet, QuietPreserves
<1>3. CASE UNCHANGED vars
  BY <1>3 DEF vars, IInv, IndexesTyped, RegisteredAtStart, ActiveBehind, BatchHanded,
     KnownBehind, NothingKnown, NoLostWakeup, Registered, Task, Batches, MaxBatchIndex
<1> QED  BY <1>1, <1>2, <1>3 DEF Next

(* What is known of the minimum is behind every task in every reachable state. *)
THEOREM IndexesInvariant == Spec => []IInv
  BY InitIInv, NextIInv, PTL DEF Spec

(* However old the minimum is that a task passes on, the memory manager takes no
   batch for done that a task still works on (UpdateMinBatchIndex).          *)
THEOREM MinimumSound == Spec => []MinimumNotPassed
<1>1. IInv => MinimumNotPassed
  BY DEF IInv, KnownBehind, MinimumNotPassed
<1> QED  BY <1>1, IndexesInvariant, PTL

(* A task blocked by BlockSink is not left behind when its batch becomes the
   minimum, for any number of tasks.                                         *)
THEOREM WakeupsSound == Spec => []NoLostWakeup
<1>1. IInv => NoLostWakeup
  BY DEF IInv
<1> QED  BY <1>1, IndexesInvariant, PTL

-------------------------------------------------------------------------------
(* Sums over entries and merge tasks *)

Weighed(S) == IsFiniteSet(S) /\ \A e \in S : e.memory \in Nat

(* SumOf is the size of a set, so a number. *)
LEMMA SumOfIs ==
    ASSUME NEW S, Weighed(S)
    PROVE  /\ SumOf(S) \in Nat
           /\ LET W == {p \in S \X Nat : 1 <= p[2] /\ p[2] <= p[1].memory}
              IN  IsFiniteSet(W) /\ SumOf(S) = Cardinality(W)
  <1>. DEFINE f == [e \in S |-> e.memory]
              W == {p \in S \X Nat : 1 <= p[2] /\ p[2] <= p[1].memory}
  <1>1. f \in [S -> Nat] /\ IsFiniteSet(S)
    BY DEF Weighed
  <1>2. W = Weight(f, S)
    BY DEF Weight
  <1>3. SumFunction(f) = Cardinality(Weight(f, S)) /\ SumFunction(f) \in Nat
    <2>. HIDE DEF f
    <2>. QED
      BY <1>1, SumIsWeight
  <1>4. IsFiniteSet(Weight(f, S))
    <2>. HIDE DEF f
    <2>. QED
      BY <1>1, WeightFinite
  <1>. QED
    BY <1>2, <1>3, <1>4 DEF SumOf

(* The sum over nothing is 0. *)
LEMMA SumEmpty == SumOf({}) = 0 /\ Weighed({})
  <1>. DEFINE W(A) == {p \in A \X Nat : 1 <= p[2] /\ p[2] <= p[1].memory}
  <1>1. Weighed({})
    BY FS_EmptySet DEF Weighed
  <1>2. W({}) = {}
    OBVIOUS
  <1>3. SumOf({}) = Cardinality(W({}))
    BY <1>1, SumOfIs
  <1>. QED
    BY <1>1, <1>2, <1>3, FS_EmptySet

(* Sums over disjoint sets add up. *)
LEMMA SumUnion ==
    ASSUME NEW S, NEW T, Weighed(S), Weighed(T), S \cap T = {}
    PROVE  Weighed(S \cup T) /\ SumOf(S \cup T) = SumOf(S) + SumOf(T)
  <1>. DEFINE W(A) == {p \in A \X Nat : 1 <= p[2] /\ p[2] <= p[1].memory}
  <1>1. Weighed(S \cup T)
    BY FS_Union DEF Weighed
  <1>2. W(S \cup T) = W(S) \cup W(T) /\ W(S) \cap W(T) = {}
    OBVIOUS
  <1>3. /\ IsFiniteSet(W(S)) /\ SumOf(S) = Cardinality(W(S))
        /\ IsFiniteSet(W(T)) /\ SumOf(T) = Cardinality(W(T))
        /\ SumOf(S \cup T) = Cardinality(W(S \cup T))
    BY <1>1, SumOfIs
  <1>. HIDE DEF W
  <1>4. Cardinality(W(S) \cup W(T)) = Cardinality(W(S)) + Cardinality(W(T))
    BY <1>2, <1>3, DisjointUnion
  <1>. QED
    BY <1>1, <1>2, <1>3, <1>4

(* The sum over one element is its memory. *)
LEMMA SumOne ==
    ASSUME NEW e, e.memory \in Nat
    PROVE  Weighed({e}) /\ SumOf({e}) = e.memory
  <1>. DEFINE W == {p \in {e} \X Nat : 1 <= p[2] /\ p[2] <= p[1].memory}
              Pair == [i \in 1..e.memory |-> <<e, i>>]
  <1>1. Weighed({e})
    BY FS_Singleton DEF Weighed
  <1>2. IsFiniteSet(1..e.memory) /\ Cardinality(1..e.memory) = e.memory
    BY FS_Interval
  <1>3. Pair \in [1..e.memory -> W] /\ \A p \in W : \E i \in 1..e.memory : Pair[i] = p
    OBVIOUS
  <1>4. \A i, k \in 1..e.memory : Pair[i] = Pair[k] => i = k
    OBVIOUS
  <1>5. Cardinality(W) = e.memory
    <2>. HIDE DEF W, Pair
    <2>1. Pair \in Bijection(1..e.memory, W)
      BY <1>3, <1>4 DEF Bijection, Injection, IsInjective, Surjection
    <2>. QED
      BY <1>2, <2>1, FS_Bijection DEF ExistsBijection
  <1>. QED
    BY <1>1, <1>5, SumOfIs

(* The rows of a collection *)
LEMMA RowsNat ==
    ASSUME NEW chunks \in Seq(Batch), input \in Inputs
    PROVE  Rows(chunks) \in Nat /\ (chunks # <<>> => Rows(chunks) > 0)
  <1>. DEFINE S == DOMAIN chunks
              f == [i \in S |-> input.rows[chunks[i]]]
  <1>1. /\ input.rows \in Seq(Nat \ {0}) /\ Len(input.rows) = Batches
        /\ Batches \in Nat
    BY InputsAssumption DEF Batches
  <1>2. \A b \in Batch : input.rows[b] \in Nat /\ input.rows[b] > 0
    <2>1. DOMAIN input.rows = 1..Batches
      BY <1>1
    <2>. QED
      BY <1>1, <2>1, ElementOfSeq DEF Batch
  <1>3. S = 1..Len(chunks) /\ Len(chunks) \in Nat /\ \A i \in S : chunks[i] \in Batch
    BY LenProperties, ElementOfSeq
  <1>4. IsFiniteSet(S)
    BY <1>3, FS_Interval
  <1>5. f \in [S -> Nat] /\ \A i \in S : f[i] > 0
    BY <1>2, <1>3
  <1>6. Rows(chunks) = SumFunction(f)
    BY DEF Rows
  <1>. HIDE DEF f
  <1>7. Rows(chunks) \in Nat /\ Rows(chunks) = Cardinality(Weight(f, S))
    BY <1>4, <1>5, <1>6, SumIsWeight
  <1>8. ASSUME chunks # <<>> PROVE Rows(chunks) > 0
    <2>1. 1 \in S
      BY <1>3, <1>8, EmptySeq
    <2>2. f[1] \in Nat /\ f[1] > 0
      BY <1>5, <2>1
    <2>3. <<1, 1>> \in Weight(f, S)
      BY <2>1, <2>2 DEF Weight
    <2>4. IsFiniteSet(Weight(f, S))
      BY <1>4, <1>5, WeightFinite
    <2>5. Cardinality(Weight(f, S)) # 0
      BY <2>3, <2>4, FS_EmptySet
    <2>. QED
      BY <1>7, <2>5
  <1>. QED
    BY <1>7, <1>8

--------------------------------------------------------------------------------
(* Sequences. *)

(* The elements of a sequence *)
LEMMA SeqElements ==
    ASSUME NEW T, NEW s \in Seq(T)
    PROVE  /\ Len(s) \in Nat
           /\ DOMAIN s = 1..Len(s)
           /\ \A i \in DOMAIN s : s[i] \in T /\ i \in Nat /\ 1 <= i /\ i <= Len(s)
           /\ s \in [1..Len(s) -> T]
           /\ ToSet(s) = {s[i] : i \in DOMAIN s}
           /\ ToSet(s) \subseteq T
  <1>1. Len(s) \in Nat /\ DOMAIN s = 1..Len(s) /\ s \in [1..Len(s) -> T]
    BY LenProperties
  <1>2. ToSet(s) = {s[i] : i \in DOMAIN s}
    BY DEF ToSet
  <1>. QED
    BY <1>1, <1>2

(* A recursion along an interval has a solution. *)
Recursion(a, b, R, base, F) ==
    a \in Nat /\ b \in Nat /\ a <= b /\ base \in R /\ F \in [(a..b) \X R -> R]

(* Such a function exists for every base and step. *)
LEMMA PrefixRecursion ==
    ASSUME NEW a, NEW b, NEW R, NEW base, NEW F, Recursion(a, b, R, base, F)
    PROVE  \E g \in [a..b -> R] :
              \A i \in a..b : g[i] = IF i = a THEN base ELSE F[<<i, g[i - 1]>>]
  <1>. DEFINE Upto(n, g) == \A i \in a..n : g[i] = IF i = a THEN base
                                                   ELSE F[<<i, g[i - 1]>>]
              Counter == {n \in a..b : ~ \E g \in [a..b -> R] : Upto(n, g)}
  <1>0. a \in Nat /\ b \in Nat /\ a <= b /\ base \in R /\ F \in [(a..b) \X R -> R]
    BY DEF Recursion
  <1>1. SUFFICES Counter = {}
    <2>1. b \in a..b
      BY <1>0
    <2>. QED
      BY <1>1, <2>1
  <1>2. SUFFICES ASSUME Counter # {} PROVE FALSE
    OBVIOUS
  <1>3. Counter \subseteq Nat
    BY <1>0
  <1>4. PICK n \in Counter : \A m \in Counter : n <= m
    BY <1>2, <1>3, LeastNat
  <1>5. n # a
    <2>1. [i \in a..b |-> base] \in [a..b -> R] /\ Upto(a, [i \in a..b |-> base])
      BY <1>0
    <2>2. a \notin Counter
      BY <1>0, <2>1
    <2>. QED
      BY <1>4, <2>2
  <1>6. n - 1 \in a..b /\ n \in a..b /\ n > a
    BY <1>0, <1>4, <1>5
  <1>7. n - 1 \notin Counter
    <2>1. ~ (n <= n - 1)
      BY <1>0, <1>6
    <2>. HIDE DEF Counter
    <2>. QED
      BY <1>4, <2>1
  <1>8. PICK g \in [a..b -> R] : Upto(n - 1, g)
    BY <1>0, <1>6, <1>7
  <1>. DEFINE h == [g EXCEPT ![n] = F[<<n, g[n - 1]>>]]
  <1>9. h \in [a..b -> R]
    <2>1. g[n - 1] \in R
      BY <1>0, <1>6
    <2>2. <<n, g[n - 1]>> \in (a..b) \X R
      BY <1>0, <1>6, <2>1
    <2>3. F[<<n, g[n - 1]>>] \in R
      BY <1>0, <2>2
    <2>. QED
      BY <1>0, <2>3
  <1>10. h[n] = F[<<n, h[n - 1]>>] /\ \A i \in a..(n - 1) : h[i] = g[i]
    <2>1. n # n - 1 /\ h[n - 1] = g[n - 1] /\ h[n] = F[<<n, g[n - 1]>>]
      BY <1>0, <1>6
    <2>2. \A i \in a..(n - 1) : i # n /\ i \in a..b
      BY <1>0, <1>6
    <2>. QED
      BY <2>1, <2>2
  <1>. HIDE DEF h
  <1>11. Upto(n, h)
    <2>1. SUFFICES ASSUME NEW i \in a..n
                   PROVE  h[i] = IF i = a THEN base ELSE F[<<i, h[i - 1]>>]
      OBVIOUS
    <2>2. CASE i = n
      BY <1>0, <1>6, <1>10, <2>2
    <2>3. CASE i # n
      <3>1. i \in a..(n - 1) /\ (i # a => i - 1 \in a..(n - 1))
        BY <1>0, <1>6, <2>3
      <3>2. h[i] = g[i] /\ (i # a => h[i - 1] = g[i - 1])
        BY <1>10, <3>1
      <3>3. g[i] = IF i = a THEN base ELSE F[<<i, g[i - 1]>>]
        BY <1>8, <3>1
      <3>. QED
        BY <3>2, <3>3
    <2>. QED
      BY <2>2, <2>3
  <1>. QED
    BY <1>4, <1>9, <1>11

(* The prefixes of a flattened sequence. *)
IsJoin(g, ss) ==
    /\ g[0] = <<>>
    /\ \A i \in 1..Len(ss) : g[i] = g[i - 1] \o ss[i]

(* FlattenSeq ends the prefixes of some g. *)
LEMMA FlattenJoins ==
    ASSUME NEW T, NEW ss \in Seq(Seq(T))
    PROVE  \E g \in [0..Len(ss) -> Seq(T)] :
              IsJoin(g, ss) /\ FlattenSeq(ss) = g[Len(ss)]
  <1>. DEFINE n == Len(ss)
              Is(f) == f = [i \in 1..n |-> IF i = 1 THEN ss[i] ELSE f[i - 1] \o ss[i]]
              flatten == CHOOSE f : Is(f)
  <1>1. n \in Nat /\ DOMAIN ss = 1..n /\ \A i \in 1..n : ss[i] \in Seq(T)
    BY LenProperties, ElementOfSeq
  <1>2. CASE n = 0
    <2>1. ss = <<>>
      BY <1>2, EmptySeq
    <2>2. FlattenSeq(ss) = <<>>
      BY <1>2, <2>1 DEF FlattenSeq
    <2>3. [i \in 0..0 |-> <<>>] \in [0..n -> Seq(T)]
      BY <1>2, EmptySeq
    <2>4. IsJoin([i \in 0..0 |-> <<>>], ss)
      BY <1>2 DEF IsJoin
    <2>. QED
      BY <1>2, <2>2, <2>3, <2>4
  <1>3. CASE n # 0
    <2>1. FlattenSeq(ss) = flatten[n]
      BY <1>3, Zenon DEF FlattenSeq
    <2>. DEFINE F == [p \in (1..n) \X Seq(T) |-> p[2] \o ss[p[1]]]
    <2>2. F \in [(1..n) \X Seq(T) -> Seq(T)]
      BY <1>1, ConcatProperties
    <2>3. 1 \in Nat /\ 1 <= n /\ ss[1] \in Seq(T)
      BY <1>1, <1>3
    <2>4. PICK f \in [1..n -> Seq(T)] :
             \A i \in 1..n : f[i] = IF i = 1 THEN ss[1] ELSE F[<<i, f[i - 1]>>]
      <3>. DEFINE R == Seq(T)
                  base == ss[1]
                  a == 1
      <3>1. n \in Nat /\ base \in R /\ F \in [(1..n) \X R -> R]
        BY <1>1, <2>2, <2>3
      <3>2. SUFFICES \E f \in [a..n -> R] :
               \A i \in a..n : f[i] = IF i = a THEN base ELSE F[<<i, f[i - 1]>>]
        OBVIOUS
      <3>3. Recursion(a, n, R, base, F)
        BY <2>3, <3>1 DEF Recursion
      <3>. HIDE DEF F, n, R, base, a
      <3>. QED
        BY <3>3, PrefixRecursion
    <2>5. \A i \in 1..n : f[i] = IF i = 1 THEN ss[i] ELSE f[i - 1] \o ss[i]
      <3>1. SUFFICES ASSUME NEW i \in 1..n, i # 1
                     PROVE  F[<<i, f[i - 1]>>] = f[i - 1] \o ss[i]
        BY <2>4
      <3>2. i - 1 \in 1..n
        BY <1>1, <3>1
      <3>3. <<i, f[i - 1]>> \in (1..n) \X Seq(T)
        BY <3>2
      <3>. QED
        BY <3>3
    <2>6. Is(f)
      BY <2>5
    <2>7. Is(flatten)
      <3>. HIDE DEF Is
      <3>. QED
        BY <2>6
    <2>8. \A i \in 1..n : flatten[i] = IF i = 1 THEN ss[i] ELSE flatten[i - 1] \o ss[i]
      <3>. HIDE DEF flatten
      <3>. QED
        BY <2>7
    <2>. HIDE DEF flatten
    <2>9. \A i \in 1..n : flatten[i] \in Seq(T)
      <3>. DEFINE Counter == {i \in 1..n : flatten[i] \notin Seq(T)}
      <3>1. SUFFICES ASSUME Counter # {} PROVE FALSE
        OBVIOUS
      <3>2. Counter \subseteq Nat
        BY <1>1
      <3>3. PICK k \in Counter : \A m \in Counter : k <= m
        BY <3>1, <3>2, LeastNat
      <3>4. k # 1
        BY <2>3, <2>8, <3>3
      <3>5. k - 1 \in 1..n /\ k \in 1..n
        BY <1>1, <3>3, <3>4
      <3>6. k - 1 \notin Counter
        <4>1. ~ (k <= k - 1)
          BY <3>5
        <4>. HIDE DEF Counter
        <4>. QED
          BY <3>3, <4>1
      <3>7. flatten[k - 1] \in Seq(T)
        BY <3>5, <3>6
      <3>8. flatten[k] = flatten[k - 1] \o ss[k]
        BY <2>8, <3>4, <3>5
      <3>9. flatten[k] \in Seq(T)
        BY <1>1, <3>5, <3>7, <3>8, ConcatProperties
      <3>. QED
        BY <3>3, <3>9
    <2>. DEFINE g == [i \in 0..n |-> IF i = 0 THEN <<>> ELSE flatten[i]]
    <2>10. g \in [0..n -> Seq(T)]
      BY <2>9, EmptySeq
    <2>13. g[0] = <<>> /\ \A i \in 1..n : g[i] = flatten[i]
      BY <1>1
    <2>11. \A i \in 1..n : g[i] = g[i - 1] \o ss[i]
      <3>1. SUFFICES ASSUME NEW i \in 1..n PROVE g[i] = g[i - 1] \o ss[i]
        OBVIOUS
      <3>2. CASE i = 1
        <4>1. g[i] = ss[1] /\ g[i - 1] = <<>>
          BY <1>1, <1>3, <2>8, <2>13, <3>2
        <4>. QED
          BY <2>3, <3>2, <4>1, ConcatEmptySeq
      <3>3. CASE i # 1
        <4>1. i - 1 \in 1..n
          BY <1>1, <3>3
        <4>. HIDE DEF g
        <4>. QED
          BY <2>8, <2>13, <3>3, <4>1
      <3>. QED
        BY <3>2, <3>3
    <2>12. g[0] = <<>> /\ g[n] = FlattenSeq(ss)
      BY <1>1, <1>3, <2>1
    <2>. HIDE DEF g
    <2>. QED
      BY <2>10, <2>11, <2>12 DEF IsJoin
  <1>. QED
    BY <1>2, <1>3

(* Sequences with the same prefixes *)
LEMMA FlattenIs ==
    ASSUME NEW T, NEW ss \in Seq(Seq(T)), NEW h, h[0] = <<>>,
           \A i \in 1..Len(ss) : h[i] = h[i - 1] \o ss[i]
    PROVE  FlattenSeq(ss) = h[Len(ss)]
  <1>. DEFINE n == Len(ss)
  <1>1. n \in Nat
    BY LenProperties
  <1>2. PICK g \in [0..n -> Seq(T)] : IsJoin(g, ss) /\ FlattenSeq(ss) = g[n]
    BY FlattenJoins
  <1>. DEFINE Counter == {i \in 0..n : g[i] # h[i]}
  <1>3. Counter = {}
    <2>1. SUFFICES ASSUME Counter # {} PROVE FALSE
      OBVIOUS
    <2>2. Counter \subseteq Nat
      OBVIOUS
    <2>3. PICK k \in Counter : \A m \in Counter : k <= m
      BY <2>1, <2>2, LeastNat
    <2>4. k # 0
      BY <1>2, <2>3 DEF IsJoin
    <2>5. k - 1 \in 0..n /\ k \in 1..n
      BY <1>1, <2>3, <2>4
    <2>6. k - 1 \notin Counter
      <3>1. ~ (k <= k - 1)
        BY <2>5
      <3>. HIDE DEF Counter
      <3>. QED
        BY <2>3, <3>1
    <2>7. g[k] = g[k - 1] \o ss[k] /\ h[k] = h[k - 1] \o ss[k]
      BY <1>2, <2>5 DEF IsJoin
    <2>. QED
      BY <2>3, <2>5, <2>6, <2>7
  <1>. QED
    BY <1>1, <1>2, <1>3

--------------------------------------------------------------------------------
(* Runs: the walk of ScheduleMergeTasks over the entries. *)

(* The walk over the entries *)

Run == [first : Nat, last : Nat]

Walks == [runs : Seq(Run), first : Nat, rows : Nat, next : Nat]

(* Runs of unflushed entries, one behind the other *)
RunsOf(runs, entries, start, last) ==
    /\ runs \in Seq(Run)
    /\ \A k \in DOMAIN runs :
          /\ start < runs[k].first
          /\ runs[k].first <= runs[k].last
          /\ runs[k].last <= last
          /\ \A j \in runs[k].first..runs[k].last : ~ entries[j].flushed
    /\ \A k, l \in DOMAIN runs : k < l => runs[k].last < runs[l].first

(* A set of numbers above start without a gap *)
LEMMA NoGap ==
    ASSUME NEW start \in Nat, NEW bound \in Nat, NEW S \in SUBSET ((start + 1)..bound),
           \A i \in S : \A j \in (start + 1)..i : j \in S
    PROVE  Cardinality(S) \in Nat /\ S = (start + 1)..(start + Cardinality(S))
  <1>1. IsFiniteSet(S)
    <2>1. IsFiniteSet((start + 1)..bound)
      BY FS_Interval
    <2>. QED
      BY <2>1, FS_Subset
  <1>2. CASE S = {}
    <2>1. Cardinality(S) = 0
      BY <1>2, FS_EmptySet
    <2>2. (start + 1)..start = {}
      OBVIOUS
    <2>. QED
      BY <1>2, <2>1, <2>2
  <1>3. CASE S # {}
    <2>1. S \in SUBSET Int
      OBVIOUS
    <2>2. PICK m \in S : \A j \in S : j <= m
      <3>1. Max(S) \in S /\ \A j \in S : j <= Max(S)
        BY <1>1, <1>3, <2>1, MinMax
      <3>. QED
        BY <3>1
    <2>3. S = (start + 1)..m /\ m \in Nat /\ m >= start
      <3>1. m \in Nat /\ m > start
        BY <2>2
      <3>2. \A j \in S : j \in (start + 1)..m
        BY <2>2, <3>1
      <3>3. \A j \in (start + 1)..m : j \in S
        BY <2>2
      <3>4. S = (start + 1)..m
        BY <3>2, <3>3
      <3>. QED
        BY <3>1, <3>4
    <2>4. Cardinality(S) = m - start
      <3>1. start + 1 \in Int /\ m \in Int
        BY <2>3
      <3>2. Cardinality((start + 1)..m) = IF start + 1 > m THEN 0 ELSE m - (start + 1) + 1
        BY <3>1, FS_Interval
      <3>. QED
        BY <2>3, <3>2
    <2>5. start + Cardinality(S) = m
      BY <2>3, <2>4
    <2>. QED
      BY <2>3, <2>4, <2>5
  <1>. QED
    BY <1>2, <1>3

(* The entries examined are an interval. *)
LEMMA ExaminedIs ==
    ASSUME NEW entries \in Seq(Entry), NEW min, gstate.nextStart \in Nat
    PROVE  LET last == gstate.nextStart + Cardinality(Examined(entries, min))
           IN  last \in Nat /\ Examined(entries, min) = (gstate.nextStart + 1)..last
  <1>. DEFINE S == Examined(entries, min)
              start == gstate.nextStart
              bound == Len(entries)
  <1>1. DOMAIN entries = 1..bound /\ bound \in Nat
    BY SeqElements
  <1>2. \A i \in S : i \in Nat /\ i > start /\ i <= bound
    BY <1>1 DEF Examined
  <1>3. \A i \in S : \A j \in (start + 1)..i : j \in S
    <2>1. SUFFICES ASSUME NEW i \in S, NEW j \in (start + 1)..i PROVE j \in S
      OBVIOUS
    <2>2. j \in DOMAIN entries /\ j > start
      BY <1>1, <1>2, <2>1
    <2>3. \A k \in (start + 1)..j : k \in (start + 1)..i
      BY <1>2
    <2>. QED
      BY <2>2, <2>3 DEF Examined
  <1>. HIDE DEF S
  <1>4. S \in SUBSET ((start + 1)..bound)
    BY <1>1, <1>2
  <1>. HIDE DEF bound, start
  <1>5. Cardinality(S) \in Nat /\ S = (start + 1)..(start + Cardinality(S))
    BY <1>1, <1>3, <1>4, NoGap DEF start
  <1>. QED
    BY <1>5 DEF S, start

(* A step of the walk *)
LEMMA WalkType ==
    ASSUME NEW entries \in Seq(Entry), NEW i \in DOMAIN entries, NEW walk \in Walks
    PROVE  Walk(entries, walk, i) \in Walks
  <1>1. entries[i].rows \in Nat /\ i \in Nat /\ i >= 1
    <2>1. entries[i] \in Entry /\ i \in Nat /\ i >= 1
      BY SeqElements
    <2>. QED
      BY <2>1 DEF Entry
  <1>2. walk.runs \in Seq(Run) /\ walk.first \in Nat /\ walk.rows \in Nat
        /\ walk.next \in Nat
    BY DEF Walks
  <1>3. [first |-> walk.first, last |-> i] \in Run
        /\ [first |-> walk.first, last |-> i - 1] \in Run
    BY <1>1, <1>2 DEF Run
  <1>. DEFINE run == [first |-> walk.first, last |-> i]
  <1>4. [run EXCEPT !.last = i - 1] = [first |-> walk.first, last |-> i - 1]
    OBVIOUS
  <1>5. /\ Append(walk.runs, run) \in Seq(Run)
        /\ Append(walk.runs, [run EXCEPT !.last = i - 1]) \in Seq(Run)
    BY <1>2, <1>3, <1>4, AppendProperties
  <1>6. walk.rows + entries[i].rows \in Nat /\ i + 1 \in Nat
    BY <1>1, <1>2
  <1>7. CASE entries[i].flushed
    <2>1. Walk(entries, walk, i) =
             [runs |-> IF walk.rows > 0
                       THEN Append(walk.runs, [run EXCEPT !.last = i - 1])
                       ELSE walk.runs,
              first |-> i + 1, rows |-> 0, next |-> i]
      BY <1>7 DEF Walk
    <2>. HIDE DEF run
    <2>. QED
      BY <1>1, <1>2, <1>5, <1>6, <2>1 DEF Walks
  <1>8. CASE ~ entries[i].flushed /\ ReadyToMerge(walk.rows + entries[i].rows)
    <2>1. Walk(entries, walk, i) =
             [runs |-> Append(walk.runs, run), first |-> i + 1, rows |-> 0,
              next |-> walk.next]
      BY <1>8 DEF Walk, Walks
    <2>. HIDE DEF run
    <2>. QED
      BY <1>1, <1>2, <1>5, <1>6, <2>1 DEF Walks
  <1>9. CASE ~ entries[i].flushed /\ ~ ReadyToMerge(walk.rows + entries[i].rows)
    <2>1. Walk(entries, walk, i) =
             [runs |-> walk.runs, first |-> walk.first,
              rows |-> walk.rows + entries[i].rows, next |-> walk.next]
      BY <1>9 DEF Walk, Walks
    <2>. QED
      BY <1>1, <1>2, <1>6, <2>1 DEF Walks
  <1>. QED
    BY <1>7, <1>8, <1>9

(* Runs is the walk over all examined entries. *)
IsWalk(w, entries, start, last) ==
    /\ w[start] = [runs |-> <<>>, first |-> start + 1, rows |-> 0, next |-> start]
    /\ \A i \in (start + 1)..last : w[i] = Walk(entries, w[i - 1], i)

(* The walk as a function on the examined positions. *)
LEMMA RunsAreWalked ==
    ASSUME NEW entries \in Seq(Entry), NEW min, gstate.nextStart \in Nat
    PROVE  LET start == gstate.nextStart
               last == start + Cardinality(Examined(entries, min))
           IN  \E w \in [start..last -> Walks] :
                  IsWalk(w, entries, start, last) /\ Runs(entries, min) = w[last]
  <1>. DEFINE start == gstate.nextStart
              last == start + Cardinality(Examined(entries, min))
              base == [runs |-> <<>>, first |-> start + 1, rows |-> 0, next |-> start]
              Is(w) == w = [i \in start..last |->
                               IF i = start
                               THEN [runs |-> <<>>, first |-> i + 1, rows |-> 0, next |-> i]
                               ELSE Walk(entries, w[i - 1], i)]
              walk == CHOOSE w : Is(w)
              F == [p \in (start..last) \X Walks |->
                       IF p[1] = start THEN p[2] ELSE Walk(entries, p[2], p[1])]
  <1>1. last \in Nat /\ start \in Nat /\ start <= last
        /\ \A i \in (start + 1)..last : i \in DOMAIN entries
    <2>1. last \in Nat /\ Examined(entries, min) = (start + 1)..last
      BY ExaminedIs
    <2>2. Examined(entries, min) \subseteq DOMAIN entries
      BY DEF Examined
    <2>3. Cardinality(Examined(entries, min)) \in Nat
      <3>1. IsFiniteSet((start + 1)..last)
        BY <2>1, FS_Interval
      <3>. QED
        BY <2>1, <3>1, FS_CardinalityType
    <2>. QED
      BY <2>1, <2>2, <2>3
  <1>2. Runs(entries, min) = walk[last]
    BY Zenon DEF Runs
  <1>3. base \in Walks
    <2>1. <<>> \in Seq(Run)
      BY EmptySeq
    <2>. QED
      BY <1>1, <2>1 DEF Walks
  <1>. HIDE DEF last
  <1>4. F \in [(start..last) \X Walks -> Walks]
    <2>1. ASSUME NEW i \in start..last, NEW w \in Walks, i # start
          PROVE  Walk(entries, w, i) \in Walks
      <3>1. i \in (start + 1)..last
        BY <1>1, <2>1
      <3>. QED
        BY <1>1, <3>1, WalkType
    <2>. QED
      BY <2>1
  <1>5. PICK f \in [start..last -> Walks] :
           \A i \in start..last : f[i] = IF i = start THEN base ELSE F[<<i, f[i - 1]>>]
    <2>. HIDE DEF F, base, start
    <2>1. Recursion(start, last, Walks, base, F)
      BY <1>1, <1>3, <1>4 DEF Recursion
    <2>. QED
      BY <2>1, PrefixRecursion
  <1>6. Is(f)
    <2>1. ASSUME NEW i \in start..last, i # start
          PROVE  f[i] = Walk(entries, f[i - 1], i)
      <3>1. i - 1 \in start..last /\ f[i - 1] \in Walks
        BY <1>1, <2>1
      <3>2. <<i, f[i - 1]>> \in (start..last) \X Walks
        BY <3>1
      <3>3. F[<<i, f[i - 1]>>] = Walk(entries, f[i - 1], i)
        BY <2>1, <3>2
      <3>. QED
        BY <1>5, <2>1, <3>3
    <2>2. ASSUME NEW i \in start..last, i = start
          PROVE  f[i] = [runs |-> <<>>, first |-> i + 1, rows |-> 0, next |-> i]
      BY <1>5, <2>2
    <2>3. \A i \in start..last :
             f[i] = IF i = start
                    THEN [runs |-> <<>>, first |-> i + 1, rows |-> 0, next |-> i]
                    ELSE Walk(entries, f[i - 1], i)
      BY <2>1, <2>2
    <2>. QED
      BY <2>3
  <1>7. Is(walk)
    <2>. HIDE DEF Is
    <2>. QED
      BY <1>6
  <1>. HIDE DEF walk
  <1>8. walk[start] = base
    BY <1>1, <1>7
  <1>9. \A i \in start..last : i # start => walk[i] = Walk(entries, walk[i - 1], i)
    BY <1>7
  <1>10. \A i \in start..last : walk[i] \in Walks
    <2>. DEFINE Counter == {i \in start..last : walk[i] \notin Walks}
    <2>1. SUFFICES ASSUME Counter # {} PROVE FALSE
      OBVIOUS
    <2>2. Counter \subseteq Nat
      BY <1>1
    <2>3. PICK k \in Counter : \A m \in Counter : k <= m
      BY <2>1, <2>2, LeastNat
    <2>4. k # start
      BY <1>3, <1>8, <2>3
    <2>5. k - 1 \in start..last /\ k \in (start + 1)..last /\ k \in start..last
      BY <1>1, <2>3, <2>4
    <2>6. k - 1 \notin Counter
      <3>1. ~ (k <= k - 1)
        BY <1>1, <2>5
      <3>. HIDE DEF Counter
      <3>. QED
        BY <2>3, <3>1
    <2>7. walk[k] \in Walks
      <3>1. walk[k - 1] \in Walks
        BY <2>5, <2>6
      <3>2. walk[k] = Walk(entries, walk[k - 1], k)
        BY <1>9, <2>4, <2>5
      <3>. QED
        BY <1>1, <2>5, <3>1, <3>2, WalkType
    <2>. QED
      BY <2>3, <2>7
  <1>11. walk \in [start..last -> Walks]
    <2>1. walk = [i \in start..last |-> IF i = start THEN base
                                        ELSE Walk(entries, walk[i - 1], i)]
      BY <1>7
    <2>. QED
      BY <1>10, <2>1
  <1>12. IsWalk(walk, entries, start, last)
    <2>1. \A i \in (start + 1)..last : i \in start..last /\ i # start
      BY <1>1
    <2>. QED
      BY <1>8, <1>9, <2>1 DEF IsWalk
  <1>. QED
    BY <1>2, <1>11, <1>12 DEF last

(* A run behind the others may be added. *)
LEMMA RunsAppend ==
    ASSUME NEW entries, NEW start \in Nat, NEW bound \in Nat, NEW last \in Nat,
           start <= bound, NEW runs, RunsOf(runs, entries, start, bound),
           NEW run \in Run, bound < run.first, run.first <= run.last,
           run.last <= last, \A j \in run.first..run.last : ~ entries[j].flushed
    PROVE  RunsOf(Append(runs, run), entries, start, last)
  <1>. DEFINE n == Len(runs)
              more == Append(runs, run)
  <1>1. runs \in Seq(Run) /\ n \in Nat /\ DOMAIN runs = 1..n
    BY SeqElements DEF RunsOf
  <1>2. /\ more \in Seq(Run) /\ DOMAIN more = 1..(n + 1)
        /\ \A k \in 1..n : more[k] = runs[k]
        /\ more[n + 1] = run
    BY <1>1, AppendProperties
  <1>3. run.first \in Nat /\ run.last \in Nat
    BY DEF Run
  <1>4. \A k \in 1..n : /\ runs[k].first \in Nat /\ runs[k].last \in Nat
                        /\ start < runs[k].first
                        /\ runs[k].first <= runs[k].last
                        /\ runs[k].last <= bound
                        /\ \A j \in runs[k].first..runs[k].last : ~ entries[j].flushed
    <2>1. \A k \in 1..n : runs[k] \in Run
      BY <1>1, SeqElements
    <2>. QED
      BY <1>1, <2>1 DEF RunsOf, Run
  <1>. HIDE DEF more, n
  <1>5. ASSUME NEW k \in 1..(n + 1)
        PROVE  /\ start < more[k].first
               /\ more[k].first <= more[k].last
               /\ more[k].last <= last
               /\ \A j \in more[k].first..more[k].last : ~ entries[j].flushed
    <2>1. CASE k \in 1..n
      BY <1>2, <1>3, <1>4, <2>1, SMTT(30)
    <2>2. CASE k = n + 1
      BY <1>2, <1>3, <2>2
    <2>. QED
      BY <1>1, <2>1, <2>2
  <1>6. ASSUME NEW k \in 1..(n + 1), NEW l \in 1..(n + 1), k < l
        PROVE  more[k].last < more[l].first
    <2>1. k \in 1..n
      BY <1>1, <1>6
    <2>2. CASE l \in 1..n
      BY <1>1, <1>2, <1>6, <2>1, <2>2 DEF RunsOf
    <2>3. CASE l = n + 1
      BY <1>2, <1>3, <1>4, <2>1, <2>3
    <2>. QED
      BY <1>1, <2>2, <2>3
  <1>. QED
    BY <1>2, <1>5, <1>6 DEF RunsOf, more

(* The bound of the runs may be later. *)
LEMMA RunsWiden ==
    ASSUME NEW entries, NEW start, NEW bound \in Int, NEW last \in Int,
           bound <= last, NEW runs, RunsOf(runs, entries, start, bound)
    PROVE  RunsOf(runs, entries, start, last)
  <1>1. \A k \in DOMAIN runs : runs[k].last \in Int /\ runs[k].last <= bound
    <2>1. \A k \in DOMAIN runs : runs[k] \in Run /\ runs[k].last <= bound
      BY SeqElements DEF RunsOf
    <2>. QED
      BY <2>1 DEF Run
  <1>2. \A k \in DOMAIN runs : runs[k].last <= last
    BY <1>1
  <1>. QED
    BY <1>2 DEF RunsOf

(* What the walk has found up to entry i *)
WalkOk(w, entries, start, i) ==
    /\ start < w.first /\ w.first <= i + 1
    /\ w.rows > 0 => w.first <= i
    /\ \A j \in w.first..i : ~ entries[j].flushed
    /\ RunsOf(w.runs, entries, start, w.first - 1)

(* A step of Walk keeps WalkOk: runs never hold a flushed entry. *)
LEMMA WalkKeeps ==
    ASSUME NEW entries \in Seq(Entry), NEW start \in Nat, NEW i \in DOMAIN entries,
           start < i, NEW w \in Walks, WalkOk(w, entries, start, i - 1)
    PROVE  WalkOk(Walk(entries, w, i), entries, start, i)
  <1>1. i \in Nat /\ i >= 1 /\ entries[i].rows \in Nat /\ entries[i].flushed \in BOOLEAN
    <2>1. entries[i] \in Entry /\ i \in Nat /\ i >= 1
      BY SeqElements
    <2>. QED
      BY <2>1 DEF Entry
  <1>2. w.first \in Nat /\ w.rows \in Nat
    BY DEF Walks
  <1>3. /\ start < w.first /\ w.first <= i
        /\ w.rows > 0 => w.first <= i - 1
        /\ \A j \in w.first..(i - 1) : ~ entries[j].flushed
        /\ RunsOf(w.runs, entries, start, w.first - 1)
    BY <1>1, <1>2 DEF WalkOk
  <1>4. w.first - 1 \in Nat /\ start <= w.first - 1
    BY <1>2, <1>3
  <1>5. CASE entries[i].flushed /\ w.rows > 0
    <2>. DEFINE run == [first |-> w.first, last |-> i - 1]
    <2>1. /\ Walk(entries, w, i).runs = Append(w.runs, run)
          /\ Walk(entries, w, i).first = i + 1
          /\ Walk(entries, w, i).rows = 0
      BY <1>5 DEF Walk
    <2>2. run \in Run /\ run.first = w.first /\ run.last = i - 1
      BY <1>1, <1>2 DEF Run
    <2>3. RunsOf(Append(w.runs, run), entries, start, i)
      <3>. DEFINE bound == w.first - 1
                  runs == w.runs
      <3>1. /\ bound \in Nat /\ start <= bound /\ RunsOf(runs, entries, start, bound)
            /\ bound < run.first /\ run.first <= run.last /\ run.last <= i
            /\ \A j \in run.first..run.last : ~ entries[j].flushed
        BY <1>1, <1>2, <1>3, <1>4, <1>5
      <3>. HIDE DEF run, bound, runs
      <3>2. RunsOf(Append(runs, run), entries, start, i)
        BY <1>1, <2>2, <3>1, RunsAppend
      <3>. QED
        BY <3>2 DEF runs
    <2>4. ~ (0 > 0) /\ (i + 1) - 1 = i /\ (i + 1)..i = {}
      BY <1>1
    <2>. QED
      BY <1>1, <1>3, <2>1, <2>3, <2>4 DEF WalkOk
  <1>6. CASE entries[i].flushed /\ ~ (w.rows > 0)
    <2>1. /\ Walk(entries, w, i).runs = w.runs
          /\ Walk(entries, w, i).first = i + 1
          /\ Walk(entries, w, i).rows = 0
      BY <1>6 DEF Walk
    <2>2. RunsOf(w.runs, entries, start, i)
      <3>. DEFINE bound == w.first - 1
                  runs == w.runs
      <3>1. /\ bound \in Int /\ i \in Int /\ bound <= i
            /\ RunsOf(runs, entries, start, bound)
        BY <1>1, <1>2, <1>3, <1>4
      <3>. HIDE DEF bound, runs
      <3>2. RunsOf(runs, entries, start, i)
        BY <3>1, RunsWiden
      <3>. QED
        BY <3>2 DEF runs
    <2>4. ~ (0 > 0) /\ (i + 1) - 1 = i /\ (i + 1)..i = {}
      BY <1>1
    <2>. QED
      BY <1>1, <1>3, <2>1, <2>2, <2>4 DEF WalkOk
  <1>7. CASE ~ entries[i].flushed /\ ReadyToMerge(w.rows + entries[i].rows)
    <2>. DEFINE run == [first |-> w.first, last |-> i]
    <2>1. /\ Walk(entries, w, i).runs = Append(w.runs, run)
          /\ Walk(entries, w, i).first = i + 1
          /\ Walk(entries, w, i).rows = 0
      BY <1>7 DEF Walk, Walks
    <2>2. run \in Run /\ run.first = w.first /\ run.last = i
      BY <1>1, <1>2 DEF Run
    <2>3. \A j \in w.first..i : ~ entries[j].flushed
      BY <1>1, <1>2, <1>3, <1>7
    <2>5. RunsOf(Append(w.runs, run), entries, start, i)
      <3>. DEFINE bound == w.first - 1
                  runs == w.runs
      <3>1. /\ bound \in Nat /\ start <= bound /\ RunsOf(runs, entries, start, bound)
            /\ bound < run.first /\ run.first <= run.last /\ run.last <= i
            /\ \A j \in run.first..run.last : ~ entries[j].flushed
        BY <1>1, <1>2, <1>3, <1>4, <2>3
      <3>. HIDE DEF run, bound, runs
      <3>2. RunsOf(Append(runs, run), entries, start, i)
        BY <1>1, <2>2, <3>1, RunsAppend
      <3>. QED
        BY <3>2 DEF runs
    <2>4. ~ (0 > 0) /\ (i + 1) - 1 = i /\ (i + 1)..i = {}
      BY <1>1
    <2>. QED
      BY <1>1, <1>3, <2>1, <2>5, <2>4 DEF WalkOk
  <1>8. CASE ~ entries[i].flushed /\ ~ ReadyToMerge(w.rows + entries[i].rows)
    <2>1. /\ Walk(entries, w, i).runs = w.runs
          /\ Walk(entries, w, i).first = w.first
      BY <1>8 DEF Walk, Walks
    <2>3. \A j \in w.first..i : ~ entries[j].flushed
      BY <1>1, <1>2, <1>3, <1>8
    <2>. QED
      BY <1>1, <1>2, <1>3, <2>1, <2>3 DEF WalkOk
  <1>. QED
    BY <1>5, <1>6, <1>7, <1>8

(* Runs finds runs of unflushed entries, up to the minimum batch. *)
LEMMA RunsFound ==
    ASSUME NEW entries \in Seq(Entry), NEW min, gstate.nextStart \in Nat
    PROVE  /\ Runs(entries, min).next \in Nat
           /\ \E last \in Nat :
                 /\ RunsOf(Runs(entries, min).runs, entries, gstate.nextStart, last)
                 /\ \A j \in (gstate.nextStart + 1)..last :
                       j \in DOMAIN entries /\ entries[j].batch <= min
  <1>. DEFINE start == gstate.nextStart
              last == start + Cardinality(Examined(entries, min))
  <1>1. last \in Nat /\ Examined(entries, min) = (start + 1)..last
    BY ExaminedIs
  <1>2. PICK w \in [start..last -> Walks] :
           IsWalk(w, entries, start, last) /\ Runs(entries, min) = w[last]
    BY RunsAreWalked
  <1>3. start <= last
    <2>1. Cardinality(Examined(entries, min)) \in Nat
      <3>1. IsFiniteSet((start + 1)..last)
        BY <1>1, FS_Interval
      <3>. QED
        BY <1>1, <3>1, FS_CardinalityType
    <2>. QED
      BY <2>1
  <1>4. \A j \in (start + 1)..last : j \in DOMAIN entries /\ entries[j].batch <= min
    <2>1. SUFFICES ASSUME NEW j \in (start + 1)..last
                   PROVE  j \in DOMAIN entries /\ entries[j].batch <= min
      OBVIOUS
    <2>2. j \in Examined(entries, min) /\ j \in (start + 1)..j
      BY <1>1
    <2>. QED
      BY <2>2 DEF Examined
  <1>. HIDE DEF last
  <1>5. \A i \in start..last : WalkOk(w[i], entries, start, i)
    <2>. DEFINE Counter == {i \in start..last : ~ WalkOk(w[i], entries, start, i)}
    <2>1. SUFFICES ASSUME Counter # {} PROVE FALSE
      OBVIOUS
    <2>2. Counter \subseteq Nat
      OBVIOUS
    <2>3. PICK k \in Counter : \A m \in Counter : k <= m
      BY <2>1, <2>2, LeastNat
    <2>4. k # start
      <3>1. /\ w[start].first = start + 1 /\ w[start].rows = 0
            /\ w[start].runs = <<>>
        BY <1>2 DEF IsWalk
      <3>2. RunsOf(<<>>, entries, start, (start + 1) - 1)
        <4>1. <<>> \in Seq(Run) /\ DOMAIN <<>> = {}
          BY EmptySeq
        <4>. QED
          BY <4>1 DEF RunsOf
      <3>3. ~ (0 > 0) /\ (start + 1)..start = {} /\ start < start + 1
            /\ start + 1 <= start + 1
        OBVIOUS
      <3>4. WalkOk(w[start], entries, start, start)
        BY <3>1, <3>2, <3>3 DEF WalkOk
      <3>. QED
        BY <2>3, <3>4
    <2>5. k - 1 \in start..last /\ k \in (start + 1)..last /\ k \in start..last
      BY <1>1, <2>3, <2>4
    <2>6. k - 1 \notin Counter
      <3>1. ~ (k <= k - 1)
        BY <2>5
      <3>. HIDE DEF Counter
      <3>. QED
        BY <2>3, <3>1
    <2>7. WalkOk(w[k - 1], entries, start, k - 1) /\ w[k - 1] \in Walks
      BY <2>5, <2>6
    <2>8. w[k] = Walk(entries, w[k - 1], k) /\ k \in DOMAIN entries /\ start < k
      BY <1>2, <1>4, <2>5 DEF IsWalk
    <2>9. WalkOk(w[k], entries, start, k)
      BY <2>7, <2>8, WalkKeeps
    <2>. QED
      BY <2>3, <2>9
  <1>6. last \in start..last /\ w[last] \in Walks
    BY <1>1, <1>3
  <1>7. RunsOf(w[last].runs, entries, start, last)
    <2>1. w[last].first \in Nat /\ w[last].first - 1 <= last
          /\ RunsOf(w[last].runs, entries, start, w[last].first - 1)
      BY <1>1, <1>5, <1>6 DEF WalkOk, Walks
    <2>. QED
      BY <1>1, <2>1, RunsWiden
  <1>8. w[last].next \in Nat
    BY <1>6 DEF Walks
  <1>. QED
    BY <1>1, <1>2, <1>4, <1>7, <1>8

--------------------------------------------------------------------------------
(* EntriesAfter: what the runs leave. *)

InBatchOrder(entries) ==
    \A i, j \in DOMAIN entries : i < j => entries[i].batch < entries[j].batch

Heads(runs) == {runs[k].first : k \in DOMAIN runs}

Erased(runs) == UNION {(runs[k].first + 1)..runs[k].last : k \in DOMAIN runs}

Pending(e) == [e EXCEPT !.coll = 0, !.flushed = TRUE]

(* What is left of entry i *)
Remains(entries, runs, i) ==
    IF i \in Heads(runs) THEN Pending(entries[i]) ELSE entries[i]

(* The entry left of a run is one without a collection, flushed. *)
LEMMA PendingEntry ==
    ASSUME Batches \in Nat, NEW e \in Entry
    PROVE  /\ Pending(e) \in Entry /\ Pending(e).batch = e.batch
           /\ Pending(e).coll = 0 /\ Pending(e).flushed
  <1>. DEFINE e1 == [e EXCEPT !.coll = 0]
              e2 == [e1 EXCEPT !.flushed = TRUE]
  <1>1. Pending(e) = e2
    BY DEF Pending, Entry
  <1>2. e1 \in Entry /\ e1.batch = e.batch /\ e1.coll = 0
    BY DEF Entry
  <1>3. e2 \in Entry /\ e2.batch = e1.batch /\ e2.coll = e1.coll /\ e2.flushed
    <2>. HIDE DEF e1
    <2>. QED
      BY <1>2 DEF Entry
  <1>. HIDE DEF e1, e2
  <1>. QED
    BY <1>1, <1>2, <1>3

(* What is left is an entry of the same batch. *)
LEMMA RemainsEntry ==
    ASSUME Batches \in Nat, NEW entries \in Seq(Entry), NEW runs,
           NEW i \in DOMAIN entries
    PROVE  /\ Remains(entries, runs, i) \in Entry
           /\ Remains(entries, runs, i).batch = entries[i].batch
  <1>1. entries[i] \in Entry
    BY SeqElements
  <1>. QED
    BY <1>1, PendingEntry DEF Remains

(* An element behind all others *)
LEMMA AppendInOrder ==
    ASSUME Batches \in Nat, NEW s \in Seq(Entry), InBatchOrder(s), NEW e \in Entry,
           \A f \in ToSet(s) : f.batch < e.batch
    PROVE  /\ s \o <<e>> \in Seq(Entry)
           /\ InBatchOrder(s \o <<e>>)
           /\ ToSet(s \o <<e>>) = ToSet(s) \cup {e}
  <1>. DEFINE n == Len(s)
              more == s \o <<e>>
  <1>1. /\ n \in Nat /\ DOMAIN s = 1..n /\ ToSet(s) = {s[i] : i \in DOMAIN s}
        /\ \A i \in 1..n : s[i] \in Entry
    BY SeqElements
  <1>2. /\ more \in Seq(Entry) /\ Len(more) = n + 1
        /\ \A i \in 1..n : more[i] = s[i]
        /\ more[n + 1] = e
    <2>1. <<e>> \in Seq(Entry) /\ Len(<<e>>) = 1 /\ <<e>>[1] = e
      OBVIOUS
    <2>. QED
      BY <1>1, <2>1, ConcatProperties
  <1>3. DOMAIN more = 1..(n + 1) /\ ToSet(more) = {more[i] : i \in DOMAIN more}
    <2>. HIDE DEF more
    <2>. QED
      BY <1>2, SeqElements
  <1>. HIDE DEF more, n
  <1>4. ToSet(more) = ToSet(s) \cup {e}
    <2>1. \A i \in 1..n : i \in 1..(n + 1)
      BY <1>1
    <2>2. \A i \in 1..(n + 1) : i \in 1..n \/ i = n + 1
      BY <1>1
    <2>3. n + 1 \in 1..(n + 1)
      BY <1>1
    <2>4. ToSet(more) \subseteq ToSet(s) \cup {e}
      BY <1>1, <1>2, <1>3, <2>2
    <2>5. ToSet(s) \cup {e} \subseteq ToSet(more)
      BY <1>1, <1>2, <1>3, <2>1, <2>3
    <2>. QED
      BY <2>4, <2>5
  <1>5. ASSUME NEW i \in DOMAIN more, NEW j \in DOMAIN more, i < j
        PROVE  more[i].batch < more[j].batch
    <2>1. i \in 1..n /\ more[i] = s[i] /\ s[i] \in ToSet(s)
      BY <1>1, <1>2, <1>3, <1>5
    <2>2. CASE j \in 1..n
      BY <1>1, <1>2, <1>5, <2>1, <2>2 DEF InBatchOrder
    <2>3. CASE j = n + 1
      BY <1>2, <2>1, <2>3
    <2>. QED
      BY <1>1, <1>3, <2>2, <2>3
  <1>6. InBatchOrder(more)
    BY <1>5 DEF InBatchOrder
  <1>. QED
    BY <1>2, <1>4, <1>6 DEF more

(* EntriesAfter keeps the entries that no run erases. *)
LEMMA AfterIs ==
    ASSUME Batches \in Nat, NEW entries \in Seq(Entry), InBatchOrder(entries), NEW runs
    PROVE  LET after == EntriesAfter(entries, runs)
           IN  /\ after \in Seq(Entry)
               /\ InBatchOrder(after)
               /\ ToSet(after) = {Remains(entries, runs, i) :
                                     i \in DOMAIN entries \ Erased(runs)}
  <1>. DEFINE n == Len(entries)
              after == EntriesAfter(entries, runs)
              Left(i) == IF i \in Erased(runs) THEN <<>>
                         ELSE <<Remains(entries, runs, i)>>
              ss == [i \in DOMAIN entries |-> Left(i)]
              Kept(i) == {Remains(entries, runs, j) : j \in (1..i) \ Erased(runs)}
              Ok(s, i) == /\ s \in Seq(Entry) /\ InBatchOrder(s)
                          /\ ToSet(s) = Kept(i)
  <1>1. n \in Nat /\ DOMAIN entries = 1..n
    BY SeqElements
  <1>2. after = FlattenSeq(ss)
    <2>1. \A i \in DOMAIN entries :
             Left(i) = IF i \in Erased(runs) THEN <<>>
                       ELSE IF i \in Heads(runs)
                       THEN <<[entries[i] EXCEPT !.coll = 0, !.flushed = TRUE]>>
                       ELSE <<entries[i]>>
      BY DEF Remains, Pending
    <2>2. ss = [i \in DOMAIN entries |->
                   IF i \in Erased(runs) THEN <<>>
                   ELSE IF i \in Heads(runs)
                   THEN <<[entries[i] EXCEPT !.coll = 0, !.flushed = TRUE]>>
                   ELSE <<entries[i]>>]
      BY <2>1
    <2>. HIDE DEF ss
    <2>. QED
      BY <2>2, Zenon DEF EntriesAfter, Erased, Heads
  <1>3. \A i \in 1..n : Remains(entries, runs, i) \in Entry
                        /\ Remains(entries, runs, i).batch = entries[i].batch
    BY <1>1, RemainsEntry
  <1>4. ss \in Seq(Seq(Entry)) /\ Len(ss) = n
    <2>1. \A i \in 1..n : Left(i) \in Seq(Entry)
      <3>1. \A e \in Entry : <<e>> \in Seq(Entry)
        OBVIOUS
      <3>. QED
        BY <1>3, <3>1, EmptySeq
    <2>2. ss \in [1..n -> Seq(Entry)]
      BY <1>1, <2>1
    <2>. HIDE DEF ss
    <2>. QED
      BY <1>1, <2>2, SeqDef, LenProperties
  <1>5. PICK g \in [0..n -> Seq(Entry)] : IsJoin(g, ss) /\ FlattenSeq(ss) = g[n]
    <2>. HIDE DEF ss
    <2>. QED
      BY <1>4, FlattenJoins
  <1>6. g[0] = <<>> /\ \A i \in 1..n : g[i] = g[i - 1] \o Left(i)
    BY <1>1, <1>4, <1>5 DEF IsJoin
  <1>. HIDE DEF n, ss, after
  <1>7. \A i \in 0..n : Ok(g[i], i)
    <2>. DEFINE Counter == {i \in 0..n : ~ Ok(g[i], i)}
    <2>1. SUFFICES ASSUME Counter # {} PROVE FALSE
      OBVIOUS
    <2>2. Counter \subseteq Nat
      OBVIOUS
    <2>3. PICK k \in Counter : \A m \in Counter : k <= m
      BY <2>1, <2>2, LeastNat
    <2>4. k # 0
      <3>1. ToSet(<<>>) = {} /\ <<>> \in Seq(Entry) /\ DOMAIN <<>> = {}
        BY EmptySeq DEF ToSet
      <3>2. Kept(0) = {}
        OBVIOUS
      <3>3. Ok(g[0], 0)
        BY <1>6, <3>1, <3>2 DEF InBatchOrder
      <3>. QED
        BY <2>3, <3>3
    <2>5. k - 1 \in 0..n /\ k \in 1..n /\ k \in 0..n
      BY <1>1, <2>3, <2>4
    <2>6. k - 1 \notin Counter
      <3>1. ~ (k <= k - 1)
        BY <2>5
      <3>. HIDE DEF Counter
      <3>. QED
        BY <2>3, <3>1
    <2>7. Ok(g[k - 1], k - 1) /\ g[k] = g[k - 1] \o Left(k)
      BY <1>6, <2>5, <2>6
    <2>8. (1..k) \ Erased(runs) = ((1..(k - 1)) \ Erased(runs)) \cup ({k} \ Erased(runs))
      BY <2>5
    <2>9. CASE k \in Erased(runs)
      <3>1. Left(k) = <<>> /\ Kept(k) = Kept(k - 1)
        BY <2>8, <2>9
      <3>2. g[k] = g[k - 1]
        BY <2>7, <3>1, ConcatEmptySeq
      <3>3. Ok(g[k], k)
        BY <2>7, <3>1, <3>2
      <3>. QED
        BY <2>3, <3>3
    <2>10. CASE k \notin Erased(runs)
      <3>. DEFINE e == Remains(entries, runs, k)
      <3>1. Left(k) = <<e>> /\ Kept(k) = Kept(k - 1) \cup {e}
        BY <2>8, <2>10
      <3>2. e \in Entry /\ e.batch = entries[k].batch
        BY <1>3, <2>5
      <3>3. \A f \in Kept(k - 1) : f.batch < e.batch
        <4>1. SUFFICES ASSUME NEW j \in 1..(k - 1)
                       PROVE  Remains(entries, runs, j).batch < e.batch
          OBVIOUS
        <4>2. j \in 1..n /\ j < k /\ k \in 1..n
          BY <1>1, <2>5
        <4>. HIDE DEF e
        <4>. QED
          BY <1>1, <1>3, <3>2, <4>2 DEF InBatchOrder
      <3>. HIDE DEF e, Kept
      <3>4. Ok(g[k - 1] \o <<e>>, k)
        BY <2>7, <3>1, <3>2, <3>3, AppendInOrder
      <3>5. Ok(g[k], k)
        BY <2>7, <3>1, <3>4
      <3>. QED
        BY <2>3, <3>5
    <2>. QED
      BY <2>9, <2>10
  <1>8. Ok(after, n)
    BY <1>1, <1>2, <1>5, <1>7
  <1>. QED
    BY <1>1, <1>8 DEF after

--------------------------------------------------------------------------------
(* The merge tasks of the runs. *)

(* Entries in order *)

(* The elements of a sequence are finitely many. *)
LEMMA ToSetFinite == ASSUME NEW T, NEW s \in Seq(T)
                     PROVE  IsFiniteSet(ToSet(s))
  <1>1. Len(s) \in Nat /\ s \in [1..Len(s) -> T] /\ ToSet(s) = {s[i] : i \in 1..Len(s)}
    BY SeqElements
  <1>2. IsFiniteSet(1..Len(s))
    BY <1>1, FS_Interval
  <1>3. s \in Surjection(1..Len(s), ToSet(s))
    BY <1>1 DEF Surjection
  <1>. QED
    BY <1>2, <1>3, FS_Surjection DEF ExistsSurjection

(* No two entries are of the same batch. *)
LEMMA OrderedApart ==
    ASSUME NEW entries \in Seq(Entry), InBatchOrder(entries)
    PROVE  \A i, j \in DOMAIN entries :
              /\ entries[i].batch <= entries[j].batch => i <= j
              /\ i <= j => entries[i].batch <= entries[j].batch
              /\ entries[i].batch = entries[j].batch => i = j
  <1>1. \A i \in DOMAIN entries : i \in Nat /\ entries[i].batch \in Int
    <2>1. \A i \in DOMAIN entries : i \in Nat /\ entries[i] \in Entry
      BY SeqElements
    <2>. QED
      BY <2>1 DEF Entry, Batch
  <1>. QED
    BY <1>1 DEF InBatchOrder

(* The runs of a walk over entries *)
RunsIn(runs, entries) ==
    \E start \in Nat, last \in Nat :
        /\ RunsOf(runs, entries, start, last)
        /\ \A j \in (start + 1)..last : j \in DOMAIN entries

Part(entries, run) == {entries[i] : i \in run.first..run.last}

Taken(runs) == UNION {runs[k].first..runs[k].last : k \in DOMAIN runs}

(* Runs share no position; every position taken is that of an unflushed entry. *)
LEMMA RunsApart ==
    ASSUME NEW entries \in Seq(Entry), NEW runs, RunsIn(runs, entries)
    PROVE  /\ runs \in Seq(Run)
           /\ \A k \in DOMAIN runs :
                 /\ runs[k].first \in Nat /\ runs[k].last \in Nat
                 /\ runs[k].first <= runs[k].last
                 /\ runs[k].first..runs[k].last \subseteq DOMAIN entries
                 /\ \A i \in runs[k].first..runs[k].last : ~ entries[i].flushed
           /\ \A k, l \in DOMAIN runs :
                 k # l => (runs[k].first..runs[k].last)
                             \cap (runs[l].first..runs[l].last) = {}
           /\ Taken(runs) = Heads(runs) \cup Erased(runs)
           /\ Taken(runs) \subseteq DOMAIN entries
           /\ Heads(runs) \cap Erased(runs) = {}
           /\ \A i \in Taken(runs) : ~ entries[i].flushed
  <1>1. PICK start \in Nat, last \in Nat :
           /\ RunsOf(runs, entries, start, last)
           /\ \A j \in (start + 1)..last : j \in DOMAIN entries
    BY DEF RunsIn
  <1>2. runs \in Seq(Run) /\ \A k \in DOMAIN runs : k \in Nat /\ runs[k] \in Run
    BY <1>1, SeqElements DEF RunsOf
  <1>3. \A k \in DOMAIN runs :
                 /\ runs[k].first \in Nat /\ runs[k].last \in Nat
                 /\ start < runs[k].first
                 /\ runs[k].first <= runs[k].last
                 /\ runs[k].last <= last
                 /\ \A i \in runs[k].first..runs[k].last : ~ entries[i].flushed
    BY <1>1, <1>2 DEF RunsOf, Run
  <1>4. \A k \in DOMAIN runs : \A i \in runs[k].first..runs[k].last : i \in DOMAIN entries
    <2>1. \A k \in DOMAIN runs : \A i \in runs[k].first..runs[k].last : i \in (start + 1)..last
      BY <1>3
    <2>. QED
      BY <1>1, <2>1
  <1>5. ASSUME NEW k \in DOMAIN runs, NEW l \in DOMAIN runs, k # l
        PROVE  (runs[k].first..runs[k].last) \cap (runs[l].first..runs[l].last) = {}
    <2>1. k < l \/ l < k
      BY <1>2, <1>5
    <2>2. runs[k].last < runs[l].first \/ runs[l].last < runs[k].first
      BY <1>1, <2>1 DEF RunsOf
    <2>. QED
      BY <1>3, <2>2
  <1>6. \A k \in DOMAIN runs :
           runs[k].first..runs[k].last
              = {runs[k].first} \cup ((runs[k].first + 1)..runs[k].last)
    BY <1>3
  <1>7. Taken(runs) = Heads(runs) \cup Erased(runs)
    BY <1>6 DEF Taken, Heads, Erased
  <1>8. Heads(runs) \cap Erased(runs) = {}
    <2>1. SUFFICES ASSUME NEW k \in DOMAIN runs, NEW l \in DOMAIN runs,
                          runs[k].first \in (runs[l].first + 1)..runs[l].last
                   PROVE  FALSE
      BY DEF Heads, Erased
    <2>2. runs[k].first \in runs[k].first..runs[k].last
          /\ runs[k].first \in runs[l].first..runs[l].last
      BY <1>3, <2>1
    <2>3. k = l
      BY <1>5, <2>2
    <2>. QED
      BY <1>3, <2>1, <2>3
  <1>9. Taken(runs) \subseteq DOMAIN entries /\ \A i \in Taken(runs) : ~ entries[i].flushed
    BY <1>3, <1>4 DEF Taken
  <1>. QED
    BY <1>2, <1>3, <1>4, <1>5, <1>7, <1>8, <1>9

(* The merge task of a run *)
LEMMA MergeOfIs ==
    ASSUME NEW entries \in Seq(Entry), NEW run \in Run, run.first <= run.last,
           run.first..run.last \subseteq DOMAIN entries
    PROVE  LET m == MergeOf(entries, run)
               n == run.last - run.first + 1
           IN  /\ m.batch = entries[run.first].batch
               /\ m.colls \in [1..n -> 0..Batches]
               /\ \A i \in 1..n : m.colls[i] = entries[run.first + i - 1].coll
               /\ m.memory = SumOf(Part(entries, run))
               /\ m.memory \in Nat
               /\ m = [batch |-> m.batch, colls |-> m.colls, memory |-> m.memory]
  <1>. DEFINE part == SubSeq(entries, run.first, run.last)
              n == run.last - run.first + 1
              m == MergeOf(entries, run)
  <1>1. run.first \in Nat /\ run.last \in Nat /\ n \in Nat /\ n >= 1
    BY DEF Run
  <1>2. DOMAIN entries = 1..Len(entries) /\ Len(entries) \in Nat
        /\ \A i \in DOMAIN entries : entries[i] \in Entry
    BY SeqElements
  <1>3. run.first \in run.first..run.last /\ run.last \in run.first..run.last
    BY <1>1
  <1>4. run.first \in 1..Len(entries) /\ run.last \in 1..Len(entries)
    BY <1>2, <1>3
  <1>5. /\ part \in Seq(Entry) /\ Len(part) = n /\ DOMAIN part = 1..n
        /\ \A i \in 1..n : part[i] = entries[run.first + i - 1]
    <2>. DEFINE a == run.first
                b == run.last
    <2>1. a \in Int /\ b \in Int /\ a <= b /\ n = b - a + 1 /\ n \in Nat
      BY <1>1
    <2>2. \A i \in a..b : entries[i] \in Entry
      BY <1>2
    <2>. HIDE DEF a, b, n
    <2>3. /\ SubSeq(entries, a, b) \in Seq(Entry)
          /\ Len(SubSeq(entries, a, b)) = n
          /\ \A i \in 1..n : SubSeq(entries, a, b)[i] = entries[a + i - 1]
      BY <2>1, <2>2, SubSeqProperties
    <2>4. DOMAIN SubSeq(entries, a, b) = 1..n
      BY <2>3, SeqElements
    <2>5. part = SubSeq(entries, a, b)
      BY DEF a, b
    <2>. HIDE DEF part
    <2>. QED
      BY <2>3, <2>4, <2>5 DEF a
  <1>. HIDE DEF part, n
  <1>6. /\ m.batch = part[1].batch
        /\ m.colls = [i \in DOMAIN part |-> part[i].coll]
        /\ m.memory = SumOf(ToSet(part))
        /\ m = [batch |-> m.batch, colls |-> m.colls, memory |-> m.memory]
    BY DEF MergeOf, part
  <1>7. part[1] = entries[run.first]
    <2>1. 1 \in 1..n /\ run.first + 1 - 1 = run.first
      BY <1>1
    <2>. QED
      BY <1>5, <2>1
  <1>8. ToSet(part) = Part(entries, run)
    <2>1. ToSet(part) = {part[i] : i \in 1..n}
      BY <1>5, SeqElements
    <2>2. \A i \in 1..n : run.first + i - 1 \in run.first..run.last
      BY <1>1 DEF n
    <2>3. \A j \in run.first..run.last : /\ (j - run.first + 1) \in 1..n
                                         /\ run.first + (j - run.first + 1) - 1 = j
      BY <1>1 DEF n
    <2>4. \A i \in 1..n : part[i] \in Part(entries, run)
      BY <1>5, <2>2 DEF Part
    <2>5. \A j \in run.first..run.last : entries[j] \in ToSet(part)
      BY <1>5, <2>1, <2>3
    <2>. QED
      BY <2>1, <2>4, <2>5 DEF Part
  <1>9. SumOf(ToSet(part)) \in Nat
    <2>1. Weighed(ToSet(part))
      <3>1. \A e \in ToSet(part) : e \in Entry
        BY <1>5, SeqElements
      <3>2. IsFiniteSet(ToSet(part))
        BY <1>5, ToSetFinite
      <3>. QED
        BY <3>1, <3>2 DEF Weighed, Entry
    <2>. QED
      BY <2>1, SumOfIs
  <1>10. m.colls \in [1..n -> 0..Batches]
         /\ \A i \in 1..n : m.colls[i] = entries[run.first + i - 1].coll
    <2>1. \A i \in 1..n : part[i] \in Entry
      BY <1>5, SeqElements
    <2>. HIDE DEF m
    <2>. QED
      BY <1>5, <1>6, <2>1 DEF Entry
  <1>. QED
    BY <1>6, <1>7, <1>8, <1>9, <1>10 DEF n

-------------------------------------------------------------------------------
(* The memory of the merge tasks is that of the entries they take. *)

Merges(entries, runs) == [k \in DOMAIN runs |-> MergeOf(entries, runs[k])]

TakenEntries(entries, runs) == {entries[i] : i \in Taken(runs)}

(* No two merge tasks are of the same batch, or take the same entry. *)
LEMMA MergesApart ==
    ASSUME NEW entries \in Seq(Entry), InBatchOrder(entries),
           NEW runs, RunsIn(runs, entries)
    PROVE  /\ \A k \in DOMAIN runs :
                 /\ MergeOf(entries, runs[k]).batch = entries[runs[k].first].batch
                 /\ MergeOf(entries, runs[k]).memory = SumOf(Part(entries, runs[k]))
                 /\ MergeOf(entries, runs[k]).memory \in Nat
                 /\ Part(entries, runs[k]) \subseteq ToSet(entries)
           /\ \A k, l \in DOMAIN runs : k # l =>
                 /\ MergeOf(entries, runs[k]).batch # MergeOf(entries, runs[l]).batch
                 /\ Part(entries, runs[k]) \cap Part(entries, runs[l]) = {}
  <1>1. \A k \in DOMAIN runs :
           /\ runs[k] \in Run /\ runs[k].first \in Nat /\ runs[k].last \in Nat
           /\ runs[k].first <= runs[k].last
           /\ runs[k].first..runs[k].last \subseteq DOMAIN entries
    BY RunsApart, SeqElements
  <1>2. \A k \in DOMAIN runs :
           /\ MergeOf(entries, runs[k]).batch = entries[runs[k].first].batch
           /\ MergeOf(entries, runs[k]).memory = SumOf(Part(entries, runs[k]))
           /\ MergeOf(entries, runs[k]).memory \in Nat
    BY <1>1, MergeOfIs
  <1>3. \A k \in DOMAIN runs : Part(entries, runs[k]) \subseteq ToSet(entries)
    <2>1. ToSet(entries) = {entries[i] : i \in DOMAIN entries}
      BY SeqElements
    <2>. QED
      BY <1>1, <2>1 DEF Part
  <1>4. \A i, j \in DOMAIN entries : entries[i].batch = entries[j].batch => i = j
    BY OrderedApart
  <1>5. ASSUME NEW k \in DOMAIN runs, NEW l \in DOMAIN runs, k # l
        PROVE  /\ MergeOf(entries, runs[k]).batch # MergeOf(entries, runs[l]).batch
               /\ Part(entries, runs[k]) \cap Part(entries, runs[l]) = {}
    <2>1. (runs[k].first..runs[k].last) \cap (runs[l].first..runs[l].last) = {}
      BY <1>5, RunsApart
    <2>2. runs[k].first \in runs[k].first..runs[k].last
          /\ runs[l].first \in runs[l].first..runs[l].last
      BY <1>1
    <2>3. runs[k].first # runs[l].first /\ runs[k].first \in DOMAIN entries
          /\ runs[l].first \in DOMAIN entries
      BY <1>1, <2>1, <2>2
    <2>4. MergeOf(entries, runs[k]).batch # MergeOf(entries, runs[l]).batch
      BY <1>2, <1>4, <2>3
    <2>5. Part(entries, runs[k]) \cap Part(entries, runs[l]) = {}
      <3>1. SUFFICES ASSUME NEW i \in runs[k].first..runs[k].last,
                            NEW j \in runs[l].first..runs[l].last,
                            entries[i] = entries[j]
                     PROVE  FALSE
        BY DEF Part
      <3>2. i \in DOMAIN entries /\ j \in DOMAIN entries
        BY <1>1
      <3>3. i = j
        BY <1>4, <3>1, <3>2
      <3>. QED
        BY <2>1, <3>3
    <2>. QED
      BY <2>4, <2>5
  <1>. QED
    BY <1>2, <1>3, <1>5

(* Entries can be summed over. *)
LEMMA EntriesWeighed ==
    ASSUME NEW entries \in Seq(Entry), NEW S \in SUBSET ToSet(entries)
    PROVE  Weighed(S)
  <1>1. IsFiniteSet(S) /\ \A e \in S : e \in Entry
    BY ToSetFinite, SeqElements, FS_Subset
  <1>. QED
    BY <1>1 DEF Weighed, Entry

(* No memory gets lost between the entries taken and the merge tasks. *)
LEMMA MergesSum ==
    ASSUME NEW entries \in Seq(Entry), InBatchOrder(entries),
           NEW runs, RunsIn(runs, entries)
    PROVE  /\ Weighed(ToSet(Merges(entries, runs)))
           /\ SumOf(ToSet(Merges(entries, runs))) = SumOf(TakenEntries(entries, runs))
  <1>. DEFINE n == Len(runs)
              m(k) == MergeOf(entries, runs[k])
              J(k) == {m(l) : l \in 1..k}
              T(k) == UNION {Part(entries, runs[l]) : l \in 1..k}
              Ok(k) == Weighed(J(k)) /\ SumOf(J(k)) = SumOf(T(k))
  <1>1. n \in Nat /\ DOMAIN runs = 1..n
    BY RunsApart, SeqElements
  <1>2. \A k \in 1..n : /\ m(k).memory = SumOf(Part(entries, runs[k]))
                        /\ m(k).memory \in Nat
                        /\ Part(entries, runs[k]) \subseteq ToSet(entries)
    BY <1>1, MergesApart
  <1>3. \A k, l \in 1..n : k # l =>
           m(k).batch # m(l).batch /\ Part(entries, runs[k]) \cap Part(entries, runs[l]) = {}
    BY <1>1, MergesApart
  <1>. HIDE DEF n, m
  <1>4. \A k \in 0..n : Ok(k)
    <2>. DEFINE Counter == {k \in 0..n : ~ Ok(k)}
    <2>1. SUFFICES ASSUME Counter # {} PROVE FALSE
      OBVIOUS
    <2>2. Counter \subseteq Nat
      OBVIOUS
    <2>3. PICK k \in Counter : \A l \in Counter : k <= l
      BY <2>1, <2>2, LeastNat
    <2>4. k # 0
      <3>1. J(0) = {} /\ T(0) = {}
        OBVIOUS
      <3>2. Ok(0)
        BY <3>1, SumEmpty
      <3>. QED
        BY <2>3, <3>2
    <2>5. k - 1 \in 0..n /\ k \in 1..n /\ k \in 0..n
      BY <1>1, <2>3, <2>4
    <2>6. k - 1 \notin Counter
      <3>1. ~ (k <= k - 1)
        BY <2>5
      <3>. HIDE DEF Counter
      <3>. QED
        BY <2>3, <3>1
    <2>7. Ok(k - 1)
      BY <2>5, <2>6
    <2>8. 1..k = (1..(k - 1)) \cup {k}
      BY <2>5
    <2>9. J(k) = J(k - 1) \cup {m(k)} /\ T(k) = T(k - 1) \cup Part(entries, runs[k])
      BY <2>8
    <2>10. J(k - 1) \cap {m(k)} = {} /\ T(k - 1) \cap Part(entries, runs[k]) = {}
      <3>1. \A l \in 1..(k - 1) : l \in 1..n /\ l # k /\ k \in 1..n
        BY <1>1, <2>5
      <3>. QED
        BY <1>3, <3>1
    <2>11. Weighed({m(k)}) /\ SumOf({m(k)}) = SumOf(Part(entries, runs[k]))
      BY <1>2, <2>5, SumOne
    <2>12. Weighed(T(k - 1)) /\ Weighed(Part(entries, runs[k]))
      <3>1. \A l \in 1..(k - 1) : l \in 1..n
        BY <1>1, <2>5
      <3>2. T(k - 1) \in SUBSET ToSet(entries)
            /\ Part(entries, runs[k]) \in SUBSET ToSet(entries)
        BY <1>2, <2>5, <3>1
      <3>. HIDE DEF T
      <3>. QED
        BY <3>2, EntriesWeighed
    <2>. HIDE DEF J, T
    <2>13. Weighed(J(k)) /\ SumOf(J(k)) = SumOf(J(k - 1)) + SumOf({m(k)})
      <3>. DEFINE A == J(k - 1)
                  B == {m(k)}
      <3>1. Weighed(A) /\ Weighed(B) /\ A \cap B = {} /\ J(k) = A \cup B
        BY <2>7, <2>9, <2>10, <2>11
      <3>. HIDE DEF A, B
      <3>2. Weighed(A \cup B) /\ SumOf(A \cup B) = SumOf(A) + SumOf(B)
        BY <3>1, SumUnion
      <3>. QED
        BY <3>1, <3>2 DEF A, B
    <2>14. SumOf(T(k)) = SumOf(T(k - 1)) + SumOf(Part(entries, runs[k]))
      <3>. DEFINE A == T(k - 1)
                  B == Part(entries, runs[k])
      <3>1. Weighed(A) /\ Weighed(B) /\ A \cap B = {} /\ T(k) = A \cup B
        BY <2>9, <2>10, <2>12
      <3>. HIDE DEF A, B
      <3>2. SumOf(A \cup B) = SumOf(A) + SumOf(B)
        BY <3>1, SumUnion
      <3>. QED
        BY <3>1, <3>2 DEF A, B
    <2>15. Ok(k)
      BY <2>7, <2>11, <2>13, <2>14
    <2>. QED
      BY <2>3, <2>15
  <1>5. ToSet(Merges(entries, runs)) = J(n)
    <2>1. Merges(entries, runs) = [k \in 1..n |-> m(k)]
      <3>1. Merges(entries, runs) = [k \in 1..n |-> MergeOf(entries, runs[k])]
        BY <1>1 DEF Merges
      <3>. QED
        BY <3>1 DEF m
    <2>2. DOMAIN Merges(entries, runs) = 1..n
          /\ \A k \in 1..n : Merges(entries, runs)[k] = m(k)
      BY <2>1
    <2>3. ToSet(Merges(entries, runs))
             = {Merges(entries, runs)[k] : k \in DOMAIN Merges(entries, runs)}
      BY DEF ToSet
    <2>. QED
      BY <2>2, <2>3
  <1>6. TakenEntries(entries, runs) = T(n)
    BY <1>1 DEF TakenEntries, Taken, Part
  <1>7. Ok(n)
    <2>1. n \in 0..n
      BY <1>1
    <2>. HIDE DEF Ok
    <2>. QED
      BY <1>4, <2>1
  <1>. HIDE DEF J, T
  <1>. QED
    BY <1>5, <1>6, <1>7

(* The memory of unflushed entries stays with them or goes to the merge task. *)
LEMMA MemorySplits ==
    ASSUME Batches \in Nat, NEW entries \in Seq(Entry), InBatchOrder(entries),
           NEW runs, RunsIn(runs, entries)
    PROVE  Unflushed(entries) = Unflushed(EntriesAfter(entries, runs))
                                   + SumOf(ToSet(Merges(entries, runs)))
  <1>. DEFINE after == EntriesAfter(entries, runs)
              U == {e \in ToSet(entries) : ~ e.flushed}
              T == TakenEntries(entries, runs)
              R == {e \in ToSet(after) : ~ e.flushed}
  <1>1. ToSet(entries) = {entries[i] : i \in DOMAIN entries}
    BY SeqElements
  <1>2. ToSet(after) = {Remains(entries, runs, i) : i \in DOMAIN entries \ Erased(runs)}
    BY AfterIs
  <1>3. T \subseteq U
    <2>1. \A i \in Taken(runs) : i \in DOMAIN entries /\ ~ entries[i].flushed
      BY RunsApart
    <2>. QED
      BY <1>1, <2>1 DEF TakenEntries
  <1>4. \A i \in DOMAIN entries : entries[i] \in T <=> i \in Taken(runs)
    <2>1. Taken(runs) \subseteq DOMAIN entries
      BY RunsApart
    <2>2. \A i, j \in DOMAIN entries : entries[i] = entries[j] => i = j
      BY OrderedApart
    <2>. QED
      BY <2>1, <2>2 DEF TakenEntries
  <1>5. Taken(runs) = Heads(runs) \cup Erased(runs)
    BY RunsApart
  <1>6. \A i \in DOMAIN entries \ Erased(runs) :
           IF i \in Heads(runs) THEN Remains(entries, runs, i).flushed
           ELSE Remains(entries, runs, i) = entries[i] /\ entries[i] \notin T
    <2>1. \A i \in DOMAIN entries : entries[i] \in Entry
      BY SeqElements
    <2>2. ASSUME NEW i \in DOMAIN entries, i \in Heads(runs)
          PROVE  Remains(entries, runs, i).flushed
      BY <2>1, <2>2, PendingEntry DEF Remains
    <2>. QED
      BY <1>4, <1>5, <2>2 DEF Remains
  <1>7. R = U \ T
    <2>. HIDE DEF T, after
    <2>1. ASSUME NEW e \in R PROVE e \in U \ T
      <3>1. PICK i \in DOMAIN entries \ Erased(runs) : e = Remains(entries, runs, i)
        BY <1>2
      <3>2. i \notin Heads(runs)
        BY <1>6, <3>1
      <3>. QED
        BY <1>1, <1>6, <3>1, <3>2
    <2>2. ASSUME NEW e \in U \ T PROVE e \in R
      <3>1. PICK i \in DOMAIN entries : e = entries[i]
        BY <1>1
      <3>2. i \notin Heads(runs) /\ i \notin Erased(runs)
        BY <1>4, <1>5, <3>1
      <3>3. e = Remains(entries, runs, i)
        BY <1>6, <3>1, <3>2
      <3>. QED
        BY <1>2, <3>1, <3>2, <3>3
    <2>. QED
      BY <2>1, <2>2
  <1>8. SumOf(U) = SumOf(R) + SumOf(T)
    <2>. HIDE DEF U, T, R
    <2>1. U \in SUBSET ToSet(entries)
      BY DEF U
    <2>2. R \in SUBSET ToSet(entries) /\ T \in SUBSET ToSet(entries)
          /\ R \cap T = {} /\ R \cup T = U
      BY <1>3, <1>7, <2>1
    <2>3. Weighed(R) /\ Weighed(T)
      BY <2>2, EntriesWeighed
    <2>. QED
      BY <2>2, <2>3, SumUnion
  <1>9. SumOf(ToSet(Merges(entries, runs))) = SumOf(T)
    BY MergesSum
  <1>10. Unflushed(entries) = SumOf(U) /\ Unflushed(after) = SumOf(R)
    BY DEF Unflushed
  <1>. HIDE DEF U, T, R
  <1>. QED
    BY <1>8, <1>9, <1>10

(* The entry of a batch goes before the entries of later batches. *)
LEMMA InsertInOrder ==
    ASSUME NEW entries \in Seq(Entry), InBatchOrder(entries), NEW entry \in Entry,
           \A e \in ToSet(entries) : e.batch # entry.batch
    PROVE  LET before == {i \in DOMAIN entries : entries[i].batch < entry.batch}
               more == InsertAt(entries, Cardinality(before) + 1, entry)
           IN  /\ more \in Seq(Entry)
               /\ InBatchOrder(more)
               /\ ToSet(more) = ToSet(entries) \cup {entry}
  <1>. DEFINE n == Len(entries)
              before == {i \in DOMAIN entries : entries[i].batch < entry.batch}
              c == Cardinality(before)
              more == InsertAt(entries, c + 1, entry)
              left == SubSeq(entries, 1, c)
              right == SubSeq(entries, c + 1, n)
  <1>1. /\ n \in Nat /\ DOMAIN entries = 1..n
        /\ ToSet(entries) = {entries[i] : i \in DOMAIN entries}
        /\ \A i \in 1..n : entries[i] \in Entry
    BY SeqElements
  <1>2. /\ entry.batch \in Int
        /\ \A i \in 1..n : entries[i].batch \in Int /\ entries[i].batch # entry.batch
    <2>1. \A i \in 1..n : entries[i] \in ToSet(entries)
      BY <1>1
    <2>2. \A i \in 1..n : entries[i].batch # entry.batch
      BY <2>1
    <2>3. \A i \in 1..n : entries[i].batch \in Int
      BY <1>1 DEF Entry, Batch
    <2>4. entry.batch \in Int
      BY DEF Entry, Batch
    <2>. QED
      BY <2>2, <2>3, <2>4
  <1>3. c \in Nat /\ before = 1..c /\ c <= n
    <2>. DEFINE zero == 0
    <2>1. before \in SUBSET ((zero + 1)..n)
      BY <1>1
    <2>2. \A i \in before : \A j \in (zero + 1)..i : j \in before
      <3>1. SUFFICES ASSUME NEW i \in before, NEW j \in 1..i
                     PROVE  j \in 1..n /\ entries[j].batch < entry.batch
        BY <1>1
      <3>2. i \in 1..n /\ j \in 1..n /\ j <= i /\ entries[i].batch < entry.batch
        BY <1>1
      <3>3. entries[j].batch <= entries[i].batch
        BY <1>1, <3>2, OrderedApart
      <3>. QED
        BY <1>2, <3>2, <3>3
    <2>3. zero \in Nat
      OBVIOUS
    <2>. HIDE DEF before, zero, n
    <2>4. Cardinality(before) \in Nat /\ before = (zero + 1)..(zero + Cardinality(before))
      BY <1>1, <2>1, <2>2, <2>3, NoGap
    <2>5. before = 1..c /\ c \in Nat
      BY <2>4 DEF zero
    <2>6. c = 0 \/ c \in 1..c
      BY <2>5
    <2>7. c <= n
      BY <1>1, <2>1, <2>5, <2>6 DEF zero
    <2>. QED
      BY <2>5, <2>7
  <1>4. \A i \in 1..n : (i <= c <=> entries[i].batch < entry.batch)
    <2>1. \A i \in 1..n : i \in before <=> entries[i].batch < entry.batch
      BY <1>1
    <2>. HIDE DEF before, c, n
    <2>. QED
      BY <1>1, <1>3, <2>1
  <1>. HIDE DEF c, before
  <1>5. /\ left \in Seq(Entry) /\ Len(left) = c
        /\ \A i \in 1..c : left[i] = entries[i]
    <2>1. \A i \in 1..c : entries[i] \in Entry
      BY <1>1, <1>3
    <2>2. 1 \in Int /\ c \in Int /\ (IF 1 <= c THEN c - 1 + 1 ELSE 0) = c /\ c - 1 + 1 = c
      BY <1>3
    <2>3. \A i \in 1..c : 1 + i - 1 = i
      BY <1>3
    <2>. QED
      BY <2>1, <2>2, <2>3, SubSeqProperties
  <1>6. /\ right \in Seq(Entry) /\ Len(right) = n - c
        /\ \A i \in 1..(n - c) : right[i] = entries[c + i]
    <2>1. \A i \in (c + 1)..n : entries[i] \in Entry
      BY <1>1, <1>3
    <2>2. c + 1 \in Int /\ n \in Int
          /\ (IF c + 1 <= n THEN n - (c + 1) + 1 ELSE 0) = n - c /\ n - (c + 1) + 1 = n - c
      <3>1. n \in Nat /\ c \in Nat /\ c <= n
        BY <1>1, <1>3
      <3>2. c + 1 <= n \/ c = n
        BY <3>1
      <3>3. n - (c + 1) + 1 = n - c
        BY <3>1
      <3>. HIDE DEF n
      <3>. QED
        BY <3>1, <3>2, <3>3
    <2>3. \A i \in 1..(n - c) : (c + 1) + i - 1 = c + i
      BY <1>1, <1>3
    <2>. DEFINE m == c + 1
                k == n - m + 1
    <2>4. m \in Int /\ n \in Int /\ \A i \in m..n : entries[i] \in Entry
      BY <2>1, <2>2
    <2>. HIDE DEF n, m
    <2>5. /\ SubSeq(entries, m, n) \in Seq(Entry)
          /\ Len(SubSeq(entries, m, n)) = IF m <= n THEN k ELSE 0
          /\ \A i \in 1..k : SubSeq(entries, m, n)[i] = entries[m + i - 1]
      BY <2>4, SubSeqProperties
    <2>6. right = SubSeq(entries, m, n) /\ k = n - c
      BY <2>2 DEF m
    <2>7. Len(SubSeq(entries, m, n)) = n - c
      BY <2>2, <2>5, <2>6 DEF m
    <2>8. \A i \in 1..(n - c) : SubSeq(entries, m, n)[i] = entries[c + i]
      BY <2>3, <2>5, <2>6 DEF m
    <2>. HIDE DEF right
    <2>. QED
      BY <2>5, <2>6, <2>7, <2>8
  <1>7. more = left \o <<entry>> \o right
    <2>1. (c + 1) - 1 = c
      BY <1>3
    <2>. QED
      BY <2>1 DEF InsertAt
  <1>. HIDE DEF left, right, more, n
  <1>8. /\ left \o <<entry>> \in Seq(Entry) /\ Len(left \o <<entry>>) = c + 1
        /\ \A i \in 1..c : (left \o <<entry>>)[i] = entries[i]
        /\ (left \o <<entry>>)[c + 1] = entry
    <2>1. <<entry>> \in Seq(Entry) /\ Len(<<entry>>) = 1 /\ <<entry>>[1] = entry
      OBVIOUS
    <2>. QED
      BY <1>3, <1>5, <2>1, ConcatProperties, SMTT(30)
  <1>9. /\ more \in Seq(Entry) /\ Len(more) = n + 1
        /\ \A i \in 1..c : more[i] = entries[i]
        /\ more[c + 1] = entry
        /\ \A i \in (c + 2)..(n + 1) : more[i] = entries[i - 1]
    <2>. DEFINE l1 == left \o <<entry>>
    <2>1. l1 \in Seq(Entry) /\ Len(l1) = c + 1
      BY <1>8
    <2>2. \A i \in 1..c : l1[i] = entries[i]
      BY <1>8
    <2>3. l1[c + 1] = entry
      BY <1>8
    <2>4. more = l1 \o right
      BY <1>7
    <2>. HIDE DEF l1
    <2>5. /\ more \in Seq(Entry) /\ Len(more) = (c + 1) + (n - c)
          /\ \A i \in 1..(c + 1) : more[i] = l1[i]
          /\ \A i \in (c + 2)..(n + 1) : more[i] = right[i - (c + 1)]
      <3>1. /\ right \in Seq(Entry) /\ Len(right) = n - c
            /\ c \in Nat /\ n \in Nat /\ c <= n
        BY <1>1, <1>3, <1>6
      <3>2. /\ l1 \o right \in Seq(Entry)
            /\ Len(l1 \o right) = (c + 1) + (n - c)
            /\ \A i \in 1..((c + 1) + (n - c)) :
                  (l1 \o right)[i] = IF i <= c + 1 THEN l1[i] ELSE right[i - (c + 1)]
        <4>1. /\ l1 \o right \in Seq(Entry)
              /\ Len(l1 \o right) = Len(l1) + Len(right)
              /\ \A i \in 1..(Len(l1) + Len(right)) :
                    (l1 \o right)[i] =
                        IF i <= Len(l1) THEN l1[i] ELSE right[i - Len(l1)]
          BY <2>1, <3>1, ConcatProperties
        <4>. QED
          BY <2>1, <3>1, <4>1, Zenon
      <3>3. /\ \A i \in 1..(c + 1) : i \in 1..((c + 1) + (n - c)) /\ i <= c + 1
            /\ \A i \in (c + 2)..(n + 1) :
                  i \in 1..((c + 1) + (n - c)) /\ ~ (i <= c + 1)
        BY <3>1
      <3>. QED
        BY <2>4, <3>2, <3>3
    <2>6. ASSUME NEW i \in (c + 2)..(n + 1) PROVE more[i] = entries[i - 1]
      <3>1. i - (c + 1) \in 1..(n - c) /\ c + (i - (c + 1)) = i - 1
        BY <1>1, <1>3
      <3>. QED
        BY <1>6, <2>5, <3>1
    <2>7. (c + 1) + (n - c) = n + 1 /\ c + 1 \in 1..(c + 1)
          /\ \A i \in 1..c : i \in 1..(c + 1)
      BY <1>1, <1>3
    <2>. QED
      BY <2>2, <2>3, <2>5, <2>6, <2>7
  <1>10. DOMAIN more = 1..(n + 1) /\ ToSet(more) = {more[i] : i \in DOMAIN more}
    BY <1>9, SeqElements
  <1>11. \A i \in 1..(n + 1) : i \in 1..c \/ i = c + 1 \/ i \in (c + 2)..(n + 1)
    BY <1>1, <1>3
  <1>12. \A i \in (c + 2)..(n + 1) : i - 1 \in 1..n /\ i - 1 > c
    BY <1>1, <1>3
  <1>13. \A i \in 1..c : i \in 1..n /\ i \in 1..(n + 1)
    BY <1>1, <1>3
  <1>14. ToSet(more) = ToSet(entries) \cup {entry}
    <2>1. ToSet(more) \subseteq ToSet(entries) \cup {entry}
      BY <1>1, <1>9, <1>10, <1>11, <1>12, <1>13
    <2>2. ASSUME NEW i \in 1..n PROVE entries[i] \in ToSet(more)
      <3>1. CASE i <= c
        <4>1. i \in 1..c
          BY <1>3, <3>1
        <4>. QED
          BY <1>9, <1>10, <1>13, <4>1
      <3>2. CASE ~ (i <= c)
        <4>1. i + 1 \in (c + 2)..(n + 1) /\ i + 1 \in 1..(n + 1) /\ (i + 1) - 1 = i
          BY <1>1, <1>3, <3>2
        <4>. QED
          BY <1>9, <1>10, <4>1
      <3>. QED
        BY <3>1, <3>2
    <2>3. entry \in ToSet(more)
      <3>1. c + 1 \in 1..(n + 1)
        BY <1>1, <1>3
      <3>. QED
        BY <1>9, <1>10, <3>1
    <2>. QED
      BY <1>1, <2>1, <2>2, <2>3
  <1>15. ASSUME NEW i \in 1..(n + 1), NEW j \in 1..(n + 1), i < j
         PROVE  more[i].batch < more[j].batch
    <2>1. CASE i \in 1..c /\ j \in 1..c
      BY <1>1, <1>9, <1>13, <1>15, <2>1 DEF InBatchOrder
    <2>2. CASE i \in 1..c /\ j = c + 1
      BY <1>4, <1>9, <1>13, <1>3, <2>2
    <2>3. CASE i \in 1..c /\ j \in (c + 2)..(n + 1)
      <3>1. i < j - 1
        BY <1>3, <1>12, <2>3
      <3>. QED
        BY <1>1, <1>9, <1>12, <1>13, <2>3, <3>1, SMTT(30) DEF InBatchOrder
    <2>4. CASE i = c + 1 /\ j \in (c + 2)..(n + 1)
      <3>1. j - 1 \in 1..n /\ ~ (j - 1 <= c)
        BY <1>3, <1>12, <2>4
      <3>2. entry.batch < entries[j - 1].batch
        BY <1>2, <1>4, <3>1
      <3>. QED
        BY <1>9, <2>4, <3>2
    <2>5. CASE i \in (c + 2)..(n + 1) /\ j \in (c + 2)..(n + 1)
      <3>1. i - 1 < j - 1
        BY <1>15
      <3>. QED
        BY <1>1, <1>9, <1>12, <2>5, <3>1 DEF InBatchOrder
    <2>. QED
      BY <1>3, <1>11, <1>15, <2>1, <2>2, <2>3, <2>4, <2>5
  <1>16. InBatchOrder(more)
    BY <1>10, <1>15 DEF InBatchOrder
  <1>. QED
    BY <1>9, <1>14, <1>16 DEF more, c, before

--------------------------------------------------------------------------------
(* The rows of the source. *)

(* The rows of a set of batches, in the order of the source *)

RowsOf(S, b) == IF b \in S THEN Repeated(b) ELSE <<>>

Of(S) == FlattenSeq([b \in Batch |-> RowsOf(S, b)])

Chunked == {b \in Batch : input.chunks[b] > 0}

(* A function on an interval is a sequence. *)
LEMMA SeqOfFunction ==
    ASSUME NEW T, NEW n \in Nat, NEW f \in [1..n -> T]
    PROVE  f \in Seq(T) /\ Len(f) = n
  <1>1. f \in Seq(T)
    BY SeqDef
  <1>2. Len(f) \in Nat /\ DOMAIN f = 1..Len(f)
    BY <1>1, LenProperties
  <1>. QED
    BY <1>1, <1>2

(* The batches of an input and their chunks are numbers. *)
LEMMA InputSound ==
    ASSUME input \in Inputs
    PROVE  /\ Batches \in Nat
           /\ \A b \in Batch : input.chunks[b] \in Nat
  <1>1. input.chunks \in Seq(Nat)
    BY InputsAssumption
  <1>. QED
    BY <1>1, SeqElements DEF Batches, Batch

(* The rows of one batch of the source. *)
LEMMA RepeatedIs ==
    ASSUME input \in Inputs, NEW b \in Batch
    PROVE  /\ Repeated(b) \in Seq(Batch)
           /\ Len(Repeated(b)) = input.chunks[b]
           /\ b \notin Chunked => Repeated(b) = <<>>
  <1>1. input.chunks[b] \in Nat
    BY InputSound
  <1>2. Repeated(b) \in [1..input.chunks[b] -> Batch]
    BY DEF Repeated
  <1>3. Repeated(b) \in Seq(Batch) /\ Len(Repeated(b)) = input.chunks[b]
    BY <1>1, <1>2, SeqOfFunction
  <1>4. b \notin Chunked => input.chunks[b] = 0
    BY <1>1 DEF Chunked
  <1>. QED
    BY <1>3, <1>4, EmptySeq

(* The rows of a set, batch after batch. *)
LEMMA OfPrefixes ==
    ASSUME input \in Inputs, NEW S
    PROVE  /\ Of(S) \in Seq(Batch)
           /\ \E g \in [0..Batches -> Seq(Batch)] :
                 /\ g[0] = <<>>
                 /\ \A b \in Batch : g[b] = g[b - 1] \o RowsOf(S, b)
                 /\ Of(S) = g[Batches]
  <1>. DEFINE ss == [b \in Batch |-> RowsOf(S, b)]
  <1>1. Batches \in Nat
    BY InputSound
  <1>2. \A b \in Batch : RowsOf(S, b) \in Seq(Batch)
    BY RepeatedIs, EmptySeq DEF RowsOf
  <1>3. ss \in [1..Batches -> Seq(Batch)]
    BY <1>2 DEF Batch
  <1>4. \A b \in Batch : ss[b] = RowsOf(S, b)
    OBVIOUS
  <1>. HIDE DEF ss
  <1>5. ss \in Seq(Seq(Batch)) /\ Len(ss) = Batches
    BY <1>1, <1>3, SeqOfFunction
  <1>6. PICK g \in [0..Len(ss) -> Seq(Batch)] :
           IsJoin(g, ss) /\ FlattenSeq(ss) = g[Len(ss)]
    BY <1>5, FlattenJoins
  <1>7. Of(S) = g[Batches]
    BY <1>5, <1>6 DEF Of, ss
  <1>8. g \in [0..Batches -> Seq(Batch)] /\ Batches \in 0..Batches
    BY <1>1, <1>5, <1>6
  <1>9. g[0] = <<>> /\ \A b \in Batch : g[b] = g[b - 1] \o RowsOf(S, b)
    BY <1>4, <1>5, <1>6 DEF IsJoin, Batch
  <1>. QED
    BY <1>7, <1>8, <1>9

(* The rows are those of the batches that have any. *)
LEMMA OfSame ==
    ASSUME input \in Inputs, NEW S, NEW T, S \cap Chunked = T \cap Chunked
    PROVE  Of(S) = Of(T)
  <1>1. \A b \in Batch : RowsOf(S, b) = RowsOf(T, b)
    <2>1. \A b \in Batch : b \notin Chunked => Repeated(b) = <<>>
      BY RepeatedIs
    <2>. QED
      BY <2>1 DEF RowsOf
  <1>2. [b \in Batch |-> RowsOf(S, b)] = [b \in Batch |-> RowsOf(T, b)]
    BY <1>1
  <1>. QED
    BY <1>2 DEF Of

(* All batches: what the table is to hold in the end. *)
LEMMA OfAll == ASSUME input \in Inputs
               PROVE  InSourceOrder = Of(Chunked)
  <1>1. Of(Batch) = Of(Chunked)
    <2>1. Batch \cap Chunked = Chunked \cap Chunked
      BY DEF Chunked
    <2>. QED
      BY <2>1, OfSame
  <1>2. [b \in Batch |-> Repeated(b)] = [b \in Batch |-> RowsOf(Batch, b)]
    BY DEF RowsOf
  <1>. QED
    BY <1>1, <1>2 DEF Of, InSourceOrder

(* Earlier batches go before later ones. *)
LEMMA OfJoin ==
    ASSUME input \in Inputs, NEW S, NEW T, \A s \in S, t \in T : s < t
    PROVE  Of(S \cup T) = Of(S) \o Of(T)
  <1>1. Batches \in Nat
    BY InputSound
  <1>2. PICK f \in [0..Batches -> Seq(Batch)] :
           /\ f[0] = <<>>
           /\ \A b \in Batch : f[b] = f[b - 1] \o RowsOf(S, b)
           /\ Of(S) = f[Batches]
    BY OfPrefixes
  <1>3. PICK g \in [0..Batches -> Seq(Batch)] :
           /\ g[0] = <<>>
           /\ \A b \in Batch : g[b] = g[b - 1] \o RowsOf(T, b)
           /\ Of(T) = g[Batches]
    BY OfPrefixes
  <1>4. PICK h \in [0..Batches -> Seq(Batch)] :
           /\ h[0] = <<>>
           /\ \A b \in Batch : h[b] = h[b - 1] \o RowsOf(S \cup T, b)
           /\ Of(S \cup T) = h[Batches]
    BY OfPrefixes
  <1>. DEFINE Ok(i) == /\ h[i] = f[i] \o g[i]
                       /\ (\A t \in T : t \in Batch => t > i) => g[i] = <<>>
              Counter == {i \in 0..Batches : ~ Ok(i)}
  <1>5. Counter = {}
    <2>1. SUFFICES ASSUME Counter # {} PROVE FALSE
      OBVIOUS
    <2>2. Counter \subseteq Nat
      OBVIOUS
    <2>3. PICK k \in Counter : \A m \in Counter : k <= m
      BY <2>1, <2>2, LeastNat
    <2>4. k # 0
      <3>1. <<>> \o <<>> = <<>>
        BY ConcatEmptySeq, EmptySeq
      <3>2. Ok(0)
        BY <1>2, <1>3, <1>4, <3>1
      <3>. QED
        BY <2>3, <3>2
    <2>5. k - 1 \in 0..Batches /\ k \in Batch /\ k \in 0..Batches
      BY <1>1, <2>3, <2>4 DEF Batch
    <2>6. k - 1 \notin Counter
      <3>1. ~ (k <= k - 1)
        BY <2>5
      <3>. HIDE DEF Counter
      <3>. QED
        BY <2>3, <3>1
    <2>7. h[k - 1] = f[k - 1] \o g[k - 1]
          /\ ((\A t \in T : t \in Batch => t > k - 1) => g[k - 1] = <<>>)
      BY <2>5, <2>6
    <2>8. /\ f[k] = f[k - 1] \o RowsOf(S, k)
          /\ g[k] = g[k - 1] \o RowsOf(T, k)
          /\ h[k] = h[k - 1] \o RowsOf(S \cup T, k)
      BY <1>2, <1>3, <1>4, <2>5
    <2>9. /\ f[k - 1] \in Seq(Batch) /\ g[k - 1] \in Seq(Batch) /\ h[k - 1] \in Seq(Batch)
          /\ Repeated(k) \in Seq(Batch)
      BY <2>5, RepeatedIs
    <2>10. (\A t \in T : t \in Batch => t > k) =>
              k \notin T /\ \A t \in T : t \in Batch => t > k - 1
      <3>1. SUFFICES ASSUME \A t \in T : t \in Batch => t > k
                     PROVE  k \notin T /\ \A t \in T : t \in Batch => t > k - 1
        OBVIOUS
      <3>2. ~ (k > k) /\ k \in Int
        BY <2>5
      <3>3. k \notin T
        BY <2>5, <3>1, <3>2
      <3>4. ASSUME NEW t \in T, t \in Batch PROVE t > k - 1
        <4>1. t \in Int /\ t > k
          BY <3>1, <3>4 DEF Batch
        <4>. QED
          BY <3>2, <4>1
      <3>. QED
        BY <3>3, <3>4
    <2>11. CASE k \in S
      <3>1. k \notin T /\ \A t \in T : t \in Batch => t > k - 1
        <4>1. k \in Int /\ ~ (k < k)
          BY <2>5
        <4>2. \A t \in T : k < t
          BY <2>11
        <4>3. ASSUME NEW t \in T, t \in Batch PROVE t > k - 1
          <5>1. t \in Int /\ k < t
            BY <4>2, <4>3 DEF Batch
          <5>. QED
            BY <4>1, <5>1
        <4>. QED
          BY <4>1, <4>2, <4>3
      <3>2. g[k - 1] = <<>> /\ g[k] = <<>> /\ h[k - 1] = f[k - 1]
        BY <2>7, <2>8, <2>9, <3>1, ConcatEmptySeq DEF RowsOf
      <3>3. h[k] = f[k] /\ f[k] \o <<>> = f[k]
        <4>1. f[k] \in Seq(Batch)
          BY <2>5
        <4>. QED
          BY <2>8, <2>11, <3>2, <4>1, ConcatEmptySeq DEF RowsOf
      <3>4. Ok(k)
        BY <3>2, <3>3
      <3>. QED
        BY <2>3, <3>4
    <2>12. CASE k \in T /\ k \notin S
      <3>1. f[k] = f[k - 1]
        BY <2>8, <2>9, <2>12, ConcatEmptySeq DEF RowsOf
      <3>2. h[k] = (f[k - 1] \o g[k - 1]) \o Repeated(k) /\ g[k] = g[k - 1] \o Repeated(k)
        BY <2>7, <2>8, <2>12 DEF RowsOf
      <3>3. h[k] = f[k] \o g[k]
        <4>. DEFINE a == f[k - 1]
                    b == g[k - 1]
                    c == Repeated(k)
        <4>1. a \in Seq(Batch) /\ b \in Seq(Batch) /\ c \in Seq(Batch)
          BY <2>9
        <4>. HIDE DEF a, b, c
        <4>2. (a \o b) \o c = a \o (b \o c)
          BY <4>1, SMTT(30)
        <4>3. h[k] = (a \o b) \o c /\ f[k] = a /\ g[k] = b \o c
          BY <3>1, <3>2 DEF a, b, c
        <4>. QED
          BY <4>2, <4>3
      <3>4. Ok(k)
        BY <2>10, <2>12, <3>3
      <3>. QED
        BY <2>3, <3>4
    <2>13. CASE k \notin T /\ k \notin S
      <3>1. f[k] = f[k - 1] /\ g[k] = g[k - 1] /\ h[k] = h[k - 1]
        BY <2>8, <2>9, <2>13, ConcatEmptySeq DEF RowsOf
      <3>2. Ok(k)
        BY <2>7, <2>10, <3>1
      <3>. QED
        BY <2>3, <3>2
    <2>. QED
      BY <2>11, <2>12, <2>13
  <1>6. h[Batches] = f[Batches] \o g[Batches]
    <2>1. Batches \in 0..Batches
      BY <1>1
    <2>. QED
      BY <1>5, <2>1
  <1>. QED
    BY <1>2, <1>3, <1>4, <1>6

(* No batch has no rows. *)
LEMMA OfEmpty == ASSUME input \in Inputs PROVE Of({}) = <<>>
  <1>1. PICK g \in [0..Batches -> Seq(Batch)] :
           /\ g[0] = <<>>
           /\ \A b \in Batch : g[b] = g[b - 1] \o RowsOf({}, b)
           /\ Of({}) = g[Batches]
    BY OfPrefixes
  <1>2. Batches \in Nat
    BY InputSound
  <1>. DEFINE Counter == {i \in 0..Batches : g[i] # <<>>}
  <1>3. Counter = {}
    <2>1. SUFFICES ASSUME Counter # {} PROVE FALSE
      OBVIOUS
    <2>2. Counter \subseteq Nat
      OBVIOUS
    <2>3. PICK k \in Counter : \A m \in Counter : k <= m
      BY <2>1, <2>2, LeastNat
    <2>4. k # 0
      BY <1>1, <2>3
    <2>5. k - 1 \in 0..Batches /\ k \in Batch
      BY <1>2, <2>3, <2>4 DEF Batch
    <2>6. k - 1 \notin Counter
      <3>1. ~ (k <= k - 1)
        BY <2>5 DEF Batch
      <3>. HIDE DEF Counter
      <3>. QED
        BY <2>3, <3>1
    <2>7. g[k] = <<>> \o <<>>
      BY <1>1, <2>5, <2>6 DEF RowsOf
    <2>. QED
      BY <2>3, <2>7, ConcatEmptySeq, EmptySeq
  <1>4. Batches \in 0..Batches
    BY <1>2
  <1>. QED
    BY <1>1, <1>3, <1>4

(* The rows of one batch *)
LEMMA OfOne == ASSUME input \in Inputs, NEW b \in Batch PROVE Of({b}) = Repeated(b)
  <1>1. PICK g \in [0..Batches -> Seq(Batch)] :
           /\ g[0] = <<>>
           /\ \A c \in Batch : g[c] = g[c - 1] \o RowsOf({b}, c)
           /\ Of({b}) = g[Batches]
    BY OfPrefixes
  <1>2. Batches \in Nat
    BY InputSound
  <1>. DEFINE Ok(i) == g[i] = IF i < b THEN <<>> ELSE Repeated(b)
              Counter == {i \in 0..Batches : ~ Ok(i)}
  <1>3. Counter = {}
    <2>1. SUFFICES ASSUME Counter # {} PROVE FALSE
      OBVIOUS
    <2>2. Counter \subseteq Nat
      OBVIOUS
    <2>3. PICK k \in Counter : \A m \in Counter : k <= m
      BY <2>1, <2>2, LeastNat
    <2>4. k # 0
      BY <1>1, <2>3 DEF Batch
    <2>5. k - 1 \in 0..Batches /\ k \in Batch
      BY <1>2, <2>3, <2>4 DEF Batch
    <2>6. k - 1 \notin Counter
      <3>1. ~ (k <= k - 1)
        BY <2>5 DEF Batch
      <3>. HIDE DEF Counter
      <3>. QED
        BY <2>3, <3>1
    <2>7. Ok(k - 1) /\ g[k] = g[k - 1] \o RowsOf({b}, k)
      BY <1>1, <2>5, <2>6
    <2>8. Repeated(b) \in Seq(Batch)
      BY RepeatedIs
    <2>9. CASE k < b
      <3>1. k - 1 < b /\ k # b
        BY <2>5, <2>9 DEF Batch
      <3>2. g[k] = <<>> \o <<>>
        BY <2>7, <3>1 DEF RowsOf
      <3>. QED
        BY <2>3, <2>9, <3>2, ConcatEmptySeq, EmptySeq
    <2>10. CASE k = b
      <3>1. k - 1 < b /\ ~ (k < b)
        BY <2>5, <2>10 DEF Batch
      <3>2. g[k] = <<>> \o Repeated(b)
        BY <2>7, <2>10, <3>1 DEF RowsOf
      <3>. QED
        BY <2>3, <2>8, <3>1, <3>2, ConcatEmptySeq
    <2>11. CASE k > b
      <3>1. ~ (k - 1 < b) /\ ~ (k < b) /\ k # b
        BY <2>5, <2>11 DEF Batch
      <3>2. g[k] = Repeated(b) \o <<>>
        BY <2>7, <3>1 DEF RowsOf
      <3>. QED
        BY <2>3, <2>8, <3>1, <3>2, ConcatEmptySeq
    <2>. QED
      BY <2>5, <2>9, <2>10, <2>11 DEF Batch
  <1>4. ~ (Batches < b) /\ Batches \in 0..Batches
    BY <1>2 DEF Batch
  <1>. QED
    BY <1>1, <1>3, <1>4

(* Sets of batches one behind the other *)
LEMMA OfMany ==
    ASSUME input \in Inputs, NEW n \in Nat, NEW P,
           \A k, l \in 1..n : k < l => \A s \in P[k], t \in P[l] : s < t
    PROVE  FlattenSeq([k \in 1..n |-> Of(P[k])]) = Of(UNION {P[k] : k \in 1..n})
  <1>. DEFINE ss == [k \in 1..n |-> Of(P[k])]
              Upto(i) == UNION {P[k] : k \in 1..i}
  <1>1. \A k \in 1..n : Of(P[k]) \in Seq(Batch)
    BY OfPrefixes
  <1>2. ss \in [1..n -> Seq(Batch)] /\ \A k \in 1..n : ss[k] = Of(P[k])
    BY <1>1
  <1>. HIDE DEF ss
  <1>3. ss \in Seq(Seq(Batch)) /\ Len(ss) = n
    BY <1>2, SeqOfFunction
  <1>4. PICK g \in [0..Len(ss) -> Seq(Batch)] :
           IsJoin(g, ss) /\ FlattenSeq(ss) = g[Len(ss)]
    BY <1>3, FlattenJoins
  <1>5. g[0] = <<>> /\ \A k \in 1..n : g[k] = g[k - 1] \o Of(P[k])
    BY <1>2, <1>3, <1>4 DEF IsJoin
  <1>. DEFINE Counter == {i \in 0..n : g[i] # Of(Upto(i))}
  <1>6. Counter = {}
    <2>1. SUFFICES ASSUME Counter # {} PROVE FALSE
      OBVIOUS
    <2>2. Counter \subseteq Nat
      OBVIOUS
    <2>3. PICK k \in Counter : \A m \in Counter : k <= m
      BY <2>1, <2>2, LeastNat
    <2>4. k # 0
      <3>1. Upto(0) = {}
        OBVIOUS
      <3>. QED
        BY <1>5, <2>3, <3>1, OfEmpty
    <2>5. k - 1 \in 0..n /\ k \in 1..n
      BY <2>3, <2>4
    <2>6. k - 1 \notin Counter
      <3>1. ~ (k <= k - 1)
        BY <2>5
      <3>. HIDE DEF Counter
      <3>. QED
        BY <2>3, <3>1
    <2>7. g[k] = Of(Upto(k - 1)) \o Of(P[k])
      BY <1>5, <2>5, <2>6
    <2>8. Upto(k) = Upto(k - 1) \cup P[k]
      <3>1. 1..k = (1..(k - 1)) \cup {k}
        BY <2>5
      <3>. QED
        BY <3>1
    <2>9. \A s \in Upto(k - 1), t \in P[k] : s < t
      <3>1. \A l \in 1..(k - 1) : l \in 1..n /\ l < k
        BY <2>5
      <3>. QED
        BY <2>5, <3>1
    <2>. HIDE DEF Upto
    <2>10. g[k] = Of(Upto(k))
      BY <2>7, <2>8, <2>9, OfJoin
    <2>. QED
      BY <2>3, <2>10
  <1>7. FlattenSeq(ss) = Of(Upto(n))
    <2>1. n \in 0..n
      OBVIOUS
    <2>. QED
      BY <1>3, <1>4, <1>6, <2>1
  <1>. QED
    BY <1>7 DEF ss

--------------------------------------------------------------------------------
(* What entries own. *)

(* Which batches are in the collection of an entry: those that come before the
   next entry                                                                *)

BatchesOf(entries) == {e.batch : e \in ToSet(entries)}

Owned(B, D, x) == {d \in D : x <= d /\ \A y \in B : y <= d => y <= x}

(* The batches of the entries are finitely many numbers. *)
LEMMA BatchesOfIs ==
    ASSUME NEW entries \in Seq(Entry)
    PROVE  /\ BatchesOf(entries) = {entries[i].batch : i \in DOMAIN entries}
           /\ BatchesOf(entries) \in SUBSET Batch
           /\ BatchesOf(entries) \in SUBSET Int
           /\ IsFiniteSet(BatchesOf(entries))
  <1>1. ToSet(entries) = {entries[i] : i \in DOMAIN entries}
        /\ \A i \in DOMAIN entries : entries[i] \in Entry
        /\ DOMAIN entries = 1..Len(entries) /\ Len(entries) \in Nat
    BY SeqElements
  <1>2. BatchesOf(entries) = {entries[i].batch : i \in DOMAIN entries}
    BY <1>1 DEF BatchesOf
  <1>3. BatchesOf(entries) \in SUBSET Batch
    BY <1>1, <1>2 DEF Entry
  <1>4. BatchesOf(entries) \in SUBSET Int
    BY <1>3 DEF Batch
  <1>5. IsFiniteSet(BatchesOf(entries))
    <2>. DEFINE f == [i \in DOMAIN entries |-> entries[i].batch]
    <2>1. f \in Surjection(DOMAIN entries, BatchesOf(entries))
      BY <1>2 DEF Surjection
    <2>2. IsFiniteSet(DOMAIN entries)
      BY <1>1, FS_Interval
    <2>. HIDE DEF f
    <2>. QED
      BY <2>1, <2>2, FS_Surjection DEF ExistsSurjection
  <1>. QED
    BY <1>2, <1>3, <1>4, <1>5

(* A batch behind some entry is owned by one. *)
LEMMA OwnerExists ==
    ASSUME NEW B \in SUBSET Int, IsFiniteSet(B), NEW D \in SUBSET Int,
           NEW d \in D, NEW x \in B, x <= d
    PROVE  \E y \in B : x <= y /\ d \in Owned(B, D, y)
  <1>. DEFINE S == {y \in B : y <= d}
  <1>1. S \in SUBSET Int /\ IsFiniteSet(S) /\ x \in S
    BY FS_Subset
  <1>2. \A y \in S : y \in B /\ y <= d
    OBVIOUS
  <1>3. \A y \in B : y <= d => y \in S
    OBVIOUS
  <1>. HIDE DEF S
  <1>4. Max(S) \in S /\ \A u \in S : u <= Max(S)
    BY <1>1, MinMax
  <1>. QED
    BY <1>1, <1>2, <1>3, <1>4 DEF Owned

(* What earlier entries own is earlier. *)
LEMMA OwnedApart ==
    ASSUME NEW B \in SUBSET Int, NEW D \in SUBSET Int,
           NEW x \in B, NEW y \in B, x < y,
           NEW s \in Owned(B, D, x), NEW t \in Owned(B, D, y)
    PROVE  s < t
  <1>1. s \in Int /\ t \in Int /\ x \in Int /\ y \in Int
    BY DEF Owned
  <1>2. y <= t /\ (y <= s => y <= x)
    BY DEF Owned
  <1>. QED
    BY <1>1, <1>2

(* After the runs are taken, the entry left of a run owns what the run owned. *)
OwnsAfter(entries, runs, D) ==
    LET B == BatchesOf(entries)
        C == BatchesOf(EntriesAfter(entries, runs))
    IN  /\ C = {entries[i].batch : i \in DOMAIN entries \ Erased(runs)}
        /\ \A k \in DOMAIN runs :
              Owned(C, D, entries[runs[k].first].batch)
                 = UNION {Owned(B, D, entries[i].batch) :
                             i \in runs[k].first..runs[k].last}
        /\ \A i \in DOMAIN entries \ Taken(runs) :
              Owned(C, D, entries[i].batch) = Owned(B, D, entries[i].batch)

(* EntriesAfter moves what the entries of a run own to its head. *)
LEMMA OwnedAfter ==
    ASSUME Batches \in Nat, NEW entries \in Seq(Entry), InBatchOrder(entries),
           NEW runs, RunsIn(runs, entries), NEW D \in SUBSET Int
    PROVE  OwnsAfter(entries, runs, D)
  <1>. DEFINE after == EntriesAfter(entries, runs)
              b(i) == entries[i].batch
              B == BatchesOf(entries)
              C == BatchesOf(after)
              P == DOMAIN entries
  <1>1. B = {b(i) : i \in P} /\ B \in SUBSET Int /\ IsFiniteSet(B)
    BY BatchesOfIs
  <1>2. C = {b(i) : i \in P \ Erased(runs)}
    <2>1. ToSet(after) = {Remains(entries, runs, i) : i \in P \ Erased(runs)}
      BY AfterIs
    <2>2. \A i \in P : Remains(entries, runs, i).batch = b(i)
      BY RemainsEntry
    <2>. HIDE DEF after, b, P
    <2>3. C = {Remains(entries, runs, i).batch : i \in P \ Erased(runs)}
      BY <2>1 DEF BatchesOf
    <2>. QED
      BY <2>2, <2>3
  <1>3. \A i, j \in P : (b(i) <= b(j) <=> i <= j) /\ (b(i) = b(j) => i = j)
    <2>1. \A i, j \in P : i \in Int /\ j \in Int
      BY SeqElements
    <2>. QED
      BY <2>1, OrderedApart
  <1>4. \A k \in DOMAIN runs :
           /\ runs[k].first \in Nat /\ runs[k].last \in Nat
           /\ runs[k].first <= runs[k].last
           /\ runs[k].first \in runs[k].first..runs[k].last
           /\ runs[k].first..runs[k].last \subseteq P
    BY RunsApart
  <1>5. \A k, l \in DOMAIN runs :
           k # l => (runs[k].first..runs[k].last) \cap (runs[l].first..runs[l].last) = {}
    BY RunsApart
  <1>6. /\ Taken(runs) = Heads(runs) \cup Erased(runs)
        /\ Heads(runs) \cap Erased(runs) = {}
    BY RunsApart
  <1>7. \A i \in P : i \in Int /\ b(i) \in Int
    BY <1>1, SeqElements
  <1>. HIDE DEF after, b, B, C, P
  (* an entry between two that are not separated by a head *)
  <1>8. ASSUME NEW d \in D, NEW h \in P, h \notin Erased(runs), NEW j \in P,
               b(h) <= b(j), b(j) <= d, \A y \in C : y <= d => y <= b(h)
        PROVE  j = h \/ \E k \in DOMAIN runs : runs[k].first = h
                                               /\ j \in h..runs[k].last
    <2>1. SUFFICES ASSUME j # h
                   PROVE  \E k \in DOMAIN runs : runs[k].first = h
                                                 /\ j \in h..runs[k].last
      OBVIOUS
    <2>2. j > h
      BY <1>3, <1>7, <1>8, <2>1
    <2>3. ~ (b(j) <= b(h))
      BY <1>3, <1>7, <2>2
    <2>4. j \in Erased(runs)
      BY <1>2, <1>8, <2>3
    <2>5. PICK k \in DOMAIN runs : j \in (runs[k].first + 1)..runs[k].last
      BY <2>4 DEF Erased
    <2>. DEFINE f == runs[k].first
    <2>6. f \in Nat /\ f \in P /\ f < j /\ j <= runs[k].last /\ runs[k].last \in Nat
      BY <1>4, <2>5
    <2>7. f \notin Erased(runs)
      BY <1>6 DEF Heads
    <2>8. b(f) <= d
      <3>1. b(f) <= b(j) /\ d \in Int
        BY <1>3, <1>7, <2>6
      <3>. QED
        BY <1>7, <1>8, <2>6, <3>1
    <2>9. f <= h
      BY <1>2, <1>3, <1>8, <2>6, <2>7, <2>8
    <2>10. f = h
      <3>1. SUFFICES ASSUME f < h PROVE FALSE
        BY <1>7, <2>6, <2>9
      <3>2. h \in (runs[k].first + 1)..runs[k].last
        BY <1>7, <2>2, <2>6, <3>1
      <3>3. h \in Erased(runs)
        BY <3>2 DEF Erased
      <3>. QED
        BY <1>8, <3>3
    <2>. QED
      BY <1>7, <2>2, <2>6, <2>10
  <1>9. ASSUME NEW h \in P, h \notin Erased(runs), NEW d \in Owned(C, D, b(h))
        PROVE  \E j \in P : /\ d \in Owned(B, D, b(j))
                            /\ j = h \/ \E k \in DOMAIN runs :
                                           runs[k].first = h /\ j \in h..runs[k].last
    <2>1. d \in D /\ b(h) <= d /\ \A y \in C : y <= d => y <= b(h)
      BY DEF Owned
    <2>2. b(h) \in B
      BY <1>1
    <2>3. PICK y \in B : b(h) <= y /\ d \in Owned(B, D, y)
      BY <1>1, <2>1, <2>2, OwnerExists
    <2>4. PICK j \in P : y = b(j)
      BY <1>1
    <2>5. b(j) <= d
      BY <2>3, <2>4 DEF Owned
    <2>. QED
      BY <1>8, <1>9, <2>1, <2>3, <2>4, <2>5
  <1>10. ASSUME NEW k \in DOMAIN runs
         PROVE  Owned(C, D, b(runs[k].first))
                   = UNION {Owned(B, D, b(i)) : i \in runs[k].first..runs[k].last}
    <2>. DEFINE h == runs[k].first
    <2>1. h \in P /\ h \in Nat /\ runs[k].last \in Nat /\ h <= runs[k].last
          /\ h..runs[k].last \subseteq P
      BY <1>4
    <2>2. h \notin Erased(runs)
      BY <1>6 DEF Heads
    <2>3. ASSUME NEW d \in Owned(C, D, b(h))
          PROVE  \E i \in h..runs[k].last : d \in Owned(B, D, b(i))
      <3>. HIDE DEF h
      <3>1. PICK j \in P : /\ d \in Owned(B, D, b(j))
                           /\ j = h \/ \E l \in DOMAIN runs :
                                          runs[l].first = h /\ j \in h..runs[l].last
        BY <1>9, <2>1, <2>2
      <3>2. CASE j = h
        <4>1. h \in h..runs[k].last
          BY <2>1
        <4>. QED
          BY <3>1, <3>2, <4>1
      <3>3. CASE \E l \in DOMAIN runs : runs[l].first = h /\ j \in h..runs[l].last
        <4>1. PICK l \in DOMAIN runs : runs[l].first = h /\ j \in h..runs[l].last
          BY <3>3
        <4>2. l = k
          <5>1. h \in (runs[k].first..runs[k].last) \cap (runs[l].first..runs[l].last)
            BY <1>4, <4>1 DEF h
          <5>. QED
            BY <1>5, <5>1
        <4>. QED
          BY <3>1, <4>1, <4>2
      <3>. QED
        BY <3>1, <3>2, <3>3
    <2>4. ASSUME NEW i \in h..runs[k].last, NEW d \in Owned(B, D, b(i))
          PROVE  d \in Owned(C, D, b(h))
      <3>1. i \in P /\ h <= i
        BY <2>1
      <3>2. d \in D /\ d \in Int /\ b(i) <= d /\ \A y \in B : y <= d => y <= b(i)
        BY DEF Owned
      <3>3. b(h) <= b(i)
        BY <1>3, <2>1, <3>1
      <3>4. b(h) <= d
        BY <1>7, <2>1, <3>1, <3>2, <3>3
      <3>5. ASSUME NEW y \in C, y <= d PROVE y <= b(h)
        <4>1. PICK j \in P \ Erased(runs) : y = b(j)
          BY <1>2
        <4>2. y \in B
          BY <1>1, <4>1
        <4>3. b(j) <= b(i)
          BY <3>2, <3>5, <4>1, <4>2
        <4>4. j <= i
          BY <1>3, <3>1, <4>1, <4>3
        <4>5. j \notin (runs[k].first + 1)..runs[k].last
          BY <4>1 DEF Erased
        <4>6. j <= h
          BY <1>7, <2>1, <4>1, <4>4, <4>5
        <4>. QED
          BY <1>3, <2>1, <4>1, <4>6
      <3>. QED
        BY <3>2, <3>4, <3>5 DEF Owned
    <2>. QED
      BY <2>3, <2>4
  <1>11. ASSUME NEW h \in P \ Taken(runs)
         PROVE  Owned(C, D, b(h)) = Owned(B, D, b(h))
    <2>1. h \notin Erased(runs) /\ h \notin Heads(runs)
      BY <1>6
    <2>2. \A k \in DOMAIN runs : runs[k].first # h
      BY <2>1 DEF Heads
    <2>3. ASSUME NEW d \in Owned(C, D, b(h)) PROVE d \in Owned(B, D, b(h))
      BY <1>9, <2>1, <2>2
    <2>4. ASSUME NEW d \in Owned(B, D, b(h)) PROVE d \in Owned(C, D, b(h))
      <3>1. C \subseteq B
        BY <1>1, <1>2
      <3>. QED
        BY <3>1 DEF Owned
    <2>. QED
      BY <2>3, <2>4
  <1>. QED
    BY <1>2, <1>10, <1>11 DEF OwnsAfter, after, b, B, C, P

--------------------------------------------------------------------------------

(* The invariant of what is inserted *)

(* The batches whose rows a task has and has not yet added: those in its
   collection, and those it is to sink.                                      *)
Collecting(t) == lstate[t].coll # 0 /\ pc[t] # "wake"

Held(t) == {b \in Batch : \/ Collecting(t) /\ b = lstate[t].coll
                          \/ lstate[t].left > 0 /\ b = lstate[t].batch}

(* The batches whose collections have been added *)
Delivered == {b \in Chunked : b <= handed /\ \A t \in Task : b \notin Held(t)}

(* Where a task is *)
Moving == {"add", "wake", "moved", "index"}
Draining == {"drain", "merge", "publish"}
Sinking == {"sink", "memory", "wait", "blocked", "append"}
Ending == {"stats", "combine", "done"}

InNextBatch(t) ==
    pc[t] \in Moving \/ (pc[t] \in Draining /\ lstate[t].back = "index")

InSink(t) ==
    pc[t] \in Sinking \/ (pc[t] \in Draining /\ lstate[t].back = "wait")

(* The local state goes with where the task is. *)
AtStart(t) == pc[t] = "start" => lstate[t].coll = 0 /\ lstate[t].left = 0

AtFetch(t) ==
    pc[t] = "fetch" =>
        /\ lstate[t].left = 0
        /\ lstate[t].coll # 0 => /\ lstate[t].coll = lstate[t].batch
                                 /\ lstate[t].current = lstate[t].batch
                                 /\ active[t] = lstate[t].batch

AtNextBatch(t) ==
    InNextBatch(t) =>
        /\ lstate[t].left = IF lstate[t].batch \in Batch
                            THEN input.chunks[lstate[t].batch] ELSE 0
        /\ lstate[t].batch # 0
        /\ IF pc[t] \in {"add", "wake"}
           THEN lstate[t].coll # 0 /\ lstate[t].coll = lstate[t].current
           ELSE lstate[t].coll = 0
        /\ pc[t] = "add" => /\ active[t] = lstate[t].coll
                            /\ lstate[t].coll < lstate[t].batch
        /\ pc[t] = "index" => lstate[t].current = lstate[t].batch

AtSink(t) ==
    InSink(t) =>
        /\ lstate[t].batch \in Batch
        /\ lstate[t].current = lstate[t].batch
        /\ active[t] = lstate[t].batch
        /\ lstate[t].left > 0
        /\ lstate[t].left <= input.chunks[lstate[t].batch]
        /\ IF lstate[t].left = input.chunks[lstate[t].batch]
           THEN lstate[t].coll = 0
           ELSE lstate[t].coll = lstate[t].batch

AtEnd(t) ==
    pc[t] \in Ending =>
        lstate[t].coll = 0 /\ lstate[t].left = 0 /\ lstate[t].batch = MaxBatchIndex

PhaseOf(t) == AtStart(t) /\ AtFetch(t) /\ AtNextBatch(t) /\ AtSink(t) /\ AtEnd(t)

Phases == \A t \in Task : PhaseOf(t)

(* A batch is with one task at most, and with none that is registered for a
   later one.                                                                *)
HeldOnce ==
    /\ \A t \in Task : \A b \in Held(t) : b \in Chunked /\ b <= handed /\ active[t] <= b
    /\ \A t, u \in Task : t # u => Held(t) \cap Held(u) = {}

(* The collections tasks work on have what has been sunk of their batch. *)
Collected(t) ==
    [k \in 1..(input.chunks[lstate[t].coll]
                  - IF lstate[t].coll = lstate[t].batch THEN lstate[t].left ELSE 0)
        |-> lstate[t].coll]

StoreOfTasks == \A t \in Task : Collecting(t) => store[lstate[t].coll] = Collected(t)

StoreFresh ==
    \A b \in Batch \ Delivered :
        (\A t \in Task : Collecting(t) => lstate[t].coll # b) => store[b] = <<>>

(* The entries *)
Entries == ToSet(gstate.entries)

EntriesOk ==
    /\ InBatchOrder(gstate.entries)
    /\ \A e \in Entries : /\ e.batch \in Delivered
                          /\ e.coll = 0 \/ e.coll = e.batch
                          /\ ~ e.flushed => e.coll # 0

(* The batches that are in the collection of an entry *)
OwnedBy(e) == Owned(BatchesOf(gstate.entries), Delivered, e.batch)

EntryContents == \A e \in Entries : e.coll # 0 => store[e.coll] = Of(OwnedBy(e))

(* Before a batch that is not there yet no entry reaches beyond it. *)
Separated ==
    \A b \in Chunked \ Delivered, d \in Delivered :
        b < d => \E e \in Entries : b < e.batch /\ e.batch <= d

Covered ==
    \/ table = <<>> /\ \A d \in Delivered : \E e \in Entries : e.batch <= d
    \/ Finished /\ table = Of(Chunked)

(* The merges *)
Waiting == ToSet(gstate.queue)
              \cup {lstate[t].work : t \in {u \in Task : pc[u] = "merge"}}

Fits(j, e) ==
    /\ j.colls # <<>> /\ j.colls[1] = e.batch
    /\ ToSet(j.colls) \subseteq OwnedBy(e)
    /\ Contents(j.colls) = Of(OwnedBy(e))

JobsOk == \A j \in Waiting : \A e \in Entries : e.batch = j.batch => Fits(j, e)

Published ==
    \A t \in Task : pc[t] = "publish" =>
        \A e \in Entries : e.batch = lstate[t].work.batch =>
            /\ lstate[t].work.colls[1] = e.batch
            /\ store[e.batch] = Of(OwnedBy(e))

AtWork(t) == pc[t] \in {"merge", "publish"}

JobsOnce ==
    /\ \A i, k \in DOMAIN gstate.queue :
          gstate.queue[i].batch = gstate.queue[k].batch => i = k
    /\ \A t \in Task : AtWork(t) =>
          \A j \in ToSet(gstate.queue) : j.batch # lstate[t].work.batch
    /\ \A t, u \in Task : AtWork(t) /\ AtWork(u) /\ t # u =>
          lstate[t].work.batch # lstate[u].work.batch

(* A task that will find the merges in the queue *)
Serves(t) == \/ pc[t] \in {"add", "wake"} \cup Draining \cup Sinking
             \/ pc[t] = "fetch" /\ lstate[t].coll # 0

QueueServed == gstate.queue # <<>> => \E t \in Task : Serves(t)

FlushedLarge ==
    (\E e \in Entries : e.flushed) =>
        gstate.written \/ gstate.count >= RowGroupSize \/ gstate.queue # <<>>
            \/ \E t \in Task : pc[t] = "merge"

TaskInv == TypeOK /\ IInv /\ Phases /\ HeldOnce

DataInv == /\ StoreOfTasks /\ StoreFresh
           /\ EntriesOk /\ EntryContents /\ Separated /\ Covered
           /\ JobsOk /\ Published /\ JobsOnce
           /\ QueueServed /\ FlushedLarge
           /\ MergesAwaited /\ MemoryAccounted /\ NothingThrown

--------------------------------------------------------------------------------
(* Steps of a task and the other tasks. *)

(* What depends on the statement alone *)
LEMMA StatementKept ==
    ASSUME input' = input
    PROVE  /\ Task' = Task /\ Batches' = Batches /\ Batch' = Batch
           /\ MaxBatchIndex' = MaxBatchIndex /\ Chunked' = Chunked
           /\ LocalState' = LocalState /\ Work' = Work /\ Entry' = Entry
           /\ \A S : Of(S)' = Of(S)
           /\ \A b : Repeated(b)' = Repeated(b)
  <1>1. Batches' = Batches /\ Task' = Task
    BY DEF Batches, Task
  <1>2. Batch' = Batch /\ MaxBatchIndex' = MaxBatchIndex
    BY <1>1 DEF Batch, MaxBatchIndex
  <1>3. Chunked' = Chunked
    BY <1>2 DEF Chunked
  <1>4. Work' = Work /\ Entry' = Entry
    BY <1>1, <1>2 DEF Work, Entry
  <1>5. LocalState' = LocalState
    BY <1>1, <1>2, <1>4 DEF LocalState
  <1>6. \A b : Repeated(b)' = Repeated(b)
    BY DEF Repeated
  <1>7. \A S : Of(S)' = Of(S)
    BY <1>2 DEF Of, RowsOf, Repeated
  <1>. QED
    BY <1>1, <1>2, <1>3, <1>4, <1>5, <1>6, <1>7

(* The types of the local state. *)
LEMMA LocalTyped ==
    ASSUME TypeOK, NEW t \in Task
    PROVE  /\ lstate[t] \in LocalState
           /\ lstate[t].batch \in 0..MaxBatchIndex
           /\ lstate[t].min \in 0..MaxBatchIndex
           /\ lstate[t].current \in 0..MaxBatchIndex
           /\ lstate[t].coll \in 0..Batches
           /\ lstate[t].tail \in 0..Batches
           /\ lstate[t].left \in Nat
           /\ lstate[t].work \in Work
           /\ lstate[t].back \in {"index", "wait"}
           /\ pc[t] \in Control
           /\ Batches \in Nat /\ MaxBatchIndex = Batches + 1 /\ Batch = 1..Batches
           /\ handed \in 0..Batches
           /\ \A b \in Batch : input.chunks[b] \in Nat
  <1>1. lstate[t] \in LocalState /\ pc[t] \in Control /\ input \in Inputs
        /\ handed \in 0..Batches
    BY DEF TypeOK
  <1>2. Batches \in Nat /\ \A b \in Batch : input.chunks[b] \in Nat
    BY <1>1, InputSound
  <1>. QED
    BY <1>1, <1>2 DEF LocalState, MaxBatchIndex, Batch

(* A step of a task leaves the other tasks as they are, or wakes them up. *)
Undisturbed(u) ==
    /\ lstate'[u] = lstate[u]
    /\ active'[u] = active[u]
    /\ pc'[u] = pc[u] \/ (pc[u] = "blocked" /\ pc'[u] = "sink")

StepOf(t) == input' = input /\ \A u \in Task \ {t} : Undisturbed(u)

(* What is said of the other tasks stays true. *)
LEMMA OthersKept ==
    ASSUME NEW t \in Task, StepOf(t), NEW u \in Task \ {t}
    PROVE  /\ PhaseOf(u) => PhaseOf(u)'
           /\ Held(u)' = Held(u)
           /\ Collecting(u)' = Collecting(u)
           /\ Collected(u)' = Collected(u)
           /\ lstate'[u] = lstate[u]
           /\ pc'[u] = "merge" <=> pc[u] = "merge"
           /\ pc'[u] = "publish" <=> pc[u] = "publish"
           /\ pc'[u] = "done" <=> pc[u] = "done"
           /\ Serves(u) => Serves(u)'
  <1>1. /\ lstate'[u] = lstate[u] /\ active'[u] = active[u] /\ input' = input
        /\ pc'[u] = pc[u] \/ (pc[u] = "blocked" /\ pc'[u] = "sink")
    BY DEF StepOf, Undisturbed
  <1>2. Batch' = Batch /\ MaxBatchIndex' = MaxBatchIndex
    BY <1>1, StatementKept
  <1>3. Collecting(u)' = Collecting(u)
    BY <1>1 DEF Collecting
  <1>4. Held(u)' = Held(u)
    BY <1>1, <1>2, <1>3 DEF Held
  <1>5. Collected(u)' = Collected(u)
    BY <1>1 DEF Collected
  <1>6. InSink(u)' = InSink(u) /\ InNextBatch(u)' = InNextBatch(u)
    BY <1>1 DEF InSink, InNextBatch, Sinking, Moving, Draining
  <1>7. AtSink(u) => AtSink(u)'
    BY <1>1, <1>2, <1>6 DEF AtSink
  <1>8. AtNextBatch(u) => AtNextBatch(u)'
    BY <1>1, <1>2, <1>6 DEF AtNextBatch
  <1>9. AtStart(u) /\ AtFetch(u) /\ AtEnd(u) => AtStart(u)' /\ AtFetch(u)' /\ AtEnd(u)'
    BY <1>1, <1>2 DEF AtStart, AtFetch, AtEnd, Ending
  <1>10. Serves(u) => Serves(u)'
    BY <1>1 DEF Serves, Sinking, Draining
  <1>. QED
    BY <1>1, <1>3, <1>4, <1>5, <1>7, <1>8, <1>9, <1>10 DEF PhaseOf

(* Goto and UnblockAll *)
LEMMA GoesOn ==
    ASSUME pc \in [Task -> Control], NEW t \in Task, NEW label \in Control,
           Goto(t, label) \/ UnblockAll(t, label)
    PROVE  /\ pc' \in [Task -> Control]
           /\ pc'[t] = label
           /\ \A u \in Task \ {t} :
                 pc'[u] = pc[u] \/ (pc[u] = "blocked" /\ pc'[u] = "sink")
  <1>1. "sink" \in Control
    BY DEF Control
  <1>. QED
    BY <1>1 DEF Goto, UnblockAll

(* What a step of a task has to keep *)
LEMMA TasksKept ==
    ASSUME Phases, HeldOnce, NEW t \in Task, StepOf(t), PhaseOf(t)',
           handed \in Int, handed' \in Int, handed <= handed', Chunked \subseteq Int,
           \A b \in Held(t)' : /\ b \in Chunked /\ b <= handed' /\ active'[t] <= b
                               /\ \A u \in Task \ {t} : b \notin Held(u)
    PROVE  Phases' /\ HeldOnce'
  <1>1. Task' = Task /\ Chunked' = Chunked
    BY StatementKept DEF StepOf
  <1>2. \A u \in Task \ {t} : (PhaseOf(u) => PhaseOf(u)') /\ Held(u)' = Held(u)
    BY OthersKept
  <1>3. \A u \in Task \ {t} : active'[u] = active[u]
    BY DEF StepOf, Undisturbed
  <1>4. Phases'
    BY <1>1, <1>2 DEF Phases
  <1>5. ASSUME NEW u \in Task, NEW b \in Held(u)'
        PROVE  b \in Chunked /\ b <= handed' /\ active'[u] <= b
    <2>1. CASE u = t
      BY <1>5, <2>1
    <2>2. CASE u # t
      <3>1. b \in Held(u) /\ active'[u] = active[u]
        BY <1>2, <1>3, <1>5, <2>2
      <3>2. b \in Chunked /\ b <= handed /\ active[u] <= b /\ b \in Int
        BY <3>1 DEF HeldOnce
      <3>. QED
        BY <3>1, <3>2
    <2>. QED
      BY <2>1, <2>2
  <1>6. ASSUME NEW u \in Task, NEW v \in Task, u # v
        PROVE  Held(u)' \cap Held(v)' = {}
    <2>1. CASE u = t
      BY <1>2, <1>6, <2>1
    <2>2. CASE v = t
      BY <1>2, <1>6, <2>2
    <2>3. CASE u # t /\ v # t
      BY <1>2, <1>6, <2>3 DEF HeldOnce
    <2>. QED
      BY <2>1, <2>2, <2>3
  <1>7. HeldOnce'
    BY <1>1, <1>5, <1>6 DEF HeldOnce
  <1>. QED
    BY <1>4, <1>7

(* Steps that leave a task with the batches it has *)
KeepsBatches(t) ==
    /\ StepOf(t)
    /\ handed' = handed
    /\ Held(t)' = Held(t)
    /\ active' = active
    /\ Collecting(t)' = Collecting(t)
    /\ Collecting(t) => lstate'[t].coll = lstate[t].coll /\ Collected(t)' = Collected(t)

(* Such a step keeps the phases, and who holds which batch. *)
LEMMA BatchesKept ==
    ASSUME TaskInv, NEW t \in Task, KeepsBatches(t), PhaseOf(t)'
    PROVE  Phases' /\ HeldOnce'
  <1>1. handed \in Int /\ handed' = handed /\ handed <= handed' /\ Chunked \subseteq Int
    <2>1. handed \in 0..Batches /\ Batch = 1..Batches /\ Batches \in Nat
      BY LocalTyped DEF TaskInv
    <2>. QED
      BY <2>1 DEF KeepsBatches, Chunked
  <1>2. \A b \in Held(t) : /\ b \in Chunked /\ b <= handed /\ active[t] <= b
                           /\ \A u \in Task \ {t} : b \notin Held(u)
    BY DEF TaskInv, HeldOnce
  <1>3. \A b \in Held(t)' : /\ b \in Chunked /\ b <= handed' /\ active'[t] <= b
                            /\ \A u \in Task \ {t} : b \notin Held(u)
    BY <1>1, <1>2 DEF KeepsBatches
  <1>. QED
    BY <1>1, <1>3, TasksKept DEF TaskInv, KeepsBatches

--------------------------------------------------------------------------------
(* Steps that leave what is inserted alone. *)

(* What the steps that leave the collections and the merges alone do. *)
Frame(t) ==
    /\ StepOf(t) /\ Phases' /\ HeldOnce'
    /\ lstate' \in [Task -> LocalState]
    /\ Delivered' = Delivered
    /\ Collecting(t)' = Collecting(t)
    /\ Collecting(t) => lstate'[t].coll = lstate[t].coll /\ Collected(t)' = Collected(t)
    /\ pc[t] \notin {"merge", "publish", "done"} /\ pc'[t] \notin {"merge", "publish"}
    /\ gstate.queue # <<>> /\ Serves(t) => \E u \in Task : Serves(u)'
    /\ UNCHANGED <<gstate, store, table, thrown>>
    /\ \/ UNCHANGED memory
       \/ \E n \in 0..MaxBatchIndex : memory' = [memory EXCEPT !.min = n]
       \/ \E n \in Nat, b \in BOOLEAN :
              memory' = [memory EXCEPT !.available = n, !.mayGrow = b]

(* Nothing is delivered by a step that keeps the batches of its task. *)
LEMMA DeliveredKept ==
    ASSUME NEW t \in Task, StepOf(t), handed' = handed, Held(t)' = Held(t)
    PROVE  Delivered' = Delivered
  <1>1. Task' = Task /\ Chunked' = Chunked
    BY StatementKept DEF StepOf
  <1>2. \A u \in Task : Held(u)' = Held(u)
    BY OthersKept
  <1>. QED
    BY <1>1, <1>2 DEF Delivered

(* The facts of TaskInv about one task. *)
LEMMA TaskFacts ==
    ASSUME TaskInv, NEW t \in Task
    PROVE  /\ AtStart(t) /\ AtFetch(t) /\ AtNextBatch(t) /\ AtSink(t) /\ AtEnd(t)
           /\ TypeOK /\ IInv /\ pc \in [Task -> Control]
           /\ lstate \in [Task -> LocalState]
           /\ DOMAIN lstate = Task
  BY DEF TaskInv, Phases, PhaseOf, TypeOK

(* Steps that only move a task on *)
MovesOn(t, label) ==
    /\ Goto(t, label) \/ UnblockAll(t, label)
    /\ UNCHANGED <<input, handed, active, lstate, gstate, store, table, thrown>>
    /\ pc[t] \notin {"merge", "publish", "done", "wake"}
    /\ label \in Control \ {"merge", "publish", "wake"}
    /\ \/ UNCHANGED memory
       \/ \E n \in 0..MaxBatchIndex : memory' = [memory EXCEPT !.min = n]
    /\ gstate.queue = <<>> \/ ~ Serves(t) \/ label \in Draining \cup Sinking

(* Moving on is such a step. *)
LEMMA MovesOnFrame ==
    ASSUME TaskInv, NEW t \in Task, NEW label, MovesOn(t, label),
           pc'[t] = label => PhaseOf(t)'
    PROVE  Frame(t)
  <1>0. TypeOK /\ pc \in [Task -> Control]
    BY TaskFacts
  <1>1. /\ Goto(t, label) \/ UnblockAll(t, label)
        /\ UNCHANGED <<input, handed, active, lstate, gstate, store, table, thrown>>
        /\ label \in Control \ {"merge", "publish", "wake"}
        /\ pc[t] \notin {"merge", "publish", "done", "wake"}
        /\ gstate.queue = <<>> \/ ~ Serves(t) \/ label \in Draining \cup Sinking
    BY DEF MovesOn
  <1>3. /\ pc'[t] = label
        /\ \A u \in Task \ {t} :
                 pc'[u] = pc[u] \/ (pc[u] = "blocked" /\ pc'[u] = "sink")
    BY <1>0, <1>1, GoesOn
  <1>4. StepOf(t)
    BY <1>1, <1>3 DEF StepOf, Undisturbed
  <1>5. Batch' = Batch /\ MaxBatchIndex' = MaxBatchIndex /\ Task' = Task
    BY <1>1, StatementKept
  <1>6. lstate'[t] = lstate[t]
    BY <1>1
  <1>7. Collecting(t)' = Collecting(t)
    BY <1>1, <1>3, <1>6 DEF Collecting
  <1>8. Held(t)' = Held(t)
    BY <1>5, <1>6, <1>7 DEF Held
  <1>9. Collected(t)' = Collected(t)
    BY <1>1, <1>6 DEF Collected
  <1>10. PhaseOf(t)'
    BY <1>3
  <1>11. KeepsBatches(t)
    BY <1>1, <1>4, <1>6, <1>7, <1>8, <1>9 DEF KeepsBatches
  <1>12. Phases' /\ HeldOnce'
    BY <1>10, <1>11, BatchesKept
  <1>13. Delivered' = Delivered
    BY <1>1, <1>4, <1>8, DeliveredKept
  <1>14. lstate' \in [Task -> LocalState]
    BY <1>0, <1>1 DEF TypeOK
  <1>15. gstate.queue # <<>> /\ Serves(t) => \E u \in Task : Serves(u)'
    BY <1>1, <1>3 DEF Serves
  <1>16. \/ UNCHANGED memory
         \/ \E n \in 0..MaxBatchIndex : memory' = [memory EXCEPT !.min = n]
    BY DEF MovesOn
  <1>. QED
    BY <1>1, <1>3, <1>4, <1>6, <1>7, <1>9, <1>12, <1>13, <1>14, <1>15, <1>16 DEF Frame

(* Steps within the sink keep what AtSink says. *)
LEMMA StaysInSink ==
    ASSUME NEW t, InSink(t), AtSink(t), lstate'[t] = lstate[t],
           UNCHANGED <<input, active>>, pc'[t] \in Sinking
    PROVE  PhaseOf(t)'
  <1>1. Batch' = Batch
    BY StatementKept
  <1>2. AtSink(t)'
    BY <1>1 DEF AtSink
  <1>. QED
    BY <1>2 DEF PhaseOf, AtStart, AtFetch, AtNextBatch, AtEnd, Ending, InNextBatch,
       Moving, Draining, Sinking

(* FinishInitialiseStats leaves what is inserted alone. *)
LEMMA FinishInitialiseStatsFrame ==
    ASSUME TaskInv, NEW t \in Task, FinishInitialiseStats(t)
    PROVE  Frame(t)
  <1>1. /\ pc[t] = "stats" /\ UNCHANGED <<input, lstate>>
        /\ MovesOn(t, "combine")
    BY DEF FinishInitialiseStats, MovesOn, Control, Serves, Draining, Sinking
  <1>2. ASSUME pc'[t] = "combine"  PROVE PhaseOf(t)'
    <2>1. AtEnd(t)'
      <3>1. AtEnd(t) /\ MaxBatchIndex' = MaxBatchIndex
        BY <1>1, TaskFacts, StatementKept
      <3>. QED
        BY <1>1, <1>2, <3>1 DEF AtEnd, Ending
    <2>. QED
      BY <1>2, <2>1 DEF PhaseOf, AtStart, AtFetch, AtNextBatch, AtSink, InSink,
         InNextBatch, Moving, Draining, Sinking
  <1>. QED
    BY <1>1, <1>2, MovesOnFrame

(* Combine raises the minimum and wakes tasks up; nothing else. *)
LEMMA CombineFrame ==
    ASSUME TaskInv, NEW t \in Task, Combine(t)
    PROVE  Frame(t)
  <1>0. lstate[t].min \in 0..MaxBatchIndex /\ memory.min \in 0..MaxBatchIndex
    BY TaskFacts, LocalTyped DEF TypeOK
  <1>1. /\ pc[t] = "combine" /\ UNCHANGED <<input, lstate>>
        /\ MovesOn(t, "done")
    <2>1. \E n \in 0..MaxBatchIndex : memory' = [memory EXCEPT !.min = n]
      BY <1>0 DEF Combine
    <2>. QED
      BY <2>1 DEF Combine, MovesOn, Control, Serves, Draining, Sinking
  <1>2. ASSUME pc'[t] = "done"  PROVE PhaseOf(t)'
    <2>1. AtEnd(t)'
      <3>1. AtEnd(t) /\ MaxBatchIndex' = MaxBatchIndex
        BY <1>1, TaskFacts, StatementKept
      <3>. QED
        BY <1>1, <1>2, <3>1 DEF AtEnd, Ending
    <2>. QED
      BY <1>2, <2>1 DEF PhaseOf, AtStart, AtFetch, AtNextBatch, AtSink, InSink,
         InNextBatch, Moving, Draining, Sinking
  <1>. QED
    BY <1>1, <1>2, MovesOnFrame

(* SinkBegin raises the minimum at most. *)
LEMMA SinkBeginFrame ==
    ASSUME TaskInv, NEW t \in Task, SinkBegin(t)
    PROVE  Frame(t)
  <1>0. lstate[t].min \in 0..MaxBatchIndex /\ memory.min \in 0..MaxBatchIndex
    BY TaskFacts, LocalTyped DEF TypeOK
  <1>1. /\ pc[t] = "sink"
        /\ UNCHANGED <<input, handed, active, lstate, gstate, store, table, thrown>>
        /\ \E label \in {"append", "memory"} : Goto(t, label) \/ UnblockAll(t, label)
    BY DEF SinkBegin, RaiseMinimum
  <1>2. PICK label \in {"append", "memory"} : Goto(t, label) \/ UnblockAll(t, label)
    BY <1>1
  <1>3. \/ UNCHANGED memory
        \/ \E n \in 0..MaxBatchIndex : memory' = [memory EXCEPT !.min = n]
    BY <1>0 DEF SinkBegin, RaiseMinimum
  <1>4. MovesOn(t, label)
    BY <1>1, <1>2, <1>3 DEF MovesOn, Control, Sinking
  <1>5. ASSUME pc'[t] = label  PROVE PhaseOf(t)'
    <2>1. AtSink(t) /\ InSink(t) /\ label \in Sinking
      BY <1>1, <1>2, TaskFacts DEF InSink, Sinking
    <2>. QED
      BY <1>1, <1>5, <2>1, StaysInSink
  <1>. QED
    BY <1>4, <1>5, MovesOnFrame

(* SinkWait blocks the task or lets it go on. *)
LEMMA SinkWaitFrame ==
    ASSUME TaskInv, NEW t \in Task, SinkWait(t)
    PROVE  Frame(t)
  <1>1. /\ pc[t] = "wait"
        /\ UNCHANGED <<input, handed, active, lstate, gstate, memory, store, table, thrown>>
        /\ \E label \in {"append", "blocked"} : Goto(t, label)
    BY DEF SinkWait
  <1>2. PICK label \in {"append", "blocked"} : Goto(t, label)
    BY <1>1
  <1>4. MovesOn(t, label)
    BY <1>1, <1>2 DEF MovesOn, Control, Sinking
  <1>5. ASSUME pc'[t] = label  PROVE PhaseOf(t)'
    <2>1. AtSink(t) /\ InSink(t) /\ label \in Sinking
      BY <1>1, <1>2, TaskFacts DEF InSink, Sinking
    <2>. QED
      BY <1>1, <1>5, <2>1, StaysInSink
  <1>. QED
    BY <1>4, <1>5, MovesOnFrame

(* A task that finds the queue empty goes back where it came from. *)
LEMMA NoTaskFrame ==
    ASSUME TaskInv, NEW t \in Task, NoTask(t)
    PROVE  Frame(t)
  <1>1. /\ pc[t] = "drain" /\ gstate.queue = <<>>
        /\ UNCHANGED <<input, handed, active, lstate, gstate, memory, store, table, thrown>>
        /\ Goto(t, IF lstate[t].back = "index" THEN "moved" ELSE "wait")
    BY DEF NoTask
  <1>2. lstate[t].back \in {"index", "wait"}
    BY TaskFacts, LocalTyped
  <1>3. Batch' = Batch /\ MaxBatchIndex' = MaxBatchIndex /\ lstate'[t] = lstate[t]
    BY <1>1, StatementKept
  <1>4. CASE lstate[t].back = "index"
    <2>1. MovesOn(t, "moved")
      BY <1>1, <1>4 DEF MovesOn, Control
    <2>2. ASSUME pc'[t] = "moved"  PROVE PhaseOf(t)'
      <3>1. AtNextBatch(t) /\ InNextBatch(t)
        BY <1>1, <1>4, TaskFacts DEF InNextBatch, Draining
      <3>2. AtNextBatch(t)'
        BY <1>1, <1>3, <2>2, <3>1 DEF AtNextBatch
      <3>. QED
        BY <2>2, <3>2 DEF PhaseOf, AtStart, AtFetch, AtEnd, Ending, AtSink, InSink,
           Draining, Sinking
    <2>. QED
      BY <2>1, <2>2, MovesOnFrame
  <1>5. CASE lstate[t].back = "wait"
    <2>1. MovesOn(t, "wait")
      BY <1>1, <1>5 DEF MovesOn, Control
    <2>2. ASSUME pc'[t] = "wait"  PROVE PhaseOf(t)'
      <3>1. AtSink(t) /\ InSink(t) /\ "wait" \in Sinking
        BY <1>1, <1>5, TaskFacts DEF InSink, Draining, Sinking
      <3>. QED
        BY <1>1, <1>3, <2>2, <3>1, StaysInSink
    <2>. QED
      BY <2>1, <2>2, MovesOnFrame
  <1>. QED
    BY <1>2, <1>4, <1>5

(* The local state of the task alone is updated. *)
LEMMA LocalUpdate ==
    ASSUME lstate \in [Task -> LocalState], input' = input,
           NEW t \in Task, NEW l \in LocalState,
           lstate' = [lstate EXCEPT ![t] = l]
    PROVE  /\ lstate' \in [Task -> LocalState]
           /\ lstate'[t] = l
           /\ \A u \in Task \ {t} : lstate'[u] = lstate[u]
  OBVIOUS

(* The task lets go of the collection it has added. *)
LEMMA WakeOrMergeFrame ==
    ASSUME TaskInv, NEW t \in Task, WakeOrMerge(t)
    PROVE  Frame(t)
  <1>0. PhaseOf(t) /\ TypeOK /\ pc \in [Task -> Control]
        /\ lstate \in [Task -> LocalState]
    BY TaskFacts DEF PhaseOf
  <1>1. /\ pc[t] = "wake"
        /\ UNCHANGED <<input, handed, active, gstate, memory, store, table, thrown>>
        /\ UnblockAll(t, IF \E u \in Task : pc[u] = "blocked" THEN "moved" ELSE "drain")
        /\ lstate' = [lstate EXCEPT ![t].coll = 0, ![t].back = "index"]
    BY DEF WakeOrMerge
  <1>2. PICK label \in {"moved", "drain"} :
            /\ UnblockAll(t, label)
            /\ label = "moved" => \E u \in Task : pc[u] = "blocked"
    BY <1>1
  <1>3. /\ pc'[t] = label
        /\ \A u \in Task \ {t} :
                 pc'[u] = pc[u] \/ (pc[u] = "blocked" /\ pc'[u] = "sink")
    <2>1. label \in Control
      BY DEF Control
    <2>. QED
      BY <1>0, <1>2, <2>1, GoesOn
  <1>4. /\ lstate' \in [Task -> LocalState]
        /\ lstate'[t] = [lstate[t] EXCEPT !.coll = 0, !.back = "index"]
        /\ \A u \in Task \ {t} : lstate'[u] = lstate[u]
    <2>1. [lstate[t] EXCEPT !.coll = 0, !.back = "index"] \in LocalState
      <3>1. 0 \in 0..Batches
        BY <1>0, LocalTyped
      <3>. QED
        BY <1>0, <3>1 DEF LocalState
    <2>. QED
      BY <1>0, <1>1, <2>1 DEF LocalState
  <1>5. /\ lstate'[t].coll = 0 /\ lstate'[t].back = "index"
        /\ lstate'[t].left = lstate[t].left /\ lstate'[t].batch = lstate[t].batch
        /\ lstate'[t].current = lstate[t].current
    BY <1>0, <1>4 DEF LocalState
  <1>6. StepOf(t)
    BY <1>1, <1>3, <1>4 DEF StepOf, Undisturbed
  <1>7. Batch' = Batch /\ MaxBatchIndex' = MaxBatchIndex
    BY <1>1, StatementKept
  <1>8. ~ Collecting(t) /\ ~ Collecting(t)' /\ Collecting(t)' = Collecting(t)
    BY <1>1, <1>5 DEF Collecting
  <1>9. Held(t)' = Held(t)
    BY <1>5, <1>7, <1>8 DEF Held
  <1>10. PhaseOf(t)'
    <2>1. AtNextBatch(t) /\ InNextBatch(t)
      BY <1>0, <1>1 DEF InNextBatch, Moving, PhaseOf
    <2>2. AtNextBatch(t)'
      BY <1>1, <1>2, <1>3, <1>5, <1>7, <2>1 DEF AtNextBatch
    <2>. QED
      BY <1>2, <1>3, <1>5, <2>2 DEF PhaseOf, AtStart, AtFetch, AtEnd, Ending, AtSink,
           InSink, Draining, Sinking
  <1>11. KeepsBatches(t)
    BY <1>1, <1>6, <1>8, <1>9 DEF KeepsBatches
  <1>12. Phases' /\ HeldOnce'
    BY <1>10, <1>11, BatchesKept
  <1>13. Delivered' = Delivered
    BY <1>1, <1>6, <1>9, DeliveredKept
  <1>15. gstate.queue # <<>> /\ Serves(t) => \E u \in Task : Serves(u)'
    <2>1. CASE label = "drain"
      BY <1>3, <2>1 DEF Serves, Draining
    <2>2. CASE label = "moved"
      <3>1. PICK u \in Task : pc[u] = "blocked"
        BY <1>2, <2>2
      <3>2. u \in Task \ {t}
        BY <1>1, <3>1
      <3>3. Serves(u)
        BY <3>1 DEF Serves, Sinking
      <3>. QED
        BY <1>6, <3>2, <3>3, OthersKept
    <2>. QED
      BY <2>1, <2>2
  <1>. QED
    BY <1>1, <1>2, <1>3, <1>4, <1>6, <1>8, <1>12, <1>13, <1>15 DEF Frame

(* The end of NextBatch takes the batch for the current one. *)
LEMMA NextBatchEndFrame ==
    ASSUME TaskInv, NEW t \in Task, NextBatchEnd(t)
    PROVE  Frame(t)
  <1>0. PhaseOf(t) /\ TypeOK /\ pc \in [Task -> Control]
        /\ lstate \in [Task -> LocalState]
    BY TaskFacts DEF PhaseOf
  <1>1. /\ pc[t] = "moved"
        /\ UNCHANGED <<input, handed, active, gstate, memory, store, table, thrown>>
        /\ UnblockAll(t, "index")
        /\ lstate' = [lstate EXCEPT ![t].current = lstate[t].batch]
    BY DEF NextBatchEnd
  <1>3. /\ pc'[t] = "index"
        /\ \A u \in Task \ {t} :
                 pc'[u] = pc[u] \/ (pc[u] = "blocked" /\ pc'[u] = "sink")
    <2>1. "index" \in Control
      BY DEF Control
    <2>. QED
      BY <1>0, <1>1, <2>1, GoesOn
  <1>4. /\ lstate' \in [Task -> LocalState]
        /\ lstate'[t] = [lstate[t] EXCEPT !.current = lstate[t].batch]
        /\ \A u \in Task \ {t} : lstate'[u] = lstate[u]
    <2>1. [lstate[t] EXCEPT !.current = lstate[t].batch] \in LocalState
      BY <1>0 DEF LocalState
    <2>. QED
      BY <1>0, <1>1, <2>1
  <1>5. /\ lstate'[t].coll = lstate[t].coll /\ lstate'[t].back = lstate[t].back
        /\ lstate'[t].left = lstate[t].left /\ lstate'[t].batch = lstate[t].batch
        /\ lstate'[t].current = lstate[t].batch
    BY <1>0, <1>4 DEF LocalState
  <1>6. StepOf(t)
    BY <1>1, <1>3, <1>4 DEF StepOf, Undisturbed
  <1>7. Batch' = Batch /\ MaxBatchIndex' = MaxBatchIndex
    BY <1>1, StatementKept
  <1>2. AtNextBatch(t) /\ InNextBatch(t)
    BY <1>0, <1>1 DEF InNextBatch, Moving, PhaseOf
  <1>8. /\ ~ Collecting(t) /\ ~ Collecting(t)' /\ Collecting(t)' = Collecting(t)
        /\ lstate[t].coll = 0
    BY <1>1, <1>2, <1>5 DEF Collecting, AtNextBatch
  <1>9. Held(t)' = Held(t)
    BY <1>5, <1>7, <1>8 DEF Held
  <1>10. PhaseOf(t)'
    <2>2. AtNextBatch(t)'
      BY <1>1, <1>2, <1>3, <1>5, <1>7, <1>8 DEF AtNextBatch
    <2>. QED
      BY <1>2, <1>3, <1>5, <2>2 DEF PhaseOf, AtStart, AtFetch, AtEnd, Ending, AtSink,
           InSink, Draining, Sinking
  <1>11. KeepsBatches(t)
    BY <1>1, <1>6, <1>8, <1>9 DEF KeepsBatches
  <1>12. Phases' /\ HeldOnce'
    BY <1>10, <1>11, BatchesKept
  <1>13. Delivered' = Delivered
    BY <1>1, <1>6, <1>9, DeliveredKept
  <1>15. ~ Serves(t)
    BY <1>1 DEF Serves, Draining, Sinking
  <1>. QED
    BY <1>1, <1>3, <1>4, <1>6, <1>8, <1>12, <1>13, <1>15 DEF Frame

(* Asking for memory changes what is available at most. *)
LEMMA SinkCheckMemoryFrame ==
    ASSUME TaskInv, NEW t \in Task, SinkCheckMemory(t)
    PROVE  Frame(t)
  <1>0. PhaseOf(t) /\ TypeOK /\ pc \in [Task -> Control]
        /\ lstate \in [Task -> LocalState]
    BY TaskFacts DEF PhaseOf
  <1>1. /\ pc[t] = "memory"
        /\ UNCHANGED <<input, handed, active, gstate, store, table, thrown>>
        /\ lstate' = [lstate EXCEPT ![t].back = "wait"]
        /\ \E label \in {"drain", "append"} : Goto(t, label)
    BY DEF SinkCheckMemory
  <1>2. PICK label \in {"drain", "append"} : Goto(t, label)
    BY <1>1
  <1>3. /\ pc'[t] = label
        /\ \A u \in Task \ {t} :
                 pc'[u] = pc[u] \/ (pc[u] = "blocked" /\ pc'[u] = "sink")
    <2>1. label \in Control
      BY DEF Control
    <2>. QED
      BY <1>0, <1>2, <2>1, GoesOn
  <1>4. /\ lstate' \in [Task -> LocalState]
        /\ lstate'[t] = [lstate[t] EXCEPT !.back = "wait"]
        /\ \A u \in Task \ {t} : lstate'[u] = lstate[u]
    <2>1. [lstate[t] EXCEPT !.back = "wait"] \in LocalState
      BY <1>0 DEF LocalState
    <2>. QED
      BY <1>0, <1>1, <2>1
  <1>5. /\ lstate'[t].coll = lstate[t].coll /\ lstate'[t].back = "wait"
        /\ lstate'[t].left = lstate[t].left /\ lstate'[t].batch = lstate[t].batch
        /\ lstate'[t].current = lstate[t].current
    BY <1>0, <1>4 DEF LocalState
  <1>6. StepOf(t)
    BY <1>1, <1>3, <1>4 DEF StepOf, Undisturbed
  <1>7. Batch' = Batch /\ MaxBatchIndex' = MaxBatchIndex
    BY <1>1, StatementKept
  <1>8. Collecting(t)' = Collecting(t) /\ Collected(t)' = Collected(t)
    BY <1>1, <1>3, <1>5 DEF Collecting, Collected
  <1>9. Held(t)' = Held(t)
    BY <1>5, <1>7, <1>8 DEF Held
  <1>10. PhaseOf(t)'
    <2>1. AtSink(t) /\ InSink(t)
      BY <1>0, <1>1 DEF InSink, Sinking, PhaseOf
    <2>2. AtSink(t)'
      BY <1>1, <1>3, <1>5, <1>7, <2>1 DEF AtSink
    <2>. QED
      BY <1>2, <1>3, <1>5, <2>2 DEF PhaseOf, AtStart, AtFetch, AtEnd, Ending, AtNextBatch,
           InNextBatch, Draining, Moving
  <1>11. KeepsBatches(t)
    BY <1>1, <1>5, <1>6, <1>8, <1>9 DEF KeepsBatches
  <1>12. Phases' /\ HeldOnce'
    BY <1>10, <1>11, BatchesKept
  <1>13. Delivered' = Delivered
    BY <1>1, <1>6, <1>9, DeliveredKept
  <1>14. Serves(t)'
    BY <1>2, <1>3 DEF Serves, Draining, Sinking
  <1>15. \/ UNCHANGED memory
         \/ \E n \in Nat, b \in BOOLEAN :
                memory' = [memory EXCEPT !.available = n, !.mayGrow = b]
    <2>1. memory' = memory \/ memory' \in Increased
      BY DEF SinkCheckMemory
    <2>2. memory.available \in Nat
      BY <1>0 DEF TypeOK
    <2>3. MemoryCap \in Nat
      BY SizesAssumption
    <2> DEFINE request == IF 2 * memory.available < MemoryCap
                   THEN 2 * memory.available ELSE MemoryCap
    <2>4. request \in Nat
      BY <2>2, <2>3
    <2>5. CASE memory' \in Increased /\ memory' # memory
      <3> DEFINE Granted == {[memory EXCEPT !.available = next_reservation,
                                   !.mayGrow = next_reservation > memory.available] :
                                next_reservation \in 1..request}
      <3>1. Increased = IF ~memory.mayGrow \/ request <= memory.available
                        THEN {memory} ELSE Granted
        BY Zenon DEF Increased
      <3> HIDE DEF Granted
      <3>2. memory' \in Granted
        BY <2>5, <3>1
      <3> HIDE DEF request
      <3>3. PICK n \in 1..request :
               memory' = [memory EXCEPT !.available = n, !.mayGrow = n > memory.available]
        BY <3>2, Zenon DEF Granted
      <3>4. n \in Nat /\ (n > memory.available) \in BOOLEAN
        BY <2>2, <2>4
      <3>. QED
        BY <3>3, <3>4
    <2>. QED
      BY <2>1, <2>5
  <1>16. pc'[t] \notin {"merge", "publish"} /\ pc[t] \notin {"merge", "publish", "done"}
    BY <1>1, <1>2, <1>3
  <1>17. \E u \in Task : Serves(u)'
    BY <1>14
  <1>. QED
    BY <1>1, <1>4, <1>5, <1>6, <1>8, <1>12, <1>13, <1>15, <1>16, <1>17 DEF Frame

(* What HeldOnce says, with the types it needs. *)
LEMMA HeldFacts ==
    ASSUME TaskInv
    PROVE  /\ handed \in Int /\ Chunked \subseteq Int
           /\ \A t \in Task : \A b \in Held(t) : b \in Chunked /\ b <= handed /\ active[t] <= b
           /\ \A t, u \in Task : t # u => Held(t) \cap Held(u) = {}
           /\ \A b \in Chunked : b \in Batch /\ input.chunks[b] # 0
  <1>1. handed \in Int /\ Chunked \subseteq Int
    <2>1. handed \in 0..Batches /\ Batch = 1..Batches /\ Batches \in Nat
      BY InputSound DEF TaskInv, TypeOK, Batch
    <2>. QED
      BY <2>1 DEF Chunked
  <1>. QED
    BY <1>1 DEF TaskInv, HeldOnce, Chunked

(* A task that registers holds nothing yet. *)
LEMMA RegisterFrame ==
    ASSUME TaskInv, IInv', NEW t \in Task, Register(t)
    PROVE  Frame(t)
  <1>0. PhaseOf(t) /\ TypeOK /\ pc \in [Task -> Control] /\ IInv
        /\ lstate \in [Task -> LocalState]
    BY TaskFacts DEF PhaseOf
  <1> DEFINE min == IF Registered = {} THEN 0 ELSE Minimum(active)
  <1>1. /\ pc[t] = "start"
        /\ UNCHANGED <<input, handed, gstate, memory, store, table, thrown>>
        /\ Goto(t, "fetch")
        /\ active' = [active EXCEPT ![t] = min]
        /\ lstate' = [lstate EXCEPT ![t].batch = min, ![t].min = min]
    BY DEF Register
  <1>3. /\ pc'[t] = "fetch"
        /\ \A u \in Task \ {t} :
                 pc'[u] = pc[u] \/ (pc[u] = "blocked" /\ pc'[u] = "sink")
    <2>1. "fetch" \in Control
      BY DEF Control
    <2>. QED
      BY <1>0, <1>1, <2>1, GoesOn
  <1>7. Batch' = Batch /\ MaxBatchIndex' = MaxBatchIndex /\ Task' = Task
    BY <1>1, StatementKept
  <1> HIDE DEF min
  <1>2. min \in 0..MaxBatchIndex
    <2>1. lstate'[t].batch \in 0..MaxBatchIndex
      BY <1>7 DEF IInv, IndexesTyped
    <2>2. lstate'[t].batch = min
      BY <1>0, <1>1 DEF LocalState
    <2>. QED
      BY <2>1, <2>2
  <1>4. /\ lstate' \in [Task -> LocalState]
        /\ lstate'[t] = [lstate[t] EXCEPT !.batch = min, !.min = min]
        /\ \A u \in Task \ {t} : lstate'[u] = lstate[u]
    <2>1. [lstate[t] EXCEPT !.batch = min, !.min = min] \in LocalState
      BY <1>0, <1>2 DEF LocalState
    <2>. QED
      BY <1>0, <1>1, <2>1 DEF LocalState
  <1>5. /\ lstate'[t].coll = lstate[t].coll
        /\ lstate'[t].left = lstate[t].left /\ lstate'[t].batch = min
    BY <1>0, <1>4 DEF LocalState
  <1>6. StepOf(t)
    <2>1. \A u \in Task \ {t} : active'[u] = active[u]
      BY <1>0, <1>1 DEF TypeOK
    <2>. QED
      BY <1>1, <1>3, <1>4, <2>1 DEF StepOf, Undisturbed
  <1>8. lstate[t].coll = 0 /\ lstate[t].left = 0
    BY <1>0, <1>1 DEF PhaseOf, AtStart
  <1>9. ~ Collecting(t) /\ ~ Collecting(t)' /\ Collecting(t)' = Collecting(t)
    BY <1>5, <1>8 DEF Collecting
  <1>10. Held(t) = {} /\ Held(t)' = {}
    BY <1>5, <1>8, <1>9 DEF Held
  <1>11. PhaseOf(t)'
    BY <1>3, <1>5, <1>8 DEF PhaseOf, AtStart, AtFetch, AtEnd, Ending, AtSink, AtNextBatch,
         InSink, InNextBatch, Draining, Sinking, Moving
  <1>12. Phases' /\ HeldOnce'
    <2>1. handed \in Int /\ handed' \in Int /\ handed <= handed' /\ Chunked \subseteq Int
      BY <1>1, HeldFacts
    <2>. QED
      BY <1>6, <1>10, <1>11, <2>1, TasksKept DEF TaskInv
  <1>13. Delivered' = Delivered
    BY <1>1, <1>6, <1>10, DeliveredKept
  <1>15. ~ Serves(t)
    BY <1>1 DEF Serves, Draining, Sinking
  <1>. QED
    BY <1>1, <1>3, <1>4, <1>6, <1>9, <1>12, <1>13, <1>15 DEF Frame

(* A task registers for the batch it will sink: nobody holds an earlier one of it. *)
LEMMA UpdateBatchIndexFrame ==
    ASSUME TaskInv, IInv', NEW t \in Task, UpdateBatchIndex(t)
    PROVE  Frame(t)
  <1>0. PhaseOf(t) /\ TypeOK /\ pc \in [Task -> Control] /\ IInv
        /\ lstate \in [Task -> LocalState]
    BY TaskFacts DEF PhaseOf
  <1> DEFINE min == Minimum(active')
             index == lstate[t].batch
             label == IF index = MaxBatchIndex THEN "stats"
                      ELSE IF lstate[t].left > 0 THEN "sink" ELSE "fetch"
  <1>1. /\ pc[t] = "index"
        /\ UNCHANGED <<input, handed, gstate, memory, store, table>>
        /\ Require(index >= Minimum(active), "previous min batch index")
        /\ Goto(t, label)
        /\ active' = [active EXCEPT ![t] = index]
        /\ lstate' = [lstate EXCEPT ![t].min = min]
    BY DEF UpdateBatchIndex
  <1>u. input' = input /\ handed' = handed /\ UNCHANGED <<gstate, memory, store, table>>
    BY <1>1
  <1>2. label \in {"stats", "sink", "fetch"}
    OBVIOUS
  <1>3. /\ pc'[t] = label
        /\ \A u \in Task \ {t} :
                 pc'[u] = pc[u] \/ (pc[u] = "blocked" /\ pc'[u] = "sink")
    <2>1. label \in Control
      BY DEF Control
    <2> HIDE DEF label
    <2>. QED
      BY <1>0, <1>1, <2>1, GoesOn
  <1>7. Batch' = Batch /\ MaxBatchIndex' = MaxBatchIndex /\ Task' = Task
    BY <1>1, StatementKept
  <1>t. /\ index \in 0..MaxBatchIndex /\ lstate[t].left \in Nat
        /\ Batches \in Nat /\ MaxBatchIndex = Batches + 1 /\ Batch = 1..Batches
    BY <1>0, LocalTyped
  <1> HIDE DEF min
  <1>16. min \in 0..MaxBatchIndex
    <2>1. lstate'[t].min \in 0..MaxBatchIndex
      BY <1>7 DEF IInv, IndexesTyped
    <2>2. lstate'[t].min = min
      BY <1>0, <1>1 DEF LocalState
    <2>. QED
      BY <2>1, <2>2
  <1>4. /\ lstate' \in [Task -> LocalState]
        /\ lstate'[t] = [lstate[t] EXCEPT !.min = min]
        /\ \A u \in Task \ {t} : lstate'[u] = lstate[u]
    <2>1. [lstate[t] EXCEPT !.min = min] \in LocalState
      BY <1>0, <1>16 DEF LocalState
    <2>. QED
      BY <1>0, <1>1, <2>1 DEF LocalState
  <1>5. /\ lstate'[t].coll = lstate[t].coll
        /\ lstate'[t].left = lstate[t].left /\ lstate'[t].batch = index
        /\ lstate'[t].current = lstate[t].current
        /\ active'[t] = index
    <2>1. DOMAIN active = Task
      BY <1>0 DEF TypeOK
    <2>. QED
      BY <1>0, <1>1, <1>4, <2>1 DEF LocalState
  <1>6. StepOf(t)
    <2>1. \A u \in Task \ {t} : active'[u] = active[u]
      BY <1>0, <1>1 DEF TypeOK
    <2>. QED
      BY <1>1, <1>3, <1>4, <2>1 DEF StepOf, Undisturbed
  <1>8. /\ lstate[t].coll = 0 /\ lstate[t].current = index /\ index # 0
        /\ lstate[t].left = IF index \in Batch THEN input.chunks[index] ELSE 0
    BY <1>0, <1>1 DEF PhaseOf, AtNextBatch, InNextBatch, Moving
  <1>9. ~ Collecting(t) /\ ~ Collecting(t)' /\ Collecting(t)' = Collecting(t)
    BY <1>5, <1>8 DEF Collecting
  <1>10. Held(t)' = Held(t)
    BY <1>5, <1>7, <1>9 DEF Held
  <1>11. PhaseOf(t)'
    <2>1. CASE label = "stats"
      <3>1. index = MaxBatchIndex /\ lstate[t].left = 0
        BY <1>t, <1>8, <2>1
      <3> HIDE DEF label, index
      <3>. QED
        BY <1>3, <1>5, <1>7, <1>8, <2>1, <3>1
           DEF PhaseOf, AtStart, AtFetch, AtEnd, Ending, AtSink, AtNextBatch,
           InSink, InNextBatch, Draining, Sinking, Moving
    <2>2. CASE label = "sink"
      <3>1. index \in Batch /\ lstate[t].left > 0 /\ lstate[t].left = input.chunks[index]
        BY <1>t, <1>8, <2>2
      <3> HIDE DEF label, index
      <3>2. AtSink(t)'
        BY <1>u, <1>t, <1>3, <1>5, <1>7, <1>8, <2>2, <3>1 DEF AtSink
      <3>. QED
        BY <1>3, <2>2, <3>2
           DEF PhaseOf, AtStart, AtFetch, AtEnd, Ending, AtNextBatch,
           InNextBatch, Draining, Moving
    <2>3. CASE label = "fetch"
      <3>1. lstate[t].left = 0
        BY <1>t, <2>3
      <3> HIDE DEF label, index
      <3>. QED
        BY <1>3, <1>5, <1>8, <2>3, <3>1
           DEF PhaseOf, AtStart, AtFetch, AtEnd, Ending, AtSink, AtNextBatch,
           InSink, InNextBatch, Draining, Sinking, Moving
    <2>. QED
      BY <1>2, <2>1, <2>2, <2>3
  <1> HIDE DEF label, index
  <1>12. Phases' /\ HeldOnce'
    <2>1. handed \in Int /\ handed' \in Int /\ handed <= handed' /\ Chunked \subseteq Int
      BY <1>u, HeldFacts
    <2>2. ASSUME NEW b \in Held(t)'
          PROVE  /\ b \in Chunked /\ b <= handed' /\ active'[t] <= b
                 /\ \A u \in Task \ {t} : b \notin Held(u)
      <3>1. b \in Held(t) /\ b = index
        BY <1>9, <1>10, <2>2 DEF Held, index
      <3>2. b \in Chunked /\ b <= handed /\ \A u \in Task \ {t} : b \notin Held(u)
        BY <3>1, HeldFacts
      <3>. QED
        BY <1>u, <1>5, <1>t, <3>1, <3>2
    <2>. QED
      BY <1>6, <1>10, <1>11, <2>1, <2>2, TasksKept DEF TaskInv
  <1>13. Delivered' = Delivered
    BY <1>u, <1>6, <1>10, DeliveredKept
  <1>14. ~ Serves(t)
    BY <1>1 DEF Serves, Draining, Sinking
  <1>15. thrown' = thrown
    <2>1. active \in [Task -> {Unregistered} \cup 0..MaxBatchIndex] /\ MaxBatchIndex \in Nat
      BY <1>0, <1>t DEF TypeOK
    <2>2. active[t] # Unregistered /\ active[t] <= index
      BY <1>0, <1>1 DEF IInv, RegisteredAtStart, ActiveBehind, Registered, index
    <2>3. Minimum(active) \in 0..MaxBatchIndex /\ Minimum(active) <= active[t]
      BY <2>1, <2>2, MinimumRegistered
    <2>4. active[t] \in 0..MaxBatchIndex
      BY <2>1, <2>2
    <2>5. index >= Minimum(active)
      BY <1>t, <2>1, <2>2, <2>3, <2>4
    <2>. QED
      BY <1>1, <2>5 DEF Require
  <1>. QED
    BY <1>1, <1>u, <1>2, <1>3, <1>4, <1>6, <1>9, <1>12, <1>13, <1>14, <1>15 DEF Frame

(* The batch handed out is new: no task has held it, and none has delivered it. *)
LEMMA FetchFrame ==
    ASSUME TaskInv, NEW t \in Task, Fetch(t)
    PROVE  Frame(t)
  <1>0. PhaseOf(t) /\ TypeOK /\ pc \in [Task -> Control] /\ IInv
        /\ lstate \in [Task -> LocalState]
    BY TaskFacts DEF PhaseOf
  <1> DEFINE more == handed < Batches
             index == IF more THEN handed + 1 ELSE MaxBatchIndex
             chunks == IF more THEN input.chunks[index] ELSE 0
             label == IF lstate[t].batch = index THEN "stats"
                      ELSE IF lstate[t].coll = 0 THEN "moved" ELSE "add"
  <1>1. /\ pc[t] = "fetch"
        /\ UNCHANGED <<input, active, gstate, memory, store, table>>
        /\ handed' = IF more THEN handed + 1 ELSE handed
        /\ Require(lstate[t].batch <= index, "gotten lower batch index")
        /\ Goto(t, label)
        /\ lstate' = [lstate EXCEPT ![t].batch = index, ![t].left = chunks]
    BY DEF Fetch
  <1>u. input' = input /\ active' = active /\ UNCHANGED <<gstate, memory, store, table>>
    BY <1>1
  <1>h. handed' = IF more THEN handed + 1 ELSE handed
    BY <1>1
  <1>2. label \in {"stats", "moved", "add"}
    OBVIOUS
  <1>3. /\ pc'[t] = label
        /\ \A u \in Task \ {t} :
                 pc'[u] = pc[u] \/ (pc[u] = "blocked" /\ pc'[u] = "sink")
    <2>1. label \in Control
      BY DEF Control
    <2> HIDE DEF label
    <2>. QED
      BY <1>0, <1>1, <2>1, GoesOn
  <1>7. Batch' = Batch /\ MaxBatchIndex' = MaxBatchIndex /\ Task' = Task /\ Chunked' = Chunked
    BY <1>1, StatementKept
  <1>t. /\ lstate[t].batch \in 0..MaxBatchIndex /\ lstate[t].left \in Nat
        /\ lstate[t].coll \in 0..Batches /\ handed \in 0..Batches
        /\ Batches \in Nat /\ MaxBatchIndex = Batches + 1 /\ Batch = 1..Batches
        /\ \A b \in Batch : input.chunks[b] \in Nat
    BY <1>0, LocalTyped
  <1>8. /\ lstate[t].left = 0
        /\ lstate[t].coll # 0 => /\ lstate[t].coll = lstate[t].batch
                                 /\ lstate[t].current = lstate[t].batch
                                 /\ active[t] = lstate[t].batch
    BY <1>0, <1>1 DEF PhaseOf, AtFetch
  <1>16. \/ lstate[t].batch <= handed
         \/ handed = Batches /\ lstate[t].batch = MaxBatchIndex
    BY <1>0 DEF IInv, BatchHanded
  <1>17. /\ index \in 0..MaxBatchIndex /\ index # 0 /\ chunks \in Nat
         /\ lstate[t].batch <= index
         /\ chunks = IF index \in Batch THEN input.chunks[index] ELSE 0
         /\ index \in Batch => index = handed + 1 /\ handed' = handed + 1
         /\ index \notin Batch => handed' = handed /\ index = MaxBatchIndex
         /\ lstate[t].batch = index => index = MaxBatchIndex
         /\ lstate[t].coll # 0 => lstate[t].coll < index /\ lstate[t].batch # index
         /\ handed <= handed'
    <2>1. CASE more
      <3>1. index = handed + 1 /\ handed' = handed + 1 /\ chunks = input.chunks[index]
        BY <1>h, <2>1
      <3>2. index \in Batch /\ handed < Batches
        BY <1>t, <2>1, <3>1
      <3> HIDE DEF index, chunks, more
      <3>3. chunks \in Nat /\ lstate[t].batch <= handed
        BY <1>t, <1>16, <3>1, <3>2
      <3>. QED
        BY <1>t, <1>8, <3>1, <3>2, <3>3
    <2>2. CASE ~ more
      <3>1. index = MaxBatchIndex /\ handed' = handed /\ chunks = 0
        BY <1>h, <2>2
      <3>2. index \notin Batch
        BY <1>t, <3>1
      <3> HIDE DEF index, chunks, more
      <3>. QED
        BY <1>t, <1>8, <3>1, <3>2
    <2>. QED
      BY <2>1, <2>2
  <1>18. /\ label = "stats" => lstate[t].batch = index
         /\ label = "moved" => lstate[t].batch # index /\ lstate[t].coll = 0
         /\ label = "add" => lstate[t].batch # index /\ lstate[t].coll # 0
    OBVIOUS
  <1> HIDE DEF index, label, chunks
  <1>4. /\ lstate' \in [Task -> LocalState]
        /\ lstate'[t] = [lstate[t] EXCEPT !.batch = index, !.left = chunks]
        /\ \A u \in Task \ {t} : lstate'[u] = lstate[u]
    <2>1. [lstate[t] EXCEPT !.batch = index, !.left = chunks] \in LocalState
      BY <1>0, <1>17 DEF LocalState
    <2>. QED
      BY <1>0, <1>1, <2>1 DEF LocalState
  <1>5. /\ lstate'[t].coll = lstate[t].coll
        /\ lstate'[t].left = chunks /\ lstate'[t].batch = index
        /\ lstate'[t].current = lstate[t].current
    BY <1>0, <1>4 DEF LocalState
  <1>6. StepOf(t)
    BY <1>u, <1>3, <1>4 DEF StepOf, Undisturbed
  <1>9. Collecting(t) = (lstate[t].coll # 0) /\ Collecting(t)' = (lstate[t].coll # 0)
    BY <1>1, <1>2, <1>3, <1>5 DEF Collecting
  <1>10. Collecting(t) => Collected(t)' = Collected(t)
    <2>1. ASSUME lstate[t].coll # 0  PROVE Collected(t)' = Collected(t)
      <3>1. lstate[t].coll \in Batch /\ input.chunks[lstate[t].coll] \in Nat
        BY <1>t, <2>1
      <3> DEFINE n == input.chunks[lstate[t].coll]
      <3>2. Collected(t) = [k \in 1..(n - 0) |-> lstate[t].coll]
        BY <1>8, <2>1 DEF Collected
      <3>3. lstate'[t].coll # lstate'[t].batch
        BY <1>5, <1>8, <1>17, <2>1
      <3>4. Collected(t)' = [k \in 1..(n - 0) |-> lstate[t].coll]
        BY <1>5, <1>u, <3>3 DEF Collected
      <3>. QED
        BY <3>2, <3>4
    <2>. QED
      BY <1>9, <2>1
  <1>11. PhaseOf(t)'
    <2>1. CASE label = "stats"
      <3>1. index = MaxBatchIndex /\ chunks = 0 /\ lstate[t].coll = 0
        BY <1>t, <1>17, <1>18, <2>1
      <3>. QED
        BY <1>3, <1>5, <1>7, <2>1, <3>1
           DEF PhaseOf, AtStart, AtFetch, AtEnd, Ending, AtSink, AtNextBatch,
           InSink, InNextBatch, Draining, Sinking, Moving
    <2>2. CASE label \in {"moved", "add"}
      <3>1. AtNextBatch(t)'
        BY <1>u, <1>3, <1>5, <1>7, <1>8, <1>17, <1>18, <2>2 DEF AtNextBatch
      <3>. QED
        BY <1>3, <2>2, <3>1
           DEF PhaseOf, AtStart, AtFetch, AtEnd, Ending, AtSink,
           InSink, Sinking, Draining
    <2>. QED
      BY <1>2, <2>1, <2>2
  <1>20. Held(t)' = Held(t) \cup {b \in Chunked : b = index}
    <2>1. \A b \in Batch : b \in Chunked <=> input.chunks[b] # 0
      BY <1>t DEF Chunked
    <2>2. Held(t) = {b \in Batch : Collecting(t) /\ b = lstate[t].coll}
      BY <1>8 DEF Held
    <2>3. Held(t)' = {b \in Batch : \/ Collecting(t) /\ b = lstate[t].coll
                                    \/ chunks > 0 /\ b = index}
      BY <1>5, <1>7, <1>9 DEF Held
    <2>4. \A b \in Batch : chunks > 0 /\ b = index <=> b \in Chunked /\ b = index
      BY <1>t, <1>17, <2>1
    <2>5. Chunked \subseteq Batch
      BY DEF Chunked
    <2>. QED
      BY <2>2, <2>3, <2>4, <2>5
  <1>21. \A u \in Task : index \in Batch => index \notin Held(u)
    <2>1. \A u \in Task : \A b \in Held(u) : b <= handed
      BY HeldFacts
    <2>. QED
      BY <1>t, <1>17, <2>1
  <1>12. Phases' /\ HeldOnce'
    <2>1. handed \in Int /\ handed' \in Int /\ handed <= handed' /\ Chunked \subseteq Int
      BY <1>h, <1>17, HeldFacts
    <2>2. ASSUME NEW b \in Held(t)'
          PROVE  /\ b \in Chunked /\ b <= handed' /\ active'[t] <= b
                 /\ \A u \in Task \ {t} : b \notin Held(u)
      <3>1. CASE b \in Held(t)
        <4>1. /\ b \in Chunked /\ b <= handed /\ active[t] <= b
              /\ \A u \in Task \ {t} : b \notin Held(u)
          BY <3>1, HeldFacts
        <4>. QED
          BY <1>u, <2>1, <4>1
      <3>2. CASE b \in Chunked /\ b = index
        <4>1. b \in Batch
          BY <3>2 DEF Chunked
        <4>2. active[t] # Unregistered
          BY <1>0, <1>1 DEF IInv, RegisteredAtStart
        <4>3. active[t] <= lstate[t].batch /\ active[t] \in 0..MaxBatchIndex
          BY <1>0, <4>2 DEF IInv, ActiveBehind, Registered, TypeOK
        <4>4. active[t] <= index
          BY <1>t, <1>17, <4>3
        <4>5. index <= handed'
          BY <1>17, <3>2, <4>1, <2>1
        <4>. QED
          BY <1>u, <1>21, <3>2, <4>1, <4>4, <4>5
      <3>. QED
        BY <1>20, <2>2, <3>1, <3>2
    <2>. QED
      BY <1>6, <1>11, <2>1, <2>2, TasksKept DEF TaskInv
  <1>13. Delivered' = Delivered
    <2>1. \A u \in Task \ {t} : Held(u)' = Held(u)
      BY <1>6, OthersKept
    <2>2. Chunked \subseteq Int /\ handed \in Int /\ handed' \in Int
      BY <1>17, <1>t, HeldFacts
    <2>3. ASSUME NEW b \in Chunked
          PROVE  b \in Delivered <=> b \in Delivered'
      <3>1. b \in Delivered <=> b <= handed /\ \A u \in Task : b \notin Held(u)
        BY DEF Delivered
      <3>2. b \in Delivered' <=> b <= handed' /\ \A u \in Task : b \notin Held(u)'
        BY <1>7 DEF Delivered
      <3>3. b \in Batch /\ b \in Int
        BY <2>2 DEF Chunked
      <3>4. CASE b = index
        <4>1. b \in Held(t)'
          BY <1>20, <3>4
        <4>2. ~ (b <= handed)
          BY <1>17, <3>3, <3>4, <2>2
        <4>. QED
          BY <3>1, <3>2, <4>1, <4>2
      <3>5. CASE b # index
        <4>1. b \in Held(t)' <=> b \in Held(t)
          BY <1>20, <3>5
        <4>2. b <= handed' <=> b <= handed
          BY <1>17, <2>2, <3>3, <3>5
        <4>. QED
          BY <2>1, <3>1, <3>2, <4>1, <4>2
      <3>. QED
        BY <3>4, <3>5
    <2>4. Delivered \subseteq Chunked /\ Delivered' \subseteq Chunked
      BY <1>7 DEF Delivered
    <2>. QED
      BY <2>3, <2>4
  <1>14. Serves(t) => \E u \in Task : Serves(u)'
    <2>1. Serves(t) => lstate[t].coll # 0
      BY <1>1 DEF Serves, Draining, Sinking
    <2>2. lstate[t].coll # 0 => label = "add"
      BY <1>2, <1>17, <1>18
    <2>3. label = "add" => Serves(t)'
      BY <1>3 DEF Serves
    <2>. QED
      BY <2>1, <2>2, <2>3
  <1>15. thrown' = thrown
    BY <1>1, <1>17 DEF Require
  <1>19. Collecting(t)' = Collecting(t)
    BY <1>9
  <1>. QED
    BY <1>1, <1>u, <1>2, <1>3, <1>4, <1>5, <1>6, <1>10, <1>19, <1>12, <1>13, <1>14, <1>15 DEF Frame

--------------------------------------------------------------------------------
(* Such steps keep the invariant. *)

(* Such a step keeps the types. *)
LEMMA FrameTypes ==
    ASSUME TaskInv, IInv', NEW t \in Task, Frame(t)
    PROVE  TypeOK'
  <1>1. TypeOK /\ input' = input /\ lstate' \in [Task -> LocalState]
        /\ UNCHANGED <<gstate, store, table>>
    BY DEF TaskInv, Frame, StepOf
  <1>2. /\ Task' = Task /\ Batches' = Batches /\ Batch' = Batch
        /\ MaxBatchIndex' = MaxBatchIndex /\ LocalState' = LocalState
        /\ Work' = Work /\ Entry' = Entry
    BY <1>1, StatementKept
  <1>3. memory' \in [used : Nat, available : Nat, mayGrow : BOOLEAN,
                   min : 0..MaxBatchIndex]
    <2>0. memory \in [used : Nat, available : Nat, mayGrow : BOOLEAN,
                   min : 0..MaxBatchIndex]
      BY <1>1 DEF TypeOK
    <2>1. CASE UNCHANGED memory
      BY <2>0, <2>1
    <2>2. CASE \E n \in 0..MaxBatchIndex : memory' = [memory EXCEPT !.min = n]
      BY <2>0, <2>2
    <2>3. CASE \E n \in Nat, b \in BOOLEAN :
                  memory' = [memory EXCEPT !.available = n, !.mayGrow = b]
      BY <2>0, <2>3
    <2>. QED
      BY <2>1, <2>2, <2>3 DEF Frame
  <1>4. GlobalState' = GlobalState
    BY <1>2 DEF GlobalState
  <1>5. /\ input' \in Inputs /\ handed' \in (0..Batches)'
        /\ active' \in [Task -> {Unregistered} \cup 0..MaxBatchIndex]'
        /\ pc' \in [Task -> Control]'
    BY DEF IInv, IndexesTyped
  <1>. QED
    BY <1>1, <1>2, <1>3, <1>4, <1>5 DEF TypeOK

(* What the steps keep that leave the entries and the merges alone. *)
Steady(t) ==
    /\ StepOf(t)
    /\ Delivered' = Delivered
    /\ \A b \in Delivered : store'[b] = store[b]
    /\ pc[t] \notin {"merge", "publish", "done"} /\ pc'[t] \notin {"merge", "publish"}
    /\ gstate.queue # <<>> /\ Serves(t) => \E u \in Task : Serves(u)'
    /\ UNCHANGED <<gstate, table, thrown>>
    /\ memory'.used = memory.used

(* Contents depends on the collections it names. *)
LEMMA ContentsSame ==
    ASSUME NEW c, \A i \in DOMAIN c : c[i] # 0 => store'[c[i]] = store[c[i]]
    PROVE  Contents(c)' = Contents(c)
  BY DEF Contents

(* Only batches that have been delivered are owned. *)
LEMMA OwnedDelivered == \A e : OwnedBy(e) \subseteq Delivered
  BY DEF OwnedBy, Owned

(* Such a step keeps what is said of entries, merges and memory. *)
LEMMA SteadyData ==
    ASSUME TaskInv, DataInv, NEW t \in Task, Steady(t), StoreOfTasks', StoreFresh'
    PROVE  DataInv'
  <1>1. /\ input' = input /\ UNCHANGED <<gstate, table, thrown>>
        /\ StepOf(t) /\ Delivered' = Delivered
        /\ \A b \in Delivered : store'[b] = store[b]
    BY DEF Steady, StepOf
  <1>2. /\ Task' = Task /\ Batch' = Batch /\ Chunked' = Chunked
        /\ \A S : Of(S)' = Of(S)
    BY <1>1, StatementKept
  <1>4. \A u \in Task : /\ pc'[u] = "merge" <=> pc[u] = "merge"
                        /\ pc'[u] = "publish" <=> pc[u] = "publish"
                        /\ pc[u] \in {"merge", "publish"} => lstate'[u] = lstate[u]
    <2>1. \A u \in Task \ {t} : /\ pc'[u] = "merge" <=> pc[u] = "merge"
                                /\ pc'[u] = "publish" <=> pc[u] = "publish"
                                /\ lstate'[u] = lstate[u]
      BY <1>1, OthersKept
    <2>2. pc[t] \notin {"merge", "publish"} /\ pc'[t] \notin {"merge", "publish"}
      BY DEF Steady
    <2>. QED
      BY <2>1, <2>2
  <1>7. Entries' = Entries /\ \A e : OwnedBy(e)' = OwnedBy(e)
    BY <1>1 DEF Entries, OwnedBy
  <1>5. \A e \in Entries : /\ e.batch \in Delivered
                           /\ e.coll = 0 \/ e.coll = e.batch
    BY DEF DataInv, EntriesOk
  <1>8. EntriesOk' /\ EntryContents' /\ Separated'
    <2>1. EntryContents'
      BY <1>1, <1>2, <1>5, <1>7 DEF DataInv, EntryContents
    <2>. QED
      BY <1>1, <1>2, <1>7, <2>1 DEF DataInv, EntriesOk, Separated
  <1>9. Covered'
    <2>1. ~ Finished
      BY DEF Steady, Finished
    <2>. QED
      BY <1>1, <1>7, <2>1 DEF DataInv, Covered
  <1>10. Waiting' = Waiting
    <2>1. {lstate'[u].work : u \in {v \in Task : pc'[v] = "merge"}}
             = {lstate[u].work : u \in {v \in Task : pc[v] = "merge"}}
      BY <1>4
    <2>. QED
      BY <1>1, <1>2, <2>1 DEF Waiting
  <1>12. JobsOk'
    <2>1. ASSUME NEW j, NEW e, Fits(j, e)  PROVE Fits(j, e)'
      <3>1. ToSet(j.colls) \subseteq OwnedBy(e) /\ OwnedBy(e) \subseteq Delivered
        BY <2>1, OwnedDelivered DEF Fits
      <3>2. \A i \in DOMAIN j.colls : j.colls[i] \in Delivered
        BY <3>1 DEF ToSet
      <3>3. Contents(j.colls)' = Contents(j.colls)
        BY <1>1, <3>2, ContentsSame
      <3>. QED
        BY <1>2, <1>7, <2>1, <3>3 DEF Fits
    <2>. QED
      BY <1>7, <1>10, <2>1 DEF DataInv, JobsOk
  <1>13. Published'
    <2>1. Published
      BY DEF DataInv
    <2>. QED
      BY <1>1, <1>2, <1>4, <1>5, <1>7, <2>1 DEF Published
  <1>14. JobsOnce'
    <2>1. JobsOnce
      BY DEF DataInv
    <2>2. \A u \in Task : AtWork(u)' <=> AtWork(u)
      BY <1>4 DEF AtWork
    <2>3. \A u \in Task : AtWork(u) => lstate'[u] = lstate[u]
      BY <1>4 DEF AtWork
    <2>. QED
      BY <1>1, <1>2, <2>1, <2>2, <2>3 DEF JobsOnce
  <1>15. QueueServed'
    <2>1. ASSUME gstate.queue # <<>>  PROVE \E u \in Task : Serves(u)'
      <3>1. PICK u \in Task : Serves(u)
        BY <2>1 DEF DataInv, QueueServed
      <3>2. CASE u = t
        BY <2>1, <3>1, <3>2 DEF Steady
      <3>3. CASE u # t
        BY <1>1, <3>1, <3>3, OthersKept
      <3>. QED
        BY <3>2, <3>3
    <2>. QED
      BY <1>1, <1>2, <2>1 DEF QueueServed
  <1>16. FlushedLarge'
    <2>1. FlushedLarge
      BY DEF DataInv
    <2>. QED
      BY <1>1, <1>2, <1>4, <1>7, <2>1 DEF FlushedLarge
  <1>17. MergesAwaited'
    <2>1. Jobs' = Jobs
      <3>1. {lstate'[u].work : u \in {v \in Task : pc'[v] \in {"merge", "publish"}}}
               = {lstate[u].work : u \in {v \in Task : pc[v] \in {"merge", "publish"}}}
        BY <1>4
      <3>. QED
        BY <1>1, <1>2, <3>1 DEF Jobs
    <2>. QED
      BY <1>1, <2>1 DEF DataInv, MergesAwaited
  <1>18. MemoryAccounted'
    <2>1. memory'.used = memory.used
      BY DEF Steady
    <2>2. {lstate'[u].work : u \in {v \in Task : pc'[v] = "merge"}}
             = {lstate[u].work : u \in {v \in Task : pc[v] = "merge"}}
      BY <1>4
    <2>. QED
      BY <1>1, <1>2, <2>1, <2>2 DEF DataInv, MemoryAccounted
  <1>19. NothingThrown'
    BY <1>1 DEF DataInv, NothingThrown
  <1>. QED
    BY <1>8, <1>9, <1>12, <1>13, <1>14, <1>15, <1>16, <1>17, <1>18, <1>19
       DEF DataInv

(* Every step of a Frame keeps DataInv. *)
LEMMA FrameData ==
    ASSUME TaskInv, DataInv, NEW t \in Task, Frame(t)
    PROVE  DataInv'
  <1>1. /\ input' = input /\ UNCHANGED <<gstate, store, table, thrown>>
        /\ StepOf(t) /\ Delivered' = Delivered
    BY DEF Frame, StepOf
  <1>2. Task' = Task /\ Batch' = Batch
    BY <1>1, StatementKept
  <1>3. \A u \in Task : /\ Collecting(u)' = Collecting(u)
                        /\ Collecting(u) => /\ lstate'[u].coll = lstate[u].coll
                                            /\ Collected(u)' = Collected(u)
    <2>1. \A u \in Task \ {t} : /\ Collecting(u)' = Collecting(u)
                                /\ lstate'[u].coll = lstate[u].coll
                                /\ Collected(u)' = Collected(u)
      BY <1>1, OthersKept
    <2>2. /\ Collecting(t)' = Collecting(t)
          /\ Collecting(t) => /\ lstate'[t].coll = lstate[t].coll
                              /\ Collected(t)' = Collected(t)
      BY DEF Frame
    <2>. QED
      BY <2>1, <2>2
  <1>5. StoreOfTasks'
    <2>1. StoreOfTasks
      BY DEF DataInv
    <2>. QED
      BY <1>1, <1>2, <1>3, <2>1 DEF StoreOfTasks
  <1>6. StoreFresh'
    <2>1. StoreFresh
      BY DEF DataInv
    <2>. QED
      BY <1>1, <1>2, <1>3, <2>1 DEF StoreFresh
  <1>7. Steady(t)
    <2>1. memory'.used = memory.used
      BY TaskFacts DEF Frame, TypeOK
    <2>. QED
      BY <1>1, <2>1 DEF Steady, Frame
  <1>. QED
    BY <1>5, <1>6, <1>7, SteadyData

--------------------------------------------------------------------------------
(* SinkAppend. *)

(* One more row of a batch *)
LEMMA AppendRepeated ==
    ASSUME NEW T, NEW b \in T, NEW n \in Nat
    PROVE  Append([k \in 1..n |-> b], b) = [k \in 1..(n + 1) |-> b]
  <1> DEFINE s == [k \in 1..n |-> b]
             r == [k \in 1..(n + 1) |-> b]
             a == Append(s, b)
  <1>1. s \in Seq(T) /\ Len(s) = n
    BY SeqOfFunction
  <1>2. r \in Seq(T) /\ Len(r) = n + 1
    <2>1. n + 1 \in Nat /\ r \in [1..(n + 1) -> T]
      OBVIOUS
    <2> HIDE DEF r
    <2>. QED
      BY <2>1, SeqOfFunction
  <1>3. a \in Seq(T) /\ Len(a) = n + 1
    BY <1>1
  <1>4. \A i \in 1..n : s[i] = b
    OBVIOUS
  <1>5. \A i \in 1..(n + 1) : r[i] = b
    OBVIOUS
  <1> HIDE DEF s, r
  <1>6. \A i \in 1..(n + 1) : a[i] = r[i]
    BY <1>1, <1>4, <1>5
  <1> HIDE DEF a
  <1>. QED
    BY <1>2, <1>3, <1>6 DEF a, s, r

(* A chunk appended makes the collection longer by one row of its batch. *)
LEMMA SinkAppendKeeps ==
    ASSUME TaskInv, DataInv, IInv', NEW t \in Task, SinkAppend(t)
    PROVE  TypeOK' /\ Phases' /\ HeldOnce' /\ DataInv'
  <1>0. PhaseOf(t) /\ TypeOK /\ pc \in [Task -> Control] /\ IInv
        /\ lstate \in [Task -> LocalState]
    BY TaskFacts DEF PhaseOf
  <1> DEFINE batch == lstate[t].batch
             left == lstate[t].left
             label == IF left > 1 THEN "sink" ELSE "fetch"
  <1>1. /\ batch \in Batch /\ lstate[t].current = batch /\ active[t] = batch
        /\ left > 0 /\ left <= input.chunks[batch] /\ pc[t] = "append"
        /\ IF left = input.chunks[batch] THEN lstate[t].coll = 0 ELSE lstate[t].coll = batch
    BY <1>0 DEF PhaseOf, AtSink, InSink, Sinking, SinkAppend
  <1>t. /\ left \in Nat /\ Batches \in Nat /\ Batch = 1..Batches
        /\ MaxBatchIndex = Batches + 1
        /\ input.chunks[batch] \in Nat /\ batch # 0
        /\ batch \in 0..Batches
    BY <1>0, <1>1, LocalTyped
  <1>2. /\ UNCHANGED <<input, handed, active, gstate, memory, table>>
        /\ Require(lstate[t].current = batch, "NextBatch was not called")
        /\ store' = [store EXCEPT ![batch] = Append(@, batch)]
        /\ lstate' = [lstate EXCEPT ![t].coll = batch, ![t].tail = batch,
                                    ![t].left = left - 1]
        /\ Goto(t, label)
    <2>1. (IF lstate[t].coll = 0 THEN batch ELSE lstate[t].coll) = batch
      BY <1>1
    <2>. QED
      BY <2>1 DEF SinkAppend
  <1>u. /\ input' = input /\ handed' = handed /\ UNCHANGED <<gstate, memory, table>>
        /\ store' = [store EXCEPT ![batch] = Append(store[batch], batch)]
    BY <1>2
  <1>3. /\ label \in {"sink", "fetch"} /\ label \in Control
        /\ label = "sink" => left - 1 > 0
        /\ label = "fetch" => left - 1 = 0
    BY <1>1, <1>t DEF Control
  <1> HIDE DEF batch, left, label
  <1>4. /\ pc'[t] = label /\ pc' \in [Task -> Control]
        /\ \A u \in Task \ {t} :
                 pc'[u] = pc[u] \/ (pc[u] = "blocked" /\ pc'[u] = "sink")
    BY <1>0, <1>2, <1>3, GoesOn
  <1>5. /\ lstate' \in [Task -> LocalState]
        /\ lstate'[t] = [lstate[t] EXCEPT !.coll = batch, !.tail = batch, !.left = left - 1]
        /\ \A u \in Task \ {t} : lstate'[u] = lstate[u]
    <2>1. left - 1 \in Nat
      BY <1>1, <1>t
    <2>2. [lstate[t] EXCEPT !.coll = batch, !.tail = batch, !.left = left - 1] \in LocalState
      BY <1>0, <1>t, <2>1, ZenonT(30) DEF LocalState
    <2>. QED
      BY <1>0, <1>2, <2>2 DEF LocalState
  <1>6. /\ lstate'[t].coll = batch /\ lstate'[t].left = left - 1
        /\ lstate'[t].batch = batch /\ lstate'[t].current = batch
        /\ active' = active
    <2>1. lstate[t].batch = batch /\ lstate[t].current = batch
      BY <1>1 DEF batch
    <2>. QED
      BY <1>0, <1>2, <1>5, <2>1 DEF LocalState
  <1>7. StepOf(t)
    BY <1>2, <1>4, <1>5, <1>6 DEF StepOf, Undisturbed
  <1>8. Batch' = Batch /\ MaxBatchIndex' = MaxBatchIndex /\ Task' = Task
        /\ Batches' = Batches /\ LocalState' = LocalState /\ Work' = Work /\ Entry' = Entry
    BY <1>2, StatementKept
  <1>9. Held(t) = {batch} /\ Held(t)' = {batch}
    <2>1. \A b : b \in Held(t) <=> b = batch
      BY <1>1, <1>t DEF Held, batch, left
    <2>2. Collecting(t)'
      BY <1>3, <1>4, <1>6, <1>t DEF Collecting
    <2>3. \A b : b \in Held(t)' <=> b = batch
      BY <1>1, <1>6, <1>8, <2>2 DEF Held
    <2>. QED
      BY <2>1, <2>3
  <1>10. PhaseOf(t)'
    <2>1. CASE label = "sink"
      <3>1. left - 1 # input.chunks[batch] /\ left - 1 <= input.chunks[batch]
        BY <1>1, <1>t
      <3>2. AtSink(t)'
        BY <1>1, <1>u, <1>3, <1>4, <1>6, <1>8, <2>1, <3>1 DEF AtSink
      <3>. QED
        BY <1>4, <2>1, <3>2 DEF PhaseOf, AtStart, AtFetch, AtNextBatch, AtEnd, Ending,
           InNextBatch, Moving, Draining
    <2>2. CASE label = "fetch"
      <3>1. AtFetch(t)'
        BY <1>1, <1>3, <1>4, <1>6, <2>2 DEF AtFetch
      <3>. QED
        BY <1>4, <2>2, <3>1 DEF PhaseOf, AtStart, AtSink, AtNextBatch, AtEnd, Ending,
           InNextBatch, InSink, Moving, Draining, Sinking
    <2>. QED
      BY <1>3, <2>1, <2>2
  <1>11. Phases' /\ HeldOnce'
    <2>1. handed \in Int /\ handed' \in Int /\ handed <= handed' /\ Chunked \subseteq Int
      BY <1>u, HeldFacts
    <2>2. \A b \in Held(t)' : /\ b \in Chunked /\ b <= handed' /\ active'[t] <= b
                              /\ \A u \in Task \ {t} : b \notin Held(u)
      BY <1>1, <1>u, <1>6, <1>9, HeldFacts
    <2>. QED
      BY <1>7, <1>10, <2>1, <2>2, TasksKept DEF TaskInv
  <1>12. Delivered' = Delivered
    BY <1>2, <1>7, <1>9, DeliveredKept
  <1>13. batch \notin Delivered
    BY <1>9 DEF Delivered
  <1>14. store \in [Batch -> Seq(Batch)]
    BY <1>0 DEF TypeOK
  <1>15. /\ store' \in [Batch -> Seq(Batch)]
         /\ store'[batch] = Append(store[batch], batch)
         /\ \A b \in Batch : b # batch => store'[b] = store[b]
    <2>1. store[batch] \in Seq(Batch)
      BY <1>1, <1>14
    <2>2. Append(store[batch], batch) \in Seq(Batch)
      BY <1>1, <2>1
    <2>. QED
      BY <1>1, <1>u, <1>14, <2>2
  <1>16. \A u \in Task \ {t} : Collecting(u) => lstate[u].coll # batch
    <2>1. ASSUME NEW u \in Task \ {t}, Collecting(u), lstate[u].coll = batch
          PROVE  FALSE
      <3>1. batch \in Held(u)
        BY <1>1, <2>1 DEF Held
      <3>. QED
        BY <1>9, <2>1, <3>1, HeldFacts
    <2>. QED
      BY <2>1
  <1>17. Collecting(t)' /\ Collected(t)' = [k \in 1..(input.chunks[batch] - (left - 1)) |-> batch]
    <2>1. Collecting(t)'
      BY <1>3, <1>4, <1>6, <1>t DEF Collecting
    <2>2. Collected(t)' = [k \in 1..(input.chunks[batch] - (left - 1)) |-> batch]
      BY <1>2, <1>6 DEF Collected
    <2>. QED
      BY <2>1, <2>2
  <1>18. store'[batch] = Collected(t)'
    <2> DEFINE n == input.chunks[batch] - left
    <2>1. n \in Nat /\ input.chunks[batch] - (left - 1) = n + 1
      BY <1>1, <1>t
    <2>2. store[batch] = [k \in 1..n |-> batch]
      <3>1. CASE left = input.chunks[batch]
        <4>1. lstate[t].coll = 0
          BY <1>1, <3>1
        <4>2. \A u \in Task : Collecting(u) => lstate[u].coll # batch
          BY <1>16, <1>t, <4>1
        <4>3. store[batch] = <<>>
          BY <1>1, <1>13, <4>2 DEF DataInv, StoreFresh
        <4>4. n = 0
          BY <1>t, <3>1
        <4>5. <<>> = [k \in 1..0 |-> batch]
          OBVIOUS
        <4>. QED
          BY <4>3, <4>4, <4>5
      <3>2. CASE left # input.chunks[batch]
        <4>1. lstate[t].coll = batch
          BY <1>1, <3>2
        <4>2. Collecting(t)
          BY <1>1, <1>t, <4>1 DEF Collecting
        <4>3. store[batch] = Collected(t)
          BY <4>1, <4>2 DEF DataInv, StoreOfTasks
        <4>4. Collected(t) = [k \in 1..(input.chunks[batch] - left) |-> batch]
          BY <4>1 DEF Collected, batch, left
        <4>. QED
          BY <4>3, <4>4
      <3>. QED
        BY <3>1, <3>2
    <2> HIDE DEF n
    <2>3. Append([k \in 1..n |-> batch], batch) = [k \in 1..(n + 1) |-> batch]
      BY <1>1, <2>1, AppendRepeated
    <2>. QED
      BY <1>15, <1>17, <2>1, <2>2, <2>3
  <1>19. StoreOfTasks'
    <2>1. ASSUME NEW u \in Task, Collecting(u)'
          PROVE  store'[lstate'[u].coll] = Collected(u)'
      <3>1. CASE u = t
        BY <1>6, <1>18, <3>1
      <3>2. CASE u # t
        <4>1. /\ Collecting(u) /\ Collected(u)' = Collected(u) /\ lstate'[u] = lstate[u]
          BY <1>7, <2>1, <3>2, OthersKept
        <4>2. store[lstate[u].coll] = Collected(u)
          BY <4>1 DEF DataInv, StoreOfTasks
        <4>3. lstate[u].coll \in Batch
          <5>1. lstate[u].coll \in 0..Batches
            BY <1>0, LocalTyped
          <5>. QED
            BY <1>t, <4>1, <5>1 DEF Collecting
        <4>. QED
          BY <1>15, <1>16, <3>2, <4>1, <4>2, <4>3
      <3>. QED
        BY <3>1, <3>2
    <2>. QED
      BY <1>8, <2>1 DEF StoreOfTasks
  <1>20. StoreFresh'
    <2>1. ASSUME NEW b \in Batch \ Delivered,
                 \A u \in Task : Collecting(u)' => lstate'[u].coll # b
          PROVE  store'[b] = <<>>
      <3>1. b # batch
        BY <1>6, <1>17, <2>1
      <3>2. \A u \in Task : Collecting(u) => lstate[u].coll # b
        <4>1. ASSUME NEW u \in Task \ {t}  PROVE Collecting(u) => lstate[u].coll # b
          <5>1. Collecting(u)' = Collecting(u) /\ lstate'[u] = lstate[u]
            BY <1>7, OthersKept
          <5>. QED
            BY <2>1, <5>1
        <4>2. Collecting(t) => lstate[t].coll # b
          BY <1>1, <3>1 DEF Collecting
        <4>. QED
          BY <4>1, <4>2
      <3>3. store[b] = <<>>
        BY <2>1, <3>2 DEF DataInv, StoreFresh
      <3>. QED
        BY <1>15, <2>1, <3>1, <3>3
    <2>. QED
      BY <1>8, <1>12, <2>1 DEF StoreFresh
  <1>21. Steady(t)
    <2>1. \A b \in Delivered : store'[b] = store[b]
      BY <1>13, <1>15 DEF Delivered, Chunked
    <2>2. thrown' = thrown
      BY <1>1, <1>2 DEF Require
    <2>3. Serves(t)'
      BY <1>3, <1>4, <1>6, <1>t DEF Serves, Sinking
    <2>4. UNCHANGED <<gstate, table>> /\ memory'.used = memory.used
      BY <1>2
    <2>5. pc[t] \notin {"merge", "publish", "done"} /\ pc'[t] \notin {"merge", "publish"}
      BY <1>1, <1>3, <1>4
    <2>. QED
      BY <1>7, <1>12, <2>1, <2>2, <2>3, <2>4, <2>5 DEF Steady
  <1>22. DataInv'
    BY <1>19, <1>20, <1>21, SteadyData
  <1>23. TypeOK'
    <2>1. UNCHANGED <<gstate, memory, table>>
      BY <1>2
    <2>2. GlobalState' = GlobalState
      BY <1>8 DEF GlobalState
    <2>3. /\ input' \in Inputs /\ handed' \in (0..Batches)'
          /\ active' \in [Task -> {Unregistered} \cup 0..MaxBatchIndex]'
          /\ pc' \in [Task -> Control]'
      BY DEF IInv, IndexesTyped
    <2>. QED
      BY <1>0, <1>5, <1>8, <1>15, <2>1, <2>2, <2>3 DEF TypeOK
  <1>. QED
    BY <1>11, <1>22, <1>23

--------------------------------------------------------------------------------
(* ExecuteTasks: TakeTask, Merge and Publish. *)

(* Steps of ExecuteTasks: the task keeps the batches it has. *)
Works(t, label) ==
    /\ UNCHANGED <<input, handed, active>>
    /\ pc[t] \in Draining /\ label \in Draining /\ Goto(t, label)
    /\ lstate' \in [Task -> LocalState]
    /\ \A u \in Task \ {t} : lstate'[u] = lstate[u]
    /\ lstate'[t].coll = lstate[t].coll /\ lstate'[t].left = lstate[t].left
    /\ lstate'[t].batch = lstate[t].batch /\ lstate'[t].current = lstate[t].current
    /\ lstate'[t].back = lstate[t].back

(* What such steps keep of the tasks. *)
LEMMA WorksKeeps ==
    ASSUME TaskInv, NEW t \in Task, NEW label, Works(t, label)
    PROVE  /\ StepOf(t) /\ KeepsBatches(t) /\ Phases' /\ HeldOnce'
           /\ Delivered' = Delivered
           /\ pc'[t] = label
           /\ \A u \in Task \ {t} : /\ lstate'[u] = lstate[u]
                                    /\ pc'[u] = "merge" <=> pc[u] = "merge"
                                    /\ pc'[u] = "publish" <=> pc[u] = "publish"
           /\ Task' = Task /\ Batch' = Batch /\ Chunked' = Chunked
           /\ Work' = Work /\ Entry' = Entry
           /\ \A S : Of(S)' = Of(S)
           /\ \E u \in Task : Serves(u)'
           /\ ~ Finished
  <1>0. PhaseOf(t) /\ TypeOK /\ pc \in [Task -> Control]
    BY TaskFacts DEF PhaseOf
  <1>1. /\ input' = input /\ handed' = handed /\ active' = active
        /\ pc[t] \in Draining /\ label \in Draining /\ Goto(t, label)
        /\ \A u \in Task \ {t} : lstate'[u] = lstate[u]
        /\ lstate'[t].coll = lstate[t].coll /\ lstate'[t].left = lstate[t].left
        /\ lstate'[t].batch = lstate[t].batch /\ lstate'[t].current = lstate[t].current
        /\ lstate'[t].back = lstate[t].back
    BY DEF Works
  <1>2. label \in Control
    BY <1>1 DEF Draining, Control
  <1>3. /\ pc'[t] = label
        /\ \A u \in Task \ {t} :
                 pc'[u] = pc[u] \/ (pc[u] = "blocked" /\ pc'[u] = "sink")
    BY <1>0, <1>1, <1>2, GoesOn
  <1>4. StepOf(t)
    BY <1>1, <1>3 DEF StepOf, Undisturbed
  <1>5. /\ Batch' = Batch /\ MaxBatchIndex' = MaxBatchIndex /\ Task' = Task
        /\ Chunked' = Chunked /\ Work' = Work /\ Entry' = Entry
        /\ \A S : Of(S)' = Of(S)
    BY <1>1, StatementKept
  <1>6. Collecting(t)' = Collecting(t) /\ Collected(t)' = Collected(t)
    BY <1>1, <1>3 DEF Collecting, Collected, Draining
  <1>7. Held(t)' = Held(t)
    BY <1>1, <1>5, <1>6 DEF Held
  <1>8. KeepsBatches(t)
    BY <1>1, <1>4, <1>6, <1>7 DEF KeepsBatches
  <1>9. PhaseOf(t)'
    <2>1. AtSink(t)'
      BY <1>0, <1>1, <1>3, <1>5 DEF PhaseOf, AtSink, InSink, Draining, Sinking
    <2>2. AtNextBatch(t)'
      BY <1>0, <1>1, <1>3, <1>5 DEF PhaseOf, AtNextBatch, InNextBatch, Draining, Moving
    <2>. QED
      BY <1>1, <1>3, <2>1, <2>2 DEF PhaseOf, AtStart, AtFetch, AtEnd, Ending, Draining
  <1>10. Phases' /\ HeldOnce'
    BY <1>8, <1>9, BatchesKept
  <1>11. Delivered' = Delivered
    BY <1>1, <1>4, <1>7, DeliveredKept
  <1>12. \A u \in Task \ {t} : /\ pc'[u] = "merge" <=> pc[u] = "merge"
                               /\ pc'[u] = "publish" <=> pc[u] = "publish"
    BY <1>3
  <1>13. Serves(t)'
    BY <1>1, <1>3 DEF Serves
  <1>14. ~ Finished
    BY <1>1 DEF Finished, Draining
  <1>. QED
    BY <1>1, <1>3, <1>4, <1>5, <1>8, <1>10, <1>11, <1>12, <1>13, <1>14

(* The collections tasks work on are not those of entries. *)
LEMMA StoreKept ==
    ASSUME TaskInv, DataInv, NEW t \in Task, KeepsBatches(t), Delivered' = Delivered,
           \A b \in Batch \ Delivered : store'[b] = store[b]
    PROVE  StoreOfTasks' /\ StoreFresh'
  <1>1. StepOf(t) /\ input' = input
    BY DEF KeepsBatches, StepOf
  <1>2. Task' = Task /\ Batch' = Batch
    BY <1>1, StatementKept
  <1>3. \A u \in Task : /\ Collecting(u)' = Collecting(u)
                        /\ Collecting(u) => /\ lstate'[u].coll = lstate[u].coll
                                            /\ Collected(u)' = Collected(u)
    <2>1. \A u \in Task \ {t} : /\ Collecting(u)' = Collecting(u)
                                /\ lstate'[u].coll = lstate[u].coll
                                /\ Collected(u)' = Collected(u)
      BY <1>1, OthersKept
    <2>2. /\ Collecting(t)' = Collecting(t)
          /\ Collecting(t) => /\ lstate'[t].coll = lstate[t].coll
                              /\ Collected(t)' = Collected(t)
      BY DEF KeepsBatches
    <2>. QED
      BY <2>1, <2>2
  <1>4. \A u \in Task : Collecting(u) => lstate[u].coll \in Batch \ Delivered
    <2>1. ASSUME NEW u \in Task, Collecting(u)  PROVE lstate[u].coll \in Batch \ Delivered
      <3>1. lstate[u].coll \in 0..Batches /\ Batch = 1..Batches /\ Batches \in Nat
        BY TaskFacts, LocalTyped
      <3>2. lstate[u].coll \in Batch
        BY <2>1, <3>1 DEF Collecting
      <3>3. lstate[u].coll \in Held(u)
        BY <2>1, <3>2 DEF Held
      <3>. QED
        BY <3>2, <3>3 DEF Delivered
    <2>. QED
      BY <2>1
  <1>5. StoreOfTasks'
    <2>1. StoreOfTasks
      BY DEF DataInv
    <2>. QED
      BY <1>2, <1>3, <1>4, <2>1 DEF StoreOfTasks
  <1>6. StoreFresh'
    <2>1. StoreFresh
      BY DEF DataInv
    <2>. QED
      BY <1>2, <1>3, <2>1 DEF StoreFresh
  <1>. QED
    BY <1>5, <1>6

(* A queue is its head and its tail. *)
LEMMA HeadAndTail ==
    ASSUME NEW T, NEW q \in Seq(T), q # <<>>
    PROVE  /\ Head(q) = q[1] /\ Head(q) \in T
           /\ Tail(q) \in Seq(T)
           /\ 1 \in DOMAIN q
           /\ \A i \in DOMAIN Tail(q) : i + 1 \in DOMAIN q /\ Tail(q)[i] = q[i + 1]
                                        /\ i \in Nat /\ i # 0
           /\ ToSet(q) = {Head(q)} \cup ToSet(Tail(q))
  <1>1. Head(q) = q[1] /\ Tail(q) \in Seq(T) /\ Len(q) \in Nat /\ Len(q) >= 1
    BY SeqElements
  <1>2. Len(Tail(q)) = Len(q) - 1 /\ \A i \in 1..(Len(q) - 1) : Tail(q)[i] = q[i + 1]
    BY <1>1
  <1>3. DOMAIN q = 1..Len(q) /\ DOMAIN Tail(q) = 1..(Len(q) - 1)
    BY <1>1, <1>2, SeqElements
  <1>4. ToSet(q) = {q[i] : i \in DOMAIN q}
        /\ ToSet(Tail(q)) = {Tail(q)[i] : i \in DOMAIN Tail(q)}
    BY <1>1, SeqElements
  <1>5. 1 \in DOMAIN q /\ q[1] \in T
    BY <1>1, <1>3, SeqElements
  <1>6. \A i \in DOMAIN Tail(q) : i + 1 \in DOMAIN q /\ Tail(q)[i] = q[i + 1]
                                  /\ i \in Nat /\ i # 0
    BY <1>1, <1>2, <1>3
  <1>7. \A i \in DOMAIN q : i = 1 \/ (i - 1 \in DOMAIN Tail(q) /\ q[i] = Tail(q)[i - 1])
    <2>1. ASSUME NEW i \in DOMAIN q, i # 1
          PROVE  i - 1 \in DOMAIN Tail(q) /\ q[i] = Tail(q)[i - 1]
      <3>1. i - 1 \in 1..(Len(q) - 1) /\ (i - 1) + 1 = i
        BY <1>1, <1>3, <2>1
      <3>. QED
        BY <1>2, <1>3, <3>1
    <2>. QED
      BY <2>1
  <1>8. ToSet(q) = {Head(q)} \cup ToSet(Tail(q))
    <2>1. ASSUME NEW x \in ToSet(q)  PROVE x = Head(q) \/ x \in ToSet(Tail(q))
      <3>1. PICK i \in DOMAIN q : x = q[i]
        BY <1>4
      <3>. QED
        BY <1>1, <1>4, <1>7, <3>1
    <2>2. ASSUME NEW x \in ToSet(Tail(q))  PROVE x \in ToSet(q)
      <3>1. PICK i \in DOMAIN Tail(q) : x = Tail(q)[i]
        BY <1>4
      <3>. QED
        BY <1>4, <1>6, <3>1
    <2>3. Head(q) \in ToSet(q)
      BY <1>1, <1>4, <1>5
    <2>. QED
      BY <2>1, <2>2, <2>3
  <1>. QED
    BY <1>1, <1>5, <1>6, <1>8

(* The types after a step *)
LEMMA TypesAfter ==
    ASSUME TypeOK, IInv', input' = input, lstate' \in [Task -> LocalState],
           gstate' \in GlobalState, store' \in [Batch -> Seq(Batch)],
           memory' \in [used : Nat, available : Nat, mayGrow : BOOLEAN,
                        min : 0..MaxBatchIndex],
           table' \in Seq(Batch)
    PROVE  TypeOK'
  <1>1. /\ Batch' = Batch /\ MaxBatchIndex' = MaxBatchIndex /\ Task' = Task
        /\ Batches' = Batches /\ LocalState' = LocalState /\ Work' = Work /\ Entry' = Entry
    BY StatementKept
  <1>2. GlobalState' = GlobalState
    BY <1>1 DEF GlobalState
  <1>3. /\ input' \in Inputs /\ handed' \in (0..Batches)'
        /\ active' \in [Task -> {Unregistered} \cup 0..MaxBatchIndex]'
        /\ pc' \in [Task -> Control]'
    BY DEF IInv, IndexesTyped
  <1>. QED
    BY <1>1, <1>2, <1>3 DEF TypeOK

(* The types, taken apart. *)
LEMMA TypesNow ==
    ASSUME TypeOK
    PROVE  /\ input \in Inputs /\ handed \in 0..Batches
           /\ lstate \in [Task -> LocalState] /\ gstate \in GlobalState
           /\ gstate.entries \in Seq(Entry) /\ gstate.queue \in Seq(Work)
           /\ gstate.nextStart \in Nat /\ gstate.written \in BOOLEAN /\ gstate.count \in Nat
           /\ store \in [Batch -> Seq(Batch)] /\ table \in Seq(Batch)
           /\ memory \in [used : Nat, available : Nat, mayGrow : BOOLEAN,
                          min : 0..MaxBatchIndex]
           /\ memory.used \in Nat
           /\ Batches \in Nat /\ Batch = 1..Batches /\ MaxBatchIndex = Batches + 1
           /\ Task = 1..input.tasks /\ input.tasks \in Nat
  <1>1. Batches \in Nat /\ input.tasks \in Nat
    BY InputSound, InputsAssumption DEF TypeOK
  <1>. QED
    BY <1>1 DEF TypeOK, GlobalState, Batch, MaxBatchIndex, Task

(* TakeTask moves a merge task from the queue to the local state. *)
LEMMA TakeTaskKeeps ==
    ASSUME TaskInv, DataInv, IInv', NEW t \in Task, TakeTask(t)
    PROVE  TypeOK' /\ Phases' /\ HeldOnce' /\ DataInv'
  <1> DEFINE w == Head(gstate.queue)
             rest == Tail(gstate.queue)
  <1>0. TypeOK
    BY TaskFacts
  <1>1. /\ pc[t] = "drain" /\ gstate.queue # <<>>
        /\ input' = input /\ handed' = handed /\ active' = active
        /\ memory' = memory /\ store' = store /\ table' = table /\ thrown' = thrown
        /\ Goto(t, "merge")
        /\ lstate' = [lstate EXCEPT ![t].work = w]
        /\ gstate' = [gstate EXCEPT !.queue = rest]
    BY DEF TakeTask
  <1>2. /\ w = gstate.queue[1] /\ w \in Work /\ rest \in Seq(Work)
        /\ 1 \in DOMAIN gstate.queue
        /\ \A i \in DOMAIN rest : /\ i + 1 \in DOMAIN gstate.queue
                                  /\ rest[i] = gstate.queue[i + 1] /\ i \in Nat /\ i # 0
        /\ ToSet(gstate.queue) = {w} \cup ToSet(rest)
    <2>1. gstate.queue \in Seq(Work)
      BY <1>0, TypesNow
    <2>. QED
      BY <1>1, <2>1, HeadAndTail
  <1>3. ToSet(rest) = {rest[i] : i \in DOMAIN rest}
    BY <1>2, SeqElements
  <1> HIDE DEF w, rest
  <1>4. /\ gstate' \in GlobalState /\ gstate'.queue = rest
        /\ gstate'.entries = gstate.entries /\ gstate'.written = gstate.written
        /\ gstate'.count = gstate.count
    <2>1. gstate \in GlobalState
      BY <1>0, TypesNow
    <2>. QED
      BY <1>1, <1>2, <2>1 DEF GlobalState
  <1>5. /\ lstate' \in [Task -> LocalState]
        /\ lstate'[t] = [lstate[t] EXCEPT !.work = w]
        /\ \A u \in Task \ {t} : lstate'[u] = lstate[u]
    <2>1. lstate \in [Task -> LocalState] /\ lstate[t] \in LocalState
      BY <1>0, TypesNow
    <2>2. [lstate[t] EXCEPT !.work = w] \in LocalState
      BY <1>2, <2>1 DEF LocalState
    <2>. QED
      BY <1>1, <2>1, <2>2
  <1>6. lstate'[t].work = w /\ Works(t, "merge")
    <2>1. lstate[t] \in LocalState
      BY <1>0, TypesNow
    <2>2. /\ lstate'[t].coll = lstate[t].coll /\ lstate'[t].left = lstate[t].left
          /\ lstate'[t].batch = lstate[t].batch /\ lstate'[t].current = lstate[t].current
          /\ lstate'[t].back = lstate[t].back /\ lstate'[t].work = w
      BY <1>5, <2>1 DEF LocalState
    <2>. QED
      BY <1>1, <1>5, <2>2 DEF Works, Draining
  <1>7. /\ StepOf(t) /\ KeepsBatches(t) /\ Phases' /\ HeldOnce'
        /\ Delivered' = Delivered /\ pc'[t] = "merge"
        /\ \A u \in Task \ {t} : /\ lstate'[u] = lstate[u]
                                 /\ pc'[u] = "merge" <=> pc[u] = "merge"
                                 /\ pc'[u] = "publish" <=> pc[u] = "publish"
        /\ Task' = Task /\ Batch' = Batch /\ Chunked' = Chunked
        /\ \A S : Of(S)' = Of(S)
        /\ \E u \in Task : Serves(u)'
        /\ ~ Finished
    BY <1>6, WorksKeeps
  <1>8. TypeOK'
    <2>1. store \in [Batch -> Seq(Batch)] /\ table \in Seq(Batch)
          /\ memory \in [used : Nat, available : Nat, mayGrow : BOOLEAN,
                         min : 0..MaxBatchIndex]
      BY <1>0, TypesNow
    <2>. QED
      BY <1>0, <1>1, <1>4, <1>5, <2>1, TypesAfter
  <1>9. StoreOfTasks' /\ StoreFresh'
    BY <1>1, <1>7, StoreKept
  <1>10. Entries' = Entries /\ \A e : OwnedBy(e)' = OwnedBy(e)
    BY <1>4, <1>7 DEF Entries, OwnedBy
  <1>11. EntriesOk' /\ EntryContents' /\ Separated' /\ Covered'
    BY <1>1, <1>4, <1>7, <1>10
       DEF DataInv, EntriesOk, EntryContents, Separated, Covered
  <1>12. {lstate'[u].work : u \in {v \in Task : pc'[v] = "merge"}}
            = {w} \cup {lstate[u].work : u \in {v \in Task : pc[v] = "merge"}}
    BY <1>1, <1>6, <1>7
  <1>13. Waiting' = Waiting
    BY <1>2, <1>4, <1>7, <1>12 DEF Waiting
  <1>14. JobsOk'
    <2>1. \A c : Contents(c)' = Contents(c)
      BY <1>1 DEF Contents
    <2>2. \A j, e : Fits(j, e)' = Fits(j, e)
      BY <1>7, <1>10, <2>1 DEF Fits
    <2>. QED
      BY <1>10, <1>13, <2>2 DEF DataInv, JobsOk
  <1>15. Published'
    <2>1. Published
      BY DEF DataInv
    <2>2. \A u \in Task : pc'[u] = "publish" => pc[u] = "publish" /\ lstate'[u] = lstate[u]
      BY <1>7
    <2>. QED
      BY <1>1, <1>7, <1>10, <2>1, <2>2 DEF Published
  <1>16. JobsOnce'
    <2>1. JobsOnce
      BY DEF DataInv
    <2>2. ~ AtWork(t) /\ \A u \in Task \ {t} : AtWork(u)' <=> AtWork(u)
      BY <1>1, <1>7 DEF AtWork
    <2>3. \A i, k \in DOMAIN gstate'.queue :
              gstate'.queue[i].batch = gstate'.queue[k].batch => i = k
      BY <1>2, <1>4, <2>1, SMTT(30) DEF JobsOnce
    <2>4. \A j \in ToSet(rest) : j.batch # w.batch /\ j \in ToSet(gstate.queue)
      <3>1. ASSUME NEW j \in ToSet(rest)  PROVE j.batch # w.batch
        <4>1. PICK i \in DOMAIN rest : j = rest[i]
          BY <1>3
        <4>2. i + 1 # 1
          BY <1>2
        <4>. QED
          BY <1>2, <2>1, <4>1, <4>2 DEF JobsOnce
      <3>. QED
        BY <1>2, <3>1
    <2>5. w \in ToSet(gstate.queue)
      BY <1>2
    <2>6. ASSUME NEW u \in Task, AtWork(u)'
          PROVE  \A j \in ToSet(gstate'.queue) : j.batch # lstate'[u].work.batch
      <3>1. CASE u = t
        BY <1>4, <1>6, <2>4, <3>1
      <3>2. CASE u # t
        BY <1>4, <1>7, <2>1, <2>2, <2>4, <2>6, <3>2 DEF JobsOnce
      <3>. QED
        BY <3>1, <3>2
    <2>7. ASSUME NEW u \in Task, NEW v \in Task, AtWork(u)', AtWork(v)', u # v
          PROVE  lstate'[u].work.batch # lstate'[v].work.batch
      <3>1. CASE u = t
        <4>1. AtWork(v) /\ lstate'[v] = lstate[v] /\ lstate'[u].work = w
          BY <1>6, <1>7, <2>2, <2>7, <3>1
        <4>. QED
          BY <2>1, <2>5, <4>1 DEF JobsOnce
      <3>2. CASE v = t
        <4>1. AtWork(u) /\ lstate'[u] = lstate[u] /\ lstate'[v].work = w
          BY <1>6, <1>7, <2>2, <2>7, <3>2
        <4>. QED
          BY <2>1, <2>5, <4>1 DEF JobsOnce
      <3>3. CASE u # t /\ v # t
        BY <1>7, <2>1, <2>2, <2>7, <3>3 DEF JobsOnce
      <3>. QED
        BY <3>1, <3>2, <3>3
    <2>. QED
      BY <1>7, <2>3, <2>6, <2>7 DEF JobsOnce
  <1>17. QueueServed' /\ FlushedLarge' /\ NothingThrown'
    BY <1>1, <1>7 DEF DataInv, QueueServed, FlushedLarge, NothingThrown
  <1>18. MergesAwaited'
    <2>1. {lstate'[u].work : u \in {v \in Task : pc'[v] \in {"merge", "publish"}}}
            = {w} \cup {lstate[u].work : u \in {v \in Task : pc[v] \in {"merge", "publish"}}}
      BY <1>1, <1>6, <1>7
    <2>2. Jobs' = Jobs
      BY <1>2, <1>4, <1>7, <2>1 DEF Jobs
    <2>. QED
      BY <1>4, <2>2 DEF DataInv, MergesAwaited
  <1>19. MemoryAccounted'
    <2>1. ToSet(gstate'.queue) \cup {lstate'[u].work : u \in {v \in Task : pc'[v] = "merge"}}
          = ToSet(gstate.queue) \cup {lstate[u].work : u \in {v \in Task : pc[v] = "merge"}}
      BY <1>2, <1>4, <1>12
    <2>. QED
      BY <1>1, <1>4, <1>7, <2>1 DEF DataInv, MemoryAccounted
  <1>20. DataInv'
    BY <1>9, <1>11, <1>14, <1>15, <1>16, <1>17, <1>18, <1>19 DEF DataInv
  <1>. QED
    BY <1>7, <1>8, <1>20

(* The works of some tasks are finitely many. *)
LEMMA WorksFinite ==
    ASSUME TypeOK, NEW U \in SUBSET Task
    PROVE  LET S == ToSet(gstate.queue) \cup {lstate[u].work : u \in U}
           IN  Weighed(S) /\ \A w \in S : w \in Work
  <1> DEFINE L == {lstate[u].work : u \in U}
             Q == ToSet(gstate.queue)
  <1>1. gstate.queue \in Seq(Work)
    BY TypesNow
  <1>2. IsFiniteSet(Q) /\ \A w \in Q : w \in Work
    BY <1>1, ToSetFinite, SeqElements
  <1>3. IsFiniteSet(U)
    <2>1. Task = 1..input.tasks /\ input.tasks \in Nat
      BY TypesNow
    <2>2. IsFiniteSet(Task)
      <3>1. 1 \in Int /\ input.tasks \in Int
        BY <2>1
      <3>. QED
        BY <2>1, <3>1, FS_Interval
    <2>. QED
      BY <2>2, FS_Subset
  <1>4. IsFiniteSet(L)
    <2> DEFINE f == [u \in U |-> lstate[u].work]
    <2>1. f \in Surjection(U, L)
      BY DEF Surjection
    <2> HIDE DEF f, L
    <2>. QED
      BY <1>3, <2>1, FS_Surjection DEF ExistsSurjection
  <1>5. \A w \in L : w \in Work
    BY LocalTyped
  <1> HIDE DEF L, Q
  <1>6. IsFiniteSet(Q \cup L)
    BY <1>2, <1>4, FS_Union
  <1>7. \A w \in Q \cup L : w \in Work /\ w.memory \in Nat
    BY <1>2, <1>5 DEF Work
  <1>8. Weighed(Q \cup L)
    BY <1>6, <1>7 DEF Weighed
  <1>. QED
    BY <1>7, <1>8 DEF Q, L

(* The entry of a batch; the collections of two entries share no batch. *)
LEMMA EntriesApart ==
    ASSUME TypeOK, DataInv
    PROVE  /\ \A e \in Entries : /\ e \in Entry /\ e.batch \in Delivered /\ e.batch \in Batch
                                 /\ e.batch \in OwnedBy(e) /\ OwnedBy(e) \subseteq Delivered
           /\ \A e, f \in Entries : e.batch = f.batch => e = f
           /\ \A e, f \in Entries : e # f => OwnedBy(e) \cap OwnedBy(f) = {}
           /\ Delivered \subseteq Int /\ Delivered \subseteq Batch
  <1>1. gstate.entries \in Seq(Entry) /\ Batch = 1..Batches /\ Batches \in Nat
    BY TypesNow
  <1>2. InBatchOrder(gstate.entries) /\ \A e \in Entries : e.batch \in Delivered
    BY DEF DataInv, EntriesOk
  <1>3. Delivered \subseteq Batch /\ Delivered \subseteq Int
    BY <1>1 DEF Delivered, Chunked
  <1>4. Entries = {gstate.entries[i] : i \in DOMAIN gstate.entries}
        /\ Entries \subseteq Entry
    BY <1>1, SeqElements DEF Entries
  <1>5. \A e, f \in Entries : e.batch = f.batch => e = f
    <2>1. ASSUME NEW e \in Entries, NEW f \in Entries, e.batch = f.batch  PROVE e = f
      <3>1. PICK i \in DOMAIN gstate.entries : e = gstate.entries[i]
        BY <1>4
      <3>2. PICK j \in DOMAIN gstate.entries : f = gstate.entries[j]
        BY <1>4
      <3>3. i = j
        BY <1>1, <1>2, <2>1, <3>1, <3>2, OrderedApart
      <3>. QED
        BY <3>1, <3>2, <3>3
    <2>. QED
      BY <2>1
  <1> DEFINE B == BatchesOf(gstate.entries)
  <1>6. B \in SUBSET Int /\ \A e \in Entries : e.batch \in B
    BY <1>1, BatchesOfIs DEF BatchesOf, Entries
  <1>7. \A e \in Entries : OwnedBy(e) = Owned(B, Delivered, e.batch)
    BY DEF OwnedBy
  <1> HIDE DEF B
  <1>8. \A e \in Entries : e.batch \in OwnedBy(e) /\ OwnedBy(e) \subseteq Delivered
    <2>1. ASSUME NEW e \in Entries  PROVE e.batch \in Owned(B, Delivered, e.batch)
      <3>1. e.batch \in Delivered /\ e.batch \in Int
        BY <1>2, <1>3
      <3>. QED
        BY <1>6, <3>1 DEF Owned
    <2>. QED
      BY <1>7, <2>1, OwnedDelivered
  <1>9. ASSUME NEW e \in Entries, NEW f \in Entries, e # f, NEW d \in OwnedBy(e), d \in OwnedBy(f)
        PROVE  FALSE
    <2>1. e.batch # f.batch /\ e.batch \in B /\ f.batch \in B
          /\ e.batch \in Int /\ f.batch \in Int
      BY <1>3, <1>5, <1>6, <1>9, <1>2
    <2>2. d \in Int
      BY <1>3, <1>8, <1>9
    <2>3. d \in Owned(B, Delivered, e.batch) /\ d \in Owned(B, Delivered, f.batch)
      BY <1>7, <1>9
    <2>4. ~ (d < d)
      BY <2>2
    <2>5. CASE e.batch < f.batch
      <3>1. d < d
        BY <1>3, <1>6, <2>1, <2>3, <2>5, OwnedApart
      <3>. QED
        BY <2>4, <3>1
    <2>6. CASE f.batch < e.batch
      <3>1. d < d
        BY <1>3, <1>6, <2>1, <2>3, <2>6, OwnedApart
      <3>. QED
        BY <2>4, <3>1
    <2>. QED
      BY <2>1, <2>5, <2>6
  <1>. QED
    BY <1>2, <1>3, <1>4, <1>5, <1>8, <1>9

(* MergeCollections gives the first collection the rows of all, in order: exactly
   what the entry that waits owns. *)
LEMMA MergeKeeps ==
    ASSUME TaskInv, DataInv, IInv', NEW t \in Task, Merge(t)
    PROVE  TypeOK' /\ Phases' /\ HeldOnce' /\ DataInv'
  <1> DEFINE w == lstate[t].work
  <1>0. TypeOK
    BY TaskFacts
  <1>1. /\ pc[t] = "merge"
        /\ input' = input /\ handed' = handed /\ active' = active
        /\ lstate' = lstate /\ table' = table
        /\ Goto(t, "publish")
        /\ Require(memory.used >= w.memory, "usage below zero")
        /\ memory' = [memory EXCEPT !.used = memory.used - w.memory]
        /\ gstate' = [gstate EXCEPT !.written = TRUE]
        /\ store' = [b \in Batch |->
                           IF b = w.colls[1] THEN Contents(w.colls)
                           ELSE IF b \in ToSet(w.colls) THEN <<>>
                           ELSE store[b]]
    BY DEF Merge
  <1>2. w \in Work /\ w.memory \in Nat
    BY <1>0, LocalTyped DEF Work
  <1>3. Works(t, "publish")
    BY <1>0, <1>1, TypesNow DEF Works, Draining
  <1>4. w \in Jobs /\ w \in Waiting
    BY <1>1 DEF Jobs, Waiting
  <1> HIDE DEF w
  <1>5. PICK e \in Entries : e.batch = w.batch /\ e.coll = 0
    BY <1>4 DEF DataInv, MergesAwaited, Entries
  <1>6. Fits(w, e)
    BY <1>4, <1>5 DEF DataInv, JobsOk
  <1>7. /\ \A f \in Entries : /\ f \in Entry /\ f.batch \in Delivered /\ f.batch \in Batch
                              /\ f.batch \in OwnedBy(f) /\ OwnedBy(f) \subseteq Delivered
        /\ \A f, g \in Entries : f.batch = g.batch => f = g
        /\ \A f, g \in Entries : f # g => OwnedBy(f) \cap OwnedBy(g) = {}
        /\ Delivered \subseteq Batch
    BY <1>0, EntriesApart
  <1>8. /\ w.colls[1] = e.batch /\ ToSet(w.colls) \subseteq OwnedBy(e)
        /\ Contents(w.colls) = Of(OwnedBy(e))
    BY <1>6 DEF Fits
  <1>9. Of(OwnedBy(e)) \in Seq(Batch)
    BY <1>0, TypesNow, OfPrefixes
  <1>10. /\ \A b \in Batch : b \notin OwnedBy(e) => store'[b] = store[b]
         /\ store'[e.batch] = Of(OwnedBy(e))
         /\ store' \in [Batch -> Seq(Batch)]
    <2>1. \A b \in Batch : store'[b] = IF b = w.colls[1] THEN Contents(w.colls)
                           ELSE IF b \in ToSet(w.colls) THEN <<>>
                           ELSE store[b]
      BY <1>1
    <2>2. store' \in [Batch -> Seq(Batch)]
      <3>1. store \in [Batch -> Seq(Batch)] /\ <<>> \in Seq(Batch)
        BY <1>0, TypesNow
      <3>2. \A b \in Batch : store'[b] \in Seq(Batch)
        BY <1>8, <1>9, <2>1, <3>1
      <3>. QED
        BY <1>1, <3>2
    <2>. QED
      BY <1>5, <1>7, <1>8, <2>1, <2>2
  <1>11. /\ StepOf(t) /\ KeepsBatches(t) /\ Phases' /\ HeldOnce'
         /\ Delivered' = Delivered /\ pc'[t] = "publish"
         /\ \A u \in Task \ {t} : /\ pc'[u] = "merge" <=> pc[u] = "merge"
                                  /\ pc'[u] = "publish" <=> pc[u] = "publish"
         /\ Task' = Task /\ Batch' = Batch /\ Chunked' = Chunked
         /\ \A S : Of(S)' = Of(S)
         /\ \E u \in Task : Serves(u)'
         /\ ~ Finished
    BY <1>3, WorksKeeps
  <1>12. /\ gstate' \in GlobalState /\ gstate'.queue = gstate.queue
         /\ gstate'.entries = gstate.entries /\ gstate'.written
         /\ gstate'.count = gstate.count
    <2>1. gstate \in GlobalState /\ TRUE \in BOOLEAN
      BY <1>0, TypesNow
    <2>. QED
      BY <1>1, <2>1 DEF GlobalState
  <1>13. /\ ToSet(gstate.queue) \cup {lstate[u].work : u \in {v \in Task : pc[v] = "merge"}}
               = Waiting
         /\ ToSet(gstate'.queue) \cup {lstate'[u].work : u \in {v \in Task : pc'[v] = "merge"}}
               = Waiting'
    BY <1>11, <1>12 DEF Waiting
  <1>14. /\ Waiting' \subseteq Waiting /\ Waiting = Waiting' \cup {w}
         /\ \A j \in Waiting' : j.batch # w.batch
    <2>1. JobsOnce
      BY DEF DataInv
    <2>2. {v \in Task : pc[v] = "merge"} = {v \in Task : pc'[v] = "merge"} \cup {t}
      BY <1>1, <1>11
    <2>3. Waiting = Waiting' \cup {w}
      BY <1>1, <1>12, <1>13, <2>2 DEF w
    <2>4. ASSUME NEW j \in Waiting'  PROVE j.batch # w.batch
      <3>1. CASE j \in ToSet(gstate.queue)
        BY <1>1, <2>1, <3>1 DEF JobsOnce, AtWork, w
      <3>2. CASE j \notin ToSet(gstate.queue)
        <4>1. PICK u \in Task : pc'[u] = "merge" /\ j = lstate[u].work
          BY <1>1, <1>12, <1>13, <2>4, <3>2
        <4>2. u # t /\ pc[u] = "merge"
          BY <1>11, <4>1
        <4>. QED
          BY <1>1, <2>1, <4>1, <4>2 DEF JobsOnce, AtWork, w
      <3>. QED
        BY <3>1, <3>2
    <2>. QED
      BY <2>3, <2>4
  <1>15. /\ Weighed(Waiting) /\ Weighed(Waiting')
         /\ SumOf(Waiting) = SumOf(Waiting') + w.memory
         /\ SumOf(Waiting') \in Nat
    <2>1. Weighed(Waiting)
      BY <1>0, <1>13, WorksFinite
    <2>2. Weighed(Waiting')
      <3>1. IsFiniteSet(Waiting')
        BY <1>14, <2>1, FS_Subset DEF Weighed
      <3>. QED
        BY <1>14, <2>1, <3>1 DEF Weighed
    <2>3. Weighed({w}) /\ SumOf({w}) = w.memory
      BY <1>2, SumOne
    <2>4. Waiting' \cap {w} = {}
      BY <1>14
    <2>5. SumOf(Waiting' \cup {w}) = SumOf(Waiting') + SumOf({w})
      BY <2>2, <2>3, <2>4, SumUnion
    <2>6. SumOf(Waiting') \in Nat
      BY <2>2, SumOfIs
    <2>. QED
      BY <1>14, <2>1, <2>2, <2>3, <2>5, <2>6
  <1>16. Unflushed(gstate.entries) \in Nat
    <2>1. gstate.entries \in Seq(Entry)
      BY <1>0, TypesNow
    <2>2. Weighed({x \in ToSet(gstate.entries) : ~ x.flushed})
      BY <2>1, EntriesWeighed
    <2>. QED
      BY <2>2, SumOfIs DEF Unflushed
  <1>17. /\ memory.used = Unflushed(gstate.entries) + SumOf(Waiting)
         /\ memory.used >= w.memory
         /\ memory.used - w.memory = Unflushed(gstate.entries) + SumOf(Waiting')
         /\ memory.used - w.memory \in Nat
    <2>1. memory.used = Unflushed(gstate.entries) + SumOf(Waiting)
      BY <1>13 DEF DataInv, MemoryAccounted
    <2>. QED
      BY <1>2, <1>15, <1>16, <2>1
  <1>18. memory' \in [used : Nat, available : Nat, mayGrow : BOOLEAN, min : 0..MaxBatchIndex]
         /\ memory'.used = memory.used - w.memory
    <2>1. memory \in [used : Nat, available : Nat, mayGrow : BOOLEAN, min : 0..MaxBatchIndex]
      BY <1>0, TypesNow
    <2>. QED
      BY <1>1, <1>17, <2>1
  <1>19. TypeOK'
    <2>1. lstate' \in [Task -> LocalState] /\ table' \in Seq(Batch)
      BY <1>0, <1>1, TypesNow
    <2>. QED
      BY <1>0, <1>1, <1>10, <1>12, <1>18, <2>1, TypesAfter
  <1>20. StoreOfTasks' /\ StoreFresh'
    <2>1. \A b \in Batch \ Delivered : store'[b] = store[b]
      BY <1>7, <1>10
    <2>. QED
      BY <1>11, <2>1, StoreKept
  <1>21. Entries' = Entries /\ \A f : OwnedBy(f)' = OwnedBy(f)
    BY <1>11, <1>12 DEF Entries, OwnedBy
  <1>22. \A f \in Entries : f.batch # w.batch =>
            \A b \in OwnedBy(f) : store'[b] = store[b]
    <2>1. ASSUME NEW f \in Entries, f.batch # w.batch, NEW b \in OwnedBy(f)
          PROVE  b \in Batch /\ b \notin OwnedBy(e)
      <3>1. f # e
        BY <1>5, <2>1
      <3>. QED
        BY <1>5, <1>7, <2>1, <3>1
    <2>. QED
      BY <1>10, <2>1
  <1>23. EntryContents'
    <2>1. ASSUME NEW f \in Entries, f.coll # 0  PROVE store'[f.coll] = Of(OwnedBy(f))
      <3>1. f.coll = f.batch /\ store[f.coll] = Of(OwnedBy(f))
        BY <2>1 DEF DataInv, EntriesOk, EntryContents
      <3>2. f.batch # w.batch
        BY <1>5, <1>7, <2>1
      <3>3. f.batch \in OwnedBy(f)
        BY <1>7
      <3>. QED
        BY <1>22, <3>1, <3>2, <3>3
    <2>. QED
      BY <1>11, <1>21, <2>1 DEF EntryContents
  <1>24. EntriesOk' /\ Separated' /\ Covered'
    BY <1>1, <1>11, <1>12, <1>21 DEF DataInv, EntriesOk, Separated, Covered
  <1>25. JobsOk'
    <2>1. ASSUME NEW j \in Waiting', NEW f \in Entries, f.batch = j.batch
          PROVE  Fits(j, f)'
      <3>1. Fits(j, f) /\ f.batch # w.batch
        BY <1>14, <2>1 DEF DataInv, JobsOk
      <3>2. \A i \in DOMAIN j.colls : j.colls[i] \in OwnedBy(f)
        BY <3>1 DEF Fits, ToSet
      <3>3. Contents(j.colls)' = Contents(j.colls)
        BY <1>22, <2>1, <3>1, <3>2, ContentsSame
      <3>. QED
        BY <1>11, <1>21, <3>1, <3>3 DEF Fits
    <2>. QED
      BY <1>21, <2>1 DEF JobsOk
  <1>26. Published'
    <2>1. ASSUME NEW u \in Task, pc'[u] = "publish", NEW f \in Entries,
                 f.batch = lstate[u].work.batch
          PROVE  lstate[u].work.colls[1] = f.batch /\ store'[f.batch] = Of(OwnedBy(f))
      <3>1. CASE u = t
        <4>1. f = e
          BY <1>5, <1>7, <2>1, <3>1 DEF w
        <4>. QED
          BY <1>8, <1>10, <3>1, <4>1 DEF w
      <3>2. CASE u # t
        <4>1. pc[u] = "publish"
          BY <1>11, <2>1, <3>2
        <4>2. lstate[u].work.colls[1] = f.batch /\ store[f.batch] = Of(OwnedBy(f))
          BY <2>1, <4>1 DEF DataInv, Published
        <4>3. f.batch # w.batch
          BY <1>1, <2>1, <3>2, <4>1 DEF DataInv, JobsOnce, AtWork, w
        <4>4. f.batch \in OwnedBy(f)
          BY <1>7
        <4>. QED
          BY <1>22, <4>2, <4>3, <4>4
      <3>. QED
        BY <3>1, <3>2
    <2>. QED
      BY <1>1, <1>11, <1>21, <2>1, ZenonT(30) DEF Published
  <1>27. \A u \in Task : AtWork(u)' <=> AtWork(u)
    BY <1>1, <1>11 DEF AtWork
  <1>28. JobsOnce'
    <2>1. JobsOnce
      BY DEF DataInv
    <2>2. lstate' = lstate /\ gstate'.queue = gstate.queue /\ Task' = Task
      BY <1>1, <1>11, <1>12
    <2>. QED
      BY <1>27, <2>1, <2>2 DEF JobsOnce
  <1>29. QueueServed' /\ FlushedLarge' /\ NothingThrown'
    <2>1. thrown' = thrown
      BY <1>1, <1>17 DEF Require
    <2>. QED
      BY <1>11, <1>12, <2>1 DEF DataInv, QueueServed, FlushedLarge, NothingThrown
  <1>30. MergesAwaited'
    <2>1. Jobs' = Jobs
      BY <1>1, <1>11, <1>12, <1>27, ZenonT(30) DEF Jobs, AtWork
    <2>. QED
      BY <1>12, <2>1 DEF DataInv, MergesAwaited
  <1>31. MemoryAccounted'
    BY <1>11, <1>12, <1>13, <1>17, <1>18 DEF MemoryAccounted
  <1>32. DataInv'
    BY <1>20, <1>23, <1>24, <1>25, <1>26, <1>28, <1>29, <1>30, <1>31 DEF DataInv
  <1>. QED
    BY <1>11, <1>19, <1>32

(* The entry gets the collection that holds what it owns. *)
LEMMA PublishKeeps ==
    ASSUME TaskInv, DataInv, IInv', NEW t \in Task, Publish(t)
    PROVE  TypeOK' /\ Phases' /\ HeldOnce' /\ DataInv'
  <1> DEFINE w == lstate[t].work
             c == w.colls[1]
             es == gstate.entries
             Now(x) == IF x.batch = w.batch THEN [x EXCEPT !.coll = c] ELSE x
             fs == [i \in DOMAIN es |-> Now(es[i])]
  <1>0. TypeOK
    BY TaskFacts
  <1>1. /\ pc[t] = "publish"
        /\ input' = input /\ handed' = handed /\ active' = active
        /\ table' = table /\ store' = store /\ memory' = memory
        /\ Goto(t, "drain")
        /\ Require(\E x \in ToSet(es) : x.batch = w.batch,
                      "Merged batch index was no longer present")
        /\ lstate' = [lstate EXCEPT ![t].work = NoWork]
        /\ gstate' = [gstate EXCEPT !.entries = fs]
    BY DEF Publish
  <1>2. /\ es \in Seq(Entry) /\ gstate \in GlobalState /\ lstate \in [Task -> LocalState]
        /\ Batches \in Nat /\ Batch = 1..Batches
    BY <1>0, TypesNow
  <1>3. Entries = {es[i] : i \in DOMAIN es} /\ Entries = ToSet(es)
    BY <1>2, SeqElements DEF Entries
  <1>4. w \in Jobs
    BY <1>1 DEF Jobs
  <1>5. PICK e \in Entries : e.batch = w.batch /\ e.coll = 0
    <2>1. \E x \in ToSet(gstate.entries) : x.batch = w.batch /\ x.coll = 0
      BY <1>4 DEF DataInv, MergesAwaited
    <2>. QED
      BY <2>1 DEF Entries
  <1>6. /\ \A f \in Entries : /\ f \in Entry /\ f.batch \in Delivered /\ f.batch \in Batch
        /\ \A f, g \in Entries : f.batch = g.batch => f = g
    BY <1>0, EntriesApart
  <1>7. c = e.batch /\ store[e.batch] = Of(OwnedBy(e)) /\ c \in Batch
    BY <1>1, <1>5, <1>6 DEF DataInv, Published
  <1>8. e.flushed
    BY <1>5 DEF DataInv, EntriesOk
  <1>9. \A x \in Entry : Now(x) \in Entry /\ Now(x).batch = x.batch
    <2>1. c \in 0..Batches
      BY <1>2, <1>7
    <2> HIDE DEF w, c
    <2>. QED
      BY <2>1 DEF Entry
  <1>10. \A x \in Entries : /\ x # e => Now(x) = x
                            /\ x = e => Now(x) = [e EXCEPT !.coll = c]
    BY <1>5, <1>6
  <1>11. /\ Now(e).flushed /\ Now(e).coll = e.batch /\ Now(e).batch = e.batch
    <2>1. Now(e) = [e EXCEPT !.coll = c] /\ e \in Entry
      BY <1>6, <1>10
    <2>. QED
      BY <1>7, <1>8, <2>1 DEF Entry
  <1> HIDE DEF w, c, Now
  <1>12. fs \in Seq(Entry) /\ DOMAIN fs = DOMAIN es
    <2>1. Len(es) \in Nat /\ DOMAIN es = 1..Len(es) /\ \A i \in DOMAIN es : es[i] \in Entry
      BY <1>2, SeqElements
    <2>2. fs \in [1..Len(es) -> Entry]
      BY <1>9, <2>1
    <2>3. DOMAIN fs = DOMAIN es
      OBVIOUS
    <2> HIDE DEF fs
    <2>. QED
      BY <2>1, <2>2, <2>3, SeqOfFunction
  <1>13. \A i \in DOMAIN es : fs[i] = Now(es[i]) /\ es[i] \in Entries
    BY <1>3
  <1>14. ToSet(fs) = {Now(x) : x \in Entries}
    <2> HIDE DEF fs
    <2>1. ToSet(fs) = {fs[i] : i \in DOMAIN fs}
      BY <1>12, SeqElements
    <2>2. \A x : x \in ToSet(fs) <=> \E i \in DOMAIN es : x = fs[i]
      BY <1>12, <2>1
    <2>3. \A x : x \in Entries <=> \E i \in DOMAIN es : x = es[i]
      BY <1>3
    <2>4. ASSUME NEW x \in ToSet(fs)  PROVE \E y \in Entries : x = Now(y)
      BY <1>13, <2>2
    <2>5. ASSUME NEW y \in Entries  PROVE Now(y) \in ToSet(fs)
      BY <1>13, <2>2, <2>3
    <2>. QED
      BY <2>4, <2>5
  <1> HIDE DEF fs
  <1>15. /\ gstate' \in GlobalState /\ gstate'.queue = gstate.queue
         /\ gstate'.entries = fs /\ gstate'.written = gstate.written
         /\ gstate'.count = gstate.count
    BY <1>1, <1>2, <1>12 DEF GlobalState
  <1>16. /\ lstate' \in [Task -> LocalState]
         /\ lstate'[t] = [lstate[t] EXCEPT !.work = NoWork]
         /\ \A u \in Task \ {t} : lstate'[u] = lstate[u]
    <2>1. NoWork \in Work
      BY <1>2 DEF NoWork, Work
    <2>2. [lstate[t] EXCEPT !.work = NoWork] \in LocalState
      BY <1>2, <2>1 DEF LocalState
    <2>. QED
      BY <1>1, <1>2, <2>2
  <1>17. Works(t, "drain")
    <2>1. lstate[t] \in LocalState
      BY <1>2
    <2>2. /\ lstate'[t].coll = lstate[t].coll /\ lstate'[t].left = lstate[t].left
          /\ lstate'[t].batch = lstate[t].batch /\ lstate'[t].current = lstate[t].current
          /\ lstate'[t].back = lstate[t].back
      BY <1>16, <2>1 DEF LocalState
    <2>. QED
      BY <1>1, <1>16, <2>2 DEF Works, Draining
  <1>18. /\ StepOf(t) /\ KeepsBatches(t) /\ Phases' /\ HeldOnce'
         /\ Delivered' = Delivered /\ pc'[t] = "drain"
         /\ \A u \in Task \ {t} : /\ lstate'[u] = lstate[u]
                                  /\ pc'[u] = "merge" <=> pc[u] = "merge"
                                  /\ pc'[u] = "publish" <=> pc[u] = "publish"
         /\ Task' = Task /\ Batch' = Batch /\ Chunked' = Chunked
         /\ \A S : Of(S)' = Of(S)
         /\ \E u \in Task : Serves(u)'
         /\ ~ Finished
    BY <1>17, WorksKeeps
  <1>m. {lstate'[u].work : u \in {v \in Task : pc'[v] = "merge"}}
             = {lstate[u].work : u \in {v \in Task : pc[v] = "merge"}}
    <2>1. pc[t] # "merge" /\ pc'[t] # "merge"
      BY <1>1, <1>18
    <2>2. \A u \in Task : /\ pc'[u] = "merge" <=> pc[u] = "merge"
                          /\ pc[u] = "merge" => lstate'[u] = lstate[u]
      BY <1>18, <2>1
    <2>. QED
      BY <2>2
  <1>19. TypeOK'
    <2>1. store \in [Batch -> Seq(Batch)] /\ table \in Seq(Batch)
          /\ memory \in [used : Nat, available : Nat, mayGrow : BOOLEAN,
                         min : 0..MaxBatchIndex]
      BY <1>0, TypesNow
    <2>. QED
      BY <1>0, <1>1, <1>15, <1>16, <2>1, TypesAfter
  <1>20. StoreOfTasks' /\ StoreFresh'
    BY <1>1, <1>18, StoreKept
  <1>21. Entries' = {Now(x) : x \in Entries}
    BY <1>14, <1>15 DEF Entries
  <1>22. \A x \in Entries : Now(x).batch = x.batch
    BY <1>6, <1>9
  <1>23. \A x : OwnedBy(x)' = OwnedBy(x)
    <2>1. BatchesOf(fs) = BatchesOf(es)
      BY <1>3, <1>14, <1>22 DEF BatchesOf
    <2>. QED
      BY <1>15, <1>18, <2>1 DEF OwnedBy
  <1>24. \A x \in Entries : OwnedBy(Now(x)) = OwnedBy(x)
    BY <1>22 DEF OwnedBy
  <1>25. EntriesOk'
    <2>1. InBatchOrder(fs)
      <3>1. InBatchOrder(es)
        BY DEF DataInv, EntriesOk
      <3>2. \A i \in DOMAIN es : fs[i].batch = es[i].batch
        BY <1>13, <1>22
      <3>. QED
        BY <1>12, <3>1, <3>2 DEF InBatchOrder
    <2>2. ASSUME NEW x \in Entries
          PROVE  /\ Now(x).batch \in Delivered
                 /\ Now(x).coll = 0 \/ Now(x).coll = Now(x).batch
                 /\ ~ Now(x).flushed => Now(x).coll # 0
      <3>1. CASE x = e
        BY <1>6, <1>11, <3>1
      <3>2. CASE x # e
        BY <1>10, <3>2 DEF DataInv, EntriesOk
      <3>. QED
        BY <3>1, <3>2
    <2>. QED
      BY <1>15, <1>18, <1>21, <2>1, <2>2 DEF EntriesOk
  <1>26. EntryContents'
    <2>1. ASSUME NEW x \in Entries, Now(x).coll # 0
          PROVE  store[Now(x).coll] = Of(OwnedBy(Now(x)))
      <3>1. CASE x = e
        BY <1>7, <1>11, <1>24, <3>1
      <3>2. CASE x # e
        BY <1>10, <2>1, <3>2 DEF DataInv, EntryContents
      <3>. QED
        BY <3>1, <3>2
    <2>. QED
      BY <1>1, <1>18, <1>21, <1>23, <2>1, ZenonT(30) DEF EntryContents
  <1>27. Separated'
    <2>1. Separated
      BY DEF DataInv
    <2>. QED
      BY <1>18, <1>21, <1>22, <2>1 DEF Separated
  <1>28. Covered'
    <2>1. table = <<>> /\ \A d \in Delivered : \E x \in Entries : x.batch <= d
      BY <1>18 DEF DataInv, Covered
    <2>. QED
      BY <1>1, <1>18, <1>21, <1>22, <2>1 DEF Covered
  <1>29. Waiting' = Waiting
    <2>. QED
      BY <1>15, <1>18, <1>m DEF Waiting
  <1>30. JobsOk'
    <2>1. \A k : Contents(k)' = Contents(k)
      BY <1>1 DEF Contents
    <2>2. ASSUME NEW j \in Waiting, NEW n \in Entries', n.batch = j.batch
          PROVE  Fits(j, n)'
      <3>0. PICK x \in Entries : n = Now(x)
        BY <1>21, <2>2
      <3>1. Fits(j, x)
        BY <1>22, <2>2, <3>0 DEF DataInv, JobsOk
      <3>2. Fits(j, n)
        BY <1>22, <1>24, <3>0, <3>1 DEF Fits
      <3>. QED
        BY <1>18, <1>23, <2>1, <3>2 DEF Fits
    <2>. QED
      BY <1>29, <2>2 DEF JobsOk
  <1>31. Published'
    <2>1. ASSUME NEW u \in Task, pc'[u] = "publish", NEW n \in Entries',
                 n.batch = lstate'[u].work.batch
          PROVE  /\ lstate'[u].work.colls[1] = n.batch
                 /\ store[n.batch] = Of(OwnedBy(n))
      <3>0. PICK x \in Entries : n = Now(x)
        BY <1>21, <2>1
      <3>1. u # t /\ pc[u] = "publish" /\ lstate'[u] = lstate[u]
        BY <1>18, <2>1
      <3>. QED
        BY <1>22, <1>24, <2>1, <3>0, <3>1 DEF DataInv, Published
    <2>. QED
      BY <1>1, <1>18, <1>23, <2>1 DEF Published
  <1>32. AtWork(t) /\ ~ AtWork(t)' /\ \A u \in Task \ {t} : AtWork(u)' <=> AtWork(u)
    BY <1>1, <1>18 DEF AtWork
  <1>33. JobsOnce'
    <2>1. JobsOnce
      BY DEF DataInv
    <2>2. \A u \in Task : AtWork(u)' => AtWork(u) /\ lstate'[u] = lstate[u]
      BY <1>18, <1>32
    <2>. QED
      BY <1>15, <1>18, <2>1, <2>2 DEF JobsOnce
  <1>34. QueueServed' /\ NothingThrown'
    <2>1. thrown' = thrown
      BY <1>1, <1>3, <1>5 DEF Require
    <2>. QED
      BY <1>18, <2>1 DEF DataInv, QueueServed, NothingThrown
  <1>35. FlushedLarge'
    <2>1. (\E x \in Entries' : x.flushed) => \E x \in Entries : x.flushed
      BY <1>8, <1>5
    <2>2. (\E u \in Task : pc[u] = "merge") => \E u \in Task : pc'[u] = "merge"
      BY <1>1, <1>18
    <2>. QED
      BY <1>15, <1>18, <2>1, <2>2 DEF DataInv, FlushedLarge
  <1>36. MergesAwaited'
    <2>1. Jobs' = Jobs \ {w}
      <3>1. \A j \in ToSet(gstate.queue) : j # w
        BY <1>32 DEF DataInv, JobsOnce, w
      <3>2. \A u \in Task \ {t} : AtWork(u) => lstate[u].work # w
        BY <1>32 DEF DataInv, JobsOnce, w
      <3>3. Jobs = ToSet(gstate.queue) \cup {lstate[u].work : u \in {v \in Task : AtWork(v)}}
        BY DEF Jobs, AtWork
      <3>4. Jobs' = ToSet(gstate.queue) \cup {lstate'[u].work : u \in {v \in Task : AtWork(v)'}}
        BY <1>15, <1>18 DEF Jobs, AtWork
      <3>5. {lstate'[u].work : u \in {v \in Task : AtWork(v)'}}
              = {lstate[u].work : u \in {v \in Task : AtWork(v)}} \ {w}
        BY <1>18, <1>32, <3>2 DEF w
      <3>. QED
        BY <3>1, <3>3, <3>4, <3>5
    <2>2. \A j \in Jobs : j # w => j.batch # w.batch
      <3>1. ASSUME NEW j \in Jobs, j # w  PROVE j.batch # w.batch
        <4>1. CASE j \in ToSet(gstate.queue)
          BY <1>32, <4>1 DEF DataInv, JobsOnce, w
        <4>2. CASE j \notin ToSet(gstate.queue)
          <5>1. PICK u \in Task : AtWork(u) /\ j = lstate[u].work
            BY <3>1, <4>2 DEF Jobs, AtWork
          <5>2. u # t
            BY <3>1, <5>1 DEF w
          <5>. QED
            BY <1>32, <5>1, <5>2 DEF DataInv, JobsOnce, w
        <4>. QED
          BY <4>1, <4>2
      <3>. QED
        BY <3>1
    <2>3. {j.batch : j \in Jobs'} = {j.batch : j \in Jobs} \ {w.batch}
      BY <1>4, <2>1, <2>2
    <2>4. {j.batch : j \in Jobs} = {x.batch : x \in {y \in Entries : y.coll = 0}}
      BY DEF DataInv, MergesAwaited, Entries
    <2>5. {x.batch : x \in {y \in Entries' : y.coll = 0}}
            = {x.batch : x \in {y \in Entries : y.coll = 0}} \ {w.batch}
      <3>1. ASSUME NEW x \in Entries
            PROVE  Now(x).coll = 0 <=> x.coll = 0 /\ x.batch # w.batch
        <4>1. CASE x = e
          <5>1. e.batch # 0
            BY <1>2, <1>6
          <5>. QED
            BY <1>5, <1>11, <4>1, <5>1
        <4>2. CASE x # e
          BY <1>5, <1>6, <1>10, <4>2
        <4>. QED
          BY <4>1, <4>2
      <3>2. \A b : b \in {x.batch : x \in {y \in Entries' : y.coll = 0}}
                    <=> \E x \in Entries : Now(x).coll = 0 /\ b = Now(x).batch
        BY <1>21
      <3>3. \A b : b \in {x.batch : x \in {y \in Entries : y.coll = 0}} \ {w.batch}
                    <=> \E x \in Entries : x.coll = 0 /\ x.batch # w.batch /\ b = x.batch
        OBVIOUS
      <3>. QED
        BY <1>22, <3>1, <3>2, <3>3
    <2>. QED
      BY <2>3, <2>4, <2>5 DEF MergesAwaited, Entries
  <1>37. Unflushed(fs) = Unflushed(es)
    <2>1. {x \in ToSet(fs) : ~ x.flushed} = {x \in ToSet(es) : ~ x.flushed}
      <3>1. \A x \in Entries : x = e => x.flushed /\ Now(x).flushed
        BY <1>8, <1>11
      <3>2. \A x \in Entries : x # e => Now(x) = x
        BY <1>10
      <3>. QED
        BY <1>3, <1>14, <3>1, <3>2
    <2>. QED
      BY <2>1 DEF Unflushed
  <1>38. MemoryAccounted'
    <2>. QED
      BY <1>1, <1>15, <1>18, <1>37, <1>m DEF DataInv, MemoryAccounted
  <1>39. DataInv'
    BY <1>20, <1>25, <1>26, <1>27, <1>28, <1>30, <1>31, <1>33, <1>34, <1>35, <1>36, <1>38
       DEF DataInv
  <1>. QED
    BY <1>18, <1>19, <1>39

--------------------------------------------------------------------------------
(* AddCollection: the entries it leaves. *)

(* What AddCollection makes of batch b: entry is new among the entries more, and
   the runs, up to the minimum that the task knows of, are merged.           *)
Adding(b, entry, more, runs, min) ==
    /\ b \in Chunked \ Delivered /\ b \in Batch
    /\ entry \in Entry /\ entry.batch = b /\ entry.coll = b
    /\ entry.flushed => entry.memory = 0
    /\ store[b] = Of({b})
    /\ more \in Seq(Entry) /\ InBatchOrder(more)
    /\ ToSet(more) = Entries \cup {entry}
    /\ RunsIn(runs, more) /\ min \in Int
    /\ \A i \in Taken(runs) : more[i].batch <= min
    /\ \A c \in Chunked \ (Delivered \cup {b}), d \in Delivered \cup {b} :
          c < d => min <= c

(* A batch not there yet does not divide what an entry owns. *)
OwnsAlike(b, more) ==
    /\ \A e \in Entries :
          Owned(BatchesOf(more), Delivered \cup {b}, e.batch) = OwnedBy(e)
    /\ Owned(BatchesOf(more), Delivered \cup {b}, b) = {b}
    /\ BatchesOf(more) \in SUBSET Int /\ IsFiniteSet(BatchesOf(more))
    /\ Delivered \cup {b} \in SUBSET Int
    /\ Delivered \cup {b} \in SUBSET Batch
    /\ \A e \in Entries : e.batch # b

(* A new entry owns its own batch and takes none from the others. *)
LEMMA OwnedMore ==
    ASSUME TypeOK, DataInv, NEW b, NEW entry, NEW more, NEW runs, NEW min,
           Adding(b, entry, more, runs, min)
    PROVE  OwnsAlike(b, more)
  <1> DEFINE B == BatchesOf(gstate.entries)
             M == BatchesOf(more)
  <1>1. /\ b \in Chunked /\ b \notin Delivered /\ entry.batch = b /\ b \in Batch
        /\ ToSet(more) = Entries \cup {entry} /\ more \in Seq(Entry)
    BY DEF Adding
  <1>2. /\ \A e \in Entries : e.batch \in Delivered
        /\ Delivered \subseteq Int /\ Delivered \subseteq Batch
    BY EntriesApart
  <1>3. b \in Int
    BY <1>1, TypesNow
  <1>4. B = {e.batch : e \in Entries} /\ M = B \cup {b}
    BY <1>1 DEF BatchesOf, Entries
  <1>5. B \subseteq Delivered /\ b \notin B
    BY <1>1, <1>2, <1>4
  <1>6. ASSUME NEW d \in Delivered, b < d
        PROVE  \E y \in B : b < y /\ y <= d
    <2>1. PICK e \in Entries : b < e.batch /\ e.batch <= d
      BY <1>1, <1>6 DEF DataInv, Separated
    <2>. QED
      BY <1>4, <2>1
  <1>7. \A e : OwnedBy(e) = Owned(B, Delivered, e.batch)
    BY DEF OwnedBy
  <1>8. M \in SUBSET Int /\ IsFiniteSet(M)
    BY <1>1, BatchesOfIs
  <1> HIDE DEF B, M
  <1>9. ASSUME NEW x \in B, NEW d
        PROVE  d \in Owned(M, Delivered \cup {b}, x) <=> d \in Owned(B, Delivered, x)
    <2>0. x \in Int /\ x # b
      BY <1>2, <1>5, <1>9
    <2>1. ASSUME d \in Owned(M, Delivered \cup {b}, x)  PROVE d \in Owned(B, Delivered, x)
      <3>1. d \in Delivered \cup {b} /\ x <= d /\ \A y \in M : y <= d => y <= x
        BY <2>1 DEF Owned
      <3>2. d # b
        <4>1. SUFFICES ASSUME d = b  PROVE FALSE
          OBVIOUS
        <4>2. b <= b /\ b \in M
          BY <1>3, <1>4
        <4>3. b <= x /\ x <= b
          BY <3>1, <4>1, <4>2
        <4>. QED
          BY <1>3, <2>0, <4>3
      <3>. QED
        BY <1>4, <3>1, <3>2 DEF Owned
    <2>2. ASSUME d \in Owned(B, Delivered, x)  PROVE d \in Owned(M, Delivered \cup {b}, x)
      <3>1. d \in Delivered /\ x <= d /\ \A y \in B : y <= d => y <= x
        BY <2>2 DEF Owned
      <3>2. d \in Int /\ d # b
        BY <1>1, <1>2, <3>1
      <3>3. b <= d => b <= x
        <4>1. SUFFICES ASSUME b <= d  PROVE b <= x
          OBVIOUS
        <4>2. b < d
          BY <1>3, <3>2, <4>1
        <4>3. PICK y \in B : b < y /\ y <= d
          BY <1>6, <3>1, <4>2
        <4>4. y <= x /\ y \in Int
          BY <1>2, <1>5, <3>1, <4>3
        <4>. QED
          BY <1>3, <2>0, <4>3, <4>4
      <3>. QED
        BY <1>4, <3>1, <3>3 DEF Owned
    <2>. QED
      BY <2>1, <2>2
  <1>10. \A e \in Entries : e.batch \in B
    BY <1>4
  <1>11. \A e \in Entries : Owned(M, Delivered \cup {b}, e.batch) = OwnedBy(e)
    <2>1. ASSUME NEW e \in Entries
          PROVE  Owned(M, Delivered \cup {b}, e.batch) = OwnedBy(e)
      <3>1. \A d : d \in Owned(M, Delivered \cup {b}, e.batch)
                   <=> d \in Owned(B, Delivered, e.batch)
        BY <1>9, <1>10
      <3>2. Owned(M, Delivered \cup {b}, e.batch) = Owned(B, Delivered, e.batch)
        BY <3>1
      <3>. QED
        BY <1>7, <3>2
    <2>. QED
      BY <2>1
  <1>12. Owned(M, Delivered \cup {b}, b) = {b}
    <2>1. b \in Owned(M, Delivered \cup {b}, b)
      BY <1>3 DEF Owned
    <2>2. ASSUME NEW d \in Owned(M, Delivered \cup {b}, b)  PROVE d = b
      <3>1. d \in Delivered \cup {b} /\ b <= d /\ \A y \in M : y <= d => y <= b
        BY <2>2 DEF Owned
      <3>2. SUFFICES ASSUME d # b  PROVE FALSE
        OBVIOUS
      <3>3. d \in Delivered /\ d \in Int /\ b < d
        BY <1>2, <1>3, <3>1, <3>2
      <3>4. PICK y \in B : b < y /\ y <= d
        BY <1>6, <3>3
      <3>5. y <= b /\ y \in Int
        BY <1>2, <1>4, <1>5, <3>1, <3>4
      <3>. QED
        BY <1>3, <3>4, <3>5
    <2>. QED
      BY <2>1, <2>2
  <1>. QED
    BY <1>1, <1>2, <1>3, <1>8, <1>11, <1>12 DEF M, OwnsAlike

(* The entries before any run is taken *)
EntryFits(b, entry, more, i) ==
    LET own == Owned(BatchesOf(more), Delivered \cup {b}, more[i].batch)
    IN  /\ more[i] = entry \/ more[i] \in Entries
        /\ more[i] \in Entry
        /\ more[i].batch \in Delivered \cup {b}
        /\ more[i].batch \in BatchesOf(more)
        /\ more[i].batch \in own
        /\ more[i].coll = 0 \/ more[i].coll = more[i].batch
        /\ ~ more[i].flushed => more[i].coll # 0
        /\ more[i].coll # 0 => store[more[i].coll] = Of(own)

(* With the new entry, every collection holds what its entry owns. *)
LEMMA MoreOk ==
    ASSUME TypeOK, DataInv, NEW b, NEW entry, NEW more, NEW runs, NEW min,
           Adding(b, entry, more, runs, min)
    PROVE  \A i \in DOMAIN more : EntryFits(b, entry, more, i)
  <1>. SUFFICES ASSUME NEW i \in DOMAIN more
                PROVE  EntryFits(b, entry, more, i)
    OBVIOUS
  <1>1. /\ more \in Seq(Entry) /\ ToSet(more) = Entries \cup {entry}
        /\ entry.batch = b /\ entry.coll = b /\ store[b] = Of({b}) /\ b \in Batch
    BY DEF Adding
  <1>2. more[i] \in Entry /\ more[i] \in ToSet(more)
    BY <1>1, SeqElements
  <1>3. b # 0
    BY <1>1, TypesNow
  <1>4. more[i].batch \in BatchesOf(more)
    BY <1>2 DEF BatchesOf
  <1>5. CASE more[i] = entry
    <2>1. Owned(BatchesOf(more), Delivered \cup {b}, more[i].batch) = {b}
      BY <1>1, <1>5, OwnedMore DEF OwnsAlike
    <2>. QED
      BY <1>1, <1>2, <1>3, <1>4, <1>5, <2>1 DEF EntryFits
  <1>6. CASE more[i] \in Entries
    <2>0. \A e \in Entries :
              Owned(BatchesOf(more), Delivered \cup {b}, e.batch) = OwnedBy(e)
      <3>1. OwnsAlike(b, more)
        BY OwnedMore
      <3>. QED
        BY <3>1 DEF OwnsAlike
    <2>1. Owned(BatchesOf(more), Delivered \cup {b}, more[i].batch) = OwnedBy(more[i])
      BY <1>6, <2>0
    <2>2. more[i].batch \in OwnedBy(more[i]) /\ more[i].batch \in Delivered
      BY <1>6, EntriesApart
    <2>3. /\ more[i].coll = 0 \/ more[i].coll = more[i].batch
          /\ ~ more[i].flushed => more[i].coll # 0
          /\ more[i].coll # 0 => store[more[i].coll] = Of(OwnedBy(more[i]))
      BY <1>6 DEF DataInv, EntriesOk, EntryContents
    <2>. QED
      BY <1>2, <1>4, <1>6, <2>1, <2>2, <2>3 DEF EntryFits
  <1>. QED
    BY <1>1, <1>2, <1>5, <1>6

(* The entries when the runs are taken *)
AfterSet(more, runs) == ToSet(EntriesAfter(more, runs))

OwnedIn(b, more, runs, x) ==
    Owned(BatchesOf(EntriesAfter(more, runs)), Delivered \cup {b}, x)

(* The entries after the runs: heads without a collection, and entries in no run. *)
LEMMA AfterEntry ==
    ASSUME TypeOK, DataInv, NEW b, NEW entry, NEW more, NEW runs, NEW min,
           Adding(b, entry, more, runs, min)
    PROVE  /\ EntriesAfter(more, runs) \in Seq(Entry)
           /\ InBatchOrder(EntriesAfter(more, runs))
           /\ \A e \in AfterSet(more, runs) :
                 \E i \in DOMAIN more \ Erased(runs) :
                    /\ e = Remains(more, runs, i) /\ e.batch = more[i].batch
                    /\ i \in Heads(runs) => e.coll = 0 /\ e.flushed
                    /\ i \notin Heads(runs) => e = more[i] /\ i \notin Taken(runs)
           /\ \A i \in DOMAIN more \ Erased(runs) : \E e \in AfterSet(more, runs) :
                    /\ e = Remains(more, runs, i) /\ e.batch = more[i].batch
                    /\ i \in Heads(runs) => e.coll = 0 /\ e.flushed
                    /\ i \notin Heads(runs) => e = more[i] /\ i \notin Taken(runs)
           /\ \A i, j \in DOMAIN more : more[i].batch = more[j].batch => i = j
           /\ \A i, j \in DOMAIN more : i < j => more[i].batch < more[j].batch
           /\ \A i, j \in DOMAIN more : i <= j => more[i].batch <= more[j].batch
  <1>1. /\ more \in Seq(Entry) /\ InBatchOrder(more) /\ RunsIn(runs, more)
    BY DEF Adding
  <1>2. Batches \in Nat
    BY TypesNow
  <1>3. /\ EntriesAfter(more, runs) \in Seq(Entry)
        /\ InBatchOrder(EntriesAfter(more, runs))
        /\ AfterSet(more, runs) = {Remains(more, runs, i) : i \in DOMAIN more \ Erased(runs)}
    BY <1>1, <1>2, AfterIs DEF AfterSet
  <1>4. Taken(runs) = Heads(runs) \cup Erased(runs)
    BY <1>1, RunsApart
  <1>5. ASSUME NEW i \in DOMAIN more \ Erased(runs)
        PROVE  LET e == Remains(more, runs, i)
               IN  /\ e.batch = more[i].batch
                   /\ i \in Heads(runs) => e.coll = 0 /\ e.flushed
                   /\ i \notin Heads(runs) => e = more[i] /\ i \notin Taken(runs)
    <2>1. more[i] \in Entry
      BY <1>1, SeqElements
    <2>2. /\ Pending(more[i]).batch = more[i].batch
          /\ Pending(more[i]).coll = 0 /\ Pending(more[i]).flushed
      BY <1>2, <2>1, PendingEntry
    <2>. QED
      BY <1>4, <2>2 DEF Remains
  <1>6. /\ \A i, j \in DOMAIN more : more[i].batch = more[j].batch => i = j
        /\ \A i, j \in DOMAIN more : i <= j => more[i].batch <= more[j].batch
    BY <1>1, OrderedApart
  <1>7. \A i, j \in DOMAIN more : i < j => more[i].batch < more[j].batch
    BY <1>1 DEF InBatchOrder
  <1>. QED
    BY <1>3, <1>5, <1>6, <1>7

(* What the entries own when the runs are taken *)
RunOwns(b, more, runs) ==
    /\ \A k \in DOMAIN runs :
          OwnedIn(b, more, runs, more[runs[k].first].batch)
             = UNION {Owned(BatchesOf(more), Delivered \cup {b}, more[i].batch) :
                         i \in runs[k].first..runs[k].last}
    /\ \A i \in DOMAIN more \ Taken(runs) :
          OwnedIn(b, more, runs, more[i].batch)
             = Owned(BatchesOf(more), Delivered \cup {b}, more[i].batch)

(* What EntriesAfter makes of what is owned. *)
LEMMA AfterOwned ==
    ASSUME TypeOK, DataInv, NEW b, NEW entry, NEW more, NEW runs, NEW min,
           Adding(b, entry, more, runs, min)
    PROVE  RunOwns(b, more, runs)
  <1>1. /\ more \in Seq(Entry) /\ InBatchOrder(more) /\ RunsIn(runs, more)
    BY DEF Adding
  <1>2. Batches \in Nat
    BY TypesNow
  <1>3. Delivered \cup {b} \in SUBSET Int
    BY OwnedMore DEF OwnsAlike
  <1>4. OwnsAfter(more, runs, Delivered \cup {b})
    BY <1>1, <1>2, <1>3, OwnedAfter
  <1>. QED
    BY <1>4 DEF OwnsAfter, RunOwns, OwnedIn

(* After the runs, too, every collection holds what its entry owns. *)
LEMMA AfterOk ==
    ASSUME TypeOK, DataInv, NEW b, NEW entry, NEW more, NEW runs, NEW min,
           Adding(b, entry, more, runs, min)
    PROVE  /\ \A e \in AfterSet(more, runs) :
                 /\ e.batch \in Delivered \cup {b}
                 /\ e.coll = 0 \/ e.coll = e.batch
                 /\ ~ e.flushed => e.coll # 0
                 /\ e.coll # 0 => store[e.coll] = Of(OwnedIn(b, more, runs, e.batch))
           /\ \A e, f \in AfterSet(more, runs) : e.batch = f.batch => e = f
  <1>1. ASSUME NEW e \in AfterSet(more, runs)
        PROVE  /\ e.batch \in Delivered \cup {b}
               /\ e.coll = 0 \/ e.coll = e.batch
               /\ ~ e.flushed => e.coll # 0
               /\ e.coll # 0 => store[e.coll] = Of(OwnedIn(b, more, runs, e.batch))
    <2>1. PICK i \in DOMAIN more \ Erased(runs) :
              /\ e.batch = more[i].batch
              /\ i \in Heads(runs) => e.coll = 0 /\ e.flushed
              /\ i \notin Heads(runs) => e = more[i] /\ i \notin Taken(runs)
      BY <1>1, AfterEntry
    <2>2. /\ more[i].batch \in Delivered \cup {b}
          /\ more[i].coll = 0 \/ more[i].coll = more[i].batch
          /\ ~ more[i].flushed => more[i].coll # 0
          /\ more[i].coll # 0 =>
                store[more[i].coll]
                   = Of(Owned(BatchesOf(more), Delivered \cup {b}, more[i].batch))
      <3>1. \A j \in DOMAIN more : EntryFits(b, entry, more, j)
        BY MoreOk
      <3>2. EntryFits(b, entry, more, i)
        BY <3>1
      <3>. QED
        BY <3>2 DEF EntryFits
    <2>3. CASE i \in Heads(runs)
      BY <2>1, <2>2, <2>3
    <2>4. CASE i \notin Heads(runs)
      <3>1. OwnedIn(b, more, runs, more[i].batch)
               = Owned(BatchesOf(more), Delivered \cup {b}, more[i].batch)
        <4>1. RunOwns(b, more, runs)
          BY AfterOwned
        <4>. QED
          BY <2>1, <2>4, <4>1 DEF RunOwns
      <3>. QED
        BY <2>1, <2>2, <2>4, <3>1
    <2>. QED
      BY <2>3, <2>4
  <1>2. ASSUME NEW e \in AfterSet(more, runs), NEW f \in AfterSet(more, runs),
               e.batch = f.batch
        PROVE  e = f
    <2>1. PICK i \in DOMAIN more \ Erased(runs) :
              e = Remains(more, runs, i) /\ e.batch = more[i].batch
      BY <1>2, AfterEntry
    <2>2. PICK j \in DOMAIN more \ Erased(runs) :
              f = Remains(more, runs, j) /\ f.batch = more[j].batch
      BY <1>2, AfterEntry
    <2>3. i = j
      BY <1>2, <2>1, <2>2, AfterEntry
    <2>. QED
      BY <2>1, <2>2, <2>3
  <1>. QED
    BY <1>1, <1>2

(* An entry up to the minimum is behind every batch yet to come, so what erased
   entries owned is still separated from it. *)
LEMMA AfterCovers ==
    ASSUME TypeOK, DataInv, NEW b, NEW entry, NEW more, NEW runs, NEW min,
           Adding(b, entry, more, runs, min), table = <<>>, ~ Finished
    PROVE  /\ \A c \in Chunked \ (Delivered \cup {b}), d \in Delivered \cup {b} :
                 c < d => \E e \in AfterSet(more, runs) : c < e.batch /\ e.batch <= d
           /\ \A d \in Delivered \cup {b} : \E e \in AfterSet(more, runs) : e.batch <= d
  <1>1. /\ more \in Seq(Entry) /\ ToSet(more) = Entries \cup {entry} /\ RunsIn(runs, more)
        /\ entry.batch = b /\ b \in Batch /\ min \in Int
        /\ \A i \in Taken(runs) : more[i].batch <= min
        /\ \A c \in Chunked \ (Delivered \cup {b}), d \in Delivered \cup {b} :
              c < d => min <= c
    BY DEF Adding
  <1>2. ToSet(more) = {more[i] : i \in DOMAIN more}
        /\ \A i \in DOMAIN more : more[i] \in Entry /\ i \in Nat
    BY <1>1, SeqElements
  <1>3. Batch = 1..Batches /\ Batches \in Nat /\ Delivered \subseteq Batch
        /\ Chunked \subseteq Batch
    BY TypesNow, EntriesApart DEF Chunked
  <1>4. \A i \in DOMAIN more : more[i].batch \in Int
    BY <1>2, <1>3 DEF Entry
  <1>5. \A i \in DOMAIN more \ Erased(runs) :
            \E e \in AfterSet(more, runs) : e.batch = more[i].batch
    BY AfterEntry
  <1>6. /\ Taken(runs) = Heads(runs) \cup Erased(runs)
        /\ Taken(runs) \subseteq DOMAIN more
        /\ Heads(runs) \cap Erased(runs) = {}
    BY <1>1, RunsApart
  <1>7. \A d \in Delivered \cup {b} : \E i \in DOMAIN more : more[i].batch <= d
    <2>1. ASSUME NEW d \in Delivered  PROVE \E i \in DOMAIN more : more[i].batch <= d
      <3>1. PICK e \in Entries : e.batch <= d
        BY DEF DataInv, Covered
      <3>. QED
        BY <1>1, <1>2, <3>1
    <2>2. \E i \in DOMAIN more : more[i].batch <= b
      <3>1. PICK i \in DOMAIN more : more[i] = entry
        BY <1>1, <1>2
      <3>2. b <= b
        BY <1>1, <1>3
      <3>. QED
        BY <1>1, <3>1, <3>2
    <2>. QED
      BY <2>1, <2>2
  <1>8. ASSUME NEW d \in Delivered \cup {b}
        PROVE  \E e \in AfterSet(more, runs) : e.batch <= d
    <2>1. PICK i \in DOMAIN more : more[i].batch <= d
      BY <1>7
    <2>2. CASE i \notin Erased(runs)
      BY <1>5, <2>1, <2>2
    <2>3. CASE i \in Erased(runs)
      <3>1. PICK k \in DOMAIN runs : i \in (runs[k].first + 1)..runs[k].last
        BY <2>3 DEF Erased
      <3>2. runs[k].first \in Heads(runs) /\ runs[k].first \in Nat /\ runs[k].last \in Nat
        BY <1>1, RunsApart DEF Heads
      <3>3. runs[k].first \in DOMAIN more \ Erased(runs) /\ runs[k].first <= i
        BY <1>6, <3>1, <3>2
      <3>4. more[runs[k].first].batch <= more[i].batch
        BY <3>3, AfterEntry
      <3>5. PICK e \in AfterSet(more, runs) : e.batch = more[runs[k].first].batch
        BY <1>5, <3>3
      <3>6. e.batch \in Int /\ more[i].batch \in Int /\ d \in Int
        BY <1>1, <1>3, <1>4, <3>3, <3>5
      <3>. QED
        BY <2>1, <3>4, <3>5, <3>6
    <2>. QED
      BY <2>2, <2>3
  <1>9. ASSUME NEW c \in Chunked \ (Delivered \cup {b}), NEW d \in Delivered \cup {b}, c < d
        PROVE  \E e \in AfterSet(more, runs) : c < e.batch /\ e.batch <= d
    <2>1. PICK i \in DOMAIN more : c < more[i].batch /\ more[i].batch <= d
      <3>1. CASE d = b
        <4>1. PICK i \in DOMAIN more : more[i] = entry
          BY <1>1, <1>2
        <4>2. b <= b
          BY <1>1, <1>3
        <4>. QED
          BY <1>1, <1>9, <3>1, <4>1, <4>2
      <3>2. CASE d # b
        <4>1. PICK e \in Entries : c < e.batch /\ e.batch <= d
          BY <1>9, <3>2 DEF DataInv, Separated
        <4>. QED
          BY <1>1, <1>2, <4>1
      <3>. QED
        BY <3>1, <3>2
    <2>2. i \notin Erased(runs)
      <3>1. SUFFICES ASSUME i \in Erased(runs)  PROVE FALSE
        OBVIOUS
      <3>2. more[i].batch <= min /\ min <= c
        BY <1>1, <1>6, <1>9, <3>1
      <3>3. c \in Int /\ more[i].batch \in Int
        BY <1>3, <1>4, <1>9
      <3>. QED
        BY <1>1, <2>1, <3>2, <3>3
    <2>. QED
      BY <1>5, <2>1, <2>2
  <1>. QED
    BY <1>8, <1>9

--------------------------------------------------------------------------------
(* AddCollection: the merge tasks. *)

(* The merge task m brings the entry of batch x all it owns. *)
FitsAfter(b, more, runs, m, x) ==
    LET own == OwnedIn(b, more, runs, x)
    IN  /\ m.colls # <<>> /\ m.colls[1] = x
        /\ ToSet(m.colls) \subseteq own
        /\ Contents(m.colls) = Of(own)

(* Every new merge task brings the head of its run what it owns. *)
LEMMA NewJobs ==
    ASSUME TypeOK, DataInv, NEW b, NEW entry, NEW more, NEW runs, NEW min,
           Adding(b, entry, more, runs, min), NEW k \in DOMAIN runs
    PROVE  LET m == MergeOf(more, runs[k])
           IN  /\ m \in Work /\ m.batch = more[runs[k].first].batch
               /\ FitsAfter(b, more, runs, m, m.batch)
  <1> DEFINE r == runs[k]
             m == MergeOf(more, r)
             n == r.last - r.first + 1
             own(i) == Owned(BatchesOf(more), Delivered \cup {b}, more[i].batch)
             P == [i \in 1..n |-> own(r.first + i - 1)]
  <1>1. more \in Seq(Entry) /\ RunsIn(runs, more) /\ InBatchOrder(more)
    BY DEF Adding
  <1>2. /\ runs \in Seq(Run)
        /\ r.first \in Nat /\ r.last \in Nat /\ r.first <= r.last
        /\ r.first..r.last \subseteq DOMAIN more
        /\ \A i \in r.first..r.last : ~ more[i].flushed
    BY <1>1, RunsApart
  <1>3. r \in Run
    BY <1>2, SeqElements
  <1>4. /\ m.batch = more[r.first].batch
        /\ m.colls \in [1..n -> 0..Batches]
        /\ \A i \in 1..n : m.colls[i] = more[r.first + i - 1].coll
        /\ m.memory \in Nat
        /\ m = [batch |-> m.batch, colls |-> m.colls, memory |-> m.memory]
    BY <1>1, <1>2, <1>3, MergeOfIs
  <1>5. /\ input \in Inputs /\ Batches \in Nat /\ Batch = 1..Batches
        /\ store \in [Batch -> Seq(Batch)]
    BY TypesNow
  <1>6. ASSUME NEW i \in r.first..r.last
        PROVE  /\ more[i].coll = more[i].batch /\ more[i].coll # 0
               /\ more[i].batch \in own(i) /\ more[i].batch \in BatchesOf(more)
               /\ more[i].batch \in Batch
               /\ store[more[i].coll] = Of(own(i))
    <2>1. i \in DOMAIN more /\ ~ more[i].flushed /\ more[i] \in Entry
      BY <1>1, <1>2, <1>6, SeqElements
    <2>2. \A j \in DOMAIN more : EntryFits(b, entry, more, j)
      BY MoreOk
    <2>3. EntryFits(b, entry, more, i)
      BY <2>1, <2>2
    <2>. QED
      BY <2>1, <2>3 DEF EntryFits, Entry
  <1>7. RunOwns(b, more, runs)
    BY AfterOwned
  <1>8. OwnedIn(b, more, runs, m.batch) = UNION {own(i) : i \in r.first..r.last}
    BY <1>4, <1>7 DEF RunOwns
  <1> HIDE DEF m
  <1>9. n \in Nat /\ 1 \in 1..n /\ \A i \in 1..n : r.first + i - 1 \in r.first..r.last
    BY <1>2
  <1>10. OwnsAlike(b, more)
    BY OwnedMore
  <1>11. /\ BatchesOf(more) \in SUBSET Int
         /\ Delivered \cup {b} \in SUBSET Int
    BY <1>10 DEF OwnsAlike
  <1>12. \A i, j \in DOMAIN more : i < j => more[i].batch < more[j].batch
    BY <1>1 DEF InBatchOrder
  <1>13. ASSUME NEW i \in r.first..r.last, NEW j \in r.first..r.last, i < j,
                NEW x \in own(i), NEW y \in own(j)
         PROVE  x < y
    <2>1. /\ more[i].batch \in BatchesOf(more) /\ more[j].batch \in BatchesOf(more)
          /\ more[i].batch < more[j].batch
      BY <1>2, <1>6, <1>12, <1>13
    <2>2. x \in Owned(BatchesOf(more), Delivered \cup {b}, more[i].batch)
          /\ y \in Owned(BatchesOf(more), Delivered \cup {b}, more[j].batch)
      BY <1>13
    <2>. QED
      BY <1>11, <2>1, <2>2, OwnedApart
  <1> HIDE DEF own
  <1>14. FlattenSeq([i \in 1..n |-> Of(P[i])]) = Of(UNION {P[i] : i \in 1..n})
    <2>1. \A i, j \in 1..n : i < j => \A x \in P[i], y \in P[j] : x < y
      <3>1. ASSUME NEW i \in 1..n, NEW j \in 1..n, i < j,
                   NEW x \in P[i], NEW y \in P[j]
            PROVE  x < y
        <4>1. /\ r.first + i - 1 \in r.first..r.last
              /\ r.first + j - 1 \in r.first..r.last
              /\ r.first + i - 1 < r.first + j - 1
          BY <1>2, <1>9, <3>1
        <4>2. x \in own(r.first + i - 1) /\ y \in own(r.first + j - 1)
          BY <3>1
        <4>. QED
          BY <1>13, <4>1, <4>2
      <3>. QED
        BY <3>1
    <2> HIDE DEF P, n
    <2>. QED
      BY <1>5, <1>9, <2>1, OfMany
  <1>15. UNION {P[i] : i \in 1..n} = UNION {own(i) : i \in r.first..r.last}
    <2>1. \A x : x \in UNION {P[i] : i \in 1..n} <=> \E i \in 1..n : x \in own(r.first + i - 1)
      OBVIOUS
    <2>2. \A i \in r.first..r.last : i - r.first + 1 \in 1..n
                                     /\ r.first + (i - r.first + 1) - 1 = i
      BY <1>2
    <2>. QED
      BY <1>9, <2>1, <2>2
  <1>16. Contents(m.colls) = FlattenSeq([i \in 1..n |-> Of(P[i])])
    <2>1. DOMAIN m.colls = 1..n
      BY <1>4
    <2>2. ASSUME NEW i \in 1..n
          PROVE  (IF m.colls[i] = 0 THEN <<>> ELSE store[m.colls[i]]) = Of(P[i])
      BY <1>4, <1>6, <1>9
    <2>3. [i \in DOMAIN m.colls |-> IF m.colls[i] = 0 THEN <<>> ELSE store[m.colls[i]]]
             = [i \in 1..n |-> Of(P[i])]
      <3> HIDE DEF P, n
      <3>. QED
        BY <2>1, <2>2
    <2>. QED
      BY <2>3 DEF Contents
  <1>17. m.colls \in Seq(Batch) /\ m.colls[1] = m.batch /\ m.batch \in Batch
    <2>1. \A i \in 1..n : m.colls[i] \in Batch
      BY <1>4, <1>6, <1>9
    <2>2. m.colls \in [1..n -> Batch]
      BY <1>4, <2>1
    <2>3. m.colls[1] = more[r.first].coll /\ r.first \in r.first..r.last
      <3>1. m.colls[1] = more[r.first + 1 - 1].coll
        BY <1>4, <1>9
      <3>2. r.first + 1 - 1 = r.first /\ r.first \in r.first..r.last
        BY <1>2
      <3>. QED
        BY <3>1, <3>2
    <2>4. m.colls[1] = m.batch /\ m.batch \in Batch
      BY <1>4, <1>6, <2>3
    <2> HIDE DEF n
    <2>. QED
      BY <1>9, <2>2, <2>4, SeqOfFunction
  <1>18. m.colls # <<>>
    BY <1>4, <1>9
  <1>19. ToSet(m.colls) \subseteq UNION {own(i) : i \in r.first..r.last}
    <2>1. ToSet(m.colls) = {m.colls[i] : i \in 1..n}
      BY <1>4, <1>17, SeqElements
    <2>2. \A i \in 1..n : m.colls[i] \in own(r.first + i - 1)
      BY <1>4, <1>6, <1>9
    <2>. QED
      BY <1>9, <2>1, <2>2
  <1>20. m \in Work
    <2>1. m.batch \in 0..Batches
      BY <1>5, <1>17
    <2>. QED
      BY <1>4, <1>17, <2>1 DEF Work
  <1>. QED
    BY <1>4, <1>8, <1>14, <1>15, <1>16, <1>17, <1>18, <1>19, <1>20 DEF FitsAfter, m

(* The new merge tasks as a sequence. *)
LEMMA MergesWork ==
    ASSUME TypeOK, DataInv, NEW b, NEW entry, NEW more, NEW runs, NEW min,
           Adding(b, entry, more, runs, min)
    PROVE  /\ Merges(more, runs) \in Seq(Work)
           /\ DOMAIN Merges(more, runs) = DOMAIN runs
           /\ \A k \in DOMAIN runs : Merges(more, runs)[k] = MergeOf(more, runs[k])
           /\ runs # <<>> => Merges(more, runs) # <<>>
           /\ \A m \in ToSet(Merges(more, runs)) : \E k \in DOMAIN runs :
                 /\ m = MergeOf(more, runs[k]) /\ m \in Work
                 /\ m.batch = more[runs[k].first].batch
                 /\ FitsAfter(b, more, runs, m, m.batch)
           /\ \A k \in DOMAIN runs : \E m \in ToSet(Merges(more, runs)) :
                 m.batch = more[runs[k].first].batch
  <1>1. more \in Seq(Entry) /\ RunsIn(runs, more)
    BY DEF Adding
  <1>2. runs \in Seq(Run)
    BY <1>1, RunsApart
  <1>3. Len(runs) \in Nat /\ DOMAIN runs = 1..Len(runs)
    BY <1>2, SeqElements
  <1>4. \A k \in DOMAIN runs : /\ MergeOf(more, runs[k]) \in Work
                               /\ MergeOf(more, runs[k]).batch = more[runs[k].first].batch
                               /\ FitsAfter(b, more, runs, MergeOf(more, runs[k]),
                                            MergeOf(more, runs[k]).batch)
    BY NewJobs
  <1>5. Merges(more, runs) \in [1..Len(runs) -> Work]
    BY <1>3, <1>4 DEF Merges
  <1>6. Merges(more, runs) \in Seq(Work)
    BY <1>3, <1>5, SeqOfFunction
  <1>7. /\ DOMAIN Merges(more, runs) = DOMAIN runs
        /\ \A k \in DOMAIN runs : Merges(more, runs)[k] = MergeOf(more, runs[k])
    BY DEF Merges
  <1>8. ToSet(Merges(more, runs)) = {Merges(more, runs)[k] : k \in DOMAIN runs}
    BY <1>6, <1>7, SeqElements
  <1>9. runs # <<>> => Merges(more, runs) # <<>>
    <2>1. SUFFICES ASSUME runs # <<>>, Merges(more, runs) = <<>>  PROVE FALSE
      OBVIOUS
    <2>2. 1 \in DOMAIN runs
      BY <1>2, <1>3, <2>1
    <2>. QED
      BY <1>7, <2>1, <2>2
  <1>. QED
    BY <1>4, <1>6, <1>7, <1>8, <1>9

(* An entry that waits for a merge already is in no run. *)
LEMMA OldJobs ==
    ASSUME TypeOK, DataInv, NEW b, NEW entry, NEW more, NEW runs, NEW min,
           Adding(b, entry, more, runs, min), NEW e \in Entries, e.coll = 0
    PROVE  /\ e \in AfterSet(more, runs)
           /\ OwnedIn(b, more, runs, e.batch) = OwnedBy(e)
           /\ \A k \in DOMAIN runs : more[runs[k].first].batch # e.batch
  <1>1. /\ more \in Seq(Entry) /\ RunsIn(runs, more) /\ InBatchOrder(more)
        /\ ToSet(more) = Entries \cup {entry}
    BY DEF Adding
  <1>2. PICK i \in DOMAIN more : more[i] = e
    BY <1>1, SeqElements
  <1>3. e.flushed
    BY DEF DataInv, EntriesOk
  <1>4. /\ Taken(runs) = Heads(runs) \cup Erased(runs)
        /\ \A j \in Taken(runs) : ~ more[j].flushed
        /\ \A k \in DOMAIN runs : runs[k].first \in Heads(runs)
        /\ Taken(runs) \subseteq DOMAIN more
    BY <1>1, RunsApart DEF Heads
  <1>5. i \notin Taken(runs)
    BY <1>2, <1>3, <1>4
  <1>6. e \in AfterSet(more, runs)
    <2>1. i \in DOMAIN more \ Erased(runs) /\ i \notin Heads(runs)
      BY <1>4, <1>5
    <2>2. PICK f \in AfterSet(more, runs) : f = more[i]
      BY <2>1, AfterEntry
    <2>. QED
      BY <1>2, <2>2
  <1>7. RunOwns(b, more, runs) /\ OwnsAlike(b, more)
    BY AfterOwned, OwnedMore
  <1>8. OwnedIn(b, more, runs, e.batch) = OwnedBy(e)
    BY <1>2, <1>5, <1>7 DEF RunOwns, OwnsAlike
  <1>9. \A j \in DOMAIN more : more[j].batch = more[i].batch => j = i
    BY AfterEntry
  <1>10. \A k \in DOMAIN runs : more[runs[k].first].batch # e.batch
    BY <1>2, <1>4, <1>5, <1>9
  <1>. QED
    BY <1>6, <1>8, <1>10

(* The entries that wait are the old ones and the heads of the runs. *)
LEMMA PendingBatches ==
    ASSUME TypeOK, DataInv, NEW b, NEW entry, NEW more, NEW runs, NEW min,
           Adding(b, entry, more, runs, min)
    PROVE  {x.batch : x \in {y \in AfterSet(more, runs) : y.coll = 0}}
              = {x.batch : x \in {y \in Entries : y.coll = 0}}
                   \cup {m.batch : m \in ToSet(Merges(more, runs))}
  <1>1. /\ more \in Seq(Entry) /\ RunsIn(runs, more)
        /\ ToSet(more) = Entries \cup {entry} /\ entry.coll = b /\ b \in Batch
    BY DEF Adding
  <1>2. /\ Heads(runs) \cap Erased(runs) = {} /\ Heads(runs) \subseteq DOMAIN more
    BY <1>1, RunsApart
  <1>3. b # 0
    BY <1>1, TypesNow
  <1>4. ASSUME NEW y \in AfterSet(more, runs), y.coll = 0
        PROVE  \/ \E e \in Entries : e.coll = 0 /\ e.batch = y.batch
               \/ \E m \in ToSet(Merges(more, runs)) : m.batch = y.batch
    <2>1. PICK i \in DOMAIN more \ Erased(runs) :
              /\ y.batch = more[i].batch
              /\ i \notin Heads(runs) => y = more[i]
      BY <1>4, AfterEntry
    <2>2. CASE i \in Heads(runs)
      <3>1. PICK k \in DOMAIN runs : i = runs[k].first
        BY <2>2 DEF Heads
      <3>2. PICK m \in ToSet(Merges(more, runs)) : m.batch = more[runs[k].first].batch
        BY MergesWork
      <3>. QED
        BY <2>1, <3>1, <3>2
    <2>3. CASE i \notin Heads(runs)
      <3>1. more[i] \in Entries \cup {entry}
        BY <1>1, SeqElements
      <3>. QED
        BY <1>1, <1>3, <1>4, <2>1, <2>3, <3>1
    <2>. QED
      BY <2>2, <2>3
  <1>5. ASSUME NEW e \in Entries, e.coll = 0
        PROVE  \E y \in AfterSet(more, runs) : y.coll = 0 /\ y.batch = e.batch
    BY <1>5, OldJobs
  <1>6. ASSUME NEW m \in ToSet(Merges(more, runs))
        PROVE  \E y \in AfterSet(more, runs) : y.coll = 0 /\ y.batch = m.batch
    <2>1. PICK k \in DOMAIN runs : m.batch = more[runs[k].first].batch
      BY <1>6, MergesWork
    <2>2. runs[k].first \in Heads(runs)
      BY DEF Heads
    <2>3. runs[k].first \in DOMAIN more \ Erased(runs)
      BY <1>2, <2>2
    <2>4. PICK y \in AfterSet(more, runs) :
              y.batch = more[runs[k].first].batch /\ y.coll = 0
      BY <2>2, <2>3, AfterEntry
    <2>. QED
      BY <2>1, <2>4
  <1>. QED
    BY <1>4, <1>5, <1>6

(* The memory of the new entry is accounted for. *)
LEMMA AddMemory ==
    ASSUME TypeOK, DataInv, NEW b, NEW entry, NEW more, NEW runs, NEW min,
           Adding(b, entry, more, runs, min)
    PROVE  /\ Unflushed(gstate.entries) + entry.memory
                 = Unflushed(EntriesAfter(more, runs)) + SumOf(ToSet(Merges(more, runs)))
           /\ Unflushed(gstate.entries) \in Nat /\ entry.memory \in Nat
           /\ Unflushed(EntriesAfter(more, runs)) \in Nat
           /\ SumOf(ToSet(Merges(more, runs))) \in Nat
           /\ Weighed(ToSet(Merges(more, runs)))
  <1>1. /\ more \in Seq(Entry) /\ RunsIn(runs, more) /\ InBatchOrder(more)
        /\ ToSet(more) = Entries \cup {entry} /\ entry \in Entry
        /\ entry.batch = b /\ (entry.flushed => entry.memory = 0)
    BY DEF Adding
  <1>2. Batches \in Nat /\ gstate.entries \in Seq(Entry)
    BY TypesNow
  <1>3. entry.memory \in Nat
    BY <1>1 DEF Entry
  <1> DEFINE S == {e \in ToSet(gstate.entries) : ~ e.flushed}
             T == {e \in ToSet(more) : ~ e.flushed}
  <1>4. Weighed(S) /\ Weighed(T)
    BY <1>1, <1>2, EntriesWeighed
  <1>5. entry \notin Entries
    <2>1. OwnsAlike(b, more)
      BY OwnedMore
    <2>. QED
      BY <1>1, <2>1 DEF OwnsAlike
  <1>6. T = IF entry.flushed THEN S ELSE S \cup {entry}
    BY <1>1 DEF Entries
  <1>7. entry \notin S
    BY <1>5 DEF Entries
  <1> HIDE DEF S, T
  <1>8. SumOf(S) \in Nat /\ SumOf(T) \in Nat
    BY <1>4, SumOfIs
  <1>9. SumOf(T) = SumOf(S) + entry.memory
    <2>1. CASE entry.flushed
      BY <1>1, <1>6, <1>8, <2>1
    <2>2. CASE ~ entry.flushed
      <3>1. Weighed({entry}) /\ SumOf({entry}) = entry.memory
        BY <1>3, SumOne
      <3>2. S \cap {entry} = {}
        BY <1>7
      <3>3. SumOf(S \cup {entry}) = SumOf(S) + SumOf({entry})
        BY <1>4, <3>1, <3>2, SumUnion
      <3>. QED
        BY <1>6, <2>2, <3>1, <3>3
    <2>. QED
      BY <2>1, <2>2
  <1>10. Unflushed(more) = Unflushed(EntriesAfter(more, runs))
                              + SumOf(ToSet(Merges(more, runs)))
    BY <1>1, <1>2, MemorySplits
  <1>11. Weighed(ToSet(Merges(more, runs)))
    BY <1>1, MergesSum
  <1>12. SumOf(ToSet(Merges(more, runs))) \in Nat
    BY <1>11, SumOfIs
  <1>13. Unflushed(EntriesAfter(more, runs)) \in Nat
    <2>1. EntriesAfter(more, runs) \in Seq(Entry)
      BY AfterEntry
    <2>2. Weighed({e \in ToSet(EntriesAfter(more, runs)) : ~ e.flushed})
      BY <2>1, EntriesWeighed
    <2>. QED
      BY <2>2, SumOfIs DEF Unflushed
  <1>14. Unflushed(gstate.entries) = SumOf(S) /\ Unflushed(more) = SumOf(T)
    BY DEF Unflushed, S, T
  <1>. QED
    BY <1>3, <1>8, <1>9, <1>10, <1>11, <1>12, <1>13, <1>14

(* A flushed entry is old, large or the head of a run. *)
LEMMA AfterFlushed ==
    ASSUME TypeOK, DataInv, NEW b, NEW entry, NEW more, NEW runs, NEW min,
           Adding(b, entry, more, runs, min),
           NEW e \in AfterSet(more, runs), e.flushed
    PROVE  runs # <<>> \/ entry.flushed \/ \E f \in Entries : f.flushed
  <1>1. /\ more \in Seq(Entry) /\ ToSet(more) = Entries \cup {entry}
    BY DEF Adding
  <1>2. PICK i \in DOMAIN more \ Erased(runs) : i \notin Heads(runs) => e = more[i]
    BY AfterEntry
  <1>3. CASE i \in Heads(runs)
    BY <1>3 DEF Heads
  <1>4. CASE i \notin Heads(runs)
    <2>1. e \in Entries \cup {entry}
      BY <1>1, <1>2, <1>4, SeqElements
    <2>. QED
      BY <2>1
  <1>. QED
    BY <1>3, <1>4

--------------------------------------------------------------------------------
(* AddCollection: what the task adds. *)

(* What AddCollection computes *)
AddRows(t) == Rows(store[lstate[t].coll])

AddEntry(t) ==
    [batch |-> lstate[t].current, rows |-> AddRows(t), coll |-> lstate[t].coll,
     memory |-> IF AddRows(t) >= RowGroupSize THEN 0 ELSE AddRows(t),
     flushed |-> AddRows(t) >= RowGroupSize]

AddMore(t) ==
    LET before == {i \in DOMAIN gstate.entries :
                      gstate.entries[i].batch < lstate[t].current}
    IN  InsertAt(gstate.entries, Cardinality(before) + 1, AddEntry(t))

AddWalk(t) == Runs(AddMore(t), lstate[t].min)

AddRuns(t) == AddWalk(t).runs

AddThrows(t) ==
    \/ lstate[t].current < lstate[t].min
    \/ \E e \in Entries : e.batch = lstate[t].current
    \/ \E k \in DOMAIN AddRuns(t) : \E i \in AddRuns(t)[k].first..AddRuns(t)[k].last :
          AddMore(t)[i].coll = 0 \/ AddMore(t)[i].flushed

(* AddCollection by these names. *)
LEMMA AddCollectionIs ==
    ASSUME NEW t \in Task, AddCollection(t)
    PROVE  /\ pc[t] = "add" /\ Goto(t, "wake")
           /\ UNCHANGED <<input, handed, active, lstate, store, table>>
           /\ memory' = [memory EXCEPT !.used = @ + AddEntry(t).memory]
           /\ gstate' = [gstate EXCEPT
                            !.count = @ + AddRows(t),
                            !.entries = EntriesAfter(AddMore(t), AddRuns(t)),
                            !.nextStart = AddWalk(t).next,
                            !.queue = @ \o Merges(AddMore(t), AddRuns(t))]
           /\ ~ AddThrows(t) => thrown' = thrown
  <1>1. pc[t] = "add" /\ Goto(t, "wake")
        /\ UNCHANGED <<input, handed, active, lstate, store, table>>
    BY DEF AddCollection
  <1>2. memory' = [memory EXCEPT !.used = @ + AddEntry(t).memory]
    BY DEF AddCollection, AddEntry, AddRows
  <1>3. gstate' = [gstate EXCEPT
                            !.count = @ + AddRows(t),
                            !.entries = EntriesAfter(AddMore(t), AddRuns(t)),
                            !.nextStart = AddWalk(t).next,
                            !.queue = @ \o Merges(AddMore(t), AddRuns(t))]
    BY DEF AddCollection, AddEntry, AddRows, AddMore, AddRuns, AddWalk, Merges
  <1>4. thrown' = thrown
          \cup {x \in {"smaller than the min batch index"} : lstate[t].current < lstate[t].min}
          \cup {x \in {"present in multiple collections"} :
                    \E e \in ToSet(gstate.entries) : e.batch = lstate[t].current}
          \cup {x \in {"should not be flushed"} :
                    \E k \in DOMAIN AddRuns(t) :
                       \E i \in AddRuns(t)[k].first..AddRuns(t)[k].last :
                           AddMore(t)[i].coll = 0 \/ AddMore(t)[i].flushed}
    BY DEF AddCollection, AddEntry, AddRows, AddMore, AddRuns, AddWalk
  <1>5. ~ AddThrows(t) => thrown' = thrown
    BY <1>4 DEF AddThrows, Entries
  <1>. QED
    BY <1>1, <1>2, <1>3, <1>5

(* Where the task is *)
LEMMA AddPhase ==
    ASSUME TaskInv, NEW t \in Task, pc[t] = "add"
    PROVE  LET b == lstate[t].coll
           IN  /\ b # 0 /\ b = lstate[t].current /\ active[t] = b /\ b < lstate[t].batch
               /\ b \in Batch /\ b \in Chunked /\ b \notin Delivered /\ b <= handed
               /\ b \in Held(t) /\ Collecting(t)
               /\ lstate[t].left = IF lstate[t].batch \in Batch
                                   THEN input.chunks[lstate[t].batch] ELSE 0
               /\ lstate[t].batch # 0
               /\ lstate[t].min \in Int /\ lstate[t].min <= b
               /\ \A c \in Chunked \ (Delivered \cup {b}), d \in Delivered \cup {b} :
                     c < d => lstate[t].min <= c
  <1> DEFINE b == lstate[t].coll
  <1>0. TypeOK /\ IInv /\ AtNextBatch(t) /\ AtStart(t)
    BY TaskFacts
  <1>1. /\ b # 0 /\ b = lstate[t].current /\ active[t] = b /\ b < lstate[t].batch
        /\ lstate[t].left = IF lstate[t].batch \in Batch
                            THEN input.chunks[lstate[t].batch] ELSE 0
        /\ lstate[t].batch # 0
    <2>1. InNextBatch(t) /\ pc[t] \in {"add", "wake"}
      BY DEF InNextBatch, Moving
    <2>. QED
      BY <1>0, <2>1 DEF AtNextBatch
  <1>2. /\ b \in 0..Batches /\ lstate[t].min \in 0..MaxBatchIndex
        /\ Batches \in Nat /\ MaxBatchIndex = Batches + 1 /\ Batch = 1..Batches
        /\ handed \in 0..Batches
    BY <1>0, LocalTyped
  <1>3. b \in Batch
    BY <1>1, <1>2
  <1>4. Collecting(t)
    BY <1>1 DEF Collecting
  <1>5. b \in Held(t)
    BY <1>3, <1>4 DEF Held
  <1>6. b \in Chunked /\ b <= handed
    BY <1>5, HeldFacts
  <1>7. b \notin Delivered
    BY <1>5 DEF Delivered
  <1>8. \A u \in Task : pc[u] # "start" => lstate[t].min <= active[u]
    BY <1>0 DEF IInv, RegisteredAtStart, Registered, KnownBehind
  <1>9. lstate[t].min <= b
    BY <1>1, <1>8
  <1>10. ASSUME NEW c \in Chunked \ (Delivered \cup {b}), NEW d \in Delivered \cup {b}, c < d
         PROVE  lstate[t].min <= c
    <2>1. d <= handed
      BY <1>6, <1>10 DEF Delivered
    <2>2. c \in Int /\ d \in Int /\ c \in Batch
      BY <1>2, <1>3 DEF Delivered, Chunked
    <2>3. c <= handed
      BY <1>2, <1>10, <2>1, <2>2
    <2>4. PICK u \in Task : c \in Held(u)
      BY <1>10, <2>3 DEF Delivered
    <2>5. pc[u] # "start"
      <3>1. AtStart(u)
        BY TaskFacts
      <3>. QED
        BY <2>4, <3>1 DEF AtStart, Held, Collecting
    <2>6. active[u] <= c /\ lstate[t].min <= active[u]
      BY <1>8, <2>4, <2>5, HeldFacts
    <2>7. active[u] \in Int
      <3>1. active \in [Task -> {Unregistered} \cup 0..MaxBatchIndex]
        BY <1>0 DEF IInv, IndexesTyped
      <3>2. active[u] \in {Unregistered} \cup 0..MaxBatchIndex
        BY <3>1
      <3>. QED
        BY <1>2, <3>2 DEF Unregistered
    <2>. QED
      BY <1>2, <2>2, <2>6, <2>7
  <1> HIDE DEF b
  <1>11. lstate[t].min \in Int
    BY <1>2
  <1>. QED
    BY <1>1, <1>3, <1>4, <1>5, <1>6, <1>7, <1>9, <1>10, <1>11 DEF b

(* What AddCollection adds is new, in order and within the minimum: nothing is
   thrown. *)
LEMMA AddIsAdding ==
    ASSUME TaskInv, DataInv, NEW t \in Task, pc[t] = "add"
    PROVE  /\ Adding(lstate[t].coll, AddEntry(t), AddMore(t), AddRuns(t), lstate[t].min)
           /\ ~ AddThrows(t)
           /\ AddRows(t) \in Nat /\ AddWalk(t).next \in Nat
  <1> DEFINE b == lstate[t].coll
             l == lstate[t]
             entry == AddEntry(t)
             more == AddMore(t)
             runs == AddRuns(t)
  <1>0. TypeOK
    BY TaskFacts
  <1>1. /\ b # 0 /\ b = l.current /\ b < l.batch
        /\ b \in Batch /\ b \in Chunked /\ b \notin Delivered
        /\ Collecting(t)
        /\ l.min \in Int /\ l.min <= b
        /\ \A c \in Chunked \ (Delivered \cup {b}), d \in Delivered \cup {b} :
              c < d => l.min <= c
    BY AddPhase
  <1>2. /\ input \in Inputs /\ Batches \in Nat /\ Batch = 1..Batches
        /\ store \in [Batch -> Seq(Batch)]
        /\ gstate.entries \in Seq(Entry) /\ gstate.nextStart \in Nat
    BY <1>0, TypesNow
  <1>3. store[b] = Of({b})
    <2>1. store[b] = Collected(t)
      BY <1>1 DEF DataInv, StoreOfTasks
    <2>2. l.batch \in 0..MaxBatchIndex /\ input.chunks[b] \in Nat
      BY <1>0, <1>1, LocalTyped
    <2>3. b # l.batch
      BY <1>1, <1>2, <2>2
    <2>4. Collected(t) = [k \in 1..(input.chunks[b] - 0) |-> b]
      BY <2>3 DEF Collected
    <2>5. Collected(t) = Repeated(b)
      BY <2>2, <2>4 DEF Repeated
    <2>6. Of({b}) = Repeated(b)
      BY <1>1, <1>2, OfOne
    <2>. QED
      BY <2>1, <2>5, <2>6
  <1>4. AddRows(t) \in Nat
    <2>1. store[b] \in Seq(Batch)
      BY <1>1, <1>2
    <2>. QED
      BY <1>2, <2>1, RowsNat DEF AddRows
  <1>5. /\ entry.batch = b /\ entry.coll = b
        /\ (entry.flushed => entry.memory = 0)
        /\ entry \in Entry
    <2>1. b \in 0..Batches /\ l.current \in Batch
      BY <1>1, <1>2
    <2>2. (IF AddRows(t) >= RowGroupSize THEN 0 ELSE AddRows(t)) \in Nat
      BY <1>4
    <2>3. (AddRows(t) >= RowGroupSize) \in BOOLEAN
      BY <1>4, SizesAssumption
    <2>4. entry \in Entry
      BY <1>4, <2>1, <2>2, <2>3 DEF AddEntry, Entry
    <2>5. entry.flushed => entry.memory = 0
      BY DEF AddEntry
    <2>. QED
      BY <1>1, <2>4, <2>5 DEF AddEntry
  <1> HIDE DEF entry
  <1>6. \A e \in Entries : e.batch # b /\ e.batch # entry.batch
    <2>1. \A e \in Entries : e.batch \in Delivered
      BY <1>0, EntriesApart
    <2>. QED
      BY <1>1, <1>5, <2>1
  <1>7. InBatchOrder(gstate.entries)
    BY DEF DataInv, EntriesOk
  <1>8. /\ more \in Seq(Entry) /\ InBatchOrder(more)
        /\ ToSet(more) = Entries \cup {entry}
    <2>1. more = LET before == {i \in DOMAIN gstate.entries :
                                   gstate.entries[i].batch < entry.batch}
                 IN  InsertAt(gstate.entries, Cardinality(before) + 1, entry)
      BY <1>1, <1>5 DEF AddMore, entry
    <2> HIDE DEF more
    <2>. QED
      BY <1>2, <1>5, <1>6, <1>7, <2>1, InsertInOrder DEF Entries
  <1> HIDE DEF more
  <1>9. /\ AddWalk(t).next \in Nat
        /\ \E last \in Nat :
              /\ RunsOf(runs, more, gstate.nextStart, last)
              /\ \A j \in (gstate.nextStart + 1)..last :
                    j \in DOMAIN more /\ more[j].batch <= l.min
    BY <1>2, <1>8, RunsFound DEF AddRuns, AddWalk, more
  <1> HIDE DEF runs
  <1>10. PICK last \in Nat :
              /\ RunsOf(runs, more, gstate.nextStart, last)
              /\ \A j \in (gstate.nextStart + 1)..last :
                    j \in DOMAIN more /\ more[j].batch <= l.min
    BY <1>9
  <1>11. RunsIn(runs, more)
    BY <1>2, <1>10 DEF RunsIn
  <1>12. \A i \in Taken(runs) : more[i].batch <= l.min
    <2>1. ASSUME NEW i \in Taken(runs)  PROVE more[i].batch <= l.min
      <3>1. PICK k \in DOMAIN runs : i \in runs[k].first..runs[k].last
        BY <2>1 DEF Taken
      <3>2. runs[k].first \in Nat /\ runs[k].last \in Nat
        BY <1>8, <1>11, RunsApart
      <3>3. gstate.nextStart < runs[k].first /\ runs[k].last <= last
        BY <1>10 DEF RunsOf
      <3>4. i \in (gstate.nextStart + 1)..last
        BY <1>2, <3>1, <3>2, <3>3
      <3>. QED
        BY <1>10, <3>4
    <2>. QED
      BY <2>1
  <1>13. Adding(b, entry, more, runs, l.min)
    BY <1>1, <1>3, <1>5, <1>8, <1>11, <1>12 DEF Adding
  <1>14. ~ AddThrows(t)
    <2>1. ~ (l.current < l.min)
      <3>1. l.current \in Int
        BY <1>1, <1>2
      <3>. QED
        BY <1>1, <3>1
    <2>2. ~ \E e \in Entries : e.batch = l.current
      BY <1>1, <1>6
    <2>3. ASSUME NEW k \in DOMAIN runs, NEW i \in runs[k].first..runs[k].last
          PROVE  more[i].coll # 0 /\ ~ more[i].flushed
      <3>1. /\ i \in DOMAIN more /\ ~ more[i].flushed
        BY <1>8, <1>11, <2>3, RunsApart
      <3>2. \A j \in DOMAIN more : EntryFits(b, entry, more, j)
        BY <1>0, <1>13, MoreOk
      <3>3. EntryFits(b, entry, more, i)
        BY <3>1, <3>2
      <3>. QED
        BY <3>1, <3>3 DEF EntryFits
    <2>. QED
      BY <2>1, <2>2, <2>3 DEF AddThrows, runs, more
  <1>. QED
    BY <1>4, <1>9, <1>13, <1>14 DEF entry, more, runs

(* What AddCollection changes of the tasks *)
AddedTasks(t) ==
    /\ StepOf(t) /\ Phases' /\ HeldOnce'
    /\ UNCHANGED <<lstate, store, table, thrown>>
    /\ Delivered' = Delivered \cup {lstate[t].coll}
    /\ ~ Collecting(t)'
    /\ pc[t] = "add" /\ pc'[t] = "wake"
    /\ Task' = Task /\ Batch' = Batch /\ Chunked' = Chunked
    /\ \A S : Of(S)' = Of(S)
    /\ Serves(t)'
    /\ ~ Finished
    /\ {u \in Task : pc'[u] = "merge"} = {u \in Task : pc[u] = "merge"}
    /\ {u \in Task : pc'[u] \in {"merge", "publish"}}
          = {u \in Task : pc[u] \in {"merge", "publish"}}

(* The task delivers the batch of its collection. *)
LEMMA AddTasks ==
    ASSUME TaskInv, DataInv, NEW t \in Task, AddCollection(t)
    PROVE  AddedTasks(t)
  <1> DEFINE b == lstate[t].coll
  <1>0. TypeOK /\ pc \in [Task -> Control]
    BY TaskFacts
  <1>1. /\ pc[t] = "add" /\ Goto(t, "wake")
        /\ input' = input /\ handed' = handed /\ active' = active /\ lstate' = lstate
        /\ UNCHANGED <<lstate, store, table, thrown>>
    <2>1. pc[t] = "add" /\ Goto(t, "wake")
          /\ UNCHANGED <<input, handed, active, lstate, store, table>>
          /\ (~ AddThrows(t) => thrown' = thrown)
      BY AddCollectionIs
    <2>2. ~ AddThrows(t)
      BY <2>1, AddIsAdding
    <2>. QED
      BY <2>1, <2>2
  <1>2. /\ b # 0 /\ b = lstate[t].current /\ b < lstate[t].batch
        /\ b \in Batch /\ b \in Chunked /\ b \notin Delivered /\ b <= handed
        /\ b \in Held(t) /\ Collecting(t)
        /\ lstate[t].left = IF lstate[t].batch \in Batch
                            THEN input.chunks[lstate[t].batch] ELSE 0
        /\ lstate[t].batch # 0
    BY <1>1, AddPhase
  <1>3. /\ pc' \in [Task -> Control] /\ pc'[t] = "wake"
        /\ \A u \in Task \ {t} :
              pc'[u] = pc[u] \/ (pc[u] = "blocked" /\ pc'[u] = "sink")
    BY <1>0, <1>1, GoesOn DEF Control
  <1>4. StepOf(t)
    BY <1>1, <1>3 DEF StepOf, Undisturbed
  <1>5. /\ Task' = Task /\ Batch' = Batch /\ Chunked' = Chunked
        /\ \A S : Of(S)' = Of(S)
    BY <1>1, StatementKept
  <1>6. ~ Collecting(t)'
    BY <1>3 DEF Collecting
  <1>7. Held(t)' = Held(t) \ {b}
    <2>1. lstate[t].batch # b
      <3>1. lstate[t].batch \in 0..MaxBatchIndex /\ b \in 0..Batches
            /\ Batches \in Nat /\ MaxBatchIndex = Batches + 1
        BY <1>0, LocalTyped
      <3>. QED
        BY <1>2, <3>1
    <2>2. Held(t)' = {x \in Batch : lstate[t].left > 0 /\ x = lstate[t].batch}
      BY <1>1, <1>5, <1>6 DEF Held
    <2>3. Held(t) = {x \in Batch : x = b \/ (lstate[t].left > 0 /\ x = lstate[t].batch)}
      BY <1>2 DEF Held
    <2>. QED
      BY <2>1, <2>2, <2>3
  <1>8. PhaseOf(t)'
    <2>1. AtNextBatch(t)'
      BY <1>1, <1>2, <1>3, <1>5 DEF AtNextBatch
    <2>2. AtStart(t)' /\ AtFetch(t)' /\ AtEnd(t)'
      BY <1>3 DEF AtStart, AtFetch, AtEnd, Ending
    <2>3. AtSink(t)'
      BY <1>3 DEF AtSink, InSink, Sinking, Draining
    <2>. QED
      BY <2>1, <2>2, <2>3 DEF PhaseOf
  <1>9. Phases' /\ HeldOnce'
    <2>1. handed \in Int /\ Chunked \subseteq Int /\ handed <= handed'
      BY <1>1, HeldFacts
    <2>2. \A x \in Held(t)' : /\ x \in Chunked /\ x <= handed' /\ active'[t] <= x
                              /\ \A u \in Task \ {t} : x \notin Held(u)
      BY <1>1, <1>7, HeldFacts
    <2>. QED
      BY <1>1, <1>4, <1>8, <2>1, <2>2, TasksKept DEF TaskInv
  <1>10. Delivered' = Delivered \cup {b}
    <2>1. \A u \in Task \ {t} : Held(u)' = Held(u) /\ b \notin Held(u)
      BY <1>2, <1>4, OthersKept, HeldFacts
    <2>2. Delivered' = {x \in Chunked : x <= handed /\ \A u \in Task : x \notin Held(u)'}
      BY <1>1, <1>5 DEF Delivered
    <2>3. \A x : x # b => ((\A u \in Task : x \notin Held(u)') <=> \A u \in Task : x \notin Held(u))
      BY <1>7, <2>1
    <2>4. b \in Delivered'
      BY <1>2, <1>7, <2>1, <2>2
    <2>5. \A x : x # b => (x \in Delivered' <=> x \in Delivered)
      BY <2>2, <2>3 DEF Delivered
    <2>. QED
      BY <2>4, <2>5
  <1>11. Serves(t)' /\ ~ Finished
    BY <1>1, <1>3 DEF Serves, Finished
  <1>12. \A u \in Task : /\ pc'[u] = "merge" <=> pc[u] = "merge"
                         /\ pc'[u] = "publish" <=> pc[u] = "publish"
    BY <1>1, <1>3
  <1>. QED
    BY <1>1, <1>3, <1>4, <1>5, <1>6, <1>9, <1>10, <1>11, <1>12 DEF AddedTasks

(* What AddCollection changes of the global sink state *)
AddedState(t) ==
    /\ gstate' \in GlobalState
    /\ gstate'.entries = EntriesAfter(AddMore(t), AddRuns(t))
    /\ gstate'.queue = gstate.queue \o Merges(AddMore(t), AddRuns(t))
    /\ gstate'.written = gstate.written
    /\ gstate'.count = gstate.count + AddRows(t)
    /\ memory'.used = memory.used + AddEntry(t).memory
    /\ TypeOK'

(* The global state is well typed after it. *)
LEMMA AddState ==
    ASSUME TaskInv, DataInv, IInv', NEW t \in Task, AddCollection(t)
    PROVE  AddedState(t)
  <1> DEFINE b == lstate[t].coll
             after == EntriesAfter(AddMore(t), AddRuns(t))
             queue == gstate.queue \o Merges(AddMore(t), AddRuns(t))
             count == gstate.count + AddRows(t)
             next == AddWalk(t).next
             used == memory.used + AddEntry(t).memory
  <1>0. TypeOK
    BY TaskFacts
  <1>1. /\ pc[t] = "add"
        /\ input' = input /\ lstate' = lstate /\ store' = store /\ table' = table
        /\ memory' = [memory EXCEPT !.used = used]
        /\ gstate' = [gstate EXCEPT !.count = count, !.entries = after,
                                    !.nextStart = next, !.queue = queue]
    <2>1. gstate' = [gstate EXCEPT
                            !.count = @ + AddRows(t),
                            !.entries = EntriesAfter(AddMore(t), AddRuns(t)),
                            !.nextStart = AddWalk(t).next,
                            !.queue = @ \o Merges(AddMore(t), AddRuns(t))]
          /\ memory' = [memory EXCEPT !.used = @ + AddEntry(t).memory]
          /\ pc[t] = "add"
          /\ UNCHANGED <<input, handed, active, lstate, store, table>>
      BY AddCollectionIs
    <2>. QED
      BY <2>1
  <1>2. /\ Adding(b, AddEntry(t), AddMore(t), AddRuns(t), lstate[t].min)
        /\ AddRows(t) \in Nat /\ next \in Nat
    BY <1>1, AddIsAdding
  <1>3. after \in Seq(Entry)
    BY <1>0, <1>2, AfterEntry
  <1>4. Merges(AddMore(t), AddRuns(t)) \in Seq(Work)
    BY <1>0, <1>2, MergesWork
  <1>5. AddEntry(t).memory \in Nat
    BY <1>0, <1>2, AddMemory
  <1>6. /\ gstate \in GlobalState /\ gstate.queue \in Seq(Work) /\ gstate.count \in Nat
        /\ memory \in [used : Nat, available : Nat, mayGrow : BOOLEAN,
                       min : 0..MaxBatchIndex]
        /\ memory.used \in Nat
        /\ store \in [Batch -> Seq(Batch)] /\ table \in Seq(Batch)
        /\ lstate \in [Task -> LocalState]
    BY <1>0, TypesNow
  <1>7. queue \in Seq(Work)
    BY <1>4, <1>6
  <1>8. count \in Nat /\ used \in Nat
    BY <1>2, <1>5, <1>6, SMTT(30)
  <1> HIDE DEF after, queue, count, next, used
  <1>9. /\ gstate' \in GlobalState
        /\ gstate'.entries = after /\ gstate'.queue = queue
        /\ gstate'.written = gstate.written /\ gstate'.count = count
    BY <1>1, <1>2, <1>3, <1>6, <1>7, <1>8 DEF GlobalState
  <1>10. /\ memory' \in [used : Nat, available : Nat, mayGrow : BOOLEAN,
                         min : 0..MaxBatchIndex]
         /\ memory'.used = used
    BY <1>1, <1>6, <1>8
  <1>11. TypeOK'
    BY <1>0, <1>1, <1>6, <1>9, <1>10, TypesAfter
  <1>. QED
    BY <1>9, <1>10, <1>11 DEF AddedState, after, queue, count, used

--------------------------------------------------------------------------------
(* AddCollection keeps the invariant. *)

(* The collections of the other tasks are not concerned. *)
LEMMA AddStores ==
    ASSUME TaskInv, DataInv, NEW t \in Task, pc[t] = "add", AddedTasks(t)
    PROVE  StoreOfTasks' /\ StoreFresh'
  <1>1. /\ lstate' = lstate /\ store' = store /\ StepOf(t)
        /\ Delivered' = Delivered \cup {lstate[t].coll}
        /\ ~ Collecting(t)' /\ Task' = Task /\ Batch' = Batch
    BY DEF AddedTasks
  <1>2. \A u \in Task \ {t} : /\ Collecting(u)' = Collecting(u)
                              /\ Collected(u)' = Collected(u)
    BY <1>1, OthersKept
  <1>3. StoreOfTasks'
    <2>1. \A u \in Task : Collecting(u)' => store[lstate[u].coll] = Collected(u)'
      BY <1>1, <1>2 DEF DataInv, StoreOfTasks
    <2>. QED
      BY <1>1, <2>1 DEF StoreOfTasks
  <1>4. StoreFresh'
    <2>1. ASSUME NEW x \in Batch \ (Delivered \cup {lstate[t].coll}),
                 \A u \in Task : Collecting(u)' => lstate[u].coll # x
          PROVE  store[x] = <<>>
      <3>1. \A u \in Task : Collecting(u) => lstate[u].coll # x
        BY <1>2, <2>1
      <3>. QED
        BY <2>1, <3>1 DEF DataInv, StoreFresh
    <2>. QED
      BY <1>1, <2>1 DEF StoreFresh
  <1>. QED
    BY <1>3, <1>4

(* The jobs before and after *)
NewWork(t) == ToSet(Merges(AddMore(t), AddRuns(t)))

AddedJobs(t) ==
    /\ ToSet(gstate'.queue) = ToSet(gstate.queue) \cup NewWork(t)
    /\ Jobs' = Jobs \cup NewWork(t)
    /\ Waiting' = Waiting \cup NewWork(t)
    /\ Waiting \subseteq Jobs
    /\ \A j \in Jobs : \E e \in Entries : e.coll = 0 /\ e.batch = j.batch
    /\ \A j \in Jobs, m \in NewWork(t) : j.batch # m.batch

(* The new merge tasks are of other batches than the old ones. *)
LEMMA AddJobs ==
    ASSUME TaskInv, DataInv, NEW t \in Task, pc[t] = "add", AddedTasks(t), AddedState(t)
    PROVE  AddedJobs(t)
  <1> DEFINE more == AddMore(t)
             runs == AddRuns(t)
             b == lstate[t].coll
  <1>0. TypeOK
    BY TaskFacts
  <1>1. Adding(b, AddEntry(t), more, runs, lstate[t].min)
    BY AddIsAdding
  <1>2. Merges(more, runs) \in Seq(Work) /\ gstate.queue \in Seq(Work)
    BY <1>0, <1>1, MergesWork, TypesNow
  <1>3. gstate'.queue = gstate.queue \o Merges(more, runs)
    BY DEF AddedState
  <1>4. ToSet(gstate'.queue) = ToSet(gstate.queue) \cup NewWork(t)
    <2> DEFINE q == gstate.queue
               m == Merges(more, runs)
    <2>1. q \in Seq(Work) /\ m \in Seq(Work) /\ NewWork(t) = ToSet(m)
      BY <1>2 DEF NewWork
    <2>2. gstate'.queue = q \o m
      BY <1>3
    <2> HIDE DEF q, m
    <2>3. q \o m \in Seq(Work)
      BY <2>1
    <2>4. /\ DOMAIN q = 1..Len(q) /\ Len(q) \in Nat
          /\ DOMAIN m = 1..Len(m) /\ Len(m) \in Nat
          /\ DOMAIN (q \o m) = 1..(Len(q) + Len(m))
          /\ \A i \in 1..(Len(q) + Len(m)) :
                (q \o m)[i] = IF i <= Len(q) THEN q[i] ELSE m[i - Len(q)]
      BY <2>1
    <2>5. /\ ToSet(q) = {q[i] : i \in DOMAIN q} /\ ToSet(m) = {m[i] : i \in DOMAIN m}
          /\ ToSet(q \o m) = {(q \o m)[i] : i \in DOMAIN (q \o m)}
      BY <2>1, <2>3, SeqElements
    <2>6. ASSUME NEW x \in ToSet(q \o m)  PROVE x \in ToSet(q) \cup ToSet(m)
      <3>1. PICK i \in 1..(Len(q) + Len(m)) : x = (q \o m)[i]
        BY <2>4, <2>5, <2>6
      <3>2. i <= Len(q) => i \in DOMAIN q
        BY <2>4
      <3>3. ~ (i <= Len(q)) => i - Len(q) \in DOMAIN m
        BY <2>4
      <3>. QED
        BY <2>4, <2>5, <3>1, <3>2, <3>3
    <2>7. ASSUME NEW x \in ToSet(q)  PROVE x \in ToSet(q \o m)
      <3>1. PICK i \in DOMAIN q : x = q[i]
        BY <2>5, <2>7
      <3>2. i \in 1..(Len(q) + Len(m)) /\ i <= Len(q)
        BY <2>4, <3>1
      <3>. QED
        BY <2>4, <2>5, <3>1, <3>2
    <2>8. ASSUME NEW x \in ToSet(m)  PROVE x \in ToSet(q \o m)
      <3>1. PICK i \in DOMAIN m : x = m[i]
        BY <2>5, <2>8
      <3>2. /\ Len(q) + i \in 1..(Len(q) + Len(m)) /\ ~ (Len(q) + i <= Len(q))
            /\ (Len(q) + i) - Len(q) = i
        BY <2>4, <3>1
      <3>3. (q \o m)[Len(q) + i] = m[i]
        BY <2>4, <3>2
      <3>. QED
        BY <2>4, <2>5, <3>1, <3>2, <3>3
    <2>. QED
      BY <2>1, <2>2, <2>6, <2>7, <2>8 DEF q
  <1>5. Jobs' = Jobs \cup NewWork(t) /\ Waiting' = Waiting \cup NewWork(t)
    BY <1>4 DEF Jobs, Waiting, AddedTasks
  <1>6. Waiting \subseteq Jobs
    BY DEF Jobs, Waiting
  <1>7. \A j \in Jobs : \E e \in Entries : e.coll = 0 /\ e.batch = j.batch
    <2>1. {j.batch : j \in Jobs} = {e.batch : e \in {x \in Entries : x.coll = 0}}
      BY DEF DataInv, MergesAwaited, Entries
    <2>. QED
      BY <2>1
  <1>8. ASSUME NEW j \in Jobs, NEW m \in NewWork(t)  PROVE j.batch # m.batch
    <2>1. PICK e \in Entries : e.coll = 0 /\ e.batch = j.batch
      BY <1>7
    <2>2. PICK k \in DOMAIN runs : m.batch = more[runs[k].first].batch
      BY <1>0, <1>1, <1>8, MergesWork DEF NewWork
    <2>3. \A i \in DOMAIN runs : more[runs[i].first].batch # e.batch
      BY <1>0, <1>1, <2>1, OldJobs
    <2>. QED
      BY <2>1, <2>2, <2>3
  <1>. QED
    BY <1>4, <1>5, <1>6, <1>7, <1>8 DEF AddedJobs

(* The queue, the waiting entries and the memory still agree. *)
LEMMA AddQueue ==
    ASSUME TaskInv, DataInv, NEW t \in Task, pc[t] = "add", AddedTasks(t), AddedState(t)
    PROVE  JobsOnce' /\ MergesAwaited' /\ MemoryAccounted'
  <1> DEFINE more == AddMore(t)
             runs == AddRuns(t)
             b == lstate[t].coll
             q == gstate.queue
             m == Merges(more, runs)
  <1>0. TypeOK
    BY TaskFacts
  <1>1. Adding(b, AddEntry(t), more, runs, lstate[t].min)
    BY AddIsAdding
  <1>2. AddedJobs(t)
    BY AddJobs
  <1>3. m \in Seq(Work) /\ q \in Seq(Work) /\ DOMAIN m = DOMAIN runs
        /\ \A k \in DOMAIN runs : m[k] = MergeOf(more, runs[k])
    BY <1>0, <1>1, MergesWork, TypesNow
  <1>4. gstate'.queue = q \o m /\ NewWork(t) = ToSet(m)
    BY DEF AddedState, NewWork
  <1>5. \A k, l \in DOMAIN m : m[k].batch = m[l].batch => k = l
    <2>1. more \in Seq(Entry) /\ InBatchOrder(more) /\ RunsIn(runs, more)
      BY <1>1 DEF Adding
    <2>2. \A k, l \in DOMAIN runs : k # l =>
                 MergeOf(more, runs[k]).batch # MergeOf(more, runs[l]).batch
      BY <2>1, MergesApart
    <2> HIDE DEF more, runs, m
    <2>. QED
      BY <1>3, <2>2
  <1>6. \A i \in DOMAIN q : q[i] \in Jobs
    BY <1>3, SeqElements DEF Jobs
  <1>7. \A i \in DOMAIN m : m[i] \in NewWork(t)
    BY <1>3, <1>4, SeqElements
  <1>8. \A j \in Jobs, n \in NewWork(t) : j.batch # n.batch
    BY <1>2 DEF AddedJobs
  <1>9. \A i, k \in DOMAIN (q \o m) : (q \o m)[i].batch = (q \o m)[k].batch => i = k
    <2>0. \A i, k \in DOMAIN q : q[i].batch = q[k].batch => i = k
      BY DEF DataInv, JobsOnce
    <2> HIDE DEF q, m
    <2>1. /\ DOMAIN q = 1..Len(q) /\ Len(q) \in Nat
          /\ DOMAIN m = 1..Len(m) /\ Len(m) \in Nat
          /\ DOMAIN (q \o m) = 1..(Len(q) + Len(m))
          /\ \A i \in 1..(Len(q) + Len(m)) :
                (q \o m)[i] = IF i <= Len(q) THEN q[i] ELSE m[i - Len(q)]
      BY <1>3
    <2>2. \A i \in 1..(Len(q) + Len(m)) :
              /\ i <= Len(q) => i \in DOMAIN q
              /\ ~ (i <= Len(q)) => i - Len(q) \in DOMAIN m
      BY <2>1
    <2>3. ASSUME NEW i \in 1..(Len(q) + Len(m)), NEW k \in 1..(Len(q) + Len(m)),
                 (q \o m)[i].batch = (q \o m)[k].batch
          PROVE  i = k
      <3>1. CASE i <= Len(q) /\ k <= Len(q)
        BY <2>0, <2>1, <2>2, <2>3, <3>1
      <3>2. CASE i <= Len(q) /\ ~ (k <= Len(q))
        BY <1>6, <1>7, <1>8, <2>1, <2>2, <2>3, <3>2
      <3>3. CASE ~ (i <= Len(q)) /\ k <= Len(q)
        BY <1>6, <1>7, <1>8, <2>1, <2>2, <2>3, <3>3
      <3>4. CASE ~ (i <= Len(q)) /\ ~ (k <= Len(q))
        <4>1. i - Len(q) = k - Len(q)
          BY <1>5, <2>1, <2>2, <2>3, <3>4
        <4>. QED
          BY <2>1, <4>1
      <3>. QED
        BY <3>1, <3>2, <3>3, <3>4
    <2>. QED
      BY <2>1, <2>3
  <1>10. \A u \in Task : AtWork(u)' <=> AtWork(u)
    <2>1. {u \in Task : pc'[u] \in {"merge", "publish"}}
            = {u \in Task : pc[u] \in {"merge", "publish"}}
      BY DEF AddedTasks
    <2>2. \A u \in Task : pc'[u] \in {"merge", "publish"} <=> pc[u] \in {"merge", "publish"}
      BY <2>1
    <2>. QED
      BY <2>2 DEF AtWork
  <1>11. \A u \in Task : AtWork(u) => lstate[u].work \in Jobs
    BY DEF AtWork, Jobs
  <1>12. JobsOnce'
    <2>0. JobsOnce
      BY DEF DataInv
    <2>1. \A u \in Task : AtWork(u) =>
            \A j \in ToSet(gstate'.queue) : j.batch # lstate[u].work.batch
      <3>1. ToSet(gstate'.queue) = ToSet(gstate.queue) \cup NewWork(t)
        BY <1>2 DEF AddedJobs
      <3>2. ASSUME NEW u \in Task, AtWork(u), NEW j \in ToSet(gstate.queue)
            PROVE  j.batch # lstate[u].work.batch
        BY <2>0, <3>2 DEF JobsOnce
      <3>3. ASSUME NEW u \in Task, AtWork(u), NEW j \in NewWork(t)
            PROVE  j.batch # lstate[u].work.batch
        BY <1>8, <1>11, <3>3
      <3>. QED
        BY <3>1, <3>2, <3>3
    <2>2. \A u, v \in Task : AtWork(u) /\ AtWork(v) /\ u # v =>
            lstate[u].work.batch # lstate[v].work.batch
      BY <2>0 DEF JobsOnce
    <2>3. lstate' = lstate /\ Task' = Task
      BY DEF AddedTasks
    <2> HIDE DEF q, m
    <2>. QED
      BY <1>4, <1>9, <1>10, <2>1, <2>2, <2>3 DEF JobsOnce
  <1>13. MergesAwaited'
    <2>1. Jobs' = Jobs \cup NewWork(t) /\ ToSet(gstate'.entries) = AfterSet(more, runs)
      BY <1>2 DEF AddedJobs, AddedState, AfterSet
    <2>2. {j.batch : j \in Jobs} = {e.batch : e \in {x \in Entries : x.coll = 0}}
      BY DEF DataInv, MergesAwaited, Entries
    <2>3. {x.batch : x \in {y \in AfterSet(more, runs) : y.coll = 0}}
              = {x.batch : x \in {y \in Entries : y.coll = 0}}
                   \cup {n.batch : n \in NewWork(t)}
      BY <1>0, <1>1, PendingBatches, SMTT(30) DEF NewWork
    <2> HIDE DEF more, runs
    <2>4. {j.batch : j \in Jobs'} = {x.batch : x \in {y \in AfterSet(more, runs) : y.coll = 0}}
      BY <2>1, <2>2, <2>3
    <2>. QED
      BY <2>1, <2>4 DEF MergesAwaited
  <1>14. MemoryAccounted'
    <2>1. /\ Unflushed(gstate.entries) + AddEntry(t).memory
                 = Unflushed(EntriesAfter(more, runs)) + SumOf(NewWork(t))
          /\ Unflushed(gstate.entries) \in Nat /\ AddEntry(t).memory \in Nat
          /\ Unflushed(EntriesAfter(more, runs)) \in Nat
          /\ SumOf(NewWork(t)) \in Nat /\ Weighed(NewWork(t))
      BY <1>0, <1>1, AddMemory DEF NewWork
    <2>2. Weighed(Waiting)
      <3> DEFINE U == {u \in Task : pc[u] = "merge"}
      <3>1. U \in SUBSET Task
        OBVIOUS
      <3>2. Waiting = ToSet(gstate.queue) \cup {lstate[u].work : u \in U}
        BY DEF Waiting
      <3> HIDE DEF U
      <3>. QED
        BY <1>0, <3>1, <3>2, WorksFinite
    <2>3. Waiting \cap NewWork(t) = {}
      BY <1>2 DEF AddedJobs
    <2>4. SumOf(Waiting \cup NewWork(t)) = SumOf(Waiting) + SumOf(NewWork(t))
      BY <2>1, <2>2, <2>3, SumUnion
    <2>5. SumOf(Waiting) \in Nat
      BY <2>2, SumOfIs
    <2>6. memory.used = Unflushed(gstate.entries) + SumOf(Waiting)
      BY DEF DataInv, MemoryAccounted, Waiting
    <2>7. memory'.used = memory.used + AddEntry(t).memory
          /\ gstate'.entries = EntriesAfter(more, runs)
          /\ Waiting' = Waiting \cup NewWork(t)
      BY <1>2 DEF AddedState, AddedJobs
    <2> HIDE DEF more, runs
    <2>8. memory'.used = Unflushed(gstate'.entries) + SumOf(Waiting')
      BY <2>1, <2>4, <2>5, <2>6, <2>7
    <2>. QED
      BY <2>8 DEF MemoryAccounted, Waiting
  <1>. QED
    BY <1>12, <1>13, <1>14

(* The entries after AddCollection, and what they own *)
AddedEntries(t) ==
    LET b == lstate[t].coll
    IN  /\ Entries' = AfterSet(AddMore(t), AddRuns(t))
        /\ \A e : OwnedBy(e)' = OwnedIn(b, AddMore(t), AddRuns(t), e.batch)
        /\ \A e \in Entries : e.coll = 0 =>
              e \in Entries' /\ OwnedBy(e)' = OwnedBy(e)
        /\ \A e, f \in Entries' : e.batch = f.batch => e = f

(* Entries, old and new, hold what they own. *)
LEMMA AddEntries ==
    ASSUME TaskInv, DataInv, NEW t \in Task, pc[t] = "add", AddedTasks(t), AddedState(t)
    PROVE  AddedEntries(t) /\ EntriesOk' /\ EntryContents'
  <1> DEFINE more == AddMore(t)
             runs == AddRuns(t)
             b == lstate[t].coll
  <1>0. TypeOK
    BY TaskFacts
  <1>1. Adding(b, AddEntry(t), more, runs, lstate[t].min)
    BY AddIsAdding
  <1>2. Entries' = AfterSet(more, runs) /\ gstate'.entries = EntriesAfter(more, runs)
    BY DEF AddedState, AfterSet, Entries
  <1>3. /\ Delivered' = Delivered \cup {b} /\ store' = store
        /\ \A S : Of(S)' = Of(S)
    BY DEF AddedTasks
  <1>4. \A e : OwnedBy(e)' = OwnedIn(b, more, runs, e.batch)
    BY <1>2, <1>3 DEF OwnedBy, OwnedIn
  <1>5. \A e \in Entries : e.coll = 0 =>
            /\ e \in AfterSet(more, runs)
            /\ OwnedIn(b, more, runs, e.batch) = OwnedBy(e)
    BY <1>0, <1>1, OldJobs
  <1>6. /\ \A e \in AfterSet(more, runs) :
              /\ e.batch \in Delivered \cup {b}
              /\ e.coll = 0 \/ e.coll = e.batch
              /\ ~ e.flushed => e.coll # 0
              /\ e.coll # 0 => store[e.coll] = Of(OwnedIn(b, more, runs, e.batch))
        /\ \A e, f \in AfterSet(more, runs) : e.batch = f.batch => e = f
    BY <1>0, <1>1, AfterOk
  <1>7. InBatchOrder(EntriesAfter(more, runs))
    BY <1>0, <1>1, AfterEntry
  <1>8. AddedEntries(t)
    BY <1>2, <1>4, <1>5, <1>6 DEF AddedEntries
  <1> HIDE DEF more, runs, b
  <1>9. EntriesOk'
    BY <1>2, <1>3, <1>6, <1>7 DEF EntriesOk
  <1>10. EntryContents'
    <2>1. \A e \in Entries' : e.coll # 0 => store[e.coll] = Of(OwnedIn(b, more, runs, e.batch))
      BY <1>2, <1>6
    <2>2. ASSUME NEW e \in Entries', e.coll # 0  PROVE store'[e.coll] = Of(OwnedBy(e))'
      BY <1>3, <1>4, <2>1, <2>2
    <2>. QED
      BY <2>2 DEF EntryContents
  <1>. QED
    BY <1>8, <1>9, <1>10

(* Merges under way still bring what their entries own. *)
LEMMA AddJobsOk ==
    ASSUME TaskInv, DataInv, NEW t \in Task, pc[t] = "add", AddedTasks(t), AddedState(t)
    PROVE  JobsOk' /\ Published'
  <1> DEFINE more == AddMore(t)
             runs == AddRuns(t)
             b == lstate[t].coll
  <1>0. TypeOK
    BY TaskFacts
  <1>1. Adding(b, AddEntry(t), more, runs, lstate[t].min)
    BY AddIsAdding
  <1>2. AddedEntries(t) /\ AddedJobs(t)
    BY AddEntries, AddJobs
  <1>3. /\ store' = store /\ lstate' = lstate /\ Task' = Task
        /\ \A S : Of(S)' = Of(S)
    BY DEF AddedTasks
  <1>4. \A c : Contents(c)' = Contents(c)
    BY <1>3 DEF Contents
  <1>5. \A e : OwnedBy(e)' = OwnedIn(b, more, runs, e.batch)
    BY <1>2 DEF AddedEntries
  <1>6. /\ \A e \in Entries : e.coll = 0 => e \in Entries' /\ OwnedBy(e)' = OwnedBy(e)
        /\ \A e, f \in Entries' : e.batch = f.batch => e = f
    BY <1>2 DEF AddedEntries
  <1>7. ASSUME NEW j \in Jobs, NEW n \in Entries', n.batch = j.batch
        PROVE  n \in Entries /\ OwnedBy(n)' = OwnedBy(n)
    <2>1. PICK e \in Entries : e.coll = 0 /\ e.batch = j.batch
      BY <1>2, <1>7 DEF AddedJobs
    <2>2. e \in Entries' /\ OwnedBy(e)' = OwnedBy(e)
      BY <1>6, <2>1
    <2>3. n = e
      BY <1>6, <1>7, <2>1, <2>2
    <2>. QED
      BY <2>1, <2>2, <2>3
  <1>8. ASSUME NEW j \in Waiting, NEW n \in Entries', n.batch = j.batch
        PROVE  Fits(j, n)'
    <2>1. j \in Jobs
      BY <1>2 DEF AddedJobs
    <2>2. n \in Entries /\ OwnedBy(n)' = OwnedBy(n)
      BY <1>7, <1>8, <2>1
    <2>3. Fits(j, n)
      BY <1>8, <2>2 DEF DataInv, JobsOk
    <2>. QED
      BY <1>3, <1>4, <2>2, <2>3 DEF Fits
  <1>9. ASSUME NEW j \in NewWork(t), NEW n \in Entries', n.batch = j.batch
        PROVE  Fits(j, n)'
    <2>1. FitsAfter(b, more, runs, j, j.batch)
      <3>1. j \in ToSet(Merges(more, runs))
        BY <1>9 DEF NewWork
      <3>. QED
        BY <1>0, <1>1, <3>1, MergesWork
    <2>2. OwnedBy(n)' = OwnedIn(b, more, runs, j.batch)
      BY <1>5, <1>9
    <2> HIDE DEF b, more, runs
    <2>. QED
      BY <1>3, <1>4, <1>9, <2>1, <2>2 DEF Fits, FitsAfter
  <1>10. JobsOk'
    <2>1. Waiting' = Waiting \cup NewWork(t)
      BY <1>2 DEF AddedJobs
    <2>. QED
      BY <1>8, <1>9, <2>1 DEF JobsOk
  <1>11. Published'
    <2>1. \A u \in Task : pc'[u] = "publish" => pc[u] = "publish"
      <3>1. /\ {u \in Task : pc'[u] = "merge"} = {u \in Task : pc[u] = "merge"}
            /\ {u \in Task : pc'[u] \in {"merge", "publish"}}
                  = {u \in Task : pc[u] \in {"merge", "publish"}}
        BY DEF AddedTasks
      <3>2. \A u \in Task : pc'[u] \in {"merge", "publish"} => pc[u] \in {"merge", "publish"}
        BY <3>1
      <3>3. \A u \in Task : pc[u] = "merge" => pc'[u] = "merge"
        BY <3>1
      <3>. QED
        BY <3>2, <3>3
    <2>2. ASSUME NEW u \in Task, pc'[u] = "publish", NEW n \in Entries',
                 n.batch = lstate[u].work.batch
          PROVE  /\ lstate[u].work.colls[1] = n.batch
                 /\ store[n.batch] = Of(OwnedBy(n))'
      <3>1. pc[u] = "publish" /\ lstate[u].work \in Jobs
        BY <2>1, <2>2 DEF Jobs
      <3>2. n \in Entries /\ OwnedBy(n)' = OwnedBy(n)
        BY <1>7, <2>2, <3>1
      <3>3. /\ lstate[u].work.colls[1] = n.batch
            /\ store[n.batch] = Of(OwnedBy(n))
        BY <2>2, <3>1, <3>2 DEF DataInv, Published
      <3>. QED
        BY <1>3, <3>2, <3>3
    <2>. QED
      BY <1>3, <2>2 DEF Published
  <1>. QED
    BY <1>10, <1>11

(* AddCollection, with ScheduleMergeTasks, keeps the invariant. *)
LEMMA AddCollectionKeeps ==
    ASSUME TaskInv, DataInv, IInv', NEW t \in Task, AddCollection(t)
    PROVE  TypeOK' /\ Phases' /\ HeldOnce' /\ DataInv'
  <1> DEFINE more == AddMore(t)
             runs == AddRuns(t)
             b == lstate[t].coll
  <1>0. TypeOK
    BY TaskFacts
  <1>1. AddedTasks(t) /\ AddedState(t) /\ pc[t] = "add"
    <2>1. AddedTasks(t) /\ AddedState(t)
      BY AddTasks, AddState
    <2>. QED
      BY <2>1 DEF AddedTasks
  <1>2. Adding(b, AddEntry(t), more, runs, lstate[t].min) /\ AddRows(t) \in Nat
    BY <1>1, AddIsAdding
  <1>3. /\ Entries' = AfterSet(more, runs)
        /\ EntriesOk' /\ EntryContents'
    <2>1. AddedEntries(t) /\ EntriesOk' /\ EntryContents'
      BY <1>1, AddEntries
    <2>. QED
      BY <2>1 DEF AddedEntries
  <1>4. /\ Delivered' = Delivered \cup {b} /\ Chunked' = Chunked /\ table' = table
        /\ thrown' = thrown /\ Serves(t)' /\ Task' = Task /\ ~ Finished
        /\ Phases' /\ HeldOnce'
    BY <1>1 DEF AddedTasks
  <1>5. table = <<>>
    BY <1>4 DEF DataInv, Covered
  <1>6. /\ \A c \in Chunked \ (Delivered \cup {b}), d \in Delivered \cup {b} :
                 c < d => \E e \in AfterSet(more, runs) : c < e.batch /\ e.batch <= d
        /\ \A d \in Delivered \cup {b} : \E e \in AfterSet(more, runs) : e.batch <= d
    BY <1>0, <1>2, <1>4, <1>5, AfterCovers
  <1>7. Separated' /\ Covered'
    BY <1>3, <1>4, <1>5, <1>6 DEF Separated, Covered
  <1>8. QueueServed' /\ NothingThrown'
    BY <1>4 DEF QueueServed, DataInv, NothingThrown
  <1>9. FlushedLarge'
    <2>1. SUFFICES ASSUME NEW e \in AfterSet(more, runs), e.flushed
                   PROVE  gstate'.written \/ gstate'.count >= RowGroupSize
                             \/ gstate'.queue # <<>> \/ \E u \in Task' : pc'[u] = "merge"
      BY <1>3 DEF FlushedLarge
    <2>2. /\ gstate'.queue = gstate.queue \o Merges(more, runs)
          /\ gstate'.written = gstate.written
          /\ gstate'.count = gstate.count + AddRows(t)
      BY <1>1 DEF AddedState
    <2>3. gstate.count \in Nat /\ gstate.queue \in Seq(Work)
      BY <1>0, TypesNow
    <2>4. Merges(more, runs) \in Seq(Work) /\ (runs # <<>> => Merges(more, runs) # <<>>)
      BY <1>0, <1>2, MergesWork
    <2>5. runs # <<>> \/ AddEntry(t).flushed \/ \E f \in Entries : f.flushed
      BY <1>0, <1>2, <2>1, AfterFlushed
    <2>6. gstate.queue # <<>> \/ Merges(more, runs) # <<>> => gstate'.queue # <<>>
      BY <2>2, <2>3, <2>4
    <2>7. CASE runs # <<>>
      BY <2>4, <2>6, <2>7
    <2>8. CASE AddEntry(t).flushed
      <3>1. AddRows(t) >= RowGroupSize
        BY <2>8 DEF AddEntry
      <3>2. gstate.count + AddRows(t) >= RowGroupSize
        BY <1>2, <2>3, <3>1, SizesAssumption
      <3>. QED
        BY <2>2, <3>2
    <2>9. CASE \E f \in Entries : f.flushed
      <3>1. gstate.written \/ gstate.count >= RowGroupSize \/ gstate.queue # <<>>
              \/ \E u \in Task : pc[u] = "merge"
        BY <2>9 DEF DataInv, FlushedLarge
      <3>2. gstate.count >= RowGroupSize => gstate'.count >= RowGroupSize
        BY <1>2, <2>2, <2>3, SizesAssumption
      <3>3. (\E u \in Task : pc[u] = "merge") => \E u \in Task' : pc'[u] = "merge"
        <4>1. {u \in Task : pc'[u] = "merge"} = {u \in Task : pc[u] = "merge"}
          BY <1>1 DEF AddedTasks
        <4>2. \A u \in Task : pc[u] = "merge" => pc'[u] = "merge"
          BY <4>1
        <4>. QED
          BY <1>4, <4>2
      <3>. QED
        BY <2>2, <2>6, <3>1, <3>2, <3>3
    <2>. QED
      BY <2>5, <2>7, <2>8, <2>9
  <1>10. StoreOfTasks' /\ StoreFresh'
    BY <1>1, AddStores
  <1>11. JobsOk' /\ Published'
    BY <1>1, AddJobsOk
  <1>12. JobsOnce' /\ MergesAwaited' /\ MemoryAccounted'
    BY <1>1, AddQueue
  <1>13. TypeOK'
    BY <1>1 DEF AddedState
  <1>14. DataInv'
    BY <1>3, <1>7, <1>8, <1>9, <1>10, <1>11, <1>12 DEF DataInv
  <1>. QED
    BY <1>4, <1>13, <1>14

--------------------------------------------------------------------------------
(* Finalize and the statement as a whole. *)

(* Steps that leave the tasks alone *)
TasksSame == UNCHANGED <<input, handed, active, pc, lstate>>

(* They keep all that is said of tasks. *)
LEMMA TasksAlone ==
    ASSUME TaskInv, TasksSame
    PROVE  /\ Phases' /\ HeldOnce'
           /\ Task' = Task /\ Batch' = Batch /\ Chunked' = Chunked
           /\ Batches' = Batches /\ MaxBatchIndex' = MaxBatchIndex
           /\ Work' = Work /\ Entry' = Entry /\ LocalState' = LocalState
           /\ \A S : Of(S)' = Of(S)
           /\ Delivered' = Delivered
           /\ \A t \in Task : /\ Collecting(t)' = Collecting(t)
                              /\ Collected(t)' = Collected(t)
                              /\ Serves(t)' = Serves(t)
  <1>1. input' = input /\ handed' = handed /\ active' = active /\ pc' = pc
        /\ lstate' = lstate
    BY DEF TasksSame
  <1>2. /\ Task' = Task /\ Batch' = Batch /\ Chunked' = Chunked
        /\ Batches' = Batches /\ MaxBatchIndex' = MaxBatchIndex
        /\ Work' = Work /\ Entry' = Entry /\ LocalState' = LocalState
        /\ \A S : Of(S)' = Of(S)
    BY <1>1, StatementKept
  <1>3. \A t : Collecting(t)' = Collecting(t) /\ Serves(t)' = Serves(t)
               /\ InNextBatch(t)' = InNextBatch(t) /\ InSink(t)' = InSink(t)
    BY <1>1 DEF Collecting, Serves, InNextBatch, InSink
  <1>4. \A t : Collected(t)' = Collected(t)
    BY <1>1 DEF Collected
  <1>5. \A t : Held(t)' = Held(t)
    BY <1>1, <1>2, <1>3 DEF Held
  <1>6. Delivered' = Delivered
    BY <1>1, <1>2, <1>5 DEF Delivered
  <1>7. HeldOnce'
    BY <1>1, <1>2, <1>5 DEF TaskInv, HeldOnce
  <1>8. ASSUME NEW t \in Task  PROVE PhaseOf(t)'
    <2>1. AtStart(t) /\ AtFetch(t) /\ AtNextBatch(t) /\ AtSink(t) /\ AtEnd(t)
      BY TaskFacts
    <2>2. AtStart(t)' /\ AtFetch(t)'
      BY <1>1, <2>1 DEF AtStart, AtFetch
    <2>3. AtNextBatch(t)'
      BY <1>1, <1>2, <1>3, <2>1 DEF AtNextBatch
    <2>4. AtSink(t)' /\ AtEnd(t)'
      BY <1>1, <1>2, <1>3, <2>1 DEF AtSink, AtEnd
    <2>. QED
      BY <2>2, <2>3, <2>4 DEF PhaseOf
  <1>9. Phases'
    BY <1>2, <1>8 DEF Phases
  <1>. QED
    BY <1>2, <1>3, <1>4, <1>6, <1>7, <1>9

(* A step that changes nothing keeps the invariant. *)
LEMMA StutterKeeps ==
    ASSUME TaskInv, DataInv, UNCHANGED vars
    PROVE  TypeOK' /\ Phases' /\ HeldOnce' /\ DataInv'
  <1>1. /\ input' = input /\ handed' = handed /\ active' = active /\ pc' = pc
        /\ lstate' = lstate /\ gstate' = gstate /\ memory' = memory /\ store' = store
        /\ table' = table /\ thrown' = thrown
    BY DEF vars
  <1>2. TasksSame /\ TypeOK
    BY <1>1 DEF TasksSame, TaskInv
  <1>3. /\ Phases' /\ HeldOnce'
        /\ Task' = Task /\ Batch' = Batch /\ Chunked' = Chunked
        /\ Batches' = Batches /\ MaxBatchIndex' = MaxBatchIndex
        /\ Work' = Work /\ Entry' = Entry /\ LocalState' = LocalState
        /\ \A S : Of(S)' = Of(S)
        /\ Delivered' = Delivered
        /\ \A t \in Task : /\ Collecting(t)' = Collecting(t)
                           /\ Collected(t)' = Collected(t)
                           /\ Serves(t)' = Serves(t)
    BY <1>2, TasksAlone
  <1>4. GlobalState' = GlobalState
    BY <1>3 DEF GlobalState
  <1>5. TypeOK'
    BY <1>1, <1>2, <1>3, <1>4 DEF TypeOK
  <1>6. /\ Entries' = Entries /\ Waiting' = Waiting /\ Jobs' = Jobs
        /\ \A c : Contents(c)' = Contents(c)
    BY <1>1, <1>3 DEF Entries, Waiting, Jobs, Contents
  <1>7. \A e : OwnedBy(e)' = OwnedBy(e)
    BY <1>1, <1>3 DEF OwnedBy
  <1>8. StoreOfTasks' /\ StoreFresh'
    BY <1>1, <1>3 DEF DataInv, StoreOfTasks, StoreFresh
  <1>9. EntriesOk' /\ EntryContents' /\ Separated'
    BY <1>1, <1>3, <1>6, <1>7 DEF DataInv, EntriesOk, EntryContents, Separated
  <1>10. Covered'
    BY <1>1, <1>3, <1>6 DEF DataInv, Covered, Finished
  <1>11. JobsOk' /\ Published'
    <2>1. \A j, e : Fits(j, e) => Fits(j, e)'
      BY <1>3, <1>6, <1>7 DEF Fits
    <2>. QED
      BY <1>1, <1>3, <1>6, <1>7, <2>1 DEF DataInv, JobsOk, Published
  <1>12. JobsOnce'
    BY <1>1, <1>3 DEF DataInv, JobsOnce, AtWork
  <1>13. QueueServed' /\ FlushedLarge'
    BY <1>1, <1>3, <1>6 DEF DataInv, QueueServed, FlushedLarge
  <1>14. MergesAwaited'
    BY <1>1, <1>6 DEF DataInv, MergesAwaited
  <1>15. MemoryAccounted'
    <2>1. MemoryAccounted
      BY DEF DataInv
    <2>. QED
      BY <1>1, <1>3, <2>1 DEF MemoryAccounted
  <1>16. NothingThrown'
    BY <1>1 DEF DataInv, NothingThrown
  <1>. QED
    BY <1>3, <1>5, <1>8, <1>9, <1>10, <1>11, <1>12, <1>13, <1>14, <1>15, <1>16 DEF DataInv

(* When every task is done, every batch has been added. *)
LEMMA DoneDelivered ==
    ASSUME TaskInv, \A t \in Task : pc[t] = "done"
    PROVE  Delivered = Chunked /\ \A t \in Task : ~ Collecting(t)
  <1>1. TypeOK /\ IInv
    BY DEF TaskInv
  <1>2. /\ Batches \in Nat /\ Batch = 1..Batches /\ handed \in 0..Batches
        /\ MaxBatchIndex = Batches + 1 /\ Task = 1..input.tasks /\ input \in Inputs
    BY <1>1, TypesNow
  <1>3. 1 \in Task
    BY <1>2, InputsAssumption
  <1>4. \A t \in Task : lstate[t].coll = 0 /\ lstate[t].left = 0
                        /\ lstate[t].batch = MaxBatchIndex
    BY TaskFacts DEF AtEnd, Ending
  <1>5. handed = Batches
    <2>1. lstate[1].batch <= handed \/ handed = Batches
      BY <1>1, <1>3 DEF IInv, BatchHanded
    <2>. QED
      BY <1>2, <1>3, <1>4, <2>1
  <1>6. \A t \in Task : ~ Collecting(t) /\ Held(t) = {}
    BY <1>4 DEF Collecting, Held
  <1>7. \A b \in Chunked : b <= handed
    BY <1>2, <1>5 DEF Chunked
  <1>. QED
    BY <1>6, <1>7 DEF Delivered

(* The rows of all the entries *)
LEMMA EntriesTogether ==
    ASSUME TypeOK, DataInv, table = <<>>, gstate.entries # <<>>,
           \A e \in Entries : e.coll # 0
    PROVE  Contents([i \in DOMAIN gstate.entries |-> gstate.entries[i].coll])
              = Of(Delivered)
  <1> DEFINE es == gstate.entries
             n == Len(es)
             colls == [i \in DOMAIN es |-> es[i].coll]
             P == [i \in 1..n |-> OwnedBy(es[i])]
  <1>1. /\ es \in Seq(Entry) /\ input \in Inputs
    BY TypesNow
  <1>2. /\ n \in Nat /\ DOMAIN es = 1..n
        /\ Entries = {es[i] : i \in DOMAIN es} /\ \A i \in 1..n : es[i] \in Entries
    BY <1>1, SeqElements DEF Entries
  <1>3. ASSUME NEW i \in 1..n
        PROVE  es[i].coll # 0 /\ store[es[i].coll] = Of(OwnedBy(es[i]))
    BY <1>2 DEF DataInv, EntryContents
  <1>4. ASSUME NEW i \in 1..n, NEW k \in 1..n, i < k, NEW x \in P[i], NEW y \in P[k]
        PROVE  x < y
    <2>1. es[i].batch < es[k].batch
      BY <1>2, <1>4 DEF DataInv, EntriesOk, InBatchOrder
    <2>2. /\ BatchesOf(es) \in SUBSET Int
          /\ BatchesOf(es) = {es[j].batch : j \in DOMAIN es}
      BY <1>1, BatchesOfIs
    <2>3. Delivered \in SUBSET Int
      BY EntriesApart
    <2>4. es[i].batch \in BatchesOf(es) /\ es[k].batch \in BatchesOf(es)
      BY <1>2, <2>2
    <2>5. /\ x \in Owned(BatchesOf(es), Delivered, es[i].batch)
          /\ y \in Owned(BatchesOf(es), Delivered, es[k].batch)
      BY <1>4 DEF OwnedBy
    <2>. QED
      BY <2>1, <2>2, <2>3, <2>4, <2>5, OwnedApart
  <1>5. FlattenSeq([i \in 1..n |-> Of(P[i])]) = Of(UNION {P[i] : i \in 1..n})
    <2>1. \A i, k \in 1..n : i < k => \A x \in P[i], y \in P[k] : x < y
      BY <1>4
    <2> HIDE DEF P, n
    <2>. QED
      BY <1>1, <1>2, <2>1, OfMany
  <1>6. Contents(colls) = FlattenSeq([i \in 1..n |-> Of(P[i])])
    <2>1. DOMAIN colls = 1..n /\ \A i \in 1..n : colls[i] = es[i].coll
      BY <1>2
    <2>2. \A i \in 1..n : (IF colls[i] = 0 THEN <<>> ELSE store[colls[i]]) = Of(P[i])
      BY <1>3, <2>1
    <2>3. [i \in DOMAIN colls |-> IF colls[i] = 0 THEN <<>> ELSE store[colls[i]]]
             = [i \in 1..n |-> Of(P[i])]
      <3> HIDE DEF P, n, colls
      <3>. QED
        BY <2>1, <2>2
    <2>. QED
      BY <2>3 DEF Contents
  <1>7. UNION {P[i] : i \in 1..n} = Delivered
    <2>1. \A i \in 1..n : P[i] \subseteq Delivered
      BY OwnedDelivered
    <2>2. ASSUME NEW d \in Delivered  PROVE \E i \in 1..n : d \in P[i]
      <3>1. /\ BatchesOf(es) \in SUBSET Int /\ IsFiniteSet(BatchesOf(es))
            /\ BatchesOf(es) = {es[j].batch : j \in DOMAIN es}
        BY <1>1, BatchesOfIs
      <3>2. Delivered \in SUBSET Int
        BY EntriesApart
      <3>3. PICK e \in Entries : e.batch <= d
        BY DEF DataInv, Covered, Finished
      <3>4. e.batch \in BatchesOf(es)
        BY <1>2, <3>1, <3>3
      <3>5. PICK y \in BatchesOf(es) : d \in Owned(BatchesOf(es), Delivered, y)
        BY <3>1, <3>2, <3>3, <3>4, OwnerExists
      <3>6. PICK i \in 1..n : y = es[i].batch
        BY <1>2, <3>1, <3>5
      <3>. QED
        BY <3>5, <3>6 DEF OwnedBy
    <2>. QED
      BY <2>1, <2>2
  <1>. QED
    BY <1>5, <1>6, <1>7

(* What is left for Finalize when every task is done *)
LEMMA NothingWaits ==
    ASSUME TaskInv, DataInv, \A t \in Task : pc[t] = "done"
    PROVE  /\ gstate.queue = <<>> /\ Jobs = {} /\ Waiting = {}
           /\ \A e \in Entries : e.coll # 0
           /\ memory.used = Unflushed(gstate.entries)
           /\ (\E e \in Entries : e.flushed) =>
                 gstate.written \/ gstate.count >= RowGroupSize
  <1>1. gstate.queue = <<>>
    BY DEF DataInv, QueueServed, Serves, Draining, Sinking
  <1>2. ToSet(gstate.queue) = {}
    <2>1. gstate.queue \in Seq(Work) /\ DOMAIN gstate.queue = {}
      BY <1>1
    <2>2. ToSet(gstate.queue) = {gstate.queue[i] : i \in DOMAIN gstate.queue}
      BY <2>1, SeqElements
    <2>. QED
      BY <2>1, <2>2
  <1>3. {u \in Task : pc[u] = "merge"} = {}
        /\ {u \in Task : pc[u] \in {"merge", "publish"}} = {}
    OBVIOUS
  <1>4. Jobs = {} /\ Waiting = {}
    BY <1>2, <1>3 DEF Jobs, Waiting
  <1>5. \A e \in Entries : e.coll # 0
    <2>1. {e.batch : e \in {x \in Entries : x.coll = 0}} = {j.batch : j \in Jobs}
      BY DEF DataInv, MergesAwaited, Entries
    <2>. QED
      BY <1>4, <2>1
  <1>6. memory.used = Unflushed(gstate.entries)
    <2>1. memory.used = Unflushed(gstate.entries) + SumOf(Waiting)
      BY DEF DataInv, MemoryAccounted, Waiting
    <2>2. SumOf(Waiting) = 0
      BY <1>4, SumEmpty
    <2>3. Unflushed(gstate.entries) \in Nat
      <3>1. gstate.entries \in Seq(Entry)
        BY TypesNow DEF TaskInv
      <3>2. Weighed({e \in ToSet(gstate.entries) : ~ e.flushed})
        BY <3>1, EntriesWeighed
      <3>. QED
        BY <3>2, SumOfIs DEF Unflushed
    <2>. QED
      BY <2>1, <2>2, <2>3
  <1>7. (\E e \in Entries : e.flushed) =>
            gstate.written \/ gstate.count >= RowGroupSize
    BY <1>1 DEF DataInv, FlushedLarge
  <1>. QED
    BY <1>1, <1>4, <1>5, <1>6, <1>7

(* Finalize finds nothing flushed by mistake, no entry without a collection and the
   memory at zero, and the rows of the entries are those of the source. *)
LEMMA FinalizeKeeps ==
    ASSUME TaskInv, DataInv, IInv', Finalize
    PROVE  TypeOK' /\ Phases' /\ HeldOnce' /\ DataInv'
  <1> DEFINE es == gstate.entries
             rows == Contents([i \in DOMAIN es |-> es[i].coll])
  <1>0. TypeOK
    BY DEF TaskInv
  <1>1. /\ \A t \in Task : pc[t] = "done"
        /\ table = <<>> /\ es # <<>>
        /\ input' = input /\ handed' = handed /\ active' = active /\ pc' = pc
        /\ lstate' = lstate
        /\ table' = rows
        /\ memory' = [memory EXCEPT !.used = @ - Unflushed(es)]
        /\ store' = [b \in Batch |-> <<>>]
        /\ gstate' = [gstate EXCEPT !.entries = <<>>]
    BY DEF Finalize
  <1>2. thrown' = thrown
          \cup {x \in {"Encountered a flushed batch"} :
                   ~ (gstate.written \/ gstate.count >= RowGroupSize)
                      /\ \E e \in Entries : e.flushed}
          \cup {x \in {"access of an invalid index"} : \E e \in Entries : e.coll = 0}
          \cup {x \in {"memory usage is not zero"} : memory.used # Unflushed(es)}
    BY DEF Finalize, Entries
  <1>3. TasksSame
    BY <1>1 DEF TasksSame
  <1>4. /\ Phases' /\ HeldOnce'
        /\ Task' = Task /\ Batch' = Batch /\ Chunked' = Chunked
        /\ Batches' = Batches /\ MaxBatchIndex' = MaxBatchIndex
        /\ \A S : Of(S)' = Of(S)
        /\ Delivered' = Delivered
        /\ \A t \in Task : Collecting(t)' = Collecting(t)
    BY <1>3, TasksAlone
  <1>5. Delivered = Chunked /\ \A t \in Task : ~ Collecting(t)
    BY <1>1, DoneDelivered
  <1>6. /\ gstate.queue = <<>> /\ Jobs = {} /\ Waiting = {}
        /\ \A e \in Entries : e.coll # 0
        /\ memory.used = Unflushed(es)
        /\ (\E e \in Entries : e.flushed) =>
              gstate.written \/ gstate.count >= RowGroupSize
    BY <1>1, NothingWaits
  <1>7. thrown' = thrown
    BY <1>2, <1>6
  <1>8. rows = Of(Chunked)
    BY <1>0, <1>1, <1>5, <1>6, EntriesTogether
  <1> HIDE DEF rows
  <1>9. /\ gstate \in GlobalState /\ store \in [Batch -> Seq(Batch)]
        /\ memory \in [used : Nat, available : Nat, mayGrow : BOOLEAN,
                       min : 0..MaxBatchIndex]
        /\ memory.used \in Nat /\ input \in Inputs /\ lstate \in [Task -> LocalState]
    BY <1>0, TypesNow
  <1>10. /\ gstate' \in GlobalState /\ gstate'.entries = <<>>
         /\ gstate'.queue = <<>>
    <2>1. <<>> \in Seq(Entry)
      OBVIOUS
    <2>. QED
      BY <1>1, <1>6, <1>9, <2>1 DEF GlobalState
  <1>11. memory' \in [used : Nat, available : Nat, mayGrow : BOOLEAN,
                      min : 0..MaxBatchIndex]
         /\ memory'.used = 0
    <2>1. memory.used - Unflushed(es) = 0
      BY <1>6, <1>9
    <2>2. memory' = [memory EXCEPT !.used = 0]
      BY <1>1, <2>1
    <2>. QED
      BY <1>9, <2>2
  <1>12. TypeOK'
    <2>1. store' \in [Batch -> Seq(Batch)]
      BY <1>1
    <2>2. table' \in Seq(Batch)
      BY <1>1, <1>8, <1>9, OfPrefixes
    <2>. QED
      BY <1>0, <1>1, <1>9, <1>10, <1>11, <2>1, <2>2, TypesAfter
  <1>13. Entries' = {}
    <2>1. ToSet(gstate'.entries) = {}
      <3>1. gstate'.entries \in Seq(Entry) /\ DOMAIN gstate'.entries = {}
        BY <1>10
      <3>2. ToSet(gstate'.entries) = {gstate'.entries[i] : i \in DOMAIN gstate'.entries}
        BY <3>1, SeqElements
      <3>. QED
        BY <3>1, <3>2
    <2>. QED
      BY <2>1 DEF Entries
  <1>14. StoreOfTasks' /\ StoreFresh'
    BY <1>1, <1>4, <1>5 DEF StoreOfTasks, StoreFresh
  <1>15. EntriesOk' /\ EntryContents' /\ JobsOk' /\ Published' /\ FlushedLarge'
    <2>1. InBatchOrder(gstate'.entries)
      BY <1>10 DEF InBatchOrder
    <2>. QED
      BY <1>13, <2>1 DEF EntriesOk, EntryContents, JobsOk, Published, FlushedLarge
  <1>16. Separated'
    BY <1>4, <1>5 DEF Separated
  <1>17. Covered'
    <2>1. Finished'
      BY <1>1, <1>4, <1>10 DEF Finished
    <2>2. Of(Chunked)' = Of(Chunked)
      BY <1>4
    <2>. QED
      BY <1>1, <1>8, <2>1, <2>2 DEF Covered
  <1>18. ToSet(gstate'.queue) = {} /\ Jobs' = {}
    <2>1. ToSet(gstate.queue) = {} /\ gstate'.queue = gstate.queue
      BY <1>6, <1>10 DEF Jobs
    <2>2. \A t \in Task' : pc'[t] = "done"
      BY <1>1, <1>4
    <2>. QED
      BY <2>1, <2>2 DEF Jobs
  <1>19. JobsOnce' /\ QueueServed'
    <2>1. \A t \in Task' : ~ AtWork(t)'
      BY <1>1, <1>4 DEF AtWork
    <2>2. DOMAIN gstate'.queue = {}
      BY <1>10
    <2>. QED
      BY <1>10, <2>1, <2>2 DEF JobsOnce, QueueServed
  <1>20. MergesAwaited'
    <2>1. ToSet(gstate'.entries) = {}
      BY <1>13 DEF Entries
    <2>. QED
      BY <1>18, <2>1 DEF MergesAwaited
  <1>21. MemoryAccounted'
    <2>1. ToSet(gstate'.entries) = {}
      BY <1>13 DEF Entries
    <2>2. Unflushed(gstate'.entries) = 0
      <3>1. {e \in ToSet(gstate'.entries) : ~ e.flushed} = {}
        BY <2>1
      <3>. QED
        BY <3>1, SumEmpty DEF Unflushed
    <2>3. ToSet(gstate'.queue)
              \cup {lstate'[t].work : t \in {u \in Task' : pc'[u] = "merge"}} = {}
      BY <1>1, <1>4, <1>18
    <2>4. SumOf(ToSet(gstate'.queue)
              \cup {lstate'[t].work : t \in {u \in Task' : pc'[u] = "merge"}}) = 0
      BY <2>3, SumEmpty
    <2>. QED
      BY <1>11, <2>2, <2>4 DEF MemoryAccounted
  <1>22. NothingThrown'
    BY <1>7 DEF DataInv, NothingThrown
  <1>23. DataInv'
    BY <1>14, <1>15, <1>16, <1>17, <1>19, <1>20, <1>21, <1>22 DEF DataInv
  <1>. QED
    BY <1>4, <1>12, <1>23

-------------------------------------------------------------------------------
(* The invariant *)
InsertInv == TaskInv /\ DataInv

(* The statement starts within the invariant. *)
LEMMA InitInsertInv == Init => InsertInv
  <1>. SUFFICES ASSUME Init  PROVE InsertInv
    OBVIOUS
  <1>1. /\ input \in Inputs /\ handed = 0
        /\ active = [t \in Task |-> Unregistered]
        /\ pc = [t \in Task |-> "start"]
        /\ lstate = [t \in Task |-> [batch |-> 0, min |-> 0, current |-> 0,
                                     coll |-> 0, tail |-> 0, left |-> 0,
                                     work |-> NoWork, back |-> "index"]]
        /\ gstate = [entries |-> <<>>, nextStart |-> 0, queue |-> <<>>,
                     written |-> FALSE, count |-> 0]
        /\ memory = [used |-> 0, available |-> Memory, mayGrow |-> TRUE, min |-> 0]
        /\ store = [b \in Batch |-> <<>>]
        /\ table = <<>>
        /\ thrown = {}
    BY DEF Init
  <1>2. Batches \in Nat /\ MaxBatchIndex = Batches + 1 /\ Batch = 1..Batches
    BY <1>1, InputSound DEF MaxBatchIndex, Batch
  <1>3. IInv
    BY InitIInv
  <1>4. TypeOK
    <2>1. NoWork \in Work
      BY <1>2 DEF NoWork, Work
    <2>2. lstate \in [Task -> LocalState]
      BY <1>1, <1>2, <2>1 DEF LocalState
    <2>3. gstate \in GlobalState
      BY <1>1 DEF GlobalState
    <2>4. memory \in [used : Nat, available : Nat, mayGrow : BOOLEAN,
                      min : 0..MaxBatchIndex]
      BY <1>1, <1>2, SizesAssumption
    <2>5. /\ active \in [Task -> {Unregistered} \cup 0..MaxBatchIndex]
          /\ pc \in [Task -> Control] /\ handed \in 0..Batches
      BY <1>1, <1>2 DEF Control
    <2>. QED
      BY <1>1, <2>2, <2>3, <2>4, <2>5 DEF TypeOK
  <1>5. \A t \in Task : /\ pc[t] = "start" /\ lstate[t].coll = 0 /\ lstate[t].left = 0
    BY <1>1
  <1>6. \A t \in Task : ~ Collecting(t) /\ Held(t) = {}
    BY <1>5 DEF Collecting, Held
  <1>7. Phases
    <2>1. ASSUME NEW t \in Task  PROVE PhaseOf(t)
      <3>1. AtStart(t) /\ AtFetch(t) /\ AtEnd(t)
        BY <1>5 DEF AtStart, AtFetch, AtEnd, Ending
      <3>2. AtNextBatch(t) /\ AtSink(t)
        BY <1>5 DEF AtNextBatch, AtSink, InNextBatch, InSink, Moving, Draining, Sinking
      <3>. QED
        BY <3>1, <3>2 DEF PhaseOf
    <2>. QED
      BY <2>1 DEF Phases
  <1>8. HeldOnce
    BY <1>6 DEF HeldOnce
  <1>9. Delivered = {}
    BY <1>1, <1>2 DEF Delivered, Chunked
  <1>10. /\ gstate.entries = <<>> /\ gstate.queue = <<>>
         /\ gstate.entries \in Seq(Entry) /\ gstate.queue \in Seq(Work)
         /\ DOMAIN gstate.entries = {} /\ DOMAIN gstate.queue = {}
    BY <1>1
  <1>11. ToSet(gstate.entries) = {} /\ ToSet(gstate.queue) = {}
    <2>0. gstate.entries \in Seq(Entry) /\ gstate.queue \in Seq(Work)
      BY <1>10
    <2>1. ToSet(gstate.entries) = {gstate.entries[i] : i \in DOMAIN gstate.entries}
      BY <2>0, SeqElements
    <2>2. ToSet(gstate.queue) = {gstate.queue[i] : i \in DOMAIN gstate.queue}
      BY <2>0, SeqElements
    <2>. QED
      BY <1>10, <2>1, <2>2
  <1>12. Entries = {} /\ Waiting = {} /\ Jobs = {}
    BY <1>5, <1>11 DEF Entries, Waiting, Jobs
  <1>13. StoreOfTasks /\ StoreFresh
    BY <1>1, <1>6 DEF StoreOfTasks, StoreFresh
  <1>14. EntriesOk /\ EntryContents /\ Separated /\ Covered
    BY <1>1, <1>9, <1>10, <1>12
       DEF EntriesOk, EntryContents, Separated, Covered, InBatchOrder
  <1>15. JobsOk /\ Published /\ JobsOnce /\ QueueServed /\ FlushedLarge
    BY <1>5, <1>10, <1>12
       DEF JobsOk, Published, JobsOnce, AtWork, QueueServed, FlushedLarge
  <1>16. MergesAwaited /\ NothingThrown
    BY <1>1, <1>11, <1>12 DEF MergesAwaited, NothingThrown
  <1>17. MemoryAccounted
    <2>1. {e \in ToSet(gstate.entries) : ~ e.flushed} = {}
      BY <1>11
    <2>2. ToSet(gstate.queue)
              \cup {lstate[t].work : t \in {u \in Task : pc[u] = "merge"}} = {}
      BY <1>5, <1>11
    <2>3. memory.used = 0
      BY <1>1
    <2>4. SumOf(ToSet(gstate.queue)
              \cup {lstate[t].work : t \in {u \in Task : pc[u] = "merge"}}) = 0
      BY <2>2, SumEmpty
    <2>5. Unflushed(gstate.entries) = 0
      BY <2>1, SumEmpty DEF Unflushed
    <2>. QED
      BY <2>3, <2>4, <2>5 DEF MemoryAccounted
  <1>18. TaskInv
    BY <1>3, <1>4, <1>7, <1>8 DEF TaskInv
  <1>. QED
    BY <1>13, <1>14, <1>15, <1>16, <1>17, <1>18 DEF DataInv, InsertInv

(* Every step of the tasks, and Finalize, keeps it. *)
LEMMA NextInsertInv == InsertInv /\ [Next]_vars => InsertInv'
  <1>. SUFFICES ASSUME TaskInv, DataInv, [Next]_vars  PROVE InsertInv'
    BY DEF InsertInv
  <1>1. IInv'
    BY NextIInv DEF TaskInv
  <1>2. ASSUME NEW t \in Task, Frame(t)
        PROVE  TypeOK' /\ Phases' /\ HeldOnce' /\ DataInv'
    <2>1. TypeOK' /\ DataInv'
      BY <1>1, <1>2, FrameTypes, FrameData
    <2>. QED
      BY <1>2, <2>1 DEF Frame
  <1>3. ASSUME NEW t \in Task, Step(t)
        PROVE  TypeOK' /\ Phases' /\ HeldOnce' /\ DataInv'
    <2>1. CASE Register(t) \/ Fetch(t) \/ UpdateBatchIndex(t)
      BY <1>1, <1>2, <2>1, RegisterFrame, FetchFrame, UpdateBatchIndexFrame
    <2>2. CASE WakeOrMerge(t) \/ NextBatchEnd(t) \/ NoTask(t)
      BY <1>2, <2>2, WakeOrMergeFrame, NextBatchEndFrame, NoTaskFrame
    <2>3. CASE SinkBegin(t) \/ SinkCheckMemory(t) \/ SinkWait(t)
      BY <1>2, <2>3, SinkBeginFrame, SinkCheckMemoryFrame, SinkWaitFrame
    <2>4. CASE FinishInitialiseStats(t) \/ Combine(t)
      BY <1>2, <2>4, FinishInitialiseStatsFrame, CombineFrame
    <2>5. CASE AddCollection(t) \/ SinkAppend(t)
      BY <1>1, <2>5, AddCollectionKeeps, SinkAppendKeeps
    <2>6. CASE TakeTask(t) \/ Merge(t) \/ Publish(t)
      BY <1>1, <2>6, TakeTaskKeeps, MergeKeeps, PublishKeeps
    <2>. QED
      BY <1>3, <2>1, <2>2, <2>3, <2>4, <2>5, <2>6 DEF Step
  <1>4. CASE Finalize
    BY <1>1, <1>4, FinalizeKeeps DEF InsertInv, TaskInv
  <1>5. CASE UNCHANGED vars
    BY <1>1, <1>5, StutterKeeps DEF InsertInv, TaskInv
  <1>6. CASE \E t \in Task : Step(t)
    BY <1>1, <1>3, <1>6 DEF InsertInv, TaskInv
  <1>. QED
    BY <1>4, <1>5, <1>6 DEF Next

(* A finished statement has inserted every row in the order of the source. *)
LEMMA FinishedInOrder ==
    ASSUME TaskInv, DataInv
    PROVE  InsertedInOrder
  <1>. SUFFICES ASSUME Finished  PROVE table = InSourceOrder
    BY DEF InsertedInOrder
  <1>1. input \in Inputs /\ gstate.entries = <<>> /\ \A t \in Task : pc[t] = "done"
    BY TypesNow DEF TaskInv, Finished
  <1>2. Delivered = Chunked
    BY <1>1, DoneDelivered
  <1>3. InSourceOrder = Of(Chunked)
    BY <1>1, OfAll
  <1>4. Entries = {}
    <2>1. gstate.entries \in Seq(Entry) /\ DOMAIN gstate.entries = {}
      BY <1>1
    <2>2. ToSet(gstate.entries) = {gstate.entries[i] : i \in DOMAIN gstate.entries}
      BY <2>1, SeqElements
    <2>. QED
      BY <2>1, <2>2 DEF Entries
  <1>5. CASE table = <<>> /\ \A d \in Delivered : \E e \in Entries : e.batch <= d
    <2>1. Chunked = {}
      BY <1>2, <1>4, <1>5
    <2>. QED
      BY <1>1, <1>3, <1>5, <2>1, OfEmpty
  <1>6. CASE table = Of(Chunked)
    BY <1>3, <1>6
  <1>. QED
    BY <1>5, <1>6 DEF DataInv, Covered

(* Every reachable state of the statement is one of the invariant. *)
THEOREM InsertInvariant == Spec => []InsertInv
  BY InitInsertInv, NextInsertInv, PTL DEF Spec

(* The variables of the statement keep their types, for every input. *)
THEOREM TypeCorrect == Spec => []TypeOK
  <1>1. InsertInv => TypeOK
    BY DEF InsertInv, TaskInv
  <1>. QED
    BY <1>1, InsertInvariant, PTL

(* None of the InternalExceptions of PhysicalBatchInsert, its memory manager and the
   pipeline's batch indexes is ever thrown. *)
THEOREM NeverThrows == Spec => []NothingThrown
  <1>1. InsertInv => NothingThrown
    BY DEF InsertInv, DataInv
  <1>. QED
    BY <1>1, InsertInvariant, PTL

(* INSERT ... SELECT keeps the order of the source, for any number of tasks and
   batches and any amount of memory. *)
THEOREM OrderKept == Spec => []InsertedInOrder
  <1>1. InsertInv => InsertedInOrder
    BY FinishedInOrder DEF InsertInv
  <1>. QED
    BY <1>1, InsertInvariant, PTL

(* Every entry without a collection waits for exactly one merge, and every merge has
   its entry. *)
THEOREM NoMergeLost == Spec => []MergesAwaited
  <1>1. InsertInv => MergesAwaited
    BY DEF InsertInv, DataInv
  <1>. QED
    BY <1>1, InsertInvariant, PTL

(* unflushed_memory_usage is what entries and merge tasks account for. *)
THEOREM AccountsKept == Spec => []MemoryAccounted
  <1>1. InsertInv => MemoryAccounted
    BY DEF InsertInv, DataInv
  <1>. QED
    BY <1>1, InsertInvariant, PTL

================================================================================
