---------------------------- MODULE StatisticsSet ----------------------------
(***************************************************************************)
(* StatisticsSet, which dispatches to the kind of statistic a column has,  *)
(* and the life of one statistic: values are collected, InitStats builds a *)
(* statistic of the kind from them, queries are answered from it.          *)
(* ColumnData abstracts every kind to the set of values it was built from; *)
(* this module is where that abstraction is earned.                        *)
(***************************************************************************)
EXTENDS ClusterStats, DictionaryStats, BloomStats

CONSTANTS
    Slots,      \* the slots of CLUSTER_SMALL, 10, _MEDIUM, 50, or _LARGE, 200
    Types,      \* the kinds -statistic or the mapping file can choose
    MaxRows,    \* bound: the rows of the partition
    Null,       \* as in ColumnData
    NoStats

VARIABLES
    type,       \* the kind of this column, the mapping's or default_type
    temp,       \* the temp vector of the column
    astats,     \* stats.additional_stats
    mapLocked,  \* map_mutex is held when no method runs
    held        \* history: the vector the statistic was built from

vars == <<type, temp, astats, mapLocked, held>>

ASSUME TypesAssumption ==
    /\ Slots \in Nat \ {0} /\ MaxRows \in Nat
    /\ Types \subseteq {"ERROR", "NONE", "MIN_MAX", "CLUSTER", "BLOOM",
                        "DICTIONARY", "other"}

(* construct, which returns NULL for a number that is no STATISTIC_TYPE. *)
Construct(data) ==
    CASE type = "NONE" -> [type |-> "NONE"]
      [] type = "MIN_MAX" -> Cluster(data, 1)
      [] type = "CLUSTER" -> Cluster(data, Slots)
      [] type = "BLOOM" -> Bloom(data)
      [] type = "DICTIONARY" -> Dictionary(data)
      [] OTHER -> NoStats

(* Query, or QueryAdditionalStats on a NULL pointer. *)
Query(comparison, constant) ==
    /\ astats # NoStats
    /\ \/ astats.type = "CLUSTER" /\ ClusterQuery(astats, comparison, constant)
       \/ astats.type = "BLOOM" /\ BloomQuery(astats, comparison, constant)
       \/ /\ astats.type = "DICTIONARY"
          /\ DictionaryQuery(astats, comparison, constant)

(* QueryRange, which Bloom filters and EmptyAdditionalStats never prune by. *)
QueryRange(start, end) ==
    /\ astats # NoStats
    /\ \/ astats.type = "CLUSTER" /\ ClusterQueryRange(astats, start, end)
       \/ astats.type = "DICTIONARY" /\ DictionaryQueryRange(astats, start, end)

-------------------------------------------------------------------------------
Init ==
    /\ type \in Types
    /\ temp = <<>>
    /\ astats = NoStats
    /\ mapLocked = FALSE
    /\ held = <<>>

(* AppendTemp of one value; the values of a chunk are appended one by one
   under map_mutex.                                                           *)
AppendTemp(value) ==
    /\ ~mapLocked
    /\ held = <<>> /\ astats = NoStats
    /\ Len(temp) < MaxRows
    /\ temp' = Append(temp, value)
    /\ UNCHANGED <<type, astats, mapLocked, held>>

(* Faulty variant of InitStats: map_mutex is not released. *)
InitStatsKeepingLock ==
    /\ ~mapLocked
    /\ type # "ERROR"
    /\ astats = NoStats /\ held = <<>>
    /\ astats' = Construct(temp)
    /\ held' = temp
    /\ temp' = <<>>
    /\ mapLocked' = TRUE
    /\ UNCHANGED type

(* InitStats: the statistic of the collected values.  A partition is built
   once here; what a second InitStats does is a question for TableStats.      *)
InitStats ==
    /\ ~mapLocked
    /\ type # "ERROR"
    /\ astats = NoStats /\ held = <<>>
    /\ astats' = Construct(temp)
    /\ held' = temp
    /\ temp' = <<>>
    /\ UNCHANGED <<type, mapLocked>>

(* construct throws for the kind ERROR.  stats_lock is released by its guard,
   map_mutex was locked by hand and stays so.                                 *)
InitStatsThrows ==
    /\ ~mapLocked
    /\ type = "ERROR"
    /\ mapLocked' = TRUE
    /\ UNCHANGED <<type, temp, astats, held>>

Next ==
    \/ \E value \in Value : AppendTemp(value)
    \/ InitStats
    \/ InitStatsThrows

Spec == Init /\ [][Next]_vars

-------------------------------------------------------------------------------
(* Every variable has its type.  map_mutex is only ever left locked by a kind
   that can not be built, and with nothing built.                             *)
TypeOK ==
    /\ type \in Types
    /\ temp \in Seq(Value) /\ Len(temp) <= MaxRows
    /\ held \in Seq(Value) /\ Len(held) <= MaxRows
    /\ mapLocked \in BOOLEAN
    /\ mapLocked => type = "ERROR" /\ astats = NoStats
    /\ astats # NoStats => astats.type = IF type = "MIN_MAX" THEN "CLUSTER" ELSE type

Matching(comparison, constant) ==
    {v \in Range(held) : Satisfies(v, comparison, constant)}

InRange(start, end) == {v \in Range(held) : Between(v, start, end)}

(* No kind rules out a partition that holds a matching row: Query for each
   comparison and constant, in the order the engine gives NaN and infinity.   *)
NoFalsePrune ==
    \A comparison \in Comparison, constant \in Value :
        Query(comparison, constant) => Matching(comparison, constant) = {}

(* Nor does QueryRange, for two bounds in either order. *)
NoFalseRangePrune ==
    \A start, end \in Value : QueryRange(start, end) => InRange(start, end) = {}

(* The kinds whose statistic of no value at all prunes everything. *)
PrunesEmpty(t) == t \in {"BLOOM", "DICTIONARY"}

Column == INSTANCE ColumnData WITH EmptyPrunes <- PrunesEmpty(type)

(* Every kind stays within what ColumnData lets a statistic answer, so that
   what TableStats shows of the abstract statistic holds of each of them.     *)
AsColumnDataAbstracts ==
    LET column == [Column!Forgotten EXCEPT
                     !.stats = IF astats = NoStats THEN NoStats ELSE Range(held)]
    IN  /\ \A comparison \in Comparison, constant \in Value :
              Query(comparison, constant) =>
                  Column!Excludes(column, Matching(comparison, constant))
        /\ \A start, end \in Value :
              QueryRange(start, end) =>
                  Column!Excludes(column, InRange(start, end))

(* ... and an empty partition is where the kinds really differ as EmptyPrunes
   says: the abstraction is not looser than the code.                         *)
EmptyPartition ==
    held = <<>> /\ astats # NoStats /\ type # "NONE" =>
        \A constant \in Value : Query("EQUAL", constant) <=> PrunesEmpty(type)

-------------------------------------------------------------------------------
(* Cluster statistics *)

Clustered == astats # NoStats /\ type \in {"MIN_MAX", "CLUSTER"} /\ held # <<>>

Size == IF type = "MIN_MAX" THEN 1 ELSE Slots

Classes == {{u \in Range(held) : Equals(u, v)} : v \in Range(held)}

(* Initialise never writes past the arrays, however many of the special values
   the partition has.                                                         *)
ClustersFit == Clustered => Len(Clusters(Range(held), Size)) <= Size

(* A column with no more distinct values than slots is answered exactly: no
   slot is lost to a gap that was not worth it, and the constant or the range
   prunes as soon as it could.                                                *)
FewValuesExact ==
    Clustered /\ Cardinality(Classes) <= Size =>
        /\ \A constant \in Value :
              Query("EQUAL", constant) <=> Matching("EQUAL", constant) = {}
        /\ \A start, end \in Value :
              ~GreaterThan(start, end) =>
                  (QueryRange(start, end) <=> InRange(start, end) = {})

(* What a choice of gaps leaves covered by clusters. *)
Covered(data, cuts) ==
    Max(data) - Min(data)
        - SumFunction([l \in cuts |-> Following(data, l) - l])

(* The gaps chosen are the best choice: no other one of as many gaps leaves
   less of the range of the values covered.  Says that the greedy choice on
   unsigned differences is the optimum on the values themselves.              *)
ClustersTightest ==
    Clustered /\ Range(held) \subseteq Finite =>
        LET data == Range(held)
            gaps == data \ {Max(data)}
        IN  \A cuts \in SUBSET gaps :
                Cardinality(cuts) < Size =>
                    Covered(data, Cuts(data, Size - 1)) <= Covered(data, cuts)

(* The binary search the queries use may stop at another slot than the linear
   one, but no constant and no range is answered differently.                 *)
SearchesAgree ==
    Clustered =>
        \A constant \in Value :
            LET binary == FindLast(astats.min, constant)
                linear == FindLastLinear(astats.min, constant)
            IN  \/ binary = linear
                \/ /\ binary # 0 /\ linear # 0
                   /\ Equals(astats.min[binary], constant)
                   /\ Equals(astats.min[linear], constant)

-------------------------------------------------------------------------------
(* Dictionaries and Bloom filters *)

(* A dictionary is given up exactly when the partition has too many values;
   until then only the strict comparisons, answered like the others, are
   inexact.                                                                   *)
DictionaryExact ==
    astats # NoStats /\ type = "DICTIONARY" =>
        /\ Cardinality(Range(held)) <= Limit /\ Range(held) \cap NaN = {}
              => astats.valid
        /\ astats.valid =>
              /\ \A comparison \in Comparison \ {"LESSTHAN", "GREATERTHAN"},
                    constant \in Value :
                    Query(comparison, constant) <=>
                        Matching(comparison, constant) = {}
              /\ \A start, end \in Value :
                    QueryRange(start, end) <=> InRange(start, end) = {}

(* Insert sets bits of the array only, and QueryUtil reads such bits only. *)
BitsInArray ==
    astats # NoStats /\ type = "BLOOM" =>
        astats.bits \cup UNION {{BitPosition(value, i) : i \in 1..Hashes} :
                                   value \in Value}
            \subseteq 0..(Blocks * BlockBits - 1)
===============================================================================
