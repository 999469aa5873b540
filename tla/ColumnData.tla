------------------------------ MODULE ColumnData ------------------------------
(***************************************************************************)
(* One ColumnData: the part of a partition (row group) that owns its       *)
(* additional statistic.  column_data.hpp keeps, beside the statistic, the *)
(* values appended since it was last built, in static maps keyed by the    *)
(* object's address, and a flag that says the statistic may not be built   *)
(* any more.  The module has no variables: its operators map the record of *)
(* one column to the record a method leaves behind, and TableStats applies *)
(* them.                                                                   *)
(*                                                                         *)
(* A statistic is abstracted to the set of values it was built from; how   *)
(* clusters, Bloom filters and dictionaries represent that set, and what   *)
(* precision they lose, is the business of the modules named after them.   *)
(***************************************************************************)
EXTENDS Naturals

CONSTANTS
    Value,          \* the non-NULL values of the column
    Null,           \* SQL NULL
    NoStats,        \* additional_stats == NULL
    EmptyPrunes     \* TRUE for the kinds whose statistic of no value at all
                    \* rules out every constant (Bloom, dictionary, string
                    \* clusters), FALSE for those for which it rules out none
                    \* (numeric min/max and clusters)

ASSUME NullAssumption == Null \notin Value
ASSUME NoStatsAssumption == \A S \in SUBSET Value : S # NoStats
ASSUME EmptyPrunesAssumption == EmptyPrunes \in BOOLEAN

Datum == Value \cup {Null}

ColumnRecord ==
    [temp: SUBSET Value,                   \* <type>_temp_vectors[this]
     stats: {NoStats} \cup SUBSET Value,   \* statistics.additional_stats
     invalid: BOOLEAN,                     \* additional_stats_invalidated
     hasNull: BOOLEAN,                     \* statistics.CanHaveNull()
     updated: BOOLEAN,                     \* updates != nullptr
     built: 0..2,                          \* how often InitStats built one, 2
                                           \* standing for "more than once"
     loaded: BOOLEAN]                      \* read back from the database file

(* A ColumnData constructed at an address: nothing erases the entry that an
   earlier object at the same address may have left in the temp maps.        *)
Fresh(x) ==
    [temp |-> x.temp, stats |-> NoStats, invalid |-> FALSE, hasNull |-> FALSE,
     updated |-> FALSE, built |-> 0, loaded |-> FALSE]

(* A ColumnData of a new process, created from the pointers in the file: the
   temp maps are empty, statistics are read back without an additional one.  *)
Loaded(x) ==
    [temp |-> {}, stats |-> NoStats, invalid |-> FALSE,
     hasNull |-> x.hasNull, updated |-> FALSE, built |-> 0, loaded |-> TRUE]

(* The address of an object of the previous process: nothing is left.        *)
Forgotten ==
    [temp |-> {}, stats |-> NoStats, invalid |-> FALSE, hasNull |-> FALSE,
     updated |-> FALSE, built |-> 0, loaded |-> FALSE]

(* Faulty variants of Appended: the validity mask is not looked at; the
   statistic outlives the append; the temp vector holds the last chunk only.  *)
AppendedWithNull(x, v) ==
    [x EXCEPT !.invalid = x.invalid \/ x.stats # NoStats,
              !.stats = NoStats,
              !.temp = x.temp \cup {v},
              !.hasNull = x.hasNull \/ v = Null]

AppendedKeeping(x, v) ==
    [x EXCEPT !.temp = x.temp \cup ({v} \ {Null}),
              !.hasNull = x.hasNull \/ v = Null]

AppendedLast(x, v) ==
    [x EXCEPT !.invalid = x.invalid \/ x.stats # NoStats,
              !.stats = NoStats,
              !.temp = {v} \ {Null},
              !.hasNull = x.hasNull \/ v = Null]

(* A value is copied to the temp vector unless it is NULL. *)
AppendTemp(temp, v) == temp \cup ({v} \ {Null})

(* Append of a value: a column that has a statistic is invalidated first. *)
Appended(x, v) ==
    [x EXCEPT !.invalid = x.invalid \/ x.stats # NoStats,
              !.stats = NoStats,
              !.temp = AppendTemp(x.temp, v),
              !.hasNull = x.hasNull \/ v = Null]

(* Faulty variant of Built: additional_stats_invalidated is not looked at.   *)
BuiltAnyway(x) ==
    [x EXCEPT !.temp = {}, !.stats = x.temp,
              !.built = IF x.built = 0 THEN 1 ELSE 2]

(* InitStats: build the statistic from the temp vector, unless the column has
   been invalidated, and erase the vector in both cases.                     *)
Built(x) ==
    IF x.invalid
    THEN [x EXCEPT !.temp = {}]
    ELSE [x EXCEPT !.temp = {}, !.stats = x.temp,
                   !.built = IF x.built = 0 THEN 1 ELSE 2]

(* The first half of UpdateInternal, under update_lock: the update segment is
   created and holds the new version.                                        *)
Updated(x) == [x EXCEPT !.updated = TRUE]

(* Faulty variants of Invalidated: only the pointer, or only the flag.        *)
InvalidatedPointer(x) == [x EXCEPT !.stats = NoStats]

InvalidatedFlag(x) == [x EXCEPT !.invalid = TRUE]

(* Its second half, under stats_lock.                                        *)
Invalidated(x) == [x EXCEPT !.invalid = TRUE, !.stats = NoStats]

(* RowGroup::Update then merges the statistics of the update segment, which
   never carry an additional statistic of their own.                         *)
UpdateMerged(x, v) == [x EXCEPT !.hasNull = x.hasNull \/ v = Null]

(* The statistic can answer FILTER_ALWAYS_FALSE for a filter that the data in
   `matching' satisfies.  A real statistic may still answer NO_PRUNING.      *)
Excludes(x, matching) ==
    /\ x.stats # NoStats
    /\ x.stats # {} \/ EmptyPrunes
    /\ x.stats \cap matching = {}

(* ConstantFilter::CheckStatistics answers FILTER_ALWAYS_FALSE: a column that
   may hold NULLs gets FILTER_FALSE_OR_NULL instead, which does not prune.   *)
FilterExcludes(x, matching) == ~x.hasNull /\ Excludes(x, matching)

-------------------------------------------------------------------------------
(* What the statistic of a column owes to its history. *)

(* The flags, the statistic and the temp vector of a column agree.  Nothing is
   known of the statistic of a column read back from the file: its old rows
   were never in the temp vector of this process.                            *)
Consistent(x) ==
    /\ x.invalid => x.stats = NoStats
    /\ ~x.invalid /\ ~x.loaded =>
          /\ x.built = 0 <=> x.stats = NoStats
          /\ x.built # 0 => x.temp = {}
          /\ x.built = 2 => x.stats = {}

(* The column accounts for a row with base value v. *)
Covers(x, v) ==
    \/ x.loaded
    \/ v = Null /\ x.hasNull
    \/ /\ v # Null
       /\ \/ x.invalid
          \/ x.built = 0 /\ v \in x.temp
          \/ x.built = 1 /\ v \in x.stats
          \/ x.built = 2

(* The histories after which a statistic may rule out a row it should not. *)
Excused(x) == x.loaded \/ (EmptyPrunes /\ x.built = 2)
===============================================================================
