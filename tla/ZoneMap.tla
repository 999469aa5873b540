------------------------------- MODULE ZoneMap -------------------------------
(***************************************************************************)
(* RowGroup::CheckZonemap: a scan asks whether it may skip a partition,    *)
(* and which of its filters it need not evaluate on the rows.  Filters are *)
(* trees whose leaves ask the statistic of the column; the answers have    *)
(* more than two values and are combined on the way up.  A pair of bounds  *)
(* found in a tree is also asked as one range.                             *)
(*                                                                         *)
(* The partition is the one of StatisticsSet, with or without a NULL among *)
(* its rows.  What updates do to the answer is part of TableStats.         *)
(***************************************************************************)
EXTENDS StatisticsSet

CONSTANTS
    Filters,        \* the filters on one column, with all their sub-filters
    FilterLists     \* the lists of filters of a scan, on columns that hold
                    \* the same values

Leaf == {"CONSTANT_COMPARISON", "IS_NULL", "IS_NOT_NULL", "IN_FILTER"}

Node == {"CONJUNCTION_AND", "CONJUNCTION_OR", "OPTIONAL_FILTER",
         "DYNAMIC_FILTER"}

(* The sub-filters of a filter: of a DYNAMIC_FILTER that is not initialised,
   none.                                                                      *)
Children(f) == IF f.type \in Leaf THEN {} ELSE Range(f.child_filters)

(* An OPTIONAL_FILTER has no or one child, a DYNAMIC_FILTER that is initialised
   one.                                                                       *)
ASSUME FiltersAssumption ==
    /\ \A f \in Filters :
          /\ f.type \in Leaf \cup Node
          /\ f.type = "CONSTANT_COMPARISON" =>
                f.comparison \in Comparison /\ f.constant \in Value
          /\ f.type = "IN_FILTER" => f.values \subseteq Value
          /\ f.type \in Node => f.child_filters \in Seq(Filters)
          /\ f.type \in {"OPTIONAL_FILTER", "DYNAMIC_FILTER"} =>
                Len(f.child_filters) <= 1
    /\ FilterLists \subseteq Seq(Filters)
ASSUME NullAssumption == Null \notin Value

Datum == Value \cup {Null}

(* The rows of the partition that hold no NULL, and all of them. *)
Rows(nulls) == Range(held) \cup (IF nulls THEN {Null} ELSE {})

(* The values that satisfy a filter, from those that satisfy its children. *)
SelectStep(f, selected) ==
    CASE f.type = "CONSTANT_COMPARISON" ->
            {d \in Value : Satisfies(d, f.comparison, f.constant)}
      [] f.type = "IS_NULL" -> {Null}
      [] f.type = "IS_NOT_NULL" -> Value
      [] f.type = "IN_FILTER" -> {d \in Value : \E v \in f.values : Equals(d, v)}
      [] f.type = "CONJUNCTION_OR" -> UNION {selected[child] : child \in Children(f)}
      [] OTHER -> {d \in Datum : \A child \in Children(f) : d \in selected[child]}

(* What a filter means as an expression of the query.  An OPTIONAL_FILTER means
   its child, which the join or the filter it was taken from evaluates above
   the scan.                                                                  *)
Selected[f \in Filters] == SelectStep(f, Selected)

(* What the scan lets pass when it evaluates a filter on the rows: of an
   OPTIONAL_FILTER, wherever it stands in the tree, everything.  IN_FILTER and
   DYNAMIC_FILTER are only ever below one.                                    *)
FilterSelection[f \in Filters] ==
    IF f.type = "OPTIONAL_FILTER" THEN Datum ELSE SelectStep(f, FilterSelection)

-------------------------------------------------------------------------------
(* CheckStatistics *)

(* ConstantFilter: of a column without values nothing is asked. *)
CheckConstant(f, nulls) ==
    CASE held = <<>> -> "FILTER_FALSE_OR_NULL"
      [] held # <<>> /\ ~Query(f.comparison, f.constant) -> "NO_PRUNING_POSSIBLE"
      [] OTHER -> IF nulls THEN "FILTER_FALSE_OR_NULL" ELSE "FILTER_ALWAYS_FALSE"

(* IsNullFilter, where left says that there may be NULLs and right that there
   may be other values, and IsNotNullFilter, where they change places.        *)
CheckNull(left, right) ==
    CASE ~left -> "FILTER_ALWAYS_FALSE"
      [] left /\ ~right -> "FILTER_ALWAYS_TRUE"
      [] OTHER -> "NO_PRUNING_POSSIBLE"

(* Faulty variant of AndResult: only prunable answers are told apart. *)
AndResultLoose(results) ==
    CASE "FILTER_ALWAYS_FALSE" \in Range(results) -> "FILTER_ALWAYS_FALSE"
      [] "FILTER_ALWAYS_TRUE" \in Range(results) -> "FILTER_ALWAYS_TRUE"
      [] OTHER -> "NO_PRUNING_POSSIBLE"

(* ConjunctionAndFilter, of the answers of its children. *)
AndResult(results) ==
    CASE "FILTER_ALWAYS_FALSE" \in Range(results) -> "FILTER_ALWAYS_FALSE"
      [] Range(results) \subseteq {"FILTER_ALWAYS_TRUE"} -> "FILTER_ALWAYS_TRUE"
      [] OTHER -> "NO_PRUNING_POSSIBLE"

(* ConjunctionOrFilter: the first child that is not ruled out decides; one
   that is false or NULL counts as ruled out.                                 *)
OrResult(results) ==
    LET open == {i \in DOMAIN results :
                    results[i] \in {"NO_PRUNING_POSSIBLE", "FILTER_ALWAYS_TRUE"}}
    IN  IF open = {} THEN "FILTER_ALWAYS_FALSE" ELSE results[Min(open)]

(* CheckStatistics of a filter, from what it is for its children.  A list of
   values is compared with DuckDB's own minimum and maximum, which this program
   does not keep.                                                             *)
CheckStep(f, check, nulls) ==
    CASE f.type = "CONSTANT_COMPARISON" -> CheckConstant(f, nulls)
      [] f.type = "IS_NULL" -> CheckNull(nulls, held # <<>>)
      [] f.type = "IS_NOT_NULL" -> CheckNull(held # <<>>, nulls)
      [] f.type = "IN_FILTER" -> "NO_PRUNING_POSSIBLE"
      [] f.type = "CONJUNCTION_AND" ->
            AndResult([i \in DOMAIN f.child_filters |-> check[f.child_filters[i]]])
      [] f.type = "CONJUNCTION_OR" ->
            OrResult([i \in DOMAIN f.child_filters |-> check[f.child_filters[i]]])
      [] OTHER -> IF f.child_filters = <<>> THEN "NO_PRUNING_POSSIBLE"
                  ELSE check[f.child_filters[1]]

CheckStatistics(nulls) ==
    LET check[f \in Filters] == CheckStep(f, check, nulls) IN check

-------------------------------------------------------------------------------
(* CheckZonemap of a row group *)

(* Faulty variant of Bound: the bounds below an OR are taken too. *)
BoundAnywhere(filter, comparisons) ==
    LET bound[f \in Filters] ==
            LET bounded == {i \in DOMAIN f.child_filters :
                               bound[f.child_filters[i]] # {}}
            IN  CASE f.type = "CONSTANT_COMPARISON" ->
                        IF f.comparison \in comparisons THEN {f.constant} ELSE {}
                  [] /\ f.type \in {"CONJUNCTION_AND", "CONJUNCTION_OR"}
                     /\ bounded # {} -> bound[f.child_filters[Min(bounded)]]
                  [] OTHER -> {}
    IN  bound[filter]

(* The bound of a kind that is kept, if the filter has one.  The stack visits
   the comparisons that the filter is a conjunction of from the right, and each
   overwrites the one before: it is the leftmost one.                         *)
Bound(filter, comparisons) ==
    LET bound[f \in Filters] ==
            LET bounded == {i \in DOMAIN f.child_filters :
                               bound[f.child_filters[i]] # {}}
            IN  CASE f.type = "CONSTANT_COMPARISON" ->
                        IF f.comparison \in comparisons THEN {f.constant} ELSE {}
                  [] f.type = "CONJUNCTION_AND" /\ bounded # {} ->
                        bound[f.child_filters[Min(bounded)]]
                  [] OTHER -> {}
    IN  bound[filter]

Lower(f) == Bound(f, {"GREATERTHAN", "GREATERTHANOREQUALTO"})

Upper(f) == Bound(f, {"LESSTHAN", "LESSTHANOREQUALTO"})

(* A filter with a lower and an upper bound is asked as a range. *)
Ranged(f) == Lower(f) # {} /\ Upper(f) # {}

BetweenSkip(f) == \E low \in Lower(f), high \in Upper(f) : QueryRange(low, high)

(* The partition is skipped: a filter is always false, or the last range asked
   has no values; between_case_skip is overwritten by every range.            *)
Skips(list, nulls) ==
    LET check == CheckStatistics(nulls)
        ranged == {i \in DOMAIN list : Ranged(list[i])}
    IN  \/ \E i \in DOMAIN list : check[list[i]] = "FILTER_ALWAYS_FALSE"
        \/ ranged # {} /\ BetweenSkip(list[Max(ranged)])

(* The filters that are not evaluated on the rows of a partition, if nothing
   in it has been updated.  RowGroupScan has the updates, and the reset of the
   labels before the next partition.                                          *)
SetAlwaysTrue(list, nulls) ==
    LET check == CheckStatistics(nulls)
    IN  {i \in DOMAIN list : \/ list[i].type = "OPTIONAL_FILTER"
                             \/ check[list[i]] = "FILTER_ALWAYS_TRUE"}

-------------------------------------------------------------------------------
(* Properties *)

(* A partition is skipped only if no row satisfies all the filters, whatever
   the shape of their trees and wherever NULLs are.                           *)
SkipsSound ==
    astats # NoStats =>
        \A list \in FilterLists, nulls \in BOOLEAN :
            Skips(list, nulls) =>
                \A d \in Rows(nulls) : \E i \in DOMAIN list : d \notin Selected[list[i]]

(* A filter that the scan leaves out would have let every row of the partition
   pass, the NULLs among them.                                                *)
LabelsSound ==
    astats # NoStats =>
        \A list \in FilterLists, nulls \in BOOLEAN :
            \A i \in SetAlwaysTrue(list, nulls) :
                Rows(nulls) \subseteq FilterSelection[list[i]]
===============================================================================
