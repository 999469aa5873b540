------------------------------ MODULE MCZoneMap ------------------------------
(* TLC instance of ZoneMap, and of StatisticsSet below it: filters of two levels. *)
EXTENDS MCStatisticsSet, ZoneMap

(* InitStats makes the same statistic of the values in any order and however
   often each comes: Initialise sorts them, where equal neighbours have no gap
   between them, or inserts each in a set.  Each once, in order, is enough.   *)
InOrder == \A i, j \in DOMAIN temp : i < j => temp[i] < temp[j]

Comparing(comparison, constant) ==
    [type |-> "CONSTANT_COMPARISON", comparison |-> comparison,
     constant |-> constant]

MCLeaves ==
    {Comparing("EQUAL", 0), Comparing("NOTEQUAL", 3),
     Comparing("GREATERTHAN", 1), Comparing("GREATERTHANOREQUALTO", 2),
     Comparing("LESSTHAN", 1),
     [type |-> "IS_NULL"], [type |-> "IS_NOT_NULL"],
     [type |-> "IN_FILTER", values |-> {0, 3}]}

Trees(types, parts) == [type : types, child_filters : parts]

MCPairs ==
    Trees({"CONJUNCTION_AND", "CONJUNCTION_OR"}, MCLeaves \X MCLeaves)

MCBounds == <<Comparing("GREATERTHANOREQUALTO", 2), Comparing("LESSTHAN", 1)>>

(* DynamicFilterData holds a comparison. *)
MCSingles ==
    Trees({"OPTIONAL_FILTER", "CONJUNCTION_OR"}, {<<f>> : f \in MCLeaves})
        \cup Trees({"DYNAMIC_FILTER"},
                   {<<f>> : f \in {h \in MCLeaves : h.type = "CONSTANT_COMPARISON"}})

MCNested ==
    Trees({"CONJUNCTION_AND", "CONJUNCTION_OR"},
          {<<f, g>> : f \in {h \in MCPairs : \/ h.child_filters[1].type = "IS_NULL"
                                            \/ h.child_filters = MCBounds},
                      g \in {Comparing("GREATERTHAN", 1), [type |-> "IS_NULL"]}})

MCFilters ==
    MCLeaves \cup MCPairs \cup MCSingles \cup MCNested
        \cup {[type |-> "DYNAMIC_FILTER", child_filters |-> <<>>]}

MCRanges == {f \in MCPairs : Ranged(f)}

MCFilterLists ==
    {<<f>> : f \in MCFilters}
        \cup {<<f, g>> : f \in MCRanges, g \in MCLeaves}
        \cup {<<f, g>> : f \in {h \in MCRanges : h.child_filters = MCBounds},
                         g \in MCRanges}
        \cup {<<g, f>> : f \in {h \in MCRanges : h.child_filters = MCBounds},
                         g \in MCRanges}
===============================================================================
