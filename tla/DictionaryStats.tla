--------------------------- MODULE DictionaryStats ---------------------------
(***************************************************************************)
(* DictionaryAdditionalStats: the distinct values of the partition, as     *)
(* long as there are at most Limit of them.                                *)
(***************************************************************************)
EXTENDS ColumnValue, FiniteSets, Functions

CONSTANT Limit      \* template parameter N

ASSUME LimitAssumption == Limit \in Nat

(* std::unordered_set compares with ==, for which no NaN equals another: each
   NaN of the data is an element of its own.                                 *)
DictionarySize(data) ==
    Cardinality(Range(data) \ NaN)
        + Cardinality({i \in DOMAIN data : data[i] \in NaN})

(* Faulty variant of Dictionary: given up one element too early. *)
DictionaryEarly(data) ==
    IF DictionarySize(data) >= Limit
    THEN [type |-> "DICTIONARY", valid |-> FALSE, dictionary |-> {}]
    ELSE [type |-> "DICTIONARY", valid |-> TRUE, dictionary |-> Range(data)]

(* Initialise *)
Dictionary(data) ==
    IF DictionarySize(data) > Limit
    THEN [type |-> "DICTIONARY", valid |-> FALSE, dictionary |-> {}]
    ELSE [type |-> "DICTIONARY", valid |-> TRUE, dictionary |-> Range(data)]

(* The strict comparisons are answered as the others. *)
DictionaryMatch(elem, comparison, constant) ==
    CASE comparison = "EQUAL" -> Equals(elem, constant)
      [] comparison = "NOTEQUAL" -> ~Equals(elem, constant)
      [] comparison \in {"GREATERTHANOREQUALTO", "GREATERTHAN"} ->
            GreaterThanEquals(elem, constant)
      [] comparison \in {"LESSTHANOREQUALTO", "LESSTHAN"} ->
            LessThanEquals(elem, constant)

(* Query answers FILTER_ALWAYS_FALSE *)
DictionaryQuery(s, comparison, constant) ==
    /\ s.valid
    /\ \A elem \in s.dictionary : ~DictionaryMatch(elem, comparison, constant)

(* QueryRange answers FILTER_ALWAYS_FALSE *)
DictionaryQueryRange(s, start, end) ==
    /\ s.valid
    /\ \A elem \in s.dictionary : ~Between(elem, start, end)
===============================================================================
