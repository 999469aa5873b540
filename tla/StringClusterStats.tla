-------------------------- MODULE StringClusterStats --------------------------
(***************************************************************************)
(* ClusterAdditionalStats<std::string>: clusters of strings whose ends     *)
(* keep only a prefix and the length, and whose gaps are differences of    *)
(* numbers that the strings are folded into, with signed characters and    *)
(* 64-bit overflow.  The module is the life of one such statistic.         *)
(*                                                                         *)
(* A string is a sequence of bytes, 0..(Byte - 1); the engine and          *)
(* std::string both compare them unsigned.                                 *)
(***************************************************************************)
EXTENDS Integers, FiniteSets, SequencesExt

CONSTANTS
    String,         \* the strings of the column and the constants
    Byte,           \* 2^8: a char of that value or more than half is negative
    Radix,          \* 2^7, the factor of StringToLong
    Word,           \* 2^64, its overflow
    MinMaxSize,     \* CLUSTER_MAX_STRING_MINMAX_SIZE, 8
    Slots,          \* template parameter N
    MaxRows         \* bound: the rows of the partition

ASSUME StringAssumption ==
    /\ {Byte, Radix, Word, MinMaxSize, Slots} \subseteq Nat \ {0}
    /\ String \subseteq Seq(0..(Byte - 1))

VARIABLES
    temp,       \* the temp vector of the column
    built,      \* a statistic has been built
    min,        \* its min_values
    max,        \* its max_values
    held        \* history: the vector it was built from

vars == <<temp, built, min, max, held>>

Comparison == {"EQUAL", "NOTEQUAL", "LESSTHAN", "LESSTHANOREQUALTO",
               "GREATERTHAN", "GREATERTHANOREQUALTO"}

Least(m, n) == IF m < n THEN m ELSE n

(* The first position at which two strings differ within n bytes, 0 if none. *)
Differs(left, right, n) ==
    LET at == {i \in 1..n : left[i] # right[i]}
    IN  IF at = {} THEN 0 ELSE Min(at)

(* std::string::compare, the order of the engine *)
Less(left, right) ==
    LET i == Differs(left, right, Least(Len(left), Len(right)))
    IN  IF i = 0 THEN Len(left) < Len(right) ELSE left[i] < right[i]

Satisfies(value, comparison, constant) ==
    \/ comparison = "EQUAL" /\ value = constant
    \/ comparison = "NOTEQUAL" /\ value # constant
    \/ comparison \in {"LESSTHAN", "LESSTHANOREQUALTO"} /\ Less(value, constant)
    \/ comparison \in {"GREATERTHAN", "GREATERTHANOREQUALTO"}
          /\ Less(constant, value)
    \/ /\ comparison \in {"LESSTHANOREQUALTO", "GREATERTHANOREQUALTO"}
       /\ value = constant

-------------------------------------------------------------------------------
(* ConstructValue: a prefix of the string, and its whole length. *)
ConstructValue(string) ==
    [data |-> SubSeq(string, 1, Least(Len(string), MinMaxSize)),
     size |-> Len(string)]

(* Faulty variants of StringValueComparison: equal prefixes are taken to be
   equal strings up to their lengths; the lengths are not looked at.          *)
StringValueComparisonPrefix(value, bound) ==
    LET i == Differs(value, bound.data, Least(Len(value), Len(bound.data)))
    IN  [order |-> IF i = 0 THEN 0 ELSE IF value[i] < bound.data[i] THEN -1 ELSE 1,
         exact |-> i # 0]

StringValueComparisonShort(value, bound) ==
    LET i == Differs(value, bound.data, Least(Len(value), Len(bound.data)))
    IN  IF i # 0
        THEN [order |-> IF value[i] < bound.data[i] THEN -1 ELSE 1, exact |-> TRUE]
        ELSE [order |-> IF Len(value) < bound.size THEN -1
                        ELSE IF Len(value) > bound.size THEN 1 ELSE 0,
              exact |-> TRUE]

(* StringValueComparison: the order of a string and the end of a cluster, and
   whether the prefix was enough to tell.  If it was not the order is 0.      *)
StringValueComparison(value, bound) ==
    LET i == Differs(value, bound.data, Least(Len(value), Len(bound.data)))
        short == Len(value) <= MinMaxSize
    IN  IF i # 0
        THEN [order |-> IF value[i] < bound.data[i] THEN -1 ELSE 1, exact |-> TRUE]
        ELSE IF bound.size <= MinMaxSize
        THEN [order |-> IF Len(value) < bound.size THEN -1
                        ELSE IF Len(value) > bound.size THEN 1 ELSE 0,
              exact |-> TRUE]
        ELSE [order |-> IF short THEN -1 ELSE 0, exact |-> short]

(* StringToLong: chars are signed, shifted by 7 bits, and overflow. *)
StringToLong(string) ==
    LET Signed(c) == IF 2 * c >= Byte THEN c - Byte ELSE c
        res[n \in 0..Len(string)] ==
            IF n = 0 THEN 0 ELSE (res[n - 1] * Radix + Signed(string[n])) % Word
    IN  res[Len(string)]

Following(data, v) ==
    CHOOSE u \in data : Less(v, u) /\ \A w \in data : Less(v, w) => ~Less(w, u)

Smallest(data) == CHOOSE u \in data : \A w \in data : ~Less(w, u)

Greatest(data) == CHOOSE u \in data : \A w \in data : ~Less(u, w)

Gap(data, l) == (StringToLong(Following(data, l)) - StringToLong(l)) % Word

(* The gaps chosen, by their left ends: widest first, of equal ones the
   rightmost, none of width 0.                                                *)
Cuts(data) ==
    LET gaps == {l \in data \ {Greatest(data)} : Gap(data, l) # 0}
        before(l, m) == \/ Gap(data, l) > Gap(data, m)
                        \/ Gap(data, l) = Gap(data, m) /\ Less(m, l)
    IN  {l \in gaps : Cardinality({m \in gaps : before(m, l)}) < Slots - 1}

(* The strings at which the clusters start and those at which they end, with
   the unneeded slots repeating the last cluster.                             *)
Slot(ends, i) ==
    CHOOSE v \in ends :
        Cardinality({u \in ends : Less(u, v)}) + 1 = Least(i, Cardinality(ends))

(* Faulty variant of Starts: data[idx] for data[idx + 1]. *)
StartsAtEnds(data) == {Smallest(data)} \cup Cuts(data)

Starts(data) == {Smallest(data)} \cup {Following(data, l) : l \in Cuts(data)}

Ends(data) == Cuts(data) \cup {Greatest(data)}

(* The min_values and max_values Initialise leaves. *)
MinValues(data) ==
    [i \in 1..Slots |-> ConstructValue(IF data = {} THEN <<>>
                                       ELSE Slot(Starts(data), i))]

MaxValues(data) ==
    [i \in 1..Slots |-> ConstructValue(IF data = {} THEN <<>>
                                       ELSE Slot(Ends(data), i))]

(* Query_inner answers FILTER_ALWAYS_FALSE for one cluster. *)
QueryInner(i, comparison, constant) ==
    LET minComp == StringValueComparison(constant, min[i])
        maxComp == StringValueComparison(constant, max[i])
    IN  \/ comparison = "EQUAL" /\ (minComp.order < 0 \/ maxComp.order > 0)
        \/ /\ comparison = "NOTEQUAL"
           /\ minComp = [order |-> 0, exact |-> TRUE]
           /\ maxComp = [order |-> 0, exact |-> TRUE]
        \/ /\ comparison \in {"GREATERTHANOREQUALTO", "GREATERTHAN"}
           /\ maxComp.order > 0
        \/ /\ comparison \in {"LESSTHANOREQUALTO", "LESSTHAN"}
           /\ minComp.order < 0

(* Query answers FILTER_ALWAYS_FALSE.  QueryRange never does. *)
Query(comparison, constant) ==
    built /\ \A i \in 1..Slots : QueryInner(i, comparison, constant)

-------------------------------------------------------------------------------
Init ==
    /\ temp = <<>> /\ held = <<>>
    /\ built = FALSE
    /\ min = <<>> /\ max = <<>>

AppendTempString(value) ==
    /\ ~built
    /\ Len(temp) < MaxRows
    /\ temp' = Append(temp, value)
    /\ UNCHANGED <<built, min, max, held>>

(* InitStats: Initialise from the collected strings. *)
InitStats ==
    /\ ~built
    /\ built' = TRUE
    /\ min' = MinValues(Range(temp))
    /\ max' = MaxValues(Range(temp))
    /\ held' = temp
    /\ temp' = <<>>

Next ==
    \/ \E value \in String : AppendTempString(value)
    \/ InitStats

Spec == Init /\ [][Next]_vars

-------------------------------------------------------------------------------
Matching(comparison, constant) ==
    {v \in Range(held) : Satisfies(v, comparison, constant)}

(* No query rules out a partition that holds a matching string, although the
   ends of the clusters are known by prefix and length only.                  *)
NoFalsePrune ==
    \A comparison \in Comparison, constant \in String :
        Query(comparison, constant) => Matching(comparison, constant) = {}

(* For strings that fit in the prefix nothing is lost at the two ends of the
   partition: a constant beyond them is always ruled out.                     *)
ShortStringsExact ==
    (/\ built /\ held # <<>>
     /\ \A v \in Range(held) : Len(v) <= MinMaxSize)
    =>
        \A constant \in String :
            /\ Query("GREATERTHANOREQUALTO", constant) <=>
                   Matching("GREATERTHANOREQUALTO", constant) = {}
            /\ Query("LESSTHANOREQUALTO", constant) <=>
                   Matching("LESSTHANOREQUALTO", constant) = {}

(* However the folding into numbers orders the strings, the clusters are in
   order and disjoint: each ends before the next one starts, or repeats it.   *)
ClustersOrdered ==
    built /\ held # <<>> =>
        LET data == Range(held)
        IN  \A i \in 1..(Slots - 1) :
                \/ min[i + 1] = min[i] /\ max[i + 1] = max[i]
                \/ Less(Slot(Ends(data), i), Slot(Starts(data), i + 1))
===============================================================================
