----------------------------- MODULE ClusterStats -----------------------------
(***************************************************************************)
(* ClusterAdditionalStats for the numeric types: the values of the         *)
(* partition as at most `slots' intervals, separated by its widest gaps,   *)
(* in two arrays of `slots' elements, the template parameter N: 10, 50 or  *)
(* 200, and 1 for MIN_MAX.                                                 *)
(*                                                                         *)
(* The code sorts the vector.  Equal neighbours have gap 0 and never       *)
(* separate two clusters, so the sorted vector is the set of its values.   *)
(***************************************************************************)
EXTENDS ColumnValue, FiniteSets, SequencesExt

CONSTANT Modulus    \* 2^w for values of w bits: gaps are unsigned differences

ASSUME ModulusAssumption == Modulus \in Nat \ {0}

(* The value after v in the sorted data *)
Following(data, v) == Min({u \in data : u > v})

(* Faulty variant of Gap: the signed difference of the two's complement values. *)
GapSigned(left, right) ==
    LET gap == (right - left) % Modulus
    IN  IF 2 * gap >= Modulus THEN gap - Modulus ELSE gap

(* static_cast<U>(right) - static_cast<U>(left).  The differences of floating
   point values do not wrap, and neither does this: right follows left.       *)
Gap(left, right) == ((right % Modulus) - (left % Modulus)) % Modulus

(* A gap is known by its left end.  std::greater on the pairs of gap and index:
   wider gaps first, of equal ones the rightmost.                             *)
GapBefore(data, l, m) ==
    LET gapL == Gap(l, Following(data, l))
        gapM == Gap(m, Following(data, m))
    IN  gapL > gapM \/ (gapL = gapM /\ l > m)

(* Faulty variant of Cuts: one gap too few. *)
CutsFew(data, stop) ==
    LET gaps == data \ {Max(data)}
    IN  {l \in gaps :
            Cardinality({m \in gaps : GapBefore(data, m, l)}) < stop - 1}

(* The gaps chosen to separate clusters: the first `stop' of them. *)
Cuts(data, stop) ==
    LET gaps == data \ {Max(data)}
    IN  {l \in gaps :
            Cardinality({m \in gaps : GapBefore(data, m, l)}) < stop}

(* The k-th value of a set from the left *)
Ranked(values, k) ==
    CHOOSE v \in values : Cardinality({u \in values : u < v}) = k - 1

(* The clusters between the chosen gaps, as pairs of ends, from left to right. *)
FiniteClusters(data, stop) ==
    LET cuts == Cuts(data, stop)
        last == Cardinality(cuts) + 1
    IN  IF data = {} THEN <<>>
        ELSE [k \in 1..last |->
                <<IF k = 1 THEN Min(data)
                  ELSE Following(data, Ranked(cuts, k - 1)),
                  IF k = last THEN Max(data) ELSE Ranked(cuts, k)>>]

(* A special value of the data is a cluster of its own. *)
Own(values) == IF values = {} THEN <<>> ELSE << <<Max(values), Max(values)>> >>

Number(values) == IF values = {} THEN 0 ELSE 1

(* Faulty variants of Clusters: NaN is not counted among the slots taken; NaN
   gets no cluster.                                                           *)
ClustersNaNUncounted(data, slots) ==
    LET finite == data \cap Finite
        neg == data \cap {NegInf}
        pos == data \cap {PosInf}
        nan == data \cap NaN
    IN  IF slots = 1 \/ (slots < 4 /\ data # finite)
        THEN << <<Min(data), Max(data)>> >>
        ELSE Own(neg)
             \o FiniteClusters(finite, slots - 1 - Number(neg) - Number(pos))
             \o Own(pos) \o Own(nan)

ClustersWithoutNaN(data, slots) ==
    LET finite == data \cap Finite
        neg == data \cap {NegInf}
        pos == data \cap {PosInf}
        stop == slots - 1 - Number(neg) - Number(pos)
    IN  IF slots = 1 \/ (slots < 4 /\ data # finite) \/ data \subseteq NaN
        THEN << <<Min(data), Max(data)>> >>
        ELSE Own(neg) \o FiniteClusters(finite, stop) \o Own(pos)

(* The clusters of a partition with at least one value. *)
Clusters(data, slots) ==
    LET finite == data \cap Finite
        neg == data \cap {NegInf}
        pos == data \cap {PosInf}
        nan == data \cap NaN
    IN  IF slots = 1 \/ (slots < 4 /\ data # finite)
        THEN << <<Min(data), Max(data)>> >>
        ELSE Own(neg)
             \o FiniteClusters(finite, slots - 1 - Number(neg) - Number(pos)
                                                 - Number(nan))
             \o Own(pos) \o Own(nan)

(* Faulty variant of Cluster: an empty partition gets an interval of one value. *)
ClusterOfZero(data, slots) ==
    LET clusters == Clusters(Range(data), slots)
        slot(i) == clusters[IF i > Len(clusters) THEN Len(clusters) ELSE i]
    IN  IF data = <<>>
        THEN [type |-> "CLUSTER", min |-> [i \in 1..slots |-> 0],
                                  max |-> [i \in 1..slots |-> 0]]
        ELSE [type |-> "CLUSTER",
              min |-> [i \in 1..slots |-> slot(i)[1]],
              max |-> [i \in 1..slots |-> slot(i)[2]]]

(* Initialise.  Slots the clusters do not need repeat the last one.  Of an
   empty partition only the first slot is written, with an empty interval.    *)
Cluster(data, slots) ==
    LET clusters == Clusters(Range(data), slots)
        slot(i) == clusters[IF i > Len(clusters) THEN Len(clusters) ELSE i]
    IN  IF data = <<>>
        THEN [type |-> "CLUSTER", min |-> <<1>>, max |-> <<0>>]
        ELSE [type |-> "CLUSTER",
              min |-> [i \in 1..slots |-> slot(i)[1]],
              max |-> [i \in 1..slots |-> slot(i)[2]]]

(* FindLastIndexBeforePoint_Linear, which nothing calls: the last slot that
   does not start after the constant, 0 if all of them do.                    *)
FindLastLinear(min, constant) ==
    Cardinality({i \in 1..Len(min) :
                    \A j \in 1..i : ~GreaterThan(min[j], constant)})

(* Faulty variant of FindLast: the middle is rounded down. *)
FindLastDown(min, constant) ==
    LET search[slot \in (1..Len(min)) \X (0..Len(min))] ==
            LET lo == slot[1]
                hi == slot[2]
                mid == (lo + hi) \div 2
            IN  IF lo >= hi - 1 THEN lo
                ELSE IF GreaterThan(min[mid], constant) THEN search[<<lo, mid - 1>>]
                ELSE IF LessThan(min[mid], constant) THEN search[<<mid, hi>>]
                ELSE mid
    IN  IF GreaterThan(min[1], constant) THEN 0 ELSE search[<<1, Len(min)>>]

(* FindLastIndexBeforePoint_Binary: as above, but a slot that starts at the
   constant is taken as soon as it is found.                                  *)
FindLast(min, constant) ==
    LET search[slot \in (1..Len(min)) \X (0..Len(min))] ==
            LET lo == slot[1]
                hi == slot[2]
                mid == (lo + hi + 1) \div 2
            IN  IF lo >= hi THEN lo
                ELSE IF GreaterThan(min[mid], constant) THEN search[<<lo, mid - 1>>]
                ELSE IF LessThan(min[mid], constant) THEN search[<<mid, hi>>]
                ELSE mid
    IN  IF GreaterThan(min[1], constant) THEN 0 ELSE search[<<1, Len(min)>>]

(* Query_Equal answers FILTER_ALWAYS_FALSE *)
QueryEqual(s, constant) ==
    LET idx == FindLast(s.min, constant)
    IN  idx = 0 \/ ~GreaterThanEquals(s.max[idx], constant)

(* Faulty variant of ClusterQuery: the ends of the range are left out. *)
ClusterQueryOpen(s, comparison, constant) ==
    /\ ~RawGreater(s.min[1], s.max[1])
    /\ \/ comparison = "EQUAL" /\ QueryEqual(s, constant)
       \/ /\ comparison = "NOTEQUAL"
          /\ Equals(s.min[1], s.max[Len(s.max)]) /\ Equals(s.min[1], constant)
       \/ /\ comparison \in {"GREATERTHANOREQUALTO", "GREATERTHAN"}
          /\ ~GreaterThan(s.max[Len(s.max)], constant)
       \/ /\ comparison \in {"LESSTHANOREQUALTO", "LESSTHAN"}
          /\ ~LessThan(s.min[1], constant)

(* Query answers FILTER_ALWAYS_FALSE.  The strict comparisons are answered as
   the others.                                                                *)
ClusterQuery(s, comparison, constant) ==
    /\ ~RawGreater(s.min[1], s.max[1])
    /\ \/ comparison = "EQUAL" /\ QueryEqual(s, constant)
       \/ /\ comparison = "NOTEQUAL"
          /\ Equals(s.min[1], s.max[Len(s.max)]) /\ Equals(s.min[1], constant)
       \/ /\ comparison \in {"GREATERTHANOREQUALTO", "GREATERTHAN"}
          /\ ~GreaterThanEquals(s.max[Len(s.max)], constant)
       \/ /\ comparison \in {"LESSTHANOREQUALTO", "LESSTHAN"}
          /\ ~LessThanEquals(s.min[1], constant)

(* Faulty variant of ClusterQueryRange: the cluster after the one found is not
   looked at.                                                                 *)
ClusterQueryRangeOne(s, start, end) ==
    LET idx == FindLast(s.min, start)
    IN  /\ ~RawGreater(s.min[1], s.max[1])
        /\ IF idx = 0 THEN GreaterThan(s.min[1], end)
           ELSE ~GreaterThanEquals(s.max[idx], start)

(* QueryRange answers FILTER_ALWAYS_FALSE: the range lies in a gap. *)
ClusterQueryRange(s, start, end) ==
    LET idx == FindLast(s.min, start)
    IN  /\ ~RawGreater(s.min[1], s.max[1])
        /\ IF idx = 0 THEN GreaterThan(s.min[1], end)
           ELSE /\ ~GreaterThanEquals(s.max[idx], start)
                /\ idx < Len(s.min) => ~LessThanEquals(s.min[idx + 1], end)
===============================================================================
