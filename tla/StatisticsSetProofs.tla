------------------------- MODULE StatisticsSetProofs -------------------------
(***************************************************************************)
(* What each kind of statistic answers, for every partition: all of them   *)
(* are sound, dictionaries and the clusters of few values are exact,       *)
(* clusters and filters stay in their arrays.                              *)
(***************************************************************************)
EXTENDS StatisticsSet, FiniteOrders

-------------------------------------------------------------------------------
(* The engine's order of the values, in which all NaNs are one, as numbers. *)
Key(v) == IF v \in NaN THEN PosInf + 1 ELSE v

LEMMA ValuesInt ==
    /\ Value \subseteq Int /\ NaN \subseteq Int
    /\ PosInf \in Int /\ NegInf \in Int /\ NegInf < PosInf
    /\ \A v \in Value : v \in NaN => PosInf < v
    /\ \A v \in Value : v \notin NaN => NegInf <= v /\ v <= PosInf
    /\ \A v \in Value : Key(v) \in Int
  <1>1. /\ PosInf \in Int /\ NegInf \in Int /\ NegInf < PosInf
        /\ NaN \subseteq Int /\ Finite \subseteq Int
        /\ Special \subseteq {NegInf, PosInf} \cup NaN
    BY FiniteAssumption, SpecialAssumption
  <1>2. Value \subseteq Finite \cup {NegInf, PosInf} \cup NaN
    BY <1>1 DEF Value
  <1>3. /\ \A v \in Finite : NegInf < v /\ v < PosInf
        /\ \A v \in NaN : PosInf < v
    BY SpecialAssumption
  <1>4. Value \subseteq Int
    BY <1>1, <1>2
  <1>5. ASSUME NEW v \in Value
        PROVE  /\ v \in NaN => PosInf < v
               /\ v \notin NaN => NegInf <= v /\ v <= PosInf
               /\ Key(v) \in Int
    BY <1>1, <1>2, <1>3, <1>4 DEF Key
  <1>. QED
    BY <1>1, <1>4, <1>5

LEMMA KeyOrders ==
    ASSUME NEW u \in Value, NEW v \in Value
    PROVE  /\ Equals(u, v) <=> Key(u) = Key(v)
           /\ GreaterThan(u, v) <=> Key(u) > Key(v)
           /\ GreaterThanEquals(u, v) <=> Key(u) >= Key(v)
           /\ LessThan(u, v) <=> Key(u) < Key(v)
           /\ LessThanEquals(u, v) <=> Key(u) <= Key(v)
           /\ u <= v => Key(u) <= Key(v)
           /\ RawGreater(u, v) => Key(u) > Key(v)
  BY ValuesInt DEF Key, Equals, GreaterThan, GreaterThanEquals, LessThan,
     LessThanEquals, RawGreater

-------------------------------------------------------------------------------
(* The binary search *)

SearchRanges(min) == (1..Len(min)) \X (0..Len(min))

(* One turn of the search, given what the search answers for smaller ranges. *)
Halve(min, constant, search, slot) ==
    LET lo == slot[1]
        hi == slot[2]
        mid == (lo + hi + 1) \div 2
    IN  IF lo >= hi THEN lo
        ELSE IF GreaterThan(min[mid], constant) THEN search[<<lo, mid - 1>>]
        ELSE IF LessThan(min[mid], constant) THEN search[<<mid, hi>>]
        ELSE mid

IsSearch(search, min, constant) ==
    search = [slot \in SearchRanges(min) |-> Halve(min, constant, search, slot)]

(* The search asks for ranges that are smaller. *)
LEMMA HalveShrinks ==
    ASSUME NEW min, Len(min) \in Nat, NEW constant, NEW n \in Nat,
           NEW slot \in SearchRanges(min), slot[2] - slot[1] <= n + 1,
           NEW f, NEW g,
           \A s \in SearchRanges(min) : s[2] - s[1] <= n => f[s] = g[s]
    PROVE  Halve(min, constant, f, slot) = Halve(min, constant, g, slot)
  <1>. DEFINE lo == slot[1]
              hi == slot[2]
              mid == (lo + hi + 1) \div 2
  <1>1. lo \in 1..Len(min) /\ hi \in 0..Len(min)
    BY DEF SearchRanges
  <1>2. CASE lo >= hi
    BY <1>2 DEF Halve
  <1>3. CASE lo < hi
    <2>1. mid \in Int /\ lo < mid /\ mid <= hi
      BY <1>1, <1>3
    <2>2. <<lo, mid - 1>> \in SearchRanges(min) /\ <<mid, hi>> \in SearchRanges(min)
      BY <1>1, <2>1 DEF SearchRanges
    <2>3. (mid - 1) - lo <= n /\ hi - mid <= n
      BY <1>1, <2>1
    <2>4. f[<<lo, mid - 1>>] = g[<<lo, mid - 1>>] /\ f[<<mid, hi>>] = g[<<mid, hi>>]
      <3>1. ASSUME NEW a, NEW b, <<a, b>> \in SearchRanges(min), b - a <= n
            PROVE  f[<<a, b>>] = g[<<a, b>>]
        BY <3>1
      <3>. QED
        BY <2>2, <2>3, <3>1
    <2>. HIDE DEF mid
    <2>. QED
      BY <2>4, Zenon DEF Halve, mid
  <1>. QED
    BY <1>1, <1>2, <1>3

(* It comes to an end: there is a function that answers every range as the
   search does.                                                               *)
LEMMA SearchEnds ==
    ASSUME NEW min, Len(min) \in Nat, NEW constant
    PROVE  \E search : IsSearch(search, min, constant)
  <1>. DEFINE D == SearchRanges(min)
              Upto(n, f) == /\ f = [slot \in D |-> f[slot]]
                            /\ \A slot \in D : slot[2] - slot[1] <= n =>
                                  f[slot] = Halve(min, constant, f, slot)
              Counter == {n \in Nat : ~ \E f : Upto(n, f)}
  <1>1. Upto(0, [slot \in D |-> slot[1]])
    BY DEF Halve, SearchRanges
  <1>2. ASSUME NEW n \in Nat, NEW f, Upto(n, f)
        PROVE  Upto(n + 1, [slot \in D |-> Halve(min, constant, f, slot)])
    <2>. DEFINE g == [slot \in D |-> Halve(min, constant, f, slot)]
    <2>1. \A slot \in D : slot[2] - slot[1] <= n => f[slot] = g[slot]
      BY <1>2
    <2>2. ASSUME NEW slot \in D, slot[2] - slot[1] <= n + 1
          PROVE  g[slot] = Halve(min, constant, g, slot)
      <3>1. Halve(min, constant, f, slot) = Halve(min, constant, g, slot)
        <4>. HIDE DEF g
        <4>. QED
          BY <2>1, <2>2, HalveShrinks
      <3>. QED
        BY <3>1
    <2>. QED
      BY <2>2
  <1>3. \A n \in Nat : \E f : Upto(n, f)
    <2>1. SUFFICES ASSUME Counter # {} PROVE FALSE
      OBVIOUS
    <2>2. PICK n \in Counter : \A m \in Counter : n <= m
      BY <2>1, LeastNat
    <2>3. n # 0
      BY <1>1, <2>2
    <2>4. n - 1 \in Nat /\ n - 1 \notin Counter
      BY <2>2, <2>3
    <2>5. PICK f : Upto(n - 1, f)
      BY <2>4
    <2>6. Upto((n - 1) + 1, [slot \in D |-> Halve(min, constant, f, slot)])
      BY <2>4, <2>5, <1>2
    <2>. HIDE DEF Upto
    <2>. QED
      BY <2>2, <2>6
  <1>4. PICK f : Upto(Len(min), f)
    BY <1>3
  <1>5. \A slot \in D : f[slot] = Halve(min, constant, f, slot)
    <2>1. \A slot \in D : slot[2] - slot[1] <= Len(min)
      BY DEF SearchRanges
    <2>. QED
      BY <1>4, <2>1
  <1>6. f = [slot \in D |-> Halve(min, constant, f, slot)]
    BY <1>4, <1>5
  <1>. QED
    BY <1>6 DEF IsSearch

(* FindLastIndexBeforePoint_Binary is the search of all slots. *)
LEMMA FindLastSearches ==
    ASSUME NEW min, Len(min) \in Nat, NEW constant
    PROVE  \E search :
              /\ IsSearch(search, min, constant)
              /\ FindLast(min, constant) =
                    IF GreaterThan(min[1], constant) THEN 0
                    ELSE search[<<1, Len(min)>>]
  <1>. DEFINE search == CHOOSE s : IsSearch(s, min, constant)
  <1>1. IsSearch(search, min, constant)
    <2>. HIDE DEF IsSearch
    <2>. QED
      BY SearchEnds
  <1>2. FindLast(min, constant) =
           IF GreaterThan(min[1], constant) THEN 0 ELSE search[<<1, Len(min)>>]
    BY DEF FindLast, IsSearch, Halve, SearchRanges
  <1>. QED
    BY <1>1, <1>2

(* What a search for a constant is left with: the constant is not before the
   first slot of the range, and before the slot after it.                     *)
Bracketed(min, constant, lo, hi) ==
    /\ lo \in 1..Len(min) /\ hi \in lo..Len(min)
    /\ Key(min[lo]) <= Key(constant)
    /\ hi < Len(min) => Key(constant) < Key(min[hi + 1])

(* What it finds: the last slot that does not start after the constant, or one
   that starts at it.                                                         *)
Found(min, constant, idx) ==
    /\ idx \in 1..Len(min)
    /\ Key(min[idx]) <= Key(constant)
    /\ \/ idx = Len(min)
       \/ Key(constant) < Key(min[idx + 1])
       \/ Key(min[idx]) = Key(constant)

LEMMA SearchFinds ==
    ASSUME NEW min \in Seq(Value), NEW constant \in Value,
           NEW search, IsSearch(search, min, constant)
    PROVE  \A lo \in 1..Len(min), hi \in 0..Len(min) :
              Bracketed(min, constant, lo, hi) =>
                  Found(min, constant, search[<<lo, hi>>])
  <1>. DEFINE Good(lo, hi) == Bracketed(min, constant, lo, hi) =>
                                  Found(min, constant, search[<<lo, hi>>])
              Counter == {n \in Nat : \E lo \in 1..Len(min), hi \in 0..Len(min) :
                                         hi - lo = n /\ ~Good(lo, hi)}
  <1>1. ASSUME NEW lo \in 1..Len(min), NEW hi \in lo..Len(min),
               Bracketed(min, constant, lo, hi),
               \A l \in 1..Len(min), h \in 0..Len(min) :
                  h - l \in 0..(hi - lo - 1) => Good(l, h)
        PROVE  Found(min, constant, search[<<lo, hi>>])
    <2>. DEFINE mid == (lo + hi + 1) \div 2
    <2>1. search[<<lo, hi>>] = Halve(min, constant, search, <<lo, hi>>)
      <3>1. <<lo, hi>> \in SearchRanges(min)
        BY DEF SearchRanges
      <3>. HIDE DEF SearchRanges
      <3>. QED
        BY <3>1 DEF IsSearch
    <2>2. search[<<lo, hi>>] = IF lo >= hi THEN lo
                               ELSE IF GreaterThan(min[mid], constant)
                               THEN search[<<lo, mid - 1>>]
                               ELSE IF LessThan(min[mid], constant)
                               THEN search[<<mid, hi>>] ELSE mid
      BY <2>1 DEF Halve
    <2>3. CASE lo >= hi
      BY <1>1, <2>2, <2>3 DEF Bracketed, Found
    <2>4. CASE lo < hi
      <3>1. mid \in Int /\ lo < mid /\ mid <= hi
        BY <2>4
      <3>. HIDE DEF mid
      <3>2. min[mid] \in Value /\ Key(min[mid]) \in Int /\ Key(constant) \in Int
        <4>1. mid \in 1..Len(min)
          BY <3>1
        <4>2. min[mid] \in Value
          BY <4>1
        <4>. QED
          BY <4>2, ValuesInt
      <3>3. CASE GreaterThan(min[mid], constant)
        <4>1. Key(constant) < Key(min[mid])
          BY <3>2, <3>3, KeyOrders
        <4>2. Bracketed(min, constant, lo, mid - 1)
          BY <1>1, <3>1, <4>1 DEF Bracketed
        <4>3. Good(lo, mid - 1)
          BY <1>1, <3>1
        <4>. QED
          BY <2>2, <2>4, <3>3, <4>2, <4>3
      <3>4. CASE ~GreaterThan(min[mid], constant) /\ LessThan(min[mid], constant)
        <4>1. Key(min[mid]) <= Key(constant)
          BY <3>2, <3>4, KeyOrders
        <4>2. Bracketed(min, constant, mid, hi)
          BY <1>1, <3>1, <4>1 DEF Bracketed
        <4>3. Good(mid, hi)
          BY <1>1, <3>1
        <4>. QED
          BY <2>2, <2>4, <3>4, <4>2, <4>3
      <3>5. CASE ~GreaterThan(min[mid], constant) /\ ~LessThan(min[mid], constant)
        <4>1. Key(min[mid]) = Key(constant)
          BY <3>2, <3>5, KeyOrders
        <4>2. search[<<lo, hi>>] = mid
          <5>1. ~ (lo >= hi)
            BY <2>4
          <5>. QED
            BY <2>2, <3>5, <5>1, Zenon
        <4>3. Found(min, constant, mid)
          BY <3>1, <3>2, <4>1 DEF Found
        <4>. QED
          BY <4>2, <4>3
      <3>. QED
        BY <3>3, <3>4, <3>5
    <2>. QED
      BY <2>3, <2>4
  <1>2. SUFFICES ASSUME Counter # {} PROVE FALSE
    <2>1. ASSUME Counter = {}, NEW lo \in 1..Len(min), NEW hi \in 0..Len(min),
                 Bracketed(min, constant, lo, hi)
          PROVE  Found(min, constant, search[<<lo, hi>>])
      <3>1. hi - lo \in Nat
        BY <2>1 DEF Bracketed
      <3>. QED
        BY <2>1, <3>1
    <2>. QED
      BY <2>1
  <1>3. PICK n \in Counter : \A m \in Counter : n <= m
    BY <1>2, LeastNat
  <1>4. PICK lo \in 1..Len(min), hi \in 0..Len(min) : hi - lo = n /\ ~Good(lo, hi)
    BY <1>3
  <1>5. hi \in lo..Len(min)
    BY <1>3, <1>4
  <1>6. ASSUME NEW l \in 1..Len(min), NEW h \in 0..Len(min), h - l \in 0..(hi - lo - 1)
        PROVE  Good(l, h)
    <2>1. h - l \in Nat /\ h - l < n /\ n \in Nat
      BY <1>3, <1>4, <1>6
    <2>. HIDE DEF Good, Counter
    <2>2. h - l \notin Counter
      BY <1>3, <2>1
    <2>. QED
      BY <2>1, <2>2, Zenon DEF Counter
  <1>7. Bracketed(min, constant, lo, hi) /\ ~Found(min, constant, search[<<lo, hi>>])
    BY <1>4
  <1>8. \A l \in 1..Len(min), h \in 0..Len(min) :
           h - l \in 0..(hi - lo - 1) => Good(l, h)
    BY <1>6
  <1>. HIDE DEF Good
  <1>. QED
    BY <1>1, <1>5, <1>7, <1>8

(* FindLastIndexBeforePoint_Binary, of slots in any order. *)
LEMMA FindLastFinds ==
    ASSUME NEW min \in Seq(Value), min # <<>>, NEW constant \in Value
    PROVE  \/ /\ FindLast(min, constant) = 0
              /\ Key(constant) < Key(min[1])
           \/ Found(min, constant, FindLast(min, constant))
  <1>1. PICK search : /\ IsSearch(search, min, constant)
                      /\ FindLast(min, constant) =
                            IF GreaterThan(min[1], constant) THEN 0
                            ELSE search[<<1, Len(min)>>]
    BY FindLastSearches
  <1>2. 1 \in 1..Len(min) /\ min[1] \in Value
    OBVIOUS
  <1>3. Key(min[1]) \in Int /\ Key(constant) \in Int
    BY <1>2, ValuesInt
  <1>4. CASE GreaterThan(min[1], constant)
    BY <1>1, <1>2, <1>3, <1>4, KeyOrders
  <1>5. CASE ~GreaterThan(min[1], constant)
    <2>1. Bracketed(min, constant, 1, Len(min))
      BY <1>2, <1>3, <1>5, KeyOrders DEF Bracketed
    <2>. QED
      BY <1>1, <1>2, <1>5, <2>1, SearchFinds
  <1>. QED
    BY <1>4, <1>5

-------------------------------------------------------------------------------
(* The gaps chosen *)

Gaps(data) == data \ {Max(data)}

GapOrder(data) == {p \in Gaps(data) \X Gaps(data) : GapBefore(data, p[1], p[2])}

LEMMA FollowingNext ==
    ASSUME NEW data \in SUBSET Int, IsFiniteSet(data), NEW v \in data,
           NEW w \in data, v < w
    PROVE  /\ Following(data, v) \in data
           /\ v < Following(data, v)
           /\ \A u \in data : v < u => Following(data, v) <= u
  <1>. DEFINE S == {u \in data : u > v}
  <1>1. S \in SUBSET Int /\ S # {} /\ IsFiniteSet(S)
    BY FS_Subset
  <1>2. Min(S) \in S /\ \A u \in S : Min(S) <= u
    BY <1>1, MinMax
  <1>. QED
    BY <1>2 DEF Following

LEMMA GapOrderStrict ==
    ASSUME NEW data \in SUBSET Int, IsFiniteSet(data), data # {}
    PROVE  /\ IsFiniteSet(Gaps(data))
           /\ Cardinality(Gaps(data)) = Cardinality(data) - 1
           /\ StrictOrder(GapOrder(data), Gaps(data))
           /\ \A l \in Gaps(data) :
                 Before(GapOrder(data), Gaps(data), l)
                    = {m \in Gaps(data) : GapBefore(data, m, l)}
  <1>1. Max(data) \in data /\ \A u \in data : u <= Max(data)
    BY MinMax
  <1>2. /\ IsFiniteSet(Gaps(data))
        /\ Cardinality(Gaps(data)) = Cardinality(data) - 1
    BY <1>1, FS_RemoveElement DEF Gaps
  <1>3. ASSUME NEW l \in Gaps(data) PROVE Gap(l, Following(data, l)) \in Int
    <2>1. l < Max(data)
      <3>1. l \in data /\ l # Max(data) /\ l \in Int /\ Max(data) \in Int
        BY <1>1 DEF Gaps
      <3>. QED
        BY <1>1, <3>1
    <2>2. Following(data, l) \in Int /\ l \in Int
      BY <1>1, <2>1, FollowingNext DEF Gaps
    <2>. QED
      BY <2>2, ModulusAssumption DEF Gap
  <1>4. Gaps(data) \subseteq Int
    BY DEF Gaps
  <1>5. StrictOrder(GapOrder(data), Gaps(data))
    BY <1>3, <1>4 DEF StrictOrder, GapOrder, GapBefore
  <1>6. \A l \in Gaps(data) :
           Before(GapOrder(data), Gaps(data), l)
              = {m \in Gaps(data) : GapBefore(data, m, l)}
    BY DEF Before, GapOrder
  <1>. QED
    BY <1>2, <1>5, <1>6

(* At most `stop' gaps are chosen, and all of them if there are no more. *)
LEMMA CutsChosen ==
    ASSUME NEW data \in SUBSET Int, IsFiniteSet(data), data # {}, NEW stop \in Nat
    PROVE  /\ Cuts(data, stop) \subseteq Gaps(data)
           /\ IsFiniteSet(Cuts(data, stop))
           /\ Cardinality(Cuts(data, stop)) \in 0..stop
           /\ Cardinality(data) <= stop + 1 => Cuts(data, stop) = Gaps(data)
  <1>. DEFINE R == GapOrder(data)
              S == Gaps(data)
  <1>1. /\ IsFiniteSet(S) /\ StrictOrder(R, S)
        /\ Cardinality(S) = Cardinality(data) - 1
    BY GapOrderStrict
  <1>2. Cuts(data, stop) = {l \in S : Cardinality(Before(R, S, l)) < stop}
    BY GapOrderStrict DEF Cuts, Gaps
  <1>. HIDE DEF R, S
  <1>3. IsFiniteSet(Cuts(data, stop)) /\ Cardinality(Cuts(data, stop)) <= stop
    BY <1>1, <1>2, FirstRanks
  <1>4. Cardinality(Cuts(data, stop)) \in Nat /\ Cardinality(data) \in Nat
    BY <1>3, FS_CardinalityType
  <1>5. ASSUME Cardinality(data) <= stop + 1, NEW l \in S
        PROVE  l \in Cuts(data, stop)
    <2>1. Cardinality(Before(R, S, l)) \in 0..(Cardinality(S) - 1)
      BY <1>1, BeforeBound
    <2>2. Cardinality(Before(R, S, l)) < stop
      BY <1>1, <1>4, <1>5, <2>1
    <2>. QED
      BY <1>2, <2>2
  <1>6. Cuts(data, stop) \subseteq S
    BY <1>2
  <1>. QED
    BY <1>3, <1>4, <1>5, <1>6 DEF S

(* Gaps of values of w bits are not changed by the unsigned difference. *)
LEMMA GapIsWidth ==
    ASSUME NEW l \in Int, NEW r \in Int, l <= r, r - l < Modulus
    PROVE  Gap(l, r) = r - l
  <1>. DEFINE x == l % Modulus
              y == r % Modulus
              k == (r \div Modulus) - (l \div Modulus)
  <1>1. Modulus \in Nat \ {0}
    BY ModulusAssumption
  <1>2. /\ x \in 0..(Modulus - 1) /\ l = Modulus * (l \div Modulus) + x
        /\ y \in 0..(Modulus - 1) /\ r = Modulus * (r \div Modulus) + y
        /\ l \div Modulus \in Int /\ r \div Modulus \in Int
    BY <1>1
  <1>3. k \in Int /\ r - l = Modulus * k + (y - x)
    BY <1>1, <1>2
  <1>. HIDE DEF x, y, k
  <1>4. k = 0 \/ k = 1
    <2>1. ASSUME k <= -1 PROVE FALSE
      <3>1. Modulus * k <= -Modulus
        BY <1>1, <1>3, <2>1
      <3>. QED
        BY <1>1, <1>2, <1>3, <3>1
    <2>2. ASSUME k >= 2 PROVE FALSE
      <3>1. Modulus * k >= 2 * Modulus
        BY <1>1, <1>3, <2>2
      <3>. QED
        BY <1>1, <1>2, <1>3, <3>1
    <2>. QED
      BY <1>3, <2>1, <2>2
  <1>5. Gap(l, r) = (y - x) % Modulus
    BY DEF Gap, x, y
  <1>6. CASE k = 0
    <2>1. y - x = r - l /\ y - x \in 0..(Modulus - 1)
      BY <1>1, <1>2, <1>3, <1>6
    <2>. QED
      BY <1>1, <1>5, <2>1
  <1>7. CASE k = 1
    <2>1. y - x = (r - l) - Modulus /\ r - l \in 0..(Modulus - 1)
      BY <1>1, <1>2, <1>3, <1>7
    <2>2. ((r - l) - Modulus) % Modulus = r - l
      BY <1>1, <2>1
    <2>. QED
      BY <1>5, <2>1, <2>2
  <1>. QED
    BY <1>4, <1>6, <1>7

(* What a set of gaps leaves out of the clusters *)
Width(data, gaps) == SumFunction([l \in gaps |-> Following(data, l) - l])

(* No `stop' gaps are wider together than those chosen. *)
LEMMA WidestChosen ==
    ASSUME NEW data \in SUBSET Int, IsFiniteSet(data), data # {}, NEW stop \in Nat,
           \A u, v \in data : u - v < Modulus,
           NEW gaps \in SUBSET Gaps(data), Cardinality(gaps) <= stop
    PROVE  /\ Width(data, gaps) \in Nat
           /\ Width(data, Cuts(data, stop)) \in Nat
           /\ Width(data, gaps) <= Width(data, Cuts(data, stop))
  <1>. DEFINE S == Gaps(data)
              R == GapOrder(data)
              f == [l \in S |-> Following(data, l) - l]
  <1>1. /\ IsFiniteSet(S) /\ StrictOrder(R, S)
        /\ Cuts(data, stop) = {l \in S : Cardinality(Before(R, S, l)) < stop}
    BY GapOrderStrict DEF Cuts, Gaps
  <1>2. ASSUME NEW l \in S
        PROVE  /\ f[l] \in Nat
               /\ Gap(l, Following(data, l)) = f[l]
    <2>1. l \in data /\ Max(data) \in data /\ l < Max(data)
      <3>1. Max(data) \in data /\ \A u \in data : u <= Max(data)
        BY MinMax
      <3>2. l \in data /\ l # Max(data) /\ l \in Int /\ Max(data) \in Int
        BY <3>1 DEF Gaps
      <3>. QED
        BY <3>1, <3>2
    <2>2. Following(data, l) \in data /\ l < Following(data, l)
      BY <2>1, FollowingNext
    <2>3. Following(data, l) \in Int /\ l \in Int /\ f[l] = Following(data, l) - l
      BY <2>1, <2>2
    <2>4. Following(data, l) - l < Modulus
      BY <2>1, <2>2
    <2>. QED
      BY <2>2, <2>3, <2>4, GapIsWidth
  <1>3. \A u, v \in S : <<u, v>> \in R => f[v] <= f[u]
    <2>1. SUFFICES ASSUME NEW u \in S, NEW v \in S, <<u, v>> \in R
                   PROVE  f[v] <= f[u]
      OBVIOUS
    <2>2. GapBefore(data, u, v)
      BY <2>1 DEF GapOrder
    <2>3. f[u] \in Nat /\ f[v] \in Nat
      BY <1>2
    <2>. HIDE DEF f
    <2>. QED
      BY <1>2, <2>2, <2>3 DEF GapBefore
  <1>4. ASSUME NEW T \in SUBSET S
        PROVE  /\ Width(data, T) = Cardinality(Weight(f, T))
               /\ Width(data, T) \in Nat
    <2>. DEFINE g == [l \in T |-> Following(data, l) - l]
    <2>1. IsFiniteSet(T)
      BY <1>1, FS_Subset
    <2>2. \A l \in T : g[l] = f[l]
      OBVIOUS
    <2>3. g \in [T -> Nat]
      <3>1. \A l \in T : Following(data, l) - l \in Nat
        BY <1>2
      <3>. QED
        BY <3>1
    <2>4. Weight(g, T) = Weight(f, T)
      <3>. HIDE DEF f, g
      <3>. QED
        BY <2>2 DEF Weight
    <2>5. Width(data, T) = SumFunction(g)
      BY DEF Width
    <2>. HIDE DEF f, g
    <2>. QED
      BY <2>1, <2>3, <2>4, <2>5, SumIsWeight
  <1>. HIDE DEF f, R
  <1>5. Cardinality(Weight(f, gaps)) <= Cardinality(Weight(f, Cuts(data, stop)))
    <2>1. gaps \in SUBSET S /\ \A v \in S : f[v] \in Nat
      BY <1>2
    <2>. HIDE DEF S
    <2>2. Cardinality(Weight(f, gaps))
             <= Cardinality(Weight(f, {l \in S : Cardinality(Before(R, S, l)) < stop}))
      BY <1>1, <1>3, <2>1, FirstWeighMost
    <2>. QED
      BY <1>1, <2>2
  <1>6. Cuts(data, stop) \in SUBSET S
    BY <1>1
  <1>. QED
    BY <1>4, <1>5, <1>6

-------------------------------------------------------------------------------
(* The values of a set from left to right *)

Below(S, v) == {u \in S : u < v}

LEMMA RankedInOrder ==
    ASSUME NEW S \in SUBSET Int, IsFiniteSet(S), NEW k \in 1..Cardinality(S)
    PROVE  /\ Ranked(S, k) \in S
           /\ Cardinality(Below(S, Ranked(S, k))) = k - 1
  <1>1. \A j \in 0..(Cardinality(S) - 1) :
           \E v \in S : Cardinality({u \in S : u < v}) = j
    BY AscendingRank, Zenon
  <1>2. k - 1 \in 0..(Cardinality(S) - 1)
    <2>. DEFINE n == Cardinality(S)
    <2>1. n \in Nat /\ k \in 1..n
      BY FS_CardinalityType
    <2>. HIDE DEF n
    <2>2. k - 1 \in 0..(n - 1)
      BY <2>1
    <2>. QED
      BY <2>2 DEF n
  <1>3. \E v \in S : Cardinality({u \in S : u < v}) = k - 1
    BY <1>1, <1>2, Zenon
  <1>. QED
    BY <1>3, Zenon DEF Ranked, Below

LEMMA BelowGrows ==
    ASSUME NEW S \in SUBSET Int, IsFiniteSet(S), NEW v \in Int
    PROVE  /\ Cardinality(Below(S, v)) \in 0..Cardinality(S)
           /\ \A u \in Int : u <= v =>
                 Cardinality(Below(S, u)) <= Cardinality(Below(S, v))
           /\ \A u \in S : u < v =>
                 Cardinality(Below(S, u)) < Cardinality(Below(S, v))
           /\ v \in S => Cardinality(Below(S, v)) < Cardinality(S)
  <1>1. /\ IsFiniteSet(Below(S, v))
        /\ Cardinality(Below(S, v)) \in Nat /\ Cardinality(S) \in Nat
        /\ Cardinality(Below(S, v)) <= Cardinality(S)
    <2>1. Below(S, v) \in SUBSET S
      BY DEF Below
    <2>. QED
      BY <2>1, FS_Subset, FS_CardinalityType
  <1>2. ASSUME NEW u \in Int, u <= v
        PROVE  Cardinality(Below(S, u)) <= Cardinality(Below(S, v))
    <2>1. Below(S, u) \in SUBSET Below(S, v)
      <3>1. ASSUME NEW w \in S, w < u PROVE w < v
        <4>1. w \in Int
          OBVIOUS
        <4>. QED
          BY <1>2, <3>1, <4>1
      <3>. QED
        BY <3>1 DEF Below
    <2>. QED
      BY <1>1, <2>1, FS_Subset
  <1>3. ASSUME NEW u \in S, NEW T, IsFiniteSet(T), Below(S, u) \subseteq T \ {u}, u \in T
        PROVE  Cardinality(Below(S, u)) < Cardinality(T)
    <2>1. /\ IsFiniteSet(T \ {u}) /\ Cardinality(T \ {u}) = Cardinality(T) - 1
          /\ Cardinality(T) \in Nat
      BY <1>3, FS_RemoveElement, FS_CardinalityType
    <2>2. /\ Cardinality(Below(S, u)) <= Cardinality(T \ {u})
          /\ Cardinality(Below(S, u)) \in Nat
      BY <1>3, <2>1, FS_Subset, FS_CardinalityType
    <2>. QED
      BY <2>1, <2>2
  <1>4. ASSUME NEW u \in S, u < v
        PROVE  Cardinality(Below(S, u)) < Cardinality(Below(S, v))
    <2>1. Below(S, u) \subseteq Below(S, v) \ {u} /\ u \in Below(S, v)
      <3>1. ASSUME NEW w \in S, w < u PROVE w < v /\ w # u
        <4>1. w \in Int /\ u \in Int
          OBVIOUS
        <4>. QED
          BY <1>4, <3>1, <4>1
      <3>. QED
        BY <1>4, <3>1 DEF Below
    <2>. QED
      BY <1>1, <1>3, <2>1
  <1>5. ASSUME v \in S PROVE Cardinality(Below(S, v)) < Cardinality(S)
    <2>1. Below(S, v) \subseteq S \ {v}
      BY DEF Below
    <2>. QED
      BY <1>3, <1>5, <2>1
  <1>. QED
    BY <1>1, <1>2, <1>4, <1>5

(* The values of a set from left to right are strictly ascending, and each of
   them is the one of its rank.                                               *)
LEMMA RankedGrows ==
    ASSUME NEW S \in SUBSET Int, IsFiniteSet(S)
    PROVE  /\ \A i, j \in 1..Cardinality(S) : i < j => Ranked(S, i) < Ranked(S, j)
           /\ \A v \in S : \E k \in 1..Cardinality(S) : Ranked(S, k) = v
  <1>1. \A k \in 1..Cardinality(S) :
           /\ Ranked(S, k) \in S
           /\ Cardinality(Below(S, Ranked(S, k))) = k - 1
    BY RankedInOrder
  <1>2. \A u, v \in S : u < v => Cardinality(Below(S, u)) < Cardinality(Below(S, v))
    BY BelowGrows
  <1>3. \A v \in S : Cardinality(Below(S, v)) \in Nat
                     /\ Cardinality(Below(S, v)) < Cardinality(S)
    <2>1. ASSUME NEW v \in S
          PROVE  Cardinality(Below(S, v)) \in Nat
                 /\ Cardinality(Below(S, v)) < Cardinality(S)
      <3>1. v \in Int
        OBVIOUS
      <3>. QED
        BY <3>1, BelowGrows
    <2>. QED
      BY <2>1
  <1>. DEFINE rank(v) == Cardinality(Below(S, v))
              n == Cardinality(S)
              nth(k) == Ranked(S, k)
  <1>4. /\ \A k \in 1..n : nth(k) \in S /\ rank(nth(k)) = k - 1
        /\ \A u, v \in S : u < v => rank(u) < rank(v)
        /\ \A v \in S : rank(v) \in Nat /\ rank(v) < n
        /\ n \in Nat
    BY <1>1, <1>2, <1>3, FS_CardinalityType
  <1>. HIDE DEF rank, n, nth
  <1>5. ASSUME NEW i \in 1..n, NEW j \in 1..n, i < j PROVE nth(i) < nth(j)
    <2>1. nth(i) \in S /\ nth(j) \in S /\ rank(nth(i)) < rank(nth(j))
      <3>1. /\ nth(i) \in S /\ rank(nth(i)) = i - 1
            /\ nth(j) \in S /\ rank(nth(j)) = j - 1
        BY <1>4
      <3>. QED
        BY <1>4, <1>5, <3>1
    <2>2. nth(i) \in Int /\ nth(j) \in Int
      BY <2>1
    <2>3. CASE nth(j) < nth(i)
      <3>1. rank(nth(j)) < rank(nth(i))
        BY <1>4, <2>1, <2>3
      <3>2. rank(nth(i)) \in Nat /\ rank(nth(j)) \in Nat
        BY <1>4, <2>1
      <3>. QED
        BY <2>1, <3>1, <3>2
    <2>4. nth(i) # nth(j)
      <3>1. rank(nth(i)) = i - 1 /\ rank(nth(j)) = j - 1
        BY <1>4
      <3>. QED
        BY <1>5, <3>1
    <2>. QED
      BY <2>2, <2>3, <2>4
  <1>6. ASSUME NEW v \in S PROVE \E k \in 1..n : nth(k) = v
    <2>1. PICK k \in 1..n : k = rank(v) + 1
      BY <1>4
    <2>2. nth(k) \in S /\ rank(nth(k)) = rank(v) /\ rank(v) \in Nat
      BY <1>4, <2>1
    <2>3. nth(k) \in Int /\ v \in Int
      BY <2>2
    <2>. QED
      BY <1>4, <2>2, <2>3
  <1>. QED
    BY <1>5, <1>6 DEF n, nth

-------------------------------------------------------------------------------
(* Clusterings: pairs of ends, both of them values of the data, from left to
   right without touching each other, that leave no value out.                *)

Ends == Value \X Value

IsClustering(cs, data) ==
    /\ cs \in Seq(Ends)
    /\ \A i \in 1..Len(cs) :
          cs[i][1] \in data /\ cs[i][2] \in data /\ Key(cs[i][1]) <= Key(cs[i][2])
    /\ \A i, j \in 1..Len(cs) : i < j => Key(cs[i][2]) < Key(cs[j][1])
    /\ \A v \in data : \E i \in 1..Len(cs) :
          Key(cs[i][1]) <= Key(v) /\ Key(v) <= Key(cs[i][2])

(* Every cluster is one value. *)
Points(cs) == \A i \in 1..Len(cs) : Key(cs[i][1]) = Key(cs[i][2])

(* The ends of the k-th of the finite clusters *)
LeftEnd(data, cuts, k) ==
    IF k = 1 THEN Min(data) ELSE Following(data, Ranked(cuts, k - 1))

RightEnd(data, cuts, k) ==
    IF k = Cardinality(cuts) + 1 THEN Max(data) ELSE Ranked(cuts, k)

(* Any set of gaps separates the data so. *)
LEMMA CutsSeparate ==
    ASSUME NEW data \in SUBSET Int, IsFiniteSet(data), data # {},
           NEW cuts \in SUBSET Gaps(data)
    PROVE  LET last == Cardinality(cuts) + 1
               lo(k) == LeftEnd(data, cuts, k)
               hi(k) == RightEnd(data, cuts, k)
           IN  /\ last \in Nat \ {0}
               /\ \A k \in 1..last : lo(k) \in data /\ hi(k) \in data /\ lo(k) <= hi(k)
               /\ \A i, j \in 1..last : i < j => hi(i) < lo(j)
               /\ \A v \in data : \E k \in 1..last : lo(k) <= v /\ v <= hi(k)
               /\ \A v \in cuts : \E k \in 1..last : hi(k) = v
  <1>. DEFINE n == Cardinality(cuts)
              nth(k) == Ranked(cuts, k)
              after(v) == Following(data, v)
              lo(k) == LeftEnd(data, cuts, k)
              hi(k) == RightEnd(data, cuts, k)
              first == Min(data)
              final == Max(data)
  <1>1. /\ first \in data /\ \A u \in data : first <= u
        /\ final \in data /\ \A u \in data : u <= final
    BY MinMax
  <1>2. cuts \in SUBSET data /\ cuts \in SUBSET Int /\ IsFiniteSet(cuts) /\ n \in Nat
    <2>1. cuts \in SUBSET data
      BY DEF Gaps
    <2>. QED
      BY <2>1, FS_Subset, FS_CardinalityType
  <1>3. /\ \A k \in 1..n : nth(k) \in cuts
        /\ \A i, j \in 1..n : i < j => nth(i) < nth(j)
        /\ \A v \in cuts : \E k \in 1..n : nth(k) = v
    BY <1>2, RankedInOrder, RankedGrows
  <1>4. ASSUME NEW v \in cuts
        PROVE  /\ v < final
               /\ after(v) \in data /\ v < after(v)
               /\ \A u \in data : v < u => after(v) <= u
    <2>1. v \in data /\ v # final /\ v \in Int /\ final \in Int
      BY <1>1, <1>2 DEF Gaps
    <2>2. v < final
      BY <1>1, <2>1
    <2>. QED
      BY <1>1, <2>1, <2>2, FollowingNext
  <1>5. ASSUME NEW k \in 1..(n + 1)
        PROVE  /\ lo(k) = IF k = 1 THEN first ELSE after(nth(k - 1))
               /\ hi(k) = IF k = n + 1 THEN final ELSE nth(k)
    BY DEF LeftEnd, RightEnd
  <1>. HIDE DEF n, nth, after, lo, hi, first, final
  <1>6. ASSUME NEW k \in 1..(n + 1), k # n + 1 PROVE k \in 1..n
    BY <1>2, <1>6
  <1>7. ASSUME NEW k \in 1..(n + 1), k # 1 PROVE k - 1 \in 1..n
    BY <1>2, <1>7
  <1>8. ASSUME NEW k \in 1..(n + 1)
        PROVE  lo(k) \in data /\ hi(k) \in data /\ lo(k) <= hi(k)
    <2>1. lo(k) \in data
      BY <1>1, <1>3, <1>4, <1>5, <1>7
    <2>2. hi(k) \in data
      BY <1>1, <1>2, <1>3, <1>5, <1>6
    <2>3. CASE k = 1 \/ k = n + 1
      BY <1>1, <1>5, <2>1, <2>2, <2>3
    <2>4. CASE k # 1 /\ k # n + 1
      <3>1. k - 1 \in 1..n /\ k \in 1..n /\ k - 1 < k
        BY <1>6, <1>7, <2>4
      <3>2. nth(k - 1) \in cuts /\ nth(k - 1) < nth(k)
        BY <1>3, <3>1
      <3>3. after(nth(k - 1)) <= nth(k)
        BY <1>2, <1>3, <1>4, <3>1, <3>2
      <3>. QED
        BY <1>5, <2>1, <2>2, <2>4, <3>3
    <2>. QED
      BY <2>1, <2>2, <2>3, <2>4
  <1>9. ASSUME NEW i \in 1..(n + 1), NEW j \in 1..(n + 1), i < j
        PROVE  hi(i) < lo(j)
    <2>1. i \in 1..n /\ j # 1 /\ i # n + 1
      BY <1>2, <1>9
    <2>2. PICK m \in 1..n : m = j - 1
      BY <1>7, <2>1
    <2>3. nth(i) \in cuts /\ nth(m) \in cuts /\ (i < m => nth(i) < nth(m)) /\ (i < m \/ i = m)
      BY <1>3, <1>9, <2>1, <2>2
    <2>4. nth(m) < after(nth(m)) /\ after(nth(m)) \in data
      BY <1>4, <2>3
    <2>5. hi(i) = nth(i) /\ lo(j) = after(nth(m))
      BY <1>5, <2>1, <2>2
    <2>6. nth(i) \in Int /\ nth(m) \in Int /\ after(nth(m)) \in Int
      BY <1>2, <2>3, <2>4
    <2>. QED
      BY <2>3, <2>4, <2>5, <2>6
  <1>10. ASSUME NEW v \in data
         PROVE  \E k \in 1..(n + 1) : lo(k) <= v /\ v <= hi(k)
    <2>. DEFINE rank == Cardinality(Below(cuts, v))
    <2>1. v \in Int
      OBVIOUS
    <2>2. rank \in 0..n
      BY <1>2, <2>1, BelowGrows DEF n
    <2>3. PICK k \in 1..(n + 1) : k = rank + 1
      BY <1>2, <2>2
    <2>4. \A c \in cuts : v <= c => rank <= Cardinality(Below(cuts, c))
      <3>1. ASSUME NEW c \in cuts, v <= c PROVE rank <= Cardinality(Below(cuts, c))
        <4>1. c \in Int
          BY <1>2
        <4>. QED
          BY <1>2, <2>1, <3>1, <4>1, BelowGrows
      <3>. QED
        BY <3>1
    <2>5. \A c \in cuts : c < v => Cardinality(Below(cuts, c)) < rank
      BY <1>2, <2>1, BelowGrows
    <2>6. \A i \in 1..n : Cardinality(Below(cuts, nth(i))) = i - 1
      BY <1>2, RankedInOrder DEF n, nth
    <2>. HIDE DEF rank
    <2>7. lo(k) <= v
      <3>1. CASE k = 1
        BY <1>1, <1>5, <3>1
      <3>2. CASE k # 1
        <4>1. PICK m \in 1..n : m = k - 1
          BY <1>7, <3>2
        <4>2. nth(m) \in cuts /\ nth(m) \in Int /\ Cardinality(Below(cuts, nth(m))) = m - 1
          BY <1>2, <1>3, <2>6
        <4>3. ~ (v <= nth(m))
          BY <2>2, <2>3, <2>4, <4>1, <4>2
        <4>4. nth(m) < v
          BY <2>1, <4>2, <4>3
        <4>. QED
          BY <1>4, <1>5, <3>2, <4>1, <4>2, <4>4
      <3>. QED
        BY <3>1, <3>2
    <2>8. v <= hi(k)
      <3>1. CASE k = n + 1
        BY <1>1, <1>5, <3>1
      <3>2. CASE k # n + 1
        <4>1. k \in 1..n
          BY <1>6, <3>2
        <4>2. nth(k) \in cuts /\ nth(k) \in Int /\ Cardinality(Below(cuts, nth(k))) = k - 1
          BY <1>2, <1>3, <2>6, <4>1
        <4>3. ~ (nth(k) < v)
          BY <2>2, <2>3, <2>5, <4>2
        <4>. QED
          BY <1>5, <2>1, <3>2, <4>2, <4>3
      <3>. QED
        BY <3>1, <3>2
    <2>. QED
      BY <2>7, <2>8
  <1>11. ASSUME NEW v \in cuts PROVE \E k \in 1..(n + 1) : hi(k) = v
    <2>1. PICK k \in 1..n : nth(k) = v
      BY <1>3
    <2>2. k \in 1..(n + 1) /\ k # n + 1
      BY <1>2
    <2>. QED
      BY <1>5, <2>1, <2>2
  <1>. QED
    BY <1>2, <1>8, <1>9, <1>10, <1>11 DEF n, lo, hi

(* The finite values of a partition: at most one cluster more than gaps asked
   for, and points if there are no more values than that.                     *)
LEMMA FiniteClustering ==
    ASSUME NEW data \in SUBSET Finite, IsFiniteSet(data), NEW stop \in Nat
    PROVE  LET cs == FiniteClusters(data, stop)
           IN  /\ IsClustering(cs, data)
               /\ Len(cs) \in Nat
               /\ Len(cs) <= IF data = {} THEN 0 ELSE stop + 1
               /\ Cardinality(data) <= stop + 1 => Points(cs)
  <1>1. CASE data = {}
    <2>1. FiniteClusters(data, stop) = <<>>
      BY <1>1 DEF FiniteClusters
    <2>2. IsClustering(<<>>, {}) /\ Points(<<>>) /\ Len(<<>>) = 0
      BY DEF IsClustering, Points
    <2>. QED
      BY <1>1, <2>1, <2>2
  <1>2. CASE data # {}
    <2>. DEFINE cuts == Cuts(data, stop)
                last == Cardinality(cuts) + 1
                lo(k) == LeftEnd(data, cuts, k)
                hi(k) == RightEnd(data, cuts, k)
                cs == FiniteClusters(data, stop)
    <2>1. data \in SUBSET Int
      BY FiniteAssumption
    <2>2. /\ cuts \subseteq Gaps(data) /\ Cardinality(cuts) \in 0..stop
          /\ Cardinality(data) <= stop + 1 => cuts = Gaps(data)
      BY <1>2, <2>1, CutsChosen
    <2>3. /\ last \in Nat \ {0}
          /\ \A k \in 1..last : lo(k) \in data /\ hi(k) \in data /\ lo(k) <= hi(k)
          /\ \A i, j \in 1..last : i < j => hi(i) < lo(j)
          /\ \A v \in data : \E k \in 1..last : lo(k) <= v /\ v <= hi(k)
          /\ \A v \in cuts : \E k \in 1..last : hi(k) = v
      BY <1>2, <2>1, <2>2, CutsSeparate
    <2>4. cs = [k \in 1..last |-> <<lo(k), hi(k)>>]
      BY <1>2 DEF FiniteClusters, LeftEnd, RightEnd
    <2>5. /\ \A v \in data : Key(v) = v
          /\ data \subseteq Value
      <3>1. ASSUME NEW v \in data PROVE v \notin NaN
        BY SpecialAssumption, FiniteAssumption
      <3>. QED
        BY <3>1 DEF Key, Value
    <2>6. last <= stop + 1
      BY <2>2
    <2>7. ASSUME Cardinality(data) <= stop + 1, NEW k \in 1..last PROVE lo(k) = hi(k)
      <3>. HIDE DEF lo, hi, last, cuts
      <3>1. lo(k) \in data /\ hi(k) \in data /\ lo(k) <= hi(k)
            /\ lo(k) \in Int /\ hi(k) \in Int
        BY <2>1, <2>3
      <3>2. SUFFICES ASSUME lo(k) < hi(k) PROVE FALSE
        BY <3>1
      <3>3. lo(k) \in cuts
        <4>1. Max(data) \in Int /\ hi(k) <= Max(data)
          BY <1>2, <2>1, <3>1, MinMax
        <4>2. lo(k) # Max(data)
          BY <3>1, <3>2, <4>1
        <4>. QED
          BY <2>2, <2>7, <3>1, <4>2 DEF Gaps
      <3>4. PICK m \in 1..last : hi(m) = lo(k)
        BY <2>3, <3>3
      <3>5. lo(m) <= hi(m) /\ lo(m) \in Int /\ hi(m) \in Int
        BY <2>1, <2>3
      <3>6. m < k \/ m = k \/ k < m
        BY <2>3
      <3>7. CASE m < k
        BY <2>3, <3>1, <3>4, <3>7
      <3>8. CASE k < m
        <4>1. hi(k) < lo(m)
          BY <2>3, <3>8
        <4>. QED
          BY <3>1, <3>2, <3>4, <3>5, <4>1
      <3>. QED
        BY <3>1, <3>2, <3>4, <3>6, <3>7, <3>8
    <2>. HIDE DEF lo, hi, last, cuts, cs
    <2>8. /\ Len(cs) = last
          /\ \A i \in 1..last : cs[i][1] = lo(i) /\ cs[i][2] = hi(i)
          /\ cs \in Seq(Ends)
      <3>1. \A i \in 1..last : <<lo(i), hi(i)>> \in Ends
        BY <2>3, <2>5 DEF Ends
      <3>. QED
        BY <2>3, <2>4, <3>1
    <2>9. IsClustering(cs, data)
      <3>1. \A i \in 1..last :
               cs[i][1] \in data /\ cs[i][2] \in data /\ Key(cs[i][1]) <= Key(cs[i][2])
        <4>1. \A i \in 1..last : Key(lo(i)) = lo(i) /\ Key(hi(i)) = hi(i)
          BY <2>3, <2>5
        <4>2. \A i \in 1..last : cs[i][1] = lo(i) /\ cs[i][2] = hi(i)
          BY <2>8
        <4>. QED
          BY <2>3, <4>1, <4>2
      <3>0. \A i \in 1..last : Key(cs[i][1]) = lo(i) /\ Key(cs[i][2]) = hi(i)
        <4>1. \A i \in 1..last : Key(lo(i)) = lo(i) /\ Key(hi(i)) = hi(i)
          BY <2>3, <2>5
        <4>2. \A i \in 1..last : cs[i][1] = lo(i) /\ cs[i][2] = hi(i)
          BY <2>8
        <4>. QED
          BY <4>1, <4>2
      <3>2. \A i, j \in 1..last : i < j => Key(cs[i][2]) < Key(cs[j][1])
        BY <2>3, <3>0
      <3>3. \A v \in data : \E i \in 1..last :
               Key(cs[i][1]) <= Key(v) /\ Key(v) <= Key(cs[i][2])
        BY <2>3, <2>5, <3>0
      <3>. QED
        BY <2>8, <3>1, <3>2, <3>3 DEF IsClustering
    <2>10. Cardinality(data) <= stop + 1 => Points(cs)
      BY <2>7, <2>8 DEF Points
    <2>11. Len(cs) \in Nat /\ Len(cs) <= stop + 1
      BY <2>3, <2>6, <2>8
    <2>. QED
      BY <1>2, <2>9, <2>10, <2>11 DEF cs
  <1>. QED
    BY <1>1, <1>2

(* The cluster of a special value: any number of NaNs is one of them. *)
LEMMA OwnClustering ==
    ASSUME NEW values \in SUBSET Value, IsFiniteSet(values),
           \A u, v \in values : Key(u) = Key(v)
    PROVE  /\ IsClustering(Own(values), values)
           /\ Len(Own(values)) = Number(values)
           /\ Number(values) = IF values = {} THEN 0 ELSE 1
           /\ Points(Own(values))
  <1>1. CASE values = {}
    BY <1>1 DEF Own, Number, IsClustering, Points
  <1>2. CASE values # {}
    <2>1. Max(values) \in values
      BY <1>2, ValuesInt, MinMax
    <2>. DEFINE max == Max(values)
    <2>2. Own(values) = << <<max, max>> >>
      BY <1>2 DEF Own
    <2>3. Key(max) \in Int /\ max \in Value
      BY <2>1, ValuesInt
    <2>4. \A v \in values : Key(v) = Key(max)
      BY <2>1
    <2>. HIDE DEF max
    <2>5. Len(<< <<max, max>> >>) = 1 /\ << <<max, max>> >> \in Seq(Ends)
      BY <2>3 DEF Ends
    <2>6. IsClustering(<< <<max, max>> >>, values)
      BY <2>1, <2>3, <2>4, <2>5 DEF IsClustering, max
    <2>. QED
      BY <1>2, <2>2, <2>5, <2>6 DEF Number, Points
  <1>. QED
    BY <1>1, <1>2

(* The elements of two sequences put together *)
LEMMA JoinSequences ==
    ASSUME NEW T, NEW s \in Seq(T), NEW t \in Seq(T)
    PROVE  /\ s \o t \in Seq(T) /\ Len(s \o t) = Len(s) + Len(t)
           /\ \A i \in 1..Len(s) :
                 i \in 1..(Len(s) + Len(t)) /\ (s \o t)[i] = s[i]
           /\ \A i \in 1..Len(t) :
                 Len(s) + i \in 1..(Len(s) + Len(t)) /\ (s \o t)[Len(s) + i] = t[i]
  OBVIOUS

(* Clusterings of data that follow each other are put together. *)
LEMMA JoinClusterings ==
    ASSUME NEW A \in SUBSET Value, NEW B \in SUBSET Value,
           NEW ls, IsClustering(ls, A),
           NEW rs, IsClustering(rs, B),
           \A u \in A, v \in B : Key(u) < Key(v)
    PROVE  /\ IsClustering(ls \o rs, A \cup B)
           /\ Len(ls \o rs) = Len(ls) + Len(rs)
           /\ Points(ls) /\ Points(rs) => Points(ls \o rs)
  <1>. DEFINE cs == ls \o rs
              n == Len(ls)
              m == Len(rs)
  <1>1. /\ ls \in Seq(Ends) /\ rs \in Seq(Ends)
        /\ n \in Nat /\ m \in Nat
    BY DEF IsClustering
  <1>2. /\ cs \in Seq(Ends) /\ Len(cs) = n + m
        /\ \A i \in 1..n : i \in 1..(n + m) /\ cs[i] = ls[i]
        /\ \A i \in 1..m : n + i \in 1..(n + m) /\ cs[n + i] = rs[i]
    <2>1. cs \in Seq(Ends) /\ Len(cs) = n + m
      BY <1>1
    <2>2. \A i \in 1..n : i \in 1..(n + m) /\ cs[i] = ls[i]
      BY <1>1, JoinSequences
    <2>3. \A i \in 1..m : n + i \in 1..(n + m) /\ cs[n + i] = rs[i]
      BY <1>1, JoinSequences
    <2>. QED
      BY <2>1, <2>2, <2>3
  <1>. HIDE DEF cs, n, m
  <1>3. \A i \in 1..(n + m) :
           \/ i \in 1..n
           \/ \E j \in 1..m : i = n + j
    <2>1. ASSUME NEW i \in 1..(n + m), i \notin 1..n
          PROVE  i - n \in 1..m /\ i = n + (i - n)
      BY <1>1, <2>1
    <2>. QED
      BY <2>1
  <1>4. /\ \A i \in 1..n : ls[i][1] \in A /\ ls[i][2] \in A
                           /\ Key(ls[i][1]) <= Key(ls[i][2])
        /\ \A i, j \in 1..n : i < j => Key(ls[i][2]) < Key(ls[j][1])
        /\ \A v \in A : \E i \in 1..n :
              Key(ls[i][1]) <= Key(v) /\ Key(v) <= Key(ls[i][2])
    BY DEF IsClustering, n
  <1>5. /\ \A i \in 1..m : rs[i][1] \in B /\ rs[i][2] \in B
                           /\ Key(rs[i][1]) <= Key(rs[i][2])
        /\ \A i, j \in 1..m : i < j => Key(rs[i][2]) < Key(rs[j][1])
        /\ \A v \in B : \E i \in 1..m :
              Key(rs[i][1]) <= Key(v) /\ Key(v) <= Key(rs[i][2])
    BY DEF IsClustering, m
  <1>6. ASSUME NEW i \in 1..(n + m)
        PROVE  /\ cs[i][1] \in A \cup B /\ cs[i][2] \in A \cup B
               /\ Key(cs[i][1]) <= Key(cs[i][2])
    <2>1. CASE i \in 1..n
      BY <1>2, <1>4, <2>1
    <2>2. CASE \E j \in 1..m : i = n + j
      BY <1>2, <1>5, <2>2
    <2>. QED
      BY <1>3, <2>1, <2>2
  <1>7. ASSUME NEW i \in 1..(n + m), NEW j \in 1..(n + m), i < j
        PROVE  Key(cs[i][2]) < Key(cs[j][1])
    <2>1. CASE i \in 1..n /\ j \in 1..n
      BY <1>2, <1>4, <1>7, <2>1
    <2>2. CASE i \in 1..n /\ j \notin 1..n
      <3>1. PICK l \in 1..m : j = n + l
        BY <1>3, <2>2
      <3>2. cs[i] = ls[i] /\ cs[j] = rs[l]
        BY <1>2, <2>2, <3>1
      <3>3. ls[i][2] \in A /\ rs[l][1] \in B
        BY <1>4, <1>5, <2>2
      <3>. QED
        BY <3>2, <3>3
    <2>3. CASE i \notin 1..n
      <3>1. PICK k \in 1..m : i = n + k
        BY <1>3, <2>3
      <3>2. j \notin 1..n
        BY <1>1, <1>7, <3>1
      <3>3. PICK l \in 1..m : j = n + l
        BY <1>3, <3>2
      <3>4. k < l
        BY <1>1, <1>7, <3>1, <3>3
      <3>. QED
        BY <1>2, <1>5, <3>1, <3>3, <3>4
    <2>. QED
      BY <2>1, <2>2, <2>3
  <1>8. ASSUME NEW v \in A \cup B
        PROVE  \E i \in 1..(n + m) : Key(cs[i][1]) <= Key(v) /\ Key(v) <= Key(cs[i][2])
    <2>1. CASE v \in A
      <3>1. PICK i \in 1..n : Key(ls[i][1]) <= Key(v) /\ Key(v) <= Key(ls[i][2])
        BY <1>4, <2>1
      <3>. QED
        BY <1>2, <3>1
    <2>2. CASE v \in B
      <3>1. PICK i \in 1..m : Key(rs[i][1]) <= Key(v) /\ Key(v) <= Key(rs[i][2])
        BY <1>5, <2>2
      <3>2. n + i \in 1..(n + m) /\ cs[n + i] = rs[i]
        BY <1>2
      <3>. QED
        BY <3>1, <3>2
    <2>. QED
      BY <2>1, <2>2
  <1>9. ASSUME Points(ls), Points(rs), NEW i \in 1..(n + m)
        PROVE  Key(cs[i][1]) = Key(cs[i][2])
    <2>1. CASE i \in 1..n
      BY <1>2, <1>9, <2>1 DEF Points, n
    <2>2. CASE \E j \in 1..m : i = n + j
      BY <1>2, <1>9, <2>2 DEF Points, m
    <2>. QED
      BY <1>3, <2>1, <2>2
  <1>. QED
    BY <1>2, <1>6, <1>7, <1>8, <1>9 DEF IsClustering, Points, cs, n, m

-------------------------------------------------------------------------------
(* Initialise *)

(* The parts of a partition, which follow each other in the engine's order. *)
LEMMA Parts ==
    ASSUME NEW data \in SUBSET Value, IsFiniteSet(data)
    PROVE  LET finite == data \cap Finite
               neg == data \cap {NegInf}
               pos == data \cap {PosInf}
               nan == data \cap NaN
           IN  /\ data = ((neg \cup finite) \cup pos) \cup nan
               /\ finite = data => neg = {} /\ pos = {} /\ nan = {}
               /\ IsFiniteSet(finite) /\ IsFiniteSet(neg)
               /\ IsFiniteSet(pos) /\ IsFiniteSet(nan)
               /\ \A u \in neg, v \in finite : Key(u) < Key(v)
               /\ \A u \in neg \cup finite, v \in pos : Key(u) < Key(v)
               /\ \A u \in (neg \cup finite) \cup pos, v \in nan : Key(u) < Key(v)
               /\ \A u, v \in neg : Key(u) = Key(v)
               /\ \A u, v \in pos : Key(u) = Key(v)
               /\ \A u, v \in nan : Key(u) = Key(v)
  <1>. DEFINE finite == data \cap Finite
              neg == data \cap {NegInf}
              pos == data \cap {PosInf}
              nan == data \cap NaN
  <1>1. /\ \A v \in finite : v \in Int /\ NegInf < v /\ v < PosInf /\ v \notin NaN
        /\ NegInf \notin NaN /\ PosInf \notin NaN
        /\ NegInf \in Int /\ PosInf \in Int /\ NegInf < PosInf
    <2>1. NegInf \in Int /\ PosInf \in Int /\ NegInf < PosInf
      BY SpecialAssumption
    <2>2. \A n \in NaN : n \in Int /\ PosInf < n
      BY SpecialAssumption
    <2>3. \A v \in finite : v \in Int /\ NegInf < v /\ v < PosInf
      BY FiniteAssumption, SpecialAssumption
    <2>. QED
      BY <2>1, <2>2, <2>3
  <1>2. data = ((neg \cup finite) \cup pos) \cup nan
    BY SpecialAssumption DEF Value
  <1>3. finite = data => neg = {} /\ pos = {} /\ nan = {}
    BY <1>1
  <1>4. /\ IsFiniteSet(finite) /\ IsFiniteSet(neg)
        /\ IsFiniteSet(pos) /\ IsFiniteSet(nan)
    BY FS_Subset
  <1>5. /\ \A v \in finite : Key(v) = v
        /\ \A v \in neg : Key(v) = NegInf
        /\ \A v \in pos : Key(v) = PosInf
        /\ \A v \in nan : Key(v) = PosInf + 1
    BY <1>1 DEF Key
  <1>. QED
    BY <1>1, <1>2, <1>3, <1>4, <1>5

(* The clusters of a partition with values: a clustering in the slots given,
   of points if the values the engine tells apart are no more than the slots
   and the slots are at least four, or there are no special values.           *)
LEMMA ClustersCluster ==
    ASSUME NEW data \in SUBSET Value, IsFiniteSet(data), data # {},
           NEW slots \in Nat \ {0}
    PROVE  /\ IsClustering(Clusters(data, slots), data)
           /\ Len(Clusters(data, slots)) \in 1..slots
           /\ /\ slots = 1 => \A u, v \in data : Key(u) = Key(v)
              /\ slots >= 4 \/ slots = 1 \/ data \subseteq Finite
              /\ slots # 1 => Cardinality(data \cap Finite)
                                  + Number(data \cap {NegInf})
                                  + Number(data \cap {PosInf})
                                  + Number(data \cap NaN) <= slots
              => Points(Clusters(data, slots))
  <1>. DEFINE finite == data \cap Finite
              neg == data \cap {NegInf}
              pos == data \cap {PosInf}
              nan == data \cap NaN
              stop == slots - 1 - Number(neg) - Number(pos) - Number(nan)
              cs == Clusters(data, slots)
  <1>1. CASE slots = 1 \/ (slots < 4 /\ data # finite)
    <2>. DEFINE min == Min(data)
                max == Max(data)
    <2>1. cs = << <<min, max>> >>
      BY <1>1 DEF Clusters
    <2>2. /\ min \in data /\ max \in data
          /\ \A v \in data : min <= v /\ v <= max
      BY ValuesInt, MinMax
    <2>3. \A v \in data : Key(min) <= Key(v) /\ Key(v) <= Key(max)
      BY <2>2, KeyOrders
    <2>. HIDE DEF min, max, cs
    <2>4. Len(cs) = 1 /\ cs[1] = <<min, max>> /\ cs \in Seq(Ends)
      BY <2>1, <2>2 DEF Ends
    <2>5. IsClustering(cs, data)
      <3>1. Key(min) \in Int /\ Key(max) \in Int /\ Key(min) <= Key(max)
        BY <2>2, <2>3, ValuesInt
      <3>. QED
        BY <2>2, <2>3, <2>4, <3>1 DEF IsClustering
    <2>6. (\A u, v \in data : Key(u) = Key(v)) => Points(cs)
      BY <2>2, <2>4 DEF Points
    <2>7. slots >= 4 \/ slots = 1 \/ data \subseteq Finite => slots = 1
      BY <1>1
    <2>. QED
      BY <2>4, <2>5, <2>6, <2>7 DEF cs
  <1>2. CASE ~ (slots = 1 \/ (slots < 4 /\ data # finite))
    <2>. DEFINE fin == FiniteClusters(finite, stop)
                c1 == Own(neg) \o fin
                c2 == c1 \o Own(pos)
                c3 == c2 \o Own(nan)
    <2>1. cs = c3
      BY <1>2 DEF Clusters
    <2>2. /\ data = ((neg \cup finite) \cup pos) \cup nan
          /\ finite = data => neg = {} /\ pos = {} /\ nan = {}
          /\ IsFiniteSet(finite) /\ IsFiniteSet(neg)
          /\ IsFiniteSet(pos) /\ IsFiniteSet(nan)
          /\ \A u \in neg, v \in finite : Key(u) < Key(v)
          /\ \A u \in neg \cup finite, v \in pos : Key(u) < Key(v)
          /\ \A u \in (neg \cup finite) \cup pos, v \in nan : Key(u) < Key(v)
          /\ \A u, v \in neg : Key(u) = Key(v)
          /\ \A u, v \in pos : Key(u) = Key(v)
          /\ \A u, v \in nan : Key(u) = Key(v)
      BY Parts
    <2>3. finite \in SUBSET Finite /\ finite \in SUBSET Value /\ neg \in SUBSET Value
          /\ pos \in SUBSET Value /\ nan \in SUBSET Value
      OBVIOUS
    <2>. HIDE DEF finite, neg, pos, nan
    <2>4. /\ IsClustering(Own(neg), neg) /\ Len(Own(neg)) = Number(neg)
          /\ Points(Own(neg))
          /\ IsClustering(Own(pos), pos) /\ Len(Own(pos)) = Number(pos)
          /\ Points(Own(pos))
          /\ IsClustering(Own(nan), nan) /\ Len(Own(nan)) = Number(nan)
          /\ Points(Own(nan))
      BY <2>2, <2>3, OwnClustering
    <2>5. /\ Number(neg) \in {0, 1} /\ Number(pos) \in {0, 1} /\ Number(nan) \in {0, 1}
          /\ finite = data => Number(neg) = 0 /\ Number(pos) = 0 /\ Number(nan) = 0
      BY <2>2 DEF Number
    <2>6. stop \in Nat
      BY <1>2, <2>5
    <2>. HIDE DEF stop
    <2>7. /\ IsClustering(fin, finite) /\ Len(fin) \in Nat
          /\ Len(fin) <= IF finite = {} THEN 0 ELSE stop + 1
          /\ Cardinality(finite) <= stop + 1 => Points(fin)
      BY <2>2, <2>3, <2>6, FiniteClustering
    <2>. HIDE DEF fin
    <2>8. /\ IsClustering(c1, neg \cup finite) /\ Len(c1) = Number(neg) + Len(fin)
          /\ Points(fin) => Points(c1)
      BY <2>2, <2>3, <2>4, <2>7, JoinClusterings
    <2>. HIDE DEF c1
    <2>9. /\ IsClustering(c2, (neg \cup finite) \cup pos)
          /\ Len(c2) = Len(c1) + Number(pos)
          /\ Points(c1) => Points(c2)
      <3>1. neg \cup finite \in SUBSET Value
        BY <2>3
      <3>. QED
        BY <2>2, <2>3, <2>4, <2>8, <3>1, JoinClusterings
    <2>. HIDE DEF c2
    <2>10. /\ IsClustering(c3, data)
           /\ Len(c3) = Len(c2) + Number(nan)
           /\ Points(c2) => Points(c3)
      <3>1. (neg \cup finite) \cup pos \in SUBSET Value
        BY <2>3
      <3>. QED
        BY <2>2, <2>3, <2>4, <2>9, <3>1, JoinClusterings
    <2>. HIDE DEF c3
    <2>11. Len(c3) = Number(neg) + Len(fin) + Number(pos) + Number(nan)
      BY <2>5, <2>7, <2>8, <2>9, <2>10
    <2>12. Len(c3) <= slots /\ Len(c3) \in Nat
      <3>1. CASE finite = {}
        <4>1. slots >= 4
          BY <1>2, <3>1
        <4>. QED
          BY <2>5, <2>7, <2>11, <3>1, <4>1
      <3>2. CASE finite # {}
        <4>1. Len(fin) <= stop + 1
          BY <2>7, <3>2
        <4>. QED
          BY <2>5, <2>6, <2>7, <2>11, <4>1 DEF stop
      <3>. QED
        BY <3>1, <3>2
    <2>13. Len(c3) >= 1
      <3>1. PICK v \in data : TRUE
        OBVIOUS
      <3>2. \E i \in 1..Len(c3) : TRUE
        BY <2>10, <3>1 DEF IsClustering
      <3>. QED
        BY <2>12, <3>2
    <2>14. Cardinality(finite) + Number(neg) + Number(pos) + Number(nan) <= slots
              => Points(c3)
      <3>1. Cardinality(finite) \in Nat
        BY <2>2, FS_CardinalityType
      <3>2. Cardinality(finite) + Number(neg) + Number(pos) + Number(nan) <= slots
               => Cardinality(finite) <= stop + 1
        BY <2>5, <3>1 DEF stop
      <3>. QED
        BY <2>7, <2>8, <2>9, <2>10, <3>2
    <2>15. slots # 1
      BY <1>2
    <2>16. Len(c3) \in 1..slots
      BY <2>12, <2>13
    <2>. QED
      BY <2>1, <2>10, <2>14, <2>15, <2>16 DEF finite, neg, pos, nan
  <1>. QED
    BY <1>1, <1>2

(* What the two arrays are, of which the queries are answered: clusters from
   left to right, the last ones perhaps the same.                             *)
Covers(s, values, slots) ==
    /\ s.type = "CLUSTER"
    /\ s.min \in Seq(Value) /\ s.max \in Seq(Value)
    /\ Len(s.min) = slots /\ Len(s.max) = slots
    /\ \A i \in 1..slots :
          /\ s.min[i] \in values /\ s.max[i] \in values
          /\ Key(s.min[i]) <= Key(s.max[i])
    /\ \A i, j \in 1..slots :
          i <= j => /\ Key(s.min[i]) <= Key(s.min[j])
                    /\ Key(s.max[i]) <= Key(s.max[j])
    /\ \A v \in values : \E i \in 1..slots :
          Key(s.min[i]) <= Key(v) /\ Key(v) <= Key(s.max[i])

LEMMA ClusterCovers ==
    ASSUME NEW data \in Seq(Value), data # <<>>, IsFiniteSet(Range(data)),
           NEW slots \in Nat \ {0}
    PROVE  /\ Covers(Cluster(data, slots), Range(data), slots)
           /\ Points(Clusters(Range(data), slots)) =>
                 \A i \in 1..slots : Key(Cluster(data, slots).min[i])
                                        = Key(Cluster(data, slots).max[i])
  <1>. DEFINE values == Range(data)
              cs == Clusters(values, slots)
              n == Len(cs)
              at(i) == IF i > n THEN n ELSE i
              s == Cluster(data, slots)
  <1>1. values \in SUBSET Value /\ values # {}
    BY DEF Range
  <1>2. IsClustering(cs, values) /\ n \in 1..slots
    BY <1>1, ClustersCluster
  <1>3. s = [type |-> "CLUSTER", min |-> [i \in 1..slots |-> cs[at(i)][1]],
                                 max |-> [i \in 1..slots |-> cs[at(i)][2]]]
    BY DEF Cluster
  <1>. HIDE DEF values, cs, s
  <1>4. /\ \A i \in 1..n :
              cs[i][1] \in values /\ cs[i][2] \in values /\ Key(cs[i][1]) <= Key(cs[i][2])
        /\ \A i, j \in 1..n : i < j => Key(cs[i][2]) < Key(cs[j][1])
        /\ \A v \in values : \E i \in 1..n :
              Key(cs[i][1]) <= Key(v) /\ Key(v) <= Key(cs[i][2])
    BY <1>2 DEF IsClustering
  <1>5. /\ n \in Nat \ {0}
        /\ \A i \in 1..slots : at(i) \in 1..n
        /\ \A i, j \in 1..slots : i <= j => at(i) = at(j) \/ at(i) < at(j)
        /\ \A i \in 1..n : i \in 1..slots /\ at(i) = i
    BY <1>2
  <1>. HIDE DEF n, at
  <1>6. \A i \in 1..slots :
           s.min[i] = cs[at(i)][1] /\ s.max[i] = cs[at(i)][2]
    BY <1>3
  <1>7. \A i \in 1..slots :
           /\ s.min[i] \in values /\ s.max[i] \in values
           /\ Key(s.min[i]) <= Key(s.max[i])
    BY <1>4, <1>5, <1>6
  <1>8. /\ s.min \in Seq(Value) /\ s.max \in Seq(Value)
        /\ Len(s.min) = slots /\ Len(s.max) = slots /\ s.type = "CLUSTER"
    <2>1. \A i \in 1..slots : cs[at(i)][1] \in Value /\ cs[at(i)][2] \in Value
      BY <1>1, <1>4, <1>5
    <2>. QED
      BY <1>3, <2>1
  <1>9. ASSUME NEW i \in 1..slots, NEW j \in 1..slots, i <= j
        PROVE  Key(s.min[i]) <= Key(s.min[j]) /\ Key(s.max[i]) <= Key(s.max[j])
    <2>1. \A v \in values : Key(v) \in Int
      BY <1>1, ValuesInt
    <2>2. /\ s.min[i] \in values /\ s.max[i] \in values
          /\ s.min[j] \in values /\ s.max[j] \in values
      BY <1>7
    <2>3. /\ Key(s.min[i]) \in Int /\ Key(s.max[i]) \in Int
          /\ Key(s.min[j]) \in Int /\ Key(s.max[j]) \in Int
      BY <2>1, <2>2
    <2>4. CASE at(i) = at(j)
      BY <1>6, <2>3, <2>4
    <2>5. CASE at(i) < at(j)
      <3>1. Key(s.max[i]) < Key(s.min[j])
        BY <1>4, <1>5, <1>6, <2>5
      <3>2. Key(s.min[i]) <= Key(s.max[i]) /\ Key(s.min[j]) <= Key(s.max[j])
        BY <1>7
      <3>. QED
        BY <2>3, <3>1, <3>2
    <2>. QED
      BY <1>5, <1>9, <2>4, <2>5
  <1>10. ASSUME NEW v \in values
         PROVE  \E i \in 1..slots : Key(s.min[i]) <= Key(v) /\ Key(v) <= Key(s.max[i])
    <2>1. PICK i \in 1..n : Key(cs[i][1]) <= Key(v) /\ Key(v) <= Key(cs[i][2])
      BY <1>4
    <2>2. i \in 1..slots /\ at(i) = i
      BY <1>5
    <2>. QED
      BY <1>6, <2>1, <2>2
  <1>11. ASSUME Points(cs), NEW i \in 1..slots PROVE Key(s.min[i]) = Key(s.max[i])
    BY <1>5, <1>6, <1>11 DEF Points, n
  <1>12. Covers(s, values, slots)
    BY <1>7, <1>8, <1>9, <1>10 DEF Covers
  <1>. QED
    BY <1>11, <1>12 DEF s, cs, values

-------------------------------------------------------------------------------
(* Query and QueryRange *)

LEMMA CoversInt ==
    ASSUME NEW values \in SUBSET Value, NEW slots \in Nat \ {0},
           NEW s, Covers(s, values, slots)
    PROVE  /\ \A v \in values : Key(v) \in Int
           /\ \A i \in 1..slots :
                 /\ s.min[i] \in Value /\ s.max[i] \in Value
                 /\ Key(s.min[i]) \in Int /\ Key(s.max[i]) \in Int
           /\ s.min # <<>>
  BY ValuesInt DEF Covers

(* The slot the search finds for a constant is the only one that may hold it,
   and the next one the only one after it.                                    *)
LEMMA OnlySlot ==
    ASSUME NEW values \in SUBSET Value, NEW slots \in Nat \ {0},
           NEW s, Covers(s, values, slots), NEW constant \in Value,
           NEW v \in values, Key(constant) <= Key(v)
    PROVE  LET idx == FindLast(s.min, constant)
           IN  \/ /\ idx = 0 /\ Key(constant) < Key(s.min[1])
                  /\ Key(s.min[1]) <= Key(v)
               \/ /\ idx \in 1..slots /\ Key(s.min[idx]) <= Key(constant)
                  /\ \/ Key(constant) <= Key(s.max[idx])
                     \/ /\ idx < slots
                        /\ Key(constant) < Key(s.min[idx + 1])
                        /\ Key(s.min[idx + 1]) <= Key(v)
  <1>. DEFINE idx == FindLast(s.min, constant)
  <1>1. /\ Key(constant) \in Int /\ Key(v) \in Int
        /\ \A i \in 1..slots : Key(s.min[i]) \in Int /\ Key(s.max[i]) \in Int
        /\ s.min \in Seq(Value) /\ s.min # <<>> /\ Len(s.min) = slots
    BY ValuesInt, CoversInt DEF Covers
  <1>2. /\ \A i, j \in 1..slots :
              i <= j => /\ Key(s.min[i]) <= Key(s.min[j])
                        /\ Key(s.max[i]) <= Key(s.max[j])
        /\ \A i \in 1..slots : Key(s.min[i]) <= Key(s.max[i])
    BY DEF Covers
  <1>3. PICK i \in 1..slots : Key(s.min[i]) <= Key(v) /\ Key(v) <= Key(s.max[i])
    BY DEF Covers
  <1>4. \/ idx = 0 /\ Key(constant) < Key(s.min[1])
        \/ Found(s.min, constant, idx)
    BY <1>1, FindLastFinds
  <1>. HIDE DEF idx
  <1>5. CASE idx = 0 /\ Key(constant) < Key(s.min[1])
    <2>1. 1 \in 1..slots /\ 1 <= i
      OBVIOUS
    <2>2. Key(s.min[1]) <= Key(s.min[i])
      BY <1>2, <2>1
    <2>3. Key(s.min[1]) \in Int /\ Key(s.min[i]) \in Int
      BY <1>1, <2>1
    <2>. QED
      BY <1>1, <1>3, <1>5, <2>2, <2>3 DEF idx
  <1>6. CASE Found(s.min, constant, idx)
    <2>1. /\ idx \in 1..slots /\ Key(s.min[idx]) <= Key(constant)
          /\ \/ idx = slots
             \/ Key(constant) < Key(s.min[idx + 1])
             \/ Key(s.min[idx]) = Key(constant)
      BY <1>1, <1>6 DEF Found
    <2>2. /\ Key(s.min[idx]) \in Int /\ Key(s.max[idx]) \in Int
          /\ Key(s.min[i]) \in Int /\ Key(s.max[i]) \in Int
          /\ Key(s.min[idx]) <= Key(s.max[idx])
      BY <1>1, <1>2, <2>1
    <2>3. CASE i <= idx
      <3>1. Key(s.max[i]) <= Key(s.max[idx])
        BY <1>2, <2>1, <2>3
      <3>2. Key(constant) <= Key(s.max[idx])
        BY <1>1, <1>3, <2>2, <3>1
      <3>. QED
        BY <2>1, <3>2 DEF idx
    <2>4. CASE idx < i
      <3>1. PICK next \in 1..slots : next = idx + 1 /\ next <= i
        BY <2>1, <2>4
      <3>2. Key(s.min[next]) <= Key(s.min[i]) /\ Key(s.min[next]) \in Int
        BY <1>1, <1>2, <3>1
      <3>3. Key(s.min[next]) <= Key(v)
        BY <1>1, <1>3, <2>2, <3>2
      <3>4. CASE Key(s.min[idx]) = Key(constant)
        BY <2>1, <2>2, <3>4 DEF idx
      <3>5. CASE Key(constant) < Key(s.min[idx + 1])
        <4>1. idx < slots
          BY <2>1, <2>4
        <4>. QED
          BY <2>1, <3>1, <3>3, <3>5, <4>1 DEF idx
      <3>6. idx # slots
        BY <2>1, <2>4
      <3>. QED
        BY <2>1, <3>4, <3>5, <3>6
    <2>5. i <= idx \/ idx < i
      BY <2>1
    <2>. QED
      BY <2>3, <2>4, <2>5
  <1>. QED
    BY <1>4, <1>5, <1>6

(* No query rules out a value the clusters were built from. *)
LEMMA ClusterQuerySound ==
    ASSUME NEW values \in SUBSET Value, NEW slots \in Nat \ {0},
           NEW s, Covers(s, values, slots), NEW v \in values,
           NEW op \in Comparison, NEW c \in Value, ClusterQuery(s, op, c)
    PROVE  ~Satisfies(v, op, c)
  <1>1. /\ Key(c) \in Int /\ Key(v) \in Int /\ v \in Value
        /\ \A i \in 1..slots :
              /\ s.min[i] \in Value /\ s.max[i] \in Value
              /\ Key(s.min[i]) \in Int /\ Key(s.max[i]) \in Int
        /\ Len(s.max) = slots
    BY ValuesInt, CoversInt DEF Covers
  <1>2. 1 \in 1..slots /\ slots \in 1..slots
    OBVIOUS
  <1>3. Key(s.min[1]) <= Key(v) /\ Key(v) <= Key(s.max[slots])
    <2>1. PICK i \in 1..slots : Key(s.min[i]) <= Key(v) /\ Key(v) <= Key(s.max[i])
      BY DEF Covers
    <2>2. Key(s.min[1]) <= Key(s.min[i]) /\ Key(s.max[i]) <= Key(s.max[slots])
      BY <1>2 DEF Covers
    <2>3. /\ Key(s.min[1]) \in Int /\ Key(s.min[i]) \in Int
          /\ Key(s.max[i]) \in Int /\ Key(s.max[slots]) \in Int
      BY <1>1, <1>2
    <2>. QED
      BY <1>1, <2>1, <2>2, <2>3
  <1>. DEFINE first == s.min[1]
              final == s.max[slots]
  <1>4. /\ first \in Value /\ final \in Value
        /\ Key(first) \in Int /\ Key(final) \in Int
        /\ Key(first) <= Key(v) /\ Key(v) <= Key(final)
    BY <1>1, <1>2, <1>3
  <1>5. CASE op = "EQUAL"
    <2>1. SUFFICES ASSUME Equals(v, c) PROVE FALSE
      BY <1>5 DEF Satisfies
    <2>2. Key(c) = Key(v)
      BY <1>1, <2>1, KeyOrders
    <2>. DEFINE idx == FindLast(s.min, c)
    <2>3. idx = 0 \/ ~GreaterThanEquals(s.max[idx], c)
      BY <1>5 DEF ClusterQuery, QueryEqual
    <2>4. \/ /\ idx = 0 /\ Key(c) < Key(s.min[1])
             /\ Key(s.min[1]) <= Key(v)
          \/ /\ idx \in 1..slots /\ Key(s.min[idx]) <= Key(c)
             /\ \/ Key(c) <= Key(s.max[idx])
                \/ /\ idx < slots
                   /\ Key(c) < Key(s.min[idx + 1])
                   /\ Key(s.min[idx + 1]) <= Key(v)
      <3>1. Key(c) <= Key(v)
        BY <1>1, <2>2
      <3>. QED
        BY <3>1, OnlySlot
    <2>. HIDE DEF idx
    <2>5. CASE idx = 0
      BY <1>1, <1>4, <2>2, <2>4, <2>5
    <2>6. CASE idx \in 1..slots /\ Key(c) <= Key(s.max[idx])
      <3>1. s.max[idx] \in Value /\ Key(s.max[idx]) \in Int
        BY <1>1, <2>6
      <3>2. GreaterThanEquals(s.max[idx], c)
        BY <1>1, <2>6, <3>1, KeyOrders
      <3>. QED
        BY <2>3, <2>6, <3>2
    <2>7. CASE /\ idx \in 1..slots /\ idx < slots
               /\ Key(c) < Key(s.min[idx + 1]) /\ Key(s.min[idx + 1]) <= Key(v)
      <3>1. idx + 1 \in 1..slots
        BY <2>7
      <3>2. Key(s.min[idx + 1]) \in Int
        BY <1>1, <3>1
      <3>. QED
        BY <1>1, <2>2, <2>7, <3>2
    <2>. QED
      BY <2>4, <2>5, <2>6, <2>7
  <1>6. CASE op = "NOTEQUAL"
    <2>1. Equals(first, final) /\ Equals(first, c)
      BY <1>1, <1>6 DEF ClusterQuery
    <2>2. Key(first) = Key(final) /\ Key(first) = Key(c)
      BY <1>4, <2>1, KeyOrders
    <2>3. Key(v) = Key(c)
      BY <1>1, <1>4, <2>2
    <2>. QED
      BY <1>1, <1>6, <2>3, KeyOrders DEF Satisfies
  <1>7. CASE op \in {"GREATERTHANOREQUALTO", "GREATERTHAN"}
    <2>1. ~GreaterThanEquals(final, c)
      BY <1>1, <1>7 DEF ClusterQuery
    <2>2. Key(v) < Key(c)
      BY <1>1, <1>4, <2>1, KeyOrders
    <2>3. ~GreaterThanEquals(v, c) /\ ~GreaterThan(v, c)
      BY <1>1, <2>2, KeyOrders
    <2>. QED
      BY <1>7, <2>3 DEF Satisfies
  <1>8. CASE op \in {"LESSTHANOREQUALTO", "LESSTHAN"}
    <2>1. ~LessThanEquals(first, c)
      BY <1>1, <1>8 DEF ClusterQuery
    <2>2. Key(c) < Key(v)
      BY <1>1, <1>4, <2>1, KeyOrders
    <2>3. ~LessThanEquals(v, c) /\ ~LessThan(v, c)
      BY <1>1, <2>2, KeyOrders
    <2>. QED
      BY <1>8, <2>3 DEF Satisfies
  <1>. QED
    BY <1>5, <1>6, <1>7, <1>8 DEF Comparison

(* Nor does a query for a range. *)
LEMMA ClusterRangeSound ==
    ASSUME NEW values \in SUBSET Value, NEW slots \in Nat \ {0},
           NEW s, Covers(s, values, slots), NEW v \in values,
           NEW start \in Value, NEW end \in Value, ClusterQueryRange(s, start, end)
    PROVE  ~Between(v, start, end)
  <1>. DEFINE idx == FindLast(s.min, start)
  <1>1. SUFFICES ASSUME Between(v, start, end) PROVE FALSE
    OBVIOUS
  <1>2. /\ Key(start) \in Int /\ Key(end) \in Int /\ Key(v) \in Int /\ v \in Value
        /\ \A i \in 1..slots :
              /\ s.min[i] \in Value /\ s.max[i] \in Value
              /\ Key(s.min[i]) \in Int /\ Key(s.max[i]) \in Int
        /\ Len(s.min) = slots
    BY ValuesInt, CoversInt DEF Covers
  <1>3. Key(start) <= Key(v) /\ Key(v) <= Key(end)
    <2>1. Key(v) >= Key(start) /\ Key(v) <= Key(end)
      BY <1>1, <1>2, KeyOrders DEF Between
    <2>. QED
      BY <1>2, <2>1
  <1>4. /\ idx = 0 => GreaterThan(s.min[1], end)
        /\ idx # 0 => /\ ~GreaterThanEquals(s.max[idx], start)
                      /\ idx < slots => ~LessThanEquals(s.min[idx + 1], end)
    BY <1>2 DEF ClusterQueryRange
  <1>5. \/ /\ idx = 0 /\ Key(start) < Key(s.min[1])
           /\ Key(s.min[1]) <= Key(v)
        \/ /\ idx \in 1..slots /\ Key(s.min[idx]) <= Key(start)
           /\ \/ Key(start) <= Key(s.max[idx])
              \/ /\ idx < slots
                 /\ Key(start) < Key(s.min[idx + 1])
                 /\ Key(s.min[idx + 1]) <= Key(v)
    BY <1>3, OnlySlot
  <1>. HIDE DEF idx
  <1>6. CASE idx = 0 /\ Key(s.min[1]) <= Key(v)
    <2>1. 1 \in 1..slots
      OBVIOUS
    <2>2. s.min[1] \in Value /\ Key(s.min[1]) \in Int
      BY <1>2, <2>1
    <2>3. Key(s.min[1]) > Key(end)
      BY <1>4, <1>6, <2>2, KeyOrders
    <2>. QED
      BY <1>2, <1>3, <1>6, <2>2, <2>3
  <1>7. CASE idx \in 1..slots /\ Key(start) <= Key(s.max[idx])
    <2>1. s.max[idx] \in Value /\ Key(s.max[idx]) \in Int
      BY <1>2, <1>7
    <2>2. GreaterThanEquals(s.max[idx], start)
      BY <1>2, <1>7, <2>1, KeyOrders
    <2>. QED
      BY <1>4, <1>7, <2>2
  <1>8. CASE idx \in 1..slots /\ idx < slots /\ Key(s.min[idx + 1]) <= Key(v)
    <2>1. idx + 1 \in 1..slots
      BY <1>8
    <2>2. s.min[idx + 1] \in Value /\ Key(s.min[idx + 1]) \in Int
      BY <1>2, <2>1
    <2>3. ~LessThanEquals(s.min[idx + 1], end)
      BY <1>4, <1>8
    <2>4. LessThanEquals(s.min[idx + 1], end)
      BY <1>2, <1>3, <1>8, <2>2, KeyOrders
    <2>. QED
      BY <2>3, <2>4
  <1>. QED
    BY <1>5, <1>6, <1>7, <1>8

(* Clusters that are points are answered exactly: what is not there is ruled
   out.                                                                       *)
LEMMA PointsExact ==
    ASSUME NEW values \in SUBSET Value, NEW slots \in Nat \ {0},
           NEW s, Covers(s, values, slots),
           \A i \in 1..slots : Key(s.min[i]) = Key(s.max[i])
    PROVE  /\ \A c \in Value :
                 (\A v \in values : ~Equals(v, c)) => ClusterQuery(s, "EQUAL", c)
           /\ \A start, end \in Value :
                 ~GreaterThan(start, end)
                    /\ (\A v \in values : ~Between(v, start, end))
                 => ClusterQueryRange(s, start, end)
  <1>1. /\ \A v \in values : v \in Value /\ Key(v) \in Int
        /\ \A i \in 1..slots :
              /\ s.min[i] \in values /\ s.max[i] \in values
              /\ s.min[i] \in Value /\ s.max[i] \in Value
              /\ Key(s.min[i]) \in Int /\ Key(s.max[i]) \in Int
        /\ Len(s.min) = slots /\ s.min \in Seq(Value) /\ s.min # <<>>
    BY ValuesInt, CoversInt DEF Covers
  <1>2. 1 \in 1..slots
    OBVIOUS
  <1>3. ~RawGreater(s.min[1], s.max[1])
    <2>1. s.min[1] \in Value /\ s.max[1] \in Value /\ Key(s.min[1]) = Key(s.max[1])
          /\ Key(s.min[1]) \in Int
      BY <1>1, <1>2
    <2>. QED
      BY <2>1, KeyOrders
  <1>4. ASSUME NEW c \in Value
        PROVE  \/ /\ FindLast(s.min, c) = 0
                  /\ Key(c) < Key(s.min[1])
               \/ Found(s.min, c, FindLast(s.min, c))
    BY <1>1, FindLastFinds
  <1>5. ASSUME NEW c \in Value, \A v \in values : ~Equals(v, c)
        PROVE  ClusterQuery(s, "EQUAL", c)
    <2>. DEFINE idx == FindLast(s.min, c)
    <2>1. idx = 0 \/ Found(s.min, c, idx)
      BY <1>4
    <2>. HIDE DEF idx
    <2>2. ASSUME Found(s.min, c, idx) PROVE ~GreaterThanEquals(s.max[idx], c)
      <3>1. idx \in 1..slots /\ Key(s.min[idx]) <= Key(c)
        BY <1>1, <2>2 DEF Found
      <3>2. /\ s.max[idx] \in values /\ s.max[idx] \in Value
            /\ Key(s.max[idx]) \in Int /\ Key(s.max[idx]) <= Key(c)
        BY <1>1, <3>1
      <3>3. ~Equals(s.max[idx], c)
        BY <1>5, <3>2
      <3>4. Key(c) \in Int
        BY ValuesInt
      <3>. QED
        BY <3>2, <3>3, <3>4, KeyOrders
    <2>. QED
      BY <1>3, <2>1, <2>2 DEF ClusterQuery, QueryEqual, idx
  <1>6. ASSUME NEW start \in Value, NEW end \in Value, ~GreaterThan(start, end),
               \A v \in values : ~Between(v, start, end)
        PROVE  ClusterQueryRange(s, start, end)
    <2>. DEFINE idx == FindLast(s.min, start)
    <2>1. Key(start) \in Int /\ Key(end) \in Int /\ Key(start) <= Key(end)
      <3>1. Key(start) \in Int /\ Key(end) \in Int
        BY ValuesInt
      <3>. QED
        BY <1>6, <3>1, KeyOrders
    <2>2. \A v \in values : Key(v) < Key(start) \/ Key(end) < Key(v)
      <3>1. ASSUME NEW v \in values, ~(Key(v) < Key(start)), ~(Key(end) < Key(v))
            PROVE  FALSE
        <4>1. v \in Value /\ Key(v) \in Int
          BY <1>1
        <4>2. Key(v) >= Key(start) /\ Key(v) <= Key(end)
          BY <2>1, <3>1, <4>1
        <4>3. Between(v, start, end)
          BY <4>1, <4>2, KeyOrders DEF Between
        <4>. QED
          BY <1>6, <4>3
      <3>. QED
        BY <3>1
    <2>3. \/ idx = 0 /\ Key(start) < Key(s.min[1])
          \/ Found(s.min, start, idx)
      BY <1>4
    <2>. HIDE DEF idx
    <2>4. ASSUME idx = 0, Key(start) < Key(s.min[1]) PROVE GreaterThan(s.min[1], end)
      <3>1. s.min[1] \in values /\ s.min[1] \in Value /\ Key(s.min[1]) \in Int
        BY <1>1, <1>2
      <3>2. Key(end) < Key(s.min[1])
        BY <2>1, <2>2, <2>4, <3>1
      <3>. QED
        BY <2>1, <3>1, <3>2, KeyOrders
    <2>5. ASSUME Found(s.min, start, idx)
          PROVE  /\ idx # 0 /\ ~GreaterThanEquals(s.max[idx], start)
                 /\ idx < Len(s.min) => ~LessThanEquals(s.min[idx + 1], end)
      <3>1. /\ idx \in 1..slots /\ Key(s.min[idx]) <= Key(start)
            /\ \/ idx = slots
               \/ Key(start) < Key(s.min[idx + 1])
               \/ Key(s.min[idx]) = Key(start)
        BY <1>1, <2>5 DEF Found
      <3>2. /\ s.max[idx] \in values /\ s.max[idx] \in Value
            /\ Key(s.max[idx]) \in Int /\ Key(s.max[idx]) = Key(s.min[idx])
        BY <1>1, <3>1
      <3>3. Key(s.max[idx]) < Key(start)
        BY <2>1, <2>2, <3>1, <3>2
      <3>4. ~GreaterThanEquals(s.max[idx], start)
        BY <2>1, <3>2, <3>3, KeyOrders
      <3>5. ASSUME idx < slots PROVE ~LessThanEquals(s.min[idx + 1], end)
        <4>1. PICK next \in 1..slots : next = idx + 1
          BY <3>1, <3>5
        <4>2. s.min[next] \in values /\ s.min[next] \in Value /\ Key(s.min[next]) \in Int
          BY <1>1
        <4>3. Key(start) < Key(s.min[next])
          BY <2>1, <3>1, <3>2, <3>3, <3>5, <4>1
        <4>4. Key(end) < Key(s.min[next])
          BY <2>1, <2>2, <4>2, <4>3
        <4>5. ~LessThanEquals(s.min[next], end)
          BY <2>1, <4>2, <4>4, KeyOrders
        <4>. QED
          BY <4>1, <4>5
      <3>. QED
        BY <1>1, <3>1, <3>4, <3>5
    <2>. QED
      BY <1>3, <2>3, <2>4, <2>5 DEF ClusterQueryRange, idx
  <1>. QED
    BY <1>5, <1>6

(* FindLastIndexBeforePoint_Linear counts the slots up to the last one that
   does not start after the constant.                                         *)
LEMMA PrefixCount ==
    ASSUME NEW n \in Nat, NEW P \in SUBSET (1..n),
           \A i \in P, j \in 1..n : j <= i => j \in P
    PROVE  /\ Cardinality(P) \in 0..n
           /\ P = 1..Cardinality(P)
  <1>1. IsFiniteSet(P) /\ P \in SUBSET Int
    <2>1. IsFiniteSet(1..n)
      BY FS_Interval
    <2>2. IsFiniteSet(P)
      BY <2>1, FS_Subset
    <2>3. P \in SUBSET Int
      OBVIOUS
    <2>. QED
      BY <2>2, <2>3
  <1>2. CASE P = {}
    BY <1>2, FS_EmptySet
  <1>3. CASE P # {}
    <2>. DEFINE m == Max(P)
    <2>1. m \in P /\ \A i \in P : i <= m
      BY <1>1, <1>3, MinMax
    <2>. HIDE DEF m
    <2>2. m \in 1..n
      BY <2>1
    <2>3. \A i \in 1..m : i \in P
      BY <2>1, <2>2
    <2>4. \A i \in P : i \in 1..m
      BY <2>1, <2>2
    <2>5. P = 1..m
      BY <2>3, <2>4
    <2>6. Cardinality(1..m) = m
      BY <2>2, FS_Interval
    <2>. QED
      BY <2>2, <2>5, <2>6
  <1>. QED
    BY <1>2, <1>3

(* The binary search stops where the linear one does, or at another slot that
   starts at the constant too.                                                *)
LEMMA SameSlot ==
    ASSUME NEW values \in SUBSET Value, NEW slots \in Nat \ {0},
           NEW s, Covers(s, values, slots), NEW c \in Value
    PROVE  LET binary == FindLast(s.min, c)
               linear == FindLastLinear(s.min, c)
           IN  \/ binary = linear
               \/ /\ binary # 0 /\ linear # 0
                  /\ Equals(s.min[binary], c) /\ Equals(s.min[linear], c)
  <1>. DEFINE P == {i \in 1..slots : \A j \in 1..i : ~GreaterThan(s.min[j], c)}
              binary == FindLast(s.min, c)
              linear == FindLastLinear(s.min, c)
  <1>1. /\ Key(c) \in Int /\ s.min \in Seq(Value) /\ s.min # <<>>
        /\ Len(s.min) = slots
        /\ \A i \in 1..slots : s.min[i] \in Value /\ Key(s.min[i]) \in Int
    BY ValuesInt, CoversInt DEF Covers
  <1>2. \A i, j \in 1..slots : i <= j => Key(s.min[i]) <= Key(s.min[j])
    BY DEF Covers
  <1>3. \A i \in 1..slots : i \in P <=> Key(s.min[i]) <= Key(c)
    <2>1. ASSUME NEW i \in 1..slots
          PROVE  ~GreaterThan(s.min[i], c) <=> Key(s.min[i]) <= Key(c)
      BY <1>1, KeyOrders
    <2>2. ASSUME NEW i \in 1..slots, Key(s.min[i]) <= Key(c), NEW j \in 1..i
          PROVE  ~GreaterThan(s.min[j], c)
      <3>1. j \in 1..slots /\ j <= i
        OBVIOUS
      <3>2. Key(s.min[j]) <= Key(s.min[i])
        BY <1>2, <3>1
      <3>3. Key(s.min[j]) <= Key(c)
        BY <1>1, <2>2, <3>1, <3>2
      <3>. QED
        BY <2>1, <3>1, <3>3
    <2>. QED
      BY <2>1, <2>2
  <1>4. linear = Cardinality(P)
    BY <1>1 DEF FindLastLinear
  <1>5. \A i \in P, j \in 1..slots : j <= i => j \in P
    <2>1. \A i \in P : i \in 1..slots
      OBVIOUS
    <2>. HIDE DEF P
    <2>2. ASSUME NEW i \in P, NEW j \in 1..slots, j <= i PROVE j \in P
      <3>1. i \in 1..slots /\ Key(s.min[i]) <= Key(c)
        BY <1>3, <2>1
      <3>2. Key(s.min[j]) <= Key(s.min[i])
        BY <1>2, <2>2, <3>1
      <3>3. Key(s.min[j]) <= Key(c)
        BY <1>1, <3>1, <3>2
      <3>. QED
        BY <1>3, <3>3
    <2>. QED
      BY <2>2
  <1>6. P \in SUBSET (1..slots)
    OBVIOUS
  <1>. HIDE DEF P
  <1>7. linear \in 0..slots /\ P = 1..linear
    BY <1>4, <1>5, <1>6, PrefixCount
  <1>8. \/ binary = 0 /\ Key(c) < Key(s.min[1])
        \/ Found(s.min, c, binary)
    BY <1>1, FindLastFinds
  <1>. HIDE DEF binary, linear
  <1>9. CASE binary = 0 /\ Key(c) < Key(s.min[1])
    <2>1. 1 \in 1..slots
      OBVIOUS
    <2>2. 1 \notin P
      BY <1>1, <1>3, <1>9, <2>1
    <2>3. linear = 0
      BY <1>7, <2>2
    <2>. QED
      BY <1>9, <2>3 DEF binary, linear
  <1>10. CASE Found(s.min, c, binary)
    <2>1. /\ binary \in 1..slots /\ Key(s.min[binary]) <= Key(c)
          /\ \/ binary = slots
             \/ Key(c) < Key(s.min[binary + 1])
             \/ Key(s.min[binary]) = Key(c)
      BY <1>1, <1>10 DEF Found
    <2>2. binary \in P
      BY <1>3, <2>1
    <2>3. binary <= linear
      BY <1>7, <2>2
    <2>4. CASE binary = slots
      BY <1>7, <2>3, <2>4 DEF binary, linear
    <2>5. CASE binary < slots /\ Key(c) < Key(s.min[binary + 1])
      <3>1. PICK next \in 1..slots : next = binary + 1
        BY <2>1, <2>5
      <3>2. next \notin P
        BY <1>1, <1>3, <2>5, <3>1
      <3>3. ~ (next <= linear)
        BY <1>7, <3>2
      <3>4. binary = linear
        BY <1>7, <2>1, <2>3, <3>1, <3>3
      <3>. QED
        BY <3>4 DEF binary, linear
    <2>6. CASE Key(s.min[binary]) = Key(c)
      <3>1. linear \in 1..slots /\ linear \in P
        BY <1>7, <2>1, <2>3
      <3>2. Key(s.min[linear]) <= Key(c) /\ Key(s.min[binary]) <= Key(s.min[linear])
        BY <1>2, <1>3, <2>1, <2>3, <3>1
      <3>3. Key(s.min[linear]) = Key(c)
        BY <1>1, <2>6, <3>1, <3>2
      <3>4. Equals(s.min[binary], c) /\ Equals(s.min[linear], c)
        BY <1>1, <2>1, <2>6, <3>1, <3>3, KeyOrders
      <3>. QED
        BY <2>1, <3>1, <3>4 DEF binary, linear
    <2>. QED
      BY <2>1, <2>4, <2>5, <2>6
  <1>. QED
    BY <1>8, <1>9, <1>10

-------------------------------------------------------------------------------
(* The values the engine tells apart *)

ClassOf(data, v) == {u \in data : Equals(u, v)}

ClassesOf(data) == {ClassOf(data, v) : v \in data}

LEMMA CountOneMore ==
    ASSUME NEW S, IsFiniteSet(S), NEW x, x \notin S, NEW values
    PROVE  LET T == IF values = {} THEN S ELSE S \cup {x}
           IN  IsFiniteSet(T) /\ Cardinality(T) = Cardinality(S) + Number(values)
  <1>1. Cardinality(S) \in Nat
    BY FS_CardinalityType
  <1>2. CASE values = {}
    BY <1>1, <1>2 DEF Number
  <1>3. CASE values # {}
    BY <1>1, <1>3, FS_AddElement DEF Number
  <1>. QED
    BY <1>2, <1>3

(* They are at least the finite values and one for each special one. *)
LEMMA ClassCount ==
    ASSUME NEW data \in SUBSET Value, IsFiniteSet(data)
    PROVE  /\ IsFiniteSet(ClassesOf(data))
           /\ Cardinality(data \cap Finite) + Number(data \cap {NegInf})
                  + Number(data \cap {PosInf}) + Number(data \cap NaN)
                 <= Cardinality(ClassesOf(data))
           /\ Cardinality(ClassesOf(data)) <= 1 =>
                 \A u, v \in data : Key(u) = Key(v)
  <1>. DEFINE finite == data \cap Finite
              neg == data \cap {NegInf}
              pos == data \cap {PosInf}
              nan == data \cap NaN
              K1 == IF neg = {} THEN finite ELSE finite \cup {NegInf}
              K2 == IF pos = {} THEN K1 ELSE K1 \cup {PosInf}
              K3 == IF nan = {} THEN K2 ELSE K2 \cup {PosInf + 1}
              class(v) == ClassOf(data, v)
              classes == ClassesOf(data)
  <1>1. IsFiniteSet(classes) /\ Cardinality(classes) \in Nat
    <2>. DEFINE f == [v \in data |-> class(v)]
    <2>1. f \in Surjection(data, classes)
      BY Zenon DEF Surjection, ClassesOf
    <2>. QED
      BY <2>1, FS_Surjection, FS_CardinalityType
  <1>2. /\ \A v \in finite : v \in Int /\ NegInf < v /\ v < PosInf /\ v \notin NaN
        /\ NegInf \notin NaN /\ PosInf \notin NaN
        /\ NegInf \in Int /\ PosInf \in Int /\ NegInf < PosInf
    <2>1. NegInf \in Int /\ PosInf \in Int /\ NegInf < PosInf
      BY SpecialAssumption
    <2>2. \A n \in NaN : n \in Int /\ PosInf < n
      BY SpecialAssumption
    <2>3. \A v \in finite : v \in Int /\ NegInf < v /\ v < PosInf
      BY FiniteAssumption, SpecialAssumption
    <2>. QED
      BY <2>1, <2>2, <2>3
  <1>3. \A k \in K3 : \E v \in data : Key(v) = k
    BY <1>2 DEF Key
  <1>4. /\ IsFiniteSet(K3)
        /\ Cardinality(K3)
              = Cardinality(finite) + Number(neg) + Number(pos) + Number(nan)
    <2>1. IsFiniteSet(finite) /\ Cardinality(finite) \in Nat
      BY FS_Subset, FS_CardinalityType
    <2>2. NegInf \notin finite /\ PosInf \notin K1 /\ PosInf + 1 \notin K2
      BY <1>2
    <2>3. Number(neg) \in Nat /\ Number(pos) \in Nat /\ Number(nan) \in Nat
      BY DEF Number
    <2>. HIDE DEF finite, neg, pos, nan
    <2>4. IsFiniteSet(K1) /\ Cardinality(K1) = Cardinality(finite) + Number(neg)
      BY <2>1, <2>2, CountOneMore
    <2>. HIDE DEF K1
    <2>5. IsFiniteSet(K2) /\ Cardinality(K2) = Cardinality(K1) + Number(pos)
      BY <2>2, <2>4, CountOneMore
    <2>. HIDE DEF K2
    <2>6. IsFiniteSet(K3) /\ Cardinality(K3) = Cardinality(K2) + Number(nan)
      BY <2>2, <2>5, CountOneMore
    <2>. QED
      BY <2>1, <2>3, <2>4, <2>5, <2>6
  <1>5. \A u, v \in data : u \in class(v) <=> Key(u) = Key(v)
    BY KeyOrders DEF ClassOf
  <1>6. \A v \in data : v \in class(v) /\ class(v) \in classes
    BY <1>5 DEF ClassesOf
  <1>. HIDE DEF K1, K2, K3, class, classes
  <1>7. Cardinality(K3) <= Cardinality(classes)
    <2>. DEFINE of(k) == CHOOSE v \in data : Key(v) = k
                g == [k \in K3 |-> class(of(k))]
    <2>1. \A k \in K3 : of(k) \in data /\ Key(of(k)) = k
      BY <1>3
    <2>. HIDE DEF of
    <2>2. g \in [K3 -> classes]
      BY <1>6, <2>1
    <2>3. ASSUME NEW j \in K3, NEW k \in K3, g[j] = g[k] PROVE j = k
      <3>1. class(of(j)) = class(of(k))
        BY <2>3
      <3>2. of(j) \in class(of(k))
        BY <1>6, <2>1, <3>1
      <3>. QED
        BY <1>5, <2>1, <3>2
    <2>4. g \in Injection(K3, classes)
      BY <2>2, <2>3, Zenon DEF Injection, IsInjective
    <2>. QED
      BY <1>1, <2>4, FS_Injection
  <1>8. ASSUME Cardinality(classes) <= 1, NEW u \in data, NEW v \in data
        PROVE  Key(u) = Key(v)
    <2>1. class(u) \in classes /\ class(v) \in classes
      BY <1>6
    <2>2. Cardinality(classes) # 0
      BY <1>1, <2>1, FS_EmptySet
    <2>3. Cardinality(classes) = 1
      BY <1>1, <1>8, <2>2
    <2>4. PICK c : classes = {c}
      BY <1>1, <2>3, FS_Singleton
    <2>5. class(u) = class(v)
      BY <2>1, <2>4
    <2>. QED
      BY <1>5, <1>6, <2>5
  <1>. QED
    BY <1>1, <1>4, <1>7, <1>8 DEF classes

-------------------------------------------------------------------------------

(* Equal values have equal hashes.  std::hash does not promise it of two NaNs
   with different bits.                                                       *)
EqualHashes ==
    \A u, v \in Value : Equals(u, v) => Low[u] = Low[v] /\ High[u] = High[v]

-------------------------------------------------------------------------------
(* Lemmas on the values and on the kinds *)

(* A dictionary element that satisfies a comparison matches it in Query too. *)
LEMMA SatisfiesMatches ==
    ASSUME NEW u \in Value, NEW c \in Value, NEW op \in Comparison,
           Satisfies(u, op, c)
    PROVE  DictionaryMatch(u, op, c)
  <1>1. CASE op = "EQUAL"
    BY <1>1 DEF Satisfies, DictionaryMatch
  <1>2. CASE op = "NOTEQUAL"
    BY <1>2 DEF Satisfies, DictionaryMatch
  <1>3. CASE op = "LESSTHAN"
    BY <1>3 DEF Satisfies, DictionaryMatch, LessThan, LessThanEquals,
                GreaterThan, GreaterThanEquals
  <1>4. CASE op = "LESSTHANOREQUALTO"
    BY <1>4 DEF Satisfies, DictionaryMatch
  <1>5. CASE op = "GREATERTHAN"
    BY <1>5 DEF Satisfies, DictionaryMatch, GreaterThan, GreaterThanEquals
  <1>6. CASE op = "GREATERTHANOREQUALTO"
    BY <1>6 DEF Satisfies, DictionaryMatch
  <1>. QED
    BY <1>1, <1>2, <1>3, <1>4, <1>5, <1>6 DEF Comparison

(* What a valid dictionary excludes no value of the partition satisfies:
   DictionaryAdditionalStats::Query and QueryRange.                           *)
LEMMA DictionarySound ==
    ASSUME NEW data \in Seq(Value), NEW v \in Range(data)
    PROVE  /\ \A op \in Comparison, c \in Value :
                 DictionaryQuery(Dictionary(data), op, c) => ~Satisfies(v, op, c)
           /\ \A start, end \in Value :
                 DictionaryQueryRange(Dictionary(data), start, end) =>
                     ~Between(v, start, end)
  <1>. DEFINE s == Dictionary(data)
  <1>1. v \in Value
    BY DEF Range
  <1>2. s.valid => v \in s.dictionary
    BY DEF Dictionary
  <1>. HIDE DEF s
  <1>. QED
    BY <1>1, <1>2, SatisfiesMatches DEF DictionaryQuery, DictionaryQueryRange, s

(* A Bloom filter has every bit of a constant that equals a value of the
   partition: BloomUtil::Insert and QueryUtil probe the same bits.            *)
LEMMA BloomSound ==
    ASSUME EqualHashes, NEW data \in Seq(Value), NEW v \in Range(data),
           NEW op \in Comparison, NEW c \in Value,
           BloomQuery(Bloom(data), op, c)
    PROVE  ~Satisfies(v, op, c)
  <1>1. v \in Value
    BY DEF Range
  <1>2. SUFFICES ASSUME Equals(v, c) PROVE FALSE
    BY DEF BloomQuery, Satisfies
  <1>3. Low[v] = Low[c] /\ High[v] = High[c]
    BY <1>1, <1>2 DEF EqualHashes
  <1>4. PICK i \in 1..Hashes : BitPosition(c, i) \notin Bloom(data).bits
    BY DEF BloomQuery, MayContain
  <1>5. BitPosition(v, i) = BitPosition(c, i)
    BY <1>3 DEF BitPosition
  <1>6. BitPosition(v, i) \in Inserted(v)
    BY DEF Inserted
  <1>7. BitPosition(v, i) \in Bloom(data).bits
    BY <1>6 DEF Bloom
  <1>. QED
    BY <1>4, <1>5, <1>7
-------------------------------------------------------------------------------
(* The statistic of a column is the one its values construct. *)
IInv ==
    /\ temp \in Seq(Value) /\ held \in Seq(Value)
    /\ type \in Types
    /\ astats # NoStats => astats = Construct(held)

LEMMA ConstructedFromHeld == Spec => []IInv
  <1>1. Init => IInv
    BY DEF Init, IInv
  <1>2. IInv /\ [Next]_vars => IInv'
    <2>. SUFFICES ASSUME IInv, [Next]_vars PROVE IInv'
      OBVIOUS
    <2>1. ASSUME NEW value \in Value, AppendTemp(value) PROVE IInv'
      BY <2>1 DEF AppendTemp, IInv, Construct
    <2>2. CASE InitStats
      BY <2>2 DEF InitStats, IInv, Construct
    <2>3. CASE InitStatsThrows
      BY <2>3 DEF InitStatsThrows, IInv, Construct
    <2>4. CASE UNCHANGED vars
      BY <2>4 DEF vars, IInv, Construct
    <2>. QED
      BY <2>1, <2>2, <2>3, <2>4 DEF Next
  <1>. QED
    BY <1>1, <1>2, PTL DEF Spec

(* A partition is a finite set of values. *)
LEMMA RangeFinite ==
    ASSUME NEW data \in Seq(Value)
    PROVE  IsFiniteSet(Range(data)) /\ Cardinality(Range(data)) \in Nat
  <1>1. IsFiniteSet(1..Len(data))
    BY FS_Interval
  <1>2. data \in [1..Len(data) -> Range(data)]
    BY DEF Range
  <1>3. \A v \in Range(data) : \E i \in 1..Len(data) : data[i] = v
    BY DEF Range
  <1>4. data \in Surjection(1..Len(data), Range(data))
    BY <1>2, <1>3 DEF Surjection
  <1>. QED
    BY <1>1, <1>4, FS_Surjection, FS_CardinalityType

LEMMA RangeOfRows ==
    ASSUME NEW data \in Seq(Value)
    PROVE  /\ Range(data) \in SUBSET Value
           /\ data # <<>> <=> Range(data) # {}
  <1>1. Range(data) = {data[i] : i \in 1..Len(data)}
    BY DEF Range
  <1>2. ASSUME data # <<>> PROVE data[1] \in Range(data)
    <2>1. 1 \in 1..Len(data)
      BY <1>2
    <2>. QED
      BY <1>1, <2>1
  <1>. QED
    BY <1>1, <1>2

(* What clusters of a partition with rows are.  MIN_MAX is clusters of one
   slot.                                                                      *)
LEMMA ClustersHeld ==
    ASSUME IInv, Clustered
    PROVE  /\ held \in Seq(Value) /\ held # <<>>
           /\ Range(held) \in SUBSET Value /\ Range(held) # {}
           /\ IsFiniteSet(Range(held))
           /\ Size \in Nat \ {0}
           /\ astats = Cluster(held, Size)
           /\ Covers(astats, Range(held), Size)
           /\ astats.type = "CLUSTER"
  <1>1. /\ held \in Seq(Value) /\ held # <<>>
        /\ Range(held) \in SUBSET Value /\ Range(held) # {}
    BY RangeOfRows DEF IInv, Clustered
  <1>2. Size \in Nat \ {0}
    BY TypesAssumption DEF Size
  <1>3. astats = Cluster(held, Size)
    BY DEF IInv, Clustered, Construct, Size
  <1>4. IsFiniteSet(Range(held))
    BY <1>1, RangeFinite
  <1>5. Covers(astats, Range(held), Size)
    BY <1>1, <1>2, <1>3, <1>4, ClusterCovers
  <1>. QED
    BY <1>1, <1>2, <1>3, <1>4, <1>5 DEF Covers

(* No column is ruled out for a filter that one of its rows satisfies, whatever
   its kind, its rows, the number of slots, the limit and the size of the
   filter are, provided equal values have equal hashes.                       *)
THEOREM MembershipSound ==
    ASSUME EqualHashes
    PROVE  Spec => []NoFalsePrune
  <1>1. IInv => NoFalsePrune
    <2>. SUFFICES ASSUME IInv, NEW op \in Comparison, NEW c \in Value,
                         Query(op, c), NEW v \in Range(held),
                         Satisfies(v, op, c)
                  PROVE  FALSE
      BY DEF NoFalsePrune, Matching
    <2>1. astats = Construct(held) /\ astats # NoStats /\ held \in Seq(Value)
      BY DEF IInv, Query
    <2>2. CASE type \in {"MIN_MAX", "CLUSTER"}
      <3>1. Clustered
        <4>1. held # <<>>
          BY DEF Range
        <4>. QED
          BY <2>1, <2>2, <4>1 DEF Clustered
      <3>2. ClusterQuery(astats, op, c)
        BY <3>1, ClustersHeld DEF Query
      <3>. QED
        BY <3>1, <3>2, ClustersHeld, ClusterQuerySound
    <2>3. CASE type = "NONE"
      BY <2>1, <2>3 DEF Construct, Query
    <2>4. CASE type = "BLOOM"
      <3>1. astats = Bloom(held)
        BY <2>1, <2>4 DEF Construct
      <3>2. BloomQuery(Bloom(held), op, c)
        BY <3>1 DEF Query, Bloom
      <3>. QED
        BY <2>1, <3>2, BloomSound
    <2>5. CASE type = "DICTIONARY"
      <3>1. astats = Dictionary(held)
        BY <2>1, <2>5 DEF Construct
      <3>2. DictionaryQuery(Dictionary(held), op, c)
        BY <3>1 DEF Query, Dictionary
      <3>. QED
        BY <2>1, <3>2, DictionarySound
    <2>6. CASE type \notin {"NONE", "MIN_MAX", "CLUSTER", "BLOOM",
                           "DICTIONARY"}
      BY <2>1, <2>6 DEF Construct
    <2>. QED
      BY <2>2, <2>3, <2>4, <2>5, <2>6
  <1>. QED
    BY <1>1, ConstructedFromHeld, PTL

(* The same of two bounds, which clusters and dictionaries prune by; hashes
   play no part.                                                              *)
THEOREM RangeSound == Spec => []NoFalseRangePrune
  <1>1. IInv => NoFalseRangePrune
    <2>. SUFFICES ASSUME IInv, NEW start \in Value, NEW end \in Value,
                         QueryRange(start, end), NEW v \in Range(held),
                         Between(v, start, end)
                  PROVE  FALSE
      BY DEF NoFalseRangePrune, InRange
    <2>1. astats = Construct(held) /\ astats # NoStats /\ held \in Seq(Value)
      BY DEF IInv, QueryRange
    <2>2. CASE type \in {"MIN_MAX", "CLUSTER"}
      <3>1. Clustered
        <4>1. held # <<>>
          BY DEF Range
        <4>. QED
          BY <2>1, <2>2, <4>1 DEF Clustered
      <3>2. ClusterQueryRange(astats, start, end)
        BY <3>1, ClustersHeld DEF QueryRange
      <3>. QED
        BY <3>1, <3>2, ClustersHeld, ClusterRangeSound
    <2>3. CASE type = "NONE"
      BY <2>1, <2>3 DEF Construct, QueryRange
    <2>4. CASE type = "BLOOM"
      BY <2>1, <2>4 DEF Construct, QueryRange, Bloom
    <2>5. CASE type = "DICTIONARY"
      <3>1. astats = Dictionary(held)
        BY <2>1, <2>5 DEF Construct
      <3>2. DictionaryQueryRange(Dictionary(held), start, end)
        BY <3>1 DEF QueryRange, Dictionary
      <3>. QED
        BY <2>1, <3>2, DictionarySound
    <2>6. CASE type \notin {"NONE", "MIN_MAX", "CLUSTER", "BLOOM",
                           "DICTIONARY"}
      BY <2>1, <2>6 DEF Construct
    <2>. QED
      BY <2>2, <2>3, <2>4, <2>5, <2>6
  <1>. QED
    BY <1>1, ConstructedFromHeld, PTL

(* An empty partition with clusters is never ruled out: the interval that
   Initialise writes for it is empty as the values are compared in C++.       *)
LEMMA EmptyClusters ==
    ASSUME NaN \cap {0, 1} = {}, IInv, held = <<>>, astats # NoStats,
           type \in {"MIN_MAX", "CLUSTER"}
    PROVE  /\ \A op \in Comparison, c \in Value : ~Query(op, c)
           /\ \A start, end \in Value : ~QueryRange(start, end)
  <1>1. astats = Construct(<<>>)
    BY DEF IInv
  <1>2. astats = [type |-> "CLUSTER", min |-> <<1>>, max |-> <<0>>]
    BY <1>1 DEF Construct, Cluster
  <1>3. RawGreater(astats.min[1], astats.max[1])
    BY <1>2 DEF RawGreater
  <1>4. astats.type = "CLUSTER"
    BY <1>2
  <1>. QED
    BY <1>3, <1>4 DEF Query, QueryRange, ClusterQuery, ClusterQueryRange

(* Every kind answers only what ColumnData lets a statistic of those values
   answer: the bridge from the kinds to the theorems about TableStats.  (No NaN
   is encoded by an end of the empty interval of an empty partition.)         *)
THEOREM AbstractionSound ==
    ASSUME EqualHashes, NaN \cap {0, 1} = {}, NoStats \notin SUBSET Value
    PROVE  Spec => []AsColumnDataAbstracts
  <1>1. IInv /\ NoFalsePrune /\ NoFalseRangePrune => AsColumnDataAbstracts
    <2>. SUFFICES ASSUME IInv, NoFalsePrune, NoFalseRangePrune
                  PROVE  AsColumnDataAbstracts
      OBVIOUS
    <2>. DEFINE values == IF astats = NoStats THEN NoStats ELSE Range(held)
                column == [Column!Forgotten EXCEPT !.stats = values]
                built == astats # NoStats /\ (Range(held) # {} \/ PrunesEmpty(type))
    <2>1. astats # NoStats => column.stats = Range(held)
      BY DEF Column!Forgotten
    <2>2. Range(held) \in SUBSET Value
      BY DEF IInv, Range
    <2>3. ASSUME built, NEW S, Range(held) \cap S = {}
          PROVE  Column!Excludes(column, S)
      BY <2>1, <2>2, <2>3 DEF Column!Excludes
    <2>4. ASSUME astats # NoStats, ~built
          PROVE  /\ \A op \in Comparison, c \in Value : ~Query(op, c)
                 /\ \A start, end \in Value : ~QueryRange(start, end)
      <3>1. held = <<>> /\ type \notin {"BLOOM", "DICTIONARY"}
        <4>1. held \in Seq(Value) /\ Range(held) = {} /\ ~PrunesEmpty(type)
          BY <2>4 DEF IInv
        <4>2. held # <<>> => Range(held) # {}
          BY <4>1, RangeOfRows
        <4>. QED
          BY <4>1, <4>2 DEF PrunesEmpty
      <3>2. CASE type \in {"MIN_MAX", "CLUSTER"}
        BY <2>4, <3>1, <3>2, EmptyClusters
      <3>3. CASE type \notin {"MIN_MAX", "CLUSTER"}
        BY <2>4, <3>1, <3>3 DEF IInv, Construct, Query, QueryRange
      <3>. QED
        BY <3>2, <3>3
    <2>5. ASSUME NEW op \in Comparison, NEW c \in Value, Query(op, c) PROVE built
      <3>1. astats # NoStats
        BY <2>5 DEF Query
      <3>. HIDE DEF built
      <3>. QED
        BY <2>4, <2>5, <3>1
    <2>6. ASSUME NEW start \in Value, NEW end \in Value, QueryRange(start, end)
          PROVE  built
      <3>1. astats # NoStats
        BY <2>6 DEF QueryRange
      <3>. HIDE DEF built
      <3>. QED
        BY <2>4, <2>6, <3>1
    <2>. HIDE DEF built
    <2>7. ASSUME NEW op \in Comparison, NEW c \in Value, Query(op, c)
          PROVE  Column!Excludes(column, Matching(op, c))
      <3>1. Range(held) \cap Matching(op, c) = {}
        BY <2>7 DEF NoFalsePrune
      <3>. QED
        BY <2>3, <2>5, <2>7, <3>1
    <2>8. ASSUME NEW start \in Value, NEW end \in Value, QueryRange(start, end)
          PROVE  Column!Excludes(column, InRange(start, end))
      <3>1. Range(held) \cap InRange(start, end) = {}
        BY <2>8 DEF NoFalseRangePrune
      <3>. QED
        BY <2>3, <2>6, <2>8, <3>1
    <2>. HIDE DEF column
    <2>. QED
      BY <2>7, <2>8 DEF AsColumnDataAbstracts, column, values
  <1>. QED
    BY <1>1, ConstructedFromHeld, MembershipSound, RangeSound, PTL

-------------------------------------------------------------------------------
(* Exactness, and the arrays *)

(* Each NaN counts for itself, so a dictionary of a partition without NaN is
   given up for its number of distinct values only.                           *)
LEMMA DictionaryKept ==
    ASSUME NEW data \in Seq(Value), Range(data) \cap NaN = {},
           Cardinality(Range(data)) <= Limit
    PROVE  Dictionary(data).valid
  <1>1. Range(data) \ NaN = Range(data)
    OBVIOUS
  <1>2. {i \in DOMAIN data : data[i] \in NaN} = {}
    BY DEF Range
  <1>3. Cardinality({}) = 0
    BY FS_EmptySet
  <1>4. Cardinality(Range(data) \ NaN) = Cardinality(Range(data))
    BY <1>1
  <1>5. Cardinality({i \in DOMAIN data : data[i] \in NaN}) = 0
    BY <1>2, <1>3
  <1>6. DictionarySize(data) = Cardinality(Range(data)) + 0
    BY <1>4, <1>5 DEF DictionarySize
  <1>7. ~(DictionarySize(data) > Limit)
    BY <1>6, RangeFinite, LimitAssumption
  <1>. QED
    BY <1>7 DEF Dictionary

(* A comparison that is not strict is answered as the engine evaluates it. *)
LEMMA MatchesSatisfies ==
    ASSUME NEW u \in Value, NEW c \in Value,
           NEW op \in Comparison \ {"LESSTHAN", "GREATERTHAN"}
    PROVE  DictionaryMatch(u, op, c) <=> Satisfies(u, op, c)
  <1>1. CASE op = "EQUAL"
    BY <1>1 DEF Satisfies, DictionaryMatch
  <1>2. CASE op = "NOTEQUAL"
    BY <1>2 DEF Satisfies, DictionaryMatch
  <1>3. CASE op = "LESSTHANOREQUALTO"
    BY <1>3 DEF Satisfies, DictionaryMatch
  <1>4. CASE op = "GREATERTHANOREQUALTO"
    BY <1>4 DEF Satisfies, DictionaryMatch
  <1>. QED
    BY <1>1, <1>2, <1>3, <1>4 DEF Comparison

(* A dictionary that is kept prunes exactly when it may, but for the strict
   comparisons, for every limit and every partition.                          *)
THEOREM DictionariesExact == Spec => []DictionaryExact
  <1>1. IInv => DictionaryExact
    <2>. SUFFICES ASSUME IInv, astats # NoStats, type = "DICTIONARY"
                  PROVE  DictionaryExact
      BY DEF DictionaryExact
    <2>1. held \in Seq(Value) /\ astats = Dictionary(held)
      BY DEF IInv, Construct
    <2>2. astats.type = "DICTIONARY"
      BY <2>1 DEF Dictionary
    <2>3. Cardinality(Range(held)) <= Limit /\ Range(held) \cap NaN = {}
             => astats.valid
      BY <2>1, DictionaryKept
    <2>4. astats.valid => astats.dictionary = Range(held)
      BY <2>1 DEF Dictionary
    <2>5. Range(held) \subseteq Value
      BY <2>1 DEF Range
    <2>6. ASSUME astats.valid,
                 NEW op \in Comparison \ {"LESSTHAN", "GREATERTHAN"},
                 NEW c \in Value
          PROVE  Query(op, c) <=> Matching(op, c) = {}
      <3>1. Query(op, c) <=> DictionaryQuery(astats, op, c)
        BY <2>2 DEF Query
      <3>2. DictionaryQuery(astats, op, c)
               <=> \A u \in Range(held) : ~DictionaryMatch(u, op, c)
        BY <2>4, <2>6 DEF DictionaryQuery
      <3>3. \A u \in Range(held) :
               DictionaryMatch(u, op, c) <=> Satisfies(u, op, c)
        BY <2>5, <2>6, MatchesSatisfies
      <3>4. Matching(op, c) = {} <=> \A u \in Range(held) : ~Satisfies(u, op, c)
        BY DEF Matching
      <3>. QED
        BY <3>1, <3>2, <3>3, <3>4
    <2>7. ASSUME astats.valid, NEW start \in Value, NEW end \in Value
          PROVE  QueryRange(start, end) <=> InRange(start, end) = {}
      <3>1. QueryRange(start, end) <=> DictionaryQueryRange(astats, start, end)
        BY <2>2 DEF QueryRange
      <3>. QED
        BY <2>4, <2>7, <3>1 DEF DictionaryQueryRange, InRange
    <2>. QED
      BY <2>3, <2>6, <2>7 DEF DictionaryExact
  <1>. QED
    BY <1>1, ConstructedFromHeld, PTL

(* Every bit of every value is a bit of the array. *)
LEMMA PositionInArray ==
    ASSUME NEW v \in Value, NEW i \in Nat
    PROVE  BitPosition(v, i) \in 0..(Blocks * BlockBits - 1)
  <1>. DEFINE block == Low[v] % Blocks
              bit == ((Low[v] + i * High[v]) % Word) % BlockBits
  <1>1. /\ Blocks \in Nat \ {0} /\ BlockBits \in Nat \ {0} /\ Word \in Nat \ {0}
        /\ Low[v] \in Nat /\ High[v] \in Nat
    BY BloomAssumption
  <1>2. block \in 0..(Blocks - 1)
    BY <1>1
  <1>3. (Low[v] + i * High[v]) % Word \in Nat
    BY <1>1
  <1>4. bit \in 0..(BlockBits - 1)
    BY <1>1, <1>3
  <1>. HIDE DEF block, bit
  <1>5. block * BlockBits \in Nat
    BY <1>1, <1>2
  <1>6. block * BlockBits <= (Blocks - 1) * BlockBits
    BY <1>1, <1>2
  <1>7. (Blocks - 1) * BlockBits = Blocks * BlockBits - BlockBits
    BY <1>1
  <1>8. Blocks * BlockBits \in Nat
    BY <1>1
  <1>9. block * BlockBits + bit \in 0..(Blocks * BlockBits - 1)
    BY <1>1, <1>4, <1>5, <1>6, <1>7, <1>8
  <1>. QED
    BY <1>9 DEF BitPosition, block, bit

(* No bit outside the array is set or read, whatever the sizes of the filter
   and the hashes are.                                                        *)
THEOREM BitsWithin == Spec => []BitsInArray
  <1>1. IInv => BitsInArray
    <2>. SUFFICES ASSUME IInv, astats # NoStats, type = "BLOOM"
                  PROVE  BitsInArray
      BY DEF BitsInArray
    <2>1. held \in Seq(Value) /\ astats = Bloom(held)
      BY DEF IInv, Construct
    <2>2. \A v \in Value, i \in 1..Hashes :
             BitPosition(v, i) \in 0..(Blocks * BlockBits - 1)
      BY PositionInArray, BloomAssumption
    <2>3. Range(held) \subseteq Value
      BY <2>1 DEF Range
    <2>4. astats.bits \subseteq 0..(Blocks * BlockBits - 1)
      BY <2>1, <2>2, <2>3 DEF Bloom, Inserted
    <2>. QED
      BY <2>2, <2>4 DEF BitsInArray
  <1>. QED
    BY <1>1, ConstructedFromHeld, PTL

(* The partition with no value is pruned for every constant by the kinds that
   keep a set of values, and by no other: EmptyPrunes of ColumnData.  (No NaN
   is encoded by an end of the empty interval that Initialise writes.)        *)
THEOREM EmptyPartitions ==
    ASSUME NaN \cap {0, 1} = {}
    PROVE  Spec => []EmptyPartition
  <1>1. IInv => EmptyPartition
    <2>. SUFFICES ASSUME IInv, held = <<>>, astats # NoStats, type # "NONE",
                         NEW c \in Value
                  PROVE  Query("EQUAL", c) <=> PrunesEmpty(type)
      BY DEF EmptyPartition
    <2>1. astats = Construct(<<>>)
      BY DEF IInv
    <2>2. Range(<<>>) = {}
      BY DEF Range
    <2>3. CASE type \in {"MIN_MAX", "CLUSTER"}
      <3>1. astats = [type |-> "CLUSTER", min |-> <<1>>, max |-> <<0>>]
        BY <2>1, <2>3 DEF Construct, Cluster
      <3>2. RawGreater(astats.min[1], astats.max[1])
        BY <3>1 DEF RawGreater
      <3>. QED
        BY <2>3, <3>1, <3>2 DEF Query, ClusterQuery, PrunesEmpty
    <2>4. CASE type = "BLOOM"
      <3>1. astats.type = "BLOOM" /\ astats.bits = {}
        BY <2>1, <2>2, <2>4 DEF Construct, Bloom
      <3>2. 1 \in 1..Hashes
        BY BloomAssumption
      <3>. QED
        BY <2>4, <3>1, <3>2 DEF Query, BloomQuery, MayContain, PrunesEmpty
    <2>5. CASE type = "DICTIONARY"
      <3>1. Dictionary(<<>>).valid
        <4>1. Cardinality(Range(<<>>)) = 0
          BY <2>2, FS_EmptySet
        <4>2. <<>> \in Seq(Value)
          OBVIOUS
        <4>3. Cardinality(Range(<<>>)) <= Limit
          BY <4>1, LimitAssumption
        <4>4. Range(<<>>) \cap NaN = {}
          BY <2>2
        <4>. QED
          BY <4>2, <4>3, <4>4, DictionaryKept
      <3>2. astats.type = "DICTIONARY" /\ astats.valid /\ astats.dictionary = {}
        BY <2>1, <2>2, <2>5, <3>1 DEF Construct, Dictionary
      <3>. QED
        BY <2>5, <3>2 DEF Query, DictionaryQuery, PrunesEmpty
    <2>6. CASE type \notin {"NONE", "MIN_MAX", "CLUSTER", "BLOOM",
                           "DICTIONARY"}
      BY <2>1, <2>6 DEF Construct
    <2>. QED
      BY <2>3, <2>4, <2>5, <2>6
  <1>. QED
    BY <1>1, ConstructedFromHeld, PTL

-------------------------------------------------------------------------------
(* Clusters *)

(* Initialise stays in the arrays of N elements, for every N and whatever
   special values the partition has.                                          *)
THEOREM ClustersWithin == Spec => []ClustersFit
  <1>1. IInv => ClustersFit
    <2>. SUFFICES ASSUME IInv, Clustered
                  PROVE  Len(Clusters(Range(held), Size)) <= Size
      BY DEF ClustersFit
    <2>1. Len(Clusters(Range(held), Size)) \in 1..Size
      BY ClustersHeld, ClustersCluster
    <2>2. Size \in Nat
      BY ClustersHeld
    <2>. HIDE DEF Size
    <2>. QED
      BY <2>1, <2>2
  <1>. QED
    BY <1>1, ConstructedFromHeld, PTL

(* The binary search of FindLastIndexBeforePoint answers as the linear one, for
   any number of slots.                                                       *)
THEOREM SearchesSame == Spec => []SearchesAgree
  <1>1. IInv => SearchesAgree
    <2>. SUFFICES ASSUME IInv, Clustered PROVE SearchesAgree
      BY DEF SearchesAgree
    <2>1. /\ Range(held) \in SUBSET Value /\ Size \in Nat \ {0}
          /\ Covers(astats, Range(held), Size)
      BY ClustersHeld
    <2>. QED
      BY <2>1, SameSlot DEF SearchesAgree
  <1>. QED
    BY <1>1, ConstructedFromHeld, PTL

(* The gaps that separate the clusters leave no more covered than any others would:
   choosing the widest ones by their unsigned differences is the optimum.  The finite
   values lie within one modulus, as the values of a type of w bits do.              *)
THEOREM GreedyOptimal ==
    ASSUME \A u, v \in Finite : u - v < Modulus
    PROVE  Spec => []ClustersTightest
  <1>1. IInv => ClustersTightest
    <2>. DEFINE data == Range(held)
    <2>1. SUFFICES ASSUME IInv, Clustered, data \subseteq Finite,
                          NEW cuts \in SUBSET (data \ {Max(data)}),
                          Cardinality(cuts) < Size
                   PROVE  Covered(data, Cuts(data, Size - 1)) <= Covered(data, cuts)
      BY DEF ClustersTightest
    <2>2. data # {} /\ IsFiniteSet(data) /\ Size \in Nat \ {0}
      BY <2>1, ClustersHeld
    <2>3. data \in SUBSET Int /\ \A u, v \in data : u - v < Modulus
      BY <2>1, FiniteAssumption
    <2>4. Size - 1 \in Nat /\ Cardinality(cuts) <= Size - 1
      <3>1. IsFiniteSet(cuts)
        BY <2>2, FS_Subset
      <3>2. Cardinality(cuts) \in Nat
        BY <3>1, FS_CardinalityType
      <3>. QED
        BY <2>1, <2>2, <3>2
    <2>5. cuts \in SUBSET Gaps(data)
      BY DEF Gaps
    <2>. HIDE DEF data
    <2>6. /\ Width(data, cuts) \in Nat
          /\ Width(data, Cuts(data, Size - 1)) \in Nat
          /\ Width(data, cuts) <= Width(data, Cuts(data, Size - 1))
      BY <2>2, <2>3, <2>4, <2>5, WidestChosen
    <2>7. Max(data) \in Int /\ Min(data) \in Int
      BY <2>2, <2>3, MinMax
    <2>8. \A gaps : Covered(data, gaps) = (Max(data) - Min(data)) - Width(data, gaps)
      BY DEF Covered, Width
    <2>. QED
      BY <2>6, <2>7, <2>8
  <1>. QED
    BY <1>1, ConstructedFromHeld, PTL

(* Clusters of no more values than slots answer a constant and a range exactly.
   The arrays have at least four elements, the code's N of CLUSTER_SMALL being
   10, or the column has no special values.                                   *)
THEOREM FewValues ==
    ASSUME Slots >= 4 \/ Special = {}
    PROVE  Spec => []FewValuesExact
  <1>1. IInv => FewValuesExact
    <2>. SUFFICES ASSUME IInv, Clustered, Cardinality(Classes) <= Size
                  PROVE  FewValuesExact
      BY DEF FewValuesExact
    <2>. DEFINE values == Range(held)
    <2>1. /\ values \in SUBSET Value /\ values # {} /\ IsFiniteSet(values)
          /\ held \in Seq(Value) /\ held # <<>>
          /\ Size \in Nat \ {0} /\ astats = Cluster(held, Size)
          /\ Covers(astats, values, Size) /\ astats.type = "CLUSTER"
      BY ClustersHeld
    <2>2. Classes = ClassesOf(values)
      BY DEF Classes, ClassesOf, ClassOf
    <2>3. Size = 1 \/ Size >= 4 \/ values \subseteq Finite
      BY <2>1, TypesAssumption DEF Size, Value
    <2>4. Points(Clusters(values, Size))
      <3>. DEFINE sum == Cardinality(values \cap Finite)
                             + Number(values \cap {NegInf})
                             + Number(values \cap {PosInf})
                             + Number(values \cap NaN)
      <3>1. /\ sum <= Cardinality(Classes)
            /\ Cardinality(Classes) \in Nat
            /\ Cardinality(Classes) <= 1 => \A u, v \in values : Key(u) = Key(v)
        BY <2>1, <2>2, ClassCount, FS_CardinalityType
      <3>2. sum \in Int
        <4>1. Cardinality(values \cap Finite) \in Nat
          BY <2>1, FS_Subset, FS_CardinalityType
        <4>. QED
          BY <4>1 DEF Number
      <3>3. sum <= Size
        <4>. HIDE DEF sum
        <4>. QED
          BY <2>1, <3>1, <3>2
      <3>. HIDE DEF values
      <3>. QED
        BY <2>1, <2>3, <3>1, <3>3, ClustersCluster
    <2>5. \A i \in 1..Size : Key(astats.min[i]) = Key(astats.max[i])
      BY <2>1, <2>4, ClusterCovers
    <2>6. ASSUME NEW c \in Value, Matching("EQUAL", c) = {}
          PROVE  Query("EQUAL", c)
      <3>1. \A v \in values : ~Equals(v, c)
        BY <2>6 DEF Matching, Satisfies
      <3>2. ClusterQuery(astats, "EQUAL", c)
        BY <2>1, <2>5, <3>1, PointsExact
      <3>. QED
        BY <2>1, <3>2 DEF Query, Clustered
    <2>7. ASSUME NEW start \in Value, NEW end \in Value,
                 ~GreaterThan(start, end), InRange(start, end) = {}
          PROVE  QueryRange(start, end)
      <3>1. \A v \in values : ~Between(v, start, end)
        BY <2>7 DEF InRange
      <3>2. ClusterQueryRange(astats, start, end)
        BY <2>1, <2>5, <2>7, <3>1, PointsExact
      <3>. QED
        BY <2>1, <3>2 DEF QueryRange, Clustered
    <2>8. ASSUME NEW c \in Value, Query("EQUAL", c)
          PROVE  Matching("EQUAL", c) = {}
      <3>1. ClusterQuery(astats, "EQUAL", c) /\ "EQUAL" \in Comparison
        BY <2>1, <2>8 DEF Query, Comparison
      <3>2. \A v \in values : ~Satisfies(v, "EQUAL", c)
        BY <2>1, <3>1, ClusterQuerySound
      <3>. QED
        BY <3>2 DEF Matching
    <2>9. ASSUME NEW start \in Value, NEW end \in Value, QueryRange(start, end)
          PROVE  InRange(start, end) = {}
      <3>1. ClusterQueryRange(astats, start, end)
        BY <2>1, <2>9 DEF QueryRange
      <3>2. \A v \in values : ~Between(v, start, end)
        BY <2>1, <3>1, ClusterRangeSound
      <3>. QED
        BY <3>2 DEF InRange
    <2>. QED
      BY <2>6, <2>7, <2>8, <2>9 DEF FewValuesExact
  <1>. QED
    BY <1>1, ConstructedFromHeld, PTL

-------------------------------------------------------------------------------
(* Every variable keeps its type, and map_mutex is only left locked by the kind
   that can not be built.                                                     *)
THEOREM TypeCorrect == Spec => []TypeOK
  <1>1. Init => TypeOK
    <2>. SUFFICES ASSUME Init PROVE TypeOK
      OBVIOUS
    <2>1. temp \in Seq(Value) /\ held \in Seq(Value)
      BY DEF Init
    <2>2. Len(temp) <= MaxRows /\ Len(held) <= MaxRows
      BY TypesAssumption DEF Init
    <2>3. mapLocked = FALSE
      BY DEF Init
    <2>. QED
      BY <2>1, <2>2, <2>3 DEF Init, TypeOK
  <1>2. IInv /\ TypeOK /\ [Next]_vars => TypeOK'
    <2>. SUFFICES ASSUME IInv, TypeOK, [Next]_vars PROVE TypeOK'
      OBVIOUS
    <2>1. ASSUME NEW value \in Value, AppendTemp(value) PROVE TypeOK'
      BY <2>1, TypesAssumption DEF AppendTemp, TypeOK
    <2>2. CASE InitStats
      <3>1. Construct(temp) # NoStats =>
               Construct(temp).type = IF type = "MIN_MAX" THEN "CLUSTER" ELSE type
        BY DEF Construct, Cluster, Bloom, Dictionary, TypeOK
      <3>. QED
        BY <2>2, <3>1, TypesAssumption DEF InitStats, TypeOK
    <2>3. CASE InitStatsThrows
      <3>1. astats = NoStats
        BY <2>3 DEF InitStatsThrows, IInv, Construct
      <3>2. mapLocked' = TRUE /\ type = "ERROR"
        BY <2>3 DEF InitStatsThrows
      <3>3. UNCHANGED <<type, temp, astats, held>>
        BY <2>3 DEF InitStatsThrows
      <3>. QED
        BY <3>1, <3>2, <3>3 DEF TypeOK
    <2>4. CASE UNCHANGED vars
      BY <2>4 DEF vars, TypeOK
    <2>. QED
      BY <2>1, <2>2, <2>3, <2>4 DEF Next
  <1>. QED
    BY <1>1, <1>2, ConstructedFromHeld, PTL DEF Spec
===============================================================================
