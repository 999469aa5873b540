----------------------------- MODULE FiniteOrders -----------------------------
(***************************************************************************)
(* Facts about finite sets under a strict total order, which the clusters  *)
(* of numbers and of strings are sorted and chosen by, and about sums over *)
(* finite sets.  A relation is a set of pairs here.                        *)
(***************************************************************************)
EXTENDS FiniteSetTheorems, FunctionTheorems, FiniteSetsExt, TLAPS

StrictOrder(R, S) ==
    /\ \A a \in S : <<a, a>> \notin R
    /\ \A a, b, c \in S : <<a, b>> \in R /\ <<b, c>> \in R => <<a, c>> \in R
    /\ \A a, b \in S : a = b \/ <<a, b>> \in R \/ <<b, a>> \in R

Before(R, S, v) == {u \in S : <<u, v>> \in R}

(* The number of elements before an element is smaller than that of all. *)
LEMMA BeforeBound ==
    ASSUME NEW S, IsFiniteSet(S), NEW R, StrictOrder(R, S), NEW v \in S
    PROVE  /\ IsFiniteSet(Before(R, S, v))
           /\ Cardinality(Before(R, S, v)) \in 0..(Cardinality(S) - 1)
  <1>1. Before(R, S, v) \in SUBSET (S \ {v})
    BY DEF Before, StrictOrder
  <1>2. IsFiniteSet(S \ {v}) /\ Cardinality(S \ {v}) = Cardinality(S) - 1
    BY FS_RemoveElement
  <1>3. /\ IsFiniteSet(Before(R, S, v))
        /\ Cardinality(Before(R, S, v)) <= Cardinality(S \ {v})
    BY <1>1, <1>2, FS_Subset
  <1>. QED
    BY <1>2, <1>3, FS_CardinalityType

(* ... and grows with the order. *)
LEMMA BeforeGrows ==
    ASSUME NEW S, IsFiniteSet(S), NEW R, StrictOrder(R, S),
           NEW u \in S, NEW v \in S, <<u, v>> \in R
    PROVE  Cardinality(Before(R, S, u)) < Cardinality(Before(R, S, v))
  <1>1. Before(R, S, u) \in SUBSET (Before(R, S, v) \ {u})
    BY DEF Before, StrictOrder
  <1>2. IsFiniteSet(Before(R, S, v)) /\ u \in Before(R, S, v)
    BY BeforeBound DEF Before
  <1>3. /\ IsFiniteSet(Before(R, S, v) \ {u})
        /\ Cardinality(Before(R, S, v) \ {u}) = Cardinality(Before(R, S, v)) - 1
    BY <1>2, FS_RemoveElement
  <1>4. Cardinality(Before(R, S, u)) <= Cardinality(Before(R, S, v)) - 1
    BY <1>1, <1>3, FS_Subset
  <1>5. Cardinality(Before(R, S, u)) \in Int /\ Cardinality(Before(R, S, v)) \in Int
    BY BeforeBound
  <1>. QED
    BY <1>4, <1>5

(* So it tells the elements apart, and ... *)
LEMMA BeforeOrders ==
    ASSUME NEW S, IsFiniteSet(S), NEW R, StrictOrder(R, S), NEW u \in S, NEW v \in S
    PROVE  /\ <<u, v>> \in R <=>
                  Cardinality(Before(R, S, u)) < Cardinality(Before(R, S, v))
           /\ Cardinality(Before(R, S, u)) = Cardinality(Before(R, S, v)) => u = v
  <1>1. Cardinality(Before(R, S, u)) \in Int /\ Cardinality(Before(R, S, v)) \in Int
    BY BeforeBound
  <1>2. u = v \/ <<u, v>> \in R \/ <<v, u>> \in R
    BY DEF StrictOrder
  <1>. QED
    BY <1>1, <1>2, BeforeGrows DEF StrictOrder

(* ... every number below the cardinality is that of an element. *)
LEMMA EveryRank ==
    ASSUME NEW S, IsFiniteSet(S), NEW R, StrictOrder(R, S)
    PROVE  \A k \in 0..(Cardinality(S) - 1) :
              \E v \in S : Cardinality(Before(R, S, v)) = k
  <1>. DEFINE n == Cardinality(S)
              T == 0..(n - 1)
              rank == [v \in S |-> Cardinality(Before(R, S, v))]
  <1>1. n \in Nat
    BY FS_CardinalityType
  <1>2. rank \in [S -> T]
    BY BeforeBound
  <1>3. rank \in Injection(S, T)
    <2>1. ASSUME NEW u \in S, NEW v \in S, rank[u] = rank[v] PROVE u = v
      BY <2>1, BeforeOrders
    <2>. QED
      BY <1>2, <2>1, Zenon DEF Injection, IsInjective
  <1>4. IsFiniteSet(T) /\ Cardinality(T) = n
    BY <1>1, FS_Interval, SMTT(30)
  <1>5. rank \in Surjection(S, T)
    BY <1>3, <1>4, FS_Injection
  <1>. QED
    BY <1>5 DEF Surjection

(* No more than n elements have fewer than n before them. *)
LEMMA FirstRanks ==
    ASSUME NEW S, IsFiniteSet(S), NEW R, StrictOrder(R, S), NEW n \in Nat
    PROVE  LET first == {v \in S : Cardinality(Before(R, S, v)) < n}
           IN  IsFiniteSet(first) /\ Cardinality(first) <= n
  <1>. DEFINE first == {v \in S : Cardinality(Before(R, S, v)) < n}
              T == 0..(n - 1)
              rank == [v \in first |-> Cardinality(Before(R, S, v))]
  <1>1. rank \in [first -> T]
    BY BeforeBound
  <1>2. rank \in Injection(first, T)
    <2>1. ASSUME NEW u \in first, NEW v \in first, rank[u] = rank[v] PROVE u = v
      BY <2>1, BeforeOrders
    <2>. QED
      BY <1>1, <2>1, Zenon DEF Injection, IsInjective
  <1>3. IsFiniteSet(T) /\ Cardinality(T) = n
    BY FS_Interval
  <1>. QED
    BY <1>2, <1>3, FS_Injection

(* A set that is not empty has a first and a last element. *)
LEMMA FirstAndLast ==
    ASSUME NEW S, IsFiniteSet(S), S # {}, NEW R, StrictOrder(R, S)
    PROVE  /\ \E v \in S : \A u \in S : <<u, v>> \notin R
           /\ \E v \in S : \A u \in S : <<v, u>> \notin R
  <1>1. Cardinality(S) \in Nat /\ Cardinality(S) # 0
    BY FS_CardinalityType, FS_EmptySet
  <1>2. PICK v \in S : Cardinality(Before(R, S, v)) = 0
    BY <1>1, EveryRank
  <1>3. PICK w \in S : Cardinality(Before(R, S, w)) = Cardinality(S) - 1
    BY <1>1, EveryRank
  <1>4. ASSUME NEW u \in S PROVE <<u, v>> \notin R /\ <<w, u>> \notin R
    <2>1. Cardinality(Before(R, S, u)) \in 0..(Cardinality(S) - 1)
      BY BeforeBound
    <2>2. ~ (Cardinality(Before(R, S, u)) < 0)
          /\ ~ (Cardinality(S) - 1 < Cardinality(Before(R, S, u)))
      BY <1>1, <2>1
    <2>. QED
      BY <1>2, <1>3, <2>2, BeforeOrders
  <1>. QED
    BY <1>4

-------------------------------------------------------------------------------
(* Integers in their order *)

Ascending(S) == {p \in S \X S : p[1] < p[2]}

LEMMA AscendingOrder ==
    ASSUME NEW S \in SUBSET Int
    PROVE  /\ StrictOrder(Ascending(S), S)
           /\ \A v \in S : Before(Ascending(S), S, v) = {u \in S : u < v}
  BY DEF Ascending, StrictOrder, Before

(* Every number below the cardinality is that of the smaller elements of one. *)
LEMMA AscendingRank ==
    ASSUME NEW S, S \subseteq Int, IsFiniteSet(S)
    PROVE  \A k \in 0..(Cardinality(S) - 1) :
              \E v \in S : Cardinality({u \in S : u < v}) = k
  <1>1. StrictOrder(Ascending(S), S)
    BY AscendingOrder
  <1>2. \A k \in 0..(Cardinality(S) - 1) :
           \E v \in S : Cardinality(Before(Ascending(S), S, v)) = k
    <2>1. \A R : StrictOrder(R, S) =>
             \A k \in 0..(Cardinality(S) - 1) :
                \E v \in S : Cardinality(Before(R, S, v)) = k
      BY EveryRank
    <2>. QED
      BY <1>1, <2>1
  <1>3. \A v \in S : Before(Ascending(S), S, v) = {u \in S : u < v}
    BY AscendingOrder
  <1>. QED
    BY <1>2, <1>3, Zenon

(* Min and Max of a finite set that is not empty are what they say. *)
LEMMA MinMax ==
    ASSUME NEW S \in SUBSET Int, IsFiniteSet(S), S # {}
    PROVE  /\ Min(S) \in S /\ \A u \in S : Min(S) <= u
           /\ Max(S) \in S /\ \A u \in S : u <= Max(S)
  <1>1. StrictOrder(Ascending(S), S)
    BY AscendingOrder
  <1>2. PICK v \in S : \A u \in S : <<u, v>> \notin Ascending(S)
    BY <1>1, FirstAndLast
  <1>3. PICK w \in S : \A u \in S : <<w, u>> \notin Ascending(S)
    BY <1>1, FirstAndLast
  <1>4. ASSUME NEW u \in S PROVE v <= u /\ w >= u
    <2>1. ~ (u < v) /\ ~ (w < u)
      BY <1>2, <1>3 DEF Ascending
    <2>. QED
      BY <2>1
  <1>5. Min(S) \in S /\ \A u \in S : Min(S) <= u
    BY <1>4 DEF Min
  <1>6. Max(S) \in S /\ \A u \in S : Max(S) >= u
    BY <1>4 DEF Max
  <1>. QED
    BY <1>5, <1>6

(* Of a set of numbers that is not empty one is the least: for proofs that take
   the least counterexample.                                                  *)
LEMMA LeastNat ==
    ASSUME NEW S \in SUBSET Nat, S # {}
    PROVE  \E n \in S : \A m \in S : n <= m
  <1>1. PICK k \in S : TRUE
    OBVIOUS
  <1>. DEFINE T == {n \in S : n <= k}
  <1>2. IsFiniteSet(T) /\ k \in T /\ T \in SUBSET Int
    <2>1. T \in SUBSET Nat /\ k \in Nat /\ \A n \in T : n <= k
      OBVIOUS
    <2>. QED
      BY <2>1, FS_BoundedSetOfNaturals
  <1>3. Min(T) \in T /\ \A u \in T : Min(T) <= u
    BY <1>2, MinMax
  <1>4. ASSUME NEW m \in S PROVE Min(T) <= m
    <2>1. m \in T \/ k < m
      OBVIOUS
    <2>2. Min(T) <= k /\ Min(T) \in Int /\ k \in Int /\ m \in Int
      BY <1>2, <1>3
    <2>. QED
      BY <1>3, <2>1, <2>2
  <1>. QED
    BY <1>3, <1>4
-------------------------------------------------------------------------------
(* Sums of numbers. *)

(* A sum of numbers is the size of a set: f[x] elements for every x. *)
Weight(f, S) == {p \in S \X Nat : 1 <= p[2] /\ p[2] <= f[p[1]]}

(* The sizes of disjoint sets add up. *)
LEMMA DisjointUnion ==
    ASSUME NEW S, NEW T, IsFiniteSet(S), IsFiniteSet(T), S \cap T = {}
    PROVE  /\ IsFiniteSet(S \cup T)
           /\ Cardinality(S \cup T) = Cardinality(S) + Cardinality(T)
  <1>1. Cardinality(S) \in Nat /\ Cardinality(T) \in Nat
    BY FS_CardinalityType
  <1>2. Cardinality(S \cup T) = Cardinality(S) + Cardinality(T) - Cardinality(S \cap T)
    BY FS_Union
  <1>3. Cardinality(S \cap T) = 0
    BY FS_EmptySet
  <1>4. IsFiniteSet(S \cup T)
    BY FS_Union
  <1>. QED
    BY <1>1, <1>2, <1>3, <1>4

(* An element adds its value to the weight. *)
LEMMA WeightSplits ==
    ASSUME NEW f, NEW S, NEW x \in S, f[x] \in Nat, IsFiniteSet(Weight(f, S \ {x}))
    PROVE  /\ IsFiniteSet(Weight(f, S))
           /\ Cardinality(Weight(f, S)) = f[x] + Cardinality(Weight(f, S \ {x}))
  <1>. DEFINE One == {x} \X (1..f[x])
              Pair == [i \in 1..f[x] |-> <<x, i>>]
  <1>1. Weight(f, S) = One \cup Weight(f, S \ {x})
    BY DEF Weight
  <1>2. One \cap Weight(f, S \ {x}) = {}
    BY DEF Weight
  <1>3. IsFiniteSet(One) /\ Cardinality(One) = f[x]
    <2>1. IsFiniteSet(1..f[x]) /\ Cardinality(1..f[x]) = f[x]
      BY FS_Interval, SMTT(30)
    <2>2. Pair \in [1..f[x] -> One] /\ \A p \in One : \E i \in 1..f[x] : Pair[i] = p
      OBVIOUS
    <2>3. \A i, k \in 1..f[x] : Pair[i] = Pair[k] => i = k
      OBVIOUS
    <2>. HIDE DEF One, Pair
    <2>4. Pair \in Bijection(1..f[x], One)
      BY <2>2, <2>3 DEF Bijection, Injection, IsInjective, Surjection
    <2>. QED
      BY <2>1, <2>4, FS_Bijection DEF ExistsBijection
  <1>4. Cardinality(Weight(f, S \ {x})) \in Nat
    BY FS_CardinalityType
  <1>. HIDE DEF One
  <1>. QED
    BY <1>1, <1>2, <1>3, <1>4, DisjointUnion

(* Finitely many numbers have a finite weight. *)
LEMMA WeightFinite ==
    ASSUME NEW S, IsFiniteSet(S), NEW f, \A x \in S : f[x] \in Nat
    PROVE  \A T \in SUBSET S : /\ IsFiniteSet(Weight(f, T))
                               /\ Cardinality(Weight(f, T)) \in Nat
  <1>. DEFINE Bad == {T \in SUBSET S : ~ IsFiniteSet(Weight(f, T))}
              Counter == {Cardinality(T) : T \in Bad}
  <1>1. \A T \in SUBSET S : IsFiniteSet(T) /\ Cardinality(T) \in Nat
    BY FS_Subset, FS_CardinalityType
  <1>2. Bad = {}
    <2>1. SUFFICES ASSUME Counter # {} PROVE FALSE
      OBVIOUS
    <2>2. Counter \subseteq Nat
      BY <1>1
    <2>3. PICK n \in Counter : \A m \in Counter : n <= m
      BY <2>1, <2>2, LeastNat
    <2>4. PICK T \in Bad : n = Cardinality(T)
      BY <2>3
    <2>5. T # {}
      <3>1. Weight(f, {}) = {}
        BY DEF Weight
      <3>. QED
        BY <2>4, <3>1, FS_EmptySet
    <2>6. PICK x \in T : TRUE
      BY <2>5
    <2>7. Cardinality(T \ {x}) = n - 1 /\ T \ {x} \in SUBSET S
      BY <1>1, <2>4, FS_RemoveElement
    <2>8. T \ {x} \notin Bad
      <3>1. n \in Nat /\ ~ (n <= n - 1)
        <4>. HIDE DEF Counter
        <4>. QED
          BY <2>2
      <3>2. n - 1 \notin Counter
        BY <2>3, <3>1
      <3>. QED
        BY <2>7, <3>2
    <2>9. f[x] \in Nat
      BY <2>4
    <2>. QED
      BY <2>4, <2>7, <2>8, <2>9, WeightSplits
  <1>. QED
    BY <1>2, FS_CardinalityType

(* SumFunction *)
LEMMA SumIsWeight ==
    ASSUME NEW S, IsFiniteSet(S), NEW f \in [S -> Nat]
    PROVE  SumFunction(f) = Cardinality(Weight(f, S)) /\ SumFunction(f) \in Nat
  <1>. DEFINE first(s) == CHOOSE x \in s : TRUE
              Is(g) == g = [s \in SUBSET S |-> IF s = {} THEN 0
                                               ELSE f[first(s)] + g[s \ {first(s)}]]
              iter == CHOOSE g : Is(g)
              sum == [s \in SUBSET S |-> Cardinality(Weight(f, s))]
  <1>1. SumFunction(f) = iter[S]
    <2>1. DOMAIN f = S
      OBVIOUS
    <2>. QED
      BY <2>1, Zenon DEF SumFunction, SumFunctionOnSet, FoldFunctionOnSet, MapThenFoldSet
  <1>2. \A s \in SUBSET S : /\ IsFiniteSet(Weight(f, s))
                            /\ Cardinality(Weight(f, s)) \in Nat
    BY WeightFinite
  <1>3. \A s \in SUBSET S : s # {} => first(s) \in s
    OBVIOUS
  <1>4. Cardinality(Weight(f, {})) = 0
    <2>1. Weight(f, {}) = {}
      BY DEF Weight
    <2>. QED
      BY <2>1, FS_EmptySet
  <1>. HIDE DEF first
  <1>5. \A s \in SUBSET S : s # {} =>
          sum[s] = f[first(s)] + sum[s \ {first(s)}]
    <2>1. SUFFICES ASSUME NEW s \in SUBSET S, s # {}
                   PROVE  Cardinality(Weight(f, s))
                             = f[first(s)] + Cardinality(Weight(f, s \ {first(s)}))
      OBVIOUS
    <2>2. first(s) \in s /\ f[first(s)] \in Nat /\ s \ {first(s)} \in SUBSET S
      BY <1>3, <2>1
    <2>. QED
      BY <1>2, <2>2, WeightSplits
  <1>6. Is(sum)
    BY <1>4, <1>5
  <1>7. Is(iter)
    <2>. HIDE DEF sum, Is
    <2>. QED
      BY <1>6
  <1>. HIDE DEF iter
  <1>8. /\ iter[{}] = 0
        /\ \A s \in SUBSET S : s # {} => iter[s] = f[first(s)] + iter[s \ {first(s)}]
    <2>1. \A s \in SUBSET S : iter[s] = IF s = {} THEN 0
                                        ELSE f[first(s)] + iter[s \ {first(s)}]
      BY <1>7
    <2>2. {} \in SUBSET S
      OBVIOUS
    <2>. QED
      BY <2>1, <2>2
  <1>9. \A s \in SUBSET S : iter[s] = sum[s]
    <2>. DEFINE Bad == {s \in SUBSET S : iter[s] # sum[s]}
                Counter == {Cardinality(s) : s \in Bad}
    <2>0. \A s \in SUBSET S : IsFiniteSet(s) /\ Cardinality(s) \in Nat
      BY FS_Subset, FS_CardinalityType
    <2>1. SUFFICES ASSUME Counter # {} PROVE FALSE
      OBVIOUS
    <2>2. Counter \subseteq Nat
      BY <2>0
    <2>3. PICK n \in Counter : \A m \in Counter : n <= m
      BY <2>1, <2>2, LeastNat
    <2>4. PICK s \in Bad : n = Cardinality(s)
      BY <2>3
    <2>5. s # {}
      BY <1>4, <1>8, <2>4
    <2>6. first(s) \in s
      BY <1>3, <2>4, <2>5
    <2>7. Cardinality(s \ {first(s)}) = n - 1 /\ s \ {first(s)} \in SUBSET S
      BY <2>0, <2>4, <2>6, FS_RemoveElement
    <2>8. s \ {first(s)} \notin Bad
      <3>1. n \in Nat /\ ~ (n <= n - 1)
        <4>. HIDE DEF Counter
        <4>. QED
          BY <2>2
      <3>2. n - 1 \notin Counter
        BY <2>3, <3>1
      <3>. QED
        BY <2>7, <3>2
    <2>9. iter[s \ {first(s)}] = sum[s \ {first(s)}]
      BY <2>7, <2>8
    <2>. HIDE DEF sum
    <2>. QED
      BY <1>5, <1>8, <2>4, <2>5, <2>9
  <1>. QED
    BY <1>1, <1>2, <1>9

-------------------------------------------------------------------------------
(* The greatest sum *)

(* The first n elements are n, if there are so many. *)
LEMMA FirstRanksFull ==
    ASSUME NEW S, IsFiniteSet(S), NEW R, StrictOrder(R, S), NEW n \in Nat,
           n <= Cardinality(S)
    PROVE  Cardinality({v \in S : Cardinality(Before(R, S, v)) < n}) = n
  <1>. DEFINE first == {v \in S : Cardinality(Before(R, S, v)) < n}
              T == 0..(n - 1)
              rank == [v \in first |-> Cardinality(Before(R, S, v))]
  <1>1. \A v \in S : Cardinality(Before(R, S, v)) \in Nat
    BY BeforeBound
  <1>2. rank \in [first -> T]
    BY <1>1
  <1>3. \A k \in T : \E v \in first : rank[v] = k
    <2>1. SUFFICES ASSUME NEW k \in T PROVE \E v \in first : rank[v] = k
      OBVIOUS
    <2>2. Cardinality(S) \in Nat /\ k \in 0..(Cardinality(S) - 1)
      <3>1. Cardinality(S) \in Nat
        BY FS_CardinalityType
      <3>. QED
        BY <3>1
    <2>3. PICK v \in S : Cardinality(Before(R, S, v)) = k
      BY <2>2, EveryRank
    <2>. QED
      BY <2>3
  <1>4. rank \in Surjection(first, T)
    <2>. HIDE DEF rank, first, T
    <2>. QED
      BY <1>2, <1>3, Fun_IsSurj
  <1>5. IsFiniteSet(first) /\ Cardinality(first) <= n
    BY FirstRanks
  <1>6. Cardinality(T) = n
    BY FS_Interval
  <1>7. Cardinality(T) <= Cardinality(first) /\ Cardinality(first) \in Nat
    <2>. HIDE DEF rank, first, T
    <2>. QED
      BY <1>4, <1>5, FS_Surjection, FS_CardinalityType
  <1>. QED
    BY <1>5, <1>6, <1>7

(* No more elements of no greater value have no greater sum. *)
LEMMA SmallerWeight ==
    ASSUME NEW A, NEW B, IsFiniteSet(A), IsFiniteSet(B), NEW f,
           Cardinality(B) <= Cardinality(A),
           \A a \in A : f[a] \in Nat,
           \A b \in B : f[b] \in Nat,
           \A a \in A, b \in B : f[b] <= f[a]
    PROVE  Cardinality(Weight(f, B)) <= Cardinality(Weight(f, A))
  <1>1. PICK h \in Injection(B, A) : TRUE
    <2>. DEFINE m == Cardinality(B)
                n == Cardinality(A)
    <2>1. /\ m \in Nat /\ n \in Nat /\ m <= n
          /\ ExistsBijection(1..m, B) /\ ExistsBijection(1..n, A)
      BY FS_CardinalityType
    <2>. HIDE DEF m, n
    <2>2. ExistsInjection(1..m, 1..n)
      BY <2>1, Fun_NatInjLeq
    <2>3. ExistsInjection(B, 1..m) /\ ExistsInjection(1..n, A)
      BY <2>1, Fun_ExistsBijEquiv
    <2>4. ExistsInjection(B, A)
      <3>1. ExistsInjection(B, 1..n)
        BY <2>2, <2>3, Fun_ExistsInjTransitive
      <3>. QED
        BY <2>3, <3>1, Fun_ExistsInjTransitive
    <2>. QED
      BY <2>4, Fun_ExistsInj
  <1>2. h \in [B -> A] /\ \A b, c \in B : h[b] = h[c] => b = c
    BY Fun_InjectionProperties
  <1>. DEFINE g == [p \in Weight(f, B) |-> <<h[p[1]], p[2]>>]
  <1>3. ASSUME NEW p \in Weight(f, B)
        PROVE  <<h[p[1]], p[2]>> \in Weight(f, A)
    <2>1. p[1] \in B /\ p[2] \in Nat /\ 1 <= p[2] /\ p[2] <= f[p[1]]
      BY DEF Weight
    <2>2. h[p[1]] \in A /\ f[p[1]] <= f[h[p[1]]]
      BY <1>2, <2>1
    <2>3. f[h[p[1]]] \in Nat /\ f[p[1]] \in Nat
      BY <2>1, <2>2
    <2>4. p[2] <= f[h[p[1]]]
      BY <2>1, <2>2, <2>3
    <2>. QED
      BY <2>1, <2>2, <2>4 DEF Weight
  <1>4. g \in [Weight(f, B) -> Weight(f, A)]
    BY <1>3
  <1>5. ASSUME NEW p \in Weight(f, B), NEW q \in Weight(f, B), g[p] = g[q]
        PROVE  p = q
    <2>1. p \in B \X Nat /\ q \in B \X Nat
      BY DEF Weight
    <2>2. h[p[1]] = h[q[1]] /\ p[2] = q[2]
      BY <1>5
    <2>3. p[1] = q[1]
      BY <1>2, <2>1, <2>2
    <2>. QED
      BY <2>1, <2>2, <2>3
  <1>6. g \in Injection(Weight(f, B), Weight(f, A))
    <2>. HIDE DEF g
    <2>. QED
      BY <1>4, <1>5, Fun_IsInj
  <1>7. IsFiniteSet(Weight(f, A))
    BY WeightFinite
  <1>. HIDE DEF g
  <1>. QED
    BY <1>6, <1>7, FS_Injection

(* No n elements have a greater sum than the first n of an order in which values
   do not grow.                                                               *)
LEMMA FirstWeighMost ==
    ASSUME NEW S, IsFiniteSet(S), NEW R, StrictOrder(R, S), NEW n \in Nat,
           NEW f, \A v \in S : f[v] \in Nat,
           \A u, v \in S : <<u, v>> \in R => f[v] <= f[u],
           NEW T \in SUBSET S, Cardinality(T) <= n
    PROVE  LET first == {v \in S : Cardinality(Before(R, S, v)) < n}
           IN  Cardinality(Weight(f, T)) <= Cardinality(Weight(f, first))
  <1>. DEFINE first == {v \in S : Cardinality(Before(R, S, v)) < n}
              A == first \ T
              B == T \ first
              C == first \cap T
  <1>1. /\ first = C \cup A /\ C \cap A = {} /\ T = C \cup B /\ C \cap B = {}
        /\ A \in SUBSET S /\ B \in SUBSET S /\ C \in SUBSET S
        /\ first \in SUBSET S
    OBVIOUS
  <1>2. ASSUME NEW a \in A, NEW b \in B PROVE f[b] <= f[a]
    <2>1. a \in S /\ b \in S
      OBVIOUS
    <2>2. /\ Cardinality(Before(R, S, a)) \in Nat
          /\ Cardinality(Before(R, S, b)) \in Nat
      BY <2>1, BeforeBound
    <2>3. Cardinality(Before(R, S, a)) < Cardinality(Before(R, S, b))
      BY <2>2
    <2>4. <<a, b>> \in R
      BY <2>1, <2>3, BeforeOrders
    <2>. QED
      BY <2>1, <2>4
  <1>3. ASSUME NEW b \in B PROVE Cardinality(first) = n
    <2>1. /\ Cardinality(Before(R, S, b)) \in 0..(Cardinality(S) - 1)
          /\ Cardinality(S) \in Nat /\ ~ (Cardinality(Before(R, S, b)) < n)
      BY BeforeBound, FS_CardinalityType
    <2>2. n <= Cardinality(S)
      BY <2>1
    <2>. QED
      BY <2>2, FirstRanksFull
  <1>. HIDE DEF first
  <1>4. \A U \in SUBSET S : IsFiniteSet(U) /\ Cardinality(U) \in Nat
    BY FS_Subset, FS_CardinalityType
  <1>5. Cardinality(B) <= Cardinality(A)
    <2>1. CASE B = {}
      <3>1. Cardinality(B) = 0 /\ Cardinality(A) \in Nat
        BY <1>1, <1>4, <2>1, FS_EmptySet
      <3>. QED
        BY <3>1
    <2>2. CASE B # {}
      <3>1. Cardinality(T) <= Cardinality(first)
        BY <1>3, <2>2
      <3>2. /\ Cardinality(first) = Cardinality(C) + Cardinality(A)
            /\ Cardinality(T) = Cardinality(C) + Cardinality(B)
        <4>. HIDE DEF A, B, C
        <4>. QED
          BY <1>1, <1>4, DisjointUnion
      <3>3. /\ Cardinality(C) \in Nat /\ Cardinality(A) \in Nat
            /\ Cardinality(B) \in Nat
        BY <1>1, <1>4
      <3>. QED
        BY <3>1, <3>2, <3>3
    <2>. QED
      BY <2>1, <2>2
  <1>. HIDE DEF A, B, C
  <1>6. Cardinality(Weight(f, B)) <= Cardinality(Weight(f, A))
    BY <1>1, <1>2, <1>4, <1>5, SmallerWeight
  <1>7. \A U \in SUBSET S : /\ IsFiniteSet(Weight(f, U))
                            /\ Cardinality(Weight(f, U)) \in Nat
    BY WeightFinite
  <1>8. ASSUME NEW U, NEW V, U \in SUBSET S, V \in SUBSET S, U \cap V = {}
        PROVE  Cardinality(Weight(f, U \cup V))
                  = Cardinality(Weight(f, U)) + Cardinality(Weight(f, V))
    <2>1. /\ Weight(f, U \cup V) = Weight(f, U) \cup Weight(f, V)
          /\ Weight(f, U) \cap Weight(f, V) = {}
      BY <1>8 DEF Weight
    <2>. QED
      BY <1>7, <1>8, <2>1, DisjointUnion
  <1>9. /\ Cardinality(Weight(f, first))
              = Cardinality(Weight(f, C)) + Cardinality(Weight(f, A))
        /\ Cardinality(Weight(f, T))
              = Cardinality(Weight(f, C)) + Cardinality(Weight(f, B))
    BY <1>1, <1>8
  <1>10. /\ Cardinality(Weight(f, A)) \in Nat /\ Cardinality(Weight(f, B)) \in Nat
         /\ Cardinality(Weight(f, C)) \in Nat
    BY <1>1, <1>7
  <1>11. Cardinality(Weight(f, T)) <= Cardinality(Weight(f, first))
    BY <1>6, <1>9, <1>10
  <1>. QED
    BY <1>11 DEF first

===============================================================================
