---------------------------- MODULE ZoneMapProofs ----------------------------
(***************************************************************************)
(* What RowGroup::CheckZonemap concludes from trees of filters, for every  *)
(* kind of statistic, every partition and filters of every shape and       *)
(* depth: by induction over the depth of the trees.                        *)
(***************************************************************************)
EXTENDS ZoneMap, StatisticsSetProofs, SequenceTheorems

(* Filters are finite trees: each one owns its sub-filters. *)
IsDepth(depth) ==
    /\ depth \in [Filters -> Nat]
    /\ \A f \in Filters : \A child \in Children(f) : depth[child] < depth[f]

FiniteTrees == \E depth : IsDepth(depth)

-------------------------------------------------------------------------------
(* Induction and recursion over a depth *)

LEMMA DepthInduction ==
    ASSUME NEW D, NEW depth \in [D -> Nat], NEW T,
           \A x \in D : (\A y \in D : depth[y] < depth[x] => y \in T) => x \in T
    PROVE  \A x \in D : x \in T
  <1>. DEFINE Counter == {depth[x] : x \in {z \in D : z \notin T}}
  <1>1. Counter \subseteq Nat
    OBVIOUS
  <1>2. SUFFICES ASSUME Counter # {} PROVE FALSE
    OBVIOUS
  <1>3. PICK n \in Counter : \A m \in Counter : n <= m
    BY <1>1, <1>2, LeastNat
  <1>4. PICK x \in D : x \notin T /\ n = depth[x]
    BY <1>3
  <1>5. \A y \in D : depth[y] < depth[x] => y \in T
    BY <1>3, <1>4, SMTT(30)
  <1>. QED
    BY <1>4, <1>5

(* A step that looks at smaller depths only has a fixed point. *)
Descends(D, R, depth, Step) ==
    /\ R # {}
    /\ depth \in [D -> Nat]
    /\ Step \in [[D -> R] -> [D -> R]]
    /\ \A g, h \in [D -> R], x \in D :
          (\A y \in D : depth[y] < depth[x] => g[y] = h[y])
             => Step[g][x] = Step[h][x]

LEMMA Recursion ==
    ASSUME NEW D, NEW R, NEW depth, NEW Step, Descends(D, R, depth, Step)
    PROVE  \E g \in [D -> R] : g = Step[g]
  <1>. USE DEF Descends
  <1>. DEFINE Upto(n, g) == \A x \in D : depth[x] < n => g[x] = Step[g][x]
              Counter == {n \in Nat : ~ \E g \in [D -> R] : Upto(n, g)}
  <1>1. \E g \in [D -> R] : Upto(0, g)
    <2>1. PICK r \in R : TRUE
      OBVIOUS
    <2>2. [x \in D |-> r] \in [D -> R]
      OBVIOUS
    <2>3. \A x \in D : ~ (depth[x] < 0)
      OBVIOUS
    <2>. QED
      BY <2>2, <2>3
  <1>2. ASSUME NEW n \in Nat, NEW g \in [D -> R], Upto(n, g)
        PROVE  Step[g] \in [D -> R] /\ Upto(n + 1, Step[g])
    <2>. DEFINE h == Step[g]
    <2>1. h \in [D -> R]
      OBVIOUS
    <2>2. ASSUME NEW x \in D, depth[x] < n + 1 PROVE h[x] = Step[h][x]
      <3>1. \A y \in D : depth[y] < depth[x] => g[y] = h[y]
        BY <1>2, <2>2
      <3>. HIDE DEF h
      <3>2. Step[g][x] = Step[h][x]
        BY <2>1, <3>1
      <3>. QED
        BY <3>2 DEF h
    <2>. QED
      BY <2>1, <2>2
  <1>3. \A n \in Nat : \E g \in [D -> R] : Upto(n, g)
    <2>1. SUFFICES ASSUME Counter # {} PROVE FALSE
      OBVIOUS
    <2>2. Counter \subseteq Nat
      OBVIOUS
    <2>3. PICK n \in Counter : \A m \in Counter : n <= m
      BY <2>1, <2>2, LeastNat
    <2>4. n # 0
      BY <1>1, <2>3
    <2>5. n - 1 \in Nat /\ n - 1 \notin Counter
      <3>. HIDE DEF Counter
      <3>. QED
        BY <2>2, <2>3, <2>4
    <2>6. PICK g \in [D -> R] : Upto(n - 1, g)
      BY <2>5
    <2>7. Step[g] \in [D -> R] /\ Upto((n - 1) + 1, Step[g])
      BY <2>5, <2>6, <1>2
    <2>8. (n - 1) + 1 = n
      BY <2>2, <2>3
    <2>. HIDE DEF Upto
    <2>. QED
      BY <2>3, <2>7, <2>8
  <1>4. ASSUME NEW m \in Nat, NEW n \in Nat,
               NEW g \in [D -> R], Upto(m, g), NEW h \in [D -> R], Upto(n, h)
        PROVE  \A x \in D : depth[x] < m /\ depth[x] < n => g[x] = h[x]
    <2>. DEFINE T == {x \in D : depth[x] < m /\ depth[x] < n => g[x] = h[x]}
    <2>1. ASSUME NEW x \in D, \A y \in D : depth[y] < depth[x] => y \in T
          PROVE  x \in T
      <3>1. SUFFICES ASSUME depth[x] < m, depth[x] < n PROVE g[x] = h[x]
        OBVIOUS
      <3>2. \A y \in D : depth[y] < depth[x] => g[y] = h[y]
        BY <2>1, <3>1
      <3>3. Step[g][x] = Step[h][x]
        BY <3>2
      <3>. QED
        BY <1>4, <3>1, <3>3
    <2>. HIDE DEF T
    <2>2. \A x \in D : x \in T
      BY <2>1, DepthInduction
    <2>. QED
      BY <2>2 DEF T
  <1>. DEFINE Part(n) == CHOOSE g \in [D -> R] : Upto(n, g)
              f == [x \in D |-> Part(depth[x] + 1)[x]]
  <1>5. \A n \in Nat : Part(n) \in [D -> R] /\ Upto(n, Part(n))
    <2>. HIDE DEF Upto
    <2>. QED
      BY <1>3, Zenon
  <1>. HIDE DEF Part
  <1>6. \A x \in D : depth[x] + 1 \in Nat
    OBVIOUS
  <1>7. f \in [D -> R]
    BY <1>5, <1>6
  <1>8. ASSUME NEW x \in D PROVE f[x] = Step[f][x]
    <2>. DEFINE p == Part(depth[x] + 1)
    <2>1. p \in [D -> R] /\ Upto(depth[x] + 1, p) /\ f[x] = p[x]
      BY <1>5, <1>6
    <2>. HIDE DEF p
    <2>2. p[x] = Step[p][x]
      BY <2>1
    <2>3. ASSUME NEW y \in D, depth[y] < depth[x] PROVE f[y] = p[y]
      <3>. DEFINE q == Part(depth[y] + 1)
      <3>1. q \in [D -> R] /\ Upto(depth[y] + 1, q) /\ f[y] = q[y]
        BY <1>5, <1>6
      <3>. HIDE DEF q, Upto
      <3>2. depth[y] + 1 \in Nat /\ depth[x] + 1 \in Nat
            /\ depth[y] < depth[y] + 1 /\ depth[y] < depth[x] + 1
        BY <2>3
      <3>. QED
        BY <1>4, <2>1, <3>1, <3>2
    <2>. HIDE DEF f
    <2>4. Step[f][x] = Step[p][x]
      BY <1>7, <2>1, <2>3
    <2>. QED
      BY <2>1, <2>2, <2>4
  <1>9. f = Step[f]
    <2>1. Step[f] \in [D -> R]
      BY <1>7
    <2>. HIDE DEF f
    <2>. QED
      BY <1>7, <1>8, <2>1
  <1>. QED
    BY <1>7, <1>9

-------------------------------------------------------------------------------
(* The recursive functions of the model are defined *)

LEMMA NodeChildren ==
    ASSUME NEW f \in Filters
    PROVE  /\ f.type \in Leaf \cup Node
           /\ f.type \notin Leaf =>
                 /\ f.child_filters \in Seq(Filters)
                 /\ DOMAIN f.child_filters = 1..Len(f.child_filters)
                 /\ Len(f.child_filters) \in Nat
                 /\ \A i \in DOMAIN f.child_filters :
                       /\ f.child_filters[i] \in Filters
                       /\ f.child_filters[i] \in Children(f)
                 /\ \A child \in Children(f) :
                       \E i \in DOMAIN f.child_filters : child = f.child_filters[i]
  <1>1. f.type \in Leaf \cup Node
    BY FiltersAssumption
  <1>2. ASSUME f.type \notin Leaf
        PROVE  /\ f.child_filters \in Seq(Filters)
               /\ Children(f) = {f.child_filters[i] : i \in DOMAIN f.child_filters}
    <2>1. f.child_filters \in Seq(Filters)
      BY <1>1, <1>2, FiltersAssumption
    <2>2. Children(f) = Range(f.child_filters)
      BY <1>2, Zenon DEF Children
    <2>. QED
      BY <2>1, <2>2, Zenon DEF Range
  <1>. QED
    BY <1>1, <1>2

LEMMA ChildrenFilters ==
    \A f \in Filters : \A child \in Children(f) : child \in Filters
  <1>1. ASSUME NEW f \in Filters, NEW child \in Children(f) PROVE child \in Filters
    <2>1. f.type \notin Leaf
      BY DEF Children
    <2>. QED
      BY <2>1, NodeChildren
  <1>. QED
    BY <1>1

Answers == {"FILTER_ALWAYS_FALSE", "FILTER_FALSE_OR_NULL",
            "NO_PRUNING_POSSIBLE", "FILTER_ALWAYS_TRUE"}

(* The first child that is not ruled out. *)
LEMMA MinIndex ==
    ASSUME NEW n \in Nat, NEW S, S \subseteq 1..n, S # {}
    PROVE  Min(S) \in S /\ \A i \in S : Min(S) <= i
  <1>1. S \in SUBSET (1..n) /\ IsFiniteSet(1..n)
    BY FS_Interval
  <1>2. IsFiniteSet(S)
    BY <1>1, FS_Subset
  <1>3. S \in SUBSET Int
    OBVIOUS
  <1>. QED
    BY <1>2, <1>3, MinMax

LEMMA OrResultIs ==
    ASSUME NEW n \in Nat, NEW results \in [1..n -> Answers]
    PROVE  \/ /\ OrResult(results) = "FILTER_ALWAYS_FALSE"
              /\ \A i \in 1..n :
                    results[i] \in {"FILTER_ALWAYS_FALSE", "FILTER_FALSE_OR_NULL"}
           \/ \E i \in 1..n :
                 /\ OrResult(results) = results[i]
                 /\ results[i] \in {"NO_PRUNING_POSSIBLE", "FILTER_ALWAYS_TRUE"}
  <1>. DEFINE open == {i \in DOMAIN results :
                    results[i] \in {"NO_PRUNING_POSSIBLE", "FILTER_ALWAYS_TRUE"}}
  <1>1. OrResult(results) =
            IF open = {} THEN "FILTER_ALWAYS_FALSE" ELSE results[Min(open)]
    BY DEF OrResult
  <1>2. DOMAIN results = 1..n
    OBVIOUS
  <1>3. CASE open = {}
    <2>1. OrResult(results) = "FILTER_ALWAYS_FALSE"
      BY <1>1, <1>3
    <2>2. ASSUME NEW i \in 1..n
          PROVE  results[i] \in {"FILTER_ALWAYS_FALSE", "FILTER_FALSE_OR_NULL"}
      <3>1. results[i] \in Answers /\ i \notin open
        BY <1>3
      <3>. QED
        BY <1>2, <3>1 DEF Answers
    <2>. QED
      BY <2>1, <2>2
  <1>4. CASE open # {}
    <2>1. Min(open) \in open
      <3>1. open \subseteq 1..n
        BY <1>2
      <3>. HIDE DEF open
      <3>. QED
        BY <1>4, <3>1, MinIndex
    <2>2. OrResult(results) = results[Min(open)]
      BY <1>1, <1>4
    <2>. DEFINE m == Min(open)
    <2>3. /\ m \in 1..n
          /\ results[m] \in {"NO_PRUNING_POSSIBLE", "FILTER_ALWAYS_TRUE"}
      BY <1>2, <2>1
    <2>. HIDE DEF m
    <2>. QED
      BY <2>2, <2>3 DEF m
  <1>. QED
    BY <1>3, <1>4

LEMMA CheckStepTyped ==
    ASSUME NEW g \in [Filters -> Answers], NEW f \in Filters, NEW nulls \in BOOLEAN
    PROVE  CheckStep(f, g, nulls) \in Answers
  <1>. DEFINE results == [i \in DOMAIN f.child_filters |-> g[f.child_filters[i]]]
  <1>1. CheckConstant(f, nulls) \in Answers
    BY DEF CheckConstant, Answers
  <1>2. \A left, right \in BOOLEAN : CheckNull(left, right) \in Answers
    BY DEF CheckNull, Answers
  <1>3. \A s : AndResult(s) \in Answers
    BY DEF AndResult, Answers
  <1>4. "NO_PRUNING_POSSIBLE" \in Answers
    BY DEF Answers
  <1>5. CASE f.type \in Leaf
    BY <1>1, <1>2, <1>4, <1>5 DEF CheckStep, Leaf
  <1>6. CASE f.type = "CONJUNCTION_AND"
    BY <1>3, <1>6 DEF CheckStep
  <1>7. CASE f.type = "CONJUNCTION_OR"
    <2>1. /\ Len(f.child_filters) \in Nat
          /\ results \in [1..Len(f.child_filters) -> Answers]
      BY <1>7, NodeChildren DEF Leaf
    <2>2. CheckStep(f, g, nulls) = OrResult(results)
      BY <1>7 DEF CheckStep
    <2>. HIDE DEF results
    <2>3. OrResult(results) \in Answers
      BY <2>1, OrResultIs DEF Answers
    <2>. QED
      BY <2>2, <2>3
  <1>8. CASE f.type \in {"OPTIONAL_FILTER", "DYNAMIC_FILTER"}
    <2>1. f.child_filters # <<>> => f.child_filters[1] \in Filters
      <3>1. f.type \notin Leaf
        BY <1>8 DEF Leaf
      <3>2. f.child_filters \in Seq(Filters)
            /\ \A i \in 1..Len(f.child_filters) : f.child_filters[i] \in Filters
        BY <3>1, NodeChildren
      <3>3. f.child_filters # <<>> => 1 \in 1..Len(f.child_filters)
        BY <3>2, EmptySeq
      <3>. QED
        BY <3>2, <3>3
    <2>2. CheckStep(f, g, nulls) = IF f.child_filters = <<>> THEN "NO_PRUNING_POSSIBLE"
                                   ELSE g[f.child_filters[1]]
      BY <1>8 DEF CheckStep
    <2>. QED
      BY <1>4, <2>1, <2>2
  <1>9. f.type \in Leaf \cup Node
    BY NodeChildren
  <1>. QED
    BY <1>5, <1>6, <1>7, <1>8, <1>9 DEF Node

LEMMA CheckStepLocal ==
    ASSUME NEW g, NEW h, NEW f \in Filters, NEW nulls,
           \A child \in Children(f) : g[child] = h[child]
    PROVE  CheckStep(f, g, nulls) = CheckStep(f, h, nulls)
  <1>1. CASE f.type \in Leaf
    BY <1>1 DEF CheckStep, Leaf
  <1>2. CASE f.type \in Node
    <2>0. f.type \notin Leaf
      BY <1>2 DEF Leaf, Node
    <2>1. \A i \in DOMAIN f.child_filters : g[f.child_filters[i]] = h[f.child_filters[i]]
      BY <2>0, NodeChildren
    <2>2. [i \in DOMAIN f.child_filters |-> g[f.child_filters[i]]]
             = [i \in DOMAIN f.child_filters |-> h[f.child_filters[i]]]
      BY <2>1
    <2>3. f.child_filters # <<>> => g[f.child_filters[1]] = h[f.child_filters[1]]
      BY <2>0, <2>1, NodeChildren, EmptySeq
    <2>. QED
      BY <1>2, <2>2, <2>3 DEF CheckStep, Node
  <1>. QED
    BY <1>1, <1>2, NodeChildren

(* CheckStatistics of a filter is what it is for its children. *)
LEMMA CheckUnfolds ==
    ASSUME FiniteTrees, NEW nulls \in BOOLEAN
    PROVE  /\ \A f \in Filters : CheckStatistics(nulls)[f] \in Answers
           /\ \A f \in Filters :
                 CheckStatistics(nulls)[f] = CheckStep(f, CheckStatistics(nulls), nulls)
  <1>. DEFINE R == Answers
              Step == [g \in [Filters -> R] |-> [f \in Filters |-> CheckStep(f, g, nulls)]]
              IsCheck(g) == g = [f \in Filters |-> CheckStep(f, g, nulls)]
              check == CheckStatistics(nulls)
  <1>1. PICK depth : IsDepth(depth)
    BY DEF FiniteTrees
  <1>2. depth \in [Filters -> Nat]
    BY <1>1 DEF IsDepth
  <1>3. Step \in [[Filters -> R] -> [Filters -> R]]
    BY CheckStepTyped
  <1>4. ASSUME NEW g \in [Filters -> R], NEW h \in [Filters -> R], NEW f \in Filters,
               \A c \in Filters : depth[c] < depth[f] => g[c] = h[c]
        PROVE  Step[g][f] = Step[h][f]
    <2>1. \A child \in Children(f) : g[child] = h[child]
      <3>1. \A child \in Children(f) : child \in Filters /\ depth[child] < depth[f]
        BY <1>1, ChildrenFilters DEF IsDepth
      <3>. QED
        BY <1>4, <3>1
    <2>2. CheckStep(f, g, nulls) = CheckStep(f, h, nulls)
      BY <2>1, CheckStepLocal
    <2>. QED
      BY <2>2
  <1>5. R # {}
    BY DEF Answers
  <1>6. \E g \in [Filters -> R] : g = Step[g]
    <2>. HIDE DEF R, Step
    <2>1. Descends(Filters, R, depth, Step)
      BY <1>2, <1>3, <1>4, <1>5 DEF Descends
    <2>. QED
      BY <2>1, Recursion
  <1>7. \E g : IsCheck(g)
    BY <1>6
  <1>8. check = CHOOSE g : IsCheck(g)
    BY Zenon DEF CheckStatistics
  <1>9. IsCheck(check)
    <2>. HIDE DEF IsCheck, check
    <2>. QED
      BY <1>7, <1>8
  <1>. HIDE DEF check
  <1>10. \A f \in Filters : check[f] = CheckStep(f, check, nulls)
    BY <1>9
  <1>. DEFINE T == {f \in Filters : check[f] \in R}
  <1>11. ASSUME NEW f \in Filters, \A c \in Filters : depth[c] < depth[f] => c \in T
         PROVE  f \in T
    <2>. DEFINE g == [c \in Filters |-> IF check[c] \in R THEN check[c]
                                        ELSE "NO_PRUNING_POSSIBLE"]
    <2>1. g \in [Filters -> R]
      BY DEF Answers
    <2>2. \A child \in Children(f) : g[child] = check[child]
      <3>1. \A child \in Children(f) : child \in Filters /\ depth[child] < depth[f]
        BY <1>1, ChildrenFilters DEF IsDepth
      <3>. QED
        BY <1>11, <3>1
    <2>. HIDE DEF g
    <2>3. CheckStep(f, g, nulls) = CheckStep(f, check, nulls)
      BY <2>2, CheckStepLocal
    <2>. QED
      BY <1>10, <2>1, <2>3, CheckStepTyped
  <1>12. \A f \in Filters : f \in T
    <2>. HIDE DEF T
    <2>. QED
      BY <1>2, <1>11, DepthInduction
  <1>. QED
    BY <1>10, <1>12 DEF check

(* SelectStep: what the expression of a filter lets pass, given its children, of
   which it looks at nothing else.                                           *)
LEMMA SelectStepIs ==
    ASSUME NEW f \in Filters, NEW selected
    PROVE  /\ f.type = "CONSTANT_COMPARISON" =>
                 SelectStep(f, selected) =
                     {d \in Value : Satisfies(d, f.comparison, f.constant)}
           /\ f.type = "IS_NULL" => SelectStep(f, selected) = {Null}
           /\ f.type = "IS_NOT_NULL" => SelectStep(f, selected) = Value
           /\ f.type = "IN_FILTER" =>
                 SelectStep(f, selected) =
                     {d \in Value : \E v \in f.values : Equals(d, v)}
           /\ f.type = "CONJUNCTION_OR" =>
                 SelectStep(f, selected) =
                     UNION {selected[child] : child \in Children(f)}
           /\ f.type \in {"CONJUNCTION_AND", "OPTIONAL_FILTER", "DYNAMIC_FILTER"} =>
                 SelectStep(f, selected) =
                     {d \in Datum : \A child \in Children(f) : d \in selected[child]}
  BY DEF SelectStep

LEMMA SelectStepLocal ==
    ASSUME NEW g, NEW h, NEW f \in Filters, \A child \in Children(f) : g[child] = h[child]
    PROVE  SelectStep(f, g) = SelectStep(f, h)
  <1>1. UNION {g[child] : child \in Children(f)}
           = UNION {h[child] : child \in Children(f)}
    OBVIOUS
  <1>2. {d \in Datum : \A child \in Children(f) : d \in g[child]}
           = {d \in Datum : \A child \in Children(f) : d \in h[child]}
    OBVIOUS
  <1>3. f.type \in Leaf \cup Node
    BY NodeChildren
  <1>4. CASE f.type \in Leaf
    BY <1>4, SelectStepIs DEF Leaf
  <1>5. CASE f.type = "CONJUNCTION_OR"
    <2>1. SelectStep(f, g) = UNION {g[child] : child \in Children(f)}
      BY <1>5, SelectStepIs
    <2>2. SelectStep(f, h) = UNION {h[child] : child \in Children(f)}
      BY <1>5, SelectStepIs
    <2>. QED
      BY <1>1, <2>1, <2>2
  <1>6. CASE f.type \in {"CONJUNCTION_AND", "OPTIONAL_FILTER", "DYNAMIC_FILTER"}
    <2>1. SelectStep(f, g) = {d \in Datum : \A child \in Children(f) : d \in g[child]}
      BY <1>6, SelectStepIs
    <2>2. SelectStep(f, h) = {d \in Datum : \A child \in Children(f) : d \in h[child]}
      BY <1>6, SelectStepIs
    <2>. QED
      BY <1>2, <2>1, <2>2
  <1>. QED
    BY <1>3, <1>4, <1>5, <1>6 DEF Node

(* ... where the filters in whole let everything pass. *)
SelectWith(whole, f, selected) ==
    IF f \in whole THEN Datum ELSE SelectStep(f, selected)

(* There is a function that every filter takes from its children. *)
LEMMA SelectionExists ==
    ASSUME FiniteTrees, NEW whole
    PROVE  \E g \in [Filters -> SUBSET Datum] :
              g = [f \in Filters |-> SelectWith(whole, f, g)]
  <1>. DEFINE R == SUBSET Datum
              Step == [g \in [Filters -> R] |-> [f \in Filters |-> SelectWith(whole, f, g)]]
  <1>1. PICK depth : IsDepth(depth)
    BY DEF FiniteTrees
  <1>2. depth \in [Filters -> Nat]
    BY <1>1 DEF IsDepth
  <1>3. Step \in [[Filters -> R] -> [Filters -> R]]
    <2>1. ASSUME NEW g \in [Filters -> R], NEW f \in Filters
          PROVE  SelectWith(whole, f, g) \in R
      <3>1. \A child \in Children(f) : g[child] \subseteq Datum
        BY ChildrenFilters
      <3>2. UNION {g[child] : child \in Children(f)} \subseteq Datum
        BY <3>1
      <3>3. Value \subseteq Datum /\ {Null} \subseteq Datum
        BY DEF Datum
      <3>4. f.type \in Leaf \cup Node
        BY NodeChildren
      <3>5. SelectStep(f, g) \subseteq Datum
        BY <3>2, <3>3, <3>4, SelectStepIs DEF Leaf, Node
      <3>. QED
        BY <3>5 DEF SelectWith
    <2>. HIDE DEF R
    <2>. QED
      BY <2>1
  <1>4. ASSUME NEW g \in [Filters -> R], NEW h \in [Filters -> R], NEW f \in Filters,
               \A c \in Filters : depth[c] < depth[f] => g[c] = h[c]
        PROVE  Step[g][f] = Step[h][f]
    <2>1. \A child \in Children(f) : g[child] = h[child]
      <3>1. \A child \in Children(f) : child \in Filters /\ depth[child] < depth[f]
        BY <1>1, ChildrenFilters DEF IsDepth
      <3>. QED
        BY <1>4, <3>1
    <2>2. SelectStep(f, g) = SelectStep(f, h)
      BY <2>1, SelectStepLocal
    <2>3. SelectWith(whole, f, g) = SelectWith(whole, f, h)
      BY <2>2 DEF SelectWith
    <2>. HIDE DEF R
    <2>. QED
      BY <2>3
  <1>5. R # {}
    OBVIOUS
  <1>6. \E g \in [Filters -> R] : g = Step[g]
    <2>. HIDE DEF R, Step
    <2>1. Descends(Filters, R, depth, Step)
      BY <1>2, <1>3, <1>4, <1>5 DEF Descends
    <2>. QED
      BY <2>1, Recursion
  <1>. HIDE DEF R
  <1>7. \E g \in [Filters -> R] : g = [f \in Filters |-> SelectWith(whole, f, g)]
    BY <1>6
  <1>. QED
    BY <1>7 DEF R

(* The values of a tree are those of its children, together or in common. *)
LEMMA SelectedUnfolds ==
    ASSUME FiniteTrees
    PROVE  \A f \in Filters : Selected[f] = SelectStep(f, Selected)
  <1>. DEFINE IsSelected(g) == g = [f \in Filters |-> SelectStep(f, g)]
  <1>1. PICK g : g = [f \in Filters |-> SelectWith({}, f, g)]
    BY SelectionExists
  <1>2. IsSelected(g)
    BY <1>1 DEF SelectWith
  <1>3. \E h : IsSelected(h)
    BY <1>2
  <1>4. Selected = CHOOSE h : IsSelected(h)
    BY Zenon DEF Selected
  <1>5. IsSelected(Selected)
    <2>. HIDE DEF IsSelected
    <2>. QED
      BY <1>3, <1>4
  <1>. QED
    BY <1>5

(* What the scan lets pass, likewise, with the optional filters wide open. *)
LEMMA FilterSelectionUnfolds ==
    ASSUME FiniteTrees
    PROVE  \A f \in Filters :
              FilterSelection[f] = IF f.type = "OPTIONAL_FILTER" THEN Datum
                                   ELSE SelectStep(f, FilterSelection)
  <1>. DEFINE optional == {f \in Filters : f.type = "OPTIONAL_FILTER"}
              IsSelection(g) ==
                  g = [f \in Filters |-> IF f.type = "OPTIONAL_FILTER" THEN Datum
                                         ELSE SelectStep(f, g)]
  <1>1. PICK g : g = [f \in Filters |-> SelectWith(optional, f, g)]
    BY SelectionExists
  <1>2. IsSelection(g)
    BY <1>1 DEF SelectWith
  <1>3. \E h : IsSelection(h)
    BY <1>2
  <1>4. FilterSelection = CHOOSE h : IsSelection(h)
    BY Zenon DEF FilterSelection
  <1>5. IsSelection(FilterSelection)
    <2>. HIDE DEF IsSelection
    <2>. QED
      BY <1>3, <1>4
  <1>. QED
    BY <1>5

(* A row that satisfies a filter passes it. *)
LEMMA SelectedPasses ==
    ASSUME FiniteTrees
    PROVE  \A f \in Filters : /\ Selected[f] \subseteq Datum
                              /\ Selected[f] \subseteq FilterSelection[f]
  <1>1. PICK depth : IsDepth(depth)
    BY DEF FiniteTrees
  <1>. DEFINE T == {f \in Filters : /\ Selected[f] \subseteq Datum
                                    /\ Selected[f] \subseteq FilterSelection[f]}
  <1>2. ASSUME NEW f \in Filters, \A c \in Filters : depth[c] < depth[f] => c \in T
        PROVE  f \in T
    <2>1. \A child \in Children(f) :
             Selected[child] \subseteq Datum /\ Selected[child] \subseteq FilterSelection[child]
      BY <1>1, <1>2, ChildrenFilters DEF IsDepth
    <2>2. Selected[f] = SelectStep(f, Selected)
      BY SelectedUnfolds
    <2>3. SelectStep(f, Selected) \subseteq SelectStep(f, FilterSelection)
      <3>1. f.type \in Leaf \cup Node
        BY NodeChildren
      <3>. QED
        BY <2>1, <3>1, SelectStepIs DEF Leaf, Node
    <2>4. Selected[f] \subseteq Datum
      <3>1. f.type \in Leaf \cup Node
        BY NodeChildren
      <3>2. Value \subseteq Datum /\ {Null} \subseteq Datum
        BY DEF Datum
      <3>. QED
        BY <2>1, <2>2, <3>1, <3>2, SelectStepIs DEF Leaf, Node
    <2>5. FilterSelection[f] = IF f.type = "OPTIONAL_FILTER" THEN Datum
                               ELSE SelectStep(f, FilterSelection)
      BY FilterSelectionUnfolds
    <2>. QED
      BY <2>2, <2>3, <2>4, <2>5
  <1>3. \A f \in Filters : f \in T
    <2>1. depth \in [Filters -> Nat]
      BY <1>1 DEF IsDepth
    <2>. HIDE DEF T
    <2>. QED
      BY <1>2, <2>1, DepthInduction
  <1>. QED
    BY <1>3

(* Bound *)
BoundStep(f, bound, comparisons) ==
    LET bounded == {i \in DOMAIN f.child_filters : bound[f.child_filters[i]] # {}}
    IN  CASE f.type = "CONSTANT_COMPARISON" ->
                IF f.comparison \in comparisons THEN {f.constant} ELSE {}
          [] f.type = "CONJUNCTION_AND" /\ bounded # {} ->
                bound[f.child_filters[Min(bounded)]]
          [] OTHER -> {}

(* A bound is that of the filter itself or of a child. *)
LEMMA BoundStepIs ==
    ASSUME NEW f \in Filters, NEW bound, NEW comparisons
    PROVE  \/ BoundStep(f, bound, comparisons) = {}
           \/ /\ f.type = "CONSTANT_COMPARISON" /\ f.comparison \in comparisons
              /\ BoundStep(f, bound, comparisons) = {f.constant}
           \/ /\ f.type = "CONJUNCTION_AND"
              /\ \E child \in Children(f) :
                    BoundStep(f, bound, comparisons) = bound[child]
  <1>. DEFINE bounded == {i \in DOMAIN f.child_filters : bound[f.child_filters[i]] # {}}
  <1>1. CASE f.type = "CONJUNCTION_AND" /\ bounded # {}
    <2>0. f.type \notin Leaf
      BY <1>1 DEF Leaf
    <2>1. /\ Len(f.child_filters) \in Nat /\ bounded \subseteq 1..Len(f.child_filters)
      BY <2>0, NodeChildren
    <2>2. BoundStep(f, bound, comparisons) = bound[f.child_filters[Min(bounded)]]
      BY <1>1 DEF BoundStep
    <2>3. Min(bounded) \in bounded
      <3>. HIDE DEF bounded
      <3>. QED
        BY <1>1, <2>1, MinIndex
    <2>4. Min(bounded) \in DOMAIN f.child_filters
      BY <2>3
    <2>. HIDE DEF bounded
    <2>. QED
      BY <1>1, <2>0, <2>2, <2>4, NodeChildren
  <1>2. CASE f.type = "CONSTANT_COMPARISON"
    BY <1>2 DEF BoundStep
  <1>3. CASE f.type # "CONSTANT_COMPARISON" /\ ~ (f.type = "CONJUNCTION_AND" /\ bounded # {})
    BY <1>3 DEF BoundStep
  <1>. QED
    BY <1>1, <1>2, <1>3

LEMMA BoundStepLocal ==
    ASSUME NEW g, NEW h, NEW f \in Filters, NEW comparisons,
           \A child \in Children(f) : g[child] = h[child]
    PROVE  BoundStep(f, g, comparisons) = BoundStep(f, h, comparisons)
  <1>1. CASE f.type = "CONJUNCTION_AND"
    <2>1. \A i \in DOMAIN f.child_filters : g[f.child_filters[i]] = h[f.child_filters[i]]
      BY <1>1, NodeChildren DEF Leaf
    <2>. DEFINE bounded == {i \in DOMAIN f.child_filters : g[f.child_filters[i]] # {}}
    <2>2. bounded = {i \in DOMAIN f.child_filters : h[f.child_filters[i]] # {}}
      BY <2>1
    <2>3. bounded # {} => g[f.child_filters[Min(bounded)]] = h[f.child_filters[Min(bounded)]]
      <3>1. /\ Len(f.child_filters) \in Nat /\ bounded \subseteq 1..Len(f.child_filters)
        BY <1>1, NodeChildren DEF Leaf
      <3>2. bounded \subseteq DOMAIN f.child_filters
        OBVIOUS
      <3>. HIDE DEF bounded
      <3>3. bounded # {} => Min(bounded) \in bounded
        BY <3>1, MinIndex
      <3>. QED
        BY <2>1, <3>2, <3>3
    <2>4. BoundStep(f, g, comparisons) =
             IF bounded # {} THEN g[f.child_filters[Min(bounded)]] ELSE {}
      BY <1>1 DEF BoundStep
    <2>5. BoundStep(f, h, comparisons) =
             IF bounded # {} THEN h[f.child_filters[Min(bounded)]] ELSE {}
      BY <1>1, <2>2 DEF BoundStep
    <2>. HIDE DEF bounded
    <2>. QED
      BY <2>3, <2>4, <2>5
  <1>2. CASE f.type # "CONJUNCTION_AND"
    BY <1>2 DEF BoundStep
  <1>. QED
    BY <1>1, <1>2

LEMMA BoundUnfolds ==
    ASSUME FiniteTrees, NEW comparisons
    PROVE  \E bound :
              \A f \in Filters :
                 /\ Bound(f, comparisons) = bound[f]
                 /\ bound[f] = BoundStep(f, bound, comparisons)
  <1>. DEFINE R == SUBSET Value
              Step == [g \in [Filters -> R] |->
                          [f \in Filters |-> BoundStep(f, g, comparisons)]]
              IsBound(g) == g = [f \in Filters |-> BoundStep(f, g, comparisons)]
              bound == CHOOSE g : IsBound(g)
  <1>1. PICK depth : IsDepth(depth)
    BY DEF FiniteTrees
  <1>2. depth \in [Filters -> Nat]
    BY <1>1 DEF IsDepth
  <1>3. Step \in [[Filters -> R] -> [Filters -> R]]
    <2>1. ASSUME NEW g \in [Filters -> R], NEW f \in Filters
          PROVE  BoundStep(f, g, comparisons) \in R
      <3>1. \A child \in Children(f) : g[child] \subseteq Value
        BY ChildrenFilters
      <3>2. f.type = "CONSTANT_COMPARISON" => f.constant \in Value
        BY FiltersAssumption
      <3>. QED
        BY <3>1, <3>2, BoundStepIs
    <2>. HIDE DEF R
    <2>. QED
      BY <2>1
  <1>4. ASSUME NEW g \in [Filters -> R], NEW h \in [Filters -> R], NEW f \in Filters,
               \A c \in Filters : depth[c] < depth[f] => g[c] = h[c]
        PROVE  Step[g][f] = Step[h][f]
    <2>1. \A child \in Children(f) : g[child] = h[child]
      <3>1. \A child \in Children(f) : child \in Filters /\ depth[child] < depth[f]
        BY <1>1, ChildrenFilters DEF IsDepth
      <3>. QED
        BY <1>4, <3>1
    <2>2. BoundStep(f, g, comparisons) = BoundStep(f, h, comparisons)
      BY <2>1, BoundStepLocal
    <2>. HIDE DEF R
    <2>. QED
      BY <2>2
  <1>5. R # {}
    OBVIOUS
  <1>6. \E g \in [Filters -> R] : g = Step[g]
    <2>. HIDE DEF R, Step
    <2>1. Descends(Filters, R, depth, Step)
      BY <1>2, <1>3, <1>4, <1>5 DEF Descends
    <2>. QED
      BY <2>1, Recursion
  <1>7. \E g : IsBound(g)
    <2>. HIDE DEF R
    <2>. QED
      BY <1>6
  <1>8. IsBound(bound)
    <2>. HIDE DEF IsBound
    <2>. QED
      BY <1>7
  <1>9. \A f \in Filters : Bound(f, comparisons) = bound[f]
    BY Zenon DEF Bound, BoundStep
  <1>. HIDE DEF bound
  <1>. QED
    BY <1>8, <1>9

-------------------------------------------------------------------------------
(* What the answers mean *)

(* A filter that is false or NULL returns no row of the partition, one that is
   true returns them all.                                                     *)
Truthful(f, answer, nulls) ==
    /\ answer \in {"FILTER_ALWAYS_FALSE", "FILTER_FALSE_OR_NULL"} =>
          Rows(nulls) \cap Selected[f] = {}
    /\ answer = "FILTER_ALWAYS_TRUE" => Rows(nulls) \subseteq Selected[f]

(* The rows of a partition and what is asked about them. *)
LEMMA RowsAre ==
    ASSUME IInv, NEW nulls \in BOOLEAN, Null \notin Value
    PROVE  /\ Range(held) \subseteq Value
           /\ held = <<>> <=> Range(held) = {}
           /\ Rows(nulls) = Range(held) \cup (IF nulls THEN {Null} ELSE {})
           /\ Null \notin Range(held)
           /\ Rows(nulls) \subseteq Datum
  <1>1. /\ held \in Seq(Value) /\ Len(held) \in Nat /\ DOMAIN held = 1..Len(held)
        /\ \A i \in 1..Len(held) : held[i] \in Value
    BY DEF IInv
  <1>2. Range(held) = {held[i] : i \in 1..Len(held)}
    BY <1>1, Zenon DEF Range
  <1>3. held # <<>> => 1 \in 1..Len(held)
    BY <1>1, EmptySeq
  <1>4. held = <<>> => 1..Len(held) = {}
    BY EmptySeq
  <1>5. Rows(nulls) = Range(held) \cup (IF nulls THEN {Null} ELSE {})
    BY DEF Rows
  <1>. QED
    BY <1>1, <1>2, <1>3, <1>4, <1>5 DEF Datum

LEMMA LeafTruthful ==
    ASSUME IInv, NoFalsePrune, FiniteTrees, Null \notin Value,
           NEW nulls \in BOOLEAN, NEW f \in Filters, f.type \in Leaf, NEW check
    PROVE  Truthful(f, CheckStep(f, check, nulls), nulls)
  <1>1. /\ Range(held) \subseteq Value
        /\ held = <<>> <=> Range(held) = {}
        /\ Rows(nulls) = Range(held) \cup (IF nulls THEN {Null} ELSE {})
        /\ Null \notin Range(held)
    BY RowsAre
  <1>2. Selected[f] = SelectStep(f, Selected)
    BY SelectedUnfolds
  <1>. DEFINE answer == CheckStep(f, check, nulls)
  <1>3. CASE f.type = "CONSTANT_COMPARISON"
    <2>1. answer = CheckConstant(f, nulls)
      BY <1>3 DEF CheckStep
    <2>2. Selected[f] = {d \in Value : Satisfies(d, f.comparison, f.constant)}
      BY <1>2, <1>3, SelectStepIs
    <2>3. f.comparison \in Comparison /\ f.constant \in Value
      BY <1>3, FiltersAssumption
    <2>4. answer # "FILTER_ALWAYS_TRUE"
      BY <2>1 DEF CheckConstant
    <2>5. answer \in {"FILTER_ALWAYS_FALSE", "FILTER_FALSE_OR_NULL"} =>
             held = <<>> \/ Query(f.comparison, f.constant)
      BY <2>1 DEF CheckConstant
    <2>6. Query(f.comparison, f.constant) =>
             \A v \in Range(held) : ~Satisfies(v, f.comparison, f.constant)
      BY <2>3 DEF NoFalsePrune, Matching
    <2>. HIDE DEF answer
    <2>. QED
      BY <1>1, <2>2, <2>4, <2>5, <2>6 DEF Truthful, answer
  <1>4. CASE f.type = "IS_NULL"
    <2>1. answer = CheckNull(nulls, held # <<>>)
      BY <1>4 DEF CheckStep
    <2>2. Selected[f] = {Null}
      BY <1>2, <1>4, SelectStepIs
    <2>3. /\ answer \in {"FILTER_ALWAYS_FALSE", "FILTER_FALSE_OR_NULL"} => ~nulls
          /\ answer = "FILTER_ALWAYS_TRUE" => held = <<>>
      BY <2>1 DEF CheckNull
    <2>. HIDE DEF answer
    <2>. QED
      BY <1>1, <2>2, <2>3 DEF Truthful, answer
  <1>5. CASE f.type = "IS_NOT_NULL"
    <2>1. answer = CheckNull(held # <<>>, nulls)
      BY <1>5 DEF CheckStep
    <2>2. Selected[f] = Value
      BY <1>2, <1>5, SelectStepIs
    <2>3. /\ answer \in {"FILTER_ALWAYS_FALSE", "FILTER_FALSE_OR_NULL"} => held = <<>>
          /\ answer = "FILTER_ALWAYS_TRUE" => ~nulls
      BY <2>1 DEF CheckNull
    <2>. HIDE DEF answer
    <2>. QED
      BY <1>1, <2>2, <2>3 DEF Truthful, answer
  <1>6. CASE f.type = "IN_FILTER"
    <2>1. answer = "NO_PRUNING_POSSIBLE"
      BY <1>6 DEF CheckStep
    <2>. QED
      BY <2>1 DEF Truthful
  <1>. QED
    BY <1>3, <1>4, <1>5, <1>6 DEF Leaf

LEMMA NodeTruthful ==
    ASSUME IInv, FiniteTrees, Null \notin Value,
           NEW nulls \in BOOLEAN, NEW f \in Filters, f.type \in Node,
           NEW check, \A c \in Filters : check[c] \in Answers,
           \A child \in Children(f) : Truthful(child, check[child], nulls)
    PROVE  Truthful(f, CheckStep(f, check, nulls), nulls)
  <1>. DEFINE answer == CheckStep(f, check, nulls)
              n == Len(f.child_filters)
              results == [i \in DOMAIN f.child_filters |-> check[f.child_filters[i]]]
  <1>1. f.type \notin Leaf
    BY DEF Leaf, Node
  <1>2. /\ f.child_filters \in Seq(Filters)
        /\ DOMAIN f.child_filters = 1..n /\ n \in Nat
        /\ \A i \in 1..n : f.child_filters[i] \in Filters /\ f.child_filters[i] \in Children(f)
        /\ \A child \in Children(f) : \E i \in 1..n : child = f.child_filters[i]
    BY <1>1, NodeChildren
  <1>3. Selected[f] = SelectStep(f, Selected)
    BY SelectedUnfolds
  <1>4. Rows(nulls) \subseteq Datum
    BY RowsAre
  <1>5. results \in [1..n -> Answers] /\ \A i \in 1..n : results[i] = check[f.child_filters[i]]
    BY <1>2
  <1>6. \A i \in 1..n : Truthful(f.child_filters[i], results[i], nulls)
    BY <1>2, <1>5
  <1>7. CASE f.type = "CONJUNCTION_AND"
    <2>1. answer = AndResult(results)
      BY <1>7 DEF CheckStep
    <2>2. Selected[f] = {d \in Datum : \A child \in Children(f) : d \in Selected[child]}
      BY <1>3, <1>7, SelectStepIs
    <2>3. Range(results) = {results[i] : i \in 1..n}
      BY <1>2, Zenon DEF Range
    <2>. HIDE DEF results, n
    <2>4. answer # "FILTER_FALSE_OR_NULL"
          /\ (answer = "FILTER_ALWAYS_FALSE" => \E i \in 1..n : results[i] = "FILTER_ALWAYS_FALSE")
          /\ (answer = "FILTER_ALWAYS_TRUE" => \A i \in 1..n : results[i] = "FILTER_ALWAYS_TRUE")
      BY <2>1, <2>3 DEF AndResult
    <2>. HIDE DEF answer
    <2>5. ASSUME answer = "FILTER_ALWAYS_FALSE" PROVE Rows(nulls) \cap Selected[f] = {}
      <3>1. PICK i \in 1..n : results[i] = "FILTER_ALWAYS_FALSE"
        BY <2>4, <2>5
      <3>2. Rows(nulls) \cap Selected[f.child_filters[i]] = {}
        BY <1>6, <3>1 DEF Truthful
      <3>. QED
        BY <1>2, <2>2, <3>2
    <2>6. ASSUME answer = "FILTER_ALWAYS_TRUE" PROVE Rows(nulls) \subseteq Selected[f]
      <3>1. \A i \in 1..n : Rows(nulls) \subseteq Selected[f.child_filters[i]]
        BY <1>6, <2>4, <2>6 DEF Truthful
      <3>2. \A child \in Children(f) : Rows(nulls) \subseteq Selected[child]
        BY <1>2, <3>1
      <3>. QED
        BY <1>4, <2>2, <3>2
    <2>. QED
      BY <2>4, <2>5, <2>6 DEF Truthful, answer
  <1>8. CASE f.type = "CONJUNCTION_OR"
    <2>1. answer = OrResult(results)
      BY <1>8 DEF CheckStep
    <2>2. Selected[f] = UNION {Selected[child] : child \in Children(f)}
      BY <1>3, <1>8, SelectStepIs
    <2>. HIDE DEF results, n
    <2>3. \/ /\ answer = "FILTER_ALWAYS_FALSE"
             /\ \A i \in 1..n :
                   results[i] \in {"FILTER_ALWAYS_FALSE", "FILTER_FALSE_OR_NULL"}
          \/ \E i \in 1..n :
                 /\ answer = results[i]
                 /\ results[i] \in {"NO_PRUNING_POSSIBLE", "FILTER_ALWAYS_TRUE"}
      BY <1>2, <1>5, <2>1, OrResultIs
    <2>. HIDE DEF answer
    <2>4. CASE /\ answer = "FILTER_ALWAYS_FALSE"
               /\ \A i \in 1..n :
                   results[i] \in {"FILTER_ALWAYS_FALSE", "FILTER_FALSE_OR_NULL"}
      <3>1. \A i \in 1..n : Rows(nulls) \cap Selected[f.child_filters[i]] = {}
        BY <1>6, <2>4 DEF Truthful
      <3>2. \A child \in Children(f) : Rows(nulls) \cap Selected[child] = {}
        BY <1>2, <3>1
      <3>3. Rows(nulls) \cap Selected[f] = {}
        BY <2>2, <3>2
      <3>. QED
        BY <2>4, <3>3 DEF Truthful, answer
    <2>5. ASSUME NEW i \in 1..n, answer = results[i],
                 results[i] \in {"NO_PRUNING_POSSIBLE", "FILTER_ALWAYS_TRUE"}
          PROVE  Truthful(f, answer, nulls)
      <3>1. answer = "FILTER_ALWAYS_TRUE" => Rows(nulls) \subseteq Selected[f.child_filters[i]]
        BY <1>6, <2>5 DEF Truthful
      <3>2. answer = "FILTER_ALWAYS_TRUE" => Rows(nulls) \subseteq Selected[f]
        BY <1>2, <2>2, <3>1
      <3>. QED
        BY <2>5, <3>2 DEF Truthful
    <2>. QED
      BY <2>3, <2>4, <2>5 DEF answer
  <1>9. CASE f.type \in {"OPTIONAL_FILTER", "DYNAMIC_FILTER"}
    <2>1. answer = IF f.child_filters = <<>> THEN "NO_PRUNING_POSSIBLE"
                   ELSE check[f.child_filters[1]]
      BY <1>9 DEF CheckStep
    <2>2. Selected[f] = {d \in Datum : \A child \in Children(f) : d \in Selected[child]}
      BY <1>3, <1>9, SelectStepIs
    <2>3. n <= 1
      BY <1>9, FiltersAssumption
    <2>4. f.child_filters # <<>> => n = 1
      <3>1. f.child_filters # <<>> => n \in Nat \ {0}
        BY <1>2, EmptySeq
      <3>. HIDE DEF n
      <3>. QED
        BY <2>3, <3>1
    <2>5. CASE f.child_filters = <<>>
      BY <2>1, <2>5 DEF Truthful
    <2>6. CASE f.child_filters # <<>>
      <3>. DEFINE only == f.child_filters[1]
      <3>1. n = 1
        BY <2>4, <2>6
      <3>2. Children(f) = {only}
        BY <1>2, <3>1
      <3>3. answer = check[only] /\ Truthful(only, check[only], nulls)
        BY <2>1, <2>6, <3>2
      <3>4. Selected[f] = {d \in Datum : d \in Selected[only]}
        BY <2>2, <3>2
      <3>. HIDE DEF only, answer
      <3>5. Truthful(f, answer, nulls)
        BY <1>4, <3>3, <3>4 DEF Truthful
      <3>. QED
        BY <3>5 DEF answer
    <2>. QED
      BY <2>5, <2>6
  <1>. QED
    BY <1>7, <1>8, <1>9 DEF Node

(* CheckStatistics of every filter is truthful. *)
LEMMA ChecksTruthful ==
    ASSUME IInv, NoFalsePrune, FiniteTrees, Null \notin Value, NEW nulls \in BOOLEAN
    PROVE  \A f \in Filters : Truthful(f, CheckStatistics(nulls)[f], nulls)
  <1>. DEFINE check == CheckStatistics(nulls)
              T == {f \in Filters : Truthful(f, check[f], nulls)}
  <1>1. PICK depth : IsDepth(depth)
    BY DEF FiniteTrees
  <1>2. \A f \in Filters : check[f] \in Answers /\ check[f] = CheckStep(f, check, nulls)
    BY CheckUnfolds
  <1>. HIDE DEF check
  <1>3. ASSUME NEW f \in Filters, \A c \in Filters : depth[c] < depth[f] => c \in T
        PROVE  f \in T
    <2>1. \A child \in Children(f) : child \in Filters /\ depth[child] < depth[f]
      BY <1>1, ChildrenFilters DEF IsDepth
    <2>2. \A child \in Children(f) : Truthful(child, check[child], nulls)
      BY <1>3, <2>1
    <2>3. CASE f.type \in Leaf
      BY <1>2, <2>3, LeafTruthful
    <2>4. CASE f.type \in Node
      BY <1>2, <2>2, <2>4, NodeTruthful
    <2>. QED
      BY <2>3, <2>4, NodeChildren
  <1>4. \A f \in Filters : f \in T
    <2>1. depth \in [Filters -> Nat]
      BY <1>1 DEF IsDepth
    <2>. HIDE DEF T
    <2>. QED
      BY <1>3, <2>1, DepthInduction
  <1>. QED
    BY <1>4 DEF check

(* A row that a filter returns is within the bounds taken from the filter. *)
LEMMA BoundsHold ==
    ASSUME FiniteTrees, NEW comparisons
    PROVE  \A f \in Filters : \A c \in Bound(f, comparisons) :
              /\ c \in Value
              /\ \A d \in Selected[f] :
                    d \in Value /\ \E op \in comparisons : Satisfies(d, op, c)
  <1>1. PICK bound :
           \A f \in Filters : /\ Bound(f, comparisons) = bound[f]
                              /\ bound[f] = BoundStep(f, bound, comparisons)
    BY BoundUnfolds
  <1>2. PICK depth : IsDepth(depth)
    BY DEF FiniteTrees
  <1>. DEFINE Holds(f) == \A c \in bound[f] :
                 /\ c \in Value
                 /\ \A d \in Selected[f] :
                       d \in Value /\ \E op \in comparisons : Satisfies(d, op, c)
              T == {f \in Filters : Holds(f)}
  <1>3. ASSUME NEW f \in Filters, \A g \in Filters : depth[g] < depth[f] => g \in T
        PROVE  f \in T
    <2>1. CASE bound[f] = {}
      BY <2>1
    <2>2. CASE /\ f.type = "CONSTANT_COMPARISON" /\ f.comparison \in comparisons
               /\ bound[f] = {f.constant}
      <3>1. Selected[f] = {d \in Value : Satisfies(d, f.comparison, f.constant)}
        BY <2>2, SelectedUnfolds, SelectStepIs
      <3>2. f.constant \in Value
        BY <2>2, FiltersAssumption
      <3>. QED
        BY <2>2, <3>1, <3>2
    <2>3. ASSUME f.type = "CONJUNCTION_AND", NEW child \in Children(f),
                 bound[f] = bound[child]
          PROVE  f \in T
      <3>1. child \in Filters /\ depth[child] < depth[f]
        BY <1>2, ChildrenFilters DEF IsDepth
      <3>2. Holds(child)
        BY <1>3, <3>1
      <3>3. Selected[f] = {d \in Datum : \A g \in Children(f) : d \in Selected[g]}
        BY <2>3, SelectedUnfolds, SelectStepIs
      <3>4. Selected[f] \subseteq Selected[child]
        BY <3>3
      <3>5. Holds(f)
        BY <2>3, <3>2, <3>4
      <3>. QED
        BY <3>5
    <2>4. bound[f] = BoundStep(f, bound, comparisons)
      BY <1>1
    <2>. QED
      BY <2>1, <2>2, <2>3, <2>4, BoundStepIs
  <1>4. \A f \in Filters : f \in T
    <2>1. depth \in [Filters -> Nat]
      BY <1>2 DEF IsDepth
    <2>. HIDE DEF T
    <2>. QED
      BY <1>3, <2>1, DepthInduction
  <1>. QED
    BY <1>1, <1>4

(* A row that a filter returns is in the range taken from the filter. *)
LEMMA RangesHold ==
    ASSUME IInv, NoFalseRangePrune, FiniteTrees, Null \notin Value,
           NEW nulls \in BOOLEAN, NEW f \in Filters, BetweenSkip(f)
    PROVE  Rows(nulls) \cap Selected[f] = {}
  <1>1. PICK low \in Lower(f), high \in Upper(f) : QueryRange(low, high)
    BY DEF BetweenSkip
  <1>2. /\ low \in Value
        /\ \A d \in Selected[f] :
              d \in Value /\ \E op \in {"GREATERTHAN", "GREATERTHANOREQUALTO"} :
                                Satisfies(d, op, low)
    BY BoundsHold DEF Lower
  <1>3. /\ high \in Value
        /\ \A d \in Selected[f] :
              d \in Value /\ \E op \in {"LESSTHAN", "LESSTHANOREQUALTO"} :
                                Satisfies(d, op, high)
    BY BoundsHold DEF Upper
  <1>4. ASSUME NEW d \in Selected[f] PROVE Between(d, low, high)
    <2>1. GreaterThanEquals(d, low)
      <3>1. Satisfies(d, "GREATERTHAN", low) \/ Satisfies(d, "GREATERTHANOREQUALTO", low)
        BY <1>2
      <3>. QED
        BY <3>1 DEF Satisfies, GreaterThan, GreaterThanEquals
    <2>2. LessThanEquals(d, high)
      <3>1. Satisfies(d, "LESSTHAN", high) \/ Satisfies(d, "LESSTHANOREQUALTO", high)
        BY <1>3
      <3>. QED
        BY <3>1 DEF Satisfies, LessThan, LessThanEquals, GreaterThan, GreaterThanEquals
    <2>. QED
      BY <2>1, <2>2 DEF Between
  <1>5. InRange(low, high) = {}
    BY <1>1, <1>2, <1>3 DEF NoFalseRangePrune
  <1>6. ASSUME NEW d \in Rows(nulls), d \in Selected[f] PROVE FALSE
    <2>1. d \in Range(held)
      <3>1. d \in Value
        BY <1>2, <1>6
      <3>. QED
        BY <1>6, <3>1, RowsAre
    <2>. QED
      BY <1>4, <1>5, <1>6, <2>1 DEF InRange
  <1>. QED
    BY <1>6

LEMMA SkipsRight ==
    ASSUME IInv, NoFalsePrune, NoFalseRangePrune, FiniteTrees, Null \notin Value
    PROVE  SkipsSound
  <1>. SUFFICES ASSUME NEW list \in FilterLists, NEW nulls \in BOOLEAN,
                       Skips(list, nulls), NEW d \in Rows(nulls)
                PROVE  \E i \in DOMAIN list : d \notin Selected[list[i]]
    BY DEF SkipsSound
  <1>. DEFINE check == CheckStatistics(nulls)
              ranged == {i \in DOMAIN list : Ranged(list[i])}
  <1>1. /\ list \in Seq(Filters) /\ Len(list) \in Nat /\ DOMAIN list = 1..Len(list)
        /\ \A i \in DOMAIN list : list[i] \in Filters
    BY FiltersAssumption
  <1>2. \/ \E i \in DOMAIN list : check[list[i]] = "FILTER_ALWAYS_FALSE"
        \/ ranged # {} /\ BetweenSkip(list[Max(ranged)])
    BY Zenon DEF Skips
  <1>3. CASE \E i \in DOMAIN list : check[list[i]] = "FILTER_ALWAYS_FALSE"
    <2>1. PICK i \in DOMAIN list : check[list[i]] = "FILTER_ALWAYS_FALSE"
      BY <1>3
    <2>2. Truthful(list[i], check[list[i]], nulls)
      BY <1>1, ChecksTruthful
    <2>3. Rows(nulls) \cap Selected[list[i]] = {}
      BY <2>1, <2>2 DEF Truthful
    <2>. QED
      BY <2>3
  <1>4. CASE ranged # {} /\ BetweenSkip(list[Max(ranged)])
    <2>1. Max(ranged) \in ranged
      <3>1. ranged \in SUBSET (1..Len(list)) /\ IsFiniteSet(1..Len(list))
        BY <1>1, FS_Interval
      <3>. HIDE DEF ranged
      <3>2. IsFiniteSet(ranged)
        BY <3>1, FS_Subset
      <3>3. ranged \in SUBSET Int
        BY <3>1
      <3>. QED
        BY <1>4, <3>2, <3>3, MinMax
    <2>2. Max(ranged) \in DOMAIN list
      BY <2>1
    <2>. HIDE DEF ranged
    <2>3. Rows(nulls) \cap Selected[list[Max(ranged)]] = {}
      BY <1>1, <1>4, <2>2, RangesHold
    <2>. QED
      BY <2>2, <2>3
  <1>. QED
    BY <1>2, <1>3, <1>4

LEMMA LabelsRight ==
    ASSUME IInv, NoFalsePrune, FiniteTrees, Null \notin Value
    PROVE  LabelsSound
  <1>. SUFFICES ASSUME NEW list \in FilterLists, NEW nulls \in BOOLEAN,
                       NEW i \in SetAlwaysTrue(list, nulls)
                PROVE  Rows(nulls) \subseteq FilterSelection[list[i]]
    BY DEF LabelsSound
  <1>. DEFINE check == CheckStatistics(nulls)
  <1>1. i \in DOMAIN list /\ (\/ list[i].type = "OPTIONAL_FILTER"
                             \/ check[list[i]] = "FILTER_ALWAYS_TRUE")
    BY Zenon DEF SetAlwaysTrue
  <1>2. list[i] \in Filters
    BY <1>1, FiltersAssumption
  <1>3. CASE list[i].type = "OPTIONAL_FILTER"
    <2>1. FilterSelection[list[i]] = Datum
      BY <1>2, <1>3, FilterSelectionUnfolds
    <2>. QED
      BY <2>1, RowsAre
  <1>4. CASE check[list[i]] = "FILTER_ALWAYS_TRUE"
    <2>1. Truthful(list[i], check[list[i]], nulls)
      BY <1>2, ChecksTruthful
    <2>2. Rows(nulls) \subseteq Selected[list[i]]
      BY <1>4, <2>1 DEF Truthful
    <2>. QED
      BY <1>2, <2>2, SelectedPasses
  <1>. QED
    BY <1>1, <1>3, <1>4

-------------------------------------------------------------------------------
(* RowGroup::CheckZonemap never skips a partition that holds a row all the
   filters of the scan return: whatever the filters and the shape and depth of
   their trees, the bounds taken from them for a range, the kind of statistic
   and the NULLs of the partition, if equal values have equal hashes.         *)
THEOREM SkippingSound ==
    ASSUME EqualHashes, FiniteTrees
    PROVE  Spec => []SkipsSound
  <1>1. Spec => []NoFalsePrune
    BY MembershipSound
  <1>2. Spec => []NoFalseRangePrune
    BY RangeSound
  <1>3. IInv /\ NoFalsePrune /\ NoFalseRangePrune => SkipsSound
    BY NullAssumption, SkipsRight
  <1>. QED
    BY <1>1, <1>2, <1>3, ConstructedFromHeld, PTL

(* A filter that SetFilterAlwaysTrue takes from the scan is one that every row
   of the partition would pass in FilterSelection, NULLs included.            *)
THEOREM LabellingSound ==
    ASSUME EqualHashes, FiniteTrees
    PROVE  Spec => []LabelsSound
  <1>1. Spec => []NoFalsePrune
    BY MembershipSound
  <1>2. IInv /\ NoFalsePrune => LabelsSound
    BY NullAssumption, LabelsRight
  <1>. QED
    BY <1>1, <1>2, ConstructedFromHeld, PTL
===============================================================================
