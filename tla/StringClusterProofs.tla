------------------------- MODULE StringClusterProofs -------------------------
(***************************************************************************)
(* Cluster statistics of strings, for any strings, prefix, number of       *)
(* clusters and rows: the prefixes tell the queries no more than they      *)
(* know, and the clusters are in order and leave no string out, however    *)
(* the folding into numbers chooses the gaps.                              *)
(***************************************************************************)
EXTENDS StringClusterStats, FiniteOrders, SequenceTheorems

-------------------------------------------------------------------------------
(* The order of strings *)

Char == 0..(Byte - 1)

Text == Seq(Char)

LEMMA Chars ==
    ASSUME NEW s \in Text
    PROVE  Len(s) \in Nat /\ \A i \in 1..Len(s) : s[i] \in Int
  <1>1. Len(s) \in Nat /\ \A i \in 1..Len(s) : s[i] \in Char
    BY DEF Text
  <1>2. \A c \in Char : c \in Int
    BY StringAssumption DEF Char
  <1>. QED
    BY <1>1, <1>2

SameUpto(left, right, n) == \A i \in 1..n : left[i] = right[i]

(* Differs returns the first difference. *)
LEMMA DiffersFirst ==
    ASSUME NEW left, NEW right, NEW n \in Nat
    PROVE  LET i == Differs(left, right, n)
           IN  \/ i = 0 /\ SameUpto(left, right, n)
               \/ /\ i \in 1..n /\ left[i] # right[i]
                  /\ SameUpto(left, right, i - 1)
  <1>. DEFINE at == {i \in 1..n : left[i] # right[i]}
  <1>1. CASE at = {}
    BY <1>1 DEF Differs, SameUpto
  <1>2. CASE at # {}
    <2>1. at \in SUBSET (1..n) /\ IsFiniteSet(1..n)
      BY FS_Interval
    <2>2. IsFiniteSet(at)
      BY <2>1, FS_Subset
    <2>3. at \in SUBSET Int
      BY <2>1
    <2>4. Min(at) \in at /\ \A u \in at : Min(at) <= u
      BY <1>2, <2>2, <2>3, MinMax
    <2>5. Differs(left, right, n) = Min(at)
      BY <1>2 DEF Differs
    <2>. DEFINE i == Min(at)
    <2>6. i \in 1..n /\ left[i] # right[i] /\ \A u \in at : i <= u
      BY <2>4
    <2>. HIDE DEF i
    <2>7. ASSUME NEW j \in 1..(i - 1) PROVE left[j] = right[j]
      <3>1. j \in 1..n /\ ~ (i <= j)
        BY <2>6
      <3>. QED
        BY <2>6, <3>1
    <2>. QED
      BY <2>5, <2>6, <2>7 DEF SameUpto, i
  <1>. QED
    BY <1>1, <1>2

(* std::string::compare: the first difference decides, or the length. *)
LEMMA LessIs ==
    ASSUME NEW left \in Text, NEW right \in Text
    PROVE  Less(left, right) <=>
               \/ \E i \in 1..Least(Len(left), Len(right)) :
                     SameUpto(left, right, i - 1) /\ left[i] < right[i]
               \/ /\ SameUpto(left, right, Least(Len(left), Len(right)))
                  /\ Len(left) < Len(right)
  <1>. DEFINE n == Least(Len(left), Len(right))
              d == Differs(left, right, n)
  <1>1. /\ Len(left) \in Nat /\ Len(right) \in Nat /\ n \in Nat
        /\ n <= Len(left) /\ n <= Len(right)
    BY DEF Least, Text
  <1>2. \A i \in 1..n : left[i] \in Int /\ right[i] \in Int
    BY <1>1, Chars
  <1>3. Less(left, right) <=>
           IF d = 0 THEN Len(left) < Len(right) ELSE left[d] < right[d]
    BY DEF Less
  <1>4. \/ d = 0 /\ SameUpto(left, right, n)
        \/ /\ d \in 1..n /\ left[d] # right[d]
           /\ SameUpto(left, right, d - 1)
    BY <1>1, DiffersFirst
  <1>. HIDE DEF n, d
  <1>5. CASE d = 0 /\ SameUpto(left, right, n)
    <2>1. \A i \in 1..n : ~ (left[i] < right[i])
      BY <1>2, <1>5 DEF SameUpto
    <2>. QED
      BY <1>3, <1>5, <2>1 DEF n
  <1>6. CASE d \in 1..n /\ left[d] # right[d] /\ SameUpto(left, right, d - 1)
    <2>1. ~SameUpto(left, right, n)
      BY <1>6 DEF SameUpto
    <2>2. ASSUME NEW i \in 1..n, SameUpto(left, right, i - 1), left[i] < right[i]
          PROVE  i = d
      <3>1. CASE i < d
        <4>1. i \in 1..(d - 1)
          BY <1>6, <3>1
        <4>2. left[i] = right[i]
          BY <1>6, <4>1 DEF SameUpto
        <4>. QED
          BY <1>2, <2>2, <4>2
      <3>2. CASE d < i
        <4>1. d \in 1..(i - 1)
          BY <1>6, <3>2
        <4>. QED
          BY <1>6, <2>2, <4>1 DEF SameUpto
      <3>. QED
        BY <1>6, <3>1, <3>2
    <2>. QED
      BY <1>3, <1>6, <2>1, <2>2 DEF n
  <1>. QED
    BY <1>4, <1>5, <1>6

LEMMA LessOrders ==
    /\ \A a \in Text : ~Less(a, a)
    /\ \A a, b \in Text : a = b \/ Less(a, b) \/ Less(b, a)
    /\ \A a, b, c \in Text : Less(a, b) /\ Less(b, c) => Less(a, c)
  <1>1. \A a \in Text : /\ Len(a) \in Nat
                        /\ \A i \in 1..Len(a) : a[i] \in Int
    BY Chars
  <1>2. ASSUME NEW a \in Text PROVE ~Less(a, a)
    <2>1. Least(Len(a), Len(a)) = Len(a)
      BY DEF Least
    <2>2. \A i \in 1..Len(a) : ~ (a[i] < a[i])
      BY <1>1
    <2>3. ~ (Len(a) < Len(a))
      BY <1>1
    <2>. QED
      BY <2>1, <2>2, <2>3, LessIs
  <1>3. ASSUME NEW a \in Text, NEW b \in Text PROVE a = b \/ Less(a, b) \/ Less(b, a)
    <2>. DEFINE n == Least(Len(a), Len(b))
                d == Differs(a, b, n)
    <2>1. /\ n \in Nat /\ n <= Len(a) /\ n <= Len(b)
          /\ n = Len(a) \/ n = Len(b)
          /\ n = Least(Len(b), Len(a))
      BY <1>1 DEF Least
    <2>2. \/ d = 0 /\ SameUpto(a, b, n)
          \/ d \in 1..n /\ a[d] # b[d] /\ SameUpto(a, b, d - 1)
      BY <2>1, DiffersFirst
    <2>. HIDE DEF n, d
    <2>3. CASE d \in 1..n /\ a[d] # b[d] /\ SameUpto(a, b, d - 1)
      <3>1. d \in 1..Len(a) /\ d \in 1..Len(b)
        BY <1>1, <2>1, <2>3
      <3>2. a[d] \in Int /\ b[d] \in Int
        BY <1>1, <3>1
      <3>3. SameUpto(b, a, d - 1)
        BY <2>3 DEF SameUpto
      <3>4. a[d] < b[d] \/ b[d] < a[d]
        BY <2>3, <3>2
      <3>5. CASE a[d] < b[d]
        BY <2>3, <3>5, LessIs DEF n
      <3>6. CASE b[d] < a[d]
        <4>1. \E i \in 1..Least(Len(b), Len(a)) :
                 SameUpto(b, a, i - 1) /\ b[i] < a[i]
          BY <2>1, <2>3, <3>3, <3>6
        <4>. QED
          BY <4>1, LessIs
      <3>. QED
        BY <3>4, <3>5, <3>6
    <2>4. CASE SameUpto(a, b, n)
      <3>1. SameUpto(b, a, n)
        BY <2>4 DEF SameUpto
      <3>2. CASE Len(a) < Len(b)
        BY <2>4, <3>2, LessIs DEF n
      <3>3. CASE Len(b) < Len(a)
        BY <2>1, <3>1, <3>3, LessIs
      <3>4. CASE Len(a) = Len(b)
        <4>1. \A i \in 1..Len(a) : a[i] = b[i]
          BY <2>1, <2>4, <3>4 DEF SameUpto
        <4>2. a = b
          BY <3>4, <4>1 DEF Text
        <4>. QED
          BY <4>2
      <3>. QED
        BY <1>1, <3>2, <3>3, <3>4
    <2>. QED
      BY <2>2, <2>3, <2>4
  <1>4. ASSUME NEW a \in Text, NEW b \in Text, NEW c \in Text, Less(a, b), Less(b, c)
        PROVE  Less(a, c)
    <2>. DEFINE ab == Least(Len(a), Len(b))
                bc == Least(Len(b), Len(c))
                ac == Least(Len(a), Len(c))
    <2>1. /\ Len(a) \in Nat /\ Len(b) \in Nat /\ Len(c) \in Nat
          /\ ab = IF Len(a) < Len(b) THEN Len(a) ELSE Len(b)
          /\ bc = IF Len(b) < Len(c) THEN Len(b) ELSE Len(c)
          /\ ac = IF Len(a) < Len(c) THEN Len(a) ELSE Len(c)
          /\ \A i \in 1..Len(a) : a[i] \in Int
          /\ \A i \in 1..Len(b) : b[i] \in Int
          /\ \A i \in 1..Len(c) : c[i] \in Int
      BY <1>1 DEF Least
    <2>2. \/ \E i \in 1..ab : SameUpto(a, b, i - 1) /\ a[i] < b[i]
          \/ SameUpto(a, b, ab) /\ Len(a) < Len(b)
      BY <1>4, LessIs
    <2>3. \/ \E i \in 1..bc : SameUpto(b, c, i - 1) /\ b[i] < c[i]
          \/ SameUpto(b, c, bc) /\ Len(b) < Len(c)
      BY <1>4, LessIs
    <2>4. Less(a, c) <=>
             \/ \E i \in 1..ac : SameUpto(a, c, i - 1) /\ a[i] < c[i]
             \/ SameUpto(a, c, ac) /\ Len(a) < Len(c)
      BY LessIs
    <2>. HIDE DEF ab, bc, ac
    <2>5. ASSUME NEW m \in Nat, NEW n \in Nat, SameUpto(a, b, m), SameUpto(b, c, n),
                 NEW k \in Nat, k <= m, k <= n
          PROVE  SameUpto(a, c, k)
      BY <2>5 DEF SameUpto
    <2>6. CASE /\ SameUpto(a, b, ab) /\ Len(a) < Len(b)
               /\ SameUpto(b, c, bc) /\ Len(b) < Len(c)
      <3>1. ab \in Nat /\ bc \in Nat /\ ac \in Nat /\ ac <= ab /\ ac <= bc
            /\ Len(a) < Len(c)
        BY <2>1, <2>6
      <3>2. SameUpto(a, c, ac)
        BY <2>5, <2>6, <3>1
      <3>. QED
        BY <2>4, <3>1, <3>2
    <2>7. ASSUME NEW i \in 1..ab, SameUpto(a, b, i - 1), a[i] < b[i],
                 SameUpto(b, c, bc), Len(b) < Len(c)
          PROVE  Less(a, c)
      <3>1. /\ i \in 1..ac /\ i \in 1..bc /\ i - 1 \in Nat /\ bc \in Nat /\ i - 1 <= bc
        BY <2>1, <2>7
      <3>2. SameUpto(a, c, i - 1)
        BY <2>5, <2>7, <3>1
      <3>3. b[i] = c[i]
        BY <2>7, <3>1 DEF SameUpto
      <3>. QED
        BY <2>4, <2>7, <3>1, <3>2, <3>3
    <2>8. ASSUME NEW i \in 1..bc, SameUpto(b, c, i - 1), b[i] < c[i],
                 SameUpto(a, b, ab), Len(a) < Len(b)
          PROVE  Less(a, c)
      <3>1. CASE i <= Len(a)
        <4>1. /\ i \in 1..ac /\ i \in 1..ab /\ i - 1 \in Nat /\ ab \in Nat /\ i - 1 <= ab
          BY <2>1, <2>8, <3>1
        <4>2. SameUpto(a, c, i - 1)
          BY <2>5, <2>8, <4>1
        <4>3. a[i] = b[i]
          BY <2>8, <4>1 DEF SameUpto
        <4>. QED
          BY <2>4, <2>8, <4>1, <4>2, <4>3
      <3>2. CASE Len(a) < i
        <4>1. /\ ac \in Nat /\ ab \in Nat /\ i - 1 \in Nat
              /\ ac <= ab /\ ac <= i - 1 /\ Len(a) < Len(c)
          BY <2>1, <2>8, <3>2
        <4>2. SameUpto(a, c, ac)
          BY <2>5, <2>8, <4>1
        <4>. QED
          BY <2>4, <4>1, <4>2
      <3>. QED
        BY <2>1, <3>1, <3>2
    <2>9. ASSUME NEW i \in 1..ab, SameUpto(a, b, i - 1), a[i] < b[i],
                 NEW j \in 1..bc, SameUpto(b, c, j - 1), b[j] < c[j]
          PROVE  Less(a, c)
      <3>. DEFINE k == Least(i, j)
      <3>1. /\ k \in 1..ab /\ k \in 1..bc /\ k \in 1..ac
            /\ k = IF i < j THEN i ELSE j
        BY <2>1, <2>9 DEF Least
      <3>. HIDE DEF k
      <3>2. /\ k - 1 \in Nat /\ i - 1 \in Nat /\ j - 1 \in Nat
            /\ k - 1 <= i - 1 /\ k - 1 <= j - 1
        BY <3>1
      <3>3. SameUpto(a, c, k - 1)
        BY <2>5, <2>9, <3>2
      <3>4. a[k] \in Int /\ b[k] \in Int /\ c[k] \in Int
        BY <2>1, <3>1, SMTT(30)
      <3>5. a[k] < c[k]
        <4>1. CASE i < j
          <5>1. i \in 1..(j - 1)
            BY <4>1
          <5>2. b[i] = c[i]
            BY <2>9, <5>1 DEF SameUpto
          <5>. QED
            BY <2>9, <3>1, <4>1, <5>2
        <4>2. CASE j < i
          <5>1. j \in 1..(i - 1)
            BY <4>2
          <5>2. a[j] = b[j]
            BY <2>9, <5>1 DEF SameUpto
          <5>. QED
            BY <2>9, <3>1, <4>2, <5>2
        <4>3. CASE i = j
          BY <2>9, <3>1, <3>4, <4>3
        <4>. QED
          BY <4>1, <4>2, <4>3
      <3>. QED
        BY <2>4, <3>1, <3>3, <3>5
    <2>. QED
      BY <2>2, <2>3, <2>6, <2>7, <2>8, <2>9
  <1>. QED
    BY <1>2, <1>3, <1>4

-------------------------------------------------------------------------------
(* The ends of clusters *)

LEMMA Prefix ==
    ASSUME NEW b \in Text, NEW n \in 0..Len(b)
    PROVE  /\ Len(SubSeq(b, 1, n)) = n
           /\ \A i \in 1..n : SubSeq(b, 1, n)[i] = b[i]
           /\ SubSeq(b, 1, n) \in Text
  <1>1. \A i \in 1..n : b[i] \in Char
    BY DEF Text
  <1>2. n \in Int /\ Len(b) \in Nat
    BY DEF Text
  <1>. QED
    BY <1>1, <1>2, SubSeqProperties DEF Text

(* What a prefix and a length tell about the order of a string and the end
   of a cluster is true, and what fits in the prefix is told.                 *)
LEMMA ComparisonSound ==
    ASSUME NEW a \in Text, NEW b \in Text
    PROVE  LET told == StringValueComparison(a, ConstructValue(b))
           IN  /\ told.order \in {-1, 0, 1}
               /\ told.order = -1 => Less(a, b)
               /\ told.order = 1 => Less(b, a)
               /\ told.order = 0 /\ told.exact => a = b
               /\ Len(b) <= MinMaxSize => told.exact = TRUE
  <1>. DEFINE m == Least(Len(b), MinMaxSize)
              data == SubSeq(b, 1, m)
              n == Least(Len(a), m)
              d == Differs(a, data, n)
              told == StringValueComparison(a, ConstructValue(b))
  <1>1. /\ Len(a) \in Nat /\ Len(b) \in Nat /\ MinMaxSize \in Nat
        /\ \A i \in 1..Len(a) : a[i] \in Int
        /\ \A i \in 1..Len(b) : b[i] \in Int
    BY Chars, StringAssumption
  <1>2. /\ m = IF Len(b) < MinMaxSize THEN Len(b) ELSE MinMaxSize
        /\ n = IF Len(a) < m THEN Len(a) ELSE m
    BY DEF Least
  <1>3. Len(data) = m /\ \A i \in 1..m : data[i] = b[i]
    <2>1. m \in 0..Len(b)
      BY <1>1, <1>2
    <2>. QED
      BY <2>1, Prefix
  <1>4. told = IF d # 0
               THEN [order |-> IF a[d] < data[d] THEN -1 ELSE 1, exact |-> TRUE]
               ELSE IF Len(b) <= MinMaxSize
               THEN [order |-> IF Len(a) < Len(b) THEN -1
                               ELSE IF Len(a) > Len(b) THEN 1 ELSE 0,
                     exact |-> TRUE]
               ELSE [order |-> IF Len(a) <= MinMaxSize THEN -1 ELSE 0,
                     exact |-> Len(a) <= MinMaxSize]
    BY <1>3 DEF StringValueComparison, ConstructValue
  <1>5. n \in Nat /\ m \in Nat
    BY <1>1, <1>2
  <1>6. \/ d = 0 /\ SameUpto(a, data, n)
        \/ d \in 1..n /\ a[d] # data[d] /\ SameUpto(a, data, d - 1)
    BY <1>5, DiffersFirst
  <1>. DEFINE ab == Least(Len(a), Len(b))
              ba == Least(Len(b), Len(a))
  <1>7. /\ ab = IF Len(a) < Len(b) THEN Len(a) ELSE Len(b)
        /\ ba = ab
    BY <1>1 DEF Least
  <1>8. /\ Less(a, b) <=>
              \/ \E i \in 1..ab : SameUpto(a, b, i - 1) /\ a[i] < b[i]
              \/ SameUpto(a, b, ab) /\ Len(a) < Len(b)
        /\ Less(b, a) <=>
              \/ \E i \in 1..ab : SameUpto(b, a, i - 1) /\ b[i] < a[i]
              \/ SameUpto(b, a, ab) /\ Len(b) < Len(a)
    BY <1>7, LessIs
  <1>. HIDE DEF ab, ba, m, n, d, data, told
  <1>9. CASE d \in 1..n /\ a[d] # data[d] /\ SameUpto(a, data, d - 1)
    <2>1. /\ d \in 1..ab /\ d \in 1..m /\ d # 0
          /\ d \in 1..Len(a) /\ d \in 1..Len(b)
      BY <1>1, <1>2, <1>5, <1>7, <1>9
    <2>2. a[d] \in Int /\ b[d] \in Int /\ data[d] = b[d]
      BY <1>1, <1>3, <2>1
    <2>3. SameUpto(a, b, d - 1) /\ SameUpto(b, a, d - 1)
      BY <1>3, <1>9, <2>1, <1>5 DEF SameUpto
    <2>4. told = [order |-> IF a[d] < b[d] THEN -1 ELSE 1, exact |-> TRUE]
      BY <1>4, <2>1, <2>2
    <2>5. a[d] < b[d] \/ b[d] < a[d]
      BY <1>9, <2>2
    <2>6. /\ a[d] < b[d] => Less(a, b)
          /\ b[d] < a[d] => Less(b, a)
      BY <1>8, <2>1, <2>3
    <2>. QED
      BY <2>2, <2>4, <2>5, <2>6 DEF told
  <1>10. CASE d = 0 /\ SameUpto(a, data, n)
    <2>1. SameUpto(a, b, n) /\ SameUpto(b, a, n)
      <3>1. \A i \in 1..n : i \in 1..m
        BY <1>1, <1>2, <1>5
      <3>. QED
        BY <1>3, <1>10, <3>1 DEF SameUpto
    <2>2. CASE Len(b) <= MinMaxSize
      <3>1. n = ab
        BY <1>1, <1>2, <1>7, <2>2
      <3>2. told = [order |-> IF Len(a) < Len(b) THEN -1
                              ELSE IF Len(a) > Len(b) THEN 1 ELSE 0,
                    exact |-> TRUE]
        BY <1>4, <1>10, <2>2
      <3>3. /\ Len(a) < Len(b) => Less(a, b)
            /\ Len(b) < Len(a) => Less(b, a)
        BY <1>8, <2>1, <3>1
      <3>4. ASSUME Len(a) = Len(b) PROVE a = b
        <4>1. \A i \in 1..Len(a) : a[i] = b[i]
          BY <1>1, <1>7, <2>1, <3>1, <3>4 DEF SameUpto
        <4>. QED
          BY <3>4, <4>1 DEF Text
      <3>5. CASE Len(a) < Len(b)
        BY <1>1, <3>2, <3>3, <3>5 DEF told
      <3>6. CASE Len(b) < Len(a)
        BY <1>1, <3>2, <3>3, <3>6 DEF told
      <3>7. CASE Len(a) = Len(b)
        BY <1>1, <3>2, <3>4, <3>7 DEF told
      <3>8. Len(a) < Len(b) \/ Len(b) < Len(a) \/ Len(a) = Len(b)
        BY <1>1
      <3>. QED
        BY <3>5, <3>6, <3>7, <3>8
    <2>3. CASE ~ (Len(b) <= MinMaxSize)
      <3>1. told = [order |-> IF Len(a) <= MinMaxSize THEN -1 ELSE 0,
                    exact |-> Len(a) <= MinMaxSize]
        BY <1>4, <1>10, <2>3
      <3>2. CASE Len(a) <= MinMaxSize
        <4>1. n = ab /\ Len(a) < Len(b)
          BY <1>1, <1>2, <1>7, <2>3, <3>2
        <4>2. Less(a, b)
          BY <1>8, <2>1, <4>1
        <4>3. told.order = -1
          BY <3>1, <3>2
        <4>. QED
          BY <2>3, <4>2, <4>3 DEF told
      <3>3. CASE ~ (Len(a) <= MinMaxSize)
        <4>1. told.order = 0 /\ ~told.exact
          BY <3>1, <3>3
        <4>. QED
          BY <2>3, <4>1 DEF told
      <3>. QED
        BY <3>2, <3>3
    <2>. QED
      BY <2>2, <2>3
  <1>. QED
    BY <1>6, <1>9, <1>10

-------------------------------------------------------------------------------
(* Sets of strings in order *)

TextOrder(S) == {p \in S \X S : Less(p[1], p[2])}

LEMMA TextsOrdered ==
    ASSUME NEW S, S \subseteq Text
    PROVE  /\ StrictOrder(TextOrder(S), S)
           /\ \A v \in S : Before(TextOrder(S), S, v) = {u \in S : Less(u, v)}
  <1>1. \A u, v \in S : <<u, v>> \in TextOrder(S) <=> Less(u, v)
    BY Zenon DEF TextOrder
  <1>2. \A u \in S : u \in Text
    OBVIOUS
  <1>3. StrictOrder(TextOrder(S), S)
    BY <1>1, <1>2, LessOrders, Zenon DEF StrictOrder
  <1>4. ASSUME NEW v \in S
        PROVE  Before(TextOrder(S), S, v) = {u \in S : Less(u, v)}
    BY <1>1, Zenon DEF Before
  <1>. QED
    BY <1>3, <1>4

LEMMA NotBefore ==
    \A u, v \in Text : /\ ~Less(u, v) <=> u = v \/ Less(v, u)
                       /\ Less(u, v) => ~Less(v, u)
  BY LessOrders, Zenon

(* The i-th end from the left, or the last. *)
LEMMA SlotRank ==
    ASSUME NEW S, S \subseteq Text, IsFiniteSet(S), S # {}, NEW i \in Nat \ {0}
    PROVE  /\ Slot(S, i) \in S
           /\ Cardinality({u \in S : Less(u, Slot(S, i))}) =
                  Least(i, Cardinality(S)) - 1
  <1>. DEFINE n == Cardinality(S)
              R == TextOrder(S)
              k == Least(i, n) - 1
  <1>1. n \in Nat /\ n # 0
    BY FS_CardinalityType, FS_EmptySet
  <1>2. k \in 0..(n - 1)
    BY <1>1 DEF Least
  <1>3. StrictOrder(R, S)
    BY TextsOrdered
  <1>4. \E v \in S : Cardinality(Before(R, S, v)) = k
    <2>. HIDE DEF k, R
    <2>. QED
      BY <1>2, <1>3, EveryRank
  <1>5. \A v \in S : /\ Before(R, S, v) = {u \in S : Less(u, v)}
                     /\ Cardinality(Before(R, S, v)) \in Int
    BY <1>3, TextsOrdered, BeforeBound
  <1>. DEFINE rank(v) == Cardinality({u \in S : Less(u, v)})
  <1>6. PICK v \in S : rank(v) = k
    BY <1>4, <1>5
  <1>7. \A u \in S : rank(u) \in Int
    BY <1>5
  <1>. HIDE DEF rank, n
  <1>8. \A u \in S : rank(u) + 1 = Least(i, n) <=> rank(u) = k
    BY <1>1, <1>7 DEF Least
  <1>9. Slot(S, i) = CHOOSE u \in S : rank(u) + 1 = Least(i, n)
    BY DEF Slot, rank, n
  <1>. HIDE DEF k
  <1>10. Slot(S, i) \in S /\ rank(Slot(S, i)) = k
    BY <1>6, <1>8, <1>9, Zenon
  <1>. QED
    BY <1>10 DEF rank, k, n

LEMMA SmallestIs ==
    ASSUME NEW S, S \subseteq Text, IsFiniteSet(S), S # {}
    PROVE  Smallest(S) \in S /\ \A w \in S : ~Less(w, Smallest(S))
  <1>1. StrictOrder(TextOrder(S), S)
    BY TextsOrdered
  <1>2. \E v \in S : \A u \in S : <<u, v>> \notin TextOrder(S)
    BY <1>1, FirstAndLast
  <1>3. \A u, v \in S : <<u, v>> \in TextOrder(S) <=> Less(u, v)
    BY Zenon DEF TextOrder
  <1>. QED
    BY <1>2, <1>3, Zenon DEF Smallest

LEMMA GreatestIs ==
    ASSUME NEW S, S \subseteq Text, IsFiniteSet(S), S # {}
    PROVE  Greatest(S) \in S /\ \A w \in S : ~Less(Greatest(S), w)
  <1>1. StrictOrder(TextOrder(S), S)
    BY TextsOrdered
  <1>2. \E v \in S : \A u \in S : <<v, u>> \notin TextOrder(S)
    BY <1>1, FirstAndLast
  <1>3. \A u, v \in S : <<u, v>> \in TextOrder(S) <=> Less(u, v)
    BY Zenon DEF TextOrder
  <1>. QED
    BY <1>2, <1>3, Zenon DEF Greatest

(* The next string of the vector. *)
LEMMA FollowingIs ==
    ASSUME NEW S, S \subseteq Text, IsFiniteSet(S), S # {},
           NEW v \in S, v # Greatest(S)
    PROVE  /\ Following(S, v) \in S
           /\ Less(v, Following(S, v))
           /\ \A w \in S : Less(v, w) => ~Less(w, Following(S, v))
  <1>. DEFINE T == {w \in S : Less(v, w)}
  <1>1. T \subseteq Text /\ IsFiniteSet(T)
    BY FS_Subset
  <1>2. Greatest(S) \in T
    <2>1. Greatest(S) \in S /\ ~Less(Greatest(S), v)
      BY GreatestIs
    <2>. QED
      BY <2>1, LessOrders
  <1>3. Smallest(T) \in T /\ \A w \in T : ~Less(w, Smallest(T))
    BY <1>1, <1>2, SmallestIs
  <1>4. \E u \in S : Less(v, u) /\ \A w \in S : Less(v, w) => ~Less(w, u)
    BY <1>3
  <1>. QED
    BY <1>4, Zenon DEF Following

-------------------------------------------------------------------------------
(* The folding into numbers.  Which number it is does not matter below. *)

Folding(f, string, n) ==
    IF n = 0 THEN 0
    ELSE (f[n - 1] * Radix
            + (IF 2 * string[n] >= Byte THEN string[n] - Byte ELSE string[n]))
         % Word

IsFolding(f, string) == f = [n \in 0..Len(string) |-> Folding(f, string, n)]

LEMMA FoldingInt ==
    ASSUME NEW string \in Text, NEW f \in [0..Len(string) -> Int]
    PROVE  \A n \in 0..Len(string) : Folding(f, string, n) \in Int
  <1>1. /\ Radix \in Int /\ Byte \in Int
        /\ Word \in Int /\ Word > 0
        /\ Len(string) \in Nat
        /\ \A i \in 1..Len(string) : string[i] \in Int
    BY StringAssumption, Chars
  <1>2. \A a, b \in Int : a * b \in Int /\ a + b \in Int /\ a % Word \in Int
    BY <1>1
  <1>3. ASSUME NEW n \in 1..Len(string)
        PROVE  Folding(f, string, n) \in Int
    <2>1. n - 1 \in 0..Len(string) /\ n # 0 /\ string[n] \in Int
      BY <1>1
    <2>2. f[n - 1] \in Int
      BY <2>1
    <2>. DEFINE c == IF 2 * string[n] >= Byte THEN string[n] - Byte ELSE string[n]
                p == f[n - 1] * Radix
    <2>3. c \in Int /\ p \in Int
      BY <1>1, <1>2, <2>1, <2>2
    <2>4. Folding(f, string, n) = (p + c) % Word
      BY <2>1 DEF Folding
    <2>. HIDE DEF c, p
    <2>. QED
      BY <1>2, <2>3, <2>4
  <1>4. Folding(f, string, 0) \in Int
    BY DEF Folding
  <1>. QED
    BY <1>1, <1>3, <1>4

LEMMA FoldingExists ==
    ASSUME NEW string \in Text
    PROVE  \E f \in [0..Len(string) -> Int] : IsFolding(f, string)
  <1>. DEFINE D == 0..Len(string)
              Upto(n, f) == /\ f \in [D -> Int]
                            /\ \A k \in D : k <= n => f[k] = Folding(f, string, k)
              Counter == {n \in Nat : ~ \E f : Upto(n, f)}
  <1>0. Len(string) \in Nat
    BY Chars
  <1>1. Upto(0, [k \in D |-> 0])
    BY <1>0 DEF Folding
  <1>2. ASSUME NEW n \in Nat, NEW f, Upto(n, f)
        PROVE  Upto(n + 1, [k \in D |-> Folding(f, string, k)])
    <2>. DEFINE g == [k \in D |-> Folding(f, string, k)]
    <2>1. f \in [D -> Int] /\ \A k \in D : k <= n => f[k] = g[k]
      BY <1>2
    <2>2. g \in [D -> Int]
      BY <2>1, FoldingInt
    <2>3. ASSUME NEW k \in D, k <= n + 1
          PROVE  g[k] = Folding(g, string, k)
      <3>1. k # 0 => k - 1 \in D /\ k - 1 <= n
        BY <1>0, <2>3
      <3>2. k # 0 => f[k - 1] = g[k - 1]
        <4>. HIDE DEF g
        <4>. QED
          BY <2>1, <3>1
      <3>3. Folding(f, string, k) = Folding(g, string, k)
        <4>. HIDE DEF g
        <4>. QED
          BY <3>2 DEF Folding
      <3>. QED
        BY <3>3
    <2>. QED
      BY <2>2, <2>3
  <1>3. \A n \in Nat : \E f : Upto(n, f)
    <2>1. SUFFICES ASSUME Counter # {} PROVE FALSE
      OBVIOUS
    <2>2. PICK n \in Counter : \A m \in Counter : n <= m
      BY <2>1, LeastNat
    <2>3. n # 0
      BY <1>1, <2>2
    <2>4. n - 1 \in Nat /\ n - 1 \notin Counter
      <3>1. Counter \subseteq Nat
        OBVIOUS
      <3>. HIDE DEF Counter
      <3>. QED
        BY <2>2, <2>3, <3>1
    <2>5. PICK f : Upto(n - 1, f)
      BY <2>4
    <2>6. Upto((n - 1) + 1, [k \in D |-> Folding(f, string, k)])
      BY <2>4, <2>5, <1>2, ZenonT(30)
    <2>7. (n - 1) + 1 = n
      BY <2>2
    <2>. HIDE DEF Upto
    <2>. QED
      BY <2>2, <2>6, <2>7
  <1>4. PICK f : Upto(Len(string), f)
    BY <1>0, <1>3
  <1>5. \A k \in D : f[k] = Folding(f, string, k)
    BY <1>0, <1>4
  <1>6. f = [k \in D |-> Folding(f, string, k)]
    BY <1>4, <1>5
  <1>. QED
    BY <1>4, <1>6 DEF IsFolding

(* StringToLong returns a number. *)
LEMMA LongInt ==
    ASSUME NEW string \in Text
    PROVE  StringToLong(string) \in Int
  <1>1. PICK g \in [0..Len(string) -> Int] : IsFolding(g, string)
    BY FoldingExists
  <1>. DEFINE res == CHOOSE f : IsFolding(f, string)
  <1>2. IsFolding(res, string)
    BY <1>1, Zenon
  <1>3. StringToLong(string) = res[Len(string)]
    BY Zenon DEF StringToLong, IsFolding, Folding
  <1>. HIDE DEF res
  <1>. DEFINE L == Len(string)
              Counter == {n \in Nat : n <= L /\ res[n] \notin Int}
  <1>4. L \in Nat
    BY Chars
  <1>5. \A n \in 0..L : res[n] = Folding(res, string, n)
    BY <1>2 DEF IsFolding
  <1>6. SUFFICES ASSUME Counter # {} PROVE FALSE
    BY <1>3, <1>4
  <1>7. PICK n \in Counter : \A m \in Counter : n <= m
    BY <1>6, LeastNat
  <1>8. n \in 0..L
    BY <1>4, <1>7
  <1>. DEFINE f == [k \in 0..L |-> IF res[k] \in Int THEN res[k] ELSE 0]
  <1>9. f \in [0..L -> Int]
    OBVIOUS
  <1>10. Folding(f, string, n) = Folding(res, string, n)
    <2>1. n # 0 => n - 1 \in 0..L /\ n - 1 \in Nat /\ n - 1 <= L /\ n - 1 \notin Counter
      BY <1>4, <1>7, <1>8
    <2>2. n # 0 => f[n - 1] = res[n - 1]
      BY <2>1
    <2>. HIDE DEF f
    <2>. QED
      BY <2>2 DEF Folding
  <1>11. Folding(f, string, n) \in Int
    BY <1>8, <1>9, FoldingInt
  <1>. QED
    BY <1>5, <1>7, <1>8, <1>10, <1>11

-------------------------------------------------------------------------------
(* The gaps chosen *)

(* There is a cluster more than there are gaps chosen, and there are no more
   than the arrays hold, whatever numbers the strings are folded into.        *)
LEMMA CutsBounded ==
    ASSUME NEW S, S \subseteq Text, IsFiniteSet(S), S # {}
    PROVE  /\ Cuts(S) \subseteq S \ {Greatest(S)}
           /\ IsFiniteSet(Cuts(S))
           /\ Cardinality(Cuts(S)) \in 0..(Slots - 1)
  <1>. DEFINE gaps == {l \in S \ {Greatest(S)} : Gap(S, l) # 0}
              before(l, m) == \/ Gap(S, l) > Gap(S, m)
                              \/ Gap(S, l) = Gap(S, m) /\ Less(m, l)
              R == {p \in gaps \X gaps : before(p[1], p[2])}
              first == {v \in gaps : Cardinality(Before(R, gaps, v)) < Slots - 1}
  <1>1. gaps \subseteq Text /\ IsFiniteSet(gaps) /\ gaps \subseteq S \ {Greatest(S)}
    BY FS_Subset
  <1>2. \A l \in gaps : Gap(S, l) \in Int
    <2>1. ASSUME NEW l \in gaps PROVE Gap(S, l) \in Int
      <3>1. l \in Text /\ Following(S, l) \in Text
        BY <1>1, FollowingIs
      <3>. DEFINE p == StringToLong(Following(S, l)) - StringToLong(l)
      <3>2. p \in Int /\ Gap(S, l) = p % Word
        BY <3>1, LongInt DEF Gap
      <3>. HIDE DEF p
      <3>3. p % Word \in Int
        BY <3>2, StringAssumption
      <3>. QED
        BY <3>2, <3>3
    <2>. QED
      BY <2>1
  <1>3. \A u, v \in gaps : <<u, v>> \in R <=> before(u, v)
    BY Zenon
  <1>4. StrictOrder(R, gaps)
    <2>. HIDE DEF gaps, R
    <2>1. \A a \in gaps : a \in Text
      BY <1>1
    <2>2. \A a \in gaps : ~before(a, a)
      BY <1>2, <2>1, LessOrders
    <2>3. \A a, b, c \in gaps : before(a, b) /\ before(b, c) => before(a, c)
      <3>1. ASSUME NEW a \in gaps, NEW b \in gaps, NEW c \in gaps,
                   before(a, b), before(b, c)
            PROVE  before(a, c)
        <4>1. Gap(S, a) \in Int /\ Gap(S, b) \in Int /\ Gap(S, c) \in Int
          BY <1>2
        <4>2. Less(c, b) /\ Less(b, a) => Less(c, a)
          BY <2>1, LessOrders
        <4>. QED
          BY <3>1, <4>1, <4>2
      <3>. QED
        BY <3>1
    <2>4. \A a, b \in gaps : a = b \/ before(a, b) \/ before(b, a)
      <3>1. ASSUME NEW a \in gaps, NEW b \in gaps
            PROVE  a = b \/ before(a, b) \/ before(b, a)
        <4>1. Gap(S, a) \in Int /\ Gap(S, b) \in Int
          BY <1>2
        <4>2. a = b \/ Less(a, b) \/ Less(b, a)
          BY <2>1, LessOrders
        <4>. QED
          BY <4>1, <4>2
      <3>. QED
        BY <3>1
    <2>. HIDE DEF before
    <2>. QED
      BY <1>3, <2>2, <2>3, <2>4 DEF StrictOrder
  <1>5. Slots - 1 \in Nat
    BY StringAssumption
  <1>6. IsFiniteSet(first) /\ Cardinality(first) <= Slots - 1
    <2>. HIDE DEF gaps, R
    <2>. QED
      BY <1>1, <1>4, <1>5, FirstRanks
  <1>7. \A v \in gaps : Before(R, gaps, v) = {m \in gaps : before(m, v)}
    <2>. HIDE DEF gaps, R, before
    <2>. QED
      BY <1>3, Zenon DEF Before
  <1>8. Cuts(S) = {l \in gaps : Cardinality({m \in gaps : before(m, l)}) < Slots - 1}
    BY Zenon DEF Cuts
  <1>9. Cuts(S) = first
    <2>. HIDE DEF gaps, R, before
    <2>. QED
      BY <1>7, <1>8
  <1>10. first \subseteq gaps
    OBVIOUS
  <1>11. Cardinality(Cuts(S)) \in Nat
    BY <1>6, <1>9, FS_CardinalityType
  <1>. HIDE DEF gaps, first
  <1>. QED
    BY <1>1, <1>5, <1>6, <1>9, <1>10, <1>11

-------------------------------------------------------------------------------
(* The clusters *)

(* The smallest string and those that follow some others: one more than these. *)
LEMMA FollowersCount ==
    ASSUME NEW S, S \subseteq Text, IsFiniteSet(S), S # {},
           NEW T, T \subseteq S \ {Greatest(S)}
    PROVE  LET after == {Smallest(S)} \cup {Following(S, l) : l \in T}
           IN  /\ after \subseteq S
               /\ IsFiniteSet(after)
               /\ Cardinality(after) = Cardinality(T) + 1
  <1>. DEFINE F == {Following(S, l) : l \in T}
              f == [l \in T |-> Following(S, l)]
  <1>1. \A l \in T : /\ l \in S /\ Following(S, l) \in S
                     /\ Less(l, Following(S, l))
                     /\ \A w \in S : Less(l, w) => ~Less(w, Following(S, l))
    <2>1. \A l \in T : l \in S /\ l # Greatest(S)
      OBVIOUS
    <2>. QED
      BY <2>1, FollowingIs
  <1>2. IsFiniteSet(T)
    <2>1. T \in SUBSET S
      OBVIOUS
    <2>. QED
      BY <2>1, FS_Subset
  <1>3. f \in Surjection(T, F)
    BY Zenon DEF Surjection
  <1>4. f \in Injection(T, F)
    <2>1. \A l, m \in T : Following(S, l) = Following(S, m) => ~Less(l, m)
      BY <1>1
    <2>2. \A l, m \in T : Following(S, l) = Following(S, m) => l = m
      <3>1. \A l, m \in T : l = m \/ Less(l, m) \/ Less(m, l)
        BY <1>1, LessOrders
      <3>. QED
        BY <2>1, <3>1, Zenon
    <2>3. f \in [T -> F]
      BY Zenon
    <2>4. \A l, m \in T : f[l] = f[m] => l = m
      BY <2>2, Zenon
    <2>. HIDE DEF f, F
    <2>. QED
      BY <2>3, <2>4, Zenon DEF Injection, IsInjective
  <1>5. IsFiniteSet(F) /\ Cardinality(F) = Cardinality(T)
    <2>. HIDE DEF f, F
    <2>. QED
      BY <1>2, <1>3, <1>4, FS_Surjection
  <1>6. Smallest(S) \in S /\ \A w \in S : ~Less(w, Smallest(S))
    BY SmallestIs
  <1>7. F \subseteq S
    BY <1>1
  <1>8. Smallest(S) \notin F
    BY <1>1, <1>6
  <1>9. {Smallest(S)} \cup F = F \cup {Smallest(S)}
    OBVIOUS
  <1>. HIDE DEF F
  <1>10. /\ IsFiniteSet({Smallest(S)} \cup F)
         /\ Cardinality({Smallest(S)} \cup F) = Cardinality(T) + 1
    BY <1>5, <1>8, <1>9, FS_AddElement
  <1>. QED
    BY <1>6, <1>7, <1>10 DEF F

(* As many clusters start as end, and the slots are enough. *)
LEMMA AsManyEnds ==
    ASSUME NEW S, S \subseteq Text, IsFiniteSet(S), S # {}
    PROVE  /\ Starts(S) \subseteq S /\ IsFiniteSet(Starts(S)) /\ Starts(S) # {}
           /\ Ends(S) \subseteq S /\ IsFiniteSet(Ends(S)) /\ Ends(S) # {}
           /\ Cardinality(Starts(S)) = Cardinality(Ends(S))
           /\ Cardinality(Ends(S)) \in 1..Slots
  <1>1. /\ Cuts(S) \subseteq S \ {Greatest(S)}
        /\ IsFiniteSet(Cuts(S))
        /\ Cardinality(Cuts(S)) \in 0..(Slots - 1)
    BY CutsBounded
  <1>2. /\ Starts(S) \subseteq S /\ IsFiniteSet(Starts(S))
        /\ Cardinality(Starts(S)) = Cardinality(Cuts(S)) + 1
    <2>1. \A T : T \subseteq S \ {Greatest(S)} =>
             LET after == {Smallest(S)} \cup {Following(S, l) : l \in T}
             IN  /\ after \subseteq S
                 /\ IsFiniteSet(after)
                 /\ Cardinality(after) = Cardinality(T) + 1
      BY FollowersCount
    <2>. QED
      BY <1>1, <2>1, Zenon DEF Starts
  <1>3. Greatest(S) \in S
    BY GreatestIs
  <1>4. Ends(S) \subseteq S /\ Ends(S) # {} /\ Starts(S) # {}
    BY <1>1, <1>3 DEF Ends, Starts
  <1>5. Greatest(S) \notin Cuts(S)
    BY <1>1
  <1>6. IsFiniteSet(Ends(S)) /\ Cardinality(Ends(S)) = Cardinality(Cuts(S)) + 1
    BY <1>1, <1>5, FS_AddElement DEF Ends
  <1>. QED
    BY <1>1, <1>2, <1>4, <1>6, StringAssumption

(* Up to a string of the vector one cluster more has started than has ended. *)
LEMMA OneMoreStarted ==
    ASSUME NEW S, S \subseteq Text, IsFiniteSet(S), S # {}, NEW v \in S
    PROVE  /\ IsFiniteSet({s \in Starts(S) : ~Less(v, s)})
           /\ IsFiniteSet({e \in Ends(S) : Less(e, v)})
           /\ Cardinality({e \in Ends(S) : Less(e, v)}) \in Nat
           /\ Cardinality({s \in Starts(S) : ~Less(v, s)}) =
                  Cardinality({e \in Ends(S) : Less(e, v)}) + 1
  <1>. DEFINE T == {l \in Cuts(S) : Less(l, v)}
              after == {Smallest(S)} \cup {Following(S, l) : l \in T}
  <1>1. Cuts(S) \subseteq S \ {Greatest(S)} /\ IsFiniteSet(Cuts(S))
    BY CutsBounded
  <1>2. Greatest(S) \in S /\ \A w \in S : ~Less(Greatest(S), w)
    BY GreatestIs
  <1>3. Smallest(S) \in S /\ \A w \in S : ~Less(w, Smallest(S))
    BY SmallestIs
  <1>4. \A l \in Cuts(S) : /\ l \in S /\ Following(S, l) \in S
                           /\ Less(l, Following(S, l))
                           /\ Less(l, v) => ~Less(v, Following(S, l))
    <2>1. \A l \in Cuts(S) : l \in S /\ l # Greatest(S)
      BY <1>1
    <2>. QED
      BY <2>1, FollowingIs
  <1>5. {e \in Ends(S) : Less(e, v)} = T
    BY <1>2 DEF Ends
  <1>6. {s \in Starts(S) : ~Less(v, s)} = after
    <2>1. \A l \in Cuts(S) : ~Less(v, Following(S, l)) => Less(l, v)
      BY <1>4, LessOrders
    <2>2. \A s \in {s \in Starts(S) : ~Less(v, s)} : s \in after
      BY <2>1 DEF Starts
    <2>3. \A s \in after : s \in Starts(S) /\ ~Less(v, s)
      BY <1>3, <1>4 DEF Starts
    <2>. QED
      BY <2>2, <2>3
  <1>7. T \subseteq S \ {Greatest(S)}
    BY <1>1
  <1>8. T \in SUBSET Cuts(S)
    OBVIOUS
  <1>9. IsFiniteSet(T) /\ Cardinality(T) \in Nat
    <2>. HIDE DEF T
    <2>. QED
      BY <1>1, <1>8, FS_Subset, FS_CardinalityType
  <1>10. IsFiniteSet(after) /\ Cardinality(after) = Cardinality(T) + 1
    <2>. HIDE DEF T
    <2>. QED
      BY <1>7, FollowersCount, SMTT(30)
  <1>. HIDE DEF T, after
  <1>. QED
    BY <1>5, <1>6, <1>9, <1>10

(* No string of the vector is outside all clusters. *)
LEMMA NoneLeftOut ==
    ASSUME NEW S, S \subseteq Text, IsFiniteSet(S), S # {}, NEW v \in S
    PROVE  \E i \in 1..Slots : /\ ~Less(v, Slot(Starts(S), i))
                               /\ ~Less(Slot(Ends(S), i), v)
  <1>. DEFINE started == {s \in Starts(S) : ~Less(v, s)}
              ended == {e \in Ends(S) : Less(e, v)}
              k == Cardinality(started)
              s0 == Slot(Starts(S), k)
              e0 == Slot(Ends(S), k)
  <1>1. /\ Starts(S) \subseteq S /\ IsFiniteSet(Starts(S)) /\ Starts(S) # {}
        /\ Ends(S) \subseteq S /\ IsFiniteSet(Ends(S)) /\ Ends(S) # {}
        /\ Cardinality(Starts(S)) = Cardinality(Ends(S))
        /\ Cardinality(Ends(S)) \in 1..Slots
    BY AsManyEnds
  <1>2. /\ IsFiniteSet(started) /\ IsFiniteSet(ended)
        /\ Cardinality(ended) \in Nat
        /\ k = Cardinality(ended) + 1
    BY OneMoreStarted
  <1>3. started \in SUBSET Starts(S)
    OBVIOUS
  <1>4. k <= Cardinality(Starts(S))
    <2>. HIDE DEF started
    <2>. QED
      BY <1>1, <1>3, FS_Subset
  <1>. HIDE DEF k
  <1>5. k \in Nat \ {0} /\ k \in 1..Slots
    BY <1>1, <1>2, <1>4, StringAssumption
  <1>6. Least(k, Cardinality(Starts(S))) = k
    BY <1>1, <1>2, <1>4 DEF Least
  <1>7. Starts(S) \subseteq Text /\ Ends(S) \subseteq Text
    BY <1>1
  <1>8. s0 \in Starts(S) /\ Cardinality({u \in Starts(S) : Less(u, s0)}) = k - 1
    BY <1>1, <1>5, <1>6, <1>7, SlotRank
  <1>9. e0 \in Ends(S) /\ Cardinality({u \in Ends(S) : Less(u, e0)}) = k - 1
    BY <1>1, <1>5, <1>6, <1>7, SlotRank
  <1>. HIDE DEF s0, e0
  <1>10. s0 \in Text /\ e0 \in Text /\ v \in Text
    BY <1>7, <1>8, <1>9
  <1>11. ASSUME Less(v, s0) PROVE FALSE
    <2>. DEFINE under == {u \in Starts(S) : Less(u, s0)}
    <2>1. ASSUME NEW u \in started PROVE u \in under
      <3>1. u \in Text /\ ~Less(v, u)
        BY <1>7
      <3>2. Less(u, s0)
        BY <1>10, <1>11, <3>1, LessOrders
      <3>. QED
        BY <3>2
    <2>2. started \in SUBSET under /\ under \in SUBSET Starts(S)
      BY <2>1
    <2>. HIDE DEF started, under
    <2>3. IsFiniteSet(under)
      BY <1>1, <2>2, FS_Subset
    <2>4. k <= Cardinality(under)
      BY <2>2, <2>3, FS_Subset DEF k
    <2>. QED
      BY <1>5, <1>8, <2>4 DEF under
  <1>12. ASSUME Less(e0, v) PROVE FALSE
    <2>. DEFINE under == {u \in Ends(S) : Less(u, e0)}
    <2>1. ASSUME NEW u \in under PROVE u \in ended \ {e0}
      <3>1. u \in Text /\ Less(u, e0)
        BY <1>7
      <3>2. Less(u, v) /\ u # e0
        BY <1>10, <1>12, <3>1, LessOrders
      <3>. QED
        BY <3>2
    <2>2. under \in SUBSET (ended \ {e0}) /\ e0 \in ended
      BY <1>9, <1>12, <2>1
    <2>. HIDE DEF ended, under
    <2>3. IsFiniteSet(ended \ {e0}) /\ Cardinality(ended \ {e0}) = Cardinality(ended) - 1
      BY <1>2, <2>2, FS_RemoveElement
    <2>4. Cardinality(under) <= Cardinality(ended) - 1
      BY <2>2, <2>3, FS_Subset
    <2>. QED
      BY <1>2, <1>9, <2>4 DEF under
  <1>. QED
    BY <1>5, <1>11, <1>12 DEF s0, e0

(* Each cluster ends before the next one starts, or the next repeats it. *)
LEMMA ClustersApart ==
    ASSUME NEW S, S \subseteq Text, IsFiniteSet(S), S # {}, NEW i \in 1..(Slots - 1)
    PROVE  \/ /\ Slot(Starts(S), i + 1) = Slot(Starts(S), i)
              /\ Slot(Ends(S), i + 1) = Slot(Ends(S), i)
           \/ Less(Slot(Ends(S), i), Slot(Starts(S), i + 1))
  <1>1. /\ Starts(S) \subseteq S /\ IsFiniteSet(Starts(S)) /\ Starts(S) # {}
        /\ Ends(S) \subseteq S /\ IsFiniteSet(Ends(S)) /\ Ends(S) # {}
        /\ Cardinality(Starts(S)) = Cardinality(Ends(S))
        /\ Cardinality(Ends(S)) \in 1..Slots
    BY AsManyEnds
  <1>2. Starts(S) \subseteq Text /\ Ends(S) \subseteq Text
    BY <1>1
  <1>. DEFINE n == Cardinality(Ends(S))
              j == i + 1
  <1>3. i \in Nat \ {0} /\ j \in Nat \ {0} /\ Slots \in Nat
    BY StringAssumption
  <1>4. CASE n <= i
    <2>1. Least(i, n) = n /\ Least(i + 1, n) = n
      BY <1>1, <1>3, <1>4 DEF Least
    <2>. QED
      BY <1>1, <2>1 DEF Slot
  <1>5. CASE i < n
    <2>. DEFINE s0 == Slot(Starts(S), j)
                e0 == Slot(Ends(S), i)
                started == {s \in Starts(S) : ~Less(e0, s)}
                under == {u \in Starts(S) : Less(u, s0)}
    <2>1. Least(i, n) = i /\ Least(j, n) = j
      BY <1>1, <1>3, <1>5 DEF Least
    <2>. HIDE DEF j
    <2>2. e0 \in Ends(S) /\ Cardinality({u \in Ends(S) : Less(u, e0)}) = i - 1
      BY <1>1, <1>2, <1>3, <2>1, SlotRank
    <2>3. s0 \in Starts(S) /\ Cardinality(under) = j - 1
      BY <1>1, <1>2, <1>3, <2>1, SlotRank
    <2>. HIDE DEF e0, s0
    <2>4. e0 \in S
      BY <1>1, <2>2
    <2>5. IsFiniteSet(started) /\ Cardinality(started) = (i - 1) + 1
      BY <2>2, <2>4, OneMoreStarted
    <2>6. ASSUME ~Less(e0, s0) PROVE FALSE
      <3>1. ASSUME NEW u \in under PROVE u \in started \ {s0}
        <4>1. u \in Text /\ s0 \in Text /\ e0 \in Text /\ Less(u, s0)
          BY <1>2, <2>2, <2>3
        <4>2. ~Less(e0, u) /\ u # s0
          BY <2>6, <4>1, LessOrders
        <4>. QED
          BY <4>2
      <3>2. under \in SUBSET (started \ {s0}) /\ s0 \in started
        BY <2>3, <2>6, <3>1
      <3>. HIDE DEF under, started
      <3>3. IsFiniteSet(started \ {s0})
            /\ Cardinality(started \ {s0}) = Cardinality(started) - 1
        BY <2>5, <3>2, FS_RemoveElement
      <3>4. Cardinality(under) <= Cardinality(started) - 1
        BY <3>2, <3>3, FS_Subset
      <3>. QED
        BY <1>3, <2>3, <2>5, <3>4 DEF j
    <2>. QED
      BY <2>6 DEF e0, s0, j
  <1>. QED
    BY <1>1, <1>3, <1>4, <1>5

-------------------------------------------------------------------------------
(* The life of one statistic *)

LEMMA StringsAreTexts == String \subseteq Text
  BY StringAssumption DEF Text, Char

(* The inductive invariant: the ends are those of the strings they were made
   from.                                                                      *)
IInv ==
    /\ temp \in Seq(String) /\ held \in Seq(String)
    /\ built \in BOOLEAN
    /\ built => min = MinValues(Range(held)) /\ max = MaxValues(Range(held))

(* The statistic is made from all the strings that were collected, once, and
   never touched again: appending after InitStats is not part of it.          *)
LEMMA ConstructedFromHeld == Spec => []IInv
  <1>1. Init => IInv
    <2>1. <<>> \in Seq(String)
      BY EmptySeq
    <2>. QED
      BY <2>1 DEF Init, IInv
  <1>2. IInv /\ [Next]_vars => IInv'
    <2>. SUFFICES ASSUME IInv, [Next]_vars PROVE IInv'
      OBVIOUS
    <2>1. ASSUME NEW value \in String, AppendTempString(value) PROVE IInv'
      <3>1. Append(temp, value) \in Seq(String)
        BY AppendProperties DEF IInv
      <3>. QED
        BY <2>1, <3>1 DEF IInv, AppendTempString
    <2>2. CASE InitStats
      BY <2>2 DEF IInv, InitStats
    <2>3. CASE UNCHANGED vars
      BY <2>3 DEF IInv, vars
    <2>. QED
      BY <2>1, <2>2, <2>3 DEF Next
  <1>. QED
    BY <1>1, <1>2, PTL DEF Spec

LEMMA HeldTexts ==
    ASSUME IInv
    PROVE  /\ Range(held) \subseteq Text /\ IsFiniteSet(Range(held))
           /\ held # <<>> <=> Range(held) # {}
  <1>1. Len(held) \in Nat /\ DOMAIN held = 1..Len(held)
        /\ \A i \in 1..Len(held) : held[i] \in String
    BY DEF IInv
  <1>2. Range(held) = {held[i] : i \in 1..Len(held)}
    BY <1>1, Zenon DEF Range
  <1>3. IsFiniteSet(1..Len(held))
    BY <1>1, FS_Interval
  <1>4. IsFiniteSet({held[i] : i \in 1..Len(held)})
    <2>. DEFINE f == [i \in 1..Len(held) |-> held[i]]
                T == {held[i] : i \in 1..Len(held)}
    <2>1. f \in Surjection(1..Len(held), T)
      BY Zenon DEF Surjection
    <2>. HIDE DEF f, T
    <2>2. IsFiniteSet(T)
      BY <1>3, <2>1, FS_Surjection
    <2>. QED
      BY <2>2 DEF T
  <1>5. /\ held # <<>> => 1 \in 1..Len(held)
        /\ held = <<>> => 1..Len(held) = {}
    BY EmptySeq DEF IInv
  <1>. QED
    BY <1>1, <1>2, <1>4, <1>5, StringsAreTexts

(* The two ends of a cluster are prefixes of strings of the vector. *)
LEMMA EndsHeld ==
    ASSUME IInv, built, held # <<>>, NEW i \in 1..Slots
    PROVE  /\ min[i] = ConstructValue(Slot(Starts(Range(held)), i))
           /\ max[i] = ConstructValue(Slot(Ends(Range(held)), i))
           /\ Slot(Starts(Range(held)), i) \in Range(held)
           /\ Slot(Ends(Range(held)), i) \in Range(held)
  <1>. DEFINE S == Range(held)
  <1>1. S \subseteq Text /\ IsFiniteSet(S) /\ S # {}
    BY HeldTexts
  <1>2. min = MinValues(S) /\ max = MaxValues(S)
    BY DEF IInv
  <1>. HIDE DEF S
  <1>3. min[i] = ConstructValue(Slot(Starts(S), i))
    BY <1>1, <1>2 DEF MinValues
  <1>4. max[i] = ConstructValue(Slot(Ends(S), i))
    BY <1>1, <1>2 DEF MaxValues
  <1>5. /\ Starts(S) \subseteq S /\ IsFiniteSet(Starts(S)) /\ Starts(S) # {}
        /\ Ends(S) \subseteq S /\ IsFiniteSet(Ends(S)) /\ Ends(S) # {}
    BY <1>1, AsManyEnds
  <1>6. i \in Nat \ {0} /\ Starts(S) \subseteq Text /\ Ends(S) \subseteq Text
    BY <1>1, <1>5, StringAssumption
  <1>7. Slot(Starts(S), i) \in Starts(S) /\ Slot(Ends(S), i) \in Ends(S)
    BY <1>5, <1>6, SlotRank
  <1>. QED
    BY <1>3, <1>4, <1>5, <1>7 DEF S

(* A query that rules out the cluster of a string does not want the string. *)
LEMMA ClusterExcludes ==
    ASSUME NEW low \in Text, NEW high \in Text, NEW v \in Text,
           ~Less(v, low), ~Less(high, v),
           NEW i, min[i] = ConstructValue(low), max[i] = ConstructValue(high),
           NEW comparison \in Comparison, NEW constant \in Text,
           QueryInner(i, comparison, constant)
    PROVE  ~Satisfies(v, comparison, constant)
  <1>. DEFINE minComp == StringValueComparison(constant, min[i])
              maxComp == StringValueComparison(constant, max[i])
  <1>1. /\ minComp.order \in {-1, 0, 1}
        /\ minComp.order = -1 => Less(constant, low)
        /\ minComp.order = 0 /\ minComp.exact => constant = low
    BY ComparisonSound, ZenonT(30)
  <1>2. /\ maxComp.order \in {-1, 0, 1}
        /\ maxComp.order = 1 => Less(high, constant)
        /\ maxComp.order = 0 /\ maxComp.exact => constant = high
    BY ComparisonSound
  <1>3. \/ comparison = "EQUAL" /\ (minComp.order < 0 \/ maxComp.order > 0)
        \/ /\ comparison = "NOTEQUAL"
           /\ minComp = [order |-> 0, exact |-> TRUE]
           /\ maxComp = [order |-> 0, exact |-> TRUE]
        \/ /\ comparison \in {"GREATERTHANOREQUALTO", "GREATERTHAN"}
           /\ maxComp.order > 0
        \/ /\ comparison \in {"LESSTHANOREQUALTO", "LESSTHAN"}
           /\ minComp.order < 0
    BY Zenon DEF QueryInner
  <1>. HIDE DEF minComp, maxComp
  <1>4. minComp.order < 0 => Less(constant, v)
    <2>1. minComp.order < 0 => Less(constant, low)
      BY <1>1
    <2>. QED
      BY <2>1, LessOrders
  <1>5. maxComp.order > 0 => Less(v, constant)
    <2>1. maxComp.order > 0 => Less(high, constant)
      BY <1>2
    <2>. QED
      BY <2>1, LessOrders
  <1>6. CASE comparison = "EQUAL" /\ (minComp.order < 0 \/ maxComp.order > 0)
    BY <1>4, <1>5, <1>6, LessOrders DEF Satisfies
  <1>7. CASE /\ comparison = "NOTEQUAL"
             /\ minComp = [order |-> 0, exact |-> TRUE]
             /\ maxComp = [order |-> 0, exact |-> TRUE]
    <2>1. constant = low /\ constant = high
      BY <1>1, <1>2, <1>7
    <2>2. v = constant
      BY <2>1, LessOrders
    <2>. QED
      BY <1>7, <2>2 DEF Satisfies
  <1>8. CASE /\ comparison \in {"GREATERTHANOREQUALTO", "GREATERTHAN"}
             /\ maxComp.order > 0
    BY <1>5, <1>8, LessOrders DEF Satisfies
  <1>9. CASE /\ comparison \in {"LESSTHANOREQUALTO", "LESSTHAN"}
             /\ minComp.order < 0
    BY <1>4, <1>9, LessOrders DEF Satisfies
  <1>. QED
    BY <1>3, <1>6, <1>7, <1>8, <1>9

LEMMA PruneSound ==
    ASSUME IInv PROVE NoFalsePrune
  <1>. SUFFICES ASSUME NEW comparison \in Comparison, NEW constant \in String,
                       Query(comparison, constant),
                       NEW v \in Matching(comparison, constant)
                PROVE  FALSE
    BY Zenon DEF NoFalsePrune
  <1>. DEFINE S == Range(held)
  <1>1. v \in S /\ Satisfies(v, comparison, constant)
    BY DEF Matching
  <1>2. S \subseteq Text /\ IsFiniteSet(S) /\ S # {}
    BY <1>1, HeldTexts
  <1>3. built /\ \A i \in 1..Slots : QueryInner(i, comparison, constant)
    BY DEF Query
  <1>4. held # <<>>
    BY <1>2, HeldTexts
  <1>5. PICK i \in 1..Slots : /\ ~Less(v, Slot(Starts(S), i))
                              /\ ~Less(Slot(Ends(S), i), v)
    BY <1>1, <1>2, NoneLeftOut
  <1>6. /\ min[i] = ConstructValue(Slot(Starts(S), i))
        /\ max[i] = ConstructValue(Slot(Ends(S), i))
        /\ Slot(Starts(S), i) \in S /\ Slot(Ends(S), i) \in S
    BY <1>3, <1>4, EndsHeld
  <1>. DEFINE low == Slot(Starts(S), i)
              high == Slot(Ends(S), i)
  <1>7. low \in Text /\ high \in Text /\ v \in Text /\ constant \in Text
    BY <1>1, <1>2, <1>6, StringsAreTexts
  <1>8. QueryInner(i, comparison, constant)
    BY <1>3
  <1>9. /\ ~Less(v, low) /\ ~Less(high, v)
        /\ min[i] = ConstructValue(low) /\ max[i] = ConstructValue(high)
    BY <1>5, <1>6
  <1>. HIDE DEF low, high
  <1>10. ~Satisfies(v, comparison, constant)
    BY <1>7, <1>8, <1>9, ClusterExcludes
  <1>. QED
    BY <1>1, <1>10

(* For a constant above all strings of the vector, or below all of them, the
   short ends of a cluster are told exactly, and the cluster is ruled out.    *)
LEMMA ShortExcludes ==
    ASSUME NEW low \in Text, NEW high \in Text, NEW constant \in Text,
           Len(low) <= MinMaxSize, Len(high) <= MinMaxSize,
           NEW i, min[i] = ConstructValue(low), max[i] = ConstructValue(high)
    PROVE  /\ Less(high, constant) => QueryInner(i, "GREATERTHANOREQUALTO", constant)
           /\ Less(constant, low) => QueryInner(i, "LESSTHANOREQUALTO", constant)
  <1>. DEFINE minComp == StringValueComparison(constant, min[i])
              maxComp == StringValueComparison(constant, max[i])
  <1>1. /\ minComp.order \in {-1, 0, 1} /\ minComp.exact
        /\ minComp.order = 1 => Less(low, constant)
        /\ minComp.order = 0 /\ minComp.exact => constant = low
    BY ComparisonSound
  <1>2. /\ maxComp.order \in {-1, 0, 1} /\ maxComp.exact
        /\ maxComp.order = -1 => Less(constant, high)
        /\ maxComp.order = 0 /\ maxComp.exact => constant = high
    BY ComparisonSound
  <1>3. /\ maxComp.order > 0 => QueryInner(i, "GREATERTHANOREQUALTO", constant)
        /\ minComp.order < 0 => QueryInner(i, "LESSTHANOREQUALTO", constant)
    BY Zenon DEF QueryInner
  <1>. HIDE DEF minComp, maxComp
  <1>4. ASSUME Less(high, constant) PROVE maxComp.order > 0
    <2>1. ~Less(constant, high) /\ constant # high
      BY <1>4, LessOrders
    <2>2. maxComp.order = 1
      BY <1>2, <2>1
    <2>. QED
      BY <2>2
  <1>5. ASSUME Less(constant, low) PROVE minComp.order < 0
    <2>1. ~Less(low, constant) /\ constant # low
      BY <1>5, LessOrders
    <2>2. minComp.order = -1
      BY <1>1, <2>1
    <2>. QED
      BY <2>2
  <1>. QED
    BY <1>3, <1>4, <1>5

LEMMA ShortSound ==
    ASSUME IInv PROVE ShortStringsExact
  <1>. DEFINE S == Range(held)
  <1>. SUFFICES ASSUME built, held # <<>>, \A v \in S : Len(v) <= MinMaxSize,
                       NEW constant \in String
                PROVE  /\ Query("GREATERTHANOREQUALTO", constant) <=>
                              Matching("GREATERTHANOREQUALTO", constant) = {}
                       /\ Query("LESSTHANOREQUALTO", constant) <=>
                              Matching("LESSTHANOREQUALTO", constant) = {}
    BY Zenon DEF ShortStringsExact
  <1>1. S \subseteq Text /\ constant \in Text
    BY HeldTexts, StringsAreTexts
  <1>2. /\ Query("GREATERTHANOREQUALTO", constant) =>
               Matching("GREATERTHANOREQUALTO", constant) = {}
        /\ Query("LESSTHANOREQUALTO", constant) =>
               Matching("LESSTHANOREQUALTO", constant) = {}
    <2>1. {"GREATERTHANOREQUALTO", "LESSTHANOREQUALTO"} \subseteq Comparison
      BY DEF Comparison
    <2>. QED
      BY <2>1, PruneSound DEF NoFalsePrune
  <1>3. ASSUME NEW i \in 1..Slots
        PROVE  /\ Matching("GREATERTHANOREQUALTO", constant) = {} =>
                      QueryInner(i, "GREATERTHANOREQUALTO", constant)
               /\ Matching("LESSTHANOREQUALTO", constant) = {} =>
                      QueryInner(i, "LESSTHANOREQUALTO", constant)
    <2>. DEFINE low == Slot(Starts(S), i)
                high == Slot(Ends(S), i)
    <2>1. /\ min[i] = ConstructValue(low) /\ max[i] = ConstructValue(high)
          /\ low \in S /\ high \in S
      BY EndsHeld
    <2>. HIDE DEF low, high
    <2>2. /\ low \in Text /\ high \in Text
          /\ Len(low) <= MinMaxSize /\ Len(high) <= MinMaxSize
      BY <1>1, <2>1
    <2>3. ASSUME Matching("GREATERTHANOREQUALTO", constant) = {}
          PROVE  Less(high, constant)
      <3>1. ~Satisfies(high, "GREATERTHANOREQUALTO", constant)
        BY <2>1, <2>3 DEF Matching
      <3>2. ~Less(constant, high) /\ high # constant
        BY <3>1 DEF Satisfies
      <3>. QED
        BY <1>1, <2>2, <3>2, LessOrders
    <2>4. ASSUME Matching("LESSTHANOREQUALTO", constant) = {}
          PROVE  Less(constant, low)
      <3>1. ~Satisfies(low, "LESSTHANOREQUALTO", constant)
        BY <2>1, <2>4 DEF Matching
      <3>2. ~Less(low, constant) /\ low # constant
        BY <3>1 DEF Satisfies
      <3>. QED
        BY <1>1, <2>2, <3>2, LessOrders
    <2>. QED
      BY <1>1, <2>1, <2>2, <2>3, <2>4, ShortExcludes
  <1>. QED
    BY <1>2, <1>3 DEF Query

LEMMA OrderSound ==
    ASSUME IInv PROVE ClustersOrdered
  <1>. DEFINE S == Range(held)
  <1>. SUFFICES ASSUME built, held # <<>>, NEW i \in 1..(Slots - 1)
                PROVE  \/ min[i + 1] = min[i] /\ max[i + 1] = max[i]
                       \/ Less(Slot(Ends(S), i), Slot(Starts(S), i + 1))
    BY Zenon DEF ClustersOrdered
  <1>1. S \subseteq Text /\ IsFiniteSet(S) /\ S # {}
    BY HeldTexts
  <1>2. i \in 1..Slots /\ i + 1 \in 1..Slots
    BY StringAssumption
  <1>3. /\ min[i] = ConstructValue(Slot(Starts(S), i))
        /\ max[i] = ConstructValue(Slot(Ends(S), i))
    BY <1>2, EndsHeld
  <1>. DEFINE j == i + 1
  <1>4. /\ min[j] = ConstructValue(Slot(Starts(S), j))
        /\ max[j] = ConstructValue(Slot(Ends(S), j))
    <2>1. j \in 1..Slots
      BY <1>2
    <2>. HIDE DEF j, S
    <2>. QED
      BY <2>1, EndsHeld DEF S
  <1>. HIDE DEF S
  <1>5. \/ /\ Slot(Starts(S), j) = Slot(Starts(S), i)
           /\ Slot(Ends(S), j) = Slot(Ends(S), i)
        \/ Less(Slot(Ends(S), i), Slot(Starts(S), j))
    BY <1>1, ClustersApart
  <1>. HIDE DEF j
  <1>6. \/ min[j] = min[i] /\ max[j] = max[i]
        \/ Less(Slot(Ends(S), i), Slot(Starts(S), j))
    BY <1>3, <1>4, <1>5
  <1>. QED
    BY <1>6 DEF S, j

-------------------------------------------------------------------------------
(* Cluster statistics of strings never rule out a partition that holds a string
   a comparison is looking for, although Query_inner knows prefixes and lengths
   only: whatever the strings, the size of the prefix, the number of clusters
   and the numbers StringToLong makes of them.                                *)
THEOREM PruningSound == Spec => []NoFalsePrune
  BY ConstructedFromHeld, PruneSound, PTL

(* If all the strings fit in the prefix, >= and <= prune exactly when no string
   of the partition qualifies.                                                *)
THEOREM ShortStrings == Spec => []ShortStringsExact
  BY ConstructedFromHeld, ShortSound, PTL

(* The clusters Initialise leaves are in order and do not overlap, although the
   gaps are chosen by numbers that overflow and ignore the order of strings.  *)
THEOREM ClustersInOrder == Spec => []ClustersOrdered
  BY ConstructedFromHeld, OrderSound, PTL
===============================================================================
