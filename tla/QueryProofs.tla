---------------------------- MODULE QueryProofs -----------------------------
(***************************************************************************)
(* A query returns the page it was asked for: the order over values and    *)
(* entries is total, the heap holds the best of what the scan has found,   *)
(* and what is handed out is what lies between the skip and the limit, for *)
(* any values, documents, sort keys, skips and limits.  And a client that  *)
(* walks the pages of such queries is handed every document once while the *)
(* matches only grow at their end, for any page sizes and skips and any    *)
(* number of documents.                                                    *)
(***************************************************************************)
EXTENDS QueryExec, Paging, FiniteSetTheorems, SequenceTheorems, NaturalsInduction,
        WellFoundedInduction, TLAPS

-----------------------------------------------------------------------------
\* Least elements, and counting through a finite set

\* Numbers have a least one.
LEMMA LeastNat ==
    ASSUME NEW S, S \subseteq Nat, NEW x \in S
    PROVE  \E m \in S : \A n \in S : m <= n
<1>1. PICK m \in S : \A n \in S : ~(<<n, m>> \in OpToRel(<, Nat))
  BY NatLessThanWellFounded, WFMin
<1>2. \A n \in S : ~(n < m)
  BY <1>1, Zenon DEF OpToRel
<1>3. \A n \in S : m <= n
  BY <1>2
<1> QED
  BY <1>3

\* What holds at 0 and goes on holds up to m.
LEMMA Climb ==
    ASSUME NEW m \in Nat, NEW S, 0 \in S, \A k \in 0..(m - 1) : k \in S => k + 1 \in S
    PROVE  \A k \in 0..m : k \in S
<1> DEFINE D == {k \in 0..m : k \notin S}
<1>1. ASSUME NEW x \in D PROVE FALSE
  <2>1. PICK k \in D : \A j \in D : k <= j
    <3>1. D \subseteq Nat
      OBVIOUS
    <3> HIDE DEF D
    <3> QED
      BY <1>1, <3>1, LeastNat
  <2>2. k \in 0..m /\ k \notin S /\ k # 0
    BY <2>1
  <2>3. k - 1 \in 0..(m - 1) /\ k - 1 \in 0..m /\ k - 1 \notin D
    BY <2>1, <2>2
  <2>4. k - 1 \in S
    BY <2>3
  <2>5. (k - 1) + 1 \in S
    BY <2>3, <2>4
  <2> QED
    BY <2>2, <2>5
<1> QED
  BY <1>1

\* Min is that.
LEMMA MinFacts ==
    ASSUME NEW S, S \subseteq Nat, S # {}
    PROVE  Min(S) \in S /\ \A x \in S : Min(S) <= x
<1>1. \E m \in S : \A x \in S : m <= x
  BY LeastNat
<1> QED
  BY <1>1 DEF Min

\* Ranks are counted from 1.
LEMMA RankType ==
    ASSUME NEW S, S \subseteq Nat, IsFiniteSet(S), NEW x \in S
    PROVE  Rank(S, x) \in 1..Cardinality(S)
<1> DEFINE B == {y \in S : y <= x}
<1>1. IsFiniteSet(B) /\ Cardinality(B) \in Nat /\ Cardinality(B) <= Cardinality(S) /\ Cardinality(S) \in Nat
  BY FS_Subset, FS_CardinalityType
<1>2. x \in B
  OBVIOUS
<1>3. Cardinality(B) # 0
  BY <1>1, <1>2, FS_EmptySet
<1> QED
  BY <1>1, <1>3 DEF Rank

\* They ascend.
LEMMA RankAscends ==
    ASSUME NEW S, S \subseteq Nat, IsFiniteSet(S), NEW x \in S, NEW y \in S, x < y
    PROVE  Rank(S, x) < Rank(S, y)
<1> DEFINE B == {z \in S : z <= x}
           C == {z \in S : z <= y}
<1>1. IsFiniteSet(C) /\ B \subseteq C /\ B # C
  <2>1. y \in C /\ y \notin B
    OBVIOUS
  <2>2. \A z \in S : z <= x => z <= y
    <3>1. x \in Nat /\ y \in Nat /\ \A z \in S : z \in Nat
      OBVIOUS
    <3> QED
      BY <3>1
  <2>3. B \subseteq C
    BY <2>2
  <2> QED
    BY <2>1, <2>3, FS_Subset
<1>2. Cardinality(B) < Cardinality(C)
  <2>1. /\ IsFiniteSet(B) /\ Cardinality(B) <= Cardinality(C)
        /\ Cardinality(B) # Cardinality(C)
    BY <1>1, FS_Subset
  <2>2. Cardinality(B) \in Nat /\ Cardinality(C) \in Nat
    BY <1>1, <2>1, FS_CardinalityType
  <2> QED
    BY <2>1, <2>2
<1> QED
  BY <1>2 DEF Rank

\* They tell members apart.
LEMMA RankInjective ==
    ASSUME NEW S, S \subseteq Nat, IsFiniteSet(S), NEW x \in S, NEW y \in S,
           Rank(S, x) = Rank(S, y)
    PROVE  x = y
<1>1. Rank(S, x) \in Nat
  <2>1. Rank(S, x) \in 1..Cardinality(S)
    BY RankType
  <2> QED
    BY <2>1
<1>2. ~(x < y) /\ ~(y < x)
  <2>1. x < y => Rank(S, x) < Rank(S, y)
    BY RankAscends
  <2>2. y < x => Rank(S, y) < Rank(S, x)
    BY RankAscends
  <2> QED
    BY <1>1, <2>1, <2>2
<1>3. x \in Nat /\ y \in Nat
  OBVIOUS
<1> QED
  BY <1>2, <1>3

\* Every rank is taken.
LEMMA RankOnto ==
    ASSUME NEW S, S \subseteq Nat, IsFiniteSet(S), NEW n \in 1..Cardinality(S)
    PROVE  \E x \in S : Rank(S, x) = n
<1> DEFINE f == [x \in S |-> Rank(S, x)]
           T == 1..Cardinality(S)
<1>1. Cardinality(S) \in Nat
  BY FS_CardinalityType
<1>2. f \in [S -> T]
  BY RankType
<1>3. \A x, y \in S : f[x] = f[y] => x = y
  BY RankInjective
<1>4. IsFiniteSet(T) /\ Cardinality(T) = Cardinality(S)
  BY <1>1, FS_Interval
<1> HIDE DEF f, T
<1>5. f \in Injection(S, T)
  BY <1>2, <1>3 DEF Injection, IsInjective
<1>6. f \in Surjection(S, T)
  BY <1>4, <1>5, FS_Injection
<1>7. PICK x \in S : f[x] = n
  BY <1>6 DEF Surjection, T
<1> QED
  BY <1>7 DEF f

\* Nth is the inverse.
LEMMA NthFacts ==
    ASSUME NEW S, S \subseteq Nat, IsFiniteSet(S)
    PROVE  /\ Cardinality(S) \in Nat
           /\ \A n \in 1..Cardinality(S) : Nth(S, n) \in S
           /\ \A n, m \in 1..Cardinality(S) : Nth(S, n) = Nth(S, m) => n = m
<1>1. \A n \in 1..Cardinality(S) : Nth(S, n) \in S /\ Rank(S, Nth(S, n)) = n
  <2> SUFFICES ASSUME NEW n \in 1..Cardinality(S)
               PROVE  Nth(S, n) \in S /\ Rank(S, Nth(S, n)) = n
    OBVIOUS
  <2>1. \E x \in S : Rank(S, x) = n
    BY RankOnto
  <2> QED
    BY <2>1, Zenon DEF Nth
<1>2. Cardinality(S) \in Nat
  BY FS_CardinalityType
<1> QED
  BY <1>1, <1>2

\* Both ways.
LEMMA NthOfRank ==
    ASSUME NEW S, S \subseteq Nat, IsFiniteSet(S), NEW x \in S
    PROVE  Nth(S, Rank(S, x)) = x
<1>1. \A y \in S : Rank(S, y) = Rank(S, x) => y = x
  BY RankInjective
<1> QED
  BY <1>1, Zenon DEF Nth

-----------------------------------------------------------------------------
\* Values of each kind, and the order as its recursion unfolds

\* A value by its kind.
LEMMA KindFacts ==
    ASSUME NEW v \in Value
    PROVE  /\ v[1] \in {"absent", "null", "num", "str", "bool", "arr", "obj"}
           /\ v[1] = "absent" => v = Absent
           /\ v[1] = "null" => v = Null
           /\ v[1] = "num" => v = Num(v[2]) /\ v[2] \in Int
           /\ v[1] = "str" => v = Str(v[2]) /\ v[2] \in Nat
           /\ v[1] = "bool" => v = Bool(v[2]) /\ v[2] \in BOOLEAN
           /\ v[1] = "arr" => v = Arr(v[2]) /\ v[2] \in Seq(Value)
           /\ v[1] = "obj" => /\ v = Obj(v[2]) /\ v[2] \in [DOMAIN v[2] -> Value]
                              /\ DOMAIN v[2] \subseteq ToSet(KeyOrder)
<1>1. IsValue(v)
  BY ValueAssumption
<1>2. CASE v = Absent
  BY <1>2 DEF Absent
<1>3. CASE v = Null
  BY <1>3 DEF Null
<1>4. CASE v = Bool(v[2]) /\ v[2] \in BOOLEAN
  <2>0. v = Bool(v[2])
    BY <1>4
  <2>1. v[1] = "bool"
    BY <2>0 DEF Bool
  <2> QED
    BY <1>4, <2>1
<1>5. CASE v = Num(v[2]) /\ v[2] \in Int
  <2>1. v[1] = "num"
    BY <1>5 DEF Num
  <2> QED
    BY <1>5, <2>1
<1>6. CASE v = Str(v[2]) /\ v[2] \in Nat
  <2>1. v[1] = "str"
    BY <1>6 DEF Str
  <2> QED
    BY <1>6, <2>1
<1>7. CASE v = Arr(v[2]) /\ v[2] \in Seq(Value)
  <2>1. v[1] = "arr"
    BY <1>7 DEF Arr
  <2> QED
    BY <1>7, <2>1
<1>8. CASE /\ v = Obj(v[2]) /\ v[2] \in [DOMAIN v[2] -> Value]
           /\ DOMAIN v[2] \subseteq ToSet(KeyOrder)
  <2>1. v[1] = "obj"
    BY <1>8 DEF Obj
  <2> QED
    BY <1>8, <2>1
<1> QED
  BY <1>1, <1>2, <1>3, <1>4, <1>5, <1>6, <1>7, <1>8 DEF IsValue

\* What Order is, its recursion made a step.
OrderStep(g, n) ==
    [p \in Value \X Value |-> IF n = 0 THEN 0 ELSE CompareBy(g[n - 1], p[1], p[2])]

\* What the recursive definition of Order says.
OrderSolves(g, m) == g = [n \in 0..m |-> OrderStep(g, n)]

\* There is such a function.
LEMMA OrderSolvable ==
    ASSUME NEW m \in Nat
    PROVE  \E g : OrderSolves(g, m)
<1> DEFINE S == {k \in Nat : \E g : OrderSolves(g, k)}
<1>1. 0 \in S
  <2> DEFINE g == [n \in 0..0 |-> [p \in Value \X Value |-> 0]]
  <2>1. OrderSolves(g, 0)
    BY DEF OrderSolves, OrderStep
  <2> HIDE DEF g
  <2> QED
    BY <2>1
<1>2. ASSUME NEW k \in 0..(m - 1), k \in S
      PROVE  k + 1 \in S
  <2>1. PICK g : OrderSolves(g, k)
    BY <1>2
  <2> DEFINE h == [n \in 0..(k + 1) |-> IF n = k + 1 THEN OrderStep(g, n) ELSE g[n]]
  <2>2. \A n \in 0..(k + 1) : n # 0 => n - 1 \in 0..k /\ h[n - 1] = g[n - 1]
    OBVIOUS
  <2>3. \A n \in 0..(k + 1) : OrderStep(h, n) = OrderStep(g, n)
    <3> HIDE DEF h
    <3> QED
      BY <2>2, Zenon DEF OrderStep
  <2>4. \A n \in 0..k : g[n] = OrderStep(g, n)
    BY <2>1 DEF OrderSolves
  <2>5. \A n \in 0..(k + 1) : h[n] = OrderStep(g, n)
    BY <2>4
  <2>6. h = [n \in 0..(k + 1) |-> h[n]]
    OBVIOUS
  <2>7. OrderSolves(h, k + 1)
    <3> HIDE DEF h
    <3> QED
      BY <2>3, <2>5, <2>6, Zenon DEF OrderSolves
  <2> HIDE DEF h
  <2> QED
    BY <2>7
<1> HIDE DEF S
<1>3. \A k \in 0..m : k \in S
  BY <1>1, <1>2, Climb
<1>4. m \in S
  BY <1>3
<1> QED
  BY <1>4 DEF S

\* So Order is one.
LEMMA OrderFacts ==
    \A n \in 0..Depth : Order[n] = OrderStep(Order, n)
<1> DEFINE G == CHOOSE g : g = [n \in 0..Depth |-> OrderStep(g, n)]
<1>0. \E g : OrderSolves(g, Depth)
  BY ValueAssumption, OrderSolvable
<1>1. G = [n \in 0..Depth |-> OrderStep(G, n)]
  BY <1>0, Zenon DEF OrderSolves
<1>2. Order = G
  BY Zenon DEF Order, OrderStep
<1> HIDE DEF G
<1>3. \A n \in 0..Depth : G[n] = OrderStep(G, n)
  BY <1>1
<1> QED
  BY <1>2, <1>3, Zenon

-----------------------------------------------------------------------------
\* Sequences compare in a total order when their elements do

\* c compares the members of W in a total order.
IsOrder(W, c) ==
    \A x, y \in W :
       /\ c[<<x, y>>] \in {-1, 0, 1}
       /\ c[<<x, y>>] = -c[<<y, x>>]
       /\ c[<<x, y>>] = 0 <=> x = y
       /\ \A z \in W : c[<<x, y>>] <= 0 /\ c[<<y, z>>] <= 0 => c[<<x, z>>] <= 0

\* Sequences as CompareSeqs compares them.
Lex(c, s, t) ==
    CompareSeqs([i \in DOMAIN s \cap DOMAIN t |-> c[<<s[i], t[i]>>]], Len(s), Len(t))

\* One is a prefix of the other.
Agree(s, t) == \A i \in DOMAIN s \cap DOMAIN t : s[i] = t[i]

\* The first place at which two sequences differ.
Differ(s, t, m) ==
    m \in DOMAIN s \cap DOMAIN t /\ s[m] # t[m] /\ \A j \in 1..(m - 1) : s[j] = t[j]

\* Then the lengths decide.
LEMMA LexAgree ==
    ASSUME NEW W, NEW c, IsOrder(W, c), NEW s \in Seq(W), NEW t \in Seq(W), Agree(s, t)
    PROVE  Lex(c, s, t) = Sign(Len(s), Len(t))
<1> DEFINE signs == [i \in DOMAIN s \cap DOMAIN t |-> c[<<s[i], t[i]>>]]
<1>1. \A i \in DOMAIN s \cap DOMAIN t : s[i] \in W /\ t[i] \in W /\ s[i] = t[i]
  BY DEF Agree
<1>2. \A i \in DOMAIN s \cap DOMAIN t : c[<<s[i], t[i]>>] = 0
  BY <1>1, ZenonT(40) DEF IsOrder
<1>3. \A i \in DOMAIN signs : signs[i] = 0
  BY <1>2
<1> HIDE DEF signs
<1>4. CompareSeqs(signs, Len(s), Len(t)) = Sign(Len(s), Len(t))
  BY <1>3 DEF CompareSeqs
<1> QED
  BY <1>4, Zenon DEF Lex, signs

\* And otherwise the first element that differs.
LexAt(W, c, s, t, m) ==
    /\ m \in 1..Len(s) /\ m \in 1..Len(t) /\ s[m] \in W /\ t[m] \in W
    /\ Lex(c, s, t) = c[<<s[m], t[m]>>] /\ c[<<s[m], t[m]>>] \in {-1, 1}

\* So it is.
LEMMA LexDiffer ==
    ASSUME NEW W, NEW c, IsOrder(W, c), NEW s \in Seq(W), NEW t \in Seq(W),
           NEW m, Differ(s, t, m)
    PROVE  LexAt(W, c, s, t, m)
<1> DEFINE signs == [i \in DOMAIN s \cap DOMAIN t |-> c[<<s[i], t[i]>>]]
           differ == {i \in DOMAIN signs : signs[i] # 0}
<1>0. m \in 1..Len(s) /\ m \in 1..Len(t) /\ s[m] \in W /\ t[m] \in W /\ s[m] # t[m]
  BY DEF Differ
<1>1. \A i \in DOMAIN signs : signs[i] = c[<<s[i], t[i]>>]
  OBVIOUS
<1>2. DOMAIN signs = DOMAIN s \cap DOMAIN t /\ DOMAIN signs \subseteq Nat /\ m \in DOMAIN signs
  BY DEF Differ
<1>3. signs[m] # 0 /\ signs[m] \in {-1, 0, 1}
  BY <1>0, <1>1, <1>2 DEF IsOrder
<1>4. ASSUME NEW i \in DOMAIN signs, i < m PROVE signs[i] = 0
  <2>1. s[i] \in W /\ t[i] \in W /\ s[i] = t[i]
    BY <1>2, <1>4, <1>0 DEF Differ
  <2>2. c[<<s[i], t[i]>>] = 0
    BY <2>1 DEF IsOrder
  <2> QED
    BY <2>2, <1>1
<1> HIDE DEF signs
<1>5. m \in differ /\ differ \subseteq Nat /\ \A i \in differ : m <= i
  BY <1>0, <1>2, <1>3, <1>4
<1>6. Min(differ) = m
  <2> HIDE DEF differ
  <2>1. differ # {}
    BY <1>5
  <2>2. PICK k : k = Min(differ)
    OBVIOUS
  <2>3. k \in differ /\ \A x \in differ : k <= x
    BY <1>5, <2>1, <2>2, MinFacts
  <2>4. k \in Nat /\ m \in Nat /\ k <= m /\ m <= k
    BY <1>5, <2>3
  <2> QED
    BY <2>2, <2>4
<1>7. CompareSeqs(signs, Len(s), Len(t)) = signs[m]
  <2>1. differ # {}
    BY <1>5
  <2> QED
    BY <1>6, <2>1, Zenon DEF CompareSeqs
<1>8. Lex(c, s, t) = signs[m]
  BY <1>7, Zenon DEF Lex, signs
<1> QED
  BY <1>0, <1>1, <1>2, <1>3, <1>8 DEF LexAt

\* There is no third case.
LEMMA AgreeOrDiffer ==
    ASSUME NEW W, NEW s \in Seq(W), NEW t \in Seq(W)
    PROVE  Agree(s, t) \/ \E m : Differ(s, t, m)
<1> SUFFICES ASSUME ~Agree(s, t) PROVE \E m : Differ(s, t, m)
  OBVIOUS
<1> DEFINE D == {i \in DOMAIN s \cap DOMAIN t : s[i] # t[i]}
<1>1. D \subseteq Nat /\ \E i : i \in D
  BY DEF Agree
<1> HIDE DEF D
<1>2. PICK m \in D : \A i \in D : m <= i
  BY <1>1, LeastNat
<1> USE DEF D
<1>3. m \in DOMAIN s \cap DOMAIN t /\ s[m] # t[m] /\ m \in Nat
  BY <1>2
<1>4. ASSUME NEW j \in 1..(m - 1) PROVE s[j] = t[j]
  <2>1. j \in DOMAIN s \cap DOMAIN t /\ ~(m <= j)
    BY <1>3
  <2> QED
    BY <1>2, <2>1
<1> QED
  BY <1>3, <1>4 DEF Differ

\* Numbers by size.
SignLaws(m, n) ==
    /\ Sign(m, n) \in {-1, 0, 1} /\ Sign(m, n) = -Sign(n, m)
    /\ Sign(m, n) = 0 <=> m = n
    /\ Sign(m, n) <= 0 <=> m <= n

\* They are in a total order.
LEMMA SignFacts ==
    ASSUME NEW m \in Int, NEW n \in Int
    PROVE  SignLaws(m, n)
BY DEF Sign, SignLaws

\* The other way round the result is the opposite.
LEMMA LexSymmetric ==
    ASSUME NEW W, NEW c, IsOrder(W, c), NEW s \in Seq(W), NEW t \in Seq(W)
    PROVE  /\ Lex(c, s, t) \in {-1, 0, 1}
           /\ Lex(c, s, t) = -Lex(c, t, s)
           /\ Lex(c, s, t) = 0 <=> s = t
<1>0. Len(s) \in Nat /\ Len(t) \in Nat /\ DOMAIN s = 1..Len(s) /\ DOMAIN t = 1..Len(t)
  OBVIOUS
<1>1. CASE Agree(s, t)
  <2>1. Agree(t, s)
    BY <1>1 DEF Agree
  <2>2. Lex(c, s, t) = Sign(Len(s), Len(t)) /\ Lex(c, t, s) = Sign(Len(t), Len(s))
    BY <1>1, <2>1, LexAgree, SMTT(40)
  <2>3. Len(s) = Len(t) <=> s = t
    BY <1>0, <1>1, SeqEqual DEF Agree
  <2>4. /\ Sign(Len(s), Len(t)) \in {-1, 0, 1} /\ Sign(Len(s), Len(t)) = -Sign(Len(t), Len(s))
        /\ Sign(Len(s), Len(t)) = 0 <=> Len(s) = Len(t)
    <3>1. SignLaws(Len(s), Len(t))
      BY <1>0, SignFacts
    <3> QED
      BY <3>1 DEF SignLaws
  <2> QED
    BY <2>2, <2>3, <2>4
<1>2. CASE ~Agree(s, t)
  <2>1. PICK m : Differ(s, t, m)
    BY <1>2, AgreeOrDiffer
  <2>2. Differ(t, s, m)
    BY <2>1 DEF Differ
  <2>3. s # t
    BY <2>1 DEF Differ
  <2>4. /\ s[m] \in W /\ t[m] \in W
        /\ Lex(c, s, t) = c[<<s[m], t[m]>>] /\ c[<<s[m], t[m]>>] \in {-1, 1}
    <3>1. LexAt(W, c, s, t, m)
      BY <2>1, LexDiffer
    <3> QED
      BY <3>1 DEF LexAt
  <2>5. Lex(c, t, s) = c[<<t[m], s[m]>>]
    <3>1. LexAt(W, c, t, s, m)
      BY <2>2, LexDiffer
    <3> QED
      BY <3>1 DEF LexAt
  <2>6. c[<<s[m], t[m]>>] = -c[<<t[m], s[m]>>] /\ c[<<t[m], s[m]>>] \in {-1, 0, 1}
    BY <2>4 DEF IsOrder
  <2> QED
    BY <2>3, <2>4, <2>5, <2>6
<1> QED
  BY <1>1, <1>2

\* It is transitive.
LEMMA LexTransitive ==
    ASSUME NEW W, NEW c, IsOrder(W, c), NEW s \in Seq(W), NEW t \in Seq(W), NEW u \in Seq(W),
           Lex(c, s, t) <= 0, Lex(c, t, u) <= 0
    PROVE  Lex(c, s, u) <= 0
<1>0. /\ Len(s) \in Nat /\ Len(t) \in Nat /\ Len(u) \in Nat
      /\ DOMAIN s = 1..Len(s) /\ DOMAIN t = 1..Len(t) /\ DOMAIN u = 1..Len(u)
  OBVIOUS
<1>1. ASSUME Agree(s, t), Agree(t, u) PROVE Lex(c, s, u) <= 0
  <2>1. Lex(c, s, t) = Sign(Len(s), Len(t)) /\ Lex(c, t, u) = Sign(Len(t), Len(u))
    BY <1>1, LexAgree
  <2>2. Len(s) <= Len(t) /\ Len(t) <= Len(u)
    BY <1>0, <2>1, SignFacts DEF SignLaws
  <2>3. Agree(s, u)
    BY <1>0, <1>1, <2>2 DEF Agree
  <2>4. Lex(c, s, u) = Sign(Len(s), Len(u))
    BY <2>3, LexAgree
  <2> QED
    BY <1>0, <2>2, <2>4, SignFacts DEF SignLaws
<1>2. ASSUME Agree(s, t), NEW m, Differ(t, u, m) PROVE Lex(c, s, u) <= 0
  <2>1. Lex(c, s, t) = Sign(Len(s), Len(t))
    BY <1>2, LexAgree
  <2>2. Len(s) <= Len(t)
    BY <1>0, <2>1, SignFacts DEF SignLaws
  <2>3. m \in 1..Len(t) /\ m \in 1..Len(u) /\ Lex(c, t, u) = c[<<t[m], u[m]>>]
    <3>1. LexAt(W, c, t, u, m)
      BY <1>2, LexDiffer
    <3> QED
      BY <3>1 DEF LexAt
  <2>4. CASE m <= Len(s)
    <3>1. s[m] = t[m]
      BY <1>0, <1>2, <2>3, <2>4 DEF Agree
    <3>2. Differ(s, u, m)
      BY <1>0, <1>2, <2>2, <2>3, <2>4, <3>1, SMTT(40) DEF Agree, Differ
    <3>3. Lex(c, s, u) = c[<<s[m], u[m]>>]
      <4>1. LexAt(W, c, s, u, m)
        BY <3>2, LexDiffer
      <4> QED
        BY <4>1 DEF LexAt
    <3> QED
      BY <2>3, <3>1, <3>3
  <2>5. CASE Len(s) < m
    <3>1. Agree(s, u)
      BY <1>0, <1>2, <2>2, <2>3, <2>5, SMTT(40) DEF Agree, Differ
    <3>2. Lex(c, s, u) = Sign(Len(s), Len(u))
      BY <3>1, LexAgree
    <3> QED
      BY <1>0, <2>3, <2>5, <3>2, SignFacts DEF SignLaws
  <2> QED
    BY <1>0, <2>3, <2>4, <2>5
<1>3. ASSUME NEW m, Differ(s, t, m), Agree(t, u) PROVE Lex(c, s, u) <= 0
  <2>1. Lex(c, t, u) = Sign(Len(t), Len(u))
    BY <1>3, LexAgree
  <2>2. Len(t) <= Len(u)
    BY <1>0, <2>1, SignFacts DEF SignLaws
  <2>3. m \in 1..Len(s) /\ m \in 1..Len(t) /\ Lex(c, s, t) = c[<<s[m], t[m]>>]
    <3>1. LexAt(W, c, s, t, m)
      BY <1>3, LexDiffer
    <3> QED
      BY <3>1 DEF LexAt
  <2>4. u[m] = t[m] /\ Differ(s, u, m)
    BY <1>0, <1>3, <2>2, <2>3 DEF Agree, Differ
  <2>5. Lex(c, s, u) = c[<<s[m], u[m]>>]
    <3>1. LexAt(W, c, s, u, m)
      BY <2>4, LexDiffer
    <3> QED
      BY <3>1 DEF LexAt
  <2> QED
    BY <2>3, <2>4, <2>5
<1>4. ASSUME NEW m, Differ(s, t, m), NEW k, Differ(t, u, k) PROVE Lex(c, s, u) <= 0
  <2>1. /\ m \in 1..Len(s) /\ m \in 1..Len(t) /\ s[m] \in W /\ t[m] \in W
        /\ Lex(c, s, t) = c[<<s[m], t[m]>>]
    <3>1. LexAt(W, c, s, t, m)
      BY <1>4, LexDiffer
    <3> QED
      BY <3>1 DEF LexAt
  <2>2. /\ k \in 1..Len(t) /\ k \in 1..Len(u) /\ t[k] \in W /\ u[k] \in W
        /\ Lex(c, t, u) = c[<<t[k], u[k]>>]
    <3>1. LexAt(W, c, t, u, k)
      BY <1>4, LexDiffer
    <3> QED
      BY <3>1 DEF LexAt
  <2>3. CASE m < k
    <3>1. u[m] = t[m] /\ Differ(s, u, m)
      BY <1>0, <1>4, <2>1, <2>2, <2>3 DEF Differ
    <3>2. Lex(c, s, u) = c[<<s[m], u[m]>>]
      <4>1. LexAt(W, c, s, u, m)
        BY <3>1, LexDiffer
      <4> QED
        BY <4>1 DEF LexAt
    <3> QED
      BY <2>1, <3>1, <3>2
  <2>4. CASE k < m
    <3>1. s[k] = t[k] /\ Differ(s, u, k)
      BY <1>0, <1>4, <2>1, <2>2, <2>4 DEF Differ
    <3>2. Lex(c, s, u) = c[<<s[k], u[k]>>]
      <4>1. LexAt(W, c, s, u, k)
        BY <3>1, LexDiffer
      <4> QED
        BY <4>1 DEF LexAt
    <3> QED
      BY <2>2, <3>1, <3>2
  <2>5. CASE k = m
    <3>1. c[<<s[m], t[m]>>] <= 0 /\ c[<<t[m], u[m]>>] <= 0
      BY <2>1, <2>2, <2>5
    <3>2. u[m] \in W
      BY <2>2, <2>5
    <3>3. c[<<s[m], u[m]>>] <= 0
      BY <2>1, <3>1, <3>2 DEF IsOrder
    <3>4. s[m] # u[m]
      <4> SUFFICES ASSUME s[m] = u[m] PROVE FALSE
        OBVIOUS
      <4>1. c[<<t[m], s[m]>>] <= 0 /\ c[<<s[m], t[m]>>] = -c[<<t[m], s[m]>>]
        BY <2>1, <3>1 DEF IsOrder
      <4>2. c[<<s[m], t[m]>>] \in {-1, 0, 1} /\ c[<<t[m], s[m]>>] \in {-1, 0, 1}
        BY <2>1 DEF IsOrder
      <4>3. c[<<s[m], t[m]>>] = 0
        BY <3>1, <4>1, <4>2
      <4>4. s[m] = t[m]
        BY <2>1, <4>3 DEF IsOrder
      <4> QED
        BY <1>4, <4>4 DEF Differ
    <3>5. Differ(s, u, m)
      BY <1>0, <1>4, <2>1, <2>2, <2>5, <3>4 DEF Differ
    <3>6. Lex(c, s, u) = c[<<s[m], u[m]>>]
      <4>1. LexAt(W, c, s, u, m)
        BY <3>5, LexDiffer
      <4> QED
        BY <4>1 DEF LexAt
    <3> QED
      BY <3>3, <3>6
  <2> QED
    BY <2>1, <2>2, <2>3, <2>4, <2>5
<1>5. (Agree(s, t) \/ \E m : Differ(s, t, m)) /\ (Agree(t, u) \/ \E m : Differ(t, u, m))
  BY AgreeOrDiffer
<1> QED
  BY <1>1, <1>2, <1>3, <1>4, <1>5, Zenon

-----------------------------------------------------------------------------
\* The order over values

\* The values nested at most n deep.
Shallow(n) == {v \in Value : Nesting[v] <= n}

\* The keys of an object are a finite set of places.
PlacesFinite(o) ==
    KeyPlaces(o) \subseteq Nat /\ IsFiniteSet(KeyPlaces(o)) /\ KeyPlaces(o) \subseteq DOMAIN KeyOrder

\* So they are for every object among the values.
LEMMA KeyPlacesFinite ==
    ASSUME NEW o
    PROVE  PlacesFinite(o)
<1>1. PICK l \in Nat : DOMAIN KeyOrder = 1..l
  BY KeyAssumption
<1>2. IsFiniteSet(1..l)
  BY FS_Interval
<1>3. KeyPlaces(o) \subseteq 1..l
  BY <1>1 DEF KeyPlaces
<1>4. IsFiniteSet(KeyPlaces(o))
  BY <1>2, <1>3, FS_Subset
<1> QED
  BY <1>1, <1>3, <1>4 DEF PlacesFinite

\* The keys of an object as places in the order, its entries as keys and values in
\* turn.
EntriesAre(o) ==
    /\ Cardinality(KeyPlaces(o)) \in Nat
    /\ Entries(o) \in Seq(ToSet(Entries(o))) /\ Len(Entries(o)) = 2 * Cardinality(KeyPlaces(o))
    /\ DOMAIN Entries(o) = 1..(2 * Cardinality(KeyPlaces(o)))
    /\ \A i \in 1..Cardinality(KeyPlaces(o)) :
         /\ Entries(o)[2 * i - 1] = Str(Nth(KeyPlaces(o), i))
         /\ Entries(o)[2 * i] = o[2][KeyOrder[Nth(KeyPlaces(o), i)]]

\* The entries of an object are values of it and strings.
LEMMA EntriesFacts ==
    ASSUME NEW o
    PROVE  EntriesAre(o)
<1> DEFINE P == KeyPlaces(o)
           e(i) == LET n == Nth(P, (i + 1) \div 2)
                   IN  IF i % 2 = 1 THEN Str(n) ELSE o[2][KeyOrder[n]]
<1>1. P \subseteq Nat /\ IsFiniteSet(P)
  BY KeyPlacesFinite DEF PlacesFinite
<1>2. PICK k \in Nat : k = Cardinality(P)
  BY <1>1, FS_CardinalityType
<1>3. Entries(o) = [i \in 1..(2 * k) |-> e(i)]
  BY <1>2 DEF Entries
<1> HIDE DEF e
<1>4. DOMAIN Entries(o) = 1..(2 * k) /\ 2 * k \in Nat
  BY <1>3
<1>5. \A i \in 1..(2 * k) : Entries(o)[i] \in ToSet(Entries(o))
  BY <1>4 DEF ToSet
<1>6. Entries(o) = [i \in 1..(2 * k) |-> Entries(o)[i]]
  BY <1>3
<1>7. Entries(o) \in [1..(2 * k) -> ToSet(Entries(o))]
  BY <1>5, <1>6
<1>8. Entries(o) \in Seq(ToSet(Entries(o))) /\ Len(Entries(o)) = 2 * k
  BY <1>4, <1>7
<1>9. ASSUME NEW i \in 1..k
      PROVE  /\ Entries(o)[2 * i - 1] = Str(Nth(P, i))
             /\ Entries(o)[2 * i] = o[2][KeyOrder[Nth(P, i)]]
  <2>1. 2 * i - 1 \in 1..(2 * k) /\ 2 * i \in 1..(2 * k)
    OBVIOUS
  <2>2. ((2 * i - 1) + 1) \div 2 = i /\ (2 * i - 1) % 2 = 1 /\ (2 * i + 1) \div 2 = i /\ (2 * i) % 2 = 0
    OBVIOUS
  <2>3. Entries(o)[2 * i - 1] = e(2 * i - 1) /\ Entries(o)[2 * i] = e(2 * i)
    BY <1>3, <2>1
  <2>4. e(2 * i - 1) = Str(Nth(P, i))
    BY <2>2 DEF e
  <2>5. e(2 * i) = o[2][KeyOrder[Nth(P, i)]]
    BY <2>2 DEF e
  <2> QED
    BY <2>3, <2>4, <2>5
<1> QED
  BY <1>2, <1>4, <1>8, <1>9 DEF EntriesAre

\* An object is its entries.
LEMMA EntriesTell ==
    ASSUME NEW a \in Value, NEW b \in Value, a[1] = "obj", b[1] = "obj", Entries(a) = Entries(b)
    PROVE  a = b
<1>1. /\ a = Obj(a[2]) /\ a[2] \in [DOMAIN a[2] -> Value] /\ DOMAIN a[2] \subseteq ToSet(KeyOrder)
      /\ b = Obj(b[2]) /\ b[2] \in [DOMAIN b[2] -> Value] /\ DOMAIN b[2] \subseteq ToSet(KeyOrder)
  BY KindFacts
<1>2. EntriesAre(a) /\ EntriesAre(b)
  BY EntriesFacts
<1>3. PICK k \in Nat : k = Cardinality(KeyPlaces(a)) /\ k = Cardinality(KeyPlaces(b))
  BY <1>2 DEF EntriesAre
<1>4. ASSUME NEW i \in 1..k
      PROVE  /\ Nth(KeyPlaces(a), i) = Nth(KeyPlaces(b), i)
             /\ a[2][KeyOrder[Nth(KeyPlaces(a), i)]] = b[2][KeyOrder[Nth(KeyPlaces(b), i)]]
  <2>1. Str(Nth(KeyPlaces(a), i)) = Str(Nth(KeyPlaces(b), i))
    BY <1>2, <1>3 DEF EntriesAre
  <2>2. a[2][KeyOrder[Nth(KeyPlaces(a), i)]] = b[2][KeyOrder[Nth(KeyPlaces(b), i)]]
    BY <1>2, <1>3 DEF EntriesAre
  <2> QED
    BY <2>1, <2>2 DEF Str
<1>5. ASSUME NEW x, NEW y, EntriesAre(x), EntriesAre(y),
             k = Cardinality(KeyPlaces(x)),
             \A i \in 1..k : Nth(KeyPlaces(x), i) = Nth(KeyPlaces(y), i),
             k = Cardinality(KeyPlaces(y)),
             NEW n \in KeyPlaces(x)
      PROVE  n \in KeyPlaces(y) /\ \E i \in 1..k : n = Nth(KeyPlaces(x), i)
  <2>1. PlacesFinite(x) /\ PlacesFinite(y)
    BY KeyPlacesFinite
  <2>2. Rank(KeyPlaces(x), n) \in 1..k
    BY <1>5, <2>1, RankType DEF PlacesFinite
  <2>3. PICK i \in 1..k : i = Rank(KeyPlaces(x), n)
    BY <2>2
  <2>4. Nth(KeyPlaces(x), i) = n
    BY <1>5, <2>1, <2>3, NthOfRank DEF PlacesFinite
  <2>5. Nth(KeyPlaces(y), i) \in KeyPlaces(y)
    BY <1>5, <2>1, NthFacts DEF PlacesFinite
  <2> QED
    BY <1>5, <2>4, <2>5
<1>6. KeyPlaces(a) = KeyPlaces(b)
  <2>1. \A n \in KeyPlaces(a) : n \in KeyPlaces(b)
    BY <1>2, <1>3, <1>4, <1>5
  <2>2. \A n \in KeyPlaces(b) : n \in KeyPlaces(a)
    BY <1>2, <1>3, <1>4, <1>5
  <2> QED
    BY <2>1, <2>2
<1>7. ASSUME NEW x \in DOMAIN a[2] PROVE x \in DOMAIN b[2] /\ a[2][x] = b[2][x]
  <2>1. PICK n \in DOMAIN KeyOrder : KeyOrder[n] = x
    BY <1>1 DEF ToSet
  <2>2. n \in KeyPlaces(a)
    BY <2>1 DEF KeyPlaces
  <2>3. PICK i \in 1..k : n = Nth(KeyPlaces(a), i)
    BY <1>2, <1>3, <1>4, <1>5, <2>2
  <2>4. n \in KeyPlaces(b)
    BY <1>6, <2>2
  <2> QED
    BY <1>4, <2>1, <2>3, <2>4 DEF KeyPlaces
<1>8. ASSUME NEW x \in DOMAIN b[2] PROVE x \in DOMAIN a[2]
  <2>1. PICK n \in DOMAIN KeyOrder : KeyOrder[n] = x
    BY <1>1 DEF ToSet
  <2>2. n \in KeyPlaces(a)
    BY <1>6, <2>1 DEF KeyPlaces
  <2> QED
    BY <2>1, <2>2 DEF KeyPlaces
<1>9. a[2] = b[2]
  BY <1>1, <1>7, <1>8
<1> QED
  BY <1>1, <1>9, Zenon

-----------------------------------------------------------------------------
\* Values of one kind

\* Ranks tell kinds apart.
LEMMA RankOfKind ==
    ASSUME NEW a \in Value
    PROVE  /\ TypeRank(a) \in 0..6
           /\ \A b \in Value : TypeRank(a) = TypeRank(b) <=> a[1] = b[1]
<1> DEFINE kinds == {"absent", "null", "num", "str", "bool", "arr", "obj"}
<1>1. \A v \in Value : v[1] \in kinds
  BY KindFacts
<1>2. \A k, l \in kinds :
         LET r == [absent |-> 0, null |-> 1, num |-> 2, str |-> 3, bool |-> 4, arr |-> 5, obj |-> 6]
         IN  r[k] \in 0..6 /\ (r[k] = r[l] <=> k = l)
  OBVIOUS
<1> HIDE DEF kinds
<1> QED
  BY <1>1, <1>2 DEF TypeRank

\* The sequence an array or an object is compared by.
Inner(v) == IF v[1] = "arr" THEN v[2] ELSE Entries(v)

\* What arrays and objects are compared by lies one level down.
LEMMA InnerFacts ==
    ASSUME NEW n \in 1..Depth, NEW v \in Shallow(n), v[1] \in {"arr", "obj"}
    PROVE  Inner(v) \in Seq(Shallow(n - 1))
<1>1. v \in Value /\ Nesting[v] \in Nat /\ Nesting[v] <= n /\ n \in Nat
  BY ValueAssumption DEF Shallow
<1>2. \A w \in Parts(v) : w \in Value /\ Nesting[w] < Nesting[v] /\ Nesting[w] \in Nat
  BY <1>1, ValueAssumption
<1>3. \A w \in Parts(v) : w \in Shallow(n - 1)
  BY <1>1, <1>2 DEF Shallow
<1>4. CASE v[1] = "arr"
  <2>1. v[2] \in Seq(Value) /\ Inner(v) = v[2]
    BY <1>1, <1>4, KindFacts DEF Inner
  <2>2. \A i \in 1..Len(v[2]) : v[2][i] \in Parts(v)
    BY <1>4, <2>1 DEF Parts, ToSet
  <2>3. \A i \in 1..Len(v[2]) : v[2][i] \in Shallow(n - 1)
    BY <1>3, <2>2
  <2> QED
    BY <2>1, <2>3
<1>5. CASE v[1] = "obj"
  <2>1. Inner(v) = Entries(v) /\ EntriesAre(v)
    BY <1>5, EntriesFacts DEF Inner
  <2>2. Entries(v) \in Seq(ToSet(Entries(v)))
    BY <2>1 DEF EntriesAre
  <2>3. \A i \in 1..Len(Entries(v)) : Entries(v)[i] \in Parts(v)
    BY <1>5, <2>2 DEF Parts
  <2>4. \A i \in 1..Len(Entries(v)) : Entries(v)[i] \in Shallow(n - 1)
    BY <1>3, <2>3
  <2> QED
    BY <2>1, <2>2, <2>4
<1> QED
  BY <1>4, <1>5

\* Within one kind, an array or an object is its inner sequence.
LEMMA InnerTells ==
    ASSUME NEW a \in Value, NEW b \in Value, a[1] = b[1], a[1] \in {"arr", "obj"}
    PROVE  Inner(a) = Inner(b) <=> a = b
<1>1. CASE a[1] = "arr"
  <2>1. a = Arr(a[2]) /\ b = Arr(b[2]) /\ Inner(a) = a[2] /\ Inner(b) = b[2]
    BY <1>1, KindFacts DEF Inner
  <2> QED
    BY <2>1, Zenon
<1>2. CASE a[1] = "obj"
  <2>1. Inner(a) = Entries(a) /\ Inner(b) = Entries(b)
    BY <1>2 DEF Inner
  <2>2. Entries(a) = Entries(b) => a = b
    BY <1>2, EntriesTell
  <2> QED
    BY <2>1, <2>2, Zenon
<1> QED
  BY <1>1, <1>2

\* false comes before true.
BoolSign(x, y) == IF x = y THEN 0 ELSE IF y THEN -1 ELSE 1

\* How values compare, kind by kind.
ByKind(c, a, b) ==
    /\ a[1] # b[1] => CompareBy(c, a, b) = Sign(TypeRank(a), TypeRank(b))
    /\ a[1] = b[1] =>
         /\ a[1] \in {"absent", "null"} => CompareBy(c, a, b) = 0 /\ a = b
         /\ a[1] \in {"num", "str"} => CompareBy(c, a, b) = Sign(a[2], b[2])
         /\ a[1] = "bool" => CompareBy(c, a, b) = BoolSign(a[2], b[2])
         /\ a[1] \in {"arr", "obj"} => CompareBy(c, a, b) = Lex(c, Inner(a), Inner(b))

\* CompareBy, kind by kind.
LEMMA ByKindFacts ==
    ASSUME NEW c, NEW a \in Value, NEW b \in Value
    PROVE  ByKind(c, a, b)
<1>0. a[1] # b[1] <=> TypeRank(a) # TypeRank(b)
  BY RankOfKind
<1>1. CASE a[1] # b[1]
  BY <1>0, <1>1 DEF ByKind, CompareBy
<1>2. CASE a[1] = b[1] /\ a[1] \in {"absent", "null"}
  <2>1. a = b
    BY <1>2, KindFacts
  <2>2. CompareBy(c, a, b) = 0
    BY <1>0, <1>2 DEF CompareBy
  <2> QED
    BY <1>2, <2>1, <2>2 DEF ByKind
<1>3. CASE a[1] = b[1] /\ a[1] \in {"num", "str"}
  <2>1. CompareBy(c, a, b) = Sign(a[2], b[2])
    BY <1>0, <1>3 DEF CompareBy
  <2> QED
    BY <1>3, <2>1 DEF ByKind
<1>4. CASE a[1] = b[1] /\ a[1] = "bool"
  <2>1. CompareBy(c, a, b) = BoolSign(a[2], b[2])
    BY <1>0, <1>4 DEF CompareBy, BoolSign
  <2> QED
    BY <1>4, <2>1 DEF ByKind
<1>5. CASE a[1] = b[1] /\ a[1] = "arr"
  <2>1. CompareBy(c, a, b) = Lex(c, a[2], b[2])
    BY <1>0, <1>5 DEF CompareBy, Lex
  <2>2. Inner(a) = a[2] /\ Inner(b) = b[2]
    BY <1>5 DEF Inner
  <2> QED
    BY <1>5, <2>1, <2>2 DEF ByKind
<1>6. CASE a[1] = b[1] /\ a[1] = "obj"
  <2>1. CompareBy(c, a, b) = Lex(c, Entries(a), Entries(b))
    BY <1>0, <1>6 DEF CompareBy, Lex
  <2>2. Inner(a) = Entries(a) /\ Inner(b) = Entries(b)
    BY <1>6 DEF Inner
  <2> QED
    BY <1>6, <2>1, <2>2 DEF ByKind
<1> QED
  BY <1>1, <1>2, <1>3, <1>4, <1>5, <1>6, KindFacts

\* Scalars are what their kind and content make them.
LEMMA ScalarTells ==
    ASSUME NEW a \in Value, NEW b \in Value, a[1] = b[1], a[1] \in {"num", "str", "bool"}
    PROVE  a[2] = b[2] <=> a = b
<1>1. CASE a[1] = "num"
  <2>1. a = Num(a[2]) /\ b = Num(b[2])
    BY <1>1, KindFacts
  <2> QED
    BY <2>1, Zenon
<1>2. CASE a[1] = "str"
  <2>1. a = Str(a[2]) /\ b = Str(b[2])
    BY <1>2, KindFacts
  <2> QED
    BY <2>1, Zenon
<1>3. CASE a[1] = "bool"
  <2>1. a = Bool(a[2]) /\ b = Bool(b[2])
    BY <1>3, KindFacts
  <2> QED
    BY <2>1, Zenon
<1> QED
  BY <1>1, <1>2, <1>3

\* Booleans are in order.
LEMMA BoolFacts ==
    ASSUME NEW x \in BOOLEAN, NEW y \in BOOLEAN
    PROVE  /\ BoolSign(x, y) \in {-1, 0, 1} /\ BoolSign(x, y) = -BoolSign(y, x)
           /\ BoolSign(x, y) = 0 <=> x = y
           /\ \A z \in BOOLEAN : BoolSign(x, y) <= 0 /\ BoolSign(y, z) <= 0 => BoolSign(x, z) <= 0
BY DEF BoolSign

-----------------------------------------------------------------------------
\* The order over values is total

\* Numbers whose sum is 0.
LEMMA Opposite ==
    ASSUME NEW i \in Int, NEW j \in Int, i + j = 0
    PROVE  i = -j
<1>1. -j = 0 - j
  OBVIOUS
<1>2. i = 0 - j
  OBVIOUS
<1> QED
  BY <1>1, <1>2, Zenon

\* If values nested less deep are in a total order, so are those nested one deeper.
LEMMA DeeperPair ==
    ASSUME NEW n \in 1..Depth, NEW c, IsOrder(Shallow(n - 1), c),
           NEW a \in Shallow(n), NEW b \in Shallow(n)
    PROVE  /\ CompareBy(c, a, b) \in {-1, 0, 1}
           /\ CompareBy(c, a, b) = -CompareBy(c, b, a)
           /\ CompareBy(c, a, b) = 0 <=> a = b
<1>0. a \in Value /\ b \in Value
  BY DEF Shallow
<1>1. ByKind(c, a, b) /\ ByKind(c, b, a)
  BY <1>0, ByKindFacts
<1>2. CASE a[1] # b[1]
  <2>1. TypeRank(a) \in Int /\ TypeRank(b) \in Int /\ TypeRank(a) # TypeRank(b)
    BY <1>0, <1>2, RankOfKind
  <2>2. SignLaws(TypeRank(a), TypeRank(b))
    BY <2>1, SignFacts
  <2>3. CompareBy(c, a, b) = Sign(TypeRank(a), TypeRank(b)) /\ CompareBy(c, b, a) = Sign(TypeRank(b), TypeRank(a))
    BY <1>1, <1>2 DEF ByKind
  <2>4. a # b
    BY <1>2
  <2> QED
    BY <2>1, <2>2, <2>3, <2>4 DEF SignLaws
<1>3. CASE a[1] = b[1] /\ a[1] \in {"absent", "null"}
  <2>1. CompareBy(c, a, b) = 0 /\ CompareBy(c, b, a) = 0 /\ a = b
    BY <1>1, <1>3 DEF ByKind
  <2>2. CompareBy(c, a, b) + CompareBy(c, b, a) = 0
    BY <2>1
  <2>3. CompareBy(c, a, b) \in Int /\ CompareBy(c, b, a) \in Int
    BY <2>1
  <2>4. CompareBy(c, a, b) = -CompareBy(c, b, a)
    BY <2>2, <2>3, Opposite, Zenon
  <2>5. 0 \in {-1, 0, 1}
    OBVIOUS
  <2> QED
    BY <2>1, <2>4, <2>5, Zenon
<1>4. CASE a[1] = b[1] /\ a[1] \in {"num", "str"}
  <2>1. CompareBy(c, a, b) = Sign(a[2], b[2]) /\ CompareBy(c, b, a) = Sign(b[2], a[2])
    BY <1>1, <1>4 DEF ByKind
  <2>2. a[2] \in Int /\ b[2] \in Int
    <3>1. \A v \in Value : v[1] \in {"num", "str"} => v[2] \in Int
      BY KindFacts
    <3> QED
      BY <1>0, <1>4, <3>1
  <2>3. SignLaws(a[2], b[2])
    BY <2>2, SignFacts
  <2>4. a[2] = b[2] <=> a = b
    BY <1>0, <1>4, ScalarTells
  <2> QED
    BY <2>1, <2>3, <2>4 DEF SignLaws
<1>5. CASE a[1] = b[1] /\ a[1] = "bool"
  <2>1. CompareBy(c, a, b) = BoolSign(a[2], b[2]) /\ CompareBy(c, b, a) = BoolSign(b[2], a[2])
    BY <1>1, <1>5 DEF ByKind
  <2>2. a[2] \in BOOLEAN /\ b[2] \in BOOLEAN
    BY <1>0, <1>5, KindFacts
  <2>3. /\ BoolSign(a[2], b[2]) \in {-1, 0, 1} /\ BoolSign(a[2], b[2]) = -BoolSign(b[2], a[2])
        /\ BoolSign(a[2], b[2]) = 0 <=> a[2] = b[2]
    BY <2>2, BoolFacts
  <2>4. a[2] = b[2] <=> a = b
    BY <1>0, <1>5, ScalarTells
  <2> QED
    BY <2>1, <2>3, <2>4
<1>6. CASE a[1] = b[1] /\ a[1] \in {"arr", "obj"}
  <2>1. CompareBy(c, a, b) = Lex(c, Inner(a), Inner(b)) /\ CompareBy(c, b, a) = Lex(c, Inner(b), Inner(a))
    BY <1>1, <1>6 DEF ByKind
  <2>2. Inner(a) \in Seq(Shallow(n - 1)) /\ Inner(b) \in Seq(Shallow(n - 1))
    BY <1>6, InnerFacts
  <2>3. /\ Lex(c, Inner(a), Inner(b)) \in {-1, 0, 1}
        /\ Lex(c, Inner(a), Inner(b)) = -Lex(c, Inner(b), Inner(a))
        /\ Lex(c, Inner(a), Inner(b)) = 0 <=> Inner(a) = Inner(b)
    BY <2>2, LexSymmetric
  <2>4. Inner(a) = Inner(b) <=> a = b
    BY <1>0, <1>6, InnerTells
  <2> QED
    BY <2>1, <2>3, <2>4
<1> QED
  BY <1>0, <1>2, <1>3, <1>4, <1>5, <1>6, KindFacts

\* And it stays transitive one level further down.
LEMMA DeeperTriple ==
    ASSUME NEW n \in 1..Depth, NEW c, IsOrder(Shallow(n - 1), c),
           NEW x \in Shallow(n), NEW y \in Shallow(n), NEW z \in Shallow(n),
           CompareBy(c, x, y) <= 0, CompareBy(c, y, z) <= 0
    PROVE  CompareBy(c, x, z) <= 0
<1>0. x \in Value /\ y \in Value /\ z \in Value
  BY DEF Shallow
<1>1. ByKind(c, x, y) /\ ByKind(c, y, z) /\ ByKind(c, x, z)
  BY <1>0, ByKindFacts
<1>2. PICK i \in Int : i = TypeRank(x)
  BY <1>0, RankOfKind
<1>3. PICK j \in Int : j = TypeRank(y)
  BY <1>0, RankOfKind
<1>4. PICK k \in Int : k = TypeRank(z)
  BY <1>0, RankOfKind
<1>5. (i = j <=> x[1] = y[1]) /\ (j = k <=> y[1] = z[1]) /\ (i = k <=> x[1] = z[1])
  BY <1>0, <1>2, <1>3, <1>4, RankOfKind
<1>6. SignLaws(i, j) /\ SignLaws(j, k) /\ SignLaws(i, k)
  BY SignFacts
<1>7. i <= j
  <2>1. CASE x[1] # y[1]
    BY <1>1, <1>2, <1>3, <1>6, <2>1 DEF ByKind, SignLaws
  <2> QED
    BY <1>5, <2>1
<1>8. j <= k
  <2>1. CASE y[1] # z[1]
    BY <1>1, <1>3, <1>4, <1>6, <2>1 DEF ByKind, SignLaws
  <2> QED
    BY <1>5, <2>1
<1>9. CASE x[1] # z[1]
  <2>1. CompareBy(c, x, z) = Sign(i, k)
    BY <1>1, <1>2, <1>4, <1>9 DEF ByKind
  <2> QED
    BY <1>6, <1>7, <1>8, <2>1 DEF SignLaws
<1>10. CASE x[1] = z[1]
  <2>0. x[1] = y[1] /\ y[1] = z[1]
    BY <1>5, <1>7, <1>8, <1>10
  <2>1. CASE x[1] \in {"absent", "null"}
    BY <1>1, <1>10, <2>1 DEF ByKind
  <2>2. CASE x[1] \in {"num", "str"}
    <3>1. \A v \in Value : v[1] \in {"num", "str"} => v[2] \in Int
      BY KindFacts
    <3>2. x[2] \in Int /\ y[2] \in Int /\ z[2] \in Int
      BY <1>0, <2>0, <2>2, <3>1
    <3>3. SignLaws(x[2], y[2]) /\ SignLaws(y[2], z[2]) /\ SignLaws(x[2], z[2])
      BY <3>2, SignFacts
    <3>4. /\ CompareBy(c, x, y) = Sign(x[2], y[2]) /\ CompareBy(c, y, z) = Sign(y[2], z[2])
          /\ CompareBy(c, x, z) = Sign(x[2], z[2])
      BY <1>1, <2>0, <2>2 DEF ByKind
    <3>5. x[2] <= y[2] /\ y[2] <= z[2]
      BY <3>3, <3>4 DEF SignLaws
    <3>6. x[2] <= z[2]
      BY <3>2, <3>5
    <3> QED
      BY <3>3, <3>4, <3>6 DEF SignLaws
  <2>3. CASE x[1] = "bool"
    <3>1. x[2] \in BOOLEAN /\ y[2] \in BOOLEAN /\ z[2] \in BOOLEAN
      BY <1>0, <2>0, <2>3, KindFacts
    <3>2. /\ CompareBy(c, x, y) = BoolSign(x[2], y[2]) /\ CompareBy(c, y, z) = BoolSign(y[2], z[2])
          /\ CompareBy(c, x, z) = BoolSign(x[2], z[2])
      BY <1>1, <2>0, <2>3 DEF ByKind
    <3>3. BoolSign(x[2], y[2]) <= 0 /\ BoolSign(y[2], z[2]) <= 0 => BoolSign(x[2], z[2]) <= 0
      BY <3>1, BoolFacts
    <3> QED
      BY <3>2, <3>3
  <2>4. CASE x[1] \in {"arr", "obj"}
    <3>1. /\ Inner(x) \in Seq(Shallow(n - 1)) /\ Inner(y) \in Seq(Shallow(n - 1))
          /\ Inner(z) \in Seq(Shallow(n - 1))
      BY <2>0, <2>4, InnerFacts
    <3>2. /\ CompareBy(c, x, y) = Lex(c, Inner(x), Inner(y))
          /\ CompareBy(c, y, z) = Lex(c, Inner(y), Inner(z))
          /\ CompareBy(c, x, z) = Lex(c, Inner(x), Inner(z))
      BY <1>1, <2>0, <2>4 DEF ByKind
    <3>3. Lex(c, Inner(x), Inner(y)) <= 0 /\ Lex(c, Inner(y), Inner(z)) <= 0
      BY <3>2
    <3>4. Lex(c, Inner(x), Inner(z)) <= 0
      BY <3>1, <3>3, LexTransitive
    <3> QED
      BY <3>2, <3>4
  <2> QED
    BY <1>0, <2>1, <2>2, <2>3, <2>4, KindFacts
<1> QED
  BY <1>9, <1>10

\* The values compare in a total order, however deep they are nested.
LEMMA OrderLaws ==
    IsOrder(Value, Order[Depth])
<1> DEFINE S == {n \in Nat : n <= Depth => IsOrder(Shallow(n), Order[n])}
<1>0. Depth \in Nat
  BY ValueAssumption
<1>1. 0 \in S
  <2>1. \A v \in Value : ~(Nesting[v] <= 0)
    BY ValueAssumption
  <2>2. Shallow(0) = {}
    BY <2>1 DEF Shallow
  <2> QED
    BY <2>2 DEF IsOrder
<1>2. ASSUME NEW m \in 0..(Depth - 1), m \in S
      PROVE  m + 1 \in S
  <2> DEFINE n == m + 1
             c == Order[m]
  <2>0. n \in 1..Depth /\ n - 1 = m /\ n \in 0..Depth
    BY <1>0
  <2>1. IsOrder(Shallow(n - 1), c)
    BY <1>0, <1>2
  <2>2. ASSUME NEW a \in Value, NEW b \in Value PROVE Order[n][<<a, b>>] = CompareBy(c, a, b)
    <3>1. Order[n] = OrderStep(Order, n)
      BY <2>0, OrderFacts
    <3>2. Order[n] = [p \in Value \X Value |-> CompareBy(c, p[1], p[2])]
      BY <2>0, <3>1 DEF OrderStep
    <3>3. <<a, b>> \in Value \X Value /\ <<a, b>>[1] = a /\ <<a, b>>[2] = b
      OBVIOUS
    <3> QED
      BY <3>2, <3>3
  <2> HIDE DEF c, n
  <2>3. Shallow(n) \subseteq Value
    BY DEF Shallow
  <2>4. \A a, b \in Shallow(n) :
           /\ CompareBy(c, a, b) \in {-1, 0, 1}
           /\ CompareBy(c, a, b) = -CompareBy(c, b, a)
           /\ CompareBy(c, a, b) = 0 <=> a = b
    BY <2>0, <2>1, DeeperPair
  <2>5. \A a, b, d \in Shallow(n) :
           CompareBy(c, a, b) <= 0 /\ CompareBy(c, b, d) <= 0 => CompareBy(c, a, d) <= 0
    BY <2>0, <2>1, DeeperTriple
  <2>6. IsOrder(Shallow(n), Order[n])
    <3>1. \A a, b \in Shallow(n) : Order[n][<<a, b>>] = CompareBy(c, a, b)
      BY <2>2, <2>3
    <3> SUFFICES ASSUME NEW x \in Shallow(n), NEW y \in Shallow(n)
                 PROVE  /\ Order[n][<<x, y>>] \in {-1, 0, 1}
                        /\ Order[n][<<x, y>>] = -Order[n][<<y, x>>]
                        /\ Order[n][<<x, y>>] = 0 <=> x = y
                        /\ \A z \in Shallow(n) :
                             Order[n][<<x, y>>] <= 0 /\ Order[n][<<y, z>>] <= 0
                             => Order[n][<<x, z>>] <= 0
      BY Zenon DEF IsOrder
    <3>2. Order[n][<<x, y>>] = CompareBy(c, x, y) /\ Order[n][<<y, x>>] = CompareBy(c, y, x)
      BY <3>1
    <3>3. /\ CompareBy(c, x, y) \in {-1, 0, 1}
          /\ CompareBy(c, x, y) = -CompareBy(c, y, x)
          /\ CompareBy(c, x, y) = 0 <=> x = y
      BY <2>4
    <3>4. ASSUME NEW z \in Shallow(n), Order[n][<<x, y>>] <= 0, Order[n][<<y, z>>] <= 0
          PROVE  Order[n][<<x, z>>] <= 0
      <4>1. /\ Order[n][<<x, y>>] = CompareBy(c, x, y) /\ Order[n][<<y, z>>] = CompareBy(c, y, z)
            /\ Order[n][<<x, z>>] = CompareBy(c, x, z)
        BY <3>1
      <4>2. CompareBy(c, x, y) <= 0 /\ CompareBy(c, y, z) <= 0
        BY <3>4, <4>1
      <4>3. CompareBy(c, x, z) <= 0
        BY <2>5, <4>2
      <4> QED
        BY <4>1, <4>3
    <3> QED
      BY <3>2, <3>3, <3>4
  <2> QED
    BY <1>0, <2>6 DEF n
<1> HIDE DEF S
<1>3. Depth \in S
  <2>1. \A k \in 0..Depth : k \in S
    BY <1>0, <1>1, <1>2, Climb
  <2> QED
    BY <1>0, <2>1
<1>4. Shallow(Depth) = Value
  BY ValueAssumption DEF Shallow
<1> QED
  BY <1>0, <1>3, <1>4 DEF S

\* compare is a total order over all values, of every kind and however deep they are
\* nested, in which only a value itself is equal to it.
THEOREM OrderTheorem ==
    ASSUME NEW values, values \subseteq Value
    PROVE  TotalOrder(values)
BY OrderLaws DEF IsOrder, TotalOrder, EqualValues, Compare

-----------------------------------------------------------------------------
\* The order over entries

\* The sort keys of the query.
SortType == query.sort \in Seq([field : STRING, desc : BOOLEAN])

\* An entry that has a value for each of them.
Keyed(e) == e.seq \in Nat /\ e.keys \in [DOMAIN query.sort -> Value]

\* EntryLess orders the members of S.
Strict(S) ==
    \A a, b \in S :
       /\ EntryLess(a, b) \in BOOLEAN
       /\ ~EntryLess(a, a)
       /\ EntryLess(a, b) \/ EntryLess(b, a) \/ a = b
       /\ \A d \in S : EntryLess(a, b) /\ EntryLess(b, d) => EntryLess(a, d)

\* x comes before y by the sort key m.
KeyBefore(m, x, y) == (Compare(x, y) < 0) # query.sort[m].desc

\* compare, as the sort uses it.
LEMMA BelowFacts ==
    ASSUME NEW v \in Value, NEW w \in Value
    PROVE  /\ Compare(v, w) \in {-1, 0, 1}
           /\ Compare(v, w) = 0 <=> v = w
           /\ v # w => (Compare(v, w) < 0 <=> ~(Compare(w, v) < 0))
           /\ \A u \in Value : Compare(v, w) <= 0 /\ Compare(w, u) <= 0 => Compare(v, u) <= 0
<1>1. /\ Order[Depth][<<v, w>>] \in {-1, 0, 1}
      /\ Order[Depth][<<v, w>>] = -Order[Depth][<<w, v>>]
      /\ Order[Depth][<<v, w>>] = 0 <=> v = w
      /\ \A u \in Value : Order[Depth][<<v, w>>] <= 0 /\ Order[Depth][<<w, u>>] <= 0
                          => Order[Depth][<<v, u>>] <= 0
  BY OrderLaws, Zenon DEF IsOrder
<1>2. Order[Depth][<<w, v>>] \in {-1, 0, 1}
  BY OrderLaws, Zenon DEF IsOrder
<1>3. PICK i \in Int : i = Compare(v, w) /\ i \in {-1, 0, 1}
  BY <1>1 DEF Compare
<1>4. PICK j \in Int : j = Compare(w, v) /\ j \in {-1, 0, 1}
  BY <1>2 DEF Compare
<1>5. i = -j
  BY <1>1, <1>3, <1>4, Zenon DEF Compare
<1>6. v # w => i # 0
  BY <1>1, <1>3 DEF Compare
<1>7. v # w => (i < 0 <=> ~(j < 0))
  BY <1>3, <1>4, <1>5, <1>6
<1>8. v # w => (Compare(v, w) < 0 <=> ~(Compare(w, v) < 0))
  BY <1>3, <1>4, <1>7
<1> QED
  BY <1>1, <1>8, Zenon DEF Compare

\* Less, and not more, carry on.
LEMMA BelowTransitive ==
    ASSUME NEW u \in Value, NEW v \in Value, NEW w \in Value,
           Compare(u, v) < 0, Compare(v, w) < 0
    PROVE  u # w /\ Compare(u, w) < 0
<1>1. /\ Compare(u, v) \in {-1, 0, 1} /\ Compare(v, w) \in {-1, 0, 1}
      /\ Compare(u, w) \in {-1, 0, 1}
  BY BelowFacts
<1>2. Compare(u, w) <= 0
  <2>1. Compare(u, v) <= 0 /\ Compare(v, w) <= 0
    BY <1>1
  <2> QED
    BY <2>1, BelowFacts
<1>3. u # w
  <2>1. u # v
    <3>1. Compare(u, v) = 0 <=> u = v
      BY BelowFacts
    <3> QED
      BY <1>1, <3>1
  <2>2. u = w => ~(Compare(v, w) < 0)
    BY <2>1, BelowFacts
  <2> QED
    BY <2>2
<1>4. Compare(u, w) # 0
  BY <1>3, BelowFacts
<1> QED
  BY <1>1, <1>2, <1>3, <1>4

\* So each sort key orders values, upwards or downwards.
LEMMA KeyBeforeFacts ==
    ASSUME SortType, NEW m \in DOMAIN query.sort, NEW x \in Value, NEW y \in Value, x # y
    PROVE  /\ KeyBefore(m, x, y) <=> ~KeyBefore(m, y, x)
           /\ \A z \in Value : y # z /\ KeyBefore(m, x, y) /\ KeyBefore(m, y, z)
                               => x # z /\ KeyBefore(m, x, z)
<1>1. query.sort[m].desc \in BOOLEAN
  <2>1. query.sort[m] \in [field : STRING, desc : BOOLEAN]
    <3> DEFINE R == [field : STRING, desc : BOOLEAN]
               s == query.sort
    <3>1. s \in Seq(R) /\ m \in DOMAIN s
      BY DEF SortType
    <3> HIDE DEF R, s
    <3>2. s[m] \in R
      BY <3>1
    <3> QED
      BY <3>2 DEF R, s
  <2> QED
    BY <2>1
<1>3. \A v, w \in Value : v # w => (Compare(v, w) < 0 <=> ~(Compare(w, v) < 0))
  BY BelowFacts
<1>4. \A u, v, w \in Value : Compare(u, v) < 0 /\ Compare(v, w) < 0 => u # w /\ Compare(u, w) < 0
  BY BelowTransitive
<1>5. CASE query.sort[m].desc = FALSE
  <2>1. ASSUME NEW v \in Value, NEW w \in Value
        PROVE  KeyBefore(m, v, w) <=> Compare(v, w) < 0
    <3>1. (Compare(v, w) < 0) \in BOOLEAN
      <4>1. Compare(v, w) \in {-1, 0, 1}
        BY BelowFacts
      <4> QED
        BY <4>1
    <3> QED
      BY <1>5, <3>1, Zenon DEF KeyBefore
  <2> QED
    BY <1>3, <1>4, <2>1
<1>6. CASE query.sort[m].desc = TRUE
  <2>1. ASSUME NEW v \in Value, NEW w \in Value
        PROVE  KeyBefore(m, v, w) <=> ~(Compare(v, w) < 0)
    <3>1. (Compare(v, w) < 0) \in BOOLEAN
      <4>1. Compare(v, w) \in {-1, 0, 1}
        BY BelowFacts
      <4> QED
        BY <4>1
    <3> QED
      BY <1>6, <3>1, Zenon DEF KeyBefore
  <2>2. \A v, w \in Value : v # w => (KeyBefore(m, v, w) <=> Compare(w, v) < 0)
    BY <1>3, <2>1
  <2>3. ASSUME NEW z \in Value, y # z, KeyBefore(m, x, y), KeyBefore(m, y, z)
        PROVE  x # z /\ KeyBefore(m, x, z)
    <3>1. Compare(y, x) < 0 /\ Compare(z, y) < 0
      BY <2>2, <2>3
    <3>2. z # x /\ Compare(z, x) < 0
      BY <1>4, <3>1
    <3> QED
      BY <2>2, <3>2
  <2> QED
    BY <1>3, <2>2, <2>3
<1> QED
  BY <1>1, <1>5, <1>6

\* Of entries with the same keys the earlier one is less.
LEMMA LessAgree ==
    ASSUME SortType, NEW a, NEW b, Keyed(a), Keyed(b), Agree(a.keys, b.keys)
    PROVE  EntryLess(a, b) = (a.seq < b.seq)
<1> DEFINE differ == {i \in DOMAIN query.sort : ~EqualValues(a.keys[i], b.keys[i])}
<1>1. \A v \in Value : EqualValues(v, v)
  BY OrderLaws DEF IsOrder, EqualValues, Compare
<1>2. \A i \in DOMAIN query.sort : a.keys[i] \in Value /\ a.keys[i] = b.keys[i]
  BY DEF Keyed, Agree
<1>3. differ = {}
  BY <1>1, <1>2
<1> QED
  BY <1>3, Zenon DEF EntryLess

\* Of others the first key that differs decides.
LEMMA LessDiffer ==
    ASSUME SortType, NEW a, NEW b, Keyed(a), Keyed(b), NEW m, Differ(a.keys, b.keys, m)
    PROVE  EntryLess(a, b) = KeyBefore(m, a.keys[m], b.keys[m])
<1> DEFINE differ == {i \in DOMAIN query.sort : ~EqualValues(a.keys[i], b.keys[i])}
<1>0. PICK n \in Nat : DOMAIN query.sort = 1..n
  BY DEF SortType
<1>1. \A v, w \in Value : EqualValues(v, w) <=> v = w
  BY OrderLaws DEF IsOrder, EqualValues, Compare
<1>2. \A i \in DOMAIN query.sort : a.keys[i] \in Value /\ b.keys[i] \in Value
  BY DEF Keyed
<1>3. m \in DOMAIN query.sort /\ m \in 1..n /\ a.keys[m] # b.keys[m]
  BY <1>0 DEF Keyed, Differ
<1>4. m \in differ /\ differ \subseteq Nat
  BY <1>0, <1>1, <1>2, <1>3
<1>5. \A i \in differ : m <= i
  <2> SUFFICES ASSUME NEW i \in differ, i < m PROVE FALSE
    BY <1>0, <1>3
  <2>1. i \in 1..(m - 1)
    BY <1>0, <1>3
  <2>2. a.keys[i] = b.keys[i]
    BY <2>1 DEF Differ
  <2> QED
    BY <1>1, <1>2, <2>2
<1> HIDE DEF differ
<1>6. PICK k : k = Min(differ)
  OBVIOUS
<1>7. k \in differ /\ \A x \in differ : k <= x
  <2>1. differ # {}
    BY <1>4
  <2> QED
    BY <1>4, <1>6, <2>1, MinFacts
<1>8. k \in Nat /\ m \in Nat /\ k <= m /\ m <= k
  BY <1>4, <1>5, <1>7
<1>9. Min(differ) = m /\ differ # {}
  BY <1>4, <1>6, <1>8
<1> QED
  BY <1>9, Zenon DEF EntryLess, KeyBefore, differ

\* Entries of which no two are from the same place in the scan are in one order.
LEMMA EntriesStrict ==
    ASSUME SortType, NEW S, \A e \in S : Keyed(e), \A a, b \in S : a.seq = b.seq => a = b
    PROVE  Strict(S)
<1>0. \A e \in S : e.seq \in Nat /\ e.keys \in Seq(Value) /\ DOMAIN e.keys = DOMAIN query.sort
  <2>1. PICK n \in Nat : DOMAIN query.sort = 1..n
    BY DEF SortType
  <2> QED
    BY <2>1 DEF Keyed
<1>1. ASSUME NEW a \in S, NEW b \in S
      PROVE  Agree(a.keys, b.keys) \/ \E m : Differ(a.keys, b.keys, m)
  BY <1>0, AgreeOrDiffer
<1>2. ASSUME NEW a \in S, NEW b \in S, NEW m, Differ(a.keys, b.keys, m)
      PROVE  /\ m \in DOMAIN query.sort /\ a.keys[m] \in Value /\ b.keys[m] \in Value
             /\ a.keys[m] # b.keys[m] /\ Differ(b.keys, a.keys, m)
  BY <1>0, <1>2 DEF Differ, Keyed
<1>3. ASSUME NEW a \in S, NEW b \in S, Agree(a.keys, b.keys)
      PROVE  Agree(b.keys, a.keys)
  BY <1>3 DEF Agree
<1>4. ASSUME NEW a \in S, NEW b \in S, Agree(a.keys, b.keys)
      PROVE  EntryLess(a, b) = (a.seq < b.seq)
  BY <1>4, LessAgree
<1>5. ASSUME NEW a \in S, NEW b \in S, NEW m, Differ(a.keys, b.keys, m)
      PROVE  EntryLess(a, b) = KeyBefore(m, a.keys[m], b.keys[m])
  BY <1>5, LessDiffer
<1>6. ASSUME NEW a \in S, NEW b \in S
      PROVE  /\ EntryLess(a, b) \in BOOLEAN
             /\ ~EntryLess(a, a)
             /\ EntryLess(a, b) \/ EntryLess(b, a) \/ a = b
  <2>1. Agree(a.keys, a.keys)
    BY DEF Agree
  <2>2. ~EntryLess(a, a)
    <3>1. EntryLess(a, a) = (a.seq < a.seq)
      BY <1>4, <2>1
    <3>2. ~(a.seq < a.seq)
      BY <1>0
    <3> QED
      BY <3>1, <3>2
  <2>3. CASE Agree(a.keys, b.keys)
    <3>1. EntryLess(a, b) = (a.seq < b.seq) /\ EntryLess(b, a) = (b.seq < a.seq)
      BY <1>3, <1>4, <2>3
    <3>2. a.seq < b.seq \/ b.seq < a.seq \/ a = b
      BY <1>0
    <3>3. EntryLess(a, b) \in BOOLEAN
      BY <3>1
    <3> QED
      BY <2>2, <3>1, <3>2, <3>3
  <2>4. ASSUME NEW m, Differ(a.keys, b.keys, m)
        PROVE  EntryLess(a, b) \in BOOLEAN /\ (EntryLess(a, b) \/ EntryLess(b, a))
    <3>1. /\ m \in DOMAIN query.sort /\ a.keys[m] \in Value /\ b.keys[m] \in Value
          /\ a.keys[m] # b.keys[m] /\ Differ(b.keys, a.keys, m)
      BY <1>2, <2>4
    <3>2. /\ EntryLess(a, b) = KeyBefore(m, a.keys[m], b.keys[m])
          /\ EntryLess(b, a) = KeyBefore(m, b.keys[m], a.keys[m])
      BY <1>5, <2>4, <3>1
    <3>3. KeyBefore(m, a.keys[m], b.keys[m]) <=> ~KeyBefore(m, b.keys[m], a.keys[m])
      BY <3>1, KeyBeforeFacts
    <3>4. KeyBefore(m, a.keys[m], b.keys[m]) \in BOOLEAN
      BY DEF KeyBefore
    <3> QED
      BY <3>2, <3>3, <3>4
  <2> QED
    BY <1>1, <2>2, <2>3, <2>4
<1>7. ASSUME NEW a \in S, NEW b \in S, NEW d \in S, EntryLess(a, b), EntryLess(b, d)
      PROVE  EntryLess(a, d)
  <2>0. DOMAIN a.keys = DOMAIN query.sort /\ DOMAIN b.keys = DOMAIN query.sort /\ DOMAIN d.keys = DOMAIN query.sort
    BY <1>0
  <2>00. PICK n \in Nat : DOMAIN query.sort = 1..n
    BY DEF SortType
  <2>1. CASE Agree(a.keys, b.keys) /\ Agree(b.keys, d.keys)
    <3>1. Agree(a.keys, d.keys)
      BY <2>0, <2>1 DEF Agree
    <3>2. a.seq < b.seq /\ b.seq < d.seq
      BY <1>4, <1>7, <2>1
    <3>3. a.seq < d.seq
      BY <1>0, <3>2
    <3> QED
      BY <1>4, <3>1, <3>3
  <2>2. ASSUME Agree(a.keys, b.keys), NEW m, Differ(b.keys, d.keys, m) PROVE EntryLess(a, d)
    <3>1. m \in DOMAIN query.sort
      BY <1>2, <2>2
    <3>2. a.keys[m] = b.keys[m] /\ Differ(a.keys, d.keys, m)
      BY <2>0, <2>00, <2>2, <3>1 DEF Agree, Differ
    <3>3. EntryLess(a, d) = KeyBefore(m, a.keys[m], d.keys[m])
      BY <1>5, <3>2
    <3>4. EntryLess(b, d) = KeyBefore(m, b.keys[m], d.keys[m])
      BY <1>5, <2>2
    <3> QED
      BY <1>7, <3>2, <3>3, <3>4
  <2>3. ASSUME NEW m, Differ(a.keys, b.keys, m), Agree(b.keys, d.keys) PROVE EntryLess(a, d)
    <3>1. m \in DOMAIN query.sort
      BY <1>2, <2>3
    <3>2. d.keys[m] = b.keys[m] /\ Differ(a.keys, d.keys, m)
      BY <2>0, <2>00, <2>3, <3>1 DEF Agree, Differ
    <3>3. EntryLess(a, d) = KeyBefore(m, a.keys[m], d.keys[m])
      BY <1>5, <3>2
    <3>4. EntryLess(a, b) = KeyBefore(m, a.keys[m], b.keys[m])
      BY <1>5, <2>3
    <3> QED
      BY <1>7, <3>2, <3>3, <3>4
  <2>4. ASSUME NEW m, Differ(a.keys, b.keys, m), NEW k, Differ(b.keys, d.keys, k)
        PROVE  EntryLess(a, d)
    <3>1. /\ m \in DOMAIN query.sort /\ a.keys[m] \in Value /\ b.keys[m] \in Value
          /\ a.keys[m] # b.keys[m]
      BY <1>2, <2>4
    <3>2. /\ k \in DOMAIN query.sort /\ b.keys[k] \in Value /\ d.keys[k] \in Value
          /\ b.keys[k] # d.keys[k]
      BY <1>2, <2>4
    <3>3. /\ EntryLess(a, b) = KeyBefore(m, a.keys[m], b.keys[m])
          /\ EntryLess(b, d) = KeyBefore(k, b.keys[k], d.keys[k])
      BY <1>5, <2>4
    <3>4. CASE m < k
      <4>1. d.keys[m] = b.keys[m] /\ Differ(a.keys, d.keys, m)
        BY <2>0, <2>00, <2>4, <3>1, <3>2, <3>4 DEF Differ
      <4>2. EntryLess(a, d) = KeyBefore(m, a.keys[m], d.keys[m])
        BY <1>5, <4>1
      <4> QED
        BY <1>7, <3>3, <4>1, <4>2
    <3>5. CASE k < m
      <4>1. a.keys[k] = b.keys[k] /\ Differ(a.keys, d.keys, k)
        BY <2>0, <2>00, <2>4, <3>1, <3>2, <3>5 DEF Differ
      <4>2. EntryLess(a, d) = KeyBefore(k, a.keys[k], d.keys[k])
        BY <1>5, <4>1
      <4> QED
        BY <1>7, <3>3, <4>1, <4>2
    <3>6. CASE k = m
      <4>1. KeyBefore(m, a.keys[m], b.keys[m]) /\ KeyBefore(m, b.keys[m], d.keys[m])
        BY <1>7, <3>3, <3>6
      <4>2. d.keys[m] \in Value /\ b.keys[m] # d.keys[m]
        BY <3>2, <3>6
      <4>3. a.keys[m] # d.keys[m] /\ KeyBefore(m, a.keys[m], d.keys[m])
        BY <3>1, <4>1, <4>2, KeyBeforeFacts
      <4>4. Differ(a.keys, d.keys, m)
        BY <2>0, <2>00, <2>4, <3>1, <3>2, <3>6, <4>3 DEF Differ
      <4>5. EntryLess(a, d) = KeyBefore(m, a.keys[m], d.keys[m])
        BY <1>5, <4>4
      <4> QED
        BY <4>3, <4>5
    <3> QED
      BY <2>00, <3>1, <3>2, <3>4, <3>5, <3>6
  <2> QED
    BY <1>1, <2>1, <2>2, <2>3, <2>4, Zenon
<1> QED
  BY <1>6, <1>7, Zenon DEF Strict

-----------------------------------------------------------------------------
\* Places in the order

\* The place of an entry among those of S.
Place(S, e) == Cardinality({f \in S : EntryLess(f, e)}) + 1

\* The entry at a place.
Kth(S, k) == CHOOSE e \in S : Place(S, e) = k

\* A finite set that EntryLess orders.
Lined(S) == IsFiniteSet(S) /\ Strict(S)

\* What an order forbids.
LEMMA StrictFacts ==
    ASSUME NEW S, Strict(S), NEW a \in S, NEW b \in S
    PROVE  /\ EntryLess(a, b) \in BOOLEAN
           /\ ~EntryLess(a, a)
           /\ EntryLess(a, b) \/ EntryLess(b, a) \/ a = b
           /\ EntryLess(a, b) => ~EntryLess(b, a) /\ a # b
           /\ \A d \in S : EntryLess(a, b) /\ EntryLess(b, d) => EntryLess(a, d)
<1>1. /\ EntryLess(a, b) \in BOOLEAN
      /\ ~EntryLess(a, a)
      /\ EntryLess(a, b) \/ EntryLess(b, a) \/ a = b
      /\ \A d \in S : EntryLess(a, b) /\ EntryLess(b, d) => EntryLess(a, d)
  BY Zenon DEF Strict
<1>2. EntryLess(a, b) => ~EntryLess(b, a)
  BY <1>1
<1> QED
  BY <1>1, <1>2, Zenon

\* Fewer entries are in order too.
LEMMA StrictSubset ==
    ASSUME NEW A, Strict(A), NEW S, S \subseteq A
    PROVE  Strict(S)
BY DEF Strict

\* So are those of a finite set.
LEMMA LinedSubset ==
    ASSUME NEW A, Lined(A), NEW S, S \subseteq A
    PROVE  Lined(S)
BY StrictSubset, FS_Subset DEF Lined

\* Places are counted from 1.
LEMMA PlaceType ==
    ASSUME NEW S, Lined(S), NEW e \in S
    PROVE  Place(S, e) \in 1..Cardinality(S)
<1> DEFINE B == {f \in S : EntryLess(f, e)}
<1>1. IsFiniteSet(S) /\ ~EntryLess(e, e)
  BY StrictFacts DEF Lined
<1>2. B \subseteq S /\ e \notin B
  BY <1>1
<1> HIDE DEF B
<1>3. /\ IsFiniteSet(B) /\ Cardinality(B) <= Cardinality(S)
      /\ Cardinality(B) # Cardinality(S)
  BY <1>1, <1>2, FS_Subset
<1>4. Cardinality(B) \in Nat /\ Cardinality(S) \in Nat
  BY <1>1, <1>3, FS_CardinalityType
<1>5. Cardinality(B) + 1 \in 1..Cardinality(S)
  BY <1>3, <1>4
<1> QED
  BY <1>5 DEF Place, B

\* They ascend with the order.
LEMMA PlaceAscends ==
    ASSUME NEW S, Lined(S), NEW a \in S, NEW b \in S, EntryLess(a, b)
    PROVE  Place(S, a) < Place(S, b)
<1> DEFINE B == {f \in S : EntryLess(f, a)}
           C == {f \in S : EntryLess(f, b)}
<1>1. IsFiniteSet(S) /\ ~EntryLess(a, a)
  BY StrictFacts DEF Lined
<1>2. \A f \in S : EntryLess(f, a) => EntryLess(f, b)
  BY StrictFacts DEF Lined
<1>3. B \subseteq C /\ C \subseteq S /\ a \in C /\ a \notin B
  BY <1>1, <1>2
<1> HIDE DEF B, C
<1>4. IsFiniteSet(C)
  BY <1>1, <1>3, FS_Subset
<1>5. /\ IsFiniteSet(B) /\ Cardinality(B) <= Cardinality(C)
      /\ Cardinality(B) # Cardinality(C)
  BY <1>3, <1>4, FS_Subset
<1>6. Cardinality(B) \in Nat /\ Cardinality(C) \in Nat
  BY <1>4, <1>5, FS_CardinalityType
<1>7. Cardinality(B) + 1 < Cardinality(C) + 1
  BY <1>5, <1>6
<1> QED
  BY <1>7 DEF Place, B, C

\* They tell entries apart.
LEMMA PlaceTells ==
    ASSUME NEW S, Lined(S), NEW a \in S, NEW b \in S
    PROVE  /\ EntryLess(a, b) <=> Place(S, a) < Place(S, b)
           /\ Place(S, a) = Place(S, b) => a = b
<1>1. Place(S, a) \in 1..Cardinality(S) /\ Place(S, b) \in 1..Cardinality(S)
  BY PlaceType
<1>2. EntryLess(a, b) => Place(S, a) < Place(S, b)
  BY PlaceAscends
<1>3. EntryLess(b, a) => Place(S, b) < Place(S, a)
  BY PlaceAscends
<1>4. EntryLess(a, b) \/ EntryLess(b, a) \/ a = b
  BY StrictFacts DEF Lined
<1> PICK p \in Int : p = Place(S, a)
  BY <1>1
<1> PICK r \in Int : r = Place(S, b)
  BY <1>1
<1>5. EntryLess(a, b) \in BOOLEAN
  BY StrictFacts DEF Lined
<1>6. a = b => p = r
  OBVIOUS
<1> QED
  BY <1>2, <1>3, <1>4, <1>5, <1>6

\* Every place is taken by one entry.
LEMMA KthFacts ==
    ASSUME NEW S, Lined(S)
    PROVE  /\ Cardinality(S) \in Nat
           /\ \A e \in S : Kth(S, Place(S, e)) = e
           /\ \A k \in 1..Cardinality(S) : Kth(S, k) \in S /\ Place(S, Kth(S, k)) = k
<1> DEFINE T == 1..Cardinality(S)
           f == [e \in S |-> Place(S, e)]
<1>1. IsFiniteSet(S) /\ Cardinality(S) \in Nat
  BY FS_CardinalityType DEF Lined
<1>2. \A a, b \in S : Place(S, a) = Place(S, b) => a = b
  BY PlaceTells
<1>3. f \in [S -> T] /\ \A a, b \in S : f[a] = f[b] => a = b
  BY <1>2, PlaceType
<1>4. IsFiniteSet(T) /\ Cardinality(T) = Cardinality(S)
  BY <1>1, FS_Interval
<1> HIDE DEF f, T
<1>5. f \in Injection(S, T)
  BY <1>3 DEF Injection, IsInjective
<1>6. f \in Surjection(S, T)
  BY <1>4, <1>5, FS_Injection
<1>7. ASSUME NEW k \in T
      PROVE  Kth(S, k) \in S /\ Place(S, Kth(S, k)) = k
  <2>1. PICK e \in S : f[e] = k
    BY <1>6 DEF Surjection
  <2>2. \E x \in S : Place(S, x) = k
    BY <2>1 DEF f
  <2> QED
    BY <2>2, Zenon DEF Kth
<1>8. ASSUME NEW e \in S
      PROVE  Kth(S, Place(S, e)) = e
  <2>1. \A x \in S : Place(S, x) = Place(S, e) => x = e
    BY <1>2
  <2> QED
    BY <2>1, Zenon DEF Kth
<1> QED
  BY <1>1, <1>7, <1>8 DEF T

\* The best of the members of A.
Best(S, A) == S \subseteq A /\ \A s \in S, d \in A \ S : EntryLess(s, d)

\* The best of a set are those at its first places.
LEMMA BestFacts ==
    ASSUME NEW A, Lined(A), NEW S, Best(S, A)
    PROVE  /\ Lined(S)
           /\ Cardinality(S) <= Cardinality(A)
           /\ \A k \in 1..Cardinality(S) : Kth(S, k) = Kth(A, k)
           /\ S = {Kth(A, k) : k \in 1..Cardinality(S)}
<1>1. Lined(S) /\ S \subseteq A
  BY LinedSubset DEF Best
<1>2. Cardinality(S) <= Cardinality(A)
  BY <1>1, FS_Subset DEF Lined
<1>3. Cardinality(S) \in Nat /\ Cardinality(A) \in Nat
  BY <1>1, FS_CardinalityType DEF Lined
<1>4. ASSUME NEW s \in S PROVE Place(S, s) = Place(A, s)
  <2>1. ASSUME NEW d \in A, EntryLess(d, s) PROVE d \in S
    <3>1. d \notin S => EntryLess(s, d)
      BY DEF Best
    <3>2. EntryLess(d, s) => ~EntryLess(s, d)
      BY <1>1, StrictFacts DEF Lined
    <3> QED
      BY <2>1, <3>1, <3>2
  <2>2. {f \in S : EntryLess(f, s)} = {f \in A : EntryLess(f, s)}
    BY <1>1, <2>1
  <2> QED
    BY <2>2 DEF Place
<1>5. ASSUME NEW k \in 1..Cardinality(S) PROVE Kth(S, k) = Kth(A, k) /\ Kth(S, k) \in S
  <2>1. Kth(S, k) \in S /\ Place(S, Kth(S, k)) = k
    BY <1>1, KthFacts
  <2>2. Place(A, Kth(S, k)) = k
    BY <1>4, <2>1
  <2>3. Kth(A, Place(A, Kth(S, k))) = Kth(S, k)
    BY <1>1, <2>1, KthFacts
  <2> QED
    BY <2>1, <2>2, <2>3
<1>6. ASSUME NEW s \in S PROVE \E k \in 1..Cardinality(S) : s = Kth(A, k)
  <2>1. Place(S, s) \in 1..Cardinality(S)
    BY <1>1, PlaceType
  <2>2. Kth(S, Place(S, s)) = s
    BY <1>1, KthFacts
  <2> QED
    BY <1>5, <2>1, <2>2
<1>7. S = {Kth(A, k) : k \in 1..Cardinality(S)}
  BY <1>5, <1>6
<1> QED
  BY <1>1, <1>2, <1>5, <1>7

\* A copy of S that keeps the order.
Copies(S, T, g) ==
    /\ g \in [S -> T]
    /\ \A t \in T : \E s \in S : g[s] = t
    /\ \A a, b \in S : EntryLess(g[a], g[b]) = EntryLess(a, b)

\* Copies stand at the same places.
LEMMA CopyFacts ==
    ASSUME NEW S, Lined(S), NEW T, Lined(T), NEW g, Copies(S, T, g)
    PROVE  /\ Cardinality(T) = Cardinality(S)
           /\ \A k \in 1..Cardinality(S) : Kth(T, k) = g[Kth(S, k)]
<1>1. g \in [S -> T] /\ \A t \in T : \E s \in S : g[s] = t
  BY DEF Copies
<1>2. \A a, b \in S : EntryLess(g[a], g[b]) = EntryLess(a, b)
  BY Zenon DEF Copies
<1>3. ASSUME NEW a \in S, NEW b \in S, g[a] = g[b] PROVE a = b
  <2>1. ~EntryLess(g[a], g[a])
    BY <1>1, StrictFacts DEF Lined
  <2>2. ~EntryLess(a, b) /\ ~EntryLess(b, a)
    BY <1>2, <1>3, <2>1
  <2> QED
    BY <2>2, StrictFacts DEF Lined
<1>4. ASSUME NEW U, U \subseteq S
      PROVE  IsFiniteSet(U) /\ Cardinality({g[u] : u \in U}) = Cardinality(U)
  <2> DEFINE V == {g[u] : u \in U}
             h == [u \in U |-> g[u]]
  <2>1. h \in [U -> V] /\ (\A a, b \in U : h[a] = h[b] => a = b) /\ \A v \in V : \E u \in U : h[u] = v
    BY <1>3, <1>4
  <2> HIDE DEF V, h
  <2>2. h \in Bijection(U, V)
    BY <2>1 DEF Bijection, Injection, Surjection, IsInjective
  <2>3. IsFiniteSet(U)
    BY <1>4, FS_Subset DEF Lined
  <2>4. Cardinality(V) = Cardinality(U)
    BY <2>2, <2>3, FS_Bijection DEF ExistsBijection
  <2> QED
    BY <2>3, <2>4 DEF V
<1>5. Cardinality(T) = Cardinality(S)
  <2>1. T = {g[u] : u \in S}
    BY <1>1
  <2> QED
    BY <1>4, <2>1
<1>6. ASSUME NEW s \in S PROVE Place(T, g[s]) = Place(S, s)
  <2> DEFINE U == {f \in S : EntryLess(f, s)}
  <2>1. {f \in T : EntryLess(f, g[s])} = {g[u] : u \in U}
    <3>1. ASSUME NEW f \in T, EntryLess(f, g[s]) PROVE \E u \in U : f = g[u]
      <4>1. PICK u \in S : g[u] = f
        BY <1>1
      <4>2. EntryLess(u, s)
        BY <1>2, <3>1, <4>1
      <4> QED
        BY <4>1, <4>2
    <3>2. ASSUME NEW u \in U PROVE g[u] \in T /\ EntryLess(g[u], g[s])
      BY <1>1, <1>2
    <3> QED
      BY <3>1, <3>2
  <2>2. Cardinality({g[u] : u \in U}) = Cardinality(U)
    BY <1>4
  <2> QED
    BY <2>1, <2>2 DEF Place
<1>7. ASSUME NEW k \in 1..Cardinality(S) PROVE Kth(T, k) = g[Kth(S, k)]
  <2>1. Kth(S, k) \in S /\ Place(S, Kth(S, k)) = k
    BY KthFacts
  <2>2. Place(T, g[Kth(S, k)]) = k /\ g[Kth(S, k)] \in T
    BY <1>1, <1>6, <2>1
  <2>3. Kth(T, Place(T, g[Kth(S, k)])) = g[Kth(S, k)]
    BY <2>2, KthFacts
  <2> QED
    BY <2>2, <2>3
<1> QED
  BY <1>5, <1>7

\* Distinct entries in some order.
Listing(s, S) ==
    /\ s \in Seq(S)
    /\ \A i, j \in 1..Len(s) : s[i] = s[j] => i = j
    /\ \A e \in S : \E i \in 1..Len(s) : s[i] = e

\* A listing is as long as what it lists is large.
LEMMA ListingFacts ==
    ASSUME NEW S, NEW s, Listing(s, S)
    PROVE  /\ Len(s) \in Nat /\ DOMAIN s = 1..Len(s)
           /\ \A i \in 1..Len(s) : s[i] \in S
           /\ ToSet(s) = S
           /\ IsFiniteSet(S)
           /\ Cardinality(S) = Len(s)
<1>1. Len(s) \in Nat /\ DOMAIN s = 1..Len(s) /\ s \in [1..Len(s) -> S]
  BY LenProperties DEF Listing
<1>2. ToSet(s) = S
  BY <1>1 DEF Listing, ToSet
<1> DEFINE T == 1..Len(s)
<1>3. IsFiniteSet(T) /\ Cardinality(T) = Len(s)
  BY <1>1, FS_Interval, SMTT(40)
<1>4. s \in Bijection(T, S)
  BY <1>1 DEF Listing, Bijection, Injection, Surjection, IsInjective
<1> HIDE DEF T
<1>5. IsFiniteSet(S) /\ Cardinality(S) = Cardinality(T)
  BY <1>3, <1>4, FS_Bijection DEF ExistsBijection
<1> QED
  BY <1>1, <1>2, <1>3, <1>5

\* The stable sort of distinct entries is the order of the set of them.
LEMMA SortFacts ==
    ASSUME NEW S, NEW s, Listing(s, S), Strict(S)
    PROVE  SortEntries(s) = [k \in 1..Len(s) |-> Kth(S, k)]
<1> DEFINE before(i) == {j \in DOMAIN s : \/ EntryLess(s[j], s[i])
                                          \/ j < i /\ ~EntryLess(s[i], s[j])}
           place == [i \in DOMAIN s |-> Cardinality(before(i)) + 1]
<1>1. /\ Len(s) \in Nat /\ DOMAIN s = 1..Len(s)
      /\ \A i \in 1..Len(s) : s[i] \in S
      /\ Lined(S) /\ Cardinality(S) = Len(s)
  BY ListingFacts DEF Lined
<1>2. ASSUME NEW i \in 1..Len(s) PROVE place[i] = Place(S, s[i])
  <2> DEFINE B == {f \in S : EntryLess(f, s[i])}
             C == {j \in 1..Len(s) : EntryLess(s[j], s[i])}
             h == [j \in C |-> s[j]]
  <2>1. ASSUME NEW j \in 1..Len(s), j < i, ~EntryLess(s[i], s[j])
        PROVE  EntryLess(s[j], s[i])
    <3>1. s[j] # s[i]
      <4>1. j # i
        BY <2>1
      <4> QED
        BY <4>1 DEF Listing
    <3> QED
      BY <1>1, <2>1, <3>1, StrictFacts
  <2>2. before(i) = C
    BY <1>1, <2>1
  <2>3. /\ h \in [C -> B]
        /\ \A a, b \in C : h[a] = h[b] => a = b
        /\ \A f \in B : \E j \in C : h[j] = f
    <3>1. h \in [C -> B]
      BY <1>1
    <3>2. \A a, b \in C : h[a] = h[b] => a = b
      BY DEF Listing
    <3>3. \A f \in B : \E j \in C : h[j] = f
      BY DEF Listing
    <3> QED
      BY <3>1, <3>2, <3>3
  <2>4. IsFiniteSet(C)
    <3>1. IsFiniteSet(1..Len(s)) /\ C \subseteq 1..Len(s)
      BY <1>1, FS_Interval
    <3> QED
      BY <3>1, FS_Subset
  <2> HIDE DEF B, C, h
  <2>5. h \in Bijection(C, B)
    BY <2>3 DEF Bijection, Injection, Surjection, IsInjective
  <2>6. Cardinality(B) = Cardinality(C)
    BY <2>4, <2>5, FS_Bijection DEF ExistsBijection
  <2> QED
    BY <1>1, <2>2, <2>6 DEF Place, B
<1> HIDE DEF place
<1>3. ASSUME NEW k \in 1..Len(s)
      PROVE  s[CHOOSE i \in DOMAIN s : place[i] = k] = Kth(S, k)
  <2>1. Kth(S, k) \in S /\ Place(S, Kth(S, k)) = k
    BY <1>1, KthFacts
  <2>2. PICK m \in 1..Len(s) : s[m] = Kth(S, k)
    BY <2>1 DEF Listing
  <2>3. m \in DOMAIN s /\ place[m] = k
    BY <1>1, <1>2, <2>1, <2>2
  <2>4. PICK i \in DOMAIN s : i = (CHOOSE n \in DOMAIN s : place[n] = k) /\ place[i] = k
    BY <2>3, Zenon
  <2>5. Place(S, s[i]) = k /\ s[i] \in S
    BY <1>1, <1>2, <2>4
  <2>6. s[i] = Kth(S, k)
    BY <1>1, <2>5, KthFacts
  <2> QED
    BY <2>4, <2>6
<1>4. SortEntries(s) = [k \in DOMAIN s |-> s[CHOOSE i \in DOMAIN s : place[i] = k]]
  BY Zenon DEF SortEntries, place
<1> QED
  BY <1>1, <1>3, <1>4

\* The reference sorts a listing by places as well.
LEMMA OrderedFacts ==
    ASSUME NEW S, NEW s, Listing(s, S), Strict(S), Sorted
    PROVE  Ordered(s) = [k \in 1..Len(s) |-> Kth(S, k)]
<1> DEFINE place == [e \in S |-> Place(S, e)]
<1>1. /\ DOMAIN s = 1..Len(s) /\ ToSet(s) = S
      /\ Lined(S) /\ Cardinality(S) = Len(s)
  BY ListingFacts DEF Lined
<1>2. Ordered(s) = [k \in 1..Len(s) |-> CHOOSE e \in S : place[e] = k]
  <2>1. Ordered(s) = [k \in DOMAIN s |->
                       CHOOSE e \in ToSet(s) : [f \in ToSet(s) |-> Place(ToSet(s), f)][e] = k]
    BY Zenon DEF Ordered, Place
  <2> QED
    BY <1>1, <2>1, Zenon
<1>3. \A e \in S : place[e] = Place(S, e)
  OBVIOUS
<1> HIDE DEF place
<1>4. ASSUME NEW k \in 1..Len(s)
      PROVE  (CHOOSE e \in S : place[e] = k) = Kth(S, k)
  <2>1. Kth(S, k) \in S /\ Place(S, Kth(S, k)) = k
    BY <1>1, KthFacts
  <2>2. place[Kth(S, k)] = k
    BY <1>3, <2>1
  <2>3. PICK e \in S : e = (CHOOSE x \in S : place[x] = k) /\ place[e] = k
    BY <2>1, <2>2, Zenon
  <2>4. e = Kth(S, k)
    BY <1>1, <1>3, <2>3, KthFacts
  <2> QED
    BY <2>3, <2>4
<1> QED
  BY <1>2, <1>4

-----------------------------------------------------------------------------
\* Turns of a loop

\* The states of a loop that begins in x, turn after turn.
Turns(t, x, m, f) == f = [k \in 0..m |-> IF k = 0 THEN x ELSE t[f[k - 1]]]

\* They are what the recursion of Up and Down yields.
LEMMA TurnsExist ==
    ASSUME NEW W, NEW t \in [W -> W], NEW x \in W, NEW m \in Nat
    PROVE  \E f \in [0..m -> W] : Turns(t, x, m, f)
<1> DEFINE S == {k \in Nat : \E f \in [0..k -> W] : Turns(t, x, k, f)}
<1>1. 0 \in S
  <2> DEFINE f == [k \in 0..0 |-> x]
  <2>1. f \in [0..0 -> W] /\ Turns(t, x, 0, f)
    BY DEF Turns
  <2> HIDE DEF f
  <2> QED
    BY <2>1
<1>2. ASSUME NEW k \in 0..(m - 1), k \in S
      PROVE  k + 1 \in S
  <2>1. PICK f \in [0..k -> W] : Turns(t, x, k, f)
    BY <1>2
  <2> DEFINE g == [n \in 0..(k + 1) |-> IF n = k + 1 THEN t[f[k]] ELSE f[n]]
  <2>2. g \in [0..(k + 1) -> W]
    OBVIOUS
  <2>3. \A n \in 0..k : f[n] = IF n = 0 THEN x ELSE t[f[n - 1]]
    BY <2>1 DEF Turns
  <2>4. ASSUME NEW n \in 0..(k + 1)
        PROVE  g[n] = IF n = 0 THEN x ELSE t[g[n - 1]]
    <3>1. CASE n = 0
      BY <2>3, <3>1
    <3>2. CASE n # 0
      <4>1. n - 1 \in 0..k /\ g[n - 1] = f[n - 1]
        BY <3>2
      <4>2. CASE n = k + 1
        BY <3>2, <4>1, <4>2
      <4>3. CASE n # k + 1
        <5>1. n \in 0..k /\ g[n] = f[n]
          BY <4>3
        <5> QED
          BY <2>3, <3>2, <4>1, <5>1
      <4> QED
        BY <4>2, <4>3
    <3> QED
      BY <3>1, <3>2
  <2> HIDE DEF g
  <2>5. Turns(t, x, k + 1, g)
    BY <2>2, <2>4 DEF Turns
  <2> QED
    BY <2>2, <2>5
<1> HIDE DEF S
<1>3. \A k \in 0..m : k \in S
  BY <1>1, <1>2, Climb
<1>4. m \in S
  BY <1>3
<1> QED
  BY <1>4 DEF S

-----------------------------------------------------------------------------
\* The heap

\* A parent lies closer to the root.
LEMMA ParentFacts ==
    ASSUME NEW i \in Nat, i # 0
    PROVE  /\ Parent(i) \in Nat /\ Parent(i) < i
           /\ i = 2 * Parent(i) + 1 \/ i = 2 * Parent(i) + 2
BY DEF Parent

\* The children of a slot are those it is the parent of.
LEMMA ChildParent ==
    ASSUME NEW p \in Nat
    PROVE  Parent(2 * p + 1) = p /\ Parent(2 * p + 2) = p
BY DEF Parent

\* The entry at i is no worse than the one at j.
NoWorse(h, i, j) == ~EntryLess(Slot(h, j), Slot(h, i))

\* Slots hold what is listed.
LEMMA SlotFacts ==
    ASSUME NEW S, NEW h, Listing(h, S), NEW i \in 0..(Len(h) - 1)
    PROVE  Slot(h, i) \in S
<1>1. Len(h) \in Nat /\ \A k \in 1..Len(h) : h[k] \in S
  BY ListingFacts
<1>2. i + 1 \in 1..Len(h)
  BY <1>1
<1> QED
  BY <1>1, <1>2 DEF Slot

\* g is h with the entries at i and j exchanged.
Swapped(S, h, i, j, g) ==
    /\ Listing(g, S) /\ Len(g) = Len(h)
    /\ Slot(g, i) = Slot(h, j) /\ Slot(g, j) = Slot(h, i)
    /\ \A k \in 0..(Len(h) - 1) : k # i /\ k # j => Slot(g, k) = Slot(h, k)

\* A swap lists the same entries.
LEMMA SwapFacts ==
    ASSUME NEW S, NEW h, NEW i \in 0..(Len(h) - 1), NEW j \in 0..(Len(h) - 1), Listing(h, S)
    PROVE  Swapped(S, h, i, j, Swap(h, i, j))
<1> DEFINE n == Len(h)
           g == Swap(h, i, j)
<1>1. n \in Nat /\ DOMAIN h = 1..n /\ h \in [1..n -> S]
  BY ListingFacts, LenProperties DEF Listing
<1>2. h = [k \in 1..n |-> h[k]]
  BY <1>1
<1>3. i + 1 \in 1..n /\ j + 1 \in 1..n
  BY <1>1
<1>4. g = [k \in 1..n |-> IF k = j + 1 THEN h[i + 1] ELSE IF k = i + 1 THEN h[j + 1] ELSE h[k]]
  BY <1>1, <1>3 DEF Swap, Slot
<1>5. g \in [1..n -> S]
  BY <1>1, <1>3, <1>4
<1>6. g \in Seq(S) /\ Len(g) = n
  BY <1>1, <1>5
<1>7. \A a, b \in 1..n : g[a] = g[b] => a = b
  <2>1. \A a, b \in 1..n : h[a] = h[b] => a = b
    BY DEF Listing
  <2> HIDE DEF g, n
  <2> QED
    BY <1>3, <1>4, <2>1
<1>8. \A e \in S : \E a \in 1..n : g[a] = e
  <2> SUFFICES ASSUME NEW e \in S PROVE \E a \in 1..n : g[a] = e
    OBVIOUS
  <2>1. PICK a \in 1..n : h[a] = e
    BY DEF Listing
  <2>2. CASE a = i + 1
    BY <1>3, <1>4, <2>1, <2>2
  <2>3. CASE a = j + 1
    BY <1>3, <1>4, <2>1, <2>3
  <2>4. CASE a # i + 1 /\ a # j + 1
    BY <1>4, <2>1, <2>4
  <2> QED
    BY <2>2, <2>3, <2>4
<1>9. Listing(g, S)
  BY <1>6, <1>7, <1>8 DEF Listing
<1>10. g[i + 1] = h[j + 1] /\ g[j + 1] = h[i + 1]
  BY <1>3, <1>4
<1>11. ASSUME NEW k \in 0..(n - 1), k # i, k # j PROVE g[k + 1] = h[k + 1]
  <2>1. k + 1 \in 1..n /\ k + 1 # i + 1 /\ k + 1 # j + 1
    BY <1>1, <1>11
  <2> QED
    BY <1>4, <2>1
<1> HIDE DEF g
<1> QED
  BY <1>6, <1>9, <1>10, <1>11 DEF Slot, g, Swapped

\* Being no worse is a total preorder.
LEMMA NoWorseFacts ==
    ASSUME NEW S, Strict(S), NEW a \in S, NEW b \in S, NEW c \in S
    PROVE  /\ EntryLess(a, b) => ~EntryLess(b, a)
           /\ ~EntryLess(b, a) /\ ~EntryLess(c, b) => ~EntryLess(c, a)
           /\ EntryLess(a, b) /\ ~EntryLess(c, b) => ~EntryLess(c, a)
<1>1. EntryLess(a, b) => ~EntryLess(b, a)
  BY StrictFacts
<1>2. ASSUME ~EntryLess(b, a), ~EntryLess(c, b), EntryLess(c, a) PROVE FALSE
  <2>1. a = b \/ EntryLess(a, b)
    BY <1>2, StrictFacts
  <2>2. a # b
    BY <1>2
  <2>3. EntryLess(c, b)
    BY <1>2, <2>1, <2>2, StrictFacts
  <2> QED
    BY <1>2, <2>3
<1> QED
  BY <1>1, <1>2

-----------------------------------------------------------------------------
\* Up

\* The loop of up: all is well but between the entry at pos and its parent, and its
\* children are no worse than that parent.
UpInv(S, n, w) ==
    /\ Listing(w.heap, S) /\ Len(w.heap) = n
    /\ w.pos \in 0..(n - 1)
    /\ \A i \in 1..(n - 1) : i # w.pos => NoWorse(w.heap, i, Parent(i))
    /\ \A i \in 1..(n - 1) : w.pos # 0 /\ Parent(i) = w.pos => NoWorse(w.heap, i, Parent(w.pos))

\* Where it ends.
UpSettled(w) == w.pos = 0 \/ ~Less(w.heap, w.pos, Parent(w.pos))

\* A turn keeps that, and ends the loop or goes to the parent.
LEMMA UpTurnFacts ==
    ASSUME NEW S, Strict(S), NEW n \in Nat, NEW w, UpInv(S, n, w)
    PROVE  /\ UpInv(S, n, UpTurn(w))
           /\ UpSettled(w) => UpTurn(w) = w
           /\ ~UpSettled(w) => UpTurn(w).pos < w.pos
<1>1. CASE UpSettled(w)
  BY <1>1, Zenon DEF UpTurn, UpSettled
<1>2. CASE ~UpSettled(w)
  <2> DEFINE h == w.heap
             c == w.pos
             p == Parent(c)
             g == Swap(h, p, c)
  <2>0. UpTurn(w) = [heap |-> g, pos |-> p]
    BY <1>2, Zenon DEF UpTurn, UpSettled
  <2>1. /\ Listing(h, S) /\ Len(h) = n /\ c \in 0..(n - 1) /\ c # 0
        /\ EntryLess(Slot(h, p), Slot(h, c))
    BY <1>2 DEF UpInv, UpSettled, Less
  <2>2. p \in Nat /\ p < c /\ p \in 0..(n - 1)
    <3>1. c \in Nat /\ c < n
      BY <2>1
    <3>2. p \in Nat /\ p < c
      BY <2>1, <3>1, ParentFacts
    <3> QED
      BY <3>1, <3>2
  <2>3. /\ \A i \in 1..(n - 1) : i # c => NoWorse(h, i, Parent(i))
        /\ \A i \in 1..(n - 1) : Parent(i) = c => NoWorse(h, i, p)
    BY <2>1 DEF UpInv
  <2>4. /\ Listing(g, S) /\ Len(g) = n
        /\ Slot(g, p) = Slot(h, c) /\ Slot(g, c) = Slot(h, p)
        /\ \A k \in 0..(n - 1) : k # p /\ k # c => Slot(g, k) = Slot(h, k)
    <3>1. Listing(h, S) /\ p \in 0..(Len(h) - 1) /\ c \in 0..(Len(h) - 1) /\ Len(h) = n
      BY <2>1, <2>2
    <3> HIDE DEF h, p, c
    <3>2. Swapped(S, h, p, c, Swap(h, p, c))
      BY <3>1, SwapFacts
    <3> HIDE DEF g
    <3>3. Swapped(S, h, p, c, g)
      BY <3>2 DEF g
    <3> QED
      BY <3>1, <3>3 DEF Swapped
  <2>5. \A k \in 0..(n - 1) : Slot(h, k) \in S
    BY <2>1, SlotFacts
  <2>6. \A i \in 1..(n - 1) : Parent(i) \in 0..(n - 1) /\ Parent(i) # i /\ i \in 0..(n - 1)
    <3> SUFFICES ASSUME NEW i \in 1..(n - 1)
                 PROVE  Parent(i) \in 0..(n - 1) /\ Parent(i) # i /\ i \in 0..(n - 1)
      OBVIOUS
    <3>1. Parent(i) \in Nat /\ Parent(i) < i
      BY ParentFacts
    <3> QED
      BY <3>1
  <2>7. p = Parent(c)
    OBVIOUS
  <2>8. c \in 0..(n - 1) /\ c \in Nat
    BY <2>1
  <2> HIDE DEF g, h, p, c
  <2>9. \A a, b, d \in S :
          /\ EntryLess(a, b) => ~EntryLess(b, a)
          /\ ~EntryLess(b, a) /\ ~EntryLess(d, b) => ~EntryLess(d, a)
          /\ EntryLess(a, b) /\ ~EntryLess(d, b) => ~EntryLess(d, a)
    BY NoWorseFacts
  <2>10. ASSUME NEW i \in 1..(n - 1), i # p
         PROVE  NoWorse(g, i, Parent(i))
    <3>1. CASE i = c
      <4>1. Slot(g, i) = Slot(h, p) /\ Slot(g, Parent(i)) = Slot(h, c)
        BY <2>4, <2>7, <3>1
      <4>2. ~EntryLess(Slot(h, c), Slot(h, p))
        BY <2>1, <2>2, <2>5, <2>8, <2>9
      <4> QED
        BY <4>1, <4>2 DEF NoWorse
    <3>2. CASE i # c /\ Parent(i) = c
      <4>1. Slot(g, i) = Slot(h, i) /\ Slot(g, Parent(i)) = Slot(h, p)
        BY <2>4, <2>6, <2>10, <3>2
      <4>2. ~EntryLess(Slot(h, p), Slot(h, i))
        BY <2>3, <3>2 DEF NoWorse
      <4> QED
        BY <4>1, <4>2 DEF NoWorse
    <3>3. CASE i # c /\ Parent(i) = p
      <4>1. Slot(g, i) = Slot(h, i) /\ Slot(g, Parent(i)) = Slot(h, c)
        BY <2>4, <2>6, <2>10, <3>3
      <4>2. ~EntryLess(Slot(h, p), Slot(h, i))
        BY <2>3, <3>3 DEF NoWorse
      <4>3. ~EntryLess(Slot(h, c), Slot(h, i))
        <5>1. Slot(h, i) \in S /\ Slot(h, p) \in S /\ Slot(h, c) \in S
          BY <2>2, <2>5, <2>6, <2>8
        <5> QED
          BY <2>1, <2>9, <4>2, <5>1
      <4> QED
        BY <4>1, <4>3 DEF NoWorse
    <3>4. CASE i # c /\ Parent(i) # c /\ Parent(i) # p
      <4>1. Slot(g, i) = Slot(h, i) /\ Slot(g, Parent(i)) = Slot(h, Parent(i))
        BY <2>4, <2>6, <2>10, <3>4
      <4>2. NoWorse(h, i, Parent(i))
        BY <2>3, <3>4
      <4> QED
        BY <4>1, <4>2 DEF NoWorse
    <3> QED
      BY <3>1, <3>2, <3>3, <3>4
  <2>11. ASSUME NEW i \in 1..(n - 1), p # 0, Parent(i) = p
         PROVE  NoWorse(g, i, Parent(p))
    <3>0. p \in 1..(n - 1) /\ p # c
      BY <2>2, <2>8, <2>11
    <3>1. Parent(p) \in 0..(n - 1) /\ Parent(p) # p /\ Parent(p) # c
      <4>1. Parent(p) \in Nat /\ Parent(p) < p
        BY <2>2, <2>11, ParentFacts
      <4> QED
        BY <2>2, <2>8, <4>1
    <3>2. Slot(g, Parent(p)) = Slot(h, Parent(p))
      BY <2>4, <3>1
    <3>3. ~EntryLess(Slot(h, Parent(p)), Slot(h, p))
      BY <2>3, <3>0 DEF NoWorse
    <3>4. CASE i = c
      BY <2>4, <3>2, <3>3, <3>4 DEF NoWorse
    <3>5. CASE i # c
      <4>1. i # p /\ i \in 0..(n - 1)
        BY <2>6, <2>11
      <4>2. Slot(g, i) = Slot(h, i)
        BY <2>4, <3>5, <4>1
      <4>3. ~EntryLess(Slot(h, p), Slot(h, i))
        BY <2>3, <2>11, <3>5 DEF NoWorse
      <4>4. Slot(h, i) \in S /\ Slot(h, p) \in S /\ Slot(h, Parent(p)) \in S
        BY <2>2, <2>5, <3>1, <4>1
      <4>5. ~EntryLess(Slot(h, Parent(p)), Slot(h, i))
        BY <2>9, <3>3, <4>3, <4>4
      <4> QED
        BY <3>2, <4>2, <4>5 DEF NoWorse
    <3> QED
      BY <3>4, <3>5
  <2>12. UpInv(S, n, [heap |-> g, pos |-> p])
    BY <2>2, <2>4, <2>10, <2>11 DEF UpInv
  <2>13. UpTurn(w).pos = p /\ w.pos = c
    BY <2>0 DEF c
  <2> QED
    BY <1>2, <2>0, <2>2, <2>12, <2>13
<1> QED
  BY <1>1, <1>2

-----------------------------------------------------------------------------
\* The heap: pushing

\* h is a heap of the entries of S: none is worse than its parent.
IsHeap(h, S) ==
    /\ Listing(h, S)
    /\ \A i \in 1..(Len(h) - 1) : NoWorse(h, i, Parent(i))

\* Up ends with a heap.
LEMMA UpFacts ==
    ASSUME NEW S, Strict(S), NEW n \in Nat, NEW h, NEW j \in 0..(n - 1),
           UpInv(S, n, [heap |-> h, pos |-> j])
    PROVE  IsHeap(Up(h, j), S) /\ Len(Up(h, j)) = n
<1> DEFINE x == [heap |-> h, pos |-> j]
           W == {w \in [heap : Seq(S), pos : Nat] : UpInv(S, n, w)}
           t == [w \in W |-> UpTurn(w)]
<1>1. \A w \in W : UpInv(S, n, w) /\ w.pos \in Nat
  OBVIOUS
<1>2. x \in W
  <2>1. h \in Seq(S) /\ j \in Nat
    BY DEF UpInv, Listing
  <2> QED
    BY <2>1
<1>3. ASSUME NEW w \in W PROVE UpTurn(w) \in W
  <2>1. UpInv(S, n, UpTurn(w))
    BY UpTurnFacts
  <2>2. UpTurn(w) \in [heap : Seq(S), pos : Nat]
    <3>1. UpTurn(w) = w \/ UpTurn(w) = [heap |-> Swap(w.heap, Parent(w.pos), w.pos), pos |-> Parent(w.pos)]
      BY Zenon DEF UpTurn
    <3>2. CASE UpTurn(w) = w
      BY <3>2
    <3>3. CASE UpTurn(w) = [heap |-> Swap(w.heap, Parent(w.pos), w.pos), pos |-> Parent(w.pos)]
      <4> DEFINE g == Swap(w.heap, Parent(w.pos), w.pos)
                 p == Parent(w.pos)
      <4>0. UpTurn(w) = [heap |-> g, pos |-> p]
        BY <3>3
      <4> HIDE DEF g, p
      <4>1. g \in Seq(S) /\ p \in Nat
        BY <2>1, <4>0 DEF UpInv, Listing
      <4> QED
        BY <4>0, <4>1
    <3> QED
      BY <3>1, <3>2, <3>3
  <2> QED
    BY <2>1, <2>2
<1>4. t \in [W -> W]
  BY <1>3
<1>5. \A w \in W : t[w] = UpTurn(w)
  OBVIOUS
<1> HIDE DEF W, t, x
<1>6. PICK f0 \in [0..j -> W] : Turns(t, x, j, f0)
  BY <1>2, <1>4, TurnsExist
<1>7. f0 = [k \in 0..j |-> IF k = 0 THEN x ELSE UpTurn(f0[k - 1])]
  <2>1. f0 = [k \in 0..j |-> IF k = 0 THEN x ELSE t[f0[k - 1]]]
    BY <1>6 DEF Turns
  <2>2. \A k \in 0..j : k # 0 => f0[k - 1] \in W
    BY <1>6
  <2>3. \A k \in 0..j : k # 0 => t[f0[k - 1]] = UpTurn(f0[k - 1])
    BY <1>5, <2>2
  <2> QED
    BY <2>1, <2>3, Zenon
<1> DEFINE F == CHOOSE f : f = [k \in 0..j |-> IF k = 0 THEN x ELSE UpTurn(f[k - 1])]
<1>8. F = [k \in 0..j |-> IF k = 0 THEN x ELSE UpTurn(F[k - 1])]
  BY <1>7, Zenon
<1>9. Up(h, j) = F[j].heap
  BY Zenon DEF Up, x
<1> HIDE DEF F
<1>10. F[0] = x /\ \A k \in 0..(j - 1) : F[k + 1] = UpTurn(F[k])
  <2>1. \A k \in 0..j : F[k] = IF k = 0 THEN x ELSE UpTurn(F[k - 1])
    BY <1>8
  <2>2. ASSUME NEW k \in 0..(j - 1) PROVE F[k + 1] = UpTurn(F[k])
    <3>1. k + 1 \in 0..j /\ k + 1 # 0 /\ (k + 1) - 1 = k
      OBVIOUS
    <3> QED
      BY <2>1, <3>1
  <2> QED
    BY <2>1, <2>2
<1> DEFINE G == {k \in Nat : F[k] \in W /\ (UpSettled(F[k]) \/ F[k].pos <= j - k)}
<1>11. 0 \in G
  BY <1>2, <1>10 DEF x
<1>12. ASSUME NEW k \in 0..(j - 1), k \in G PROVE k + 1 \in G
  <2>1. F[k] \in W /\ UpInv(S, n, F[k]) /\ F[k].pos \in Nat
    BY <1>1, <1>12
  <2>2. F[k + 1] \in W /\ F[k + 1] = UpTurn(F[k]) /\ F[k + 1].pos \in Nat
    BY <1>1, <1>3, <1>10, <2>1
  <2>3. CASE UpSettled(F[k])
    <3>1. F[k + 1] = F[k]
      BY <2>1, <2>2, <2>3, UpTurnFacts
    <3> QED
      BY <2>2, <2>3, <3>1
  <2>4. CASE ~UpSettled(F[k])
    <3>1. UpTurn(F[k]).pos < F[k].pos
      BY <2>1, <2>4, UpTurnFacts
    <3>2. F[k].pos <= j - k
      BY <1>12, <2>4
    <3>3. F[k + 1].pos <= j - (k + 1)
      BY <2>1, <2>2, <3>1, <3>2
    <3> QED
      BY <2>2, <3>3
  <2> QED
    BY <2>3, <2>4
<1> HIDE DEF G
<1>13. j \in G
  <2>1. \A k \in 0..j : k \in G
    BY <1>11, <1>12, Climb
  <2> QED
    BY <2>1
<1>14. UpInv(S, n, F[j]) /\ UpSettled(F[j])
  <2>1. F[j] \in W /\ (UpSettled(F[j]) \/ F[j].pos <= j - j)
    BY <1>13 DEF G
  <2>2. F[j].pos \in Nat /\ UpInv(S, n, F[j])
    BY <1>1, <2>1
  <2>3. F[j].pos <= j - j => F[j].pos = 0
    BY <2>2
  <2> QED
    BY <2>1, <2>2, <2>3 DEF UpSettled
<1>15. ASSUME NEW w, UpInv(S, n, w), UpSettled(w)
       PROVE  IsHeap(w.heap, S) /\ Len(w.heap) = n
  <2>1. ASSUME NEW i \in 1..(n - 1) PROVE NoWorse(w.heap, i, Parent(i))
    <3>1. CASE i = w.pos
      <4>1. w.pos # 0
        BY <3>1
      <4> QED
        BY <1>15, <3>1, <4>1, Zenon DEF UpSettled, Less, NoWorse
    <3>2. CASE i # w.pos
      BY <1>15, <3>2 DEF UpInv
    <3> QED
      BY <3>1, <3>2
  <2> QED
    BY <1>15, <2>1 DEF UpInv, IsHeap
<1> QED
  BY <1>9, <1>14, <1>15

\* g is h with e behind it.
Appended(S, h, e, g) ==
    /\ Listing(g, S \cup {e}) /\ Len(g) = Len(h) + 1
    /\ \A i \in 0..(Len(h) - 1) : Slot(g, i) = Slot(h, i)
    /\ Slot(g, Len(h)) = e

\* An appended entry is listed last.
LEMMA AppendFacts ==
    ASSUME NEW S, NEW h, NEW e, Listing(h, S), e \notin S
    PROVE  Appended(S, h, e, Append(h, e))
<1> DEFINE n == Len(h)
           g == Append(h, e)
           T == S \cup {e}
<1>1. n \in Nat /\ DOMAIN h = 1..n /\ h \in [1..n -> S] /\ h \in Seq(T)
  <2>1. n \in Nat /\ DOMAIN h = 1..n /\ h \in [1..n -> S]
    BY ListingFacts, LenProperties DEF Listing
  <2>2. h \in [1..n -> T]
    BY <2>1
  <2> QED
    BY <2>1, <2>2
<1>2. /\ g \in Seq(T) /\ Len(g) = n + 1
      /\ \A i \in 1..n : g[i] = h[i]
      /\ g[n + 1] = e
  BY <1>1, AppendProperties
<1>3. \A a, b \in 1..n : h[a] = h[b] => a = b
  BY DEF Listing
<1>4. \A a \in 1..n : h[a] \in S
  BY <1>1
<1> HIDE DEF g
<1>5. \A a, b \in 1..(n + 1) : g[a] = g[b] => a = b
  <2> SUFFICES ASSUME NEW a \in 1..(n + 1), NEW b \in 1..(n + 1), g[a] = g[b] PROVE a = b
    OBVIOUS
  <2>1. CASE a \in 1..n /\ b \in 1..n
    BY <1>2, <1>3, <2>1
  <2>2. CASE a = n + 1 /\ b = n + 1
    BY <2>2
  <2>3. CASE a \in 1..n /\ b = n + 1
    BY <1>2, <1>4, <2>3
  <2>4. CASE a = n + 1 /\ b \in 1..n
    BY <1>2, <1>4, <2>4
  <2>5. (a \in 1..n \/ a = n + 1) /\ (b \in 1..n \/ b = n + 1)
    BY <1>1
  <2> QED
    BY <2>1, <2>2, <2>3, <2>4, <2>5
<1>6. \A d \in T : \E a \in 1..(n + 1) : g[a] = d
  <2> SUFFICES ASSUME NEW d \in T PROVE \E a \in 1..(n + 1) : g[a] = d
    OBVIOUS
  <2>1. CASE d = e
    <3>1. n + 1 \in 1..(n + 1)
      BY <1>1
    <3> QED
      BY <1>2, <2>1, <3>1
  <2>2. CASE d \in S
    <3>1. PICK a \in 1..n : h[a] = d
      BY <2>2 DEF Listing
    <3>2. a \in 1..(n + 1) /\ g[a] = d
      BY <1>1, <1>2, <3>1
    <3> QED
      BY <3>2
  <2> QED
    BY <2>1, <2>2
<1>7. Listing(g, T)
  BY <1>2, <1>5, <1>6 DEF Listing
<1>8. \A i \in 0..(n - 1) : g[i + 1] = h[i + 1]
  <2> SUFFICES ASSUME NEW i \in 0..(n - 1) PROVE g[i + 1] = h[i + 1]
    OBVIOUS
  <2>1. i + 1 \in 1..n
    BY <1>1
  <2> QED
    BY <1>2, <2>1
<1> QED
  BY <1>2, <1>7, <1>8 DEF Slot, g, Appended

\* Push makes a heap of one entry more.
LEMMA PushFacts ==
    ASSUME NEW S, NEW h, NEW e, IsHeap(h, S), e \notin S, Strict(S \cup {e})
    PROVE  IsHeap(Push(h, e), S \cup {e}) /\ Len(Push(h, e)) = Len(h) + 1
<1> DEFINE n == Len(h)
           g == Append(h, e)
           T == S \cup {e}
<1>1. n \in Nat /\ Listing(h, S)
  BY ListingFacts DEF IsHeap
<1>2. /\ Listing(g, T) /\ Len(g) = n + 1
      /\ \A i \in 0..(n - 1) : Slot(g, i) = Slot(h, i)
  <2>1. Appended(S, h, e, g)
    <3>1. Appended(S, h, e, Append(h, e))
      <4> HIDE DEF g, T, n
      <4> QED
        BY <1>1, AppendFacts
    <3> QED
      BY <3>1
  <2> HIDE DEF g
  <2> QED
    BY <2>1 DEF Appended
<1>3. \A i \in 1..(n - 1) : NoWorse(h, i, Parent(i))
  BY DEF IsHeap
<1> HIDE DEF g, T, n
<1>4. ASSUME NEW i \in 1..n PROVE Parent(i) \in 0..(n - 1)
  <2>1. Parent(i) \in Nat /\ Parent(i) < i
    BY <1>1, ParentFacts
  <2> QED
    BY <1>1, <2>1
<1>5. ASSUME NEW i \in 1..n, i # n PROVE NoWorse(g, i, Parent(i))
  <2>1. i \in 1..(n - 1) /\ i \in 0..(n - 1) /\ Parent(i) \in 0..(n - 1)
    BY <1>1, <1>4, <1>5
  <2> QED
    BY <1>2, <1>3, <2>1 DEF NoWorse
<1>6. ASSUME NEW i \in 1..n PROVE Parent(i) # n
  BY <1>1, <1>4
<1>7. (n + 1) - 1 = n /\ n \in 0..n /\ n + 1 \in Nat
  BY <1>1
<1>8. UpInv(T, n + 1, [heap |-> g, pos |-> n])
  BY <1>2, <1>5, <1>6, <1>7 DEF UpInv
<1>9. IsHeap(Up(g, n), T) /\ Len(Up(g, n)) = n + 1
  BY <1>7, <1>8, UpFacts DEF T
<1> QED
  BY <1>9 DEF Push, g, n, T

\* The root is the worst entry.
LEMMA RootWorst ==
    ASSUME NEW S, Strict(S), NEW h, IsHeap(h, S), NEW i \in 0..(Len(h) - 1)
    PROVE  NoWorse(h, i, 0)
<1> DEFINE n == Len(h)
           B == {k \in 0..(n - 1) : ~NoWorse(h, k, 0)}
<1>1. n \in Nat /\ Listing(h, S)
  BY ListingFacts DEF IsHeap
<1>2. \A k \in 0..(n - 1) : Slot(h, k) \in S
  BY <1>1, SlotFacts
<1>3. ASSUME NEW x \in B PROVE FALSE
  <2>1. B \subseteq Nat
    OBVIOUS
  <2> HIDE DEF B
  <2>2. PICK k \in B : \A b \in B : k <= b
    BY <1>3, <2>1, LeastNat
  <2>3. k \in 0..(n - 1) /\ ~NoWorse(h, k, 0) /\ 0 \in 0..(n - 1)
    BY <1>1, <2>2 DEF B
  <2>4. k # 0
    <3>1. ~EntryLess(Slot(h, 0), Slot(h, 0))
      BY <1>2, <2>3, StrictFacts
    <3> QED
      BY <2>3, <3>1 DEF NoWorse
  <2>5. Parent(k) \in 0..(n - 1) /\ Parent(k) < k
    <3>1. Parent(k) \in Nat /\ Parent(k) < k
      BY <2>3, <2>4, ParentFacts
    <3> QED
      BY <1>1, <2>3, <3>1
  <2>6. NoWorse(h, Parent(k), 0)
    <3>1. Parent(k) \notin B
      BY <2>2, <2>3, <2>5
    <3> QED
      BY <2>5, <3>1 DEF B
  <2>7. NoWorse(h, k, Parent(k))
    <3>1. k \in 1..(n - 1)
      BY <1>1, <2>3, <2>4
    <3> QED
      BY <3>1 DEF IsHeap
  <2>8. Slot(h, k) \in S /\ Slot(h, Parent(k)) \in S /\ Slot(h, 0) \in S
    BY <1>2, <2>3, <2>5
  <2>9. ~EntryLess(Slot(h, 0), Slot(h, k))
    BY <2>6, <2>7, <2>8, NoWorseFacts DEF NoWorse
  <2> QED
    BY <2>3, <2>9 DEF NoWorse
<1> QED
  BY <1>3

-----------------------------------------------------------------------------
\* Down

\* The loop of down over the first n entries: all is well but between the entry at
\* pos and its children, and these are no worse than its parent.
DownInv(S, n, w) ==
    /\ Listing(w.heap, S) /\ Len(w.heap) = n + 1
    /\ w.pos \in 0..n
    /\ \A i \in 1..(n - 1) : Parent(i) # w.pos => NoWorse(w.heap, i, Parent(i))
    /\ \A i \in 1..(n - 1) : w.pos # 0 /\ Parent(i) = w.pos => NoWorse(w.heap, i, Parent(w.pos))

\* Where it ends.
DownSettled(w, n) ==
    2 * w.pos + 1 >= n \/ ~Less(w.heap, Child(w.heap, w.pos, n), w.pos)

\* The worse child, or the only one.
LEMMA ChildFacts ==
    ASSUME NEW S, Strict(S), NEW h, Listing(h, S), NEW n \in Nat, Len(h) = n + 1,
           NEW p \in Nat, 2 * p + 1 < n
    PROVE  /\ Child(h, p, n) \in 1..(n - 1) /\ Parent(Child(h, p, n)) = p
           /\ \A i \in 1..(n - 1) : Parent(i) = p => NoWorse(h, i, Child(h, p, n))
<1> DEFINE l == 2 * p + 1
           r == 2 * p + 2
           c == Child(h, p, n)
<1>1. l \in 1..(n - 1) /\ l \in 0..(Len(h) - 1)
  OBVIOUS
<1>2. r < n => r \in 1..(n - 1) /\ r \in 0..(Len(h) - 1)
  OBVIOUS
<1>3. Parent(l) = p /\ Parent(r) = p
  BY ChildParent
<1>4. \A i \in 1..(n - 1) : Parent(i) = p => i = l \/ (i = r /\ r < n)
  <2> SUFFICES ASSUME NEW i \in 1..(n - 1), Parent(i) = p PROVE i = l \/ (i = r /\ r < n)
    OBVIOUS
  <2>1. i = 2 * Parent(i) + 1 \/ i = 2 * Parent(i) + 2
    BY ParentFacts
  <2> QED
    BY <2>1
<1>5. c = IF r < n /\ Less(h, r, l) THEN r ELSE l
  BY Zenon DEF Child
<1>6. r \in Nat /\ l \in Nat
  OBVIOUS
<1> HIDE DEF l, r, c
<1>7. Slot(h, l) \in S /\ (r < n => Slot(h, r) \in S)
  BY <1>1, <1>2, SlotFacts
<1>8. NoWorse(h, l, l) /\ (r < n => NoWorse(h, r, r))
  BY <1>7, StrictFacts DEF NoWorse
<1>9. CASE r < n /\ Less(h, r, l)
  <2>1. c = r
    BY <1>5, <1>9
  <2>2. NoWorse(h, l, r)
    BY <1>7, <1>9, StrictFacts DEF NoWorse, Less
  <2>3. \A i \in 1..(n - 1) : Parent(i) = p => NoWorse(h, i, c)
    BY <1>4, <1>8, <1>9, <2>1, <2>2
  <2> QED
    BY <1>2, <1>3, <1>9, <2>1, <2>3 DEF c
<1>10. CASE ~(r < n /\ Less(h, r, l))
  <2>1. c = l
    BY <1>5, <1>10
  <2>2. r < n => NoWorse(h, r, l)
    BY <1>10 DEF NoWorse, Less
  <2>3. \A i \in 1..(n - 1) : Parent(i) = p => NoWorse(h, i, c)
    BY <1>4, <1>8, <2>1, <2>2
  <2> QED
    BY <1>1, <1>3, <2>1, <2>3 DEF c
<1> QED
  BY <1>9, <1>10

\* A turn keeps that, and ends the loop or goes to a child.
LEMMA DownTurnFacts ==
    ASSUME NEW S, Strict(S), NEW n \in Nat, NEW w, DownInv(S, n, w)
    PROVE  /\ DownInv(S, n, DownTurn(w, n))
           /\ Slot(DownTurn(w, n).heap, n) = Slot(w.heap, n)
           /\ DownSettled(w, n) => DownTurn(w, n) = w
           /\ ~DownSettled(w, n) => DownTurn(w, n).pos > w.pos
<1>1. CASE DownSettled(w, n)
  <2>1. DownTurn(w, n) = w
    BY <1>1, Zenon DEF DownTurn, DownSettled
  <2> QED
    BY <1>1, <2>1
<1>2. CASE ~DownSettled(w, n)
  <2> DEFINE h == w.heap
             p == w.pos
             c == Child(h, p, n)
             g == Swap(h, p, c)
  <2>0. DownTurn(w, n) = [heap |-> g, pos |-> c]
    BY <1>2, Zenon DEF DownTurn, DownSettled
  <2>1. /\ Listing(h, S) /\ Len(h) = n + 1 /\ p \in 0..n
        /\ EntryLess(Slot(h, p), Slot(h, c))
    BY <1>2, Zenon DEF DownInv, DownSettled, Less
  <2>2. p \in Nat /\ 2 * p + 1 < n
    <3>1. ~(2 * p + 1 >= n)
      BY <1>2, Zenon DEF DownSettled
    <3>2. p \in Nat
      BY <2>1
    <3> QED
      BY <3>1, <3>2
  <2>3. /\ \A i \in 1..(n - 1) : Parent(i) # p => NoWorse(h, i, Parent(i))
        /\ \A i \in 1..(n - 1) : p # 0 /\ Parent(i) = p => NoWorse(h, i, Parent(p))
    BY DEF DownInv
  <2>4. /\ c \in 1..(n - 1) /\ Parent(c) = p
        /\ \A i \in 1..(n - 1) : Parent(i) = p => NoWorse(h, i, c)
    <3>1. /\ Child(h, p, n) \in 1..(n - 1) /\ Parent(Child(h, p, n)) = p
          /\ \A i \in 1..(n - 1) : Parent(i) = p => NoWorse(h, i, Child(h, p, n))
      <4> HIDE DEF h, p, c, g
      <4> QED
        BY <2>1, <2>2, ChildFacts
    <3> QED
      BY <3>1
  <2>5. p < c /\ p \in 0..(n - 1) /\ c \in Nat
    <3>1. Parent(c) < c
      BY <2>4, ParentFacts
    <3> QED
      BY <2>2, <2>4, <3>1
  <2> HIDE DEF g, h, p, c
  <2>6. /\ Listing(g, S) /\ Len(g) = n + 1
        /\ Slot(g, p) = Slot(h, c) /\ Slot(g, c) = Slot(h, p)
        /\ \A k \in 0..n : k # p /\ k # c => Slot(g, k) = Slot(h, k)
    <3>1. (n + 1) - 1 = n /\ p \in 0..n /\ c \in 0..n
      BY <2>4, <2>5
    <3>2. p \in 0..(Len(h) - 1) /\ c \in 0..(Len(h) - 1)
      BY <2>1, <3>1
    <3> QED
      <4>1. Swapped(S, h, p, c, Swap(h, p, c))
        BY <2>1, <3>2, SwapFacts
      <4>2. Swapped(S, h, p, c, g)
        BY <4>1 DEF g
      <4> QED
        BY <2>1, <3>1, <4>2 DEF Swapped
  <2>7. \A k \in 0..n : Slot(h, k) \in S
    <3>1. (n + 1) - 1 = n
      OBVIOUS
    <3> QED
      BY <2>1, <3>1, SlotFacts
  <2>8. \A i \in 1..(n - 1) : Parent(i) \in 0..n /\ Parent(i) # i /\ i \in 0..n
    <3> SUFFICES ASSUME NEW i \in 1..(n - 1)
                 PROVE  Parent(i) \in 0..n /\ Parent(i) # i /\ i \in 0..n
      OBVIOUS
    <3>1. Parent(i) \in Nat /\ Parent(i) < i
      BY ParentFacts
    <3> QED
      BY <3>1
  <2>9. Slot(h, c) \in S /\ Slot(h, p) \in S
    BY <2>4, <2>5, <2>7
  <2>10. ASSUME NEW i \in 1..(n - 1), Parent(i) # c
         PROVE  NoWorse(g, i, Parent(i))
    <3>1. CASE i = c
      <4>1. Slot(g, i) = Slot(h, p) /\ Slot(g, Parent(i)) = Slot(h, c)
        BY <2>4, <2>6, <3>1
      <4>2. ~EntryLess(Slot(h, c), Slot(h, p))
        BY <2>1, <2>9, NoWorseFacts
      <4> QED
        BY <4>1, <4>2 DEF NoWorse
    <3>2. CASE i # c /\ Parent(i) = p
      <4>1. i # p /\ Slot(g, i) = Slot(h, i) /\ Slot(g, Parent(i)) = Slot(h, c)
        BY <2>6, <2>8, <3>2
      <4>2. NoWorse(h, i, c)
        BY <2>4, <3>2
      <4> QED
        BY <4>1, <4>2 DEF NoWorse
    <3>3. CASE i = p
      <4>1. p # 0 /\ Parent(p) # p /\ Parent(p) # c /\ Parent(p) \in 0..n
        BY <2>8, <2>10, <3>3
      <4>2. Slot(g, i) = Slot(h, c) /\ Slot(g, Parent(i)) = Slot(h, Parent(p))
        BY <2>6, <3>3, <4>1
      <4>3. NoWorse(h, c, Parent(p))
        BY <2>3, <2>4, <4>1
      <4> QED
        BY <4>2, <4>3 DEF NoWorse
    <3>4. CASE i # c /\ i # p /\ Parent(i) # p
      <4>1. Slot(g, i) = Slot(h, i) /\ Slot(g, Parent(i)) = Slot(h, Parent(i))
        BY <2>6, <2>8, <2>10, <3>4
      <4>2. NoWorse(h, i, Parent(i))
        BY <2>3, <3>4
      <4> QED
        BY <4>1, <4>2 DEF NoWorse
    <3> QED
      BY <3>1, <3>2, <3>3, <3>4
  <2>11. ASSUME NEW i \in 1..(n - 1), Parent(i) = c
         PROVE  NoWorse(g, i, Parent(c))
    <3>1. i # c /\ i # p
      <4>1. Parent(i) \in Nat /\ Parent(i) < i
        BY ParentFacts
      <4> QED
        BY <2>5, <2>11, <4>1
    <3>2. Slot(g, i) = Slot(h, i) /\ Slot(g, Parent(c)) = Slot(h, c)
      BY <2>4, <2>6, <2>8, <3>1
    <3>3. NoWorse(h, i, Parent(i))
      BY <2>3, <2>5, <2>11
    <3> QED
      BY <2>11, <3>2, <3>3 DEF NoWorse
  <2>12. DownInv(S, n, [heap |-> g, pos |-> c])
    <3>1. c \in 0..n
      BY <2>4
    <3> QED
      BY <2>6, <2>10, <2>11, <3>1 DEF DownInv
  <2>13. Slot(g, n) = Slot(h, n)
    <3>1. n \in 0..n /\ n # p /\ n # c
      BY <2>4, <2>5
    <3> QED
      BY <2>6, <3>1
  <2>14. DownTurn(w, n).pos = c /\ DownTurn(w, n).heap = g /\ w.pos = p /\ w.heap = h
    BY <2>0 DEF p, h
  <2> QED
    BY <1>2, <2>0, <2>5, <2>12, <2>13, <2>14
<1> QED
  BY <1>1, <1>2

\* Down ends with a heap.
LEMMA DownFacts ==
    ASSUME NEW S, Strict(S), NEW n \in Nat, NEW h,
           DownInv(S, n, [heap |-> h, pos |-> 0])
    PROVE  /\ Listing(Down(h, 0, n), S) /\ Len(Down(h, 0, n)) = n + 1
           /\ Slot(Down(h, 0, n), n) = Slot(h, n)
           /\ \A i \in 1..(n - 1) : NoWorse(Down(h, 0, n), i, Parent(i))
<1> DEFINE x == [heap |-> h, pos |-> 0]
           W == {w \in [heap : Seq(S), pos : Nat] :
                   DownInv(S, n, w) /\ Slot(w.heap, n) = Slot(h, n)}
           t == [w \in W |-> DownTurn(w, n)]
<1>1. \A w \in W : DownInv(S, n, w) /\ w.pos \in Nat /\ Slot(w.heap, n) = Slot(h, n)
  OBVIOUS
<1>2. x \in W
  <2>1. h \in Seq(S)
    BY DEF DownInv, Listing
  <2> QED
    BY <2>1
<1>3. ASSUME NEW w \in W PROVE DownTurn(w, n) \in W
  <2>1. DownInv(S, n, DownTurn(w, n)) /\ Slot(DownTurn(w, n).heap, n) = Slot(h, n)
    BY <1>1, DownTurnFacts
  <2>2. DownTurn(w, n) \in [heap : Seq(S), pos : Nat]
    <3> DEFINE c == Child(w.heap, w.pos, n)
               g == Swap(w.heap, w.pos, c)
    <3>1. DownTurn(w, n) = w \/ DownTurn(w, n) = [heap |-> g, pos |-> c]
      BY Zenon DEF DownTurn
    <3> HIDE DEF g, c
    <3>2. CASE DownTurn(w, n) = w
      BY <3>2
    <3>3. CASE DownTurn(w, n) = [heap |-> g, pos |-> c]
      <4>1. g \in Seq(S) /\ c \in Nat
        BY <2>1, <3>3 DEF DownInv, Listing
      <4> QED
        BY <3>3, <4>1
    <3> QED
      BY <3>1, <3>2, <3>3
  <2> QED
    BY <2>1, <2>2
<1>4. t \in [W -> W]
  BY <1>3
<1>5. \A w \in W : t[w] = DownTurn(w, n)
  OBVIOUS
<1> HIDE DEF W, t, x
<1>6. PICK f0 \in [0..n -> W] : Turns(t, x, n, f0)
  BY <1>2, <1>4, TurnsExist
<1>7. f0 = [k \in 0..n |-> IF k = 0 THEN x ELSE DownTurn(f0[k - 1], n)]
  <2>1. f0 = [k \in 0..n |-> IF k = 0 THEN x ELSE t[f0[k - 1]]]
    BY <1>6 DEF Turns
  <2>2. \A k \in 0..n : k # 0 => f0[k - 1] \in W
    BY <1>6
  <2>3. \A k \in 0..n : k # 0 => t[f0[k - 1]] = DownTurn(f0[k - 1], n)
    BY <1>5, <2>2
  <2> QED
    BY <2>1, <2>3, Zenon
<1> DEFINE F == CHOOSE f : f = [k \in 0..n |-> IF k = 0 THEN x ELSE DownTurn(f[k - 1], n)]
<1>8. F = [k \in 0..n |-> IF k = 0 THEN x ELSE DownTurn(F[k - 1], n)]
  BY <1>7, Zenon
<1>9. Down(h, 0, n) = F[n].heap
  BY Zenon DEF Down, x
<1> HIDE DEF F
<1>10. F[0] = x /\ \A k \in 0..(n - 1) : F[k + 1] = DownTurn(F[k], n)
  <2>1. \A k \in 0..n : F[k] = IF k = 0 THEN x ELSE DownTurn(F[k - 1], n)
    BY <1>8
  <2>2. ASSUME NEW k \in 0..(n - 1) PROVE F[k + 1] = DownTurn(F[k], n)
    <3>1. k + 1 \in 0..n /\ k + 1 # 0 /\ (k + 1) - 1 = k
      OBVIOUS
    <3> QED
      BY <2>1, <3>1
  <2> QED
    BY <2>1, <2>2
<1> DEFINE G == {k \in Nat : F[k] \in W /\ (DownSettled(F[k], n) \/ F[k].pos >= k)}
<1>11. 0 \in G
  BY <1>2, <1>10 DEF x
<1>12. ASSUME NEW k \in 0..(n - 1), k \in G PROVE k + 1 \in G
  <2>1. F[k] \in W /\ DownInv(S, n, F[k]) /\ F[k].pos \in Nat
    BY <1>1, <1>12
  <2>2. F[k + 1] \in W /\ F[k + 1] = DownTurn(F[k], n) /\ F[k + 1].pos \in Nat
    BY <1>1, <1>3, <1>10, <2>1
  <2>3. CASE DownSettled(F[k], n)
    <3>1. F[k + 1] = F[k]
      BY <2>1, <2>2, <2>3, DownTurnFacts
    <3> QED
      BY <2>2, <2>3, <3>1
  <2>4. CASE ~DownSettled(F[k], n)
    <3>1. DownTurn(F[k], n).pos > F[k].pos
      BY <2>1, <2>4, DownTurnFacts
    <3>2. F[k].pos >= k
      BY <1>12, <2>4
    <3>3. F[k + 1].pos >= k + 1
      BY <2>1, <2>2, <3>1, <3>2
    <3> QED
      BY <2>2, <3>3
  <2> QED
    BY <2>3, <2>4
<1> HIDE DEF G
<1>13. n \in G
  <2>1. \A k \in 0..n : k \in G
    BY <1>11, <1>12, Climb
  <2> QED
    BY <2>1
<1>14. F[n] \in W /\ DownInv(S, n, F[n]) /\ DownSettled(F[n], n)
  <2>1. F[n] \in W /\ (DownSettled(F[n], n) \/ F[n].pos >= n)
    BY <1>13 DEF G
  <2>2. F[n].pos \in Nat /\ DownInv(S, n, F[n])
    BY <1>1, <2>1
  <2>3. F[n].pos >= n => 2 * F[n].pos + 1 >= n
    BY <2>2
  <2> QED
    BY <2>1, <2>2, <2>3 DEF DownSettled
<1>15. ASSUME NEW w, DownInv(S, n, w), DownSettled(w, n), NEW i \in 1..(n - 1)
       PROVE  NoWorse(w.heap, i, Parent(i))
  <2> DEFINE p == w.pos
             g == w.heap
  <2>1. Listing(g, S) /\ Len(g) = n + 1 /\ p \in 0..n
    BY <1>15 DEF DownInv
  <2>2. CASE Parent(i) # p
    BY <1>15, <2>2 DEF DownInv
  <2>3. CASE Parent(i) = p
    <3>1. p \in Nat /\ 2 * p + 1 < n
      <4>1. i = 2 * Parent(i) + 1 \/ i = 2 * Parent(i) + 2
        BY ParentFacts
      <4>2. p \in Nat
        BY <2>1
      <4> HIDE DEF p
      <4> QED
        BY <2>3, <4>1, <4>2
    <3>2. ~Less(g, Child(g, p, n), p)
      <4>1. ~(2 * p + 1 >= n)
        <5> HIDE DEF p
        <5> QED
          BY <3>1
      <4> QED
        BY <1>15, <4>1, Zenon DEF DownSettled
    <3> HIDE DEF p, g
    <3>3. /\ Child(g, p, n) \in 1..(n - 1)
          /\ NoWorse(g, i, Child(g, p, n))
      BY <2>1, <2>3, <3>1, ChildFacts
    <3>4. NoWorse(g, Child(g, p, n), p)
      BY <3>2 DEF NoWorse, Less
    <3>5. Slot(g, i) \in S /\ Slot(g, p) \in S /\ Slot(g, Child(g, p, n)) \in S
      <4>1. /\ i \in 0..(Len(g) - 1) /\ p \in 0..(Len(g) - 1)
            /\ Child(g, p, n) \in 0..(Len(g) - 1)
        BY <2>1, <3>3
      <4> QED
        BY <2>1, <4>1, SlotFacts
    <3>6. ~EntryLess(Slot(g, p), Slot(g, i))
      BY <3>3, <3>4, <3>5, NoWorseFacts DEF NoWorse
    <3> QED
      BY <2>3, <3>6 DEF NoWorse, g
  <2> QED
    BY <2>2, <2>3
<1>16. Listing(F[n].heap, S) /\ Len(F[n].heap) = n + 1 /\ Slot(F[n].heap, n) = Slot(h, n)
  BY <1>1, <1>14 DEF DownInv
<1>17. \A i \in 1..(n - 1) : NoWorse(F[n].heap, i, Parent(i))
  BY <1>14, <1>15
<1> QED
  BY <1>9, <1>16, <1>17

-----------------------------------------------------------------------------
\* The heap: popping, and TopK.Add

\* g is h without its entry in slot n, the last.
Fronted(S, n, h, g) ==
    /\ Listing(g, S \ {Slot(h, n)}) /\ Len(g) = n
    /\ \A i \in 0..(n - 1) : Slot(g, i) = Slot(h, i)

\* Taking off the last entry.
LEMMA FrontFacts ==
    ASSUME NEW S, NEW n \in Nat, NEW h, Listing(h, S), Len(h) = n + 1
    PROVE  Fronted(S, n, h, Front(h))
<1> DEFINE g == Front(h)
           T == S \ {Slot(h, n)}
<1>1. \A i \in 1..(n + 1) : h[i] \in S
  BY ListingFacts
<1>2. \A a, b \in 1..(n + 1) : h[a] = h[b] => a = b
  BY DEF Listing
<1>3. Slot(h, n) = h[n + 1]
  BY DEF Slot
<1>4. \A i \in 1..n : i \in 1..(n + 1) /\ h[i] \in T
  <2> SUFFICES ASSUME NEW i \in 1..n PROVE i \in 1..(n + 1) /\ h[i] \in T
    OBVIOUS
  <2>1. i \in 1..(n + 1) /\ n + 1 \in 1..(n + 1) /\ i # n + 1
    OBVIOUS
  <2> QED
    BY <1>1, <1>2, <1>3, <2>1
<1>5. g = SubSeq(h, 1, n)
  BY DEF Front
<1> HIDE DEF g, T
<1>6. /\ g \in Seq(T) /\ Len(g) = n
      /\ \A i \in 1..n : g[i] = h[i]
  <2>1. /\ SubSeq(h, 1, n) \in Seq(T)
        /\ Len(SubSeq(h, 1, n)) = IF 1 <= n THEN n - 1 + 1 ELSE 0
        /\ \A i \in 1..(n - 1 + 1) : SubSeq(h, 1, n)[i] = h[1 + i - 1]
    BY <1>4, SubSeqProperties
  <2>2. (IF 1 <= n THEN n - 1 + 1 ELSE 0) = n /\ n - 1 + 1 = n /\ \A i \in 1..n : 1 + i - 1 = i
    OBVIOUS
  <2> QED
    BY <1>5, <2>1, <2>2
<1>7. \A a, b \in 1..n : g[a] = g[b] => a = b
  BY <1>2, <1>4, <1>6
<1>8. ASSUME NEW e \in T PROVE \E a \in 1..n : g[a] = e
  <2>1. e \in S /\ e # h[n + 1]
    BY <1>3 DEF T
  <2>2. PICK a \in 1..(n + 1) : h[a] = e
    BY <2>1 DEF Listing
  <2>3. a \in 1..n
    BY <2>1, <2>2
  <2> QED
    BY <1>6, <2>2, <2>3
<1>9. Listing(g, T)
  BY <1>6, <1>7, <1>8 DEF Listing
<1>10. ASSUME NEW i \in 0..(n - 1) PROVE Slot(g, i) = Slot(h, i)
  <2>1. i + 1 \in 1..n
    OBVIOUS
  <2> QED
    BY <1>6, <2>1 DEF Slot
<1> QED
  BY <1>6, <1>9, <1>10 DEF g, T, Fronted

\* Pop makes a heap without the worst entry.
LEMMA PopFacts ==
    ASSUME NEW S, NEW n \in Nat, NEW h, IsHeap(h, S), Strict(S), Len(h) = n + 1
    PROVE  IsHeap(Pop(h), S \ {Slot(h, 0)}) /\ Len(Pop(h)) = n
<1> DEFINE g == Swap(h, 0, n)
           d == Down(g, 0, n)
           w == [heap |-> g, pos |-> 0]
<1>1. 0 \in 0..(Len(h) - 1) /\ n \in 0..(Len(h) - 1) /\ Listing(h, S)
  BY DEF IsHeap
<1>2. Swapped(S, h, 0, n, g)
  <2>1. Swapped(S, h, 0, n, Swap(h, 0, n))
    BY <1>1, SwapFacts
  <2> QED
    BY <2>1
<1>3. \A i \in 1..n : NoWorse(h, i, Parent(i))
  BY DEF IsHeap
<1> HIDE DEF g
<1>4. /\ Listing(g, S) /\ Len(g) = n + 1 /\ Slot(g, n) = Slot(h, 0)
      /\ \A k \in 0..n : k # 0 /\ k # n => Slot(g, k) = Slot(h, k)
  BY <1>2 DEF Swapped
<1>5. ASSUME NEW i \in 1..(n - 1), Parent(i) # 0 PROVE NoWorse(g, i, Parent(i))
  <2>1. Parent(i) \in Nat /\ Parent(i) < i
    BY ParentFacts
  <2>2. Slot(g, i) = Slot(h, i) /\ Slot(g, Parent(i)) = Slot(h, Parent(i))
    BY <1>4, <1>5, <2>1
  <2> QED
    BY <1>3, <2>2 DEF NoWorse
<1>6. DownInv(S, n, w)
  BY <1>4, <1>5 DEF DownInv
<1>7. /\ Listing(d, S) /\ Len(d) = n + 1
      /\ Slot(d, n) = Slot(h, 0)
      /\ \A i \in 1..(n - 1) : NoWorse(d, i, Parent(i))
  <2>1. /\ Listing(Down(g, 0, n), S) /\ Len(Down(g, 0, n)) = n + 1
        /\ Slot(Down(g, 0, n), n) = Slot(g, n)
        /\ \A i \in 1..(n - 1) : NoWorse(Down(g, 0, n), i, Parent(i))
    BY <1>6, DownFacts
  <2> QED
    BY <1>4, <2>1
<1> HIDE DEF d
<1>8. /\ Listing(Front(d), S \ {Slot(d, n)})
      /\ Len(Front(d)) = n
      /\ \A i \in 0..(n - 1) : Slot(Front(d), i) = Slot(d, i)
  <2>1. Fronted(S, n, d, Front(d))
    BY <1>7, FrontFacts
  <2> PICK f : f = Front(d)
    OBVIOUS
  <2> QED
    BY <2>1, Zenon DEF Fronted
<1>9. ASSUME NEW i \in 1..(n - 1) PROVE NoWorse(Front(d), i, Parent(i))
  <2>1. Parent(i) \in Nat /\ Parent(i) < i
    BY ParentFacts
  <2>2. i \in 0..(n - 1) /\ Parent(i) \in 0..(n - 1)
    BY <2>1
  <2> QED
    BY <1>7, <1>8, <2>2 DEF NoWorse
<1>10. IsHeap(Front(d), S \ {Slot(h, 0)})
  BY <1>7, <1>8, <1>9 DEF IsHeap
<1>11. Pop(h) = Front(d)
  <2>1. (n + 1) - 1 = n
    OBVIOUS
  <2> QED
    BY <2>1, Zenon DEF Pop, d, g
<1> QED
  BY <1>8, <1>10, <1>11

\* What Add has made of the heap h of S: the heap g of T.
Added(S, h, e, T, g) ==
    /\ IsHeap(g, T)
    /\ Best(T, S \cup {e})
    /\ IF Len(h) < K THEN T = S \cup {e} /\ Len(g) = Len(h) + 1
       ELSE Len(g) = Len(h) /\ (e \notin T \/ \E r \in S : r \notin T)

\* TopK.Add to a heap that is not empty keeps the best.
LEMMA AddFacts ==
    ASSUME NEW S, NEW h, NEW e, IsHeap(h, S), e \notin S, Strict(S \cup {e}),
           K \in Nat, Len(h) # 0
    PROVE  \E T : Added(S, h, e, T, Add(h, e))
<1>0. PICK n \in Nat : Len(h) = n + 1
  <2>1. Len(h) \in Nat
    BY ListingFacts DEF IsHeap
  <2>2. Len(h) - 1 \in Nat /\ Len(h) = (Len(h) - 1) + 1
    BY <2>1
  <2> QED
    BY <2>2
<1>1. Listing(h, S) /\ Strict(S)
  BY StrictSubset DEF IsHeap
<1>2. Slot(h, 0) \in S /\ \A s \in S : ~EntryLess(Slot(h, 0), s)
  <2>1. 0 \in 0..(Len(h) - 1)
    BY <1>0
  <2>2. Slot(h, 0) \in S
    BY <1>1, <2>1, SlotFacts
  <2>3. ASSUME NEW s \in S PROVE ~EntryLess(Slot(h, 0), s)
    <3>1. PICK a \in 1..Len(h) : h[a] = s
      BY <1>1 DEF Listing
    <3>2. a - 1 \in 0..(Len(h) - 1) /\ (a - 1) + 1 = a
      BY <1>0
    <3>3. Slot(h, a - 1) = s
      BY <3>1, <3>2 DEF Slot
    <3>4. NoWorse(h, a - 1, 0)
      BY <1>1, <3>2, RootWorst
    <3> QED
      BY <3>3, <3>4 DEF NoWorse
  <2> QED
    BY <2>2, <2>3
<1> DEFINE r == Slot(h, 0)
<1> HIDE DEF r
<1>3. CASE Len(h) < K
  <2>1. Add(h, e) = Push(h, e)
    BY <1>3, Zenon DEF Add
  <2>2. IsHeap(Push(h, e), S \cup {e}) /\ Len(Push(h, e)) = Len(h) + 1
    BY PushFacts
  <2>3. Best(S \cup {e}, S \cup {e})
    BY DEF Best
  <2>4. Added(S, h, e, S \cup {e}, Add(h, e))
    BY <1>3, <2>1, <2>2, <2>3 DEF Added
  <2> QED
    BY <2>4
<1>4. CASE ~(Len(h) < K) /\ ~EntryLess(e, r)
  <2>1. Add(h, e) = h
    BY <1>4, Zenon DEF Add, r
  <2>2. ASSUME NEW s \in S PROVE EntryLess(s, e)
    <3>1. r \in S /\ ~EntryLess(r, s) /\ r # e /\ s # e
      BY <1>2 DEF r
    <3>2. r \in S \cup {e} /\ s \in S \cup {e} /\ e \in S \cup {e}
      BY <3>1
    <3>3. EntryLess(r, e)
      BY <1>4, <3>1, <3>2, StrictFacts
    <3>4. s = r \/ EntryLess(s, r)
      BY <3>1, <3>2, StrictFacts
    <3> QED
      BY <3>2, <3>3, <3>4, StrictFacts
  <2>3. Best(S, S \cup {e})
    BY <2>2 DEF Best
  <2>4. Added(S, h, e, S, Add(h, e))
    BY <1>4, <2>1, <2>3 DEF Added
  <2> QED
    BY <2>4
<1>5. CASE ~(Len(h) < K) /\ EntryLess(e, r)
  <2> DEFINE A == S \cup {e}
             g == Push(h, e)
             x == Slot(g, 0)
             T == A \ {x}
  <2>1. Add(h, e) = Pop(g)
    BY <1>5, Zenon DEF Add, r
  <2>2. IsHeap(g, A) /\ Len(g) = (n + 1) + 1 /\ Strict(A)
    BY <1>0, PushFacts
  <2> HIDE DEF g, A
  <2>3. IsHeap(Pop(g), T) /\ Len(Pop(g)) = n + 1
    <3>1. n + 1 \in Nat
      OBVIOUS
    <3> QED
      BY <2>2, <3>1, PopFacts
  <2>4. x \in A /\ \A s \in A : ~EntryLess(x, s)
    <3>1. 0 \in 0..(Len(g) - 1) /\ Listing(g, A)
      BY <2>2 DEF IsHeap
    <3>2. x \in A
      BY <3>1, SlotFacts
    <3>3. ASSUME NEW s \in A PROVE ~EntryLess(x, s)
      <4>1. PICK a \in 1..Len(g) : g[a] = s
        BY <3>1 DEF Listing
      <4>2. a - 1 \in 0..(Len(g) - 1) /\ (a - 1) + 1 = a
        BY <2>2
      <4>3. Slot(g, a - 1) = s
        BY <4>1, <4>2 DEF Slot
      <4>4. NoWorse(g, a - 1, 0)
        BY <2>2, <4>2, RootWorst
      <4> QED
        BY <4>3, <4>4 DEF NoWorse
    <3> QED
      BY <3>2, <3>3
  <2> HIDE DEF x
  <2>5. Best(T, A)
    <3>1. ASSUME NEW s \in T, NEW d \in A \ T PROVE EntryLess(s, d)
      <4>1. d = x /\ s \in A /\ s # x
        BY <3>1
      <4> QED
        BY <2>2, <2>4, <4>1, StrictFacts
    <3> QED
      BY <3>1 DEF Best
  <2>6. x # e /\ x \in S /\ x \notin T
    <3>1. r \in A /\ e \in A
      BY <1>2 DEF A, r
    <3>2. ~EntryLess(x, r)
      BY <2>4, <3>1
    <3>3. x # e
      BY <1>5, <3>2
    <3> QED
      BY <2>4, <3>3 DEF A
  <2>7. Len(Pop(g)) = Len(h)
    BY <1>0, <2>3
  <2>8. Added(S, h, e, T, Add(h, e))
    BY <1>5, <2>1, <2>3, <2>5, <2>6, <2>7 DEF Added, A
  <2> QED
    BY <2>8
<1> QED
  BY <1>3, <1>4, <1>5, SMTT(40)

\* The first entry of all.
LEMMA AddFirst ==
    ASSUME NEW h, NEW e, IsHeap(h, {}), Strict({e}), K \in Nat, 0 < K, Len(h) = 0
    PROVE  Added({}, h, e, {e}, Add(h, e))
<1>1. Add(h, e) = Push(h, e)
  BY Zenon DEF Add
<1>2. {} \cup {e} = {e} /\ e \notin {}
  OBVIOUS
<1>3. IsHeap(Push(h, e), {e}) /\ Len(Push(h, e)) = Len(h) + 1
  <2>1. IsHeap(Push(h, e), {} \cup {e}) /\ Len(Push(h, e)) = Len(h) + 1
    BY <1>2, PushFacts
  <2> QED
    BY <1>2, <2>1
<1>4. Best({e}, {e})
  BY DEF Best
<1> QED
  BY <1>1, <1>2, <1>3, <1>4 DEF Added

\* The best of A and one more.
LEMMA BestGrows ==
    ASSUME NEW A, NEW S, NEW e, NEW h, NEW T, NEW g,
           Strict(A \cup {e}), Best(S, A), Added(S, h, e, T, g), Len(h) < K => S = A
    PROVE  Best(T, A \cup {e})
<1>1. T \subseteq S \cup {e} /\ S \subseteq A
  BY DEF Best, Added
<1>2. ASSUME NEW s \in T, NEW d \in (A \cup {e}) \ T PROVE EntryLess(s, d)
  <2>1. CASE d \in S \cup {e}
    BY <2>1 DEF Best, Added
  <2>2. CASE d \notin S \cup {e} /\ s \in S
    BY <2>2 DEF Best
  <2>3. CASE d \notin S \cup {e} /\ s = e
    <3>1. d \in A /\ d \notin S /\ ~(Len(h) < K)
      BY <2>3
    <3>2. PICK r \in S : r \notin T
      BY <2>3, <3>1 DEF Added
    <3>3. EntryLess(e, r)
      BY <2>3, <3>2 DEF Added, Best
    <3>4. EntryLess(r, d)
      BY <3>1 DEF Best
    <3>5. e \in A \cup {e} /\ r \in A \cup {e} /\ d \in A \cup {e}
      BY <1>1, <3>1
    <3> QED
      BY <2>3, <3>3, <3>4, <3>5, StrictFacts
  <2> QED
    BY <1>1, <2>1, <2>2, <2>3
<1> QED
  BY <1>1, <1>2 DEF Best

-----------------------------------------------------------------------------
\* What the scan finds

\* The query is one of those that are asked.
Asked == \E i \in DOMAIN Queries : query \in Queries[i]

\* How many of the first n documents match.
Count(n) == Cardinality(Hits(n))

\* What was found in them.
FoundSet(n) == ToSet(Found(n))

\* A match with what the projection leaves of it, as it is kept.
Shown(e) == [doc |-> Projected(proj, e.doc), seq |-> e.seq, keys |-> e.keys]

\* All of that.
All(n) == {Shown(e) : e \in FoundSet(n)}

\* What is assumed of a query.
LEMMA AskedFacts ==
    ASSUME Asked
    PROVE  /\ query.skip \in 0..IntMax /\ query.limit \in 0..IntMax
           /\ Len(query.docs) \in Nat /\ DOMAIN query.docs = 1..Len(query.docs)
           /\ SortType
           /\ \A n \in 1..Len(query.docs), k \in DOMAIN query.sort :
                KeyOf(query.docs[n], query.sort[k].field) \in Value
<1>1. PICK i \in DOMAIN Queries : query \in Queries[i]
  BY DEF Asked
<1>2. /\ query.skip \in 0..IntMax /\ query.limit \in 0..IntMax
      /\ query.docs \in Seq(ToSet(query.docs))
      /\ query.sort \in Seq([field : STRING, desc : BOOLEAN])
      /\ \A n \in DOMAIN query.docs, k \in DOMAIN query.sort :
            KeyOf(query.docs[n], query.sort[k].field) \in Value
  BY <1>1, QueryAssumption, Zenon
<1>3. Len(query.docs) \in Nat /\ DOMAIN query.docs = 1..Len(query.docs)
  <2> DEFINE d == query.docs
             T == ToSet(d)
  <2>1. d \in Seq(T)
    BY <1>2
  <2> HIDE DEF d, T
  <2>2. Len(d) \in Nat /\ DOMAIN d = 1..Len(d)
    BY <2>1
  <2> QED
    BY <2>2 DEF d
<1>4. SortType
  BY <1>2, Zenon DEF SortType
<1> QED
  BY <1>2, <1>3, <1>4, Zenon

\* Matches are finitely many.
LEMMA HitsFacts ==
    ASSUME NEW n \in Nat
    PROVE  /\ Hits(n) \subseteq Nat /\ IsFiniteSet(Hits(n)) /\ Count(n) \in Nat
           /\ \A m \in 1..Count(n) : Nth(Hits(n), m) \in Hits(n) /\ Nth(Hits(n), m) \in 1..n
<1>1. Hits(n) \subseteq 1..n
  BY DEF Hits
<1>2. IsFiniteSet(1..n)
  BY FS_Interval
<1>3. Hits(n) \subseteq Nat /\ IsFiniteSet(Hits(n))
  BY <1>1, <1>2, FS_Subset
<1>4. Count(n) \in Nat
  BY <1>3, FS_CardinalityType DEF Count
<1>5. \A m \in 1..Count(n) : Nth(Hits(n), m) \in Hits(n)
  BY <1>3, NthFacts DEF Count
<1> QED
  BY <1>1, <1>3, <1>4, <1>5

\* The first documents that match stay the first.
LEMMA HitsPrefix ==
    ASSUME NEW n \in Nat, NEW p \in Nat, n <= p
    PROVE  /\ Count(n) <= Count(p)
           /\ \A m \in 1..Count(n) : Nth(Hits(p), m) = Nth(Hits(n), m)
<1>1. Hits(n) \subseteq Hits(p)
  BY DEF Hits
<1>2. /\ Hits(n) \subseteq Nat /\ IsFiniteSet(Hits(n)) /\ Count(n) \in Nat
      /\ \A m \in 1..Count(n) : Nth(Hits(n), m) \in Hits(n) /\ Nth(Hits(n), m) \in 1..n
  BY HitsFacts
<1>3. /\ Hits(p) \subseteq Nat /\ IsFiniteSet(Hits(p)) /\ Count(p) \in Nat
  BY HitsFacts
<1>4. Count(n) <= Count(p)
  BY <1>1, <1>3, FS_Subset DEF Count
<1>5. ASSUME NEW x \in Hits(n) PROVE Rank(Hits(p), x) = Rank(Hits(n), x)
  <2>1. x \in 1..n
    BY DEF Hits
  <2>2. ASSUME NEW y \in Hits(p), y <= x PROVE y \in Hits(n)
    <3>1. y \in 1..p /\ Meant(query.filter, query.docs[y])
      BY Zenon DEF Hits
    <3>2. y \in 1..n
      BY <2>1, <2>2, <3>1
    <3> QED
      BY <3>1, <3>2, Zenon DEF Hits
  <2>3. {y \in Hits(p) : y <= x} = {y \in Hits(n) : y <= x}
    BY <1>1, <2>2
  <2> QED
    BY <2>3 DEF Rank
<1>6. ASSUME NEW m \in 1..Count(n) PROVE Nth(Hits(p), m) = Nth(Hits(n), m)
  <2>1. PICK x \in Hits(n) : Rank(Hits(n), x) = m
    BY <1>2, RankOnto DEF Count
  <2>2. Rank(Hits(p), x) = m /\ x \in Hits(p)
    BY <1>1, <1>5, <2>1
  <2>3. Nth(Hits(p), Rank(Hits(p), x)) = x
    BY <1>3, <2>2, NthOfRank
  <2>4. Nth(Hits(n), Rank(Hits(n), x)) = x
    BY <1>2, NthOfRank
  <2> QED
    BY <2>1, <2>2, <2>3, <2>4
<1> QED
  BY <1>4, <1>6

\* The next document is one match more or none.
LEMMA HitsNext ==
    ASSUME NEW n \in Nat
    PROVE  IF Meant(query.filter, query.docs[n + 1])
           THEN Count(n + 1) = Count(n) + 1 /\ Nth(Hits(n + 1), Count(n) + 1) = n + 1
           ELSE Hits(n + 1) = Hits(n)
<1>1. /\ Hits(n) \subseteq Nat /\ IsFiniteSet(Hits(n)) /\ Count(n) \in Nat
  BY HitsFacts
<1>2. CASE Meant(query.filter, query.docs[n + 1])
  <2>1. Hits(n + 1) = Hits(n) \cup {n + 1}
    <3>1. 1..(n + 1) = (1..n) \cup {n + 1}
      OBVIOUS
    <3> QED
      BY <1>2, <3>1 DEF Hits
  <2>2. n + 1 \notin Hits(n)
    BY DEF Hits
  <2>3. Count(n + 1) = Count(n) + 1
    BY <1>1, <2>1, <2>2, FS_AddElement DEF Count
  <2>4. Hits(n + 1) \subseteq Nat /\ IsFiniteSet(Hits(n + 1)) /\ n + 1 \in Hits(n + 1)
    <3>1. n + 1 \in Nat
      OBVIOUS
    <3> QED
      BY <2>1, <3>1, HitsFacts
  <2>5. Rank(Hits(n + 1), n + 1) = Count(n + 1)
    <3>1. {y \in Hits(n + 1) : y <= n + 1} = Hits(n + 1)
      BY DEF Hits
    <3> QED
      BY <3>1 DEF Rank, Count
  <2>6. Nth(Hits(n + 1), Rank(Hits(n + 1), n + 1)) = n + 1
    BY <2>4, NthOfRank
  <2> QED
    BY <1>2, <2>3, <2>5, <2>6
<1>3. CASE ~Meant(query.filter, query.docs[n + 1])
  <2>1. Hits(n + 1) = Hits(n)
    <3>1. 1..(n + 1) = (1..n) \cup {n + 1}
      OBVIOUS
    <3> QED
      BY <1>3, <3>1 DEF Hits
  <2> QED
    BY <1>3, <2>1
<1> QED
  BY <1>2, <1>3

\* The match that comes m-th.
Match(n, m) ==
    LET doc == query.docs[Nth(Hits(n), m)]
    IN  [doc |-> doc, seq |-> m,
         keys |-> [k \in DOMAIN query.sort |-> KeyOf(doc, query.sort[k].field)]]

\* What was found, match by match.
LEMMA FoundFacts ==
    ASSUME Asked, NEW n \in 0..Len(query.docs)
    PROVE  /\ Count(n) \in Nat
           /\ Found(n) = [m \in 1..Count(n) |-> Match(n, m)]
           /\ \A m \in 1..Count(n) : Found(n)[m].seq = m /\ Keyed(Found(n)[m])
           /\ Listing(Found(n), FoundSet(n))
           /\ \A e \in FoundSet(n) : Keyed(e) /\ e.seq \in 1..Count(n)
           /\ Lined(FoundSet(n)) /\ Cardinality(FoundSet(n)) = Count(n)
<1>0. n \in Nat /\ Len(query.docs) \in Nat
  BY AskedFacts
<1>1. Count(n) \in Nat
  BY <1>0, HitsFacts
<1>2. Found(n) = [m \in 1..Count(n) |-> Match(n, m)]
  BY Zenon DEF Found, Match, Count
<1>3. ASSUME NEW m \in 1..Count(n) PROVE Match(n, m).seq = m /\ Keyed(Match(n, m))
  <2>1. Nth(Hits(n), m) \in 1..Len(query.docs)
    <3>1. Nth(Hits(n), m) \in 1..n
      BY <1>0, HitsFacts
    <3> QED
      BY <1>0, <3>1
  <2>2. \A k \in DOMAIN query.sort :
          KeyOf(query.docs[Nth(Hits(n), m)], query.sort[k].field) \in Value
    BY <2>1, AskedFacts
  <2>3. /\ Match(n, m).seq = m
        /\ Match(n, m).keys = [k \in DOMAIN query.sort |->
                                 KeyOf(query.docs[Nth(Hits(n), m)], query.sort[k].field)]
    BY DEF Match
  <2> PICK e : e = Match(n, m)
    OBVIOUS
  <2>4. e.keys \in [DOMAIN query.sort -> Value]
    BY <2>2, <2>3
  <2>5. e.seq \in Nat
    BY <1>1, <2>3
  <2> QED
    BY <2>3, <2>4, <2>5 DEF Keyed
<1> PICK F : F = Found(n)
  OBVIOUS
<1>4. /\ DOMAIN F = 1..Count(n)
      /\ \A m \in 1..Count(n) : F[m].seq = m /\ Keyed(F[m])
  BY <1>2, <1>3
<1>5. ToSet(F) = {F[m] : m \in 1..Count(n)}
  BY <1>4 DEF ToSet
<1>6. F \in Seq(ToSet(F)) /\ Len(F) = Count(n)
  <2>1. F \in [1..Count(n) -> ToSet(F)]
    BY <1>2, <1>5
  <2> QED
    BY <1>1, <2>1
<1>7. Listing(F, ToSet(F))
  <2>1. \A i, j \in 1..Count(n) : F[i] = F[j] => i = j
    BY <1>4
  <2>2. \A e \in ToSet(F) : \E i \in 1..Count(n) : F[i] = e
    BY <1>5
  <2> QED
    BY <1>6, <2>1, <2>2 DEF Listing
<1>8. \A e \in ToSet(F) : Keyed(e) /\ e.seq \in 1..Count(n)
  BY <1>4, <1>5
<1>9. \A a, b \in ToSet(F) : a.seq = b.seq => a = b
  BY <1>4, <1>5
<1>10. Strict(ToSet(F))
  BY <1>8, <1>9, AskedFacts, EntriesStrict
<1>11. IsFiniteSet(ToSet(F)) /\ Cardinality(ToSet(F)) = Count(n)
  BY <1>6, <1>7, ListingFacts
<1> QED
  BY <1>1, <1>2, <1>4, <1>7, <1>8, <1>10, <1>11 DEF FoundSet, Lined

\* The copy that is kept is in the order of what was found.
LEMMA AllFacts ==
    ASSUME Asked, NEW n \in 0..Len(query.docs)
    PROVE  /\ \A e \in All(n) : Keyed(e) /\ e.seq \in 1..Count(n)
           /\ \A a, b \in All(n) : a.seq = b.seq => a = b
           /\ Lined(All(n)) /\ Cardinality(All(n)) = Count(n)
           /\ \A k \in 1..Count(n) : Kth(All(n), k) = Shown(Kth(FoundSet(n), k))
<1> DEFINE G == FoundSet(n)
           A == All(n)
           g == [e \in G |-> Shown(e)]
<1>1. /\ \A e \in G : Keyed(e) /\ e.seq \in 1..Count(n)
      /\ Lined(G) /\ Cardinality(G) = Count(n)
  BY FoundFacts
<1>2. \A e : Shown(e).seq = e.seq /\ Shown(e).keys = e.keys
  BY DEF Shown
<1>3. \A e : Keyed(e) => Keyed(Shown(e))
  BY <1>2, Zenon DEF Keyed
<1>4. A = {Shown(e) : e \in G}
  BY DEF All
<1>5. \A x, y : EntryLess(Shown(x), Shown(y)) = EntryLess(x, y)
  BY <1>2, Zenon DEF EntryLess
<1>6. \A x, y \in G : x.seq = y.seq => x = y
  <2>1. /\ Listing(Found(n), G) /\ Count(n) \in Nat
        /\ \A m \in 1..Count(n) : Found(n)[m].seq = m
    BY FoundFacts
  <2>2. Len(Found(n)) = Count(n)
    BY <1>1, <2>1, ListingFacts
  <2>3. \A x \in G : \E m \in 1..Count(n) : Found(n)[m] = x
    BY <2>1, <2>2 DEF Listing
  <2> QED
    BY <2>1, <2>3
<1> HIDE DEF A, G
<1>7. \A e \in A : Keyed(e) /\ e.seq \in 1..Count(n)
  BY <1>1, <1>2, <1>3, <1>4
<1>8. \A x, y \in A : x.seq = y.seq => x = y
  <2> SUFFICES ASSUME NEW x \in A, NEW y \in A, x.seq = y.seq PROVE x = y
    OBVIOUS
  <2>1. PICK u \in G : x = Shown(u)
    BY <1>4
  <2>2. PICK v \in G : y = Shown(v)
    BY <1>4
  <2>3. u = v
    BY <1>2, <1>6, <2>1, <2>2
  <2> QED
    BY <2>1, <2>2, <2>3
<1>9. Strict(A)
  BY <1>7, <1>8, AskedFacts, EntriesStrict
<1>10. g \in [G -> A] /\ \A t \in A : \E s \in G : g[s] = t
  BY <1>4
<1>11. g \in Surjection(G, A)
  BY <1>10 DEF Surjection
<1>12. Lined(A)
  BY <1>1, <1>9, <1>11, FS_Surjection DEF Lined
<1>13. \A x, y \in G : EntryLess(g[x], g[y]) = EntryLess(x, y)
  BY <1>5
<1>14. \A x \in G : g[x] = Shown(x)
  OBVIOUS
<1> HIDE DEF g
<1>15. Copies(G, A, g)
  BY <1>10, <1>13 DEF Copies
<1>16. /\ Cardinality(A) = Cardinality(G)
       /\ \A k \in 1..Cardinality(G) : Kth(A, k) = g[Kth(G, k)]
  BY <1>1, <1>12, <1>15, CopyFacts
<1>17. \A k \in 1..Cardinality(G) : Kth(G, k) \in G
  BY <1>1, KthFacts
<1> QED
  BY <1>1, <1>7, <1>8, <1>12, <1>14, <1>16, <1>17 DEF A, G

-----------------------------------------------------------------------------
\* Pages of what was found

\* What has been found stays found.
LEMMA FoundPrefix ==
    ASSUME NEW n \in Nat, NEW p \in Nat, n <= p
    PROVE  /\ Count(n) <= Count(p)
           /\ \A m \in 1..Count(n) : Found(p)[m] = Found(n)[m]
<1>1. /\ Count(n) <= Count(p)
      /\ \A m \in 1..Count(n) : Nth(Hits(p), m) = Nth(Hits(n), m)
  BY HitsPrefix
<1>2. Count(n) \in Nat /\ Count(p) \in Nat
  BY HitsFacts
<1>3. /\ Found(n) = [m \in 1..Count(n) |-> Match(n, m)]
      /\ Found(p) = [m \in 1..Count(p) |-> Match(p, m)]
  BY Zenon DEF Found, Match, Count
<1>4. ASSUME NEW m \in 1..Count(n) PROVE Match(p, m) = Match(n, m)
  BY <1>1, Zenon DEF Match
<1>5. \A m \in 1..Count(n) : m \in 1..Count(p)
  BY <1>1, <1>2
<1>6. \A m \in 1..Count(n) : Found(p)[m] = Match(p, m) /\ Found(n)[m] = Match(n, m)
  BY <1>3, <1>5
<1> QED
  BY <1>1, <1>4, <1>6

\* A document that matches is found next.
LEMMA FoundNext ==
    ASSUME Asked, NEW n \in 0..(Len(query.docs) - 1), Meant(query.filter, query.docs[n + 1])
    PROVE  /\ Count(n + 1) = Count(n) + 1
           /\ Found(n + 1)[Count(n) + 1].doc = query.docs[n + 1]
           /\ Shown(Found(n + 1)[Count(n) + 1]) = EntryOf(query.docs[n + 1], Count(n) + 1)
           /\ All(n + 1) = All(n) \cup {EntryOf(query.docs[n + 1], Count(n) + 1)}
           /\ EntryOf(query.docs[n + 1], Count(n) + 1) \notin All(n)
<1>0. n \in Nat /\ n + 1 \in Nat /\ n \in 0..Len(query.docs) /\ n + 1 \in 0..Len(query.docs) /\ n <= n + 1
  BY AskedFacts
<1> DEFINE c == Count(n) + 1
           e == EntryOf(query.docs[n + 1], c)
<1>1. Count(n + 1) = c /\ Nth(Hits(n + 1), c) = n + 1 /\ Count(n) \in Nat
  BY <1>0, HitsNext, HitsFacts
<1>2. /\ Found(n) = [m \in 1..Count(n) |-> Match(n, m)]
      /\ Found(n + 1) = [m \in 1..Count(n + 1) |-> Match(n + 1, m)]
  BY Zenon DEF Found, Match, Count
<1>3. c \in 1..Count(n + 1)
  BY <1>1
<1>4. Found(n + 1)[c] = Match(n + 1, c)
  BY <1>2, <1>3
<1> HIDE DEF c
<1>5. Match(n + 1, c) = [doc |-> query.docs[n + 1], seq |-> c,
                         keys |-> [k \in DOMAIN query.sort |-> KeyOf(query.docs[n + 1], query.sort[k].field)]]
  BY <1>1, Zenon DEF Match
<1>6. Found(n + 1)[c].doc = query.docs[n + 1]
  BY <1>4, <1>5
<1>7. Shown(Found(n + 1)[c]) = e
  <2>1. /\ Found(n + 1)[c].seq = c
        /\ Found(n + 1)[c].keys = [k \in DOMAIN query.sort |-> KeyOf(query.docs[n + 1], query.sort[k].field)]
    BY <1>4, <1>5
  <2> QED
    BY <1>6, <2>1, Zenon DEF Shown, EntryOf
<1>8. FoundSet(n) = {Found(n)[m] : m \in 1..Count(n)}
  <2>1. DOMAIN Found(n) = 1..Count(n)
    BY <1>2
  <2> QED
    BY <2>1 DEF FoundSet, ToSet
<1>9. FoundSet(n + 1) = {Found(n + 1)[m] : m \in 1..Count(n + 1)}
  <2>1. DOMAIN Found(n + 1) = 1..Count(n + 1)
    BY <1>2
  <2> QED
    BY <2>1 DEF FoundSet, ToSet
<1>10. \A m \in 1..Count(n) : Found(n + 1)[m] = Found(n)[m]
  BY <1>0, FoundPrefix
<1>11. 1..Count(n + 1) = (1..Count(n)) \cup {c}
  BY <1>1 DEF c
<1>12. FoundSet(n + 1) = FoundSet(n) \cup {Found(n + 1)[c]}
  BY <1>8, <1>9, <1>10, <1>11, ZenonT(40)
<1>13. All(n + 1) = All(n) \cup {e}
  <2>1. \A S, x : {Shown(y) : y \in S \cup {x}} = {Shown(y) : y \in S} \cup {Shown(x)}
    OBVIOUS
  <2> HIDE DEF e
  <2> QED
    BY <1>7, <1>12, <2>1, Zenon DEF All
<1>14. e \notin All(n)
  <2>1. \A x \in All(n) : x.seq \in 1..Count(n)
    BY <1>0, AllFacts
  <2>2. e.seq = c
    BY Zenon DEF EntryOf
  <2> HIDE DEF e
  <2>3. c \notin 1..Count(n)
    BY <1>1 DEF c
  <2> QED
    BY <2>1, <2>2, <2>3
<1> QED
  BY <1>1, <1>6, <1>7, <1>13, <1>14 DEF c

\* A document that does not match changes nothing.
LEMMA FoundNoMore ==
    ASSUME NEW n \in Nat, ~Meant(query.filter, query.docs[n + 1])
    PROVE  Count(n + 1) = Count(n) /\ Found(n + 1) = Found(n) /\ All(n + 1) = All(n)
<1>1. Hits(n + 1) = Hits(n)
  BY HitsNext
<1>2. Found(n + 1) = Found(n)
  BY <1>1, Zenon DEF Found
<1> QED
  BY <1>1, <1>2, Zenon DEF Count, All, FoundSet

\* What was found, in order, by places.
LEMMA OrderedFound ==
    ASSUME Asked, NEW n \in 0..Len(query.docs)
    PROVE  /\ DOMAIN Ordered(Found(n)) = 1..Count(n)
           /\ Sorted => Ordered(Found(n)) = [k \in 1..Count(n) |-> Kth(FoundSet(n), k)]
           /\ ~Sorted => Ordered(Found(n)) = Found(n)
<1>1. /\ Count(n) \in Nat
      /\ Found(n) = [m \in 1..Count(n) |-> Match(n, m)]
      /\ Listing(Found(n), FoundSet(n))
      /\ Lined(FoundSet(n)) /\ Cardinality(FoundSet(n)) = Count(n)
  BY FoundFacts
<1>2. Len(Found(n)) = Count(n)
  BY <1>1, ListingFacts
<1>3. Sorted => Ordered(Found(n)) = [k \in 1..Count(n) |-> Kth(FoundSet(n), k)]
  BY <1>1, <1>2, OrderedFacts DEF Lined
<1>4. ~Sorted => Ordered(Found(n)) = Found(n)
  BY Zenon DEF Ordered
<1>5. DOMAIN Ordered(Found(n)) = 1..Count(n)
  <2>1. CASE Sorted
    BY <1>3, <2>1
  <2>2. CASE ~Sorted
    BY <1>1, <1>4, <2>2
  <2> QED
    BY <2>1, <2>2
<1> QED
  BY <1>3, <1>4, <1>5

-----------------------------------------------------------------------------
\* The page

\* How many of c documents are behind the skip and before the limit.
Behind(c) == IF query.skip < c THEN c - query.skip ELSE 0

\* And fit into the limit.
Returns(c) == IF Bounded /\ query.limit < Behind(c) THEN query.limit ELSE Behind(c)

\* These are numbers.
LEMMA ReturnsType ==
    ASSUME Asked, NEW c \in Nat
    PROVE  /\ Behind(c) \in 0..c /\ Returns(c) \in 0..Behind(c)
           /\ \A i \in 1..Returns(c) : query.skip + i \in 1..c
           /\ Bounded => Returns(c) <= query.limit
<1>1. query.skip \in Nat /\ query.limit \in Nat
  BY AskedFacts, IntAssumption
<1> PICK s \in Nat : s = query.skip
  BY <1>1
<1> PICK l \in Nat : l = query.limit
  BY <1>1
<1>2. Behind(c) = IF s < c THEN c - s ELSE 0
  BY DEF Behind
<1>3. Returns(c) = IF Bounded /\ l < Behind(c) THEN l ELSE Behind(c)
  BY DEF Returns
<1>4. Behind(c) \in 0..c
  BY <1>2
<1> QED
  BY <1>2, <1>3, <1>4

\* A page of c entries begins behind the skip.
PageIs(s, c) == PageOf(s) = [i \in 1..Returns(c) |-> s[query.skip + i]]

\* So it is for every page.
LEMMA PageFacts ==
    ASSUME Asked, NEW c \in Nat, NEW s, DOMAIN s = 1..c
    PROVE  PageIs(s, c)
<1>1. query.skip \in Nat /\ query.limit \in Nat
  BY AskedFacts, IntAssumption
<1> DEFINE fits == {k \in DOMAIN s : query.skip < k /\ (Bounded => k <= query.skip + query.limit)}
<1> PICK a \in Nat : a = query.skip
  BY <1>1
<1> PICK l \in Nat : l = query.limit
  BY <1>1
<1>2. Behind(c) = IF a < c THEN c - a ELSE 0
  BY DEF Behind
<1>3. Returns(c) = IF Bounded /\ l < Behind(c) THEN l ELSE Behind(c)
  BY DEF Returns
<1>4. Returns(c) \in Nat
  BY ReturnsType
<1>5. fits = (a + 1)..(a + Returns(c))
  <2>1. fits = {k \in 1..c : a < k /\ (Bounded => k <= a + l)}
    OBVIOUS
  <2>2. CASE Bounded /\ l < Behind(c)
    <3>1. Returns(c) = l /\ a + l <= c
      BY <1>2, <1>3, <2>2
    <3> QED
      BY <2>1, <2>2, <3>1
  <2>3. CASE ~(Bounded /\ l < Behind(c)) /\ a < c
    <3>1. Returns(c) = c - a /\ (Bounded => a + l >= c)
      BY <1>2, <1>3, <2>3
    <3> QED
      BY <2>1, <2>3, <3>1
  <2>4. CASE ~(Bounded /\ l < Behind(c)) /\ ~(a < c)
    <3>1. Returns(c) = 0
      BY <1>2, <1>3, <2>4
    <3> QED
      BY <2>1, <2>4, <3>1
  <2> QED
    BY <2>2, <2>3, <2>4
<1> HIDE DEF fits
<1>6. Cardinality(fits) = Returns(c)
  <2> PICK r \in Nat : r = Returns(c)
    BY <1>4
  <2>1. Cardinality((a + 1)..(a + r)) = IF a + 1 > a + r THEN 0 ELSE (a + r) - (a + 1) + 1
    <3> PICK x \in Int : x = a + 1
      OBVIOUS
    <3> PICK y \in Int : y = a + r
      OBVIOUS
    <3>1. Cardinality(x..y) = IF x > y THEN 0 ELSE y - x + 1
      BY FS_Interval
    <3> QED
      BY <3>1
  <2>2. (IF a + 1 > a + r THEN 0 ELSE (a + r) - (a + 1) + 1) = r
    OBVIOUS
  <2> QED
    BY <1>5, <2>1, <2>2
<1>7. PageOf(s) = [i \in 1..Cardinality(fits) |-> s[query.skip + i]]
  BY Zenon DEF PageOf, fits
<1> QED
  BY <1>6, <1>7 DEF PageIs

\* What a page of the documents found first holds.
Reference(n) ==
    LET found == Ordered(Found(n))
    IN  [i \in 1..Returns(Count(n)) |-> Projected(proj, found[query.skip + i].doc)]

\* It is what PageIsReference states.
LEMMA ReferenceFacts ==
    ASSUME Asked, NEW n, n = Len(query.docs)
    PROVE  LET wanted == PageOf(Ordered(Found(Len(query.docs))))
           IN  [i \in DOMAIN wanted |-> Projected(proj, wanted[i].doc)] = Reference(n)
<1>0. n \in 0..Len(query.docs)
  BY AskedFacts
<1> PICK s : s = Ordered(Found(n))
  OBVIOUS
<1>1. DOMAIN s = 1..Count(n) /\ Count(n) \in Nat
  BY <1>0, OrderedFound, FoundFacts
<1>2. PageOf(s) = [i \in 1..Returns(Count(n)) |-> s[query.skip + i]]
  <2> PICK c \in Nat : c = Count(n)
    BY <1>1
  <2>1. DOMAIN s = 1..c
    BY <1>1
  <2>2. PageIs(s, c)
    BY <2>1, PageFacts
  <2> QED
    BY <2>2, Zenon DEF PageIs
<1> PICK w : w = PageOf(s)
  OBVIOUS
<1>3. [i \in DOMAIN w |-> Projected(proj, w[i].doc)] = Reference(n)
  <2>1. DOMAIN w = 1..Returns(Count(n)) /\ \A i \in DOMAIN w : w[i] = s[query.skip + i]
    BY <1>2
  <2>2. Reference(n) = [i \in 1..Returns(Count(n)) |-> Projected(proj, s[query.skip + i].doc)]
    BY Zenon DEF Reference
  <2> QED
    BY <2>1, <2>2
<1> QED
  BY <1>3, Zenon

-----------------------------------------------------------------------------
\* What holds of what has been kept and handed out

\* Unsorted: what has been handed out when n documents have been scanned.
Handed(n, em) ==
    /\ em = [i \in 1..Behind(Count(n)) |-> Projected(proj, Found(n)[query.skip + i].doc)]
    /\ Bounded => Behind(Count(n)) < query.limit

\* S is what has been kept of the n documents scanned, in length many entries.
Keeps(n, S, length) ==
    /\ Best(S, All(n))
    /\ IF Bounded THEN /\ K \in Nat /\ K = query.skip + query.limit /\ length <= K
                       /\ length < K => S = All(n)
       ELSE S = All(n)

\* What is kept of them while the scan goes on.
Gathered(n, h) ==
    \E S : Keeps(n, S, Len(h)) /\ Listing(h, S) /\ (Bounded => IsHeap(h, S))

\* And when it has been sorted.
Arranged(n, h) ==
    \E S : Keeps(n, S, Len(h)) /\ Listing(h, S) /\ \A k \in 1..Len(h) : Place(S, h[k]) = k

\* Before the scan nothing is found.
LEMMA NothingFound ==
    Count(0) = 0 /\ FoundSet(0) = {} /\ All(0) = {}
<1>1. Hits(0) = {}
  BY DEF Hits
<1>2. Count(0) = 0
  BY <1>1, FS_EmptySet DEF Count
<1>3. Found(0) = [m \in 1..Count(0) |-> Match(0, m)]
  BY Zenon DEF Found, Match, Count
<1>4. DOMAIN Found(0) = {}
  BY <1>2, <1>3
<1>5. FoundSet(0) = {}
  BY <1>4 DEF FoundSet, ToSet
<1> QED
  BY <1>2, <1>5 DEF All

\* A sum that does not wrap around is the sum.
LEMMA WrapFacts ==
    ASSUME NEW n \in Int
    PROVE  /\ n > IntMax => Wrap(n) = n - 2 * (IntMax + 1)
           /\ ~(n > IntMax) => Wrap(n) = n
BY DEF Wrap

\* When NewTopK does not panic, skip + limit is no overflow.
LEMMA KFacts ==
    ASSUME Asked, Bounded, ~(Wrap(K + 1) < 0)
    PROVE  K \in Nat /\ K = query.skip + query.limit
<1> PICK s \in Nat : s = query.skip /\ s <= IntMax
  BY AskedFacts, IntAssumption
<1> PICK l \in Nat : l = query.limit /\ l <= IntMax
  BY AskedFacts, IntAssumption
<1>0. K = Wrap(s + l)
  BY Zenon DEF K
<1>1. K \in Int /\ (s + l > IntMax => K = s + l - 2 * (IntMax + 1)) /\ (~(s + l > IntMax) => K = s + l)
  BY <1>0, IntAssumption, WrapFacts
<1> PICK k \in Int : k = K
  BY <1>1
<1> PICK j \in Int : j = k + 1
  OBVIOUS
<1>2. (j > IntMax => Wrap(j) = j - 2 * (IntMax + 1)) /\ (~(j > IntMax) => Wrap(j) = j)
  BY WrapFacts
<1>3. ~(Wrap(j) < 0)
  <2>1. Wrap(j) = Wrap(K + 1)
    BY Zenon
  <2> QED
    BY <2>1
<1>4. s + l <= IntMax
  BY <1>1, <1>2, <1>3, IntAssumption
<1> QED
  BY <1>1, <1>4, IntAssumption

\* Nothing is kept of no documents.
LEMMA GatheredFirst ==
    ASSUME Asked, Sorted, Bounded => ~(Wrap(K + 1) < 0)
    PROVE  Gathered(0, <<>>)
<1> PICK h : h = <<>>
  OBVIOUS
<1>1. Len(h) = 0 /\ h \in Seq({})
  OBVIOUS
<1>2. Listing(h, {})
  BY <1>1 DEF Listing
<1>3. IsHeap(h, {})
  <2>1. 1..(Len(h) - 1) = {}
    BY <1>1
  <2> QED
    BY <1>2, <2>1 DEF IsHeap
<1>4. All(0) = {} /\ Best({}, {})
  BY NothingFound DEF Best
<1>5. Bounded => K \in Nat /\ K = query.skip + query.limit
  BY KFacts
<1>6. Keeps(0, {}, Len(h))
  <2>1. Bounded => Len(h) <= K
    BY <1>1, <1>5
  <2> QED
    BY <1>4, <1>5, <2>1, Zenon DEF Keeps
<1> QED
  BY <1>2, <1>3, <1>6, Zenon DEF Gathered

\* Nothing is handed out of them.
LEMMA HandedFirst ==
    ASSUME Asked
    PROVE  Handed(0, <<>>)
<1>1. Count(0) = 0
  BY NothingFound
<1>2. query.skip \in Nat /\ query.limit \in Nat
  BY AskedFacts, IntAssumption
<1>3. Behind(Count(0)) = 0
  BY <1>1, <1>2 DEF Behind
<1>4. Bounded => 0 < query.limit
  BY DEF Bounded
<1>5. <<>> = [i \in 1..Behind(Count(0)) |-> Projected(proj, Found(0)[query.skip + i].doc)]
  BY <1>3
<1> QED
  BY <1>3, <1>4, <1>5 DEF Handed

\* What the bounded heap or the plain list becomes.
Kept(h, e) == IF Bounded THEN Add(h, e) ELSE Append(h, e)

\* Another match: the best are kept.
LEMMA GatheredNext ==
    ASSUME NEW n, NEW h, Asked, Sorted, n \in 0..(Len(query.docs) - 1),
           Meant(query.filter, query.docs[n + 1]), Gathered(n, h)
    PROVE  Gathered(n + 1, Kept(h, EntryOf(query.docs[n + 1], Count(n) + 1)))
<1>0. n + 1 \in 0..Len(query.docs) /\ n \in 0..Len(query.docs)
  BY AskedFacts
<1> PICK e : e = EntryOf(query.docs[n + 1], Count(n) + 1)
  OBVIOUS
<1>1. All(n + 1) = All(n) \cup {e} /\ e \notin All(n)
  BY FoundNext
<1>2. Strict(All(n + 1)) /\ Lined(All(n))
  BY <1>0, AllFacts DEF Lined
<1> PICK S : Keeps(n, S, Len(h)) /\ Listing(h, S) /\ (Bounded => IsHeap(h, S))
  BY Zenon DEF Gathered
<1>3. Best(S, All(n)) /\ S \subseteq All(n) /\ e \notin S
  BY <1>1 DEF Keeps, Best
<1>4. Len(h) \in Nat
  BY ListingFacts
<1>5. CASE ~Bounded
  <2>1. S = All(n)
    BY <1>5 DEF Keeps
  <2>2. Appended(S, h, e, Append(h, e))
    BY <1>3, AppendFacts
  <2> PICK g : g = Append(h, e)
    OBVIOUS
  <2>3. Listing(g, All(n + 1))
    BY <1>1, <2>1, <2>2 DEF Appended
  <2>4. Best(All(n + 1), All(n + 1))
    BY DEF Best
  <2>5. Keeps(n + 1, All(n + 1), Len(g))
    BY <1>5, <2>4, Zenon DEF Keeps
  <2>6. Gathered(n + 1, g)
    BY <1>5, <2>3, <2>5, Zenon DEF Gathered
  <2> QED
    BY <1>5, <2>6, Zenon DEF Kept
<1>6. CASE Bounded
  <2>0. /\ K \in Nat /\ K = query.skip + query.limit /\ Len(h) <= K
        /\ Len(h) < K => S = All(n)
    BY <1>6, Zenon DEF Keeps
  <2>1. Strict(S \cup {e})
    BY <1>1, <1>2, <1>3, StrictSubset
  <2>2. IsHeap(h, S)
    BY <1>6
  <2>3. 0 < K
    <3>1. query.limit \in Nat /\ query.limit # 0 /\ query.skip \in Nat
      BY <1>6, AskedFacts, IntAssumption DEF Bounded
    <3> QED
      BY <2>0, <3>1
  <2>4. \E T : Added(S, h, e, T, Add(h, e))
    <3>1. CASE Len(h) # 0
      BY <1>3, <2>0, <2>1, <2>2, <3>1, AddFacts
    <3>2. CASE Len(h) = 0
      <4>1. S = {}
        <5>1. \A x \in S : \E i \in 1..Len(h) : h[i] = x
          BY DEF Listing
        <5> QED
          BY <3>2, <5>1
      <4>2. Strict({e})
        BY <2>1, <4>1
      <4>3. IsHeap(h, {})
        BY <2>2, <4>1
      <4>4. Added({}, h, e, {e}, Add(h, e))
        BY <2>0, <2>3, <3>2, <4>2, <4>3, AddFirst
      <4> QED
        BY <4>1, <4>4, Zenon
    <3> QED
      BY <3>1, <3>2
  <2> PICK g : g = Add(h, e)
    OBVIOUS
  <2>5. PICK T : Added(S, h, e, T, g)
    BY <2>4
  <2>6. Best(T, All(n + 1))
    <3>1. Strict(All(n) \cup {e})
      BY <1>1, <1>2
    <3>2. Best(T, All(n) \cup {e})
      BY <1>3, <2>0, <2>5, <3>1, BestGrows
    <3> QED
      BY <1>1, <3>2
  <2>7. IsHeap(g, T) /\ Len(g) <= K /\ (Len(g) < K => T = All(n + 1))
    <3>1. CASE Len(h) < K
      <4>1. IsHeap(g, T) /\ T = S \cup {e} /\ Len(g) = Len(h) + 1 /\ S = All(n)
        BY <2>0, <2>5, <3>1 DEF Added
      <4> QED
        BY <1>1, <1>4, <2>0, <3>1, <4>1
    <3>2. CASE ~(Len(h) < K)
      <4>1. IsHeap(g, T) /\ Len(g) = Len(h)
        BY <2>5, <3>2 DEF Added
      <4> QED
        BY <1>4, <2>0, <3>2, <4>1
    <3> QED
      BY <3>1, <3>2
  <2>8. Keeps(n + 1, T, Len(g))
    BY <1>6, <2>0, <2>6, <2>7, Zenon DEF Keeps
  <2>9. Listing(g, T)
    BY <2>7 DEF IsHeap
  <2>10. Gathered(n + 1, g)
    BY <2>7, <2>8, <2>9, Zenon DEF Gathered
  <2> QED
    BY <1>6, <2>10, Zenon DEF Kept
<1> QED
  BY <1>5, <1>6

\* SortEntries puts them at their places.
LEMMA GatheredSorted ==
    ASSUME NEW n, NEW h, Asked, n \in 0..Len(query.docs), Gathered(n, h)
    PROVE  Arranged(n, SortEntries(h))
<1> PICK S : Keeps(n, S, Len(h)) /\ Listing(h, S) /\ (Bounded => IsHeap(h, S))
  BY Zenon DEF Gathered
<1>1. Lined(All(n)) /\ S \subseteq All(n)
  BY AllFacts DEF Keeps, Best
<1>2. Lined(S) /\ Strict(S)
  BY <1>1, LinedSubset DEF Lined
<1>3. Len(h) \in Nat /\ Cardinality(S) = Len(h)
  BY ListingFacts
<1> PICK g : g = SortEntries(h)
  OBVIOUS
<1>4. g = [k \in 1..Len(h) |-> Kth(S, k)]
  BY <1>2, SortFacts
<1>5. \A k \in 1..Len(h) : Kth(S, k) \in S /\ Place(S, Kth(S, k)) = k
  BY <1>2, <1>3, KthFacts
<1>6. \A x \in S : Place(S, x) \in 1..Len(h) /\ Kth(S, Place(S, x)) = x
  BY <1>2, <1>3, KthFacts, PlaceType
<1>7. g \in Seq(S) /\ Len(g) = Len(h) /\ \A k \in 1..Len(h) : g[k] \in S /\ Place(S, g[k]) = k
  <2>1. g \in [1..Len(h) -> S]
    BY <1>4, <1>5
  <2> QED
    BY <1>3, <1>4, <1>5, <2>1
<1>8. \A x \in S : g[Place(S, x)] = x
  BY <1>4, <1>6
<1>9. \A i, j \in 1..Len(h) : g[i] = g[j] => i = j
  BY <1>7
<1>10. Listing(g, S)
  BY <1>6, <1>7, <1>8, <1>9 DEF Listing
<1> QED
  BY <1>7, <1>10, Zenon DEF Arranged

\* Sorted: the entries behind the skip and before the limit are the page.
LEMMA ArrangedPage ==
    ASSUME NEW n, NEW h, Asked, Sorted, n \in 0..Len(query.docs), Arranged(n, h)
    PROVE  [i \in 1..Returns(Len(h)) |-> h[query.skip + i].doc] = Reference(n)
<1> PICK S : Keeps(n, S, Len(h)) /\ Listing(h, S) /\ \A k \in 1..Len(h) : Place(S, h[k]) = k
  BY Zenon DEF Arranged
<1> DEFINE c == Count(n)
           s == Ordered(Found(n))
<1>1. /\ c \in Nat
      /\ Lined(All(n)) /\ Cardinality(All(n)) = c
      /\ \A k \in 1..c : Kth(All(n), k) = Shown(Kth(FoundSet(n), k))
      /\ s = [k \in 1..c |-> Kth(FoundSet(n), k)]
  BY FoundFacts, AllFacts, OrderedFound
<1> HIDE DEF c, s
<1>2. Best(S, All(n))
  BY DEF Keeps
<1>3. /\ Lined(S) /\ Cardinality(S) <= c
      /\ \A k \in 1..Cardinality(S) : Kth(S, k) = Kth(All(n), k)
  BY <1>1, <1>2, BestFacts
<1>4. Len(h) \in Nat /\ Cardinality(S) = Len(h) /\ \A k \in 1..Len(h) : h[k] \in S
  BY ListingFacts
<1>5. ASSUME NEW k \in 1..Len(h) PROVE h[k].doc = Projected(proj, s[k].doc)
  <2>1. Kth(S, Place(S, h[k])) = h[k]
    BY <1>3, <1>4, KthFacts
  <2>2. h[k] = Kth(S, k)
    BY <2>1
  <2>3. h[k] = Kth(All(n), k)
    BY <1>3, <1>4, <2>2
  <2>4. k \in 1..c
    BY <1>1, <1>3, <1>4
  <2>5. h[k] = Shown(s[k])
    BY <1>1, <2>3, <2>4
  <2> QED
    BY <2>5 DEF Shown
<1>6. Returns(Len(h)) = Returns(c)
  <2> PICK a \in Nat : a = query.skip
    BY AskedFacts, IntAssumption
  <2> PICK l \in Nat : l = query.limit
    BY AskedFacts, IntAssumption
  <2> PICK m \in Nat : m = Len(h)
    BY <1>4
  <2>1. CASE m = c
    BY <2>1
  <2>2. CASE m # c
    <3>1. S # All(n)
      BY <1>1, <1>4, <2>2
    <3>2. Bounded /\ m = a + l
      <4>1. Bounded
        BY <3>1, Zenon DEF Keeps
      <4>2. K \in Nat /\ K = a + l /\ m <= K /\ ~(m < K)
        BY <3>1, <4>1 DEF Keeps
      <4> QED
        BY <4>1, <4>2
    <3>3. m < c
      BY <1>1, <1>3, <1>4, <2>2
    <3>4. /\ Behind(m) = IF a < m THEN m - a ELSE 0
          /\ Behind(c) = IF a < c THEN c - a ELSE 0
      BY DEF Behind
    <3>5. /\ Returns(m) = IF l < Behind(m) THEN l ELSE Behind(m)
          /\ Returns(c) = IF l < Behind(c) THEN l ELSE Behind(c)
      BY <3>2 DEF Returns
    <3>6. Returns(m) = l
      BY <3>2, <3>4, <3>5
    <3>7. Returns(c) = l
      BY <1>1, <3>2, <3>3, <3>4, <3>5
    <3> QED
      BY <3>6, <3>7
  <2> QED
    BY <2>1, <2>2
<1>7. \A i \in 1..Returns(Len(h)) : query.skip + i \in 1..Len(h)
  BY <1>4, ReturnsType
<1>8. Reference(n) = [i \in 1..Returns(c) |-> Projected(proj, s[query.skip + i].doc)]
  BY Zenon DEF Reference, c, s
<1>9. \A i \in 1..Returns(Len(h)) : h[query.skip + i].doc = Projected(proj, s[query.skip + i].doc)
  BY <1>5, <1>7
<1> QED
  BY <1>6, <1>8, <1>9

-----------------------------------------------------------------------------
\* What comes with another match, and what is in the heap

\* Unsorted: a match is skipped or handed out.
LEMMA HandedNext ==
    ASSUME NEW n, NEW em, Asked, ~Sorted, n \in 0..(Len(query.docs) - 1),
           Meant(query.filter, query.docs[n + 1]), Handed(n, em)
    PROVE  LET em2 == IF Count(n) + 1 > query.skip
                      THEN Append(em, Projected(proj, query.docs[n + 1])) ELSE em
           IN  /\ Bounded /\ Len(em2) >= query.limit => em2 = Reference(Len(query.docs))
               /\ ~(Bounded /\ Len(em2) >= query.limit) => Handed(n + 1, em2)
<1> PICK p \in Nat : p = Len(query.docs)
  BY AskedFacts
<1>0. n \in Nat /\ n \in 0..p /\ n + 1 \in Nat /\ n + 1 \in 0..p /\ n <= n + 1 /\ n + 1 <= p
  OBVIOUS
<1> PICK a \in Nat : a = query.skip
  BY AskedFacts, IntAssumption
<1> PICK l \in Nat : l = query.limit
  BY AskedFacts, IntAssumption
<1> PICK c \in Nat : c = Count(n)
  BY <1>0, HitsFacts
<1>1. Count(n + 1) = c + 1 /\ Found(n + 1)[c + 1].doc = query.docs[n + 1]
  BY FoundNext
<1>2. \A m \in 1..c : Found(n + 1)[m] = Found(n)[m]
  BY <1>0, FoundPrefix
<1> DEFINE d == Projected(proj, query.docs[n + 1])
           em2 == IF c + 1 > a THEN Append(em, d) ELSE em
           shown(m) == Projected(proj, Found(n + 1)[m].doc)
<1>3. Behind(c) = (IF a < c THEN c - a ELSE 0) /\ Behind(c + 1) = (IF a < c + 1 THEN c + 1 - a ELSE 0)
  BY SMTT(40) DEF Behind
<1> PICK b \in Nat : b = Behind(c)
  BY <1>3
<1>4. em = [i \in 1..b |-> shown(a + i)] /\ (Bounded => b < l)
  <2>1. em = [i \in 1..b |-> Projected(proj, Found(n)[a + i].doc)] /\ (Bounded => b < l)
    BY DEF Handed
  <2>2. \A i \in 1..b : a + i \in 1..c
    BY <1>3, SMTT(40)
  <2>3. \A i \in 1..b : Found(n + 1)[a + i] = Found(n)[a + i]
    BY <1>2, <2>2
  <2> QED
    BY <2>1, <2>3
<1>5. d = shown(c + 1)
  BY <1>1
<1> HIDE DEF shown, d
<1>6. em2 = [i \in 1..Behind(c + 1) |-> shown(a + i)] /\ Len(em2) = Behind(c + 1)
  <2>1. CASE c + 1 > a
    <3>1. Behind(c + 1) = b + 1 /\ a + (b + 1) = c + 1
      BY <1>3, <2>1, SMTT(40)
    <3>2. em2 = Append(em, d)
      BY <2>1
    <3> DEFINE T == {shown(a + i) : i \in 1..b} \cup {d}
    <3>3. em \in Seq(T) /\ Len(em) = b /\ d \in T
      <4>0. \A i \in 1..b : shown(a + i) \in T
        BY Zenon DEF T
      <4>00. d \in T
        BY Zenon DEF T
      <4> HIDE DEF T
      <4>1. em \in [1..b -> T]
        BY <1>4, <4>0, Zenon
      <4> QED
        BY <4>00, <4>1
    <3> HIDE DEF T, em2
    <3>4. /\ Append(em, d) \in Seq(T) /\ Len(Append(em, d)) = b + 1
          /\ \A i \in 1..b : Append(em, d)[i] = em[i]
          /\ Append(em, d)[b + 1] = d
      BY <3>3, AppendProperties
    <3>5. DOMAIN em2 = 1..(b + 1) /\ Len(em2) = b + 1 /\ em2 = [i \in 1..(b + 1) |-> em2[i]]
      <4> PICK g : g = em2
        OBVIOUS
      <4>1. g \in Seq(T) /\ Len(g) = b + 1
        BY <3>2, <3>4
      <4>2. DOMAIN g = 1..(b + 1) /\ g = [i \in 1..(b + 1) |-> g[i]]
        BY <4>1
      <4> QED
        BY <4>1, <4>2
    <3>6. \A i \in 1..(b + 1) : em2[i] = shown(a + i)
      <4> SUFFICES ASSUME NEW i \in 1..(b + 1) PROVE em2[i] = shown(a + i)
        OBVIOUS
      <4>1. CASE i \in 1..b
        BY <1>4, <3>2, <3>4, <4>1
      <4>2. CASE i = b + 1
        BY <1>5, <3>1, <3>2, <3>4, <4>2
      <4> QED
        BY <4>1, <4>2
    <3> QED
      BY <3>1, <3>5, <3>6
  <2>2. CASE ~(c + 1 > a)
    <3>1. Behind(c + 1) = 0 /\ b = 0
      BY <1>3, <2>2
    <3>2. em2 = em
      BY <2>2
    <3> HIDE DEF em2
    <3>3. em = [i \in 1..0 |-> shown(a + i)]
      BY <1>4, <3>1
    <3>4. Len(em) = 0
      BY <3>3
    <3> QED
      BY <3>1, <3>2, <3>3, <3>4
  <2> QED
    BY <2>1, <2>2
<1> HIDE DEF em2
<1>7. ASSUME ~(Bounded /\ Len(em2) >= l) PROVE Handed(n + 1, em2)
  <2>1. em2 = [i \in 1..Behind(Count(n + 1)) |-> Projected(proj, Found(n + 1)[query.skip + i].doc)]
    BY <1>1, <1>6, Zenon DEF shown
  <2>2. Bounded => Behind(Count(n + 1)) < query.limit
    BY <1>1, <1>3, <1>6, <1>7
  <2> QED
    BY <2>1, <2>2, Zenon DEF Handed
<1>8. ASSUME Bounded, Len(em2) >= l PROVE em2 = Reference(p)
  <2> PICK r \in Nat : r = Count(p)
    BY HitsFacts
  <2>1. c + 1 <= r /\ \A m \in 1..(c + 1) : Found(p)[m] = Found(n + 1)[m]
    <3>1. /\ Count(n + 1) <= Count(p)
          /\ \A m \in 1..Count(n + 1) : Found(p)[m] = Found(n + 1)[m]
      BY <1>0, FoundPrefix
    <3> QED
      BY <1>1, <3>1
  <2>2. Behind(c + 1) = l /\ a + l = c + 1 /\ a < c + 1
    <3>1. Behind(c + 1) <= b + 1
      BY <1>3, SMTT(40)
    <3>2. b + 1 <= l /\ Behind(c + 1) \in Nat
      BY <1>3, <1>4, <1>8, SMTT(40)
    <3>3. Behind(c + 1) = l
      BY <1>6, <1>8, <3>1, <3>2, SMTT(40)
    <3>4. l # 0
      BY <1>8 DEF Bounded
    <3> QED
      BY <1>3, <3>3, <3>4
  <2>3. Returns(r) = l
    <3>1. Behind(r) = IF a < r THEN r - a ELSE 0
      BY DEF Behind
    <3>2. Returns(r) = IF Bounded /\ l < Behind(r) THEN l ELSE Behind(r)
      BY DEF Returns
    <3> QED
      BY <1>8, <2>1, <2>2, <3>1, <3>2, SMTT(40)
  <2>4. Reference(p) = [i \in 1..l |-> Projected(proj, Found(p)[a + i].doc)]
    <3>1. Ordered(Found(p)) = Found(p)
      BY OrderedFound
    <3>2. Reference(p) = [i \in 1..Returns(Count(p)) |-> Projected(proj, Ordered(Found(p))[query.skip + i].doc)]
      BY Zenon DEF Reference
    <3> QED
      BY <2>3, <3>1, <3>2
  <2>5. \A i \in 1..l : Found(p)[a + i] = Found(n + 1)[a + i]
    <3>1. \A i \in 1..l : a + i \in 1..(c + 1)
      BY <2>2, SMTT(40)
    <3> QED
      BY <2>1, <3>1
  <2> QED
    BY <1>6, <2>2, <2>4, <2>5 DEF shown
<1>9. em2 = IF Count(n) + 1 > query.skip THEN Append(em, Projected(proj, query.docs[n + 1])) ELSE em
  BY Zenon DEF em2, d
<1> QED
  BY <1>7, <1>8, <1>9, Zenon

\* Unsorted: at the end of the scan all of the page has been handed out.
LEMMA HandedPage ==
    ASSUME NEW n, NEW em, Asked, ~Sorted, n = Len(query.docs), Handed(n, em)
    PROVE  em = Reference(n)
<1>0. n \in 0..Len(query.docs)
  BY AskedFacts
<1>1. Ordered(Found(n)) = Found(n)
  BY <1>0, OrderedFound
<1>2. em = [i \in 1..Behind(Count(n)) |-> Projected(proj, Found(n)[query.skip + i].doc)]
  BY DEF Handed
<1>3. Returns(Count(n)) = Behind(Count(n))
  <2> PICK c \in Nat : c = Count(n)
    BY <1>0, FoundFacts
  <2> PICK l \in Nat : l = query.limit
    BY AskedFacts, IntAssumption
  <2>1. Behind(c) \in Nat
    BY ReturnsType
  <2>2. Bounded => Behind(c) < l
    BY DEF Handed
  <2>3. Returns(c) = IF Bounded /\ l < Behind(c) THEN l ELSE Behind(c)
    BY DEF Returns
  <2> QED
    BY <2>1, <2>2, <2>3
<1>4. Reference(n) = [i \in 1..Returns(Count(n)) |-> Projected(proj, Ordered(Found(n))[query.skip + i].doc)]
  BY Zenon DEF Reference
<1> QED
  BY <1>1, <1>2, <1>3, <1>4

\* What is kept is what the reference holds first.
LEMMA GatheredBest ==
    ASSUME NEW n, NEW h, Asked, Sorted, Bounded, n \in 0..Len(query.docs), Gathered(n, h)
    PROVE  LET seen == Ordered(Found(n))
           IN  /\ Len(h) = Min({K, Count(n)})
               /\ {e.seq : e \in ToSet(h)} = {seen[k].seq : k \in 1..Len(h)}
               /\ \A i \in 1..(Len(h) - 1) : ~Less(h, i, Parent(i))
<1> PICK S : Keeps(n, S, Len(h)) /\ Listing(h, S) /\ IsHeap(h, S)
  BY Zenon DEF Gathered
<1> PICK c : c = Count(n)
  OBVIOUS
<1> PICK s : s = Ordered(Found(n))
  OBVIOUS
<1>1. /\ c \in Nat
      /\ Lined(All(n)) /\ Cardinality(All(n)) = c
      /\ \A k \in 1..c : Kth(All(n), k) = Shown(Kth(FoundSet(n), k))
      /\ s = [k \in 1..c |-> Kth(FoundSet(n), k)]
  BY FoundFacts, AllFacts, OrderedFound
<1>2. Best(S, All(n)) /\ K \in Nat /\ Len(h) <= K /\ (Len(h) < K => S = All(n))
  BY DEF Keeps
<1>3. Cardinality(S) = Len(h) /\ Len(h) \in Nat /\ ToSet(h) = S
  BY ListingFacts
<1>4. /\ Cardinality(S) <= c
      /\ S = {Kth(All(n), k) : k \in 1..Cardinality(S)}
  BY <1>1, <1>2, BestFacts
<1>5. Len(h) = Min({K, c})
  <2> DEFINE T == {K, c}
  <2>1. T \subseteq Nat /\ T # {}
    BY <1>1, <1>2
  <2> HIDE DEF T
  <2>2. Min(T) \in T /\ \A x \in T : Min(T) <= x
    BY <2>1, MinFacts
  <2> PICK m : m = Min(T)
    OBVIOUS
  <2>3. (m = K \/ m = c) /\ m <= K /\ m <= c
    BY <2>2 DEF T
  <2>4. Len(h) < K => Len(h) = c
    BY <1>1, <1>2, <1>3
  <2>5. Len(h) = m
    BY <1>1, <1>2, <1>3, <1>4, <2>3, <2>4
  <2> QED
    BY <2>5 DEF T
<1>6. {e.seq : e \in ToSet(h)} = {s[k].seq : k \in 1..Len(h)}
  <2>1. \A k \in 1..Len(h) : k \in 1..c
    BY <1>1, <1>3, <1>4
  <2>2. \A k \in 1..Len(h) : Kth(All(n), k) = Shown(s[k])
    BY <1>1, <2>1
  <2>3. \A x : Shown(x).seq = x.seq
    BY DEF Shown
  <2>4. \A k \in 1..Len(h) : Kth(All(n), k).seq = s[k].seq
    BY <2>2, <2>3
  <2>5. ToSet(h) = {Kth(All(n), k) : k \in 1..Len(h)}
    BY <1>3, <1>4
  <2> QED
    BY <2>4, <2>5
<1>7. \A i \in 1..(Len(h) - 1) : ~Less(h, i, Parent(i))
  BY DEF IsHeap, NoWorse, Less
<1> QED
  BY <1>5, <1>6, <1>7, Zenon

-----------------------------------------------------------------------------
\* What stays the same while a query runs

\* The order of entries.
LEMMA OrderSame ==
    ASSUME query' = query
    PROVE  \A a, b : EntryLess(a, b)' <=> EntryLess(a, b)
BY DEF EntryLess

\* What is found.
LEMMA FoundSame ==
    ASSUME query' = query, NEW n
    PROVE  /\ Hits(n)' = Hits(n) /\ Found(n)' = Found(n)
           /\ Count(n)' = Count(n) /\ FoundSet(n)' = FoundSet(n)
<1>1. Hits(n)' = Hits(n)
  BY DEF Hits
<1>2. Found(n)' = Found(n)
  BY <1>1 DEF Found
<1> QED
  BY <1>1, <1>2 DEF Count, FoundSet

\* What is kept of it.
LEMMA AllSame ==
    ASSUME query' = query, proj' = proj, NEW n
    PROVE  All(n)' = All(n)
<1>1. \A e : Shown(e)' = Shown(e)
  BY DEF Shown
<1>2. FoundSet(n)' = FoundSet(n)
  BY FoundSame
<1> QED
  BY <1>1, <1>2 DEF All

\* Places.
LEMMA PlaceSame ==
    ASSUME query' = query, NEW S, NEW e
    PROVE  Place(S, e)' = Place(S, e)
<1>1. \A f : EntryLess(f, e)' <=> EntryLess(f, e)
  BY OrderSame
<1>2. {f \in S : EntryLess(f, e)}' = {f \in S : EntryLess(f, e)}
  BY <1>1
<1> QED
  BY <1>2 DEF Place

\* Heaps.
LEMMA HeapSame ==
    ASSUME query' = query, NEW h, NEW S
    PROVE  IsHeap(h, S)' <=> IsHeap(h, S)
<1>1. \A i, j : NoWorse(h, i, j)' <=> NoWorse(h, i, j)
  BY OrderSame DEF NoWorse
<1> QED
  BY <1>1 DEF IsHeap

\* What is among the best.
LEMMA KeepsSame ==
    ASSUME query' = query, proj' = proj, NEW n, NEW S, NEW length
    PROVE  Keeps(n, S, length)' <=> Keeps(n, S, length)
<1>1. All(n)' = All(n)
  BY AllSame
<1>2. Best(S, All(n))' <=> Best(S, All(n))
  BY <1>1, OrderSame DEF Best
<1>3. K' = K /\ (Bounded' <=> Bounded)
  BY DEF K, Bounded
<1> QED
  BY <1>1, <1>2, <1>3 DEF Keeps

\* What is gathered.
LEMMA GatheredSame ==
    ASSUME query' = query, proj' = proj, NEW n, NEW h
    PROVE  Gathered(n, h)' <=> Gathered(n, h)
<1>1. Bounded' <=> Bounded
  BY DEF Bounded
<1> QED
  BY <1>1, KeepsSame, HeapSame DEF Gathered

\* What is sorted.
LEMMA ArrangedSame ==
    ASSUME query' = query, proj' = proj, NEW n, NEW h
    PROVE  Arranged(n, h)' <=> Arranged(n, h)
BY KeepsSame, PlaceSame DEF Arranged

\* What is handed out.
LEMMA HandedSame ==
    ASSUME query' = query, proj' = proj, NEW n, NEW em
    PROVE  Handed(n, em)' <=> Handed(n, em)
<1>1. Count(n)' = Count(n) /\ Found(n)' = Found(n)
  BY FoundSame
<1> QED
  BY <1>1 DEF Handed, Behind, Bounded

\* The entry a place is given to.
Pick(S, place, k) == CHOOSE e \in S : place[e] = k

\* The places of what s lists.
PlacesOf(s) == [e \in ToSet(s) |-> Place(ToSet(s), e)]

\* The reference order.
LEMMA OrderedSame ==
    ASSUME query' = query, NEW s
    PROVE  Ordered(s)' = Ordered(s)
<1>1. Ordered(s) = IF Sorted THEN [k \in DOMAIN s |-> Pick(ToSet(s), PlacesOf(s), k)] ELSE s
  BY Zenon DEF Ordered, Pick, PlacesOf, Place
<1>2. Ordered(s)' = IF Sorted' THEN [k \in DOMAIN s |-> Pick(ToSet(s), PlacesOf(s)', k)] ELSE s
  BY Zenon DEF Ordered, Pick, PlacesOf, Place
<1>3. PlacesOf(s)' = PlacesOf(s)
  BY PlaceSame DEF PlacesOf
<1>4. Sorted' <=> Sorted
  BY DEF Sorted
<1> QED
  BY <1>1, <1>2, <1>3, <1>4, Zenon

\* The page wanted.
LEMMA ReferenceSame ==
    ASSUME query' = query, proj' = proj, NEW n
    PROVE  Reference(n)' = Reference(n)
<1>1. Count(n)' = Count(n) /\ Found(n)' = Found(n)
  BY FoundSame
<1>2. Ordered(Found(n))' = Ordered(Found(n))
  BY <1>1, OrderedSame
<1>3. Returns(Count(n))' = Returns(Count(n))
  BY <1>1 DEF Returns, Behind, Bounded
<1> PICK f : f = Ordered(Found(n))
  OBVIOUS
<1> PICK r : r = Returns(Count(n))
  OBVIOUS
<1>4. Reference(n) = [i \in 1..r |-> Projected(proj, f[query.skip + i].doc)]
  BY Zenon DEF Reference
<1>5. Reference(n)' = [i \in 1..r |-> Projected(proj', f[query'.skip + i].doc)]
  BY <1>2, <1>3, Zenon DEF Reference
<1> QED
  BY <1>4, <1>5

-----------------------------------------------------------------------------
\* The invariant

\* Compiling a filter keeps its meaning.
FiltersMean ==
    \A i \in DOMAIN Queries : \A q \in Queries[i] : \A n \in DOMAIN q.docs :
       FilterOf(q.filter) # Refused
       => Passes(FilterOf(q.filter), q.docs[n]) = Meant(q.filter, q.docs[n])

\* At every moment the heap or the list holds the best of what the scan has found so
\* far, or the page holds it, and in the end the page is the one wanted.
QInv ==
    /\ Asked
    /\ state \in {"start", "scan", "emit", "done", "refused", "panic"}
    /\ state = "start" => scanned = 0 /\ matched = 0 /\ kept = <<>> /\ emitted = <<>>
    /\ state \in {"scan", "emit"} =>
         /\ matcher = FilterOf(query.filter) /\ matcher # Refused
         /\ scanned \in 0..Len(query.docs) /\ matched = Count(scanned)
    /\ state = "scan" /\ ~Sorted => Handed(scanned, emitted)
    /\ state = "scan" /\ Sorted => Gathered(scanned, kept)
    /\ state = "emit" => Sorted /\ scanned = Len(query.docs) /\ Arranged(scanned, kept)
    /\ state = "done" => emitted = Reference(Len(query.docs))

\* While a query runs.
Running ==
    /\ matcher = FilterOf(query.filter) /\ matcher # Refused
    /\ scanned \in 0..Len(query.docs) /\ matched = Count(scanned)

\* At the start there is nothing to say.
LEMMA InitQInv == Init => QInv
BY DEF Init, QInv, Asked

\* The heap can be made.
Fits == Sorted /\ (Bounded => ~(Wrap(K + 1) < 0))

\* Then the scan begins with it empty.
LEMMA FitsGathered == Asked /\ Fits => Gathered(0, <<>>)
BY GatheredFirst DEF Fits

\* The query stays the one asked.
LEMMA AskedSame ==
    ASSUME query' = query, Asked
    PROVE  Asked'
BY DEF Asked

\* Start keeps the invariant.
LEMMA StartQInv ==
    ASSUME QInv, Start
    PROVE  QInv'
<1>0. /\ Asked /\ query' = query /\ matcher' = FilterOf(query.filter)
      /\ scanned' = 0 /\ matched' = 0 /\ kept' = <<>> /\ emitted' = <<>>
  BY DEF QInv, Start, Unstarted
<1>1. Asked'
  BY <1>0, AskedSame
<1>2. state' \in {"refused", "panic", "scan"}
  BY DEF Start
<1>3. (Sorted' <=> Sorted) /\ (Bounded' <=> Bounded) /\ K' = K
  BY <1>0 DEF Sorted, Bounded, K
<1>4. CASE state' # "scan"
  <2>1. state' \in {"refused", "panic"}
    BY <1>2, <1>4
  <2> QED
    BY <1>1, <2>1 DEF QInv
<1>5. CASE state' = "scan"
  <2>1. matcher' # Refused /\ (Sorted /\ Bounded => ~(Wrap(K + 1) < 0))
    BY <1>5 DEF Start
  <2>2. Wrap(K + 1)' = Wrap(K + 1)
    BY <1>3 DEF Wrap
  <2>3. Sorted' /\ Bounded' => ~(Wrap(K + 1)' < 0)
    BY <1>3, <2>1, <2>2
  <2>4. Count(0)' = 0 /\ 0 \in 0..Len(query'.docs)
    <3>1. Count(0) = 0
      BY NothingFound
    <3>2. Len(query.docs) \in Nat
      BY <1>0, AskedFacts
    <3> QED
      BY <1>0, <3>1, <3>2, FoundSame
  <2>5. Sorted' => Gathered(0, <<>>)'
    <3>1. Sorted' => Fits'
      BY <2>3 DEF Fits
    <3>2. Asked' /\ Fits' => Gathered(0, <<>>)'
      BY FitsGathered, PTL
    <3> QED
      BY <1>1, <3>1, <3>2
  <2>6. Handed(0, <<>>)'
    BY <1>1, HandedFirst, PTL
  <2>7. Sorted' => Gathered(scanned, kept)'
    BY <1>0, <2>5
  <2>8. Handed(scanned, emitted)'
    BY <1>0, <2>6
  <2>9. Running'
    BY <1>0, <2>1, <2>4 DEF Running
  <2> QED
    BY <1>1, <1>5, <2>7, <2>8, <2>9 DEF QInv, Running
<1> QED
  BY <1>4, <1>5

\* The visitor finds what the filter means.
LEMMA ScanMeans ==
    ASSUME FiltersMean, QInv, NEW matches \in BOOLEAN, Scan(matches)
    PROVE  /\ Meant(query.filter, query.docs[scanned + 1]) = matches
           /\ scanned \in 0..(Len(query.docs) - 1)
           /\ Asked /\ Running
<1>1. /\ Asked /\ Running /\ scanned < Len(query.docs)
      /\ Passes(matcher, query.docs[scanned + 1]) = matches
  BY DEF QInv, Scan, Document, Running
<1>2. Len(query.docs) \in Nat /\ DOMAIN query.docs = 1..Len(query.docs)
  BY <1>1, AskedFacts
<1>3. scanned \in 0..(Len(query.docs) - 1) /\ scanned + 1 \in DOMAIN query.docs
  BY <1>1, <1>2 DEF Running
<1> PICK i \in DOMAIN Queries : query \in Queries[i]
  BY <1>1 DEF Asked
<1>4. FilterOf(query.filter) # Refused /\ Passes(FilterOf(query.filter), query.docs[scanned + 1]) = matches
  BY <1>1 DEF Running
<1>5. Passes(FilterOf(query.filter), query.docs[scanned + 1]) = Meant(query.filter, query.docs[scanned + 1])
  BY <1>3, <1>4, Zenon DEF FiltersMean
<1> QED
  BY <1>1, <1>3, <1>4, <1>5

\* A document that does not match changes nothing.
LEMMA DropQInv ==
    ASSUME FiltersMean, QInv, Drop
    PROVE  QInv'
<1>1. /\ ~Meant(query.filter, query.docs[scanned + 1])
      /\ scanned \in 0..(Len(query.docs) - 1) /\ Asked /\ Running
  BY ScanMeans DEF Drop
<1>2. /\ query' = query /\ proj' = proj /\ matcher' = matcher
      /\ scanned' = scanned + 1 /\ matched' = matched + 0
      /\ kept' = kept /\ emitted' = emitted /\ state' = "scan" /\ state = "scan"
  BY DEF Drop, Scan, Compiled
<1>3. scanned \in Nat /\ scanned' \in 0..Len(query.docs)
  BY <1>1, <1>2, AskedFacts
<1>4. Count(scanned') = Count(scanned) /\ Found(scanned') = Found(scanned) /\ All(scanned') = All(scanned)
  BY <1>1, <1>2, <1>3, FoundNoMore
<1>5. Running'
  <2>1. Count(scanned') = Count(scanned)'
    BY <1>2, FoundSame
  <2>2. Count(scanned) \in Nat
    BY <1>3, HitsFacts
  <2> QED
    BY <1>1, <1>2, <1>3, <1>4, <2>1, <2>2 DEF Running
<1>6. Sorted' <=> Sorted
  BY <1>2 DEF Sorted
<1>7. Sorted => Gathered(scanned, kept)'
  <2>1. Sorted => Gathered(scanned, kept)
    BY <1>2 DEF QInv
  <2>2. Gathered(scanned, kept) => Gathered(scanned', kept')
    BY <1>2, <1>4, Zenon DEF Gathered, Keeps
  <2> QED
    BY <1>2, <2>1, <2>2, GatheredSame
<1>8. ~Sorted => Handed(scanned, emitted)'
  <2>1. ~Sorted => Handed(scanned, emitted)
    BY <1>2 DEF QInv
  <2>2. Handed(scanned, emitted) => Handed(scanned', emitted')
    BY <1>2, <1>4, Zenon DEF Handed
  <2> QED
    BY <1>2, <2>1, <2>2, HandedSame
<1> QED
  BY <1>1, <1>2, <1>5, <1>6, <1>7, <1>8, AskedSame DEF QInv, Running

\* A match is handed out, and the page may be complete.
LEMMA UnsortedQInv ==
    ASSUME FiltersMean, QInv, Unsorted
    PROVE  QInv'
<1>1. /\ Meant(query.filter, query.docs[scanned + 1])
      /\ scanned \in 0..(Len(query.docs) - 1) /\ Asked /\ Running
  BY ScanMeans DEF Unsorted
<1> DEFINE em2 == IF Count(scanned) + 1 > query.skip
                  THEN Append(emitted, Projected(proj, query.docs[scanned + 1])) ELSE emitted
           ends == Bounded /\ Len(em2) >= query.limit
<1>2. /\ query' = query /\ proj' = proj /\ matcher' = matcher
      /\ scanned' = scanned + 1 /\ matched' = Count(scanned) + 1
      /\ emitted' = em2 /\ state = "scan" /\ state' = (IF ends THEN "done" ELSE "scan")
      /\ ~Sorted
  BY <1>1 DEF Unsorted, Scan, Compiled, Running, Document
<1>3. /\ ends => em2 = Reference(Len(query.docs))
      /\ ~ends => Handed(scanned + 1, em2)
  <2>1. Handed(scanned, emitted)
    BY <1>2 DEF QInv
  <2> QED
    BY <1>1, <1>2, <2>1, HandedNext, Zenon
<1> HIDE DEF em2, ends
<1>4. scanned \in Nat /\ scanned' \in 0..Len(query.docs)
  BY <1>1, <1>2, AskedFacts
<1>5. Running'
  <2>1. Count(scanned') = Count(scanned)'
    BY <1>2, FoundSame
  <2>2. Count(scanned + 1) = Count(scanned) + 1
    BY <1>1, FoundNext
  <2> QED
    BY <1>1, <1>2, <1>4, <2>1, <2>2 DEF Running
<1>6. Sorted' <=> Sorted
  BY <1>2 DEF Sorted
<1>7. CASE ends
  <2>1. state' = "done" /\ emitted' = Reference(Len(query.docs))
    BY <1>2, <1>3, <1>7
  <2>2. emitted' = Reference(Len(query.docs))'
    BY <1>2, <2>1, ReferenceSame
  <2> QED
    BY <1>1, <1>2, <2>1, <2>2, AskedSame DEF QInv
<1>8. CASE ~ends
  <2>1. state' = "scan" /\ Handed(scanned', emitted')
    BY <1>2, <1>3, <1>8
  <2>2. Handed(scanned, emitted)'
    BY <1>2, <2>1, HandedSame
  <2> QED
    BY <1>1, <1>2, <1>5, <1>6, <2>1, <2>2, AskedSame DEF QInv, Running
<1> QED
  BY <1>7, <1>8

\* A match is kept if it is among the best.
LEMMA CollectQInv ==
    ASSUME FiltersMean, QInv, Collect
    PROVE  QInv'
<1>1. /\ Meant(query.filter, query.docs[scanned + 1])
      /\ scanned \in 0..(Len(query.docs) - 1) /\ Asked /\ Running
  BY ScanMeans DEF Collect
<1> DEFINE e == EntryOf(query.docs[scanned + 1], Count(scanned) + 1)
<1>2. /\ query' = query /\ proj' = proj /\ matcher' = matcher
      /\ scanned' = scanned + 1 /\ matched' = Count(scanned) + 1
      /\ kept' = Kept(kept, EntryOf(query.docs[scanned + 1], matched'))
      /\ state = "scan" /\ state' = "scan" /\ Sorted
  BY <1>1 DEF Collect, Scan, Compiled, Running, Document, Kept
<1>3. kept' = Kept(kept, EntryOf(query.docs[scanned + 1], Count(scanned) + 1))
  BY <1>2
<1>4. Gathered(scanned', kept')
  <2>1. Gathered(scanned, kept)
    BY <1>2 DEF QInv
  <2> QED
    BY <1>1, <1>2, <1>3, <2>1, GatheredNext
<1>5. Gathered(scanned, kept)'
  BY <1>2, <1>4, GatheredSame
<1>6. scanned \in Nat /\ scanned' \in 0..Len(query.docs)
  BY <1>1, <1>2, AskedFacts
<1>7. Running'
  <2>1. Count(scanned') = Count(scanned)'
    BY <1>2, FoundSame
  <2>2. Count(scanned + 1) = Count(scanned) + 1
    BY <1>1, FoundNext
  <2> QED
    BY <1>1, <1>2, <1>6, <2>1, <2>2 DEF Running
<1>8. Sorted' <=> Sorted
  BY <1>2 DEF Sorted
<1> QED
  BY <1>1, <1>2, <1>5, <1>7, <1>8, AskedSame DEF QInv, Running

\* What was kept is sorted; or the page is complete.
LEMMA ScanEndsQInv ==
    ASSUME QInv, ScanEnds
    PROVE  QInv'
<1>1. /\ query' = query /\ proj' = proj /\ matcher' = matcher
      /\ scanned' = scanned /\ matched' = matched /\ emitted' = emitted
      /\ kept' = SortEntries(kept)
      /\ state = "scan" /\ state' = (IF Sorted THEN "emit" ELSE "done")
      /\ scanned = Len(query.docs) /\ Asked /\ Running
  BY DEF QInv, ScanEnds, Compiled, Running
<1>2. Sorted' <=> Sorted
  BY <1>1 DEF Sorted
<1>3. CASE Sorted
  <2>1. Gathered(scanned, kept)
    BY <1>1, <1>3 DEF QInv
  <2>2. Arranged(scanned', kept')
    BY <1>1, <2>1, GatheredSorted DEF Running
  <2>3. Arranged(scanned, kept)'
    BY <1>1, <2>2, ArrangedSame
  <2>4. Running'
    <3>1. Count(scanned)' = Count(scanned)
      BY <1>1, FoundSame
    <3> QED
      BY <1>1, <3>1 DEF Running
  <2> QED
    BY <1>1, <1>2, <1>3, <2>3, <2>4, AskedSame DEF QInv, Running
<1>4. CASE ~Sorted
  <2>1. emitted = Reference(Len(query.docs))
    BY <1>1, <1>4, HandedPage DEF QInv
  <2>2. emitted' = Reference(Len(query.docs))'
    BY <1>1, <2>1, ReferenceSame
  <2> QED
    BY <1>1, <1>4, <2>2, AskedSame DEF QInv
<1> QED
  BY <1>3, <1>4

\* The sorted page is the one wanted.
LEMMA EmitQInv ==
    ASSUME QInv, EmitSorted
    PROVE  QInv'
<1>1. /\ query' = query /\ proj' = proj /\ state = "emit" /\ state' = "done"
      /\ emitted' = [i \in 1..Returns(Len(kept)) |-> kept[query.skip + i].doc]
  BY Zenon DEF EmitSorted, Compiled, Returns, Behind
<1>2. Asked /\ Sorted /\ scanned = Len(query.docs) /\ scanned \in 0..Len(query.docs) /\ Arranged(scanned, kept)
  BY <1>1 DEF QInv
<1>3. emitted' = Reference(Len(query.docs))
  <2>1. [i \in 1..Returns(Len(kept)) |-> kept[query.skip + i].doc] = Reference(scanned)
    BY <1>2, ArrangedPage
  <2> QED
    BY <1>1, <1>2, <2>1
<1>4. emitted' = Reference(Len(query.docs))'
  BY <1>1, <1>3, ReferenceSame
<1> QED
  BY <1>1, <1>2, <1>4, AskedSame DEF QInv

\* Nothing happens.
LEMMA SameQInv ==
    ASSUME QInv, UNCHANGED vars
    PROVE  QInv'
<1>1. /\ query' = query /\ proj' = proj /\ matcher' = matcher /\ scanned' = scanned
      /\ matched' = matched /\ kept' = kept /\ emitted' = emitted /\ state' = state
  BY DEF vars
<1>2. /\ Handed(scanned, emitted)' <=> Handed(scanned', emitted')
      /\ Gathered(scanned, kept)' <=> Gathered(scanned', kept')
      /\ Arranged(scanned, kept)' <=> Arranged(scanned', kept')
      /\ Count(scanned)' = Count(scanned')
  BY <1>1, HandedSame, GatheredSame, ArrangedSame, FoundSame
<1>3. Reference(Len(query.docs))' = Reference(Len(query.docs))
  BY <1>1, ReferenceSame
<1>4. Sorted' <=> Sorted
  BY <1>1 DEF Sorted
<1>5. Asked'
  BY <1>1, AskedSame DEF QInv
<1> QED
  BY <1>1, <1>2, <1>3, <1>4, <1>5 DEF QInv

\* Whatever the documents, the filter, the projection, the sort keys, the skip and the
\* limit: what is kept and what has been handed out are right at every step of the
\* scan, provided that compiling a filter keeps its meaning.
THEOREM QueryTheorem ==
    ASSUME FiltersMean
    PROVE  Spec => []QInv
<1>1. Init => QInv
  BY InitQInv
<1>2. QInv /\ [Next]_vars => QInv'
  <2> SUFFICES ASSUME QInv, [Next]_vars PROVE QInv'
    OBVIOUS
  <2>1. CASE Start
    BY <2>1, StartQInv
  <2>2. CASE Drop
    BY <2>2, DropQInv
  <2>3. CASE Unsorted
    BY <2>3, UnsortedQInv
  <2>4. CASE Collect
    BY <2>4, CollectQInv
  <2>5. CASE ScanEnds
    BY <2>5, ScanEndsQInv
  <2>6. CASE EmitSorted
    BY <2>6, EmitQInv
  <2>7. CASE UNCHANGED vars
    BY <2>7, SameQInv
  <2> QED
    BY <2>1, <2>2, <2>3, <2>4, <2>5, <2>6, <2>7 DEF Next, Returned
<1> QED
  BY <1>1, <1>2, PTL DEF Spec

\* A query returns the page asked for, whichever of the three ways it is executed in:
\* the matches in order (of the scan, or of the sort keys with ties in the order of
\* the scan), those behind the skip, up to the limit.
THEOREM PageTheorem ==
    ASSUME FiltersMean
    PROVE  Spec => []PageIsReference
<1>1. QInv => PageIsReference
  <2> SUFFICES ASSUME QInv, state = "done" PROVE PageIsReference
    BY DEF PageIsReference
  <2>1. Asked /\ emitted = Reference(Len(query.docs))
    BY DEF QInv
  <2> QED
    BY <2>1, ReferenceFacts, Zenon DEF PageIsReference
<1> QED
  BY <1>1, QueryTheorem, PTL

\* TopK holds the best skip + limit of the matches so far, and is a heap, at every
\* step of the scan.
THEOREM HeapTheorem ==
    ASSUME FiltersMean
    PROVE  Spec => []HeapHoldsBest
<1>1. QInv => HeapHoldsBest
  <2> SUFFICES ASSUME QInv, state = "scan", Sorted, Bounded PROVE HeapHoldsBest
    BY DEF HeapHoldsBest
  <2>1. /\ Asked /\ scanned \in 0..Len(query.docs) /\ Gathered(scanned, kept)
        /\ matched = Count(scanned)
    BY DEF QInv
  <2>2. LET seen == Ordered(Found(scanned))
        IN  /\ Len(kept) = Min({K, Count(scanned)})
            /\ {e.seq : e \in ToSet(kept)} = {seen[k].seq : k \in 1..Len(kept)}
            /\ \A i \in 1..(Len(kept) - 1) : ~Less(kept, i, Parent(i))
    BY <2>1, GatheredBest
  <2> QED
    BY <2>1, <2>2, Zenon DEF HeapHoldsBest
<1> QED
  BY <1>1, QueryTheorem, PTL

\* The query is one that is asked, always.
LEMMA AskedAlways == Spec => []Asked
<1>1. Init => Asked
  BY DEF Init, Asked
<1>2. Asked /\ [Next]_vars => Asked'
  BY AskedSame DEF Next, vars, Start, Drop, Unsorted, Collect, Scan, Compiled, ScanEnds,
     EmitSorted, Returned
<1> QED
  BY <1>1, <1>2, PTL DEF Spec

\* The values a query sorts by are in one total order, of whatever kinds they are.
THEOREM KeysTheorem == Spec => []SortKeysAreOrdered
<1>1. Asked => SortKeysAreOrdered
  <2> SUFFICES ASSUME Asked PROVE SortKeysAreOrdered
    OBVIOUS
  <2> DEFINE V == UNION {{KeyOf(query.docs[n], query.sort[i].field) : n \in DOMAIN query.docs} :
                            i \in DOMAIN query.sort}
  <2>1. V \subseteq Value
    <3>1. \A n \in DOMAIN query.docs, i \in DOMAIN query.sort :
            KeyOf(query.docs[n], query.sort[i].field) \in Value
      BY AskedFacts
    <3> QED
      BY <3>1
  <2> HIDE DEF V
  <2>2. TotalOrder(V)
    BY <2>1, OrderTheorem
  <2> QED
    BY <2>2, Zenon DEF SortKeysAreOrdered, V
<1> QED
  BY <1>1, AskedAlways, PTL

-----------------------------------------------------------------------------
\* Matches and pages

\* The matches are a sequence of documents, none of them there twice.
LEMMA MatchingFacts ==
    ASSUME DocInv
    PROVE  /\ Len(Matching) \in Nat /\ DOMAIN Matching = 1..Len(Matching)
           /\ \A k \in 1..Len(Matching) : Matching[k] \in Doc
           /\ \A j, k \in 1..Len(Matching) : Matching[j].n = Matching[k].n => j = k
<1>1. docs \in Seq(Doc) /\ \A i, j \in DOMAIN docs : docs[i].n = docs[j].n => i = j
  BY DEF DocInv
<1>2. PICK l \in Nat : DOMAIN docs = 1..l
  BY <1>1
<1>3. IsFiniteSet(1..l)
  BY FS_Interval
<1>4. PICK S : S = Matches /\ S \subseteq DOMAIN docs
  BY DEF Matches
<1>5. S \subseteq Nat /\ IsFiniteSet(S)
  BY <1>2, <1>3, <1>4, FS_Subset
<1>6. /\ Cardinality(S) \in Nat
      /\ \A n \in 1..Cardinality(S) : Nth(S, n) \in S
      /\ \A n, m \in 1..Cardinality(S) : Nth(S, n) = Nth(S, m) => n = m
  BY <1>5, NthFacts
<1>7. PICK m \in Nat : m = Cardinality(S)
  BY <1>6
<1>8. Matching = [k \in 1..m |-> docs[Nth(S, k)]]
  BY <1>4, <1>7 DEF Matching
<1>9. Len(Matching) = m /\ DOMAIN Matching = 1..m
  BY <1>8
<1>10. \A k \in 1..m : Nth(S, k) \in DOMAIN docs /\ Matching[k] = docs[Nth(S, k)]
  BY <1>4, <1>6, <1>7, <1>8
<1>11. \A k \in 1..m : Matching[k] \in Doc
  BY <1>1, <1>10
<1>12. \A j, k \in 1..m : Matching[j].n = Matching[k].n => j = k
  <2> TAKE j, k \in 1..m
  <2> HAVE Matching[j].n = Matching[k].n
  <2>1. Nth(S, j) = Nth(S, k)
    BY <1>1, <1>10
  <2> QED
    BY <1>6, <1>7, <2>1
<1> QED
  BY <1>9, <1>11, <1>12

MatchingSound == Len(Matching) \in Nat /\ DOMAIN Matching = 1..Len(Matching)

LEMMA MatchingNext == DocInv' => MatchingSound'
<1>1. DocInv => MatchingSound
  BY MatchingFacts DEF MatchingSound
<1> QED
  BY <1>1, PTL

\* A page is a stretch of the matches, and a short one is their last.
IsPage(found, skip, limit) ==
    /\ found \in Seq(1..MaxDocs) /\ Len(found) <= limit
    /\ Len(found) # 0 => skip + Len(found) <= Len(Matching)
    /\ Len(found) # limit => Len(Matching) <= skip + Len(found)
    /\ \A i \in 1..Len(found) : found[i] = Matching[skip + i].n

LEMMA FindFacts ==
    ASSUME NEW skip \in Nat, NEW limit \in Nat \ {0}, NEW found, DocInv, found = Find(skip, limit)
    PROVE  IsPage(found, skip, limit)
<1>1. PICK m \in Nat : m = Len(Matching) /\ DOMAIN Matching = 1..m
  BY MatchingFacts, Zenon
<1>2. \A k \in 1..m : Matching[k].n \in 1..MaxDocs
  BY <1>1, MatchingFacts DEF Doc
<1> DEFINE Ks == {k \in DOMAIN Matching : skip < k /\ k <= skip + limit}
           e == IF m <= skip + limit THEN m ELSE skip + limit
<1>3. Fitting(skip, limit) = Cardinality(Ks)
  BY DEF Fitting
<1>4. PICK f \in Nat : /\ f = Fitting(skip, limit) /\ f <= limit
                       /\ f # 0 => skip + f <= m
                       /\ f # limit => m <= skip + f
  <2>1. CASE m <= skip
    <3>1. Ks = {}
      BY <1>1, <2>1
    <3>2. Cardinality(Ks) = 0
      BY <3>1, FS_EmptySet
    <3> QED
      BY <1>3, <2>1, <3>2
  <2>2. CASE ~(m <= skip)
    <3>1. PICK a \in Int, b \in Int : a = skip + 1 /\ b = e
      OBVIOUS
    <3>2. Ks = a..b
      BY <1>1, <3>1
    <3>3. a <= b
      BY <2>2, <3>1
    <3>4. Cardinality(a..b) = b - a + 1
      BY <3>3, FS_Interval
    <3>5. Fitting(skip, limit) = e - skip
      <4>1. Fitting(skip, limit) = b - a + 1
        BY <1>3, <3>2, <3>4, Zenon
      <4>2. e \in Int
        OBVIOUS
      <4> HIDE DEF e
      <4> QED
        BY <3>1, <4>1, <4>2
    <3> QED
      BY <2>2, <3>5
  <2> QED
    BY <2>1, <2>2
<1>5. found = [i \in 1..f |-> Matching[skip + i].n]
  BY <1>4 DEF Find
<1>6. \A i \in 1..f : found[i] = Matching[skip + i].n /\ found[i] \in 1..MaxDocs
  <2> TAKE i \in 1..f
  <2>1. skip + i \in 1..m
    BY <1>4
  <2> QED
    BY <1>2, <1>5, <2>1
<1>7. found \in [1..f -> 1..MaxDocs]
  BY <1>5, <1>6
<1>8. found \in Seq(1..MaxDocs) /\ Len(found) = f
  <2>1. found \in Seq(1..MaxDocs)
    BY <1>7, SeqDef
  <2> QED
    BY <1>7, <2>1
<1> QED
  BY <1>1, <1>4, <1>6, <1>8, SMTT(40) DEF IsPage

-----------------------------------------------------------------------------
\* Pages are queries

\* The collection as the query at hand sees it: body[n] is what the document with
\* the number n holds, and it matches when the filter means it to.
Seen(body) ==
    /\ Len(query.docs) = Len(docs)
    /\ \A i \in DOMAIN docs :
         query.docs[i] = body[docs[i].n] /\ Meant(query.filter, query.docs[i]) = docs[i].match

\* What the bindings find for a page is the page a query without a sort is to
\* return: the two views of runUnsorted, of Paging and of QueryExec, agree.
THEOREM FindIsPage ==
    ASSUME Asked, ~Sorted, Bounded, DocInv, NEW body, Seen(body)
    PROVE  LET wanted == PageOf(Ordered(Found(Len(query.docs))))
               found == Find(query.skip, query.limit)
           IN  [i \in DOMAIN wanted |-> wanted[i].doc] = [i \in DOMAIN found |-> body[found[i]]]
<1> PICK skip \in Nat : skip = query.skip
  BY AskedFacts, IntAssumption
<1> PICK limit \in Nat \ {0} : limit = query.limit
  BY AskedFacts, IntAssumption DEF Bounded
<1> PICK m \in Nat : m = Len(Matching) /\ DOMAIN Matching = 1..m
  BY MatchingFacts, Zenon
<1>1. PICK found : found = Find(skip, limit) /\ IsPage(found, skip, limit)
  BY FindFacts
<1>2. PICK f \in Nat : f = Len(found) /\ DOMAIN found = 1..f /\ (f # 0 => skip + f <= m)
  BY <1>1 DEF IsPage
<1>3. Hits(Len(query.docs)) = Matches
  <2>1. DOMAIN docs = 1..Len(query.docs)
    BY DEF DocInv, Seen
  <2> QED
    BY <2>1 DEF Hits, Matches, Seen
<1>4. PICK s : s = Found(Len(query.docs))
  OBVIOUS
<1>5. DOMAIN s = 1..m /\ \A k \in 1..m : s[k].doc = body[Matching[k].n]
  <2>1. Matching = [k \in 1..Cardinality(Matches) |-> docs[Nth(Matches, k)]]
    BY Zenon DEF Matching
  <2>2. 1..Cardinality(Matches) = 1..m
    BY <2>1
  <2>3. s = [k \in 1..m |-> Match(Len(query.docs), k)]
    BY <1>3, <1>4, <2>2, Zenon DEF Found, Match
  <2>4. ASSUME NEW k \in 1..m PROVE s[k].doc = body[Matching[k].n]
    <3>1. s[k].doc = query.docs[Nth(Matches, k)]
      BY <1>3, <2>3 DEF Match
    <3>2. Matching[k] = docs[Nth(Matches, k)]
      BY <2>1, <2>2
    <3>3. Nth(Matches, k) \in DOMAIN docs
      <4>1. IsFiniteSet(Matches) /\ Matches \subseteq Nat
        <5>1. PICK l \in Nat : DOMAIN docs = 1..l
          BY DEF DocInv
        <5>2. IsFiniteSet(1..l)
          BY FS_Interval
        <5> QED
          BY <5>1, <5>2, FS_Subset DEF Matches
      <4>2. Nth(Matches, k) \in Matches
        BY <2>2, <4>1, NthFacts
      <4> QED
        BY <4>2 DEF Matches
    <3> QED
      BY <3>1, <3>2, <3>3 DEF Seen
  <2> QED
    BY <2>3, <2>4
<1>6. Ordered(s) = s
  BY Zenon DEF Ordered
<1>7. PageOf(s) = [i \in 1..f |-> s[skip + i]]
  <2>1. f = Fitting(skip, limit)
    <3>1. Find(skip, limit) = [i \in 1..Fitting(skip, limit) |-> Matching[skip + i].n]
      BY Zenon DEF Find
    <3>2. DOMAIN found = 1..Fitting(skip, limit)
      BY <1>1, <3>1
    <3>3. Fitting(skip, limit) \in Nat
      <4>1. IsFiniteSet(1..m)
        BY FS_Interval
      <4>2. IsFiniteSet({k \in DOMAIN Matching : skip < k /\ k <= skip + limit})
        BY <4>1, FS_Subset
      <4> QED
        BY <4>2, FS_CardinalityType DEF Fitting
    <3> QED
      BY <1>2, <3>2, <3>3
  <2>2. {k \in DOMAIN s : query.skip < k /\ (Bounded => k <= query.skip + query.limit)}
        = {k \in DOMAIN Matching : skip < k /\ k <= skip + limit}
    BY <1>5
  <2> QED
    BY <2>1, <2>2, Zenon DEF PageOf, Fitting
<1>8. \A i \in 1..f : s[skip + i].doc = body[found[i]]
  <2> TAKE i \in 1..f
  <2>1. skip + i \in 1..m
    BY <1>2
  <2>2. found[i] = Matching[skip + i].n
    BY <1>1, <1>2 DEF IsPage
  <2> QED
    BY <1>5, <2>1, <2>2
<1>9. PICK wanted : wanted = PageOf(Ordered(Found(Len(query.docs))))
  OBVIOUS
<1>10. wanted = [i \in 1..f |-> s[skip + i]]
  BY <1>4, <1>6, <1>7, <1>9
<1>11. [i \in DOMAIN wanted |-> wanted[i].doc] = [i \in DOMAIN found |-> body[found[i]]]
  BY <1>2, <1>8, <1>10
<1> QED
  BY <1>1, <1>9, <1>11, Zenon

-----------------------------------------------------------------------------
\* The client's own steps

LEMMA SpanFacts ==
    ASSUME NEW i, NEW j, NEW x
    PROVE  x \in Span(i, j) <=> \E k \in i..j : x = Matching[k].n
BY DEF Span

\* The matches are as they were.
LEMMA SpanSame ==
    ASSUME docs' = docs
    PROVE  Matching' = Matching /\ \A i, j : Span(i, j)' = Span(i, j)
BY DEF Matching, Matches, Span

LEMMA CallKeeps ==
    ASSUME IInv, NEW b \in Batch, NEW skip \in Skip, Call(b, skip)
    PROVE  IInv'
<1>1. /\ batch = 0 /\ batch' = b /\ offset' = skip /\ full' = TRUE
      /\ steady' = {Matching[i].n : i \in (skip + 1)..Len(Matching)}
      /\ docs' = docs /\ born' = born /\ page' = page /\ yielded' = yielded /\ twice' = twice
      /\ done' = done /\ moved' = moved
  BY DEF Call
<1>2. DocInv /\ page = <<>> /\ yielded = {} /\ twice = {} /\ ~done /\ ~moved /\ moved \in BOOLEAN
      /\ done \in BOOLEAN
  BY <1>1 DEF IInv, ClientInv
<1>3. b \in Nat /\ b # 0 /\ skip \in Nat
  BY BatchAssumption, SkipAssumption
<1>4. DocInv'
  BY <1>1, <1>2 DEF DocInv
<1>5. page' = <<>> /\ Len(page') = 0 /\ page' \in Seq(1..MaxDocs)
  BY <1>1, <1>2
<1>6. ClientInv'
  BY <1>1, <1>2, <1>3, <1>5 DEF ClientInv
<1>7. Matching' = Matching /\ \A i, j : Span(i, j)' = Span(i, j)
  BY <1>1, SpanSame
<1>8. At' = skip
  BY <1>1, <1>3, <1>5 DEF At
<1>9. Walk(skip)'
  <2>1. yielded' = Span(skip + 1, At)'
    <3>1. (skip + 1)..skip = {}
      BY <1>3
    <3>2. Span(skip + 1, skip) = {}
      BY <3>1 DEF Span
    <3>3. Span(skip + 1, At)' = Span(skip + 1, skip)
      BY <1>7, <1>8 DEF Span
    <3> QED
      BY <1>1, <1>2, <3>2, <3>3
  <2>2. steady' \subseteq Span(skip + 1, IF full THEN Len(Matching) ELSE offset)'
    <3>1. Span(skip + 1, IF full THEN Len(Matching) ELSE offset)' = Span(skip + 1, Len(Matching))
      BY <1>1, <1>7 DEF Span
    <3> QED
      BY <1>1, <3>1 DEF Span
  <2>3. skip <= At' /\ skip = offset'
    BY <1>1, <1>3, <1>8
  <2>4. \A i \in 1..Len(page') : page'[i] = Matching'[At' + i].n
    BY <1>5
  <2>5. twice' = {}
    BY <1>1, <1>2
  <2> QED
    BY <2>1, <2>2, <2>3, <2>4, <2>5 DEF Walk
<1>10. \E s \in (0..offset)' : Walk(s)'
  <2>1. skip \in 0..offset'
    BY <1>1, <1>3
  <2> QED
    BY <1>9, <2>1
<1> QED
  BY <1>4, <1>6, <1>10 DEF IInv

\* A page goes on where the last one ended.
LEMMA NextPageKeeps ==
    ASSUME IInv, NextPage
    PROVE  IInv'
<1>1. PICK found : /\ found = Find(offset, batch)
                   /\ batch # 0 /\ ~done /\ page = <<>> /\ full
                   /\ page' = found /\ full' = (Len(found) = batch)
                   /\ offset' = offset + Len(found) /\ done' = (found = <<>>)
                   /\ docs' = docs /\ born' = born /\ batch' = batch /\ yielded' = yielded
                   /\ twice' = twice /\ moved' = moved /\ steady' = steady
  BY DEF NextPage, NextOffset
<1>2. DocInv /\ ClientInv /\ offset \in Nat /\ batch \in Nat /\ moved \in BOOLEAN
  BY DEF IInv, ClientInv
<1>3. /\ found \in Seq(1..MaxDocs) /\ Len(found) <= batch
      /\ Len(found) # 0 => offset + Len(found) <= Len(Matching)
      /\ Len(found) # batch => Len(Matching) <= offset + Len(found)
      /\ \A i \in 1..Len(found) : found[i] = Matching[offset + i].n
  <2>1. offset \in Nat /\ batch \in Nat \ {0} /\ found = Find(offset, batch)
    BY <1>1, <1>2
  <2>2. IsPage(found, offset, batch)
    BY <1>2, <2>1, FindFacts
  <2> QED
    BY <2>2 DEF IsPage
<1>4. PICK f \in Nat, m \in Nat : f = Len(found) /\ m = Len(Matching)
  <2>1. Len(found) \in Nat
    BY <1>3
  <2>2. Len(Matching) \in Nat
    BY <1>2, MatchingFacts
  <2> QED
    BY <2>1, <2>2, Zenon
<1>5. DocInv'
  BY <1>1, <1>2 DEF DocInv
<1>6. ClientInv'
  BY <1>1, <1>2, <1>3, <1>4 DEF ClientInv
<1>7. Matching' = Matching /\ \A i, j : Span(i, j)' = Span(i, j)
  BY <1>1, SpanSame
<1>8. At = offset /\ At' = offset
  BY <1>1, <1>2, <1>4 DEF At
<1>9. ASSUME NEW s \in 0..offset, Walk(s)
      PROVE  Walk(s)'
  <2>1. offset <= m \/ s = offset
    BY <1>4, <1>9 DEF Walk
  <2>2. offset' <= m \/ s = offset'
    BY <1>1, <1>2, <1>3, <1>4, <2>1
  <2>3. \A i \in 1..Len(page') : page'[i] = Matching'[At' + i].n
    BY <1>1, <1>3, <1>7, <1>8
  <2>4. yielded' = Span(s + 1, At)'
    <3>1. yielded = Span(s + 1, offset)
      BY <1>8, <1>9 DEF Walk
    <3>2. Span(s + 1, At)' = Span(s + 1, offset)
      BY <1>7, <1>8 DEF Span
    <3> QED
      BY <1>1, <3>1, <3>2
  <2>5. steady' \subseteq Span(s + 1, IF full THEN Len(Matching) ELSE offset)'
    <3>1. steady \subseteq Span(s + 1, m)
      BY <1>1, <1>4, <1>9 DEF Walk
    <3>2. CASE f = batch
      <4>1. Span(s + 1, IF full THEN Len(Matching) ELSE offset)' = Span(s + 1, m)
        BY <1>1, <1>4, <1>7, <3>2 DEF Span
      <4> QED
        BY <1>1, <3>1, <4>1
    <3>3. CASE f # batch
      <4>1. PICK o \in Nat : o = offset' /\ m <= o
        BY <1>1, <1>2, <1>3, <1>4, <3>3
      <4>2. Span(s + 1, IF full THEN Len(Matching) ELSE offset)' = Span(s + 1, o)
        BY <1>1, <1>4, <1>7, <3>3, <4>1 DEF Span
      <4>3. (s + 1)..m \subseteq (s + 1)..o
        BY <4>1
      <4>4. Span(s + 1, m) \subseteq Span(s + 1, o)
        BY <4>3 DEF Span
      <4> QED
        BY <1>1, <3>1, <4>2, <4>4
    <3> QED
      BY <3>2, <3>3
  <2>6. s <= At' /\ twice' = {}
    BY <1>1, <1>8, <1>9 DEF Walk
  <2> QED
    BY <1>4, <1>7, <2>2, <2>3, <2>4, <2>5, <2>6 DEF Walk
<1>10. batch' # 0 /\ ~moved' => \E s \in 0..offset : Walk(s)
  BY <1>1 DEF IInv
<1>11. 0..offset \subseteq 0..offset'
  BY <1>1, <1>2, <1>4
<1>12. batch' # 0 /\ ~moved' => \E s \in (0..offset)' : Walk(s)'
  BY <1>9, <1>10, <1>11
<1> QED
  BY <1>5, <1>6, <1>12 DEF IInv

\* The next document is behind all those handed out, so it is a new one.
LEMMA YieldKeeps ==
    ASSUME IInv, Yield
    PROVE  IInv'
<1>1. /\ page # <<>> /\ page' = Tail(page) /\ yielded' = yielded \cup {Head(page)}
      /\ twice' = IF Head(page) \in yielded THEN twice \cup {Head(page)} ELSE twice
      /\ docs' = docs /\ born' = born /\ batch' = batch /\ offset' = offset /\ full' = full
      /\ done' = done /\ moved' = moved /\ steady' = steady
  BY DEF Yield
<1>2. DocInv /\ ClientInv /\ offset \in Nat /\ page \in Seq(1..MaxDocs) /\ Len(page) <= offset
  BY DEF IInv, ClientInv
<1>3. batch # 0 /\ ~done
  BY <1>1, <1>2 DEF ClientInv
<1>4. PICK p \in Nat : p = Len(page) /\ 0 < p /\ p <= offset
  BY <1>1, <1>2
<1>5. /\ page' \in Seq(1..MaxDocs) /\ Len(page') = p - 1 /\ Head(page) = page[1]
      /\ \A i \in 1..(p - 1) : page'[i] = page[i + 1]
  BY <1>1, <1>2, <1>4
<1>6. DocInv'
  BY <1>1, <1>2 DEF DocInv
<1>7. ClientInv'
  BY <1>1, <1>2, <1>3, <1>4, <1>5 DEF ClientInv
<1>8. Matching' = Matching /\ \A i, j : Span(i, j)' = Span(i, j)
  BY <1>1, SpanSame
<1>9. PICK a \in Nat : At = a /\ At' = a + 1 /\ a + p = offset
  <2>1. At = offset - p /\ At' = offset - (p - 1)
    BY <1>1, <1>4, <1>5, Zenon DEF At
  <2>2. offset - p \in Nat /\ offset - (p - 1) = (offset - p) + 1 /\ (offset - p) + p = offset
    BY <1>2, <1>4
  <2> QED
    BY <2>1, <2>2
<1>10. ASSUME NEW s \in 0..offset, Walk(s)
       PROVE  Walk(s)'
  <2>1. PICK m \in Nat : m = Len(Matching) /\ \A j, k \in 1..m : Matching[j].n = Matching[k].n => j = k
    BY <1>2, MatchingFacts
  <2>2. /\ s <= a /\ (offset <= m \/ s = offset)
        /\ \A i \in 1..p : page[i] = Matching[a + i].n
        /\ yielded = Span(s + 1, a) /\ twice = {}
        /\ steady \subseteq Span(s + 1, IF full THEN Len(Matching) ELSE offset)
    BY <1>4, <1>9, <1>10, <2>1 DEF Walk
  <2>3. offset <= m /\ a + 1 \in 1..m
    BY <1>4, <1>9, <2>2
  <2>4. Head(page) = Matching[a + 1].n
    BY <1>4, <1>5, <2>2
  <2>5. Head(page) \notin yielded
    <3>1. ASSUME NEW k \in (s + 1)..a, Head(page) = Matching[k].n
          PROVE  FALSE
      <4>1. k \in 1..m /\ k # a + 1
        BY <2>2, <2>3, <3>1
      <4> QED
        BY <2>1, <2>3, <2>4, <3>1, <4>1
    <3> QED
      BY <2>2, <3>1 DEF Span
  <2>6. yielded' = Span(s + 1, a + 1)
    <3>1. (s + 1)..(a + 1) = ((s + 1)..a) \cup {a + 1}
      BY <2>2
    <3>2. Span(s + 1, a + 1) = Span(s + 1, a) \cup {Matching[a + 1].n}
      BY <3>1 DEF Span
    <3> QED
      BY <1>1, <2>2, <2>4, <3>2
  <2>7. Span(s + 1, At)' = Span(s + 1, a + 1)
    BY <1>8, <1>9 DEF Span
  <2>8. Span(s + 1, IF full THEN Len(Matching) ELSE offset)'
          = Span(s + 1, IF full THEN Len(Matching) ELSE offset)
    BY <1>1, <1>8 DEF Span
  <2>9. \A i \in 1..Len(page') : page'[i] = Matching'[At' + i].n
    <3> SUFFICES ASSUME NEW i \in 1..(p - 1)
                 PROVE  page'[i] = Matching[(a + 1) + i].n
      BY <1>5, <1>8, <1>9
    <3>1. i + 1 \in 1..p /\ a + (i + 1) = (a + 1) + i
      BY <1>4
    <3> QED
      BY <1>5, <2>2, <3>1
  <2>10. s <= At' /\ offset' <= Len(Matching')
    BY <1>1, <1>8, <1>9, <2>1, <2>2, <2>3
  <2>11. twice' = {}
    BY <1>1, <2>2, <2>5
  <2> QED
    BY <1>1, <2>2, <2>6, <2>7, <2>8, <2>9, <2>10, <2>11 DEF Walk
<1>11. batch' # 0 /\ ~moved' => \E s \in (0..offset)' : Walk(s)'
  BY <1>1, <1>10 DEF IInv
<1> QED
  BY <1>6, <1>7, <1>11 DEF IInv

\* The client's and the collection's variables stay as they are, but for done.
LEMMA RestKeeps ==
    ASSUME IInv, UNCHANGED <<docs, born, batch, offset, page, full, yielded, twice, moved, steady>>,
           done' \in BOOLEAN, done' => page = <<>> /\ ~full /\ batch # 0
    PROVE  IInv'
<1>1. DocInv'
  BY DEF IInv, DocInv
<1>2. ClientInv'
  BY DEF IInv, ClientInv
<1>3. Matching' = Matching /\ At' = At /\ \A i, j : Span(i, j)' = Span(i, j)
  BY SpanSame DEF At
<1>4. ASSUME NEW s, Walk(s)
      PROVE  Walk(s)'
  <2>1. Span(s + 1, At)' = Span(s + 1, At)
    BY <1>3 DEF Span
  <2>2. Span(s + 1, IF full THEN Len(Matching) ELSE offset)'
          = Span(s + 1, IF full THEN Len(Matching) ELSE offset)
    BY <1>3 DEF Span
  <2> QED
    BY <1>3, <1>4, <2>1, <2>2 DEF Walk
<1> QED
  BY <1>1, <1>2, <1>4 DEF IInv

-----------------------------------------------------------------------------
\* The others' steps

\* A write that takes nothing away from the matches but adds behind them.
LEMMA OthersKeep ==
    ASSUME IInv, DocInv', Others, steady' \subseteq steady
    PROVE  IInv'
<1>1. /\ moved' = (moved \/ (batch # 0 /\ ~IsPrefix(Matching, Matching')))
      /\ batch' = batch /\ offset' = offset /\ page' = page /\ full' = full
      /\ yielded' = yielded /\ twice' = twice /\ done' = done
  BY DEF Others
<1>2. DocInv /\ ClientInv /\ offset \in Nat /\ page \in Seq(1..MaxDocs) /\ Len(page) <= offset
  BY DEF IInv, ClientInv
<1>3. ClientInv'
  BY <1>1, <1>2 DEF ClientInv
<1>4. PICK p \in Nat, a \in Nat : p = Len(page) /\ At = a /\ At' = a /\ a + p = offset
  BY <1>1, <1>2 DEF At
<1>5. ASSUME ~moved', batch # 0
      PROVE  \E s \in 0..offset : Walk(s)'
  <2>1. ~moved /\ IsPrefix(Matching, Matching')
    BY <1>1, <1>5
  <2>2. PICK s \in 0..offset : Walk(s)
    BY <1>5, <2>1 DEF IInv
  <2>3. PICK m \in Nat, n \in Nat :
           /\ m = Len(Matching) /\ DOMAIN Matching = 1..m
           /\ n = Len(Matching') /\ DOMAIN Matching' = 1..n
           /\ m <= n
    <3>1. PICK m \in Nat : m = Len(Matching) /\ DOMAIN Matching = 1..m
      BY <1>2, MatchingFacts, Zenon
    <3>2. PICK n \in Nat : n = Len(Matching') /\ DOMAIN Matching' = 1..n
      BY MatchingNext, Zenon DEF MatchingSound
    <3>3. Len(Matching) <= Len(Matching')
      BY <2>1, Zenon DEF IsPrefix
    <3>4. m <= n
      BY <3>1, <3>2, <3>3, Zenon
    <3> QED
      BY <3>1, <3>2, <3>4, Zenon
  <2>4. \A k \in 1..m : Matching'[k] = Matching[k]
    BY <2>1, <2>3 DEF IsPrefix
  <2>5. /\ s <= a /\ (offset <= m \/ s = offset)
        /\ \A i \in 1..p : page[i] = Matching[a + i].n
        /\ yielded = Span(s + 1, a) /\ twice = {}
        /\ steady \subseteq Span(s + 1, IF full THEN m ELSE offset)
    BY <1>4, <2>2, <2>3 DEF Walk
  <2>6. ASSUME NEW j \in Nat, j <= m
        PROVE  Span(s + 1, j)' = Span(s + 1, j)
    <3>1. \A k \in (s + 1)..j : Matching'[k].n = Matching[k].n
      BY <2>4, <2>6
    <3> QED
      BY <3>1 DEF Span
  <2>7. offset <= m \/ (s = offset /\ s = a /\ p = 0)
    BY <1>4, <2>5
  <2>8. yielded' = Span(s + 1, At)'
    <3>1. Span(s + 1, At)' = Span(s + 1, a)'
      BY <1>4 DEF Span
    <3>2. Span(s + 1, a)' = Span(s + 1, a)
      <4>1. CASE offset <= m
        BY <1>4, <2>6, <4>1
      <4>2. CASE s = a
        <5>1. (s + 1)..a = {}
          BY <4>2
        <5> QED
          BY <5>1 DEF Span
      <4> QED
        BY <2>7, <4>1, <4>2
    <3> QED
      BY <1>1, <2>5, <3>1, <3>2
  <2>9. steady' \subseteq Span(s + 1, IF full THEN Len(Matching) ELSE offset)'
    <3>1. CASE full
      <4>1. (s + 1)..m \subseteq (s + 1)..n
        BY <2>3
      <4>2. Span(s + 1, m)' \subseteq Span(s + 1, n)'
        BY <4>1 DEF Span
      <4>3. Span(s + 1, IF full THEN Len(Matching) ELSE offset)' = Span(s + 1, n)'
        BY <1>1, <2>3, <3>1 DEF Span
      <4>4. Span(s + 1, m)' = Span(s + 1, m)
        BY <2>3, <2>6
      <4> QED
        BY <2>5, <3>1, <4>2, <4>3, <4>4
    <3>2. CASE ~full
      <4>1. Span(s + 1, IF full THEN Len(Matching) ELSE offset)' = Span(s + 1, offset)'
        BY <1>1, <3>2 DEF Span
      <4>2. Span(s + 1, offset)' = Span(s + 1, offset)
        <5>1. CASE offset <= m
          <6>1. \A k \in (s + 1)..offset : Matching'[k].n = Matching[k].n
            <7> TAKE k \in (s + 1)..offset
            <7>1. k \in 1..m
              BY <1>2, <5>1
            <7> QED
              BY <2>4, <7>1
          <6> QED
            BY <1>1, <6>1 DEF Span
        <5>2. CASE s = offset
          <6>1. (s + 1)..offset = {} /\ (s + 1)..offset' = {}
            BY <1>1, <1>2, <5>2
          <6> QED
            BY <6>1 DEF Span
        <5> QED
          BY <2>7, <5>1, <5>2
      <4> QED
        BY <2>5, <3>2, <4>1, <4>2
    <3> QED
      BY <1>2, <3>1, <3>2 DEF ClientInv
  <2>10. \A i \in 1..Len(page') : page'[i] = Matching'[At' + i].n
    <3> SUFFICES ASSUME NEW i \in 1..p
                 PROVE  page[i] = Matching'[a + i].n
      BY <1>1, <1>4
    <3>1. a + i \in 1..m
      BY <1>4, <2>7
    <3> QED
      BY <2>4, <2>5, <3>1
  <2>11. s <= At' /\ (offset' <= Len(Matching') \/ s = offset')
    BY <1>1, <1>4, <2>3, <2>5
  <2> QED
    BY <1>1, <2>5, <2>8, <2>9, <2>10, <2>11 DEF Walk
<1> QED
  BY <1>1, <1>3, <1>5 DEF IInv

\* A document more, with a number of its own.
LEMMA InsertKeeps ==
    ASSUME IInv, Insert
    PROVE  IInv'
<1>1. PICK m \in BOOLEAN : docs' = Append(docs, [n |-> born', match |-> m])
  BY DEF Insert
<1>2. born < MaxDocs /\ born' = born + 1 /\ steady' = steady /\ Others
  BY DEF Insert
<1>3. /\ docs \in Seq(Doc) /\ born \in 0..MaxDocs
      /\ \A i \in DOMAIN docs : docs[i].n <= born
      /\ \A i, j \in DOMAIN docs : docs[i].n = docs[j].n => i = j
  BY DEF IInv, DocInv
<1>4. PICK l \in Nat : l = Len(docs) /\ DOMAIN docs = 1..l
  BY <1>3
<1>5. PICK d \in Doc : d = [n |-> born', match |-> m] /\ d.n = born + 1
  <2>1. born' \in 1..MaxDocs
    BY <1>2, <1>3, BoundAssumption
  <2> QED
    <3>1. [n |-> born', match |-> m] \in Doc
      BY <2>1 DEF Doc
    <3> QED
      BY <1>2, <3>1
<1>6. /\ docs' \in Seq(Doc) /\ DOMAIN docs' = 1..(l + 1) /\ docs'[l + 1] = d
      /\ \A i \in 1..l : docs'[i] = docs[i]
  BY <1>1, <1>3, <1>4, <1>5
<1>7. \A i \in 1..l : docs[i].n \in Nat
  <2> TAKE i \in 1..l
  <2>1. docs[i] \in Doc
    BY <1>3, <1>4
  <2>2. \A d2 \in Doc : d2.n \in Nat
    BY DEF Doc
  <2> QED
    BY <2>1, <2>2
<1>8. born' \in 0..MaxDocs
  BY <1>2, <1>3, BoundAssumption
<1>9. \A i \in DOMAIN docs' : docs'[i].n <= born'
  <2> TAKE i \in DOMAIN docs'
  <2>1. CASE i = l + 1
    BY <1>2, <1>3, <1>5, <1>6, <2>1
  <2>2. CASE i \in 1..l
    BY <1>2, <1>3, <1>4, <1>6, <1>7, <2>2
  <2> QED
    BY <1>6, <2>1, <2>2
<1>10. \A i, j \in DOMAIN docs' : docs'[i].n = docs'[j].n => i = j
  <2>1. \A i \in 1..l : docs'[i].n # docs'[l + 1].n
    BY <1>3, <1>4, <1>5, <1>6, <1>7
  <2>2. \A i, j \in 1..l : docs'[i].n = docs'[j].n => i = j
    BY <1>3, <1>4, <1>6
  <2>3. \A i \in DOMAIN docs' : i \in 1..l \/ i = l + 1
    BY <1>6
  <2> QED
    BY <2>1, <2>2, <2>3
<1>11. DocInv'
  BY <1>6, <1>8, <1>9, <1>10 DEF DocInv
<1> QED
  BY <1>2, <1>11, OthersKeep

\* A document keeps its place and its number.
LEMMA ReplaceKeeps ==
    ASSUME IInv, Replace
    PROVE  IInv'
<1>1. PICK i \in DOMAIN docs, m \in BOOLEAN :
         /\ docs' = [docs EXCEPT ![i].match = m]
         /\ steady' = IF m THEN steady ELSE steady \ {docs[i].n}
  BY DEF Replace
<1>2. born' = born /\ Others
  BY DEF Replace
<1>3. /\ docs \in Seq(Doc) /\ born \in 0..MaxDocs
      /\ \A k \in DOMAIN docs : docs[k].n <= born
      /\ \A k, j \in DOMAIN docs : docs[k].n = docs[j].n => k = j
  BY DEF IInv, DocInv
<1>4. DOMAIN docs' = DOMAIN docs /\ \A k \in DOMAIN docs : docs'[k] \in Doc /\ docs'[k].n = docs[k].n
  <2>1. DOMAIN docs' = DOMAIN docs
    BY <1>1
  <2>2. ASSUME NEW k \in DOMAIN docs
        PROVE  docs'[k] \in Doc /\ docs'[k].n = docs[k].n
    <3>1. docs[k] \in Doc
      BY <1>3
    <3>2. docs'[k] = IF k = i THEN [docs[k] EXCEPT !.match = m] ELSE docs[k]
      BY <1>1
    <3> QED
      BY <3>1, <3>2 DEF Doc
  <2> QED
    BY <2>1, <2>2
<1>5. docs' \in Seq(Doc)
  <2>1. PICK l \in Nat : DOMAIN docs = 1..l
    BY <1>3
  <2>2. docs' \in [1..l -> Doc]
    BY <1>1, <1>4, <2>1
  <2> QED
    BY <2>2, SeqDef
<1>6. DocInv'
  BY <1>2, <1>3, <1>4, <1>5 DEF DocInv
<1>7. steady' \subseteq steady
  BY <1>1
<1> QED
  BY <1>2, <1>6, <1>7, OthersKeep

\* A document less.
LEMMA DeleteKeeps ==
    ASSUME IInv, Delete
    PROVE  IInv'
<1>1. PICK x \in DOMAIN docs : docs' = RemoveAt(docs, x) /\ steady' = steady \ {docs[x].n}
  BY DEF Delete
<1>2. born' = born /\ Others
  BY DEF Delete
<1>3. /\ docs \in Seq(Doc) /\ born \in 0..MaxDocs
      /\ \A k \in DOMAIN docs : docs[k].n <= born
      /\ \A k, j \in DOMAIN docs : docs[k].n = docs[j].n => k = j
  BY DEF IInv, DocInv
<1>4. PICK l \in Nat : l = Len(docs) /\ DOMAIN docs = 1..l /\ x \in 1..l
  BY <1>1, <1>3
<1>5. PICK u \in Seq(Doc), v \in Seq(Doc) :
         /\ docs' = u \o v /\ Len(u) = x - 1 /\ Len(v) = l - x
         /\ \A k \in 1..(x - 1) : u[k] = docs[k]
         /\ \A k \in 1..(l - x) : v[k] = docs[x + k]
  <2>1. /\ SubSeq(docs, 1, x - 1) \in Seq(Doc) /\ Len(SubSeq(docs, 1, x - 1)) = x - 1
        /\ \A k \in 1..(x - 1) : SubSeq(docs, 1, x - 1)[k] = docs[k]
    BY <1>3, <1>4
  <2>2. /\ SubSeq(docs, x + 1, l) \in Seq(Doc) /\ Len(SubSeq(docs, x + 1, l)) = l - x
        /\ \A k \in 1..(l - x) : SubSeq(docs, x + 1, l)[k] = docs[x + k]
    BY <1>3, <1>4, SMTT(40)
  <2> QED
    BY <1>1, <1>4, <2>1, <2>2 DEF RemoveAt
<1>6. /\ docs' \in Seq(Doc) /\ DOMAIN docs' = 1..(l - 1)
      /\ \A k \in 1..(l - 1) : docs'[k] = IF k < x THEN docs[k] ELSE docs[k + 1]
  <2>1. docs' \in Seq(Doc) /\ Len(docs') = l - 1
    BY <1>4, <1>5
  <2>2. ASSUME NEW k \in 1..(l - 1)
        PROVE  docs'[k] = IF k < x THEN docs[k] ELSE docs[k + 1]
    <3>1. CASE k < x
      BY <1>4, <1>5, <3>1
    <3>2. CASE ~(k < x)
      <4>1. k - (x - 1) \in 1..(l - x) /\ x + (k - (x - 1)) = k + 1
        BY <1>4, <3>2
      <4>2. docs'[k] = v[k - (x - 1)]
        BY <1>4, <1>5, <3>2, <4>1, SMTT(40)
      <4> QED
        BY <1>5, <3>2, <4>1, <4>2
    <3> QED
      BY <3>1, <3>2
  <2> QED
    BY <1>4, <2>1, <2>2
<1>7. ASSUME NEW k \in DOMAIN docs'
      PROVE  \E j \in DOMAIN docs : docs'[k] = docs[j] /\ j = IF k < x THEN k ELSE k + 1
  BY <1>4, <1>6
<1>8. \A k, j \in DOMAIN docs' : docs'[k].n = docs'[j].n => k = j
  <2> TAKE k, j \in DOMAIN docs'
  <2> HAVE docs'[k].n = docs'[j].n
  <2>1. PICK k2 \in DOMAIN docs : docs'[k] = docs[k2] /\ k2 = IF k < x THEN k ELSE k + 1
    BY <1>7
  <2>2. PICK j2 \in DOMAIN docs : docs'[j] = docs[j2] /\ j2 = IF j < x THEN j ELSE j + 1
    BY <1>7
  <2>3. k2 = j2
    BY <1>3, <2>1, <2>2
  <2> QED
    BY <1>4, <1>6, <2>1, <2>2, <2>3
<1>9. \A k \in DOMAIN docs' : docs'[k].n <= born
  BY <1>3, <1>7
<1>10. DocInv'
  BY <1>2, <1>3, <1>6, <1>8, <1>9 DEF DocInv
<1> QED
  BY <1>1, <1>2, <1>10, OthersKeep

-----------------------------------------------------------------------------
\* The theorem

LEMMA StartsWell ==
    ASSUME IterInit
    PROVE  IInv
<1>1. DocInv
  <2>1. docs \in Seq(Doc) /\ DOMAIN docs = {}
    BY DEF IterInit
  <2> QED
    BY <2>1, BoundAssumption DEF IterInit, DocInv
<1>2. ClientInv
  <2>1. page \in Seq(1..MaxDocs) /\ Len(page) = 0
    BY DEF IterInit
  <2> QED
    <3>1. /\ batch = 0 /\ offset = 0 /\ page = <<>> /\ full = FALSE /\ yielded = {}
          /\ twice = {} /\ done = FALSE /\ moved = FALSE
      BY DEF IterInit
    <3>2. batch \in Nat /\ offset \in Nat /\ Len(page) <= offset
      BY <2>1, <3>1
    <3> QED
      BY <2>1, <3>1, <3>2, Zenon DEF ClientInv
<1> QED
  BY <1>1, <1>2 DEF IterInit, IInv

LEMMA StepKeeps ==
    ASSUME IInv, [IterNext]_iterVars
    PROVE  IInv'
<1>1. ASSUME NEW b \in Batch, NEW skip \in Skip, Call(b, skip)
      PROVE  IInv'
  BY <1>1, CallKeeps
<1>2. CASE Exhausted
  <2>1. /\ UNCHANGED <<docs, born, batch, offset, page, full, yielded, twice, moved, steady>>
        /\ done' = TRUE /\ page = <<>> /\ ~full /\ batch # 0
    BY <1>2 DEF Exhausted
  <2> QED
    BY <2>1, RestKeeps
<1>3. CASE UNCHANGED iterVars
  <2>1. UNCHANGED <<docs, born, batch, offset, page, full, yielded, twice, moved, steady>> /\ done' = done
    BY <1>3 DEF iterVars
  <2>2. done' \in BOOLEAN /\ (done' => page = <<>> /\ ~full /\ batch # 0)
    BY <2>1 DEF IInv, ClientInv
  <2> QED
    BY <2>1, <2>2, RestKeeps
<1>4. CASE Over
  BY <1>3, <1>4 DEF Over
<1>5. CASE NextPage
  BY <1>5, NextPageKeeps
<1>6. CASE Yield
  BY <1>6, YieldKeeps
<1>7. CASE Insert
  BY <1>7, InsertKeeps
<1>8. CASE Replace
  BY <1>8, ReplaceKeeps
<1>9. CASE Delete
  BY <1>9, DeleteKeeps
<1> QED
  BY <1>1, <1>2, <1>3, <1>4, <1>5, <1>6, <1>7, <1>8, <1>9 DEF IterNext

\* A client that has called has been handed the matches between its skip and the
\* page at hand, and that page goes on where they end, for as long as the matches
\* only grow at their end.
THEOREM IInvTheorem == IterSpec => []IInv
<1>1. IterInit => IInv
  BY StartsWell
<1>2. IInv /\ [IterNext]_iterVars => IInv'
  BY StepKeeps
<1> QED
  BY <1>1, <1>2, PTL DEF IterSpec

\* So iter_find and iterFind hand out no document twice, and at the end every one
\* that matched all the time, whatever the page size and the skip.
THEOREM StableTheorem == IterSpec => []StableWhileGrowing
<1>1. IInv => StableWhileGrowing
  <2> SUFFICES ASSUME IInv, ~moved
               PROVE  twice = {} /\ (done => steady \subseteq yielded)
    BY DEF StableWhileGrowing, PagesStable
  <2>1. ClientInv
    BY DEF IInv
  <2>2. CASE batch = 0
    BY <2>1, <2>2 DEF ClientInv
  <2>3. CASE batch # 0
    <3>1. PICK s \in 0..offset : Walk(s)
      BY <2>3 DEF IInv
    <3>2. ASSUME done
          PROVE  steady \subseteq yielded
      <4>1. page = <<>> /\ ~full /\ offset \in Nat
        BY <2>1, <3>2 DEF ClientInv
      <4>2. At = offset
        BY <4>1 DEF At
      <4> QED
        BY <3>1, <4>1, <4>2 DEF Walk
    <3> QED
      BY <3>1, <3>2 DEF Walk
  <2> QED
    BY <2>2, <2>3
<1> QED
  BY <1>1, IInvTheorem, PTL
=============================================================================
