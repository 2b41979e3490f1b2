--------------------------- MODULE DocStoreProofs ---------------------------
(***************************************************************************)
(* The collections: an index that leads to the documents a fold over the   *)
(* file yields, exact _id tables, no _id twice, a replay that never        *)
(* refuses; the promise of AbstractStore; and counters that agree with     *)
(* what nsq stat reads off the file.  All of it for any collections, _ids, *)
(* values and lengths, however many records and whatever crashes, failures *)
(* and replays.                                                            *)
(***************************************************************************)
EXTENDS DocStoreRefinement, FiniteSetTheorems, SequenceTheorems, WellFoundedInduction, TLAPS

-----------------------------------------------------------------------------
\* Numbering the elements of a set of numbers

LEMMA LeastNat ==
    ASSUME NEW S, S \subseteq Nat, NEW x \in S
    PROVE  \E m \in S : \A n \in S : m <= n
<1>1. PICK m \in S : \A n \in S : ~(<<n, m>> \in OpToRel(<, Nat))
  BY NatLessThanWellFounded, WFMin
<1>2. \A n \in S : ~(n < m)
  BY <1>1, Zenon DEF OpToRel
<1>3. \A n \in S : m <= n
  BY <1>2
<1> QED
  BY <1>3

LEMMA RankType ==
    ASSUME NEW S, S \subseteq Nat, IsFiniteSet(S), NEW x \in S
    PROVE  Rank(S, x) \in 1..Cardinality(S)
<1> DEFINE B == {y \in S : y <= x}
<1>1. IsFiniteSet(B) /\ Cardinality(B) \in Nat /\ Cardinality(B) <= Cardinality(S) /\ Cardinality(S) \in Nat
  BY FS_Subset, FS_CardinalityType
<1>2. x \in B
  OBVIOUS
<1>3. Cardinality(B) # 0
  BY <1>1, <1>2, FS_EmptySet
<1> QED
  BY <1>1, <1>3 DEF Rank

LEMMA RankAscends ==
    ASSUME NEW S, S \subseteq Nat, IsFiniteSet(S), NEW x \in S, NEW y \in S, x < y
    PROVE  Rank(S, x) < Rank(S, y)
<1> DEFINE B == {z \in S : z <= x}
           C == {z \in S : z <= y}
<1>1. IsFiniteSet(C) /\ B \subseteq C /\ B # C
  <2>1. y \in C /\ y \notin B
    OBVIOUS
  <2>2. \A z \in S : z <= x => z <= y
    <3>1. x \in Nat /\ y \in Nat /\ \A z \in S : z \in Nat
      OBVIOUS
    <3> QED
      BY <3>1
  <2>3. B \subseteq C
    BY <2>2
  <2> QED
    BY <2>1, <2>3, FS_Subset
<1>2. Cardinality(B) < Cardinality(C)
  <2>1. /\ IsFiniteSet(B) /\ Cardinality(B) <= Cardinality(C)
        /\ Cardinality(B) # Cardinality(C)
    BY <1>1, FS_Subset
  <2>2. Cardinality(B) \in Nat /\ Cardinality(C) \in Nat
    BY <1>1, <2>1, FS_CardinalityType
  <2> QED
    BY <2>1, <2>2
<1> QED
  BY <1>2 DEF Rank

LEMMA RankInjective ==
    ASSUME NEW S, S \subseteq Nat, IsFiniteSet(S), NEW x \in S, NEW y \in S,
           Rank(S, x) = Rank(S, y)
    PROVE  x = y
<1>1. Rank(S, x) \in Nat
  <2>1. Rank(S, x) \in 1..Cardinality(S)
    BY RankType
  <2> QED
    BY <2>1
<1>2. ~(x < y) /\ ~(y < x)
  <2>1. x < y => Rank(S, x) < Rank(S, y)
    BY RankAscends
  <2>2. y < x => Rank(S, y) < Rank(S, x)
    BY RankAscends
  <2> QED
    BY <1>1, <2>1, <2>2
<1>3. x \in Nat /\ y \in Nat
  OBVIOUS
<1> QED
  BY <1>2, <1>3

LEMMA RankOnto ==
    ASSUME NEW S, S \subseteq Nat, IsFiniteSet(S), NEW n \in 1..Cardinality(S)
    PROVE  \E x \in S : Rank(S, x) = n
<1> DEFINE f == [x \in S |-> Rank(S, x)]
           T == 1..Cardinality(S)
<1>1. Cardinality(S) \in Nat
  BY FS_CardinalityType
<1>2. f \in [S -> T]
  BY RankType
<1>3. \A x, y \in S : f[x] = f[y] => x = y
  BY RankInjective
<1>4. IsFiniteSet(T) /\ Cardinality(T) = Cardinality(S)
  BY <1>1, FS_Interval
<1> HIDE DEF f, T
<1>5. f \in Injection(S, T)
  BY <1>2, <1>3 DEF Injection, IsInjective
<1>6. f \in Surjection(S, T)
  BY <1>4, <1>5, FS_Injection
<1>7. PICK x \in S : f[x] = n
  BY <1>6 DEF Surjection, T
<1> QED
  BY <1>7 DEF f

\* Nth and Rank number a finite set in ascending order.
LEMMA NthFacts ==
    ASSUME NEW S, S \subseteq Nat, IsFiniteSet(S)
    PROVE  /\ Cardinality(S) \in Nat
           /\ \A n \in 1..Cardinality(S) : Nth(S, n) \in S /\ Rank(S, Nth(S, n)) = n
           /\ \A x \in S : Rank(S, x) \in 1..Cardinality(S) /\ Nth(S, Rank(S, x)) = x
           /\ \A n, m \in 1..Cardinality(S) : n < m => Nth(S, n) < Nth(S, m)
<1>1. \A n \in 1..Cardinality(S) : Nth(S, n) \in S /\ Rank(S, Nth(S, n)) = n
  <2> SUFFICES ASSUME NEW n \in 1..Cardinality(S)
               PROVE  Nth(S, n) \in S /\ Rank(S, Nth(S, n)) = n
    OBVIOUS
  <2>1. \E x \in S : Rank(S, x) = n
    BY RankOnto
  <2> QED
    BY <2>1, Zenon DEF Nth
<1>2. \A x \in S : Rank(S, x) \in 1..Cardinality(S)
  BY RankType
<1>3. Cardinality(S) \in Nat
  BY FS_CardinalityType
<1>4. \A x, y \in S : Rank(S, x) = Rank(S, y) => x = y
  BY RankInjective
<1>5. \A x \in S : Nth(S, Rank(S, x)) = x
  BY <1>1, <1>2, <1>4
<1>6. ASSUME NEW n \in 1..Cardinality(S), NEW m \in 1..Cardinality(S), n < m
      PROVE  Nth(S, n) < Nth(S, m)
  <2>1. Nth(S, n) \in S /\ Nth(S, m) \in S
    BY <1>1
  <2>2. Nth(S, n) \in Nat /\ Nth(S, m) \in Nat
    BY <2>1
  <2>3. ~(Nth(S, m) < Nth(S, n))
    <3>1. Nth(S, m) < Nth(S, n) => Rank(S, Nth(S, m)) < Rank(S, Nth(S, n))
      BY <2>1, RankAscends
    <3>2. ~(m < n)
      BY <1>3, <1>6
    <3> QED
      BY <1>1, <3>1, <3>2
  <2>4. Nth(S, n) # Nth(S, m)
    <3>1. n # m
      BY <1>3, <1>6
    <3> QED
      BY <1>1, <3>1
  <2> QED
    BY <2>2, <2>3, <2>4
<1> QED
  BY <1>1, <1>2, <1>3, <1>5, <1>6

\* An ascending sequence of all elements of a set lists them in that order.
Lists(s, m, S) ==
    /\ s \in [1..m -> S]
    /\ \A i, j \in 1..m : i < j => s[i] < s[j]
    /\ \A x \in S : \E i \in 1..m : s[i] = x

LEMMA NthOfAscending ==
    ASSUME NEW S, S \subseteq Nat, NEW m \in Nat, NEW s, Lists(s, m, S)
    PROVE  /\ IsFiniteSet(S) /\ Cardinality(S) = m
           /\ \A i \in 1..m : Nth(S, i) = s[i]
<1>0. /\ s \in [1..m -> S]
      /\ \A i, j \in 1..m : i < j => s[i] < s[j]
      /\ \A x \in S : \E i \in 1..m : s[i] = x
  BY DEF Lists
<1> USE <1>0
<1>1. \A i, j \in 1..m : s[i] = s[j] => i = j
  <2> SUFFICES ASSUME NEW i \in 1..m, NEW j \in 1..m, i # j
               PROVE  s[i] # s[j]
    OBVIOUS
  <2>1. i < j \/ j < i
    OBVIOUS
  <2>2. s[i] \in Nat /\ s[j] \in Nat
    OBVIOUS
  <2> QED
    BY <2>1, <2>2
<1>2. IsFiniteSet(1..m) /\ Cardinality(1..m) = m
  BY FS_Interval
<1>3. s \in Surjection(1..m, S) /\ s \in Injection(1..m, S)
  BY <1>1 DEF Surjection, Injection, IsInjective
<1>4. IsFiniteSet(S) /\ Cardinality(S) = m
  BY <1>2, <1>3, FS_Surjection
\* The numbering of S composed with that of the sequence is the identity.
<1> DEFINE r(i) == Rank(S, s[i])
           D == {i \in 1..m : Nth(S, i) # s[i]}
<1>5. ASSUME D # {} PROVE FALSE
  <2>1. PICK i \in D : \A j \in D : i <= j
    <3>1. D \subseteq Nat
      OBVIOUS
    <3> HIDE DEF D
    <3> QED
      BY <1>5, <3>1, LeastNat
  <2>2. i \in 1..m /\ \A j \in 1..m : j < i => Nth(S, j) = s[j]
    BY <2>1
  <2>3. Nth(S, i) \in S /\ s[i] \in S /\ Nth(S, i) \in Nat /\ s[i] \in Nat
    BY <1>4, <2>2, NthFacts
  <2>4. PICK k \in 1..m : s[k] = Nth(S, i)
    BY <2>3
  <2>5. ~(k < i)
    <3>1. k < i => Nth(S, k) = Nth(S, i) /\ Nth(S, k) < Nth(S, i)
      BY <1>4, <2>2, <2>4, NthFacts
    <3> QED
      BY <2>3, <3>1
  <2>6. k # i
    BY <2>1, <2>4
  <2>7. s[i] < Nth(S, i)
    BY <2>2, <2>4, <2>5, <2>6
  <2>8. PICK l \in 1..m : Nth(S, l) = s[i]
    <3>1. Rank(S, s[i]) \in 1..m /\ Nth(S, Rank(S, s[i])) = s[i]
      BY <1>4, <2>3, NthFacts
    <3> QED
      BY <3>1
  <2>9. ~(l < i)
    <3>1. l < i => s[l] = s[i] /\ s[l] < s[i]
      BY <2>2, <2>8
    <3> QED
      BY <2>3, <3>1
  <2>10. l # i /\ i < l
    BY <2>1, <2>2, <2>8, <2>9
  <2>11. Nth(S, i) < Nth(S, l)
    BY <1>4, <2>2, <2>10, NthFacts
  <2> QED
    BY <2>3, <2>7, <2>8, <2>11
<1> QED
  BY <1>4, <1>5

\* The numbers up to l number themselves.
LEMMA NthOfInterval ==
    ASSUME NEW l \in Nat
    PROVE  Cardinality(1..l) = l /\ \A j \in 1..l : Nth(1..l, j) = j
<1>1. IsFiniteSet(1..l) /\ Cardinality(1..l) = l
  BY FS_Interval
<1>2. ASSUME NEW j \in 1..l PROVE Rank(1..l, j) = j
  <2>1. {y \in 1..l : y <= j} = 1..j
    OBVIOUS
  <2>2. Cardinality(1..j) = j
    <3>1. j \in Nat /\ j - 1 + 1 = j
      OBVIOUS
    <3> QED
      BY <3>1, FS_Interval
  <2> QED
    BY <2>1, <2>2 DEF Rank
<1>3. ASSUME NEW j \in 1..l PROVE Nth(1..l, j) = j
  <2>1. 1..l \subseteq Nat
    OBVIOUS
  <2>2. Nth(1..l, Rank(1..l, j)) = j
    BY <1>1, <2>1, NthFacts
  <2> QED
    BY <1>2, <2>2
<1> QED
  BY <1>1, <1>3

\* What is picked, element by element.
LEMMA PickedFacts ==
    ASSUME NEW D, NEW s \in Seq(D), NEW K, K \subseteq DOMAIN s
    PROVE  /\ K \subseteq Nat /\ IsFiniteSet(K)
           /\ Cardinality(K) \in Nat
           /\ Picked(s, K) \in Seq(D) /\ Len(Picked(s, K)) = Cardinality(K)
           /\ DOMAIN Picked(s, K) = 1..Cardinality(K)
           /\ \A n \in 1..Cardinality(K) :
                Nth(K, n) \in K /\ Picked(s, K)[n] = s[Nth(K, n)]
<1>1. PICK L \in Nat : L = Len(s) /\ DOMAIN s = 1..L
  OBVIOUS
<1>2. K \subseteq 1..L /\ K \subseteq Nat /\ IsFiniteSet(K)
  <2>1. K \subseteq 1..L
    BY <1>1
  <2>2. IsFiniteSet(1..L)
    BY FS_Interval
  <2>3. IsFiniteSet(K)
    BY <2>1, <2>2, FS_Subset
  <2> QED
    BY <2>1, <2>3
<1>3. PICK N \in Nat : N = Cardinality(K)
  BY <1>2, FS_CardinalityType
<1>4. \A n \in 1..N : Nth(K, n) \in K
  BY <1>2, <1>3, NthFacts
<1>5. \A n \in 1..N : s[Nth(K, n)] \in D
  <2>1. \A i \in 1..L : s[i] \in D
    BY <1>1
  <2> QED
    BY <1>2, <1>4, <2>1
<1>6. Picked(s, K) = [n \in 1..N |-> s[Nth(K, n)]]
  BY <1>3 DEF Picked
<1>7. Picked(s, K) \in Seq(D) /\ Len(Picked(s, K)) = N /\ DOMAIN Picked(s, K) = 1..N
  BY <1>5, <1>6
<1> QED
  BY <1>2, <1>3, <1>4, <1>6, <1>7

-----------------------------------------------------------------------------
\* Picking twice

LEMMA ConcatFacts ==
    ASSUME NEW S, NEW s \in Seq(S), NEW t \in Seq(S)
    PROVE  /\ s \o t \in Seq(S) /\ Len(s) \in Nat /\ Len(t) \in Nat
           /\ Len(s \o t) = Len(s) + Len(t)
           /\ \A k \in 1..Len(s) : (s \o t)[k] = s[k]
           /\ \A k \in 1..Len(t) : (s \o t)[Len(s) + k] = t[k]
OBVIOUS

LEMMA PickedAll ==
    ASSUME NEW D, NEW s \in Seq(D)
    PROVE  Picked(s, DOMAIN s) = s
<1>1. PICK L \in Nat : L = Len(s) /\ DOMAIN s = 1..L
  OBVIOUS
<1>2. Picked(s, DOMAIN s) = [n \in 1..L |-> s[Nth(1..L, n)]]
  BY <1>1, NthOfInterval DEF Picked
<1>3. \A n \in 1..L : s[Nth(1..L, n)] = s[n]
  BY NthOfInterval
<1>4. s = [n \in 1..L |-> s[n]]
  BY <1>1
<1> QED
  BY <1>2, <1>3, <1>4

LEMMA PickedByList ==
    ASSUME NEW D, NEW s \in Seq(D), NEW K, K \subseteq DOMAIN s,
           NEW m \in Nat, NEW f, Lists(f, m, K)
    PROVE  Cardinality(K) = m /\ Picked(s, K) = [n \in 1..m |-> s[f[n]]]
<1>1. K \subseteq Nat
  BY PickedFacts
<1>2. Cardinality(K) = m /\ \A n \in 1..m : Nth(K, n) = f[n]
  BY <1>1, NthOfAscending
<1> QED
  BY <1>2 DEF Picked

\* T has those elements of K whose numbers are in J.
Numbered(K, J, T) ==
    /\ J \subseteq 1..Cardinality(K)
    /\ \A j \in J : Nth(K, j) \in T
    /\ \A x \in T : \E j \in J : x = Nth(K, j)

LEMMA PickedOfPicked ==
    ASSUME NEW D, NEW s \in Seq(D), NEW K, K \subseteq DOMAIN s,
           NEW J, NEW T, Numbered(K, J, T)
    PROVE  Picked(Picked(s, K), J) = Picked(s, T)
<1> USE DEF Numbered
<1> DEFINE f == [i \in 1..Cardinality(J) |-> Nth(K, Nth(J, i))]
<1>1. /\ K \subseteq Nat /\ IsFiniteSet(K)
      /\ Picked(s, K) \in Seq(D) /\ DOMAIN Picked(s, K) = 1..Cardinality(K)
      /\ \A n \in 1..Cardinality(K) : Nth(K, n) \in K /\ Picked(s, K)[n] = s[Nth(K, n)]
  BY PickedFacts
<1>2. /\ J \subseteq Nat /\ IsFiniteSet(J) /\ Cardinality(J) \in Nat
      /\ \A i \in 1..Cardinality(J) :
            Nth(J, i) \in J /\ Picked(Picked(s, K), J)[i] = Picked(s, K)[Nth(J, i)]
  <2>1. PICK t \in Seq(D) : t = Picked(s, K)
    BY <1>1
  <2>2. J \subseteq DOMAIN t
    BY <1>1, <2>1
  <2> HIDE DEF f
  <2>3. /\ J \subseteq Nat /\ IsFiniteSet(J) /\ Cardinality(J) \in Nat
        /\ \A i \in 1..Cardinality(J) : Nth(J, i) \in J /\ Picked(t, J)[i] = t[Nth(J, i)]
    BY <2>2, PickedFacts
  <2> QED
    BY <2>1, <2>3
<1>3. Lists(f, Cardinality(J), T)
  <2>1. \A i \in 1..Cardinality(J) : f[i] \in T
    BY <1>2
  <2>2. ASSUME NEW i \in 1..Cardinality(J), NEW j \in 1..Cardinality(J), i < j
        PROVE  f[i] < f[j]
    <3>1. Nth(J, i) < Nth(J, j) /\ Nth(J, i) \in 1..Cardinality(K) /\ Nth(J, j) \in 1..Cardinality(K)
      BY <1>2, <2>2, NthFacts
    <3> QED
      BY <1>1, <3>1, NthFacts
  <2>3. ASSUME NEW x \in T
        PROVE  \E i \in 1..Cardinality(J) : f[i] = x
    <3>1. PICK j \in J : x = Nth(K, j)
      OBVIOUS
    <3>2. Rank(J, j) \in 1..Cardinality(J) /\ Nth(J, Rank(J, j)) = j
      BY <1>2, NthFacts
    <3> QED
      BY <3>1, <3>2
  <2>4. f \in [1..Cardinality(J) -> T]
    BY <2>1
  <2> HIDE DEF f
  <2> QED
    BY <2>2, <2>3, <2>4 DEF Lists
<1>4. T \subseteq DOMAIN s
  BY <1>1
<1>5. Picked(s, T) = [i \in 1..Cardinality(J) |-> s[f[i]]]
  <2> HIDE DEF f
  <2> QED
    BY <1>2, <1>3, <1>4, PickedByList
<1>6. \A i \in 1..Cardinality(J) : s[f[i]] = Picked(s, K)[Nth(J, i)]
  BY <1>1, <1>2
<1>7. Picked(Picked(s, K), J) = [i \in 1..Cardinality(J) |-> Picked(s, K)[Nth(J, i)]]
  BY DEF Picked
<1> HIDE DEF f
<1> QED
  BY <1>5, <1>6, <1>7

-----------------------------------------------------------------------------
\* Which documents the records make

LEMMA AliveSame ==
    ASSUME NEW recs, NEW other, NEW n \in Nat, \A j \in 1..n : other[j] = recs[j],
           NEW c, NEW i
    PROVE  Alive(other, c, i, n) <=> Alive(recs, c, i, n)
<1>1. \A k \in 1..n : \A j \in (k + 1)..n : j \in 1..n
  OBVIOUS
<1> QED
  BY <1>1 DEF Alive

\* Records about other documents change nothing.
LEMMA AliveStill ==
    ASSUME NEW recs, NEW n \in Nat, NEW m \in Nat, n <= m, NEW c, NEW i,
           \A j \in (n + 1)..m : ~About(recs[j], c, i)
    PROVE  Alive(recs, c, i, m) <=> Alive(recs, c, i, n)
<1>1. ASSUME Alive(recs, c, i, m)
      PROVE  Alive(recs, c, i, n)
  <2>1. PICK k \in 1..m :
          /\ About(recs[k], c, i) /\ recs[k].op # "delete"
          /\ \A j \in (k + 1)..m : ~(About(recs[j], c, i) /\ recs[j].op = "delete")
    BY <1>1 DEF Alive
  <2>2. k \notin (n + 1)..m
    BY <2>1
  <2>3. k \in 1..n /\ \A j \in (k + 1)..n : j \in (k + 1)..m
    BY <2>2
  <2> QED
    BY <2>1, <2>3 DEF Alive
<1>2. ASSUME Alive(recs, c, i, n)
      PROVE  Alive(recs, c, i, m)
  <2>1. PICK k \in 1..n :
          /\ About(recs[k], c, i) /\ recs[k].op # "delete"
          /\ \A j \in (k + 1)..n : ~(About(recs[j], c, i) /\ recs[j].op = "delete")
    BY <1>2 DEF Alive
  <2>2. k \in 1..m /\ \A j \in (k + 1)..m : j \in (k + 1)..n \/ j \in (n + 1)..m
    OBVIOUS
  <2> QED
    BY <2>1, <2>2 DEF Alive
<1> QED
  BY <1>1, <1>2

\* The last record about a document decides.
LEMMA AliveLast ==
    ASSUME NEW recs, NEW n \in Nat, NEW k \in 1..n, NEW c, NEW i,
           About(recs[k], c, i), \A j \in (k + 1)..n : ~About(recs[j], c, i)
    PROVE  Alive(recs, c, i, n) <=> recs[k].op # "delete"
<1>1. ASSUME recs[k].op = "delete", NEW l \in 1..n, About(recs[l], c, i), recs[l].op # "delete"
      PROVE  \E j \in (l + 1)..n : About(recs[j], c, i) /\ recs[j].op = "delete"
  <2>1. l \notin (k + 1)..n /\ l # k
    BY <1>1
  <2>2. k \in (l + 1)..n
    BY <2>1
  <2> QED
    BY <1>1, <2>2
<1> QED
  BY <1>1 DEF Alive

\* Nothing recorded, nothing there.
LEMMA AliveNone ==
    ASSUME NEW recs, NEW c, NEW i
    PROVE  ~Alive(recs, c, i, 0)
BY DEF Alive

-----------------------------------------------------------------------------
\* The fold over the records

LEMMA Climb ==
    ASSUME NEW m \in Nat, NEW S, 0 \in S, \A k \in 0..(m - 1) : k \in S => k + 1 \in S
    PROVE  \A k \in 0..m : k \in S
<1> DEFINE D == {k \in 0..m : k \notin S}
<1>1. ASSUME NEW x \in D PROVE FALSE
  <2>1. PICK k \in D : \A j \in D : k <= j
    <3>1. D \subseteq Nat
      OBVIOUS
    <3> HIDE DEF D
    <3> QED
      BY <1>1, <3>1, LeastNat
  <2>2. k \in 0..m /\ k \notin S /\ k # 0
    BY <2>1
  <2>3. k - 1 \in 0..(m - 1) /\ k - 1 \in 0..m /\ k - 1 \notin D
    BY <2>1, <2>2
  <2>4. k - 1 \in S
    BY <2>3
  <2>5. (k - 1) + 1 \in S
    BY <2>3, <2>4
  <2> QED
    BY <2>2, <2>5
<1> QED
  BY <1>1

\* The equation of DocsOf, with g for the function it defines.
DocsStep(recs, c, g, k) ==
    IF k = 0 THEN <<>>
    ELSE IF recs[k].coll = c THEN ApplyTo(g[k - 1], recs[k])
    ELSE g[k - 1]

LEMMA DocsSolvable ==
    ASSUME NEW recs \in Seq(Record), NEW c
    PROVE  \E g : g = [k \in 0..Len(recs) |-> DocsStep(recs, c, g, k)]
<1> DEFINE Solves(g, m) == g = [k \in 0..m |-> DocsStep(recs, c, g, k)]
           S == {m \in Nat : \E g : Solves(g, m)}
<1>1. Len(recs) \in Nat
  OBVIOUS
<1>2. 0 \in S
  <2> DEFINE g == [k \in 0..0 |-> <<>>]
  <2>1. Solves(g, 0)
    BY DEF DocsStep
  <2> HIDE DEF g, Solves
  <2> QED
    BY <2>1
<1>3. ASSUME NEW m \in Nat, m \in S
      PROVE  m + 1 \in S
  <2>1. PICK g : Solves(g, m)
    BY <1>3
  <2> DEFINE h == [k \in 0..(m + 1) |-> IF k = m + 1 THEN DocsStep(recs, c, g, k) ELSE g[k]]
  <2>2. \A k \in 0..(m + 1) : k # 0 => k - 1 \in 0..m /\ h[k - 1] = g[k - 1]
    OBVIOUS
  <2>3. \A k \in 0..(m + 1) : DocsStep(recs, c, h, k) = DocsStep(recs, c, g, k)
    <3> HIDE DEF h
    <3> QED
      BY <2>2 DEF DocsStep
  <2>4. \A k \in 0..m : g[k] = DocsStep(recs, c, g, k)
    BY <2>1
  <2>5. \A k \in 0..(m + 1) : h[k] = DocsStep(recs, c, g, k)
    BY <2>4
  <2>6. h = [k \in 0..(m + 1) |-> h[k]]
    OBVIOUS
  <2>7. Solves(h, m + 1)
    <3> HIDE DEF h
    <3> QED
      BY <2>3, <2>5, <2>6
  <2> HIDE DEF h, Solves
  <2> QED
    BY <2>7
<1>4. Len(recs) \in S
  <2> HIDE DEF S
  <2>1. \A k \in 0..(Len(recs) - 1) : k \in S => k + 1 \in S
    BY <1>1, <1>3
  <2>2. \A k \in 0..Len(recs) : k \in S
    BY <1>1, <1>2, <2>1, Climb
  <2> QED
    BY <1>1, <2>2
<1> QED
  BY <1>4

LEMMA DocsFacts ==
    ASSUME NEW recs \in Seq(Record), NEW c
    PROVE  /\ DocsOf(recs, c)[0] = <<>>
           /\ \A k \in 1..Len(recs) :
                DocsOf(recs, c)[k] = IF recs[k].coll = c
                                     THEN ApplyTo(DocsOf(recs, c)[k - 1], recs[k])
                                     ELSE DocsOf(recs, c)[k - 1]
<1>1. PICK g : g = [k \in 0..Len(recs) |-> DocsStep(recs, c, g, k)]
  BY DocsSolvable
<1>2. DocsOf(recs, c) = CHOOSE h : h = [k \in 0..Len(recs) |-> DocsStep(recs, c, h, k)]
  BY DEF DocsOf, DocsStep
<1>3. DocsOf(recs, c) = [k \in 0..Len(recs) |-> DocsStep(recs, c, DocsOf(recs, c), k)]
  BY <1>1, <1>2, Zenon
<1>4. Len(recs) \in Nat
  OBVIOUS
<1>5. \A k \in 0..Len(recs) : DocsOf(recs, c)[k] = DocsStep(recs, c, DocsOf(recs, c), k)
  BY <1>3
<1> QED
  BY <1>4, <1>5 DEF DocsStep

LEMMA ApplyType ==
    ASSUME NEW ds \in Seq(Doc), NEW r \in Record
    PROVE  /\ r.op \in {"insert", "replace", "delete"}
           /\ r.op # "delete" => DocOf(r) \in Doc
           /\ ApplyTo(ds, r) \in Seq(Doc)
<1>1. r.op \in {"insert", "replace", "delete"}
  BY DEF Record
<1>2. r.op # "delete" => DocOf(r) \in Doc
  BY DEF Record, DocOf, Doc
<1>3. CASE r.op = "insert"
  BY <1>1, <1>2, <1>3 DEF ApplyTo
<1>4. CASE r.op = "replace"
  <2>1. ApplyTo(ds, r) = [i \in DOMAIN ds |-> IF ds[i].id = r.id THEN DocOf(r) ELSE ds[i]]
    BY <1>4 DEF ApplyTo
  <2>2. PICK L \in Nat : L = Len(ds) /\ DOMAIN ds = 1..L
    OBVIOUS
  <2>3. \A i \in 1..L : (IF ds[i].id = r.id THEN DocOf(r) ELSE ds[i]) \in Doc
    BY <1>2, <1>4, <2>2
  <2> QED
    BY <1>1, <1>2, <2>1, <2>2, <2>3
<1>5. CASE r.op = "delete"
  <2>1. ApplyTo(ds, r) = Picked(ds, {i \in DOMAIN ds : ds[i].id # r.id})
    BY <1>5 DEF ApplyTo
  <2>2. Picked(ds, {i \in DOMAIN ds : ds[i].id # r.id}) \in Seq(Doc)
    BY PickedFacts
  <2> QED
    BY <1>1, <1>5, <2>1, <2>2
<1> QED
  BY <1>1, <1>3, <1>4, <1>5

LEMMA DocsType ==
    ASSUME NEW recs \in Seq(Record), NEW c
    PROVE  \A k \in 0..Len(recs) : DocsOf(recs, c)[k] \in Seq(Doc)
<1> DEFINE S == {k \in Nat : DocsOf(recs, c)[k] \in Seq(Doc)}
<1>1. Len(recs) \in Nat /\ <<>> \in Seq(Doc)
  OBVIOUS
<1>2. 0 \in S
  <2>1. DocsOf(recs, c)[0] = <<>>
    BY DocsFacts
  <2> QED
    BY <1>1, <2>1
<1>3. ASSUME NEW k \in 0..(Len(recs) - 1), k \in S
      PROVE  k + 1 \in S
  <2>1. k + 1 \in 1..Len(recs) /\ (k + 1) - 1 = k /\ recs[k + 1] \in Record
    BY <1>1
  <2>2. DocsOf(recs, c)[k] \in Seq(Doc)
    BY <1>3
  <2>3. ApplyTo(DocsOf(recs, c)[k], recs[k + 1]) \in Seq(Doc)
    BY <2>1, <2>2, ApplyType
  <2>4. DocsOf(recs, c)[k + 1] \in Seq(Doc)
    BY <2>1, <2>2, <2>3, DocsFacts
  <2> QED
    BY <1>1, <2>4
<1> HIDE DEF S
<1>4. \A k \in 0..Len(recs) : k \in S
  BY <1>1, <1>2, <1>3, Climb
<1> QED
  BY <1>4 DEF S

\* Only the records it comes past count.
LEMMA DocsSame ==
    ASSUME NEW recs \in Seq(Record), NEW other \in Seq(Record), NEW c, NEW n \in Nat,
           n <= Len(recs), n <= Len(other), \A k \in 1..n : other[k] = recs[k]
    PROVE  \A k \in 0..n : DocsOf(other, c)[k] = DocsOf(recs, c)[k]
<1> DEFINE S == {k \in Nat : DocsOf(other, c)[k] = DocsOf(recs, c)[k]}
<1>1. Len(recs) \in Nat /\ Len(other) \in Nat
  OBVIOUS
<1>2. 0 \in S
  BY DocsFacts
<1>3. ASSUME NEW k \in 0..(n - 1), k \in S
      PROVE  k + 1 \in S
  <2>1. /\ k + 1 \in 1..Len(recs) /\ k + 1 \in 1..Len(other) /\ (k + 1) - 1 = k
        /\ other[k + 1] = recs[k + 1]
    BY <1>1
  <2>2. DocsOf(other, c)[k] = DocsOf(recs, c)[k]
    BY <1>3
  <2>3. DocsOf(other, c)[k + 1] = DocsOf(recs, c)[k + 1]
    BY <2>1, <2>2, DocsFacts
  <2> QED
    BY <2>3
<1> HIDE DEF S
<1>4. \A k \in 0..n : k \in S
  BY <1>2, <1>3, Climb
<1> QED
  BY <1>4 DEF S

\* Records of other collections change nothing.
LEMMA DocsOthers ==
    ASSUME NEW recs \in Seq(Record), NEW c, NEW n \in Nat, NEW m \in Nat,
           n + m <= Len(recs), \A k \in (n + 1)..(n + m) : recs[k].coll # c
    PROVE  DocsOf(recs, c)[n + m] = DocsOf(recs, c)[n]
<1> DEFINE S == {k \in Nat : DocsOf(recs, c)[n + k] = DocsOf(recs, c)[n]}
<1>1. Len(recs) \in Nat
  OBVIOUS
<1>2. 0 \in S
  OBVIOUS
<1>3. ASSUME NEW k \in 0..(m - 1), k \in S
      PROVE  k + 1 \in S
  <2>1. /\ n + (k + 1) \in 1..Len(recs) /\ (n + (k + 1)) - 1 = n + k
        /\ n + (k + 1) \in (n + 1)..(n + m)
    BY <1>1
  <2>2. DocsOf(recs, c)[n + k] = DocsOf(recs, c)[n]
    BY <1>3
  <2>3. DocsOf(recs, c)[n + (k + 1)] = DocsOf(recs, c)[n]
    BY <2>1, <2>2, DocsFacts
  <2> QED
    BY <2>3
<1> HIDE DEF S
<1>4. \A k \in 0..m : k \in S
  BY <1>2, <1>3, Climb
<1> QED
  BY <1>4 DEF S

\* The m records behind the n-th insert the documents in b.
Brings(recs, c, b, n, m) ==
    /\ \A k \in (n + 1)..(n + m) : recs[k].coll = c /\ recs[k].op = "insert"
    /\ Len(b) = m /\ \A k \in 1..m : b[k] = DocOf(recs[n + k])

\* Inserts append their documents.
LEMMA DocsAppended ==
    ASSUME NEW recs \in Seq(Record), NEW c, NEW n \in Nat, NEW m \in Nat,
           n + m <= Len(recs),
           NEW b \in Seq(Doc), Brings(recs, c, b, n, m)
    PROVE  DocsOf(recs, c)[n + m] = DocsOf(recs, c)[n] \o b
<1> DEFINE new(k) == [j \in 1..k |-> DocOf(recs[n + j])]
           S == {k \in Nat : DocsOf(recs, c)[n + k] = DocsOf(recs, c)[n] \o new(k)}
<1>1. Len(recs) \in Nat /\ \A k \in (n + 1)..(n + m) : recs[k].coll = c /\ recs[k].op = "insert"
  BY DEF Brings
<1>2. PICK ds \in Seq(Doc) : ds = DocsOf(recs, c)[n]
  BY <1>1, DocsType
<1>3. ASSUME NEW k \in 0..m
      PROVE  /\ new(k) \in Seq(Doc) /\ Len(new(k)) = k
             /\ \A j \in 1..k : new(k)[j] = DocOf(recs[n + j])
  <2>1. \A j \in 1..k : n + j \in 1..Len(recs) /\ n + j \in (n + 1)..(n + m)
    BY <1>1
  <2>2. \A j \in 1..k : DocOf(recs[n + j]) \in Doc
    <3> TAKE j \in 1..k
    <3>1. recs[n + j] \in Record /\ recs[n + j].op # "delete"
      BY <1>1, <2>1
    <3> QED
      BY <3>1 DEF Record, DocOf, Doc
  <2> QED
    BY <2>2
<1>4. 0 \in S
  <2>1. new(0) = <<>>
    OBVIOUS
  <2>2. ds \o <<>> = ds
    OBVIOUS
  <2> HIDE DEF new
  <2> QED
    BY <1>2, <2>1, <2>2
<1>5. ASSUME NEW k \in 0..(m - 1), k \in S
      PROVE  k + 1 \in S
  <2>1. /\ n + (k + 1) \in 1..Len(recs) /\ (n + (k + 1)) - 1 = n + k
        /\ n + (k + 1) \in (n + 1)..(n + m) /\ k \in Nat /\ k \in 0..m /\ k + 1 \in 0..m
    BY <1>1
  <2>2. DocsOf(recs, c)[n + k] = ds \o new(k)
    BY <1>2, <1>5
  <2> DEFINE d == DocOf(recs[n + (k + 1)])
  <2>3. ApplyTo(ds \o new(k), recs[n + (k + 1)]) = Append(ds \o new(k), d)
    BY <1>1, <2>1 DEF ApplyTo
  <2>4. d \in Doc
    <3>1. recs[n + (k + 1)] \in Record /\ recs[n + (k + 1)].op # "delete"
      BY <1>1, <2>1
    <3> QED
      BY <3>1 DEF Record, DocOf, Doc
  <2>5. /\ new(k) \in Seq(Doc) /\ Len(new(k)) = k
        /\ \A j \in 1..k : new(k)[j] = DocOf(recs[n + j])
    BY <1>3, <2>1
  <2>6. /\ new(k + 1) \in Seq(Doc) /\ Len(new(k + 1)) = k + 1
        /\ \A j \in 1..(k + 1) : new(k + 1)[j] = DocOf(recs[n + j])
    BY <1>3, <2>1
  <2>7. Append(ds \o new(k), d) = ds \o new(k + 1)
    <3>1. PICK t \in Seq(Doc) : t = new(k)
      BY <2>5
    <3>2. PICK u \in Seq(Doc) : u = new(k + 1)
      BY <2>6
    <3>3. PICK e \in Doc : e = d
      BY <2>4
    <3> HIDE DEF new, d
    <3>4. Len(t) = k /\ Len(u) = k + 1 /\ (\A j \in 1..k : u[j] = t[j]) /\ u[k + 1] = e
      BY <2>1, <2>5, <2>6, <3>1, <3>2, <3>3 DEF d
    <3>5. u = Append(t, e)
      BY <3>4
    <3>6. Append(ds \o t, e) = ds \o Append(t, e)
      <4>1. <<e>> \in Seq(Doc) /\ ds \o t \in Seq(Doc)
        OBVIOUS
      <4>2. Append(ds \o t, e) = (ds \o t) \o <<e>> /\ Append(t, e) = t \o <<e>>
        BY <4>1, AppendIsConcat
      <4>3. (ds \o t) \o <<e>> = ds \o (t \o <<e>>)
        BY SMTT(40), <4>1, ConcatAssociative
      <4> QED
        BY <4>2, <4>3
    <3> QED
      BY <3>1, <3>2, <3>3, <3>5, <3>6
  <2> HIDE DEF new, d
  <2>8. DocsOf(recs, c)[n + (k + 1)] = ds \o new(k + 1)
    <3>1. recs[n + (k + 1)].coll = c
      BY <1>1, <2>1
    <3>2. DocsOf(recs, c)[n + (k + 1)] = ApplyTo(DocsOf(recs, c)[n + k], recs[n + (k + 1)])
      BY <2>1, <3>1, DocsFacts
    <3> QED
      BY <2>2, <2>3, <2>7, <3>2
  <2>9. k + 1 \in Nat
    BY <2>1
  <2> QED
    BY <1>2, <2>8, <2>9
<1> HIDE DEF S, new
<1>6. \A k \in 0..m : k \in S
  BY <1>4, <1>5, Climb
<1>7. m \in S
  BY <1>6
<1>8. new(m) = b
  <2>1. /\ new(m) \in Seq(Doc) /\ Len(new(m)) = m
        /\ \A k \in 1..m : new(m)[k] = DocOf(recs[n + k])
    BY <1>3
  <2>2. PICK u \in Seq(Doc) : u = new(m)
    BY <2>1
  <2>3. Len(b) = m /\ \A k \in 1..m : b[k] = DocOf(recs[n + k])
    BY DEF Brings
  <2> QED
    BY <2>1, <2>2, <2>3
<1> QED
  BY <1>7, <1>8 DEF S

\* The m records behind the n-th delete all documents of ds but those in J.
Takes(recs, c, ds, n, m, J) ==
    /\ \A k \in (n + 1)..(n + m) : recs[k].coll = c /\ recs[k].op = "delete"
    /\ J = {i \in DOMAIN ds : \A k \in 1..m : ds[i].id # recs[n + k].id}

\* Tombstones take their documents out.
LEMMA DocsDropped ==
    ASSUME NEW recs \in Seq(Record), NEW c, NEW n \in Nat, NEW m \in Nat, NEW J,
           n + m <= Len(recs), Takes(recs, c, DocsOf(recs, c)[n], n, m, J)
    PROVE  DocsOf(recs, c)[n + m] = Picked(DocsOf(recs, c)[n], J)
<1>0. PICK ds : ds = DocsOf(recs, c)[n]
  OBVIOUS
<1> DEFINE left(k) == {i \in DOMAIN ds : \A j \in 1..k : ds[i].id # recs[n + j].id}
           S == {k \in Nat : DocsOf(recs, c)[n + k] = Picked(ds, left(k))}
<1>1. Len(recs) \in Nat /\ \A k \in (n + 1)..(n + m) : recs[k].coll = c /\ recs[k].op = "delete"
  BY DEF Takes
<1>2. ds \in Seq(Doc)
  BY <1>0, <1>1, DocsType
<1>3. 0 \in S
  <2>1. left(0) = DOMAIN ds
    BY <1>0
  <2> HIDE DEF left
  <2> QED
    BY <1>0, <1>2, <2>1, PickedAll
<1>4. ASSUME NEW k \in 0..(m - 1), k \in S
      PROVE  k + 1 \in S
  <2>1. /\ n + (k + 1) \in 1..Len(recs) /\ (n + (k + 1)) - 1 = n + k
        /\ n + (k + 1) \in (n + 1)..(n + m)
    BY <1>1
  <2>2. PICK K : K = left(k)
    OBVIOUS
  <2>3. PICK x : x = recs[n + (k + 1)].id
    OBVIOUS
  <2>4. DocsOf(recs, c)[n + k] = Picked(ds, K)
    BY <1>4, <2>2
  <2>5. /\ K \subseteq DOMAIN ds /\ K \subseteq Nat /\ IsFiniteSet(K)
        /\ DOMAIN Picked(ds, K) = 1..Cardinality(K)
        /\ \A i \in 1..Cardinality(K) : Nth(K, i) \in K /\ Picked(ds, K)[i] = ds[Nth(K, i)]
        /\ \A i \in K : Rank(K, i) \in 1..Cardinality(K) /\ Nth(K, Rank(K, i)) = i
    <3>1. K \subseteq DOMAIN ds
      BY <2>2
    <3>2. /\ K \subseteq Nat /\ IsFiniteSet(K)
          /\ DOMAIN Picked(ds, K) = 1..Cardinality(K)
          /\ \A i \in 1..Cardinality(K) : Nth(K, i) \in K /\ Picked(ds, K)[i] = ds[Nth(K, i)]
      BY <1>2, <3>1, PickedFacts
    <3>3. \A i \in K : Rank(K, i) \in 1..Cardinality(K) /\ Nth(K, Rank(K, i)) = i
      BY <3>2, NthFacts
    <3> QED
      BY <3>1, <3>2, <3>3
  <2> DEFINE I == {i \in 1..Cardinality(K) : Picked(ds, K)[i].id # x}
  <2>6. /\ \A i \in I : Nth(K, i) \in left(k + 1)
        /\ \A i \in left(k + 1) : \E j \in I : i = Nth(K, j)
    <3>1. left(k + 1) = {i \in K : ds[i].id # x}
      <4>1. \A j : j \in 1..(k + 1) <=> j \in 1..k \/ j = k + 1
        OBVIOUS
      <4> QED
        BY <2>2, <2>3, <4>1
    <3>2. ASSUME NEW i \in I PROVE Nth(K, i) \in K /\ ds[Nth(K, i)].id # x
      BY <2>5
    <3>3. ASSUME NEW i \in K, ds[i].id # x
          PROVE  \E j \in I : Nth(K, j) = i
      BY <2>5, <3>3
    <3> HIDE DEF left, I
    <3> QED
      BY <3>1, <3>2, <3>3
  <2>7. Picked(Picked(ds, K), I) = Picked(ds, left(k + 1))
    <3>1. I \subseteq 1..Cardinality(K)
      OBVIOUS
    <3> HIDE DEF left, I
    <3>2. K \subseteq DOMAIN ds
      BY <2>5
    <3>3. Numbered(K, I, left(k + 1))
      BY <2>6, <3>1 DEF Numbered
    <3> QED
      BY <1>2, <3>2, <3>3, PickedOfPicked
  <2>8. ApplyTo(Picked(ds, K), recs[n + (k + 1)]) = Picked(Picked(ds, K), I)
    <3>1. recs[n + (k + 1)].op = "delete"
      BY <1>1, <2>1
    <3>2. ApplyTo(Picked(ds, K), recs[n + (k + 1)]) =
            Picked(Picked(ds, K), {i \in DOMAIN Picked(ds, K) : Picked(ds, K)[i].id # recs[n + (k + 1)].id})
      BY <3>1 DEF ApplyTo
    <3>3. {i \in DOMAIN Picked(ds, K) : Picked(ds, K)[i].id # recs[n + (k + 1)].id} = I
      BY <2>3, <2>5
    <3> QED
      BY <3>2, <3>3
  <2> HIDE DEF left, I
  <2>9. DocsOf(recs, c)[n + (k + 1)] = Picked(ds, left(k + 1))
    <3>1. recs[n + (k + 1)].coll = c
      BY <1>1, <2>1
    <3>2. DocsOf(recs, c)[n + (k + 1)] = ApplyTo(DocsOf(recs, c)[n + k], recs[n + (k + 1)])
      BY <2>1, <3>1, DocsFacts
    <3> QED
      BY <2>4, <2>7, <2>8, <3>2
  <2> QED
    BY <2>9
<1> HIDE DEF S, left
<1>5. \A k \in 0..m : k \in S
  BY <1>3, <1>4, Climb
<1>6. m \in S
  BY <1>5
<1> QED
  BY <1>0, <1>6 DEF S, left, Takes

-----------------------------------------------------------------------------
\* The documents an index leads to

LiveOf(s) == DOMAIN s \ {i \in DOMAIN s : Marked(s[i])}

\* The document behind every slot, and the documents behind those not marked.
DocsAt(recs, s) == [i \in DOMAIN s |-> DocOf(recs[s[i].at])]
ShownBy(recs, s) ==
    [i \in DOMAIN Picked(s, LiveOf(s)) |-> DocOf(recs[Picked(s, LiveOf(s))[i].at])]

\* The slots lead to documents of c among the first n records.
Sound(recs, s, c, n) ==
    \A i \in DOMAIN s :
        s[i].at \in 1..n /\ recs[s[i].at].coll = c /\ recs[s[i].at].op # "delete"

\* They lead to ds, and have the lengths of the records.
Leads(recs, s, ds) ==
    /\ ShownBy(recs, s) = ds
    /\ \A i \in LiveOf(s) : s[i].len = PayloadLen(recs[s[i].at])

LEMMA LeadsFacts ==
    ASSUME NEW recs \in Seq(Record), NEW s \in Seq(Slot), NEW c, NEW n \in 0..Len(recs),
           Sound(recs, s, c, n)
    PROVE  /\ DocsAt(recs, s) \in Seq(Doc) /\ DOMAIN DocsAt(recs, s) = DOMAIN s
           /\ \A i \in DOMAIN s : DocsAt(recs, s)[i] = DocOf(recs[s[i].at])
           /\ LiveOf(s) \subseteq DOMAIN s
           /\ LiveOf(s) = {i \in DOMAIN s : s[i].len # 0}
           /\ ShownBy(recs, s) = Picked(DocsAt(recs, s), LiveOf(s))
<1>1. PICK L \in Nat : L = Len(s) /\ DOMAIN s = 1..L
  OBVIOUS
<1>2. \A i \in 1..L : DocOf(recs[s[i].at]) \in Doc
  <2> TAKE i \in 1..L
  <2>1. s[i].at \in 1..n /\ recs[s[i].at].op # "delete"
    BY <1>1 DEF Sound
  <2>2. s[i].at \in 1..Len(recs)
    BY <2>1
  <2>3. recs[s[i].at] \in Record
    BY <2>2
  <2> QED
    BY <2>1, <2>3 DEF Record, DocOf, Doc
<1>3. DocsAt(recs, s) = [i \in 1..L |-> DocOf(recs[s[i].at])]
  BY <1>1 DEF DocsAt
<1>4. /\ DocsAt(recs, s) \in Seq(Doc) /\ DOMAIN DocsAt(recs, s) = 1..L
      /\ \A i \in 1..L : DocsAt(recs, s)[i] = DocOf(recs[s[i].at])
  BY <1>2, <1>3
<1>5. LiveOf(s) \subseteq DOMAIN s /\ LiveOf(s) = {i \in DOMAIN s : s[i].len # 0}
  BY DEF LiveOf, Marked
<1>6. PICK K : K = LiveOf(s)
  OBVIOUS
<1>7. /\ DOMAIN Picked(s, K) = 1..Cardinality(K)
      /\ \A i \in 1..Cardinality(K) : Nth(K, i) \in K /\ Picked(s, K)[i] = s[Nth(K, i)]
  BY <1>5, <1>6, PickedFacts
<1>8. ShownBy(recs, s) = [i \in 1..Cardinality(K) |-> DocOf(recs[Picked(s, K)[i].at])]
  BY <1>6, <1>7 DEF ShownBy
<1>9. \A i \in 1..Cardinality(K) : DocOf(recs[Picked(s, K)[i].at]) = DocsAt(recs, s)[Nth(K, i)]
  BY <1>1, <1>4, <1>5, <1>6, <1>7
<1>10. ShownBy(recs, s) = Picked(DocsAt(recs, s), K)
  BY <1>8, <1>9 DEF Picked
<1> QED
  BY <1>1, <1>4, <1>5, <1>6, <1>10

\* Nothing in the index.
LEMMA LeadsNowhere ==
    ASSUME NEW recs
    PROVE  Leads(recs, <<>>, <<>>)
<1>1. LiveOf(<<>>) = {}
  BY DEF LiveOf
<1>2. Cardinality({}) = 0
  BY FS_EmptySet
<1>3. DOMAIN Picked(<<>>, LiveOf(<<>>)) = {}
  BY <1>1, <1>2 DEF Picked
<1> QED
  BY <1>1, <1>3 DEF Leads, ShownBy

\* New records are about other collections.
LEMMA LeadsStill ==
    ASSUME NEW recs \in Seq(Record), NEW other \in Seq(Record), NEW s \in Seq(Slot), NEW c,
           NEW n \in 0..Len(recs), NEW m \in Nat, n + m <= Len(other),
           Sound(recs, s, c, n), Leads(recs, s, DocsOf(recs, c)[n]),
           \A k \in 1..n : other[k] = recs[k],
           \A k \in (n + 1)..(n + m) : other[k].coll # c
    PROVE  Leads(other, s, DocsOf(other, c)[n + m])
<1>1. Len(recs) \in Nat /\ Len(other) \in Nat /\ n \in Nat /\ n <= Len(recs) /\ n <= Len(other)
      /\ n \in 0..n
  OBVIOUS
<1>2. \A k \in 0..n : DocsOf(other, c)[k] = DocsOf(recs, c)[k]
  BY <1>1, DocsSame
<1>3. DocsOf(other, c)[n + m] = DocsOf(other, c)[n]
  BY <1>1, DocsOthers, ZenonT(40)
<1>4. \A i \in DOMAIN s : other[s[i].at] = recs[s[i].at]
  BY DEF Sound
<1>5. LiveOf(s) \subseteq DOMAIN s
  BY DEF LiveOf
<1>6. /\ DOMAIN Picked(s, LiveOf(s)) = 1..Cardinality(LiveOf(s))
      /\ \A i \in 1..Cardinality(LiveOf(s)) :
           Nth(LiveOf(s), i) \in LiveOf(s) /\ Picked(s, LiveOf(s))[i] = s[Nth(LiveOf(s), i)]
  BY <1>5, PickedFacts
<1>7. \A i \in DOMAIN Picked(s, LiveOf(s)) :
         other[Picked(s, LiveOf(s))[i].at] = recs[Picked(s, LiveOf(s))[i].at]
  BY <1>4, <1>5, <1>6
<1>8. ShownBy(other, s) = ShownBy(recs, s)
  BY <1>7 DEF ShownBy
<1>9. \A i \in LiveOf(s) : s[i].len = PayloadLen(other[s[i].at])
  BY <1>4, <1>5 DEF Leads
<1> QED
  BY <1>1, <1>2, <1>3, <1>8, <1>9 DEF Leads

LEMMA PickedAppended ==
    ASSUME NEW D, NEW a \in Seq(D), NEW b \in Seq(D), NEW K, K \subseteq DOMAIN a,
           NEW T, T = K \cup ((Len(a) + 1)..(Len(a) + Len(b)))
    PROVE  Picked(a \o b, T) = Picked(a, K) \o b
<1>1. PICK L \in Nat : L = Len(a) /\ DOMAIN a = 1..L
  OBVIOUS
<1>2. PICK m \in Nat : m = Len(b) /\ DOMAIN b = 1..m
  OBVIOUS
<1>3. PICK N \in Nat :
        /\ N = Cardinality(K) /\ K \subseteq Nat /\ IsFiniteSet(K)
        /\ Picked(a, K) \in Seq(D) /\ Len(Picked(a, K)) = N
        /\ \A i \in 1..N : Nth(K, i) \in K /\ Picked(a, K)[i] = a[Nth(K, i)]
  BY PickedFacts, SMTT(40)
<1>4. /\ \A i, j \in 1..N : i < j => Nth(K, i) < Nth(K, j)
      /\ \A x \in K : Rank(K, x) \in 1..N /\ Nth(K, Rank(K, x)) = x
  BY <1>3, NthFacts
<1>5. PICK ab \in Seq(D) :
        /\ ab = a \o b /\ Len(ab) = L + m /\ DOMAIN ab = 1..(L + m)
        /\ \A i \in 1..L : ab[i] = a[i]
        /\ \A i \in 1..m : ab[L + i] = b[i]
  <2>1. /\ a \o b \in Seq(D) /\ Len(a \o b) = Len(a) + Len(b)
        /\ \A i \in 1..Len(a) : (a \o b)[i] = a[i]
        /\ \A i \in 1..Len(b) : (a \o b)[Len(a) + i] = b[i]
    BY ConcatFacts
  <2>2. PICK t \in Seq(D) : t = a \o b
    BY <2>1
  <2>3. /\ Len(t) = L + m
        /\ \A i \in 1..L : t[i] = a[i]
        /\ \A i \in 1..m : t[L + i] = b[i]
    BY <1>1, <1>2, <2>1, <2>2
  <2>4. DOMAIN t = 1..(L + m)
    BY <2>3
  <2> QED
    BY <2>2, <2>3, <2>4
<1>0. PICK q \in Nat : q = N + m
  OBVIOUS
<1> DEFINE f == [i \in 1..q |-> IF i <= N THEN Nth(K, i) ELSE L + (i - N)]
<1>6. \A i \in 1..q : (i <= N => i \in 1..N /\ f[i] = Nth(K, i))
                         /\ (~(i <= N) => i - N \in 1..m /\ f[i] = L + (i - N))
  BY <1>0
<1>7. T = K \cup ((L + 1)..(L + m)) /\ K \subseteq 1..L
  BY <1>1, <1>2
<1>8. Lists(f, q, T)
  <2>1. ASSUME NEW i \in 1..q
        PROVE  f[i] \in T
    <3>1. CASE i <= N
      BY <1>3, <1>6, <1>7, <3>1
    <3>2. CASE ~(i <= N)
      <4>1. f[i] = L + (i - N) /\ i - N \in 1..m
        BY <1>6, <3>2
      <4> HIDE DEF f
      <4>2. f[i] \in (L + 1)..(L + m)
        BY <4>1
      <4> QED
        BY <1>7, <4>2
    <3> QED
      BY <3>1, <3>2
  <2>2. ASSUME NEW i \in 1..q, NEW j \in 1..q, i < j
        PROVE  f[i] < f[j]
    <3>1. CASE j <= N
      BY <1>4, <1>6, <2>2, <3>1
    <3>2. CASE ~(j <= N) /\ i <= N
      <4>1. f[i] \in 1..L
        BY <1>3, <1>6, <1>7, <3>2
      <4>2. f[j] = L + (j - N) /\ j - N \in 1..m
        BY <1>6, <3>2
      <4> HIDE DEF f
      <4> QED
        BY <4>1, <4>2
    <3>3. CASE ~(i <= N)
      BY <2>2, <3>3
    <3> QED
      BY <3>1, <3>2, <3>3
  <2>3. ASSUME NEW x \in T
        PROVE  \E i \in 1..q : f[i] = x
    <3>1. CASE x \in K
      <4>1. Rank(K, x) \in 1..N /\ Nth(K, Rank(K, x)) = x
        BY <1>4, <3>1
      <4>2. Rank(K, x) \in 1..q /\ Rank(K, x) <= N
        BY <1>0, <4>1
      <4>3. f[Rank(K, x)] = x
        BY <1>6, <4>1, <4>2
      <4> QED
        BY <4>2, <4>3
    <3>2. CASE x \in (L + 1)..(L + m)
      <4>1. N + (x - L) \in 1..q /\ ~(N + (x - L) <= N) /\ L + ((N + (x - L)) - N) = x
        BY <1>0, <3>2
      <4>2. f[N + (x - L)] = x
        BY <4>1
      <4> QED
        BY <4>1, <4>2
    <3> QED
      BY <1>7, <3>1, <3>2
  <2>4. f \in [1..q -> T]
    BY <2>1
  <2> HIDE DEF f
  <2> QED
    BY <2>2, <2>3, <2>4 DEF Lists
<1>9. T \subseteq DOMAIN ab
  BY <1>5, <1>7
<1>10. Picked(ab, T) = [i \in 1..q |-> ab[f[i]]]
  <2> HIDE DEF f
  <2> QED
    BY <1>8, <1>9, PickedByList, SMTT(40)
<1>11. PICK u \in Seq(D) : u = Picked(a, K) /\ Len(u) = N
  BY <1>3
<1>12. PICK ub \in Seq(D) :
         /\ ub = u \o b /\ Len(ub) = q
         /\ \A i \in 1..N : ub[i] = u[i]
         /\ \A i \in 1..m : ub[N + i] = b[i]
  <2>1. /\ u \o b \in Seq(D) /\ Len(u \o b) = Len(u) + Len(b)
        /\ \A i \in 1..Len(u) : (u \o b)[i] = u[i]
        /\ \A i \in 1..Len(b) : (u \o b)[Len(u) + i] = b[i]
    BY ConcatFacts
  <2>2. PICK t \in Seq(D) : t = u \o b
    BY <2>1
  <2>3. /\ Len(t) = q
        /\ \A i \in 1..N : t[i] = u[i]
        /\ \A i \in 1..m : t[N + i] = b[i]
    BY <1>0, <1>2, <1>11, <2>1, <2>2
  <2> QED
    BY <2>2, <2>3
<1>13. \A i \in 1..q : ub[i] = ab[f[i]]
  <2> TAKE i \in 1..q
  <2>1. CASE i <= N
    <3>1. i \in 1..N /\ f[i] = Nth(K, i) /\ Nth(K, i) \in 1..L
      BY <1>3, <1>6, <1>7, <2>1
    <3> QED
      BY <1>3, <1>5, <1>11, <1>12, <3>1
  <2>2. CASE ~(i <= N)
    <3>1. PICK j \in 1..m : j = i - N /\ f[i] = L + j /\ N + j = i
      BY <1>0, <1>6, <2>2
    <3>2. ub[N + j] = b[j] /\ ab[L + j] = b[j]
      BY <1>5, <1>12
    <3> QED
      BY <3>1, <3>2
  <2> QED
    BY <2>1, <2>2
<1>14. ub = [i \in 1..q |-> ub[i]]
  <2>1. DOMAIN ub = 1..q
    BY <1>12
  <2> QED
    BY <2>1
<1> HIDE DEF f
<1> QED
  BY <1>5, <1>10, <1>11, <1>12, <1>13, <1>14

\* The slots and records a batch of inserts adds.
GrowsBy(s, t, recs, c, n, m) ==
    LET L == Len(s)
    IN  /\ Len(t) = L + m
        /\ \A i \in 1..L : t[i] = s[i]
        /\ \A i \in (L + 1)..(L + m) :
             /\ t[i].at = n + (i - L)
             /\ t[i].len = PayloadLen(recs[n + (i - L)]) /\ t[i].len # 0
        /\ \A k \in (n + 1)..(n + m) : recs[k].coll = c /\ recs[k].op = "insert"

LEMMA LeadsFurther ==
    ASSUME NEW recs \in Seq(Record), NEW other \in Seq(Record), NEW c,
           NEW s \in Seq(Slot), NEW t \in Seq(Slot),
           NEW n \in 0..Len(recs), NEW m \in Nat, n + m <= Len(other),
           Sound(recs, s, c, n), Leads(recs, s, DocsOf(recs, c)[n]),
           \A k \in 1..n : other[k] = recs[k],
           GrowsBy(s, t, other, c, n, m)
    PROVE  Leads(other, t, DocsOf(other, c)[n + m])
<1>1. PICK L \in Nat : L = Len(s) /\ DOMAIN s = 1..L
  OBVIOUS
<1>2. PICK l \in Nat : l = L + m
  OBVIOUS
<1>3. DOMAIN t = 1..l /\ Len(t) = l
  BY <1>1, <1>2 DEF GrowsBy
<1>4. n \in Nat /\ Len(recs) \in Nat /\ Len(other) \in Nat /\ n <= Len(recs) /\ n <= Len(other)
      /\ n \in 0..n /\ n + m \in 0..Len(other)
  OBVIOUS
<1>5. \A i \in 1..L : t[i] = s[i] /\ s[i].at \in 1..n /\ other[s[i].at] = recs[s[i].at]
  BY <1>1 DEF GrowsBy, Sound
<1>6. ASSUME NEW i \in (L + 1)..l
      PROVE  /\ i - L \in 1..m /\ n + (i - L) \in (n + 1)..(n + m)
             /\ n + (i - L) \in 1..(n + m)
             /\ t[i].at = n + (i - L) /\ t[i].len = PayloadLen(other[n + (i - L)])
             /\ t[i].len # 0
             /\ other[n + (i - L)].coll = c /\ other[n + (i - L)].op = "insert"
  <2>1. i - L \in 1..m /\ n + (i - L) \in (n + 1)..(n + m) /\ n + (i - L) \in 1..(n + m)
    BY <1>2, <1>4, SMTT(40)
  <2>2. i \in (Len(s) + 1)..(Len(s) + m)
    BY <1>1, <1>2
  <2>3. t[i].at = n + (i - L) /\ t[i].len = PayloadLen(other[n + (i - L)]) /\ t[i].len # 0
    BY <1>1, <2>2 DEF GrowsBy
  <2>4. other[n + (i - L)].coll = c /\ other[n + (i - L)].op = "insert"
    BY <2>1 DEF GrowsBy
  <2> QED
    BY <2>1, <2>3, <2>4
<1>7. \A i \in 1..l : i \in 1..L \/ i \in (L + 1)..l
  BY <1>2
<1>8. Sound(other, t, c, n + m)
  <2>1. ASSUME NEW i \in 1..L
        PROVE  t[i].at \in 1..(n + m) /\ other[t[i].at].coll = c /\ other[t[i].at].op # "delete"
    <3>1. s[i].at \in 1..(n + m)
      BY <1>4, <1>5
    <3>2. recs[s[i].at].coll = c /\ recs[s[i].at].op # "delete"
      BY <1>1 DEF Sound
    <3> QED
      BY <1>5, <3>1, <3>2
  <2>2. ASSUME NEW i \in (L + 1)..l
        PROVE  t[i].at \in 1..(n + m) /\ other[t[i].at].coll = c /\ other[t[i].at].op # "delete"
    BY <1>6
  <2> QED
    BY <1>3, <1>7, <2>1, <2>2 DEF Sound
<1>9. PICK a \in Seq(Doc) :
        /\ a = DocsAt(recs, s) /\ DOMAIN a = 1..L /\ Len(a) = L
        /\ \A i \in 1..L : a[i] = DocOf(recs[s[i].at])
        /\ LiveOf(s) \subseteq 1..L /\ LiveOf(s) = {i \in 1..L : s[i].len # 0}
        /\ ShownBy(recs, s) = Picked(a, LiveOf(s))
  <2>1. /\ DocsAt(recs, s) \in Seq(Doc) /\ DOMAIN DocsAt(recs, s) = 1..L
        /\ \A i \in 1..L : DocsAt(recs, s)[i] = DocOf(recs[s[i].at])
        /\ LiveOf(s) \subseteq 1..L /\ LiveOf(s) = {i \in 1..L : s[i].len # 0}
        /\ ShownBy(recs, s) = Picked(DocsAt(recs, s), LiveOf(s))
    BY <1>1, LeadsFacts
  <2>2. PICK u \in Seq(Doc) : u = DocsAt(recs, s)
    BY <2>1
  <2>3. Len(u) = L
    BY <2>1, <2>2
  <2> QED
    BY <2>1, <2>2, <2>3
<1>10. PICK e \in Seq(Doc) :
        /\ e = DocsAt(other, t) /\ DOMAIN e = 1..l /\ Len(e) = l
        /\ \A i \in 1..l : e[i] = DocOf(other[t[i].at])
        /\ LiveOf(t) = {i \in 1..l : t[i].len # 0}
        /\ ShownBy(other, t) = Picked(e, LiveOf(t))
  <2>1. /\ DocsAt(other, t) \in Seq(Doc) /\ DOMAIN DocsAt(other, t) = 1..l
        /\ \A i \in 1..l : DocsAt(other, t)[i] = DocOf(other[t[i].at])
        /\ LiveOf(t) = {i \in 1..l : t[i].len # 0}
        /\ ShownBy(other, t) = Picked(DocsAt(other, t), LiveOf(t))
    BY <1>3, <1>4, <1>8, LeadsFacts
  <2>2. PICK u \in Seq(Doc) : u = DocsAt(other, t)
    BY <2>1
  <2>3. Len(u) = l
    BY <2>1, <2>2
  <2> QED
    BY <2>1, <2>2, <2>3
<1>11. PICK b \in Seq(Doc) : Len(b) = m /\ \A k \in 1..m : b[k] = DocOf(other[n + k])
  <2>1. ASSUME NEW k \in 1..m
        PROVE  DocOf(other[n + k]) \in Doc
    <3>1. n + k \in 1..Len(other) /\ n + k \in (n + 1)..(n + m)
      BY <1>4
    <3>2. other[n + k] \in Record /\ other[n + k].op = "insert"
      BY <3>1 DEF GrowsBy
    <3> QED
      BY <3>2 DEF Record, DocOf, Doc
  <2> DEFINE u == [k \in 1..m |-> DocOf(other[n + k])]
  <2>2. u \in Seq(Doc) /\ Len(u) = m /\ \A k \in 1..m : u[k] = DocOf(other[n + k])
    BY <2>1
  <2> HIDE DEF u
  <2> QED
    BY <2>2
<1>12. e = a \o b
  <2>1. PICK ab \in Seq(Doc) :
          /\ ab = a \o b /\ Len(ab) = l
          /\ \A i \in 1..L : ab[i] = a[i]
          /\ \A i \in 1..m : ab[L + i] = b[i]
    <3>1. /\ a \o b \in Seq(Doc) /\ Len(a \o b) = Len(a) + Len(b)
          /\ \A i \in 1..Len(a) : (a \o b)[i] = a[i]
          /\ \A i \in 1..Len(b) : (a \o b)[Len(a) + i] = b[i]
      BY ConcatFacts
    <3>2. PICK u \in Seq(Doc) : u = a \o b
      BY <3>1
    <3>3. /\ Len(u) = l
          /\ \A i \in 1..L : u[i] = a[i]
          /\ \A i \in 1..m : u[L + i] = b[i]
      BY <1>2, <1>9, <1>11, <3>1, <3>2
    <3> QED
      BY <3>2, <3>3
  <2>2. ASSUME NEW i \in 1..L PROVE e[i] = ab[i]
    <3>1. i \in 1..l
      BY <1>2, SMTT(40)
    <3>2. e[i] = DocOf(other[t[i].at])
      BY <1>10, <3>1
    <3>3. other[t[i].at] = recs[s[i].at]
      BY <1>5
    <3> QED
      BY <1>9, <2>1, <3>2, <3>3
  <2>3. ASSUME NEW i \in (L + 1)..l PROVE e[i] = ab[i]
    <3>1. i \in 1..l
      BY <1>2
    <3>2. PICK j \in 1..m : j = i - L /\ L + j = i
      <4>1. i - L \in 1..m /\ L + (i - L) = i
        BY <1>2
      <4> QED
        BY <4>1
    <3>3. e[i] = DocOf(other[n + j])
      BY <1>6, <1>10, <3>1, <3>2
    <3>4. ab[L + j] = DocOf(other[n + j])
      BY <1>11, <2>1
    <3> QED
      BY <3>2, <3>3, <3>4
  <2>4. \A i \in 1..l : e[i] = ab[i]
    BY <1>7, <2>2, <2>3
  <2>5. e = ab
    BY <1>10, <2>1, <2>4, SMTT(40)
  <2> QED
    BY <2>1, <2>5
<1>13. LiveOf(t) = LiveOf(s) \cup ((L + 1)..(L + m))
  <2>1. \A i \in 1..L : i \in 1..l
    BY <1>2
  <2>2. \A i \in (L + 1)..l : i \in 1..l
    BY <1>2
  <2>3. \A i \in 1..L : t[i].len # 0 <=> s[i].len # 0
    BY <1>5
  <2>4. \A i \in (L + 1)..l : t[i].len # 0
    BY <1>6
  <2> QED
    BY <1>2, <1>7, <1>9, <1>10, <2>1, <2>2, <2>3, <2>4
<1>14. Picked(e, LiveOf(t)) = Picked(a, LiveOf(s)) \o b
  <2>1. LiveOf(s) \subseteq DOMAIN a
    BY <1>9
  <2>2. LiveOf(t) = LiveOf(s) \cup ((Len(a) + 1)..(Len(a) + Len(b)))
    BY <1>9, <1>11, <1>13
  <2>3. Picked(a \o b, LiveOf(t)) = Picked(a, LiveOf(s)) \o b
    BY <2>1, <2>2, PickedAppended, ZenonT(40)
  <2> QED
    BY <1>12, <2>3
<1>15. DocsOf(other, c)[n + m] = DocsOf(other, c)[n] \o b
  <2>1. \A k \in (n + 1)..(n + m) : other[k].coll = c /\ other[k].op = "insert"
    BY DEF GrowsBy
  <2>2. n + m <= Len(other)
    OBVIOUS
  <2>3. Brings(other, c, b, n, m)
    BY <1>11, <2>1 DEF Brings
  <2> QED
    BY <1>4, <2>2, <2>3, DocsAppended
<1>16. DocsOf(other, c)[n] = DocsOf(recs, c)[n]
  <2>1. \A k \in 0..n : DocsOf(other, c)[k] = DocsOf(recs, c)[k]
    BY <1>4, DocsSame, SMTT(40)
  <2> QED
    BY <1>4, <2>1
<1>17. ShownBy(other, t) = DocsOf(other, c)[n + m]
  BY <1>9, <1>10, <1>14, <1>15, <1>16 DEF Leads
<1>18. \A i \in LiveOf(t) : t[i].len = PayloadLen(other[t[i].at])
  <2>1. \A i \in LiveOf(s) : i \in 1..L /\ s[i].len = PayloadLen(recs[s[i].at])
    BY <1>9 DEF Leads
  <2>2. \A i \in LiveOf(s) : t[i].len = PayloadLen(other[t[i].at])
    BY <1>5, <2>1, ZenonT(40)
  <2>3. \A i \in (L + 1)..l : t[i].len = PayloadLen(other[t[i].at])
    BY <1>6
  <2> QED
    BY <1>2, <1>13, <2>2, <2>3
<1> QED
  BY <1>17, <1>18 DEF Leads

\* The slot at pos gets the record behind the n-th, or a mark for it.
Supersedence(s, t, recs, c, n, pos) ==
    /\ DOMAIN t = DOMAIN s
    /\ \A i \in DOMAIN s \ {pos} : t[i] = s[i]
    /\ recs[n + 1].coll = c
    /\ \/ /\ recs[n + 1].op = "replace"
          /\ t[pos].at = n + 1 /\ t[pos].len = PayloadLen(recs[n + 1]) /\ t[pos].len # 0
       \/ /\ recs[n + 1].op = "delete"
          /\ t[pos].at = s[pos].at /\ t[pos].len = 0

\* Only the slot at pos leads to a document with that _id.
Only(recs, s, pos, x) ==
    /\ pos \in LiveOf(s)
    /\ \A i \in LiveOf(s) : recs[s[i].at].id = x <=> i = pos

LEMMA LeadsSuperseded ==
    ASSUME NEW recs \in Seq(Record), NEW other \in Seq(Record), NEW c,
           NEW s \in Seq(Slot), NEW t \in Seq(Slot), NEW n \in Nat, NEW pos,
           n <= Len(recs), n + 1 <= Len(other),
           Sound(recs, s, c, n), Leads(recs, s, DocsOf(recs, c)[n]),
           \A k \in 1..n : other[k] = recs[k],
           Supersedence(s, t, other, c, n, pos), Only(recs, s, pos, other[n + 1].id)
    PROVE  Leads(other, t, DocsOf(other, c)[n + 1])
<1>1. PICK L \in Nat : L = Len(s) /\ DOMAIN s = 1..L
  OBVIOUS
<1>2. /\ Len(recs) \in Nat /\ Len(other) \in Nat /\ n \in 0..Len(recs) /\ n <= Len(other)
      /\ n + 1 \in 1..Len(other) /\ n + 1 \in 0..Len(other) /\ n \in 0..n /\ (n + 1) - 1 = n
  OBVIOUS
<1>3. PICK r \in Record : r = other[n + 1]
  BY <1>2
<1>4. /\ DOMAIN t = 1..L /\ r.coll = c
      /\ \A i \in 1..L \ {pos} : t[i] = s[i]
      /\ \/ /\ r.op = "replace"
            /\ t[pos].at = n + 1 /\ t[pos].len = PayloadLen(r) /\ t[pos].len # 0
         \/ /\ r.op = "delete"
            /\ t[pos].at = s[pos].at /\ t[pos].len = 0
  BY <1>1, <1>3 DEF Supersedence
<1>5. /\ \A i \in 1..L : /\ s[i].at \in 1..n /\ s[i].at \in 1..(n + 1)
                         /\ other[s[i].at] = recs[s[i].at]
                         /\ recs[s[i].at].coll = c /\ recs[s[i].at].op # "delete"
      /\ pos \in 1..L
  <2>1. \A i \in 1..L : s[i].at \in 1..n /\ recs[s[i].at].coll = c /\ recs[s[i].at].op # "delete"
    BY <1>1 DEF Sound
  <2>2. \A k \in 1..n : k \in 1..(n + 1)
    OBVIOUS
  <2>3. pos \in 1..L
    BY <1>1 DEF Only, LiveOf
  <2> QED
    BY <2>1, <2>2, <2>3
<1>6. Sound(other, t, c, n + 1)
  <2>1. ASSUME NEW i \in 1..L, i # pos
        PROVE  t[i].at \in 1..(n + 1) /\ other[t[i].at].coll = c /\ other[t[i].at].op # "delete"
    <3>1. t[i] = s[i]
      BY <1>4, <2>1
    <3> QED
      BY <1>5, <3>1
  <2>2. t[pos].at \in 1..(n + 1) /\ other[t[pos].at].coll = c /\ other[t[pos].at].op # "delete"
    <3>1. CASE t[pos].at = s[pos].at
      BY <1>5, <3>1
    <3>2. CASE t[pos].at = n + 1 /\ r.op = "replace"
      BY <1>3, <1>4, <3>2
    <3> QED
      BY <1>4, <3>1, <3>2
  <2> QED
    BY <1>4, <2>1, <2>2 DEF Sound
<1>7. PICK a \in Seq(Doc) :
        /\ DOMAIN a = 1..L
        /\ \A i \in 1..L : a[i] = DocOf(recs[s[i].at])
        /\ LiveOf(s) \subseteq 1..L /\ LiveOf(s) = {i \in 1..L : s[i].len # 0}
        /\ ShownBy(recs, s) = Picked(a, LiveOf(s))
  <2>1. /\ DocsAt(recs, s) \in Seq(Doc) /\ DOMAIN DocsAt(recs, s) = 1..L
        /\ \A i \in 1..L : DocsAt(recs, s)[i] = DocOf(recs[s[i].at])
        /\ LiveOf(s) \subseteq 1..L /\ LiveOf(s) = {i \in 1..L : s[i].len # 0}
        /\ ShownBy(recs, s) = Picked(DocsAt(recs, s), LiveOf(s))
    BY <1>1, <1>2, LeadsFacts
  <2> QED
    BY <2>1
<1>8. PICK e \in Seq(Doc) :
        /\ DOMAIN e = 1..L
        /\ \A i \in 1..L : e[i] = DocOf(other[t[i].at])
        /\ LiveOf(t) = {i \in 1..L : t[i].len # 0}
        /\ ShownBy(other, t) = Picked(e, LiveOf(t))
  <2>1. /\ DocsAt(other, t) \in Seq(Doc) /\ DOMAIN DocsAt(other, t) = 1..L
        /\ \A i \in 1..L : DocsAt(other, t)[i] = DocOf(other[t[i].at])
        /\ LiveOf(t) = {i \in 1..L : t[i].len # 0}
        /\ ShownBy(other, t) = Picked(DocsAt(other, t), LiveOf(t))
    BY <1>2, <1>4, <1>6, LeadsFacts
  <2> QED
    BY <2>1
<1>9. PICK K : K = LiveOf(s)
  OBVIOUS
<1>10. /\ K \subseteq 1..L /\ pos \in K
       /\ \A i \in K : a[i].id = r.id <=> i = pos
  <2>1. \A i \in K : recs[s[i].at].id = r.id <=> i = pos
    BY <1>3, <1>9 DEF Only
  <2>2. K \subseteq 1..L /\ pos \in K
    BY <1>7, <1>9 DEF Only
  <2>3. \A i \in K : a[i] = DocOf(recs[s[i].at])
    BY <1>7, <2>2
  <2>4. \A q : DocOf(q).id = q.id
    BY DEF DocOf
  <2>5. \A i \in K : a[i].id = recs[s[i].at].id
    BY <2>3, <2>4
  <2> QED
    BY <2>1, <2>2, <2>5
<1>11. /\ K \subseteq Nat /\ IsFiniteSet(K) /\ Cardinality(K) \in Nat
       /\ Picked(a, K) \in Seq(Doc) /\ DOMAIN Picked(a, K) = 1..Cardinality(K)
       /\ \A i \in 1..Cardinality(K) : Nth(K, i) \in K /\ Picked(a, K)[i] = a[Nth(K, i)]
  <2>1. K \subseteq DOMAIN a
    BY <1>7, <1>10
  <2> QED
    BY <2>1, PickedFacts
<1>12. DocsOf(other, c)[n + 1] = ApplyTo(Picked(a, K), r)
  <2>1. \A k \in 0..n : DocsOf(other, c)[k] = DocsOf(recs, c)[k]
    BY <1>2, DocsSame
  <2>2. DocsOf(other, c)[n] = Picked(a, K)
    BY <1>2, <1>7, <1>9, <2>1 DEF Leads
  <2>3. DocsOf(other, c)[n + 1] = ApplyTo(DocsOf(other, c)[n], other[n + 1])
    BY <1>2, <1>3, <1>4, DocsFacts
  <2> QED
    BY <1>3, <2>2, <2>3
<1>13. \A i \in 1..L : i # pos => e[i] = a[i] /\ t[i] = s[i]
  BY <1>4, <1>5, <1>7, <1>8
<1>14. CASE r.op = "replace"
  <2>1. t[pos].at = n + 1 /\ t[pos].len = PayloadLen(r) /\ t[pos].len # 0
    BY <1>4, <1>14
  <2>2. LiveOf(t) = K
    <3>1. \A i \in 1..L : i # pos => (t[i].len # 0 <=> s[i].len # 0)
      BY <1>13
    <3>2. s[pos].len # 0
      BY <1>7, <1>9, <1>10
    <3> QED
      BY <1>5, <1>7, <1>8, <1>9, <2>1, <3>1, <3>2
  <2>3. e[pos] = DocOf(r)
    BY <1>3, <1>5, <1>8, <2>1
  <2>4. ApplyTo(Picked(a, K), r) =
          [i \in 1..Cardinality(K) |-> IF Picked(a, K)[i].id = r.id THEN DocOf(r) ELSE Picked(a, K)[i]]
    BY <1>11, <1>14 DEF ApplyTo
  <2>5. \A i \in 1..Cardinality(K) :
          (IF Picked(a, K)[i].id = r.id THEN DocOf(r) ELSE Picked(a, K)[i]) = e[Nth(K, i)]
    BY <1>10, <1>11, <1>13, <2>3
  <2>6. Picked(e, K) = [i \in 1..Cardinality(K) |-> e[Nth(K, i)]]
    BY DEF Picked
  <2>7. ShownBy(other, t) = DocsOf(other, c)[n + 1]
    <3>1. ApplyTo(Picked(a, K), r) = Picked(e, K)
      BY <2>4, <2>5, <2>6, Zenon
    <3> QED
      BY <1>8, <1>12, <2>2, <3>1
  <2>8. \A i \in LiveOf(t) : t[i].len = PayloadLen(other[t[i].at])
    <3>1. ASSUME NEW i \in K, i # pos PROVE t[i].len = PayloadLen(other[t[i].at])
      <4>1. s[i].len = PayloadLen(recs[s[i].at])
        BY <1>9 DEF Leads
      <4> QED
        BY <1>5, <1>10, <1>13, <3>1, <4>1
    <3>2. t[pos].len = PayloadLen(other[t[pos].at])
      BY <1>3, <2>1
    <3> QED
      BY <2>2, <3>1, <3>2
  <2> QED
    BY <2>7, <2>8 DEF Leads
<1>15. CASE r.op = "delete"
  <2>1. t[pos].at = s[pos].at /\ t[pos].len = 0
    BY <1>4, <1>15
  <2>2. PICK T : T = K \ {pos}
    OBVIOUS
  <2>3. LiveOf(t) = T
    <3>1. \A i \in 1..L : i # pos => (t[i].len # 0 <=> s[i].len # 0)
      BY <1>13
    <3> QED
      BY <1>7, <1>8, <1>9, <2>1, <2>2, <3>1
  <2>4. e = a
    <3>1. e[pos] = a[pos]
      BY <1>5, <1>7, <1>8, <2>1
    <3>2. \A i \in 1..L : e[i] = a[i]
      BY <1>13, <3>1
    <3>3. Len(e) = L /\ Len(a) = L
      BY <1>7, <1>8
    <3> QED
      BY <3>2, <3>3
  <2>5. PICK J : J = {i \in 1..Cardinality(K) : Picked(a, K)[i].id # r.id}
    OBVIOUS
  <2>6. ApplyTo(Picked(a, K), r) = Picked(Picked(a, K), J)
    BY <1>11, <1>15, <2>5 DEF ApplyTo
  <2>7. Numbered(K, J, T)
    <3>1. ASSUME NEW j \in J PROVE Nth(K, j) \in T
      BY <1>10, <1>11, <2>2, <2>5
    <3>2. ASSUME NEW x \in T PROVE \E j \in J : x = Nth(K, j)
      <4>1. Rank(K, x) \in 1..Cardinality(K) /\ Nth(K, Rank(K, x)) = x
        BY <1>11, <2>2, NthFacts
      <4>2. Rank(K, x) \in J
        BY <1>10, <1>11, <2>2, <2>5, <4>1
      <4> QED
        BY <4>1, <4>2
    <3>3. J \subseteq 1..Cardinality(K)
      BY <2>5
    <3> QED
      BY <3>1, <3>2, <3>3 DEF Numbered
  <2>8. Picked(Picked(a, K), J) = Picked(a, T)
    <3>1. K \subseteq DOMAIN a
      BY <1>7, <1>10
    <3> QED
      BY <2>7, <3>1, PickedOfPicked
  <2>9. ShownBy(other, t) = DocsOf(other, c)[n + 1]
    BY <1>8, <1>12, <2>3, <2>4, <2>6, <2>8
  <2>10. \A i \in LiveOf(t) : t[i].len = PayloadLen(other[t[i].at])
    <3>1. ASSUME NEW i \in T PROVE t[i].len = PayloadLen(other[t[i].at])
      <4>1. i \in K /\ i # pos /\ s[i].len = PayloadLen(recs[s[i].at])
        BY <1>9, <2>2 DEF Leads
      <4> QED
        BY <1>5, <1>10, <1>13, <4>1
    <3> QED
      BY <2>3, <3>1
  <2> QED
    BY <2>9, <2>10 DEF Leads
<1> QED
  BY <1>4, <1>14, <1>15

\* The slots in gone are taken out: those that are not marked are those of the
\* documents the m tombstones behind the n-th record are about.
Removal(s, t, recs, other, c, n, m, gone) ==
    /\ t = Picked(s, {i \in DOMAIN s : i \notin gone})
    /\ \A k \in 1..n : other[k] = recs[k]
    /\ \A k \in (n + 1)..(n + m) : other[k].coll = c /\ other[k].op = "delete"
    /\ \A i \in LiveOf(s) :
         i \in gone <=> \E k \in 1..m : recs[s[i].at].id = other[n + k].id

LEMMA DocsLeft ==
    ASSUME NEW recs \in Seq(Record), NEW c, NEW ds, NEW n \in Nat, NEW m \in Nat, NEW J,
           n + m <= Len(recs), ds = DocsOf(recs, c)[n], Takes(recs, c, ds, n, m, J)
    PROVE  DocsOf(recs, c)[n + m] = Picked(ds, J)
<1>1. Takes(recs, c, DocsOf(recs, c)[n], n, m, J)
  OBVIOUS
<1>2. DocsOf(recs, c)[n + m] = Picked(DocsOf(recs, c)[n], J)
  BY <1>1, DocsDropped
<1> QED
  BY <1>2

LEMMA LeadsRemoved ==
    ASSUME NEW recs \in Seq(Record), NEW other \in Seq(Record), NEW c,
           NEW s \in Seq(Slot), NEW t, NEW n \in Nat, NEW m \in Nat, NEW gone,
           n <= Len(recs), n + m <= Len(other),
           Sound(recs, s, c, n), Leads(recs, s, DocsOf(recs, c)[n]),
           Removal(s, t, recs, other, c, n, m, gone)
    PROVE  Leads(other, t, DocsOf(other, c)[n + m])
<1>1. PICK L \in Nat : L = Len(s) /\ DOMAIN s = 1..L
  OBVIOUS
<1>2. /\ Len(recs) \in Nat /\ Len(other) \in Nat /\ n \in 0..Len(recs) /\ n <= Len(other)
      /\ n + m \in 0..Len(other) /\ n \in 0..n /\ \A k \in 1..n : other[k] = recs[k]
  BY DEF Removal
<1>3. PICK D : D = {i \in 1..L : i \notin gone}
  OBVIOUS
<1>4. /\ D \subseteq DOMAIN s /\ D \subseteq Nat /\ IsFiniteSet(D) /\ Cardinality(D) \in Nat
      /\ t = Picked(s, D) /\ t \in Seq(Slot) /\ DOMAIN t = 1..Cardinality(D)
      /\ \A i \in 1..Cardinality(D) : Nth(D, i) \in D /\ t[i] = s[Nth(D, i)]
  <2>1. D \subseteq DOMAIN s /\ t = Picked(s, D)
    BY <1>1, <1>3 DEF Removal
  <2>2. /\ D \subseteq Nat /\ IsFiniteSet(D) /\ Cardinality(D) \in Nat
        /\ Picked(s, D) \in Seq(Slot) /\ DOMAIN Picked(s, D) = 1..Cardinality(D)
        /\ \A i \in 1..Cardinality(D) : Nth(D, i) \in D /\ Picked(s, D)[i] = s[Nth(D, i)]
    BY <2>1, PickedFacts
  <2> QED
    BY <2>1, <2>2
<1>5. \A x \in D : Rank(D, x) \in 1..Cardinality(D) /\ Nth(D, Rank(D, x)) = x
  BY <1>4, NthFacts
<1>6. \A i \in 1..L : /\ s[i].at \in 1..n /\ s[i].at \in 1..(n + m)
                      /\ other[s[i].at] = recs[s[i].at]
                      /\ recs[s[i].at].coll = c /\ recs[s[i].at].op # "delete"
  <2>1. \A i \in 1..L : s[i].at \in 1..n /\ recs[s[i].at].coll = c /\ recs[s[i].at].op # "delete"
    BY <1>1 DEF Sound
  <2>2. \A k \in 1..n : k \in 1..(n + m)
    OBVIOUS
  <2> QED
    BY <1>2, <2>1, <2>2
<1>7. \A i \in 1..Cardinality(D) : Nth(D, i) \in 1..L
  BY <1>1, <1>4
<1>8. Sound(other, t, c, n + m)
  <2>1. ASSUME NEW i \in 1..Cardinality(D)
        PROVE  t[i].at \in 1..(n + m) /\ other[t[i].at].coll = c /\ other[t[i].at].op # "delete"
    <3>1. t[i] = s[Nth(D, i)] /\ Nth(D, i) \in 1..L
      BY <1>4, <1>7
    <3> QED
      BY <1>6, <3>1
  <2> QED
    BY <1>4, <2>1 DEF Sound
<1>9. PICK a \in Seq(Doc) :
        /\ DOMAIN a = 1..L
        /\ \A i \in 1..L : a[i] = DocOf(recs[s[i].at])
        /\ LiveOf(s) \subseteq 1..L /\ LiveOf(s) = {i \in 1..L : s[i].len # 0}
        /\ ShownBy(recs, s) = Picked(a, LiveOf(s))
  <2>1. /\ DocsAt(recs, s) \in Seq(Doc) /\ DOMAIN DocsAt(recs, s) = 1..L
        /\ \A i \in 1..L : DocsAt(recs, s)[i] = DocOf(recs[s[i].at])
        /\ LiveOf(s) \subseteq 1..L /\ LiveOf(s) = {i \in 1..L : s[i].len # 0}
        /\ ShownBy(recs, s) = Picked(DocsAt(recs, s), LiveOf(s))
    BY <1>1, <1>2, LeadsFacts
  <2> QED
    BY <2>1
<1>10. PICK e \in Seq(Doc) :
         /\ DOMAIN e = 1..Cardinality(D)
         /\ \A i \in 1..Cardinality(D) : e[i] = DocOf(other[t[i].at])
         /\ LiveOf(t) \subseteq 1..Cardinality(D)
         /\ LiveOf(t) = {i \in 1..Cardinality(D) : t[i].len # 0}
         /\ ShownBy(other, t) = Picked(e, LiveOf(t))
  <2>1. /\ DocsAt(other, t) \in Seq(Doc) /\ DOMAIN DocsAt(other, t) = 1..Cardinality(D)
        /\ \A i \in 1..Cardinality(D) : DocsAt(other, t)[i] = DocOf(other[t[i].at])
        /\ LiveOf(t) \subseteq 1..Cardinality(D)
        /\ LiveOf(t) = {i \in 1..Cardinality(D) : t[i].len # 0}
        /\ ShownBy(other, t) = Picked(DocsAt(other, t), LiveOf(t))
    BY <1>2, <1>4, <1>8, LeadsFacts
  <2> QED
    BY <2>1
<1>11. PICK K : K = LiveOf(s)
  OBVIOUS
<1>12. PICK T : T = {i \in K : i \notin gone}
  OBVIOUS
<1>13. e = Picked(a, D)
  <2>1. PICK p \in Seq(Doc) : p = Picked(a, D) /\ DOMAIN p = 1..Cardinality(D)
                              /\ \A i \in 1..Cardinality(D) : p[i] = a[Nth(D, i)]
    <3>1. D \subseteq DOMAIN a
      BY <1>1, <1>4, <1>9
    <3> QED
      BY <3>1, PickedFacts
  <2>2. ASSUME NEW i \in 1..Cardinality(D) PROVE e[i] = p[i]
    <3>1. t[i] = s[Nth(D, i)] /\ Nth(D, i) \in 1..L
      BY <1>4, <1>7
    <3>2. e[i] = DocOf(other[s[Nth(D, i)].at]) /\ p[i] = a[Nth(D, i)]
      BY <1>10, <2>1, <3>1
    <3>3. other[s[Nth(D, i)].at] = recs[s[Nth(D, i)].at]
      BY <1>6, <3>1
    <3> QED
      BY <1>9, <3>1, <3>2, <3>3
  <2>3. Len(e) = Cardinality(D) /\ Len(p) = Cardinality(D)
    BY <1>4, <1>10, <2>1
  <2> QED
    BY <1>4, <2>1, <2>2, <2>3
<1>14. Picked(e, LiveOf(t)) = Picked(a, T)
  <2>1. ASSUME NEW j \in LiveOf(t) PROVE Nth(D, j) \in T
    BY <1>3, <1>4, <1>7, <1>9, <1>10, <1>11, <1>12
  <2>2. ASSUME NEW x \in T PROVE \E j \in LiveOf(t) : x = Nth(D, j)
    <3>1. x \in D /\ s[x].len # 0
      BY <1>3, <1>9, <1>11, <1>12
    <3>2. Rank(D, x) \in 1..Cardinality(D) /\ Nth(D, Rank(D, x)) = x
      BY <1>5, <3>1
    <3>3. Rank(D, x) \in LiveOf(t)
      BY <1>4, <1>10, <3>1, <3>2
    <3> QED
      BY <3>2, <3>3
  <2>3. Numbered(D, LiveOf(t), T)
    BY <1>10, <2>1, <2>2 DEF Numbered
  <2>4. D \subseteq DOMAIN a
    BY <1>1, <1>4, <1>9
  <2> QED
    BY <1>13, <2>3, <2>4, PickedOfPicked, SMTT(40)
<1>15. PICK p \in Seq(Doc) :
         /\ p = Picked(a, K) /\ DOMAIN p = 1..Cardinality(K)
         /\ K \subseteq Nat /\ IsFiniteSet(K)
         /\ \A i \in 1..Cardinality(K) : Nth(K, i) \in K /\ p[i] = a[Nth(K, i)]
  <2>1. K \subseteq DOMAIN a
    BY <1>9, <1>11
  <2> QED
    BY <2>1, PickedFacts
<1>16. PICK J : J = {i \in DOMAIN p : \A k \in 1..m : p[i].id # other[n + k].id}
  OBVIOUS
<1>17. DocsOf(other, c)[n + m] = Picked(p, J)
  <2>1. \A k \in 0..n : DocsOf(other, c)[k] = DocsOf(recs, c)[k]
    BY <1>2, DocsSame, SMTT(40)
  <2>2. p = DocsOf(other, c)[n]
    BY <1>2, <1>9, <1>11, <1>15, <2>1 DEF Leads
  <2>3. \A k \in (n + 1)..(n + m) : other[k].coll = c /\ other[k].op = "delete"
    BY DEF Removal
  <2>4. Takes(other, c, p, n, m, J)
    BY <1>16, <2>3 DEF Takes
  <2>5. n + m <= Len(other)
    OBVIOUS
  <2> QED
    BY <2>2, <2>4, <2>5, DocsLeft
<1>18. \A i \in K : i \in T <=> \A k \in 1..m : a[i].id # other[n + k].id
  <2> TAKE i \in K
  <2>1. i \in gone <=> \E k \in 1..m : recs[s[i].at].id = other[n + k].id
    BY <1>11 DEF Removal
  <2>2. a[i].id = recs[s[i].at].id
    BY <1>9, <1>11 DEF DocOf
  <2> QED
    BY <1>12, <2>1, <2>2
<1>19. Numbered(K, J, T)
  <2>1. ASSUME NEW j \in J PROVE Nth(K, j) \in T
    BY <1>15, <1>16, <1>18
  <2>2. ASSUME NEW x \in T PROVE \E j \in J : x = Nth(K, j)
    <3>1. x \in K
      BY <1>12
    <3>2. Rank(K, x) \in 1..Cardinality(K) /\ Nth(K, Rank(K, x)) = x
      BY <1>15, <3>1, NthFacts
    <3>3. PICK q \in 1..Cardinality(K) : q = Rank(K, x) /\ Nth(K, q) = x
      BY <3>2
    <3>4. p[q] = a[x]
      BY <1>15, <3>3
    <3>5. \A k \in 1..m : p[q].id # other[n + k].id
      BY <1>18, <3>1, <3>4
    <3>6. q \in J
      BY <1>15, <1>16, <3>5
    <3> QED
      BY <3>3, <3>6
  <2>3. J \subseteq 1..Cardinality(K)
    BY <1>15, <1>16
  <2> QED
    BY <2>1, <2>2, <2>3 DEF Numbered
<1>20. Picked(p, J) = Picked(a, T)
  <2>1. K \subseteq DOMAIN a
    BY <1>9, <1>11
  <2>2. Picked(Picked(a, K), J) = Picked(a, T)
    BY <1>19, <2>1, PickedOfPicked, SMTT(60)
  <2> QED
    BY <1>15, <2>2
<1>21. ShownBy(other, t) = DocsOf(other, c)[n + m]
  BY <1>10, <1>14, <1>17, <1>20
<1>22. ASSUME NEW i \in LiveOf(t)
       PROVE  t[i].len = PayloadLen(other[t[i].at])
  <2>1. i \in 1..Cardinality(D) /\ t[i] = s[Nth(D, i)] /\ Nth(D, i) \in 1..L /\ t[i].len # 0
    BY <1>4, <1>7, <1>10
  <2>2. Nth(D, i) \in LiveOf(s)
    BY <1>9, <2>1
  <2>3. s[Nth(D, i)].len = PayloadLen(recs[s[Nth(D, i)].at])
    BY <2>2 DEF Leads
  <2> QED
    BY <1>6, <2>1, <2>3
<1> QED
  BY <1>21, <1>22 DEF Leads

-----------------------------------------------------------------------------
\* What becomes of one collection

\* The types the invariant needs.
Types ==
    /\ log \in Seq(Record)
    /\ synced \in 0..Len(log)
    /\ mode \in {"open", "replay", "down", "corrupt"}
    /\ at \in 0..Len(log)
    /\ slots \in [Coll -> Seq(Slot)]
    /\ built \in [Coll -> BOOLEAN]
    /\ dirty \in [Coll -> BOOLEAN]
    /\ ids = [c \in Coll |-> ids[c]]

LEMMA UptoType ==
    ASSUME Types
    PROVE  Len(log) \in Nat /\ Upto \in 0..Len(log)
BY DEF Types, Upto

LEMMA RecordType ==
    ASSUME NEW r \in Record
    PROVE  r.coll \in Coll /\ r.id \in Id
BY DEF Record

LEMMA SlotFacts ==
    ASSUME Types, NEW c \in Coll, SlotInv(c)
    PROVE  /\ Len(slots[c]) \in Nat /\ DOMAIN slots[c] = 1..Len(slots[c])
           /\ \A i \in DOMAIN slots[c] :
                /\ slots[c][i].at \in 1..Upto /\ slots[c][i].at \in Nat
                /\ At(c, i) = log[slots[c][i].at] /\ At(c, i).id \in Id
                /\ At(c, i).coll = c /\ At(c, i).op # "delete"
           /\ Marks(c) = {i \in DOMAIN slots[c] : slots[c][i].len = 0}
<1>1. slots[c] \in Seq(Slot)
  BY DEF Types
<1>2. Upto \in 0..Len(log) /\ Len(log) \in Nat
  BY UptoType
<1>3. ASSUME NEW i \in DOMAIN slots[c]
      PROVE  slots[c][i].at \in 1..Upto /\ slots[c][i].at \in Nat /\ At(c, i).id \in Id
  <2>1. slots[c][i].at \in 1..Upto
    BY DEF SlotInv
  <2>2. slots[c][i].at \in 1..Len(log)
    BY <1>2, <2>1
  <2>3. At(c, i) \in Record
    BY <2>2 DEF Types, At
  <2> QED
    BY <1>2, <2>1, <2>3, RecordType
<1> QED
  BY <1>1, <1>3 DEF SlotInv, At, Marks, Marked

\* The index of a collection, before and after a step, in the terms above.
LEMMA FoldIsLeads ==
    ASSUME NEW c \in Coll, SlotInv(c)
    PROVE  /\ Sound(log, slots[c], c, Upto)
           /\ LiveOf(slots[c]) = DOMAIN slots[c] \ Marks(c)
           /\ FoldInv(c) <=> Leads(log, slots[c], DocsOf(log, c)[Upto])
<1>1. Sound(log, slots[c], c, Upto)
  BY DEF SlotInv, Sound, At
<1>2. LiveOf(slots[c]) = DOMAIN slots[c] \ Marks(c)
  BY DEF LiveOf, Marks
<1>3. LiveSlots(c) = Picked(slots[c], LiveOf(slots[c]))
  BY Zenon DEF LiveSlots, LiveOf, Marks
<1>4. Shown(c) = ShownBy(log, slots[c])
  BY <1>3, Zenon DEF Shown, ShownBy
<1>5. \A i : At(c, i) = log[slots[c][i].at]
  BY DEF At
<1> QED
  BY <1>1, <1>2, <1>4, <1>5 DEF FoldInv, Leads, DocsAfter

LEMMA FoldIsLeadsNext ==
    ASSUME NEW c \in Coll, SlotInv(c)'
    PROVE  /\ Sound(log', slots'[c], c, Upto')
           /\ LiveOf(slots'[c]) = DOMAIN slots'[c] \ Marks(c)'
           /\ FoldInv(c)' <=> Leads(log', slots'[c], DocsOf(log', c)[Upto'])
<1>1. Sound(log', slots'[c], c, Upto')
  BY DEF SlotInv, Sound, At
<1>2. LiveOf(slots'[c]) = DOMAIN slots'[c] \ Marks(c)'
  BY DEF LiveOf, Marks
<1>3. LiveSlots(c)' = Picked(slots'[c], LiveOf(slots'[c]))
  BY Zenon DEF LiveSlots, LiveOf, Marks, Picked, Nth, Rank, Marked
<1>4. Shown(c)' = ShownBy(log', slots'[c])
  BY <1>3, Zenon DEF Shown, ShownBy, DocOf
<1>5. \A i : At(c, i)' = log'[slots'[c][i].at]
  BY DEF At
<1>6. DocsAfter(c, Upto)' = DocsOf(log', c)[Upto']
  BY DEF DocsAfter
<1> QED
  BY <1>1, <1>2, <1>4, <1>5, <1>6 DEF FoldInv, Leads

LEMMA TableIsRows ==
    ASSUME NEW c \in Coll, RowsInv(c)
    PROVE  Table(c) = RowsOf(c)
BY DEF RowsInv, Table

\* Nothing in memory, nothing applied.
LEMMA CollStarts ==
    ASSUME Types', NEW c \in Coll, slots'[c] = <<>>, ~built'[c], Upto' = 0
    PROVE  CollInv(c)'
<1>1. DOMAIN slots'[c] = {}
  OBVIOUS
<1>2. SlotInv(c)' /\ RowsInv(c)'
  BY <1>1 DEF SlotInv, RowsInv
<1>3. HoldsInv(c)'
  BY <1>1, AliveNone DEF HoldsInv
<1>4. OrderInv(c)'
  BY <1>1 DEF OrderInv, Marks, Inserts
<1>5. FoldInv(c)'
  <2>1. log' \in Seq(Record)
    BY DEF Types
  <2>2. DocsOf(log', c)[0] = <<>>
    BY <2>1, DocsFacts
  <2>3. Leads(log', slots'[c], DocsOf(log', c)[Upto'])
    BY <2>2, LeadsNowhere
  <2> QED
    BY <1>2, <2>3, FoldIsLeadsNext
<1> QED
  BY <1>2, <1>3, <1>4, <1>5 DEF CollInv

\* What is there in front of new records stays.
LEMMA KeptAlive ==
    ASSUME Types, NEW c, NEW i, \A k \in 1..Upto : log'[k] = log[k]
    PROVE  Alive(log', c, i, Upto) <=> Alive(log, c, i, Upto)
BY UptoType, AliveSame

\* New records are about other collections, or there are none; the table may have
\* been built.
LEMMA CollUntouched ==
    ASSUME Types, Types', NEW c \in Coll, CollInv(c),
           slots'[c] = slots[c], dirty'[c] = dirty[c],
           built'[c] => ids'[c] = Table(c),
           Upto <= Upto', \A k \in 1..Upto : log'[k] = log[k],
           \A k \in (Upto + 1)..Upto' : log'[k].coll # c
    PROVE  CollInv(c)'
<1> USE DEF CollInv
<1>1. PICK n \in Nat : n = Upto
  BY UptoType
<1>2. PICK m \in Nat : m = Upto'
  <2>1. Len(log') \in Nat /\ Upto' \in 0..Len(log')
    BY DEF Types, Upto
  <2> QED
    BY <2>1
<1>3. /\ Len(slots[c]) \in Nat /\ DOMAIN slots[c] = 1..Len(slots[c])
      /\ \A i \in DOMAIN slots[c] :
           /\ slots[c][i].at \in 1..n
           /\ At(c, i) = log[slots[c][i].at]
           /\ At(c, i).coll = c /\ At(c, i).op # "delete"
      /\ Marks(c) = {i \in DOMAIN slots[c] : slots[c][i].len = 0}
  BY <1>1, SlotFacts
<1>4. DOMAIN slots'[c] = DOMAIN slots[c] /\ Marks(c)' = Marks(c)
  BY <1>3 DEF Marks, Marked
<1>5. \A i \in DOMAIN slots[c] : At(c, i)' = At(c, i)
  BY <1>1, <1>3 DEF At
<1>6. SlotInv(c)'
  BY <1>1, <1>2, <1>3, <1>4, <1>5 DEF SlotInv
<1>7. \A i : Alive(log', c, i, m) <=> Alive(log, c, i, n)
  <2> TAKE i
  <2>1. \A j \in (n + 1)..m : ~About(log'[j], c, i)
    BY <1>1, <1>2 DEF About
  <2>2. Alive(log', c, i, m) <=> Alive(log', c, i, n)
    BY <1>1, <1>2, <2>1, AliveStill
  <2> QED
    BY <1>1, <2>2, KeptAlive
<1>8. HoldsInv(c)'
  BY <1>1, <1>2, <1>4, <1>5, <1>7 DEF HoldsInv
<1>9. RowsOf(c)' = RowsOf(c)
  BY <1>4, <1>5 DEF RowsOf
<1>10. RowsInv(c)'
  BY <1>9, TableIsRows DEF RowsInv
<1>11. Inserts(c, Upto)' = Inserts(c, Upto)
  <2>1. \A k \in 1..m : k \in 1..n \/ k \in (n + 1)..m
    BY <1>1, <1>2
  <2> QED
    BY <1>1, <1>2, <2>1 DEF Inserts
<1>12. OrderInv(c)'
  BY <1>4, <1>11 DEF OrderInv
<1>13. FoldInv(c)'
  <2>1. /\ log \in Seq(Record) /\ log' \in Seq(Record) /\ slots[c] \in Seq(Slot)
        /\ n \in 0..Len(log) /\ m \in 0..Len(log')
    BY <1>1, <1>2, UptoType DEF Types, Upto
  <2>2. Sound(log, slots[c], c, n) /\ Leads(log, slots[c], DocsOf(log, c)[n])
    BY <1>1, FoldIsLeads
  <2>3. PICK k \in Nat : k = m - n /\ n + k = m
    <3>1. n <= m
      BY <1>1, <1>2, Zenon
    <3>2. m - n \in Nat /\ n + (m - n) = m
      BY <3>1
    <3> QED
      BY <3>2
  <2>4. n + k <= Len(log')
    BY <2>1, <2>3
  <2>5. /\ \A i \in 1..n : log'[i] = log[i]
        /\ \A i \in (n + 1)..(n + k) : log'[i].coll # c
    BY <1>1, <1>2, <2>3
  <2>6. Leads(log', slots[c], DocsOf(log', c)[n + k])
    BY <2>1, <2>2, <2>4, <2>5, LeadsStill
  <2> QED
    BY <1>2, <1>6, <2>3, <2>6, FoldIsLeadsNext
<1> QED
  BY <1>6, <1>8, <1>10, <1>12, <1>13

\* New documents: m records of inserts, and slots and rows that follow them.
Grown(c, m) ==
    LET L == Len(slots[c])
    IN  /\ Upto' = Upto + m
        /\ \A k \in 1..Upto : log'[k] = log[k]
        /\ \A k \in (Upto + 1)..(Upto + m) :
             /\ log'[k].coll = c /\ log'[k].op = "insert"
             /\ ~Alive(log, c, log'[k].id, Upto)
        /\ \A j, k \in (Upto + 1)..(Upto + m) : log'[j].id = log'[k].id => j = k
        /\ Len(slots'[c]) = L + m
        /\ \A i \in 1..L : slots'[c][i] = slots[c][i]
        /\ \A i \in (L + 1)..(L + m) :
             /\ slots'[c][i].at = Upto + (i - L)
             /\ slots'[c][i].len = PayloadLen(log'[Upto + (i - L)]) /\ slots'[c][i].len # 0
        /\ dirty'[c] = dirty[c]
        /\ built'[c] => ids'[c] = Table(c) \cup
             {[fp |-> Fp[log'[Upto + (i - L)].id], pos |-> i] : i \in (L + 1)..(L + m)}

LEMMA CollGrows ==
    ASSUME Types, Types', NEW c \in Coll, CollInv(c), NEW m \in Nat, Grown(c, m)
    PROVE  CollInv(c)'
<1> USE DEF CollInv
<1>1. PICK n \in Nat : n = Upto
  BY UptoType
<1>2. PICK L \in Nat : L = Len(slots[c])
  BY SlotFacts
<1> DEFINE New == (L + 1)..(L + m)
           Recs == (n + 1)..(n + m)
<1>3. /\ DOMAIN slots[c] = 1..L
      /\ \A i \in 1..L :
           /\ slots[c][i].at \in 1..n
           /\ At(c, i) = log[slots[c][i].at] /\ At(c, i).id \in Id
           /\ At(c, i).coll = c /\ At(c, i).op # "delete"
      /\ Marks(c) = {i \in 1..L : slots[c][i].len = 0}
  BY <1>1, <1>2, SlotFacts
<1>4. DOMAIN slots'[c] = 1..(L + m) /\ Upto' = n + m /\ n + m \in Nat
  BY <1>1, <1>2 DEF Types, Grown
<1>5. 1..(L + m) = 1..L \cup New /\ \A i \in New : i \notin 1..L
  OBVIOUS
<1>6. \A i \in 1..L : slots'[c][i] = slots[c][i] /\ At(c, i)' = At(c, i)
  BY <1>1, <1>2, <1>3 DEF At, Grown
<1>7. \A i \in New : /\ slots'[c][i].at = n + (i - L) /\ slots'[c][i].len # 0
                     /\ At(c, i)' = log'[n + (i - L)]
                     /\ n + (i - L) \in Recs
  <2>1. \A i \in New : slots'[c][i].at = n + (i - L) /\ slots'[c][i].len # 0
    BY <1>1, <1>2 DEF Grown
  <2>2. \A i \in New : n + (i - L) \in Recs
    OBVIOUS
  <2>3. \A i \in New : At(c, i)' = log'[n + (i - L)]
    BY <2>1 DEF At
  <2> QED
    BY <2>1, <2>2, <2>3
<1>8. \A k \in Recs : /\ log'[k].coll = c /\ log'[k].op = "insert"
                      /\ ~Alive(log, c, log'[k].id, n)
  BY <1>1 DEF Grown
<1>9. \A j, k \in Recs : log'[j].id = log'[k].id => j = k
  BY <1>1 DEF Grown
<1>10. \A k \in Recs : L + (k - n) \in New /\ slots'[c][L + (k - n)].at = k
                         /\ At(c, L + (k - n))' = log'[k]
  <2> TAKE k \in Recs
  <2>1. L + (k - n) \in New /\ n + ((L + (k - n)) - L) = k
    OBVIOUS
  <2> QED
    BY <1>7, <2>1
<1>11. \A k \in Recs : \E i \in New : slots'[c][i].at = k /\ At(c, i)' = log'[k]
  BY <1>10
<1>12. \A i, j \in New : /\ i # j => n + (i - L) # n + (j - L)
                         /\ i < j => n + (i - L) < n + (j - L)
  OBVIOUS
<1>13. \A i \in 1..L, j \in New : i < j /\ \A k \in 1..n : k < n + (j - L)
  OBVIOUS
<1>14. 1..(n + m) = 1..n \cup Recs /\ \A k \in Recs : k \notin 1..n
  OBVIOUS
<1>15. \A k \in 1..n : log'[k] = log[k]
  BY <1>1 DEF Grown
<1>16. \A k \in Recs : log'[k].id \in Id
  <2> TAKE k \in Recs
  <2>1. k \in 1..Len(log')
    <3>1. n + m \in 0..Len(log') /\ Len(log') \in Nat
      BY <1>4, SMTT(40) DEF Types, Upto
    <3> QED
      BY <3>1
  <2>2. log'[k] \in Record
    BY <2>1 DEF Types
  <2> QED
    BY <2>2, RecordType
<1>17. /\ dirty'[c] = dirty[c]
       /\ built'[c] => ids'[c] = Table(c) \cup
            {[fp |-> Fp[log'[n + (i - L)].id], pos |-> i] : i \in New}
  <2>1. dirty'[c] = dirty[c]
    BY DEF Grown
  <2>2. built'[c] => ids'[c] = Table(c) \cup
          {[fp |-> Fp[log'[Upto + (i - Len(slots[c]))].id], pos |-> i] :
             i \in (Len(slots[c]) + 1)..(Len(slots[c]) + m)}
    BY Zenon DEF Grown
  <2> QED
    BY <1>1, <1>2, <2>1, <2>2, Zenon
<1>18. \A i \in Id : Alive(log', c, i, n + m) <=>
          (Alive(log, c, i, n) \/ \E k \in Recs : log'[k].id = i)
  <2> TAKE i \in Id
  <2>1. CASE \E k \in Recs : log'[k].id = i
    <3>1. PICK k \in Recs : log'[k].id = i
      BY <2>1
    <3>2. k \in 1..(n + m) /\ About(log'[k], c, i) /\ log'[k].op # "delete"
      BY <1>8, <1>14, <3>1 DEF About
    <3>3. \A j \in (k + 1)..(n + m) : j \in Recs /\ j # k
      OBVIOUS
    <3>4. \A j \in (k + 1)..(n + m) : ~About(log'[j], c, i)
      BY <1>9, <3>1, <3>3 DEF About
    <3>5. Alive(log', c, i, n + m)
      BY <1>4, <3>2, <3>4, AliveLast
    <3> QED
      BY <2>1, <3>5
  <2>2. CASE ~ \E k \in Recs : log'[k].id = i
    <3>1. \A j \in (n + 1)..(n + m) : ~About(log'[j], c, i)
      BY <2>2 DEF About
    <3>2. n + m \in Nat /\ n <= n + m
      OBVIOUS
    <3>3. Alive(log', c, i, n + m) <=> Alive(log', c, i, n)
      BY <3>1, <3>2, AliveStill
    <3>4. Alive(log', c, i, n) <=> Alive(log, c, i, n)
      BY <1>15, AliveSame
    <3> QED
      BY <2>2, <3>3, <3>4
  <2> QED
    BY <2>1, <2>2
<1> HIDE DEF New, Recs
<1>19. Marks(c)' = Marks(c)
  BY <1>3, <1>4, <1>5, <1>6, <1>7 DEF Marks, Marked
<1>20. \A i \in 1..L : slots'[c][i].at \in 1..(n + m)
  BY <1>3, <1>6, <1>14
<1>21. \A i \in New : slots'[c][i].at \in 1..(n + m)
  BY <1>7, <1>14
<1>22. SlotInv(c)'
  <2>1. \A i \in 1..L : (At(c, i)').coll = c /\ (At(c, i)').op # "delete"
    BY <1>3, <1>6
  <2>2. \A i \in New : (At(c, i)').coll = c /\ (At(c, i)').op # "delete"
    BY <1>7, <1>8
  <2> QED
    BY <1>4, <1>5, <1>20, <1>21, <2>1, <2>2 DEF SlotInv
<1>23. HoldsInv(c)'
  <2> DEFINE live == 1..L \ Marks(c)
  <2>1. DOMAIN slots'[c] \ Marks(c)' = live \cup New
    BY <1>3, <1>4, <1>5, <1>19
  <2>2. \A i \in Id : Alive(log, c, i, n) <=> \E k \in live : At(c, k).id = i
    BY <1>1, <1>3 DEF HoldsInv
  <2>3. \A i, j \in live : At(c, i).id = At(c, j).id => i = j
    BY <1>3 DEF HoldsInv
  <2>4. \A i \in live : At(c, i)' = At(c, i) /\ At(c, i).id \in Id
    BY <1>3, <1>6
  <2> HIDE DEF live
  <2>5. \A i \in Id : Alive(log', c, i, n + m) <=> \E k \in live \cup New : (At(c, k)').id = i
    <3> TAKE i \in Id
    <3>1. (\E k \in live : (At(c, k)').id = i) <=> Alive(log, c, i, n)
      BY <2>2, <2>4
    <3>2. (\E k \in New : (At(c, k)').id = i) <=> \E k \in Recs : log'[k].id = i
      BY <1>7, <1>11
    <3> QED
      BY <1>18, <3>1, <3>2
  <2>6. \A i, j \in live \cup New : (At(c, i)').id = (At(c, j)').id => i = j
    <3>1. \A i \in live : Alive(log, c, (At(c, i)').id, n)
      BY <2>2, <2>4
    <3>2. \A i \in New : ~Alive(log, c, (At(c, i)').id, n)
      BY <1>7, <1>8
    <3>3. \A i, j \in live : (At(c, i)').id = (At(c, j)').id => i = j
      BY <2>3, <2>4
    <3>4. \A i, j \in New : (At(c, i)').id = (At(c, j)').id => i = j
      BY <1>7, <1>9, <1>12
    <3> QED
      BY <3>1, <3>2, <3>3, <3>4
  <2> QED
    BY <1>4, <2>1, <2>5, <2>6 DEF HoldsInv
<1>24. RowsInv(c)'
  <2>1. RowsOf(c)' = {[fp |-> Fp[(At(c, i)').id], pos |-> i] : i \in 1..L \cup New}
    BY <1>4, <1>5 DEF RowsOf
  <2>2. RowsOf(c) = {[fp |-> Fp[(At(c, i)').id], pos |-> i] : i \in 1..L}
    BY <1>3, <1>6 DEF RowsOf
  <2>3. {[fp |-> Fp[log'[n + (i - L)].id], pos |-> i] : i \in New}
          = {[fp |-> Fp[(At(c, i)').id], pos |-> i] : i \in New}
    BY <1>7
  <2>4. RowsOf(c)' = RowsOf(c) \cup {[fp |-> Fp[log'[n + (i - L)].id], pos |-> i] : i \in New}
    BY <2>1, <2>2, <2>3
  <2> QED
    BY <1>17, <2>4, TableIsRows DEF RowsInv
<1>25. OrderInv(c)'
  <2> SUFFICES ASSUME ~dirty[c] PROVE OrderInv(c)'
    BY <1>17 DEF OrderInv
  <2>1. /\ Marks(c) = {}
        /\ {slots[c][i].at : i \in 1..L} = Inserts(c, n)
        /\ \A i, j \in 1..L : i < j => slots[c][i].at < slots[c][j].at
    BY <1>1, <1>3 DEF OrderInv
  <2>2. {slots'[c][i].at : i \in 1..L \cup New} = {slots[c][i].at : i \in 1..L} \cup Recs
    <3>1. {slots'[c][i].at : i \in 1..L} = {slots[c][i].at : i \in 1..L}
      BY <1>6
    <3>2. {slots'[c][i].at : i \in New} = Recs
      BY <1>7, <1>11
    <3>3. {slots'[c][i].at : i \in 1..L \cup New}
            = {slots'[c][i].at : i \in 1..L} \cup {slots'[c][i].at : i \in New}
      OBVIOUS
    <3> QED
      BY <3>1, <3>2, <3>3
  <2>3. Inserts(c, Upto)' = Inserts(c, n) \cup Recs
    BY <1>4, <1>8, <1>14, <1>15 DEF Inserts
  <2>4. \A i, j \in 1..L \cup New : i < j => slots'[c][i].at < slots'[c][j].at
    <3>1. \A i, j \in 1..L : i < j => slots'[c][i].at < slots'[c][j].at
      BY <1>6, <2>1
    <3>2. \A i, j \in New : i < j => slots'[c][i].at < slots'[c][j].at
      BY <1>7, <1>12
    <3>3. \A i \in 1..L, j \in New : slots'[c][i].at < slots'[c][j].at
      BY <1>3, <1>6, <1>7, <1>13
    <3>4. \A i \in New, j \in 1..L : ~(i < j)
      BY DEF New
    <3> QED
      BY <3>1, <3>2, <3>3, <3>4
  <2> QED
    BY <1>4, <1>5, <1>19, <2>1, <2>2, <2>3, <2>4 DEF OrderInv
<1>26. FoldInv(c)'
  <2>1. /\ log \in Seq(Record) /\ log' \in Seq(Record)
        /\ slots[c] \in Seq(Slot) /\ slots'[c] \in Seq(Slot)
        /\ n \in 0..Len(log) /\ n + m \in 0..Len(log')
    BY <1>1, <1>4, UptoType, SMTT(40) DEF Types, Upto
  <2>2. Sound(log, slots[c], c, n) /\ Leads(log, slots[c], DocsOf(log, c)[n])
    BY <1>1, FoldIsLeads
  <2>3. n + m <= Len(log')
    BY <2>1
  <2>4. GrowsBy(slots[c], slots'[c], log', c, n, m)
    BY <1>1 DEF Grown, GrowsBy
  <2>5. Leads(log', slots'[c], DocsOf(log', c)[n + m])
    BY <1>15, <2>1, <2>2, <2>3, <2>4, LeadsFurther
  <2> QED
    BY <1>4, <1>22, <2>5, FoldIsLeadsNext
<1> QED
  BY <1>22, <1>23, <1>24, <1>25, <1>26

\* A record that supersedes the document at pos.
Supersedes(c, pos) ==
    /\ Upto' = Upto + 1
    /\ \A k \in 1..Upto : log'[k] = log[k]
    /\ About(log'[Upto + 1], c, At(c, pos).id)
    /\ DOMAIN slots'[c] = DOMAIN slots[c]
    /\ \A i \in DOMAIN slots[c] \ {pos} : slots'[c][i] = slots[c][i]
    /\ dirty'[c]
    /\ built'[c] => ids'[c] = Table(c)

\* It takes the place of the document, or leaves its slot marked.
Repointed(c, pos) ==
    /\ log'[Upto + 1].op = "replace"
    /\ slots'[c][pos].at = Upto + 1
    /\ slots'[c][pos].len = PayloadLen(log'[Upto + 1]) /\ slots'[c][pos].len # 0

MarkedNow(c, pos) ==
    /\ log'[Upto + 1].op = "delete"
    /\ slots'[c][pos].at = slots[c][pos].at /\ slots'[c][pos].len = 0

LEMMA CollSupersedes ==
    ASSUME Types, Types', NEW c \in Coll, CollInv(c), NEW pos \in DOMAIN slots[c] \ Marks(c),
           Supersedes(c, pos), Repointed(c, pos) \/ MarkedNow(c, pos)
    PROVE  CollInv(c)'
<1> USE DEF CollInv
<1>1. PICK n \in Nat : n = Upto
  BY UptoType
<1>2. PICK p \in Id : p = At(c, pos).id
  BY SlotFacts
<1> DEFINE dom == DOMAIN slots[c]
<1>3. /\ \A i \in dom :
           /\ slots[c][i].at \in 1..n
           /\ At(c, i) = log[slots[c][i].at]
           /\ At(c, i).coll = c /\ At(c, i).op # "delete"
      /\ Marks(c) = {i \in dom : slots[c][i].len = 0}
  BY <1>1, SlotFacts
<1>4. /\ Upto' = n + 1 /\ \A k \in 1..n : log'[k] = log[k]
      /\ DOMAIN slots'[c] = dom
      /\ \A i \in dom \ {pos} : slots'[c][i] = slots[c][i]
      /\ log'[n + 1].coll = c /\ log'[n + 1].id = p
  BY <1>1, <1>2 DEF Supersedes, About
<1>5. /\ dirty'[c]
      /\ built'[c] => ids'[c] = Table(c)
  BY DEF Supersedes
<1>6. \A i \in dom \ {pos} : At(c, i)' = At(c, i)
  BY <1>3, <1>4 DEF At
<1>7. \/ /\ slots'[c][pos].at = n + 1 /\ slots'[c][pos].len # 0
         /\ log'[n + 1].op = "replace" /\ At(c, pos)' = log'[n + 1]
      \/ /\ slots'[c][pos].at = slots[c][pos].at /\ slots'[c][pos].len = 0
         /\ log'[n + 1].op = "delete" /\ At(c, pos)' = At(c, pos)
  <2>1. CASE Repointed(c, pos)
    <3>1. slots'[c][pos].at = n + 1 /\ slots'[c][pos].len # 0 /\ log'[n + 1].op = "replace"
      BY <1>1, <2>1 DEF Repointed
    <3> QED
      BY <3>1 DEF At
  <2>2. CASE MarkedNow(c, pos)
    <3>1. slots'[c][pos].at = slots[c][pos].at /\ slots'[c][pos].len = 0 /\ log'[n + 1].op = "delete"
      BY <1>1, <2>2 DEF MarkedNow
    <3>2. At(c, pos)' = At(c, pos)
      BY <1>3, <1>4, <3>1 DEF At
    <3> QED
      BY <3>1, <3>2
  <2> QED
    BY <2>1, <2>2
<1>8. pos \in dom /\ slots[c][pos].len # 0
  BY <1>3
<1>9. \A i \in dom : (At(c, i)').id = At(c, i).id
  BY <1>2, <1>4, <1>6, <1>7
<1>10. DOMAIN slots'[c] \ Marks(c)' =
         (dom \ Marks(c)) \ (IF log'[n + 1].op = "delete" THEN {pos} ELSE {})
  <2>1. Marks(c)' = {i \in dom : slots'[c][i].len = 0}
    BY <1>4 DEF Marks, Marked
  <2> QED
    BY <1>3, <1>4, <1>7, <1>8, <2>1
<1>11. SlotInv(c)'
  <2>1. \A i \in dom \ {pos} : slots'[c][i].at \in 1..(n + 1)
    BY <1>3, <1>4
  <2>2. slots'[c][pos].at \in 1..(n + 1)
    BY <1>3, <1>7, <1>8
  <2> QED
    BY <1>3, <1>4, <1>6, <1>7, <1>8, <2>1, <2>2 DEF SlotInv
<1>12. \A i \in Id : Alive(log', c, i, n + 1) <=>
          IF i = p THEN log'[n + 1].op # "delete" ELSE Alive(log, c, i, n)
  <2> TAKE i \in Id
  <2>1. CASE i = p
    <3>1. About(log'[n + 1], c, i)
      BY <1>4, <2>1 DEF About
    <3>2. n + 1 \in 1..(n + 1) /\ n + 1 \in Nat /\ \A j \in (n + 1 + 1)..(n + 1) : FALSE
      OBVIOUS
    <3>3. Alive(log', c, i, n + 1) <=> log'[n + 1].op # "delete"
      BY <3>1, <3>2, AliveLast
    <3> QED
      BY <2>1, <3>3
  <2>2. CASE i # p
    <3>1. \A j \in (n + 1)..(n + 1) : ~About(log'[j], c, i)
      BY <1>4, <2>2 DEF About
    <3>2. Alive(log', c, i, n + 1) <=> Alive(log', c, i, n)
      BY <3>1, AliveStill
    <3>3. Alive(log', c, i, n) <=> Alive(log, c, i, n)
      BY <1>4, AliveSame, ZenonT(40)
    <3> QED
      BY <2>2, <3>2, <3>3
  <2> QED
    BY <2>1, <2>2
<1>13. HoldsInv(c)'
  <2> DEFINE live == dom \ Marks(c)
  <2>1. \A i \in Id : Alive(log, c, i, n) <=> \E k \in live : At(c, k).id = i
    BY <1>1 DEF HoldsInv
  <2>2. \A i, j \in live : At(c, i).id = At(c, j).id => i = j
    BY DEF HoldsInv
  <2> DEFINE left == live \ (IF log'[n + 1].op = "delete" THEN {pos} ELSE {})
  <2>3. \A i, j \in left : (At(c, i)').id = (At(c, j)').id => i = j
    BY <1>9, <2>2
  <2>4. \A i \in Id : Alive(log', c, i, n + 1) <=> \E k \in left : (At(c, k)').id = i
    <3> TAKE i \in Id
    <3>1. CASE i = p
      <4>1. CASE log'[n + 1].op = "delete"
        BY <1>2, <1>9, <1>12, <2>2, <3>1, <4>1
      <4>2. CASE log'[n + 1].op # "delete"
        BY <1>2, <1>9, <1>12, <3>1, <4>2
      <4> QED
        BY <4>1, <4>2
    <3>2. CASE i # p
      BY <1>2, <1>9, <1>12, <2>1, <3>2
    <3> QED
      BY <3>1, <3>2
  <2> HIDE DEF left, live
  <2>5. DOMAIN slots'[c] \ Marks(c)' = left
    BY <1>10 DEF left, live
  <2> QED
    BY <1>4, <2>3, <2>4, <2>5 DEF HoldsInv
<1>14. RowsOf(c)' = RowsOf(c)
  BY <1>4, <1>9 DEF RowsOf
<1>15. RowsInv(c)'
  BY <1>5, <1>14, TableIsRows DEF RowsInv
<1>16. OrderInv(c)'
  BY <1>5 DEF OrderInv
<1>17. FoldInv(c)'
  <2>1. /\ log \in Seq(Record) /\ log' \in Seq(Record)
        /\ slots[c] \in Seq(Slot) /\ slots'[c] \in Seq(Slot)
        /\ n <= Len(log) /\ n + 1 <= Len(log')
    BY <1>1, <1>4, UptoType DEF Types, Upto
  <2>2. /\ Sound(log, slots[c], c, n) /\ Leads(log, slots[c], DocsOf(log, c)[n])
        /\ LiveOf(slots[c]) = dom \ Marks(c)
    BY <1>1, FoldIsLeads
  <2>3. Supersedence(slots[c], slots'[c], log', c, n, pos)
    BY <1>1, <1>4 DEF Supersedence, Repointed, MarkedNow
  <2>4. Only(log, slots[c], pos, log'[n + 1].id)
    <3>1. \A i \in dom \ Marks(c) : At(c, i).id = p <=> i = pos
      BY <1>2 DEF HoldsInv
    <3> QED
      BY <1>4, <2>2, <3>1 DEF Only, At
  <2>5. Leads(log', slots'[c], DocsOf(log', c)[n + 1])
    BY <1>4, <2>1, <2>2, <2>3, <2>4, LeadsSuperseded
  <2> QED
    BY <1>4, <1>11, <2>5, FoldIsLeadsNext
<1> QED
  BY <1>11, <1>13, <1>15, <1>16, <1>17

\* The slots in gone come out, marked ones or those of documents that are no
\* longer there.
Removes(c, gone) ==
    /\ slots'[c] = Removed(c, gone)
    /\ built'[c] => built[c] /\ ids'[c] = Remapped(c, gone)
    /\ Upto <= Upto'
    /\ \A k \in 1..Upto : log'[k] = log[k]
    /\ \A i \in Id : Alive(log', c, i, Upto') <=>
         (Alive(log, c, i, Upto) /\ \A g \in gone \ Marks(c) : At(c, g).id # i)
    /\ \A k \in (Upto + 1)..Upto' : log'[k].coll = c /\ log'[k].op = "delete"
    /\ \A i \in DOMAIN slots[c] \ Marks(c) :
         i \in gone <=> \E k \in 1..(Upto' - Upto) : At(c, i).id = log'[Upto + k].id
    /\ ~dirty'[c] => ~dirty[c] /\ gone = {} /\ Upto' = Upto

LEMMA CollRemoves ==
    ASSUME Types, Types', NEW c \in Coll, CollInv(c), NEW gone, gone \subseteq DOMAIN slots[c],
           Removes(c, gone)
    PROVE  CollInv(c)'
<1> USE DEF CollInv
<1>1. PICK n \in Nat : n = Upto
  BY UptoType
<1>2. PICK m \in Nat : m = Upto'
  <2>1. Len(log') \in Nat /\ Upto' \in 0..Len(log')
    BY DEF Types, Upto
  <2> QED
    BY <2>1
<1> DEFINE dom == DOMAIN slots[c]
<1>3. /\ Len(slots[c]) \in Nat /\ dom = 1..Len(slots[c])
      /\ \A i \in dom :
           /\ slots[c][i].at \in 1..n
           /\ At(c, i) = log[slots[c][i].at]
           /\ At(c, i).coll = c /\ At(c, i).op # "delete"
      /\ Marks(c) = {i \in dom : slots[c][i].len = 0}
  BY <1>1, SlotFacts
<1>4. n <= m /\ \A k \in 1..n : log'[k] = log[k]
  BY <1>1, <1>2 DEF Removes
<1>5. PICK K : K = Kept(c, gone)
  OBVIOUS
<1>6. K = dom \ gone /\ K \subseteq Nat /\ IsFiniteSet(K)
  <2>1. K = dom \ gone
    BY <1>5 DEF Kept
  <2>2. IsFiniteSet(dom)
    BY <1>3, FS_Interval
  <2> QED
    BY <1>3, <2>1, <2>2, FS_Subset
<1>7. PICK N \in Nat : N = Cardinality(K)
  BY <1>6, FS_CardinalityType
<1>8. /\ \A j \in 1..N : Nth(K, j) \in K /\ Rank(K, Nth(K, j)) = j
      /\ \A x \in K : Rank(K, x) \in 1..N /\ Nth(K, Rank(K, x)) = x
  BY <1>6, <1>7, NthFacts
<1>9. slots'[c] = [j \in 1..N |-> slots[c][Nth(K, j)]]
  BY <1>5, <1>7 DEF Removes, Removed, Picked
<1>10. \A j \in 1..N : At(c, j)' = At(c, Nth(K, j)) /\ slots'[c][j] = slots[c][Nth(K, j)]
  BY <1>3, <1>4, <1>6, <1>8, <1>9 DEF At
<1>11. DOMAIN slots'[c] = 1..N
  BY <1>9
<1>12. Marks(c)' = {j \in 1..N : Nth(K, j) \in Marks(c)}
  <2>1. Marks(c)' = {j \in 1..N : slots'[c][j].len = 0}
    BY <1>11 DEF Marks, Marked
  <2> QED
    BY <1>3, <1>6, <1>8, <1>10, <2>1
<1>13. SlotInv(c)'
  <2>1. \A k \in 1..n : k \in 1..m
    BY <1>4
  <2>2. \A j \in 1..N : Nth(K, j) \in dom
    BY <1>6, <1>8
  <2>3. \A j \in 1..N : /\ slots'[c][j].at \in 1..m
                        /\ (At(c, j)').coll = c /\ (At(c, j)').op # "delete"
    BY <1>3, <1>10, <2>1, <2>2
  <2> QED
    BY <1>2, <1>11, <2>3 DEF SlotInv
<1>14. HoldsInv(c)'
  <2> DEFINE live == dom \ Marks(c)
             left == 1..N \ Marks(c)'
  <2>1. \A i \in Id : Alive(log, c, i, n) <=> \E k \in live : At(c, k).id = i
    BY <1>1 DEF HoldsInv
  <2>2. \A i, j \in live : At(c, i).id = At(c, j).id => i = j
    BY DEF HoldsInv
  <2>3. \A j \in left : Nth(K, j) \in live /\ Nth(K, j) \in K
    BY <1>6, <1>8, <1>12
  <2>4. \A k \in live : k \in K => Rank(K, k) \in left /\ Nth(K, Rank(K, k)) = k
    BY <1>8, <1>12
  <2>5. \A i, j \in left : (At(c, i)').id = (At(c, j)').id => i = j
    <3> SUFFICES ASSUME NEW i \in left, NEW j \in left, (At(c, i)').id = (At(c, j)').id
                 PROVE  i = j
      OBVIOUS
    <3>1. At(c, Nth(K, i)).id = At(c, Nth(K, j)).id
      BY <1>10
    <3>2. Nth(K, i) = Nth(K, j)
      BY <2>2, <2>3, <3>1
    <3> QED
      BY <1>8, <3>2
  <2>6. \A i \in Id : Alive(log', c, i, m) <=>
          (Alive(log, c, i, n) /\ \A g \in gone \ Marks(c) : At(c, g).id # i)
    BY <1>1, <1>2 DEF Removes
  <2>7. \A i \in Id : Alive(log', c, i, m) <=> \E k \in live : k \in K /\ At(c, k).id = i
    <3> TAKE i \in Id
    <3>1. \A g \in gone \ Marks(c) : g \in live /\ g \notin K
      BY <1>6
    <3>2. \A k \in live : k \notin K => k \in gone \ Marks(c)
      BY <1>6
    <3> QED
      BY <2>1, <2>2, <2>6, <3>1, <3>2
  <2>8. \A i \in Id : (\E k \in live : k \in K /\ At(c, k).id = i) <=> \E j \in left : (At(c, j)').id = i
    <3> TAKE i \in Id
    <3>1. ASSUME NEW k \in live, k \in K, At(c, k).id = i
          PROVE  \E j \in left : (At(c, j)').id = i
      <4>1. Rank(K, k) \in left /\ Nth(K, Rank(K, k)) = k
        BY <2>4, <3>1
      <4>2. At(c, Rank(K, k))' = At(c, k)
        BY <1>10, <4>1
      <4> QED
        BY <3>1, <4>1, <4>2
    <3>2. ASSUME NEW j \in left, (At(c, j)').id = i
          PROVE  \E k \in live : k \in K /\ At(c, k).id = i
      BY <1>10, <2>3, <3>2
    <3> QED
      BY <3>1, <3>2
  <2>9. DOMAIN slots'[c] \ Marks(c)' = left
    BY <1>11
  <2> HIDE DEF live, left
  <2> QED
    BY <1>2, <2>5, <2>7, <2>8, <2>9 DEF HoldsInv
<1>15. RowsInv(c)'
  <2> SUFFICES ASSUME built'[c] PROVE ids'[c] = RowsOf(c)'
    BY DEF RowsInv
  <2>1. ids[c] = RowsOf(c) /\ ids'[c] = Remapped(c, gone)
    BY DEF Removes, RowsInv
  <2>2. ids'[c] = {[fp |-> r.fp, pos |-> Rank(K, r.pos)] : r \in {r \in RowsOf(c) : r.pos \notin gone}}
    BY <1>5, <2>1 DEF Remapped, NewPosition
  <2>3. RowsOf(c) = {[fp |-> Fp[At(c, i).id], pos |-> i] : i \in dom}
    BY DEF RowsOf
  <2>4. ids'[c] = {[fp |-> Fp[At(c, i).id], pos |-> Rank(K, i)] : i \in K}
    <3>1. ASSUME NEW x \in ids'[c]
          PROVE  x \in {[fp |-> Fp[At(c, i).id], pos |-> Rank(K, i)] : i \in K}
      <4>1. PICK r \in RowsOf(c) : r.pos \notin gone /\ x = [fp |-> r.fp, pos |-> Rank(K, r.pos)]
        BY <2>2
      <4>2. PICK i \in dom : r = [fp |-> Fp[At(c, i).id], pos |-> i]
        BY <2>3
      <4> QED
        BY <1>6, <4>1, <4>2
    <3>2. ASSUME NEW i \in K
          PROVE  [fp |-> Fp[At(c, i).id], pos |-> Rank(K, i)] \in ids'[c]
      <4> DEFINE r == [fp |-> Fp[At(c, i).id], pos |-> i]
      <4>1. r \in RowsOf(c) /\ r.pos \notin gone
        BY <1>6, <2>3
      <4>2. [fp |-> r.fp, pos |-> Rank(K, r.pos)] \in ids'[c]
        BY <2>2, <4>1
      <4> QED
        BY <4>2
    <3> QED
      BY <3>1, <3>2
  <2>5. RowsOf(c)' = {[fp |-> Fp[At(c, Nth(K, j)).id], pos |-> j] : j \in 1..N}
    BY <1>10, <1>11 DEF RowsOf
  <2> QED
    BY <1>8, <2>4, <2>5
<1>16. OrderInv(c)'
  <2> SUFFICES ASSUME ~dirty'[c] PROVE OrderInv(c)'
    BY DEF OrderInv
  <2>1. gone = {} /\ ~dirty[c] /\ m = n
    BY <1>1, <1>2 DEF Removes
  <2>2. K = 1..Len(slots[c])
    BY <1>3, <1>6, <2>1
  <2>3. N = Len(slots[c]) /\ \A j \in 1..N : Nth(K, j) = j
    BY <1>3, <1>7, <2>2, NthOfInterval
  <2>4. \A j \in 1..N : slots'[c][j] = slots[c][j]
    BY <1>10, <2>3
  <2>5. /\ Marks(c) = {}
        /\ {slots[c][i].at : i \in 1..N} = Inserts(c, n)
        /\ \A i, j \in 1..N : i < j => slots[c][i].at < slots[c][j].at
    BY <1>1, <1>3, <2>1, <2>3 DEF OrderInv
  <2>6. Inserts(c, Upto)' = Inserts(c, n)
    BY <1>2, <1>4, <2>1 DEF Inserts
  <2>7. Marks(c)' = {}
    BY <1>12, <2>5
  <2>8. {slots'[c][i].at : i \in 1..N} = Inserts(c, n)
    BY <2>4, <2>5
  <2>9. \A i, j \in 1..N : i < j => slots'[c][i].at < slots'[c][j].at
    BY <2>4, <2>5
  <2> QED
    BY <1>11, <2>6, <2>7, <2>8, <2>9 DEF OrderInv
<1>17. FoldInv(c)'
  <2>1. /\ log \in Seq(Record) /\ log' \in Seq(Record) /\ slots[c] \in Seq(Slot)
        /\ n \in 0..Len(log) /\ m \in 0..Len(log')
    BY <1>1, <1>2, UptoType DEF Types, Upto
  <2>2. /\ Sound(log, slots[c], c, n) /\ Leads(log, slots[c], DocsOf(log, c)[n])
        /\ LiveOf(slots[c]) = dom \ Marks(c)
    BY <1>1, FoldIsLeads
  <2>3. PICK k \in Nat : k = m - n /\ n + k = m
    <3>1. m - n \in Nat /\ n + (m - n) = m
      BY <1>4
    <3> QED
      BY <3>1
  <2>4. n <= Len(log) /\ n + k <= Len(log')
    BY <2>1, <2>3
  <2>5. slots'[c] = Picked(slots[c], {i \in DOMAIN slots[c] : i \notin gone})
    BY DEF Removes, Removed, Kept
  <2>6. \A i \in (n + 1)..(n + k) : log'[i].coll = c /\ log'[i].op = "delete"
    BY <1>1, <1>2, <2>3 DEF Removes
  <2>7. \A i \in LiveOf(slots[c]) :
          i \in gone <=> \E j \in 1..k : log[slots[c][i].at].id = log'[n + j].id
    BY <1>1, <1>2, <2>2, <2>3 DEF Removes, At
  <2>8. Removal(slots[c], slots'[c], log, log', c, n, k, gone)
    BY <1>4, <2>5, <2>6, <2>7 DEF Removal
  <2>9. Leads(log', slots'[c], DocsOf(log', c)[n + k])
    BY <2>1, <2>2, <2>4, <2>8, LeadsRemoved
  <2> QED
    BY <1>2, <1>13, <2>3, <2>9, FoldIsLeadsNext
<1> QED
  BY <1>13, <1>14, <1>15, <1>16, <1>17

-----------------------------------------------------------------------------
\* What a scan finds

LEMMA MinInSet ==
    ASSUME NEW S, S \subseteq Nat, S # {}
    PROVE  Min(S) \in S
<1>1. PICK x \in S : TRUE
  OBVIOUS
<1>2. \E m \in S : \A n \in S : m <= n
  BY <1>1, LeastNat
<1> QED
  BY <1>2, Zenon DEF Min

LEMMA MaxInSet ==
    ASSUME NEW L \in Nat, NEW S, S \subseteq 0..L, S # {}
    PROVE  Max(S) \in S /\ \A x \in S : Max(S) >= x
<1> DEFINE T == {L - x : x \in S}
<1>1. PICK x \in S : TRUE
  OBVIOUS
<1>2. T \subseteq Nat /\ L - x \in T
  OBVIOUS
<1>3. PICK m \in T : \A n \in T : m <= n
  <2> HIDE DEF T
  <2> QED
    BY <1>2, LeastNat
<1>4. PICK y \in S : m = L - y
  BY <1>3
<1>5. \A z \in S : y >= z
  <2> TAKE z \in S
  <2>1. L - z \in T
    OBVIOUS
  <2>2. L - y <= L - z
    BY <1>3, <1>4, <2>1
  <2> QED
    BY <2>2
<1>6. \E a \in S : \A b \in S : a >= b
  BY <1>5
<1> QED
  BY <1>6, Zenon DEF Max

\* A scan shows the first n documents of the index, of which none is marked.
Reaches(c, n) ==
    /\ Scan(c) = [i \in 1..n |-> DocOf(At(c, i))]
    /\ \A i \in 1..n : i \in DOMAIN slots[c] \ Marks(c)

LEMMA ScanReaches ==
    ASSUME Types, mode = "open", NEW c \in Coll, CollInv(c)
    PROVE  \E n \in 0..Len(slots[c]) :
              Reaches(c, n) /\ (~ScanFails(c) => n = Len(slots[c]) /\ Marks(c) = {})
<1> USE DEF CollInv
<1>1. PICK L \in Nat : L = Len(slots[c])
  BY SlotFacts
<1>2. /\ DOMAIN slots[c] = 1..L
      /\ \A i \in 1..L : slots[c][i].at \in Nat /\ At(c, i) = log[slots[c][i].at]
      /\ Marks(c) = {i \in 1..L : slots[c][i].len = 0}
  BY <1>1, SlotFacts
<1>3. CASE Sequential(c)
  <2> DEFINE S == Inserts(c, Len(log))
             s == [i \in 1..L |-> slots[c][i].at]
  <2>1. ~dirty[c] /\ Upto = Len(log)
    BY <1>3 DEF Sequential, Upto
  <2>2. /\ Marks(c) = {}
        /\ {slots[c][i].at : i \in 1..L} = S
        /\ \A i, j \in 1..L : i < j => slots[c][i].at < slots[c][j].at
    BY <1>2, <2>1 DEF OrderInv
  <2>3. S \subseteq Nat /\ s \in [1..L -> S] /\ \A i \in 1..L : s[i] = slots[c][i].at
    BY <2>2 DEF Inserts
  <2>4. \A i, j \in 1..L : i < j => s[i] < s[j]
    BY <2>2, <2>3
  <2>5. \A x \in S : \E i \in 1..L : s[i] = x
    BY <2>2, <2>3
  <2> HIDE DEF S, s
  <2>6. Cardinality(S) = L /\ \A i \in 1..L : Nth(S, i) = s[i]
    <3>1. Lists(s, L, S)
      BY <2>3, <2>4, <2>5 DEF Lists
    <3> QED
      BY <2>3, <3>1, NthOfAscending
  <2>7. FileOrder(c) = [i \in 1..L |-> log[Nth(S, i)]]
    BY <2>6 DEF FileOrder, Picked, S
  <2>8. \A i \in 1..L : Nth(S, i) \in 1..Len(log)
    BY <2>3, <2>6 DEF S, Inserts
  <2>9. FileOrder(c) \in Seq(Record) /\ Len(FileOrder(c)) = L
    <3>1. \A i \in 1..L : log[Nth(S, i)] \in Record
      BY <2>8 DEF Types
    <3> QED
      BY <2>7, <3>1
  <2>10. Smallest(Len(FileOrder(c)), Len(slots[c])) = L
    BY <1>1, <2>9 DEF Smallest
  <2>11. Scan(c) = [i \in 1..L |-> DocOf(FileOrder(c)[i])]
    BY <1>3, <2>10 DEF Scan
  <2>12. \A i \in 1..L : FileOrder(c)[i] = At(c, i)
    BY <1>2, <2>3, <2>6, <2>7
  <2>13. Scan(c) = [i \in 1..L |-> DocOf(At(c, i))]
    BY <2>11, <2>12
  <2>14. \A i \in 1..L : i \in DOMAIN slots[c] \ Marks(c)
    BY <1>2, <2>2
  <2>15. L \in 0..Len(slots[c]) /\ Reaches(c, L)
    BY <1>1, <2>13, <2>14 DEF Reaches
  <2> QED
    BY <1>1, <2>2, <2>15
<1>4. CASE ~Sequential(c)
  <2> DEFINE readable == {n \in 0..L : \A i \in 1..n : ~Marked(slots[c][i])}
  <2>1. readable \subseteq 0..L /\ 0 \in readable
    OBVIOUS
  <2>2. Max(readable) \in readable /\ \A x \in readable : Max(readable) >= x
    <3> HIDE DEF readable
    <3> QED
      BY <2>1, MaxInSet
  <2>3. Scan(c) = [i \in 1..Max(readable) |-> DocOf(At(c, i))]
    BY <1>1, <1>4, Zenon DEF Scan
  <2>4. PICK n \in 0..L : n = Max(readable) /\ \A i \in 1..n : ~Marked(slots[c][i])
    BY <2>2
  <2>5. Marks(c) = {} => n = L
    <3> SUFFICES ASSUME Marks(c) = {} PROVE n = L
      OBVIOUS
    <3>1. \A i \in 1..L : ~Marked(slots[c][i])
      BY <1>2 DEF Marks
    <3>2. L \in readable
      BY <3>1
    <3>3. n >= L
      BY <2>2, <2>4, <3>2
    <3> QED
      BY <3>3
  <2> HIDE DEF readable
  <2>6. \A i \in 1..n : i \in 1..L
    OBVIOUS
  <2>7. \A i \in 1..n : i \in DOMAIN slots[c] \ Marks(c)
    BY <1>2, <2>4, <2>6 DEF Marks
  <2>8. Reaches(c, n)
    BY <2>3, <2>4, <2>7 DEF Reaches
  <2>9. ~ScanFails(c) => Marks(c) = {}
    BY <1>4 DEF ScanFails, Marks
  <2> QED
    BY <1>1, <2>5, <2>8, <2>9
<1> QED
  BY <1>3, <1>4

LEMMA ScanFacts ==
    ASSUME Types, mode = "open", NEW c \in Coll, CollInv(c)
    PROVE  \A i \in DOMAIN Scan(c) :
              i \in DOMAIN slots[c] \ Marks(c) /\ Scan(c)[i].id = At(c, i).id
<1>1. PICK n \in 0..Len(slots[c]) : Reaches(c, n)
  BY ScanReaches
<1> QED
  BY <1>1 DEF Reaches, DocOf

LEMMA CutFacts ==
    ASSUME NEW S, NEW s \in Seq(S), NEW n \in 0..Len(s)
    PROVE  /\ SubSeq(s, 1, n) \in Seq(S) /\ Len(SubSeq(s, 1, n)) = n
           /\ \A i \in 1..n : SubSeq(s, 1, n)[i] = s[i]
OBVIOUS

\* The numbers up to n that a set starts with are the first it has.
LEMMA NthOfStart ==
    ASSUME NEW l \in Nat, NEW K, K \subseteq 1..l, NEW n \in 0..l, 1..n \subseteq K
    PROVE  n <= Cardinality(K) /\ \A i \in 1..n : Nth(K, i) = i
<1>1. IsFiniteSet(K) /\ K \subseteq Nat
  <2>1. IsFiniteSet(1..l)
    BY FS_Interval
  <2>2. IsFiniteSet(K)
    BY <2>1, FS_Subset
  <2> QED
    BY <2>2
<1>2. Cardinality(1..n) = n /\ Cardinality(K) \in Nat
  BY <1>1, FS_CardinalityType, NthOfInterval
<1>3. n <= Cardinality(K)
  BY <1>1, <1>2, FS_Subset
<1>4. ASSUME NEW i \in 1..n PROVE Nth(K, i) = i
  <2>1. {y \in K : y <= i} = 1..i /\ i \in Nat
    <3>1. \A y \in 1..i : y \in 1..n /\ y <= i
      OBVIOUS
    <3>2. \A y \in K : y <= i => y \in 1..i
      OBVIOUS
    <3>3. \A y \in 1..i : y \in K
      BY <3>1
    <3>4. {y \in K : y <= i} = 1..i
      BY <3>1, <3>2, <3>3, Zenon
    <3>5. i \in Nat
      OBVIOUS
    <3> QED
      BY <3>4, <3>5
  <2>2. Rank(K, i) = i
    BY <2>1, NthOfInterval DEF Rank
  <2>3. i \in K
    OBVIOUS
  <2> QED
    BY <1>1, <2>2, <2>3, NthFacts
<1> QED
  BY <1>3, <1>4

\* It shows what the index leads to, or fails at a marked slot and has shown the
\* documents in front of it.
LEMMA ScanShows ==
    ASSUME Types, mode = "open", NEW c \in Coll, CollInv(c)
    PROVE  IF ScanFails(c) THEN IsPrefix(Scan(c), Shown(c)) ELSE Scan(c) = Shown(c)
<1>1. PICK n \in 0..Len(slots[c]) :
        Reaches(c, n) /\ (~ScanFails(c) => n = Len(slots[c]) /\ Marks(c) = {})
  BY ScanReaches
<1>2. PICK L \in Nat : L = Len(slots[c]) /\ DOMAIN slots[c] = 1..L
  BY SlotFacts DEF CollInv
<1>3. PICK K : K = 1..L \ Marks(c)
  OBVIOUS
<1>4. n \in 0..L /\ K \subseteq 1..L /\ 1..n \subseteq K
  BY <1>1, <1>2, <1>3 DEF Reaches
<1>5. n <= Cardinality(K) /\ \A i \in 1..n : Nth(K, i) = i
  BY <1>4, NthOfStart
<1>6. slots[c] \in Seq(Slot) /\ K \subseteq DOMAIN slots[c]
  BY <1>2, <1>4 DEF Types
<1>7. PICK m \in Nat : m = Cardinality(K)
  BY <1>6, PickedFacts
<1>8. LiveSlots(c) = [i \in 1..m |-> slots[c][Nth(K, i)]]
  BY <1>2, <1>3, <1>7 DEF LiveSlots, Picked
<1>9. Shown(c) = [i \in 1..m |-> DocOf(log[slots[c][Nth(K, i)].at])]
  BY <1>8 DEF Shown
<1>10. \A i \in 1..n : Scan(c)[i] = Shown(c)[i]
  <2> TAKE i \in 1..n
  <2>1. Scan(c)[i] = DocOf(At(c, i)) /\ Nth(K, i) = i /\ i \in 1..m
    BY <1>1, <1>5, <1>7 DEF Reaches
  <2> QED
    BY <1>9, <2>1 DEF At
<1>11. CASE ScanFails(c)
  <2>1. PICK a : a = Scan(c) /\ DOMAIN a = 1..n /\ a = [i \in 1..n |-> a[i]]
    BY <1>1 DEF Reaches
  <2>2. PICK b : b = Shown(c) /\ DOMAIN b = 1..m /\ b = [i \in 1..m |-> b[i]]
    BY <1>9
  <2>3. \A i \in 1..n : a[i] = b[i]
    BY <1>10, <2>1, <2>2
  <2>4. Len(a) = n /\ Len(b) = m
    BY <2>1, <2>2
  <2>5. SubSeq(a, 1, n) = SubSeq(b, 1, n)
    <3>1. PICK S : S = {a[i] : i \in 1..n} \cup {b[i] : i \in 1..m}
      OBVIOUS
    <3>2. a \in Seq(S) /\ b \in Seq(S)
      <4>1. \A i \in 1..n : a[i] \in S
        BY <3>1
      <4>2. \A i \in 1..m : b[i] \in S
        BY <3>1
      <4>3. n \in Nat
        BY <1>2, <1>4
      <4>4. a \in [1..n -> S]
        BY <2>1, <4>1, Zenon
      <4>5. b \in [1..m -> S]
        BY <2>2, <4>2, Zenon
      <4>6. a \in Seq(S)
        BY <4>3, <4>4, SeqDef
      <4>7. b \in Seq(S)
        BY <1>7, <4>5, SeqDef
      <4> QED
        BY <4>6, <4>7
    <3>3. n \in 0..m
      BY <1>5, <1>7
    <3>4. PICK u \in Seq(S) : u = SubSeq(a, 1, n) /\ Len(u) = n /\ \A i \in 1..n : u[i] = a[i]
      BY <2>4, <3>2
    <3>5. PICK v \in Seq(S) : v = SubSeq(b, 1, n) /\ Len(v) = n /\ \A i \in 1..n : v[i] = b[i]
      <4>1. n \in 0..Len(b)
        BY <2>4, <3>3
      <4>2. /\ SubSeq(b, 1, n) \in Seq(S) /\ Len(SubSeq(b, 1, n)) = n
            /\ \A i \in 1..n : SubSeq(b, 1, n)[i] = b[i]
        BY <3>2, <4>1, CutFacts
      <4> QED
        BY <4>2
    <3> QED
      BY <2>3, <3>4, <3>5
  <2>6. IsPrefix(a, b)
    BY <1>5, <1>7, <2>4, <2>5 DEF IsPrefix
  <2> QED
    BY <1>11, <2>1, <2>2, <2>6
<1>12. CASE ~ScanFails(c)
  <2>1. n = L /\ K = 1..L
    BY <1>1, <1>2, <1>3, <1>12
  <2>2. m = L
    BY <1>7, <2>1, NthOfInterval
  <2>3. Scan(c) = Shown(c)
    BY <1>1, <1>9, <1>10, <2>1, <2>2 DEF Reaches
  <2> QED
    BY <1>12, <2>3
<1> QED
  BY <1>11, <1>12

-----------------------------------------------------------------------------
\* What becomes of the log

\* The new records are about documents of their own, and right about whether
\* these are there.
Appended(m) ==
    LET New == (Len(log) + 1)..(Len(log) + m)
    IN  /\ Len(log') = Len(log) + m
        /\ \A k \in 1..Len(log) : log'[k] = log[k]
        /\ \A k \in New : Alive(log, log'[k].coll, log'[k].id, Len(log)) <=> log'[k].op # "insert"
        /\ \A j, k \in New : About(log'[j], log'[k].coll, log'[k].id) => j = k

LEMMA LogGrows ==
    ASSUME Types, Types', LogInv, NEW m \in Nat, Appended(m)
    PROVE  LogInv'
<1>1. PICK n \in Nat : n = Len(log)
  BY UptoType
<1>2. /\ Len(log') = n + m
      /\ \A k \in 1..n : log'[k] = log[k]
      /\ \A k \in (n + 1)..(n + m) :
           Alive(log, log'[k].coll, log'[k].id, n) <=> log'[k].op # "insert"
      /\ \A j, k \in (n + 1)..(n + m) : About(log'[j], log'[k].coll, log'[k].id) => j = k
  BY <1>1 DEF Appended
<1>3. DOMAIN log = 1..n /\ DOMAIN log' = 1..(n + m)
  BY <1>1, <1>2 DEF Types
<1>4. ASSUME NEW k \in 1..n
      PROVE  Alive(log', log'[k].coll, log'[k].id, k - 1) <=> log'[k].op # "insert"
  <2>1. log'[k] = log[k] /\ k - 1 \in Nat /\ \A j \in 1..(k - 1) : log'[j] = log[j]
    BY <1>2
  <2>2. Alive(log', log[k].coll, log[k].id, k - 1) <=> Alive(log, log[k].coll, log[k].id, k - 1)
    BY <2>1, AliveSame
  <2> QED
    BY <1>3, <2>1, <2>2 DEF LogInv
<1>5. ASSUME NEW k \in (n + 1)..(n + m)
      PROVE  Alive(log', log'[k].coll, log'[k].id, k - 1) <=> log'[k].op # "insert"
  <2>1. n <= k - 1 /\ k - 1 \in Nat /\ \A j \in (n + 1)..(k - 1) : j \in (n + 1)..(n + m) /\ j # k
    OBVIOUS
  <2>2. \A j \in (n + 1)..(k - 1) : ~About(log'[j], log'[k].coll, log'[k].id)
    BY <1>2, <2>1
  <2>3. Alive(log', log'[k].coll, log'[k].id, k - 1) <=> Alive(log', log'[k].coll, log'[k].id, n)
    BY <2>1, <2>2, AliveStill
  <2>4. Alive(log', log'[k].coll, log'[k].id, n) <=> Alive(log, log'[k].coll, log'[k].id, n)
    BY <1>2, AliveSame
  <2> QED
    BY <1>2, <2>3, <2>4
<1>6. \A k \in 1..(n + m) : k \in 1..n \/ k \in (n + 1)..(n + m)
  OBVIOUS
<1>7. \A k \in DOMAIN log' : Alive(log', log'[k].coll, log'[k].id, k - 1) <=> log'[k].op # "insert"
  BY <1>3, <1>4, <1>5, <1>6
<1> QED
  BY <1>7 DEF LogInv

\* A log cut at a record.
LEMMA LogPrefix ==
    ASSUME Types, LogInv, NEW n \in 0..Len(log), Len(log') = n, DOMAIN log' = 1..n,
           \A k \in 1..n : log'[k] = log[k]
    PROVE  LogInv'
<1>1. DOMAIN log = 1..Len(log) /\ Len(log) \in Nat
  BY DEF Types
<1>2. ASSUME NEW k \in 1..n
      PROVE  Alive(log', log'[k].coll, log'[k].id, k - 1) <=> log'[k].op # "insert"
  <2>1. log'[k] = log[k] /\ k - 1 \in Nat /\ k \in DOMAIN log /\ \A j \in 1..(k - 1) : log'[j] = log[j]
    BY <1>1
  <2>2. Alive(log', log[k].coll, log[k].id, k - 1) <=> Alive(log, log[k].coll, log[k].id, k - 1)
    BY <2>1, AliveSame
  <2> QED
    BY <2>1, <2>2 DEF LogInv
<1>3. \A k \in DOMAIN log' : Alive(log', log'[k].coll, log'[k].id, k - 1) <=> log'[k].op # "insert"
  BY <1>2
<1> QED
  BY <1>3 DEF LogInv

\* The table resolves the _id of a document, unless one in the way is unreadable.
LEMMA LookupFacts ==
    ASSUME Types, NEW c \in Coll, CollInv(c), NEW i \in Id
    PROVE  /\ \A pos \in Lookup(c, i) : pos \in DOMAIN slots[c] \ Marks(c) /\ At(c, pos).id = i
           /\ Lookup(c, i) # {} => Alive(log, c, i, Upto)
           /\ Alive(log, c, i, Upto) => Lookup(c, i) # {} \/ LookupFails(c, i)
<1> USE DEF CollInv
<1>1. Table(c) = RowsOf(c)
  BY TableIsRows
<1>2. Marks(c) = {p \in DOMAIN slots[c] : Marked(slots[c][p])}
  BY DEF Marks
<1>3. \A pos \in Lookup(c, i) : pos \in DOMAIN slots[c] \ Marks(c) /\ At(c, pos).id = i
  BY <1>1, <1>2 DEF Lookup, RowsOf
<1>4. \A p \in DOMAIN slots[c] \ Marks(c) : At(c, p).id = i => Lookup(c, i) # {} \/ LookupFails(c, i)
  <2> SUFFICES ASSUME NEW p \in DOMAIN slots[c] \ Marks(c), At(c, p).id = i, ~LookupFails(c, i)
               PROVE  Lookup(c, i) # {}
    OBVIOUS
  <2> DEFINE r == [fp |-> Fp[i], pos |-> p]
  <2>1. r \in Table(c) /\ r.fp = Fp[i] /\ r.pos = p
    BY <1>1 DEF RowsOf
  <2>2. ~Marked(slots[c][p])
    BY <1>2
  <2>3. ~Unreadable(At(c, p))
    BY <2>1, <2>2 DEF LookupFails
  <2>4. p \in Lookup(c, i)
    BY <2>1, <2>2, <2>3 DEF Lookup
  <2> QED
    BY <2>4
<1>5. Alive(log, c, i, Upto) <=> \E k \in DOMAIN slots[c] \ Marks(c) : At(c, k).id = i
  BY DEF HoldsInv
<1> QED
  BY <1>3, <1>4, <1>5

-----------------------------------------------------------------------------
\* Every step keeps the invariant.  A record carries the _id it was given: the
\* text of one that JSON cannot carry is another _id in the file.

StoredSame == \A i \in Id : Stored[i] = i

\* Steps that at most build a table.
LEMMA Unmoved ==
    ASSUME Types, Types', IInv, log' = log, slots' = slots, dirty' = dirty, Upto' = Upto,
           \A c \in Coll : built'[c] => ids'[c] = Table(c)
    PROVE  IInv'
<1>1. LogInv'
  BY DEF IInv, LogInv
<1>2. ASSUME NEW c \in Coll PROVE CollInv(c)'
  <2>1. Upto \in Nat /\ \A k \in (Upto + 1)..Upto : FALSE
    BY UptoType
  <2> QED
    BY <2>1, CollUntouched DEF IInv
<1> QED
  BY <1>1, <1>2 DEF IInv

LEMMA RefuseStep ==
    ASSUME Types, IInv, mode = "open", NEW c \in Coll, NEW w \in BOOLEAN, Refuse(c, w)
    PROVE  Types' /\ IInv'
<1>1. /\ log' = log /\ synced' = synced /\ slots' = slots /\ dirty' = dirty
      /\ mode' = mode /\ at' = at
      /\ built' = [built EXCEPT ![c] = @ \/ w]
      /\ ids' = [ids EXCEPT ![c] = IF w THEN Table(c) ELSE @]
  BY DEF Refuse, Quiet
<1>2. Types'
  BY <1>1 DEF Types
<1>3. \A d \in Coll : built'[d] => ids'[d] = Table(d)
  BY <1>1 DEF Types, Table
<1>4. Upto' = Upto
  BY <1>1 DEF Upto
<1> QED
  BY <1>1, <1>2, <1>3, <1>4, Unmoved

LEMMA SyncedStays ==
    ASSUME Types, log' \in Seq(Record), Len(log) <= Len(log'), NEW e, SyncAfter(e)
    PROVE  synced' \in 0..Len(log')
<1>1. Len(log) \in Nat /\ Len(log') \in Nat /\ synced \in 0..Len(log)
  BY DEF Types
<1>2. synced' = Len(log') \/ synced' = synced
  BY DEF SyncAfter
<1> QED
  BY <1>1, <1>2

LEMMA PublishStep ==
    ASSUME StoredSame, Types, IInv, mode = "open",
           NEW c \in Coll, NEW ds \in Seq(Doc), NEW w \in BOOLEAN, NEW e,
           Publish(c, ds, w), SyncAfter(e), Quiet,
           \A k \in DOMAIN ds : ~Alive(log, c, ds[k].id, Len(log)),
           \A j, k \in DOMAIN ds : ds[j].id = ds[k].id => j = k
    PROVE  Types' /\ IInv'
<1>1. PICK m \in Nat : m = Len(ds) /\ DOMAIN ds = 1..m
  OBVIOUS
<1>2. PICK n \in Nat : n = Len(log)
  BY UptoType
<1>3. slots[c] \in Seq(Slot)
  BY DEF Types
<1>4. PICK L \in Nat : L = Len(slots[c])
  BY <1>3
<1> DEFINE R == [k \in 1..m |-> InsertRecord(c, ds[k])]
           T == [k \in 1..m |-> [at |-> n + k, len |-> ValLen[ds[k].val]]]
           has == built[c] \/ w
           N == {[fp |-> Fp[ds[k].id], pos |-> L + k] : k \in 1..m}
<1>5. /\ log' = log \o R
      /\ slots' = [slots EXCEPT ![c] = @ \o T]
      /\ built' = [built EXCEPT ![c] = has]
      /\ ids' = [ids EXCEPT ![c] = IF has THEN Table(c) \cup N ELSE @]
      /\ dirty' = dirty
  BY <1>1, <1>2, <1>4, Zenon DEF Publish
<1>6. \A k \in 1..m : /\ ds[k] \in Doc /\ ds[k].id \in Id /\ ds[k].val \in Val
                      /\ R[k] = InsertRecord(c, ds[k])
                      /\ R[k] \in Record /\ R[k].coll = c /\ R[k].op = "insert"
                      /\ R[k].id = ds[k].id /\ PayloadLen(R[k]) = ValLen[ds[k].val]
  <2> TAKE k \in 1..m
  <2>1. ds[k] \in Doc
    BY <1>1
  <2>2. ds[k].id \in Id /\ ds[k].val \in Val
    BY <2>1 DEF Doc
  <2>3. InsertRecord(c, ds[k]) = [op |-> "insert", coll |-> c, id |-> ds[k].id, val |-> ds[k].val]
    BY <2>2 DEF InsertRecord, StoredSame
  <2>4. InsertRecord(c, ds[k]) \in Record
    BY <2>2, <2>3 DEF Record
  <2> QED
    BY <2>1, <2>2, <2>3, <2>4 DEF PayloadLen
<1>7. \A k \in 1..m : /\ T[k] \in Slot /\ T[k].at = n + k
                      /\ T[k].len = PayloadLen(R[k]) /\ T[k].len # 0
  <2> TAKE k \in 1..m
  <2>1. ValLen[ds[k].val] \in Nat \ {0}
    BY <1>6, LengthAssumption
  <2>2. T[k] = [at |-> n + k, len |-> ValLen[ds[k].val]]
    OBVIOUS
  <2>3. PayloadLen(R[k]) = ValLen[ds[k].val]
    BY <1>6
  <2> QED
    BY <2>1, <2>2, <2>3 DEF Slot
<1>8. R \in Seq(Record) /\ Len(R) = m /\ T \in Seq(Slot) /\ Len(T) = m
  BY <1>6, <1>7
<1> HIDE DEF R, T, has, N
<1>9. /\ log' \in Seq(Record) /\ Len(log') = n + m
      /\ \A k \in 1..n : log'[k] = log[k]
      /\ \A k \in 1..m : log'[n + k] = R[k]
  <2>1. log \in Seq(Record)
    BY DEF Types
  <2>2. PICK r \in Seq(Record) : r = R /\ Len(r) = m
    BY <1>8
  <2>3. /\ log \o r \in Seq(Record) /\ Len(log \o r) = n + m
        /\ \A k \in 1..n : (log \o r)[k] = log[k]
        /\ \A k \in 1..m : (log \o r)[n + k] = r[k]
    BY <1>2, <2>1, <2>2, SMTT(40)
  <2> QED
    BY <1>5, <2>2, <2>3
<1>10. /\ slots'[c] = slots[c] \o T
       /\ \A d \in Coll \ {c} : slots'[d] = slots[d]
       /\ slots' = [d \in Coll |-> slots'[d]]
  BY <1>5 DEF Types
<1>11. /\ slots'[c] \in Seq(Slot) /\ Len(slots'[c]) = L + m
       /\ \A i \in 1..L : slots'[c][i] = slots[c][i]
       /\ \A k \in 1..m : slots'[c][L + k] = T[k]
  <2>1. PICK t \in Seq(Slot) : t = T /\ Len(t) = m
    BY <1>8
  <2>2. PICK s \in Seq(Slot) : s = slots[c] /\ Len(s) = L
    BY <1>3, <1>4
  <2>3. /\ s \o t \in Seq(Slot) /\ Len(s \o t) = Len(s) + Len(t)
        /\ \A i \in 1..Len(s) : (s \o t)[i] = s[i]
        /\ \A k \in 1..Len(t) : (s \o t)[Len(s) + k] = t[k]
    BY ConcatFacts
  <2> QED
    BY <1>10, <2>1, <2>2, <2>3, SMTT(40)
<1>12. /\ built'[c] = has /\ \A d \in Coll \ {c} : built'[d] = built[d]
       /\ built' \in [Coll -> BOOLEAN]
  BY <1>5 DEF Types, has
<1>13. /\ ids'[c] = (IF has THEN Table(c) \cup N ELSE ids[c])
       /\ \A d \in Coll \ {c} : ids'[d] = ids[d]
       /\ ids' = [d \in Coll |-> ids'[d]]
  BY <1>5 DEF Types
<1>14. mode' = mode /\ at' = at
  BY DEF Quiet
<1>15. synced' \in 0..Len(log')
  <2>1. Len(log) <= Len(log')
    BY <1>2, <1>9
  <2> QED
    BY <1>9, <2>1, SyncedStays
<1>16. Types'
  <2>1. at' \in 0..Len(log')
    BY <1>2, <1>9, <1>14 DEF Types
  <2>2. slots' \in [Coll -> Seq(Slot)]
    BY <1>10, <1>11 DEF Types
  <2>3. dirty' \in [Coll -> BOOLEAN] /\ mode' \in {"open", "replay", "down", "corrupt"}
    BY <1>5, <1>14 DEF Types
  <2> QED
    BY <1>9, <1>12, <1>13, <1>15, <2>1, <2>2, <2>3 DEF Types
<1>17. Upto = n /\ Upto' = n + m
  BY <1>2, <1>9, <1>14 DEF Upto
<1>18. \A k \in (n + 1)..(n + m) :
          k - n \in 1..m /\ log'[k] = R[k - n] /\ log'[k].id = ds[k - n].id
          /\ log'[k].coll = c /\ log'[k].op = "insert"
  <2> TAKE k \in (n + 1)..(n + m)
  <2>1. k - n \in 1..m /\ n + (k - n) = k
    OBVIOUS
  <2> QED
    BY <1>6, <1>9, <2>1
<1>19. \A k \in (n + 1)..(n + m) : ~Alive(log, c, log'[k].id, n)
  BY <1>1, <1>2, <1>18
<1>20. \A j, k \in (n + 1)..(n + m) : log'[j].id = log'[k].id => j = k
  <2> TAKE j, k \in (n + 1)..(n + m)
  <2>1. ds[j - n].id = ds[k - n].id => j - n = k - n
    BY <1>1, <1>18
  <2> QED
    BY <1>18, <2>1
<1>21. LogInv'
  <2>1. Appended(m)
    BY <1>2, <1>9, <1>18, <1>19, <1>20 DEF Appended, About
  <2> QED
    BY <1>16, <2>1, LogGrows DEF IInv
<1>22. CollInv(c)'
  <2>1. \A i \in (L + 1)..(L + m) :
          /\ slots'[c][i].at = n + (i - L) /\ i - L \in 1..m
          /\ slots'[c][i].len = PayloadLen(log'[n + (i - L)]) /\ slots'[c][i].len # 0
    <3> TAKE i \in (L + 1)..(L + m)
    <3>1. PICK k \in 1..m : k = i - L /\ L + k = i
      <4>1. i - L \in 1..m /\ L + (i - L) = i
        OBVIOUS
      <4> QED
        BY <4>1
    <3>2. slots'[c][i] = T[k] /\ log'[n + k] = R[k]
      BY <1>9, <1>11, <3>1
    <3> QED
      BY <1>7, <3>1, <3>2
  <2>2. N = {[fp |-> Fp[log'[n + (i - L)].id], pos |-> i] : i \in (L + 1)..(L + m)}
    <3>1. \A k \in 1..m : log'[n + k].id = ds[k].id
      BY <1>6, <1>9
    <3>2. \A k \in 1..m : L + k \in (L + 1)..(L + m) /\ (L + k) - L = k
      OBVIOUS
    <3>3. \A i \in (L + 1)..(L + m) : i - L \in 1..m /\ L + (i - L) = i
      OBVIOUS
    <3>4. ASSUME NEW k \in 1..m
          PROVE  \E i \in (L + 1)..(L + m) :
                   [fp |-> Fp[ds[k].id], pos |-> L + k] = [fp |-> Fp[log'[n + (i - L)].id], pos |-> i]
      <4>1. log'[n + ((L + k) - L)].id = ds[k].id /\ L + k \in (L + 1)..(L + m)
        BY <3>1, <3>2
      <4> QED
        BY <4>1
    <3>5. ASSUME NEW i \in (L + 1)..(L + m)
          PROVE  \E k \in 1..m :
                   [fp |-> Fp[ds[k].id], pos |-> L + k] = [fp |-> Fp[log'[n + (i - L)].id], pos |-> i]
      BY <3>1, <3>3
    <3>6. ASSUME NEW x, x \in N
          PROVE  x \in {[fp |-> Fp[log'[n + (i - L)].id], pos |-> i] : i \in (L + 1)..(L + m)}
      <4>1. PICK k \in 1..m : x = [fp |-> Fp[ds[k].id], pos |-> L + k]
        BY <3>6 DEF N
      <4> QED
        BY <3>4, <4>1
    <3>7. ASSUME NEW i \in (L + 1)..(L + m)
          PROVE  [fp |-> Fp[log'[n + (i - L)].id], pos |-> i] \in N
      BY <3>5 DEF N
    <3> QED
      BY <3>6, <3>7
  <2>3. built'[c] => ids'[c] = Table(c) \cup
          {[fp |-> Fp[log'[n + (i - L)].id], pos |-> i] : i \in (L + 1)..(L + m)}
    BY <1>12, <1>13, <2>2
  <2>4. dirty'[c] = dirty[c] /\ Upto' = Upto + m
    BY <1>5, <1>17
  <2>5. Grown(c, m)
    <3>1. built'[c] => ids'[c] = Table(c) \cup
            {[fp |-> Fp[log'[Upto + (i - Len(slots[c]))].id], pos |-> i] :
               i \in (Len(slots[c]) + 1)..(Len(slots[c]) + m)}
      BY <1>4, <1>17, <2>3, Zenon
    <3>2. /\ \A k \in 1..Upto : log'[k] = log[k]
          /\ \A k \in (Upto + 1)..(Upto + m) :
               /\ log'[k].coll = c /\ log'[k].op = "insert"
               /\ ~Alive(log, c, log'[k].id, Upto)
          /\ \A j, k \in (Upto + 1)..(Upto + m) : log'[j].id = log'[k].id => j = k
      BY <1>9, <1>17, <1>18, <1>19, <1>20
    <3>3. /\ Len(slots'[c]) = Len(slots[c]) + m
          /\ \A i \in 1..Len(slots[c]) : slots'[c][i] = slots[c][i]
          /\ \A i \in (Len(slots[c]) + 1)..(Len(slots[c]) + m) :
               /\ slots'[c][i].at = Upto + (i - Len(slots[c]))
               /\ slots'[c][i].len = PayloadLen(log'[Upto + (i - Len(slots[c]))])
               /\ slots'[c][i].len # 0
      BY <1>4, <1>11, <1>17, <2>1
    <3> QED
      BY <2>4, <3>1, <3>2, <3>3, Zenon DEF Grown
  <2> QED
    BY <1>16, <2>5, CollGrows DEF IInv
<1>23. ASSUME NEW d \in Coll, d # c PROVE CollInv(d)'
  <2>1. built'[d] => ids'[d] = Table(d)
    BY <1>12, <1>13, <1>23 DEF Table
  <2>2. slots'[d] = slots[d] /\ dirty'[d] = dirty[d]
    BY <1>5, <1>10, <1>23
  <2>3. /\ Upto <= Upto' /\ \A k \in 1..Upto : log'[k] = log[k]
        /\ \A k \in (Upto + 1)..Upto' : log'[k].coll # d
    BY <1>9, <1>17, <1>18, <1>23
  <2> QED
    BY <1>16, <2>1, <2>2, <2>3, CollUntouched DEF IInv
<1> QED
  BY <1>16, <1>21, <1>22, <1>23 DEF IInv

LEMMA NotThere ==
    ASSUME Types, IInv, mode = "open", NEW c \in Coll, NEW i \in Id,
           Fresh(i) \/ (~Taken(c, i) /\ ~LookupFails(c, i))
    PROVE  ~Alive(log, c, i, Len(log))
<1>1. CASE Fresh(i)
  <2>1. DOMAIN log = 1..Len(log)
    BY DEF Types
  <2> QED
    BY <1>1, <2>1 DEF Fresh, Alive, About
<1>2. CASE ~Taken(c, i) /\ ~LookupFails(c, i)
  <2>1. Upto = Len(log)
    BY DEF Upto
  <2>2. CollInv(c)
    BY DEF IInv
  <2>3. Alive(log, c, i, Upto) => Lookup(c, i) # {} \/ LookupFails(c, i)
    BY <2>2, LookupFacts
  <2> QED
    BY <1>2, <2>1, <2>3 DEF Taken
<1> QED
  BY <1>1, <1>2

LEMMA InsertStep ==
    ASSUME StoredSame, Types, IInv, NEW c \in Coll, NEW d \in Doc, NEW supplied \in BOOLEAN,
           Insert(c, d, supplied)
    PROVE  Types' /\ IInv'
<1>1. mode = "open" /\ d.id \in Id
  BY DEF Insert, Doc
<1>2. CASE \E w \in BOOLEAN : Refuse(c, w)
  BY <1>1, <1>2, RefuseStep
<1>3. CASE /\ Publish(c, <<d>>, supplied) /\ SyncAfter(FALSE) /\ Quiet
           /\ Fresh(d.id) \/ (~Taken(c, d.id) /\ ~LookupFails(c, d.id))
  <2> DEFINE ds == <<d>>
  <2>1. ds \in Seq(Doc) /\ DOMAIN ds = 1..1 /\ ds[1] = d /\ \A k \in DOMAIN ds : k = 1
    OBVIOUS
  <2>2. ~Alive(log, c, d.id, Len(log))
    BY <1>1, <1>3, NotThere
  <2>3. /\ \A k \in DOMAIN ds : ~Alive(log, c, ds[k].id, Len(log))
        /\ \A j, k \in DOMAIN ds : ds[j].id = ds[k].id => j = k
    BY <2>1, <2>2
  <2>4. Publish(c, ds, supplied)
    BY <1>3
  <2> HIDE DEF ds
  <2> QED
    BY <1>1, <1>3, <2>1, <2>3, <2>4, PublishStep
<1> QED
  BY <1>1, <1>2, <1>3, Zenon DEF Insert

LEMMA InsertManyStep ==
    ASSUME StoredSame, Types, IInv, NEW c \in Coll, NEW ds \in Batches(Doc),
           NEW sup \in [DOMAIN ds -> BOOLEAN], InsertMany(c, ds, sup)
    PROVE  Types' /\ IInv'
<1> DEFINE anySupplied == \E k \in DOMAIN ds : sup[k]
           duplicate == \E k \in DOMAIN ds :
               sup[k] /\ (\/ Taken(c, ds[k].id) \/ LookupFails(c, ds[k].id)
                          \/ \E j \in 1..(k - 1) : sup[j] /\ ds[j].id = ds[k].id)
<1>1. /\ mode = "open" /\ anySupplied \in BOOLEAN
      /\ \A k \in DOMAIN ds : ~sup[k] =>
             Fresh(ds[k].id) /\ \A j \in DOMAIN ds \ {k} : ds[j].id # ds[k].id
  BY DEF InsertMany
<1>2. PICK len \in Nat : ds \in [1..len -> Doc]
  <2>1. PICK n \in 1..MaxBatch : ds \in [1..n -> Doc]
    BY DEF Batches
  <2> QED
    BY <2>1, BoundsAssumption
<1>3. CASE \E w \in BOOLEAN : Refuse(c, w)
  BY <1>1, <1>3, RefuseStep
<1>4. CASE ~duplicate /\ \E n \in 0..Len(ds) :
             /\ Publish(c, SubSeq(ds, 1, n), anySupplied)
             /\ SyncAfter(n < Len(ds))
             /\ Quiet
  <2>1. ds \in Seq(Doc) /\ Len(ds) = len /\ DOMAIN ds = 1..len /\ \A k \in 1..len : ds[k].id \in Id
    <3>1. ds \in Seq(Doc) /\ DOMAIN ds = 1..len
      BY <1>2
    <3>2. Len(ds) = len
      BY <1>2, <3>1
    <3>3. \A d \in Doc : d.id \in Id
      BY DEF Doc
    <3> QED
      BY <1>2, <3>1, <3>2, <3>3
  <2>2. PICK n \in 0..len :
             /\ Publish(c, SubSeq(ds, 1, n), anySupplied)
             /\ SyncAfter(n < Len(ds))
             /\ Quiet
    BY <1>4, <2>1
  <2> DEFINE es == SubSeq(ds, 1, n)
  <2>3. es \in Seq(Doc) /\ DOMAIN es = 1..n /\ \A k \in 1..n : k \in 1..len /\ es[k] = ds[k]
    BY <2>1
  <2>4. \A k \in 1..len : ~Alive(log, c, ds[k].id, Len(log))
    <3> TAKE k \in 1..len
    <3>1. Fresh(ds[k].id) \/ (~Taken(c, ds[k].id) /\ ~LookupFails(c, ds[k].id))
      BY <1>1, <1>4, <2>1
    <3> QED
      BY <1>1, <2>1, <3>1, NotThere
  <2>5. \A j, k \in 1..len : j < k => ds[j].id # ds[k].id
    <3> SUFFICES ASSUME NEW j \in 1..len, NEW k \in 1..len, j < k
                 PROVE  ds[j].id # ds[k].id
      OBVIOUS
    <3>1. j \in 1..(k - 1) /\ j # k
      OBVIOUS
    <3>2. CASE sup[j] /\ sup[k]
      BY <1>4, <2>1, <3>1, <3>2
    <3>3. CASE ~sup[j]
      BY <1>1, <2>1, <3>1, <3>3
    <3>4. CASE ~sup[k]
      BY <1>1, <2>1, <3>1, <3>4
    <3> QED
      BY <3>2, <3>3, <3>4
  <2>6. \A j, k \in 1..n : ds[j].id = ds[k].id => j = k
    <3> TAKE j, k \in 1..n
    <3>1. j \in 1..len /\ k \in 1..len /\ (j < k \/ k < j \/ j = k)
      OBVIOUS
    <3> QED
      BY <2>5, <3>1
  <2>7. /\ \A k \in DOMAIN es : ~Alive(log, c, es[k].id, Len(log))
        /\ \A j, k \in DOMAIN es : es[j].id = es[k].id => j = k
    BY <2>3, <2>4, <2>6
  <2>8. PICK w \in BOOLEAN : w = anySupplied
    BY <1>1
  <2>9. PICK e : SyncAfter(e)
    BY <2>2
  <2>10. Publish(c, es, w)
    BY <2>2, <2>8
  <2> HIDE DEF es
  <2> QED
    BY <1>1, <2>2, <2>3, <2>7, <2>9, <2>10, PublishStep
<1> QED
  <2>1. \/ Refuse(c, FALSE) \/ Refuse(c, anySupplied)
        \/ ~duplicate /\ \E n \in 0..Len(ds) :
             /\ Publish(c, SubSeq(ds, 1, n), anySupplied)
             /\ SyncAfter(n < Len(ds))
             /\ Quiet
    BY Zenon DEF InsertMany
  <2> QED
    BY <1>1, <1>3, <1>4, <2>1

LEMMA ReturnUnchangedStep ==
    ASSUME Types, IInv, mode = "open", NEW e, ReturnUnchanged(e)
    PROVE  Types' /\ IInv'
<1>1. /\ log' = log /\ synced' = synced /\ slots' = slots /\ dirty' = dirty
      /\ mode' = mode /\ at' = at /\ built' = built /\ ids' = ids
  BY DEF ReturnUnchanged, Quiet
<1>2. Types'
  BY <1>1 DEF Types
<1>3. \A d \in Coll : built'[d] => ids'[d] = Table(d)
  BY <1>1 DEF Table
<1>4. Upto' = Upto
  BY <1>1 DEF Upto
<1> QED
  BY <1>1, <1>2, <1>3, <1>4, Unmoved

LEMMA ReplaceStep ==
    ASSUME Types, IInv, NEW c \in Coll, NEW f, NEW sid, NEW v \in Val,
           Replace(c, f, sid, v)
    PROVE  Types' /\ IInv'
<1>1. mode = "open" /\ CollInv(c) /\ Upto = Len(log)
  BY DEF Replace, IInv, Upto
<1>2. CASE \E e : ReturnUnchanged(e)
  BY <1>1, <1>2, ReturnUnchangedStep
<1> DEFINE pos == Min(Matches(c, f))
           id == At(c, pos).id
           r == ReplaceRecord(c, [id |-> id, val |-> v])
<1>3. CASE /\ Matches(c, f) # {}
           /\ log' = Append(log, r)
           /\ slots' = [slots EXCEPT ![c][pos] = [at |-> Len(log'), len |-> ValLen[v]]]
           /\ dirty' = DirtyAfterReplace(c)
           /\ UNCHANGED <<built, ids, total>>
           /\ SyncAfter(FALSE)
           /\ Quiet
  <2>1. PICK n \in Nat : n = Len(log)
    BY UptoType
  <2>2. /\ DOMAIN slots[c] = 1..Len(slots[c]) /\ slots[c] \in Seq(Slot)
        /\ \A i \in DOMAIN slots[c] : At(c, i).id \in Id
    BY <1>1, SlotFacts DEF Types, CollInv
  <2>3. pos \in DOMAIN slots[c] \ Marks(c)
    <3>1. \A i \in DOMAIN Scan(c) : i \in DOMAIN slots[c] \ Marks(c)
      BY <1>1, ScanFacts
    <3>2. Matches(c, f) \subseteq DOMAIN Scan(c)
      BY DEF Matches
    <3>3. Matches(c, f) \subseteq Nat
      BY <2>2, <3>1, <3>2
    <3>4. Min(Matches(c, f)) \in Matches(c, f)
      BY <1>3, <3>3, MinInSet
    <3> QED
      BY <3>1, <3>2, <3>4
  <2> HIDE DEF pos
  <2>4. id \in Id
    BY <2>2, <2>3
  <2> DEFINE s == [at |-> n + 1, len |-> ValLen[v]]
  <2>5. /\ r \in Record /\ r.coll = c /\ r.id = id /\ r.op = "replace"
        /\ PayloadLen(r) = ValLen[v]
    BY <2>4 DEF Record, ReplaceRecord, PayloadLen
  <2> HIDE DEF r, id
  <2>6. log \in Seq(Record)
    BY DEF Types
  <2>7. /\ log' \in Seq(Record) /\ Len(log') = n + 1
        /\ \A k \in 1..n : log'[k] = log[k]
        /\ log'[n + 1] = r
    BY <1>3, <2>1, <2>5, <2>6
  <2>8. s \in Slot /\ s.at = n + 1 /\ s.len = PayloadLen(r) /\ s.len # 0
    <3>1. ValLen[v] \in Nat \ {0}
      BY LengthAssumption
    <3> QED
      BY <2>5, <3>1 DEF Slot
  <2>9. slots' = [slots EXCEPT ![c] = [slots[c] EXCEPT ![pos] = s]]
    BY <1>3, <2>7
  <2> HIDE DEF s
  <2>10. /\ slots'[c] = [slots[c] EXCEPT ![pos] = s]
         /\ \A d \in Coll \ {c} : slots'[d] = slots[d]
    BY <2>9 DEF Types
  <2>11. /\ DOMAIN slots'[c] = DOMAIN slots[c]
         /\ \A i \in DOMAIN slots[c] \ {pos} : slots'[c][i] = slots[c][i]
         /\ slots'[c][pos] = s
         /\ slots'[c] \in Seq(Slot)
    BY <2>2, <2>3, <2>8, <2>10
  <2>12. slots' \in [Coll -> Seq(Slot)]
    BY <2>9, <2>10, <2>11 DEF Types
  <2>13. /\ built' = built /\ ids' = ids /\ mode' = mode /\ at' = at
         /\ dirty' = [dirty EXCEPT ![c] = TRUE]
    BY <1>3 DEF Quiet, DirtyAfterReplace
  <2>14. synced' \in 0..Len(log')
    <3>1. Len(log) <= Len(log')
      BY <2>1, <2>7
    <3>2. SyncAfter(FALSE)
      BY <1>3
    <3> QED
      BY <2>7, <3>1, <3>2, SyncedStays
  <2>15. Types'
    <3>1. at' \in 0..Len(log')
      BY <2>1, <2>7, <2>13 DEF Types
    <3> QED
      BY <2>7, <2>12, <2>13, <2>14, <3>1 DEF Types
  <2>16. Upto = n /\ Upto' = n + 1
    BY <1>1, <2>1, <2>7, <2>13 DEF Upto
  <2>17. Alive(log, c, id, n)
    <3>1. \E k \in DOMAIN slots[c] \ Marks(c) : At(c, k).id = id
      BY <2>3 DEF id
    <3> QED
      BY <1>1, <2>4, <2>16, <3>1 DEF CollInv, HoldsInv
  <2>18. LogInv'
    <3>1. \A k \in (n + 1)..(n + 1) : k = n + 1
      OBVIOUS
    <3>2. Appended(1)
      BY <2>1, <2>5, <2>7, <2>17, <3>1 DEF Appended
    <3> QED
      BY <2>15, <3>2, LogGrows DEF IInv
  <2>19. CollInv(c)'
    <3>1. dirty'[c] /\ (built'[c] => ids'[c] = Table(c))
      BY <2>13 DEF Types, Table
    <3>2. About(log'[n + 1], c, At(c, pos).id)
      BY <2>5, <2>7 DEF About, id
    <3>3. Supersedes(c, pos)
      BY <2>7, <2>11, <2>16, <3>1, <3>2 DEF Supersedes
    <3>4. Repointed(c, pos)
      BY <2>5, <2>7, <2>8, <2>11, <2>16 DEF Repointed
    <3> QED
      BY <1>1, <2>3, <2>15, <3>3, <3>4, CollSupersedes
  <2>20. ASSUME NEW d \in Coll, d # c PROVE CollInv(d)'
    <3>1. slots'[d] = slots[d] /\ dirty'[d] = dirty[d] /\ (built'[d] => ids'[d] = Table(d))
      BY <2>10, <2>13, <2>20 DEF Types, Table
    <3>2. /\ Upto <= Upto' /\ \A k \in 1..Upto : log'[k] = log[k]
          /\ \A k \in (Upto + 1)..Upto' : log'[k].coll # d
      BY <2>5, <2>7, <2>16, <2>20
    <3> QED
      BY <2>15, <3>1, <3>2, CollUntouched DEF IInv
  <2> QED
    BY <2>15, <2>18, <2>19, <2>20 DEF IInv
<1> QED
  <2>1. \/ ReturnUnchanged(ScanFails(c)) \/ ReturnUnchanged(TRUE)
        \/ /\ Matches(c, f) # {}
           /\ log' = Append(log, r)
           /\ slots' = [slots EXCEPT ![c][pos] = [at |-> Len(log'), len |-> ValLen[v]]]
           /\ dirty' = DirtyAfterReplace(c)
           /\ UNCHANGED <<built, ids, total>>
           /\ SyncAfter(FALSE)
           /\ Quiet
    BY Zenon DEF Replace
  <2> QED
    BY <1>2, <1>3, <2>1

LEMMA RemovedType ==
    ASSUME Types, NEW c \in Coll, NEW gone
    PROVE  Removed(c, gone) \in Seq(Slot)
<1>1. slots[c] \in Seq(Slot)
  BY DEF Types
<1>2. Kept(c, gone) \subseteq DOMAIN slots[c]
  BY DEF Kept
<1>3. Picked(slots[c], Kept(c, gone)) \in Seq(Slot)
  BY <1>1, <1>2, PickedFacts
<1> QED
  BY <1>3 DEF Removed

\* The tombstones of n documents, and their slots and rows taken out.
Deletes1(c, found, n) ==
    LET gone == {Nth(found, k) : k \in 1..n}
    IN  /\ log' = log \o [k \in 1..n |-> Tombstone(c, Scan(c)[Nth(found, k)].id)]
        /\ slots' = [slots EXCEPT ![c] = Removed(c, gone)]
        /\ ids' = [ids EXCEPT ![c] = IF built[c] THEN Remapped(c, gone) ELSE @]
        /\ dirty' = [dirty EXCEPT ![c] = @ \/ n > 0]
        /\ UNCHANGED built
        /\ \E e : SyncAfter(e)
        /\ Quiet

LEMMA TombstonesStep ==
    ASSUME Types, IInv, mode = "open", NEW c \in Coll, NEW found,
           found \subseteq DOMAIN Scan(c), NEW n \in 0..Cardinality(found),
           Deletes1(c, found, n)
    PROVE  Types' /\ IInv'
<1>1. CollInv(c) /\ Upto = Len(log)
  BY DEF IInv, Upto
<1>2. PICK q \in Nat : q = Len(log) /\ q = Upto
  BY <1>1, UptoType
<1>3. PICK L \in Nat : L = Len(slots[c])
  BY <1>1, SlotFacts DEF CollInv
<1>4. /\ DOMAIN slots[c] = 1..L
      /\ \A i \in 1..L : At(c, i).id \in Id
  BY <1>1, <1>3, SlotFacts DEF CollInv
<1>5. \A i \in found : i \in 1..L \ Marks(c) /\ Scan(c)[i].id = At(c, i).id
  BY <1>1, <1>4, ScanFacts
<1>6. found \subseteq Nat /\ IsFiniteSet(found)
  <2>1. found \subseteq 1..L
    BY <1>5
  <2>2. IsFiniteSet(1..L)
    BY FS_Interval
  <2>3. IsFiniteSet(found)
    BY <2>1, <2>2, FS_Subset
  <2> QED
    BY <2>1, <2>3
<1>7. /\ Cardinality(found) \in Nat
      /\ \A k \in 1..Cardinality(found) : Nth(found, k) \in found /\ Rank(found, Nth(found, k)) = k
  BY <1>6, NthFacts
<1>8. n \in Nat /\ \A k \in 1..n : Nth(found, k) \in found /\ Rank(found, Nth(found, k)) = k
  BY <1>7
<1>9. PICK gone : gone = {Nth(found, k) : k \in 1..n}
  OBVIOUS
<1>10. PICK R : R = [k \in 1..n |-> Tombstone(c, Scan(c)[Nth(found, k)].id)]
  OBVIOUS
<1>11. /\ log' = log \o R
       /\ slots' = [slots EXCEPT ![c] = Removed(c, gone)]
       /\ ids' = [ids EXCEPT ![c] = IF built[c] THEN Remapped(c, gone) ELSE @]
       /\ dirty' = [dirty EXCEPT ![c] = @ \/ n > 0]
       /\ built' = built
       /\ \E e : SyncAfter(e)
       /\ mode' = mode /\ at' = at
  BY <1>9, <1>10, Zenon DEF Deletes1, Quiet
<1>12. PICK p : p = [k \in 1..n |-> Nth(found, k)]
  OBVIOUS
<1>13. \A k \in 1..n : /\ p[k] = Nth(found, k) /\ p[k] \in gone
                       /\ p[k] \in 1..L \ Marks(c) /\ At(c, p[k]).id \in Id
                       /\ R[k] = Tombstone(c, At(c, p[k]).id)
                       /\ R[k] \in Record /\ R[k].coll = c /\ R[k].op = "delete"
                       /\ R[k].id = At(c, p[k]).id
  <2> TAKE k \in 1..n
  <2>1. p[k] = Nth(found, k) /\ p[k] \in gone
    BY <1>9, <1>12
  <2>2. p[k] \in 1..L \ Marks(c) /\ Scan(c)[p[k]].id = At(c, p[k]).id
    BY <1>5, <1>8, <2>1
  <2>3. At(c, p[k]).id \in Id
    BY <1>4, <2>2
  <2>4. R[k] = Tombstone(c, At(c, p[k]).id)
    BY <1>10, <2>1, <2>2
  <2> QED
    BY <2>1, <2>2, <2>3, <2>4 DEF Tombstone, Record
<1>14. \A g \in gone : \E k \in 1..n : g = p[k]
  BY <1>9, <1>13
<1>15. \A j, k \in 1..n : p[j] = p[k] => j = k
  BY <1>8, <1>13
<1>16. R \in Seq(Record) /\ Len(R) = n
  BY <1>8, <1>10, <1>13
<1>17. /\ log' \in Seq(Record) /\ Len(log') = q + n
       /\ \A k \in 1..q : log'[k] = log[k]
       /\ \A k \in 1..n : log'[q + k] = R[k]
  <2>1. log \in Seq(Record)
    BY DEF Types
  <2>2. PICK r \in Seq(Record) : r = R /\ Len(r) = n
    BY <1>16
  <2>3. /\ log \o r \in Seq(Record) /\ Len(log \o r) = Len(log) + Len(r)
        /\ \A k \in 1..Len(log) : (log \o r)[k] = log[k]
        /\ \A k \in 1..Len(r) : (log \o r)[Len(log) + k] = r[k]
    BY <2>1, ConcatFacts
  <2> QED
    BY <1>2, <1>11, <2>2, <2>3
<1>18. /\ slots'[c] = Removed(c, gone)
       /\ \A d \in Coll \ {c} : slots'[d] = slots[d]
       /\ slots' \in [Coll -> Seq(Slot)]
  BY <1>11, RemovedType DEF Types
<1>19. synced' \in 0..Len(log')
  <2>1. Len(log) <= Len(log')
    BY <1>2, <1>8, <1>17
  <2> QED
    BY <1>11, <1>17, <2>1, SyncedStays
<1>20. Types'
  <2>1. at' \in 0..Len(log')
    BY <1>2, <1>8, <1>11, <1>17 DEF Types
  <2>2. built' \in [Coll -> BOOLEAN] /\ dirty' \in [Coll -> BOOLEAN]
    <3>1. CASE n > 0
      BY <1>11, <3>1 DEF Types
    <3>2. CASE ~(n > 0)
      BY <1>11, <3>2 DEF Types
    <3> QED
      BY <3>1, <3>2
  <2>3. ids' = [d \in Coll |-> ids'[d]]
    BY <1>11 DEF Types
  <2> QED
    BY <1>11, <1>17, <1>18, <1>19, <2>1, <2>2, <2>3 DEF Types
<1>21. Upto' = q + n
  BY <1>11, <1>17 DEF Upto
<1>22. \A k \in (q + 1)..(q + n) :
          /\ k - q \in 1..n /\ log'[k].id = At(c, p[k - q]).id /\ log'[k].id \in Id
          /\ log'[k].coll = c /\ log'[k].op = "delete"
  <2> TAKE k \in (q + 1)..(q + n)
  <2>1. k - q \in 1..n /\ q + (k - q) = k
    OBVIOUS
  <2> QED
    BY <1>13, <1>17, <2>1, ZenonT(40)
<1>23. \A k \in 1..n : q + k \in (q + 1)..(q + n) /\ (q + k) - q = k
  OBVIOUS
<1>24. /\ \A i \in Id : Alive(log, c, i, q) <=> \E k \in 1..L \ Marks(c) : At(c, k).id = i
       /\ \A i, j \in 1..L \ Marks(c) : At(c, i).id = At(c, j).id => i = j
  BY <1>1, <1>2, <1>4 DEF CollInv, HoldsInv
<1>25. \A k \in (q + 1)..(q + n) : Alive(log, c, log'[k].id, q)
  BY <1>13, <1>22, <1>24
<1>26. \A j, k \in (q + 1)..(q + n) : log'[j].id = log'[k].id => j = k
  <2> TAKE j, k \in (q + 1)..(q + n)
  <2>1. log'[j].id = log'[k].id => p[j - q] = p[k - q]
    BY <1>13, <1>22, <1>24
  <2>2. p[j - q] = p[k - q] => j - q = k - q
    BY <1>15, <1>22
  <2> QED
    BY <2>1, <2>2
<1>27. LogInv'
  <2>1. Appended(n)
    BY <1>2, <1>17, <1>22, <1>25, <1>26 DEF Appended, About
  <2> QED
    BY <1>8, <1>20, <2>1, LogGrows DEF IInv
<1>28. ASSUME NEW i \in Id
       PROVE  Alive(log', c, i, q + n) <=>
                (Alive(log, c, i, q) /\ \A g \in gone \ Marks(c) : At(c, g).id # i)
  <2>1. CASE \E k \in (q + 1)..(q + n) : log'[k].id = i
    <3>1. PICK k \in (q + 1)..(q + n) : log'[k].id = i
      BY <2>1
    <3>2. About(log'[k], c, i) /\ k \in 1..(q + n) /\ q + n \in Nat
      BY <1>8, <1>22, <3>1 DEF About
    <3>3. \A j \in (k + 1)..(q + n) : j \in (q + 1)..(q + n) /\ j # k
      BY <1>8
    <3>4. \A j \in (k + 1)..(q + n) : ~About(log'[j], c, i)
      BY <1>26, <3>1, <3>3 DEF About
    <3>5. ~Alive(log', c, i, q + n)
      BY <1>22, <3>2, <3>4, AliveLast
    <3>6. p[k - q] \in gone \ Marks(c) /\ At(c, p[k - q]).id = i
      BY <1>13, <1>22, <3>1
    <3> QED
      BY <3>5, <3>6
  <2>2. CASE ~ \E k \in (q + 1)..(q + n) : log'[k].id = i
    <3>1. \A j \in (q + 1)..(q + n) : ~About(log'[j], c, i)
      BY <2>2 DEF About
    <3>2. q + n \in Nat /\ q <= q + n
      BY <1>8
    <3>3. Alive(log', c, i, q + n) <=> Alive(log', c, i, q)
      BY <3>1, <3>2, AliveStill
    <3>4. Alive(log', c, i, q) <=> Alive(log, c, i, q)
      BY <1>17, AliveSame
    <3>5. \A k \in 1..n : At(c, p[k]).id # i
      BY <1>13, <1>17, <1>23, <2>2
    <3>6. \A g \in gone : At(c, g).id # i
      BY <1>14, <3>5
    <3> QED
      BY <3>3, <3>4, <3>6
  <2> QED
    BY <2>1, <2>2
<1>29. CollInv(c)'
  <2>1. gone \subseteq DOMAIN slots[c]
    BY <1>4, <1>13, <1>14
  <2>2. built'[c] => built[c] /\ ids'[c] = Remapped(c, gone)
    BY <1>11 DEF Types
  <2>3. ~dirty'[c] => ~dirty[c] /\ n = 0
    <3>1. dirty'[c] = (dirty[c] \/ n > 0)
      BY <1>11, Zenon DEF Types
    <3>2. ~(n > 0) => n = 0
      BY <1>8
    <3> QED
      BY <3>1, <3>2
  <2>4. n = 0 => gone = {} /\ Upto' = Upto
    BY <1>2, <1>9, <1>21
  <2>5. Upto <= Upto' /\ \A k \in 1..Upto : log'[k] = log[k]
    BY <1>2, <1>8, <1>17, <1>21
  <2>6. \A i \in Id : Alive(log', c, i, Upto') <=>
         (Alive(log, c, i, Upto) /\ \A g \in gone \ Marks(c) : At(c, g).id # i)
    BY <1>2, <1>21, <1>28
  <2>7. \A k \in (Upto + 1)..Upto' : log'[k].coll = c /\ log'[k].op = "delete"
    BY <1>2, <1>21, <1>22
  <2>8. \A i \in DOMAIN slots[c] \ Marks(c) :
          i \in gone <=> \E k \in 1..(Upto' - Upto) : At(c, i).id = log'[Upto + k].id
    <3> SUFFICES ASSUME NEW i \in 1..L \ Marks(c)
                 PROVE  i \in gone <=> \E k \in 1..(Upto' - Upto) : At(c, i).id = log'[Upto + k].id
      BY <1>4
    <3>1. Upto' - Upto = n /\ q = Upto
      BY <1>2, <1>8, <1>21
    <3>2. \A k \in 1..n : log'[q + k].id = At(c, p[k]).id
      BY <1>13, <1>17
    <3>3. \A k \in 1..n : At(c, i).id = At(c, p[k]).id <=> i = p[k]
      BY <1>13, <1>24
    <3>4. i \in gone <=> \E k \in 1..n : i = p[k]
      BY <1>13, <1>14
    <3>5. i \in gone <=> \E k \in 1..n : At(c, i).id = log'[q + k].id
      BY <3>2, <3>3, <3>4
    <3> QED
      BY <3>1, <3>5
  <2>9. Removes(c, gone)
    BY <1>18, <2>2, <2>3, <2>4, <2>5, <2>6, <2>7, <2>8, Zenon DEF Removes
  <2> QED
    BY <1>1, <1>20, <2>1, <2>9, CollRemoves
<1>30. ASSUME NEW d \in Coll, d # c PROVE CollInv(d)'
  <2>1. slots'[d] = slots[d] /\ dirty'[d] = dirty[d] /\ (built'[d] => ids'[d] = Table(d))
    BY <1>11, <1>18, <1>30 DEF Types, Table
  <2>2. /\ Upto <= Upto' /\ \A k \in 1..Upto : log'[k] = log[k]
        /\ \A k \in (Upto + 1)..Upto' : log'[k].coll # d
    BY <1>2, <1>8, <1>17, <1>21, <1>22, <1>30
  <2> QED
    BY <1>20, <2>1, <2>2, CollUntouched DEF IInv
<1> QED
  BY <1>20, <1>27, <1>29, <1>30 DEF IInv

LEMMA DeleteStep ==
    ASSUME Types, IInv, NEW c \in Coll, NEW f, NEW limit, Delete(c, f, limit)
    PROVE  Types' /\ IInv'
<1> DEFINE stopsEarly == limit = 1 /\ Matches(c, f) # {}
           found == IF stopsEarly THEN {Min(Matches(c, f))} ELSE Matches(c, f)
<1>1. mode = "open" /\ CollInv(c)
  BY DEF Delete, IInv
<1>2. CASE \E e : ReturnUnchanged(e)
  BY <1>1, <1>2, ReturnUnchangedStep
<1>3. CASE \E n \in 0..Cardinality(found) : Deletes1(c, found, n)
  <2>1. Matches(c, f) \subseteq DOMAIN Scan(c)
    BY DEF Matches
  <2>2. Matches(c, f) \subseteq Nat
    <3>1. \A i \in DOMAIN Scan(c) : i \in DOMAIN slots[c]
      BY <1>1, ScanFacts
    <3>2. DOMAIN slots[c] \subseteq Nat
      BY <1>1, SlotFacts DEF CollInv
    <3> QED
      BY <2>1, <3>1, <3>2
  <2>3. found \subseteq DOMAIN Scan(c)
    BY <2>1, <2>2, MinInSet
  <2> HIDE DEF found
  <2> QED
    BY <1>1, <1>3, <2>3, TombstonesStep
<1> QED
  <2>1. \/ ReturnUnchanged(ScanFails(c))
        \/ \E n \in 0..Cardinality(found) : Deletes1(c, found, n)
    BY Zenon DEF Delete, Deletes1
  <2> QED
    BY <1>2, <1>3, <2>1

\* Nothing stays in memory, and of the log at least what an fsync covered.
LEMMA ResetStep ==
    ASSUME Types, IInv, EmptyMemory, at' = 0, mode' \in {"down", "replay", "corrupt"},
           NEW n \in 0..Len(log), log' = SubSeq(log, 1, n), synced' \in 0..n
    PROVE  Types' /\ IInv'
<1>1. /\ slots' = [c \in Coll |-> <<>>] /\ built' = [c \in Coll |-> FALSE]
      /\ ids' = [c \in Coll |-> {}] /\ dirty' = [c \in Coll |-> FALSE]
  BY DEF EmptyMemory, Memory
<1>2. log \in Seq(Record) /\ Len(log) \in Nat
  BY DEF Types
<1>3. /\ log' \in Seq(Record) /\ Len(log') = n /\ DOMAIN log' = 1..n
      /\ \A k \in 1..n : log'[k] = log[k]
  BY <1>2
<1>4. Types'
  <2>1. slots' \in [Coll -> Seq(Slot)] /\ built' \in [Coll -> BOOLEAN] /\ dirty' \in [Coll -> BOOLEAN]
    BY <1>1
  <2>2. ids' = [c \in Coll |-> ids'[c]]
    BY <1>1
  <2>3. at' \in 0..Len(log') /\ mode' \in {"open", "replay", "down", "corrupt"}
    BY <1>3
  <2> QED
    BY <1>3, <2>1, <2>2, <2>3 DEF Types
<1>5. LogInv'
  BY <1>3, LogPrefix DEF IInv
<1>6. ASSUME NEW c \in Coll PROVE CollInv(c)'
  <2>1. slots'[c] = <<>> /\ ~built'[c] /\ Upto' = 0
    BY <1>1 DEF Upto
  <2> QED
    BY <1>4, <2>1, CollStarts
<1> QED
  BY <1>4, <1>5, <1>6 DEF IInv

LEMMA WholeLog ==
    ASSUME Types
    PROVE  log = SubSeq(log, 1, Len(log)) /\ Len(log) \in 0..Len(log)
<1>1. log \in Seq(Record)
  BY DEF Types
<1>2. PICK s \in Seq(Record) : s = log
  BY <1>1
<1>3. s = SubSeq(s, 1, Len(s)) /\ Len(s) \in 0..Len(s)
  OBVIOUS
<1> QED
  BY <1>2, <1>3

LEMMA RefusedStep ==
    ASSUME Types, IInv, Refused
    PROVE  Types' /\ IInv'
<1>1. /\ mode' = "corrupt" /\ log' = log /\ synced' = synced
      /\ EmptyMemory /\ at' = 0
  BY DEF Refused, Gone, file
<1> QED
  BY <1>1, WholeLog, ResetStep DEF Types

\* A replay that applies the record behind the last one it applied.
LEMMA AppliedFacts ==
    ASSUME Types, IInv, Replaying, Applied, NEW r, r = Next1
    PROVE  /\ log' = log /\ synced' = synced /\ mode' = "replay" /\ at' = at + 1
           /\ at \in Nat /\ at + 1 \in 1..Len(log) /\ Upto = at /\ Upto' = at + 1
           /\ r = log[at + 1] /\ r \in Record /\ r.coll \in Coll /\ r.id \in Id
           /\ Alive(log, r.coll, r.id, at) <=> r.op # "insert"
           /\ LogInv'
<1>1. /\ log' = log /\ synced' = synced /\ mode' = mode /\ at' = at + 1
      /\ mode = "replay" /\ at < Len(log) /\ r = log[at + 1]
  BY DEF Replaying, Applied, file, Next1
<1>2. log \in Seq(Record) /\ at \in 0..Len(log) /\ Len(log) \in Nat
  BY DEF Types
<1>3. at \in Nat /\ at + 1 \in 1..Len(log) /\ (at + 1) - 1 = at
  BY <1>1, <1>2
<1>4. r \in Record
  BY <1>1, <1>2, <1>3
<1>5. at + 1 \in DOMAIN log
  BY <1>2, <1>3
<1>6. Alive(log, log[at + 1].coll, log[at + 1].id, (at + 1) - 1) <=> log[at + 1].op # "insert"
  BY <1>5 DEF IInv, LogInv
<1>7. Upto = at /\ Upto' = at + 1
  BY <1>1 DEF Upto
<1>8. LogInv'
  BY <1>1 DEF IInv, LogInv
<1> QED
  BY <1>1, <1>3, <1>4, <1>6, <1>7, <1>8, RecordType

\* The record is about one collection.
LEMMA AppliedOthers ==
    ASSUME Types, Types', IInv, Replaying, Applied, NEW r, r = Next1, CollInv(r.coll)',
           \A d \in Coll \ {r.coll} :
             slots'[d] = slots[d] /\ dirty'[d] = dirty[d] /\ built'[d] = built[d] /\ ids'[d] = ids[d]
    PROVE  IInv'
<1>1. /\ log' = log /\ at \in Nat /\ Upto = at /\ Upto' = at + 1 /\ r = log[at + 1]
      /\ LogInv'
  BY AppliedFacts
<1>2. ASSUME NEW d \in Coll, d # r.coll PROVE CollInv(d)'
  <2>1. slots'[d] = slots[d] /\ dirty'[d] = dirty[d] /\ (built'[d] => ids'[d] = Table(d))
    BY <1>2 DEF Table
  <2>2. \A k \in (at + 1)..(at + 1) : k = at + 1
    BY <1>1
  <2>3. /\ Upto <= Upto' /\ \A k \in 1..Upto : log'[k] = log[k]
        /\ \A k \in (Upto + 1)..Upto' : log'[k].coll # d
    BY <1>1, <1>2, <2>2
  <2> QED
    BY <2>1, <2>3, CollUntouched DEF IInv
<1> QED
  BY <1>1, <1>2 DEF IInv

LEMMA ReplayInsertStep ==
    ASSUME Types, IInv, ReplayInsert
    PROVE  Types' /\ IInv'
<1>1. PICK r : r = Next1
  OBVIOUS
<1>2. PICK c : c = r.coll
  OBVIOUS
<1>3. CASE Refused
  BY <1>3, RefusedStep
<1> DEFINE s == [at |-> at + 1, len |-> PayloadLen(r)]
<1>4. CASE /\ Replaying /\ r.op = "insert"
           /\ slots' = [slots EXCEPT ![c] = Append(@, s)]
           /\ ids' = [ids EXCEPT ![c] = RowsAfterInsert(c, r)]
           /\ UNCHANGED <<built, dirty>>
           /\ Applied
  <2>1. /\ log' = log /\ synced' = synced /\ mode' = "replay" /\ at' = at + 1
        /\ at \in Nat /\ at + 1 \in 1..Len(log) /\ Upto = at /\ Upto' = at + 1
        /\ r = log[at + 1] /\ r \in Record /\ c \in Coll /\ r.id \in Id
        /\ ~Alive(log, c, r.id, at)
    BY <1>1, <1>2, <1>4, AppliedFacts
  <2>2. CollInv(c)
    BY <2>1 DEF IInv
  <2>3. PICK L \in Nat : L = Len(slots[c])
    BY <2>1, <2>2, SlotFacts DEF CollInv
  <2>4. slots[c] \in Seq(Slot)
    BY <2>1 DEF Types
  <2>5. s \in Slot /\ s.at = at + 1 /\ s.len = PayloadLen(r) /\ s.len # 0
    <3>1. r.val \in Val
      BY <1>4, <2>1 DEF Record
    <3>2. PayloadLen(r) \in Nat \ {0}
      BY <1>4, <3>1, LengthAssumption DEF PayloadLen
    <3> QED
      BY <2>1, <3>2 DEF Slot
  <2> HIDE DEF s
  <2>6. /\ slots'[c] = Append(slots[c], s)
        /\ \A d \in Coll \ {c} : slots'[d] = slots[d]
        /\ slots' = [d \in Coll |-> slots'[d]]
    BY <1>4, <2>1 DEF Types
  <2>7. /\ slots'[c] \in Seq(Slot) /\ Len(slots'[c]) = L + 1
        /\ \A i \in 1..L : slots'[c][i] = slots[c][i]
        /\ slots'[c][L + 1] = s
    BY <2>3, <2>4, <2>5, <2>6
  <2>8. built' = built /\ dirty' = dirty
    BY <1>4
  <2>9. /\ ids'[c] = RowsAfterInsert(c, r)
        /\ \A d \in Coll \ {c} : ids'[d] = ids[d]
        /\ ids' = [d \in Coll |-> ids'[d]]
    BY <1>4, <2>1 DEF Types
  <2>10. Types'
    <3>1. slots' \in [Coll -> Seq(Slot)]
      BY <2>6, <2>7 DEF Types
    <3> QED
      BY <2>1, <2>8, <2>9, <3>1 DEF Types
  <2>11. built'[c] => ids'[c] = Table(c) \cup
           {[fp |-> Fp[log'[Upto + (i - Len(slots[c]))].id], pos |-> i] :
              i \in (Len(slots[c]) + 1)..(Len(slots[c]) + 1)}
    <3> SUFFICES ASSUME built'[c]
                 PROVE  ids'[c] = Table(c) \cup
                          {[fp |-> Fp[log'[Upto + (i - Len(slots[c]))].id], pos |-> i] :
                             i \in (Len(slots[c]) + 1)..(Len(slots[c]) + 1)}
      OBVIOUS
    <3>1. ids'[c] = Table(c) \cup {[fp |-> Fp[r.id], pos |-> L + 1]}
      BY <2>3, <2>8, <2>9 DEF RowsAfterInsert, Table
    <3>2. (L + 1)..(L + 1) = {L + 1} /\ at + ((L + 1) - L) = at + 1
      BY <2>1
    <3>3. {[fp |-> Fp[log'[at + (i - L)].id], pos |-> i] : i \in {L + 1}}
            = {[fp |-> Fp[r.id], pos |-> L + 1]}
      BY <2>1, <3>2
    <3>4. ids'[c] = Table(c) \cup
            {[fp |-> Fp[log'[at + (i - L)].id], pos |-> i] : i \in (L + 1)..(L + 1)}
      BY <3>1, <3>2, <3>3, Zenon
    <3> QED
      BY <2>1, <2>3, <3>4, Zenon
  <2>12. Grown(c, 1)
    <3>1. \A k \in (at + 1)..(at + 1) : k = at + 1
      BY <2>1
    <3>2. \A i \in (L + 1)..(L + 1) : i = L + 1 /\ i - L = 1
      OBVIOUS
    <3>3. /\ \A k \in 1..Upto : log'[k] = log[k]
          /\ \A k \in (Upto + 1)..(Upto + 1) :
               /\ log'[k].coll = c /\ log'[k].op = "insert"
               /\ ~Alive(log, c, log'[k].id, Upto)
          /\ \A j, k \in (Upto + 1)..(Upto + 1) : log'[j].id = log'[k].id => j = k
      BY <1>2, <1>4, <2>1, <3>1
    <3>4. /\ Len(slots'[c]) = Len(slots[c]) + 1
          /\ \A i \in 1..Len(slots[c]) : slots'[c][i] = slots[c][i]
          /\ \A i \in (Len(slots[c]) + 1)..(Len(slots[c]) + 1) :
               /\ slots'[c][i].at = Upto + (i - Len(slots[c]))
               /\ slots'[c][i].len = PayloadLen(log'[Upto + (i - Len(slots[c]))])
               /\ slots'[c][i].len # 0
      BY <2>1, <2>3, <2>5, <2>7, <3>2
    <3>5. Upto' = Upto + 1 /\ dirty'[c] = dirty[c]
      BY <2>1, <2>8
    <3> QED
      BY <2>11, <3>3, <3>4, <3>5, Zenon DEF Grown
  <2>13. CollInv(c)'
    BY <2>1, <2>2, <2>10, <2>12, CollGrows
  <2> QED
    BY <1>1, <1>2, <1>4, <2>6, <2>8, <2>9, <2>10, <2>13, AppliedOthers
<1> QED
  BY <1>1, <1>2, <1>3, <1>4, Zenon DEF ReplayInsert

\* Replay supersedes the document at pos, which gets the slot s.
ReplaySupersedes(r, c, pos, s) ==
    /\ Replaying /\ Applied
    /\ r = Next1 /\ c = r.coll /\ pos \in Lookup(c, r.id) /\ s \in Slot
    /\ slots' = [slots EXCEPT ![c][pos] = s]
    /\ built' = [built EXCEPT ![c] = TRUE]
    /\ ids' = [ids EXCEPT ![c] = Table(c)]
    /\ dirty' = [dirty EXCEPT ![c] = TRUE]
    /\ \/ r.op = "replace" /\ s.at = at + 1 /\ s.len = PayloadLen(r) /\ s.len # 0
       \/ r.op = "delete" /\ s.at = slots[c][pos].at /\ s.len = 0

LEMMA SupersedeStep ==
    ASSUME Types, IInv, NEW r, NEW c, NEW pos, NEW s, ReplaySupersedes(r, c, pos, s)
    PROVE  Types' /\ IInv'
<1>0. /\ Replaying /\ Applied
      /\ r = Next1 /\ c = r.coll /\ pos \in Lookup(c, r.id) /\ s \in Slot
      /\ slots' = [slots EXCEPT ![c][pos] = s]
      /\ built' = [built EXCEPT ![c] = TRUE]
      /\ ids' = [ids EXCEPT ![c] = Table(c)]
      /\ dirty' = [dirty EXCEPT ![c] = TRUE]
      /\ \/ r.op = "replace" /\ s.at = at + 1 /\ s.len = PayloadLen(r) /\ s.len # 0
         \/ r.op = "delete" /\ s.at = slots[c][pos].at /\ s.len = 0
  BY DEF ReplaySupersedes
<1> USE <1>0
<1>1. /\ log' = log /\ synced' = synced /\ mode' = "replay" /\ at' = at + 1
      /\ at \in Nat /\ at + 1 \in 1..Len(log) /\ Upto = at /\ Upto' = at + 1
      /\ r = log[at + 1] /\ c \in Coll /\ r.id \in Id
  BY AppliedFacts
<1>2. CollInv(c)
  BY <1>1 DEF IInv
<1>3. pos \in DOMAIN slots[c] \ Marks(c) /\ At(c, pos).id = r.id
  BY <1>1, <1>2, LookupFacts
<1>4. slots[c] \in Seq(Slot) /\ DOMAIN slots[c] = 1..Len(slots[c])
  BY <1>1 DEF Types
<1>5. /\ slots'[c] = [slots[c] EXCEPT ![pos] = s]
      /\ \A d \in Coll \ {c} : slots'[d] = slots[d]
      /\ slots' = [d \in Coll |-> slots'[d]]
  BY <1>1 DEF Types
<1>6. /\ DOMAIN slots'[c] = DOMAIN slots[c]
      /\ \A i \in DOMAIN slots[c] \ {pos} : slots'[c][i] = slots[c][i]
      /\ slots'[c][pos] = s
      /\ slots'[c] \in Seq(Slot)
  BY <1>3, <1>4, <1>5
<1>7. /\ built'[c] /\ \A d \in Coll \ {c} : built'[d] = built[d]
      /\ dirty'[c] /\ \A d \in Coll \ {c} : dirty'[d] = dirty[d]
      /\ built' \in [Coll -> BOOLEAN] /\ dirty' \in [Coll -> BOOLEAN]
  BY <1>1 DEF Types
<1>8. /\ ids'[c] = Table(c) /\ \A d \in Coll \ {c} : ids'[d] = ids[d]
      /\ ids' = [d \in Coll |-> ids'[d]]
  BY <1>1 DEF Types
<1>9. Types'
  <2>1. slots' \in [Coll -> Seq(Slot)]
    BY <1>5, <1>6 DEF Types
  <2> QED
    BY <1>1, <1>7, <1>8, <2>1 DEF Types
<1>10. Supersedes(c, pos)
  <2>1. About(log'[Upto + 1], c, At(c, pos).id)
    BY <1>1, <1>3 DEF About
  <2>2. Upto' = Upto + 1 /\ \A k \in 1..Upto : log'[k] = log[k]
    BY <1>1
  <2> QED
    BY <1>6, <1>7, <1>8, <2>1, <2>2 DEF Supersedes
<1>11. Repointed(c, pos) \/ MarkedNow(c, pos)
  BY <1>1, <1>6 DEF Repointed, MarkedNow
<1>12. CollInv(c)'
  BY <1>1, <1>2, <1>3, <1>9, <1>10, <1>11, CollSupersedes
<1> QED
  BY <1>5, <1>7, <1>8, <1>9, <1>12, AppliedOthers, ZenonT(40)

LEMMA ReplayReplaceStep ==
    ASSUME Types, IInv, ReplayReplace
    PROVE  Types' /\ IInv'
<1>1. PICK r : r = Next1
  OBVIOUS
<1>2. PICK c : c = r.coll
  OBVIOUS
<1>3. CASE Refused
  BY <1>3, RefusedStep
<1>4. ASSUME NEW pos \in Lookup(c, r.id), Replaying, Applied, r.op = "replace",
             slots' = [slots EXCEPT ![c][pos] = [at |-> at + 1, len |-> PayloadLen(r)]],
             built' = [built EXCEPT ![c] = TRUE],
             ids' = [ids EXCEPT ![c] = Table(c)],
             dirty' = [dirty EXCEPT ![c] = TRUE]
      PROVE  Types' /\ IInv'
  <2> DEFINE s == [at |-> at + 1, len |-> PayloadLen(r)]
  <2>1. s \in Slot /\ s.at = at + 1 /\ s.len = PayloadLen(r) /\ s.len # 0
    <3>1. at \in Nat /\ r \in Record
      BY <1>1, <1>4, AppliedFacts
    <3>2. r.val \in Val
      BY <1>4, <3>1 DEF Record
    <3>3. PayloadLen(r) \in Nat \ {0}
      BY <1>4, <3>2, LengthAssumption DEF PayloadLen
    <3> QED
      BY <3>1, <3>3 DEF Slot
  <2>2. slots' = [slots EXCEPT ![c][pos] = s]
    BY <1>4
  <2> HIDE DEF s
  <2>3. ReplaySupersedes(r, c, pos, s)
    BY <1>1, <1>2, <1>4, <2>1, <2>2, Zenon DEF ReplaySupersedes
  <2> QED
    BY <2>3, SupersedeStep
<1> QED
  <2>1. \/ Refused
        \/ \E pos \in Lookup(c, r.id) :
             /\ Replaying /\ Applied /\ r.op = "replace"
             /\ slots' = [slots EXCEPT ![c][pos] = [at |-> at + 1, len |-> PayloadLen(r)]]
             /\ built' = [built EXCEPT ![c] = TRUE]
             /\ ids' = [ids EXCEPT ![c] = Table(c)]
             /\ dirty' = [dirty EXCEPT ![c] = TRUE]
    BY <1>1, <1>2, Zenon DEF ReplayReplace
  <2> QED
    BY <1>3, <1>4, <2>1

LEMMA ReplayDeleteStep ==
    ASSUME Types, IInv, ReplayDelete
    PROVE  Types' /\ IInv'
<1>1. PICK r : r = Next1
  OBVIOUS
<1>2. PICK c : c = r.coll
  OBVIOUS
<1>3. CASE Refused
  BY <1>3, RefusedStep
<1>4. ASSUME NEW pos \in Lookup(c, r.id), Replaying, Applied, r.op = "delete",
             slots' = [slots EXCEPT ![c][pos].len = 0],
             built' = [built EXCEPT ![c] = TRUE],
             ids' = [ids EXCEPT ![c] = Table(c)],
             dirty' = [dirty EXCEPT ![c] = TRUE]
      PROVE  Types' /\ IInv'
  <2>1. c \in Coll /\ r.id \in Id
    BY <1>1, <1>2, <1>4, AppliedFacts
  <2>2. CollInv(c)
    BY <2>1 DEF IInv
  <2>3. pos \in DOMAIN slots[c]
    BY <2>1, <2>2, LookupFacts
  <2>4. slots[c] \in Seq(Slot)
    BY <2>1 DEF Types
  <2>5. slots[c][pos] \in Slot
    BY <2>3, <2>4
  <2>6. PICK s \in Slot : s = [slots[c][pos] EXCEPT !.len = 0] /\ s.at = slots[c][pos].at /\ s.len = 0
    <3> DEFINE t == [slots[c][pos] EXCEPT !.len = 0]
    <3>1. slots[c][pos] = [at |-> slots[c][pos].at, len |-> slots[c][pos].len] /\ slots[c][pos].at \in Nat
      BY <2>5 DEF Slot
    <3>2. t = [at |-> slots[c][pos].at, len |-> 0]
      BY <3>1
    <3>3. t \in Slot /\ t.at = slots[c][pos].at /\ t.len = 0
      BY <3>1, <3>2 DEF Slot
    <3> QED
      BY <3>3
  <2>7. slots' = [slots EXCEPT ![c][pos] = s]
    BY <1>4, <2>6
  <2>8. ReplaySupersedes(r, c, pos, s)
    BY <1>1, <1>2, <1>4, <2>6, <2>7, Zenon DEF ReplaySupersedes
  <2> QED
    BY <2>8, SupersedeStep
<1> QED
  <2>1. \/ Refused
        \/ \E pos \in Lookup(c, r.id) :
             /\ Replaying /\ Applied /\ r.op = "delete"
             /\ slots' = [slots EXCEPT ![c][pos].len = 0]
             /\ built' = [built EXCEPT ![c] = TRUE]
             /\ ids' = [ids EXCEPT ![c] = Table(c)]
             /\ dirty' = [dirty EXCEPT ![c] = TRUE]
    BY <1>1, <1>2, Zenon DEF ReplayDelete
  <2> QED
    BY <1>3, <1>4, <2>1

LEMMA ReplayEndStep ==
    ASSUME Types, IInv, ReplayEnd
    PROVE  Types' /\ IInv'
<1>1. /\ mode = "replay" /\ at = Len(log) /\ mode' = "open"
      /\ slots' = [c \in Coll |-> IF c \in pending THEN Removed(c, Marks(c)) ELSE slots[c]]
      /\ ids' = [c \in Coll |-> IF c \in pending THEN Remapped(c, Marks(c)) ELSE ids[c]]
      /\ at' = at /\ built' = built /\ dirty' = dirty /\ log' = log /\ synced' = synced
  BY DEF ReplayEnd, file
<1>2. Types'
  <2>1. slots' \in [Coll -> Seq(Slot)]
    BY <1>1, RemovedType DEF Types
  <2>2. ids' = [c \in Coll |-> ids'[c]]
    BY <1>1
  <2> QED
    BY <1>1, <2>1, <2>2 DEF Types
<1>3. Upto \in Nat /\ Upto' = Upto /\ \A k \in (Upto + 1)..Upto : FALSE
  <2>1. Upto' = Upto
    BY <1>1 DEF Upto
  <2> QED
    BY <2>1, UptoType
<1>4. LogInv'
  BY <1>1 DEF IInv, LogInv
<1>5. ASSUME NEW c \in Coll, c \notin pending PROVE CollInv(c)'
  <2>1. slots'[c] = slots[c] /\ dirty'[c] = dirty[c] /\ (built'[c] => ids'[c] = Table(c))
    BY <1>1, <1>5 DEF Table
  <2>2. /\ Upto <= Upto' /\ \A k \in 1..Upto : log'[k] = log[k]
        /\ \A k \in (Upto + 1)..Upto' : log'[k].coll # c
    BY <1>1, <1>3
  <2> QED
    BY <1>2, <2>1, <2>2, CollUntouched DEF IInv
<1>6. ASSUME NEW c \in Coll, c \in pending PROVE CollInv(c)'
  <2>1. slots'[c] = Removed(c, Marks(c)) /\ (built'[c] => built[c] /\ ids'[c] = Remapped(c, Marks(c)))
    BY <1>1, <1>6
  <2>2. Upto <= Upto' /\ \A k \in 1..Upto : log'[k] = log[k]
    BY <1>1, <1>3
  <2>3. \A i \in Id : Alive(log', c, i, Upto') <=>
         (Alive(log, c, i, Upto) /\ \A g \in Marks(c) \ Marks(c) : At(c, g).id # i)
    BY <1>1, <1>3
  <2>4. ~dirty'[c] => ~dirty[c] /\ Marks(c) = {} /\ Upto' = Upto
    BY <1>1, <1>3 DEF IInv, CollInv, OrderInv
  <2>5. \A k \in (Upto + 1)..Upto' : log'[k].coll = c /\ log'[k].op = "delete"
    BY <1>3
  <2>6. \A i \in DOMAIN slots[c] \ Marks(c) :
          i \in Marks(c) <=> \E k \in 1..(Upto' - Upto) : At(c, i).id = log'[Upto + k].id
    <3>1. Upto' - Upto = 0 /\ 1..0 = {}
      BY <1>3
    <3> QED
      BY <3>1
  <2>7. Removes(c, Marks(c))
    BY <2>1, <2>2, <2>3, <2>4, <2>5, <2>6, Zenon DEF Removes
  <2>8. Marks(c) \subseteq DOMAIN slots[c]
    BY DEF Marks
  <2> QED
    BY <1>2, <2>7, <2>8, CollRemoves DEF IInv
<1> QED
  BY <1>2, <1>4, <1>5, <1>6 DEF IInv

LEMMA ReplayTruncateStep ==
    ASSUME Types, IInv, ReplayTruncate
    PROVE  Types' /\ IInv'
<1>1. /\ mode = "replay" /\ at = Len(log) /\ mode' = "open" /\ synced' = Len(log)
      /\ log' = log /\ at' = at /\ slots' = slots /\ built' = built /\ ids' = ids /\ dirty' = dirty
  BY DEF ReplayTruncate, index
<1>2. Len(log) \in Nat
  BY UptoType
<1>3. Types'
  BY <1>1, <1>2 DEF Types
<1>4. Upto' = Upto
  BY <1>1 DEF Upto
<1>5. \A d \in Coll : built'[d] => ids'[d] = Table(d)
  BY <1>1 DEF Table
<1> QED
  BY <1>1, <1>3, <1>4, <1>5, Unmoved

LEMMA SyncStep ==
    ASSUME Types, IInv, Sync
    PROVE  Types' /\ IInv'
<1>1. /\ mode = "open" /\ synced' \in {synced, Len(log)}
      /\ log' = log /\ mode' = mode /\ at' = at /\ slots' = slots /\ built' = built
      /\ ids' = ids /\ dirty' = dirty
  BY DEF Sync, index
<1>2. Len(log) \in Nat
  BY UptoType
<1>3. Types'
  BY <1>1, <1>2 DEF Types
<1>4. Upto' = Upto
  BY <1>1 DEF Upto
<1>5. \A d \in Coll : built'[d] => ids'[d] = Table(d)
  BY <1>1 DEF Table
<1> QED
  BY <1>1, <1>3, <1>4, <1>5, Unmoved

LEMMA DownStep ==
    ASSUME Types, IInv, Close \/ Crash \/ Open
    PROVE  Types' /\ IInv'
<1>1. synced \in 0..Len(log) /\ Len(log) \in Nat
  BY SMTT(40) DEF Types
<1>2. CASE Close
  <2>1. /\ mode' = "down" /\ synced' \in {synced, Len(log)} /\ log' = log
        /\ EmptyMemory /\ at' = 0
    BY <1>2 DEF Close, Gone
  <2>2. synced' \in 0..Len(log)
    BY <1>1, <2>1
  <2> QED
    BY <2>1, <2>2, WholeLog, ResetStep
<1>3. CASE Crash
  <2>1. /\ mode' = "down" /\ synced' = synced /\ EmptyMemory /\ at' = 0
        /\ \E n \in synced..Len(log) : log' = SubSeq(log, 1, n)
    BY <1>3 DEF Crash, Gone
  <2>2. PICK n \in synced..Len(log) : log' = SubSeq(log, 1, n)
    BY <2>1
  <2>3. n \in 0..Len(log) /\ synced' \in 0..n
    BY <1>1, <2>1, SMTT(40)
  <2> QED
    BY <2>1, <2>2, <2>3, ResetStep
<1>4. CASE Open
  <2>1. /\ mode' = "replay" /\ synced' = synced /\ log' = log /\ EmptyMemory /\ at' = 0
    BY <1>4 DEF Open, Gone, file
  <2> QED
    BY <1>1, <2>1, WholeLog, ResetStep
<1> QED
  BY <1>2, <1>3, <1>4

-----------------------------------------------------------------------------
\* The theorems

LEMMA StartsRight ==
    ASSUME Init
    PROVE  Types /\ IInv
<1>1. /\ log = <<>> /\ synced = 0 /\ mode = "open" /\ at = 0
      /\ slots = [c \in Coll |-> <<>>] /\ built = [c \in Coll |-> FALSE]
      /\ ids = [c \in Coll |-> {}] /\ dirty = [c \in Coll |-> FALSE]
  BY DEF Init
<1>2. Types
  <2>1. log \in Seq(Record) /\ Len(log) = 0
    BY <1>1
  <2>2. slots \in [Coll -> Seq(Slot)] /\ built \in [Coll -> BOOLEAN] /\ dirty \in [Coll -> BOOLEAN]
    BY <1>1
  <2>3. ids = [c \in Coll |-> ids[c]]
    BY <1>1
  <2> QED
    BY <1>1, <2>1, <2>2, <2>3 DEF Types
<1>3. LogInv
  BY <1>1 DEF LogInv
<1>4. ASSUME NEW c \in Coll PROVE CollInv(c)
  <2>1. slots[c] = <<>> /\ DOMAIN slots[c] = {} /\ ~built[c] /\ Upto = 0
    BY <1>1 DEF Upto
  <2>2. SlotInv(c) /\ RowsInv(c)
    BY <2>1 DEF SlotInv, RowsInv
  <2>3. HoldsInv(c)
    BY <2>1, AliveNone DEF HoldsInv
  <2>4. OrderInv(c)
    BY <2>1 DEF OrderInv, Marks, Inserts
  <2>5. FoldInv(c)
    <3>1. DocsOf(log, c)[Upto] = <<>>
      BY <1>2, <2>1, DocsFacts DEF Types
    <3>2. Leads(log, slots[c], DocsOf(log, c)[Upto])
      BY <2>1, <3>1, LeadsNowhere
    <3> QED
      BY <2>2, <3>2, FoldIsLeads
  <2> QED
    BY <2>2, <2>3, <2>4, <2>5 DEF CollInv
<1> QED
  BY <1>2, <1>3, <1>4 DEF IInv

LEMMA StaysRight ==
    ASSUME StoredSame, Types, IInv, [Next]_vars
    PROVE  Types' /\ IInv'
<1>1. ASSUME NEW c \in Coll, NEW d \in Doc, NEW supplied \in BOOLEAN, Insert(c, d, supplied)
      PROVE  Types' /\ IInv'
  BY <1>1, InsertStep
<1>2. ASSUME NEW c \in Coll, NEW ds \in Batches(Doc), NEW sup \in [DOMAIN ds -> BOOLEAN],
             InsertMany(c, ds, sup)
      PROVE  Types' /\ IInv'
  BY <1>2, InsertManyStep
<1>3. ASSUME NEW c \in Coll, NEW f \in Filters, NEW sid \in Id \cup {NoId}, NEW v \in Val,
             Replace(c, f, sid, v)
      PROVE  Types' /\ IInv'
  BY <1>3, ReplaceStep
<1>4. ASSUME NEW c \in Coll, NEW f \in Filters, NEW limit \in {0, 1}, Delete(c, f, limit)
      PROVE  Types' /\ IInv'
  BY <1>4, DeleteStep
<1>5. CASE Sync
  BY <1>5, SyncStep
<1>6. CASE Close \/ Crash \/ Open
  BY <1>6, DownStep
<1>7. CASE ReplayInsert \/ ReplayReplace \/ ReplayDelete
  BY <1>7, ReplayInsertStep, ReplayReplaceStep, ReplayDeleteStep
<1>8. CASE ReplayEnd \/ ReplayTruncate
  BY <1>8, ReplayEndStep, ReplayTruncateStep
<1>9. CASE UNCHANGED vars
  <2>1. /\ log' = log /\ synced' = synced /\ mode' = mode /\ at' = at /\ slots' = slots
        /\ built' = built /\ ids' = ids /\ dirty' = dirty
    BY <1>9 DEF vars
  <2>2. Types'
    BY <2>1 DEF Types
  <2>3. Upto' = Upto
    BY <2>1 DEF Upto
  <2>4. \A d \in Coll : built'[d] => ids'[d] = Table(d)
    BY <2>1 DEF Table
  <2> QED
    BY <2>1, <2>2, <2>3, <2>4, Unmoved
<1> QED
  BY <1>1, <1>2, <1>3, <1>4, <1>5, <1>6, <1>7, <1>8, <1>9 DEF Next

\* The invariant the others follow from: what a fold over the log says of every
\* _id is what the unmarked slots, one to a document, the rows of the table and,
\* while nothing was superseded, the order of the slots say.
THEOREM IInvTheorem ==
    ASSUME StoredSame
    PROVE  Spec => [](Types /\ IInv)
<1>1. Init => Types /\ IInv
  BY StartsRight
<1>2. Types /\ IInv /\ [Next]_vars => (Types /\ IInv)'
  BY StaysRight
<1> QED
  BY <1>1, <1>2, PTL DEF Spec

\* Whatever is inserted, replaced, deleted and replayed, with batches cut short
\* and failed writes, no two documents of a collection carry the same _id.
THEOREM UniqueIdsTheorem ==
    ASSUME StoredSame
    PROVE  Spec => []UniqueIds
<1>1. IInv => UniqueIds
  BY DEF IInv, CollInv, HoldsInv, UniqueIds
<1> QED
  BY <1>1, IInvTheorem, PTL

\* A table that was built, by an operation or by replay, has one row for every
\* document, at the position of the document.
THEOREM TableExactTheorem ==
    ASSUME StoredSame
    PROVE  Spec => []TableExact
<1>1. IInv => TableExact
  <2> SUFFICES ASSUME IInv, NEW c \in Coll, built[c]
               PROVE  {r \in ids[c] : r.pos \notin Marks(c)} =
                        {[fp |-> Fp[At(c, i).id], pos |-> i] : i \in DOMAIN slots[c] \ Marks(c)}
    BY DEF TableExact
  <2>1. ids[c] = {[fp |-> Fp[At(c, i).id], pos |-> i] : i \in DOMAIN slots[c]}
    BY DEF IInv, CollInv, RowsInv, RowsOf
  <2> QED
    BY <2>1
<1> QED
  BY <1>1, IInvTheorem, PTL

\* The index of an open database leads to exactly the documents the records make,
\* in their order, and its lengths are those of the records: after operations that
\* failed half way, batches cut short, crashes, and replay of any of it.
THEOREM IndexIsFoldTheorem ==
    ASSUME StoredSame
    PROVE  Spec => []IndexIsFold
<1>1. Types /\ IInv => IndexIsFold
  <2> SUFFICES ASSUME Types, IInv, mode = "open", NEW c \in Coll
               PROVE  /\ Shown(c) = DocsAfter(c, Len(log))
                      /\ \A s \in ToSet(LiveSlots(c)) : s.len = PayloadLen(log[s.at])
    BY DEF IndexIsFold
  <2>1. FoldInv(c) /\ Upto = Len(log)
    BY DEF IInv, CollInv, Upto
  <2>2. PICK K : K = DOMAIN slots[c] \ Marks(c)
    OBVIOUS
  <2>3. slots[c] \in Seq(Slot) /\ K \subseteq DOMAIN slots[c]
    BY <2>2 DEF Types
  <2>4. /\ DOMAIN Picked(slots[c], K) = 1..Cardinality(K)
        /\ \A i \in 1..Cardinality(K) :
             Nth(K, i) \in K /\ Picked(slots[c], K)[i] = slots[c][Nth(K, i)]
    BY <2>3, PickedFacts
  <2>5. \A s \in ToSet(LiveSlots(c)) : \E i \in K : s = slots[c][i]
    BY <2>2, <2>4, ZenonT(40) DEF ToSet, LiveSlots
  <2>6. \A i \in K : slots[c][i].len = PayloadLen(log[slots[c][i].at])
    BY <2>1, <2>2 DEF FoldInv, At
  <2> QED
    BY <2>1, <2>5, <2>6 DEF FoldInv
<1> QED
  BY <1>1, IInvTheorem, PTL

\* Whether a scan walks the file or follows the index, it shows the documents of
\* the collection in the same order.
THEOREM ScansAgreeTheorem ==
    ASSUME StoredSame
    PROVE  Spec => []ScansAgree
<1>1. Types /\ IInv => ScansAgree
  BY ScanShows DEF ScansAgree, IInv
<1> QED
  BY <1>1, IInvTheorem, PTL

LEMMA NotRefused ==
    ASSUME StoredSame, Odd = {}, Types, IInv, mode # "corrupt", [Next]_vars
    PROVE  mode' # "corrupt"
<1>1. \A c \in Coll : \A i : ~LookupFails(c, i)
  BY DEF LookupFails, Unreadable
<1>2. (\A q : ~Unreadable(q)) /\ \A c \in Coll : ~NoTable(c)
  BY DEF NoTable, Unreadable
<1>3. ASSUME Replaying, NEW r, r = Next1, r.op # "insert"
      PROVE  ~Undecodable(r.coll, r) /\ Lookup(r.coll, r.id) # {}
  <2>1. /\ at \in 0..Len(log) /\ at < Len(log) /\ Len(log) \in Nat /\ log \in Seq(Record)
        /\ r = log[at + 1] /\ mode = "replay"
    BY <1>3 DEF Types, Replaying, Next1
  <2>2. at + 1 \in DOMAIN log /\ (at + 1) - 1 = at
    BY <2>1
  <2>3. r \in Record
    BY <2>1, <2>2
  <2>4. r.coll \in Coll /\ r.id \in Id
    BY <2>3, RecordType
  <2>5. Alive(log, log[at + 1].coll, log[at + 1].id, (at + 1) - 1) <=> log[at + 1].op # "insert"
    BY <2>2 DEF IInv, LogInv
  <2>6. Alive(log, r.coll, r.id, Upto)
    BY <1>3, <2>1, <2>2, <2>5 DEF Upto
  <2>7. Lookup(r.coll, r.id) # {}
    BY <1>1, <2>4, <2>6, LookupFacts DEF IInv
  <2> QED
    BY <1>1, <1>2, <2>4, <2>7 DEF Undecodable
<1>4. ReplayInsert => mode' # "corrupt"
  BY <1>2 DEF ReplayInsert, Replaying, Applied
<1>5. ReplayReplace => mode' # "corrupt"
  <2> SUFFICES ASSUME ReplayReplace PROVE mode' # "corrupt"
    OBVIOUS
  <2>1. PICK r : r = Next1
    OBVIOUS
  <2>2. Replaying /\ r.op = "replace"
    BY <2>1 DEF ReplayReplace
  <2>3. ~Undecodable(r.coll, r) /\ Lookup(r.coll, r.id) # {}
    BY <1>3, <2>1, <2>2
  <2>4. Applied
    BY <2>1, <2>3, Zenon DEF ReplayReplace
  <2> QED
    BY <2>2, <2>4 DEF Applied, Replaying
<1>6. ReplayDelete => mode' # "corrupt"
  <2> SUFFICES ASSUME ReplayDelete PROVE mode' # "corrupt"
    OBVIOUS
  <2>1. PICK r : r = Next1
    OBVIOUS
  <2>2. Replaying /\ r.op = "delete"
    BY <2>1 DEF ReplayDelete
  <2>3. ~Undecodable(r.coll, r) /\ Lookup(r.coll, r.id) # {}
    BY <1>3, <2>1, <2>2
  <2>4. Applied
    BY <2>1, <2>3, Zenon DEF ReplayDelete
  <2> QED
    BY <2>2, <2>4 DEF Applied, Replaying
<1>7. ReplayEnd \/ ReplayTruncate \/ Close \/ Crash \/ Open => mode' # "corrupt"
  BY DEF ReplayEnd, ReplayTruncate, Close, Crash, Open
<1>8. Sync \/ UNCHANGED vars => mode' = mode
  BY DEF Sync, vars
<1>9. ASSUME NEW c \in Coll, NEW d \in Doc, NEW supplied \in BOOLEAN, Insert(c, d, supplied)
      PROVE  mode' = mode
  BY <1>9, Zenon DEF Insert, Refuse, Quiet
<1>10. ASSUME NEW c \in Coll, NEW ds \in Batches(Doc), NEW sup \in [DOMAIN ds -> BOOLEAN],
              InsertMany(c, ds, sup)
       PROVE  mode' = mode
  BY <1>10, Zenon DEF InsertMany, Refuse, Quiet
<1>11. ASSUME NEW c \in Coll, NEW f \in Filters, NEW sid \in Id \cup {NoId}, NEW v \in Val,
              Replace(c, f, sid, v)
       PROVE  mode' = mode
  BY <1>11, Zenon DEF Replace, ReturnUnchanged, Quiet
<1>12. ASSUME NEW c \in Coll, NEW f \in Filters, NEW limit \in {0, 1}, Delete(c, f, limit)
       PROVE  mode' = mode
  BY <1>12, Zenon DEF Delete, ReturnUnchanged, Quiet
<1> QED
  BY <1>4, <1>5, <1>6, <1>7, <1>8, <1>9, <1>10, <1>11, <1>12 DEF Next

\* Where no document has a second key that differs from _id in case only, replay
\* never refuses a file this program wrote: every replace and delete finds its
\* document, whatever was lost behind an fsync.
THEOREM NeverCorruptTheorem ==
    ASSUME StoredSame, Odd = {}
    PROVE  Spec => []NeverCorrupt
<1>1. Init => NeverCorrupt
  BY DEF Init, NeverCorrupt
<1>2. Types /\ IInv /\ NeverCorrupt /\ [Next]_vars => NeverCorrupt'
  BY NotRefused DEF NeverCorrupt
<1> QED
  BY <1>1, <1>2, IInvTheorem, PTL DEF Spec

-----------------------------------------------------------------------------
\* What one record does to the documents of its collection

LEMMA SameSequence ==
    ASSUME NEW S, NEW s \in Seq(S), NEW t \in Seq(S), Len(s) = Len(t),
           \A i \in 1..Len(s) : s[i] = t[i]
    PROVE  s = t
OBVIOUS

LEMMA PrefixIs ==
    ASSUME NEW S, NEW s \in Seq(S), NEW t \in Seq(S), Len(s) <= Len(t),
           \A i \in 1..Len(s) : t[i] = s[i]
    PROVE  Abstract!IsPrefix(s, t)
<1>1. PICK n \in Nat : n = Len(s)
  OBVIOUS
<1>2. n \in 0..Len(s) /\ n \in 0..Len(t)
  BY <1>1
<1>3. PICK u \in Seq(S) : u = SubSeq(s, 1, n) /\ Len(u) = n /\ \A i \in 1..n : u[i] = s[i]
  <2>1. /\ SubSeq(s, 1, n) \in Seq(S) /\ Len(SubSeq(s, 1, n)) = n
        /\ \A i \in 1..n : SubSeq(s, 1, n)[i] = s[i]
    BY <1>2, CutFacts
  <2> QED
    BY <2>1
<1>4. PICK v \in Seq(S) : v = SubSeq(t, 1, n) /\ Len(v) = n /\ \A i \in 1..n : v[i] = t[i]
  <2>1. /\ SubSeq(t, 1, n) \in Seq(S) /\ Len(SubSeq(t, 1, n)) = n
        /\ \A i \in 1..n : SubSeq(t, 1, n)[i] = t[i]
    BY <1>2, CutFacts
  <2> QED
    BY <2>1
<1>5. u = v
  BY <1>1, <1>3, <1>4
<1> QED
  BY <1>1, <1>3, <1>4, <1>5 DEF Abstract!IsPrefix

LEMMA PickedDrops ==
    ASSUME NEW D, NEW s \in Seq(D), NEW J, J \subseteq DOMAIN s
    PROVE  Abstract!Drops(s, Picked(s, J))
<1>1. /\ J \subseteq Nat /\ IsFiniteSet(J) /\ DOMAIN Picked(s, J) = 1..Cardinality(J)
      /\ \A i \in 1..Cardinality(J) : Nth(J, i) \in J /\ Picked(s, J)[i] = s[Nth(J, i)]
  BY PickedFacts
<1>2. \A i, j \in 1..Cardinality(J) : i < j => Nth(J, i) < Nth(J, j)
  BY <1>1, NthFacts
<1>3. PICK t, m : t = Picked(s, J) /\ m = Cardinality(J)
  OBVIOUS
<1>4. PICK f : f = [i \in 1..m |-> Nth(J, i)]
  OBVIOUS
<1>5. /\ DOMAIN t = 1..m /\ f \in [1..m -> DOMAIN s]
      /\ \A i, j \in 1..m : i < j => f[i] < f[j]
      /\ \A i \in 1..m : t[i] = s[f[i]]
  BY <1>1, <1>2, <1>3, <1>4
<1>6. Abstract!Drops(s, t)
  BY <1>5, Zenon DEF Abstract!Drops
<1> QED
  BY <1>3, <1>6

\* A document of that _id is in s.
Has(s, x) == \E i \in DOMAIN s : s[i].id = x

\* An operation took the documents of a collection from s to t.
Moves(s, t) == Abstract!Extends(s, t) \/ Abstract!Swaps(s, t) \/ Abstract!Drops(s, t)

LEMMA OneRecord ==
    ASSUME NEW s \in Seq(Doc), NEW r \in Record, Abstract!Distinct(s),
           Has(s, r.id) <=> r.op # "insert"
    PROVE  /\ Abstract!Distinct(ApplyTo(s, r))
           /\ \A x : Has(ApplyTo(s, r), x) <=> IF x = r.id THEN r.op # "delete" ELSE Has(s, x)
           /\ Moves(s, ApplyTo(s, r))
<1>1. PICK L \in Nat : L = Len(s) /\ DOMAIN s = 1..L
  OBVIOUS
<1>2. \A i, j \in 1..L : s[i].id = s[j].id => i = j
  BY <1>1 DEF Abstract!Distinct
<1>3. r.op \in {"insert", "replace", "delete"} /\ ApplyTo(s, r) \in Seq(Doc)
  BY ApplyType
<1>4. DocOf(r).id = r.id
  BY DEF DocOf
<1>5. CASE r.op = "insert"
  <2>1. PICK d \in Doc : d = DocOf(r) /\ d.id = r.id
    BY <1>4, <1>5, ApplyType
  <2>2. PICK t \in Seq(Doc) : t = Append(s, d)
    <3>1. Append(s, d) \in Seq(Doc)
      OBVIOUS
    <3> QED
      BY <3>1
  <2>3. ApplyTo(s, r) = t
    BY <1>5, <2>1, <2>2 DEF ApplyTo
  <2>4. Len(t) = L + 1 /\ (\A i \in 1..L : t[i] = s[i]) /\ t[L + 1] = d /\ DOMAIN t = 1..(L + 1)
    BY <1>1, <2>2
  <2>5. \A i \in 1..(L + 1) : i \in 1..L \/ i = L + 1
    OBVIOUS
  <2>6. \A i \in 1..L : s[i].id # r.id /\ i \in 1..(L + 1)
    BY <1>1, <1>5 DEF Has
  <2>7. \A i, j \in 1..(L + 1) : t[i].id = t[j].id => i = j
    BY <1>2, <2>1, <2>4, <2>5, <2>6
  <2>8. \A x : Has(t, x) <=> IF x = r.id THEN r.op # "delete" ELSE Has(s, x)
    <3> TAKE x
    <3>1. Has(t, x) <=> Has(s, x) \/ x = r.id
      BY <1>1, <2>1, <2>4, <2>5, <2>6 DEF Has
    <3> QED
      BY <1>5, <3>1
  <2>9. Len(s) <= Len(t)
    BY <1>1, <2>4
  <2>10. Abstract!IsPrefix(s, t)
    BY <1>1, <2>4, <2>9, PrefixIs
  <2>11. Abstract!Distinct(t)
    BY <2>4, <2>7 DEF Abstract!Distinct
  <2>12. Moves(s, t)
    BY <2>10, <2>11, Zenon DEF Moves, Abstract!Extends
  <2> QED
    BY <2>3, <2>8, <2>11, <2>12
<1>6. CASE r.op = "replace"
  <2>1. PICK d \in Doc : d = DocOf(r) /\ d.id = r.id
    BY <1>4, <1>6, ApplyType
  <2>2. PICK t \in Seq(Doc) : t = ApplyTo(s, r)
    BY <1>3
  <2>3. t = [i \in 1..L |-> IF s[i].id = r.id THEN d ELSE s[i]]
    BY <1>1, <1>6, <2>1, <2>2 DEF ApplyTo
  <2>4. PICK p \in 1..L : s[p].id = r.id
    BY <1>1, <1>6 DEF Has
  <2>5. /\ DOMAIN t = 1..L /\ Len(t) = L
        /\ \A i \in 1..L : t[i].id = s[i].id
        /\ \A i \in 1..L \ {p} : t[i] = s[i]
    BY <1>2, <2>1, <2>3, <2>4
  <2>6. Abstract!Distinct(t)
    BY <1>2, <2>5 DEF Abstract!Distinct
  <2>7. \A x : Has(t, x) <=> IF x = r.id THEN r.op # "delete" ELSE Has(s, x)
    BY <1>1, <1>6, <2>4, <2>5 DEF Has
  <2>8. Abstract!Swaps(s, t)
    BY <1>1, <2>4, <2>5 DEF Abstract!Swaps
  <2> QED
    BY <2>2, <2>6, <2>7, <2>8 DEF Moves
<1>7. CASE r.op = "delete"
  <2>1. PICK J : J = {i \in 1..L : s[i].id # r.id}
    OBVIOUS
  <2>2. PICK t : t = Picked(s, J)
    OBVIOUS
  <2>3. ApplyTo(s, r) = t
    BY <1>1, <1>7, <2>1, <2>2 DEF ApplyTo
  <2>4. J \subseteq DOMAIN s
    BY <1>1, <2>1
  <2>5. /\ J \subseteq Nat /\ IsFiniteSet(J) /\ DOMAIN t = 1..Cardinality(J)
        /\ \A i \in 1..Cardinality(J) : Nth(J, i) \in J /\ t[i] = s[Nth(J, i)]
    BY <2>2, <2>4, PickedFacts
  <2>6. /\ \A i \in 1..Cardinality(J) : Rank(J, Nth(J, i)) = i
        /\ \A i \in J : Rank(J, i) \in 1..Cardinality(J) /\ Nth(J, Rank(J, i)) = i
    BY <2>5, NthFacts
  <2>7. \A i, j \in 1..Cardinality(J) : t[i].id = t[j].id => i = j
    <3> SUFFICES ASSUME NEW i \in 1..Cardinality(J), NEW j \in 1..Cardinality(J), t[i].id = t[j].id
                 PROVE  i = j
      OBVIOUS
    <3>1. Nth(J, i) = Nth(J, j)
      BY <1>1, <1>2, <2>4, <2>5
    <3> QED
      BY <2>6, <3>1
  <2>8. \A x : Has(t, x) <=> IF x = r.id THEN r.op # "delete" ELSE Has(s, x)
    <3> TAKE x
    <3>1. Has(t, x) <=> \E i \in J : s[i].id = x
      <4>1. Has(t, x) => \E i \in J : s[i].id = x
        BY <2>5 DEF Has
      <4>2. ASSUME NEW i \in J, s[i].id = x PROVE Has(t, x)
        <5>1. Rank(J, i) \in 1..Cardinality(J) /\ t[Rank(J, i)] = s[i]
          BY <2>5, <2>6
        <5> QED
          BY <2>5, <4>2, <5>1 DEF Has
      <4> QED
        BY <4>1, <4>2
    <3> QED
      BY <1>1, <1>7, <2>1, <3>1 DEF Has
  <2>9. Abstract!Distinct(t)
    BY <2>5, <2>7 DEF Abstract!Distinct
  <2>10. Abstract!Drops(s, t)
    BY <2>2, <2>4, PickedDrops
  <2> QED
    BY <2>3, <2>8, <2>9, <2>10 DEF Moves
<1> QED
  BY <1>3, <1>5, <1>6, <1>7

-----------------------------------------------------------------------------
\* What the records of a file do, one after the other

\* Inserts are of new documents, replaces and deletes of documents that are there.
Right(recs) ==
    \A k \in 1..Len(recs) :
        Alive(recs, recs[k].coll, recs[k].id, k - 1) <=> recs[k].op # "insert"

\* The documents of c after n records have the _ids that are alive by then, one each.
Faithful(recs, c, n) ==
    /\ Abstract!Distinct(DocsOf(recs, c)[n])
    /\ \A x : Has(DocsOf(recs, c)[n], x) <=> Alive(recs, c, x, n)

LEMMA NextRecord ==
    ASSUME NEW recs \in Seq(Record), Right(recs), NEW c, NEW k \in 1..Len(recs),
           recs[k].coll = c, Faithful(recs, c, k - 1)
    PROVE  /\ Faithful(recs, c, k)
           /\ Moves(DocsOf(recs, c)[k - 1], DocsOf(recs, c)[k])
<1>1. Len(recs) \in Nat /\ k \in Nat /\ k - 1 \in Nat /\ k - 1 <= k /\ k - 1 \in 0..Len(recs)
      /\ \A j \in ((k - 1) + 1)..k : j = k
  OBVIOUS
<1>2. PICK r \in Record : r = recs[k]
  OBVIOUS
<1>3. PICK s \in Seq(Doc) : s = DocsOf(recs, c)[k - 1]
  BY <1>1, DocsType
<1>4. PICK t : t = DocsOf(recs, c)[k]
  OBVIOUS
<1>5. t = ApplyTo(s, r)
  BY <1>2, <1>3, <1>4, DocsFacts
<1>6. Has(s, r.id) <=> r.op # "insert"
  BY <1>2, <1>3 DEF Faithful, Right
<1>7. /\ Abstract!Distinct(t)
      /\ \A x : Has(t, x) <=> IF x = r.id THEN r.op # "delete" ELSE Has(s, x)
      /\ Moves(s, t)
  <2>1. Abstract!Distinct(s)
    BY <1>3 DEF Faithful
  <2> QED
    BY <1>5, <1>6, <2>1, OneRecord
<1>8. ASSUME NEW x PROVE Has(t, x) <=> Alive(recs, c, x, k)
  <2>1. CASE x = r.id
    <3>1. About(recs[k], c, x) /\ k \in 1..k /\ \A j \in (k + 1)..k : ~About(recs[j], c, x)
      BY <1>1, <1>2, <2>1 DEF About
    <3>2. Alive(recs, c, x, k) <=> recs[k].op # "delete"
      BY <1>1, <3>1, AliveLast
    <3> QED
      BY <1>2, <1>7, <2>1, <3>2
  <2>2. CASE x # r.id
    <3>1. \A j \in ((k - 1) + 1)..k : ~About(recs[j], c, x)
      BY <1>1, <1>2, <2>2 DEF About
    <3>2. Alive(recs, c, x, k) <=> Alive(recs, c, x, k - 1)
      BY <1>1, <3>1, AliveStill
    <3>3. Has(s, x) <=> Alive(recs, c, x, k - 1)
      BY <1>3 DEF Faithful
    <3> QED
      BY <1>7, <2>2, <3>2, <3>3
  <2> QED
    BY <2>1, <2>2
<1> QED
  BY <1>3, <1>4, <1>7, <1>8 DEF Faithful

LEMMA AllFaithful ==
    ASSUME NEW recs \in Seq(Record), Right(recs), NEW c
    PROVE  \A k \in 0..Len(recs) : Faithful(recs, c, k)
<1> DEFINE S == {k \in Nat : Faithful(recs, c, k)}
<1>1. Len(recs) \in Nat
  OBVIOUS
<1>2. 0 \in S
  <2>1. DocsOf(recs, c)[0] = <<>> /\ DOMAIN <<>> = {}
    BY DocsFacts
  <2>2. Abstract!Distinct(DocsOf(recs, c)[0]) /\ \A x : ~Has(DocsOf(recs, c)[0], x)
    BY <2>1 DEF Abstract!Distinct, Has
  <2> QED
    BY <2>2, AliveNone DEF Faithful
<1>3. ASSUME NEW k \in 0..(Len(recs) - 1), k \in S
      PROVE  k + 1 \in S
  <2>1. k + 1 \in 1..Len(recs) /\ (k + 1) - 1 = k /\ k + 1 \in Nat /\ k \in Nat
    BY <1>1
  <2>2. Faithful(recs, c, k)
    BY <1>3
  <2>3. CASE recs[k + 1].coll = c
    <3>1. Faithful(recs, c, (k + 1) - 1)
      BY <2>1, <2>2
    <3> QED
      BY <2>1, <2>3, <3>1, NextRecord
  <2>4. CASE recs[k + 1].coll # c
    <3>1. DocsOf(recs, c)[k + 1] = DocsOf(recs, c)[k]
      BY <2>1, <2>4, DocsFacts
    <3>2. k <= k + 1 /\ \A j \in (k + 1)..(k + 1) : j = k + 1
      BY <2>1
    <3>3. ASSUME NEW x PROVE Alive(recs, c, x, k + 1) <=> Alive(recs, c, x, k)
      <4>1. \A j \in (k + 1)..(k + 1) : ~About(recs[j], c, x)
        BY <2>4, <3>2 DEF About
      <4> QED
        BY <2>1, <3>2, <4>1, AliveStill
    <3>4. Faithful(recs, c, k + 1)
      BY <2>2, <3>1, <3>3 DEF Faithful
    <3> QED
      BY <2>1, <3>4
  <2> QED
    BY <2>3, <2>4
<1> HIDE DEF S
<1>4. \A k \in 0..Len(recs) : k \in S
  BY <1>1, <1>2, <1>3, Climb
<1> QED
  BY <1>4 DEF S

\* One collection moved, the others stayed.
LEMMA ResultOf ==
    ASSUME NEW a, NEW b, NEW c \in Coll, \A o \in Coll \ {c} : b[o] = a[o], Moves(a[c], b[c])
    PROVE  Abstract!Result(a, b)
BY Zenon DEF Abstract!Result, Moves

LEMMA RecordIsResult ==
    ASSUME NEW recs \in Seq(Record), Right(recs), NEW k \in 1..Len(recs)
    PROVE  Abstract!Result(HeldBy(recs, k - 1), HeldBy(recs, k))
<1>1. k - 1 \in 0..Len(recs) /\ recs[k].coll \in Coll
  <2>1. recs[k] \in Record
    OBVIOUS
  <2> QED
    BY <2>1, RecordType
<1>2. PICK c \in Coll : c = recs[k].coll
  BY <1>1
<1>3. PICK a, b : a = HeldBy(recs, k - 1) /\ b = HeldBy(recs, k)
  OBVIOUS
<1>4. \A o \in Coll : a[o] = DocsOf(recs, o)[k - 1] /\ b[o] = DocsOf(recs, o)[k]
  BY <1>3 DEF HeldBy
<1>5. Faithful(recs, c, k - 1)
  BY <1>1, AllFaithful
<1>6. Moves(a[c], b[c])
  BY <1>2, <1>4, <1>5, NextRecord
<1>7. \A o \in Coll \ {c} : b[o] = a[o]
  BY <1>2, <1>4, DocsFacts
<1>8. Abstract!Result(a, b)
  BY <1>6, <1>7, ResultOf
<1> QED
  BY <1>3, <1>8

\* The m records behind the n-th are those of one operation on c.
OneOperation(recs, c, n, m) ==
    LET New == (n + 1)..(n + m)
    IN  /\ \A k \in New : recs[k].coll = c
        /\ \/ \A k \in New : recs[k].op = "insert"
           \/ \A k \in New : recs[k].op = "delete"
           \/ m = 1

LEMMA OperationIsResult ==
    ASSUME NEW recs \in Seq(Record), Right(recs), NEW c \in Coll, NEW n \in Nat, NEW m \in Nat,
           n + m <= Len(recs), OneOperation(recs, c, n, m)
    PROVE  Abstract!Result(HeldBy(recs, n), HeldBy(recs, n + m))
<1>1. PICK q \in Nat : q = n + m
  OBVIOUS
<1>2. /\ Len(recs) \in Nat /\ q <= Len(recs) /\ n \in 0..Len(recs) /\ q \in 0..Len(recs)
      /\ \A k \in (n + 1)..q : recs[k].coll = c
  BY <1>1 DEF OneOperation
<1>3. CASE m = 1
  <2>1. q \in 1..Len(recs) /\ n = q - 1
    BY <1>1, <1>2, <1>3
  <2> QED
    BY <1>1, <2>1, RecordIsResult
<1>4. PICK a, b : a = HeldBy(recs, n) /\ b = HeldBy(recs, q)
  OBVIOUS
<1>5. \A o \in Coll : a[o] = DocsOf(recs, o)[n] /\ b[o] = DocsOf(recs, o)[q]
  BY <1>4 DEF HeldBy
<1>6. ASSUME NEW o \in Coll \ {c} PROVE b[o] = a[o]
  <2>1. \A k \in (n + 1)..(n + m) : recs[k].coll # o
    BY <1>1, <1>2
  <2>2. DocsOf(recs, o)[n + m] = DocsOf(recs, o)[n]
    BY <2>1, DocsOthers
  <2> QED
    BY <1>1, <1>5, <2>2
<1>7. PICK s \in Seq(Doc) : s = a[c]
  BY <1>2, <1>5, DocsType
<1>8. PICK t \in Seq(Doc) : t = b[c]
  BY <1>2, <1>5, DocsType
<1>9. CASE \A k \in (n + 1)..q : recs[k].op = "insert"
  <2>1. PICK x : x = [j \in 1..m |-> DocOf(recs[n + j])]
    OBVIOUS
  <2>2. ASSUME NEW j \in 1..m PROVE DocOf(recs[n + j]) \in Doc
    <3>1. n + j \in 1..Len(recs) /\ n + j \in (n + 1)..q
      BY <1>1, <1>2
    <3>2. recs[n + j] \in Record /\ recs[n + j].op # "delete"
      BY <1>9, <3>1
    <3>3. <<>> \in Seq(Doc)
      OBVIOUS
    <3> QED
      BY <3>2, <3>3, ApplyType
  <2>3. x \in Seq(Doc) /\ Len(x) = m /\ \A j \in 1..m : x[j] = DocOf(recs[n + j])
    BY <2>1, <2>2
  <2>4. Brings(recs, c, x, n, m)
    BY <1>1, <1>2, <1>9, <2>3 DEF Brings
  <2>5. t = s \o x
    <3>1. DocsOf(recs, c)[n + m] = DocsOf(recs, c)[n] \o x
      BY <2>3, <2>4, DocsAppended
    <3> QED
      BY <1>1, <1>5, <1>7, <1>8, <3>1
  <2>6. Len(s) <= Len(t) /\ \A i \in 1..Len(s) : t[i] = s[i]
    <3>1. /\ Len(s \o x) = Len(s) + Len(x)
          /\ \A k \in 1..Len(s) : (s \o x)[k] = s[k]
      BY <2>3, ConcatFacts, ZenonT(40)
    <3>2. Len(s) \in Nat
      OBVIOUS
    <3> QED
      BY <2>3, <2>5, <3>1, <3>2
  <2>7. Abstract!IsPrefix(s, t)
    BY <2>6, PrefixIs
  <2>8. Abstract!Distinct(t)
    BY <1>2, <1>5, <1>8, AllFaithful DEF Faithful
  <2>9. Moves(s, t)
    BY <2>7, <2>8, Zenon DEF Moves, Abstract!Extends
  <2>10. Abstract!Result(a, b)
    BY <1>6, <1>7, <1>8, <2>9, ResultOf
  <2> QED
    BY <1>1, <1>4, <2>10
<1>10. CASE \A k \in (n + 1)..q : recs[k].op = "delete"
  <2>1. PICK J : J = {i \in DOMAIN s : \A k \in 1..m : s[i].id # recs[n + k].id}
    OBVIOUS
  <2>2. Takes(recs, c, DocsOf(recs, c)[n], n, m, J)
    BY <1>1, <1>2, <1>5, <1>7, <1>10, <2>1 DEF Takes
  <2>3. t = Picked(s, J)
    <3>1. DocsOf(recs, c)[n + m] = Picked(DocsOf(recs, c)[n], J)
      BY <2>2, DocsDropped
    <3> QED
      BY <1>1, <1>5, <1>7, <1>8, <3>1
  <2>4. J \subseteq DOMAIN s
    BY <2>1
  <2>5. Moves(s, t)
    <3>1. Abstract!Drops(s, t)
      BY <2>3, <2>4, PickedDrops
    <3> QED
      BY <3>1 DEF Moves
  <2>6. Abstract!Result(a, b)
    BY <1>6, <1>7, <1>8, <2>5, ResultOf
  <2> QED
    BY <1>1, <1>4, <2>6
<1> QED
  BY <1>1, <1>3, <1>9, <1>10 DEF OneOperation

-----------------------------------------------------------------------------
\* What a caller sees before and after a step

\* The mapping, in these terms.
LEMMA ShownIs ==
    ASSUME Types, IInv
    PROVE  /\ mode = "open" => ShownAll = HeldBy(log, Len(log))
           /\ mode # "open" => ShownAll = Abstract!Empty
           /\ Right(log)
<1>1. ASSUME mode = "open" PROVE ShownAll = HeldBy(log, Len(log))
  <2>1. \A c \in Coll : Shown(c) = DocsOf(log, c)[Len(log)]
    BY <1>1 DEF IInv, CollInv, FoldInv, Upto, DocsAfter
  <2> QED
    BY <1>1, <2>1 DEF ShownAll, HeldBy
<1>2. mode # "open" => ShownAll = Abstract!Empty
  BY DEF ShownAll, Abstract!Empty
<1>3. Right(log)
  BY DEF IInv, LogInv, Right, Types
<1> QED
  BY <1>1, <1>2, <1>3

LEMMA ShownIsNext ==
    ASSUME Types', IInv'
    PROVE  /\ mode' = "open" => ShownAll' = HeldBy(log', Len(log'))
           /\ mode' # "open" => ShownAll' = Abstract!Empty
           /\ Right(log')
<1>1. ASSUME mode' = "open" PROVE ShownAll' = HeldBy(log', Len(log'))
  <2>1. \A c \in Coll : Shown(c)' = DocsOf(log', c)[Len(log')]
    BY <1>1 DEF IInv, CollInv, FoldInv, Upto, DocsAfter
  <2> QED
    BY <1>1, <2>1 DEF ShownAll, HeldBy
<1>2. mode' # "open" => ShownAll' = Abstract!Empty
  BY DEF ShownAll, Abstract!Empty
<1>3. Right(log')
  BY DEF IInv, LogInv, Right, Types
<1> QED
  BY <1>1, <1>2, <1>3

\* The states a crash can go back to.
HistOf(recs, s) == [i \in 1..(Len(recs) - s + 1) |-> HeldBy(recs, s + i - 1)]

LEMMA HistFacts ==
    ASSUME NEW recs \in Seq(Record), NEW s \in 0..Len(recs)
    PROVE  /\ HistOf(recs, s) \in Seq([Coll -> Seq(Doc)])
           /\ Len(HistOf(recs, s)) = Len(recs) - s + 1
           /\ DOMAIN HistOf(recs, s) = 1..(Len(recs) - s + 1)
           /\ \A i \in 1..(Len(recs) - s + 1) : HistOf(recs, s)[i] = HeldBy(recs, s + i - 1)
           /\ Abstract!Last(HistOf(recs, s)) = HeldBy(recs, Len(recs))
<1>1. PICK n \in Nat : n = Len(recs) - s + 1 /\ n # 0 /\ s + n - 1 = Len(recs)
  OBVIOUS
<1>2. PICK h : h = HistOf(recs, s)
  OBVIOUS
<1>3. h = [i \in 1..n |-> HeldBy(recs, s + i - 1)]
  BY <1>1, <1>2 DEF HistOf
<1>4. ASSUME NEW i \in 1..n PROVE HeldBy(recs, s + i - 1) \in [Coll -> Seq(Doc)]
  <2>1. s + i - 1 \in 0..Len(recs)
    BY <1>1
  <2> QED
    BY <2>1, DocsType DEF HeldBy
<1>5. /\ h \in Seq([Coll -> Seq(Doc)]) /\ Len(h) = n /\ DOMAIN h = 1..n
      /\ \A i \in 1..n : h[i] = HeldBy(recs, s + i - 1)
  <2>1. PICK D : D = [Coll -> Seq(Doc)]
    OBVIOUS
  <2>2. DOMAIN h = 1..n /\ \A i \in 1..n : h[i] \in D /\ h[i] = HeldBy(recs, s + i - 1)
    BY <1>3, <1>4, <2>1
  <2>3. h = [i \in 1..n |-> h[i]]
    BY <1>3
  <2>4. h \in Seq(D) /\ Len(h) = n
    BY <2>2, <2>3, SMTT(40)
  <2> QED
    BY <2>1, <2>2, <2>4
<1>6. Abstract!Last(h) = HeldBy(recs, Len(recs))
  BY <1>1, <1>5 DEF Abstract!Last
<1> QED
  BY <1>1, <1>2, <1>5, <1>6

\* When everything is covered, one state is left.
LEMMA HistFlushed ==
    ASSUME NEW recs \in Seq(Record)
    PROVE  HistOf(recs, Len(recs)) = <<HeldBy(recs, Len(recs))>>
<1>1. PICK n \in Nat : n = Len(recs) /\ n - n + 1 = 1 /\ n + 1 - 1 = n
  OBVIOUS
<1>2. \A i \in 1..1 : n + i - 1 = n
  OBVIOUS
<1>3. HistOf(recs, n) = [i \in 1..1 |-> HeldBy(recs, n + i - 1)]
  BY <1>1 DEF HistOf
<1>4. HistOf(recs, n) = [i \in 1..1 |-> HeldBy(recs, n)]
  BY <1>2, <1>3
<1>5. PICK x : x = HeldBy(recs, n)
  OBVIOUS
<1>6. [i \in 1..1 |-> x] = <<x>>
  OBVIOUS
<1>7. HistOf(recs, n) = <<x>>
  BY <1>4, <1>5, <1>6
<1> QED
  BY <1>1, <1>5, <1>7

\* A file that begins with the same records was in the same states up to there.
LEMMA HeldSame ==
    ASSUME NEW recs \in Seq(Record), NEW other \in Seq(Record), NEW n \in Nat,
           n <= Len(recs), n <= Len(other), \A k \in 1..n : other[k] = recs[k]
    PROVE  \A k \in 0..n : HeldBy(other, k) = HeldBy(recs, k)
<1>1. \A c \in Coll : \A k \in 0..n : DocsOf(other, c)[k] = DocsOf(recs, c)[k]
  BY DocsSame
<1> QED
  BY <1>1 DEF HeldBy

-----------------------------------------------------------------------------
\* Operations

\* Synced is left alone or at the end of the log.
Covers == synced' = synced \/ synced' = Len(log')

\* The step adds the m records of an operation on c, and may cover them.
Writes(c, m) ==
    /\ mode = "open" /\ mode' = "open"
    /\ Len(log') = Len(log) + m
    /\ \A k \in 1..Len(log) : log'[k] = log[k]
    /\ OneOperation(log', c, Len(log), m)
    /\ Covers

LEMMA WritesIsWrite ==
    ASSUME Types, IInv, Types', IInv', NEW c \in Coll, NEW m \in Nat, Writes(c, m)
    PROVE  Abstract!Write
<1>1. PICK n \in Nat : n = Len(log)
  BY UptoType
<1>2. PICK q \in Nat : q = n + m
  OBVIOUS
<1>3. PICK recs \in Seq(Record) : recs = log
  BY DEF Types
<1>4. PICK other \in Seq(Record) : other = log'
  BY DEF Types
<1>5. /\ Len(recs) = n /\ Len(other) = q /\ n <= q /\ Len(other) = n + m
      /\ \A k \in 1..n : other[k] = recs[k]
      /\ OneOperation(other, c, n, m)
      /\ Right(other)
  <2>1. Right(log')
    BY ShownIsNext
  <2> QED
    BY <1>1, <1>2, <1>3, <1>4, <2>1 DEF Writes
<1>6. PICK s \in 0..n : s = synced
  BY <1>1 DEF Types
<1>7. PICK z : z = synced'
  OBVIOUS
<1>8. z = s \/ z = q
  BY <1>2, <1>4, <1>5, <1>6, <1>7 DEF Writes, Covers
<1>9. \A k \in 0..n : HeldBy(other, k) = HeldBy(recs, k)
  BY <1>5, HeldSame
<1>10. PICK d, e, h, i : d = ShownAll /\ e = ShownAll' /\ h = Recoverable /\ i = Recoverable'
  OBVIOUS
<1>11. d = HeldBy(other, n) /\ e = HeldBy(other, q)
  <2>1. d = HeldBy(log, Len(log)) /\ e = HeldBy(log', Len(log'))
    BY <1>10, ShownIs, ShownIsNext DEF Writes
  <2> QED
    BY <1>1, <1>3, <1>4, <1>5, <1>9, <2>1
<1>12. h = HistOf(recs, s) /\ i = HistOf(other, z)
  BY <1>3, <1>4, <1>6, <1>7, <1>10 DEF HistOf, Recoverable
<1>13. Abstract!Result(d, e)
  <2>1. n + m <= Len(other)
    BY <1>5
  <2>2. Abstract!Result(HeldBy(other, n), HeldBy(other, n + m))
    BY <1>5, <2>1, OperationIsResult
  <2> QED
    BY <1>2, <1>11, <2>2
<1>14. CASE z = q
  <2>1. i = <<e>>
    BY <1>5, <1>11, <1>12, <1>14, HistFlushed
  <2> QED
    BY <1>10, <1>13, <2>1 DEF Abstract!Write, Writes
<1>15. CASE z = s
  <2>1. /\ h \in Seq([Coll -> Seq(Doc)]) /\ Len(h) = n - s + 1
        /\ \A j \in 1..(n - s + 1) : h[j] = HeldBy(recs, s + j - 1)
    BY <1>5, <1>12, HistFacts
  <2>2. s \in 0..q
    BY <1>5
  <2>3. /\ i \in Seq([Coll -> Seq(Doc)]) /\ Len(i) = q - s + 1
        /\ \A j \in 1..(q - s + 1) : i[j] = HeldBy(other, s + j - 1)
        /\ Abstract!Last(i) = e
    BY <1>5, <1>11, <1>12, <1>15, <2>2, HistFacts
  <2>4. Len(h) <= Len(i) /\ \A j \in 1..Len(h) : i[j] = h[j]
    <3>1. Len(h) <= Len(i)
      <4>1. n <= q
        BY <1>5
      <4>2. n - s + 1 <= q - s + 1
        BY <4>1
      <4> QED
        BY <2>1, <2>3, <4>2
    <3>2. ASSUME NEW j \in 1..(n - s + 1) PROVE i[j] = h[j]
      <4>1. j \in 1..(q - s + 1) /\ s + j - 1 \in 0..n
        BY <1>5, SMTT(40)
      <4> QED
        BY <1>9, <2>1, <2>3, <4>1
    <3> QED
      BY <2>1, <3>1, <3>2
  <2>5. Abstract!IsPrefix(h, i)
    BY <2>1, <2>3, <2>4, PrefixIs
  <2>6. ASSUME NEW j \in Len(h)..(Len(i) - 1) PROVE Abstract!Result(i[j], i[j + 1])
    <3>1. /\ j \in 1..(q - s + 1) /\ j + 1 \in 1..(q - s + 1) /\ s + j \in 1..q
          /\ s + (j + 1) - 1 = s + j
      <4>1. n <= q
        BY <1>5
      <4>2. j \in (n - s + 1)..(q - s + 1 - 1)
        BY <2>1, <2>3
      <4> QED
        BY <4>1, <4>2
    <3>2. PICK k \in 1..q : k = s + j
      BY <3>1
    <3>3. i[j] = HeldBy(other, k - 1) /\ i[j + 1] = HeldBy(other, k)
      BY <2>3, <3>1, <3>2
    <3> QED
      BY <1>5, <3>3, RecordIsResult
  <2> QED
    BY <1>10, <1>13, <2>3, <2>5, <2>6 DEF Abstract!Write, Writes
<1> QED
  BY <1>8, <1>14, <1>15

\* The call writes nothing.
LEMMA NothingWritten ==
    ASSUME mode = "open", mode' = mode, log' = log, synced' = synced, NEW c, Types
    PROVE  Writes(c, 0)
<1>1. Len(log) \in Nat
  BY UptoType
<1>2. Len(log') = Len(log) + 0 /\ \A k \in (Len(log) + 1)..(Len(log) + 0) : FALSE
  BY <1>1
<1> QED
  BY <1>2 DEF Writes, Covers, OneOperation

LEMMA RefuseWrites ==
    ASSUME Types, mode = "open", NEW c, NEW o, NEW w, Refuse(o, w)
    PROVE  Writes(c, 0)
BY NothingWritten DEF Refuse, Quiet

LEMMA ReturnUnchangedWrites ==
    ASSUME Types, mode = "open", NEW c, NEW e, ReturnUnchanged(e)
    PROVE  Writes(c, 0)
BY NothingWritten DEF ReturnUnchanged, Quiet

LEMMA SyncAfterCovers ==
    ASSUME NEW e, SyncAfter(e)
    PROVE  Covers
BY DEF SyncAfter, Covers

\* Records behind the log.
LEMMA RecordsWritten ==
    ASSUME Types, mode = "open", Quiet, NEW e, SyncAfter(e), NEW c \in Coll,
           NEW R \in Seq(Record), log' = log \o R,
           \A k \in 1..Len(R) : R[k].coll = c,
           \/ \A k \in 1..Len(R) : R[k].op = "insert"
           \/ \A k \in 1..Len(R) : R[k].op = "delete"
           \/ Len(R) = 1
    PROVE  Writes(c, Len(R))
<1>1. PICK n \in Nat : n = Len(log)
  BY UptoType
<1>2. PICK m \in Nat : m = Len(R)
  OBVIOUS
<1>3. /\ Len(log') = n + m
      /\ \A k \in 1..n : log'[k] = log[k]
      /\ \A k \in 1..m : log'[n + k] = R[k]
  <2>1. log \in Seq(Record)
    BY DEF Types
  <2>2. /\ Len(log \o R) = Len(log) + Len(R)
        /\ \A k \in 1..Len(log) : (log \o R)[k] = log[k]
        /\ \A k \in 1..Len(R) : (log \o R)[Len(log) + k] = R[k]
    BY <2>1, ConcatFacts
  <2> QED
    BY <1>1, <1>2, <2>2
<1>4. \A k \in (n + 1)..(n + m) : k - n \in 1..m /\ log'[k] = R[k - n]
  <2> TAKE k \in (n + 1)..(n + m)
  <2>1. k - n \in 1..m /\ n + (k - n) = k
    OBVIOUS
  <2> QED
    BY <1>3, <2>1
<1>5. OneOperation(log', c, n, m)
  BY <1>2, <1>4 DEF OneOperation
<1>6. Covers /\ mode' = mode
  BY SyncAfterCovers DEF Quiet
<1> QED
  BY <1>1, <1>2, <1>3, <1>5, <1>6 DEF Writes

LEMMA PublishWrites ==
    ASSUME Types, StoredSame, mode = "open", Quiet, NEW e, SyncAfter(e),
           NEW c \in Coll, NEW ds \in Seq(Doc), NEW w, Publish(c, ds, w)
    PROVE  Writes(c, Len(ds))
<1>1. PICK m \in Nat : m = Len(ds) /\ DOMAIN ds = 1..m
  OBVIOUS
<1>2. PICK R : R = [k \in 1..m |-> InsertRecord(c, ds[k])]
  OBVIOUS
<1>3. \A k \in 1..m : R[k] \in Record /\ R[k].coll = c /\ R[k].op = "insert"
  <2> TAKE k \in 1..m
  <2>1. ds[k] \in Doc
    BY <1>1
  <2>2. ds[k].id \in Id /\ ds[k].val \in Val /\ Stored[ds[k].id] \in Id
    BY <2>1, StoredAssumption DEF Doc
  <2>3. R[k] = InsertRecord(c, ds[k])
    BY <1>2
  <2> QED
    BY <2>2, <2>3 DEF InsertRecord, Record
<1>4. R \in Seq(Record) /\ Len(R) = m
  BY <1>2, <1>3
<1>5. log' = log \o R
  BY <1>1, <1>2, Zenon DEF Publish
<1>6. Writes(c, Len(R))
  BY <1>3, <1>4, <1>5, RecordsWritten
<1> QED
  BY <1>1, <1>4, <1>6

LEMMA InsertWrites ==
    ASSUME Types, StoredSame, NEW c \in Coll, NEW d \in Doc, NEW supplied,
           Insert(c, d, supplied)
    PROVE  \E m \in Nat : Writes(c, m)
<1>1. mode = "open"
  BY DEF Insert
<1>2. CASE \E w : Refuse(c, w)
  BY <1>1, <1>2, RefuseWrites
<1>3. CASE Publish(c, <<d>>, supplied) /\ SyncAfter(FALSE) /\ Quiet
  <2>1. PICK ds \in Seq(Doc) : ds = <<d>> /\ Len(ds) \in Nat
    <3>1. <<d>> \in Seq(Doc) /\ Len(<<d>>) \in Nat
      OBVIOUS
    <3> QED
      BY <3>1
  <2>2. Writes(c, Len(ds))
    BY <1>1, <1>3, <2>1, PublishWrites
  <2> QED
    BY <2>1, <2>2
<1> QED
  BY <1>2, <1>3, Zenon DEF Insert

LEMMA InsertManyWrites ==
    ASSUME Types, StoredSame, NEW c \in Coll, NEW ds \in Batches(Doc), NEW sup,
           InsertMany(c, ds, sup)
    PROVE  \E m \in Nat : Writes(c, m)
<1>1. mode = "open"
  BY DEF InsertMany
<1>2. ds \in Seq(Doc) /\ Len(ds) \in Nat
  <2>1. PICK n \in 1..MaxBatch : ds \in [1..n -> Doc]
    BY DEF Batches
  <2>2. n \in Nat
    BY BoundsAssumption
  <2> QED
    BY <2>1, <2>2
<1>3. CASE \E w : Refuse(c, w)
  BY <1>1, <1>3, RefuseWrites
<1>4. CASE \E w, e : \E n \in 0..Len(ds) : Publish(c, SubSeq(ds, 1, n), w) /\ SyncAfter(e) /\ Quiet
  <2>1. PICK w, e : \E n \in 0..Len(ds) : Publish(c, SubSeq(ds, 1, n), w) /\ SyncAfter(e) /\ Quiet
    BY <1>4
  <2>2. PICK n \in 0..Len(ds) : Publish(c, SubSeq(ds, 1, n), w) /\ SyncAfter(e) /\ Quiet
    BY <2>1
  <2>3. SubSeq(ds, 1, n) \in Seq(Doc) /\ Len(SubSeq(ds, 1, n)) \in Nat
    <3>1. SubSeq(ds, 1, n) \in Seq(Doc) /\ Len(SubSeq(ds, 1, n)) = n
      BY <1>2, CutFacts
    <3> QED
      BY <1>2, <3>1
  <2>4. PICK b \in Seq(Doc) : b = SubSeq(ds, 1, n) /\ Len(b) \in Nat
    BY <2>3
  <2>5. Writes(c, Len(b))
    BY <1>1, <2>2, <2>4, PublishWrites
  <2> QED
    BY <2>4, <2>5
<1> QED
  BY <1>3, <1>4, Zenon DEF InsertMany

LEMMA ReplaceWrites ==
    ASSUME Types, IInv, NEW c \in Coll, NEW f, NEW sid, NEW v \in Val,
           Replace(c, f, sid, v)
    PROVE  \E m \in Nat : Writes(c, m)
<1>1. mode = "open" /\ CollInv(c)
  BY DEF Replace, IInv
<1>2. CASE \E e : ReturnUnchanged(e)
  BY <1>1, <1>2, ReturnUnchangedWrites
<1> DEFINE pos == Min(Matches(c, f))
           r == ReplaceRecord(c, [id |-> At(c, pos).id, val |-> v])
<1>3. CASE Matches(c, f) # {} /\ log' = Append(log, r) /\ SyncAfter(FALSE) /\ Quiet
  <2>1. pos \in DOMAIN slots[c]
    <3>1. \A i \in DOMAIN Scan(c) : i \in DOMAIN slots[c]
      BY <1>1, ScanFacts
    <3>2. Matches(c, f) \subseteq DOMAIN Scan(c)
      BY DEF Matches
    <3>3. DOMAIN slots[c] \subseteq Nat
      BY <1>1, SlotFacts DEF CollInv
    <3>4. Min(Matches(c, f)) \in Matches(c, f)
      BY <1>3, <3>1, <3>2, <3>3, MinInSet
    <3> QED
      BY <3>1, <3>2, <3>4
  <2> HIDE DEF pos
  <2>2. At(c, pos).id \in Id
    BY <1>1, <2>1, SlotFacts DEF CollInv
  <2>3. r \in Record /\ r.coll = c
    BY <2>2 DEF Record, ReplaceRecord
  <2> HIDE DEF r
  <2>4. PICK R \in Seq(Record) : R = <<r>> /\ Len(R) = 1 /\ R[1] = r
    <3>1. <<r>> \in Seq(Record) /\ Len(<<r>>) = 1 /\ <<r>>[1] = r
      BY <2>3
    <3> QED
      BY <3>1
  <2>5. log' = log \o R
    <3>1. log \in Seq(Record)
      BY DEF Types
    <3> QED
      BY <1>3, <2>3, <2>4, <3>1, AppendIsConcat
  <2>6. \A k \in 1..Len(R) : R[k].coll = c
    BY <2>3, <2>4
  <2>7. Writes(c, Len(R))
    BY <1>1, <1>3, <2>4, <2>5, <2>6, RecordsWritten
  <2> QED
    BY <2>4, <2>7
<1> QED
  <2>1. \/ ReturnUnchanged(ScanFails(c)) \/ ReturnUnchanged(TRUE)
        \/ Matches(c, f) # {} /\ log' = Append(log, r) /\ SyncAfter(FALSE) /\ Quiet
    BY Zenon DEF Replace
  <2> QED
    BY <1>2, <1>3, <2>1

LEMMA DeleteWrites ==
    ASSUME Types, IInv, NEW c \in Coll, NEW f, NEW limit, Delete(c, f, limit)
    PROVE  \E m \in Nat : Writes(c, m)
<1> DEFINE stopsEarly == limit = 1 /\ Matches(c, f) # {}
           found == IF stopsEarly THEN {Min(Matches(c, f))} ELSE Matches(c, f)
<1>1. mode = "open" /\ CollInv(c)
  BY DEF Delete, IInv
<1>2. CASE \E e : ReturnUnchanged(e)
  BY <1>1, <1>2, ReturnUnchangedWrites
<1>3. CASE \E n \in 0..Cardinality(found) : Deletes1(c, found, n)
  <2>1. Matches(c, f) \subseteq DOMAIN Scan(c)
    BY DEF Matches
  <2>2. PICK L \in Nat : /\ DOMAIN slots[c] = 1..L
                         /\ \A i \in DOMAIN Scan(c) : i \in 1..L /\ Scan(c)[i].id \in Id
    <3>1. /\ Len(slots[c]) \in Nat /\ DOMAIN slots[c] = 1..Len(slots[c])
          /\ \A i \in DOMAIN slots[c] : At(c, i).id \in Id
      BY <1>1, SlotFacts DEF CollInv
    <3>2. \A i \in DOMAIN Scan(c) : i \in DOMAIN slots[c] /\ Scan(c)[i].id = At(c, i).id
      BY <1>1, ScanFacts
    <3> QED
      BY <3>1, <3>2
  <2>3. Matches(c, f) \subseteq Nat
    BY <2>1, <2>2
  <2>4. found \subseteq DOMAIN Scan(c)
    BY <2>1, <2>3, MinInSet
  <2> HIDE DEF found
  <2>5. found \subseteq Nat /\ IsFiniteSet(found)
    <3>1. found \subseteq 1..L
      BY <2>2, <2>4
    <3>2. IsFiniteSet(1..L)
      BY FS_Interval
    <3>3. IsFiniteSet(found)
      BY <3>1, <3>2, FS_Subset
    <3> QED
      BY <3>1, <3>3
  <2>6. /\ Cardinality(found) \in Nat
        /\ \A k \in 1..Cardinality(found) : Nth(found, k) \in found
    BY <2>5, NthFacts
  <2>7. PICK n \in 0..Cardinality(found) : Deletes1(c, found, n)
    BY <1>3
  <2>8. PICK R : R = [k \in 1..n |-> Tombstone(c, Scan(c)[Nth(found, k)].id)]
    OBVIOUS
  <2>9. log' = log \o R /\ (\E e : SyncAfter(e)) /\ Quiet
    BY <2>7, <2>8, Zenon DEF Deletes1
  <2>10. ASSUME NEW k \in 1..n PROVE R[k] \in Record /\ R[k].coll = c /\ R[k].op = "delete"
    <3>1. Nth(found, k) \in found
      BY <2>6
    <3>2. Scan(c)[Nth(found, k)].id \in Id
      BY <2>2, <2>4, <3>1
    <3>3. R[k] = Tombstone(c, Scan(c)[Nth(found, k)].id)
      BY <2>8
    <3> QED
      BY <3>2, <3>3 DEF Tombstone, Record
  <2>11. n \in Nat /\ R \in Seq(Record) /\ Len(R) = n
    BY <2>6, <2>8, <2>10
  <2>12. Writes(c, Len(R))
    BY <1>1, <2>9, <2>10, <2>11, RecordsWritten
  <2> QED
    BY <2>11, <2>12
<1> QED
  <2>1. \/ ReturnUnchanged(ScanFails(c))
        \/ \E n \in 0..Cardinality(found) : Deletes1(c, found, n)
    BY Zenon DEF Delete, Deletes1
  <2> QED
    BY <1>2, <1>3, <2>1

-----------------------------------------------------------------------------
\* Flushing, closing, crashing, opening

\* What Recoverable is, before and after a step.
LEMMA RecoverableIs ==
    ASSUME Types, Types'
    PROVE  /\ Recoverable = HistOf(log, synced) /\ Recoverable' = HistOf(log', synced')
           /\ log \in Seq(Record) /\ synced \in 0..Len(log) /\ Len(log) \in Nat
           /\ log' \in Seq(Record) /\ synced' \in 0..Len(log')
           /\ Abstract!Last(Recoverable) = HeldBy(log, Len(log))
<1>1. Recoverable = HistOf(log, synced) /\ Recoverable' = HistOf(log', synced')
  BY DEF Recoverable, HistOf
<1>2. /\ log \in Seq(Record) /\ synced \in 0..Len(log) /\ Len(log) \in Nat
      /\ log' \in Seq(Record) /\ synced' \in 0..Len(log')
  BY DEF Types
<1>3. Abstract!Last(HistOf(log, synced)) = HeldBy(log, Len(log))
  BY <1>2, HistFacts
<1> QED
  BY <1>1, <1>2, <1>3

\* The records are the same, and an fsync may have covered them.
LEMMA HistStays ==
    ASSUME Types, Types', log' = log, synced' \in {synced, Len(log)}
    PROVE  Recoverable' \in {Recoverable, <<HeldBy(log, Len(log))>>}
<1>1. CASE synced' = synced
  BY <1>1, RecoverableIs
<1>2. CASE synced' = Len(log)
  <2>1. HistOf(log, Len(log)) = <<HeldBy(log, Len(log))>>
    BY HistFlushed, RecoverableIs
  <2> QED
    BY <1>2, <2>1, RecoverableIs
<1> QED
  BY <1>1, <1>2

LEMMA SyncMaps ==
    ASSUME Types, IInv, Types', IInv', Sync
    PROVE  Abstract!Flush \/ UNCHANGED Abstract!vars
<1>1. mode = "open" /\ mode' = mode /\ log' = log /\ synced' \in {synced, Len(log)}
  BY DEF Sync
<1>2. ShownAll = HeldBy(log, Len(log)) /\ ShownAll' = ShownAll
  BY <1>1, ShownIs, ShownIsNext
<1>3. Recoverable' \in {Recoverable, <<ShownAll>>}
  BY <1>1, <1>2, HistStays
<1> QED
  BY <1>1, <1>2, <1>3 DEF Abstract!Flush, Abstract!vars

LEMMA CloseMaps ==
    ASSUME Types, IInv, Types', IInv', Close
    PROVE  Abstract!Close
<1>1. mode = "open" /\ mode' = "down" /\ log' = log /\ synced' \in {synced, Len(log)}
  BY DEF Close
<1>2. ShownAll = HeldBy(log, Len(log)) /\ ShownAll' = Abstract!Empty
  BY <1>1, ShownIs, ShownIsNext
<1>3. Recoverable' \in {Recoverable, <<ShownAll>>}
  BY <1>1, <1>2, HistStays
<1> QED
  BY <1>1, <1>2, <1>3 DEF Abstract!Close

LEMMA CrashMaps ==
    ASSUME Types, IInv, Types', IInv', Crash
    PROVE  Abstract!Crash
<1>1. PICK n \in synced..Len(log) : mode' = "down" /\ log' = SubSeq(log, 1, n) /\ synced' = synced
  BY DEF Crash
<1>2. PICK recs \in Seq(Record) : recs = log
  BY DEF Types
<1>3. PICK s \in 0..Len(recs) : s = synced
  BY <1>2, RecoverableIs
<1>4. n \in s..Len(recs) /\ n \in 0..Len(recs) /\ Len(recs) \in Nat
  BY <1>2, <1>3
<1>5. PICK other \in Seq(Record) : other = log' /\ Len(other) = n /\ \A k \in 1..n : other[k] = recs[k]
  <2>1. /\ SubSeq(recs, 1, n) \in Seq(Record) /\ Len(SubSeq(recs, 1, n)) = n
        /\ \A k \in 1..n : SubSeq(recs, 1, n)[k] = recs[k]
    BY <1>4, CutFacts
  <2> QED
    BY <1>1, <1>2, <2>1
<1>6. PICK D : D = [Coll -> Seq(Doc)]
  OBVIOUS
<1>7. PICK h \in Seq(D) : /\ h = Recoverable /\ Len(h) = Len(recs) - s + 1
                          /\ \A i \in 1..(Len(recs) - s + 1) : h[i] = HeldBy(recs, s + i - 1)
  <2>1. Recoverable = HistOf(recs, s)
    BY <1>2, <1>3, RecoverableIs
  <2> QED
    BY <1>6, <2>1, HistFacts
<1>8. PICK i \in Seq(D) : /\ i = Recoverable' /\ Len(i) = n - s + 1
                          /\ \A j \in 1..(n - s + 1) : i[j] = HeldBy(other, s + j - 1)
  <2>1. Recoverable' = HistOf(other, s)
    BY <1>1, <1>3, <1>5, RecoverableIs
  <2>2. s \in 0..Len(other)
    BY <1>4, <1>5
  <2>3. /\ HistOf(other, s) \in Seq(D) /\ Len(HistOf(other, s)) = n - s + 1
        /\ \A j \in 1..(n - s + 1) : HistOf(other, s)[j] = HeldBy(other, s + j - 1)
    BY <1>5, <1>6, <2>2, HistFacts
  <2> QED
    BY <2>1, <2>3
<1>9. PICK m \in Nat : m = n - s + 1 /\ m \in 1..Len(h) /\ m \in 0..Len(h) /\ Len(h) \in Nat
  BY <1>4, <1>7
<1>10. ASSUME NEW j \in 1..m PROVE i[j] = h[j]
  <2>1. s + j - 1 \in 0..n /\ j \in 1..(Len(recs) - s + 1) /\ j \in 1..(n - s + 1)
    BY <1>4, <1>9
  <2>2. n \in Nat /\ n <= Len(recs) /\ n <= Len(other)
    BY <1>4, <1>5
  <2>3. HeldBy(other, s + j - 1) = HeldBy(recs, s + j - 1)
    BY <1>5, <2>1, <2>2, HeldSame
  <2> QED
    BY <1>7, <1>8, <2>1, <2>3
<1>11. i = SubSeq(h, 1, m)
  <2>1. PICK u \in Seq(D) : u = SubSeq(h, 1, m) /\ Len(u) = m /\ \A j \in 1..m : u[j] = h[j]
    <3>1. /\ SubSeq(h, 1, m) \in Seq(D) /\ Len(SubSeq(h, 1, m)) = m
          /\ \A j \in 1..m : SubSeq(h, 1, m)[j] = h[j]
      BY <1>9, CutFacts
    <3> QED
      BY <3>1
  <2>2. Len(i) = Len(u) /\ \A j \in 1..Len(i) : i[j] = u[j]
    BY <1>8, <1>9, <1>10, <2>1
  <2>3. i = u
    BY <2>2, SameSequence
  <2> QED
    BY <2>1, <2>3
<1>12. m \in DOMAIN Recoverable /\ Recoverable' = SubSeq(Recoverable, 1, m)
  BY <1>7, <1>8, <1>9, <1>11
<1>13. ShownAll' = Abstract!Empty /\ (mode' = "open") = FALSE
  BY <1>1, ShownIsNext
<1> QED
  BY <1>12, <1>13 DEF Abstract!Crash

\* Nothing changes while the file is read.
LEMMA ReadingMaps ==
    ASSUME Types, IInv, Types', IInv', mode # "open", mode' # "open",
           log' = log, synced' = synced
    PROVE  UNCHANGED Abstract!vars
<1>1. ShownAll = Abstract!Empty /\ ShownAll' = Abstract!Empty
  BY ShownIs, ShownIsNext
<1>2. Recoverable' = Recoverable
  BY RecoverableIs
<1> QED
  BY <1>1, <1>2 DEF Abstract!vars

\* At its end the database is open.
LEMMA OpenedMaps ==
    ASSUME Types, IInv, Types', IInv', mode # "open", mode' = "open",
           log' = log, synced' \in {synced, Len(log)}
    PROVE  Abstract!Open
<1>1. ShownAll' = HeldBy(log, Len(log))
  BY ShownIsNext
<1>2. Abstract!Last(Recoverable) = ShownAll'
  BY <1>1, RecoverableIs
<1>3. Recoverable' \in {Recoverable, <<Abstract!Last(Recoverable)>>}
  BY <1>1, <1>2, HistStays
<1> QED
  BY <1>2, <1>3 DEF Abstract!Open

LEMMA ReplayMaps ==
    ASSUME Types, IInv, Types', IInv',
           Open \/ ReplayInsert \/ ReplayReplace \/ ReplayDelete \/ ReplayEnd \/ ReplayTruncate
    PROVE  Abstract!Open \/ UNCHANGED Abstract!vars
<1>1. CASE Open
  BY <1>1, ReadingMaps DEF Open, file
<1>2. CASE ReplayInsert \/ ReplayReplace \/ ReplayDelete
  <2>1. mode = "replay" /\ (Refused \/ Applied)
    BY <1>2, Zenon DEF ReplayInsert, ReplayReplace, ReplayDelete, Replaying
  <2>2. mode # "open" /\ mode' # "open" /\ log' = log /\ synced' = synced
    BY <2>1 DEF Refused, Applied, file
  <2> QED
    BY <2>2, ReadingMaps
<1>3. CASE ReplayEnd
  BY <1>3, OpenedMaps DEF ReplayEnd, file
<1>4. CASE ReplayTruncate
  BY <1>4, OpenedMaps DEF ReplayTruncate
<1> QED
  BY <1>1, <1>2, <1>3, <1>4

-----------------------------------------------------------------------------
\* The theorem

LEMMA StartsEmpty ==
    ASSUME Init, Types, IInv
    PROVE  Abstract!Init
<1>1. log = <<>> /\ synced = 0 /\ mode = "open"
  BY DEF Init
<1>2. log \in Seq(Record) /\ Len(log) = 0
  BY <1>1
<1>3. HeldBy(log, 0) = Abstract!Empty
  BY <1>2, DocsFacts DEF HeldBy, Abstract!Empty
<1>4. ShownAll = Abstract!Empty
  BY <1>1, <1>2, <1>3, ShownIs
<1>5. HistOf(log, Len(log)) = <<HeldBy(log, Len(log))>>
  BY <1>2, HistFlushed
<1>6. Recoverable = <<Abstract!Empty>>
  BY <1>1, <1>2, <1>3, <1>5 DEF Recoverable, HistOf
<1> QED
  BY <1>1, <1>4, <1>6 DEF Abstract!Init

LEMMA StepMaps ==
    ASSUME StoredSame, Types, IInv, Types', IInv', [Next]_vars
    PROVE  [Abstract!Next]_Abstract!vars
<1>1. ASSUME NEW c \in Coll, \E m \in Nat : Writes(c, m)
      PROVE  Abstract!Next
  BY <1>1, WritesIsWrite DEF Abstract!Next
<1>2. CASE \E c \in Coll, d \in Doc, supplied \in BOOLEAN : Insert(c, d, supplied)
  BY <1>1, <1>2, InsertWrites
<1>3. CASE \E c \in Coll, ds \in Batches(Doc) :
             \E sup \in [DOMAIN ds -> BOOLEAN] : InsertMany(c, ds, sup)
  BY <1>1, <1>3, InsertManyWrites
<1>4. CASE \E c \in Coll, f \in Filters, sid \in Id \cup {NoId}, v \in Val : Replace(c, f, sid, v)
  BY <1>1, <1>4, ReplaceWrites
<1>5. CASE \E c \in Coll, f \in Filters, limit \in {0, 1} : Delete(c, f, limit)
  BY <1>1, <1>5, DeleteWrites
<1>6. CASE Sync
  BY <1>6, SyncMaps DEF Abstract!Next
<1>7. CASE Close
  BY <1>7, CloseMaps DEF Abstract!Next
<1>8. CASE Crash
  BY <1>8, CrashMaps DEF Abstract!Next
<1>9. CASE Open \/ ReplayInsert \/ ReplayReplace \/ ReplayDelete \/ ReplayEnd \/ ReplayTruncate
  BY <1>9, ReplayMaps DEF Abstract!Next
<1>10. CASE UNCHANGED vars
  <2>1. log' = log /\ synced' = synced /\ mode' = mode
    BY <1>10 DEF vars
  <2>2. Recoverable' = Recoverable
    BY <2>1, RecoverableIs
  <2>3. ShownAll' = ShownAll
    BY <2>1, ShownIs, ShownIsNext
  <2> QED
    BY <2>1, <2>2, <2>3 DEF Abstract!vars
<1> QED
  BY <1>2, <1>3, <1>4, <1>5, <1>6, <1>7, <1>8, <1>9, <1>10 DEF Next

\* The collections keep the promise of AbstractStore: an operation, failed or not,
\* lands as a whole run of its records on one collection; a crash takes the database
\* back to one of the states since the last fsync, one record after the other; and
\* replay, of a whole or of a torn file, shows the last of them again.
THEOREM ImplementsStoreTheorem ==
    ASSUME StoredSame
    PROVE  Spec => ImplementsStore
<1>1. Init => Abstract!Init
  BY StartsRight, StartsEmpty
<1>2. /\ Types /\ IInv /\ Types' /\ IInv' /\ [Next]_vars => [Abstract!Next]_Abstract!vars
  BY StepMaps
<1>3. Spec => [](Types /\ IInv)
  BY IInvTheorem
<1> QED
  BY <1>1, <1>2, <1>3, PTL DEF Spec, ImplementsStore, Abstract!Spec

-----------------------------------------------------------------------------
\* Sums

\* The equation of Total, with g for the function it defines.
SumStep(f, g, k) == IF k = 0 THEN 0 ELSE g[k - 1] + f[k]

LEMMA SumSolvable ==
    ASSUME NEW f, NEW n \in Nat
    PROVE  \E g : g = [k \in 0..n |-> SumStep(f, g, k)]
<1> DEFINE Solves(g, m) == g = [k \in 0..m |-> SumStep(f, g, k)]
           S == {m \in Nat : \E g : Solves(g, m)}
<1>1. 0 \in S
  <2> DEFINE g == [k \in 0..0 |-> 0]
  <2>1. Solves(g, 0)
    BY DEF SumStep
  <2> HIDE DEF g, Solves
  <2> QED
    BY <2>1
<1>2. ASSUME NEW m \in Nat, m \in S
      PROVE  m + 1 \in S
  <2>1. PICK g : Solves(g, m)
    BY <1>2
  <2> DEFINE h == [k \in 0..(m + 1) |-> IF k = m + 1 THEN SumStep(f, g, k) ELSE g[k]]
  <2>2. \A k \in 0..(m + 1) : k # 0 => k - 1 \in 0..m /\ h[k - 1] = g[k - 1]
    OBVIOUS
  <2>3. \A k \in 0..(m + 1) : SumStep(f, h, k) = SumStep(f, g, k)
    <3> HIDE DEF h
    <3> QED
      BY <2>2 DEF SumStep
  <2>4. \A k \in 0..m : g[k] = SumStep(f, g, k)
    BY <2>1
  <2>5. \A k \in 0..(m + 1) : h[k] = SumStep(f, g, k)
    BY <2>4
  <2>6. h = [k \in 0..(m + 1) |-> h[k]]
    OBVIOUS
  <2>7. Solves(h, m + 1)
    <3> HIDE DEF h
    <3> QED
      BY <2>3, <2>5, <2>6
  <2> HIDE DEF h, Solves
  <2> QED
    BY <2>7
<1>3. n \in S
  <2> HIDE DEF S
  <2>1. \A k \in 0..(n - 1) : k \in S => k + 1 \in S
    BY <1>2
  <2>2. \A k \in 0..n : k \in S
    BY <1>1, <2>1, Climb
  <2> QED
    BY <2>2
<1> QED
  BY <1>3

\* The sums of f as Total adds them up, to any bound.
Sums(f, n) ==
    CHOOSE g : g = [k \in 0..n |-> SumStep(f, g, k)]

LEMMA SumsFacts ==
    ASSUME NEW f, NEW n \in Nat
    PROVE  /\ Total(f, n) = Sums(f, n)[n]
           /\ Sums(f, n)[0] = 0
           /\ \A k \in 1..n : Sums(f, n)[k] = Sums(f, n)[k - 1] + f[k]
<1>1. PICK g : g = [k \in 0..n |-> SumStep(f, g, k)]
  BY SumSolvable
<1>2. Sums(f, n) = [k \in 0..n |-> SumStep(f, Sums(f, n), k)]
  BY <1>1, Zenon DEF Sums
<1>3. \A k \in 0..n : Sums(f, n)[k] = SumStep(f, Sums(f, n), k)
  BY <1>2
<1>4. Total(f, n) = Sums(f, n)[n]
  BY DEF Total, Sums, SumStep
<1> QED
  BY <1>3, <1>4 DEF SumStep

\* Sums with different bounds, or of functions that agree, agree as far as both go.
LEMMA SumsAgree ==
    ASSUME NEW f, NEW g, NEW n \in Nat, NEW m \in Nat, n <= m,
           \A k \in 1..n : f[k] = g[k]
    PROVE  \A k \in 0..n : Sums(f, n)[k] = Sums(g, m)[k]
<1> DEFINE S == {k \in Nat : Sums(f, n)[k] = Sums(g, m)[k]}
<1>1. 0 \in S
  BY SumsFacts
<1>2. ASSUME NEW k \in 0..(n - 1), k \in S
      PROVE  k + 1 \in S
  <2>1. k + 1 \in 1..n /\ k + 1 \in 1..m /\ (k + 1) - 1 = k
    OBVIOUS
  <2>2. Sums(f, n)[k + 1] = Sums(f, n)[k] + f[k + 1]
    BY <2>1, SumsFacts
  <2>3. Sums(g, m)[k + 1] = Sums(g, m)[k] + g[k + 1]
    BY <2>1, SumsFacts
  <2> QED
    BY <1>2, <2>1, <2>2, <2>3
<1> HIDE DEF S
<1>3. \A k \in 0..n : k \in S
  BY <1>1, <1>2, Climb
<1> QED
  BY <1>3 DEF S

LEMMA TotalFacts ==
    ASSUME NEW f, NEW n \in Nat
    PROVE  /\ Total(f, 0) = 0
           /\ Total(f, n + 1) = Total(f, n) + f[n + 1]
<1>1. Total(f, 0) = 0
  BY SumsFacts
<1>2. n + 1 \in Nat /\ n + 1 \in 1..(n + 1) /\ (n + 1) - 1 = n /\ n <= n + 1 /\ n \in 0..n
  OBVIOUS
<1>3. Total(f, n + 1) = Sums(f, n + 1)[n] + f[n + 1]
  BY <1>2, SumsFacts
<1>4. Sums(f, n)[n] = Sums(f, n + 1)[n]
  BY <1>2, SumsAgree
<1> QED
  BY <1>1, <1>3, <1>4, SumsFacts

LEMMA TotalSame ==
    ASSUME NEW f, NEW g, NEW n \in Nat, \A k \in 1..n : f[k] = g[k]
    PROVE  Total(f, n) = Total(g, n)
<1>1. n <= n /\ n \in 0..n
  OBVIOUS
<1>2. Sums(f, n)[n] = Sums(g, n)[n]
  BY <1>1, SumsAgree
<1> QED
  BY <1>2, SumsFacts

LEMMA TotalType ==
    ASSUME NEW f, NEW n \in Nat, \A k \in 1..n : f[k] \in Nat
    PROVE  Total(f, n) \in Nat
<1> DEFINE S == {k \in Nat : Total(f, k) \in Nat}
<1>1. 0 \in S
  BY TotalFacts
<1>2. ASSUME NEW k \in 0..(n - 1), k \in S
      PROVE  k + 1 \in S
  <2>1. k + 1 \in 1..n /\ k \in Nat
    OBVIOUS
  <2>2. Total(f, k + 1) = Total(f, k) + f[k + 1]
    BY <2>1, TotalFacts
  <2> QED
    BY <1>2, <2>1, <2>2
<1> HIDE DEF S
<1>3. \A k \in 0..n : k \in S
  BY <1>1, <1>2, Climb
<1>4. n \in S
  BY <1>3
<1> QED
  BY <1>4 DEF S

LEMMA TotalZero ==
    ASSUME NEW f, NEW n \in Nat, \A k \in 1..n : f[k] = 0
    PROVE  Total(f, n) = 0
<1> DEFINE S == {k \in Nat : Total(f, k) = 0}
<1>1. 0 \in S
  BY TotalFacts
<1>2. ASSUME NEW k \in 0..(n - 1), k \in S
      PROVE  k + 1 \in S
  <2>1. k + 1 \in 1..n /\ k \in Nat
    OBVIOUS
  <2>2. Total(f, k + 1) = Total(f, k) + f[k + 1]
    BY <2>1, TotalFacts
  <2> QED
    BY <1>2, <2>1, <2>2
<1> HIDE DEF S
<1>3. \A k \in 0..n : k \in S
  BY <1>1, <1>2, Climb
<1>4. n \in S
  BY <1>3
<1> QED
  BY <1>4 DEF S

\* Functions that differ at p only.
LEMMA TotalRaised ==
    ASSUME NEW f, NEW g, NEW n \in Nat, NEW p \in 1..n,
           \A k \in 1..n : f[k] \in Nat /\ g[k] \in Nat,
           \A k \in 1..n : k # p => g[k] = f[k], f[p] = 0
    PROVE  Total(g, n) = Total(f, n) + g[p]
<1> DEFINE S == {k \in Nat : Total(g, k) = IF k < p THEN Total(f, k) ELSE Total(f, k) + g[p]}
<1>1. 0 \in S
  BY TotalFacts
<1>2. ASSUME NEW k \in 0..(n - 1), k \in S
      PROVE  k + 1 \in S
  <2>1. k + 1 \in 1..n /\ k \in Nat
    OBVIOUS
  <2>2. /\ Total(f, k + 1) = Total(f, k) + f[k + 1]
        /\ Total(g, k + 1) = Total(g, k) + g[k + 1]
    BY <2>1, TotalFacts
  <2>3. Total(f, k) \in Nat
    <3>1. \A j \in 1..k : f[j] \in Nat
      OBVIOUS
    <3> QED
      BY <2>1, <3>1, TotalType
  <2>4. PICK a \in Nat : a = Total(f, k)
    BY <2>3
  <2>5. f[k + 1] \in Nat /\ g[k + 1] \in Nat /\ g[p] \in Nat
    BY <2>1
  <2>6. CASE k + 1 < p
    <3>1. k < p /\ k + 1 # p
      BY <2>6
    <3> QED
      BY <1>2, <2>1, <2>2, <2>6, <3>1
  <2>7. CASE k + 1 = p
    <3>1. k < p /\ f[k + 1] = 0
      BY <2>7
    <3>2. Total(g, k) = a
      BY <1>2, <2>4, <3>1
    <3>3. Total(f, k + 1) = a /\ Total(g, k + 1) = a + g[p]
      BY <2>2, <2>4, <2>5, <2>7, <3>1, <3>2
    <3> QED
      BY <2>1, <2>7, <3>3
  <2>8. CASE p < k + 1
    <3>1. ~(k < p) /\ ~(k + 1 < p) /\ k + 1 # p
      BY <2>8
    <3>2. Total(g, k) = a + g[p]
      BY <1>2, <2>4, <3>1
    <3>3. g[k + 1] = f[k + 1]
      BY <2>1, <3>1
    <3>4. Total(f, k + 1) = a + f[k + 1] /\ Total(g, k + 1) = (a + g[p]) + f[k + 1]
      BY <2>2, <2>4, <3>2, <3>3
    <3>5. Total(g, k + 1) = Total(f, k + 1) + g[p]
      BY <2>5, <3>4
    <3> QED
      BY <2>1, <3>1, <3>5
  <2> QED
    BY <2>1, <2>6, <2>7, <2>8
<1> HIDE DEF S
<1>3. \A k \in 0..n : k \in S
  BY <1>1, <1>2, Climb
<1>4. n \in S /\ ~(n < p)
  BY <1>3
<1> QED
  BY <1>4 DEF S

\* The sum of b over the values of p, all different.
Along(b, p, j, n) == [k \in 1..n |-> IF \E i \in 1..j : k = p[i] THEN b[k] ELSE 0]

Follows(b, h, p, n, m) ==
    /\ \A k \in 1..n : b[k] \in Nat
    /\ \A i \in 1..m : p[i] \in 1..n /\ h[i] = b[p[i]]
    /\ \A i, j \in 1..m : p[i] = p[j] => i = j

LEMMA TotalAlong ==
    ASSUME NEW b, NEW h, NEW p, NEW n \in Nat, NEW m \in Nat, Follows(b, h, p, n, m)
    PROVE  Total(h, m) = Total(Along(b, p, m, n), n)
<1> USE DEF Follows
<1> DEFINE S == {j \in Nat : Total(h, j) = Total(Along(b, p, j, n), n)}
<1>1. 0 \in S
  <2>1. \A k \in 1..n : Along(b, p, 0, n)[k] = 0
    BY DEF Along
  <2> QED
    BY <2>1, TotalZero, TotalFacts
<1>2. ASSUME NEW j \in 0..(m - 1), j \in S
      PROVE  j + 1 \in S
  <2>1. j + 1 \in 1..m /\ j \in Nat
    OBVIOUS
  <2>2. PICK f : f = Along(b, p, j, n)
    OBVIOUS
  <2>3. PICK g : g = Along(b, p, j + 1, n)
    OBVIOUS
  <2>4. PICK q \in 1..n : q = p[j + 1]
    BY <2>1
  <2>5. \A k \in 1..n : /\ f[k] = IF \E i \in 1..j : k = p[i] THEN b[k] ELSE 0
                        /\ g[k] = IF \E i \in 1..(j + 1) : k = p[i] THEN b[k] ELSE 0
    BY <2>2, <2>3 DEF Along
  <2>6. \A k \in 1..n : (\E i \in 1..(j + 1) : k = p[i]) <=> (k = q \/ \E i \in 1..j : k = p[i])
    <3>1. \A i : i \in 1..(j + 1) <=> i = j + 1 \/ i \in 1..j
      BY <2>1
    <3> QED
      BY <2>4, <3>1
  <2>7. ~ \E i \in 1..j : q = p[i]
    <3>1. \A i \in 1..j : i \in 1..m /\ i # j + 1
      BY <2>1
    <3> QED
      BY <2>1, <2>4, <3>1
  <2>8. f[q] = 0 /\ g[q] = b[q]
    BY <2>5, <2>6, <2>7
  <2>9. \A k \in 1..n : k # q => g[k] = f[k]
    BY <2>5, <2>6
  <2>10. \A k \in 1..n : f[k] \in Nat /\ g[k] \in Nat
    BY <2>5
  <2>11. Total(g, n) = Total(f, n) + g[q]
    BY <2>8, <2>9, <2>10, TotalRaised
  <2>12. Total(h, j + 1) = Total(h, j) + b[q]
    BY <2>1, <2>4, TotalFacts
  <2>13. Total(h, j + 1) = Total(g, n)
    BY <1>2, <2>2, <2>8, <2>11, <2>12
  <2> QED
    BY <2>1, <2>3, <2>13
<1> HIDE DEF S
<1>3. \A j \in 0..m : j \in S
  BY <1>1, <1>2, Climb
<1>4. m \in S
  BY <1>3
<1> QED
  BY <1>4 DEF S

LEMMA BytesType ==
    ASSUME NEW r \in Record
    PROVE  PayloadLen(r) \in Nat \ {0} /\ Bytes(r) \in Nat
<1>1. PayloadLen(r) \in Nat \ {0}
  <2>1. CASE r.op = "delete"
    BY <2>1, LengthAssumption DEF PayloadLen
  <2>2. CASE r.op # "delete"
    <3>1. r.val \in Val
      BY <2>2 DEF Record
    <3>2. ValLen[r.val] \in Nat \ {0}
      BY <3>1, LengthAssumption
    <3> QED
      BY <2>2, <3>2 DEF PayloadLen
  <2> QED
    BY <2>1, <2>2
<1> QED
  BY <1>1, LengthAssumption DEF Bytes

\* p lists those of the first n records with numbers in S, each once, and h their
\* sizes.
Listed(recs, S, n, p, h, m) ==
    /\ S \subseteq 1..n
    /\ \A i \in 1..m : p[i] \in S /\ h[i] = Bytes(recs[p[i]])
    /\ \A i, j \in 1..m : p[i] = p[j] => i = j
    /\ \A k \in S : \E i \in 1..m : k = p[i]

LEMMA BytesAlong ==
    ASSUME NEW recs \in Seq(Record), NEW n \in 0..Len(recs), NEW m \in Nat, NEW h, NEW p, NEW S,
           Listed(recs, S, n, p, h, m)
    PROVE  BytesOf(recs, S, n) = Total(h, m)
<1> USE DEF Listed
<1>1. PICK b : b = [k \in 1..n |-> Bytes(recs[k])]
  OBVIOUS
<1>2. PICK L \in Nat : L = Len(recs) /\ n \in Nat /\ n <= L /\ \A k \in 1..L : recs[k] \in Record
  OBVIOUS
<1>3. \A k \in 1..n : b[k] = Bytes(recs[k]) /\ b[k] \in Nat
  <2> TAKE k \in 1..n
  <2>1. recs[k] \in Record
    BY <1>2
  <2> QED
    BY <1>1, <2>1, BytesType
<1>4. \A i \in 1..m : p[i] \in 1..n /\ h[i] = b[p[i]]
  BY <1>3
<1>5. Total(h, m) = Total(Along(b, p, m, n), n)
  <2>1. Follows(b, h, p, n, m)
    BY <1>3, <1>4 DEF Follows
  <2> QED
    BY <1>2, <2>1, TotalAlong
<1>6. PICK f : f = [k \in 1..n |-> IF k \in S THEN Bytes(recs[k]) ELSE 0]
  OBVIOUS
<1>7. \A k \in 1..n : k \in S <=> \E i \in 1..m : k = p[i]
  OBVIOUS
<1>8. \A k \in 1..n : f[k] = Along(b, p, m, n)[k]
  BY <1>3, <1>6, <1>7 DEF Along
<1>9. Total(f, n) = Total(Along(b, p, m, n), n)
  BY <1>2, <1>8, TotalSame
<1> QED
  BY <1>5, <1>6, <1>9 DEF BytesOf

\* One record, or none.
LEMMA BytesOfOne ==
    ASSUME NEW recs \in Seq(Record), NEW n \in 0..Len(recs), NEW k \in 1..n
    PROVE  BytesOf(recs, {k}, n) = Bytes(recs[k])
<1>1. PICK p : p = [i \in 1..1 |-> k]
  OBVIOUS
<1>2. PICK h : h = [i \in 1..1 |-> Bytes(recs[k])]
  OBVIOUS
<1>3. BytesOf(recs, {k}, n) = Total(h, 1)
  <2>1. Listed(recs, {k}, n, p, h, 1)
    BY <1>1, <1>2 DEF Listed
  <2>2. 1 \in Nat
    OBVIOUS
  <2> QED
    BY <2>1, <2>2, BytesAlong
<1>4. Total(h, 0 + 1) = Total(h, 0) + h[0 + 1] /\ Total(h, 0) = 0
  BY TotalFacts
<1>5. Bytes(recs[k]) \in Nat
  <2>1. recs[k] \in Record
    OBVIOUS
  <2> QED
    BY <2>1, BytesType
<1> QED
  BY <1>2, <1>3, <1>4, <1>5

LEMMA BytesOfNone ==
    ASSUME NEW recs, NEW n \in Nat
    PROVE  BytesOf(recs, {}, n) = 0
BY TotalZero DEF BytesOf

-----------------------------------------------------------------------------
\* The live records

LEMMA LiveType ==
    ASSUME NEW recs, NEW n \in Nat
    PROVE  /\ Live(recs, n) \subseteq 1..n /\ IsFiniteSet(Live(recs, n))
           /\ Cardinality(Live(recs, n)) \in Nat
<1>1. Live(recs, n) \subseteq 1..n /\ IsFiniteSet(1..n)
  BY FS_Interval DEF Live
<1> QED
  BY <1>1, FS_Subset, FS_CardinalityType

\* One to a document.
LEMMA LiveOnce ==
    ASSUME NEW recs, NEW n \in Nat, NEW j \in Live(recs, n), NEW k \in Live(recs, n),
           recs[j].coll = recs[k].coll, recs[j].id = recs[k].id
    PROVE  j = k
<1>1. j \in 1..n /\ k \in 1..n
  BY DEF Live
<1>2. ~(j \in (k + 1)..n) /\ ~(k \in (j + 1)..n)
  BY DEF Live, About
<1> QED
  BY <1>1, <1>2

\* Which documents they are about.
LEMMA LiveAlive ==
    ASSUME NEW recs, NEW n \in Nat, NEW c, NEW i
    PROVE  Alive(recs, c, i, n) <=> \E k \in Live(recs, n) : About(recs[k], c, i)
<1>1. ASSUME NEW k \in Live(recs, n), About(recs[k], c, i)
      PROVE  Alive(recs, c, i, n)
  BY <1>1 DEF Live, Alive, About
<1>2. ASSUME Alive(recs, c, i, n)
      PROVE  \E k \in Live(recs, n) : About(recs[k], c, i)
  <2> DEFINE A == {k \in 1..n : About(recs[k], c, i)}
  <2>1. A # {} /\ A \subseteq 0..n
    BY <1>2 DEF Alive
  <2>2. PICK k \in A : \A x \in A : k >= x
    <3> HIDE DEF A
    <3> QED
      BY <2>1, MaxInSet
  <2>3. k \in 1..n /\ About(recs[k], c, i) /\ \A j \in (k + 1)..n : ~About(recs[j], c, i)
    BY <2>2
  <2>4. recs[k].op # "delete"
    BY <1>2, <2>3, AliveLast
  <2>5. k \in Live(recs, n)
    BY <2>3, <2>4 DEF Live, About
  <2> QED
    BY <2>3, <2>5
<1> QED
  BY <1>1, <1>2

\* One more record.
LEMMA LiveNext ==
    ASSUME NEW recs, NEW n \in Nat, NEW r, r = recs[n + 1]
    PROVE  Live(recs, n + 1) =
             {k \in Live(recs, n) : ~About(recs[k], r.coll, r.id)}
               \cup (IF r.op = "delete" THEN {} ELSE {n + 1})
<1>1. n + 1 \in 1..(n + 1) /\ (n + 1 + 1)..(n + 1) = {}
  OBVIOUS
<1>2. n + 1 \in Live(recs, n + 1) <=> r.op # "delete"
  BY <1>1 DEF Live
<1>3. ASSUME NEW k \in 1..n
      PROVE  k \in Live(recs, n + 1) <=> k \in Live(recs, n) /\ ~About(recs[k], r.coll, r.id)
  <2>1. \A j : j \in (k + 1)..(n + 1) <=> j \in (k + 1)..n \/ j = n + 1
    OBVIOUS
  <2>2. About(r, recs[k].coll, recs[k].id) <=> About(recs[k], r.coll, r.id)
    BY DEF About
  <2> QED
    BY <2>1, <2>2 DEF Live
<1>4. \A k \in 1..(n + 1) : k \in 1..n \/ k = n + 1
  OBVIOUS
<1>5. Live(recs, n + 1) \subseteq 1..(n + 1) /\ Live(recs, n) \subseteq 1..n
  BY DEF Live
<1>6. n + 1 \notin Live(recs, n)
  BY <1>5
<1> QED
  BY <1>2, <1>3, <1>4, <1>5, <1>6

LEMMA LiveStep ==
    ASSUME NEW recs, NEW n \in Nat, NEW r, r = recs[n + 1]
    PROVE  /\ \A k \in Live(recs, n) : ~About(recs[k], r.coll, r.id) => k \in Live(recs, n + 1)
           /\ r.op # "delete" => n + 1 \in Live(recs, n + 1)
<1>1. PICK A : A = {k \in Live(recs, n) : ~About(recs[k], r.coll, r.id)}
                     \cup (IF r.op = "delete" THEN {} ELSE {n + 1})
  OBVIOUS
<1>2. Live(recs, n + 1) = A
  BY <1>1, LiveNext
<1> QED
  BY <1>1, <1>2

LEMMA LiveSame ==
    ASSUME NEW recs, NEW other, NEW n \in Nat, \A k \in 1..n : other[k] = recs[k]
    PROVE  Live(other, n) = Live(recs, n)
<1>1. \A k \in 1..n : \A j \in (k + 1)..n : j \in 1..n
  OBVIOUS
<1> QED
  BY <1>1 DEF Live

\* How many there are behind one more record.
LEMMA LiveCount ==
    ASSUME NEW recs, NEW n \in Nat, NEW r, r = recs[n + 1],
           Alive(recs, r.coll, r.id, n) <=> r.op # "insert",
           r.op \in {"insert", "replace", "delete"}
    PROVE  LET prev == {k \in Live(recs, n) : About(recs[k], r.coll, r.id)}
               N == Cardinality(Live(recs, n))
               M == Cardinality(Live(recs, n + 1))
           IN  /\ r.op = "insert" => prev = {} /\ M = N + 1
               /\ r.op # "insert" => \E k \in 1..n : prev = {k}
               /\ r.op = "replace" => M = N
               /\ r.op = "delete" => M = N - 1 /\ N > 0
<1> DEFINE prev == {k \in Live(recs, n) : About(recs[k], r.coll, r.id)}
<1>1. PICK A : A = Live(recs, n)
  OBVIOUS
<1>2. A \subseteq 1..n /\ IsFiniteSet(A) /\ Cardinality(A) \in Nat
  BY <1>1, LiveType
<1>3. Live(recs, n + 1) = (A \ prev) \cup (IF r.op = "delete" THEN {} ELSE {n + 1})
  BY <1>1, LiveNext
<1>4. n + 1 \notin A
  BY <1>2
<1>5. CASE r.op = "insert"
  <2>1. prev = {}
    BY <1>5, LiveAlive
  <2>2. Live(recs, n + 1) = A \cup {n + 1}
    BY <1>3, <1>5, <2>1
  <2>3. Cardinality(A \cup {n + 1}) = Cardinality(A) + 1
    BY <1>2, <1>4, FS_AddElement
  <2> QED
    BY <1>1, <1>5, <2>1, <2>2, <2>3
<1>6. CASE r.op # "insert"
  <2>1. PICK k \in A : About(recs[k], r.coll, r.id)
    BY <1>1, <1>6, LiveAlive
  <2>2. prev = {k}
    <3>1. \A j \in prev : j = k
      BY <1>1, <2>1, LiveOnce DEF About
    <3> QED
      BY <1>1, <2>1, <3>1
  <2>3. /\ Cardinality(A \ {k}) = Cardinality(A) - 1 /\ IsFiniteSet(A \ {k})
        /\ Cardinality(A \ {k}) \in Nat
    <3>1. Cardinality(A \ {k}) = Cardinality(A) - 1 /\ IsFiniteSet(A \ {k})
      BY <1>2, <2>1, FS_RemoveElement
    <3> QED
      BY <3>1, FS_CardinalityType
  <2>4. n + 1 \notin A \ {k}
    BY <1>4
  <2>5. r.op = "replace" => Cardinality(Live(recs, n + 1)) = Cardinality(A)
    <3> SUFFICES ASSUME r.op = "replace" PROVE Cardinality(Live(recs, n + 1)) = Cardinality(A)
      OBVIOUS
    <3>1. Live(recs, n + 1) = (A \ {k}) \cup {n + 1}
      BY <1>3, <2>2
    <3>2. Cardinality((A \ {k}) \cup {n + 1}) = Cardinality(A \ {k}) + 1
      BY <2>3, <2>4, FS_AddElement
    <3> QED
      BY <1>2, <2>3, <3>1, <3>2
  <2>6. r.op = "delete" => Live(recs, n + 1) = A \ {k}
    BY <1>3, <2>2
  <2>7. k \in 1..n
    BY <1>2, <2>1
  <2>8. r.op = "delete" => /\ Cardinality(Live(recs, n + 1)) = Cardinality(A) - 1
                           /\ Cardinality(A) > 0
    <3>1. PICK x \in Nat : x = Cardinality(A)
      BY <1>2
    <3>2. PICK y \in Nat : y = Cardinality(A \ {k})
      BY <2>3
    <3>3. y = x - 1 /\ x > 0
      BY <2>3, <3>1, <3>2
    <3> QED
      BY <2>6, <3>1, <3>2, <3>3
  <2> HIDE DEF prev
  <2> QED
    BY <1>1, <1>6, <2>2, <2>5, <2>7, <2>8 DEF prev
<1> QED
  BY <1>5, <1>6

-----------------------------------------------------------------------------
\* What ScanLive counts

\* The equation of Scanned, with g for the function it defines.
ScannedStep(recs, g, n) ==
    IF n = 0 THEN [live |-> {}, dead |-> 0]
    ELSE LET r == recs[n]
             before == g[n - 1]
             prev == {k \in before.live : About(recs[k], r.coll, r.id)}
         IN  IF Unreadable(r) THEN before
             ELSE [live |-> (before.live \ prev) \cup (IF r.op = "delete" THEN {} ELSE {n}),
                   dead |-> before.dead + BytesOf(recs, prev, n - 1)
                              + (IF r.op = "delete" THEN Bytes(r) ELSE 0)]

LEMMA ScannedSolvable ==
    ASSUME NEW recs \in Seq(Record)
    PROVE  \E g : g = [n \in 0..Len(recs) |-> ScannedStep(recs, g, n)]
<1> DEFINE Solves(g, m) == g = [k \in 0..m |-> ScannedStep(recs, g, k)]
           S == {m \in Nat : \E g : Solves(g, m)}
<1>1. Len(recs) \in Nat
  OBVIOUS
<1>2. 0 \in S
  <2> DEFINE g == [k \in 0..0 |-> [live |-> {}, dead |-> 0]]
  <2>1. Solves(g, 0)
    BY DEF ScannedStep
  <2> HIDE DEF g, Solves
  <2> QED
    BY <2>1
<1>3. ASSUME NEW m \in Nat, m \in S
      PROVE  m + 1 \in S
  <2>1. PICK g : Solves(g, m)
    BY <1>3
  <2> DEFINE h == [k \in 0..(m + 1) |-> IF k = m + 1 THEN ScannedStep(recs, g, k) ELSE g[k]]
  <2>2. \A k \in 0..(m + 1) : k # 0 => k - 1 \in 0..m /\ h[k - 1] = g[k - 1]
    OBVIOUS
  <2>3. \A k \in 0..(m + 1) : ScannedStep(recs, h, k) = ScannedStep(recs, g, k)
    <3> HIDE DEF h
    <3> TAKE k \in 0..(m + 1)
    <3>1. CASE k = 0
      BY <3>1 DEF ScannedStep
    <3>2. CASE k # 0
      <4>1. h[k - 1] = g[k - 1]
        BY <2>2, <3>2
      <4> QED
        BY <4>1, Zenon DEF ScannedStep
    <3> QED
      BY <3>1, <3>2
  <2>4. \A k \in 0..m : g[k] = ScannedStep(recs, g, k)
    BY <2>1
  <2>5. \A k \in 0..(m + 1) : h[k] = ScannedStep(recs, g, k)
    BY <2>4
  <2>6. h = [k \in 0..(m + 1) |-> h[k]]
    OBVIOUS
  <2>7. Solves(h, m + 1)
    <3> HIDE DEF h
    <3> QED
      BY <2>3, <2>5, <2>6
  <2> HIDE DEF h, Solves
  <2> QED
    BY <2>7
<1>4. Len(recs) \in S
  <2> HIDE DEF S
  <2>1. \A k \in 0..(Len(recs) - 1) : k \in S => k + 1 \in S
    BY <1>1, <1>3
  <2>2. \A k \in 0..Len(recs) : k \in S
    BY <1>1, <1>2, <2>1, Climb
  <2> QED
    BY <1>1, <2>2
<1> QED
  BY <1>4

LEMMA ScannedFacts ==
    ASSUME NEW recs \in Seq(Record)
    PROVE  \A n \in 0..Len(recs) : Scanned(recs)[n] = ScannedStep(recs, Scanned(recs), n)
<1>1. PICK g : g = [n \in 0..Len(recs) |-> ScannedStep(recs, g, n)]
  BY ScannedSolvable
<1>2. Scanned(recs) = CHOOSE h : h = [n \in 0..Len(recs) |-> ScannedStep(recs, h, n)]
  BY DEF Scanned, ScannedStep
<1>3. Scanned(recs) = [n \in 0..Len(recs) |-> ScannedStep(recs, Scanned(recs), n)]
  BY <1>1, <1>2, Zenon
<1> QED
  BY <1>3

\* What the map of ScanLive holds is what nothing has superseded.
LEMMA ScannedLive ==
    ASSUME NEW recs \in Seq(Record), Odd = {}
    PROVE  /\ Scanned(recs)[0].dead = 0
           /\ \A n \in 0..Len(recs) : Scanned(recs)[n].live = Live(recs, n)
           /\ \A n \in 0..(Len(recs) - 1) :
                LET r == recs[n + 1]
                    prev == {k \in Live(recs, n) : About(recs[k], r.coll, r.id)}
                IN  Scanned(recs)[n + 1].dead =
                      Scanned(recs)[n].dead + BytesOf(recs, prev, n)
                        + (IF r.op = "delete" THEN Bytes(r) ELSE 0)
<1> DEFINE S == {n \in Nat : Scanned(recs)[n].live = Live(recs, n)}
<1>1. Len(recs) \in Nat
  OBVIOUS
<1>2. Scanned(recs)[0] = [live |-> {}, dead |-> 0]
  <2>1. 0 \in 0..Len(recs)
    BY <1>1
  <2>2. Scanned(recs)[0] = ScannedStep(recs, Scanned(recs), 0)
    BY <2>1, ScannedFacts
  <2> QED
    BY <2>2, Zenon DEF ScannedStep
<1>3. 0 \in S
  BY <1>2 DEF Live
<1>4. ASSUME NEW n \in 0..(Len(recs) - 1), NEW r, r = recs[n + 1],
             NEW prev, prev = {k \in Scanned(recs)[n].live : About(recs[k], r.coll, r.id)}
      PROVE  Scanned(recs)[n + 1] =
               [live |-> (Scanned(recs)[n].live \ prev)
                           \cup (IF r.op = "delete" THEN {} ELSE {n + 1}),
                dead |-> Scanned(recs)[n].dead + BytesOf(recs, prev, n)
                           + (IF r.op = "delete" THEN Bytes(r) ELSE 0)]
  <2>1. n + 1 \in 0..Len(recs) /\ n + 1 # 0 /\ (n + 1) - 1 = n
    BY <1>1
  <2>2. ~Unreadable(r)
    BY DEF Unreadable
  <2>3. Scanned(recs)[n + 1] = ScannedStep(recs, Scanned(recs), n + 1)
    BY <2>1, ScannedFacts
  <2>4. PICK q : q = n + 1
    OBVIOUS
  <2>5. q - 1 = n /\ q # 0 /\ r = recs[q] /\ Scanned(recs)[q] = ScannedStep(recs, Scanned(recs), q)
    BY <1>4, <2>1, <2>3, <2>4
  <2>6. Scanned(recs)[q] =
               [live |-> (Scanned(recs)[n].live \ prev) \cup (IF r.op = "delete" THEN {} ELSE {q}),
                dead |-> Scanned(recs)[n].dead + BytesOf(recs, prev, n)
                           + (IF r.op = "delete" THEN Bytes(r) ELSE 0)]
    BY <1>4, <2>2, <2>5, Zenon DEF ScannedStep
  <2> QED
    BY <2>4, <2>6
<1>5. ASSUME NEW n \in 0..(Len(recs) - 1), n \in S
      PROVE  n + 1 \in S
  <2>1. PICK r : r = recs[n + 1]
    OBVIOUS
  <2>2. PICK prev : prev = {k \in Scanned(recs)[n].live : About(recs[k], r.coll, r.id)}
    OBVIOUS
  <2>3. Scanned(recs)[n + 1].live =
          (Scanned(recs)[n].live \ prev) \cup (IF r.op = "delete" THEN {} ELSE {n + 1})
    <3>1. Scanned(recs)[n + 1] =
               [live |-> (Scanned(recs)[n].live \ prev)
                           \cup (IF r.op = "delete" THEN {} ELSE {n + 1}),
                dead |-> Scanned(recs)[n].dead + BytesOf(recs, prev, n)
                           + (IF r.op = "delete" THEN Bytes(r) ELSE 0)]
      BY <1>4, <2>1, <2>2, Zenon
    <3> QED
      BY <3>1
  <2>4. n \in Nat /\ n + 1 \in Nat /\ Scanned(recs)[n].live = Live(recs, n)
    BY <1>5
  <2>5. Live(recs, n + 1) = {k \in Live(recs, n) : ~About(recs[k], r.coll, r.id)}
                              \cup (IF r.op = "delete" THEN {} ELSE {n + 1})
    BY <2>1, <2>4, LiveNext
  <2>6. Scanned(recs)[n].live \ prev = {k \in Live(recs, n) : ~About(recs[k], r.coll, r.id)}
    BY <2>2, <2>4
  <2> QED
    BY <2>3, <2>4, <2>5, <2>6
<1>6. \A n \in 0..Len(recs) : n \in S
  <2> HIDE DEF S
  <2> QED
    BY <1>1, <1>3, <1>5, Climb
<1>7. ASSUME NEW n \in 0..(Len(recs) - 1), NEW r, r = recs[n + 1],
             NEW prev, prev = {k \in Live(recs, n) : About(recs[k], r.coll, r.id)}
      PROVE  Scanned(recs)[n + 1].dead =
                      Scanned(recs)[n].dead + BytesOf(recs, prev, n)
                        + (IF r.op = "delete" THEN Bytes(r) ELSE 0)
  <2>1. n \in 0..Len(recs)
    BY <1>1
  <2>2. Scanned(recs)[n].live = Live(recs, n)
    BY <1>6, <2>1
  <2>3. prev = {k \in Scanned(recs)[n].live : About(recs[k], r.coll, r.id)}
    BY <1>7, <2>2
  <2>4. Scanned(recs)[n + 1] =
               [live |-> (Scanned(recs)[n].live \ prev)
                           \cup (IF r.op = "delete" THEN {} ELSE {n + 1}),
                dead |-> Scanned(recs)[n].dead + BytesOf(recs, prev, n)
                           + (IF r.op = "delete" THEN Bytes(r) ELSE 0)]
    BY <1>4, <1>7, <2>3, ZenonT(40)
  <2> QED
    BY <2>4
<1> QED
  BY <1>2, <1>6, <1>7

\* Only the records it comes past count.
LEMMA ScannedSame ==
    ASSUME NEW recs \in Seq(Record), NEW other \in Seq(Record), Odd = {},
           NEW n \in 0..Len(recs), n <= Len(other), \A k \in 1..n : other[k] = recs[k]
    PROVE  Scanned(other)[n].dead = Scanned(recs)[n].dead
<1> DEFINE S == {k \in Nat : Scanned(other)[k].dead = Scanned(recs)[k].dead}
<1>1. n \in Nat /\ Len(recs) \in Nat /\ Len(other) \in Nat
  OBVIOUS
<1>2. 0 \in S
  BY ScannedLive
<1>3. ASSUME NEW k \in 0..(n - 1), k \in S
      PROVE  k + 1 \in S
  <2>1. k \in Nat /\ k + 1 \in 1..n /\ k \in 0..(Len(recs) - 1) /\ k \in 0..(Len(other) - 1)
    BY <1>1
  <2>2. PICK r : r = recs[k + 1] /\ r = other[k + 1]
    BY <2>1
  <2>3. \A j \in 1..k : j \in 1..n
    BY <1>1
  <2>4. Live(other, k) = Live(recs, k) /\ Live(recs, k) \subseteq 1..k
    BY <2>1, <2>3, LiveSame, LiveType
  <2>5. PICK prev : prev = {j \in Live(recs, k) : About(recs[j], r.coll, r.id)}
    OBVIOUS
  <2>6. prev = {j \in Live(other, k) : About(other[j], r.coll, r.id)}
    BY <2>3, <2>4, <2>5
  <2>7. BytesOf(other, prev, k) = BytesOf(recs, prev, k)
    <3>1. PICK f : f = [j \in 1..k |-> IF j \in prev THEN Bytes(other[j]) ELSE 0]
      OBVIOUS
    <3>2. PICK g : g = [j \in 1..k |-> IF j \in prev THEN Bytes(recs[j]) ELSE 0]
      OBVIOUS
    <3>3. \A j \in 1..k : f[j] = g[j]
      BY <2>3, <3>1, <3>2
    <3>4. Total(f, k) = Total(g, k)
      BY <2>1, <3>3, TotalSame
    <3> QED
      BY <3>1, <3>2, <3>4 DEF BytesOf
  <2>8. Scanned(recs)[k + 1].dead = Scanned(recs)[k].dead + BytesOf(recs, prev, k)
                                      + (IF r.op = "delete" THEN Bytes(r) ELSE 0)
    BY <2>1, <2>2, <2>5, ScannedLive
  <2>9. Scanned(other)[k + 1].dead = Scanned(other)[k].dead + BytesOf(other, prev, k)
                                      + (IF r.op = "delete" THEN Bytes(r) ELSE 0)
    BY <2>1, <2>2, <2>6, ScannedLive
  <2> QED
    BY <1>3, <2>1, <2>7, <2>8, <2>9
<1> HIDE DEF S
<1>4. \A k \in 0..n : k \in S
  BY <1>1, <1>2, <1>3, Climb
<1>5. n \in S
  BY <1>1, <1>4
<1> QED
  BY <1>5 DEF S

\* What one more record does to both counts; x is the size of what it supersedes.
LEMMA CountsNext ==
    ASSUME NEW recs \in Seq(Record), NEW n \in 0..(Len(recs) - 1), NEW r, r = recs[n + 1],
           Alive(recs, r.coll, r.id, n) <=> r.op # "insert",
           NEW x \in Nat,
           \A k \in Live(recs, n) : About(recs[k], r.coll, r.id) => Bytes(recs[k]) = x
    PROVE  LET N == Cardinality(Live(recs, n))
               M == Cardinality(Live(recs, n + 1))
               D == Scanned(recs)[n].dead
               E == Scanned(recs)[n + 1].dead
           IN  /\ N \in Nat
               /\ r.op = "insert" => M = N + 1 /\ (Odd = {} /\ D \in Nat => E = D)
               /\ r.op = "replace" => M = N /\ (Odd = {} /\ D \in Nat => E = D + x)
               /\ r.op = "delete" => /\ M = N - 1 /\ N > 0
                                     /\ Odd = {} /\ D \in Nat => E = D + x + Bytes(r)
<1>1. n \in Nat /\ n + 1 \in 1..Len(recs) /\ Len(recs) \in Nat
  OBVIOUS
<1>2. r \in Record /\ r.op \in {"insert", "replace", "delete"}
  <2>1. r \in Record
    BY <1>1
  <2> QED
    BY <2>1 DEF Record
<1>3. PICK prev : prev = {k \in Live(recs, n) : About(recs[k], r.coll, r.id)}
  OBVIOUS
<1>4. /\ r.op = "insert" => prev = {} /\ Cardinality(Live(recs, n + 1)) = Cardinality(Live(recs, n)) + 1
      /\ r.op # "insert" => \E k \in 1..n : prev = {k}
      /\ r.op = "replace" => Cardinality(Live(recs, n + 1)) = Cardinality(Live(recs, n))
      /\ r.op = "delete" => /\ Cardinality(Live(recs, n + 1)) = Cardinality(Live(recs, n)) - 1
                            /\ Cardinality(Live(recs, n)) > 0
  BY <1>1, <1>2, <1>3, LiveCount
<1>5. BytesOf(recs, prev, n) = IF r.op = "insert" THEN 0 ELSE x
  <2>1. CASE r.op = "insert"
    BY <1>1, <1>4, <2>1, BytesOfNone
  <2>2. CASE r.op # "insert"
    <3>1. PICK k \in 1..n : prev = {k}
      BY <1>4, <2>2
    <3>2. Bytes(recs[k]) = x
      BY <1>3, <3>1
    <3>3. n \in 0..Len(recs)
      BY <1>1
    <3> QED
      BY <2>2, <3>1, <3>2, <3>3, BytesOfOne
  <2> QED
    BY <2>1, <2>2
<1>6. Odd = {} => Scanned(recs)[n + 1].dead =
                    Scanned(recs)[n].dead + BytesOf(recs, prev, n)
                      + (IF r.op = "delete" THEN Bytes(r) ELSE 0)
  BY <1>3, ScannedLive
<1>7. Bytes(r) \in Nat /\ Cardinality(Live(recs, n)) \in Nat
  BY <1>1, <1>2, BytesType, LiveType
<1> QED
  BY <1>4, <1>5, <1>6, <1>7

-----------------------------------------------------------------------------
\* The live records and the documents

\* Every document of c is the one a live record made.
Backed(recs, c, n, ds) ==
    \A i \in DOMAIN ds : \E k \in Live(recs, n) : recs[k].coll = c /\ DocOf(recs[k]) = ds[i]

\* What LogInv says, of any records.
Legal(recs) ==
    \A k \in DOMAIN recs : Alive(recs, recs[k].coll, recs[k].id, k - 1) <=> recs[k].op # "insert"

LEMMA DocsBacked ==
    ASSUME NEW recs \in Seq(Record), Legal(recs), NEW c
    PROVE  \A n \in 0..Len(recs) : Backed(recs, c, n, DocsOf(recs, c)[n])
<1> DEFINE S == {n \in Nat : Backed(recs, c, n, DocsOf(recs, c)[n])}
<1>1. Len(recs) \in Nat /\ DOMAIN recs = 1..Len(recs)
  OBVIOUS
<1>2. 0 \in S
  <2>1. DocsOf(recs, c)[0] = <<>>
    BY DocsFacts
  <2> QED
    BY <2>1 DEF Backed
<1>3. ASSUME NEW n \in 0..(Len(recs) - 1), n \in S
      PROVE  n + 1 \in S
  <2>1. n \in Nat /\ n + 1 \in Nat /\ n + 1 \in 1..Len(recs) /\ (n + 1) - 1 = n /\ n \in 0..Len(recs)
    BY <1>1
  <2>2. PICK r \in Record : r = recs[n + 1]
    BY <2>1
  <2>3. PICK ds \in Seq(Doc) : ds = DocsOf(recs, c)[n]
    BY <2>1, DocsType
  <2>4. Backed(recs, c, n, ds)
    BY <1>3, <2>3
  <2>5. PICK after : after = DocsOf(recs, c)[n + 1]
    OBVIOUS
  <2>6. after = IF r.coll = c THEN ApplyTo(ds, r) ELSE ds
    BY <2>1, <2>2, <2>3, <2>5, DocsFacts
  <2>7. Alive(recs, r.coll, r.id, n) <=> r.op # "insert"
    BY <1>1, <2>1, <2>2 DEF Legal
  <2>8. /\ \A k \in Live(recs, n) : ~About(recs[k], r.coll, r.id) => k \in Live(recs, n + 1)
        /\ r.op # "delete" => n + 1 \in Live(recs, n + 1)
    <3>1. n \in Nat /\ r = recs[n + 1]
      BY <2>1, <2>2
    <3> QED
      BY <3>1, LiveStep
  <2>9. r.op # "delete" => n + 1 \in Live(recs, n + 1)
    BY <2>8
  <2>10. r.op \in {"insert", "replace", "delete"}
    BY DEF Record
  <2>11. CASE r.coll # c
    <3>1. \A k \in Live(recs, n) : recs[k].coll = c => k \in Live(recs, n + 1)
      BY <2>8, <2>11 DEF About
    <3>2. after = ds
      BY <2>6, <2>11
    <3>3. Backed(recs, c, n + 1, after)
      BY <2>4, <3>1, <3>2 DEF Backed
    <3> QED
      BY <2>1, <2>5, <3>3
  <2>12. CASE r.coll = c /\ r.op = "insert"
    <3>1. \A k \in Live(recs, n) : k \in Live(recs, n + 1)
      BY <2>1, <2>7, <2>8, <2>12, LiveAlive
    <3>2. after = Append(ds, DocOf(r))
      BY <2>6, <2>12 DEF ApplyTo
    <3>3. ASSUME NEW i \in DOMAIN after
          PROVE  \E k \in Live(recs, n + 1) : recs[k].coll = c /\ DocOf(recs[k]) = after[i]
      <4>1. PICK L \in Nat : L = Len(ds) /\ DOMAIN ds = 1..L
        BY <2>3
      <4>2. DOMAIN after = 1..(L + 1) /\ after[L + 1] = DocOf(r) /\ \A j \in 1..L : after[j] = ds[j]
        BY <3>2, <4>1
      <4>3. i = L + 1 \/ i \in DOMAIN ds
        BY <3>3, <4>1, <4>2
      <4> QED
        BY <2>2, <2>4, <2>9, <2>12, <3>1, <4>1, <4>2, <4>3 DEF Backed
    <3>4. Backed(recs, c, n + 1, after)
      BY <3>3 DEF Backed
    <3> QED
      BY <2>1, <2>5, <3>4
  <2>13. CASE r.coll = c /\ r.op = "replace"
    <3>1. after = [i \in DOMAIN ds |-> IF ds[i].id = r.id THEN DocOf(r) ELSE ds[i]]
      BY <2>6, <2>13 DEF ApplyTo
    <3>2. ASSUME NEW i \in DOMAIN ds
          PROVE  \E k \in Live(recs, n + 1) : recs[k].coll = c /\ DocOf(recs[k]) = after[i]
      <4>1. CASE ds[i].id = r.id
        BY <2>2, <2>9, <2>13, <3>1, <4>1
      <4>2. CASE ds[i].id # r.id
        <5>1. PICK k \in Live(recs, n) : recs[k].coll = c /\ DocOf(recs[k]) = ds[i]
          BY <2>4 DEF Backed
        <5>2. recs[k].id = ds[i].id
          BY <5>1 DEF DocOf
        <5>3. k \in Live(recs, n + 1)
          BY <2>8, <4>2, <5>2 DEF About
        <5> QED
          BY <3>1, <4>2, <5>1, <5>3
      <4> QED
        BY <4>1, <4>2
    <3>3. DOMAIN after = DOMAIN ds
      BY <3>1
    <3>4. Backed(recs, c, n + 1, after)
      BY <3>2, <3>3 DEF Backed
    <3> QED
      BY <2>1, <2>5, <3>4
  <2>14. CASE r.coll = c /\ r.op = "delete"
    <3>1. PICK K : K = {i \in DOMAIN ds : ds[i].id # r.id}
      OBVIOUS
    <3>2. after = Picked(ds, K)
      BY <2>6, <2>14, <3>1 DEF ApplyTo
    <3>3. /\ DOMAIN Picked(ds, K) = 1..Cardinality(K)
          /\ \A i \in 1..Cardinality(K) : Nth(K, i) \in K /\ Picked(ds, K)[i] = ds[Nth(K, i)]
      <4>1. K \subseteq DOMAIN ds
        BY <3>1
      <4> QED
        BY <4>1, PickedFacts
    <3>4. ASSUME NEW i \in K
          PROVE  \E k \in Live(recs, n + 1) : recs[k].coll = c /\ DocOf(recs[k]) = ds[i]
      <4>1. i \in DOMAIN ds /\ ds[i].id # r.id
        BY <3>1, <3>4
      <4>2. PICK k \in Live(recs, n) : recs[k].coll = c /\ DocOf(recs[k]) = ds[i]
        BY <2>4, <4>1 DEF Backed
      <4>3. recs[k].id = ds[i].id
        BY <4>2 DEF DocOf
      <4>4. k \in Live(recs, n + 1)
        BY <2>8, <4>1, <4>3 DEF About
      <4> QED
        BY <4>2, <4>4
    <3>5. Backed(recs, c, n + 1, after)
      BY <3>2, <3>3, <3>4 DEF Backed
    <3> QED
      BY <2>1, <2>5, <3>5
  <2> QED
    BY <2>10, <2>11, <2>12, <2>13, <2>14
<1> HIDE DEF S
<1>4. \A n \in 0..Len(recs) : n \in S
  BY <1>1, <1>2, <1>3, Climb
<1> QED
  BY <1>4 DEF S

\* The size of a live record is the one its document's slot knows.
LEMMA SlotIsLive ==
    ASSUME Types, IInv, NEW c \in Coll, NEW pos \in DOMAIN slots[c] \ Marks(c)
    PROVE  /\ slots[c][pos].len \in Nat
           /\ \A k \in Live(log, Upto) :
                About(log[k], c, At(c, pos).id) => Bytes(log[k]) = Header + slots[c][pos].len
           /\ \E k \in Live(log, Upto) : About(log[k], c, At(c, pos).id)
<1>1. CollInv(c) /\ Legal(log) /\ log \in Seq(Record) /\ slots[c] \in Seq(Slot)
  BY DEF IInv, LogInv, Legal, Types
<1>2. PICK n \in 0..Len(log) : n = Upto
  BY UptoType
<1>3. /\ \A i \in DOMAIN slots[c] : /\ slots[c][i].at \in 1..n /\ At(c, i) = log[slots[c][i].at]
                                    /\ At(c, i).op # "delete" /\ At(c, i).id \in Id
  BY <1>1, <1>2, SlotFacts DEF CollInv
<1>4. /\ LiveOf(slots[c]) = DOMAIN slots[c] \ Marks(c)
      /\ Leads(log, slots[c], DocsOf(log, c)[n])
  BY <1>1, <1>2, FoldIsLeads DEF CollInv
<1>5. PICK K : K = LiveOf(slots[c])
  OBVIOUS
<1>6. pos \in K /\ K \subseteq DOMAIN slots[c]
  BY <1>4, <1>5
<1>7. /\ K \subseteq Nat /\ IsFiniteSet(K)
      /\ DOMAIN Picked(slots[c], K) = 1..Cardinality(K)
      /\ \A i \in 1..Cardinality(K) : Picked(slots[c], K)[i] = slots[c][Nth(K, i)]
  BY <1>1, <1>6, PickedFacts
<1>8. PICK i \in 1..Cardinality(K) : Nth(K, i) = pos
  BY <1>6, <1>7, NthFacts
<1>9. PICK ds : ds = DocsOf(log, c)[n]
  OBVIOUS
<1>10. ds = [j \in 1..Cardinality(K) |-> DocOf(log[Picked(slots[c], K)[j].at])]
  BY <1>4, <1>5, <1>7, <1>9 DEF Leads, ShownBy
<1>11. i \in DOMAIN ds /\ ds[i] = DocOf(At(c, pos))
  BY <1>3, <1>6, <1>7, <1>8, <1>10
<1>12. Backed(log, c, n, ds)
  BY <1>1, <1>9, DocsBacked
<1>13. PICK l \in Live(log, n) : log[l].coll = c /\ DocOf(log[l]) = DocOf(At(c, pos))
  BY <1>11, <1>12 DEF Backed
<1>14. log[l].id = At(c, pos).id /\ log[l].val = At(c, pos).val
  BY <1>13 DEF DocOf
<1>15. \A k \in Live(log, n) : About(log[k], c, At(c, pos).id) => k = l
  BY <1>2, <1>13, <1>14, LiveOnce DEF About
<1>16. log[l].op # "delete" /\ At(c, pos).op # "delete"
  BY <1>3, <1>6, <1>13 DEF Live
<1>17. PayloadLen(log[l]) = PayloadLen(At(c, pos))
  BY <1>14, <1>16 DEF PayloadLen
<1>18. slots[c][pos].len = PayloadLen(At(c, pos))
  BY <1>3, <1>4, <1>5, <1>6 DEF Leads
<1>19. slots[c][pos].len \in Nat
  <2>1. slots[c][pos] \in Slot
    BY <1>1, <1>6
  <2> QED
    BY <2>1 DEF Slot
<1> QED
  BY <1>2, <1>13, <1>14, <1>15, <1>17, <1>18, <1>19 DEF Bytes, About

-----------------------------------------------------------------------------
\* The counters, step by step

Counts == CountInv /\ dead \in Nat

\* The records the index reflects stay what they are.
Keeps(n) == /\ n \in Nat /\ n = Upto
            /\ \A k \in 1..n : log'[k] = log[k]

LEMMA CountsKept ==
    ASSUME Types, Types', Counts, NEW n, Keeps(n), n <= Len(log')
    PROVE  /\ Live(log', n) = Live(log, n) /\ Cardinality(Live(log', n)) = total
           /\ Odd = {} => Scanned(log')[n].dead = dead
           /\ dead \in Nat /\ total \in Nat
<1>1. log \in Seq(Record) /\ log' \in Seq(Record)
  BY DEF Types
<1>2. n \in 0..Len(log) /\ n \in Nat /\ \A k \in 1..n : log'[k] = log[k]
  BY UptoType DEF Keeps
<1>3. Live(log', n) = Live(log, n) /\ Cardinality(Live(log, n)) \in Nat
  BY <1>2, LiveSame, LiveType
<1>4. Odd = {} => Scanned(log')[n].dead = Scanned(log)[n].dead
  BY <1>1, <1>2, ScannedSame
<1>5. total = Cardinality(Live(log, n)) /\ (Odd = {} => dead = Scanned(log)[n].dead) /\ dead \in Nat
  BY DEF Counts, CountInv, Keeps
<1> QED
  BY <1>3, <1>4, <1>5

LEMMA CountsStay ==
    ASSUME Types, Types', Counts, NEW n, Keeps(n), n <= Len(log'), Upto' = n,
           dead' = dead, total' = total
    PROVE  Counts'
<1>1. /\ Cardinality(Live(log', n)) = total /\ dead \in Nat
      /\ Odd = {} => Scanned(log')[n].dead = dead
  BY CountsKept
<1>2. Cardinality(Live(log, Upto))' = Cardinality(Live(log', n))
  BY DEF Live, About
<1>3. Scanned(log)[Upto]' = Scanned(log')[n]
  BY DEF Scanned, About, BytesOf, Bytes, PayloadLen, Total, Unreadable
<1> QED
  BY <1>1, <1>2, <1>3 DEF Counts, CountInv

\* Nothing is applied.
LEMMA CountsStart ==
    ASSUME log \in Seq(Record), Upto = 0, dead = 0, total = 0
    PROVE  Counts
<1>1. Live(log, 0) = {} /\ Cardinality({}) = 0
  BY FS_EmptySet DEF Live
<1>2. Odd = {} => Scanned(log)[0].dead = 0
  BY ScannedLive
<1> QED
  BY <1>1, <1>2 DEF Counts, CountInv

\* m inserts.
LEMMA CountsGrow ==
    ASSUME Types, Types', LogInv', Counts, NEW n, Keeps(n),
           NEW m \in Nat, Upto' = n + m, n + m <= Len(log'),
           \A k \in (n + 1)..(n + m) : log'[k].op = "insert",
           dead' = dead, total' = total + m
    PROVE  Counts'
<1>1. log' \in Seq(Record) /\ Legal(log') /\ n \in Nat
  BY DEF Types, LogInv, Legal, Keeps
<1>2. /\ Cardinality(Live(log', n)) = total /\ dead \in Nat /\ total \in Nat
      /\ Odd = {} => Scanned(log')[n].dead = dead
  <2>1. n <= Len(log')
    BY <1>1
  <2> QED
    BY <2>1, CountsKept
<1> DEFINE S == {j \in Nat : /\ Cardinality(Live(log', n + j)) = total + j
                             /\ Odd = {} => Scanned(log')[n + j].dead = dead}
<1>3. 0 \in S
  <2>1. n + 0 = n /\ total + 0 = total
    BY <1>1, <1>2
  <2> QED
    BY <1>2, <2>1
<1>4. ASSUME NEW j \in 0..(m - 1), j \in S
      PROVE  j + 1 \in S
  <2>1. PICK q \in 0..(Len(log') - 1) : q = n + j /\ q + 1 = n + (j + 1) /\ q + 1 \in (n + 1)..(n + m)
    BY <1>1
  <2>2. PICK r : r = log'[q + 1]
    OBVIOUS
  <2>3. r.op = "insert"
    BY <2>1, <2>2
  <2>4. q + 1 \in DOMAIN log' /\ (q + 1) - 1 = q
    BY <1>1, <2>1
  <2>5. Alive(log', r.coll, r.id, q) <=> r.op # "insert"
    BY <1>1, <2>2, <2>4 DEF Legal
  <2>6. q \in Nat /\ \A k \in Live(log', q) : ~About(log'[k], r.coll, r.id)
    BY <2>1, <2>3, <2>5, LiveAlive
  <2>7. /\ Cardinality(Live(log', q)) \in Nat
        /\ Cardinality(Live(log', q + 1)) = Cardinality(Live(log', q)) + 1
        /\ Odd = {} /\ Scanned(log')[q].dead \in Nat => Scanned(log')[q + 1].dead = Scanned(log')[q].dead
    <3>1. \A k \in Live(log', q) : About(log'[k], r.coll, r.id) => Bytes(log'[k]) = 0
      BY <2>6
    <3> QED
      BY <1>1, <2>1, <2>2, <2>3, <2>5, <3>1, CountsNext
  <2>8. /\ Cardinality(Live(log', q)) = total + j
        /\ Odd = {} => Scanned(log')[q].dead = dead
    BY <1>4, <2>1
  <2>9. Cardinality(Live(log', q + 1)) = total + (j + 1)
    BY <1>2, <2>7, <2>8
  <2>10. Odd = {} => Scanned(log')[q + 1].dead = dead
    BY <1>2, <2>7, <2>8
  <2>11. j + 1 \in Nat
    OBVIOUS
  <2> QED
    BY <2>1, <2>9, <2>10, <2>11
<1> HIDE DEF S
<1>5. \A j \in 0..m : j \in S
  BY <1>3, <1>4, Climb
<1>6. m \in S
  BY <1>5
<1>7. Cardinality(Live(log', Upto')) = total' /\ (Odd = {} => Scanned(log')[Upto'].dead = dead')
  BY <1>6 DEF S
<1>8. Cardinality(Live(log, Upto))' = Cardinality(Live(log', Upto'))
  BY DEF Live, About
<1>9. Scanned(log)[Upto]' = Scanned(log')[Upto']
  BY DEF Scanned, About, BytesOf, Bytes, PayloadLen, Total, Unreadable
<1> QED
  BY <1>2, <1>7, <1>8, <1>9 DEF Counts, CountInv

\* The document in the slot at pos is replaced.
LEMMA CountsReplace ==
    ASSUME Types, Types', IInv, LogInv', Counts, NEW n, Keeps(n), n + 1 <= Len(log'), Upto' = n + 1,
           NEW c \in Coll, NEW pos \in DOMAIN slots[c] \ Marks(c),
           About(log'[n + 1], c, At(c, pos).id), log'[n + 1].op = "replace",
           dead' = dead + (Header + slots[c][pos].len), total' = total
    PROVE  Counts'
<1>1. log' \in Seq(Record) /\ Legal(log') /\ n \in Nat /\ n = Upto
  BY DEF Types, LogInv, Legal, Keeps
<1>2. /\ Cardinality(Live(log', n)) = total /\ dead \in Nat /\ total \in Nat
      /\ Live(log', n) = Live(log, n)
      /\ Odd = {} => Scanned(log')[n].dead = dead
  <2>1. n <= Len(log')
    BY <1>1
  <2> QED
    BY <2>1, CountsKept
<1>3. n \in 0..(Len(log') - 1) /\ n + 1 \in DOMAIN log' /\ (n + 1) - 1 = n
  BY <1>1
<1>4. PICK r : r = log'[n + 1]
  OBVIOUS
<1>5. r.coll = c /\ r.id = At(c, pos).id /\ r.op = "replace"
  BY <1>4 DEF About
<1>6. Alive(log', r.coll, r.id, n) <=> r.op # "insert"
  BY <1>1, <1>3, <1>4 DEF Legal
<1>7. PICK x \in Nat : x = Header + slots[c][pos].len
  <2>1. slots[c][pos].len \in Nat
    BY SlotIsLive
  <2> QED
    BY <2>1, LengthAssumption
<1>8. \A k \in Live(log', n) : About(log'[k], r.coll, r.id) => Bytes(log'[k]) = x
  <2> TAKE k \in Live(log', n)
  <2>1. k \in Live(log, n) /\ k \in 1..n
    BY <1>1, <1>2, LiveType
  <2>2. log'[k] = log[k]
    BY <2>1 DEF Keeps
  <2> QED
    BY <1>1, <1>5, <1>7, <2>1, <2>2, SlotIsLive
<1>9. /\ Cardinality(Live(log', n + 1)) = total
      /\ Odd = {} /\ Scanned(log')[n].dead \in Nat =>
           Scanned(log')[n + 1].dead = Scanned(log')[n].dead + x
  BY <1>1, <1>2, <1>3, <1>4, <1>5, <1>6, <1>8, CountsNext, SMTT(40)
<1>10. Odd = {} => Scanned(log')[n + 1].dead = dead'
  BY <1>2, <1>7, <1>9
<1>11. dead' \in Nat
  BY <1>2, <1>7
<1>12. Cardinality(Live(log, Upto))' = Cardinality(Live(log', n + 1))
  BY DEF Live, About
<1>13. Scanned(log)[Upto]' = Scanned(log')[n + 1]
  BY DEF Scanned, About, BytesOf, Bytes, PayloadLen, Total, Unreadable
<1> QED
  BY <1>9, <1>10, <1>11, <1>12, <1>13 DEF Counts, CountInv

\* The documents in the slots that p lists are deleted; h lists their sizes.
Deleting(c, p, h, n, m) ==
    /\ \A k \in 1..m :
         /\ p[k] \in DOMAIN slots[c] \ Marks(c)
         /\ h[k] = Header + slots[c][p[k]].len
         /\ About(log'[n + k], c, At(c, p[k]).id) /\ log'[n + k].op = "delete"
    /\ \A j, k \in 1..m : p[j] = p[k] => j = k

LEMMA CountsDelete ==
    ASSUME Types, Types', IInv, LogInv', Counts, NEW n, Keeps(n),
           NEW m \in Nat, n + m <= Len(log'), Upto' = n + m,
           NEW c \in Coll, NEW p, NEW h, Deleting(c, p, h, n, m),
           dead' = dead + m * (Header + TombLen) + Total(h, m), total' = total - m
    PROVE  Counts'
<1>1. log' \in Seq(Record) /\ Legal(log') /\ n \in Nat /\ n = Upto
  BY DEF Types, LogInv, Legal, Keeps
<1>2. /\ Cardinality(Live(log', n)) = total /\ dead \in Nat /\ total \in Nat
      /\ Live(log', n) = Live(log, n)
      /\ Odd = {} => Scanned(log')[n].dead = dead
  <2>1. n <= Len(log')
    BY <1>1
  <2> QED
    BY <2>1, CountsKept
<1>3. PICK W \in Nat : W = Header + TombLen
  BY LengthAssumption
<1>4. \A k \in 1..m : h[k] \in Nat
  <2> TAKE k \in 1..m
  <2>1. p[k] \in DOMAIN slots[c] \ Marks(c) /\ h[k] = Header + slots[c][p[k]].len
    BY DEF Deleting
  <2>2. slots[c][p[k]].len \in Nat
    BY <2>1, SlotIsLive
  <2> QED
    BY <2>1, <2>2, LengthAssumption, SMTT(40)
<1>5. ASSUME NEW j \in 0..m PROVE Total(h, j) \in Nat
  <2>1. j \in Nat /\ \A k \in 1..j : h[k] \in Nat
    BY <1>4
  <2> QED
    BY <2>1, TotalType
<1> DEFINE S == {j \in Nat : /\ Cardinality(Live(log', n + j)) = total - j /\ total - j \in Nat
                             /\ Odd = {} => Scanned(log')[n + j].dead = dead + j * W + Total(h, j)}
<1>6. 0 \in S
  <2>1. n + 0 = n /\ total - 0 = total /\ 0 * W = 0 /\ Total(h, 0) = 0
    BY <1>1, <1>2, TotalFacts, SMTT(40)
  <2>2. dead + 0 + 0 = dead
    BY <1>2
  <2> QED
    BY <1>2, <2>1, <2>2
<1>7. ASSUME NEW j \in 0..(m - 1), j \in S
      PROVE  j + 1 \in S
  <2>1. PICK q \in 0..(Len(log') - 1) : q = n + j /\ q + 1 = n + (j + 1)
    BY <1>1
  <2>2. PICK r : r = log'[q + 1]
    OBVIOUS
  <2>3. j + 1 \in 1..m /\ j \in 0..m
    OBVIOUS
  <2>4. PICK pos \in DOMAIN slots[c] \ Marks(c) :
          /\ pos = p[j + 1] /\ h[j + 1] = Header + slots[c][pos].len
          /\ r.coll = c /\ r.id = At(c, pos).id /\ r.op = "delete"
    BY <2>1, <2>2, <2>3 DEF Deleting, About
  <2>5. q + 1 \in DOMAIN log' /\ (q + 1) - 1 = q
    BY <1>1, <2>1
  <2>6. Alive(log', r.coll, r.id, q) <=> r.op # "insert"
    BY <1>1, <2>2, <2>5 DEF Legal
  <2>7. PICK x \in Nat : x = h[j + 1]
    BY <1>4, <2>3
  <2>8. \A k \in Live(log', q) : About(log'[k], r.coll, r.id) => Bytes(log'[k]) = x
    <3> SUFFICES ASSUME NEW k \in Live(log', q), About(log'[k], r.coll, r.id)
                 PROVE  Bytes(log'[k]) = x
      OBVIOUS
    <3>1. k \in 1..q /\ log'[k].op # "delete"
      BY DEF Live
    <3>2. k \in 1..n
      <4>1. ASSUME ~(k \in 1..n) PROVE FALSE
        <5>1. k - n \in 1..m /\ n + (k - n) = k
          BY <1>1, <2>1, <3>1, <4>1
        <5>2. log'[n + (k - n)].op = "delete"
          BY <5>1 DEF Deleting
        <5> QED
          BY <3>1, <5>1, <5>2
      <4> QED
        BY <4>1
    <3>3. k \in Live(log', n)
      <4>1. \A i \in (k + 1)..n : i \in (k + 1)..q
        BY <1>1, <2>1
      <4> QED
        BY <3>2, <4>1 DEF Live
    <3>4. k \in Live(log, n) /\ log'[k] = log[k]
      BY <1>2, <3>2, <3>3 DEF Keeps
    <3> QED
      BY <1>1, <2>4, <2>7, <3>4, SlotIsLive
  <2>9. /\ Cardinality(Live(log', q)) \in Nat
        /\ Cardinality(Live(log', q + 1)) = Cardinality(Live(log', q)) - 1
        /\ Cardinality(Live(log', q)) > 0
        /\ Odd = {} /\ Scanned(log')[q].dead \in Nat =>
             Scanned(log')[q + 1].dead = Scanned(log')[q].dead + x + Bytes(r)
    <3>1. log' \in Seq(Record) /\ r = log'[q + 1] /\ r.op = "delete"
      BY <1>1, <2>2, <2>4
    <3> QED
      BY <2>6, <2>8, <3>1, CountsNext
  <2>10. Bytes(r) = W
    BY <1>3, <2>4 DEF Bytes, PayloadLen
  <2>11. /\ Cardinality(Live(log', q)) = total - j /\ total - j \in Nat
         /\ Odd = {} => Scanned(log')[q].dead = dead + j * W + Total(h, j)
    BY <1>7, <2>1
  <2>12. Cardinality(Live(log', q + 1)) = total - (j + 1) /\ total - (j + 1) \in Nat
    BY <1>2, <2>9, <2>11
  <2>13. Odd = {} => Scanned(log')[q + 1].dead = dead + (j + 1) * W + Total(h, j + 1)
    <3> SUFFICES ASSUME Odd = {}
                 PROVE  Scanned(log')[q + 1].dead = dead + (j + 1) * W + Total(h, j + 1)
      OBVIOUS
    <3>1. PICK T \in Nat : T = Total(h, j)
      BY <1>5, <2>3
    <3>2. PICK J \in Nat : J = j * W /\ (j + 1) * W = J + W
      <4>1. j \in Nat /\ j * W \in Nat
        OBVIOUS
      <4>2. (j + 1) * W = j * W + W
        BY <4>1
      <4> QED
        BY <4>1, <4>2
    <3>3. Total(h, j + 1) = T + x
      <4>1. j \in Nat
        OBVIOUS
      <4>2. Total(h, j + 1) = Total(h, j) + h[j + 1]
        BY <4>1, TotalFacts
      <4> QED
        BY <2>7, <3>1, <4>2
    <3>4. Scanned(log')[q].dead = dead + J + T
      BY <2>11, <3>1, <3>2
    <3>5. Scanned(log')[q + 1].dead = dead + J + T + x + W
      BY <1>2, <2>9, <2>10, <3>4
    <3>6. PICK Y, w \in Nat : Y = (j + 1) * W /\ w = W /\ Y = J + w
      BY <3>2
    <3>7. dead + Y + (T + x) = dead + J + T + x + W
      <4>1. PICK d \in Nat : d = dead
        BY <1>2
      <4>2. d + (J + w) + (T + x) = d + J + T + x + w
        OBVIOUS
      <4> QED
        BY <3>6, <4>1, <4>2
    <3> QED
      BY <3>3, <3>5, <3>6, <3>7
  <2>14. j + 1 \in Nat
    OBVIOUS
  <2> QED
    BY <2>1, <2>12, <2>13, <2>14
<1> HIDE DEF S
<1>8. \A j \in 0..m : j \in S
  BY <1>6, <1>7, Climb
<1>9. m \in S
  BY <1>8
<1>10. Cardinality(Live(log', Upto')) = total' /\ (Odd = {} => Scanned(log')[Upto'].dead = dead')
  BY <1>3, <1>9 DEF S
<1>11. dead' \in Nat
  <2>1. Total(h, m) \in Nat /\ m * W \in Nat
    BY <1>5
  <2> QED
    BY <1>2, <1>3, <2>1, SMTT(40)
<1>12. Cardinality(Live(log, Upto))' = Cardinality(Live(log', Upto'))
  BY DEF Live, About
<1>13. Scanned(log)[Upto]' = Scanned(log')[Upto']
  BY DEF Scanned, About, BytesOf, Bytes, PayloadLen, Total, Unreadable
<1> QED
  BY <1>10, <1>11, <1>12, <1>13 DEF Counts, CountInv

LEMMA CountsReset ==
    ASSUME log' \in Seq(Record), Upto' = 0, dead' = 0, total' = 0
    PROVE  Counts'
<1>1. Live(log', 0) = {} /\ Cardinality({}) = 0
  BY FS_EmptySet DEF Live
<1>2. Odd = {} => Scanned(log')[0].dead = 0
  BY ScannedLive
<1>3. Cardinality(Live(log, Upto))' = Cardinality(Live(log', Upto'))
  BY DEF Live, About
<1>4. Scanned(log)[Upto]' = Scanned(log')[Upto']
  BY DEF Scanned, About, BytesOf, Bytes, PayloadLen, Total, Unreadable
<1> QED
  BY <1>1, <1>2, <1>3, <1>4 DEF Counts, CountInv

\* Steps that apply nothing.
LEMMA CountsIdle ==
    ASSUME Types, Types', Counts, log' = log, Upto' = Upto, dead' = dead, total' = total
    PROVE  Counts'
<1>1. PICK n : n = Upto
  OBVIOUS
<1>2. Keeps(n) /\ n <= Len(log')
  BY <1>1, UptoType DEF Keeps
<1> QED
  BY <1>1, <1>2, CountsStay

LEMMA GoneCounts ==
    ASSUME Types', Gone, mode' # "open"
    PROVE  Counts'
<1>1. dead' = 0 /\ total' = 0 /\ at' = 0
  BY DEF Gone, EmptyMemory, Memory
<1>2. Upto' = 0 /\ log' \in Seq(Record)
  BY <1>1 DEF Upto, Types
<1> QED
  BY <1>1, <1>2, CountsReset

LEMMA PublishCounts ==
    ASSUME Types, Types', LogInv', Counts, mode = "open", NEW c, NEW ds \in Seq(Doc), NEW w,
           Publish(c, ds, w), Quiet
    PROVE  Counts'
<1>1. PICK m \in Nat : m = Len(ds) /\ DOMAIN ds = 1..m
  OBVIOUS
<1>2. PICK n \in Nat : n = Len(log) /\ n = Upto
  BY UptoType DEF Upto
<1>3. PICK R : R = [k \in 1..m |-> InsertRecord(c, ds[k])]
  OBVIOUS
<1>4. log' = log \o R /\ total' = total + m /\ dead' = dead /\ mode' = mode
  BY <1>1, <1>3, Zenon DEF Publish, Quiet
<1>5. \A k \in 1..m : R[k].op = "insert"
  BY <1>3 DEF InsertRecord
<1>6. /\ Len(log') = n + m /\ \A k \in 1..n : log'[k] = log[k]
      /\ \A k \in 1..m : log'[n + k] = R[k]
  <2>1. DOMAIN R = 1..m /\ R = [k \in 1..m |-> R[k]]
    BY <1>3
  <2>2. PICK D : D = {R[k] : k \in 1..m} \cup Record
    OBVIOUS
  <2>3. \A k \in 1..m : R[k] \in D
    BY <2>2
  <2>4. R \in Seq(D) /\ Len(R) = m
    BY <2>1, <2>3
  <2>5. log \in Seq(D)
    <3>1. log \in Seq(Record) /\ Record \subseteq D
      BY <2>2 DEF Types
    <3> QED
      BY <3>1
  <2>6. /\ Len(log \o R) = Len(log) + Len(R)
        /\ \A k \in 1..Len(log) : (log \o R)[k] = log[k]
        /\ \A k \in 1..Len(R) : (log \o R)[Len(log) + k] = R[k]
    <3>1. PICK s \in Seq(D) : s = log
      BY <2>5
    <3>2. PICK t \in Seq(D) : t = R
      BY <2>4
    <3>3. /\ Len(s \o t) = Len(s) + Len(t)
          /\ \A k \in 1..Len(s) : (s \o t)[k] = s[k]
          /\ \A k \in 1..Len(t) : (s \o t)[Len(s) + k] = t[k]
      OBVIOUS
    <3> QED
      BY <3>1, <3>2, <3>3
  <2> QED
    BY <1>2, <1>4, <2>4, <2>6
<1>7. Upto' = n + m
  BY <1>4, <1>6 DEF Upto
<1>8. \A k \in (n + 1)..(n + m) : log'[k].op = "insert"
  <2> TAKE k \in (n + 1)..(n + m)
  <2>1. k - n \in 1..m /\ n + (k - n) = k
    OBVIOUS
  <2> QED
    BY <1>5, <1>6, <2>1
<1>9. Keeps(n)
  BY <1>2, <1>6 DEF Keeps
<1>10. n + m <= Len(log')
  BY <1>6
<1> QED
  BY <1>4, <1>7, <1>8, <1>9, <1>10, CountsGrow

LEMMA RefuseCounts ==
    ASSUME Types, Types', Counts, NEW c, NEW w, Refuse(c, w) \/ ReturnUnchanged(w)
    PROVE  Counts'
<1>1. log' = log /\ dead' = dead /\ total' = total /\ mode' = mode /\ at' = at
  BY Zenon DEF Refuse, ReturnUnchanged, Quiet
<1>2. Upto' = Upto
  BY <1>1 DEF Upto
<1> QED
  BY <1>1, <1>2, CountsIdle

LEMMA InsertCounts ==
    ASSUME Types, Types', LogInv', Counts, NEW c, NEW d \in Doc, NEW supplied,
           Insert(c, d, supplied)
    PROVE  Counts'
<1>1. mode = "open" /\ <<d>> \in Seq(Doc)
  BY DEF Insert
<1>2. \/ \E w \in {supplied, TRUE, FALSE} : Refuse(c, w)
      \/ Publish(c, <<d>>, supplied) /\ Quiet
  BY Zenon DEF Insert
<1> QED
  BY <1>1, <1>2, RefuseCounts, PublishCounts

LEMMA InsertManyCounts ==
    ASSUME Types, Types', LogInv', Counts, NEW c, NEW ds \in Batches(Doc), NEW sup,
           InsertMany(c, ds, sup)
    PROVE  Counts'
<1> DEFINE any == \E k \in DOMAIN ds : sup[k]
<1>1. mode = "open"
  BY DEF InsertMany
<1>2. \/ Refuse(c, FALSE) \/ Refuse(c, any)
      \/ \E n \in 0..Len(ds) : Publish(c, SubSeq(ds, 1, n), any) /\ Quiet
  BY Zenon DEF InsertMany
<1>3. ds \in Seq(Doc)
  <2>1. PICK n \in 1..MaxBatch : ds \in [1..n -> Doc]
    BY DEF Batches
  <2> QED
    BY <2>1, BoundsAssumption
<1>4. \A n \in 0..Len(ds) : SubSeq(ds, 1, n) \in Seq(Doc)
  BY <1>3
<1> HIDE DEF any
<1> QED
  BY <1>1, <1>2, <1>4, RefuseCounts, PublishCounts

\* What a scan may match is a document of the index.
LEMMA MatchesShown ==
    ASSUME Types, IInv, mode = "open", NEW c \in Coll, NEW f
    PROVE  \A i \in Matches(c, f) :
             i \in DOMAIN Scan(c) /\ i \in DOMAIN slots[c] \ Marks(c) /\ i \in Nat /\ Scan(c)[i].id = At(c, i).id
<1>1. CollInv(c)
  BY DEF IInv
<1>2. \A i \in DOMAIN Scan(c) : i \in DOMAIN slots[c] \ Marks(c) /\ Scan(c)[i].id = At(c, i).id
  BY <1>1, ScanFacts
<1>3. DOMAIN slots[c] \subseteq Nat
  BY <1>1, SlotFacts DEF CollInv
<1> QED
  BY <1>2, <1>3 DEF Matches

LEMMA ReplaceCounts ==
    ASSUME Types, Types', IInv, LogInv', Counts, NEW c \in Coll, NEW f, NEW sid, NEW v,
           Replace(c, f, sid, v)
    PROVE  Counts'
<1>1. mode = "open"
  BY DEF Replace
<1>2. PICK pos : pos = Min(Matches(c, f))
  OBVIOUS
<1>3. \/ \E w : ReturnUnchanged(w)
      \/ /\ Matches(c, f) # {}
         /\ log' = Append(log, ReplaceRecord(c, [id |-> At(c, pos).id, val |-> v]))
         /\ dead' = Repoint(c, pos, v)
         /\ total' = total
         /\ Quiet
  BY <1>2, Zenon DEF Replace
<1>4. CASE \E w : ReturnUnchanged(w)
  BY <1>4, RefuseCounts
<1>5. CASE /\ Matches(c, f) # {}
           /\ log' = Append(log, ReplaceRecord(c, [id |-> At(c, pos).id, val |-> v]))
           /\ dead' = Repoint(c, pos, v)
           /\ total' = total
           /\ Quiet
  <2>1. pos \in DOMAIN slots[c] \ Marks(c)
    <3>1. \A i \in Matches(c, f) : i \in DOMAIN slots[c] \ Marks(c) /\ i \in Nat
      BY <1>1, MatchesShown
    <3>2. pos \in Matches(c, f)
      BY <1>2, <1>5, <3>1, MinInSet
    <3> QED
      BY <3>1, <3>2
  <2>2. PICK n \in Nat : n = Len(log) /\ n = Upto
    BY <1>1, UptoType DEF Upto
  <2>3. PICK r : r = ReplaceRecord(c, [id |-> At(c, pos).id, val |-> v])
    OBVIOUS
  <2>4. r.op = "replace" /\ About(r, c, At(c, pos).id)
    BY <2>3 DEF ReplaceRecord, About
  <2>5. Len(log') = n + 1 /\ log'[n + 1] = r /\ \A k \in 1..n : log'[k] = log[k]
    <3>1. PICK D : D = Record \cup {r}
      OBVIOUS
    <3>2. log \in Seq(D) /\ r \in D
      <4>1. log \in Seq(Record) /\ Record \subseteq D
        BY <3>1 DEF Types
      <4> QED
        BY <3>1, <4>1
    <3>3. /\ Len(Append(log, r)) = Len(log) + 1 /\ Append(log, r)[Len(log) + 1] = r
          /\ \A k \in 1..Len(log) : Append(log, r)[k] = log[k]
      BY <3>2
    <3> QED
      BY <1>5, <2>2, <2>3, <3>3
  <2>6. Upto' = n + 1
    BY <1>1, <1>5, <2>5 DEF Upto, Quiet
  <2>7. dead' = dead + (Header + slots[c][pos].len)
    <3>1. slots[c][pos].len \in Nat /\ Header \in Nat /\ dead \in Nat
      BY <2>1, SlotIsLive, LengthAssumption DEF Counts
    <3>2. dead' = dead + Header + slots[c][pos].len
      BY <1>5 DEF Repoint
    <3> QED
      BY <3>1, <3>2
  <2>8. Keeps(n) /\ n + 1 <= Len(log')
    BY <2>2, <2>5 DEF Keeps
  <2> QED
    BY <1>5, <2>1, <2>4, <2>5, <2>6, <2>7, <2>8, CountsReplace
<1> QED
  BY <1>3, <1>4, <1>5

\* What Delete does to the log and the counters.
Deletes2(c, found, n) ==
    /\ log' = log \o [k \in 1..n |-> Tombstone(c, Scan(c)[Nth(found, k)].id)]
    /\ dead' = dead + n * (Header + TombLen) +
                 Total([k \in 1..n |-> Header + slots[c][Nth(found, k)].len], n)
    /\ total' = total - n
    /\ Quiet

LEMMA TombstonesCounts ==
    ASSUME Types, Types', IInv, LogInv', Counts, mode = "open", NEW c \in Coll,
           NEW f, NEW found, found \subseteq Matches(c, f), NEW n \in 0..Cardinality(found),
           Deletes2(c, found, n)
    PROVE  Counts'
<1>1. \A i \in found : i \in DOMAIN slots[c] \ Marks(c) /\ i \in Nat /\ Scan(c)[i].id = At(c, i).id
  BY MatchesShown
<1>2. found \subseteq Nat /\ IsFiniteSet(found)
  <2>1. slots[c] \in Seq(Slot) /\ found \subseteq DOMAIN slots[c]
    BY <1>1 DEF Types
  <2> QED
    BY <2>1, PickedFacts
<1>3. Cardinality(found) \in Nat /\ n \in Nat
  <2>1. Cardinality(found) \in Nat
    BY <1>2, FS_CardinalityType
  <2> QED
    BY <2>1
<1>4. \A k \in 1..n : Nth(found, k) \in found /\ Rank(found, Nth(found, k)) = k
  <2>1. \A k \in 1..Cardinality(found) : Nth(found, k) \in found /\ Rank(found, Nth(found, k)) = k
    BY <1>2, NthFacts
  <2> QED
    BY <1>3, <2>1
<1>5. PICK p : p = [k \in 1..n |-> Nth(found, k)]
  OBVIOUS
<1>6. PICK h : h = [k \in 1..n |-> Header + slots[c][Nth(found, k)].len]
  OBVIOUS
<1>7. PICK R : R = [k \in 1..n |-> Tombstone(c, Scan(c)[Nth(found, k)].id)]
  OBVIOUS
<1>8. /\ log' = log \o R /\ dead' = dead + n * (Header + TombLen) + Total(h, n)
      /\ total' = total - n /\ mode' = mode
  BY <1>6, <1>7, Zenon DEF Deletes2, Quiet
<1>9. PICK q \in Nat : q = Len(log) /\ q = Upto
  BY UptoType DEF Upto
<1>10. \A k \in 1..n : /\ p[k] \in DOMAIN slots[c] \ Marks(c)
                       /\ h[k] = Header + slots[c][p[k]].len
                       /\ R[k] = Tombstone(c, At(c, p[k]).id)
  BY <1>1, <1>4, <1>5, <1>6, <1>7
<1>11. \A k \in 1..n : About(R[k], c, At(c, p[k]).id) /\ R[k].op = "delete"
  <2> TAKE k \in 1..n
  <2>1. R[k] = [op |-> "delete", coll |-> c, id |-> At(c, p[k]).id]
    BY <1>10 DEF Tombstone
  <2> QED
    BY <2>1 DEF About
<1>12. /\ Len(log') = q + n /\ \A k \in 1..q : log'[k] = log[k]
       /\ \A k \in 1..n : log'[q + k] = R[k]
  <2>1. DOMAIN R = 1..n /\ R = [k \in 1..n |-> R[k]]
    BY <1>7
  <2>2. PICK D : D = {R[k] : k \in 1..n} \cup Record
    OBVIOUS
  <2>3. \A k \in 1..n : R[k] \in D
    BY <2>2
  <2>4. R \in Seq(D) /\ Len(R) = n
    BY <1>3, <2>1, <2>3
  <2>5. log \in Seq(D)
    <3>1. log \in Seq(Record) /\ Record \subseteq D
      BY <2>2 DEF Types
    <3> QED
      BY <3>1
  <2>6. /\ Len(log \o R) = Len(log) + Len(R)
        /\ \A k \in 1..Len(log) : (log \o R)[k] = log[k]
        /\ \A k \in 1..Len(R) : (log \o R)[Len(log) + k] = R[k]
    <3>1. PICK s \in Seq(D) : s = log
      BY <2>5
    <3>2. PICK t \in Seq(D) : t = R
      BY <2>4
    <3>3. /\ Len(s \o t) = Len(s) + Len(t)
          /\ \A k \in 1..Len(s) : (s \o t)[k] = s[k]
          /\ \A k \in 1..Len(t) : (s \o t)[Len(s) + k] = t[k]
      OBVIOUS
    <3> QED
      BY <3>1, <3>2, <3>3
  <2> QED
    BY <1>8, <1>9, <2>4, <2>6
<1>13. Upto' = q + n /\ q + n <= Len(log') /\ Keeps(q)
  BY <1>3, <1>8, <1>9, <1>12 DEF Upto, Keeps
<1>14. \A j, k \in 1..n : p[j] = p[k] => j = k
  BY <1>4, <1>5
<1>15. Deleting(c, p, h, q, n)
  BY <1>10, <1>11, <1>12, <1>14 DEF Deleting
<1> QED
  BY <1>3, <1>8, <1>13, <1>15, CountsDelete

LEMMA DeleteCounts ==
    ASSUME Types, Types', IInv, LogInv', Counts, NEW c \in Coll, NEW f, NEW limit,
           Delete(c, f, limit)
    PROVE  Counts'
<1> DEFINE stopsEarly == limit = 1 /\ Matches(c, f) # {}
           found == IF stopsEarly THEN {Min(Matches(c, f))} ELSE Matches(c, f)
<1>1. mode = "open"
  BY DEF Delete
<1>2. \/ \E w : ReturnUnchanged(w)
      \/ \E n \in 0..Cardinality(found) : Deletes2(c, found, n)
  BY Zenon DEF Delete, Deletes2
<1>3. Matches(c, f) \subseteq Nat
  BY <1>1, MatchesShown
<1>4. found \subseteq Matches(c, f)
  BY <1>3, MinInSet
<1> HIDE DEF found
<1> QED
  BY <1>1, <1>2, <1>4, RefuseCounts, TombstonesCounts

\* Replay comes to the record behind those it has applied.
LEMMA ReplayKeeps ==
    ASSUME Types, IInv, Replaying, Applied
    PROVE  /\ Keeps(at) /\ at + 1 <= Len(log') /\ Upto' = at + 1 /\ log' = log
           /\ Next1 = log'[at + 1] /\ Next1.coll \in Coll /\ Next1.id \in Id
<1>1. PICK r : r = Next1
  OBVIOUS
<1>2. /\ log' = log /\ at \in Nat /\ at + 1 \in 1..Len(log) /\ Upto = at /\ Upto' = at + 1
      /\ r = log[at + 1] /\ r.coll \in Coll /\ r.id \in Id
  BY <1>1, AppliedFacts
<1> QED
  BY <1>1, <1>2 DEF Keeps

LEMMA ReplayInsertCounts ==
    ASSUME Types, Types', IInv, LogInv', Counts, ReplayInsert
    PROVE  Counts'
<1>1. CASE Refused
  BY <1>1, GoneCounts DEF Refused
<1>2. CASE /\ Replaying /\ Next1.op = "insert" /\ Applied
           /\ total' = total + 1 /\ dead' = dead
  <2>1. /\ Keeps(at) /\ at + 1 <= Len(log') /\ Upto' = at + 1 /\ Next1 = log'[at + 1]
    BY <1>2, ReplayKeeps
  <2>2. at \in Nat /\ \A k \in (at + 1)..(at + 1) : k = at + 1
    BY <2>1 DEF Keeps
  <2>3. \A k \in (at + 1)..(at + 1) : log'[k].op = "insert"
    BY <1>2, <2>1, <2>2
  <2> QED
    BY <1>2, <2>1, <2>3, CountsGrow
<1> QED
  BY <1>1, <1>2, Zenon DEF ReplayInsert

LEMMA ReplayReplaceCounts ==
    ASSUME Types, Types', IInv, LogInv', Counts, ReplayReplace
    PROVE  Counts'
<1>1. CASE Refused
  BY <1>1, GoneCounts DEF Refused
<1>2. PICK c : c = Next1.coll
  OBVIOUS
<1>3. ASSUME NEW pos \in Lookup(c, Next1.id), Replaying, Next1.op = "replace", Applied,
             dead' = dead + Header + slots[c][pos].len, total' = total
      PROVE  Counts'
  <2>1. /\ Keeps(at) /\ at + 1 <= Len(log') /\ Upto' = at + 1 /\ Next1 = log'[at + 1]
        /\ c \in Coll /\ Next1.id \in Id
    BY <1>2, <1>3, ReplayKeeps
  <2>2. pos \in DOMAIN slots[c] \ Marks(c) /\ At(c, pos).id = Next1.id
    <3>1. CollInv(c)
      BY <2>1 DEF IInv
    <3> QED
      BY <1>3, <2>1, <3>1, LookupFacts
  <2>3. About(log'[at + 1], c, At(c, pos).id) /\ log'[at + 1].op = "replace"
    BY <1>2, <1>3, <2>1, <2>2 DEF About
  <2>4. dead' = dead + (Header + slots[c][pos].len)
    <3>1. slots[c][pos].len \in Nat /\ Header \in Nat /\ dead \in Nat
      BY <2>1, <2>2, SlotIsLive, LengthAssumption DEF Counts
    <3> QED
      BY <1>3, <3>1
  <2> QED
    BY <1>3, <2>1, <2>2, <2>3, <2>4, CountsReplace
<1>4. \/ Refused
      \/ \E pos \in Lookup(c, Next1.id) :
           /\ Replaying /\ Next1.op = "replace" /\ Applied
           /\ dead' = dead + Header + slots[c][pos].len /\ total' = total
  BY <1>2, Zenon DEF ReplayReplace
<1> QED
  BY <1>1, <1>3, <1>4

LEMMA ReplayDeleteCounts ==
    ASSUME Types, Types', IInv, LogInv', Counts, ReplayDelete
    PROVE  Counts'
<1>1. CASE Refused
  BY <1>1, GoneCounts DEF Refused
<1>2. PICK c : c = Next1.coll
  OBVIOUS
<1>3. ASSUME NEW pos \in Lookup(c, Next1.id), Replaying, Next1.op = "delete", Applied,
             dead' = dead + TombstoneCost(c, pos), total' = total - 1
      PROVE  Counts'
  <2>1. /\ Keeps(at) /\ at + 1 <= Len(log') /\ Upto' = at + 1 /\ Next1 = log'[at + 1]
        /\ c \in Coll /\ Next1.id \in Id
    BY <1>2, <1>3, ReplayKeeps
  <2>2. pos \in DOMAIN slots[c] \ Marks(c) /\ At(c, pos).id = Next1.id
    <3>1. CollInv(c)
      BY <2>1 DEF IInv
    <3> QED
      BY <1>3, <2>1, <3>1, LookupFacts
  <2>3. About(log'[at + 1], c, At(c, pos).id) /\ log'[at + 1].op = "delete"
    BY <1>2, <1>3, <2>1, <2>2 DEF About
  <2>4. PICK x \in Nat : x = Header + slots[c][pos].len
    <3>1. slots[c][pos].len \in Nat /\ Header \in Nat
      BY <2>1, <2>2, SlotIsLive, LengthAssumption
    <3> QED
      BY <3>1
  <2>5. PICK h : h = [k \in 1..1 |-> x]
    OBVIOUS
  <2>6. PICK p : p = [k \in 1..1 |-> pos]
    OBVIOUS
  <2>7. Total(h, 1) = x
    <3>1. Total(h, 0 + 1) = Total(h, 0) + h[0 + 1] /\ Total(h, 0) = 0
      BY TotalFacts
    <3> QED
      BY <2>5, <3>1
  <2>8. Deleting(c, p, h, at, 1)
    <3>1. \A k \in 1..1 : k = 1
      OBVIOUS
    <3> QED
      BY <2>2, <2>3, <2>4, <2>5, <2>6, <3>1 DEF Deleting
  <2>9. dead' = dead + 1 * (Header + TombLen) + Total(h, 1)
    <3>1. slots[c][pos].len \in Nat /\ Header \in Nat /\ TombLen \in Nat /\ dead \in Nat
      BY <2>1, <2>2, SlotIsLive, LengthAssumption DEF Counts
    <3>2. dead' = dead + (2 * Header + slots[c][pos].len + TombLen)
      BY <1>3 DEF TombstoneCost
    <3> QED
      BY <2>4, <2>7, <3>1, <3>2
  <2> QED
    BY <1>3, <2>1, <2>8, <2>9, CountsDelete
<1>4. \/ Refused
      \/ \E pos \in Lookup(c, Next1.id) :
           /\ Replaying /\ Next1.op = "delete" /\ Applied
           /\ dead' = dead + TombstoneCost(c, pos) /\ total' = total - 1
  BY <1>2, Zenon DEF ReplayDelete
<1> QED
  BY <1>1, <1>3, <1>4

LEMMA OtherCounts ==
    ASSUME Types, Types', Counts,
           Sync \/ Close \/ Crash \/ Open \/ ReplayEnd \/ ReplayTruncate \/ UNCHANGED vars
    PROVE  Counts'
<1>1. CASE Sync
  <2>1. log' = log /\ mode' = mode /\ at' = at /\ dead' = dead /\ total' = total
    BY <1>1 DEF Sync, counters
  <2> QED
    BY <2>1, CountsIdle DEF Upto
<1>2. CASE Close \/ Crash \/ Open
  <2>1. Gone /\ mode' # "open"
    BY <1>2 DEF Close, Crash, Open
  <2> QED
    BY <2>1, GoneCounts
<1>3. CASE ReplayEnd \/ ReplayTruncate
  <2>1. /\ log' = log /\ at' = at /\ dead' = dead /\ total' = total
        /\ mode = "replay" /\ at = Len(log) /\ mode' = "open"
    BY <1>3 DEF ReplayEnd, ReplayTruncate, file, counters
  <2> QED
    BY <2>1, CountsIdle DEF Upto
<1>4. CASE UNCHANGED vars
  <2>1. log' = log /\ mode' = mode /\ at' = at /\ dead' = dead /\ total' = total
    BY <1>4 DEF vars
  <2> QED
    BY <2>1, CountsIdle DEF Upto
<1> QED
  BY <1>1, <1>2, <1>3, <1>4

LEMMA CountsStep ==
    ASSUME StoredSame, Types, IInv, Counts, [Next]_vars
    PROVE  Counts'
<1>1. Types' /\ IInv'
  BY StaysRight
<1>2. LogInv'
  BY <1>1 DEF IInv
<1>3. ASSUME NEW c \in Coll, NEW d \in Doc, NEW supplied \in BOOLEAN, Insert(c, d, supplied)
      PROVE  Counts'
  BY <1>1, <1>2, <1>3, InsertCounts
<1>4. ASSUME NEW c \in Coll, NEW ds \in Batches(Doc), NEW sup \in [DOMAIN ds -> BOOLEAN],
             InsertMany(c, ds, sup)
      PROVE  Counts'
  BY <1>1, <1>2, <1>4, InsertManyCounts
<1>5. ASSUME NEW c \in Coll, NEW f \in Filters, NEW sid \in Id \cup {NoId}, NEW v \in Val,
             Replace(c, f, sid, v)
      PROVE  Counts'
  BY <1>1, <1>2, <1>5, ReplaceCounts
<1>6. ASSUME NEW c \in Coll, NEW f \in Filters, NEW limit \in {0, 1}, Delete(c, f, limit)
      PROVE  Counts'
  BY <1>1, <1>2, <1>6, DeleteCounts
<1>7. CASE ReplayInsert \/ ReplayReplace \/ ReplayDelete
  BY <1>1, <1>2, <1>7, ReplayInsertCounts, ReplayReplaceCounts, ReplayDeleteCounts
<1>8. CASE Sync \/ Close \/ Crash \/ Open \/ ReplayEnd \/ ReplayTruncate \/ UNCHANGED vars
  BY <1>1, <1>8, OtherCounts
<1> QED
  BY <1>3, <1>4, <1>5, <1>6, <1>7, <1>8 DEF Next

\* db.total is the number of live records and, where no document has a second key
\* that differs from _id in case only, db.dead is what ScanLive makes of the records
\* the index reflects.
THEOREM CountsTheorem ==
    ASSUME StoredSame
    PROVE  Spec => [](Types /\ IInv /\ Counts)
<1>1. Init => Types /\ IInv /\ Counts
  <2> SUFFICES ASSUME Init PROVE Types /\ IInv /\ Counts
    OBVIOUS
  <2>1. Types /\ IInv
    BY StartsRight
  <2>2. log \in Seq(Record) /\ Upto = 0 /\ dead = 0 /\ total = 0
    BY <2>1 DEF Init, Upto, Types
  <2> QED
    BY <2>1, <2>2, CountsStart
<1>2. Types /\ IInv /\ Counts /\ [Next]_vars => (Types /\ IInv /\ Counts)'
  BY StaysRight, CountsStep
<1> QED
  BY <1>1, <1>2, PTL DEF Spec

-----------------------------------------------------------------------------
\* Types

\* What Types leaves out.
Rest ==
    /\ torn \in BOOLEAN
    /\ pending \subseteq Coll
    /\ err \in BOOLEAN
    /\ \A c \in Coll : ~built[c] => ids[c] = {}

LEMMA RestReset ==
    ASSUME Gone, torn' \in BOOLEAN
    PROVE  Rest'
<1>1. ids' = [c \in Coll |-> {}] /\ pending' = {} /\ err' = FALSE
  BY DEF Gone, EmptyMemory, Memory
<1> QED
  BY <1>1 DEF Rest

\* Steps that leave the table of an unbuilt collection alone.
LEMMA RestKept ==
    ASSUME Types, Rest, torn' = torn, pending' \subseteq Coll, err' \in BOOLEAN,
           \A c \in Coll : ~built'[c] => ~built[c] /\ (ids[c] = {} => ids'[c] = {})
    PROVE  Rest'
BY DEF Rest

LEMMA RefuseRest ==
    ASSUME Types, Rest, NEW c \in Coll, NEW w, Refuse(c, w)
    PROVE  Rest'
<1>1. /\ torn' = torn /\ pending' = pending /\ err' = TRUE
      /\ built' = [built EXCEPT ![c] = @ \/ w]
      /\ ids' = [ids EXCEPT ![c] = IF w THEN Table(c) ELSE @]
  BY DEF Refuse, Quiet
<1>2. \A d \in Coll \ {c} : built'[d] = built[d] /\ ids'[d] = ids[d]
  BY <1>1 DEF Types
<1>3. built'[c] = (built[c] \/ w) /\ ids'[c] = IF w THEN Table(c) ELSE ids[c]
  BY <1>1, Zenon DEF Types
<1>4. \A d \in Coll : ~built'[d] => ~built[d] /\ (ids[d] = {} => ids'[d] = {})
  BY <1>2, <1>3
<1> QED
  BY <1>1, <1>4, RestKept DEF Rest

LEMMA ReturnRest ==
    ASSUME Types, Rest, NEW e \in BOOLEAN, ReturnUnchanged(e)
    PROVE  Rest'
<1>1. torn' = torn /\ pending' = pending /\ err' = e /\ built' = built /\ ids' = ids
  BY DEF ReturnUnchanged, Quiet
<1> QED
  BY <1>1, RestKept DEF Rest

LEMMA SyncErr ==
    ASSUME NEW e \in BOOLEAN, SyncAfter(e)
    PROVE  err' \in BOOLEAN
BY DEF SyncAfter

LEMMA LessType ==
    ASSUME NEW a \in Nat, NEW b \in Nat
    PROVE  (a < b) \in BOOLEAN
OBVIOUS

LEMMA PublishRest ==
    ASSUME Types, Rest, NEW c \in Coll, NEW ds, NEW w, NEW e \in BOOLEAN,
           Publish(c, ds, w), SyncAfter(e), Quiet
    PROVE  Rest'
<1>1. PICK N : ids' = [ids EXCEPT ![c] = IF built[c] \/ w THEN N ELSE @]
  BY Zenon DEF Publish
<1>2. /\ torn' = torn /\ pending' = pending /\ err' \in BOOLEAN
      /\ built' = [built EXCEPT ![c] = built[c] \/ w]
  BY SyncErr, Zenon DEF Publish, Quiet
<1>3. \A d \in Coll \ {c} : built'[d] = built[d] /\ ids'[d] = ids[d]
  BY <1>1, <1>2 DEF Types
<1>4. built'[c] = (built[c] \/ w) /\ ids'[c] = IF built[c] \/ w THEN N ELSE ids[c]
  BY <1>1, <1>2, Zenon DEF Types
<1>5. \A d \in Coll : ~built'[d] => ~built[d] /\ (ids[d] = {} => ids'[d] = {})
  BY <1>3, <1>4
<1> QED
  BY <1>2, <1>5, RestKept DEF Rest

LEMMA InsertRest ==
    ASSUME Types, Rest, NEW c \in Coll, NEW d, NEW supplied, Insert(c, d, supplied)
    PROVE  Rest'
<1>1. \/ \E w : Refuse(c, w)
      \/ Publish(c, <<d>>, supplied) /\ SyncAfter(FALSE) /\ Quiet
  BY Zenon DEF Insert
<1> QED
  BY <1>1, RefuseRest, PublishRest

LEMMA InsertManyRest ==
    ASSUME Types, Rest, NEW c \in Coll, NEW ds \in Batches(Doc), NEW sup, InsertMany(c, ds, sup)
    PROVE  Rest'
<1> DEFINE any == \E k \in DOMAIN ds : sup[k]
<1>1. \/ \E w : Refuse(c, w)
      \/ \E n \in 0..Len(ds) :
           Publish(c, SubSeq(ds, 1, n), any) /\ SyncAfter(n < Len(ds)) /\ Quiet
  BY Zenon DEF InsertMany
<1>2. CASE \E w : Refuse(c, w)
  BY <1>2, RefuseRest
<1>3. ASSUME NEW n \in 0..Len(ds), Publish(c, SubSeq(ds, 1, n), any), SyncAfter(n < Len(ds)), Quiet
      PROVE  Rest'
  <2>0. Len(ds) \in Nat
    <3>1. PICK k \in 1..MaxBatch : ds \in [1..k -> Doc]
      BY DEF Batches
    <3> QED
      BY <3>1, BoundsAssumption
  <2>1. PICK e \in BOOLEAN : e = (n < Len(ds))
    <3>1. (n < Len(ds)) \in BOOLEAN
      <4>1. PICK m \in Nat : m = Len(ds)
        BY <2>0
      <4>2. (n < m) \in BOOLEAN
        BY <4>1, LessType
      <4> QED
        BY <4>1, <4>2, Zenon
    <3> QED
      BY <3>1, Zenon
  <2>2. SyncAfter(e)
    BY <1>3, <2>1
  <2> HIDE DEF any
  <2> QED
    BY <1>3, <2>2, PublishRest
<1> QED
  BY <1>1, <1>2, <1>3

LEMMA ReplaceRest ==
    ASSUME Types, Rest, NEW c \in Coll, NEW f, NEW sid, NEW v, Replace(c, f, sid, v)
    PROVE  Rest'
<1>1. \/ ReturnUnchanged(TRUE) \/ ReturnUnchanged(ScanFails(c))
      \/ UNCHANGED <<built, ids>> /\ SyncAfter(FALSE) /\ Quiet
  BY Zenon DEF Replace
<1>2. CASE ReturnUnchanged(TRUE)
  BY <1>2, ReturnRest
<1>3. CASE ReturnUnchanged(ScanFails(c))
  <2>1. ScanFails(c) \in BOOLEAN
    BY Zenon DEF ScanFails
  <2> QED
    BY <1>3, <2>1, ReturnRest
<1>4. CASE UNCHANGED <<built, ids>> /\ SyncAfter(FALSE) /\ Quiet
  BY <1>4, SyncErr, RestKept DEF Quiet, Rest
<1> QED
  BY <1>1, <1>2, <1>3, <1>4

LEMMA DeleteRest ==
    ASSUME Types, IInv, Rest, NEW c \in Coll, NEW f, NEW limit, Delete(c, f, limit)
    PROVE  Rest'
<1> DEFINE stopsEarly == limit = 1 /\ Matches(c, f) # {}
           found == IF stopsEarly THEN {Min(Matches(c, f))} ELSE Matches(c, f)
<1>1. \/ ReturnUnchanged(ScanFails(c))
      \/ \E n \in 0..Cardinality(found) : \E N :
           /\ ids' = [ids EXCEPT ![c] = IF built[c] THEN N ELSE @]
           /\ UNCHANGED built /\ SyncAfter(n < Cardinality(found)) /\ Quiet
  BY Zenon DEF Delete
<1>2. CASE ReturnUnchanged(ScanFails(c))
  <2>1. ScanFails(c) \in BOOLEAN
    BY Zenon DEF ScanFails
  <2> QED
    BY <1>2, <2>1, ReturnRest
<1>3. PICK m \in Nat : m = Cardinality(found)
  <2>1. mode = "open" /\ slots[c] \in Seq(Slot)
    BY DEF Delete, Types
  <2>2. Matches(c, f) \subseteq DOMAIN slots[c] /\ Matches(c, f) \subseteq Nat
    BY <2>1, MatchesShown
  <2>3. found \subseteq DOMAIN slots[c]
    BY <2>2, MinInSet
  <2> HIDE DEF found
  <2> QED
    BY <2>1, <2>3, PickedFacts
<1> HIDE DEF found
<1>4. ASSUME NEW n \in 0..m, NEW N,
             ids' = [ids EXCEPT ![c] = IF built[c] THEN N ELSE @],
             UNCHANGED built, SyncAfter(n < m), Quiet
      PROVE  Rest'
  <2>1. PICK e \in BOOLEAN : e = (n < m)
    <3>1. (n < m) \in BOOLEAN
      BY LessType
    <3> QED
      BY <3>1, Zenon
  <2>2. err' \in BOOLEAN
    BY <1>4, <2>1, SyncErr
  <2>3. \A d \in Coll : ~built'[d] => ~built[d] /\ (ids[d] = {} => ids'[d] = {})
    BY <1>4 DEF Types
  <2> QED
    BY <1>4, <2>2, <2>3, RestKept DEF Quiet, Rest
<1> QED
  BY <1>1, <1>2, <1>3, <1>4

LEMMA ReplayRest ==
    ASSUME Types, IInv, Rest, ReplayInsert \/ ReplayReplace \/ ReplayDelete
    PROVE  Rest'
<1>1. PICK c : c = Next1.coll
  OBVIOUS
<1>2. CASE Refused
  BY <1>2, RestReset DEF Refused, file, Rest
<1>3. CASE /\ Replaying /\ Applied
           /\ ids' = [ids EXCEPT ![c] = RowsAfterInsert(c, Next1)]
           /\ UNCHANGED <<built, pending>>
  <2>1. torn' = torn /\ err' = err
    BY <1>3 DEF Applied, file
  <2>2. \A d \in Coll : ~built'[d] => ~built[d] /\ (ids[d] = {} => ids'[d] = {})
    BY <1>3 DEF Types, RowsAfterInsert
  <2> QED
    BY <1>3, <2>1, <2>2, RestKept DEF Rest
<1>4. CASE /\ Replaying /\ Applied
           /\ built' = [built EXCEPT ![c] = TRUE]
           /\ ids' = [ids EXCEPT ![c] = Table(c)]
           /\ pending' \subseteq pending \cup {c}
  <2>1. torn' = torn /\ err' = err
    BY <1>4 DEF Applied, file
  <2>2. c \in Coll
    BY <1>1, <1>4, ReplayKeeps
  <2>3. built'[c] /\ \A d \in Coll \ {c} : built'[d] = built[d] /\ ids'[d] = ids[d]
    BY <1>4, <2>2 DEF Types
  <2>4. \A d \in Coll : ~built'[d] => ~built[d] /\ (ids[d] = {} => ids'[d] = {})
    BY <2>3
  <2>5. pending' \subseteq Coll
    BY <1>4, <2>2 DEF Rest
  <2> QED
    BY <2>1, <2>4, <2>5, RestKept DEF Rest
<1>5. CASE ReplayInsert
  BY <1>1, <1>2, <1>3, <1>5, Zenon DEF ReplayInsert
<1>6. CASE ReplayReplace
  <2>1. \/ Refused
        \/ /\ Replaying /\ Applied
           /\ built' = [built EXCEPT ![c] = TRUE] /\ ids' = [ids EXCEPT ![c] = Table(c)]
           /\ UNCHANGED pending
    BY <1>1, <1>6, Zenon DEF ReplayReplace
  <2> QED
    BY <1>2, <1>4, <2>1
<1>7. CASE ReplayDelete
  <2>1. \/ Refused
        \/ /\ Replaying /\ Applied
           /\ built' = [built EXCEPT ![c] = TRUE] /\ ids' = [ids EXCEPT ![c] = Table(c)]
           /\ pending' = pending \cup {c}
    BY <1>1, <1>7, Zenon DEF ReplayDelete
  <2> QED
    BY <1>2, <1>4, <2>1
<1> QED
  BY <1>5, <1>6, <1>7

LEMMA OtherRest ==
    ASSUME Types, Rest,
           Sync \/ Close \/ Crash \/ Open \/ ReplayEnd \/ ReplayTruncate \/ UNCHANGED vars
    PROVE  Rest'
<1>1. CASE Sync
  <2>1. torn' = torn /\ pending' = pending /\ built' = built /\ ids' = ids /\ err' \in BOOLEAN
    BY <1>1 DEF Sync, index
  <2> QED
    BY <2>1, RestKept DEF Rest
<1>2. CASE Close \/ Crash \/ Open
  <2>1. Gone /\ torn' \in BOOLEAN
    BY <1>2 DEF Close, Crash, Open, file, Rest
  <2> QED
    BY <2>1, RestReset
<1>3. CASE ReplayEnd
  <2>1. /\ torn' = torn /\ err' = err /\ pending' = {} /\ built' = built
        /\ ids' = [c \in Coll |-> IF c \in pending THEN Remapped(c, Marks(c)) ELSE ids[c]]
    BY <1>3 DEF ReplayEnd, file
  <2>2. \A d \in Coll : ids[d] = {} => ids'[d] = {}
    BY <2>1 DEF Remapped
  <2> QED
    BY <2>1, <2>2, RestKept DEF Rest
<1>4. CASE ReplayTruncate
  <2>1. torn' = FALSE /\ err' = err /\ pending' = {} /\ built' = built /\ ids' = ids
    BY <1>4 DEF ReplayTruncate, index
  <2> QED
    BY <2>1 DEF Rest
<1>5. CASE UNCHANGED vars
  <2>1. torn' = torn /\ pending' = pending /\ built' = built /\ ids' = ids /\ err' = err
    BY <1>5 DEF vars
  <2> QED
    BY <2>1, RestKept DEF Rest
<1> QED
  BY <1>1, <1>2, <1>3, <1>4, <1>5

LEMMA RestStep ==
    ASSUME Types, IInv, Rest, [Next]_vars
    PROVE  Rest'
<1>1. ASSUME NEW c \in Coll, NEW d \in Doc, NEW supplied \in BOOLEAN, Insert(c, d, supplied)
      PROVE  Rest'
  BY <1>1, InsertRest
<1>2. ASSUME NEW c \in Coll, NEW ds \in Batches(Doc), NEW sup \in [DOMAIN ds -> BOOLEAN],
             InsertMany(c, ds, sup)
      PROVE  Rest'
  BY <1>2, InsertManyRest
<1>3. ASSUME NEW c \in Coll, NEW f \in Filters, NEW sid \in Id \cup {NoId}, NEW v \in Val,
             Replace(c, f, sid, v)
      PROVE  Rest'
  BY <1>3, ReplaceRest
<1>4. ASSUME NEW c \in Coll, NEW f \in Filters, NEW limit \in {0, 1}, Delete(c, f, limit)
      PROVE  Rest'
  BY <1>4, DeleteRest
<1>5. CASE ReplayInsert \/ ReplayReplace \/ ReplayDelete
  BY <1>5, ReplayRest
<1>6. CASE Sync \/ Close \/ Crash \/ Open \/ ReplayEnd \/ ReplayTruncate \/ UNCHANGED vars
  BY <1>6, OtherRest
<1> QED
  BY <1>1, <1>2, <1>3, <1>4, <1>5, <1>6 DEF Next

\* Every variable keeps its type: no removal takes db.total below zero, and every
\* row of a table has a fingerprint and a position.
THEOREM TypeOKTheorem ==
    ASSUME StoredSame
    PROVE  Spec => []TypeOK
<1>1. Init => Rest
  BY DEF Init, Rest
<1>2. Types /\ IInv /\ Rest /\ [Next]_vars => Rest'
  BY RestStep
<1>3. Types /\ IInv /\ Counts /\ Rest => TypeOK
  <2> SUFFICES ASSUME Types, IInv, Counts, Rest PROVE TypeOK
    OBVIOUS
  <2>1. ids \in [Coll -> SUBSET Row]
    <3> SUFFICES ASSUME NEW c \in Coll PROVE ids[c] \subseteq Row
      BY DEF Types
    <3>1. CASE ~built[c]
      BY <3>1 DEF Rest
    <3>2. CASE built[c]
      <4>1. CollInv(c)
        BY DEF IInv
      <4>2. ids[c] = {[fp |-> Fp[At(c, i).id], pos |-> i] : i \in DOMAIN slots[c]}
        BY <3>2, <4>1 DEF CollInv, RowsInv, RowsOf
      <4>3. ASSUME NEW i \in DOMAIN slots[c]
            PROVE  [fp |-> Fp[At(c, i).id], pos |-> i] \in Row
        <5>1. At(c, i).id \in Id /\ DOMAIN slots[c] = 1..Len(slots[c]) /\ Len(slots[c]) \in Nat
          BY <4>1, SlotFacts DEF CollInv
        <5>2. Fp[At(c, i).id] \in Nat \ {0}
          BY <5>1, FpAssumption
        <5>3. i \in Nat \ {0}
          BY <5>1
        <5> QED
          BY <5>2, <5>3 DEF Row
      <4> QED
        BY <4>2, <4>3
    <3> QED
      BY <3>1, <3>2
  <2>2. total \in Nat /\ dead \in Nat
    BY UptoType, LiveType DEF Counts, CountInv
  <2> QED
    BY <2>1, <2>2 DEF Types, Rest, TypeOK
<1> QED
  BY <1>1, <1>2, <1>3, CountsTheorem, PTL DEF Spec
-----------------------------------------------------------------------------
\* What nsq stat reports

\* The live records of one collection.
LiveOfColl(recs, c, n) == {k \in Live(recs, n) : recs[k].coll = c}

\* A file that supersedes nothing.
LEMMA InsertsAreLive ==
    ASSUME NEW recs \in Seq(Record), Legal(recs), \A k \in DOMAIN recs : recs[k].op = "insert"
    PROVE  /\ Live(recs, Len(recs)) = 1..Len(recs)
           /\ Odd = {} => Scanned(recs)[Len(recs)].dead = 0
<1>1. PICK L \in Nat : L = Len(recs) /\ DOMAIN recs = 1..L
  OBVIOUS
<1>2. ASSUME NEW n \in 0..(L - 1)
      PROVE  ~Alive(recs, recs[n + 1].coll, recs[n + 1].id, n)
  <2>1. n + 1 \in DOMAIN recs /\ (n + 1) - 1 = n
    BY <1>1
  <2> QED
    BY <2>1 DEF Legal
<1>3. Live(recs, L) = 1..L
  <2>1. ASSUME NEW k \in 1..L, NEW j \in (k + 1)..L
        PROVE  ~About(recs[j], recs[k].coll, recs[k].id)
    <3>1. PICK n \in 0..(L - 1) : j = n + 1
      <4>1. j - 1 \in 0..(L - 1) /\ j = (j - 1) + 1
        OBVIOUS
      <4> QED
        BY <4>1
    <3>2. k \in 1..n /\ \A i \in (k + 1)..n : i \in DOMAIN recs
      BY <1>1, <3>1
    <3>3. Alive(recs, recs[k].coll, recs[k].id, n)
      BY <1>1, <3>2 DEF Alive, About
    <3> QED
      BY <1>2, <3>1, <3>3 DEF About
  <2> QED
    BY <1>1, <2>1 DEF Live
<1>4. ASSUME Odd = {}
      PROVE  Scanned(recs)[L].dead = 0
  <2> DEFINE S == {n \in Nat : Scanned(recs)[n].dead = 0}
  <2>1. 0 \in S
    BY <1>4, ScannedLive
  <2>2. ASSUME NEW n \in 0..(L - 1), n \in S
        PROVE  n + 1 \in S
    <3>1. n \in Nat /\ n + 1 \in Nat /\ n + 1 \in DOMAIN recs /\ n \in 0..(Len(recs) - 1)
      BY <1>1
    <3>2. PICK r : r = recs[n + 1]
      OBVIOUS
    <3>3. r.op = "insert" /\ ~Alive(recs, r.coll, r.id, n)
      BY <1>2, <3>1, <3>2
    <3>4. \A k \in Live(recs, n) : ~About(recs[k], r.coll, r.id)
      BY <3>1, <3>3, LiveAlive
    <3>5. Scanned(recs)[n + 1].dead = Scanned(recs)[n].dead
      BY <1>4, <2>2, <3>1, <3>2, <3>3, <3>4, CountsNext
    <3> QED
      BY <2>2, <3>1, <3>5
  <2> HIDE DEF S
  <2>3. \A n \in 0..L : n \in S
    BY <1>1, <2>1, <2>2, Climb
  <2>4. L \in S
    BY <1>1, <2>3
  <2> QED
    BY <2>4 DEF S
<1> QED
  BY <1>1, <1>3, <1>4

\* What the two passes of nsq stat come to.
LEMMA StatReads ==
    ASSUME log \in Seq(Record), Legal(log), Odd = {}
    PROVE  /\ StatDead = Scanned(log)[Len(log)].dead
           /\ \A c : StatLive(c) =
                       <<Cardinality(LiveOfColl(log, c, Len(log))),
                         BytesOf(log, LiveOfColl(log, c, Len(log)), Len(log))>>
<1>1. PICK L \in Nat : L = Len(log) /\ DOMAIN log = 1..L
  OBVIOUS
<1>2. CASE Superseded
  <2>1. Scanned(log)[L].live = Live(log, L)
    <3>1. L \in 0..Len(log)
      BY <1>1
    <3> QED
      BY <1>1, <3>1, ScannedLive
  <2>2. \A c : {k \in Scanned(log)[L].live : log[k].coll = c} = LiveOfColl(log, c, L)
    BY <2>1 DEF LiveOfColl
  <2>3. StatDead = Scanned(log)[L].dead
    BY <1>1, <1>2 DEF StatDead
  <2> QED
    BY <1>1, <1>2, <2>2, <2>3 DEF StatLive
<1>3. CASE ~Superseded
  <2>1. \A k \in DOMAIN log : log[k].op = "insert"
    BY <1>3 DEF Superseded
  <2>2. Live(log, L) = 1..L /\ Scanned(log)[L].dead = 0
    BY <1>1, <2>1, InsertsAreLive
  <2>3. \A c : Inserts(c, L) = LiveOfColl(log, c, L)
    BY <1>1, <2>1, <2>2 DEF LiveOfColl, Inserts
  <2>4. StatDead = 0
    BY <1>3 DEF StatDead
  <2> QED
    BY <1>1, <1>3, <2>2, <2>3, <2>4 DEF StatLive
<1> QED
  BY <1>2, <1>3

\* The live records of a collection are as many as its documents, and as large.
LEMMA SlotsAreLive ==
    ASSUME Types, IInv, NEW c \in Coll
    PROVE  /\ Cardinality(LiveOfColl(log, c, Upto)) = Len(LiveSlots(c))
           /\ BytesOf(log, LiveOfColl(log, c, Upto), Upto) =
                Total([i \in DOMAIN LiveSlots(c) |-> Header + LiveSlots(c)[i].len],
                      Len(LiveSlots(c)))
           /\ Len(LiveSlots(c)) = Len(Shown(c))
<1>1. CollInv(c) /\ log \in Seq(Record) /\ slots[c] \in Seq(Slot)
  BY DEF IInv, Types
<1>2. PICK n \in 0..Len(log) : n = Upto
  BY UptoType
<1>3. n \in Nat
  BY <1>1
<1>4. \A i \in DOMAIN slots[c] : At(c, i).id \in Id
  BY <1>1, SlotFacts DEF CollInv
<1>5. PICK K : K = DOMAIN slots[c] \ Marks(c)
  OBVIOUS
<1>6. PICK A : A = LiveOfColl(log, c, n)
  OBVIOUS
<1>7. A \subseteq 1..n
  BY <1>3, <1>6, LiveType DEF LiveOfColl
<1>8. PICK s : s = LiveSlots(c)
  OBVIOUS
<1>9. s = Picked(slots[c], K)
  BY <1>5, <1>8, Zenon DEF LiveSlots
<1>10. PICK m : m = Cardinality(K)
  OBVIOUS
<1>11. /\ m \in Nat /\ K \subseteq Nat /\ IsFiniteSet(K) /\ Len(s) = m /\ DOMAIN s = 1..m
       /\ \A i \in 1..m : Nth(K, i) \in K /\ s[i] = slots[c][Nth(K, i)]
  <2>1. K \subseteq DOMAIN slots[c]
    BY <1>5
  <2> QED
    BY <1>1, <1>9, <1>10, <2>1, PickedFacts
<1>12. ASSUME NEW pos \in K
       PROVE  /\ \E k \in A : About(log[k], c, At(c, pos).id)
              /\ \A k \in A : About(log[k], c, At(c, pos).id)
                                => Bytes(log[k]) = Header + slots[c][pos].len
  BY <1>2, <1>5, <1>6, <1>12, SlotIsLive DEF LiveOfColl, About
<1>13. ASSUME NEW k \in A, NEW l \in A, log[k].id = log[l].id
       PROVE  k = l
  BY <1>3, <1>6, <1>13, LiveOnce DEF LiveOfColl
<1>14. \A pos, q \in K : At(c, pos).id = At(c, q).id => pos = q
  BY <1>1, <1>5 DEF CollInv, HoldsInv
<1>15. ASSUME NEW k \in A
       PROVE  \E pos \in K : At(c, pos).id = log[k].id
  <2>1. k \in Live(log, n) /\ log[k].coll = c
    BY <1>6 DEF LiveOfColl
  <2>2. Alive(log, c, log[k].id, n)
    BY <1>3, <2>1, LiveAlive DEF About
  <2>3. log[k].id \in Id
    <3>1. log[k] \in Record
      BY <1>1, <1>2, <1>7
    <3> QED
      BY <3>1, RecordType
  <2> QED
    BY <1>1, <1>2, <1>5, <2>2, <2>3 DEF CollInv, HoldsInv
<1>16. PICK p : p = [i \in 1..m |-> CHOOSE k \in A : About(log[k], c, At(c, Nth(K, i)).id)]
  OBVIOUS
<1>17. \A i \in 1..m : p[i] \in A /\ log[p[i]].id = At(c, Nth(K, i)).id
  <2> TAKE i \in 1..m
  <2>1. \E k \in A : About(log[k], c, At(c, Nth(K, i)).id)
    BY <1>11, <1>12
  <2>2. p[i] = CHOOSE k \in A : About(log[k], c, At(c, Nth(K, i)).id)
    BY <1>16
  <2>3. p[i] \in A /\ About(log[p[i]], c, At(c, Nth(K, i)).id)
    BY <2>1, <2>2, Zenon
  <2> QED
    BY <2>3 DEF About
<1>18. \A i, j \in 1..m : p[i] = p[j] => i = j
  <2> SUFFICES ASSUME NEW i \in 1..m, NEW j \in 1..m, p[i] = p[j]
               PROVE  i = j
    OBVIOUS
  <2>1. Nth(K, i) = Nth(K, j)
    <3>1. PICK pos \in K : pos = Nth(K, i)
      BY <1>11
    <3>2. PICK q \in K : q = Nth(K, j)
      BY <1>11
    <3>3. At(c, pos).id = At(c, q).id
      BY <1>17, <3>1, <3>2
    <3> QED
      BY <1>14, <3>1, <3>2, <3>3
  <2>2. Rank(K, Nth(K, i)) = i /\ Rank(K, Nth(K, j)) = j
    BY <1>10, <1>11, NthFacts
  <2> QED
    BY <2>1, <2>2
<1>19. \A k \in A : \E i \in 1..m : k = p[i]
  <2> TAKE k \in A
  <2>1. PICK pos \in K : At(c, pos).id = log[k].id
    BY <1>15
  <2>2. PICK i \in 1..m : Nth(K, i) = pos
    BY <1>10, <1>11, NthFacts
  <2>3. p[i] \in A /\ log[p[i]].id = log[k].id
    BY <1>17, <2>1, <2>2
  <2> QED
    BY <1>13, <2>3
<1>20. Cardinality(A) = m
  <2>1. p \in [1..m -> A]
    BY <1>16, <1>17
  <2>2. p \in Bijection(1..m, A)
    BY <1>18, <1>19, <2>1 DEF Bijection, Injection, Surjection, IsInjective
  <2> QED
    BY <1>11, <2>2, FS_CountingElements DEF ExistsBijection
<1>21. PICK h : h = [i \in 1..m |-> Header + s[i].len]
  OBVIOUS
<1>22. \A i \in 1..m : p[i] \in A /\ h[i] = Bytes(log[p[i]])
  <2> TAKE i \in 1..m
  <2>1. Nth(K, i) \in K /\ s[i] = slots[c][Nth(K, i)]
    BY <1>11
  <2>2. p[i] \in A /\ log[p[i]].id = At(c, Nth(K, i)).id
    BY <1>17
  <2>3. log[p[i]].coll = c
    BY <1>6, <2>2 DEF LiveOfColl
  <2>4. Bytes(log[p[i]]) = Header + slots[c][Nth(K, i)].len
    BY <1>12, <2>1, <2>2, <2>3 DEF About
  <2> QED
    BY <1>21, <2>1, <2>2, <2>4
<1>23. BytesOf(log, A, n) = Total(h, m)
  <2>1. log \in Seq(Record) /\ n \in 0..Len(log) /\ m \in Nat
    BY <1>1, <1>11
  <2>2. Listed(log, A, n, p, h, m)
    BY <1>7, <1>18, <1>19, <1>22 DEF Listed
  <2> QED
    BY <2>1, <2>2, BytesAlong
<1>24. Len(Shown(c)) = m
  <2>1. Shown(c) = [i \in 1..m |-> DocOf(log[s[i].at])]
    BY <1>8, <1>11 DEF Shown
  <2> QED
    BY <1>11, <2>1
<1> QED
  BY <1>2, <1>6, <1>8, <1>11, <1>20, <1>21, <1>23, <1>24

\* What nsq stat reads off the file alone, the dead bytes and the documents and
\* live bytes of every collection, is what an open database has counted and
\* indexed, whatever was inserted, replaced, deleted, lost and replayed before.
THEOREM StatAgreesTheorem ==
    ASSUME StoredSame, Odd = {}
    PROVE  Spec => []StatAgrees
<1>1. Types /\ IInv /\ Counts => StatAgrees
  <2> SUFFICES ASSUME Types, IInv, Counts, mode = "open"
               PROVE  /\ dead = StatDead
                      /\ \A c \in Coll :
                           StatLive(c) =
                             <<Len(Shown(c)),
                               Total([i \in DOMAIN LiveSlots(c) |-> Header + LiveSlots(c)[i].len],
                                     Len(LiveSlots(c)))>>
    BY DEF StatAgrees
  <2>1. log \in Seq(Record) /\ Legal(log) /\ Upto = Len(log)
    BY DEF Types, IInv, LogInv, Legal, Upto
  <2>2. dead = StatDead
    BY <2>1, StatReads DEF Counts, CountInv
  <2>3. ASSUME NEW c \in Coll
        PROVE  StatLive(c) =
                 <<Len(Shown(c)),
                   Total([i \in DOMAIN LiveSlots(c) |-> Header + LiveSlots(c)[i].len],
                         Len(LiveSlots(c)))>>
    <3>1. StatLive(c) = <<Cardinality(LiveOfColl(log, c, Upto)),
                          BytesOf(log, LiveOfColl(log, c, Upto), Upto)>>
      BY <2>1, StatReads
    <3> QED
      BY <3>1, SlotsAreLive
  <2> QED
    BY <2>2, <2>3
<1> QED
  BY <1>1, CountsTheorem, PTL
=============================================================================
