---------------------------- MODULE IdTableProofs ------------------------------
(***************************************************************************)
(* The _id table finds what was put into it, for any fingerprints, any     *)
(* number of documents and any size it begins with.                        *)
(***************************************************************************)
EXTENDS IdTable, FiniteSetTheorems, SequenceTheorems, WellFoundedInduction, TLAPS

-----------------------------------------------------------------------------
\* Numbers

LEMMA LeastNat ==
    ASSUME NEW S, S \subseteq Nat, NEW x \in S
    PROVE  \E m \in S : \A n \in S : m <= n
<1>1. PICK m \in S : \A n \in S : ~(<<n, m>> \in OpToRel(<, Nat))
  BY NatLessThanWellFounded, WFMin
<1>2. \A n \in S : ~(n < m)
  BY <1>1, Zenon DEF OpToRel
<1>3. \A n \in S : m <= n
  BY <1>2
<1> QED
  BY <1>3

LEMMA Climb ==
    ASSUME NEW m \in Nat, NEW S, 0 \in S, \A k \in 0..(m - 1) : k \in S => k + 1 \in S
    PROVE  \A k \in 0..m : k \in S
<1> DEFINE D == {k \in 0..m : k \notin S}
<1>1. ASSUME NEW x \in D PROVE FALSE
  <2>1. PICK k \in D : \A j \in D : k <= j
    <3>1. D \subseteq Nat
      OBVIOUS
    <3> HIDE DEF D
    <3> QED
      BY <1>1, <3>1, LeastNat
  <2>2. k \in 0..m /\ k \notin S /\ k # 0
    BY <2>1
  <2>3. k - 1 \in 0..(m - 1) /\ k - 1 \in 0..m /\ k - 1 \notin D
    BY <2>1, <2>2
  <2>4. k - 1 \in S
    BY <2>3
  <2>5. (k - 1) + 1 \in S
    BY <2>3, <2>4
  <2> QED
    BY <2>2, <2>5
<1> QED
  BY <1>1

LEMMA MinFacts ==
    ASSUME NEW S, S \subseteq Nat, S # {}
    PROVE  Min(S) \in S /\ \A x \in S : Min(S) <= x
<1>1. \E m \in S : \A x \in S : m <= x
  BY LeastNat
<1> QED
  BY <1>1 DEF Min

LEMMA Divide ==
    ASSUME NEW a \in Nat, NEW n \in Nat \ {0}
    PROVE  \E q \in Nat : \E r \in 0..(n - 1) : a = n * q + r /\ a % n = r
<1>1. a = n * (a \div n) + (a % n) /\ a % n \in 0..(n - 1)
  OBVIOUS
<1>2. a \div n \in Nat
  OBVIOUS
<1> QED
  BY <1>1, <1>2

\* Two remainders with one quotient times n between them.
LEMMA Quotient ==
    ASSUME NEW n \in Nat \ {0}, NEW q \in Int, NEW p \in Int,
           NEW r \in 0..(n - 1), NEW s \in 0..(n - 1), n * q + r = n * p + s
    PROVE  q = p /\ r = s
<1>1. ASSUME NEW x \in Int, NEW y \in Int, NEW u \in 0..(n - 1), NEW v \in 0..(n - 1),
             n * x + u = n * y + v, x < y
      PROVE  FALSE
  <2>1. PICK d \in Nat : y = x + 1 + d
    <3>1. y - x - 1 \in Nat /\ y = x + 1 + (y - x - 1)
      BY <1>1
    <3> QED
      BY <3>1
  <2>2. n * y = n * x + n + n * d
    BY <2>1
  <2>3. n * d \in Nat
    OBVIOUS
  <2>4. PICK X \in Int, D \in Nat : X = n * x /\ D = n * d
    BY <2>3
  <2>5. X + u = X + n + D + v
    BY <1>1, <2>2, <2>4
  <2> QED
    BY <2>5
<1>2. ~(q < p) /\ ~(p < q)
  BY <1>1
<1>3. q = p
  BY <1>2
<1>4. PICK X \in Int : X = n * q
  OBVIOUS
<1>5. X + r = X + s
  BY <1>3, <1>4
<1> QED
  BY <1>3, <1>5

LEMMA Remainder ==
    ASSUME NEW n \in Nat \ {0}, NEW q \in Nat, NEW r \in 0..(n - 1)
    PROVE  (n * q + r) % n = r
<1>1. PICK a \in Nat : a = n * q + r
  <2>1. n * q \in Nat
    OBVIOUS
  <2> QED
    BY <2>1
<1>2. PICK p \in Nat, s \in 0..(n - 1) : a = n * p + s /\ a % n = s
  BY Divide
<1>3. s = r
  <2>1. n * q + r = n * p + s /\ q \in Int /\ p \in Int
    BY <1>1, <1>2
  <2> QED
    BY <2>1, Quotient
<1> QED
  BY <1>1, <1>2, <1>3

\* The slots of a walk: it comes to each one in its first n steps, and to none twice.
LEMMA Steps ==
    ASSUME NEW n \in Nat \ {0}, NEW f \in Nat
    PROVE  /\ \A k \in Nat : (f + k) % n \in 0..(n - 1)
           /\ \A j, k \in 0..(n - 1) : (f + j) % n = (f + k) % n => j = k
           /\ \A i \in 0..(n - 1) : \E k \in 0..(n - 1) : (f + k) % n = i
<1>1. \A k \in Nat : (f + k) % n \in 0..(n - 1)
  <2> TAKE k \in Nat
  <2>1. f + k \in Nat
    OBVIOUS
  <2> QED
    BY <2>1, Divide
<1>2. PICK q \in Nat, r \in 0..(n - 1) : f = n * q + r
  BY Divide
<1>3. \A k \in 0..(n - 1) :
         (f + k) % n = IF r + k < n THEN r + k ELSE r + k - n
  <2> TAKE k \in 0..(n - 1)
  <2>1. CASE r + k < n
    <3>1. r + k \in 0..(n - 1)
      BY <2>1
    <3>2. (n * q + (r + k)) % n = r + k
      BY <3>1, Remainder
    <3>3. f + k = n * q + (r + k)
      BY <1>2
    <3> QED
      BY <2>1, <3>2, <3>3
  <2>2. CASE ~(r + k < n)
    <3>1. r + k - n \in 0..(n - 1) /\ q + 1 \in Nat
      BY <2>2
    <3>2. (n * (q + 1) + (r + k - n)) % n = r + k - n
      BY <3>1, Remainder
    <3>3. n * (q + 1) = n * q + n
      OBVIOUS
    <3>4. f + k = n * (q + 1) + (r + k - n)
      BY <1>2, <3>3
    <3> QED
      BY <2>2, <3>2, <3>4
  <2> QED
    BY <2>1, <2>2
<1>4. ASSUME NEW j \in 0..(n - 1), NEW k \in 0..(n - 1), (f + j) % n = (f + k) % n
      PROVE  j = k
  <2>1. (IF r + j < n THEN r + j ELSE r + j - n) = (IF r + k < n THEN r + k ELSE r + k - n)
    BY <1>3, <1>4
  <2> QED
    BY <2>1
<1>5. ASSUME NEW i \in 0..(n - 1)
      PROVE  \E k \in 0..(n - 1) : (f + k) % n = i
  <2>1. CASE i >= r
    <3>1. i - r \in 0..(n - 1) /\ r + (i - r) = i /\ i < n
      BY <2>1
    <3>2. (f + (i - r)) % n = i
      BY <1>3, <3>1
    <3> QED
      BY <3>1, <3>2
  <2>2. CASE ~(i >= r)
    <3>1. n - r + i \in 0..(n - 1) /\ r + (n - r + i) - n = i /\ ~(r + (n - r + i) < n)
      BY <2>2
    <3>2. (f + (n - r + i)) % n = i
      BY <1>3, <3>1
    <3> QED
      BY <3>1, <3>2
  <2> QED
    BY <2>1, <2>2
<1> QED
  BY <1>1, <1>4, <1>5

-----------------------------------------------------------------------------
\* Tables

\* What a table is like between two insertions.
Good(t, n) ==
    /\ n \in Nat \ {0} /\ Size(t) = n
    /\ t.slots \in [0..(n - 1) -> Slot]
    /\ t.count = Cardinality(Taken(t))
    /\ Reached(t) /\ Once(t)

Positions(t) == {t.slots[i].pos : i \in Taken(t)}

LEMMA SizeIs ==
    ASSUME NEW t, NEW n \in Nat, DOMAIN t.slots = 0..(n - 1)
    PROVE  Size(t) = n
<1>1. IsFiniteSet(0..(n - 1)) /\ Cardinality(0..(n - 1)) = n
  BY FS_Interval
<1> QED
  BY <1>1 DEF Size

LEMMA GoodFacts ==
    ASSUME NEW t, NEW n, Good(t, n)
    PROVE  /\ n \in Nat \ {0} /\ DOMAIN t.slots = 0..(n - 1) /\ Taken(t) \subseteq 0..(n - 1)
           /\ IsFiniteSet(Taken(t)) /\ t.count \in Nat /\ t.count <= n
           /\ \A i \in 0..(n - 1) : t.slots[i] = Empty \/ t.slots[i] \in [fp : Fingerprint, pos : Nat]
           /\ \A i \in 0..(n - 1) : t.slots[i] # Empty <=> i \in Taken(t)
           /\ \A fp, k : Probe(t, fp, k) = (fp + k) % n
<1>1. /\ n \in Nat \ {0} /\ Size(t) = n /\ t.slots \in [0..(n - 1) -> Slot]
      /\ t.count = Cardinality(Taken(t))
  BY DEF Good
<1>2. DOMAIN t.slots = 0..(n - 1) /\ Taken(t) \subseteq 0..(n - 1)
  BY <1>1 DEF Taken
<1>3. IsFiniteSet(0..(n - 1)) /\ Cardinality(0..(n - 1)) = n
  BY <1>1, FS_Interval
<1>4. IsFiniteSet(Taken(t)) /\ Cardinality(Taken(t)) <= n /\ Cardinality(Taken(t)) \in Nat
  <2>1. IsFiniteSet(Taken(t)) /\ Cardinality(Taken(t)) <= Cardinality(0..(n - 1))
    BY <1>2, <1>3, FS_Subset
  <2> QED
    BY <1>3, <2>1, FS_CardinalityType
<1>5. \A i \in 0..(n - 1) : t.slots[i] = Empty \/ t.slots[i] \in [fp : Fingerprint, pos : Nat]
  BY <1>1 DEF Slot
<1>6. \A i \in 0..(n - 1) : t.slots[i] # Empty <=> i \in Taken(t)
  BY <1>2 DEF Taken
<1>7. \A fp, k : Probe(t, fp, k) = (fp + k) % n
  BY <1>1 DEF Probe
<1> QED
  BY <1>1, <1>2, <1>4, <1>5, <1>6, <1>7

LEMMA EmptyIsNone ==
    ASSUME NEW e \in [fp : Fingerprint, pos : Nat]
    PROVE  e # Empty /\ e.fp \in Nat /\ e.fp # 0
<1>1. e.fp \in Fingerprint
  OBVIOUS
<1>2. e.fp \in Nat \ {0}
  BY <1>1, FingerprintAssumption
<1>3. Empty.fp = 0
  BY DEF Empty
<1> QED
  BY <1>2, <1>3

\* A walk ends at the first empty slot, which there is as long as the table is not full.
LEMMA ChainEnds ==
    ASSUME NEW t, NEW n, Good(t, n), t.count < n, NEW fp \in Nat
    PROVE  /\ ChainLength(t, fp) \in 0..(n - 1)
           /\ t.slots[Probe(t, fp, ChainLength(t, fp))] = Empty
           /\ \A k \in 0..(ChainLength(t, fp) - 1) : t.slots[Probe(t, fp, k)] # Empty
<1>1. /\ n \in Nat \ {0} /\ DOMAIN t.slots = 0..(n - 1) /\ Taken(t) \subseteq 0..(n - 1)
      /\ \A i \in 0..(n - 1) : t.slots[i] # Empty <=> i \in Taken(t)
      /\ \A k : Probe(t, fp, k) = (fp + k) % n
  BY GoodFacts
<1>2. PICK i \in 0..(n - 1) : t.slots[i] = Empty
  <2>1. Taken(t) # 0..(n - 1)
    <3>1. Cardinality(0..(n - 1)) = n
      BY <1>1, FS_Interval
    <3> QED
      BY <1>1, <3>1 DEF Good
  <2> QED
    BY <1>1, <2>1
<1>3. PICK k \in 0..(n - 1) : (fp + k) % n = i
  BY <1>1, Steps, ZenonT(40)
<1> DEFINE S == {j \in 0..(n - 1) : t.slots[Probe(t, fp, j)] = Empty}
<1>4. S \subseteq Nat /\ k \in S
  BY <1>1, <1>2, <1>3, SMTT(40)
<1>5. ChainLength(t, fp) = Min(S)
  BY DEF ChainLength, Good
<1>6. Min(S) \in S /\ \A j \in S : Min(S) <= j
  <2> HIDE DEF S
  <2> QED
    BY <1>4, MinFacts
<1>7. PICK m \in S : m = ChainLength(t, fp) /\ \A j \in S : m <= j
  BY <1>5, <1>6
<1>8. m \in 0..(n - 1) /\ t.slots[Probe(t, fp, m)] = Empty
  BY <1>7
<1>9. ASSUME NEW j \in 0..(m - 1) PROVE t.slots[Probe(t, fp, j)] # Empty
  <2>1. j \in 0..(n - 1) /\ ~(m <= j)
    BY <1>1, <1>8
  <2> QED
    BY <1>7, <2>1
<1> QED
  BY <1>7, <1>8, <1>9

\* A new entry: the table keeps its shape, and has one entry more.
LEMMA PlaceGood ==
    ASSUME NEW t, NEW n, Good(t, n), t.count < n, NEW fp \in Fingerprint, NEW pos \in Nat,
           pos \notin Positions(t)
    PROVE  /\ Good(Place(t, fp, pos), n)
           /\ Place(t, fp, pos).count = t.count + 1
           /\ Entries(Place(t, fp, pos)) = Entries(t) \cup {[fp |-> fp, pos |-> pos]}
           /\ Positions(Place(t, fp, pos)) = Positions(t) \cup {pos}
<1>1. /\ n \in Nat \ {0} /\ DOMAIN t.slots = 0..(n - 1) /\ Taken(t) \subseteq 0..(n - 1)
      /\ IsFiniteSet(Taken(t)) /\ t.count \in Nat
      /\ \A i \in 0..(n - 1) : t.slots[i] # Empty <=> i \in Taken(t)
      /\ \A f, k : Probe(t, f, k) = (f + k) % n
  BY GoodFacts
<1>2. PICK e \in [fp : Fingerprint, pos : Nat] : e = [fp |-> fp, pos |-> pos]
  OBVIOUS
<1>3. e # Empty /\ e.fp = fp /\ e.pos = pos /\ fp \in Nat
  BY <1>2, EmptyIsNone
<1>4. PICK m \in 0..(n - 1) : m = ChainLength(t, fp)
  BY <1>3, ChainEnds
<1>5. t.slots[Probe(t, fp, m)] = Empty /\ \A k \in 0..(m - 1) : t.slots[Probe(t, fp, k)] # Empty
  BY <1>3, <1>4, ChainEnds
<1>6. PICK x \in 0..(n - 1) : x = Probe(t, fp, m)
  <2>1. m \in Nat
    BY <1>1
  <2>2. (fp + m) % n \in 0..(n - 1)
    BY <1>1, <1>3, <2>1, Steps
  <2> QED
    BY <1>1, <2>2
<1>7. PICK u : u = Place(t, fp, pos)
  OBVIOUS
<1>8. u.slots = [t.slots EXCEPT ![x] = e] /\ u.count = t.count + 1
  BY <1>2, <1>4, <1>6, <1>7 DEF Place
<1>9. /\ u.slots \in [0..(n - 1) -> Slot] /\ DOMAIN u.slots = 0..(n - 1)
      /\ u.slots[x] = e /\ \A i \in 0..(n - 1) \ {x} : u.slots[i] = t.slots[i]
  <2>1. t.slots \in [0..(n - 1) -> Slot] /\ e \in Slot
    BY DEF Good, Slot
  <2> QED
    BY <1>8, <2>1
<1>10. Size(u) = n /\ \A f, k : Probe(u, f, k) = (f + k) % n
  <2>1. Size(u) = n
    BY <1>1, <1>9, SizeIs
  <2> QED
    BY <2>1 DEF Probe
<1>11. x \notin Taken(t) /\ Taken(u) = Taken(t) \cup {x}
  <2>1. x \notin Taken(t)
    BY <1>5, <1>6 DEF Taken
  <2>2. \A i \in 0..(n - 1) : u.slots[i] # Empty <=> i \in Taken(t) \/ i = x
    BY <1>1, <1>3, <1>9
  <2>3. Taken(u) \subseteq 0..(n - 1) /\ \A i \in 0..(n - 1) : i \in Taken(u) <=> u.slots[i] # Empty
    BY <1>9 DEF Taken
  <2> QED
    BY <1>1, <2>1, <2>2, <2>3
<1>12. \A i \in Taken(t) : i \in 0..(n - 1) /\ i # x /\ u.slots[i] = t.slots[i] /\ i \in Taken(u)
  BY <1>1, <1>9, <1>11
<1>13. u.count = Cardinality(Taken(u))
  <2>1. Cardinality(Taken(t) \cup {x}) = Cardinality(Taken(t)) + 1
    BY <1>1, <1>11, FS_AddElement
  <2>2. t.count = Cardinality(Taken(t))
    BY DEF Good
  <2> QED
    BY <1>8, <1>11, <2>1, <2>2
<1>14. Reached(u)
  <2> SUFFICES ASSUME NEW i \in Taken(u)
               PROVE  \E k \in 0..(n - 1) :
                         /\ Probe(u, u.slots[i].fp, k) = i
                         /\ \A j \in 0..(k - 1) : u.slots[Probe(u, u.slots[i].fp, j)] # Empty
    BY <1>10 DEF Reached
  <2>1. \A f, j : j \in Nat /\ f \in Nat /\ t.slots[(f + j) % n] # Empty => u.slots[(f + j) % n] # Empty
    <3>1. \A y \in 0..(n - 1) : t.slots[y] # Empty => u.slots[y] # Empty
      BY <1>3, <1>9
    <3> TAKE f, j
    <3> HAVE j \in Nat /\ f \in Nat /\ t.slots[(f + j) % n] # Empty
    <3>2. (f + j) % n \in 0..(n - 1)
      BY <1>1, Steps
    <3> QED
      BY <3>1, <3>2
  <2>2. CASE i = x
    <3>1. Probe(u, fp, m) = x
      BY <1>1, <1>6, <1>10
    <3>2. ASSUME NEW j \in 0..(m - 1) PROVE u.slots[Probe(u, fp, j)] # Empty
      <4>1. t.slots[(fp + j) % n] # Empty /\ j \in Nat
        BY <1>1, <1>5
      <4>2. u.slots[(fp + j) % n] # Empty
        BY <1>3, <2>1, <4>1
      <4> QED
        BY <1>10, <4>2
    <3>3. u.slots[i].fp = fp
      BY <1>3, <1>9, <2>2
    <3> QED
      BY <2>2, <3>1, <3>2, <3>3
  <2>3. CASE i # x
    <3>1. i \in Taken(t) /\ u.slots[i] = t.slots[i]
      BY <1>11, <1>12, <2>3
    <3>2. PICK f \in Nat : f = t.slots[i].fp
      BY <1>12, <3>1, GoodFacts, EmptyIsNone
    <3>3. PICK k \in 0..(n - 1) :
             /\ Probe(t, f, k) = i
             /\ \A j \in 0..(k - 1) : t.slots[Probe(t, f, j)] # Empty
      BY <3>1, <3>2 DEF Reached, Good
    <3>4. ASSUME NEW j \in 0..(k - 1) PROVE u.slots[Probe(u, f, j)] # Empty
      <4>1. t.slots[Probe(t, f, j)] # Empty /\ Probe(t, f, j) = (f + j) % n
        BY <1>1, <3>3, Zenon
      <4>2. j \in Nat
        BY <1>1
      <4>3. u.slots[(f + j) % n] # Empty
        BY <2>1, <4>1, <4>2
      <4> QED
        BY <1>10, <4>3
    <3>5. Probe(u, f, k) = i
      BY <1>1, <1>10, <3>3
    <3> QED
      BY <3>1, <3>2, <3>4, <3>5
  <2> QED
    BY <2>2, <2>3
<1>15. Once(u)
  <2> SUFFICES ASSUME NEW i \in Taken(u), NEW j \in Taken(u), u.slots[i].pos = u.slots[j].pos
               PROVE  i = j
    BY DEF Once
  <2>1. \A k \in Taken(t) : u.slots[k].pos # pos
    BY <1>12 DEF Positions
  <2>2. CASE i \in Taken(t) /\ j \in Taken(t)
    BY <1>12, <2>2 DEF Good, Once
  <2>3. CASE i = x \/ j = x
    BY <1>3, <1>9, <1>11, <2>1, <2>3
  <2> QED
    BY <1>11, <2>2, <2>3
<1>16. Good(u, n)
  BY <1>1, <1>9, <1>10, <1>13, <1>14, <1>15 DEF Good
<1>17. Entries(u) = Entries(t) \cup {e} /\ Positions(u) = Positions(t) \cup {pos}
  BY <1>3, <1>9, <1>11, <1>12 DEF Entries, Positions
<1> QED
  BY <1>2, <1>7, <1>8, <1>16, <1>17

-----------------------------------------------------------------------------
\* New tables

\* The equation of the size in NewTable, with g for the function it defines.
FitStep(c, g, s) == IF s < 2 * c THEN g[2 * s] ELSE s

LEMMA FitSolvable ==
    ASSUME NEW c \in Nat
    PROVE  \E g : g = [s \in Nat |-> FitStep(c, g, s)]
<1> DEFINE Above(m) == {s \in Nat : s + m >= 2 * c}
           Solves(g, m) == g = [s \in Above(m) |-> FitStep(c, g, s)]
           S == {m \in Nat : \E g : Solves(g, m)}
<1>1. 0 \in S
  <2> DEFINE g == [s \in Above(0) |-> s]
  <2>1. \A s \in Above(0) : FitStep(c, g, s) = s
    BY DEF FitStep
  <2>2. Solves(g, 0)
    BY <2>1
  <2> HIDE DEF g, Solves
  <2> QED
    BY <2>2
<1>2. ASSUME NEW m \in Nat, m \in S
      PROVE  m + 1 \in S
  <2>1. PICK g : Solves(g, m)
    BY <1>2
  <2> DEFINE h == [s \in Above(m + 1) |->
                     IF s \in Above(m) THEN g[s] ELSE IF s = 0 THEN 0 ELSE g[2 * s]]
  <2>2. \A s \in Above(m) : g[s] = FitStep(c, g, s)
    BY <2>1
  <2>3. \A s \in Above(m) : h[s] = g[s]
    OBVIOUS
  <2>4. ASSUME NEW s \in Above(m + 1)
        PROVE  h[s] = FitStep(c, h, s)
    <3>1. CASE s = 0
      <4>1. ~(s < 2 * c) => FitStep(c, h, s) = s /\ s \in Above(m)
        BY <3>1 DEF FitStep
      <4>2. ~(s < 2 * c) => g[s] = s
        BY <2>2, <4>1 DEF FitStep
      <4>3. s < 2 * c => FitStep(c, h, s) = h[2 * s] /\ 2 * s = s
        BY <3>1 DEF FitStep
      <4> QED
        BY <2>3, <4>1, <4>2, <4>3
    <3>2. CASE s # 0
      <4>1. 2 * s \in Above(m)
        BY <3>2
      <4>2. h[2 * s] = g[2 * s]
        BY <2>3, <4>1
      <4>3. CASE s \in Above(m)
        <5>1. h[s] = g[s] /\ g[s] = FitStep(c, g, s)
          BY <2>2, <2>3, <4>3
        <5>2. FitStep(c, g, s) = FitStep(c, h, s)
          BY <4>2 DEF FitStep
        <5> QED
          BY <5>1, <5>2
      <4>4. CASE s \notin Above(m)
        <5>1. h[s] = g[2 * s]
          BY <3>2, <4>4
        <5>2. s < 2 * c
          BY <4>4
        <5> QED
          BY <4>2, <5>1, <5>2 DEF FitStep
      <4> QED
        BY <4>3, <4>4
    <3> QED
      BY <3>1, <3>2
  <2>5. h = [s \in Above(m + 1) |-> h[s]]
    OBVIOUS
  <2>6. Solves(h, m + 1)
    <3> HIDE DEF h
    <3> QED
      BY <2>4, <2>5
  <2> HIDE DEF h, Solves
  <2> QED
    BY <2>6
<1>3. 2 * c \in S
  <2> HIDE DEF S
  <2>1. \A m \in 0..(2 * c - 1) : m \in S => m + 1 \in S
    BY <1>2
  <2>2. 2 * c \in Nat
    OBVIOUS
  <2>3. \A m \in 0..(2 * c) : m \in S
    BY <1>1, <2>1, <2>2, Climb
  <2> QED
    BY <2>2, <2>3
<1>4. Above(2 * c) = Nat
  OBVIOUS
<1> QED
  BY <1>3, <1>4

\* A new table is empty and has room for twice what it was made for.
LEMMA NewGood ==
    ASSUME NEW c \in Nat
    PROVE  \E n \in Nat : /\ 2 * c <= n /\ Good(NewTable(c), n) /\ NewTable(c).count = 0
                          /\ Entries(NewTable(c)) = {} /\ Positions(NewTable(c)) = {}
<1> DEFINE F == CHOOSE g : g = [s \in Nat |-> IF s < 2 * c THEN g[2 * s] ELSE s]
<1>1. F = [s \in Nat |-> IF s < 2 * c THEN F[2 * s] ELSE s]
  <2>1. \E g : g = [s \in Nat |-> IF s < 2 * c THEN g[2 * s] ELSE s]
    BY FitSolvable DEF FitStep
  <2> QED
    BY <2>1, Zenon
<1>2. NewTable(c) = [slots |-> [i \in 0..(F[MinSize] - 1) |-> Empty], count |-> 0]
  BY DEF NewTable
<1>3. \A s \in Nat : F[s] = IF s < 2 * c THEN F[2 * s] ELSE s
  BY <1>1
<1> HIDE DEF F
<1> DEFINE S == {m \in Nat : \A s \in Nat \ {0} : s + m >= 2 * c => F[s] \in Nat /\ F[s] >= 2 * c /\ F[s] >= s}
<1>4. 0 \in S
  BY <1>3
<1>5. ASSUME NEW m \in 0..(2 * c - 1), m \in S
      PROVE  m + 1 \in S
  <2> SUFFICES ASSUME NEW s \in Nat \ {0}, s + (m + 1) >= 2 * c
               PROVE  F[s] \in Nat /\ F[s] >= 2 * c /\ F[s] >= s
    OBVIOUS
  <2>1. 2 * s \in Nat \ {0} /\ 2 * s + m >= 2 * c /\ 2 * s >= s
    OBVIOUS
  <2>2. F[2 * s] \in Nat /\ F[2 * s] >= 2 * c /\ F[2 * s] >= 2 * s
    BY <1>5, <2>1
  <2> QED
    BY <1>3, <2>1, <2>2
<1>6. 2 * c \in S
  <2> HIDE DEF S
  <2>1. 2 * c \in Nat
    OBVIOUS
  <2>2. \A m \in 0..(2 * c) : m \in S
    BY <1>4, <1>5, <2>1, Climb
  <2> QED
    BY <2>1, <2>2
<1>7. PICK n \in Nat : n = F[MinSize] /\ n >= 2 * c /\ n # 0
  <2>1. MinSize \in Nat \ {0} /\ MinSize + 2 * c >= 2 * c
    BY SizeAssumption
  <2>2. F[MinSize] \in Nat /\ F[MinSize] >= 2 * c /\ F[MinSize] >= MinSize
    BY <1>6, <2>1
  <2> QED
    BY <2>1, <2>2
<1>8. PICK t : t = NewTable(c)
  OBVIOUS
<1>9. /\ t.count = 0 /\ t.slots \in [0..(n - 1) -> Slot] /\ DOMAIN t.slots = 0..(n - 1)
      /\ \A i \in 0..(n - 1) : t.slots[i] = Empty
  BY <1>2, <1>7, <1>8 DEF Slot
<1>10. Size(t) = n
  BY <1>9, SizeIs
<1>11. Taken(t) = {}
  BY <1>9 DEF Taken
<1>12. Good(t, n)
  BY <1>7, <1>9, <1>10, <1>11, FS_EmptySet DEF Good, Reached, Once
<1>13. Entries(t) = {} /\ Positions(t) = {}
  BY <1>11 DEF Entries, Positions
<1> QED
  BY <1>7, <1>8, <1>9, <1>12, <1>13

-----------------------------------------------------------------------------
\* Placing the entries of one table into another

\* The equation of PlaceAll, with g for the function it defines.
Goes(e, to) == e # Empty /\ e.pos \in DOMAIN to

PlaceStep(from, into, to, g, i) ==
    IF i = 0 THEN into
    ELSE IF Goes(from.slots[i - 1], to)
    THEN Place(g[i - 1], from.slots[i - 1].fp, to[from.slots[i - 1].pos])
    ELSE g[i - 1]

PlaceSolves(from, into, to, g, n) == g = [i \in 0..n |-> PlaceStep(from, into, to, g, i)]

LEMMA PlaceSolvable ==
    ASSUME NEW from, NEW into, NEW to, NEW n \in Nat
    PROVE  \E g : PlaceSolves(from, into, to, g, n)
<1> DEFINE Solves(g, m) == g = [i \in 0..m |-> PlaceStep(from, into, to, g, i)]
           S == {m \in Nat : \E g : Solves(g, m)}
<1>1. 0 \in S
  <2> DEFINE g == [i \in 0..0 |-> into]
  <2>1. Solves(g, 0)
    BY DEF PlaceStep
  <2> HIDE DEF g, Solves
  <2> QED
    BY <2>1
<1>2. ASSUME NEW m \in Nat, m \in S
      PROVE  m + 1 \in S
  <2>1. PICK g : Solves(g, m)
    BY <1>2
  <2> DEFINE h == [i \in 0..(m + 1) |-> IF i = m + 1 THEN PlaceStep(from, into, to, g, i) ELSE g[i]]
  <2>2. \A i \in 0..(m + 1) : i # 0 => i - 1 \in 0..m /\ h[i - 1] = g[i - 1]
    OBVIOUS
  <2>3. \A i \in 0..(m + 1) : PlaceStep(from, into, to, h, i) = PlaceStep(from, into, to, g, i)
    <3> HIDE DEF h
    <3> QED
      BY <2>2, Zenon DEF PlaceStep
  <2>4. \A i \in 0..m : g[i] = PlaceStep(from, into, to, g, i)
    BY <2>1
  <2>5. \A i \in 0..(m + 1) : h[i] = PlaceStep(from, into, to, g, i)
    BY <2>4
  <2>6. h = [i \in 0..(m + 1) |-> h[i]]
    OBVIOUS
  <2>7. Solves(h, m + 1)
    <3> HIDE DEF h
    <3> QED
      BY <2>3, <2>5, <2>6
  <2> HIDE DEF h, Solves
  <2> QED
    BY <2>7
<1>3. n \in S
  <2> HIDE DEF S
  <2>1. \A m \in 0..(n - 1) : m \in S => m + 1 \in S
    BY <1>2
  <2>2. \A m \in 0..n : m \in S
    BY <1>1, <2>1, Climb
  <2> QED
    BY <2>2
<1> QED
  BY <1>3, Zenon DEF PlaceSolves

\* What PlaceAll does is the last of a row of tables, each with one slot's entry
\* more than the one before.
LEMMA PlaceAllRow ==
    ASSUME NEW from, NEW into, NEW to, NEW n \in Nat, Size(from) = n
    PROVE  \E g : /\ PlaceAll(from, into, to) = g[n] /\ g[0] = into
                  /\ \A i \in 0..(n - 1) :
                        g[i + 1] = IF Goes(from.slots[i], to)
                                   THEN Place(g[i], from.slots[i].fp, to[from.slots[i].pos])
                                   ELSE g[i]
<1>1. PICK h : PlaceSolves(from, into, to, h, n)
  BY PlaceSolvable
<1> DEFINE G == CHOOSE g : g = [i \in 0..n |-> PlaceStep(from, into, to, g, i)]
<1>2. G = [i \in 0..n |-> PlaceStep(from, into, to, G, i)]
  BY <1>1, Zenon DEF PlaceSolves
<1>3. PlaceAll(from, into, to) = G[n]
  BY Zenon DEF PlaceAll, PlaceStep, Goes
<1> HIDE DEF G
<1>4. \A i \in 0..n : G[i] = PlaceStep(from, into, to, G, i)
  BY <1>2
<1>5. G[0] = into
  BY <1>4 DEF PlaceStep
<1>6. ASSUME NEW i \in 0..(n - 1)
      PROVE  G[i + 1] = IF Goes(from.slots[i], to)
                        THEN Place(G[i], from.slots[i].fp, to[from.slots[i].pos])
                        ELSE G[i]
  <2>1. i + 1 \in 0..n /\ i + 1 # 0 /\ (i + 1) - 1 = i
    OBVIOUS
  <2>2. G[i + 1] = PlaceStep(from, into, to, G, i + 1)
    BY <1>4, <2>1
  <2> QED
    BY <2>1, <2>2, Zenon DEF PlaceStep
<1> QED
  BY <1>3, <1>5, <1>6

-----------------------------------------------------------------------------
\* The slots whose entries go, and what becomes of each one's.
Going(from, to) == {i \in Taken(from) : from.slots[i].pos \in DOMAIN to}
Moved(from, to, i) == [fp |-> from.slots[i].fp, pos |-> to[from.slots[i].pos]]

\* No two positions become one.
Renumbers(to) ==
    /\ \A p \in DOMAIN to : to[p] \in Nat
    /\ \A p, q \in DOMAIN to : to[p] = to[q] => p = q

\* A table the entries of D have been placed into.
Filled(t, m, from, to, D) ==
    /\ Good(t, m)
    /\ t.count = Cardinality(D)
    /\ Entries(t) = {Moved(from, to, i) : i \in D}

LEMMA PositionsOf ==
    ASSUME NEW t
    PROVE  Positions(t) = {e.pos : e \in Entries(t)}
BY DEF Positions, Entries

LEMMA FillOne ==
    ASSUME NEW from, NEW n, Good(from, n), NEW to, Renumbers(to), NEW m,
           Cardinality(Going(from, to)) <= m,
           NEW t, NEW D, D \subseteq Going(from, to), Filled(t, m, from, to, D),
           NEW i \in Going(from, to), i \notin D
    PROVE  Filled(Place(t, from.slots[i].fp, to[from.slots[i].pos]), m, from, to, D \cup {i})
<1>1. /\ IsFiniteSet(Taken(from)) /\ Taken(from) \subseteq 0..(n - 1)
      /\ \A j \in 0..(n - 1) : from.slots[j] = Empty \/ from.slots[j] \in [fp : Fingerprint, pos : Nat]
      /\ \A j \in 0..(n - 1) : from.slots[j] # Empty <=> j \in Taken(from)
  BY GoodFacts
<1>2. /\ i \in Taken(from) /\ from.slots[i].pos \in DOMAIN to
      /\ \A j \in D : j \in Taken(from) /\ from.slots[j].pos \in DOMAIN to
  BY DEF Going
<1>3. from.slots[i] \in [fp : Fingerprint, pos : Nat]
  BY <1>1, <1>2
<1>4. PICK fp \in Fingerprint, pos \in Nat : fp = from.slots[i].fp /\ pos = to[from.slots[i].pos]
  BY <1>2, <1>3 DEF Renumbers
<1>5. t.count < m
  <2>1. IsFiniteSet(Going(from, to))
    <3>1. Going(from, to) \subseteq Taken(from)
      BY DEF Going
    <3> QED
      BY <1>1, <3>1, FS_Subset
  <2>2. IsFiniteSet(D \cup {i}) /\ Cardinality(D \cup {i}) <= Cardinality(Going(from, to))
    <3>1. D \cup {i} \subseteq Going(from, to)
      OBVIOUS
    <3> QED
      BY <2>1, <3>1, FS_Subset
  <2>3. IsFiniteSet(D) /\ Cardinality(D) \in Nat
    BY <2>1, FS_Subset, FS_CardinalityType
  <2>4. Cardinality(D \cup {i}) = Cardinality(D) + 1
    BY <2>3, FS_AddElement
  <2>5. Cardinality(Going(from, to)) \in Nat /\ m \in Nat
    BY <2>1, FS_CardinalityType DEF Filled, Good
  <2> QED
    BY <2>2, <2>3, <2>4, <2>5 DEF Filled
<1>6. Good(t, m) /\ t.count = Cardinality(D) /\ Entries(t) = {Moved(from, to, j) : j \in D}
  BY DEF Filled
<1>7. pos \notin Positions(t)
  <2> SUFFICES ASSUME pos \in Positions(t) PROVE FALSE
    OBVIOUS
  <2>1. PICK j \in D : pos = Moved(from, to, j).pos
    BY <1>6, PositionsOf
  <2>2. pos = to[from.slots[j].pos]
    BY <2>1 DEF Moved
  <2>3. from.slots[j].pos = from.slots[i].pos
    BY <1>2, <1>4, <2>2 DEF Renumbers
  <2>4. j = i
    BY <1>2, <2>3 DEF Good, Once
  <2> QED
    BY <2>1, <2>4
<1>8. /\ Good(Place(t, fp, pos), m)
      /\ Place(t, fp, pos).count = t.count + 1
      /\ Entries(Place(t, fp, pos)) = Entries(t) \cup {[fp |-> fp, pos |-> pos]}
  BY <1>5, <1>6, <1>7, PlaceGood
<1>9. [fp |-> fp, pos |-> pos] = Moved(from, to, i)
  BY <1>4 DEF Moved
<1>10. Cardinality(D \cup {i}) = Cardinality(D) + 1
  <2>1. IsFiniteSet(D)
    <3>1. D \subseteq Taken(from)
      BY <1>2
    <3> QED
      BY <1>1, <3>1, FS_Subset
  <2> QED
    BY <2>1, FS_AddElement
<1>11. Entries(Place(t, fp, pos)) = {Moved(from, to, j) : j \in D \cup {i}}
  BY <1>6, <1>8, <1>9
<1> QED
  BY <1>4, <1>6, <1>8, <1>10, <1>11 DEF Filled

\* The entries that go are the new table's, one for one.
LEMMA PlaceAllGood ==
    ASSUME NEW from, NEW n, Good(from, n), NEW to, Renumbers(to), NEW m, NEW into,
           Good(into, m), Taken(into) = {}, Cardinality(Going(from, to)) <= m
    PROVE  Filled(PlaceAll(from, into, to), m, from, to, Going(from, to))
<1>1. /\ n \in Nat /\ Size(from) = n /\ Taken(from) \subseteq 0..(n - 1)
      /\ \A j \in 0..(n - 1) : from.slots[j] # Empty <=> j \in Taken(from)
  BY GoodFacts DEF Good
<1>2. PICK g : /\ PlaceAll(from, into, to) = g[n] /\ g[0] = into
               /\ \A i \in 0..(n - 1) :
                     g[i + 1] = IF Goes(from.slots[i], to)
                                THEN Place(g[i], from.slots[i].fp, to[from.slots[i].pos])
                                ELSE g[i]
  BY <1>1, PlaceAllRow
<1> DEFINE D(k) == Going(from, to) \cap 0..(k - 1)
           S == {k \in 0..n : Filled(g[k], m, from, to, D(k))}
<1>3. 0 \in S
  <2>1. D(0) = {}
    OBVIOUS
  <2>2. Entries(into) = {} /\ into.count = 0
    BY FS_EmptySet DEF Entries, Good
  <2>3. Filled(into, m, from, to, {})
    BY <2>2, FS_EmptySet DEF Filled
  <2> QED
    BY <1>1, <1>2, <2>1, <2>3
<1>4. ASSUME NEW i \in 0..(n - 1), i \in S
      PROVE  i + 1 \in S
  <2>1. i \in Nat /\ i + 1 \in 0..n
    BY <1>1
  <2>2. Goes(from.slots[i], to) <=> i \in Going(from, to)
    BY <1>1 DEF Goes, Going
  <2>3. CASE i \in Going(from, to)
    <3>1. D(i + 1) = D(i) \cup {i} /\ i \notin D(i) /\ D(i) \subseteq Going(from, to)
      BY <2>1, <2>3
    <3>2. g[i + 1] = Place(g[i], from.slots[i].fp, to[from.slots[i].pos])
      BY <1>2, <2>2, <2>3
    <3>3. PICK E, t : E = D(i) /\ t = g[i]
      OBVIOUS
    <3>4. Filled(t, m, from, to, E) /\ E \subseteq Going(from, to) /\ i \notin E
      BY <1>4, <3>1, <3>3
    <3>5. Filled(Place(t, from.slots[i].fp, to[from.slots[i].pos]), m, from, to, E \cup {i})
      BY <2>3, <3>4, FillOne
    <3> QED
      BY <2>1, <3>1, <3>2, <3>3, <3>5
  <2>4. CASE i \notin Going(from, to)
    <3>1. D(i + 1) = D(i)
      BY <2>1, <2>4
    <3>2. g[i + 1] = g[i]
      BY <1>2, <2>2, <2>4
    <3> QED
      BY <1>4, <2>1, <3>1, <3>2
  <2> QED
    BY <2>3, <2>4
<1>5. n \in S
  <2> HIDE DEF S
  <2>1. \A i \in 0..n : i \in S
    BY <1>1, <1>3, <1>4, Climb
  <2> QED
    BY <1>1, <2>1
<1>6. D(n) = Going(from, to)
  BY <1>1 DEF Going
<1> QED
  BY <1>2, <1>5, <1>6

\* What the table is like between two calls.
Usable(t, n) == Good(t, n) /\ 2 * t.count <= n

LEMMA EmptyGood ==
    ASSUME NEW n \in Nat \ {0}, NEW t, t = [slots |-> [i \in 0..(n - 1) |-> Empty], count |-> 0]
    PROVE  Good(t, n) /\ Taken(t) = {} /\ t.count = 0
<1>1. /\ t.count = 0 /\ t.slots \in [0..(n - 1) -> Slot] /\ DOMAIN t.slots = 0..(n - 1)
      /\ \A i \in 0..(n - 1) : t.slots[i] = Empty
  BY DEF Slot
<1>2. Size(t) = n
  BY <1>1, SizeIs
<1>3. Taken(t) = {}
  BY <1>1 DEF Taken
<1> QED
  BY <1>1, <1>2, <1>3, FS_EmptySet DEF Good, Reached, Once

\* A grown table has the same entries.
LEMMA GrowGood ==
    ASSUME NEW t, NEW n, Good(t, n)
    PROVE  Good(Grow(t), 2 * n) /\ Grow(t).count = t.count /\ Entries(Grow(t)) = Entries(t)
<1>1. /\ n \in Nat \ {0} /\ Size(t) = n /\ DOMAIN t.slots = 0..(n - 1)
      /\ Taken(t) \subseteq 0..(n - 1) /\ t.count \in Nat /\ t.count <= n
      /\ \A j \in 0..(n - 1) : t.slots[j] = Empty \/ t.slots[j] \in [fp : Fingerprint, pos : Nat]
      /\ \A j \in 0..(n - 1) : t.slots[j] # Empty <=> j \in Taken(t)
  BY GoodFacts DEF Good
<1>2. PICK to : to = [pos \in {e.pos : e \in Range(t.slots)} |-> pos]
  OBVIOUS
<1>3. PICK into : into = [slots |-> [i \in 0..(2 * Size(t) - 1) |-> Empty], count |-> 0]
  OBVIOUS
<1>4. Grow(t) = PlaceAll(t, into, to)
  BY <1>2, <1>3, Zenon DEF Grow
<1>5. \A i \in Taken(t) : t.slots[i] \in [fp : Fingerprint, pos : Nat]
  BY <1>1
<1>6. Renumbers(to)
  <2>1. \A p \in DOMAIN to : to[p] = p /\ p \in Nat
    <3>1. Empty.pos = 0
      BY DEF Empty
    <3>2. \A i \in 0..(n - 1) : t.slots[i].pos \in Nat
      BY <1>1, <3>1
    <3>3. \A e \in Range(t.slots) : e.pos \in Nat
      BY <1>1, <3>2 DEF Range
    <3> QED
      BY <1>2, <3>3
  <2> QED
    BY <2>1 DEF Renumbers
<1>7. \A i \in Taken(t) : t.slots[i].pos \in DOMAIN to /\ to[t.slots[i].pos] = t.slots[i].pos
  <2>1. \A i \in 0..(n - 1) : t.slots[i] \in Range(t.slots)
    BY <1>1 DEF Range
  <2> QED
    BY <1>1, <1>2, <2>1
<1>8. Going(t, to) = Taken(t)
  BY <1>7 DEF Going
<1>9. Good(into, 2 * n) /\ Taken(into) = {}
  <2>1. 2 * n \in Nat \ {0} /\ into = [slots |-> [i \in 0..((2 * n) - 1) |-> Empty], count |-> 0]
    BY <1>1, <1>3
  <2>2. PICK m \in Nat \ {0} : m = 2 * n
    BY <2>1
  <2>3. Good(into, m) /\ Taken(into) = {}
    BY <2>1, <2>2, EmptyGood
  <2> QED
    BY <2>2, <2>3
<1>10. t.count = Cardinality(Taken(t)) /\ Cardinality(Going(t, to)) <= 2 * n
  BY <1>1, <1>8 DEF Good
<1>11. PICK m : m = 2 * n
  OBVIOUS
<1>12. Filled(PlaceAll(t, into, to), m, t, to, Going(t, to))
  BY <1>6, <1>9, <1>10, <1>11, PlaceAllGood
<1>13. \A i \in Taken(t) : Moved(t, to, i) = t.slots[i]
  BY <1>5, <1>7 DEF Moved
<1>14. {Moved(t, to, i) : i \in Taken(t)} = Entries(t)
  BY <1>13 DEF Entries
<1> QED
  BY <1>4, <1>8, <1>10, <1>11, <1>12, <1>14 DEF Filled

\* insert adds an entry and keeps the table half empty.
LEMMA InsertGood ==
    ASSUME NEW t, NEW n, Usable(t, n), NEW fp \in Fingerprint, NEW pos \in Nat,
           pos \notin Positions(t)
    PROVE  \E m : /\ Usable(Insert(t, fp, pos), m)
                  /\ Entries(Insert(t, fp, pos)) = Entries(t) \cup {[fp |-> fp, pos |-> pos]}
<1>1. n \in Nat \ {0} /\ Size(t) = n /\ t.count \in Nat /\ 2 * t.count <= n /\ Good(t, n)
  BY GoodFacts DEF Good, Usable
<1>2. \E u, m : /\ u = IF (t.count + 1) * 2 > Size(t) THEN Grow(t) ELSE t
                /\ Good(u, m) /\ u.count = t.count /\ Entries(u) = Entries(t)
                /\ m \in Nat /\ t.count < m /\ 2 * (t.count + 1) <= m
  <2>1. CASE (t.count + 1) * 2 > Size(t)
    <3>1. Good(Grow(t), 2 * n) /\ Grow(t).count = t.count /\ Entries(Grow(t)) = Entries(t)
      BY <1>1, GrowGood
    <3>2. PICK m \in Nat : m = 2 * n
      BY <1>1
    <3>3. t.count < m /\ 2 * (t.count + 1) <= m
      BY <1>1, <3>2
    <3> QED
      BY <2>1, <3>1, <3>2, <3>3
  <2>2. CASE ~((t.count + 1) * 2 > Size(t))
    <3>1. n \in Nat /\ t.count < n /\ 2 * (t.count + 1) <= n
      BY <1>1, <2>2
    <3> QED
      BY <1>1, <2>2, <3>1
  <2> QED
    BY <2>1, <2>2
<1>3. PICK u, m : /\ u = IF (t.count + 1) * 2 > Size(t) THEN Grow(t) ELSE t
                  /\ Good(u, m) /\ u.count = t.count /\ Entries(u) = Entries(t)
                  /\ m \in Nat /\ t.count < m /\ 2 * (t.count + 1) <= m
  BY <1>2
<1>4. Insert(t, fp, pos) = Place(u, fp, pos)
  BY <1>3 DEF Insert
<1>5. pos \notin Positions(u) /\ u.count < m
  BY <1>3, PositionsOf
<1>6. /\ Good(Place(u, fp, pos), m)
      /\ Place(u, fp, pos).count = u.count + 1
      /\ Entries(Place(u, fp, pos)) = Entries(u) \cup {[fp |-> fp, pos |-> pos]}
  BY <1>3, <1>5, PlaceGood
<1>7. Usable(Place(u, fp, pos), m)
  <2>1. PICK c \in Nat : c = t.count
    BY <1>1
  <2>2. 2 * (c + 1) <= m
    BY <1>3, <2>1
  <2> QED
    BY <1>3, <1>6, <2>1, <2>2 DEF Usable
<1> QED
  BY <1>3, <1>4, <1>6, <1>7

-----------------------------------------------------------------------------
\* ensureIDTable

\* The rows of the first k documents of ds.
Rows(ds, k) == {[fp |-> ds[p + 1], pos |-> p] : p \in 0..(k - 1)}

\* The equation of Built, with g for the function it defines.
BuiltStep(g, i) == IF i = 0 THEN NewTable(Len(docs) + Slack) ELSE Insert(g[i - 1], docs[i], i - 1)
BuiltSolves(g, n) == g = [i \in 0..n |-> BuiltStep(g, i)]

LEMMA BuiltSolvable ==
    ASSUME NEW n \in Nat
    PROVE  \E g : BuiltSolves(g, n)
<1> DEFINE S == {m \in Nat : \E g : BuiltSolves(g, m)}
<1>1. 0 \in S
  <2> DEFINE g == [i \in 0..0 |-> NewTable(Len(docs) + Slack)]
  <2>1. BuiltSolves(g, 0)
    BY DEF BuiltSolves, BuiltStep
  <2> HIDE DEF g
  <2> QED
    BY <2>1
<1>2. ASSUME NEW m \in Nat, m \in S
      PROVE  m + 1 \in S
  <2>1. PICK g : BuiltSolves(g, m)
    BY <1>2
  <2> DEFINE h == [i \in 0..(m + 1) |-> IF i = m + 1 THEN BuiltStep(g, i) ELSE g[i]]
  <2>2. \A i \in 0..(m + 1) : i # 0 => i - 1 \in 0..m /\ h[i - 1] = g[i - 1]
    OBVIOUS
  <2>3. \A i \in 0..(m + 1) : BuiltStep(h, i) = BuiltStep(g, i)
    <3> HIDE DEF h
    <3> QED
      BY <2>2, Zenon DEF BuiltStep
  <2>4. \A i \in 0..m : g[i] = BuiltStep(g, i)
    BY <2>1 DEF BuiltSolves
  <2>5. \A i \in 0..(m + 1) : h[i] = BuiltStep(g, i)
    BY <2>4
  <2>6. h = [i \in 0..(m + 1) |-> h[i]]
    OBVIOUS
  <2>7. BuiltSolves(h, m + 1)
    <3> HIDE DEF h
    <3> QED
      BY <2>3, <2>5, <2>6 DEF BuiltSolves
  <2> HIDE DEF h
  <2> QED
    BY <2>7
<1>3. n \in S
  <2> HIDE DEF S
  <2>1. \A m \in 0..(n - 1) : m \in S => m + 1 \in S
    BY <1>2
  <2>2. \A m \in 0..n : m \in S
    BY <1>1, <2>1, Climb
  <2> QED
    BY <2>2
<1> QED
  BY <1>3

LEMMA BuiltRow ==
    ASSUME docs \in Seq(Fingerprint), ~built
    PROVE  \E g : /\ Built = g[Len(docs)] /\ g[0] = NewTable(Len(docs) + Slack)
                  /\ \A i \in 0..(Len(docs) - 1) : g[i + 1] = Insert(g[i], docs[i + 1], i)
<1> DEFINE n == Len(docs)
<1>1. n \in Nat
  OBVIOUS
<1>2. PICK h : BuiltSolves(h, n)
  BY <1>1, BuiltSolvable
<1> DEFINE G == CHOOSE g : g = [i \in 0..Len(docs) |-> BuiltStep(g, i)]
<1>3. G = [i \in 0..n |-> BuiltStep(G, i)]
  BY <1>2, Zenon DEF BuiltSolves
<1>4. Built = G[n]
  BY Zenon DEF Built, BuiltStep
<1> HIDE DEF G
<1>5. \A i \in 0..n : G[i] = BuiltStep(G, i)
  BY <1>3
<1>6. G[0] = NewTable(Len(docs) + Slack)
  BY <1>1, <1>5 DEF BuiltStep
<1>7. ASSUME NEW i \in 0..(n - 1)
      PROVE  G[i + 1] = Insert(G[i], docs[i + 1], i)
  <2>1. i + 1 \in 0..n /\ i + 1 # 0 /\ (i + 1) - 1 = i
    BY <1>1
  <2>2. G[i + 1] = BuiltStep(G, i + 1)
    BY <1>5, <2>1
  <2> QED
    BY <2>1, <2>2, Zenon DEF BuiltStep
<1> QED
  BY <1>4, <1>6, <1>7

\* A table that has the rows of the first k documents, and no others.
HasRows(t, k) == \E n : Usable(t, n) /\ Entries(t) = Rows(docs, k)

LEMMA InsertRow ==
    ASSUME NEW ds, NEW t, NEW k \in Nat, NEW n, Usable(t, n), Entries(t) = Rows(ds, k),
           NEW fp \in Fingerprint
    PROVE  \E m : /\ Usable(Insert(t, fp, k), m)
                  /\ Entries(Insert(t, fp, k)) = Rows(ds, k) \cup {[fp |-> fp, pos |-> k]}
<1>1. k \notin Positions(t)
  <2> SUFFICES ASSUME k \in Positions(t) PROVE FALSE
    OBVIOUS
  <2>1. PICK e \in Rows(ds, k) : k = e.pos
    BY PositionsOf
  <2>2. PICK p \in 0..(k - 1) : e = [fp |-> ds[p + 1], pos |-> p]
    BY <2>1 DEF Rows
  <2>3. e.pos = p
    BY <2>2
  <2> QED
    BY <2>1, <2>3
<1> QED
  BY <1>1, InsertGood

LEMMA BuiltGood ==
    ASSUME docs \in Seq(Fingerprint), ~built
    PROVE  HasRows(Built, Len(docs))
<1>1. Len(docs) \in Nat /\ Len(docs) + Slack \in Nat
  BY SizeAssumption
<1>2. PICK g : /\ Built = g[Len(docs)] /\ g[0] = NewTable(Len(docs) + Slack)
               /\ \A i \in 0..(Len(docs) - 1) : g[i + 1] = Insert(g[i], docs[i + 1], i)
  BY BuiltRow
<1> DEFINE S == {k \in 0..Len(docs) : HasRows(g[k], k)}
<1>3. 0 \in S
  <2>1. PICK c \in Nat : c = Len(docs) + Slack
    BY <1>1
  <2>2. PICK n \in Nat : Good(NewTable(c), n) /\ NewTable(c).count = 0 /\ Entries(NewTable(c)) = {}
    BY NewGood
  <2>3. Rows(docs, 0) = {}
    BY DEF Rows
  <2>4. Usable(NewTable(c), n)
    BY <2>2 DEF Usable
  <2>5. HasRows(g[0], 0)
    BY <1>2, <2>1, <2>2, <2>3, <2>4 DEF HasRows
  <2> QED
    BY <1>1, <2>5
<1>4. ASSUME NEW k \in 0..(Len(docs) - 1), k \in S
      PROVE  k + 1 \in S
  <2>1. k \in Nat /\ k + 1 \in 0..Len(docs) /\ docs[k + 1] \in Fingerprint
    BY <1>1
  <2>2. PICK t, n : t = g[k] /\ Usable(t, n) /\ Entries(t) = Rows(docs, k)
    BY <1>4 DEF HasRows
  <2>3. PICK fp \in Fingerprint : fp = docs[k + 1]
    BY <2>1
  <2>4. PICK m : /\ Usable(Insert(t, fp, k), m)
                 /\ Entries(Insert(t, fp, k)) = Rows(docs, k) \cup {[fp |-> fp, pos |-> k]}
    BY <2>1, <2>2, InsertRow
  <2>5. Rows(docs, k + 1) = Rows(docs, k) \cup {[fp |-> fp, pos |-> k]}
    <3>1. 0..((k + 1) - 1) = 0..(k - 1) \cup {k}
      BY <2>1
    <3> QED
      BY <2>3, <3>1 DEF Rows
  <2>6. g[k + 1] = Insert(t, fp, k)
    BY <1>2, <2>2, <2>3
  <2>7. HasRows(g[k + 1], k + 1)
    BY <2>4, <2>5, <2>6 DEF HasRows
  <2> QED
    BY <2>1, <2>7
<1>5. Len(docs) \in S
  <2> HIDE DEF S
  <2>1. \A k \in 0..Len(docs) : k \in S
    BY <1>1, <1>3, <1>4, Climb
  <2> QED
    BY <1>1, <2>1
<1> QED
  BY <1>2, <1>5

-----------------------------------------------------------------------------
\* Removal

Before(S, x) == Cardinality({q \in S : q < x})

LEMMA BeforeFacts ==
    ASSUME NEW S, S \subseteq Nat, IsFiniteSet(S)
    PROVE  /\ Cardinality(S) \in Nat
           /\ \A x \in S : Before(S, x) \in 0..(Cardinality(S) - 1)
           /\ \A x, y \in S : Before(S, x) = Before(S, y) => x = y
           /\ \A r \in 0..(Cardinality(S) - 1) : \E x \in S : Before(S, x) = r
<1>1. Cardinality(S) \in Nat
  BY FS_CardinalityType
<1>2. ASSUME NEW x \in S
      PROVE  Before(S, x) \in 0..(Cardinality(S) - 1)
  <2> DEFINE B == {q \in S : q < x}
  <2>1. x \notin B /\ x \in Nat /\ B \subseteq S
    OBVIOUS
  <2>2. IsFiniteSet(B) /\ Cardinality(B) \in Nat
    BY FS_Subset, FS_CardinalityType
  <2>3. Cardinality(B) <= Cardinality(S) /\ Cardinality(B) # Cardinality(S)
    BY <2>1, FS_Subset
  <2> QED
    BY <1>1, <2>2, <2>3 DEF Before
<1>3. ASSUME NEW x \in S, NEW y \in S, x < y
      PROVE  Before(S, x) # Before(S, y)
  <2> DEFINE B == {q \in S : q < x}
             C == {q \in S : q < y}
  <2>1. B \subseteq C /\ B # C
    <3>1. x \in Nat /\ y \in Nat /\ \A q \in S : q \in Nat
      OBVIOUS
    <3>2. \A q \in S : q < x => q < y
      BY <1>3, <3>1
    <3>3. x \in C /\ x \notin B
      BY <1>3, <3>1
    <3> QED
      BY <3>2, <3>3
  <2>2. IsFiniteSet(C)
    BY FS_Subset
  <2> HIDE DEF B, C
  <2>3. Cardinality(B) # Cardinality(C)
    BY <2>1, <2>2, FS_Subset
  <2> QED
    BY <2>3 DEF Before, B, C
<1>4. \A x, y \in S : Before(S, x) = Before(S, y) => x = y
  <2> TAKE x, y \in S
  <2> HAVE Before(S, x) = Before(S, y)
  <2>1. ~(x < y) /\ ~(y < x)
    BY <1>3
  <2>2. x \in Nat /\ y \in Nat
    OBVIOUS
  <2> QED
    BY <2>1, <2>2
<1>5. ASSUME NEW r \in 0..(Cardinality(S) - 1)
      PROVE  \E x \in S : Before(S, x) = r
  <2> DEFINE f == [x \in S |-> Before(S, x)]
             T == 0..(Cardinality(S) - 1)
  <2>1. f \in [S -> T]
    BY <1>2
  <2>2. \A x, y \in S : f[x] = f[y] => x = y
    BY <1>4
  <2>3. IsFiniteSet(T) /\ Cardinality(T) = Cardinality(S)
    BY <1>1, FS_Interval
  <2> HIDE DEF f, T
  <2>4. f \in Injection(S, T)
    BY <2>1, <2>2 DEF Injection, IsInjective
  <2>5. f \in Surjection(S, T)
    BY <2>3, <2>4, FS_Injection
  <2>6. PICK x \in S : f[x] = r
    BY <2>5 DEF Surjection, T
  <2> QED
    BY <2>6 DEF f
<1> QED
  BY <1>1, <1>2, <1>4, <1>5

\* The documents that stay, each where the removal puts it.
Stay(gone) == (0..(Len(docs) - 1)) \ gone
To(gone) == [p \in Stay(gone) |-> Before(Stay(gone), p)]
Left(gone) == [i \in 1..Cardinality(Stay(gone)) |->
                 docs[(CHOOSE p \in Stay(gone) : To(gone)[p] = i - 1) + 1]]

LEMMA StayFacts ==
    ASSUME docs \in Seq(Fingerprint), NEW gone \in SUBSET (0..(Len(docs) - 1))
    PROVE  /\ Stay(gone) \subseteq Nat /\ IsFiniteSet(Stay(gone))
           /\ Cardinality(Stay(gone)) = Len(docs) - Cardinality(gone)
           /\ Cardinality(Stay(gone)) \in Nat
<1>1. Len(docs) \in Nat
  OBVIOUS
<1>2. IsFiniteSet(0..(Len(docs) - 1)) /\ Cardinality(0..(Len(docs) - 1)) = Len(docs)
  <2>1. PICK n \in Nat : n = Len(docs)
    BY <1>1
  <2>2. IsFiniteSet(0..(n - 1)) /\ Cardinality(0..(n - 1)) = n
    BY FS_Interval
  <2> QED
    BY <2>1, <2>2
<1>3. IsFiniteSet(gone)
  BY <1>2, FS_Subset
<1>4. (0..(Len(docs) - 1)) \cap gone = gone
  OBVIOUS
<1>5. Cardinality(Stay(gone)) = Len(docs) - Cardinality(gone) /\ IsFiniteSet(Stay(gone))
  BY <1>2, <1>3, <1>4, FS_Difference, ZenonT(40) DEF Stay
<1>6. Cardinality(Stay(gone)) \in Nat
  BY <1>5, FS_CardinalityType
<1>7. Stay(gone) \subseteq Nat
  BY DEF Stay
<1> QED
  BY <1>5, <1>6, <1>7

LEMMA ToFacts ==
    ASSUME docs \in Seq(Fingerprint), NEW gone \in SUBSET (0..(Len(docs) - 1))
    PROVE  /\ DOMAIN To(gone) = Stay(gone)
           /\ Renumbers(To(gone))
           /\ \A p \in Stay(gone) : To(gone)[p] \in 0..(Cardinality(Stay(gone)) - 1)
           /\ \A r \in 0..(Cardinality(Stay(gone)) - 1) : \E p \in Stay(gone) : To(gone)[p] = r
<1>1. PICK S : S = Stay(gone)
  OBVIOUS
<1>2. S \subseteq Nat /\ IsFiniteSet(S) /\ Cardinality(S) \in Nat
  BY <1>1, StayFacts
<1>3. /\ \A x \in S : Before(S, x) \in 0..(Cardinality(S) - 1)
      /\ \A x, y \in S : Before(S, x) = Before(S, y) => x = y
      /\ \A r \in 0..(Cardinality(S) - 1) : \E x \in S : Before(S, x) = r
  BY <1>2, BeforeFacts
<1>4. DOMAIN To(gone) = S /\ \A p \in S : To(gone)[p] = Before(S, p)
  BY <1>1 DEF To
<1>5. Renumbers(To(gone))
  <2>1. PICK to : to = To(gone)
    OBVIOUS
  <2>2. \A p \in S : to[p] = Before(S, p) /\ Before(S, p) \in Nat
    BY <1>2, <1>3, <1>4, <2>1
  <2>3. \A p \in S : to[p] \in Nat
    BY <2>2
  <2>4. \A p, q \in S : to[p] = to[q] => p = q
    BY <1>3, <2>2
  <2>5. DOMAIN to = S
    BY <1>4, <2>1
  <2> QED
    BY <2>1, <2>3, <2>4, <2>5, Zenon DEF Renumbers
<1> QED
  BY <1>1, <1>3, <1>4, <1>5

LEMMA LeftFacts ==
    ASSUME docs \in Seq(Fingerprint), NEW gone \in SUBSET (0..(Len(docs) - 1))
    PROVE  /\ Left(gone) \in Seq(Fingerprint) /\ Len(Left(gone)) = Cardinality(Stay(gone))
           /\ Rows(Left(gone), Len(Left(gone)))
                = {[fp |-> docs[p + 1], pos |-> To(gone)[p]] : p \in Stay(gone)}
<1>1. PICK S, to : S = Stay(gone) /\ to = To(gone)
  OBVIOUS
<1>2. PICK c \in Nat : c = Cardinality(S)
  BY <1>1, StayFacts
<1>3. /\ DOMAIN to = S /\ \A p, q \in S : to[p] = to[q] => p = q
      /\ \A p \in S : to[p] \in 0..(c - 1)
      /\ \A r \in 0..(c - 1) : \E p \in S : to[p] = r
  BY <1>1, <1>2, ToFacts DEF Renumbers
<1>4. \A p \in S : p \in 0..(Len(docs) - 1) /\ docs[p + 1] \in Fingerprint
  BY <1>1 DEF Stay
<1>5. PICK L : L = Left(gone)
  OBVIOUS
<1>6. L = [i \in 1..c |-> docs[(CHOOSE p \in S : to[p] = i - 1) + 1]]
  BY <1>1, <1>2, <1>5 DEF Left
<1>7. \A i \in 1..c : \E p \in S : to[p] = i - 1 /\ L[i] = docs[p + 1]
  <2> TAKE i \in 1..c
  <2>1. i - 1 \in 0..(c - 1)
    OBVIOUS
  <2>2. \E p \in S : to[p] = i - 1
    BY <1>3, <2>1
  <2>3. L[i] = docs[(CHOOSE p \in S : to[p] = i - 1) + 1]
    BY <1>6
  <2> QED
    BY <2>2, <2>3
<1>8. L \in Seq(Fingerprint) /\ Len(L) = c
  <2>1. L \in [1..c -> Fingerprint]
    BY <1>4, <1>6, <1>7
  <2>2. L \in Seq(Fingerprint)
    BY <2>1, SeqDef
  <2> QED
    BY <2>1, <2>2
<1>9. \A r \in 0..(c - 1) : \E p \in S : to[p] = r /\ L[r + 1] = docs[p + 1]
  <2> TAKE r \in 0..(c - 1)
  <2>1. r + 1 \in 1..c /\ (r + 1) - 1 = r
    OBVIOUS
  <2> QED
    BY <1>7, <2>1
<1>10. \A p \in S : L[to[p] + 1] = docs[p + 1]
  BY <1>3, <1>9
<1>11. Rows(L, c) = {[fp |-> docs[p + 1], pos |-> to[p]] : p \in S}
  <2>1. ASSUME NEW e \in Rows(L, c)
        PROVE  e \in {[fp |-> docs[p + 1], pos |-> to[p]] : p \in S}
    <3>1. PICK r \in 0..(c - 1) : e = [fp |-> L[r + 1], pos |-> r]
      BY DEF Rows
    <3> QED
      BY <1>9, <3>1
  <2>2. ASSUME NEW p \in S
        PROVE  [fp |-> docs[p + 1], pos |-> to[p]] \in Rows(L, c)
    BY <1>3, <1>10 DEF Rows
  <2> QED
    BY <2>1, <2>2
<1> QED
  BY <1>1, <1>2, <1>5, <1>8, <1>11

LEMMA RemapGood ==
    ASSUME docs \in Seq(Fingerprint), NEW gone \in SUBSET (0..(Len(docs) - 1)),
           HasRows(table, Len(docs))
    PROVE  \E m : /\ Usable(Remap(gone, To(gone)), m)
                  /\ Entries(Remap(gone, To(gone)))
                       = {[fp |-> docs[p + 1], pos |-> To(gone)[p]] : p \in Stay(gone)}
<1>1. PICK S, to : S = Stay(gone) /\ to = To(gone)
  OBVIOUS
<1>2. PICK c \in Nat : c = Cardinality(S) /\ c = Len(docs) - Cardinality(gone)
  BY <1>1, StayFacts
<1>3. DOMAIN to = S /\ Renumbers(to) /\ IsFiniteSet(S)
  BY <1>1, StayFacts, ToFacts
<1>4. PICK t, n : t = table /\ Usable(t, n) /\ Entries(t) = Rows(docs, Len(docs))
  BY DEF HasRows
<1>5. Good(t, n) /\ IsFiniteSet(Taken(t)) /\ Taken(t) \subseteq 0..(n - 1)
  BY <1>4, GoodFacts DEF Usable
<1>6. PICK room \in Nat : room = Len(docs) - Cardinality(gone) + Slack /\ c <= room
  BY <1>2, SizeAssumption
<1>7. PICK m \in Nat : /\ 2 * room <= m /\ Good(NewTable(room), m)
                       /\ NewTable(room).count = 0 /\ Entries(NewTable(room)) = {}
  BY NewGood
<1>8. PICK into : into = NewTable(room) /\ Taken(into) = {}
  BY <1>7 DEF Entries
<1>9. Remap(gone, To(gone)) = PlaceAll(t, into, to)
  BY <1>1, <1>4, <1>6, <1>8 DEF Remap
<1>10. PICK G : G = Going(t, to) /\ IsFiniteSet(G) /\ G \subseteq Taken(t)
  <2>1. Going(t, to) \subseteq Taken(t)
    BY DEF Going
  <2> QED
    BY <1>5, <2>1, FS_Subset
<1>11. Cardinality(G) \in Nat /\ Cardinality(G) <= c
  <2> DEFINE f == [i \in G |-> t.slots[i].pos]
  <2>1. f \in [G -> S]
    BY <1>3, <1>10 DEF Going
  <2>2. \A i, j \in G : f[i] = f[j] => i = j
    BY <1>5, <1>10 DEF Good, Once
  <2> HIDE DEF f
  <2>3. f \in Injection(G, S)
    BY <2>1, <2>2 DEF Injection, IsInjective
  <2>4. Cardinality(G) <= Cardinality(S)
    BY <1>3, <2>3, FS_Injection
  <2> QED
    BY <1>2, <1>10, <2>4, FS_CardinalityType
<1>12. Cardinality(G) <= m /\ 2 * Cardinality(G) <= m
  BY <1>6, <1>7, <1>11
<1>13. Filled(PlaceAll(t, into, to), m, t, to, G)
  BY <1>3, <1>5, <1>7, <1>8, <1>10, <1>12, PlaceAllGood
<1>14. PICK u : u = PlaceAll(t, into, to)
  OBVIOUS
<1>15. Usable(u, m) /\ Entries(u) = {Moved(t, to, i) : i \in G}
  BY <1>12, <1>13, <1>14 DEF Usable, Filled
<1>16. {Moved(t, to, i) : i \in G} = {[fp |-> docs[p + 1], pos |-> to[p]] : p \in S}
  <2>1. ASSUME NEW i \in G
        PROVE  \E p \in S : Moved(t, to, i) = [fp |-> docs[p + 1], pos |-> to[p]]
    <3>1. t.slots[i] \in Rows(docs, Len(docs)) /\ t.slots[i].pos \in S
      BY <1>3, <1>4, <1>10 DEF Going, Entries
    <3>2. PICK p \in 0..(Len(docs) - 1) : t.slots[i] = [fp |-> docs[p + 1], pos |-> p]
      BY <3>1 DEF Rows
    <3>3. t.slots[i].pos = p /\ t.slots[i].fp = docs[p + 1]
      BY <3>2
    <3> QED
      BY <3>1, <3>3 DEF Moved
  <2>2. ASSUME NEW p \in S
        PROVE  \E i \in G : Moved(t, to, i) = [fp |-> docs[p + 1], pos |-> to[p]]
    <3>1. p \in 0..(Len(docs) - 1)
      BY <1>1 DEF Stay
    <3>2. [fp |-> docs[p + 1], pos |-> p] \in Entries(t)
      BY <1>4, <3>1 DEF Rows
    <3>3. PICK i \in Taken(t) : t.slots[i] = [fp |-> docs[p + 1], pos |-> p]
      BY <3>2 DEF Entries
    <3>4. t.slots[i].pos = p /\ t.slots[i].fp = docs[p + 1]
      BY <3>3
    <3>5. i \in G
      BY <1>3, <1>10, <3>4 DEF Going
    <3> QED
      BY <3>4, <3>5 DEF Moved
  <2> QED
    BY <2>1, <2>2
<1> QED
  BY <1>1, <1>9, <1>14, <1>15, <1>16

-----------------------------------------------------------------------------
\* The inductive invariant

\* IInv, of any values of the variables, and the same by Usable.
Whole(ds, b, t) ==
    /\ ds \in Seq(Fingerprint) /\ b \in BOOLEAN
    /\ TableType(t) /\ Reached(t) /\ Once(t)
    /\ 2 * t.count <= Size(t)
    /\ b => Entries(t) = {[fp |-> ds[p + 1], pos |-> p] : p \in 0..(Len(ds) - 1)}

Sound(ds, b, t) ==
    /\ ds \in Seq(Fingerprint) /\ b \in BOOLEAN
    /\ \E n : Usable(t, n)
    /\ b => Entries(t) = Rows(ds, Len(ds))

LEMMA SoundIsWhole ==
    ASSUME NEW ds, NEW b, NEW t
    PROVE  Sound(ds, b, t) <=> Whole(ds, b, t)
<1>1. ASSUME NEW n, Usable(t, n)
      PROVE  TableType(t) /\ Reached(t) /\ Once(t) /\ 2 * t.count <= Size(t)
  BY <1>1 DEF Usable, Good, TableType
<1>2. ASSUME TableType(t), Reached(t), Once(t), 2 * t.count <= Size(t)
      PROVE  Usable(t, Size(t))
  BY <1>2 DEF Usable, Good, TableType
<1>3. (\E n : Usable(t, n)) <=> TableType(t) /\ Reached(t) /\ Once(t) /\ 2 * t.count <= Size(t)
  BY <1>1, <1>2
<1> QED
  BY <1>3 DEF Sound, Whole, Rows

LEMMA IInvSound ==
    IInv <=> Sound(docs, built, table)
<1>1. IInv <=> Whole(docs, built, table)
  BY DEF IInv, Whole
<1> QED
  BY <1>1, SoundIsWhole

\* The new values of the variables, when they are known.
LEMMA SoundNext ==
    ASSUME NEW ds, NEW b, NEW t, Sound(ds, b, t), docs' = ds, built' = b, table' = t
    PROVE  IInv'
<1>1. Whole(ds, b, t)
  BY SoundIsWhole
<1> QED
  <2>1. Whole(docs', built', table')
    BY <1>1
  <2> QED
    BY <2>1, Zenon DEF IInv, Whole

LEMMA InitSound ==
    Init => IInv
<1> SUFFICES ASSUME Init PROVE IInv
  OBVIOUS
<1>1. PICK n \in Nat : Good(NewTable(0), n) /\ NewTable(0).count = 0
  BY NewGood
<1>2. Usable(NewTable(0), n)
  BY <1>1 DEF Usable
<1>3. <<>> \in Seq(Fingerprint)
  OBVIOUS
<1>4. Sound(docs, built, table)
  BY <1>2, <1>3 DEF Init, Sound
<1> QED
  BY <1>4, IInvSound

\* The table a lookup walks through, built now or before.
LEMMA BuiltSound ==
    ASSUME IInv
    PROVE  HasRows(Built, Len(docs))
<1>1. Sound(docs, built, table)
  BY IInvSound
<1>2. CASE built
  <2>1. Built = table
    BY <1>2 DEF Built
  <2> QED
    BY <1>1, <1>2, <2>1 DEF Sound, HasRows
<1>3. CASE ~built
  BY <1>1, <1>3, BuiltGood DEF Sound
<1> QED
  BY <1>2, <1>3

LEMMA LookUpSound ==
    ASSUME IInv, LookUp
    PROVE  IInv'
<1>1. PICK t, n : t = Built /\ Usable(t, n) /\ Entries(t) = Rows(docs, Len(docs))
  BY BuiltSound DEF HasRows
<1>2. docs \in Seq(Fingerprint)
  BY DEF IInv
<1>3. PICK ds : ds = docs
  OBVIOUS
<1>4. Sound(ds, TRUE, t)
  BY <1>1, <1>2, <1>3 DEF Sound
<1>5. docs' = ds /\ built' = TRUE /\ table' = t
  BY <1>1, <1>3 DEF LookUp
<1> QED
  BY <1>4, <1>5, SoundNext

LEMMA InsertSound ==
    ASSUME IInv, NEW fp \in Fingerprint, NEW supplied \in BOOLEAN, InsertDocument(fp, supplied)
    PROVE  IInv'
<1>1. /\ docs' = Append(docs, fp) /\ built' = (built \/ supplied)
      /\ table' = IF built' THEN Insert(Built, fp, Len(docs)) ELSE table
  BY DEF InsertDocument
<1>2. docs \in Seq(Fingerprint) /\ built \in BOOLEAN /\ Len(docs) \in Nat
  BY DEF IInv
<1>3. PICK ds : ds = Append(docs, fp)
  OBVIOUS
<1>4. /\ ds \in Seq(Fingerprint) /\ Len(ds) = Len(docs) + 1 /\ ds[Len(docs) + 1] = fp
      /\ \A p \in 0..(Len(docs) - 1) : ds[p + 1] = docs[p + 1]
  BY <1>2, <1>3
<1>5. CASE built \/ supplied
  <2>1. PICK t, n : t = Built /\ Usable(t, n) /\ Entries(t) = Rows(docs, Len(docs))
    BY BuiltSound DEF HasRows
  <2>2. PICK k \in Nat : k = Len(docs)
    BY <1>2
  <2> DEFINE old == docs
  <2>3. PICK m : /\ Usable(Insert(t, fp, k), m)
                 /\ Entries(Insert(t, fp, k)) = Rows(old, k) \cup {[fp |-> fp, pos |-> k]}
    BY <2>1, <2>2, InsertRow
  <2>4. Rows(ds, Len(ds)) = Rows(old, k) \cup {[fp |-> fp, pos |-> k]}
    <3>1. 0..((k + 1) - 1) = 0..(k - 1) \cup {k}
      OBVIOUS
    <3>2. Rows(ds, k + 1) = {[fp |-> ds[p + 1], pos |-> p] : p \in 0..(k - 1) \cup {k}}
      BY <3>1 DEF Rows
    <3>3. \A p \in 0..(k - 1) : ds[p + 1] = old[p + 1]
      BY <1>4, <2>2
    <3>4. ds[k + 1] = fp /\ Len(ds) = k + 1
      BY <1>4, <2>2
    <3> QED
      BY <3>2, <3>3, <3>4 DEF Rows
  <2>5. PICK u : u = Insert(t, fp, k)
    OBVIOUS
  <2>6. Sound(ds, TRUE, u)
    BY <1>4, <2>3, <2>4, <2>5 DEF Sound
  <2>7. built' = TRUE /\ table' = u /\ docs' = ds
    BY <1>1, <1>2, <1>3, <1>5, <2>1, <2>2, <2>5
  <2> QED
    BY <2>6, <2>7, SoundNext
<1>6. CASE ~(built \/ supplied)
  <2>1. PICK t, n : t = table /\ Usable(t, n)
    BY IInvSound DEF Sound
  <2>2. Sound(ds, FALSE, t)
    BY <1>4, <2>1 DEF Sound
  <2>3. built' = FALSE /\ table' = t /\ docs' = ds
    BY <1>1, <1>2, <1>3, <1>6, <2>1
  <2> QED
    BY <2>2, <2>3, SoundNext
<1> QED
  BY <1>5, <1>6

LEMMA RemoveSound ==
    ASSUME IInv, NEW gone \in SUBSET (0..(Len(docs) - 1)), RemoveDocuments(gone)
    PROVE  IInv'
<1>1. /\ docs' = Left(gone) /\ built' = built
      /\ table' = IF built THEN Remap(gone, To(gone)) ELSE table
  BY Zenon DEF RemoveDocuments, Left, To, Stay, Before
<1>2. docs \in Seq(Fingerprint) /\ built \in BOOLEAN
  BY DEF IInv
<1>3. PICK ds : ds = Left(gone)
  OBVIOUS
<1>4. /\ ds \in Seq(Fingerprint)
      /\ Rows(ds, Len(ds)) = {[fp |-> docs[p + 1], pos |-> To(gone)[p]] : p \in Stay(gone)}
  BY <1>2, <1>3, LeftFacts
<1>5. CASE built
  <2>1. HasRows(table, Len(docs))
    BY <1>5, IInvSound DEF Sound, HasRows
  <2>2. PICK u, m : /\ u = Remap(gone, To(gone)) /\ Usable(u, m)
                    /\ Entries(u) = {[fp |-> docs[p + 1], pos |-> To(gone)[p]] : p \in Stay(gone)}
    BY <1>2, <2>1, RemapGood
  <2>3. Sound(ds, TRUE, u)
    BY <1>4, <2>2 DEF Sound
  <2>4. built' = TRUE /\ table' = u /\ docs' = ds
    BY <1>1, <1>2, <1>3, <1>5, <2>2
  <2> QED
    BY <2>3, <2>4, SoundNext
<1>6. CASE ~built
  <2>1. PICK t, n : t = table /\ Usable(t, n)
    BY IInvSound DEF Sound
  <2>2. Sound(ds, FALSE, t)
    BY <1>4, <2>1 DEF Sound
  <2>3. built' = FALSE /\ table' = t /\ docs' = ds
    BY <1>1, <1>2, <1>3, <1>6, <2>1
  <2> QED
    BY <2>2, <2>3, SoundNext
<1> QED
  BY <1>5, <1>6

LEMMA NextSound ==
    ASSUME IInv, [Next]_vars
    PROVE  IInv'
<1>1. CASE \E fp \in Fingerprint, supplied \in BOOLEAN : InsertDocument(fp, supplied)
  BY <1>1, InsertSound
<1>2. CASE \E gone \in (SUBSET (0..(Len(docs) - 1))) \ {{}} : RemoveDocuments(gone)
  BY <1>2, RemoveSound
<1>3. CASE LookUp
  BY <1>3, LookUpSound
<1>4. CASE UNCHANGED vars
  <2>1. Sound(docs, built, table) /\ docs' = docs /\ built' = built /\ table' = table
    BY <1>4, IInvSound DEF vars
  <2>2. PICK ds, b, t : ds = docs /\ b = built /\ t = table
    OBVIOUS
  <2> QED
    BY <2>1, <2>2, SoundNext
<1> QED
  BY <1>1, <1>2, <1>3, <1>4 DEF Next

\* The table has the shape its walks rely on: every entry is reached by a walk for
\* its fingerprint, no position is entered twice, at most half of the slots are
\* taken, and a table that has been built has a row for every document.
THEOREM IInvTheorem == Spec => []IInv
<1>1. IInv /\ [Next]_vars => IInv'
  BY NextSound
<1> QED
  BY InitSound, <1>1, PTL DEF Spec

\* However a collection grows and shrinks, count is the number of taken slots and
\* no more than half of them are: insert grows the table before it is too full, and
\* ensureIDTable and remapIDTable make one that is large enough.
THEOREM HalfEmptyTheorem == Spec => []HalfEmpty
<1>1. IInv => HalfEmpty
  BY DEF IInv, HalfEmpty, TableType
<1> QED
  BY <1>1, IInvTheorem, PTL

\* The documents with a fingerprint.
With(ds, fp) == {p \in 0..(Len(ds) - 1) : ds[p + 1] = fp}

\* A walk finds these positions, each one once.
Finds(found, there) ==
    {found[k] : k \in DOMAIN found} = there /\ Cardinality(DOMAIN found) = Cardinality(there)

\* What a walk finds in a table that has exactly the documents' rows.
LEMMA FindsThem ==
    ASSUME NEW ds \in Seq(Fingerprint), NEW t, NEW n, Usable(t, n),
           Entries(t) = Rows(ds, Len(ds)), NEW fp \in Fingerprint,
           NEW found, found = Candidates(t, fp),
           NEW there, there = With(ds, fp)
    PROVE  Finds(found, there)
<1>0. there = {p \in 0..(Len(ds) - 1) : ds[p + 1] = fp}
  BY DEF With
<1>1. /\ n \in Nat \ {0} /\ Good(t, n) /\ Taken(t) \subseteq 0..(n - 1) /\ t.count < n
      /\ \A i \in 0..(n - 1) : t.slots[i] # Empty <=> i \in Taken(t)
      /\ \A f, k : Probe(t, f, k) = (f + k) % n
  <2>1. Good(t, n) /\ 2 * t.count <= n
    BY DEF Usable
  <2>2. t.count \in Nat /\ n \in Nat \ {0}
    BY <2>1, GoodFacts
  <2>3. t.count < n
    BY <2>1, <2>2
  <2> QED
    BY <2>1, <2>2, <2>3, GoodFacts
<1>2. fp \in Nat
  BY FingerprintAssumption
<1>3. PICK m \in 0..(n - 1) : m = ChainLength(t, fp)
  BY <1>1, <1>2, ChainEnds
<1>4. t.slots[Probe(t, fp, m)] = Empty /\ \A k \in 0..(m - 1) : t.slots[Probe(t, fp, k)] # Empty
  BY <1>1, <1>2, <1>3, ChainEnds
<1>5. \A k \in Nat : Probe(t, fp, k) \in 0..(n - 1)
  <2> TAKE k \in Nat
  <2>1. (fp + k) % n \in 0..(n - 1)
    BY <1>1, <1>2, Steps
  <2> QED
    BY <1>1, <2>1
<1> DEFINE hits == {k \in 0..(m - 1) : t.slots[Probe(t, fp, k)].fp = fp}
<1>6. DOMAIN found = hits /\ \A k \in hits : found[k] = t.slots[Probe(t, fp, k)].pos
  BY <1>3 DEF Candidates
<1>7. ASSUME NEW k \in hits
      PROVE  Probe(t, fp, k) \in Taken(t) /\ found[k] \in there
  <2>1. k \in Nat /\ Probe(t, fp, k) \in Taken(t)
    <3>1. k \in 0..(m - 1) /\ k \in Nat
      OBVIOUS
    <3>2. PICK i \in 0..(n - 1) : i = Probe(t, fp, k)
      BY <1>5, <3>1
    <3>3. t.slots[i] # Empty
      BY <1>4, <3>1, <3>2
    <3> QED
      BY <1>1, <3>1, <3>2, <3>3
  <2>2. t.slots[Probe(t, fp, k)] \in Rows(ds, Len(ds))
    BY <2>1 DEF Entries
  <2>3. PICK p \in 0..(Len(ds) - 1) : t.slots[Probe(t, fp, k)] = [fp |-> ds[p + 1], pos |-> p]
    BY <2>2 DEF Rows
  <2>4. found[k] = p /\ ds[p + 1] = fp
    BY <1>6, <2>3
  <2> QED
    BY <1>0, <2>1, <2>4
<1>8. ASSUME NEW p \in there
      PROVE  \E k \in hits : found[k] = p
  <2>1. [fp |-> fp, pos |-> p] \in Entries(t)
    BY <1>0 DEF Rows
  <2>2. PICK i \in Taken(t) : t.slots[i] = [fp |-> fp, pos |-> p]
    BY <2>1 DEF Entries
  <2>3. t.slots[i].fp = fp /\ t.slots[i].pos = p /\ t.slots[i] # Empty
    BY <1>1, <2>2
  <2>4. PICK k \in 0..(n - 1) :
           Probe(t, fp, k) = i /\ \A j \in 0..(k - 1) : t.slots[Probe(t, fp, j)] # Empty
    BY <1>1, <2>3 DEF Good, Reached
  <2>5. m # k
    BY <1>4, <2>3, <2>4
  <2>6. ~(m < k)
    <3> SUFFICES ASSUME m < k PROVE FALSE
      OBVIOUS
    <3>1. m \in 0..(k - 1)
      BY <1>1
    <3> QED
      BY <1>4, <2>4, <3>1
  <2>7. k \in 0..(m - 1)
    BY <1>1, <2>5, <2>6
  <2> QED
    BY <1>6, <2>3, <2>4, <2>7
<1>9. ASSUME NEW j \in hits, NEW k \in hits, found[j] = found[k]
      PROVE  j = k
  <2>1. Probe(t, fp, j) \in Taken(t) /\ Probe(t, fp, k) \in Taken(t)
    BY <1>7
  <2>2. t.slots[Probe(t, fp, j)].pos = t.slots[Probe(t, fp, k)].pos
    BY <1>6, <1>9
  <2>3. Probe(t, fp, j) = Probe(t, fp, k)
    BY <1>1, <2>1, <2>2 DEF Good, Once
  <2>4. (fp + j) % n = (fp + k) % n
    BY <1>1, <2>3
  <2>5. j \in 0..(n - 1) /\ k \in 0..(n - 1)
    BY <1>1
  <2> QED
    BY <1>1, <1>2, <2>4, <2>5, Steps
<1>10. IsFiniteSet(there)
  <2>1. PICK c \in Nat : c = Len(ds)
    OBVIOUS
  <2>2. IsFiniteSet(0..(c - 1))
    BY FS_Interval
  <2>3. there \subseteq 0..(c - 1)
    BY <1>0, <2>1
  <2> QED
    BY <2>2, <2>3, FS_Subset
<1> DEFINE f == [k \in hits |-> found[k]]
<1>11. f \in [hits -> there]
  BY <1>7
<1>12. \A j, k \in hits : f[j] = f[k] => j = k
  BY <1>9
<1>13. \A p \in there : \E k \in hits : f[k] = p
  BY <1>8
<1>14. {found[k] : k \in hits} = there
  BY <1>7, <1>8
<1> HIDE DEF f, hits
<1>15. f \in Injection(hits, there) /\ f \in Surjection(hits, there)
  BY <1>11, <1>12, <1>13 DEF Injection, IsInjective, Surjection
<1>16. Cardinality(hits) = Cardinality(there)
  BY <1>10, <1>15, FS_Injection
<1> QED
  BY <1>6, <1>14, <1>16 DEF Finds

\* In a built table the walk for a fingerprint hands out the position of every
\* document that has it, each one once, and no other: neither the growth of the
\* table, nor the wrap of a walk at its end, nor the rebuild after a removal hides
\* an entry behind an empty slot.
THEOREM LookupIsExactTheorem == Spec => []LookupIsExact
<1>1. IInv => LookupIsExact
  <2> SUFFICES ASSUME IInv, built, NEW fp \in Fingerprint,
                      NEW found, found = Candidates(table, fp),
                      NEW there, there = {p \in 0..(Len(docs) - 1) : docs[p + 1] = fp}
               PROVE  Finds(found, there)
    BY DEF LookupIsExact, Finds
  <2>1. PICK ds, t, n : /\ ds = docs /\ t = table /\ ds \in Seq(Fingerprint)
                        /\ Usable(t, n) /\ Entries(t) = Rows(ds, Len(ds))
    BY IInvSound DEF Sound
  <2>2. found = Candidates(t, fp) /\ there = With(ds, fp)
    BY <2>1 DEF With
  <2> QED
    BY <2>1, <2>2, FindsThem
<1> QED
  BY <1>1, IInvTheorem, PTL
================================================================================
