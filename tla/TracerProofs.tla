----------------------------- MODULE TracerProofs ------------------------------
(***************************************************************************)
(* The cap and the order of the trace file, for any number of goroutines,  *)
(* any cap, any lengths of lines and any number of Opens.                  *)
(***************************************************************************)
EXTENDS Tracer, SequenceTheorems, WellFoundedInduction, TLAPS

-----------------------------------------------------------------------------
\* What the lines of a sequence take

\* A set of numbers that holds 0 and with each number the next one.
LEMMA Climb ==
    ASSUME NEW m \in Nat, NEW S, 0 \in S, \A k \in 0..(m - 1) : k \in S => k + 1 \in S
    PROVE  \A k \in 0..m : k \in S
<1> DEFINE D == {k \in 0..m : k \notin S}
<1>1. ASSUME NEW x \in D PROVE FALSE
  <2>1. PICK k \in D : \A n \in D : ~(<<n, k>> \in OpToRel(<, Nat))
    <3>1. D \subseteq Nat
      OBVIOUS
    <3> HIDE DEF D
    <3> QED
      BY <1>1, <3>1, NatLessThanWellFounded, WFMin
  <2>2. \A n \in D : ~(n < k)
    <3>1. D \subseteq Nat
      OBVIOUS
    <3> HIDE DEF D
    <3> QED
      BY <2>1, <3>1, Zenon DEF OpToRel
  <2>3. k \in 0..m /\ k \notin S /\ k # 0
    BY <2>1
  <2>4. k - 1 \in 0..(m - 1) /\ k - 1 \in 0..m /\ k - 1 < k /\ k = (k - 1) + 1
    BY <2>3
  <2>5. k - 1 \in S
    BY <2>2, <2>4
  <2> QED
    BY <2>3, <2>4, <2>5
<1> QED
  BY <1>1

\* The equation of the sums in Bytes, with g for the function it defines.
BytesStep(s, g, k) == IF k = 0 THEN 0 ELSE g[k - 1] + s[k].length

LEMMA BytesSolvable ==
    ASSUME NEW s, NEW n \in Nat
    PROVE  \E g : g = [k \in 0..n |-> BytesStep(s, g, k)]
<1> DEFINE Solves(g, m) == g = [k \in 0..m |-> BytesStep(s, g, k)]
           S == {m \in Nat : \E g : Solves(g, m)}
<1>1. 0 \in S
  <2> DEFINE g == [k \in 0..0 |-> 0]
  <2>1. Solves(g, 0)
    BY DEF BytesStep
  <2> HIDE DEF g, Solves
  <2> QED
    BY <2>1
<1>2. ASSUME NEW m \in Nat, m \in S
      PROVE  m + 1 \in S
  <2>1. PICK g : Solves(g, m)
    BY <1>2
  <2> DEFINE h == [k \in 0..(m + 1) |-> IF k = m + 1 THEN BytesStep(s, g, k) ELSE g[k]]
  <2>2. \A k \in 0..(m + 1) : k # 0 => k - 1 \in 0..m /\ h[k - 1] = g[k - 1]
    OBVIOUS
  <2>3. \A k \in 0..(m + 1) : BytesStep(s, h, k) = BytesStep(s, g, k)
    <3> HIDE DEF h
    <3> QED
      BY <2>2 DEF BytesStep
  <2>4. \A k \in 0..m : g[k] = BytesStep(s, g, k)
    BY <2>1
  <2>5. \A k \in 0..(m + 1) : h[k] = BytesStep(s, g, k)
    BY <2>4
  <2>6. h = [k \in 0..(m + 1) |-> h[k]]
    OBVIOUS
  <2>7. Solves(h, m + 1)
    <3> HIDE DEF h
    <3> QED
      BY <2>3, <2>5, <2>6
  <2> HIDE DEF h, Solves
  <2> QED
    BY <2>7
<1>3. n \in S
  <2> HIDE DEF S
  <2>1. \A k \in 0..(n - 1) : k \in S => k + 1 \in S
    BY <1>2
  <2>2. \A k \in 0..n : k \in S
    BY <1>1, <2>1, Climb
  <2> QED
    BY <2>2
<1> QED
  BY <1>3

\* The sums in Bytes(s), to any bound.
Sums(s, n) == CHOOSE g : g = [k \in 0..n |-> BytesStep(s, g, k)]

LEMMA SumsFacts ==
    ASSUME NEW s, NEW n \in Nat
    PROVE  /\ n = Len(s) => Bytes(s) = Sums(s, n)[n]
           /\ Sums(s, n)[0] = 0
           /\ \A k \in 1..n : Sums(s, n)[k] = Sums(s, n)[k - 1] + s[k].length
<1>1. PICK g : g = [k \in 0..n |-> BytesStep(s, g, k)]
  BY BytesSolvable
<1>2. Sums(s, n) = [k \in 0..n |-> BytesStep(s, Sums(s, n), k)]
  BY <1>1, Zenon DEF Sums
<1>3. \A k \in 0..n : Sums(s, n)[k] = BytesStep(s, Sums(s, n), k)
  BY <1>2
<1>4. n = Len(s) => Bytes(s) = Sums(s, n)[n]
  BY DEF Bytes, Sums, BytesStep
<1> QED
  BY <1>3, <1>4 DEF BytesStep

LEMMA BytesEmpty ==
    Bytes(<<>>) = 0
<1>1. PICK s : s = <<>>
  OBVIOUS
<1>2. PICK n \in Nat : n = 0 /\ n = Len(s)
  BY <1>1
<1>3. Bytes(s) = Sums(s, n)[n] /\ Sums(s, n)[0] = 0
  BY <1>2, SumsFacts, Zenon
<1>4. Bytes(s) = 0
  BY <1>2, <1>3
<1> QED
  BY <1>1, <1>4

\* One line more takes its length more.
LEMMA BytesAppend ==
    ASSUME NEW T, NEW s \in Seq(T), NEW l \in T
    PROVE  Bytes(Append(s, l)) = Bytes(s) + l.length
<1>1. PICK n \in Nat : n = Len(s)
  OBVIOUS
<1>2. PICK t \in Seq(T) : t = Append(s, l)
  BY AppendProperties
<1>3. Len(t) = n + 1 /\ t[n + 1] = l /\ \A k \in 1..n : t[k] = s[k]
  BY <1>1, <1>2
<1>4. n + 1 \in Nat /\ n + 1 \in 1..(n + 1) /\ (n + 1) - 1 = n
  OBVIOUS
<1> DEFINE S == {k \in Nat : Sums(s, n)[k] = Sums(t, n + 1)[k]}
<1>5. 0 \in S
  BY <1>4, SumsFacts
<1>6. ASSUME NEW k \in 0..(n - 1), k \in S
      PROVE  k + 1 \in S
  <2>1. k + 1 \in 1..n /\ k + 1 \in 1..(n + 1) /\ (k + 1) - 1 = k
    OBVIOUS
  <2>2. Sums(s, n)[k + 1] = Sums(s, n)[k] + s[k + 1].length
    BY <2>1, SumsFacts
  <2>3. Sums(t, n + 1)[k + 1] = Sums(t, n + 1)[k] + t[k + 1].length
    BY <1>4, <2>1, SumsFacts
  <2> QED
    BY <1>3, <1>6, <2>1, <2>2, <2>3
<1> HIDE DEF S
<1>7. \A k \in 0..n : k \in S
  BY <1>5, <1>6, Climb
<1>8. Sums(s, n)[n] = Sums(t, n + 1)[n]
  <2>1. n \in S
    BY <1>7
  <2> QED
    BY <2>1 DEF S
<1>9. Bytes(t) = Sums(t, n + 1)[n + 1] /\ Sums(t, n + 1)[n + 1] = Sums(t, n + 1)[n] + l.length
  BY <1>3, <1>4, SumsFacts
<1>10. Bytes(s) = Sums(s, n)[n]
  BY <1>1, SumsFacts
<1> QED
  BY <1>2, <1>8, <1>9, <1>10

-----------------------------------------------------------------------------
\* Appending to a file

AnyLine == Line \cup {Notice}

\* The lines of s behind the first b.
Run(s, b) == SubSeq(s, b + 1, Len(s))

LEMMA RunAppend ==
    ASSUME NEW s \in Seq(AnyLine), NEW l \in AnyLine, NEW b \in Nat, b <= Len(s)
    PROVE  /\ Run(s, b) \in Seq(AnyLine)
           /\ Run(Append(s, l), b) = Append(Run(s, b), l)
<1>1. PICK n \in Nat : n = Len(s)
  OBVIOUS
<1>2. PICK t \in Seq(AnyLine) : t = Append(s, l)
  BY AppendProperties
<1>3. Len(t) = n + 1 /\ t[n + 1] = l /\ \A k \in 1..n : t[k] = s[k]
  BY <1>1, <1>2
<1>4. /\ Run(s, b) \in Seq(AnyLine) /\ Len(Run(s, b)) = n - b
      /\ \A k \in 1..(n - b) : Run(s, b)[k] = s[b + k]
  <2>1. \A k \in (b + 1)..n : s[k] \in AnyLine
    BY <1>1
  <2>2. b + 1 \in Int /\ n \in Int
    OBVIOUS
  <2>3. /\ SubSeq(s, b + 1, n) \in Seq(AnyLine)
        /\ Len(SubSeq(s, b + 1, n)) = IF b + 1 <= n THEN n - (b + 1) + 1 ELSE 0
        /\ \A k \in 1..(n - (b + 1) + 1) : SubSeq(s, b + 1, n)[k] = s[b + 1 + k - 1]
    BY <2>1, <2>2, SubSeqProperties
  <2> QED
    BY <1>1, <2>3 DEF Run
<1>5. /\ Run(t, b) \in Seq(AnyLine) /\ Len(Run(t, b)) = n + 1 - b
      /\ \A k \in 1..(n + 1 - b) : Run(t, b)[k] = t[b + k]
  <2>1. \A k \in (b + 1)..(n + 1) : t[k] \in AnyLine
    BY <1>3
  <2>2. b + 1 \in Int /\ n + 1 \in Int
    OBVIOUS
  <2>3. /\ SubSeq(t, b + 1, n + 1) \in Seq(AnyLine)
        /\ Len(SubSeq(t, b + 1, n + 1)) = IF b + 1 <= n + 1 THEN n + 1 - (b + 1) + 1 ELSE 0
        /\ \A k \in 1..(n + 1 - (b + 1) + 1) : SubSeq(t, b + 1, n + 1)[k] = t[b + 1 + k - 1]
    BY <2>1, <2>2, SubSeqProperties
  <2> QED
    BY <1>1, <1>3, <2>3 DEF Run
<1>6. PICK r \in Seq(AnyLine) : r = Run(s, b)
  BY <1>4
<1>7. PICK q \in Seq(AnyLine) : q = Run(t, b)
  BY <1>5
<1>8. PICK a \in Seq(AnyLine) : a = Append(r, l)
  BY AppendProperties
<1>9. Len(a) = n - b + 1 /\ a[n - b + 1] = l /\ \A k \in 1..(n - b) : a[k] = r[k]
  BY <1>1, <1>4, <1>6, <1>8
<1>10. \A k \in 1..(n - b + 1) : q[k] = a[k]
  <2> TAKE k \in 1..(n - b + 1)
  <2>1. CASE k = n - b + 1
    BY <1>1, <1>3, <1>5, <1>7, <1>9, <2>1
  <2>2. CASE k # n - b + 1
    <3>1. k \in 1..(n - b) /\ b + k \in 1..n /\ k \in 1..(n + 1 - b)
      BY <1>1, <2>2
    <3>2. q[k] = t[b + k] /\ r[k] = s[b + k] /\ a[k] = r[k] /\ t[b + k] = s[b + k]
      BY <1>3, <1>4, <1>5, <1>6, <1>7, <1>9, <3>1
    <3> QED
      BY <3>2
  <2> QED
    BY <2>1, <2>2
<1>11. q = a
  <2>1. Len(q) = Len(a) /\ Len(q) = n - b + 1
    BY <1>1, <1>5, <1>7, <1>9
  <2> QED
    BY <1>10, <2>1, SeqEqual
<1> QED
  BY <1>2, <1>4, <1>6, <1>7, <1>8, <1>11

LEMMA RunEmpty ==
    ASSUME NEW s \in Seq(AnyLine)
    PROVE  Run(s, Len(s)) = <<>>
<1>1. Len(s) + 1 \in Int /\ Len(s) \in Int /\ Len(s) < Len(s) + 1
  OBVIOUS
<1> QED
  BY <1>1, SubSeqEmpty DEF Run

\* What Capped and CapInv say of a file whose last run starts behind b lines.
FileType == [written : Nat, truncated : BOOLEAN, lines : Seq(AnyLine)]

NoticeLast(r, truncated_) ==
    \A k \in DOMAIN r : r[k] = Notice => truncated_ /\ k = Len(r)

FileCap(f, b) ==
    /\ f \in FileType /\ b <= Len(f.lines)
    /\ f.written = Bytes(Run(f.lines, b)) /\ f.written <= MaxBytes
    /\ NoticeLast(Run(f.lines, b), f.truncated)

\* What WritersInOrder and OrderInv say of the lines of a run.
Own(l) == l.kind \notin {"find", "truncated"}

Ascending(r) ==
    \A j, k \in DOMAIN r : j < k /\ Own(r[j]) /\ Own(r[k]) => r[j].seq < r[k].seq

UpTo(r, n) == \A k \in DOMAIN r : Own(r[k]) => r[k].seq <= n

Below(r, n) == \A k \in DOMAIN r : Own(r[k]) => r[k].seq < n

\* How one line changes a file.
LEMMA EmittedCases ==
    ASSUME NEW f \in FileType, NEW l \in Line
    PROVE  LET e == Emitted(f, l)
           IN  /\ e \in FileType
               /\ \/ f.truncated /\ e = f
                  \/ /\ ~f.truncated /\ e.truncated /\ e.written = f.written
                     /\ e.lines = Append(f.lines, Notice)
                  \/ /\ ~f.truncated /\ ~e.truncated /\ e.written = f.written + l.length
                     /\ e.written <= MaxBytes /\ e.lines = Append(f.lines, l)
<1>1. l.length \in Nat /\ l \in AnyLine /\ Notice \in AnyLine
  BY LengthAssumption DEF Line, AnyLine
<1>2. f.written \in Nat /\ f.truncated \in BOOLEAN /\ f.lines \in Seq(AnyLine)
  BY DEF FileType
<1>3. f = [written |-> f.written, truncated |-> f.truncated, lines |-> f.lines]
  BY DEF FileType
<1>4. Append(f.lines, Notice) \in Seq(AnyLine) /\ Append(f.lines, l) \in Seq(AnyLine)
  BY <1>1, <1>2, AppendProperties
<1>5. CASE f.truncated
  <2>1. Emitted(f, l) = f
    BY <1>5 DEF Emitted
  <2> QED
    BY <1>5, <2>1
<1>6. CASE ~f.truncated /\ OverCap(f.written, l.length)
  <2>1. Emitted(f, l) = AtCap(f)
    BY <1>6 DEF Emitted
  <2>2. AtCap(f) = [written |-> f.written, truncated |-> TRUE, lines |-> Append(f.lines, Notice)]
    <3>1. AtCap(f) \in [written : Nat, truncated : BOOLEAN, lines : Seq(AnyLine)]
      BY <1>2, <1>4 DEF AtCap, FileType
    <3>2. AtCap(f).written = f.written /\ AtCap(f).truncated = TRUE
          /\ AtCap(f).lines = Append(f.lines, Notice)
      BY DEF AtCap, FileType
    <3> QED
      BY <3>1, <3>2
  <2> QED
    BY <1>2, <1>4, <1>6, <2>1, <2>2 DEF FileType
<1>7. CASE ~f.truncated /\ ~OverCap(f.written, l.length)
  <2>1. Emitted(f, l) = [f EXCEPT !.written = @ + l.length, !.lines = Append(@, l)]
    BY <1>7 DEF Emitted
  <2>2. Emitted(f, l) = [written |-> f.written + l.length, truncated |-> f.truncated,
                         lines |-> Append(f.lines, l)]
    BY <1>3, <2>1 DEF FileType
  <2>3. f.written + l.length <= MaxBytes /\ f.written + l.length \in Nat
    BY <1>1, <1>2, <1>7, BoundAssumption DEF OverCap
  <2> QED
    BY <1>2, <1>4, <1>7, <2>2, <2>3 DEF FileType
<1> QED
  BY <1>2, <1>5, <1>6, <1>7

LEMMA EmittedCap ==
    ASSUME NEW f, NEW b \in Nat, NEW l \in Line, FileCap(f, b)
    PROVE  FileCap(Emitted(f, l), b)
<1>1. f \in FileType /\ b <= Len(f.lines)
  BY DEF FileCap
<1>2. PICK e : e = Emitted(f, l)
  OBVIOUS
<1>3. /\ e \in FileType
      /\ \/ f.truncated /\ e = f
         \/ /\ ~f.truncated /\ e.truncated /\ e.written = f.written
            /\ e.lines = Append(f.lines, Notice)
         \/ /\ ~f.truncated /\ ~e.truncated /\ e.written = f.written + l.length
            /\ e.written <= MaxBytes /\ e.lines = Append(f.lines, l)
  BY <1>1, <1>2, EmittedCases
<1>4. l \in AnyLine /\ Notice \in AnyLine /\ l # Notice /\ Notice.length = 0
  BY LengthAssumption DEF AnyLine, Line, Notice, Kind
<1>5. PICK s \in Seq(AnyLine) : s = f.lines
  BY <1>1 DEF FileType
<1>6. PICK r \in Seq(AnyLine) : r = Run(s, b)
  BY <1>1, <1>4, <1>5, RunAppend
<1>7. /\ Bytes(r) = f.written /\ f.written \in Nat /\ f.written <= MaxBytes
      /\ NoticeLast(r, f.truncated)
  BY <1>5, <1>6 DEF FileCap, FileType
<1>8. CASE f.truncated /\ e = f
  BY <1>2, <1>8
<1>9. ASSUME NEW n \in AnyLine, e.lines = Append(s, n), ~f.truncated,
             n = Notice => e.truncated
      PROVE  /\ b <= Len(e.lines) /\ Bytes(Run(e.lines, b)) = f.written + n.length
             /\ NoticeLast(Run(e.lines, b), e.truncated)
  <2>1. Run(e.lines, b) = Append(r, n) /\ Len(e.lines) = Len(s) + 1
    BY <1>1, <1>5, <1>6, <1>9, RunAppend
  <2>2. b <= Len(e.lines)
    BY <1>1, <1>5, <2>1
  <2>3. Bytes(Append(r, n)) = f.written + n.length
    BY <1>7, BytesAppend
  <2>4. PICK a \in Seq(AnyLine) : a = Append(r, n)
    BY AppendProperties
  <2>5. Len(a) = Len(r) + 1 /\ a[Len(r) + 1] = n /\ \A k \in 1..Len(r) : a[k] = r[k]
    BY <2>4
  <2>6. NoticeLast(a, e.truncated)
    <3>1. \A k \in 1..Len(r) : r[k] # Notice
      BY <1>7, <1>9 DEF NoticeLast
    <3>2. ASSUME NEW k \in DOMAIN a, a[k] = Notice
          PROVE  e.truncated /\ k = Len(a)
      <4>1. k \in 1..(Len(r) + 1)
        BY <2>5
      <4>2. k = Len(r) + 1
        BY <2>5, <3>1, <3>2, <4>1
      <4> QED
        BY <1>9, <2>5, <3>2, <4>2
    <3> QED
      BY <3>2 DEF NoticeLast
  <2> QED
    BY <2>1, <2>2, <2>3, <2>4, <2>6
<1>10. CASE e.truncated /\ ~f.truncated /\ e.written = f.written /\ e.lines = Append(f.lines, Notice)
  <2>1. /\ b <= Len(e.lines) /\ Bytes(Run(e.lines, b)) = f.written + 0
        /\ NoticeLast(Run(e.lines, b), e.truncated)
    BY <1>4, <1>5, <1>9, <1>10
  <2> QED
    <3>1. f.written + 0 = e.written /\ e.written <= MaxBytes
      BY <1>7, <1>10
    <3> QED
      BY <1>2, <1>3, <2>1, <3>1 DEF FileCap
<1>11. CASE /\ ~f.truncated /\ e.written = f.written + l.length
            /\ e.written <= MaxBytes /\ e.lines = Append(f.lines, l)
  <2>1. /\ b <= Len(e.lines) /\ Bytes(Run(e.lines, b)) = f.written + l.length
        /\ NoticeLast(Run(e.lines, b), e.truncated)
    BY <1>4, <1>5, <1>9, <1>11
  <2> QED
    BY <1>2, <1>3, <1>11, <2>1 DEF FileCap
<1> QED
  BY <1>3, <1>8, <1>10, <1>11

\* A line appended to a run, with a number above those of the run's own lines if
\* it is one of them.
LEMMA AscendingAppend ==
    ASSUME NEW r \in Seq(AnyLine), NEW n \in AnyLine, Ascending(r),
           Own(n) => Below(r, n.seq)
    PROVE  /\ Ascending(Append(r, n))
           /\ \A m : UpTo(r, m) /\ (Own(n) => n.seq <= m) => UpTo(Append(r, n), m)
           /\ \A m : Below(r, m) /\ (Own(n) => n.seq < m) => Below(Append(r, n), m)
<1>1. PICK a \in Seq(AnyLine) : a = Append(r, n)
  BY AppendProperties
<1>2. Len(a) = Len(r) + 1 /\ a[Len(r) + 1] = n /\ \A k \in 1..Len(r) : a[k] = r[k]
  BY <1>1
<1>3. \A k \in DOMAIN a : (k \in DOMAIN r /\ a[k] = r[k]) \/ (k = Len(r) + 1 /\ a[k] = n)
  BY <1>2
<1>4. Ascending(a)
  <2> SUFFICES ASSUME NEW j \in DOMAIN a, NEW k \in DOMAIN a, j < k, Own(a[j]), Own(a[k])
               PROVE  a[j].seq < a[k].seq
    BY DEF Ascending
  <2>1. j \in 1..Len(r) /\ j \in DOMAIN r /\ a[j] = r[j]
    BY <1>2
  <2>2. CASE k \in DOMAIN r /\ a[k] = r[k]
    BY <2>1, <2>2 DEF Ascending
  <2>3. CASE k = Len(r) + 1 /\ a[k] = n
    BY <2>1, <2>3 DEF Below
  <2> QED
    BY <1>3, <2>2, <2>3
<1>5. ASSUME NEW m, UpTo(r, m), Own(n) => n.seq <= m
      PROVE  UpTo(a, m)
  BY <1>3, <1>5, Zenon DEF UpTo
<1>6. ASSUME NEW m, Below(r, m), Own(n) => n.seq < m
      PROVE  Below(a, m)
  BY <1>3, <1>6, Zenon DEF Below
<1> QED
  BY <1>1, <1>4, <1>5, <1>6

LEMMA EmittedOrder ==
    ASSUME NEW f, NEW b \in Nat, NEW l \in Line, FileCap(f, b),
           Ascending(Run(f.lines, b)), Own(l) => Below(Run(f.lines, b), l.seq)
    PROVE  LET r == Run(f.lines, b)
               q == Run(Emitted(f, l).lines, b)
           IN  /\ Ascending(q)
               /\ \A m : UpTo(r, m) /\ (Own(l) => l.seq <= m) => UpTo(q, m)
               /\ \A m : Below(r, m) /\ (Own(l) => l.seq < m) => Below(q, m)
<1>1. f \in FileType /\ b <= Len(f.lines)
  BY DEF FileCap
<1>2. PICK e : e = Emitted(f, l)
  OBVIOUS
<1>3. e.lines = f.lines \/ e.lines = Append(f.lines, Notice) \/ e.lines = Append(f.lines, l)
  BY <1>1, <1>2, EmittedCases
<1>4. l \in AnyLine /\ Notice \in AnyLine /\ ~Own(Notice)
  BY DEF AnyLine, Notice, Own
<1>5. PICK s \in Seq(AnyLine) : s = f.lines
  BY <1>1 DEF FileType
<1>6. PICK r \in Seq(AnyLine) : r = Run(s, b)
  BY <1>1, <1>4, <1>5, RunAppend
<1>7. Run(Append(s, Notice), b) = Append(r, Notice) /\ Run(Append(s, l), b) = Append(r, l)
  BY <1>1, <1>4, <1>5, <1>6, RunAppend
<1>8. CASE e.lines = f.lines
  BY <1>2, <1>8
<1>9. CASE e.lines = Append(f.lines, Notice)
  <2>1. /\ Ascending(Append(r, Notice))
        /\ \A m : UpTo(r, m) => UpTo(Append(r, Notice), m)
        /\ \A m : Below(r, m) => Below(Append(r, Notice), m)
    BY <1>4, <1>5, <1>6, AscendingAppend
  <2> QED
    BY <1>2, <1>5, <1>6, <1>7, <1>9, <2>1
<1>10. CASE e.lines = Append(f.lines, l)
  <2>1. /\ Ascending(Append(r, l))
        /\ \A m : UpTo(r, m) /\ (Own(l) => l.seq <= m) => UpTo(Append(r, l), m)
        /\ \A m : Below(r, m) /\ (Own(l) => l.seq < m) => Below(Append(r, l), m)
    BY <1>4, <1>5, <1>6, AscendingAppend
  <2> QED
    BY <1>2, <1>5, <1>6, <1>7, <1>10, <2>1
<1> QED
  BY <1>3, <1>8, <1>9, <1>10

-----------------------------------------------------------------------------
\* The invariant

Places == {"out", "running", "enabled", "numbered", "emitting", "traced", "shut"}
Ops == {"none", "write", "find", "close"}

\* TypeOK without the bounds of the model, which only keep the state space small.
Types ==
    /\ attached \in BOOLEAN /\ shut \in BOOLEAN
    /\ seq \in Nat
    /\ op \in [Goroutine -> Ops]
    /\ todo \in [Goroutine -> Seq(Kind)]
    /\ at \in [Goroutine -> Places]
    /\ number \in [Goroutine -> Nat]
    /\ before \in Nat

FileNow == [written |-> written, truncated |-> truncated, lines |-> lines]

OrderNow ==
    /\ Ascending(Recent) /\ UpTo(Recent, seq)
    /\ \A g \in Goroutine :
         /\ Locked(g) /\ at[g] \in {"numbered", "emitting"} => Below(Recent, number[g])
         /\ number[g] <= seq

Inv == Types /\ FileCap(FileNow, before) /\ CallInv /\ OrderNow

\* What CallInv says of one goroutine.
OneCall(o, p, t, n, there) ==
    /\ o \in {"write", "close"} => there
    /\ (p = "out") <=> (o = "none")
    /\ o = "find" => \A k \in DOMAIN t : t[k] = "find"
    /\ o \in {"write", "close"} => \A k \in DOMAIN t : t[k] # "find"
    /\ p \in {"running", "enabled", "numbered", "emitting"} => t # <<>>
    /\ p \in {"traced", "shut"} => o = "close"
    /\ p \notin {"numbered", "emitting"} => n = 0

LEMMA CallInvParts ==
    CallInv <=> /\ \A g, h \in Goroutine : Locked(g) /\ Locked(h) => g = h
                /\ \A g \in Goroutine : OneCall(op[g], at[g], todo[g], number[g], attached)
BY Zenon DEF CallInv, OneCall, Locked

\* A step of one goroutine, to o, p, t and n: CallInv holds afterwards if it holds
\* of that goroutine, and if the goroutine has db.mu to itself when it takes it or
\* takes the tracer away.
LEMMA CallStep ==
    ASSUME NEW g \in Goroutine, NEW o \in Ops, NEW p \in Places, NEW t \in Seq(Kind), NEW n \in Nat,
           Types, CallInv,
           op' = [op EXCEPT ![g] = o], at' = [at EXCEPT ![g] = p],
           todo' = [todo EXCEPT ![g] = t], number' = [number EXCEPT ![g] = n],
           OneCall(o, p, t, n, attached'),
           o \in {"write", "close"} \/ attached' # attached =>
              \A h \in Goroutine \ {g} : ~Locked(h)
    PROVE  /\ CallInv'
           /\ op' \in [Goroutine -> Ops] /\ at' \in [Goroutine -> Places]
           /\ todo' \in [Goroutine -> Seq(Kind)] /\ number' \in [Goroutine -> Nat]
<1>1. /\ op' \in [Goroutine -> Ops] /\ at' \in [Goroutine -> Places]
      /\ todo' \in [Goroutine -> Seq(Kind)] /\ number' \in [Goroutine -> Nat]
  BY DEF Types
<1>2. \A h \in Goroutine \ {g} :
        op'[h] = op[h] /\ at'[h] = at[h] /\ todo'[h] = todo[h] /\ number'[h] = number[h]
  BY DEF Types
<1>3. op'[g] = o /\ at'[g] = p /\ todo'[g] = t /\ number'[g] = n
  BY DEF Types
<1>4. \A h, i \in Goroutine : Locked(h)' /\ Locked(i)' => h = i
  <2>1. \A h \in Goroutine \ {g} : Locked(h)' <=> Locked(h)
    BY <1>2 DEF Locked
  <2>2. Locked(g)' => \A h \in Goroutine \ {g} : ~Locked(h)
    BY <1>3 DEF Locked
  <2>3. \A h, i \in Goroutine : Locked(h) /\ Locked(i) => h = i
    BY DEF CallInv
  <2> QED
    BY <2>1, <2>2, <2>3, Zenon
<1>5. \A h \in Goroutine : OneCall(op'[h], at'[h], todo'[h], number'[h], attached')
  <2> TAKE h \in Goroutine
  <2>1. CASE h = g
    BY <1>3, <2>1, Zenon
  <2>2. CASE h # g
    <3>1. OneCall(op[h], at[h], todo[h], number[h], attached)
      BY CallInvParts
    <3>2. OneCall(op[h], at[h], todo[h], number[h], attached')
      <4>1. CASE attached' = attached
        BY <3>1, <4>1, Zenon
      <4>2. CASE attached' # attached
        <5>1. ~(op[h] \in {"write", "close"})
          BY <2>2, <4>2 DEF Locked
        <5> QED
          BY <3>1, <5>1, Zenon DEF OneCall
      <4> QED
        BY <4>1, <4>2
    <3> QED
      BY <1>2, <2>2, <3>2, Zenon
  <2> QED
    BY <2>1, <2>2
<1>6. CallInv'
  BY <1>4, <1>5, Zenon DEF CallInv, OneCall, Locked
<1> QED
  BY <1>1, <1>6

\* The order, after a step of one goroutine.
LEMMA OrderStep ==
    ASSUME NEW g \in Goroutine, Types, OrderNow, NEW r, r = Recent',
           \A h \in Goroutine \ {g} :
              op'[h] = op[h] /\ at'[h] = at[h] /\ number'[h] = number[h],
           seq' \in Nat, seq <= seq', number'[g] \in Nat, number'[g] <= seq',
           Ascending(r), UpTo(r, seq'),
           op'[g] \in {"write", "close"} /\ at'[g] \in {"numbered", "emitting"} =>
              Below(r, number'[g]),
           \A h \in Goroutine \ {g} :
              Locked(h) /\ at[h] \in {"numbered", "emitting"} => Below(r, number[h])
    PROVE  OrderNow'
<1>1. Ascending(r) /\ UpTo(r, seq')
  OBVIOUS
<1>2. ASSUME NEW h \in Goroutine
      PROVE  /\ op'[h] \in {"write", "close"} /\ at'[h] \in {"numbered", "emitting"} =>
                   Below(r, number'[h])
             /\ number'[h] <= seq'
  <2>1. CASE h = g
    BY <2>1
  <2>2. CASE h # g
    <3>1. number[h] \in Nat /\ number[h] <= seq /\ seq \in Nat
      BY DEF Types, OrderNow
    <3>2. number[h] <= seq'
      BY <3>1
    <3>3. op'[h] = op[h] /\ at'[h] = at[h] /\ number'[h] = number[h]
      BY <2>2
    <3>4. op[h] \in {"write", "close"} /\ at[h] \in {"numbered", "emitting"} => Below(r, number[h])
      BY <2>2 DEF Locked
    <3> QED
      BY <3>2, <3>3, <3>4, Zenon
  <2> QED
    BY <2>1, <2>2
<1> QED
  BY <1>1, <1>2, Zenon DEF OrderNow, Ascending, UpTo, Below, Locked

\* A step that leaves the file and the numbers alone.
LEMMA SameFile ==
    ASSUME NEW g \in Goroutine, Types, OrderNow, FileCap(FileNow, before),
           UNCHANGED <<seq, written, truncated, lines, before>>,
           \A h \in Goroutine \ {g} :
              op'[h] = op[h] /\ at'[h] = at[h] /\ number'[h] = number[h],
           \/ number'[g] = 0 /\ at'[g] \notin {"numbered", "emitting"}
           \/ number'[g] = number[g] /\ at[g] = "numbered" /\ at'[g] = "emitting" /\ op'[g] = op[g]
    PROVE  OrderNow' /\ FileCap(FileNow, before)'
<1>1. FileCap(FileNow, before)'
  BY Zenon DEF FileCap, FileNow
<1>2. PICK r : r = Recent
  OBVIOUS
<1>3. r = Recent'
  BY <1>2 DEF Recent
<1>4. /\ seq' \in Nat /\ seq <= seq' /\ number[g] \in Nat /\ number[g] <= seq
      /\ 0 \in Nat /\ 0 <= seq /\ seq' = seq
  BY DEF Types, OrderNow
<1>5. Ascending(r) /\ UpTo(r, seq')
  BY <1>2, Zenon DEF OrderNow
<1>6. op'[g] \in {"write", "close"} /\ at'[g] \in {"numbered", "emitting"} =>
         Below(r, number'[g])
  BY <1>2 DEF OrderNow, Locked
<1>7. \A h \in Goroutine \ {g} :
         Locked(h) /\ at[h] \in {"numbered", "emitting"} => Below(r, number[h])
  BY <1>2 DEF OrderNow
<1>8. number'[g] \in Nat /\ number'[g] <= seq'
  BY <1>4
<1>9. OrderNow'
  BY <1>3, <1>4, <1>5, <1>6, <1>7, <1>8, OrderStep
<1> QED
  BY <1>1, <1>9

\* A line is traced, or it is not since there is no tracer.
LEMMA TracedStep ==
    ASSUME NEW g \in Goroutine, Types, CallInv, Traced(g), attached' = attached,
           at[g] \in {"running", "numbered", "emitting"}
    PROVE  /\ CallInv'
           /\ op' \in [Goroutine -> Ops] /\ at' \in [Goroutine -> Places]
           /\ todo' \in [Goroutine -> Seq(Kind)] /\ number' \in [Goroutine -> Nat]
           /\ number'[g] = 0 /\ at'[g] \notin {"numbered", "emitting"}
           /\ \A h \in Goroutine \ {g} :
                 op'[h] = op[h] /\ at'[h] = at[h] /\ number'[h] = number[h]
<1>1. PICK t \in Seq(Kind) : t = todo[g]
  BY DEF Types
<1>2. OneCall(op[g], at[g], t, number[g], attached)
  BY <1>1, CallInvParts
<1>3. t # <<>> /\ op[g] \in Ops /\ op[g] # "none" /\ attached \in BOOLEAN
  BY <1>2 DEF OneCall, Types
<1>4. PICK u \in Seq(Kind) : u = Tail(t)
  BY <1>3, HeadTailProperties
<1>5. Len(u) = Len(t) - 1 /\ (\A k \in 1..Len(u) : u[k] = t[k + 1]) /\ Len(t) \in Nat
  BY <1>3, <1>4, HeadTailProperties
<1>6. /\ op[g] = "find" => \A k \in DOMAIN u : u[k] = "find"
      /\ op[g] \in {"write", "close"} => \A k \in DOMAIN u : u[k] # "find"
  <2>1. \A k \in DOMAIN u : u[k] = t[k + 1] /\ k + 1 \in DOMAIN t
    BY <1>5
  <2> QED
    BY <1>2, <2>1 DEF OneCall
<1>7. todo' = [todo EXCEPT ![g] = u] /\ number' = [number EXCEPT ![g] = 0]
  BY <1>1, <1>4 DEF Traced
<1>8. PICK o \in Ops, p \in Places :
        /\ op' = [op EXCEPT ![g] = o] /\ at' = [at EXCEPT ![g] = p]
        /\ \/ o = op[g] /\ p = "running" /\ Len(t) > 1
           \/ o = op[g] /\ p = "traced" /\ o = "close"
           \/ o = "none" /\ p = "out"
  <2>1. op = [op EXCEPT ![g] = op[g]]
    BY DEF Types
  <2>2. CASE Len(t) > 1
    BY <1>1, <1>3, <2>1, <2>2 DEF Traced, Goes, Places
  <2>3. CASE ~(Len(t) > 1) /\ op[g] = "close"
    BY <1>1, <1>3, <2>1, <2>3 DEF Traced, Goes, Places
  <2>4. CASE ~(Len(t) > 1) /\ op[g] # "close"
    BY <1>1, <2>4 DEF Traced, Goes, Places, Ops
  <2> QED
    BY <2>2, <2>3, <2>4
<1>9. p = "running" => u # <<>>
  BY <1>5, <1>8
<1>10. OneCall(o, p, u, 0, attached')
  BY <1>2, <1>3, <1>6, <1>8, <1>9 DEF OneCall
<1>11. o \in {"write", "close"} => \A h \in Goroutine \ {g} : ~Locked(h)
  <2>1. o \in {"write", "close"} => Locked(g)
    BY <1>8 DEF Locked
  <2> QED
    BY <2>1 DEF CallInv
<1>12. /\ CallInv'
       /\ op' \in [Goroutine -> Ops] /\ at' \in [Goroutine -> Places]
       /\ todo' \in [Goroutine -> Seq(Kind)] /\ number' \in [Goroutine -> Nat]
  BY <1>7, <1>8, <1>10, <1>11, CallStep
<1>13. /\ number'[g] = 0 /\ at'[g] \notin {"numbered", "emitting"}
       /\ \A h \in Goroutine \ {g} :
             op'[h] = op[h] /\ at'[h] = at[h] /\ number'[h] = number[h]
  BY <1>7, <1>8 DEF Types
<1> QED
  BY <1>12, <1>13

-----------------------------------------------------------------------------
\* The steps

LEMMA BeginStep ==
    ASSUME Inv, NEW g \in Goroutine, NEW o \in {"write", "find", "close"}, Begin(g, o)
    PROVE  Inv'
<1>1. Types /\ FileCap(FileNow, before) /\ CallInv /\ OrderNow
  BY DEF Inv
<1>2. PICK t \in CallKinds(o) : todo' = [todo EXCEPT ![g] = t]
  BY DEF Begin
<1>3. /\ t \in Seq(Kind) /\ t # <<>>
      /\ o = "find" => \A k \in DOMAIN t : t[k] = "find"
      /\ o # "find" => \A k \in DOMAIN t : t[k] # "find"
  <2>1. \A a \in Kind : /\ <<a>> \in Seq(Kind) /\ <<a>> # <<>>
                         /\ \A k \in DOMAIN <<a>> : <<a>>[k] = a
    OBVIOUS
  <2>2. \A a, b \in Kind : /\ <<a, b>> \in Seq(Kind) /\ <<a, b>> # <<>>
                            /\ \A k \in DOMAIN <<a, b>> : <<a, b>>[k] \in {a, b}
    OBVIOUS
  <2>3. {"write", "sync", "find", "close"} \subseteq Kind
    BY DEF Kind
  <2>4. CASE o = "write"
    <3>1. t = <<"write">> \/ t = <<"sync", "write">> \/ t = <<"sync">>
      BY <1>2, <2>4 DEF CallKinds
    <3>2. t \in Seq(Kind) /\ t # <<>> /\ \A k \in DOMAIN t : t[k] \in {"sync", "write"}
      <4>1. CASE t = <<"write">>
        BY <2>1, <2>3, <4>1
      <4>2. CASE t = <<"sync", "write">>
        BY <2>2, <2>3, <4>2
      <4>3. CASE t = <<"sync">>
        BY <2>1, <2>3, <4>3
      <4> QED
        BY <3>1, <4>1, <4>2, <4>3
    <3> QED
      BY <2>4, <3>2
  <2>5. CASE o # "write"
    <3>1. t = <<o>> /\ o \in {"find", "close"}
      BY <1>2, <2>5 DEF CallKinds
    <3> QED
      BY <2>1, <2>3, <3>1
  <2> QED
    BY <2>4, <2>5
<1>4. op' = [op EXCEPT ![g] = o] /\ at' = [at EXCEPT ![g] = "running"]
  BY DEF Begin, Goes
<1>5. number' = [number EXCEPT ![g] = 0]
  <2>1. number[g] = 0 /\ number' = number
    BY <1>1, CallInvParts DEF Begin, OneCall
  <2> QED
    BY <1>1, <2>1 DEF Types
<1>6. attached' = attached
  BY DEF Begin
<1>7. o \in {"write", "close"} => attached /\ \A h \in Goroutine : ~Locked(h)
  BY DEF Begin
<1>8. OneCall(o, "running", t, 0, attached')
  BY <1>3, <1>6, <1>7 DEF OneCall
<1>9. o \in Ops /\ "running" \in Places /\ 0 \in Nat
  BY DEF Ops, Places
<1>10. /\ CallInv'
       /\ op' \in [Goroutine -> Ops] /\ at' \in [Goroutine -> Places]
       /\ todo' \in [Goroutine -> Seq(Kind)] /\ number' \in [Goroutine -> Nat]
  BY <1>1, <1>2, <1>3, <1>4, <1>5, <1>6, <1>7, <1>8, <1>9, CallStep
<1>11. /\ number'[g] = 0 /\ at'[g] \notin {"numbered", "emitting"}
       /\ \A h \in Goroutine \ {g} :
             op'[h] = op[h] /\ at'[h] = at[h] /\ number'[h] = number[h]
  BY <1>1, <1>4, <1>5 DEF Types
<1>12. UNCHANGED <<shut, seq, written, truncated, lines, before>>
  BY DEF Begin, tracer
<1>13. OrderNow' /\ FileCap(FileNow, before)'
  BY <1>1, <1>11, <1>12, SameFile
<1>14. Types'
  BY <1>1, <1>6, <1>10, <1>12 DEF Types
<1> QED
  BY <1>10, <1>13, <1>14 DEF Inv

LEMMA EnabledStep ==
    ASSUME Inv, NEW g \in Goroutine, Enabled(g)
    PROVE  Inv'
<1>1. Types /\ FileCap(FileNow, before) /\ CallInv /\ OrderNow
  BY DEF Inv
<1>2. at[g] = "running" /\ attached' = attached
  BY DEF Enabled
<1>3. UNCHANGED <<shut, seq, written, truncated, lines, before>>
  BY DEF Enabled, tracer
<1>4. /\ CallInv'
      /\ op' \in [Goroutine -> Ops] /\ at' \in [Goroutine -> Places]
      /\ todo' \in [Goroutine -> Seq(Kind)] /\ number' \in [Goroutine -> Nat]
      /\ number'[g] = 0 /\ at'[g] \notin {"numbered", "emitting"}
      /\ \A h \in Goroutine \ {g} :
            op'[h] = op[h] /\ at'[h] = at[h] /\ number'[h] = number[h]
  <2>1. CASE attached
    <3>1. /\ op' = [op EXCEPT ![g] = op[g]] /\ at' = [at EXCEPT ![g] = "enabled"]
          /\ todo' = [todo EXCEPT ![g] = todo[g]] /\ number' = [number EXCEPT ![g] = number[g]]
      BY <1>1, <2>1 DEF Enabled, Goes, Types
    <3>2. OneCall(op[g], "running", todo[g], number[g], attached)
      BY <1>1, <1>2, CallInvParts
    <3>3. OneCall(op[g], "enabled", todo[g], number[g], attached')
      BY <1>2, <3>2 DEF OneCall
    <3>4. op[g] \in Ops /\ "enabled" \in Places /\ todo[g] \in Seq(Kind) /\ number[g] \in Nat
      BY <1>1 DEF Types, Places
    <3>5. op[g] \in {"write", "close"} => \A h \in Goroutine \ {g} : ~Locked(h)
      BY <1>1 DEF CallInv, Locked
    <3>6. /\ CallInv'
          /\ op' \in [Goroutine -> Ops] /\ at' \in [Goroutine -> Places]
          /\ todo' \in [Goroutine -> Seq(Kind)] /\ number' \in [Goroutine -> Nat]
      BY <1>1, <1>2, <3>1, <3>3, <3>4, <3>5, CallStep
    <3>7. number[g] = 0
      BY <3>2 DEF OneCall
    <3> QED
      BY <1>1, <3>1, <3>6, <3>7 DEF Types
  <2>2. CASE ~attached
    <3>1. Traced(g)
      BY <2>2 DEF Enabled
    <3> QED
      BY <1>1, <1>2, <3>1, TracedStep
  <2> QED
    BY <2>1, <2>2
<1>5. OrderNow' /\ FileCap(FileNow, before)'
  BY <1>1, <1>3, <1>4, SameFile
<1>6. Types'
  BY <1>1, <1>2, <1>3, <1>4 DEF Types
<1> QED
  BY <1>4, <1>5, <1>6 DEF Inv

LEMMA EmitStep ==
    ASSUME Inv, NEW g \in Goroutine, Emit(g)
    PROVE  Inv'
<1>1. Types /\ FileCap(FileNow, before) /\ CallInv /\ OrderNow
  BY DEF Inv
<1>2. at[g] = "numbered" /\ attached' = attached
  BY DEF Emit
<1>3. UNCHANGED <<shut, seq, written, truncated, lines, before>>
  BY DEF Emit, tracer
<1>4. /\ CallInv'
      /\ op' \in [Goroutine -> Ops] /\ at' \in [Goroutine -> Places]
      /\ todo' \in [Goroutine -> Seq(Kind)] /\ number' \in [Goroutine -> Nat]
      /\ \/ number'[g] = 0 /\ at'[g] \notin {"numbered", "emitting"}
         \/ number'[g] = number[g] /\ at[g] = "numbered" /\ at'[g] = "emitting" /\ op'[g] = op[g]
      /\ \A h \in Goroutine \ {g} :
            op'[h] = op[h] /\ at'[h] = at[h] /\ number'[h] = number[h]
  <2>1. CASE attached
    <3>1. /\ op' = [op EXCEPT ![g] = op[g]] /\ at' = [at EXCEPT ![g] = "emitting"]
          /\ todo' = [todo EXCEPT ![g] = todo[g]] /\ number' = [number EXCEPT ![g] = number[g]]
      BY <1>1, <2>1 DEF Emit, Goes, Types
    <3>2. OneCall(op[g], "numbered", todo[g], number[g], attached)
      BY <1>1, <1>2, CallInvParts
    <3>3. OneCall(op[g], "emitting", todo[g], number[g], attached')
      BY <1>2, <3>2 DEF OneCall
    <3>4. op[g] \in Ops /\ "emitting" \in Places /\ todo[g] \in Seq(Kind) /\ number[g] \in Nat
      BY <1>1 DEF Types, Places
    <3>5. op[g] \in {"write", "close"} => \A h \in Goroutine \ {g} : ~Locked(h)
      BY <1>1 DEF CallInv, Locked
    <3>6. /\ CallInv'
          /\ op' \in [Goroutine -> Ops] /\ at' \in [Goroutine -> Places]
          /\ todo' \in [Goroutine -> Seq(Kind)] /\ number' \in [Goroutine -> Nat]
      BY <1>1, <1>2, <3>1, <3>3, <3>4, <3>5, CallStep
    <3> QED
      BY <1>1, <1>2, <3>1, <3>6 DEF Types
  <2>2. CASE ~attached
    <3>1. Traced(g)
      BY <2>2 DEF Emit
    <3> QED
      BY <1>1, <1>2, <3>1, TracedStep
  <2> QED
    BY <2>1, <2>2
<1>5. OrderNow' /\ FileCap(FileNow, before)'
  BY <1>1, <1>3, <1>4, SameFile
<1>6. Types'
  BY <1>1, <1>2, <1>3, <1>4 DEF Types
<1> QED
  BY <1>4, <1>5, <1>6 DEF Inv

\* The number is above all those that were handed out.
LEMMA TakeNumberStep ==
    ASSUME Inv, NEW g \in Goroutine, TakeNumber(g)
    PROVE  Inv'
<1>1. Types /\ FileCap(FileNow, before) /\ CallInv /\ OrderNow
  BY DEF Inv
<1>2. at[g] = "enabled" /\ attached' = attached
  BY DEF TakeNumber
<1>3. UNCHANGED <<shut, written, truncated, lines, before>>
  BY DEF TakeNumber, file, history
<1>4. PICK n \in Nat : n = IF attached THEN seq' ELSE 0
  BY <1>1 DEF TakeNumber, Types
<1>5. /\ op' = [op EXCEPT ![g] = op[g]] /\ at' = [at EXCEPT ![g] = "numbered"]
      /\ todo' = [todo EXCEPT ![g] = todo[g]] /\ number' = [number EXCEPT ![g] = n]
  BY <1>1, <1>4 DEF TakeNumber, Goes, Types
<1>6. OneCall(op[g], "enabled", todo[g], number[g], attached)
  BY <1>1, <1>2, CallInvParts
<1>7. OneCall(op[g], "numbered", todo[g], n, attached')
  BY <1>2, <1>6 DEF OneCall
<1>8. op[g] \in Ops /\ "numbered" \in Places /\ todo[g] \in Seq(Kind)
  BY <1>1 DEF Types, Places
<1>9. op[g] \in {"write", "close"} => \A h \in Goroutine \ {g} : ~Locked(h)
  BY <1>1 DEF CallInv, Locked
<1>10. /\ CallInv'
       /\ op' \in [Goroutine -> Ops] /\ at' \in [Goroutine -> Places]
       /\ todo' \in [Goroutine -> Seq(Kind)] /\ number' \in [Goroutine -> Nat]
  BY <1>1, <1>2, <1>5, <1>7, <1>8, <1>9, CallStep
<1>11. FileCap(FileNow, before)'
  BY <1>1, <1>3, Zenon DEF FileCap, FileNow
<1>12. PICK r : r = Recent
  OBVIOUS
<1>13. r = Recent'
  BY <1>3, <1>12 DEF Recent
<1>14. Ascending(r) /\ UpTo(r, seq)
  BY <1>1, <1>12 DEF OrderNow
<1>15. /\ seq \in Nat /\ seq' \in Nat /\ seq <= seq' /\ n <= seq'
       /\ attached => seq' = seq + 1 /\ n = seq'
  BY <1>1, <1>4 DEF TakeNumber, Types
<1>16. UpTo(r, seq') /\ (attached => Below(r, n))
  <2>1. FileNow \in FileType /\ before <= Len(lines)
    BY <1>1 DEF FileCap, FileNow
  <2>2. lines \in Seq(AnyLine) /\ before \in Nat
    BY <1>1, <2>1 DEF FileType, FileNow, Types
  <2>3. Notice \in AnyLine
    BY DEF AnyLine
  <2>4. r \in Seq(AnyLine)
    BY <1>12, <2>1, <2>2, <2>3, RunAppend DEF Run, Recent
  <2>5. \A k \in DOMAIN r : r[k].seq \in Nat
    <3>1. \A l \in AnyLine : l.seq \in Nat
      BY DEF AnyLine, Line, Notice
    <3> QED
      BY <2>4, <3>1
  <2>6. ASSUME NEW k \in DOMAIN r, Own(r[k])
        PROVE  r[k].seq <= seq' /\ (attached => r[k].seq < n)
    <3>1. r[k].seq <= seq /\ r[k].seq \in Nat
      BY <1>14, <2>5, <2>6 DEF UpTo
    <3> QED
      BY <1>15, <3>1
  <2> QED
    BY <2>6 DEF UpTo, Below
<1>17. number'[g] = n /\ at'[g] = "numbered" /\ op'[g] = op[g]
  BY <1>1, <1>5 DEF Types
<1>18. \A h \in Goroutine \ {g} :
         op'[h] = op[h] /\ at'[h] = at[h] /\ number'[h] = number[h]
  BY <1>1, <1>5 DEF Types
<1>19. op'[g] \in {"write", "close"} /\ at'[g] \in {"numbered", "emitting"} => Below(r, number'[g])
  <2>1. op[g] \in {"write", "close"} => attached
    BY <1>6 DEF OneCall
  <2> QED
    BY <1>16, <1>17, <2>1
<1>20. \A h \in Goroutine \ {g} :
         Locked(h) /\ at[h] \in {"numbered", "emitting"} => Below(r, number[h])
  BY <1>1, <1>12 DEF OrderNow
<1>21. OrderNow'
  BY <1>1, <1>13, <1>14, <1>15, <1>16, <1>17, <1>18, <1>19, <1>20, OrderStep
<1>22. Types'
  BY <1>1, <1>2, <1>3, <1>10, <1>15 DEF Types
<1> QED
  BY <1>10, <1>11, <1>21, <1>22 DEF Inv

LEMMA RunNow ==
    ASSUME Types, FileCap(FileNow, before)
    PROVE  /\ lines \in Seq(AnyLine) /\ written \in Nat /\ truncated \in BOOLEAN
           /\ before <= Len(lines)
           /\ Recent \in Seq(AnyLine) /\ Recent = Run(lines, before)
<1>1. FileNow \in FileType /\ before <= Len(lines)
  BY DEF FileCap, FileNow
<1>2. lines \in Seq(AnyLine) /\ written \in Nat /\ truncated \in BOOLEAN /\ before \in Nat
  BY <1>1 DEF FileType, FileNow, Types
<1>3. Notice \in AnyLine
  BY DEF AnyLine
<1> QED
  BY <1>1, <1>2, <1>3, RunAppend DEF Run, Recent

\* A writing call's line has a number above those of the run's own lines; a line on
\* a closed file goes nowhere.
LEMMA WriteLineStep ==
    ASSUME Inv, NEW g \in Goroutine, WriteLine(g)
    PROVE  Inv'
<1>1. Types /\ FileCap(FileNow, before) /\ CallInv /\ OrderNow
  BY DEF Inv
<1>2. at[g] = "emitting" /\ attached' = attached /\ Traced(g)
  BY DEF WriteLine
<1>3. UNCHANGED <<shut, seq, before>>
  BY DEF WriteLine, history
<1>4. PICK length \in Lengths :
        LET f == Emitted(FileNow, [seq |-> number[g], length |-> length, kind |-> Head(todo[g])])
        IN  /\ truncated' = f.truncated
            /\ IF shut THEN UNCHANGED <<written, lines>>
               ELSE written' = f.written /\ lines' = f.lines
  BY DEF WriteLine, FileNow
<1>5. PICK l : l = [seq |-> number[g], length |-> length, kind |-> Head(todo[g])]
  OBVIOUS
<1>6. PICK f : f = Emitted(FileNow, l)
  OBVIOUS
<1>7. /\ truncated' = f.truncated
      /\ shut => written' = written /\ lines' = lines
      /\ ~shut => written' = f.written /\ lines' = f.lines
  BY <1>4, <1>5, <1>6
<1>8. PICK t \in Seq(Kind) : t = todo[g]
  BY <1>1 DEF Types
<1>9. OneCall(op[g], "emitting", t, number[g], attached)
  BY <1>1, <1>2, <1>8, CallInvParts
<1>10. t # <<>> /\ Head(t) \in Kind /\ Head(t) = t[1] /\ 1 \in DOMAIN t
  <2>1. t # <<>>
    BY <1>9 DEF OneCall
  <2> QED
    BY <2>1, HeadTailProperties
<1>11. l \in Line
  BY <1>1, <1>5, <1>8, <1>10 DEF Line, Types
<1>12. op[g] \in {"write", "close"} \/ op[g] = "find"
  BY <1>1, <1>9 DEF OneCall, Types, Ops
<1>13. op[g] = "find" => ~Own(l)
  BY <1>5, <1>8, <1>9, <1>10 DEF OneCall, Own
<1>14. Own(l) => Below(Recent, l.seq)
  BY <1>1, <1>2, <1>5, <1>12, <1>13 DEF OrderNow, Locked
<1>15. before \in Nat /\ number[g] \in Nat /\ number[g] <= seq /\ seq \in Nat
  BY <1>1 DEF Types, OrderNow
<1>16. FileCap(f, before)
  BY <1>1, <1>6, <1>11, <1>15, EmittedCap
<1>17. PICK r \in Seq(AnyLine) : r = Recent /\ r = Run(lines, before)
  BY <1>1, RunNow
<1>18. PICK q : q = Run(f.lines, before)
  OBVIOUS
<1>19. Ascending(r) /\ UpTo(r, seq)
  BY <1>1, <1>17 DEF OrderNow
<1>20. FileNow.lines = lines
  BY DEF FileNow
<1>21. /\ Ascending(q)
       /\ \A m : UpTo(r, m) /\ (Own(l) => l.seq <= m) => UpTo(q, m)
       /\ \A m : Below(r, m) /\ (Own(l) => l.seq < m) => Below(q, m)
  BY <1>1, <1>6, <1>11, <1>14, <1>15, <1>17, <1>18, <1>19, <1>20, EmittedOrder
<1>22. UpTo(q, seq)
  BY <1>5, <1>15, <1>19, <1>21
<1>23. \A h \in Goroutine \ {g} :
         Locked(h) /\ at[h] \in {"numbered", "emitting"} => Below(r, number[h]) /\ Below(q, number[h])
  <2> TAKE h \in Goroutine \ {g}
  <2> HAVE Locked(h) /\ at[h] \in {"numbered", "emitting"}
  <2>1. Below(r, number[h])
    BY <1>1, <1>17 DEF OrderNow
  <2>2. ~Locked(g)
    BY <1>1 DEF CallInv
  <2>3. ~Own(l)
    BY <1>12, <1>13, <2>2 DEF Locked
  <2> QED
    BY <1>21, <2>1, <2>3
<1>24. /\ CallInv'
       /\ op' \in [Goroutine -> Ops] /\ at' \in [Goroutine -> Places]
       /\ todo' \in [Goroutine -> Seq(Kind)] /\ number' \in [Goroutine -> Nat]
       /\ number'[g] = 0 /\ at'[g] \notin {"numbered", "emitting"}
       /\ \A h \in Goroutine \ {g} :
             op'[h] = op[h] /\ at'[h] = at[h] /\ number'[h] = number[h]
  BY <1>1, <1>2, TracedStep
<1>25. Types'
  BY <1>1, <1>2, <1>3, <1>24 DEF Types
<1>26. /\ seq' \in Nat /\ seq <= seq' /\ number'[g] \in Nat /\ number'[g] <= seq' /\ seq' = seq
  BY <1>3, <1>15, <1>24
<1>27. CASE shut
  <2>1. r = Recent'
    BY <1>3, <1>7, <1>17, <1>27 DEF Recent
  <2>2. Ascending(r) /\ UpTo(r, seq')
    BY <1>3, <1>19
  <2>3. OrderNow'
    BY <1>1, <1>23, <1>24, <1>26, <2>1, <2>2, OrderStep
  <2>4. FileCap(FileNow, before)'
    <3>1. truncated' \in BOOLEAN /\ (truncated => truncated')
      <4>1. FileNow \in FileType /\ FileNow.truncated = truncated
        BY <1>1 DEF FileCap, FileNow
      <4> QED
        BY <1>6, <1>7, <1>11, <4>1, EmittedCases DEF FileType
    <3>2. FileNow' \in FileType
      BY <1>1, <1>7, <1>27, <3>1, RunNow DEF FileNow, FileType
    <3>3. before' <= Len(lines') /\ Run(lines', before') = r
      BY <1>1, <1>3, <1>7, <1>17, <1>27, RunNow
    <3>4. written = Bytes(r) /\ written <= MaxBytes /\ NoticeLast(r, truncated)
      BY <1>1, <1>17 DEF FileCap, FileNow
    <3>5. NoticeLast(r, truncated')
      BY <3>1, <3>4 DEF NoticeLast
    <3>6. written' = Bytes(r) /\ written' <= MaxBytes
      BY <1>7, <1>27, <3>4
    <3> QED
      BY <3>2, <3>3, <3>5, <3>6, Zenon DEF FileCap, FileNow
  <2> QED
    BY <1>24, <1>25, <2>3, <2>4 DEF Inv
<1>28. CASE ~shut
  <2>1. q = Recent'
    BY <1>3, <1>7, <1>18, <1>28 DEF Recent, Run
  <2>2. Ascending(q) /\ UpTo(q, seq')
    BY <1>3, <1>21, <1>22
  <2>3. OrderNow'
    BY <1>1, <1>23, <1>24, <1>26, <2>1, <2>2, OrderStep
  <2>4. FileCap(FileNow, before)'
    <3>1. f = [written |-> written', truncated |-> truncated', lines |-> lines']
      BY <1>7, <1>16, <1>28 DEF FileCap, FileType
    <3>2. f = FileNow'
      BY <3>1 DEF FileNow
    <3> QED
      BY <1>3, <1>16, <3>2, Zenon DEF FileCap
  <2> QED
    BY <1>24, <1>25, <2>3, <2>4 DEF Inv
<1> QED
  BY <1>27, <1>28

LEMMA ShutFileStep ==
    ASSUME Inv, NEW g \in Goroutine, ShutFile(g)
    PROVE  Inv'
<1>1. Types /\ FileCap(FileNow, before) /\ CallInv /\ OrderNow
  BY DEF Inv
<1>2. at[g] = "traced" /\ attached' = attached /\ shut' = TRUE
  BY DEF ShutFile
<1>3. UNCHANGED <<seq, written, truncated, lines, before>>
  BY DEF ShutFile, file, history
<1>4. OneCall(op[g], "traced", todo[g], number[g], attached)
  BY <1>1, <1>2, CallInvParts
<1>5. /\ op' = [op EXCEPT ![g] = op[g]] /\ at' = [at EXCEPT ![g] = "shut"]
      /\ todo' = [todo EXCEPT ![g] = todo[g]] /\ number' = [number EXCEPT ![g] = number[g]]
  BY <1>1 DEF ShutFile, Goes, Types
<1>6. OneCall(op[g], "shut", todo[g], number[g], attached')
  BY <1>2, <1>4 DEF OneCall
<1>7. op[g] \in Ops /\ "shut" \in Places /\ todo[g] \in Seq(Kind) /\ number[g] \in Nat
  BY <1>1 DEF Types, Places
<1>8. op[g] \in {"write", "close"} => \A h \in Goroutine \ {g} : ~Locked(h)
  BY <1>1 DEF CallInv, Locked
<1>9. /\ CallInv'
      /\ op' \in [Goroutine -> Ops] /\ at' \in [Goroutine -> Places]
      /\ todo' \in [Goroutine -> Seq(Kind)] /\ number' \in [Goroutine -> Nat]
  BY <1>1, <1>2, <1>5, <1>6, <1>7, <1>8, CallStep
<1>10. /\ number'[g] = 0 /\ at'[g] \notin {"numbered", "emitting"}
       /\ \A h \in Goroutine \ {g} :
             op'[h] = op[h] /\ at'[h] = at[h] /\ number'[h] = number[h]
  <2>1. number[g] = 0
    BY <1>4 DEF OneCall
  <2> QED
    BY <1>1, <1>5, <2>1 DEF Types
<1>11. OrderNow' /\ FileCap(FileNow, before)'
  BY <1>1, <1>3, <1>10, SameFile
<1>12. Types'
  BY <1>1, <1>2, <1>3, <1>9 DEF Types
<1> QED
  BY <1>9, <1>11, <1>12 DEF Inv

LEMMA DetachStep ==
    ASSUME Inv, NEW g \in Goroutine, Detach(g)
    PROVE  Inv'
<1>1. Types /\ FileCap(FileNow, before) /\ CallInv /\ OrderNow
  BY DEF Inv
<1>2. at[g] = "shut" /\ attached' = FALSE
  BY DEF Detach
<1>3. UNCHANGED <<shut, seq, written, truncated, lines, before>>
  BY DEF Detach, tracer
<1>4. OneCall(op[g], "shut", todo[g], number[g], attached)
  BY <1>1, <1>2, CallInvParts
<1>5. /\ op' = [op EXCEPT ![g] = "none"] /\ at' = [at EXCEPT ![g] = "out"]
      /\ todo' = [todo EXCEPT ![g] = todo[g]] /\ number' = [number EXCEPT ![g] = number[g]]
  BY <1>1 DEF Detach, Goes, Types
<1>6. OneCall("none", "out", todo[g], number[g], attached')
  BY <1>4 DEF OneCall
<1>7. "none" \in Ops /\ "out" \in Places /\ todo[g] \in Seq(Kind) /\ number[g] \in Nat
  BY <1>1 DEF Types, Places, Ops
<1>8. \A h \in Goroutine \ {g} : ~Locked(h)
  <2>1. Locked(g)
    BY <1>4 DEF OneCall, Locked
  <2> QED
    BY <1>1, <2>1 DEF CallInv
<1>9. /\ CallInv'
      /\ op' \in [Goroutine -> Ops] /\ at' \in [Goroutine -> Places]
      /\ todo' \in [Goroutine -> Seq(Kind)] /\ number' \in [Goroutine -> Nat]
  BY <1>1, <1>5, <1>6, <1>7, <1>8, CallStep
<1>10. /\ number'[g] = 0 /\ at'[g] \notin {"numbered", "emitting"}
       /\ \A h \in Goroutine \ {g} :
             op'[h] = op[h] /\ at'[h] = at[h] /\ number'[h] = number[h]
  <2>1. number[g] = 0
    BY <1>4 DEF OneCall
  <2> QED
    BY <1>1, <1>5, <2>1 DEF Types
<1>11. OrderNow' /\ FileCap(FileNow, before)'
  BY <1>1, <1>3, <1>10, SameFile
<1>12. Types'
  BY <1>1, <1>2, <1>3, <1>9 DEF Types
<1> QED
  BY <1>9, <1>11, <1>12 DEF Inv

\* A new tracer counts from nothing, whatever the file holds, and traces at most two
\* lines, numbered 1 and 2.
LEMMA OpenStep ==
    ASSUME Inv, NEW appends \in AppendModes, NEW ok \in BOOLEAN, NEW recovered \in BOOLEAN,
           Open(appends, ok, recovered)
    PROVE  Inv'
<1>1. Types /\ FileCap(FileNow, before) /\ CallInv /\ OrderNow
  BY DEF Inv
<1>2. PICK kept \in Seq(AnyLine) : kept = Kept(appends)
  <2>1. lines \in Seq(AnyLine) /\ <<>> \in Seq(AnyLine)
    BY <1>1, RunNow
  <2> QED
    BY <2>1 DEF Kept
<1>3. PICK b \in Nat : b = Len(kept)
  OBVIOUS
<1>4. PICK n \in Nat : n = IF ~ok THEN 0 ELSE IF recovered THEN 2 ELSE 1
  OBVIOUS
<1>5. before' = b /\ attached' = ok /\ shut' = FALSE /\ seq' = n
      /\ op' = op /\ todo' = todo /\ at' = at /\ number' = number
  BY <1>2, <1>3, <1>4 DEF Open
<1>6. PICK fresh : fresh = [written |-> 0, truncated |-> FALSE, lines |-> kept]
  OBVIOUS
<1>7. PICK x \in Lengths, y \in Lengths :
        LET cut == IF recovered
                   THEN Emitted(fresh, [seq |-> 1, length |-> x, kind |-> "recover"])
                   ELSE fresh
            f == IF ok THEN Emitted(cut, [seq |-> n, length |-> y, kind |-> "open"])
                 ELSE cut
        IN  written' = f.written /\ truncated' = f.truncated /\ lines' = f.lines
  BY <1>2, <1>5, <1>6 DEF Open
<1>8. PICK l : l = [seq |-> 1, length |-> x, kind |-> "recover"]
  OBVIOUS
<1>9. PICK k : k = [seq |-> n, length |-> y, kind |-> "open"]
  OBVIOUS
<1>10. PICK cut : cut = IF recovered THEN Emitted(fresh, l) ELSE fresh
  OBVIOUS
<1>11. PICK f : f = IF ok THEN Emitted(cut, k) ELSE cut
  OBVIOUS
<1>12. written' = f.written /\ truncated' = f.truncated /\ lines' = f.lines
  BY <1>7, <1>8, <1>9, <1>10, <1>11
<1>13. l \in Line /\ k \in Line /\ Own(l) /\ Own(k) /\ l.seq = 1 /\ k.seq = n
  BY <1>8, <1>9 DEF Line, Kind, Own
<1>14. recovered => ok
  BY DEF Open
<1>15. /\ FileCap(fresh, b) /\ Ascending(Run(fresh.lines, b))
       /\ \A m : UpTo(Run(fresh.lines, b), m) /\ Below(Run(fresh.lines, b), m)
  <2>1. Run(kept, b) = <<>>
    BY <1>3, RunEmpty
  <2>2. fresh \in FileType /\ fresh.lines = kept /\ fresh.written = 0 /\ b <= Len(kept)
    BY <1>3, <1>6 DEF FileType
  <2>3. PICK r : r = <<>>
    OBVIOUS
  <2>4. DOMAIN r = {}
    BY <2>3
  <2>5. /\ NoticeLast(r, fresh.truncated) /\ Ascending(r)
        /\ \A m : UpTo(r, m) /\ Below(r, m)
    BY <2>4, Zenon DEF NoticeLast, Ascending, UpTo, Below
  <2>6. fresh.written = Bytes(r) /\ fresh.written <= MaxBytes
    BY <2>2, <2>3, BytesEmpty, BoundAssumption
  <2> QED
    BY <2>1, <2>2, <2>3, <2>5, <2>6 DEF FileCap
<1>16. /\ FileCap(cut, b) /\ Ascending(Run(cut.lines, b))
       /\ UpTo(Run(cut.lines, b), n)
       /\ ok => Below(Run(cut.lines, b), n)
  <2>1. CASE recovered
    <3>1. FileCap(cut, b)
      BY <1>10, <1>13, <1>15, <2>1, EmittedCap
    <3>2. PICK r : r = Run(fresh.lines, b)
      OBVIOUS
    <3>3. PICK q : q = Run(cut.lines, b)
      OBVIOUS
    <3>4. /\ Ascending(q)
          /\ \A m : UpTo(r, m) /\ (Own(l) => l.seq <= m) => UpTo(q, m)
          /\ \A m : Below(r, m) /\ (Own(l) => l.seq < m) => Below(q, m)
      BY <1>10, <1>13, <1>15, <2>1, <3>2, <3>3, EmittedOrder
    <3>5. n = 2 /\ l.seq <= n /\ l.seq < n
      BY <1>4, <1>13, <1>14, <2>1
    <3>6. UpTo(q, n) /\ Below(q, n)
      BY <1>15, <3>2, <3>4, <3>5
    <3> QED
      BY <3>1, <3>3, <3>4, <3>6
  <2>2. CASE ~recovered
    BY <1>10, <1>15, <2>2
  <2> QED
    BY <2>1, <2>2
<1>17. /\ FileCap(f, b) /\ Ascending(Run(f.lines, b)) /\ UpTo(Run(f.lines, b), n)
  <2>1. CASE ok
    <3>1. FileCap(f, b)
      BY <1>11, <1>13, <1>16, <2>1, EmittedCap
    <3>2. PICK r : r = Run(cut.lines, b)
      OBVIOUS
    <3>3. PICK q : q = Run(f.lines, b)
      OBVIOUS
    <3>4. /\ Ascending(q)
          /\ \A m : UpTo(r, m) /\ (Own(k) => k.seq <= m) => UpTo(q, m)
      BY <1>11, <1>13, <1>16, <2>1, <3>2, <3>3, EmittedOrder
    <3>5. UpTo(q, n)
      BY <1>13, <1>16, <3>2, <3>4
    <3> QED
      BY <3>1, <3>3, <3>4, <3>5
  <2>2. CASE ~ok
    BY <1>11, <1>16, <2>2
  <2> QED
    BY <2>1, <2>2
<1>18. \A g \in Goroutine : at[g] = "out"
  BY DEF Open
<1>19. \A g \in Goroutine : op[g] = "none" /\ number[g] = 0 /\ ~Locked(g)
  BY <1>1, <1>18, CallInvParts DEF OneCall, Locked
<1>20. CallInv'
  <2>1. \A g, h \in Goroutine : Locked(g)' /\ Locked(h)' => g = h
    BY <1>5, <1>19 DEF Locked
  <2>2. \A g \in Goroutine : OneCall(op[g], at[g], todo[g], number[g], attached')
    BY <1>18, <1>19 DEF OneCall
  <2>3. \A g \in Goroutine : OneCall(op'[g], at'[g], todo'[g], number'[g], attached')
    BY <1>5, <2>2
  <2> QED
    BY <2>1, <2>3, Zenon DEF CallInv, OneCall, Locked
<1>21. FileCap(FileNow, before)'
  <2>1. f = [written |-> written', truncated |-> truncated', lines |-> lines']
    BY <1>12, <1>17 DEF FileCap, FileType
  <2>2. f = FileNow'
    BY <2>1 DEF FileNow
  <2> QED
    BY <1>5, <1>17, <2>2, Zenon DEF FileCap
<1>22. OrderNow'
  <2>1. PICK r : r = Recent'
    OBVIOUS
  <2>2. r = Run(f.lines, b)
    BY <1>5, <1>12, <2>1 DEF Recent, Run
  <2>3. Ascending(r) /\ UpTo(r, seq')
    BY <1>5, <1>17, <2>2
  <2>4. \A g \in Goroutine : ~(op'[g] \in {"write", "close"}) /\ number'[g] <= seq'
    BY <1>5, <1>19
  <2> QED
    BY <2>1, <2>3, <2>4, Zenon DEF OrderNow, Ascending, UpTo, Locked
<1>23. Types'
  BY <1>1, <1>5 DEF Types
<1> QED
  BY <1>20, <1>21, <1>22, <1>23 DEF Inv

LEMMA InitStep ==
    ASSUME Init
    PROVE  Inv
<1>1. CallInv
  BY DEF Init, CallInv, Locked
<1>2. PICK r : r = Recent
  OBVIOUS
<1>3. r = <<>> /\ r = Run(lines, before)
  <2>1. lines = <<>> /\ before = Len(lines) /\ lines \in Seq(AnyLine)
    BY DEF Init
  <2> QED
    BY <1>2, <2>1, RunEmpty DEF Recent, Run
<1>4. DOMAIN r = {}
  BY <1>3
<1>5. NoticeLast(r, truncated) /\ Ascending(r) /\ UpTo(r, seq) /\ \A m : Below(r, m)
  BY <1>4, Zenon DEF NoticeLast, Ascending, UpTo, Below
<1>6. FileCap(FileNow, before)
  <2>1. FileNow \in FileType /\ before <= Len(lines)
    <3>1. <<>> \in Seq(AnyLine) /\ 0 <= Len(<<>>) /\ 0 \in Nat
      OBVIOUS
    <3> QED
      BY <3>1 DEF Init, FileNow, FileType
  <2>2. written = Bytes(r) /\ written <= MaxBytes
    BY <1>3, BytesEmpty, BoundAssumption DEF Init
  <2> QED
    BY <1>3, <1>5, <2>1, <2>2, Zenon DEF FileCap, FileNow
<1>7. \A g \in Goroutine : number[g] <= seq /\ ~Locked(g)
  BY DEF Init, Locked
<1>8. OrderNow
  BY <1>2, <1>5, <1>7 DEF OrderNow
<1>9. Types
  <2>1. <<>> \in Seq(Kind)
    OBVIOUS
  <2>2. todo \in [Goroutine -> Seq(Kind)]
    BY <2>1 DEF Init
  <2> QED
    BY <2>2 DEF Init, Types, Ops, Places
<1> QED
  BY <1>1, <1>6, <1>8, <1>9 DEF Inv

LEMMA StutterStep ==
    ASSUME Inv, UNCHANGED vars
    PROVE  Inv'
<1>1. UNCHANGED <<attached, shut, seq, written, truncated, lines, op, todo, at, number, before>>
  BY DEF vars
<1>2. Types /\ FileCap(FileNow, before) /\ CallInv /\ OrderNow
  BY DEF Inv
<1>3. Types'
  BY <1>1, <1>2 DEF Types
<1>4. FileCap(FileNow, before)'
  BY <1>1, <1>2, Zenon DEF FileCap, FileNow
<1>5. CallInv'
  <2>1. \A g, h \in Goroutine : Locked(g)' /\ Locked(h)' => g = h
    BY <1>1, <1>2 DEF CallInv, Locked
  <2>2. \A g \in Goroutine : OneCall(op'[g], at'[g], todo'[g], number'[g], attached')
    BY <1>1, <1>2, CallInvParts
  <2> QED
    BY <2>1, <2>2, Zenon DEF CallInv, OneCall, Locked
<1>6. OrderNow'
  <2>1. Recent' = Recent
    BY <1>1 DEF Recent
  <2> QED
    BY <1>1, <1>2, <2>1, Zenon DEF OrderNow, Locked, Ascending, UpTo, Below
<1> QED
  BY <1>3, <1>4, <1>5, <1>6 DEF Inv

LEMMA InvKept ==
    ASSUME Inv, [Next]_vars
    PROVE  Inv'
<1>1. ASSUME NEW appends \in AppendModes, NEW ok \in BOOLEAN, NEW recovered \in BOOLEAN,
             Open(appends, ok, recovered)
      PROVE  Inv'
  BY <1>1, OpenStep
<1>2. ASSUME NEW g \in Goroutine, NEW o \in {"write", "find", "close"}, Begin(g, o)
      PROVE  Inv'
  BY <1>2, BeginStep
<1>3. ASSUME NEW g \in Goroutine, Enabled(g) \/ TakeNumber(g) \/ Emit(g) \/ WriteLine(g)
                                  \/ ShutFile(g) \/ Detach(g)
      PROVE  Inv'
  BY <1>3, EnabledStep, TakeNumberStep, EmitStep, WriteLineStep, ShutFileStep, DetachStep
<1>4. CASE UNCHANGED vars
  BY <1>4, StutterStep
<1> QED
  BY <1>1, <1>2, <1>3, <1>4, Zenon DEF Next

LEMMA InvMeans ==
    ASSUME Inv
    PROVE  IInv /\ Capped
<1>1. Types /\ FileCap(FileNow, before) /\ CallInv /\ OrderNow
  BY DEF Inv
<1>2. PICK r \in Seq(AnyLine) : r = Recent /\ r = Run(lines, before)
  BY <1>1, RunNow
<1>3. before <= Len(lines)
  BY <1>1, RunNow
<1>4. CapInv
  BY <1>1, <1>2, Zenon DEF FileCap, FileNow, NoticeLast, CapInv
<1>5. OrderInv
  BY <1>1, Zenon DEF OrderNow, OrderInv, Ordered, UpTo, Below, Own
<1>6. WritersInOrder
  <2>1. \A j, k \in DOMAIN r : {r[j].kind, r[k].kind} \cap {"find", "truncated"} = {}
                                  => Own(r[j]) /\ Own(r[k])
    BY DEF Own
  <2> QED
    BY <1>1, <1>2, <2>1 DEF OrderNow, Ascending, WritersInOrder
<1>7. Capped
  BY <1>4 DEF CapInv, Capped
<1> QED
  BY <1>1, <1>3, <1>4, <1>5, <1>6, <1>7 DEF IInv

-----------------------------------------------------------------------------
\* The theorems

THEOREM InvTheorem == Spec => []Inv
<1>1. Init => Inv
  BY InitStep
<1>2. Inv /\ [Next]_vars => Inv'
  BY InvKept
<1> QED
  BY <1>1, <1>2, PTL DEF Spec

\* The inductive invariants of Tracer: t.written is what the run's lines take, db.mu
\* has one holder, and what it has at hand is numbered above the lines before it.
THEOREM IInvTheorem == Spec => []IInv
<1>1. Inv => IInv
  BY InvMeans
<1> QED
  BY <1>1, InvTheorem, PTL

\* The cap of emit, for every number of goroutines and every cap: the lines of a run
\* stay within it and the notice ends them.
THEOREM CappedTheorem == Spec => []Capped
<1>1. Inv => Capped
  BY InvMeans
<1> QED
  BY <1>1, InvTheorem, PTL

\* The lines of writing calls, of fsyncs, of Open and of Close are in the order of
\* their numbers, since db.mu is held from next to emit.
THEOREM WritersInOrderTheorem == Spec => []WritersInOrder
<1>1. Inv => WritersInOrder
  BY InvMeans DEF IInv
<1> QED
  BY <1>1, InvTheorem, PTL
================================================================================
