------------------------- MODULE SnapshotScanProofs -------------------------
(***************************************************************************)
(* What holds of SnapshotScan for any number of goroutines and records.    *)
(***************************************************************************)
EXTENDS SnapshotScan, FiniteSetTheorems, WellFoundedInduction, TLAPS

-----------------------------------------------------------------------------
\* Sequences, whatever their elements are

IsSeq(s) == \E T : s \in Seq(T)

LEMMA SeqFacts ==
    ASSUME NEW s, IsSeq(s)
    PROVE  Len(s) \in Nat /\ DOMAIN s = 1..Len(s)
BY DEF IsSeq

LEMMA AppendFacts ==
    ASSUME NEW s, NEW x, IsSeq(s)
    PROVE  /\ IsSeq(Append(s, x))
           /\ Len(Append(s, x)) = Len(s) + 1
           /\ \A k \in 1..Len(s) : Append(s, x)[k] = s[k]
           /\ Append(s, x)[Len(s) + 1] = x
<1>1. PICK T : s \in Seq(T)
  BY DEF IsSeq
<1>2. s \in Seq(T \cup {x}) /\ x \in T \cup {x}
  BY <1>1
<1>3. Append(s, x) \in Seq(T \cup {x})
  BY <1>2
<1> QED
  BY <1>2, <1>3 DEF IsSeq

LEMMA ConcatFacts ==
    ASSUME NEW s, NEW t, IsSeq(s), IsSeq(t)
    PROVE  /\ IsSeq(s \o t)
           /\ Len(s \o t) = Len(s) + Len(t)
           /\ \A k \in 1..Len(s) : (s \o t)[k] = s[k]
           /\ \A k \in 1..Len(t) : (s \o t)[Len(s) + k] = t[k]
<1>1. PICK T : s \in Seq(T)
  BY DEF IsSeq
<1>2. PICK U : t \in Seq(U)
  BY DEF IsSeq
<1>3. s \in Seq(T \cup U) /\ t \in Seq(T \cup U)
  BY <1>1, <1>2
<1>4. s \o t \in Seq(T \cup U)
  BY <1>3
<1> QED
  BY <1>3, <1>4 DEF IsSeq

LEMMA SubSeqFacts ==
    ASSUME NEW s, IsSeq(s), NEW n \in 0..Len(s)
    PROVE  /\ IsSeq(SubSeq(s, 1, n))
           /\ Len(SubSeq(s, 1, n)) = n
           /\ \A k \in 1..n : SubSeq(s, 1, n)[k] = s[k]
<1>1. PICK T : s \in Seq(T)
  BY DEF IsSeq
<1>2. SubSeq(s, 1, n) \in Seq(T)
  BY <1>1
<1> QED
  BY <1>1, <1>2 DEF IsSeq

LEMMA ExceptFacts ==
    ASSUME NEW s, IsSeq(s), NEW k \in DOMAIN s, NEW x
    PROVE  LET t == [s EXCEPT ![k] = x]
           IN  /\ IsSeq(t) /\ Len(t) = Len(s) /\ t[k] = x
               /\ \A j \in 1..Len(s) : j # k => t[j] = s[j]
<1>1. PICK T : s \in Seq(T)
  BY DEF IsSeq
<1>2. s \in Seq(T \cup {x}) /\ x \in T \cup {x}
  BY <1>1
<1>3. [s EXCEPT ![k] = x] \in Seq(T \cup {x})
  BY <1>2
<1> QED
  BY <1>2, <1>3 DEF IsSeq

-----------------------------------------------------------------------------
\* The least element of a set of numbers

LEMMA MinFacts ==
    ASSUME NEW S \in SUBSET Nat, S # {}
    PROVE  Min(S) \in S /\ \A y \in S : Min(S) <= y
<1>1. PICK x \in S : \A y \in S : ~(<<y, x>> \in OpToRel(<, Nat))
  BY NatLessThanWellFounded, WFMin
<1>2. \A y \in S : ~(y < x)
  BY <1>1, Zenon DEF OpToRel
<1>3. \A y \in S : x <= y
  BY <1>2
<1> QED
  BY <1>3 DEF Min

\* Without its least element a set of one is empty, a larger one is not.
LEMMA RemoveMin ==
    ASSUME NEW S \in SUBSET Nat, IsFiniteSet(S), S # {}
    PROVE  /\ IsFiniteSet(S \ {Min(S)})
           /\ Cardinality(S) > 1 <=> S \ {Min(S)} # {}
<1>1. Min(S) \in S
  BY MinFacts
<1>2. IsFiniteSet(S \ {Min(S)}) /\ Cardinality(S \ {Min(S)}) = Cardinality(S) - 1
  BY <1>1, FS_RemoveElement
<1>3. Cardinality(S \ {Min(S)}) = 0 <=> S \ {Min(S)} = {}
  BY <1>2, FS_EmptySet
<1>4. Cardinality(S) \in Nat /\ Cardinality(S \ {Min(S)}) \in Nat
  BY <1>2, FS_CardinalityType
<1> QED
  BY <1>2, <1>3, <1>4

-----------------------------------------------------------------------------
\* The lock and the arrays

Arrays == IsSeq(heap) /\ \A a \in DOMAIN heap : IsSeq(heap[a])

CallShape(c) == c \in [kind : {c.kind}, at : {c.at}]

ScanShape(s) ==
    s \in [shape : {"strided", "sequential"}, offs : {s.offs}, lens : {s.lens},
           size : {s.size}, pos : {s.pos}, i : {s.i}, length : {s.length},
           visiting : {s.visiting}, want : {s.want}]

\* The shape of the state, whatever the cells of the arrays hold.
Shape ==
    /\ Arrays
    /\ DOMAIN call = Goroutine /\ \A g \in Goroutine : CallShape(call[g])
    /\ DOMAIN scan = Goroutine /\ \A g \in Goroutine : scan[g] # None => ScanShape(scan[g])
    /\ DOMAIN seen = Goroutine

LEMMA LockStep ==
    ASSUME LockInv, [Next]_vars
    PROVE  LockInv'
<1>1. CASE UNCHANGED vars
  BY <1>1 DEF LockInv, vars
<1>2. CASE Next
  <2> PICK g \in Goroutine :
        BeginWrite(g) \/ Lock(g) \/ WriteStep(g) \/ Snapshot(g) \/ ScanStep(g) \/ Stop(g) \/ Close(g)
    BY <1>2 DEF Next
  <2> USE FreeAssumption DEF LockInv, Inside
  <2>1. CASE BeginWrite(g)
    BY <2>1 DEF BeginWrite
  <2>2. CASE Lock(g)
    BY <2>2 DEF Lock
  <2>3. CASE StartWriteAt(g)
    BY <2>3 DEF StartWriteAt, MayWrite
  <2>4. CASE WriteNothing(g)
    BY <2>4 DEF WriteNothing
  <2>5. CASE EndWriteAt(g)
    BY <2>5 DEF EndWriteAt
  <2>6. CASE FailWriteAt(g)
    BY <2>6 DEF FailWriteAt
  <2>7. CASE AppendOffset(g)
    BY <2>7 DEF AppendOffset
  <2>8. CASE AppendLength(g)
    BY <2>8 DEF AppendLength
  <2>9. CASE Publish(g)
    BY <2>9 DEF Publish
  <2>10. CASE Unlock(g)
    BY <2>10 DEF Unlock
  <2>11. CASE Close(g)
    BY <2>11 DEF Close
  <2>12. CASE Snapshot(g) \/ ScanStep(g) \/ Stop(g)
    <3>1. UNCHANGED <<lock, pc, closed>>
      BY <2>12 DEF Snapshot, ScanStep, Stop, ReadLength, ReadDocument, ReadRecord, Finish,
         FailRead, Leave, Untouched
    <3> QED
      BY <3>1, SMTT(40)
  <2> QED
    BY <2>1, <2>2, <2>3, <2>4, <2>5, <2>6, <2>7, <2>8, <2>9, <2>10, <2>11, <2>12 DEF WriteStep
<1> QED
  BY <1>1, <1>2

LEMMA NothingWritten ==
    ASSUME LockInv, [Next]_vars, closed
    PROVE  UNCHANGED <<file, size, heap, offs, lens, dirty>>
<1>1. CASE UNCHANGED vars
  BY <1>1 DEF vars
<1>2. CASE Next
  <2> PICK g \in Goroutine :
        BeginWrite(g) \/ Lock(g) \/ WriteStep(g) \/ Snapshot(g) \/ ScanStep(g) \/ Stop(g) \/ Close(g)
    BY <1>2 DEF Next
  <2>1. pc[g] \notin Inside
    BY DEF LockInv
  <2>2. ~(StartWriteAt(g) \/ EndWriteAt(g) \/ FailWriteAt(g) \/ AppendOffset(g)
          \/ AppendLength(g) \/ Publish(g))
    BY <2>1 DEF Inside, StartWriteAt, MayWrite, EndWriteAt, FailWriteAt, AppendOffset,
       AppendLength, Publish
  <2>3. CASE BeginWrite(g) \/ Lock(g) \/ WriteNothing(g) \/ Unlock(g) \/ Close(g)
    BY <2>3 DEF BeginWrite, Lock, WriteNothing, Unlock, Close, index
  <2>4. CASE Snapshot(g) \/ ScanStep(g) \/ Stop(g)
    BY <2>4 DEF Snapshot, ScanStep, Stop, ReadLength, ReadDocument, ReadRecord, Finish,
       FailRead, Leave, Untouched, index
  <2> QED
    BY <2>2, <2>3, <2>4 DEF WriteStep
<1> QED
  BY <1>1, <1>2

\* Close ends all writing, whatever goroutines were waiting for the lock then:
\* the flag is looked at under the lock (SnapshotScan, NothingAfterClose).
THEOREM NothingAfterCloseTheorem == Spec => NothingAfterClose
<1>1. Init => LockInv
  BY FreeAssumption DEF Init, LockInv, Inside
<1>2. LockInv /\ [Next]_vars => LockInv'
  BY LockStep
<1>3. LockInv /\ [Next]_vars => (closed => UNCHANGED <<file, size, heap, offs, lens, dirty>>)
  BY NothingWritten
<1>4. LockInv /\ [Next]_vars => [closed => UNCHANGED <<file, size, heap, offs, lens, dirty>>]_vars
  BY <1>3
<1> QED
  BY <1>1, <1>2, <1>4, PTL DEF Spec, NothingAfterClose

\* An append writes the one cell behind the slice, or a fresh array.
LEMMA AppendCells ==
    ASSUME Arrays, NEW s, NEW s1, NEW v, Within(s),
           s1 \in Slice, AppendTo(s, s1, v)
    PROVE  /\ IsSeq(heap') /\ \A a \in DOMAIN heap' : IsSeq(heap'[a])
           /\ s1.len = s.len + 1
           /\ s1.arr \in DOMAIN heap' /\ s1.len <= Len(heap'[s1.arr])
           /\ s1.arr = s.arr \/ s1.arr \notin DOMAIN heap
           /\ heap'[s1.arr][s1.len] = v
           /\ \A k \in 1..s.len : heap'[s1.arr][k] = heap[s.arr][k]
           /\ \A a \in DOMAIN heap :
                 /\ a \in DOMAIN heap' /\ Len(heap'[a]) = Len(heap[a])
                 /\ \A k \in 1..Len(heap[a]) :
                       a # s.arr \/ k # s.len + 1 => heap'[a][k] = heap[a][k]
<1> DEFINE old == heap[s.arr]
<1>1. IsSeq(old) /\ Len(old) \in Nat /\ Len(heap) \in Nat /\ s.len \in Nat /\ s.arr \in 1..Len(heap)
      /\ DOMAIN heap = 1..Len(heap) /\ DOMAIN old = 1..Len(old) /\ s.len <= Len(old)
  BY SeqFacts DEF Arrays, Within, Slice
<1>2. CASE s.len < Len(old) /\ s1 = [s EXCEPT !.len = @ + 1]
           /\ heap' = [heap EXCEPT ![s.arr][s.len + 1] = v]
  <2> DEFINE new == [old EXCEPT ![s.len + 1] = v]
  <2>1. heap' = [heap EXCEPT ![s.arr] = new]
    BY <1>2
  <2>2. IsSeq(new) /\ Len(new) = Len(old) /\ new[s.len + 1] = v
        /\ \A j \in 1..Len(old) : j # s.len + 1 => new[j] = old[j]
    <3> HIDE DEF old
    <3>1. s.len + 1 \in DOMAIN old
      BY <1>1, <1>2
    <3> QED
      BY <1>1, <3>1, ExceptFacts, ZenonT(40)
  <2> HIDE DEF new
  <2>3. IsSeq(heap') /\ Len(heap') = Len(heap) /\ heap'[s.arr] = new
        /\ \A j \in 1..Len(heap) : j # s.arr => heap'[j] = heap[j]
    BY <1>1, <2>1, ExceptFacts DEF Arrays
  <2>4. s1.arr = s.arr /\ s1.len = s.len + 1
    BY <1>2 DEF Within, Slice
  <2>5. DOMAIN heap' = 1..Len(heap)
    BY <2>3, SeqFacts
  <2>6. \A a \in DOMAIN heap' : IsSeq(heap'[a])
    BY <1>1, <2>2, <2>3, <2>5 DEF Arrays
  <2>7. \A k \in 1..s.len : heap'[s1.arr][k] = old[k]
    BY <1>1, <2>2, <2>3, <2>4
  <2>8. ASSUME NEW a \in DOMAIN heap
        PROVE  /\ a \in DOMAIN heap' /\ Len(heap'[a]) = Len(heap[a])
               /\ \A k \in 1..Len(heap[a]) :
                     a # s.arr \/ k # s.len + 1 => heap'[a][k] = heap[a][k]
    <3>1. CASE a = s.arr
      BY <1>1, <2>2, <2>3, <2>5, <3>1
    <3>2. CASE a # s.arr
      BY <1>1, <2>3, <2>5, <3>2
    <3> QED
      BY <3>1, <3>2
  <2>9. s1.arr \in DOMAIN heap' /\ s1.len <= Len(heap'[s1.arr]) /\ heap'[s1.arr][s1.len] = v
    BY <1>1, <1>2, <2>2, <2>3, <2>4, <2>5
  <2> QED
    BY <2>3, <2>4, <2>6, <2>7, <2>8, <2>9
<1>3. CASE \E spare \in {<<>>, <<0>>} :
              /\ s.len = Len(old)
              /\ s1 = [arr |-> Len(heap) + 1, len |-> s.len + 1]
              /\ heap' = Append(heap, Append(old, v) \o spare)
  <2> PICK spare \in {<<>>, <<0>>} : heap' = Append(heap, Append(old, v) \o spare)
    BY <1>3
  <2> DEFINE new == Append(old, v) \o spare
  <2>1. IsSeq(spare) /\ Len(spare) \in Nat
    <3>1. <<>> \in Seq(Nat) /\ <<0>> \in Seq(Nat)
      OBVIOUS
    <3>2. spare \in Seq(Nat)
      BY <3>1
    <3> QED
      BY <3>2 DEF IsSeq
  <2>2. IsSeq(Append(old, v)) /\ Len(Append(old, v)) = s.len + 1
        /\ (\A k \in 1..s.len : Append(old, v)[k] = old[k]) /\ Append(old, v)[s.len + 1] = v
    BY <1>1, <1>3, AppendFacts
  <2>3. IsSeq(new) /\ Len(new) >= s.len + 1
        /\ (\A k \in 1..s.len : new[k] = old[k]) /\ new[s.len + 1] = v
    <3>1. /\ IsSeq(new) /\ Len(new) = s.len + 1 + Len(spare)
          /\ \A k \in 1..(s.len + 1) : new[k] = Append(old, v)[k]
      BY <2>1, <2>2, ConcatFacts
    <3> QED
      BY <1>1, <2>1, <2>2, <3>1, SMTT(40)
  <2> HIDE DEF new
  <2>4. IsSeq(heap') /\ Len(heap') = Len(heap) + 1 /\ heap'[Len(heap) + 1] = new
        /\ \A j \in 1..Len(heap) : heap'[j] = heap[j]
    BY AppendFacts DEF Arrays, new
  <2>5. DOMAIN heap' = 1..(Len(heap) + 1)
    BY <2>4, SeqFacts
  <2>6. s1.arr = Len(heap) + 1 /\ s1.len = s.len + 1
    BY <1>3
  <2>7. ASSUME NEW a \in DOMAIN heap'
        PROVE  IsSeq(heap'[a])
    <3>1. CASE a \in DOMAIN heap
      BY <1>1, <2>4, <3>1 DEF Arrays
    <3>2. CASE a = Len(heap) + 1
      BY <2>3, <2>4, <3>2
    <3> QED
      BY <1>1, <2>5, <3>1, <3>2
  <2>8. \A a \in DOMAIN heap : a \in DOMAIN heap' /\ heap'[a] = heap[a]
    BY <1>1, <2>4, <2>5
  <2>9. /\ s1.arr \in DOMAIN heap' /\ s1.arr \notin DOMAIN heap
        /\ s1.len <= Len(heap'[s1.arr]) /\ heap'[s1.arr][s1.len] = v
    BY <1>1, <2>3, <2>4, <2>5, <2>6, SMTT(40)
  <2>10. \A k \in 1..s.len : heap'[s1.arr][k] = heap[s.arr][k]
    BY <1>1, <2>3, <2>4, <2>6
  <2> QED
    BY <2>4, <2>6, <2>7, <2>8, <2>9, <2>10
<1> QED
  BY <1>2, <1>3 DEF AppendTo

LEMMA RepublishCells ==
    ASSUME Arrays, NEW v, IsSeq(v), Republish(v)
    PROVE  /\ IsSeq(heap') /\ \A a \in DOMAIN heap' : IsSeq(heap'[a])
           /\ offs' \in Slice /\ offs'.arr \in DOMAIN heap' /\ offs'.arr \notin DOMAIN heap
           /\ lens' \in Slice /\ lens'.arr \in DOMAIN heap' /\ lens'.arr \notin DOMAIN heap
           /\ offs'.arr # lens'.arr
           /\ offs'.len = Len(v) /\ lens'.len = Len(v)
           /\ heap'[offs'.arr] = v /\ heap'[lens'.arr] = v
           /\ \A a \in DOMAIN heap : a \in DOMAIN heap' /\ heap'[a] = heap[a]
<1>1. IsSeq(heap) /\ Len(heap) \in Nat /\ DOMAIN heap = 1..Len(heap) /\ Len(v) \in Nat
  BY SeqFacts DEF Arrays
<1>2. IsSeq(<<v, v>>) /\ Len(<<v, v>>) = 2 /\ <<v, v>>[1] = v /\ <<v, v>>[2] = v
  <2>1. <<v, v>> \in Seq({v})
    OBVIOUS
  <2> QED
    BY <2>1 DEF IsSeq
<1>3. heap' = heap \o <<v, v>>
  BY DEF Republish
<1>4. /\ IsSeq(heap') /\ Len(heap') = Len(heap) + 2
      /\ \A k \in 1..Len(heap) : heap'[k] = heap[k]
      /\ \A k \in 1..2 : heap'[Len(heap) + k] = <<v, v>>[k]
  BY <1>1, <1>2, <1>3, ConcatFacts
<1>5. DOMAIN heap' = 1..(Len(heap) + 2)
  BY <1>4, SeqFacts
<1>6. heap'[Len(heap) + 1] = v /\ heap'[Len(heap) + 2] = v
  BY <1>2, <1>4
<1>7. ASSUME NEW a \in DOMAIN heap'
      PROVE  IsSeq(heap'[a])
  <2>1. CASE a \in DOMAIN heap
    BY <1>1, <1>4, <2>1 DEF Arrays
  <2>2. CASE a = Len(heap) + 1 \/ a = Len(heap) + 2
    BY <1>6, <2>2
  <2> QED
    BY <1>1, <1>5, <2>1, <2>2
<1>8. offs' = [arr |-> Len(heap) + 1, len |-> Len(v)] /\ lens' = [arr |-> Len(heap) + 2, len |-> Len(v)]
  BY DEF Republish
<1>9. \A a \in DOMAIN heap : a \in DOMAIN heap' /\ heap'[a] = heap[a]
  BY <1>1, <1>4, <1>5
<1> QED
  BY <1>1, <1>4, <1>5, <1>6, <1>7, <1>8, <1>9 DEF Slice

LEMMA ValuesIsSeq ==
    ASSUME Arrays, NEW s, Within(s)
    PROVE  /\ IsSeq(Values(s)) /\ Len(Values(s)) = s.len
           /\ \A k \in 1..s.len : Values(s)[k] = heap[s.arr][k]
<1>1. IsSeq(heap[s.arr]) /\ s.len \in 0..Len(heap[s.arr])
  BY SeqFacts DEF Arrays, Within, Slice
<1> QED
  BY <1>1, SubSeqFacts DEF Values

\* What Publish puts into both arrays.
LEMMA PublishRepublishes ==
    ASSUME Arrays, Within(offs), NEW g, Publish(g)
    PROVE  \E v : IsSeq(v) /\ Republish(v)
<1> DEFINE now == Values(offs)
           stay == (1..offs.len) \ call[g].at
           nth(k) == CHOOSE i \in stay : Cardinality({j \in stay : j <= i}) = k
           changed == [i \in DOMAIN now |-> IF i \in call[g].at THEN size ELSE now[i]]
           left == [k \in 1..Cardinality(stay) |-> now[nth(k)]]
<1>1. IsSeq(now) /\ Len(now) \in Nat /\ DOMAIN now = 1..Len(now)
  BY ValuesIsSeq, SeqFacts
<1>2. offs.len \in Nat
  BY DEF Within, Slice
<1>3. IsFiniteSet(stay)
  <2>1. IsFiniteSet(1..offs.len)
    BY <1>2, FS_Interval
  <2> QED
    BY <2>1, FS_Subset
<1>4. Cardinality(stay) \in Nat
  BY <1>3, FS_CardinalityType
<1>5. IsSeq(changed)
  <2> HIDE DEF now
  <2>1. changed \in Seq({IF i \in call[g].at THEN size ELSE now[i] : i \in DOMAIN now})
    BY <1>1
  <2> QED
    BY <2>1 DEF IsSeq
<1>6. IsSeq(left)
  <2> HIDE DEF now, nth, stay
  <2>1. left \in Seq({now[nth(k)] : k \in 1..Cardinality(stay)})
    BY <1>4
  <2> QED
    BY <2>1 DEF IsSeq
<1>7. Republish(IF call[g].kind = "replace" THEN changed ELSE left)
  BY DEF Publish
<1> HIDE DEF changed, left
<1> QED
  BY <1>5, <1>6, <1>7

\* A scan keeps what its snapshot took, until it ends.
SameSnapshot(s, t) ==
    t.shape = s.shape /\ t.offs = s.offs /\ t.lens = s.lens /\ t.size = s.size /\ t.want = s.want

LEMMA ScanChange ==
    ASSUME Shape, [Next]_vars
    PROVE  /\ DOMAIN scan' = Goroutine /\ DOMAIN seen' = Goroutine
           /\ \A g \in Goroutine : scan'[g] # None =>
                 /\ ScanShape(scan'[g])
                 /\ \/ scan[g] # None /\ SameSnapshot(scan[g], scan'[g])
                    \/ /\ UNCHANGED <<heap, offs, lens>>
                       /\ scan'[g].offs = offs /\ scan'[g].lens = lens
<1> USE DEF SameSnapshot
<1>1. CASE UNCHANGED <<scan, seen>>
  BY <1>1 DEF Shape
<1>2. CASE Next /\ ~UNCHANGED <<scan, seen>>
  <2> PICK g \in Goroutine :
        BeginWrite(g) \/ Lock(g) \/ WriteStep(g) \/ Snapshot(g) \/ ScanStep(g) \/ Stop(g) \/ Close(g)
    BY <1>2 DEF Next
  <2> USE DEF Shape
  <2>1. CASE BeginWrite(g)
    <3>1. scan[g] # None /\ scan' = [scan EXCEPT ![g].visiting = FALSE] /\ seen' = seen
      BY <1>2, <2>1 DEF BeginWrite
    <3>2. scan'[g] = [scan[g] EXCEPT !.visiting = FALSE] /\ \A h \in Goroutine : h # g => scan'[h] = scan[h]
      BY <3>1
    <3>3. ScanShape(scan'[g]) /\ SameSnapshot(scan[g], scan'[g])
      <4> DEFINE s == scan[g]
      <4>1. ScanShape(s) /\ scan'[g] = [s EXCEPT !.visiting = FALSE]
        BY <3>1, <3>2
      <4> HIDE DEF s
      <4>2. ScanShape([s EXCEPT !.visiting = FALSE]) /\ SameSnapshot(s, [s EXCEPT !.visiting = FALSE])
        BY <4>1 DEF ScanShape
      <4> QED
        BY <4>1, <4>2 DEF s
    <3> QED
      BY <3>1, <3>2, <3>3
  <2>2. CASE Snapshot(g)
    <3>1. PICK shape \in {"strided", "sequential"} :
             scan' = [scan EXCEPT ![g] =
                        [shape |-> shape, offs |-> offs, lens |-> lens, size |-> size,
                         pos |-> 0, i |-> 0, length |-> <<>>, visiting |-> FALSE,
                         want |-> Values(offs)]]
      BY <2>2 DEF Snapshot, ShapesOf
    <3>2. ScanShape(scan'[g]) /\ scan'[g].offs = offs /\ scan'[g].lens = lens
      BY <3>1 DEF ScanShape
    <3>3. \A h \in Goroutine : h # g => scan'[h] = scan[h]
      BY <3>1
    <3>4. UNCHANGED <<heap, offs, lens, seen>>
      BY <2>2 DEF Snapshot, index
    <3> QED
      BY <3>1, <3>2, <3>3, <3>4
  <2>3. CASE ReadLength(g)
    <3> DEFINE s == scan[g]
               next == <<heap[s.lens.arr][s.i + 1]>>
    <3>1. s # None
      BY <2>3 DEF ReadLength, At, None
    <3>2. scan' = [scan EXCEPT ![g] = [s EXCEPT !.length = next, !.visiting = FALSE]] /\ seen' = seen
      BY <2>3 DEF ReadLength
    <3>3. ScanShape(s)
      BY <3>1
    <3> HIDE DEF s, next
    <3>4. ScanShape([s EXCEPT !.length = next, !.visiting = FALSE])
      BY <3>3 DEF ScanShape
    <3>5. SameSnapshot(s, [s EXCEPT !.length = next, !.visiting = FALSE])
      BY <3>3 DEF ScanShape
    <3> QED
      BY <3>1, <3>2, <3>4, <3>5 DEF s
  <2>4. CASE ReadDocument(g)
    BY <2>4 DEF ReadDocument, Visit, At, ScanShape, None
  <2>5. CASE ReadRecord(g)
    BY <2>5, SMTT(40) DEF ReadRecord, Visit, At, ScanShape, None
  <2>6. CASE Finish(g) \/ FailRead(g) \/ Stop(g)
    <3>1. Leave(g)
      BY <2>6 DEF Finish, FailRead, Stop
    <3> QED
      BY <3>1 DEF Leave
  <2>7. CASE Lock(g) \/ WriteStep(g) \/ Close(g)
    BY <1>2, <2>7 DEF Lock, Close, WriteStep, StartWriteAt, WriteNothing, EndWriteAt, FailWriteAt,
       AppendOffset, AppendLength, Publish, Unlock
  <2> QED
    BY <2>1, <2>2, <2>3, <2>4, <2>5, <2>6, <2>7 DEF ScanStep
<1> QED
  BY <1>1, <1>2 DEF vars

LEMMA CallChange ==
    ASSUME Shape, [Next]_vars
    PROVE  DOMAIN call' = Goroutine /\ \A g \in Goroutine : CallShape(call'[g])
<1> USE DEF Shape, CallShape
<1>1. CASE UNCHANGED call
  BY <1>1
<1>2. CASE Next /\ ~UNCHANGED call
  <2> PICK g \in Goroutine :
        BeginWrite(g) \/ Lock(g) \/ WriteStep(g) \/ Snapshot(g) \/ ScanStep(g) \/ Stop(g) \/ Close(g)
    BY <1>2 DEF Next
  <2>1. CASE StartWriteAt(g)
    BY <2>1 DEF StartWriteAt, Calls
  <2>2. CASE EndWriteAt(g)
    BY <2>2 DEF EndWriteAt, NoCall
  <2>3. CASE FailWriteAt(g) \/ Publish(g)
    <3>1. call' = [call EXCEPT ![g] = NoCall]
      BY <2>3 DEF FailWriteAt, Publish
    <3> QED
      BY <3>1 DEF NoCall
  <2>4. CASE AppendLength(g)
    BY <2>4, SMTT(40) DEF AppendLength, NoCall
  <2>5. CASE AppendOffset(g) \/ WriteNothing(g) \/ Unlock(g) \/ BeginWrite(g) \/ Lock(g) \/ Close(g)
             \/ Snapshot(g) \/ ScanStep(g) \/ Stop(g)
    BY <1>2, <2>5 DEF AppendOffset, WriteNothing, Unlock, BeginWrite, Lock, Close, Snapshot,
       ScanStep, Stop, ReadLength, ReadDocument, ReadRecord, Finish, FailRead, Leave, Untouched
  <2> QED
    BY <2>1, <2>2, <2>3, <2>4, <2>5 DEF WriteStep
<1> QED
  BY <1>1, <1>2 DEF vars

AppendsOffset == \E v : offs' \in Slice /\ AppendTo(offs, offs', v) /\ UNCHANGED <<lens, scan>>
AppendsLength == \E v : lens' \in Slice /\ AppendTo(lens, lens', v) /\ UNCHANGED <<offs, scan>>
Republishes == \E v : IsSeq(v) /\ Republish(v) /\ UNCHANGED scan

\* The three ways the arrays change.
LEMMA IndexChange ==
    ASSUME Arrays, SliceInv, [Next]_vars
    PROVE  UNCHANGED <<heap, offs, lens>> \/ AppendsOffset \/ AppendsLength \/ Republishes
<1>0. Len(heap) \in Nat /\ offs \in Slice /\ lens \in Slice
  BY SeqFacts DEF Arrays, SliceInv, Within
<1>1. CASE UNCHANGED vars
  BY <1>1 DEF vars
<1>2. CASE Next
  <2> PICK g \in Goroutine :
        BeginWrite(g) \/ Lock(g) \/ WriteStep(g) \/ Snapshot(g) \/ ScanStep(g) \/ Stop(g) \/ Close(g)
    BY <1>2 DEF Next
  <2>1. CASE AppendOffset(g)
    <3>1. PICK s1 \in [arr : {offs.arr, Len(heap) + 1}, len : {offs.len + 1}] :
             AppendTo(offs, s1, Min(call[g].at)) /\ offs' = s1
      BY <2>1 DEF AppendOffset
    <3>2. offs' \in Slice
      BY <1>0, <3>1 DEF Slice
    <3>3. UNCHANGED <<lens, scan>>
      BY <2>1 DEF AppendOffset
    <3> QED
      BY <3>1, <3>2, <3>3 DEF AppendsOffset
  <2>2. CASE AppendLength(g)
    <3>1. PICK s1 \in [arr : {lens.arr, Len(heap) + 1}, len : {lens.len + 1}] :
             AppendTo(lens, s1, Min(call[g].at)) /\ lens' = s1
      BY <2>2 DEF AppendLength
    <3>2. lens' \in Slice
      BY <1>0, <3>1 DEF Slice
    <3>3. UNCHANGED <<offs, scan>>
      BY <2>2 DEF AppendLength
    <3> QED
      BY <3>1, <3>2, <3>3 DEF AppendsLength
  <2>3. CASE Publish(g)
    <3>1. \E v : IsSeq(v) /\ Republish(v)
      BY <2>3, PublishRepublishes DEF SliceInv
    <3>2. UNCHANGED scan
      BY <2>3, Zenon DEF Publish
    <3> QED
      BY <3>1, <3>2 DEF Republishes
  <2>4. CASE BeginWrite(g) \/ Lock(g) \/ StartWriteAt(g) \/ WriteNothing(g) \/ EndWriteAt(g)
             \/ FailWriteAt(g) \/ Unlock(g) \/ Snapshot(g) \/ ScanStep(g) \/ Stop(g) \/ Close(g)
    BY <2>4, Zenon DEF BeginWrite, Lock, StartWriteAt, WriteNothing, EndWriteAt, FailWriteAt, Unlock,
       Snapshot, ScanStep, Stop, Close, ReadLength, ReadDocument, ReadRecord, Finish, FailRead,
       Leave, Untouched, index
  <2> QED
    BY <2>1, <2>2, <2>3, <2>4 DEF WriteStep
<1> QED
  BY <1>1, <1>2

\* What a slice shows stays as it is.
Kept(s) ==
    /\ s.arr \in DOMAIN heap' /\ s.len <= Len(heap'[s.arr])
    /\ \A k \in 1..s.len : heap'[s.arr][k] = heap[s.arr][k]

AllKept ==
    /\ Kept(offs) /\ Kept(lens)
    /\ \A g \in Goroutine : scan[g] # None => Kept(scan[g].offs) /\ Kept(scan[g].lens)

LEMMA IndexStep ==
    ASSUME Shape, SliceInv, [Next]_vars
    PROVE  Shape' /\ SliceInv' /\ AllKept
<1> DEFINE Fine ==
      /\ Within(offs)' /\ Within(lens)' /\ (offs.arr # lens.arr)'
      /\ \A g \in Goroutine : scan[g] # None =>
            /\ scan[g].offs.arr # lens'.arr /\ scan[g].lens.arr # offs'.arr
            /\ scan[g].offs.arr = offs'.arr => scan[g].offs.len <= offs'.len
            /\ scan[g].lens.arr = lens'.arr => scan[g].lens.len <= lens'.len
<1>0. /\ offs.len \in Nat /\ lens.len \in Nat
      /\ \A g \in Goroutine : scan[g] # None => scan[g].offs.len \in Nat /\ scan[g].lens.len \in Nat
      /\ \A a \in DOMAIN heap : Len(heap[a]) \in Nat
  BY SeqFacts DEF Shape, Arrays, SliceInv, Within, Slice
<1>1. Arrays' /\ AllKept /\ Fine
  <2>1. CASE UNCHANGED <<heap, offs, lens>>
    BY <2>1 DEF Shape, Arrays, SliceInv, Within, AllKept, Kept
  <2>2. CASE AppendsOffset
    <3>1. PICK v : offs' \in Slice /\ AppendTo(offs, offs', v) /\ UNCHANGED <<lens, scan>>
      BY <2>2 DEF AppendsOffset
    <3>2. /\ IsSeq(heap') /\ \A a \in DOMAIN heap' : IsSeq(heap'[a])
          /\ offs'.len = offs.len + 1
          /\ offs'.arr \in DOMAIN heap' /\ offs'.len <= Len(heap'[offs'.arr])
          /\ offs'.arr = offs.arr \/ offs'.arr \notin DOMAIN heap
          /\ \A a \in DOMAIN heap :
                /\ a \in DOMAIN heap' /\ Len(heap'[a]) = Len(heap[a])
                /\ \A k \in 1..Len(heap[a]) :
                      a # offs.arr \/ k # offs.len + 1 => heap'[a][k] = heap[a][k]
      BY <3>1, AppendCells DEF Shape, SliceInv
    <3>3. Arrays'
      BY <3>2 DEF Arrays
    <3>4. AllKept
      <4>1. ASSUME NEW s, Within(s), s.arr = offs.arr => s.len <= offs.len
            PROVE  Kept(s)
        BY <1>0, <3>2, <4>1 DEF Within, Slice, Kept
      <4> QED
        BY <1>0, <4>1 DEF SliceInv, AllKept
    <3>5. Fine
      BY <1>0, <3>1, <3>2 DEF SliceInv, Within
    <3> QED
      BY <3>3, <3>4, <3>5
  <2>3. CASE AppendsLength
    <3>1. PICK v : lens' \in Slice /\ AppendTo(lens, lens', v) /\ UNCHANGED <<offs, scan>>
      BY <2>3 DEF AppendsLength
    <3>2. /\ IsSeq(heap') /\ \A a \in DOMAIN heap' : IsSeq(heap'[a])
          /\ lens'.len = lens.len + 1
          /\ lens'.arr \in DOMAIN heap' /\ lens'.len <= Len(heap'[lens'.arr])
          /\ lens'.arr = lens.arr \/ lens'.arr \notin DOMAIN heap
          /\ \A a \in DOMAIN heap :
                /\ a \in DOMAIN heap' /\ Len(heap'[a]) = Len(heap[a])
                /\ \A k \in 1..Len(heap[a]) :
                      a # lens.arr \/ k # lens.len + 1 => heap'[a][k] = heap[a][k]
      BY <3>1, AppendCells DEF Shape, SliceInv
    <3>3. Arrays'
      BY <3>2 DEF Arrays
    <3>4. AllKept
      <4>1. ASSUME NEW s, Within(s), s.arr = lens.arr => s.len <= lens.len
            PROVE  Kept(s)
        BY <1>0, <3>2, <4>1 DEF Within, Slice, Kept
      <4> QED
        BY <1>0, <4>1 DEF SliceInv, AllKept
    <3>5. Fine
      BY <1>0, <3>1, <3>2 DEF SliceInv, Within
    <3> QED
      BY <3>3, <3>4, <3>5
  <2>4. CASE Republishes
    <3>1. PICK v : IsSeq(v) /\ Republish(v) /\ UNCHANGED scan
      BY <2>4 DEF Republishes
    <3>2. /\ IsSeq(heap') /\ \A a \in DOMAIN heap' : IsSeq(heap'[a])
          /\ offs' \in Slice /\ offs'.arr \in DOMAIN heap' /\ offs'.arr \notin DOMAIN heap
          /\ lens' \in Slice /\ lens'.arr \in DOMAIN heap' /\ lens'.arr \notin DOMAIN heap
          /\ offs'.arr # lens'.arr
          /\ offs'.len = Len(v) /\ lens'.len = Len(v)
          /\ heap'[offs'.arr] = v /\ heap'[lens'.arr] = v
          /\ \A a \in DOMAIN heap : a \in DOMAIN heap' /\ heap'[a] = heap[a]
      BY <3>1, RepublishCells DEF Shape
    <3>3. Arrays'
      BY <3>2 DEF Arrays
    <3>4. AllKept
      BY <1>0, <3>2 DEF SliceInv, Within, AllKept, Kept
    <3>5. Fine
      BY <1>0, <3>1, <3>2, SeqFacts, SMTT(40) DEF SliceInv, Within
    <3> QED
      BY <3>3, <3>4, <3>5
  <2> QED
    BY <2>1, <2>2, <2>3, <2>4, IndexChange DEF Shape
<1>2. Shape'
  BY <1>1, ScanChange, CallChange DEF Shape
<1>3. SliceInv'
  <2>1. ASSUME NEW g \in Goroutine, scan'[g] # None
        PROVE  /\ Within(scan[g].offs)' /\ Within(scan[g].lens)'
               /\ (scan[g].offs.arr # lens.arr)' /\ (scan[g].lens.arr # offs.arr)'
               /\ (scan[g].offs.arr = offs.arr => scan[g].offs.len <= offs.len)'
               /\ (scan[g].lens.arr = lens.arr => scan[g].lens.len <= lens.len)'
    <3>1. CASE scan[g] # None /\ SameSnapshot(scan[g], scan'[g])
      BY <1>1, <3>1 DEF SameSnapshot, AllKept, Kept, SliceInv, Within
    <3>2. CASE UNCHANGED <<heap, offs, lens>> /\ scan'[g].offs = offs /\ scan'[g].lens = lens
      BY <1>0, <1>1, <3>2 DEF SliceInv, Within
    <3> QED
      BY <2>1, <3>1, <3>2, ScanChange
  <2> QED
    BY <1>1, <2>1 DEF SliceInv
<1> QED
  BY <1>1, <1>2, <1>3

LEMMA SameSubSeq ==
    ASSUME NEW s, IsSeq(s), NEW t, IsSeq(t),
           NEW n \in Nat, n <= Len(s), n <= Len(t), \A k \in 1..n : t[k] = s[k]
    PROVE  SubSeq(t, 1, n) = SubSeq(s, 1, n)
<1>1. PICK T : s \in Seq(T)
  BY DEF IsSeq
<1>2. PICK U : t \in Seq(U)
  BY DEF IsSeq
<1> QED
  BY <1>1, <1>2

LEMMA OneRuleStep ==
    ASSUME Shape, SliceInv, [Next]_vars, NEW g \in Goroutine, scan[g] # None,
           NEW s, s = scan[g].offs \/ s = scan[g].lens
    PROVE  SubSeq(heap'[s.arr], 1, s.len) = Values(s)
<1>1. Kept(s) /\ Arrays'
  BY IndexStep DEF AllKept, Shape
<1>2. Within(s)
  BY DEF SliceInv
<1>3. IsSeq(heap[s.arr]) /\ IsSeq(heap'[s.arr]) /\ s.len \in Nat /\ s.len <= Len(heap[s.arr])
  BY <1>1, <1>2 DEF Shape, Arrays, Kept, Within, Slice
<1> QED
  BY <1>1, <1>3, SameSubSeq DEF Kept, Values

LEMMA InitIndex == Init => Shape /\ SliceInv
<1> SUFFICES ASSUME Init PROVE Shape /\ SliceInv
  OBVIOUS
<1>1. heap \in Seq(Seq(Nat)) /\ Len(heap) = 2 /\ Len(heap[1]) = 0 /\ Len(heap[2]) = 0
  BY DEF Init
<1>2. IsSeq(heap) /\ \A a \in DOMAIN heap : IsSeq(heap[a])
  BY <1>1 DEF IsSeq
<1>3. Shape
  BY <1>2 DEF Init, Shape, Arrays, CallShape, NoCall
<1>4. SliceInv
  BY <1>1 DEF Init, SliceInv, Within, Slice
<1> QED
  BY <1>3, <1>4

\* THE ONE RULE of index.go: no writer changes a cell a running scan may read,
\* for any number of goroutines and records (SnapshotScan, OneRule).
THEOREM OneRuleTheorem == Spec => OneRule
<1> DEFINE Rule ==
      \A g \in Goroutine : scan[g] # None =>
         \A s \in {scan[g].offs, scan[g].lens} :
            SubSeq(heap'[s.arr], 1, s.len) = Values(s)
<1>1. Init => Shape /\ SliceInv
  BY InitIndex
<1>2. Shape /\ SliceInv /\ [Next]_vars => Shape' /\ SliceInv'
  BY IndexStep
<1>3. Shape /\ SliceInv /\ [Next]_vars => [Rule]_vars
  BY OneRuleStep
<1>4. OneRule <=> [][Rule]_vars
  BY PTL DEF OneRule
<1> QED
  BY <1>1, <1>2, <1>3, <1>4, PTL DEF Spec

-----------------------------------------------------------------------------
\* The file and the writer's own call

LEMMA RecordsFacts ==
    ASSUME NEW cl, cl.kind \in Kind, IsFiniteSet(cl.at)
    PROVE  /\ Records(cl) \in Seq(Kind) /\ Len(Records(cl)) \in Nat
           /\ \A i \in 1..Len(Records(cl)) : Records(cl)[i] = cl.kind
<1> DEFINE n == Max({1, Cardinality(cl.at)})
<1>1. Cardinality(cl.at) \in Nat
  BY FS_CardinalityType
<1>2. n \in Nat
  <2>1. \E x \in {1, Cardinality(cl.at)} : \A y \in {1, Cardinality(cl.at)} : x >= y
    BY <1>1
  <2> QED
    BY <1>1, <2>1 DEF Max
<1>3. Records(cl) = [i \in 1..n |-> cl.kind]
  BY DEF Records
<1> HIDE DEF n
<1> QED
  BY <1>2, <1>3

\* What lands: n records of the call's kind, behind what was there.
LEMMA Landing ==
    ASSUME FileInv, NEW g \in Goroutine, EndWriteAt(g),
           call[g].kind \in Kind, IsFiniteSet(call[g].at)
    PROVE  \E n \in Nat \ {0} :
              /\ size' = size + n
              /\ file' \in Seq(Kind) /\ size + n <= Len(file')
              /\ \A p \in 1..size : file'[p] = file[p]
              /\ \A p \in (size + 1)..(size + n) : file'[p] = call[g].kind
              /\ call' = [call EXCEPT ![g] = IF call[g].kind = "foreign" THEN NoCall
                                             ELSE [@ EXCEPT !.at = Landed(call[g], n)]]
<1> DEFINE rs == Records(call[g])
           head == SubSeq(file, 1, size)
<1>1. rs \in Seq(Kind) /\ Len(rs) \in Nat /\ \A i \in 1..Len(rs) : rs[i] = call[g].kind
  BY RecordsFacts
<1>2. head \in Seq(Kind) /\ Len(head) = size /\ size \in Nat /\ \A p \in 1..size : head[p] = file[p]
  BY DEF FileInv
<1>3. PICK n \in 1..Len(rs) :
        /\ size' = size + n
        /\ file' = head \o SubSeq(rs, 1, n) \o (IF n < Len(rs) THEN <<"part">> ELSE <<>>)
        /\ call' = [call EXCEPT ![g] = IF call[g].kind = "foreign" THEN NoCall
                                       ELSE [@ EXCEPT !.at = Landed(call[g], n)]]
  BY DEF EndWriteAt
<1> DEFINE body == SubSeq(rs, 1, n)
           tail == IF n < Len(rs) THEN <<"part">> ELSE <<>>
<1> HIDE DEF rs, head
<1>4. body \in Seq(Kind) /\ Len(body) = n /\ \A i \in 1..n : body[i] = call[g].kind
  BY <1>1
<1>5. tail \in Seq(Kind) /\ Len(tail) \in Nat
  <2>1. <<"part">> \in Seq(Kind) /\ <<>> \in Seq(Kind)
    BY DEF Kind
  <2> QED
    BY <2>1
<1> HIDE DEF body, tail
<1>6. file' = head \o body \o tail
  BY <1>3 DEF body, tail
<1>7. file' \in Seq(Kind) /\ Len(file') = size + n + Len(tail)
  <2>1. head \o body \in Seq(Kind) /\ Len(head \o body) = size + n
    BY <1>2, <1>4
  <2> QED
    BY <1>5, <1>6, <2>1
<1>8. ASSUME NEW p \in 1..size
      PROVE  file'[p] = file[p]
  <2>1. (head \o body)[p] = head[p]
    BY <1>1, <1>2, <1>4
  <2>2. file'[p] = (head \o body)[p]
    BY <1>1, <1>2, <1>4, <1>5, <1>6
  <2> QED
    BY <1>2, <2>1, <2>2
<1>9. ASSUME NEW p \in (size + 1)..(size + n)
      PROVE  file'[p] = call[g].kind
  <2>1. (head \o body)[p] = body[p - size] /\ p - size \in 1..n
    BY <1>1, <1>2, <1>4
  <2>2. file'[p] = (head \o body)[p]
    BY <1>1, <1>2, <1>4, <1>5, <1>6
  <2> QED
    BY <1>4, <2>1, <2>2
<1>10. n \in Nat \ {0} /\ size + n <= Len(file')
  BY <1>1, <1>2, <1>5, <1>7
<1> QED
  BY <1>3, <1>7, <1>8, <1>9, <1>10

\* Below db.size the file only grows.
FileKept == size <= size' /\ \A p \in 1..size : file'[p] = file[p]

LEMMA LandedFacts ==
    ASSUME NEW cl, IsFiniteSet(cl.at), cl.at \subseteq Nat, size \in Nat, NEW n \in Nat \ {0}
    PROVE  /\ IsFiniteSet(Landed(cl, n)) /\ Landed(cl, n) \subseteq Nat
           /\ cl.kind = "insert" => Landed(cl, n) = (size + 1)..(size + n)
<1>1. CASE cl.kind = "insert"
  <2>1. Landed(cl, n) = {size + i : i \in 1..n}
    BY <1>1 DEF Landed
  <2>2. {size + i : i \in 1..n} = (size + 1)..(size + n)
    <3>1. \A p \in (size + 1)..(size + n) : p - size \in 1..n /\ p = size + (p - size)
      OBVIOUS
    <3>2. (size + 1)..(size + n) \subseteq {size + i : i \in 1..n}
      BY <3>1
    <3>3. {size + i : i \in 1..n} \subseteq (size + 1)..(size + n)
      OBVIOUS
    <3> QED
      BY <3>2, <3>3
  <2>3. IsFiniteSet((size + 1)..(size + n))
    BY FS_Interval
  <2> QED
    <3>1. (size + 1)..(size + n) \subseteq Nat
      OBVIOUS
    <3> QED
      BY <2>1, <2>2, <2>3, <3>1
<1>2. CASE cl.kind # "insert"
  <2>1. Landed(cl, n) \in SUBSET cl.at
    BY <1>2 DEF Landed
  <2> QED
    BY <1>2, <2>1, FS_Subset
<1> QED
  BY <1>1, <1>2

LEMMA CallsFacts ==
    ASSUME offs.len \in Nat, NEW cl \in Calls
    PROVE  cl.kind \in Kind \ {"part"} /\ IsFiniteSet(cl.at) /\ cl.at \subseteq Nat
<1>1. IsFiniteSet(1..offs.len) /\ 1..offs.len \subseteq Nat
  BY FS_Interval
<1>2. CASE cl = [kind |-> "foreign", at |-> {}]
  BY <1>2, FS_EmptySet DEF Kind
<1>3. CASE cl \in {[kind |-> "insert", at |-> 1..n] : n \in {1, 2}}
  <2>1. PICK n \in {1, 2} : cl = [kind |-> "insert", at |-> 1..n]
    BY <1>3
  <2>2. IsFiniteSet(1..n) /\ 1..n \subseteq Nat
    BY FS_Interval
  <2> QED
    BY <2>1, <2>2 DEF Kind
<1>4. CASE cl \in {[kind |-> "replace", at |-> {i}] : i \in 1..offs.len}
  <2>1. PICK i \in 1..offs.len : cl = [kind |-> "replace", at |-> {i}]
    BY <1>4
  <2>2. IsFiniteSet({i}) /\ {i} \subseteq Nat
    BY <1>1, FS_Singleton
  <2> QED
    BY <2>1, <2>2 DEF Kind
<1>5. CASE cl \in {[kind |-> "delete", at |-> p] : p \in (SUBSET (1..offs.len)) \ {{}}}
  <2>1. PICK p \in SUBSET (1..offs.len) : cl = [kind |-> "delete", at |-> p]
    BY <1>5
  <2>2. IsFiniteSet(p) /\ p \subseteq Nat
    BY <1>1, FS_Subset
  <2> QED
    BY <2>1, <2>2 DEF Kind
<1> QED
  BY <1>2, <1>3, <1>4, <1>5 DEF Calls

\* One call's part of CallInv.
CallOk(g) ==
    pc[g] \in Inside =>
       /\ call[g].kind \in Kind \ {"part"}
       /\ IsFiniteSet(call[g].at) /\ call[g].at \subseteq Nat
       /\ pc[g] \in {"offsets", "lengths"} =>
            /\ call[g].at # {}
            /\ \A p \in call[g].at : p \in 1..size /\ file[p] = "insert"

LEMMA FileStep ==
    ASSUME Shape, LockInv, SliceInv, FileInv, CallInv, [Next]_vars
    PROVE  FileInv' /\ CallInv' /\ FileKept
<1>0. size \in Nat /\ Len(file) \in Nat /\ size <= Len(file) /\ offs.len \in Nat
  BY DEF FileInv, SliceInv, Within, Slice
<1>1. CASE UNCHANGED vars
  BY <1>0, <1>1 DEF vars, FileInv, CallInv, FileKept, Inside
<1>2. CASE Next
  <2> PICK g \in Goroutine :
        BeginWrite(g) \/ Lock(g) \/ WriteStep(g) \/ Snapshot(g) \/ ScanStep(g) \/ Stop(g) \/ Close(g)
    BY <1>2 DEF Next
  <2>0. CallInv <=> \A h \in Goroutine : CallOk(h)
    BY DEF CallInv, CallOk
  <2>1. ASSUME pc[g] \in {"locked", "unlock"} \cup Inside, DOMAIN pc' = DOMAIN pc, DOMAIN call' = DOMAIN call,
               \A h \in Goroutine : h # g => pc'[h] = pc[h]
        PROVE  \A h \in Goroutine : h # g => pc'[h] \notin Inside
    BY <2>1, FreeAssumption DEF LockInv, Inside
  <2>2. CASE UNCHANGED <<file, size, call>> /\ (pc' = pc \/ \E to \in {"waiting", "locked", "unlock", "out"} : pc' = [pc EXCEPT ![g] = to])
    BY <1>0, <2>2 DEF FileInv, CallInv, FileKept, Inside, LockInv
  <2>3. CASE StartWriteAt(g)
    <3>1. PICK cl \in Calls : call' = [call EXCEPT ![g] = cl]
      BY <2>3 DEF StartWriteAt
    <3>2. pc[g] = "locked" /\ pc' = [pc EXCEPT ![g] = "writing"] /\ size' = size
          /\ file' = Append(SubSeq(file, 1, size), "part")
      BY <2>3 DEF StartWriteAt
    <3>3. /\ file' \in Seq(Kind) /\ Len(file') = size + 1
          /\ \A p \in 1..size : file'[p] = file[p]
      BY <1>0, <3>2 DEF FileInv, Kind
    <3>4. FileInv' /\ FileKept
      BY <1>0, <3>2, <3>3 DEF FileInv, FileKept
    <3>5. cl.kind \in Kind \ {"part"} /\ IsFiniteSet(cl.at) /\ cl.at \subseteq Nat
      BY <1>0, CallsFacts
    <3>6. \A h \in Goroutine : h # g => pc'[h] \notin Inside
      BY <2>1, <3>1, <3>2 DEF LockInv
    <3>7. pc'[g] = "writing" /\ call'[g] = cl
      BY <3>1, <3>2 DEF LockInv, Shape
    <3> QED
      BY <3>4, <3>5, <3>6, <3>7 DEF CallInv
  <2>4. CASE EndWriteAt(g)
    <3>1. pc[g] = "writing" /\ call[g].kind \in Kind \ {"part"} /\ IsFiniteSet(call[g].at) /\ call[g].at \subseteq Nat
      BY <2>4 DEF EndWriteAt, CallInv, Inside
    <3>2. PICK n \in Nat \ {0} :
              /\ size' = size + n
              /\ file' \in Seq(Kind) /\ size + n <= Len(file')
              /\ \A p \in 1..size : file'[p] = file[p]
              /\ \A p \in (size + 1)..(size + n) : file'[p] = call[g].kind
              /\ call' = [call EXCEPT ![g] = IF call[g].kind = "foreign" THEN NoCall
                                             ELSE [@ EXCEPT !.at = Landed(call[g], n)]]
      BY <2>4, <3>1, Landing
    <3>3. FileInv' /\ FileKept
      <4>1. \A p \in 1..size' : p \in 1..size \/ p \in (size + 1)..(size + n)
        BY <1>0, <3>2
      <4>2. \A p \in 1..size' : file'[p] # "part"
        BY <3>1, <3>2, <4>1 DEF FileInv
      <4>3. size' \in 0..Len(file') /\ size <= size'
        BY <1>0, <3>2
      <4> QED
        BY <3>2, <4>2, <4>3 DEF FileInv, FileKept
    <3>4. /\ pc' = [pc EXCEPT ![g] = CASE call[g].kind = "insert" -> "offsets"
                                       [] call[g].kind = "foreign" -> "unlock"
                                       [] OTHER -> "publish"]
      BY <2>4 DEF EndWriteAt
    <3>5. \A h \in Goroutine : h # g => pc'[h] \notin Inside
      BY <2>1, <3>1, <3>2, <3>4 DEF LockInv, Inside
    <3>6. CASE call[g].kind = "foreign"
      <4>1. pc'[g] = "unlock"
        BY <3>4, <3>6 DEF LockInv
      <4> QED
        BY <3>3, <3>5, <4>1 DEF CallInv, Inside
    <3>7. CASE call[g].kind # "foreign"
      <4>1. call'[g].kind = call[g].kind /\ call'[g].at = Landed(call[g], n)
        BY <3>2, <3>7 DEF Shape, CallShape
      <4>2. IsFiniteSet(Landed(call[g], n)) /\ Landed(call[g], n) \subseteq Nat
            /\ (call[g].kind = "insert" => Landed(call[g], n) = (size + 1)..(size + n))
        BY <1>0, <3>1, LandedFacts
      <4>3. pc'[g] \in {"offsets", "lengths"} => call[g].kind = "insert"
        BY <3>4 DEF LockInv
      <4>4. call[g].kind = "insert" =>
               /\ call'[g].at # {}
               /\ \A p \in call'[g].at : p \in 1..size' /\ file'[p] = "insert"
        <5> SUFFICES ASSUME call[g].kind = "insert"
                     PROVE  /\ call'[g].at # {}
                            /\ \A p \in call'[g].at : p \in 1..size' /\ file'[p] = "insert"
          OBVIOUS
        <5>1. call'[g].at = (size + 1)..(size + n)
          BY <4>1, <4>2
        <5>2. size + 1 \in (size + 1)..(size + n)
          BY <1>0
        <5>3. \A p \in (size + 1)..(size + n) : p \in 1..(size + n)
          BY <1>0
        <5> QED
          BY <3>2, <5>1, <5>2, <5>3
      <4> QED
        BY <3>1, <3>3, <3>5, <4>1, <4>2, <4>3, <4>4 DEF CallInv
    <3> QED
      BY <3>6, <3>7
  <2>5. CASE FailWriteAt(g) \/ Publish(g)
    <3>1. pc[g] \in Inside /\ pc' = [pc EXCEPT ![g] = "unlock"] /\ call' = [call EXCEPT ![g] = NoCall]
          /\ UNCHANGED <<file, size>>
      BY <2>5 DEF FailWriteAt, Publish, Inside
    <3>2. \A h \in Goroutine : pc'[h] \notin Inside
      BY <2>1, <3>1 DEF LockInv, Inside
    <3> QED
      BY <1>0, <3>1, <3>2 DEF CallInv, FileInv, FileKept
  <2>6. CASE AppendOffset(g)
    BY <1>0, <2>6 DEF AppendOffset, CallInv, FileInv, FileKept, Inside, LockInv
  <2>7. CASE AppendLength(g)
    <3>1. pc[g] = "lengths" /\ UNCHANGED <<file, size>>
      BY <2>7 DEF AppendLength
    <3>2. FileInv' /\ FileKept
      BY <1>0, <3>1 DEF FileInv, FileKept
    <3>3. CallOk(g) /\ pc[g] \in Inside
      BY <2>0, <3>1 DEF Inside
    <3>4. CASE Cardinality(call[g].at) > 1
      <4>1. call' = [call EXCEPT ![g].at = @ \ {Min(@)}] /\ pc' = [pc EXCEPT ![g] = "offsets"]
        BY <2>7, <3>4 DEF AppendLength
      <4>2. call'[g].kind = call[g].kind /\ call'[g].at = call[g].at \ {Min(call[g].at)}
        BY <4>1 DEF Shape, CallShape
      <4>3. IsFiniteSet(call'[g].at) /\ call'[g].at # {}
        BY <3>1, <3>3, <3>4, <4>2, RemoveMin DEF CallOk
      <4>4. \A h \in Goroutine : h # g => pc'[h] \notin Inside
        BY <2>1, <3>3, <4>1 DEF LockInv
      <4> QED
        BY <3>1, <3>2, <3>3, <4>2, <4>3, <4>4 DEF CallInv, CallOk
    <3>5. CASE ~(Cardinality(call[g].at) > 1)
      <4>1. call' = [call EXCEPT ![g] = NoCall] /\ pc' = [pc EXCEPT ![g] = "unlock"]
        BY <2>7, <3>5 DEF AppendLength
      <4>2. \A h \in Goroutine : pc'[h] \notin Inside
        BY <2>1, <3>3, <4>1 DEF LockInv, Inside
      <4> QED
        BY <3>2, <4>2 DEF CallInv
    <3> QED
      BY <3>4, <3>5
  <2>7a. CASE Close(g)
    BY <2>2, <2>7a DEF Close
  <2>8. CASE BeginWrite(g) \/ Lock(g) \/ WriteNothing(g) \/ Unlock(g)
    BY <2>2, <2>8 DEF BeginWrite, Lock, WriteNothing, Unlock
  <2>9. CASE Snapshot(g) \/ ScanStep(g) \/ Stop(g)
    <3>1. UNCHANGED <<file, size, call, pc>>
      BY <2>9 DEF Snapshot, ScanStep, Stop, ReadLength, ReadDocument, ReadRecord,
         Finish, FailRead, Leave, Untouched
    <3> QED
      BY <2>2, <3>1, SMTT(40)
  <2> QED
    BY <2>3, <2>4, <2>5, <2>6, <2>7, <2>7a, <2>8, <2>9 DEF WriteStep
<1> QED
  BY <1>1, <1>2

-----------------------------------------------------------------------------
\* The pairs of an offset and a length

LEMMA OffsetAppended ==
    ASSUME Shape, SliceInv, [Next]_vars, NEW g \in Goroutine, AppendOffset(g)
    PROVE  /\ offs'.len = offs.len + 1
           /\ heap'[offs'.arr][offs'.len] = Min(call[g].at)
           /\ \A k \in 1..offs.len : heap'[offs'.arr][k] = Offset(k)
           /\ \A k \in 1..lens.len : heap'[lens.arr][k] = Length(k)
<1>0. Len(heap) \in Nat /\ offs \in Slice
  BY SeqFacts DEF Shape, Arrays, SliceInv, Within
<1>1. PICK s1 \in [arr : {offs.arr, Len(heap) + 1}, len : {offs.len + 1}] :
         AppendTo(offs, s1, Min(call[g].at)) /\ offs' = s1
  BY DEF AppendOffset
<1>2. offs' \in Slice
  BY <1>0, <1>1 DEF Slice
<1>3. AppendTo(offs, offs', Min(call[g].at))
  BY <1>1
<1>4. Kept(lens)
  BY IndexStep DEF AllKept
<1> QED
  BY <1>2, <1>3, <1>4, AppendCells DEF Shape, SliceInv, Kept, Offset, Length

LEMMA LengthAppended ==
    ASSUME Shape, SliceInv, [Next]_vars, NEW g \in Goroutine, AppendLength(g)
    PROVE  /\ lens'.len = lens.len + 1
           /\ heap'[lens'.arr][lens'.len] = Min(call[g].at)
           /\ \A k \in 1..lens.len : heap'[lens'.arr][k] = Length(k)
           /\ \A k \in 1..offs.len : heap'[offs.arr][k] = Offset(k)
<1>0. Len(heap) \in Nat /\ lens \in Slice
  BY SeqFacts DEF Shape, Arrays, SliceInv, Within
<1>1. PICK s1 \in [arr : {lens.arr, Len(heap) + 1}, len : {lens.len + 1}] :
         AppendTo(lens, s1, Min(call[g].at)) /\ lens' = s1
  BY DEF AppendLength
<1>2. lens' \in Slice
  BY <1>0, <1>1 DEF Slice
<1>3. AppendTo(lens, lens', Min(call[g].at))
  BY <1>1
<1>4. Kept(offs)
  BY IndexStep DEF AllKept
<1> QED
  BY <1>2, <1>3, <1>4, AppendCells DEF Shape, SliceInv, Kept, Offset, Length

\* Steps that leave the index and db.size alone, and every call that appends.
Elsewhere ==
    /\ UNCHANGED <<size, heap, offs, lens, dirty>>
    /\ \A h \in Goroutine :
          /\ pc'[h] = "lengths" <=> pc[h] = "lengths"
          /\ pc'[h] = "offsets" <=> pc[h] = "offsets"
          /\ pc[h] \in {"offsets", "lengths"} => call'[h] = call[h]

LEMMA StepCases ==
    ASSUME Shape, LockInv, [Next]_vars
    PROVE  \/ Elsewhere
           \/ \E g \in Goroutine :
                 EndWriteAt(g) \/ AppendOffset(g) \/ AppendLength(g) \/ Publish(g)
<1>1. CASE UNCHANGED vars
  BY <1>1 DEF vars, Elsewhere
<1>2. CASE Next
  <2> PICK g \in Goroutine :
        BeginWrite(g) \/ Lock(g) \/ WriteStep(g) \/ Snapshot(g) \/ ScanStep(g) \/ Stop(g) \/ Close(g)
    BY <1>2 DEF Next
  <2> USE DEF Elsewhere, LockInv, Shape
  <2>1. CASE BeginWrite(g) \/ Lock(g) \/ WriteNothing(g) \/ Unlock(g) \/ Close(g)
    BY <2>1 DEF BeginWrite, Lock, WriteNothing, Unlock, Close, index
  <2>2. CASE Snapshot(g) \/ ScanStep(g) \/ Stop(g)
    <3>1. UNCHANGED <<size, heap, offs, lens, dirty, pc, call>>
      BY <2>2 DEF Snapshot, ScanStep, Stop, ReadLength, ReadDocument, ReadRecord, Finish, FailRead,
         Leave, Untouched, index
    <3> QED
      BY <3>1, SMTT(40)
  <2>3. CASE StartWriteAt(g)
    BY <2>3 DEF StartWriteAt, index
  <2>4. CASE FailWriteAt(g)
    BY <2>4 DEF FailWriteAt, index
  <2> QED
    BY <2>1, <2>2, <2>3, <2>4 DEF WriteStep
<1> QED
  BY <1>1, <1>2

LEMMA PairStep ==
    ASSUME Shape, LockInv, SliceInv, FileInv, CallInv, PairInv, [Next]_vars
    PROVE  PairInv'
<1>0. offs.len \in Nat /\ lens.len \in Nat
  BY DEF SliceInv, Within, Slice
<1>1. CASE Elsewhere
  BY <1>1 DEF Elsewhere, PairInv, Offset, Length
<1>2. ASSUME NEW g \in Goroutine, AppendOffset(g)
      PROVE  PairInv'
  <2>1. pc[g] = "offsets" /\ pc' = [pc EXCEPT ![g] = "lengths"] /\ UNCHANGED <<lens, call>>
    BY <1>2 DEF AppendOffset
  <2>2. \A h \in Goroutine : pc[h] # "lengths"
    BY <2>1 DEF LockInv, Inside
  <2>3. offs.len = lens.len /\ \A i \in 1..lens.len : Length(i) = Offset(i)
    BY <2>2 DEF PairInv
  <2>4. pc'[g] = "lengths" /\ \A h \in Goroutine : pc'[h] = "lengths" => h = g
    BY <2>1, <2>2 DEF LockInv
  <2>5. \A i \in 1..lens.len : heap'[lens'.arr][i] = heap'[offs'.arr][i]
    BY <1>2, <2>1, <2>3, OffsetAppended
  <2> QED
    BY <1>2, <2>1, <2>3, <2>4, <2>5, OffsetAppended DEF PairInv, Offset, Length
<1>3. ASSUME NEW g \in Goroutine, AppendLength(g)
      PROVE  PairInv'
  <2>1. pc[g] = "lengths" /\ UNCHANGED offs
        /\ \E to \in {"offsets", "unlock"} : pc' = [pc EXCEPT ![g] = to]
    BY <1>3 DEF AppendLength
  <2>2. \A h \in Goroutine : pc'[h] # "lengths"
    BY <2>1 DEF LockInv, Inside
  <2>3. offs.len = lens.len + 1 /\ Offset(offs.len) = Min(call[g].at)
        /\ \A i \in 1..lens.len : Length(i) = Offset(i)
    BY <2>1 DEF PairInv
  <2>4. ASSUME NEW i \in 1..lens'.len
        PROVE  heap'[lens'.arr][i] = heap'[offs'.arr][i]
    <3>1. CASE i \in 1..lens.len
      BY <1>0, <1>3, <2>1, <2>3, <3>1, LengthAppended
    <3>2. CASE i = lens.len + 1
      BY <1>0, <1>3, <2>1, <2>3, <3>2, LengthAppended
    <3> QED
      BY <1>0, <1>3, <3>1, <3>2, LengthAppended
  <2> QED
    BY <1>3, <2>1, <2>2, <2>3, <2>4, LengthAppended DEF PairInv, Offset, Length
<1>4. ASSUME NEW g \in Goroutine, Publish(g)
      PROVE  PairInv'
  <2>1. pc[g] = "publish" /\ pc' = [pc EXCEPT ![g] = "unlock"]
    BY <1>4 DEF Publish
  <2>2. \A h \in Goroutine : pc'[h] # "lengths"
    BY <2>1 DEF LockInv, Inside
  <2>3. PICK v : IsSeq(v) /\ Republish(v)
    BY <1>4, PublishRepublishes DEF Shape, SliceInv
  <2>4. offs'.len = lens'.len /\ heap'[offs'.arr] = heap'[lens'.arr]
    BY <2>3, RepublishCells DEF Shape
  <2> QED
    BY <2>2, <2>4 DEF PairInv, Offset, Length
<1>5. ASSUME NEW g \in Goroutine, EndWriteAt(g)
      PROVE  PairInv'
  <2>1. pc[g] = "writing" /\ UNCHANGED <<heap, offs, lens>>
        /\ \E to \in {"offsets", "unlock", "publish"} : pc' = [pc EXCEPT ![g] = to]
    BY <1>5 DEF EndWriteAt, index
  <2>2. \A h \in Goroutine : pc'[h] # "lengths" /\ pc[h] # "lengths"
    BY <2>1 DEF LockInv, Inside
  <2> QED
    BY <2>1, <2>2 DEF PairInv, Offset, Length
<1> QED
  BY <1>1, <1>2, <1>3, <1>4, <1>5, StepCases

LEMMA PendingFacts ==
    ASSUME LockInv
    PROVE  /\ \A g \in Goroutine : pc[g] \in {"offsets", "lengths"} => Pending = call[g].at
           /\ (\A g \in Goroutine : pc[g] \notin {"offsets", "lengths"}) => Pending = {}
<1>1. ASSUME NEW g \in Goroutine, pc[g] \in {"offsets", "lengths"}
      PROVE  Pending = call[g].at
  <2>1. \A h \in Goroutine : pc[h] \in {"offsets", "lengths"} <=> h = g
    BY <1>1 DEF LockInv, Inside
  <2> QED
    BY <2>1 DEF Pending
<1>2. ASSUME \A g \in Goroutine : pc[g] \notin {"offsets", "lengths"}
      PROVE  Pending = {}
  BY <1>2 DEF Pending
<1> QED
  BY <1>1, <1>2

LEMMA CleanStep ==
    ASSUME Shape, LockInv, SliceInv, FileInv, CallInv, PairInv, CleanInv, [Next]_vars
    PROVE  CleanInv'
<1> SUFFICES ASSUME ~dirty'
             PROVE  /\ \A i \in 1..lens'.len : Length(i)' \in 1..size' /\ file'[Length(i)'] = "insert"
                    /\ \A i, j \in 1..lens'.len : i < j => Length(i)' < Length(j)'
                    /\ \A i \in 1..lens'.len : \A p \in Pending' : Length(i)' < p
                    /\ \A p \in 1..size' : file'[p] = "insert" =>
                          p \in Pending' \/ \E i \in 1..lens'.len : Length(i)' = p
  BY DEF CleanInv
<1>0. size \in Nat /\ size' \in Nat /\ lens.len \in Nat /\ FileKept /\ LockInv'
  BY FileStep, LockStep DEF FileInv, SliceInv, Within, Slice
<1>1. CASE Elsewhere
  <2>1. Pending' = Pending
    BY <1>1 DEF Elsewhere, Pending
  <2>2. \A i : Length(i)' = Length(i)
    BY <1>1 DEF Elsewhere, Length
  <2>3. size' = size /\ lens' = lens /\ ~dirty
    BY <1>1 DEF Elsewhere
  <2> QED
    BY <1>0, <2>1, <2>2, <2>3 DEF CleanInv, FileKept
<1>2. ASSUME NEW g \in Goroutine, EndWriteAt(g)
      PROVE  CleanInv'
  <2>1. pc[g] = "writing" /\ pc[g] \in Inside /\ UNCHANGED <<heap, offs, lens, dirty>>
        /\ pc' = [pc EXCEPT ![g] = CASE call[g].kind = "insert" -> "offsets"
                                     [] call[g].kind = "foreign" -> "unlock"
                                     [] OTHER -> "publish"]
    BY <1>2 DEF EndWriteAt, Inside, index
  <2>2. call[g].kind \in Kind \ {"part"} /\ IsFiniteSet(call[g].at) /\ call[g].at \subseteq Nat
    BY <2>1 DEF CallInv
  <2>3. PICK n \in Nat \ {0} :
              /\ size' = size + n
              /\ file' \in Seq(Kind) /\ size + n <= Len(file')
              /\ \A p \in 1..size : file'[p] = file[p]
              /\ \A p \in (size + 1)..(size + n) : file'[p] = call[g].kind
              /\ call' = [call EXCEPT ![g] = IF call[g].kind = "foreign" THEN NoCall
                                             ELSE [@ EXCEPT !.at = Landed(call[g], n)]]
    BY <1>2, <2>2, Landing
  <2>4. Pending = {}
    <3>1. \A h \in Goroutine : pc[h] \notin {"offsets", "lengths"}
      BY <2>1 DEF LockInv, Inside
    <3> QED
      BY <3>1, PendingFacts
  <2>5. Pending' = IF call[g].kind = "insert" THEN (size + 1)..(size + n) ELSE {}
    <3>1. CASE call[g].kind = "insert"
      <4>1. pc'[g] = "offsets"
        BY <2>1, <3>1 DEF LockInv
      <4>2. call'[g].at = Landed(call[g], n)
        BY <2>3, <3>1 DEF Shape, CallShape
      <4>3. Landed(call[g], n) = (size + 1)..(size + n)
        BY <1>0, <2>2, <3>1, LandedFacts
      <4>4. Pending' = call'[g].at
        <5>1. \A h \in Goroutine : pc'[h] \in {"offsets", "lengths"} <=> h = g
          BY <1>0, <4>1 DEF LockInv, Inside
        <5> QED
          BY <5>1 DEF Pending
      <4> QED
        BY <3>1, <4>2, <4>3, <4>4
    <3>2. CASE call[g].kind # "insert"
      <4>1. pc'[g] \in {"unlock", "publish"}
        BY <2>1, <3>2 DEF LockInv
      <4>2. \A h \in Goroutine : pc'[h] \notin {"offsets", "lengths"}
        BY <1>0, <4>1 DEF LockInv, Inside
      <4> QED
        BY <3>2, <4>2 DEF Pending
    <3> QED
      BY <3>1, <3>2
  <2>6. lens' = lens /\ ~dirty /\ \A i : Length(i)' = Length(i)
    BY <2>1 DEF Length
  <2>7. ASSUME NEW i \in 1..lens.len
        PROVE  /\ Length(i) \in 1..size' /\ file'[Length(i)] = "insert"
               /\ \A p \in Pending' : Length(i) < p
    <3>1. Length(i) \in 1..size /\ file[Length(i)] = "insert"
      BY <2>6 DEF CleanInv
    <3> QED
      BY <1>0, <2>3, <2>5, <3>1
  <2>8. ASSUME NEW p \in 1..size', file'[p] = "insert"
        PROVE  p \in Pending' \/ \E i \in 1..lens.len : Length(i) = p
    <3>1. CASE p \in 1..size
      BY <2>3, <2>4, <2>6, <2>8, <3>1 DEF CleanInv
    <3>2. CASE p \in (size + 1)..(size + n)
      BY <2>3, <2>5, <2>8, <3>2
    <3> QED
      BY <1>0, <2>3, <3>1, <3>2
  <2> QED
    BY <2>6, <2>7, <2>8 DEF CleanInv
<1>3. ASSUME NEW g \in Goroutine, AppendOffset(g)
      PROVE  CleanInv'
  <2>1. pc[g] = "offsets" /\ pc' = [pc EXCEPT ![g] = "lengths"]
        /\ UNCHANGED <<file, size, lens, dirty, call>>
    BY <1>3 DEF AppendOffset
  <2>2. pc'[g] = "lengths"
    BY <2>1 DEF LockInv
  <2>3. Pending' = Pending
    <3>1. \A h \in Goroutine : pc'[h] \in {"offsets", "lengths"} <=> pc[h] \in {"offsets", "lengths"}
      BY <2>1, <2>2 DEF LockInv
    <3> QED
      BY <2>1, <3>1 DEF Pending
  <2>4. \A i \in 1..lens.len : Length(i)' = Length(i)
    BY <1>3, <2>1, OffsetAppended DEF Length
  <2> QED
    BY <2>1, <2>3, <2>4 DEF CleanInv
<1>4. ASSUME NEW g \in Goroutine, AppendLength(g)
      PROVE  CleanInv'
  <2> DEFINE at == call[g].at
             m == Min(call[g].at)
  <2>1. pc[g] = "lengths" /\ pc[g] \in Inside /\ UNCHANGED <<file, size, dirty>>
    BY <1>4 DEF AppendLength, Inside
  <2>2. IsFiniteSet(at) /\ at \subseteq Nat /\ at # {} /\ \A p \in at : p \in 1..size /\ file[p] = "insert"
    BY <2>1 DEF CallInv
  <2>3. m \in at /\ \A p \in at : m <= p
    BY <2>2, MinFacts
  <2>4. Pending = at
    BY <2>1, PendingFacts
  <2>5. Pending' = at \ {m}
    <3>1. Cardinality(at) > 1 <=> at \ {m} # {}
      BY <2>2, RemoveMin
    <3>2. CASE Cardinality(at) > 1
      <4>1. call' = [call EXCEPT ![g].at = @ \ {Min(@)}] /\ pc' = [pc EXCEPT ![g] = "offsets"]
        BY <1>4, <3>2 DEF AppendLength
      <4>2. call'[g].at = at \ {m} /\ pc'[g] = "offsets"
        BY <4>1 DEF Shape, CallShape, LockInv
      <4>3. \A h \in Goroutine : pc'[h] \in {"offsets", "lengths"} <=> h = g
        BY <1>0, <4>2 DEF LockInv, Inside
      <4> QED
        BY <4>2, <4>3 DEF Pending
    <3>3. CASE ~(Cardinality(at) > 1)
      <4>1. pc' = [pc EXCEPT ![g] = "unlock"]
        BY <1>4, <3>3 DEF AppendLength
      <4>2. \A h \in Goroutine : pc'[h] \notin {"offsets", "lengths"}
        BY <2>1, <4>1 DEF LockInv, Inside
      <4>3. Pending' = {}
        BY <4>2 DEF Pending
      <4> QED
        BY <3>1, <3>3, <4>3
    <3> QED
      BY <3>2, <3>3
  <2> HIDE DEF at, m
  <2>6. /\ lens'.len = lens.len + 1
        /\ \A i : i = lens'.len => Length(i)' = m
        /\ \A i \in 1..lens.len : Length(i)' = Length(i)
    BY <1>4, LengthAppended DEF Length, m
  <2>7. \A i \in 1..lens'.len : i \in 1..lens.len \/ i = lens'.len
    BY <1>0, <2>6
  <2>8. \A i \in 1..lens.len : Length(i) \in 1..size /\ file[Length(i)] = "insert" /\ \A p \in at : Length(i) < p
    BY <2>1, <2>4 DEF CleanInv
  <2>9. \A i \in 1..lens'.len : Length(i)' \in 1..size' /\ file'[Length(i)'] = "insert"
    BY <2>1, <2>2, <2>3, <2>6, <2>7, <2>8
  <2>10. ASSUME NEW i \in 1..lens'.len, NEW j \in 1..lens'.len, i < j
         PROVE  Length(i)' < Length(j)'
    <3>1. i \in 1..lens.len
      BY <1>0, <2>6, <2>10
    <3>2. CASE j \in 1..lens.len
      BY <2>1, <2>6, <2>10, <3>1, <3>2 DEF CleanInv
    <3>3. CASE j = lens'.len
      BY <2>3, <2>6, <2>8, <3>1, <3>3
    <3> QED
      BY <2>7, <3>2, <3>3
  <2>11. ASSUME NEW i \in 1..lens'.len, NEW p \in Pending'
         PROVE  Length(i)' < p
    <3>1. p \in at /\ p # m /\ m \in Nat /\ p \in Nat
      BY <2>2, <2>3, <2>5
    <3>2. CASE i \in 1..lens.len
      BY <2>6, <2>8, <3>1, <3>2
    <3>3. CASE i = lens'.len
      BY <2>3, <2>6, <3>1, <3>3
    <3> QED
      BY <2>7, <3>2, <3>3
  <2>12. ASSUME NEW p \in 1..size', file'[p] = "insert"
         PROVE  p \in Pending' \/ \E i \in 1..lens'.len : Length(i)' = p
    <3>1. p \in at \/ \E i \in 1..lens.len : Length(i) = p
      BY <2>1, <2>4, <2>12 DEF CleanInv
    <3>2. CASE p \in at /\ p # m
      BY <2>5, <3>2
    <3>3. CASE p = m
      <4>1. lens'.len \in 1..lens'.len
        BY <1>0, <2>6
      <4> QED
        BY <2>6, <3>3, <4>1
    <3>4. CASE \E i \in 1..lens.len : Length(i) = p
      <4>1. \A i \in 1..lens.len : i \in 1..lens'.len
        BY <1>0, <2>6
      <4> QED
        BY <2>6, <3>4, <4>1
    <3> QED
      BY <3>1, <3>2, <3>3, <3>4
  <2> QED
    BY <2>9, <2>10, <2>11, <2>12 DEF CleanInv
<1>5. ASSUME NEW g \in Goroutine, Publish(g)
      PROVE  CleanInv'
  BY <1>5 DEF Publish
<1> QED
  BY <1>1, <1>2, <1>3, <1>4, <1>5, StepCases DEF CleanInv

-----------------------------------------------------------------------------
\* Scans

ScanTypes ==
    \A g \in Goroutine :
       /\ IsSeq(seen[g])
       /\ scan[g] # None => IsSeq(scan[g].want) /\ scan[g].size \in Nat

IndexInv == Shape /\ LockInv /\ SliceInv /\ FileInv /\ CallInv /\ PairInv /\ CleanInv

\* No step takes from a scan what its snapshot took.
LEMMA SnapStep ==
    ASSUME IndexInv, ScanTypes, [Next]_vars, NEW g \in Goroutine, scan[g] # None,
           SameSnapshot(scan[g], scan'[g]), SnapInv(g)
    PROVE  SnapInv(g)'
<1> DEFINE s == scan[g]
           t == scan'[g]
<1>0. /\ Kept(s.offs) /\ Kept(s.lens) /\ FileKept
      /\ size \in Nat /\ size' \in Nat /\ s.size \in Nat /\ s.offs.len \in Nat
  BY IndexStep, FileStep, SMTT(40) DEF IndexInv, AllKept, SliceInv, Within, Slice, FileInv, ScanTypes
<1>1. t.shape = s.shape /\ t.offs = s.offs /\ t.lens = s.lens /\ t.size = s.size /\ t.want = s.want
  BY DEF SameSnapshot
<1>2. \A k \in 1..Len(s.want) : heap'[s.offs.arr][k] = s.want[k] /\ heap'[s.lens.arr][k] = s.want[k]
  BY <1>0 DEF SnapInv, Kept
<1>3. ASSUME s.shape = "sequential"
      PROVE  /\ s.size <= size'
             /\ \A k \in 1..Len(s.want) : file'[s.want[k]] = "insert"
             /\ \A p \in 1..s.size : file'[p] = "insert" => \E k \in 1..Len(s.want) : s.want[k] = p
  <2>1. s.size <= size /\ \A p \in 1..s.size : file'[p] = file[p]
    BY <1>0, <1>3 DEF SnapInv, FileKept
  <2> QED
    BY <1>0, <1>3, <2>1, SMTT(40) DEF SnapInv, FileKept
<1> HIDE DEF s, t
<1>4. SnapInv(g) <=>
        /\ s.shape \in {"strided", "sequential"}
        /\ s.offs.len = s.lens.len /\ Len(s.want) = s.offs.len
        /\ \A k \in 1..Len(s.want) :
              heap[s.offs.arr][k] = s.want[k] /\ heap[s.lens.arr][k] = s.want[k]
        /\ s.shape = "sequential" =>
              /\ s.size <= size
              /\ \A k \in 1..Len(s.want) : s.want[k] \in 1..s.size /\ file[s.want[k]] = "insert"
              /\ \A j, k \in 1..Len(s.want) : j < k => s.want[j] < s.want[k]
              /\ \A p \in 1..s.size : file[p] = "insert" => \E k \in 1..Len(s.want) : s.want[k] = p
  BY DEF SnapInv, s
<1>5. SnapInv(g)' <=>
        /\ t.shape \in {"strided", "sequential"}
        /\ t.offs.len = t.lens.len /\ Len(t.want) = t.offs.len
        /\ \A k \in 1..Len(t.want) :
              heap'[t.offs.arr][k] = t.want[k] /\ heap'[t.lens.arr][k] = t.want[k]
        /\ t.shape = "sequential" =>
              /\ t.size <= size'
              /\ \A k \in 1..Len(t.want) : t.want[k] \in 1..t.size /\ file'[t.want[k]] = "insert"
              /\ \A j, k \in 1..Len(t.want) : j < k => t.want[j] < t.want[k]
              /\ \A p \in 1..t.size : file'[p] = "insert" => \E k \in 1..Len(t.want) : t.want[k] = p
  BY DEF SnapInv, t
<1> QED
  BY <1>1, <1>2, <1>3, <1>4, <1>5

LEMMA ProgressKept ==
    ASSUME NEW g \in Goroutine, SameSnapshot(scan[g], scan'[g]), ProgressInv(g),
           scan'[g].i = scan[g].i, scan'[g].pos = scan[g].pos, scan'[g].length = scan[g].length,
           seen'[g] = seen[g]
    PROVE  ProgressInv(g)'
BY DEF SameSnapshot, ProgressInv

\* While no writer holds the lock the index is whole.
LEMMA SnapshotTaken ==
    ASSUME IndexInv, ScanInv, [Next]_vars, NEW g \in Goroutine, Snapshot(g)
    PROVE  /\ SnapInv(g)' /\ ProgressInv(g)'
           /\ IsSeq(scan'[g].want) /\ scan'[g].size \in Nat /\ seen' = seen
           /\ \A h \in Goroutine : h # g => scan'[h] = scan[h]
<1>1. PICK shape \in ShapesOf(dirty) :
             scan' = [scan EXCEPT ![g] =
                        [shape |-> shape, offs |-> offs, lens |-> lens, size |-> size,
                         pos |-> 0, i |-> 0, length |-> <<>>, visiting |-> FALSE,
                         want |-> Values(offs)]]
  BY DEF Snapshot
<1>2. lock = Free /\ scan[g] = None /\ UNCHANGED <<file, size, heap, seen>>
  BY DEF Snapshot, index
<1> DEFINE t == scan'[g]
           want == Values(offs)
<1>3. /\ t.shape = shape /\ t.offs = offs /\ t.lens = lens /\ t.size = size
      /\ t.pos = 0 /\ t.i = 0 /\ t.length = <<>> /\ t.want = want
      /\ \A h \in Goroutine : h # g => scan'[h] = scan[h]
  BY <1>1 DEF IndexInv, Shape
<1>4. /\ IsSeq(want) /\ Len(want) = offs.len /\ offs.len \in Nat
      /\ \A k \in 1..offs.len : want[k] = Offset(k)
  BY ValuesIsSeq DEF IndexInv, Shape, SliceInv, Within, Slice, Offset
<1>5. \A h \in Goroutine : pc[h] \notin Inside
  BY <1>2, FreeAssumption DEF IndexInv, LockInv
<1>6. offs.len = lens.len /\ \A k \in 1..offs.len : Length(k) = Offset(k)
  BY <1>5 DEF IndexInv, PairInv, Inside
<1>7. Pending = {}
  BY <1>5, PendingFacts DEF IndexInv, Inside
<1>8. size \in Nat
  BY DEF IndexInv, FileInv
<1>9. seen[g] = <<>>
  BY <1>2 DEF ScanInv
<1>10. shape \in {"strided", "sequential"} /\ (shape = "sequential" => ~dirty)
  BY DEF ShapesOf
<1>11. ASSUME shape = "sequential"
       PROVE  /\ \A k \in 1..Len(want) : want[k] \in 1..size /\ file[want[k]] = "insert"
              /\ \A j, k \in 1..Len(want) : j < k => want[j] < want[k]
              /\ \A p \in 1..size : file[p] = "insert" => \E k \in 1..Len(want) : want[k] = p
  <2>1. \A k \in 1..lens.len : want[k] = Length(k)
    BY <1>4, <1>6
  <2> QED
    BY <1>4, <1>6, <1>7, <1>10, <1>11, <2>1 DEF IndexInv, CleanInv
<1> HIDE DEF t, want
<1>12. SnapInv(g)'
  <2>1. \A k \in 1..Len(want) : heap'[offs.arr][k] = want[k] /\ heap'[lens.arr][k] = want[k]
    BY <1>2, <1>4, <1>6 DEF Offset, Length
  <2> QED
    BY <1>2, <1>3, <1>4, <1>6, <1>8, <1>10, <1>11, <2>1 DEF SnapInv, t
<1>13. ProgressInv(g)'
  <2>1. ASSUME shape = "sequential", NEW k \in 1..Len(want)
        PROVE  want[k] <= 0 <=> k <= 0
    BY <1>4, <1>11, <2>1
  <2>2. Len(seen'[g]) = 0
    BY <1>2, <1>9
  <2> QED
    BY <1>3, <1>4, <1>8, <2>1, <2>2 DEF ProgressInv, t
<1> QED
  BY <1>2, <1>3, <1>4, <1>8, <1>12, <1>13 DEF t

\* The length read next is that of the next document.
LEMMA LengthRead ==
    ASSUME IndexInv, ScanTypes, ScanInv, [Next]_vars, NEW g \in Goroutine, ReadLength(g)
    PROVE  scan[g] # None /\ SameSnapshot(scan[g], scan'[g]) /\ ProgressInv(g)'
<1> DEFINE s == scan[g]
           t == scan'[g]
           next == <<heap[s.lens.arr][s.i + 1]>>
<1>1. s # None /\ ScanShape(s)
  BY DEF ReadLength, At, None, IndexInv, Shape
<1>2. SnapInv(g) /\ ProgressInv(g) /\ s.offs.len \in Nat
  BY <1>1 DEF ScanInv, IndexInv, SliceInv, Within, Slice
<1>3. s.i \in Nat /\ Len(s.want) = s.offs.len /\ s.i < s.offs.len /\ s.shape = "strided"
  BY <1>2 DEF SnapInv, ProgressInv, ReadLength, At, More
<1>4. next = <<s.want[s.i + 1]>>
  <2>1. s.i + 1 \in 1..Len(s.want)
    BY <1>2, <1>3
  <2>2. \A k \in 1..Len(s.want) : heap[s.lens.arr][k] = s.want[k]
    BY <1>2 DEF SnapInv
  <2> QED
    BY <2>1, <2>2
<1>5. t = [s EXCEPT !.length = next, !.visiting = FALSE] /\ seen' = seen
  BY DEF ReadLength, IndexInv, Shape
<1> HIDE DEF s, t, next
<1>6. t.shape = s.shape /\ t.offs = s.offs /\ t.lens = s.lens /\ t.size = s.size /\ t.want = s.want
      /\ t.i = s.i /\ t.length = next
  BY <1>1, <1>5 DEF ScanShape
<1>7. ProgressInv(g)'
  BY <1>2, <1>3, <1>4, <1>5, <1>6 DEF ProgressInv, s, t
<1> QED
  BY <1>1, <1>6, <1>7 DEF SameSnapshot, s, t

\* The pair handed out is the next one of the snapshot.
LEMMA DocumentRead ==
    ASSUME IndexInv, ScanTypes, ScanInv, [Next]_vars, NEW g \in Goroutine, ReadDocument(g)
    PROVE  scan[g] # None /\ SameSnapshot(scan[g], scan'[g]) /\ ProgressInv(g)' /\ IsSeq(seen'[g])
<1> DEFINE s == scan[g]
           t == scan'[g]
           pair == <<heap[s.offs.arr][s.i + 1], s.length[1]>>
<1>1. s # None /\ ScanShape(s) /\ s.shape = "strided" /\ s.length # <<>>
  BY DEF ReadDocument, At, None, IndexInv, Shape
<1>2. SnapInv(g) /\ ProgressInv(g) /\ s.offs.len \in Nat
  BY <1>1 DEF ScanInv, IndexInv, SliceInv, Within, Slice
<1>3. s.i \in Nat /\ Len(s.want) = s.offs.len /\ s.i < Len(s.want) /\ s.length = <<s.want[s.i + 1]>>
      /\ IsSeq(seen[g]) /\ Len(seen[g]) = s.i
  BY <1>1, <1>2 DEF SnapInv, ProgressInv, ScanTypes
<1>4. pair = <<s.want[s.i + 1], s.want[s.i + 1]>>
  <2>1. s.i + 1 \in 1..Len(s.want) /\ s.length[1] = s.want[s.i + 1]
    BY <1>2, <1>3
  <2>2. \A k \in 1..Len(s.want) : heap[s.offs.arr][k] = s.want[k]
    BY <1>2 DEF SnapInv
  <2> QED
    BY <2>1, <2>2
<1>5. /\ t = [s EXCEPT !.i = @ + 1, !.length = <<>>, !.visiting = TRUE]
      /\ seen'[g] = Append(seen[g], pair)
  BY DEF ReadDocument, Visit, IndexInv, Shape
<1> HIDE DEF s, t, pair
<1>6. t.shape = s.shape /\ t.offs = s.offs /\ t.lens = s.lens /\ t.size = s.size /\ t.want = s.want
      /\ t.i = s.i + 1 /\ t.length = <<>>
  BY <1>1, <1>5 DEF ScanShape
<1>7. /\ IsSeq(seen'[g]) /\ Len(seen'[g]) = s.i + 1
      /\ \A k \in 1..s.i : seen'[g][k] = seen[g][k]
      /\ seen'[g][s.i + 1] = pair
  BY <1>3, <1>5, AppendFacts
<1>8. ASSUME NEW k \in 1..t.i
      PROVE  seen'[g][k] = <<t.want[k], t.want[k]>>
  <2>1. CASE k \in 1..s.i
    BY <1>2, <1>6, <1>7, <2>1 DEF ProgressInv, s
  <2>2. CASE k = s.i + 1
    BY <1>4, <1>6, <1>7, <2>2
  <2> QED
    BY <1>3, <1>6, <2>1, <2>2
<1>9. ProgressInv(g)'
  BY <1>1, <1>3, <1>6, <1>7, <1>8 DEF ProgressInv, t
<1> QED
  BY <1>1, <1>6, <1>7, <1>9 DEF SameSnapshot, s, t

\* A sequential scan hands out an insert and passes over every other record.
LEMMA RecordRead ==
    ASSUME IndexInv, ScanTypes, ScanInv, [Next]_vars, NEW g \in Goroutine, ReadRecord(g)
    PROVE  scan[g] # None /\ SameSnapshot(scan[g], scan'[g]) /\ ProgressInv(g)' /\ IsSeq(seen'[g])
<1> DEFINE s == scan[g]
           t == scan'[g]
           next == s.pos + 1
<1>1. s # None /\ ScanShape(s) /\ s.shape = "sequential" /\ s.i < s.offs.len /\ s.pos < s.size
  BY DEF ReadRecord, At, More, None, IndexInv, Shape
<1>2. SnapInv(g) /\ ProgressInv(g) /\ s.offs.len \in Nat /\ s.size \in Nat /\ size \in Nat
  BY <1>1 DEF ScanInv, IndexInv, SliceInv, Within, Slice, FileInv, ScanTypes
<1>3. /\ Len(s.want) = s.offs.len /\ s.i \in Nat /\ s.i < Len(s.want)
      /\ s.pos \in Nat /\ next \in 1..s.size /\ s.size <= size
      /\ IsSeq(seen[g]) /\ Len(seen[g]) = s.i
  BY <1>1, <1>2 DEF SnapInv, ProgressInv, ScanTypes
<1>4. /\ \A k \in 1..Len(s.want) : s.want[k] \in 1..s.size /\ file[s.want[k]] = "insert"
      /\ \A j, k \in 1..Len(s.want) : j < k => s.want[j] < s.want[k]
      /\ \A p \in 1..s.size : file[p] = "insert" => \E k \in 1..Len(s.want) : s.want[k] = p
      /\ \A k \in 1..Len(s.want) : s.want[k] <= s.pos <=> k <= s.i
      /\ \A k \in 1..s.i : seen[g][k] = <<s.want[k], s.want[k]>>
  BY <1>1, <1>2 DEF SnapInv, ProgressInv
<1>5. file[next] # "part"
  <2>1. next \in 1..size
    BY <1>2, <1>3
  <2> QED
    BY <2>1 DEF IndexInv, FileInv
<1>6. CASE file[next] = "insert"
  <2>1. /\ t = [s EXCEPT !.pos = @ + 1, !.i = @ + 1, !.visiting = TRUE]
        /\ seen'[g] = Append(seen[g], <<next, next>>)
    BY <1>6 DEF ReadRecord, Visit, IndexInv, Shape
  <2>2. s.want[s.i + 1] = next
    <3>1. PICK k \in 1..Len(s.want) : s.want[k] = next
      BY <1>3, <1>4, <1>6
    <3>2. k > s.i
      BY <1>3, <1>4, <3>1
    <3>3. CASE k = s.i + 1
      BY <3>1, <3>3
    <3>4. CASE k > s.i + 1
      <4>1. s.i + 1 \in 1..Len(s.want) /\ s.want[s.i + 1] \in Nat
        BY <1>3, <1>4
      <4>2. s.want[s.i + 1] < next
        BY <1>4, <3>1, <3>4, <4>1
      <4>3. s.want[s.i + 1] <= s.pos
        BY <1>3, <4>1, <4>2
      <4> QED
        BY <1>3, <1>4, <4>1, <4>3
    <3> QED
      BY <1>3, <3>2, <3>3, <3>4
  <2> HIDE DEF s, t, next
  <2>3. t.shape = s.shape /\ t.offs = s.offs /\ t.lens = s.lens /\ t.size = s.size /\ t.want = s.want
        /\ t.i = s.i + 1 /\ t.pos = s.pos + 1
    BY <1>1, <2>1 DEF ScanShape
  <2>4. /\ IsSeq(seen'[g]) /\ Len(seen'[g]) = s.i + 1
        /\ \A k \in 1..s.i : seen'[g][k] = seen[g][k]
        /\ seen'[g][s.i + 1] = <<next, next>>
    BY <1>3, <2>1, AppendFacts
  <2>5. ASSUME NEW k \in 1..t.i
        PROVE  seen'[g][k] = <<t.want[k], t.want[k]>>
    <3>1. CASE k \in 1..s.i
      BY <1>4, <2>3, <2>4, <3>1
    <3>2. CASE k = s.i + 1
      BY <2>2, <2>3, <2>4, <3>2
    <3> QED
      BY <1>3, <2>3, <3>1, <3>2
  <2>6. ASSUME NEW k \in 1..Len(t.want)
        PROVE  t.want[k] <= t.pos <=> k <= t.i
    <3>1. k \in 1..Len(s.want) /\ s.want[k] \in Nat /\ next = s.pos + 1
      BY <1>4, <2>3 DEF next
    <3>2. CASE k <= s.i
      BY <1>3, <1>4, <2>3, <3>1, <3>2
    <3>3. CASE k = s.i + 1
      BY <1>3, <2>2, <2>3, <3>1, <3>3
    <3>4. CASE k > s.i + 1
      <4>1. s.i + 1 \in 1..Len(s.want)
        BY <1>3
      <4>2. next < s.want[k]
        BY <1>4, <2>2, <3>1, <3>4, <4>1
      <4> QED
        BY <1>3, <2>3, <3>1, <3>4, <4>2
    <3> QED
      BY <1>3, <3>1, <3>2, <3>3, <3>4
  <2>7. t.pos \in 0..t.size /\ t.i \in 0..Len(t.want)
    BY <1>1, <1>2, <1>3, <2>3
  <2>8. ProgressInv(g)'
    BY <1>1, <2>3, <2>4, <2>5, <2>6, <2>7 DEF ProgressInv, t
  <2> QED
    BY <1>1, <2>3, <2>4, <2>8 DEF SameSnapshot, s, t
<1>7. CASE file[next] # "insert"
  <2>1. t = [s EXCEPT !.pos = @ + 1, !.visiting = FALSE] /\ seen' = seen
    BY <1>5, <1>7 DEF ReadRecord, IndexInv, Shape
  <2>2. ASSUME NEW k \in 1..Len(s.want)
        PROVE  s.want[k] <= next <=> k <= s.i
    <3>1. s.want[k] # next /\ s.want[k] \in Nat /\ (s.want[k] <= s.pos <=> k <= s.i)
      BY <1>4, <1>7
    <3> HIDE DEF s
    <3>2. s.want[k] <= s.pos + 1 <=> s.want[k] <= s.pos
      BY <1>3, <3>1
    <3> QED
      BY <3>1, <3>2
  <2> HIDE DEF s, t, next
  <2>3. t.shape = s.shape /\ t.offs = s.offs /\ t.lens = s.lens /\ t.size = s.size /\ t.want = s.want
        /\ t.i = s.i /\ t.pos = s.pos + 1
    BY <1>1, <2>1 DEF ScanShape
  <2>4. t.pos \in 0..t.size
    BY <1>1, <1>2, <1>3, <2>3
  <2>5. ProgressInv(g)'
    BY <1>1, <1>3, <1>4, <2>1, <2>2, <2>3, <2>4 DEF ProgressInv, t, next
  <2> QED
    BY <1>1, <1>3, <2>1, <2>3, <2>5 DEF SameSnapshot, s, t
<1> QED
  BY <1>6, <1>7

\* One scan's part of ScanInv and ScanTypes.
ScanOk(g) ==
    /\ IsSeq(seen[g])
    /\ IF scan[g] = None THEN seen[g] = <<>>
       ELSE SnapInv(g) /\ ProgressInv(g) /\ IsSeq(scan[g].want) /\ scan[g].size \in Nat

LEMMA ScanOkAll == ScanInv /\ ScanTypes <=> \A g \in Goroutine : ScanOk(g)
BY DEF ScanInv, ScanTypes, ScanOk

\* A scan whose own step this is not.
LEMMA OtherScan ==
    ASSUME IndexInv, ScanTypes, ScanInv, [Next]_vars, NEW h \in Goroutine,
           scan'[h] = scan[h], seen'[h] = seen[h]
    PROVE  ScanOk(h)'
<1>1. CASE scan[h] = None
  BY <1>1 DEF ScanOk, ScanInv, ScanTypes
<1>2. CASE scan[h] # None
  <2>1. SameSnapshot(scan[h], scan'[h])
    BY DEF SameSnapshot
  <2>2. SnapInv(h) /\ ProgressInv(h)
    BY <1>2 DEF ScanInv
  <2>3. SnapInv(h)'
    BY <1>2, <2>1, <2>2, SnapStep
  <2>4. ProgressInv(h)'
    BY <2>1, <2>2, ProgressKept
  <2> QED
    BY <1>2, <2>3, <2>4 DEF ScanOk, ScanTypes
<1> QED
  BY <1>1, <1>2

\* A scan that goes on, by its own step.
LEMMA OwnScan ==
    ASSUME IndexInv, ScanTypes, ScanInv, [Next]_vars, NEW g \in Goroutine,
           scan[g] # None, SameSnapshot(scan[g], scan'[g]), ProgressInv(g)', IsSeq(seen'[g])
    PROVE  ScanOk(g)'
<1>1. SnapInv(g)'
  BY SnapStep DEF ScanInv
<1>2. IsSeq(scan'[g].want) /\ scan'[g].size \in Nat
  BY DEF ScanTypes, SameSnapshot
<1>3. scan'[g] # None
  BY <1>1 DEF SnapInv, None
<1> QED
  BY <1>1, <1>2, <1>3 DEF ScanOk

LEMMA ScanInvStep ==
    ASSUME IndexInv, ScanTypes, ScanInv, [Next]_vars
    PROVE  ScanTypes' /\ ScanInv'
<1> SUFFICES \A h \in Goroutine : ScanOk(h)'
  BY ScanOkAll DEF ScanInv, ScanTypes, ScanOk
<1>1. CASE UNCHANGED <<scan, seen>>
  BY <1>1, OtherScan
<1>2. CASE Next /\ ~UNCHANGED <<scan, seen>>
  <2> PICK g \in Goroutine :
        BeginWrite(g) \/ Lock(g) \/ WriteStep(g) \/ Snapshot(g) \/ ScanStep(g) \/ Stop(g) \/ Close(g)
    BY <1>2 DEF Next
  <2>1. DOMAIN scan = Goroutine /\ DOMAIN seen = Goroutine
    BY DEF IndexInv, Shape
  <2>2. ASSUME \A h \in Goroutine : h # g => scan'[h] = scan[h] /\ seen'[h] = seen[h], ScanOk(g)'
        PROVE  \A h \in Goroutine : ScanOk(h)'
    BY <2>2, OtherScan
  <2>3. CASE BeginWrite(g)
    <3>1. scan[g] # None /\ scan' = [scan EXCEPT ![g].visiting = FALSE] /\ seen' = seen
      BY <1>2, <2>3 DEF BeginWrite
    <3> DEFINE s == scan[g]
               t == scan'[g]
    <3>2. t = [s EXCEPT !.visiting = FALSE] /\ ScanShape(s) /\ \A h \in Goroutine : h # g => scan'[h] = scan[h]
      BY <2>1, <3>1 DEF IndexInv, Shape
    <3> HIDE DEF s, t
    <3>3. t.shape = s.shape /\ t.offs = s.offs /\ t.lens = s.lens /\ t.size = s.size /\ t.want = s.want
          /\ t.i = s.i /\ t.pos = s.pos /\ t.length = s.length
      BY <3>2 DEF ScanShape
    <3>4. SameSnapshot(scan[g], scan'[g]) /\ scan'[g].i = scan[g].i /\ scan'[g].pos = scan[g].pos
          /\ scan'[g].length = scan[g].length
      BY <3>3 DEF SameSnapshot, s, t
    <3>5. ProgressInv(g)' /\ IsSeq(seen'[g])
      BY <3>1, <3>4, ProgressKept DEF ScanInv, ScanTypes
    <3>6. ScanOk(g)'
      BY <3>1, <3>4, <3>5, OwnScan
    <3> QED
      BY <2>2, <3>1, <3>2, <3>6
  <2>4. CASE Snapshot(g)
    <3>1. /\ SnapInv(g)' /\ ProgressInv(g)' /\ IsSeq(scan'[g].want) /\ scan'[g].size \in Nat
          /\ seen' = seen /\ \A h \in Goroutine : h # g => scan'[h] = scan[h]
      BY <2>4, SnapshotTaken
    <3>2. IsSeq(seen'[g]) /\ scan'[g] # None
      BY <3>1 DEF ScanTypes, SnapInv, None
    <3> QED
      BY <2>2, <3>1, <3>2 DEF ScanOk
  <2>5. CASE ReadLength(g)
    <3>1. seen' = seen /\ \A h \in Goroutine : h # g => scan'[h] = scan[h]
      BY <2>1, <2>5 DEF ReadLength
    <3>2. ScanOk(g)'
      BY <2>5, <3>1, LengthRead, OwnScan DEF ScanTypes
    <3> QED
      BY <2>2, <3>1, <3>2
  <2>6. CASE ReadDocument(g)
    <3>1. \A h \in Goroutine : h # g => scan'[h] = scan[h] /\ seen'[h] = seen[h]
      BY <2>1, <2>6 DEF ReadDocument, Visit
    <3>2. ScanOk(g)'
      BY <2>6, DocumentRead, OwnScan
    <3> QED
      BY <2>2, <3>1, <3>2
  <2>7. CASE ReadRecord(g)
    <3>1. \A h \in Goroutine : h # g => scan'[h] = scan[h] /\ seen'[h] = seen[h]
      BY <2>1, <2>7 DEF ReadRecord, Visit
    <3>2. ScanOk(g)'
      BY <2>7, RecordRead, OwnScan
    <3> QED
      BY <2>2, <3>1, <3>2
  <2>8. CASE Finish(g) \/ FailRead(g) \/ Stop(g)
    <3>1. Leave(g)
      BY <2>8 DEF Finish, FailRead, Stop
    <3>2. scan'[g] = None /\ seen'[g] = <<>>
          /\ \A h \in Goroutine : h # g => scan'[h] = scan[h] /\ seen'[h] = seen[h]
      BY <2>1, <3>1 DEF Leave
    <3>3. IsSeq(<<>>)
      <4>1. <<>> \in Seq(Nat)
        BY SMTT(40)
      <4> QED
        BY <4>1 DEF IsSeq
    <3> QED
      BY <2>2, <3>2, <3>3 DEF ScanOk
  <2>9. CASE Lock(g) \/ WriteStep(g) \/ Close(g)
    BY <1>2, <2>9 DEF Lock, Close, WriteStep, StartWriteAt, WriteNothing, EndWriteAt, FailWriteAt,
       AppendOffset, AppendLength, Publish, Unlock
  <2> QED
    BY <2>3, <2>4, <2>5, <2>6, <2>7, <2>8, <2>9 DEF ScanStep
<1> QED
  BY <1>1, <1>2 DEF vars

-----------------------------------------------------------------------------
\* The invariant and what it implies

FullInv == IndexInv /\ ScanTypes /\ ScanInv

LEMMA FullInit == Init => FullInv
<1> SUFFICES ASSUME Init PROVE FullInv
  OBVIOUS
<1>1. Shape /\ SliceInv
  BY InitIndex
<1>2. LockInv
  BY FreeAssumption DEF Init, LockInv, Inside
<1>3. FileInv
  <2>1. <<>> \in Seq(Kind) /\ Len(<<>>) = 0
    OBVIOUS
  <2> QED
    BY <2>1 DEF Init, FileInv
<1>4. CallInv /\ PairInv
  BY DEF Init, CallInv, PairInv, Inside
<1>5. CleanInv
  BY DEF Init, CleanInv
<1>6. ScanTypes /\ ScanInv
  <2>1. <<>> \in Seq(Nat)
    OBVIOUS
  <2> QED
    BY <2>1 DEF Init, ScanTypes, ScanInv, IsSeq
<1> QED
  BY <1>1, <1>2, <1>3, <1>4, <1>5, <1>6 DEF FullInv, IndexInv

LEMMA FullStep == FullInv /\ [Next]_vars => FullInv'
<1> SUFFICES ASSUME FullInv, [Next]_vars PROVE FullInv'
  OBVIOUS
<1>1. Shape /\ LockInv /\ SliceInv /\ FileInv /\ CallInv /\ PairInv /\ CleanInv
  BY DEF FullInv, IndexInv
<1>2. Shape' /\ SliceInv'
  BY <1>1, IndexStep
<1>3. LockInv'
  BY <1>1, LockStep
<1>4. FileInv' /\ CallInv'
  BY <1>1, FileStep
<1>5. PairInv'
  BY <1>1, PairStep
<1>6. CleanInv'
  BY <1>1, CleanStep
<1>7. ScanTypes' /\ ScanInv'
  BY ScanInvStep DEF FullInv
<1> QED
  BY <1>2, <1>3, <1>4, <1>5, <1>6, <1>7 DEF FullInv, IndexInv

\* The invariant the scans rest on holds in every state (SnapshotScan, IInv).
THEOREM IndexTheorem == Spec => []IInv
<1>1. FullInv => IInv
  BY DEF FullInv, IndexInv, IInv
<1> QED
  BY <1>1, FullInit, FullStep, PTL DEF Spec

LEMMA Snapshots == FullInv => ScanIsSnapshot
<1> SUFFICES ASSUME FullInv, NEW g \in Goroutine, scan[g] # None
             PROVE  LET all == [i \in DOMAIN scan[g].want |-> <<scan[g].want[i], scan[g].want[i]>>]
                    IN  IsPrefix(seen[g], all) /\ (Ended(g) => Len(seen[g]) = Len(scan[g].want))
  BY DEF ScanIsSnapshot
<1> DEFINE s == scan[g]
           all == [i \in DOMAIN s.want |-> <<s.want[i], s.want[i]>>]
           n == Len(s.want)
<1>1. SnapInv(g) /\ ProgressInv(g) /\ IsSeq(s.want) /\ IsSeq(seen[g]) /\ s.size \in Nat
  BY DEF FullInv, ScanInv, ScanTypes
<1>2. n \in Nat /\ DOMAIN s.want = 1..n
  BY <1>1, SeqFacts
<1>3. s.i \in 0..n /\ Len(seen[g]) = s.i /\ \A k \in 1..s.i : seen[g][k] = <<s.want[k], s.want[k]>>
  BY <1>1 DEF ProgressInv
<1>4. IsSeq(all) /\ Len(all) = n /\ \A k \in 1..n : all[k] = <<s.want[k], s.want[k]>>
  <2> DEFINE pair(i) == <<s.want[i], s.want[i]>>
  <2>1. all = [i \in 1..n |-> pair(i)]
    BY <1>2
  <2> HIDE DEF s, n, all, pair
  <2>2. all \in Seq({pair(i) : i \in 1..n}) /\ Len(all) = n /\ \A k \in 1..n : all[k] = pair(k)
    BY <1>2, <2>1
  <2> QED
    BY <2>2 DEF IsSeq, pair
<1>5. IsPrefix(seen[g], all)
  <2> HIDE DEF s, n, all
  <2>1. s.i \in Nat /\ s.i <= Len(all) /\ s.i <= Len(seen[g])
        /\ \A k \in 1..s.i : all[k] = seen[g][k]
    <3>1. s.i \in Nat /\ s.i <= n /\ \A k \in 1..s.i : k \in 1..n
      BY <1>2, <1>3
    <3>2. \A k \in 1..s.i : all[k] = seen[g][k]
      BY <1>3, <1>4, <3>1
    <3> QED
      BY <1>3, <1>4, <3>1, <3>2
  <2>2. SubSeq(all, 1, s.i) = SubSeq(seen[g], 1, s.i)
    BY <1>1, <1>4, <2>1, SameSubSeq
  <2> QED
    BY <1>2, <1>3, <1>4, <2>2 DEF IsPrefix
<1>6. ASSUME Ended(g)
      PROVE  Len(seen[g]) = n
  <2>1. CASE ~More(g)
    BY <1>1, <1>2, <1>3, <2>1 DEF More, SnapInv
  <2>2. CASE s.shape = "sequential" /\ s.pos = s.size
    <3>1. n \in 1..n => s.want[n] \in 1..s.size /\ (s.want[n] <= s.pos <=> n <= s.i)
      BY <1>1, <2>2 DEF SnapInv, ProgressInv
    <3> QED
      BY <1>1, <1>2, <1>3, <2>2, <3>1
  <2> QED
    BY <1>6, <2>1, <2>2 DEF Ended
<1> QED
  BY <1>5, <1>6

\* A scan without a lock sees its snapshot and nothing else, beside any number of
\* writers, through arrays that are extended and replaced under it and a file
\* that grows (SnapshotScan, ScanIsSnapshot).
THEOREM ScanIsSnapshotTheorem == Spec => []ScanIsSnapshot
BY FullInit, FullStep, Snapshots, PTL DEF Spec
=============================================================================
