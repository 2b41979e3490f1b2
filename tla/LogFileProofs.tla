--------------------------- MODULE LogFileProofs ---------------------------
(***************************************************************************)
(* What holds of LogFile for every set of records, every record length and *)
(* every sequence of writes, failures, crashes and replays.                *)
(***************************************************************************)
EXTENDS LogFileRefinement, WalkFile, WellFoundedInduction, TLAPS

-----------------------------------------------------------------------------
\* Lemmas on cells and records

\* Putting a cell at the end or inside changes that cell and no other.
LEMMA PutCell ==
    ASSUME NEW cells \in Seq(Cell), NEW c \in Cell,
           NEW i \in 1..(Len(cells) + 1)
    PROVE  /\ Put(cells, i, c) \in Seq(Cell)
           /\ Len(Put(cells, i, c)) >= i
           /\ Len(Put(cells, i, c)) >= Len(cells)
           /\ Put(cells, i, c)[i] = c
           /\ \A j \in 1..Len(cells) : j # i => Put(cells, i, c)[j] = cells[j]
BY DEF Put

\* A record stays intact when the cells up to its end stay what they were.
LEMMA IntactKept ==
    ASSUME NEW cells \in Seq(Cell), NEW other \in Seq(Cell), NEW n \in Nat,
           n <= Len(other),
           \A j \in 1..n : j <= Len(cells) => other[j] = cells[j],
           NEW e \in Entry, End(e) <= n, Intact(cells, e)
    PROVE  Intact(other, e)
<1>1. PayloadCells[e.rec] \in Nat /\ e.off \in Nat
  BY PayloadAssumption DEF Entry
<1>2. SUFFICES ASSUME NEW p \in 0..PayloadCells[e.rec]
               PROVE  /\ e.off + p + 1 <= Len(other)
                      /\ other[e.off + p + 1] = [rec |-> e.rec, part |-> p]
  BY DEF Intact
<1>3. /\ e.off + p + 1 \in 1..n
      /\ e.off + p + 1 <= Len(cells)
      /\ cells[e.off + p + 1] = [rec |-> e.rec, part |-> p]
  BY <1>1, SMTT(40) DEF End, Intact
<1> QED
  BY <1>3

LEMMA EndType ==
    ASSUME NEW e \in Entry
    PROVE  End(e) \in Nat /\ e.off < End(e)
BY PayloadAssumption DEF End, Entry

\* The same for a sequence of records.
LEMMA AllIntactKept ==
    ASSUME NEW cells \in Seq(Cell), NEW other \in Seq(Cell), NEW n \in Nat,
           n <= Len(other),
           \A j \in 1..n : j <= Len(cells) => other[j] = cells[j],
           NEW ix \in Seq(Entry), Below(n, ix), AllIntact(cells, ix)
    PROVE  AllIntact(other, ix)
<1> SUFFICES ASSUME NEW i \in DOMAIN ix
             PROVE  Intact(other, ix[i])
  BY DEF AllIntact
<1>1. ix[i] \in Entry /\ End(ix[i]) <= n /\ Intact(cells, ix[i])
  BY DEF Below, AllIntact
<1> QED
  BY <1>1, IntactKept

\* Intact records end inside the file.
LEMMA IntactFits ==
    ASSUME NEW cells \in Seq(Cell), NEW e \in Entry, Intact(cells, e)
    PROVE  /\ End(e) <= Len(cells)
           /\ cells[e.off + 1] = [rec |-> e.rec, part |-> 0]
<1>1. PayloadCells[e.rec] \in Nat /\ e.off \in Nat
  BY PayloadAssumption DEF Entry
<1>2. e.off + PayloadCells[e.rec] + 1 <= Len(cells)
  <2>1. PayloadCells[e.rec] \in 0..PayloadCells[e.rec]
    BY <1>1
  <2> QED
    BY <2>1 DEF Intact
<1>3. cells[e.off + 0 + 1] = [rec |-> e.rec, part |-> 0]
  BY <1>1 DEF Intact
<1> QED
  BY <1>1, <1>2, <1>3 DEF End

LEMMA EndOfFits ==
    ASSUME NEW cells \in Seq(Cell), NEW ix \in Seq(Entry), AllIntact(cells, ix)
    PROVE  EndOf(ix) \in Nat /\ EndOf(ix) <= Len(cells)
<1>1. CASE ix = <<>>
  BY <1>1 DEF EndOf
<1>2. CASE ix # <<>>
  <2>1. ix[Len(ix)] \in Entry /\ Intact(cells, ix[Len(ix)])
    BY <1>2 DEF AllIntact
  <2> QED
    BY <1>2, <2>1, EndType, IntactFits DEF EndOf
<1> QED
  BY <1>1, <1>2

\* One more record at the end of a run of records.
LEMMA RunAppend ==
    ASSUME NEW cells \in Seq(Cell), NEW ix \in Seq(Entry), NEW s \in Nat,
           NEW n \in Nat, NEW e \in Entry,
           TiledFrom(s, ix), AllIntact(cells, ix), Below(n, ix),
           e.off = n, n = (IF ix = <<>> THEN s ELSE EndOf(ix)),
           Intact(cells, e)
    PROVE  LET jx == Append(ix, e)
           IN  /\ jx \in Seq(Entry)
               /\ jx # <<>>
               /\ TiledFrom(s, jx)
               /\ AllIntact(cells, jx)
               /\ Below(End(e), jx)
               /\ EndOf(jx) = End(e)
<1> DEFINE jx == Append(ix, e)
<1>1. /\ jx \in Seq(Entry) /\ Len(jx) = Len(ix) + 1 /\ jx # <<>>
      /\ jx[Len(jx)] = e
      /\ \A i \in DOMAIN ix : jx[i] = ix[i]
      /\ \A i \in DOMAIN jx : i # Len(jx) => i \in DOMAIN ix
  <2>1. jx \in Seq(Entry) /\ Len(jx) = Len(ix) + 1
    OBVIOUS
  <2>2. DOMAIN jx = 1..(Len(ix) + 1) /\ DOMAIN ix = 1..Len(ix) /\ Len(ix) \in Nat
    BY <2>1
  <2>3. \A i \in 1..Len(ix) : jx[i] = ix[i]
    OBVIOUS
  <2>4. jx[Len(ix) + 1] = e
    OBVIOUS
  <2>5. jx # <<>>
    <3>1. Len(jx) # 0 /\ Len(<<>>) = 0
      BY <2>1
    <3> HIDE DEF jx
    <3> QED
      BY <3>1
  <2> QED
    BY <2>1, <2>2, <2>3, <2>4, <2>5
<1>2. EndOf(jx) = End(e)
  BY <1>1 DEF EndOf
<1>3. TiledFrom(s, jx)
  BY <1>1 DEF TiledFrom, EndOf
<1>4. AllIntact(cells, jx)
  BY <1>1 DEF AllIntact
<1>5. Below(End(e), jx)
  <2> SUFFICES ASSUME NEW i \in DOMAIN jx
               PROVE  End(jx[i]) <= End(e)
    BY DEF Below
  <2>1. End(e) \in Nat /\ n < End(e) /\ End(jx[i]) \in Nat
    BY <1>1, EndType
  <2> QED
    BY <1>1, <2>1 DEF Below
<1> HIDE DEF jx
<1> QED
  BY <1>1, <1>2, <1>3, <1>4, <1>5 DEF jx

\* A run of records behind another.
LEMMA RunConcat ==
    ASSUME NEW cells \in Seq(Cell), NEW ix \in Seq(Entry), NEW jx \in Seq(Entry),
           NEW s \in Nat, NEW n \in Nat, s <= n,
           TiledFrom(0, ix), AllIntact(cells, ix), Below(s, ix), s = EndOf(ix),
           TiledFrom(s, jx), AllIntact(cells, jx), Below(n, jx),
           n = (IF jx = <<>> THEN s ELSE EndOf(jx))
    PROVE  LET kx == ix \o jx
           IN  /\ kx \in Seq(Entry)
               /\ TiledFrom(0, kx)
               /\ AllIntact(cells, kx)
               /\ Below(n, kx)
               /\ EndOf(kx) = n
<1> DEFINE kx == ix \o jx
<1>1. /\ kx \in Seq(Entry) /\ Len(kx) = Len(ix) + Len(jx)
      /\ \A i \in 1..Len(ix) : kx[i] = ix[i]
      /\ \A i \in 1..Len(jx) : kx[Len(ix) + i] = jx[i]
      /\ \A i \in DOMAIN kx : i \notin 1..Len(ix) => i - Len(ix) \in 1..Len(jx)
      /\ DOMAIN kx = 1..Len(kx) /\ DOMAIN ix = 1..Len(ix) /\ DOMAIN jx = 1..Len(jx)
  OBVIOUS
<1> HIDE DEF kx
<1>2. EndOf(kx) = n
  <2>1. CASE jx = <<>>
    BY <1>1, <2>1 DEF EndOf, kx
  <2>2. CASE jx # <<>>
    BY <1>1, <2>2 DEF EndOf
  <2> QED
    BY <2>1, <2>2
<1>3. TiledFrom(0, kx)
  <2> SUFFICES ASSUME NEW i \in DOMAIN kx
               PROVE  kx[i].off = IF i = 1 THEN 0 ELSE End(kx[i - 1])
    BY DEF TiledFrom
  <2>1. CASE i \in 1..Len(ix)
    <3>1. ix[i].off = IF i = 1 THEN 0 ELSE End(ix[i - 1])
      BY <1>1, <2>1 DEF TiledFrom
    <3>2. kx[i] = ix[i] /\ (i # 1 => kx[i - 1] = ix[i - 1])
      BY <1>1, <2>1
    <3> QED
      BY <3>1, <3>2
  <2>2. CASE i = Len(ix) + 1
    <3>1. 1 \in 1..Len(jx) /\ Len(ix) \in Nat
      BY <1>1, <2>2
    <3>2. kx[i] = jx[1] /\ jx[1].off = s
      BY <1>1, <2>2, <3>1 DEF TiledFrom
    <3>3. CASE ix = <<>>
      BY <2>2, <3>2, <3>3 DEF EndOf
    <3>4. CASE ix # <<>>
      <4>1. Len(ix) \in 1..Len(ix) /\ i # 1 /\ i - 1 = Len(ix)
        BY <2>2, <3>1, <3>4
      <4>2. s = End(kx[i - 1])
        BY <1>1, <3>4, <4>1 DEF EndOf
      <4> QED
        BY <3>2, <4>1, <4>2
    <3> QED
      BY <3>3, <3>4
  <2>3. CASE i > Len(ix) + 1
    <3> DEFINE j == i - Len(ix)
    <3>1. j \in 1..Len(jx) /\ j - 1 \in 1..Len(jx) /\ j # 1
      BY <1>1, <2>3, SMTT(40)
    <3>2. kx[i] = jx[j] /\ kx[i - 1] = jx[j - 1]
      BY <1>1, <3>1, SMTT(40)
    <3> QED
      BY <3>1, <3>2, <1>1, SMTT(40) DEF TiledFrom
  <2> QED
    BY <1>1, <2>1, <2>2, <2>3
<1>4. \A i \in DOMAIN kx : (\E j \in DOMAIN ix : kx[i] = ix[j])
                           \/ (\E j \in DOMAIN jx : kx[i] = jx[j])
  BY <1>1
<1>5. AllIntact(cells, kx)
  BY <1>4 DEF AllIntact
<1>6. Below(n, kx)
  <2> SUFFICES ASSUME NEW i \in DOMAIN kx
               PROVE  End(kx[i]) <= n
    BY DEF Below
  <2>1. End(kx[i]) \in Nat
    BY <1>1, EndType
  <2> QED
    BY <1>4, <2>1 DEF Below
<1> QED
  BY <1>1, <1>2, <1>3, <1>5, <1>6 DEF kx

-----------------------------------------------------------------------------
\* Types

LEMMA Empty == <<>> \in Seq(Record) /\ <<>> \in Seq(Entry) /\ <<>> \in Seq(Cell)
OBVIOUS

LEMMA HereType ==
    ASSUME TypeOK, cursor < Len(file)
    PROVE  Here \in Entry /\ file[cursor + 1] \in Cell
<1>1. file[cursor + 1] \in Cell
  BY DEF TypeOK
<1> QED
  BY <1>1 DEF TypeOK, Here, Entry, Cell

LEMMA BatchType ==
    ASSUME NEW rs \in Batches
    PROVE  rs \in Seq(Record)
<1>1. PICK n \in 1..MaxBatch : rs \in [1..n -> Record]
  BY DEF Batches
<1> QED
  BY <1>1, BoundsAssumption

LEMMA TypeStep == TypeInv /\ [Next]_vars => TypeOK'
<1> SUFFICES ASSUME TypeInv, [Next]_vars
             PROVE  TypeOK'
  OBVIOUS
<1> USE DEF TypeInv, TypeOK
<1>a. Len(index) \in Nat /\ Len(file) \in Nat
  OBVIOUS
<1>1. ASSUME NEW r \in Record, AppendRecord(r)
      PROVE  TypeOK'
  <2>1. <<r>> \in Seq(Record)
    OBVIOUS
  <2> QED
    BY <1>1, <2>1, Empty DEF AppendRecord, Begin, WriteOffset
<1>2. ASSUME NEW rs \in Batches, AppendBatch(rs)
      PROVE  TypeOK'
  BY <1>2, BatchType, Empty DEF AppendBatch, Begin, WriteOffset
<1>3. CASE LandCell
  <2>1. Head(todo) \in Record /\ Tail(todo) \in Seq(Record)
    BY <1>3 DEF LandCell
  <2>2. [rec |-> Head(todo), part |-> part] \in Cell
    BY <2>1 DEF Cell
  <2>3. file' \in Seq(Cell)
    BY <1>3, <2>2 DEF LandCell, Put
  <2>4. cursor - part \in Nat /\ cursor + 1 \in Nat /\ part + 1 \in Nat
    BY <1>3 DEF LandCell
  <2>5. [rec |-> Head(todo), off |-> cursor - part] \in Entry
    BY <2>1, <2>4 DEF Entry
  <2>6. Append(landed, [rec |-> Head(todo), off |-> cursor - part]) \in Seq(Entry)
    BY <2>5
  <2>7. landed' \in Seq(Entry)
    <3>1. \/ landed' = landed
          \/ landed' = Append(landed, [rec |-> Head(todo), off |-> cursor - part])
      BY <1>3 DEF LandCell
    <3> QED
      BY <2>6, <3>1
  <2>8. todo' \in Seq(Record)
    <3>1. todo' = todo \/ todo' = Tail(todo)
      BY <1>3 DEF LandCell
    <3> QED
      BY <2>1, <3>1
  <2>9. part' \in Nat
    BY <1>3, <2>4 DEF LandCell
  <2> QED
    BY <1>3, <2>3, <2>4, <2>7, <2>8, <2>9 DEF LandCell
<1>4. ASSUME pc = "write", Publish
      PROVE  TypeOK'
  <2>1. cursor - part \in Nat
    BY <1>4
  <2>2. index \o landed \in Seq(Entry)
    OBVIOUS
  <2>3. Outstanding \in BOOLEAN
    BY DEF Outstanding
  <2> QED
    BY <1>4, <2>1, <2>2, <2>3, Empty DEF Publish, AppendPoint, EndWrite
<1>5. CASE WriteDone
  BY <1>4, <1>5 DEF WriteDone
<1>6. CASE WriteFails
  <2>1. CASE batch /\ Publish
    BY <1>4, <1>6, <2>1 DEF WriteFails
  <2>2. CASE EndWrite /\ pc' = "idle"
                /\ UNCHANGED <<file, disk, size, index, needSync, opened, promised>>
    BY <2>2, Empty DEF EndWrite
  <2> QED
    BY <1>6, <2>1, <2>2 DEF WriteFails
<1>7. CASE SyncIfNeeded
  BY <1>7 DEF SyncIfNeeded, Fsync, FsyncFails, write
<1>8. CASE Sync
  BY <1>8 DEF Sync, Fsync, FsyncFails, write
<1>9. CASE Close
  BY <1>9 DEF Close, Fsync, FsyncFails, write
<1>10. CASE Kill
  BY <1>10, Empty DEF Kill, Volatile
<1>11. ASSUME NEW k \in 0..Len(file), PowerCut(k)
       PROVE  TypeOK'
  <2>1. SubSeq(file, 1, k) \in Seq(Cell) /\ SubSeq(disk, k + 1, Len(disk)) \in Seq(Cell)
    OBVIOUS
  <2>2. file' \in Seq(Cell)
    BY <1>11, <2>1 DEF PowerCut
  <2> QED
    BY <1>11, <2>2, Empty DEF PowerCut, Volatile
<1>12. CASE Open
  BY <1>12, Empty DEF Open, Volatile
<1>13. CASE ReplayAccept
  <2>1. cursor < Len(file)
    BY <1>13 DEF ReplayAccept, AtEnd
  <2>2. Here \in Entry
    BY <2>1, HereType
  <2>3. End(Here) \in Nat
    BY <2>2, EndType
  <2>4. Append(index, Here) \in Seq(Entry)
    BY <2>2
  <2> QED
    BY <1>13, <2>3, <2>4 DEF ReplayAccept
<1>14. CASE ReplayEOF
  BY <1>14, <1>a, Empty DEF ReplayEOF, EndWrite
<1>15. CASE TruncateTail
  <2>1. file' \in Seq(Cell) /\ Len(file') = cursor
    BY <1>15 DEF TruncateTail, LastGoodEnd
  <2>2. disk' \in Seq(Cell)
    BY <1>15, <2>1 DEF TruncateTail
  <2> QED
    BY <1>15, <2>1, <2>2 DEF TruncateTail, write
<1>16. CASE TruncateSync
  <2>1. size' \in Nat /\ opened' \in Nat
    BY <1>16, <1>a DEF TruncateSync
  <2>2. disk' \in Seq(Cell) /\ promised' \in Seq(Entry)
    BY <1>16 DEF TruncateSync, Fsync, FsyncFails
  <2> QED
    BY <1>16, <2>1, <2>2, Empty DEF TruncateSync, EndWrite
<1>17. CASE ReplayCorrupt
  BY <1>17 DEF ReplayCorrupt, write
<1>18. CASE UNCHANGED vars
  BY <1>18 DEF vars
<1> QED
  BY <1>1, <1>2, <1>3, <1>5, <1>6, <1>7, <1>8, <1>9, <1>10, <1>11, <1>12, <1>13,
     <1>14, <1>15, <1>16, <1>17, <1>18 DEF Next

\* The cursor stays inside the file while replay walks it.
LEMMA CursorStep ==
    TypeInv /\ [Next]_vars =>
        /\ (pc = "write" => part <= cursor)'
        /\ (pc \in {"replay", "truncated"} => cursor <= Len(file))'
<1> SUFFICES ASSUME TypeInv, [Next]_vars
             PROVE  /\ pc' = "write" => part' <= cursor'
                    /\ pc' \in {"replay", "truncated"} => cursor' <= Len(file')
  OBVIOUS
<1>a. Len(file) \in Nat /\ part \in Nat /\ cursor \in Nat
  BY DEF TypeInv, TypeOK
<1>1. CASE pc' = "write"
  <2>1. CASE pc = "idle"
    <3>1. part' = 0 /\ cursor' = size
      BY <1>1, <2>1 DEF Next, vars, AppendRecord, AppendBatch, Begin, WriteOffset,
           LandCell, WriteDone, WriteFails, SyncIfNeeded, Sync, Close, Kill, PowerCut,
           Open, ReplayAccept, ReplayEOF, TruncateTail, TruncateSync, ReplayCorrupt
    <3> QED
      BY <1>1, <3>1 DEF TypeInv, TypeOK
  <2>2. CASE pc # "idle"
    <3>1. LandCell \/ UNCHANGED vars
      BY <1>1, <2>2 DEF Next, vars, AppendRecord, AppendBatch, Begin,
           WriteDone, WriteFails, Publish, SyncIfNeeded, Sync, Close, Kill, PowerCut,
           Open, ReplayAccept, ReplayEOF, TruncateTail, TruncateSync, ReplayCorrupt
    <3> QED
      BY <1>1, <1>a, <3>1 DEF LandCell, vars, TypeInv
  <2> QED
    BY <2>1, <2>2
<1>2. CASE pc' \in {"replay", "truncated"}
  <2>1. Open \/ ReplayAccept \/ TruncateTail \/ UNCHANGED vars
    BY <1>2 DEF Next, vars, AppendRecord, AppendBatch, Begin, LandCell,
         WriteDone, WriteFails, Publish, SyncIfNeeded, Sync, Close, Kill, PowerCut,
         ReplayEOF, TruncateSync, ReplayCorrupt
  <2>2. CASE Open
    BY <1>a, <2>2 DEF Open, Volatile
  <2>3. CASE ReplayAccept
    BY <2>3 DEF ReplayAccept, Misframed, TypeInv, TypeOK, End
  <2>4. CASE TruncateTail
    BY <2>4 DEF TruncateTail, LastGoodEnd, write, TypeInv, TypeOK
  <2>5. CASE UNCHANGED vars
    BY <1>2, <2>5 DEF vars, TypeInv
  <2> QED
    BY <2>1, <2>2, <2>3, <2>4, <2>5
<1> QED
  BY <1>1, <1>2

LEMMA TypeInvStep == TypeInv /\ [Next]_vars => TypeInv'
<1> SUFFICES ASSUME TypeInv, [Next]_vars
             PROVE  TypeInv'
  OBVIOUS
<1> QED
  BY TypeStep, CursorStep DEF TypeInv

\* Every variable keeps its type and replay never reads past the end of the
\* file, whatever fails and whatever the file holds (store.go, replay).
THEOREM TypeCorrect == Spec => []TypeOK
<1>1. Init => TypeInv
  <2> SUFFICES ASSUME Init
               PROVE  TypeInv
    OBVIOUS
  <2> QED
    BY Empty DEF Init, TypeInv, TypeOK
<1>2. TypeInv => TypeOK
  BY DEF TypeInv
<1> QED
  BY <1>1, <1>2, TypeInvStep, PTL DEF Spec

-----------------------------------------------------------------------------
\* Durability

\* While the index covers it, what was promised ends where the index does or
\* before.
LEMMA PromisedBelow ==
    ASSUME TypeOK, IndexInv, Len(promised) <= Len(index), NEW n \in Nat, Below(n, index)
    PROVE  Below(n, promised)
<1> SUFFICES ASSUME NEW i \in DOMAIN promised
             PROVE  End(promised[i]) <= n
  BY DEF Below
<1>1. i \in DOMAIN index
  BY DEF TypeOK
<1> QED
  BY <1>1 DEF Below, IndexInv, Agree

\* While replay has not reached it, the next promised record is the one at the
\* cursor, and it is intact.
LEMMA NextPromised ==
    ASSUME TypeOK, PromisedInv, IndexInv, pc = "replay", Len(index) < Len(promised)
    PROVE  /\ cursor < Len(file)
           /\ Here = promised[Len(index) + 1]
           /\ ~Misframed
           /\ ~BadChecksum
<1> DEFINE n == Len(index)
           e == promised[n + 1]
<1>1. n \in Nat /\ n + 1 \in DOMAIN promised /\ e \in Entry
  BY DEF TypeOK
<1>2. Intact(file, e) /\ e.off = IF n + 1 = 1 THEN 0 ELSE End(promised[n])
  BY <1>1 DEF PromisedInv, AllIntact, TiledFrom
<1>3. e.off = cursor
  <2>1. CASE n = 0
    <3>1. index = <<>>
      BY <2>1 DEF TypeOK
    <3> QED
      BY <1>2, <2>1, <3>1 DEF IndexInv, EndOf
  <2>2. CASE n # 0
    <3>1. n \in DOMAIN index /\ n \in DOMAIN promised /\ index # <<>> /\ n + 1 # 1
      BY <1>1, <2>2 DEF TypeOK
    <3>2. index[n] = promised[n]
      BY <3>1 DEF IndexInv, Agree
    <3>3. cursor = End(index[n])
      BY <3>1 DEF IndexInv, EndOf
    <3> QED
      BY <1>1, <1>2, <3>1, <3>2, <3>3
  <2> QED
    BY <2>1, <2>2
<1> HIDE DEF e, n
<1>4. file[cursor + 1] = [rec |-> e.rec, part |-> 0] /\ End(e) <= Len(file)
  BY <1>1, <1>2, <1>3, IntactFits DEF TypeOK
<1>5. Here = e
  BY <1>1, <1>3, <1>4 DEF Here, Entry
<1>6. cursor < End(e) /\ End(e) \in Nat
  BY <1>1, <1>3, EndType
<1> QED
  BY <1>2, <1>4, <1>5, <1>6 DEF Misframed, BadChecksum, TypeOK, n, e

\* Both sequences stay intact when the cells up to n do and they end before n.
LEMMA CellsKept ==
    ASSUME TypeOK, TypeOK', NEW n \in Nat, n <= Len(file'),
           \A j \in 1..n : j <= Len(file) => file'[j] = file[j],
           NEW ix \in Seq(Entry), Below(n, ix), AllIntact(file, ix)
    PROVE  AllIntact(file', ix)
BY AllIntactKept DEF TypeOK

LEMMA BeginStep ==
    ASSUME IInv, TypeOK', NEW rs, NEW b, Begin(rs, b)
    PROVE  PromisedInv' /\ IndexInv' /\ WriteInv'
<1> USE DEF Begin, WriteOffset
<1>1. PromisedInv'
  BY DEF IInv, PromisedInv
<1>2. IndexInv'
  BY DEF IInv, IndexInv
<1>3. size \in Nat /\ size <= Len(file)
  BY EndOfFits DEF IInv, IndexInv, TypeInv, TypeOK
<1>4. WriteInv'
  <2>1. landed' = <<>> /\ part' = 0 /\ cursor' = size /\ size' = size /\ file' = file
    OBVIOUS
  <2>2. todo' = rs /\ rs \in Seq(Record)
    BY DEF TypeOK
  <2>3. rs # <<>> => PayloadCells[Head(rs)] \in Nat
    BY <2>2, PayloadAssumption
  <2> QED
    BY <1>3, <2>1, <2>2, <2>3 DEF WriteInv, TiledFrom, AllIntact, Below
<1> QED
  BY <1>1, <1>2, <1>4

LEMMA LandCellStep ==
    ASSUME IInv, TypeOK', LandCell
    PROVE  PromisedInv' /\ IndexInv' /\ WriteInv'
<1> DEFINE r == Head(todo)
           e == [rec |-> r, off |-> cursor - part]
           n == cursor - part
           c == [rec |-> r, part |-> part]
<1>1. /\ pc = "write" /\ pc' = "write" /\ todo # <<>>
      /\ UNCHANGED <<disk, size, index, promised>>
      /\ file' = Put(file, cursor + 1, c)
      /\ cursor' = cursor + 1
  BY DEF LandCell
<1>2. /\ r \in Record /\ c \in Cell /\ PayloadCells[r] \in Nat
      /\ cursor \in Nat /\ part \in Nat /\ size \in Nat /\ Len(file) \in Nat
  BY <1>1, PayloadAssumption, SMTT(40) DEF IInv, TypeInv, TypeOK, Cell
<1>3. /\ size + part <= cursor
      /\ cursor <= Len(file)
      /\ part <= PayloadCells[r]
      /\ \A p \in 0..(part - 1) : file[n + p + 1] = [rec |-> r, part |-> p]
      /\ n \in Nat /\ size <= n /\ n <= cursor
  BY <1>1, <1>2 DEF IInv, WriteInv
<1>4. /\ Len(file') >= cursor + 1
      /\ file'[cursor + 1] = c
      /\ \A j \in 1..cursor : file'[j] = file[j]
  <2>1. cursor + 1 \in 1..(Len(file) + 1)
    BY <1>2, <1>3
  <2>2. file \in Seq(Cell)
    BY DEF IInv, TypeInv, TypeOK
  <2> HIDE DEF c
  <2>3. /\ Len(file') >= cursor + 1
        /\ file'[cursor + 1] = c
        /\ \A j \in 1..Len(file) : j # cursor + 1 => file'[j] = file[j]
    BY <1>1, <1>2, <2>1, <2>2, PutCell
  <2> QED
    BY <1>2, <1>3, <2>3
<1> HIDE DEF c
<1>5. \A m \in 0..cursor : \A ix \in Seq(Entry) :
        Below(m, ix) /\ AllIntact(file, ix) => AllIntact(file', ix)
  <2> SUFFICES ASSUME NEW m \in 0..cursor, NEW ix \in Seq(Entry),
                      Below(m, ix), AllIntact(file, ix)
               PROVE  AllIntact(file', ix)
    OBVIOUS
  <2>1. m \in Nat /\ m <= Len(file') /\ \A j \in 1..m : file'[j] = file[j]
    BY <1>2, <1>4, TypeOK', SMTT(40) DEF TypeOK
  <2> QED
    BY <2>1, CellsKept DEF IInv, TypeInv
<1>6. index \in Seq(Entry) /\ landed \in Seq(Entry) /\ promised \in Seq(Entry)
  BY DEF IInv, TypeInv, TypeOK
<1>7. size \in 0..cursor /\ n \in 0..cursor
  BY <1>2, <1>3
<1>8. PromisedInv'
  <2>1. Below(size, promised)
    BY <1>1, <1>2, PromisedBelow DEF IInv, IndexInv, TypeInv
  <2>2. AllIntact(file', promised)
    BY <1>5, <1>6, <1>7, <2>1 DEF IInv, PromisedInv
  <2> QED
    BY <1>1, <2>2 DEF IInv, PromisedInv
<1>9. IndexInv'
  <2>1. AllIntact(file', index)
    BY <1>1, <1>5, <1>6, <1>7 DEF IInv, IndexInv
  <2> QED
    BY <1>1, <2>1 DEF IInv, IndexInv
<1>10. /\ TiledFrom(size, landed) /\ Below(n, landed) /\ AllIntact(file', landed)
       /\ n = IF landed = <<>> THEN size ELSE EndOf(landed)
  BY <1>1, <1>5, <1>6, <1>7 DEF IInv, WriteInv
<1>11. \A p \in 0..part : file'[n + p + 1] = [rec |-> r, part |-> p]
  <2> SUFFICES ASSUME NEW p \in 0..part
               PROVE  file'[n + p + 1] = [rec |-> r, part |-> p]
    OBVIOUS
  <2>1. CASE p = part
    BY <1>2, <1>3, <1>4, <2>1 DEF c
  <2>2. CASE p # part
    <3>1. p \in 0..(part - 1) /\ n + p + 1 \in 1..cursor
      BY <1>2, <1>3, <2>2
    <3> QED
      BY <1>3, <1>4, <3>1
  <2> QED
    BY <2>1, <2>2
<1>12. WriteInv'
  <2>1. CASE part < PayloadCells[r]
    <3>1. part' = part + 1 /\ todo' = todo /\ landed' = landed
      BY <2>1 DEF LandCell
    <3>2. cursor' - part' = n /\ cursor' <= Len(file')
      BY <1>1, <1>2, <1>4, <3>1
    <3>3. 0..(part' - 1) = 0..part
      BY <1>2, <3>1
    <3> QED
      BY <1>1, <1>2, <1>3, <1>10, <1>11, <2>1, <3>1, <3>2, <3>3 DEF WriteInv
  <2>2. CASE part = PayloadCells[r]
    <3>1. part' = 0 /\ todo' = Tail(todo) /\ landed' = Append(landed, e)
      BY <1>2, <2>2 DEF LandCell
    <3>2. e \in Entry /\ e.off = n /\ e.rec = r
      BY <1>2, <1>3 DEF Entry
    <3> HIDE DEF e
    <3>3. End(e) = cursor + 1
      BY <1>2, <1>3, <2>2, <3>2 DEF End
    <3>4. Intact(file', e)
      <4> SUFFICES ASSUME NEW p \in 0..PayloadCells[e.rec]
                   PROVE  /\ e.off + p + 1 <= Len(file')
                          /\ file'[e.off + p + 1] = [rec |-> e.rec, part |-> p]
        BY DEF Intact
      <4>1. p \in 0..part /\ e.off + p + 1 <= cursor + 1
        BY <1>2, <1>3, <2>2, <3>2, SMTT(40)
      <4>2. Len(file') \in Nat
        BY TypeOK' DEF TypeOK
      <4> QED
        BY <1>2, <1>4, <1>11, <3>2, <4>1, <4>2
    <3>5. file' \in Seq(Cell)
      BY TypeOK' DEF TypeOK
    <3>6. /\ landed' # <<>> /\ TiledFrom(size, landed') /\ AllIntact(file', landed')
          /\ Below(End(e), landed') /\ EndOf(landed') = End(e)
      BY <1>2, <1>3, <1>6, <1>10, <3>1, <3>2, <3>4, <3>5, RunAppend, SMTT(40)
    <3>7. cursor' - part' = cursor + 1 /\ size' + part' <= cursor' /\ cursor' <= Len(file')
      BY <1>1, <1>2, <1>3, <1>4, <3>1
    <3>8. todo' # <<>> => PayloadCells[Head(todo')] \in Nat
      BY TypeOK', PayloadAssumption DEF TypeOK
    <3>9. 0..(part' - 1) = {}
      BY <3>1
    <3> QED
      BY <1>1, <3>1, <3>3, <3>6, <3>7, <3>8, <3>9 DEF WriteInv
  <2> QED
    BY <1>2, <1>3, <2>1, <2>2
<1> QED
  BY <1>8, <1>9, <1>12

LEMMA PublishStep ==
    ASSUME IInv, TypeOK', pc = "write", Publish
    PROVE  PromisedInv' /\ IndexInv' /\ WriteInv'
<1> DEFINE n == cursor - part
<1>1. /\ UNCHANGED <<file, disk, promised>> /\ pc' \in {"sync", "idle"}
      /\ size' = n /\ index' = index \o landed
  BY DEF Publish, AppendPoint
<1>2. /\ index \in Seq(Entry) /\ landed \in Seq(Entry) /\ file \in Seq(Cell)
      /\ promised \in Seq(Entry)
      /\ size \in Nat /\ n \in Nat /\ size <= n
  BY DEF IInv, TypeInv, TypeOK, WriteInv
<1>3. /\ TiledFrom(size, landed) /\ Below(n, landed) /\ AllIntact(file, landed)
      /\ n = IF landed = <<>> THEN size ELSE EndOf(landed)
  BY DEF IInv, WriteInv
<1>4. /\ TiledFrom(0, index) /\ AllIntact(file, index) /\ Below(size, index)
      /\ size = EndOf(index) /\ Len(promised) <= Len(index) /\ Agree(index, promised)
  BY DEF IInv, IndexInv
<1> HIDE DEF n
<1>5. /\ TiledFrom(0, index') /\ AllIntact(file, index')
      /\ Below(n, index') /\ EndOf(index') = n
  BY <1>1, <1>2, <1>3, <1>4, RunConcat
<1>6. Agree(index', promised) /\ Len(promised) <= Len(index')
  BY <1>1, <1>2, <1>4 DEF Agree
<1>7. IndexInv'
  BY <1>1, <1>5, <1>6 DEF IndexInv
<1>8. PromisedInv'
  BY <1>1 DEF IInv, PromisedInv
<1>9. WriteInv'
  BY <1>1 DEF WriteInv
<1> QED
  BY <1>7, <1>8, <1>9

\* An fsync makes the whole index promised.
LEMMA FsyncStep ==
    ASSUME IInv, TypeOK', Fsync, UNCHANGED <<file, index>>
    PROVE  PromisedInv' /\ Agree(index', promised') /\ Len(promised') <= Len(index')
BY DEF IInv, PromisedInv, IndexInv, Fsync, Agree, TypeOK

\* Whatever mixture of page cache and device a power cut leaves, what was
\* promised is in it.
LEMMA PowerCutStep ==
    ASSUME IInv, TypeOK', NEW k \in 0..Len(file), PowerCut(k)
    PROVE  PromisedInv'
<1>1. /\ file \in Seq(Cell) /\ disk \in Seq(Cell) /\ promised \in Seq(Entry)
      /\ promised' = promised /\ disk' = file'
      /\ file' = SubSeq(file, 1, k) \o SubSeq(disk, k + 1, Len(disk))
  BY DEF IInv, TypeInv, TypeOK, PowerCut
<1>2. \A j \in 1..Len(file) : j <= k => j <= Len(file') /\ file'[j] = file[j]
  <2> DEFINE front == SubSeq(file, 1, k)
             back == SubSeq(disk, k + 1, Len(disk))
  <2>1. /\ front \in Seq(Cell) /\ Len(front) = k
        /\ \A j \in 1..k : front[j] = file[j]
    BY <1>1
  <2>2. back \in Seq(Cell)
    BY <1>1
  <2>3. file' = front \o back
    BY <1>1
  <2> HIDE DEF front, back
  <2>4. \A j \in 1..k : j <= Len(file') /\ file'[j] = front[j]
    BY <2>1, <2>2, <2>3
  <2> QED
    BY <2>1, <2>4
<1>3. \A j \in 1..Len(disk) : j > k => j <= Len(file') /\ file'[j] = disk[j]
  <2> SUFFICES ASSUME NEW j \in 1..Len(disk), j > k
               PROVE  j <= Len(file') /\ file'[j] = disk[j]
    OBVIOUS
  <2> DEFINE front == SubSeq(file, 1, k)
             back == SubSeq(disk, k + 1, Len(disk))
  <2>1. front \in Seq(Cell) /\ Len(front) = k
    BY <1>1
  <2>2. back \in Seq(Cell) /\ Len(back) = Len(disk) - k
    BY <1>1
  <2>3. j - k \in 1..Len(back) /\ back[j - k] = disk[j]
    BY <1>1, <2>2
  <2>4. file' = front \o back
    BY <1>1
  <2> HIDE DEF front, back
  <2> QED
    BY <2>1, <2>2, <2>3, <2>4
<1>4. AllIntact(file', promised)
  <2> SUFFICES ASSUME NEW i \in DOMAIN promised, NEW p \in 0..PayloadCells[promised[i].rec]
               PROVE  LET e == promised[i]
                      IN  /\ e.off + p + 1 <= Len(file')
                          /\ file'[e.off + p + 1] = [rec |-> e.rec, part |-> p]
    BY DEF AllIntact, Intact
  <2> DEFINE e == promised[i]
             j == e.off + p + 1
  <2>1. e \in Entry /\ PayloadCells[e.rec] \in Nat /\ e.off \in Nat
    <3>1. e \in Entry
      BY <1>1
    <3> QED
      BY <3>1, PayloadAssumption DEF Entry
  <2>2. /\ j <= Len(file) /\ file[j] = [rec |-> e.rec, part |-> p]
        /\ j <= Len(disk) /\ disk[j] = [rec |-> e.rec, part |-> p]
    BY DEF IInv, PromisedInv, AllIntact, Intact
  <2>3. j \in 1..Len(file) /\ j \in 1..Len(disk) /\ k \in Nat
    BY <1>1, <2>1, <2>2
  <2> HIDE DEF j, e
  <2>4. j <= Len(file') /\ file'[j] = [rec |-> e.rec, part |-> p]
    BY <1>2, <1>3, <2>2, <2>3
  <2> QED
    BY <2>4 DEF j, e
<1> QED
  BY <1>1, <1>4 DEF IInv, PromisedInv

\* With nothing in memory there is nothing to keep in step.
LEMMA VolatileStep ==
    ASSUME Volatile, pc' \in {"down", "replay"}, TypeOK'
    PROVE  IndexInv' /\ WriteInv'
<1>1. index' = <<>> /\ cursor' = 0
  BY DEF Volatile
<1>2. Len(file') \in Nat
  BY DEF TypeOK
<1> QED
  BY <1>1, <1>2 DEF IndexInv, WriteInv, TiledFrom, AllIntact, Agree, Below, EndOf

LEMMA ReplayAcceptStep ==
    ASSUME IInv, TypeOK', ReplayAccept, Intact(file, Here)
    PROVE  PromisedInv' /\ IndexInv' /\ WriteInv'
<1>1. /\ pc = "replay" /\ pc' = "replay" /\ UNCHANGED <<file, disk, promised>>
      /\ index' = Append(index, Here) /\ cursor' = End(Here)
  BY DEF ReplayAccept
<1>2. Here \in Entry /\ Here.off = cursor
  <2>1. cursor < Len(file)
    BY DEF ReplayAccept, AtEnd, IInv, TypeInv, TypeOK
  <2> QED
    BY <2>1, HereType DEF IInv, TypeInv, Here
<1>3. Intact(file, Here)
  OBVIOUS
<1>4. /\ TiledFrom(0, index) /\ AllIntact(file, index) /\ Below(cursor, index)
      /\ cursor = EndOf(index) /\ Agree(index, promised)
  BY <1>1 DEF IInv, IndexInv
<1>5. /\ file \in Seq(Cell) /\ index \in Seq(Entry) /\ promised \in Seq(Entry)
      /\ cursor \in Nat
  BY DEF IInv, TypeInv, TypeOK
<1>6. /\ TiledFrom(0, index') /\ AllIntact(file, index')
      /\ Below(End(Here), index') /\ EndOf(index') = End(Here)
  <2>1. cursor = IF index = <<>> THEN 0 ELSE EndOf(index)
    BY <1>4 DEF EndOf
  <2> QED
    BY <1>1, <1>2, <1>3, <1>4, <1>5, <2>1, RunAppend
<1>7. Agree(index', promised)
  <2> SUFFICES ASSUME NEW i \in DOMAIN index' \cap DOMAIN promised
               PROVE  index'[i] = promised[i]
    BY DEF Agree
  <2>1. CASE i \in DOMAIN index
    BY <1>1, <1>2, <1>4, <1>5, <2>1 DEF Agree
  <2>2. CASE i \notin DOMAIN index
    <3>1. i = Len(index) + 1 /\ Len(index) < Len(promised) /\ index'[i] = Here
      BY <1>1, <1>2, <1>5, <2>2
    <3> QED
      BY <1>1, <3>1, NextPromised DEF IInv, TypeInv
  <2> QED
    BY <2>1, <2>2
<1>8. IndexInv'
  BY <1>1, <1>6, <1>7 DEF IndexInv
<1>9. PromisedInv' /\ WriteInv'
  BY <1>1 DEF IInv, PromisedInv, WriteInv
<1> QED
  BY <1>8, <1>9

\* Replay comes to its end, or to a torn tail, only behind what was promised.
LEMMA ReplayPastPromised ==
    ASSUME IInv, pc = "replay", AtEnd \/ Misframed \/ BadChecksum
    PROVE  Len(promised) <= Len(index)
<1> SUFFICES ASSUME Len(index) < Len(promised)
             PROVE  FALSE
  BY DEF IInv, TypeInv, TypeOK
<1>1. cursor < Len(file) /\ ~Misframed /\ ~BadChecksum
  BY NextPromised DEF IInv, TypeInv
<1> QED
  BY <1>1 DEF AtEnd, IInv, TypeInv, TypeOK

LEMMA TruncateTailStep ==
    ASSUME IInv, TypeOK', TruncateTail
    PROVE  PromisedInv' /\ IndexInv' /\ WriteInv'
<1>1. /\ pc = "replay" /\ pc' = "truncated" /\ UNCHANGED <<index, promised, cursor>>
      /\ file' = SubSeq(file, 1, cursor)
      /\ disk' = IF Len(file') < Len(disk) THEN SubSeq(disk, 1, Len(file')) ELSE disk
      /\ Misframed \/ BadChecksum
  BY DEF TruncateTail, LastGoodEnd, write
<1>2. /\ file \in Seq(Cell) /\ disk \in Seq(Cell) /\ index \in Seq(Entry)
      /\ promised \in Seq(Entry) /\ cursor \in Nat /\ cursor <= Len(file)
  BY <1>1 DEF IInv, TypeInv, TypeOK
<1>3. Len(promised) <= Len(index)
  BY <1>1, ReplayPastPromised
<1>4. Below(cursor, index) /\ Below(cursor, promised)
  BY <1>1, <1>2, <1>3, PromisedBelow DEF IInv, IndexInv, TypeInv
<1>5. Len(file') = cursor /\ \A j \in 1..cursor : file'[j] = file[j]
  BY <1>1, <1>2
<1>6. AllIntact(file', index) /\ AllIntact(file', promised)
  BY <1>1, <1>2, <1>4, <1>5, CellsKept DEF IInv, TypeInv, PromisedInv, IndexInv
<1>7. AllIntact(disk', promised)
  <2>1. CASE cursor < Len(disk)
    <3>1. disk' = SubSeq(disk, 1, cursor)
      BY <1>1, <1>5, <2>1
    <3>2. disk' \in Seq(Cell) /\ cursor <= Len(disk') /\ \A j \in 1..cursor : disk'[j] = disk[j]
      BY <1>2, <2>1, <3>1
    <3> QED
      BY <1>2, <1>4, <3>2, AllIntactKept DEF IInv, PromisedInv
  <2>2. CASE ~(cursor < Len(disk))
    BY <1>1, <1>5, <2>2 DEF IInv, PromisedInv
  <2> QED
    BY <2>1, <2>2
<1> QED
  BY <1>1, <1>3, <1>5, <1>6, <1>7 DEF IInv, PromisedInv, IndexInv, WriteInv

\* Of replay's steps, the one that accepts a record needs it to be intact.
LEMMA IInvStep ==
    ASSUME IInv, [Next]_vars, ReplayAccept => Intact(file, Here)
    PROVE  IInv'
<1>a. TypeInv' /\ TypeOK'
  BY TypeInvStep DEF IInv, TypeInv
<1> SUFFICES PromisedInv' /\ IndexInv' /\ WriteInv'
  BY <1>a DEF IInv
<1>1. ASSUME NEW r \in Record, AppendRecord(r)
      PROVE  PromisedInv' /\ IndexInv' /\ WriteInv'
  BY <1>1, <1>a, BeginStep DEF AppendRecord
<1>2. ASSUME NEW rs \in Batches, AppendBatch(rs)
      PROVE  PromisedInv' /\ IndexInv' /\ WriteInv'
  BY <1>2, <1>a, BeginStep DEF AppendBatch
<1>3. CASE LandCell
  BY <1>3, <1>a, LandCellStep
<1>4. CASE WriteDone
  BY <1>4, <1>a, PublishStep DEF WriteDone
<1>5. CASE WriteFails
  <2>1. CASE batch /\ Publish
    BY <1>5, <1>a, <2>1, PublishStep DEF WriteFails
  <2>2. CASE pc' = "idle" /\ UNCHANGED <<file, disk, size, index, promised>>
    BY <1>5, <2>2 DEF WriteFails, IInv, PromisedInv, IndexInv, WriteInv
  <2> QED
    BY <1>5, <2>1, <2>2 DEF WriteFails
<1>6. CASE SyncIfNeeded
  <2>1. CASE Fsync
    BY <1>6, <1>a, <2>1, FsyncStep DEF SyncIfNeeded, IInv, IndexInv, WriteInv
  <2>2. CASE FsyncFails
    BY <1>6, <2>2 DEF SyncIfNeeded, FsyncFails, IInv, PromisedInv, IndexInv, WriteInv
  <2> QED
    BY <1>6, <2>1, <2>2 DEF SyncIfNeeded
<1>7. CASE Sync
  <2>1. CASE Fsync
    BY <1>7, <1>a, <2>1, FsyncStep DEF Sync, IInv, IndexInv, WriteInv
  <2>2. CASE FsyncFails
    BY <1>7, <2>2 DEF Sync, FsyncFails, IInv, PromisedInv, IndexInv, WriteInv
  <2> QED
    BY <1>7, <2>1, <2>2 DEF Sync
<1>8. CASE Close
  <2>1. CASE Fsync
    BY <1>8, <1>a, <2>1, FsyncStep DEF Close, IInv, IndexInv, WriteInv
  <2>2. CASE UNCHANGED <<disk, promised>>
    BY <1>8, <2>2 DEF Close, IInv, PromisedInv, IndexInv, WriteInv
  <2> QED
    BY <1>8, <2>1, <2>2 DEF Close, FsyncFails
<1>9. CASE Kill
  BY <1>9, <1>a, VolatileStep DEF Kill, IInv, PromisedInv
<1>10. ASSUME NEW k \in 0..Len(file), PowerCut(k)
       PROVE  PromisedInv' /\ IndexInv' /\ WriteInv'
  BY <1>10, <1>a, VolatileStep, PowerCutStep DEF PowerCut
<1>11. CASE Open
  BY <1>11, <1>a, VolatileStep DEF Open, IInv, PromisedInv
<1>12. CASE ReplayAccept
  BY <1>12, <1>a, ReplayAcceptStep
<1>13. CASE ReplayEOF
  <2>1. Len(promised) <= Len(index)
    BY <1>13, ReplayPastPromised DEF ReplayEOF
  <2> QED
    BY <1>13, <2>1 DEF ReplayEOF, IInv, PromisedInv, IndexInv, WriteInv
<1>14. CASE TruncateTail
  BY <1>14, <1>a, TruncateTailStep
<1>15. CASE TruncateSync
  <2>1. CASE Fsync /\ pc' = "idle" /\ size' = cursor
    BY <1>15, <1>a, <2>1, FsyncStep DEF TruncateSync, IInv, IndexInv, WriteInv
  <2>2. CASE FsyncFails /\ pc' = "down"
    BY <1>15, <2>2 DEF TruncateSync, FsyncFails, IInv, PromisedInv, IndexInv, WriteInv
  <2> QED
    BY <1>15, <2>1, <2>2 DEF TruncateSync
<1>16. CASE ReplayCorrupt
  BY <1>16 DEF ReplayCorrupt, write, IInv, PromisedInv, IndexInv, WriteInv
<1>17. CASE UNCHANGED vars
  BY <1>17 DEF vars, IInv, PromisedInv, IndexInv, WriteInv
<1> QED
  BY <1>1, <1>2, <1>3, <1>4, <1>5, <1>6, <1>7, <1>8, <1>9, <1>10, <1>11, <1>12,
     <1>13, <1>14, <1>15, <1>16, <1>17 DEF Next

LEMMA IInvInit == Init => IInv
<1> SUFFICES ASSUME Init
             PROVE  IInv
  OBVIOUS
<1>1. TypeInv
  BY Empty DEF Init, TypeInv, TypeOK
<1>2. PromisedInv /\ IndexInv /\ WriteInv
  BY DEF Init, PromisedInv, IndexInv, WriteInv, TiledFrom, AllIntact, Agree, Below, EndOf
<1> QED
  BY <1>1, <1>2 DEF IInv

-----------------------------------------------------------------------------
\* Writes that never stop part way

LEMMA FramedPrefix ==
    ASSUME NEW cells \in Seq(Cell), NEW other \in Seq(Cell),
           Len(other) <= Len(cells), \A j \in 1..Len(other) : other[j] = cells[j],
           Framed(cells)
    PROVE  Framed(other)
<1> SUFFICES ASSUME NEW j \in 1..Len(other)
             PROVE  LET r == other[j].rec IN
                    IF other[j].part = 0
                    THEN \A p \in 0..PayloadCells[r] :
                            j + p <= Len(other) => other[j + p] = [rec |-> r, part |-> p]
                    ELSE /\ j > 1
                         /\ other[j].part <= PayloadCells[r]
                         /\ other[j - 1] = [rec |-> r, part |-> other[j].part - 1]
  BY DEF Framed
<1>1. j \in DOMAIN cells /\ other[j] = cells[j] /\ j > 1 => other[j - 1] = cells[j - 1]
  OBVIOUS
<1>2. \A p \in Nat : j + p <= Len(other) => other[j + p] = cells[j + p] /\ j + p <= Len(cells)
  OBVIOUS
<1> QED
  BY <1>1, <1>2 DEF Framed

\* Where a run of intact records ends, a payload ends.
LEMMA LastCell ==
    ASSUME NEW cells \in Seq(Cell), NEW ix \in Seq(Entry), ix # <<>>,
           AllIntact(cells, ix)
    PROVE  /\ EndOf(ix) \in 1..Len(cells)
           /\ cells[EndOf(ix)].part = PayloadCells[cells[EndOf(ix)].rec]
<1> DEFINE e == ix[Len(ix)]
<1>1. e \in Entry /\ Intact(cells, e) /\ EndOf(ix) = End(e)
  BY DEF AllIntact, EndOf
<1>2. PayloadCells[e.rec] \in Nat \ {0} /\ e.off \in Nat
  BY <1>1, PayloadAssumption DEF Entry
<1> HIDE DEF e
<1>3. End(e) <= Len(cells) /\ End(e) = e.off + PayloadCells[e.rec] + 1
  <2>1. End(e) <= Len(cells)
    BY <1>1, IntactFits
  <2> QED
    BY <1>2, <2>1 DEF End
<1>4. cells[End(e)] = [rec |-> e.rec, part |-> PayloadCells[e.rec]]
  <2>1. PayloadCells[e.rec] \in 0..PayloadCells[e.rec]
    BY <1>2
  <2> QED
    BY <1>1, <1>3, <2>1 DEF Intact
<1> QED
  BY <1>1, <1>2, <1>3, <1>4

\* Behind a run of intact records stands a header, or the end of the file.
LEMMA HeaderFollows ==
    ASSUME NEW cells \in Seq(Cell), NEW ix \in Seq(Entry), AllIntact(cells, ix),
           Framed(cells), EndOf(ix) < Len(cells)
    PROVE  cells[EndOf(ix) + 1].part = 0
<1> DEFINE n == EndOf(ix)
           c == cells[n + 1]
<1>1. n \in Nat /\ n + 1 \in DOMAIN cells /\ c \in Cell
  BY EndOfFits
<1> SUFFICES ASSUME c.part # 0
             PROVE  FALSE
  OBVIOUS
<1>2. /\ n + 1 > 1 /\ c.part <= PayloadCells[c.rec]
      /\ cells[n + 1 - 1] = [rec |-> c.rec, part |-> c.part - 1]
  BY <1>1 DEF Framed
<1>3. n # 0 /\ cells[n] = [rec |-> c.rec, part |-> c.part - 1]
  BY <1>1, <1>2
<1>4. ix # <<>>
  BY <1>3 DEF EndOf
<1>5. cells[n].part = PayloadCells[cells[n].rec]
  BY <1>4, LastCell
<1>6. c.part - 1 = PayloadCells[c.rec] /\ PayloadCells[c.rec] \in Nat /\ c.part \in Nat
  BY <1>1, <1>3, <1>5, PayloadAssumption DEF Cell
<1> QED
  BY <1>2, <1>6

\* So replay finds every record intact that ends inside the file.
LEMMA HereIntact ==
    ASSUME IInv, TailInv, pc = "replay", ~AtEnd, ~Misframed
    PROVE  Intact(file, Here)
<1>1. /\ file \in Seq(Cell) /\ index \in Seq(Entry) /\ cursor \in Nat /\ cursor < Len(file)
      /\ AllIntact(file, index) /\ cursor = EndOf(index) /\ Framed(file)
  BY DEF IInv, TypeInv, TypeOK, IndexInv, TailInv, AtEnd
<1>2. Here \in Entry /\ Here.off = cursor /\ Here.rec = file[cursor + 1].rec
  BY <1>1, HereType DEF IInv, TypeInv, Here
<1>3. file[cursor + 1].part = 0 /\ End(Here) <= Len(file)
  <2>1. End(Here) \in Nat
    BY <1>2, EndType
  <2> QED
    BY <1>1, <2>1 DEF Misframed
<1>4. PayloadCells[Here.rec] \in Nat
  BY <1>2, PayloadAssumption DEF Entry
<1> SUFFICES ASSUME NEW p \in 0..PayloadCells[Here.rec]
             PROVE  /\ Here.off + p + 1 <= Len(file)
                    /\ file[Here.off + p + 1] = [rec |-> Here.rec, part |-> p]
  BY DEF Intact
<1>5. cursor + 1 \in DOMAIN file /\ (cursor + 1) + p <= Len(file)
  BY <1>1, <1>2, <1>3, <1>4 DEF End
<1>6. file[(cursor + 1) + p] = [rec |-> Here.rec, part |-> p]
  BY <1>1, <1>2, <1>3, <1>5 DEF Framed
<1> QED
  BY <1>1, <1>2, <1>5, <1>6

\* The cell before the next one to be written: the one before it in the record, or
\* the last of another.
LEMMA CellBefore ==
    ASSUME IInv, TailInv, pc = "write", todo # <<>>, cursor # 0
    PROVE  IF part = 0
           THEN file[cursor].part = PayloadCells[file[cursor].rec]
           ELSE file[cursor] = [rec |-> Head(todo), part |-> part - 1]
<1>1. /\ file \in Seq(Cell) /\ index \in Seq(Entry) /\ landed \in Seq(Entry)
      /\ cursor \in Nat /\ part \in Nat /\ size \in Nat
  BY DEF IInv, TypeInv, TypeOK
<1>2. CASE part # 0
  <2>1. part - 1 \in 0..(part - 1) /\ cursor - part + (part - 1) + 1 = cursor
    BY <1>1, <1>2
  <2>2. file[cursor - part + (part - 1) + 1] = [rec |-> Head(todo), part |-> part - 1]
    BY <2>1 DEF IInv, WriteInv
  <2> QED
    BY <1>2, <2>1, <2>2
<1>3. CASE part = 0
  <2>1. /\ cursor = IF landed = <<>> THEN size ELSE EndOf(landed)
        /\ AllIntact(file, landed) /\ AllIntact(file, index) /\ size = EndOf(index)
    BY <1>1, <1>3 DEF IInv, WriteInv, IndexInv
  <2>2. CASE landed # <<>>
    BY <1>1, <1>3, <2>1, <2>2, LastCell
  <2>3. CASE landed = <<>>
    <3>1. index # <<>>
      BY <2>1, <2>3 DEF EndOf
    <3> QED
      BY <1>1, <1>3, <2>1, <2>3, <3>1, LastCell
  <2> QED
    BY <2>2, <2>3
<1> QED
  BY <1>2, <1>3

LEMMA TailLandCell ==
    ASSUME IInv, IInv', TailInv, LandCell
    PROVE  TailInv'
<1> DEFINE r == Head(todo)
           c == [rec |-> r, part |-> part]
<1>1. /\ pc = "write" /\ pc' = "write" /\ todo # <<>> /\ disk' = disk
      /\ file' = Put(file, cursor + 1, c) /\ cursor' = cursor + 1
  BY DEF LandCell
<1>2. /\ file \in Seq(Cell) /\ disk \in Seq(Cell) /\ file' \in Seq(Cell)
      /\ cursor \in Nat /\ part \in Nat /\ r \in Record /\ PayloadCells[r] \in Nat
      /\ Len(file) = cursor /\ DOMAIN file = 1..cursor /\ Framed(file)
      /\ part <= PayloadCells[r]
  <2>1. r \in Record
    BY <1>1 DEF IInv, TypeInv, TypeOK
  <2>2. Len(file) = cursor /\ Framed(file) /\ part <= PayloadCells[r]
    BY <1>1 DEF IInv, WriteInv, TailInv
  <2> HIDE DEF r
  <2> QED
    BY <2>1, <2>2, PayloadAssumption DEF IInv, TypeInv, TypeOK
<1>c. c \in Cell
  BY <1>2 DEF Cell
<1> HIDE DEF c
<1>3. /\ file' = Append(file, c) /\ Len(file') = cursor + 1
      /\ file'[cursor + 1] = c /\ \A j \in 1..cursor : file'[j] = file[j]
  BY <1>1, <1>2, <1>c DEF Put
<1>4. cursor # 0 => IF part = 0
                    THEN file[cursor].part = PayloadCells[file[cursor].rec]
                    ELSE file[cursor] = [rec |-> r, part |-> part - 1]
  BY <1>1, CellBefore
<1>5. part <= cursor
  BY <1>1 DEF IInv, TypeInv
<1>6. Framed(file')
  <2> SUFFICES ASSUME NEW j \in 1..(cursor + 1)
               PROVE  LET s == file'[j].rec IN
                      IF file'[j].part = 0
                      THEN \A p \in 0..PayloadCells[s] :
                              j + p <= Len(file') => file'[j + p] = [rec |-> s, part |-> p]
                      ELSE /\ j > 1
                           /\ file'[j].part <= PayloadCells[s]
                           /\ file'[j - 1] = [rec |-> s, part |-> file'[j].part - 1]
    <3>1. DOMAIN file' = 1..(cursor + 1)
      BY <1>2, <1>3
    <3> QED
      BY <3>1 DEF Framed
  <2>1. CASE j = cursor + 1 /\ part = 0
    <3>1. file'[j].part = 0 /\ file'[j] = [rec |-> r, part |-> 0] /\ file'[j].rec = r
      BY <1>3, <2>1 DEF c
    <3>2. \A p \in 0..PayloadCells[r] : j + p <= Len(file') => p = 0
      BY <1>2, <1>3, <2>1
    <3> QED
      BY <1>2, <2>1, <3>1, <3>2
  <2>2. CASE j = cursor + 1 /\ part # 0
    <3>1. file'[j].part = part /\ file'[j].rec = r /\ cursor # 0
      BY <1>2, <1>3, <1>5, <2>2 DEF c
    <3>2. file'[j - 1] = [rec |-> r, part |-> part - 1] /\ j > 1
      BY <1>2, <1>3, <1>4, <2>2, <3>1
    <3> QED
      BY <1>2, <2>2, <3>1, <3>2
  <2>3. CASE j \in 1..cursor /\ file[j].part # 0
    <3>1. /\ j > 1 /\ file[j].part <= PayloadCells[file[j].rec]
          /\ file[j - 1] = [rec |-> file[j].rec, part |-> file[j].part - 1]
      BY <1>2, <2>3 DEF Framed
    <3> QED
      BY <1>2, <1>3, <2>3, <3>1
  <2>4. CASE j \in 1..cursor /\ file[j].part = 0
    <3> DEFINE s == file[j].rec
    <3>1. s \in Record /\ PayloadCells[s] \in Nat
      <4>1. file[j] \in Cell
        BY <1>2, <2>4
      <4> QED
        BY <4>1, PayloadAssumption DEF Cell
    <3>2. \A p \in 0..PayloadCells[s] :
             j + p <= cursor => file[j + p] = [rec |-> s, part |-> p]
      BY <1>2, <2>4 DEF Framed
    <3> HIDE DEF s
    <3> SUFFICES ASSUME NEW p \in 0..PayloadCells[s], j + p <= cursor + 1
                 PROVE  file'[j + p] = [rec |-> s, part |-> p]
      BY <1>3, <2>4 DEF s
    <3>3. CASE j + p <= cursor
      BY <1>2, <1>3, <2>4, <3>2, <3>3
    <3>4. CASE j + p = cursor + 1
      <4>1. p - 1 \in 0..PayloadCells[s] /\ j + (p - 1) = cursor /\ cursor # 0
        BY <1>2, <2>4, <3>1, <3>4
      <4>2. file[cursor] = [rec |-> s, part |-> p - 1]
        BY <3>2, <4>1
      <4>3. part # 0
        BY <1>4, <3>1, <4>1, <4>2
      <4>4. [rec |-> r, part |-> part - 1] = [rec |-> s, part |-> p - 1]
        BY <1>4, <4>1, <4>2, <4>3
      <4>5. r = s /\ part - 1 = p - 1
        BY <4>4
      <4> QED
        BY <1>2, <1>3, <3>1, <3>4, <4>5 DEF c
    <3>5. j + p <= cursor \/ j + p = cursor + 1
      <4>1. j \in Nat /\ p \in Nat /\ cursor \in Nat
        BY <1>2, <2>4, <3>1
      <4> QED
        BY <4>1
    <3> QED
      BY <3>3, <3>4, <3>5
  <2> QED
    BY <1>2, <2>1, <2>2, <2>3, <2>4
<1>7. Len(disk') <= Len(file') /\ \A j \in 1..Len(disk') : disk'[j] = file'[j]
  BY <1>1, <1>2, <1>3 DEF TailInv
<1> QED
  BY <1>1, <1>3, <1>6, <1>7 DEF TailInv

\* A power cut leaves a first part of the page cache, no shorter than the device.
LEMMA TailPowerCut ==
    ASSUME IInv, IInv', TailInv, NEW k \in 0..Len(file), PowerCut(k)
    PROVE  TailInv'
<1>1. /\ file \in Seq(Cell) /\ disk \in Seq(Cell) /\ file' \in Seq(Cell)
      /\ disk' = file' /\ pc' = "down"
      /\ file' = SubSeq(file, 1, k) \o SubSeq(disk, k + 1, Len(disk))
      /\ Len(disk) <= Len(file) /\ \A j \in 1..Len(disk) : disk[j] = file[j]
  BY DEF IInv, TypeInv, TypeOK, TailInv, PowerCut
<1>2. Len(file') <= Len(file) /\ \A j \in 1..Len(file') : file'[j] = file[j]
  <2> DEFINE front == SubSeq(file, 1, k)
             back == SubSeq(disk, k + 1, Len(disk))
  <2>1. front \in Seq(Cell) /\ Len(front) = k /\ \A j \in 1..k : front[j] = file[j]
    BY <1>1
  <2>2. /\ back \in Seq(Cell)
        /\ Len(back) = IF k < Len(disk) THEN Len(disk) - k ELSE 0
        /\ \A j \in 1..Len(back) : back[j] = disk[k + j]
    <3>1. CASE k < Len(disk)
      BY <1>1, <3>1
    <3>2. CASE ~(k < Len(disk))
      BY <1>1, <3>2
    <3> QED
      BY <3>1, <3>2
  <2>3. file' = front \o back
    BY <1>1
  <2> HIDE DEF front, back
  <2>a. Len(disk) \in Nat /\ Len(file) \in Nat /\ k \in Nat
    BY <1>1
  <2>b. Len(back) \in Nat
    BY <2>2
  <2>c. /\ Len(front \o back) = Len(front) + Len(back)
        /\ \A j \in 1..Len(front) : (front \o back)[j] = front[j]
        /\ \A j \in 1..Len(back) : (front \o back)[Len(front) + j] = back[j]
    <3>1. front \in Seq(Cell) /\ back \in Seq(Cell)
      BY <2>1, <2>2
    <3> QED
      BY <3>1
  <2>4. Len(file') = k + Len(back) /\ Len(file') <= Len(file)
    <3>1. Len(file') = k + Len(back)
      BY <2>1, <2>3, <2>c
    <3>2. k <= Len(file) /\ Len(disk) <= Len(file)
      BY <1>1
    <3> QED
      BY <2>a, <2>b, <2>2, <3>1, <3>2
  <2> SUFFICES ASSUME NEW j \in 1..Len(file')
               PROVE  file'[j] = file[j]
    BY <2>4
  <2>5. CASE j <= k
    BY <2>1, <2>3, <2>c, <2>5
  <2>6. CASE j > k
    <3>1. j - k \in 1..Len(back) /\ k + (j - k) = j /\ j \in 1..Len(disk)
      <4>1. j \in 1..(k + Len(back)) /\ Len(back) \in Nat
        BY <2>2, <2>4
      <4> QED
        BY <2>a, <2>2, <2>6, <4>1
    <3>2. file'[j] = back[j - k]
      BY <2>1, <2>3, <2>c, <3>1
    <3>3. back[j - k] = disk[j]
      BY <2>2, <3>1
    <3> QED
      BY <1>1, <3>1, <3>2, <3>3
  <2> QED
    BY <2>5, <2>6
<1>3. Framed(file')
  BY <1>1, <1>2, FramedPrefix DEF TailInv
<1> QED
  BY <1>1, <1>3 DEF TailInv

LEMMA TailTruncate ==
    ASSUME IInv, IInv', TailInv, TruncateTail
    PROVE  TailInv'
<1>1. /\ pc = "replay" /\ pc' = "truncated" /\ index' = index
      /\ file' = SubSeq(file, 1, cursor)
      /\ disk' = IF Len(file') < Len(disk) THEN SubSeq(disk, 1, Len(file')) ELSE disk
  BY DEF TruncateTail, LastGoodEnd
<1>2. /\ file \in Seq(Cell) /\ disk \in Seq(Cell) /\ file' \in Seq(Cell)
      /\ cursor \in Nat /\ cursor <= Len(file) /\ cursor = EndOf(index)
  BY <1>1 DEF IInv, TypeInv, TypeOK, IndexInv
<1>3. Len(file') = cursor /\ \A j \in 1..cursor : file'[j] = file[j]
  BY <1>1, <1>2
<1>4. Framed(file')
  BY <1>2, <1>3, FramedPrefix DEF TailInv
<1>5. Len(disk') <= Len(file') /\ \A j \in 1..Len(disk') : disk'[j] = file'[j]
  BY <1>1, <1>2, <1>3 DEF TailInv
<1> QED
  BY <1>1, <1>2, <1>3, <1>4, <1>5 DEF TailInv

LEMMA TailInvStep ==
    ASSUME ~WriteErrors, IInv, IInv', TailInv, [Next]_vars
    PROVE  TailInv'
<1>a. /\ file \in Seq(Cell) /\ disk \in Seq(Cell) /\ index \in Seq(Entry)
      /\ landed \in Seq(Entry) /\ cursor \in Nat /\ size \in Nat /\ part \in Nat
  BY DEF IInv, TypeInv, TypeOK
<1>1. ASSUME NEW rs, NEW b, Begin(rs, b)
      PROVE  TailInv'
  BY <1>1 DEF Begin, WriteOffset, TailInv, IInv, IndexInv
<1>2. CASE LandCell
  BY <1>2, TailLandCell
<1>3. CASE WriteDone
  <2>1. /\ pc = "write" /\ pc' \in {"idle", "sync"} /\ todo = <<>>
        /\ size' = cursor - part /\ UNCHANGED <<file, disk>>
    BY <1>3 DEF WriteDone, Publish, AppendPoint
  <2>2. part = 0 /\ Len(file) = cursor
    BY <2>1 DEF IInv, WriteInv, TailInv
  <2>3. size' = EndOf(index')
    BY <2>1 DEF IInv, IndexInv
  <2> QED
    BY <1>a, <2>1, <2>2, <2>3 DEF TailInv
<1>4. CASE WriteFails
  BY <1>4 DEF WriteFails
<1>5. CASE SyncIfNeeded
  BY <1>5, <1>a DEF SyncIfNeeded, Fsync, FsyncFails, TailInv
<1>6. CASE Sync
  BY <1>6, <1>a DEF Sync, Fsync, FsyncFails, TailInv
<1>7. CASE Close
  BY <1>7, <1>a DEF Close, Fsync, FsyncFails, TailInv
<1>8. CASE Kill \/ Open
  BY <1>8 DEF Kill, Open, TailInv
<1>9. ASSUME NEW k \in 0..Len(file), PowerCut(k)
      PROVE  TailInv'
  BY <1>9, TailPowerCut
<1>10. CASE ReplayAccept
  BY <1>10 DEF ReplayAccept, TailInv
<1>11. CASE ReplayEOF
  BY <1>11 DEF ReplayEOF, AtEnd, TailInv, IInv, IndexInv
<1>12. CASE TruncateTail
  BY <1>12, TailTruncate
<1>13. CASE TruncateSync
  BY <1>13, <1>a DEF TruncateSync, Fsync, FsyncFails, TailInv
<1>14. CASE ReplayCorrupt
  BY <1>14, HereIntact DEF ReplayCorrupt, BadChecksum
<1>15. CASE UNCHANGED vars
  BY <1>15 DEF vars, TailInv
<1> QED
  BY <1>1, <1>2, <1>3, <1>4, <1>5, <1>6, <1>7, <1>8, <1>9, <1>10, <1>11, <1>12,
     <1>13, <1>14, <1>15 DEF Next, AppendRecord, AppendBatch

LEMMA SoundInvInit == Init => SoundInv
<1> SUFFICES ASSUME Init
             PROVE  TailInv
  BY IInvInit DEF SoundInv
<1>1. file = <<>> /\ disk = <<>> /\ index = <<>> /\ pc = "idle"
  BY DEF Init
<1>2. Len(file) = 0 /\ Len(disk) = 0 /\ EndOf(index) = 0
  BY <1>1 DEF EndOf
<1>3. Framed(file)
  BY <1>1 DEF Framed
<1> QED
  BY <1>1, <1>2, <1>3 DEF TailInv

LEMMA SoundInvStep ==
    ASSUME ~FastOpen \/ ~WriteErrors
    PROVE  SoundInv /\ [Next]_vars => SoundInv'
<1> SUFFICES ASSUME SoundInv, [Next]_vars
             PROVE  SoundInv'
  OBVIOUS
<1>1. ReplayAccept => Intact(file, Here)
  <2> SUFFICES ASSUME ReplayAccept
               PROVE  Intact(file, Here)
    OBVIOUS
  <2>1. pc = "replay" /\ ~AtEnd /\ ~Misframed /\ ~BadChecksum
    BY DEF ReplayAccept
  <2>2. CASE ~FastOpen
    BY <2>1, <2>2 DEF BadChecksum, MustRead
  <2>3. CASE ~WriteErrors
    BY <2>1, <2>3, HereIntact DEF SoundInv
  <2> QED
    BY <2>2, <2>3
<1>2. IInv'
  BY <1>1, IInvStep DEF SoundInv
<1>3. WriteErrors \/ TailInv'
  BY <1>2, TailInvStep DEF SoundInv
<1>4. WriteErrors' = WriteErrors
  OBVIOUS
<1> QED
  BY <1>2, <1>3, <1>4 DEF SoundInv

-----------------------------------------------------------------------------
\* Theorems

\* The index, the page cache and the device agree on what was promised, at every
\* step of every write, crash and replay, with whatever system calls fail when
\* replay reads every payload, and with WithFastOpen when no write stops part way
\* (store.go).
THEOREM Invariance ==
    ASSUME ~FastOpen \/ ~WriteErrors
    PROVE  Spec => []IInv
<1>1. SoundInv => IInv
  BY DEF SoundInv
<1> QED
  BY <1>1, SoundInvInit, SoundInvStep, PTL DEF Spec

\* Whatever an fsync has covered survives every failed write, failed fsync,
\* kill and power cut, and every Open that succeeds finds it, in order and at
\* its place (appendRecord, appendBatch, syncIfNeeded and replay in store.go).
THEOREM DurableTheorem ==
    ASSUME ~FastOpen \/ ~WriteErrors
    PROVE  Spec => []Durable
<1>1. SoundInv => Durable
  BY DEF SoundInv, IInv, IndexInv, Durable
<1> QED
  BY <1>1, SoundInvInit, SoundInvStep, PTL DEF Spec

\* While a database is open its index and its append point describe the file
\* exactly, torn writes and failed batches included (store.go, collection.go).
THEOREM IndexTheorem ==
    ASSUME ~FastOpen \/ ~WriteErrors
    PROVE  Spec => []IndexTilesFile
<1>1. SoundInv => IndexTilesFile
  BY DEF SoundInv, IInv, IndexInv, IndexTilesFile
<1> QED
  BY <1>1, SoundInvInit, SoundInvStep, PTL DEF Spec

LEMMA AppendOnlyStep ==
    ASSUME IInv, [Next]_vars,
           pc \in {"idle", "write", "sync"}, pc' \in {"idle", "write", "sync"}
    PROVE  size <= size' /\ \A i \in 1..size : file'[i] = file[i]
<1>1. size \in Nat /\ cursor \in Nat /\ part \in Nat /\ Len(file) \in Nat
  BY DEF IInv, TypeInv, TypeOK
<1>2. CASE LandCell
  <2>1. size <= cursor /\ cursor <= Len(file) /\ pc = "write" /\ todo # <<>>
    BY <1>1, <1>2 DEF LandCell, IInv, WriteInv
  <2>2. [rec |-> Head(todo), part |-> part] \in Cell
    BY <2>1 DEF IInv, TypeInv, TypeOK, Cell
  <2>3. cursor + 1 \in 1..(Len(file) + 1) /\ file \in Seq(Cell)
    BY <1>1, <2>1 DEF IInv, TypeInv, TypeOK
  <2>4. \A j \in 1..Len(file) : j # cursor + 1 => file'[j] = file[j]
    BY <1>2, <2>2, <2>3, PutCell DEF LandCell
  <2> QED
    BY <1>1, <1>2, <2>1, <2>4 DEF LandCell
<1>3. CASE Publish /\ pc = "write"
  BY <1>1, <1>3 DEF Publish, AppendPoint, IInv, WriteInv
<1>4. CASE UNCHANGED <<file, size>>
  BY <1>1, <1>4
<1> QED
  BY <1>2, <1>3, <1>4 DEF Next, vars, AppendRecord, AppendBatch, Begin, WriteDone,
     WriteFails, SyncIfNeeded, Sync, Close, Kill, PowerCut, Open, ReplayAccept,
     ReplayEOF, TruncateTail, TruncateSync, ReplayCorrupt

\* The bytes below the append point are never written again while the database
\* is open, which is what lets readers use them without a lock (store.go,
\* appendRecord and appendBatch).
THEOREM AppendOnlyTheorem ==
    ASSUME ~FastOpen \/ ~WriteErrors
    PROVE  Spec => AppendOnly
<1>1. SoundInv /\ [Next]_vars =>
        ((pc \in {"idle", "write", "sync"} /\ pc' \in {"idle", "write", "sync"})
         => /\ size <= size'
            /\ \A i \in 1..size : file'[i] = file[i])
  BY AppendOnlyStep DEF SoundInv
<1> QED
  BY <1>1, SoundInvInit, SoundInvStep, PTL DEF Spec, AppendOnly

\* When no write stops part way, no crash makes Open refuse the file, whether or
\* not fsyncs fail and replay skips payloads (store.go, replay).
THEOREM NeverRefusedTheorem ==
    ASSUME ~WriteErrors
    PROVE  Spec => []NeverRefused
<1>1. SoundInv => NeverRefused
  BY DEF SoundInv, TailInv, NeverRefused
<1> QED
  BY <1>1, SoundInvInit, SoundInvStep, PTL DEF Spec

LEMMA FlushInvStep ==
    ASSUME ~SyncErrors
    PROVE  TypeInv /\ FlushInv /\ [Next]_vars => FlushInv'
<1> SUFFICES ASSUME TypeInv, FlushInv, [Next]_vars
             PROVE  FlushInv'
  OBVIOUS
<1> USE DEF FlushInv
<1>1. ASSUME pc = "write", Publish
      PROVE  FlushInv'
  <2> SUFFICES ASSUME ~needSync'
               PROVE  Len(index') = opened' \/ promised' = index'
    BY <1>1 DEF Publish
  <2>1. ~needSync /\ landed = <<>> /\ UNCHANGED <<opened, promised>>
    BY <1>1 DEF Publish, Outstanding
  <2>2. index' = index
    BY <1>1, <2>1 DEF Publish, TypeInv, TypeOK
  <2> QED
    BY <1>1, <2>1, <2>2
<1>2. CASE Sync \/ SyncIfNeeded \/ Close \/ TruncateSync
  BY <1>2 DEF Sync, SyncIfNeeded, Close, TruncateSync, Fsync, FsyncFails
<1>3. CASE Kill \/ Open \/ ReplayAccept \/ ReplayEOF \/ TruncateTail \/ ReplayCorrupt
  BY <1>3 DEF Kill, Open, Volatile, ReplayAccept, ReplayEOF, TruncateTail, ReplayCorrupt
<1>4. ASSUME NEW k \in 0..Len(file), PowerCut(k)
      PROVE  FlushInv'
  BY <1>4 DEF PowerCut
<1>5. ASSUME NEW rs, NEW b, Begin(rs, b)
      PROVE  FlushInv'
  BY <1>5 DEF Begin
<1>6. CASE LandCell \/ UNCHANGED vars
  BY <1>6 DEF LandCell, vars
<1> QED
  BY <1>1, <1>2, <1>3, <1>4, <1>5, <1>6
     DEF Next, AppendRecord, AppendBatch, WriteDone, WriteFails

\* As long as fsync tells the truth, a Close that returned nil left every record
\* this process appended on the device, whatever writes failed before
\* (nosqlite.go, Sync and Close).
THEOREM CloseFlushesTheorem ==
    ASSUME ~SyncErrors
    PROVE  Spec => []CloseFlushes
<1>1. Init => TypeInv /\ FlushInv
  BY IInvInit DEF IInv, Init, FlushInv
<1>2. TypeInv /\ FlushInv /\ [Next]_vars => TypeInv' /\ FlushInv'
  BY TypeInvStep, FlushInvStep
<1>3. FlushInv => CloseFlushes
  BY DEF FlushInv, CloseFlushes
<1> QED
  BY <1>1, <1>2, <1>3, PTL DEF Spec

-----------------------------------------------------------------------------
\* What FoundFrom finds

LEMMA LeastNat ==
    ASSUME NEW S, S \subseteq Nat, NEW x \in S
    PROVE  \E m \in S : \A n \in S : m <= n
<1>1. PICK m \in S : \A n \in S : ~(<<n, m>> \in OpToRel(<, Nat))
  BY NatLessThanWellFounded, WFMin
<1>2. \A n \in S : ~(n < m)
  BY <1>1, Zenon DEF OpToRel
<1>3. \A n \in S : m <= n
  BY <1>2
<1> QED
  BY <1>3

\* The equation of FoundFrom, with g for the function it defines.
Step(cells, g, o) ==
    IF o < Len(cells) /\ Intact(cells, EntryAt(cells, o))
    THEN <<EntryAt(cells, o)>> \o g[End(EntryAt(cells, o))]
    ELSE <<>>

\* It looks at larger offsets only.
LEMMA StepSame ==
    ASSUME NEW cells \in Seq(Cell), NEW o \in 0..Len(cells), NEW g, NEW h,
           \A p \in (o + 1)..Len(cells) : g[p] = h[p]
    PROVE  Step(cells, g, o) = Step(cells, h, o)
<1>1. CASE o < Len(cells) /\ Intact(cells, EntryAt(cells, o))
  <2>1. EntryAt(cells, o) \in Entry
    <3>1. cells[o + 1] \in Cell
      BY <1>1
    <3> QED
      BY <3>1 DEF EntryAt, Entry, Cell
  <2>2. End(EntryAt(cells, o)) \in (o + 1)..Len(cells)
    <3>1. EntryAt(cells, o).off = o
      BY DEF EntryAt
    <3>2. End(EntryAt(cells, o)) <= Len(cells)
      BY <1>1, <2>1, IntactFits
    <3>3. End(EntryAt(cells, o)) \in Nat /\ o < End(EntryAt(cells, o))
      BY <2>1, <3>1, EndType
    <3> QED
      BY <3>2, <3>3
  <2> QED
    BY <2>2 DEF Step
<1>2. CASE ~(o < Len(cells) /\ Intact(cells, EntryAt(cells, o)))
  BY <1>2 DEF Step
<1> QED
  BY <1>1, <1>2

\* So a function for it is found from the end of the file on.
LEMMA Solvable ==
    ASSUME NEW cells \in Seq(Cell)
    PROVE  \E g : g = [o \in 0..Len(cells) |-> Step(cells, g, o)]
<1> DEFINE Solves(g, m) == g = [o \in m..Len(cells) |-> Step(cells, g, o)]
           S == {m \in 0..Len(cells) : \E g : Solves(g, m)}
<1>1. Len(cells) \in Nat
  OBVIOUS
<1>2. Len(cells) \in S
  <2> DEFINE g == [o \in Len(cells)..Len(cells) |-> <<>>]
  <2>1. Solves(g, Len(cells))
    <3>1. \A o \in Len(cells)..Len(cells) : Step(cells, g, o) = <<>>
      BY <1>1 DEF Step
    <3> QED
      BY <3>1
  <2> HIDE DEF g, Solves
  <2> QED
    BY <1>1, <2>1
<1>3. PICK m \in S : \A n \in S : m <= n
  <2>1. S \subseteq Nat
    BY <1>1
  <2> HIDE DEF S
  <2> QED
    BY <1>2, <2>1, LeastNat
<1>4. PICK g : Solves(g, m)
  BY <1>3
<1>5. CASE m = 0
  BY <1>4, <1>5
<1>6. CASE m # 0
  <2> DEFINE h == [o \in (m - 1)..Len(cells) |->
                     IF o = m - 1 THEN Step(cells, g, m - 1) ELSE g[o]]
  <2>1. m \in 1..Len(cells) /\ m - 1 \in 0..Len(cells)
    BY <1>1, <1>3, <1>6
  <2>2. \A o \in (m - 1)..Len(cells) : \A p \in (o + 1)..Len(cells) : h[p] = g[p]
    BY <1>1, <2>1
  <2>3. \A o \in (m - 1)..Len(cells) : o \in 0..Len(cells)
    BY <1>1, <2>1
  <2>4. \A o \in (m - 1)..Len(cells) : Step(cells, h, o) = Step(cells, g, o)
    <3> HIDE DEF h
    <3> QED
      BY <2>2, <2>3, StepSame
  <2>5. \A o \in m..Len(cells) : g[o] = Step(cells, g, o)
    BY <1>4
  <2>6. \A o \in (m - 1)..Len(cells) : h[o] = Step(cells, g, o)
    BY <1>1, <2>1, <2>5
  <2>7. h = [o \in (m - 1)..Len(cells) |-> h[o]]
    OBVIOUS
  <2>8. Solves(h, m - 1)
    <3> HIDE DEF h
    <3> QED
      BY <2>4, <2>6, <2>7
  <2>9. m - 1 \in S
    <3> HIDE DEF h, Solves
    <3> QED
      BY <2>1, <2>8
  <2> QED
    BY <1>1, <1>3, <2>1, <2>9
<1> QED
  BY <1>5, <1>6

LEMMA FoundStep ==
    ASSUME NEW cells \in Seq(Cell), NEW o \in 0..Len(cells)
    PROVE  FoundFrom(cells)[o] = Step(cells, FoundFrom(cells), o)
<1>1. PICK g : g = [p \in 0..Len(cells) |-> Step(cells, g, p)]
  BY Solvable
<1>2. FoundFrom(cells) = CHOOSE h : h = [p \in 0..Len(cells) |-> Step(cells, h, p)]
  BY DEF FoundFrom, Step
<1>3. FoundFrom(cells) = [p \in 0..Len(cells) |-> Step(cells, FoundFrom(cells), p)]
  BY <1>1, <1>2, Zenon
<1> QED
  BY <1>3

-----------------------------------------------------------------------------
\* Runs of records

\* What stands at an offset in front of all that is intact and tiled from 0.
Off(ix, i) == IF i = 0 THEN 0 ELSE End(ix[i])

LEMMA OffFacts ==
    ASSUME NEW ix \in Seq(Entry), TiledFrom(0, ix)
    PROVE  /\ \A i \in 0..Len(ix) : Off(ix, i) \in Nat
           /\ \A i \in 1..Len(ix) : ix[i].off = Off(ix, i - 1) /\ Off(ix, i - 1) < Off(ix, i)
           /\ EndOf(ix) = Off(ix, Len(ix))
<1>1. \A i \in 1..Len(ix) : ix[i] \in Entry
  OBVIOUS
<1>2. \A i \in 0..Len(ix) : Off(ix, i) \in Nat
  BY <1>1, EndType DEF Off
<1>3. \A i \in 1..Len(ix) : ix[i].off = Off(ix, i - 1)
  BY DEF TiledFrom, Off
<1>4. \A i \in 1..Len(ix) : ix[i].off < Off(ix, i)
  BY <1>1, EndType DEF Off
<1>5. EndOf(ix) = Off(ix, Len(ix))
  BY DEF EndOf, Off
<1> QED
  BY <1>2, <1>3, <1>4, <1>5

\* The ends of records ascend.
LEMMA OffAscends ==
    ASSUME NEW ix \in Seq(Entry), TiledFrom(0, ix),
           NEW i \in 0..Len(ix), NEW j \in 0..Len(ix), i <= j
    PROVE  Off(ix, i) <= Off(ix, j)
<1> DEFINE S == {n \in i..Len(ix) : ~(Off(ix, i) <= Off(ix, n))}
<1>1. SUFFICES ASSUME S # {} PROVE FALSE
  OBVIOUS
<1>2. PICK m \in S : \A n \in S : m <= n
  <2>1. S \subseteq Nat
    OBVIOUS
  <2> HIDE DEF S
  <2> QED
    BY <1>1, <2>1, LeastNat
<1>3. m # i /\ m \in 1..Len(ix) /\ m - 1 \in i..Len(ix)
  BY <1>2, OffFacts
<1>4. Off(ix, i) <= Off(ix, m - 1)
  BY <1>2, <1>3
<1> QED
  BY <1>2, <1>3, <1>4, OffFacts

\* Every cell in front of the end of the run belongs to one of its records.
LEMMA CellOfRun ==
    ASSUME NEW ix \in Seq(Entry), TiledFrom(0, ix), NEW j \in 1..EndOf(ix)
    PROVE  \E i \in 1..Len(ix) : Off(ix, i - 1) < j /\ j <= Off(ix, i)
<1> DEFINE S == {n \in 0..Len(ix) : j <= Off(ix, n)}
<1>1. Len(ix) \in S
  BY OffFacts
<1>2. PICK m \in S : \A n \in S : m <= n
  <2>1. S \subseteq Nat
    OBVIOUS
  <2> HIDE DEF S
  <2> QED
    BY <1>1, <2>1, LeastNat
<1>3. m # 0
  BY <1>2 DEF Off
<1>4. m \in 1..Len(ix) /\ m - 1 \in 0..Len(ix) /\ m - 1 \notin S
  BY <1>2, <1>3
<1>5. Off(ix, m - 1) < j
  BY <1>4, OffFacts
<1> QED
  BY <1>2, <1>4, <1>5

\* The last cell of an intact record says so.
LEMMA LastPart ==
    ASSUME NEW cells \in Seq(Cell), NEW e \in Entry, Intact(cells, e)
    PROVE  /\ End(e) \in 1..Len(cells)
           /\ cells[End(e)].part = PayloadCells[cells[End(e)].rec]
<1>1. PayloadCells[e.rec] \in Nat /\ e.off \in Nat
  BY PayloadAssumption DEF Entry
<1>2. PayloadCells[e.rec] \in 0..PayloadCells[e.rec] /\ e.off + PayloadCells[e.rec] + 1 = End(e)
  BY <1>1 DEF End
<1>3. End(e) <= Len(cells) /\ cells[End(e)] = [rec |-> e.rec, part |-> PayloadCells[e.rec]]
  BY <1>2 DEF Intact
<1> QED
  BY <1>1, <1>2, <1>3

\* Where the last cell of a record stands in an intact run, one of its records ends.
LEMMA LastPartEnds ==
    ASSUME NEW cells \in Seq(Cell), NEW ix \in Seq(Entry),
           TiledFrom(0, ix), AllIntact(cells, ix), NEW j \in 1..EndOf(ix),
           ~(cells[j].part < PayloadCells[cells[j].rec])
    PROVE  \E i \in 1..Len(ix) : j = Off(ix, i)
<1>1. PICK i \in 1..Len(ix) : Off(ix, i - 1) < j /\ j <= Off(ix, i)
  BY CellOfRun
<1>2. /\ ix[i] \in Entry /\ Intact(cells, ix[i]) /\ ix[i].off = Off(ix, i - 1)
      /\ Off(ix, i) = End(ix[i]) /\ ix[i].off \in Nat
  <2>1. ix[i] \in Entry /\ Intact(cells, ix[i])
    BY DEF AllIntact
  <2>2. ix[i].off = Off(ix, i - 1) /\ Off(ix, i) = End(ix[i])
    BY OffFacts DEF Off
  <2> QED
    BY <2>1, <2>2 DEF Entry
<1>3. PayloadCells[ix[i].rec] \in Nat
  BY <1>2, PayloadAssumption DEF Entry
<1> DEFINE p == j - ix[i].off - 1
<1>4. j \in Nat
  BY EndOfFits
<1>5. p \in 0..PayloadCells[ix[i].rec] /\ ix[i].off + p + 1 = j
  <2>1. End(ix[i]) = ix[i].off + 1 + PayloadCells[ix[i].rec]
    BY DEF End
  <2>2. ix[i].off < j /\ j <= End(ix[i])
    BY <1>1, <1>2
  <2> QED
    BY <1>2, <1>3, <1>4, <2>1, <2>2, SMTT(40)
<1>6. cells[j] = [rec |-> ix[i].rec, part |-> p]
  BY <1>2, <1>5 DEF Intact
<1>7. p = PayloadCells[ix[i].rec]
  BY <1>3, <1>5, <1>6
<1> QED
  BY <1>2, <1>3, <1>4, <1>7 DEF End

-----------------------------------------------------------------------------
\* What cells hold

LEMMA PayloadNat ==
    ASSUME NEW c \in Cell
    PROVE  PayloadCells[c.rec] \in Nat /\ c.part \in Nat
BY PayloadAssumption DEF Cell

\* No record is intact behind all there is.
LEMMA HoldsLast ==
    ASSUME NEW cells \in Seq(Cell), NEW ix \in Seq(Entry), Holds(cells, ix),
           NEW e \in Entry, Intact(cells, e)
    PROVE  End(e) <= EndOf(ix)
<1>1. /\ End(e) \in 1..Len(cells) /\ cells[End(e)] \in Cell
      /\ cells[End(e)].part = PayloadCells[cells[End(e)].rec]
  BY LastPart
<1>2. EndOf(ix) \in Nat
  BY EndOfFits DEF Holds
<1>3. ~(End(e) \in (EndOf(ix) + 1)..Len(cells))
  BY <1>1, PayloadNat DEF Holds, NoneEnds
<1> QED
  BY <1>1, <1>2, <1>3

\* Two intact records at one place are the same.
LEMMA SamePlace ==
    ASSUME NEW cells \in Seq(Cell), NEW d \in Entry, NEW e \in Entry,
           Intact(cells, d), Intact(cells, e), d.off = e.off
    PROVE  d = e
<1>1. d.rec = e.rec
  <2>1. cells[d.off + 1] = [rec |-> d.rec, part |-> 0]
    BY IntactFits
  <2>2. cells[e.off + 1] = [rec |-> e.rec, part |-> 0]
    BY IntactFits
  <2> QED
    BY <2>1, <2>2
<1> QED
  BY <1>1 DEF Entry

\* A run of intact records is a first part of all there is.
LEMMA RunBegins ==
    ASSUME NEW cells \in Seq(Cell), NEW ix \in Seq(Entry), Holds(cells, ix),
           NEW jx \in Seq(Entry), TiledFrom(0, jx), AllIntact(cells, jx)
    PROVE  Begins(jx, ix)
<1>1. /\ TiledFrom(0, ix) /\ AllIntact(cells, ix)
      /\ Len(ix) \in Nat /\ Len(jx) \in Nat
      /\ DOMAIN ix = 1..Len(ix) /\ DOMAIN jx = 1..Len(jx)
  BY DEF Holds
<1> DEFINE S == {i \in DOMAIN ix \cap DOMAIN jx : ix[i] # jx[i]}
<1>2. ASSUME S # {} PROVE FALSE
  <2>1. PICK m \in S : \A n \in S : m <= n
    <3>1. S \subseteq Nat
      BY <1>1
    <3> HIDE DEF S
    <3> QED
      BY <1>2, <3>1, LeastNat
  <2>2. m \in 1..Len(ix) /\ m \in 1..Len(jx)
    BY <1>1, <2>1
  <2>3. Off(ix, m - 1) = Off(jx, m - 1)
    <3>1. CASE m = 1
      BY <3>1 DEF Off
    <3>2. CASE m # 1
      <4>1. m - 1 \in DOMAIN ix \cap DOMAIN jx /\ m - 1 \notin S /\ m - 1 # 0
        BY <1>1, <2>1, <2>2, <3>2
      <4> QED
        BY <4>1 DEF Off
    <3> QED
      BY <3>1, <3>2
  <2>4. ix[m].off = jx[m].off
    BY <1>1, <2>2, <2>3, OffFacts
  <2>5. ix[m] \in Entry /\ jx[m] \in Entry /\ Intact(cells, ix[m]) /\ Intact(cells, jx[m])
    BY <1>1, <2>2 DEF AllIntact
  <2> QED
    BY <2>1, <2>4, <2>5, SamePlace
<1>3. Agree(jx, ix)
  BY <1>2 DEF Agree
<1>4. ASSUME Len(ix) < Len(jx) PROVE FALSE
  <2> DEFINE m == Len(ix) + 1
  <2>1. m \in 1..Len(jx) /\ m - 1 = Len(ix)
    BY <1>1, <1>4
  <2>2. Off(jx, Len(ix)) = EndOf(ix)
    <3>1. Len(ix) # 0 => jx[Len(ix)] = ix[Len(ix)]
      BY <1>1, <1>3, <1>4 DEF Agree
    <3>2. EndOf(ix) = Off(ix, Len(ix))
      BY <1>1, OffFacts
    <3> QED
      BY <3>1, <3>2 DEF Off
  <2>3. jx[m] \in Entry /\ Intact(cells, jx[m]) /\ jx[m].off = EndOf(ix)
    BY <2>1, <2>2, OffFacts DEF AllIntact
  <2>4. EndOf(ix) \in Nat
    BY <1>1, EndOfFits
  <2> QED
    BY <2>3, <2>4, HoldsLast, EndType
<1> QED
  BY <1>1, <1>3, <1>4 DEF Begins

\* FoundFrom finds all there is.
LEMMA FoundIs ==
    ASSUME NEW cells \in Seq(Cell), NEW ix \in Seq(Entry), Holds(cells, ix)
    PROVE  Found(cells) = ix
<1> DEFINE f == FoundFrom(cells)
           Rest(i) == SubSeq(ix, i + 1, Len(ix))
           S == {i \in 0..Len(ix) : f[Off(ix, i)] = Rest(i)}
<1>1. TiledFrom(0, ix) /\ AllIntact(cells, ix) /\ Len(ix) \in Nat /\ Len(cells) \in Nat
  BY DEF Holds
<1>2. EndOf(ix) \in 0..Len(cells) /\ Off(ix, Len(ix)) = EndOf(ix)
  BY <1>1, EndOfFits, OffFacts
<1>3. Len(ix) \in S
  <2>1. ~(EndOf(ix) < Len(cells) /\ Intact(cells, EntryAt(cells, EndOf(ix))))
    <3> SUFFICES ASSUME EndOf(ix) < Len(cells), Intact(cells, EntryAt(cells, EndOf(ix)))
                 PROVE  FALSE
      OBVIOUS
    <3>1. cells[EndOf(ix) + 1] \in Cell
      BY <1>2
    <3>2. EntryAt(cells, EndOf(ix)) \in Entry /\ EntryAt(cells, EndOf(ix)).off = EndOf(ix)
      BY <1>2, <3>1 DEF EntryAt, Entry, Cell
    <3> QED
      BY <1>2, <3>2, HoldsLast, EndType
  <2>2. f[EndOf(ix)] = <<>>
    BY <1>2, <2>1, FoundStep DEF Step
  <2>3. Rest(Len(ix)) = <<>>
    BY <1>1
  <2>4. f[Off(ix, Len(ix))] = Rest(Len(ix))
    BY <1>2, <2>2, <2>3
  <2> HIDE DEF f, Rest
  <2> QED
    BY <1>1, <2>4
<1>4. PICK m \in S : \A n \in S : m <= n
  <2>1. S \subseteq Nat
    OBVIOUS
  <2> HIDE DEF S
  <2> QED
    BY <1>3, <2>1, LeastNat
<1>5. CASE m # 0
  <2>1. m \in 1..Len(ix) /\ m - 1 \in 0..Len(ix)
    BY <1>4, <1>5
  <2>2. ix[m] \in Entry /\ Intact(cells, ix[m]) /\ ix[m].off = Off(ix, m - 1)
    BY <1>1, <2>1, OffFacts DEF AllIntact
  <2>3. /\ Off(ix, m - 1) \in Nat /\ Off(ix, m - 1) < Len(cells)
        /\ cells[Off(ix, m - 1) + 1].rec = ix[m].rec
    <3>1. End(ix[m]) <= Len(cells) /\ cells[ix[m].off + 1] = [rec |-> ix[m].rec, part |-> 0]
      BY <2>2, IntactFits
    <3>2. End(ix[m]) \in Nat /\ ix[m].off < End(ix[m]) /\ ix[m].off \in Nat
      BY <2>2, EndType DEF Entry
    <3> QED
      BY <1>1, <2>2, <3>1, <3>2
  <2>4. EntryAt(cells, Off(ix, m - 1)) = ix[m]
    BY <2>2, <2>3 DEF EntryAt, Entry
  <2>5. f[Off(ix, m - 1)] = <<ix[m]>> \o f[End(ix[m])]
    <3>1. Off(ix, m - 1) \in 0..Len(cells)
      BY <1>1, <2>3
    <3>2. f[Off(ix, m - 1)] = Step(cells, f, Off(ix, m - 1))
      BY <3>1, FoundStep
    <3> HIDE DEF f
    <3> QED
      BY <2>2, <2>3, <2>4, <3>2 DEF Step
  <2>6. f[End(ix[m])] = Rest(m)
    BY <1>4, <1>5 DEF Off
  <2>7. <<ix[m]>> \o Rest(m) = Rest(m - 1)
    BY <2>1, SMTT(40)
  <2>8. m - 1 \in S
    BY <2>1, <2>5, <2>6, <2>7
  <2> QED
    BY <1>4, <2>1, <2>8
<1>6. CASE m = 0
  <2>1. f[0] = SubSeq(ix, 1, Len(ix))
    BY <1>4, <1>6 DEF Off
  <2> QED
    BY <2>1 DEF Found
<1> QED
  BY <1>5, <1>6

-----------------------------------------------------------------------------
\* First parts

LEMMA BeginsSelf ==
    ASSUME NEW ix \in Seq(Entry)
    PROVE  Begins(ix, ix)
BY DEF Begins, Agree

LEMMA BeginsThrough ==
    ASSUME NEW ix \in Seq(Entry), NEW jx \in Seq(Entry), NEW kx \in Seq(Entry),
           Begins(ix, jx), Begins(jx, kx)
    PROVE  Begins(ix, kx)
<1>1. /\ Len(ix) \in Nat /\ Len(jx) \in Nat /\ Len(kx) \in Nat
      /\ DOMAIN ix = 1..Len(ix) /\ DOMAIN jx = 1..Len(jx) /\ DOMAIN kx = 1..Len(kx)
      /\ Len(ix) <= Len(jx) /\ Len(jx) <= Len(kx)
  BY DEF Begins
<1>2. \A i \in DOMAIN ix \cap DOMAIN kx : i \in DOMAIN ix \cap DOMAIN jx /\ i \in DOMAIN jx \cap DOMAIN kx
  BY <1>1
<1> QED
  BY <1>1, <1>2 DEF Begins, Agree

LEMMA BeginsAppend ==
    ASSUME NEW ix \in Seq(Entry), NEW jx \in Seq(Entry), NEW e \in Entry, Begins(ix, jx)
    PROVE  Begins(ix, Append(jx, e))
<1> DEFINE kx == Append(jx, e)
<1>1. /\ Len(ix) \in Nat /\ Len(jx) \in Nat /\ Len(ix) <= Len(jx)
      /\ DOMAIN ix = 1..Len(ix) /\ DOMAIN jx = 1..Len(jx)
      /\ Len(kx) = Len(jx) + 1 /\ \A i \in 1..Len(jx) : kx[i] = jx[i]
  BY DEF Begins
<1> HIDE DEF kx
<1>2. \A i \in DOMAIN ix \cap DOMAIN kx : ix[i] = kx[i]
  BY <1>1 DEF Begins, Agree
<1> QED
  BY <1>1, <1>2 DEF Begins, Agree, kx

\* Of two first parts of each other there is one.
LEMMA SameRun ==
    ASSUME NEW ix \in Seq(Entry), NEW jx \in Seq(Entry),
           Begins(ix, jx), Len(jx) <= Len(ix)
    PROVE  ix = jx
<1>1. Len(ix) = Len(jx) /\ \A i \in 1..Len(ix) : ix[i] = jx[i]
  BY DEF Begins, Agree
<1> QED
  BY <1>1

\* A first part of a run ends where its last record does in the run.
LEMMA BeginsEnd ==
    ASSUME NEW ix \in Seq(Entry), NEW jx \in Seq(Entry), Begins(ix, jx), TiledFrom(0, jx)
    PROVE  /\ \A i \in 0..Len(ix) : i \in 0..Len(jx) /\ Off(ix, i) = Off(jx, i)
           /\ EndOf(ix) <= EndOf(jx)
<1>1. /\ Len(ix) \in Nat /\ Len(jx) \in Nat /\ Len(ix) <= Len(jx)
      /\ DOMAIN ix = 1..Len(ix) /\ DOMAIN jx = 1..Len(jx)
  BY DEF Begins
<1>2. \A i \in 1..Len(ix) : i \in 1..Len(jx) /\ ix[i] = jx[i]
  BY <1>1 DEF Begins, Agree
<1>3. \A i \in 0..Len(ix) : i \in 0..Len(jx) /\ Off(ix, i) = Off(jx, i)
  BY <1>1, <1>2 DEF Off
<1>4. EndOf(ix) = Off(ix, Len(ix))
  BY DEF EndOf, Off
<1>5. EndOf(jx) = Off(jx, Len(jx))
  BY OffFacts
<1>6. Off(jx, Len(ix)) <= Off(jx, Len(jx))
  BY <1>1, OffAscends
<1> QED
  BY <1>1, <1>3, <1>4, <1>5, <1>6

\* The records of a run end inside it.
LEMMA RunBelow ==
    ASSUME NEW ix \in Seq(Entry), TiledFrom(0, ix)
    PROVE  Below(EndOf(ix), ix)
<1> SUFFICES ASSUME NEW i \in 1..Len(ix)
             PROVE  End(ix[i]) <= EndOf(ix)
  BY DEF Below
<1>1. Off(ix, i) <= Off(ix, Len(ix)) /\ Off(ix, i) = End(ix[i]) /\ EndOf(ix) = Off(ix, Len(ix))
  BY OffAscends, OffFacts DEF Off
<1> QED
  BY <1>1

\* A run is all there is when nothing intact stands behind it.
LEMMA NothingBehind ==
    ASSUME NEW cells \in Seq(Cell), NEW ix \in Seq(Entry), Holds(cells, ix),
           NEW jx \in Seq(Entry), Begins(jx, ix), TiledFrom(0, jx),
           \A e \in Entry : e.off = EndOf(jx) => ~Intact(cells, e)
    PROVE  ix = jx
<1>1. /\ TiledFrom(0, ix) /\ AllIntact(cells, ix) /\ Len(ix) \in Nat /\ Len(jx) \in Nat
      /\ Len(jx) <= Len(ix)
  BY DEF Holds, Begins
<1>2. ASSUME Len(jx) < Len(ix) PROVE FALSE
  <2>1. /\ Len(jx) + 1 \in 1..Len(ix) /\ Len(jx) + 1 - 1 = Len(jx)
        /\ Len(jx) \in 0..Len(jx)
    BY <1>1, <1>2
  <2>2. ix[Len(jx) + 1] \in Entry /\ Intact(cells, ix[Len(jx) + 1])
    BY <1>1, <2>1 DEF AllIntact
  <2>3. ix[Len(jx) + 1].off = Off(ix, Len(jx))
    BY <1>1, <2>1, OffFacts
  <2>4. Off(ix, Len(jx)) = Off(jx, Len(jx)) /\ EndOf(jx) = Off(jx, Len(jx))
    BY <1>1, <2>1, BeginsEnd, OffFacts
  <2> QED
    BY <2>2, <2>3, <2>4
<1> QED
  BY <1>1, <1>2, SameRun

\* What all there is becomes when the cells behind it change without completing a
\* record, or are cut off.
LEMMA HoldsKept ==
    ASSUME NEW cells \in Seq(Cell), NEW other \in Seq(Cell), NEW ix \in Seq(Entry),
           Holds(cells, ix), EndOf(ix) <= Len(other),
           \A j \in 1..EndOf(ix) : other[j] = cells[j],
           \A j \in (EndOf(ix) + 1)..Len(other) :
              \/ j <= Len(cells) /\ other[j] = cells[j]
              \/ other[j].part < PayloadCells[other[j].rec]
    PROVE  Holds(other, ix)
<1>1. TiledFrom(0, ix) /\ AllIntact(cells, ix) /\ EndOf(ix) \in Nat /\ Below(EndOf(ix), ix)
  BY EndOfFits, RunBelow DEF Holds
<1>2. AllIntact(other, ix)
  BY <1>1, AllIntactKept
<1>3. NoneEnds(other, EndOf(ix))
  BY <1>1 DEF NoneEnds, Holds
<1> QED
  BY <1>1, <1>2, <1>3 DEF Holds

-----------------------------------------------------------------------------
\* The records of the file and of the device, step by step

LEMMA LogsType ==
    ASSUME TypeOK, NEW L, NEW D, Logs(L, D)
    PROVE  /\ file \in Seq(Cell) /\ disk \in Seq(Cell)
           /\ L \in Seq(Entry) /\ TiledFrom(0, L) /\ AllIntact(file, L)
           /\ D \in Seq(Entry) /\ TiledFrom(0, D) /\ AllIntact(disk, D)
           /\ EndOf(L) \in 0..Len(file) /\ EndOf(D) \in 0..Len(disk)
           /\ Begins(D, L) /\ EndOf(D) <= EndOf(L)
           /\ Len(promised) \in Nat /\ Begins(promised, L)
<1>1. /\ file \in Seq(Cell) /\ disk \in Seq(Cell) /\ promised \in Seq(Entry)
      /\ L \in Seq(Entry) /\ TiledFrom(0, L) /\ AllIntact(file, L)
      /\ D \in Seq(Entry) /\ TiledFrom(0, D) /\ AllIntact(disk, D)
      /\ Begins(D, L) /\ Begins(promised, D)
  BY DEF TypeOK, Logs, Holds
<1>2. EndOf(L) \in 0..Len(file) /\ EndOf(D) \in 0..Len(disk)
  BY <1>1, EndOfFits
<1> QED
  BY <1>1, <1>2, BeginsEnd, BeginsThrough

\* Nothing is written and nothing flushed.
LEMMA LogsQuiet ==
    ASSUME NEW L, NEW D, Logs(L, D), UNCHANGED <<file, disk, promised>>,
           pc' \in {"idle", "sync", "closed", "truncated"} => L = index',
           pc' = "write" => L = index' \o landed',
           pc' = "replay" => Begins(index', L),
           pc' = "write" /\ ~batch' => Len(landed') + Len(todo') = 1
    PROVE  Logs(L, D)'
BY DEF Logs

\* An fsync: the device has what the file has.
LEMMA LogsFlushed ==
    ASSUME TypeOK, NEW L, NEW D, Logs(L, D), Fsync, UNCHANGED <<file, index>>, L = index,
           pc' \notin {"write", "replay"}
    PROVE  Logs(L, L)'
<1>1. L \in Seq(Entry)
  BY DEF Logs
<1> QED
  BY <1>1, BeginsSelf DEF Logs, Fsync

\* A write stands behind the records of the file.
LEMMA WriteBehind ==
    ASSUME IInv, NEW L, NEW D, Logs(L, D), pc = "write"
    PROVE  /\ L = index \o landed
           /\ EndOf(L) = cursor - part
           /\ Below(cursor - part, L)
           /\ cursor \in Nat /\ part \in Nat /\ part <= cursor /\ cursor <= Len(file)
<1>1. /\ file \in Seq(Cell) /\ index \in Seq(Entry) /\ landed \in Seq(Entry)
      /\ size \in Nat /\ cursor \in Nat /\ part \in Nat
      /\ size + part <= cursor /\ cursor <= Len(file) /\ part <= cursor
  BY DEF IInv, TypeInv, TypeOK, WriteInv
<1>2. /\ cursor - part \in Nat /\ size <= cursor - part
  BY <1>1
<1>3. /\ TiledFrom(0, index) /\ AllIntact(file, index)
      /\ size = EndOf(index) /\ Below(size, index)
  BY DEF IInv, IndexInv
<1>4. /\ TiledFrom(size, landed) /\ AllIntact(file, landed) /\ Below(cursor - part, landed)
      /\ cursor - part = IF landed = <<>> THEN size ELSE EndOf(landed)
  BY DEF IInv, WriteInv
<1>5. L = index \o landed
  BY DEF Logs
<1> QED
  BY <1>1, <1>2, <1>3, <1>4, <1>5, RunConcat

LEMMA AppendBehind ==
    ASSUME NEW ix \in Seq(Entry), NEW jx \in Seq(Entry), NEW e \in Entry
    PROVE  Append(ix \o jx, e) = ix \o Append(jx, e)
<1> DEFINE a == Append(ix \o jx, e)
           b == ix \o Append(jx, e)
<1>1. a \in Seq(Entry) /\ b \in Seq(Entry) /\ Len(a) = Len(b)
  OBVIOUS
<1>2. \A i \in 1..Len(a) : a[i] = b[i]
  OBVIOUS
<1> HIDE DEF a, b
<1>3. a = b
  BY <1>1, <1>2
<1> QED
  BY <1>3 DEF a, b

\* A cell that does not end its record adds nothing, one that does adds the record.
LEMMA LogsLandCell ==
    ASSUME IInv, IInv', NEW L, NEW D, Logs(L, D), LandCell
    PROVE  \/ Logs(L, D)'
           \/ \E e \in Entry : Logs(Append(L, e), D)'
<1> DEFINE r == Head(todo)
           c == [rec |-> r, part |-> part]
<1>1. /\ pc = "write" /\ pc' = "write" /\ todo # <<>>
      /\ file' = Put(file, cursor + 1, c) /\ cursor' = cursor + 1
      /\ UNCHANGED <<disk, index, batch, promised>>
  BY DEF LandCell
<1>2. /\ L = index \o landed /\ EndOf(L) = cursor - part /\ Below(cursor - part, L)
      /\ cursor \in Nat /\ part \in Nat /\ part <= cursor /\ cursor <= Len(file)
  BY <1>1, WriteBehind
<1>3. /\ file \in Seq(Cell) /\ disk \in Seq(Cell) /\ L \in Seq(Entry) /\ D \in Seq(Entry)
      /\ TiledFrom(0, L) /\ AllIntact(file, L) /\ Holds(file, L)
      /\ file' \in Seq(Cell) /\ landed \in Seq(Entry) /\ index \in Seq(Entry)
      /\ landed' \in Seq(Entry) /\ todo \in Seq(Record)
  <2>1. TypeOK /\ TypeOK'
    BY DEF IInv, TypeInv
  <2> QED
    BY <2>1, LogsType DEF TypeOK, Logs
<1>4. r \in Record /\ c \in Cell /\ cursor - part \in Nat
  <2>1. r \in Record
    BY <1>1, <1>3
  <2> QED
    BY <1>2, <2>1 DEF Cell
<1>5. /\ Len(file') >= cursor + 1 /\ Len(file') >= Len(file) /\ file'[cursor + 1] = c
      /\ \A j \in 1..Len(file) : j # cursor + 1 => file'[j] = file[j]
  <2>1. cursor + 1 \in 1..(Len(file) + 1)
    BY <1>2, <1>3
  <2> HIDE DEF c
  <2> QED
    BY <1>1, <1>3, <1>4, <2>1, PutCell
<1>a. Len(file) \in Nat /\ Len(file') \in Nat /\ EndOf(L) \in Nat
  BY <1>2, <1>3, <1>4
<1>6. Len(file') <= Len(file) \/ Len(file') = cursor + 1
  BY <1>1, <1>2, <1>3, <1>4 DEF Put
<1>7. \A j \in 1..EndOf(L) : file'[j] = file[j]
  BY <1>2, <1>a, <1>5, SMTT(40)
<1>8. \A j \in (EndOf(L) + 1)..Len(file') :
         j # cursor + 1 => j <= Len(file) /\ file'[j] = file[j]
  BY <1>2, <1>a, <1>5, <1>6
<1>9. /\ Begins(promised, D) /\ Begins(D, L) /\ Holds(disk, D)
      /\ ~batch => Len(landed) + Len(todo) = 1
  BY <1>1 DEF Logs
<1>10. CASE part < PayloadCells[r]
  <2>1. UNCHANGED <<todo, landed>>
    BY <1>10 DEF LandCell
  <2>2. Holds(file', L)
    <3>1. file'[cursor + 1].part < PayloadCells[file'[cursor + 1].rec]
      BY <1>5, <1>10
    <3>2. \A j \in (EndOf(L) + 1)..Len(file') :
             \/ j <= Len(file) /\ file'[j] = file[j]
             \/ file'[j].part < PayloadCells[file'[j].rec]
      BY <1>8, <3>1
    <3>3. EndOf(L) <= Len(file')
      BY <1>2, <1>3, <1>5
    <3> QED
      BY <1>3, <1>7, <3>2, <3>3, HoldsKept
  <2> QED
    BY <1>1, <1>2, <1>3, <1>9, <2>1, <2>2 DEF Logs
<1>11. CASE ~(part < PayloadCells[r])
  <2>0. PICK e \in Entry : e = [rec |-> r, off |-> cursor - part]
    BY <1>4 DEF Entry
  <2> DEFINE M == Append(L, e)
  <2>1. /\ todo' = Tail(todo) /\ part' = 0 /\ landed' = Append(landed, e)
    BY <1>11, <2>0 DEF LandCell
  <2>2. M = index' \o landed'
    <3>1. Append(index \o landed, e) = index \o Append(landed, e)
      BY <1>3, AppendBehind
    <3> QED
      BY <1>1, <1>2, <2>1, <3>1
  <2>3. /\ AllIntact(file', landed') /\ cursor' - part' = EndOf(landed')
    <3>1. landed' # <<>>
      <4>1. Len(landed') = Len(landed) + 1 /\ Len(<<>>) = 0 /\ Len(landed) \in Nat
        BY <1>3, <1>4, <2>1
      <4> QED
        BY <4>1
    <3> QED
      BY <1>1, <3>1 DEF IInv, WriteInv
  <2>4. Intact(file', e)
    <3>1. Len(landed) + 1 \in DOMAIN landed' /\ landed'[Len(landed) + 1] = e
      BY <1>3, <1>4, <2>1
    <3> QED
      BY <2>3, <3>1 DEF AllIntact
  <2>5. AllIntact(file', L)
    <3>1. \A j \in 1..(cursor - part) : j <= Len(file) => file'[j] = file[j]
      BY <1>2, <1>7
    <3>2. cursor - part <= Len(file')
      BY <1>2, <1>3, <1>5
    <3> QED
      BY <1>2, <1>3, <1>4, <3>1, <3>2, AllIntactKept
  <2>6. cursor - part = IF L = <<>> THEN 0 ELSE EndOf(L)
    BY <1>2 DEF EndOf
  <2>7. /\ M \in Seq(Entry) /\ TiledFrom(0, M) /\ AllIntact(file', M) /\ EndOf(M) = End(e)
    <3>1. PICK n \in Nat : n = cursor - part
      BY <1>4
    <3>2. e.off = n
      BY <2>0, <3>1
    <3>3. 0 \in Nat /\ Below(n, L) /\ n = (IF L = <<>> THEN 0 ELSE EndOf(L))
      BY <1>2, <2>6, <3>1
    <3> QED
      BY <1>3, <2>4, <2>5, <3>2, <3>3, RunAppend
  <2>8. part = PayloadCells[r] /\ End(e) = cursor + 1
    <3>1. part <= PayloadCells[r]
      BY <1>1 DEF IInv, WriteInv
    <3>2. PayloadCells[r] \in Nat
      BY <1>4, PayloadAssumption
    <3>3. e.rec = r /\ e.off = cursor - part
      BY <2>0
    <3>4. part = PayloadCells[r]
      BY <1>2, <1>11, <3>1, <3>2
    <3>5. End(e) = cursor - part + 1 + PayloadCells[r]
      BY <3>3 DEF End
    <3> QED
      BY <1>2, <3>4, <3>5
  <2>9. NoneEnds(file', EndOf(M))
    <3>1. \A j \in (EndOf(M) + 1)..Len(file') :
             j \in (EndOf(L) + 1)..Len(file) /\ file'[j] = file[j]
      <4> SUFFICES ASSUME NEW j \in (EndOf(M) + 1)..Len(file')
                   PROVE  j \in (EndOf(L) + 1)..Len(file) /\ file'[j] = file[j]
        OBVIOUS
      <4>1. j \in (EndOf(L) + 1)..Len(file') /\ j # cursor + 1
        BY <1>2, <1>a, <2>7, <2>8, SMTT(40)
      <4> QED
        BY <1>a, <1>8, <4>1
    <3> QED
      BY <1>3, <3>1 DEF NoneEnds, Holds
  <2>10. Holds(file', M)
    BY <2>7, <2>9 DEF Holds
  <2>11. Begins(D, M)
    BY <1>3, <1>4, <1>9, BeginsAppend
  <2>12. ~batch' => Len(landed') + Len(todo') = 1
    BY <1>1, <1>3, <1>4, <1>9, <2>1
  <2> HIDE DEF M
  <2>13. Logs(M, D)'
    BY <1>1, <1>3, <1>9, <2>2, <2>7, <2>10, <2>11, <2>12 DEF Logs
  <2> QED
    BY <2>13 DEF M
<1> QED
  BY <1>10, <1>11

\* Where replay stops for a bad record, nothing intact stands.
LEMMA StopsAtEnd ==
    ASSUME TypeOK, ~AtEnd, Misframed \/ BadChecksum, cursor <= Len(file),
           NEW e \in Entry, e.off = cursor, Intact(file, e)
    PROVE  FALSE
<1>1. /\ file \in Seq(Cell) /\ cursor \in Nat /\ cursor < Len(file)
  BY DEF TypeOK, AtEnd
<1>2. End(e) <= Len(file) /\ file[cursor + 1] = [rec |-> e.rec, part |-> 0]
  BY <1>1, IntactFits
<1>3. Here = e
  BY <1>2 DEF Here, Entry
<1>4. End(e) \in Nat
  BY EndType
<1>5. ~Misframed
  BY <1>1, <1>2, <1>3, <1>4 DEF Misframed
<1> QED
  BY <1>3, <1>5 DEF BadChecksum

\* Cutting cells off behind the records leaves the records.
LEMMA HoldsCut ==
    ASSUME NEW cells \in Seq(Cell), NEW ix \in Seq(Entry), Holds(cells, ix),
           NEW n \in Nat, EndOf(ix) <= n, n <= Len(cells)
    PROVE  Holds(SubSeq(cells, 1, n), ix)
<1> DEFINE other == SubSeq(cells, 1, n)
<1>1. other \in Seq(Cell) /\ Len(other) = n /\ \A j \in 1..n : other[j] = cells[j]
  OBVIOUS
<1>2. EndOf(ix) \in Nat
  BY EndOfFits DEF Holds
<1> HIDE DEF other
<1>3. Holds(other, ix)
  BY <1>1, <1>2, HoldsKept
<1> QED
  BY <1>3 DEF other

\* A truncation cuts no record off.
LEMMA LogsTruncate ==
    ASSUME IInv, NEW L, NEW D, Logs(L, D), TruncateTail
    PROVE  Logs(L, D)'
<1>1. /\ pc = "replay" /\ pc' = "truncated" /\ ~AtEnd /\ (Misframed \/ BadChecksum)
      /\ file' = SubSeq(file, 1, cursor)
      /\ disk' = IF Len(file') < Len(disk) THEN SubSeq(disk, 1, Len(file')) ELSE disk
      /\ UNCHANGED <<index, promised>>
  BY DEF TruncateTail, LastGoodEnd
<1>2. TypeOK /\ cursor \in Nat /\ cursor <= Len(file) /\ index \in Seq(Entry)
  BY <1>1 DEF IInv, TypeInv, TypeOK
<1>3. TiledFrom(0, index) /\ cursor = EndOf(index)
  BY <1>1 DEF IInv, IndexInv
<1>4. /\ L \in Seq(Entry) /\ Holds(file, L) /\ D \in Seq(Entry) /\ Holds(disk, D)
      /\ Begins(index, L) /\ Begins(promised, D) /\ Begins(D, L)
  BY <1>1 DEF Logs
<1>5. /\ file \in Seq(Cell) /\ disk \in Seq(Cell) /\ EndOf(D) <= EndOf(L)
      /\ EndOf(L) \in Nat /\ EndOf(D) \in Nat
  BY <1>2, LogsType
<1>6. \A e \in Entry : e.off = EndOf(index) => ~Intact(file, e)
  BY <1>1, <1>2, <1>3, StopsAtEnd
<1>7. L = index
  BY <1>2, <1>3, <1>4, <1>5, <1>6, NothingBehind
<1>8. Holds(file', L)
  BY <1>1, <1>2, <1>3, <1>4, <1>5, <1>7, HoldsCut
<1>9. Holds(disk', D)
  <2>1. Len(file') = cursor
    BY <1>1, <1>2, <1>5
  <2>2. CASE cursor < Len(disk)
    BY <1>1, <1>2, <1>3, <1>4, <1>5, <1>7, <2>1, <2>2, HoldsCut
  <2>3. CASE ~(cursor < Len(disk))
    BY <1>1, <1>4, <2>1, <2>3
  <2> QED
    BY <2>2, <2>3
<1> QED
  BY <1>1, <1>4, <1>7, <1>8, <1>9 DEF Logs

\* What a power cut leaves: the page cache up to k, the device behind it.
LEMMA CutCells ==
    ASSUME TypeOK, NEW k \in 0..Len(file), PowerCut(k)
    PROVE  /\ file' \in Seq(Cell)
           /\ k <= Len(file') /\ Len(disk) <= Len(file')
           /\ \A j \in 1..k : file'[j] = file[j]
           /\ \A j \in (k + 1)..Len(file') : j <= Len(disk) /\ file'[j] = disk[j]
<1> DEFINE front == SubSeq(file, 1, k)
           back == SubSeq(disk, k + 1, Len(disk))
<1>1. file \in Seq(Cell) /\ disk \in Seq(Cell) /\ k \in Nat /\ Len(disk) \in Nat
  BY DEF TypeOK
<1>2. front \in Seq(Cell) /\ Len(front) = k /\ \A j \in 1..k : front[j] = file[j]
  BY <1>1
<1>3. /\ back \in Seq(Cell)
      /\ Len(back) = IF k < Len(disk) THEN Len(disk) - k ELSE 0
      /\ \A j \in 1..Len(back) : back[j] = disk[k + j]
  <2>1. CASE k < Len(disk)
    BY <1>1, <2>1
  <2>2. CASE ~(k < Len(disk))
    BY <1>1, <2>2
  <2> QED
    BY <2>1, <2>2
<1>4. file' = front \o back
  BY DEF PowerCut
<1> HIDE DEF front, back
<1>5. /\ file' \in Seq(Cell) /\ Len(file') = k + Len(back)
      /\ \A j \in 1..k : file'[j] = front[j]
      /\ \A j \in 1..Len(back) : file'[k + j] = back[j]
  <2>1. /\ front \o back \in Seq(Cell) /\ Len(front \o back) = Len(front) + Len(back)
        /\ \A j \in 1..Len(front) : (front \o back)[j] = front[j]
        /\ \A j \in 1..Len(back) : (front \o back)[Len(front) + j] = back[j]
    <3>1. front \in Seq(Cell) /\ back \in Seq(Cell)
      BY <1>2, <1>3
    <3> QED
      BY <3>1
  <2> QED
    BY <1>2, <1>4, <2>1
<1>6. Len(back) \in Nat
  BY <1>3
<1>7. ASSUME NEW j \in (k + 1)..Len(file')
      PROVE  j <= Len(disk) /\ file'[j] = disk[j]
  <2>1. j - k \in 1..Len(back) /\ k + (j - k) = j
    BY <1>1, <1>5, <1>6
  <2>2. file'[j] = back[j - k] /\ back[j - k] = disk[j]
    BY <1>3, <1>5, <2>1
  <2>3. j <= Len(disk)
    BY <1>1, <1>3, <2>1
  <2> QED
    BY <2>2, <2>3
<1> QED
  BY <1>1, <1>2, <1>3, <1>5, <1>6, <1>7

\* A first part of a run.
LEMMA RunPart ==
    ASSUME NEW L \in Seq(Entry), TiledFrom(0, L), NEW n \in 0..Len(L)
    PROVE  LET M == SubSeq(L, 1, n)
           IN  /\ M \in Seq(Entry) /\ Len(M) = n /\ \A i \in 1..n : M[i] = L[i]
               /\ TiledFrom(0, M) /\ Begins(M, L) /\ EndOf(M) = Off(L, n)
<1> DEFINE M == SubSeq(L, 1, n)
<1>1. M \in Seq(Entry) /\ Len(M) = n /\ DOMAIN M = 1..n /\ \A i \in 1..n : M[i] = L[i]
  OBVIOUS
<1>2. DOMAIN L = 1..Len(L) /\ n <= Len(L) /\ n \in Nat /\ Len(L) \in Nat
  OBVIOUS
<1> HIDE DEF M
<1>3. TiledFrom(0, M)
  BY <1>1, <1>2 DEF TiledFrom
<1>4. Begins(M, L)
  BY <1>1, <1>2 DEF Begins, Agree
<1>5. EndOf(M) = Off(L, n)
  BY <1>1, <1>2, <1>3, <1>4, BeginsEnd, OffFacts
<1> QED
  BY <1>1, <1>3, <1>4, <1>5 DEF M

\* What survives a power cut is a first part of the records, up to the first one
\* that lost a cell.
LEMMA LogsPowerCut ==
    ASSUME IInv, IInv', NEW L, NEW D, Logs(L, D), NEW k \in 0..Len(file), PowerCut(k)
    PROVE  \E n \in Len(promised)..Len(L) : Logs(SubSeq(L, 1, n), SubSeq(L, 1, n))'
<1>1. TypeOK /\ promised \in Seq(Entry)
  BY DEF IInv, TypeInv, TypeOK
<1>2. /\ file' \in Seq(Cell) /\ k <= Len(file') /\ Len(disk) <= Len(file')
      /\ \A j \in 1..k : file'[j] = file[j]
      /\ \A j \in (k + 1)..Len(file') : j <= Len(disk) /\ file'[j] = disk[j]
  BY <1>1, CutCells
<1>3. /\ file \in Seq(Cell) /\ disk \in Seq(Cell)
      /\ L \in Seq(Entry) /\ TiledFrom(0, L) /\ AllIntact(file, L) /\ Holds(file, L)
      /\ D \in Seq(Entry) /\ TiledFrom(0, D) /\ AllIntact(disk, D) /\ Holds(disk, D)
      /\ Begins(D, L) /\ Len(D) <= Len(L)
  BY <1>1, LogsType DEF Logs, Begins
<1>4. /\ Len(L) \in Nat /\ Len(D) \in Nat /\ Len(file) \in Nat /\ Len(disk) \in Nat
      /\ Len(file') \in Nat /\ k \in Nat /\ Len(promised) \in Nat
      /\ EndOf(L) \in Nat /\ EndOf(D) \in Nat
  BY <1>1, <1>2, <1>3, EndOfFits
<1>5. PICK n \in 0..Len(L) : /\ \A i \in 1..n : Intact(file', L[i])
                             /\ n < Len(L) => ~Intact(file', L[n + 1])
  <2> DEFINE S == {i \in 1..Len(L) : ~Intact(file', L[i])}
  <2>1. CASE S = {}
    <3>1. Len(L) \in 0..Len(L)
      BY <1>4
    <3> QED
      BY <2>1, <3>1
  <2>2. CASE S # {}
    <3>1. PICK m \in S : \A i \in S : m <= i
      <4>1. S \subseteq Nat
        OBVIOUS
      <4> HIDE DEF S
      <4> QED
        BY <2>2, <4>1, LeastNat
    <3>2. m - 1 \in 0..Len(L) /\ m - 1 + 1 = m
      BY <1>4, <3>1
    <3>3. \A i \in 1..(m - 1) : Intact(file', L[i])
      BY <1>4, <3>1
    <3> QED
      BY <3>1, <3>2, <3>3
  <2> QED
    BY <2>1, <2>2
<1> DEFINE M == SubSeq(L, 1, n)
<1>6. /\ M \in Seq(Entry) /\ Len(M) = n /\ \A i \in 1..n : M[i] = L[i]
      /\ TiledFrom(0, M) /\ EndOf(M) = Off(L, n)
  BY <1>3, RunPart
<1> HIDE DEF M
<1>7. AllIntact(file', M)
  BY <1>5, <1>6 DEF AllIntact
\* No record behind the first n is whole in both the page cache and the device,
\* or in the page cache in front of k.
<1>8. ASSUME NEW j \in (EndOf(M) + 1)..Len(file'), NEW i \in 1..Len(L), j = Off(L, i),
             j <= k \/ i <= Len(D)
      PROVE  FALSE
  <2>1. n < i
    <3>1. Off(L, i) \in Nat /\ Off(L, n) \in Nat /\ j \in Nat /\ Off(L, n) < Off(L, i)
      BY <1>3, <1>4, <1>6, <1>8, OffFacts, SMTT(40)
    <3>2. i \in 0..Len(L)
      BY <1>4
    <3>3. ~(i <= n)
      BY <1>3, <3>1, <3>2, OffAscends
    <3> QED
      BY <3>3
  <2>2. n + 1 \in 1..Len(L) /\ n + 1 <= i
    BY <1>4, <2>1
  <2>3. L[n + 1] \in Entry /\ Intact(file, L[n + 1]) /\ ~Intact(file', L[n + 1])
    BY <1>3, <1>5, <2>1, <2>2 DEF AllIntact
  <2>4. CASE j <= k
    <3>1. End(L[n + 1]) <= k
      <4>1. Off(L, n + 1) <= Off(L, i) /\ Off(L, n + 1) = End(L[n + 1])
        BY <1>3, <2>2, OffAscends DEF Off
      <4>2. Off(L, n + 1) \in Nat /\ j \in Nat
        BY <1>3, <2>2, <1>8, OffFacts
      <4> QED
        BY <1>4, <1>8, <2>4, <4>1, <4>2
    <3> QED
      BY <1>2, <1>3, <1>4, <2>3, <3>1, IntactKept, ZenonT(40)
  <2>5. CASE i <= Len(D)
    <3>1. n + 1 \in 1..Len(D) /\ D[n + 1] = L[n + 1]
      BY <1>3, <1>4, <2>2, <2>5 DEF Begins, Agree
    <3>2. Intact(disk, L[n + 1])
      BY <1>3, <3>1 DEF AllIntact
    <3>3. Intact(file', L[n + 1])
      <4> DEFINE e == L[n + 1]
      <4> SUFFICES ASSUME NEW p \in 0..PayloadCells[e.rec]
                   PROVE  /\ e.off + p + 1 <= Len(file')
                          /\ file'[e.off + p + 1] = [rec |-> e.rec, part |-> p]
        BY DEF Intact
      <4>1. PayloadCells[e.rec] \in Nat /\ e.off \in Nat
        BY <2>3, PayloadAssumption DEF Entry
      <4>2. /\ e.off + p + 1 <= Len(file)
            /\ file[e.off + p + 1] = [rec |-> e.rec, part |-> p]
            /\ e.off + p + 1 <= Len(disk)
            /\ disk[e.off + p + 1] = [rec |-> e.rec, part |-> p]
        BY <2>3, <3>2 DEF Intact
      <4>3. PICK q \in Nat : q = e.off + p + 1
        BY <4>1
      <4>4. q >= 1
        BY <4>1, <4>3, SMTT(40)
      <4>5. q <= Len(file') /\ file'[q] = [rec |-> e.rec, part |-> p]
        <5>1. /\ q <= Len(file) /\ file[q] = [rec |-> e.rec, part |-> p]
              /\ q <= Len(disk) /\ disk[q] = [rec |-> e.rec, part |-> p]
          BY <4>2, <4>3
        <5>2. q <= Len(file')
          BY <1>2, <1>4, <5>1
        <5>3. q \in 1..k \/ q \in (k + 1)..Len(file')
          BY <1>4, <4>4, <5>2
        <5>4. file'[q] = file[q] \/ file'[q] = disk[q]
          BY <1>2, <5>3
        <5> QED
          BY <5>1, <5>2, <5>4
      <4> QED
        BY <4>3, <4>5
    <3> QED
      BY <2>3, <3>3
  <2> QED
    BY <1>8, <2>4, <2>5
<1>9. NoneEnds(file', EndOf(M))
  <2>a. EndOf(M) \in Nat
    BY <1>3, <1>6, OffFacts
  <2> SUFFICES ASSUME NEW j \in (EndOf(M) + 1)..Len(file'),
                      ~(file'[j].part < PayloadCells[file'[j].rec])
               PROVE  FALSE
    BY DEF NoneEnds
  <2>1. CASE j <= k
    <3>1. file'[j] = file[j] /\ j \in 1..Len(file)
      BY <1>2, <1>4, <2>1, <2>a
    <3>2. j \in 1..EndOf(L)
      BY <1>3, <1>4, <3>1 DEF Holds, NoneEnds
    <3>3. \E i \in 1..Len(L) : j = Off(L, i)
      BY <1>3, <3>1, <3>2, LastPartEnds
    <3> QED
      BY <1>8, <2>1, <3>3
  <2>2. CASE ~(j <= k)
    <3>1. file'[j] = disk[j] /\ j \in 1..Len(disk)
      BY <1>2, <1>4, <2>2, <2>a
    <3>2. j \in 1..EndOf(D)
      BY <1>3, <1>4, <3>1 DEF Holds, NoneEnds
    <3>3. PICK i \in 1..Len(D) : j = Off(D, i)
      BY <1>3, <3>1, <3>2, LastPartEnds
    <3>4. i \in 0..Len(D) /\ i \in 1..Len(L) /\ i <= Len(D)
      BY <1>3, <1>4
    <3>5. j = Off(L, i)
      BY <1>3, <3>3, <3>4, BeginsEnd
    <3> QED
      BY <1>8, <3>4, <3>5
  <2> QED
    BY <2>1, <2>2
<1>10. Holds(file', M)
  BY <1>6, <1>7, <1>9 DEF Holds
<1>11. /\ promised' = promised /\ disk' = file' /\ pc' = "down"
       /\ TiledFrom(0, promised) /\ AllIntact(file', promised)
  BY DEF PowerCut, IInv, PromisedInv
<1>12. Begins(promised, M)
  BY <1>1, <1>2, <1>6, <1>10, <1>11, RunBegins
<1>13. n \in Len(promised)..Len(L)
  BY <1>4, <1>6, <1>12 DEF Begins
<1>14. Logs(M, M)'
  BY <1>6, <1>10, <1>11, <1>12, BeginsSelf DEF Logs
<1> QED
  BY <1>13, <1>14 DEF M

-----------------------------------------------------------------------------
\* Every step is one of the abstract log, or none

\* L is what the file holds before the step, M what it holds afterwards; each
\* disjunct is an action of DurableLog in these terms, the first one a stutter.
Moves(L, M) ==
    \/ M = L /\ Up' = Up /\ (Up => index' = index) /\ promised' = promised
    \/ Up /\ Up' /\ index' = index /\ promised' = promised
       /\ \E e \in Entry : M = Append(L, e)
    \/ Up /\ Up' /\ M = L /\ index' = L /\ promised' = promised
    \/ Up /\ Up' /\ M = L /\ index' = index /\ promised' = L
    \/ Up /\ ~Up' /\ M = L /\ promised' \in {promised, L}
    \/ ~Up' /\ promised' = promised
       /\ \E n \in Len(promised)..Len(L) : M = SubSeq(L, 1, n)
    \/ ~Up /\ Up' /\ M = L /\ index' = L /\ promised' \in {promised, L}

LEMMA LogsStep ==
    ASSUME SoundInv, SoundInv', NEW L, NEW D, Logs(L, D), [Next]_vars
    PROVE  \E M, E : Logs(M, E)' /\ Moves(L, M)
<1>a. /\ IInv /\ IInv' /\ TypeOK /\ TypeOK' /\ L \in Seq(Entry)
      /\ index \in Seq(Entry) /\ landed \in Seq(Entry) /\ todo \in Seq(Record)
      /\ index' \in Seq(Entry)
  BY DEF SoundInv, IInv, TypeInv, TypeOK, Logs
<1> USE DEF Moves, Up
<1>1. ASSUME NEW rs \in Seq(Record), NEW b \in BOOLEAN, Begin(rs, b), ~b => Len(rs) = 1
      PROVE  Logs(L, D)' /\ Moves(L, L)
  <2>1. /\ pc = "idle" /\ pc' = "write" /\ landed' = <<>> /\ todo' = rs /\ batch' = b
        /\ UNCHANGED <<file, disk, index, promised>>
    BY <1>1 DEF Begin
  <2>2. L = index
    BY <2>1 DEF Logs
  <2>3. L = index' \o landed'
    BY <1>a, <2>1, <2>2
  <2>4. Len(landed') + Len(todo') = 1 \/ b
    BY <1>1, <2>1
  <2> QED
    BY <2>1, <2>3, <2>4, LogsQuiet
<1>2. CASE LandCell
  <2>1. pc = "write" /\ pc' = "write" /\ UNCHANGED <<index, promised>>
    BY <1>2 DEF LandCell
  <2>2. CASE Logs(L, D)'
    BY <2>1, <2>2
  <2>3. CASE \E e \in Entry : Logs(Append(L, e), D)'
    BY <2>1, <2>3
  <2> QED
    BY <1>2, <1>a, <2>2, <2>3, LogsLandCell
<1>3. ASSUME pc = "write", Publish
      PROVE  Logs(L, D)' /\ Moves(L, L)
  <2>1. pc' \in {"idle", "sync"} /\ index' = index \o landed /\ UNCHANGED <<file, disk, promised>>
    BY <1>3 DEF Publish
  <2>2. L = index'
    BY <1>3, <2>1 DEF Logs
  <2> QED
    BY <1>3, <2>1, <2>2, LogsQuiet
<1>4. CASE WriteFails
  <2>1. CASE batch /\ Publish
    BY <1>3, <1>4, <2>1 DEF WriteFails
  <2>2. CASE ~(batch /\ Publish)
    <3>1. /\ pc = "write" /\ ~batch /\ todo # <<>> /\ pc' = "idle"
          /\ UNCHANGED <<file, disk, index, promised>>
      BY <1>4, <2>2 DEF WriteFails
    <3>2. L = index \o landed /\ Len(landed) + Len(todo) = 1
      BY <3>1 DEF Logs
    <3>3. landed = <<>>
      BY <1>a, <3>1, <3>2
    <3>4. L = index'
      BY <1>a, <3>1, <3>2, <3>3
    <3> QED
      BY <3>1, <3>4, LogsQuiet
  <2> QED
    BY <2>1, <2>2
<1>5. CASE SyncIfNeeded \/ Sync
  <2>1. /\ pc \in {"idle", "sync"} /\ pc' = "idle" /\ UNCHANGED <<file, index>>
        /\ Fsync \/ UNCHANGED <<disk, promised>>
    BY <1>5 DEF SyncIfNeeded, Sync, FsyncFails
  <2>2. L = index
    BY <2>1 DEF Logs
  <2>3. CASE Fsync
    BY <1>a, <2>1, <2>2, <2>3, LogsFlushed DEF Fsync
  <2>4. CASE UNCHANGED <<disk, promised>>
    BY <2>1, <2>2, <2>4, LogsQuiet
  <2> QED
    BY <2>1, <2>3, <2>4
<1>6. CASE Close
  <2>1. /\ pc = "idle" /\ pc' \in {"closed", "down"} /\ UNCHANGED <<file, index>>
        /\ Fsync \/ UNCHANGED <<disk, promised>>
    BY <1>6 DEF Close, FsyncFails
  <2>2. L = index
    BY <2>1 DEF Logs
  <2>3. CASE Fsync
    BY <1>a, <2>1, <2>2, <2>3, LogsFlushed DEF Fsync
  <2>4. CASE UNCHANGED <<disk, promised>>
    BY <2>1, <2>2, <2>4, LogsQuiet
  <2> QED
    BY <2>1, <2>3, <2>4
<1>7. CASE Kill
  <2>1. pc' = "down" /\ UNCHANGED <<file, disk, promised>>
    BY <1>7 DEF Kill
  <2>2. Logs(L, D)'
    BY <2>1, LogsQuiet
  <2>3. Len(L) \in Len(promised)..Len(L) /\ L = SubSeq(L, 1, Len(L))
    BY <1>a, LogsType DEF Begins
  <2> QED
    BY <2>1, <2>2, <2>3
<1>8. ASSUME NEW k \in 0..Len(file), PowerCut(k)
      PROVE  \E M, E : Logs(M, E)' /\ Moves(L, M)
  <2>1. pc' = "down" /\ promised' = promised
    BY <1>8 DEF PowerCut
  <2> QED
    BY <1>8, <1>a, <2>1, LogsPowerCut
<1>9. CASE Open
  <2>1. /\ pc \in {"closed", "down", "refused"} /\ pc' = "replay" /\ index' = <<>>
        /\ UNCHANGED <<file, disk, promised>>
    BY <1>9 DEF Open, Volatile
  <2>2. Begins(<<>>, L)
    BY <1>a DEF Begins, Agree
  <2> QED
    BY <2>1, <2>2, LogsQuiet
<1>10. CASE ReplayAccept
  <2>1. pc = "replay" /\ pc' = "replay" /\ UNCHANGED <<file, disk, promised>>
    BY <1>10 DEF ReplayAccept
  <2>2. TiledFrom(0, index') /\ AllIntact(file, index')
    BY <1>a, <2>1 DEF IInv, IndexInv
  <2>3. Begins(index', L)
    BY <1>a, <2>2, RunBegins DEF Logs, TypeOK
  <2> QED
    BY <2>1, <2>3, LogsQuiet
<1>11. CASE ReplayEOF
  <2>1. /\ pc = "replay" /\ pc' = "idle" /\ cursor = Len(file)
        /\ UNCHANGED <<file, disk, index, promised>>
    BY <1>11 DEF ReplayEOF, AtEnd
  <2>2. TiledFrom(0, index) /\ EndOf(index) = Len(file) /\ Begins(index, L)
    BY <1>a, <2>1 DEF IInv, IndexInv, Logs
  <2>3. \A e \in Entry : e.off = EndOf(index) => ~Intact(file, e)
    <3>1. \A e \in Entry : Intact(file, e) => End(e) <= Len(file) /\ e.off < End(e) /\ End(e) \in Nat
      BY <1>a, EndType, IntactFits DEF TypeOK
    <3>2. \A e \in Entry : e.off \in Nat
      BY DEF Entry
    <3>3. Len(file) \in Nat
      BY <1>a DEF TypeOK
    <3> QED
      BY <2>2, <3>1, <3>2, <3>3
  <2>4. L = index
    BY <1>a, <2>2, <2>3, NothingBehind DEF Logs, TypeOK
  <2> QED
    BY <2>1, <2>4, LogsQuiet
<1>12. CASE TruncateTail
  <2>1. pc = "replay" /\ pc' = "truncated" /\ promised' = promised
    BY <1>12 DEF TruncateTail
  <2> QED
    BY <1>12, <1>a, <2>1, LogsTruncate
<1>13. CASE TruncateSync
  <2>1. /\ pc = "truncated" /\ UNCHANGED <<file, index>>
        /\ \/ Fsync /\ pc' = "idle"
           \/ pc' = "down" /\ UNCHANGED <<disk, promised>>
    BY <1>13 DEF TruncateSync, FsyncFails
  <2>2. L = index
    BY <2>1 DEF Logs
  <2>3. CASE Fsync /\ pc' = "idle"
    BY <1>a, <2>1, <2>2, <2>3, LogsFlushed DEF Fsync
  <2>4. CASE pc' = "down" /\ UNCHANGED <<disk, promised>>
    BY <2>1, <2>4, LogsQuiet
  <2> QED
    BY <2>1, <2>3, <2>4
<1>14. CASE ReplayCorrupt
  <2>1. pc = "replay" /\ pc' = "refused" /\ UNCHANGED <<file, disk, index, promised>>
    BY <1>14 DEF ReplayCorrupt
  <2> QED
    BY <2>1, LogsQuiet
<1>15. CASE UNCHANGED vars
  BY <1>15 DEF vars, Logs
<1>16. CASE \E r \in Record : AppendRecord(r)
  <2>1. PICK r \in Record : Begin(<<r>>, FALSE)
    BY <1>16 DEF AppendRecord
  <2>2. <<r>> \in Seq(Record) /\ Len(<<r>>) = 1
    OBVIOUS
  <2> QED
    BY <1>1, <2>1, <2>2
<1>17. CASE \E rs \in Batches : AppendBatch(rs)
  <2>1. PICK rs \in Batches : Begin(rs, TRUE)
    BY <1>17 DEF AppendBatch
  <2> QED
    BY <1>1, <2>1, BatchType
<1>18. CASE WriteDone
  BY <1>3, <1>18 DEF WriteDone
<1> HIDE DEF Moves, Up
<1> QED
  BY <1>2, <1>4, <1>5, <1>6, <1>7, <1>8, <1>9, <1>10, <1>11, <1>12, <1>13, <1>14, <1>15,
     <1>16, <1>17, <1>18 DEF Next

-----------------------------------------------------------------------------
\* The abstract log's variables

LEMMA RecsFacts ==
    ASSUME NEW ix \in Seq(Entry)
    PROVE  /\ Len(Recs(ix)) = Len(ix)
           /\ SubSeq(Recs(ix), 1, Len(ix)) = Recs(ix)
           /\ \A e \in Entry : Recs(Append(ix, e)) = Append(Recs(ix), e.rec)
           /\ \A n \in 0..Len(ix) : Recs(SubSeq(ix, 1, n)) = SubSeq(Recs(ix), 1, n)
<1>1. /\ DOMAIN ix = 1..Len(ix) /\ Len(ix) \in Nat
      /\ \A i \in 1..Len(ix) : ix[i].rec \in Record
  <2>1. \A i \in 1..Len(ix) : ix[i] \in Entry
    OBVIOUS
  <2> QED
    BY <2>1 DEF Entry
<1>2. Recs(ix) = [i \in 1..Len(ix) |-> ix[i].rec]
  BY <1>1 DEF Recs
<1>3. /\ Recs(ix) \in Seq(Record) /\ Len(Recs(ix)) = Len(ix)
      /\ \A i \in 1..Len(ix) : Recs(ix)[i] = ix[i].rec
  BY <1>1, <1>2
<1>4. SubSeq(Recs(ix), 1, Len(ix)) = Recs(ix)
  BY <1>3
<1>5. ASSUME NEW e \in Entry
      PROVE  Recs(Append(ix, e)) = Append(Recs(ix), e.rec)
  <2> DEFINE a == Append(ix, e)
             b == Append(Recs(ix), e.rec)
  <2>1. /\ DOMAIN a = 1..(Len(ix) + 1) /\ a[Len(ix) + 1] = e
        /\ \A i \in 1..Len(ix) : a[i] = ix[i]
    OBVIOUS
  <2>2. e.rec \in Record
    BY DEF Entry
  <2>3. /\ b \in Seq(Record) /\ Len(b) = Len(ix) + 1 /\ b[Len(ix) + 1] = e.rec
        /\ \A i \in 1..Len(ix) : b[i] = Recs(ix)[i]
    BY <1>1, <1>3, <2>2
  <2> HIDE DEF a, b
  <2>4. Recs(a) = [i \in 1..(Len(ix) + 1) |-> a[i].rec]
    BY <2>1 DEF Recs
  <2>5. \A i \in 1..(Len(ix) + 1) : a[i].rec = b[i]
    BY <1>1, <1>3, <2>1, <2>3
  <2>6. b = [i \in 1..(Len(ix) + 1) |-> b[i]]
    BY <2>3
  <2>7. Recs(a) = b
    BY <2>4, <2>5, <2>6
  <2> QED
    BY <2>7 DEF a, b
<1>6. ASSUME NEW n \in 0..Len(ix)
      PROVE  Recs(SubSeq(ix, 1, n)) = SubSeq(Recs(ix), 1, n)
  <2> DEFINE a == SubSeq(ix, 1, n)
             b == SubSeq(Recs(ix), 1, n)
  <2>1. DOMAIN a = 1..n /\ \A i \in 1..n : a[i] = ix[i]
    OBVIOUS
  <2>2. /\ b \in Seq(Record) /\ Len(b) = n /\ \A i \in 1..n : b[i] = Recs(ix)[i]
    BY <1>1, <1>3
  <2> HIDE DEF a, b
  <2>3. Recs(a) = [i \in 1..n |-> a[i].rec]
    BY <2>1 DEF Recs
  <2>4. \A i \in 1..n : a[i].rec = b[i]
    BY <1>1, <1>3, <2>1, <2>2
  <2>5. b = [i \in 1..n |-> b[i]]
    BY <2>2
  <2>6. Recs(a) = b
    BY <2>3, <2>4, <2>5
  <2> QED
    BY <2>6 DEF a, b
<1> QED
  BY <1>3, <1>4, <1>5, <1>6

LEMMA MovesImplement ==
    ASSUME TypeOK, TypeOK', NEW L, NEW D, NEW M, NEW E,
           Logs(L, D), Logs(M, E)', Moves(L, M)
    PROVE  [Abstract!Next]_(Abstract!vars)
<1>1. Found(file) = L /\ L \in Seq(Entry) /\ Len(promised) \in 0..Len(L)
  <2>1. Found(file) = L /\ L \in Seq(Entry)
    BY FoundIs DEF Logs, TypeOK
  <2> QED
    BY <2>1, LogsType DEF Begins
<1>2. Found(file') = M
  BY FoundIs DEF Logs, TypeOK
<1>3. /\ Recs(Found(file)) = Recs(L) /\ Recs(Found(file))' = Recs(M)
      /\ Len(Recs(L)) = Len(L)
  BY <1>1, <1>2, RecsFacts
<1>4. CASE M = L /\ Up' = Up /\ (Up => index' = index) /\ promised' = promised
  <2>1. UNCHANGED Abstract!vars
    BY <1>3, <1>4 DEF Abstract!vars
  <2> QED
    BY <2>1
<1>5. CASE Up /\ Up' /\ index' = index /\ promised' = promised
           /\ \E e \in Entry : M = Append(L, e)
  <2>1. PICK e \in Entry : M = Append(L, e)
    BY <1>5
  <2>2. e.rec \in Record /\ Recs(M) = Append(Recs(L), e.rec)
    BY <1>1, <2>1, RecsFacts DEF Entry
  <2>3. Abstract!Append1(e.rec)
    BY <1>3, <1>5, <2>2 DEF Abstract!Append1
  <2> QED
    BY <2>2, <2>3 DEF Abstract!Next
<1>6. CASE Up /\ Up' /\ M = L /\ index' = L /\ promised' = promised
  <2>1. Abstract!Publish
    BY <1>3, <1>6 DEF Abstract!Publish
  <2> QED
    BY <2>1 DEF Abstract!Next
<1>7. CASE Up /\ Up' /\ M = L /\ index' = index /\ promised' = L
  <2>1. Abstract!Flush
    BY <1>3, <1>7 DEF Abstract!Flush
  <2> QED
    BY <2>1 DEF Abstract!Next
<1>8. CASE Up /\ ~Up' /\ M = L /\ promised' \in {promised, L}
  <2>1. Abstract!Stop
    BY <1>3, <1>8 DEF Abstract!Stop
  <2> QED
    BY <2>1 DEF Abstract!Next
<1>9. CASE ~Up' /\ promised' = promised
           /\ \E n \in Len(promised)..Len(L) : M = SubSeq(L, 1, n)
  <2>1. PICK n \in Len(promised)..Len(L) : M = SubSeq(L, 1, n)
    BY <1>9
  <2>2. Recs(M) = SubSeq(Recs(L), 1, n)
    BY <1>1, <2>1, RecsFacts
  <2>3. Abstract!Crash
    BY <1>3, <1>9, <2>1, <2>2 DEF Abstract!Crash
  <2> QED
    BY <2>3 DEF Abstract!Next
<1>10. CASE ~Up /\ Up' /\ M = L /\ index' = L /\ promised' \in {promised, L}
  <2>1. Abstract!Open
    BY <1>3, <1>10 DEF Abstract!Open
  <2> QED
    BY <2>1 DEF Abstract!Next
<1> QED
  BY <1>4, <1>5, <1>6, <1>7, <1>8, <1>9, <1>10 DEF Moves

-----------------------------------------------------------------------------
\* Theorems

LEMMA LogInvInit == Init => LogInv /\ Abstract!Init
<1> SUFFICES ASSUME Init
             PROVE  LogInv /\ Abstract!Init
  OBVIOUS
<1>1. /\ file = <<>> /\ disk = <<>> /\ index = <<>> /\ promised = <<>> /\ pc = "idle"
  BY DEF Init
<1>2. Holds(<<>>, <<>>)
  BY DEF Holds, TiledFrom, AllIntact, NoneEnds, EndOf
<1>3. Found(<<>>) = <<>>
  BY <1>2, Empty, FoundIs
<1>4. LogInv
  BY <1>1, <1>2, <1>3, Empty, BeginsSelf DEF LogInv, Logs
<1>5. Recs(<<>>) = <<>> /\ Len(<<>>) = 0
  BY DEF Recs
<1>6. Abstract!Init
  BY <1>1, <1>3, <1>5 DEF Abstract!Init, Up
<1> QED
  BY <1>4, <1>6

LEMMA LogInvStep ==
    ASSUME SoundInv, SoundInv', LogInv, [Next]_vars
    PROVE  LogInv' /\ [Abstract!Next]_(Abstract!vars)
<1>1. TypeOK /\ TypeOK'
  BY DEF SoundInv, IInv, TypeInv
<1>2. PICK L, D : Logs(L, D)
  BY DEF LogInv
<1>3. PICK M, E : Logs(M, E)' /\ Moves(L, M)
  BY <1>2, LogsStep
<1>4. Found(file') = M /\ Found(disk') = E
  BY <1>1, <1>3, FoundIs DEF Logs, TypeOK
<1>5. LogInv'
  BY <1>3, <1>4 DEF LogInv
<1>6. [Abstract!Next]_(Abstract!vars)
  BY <1>1, <1>2, <1>3, MovesImplement
<1> QED
  BY <1>5, <1>6

\* Whatever is written, fails, is flushed, crashes or is replayed, the file layer
\* behaves as a log that only grows, is cut back by a crash to no less than an
\* fsync has covered, and is shown in full by every Open that succeeds (store.go,
\* and Sync and Close of nosqlite.go).
THEOREM ImplementsTheorem ==
    ASSUME ~FastOpen \/ ~WriteErrors
    PROVE  Spec => ImplementsDurableLog
<1>1. Init => SoundInv /\ LogInv /\ Abstract!Init
  BY SoundInvInit, LogInvInit
<1>2. SoundInv /\ LogInv /\ [Next]_vars => SoundInv' /\ LogInv'
  BY SoundInvStep, LogInvStep
<1>3. SoundInv /\ LogInv /\ [Next]_vars => [Abstract!Next]_(Abstract!vars)
  BY SoundInvStep, LogInvStep
<1> QED
  BY <1>1, <1>2, <1>3, PTL DEF Spec, ImplementsDurableLog, Abstract!Spec

-----------------------------------------------------------------------------
\* What nsq verify sees

\* A record as the callback of the walk gets it.
Looked == [at : Entry, crcOK : BOOLEAN]

\* The equation of Walk, with g for the function it defines.
WalkStep(cells, g, o) ==
    IF o = Len(cells) THEN [recs |-> <<>>, torn |-> FALSE]
    ELSE IF WalkTorn(cells, EntryAt(cells, o)) THEN [recs |-> <<>>, torn |-> TRUE]
    ELSE LET e == EntryAt(cells, o)
         IN  [recs |-> <<[at |-> e, crcOK |-> Intact(cells, e)]>> \o g[End(e)].recs,
              torn |-> g[End(e)].torn]

\* Where the record in front of the walk ends.
LEMMA WalkOn ==
    ASSUME NEW cells \in Seq(Cell), NEW o \in 0..Len(cells), o # Len(cells)
    PROVE  /\ EntryAt(cells, o) \in Entry
           /\ ~WalkTorn(cells, EntryAt(cells, o)) =>
                End(EntryAt(cells, o)) \in (o + 1)..Len(cells)
<1>1. Len(cells) \in Nat /\ o + 1 \in 1..Len(cells)
  OBVIOUS
<1>2. EntryAt(cells, o) \in Entry /\ EntryAt(cells, o).off = o
  <2>1. cells[o + 1] \in Cell
    BY <1>1
  <2> QED
    BY <2>1 DEF EntryAt, Entry, Cell
<1>3. End(EntryAt(cells, o)) \in Nat /\ o < End(EntryAt(cells, o))
  BY <1>2, EndType
<1> QED
  BY <1>1, <1>2, <1>3 DEF WalkTorn

LEMMA WalkSame ==
    ASSUME NEW cells \in Seq(Cell), NEW o \in 0..Len(cells), NEW g, NEW h,
           \A p \in (o + 1)..Len(cells) : g[p] = h[p]
    PROVE  WalkStep(cells, g, o) = WalkStep(cells, h, o)
BY WalkOn DEF WalkStep

LEMMA WalkSolvable ==
    ASSUME NEW cells \in Seq(Cell)
    PROVE  \E g : g = [o \in 0..Len(cells) |-> WalkStep(cells, g, o)]
<1> DEFINE Solves(g, m) == g = [o \in m..Len(cells) |-> WalkStep(cells, g, o)]
           S == {m \in 0..Len(cells) : \E g : Solves(g, m)}
<1>1. Len(cells) \in Nat
  OBVIOUS
<1>2. Len(cells) \in S
  <2> DEFINE g == [o \in Len(cells)..Len(cells) |-> [recs |-> <<>>, torn |-> FALSE]]
  <2>1. Solves(g, Len(cells))
    <3>1. \A o \in Len(cells)..Len(cells) : WalkStep(cells, g, o) = [recs |-> <<>>, torn |-> FALSE]
      BY <1>1 DEF WalkStep
    <3> QED
      BY <3>1
  <2> HIDE DEF g, Solves
  <2> QED
    BY <1>1, <2>1
<1>3. PICK m \in S : \A n \in S : m <= n
  <2>1. S \subseteq Nat
    BY <1>1
  <2> HIDE DEF S
  <2> QED
    BY <1>2, <2>1, LeastNat
<1>4. PICK g : Solves(g, m)
  BY <1>3
<1>5. CASE m = 0
  BY <1>4, <1>5
<1>6. CASE m # 0
  <2> DEFINE h == [o \in (m - 1)..Len(cells) |->
                     IF o = m - 1 THEN WalkStep(cells, g, m - 1) ELSE g[o]]
  <2>1. m \in 1..Len(cells) /\ m - 1 \in 0..Len(cells)
    BY <1>1, <1>3, <1>6
  <2>2. \A o \in (m - 1)..Len(cells) : \A p \in (o + 1)..Len(cells) : h[p] = g[p]
    BY <1>1, <2>1
  <2>3. \A o \in (m - 1)..Len(cells) : o \in 0..Len(cells)
    BY <1>1, <2>1
  <2>4. \A o \in (m - 1)..Len(cells) : WalkStep(cells, h, o) = WalkStep(cells, g, o)
    <3> HIDE DEF h
    <3> QED
      BY <2>2, <2>3, WalkSame
  <2>5. \A o \in m..Len(cells) : g[o] = WalkStep(cells, g, o)
    BY <1>4
  <2>6. \A o \in (m - 1)..Len(cells) : h[o] = WalkStep(cells, g, o)
    BY <1>1, <2>1, <2>5
  <2>7. h = [o \in (m - 1)..Len(cells) |-> h[o]]
    OBVIOUS
  <2>8. Solves(h, m - 1)
    <3> HIDE DEF h
    <3> QED
      BY <2>4, <2>6, <2>7
  <2>9. m - 1 \in S
    <3> HIDE DEF h, Solves
    <3> QED
      BY <2>1, <2>8
  <2> QED
    BY <1>1, <1>3, <2>1, <2>9
<1> QED
  BY <1>5, <1>6

\* The walk from every offset.
WalkFrom(cells) == CHOOSE g : g = [o \in 0..Len(cells) |-> WalkStep(cells, g, o)]

LEMMA WalkFacts ==
    ASSUME NEW cells \in Seq(Cell)
    PROVE  /\ Walk(cells) = WalkFrom(cells)[0]
           /\ \A o \in 0..Len(cells) : WalkFrom(cells)[o] = WalkStep(cells, WalkFrom(cells), o)
<1>1. PICK g : g = [p \in 0..Len(cells) |-> WalkStep(cells, g, p)]
  BY WalkSolvable
<1>2. WalkFrom(cells) = [p \in 0..Len(cells) |-> WalkStep(cells, WalkFrom(cells), p)]
  BY <1>1, Zenon DEF WalkFrom
<1>3. Walk(cells) = WalkFrom(cells)[0]
  BY DEF Walk, WalkFrom, WalkStep, EntryAt
<1> QED
  BY <1>2, <1>3

LEMMA WalkType ==
    ASSUME NEW cells \in Seq(Cell)
    PROVE  \A o \in 0..Len(cells) : /\ WalkFrom(cells)[o].recs \in Seq(Looked)
                                    /\ WalkFrom(cells)[o].torn \in BOOLEAN
<1> DEFINE Typed(o) == WalkFrom(cells)[o].recs \in Seq(Looked) /\ WalkFrom(cells)[o].torn \in BOOLEAN
           S == {n \in 0..Len(cells) : ~Typed(Len(cells) - n)}
<1>1. Len(cells) \in Nat
  OBVIOUS
<1>2. ASSUME S # {}
      PROVE  FALSE
  <2>1. PICK n \in S : \A k \in S : n <= k
    <3>1. S \subseteq Nat
      BY <1>1
    <3> HIDE DEF S
    <3> QED
      BY <1>2, <3>1, LeastNat
  <2>2. PICK o \in 0..Len(cells) : o = Len(cells) - n
    BY <1>1
  <2>3. ASSUME NEW p \in (o + 1)..Len(cells)
        PROVE  Typed(p)
    <3>1. Len(cells) - p \in 0..Len(cells) /\ ~(n <= Len(cells) - p)
          /\ Len(cells) - (Len(cells) - p) = p
      BY <1>1, <2>2
    <3>2. Len(cells) - p \notin S
      BY <2>1, <3>1
    <3> HIDE DEF Typed
    <3> QED
      BY <3>1, <3>2
  <2>4. WalkFrom(cells)[o] = WalkStep(cells, WalkFrom(cells), o)
    BY WalkFacts
  <2>5. PICK e : e = EntryAt(cells, o)
    OBVIOUS
  <2>6. CASE o # Len(cells) /\ ~WalkTorn(cells, e)
    <3>1. e \in Entry /\ End(e) \in (o + 1)..Len(cells)
      BY <2>5, <2>6, WalkOn
    <3>2. PICK s : s = WalkFrom(cells)[End(e)].recs
      OBVIOUS
    <3>3. s \in Seq(Looked) /\ WalkFrom(cells)[End(e)].torn \in BOOLEAN
      BY <2>3, <3>1, <3>2
    <3>4. WalkFrom(cells)[o] = [recs |-> <<[at |-> e, crcOK |-> Intact(cells, e)]>> \o s,
                                torn |-> WalkFrom(cells)[End(e)].torn]
      BY <2>4, <2>5, <2>6, <3>2 DEF WalkStep
    <3>5. Intact(cells, e) \in BOOLEAN
      BY Zenon DEF Intact
    <3>6. PICK x \in Looked : x = [at |-> e, crcOK |-> Intact(cells, e)]
      BY <3>1, <3>5 DEF Looked
    <3>7. <<x>> \o s \in Seq(Looked)
      BY <3>3
    <3>8. Typed(o)
      BY <3>3, <3>4, <3>6, <3>7
    <3> QED
      BY <2>1, <2>2, <3>8
  <2>7. CASE o = Len(cells) \/ WalkTorn(cells, e)
    <3>1. PICK t \in BOOLEAN : WalkFrom(cells)[o] = [recs |-> <<>>, torn |-> t]
      <4>1. \/ WalkFrom(cells)[o] = [recs |-> <<>>, torn |-> FALSE]
            \/ WalkFrom(cells)[o] = [recs |-> <<>>, torn |-> TRUE]
        BY <2>4, <2>5, <2>7, Zenon DEF WalkStep
      <4> QED
        BY <4>1
    <3>2. Typed(o)
      BY <3>1
    <3> QED
      BY <2>1, <2>2, <3>2
  <2> QED
    BY <2>6, <2>7
<1>3. ASSUME NEW o \in 0..Len(cells)
      PROVE  Typed(o)
  <2>1. Len(cells) - o \in 0..Len(cells) /\ Len(cells) - (Len(cells) - o) = o
    BY <1>1
  <2> HIDE DEF Typed
  <2> QED
    BY <1>2, <2>1
<1> QED
  BY <1>3

\* Behind i records of ix, all intact, the walk is where it would be had it begun
\* there.
Walked(w, v, ix, i) ==
    /\ Len(w.recs) = i + Len(v.recs)
    /\ \A j \in 1..i : w.recs[j] = [at |-> ix[j], crcOK |-> TRUE]
    /\ \A j \in 1..Len(v.recs) : w.recs[i + j] = v.recs[j]
    /\ w.torn = v.torn

LEMMA WalkAlong ==
    ASSUME NEW cells \in Seq(Cell), NEW ix \in Seq(Entry), TiledFrom(0, ix), AllIntact(cells, ix)
    PROVE  \A i \in 0..Len(ix) :
             /\ Off(ix, i) \in 0..Len(cells)
             /\ Walked(Walk(cells), WalkFrom(cells)[Off(ix, i)], ix, i)
<1> DEFINE W == WalkFrom(cells)
           Good(i) == /\ Off(ix, i) \in 0..Len(cells)
                      /\ Walked(Walk(cells), W[Off(ix, i)], ix, i)
           S == {i \in 0..Len(ix) : ~Good(i)}
<1>1. Len(cells) \in Nat /\ Len(ix) \in Nat /\ DOMAIN ix = 1..Len(ix)
  OBVIOUS
<1>2. Good(0)
  <2>1. Off(ix, 0) = 0 /\ 0 \in 0..Len(cells)
    BY <1>1 DEF Off
  <2>2. PICK w : w = W[0]
    OBVIOUS
  <2>3. Walk(cells) = w /\ w.recs \in Seq(Looked)
    BY <2>1, <2>2, WalkFacts, WalkType
  <2>4. Walked(w, w, ix, 0)
    BY <2>3 DEF Walked
  <2> QED
    BY <2>1, <2>2, <2>3, <2>4
<1>3. ASSUME NEW i \in 1..Len(ix), Good(i - 1)
      PROVE  Good(i)
  <2>1. PICK o \in 0..Len(cells) : o = Off(ix, i - 1)
    BY <1>3
  <2>2. PICK e \in Entry : e = ix[i]
    OBVIOUS
  <2>3. Intact(cells, e) /\ e.off = o /\ End(e) = Off(ix, i)
    BY <1>1, <2>1, <2>2, OffFacts DEF AllIntact, Off
  <2>4. o + 1 <= Len(cells) /\ cells[o + 1] = [rec |-> e.rec, part |-> 0] /\ End(e) <= Len(cells)
    <3>1. End(e) <= Len(cells) /\ e.off + 1 <= Len(cells)
      <4>1. End(e) <= Len(cells)
        BY <2>3, IntactFits
      <4>2. End(e) \in Nat /\ e.off < End(e) /\ e.off \in Nat
        BY EndType DEF Entry
      <4> QED
        BY <1>1, <4>1, <4>2
    <3>2. cells[e.off + 1] = [rec |-> e.rec, part |-> 0]
      BY <2>3, IntactFits
    <3> QED
      BY <2>3, <3>1, <3>2
  <2>5. o # Len(cells) /\ EntryAt(cells, o) = e
    BY <1>1, <2>3, <2>4 DEF EntryAt, Entry
  <2>6. ~WalkTorn(cells, e)
    <3>1. cells[e.off + 1].part = 0 /\ ~(End(e) > Len(cells))
      <4>1. End(e) \in Nat
        BY EndType
      <4> QED
        BY <1>1, <2>3, <2>4, <4>1
    <3> QED
      BY <3>1, Zenon DEF WalkTorn
  <2>7. End(e) \in (o + 1)..Len(cells)
    BY <2>5, <2>6, WalkOn
  <2>8. PICK v : v = W[End(e)]
    OBVIOUS
  <2>9. v.recs \in Seq(Looked)
    BY <2>7, <2>8, WalkType
  <2>10. PICK u : u = W[o]
    OBVIOUS
  <2>11. u = [recs |-> <<[at |-> e, crcOK |-> Intact(cells, e)]>> \o v.recs, torn |-> v.torn]
    BY <2>5, <2>6, <2>8, <2>10, WalkFacts DEF WalkStep
  <2>12. Intact(cells, e) = TRUE
    BY <2>3, Zenon DEF Intact
  <2>13. PICK x \in Looked : x = [at |-> e, crcOK |-> TRUE]
    BY DEF Looked
  <2>14. u.recs = <<x>> \o v.recs /\ u.torn = v.torn
    BY <2>11, <2>12, <2>13
  <2>15. /\ Len(u.recs) = 1 + Len(v.recs) /\ u.recs[1] = x /\ Len(v.recs) \in Nat
         /\ \A j \in 1..Len(v.recs) : u.recs[1 + j] = v.recs[j]
    BY <2>9, <2>14
  <2>16. PICK w : w = Walk(cells)
    OBVIOUS
  <2>17. Walked(w, u, ix, i - 1)
    BY <1>3, <2>1, <2>10, <2>16
  <2>18. Len(w.recs) = i + Len(v.recs) /\ w.torn = v.torn
    BY <2>14, <2>15, <2>17 DEF Walked
  <2>19. ASSUME NEW j \in 1..i
         PROVE  w.recs[j] = [at |-> ix[j], crcOK |-> TRUE]
    <3>1. CASE j = i
      <4>1. 1 \in 1..Len(u.recs) /\ (i - 1) + 1 = i
        BY <2>15
      <4>2. w.recs[i] = u.recs[1]
        BY <2>17, <4>1 DEF Walked
      <4> QED
        BY <2>2, <2>13, <2>15, <3>1, <4>2
    <3>2. CASE j # i
      <4>1. j \in 1..(i - 1)
        BY <3>2
      <4> QED
        BY <2>17, <4>1 DEF Walked
    <3> QED
      BY <3>1, <3>2
  <2>20. ASSUME NEW j \in 1..Len(v.recs)
         PROVE  w.recs[i + j] = v.recs[j]
    <3>1. 1 + j \in 1..Len(u.recs) /\ (i - 1) + (1 + j) = i + j
      BY <2>15
    <3>2. w.recs[(i - 1) + (1 + j)] = u.recs[1 + j]
      BY <2>17, <3>1 DEF Walked
    <3> QED
      BY <2>15, <3>1, <3>2
  <2>21. Walked(w, v, ix, i)
    BY <2>18, <2>19, <2>20 DEF Walked
  <2>22. Off(ix, i) \in 0..Len(cells)
    BY <2>3, <2>7
  <2> QED
    BY <2>3, <2>8, <2>16, <2>21, <2>22
<1>4. ASSUME S # {}
      PROVE  FALSE
  <2>1. PICK m \in S : \A n \in S : m <= n
    <3>1. S \subseteq Nat
      BY <1>1
    <3> HIDE DEF S
    <3> QED
      BY <1>4, <3>1, LeastNat
  <2>2. m \in 1..Len(ix)
    <3> HIDE DEF Good
    <3> QED
      BY <1>1, <1>2, <2>1
  <2>3. m - 1 \in 0..Len(ix) /\ m - 1 \notin S
    BY <1>1, <2>1, <2>2
  <2>4. Good(m - 1)
    BY <2>3
  <2>5. Good(m)
    BY <1>3, <2>2, <2>4
  <2> QED
    BY <2>1, <2>5
<1> QED
  BY <1>4

LEMMA DamageIsSeen ==
    ASSUME IInv
    PROVE  VerifySeesDamage
<1> SUFFICES ASSUME pc = "replay",
                    NEW w, w = Walk(file)
             PROVE  /\ \A i \in DOMAIN index : i \in DOMAIN w.recs \ Bad(w) /\ w.recs[i].at = index[i]
                    /\ AtEnd => Silent(w) /\ Len(w.recs) = Len(index)
                    /\ ~AtEnd /\ Silent(w) => ~Misframed /\ ~BadChecksum
  BY DEF VerifySeesDamage
<1>1. /\ file \in Seq(Cell) /\ index \in Seq(Entry) /\ Len(file) \in Nat
      /\ TiledFrom(0, index) /\ AllIntact(file, index) /\ cursor = EndOf(index)
  BY DEF IInv, TypeInv, TypeOK, IndexInv
<1>2. PICK n \in Nat : n = Len(index) /\ DOMAIN index = 1..n /\ n \in 0..Len(index)
  BY <1>1
<1>3. cursor = Off(index, n)
  BY <1>1, <1>2, OffFacts
<1>4. PICK v : v = WalkFrom(file)[cursor]
  OBVIOUS
<1>5. cursor \in 0..Len(file) /\ Walked(w, v, index, n)
  BY <1>1, <1>2, <1>3, <1>4, WalkAlong
<1>6. v.recs \in Seq(Looked) /\ w.recs \in Seq(Looked)
  <2>1. 0 \in 0..Len(file)
    BY <1>1
  <2> QED
    BY <1>1, <1>4, <1>5, <2>1, WalkType, WalkFacts
<1>7. PICK k \in Nat : k = Len(v.recs) /\ Len(w.recs) = n + k /\ DOMAIN w.recs = 1..(n + k)
  BY <1>5, <1>6 DEF Walked
<1>8. \A i \in 1..n : i \in DOMAIN w.recs /\ w.recs[i].crcOK /\ w.recs[i].at = index[i]
  <2> TAKE i \in 1..n
  <2>1. i \in DOMAIN w.recs
    BY <1>7
  <2>2. w.recs[i] = [at |-> index[i], crcOK |-> TRUE]
    BY <1>5 DEF Walked
  <2> QED
    BY <2>1, <2>2
<1>9. w.torn = v.torn /\ \A j \in 1..k : w.recs[n + j] = v.recs[j]
  BY <1>5, <1>7 DEF Walked
<1>10. v = WalkStep(file, WalkFrom(file), cursor)
  BY <1>1, <1>4, <1>5, WalkFacts
<1>11. CASE AtEnd
  <2>1. v = [recs |-> <<>>, torn |-> FALSE]
    BY <1>10, <1>11, Zenon DEF AtEnd, WalkStep
  <2>2. k = 0 /\ ~w.torn
    BY <1>7, <1>9, <2>1
  <2>3. Bad(w) = {} /\ Len(w.recs) = Len(index)
    BY <1>2, <1>7, <1>8, <2>2 DEF Bad
  <2> QED
    BY <1>2, <1>8, <1>11, <2>2, <2>3 DEF Bad, Silent
<1>12. CASE ~AtEnd
  <2>1. cursor # Len(file)
    BY <1>12 DEF AtEnd
  <2>2. PICK e \in Entry : e = EntryAt(file, cursor) /\ e = Here
    <3>1. EntryAt(file, cursor) = Here
      BY DEF EntryAt, Here
    <3> QED
      BY <1>1, <1>5, <2>1, <3>1, WalkOn
  <2>3. ASSUME Silent(w)
        PROVE  ~Misframed /\ ~BadChecksum
    <3>1. ~WalkTorn(file, e)
      <4>1. CASE WalkTorn(file, e)
        <5>1. v = [recs |-> <<>>, torn |-> TRUE]
          BY <1>10, <2>1, <2>2, <4>1, Zenon DEF WalkStep
        <5> QED
          BY <1>9, <2>3, <5>1 DEF Silent
      <4> QED
        BY <4>1
    <3>2. e.off = cursor
      BY <2>2 DEF EntryAt
    <3>3. ~Misframed
      BY <2>2, <3>1, <3>2 DEF Misframed, WalkTorn
    <3>4. End(e) \in (cursor + 1)..Len(file)
      BY <1>1, <1>5, <2>1, <2>2, <3>1, WalkOn
    <3>5. PICK s : s = WalkFrom(file)[End(e)].recs
      OBVIOUS
    <3>6. s \in Seq(Looked)
      BY <1>1, <1>5, <3>4, <3>5, WalkType
    <3>7. v.recs = <<[at |-> e, crcOK |-> Intact(file, e)]>> \o s
      BY <1>10, <2>1, <2>2, <3>1, <3>5 DEF WalkStep
    <3>8. PICK x \in Looked : x = [at |-> e, crcOK |-> Intact(file, e)]
      <4>1. Intact(file, e) \in BOOLEAN
        BY Zenon DEF Intact
      <4> QED
        BY <4>1 DEF Looked
    <3>9. v.recs[1] = x /\ Len(v.recs) = 1 + Len(s) /\ Len(s) \in Nat
      BY <3>6, <3>7, <3>8
    <3>10. 1 \in 1..k /\ n + 1 \in DOMAIN w.recs /\ w.recs[n + 1] = x
      BY <1>7, <1>9, <3>9, SMTT(40)
    <3>11. x.crcOK
      BY <2>3, <3>10 DEF Silent, Bad
    <3>12. Intact(file, e)
      BY <3>8, <3>11, Zenon
    <3> QED
      BY <2>2, <3>3, <3>12 DEF BadChecksum
  <2> QED
    BY <1>2, <1>8, <1>12, <2>3 DEF Bad
<1> QED
  BY <1>11, <1>12

\* nsq verify, run on the file an Open finds, shows every record the replay takes,
\* each with a good checksum; it finds nothing wrong with a file whose end replay
\* reaches; and with a file it finds nothing wrong with, framing and checksums never
\* stop the replay (store.go, WalkFile and replay; cmd/nsq, cmdVerify).  Nothing is
\* said of the refusals of replay's dispatch.
THEOREM VerifySeesDamageTheorem ==
    ASSUME ~FastOpen \/ ~WriteErrors
    PROVE  Spec => []VerifySeesDamage
<1>1. IInv => VerifySeesDamage
  BY DamageIsSeen
<1> QED
  BY <1>1, Invariance, PTL
=============================================================================
