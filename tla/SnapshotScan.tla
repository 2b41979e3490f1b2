---------------------------- MODULE SnapshotScan ----------------------------
(***************************************************************************)
(* Lock-free scans of one collection beside its writers (index.go,         *)
(* scan.go).  A writer holds db.mu; a reader takes the lock only to copy   *)
(* two slice headers and the file size, then reads the backing arrays and  *)
(* the file with no lock while writers go on changing them.  The function  *)
(* a scan visits documents with may itself write to the collection.  Close *)
(* waits for the writer that holds the lock and for no scan.               *)
(*                                                                         *)
(* A record is named by its place in the file.  A cell of c.offsets holds  *)
(* the record it points at, a cell of c.lengths the record whose length it *)
(* is, and 0 is a cell nothing was written to.                             *)
(***************************************************************************)
EXTENDS Naturals, Sequences, FiniteSets, SequencesExt, FiniteSetsExt

CONSTANTS
    Goroutine,
    Free,         \* db.mu is held by nobody
    MaxRecords    \* bound: records in the file

ASSUME FreeAssumption == Free \notin Goroutine
ASSUME BoundAssumption == MaxRecords \in Nat

VARIABLES
    file,    \* records as they lie in the file, also what is behind db.size
    size,    \* db.size, in records
    heap,    \* the backing arrays made so far; an array's length is its capacity
    offs,    \* c.offsets
    lens,    \* c.lengths
    dirty,   \* c.dirty
    lock,    \* the writer that holds db.mu
    closed,  \* db.closed, and the file is
    pc,      \* where each goroutine's writing call is
    call,    \* what it writes: the records, and the positions it changes
    scan,    \* each goroutine's running scan, or None
    seen     \* what that scan has handed to its visitor

index == <<heap, offs, lens, dirty>>
vars == <<file, size, heap, offs, lens, dirty, lock, closed, pc, call, scan, seen>>

\* A record of another collection, a record of this one, a half-written record.
Kind == {"foreign", "insert", "replace", "delete", "part"}
Slice == [arr : Nat, len : Nat]
NoCall == [kind |-> "none", at |-> {}]
None == [shape |-> "none"]

\* One scan: its snapshot, where in the file and in the index it is, the length
\* it has read for the next document, if it has, whether the visitor runs and
\* may write (once, here), and, for the properties only, the documents the
\* collection had when the snapshot was taken.
Scan ==
    [shape : {"strided", "sequential"}, offs : Slice, lens : Slice, size : Nat,
     pos : Nat, i : Nat, length : Seq(Nat), visiting : BOOLEAN, want : Seq(Nat)]

TypeOK ==
    /\ file \in Seq(Kind)
    /\ size \in 0..Len(file)
    /\ heap \in Seq(Seq(Nat))
    /\ \A s \in {offs, lens} : /\ s \in Slice
                               /\ s.arr \in DOMAIN heap
                               /\ s.len <= Len(heap[s.arr])
    /\ offs.len = lens.len \/ \E g \in Goroutine : pc[g] = "lengths"
    /\ dirty \in BOOLEAN
    /\ lock \in Goroutine \cup {Free}
    /\ closed \in BOOLEAN
    /\ pc \in [Goroutine -> {"out", "waiting", "locked", "writing", "offsets",
                             "lengths", "publish", "unlock"}]
    /\ \A g \in Goroutine : scan[g] # None => scan[g] \in Scan
    /\ seen \in [Goroutine -> Seq(Nat \X Nat)]

Init ==
    /\ file = <<>>
    /\ size = 0
    /\ heap = << <<>>, <<>> >>
    /\ offs = [arr |-> 1, len |-> 0]
    /\ lens = [arr |-> 2, len |-> 0]
    /\ dirty = FALSE
    /\ lock = Free
    /\ closed = FALSE
    /\ pc = [g \in Goroutine |-> "out"]
    /\ call = [g \in Goroutine |-> NoCall]
    /\ scan = [g \in Goroutine |-> None]
    /\ seen = [g \in Goroutine |-> <<>>]

Values(s) == SubSeq(heap[s.arr], 1, s.len)

-----------------------------------------------------------------------------
\* Writing

\* Mutant of HoldsReadLock: a scan keeps the read lock until it ends.
HoldsReadLockWhileScanning(g) == scan[g] # None

\* snapshot() gives the read lock back before it returns.
HoldsReadLock(g) == FALSE

BeginWrite(g) ==
    /\ pc[g] = "out"
    /\ size < MaxRecords
    /\ \/ scan[g] = None /\ UNCHANGED scan
       \/ scan[g] # None /\ scan[g].visiting /\ scan' = [scan EXCEPT ![g].visiting = FALSE]
    /\ pc' = [pc EXCEPT ![g] = "waiting"]
    /\ UNCHANGED <<file, size, lock, closed, call, seen>>
    /\ UNCHANGED index

Lock(g) ==
    /\ pc[g] = "waiting"
    /\ lock = Free
    /\ \A h \in Goroutine : ~HoldsReadLock(h)
    /\ lock' = g
    /\ pc' = [pc EXCEPT ![g] = "locked"]
    /\ UNCHANGED <<file, size, call, scan, seen, closed>>
    /\ UNCHANGED index

\* The operations: which positions they change, and so how many records they
\* write.  An insert is given those of its documents in the batch.
Calls ==
    {[kind |-> "foreign", at |-> {}]}
    \cup {[kind |-> "insert", at |-> 1..n] : n \in {1, 2}}
    \cup {[kind |-> "replace", at |-> {i}] : i \in 1..offs.len}
    \cup {[kind |-> "delete", at |-> p] : p \in (SUBSET (1..offs.len)) \ {{}}}

Records(cl) == [i \in 1..Max({1, Cardinality(cl.at)}) |-> cl.kind]

\* Mutant of MayWrite: the closed flag was looked at before the lock was taken.
MayWriteUnchecked == TRUE

\* The closed flag is looked at under the lock.
MayWrite == ~closed

\* The call finds what it works on, through snapshotLocked, and WriteAt begins
\* to put bytes behind db.size.
StartWriteAt(g) ==
    /\ pc[g] = "locked"
    /\ MayWrite
    /\ \E cl \in Calls :
         /\ size + Len(Records(cl)) <= MaxRecords
         /\ call' = [call EXCEPT ![g] = cl]
    /\ file' = Append(SubSeq(file, 1, size), "part")
    /\ pc' = [pc EXCEPT ![g] = "writing"]
    /\ UNCHANGED <<size, lock, closed, scan, seen>>
    /\ UNCHANGED index

\* The call writes nothing: ErrClosed, no match, a duplicate _id, a wrong _id.
WriteNothing(g) ==
    /\ pc[g] = "locked"
    /\ pc' = [pc EXCEPT ![g] = "unlock"]
    /\ UNCHANGED <<file, size, lock, closed, call, scan, seen>>
    /\ UNCHANGED index

\* What the call has to index once its first n records have landed: the places of
\* new documents, or the positions that change.
Landed(cl, n) ==
    IF cl.kind = "insert" THEN {size + i : i \in 1..n}
    ELSE {i \in cl.at : Cardinality({j \in cl.at : j <= i}) <= n}

\* WriteAt returns with all records of the call in the file, or with the first n
\* of a batch and the remains of one more behind them.
EndWriteAt(g) ==
    /\ pc[g] = "writing"
    /\ \E n \in 1..Len(Records(call[g])) :
         /\ size' = size + n
         /\ file' = SubSeq(file, 1, size) \o SubSeq(Records(call[g]), 1, n) \o
                      (IF n < Len(Records(call[g])) THEN <<"part">> ELSE <<>>)
         /\ call' = [call EXCEPT ![g] = IF call[g].kind = "foreign" THEN NoCall
                                       ELSE [@ EXCEPT !.at = Landed(call[g], n)]]
    /\ pc' = [pc EXCEPT ![g] = CASE call[g].kind = "insert" -> "offsets"
                                 [] call[g].kind = "foreign" -> "unlock"
                                 [] OTHER -> "publish"]
    /\ UNCHANGED <<lock, closed, scan, seen>>
    /\ UNCHANGED index

\* WriteAt fails before a whole record has landed: db.size stays where it was,
\* the remains lie behind it.
FailWriteAt(g) ==
    /\ pc[g] = "writing"
    /\ pc' = [pc EXCEPT ![g] = "unlock"]
    /\ call' = [call EXCEPT ![g] = NoCall]
    /\ UNCHANGED <<file, size, lock, closed, scan, seen>>
    /\ UNCHANGED index

\* Go's append, from slice s to slice s1: into the spare capacity if there is
\* some, else into a larger array, with no more room than one extra cell here.
AppendTo(s, s1, v) ==
    \/ /\ s.len < Len(heap[s.arr])
       /\ s1 = [s EXCEPT !.len = @ + 1]
       /\ heap' = [heap EXCEPT ![s.arr][s.len + 1] = v]
    \/ /\ s.len = Len(heap[s.arr])
       /\ s1 = [arr |-> Len(heap) + 1, len |-> s.len + 1]
       /\ \E spare \in {<<>>, <<0>>} :
            heap' = Append(heap, Append(heap[s.arr], v) \o spare)

\* appendIndex appends to one slice, then to the other, once for every document.
AppendOffset(g) ==
    /\ pc[g] = "offsets"
    /\ \E s1 \in [arr : {offs.arr, Len(heap) + 1}, len : {offs.len + 1}] :
         AppendTo(offs, s1, Min(call[g].at)) /\ offs' = s1
    /\ pc' = [pc EXCEPT ![g] = "lengths"]
    /\ UNCHANGED <<file, size, lens, dirty, lock, closed, call, scan, seen>>

AppendLength(g) ==
    /\ pc[g] = "lengths"
    /\ \E s1 \in [arr : {lens.arr, Len(heap) + 1}, len : {lens.len + 1}] :
         AppendTo(lens, s1, Min(call[g].at)) /\ lens' = s1
    /\ IF Cardinality(call[g].at) > 1
       THEN /\ call' = [call EXCEPT ![g].at = @ \ {Min(@)}]
            /\ pc' = [pc EXCEPT ![g] = "offsets"]
       ELSE /\ call' = [call EXCEPT ![g] = NoCall]
            /\ pc' = [pc EXCEPT ![g] = "unlock"]
    /\ UNCHANGED <<file, size, offs, dirty, lock, closed, scan, seen>>

\* Mutant of Republish: the new values go into the arrays readers hold.
RepublishInPlace(v) ==
    LET over(old) == v \o SubSeq(old, Len(v) + 1, Len(old))
    IN  /\ heap' = [heap EXCEPT ![offs.arr] = over(@), ![lens.arr] = over(@)]
        /\ offs' = [offs EXCEPT !.len = Len(v)]
        /\ lens' = [lens EXCEPT !.len = Len(v)]

\* Fresh arrays, filled before any reader can know of them.
Republish(v) ==
    /\ heap' = heap \o <<v, v>>
    /\ offs' = [arr |-> Len(heap) + 1, len |-> Len(v)]
    /\ lens' = [arr |-> Len(heap) + 2, len |-> Len(v)]

\* replaceIndex points one position at the new record, removeIndex takes
\* positions out.
Publish(g) ==
    LET now == Values(offs)
        stay == (1..offs.len) \ call[g].at
        nth(k) == CHOOSE i \in stay : Cardinality({j \in stay : j <= i}) = k
    IN  /\ pc[g] = "publish"
        /\ Republish(IF call[g].kind = "replace"
                     THEN [i \in DOMAIN now |-> IF i \in call[g].at THEN size ELSE now[i]]
                     ELSE [k \in 1..Cardinality(stay) |-> now[nth(k)]])
        /\ dirty' = TRUE
        /\ pc' = [pc EXCEPT ![g] = "unlock"]
        /\ call' = [call EXCEPT ![g] = NoCall]
        /\ UNCHANGED <<file, size, lock, closed, scan, seen>>

\* The fsync, which changes nothing here, and the return of the call.
Unlock(g) ==
    /\ pc[g] = "unlock"
    /\ lock' = Free
    /\ pc' = [pc EXCEPT ![g] = "out"]
    /\ UNCHANGED <<file, size, call, scan, seen, closed>>
    /\ UNCHANGED index

\* No scan is waited for.  The final flush is LogFile's.
Close(g) ==
    /\ pc[g] = "out"
    /\ lock = Free
    /\ \A h \in Goroutine : ~HoldsReadLock(h)
    /\ closed' = TRUE
    /\ UNCHANGED <<file, size, lock, pc, call, scan, seen>>
    /\ UNCHANGED index

-----------------------------------------------------------------------------
\* Scanning

\* Mutant of ShapesOf: superseded records do not rule out the sequential pass.
ShapesOfAny(d) == {"strided", "sequential"}

\* A clean collection is read either way, by its share of the documents of the
\* whole database, which other collections change at will.
ShapesOf(d) == IF d THEN {"strided"} ELSE {"strided", "sequential"}

\* No writer holds the lock.  The copy is one step, as no writer can come in.
Snapshot(g) ==
    /\ pc[g] = "out"
    /\ scan[g] = None
    /\ lock = Free
    /\ \E shape \in ShapesOf(dirty) :
         scan' = [scan EXCEPT ![g] =
                    [shape |-> shape, offs |-> offs, lens |-> lens, size |-> size,
                     pos |-> 0, i |-> 0, length |-> <<>>, visiting |-> FALSE,
                     want |-> Values(offs)]]
    /\ UNCHANGED <<file, size, lock, closed, pc, call, seen>>
    /\ UNCHANGED index

\* g runs a scan of this shape and is not inside the visitor's own write.
At(g, shape) == pc[g] = "out" /\ scan[g].shape = shape

More(g) == scan[g].i < scan[g].offs.len

\* The visitor is handed the bytes at an offset, this many of them.
Visit(g, offset, length) == seen' = [seen EXCEPT ![g] = Append(@, <<offset, length>>)]

Untouched == UNCHANGED <<file, size, lock, closed, pc, call>> /\ UNCHANGED index

ReadLength(g) ==
    /\ At(g, "strided")
    /\ More(g)
    /\ scan[g].length = <<>>
    /\ scan' = [scan EXCEPT ![g].length = <<heap[scan[g].lens.arr][scan[g].i + 1]>>,
                            ![g].visiting = FALSE]
    /\ UNCHANGED seen
    /\ Untouched

ReadDocument(g) ==
    /\ At(g, "strided")
    /\ scan[g].length # <<>>
    /\ ~closed
    /\ Visit(g, heap[scan[g].offs.arr][scan[g].i + 1], scan[g].length[1])
    /\ scan' = [scan EXCEPT ![g].i = @ + 1, ![g].length = <<>>, ![g].visiting = TRUE]
    /\ Untouched

\* What the buffer holds is there when the file is closed.
ReadRecord(g) ==
    LET s == scan[g]
    IN  /\ At(g, "sequential")
        /\ More(g)
        /\ s.pos < s.size
        /\ closed => s.pos > 0
        /\ IF file[s.pos + 1] \in {"insert", "part"}
           THEN /\ Visit(g, s.pos + 1, s.pos + 1)
                /\ scan' = [scan EXCEPT ![g].pos = @ + 1, ![g].i = @ + 1, ![g].visiting = TRUE]
           ELSE /\ scan' = [scan EXCEPT ![g].pos = @ + 1, ![g].visiting = FALSE]
                /\ UNCHANGED seen
        /\ Untouched

\* Nothing is left to visit.
Ended(g) ==
    /\ scan[g] # None
    /\ \/ ~More(g)
       \/ scan[g].shape = "sequential" /\ scan[g].pos = scan[g].size

Leave(g) ==
    /\ scan' = [scan EXCEPT ![g] = None]
    /\ seen' = [seen EXCEPT ![g] = <<>>]
    /\ Untouched

Finish(g) == pc[g] = "out" /\ Ended(g) /\ Leave(g)

\* A read of the closed file: the scan returns the error.
FailRead(g) ==
    /\ closed
    /\ \/ At(g, "strided") /\ scan[g].length # <<>>
       \/ At(g, "sequential") /\ ~Ended(g)
    /\ Leave(g)

\* The limit is reached, or the visitor returned an error.
Stop(g) == pc[g] = "out" /\ scan[g] # None /\ seen[g] # <<>> /\ Leave(g)

-----------------------------------------------------------------------------
WriteStep(g) ==
    \/ StartWriteAt(g) \/ WriteNothing(g) \/ EndWriteAt(g) \/ FailWriteAt(g)
    \/ AppendOffset(g) \/ AppendLength(g) \/ Publish(g) \/ Unlock(g)

ScanStep(g) ==
    ReadLength(g) \/ ReadDocument(g) \/ ReadRecord(g) \/ Finish(g) \/ FailRead(g)

Next ==
    \E g \in Goroutine :
       BeginWrite(g) \/ Lock(g) \/ WriteStep(g) \/ Snapshot(g) \/ ScanStep(g) \/ Stop(g) \/ Close(g)

Spec == Init /\ [][Next]_vars

\* A goroutine inside a call goes on, and sync.RWMutex does not let a writer
\* wait forever.
Fairness ==
    \A g \in Goroutine : WF_vars(WriteStep(g)) /\ WF_vars(ScanStep(g)) /\ SF_vars(Lock(g))

FairSpec == Spec /\ Fairness

-----------------------------------------------------------------------------
\* Properties

\* A scan hands out the documents the collection had when its snapshot was
\* taken, in their order, each offset with the length of the same record, and
\* all of them if it comes to its end: no writer that appends, replaces, removes
\* or fails meanwhile can make it see a newer document, a shifted one, half a
\* record or a mixed pair.
ScanIsSnapshot ==
    \A g \in Goroutine : scan[g] # None =>
       /\ IsPrefix(seen[g],
                   [i \in DOMAIN scan[g].want |-> <<scan[g].want[i], scan[g].want[i]>>])
       /\ Ended(g) => Len(seen[g]) = Len(scan[g].want)

\* index.go, THE ONE RULE: once an index entry is visible to a snapshot, its
\* value never changes again.
OneRule ==
    [][ \A g \in Goroutine : scan[g] # None =>
          \A s \in {scan[g].offs, scan[g].lens} :
             SubSeq(heap'[s.arr], 1, s.len) = Values(s) ]_vars

\* Close ends all writing: a call that was waiting for the lock when it came
\* changes nothing any more, in the file or in memory, nor does one of a visitor
\* whose scan goes on.
NothingAfterClose == [][closed => UNCHANGED <<file, size, heap, offs, lens, dirty>>]_vars

\* Every call returns, scan or write, also when a scan's visitor writes at every
\* document: the snapshot bounds what there is to visit, and the scan holds no
\* lock the write would wait for.
CallsReturn ==
    \A g \in Goroutine :
       (pc[g] # "out" \/ scan[g] # None) ~> (pc[g] = "out" /\ scan[g] = None)

-----------------------------------------------------------------------------
\* Inductive invariants

Inside == {"writing", "offsets", "lengths", "publish"}

\* A call past Lock holds the lock, and a closed database is not written to.
LockInv ==
    /\ lock \in Goroutine \cup {Free}
    /\ pc \in [Goroutine -> {"out", "waiting", "locked", "unlock"} \cup Inside]
    /\ \A g \in Goroutine : pc[g] \in {"locked", "unlock"} \cup Inside <=> lock = g
    /\ closed => \A g \in Goroutine : pc[g] \notin Inside

Within(s) == s \in Slice /\ s.arr \in DOMAIN heap /\ s.len <= Len(heap[s.arr])

\* The two current arrays are never the same one, and no scan holds more of them
\* than is published.
SliceInv ==
    /\ Within(offs) /\ Within(lens) /\ offs.arr # lens.arr
    /\ \A g \in Goroutine : scan[g] # None =>
          /\ Within(scan[g].offs) /\ Within(scan[g].lens)
          /\ scan[g].offs.arr # lens.arr /\ scan[g].lens.arr # offs.arr
          /\ scan[g].offs.arr = offs.arr => scan[g].offs.len <= offs.len
          /\ scan[g].lens.arr = lens.arr => scan[g].lens.len <= lens.len

\* Every record below db.size is whole.
FileInv ==
    /\ file \in Seq(Kind)
    /\ size \in 0..Len(file)
    /\ \A p \in 1..size : file[p] # "part"

\* An insert has its documents in the file before it indexes them.
CallInv ==
    \A g \in Goroutine : pc[g] \in Inside =>
       /\ call[g].kind \in Kind \ {"part"}
       /\ IsFiniteSet(call[g].at) /\ call[g].at \subseteq Nat
       /\ pc[g] \in {"offsets", "lengths"} =>
            /\ call[g].at # {}
            /\ \A p \in call[g].at : p \in 1..size /\ file[p] = "insert"

Offset(i) == heap[offs.arr][i]
Length(i) == heap[lens.arr][i]

\* The two arrays hold the same records, but for the one that is being appended.
PairInv ==
    /\ \A i \in 1..lens.len : Length(i) = Offset(i)
    /\ (\A g \in Goroutine : pc[g] # "lengths") => offs.len = lens.len
    /\ \A g \in Goroutine : pc[g] = "lengths" =>
          offs.len = lens.len + 1 /\ Offset(offs.len) = Min(call[g].at)

\* Documents an insert has yet to index.
Pending == UNION {call[g].at : g \in {h \in Goroutine : pc[h] \in {"offsets", "lengths"}}}

\* A clean index lists the inserts of the file in their order.
CleanInv ==
    ~dirty =>
       /\ \A i \in 1..lens.len : Length(i) \in 1..size /\ file[Length(i)] = "insert"
       /\ \A i, j \in 1..lens.len : i < j => Length(i) < Length(j)
       /\ \A i \in 1..lens.len : \A p \in Pending : Length(i) < p
       /\ \A p \in 1..size : file[p] = "insert" =>
             p \in Pending \/ \E i \in 1..lens.len : Length(i) = p

\* What a snapshot took is what its slices still show; for a sequential scan, the
\* inserts below its size, in their order.
SnapInv(g) ==
    LET s == scan[g] IN
    /\ s.shape \in {"strided", "sequential"}
    /\ s.offs.len = s.lens.len /\ Len(s.want) = s.offs.len
    /\ \A k \in 1..Len(s.want) :
          heap[s.offs.arr][k] = s.want[k] /\ heap[s.lens.arr][k] = s.want[k]
    /\ s.shape = "sequential" =>
          /\ s.size <= size
          /\ \A k \in 1..Len(s.want) : s.want[k] \in 1..s.size /\ file[s.want[k]] = "insert"
          /\ \A j, k \in 1..Len(s.want) : j < k => s.want[j] < s.want[k]
          /\ \A p \in 1..s.size : file[p] = "insert" => \E k \in 1..Len(s.want) : s.want[k] = p

\* The scan has handed out the first i documents of it.
ProgressInv(g) ==
    LET s == scan[g] IN
    /\ s.i \in 0..Len(s.want) /\ Len(seen[g]) = s.i
    /\ \A k \in 1..s.i : seen[g][k] = <<s.want[k], s.want[k]>>
    /\ s.shape = "strided" /\ s.length # <<>> =>
          s.i < Len(s.want) /\ s.length = <<s.want[s.i + 1]>>
    /\ s.shape = "sequential" =>
          s.pos \in 0..s.size /\ \A k \in 1..Len(s.want) : s.want[k] <= s.pos <=> k <= s.i

ScanInv ==
    \A g \in Goroutine :
       IF scan[g] = None THEN seen[g] = <<>> ELSE SnapInv(g) /\ ProgressInv(g)

\* Inductive, and implies ScanIsSnapshot.
IInv == LockInv /\ SliceInv /\ FileInv /\ CallInv /\ PairInv /\ CleanInv /\ ScanInv
=============================================================================
