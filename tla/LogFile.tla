------------------------------ MODULE LogFile ------------------------------
(***************************************************************************)
(* The database file and the index over it: how a record is appended, made *)
(* durable, and found again after a crash (store.go, and the open, sync    *)
(* and close of nosqlite.go).                                              *)
(*                                                                         *)
(* The file is a sequence of cells, the unit in which a write lands.  A    *)
(* record is one header cell followed by its payload cells.  The 32-byte   *)
(* file header is taken as written and is not part of the sequence, so     *)
(* offset 0 here is offset 32 there.                                       *)
(*                                                                         *)
(* One process at a time has the file open, and everything below except    *)
(* Kill and PowerCut happens under db.mu held for writing or inside Open,  *)
(* so pc is the program counter of the lock's holder.                      *)
(***************************************************************************)
EXTENDS Naturals, Sequences

CONSTANTS
    Record,        \* the records callers append
    Insert,        \* those with op 1; the others are replaces and deletes
    PayloadCells,  \* how many cells each record's payload takes
    SyncAlways,    \* cfg.sync = SyncAlways, as against SyncNever
    FastOpen,      \* WithFastOpen: replay skips the payload of most inserts
    WriteErrors,   \* WriteAt may fail part way (a full disk)
    SyncErrors,    \* fsync may fail
    MaxBatch,      \* bound: records in one batch
    MaxRecords     \* bound: records in the file

ASSUME InsertAssumption == Insert \subseteq Record
ASSUME PayloadAssumption == PayloadCells \in [Record -> Nat \ {0}]
ASSUME OptionsAssumption ==
    /\ SyncAlways \in BOOLEAN
    /\ FastOpen \in BOOLEAN
    /\ WriteErrors \in BOOLEAN
    /\ SyncErrors \in BOOLEAN
ASSUME BoundsAssumption == MaxBatch \in Nat /\ MaxRecords \in Nat

VARIABLES
    file,      \* the file as a reader of it in this boot sees it: the page cache
    disk,      \* the file as of the last fsync: what a power cut cannot touch
    pc,        \* what the process is doing
    size,      \* db.size, where the next record goes
    index,     \* the record and offset each accepted record has, in file order
    needSync,  \* db.needSync
    cursor,    \* the cell a write or the replay has reached
    todo,      \* records of the current write that have not fully landed
    part,      \* cells of Head(todo) that have landed
    landed,    \* records of the current write that have, as index entries
    batch,     \* the write is appendBatch's, not appendRecord's
    opened,    \* ghost: how many records the last Open found
    promised   \* ghost: the index as of the last fsync that succeeded

vars == <<file, disk, pc, size, index, needSync, cursor, todo, part, landed,
          batch, opened, promised>>
write == <<cursor, todo, part, landed, batch>>

Cell == [rec : Record, part : Nat]
Entry == [rec : Record, off : Nat]

TypeOK ==
    /\ file \in Seq(Cell)
    /\ disk \in Seq(Cell)
    /\ pc \in {"idle", "write", "sync", "closed", "down", "replay",
               "truncated", "refused"}
    /\ size \in Nat
    /\ index \in Seq(Entry)
    /\ needSync \in BOOLEAN
    /\ cursor \in Nat
    /\ todo \in Seq(Record)
    /\ part \in Nat
    /\ landed \in Seq(Entry)
    /\ batch \in BOOLEAN
    /\ opened \in Nat
    /\ promised \in Seq(Entry)

-----------------------------------------------------------------------------
\* The cell that ends the record an index entry names.
End(e) == e.off + 1 + PayloadCells[e.rec]

\* Where the last record of ix ends: 0 when there is none.
EndOf(ix) == IF ix = <<>> THEN 0 ELSE End(ix[Len(ix)])

\* The record's own cells, in order, stand at its offset: its length field and
\* its checksum both agree with the bytes.
Intact(cells, e) ==
    \A p \in 0..PayloadCells[e.rec] :
        /\ e.off + p + 1 <= Len(cells)
        /\ cells[e.off + p + 1] = [rec |-> e.rec, part |-> p]

\* Records stand one behind the other, the first of them at offset start.
TiledFrom(start, ix) ==
    \A i \in DOMAIN ix : ix[i].off = IF i = 1 THEN start ELSE End(ix[i - 1])

\* They all end at n or before it.
Below(n, ix) == \A i \in DOMAIN ix : End(ix[i]) <= n

AllIntact(cells, ix) == \A i \in DOMAIN ix : Intact(cells, ix[i])

\* One of the two is a prefix of the other.
Agree(ix, jx) == \A i \in DOMAIN ix \cap DOMAIN jx : ix[i] = jx[i]

\* WriteAt of one cell at position i, over what is there or just past the end.
Put(cells, i, c) ==
    IF i <= Len(cells) THEN [cells EXCEPT ![i] = c] ELSE Append(cells, c)

\* The process is gone: nothing in memory survives.
Volatile ==
    /\ size' = 0
    /\ index' = <<>>
    /\ needSync' = FALSE
    /\ cursor' = 0
    /\ todo' = <<>>
    /\ part' = 0
    /\ landed' = <<>>
    /\ batch' = FALSE
    /\ opened' = 0

EndWrite ==
    /\ cursor' = 0
    /\ todo' = <<>>
    /\ part' = 0
    /\ landed' = <<>>
    /\ batch' = FALSE

Init ==
    /\ file = <<>>
    /\ disk = <<>>
    /\ pc = "idle"
    /\ size = 0
    /\ index = <<>>
    /\ needSync = FALSE
    /\ cursor = 0
    /\ todo = <<>>
    /\ part = 0
    /\ landed = <<>>
    /\ batch = FALSE
    /\ opened = 0
    /\ promised = <<>>

-----------------------------------------------------------------------------
\* Appending

\* Mutant of WriteOffset: the file's own seek position, which nothing moves.
WriteOffsetSeek == 0

WriteOffset == size

Begin(rs, isBatch) ==
    /\ pc = "idle"
    /\ Len(index) + Len(rs) <= MaxRecords
    /\ pc' = "write"
    /\ cursor' = WriteOffset
    /\ todo' = rs
    /\ part' = 0
    /\ landed' = <<>>
    /\ batch' = isBatch
    /\ UNCHANGED <<file, disk, size, index, needSync, opened, promised>>

\* Insert and Replace write one record.
AppendRecord(r) == Begin(<<r>>, FALSE)

\* InsertMany writes inserts together, Delete and DeleteMany tombstones: one
\* WriteAt for all of them.
AppendBatch(rs) ==
    /\ \/ \A i \in DOMAIN rs : rs[i] \in Insert
       \/ \A i \in DOMAIN rs : rs[i] \notin Insert
    /\ Begin(rs, TRUE)

\* The operating system takes one more cell of the WriteAt in progress.
LandCell ==
    /\ pc = "write"
    /\ todo # <<>>
    /\ file' = Put(file, cursor + 1, [rec |-> Head(todo), part |-> part])
    /\ cursor' = cursor + 1
    /\ IF part < PayloadCells[Head(todo)]
       THEN /\ part' = part + 1
            /\ UNCHANGED <<todo, landed>>
       ELSE /\ part' = 0
            /\ todo' = Tail(todo)
            /\ landed' = Append(landed, [rec |-> Head(todo), off |-> cursor - part])
    /\ UNCHANGED <<disk, pc, size, index, needSync, batch, opened, promised>>

\* Mutants of AppendPoint: past the torn record too; back by what is torn;
\* only past the first record of a batch.
AppendPointPastTorn == cursor
AppendPointRollsBack == IF todo = <<>> THEN cursor ELSE size - part
AppendPointOneRecord == IF landed = <<>> THEN size ELSE End(landed[1])

\* Past the records that landed in full, so that the next append overwrites a
\* torn one.
AppendPoint == cursor - part

\* Mutant of Outstanding: needSync is not set.
OutstandingUnset == needSync

Outstanding == needSync \/ landed # <<>>

\* The append point moves past the records that landed in full, they enter the
\* index, and syncIfNeeded follows.
Publish ==
    /\ size' = AppendPoint
    /\ index' = index \o landed
    /\ needSync' = Outstanding
    /\ pc' = IF SyncAlways THEN "sync" ELSE "idle"
    /\ EndWrite
    /\ UNCHANGED <<file, disk, opened, promised>>

WriteDone ==
    /\ pc = "write"
    /\ todo = <<>>
    /\ Publish

\* A batch keeps the prefix that landed; appendRecord returns at once.
WriteFails ==
    /\ WriteErrors
    /\ pc = "write"
    /\ todo # <<>>
    /\ \/ batch /\ Publish
       \/ /\ ~batch
          /\ pc' = "idle"
          /\ EndWrite
          /\ UNCHANGED <<file, disk, size, index, needSync, opened, promised>>

-----------------------------------------------------------------------------
\* Making it durable

\* An fsync that succeeds.
Fsync ==
    /\ disk' = file
    /\ promised' = index

\* An fsync that fails leaves the device as it was.
FsyncFails ==
    /\ SyncErrors
    /\ UNCHANGED <<disk, promised>>

SyncIfNeeded ==
    /\ pc = "sync"
    /\ \/ Fsync /\ needSync' = FALSE
       \/ FsyncFails /\ UNCHANGED needSync
    /\ pc' = "idle"
    /\ UNCHANGED <<file, size, index, opened>>
    /\ UNCHANGED write

\* DB.Sync clears needSync whether or not the fsync succeeded.
Sync ==
    /\ pc = "idle"
    /\ needSync
    /\ Fsync \/ FsyncFails
    /\ needSync' = FALSE
    /\ UNCHANGED <<file, pc, size, index, opened>>
    /\ UNCHANGED write

\* "closed" is a Close that returned nil, "down" one that returned an error.
Close ==
    /\ pc = "idle"
    /\ \/ needSync /\ Fsync /\ pc' = "closed"
       \/ needSync /\ FsyncFails /\ pc' = "down"
       \/ ~needSync /\ pc' = "closed" /\ UNCHANGED <<disk, promised>>
    /\ needSync' = FALSE
    /\ UNCHANGED <<file, size, index, opened>>
    /\ UNCHANGED write

-----------------------------------------------------------------------------
\* Losing the process or the machine

Running == pc \in {"idle", "write", "sync", "replay", "truncated"}

\* kill -9: what reached the page cache stays in the file.
Kill ==
    /\ Running
    /\ pc' = "down"
    /\ Volatile
    /\ UNCHANGED <<file, disk, promised>>

\* A power cut: the device holds the cells of the page cache up to some point
\* and, beyond it, what it held at the last fsync.  That the page cache is
\* written back from the front of the file on is an assumption about the file
\* system, and so is a size that is never ahead of the data.
PowerCut(k) ==
    /\ k \in 0..Len(file)
    /\ file' = SubSeq(file, 1, k) \o SubSeq(disk, k + 1, Len(disk))
    /\ disk' = file'
    /\ pc' = "down"
    /\ Volatile
    /\ UNCHANGED promised

-----------------------------------------------------------------------------
\* Open and replay

Open ==
    /\ pc \in {"closed", "down", "refused"}
    /\ pc' = "replay"
    /\ Volatile
    /\ UNCHANGED <<file, disk, promised>>

AtEnd == cursor = Len(file)

\* The entry replay reads at cursor.
Here == [rec |-> file[cursor + 1].rec, off |-> cursor]

\* A payload cell read as a header promises an absurd length: JSON text where
\* the length field should be is at least 2^29.
Misframed ==
    \/ file[cursor + 1].part # 0
    \/ End(Here) > Len(file)

IsLast == End(Here) >= Len(file)

\* The id table exists once a replace or a delete has been replayed.
TableBuilt == \E i \in DOMAIN index : index[i].rec \notin Insert

MustRead ==
    \/ ~FastOpen
    \/ IsLast
    \/ Here.rec \notin Insert
    \/ TableBuilt

BadChecksum == MustRead /\ ~Intact(file, Here)

\* A record whose framing and checksum are good.  The refusals of the dispatch on
\* its type, for what an intact record says, are in Catalog (a definition that comes
\* twice, a collection that has none) and DocStore (an _id that cannot be decoded
\* or resolved); callers write no unknown op or flag.
ReplayAccept ==
    /\ pc = "replay"
    /\ ~AtEnd
    /\ ~Misframed
    /\ ~BadChecksum
    /\ index' = Append(index, Here)
    /\ cursor' = End(Here)
    /\ UNCHANGED <<file, disk, pc, size, needSync, todo, part, landed, batch,
                   opened, promised>>

ReplayEOF ==
    /\ pc = "replay"
    /\ AtEnd
    /\ size' = cursor
    /\ pc' = "idle"
    /\ opened' = Len(index)
    /\ EndWrite
    /\ UNCHANGED <<file, disk, index, needSync, promised>>

\* Mutant of LastGoodEnd: the cut is made one record too early.
LastGoodEndTooEarly == EndOf(SubSeq(index, 1, Len(index) - 1))

LastGoodEnd == cursor

\* The torn tail is cut off at the end of the last good record.  The device sees
\* the truncation before anything written later: a power cut that undoes it is
\* one that came just before this step.
TruncateTail ==
    /\ pc = "replay"
    /\ ~AtEnd
    /\ Misframed \/ (BadChecksum /\ IsLast)
    /\ file' = SubSeq(file, 1, LastGoodEnd)
    /\ disk' = IF Len(file') < Len(disk) THEN SubSeq(disk, 1, Len(file')) ELSE disk
    /\ pc' = "truncated"
    /\ UNCHANGED <<size, index, needSync, opened, promised>>
    /\ UNCHANGED write

TruncateSync ==
    /\ pc = "truncated"
    /\ \/ /\ Fsync
          /\ pc' = "idle"
          /\ size' = cursor
          /\ opened' = Len(index)
       \/ /\ FsyncFails
          /\ pc' = "down"
          /\ UNCHANGED <<size, opened>>
    /\ EndWrite
    /\ UNCHANGED <<file, index, needSync>>

\* A bad checksum with more file behind it is ErrCorrupt: Open returns it.
ReplayCorrupt ==
    /\ pc = "replay"
    /\ ~AtEnd
    /\ ~Misframed
    /\ BadChecksum
    /\ ~IsLast
    /\ pc' = "refused"
    /\ UNCHANGED <<file, disk, size, index, needSync, opened, promised>>
    /\ UNCHANGED write

-----------------------------------------------------------------------------
Batches == UNION {[1..n -> Record] : n \in 1..MaxBatch}

Next ==
    \/ \E r \in Record : AppendRecord(r)
    \/ \E rs \in Batches : AppendBatch(rs)
    \/ LandCell
    \/ WriteDone
    \/ WriteFails
    \/ SyncIfNeeded
    \/ Sync
    \/ Close
    \/ Kill
    \/ \E k \in 0..Len(file) : PowerCut(k)
    \/ Open
    \/ ReplayAccept
    \/ ReplayEOF
    \/ TruncateTail
    \/ TruncateSync
    \/ ReplayCorrupt

Spec == Init /\ [][Next]_vars
-----------------------------------------------------------------------------
\* Properties

\* The index of an open database describes the file exactly: the records it
\* names are intact, stand one behind the other from the first byte on, and end
\* where the next append will start.
IndexTilesFile ==
    pc \in {"idle", "write", "sync"} =>
        /\ TiledFrom(0, index)
        /\ AllIntact(file, index)
        /\ size = EndOf(index)

\* Nothing an fsync has covered is ever lost, moved or reordered: whatever
\* crashes, torn writes and failed writes came after, the next database that
\* comes up starts with exactly those records.
Durable ==
    pc \in {"idle", "write", "sync", "closed"} =>
        /\ Len(promised) <= Len(index)
        /\ Agree(index, promised)

\* Damage is only ever at the tail, so Open never has to refuse a file that
\* only this program wrote.
NeverRefused == pc # "refused"

\* A Close that returned nil left every record this process appended on disk.
CloseFlushes ==
    pc = "closed" => (Len(index) = opened \/ promised = index)

\* The append point never moves back while the database is open: bytes a reader
\* may be reading are never written again.
AppendOnly ==
    [][ (pc \in {"idle", "write", "sync"} /\ pc' \in {"idle", "write", "sync"})
        => /\ size <= size'
           /\ \A i \in 1..size : file'[i] = file[i] ]_vars

-----------------------------------------------------------------------------
\* Inductive invariants

\* TypeOK, with what keeps the offsets natural numbers and inside the file.
TypeInv ==
    /\ TypeOK
    /\ pc = "write" => part <= cursor
    /\ pc \in {"replay", "truncated"} => cursor <= Len(file)

\* What an fsync covered stands in the file and on the device, from the start.
PromisedInv ==
    /\ TiledFrom(0, promised)
    /\ AllIntact(file, promised)
    /\ AllIntact(disk, promised)

\* The index, complete or under construction, is a run of intact records that
\* agrees with what was promised and ends at the append point or the cursor.
IndexInv ==
    /\ TiledFrom(0, index)
    /\ AllIntact(file, index)
    /\ Agree(index, promised)
    /\ pc \in {"idle", "write", "sync", "closed", "truncated"} =>
         Len(promised) <= Len(index)
    /\ pc \in {"idle", "write", "sync"} =>
         size = EndOf(index) /\ Below(size, index)
    /\ pc \in {"replay", "truncated"} =>
         cursor = EndOf(index) /\ Below(cursor, index)

\* What a write in progress has landed lies behind the index, intact.
WriteInv ==
    pc = "write" =>
        /\ size + part <= cursor
        /\ cursor <= Len(file)
        /\ TiledFrom(size, landed)
        /\ AllIntact(file, landed)
        /\ Below(cursor - part, landed)
        /\ cursor - part = IF landed = <<>> THEN size ELSE EndOf(landed)
        /\ todo = <<>> => part = 0
        /\ todo # <<>> =>
             /\ part <= PayloadCells[Head(todo)]
             /\ \A p \in 0..(part - 1) :
                  file[cursor - part + p + 1] = [rec |-> Head(todo), part |-> p]

\* With replay reading every payload, this is inductive and implies
\* IndexTilesFile and Durable.
IInv == TypeInv /\ PromisedInv /\ IndexInv /\ WriteInv

\* A header is followed by the payload of its record, as far as the cells go, and
\* a payload cell has the one before it in front of it.
Framed(cells) ==
    \A j \in DOMAIN cells :
       LET r == cells[j].rec IN
       IF cells[j].part = 0
       THEN \A p \in 0..PayloadCells[r] :
               j + p <= Len(cells) => cells[j + p] = [rec |-> r, part |-> p]
       ELSE /\ j > 1
            /\ cells[j].part <= PayloadCells[r]
            /\ cells[j - 1] = [rec |-> r, part |-> cells[j].part - 1]

\* With writes that never stop part way, only the end of the file can be damaged,
\* and the device holds a first part of it.
TailInv ==
    /\ Framed(file)
    /\ Len(disk) <= Len(file)
    /\ \A j \in 1..Len(disk) : disk[j] = file[j]
    /\ pc \in {"idle", "sync", "truncated"} => Len(file) = EndOf(index)
    /\ pc = "write" => Len(file) = cursor
    /\ pc # "refused"

\* Inductive when replay reads every payload, and when writes never stop part way.
SoundInv == IInv /\ (WriteErrors \/ TailInv)

\* While fsync tells the truth, records this process appended are either flushed
\* or known not to be.
FlushInv ==
    /\ pc \in {"idle", "write", "sync", "closed"} /\ ~needSync
          => Len(index) = opened \/ promised = index
    /\ pc = "closed" => ~needSync
=============================================================================
