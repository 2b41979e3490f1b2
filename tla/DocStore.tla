------------------------------ MODULE DocStore ------------------------------
(***************************************************************************)
(* Collections over the record log: the index, the lazily built _id table, *)
(* the dead-byte and document counters, the writing operations and the     *)
(* replay that rebuilds all of it (collection.go, index.go, scan.go and    *)
(* the second half of store.go).                                           *)
(*                                                                         *)
(* The file is a sequence of whole records, with at most a torn one behind *)
(* them: module LogFile shows why.  Every operation holds db.mu from its   *)
(* first look at the collection to its return, so it is one step here; a   *)
(* step chooses how much of a batch landed and whether the fsync worked.   *)
(***************************************************************************)
EXTENDS Naturals, Sequences, FiniteSets, SequencesExt, FiniteSetsExt

CONSTANTS
    Coll,         \* collections
    Id,           \* _ids
    Val,          \* the rest of a document
    Fp,           \* the 64-bit fingerprint of an _id; two may share one
    ValLen,       \* payload bytes of a document with this value
    TombLen,      \* payload bytes of a tombstone
    Header,       \* bytes of a record header
    NoId,         \* a replacement that carries no _id
    Stored,       \* the _id a record carries: JSON text has no invalid UTF-8
    Odd,          \* values with a second key that differs from _id in case only
                  \* and is no string
    Filters,      \* filters callers use: each the set of documents it matches
    Deletes,      \* callers delete documents
    TornTails,    \* a crash may leave a torn record behind the log
    WriteErrors,  \* WriteAt may stop part way
    SyncAlways,   \* cfg.sync = SyncAlways
    SyncErrors,   \* fsync may fail
    MaxLog,       \* bound: records in the file
    MaxBatch      \* bound: documents in one InsertMany

Doc == [id : Id, val : Val]

ASSUME LengthAssumption ==
    /\ ValLen \in [Val -> Nat \ {0}]
    /\ TombLen \in Nat \ {0}
    /\ Header \in Nat
ASSUME FpAssumption == Fp \in [Id -> Nat \ {0}]
ASSUME IdAssumption == NoId \notin Id
ASSUME StoredAssumption ==
    Stored \in [Id -> Id] /\ \A i \in Id : Stored[Stored[i]] = Stored[i]
ASSUME OddAssumption == Odd \subseteq Val
ASSUME FilterAssumption == Filters \subseteq SUBSET Doc
ASSUME OptionsAssumption ==
    /\ Deletes \in BOOLEAN /\ TornTails \in BOOLEAN /\ WriteErrors \in BOOLEAN
    /\ SyncAlways \in BOOLEAN /\ SyncErrors \in BOOLEAN
ASSUME BoundsAssumption == MaxLog \in Nat /\ MaxBatch \in Nat

VARIABLES
    log,      \* the file: its whole records, in order
    synced,   \* how many of them an fsync has covered
    torn,     \* a torn record follows them
    mode,     \* "open", "replay", "down", or "corrupt" when Open refused
    at,       \* how many records replay has applied
    slots,    \* c.offsets and c.lengths: position in log, and payload length
    built,    \* c.ids # nil
    ids,      \* what the table of c.ids holds
    dirty,    \* c.dirty
    dead,     \* db.dead
    total,    \* db.total
    pending,  \* pendingCompaction
    err       \* the last call returned an error

file == <<log, synced, torn>>
index == <<slots, built, ids, dirty>>
counters == <<dead, total>>
vars == <<log, synced, torn, mode, at, slots, built, ids, dirty, dead, total,
          pending, err>>

\* A tombstone carries an _id and nothing else.
Record ==
    [op : {"insert", "replace"}, coll : Coll, id : Id, val : Val]
    \cup [op : {"delete"}, coll : Coll, id : Id]
Slot == [at : Nat, len : Nat]
Row == [fp : Nat \ {0}, pos : Nat \ {0}]

PayloadLen(r) == IF r.op = "delete" THEN TombLen ELSE ValLen[r.val]
Bytes(r) == Header + PayloadLen(r)

\* f[1] + ... + f[n]
Total(f, n) ==
    LET sum[k \in 0..n] == IF k = 0 THEN 0 ELSE sum[k - 1] + f[k]
    IN  sum[n]

InsertRecord(c, d) == [op |-> "insert", coll |-> c, id |-> Stored[d.id], val |-> d.val]
ReplaceRecord(c, d) == [op |-> "replace", coll |-> c, id |-> d.id, val |-> d.val]
Tombstone(c, i) == [op |-> "delete", coll |-> c, id |-> i]

DocOf(r) == [id |-> r.id, val |-> r.val]

\* payloadID decodes into a struct with one field, which any spelling of the key
\* fills, and fails when one of them is no string.
Unreadable(r) == r.op # "delete" /\ r.val \in Odd

TypeOK ==
    /\ log \in Seq(Record)
    /\ synced \in 0..Len(log)
    /\ torn \in BOOLEAN
    /\ mode \in {"open", "replay", "down", "corrupt"}
    /\ at \in 0..Len(log)
    /\ slots \in [Coll -> Seq(Slot)]
    /\ built \in [Coll -> BOOLEAN]
    /\ ids \in [Coll -> SUBSET Row]
    /\ dirty \in [Coll -> BOOLEAN]
    /\ dead \in Nat
    /\ total \in Nat
    /\ pending \subseteq Coll
    /\ err \in BOOLEAN

Memory(s, b, t, d, x, n) ==
    /\ slots' = s
    /\ built' = b
    /\ ids' = t
    /\ dirty' = d
    /\ dead' = x
    /\ total' = n

\* A DB struct with nothing replayed into it.
EmptyMemory ==
    Memory([c \in Coll |-> <<>>], [c \in Coll |-> FALSE], [c \in Coll |-> {}],
           [c \in Coll |-> FALSE], 0, 0)

Init ==
    /\ log = <<>>
    /\ synced = 0
    /\ torn = FALSE
    /\ mode = "open"
    /\ at = 0
    /\ slots = [c \in Coll |-> <<>>]
    /\ built = [c \in Coll |-> FALSE]
    /\ ids = [c \in Coll |-> {}]
    /\ dirty = [c \in Coll |-> FALSE]
    /\ dead = 0
    /\ total = 0
    /\ pending = {}
    /\ err = FALSE

-----------------------------------------------------------------------------
\* The index and the _id table

\* How many numbers of S are up to x, and the n-th of them.
Rank(S, x) == Cardinality({y \in S : y <= x})
Nth(S, n) == CHOOSE x \in S : Rank(S, x) = n

\* The elements of s at the positions in S, in order.
Picked(s, S) == [n \in 1..Cardinality(S) |-> s[Nth(S, n)]]

\* Replay's mark for a document whose tombstone it has met.
Marked(s) == s.len = 0

\* The record position i of the index leads to.
At(c, i) == log[slots[c][i].at]

\* ensureIDTable: one row per document, from reading all of them.
RowsOf(c) == {[fp |-> Fp[At(c, i).id], pos |-> i] : i \in DOMAIN slots[c]}
Table(c) ==
    IF built[c] THEN ids[c]
    ELSE RowsOf(c)

NoTable(c) == ~built[c] /\ \E i \in DOMAIN slots[c] : Unreadable(At(c, i))

\* Mutant of Lookup: a fingerprint match is taken for a match.
LookupUnverified(c, i) ==
    {r.pos : r \in {r \in Table(c) : r.fp = Fp[i] /\ ~Marked(slots[c][r.pos])}}

\* lookupID: rows of the right fingerprint, not marked, verified by reading the
\* document.
Lookup(c, i) ==
    {r.pos : r \in {r \in Table(c) :
        /\ r.fp = Fp[i]
        /\ ~Marked(slots[c][r.pos])
        /\ ~Unreadable(At(c, r.pos))
        /\ At(c, r.pos).id = i}}

\* A row of the right fingerprint leads to a document that cannot be read.
LookupFails(c, i) ==
    \E r \in Table(c) :
        r.fp = Fp[i] /\ ~Marked(slots[c][r.pos]) /\ Unreadable(At(c, r.pos))

\* The slots that stay when those at the positions in gone are taken out, and
\* where each of them ends up.
Kept(c, gone) == {i \in DOMAIN slots[c] : i \notin gone}
NewPosition(c, gone, i) == Rank(Kept(c, gone), i)

Removed(c, gone) == Picked(slots[c], Kept(c, gone))

\* Mutant of Remapped: rows of the documents that stay keep their positions.
RemappedNot(c, gone) == {r \in ids[c] : r.pos \notin gone}

\* Mutant of Remapped: rows of the documents that go are kept.
RemappedAll(c, gone) ==
    {[fp |-> r.fp, pos |-> NewPosition(c, gone, r.pos)] : r \in ids[c]}

\* remapIDTable: rows of removed slots go, the others follow their slot.
Remapped(c, gone) ==
    {[fp |-> r.fp, pos |-> NewPosition(c, gone, r.pos)] :
        r \in {r \in ids[c] : r.pos \notin gone}}

-----------------------------------------------------------------------------
\* Reading

\* The inserts of a collection as a pass over the file meets them.
Inserts(c, n) == {k \in 1..n : log[k].coll = c /\ log[k].op = "insert"}

FileOrder(c) == Picked(log, Inserts(c, Len(log)))

\* The read shape scanRecords picks: 0.4 is sequentialScanRatio.
Sequential(c) == ~dirty[c] /\ total > 0 /\ 5 * Len(slots[c]) >= 2 * total

Smallest(a, b) == IF a < b THEN a ELSE b

\* What a scan hands to its visitor, by position, as far as it gets: a marked
\* slot has an empty payload, which no visitor can decode.
Scan(c) ==
    IF Sequential(c)
    THEN LET s == FileOrder(c)
         IN  [i \in 1..Smallest(Len(s), Len(slots[c])) |-> DocOf(s[i])]
    ELSE LET readable == {n \in 0..Len(slots[c]) :
                             \A i \in 1..n : ~Marked(slots[c][i])}
         IN  [i \in 1..Max(readable) |-> DocOf(At(c, i))]

Matches(c, f) == {i \in DOMAIN Scan(c) : Scan(c)[i] \in f}

\* The scan stopped at a marked slot.
ScanFails(c) == ~Sequential(c) /\ \E i \in DOMAIN slots[c] : Marked(slots[c][i])

-----------------------------------------------------------------------------
\* Writing

\* syncIfNeeded, behind a write that failed or not.
SyncAfter(writeErr) ==
    \/ /\ SyncAlways
       /\ synced' = Len(log')
       /\ err' = writeErr
    \/ /\ SyncAlways /\ SyncErrors
       /\ err' = TRUE
       /\ UNCHANGED synced
    \/ /\ ~SyncAlways
       /\ err' = writeErr
       /\ UNCHANGED synced

Quiet == UNCHANGED <<torn, mode, at, pending>>

\* The call returns an error before it writes, possibly having built the table.
Refuse(c, withTable) ==
    /\ err' = TRUE
    /\ built' = [built EXCEPT ![c] = @ \/ withTable]
    /\ ids' = [ids EXCEPT ![c] = IF withTable THEN Table(c) ELSE @]
    /\ UNCHANGED <<log, synced, slots, dirty, dead, total>>
    /\ Quiet

\* New documents enter the index, and the table if it exists by now.
Publish(c, ds, withTable) ==
    LET has == built[c] \/ withTable
        old == Len(slots[c])
    IN  /\ log' = log \o [k \in DOMAIN ds |-> InsertRecord(c, ds[k])]
        /\ slots' = [slots EXCEPT ![c] = @ \o
             [k \in DOMAIN ds |-> [at |-> Len(log) + k, len |-> ValLen[ds[k].val]]]]
        /\ built' = [built EXCEPT ![c] = has]
        /\ ids' = [ids EXCEPT ![c] =
             IF has THEN Table(c) \cup {[fp |-> Fp[ds[k].id], pos |-> old + k] :
                                          k \in DOMAIN ds}
             ELSE @]
        /\ total' = total + Len(ds)
        /\ UNCHANGED <<dirty, dead>>

\* A generated _id is hexadecimal and 64 of its bits are random: one no record
\* carries.
Fresh(i) == Stored[i] = i /\ \A k \in DOMAIN log : log[k].id # i

\* Mutant of Taken: the table is consulted without making sure that it exists.
TakenIfBuilt(c, i) == built[c] /\ Lookup(c, i) # {}

Taken(c, i) == Lookup(c, i) # {}

Insert(c, d, supplied) ==
    /\ mode = "open"
    /\ Len(log) < MaxLog
    /\ ~supplied => Fresh(d.id)
    /\ IF supplied /\ NoTable(c)
       THEN Refuse(c, FALSE)
       ELSE IF supplied /\ (Taken(c, d.id) \/ LookupFails(c, d.id))
       THEN Refuse(c, TRUE)
       ELSE \/ WriteErrors /\ Refuse(c, supplied)
            \/ Publish(c, <<d>>, supplied) /\ SyncAfter(FALSE) /\ Quiet

\* Documents of one batch: sup[k] tells whether ds[k] came with its _id.
InsertMany(c, ds, sup) ==
    LET anySupplied == \E k \in DOMAIN ds : sup[k]
        duplicate == \E k \in DOMAIN ds :
            sup[k] /\ (\/ Taken(c, ds[k].id) \/ LookupFails(c, ds[k].id)
                       \/ \E j \in 1..(k - 1) : sup[j] /\ ds[j].id = ds[k].id)
    IN  /\ mode = "open"
        /\ Len(log) + Len(ds) <= MaxLog
        /\ \A k \in DOMAIN ds : ~sup[k] =>
             Fresh(ds[k].id) /\ \A j \in DOMAIN ds \ {k} : ds[j].id # ds[k].id
        /\ IF anySupplied /\ NoTable(c)
           THEN Refuse(c, FALSE)
           ELSE IF duplicate
           THEN Refuse(c, anySupplied)
           ELSE \E n \in 0..Len(ds) :
                  /\ n < Len(ds) => WriteErrors
                  /\ Publish(c, SubSeq(ds, 1, n), anySupplied)
                  /\ SyncAfter(n < Len(ds))
                  /\ Quiet

\* The call finds nothing to do, or fails before it writes.
ReturnUnchanged(failed) ==
    /\ err' = failed
    /\ UNCHANGED <<log, synced, slots, built, ids, dirty, dead, total>>
    /\ Quiet

\* What db.dead becomes when the document at pos is superseded.
Repoint(c, pos, v) == dead + Header + slots[c][pos].len

\* Mutant of DirtyAfterReplace: a replace leaves the sequential path open.
DirtyAfterReplaceNot(c) == dirty

DirtyAfterReplace(c) == [dirty EXCEPT ![c] = TRUE]

\* Replace, with sid the _id the replacement carries, if any.
Replace(c, f, sid, v) ==
    /\ mode = "open"
    /\ Len(log) < MaxLog
    /\ IF Matches(c, f) = {}
       THEN ReturnUnchanged(ScanFails(c))
       ELSE LET pos == Min(Matches(c, f))
                id == At(c, pos).id
            IN  IF Unreadable(At(c, pos)) \/ (sid # NoId /\ sid # id)
                THEN ReturnUnchanged(TRUE)
                ELSE \/ WriteErrors /\ ReturnUnchanged(TRUE)
                     \/ /\ log' = Append(log, ReplaceRecord(c, [id |-> id, val |-> v]))
                        /\ dead' = Repoint(c, pos, v)
                        /\ slots' = [slots EXCEPT ![c][pos] =
                                       [at |-> Len(log'), len |-> ValLen[v]]]
                        /\ dirty' = DirtyAfterReplace(c)
                        /\ UNCHANGED <<built, ids, total>>
                        /\ SyncAfter(FALSE)
                        /\ Quiet

\* Delete is limit 1, DeleteMany limit 0: every match.
Delete(c, f, limit) ==
    LET stopsEarly == limit = 1 /\ Matches(c, f) # {}
        found == IF stopsEarly THEN {Min(Matches(c, f))} ELSE Matches(c, f)
        victim(k) == Scan(c)[Nth(found, k)].id
    IN  /\ mode = "open"
        /\ Deletes
        /\ Len(log) + Cardinality(found) <= MaxLog
        /\ IF found = {} \/ (ScanFails(c) /\ ~stopsEarly)
           THEN ReturnUnchanged(ScanFails(c))
           ELSE \E n \in 0..Cardinality(found) :
                  LET gone == {Nth(found, k) : k \in 1..n}
                  IN  /\ n < Cardinality(found) => WriteErrors
                      /\ log' = log \o [k \in 1..n |-> Tombstone(c, victim(k))]
                      /\ dead' = dead + n * (Header + TombLen) +
                                   Total([k \in 1..n |-> Header + slots[c][Nth(found, k)].len], n)
                      /\ slots' = [slots EXCEPT ![c] = Removed(c, gone)]
                      /\ ids' = [ids EXCEPT ![c] = IF built[c] THEN Remapped(c, gone) ELSE @]
                      /\ total' = total - n
                      /\ dirty' = [dirty EXCEPT ![c] = @ \/ n > 0]
                      /\ UNCHANGED built
                      /\ SyncAfter(n < Cardinality(found))
                      /\ Quiet

\* DB.Sync.  LogFile says when it has something to flush.
Sync ==
    /\ mode = "open"
    /\ \/ synced' \in {synced, Len(log)} /\ err' = FALSE
       \/ SyncErrors /\ err' = TRUE /\ UNCHANGED synced
    /\ UNCHANGED <<log, torn, mode, at, pending>>
    /\ UNCHANGED index
    /\ UNCHANGED counters

-----------------------------------------------------------------------------
\* Closing, crashing, opening

Gone == EmptyMemory /\ at' = 0 /\ pending' = {} /\ err' = FALSE

\* LogFile says when it flushes.
Close ==
    /\ mode = "open"
    /\ mode' = "down"
    /\ synced' \in {synced, Len(log)}
    /\ UNCHANGED <<log, torn>>
    /\ Gone

\* A kill keeps the whole log, a power cut what the fsyncs covered and maybe
\* more.
Crash ==
    /\ mode \in {"open", "replay", "down"}
    /\ mode' = "down"
    /\ \E n \in synced..Len(log) : log' = SubSeq(log, 1, n)
    /\ torn' \in (IF TornTails THEN BOOLEAN ELSE {FALSE})
    /\ UNCHANGED synced
    /\ Gone

Open ==
    /\ mode = "down"
    /\ mode' = "replay"
    /\ UNCHANGED file
    /\ Gone

Replaying == mode = "replay" /\ at < Len(log)
Next1 == log[at + 1]

\* The record replay is at is applied.
Applied ==
    /\ at' = at + 1
    /\ UNCHANGED file
    /\ UNCHANGED <<mode, err>>

\* The file disagrees with itself: Open returns ErrCorrupt.
Refused ==
    /\ mode' = "corrupt"
    /\ UNCHANGED file
    /\ Gone

\* Mutant of RowsAfterInsert: replay leaves the table as it was built.
RowsAfterInsertNone(c, r) == ids[c]

\* payloadID or ensureIDTable fails on what replay has to read to apply r.
Undecodable(c, r) == Unreadable(r) \/ NoTable(c) \/ LookupFails(c, r.id)

RowsAfterInsert(c, r) ==
    IF built[c] THEN ids[c] \cup {[fp |-> Fp[r.id], pos |-> Len(slots[c]) + 1]}
    ELSE ids[c]

ReplayInsert ==
    LET r == Next1
        c == r.coll
    IN  /\ Replaying
        /\ r.op = "insert"
        /\ \/ /\ built[c] /\ Unreadable(r)
              /\ Refused
           \/ /\ ~(built[c] /\ Unreadable(r))
              /\ slots' = [slots EXCEPT ![c] = Append(@, [at |-> at + 1, len |-> PayloadLen(r)])]
              /\ ids' = [ids EXCEPT ![c] = RowsAfterInsert(c, r)]
              /\ total' = total + 1
              /\ UNCHANGED <<built, dirty, dead, pending>>
              /\ Applied

\* applyReplay: the document keeps its slot, so the table needs no change.
ReplayReplace ==
    LET r == Next1
        c == r.coll
    IN  /\ Replaying
        /\ r.op = "replace"
        /\ \/ /\ Undecodable(c, r) \/ Lookup(c, r.id) = {}
              /\ Refused
           \/ \E pos \in Lookup(c, r.id) :
                /\ ~Undecodable(c, r)
                /\ slots' = [slots EXCEPT ![c][pos] = [at |-> at + 1, len |-> PayloadLen(r)]]
                /\ built' = [built EXCEPT ![c] = TRUE]
                /\ ids' = [ids EXCEPT ![c] = Table(c)]
                /\ dead' = dead + Header + slots[c][pos].len
                /\ dirty' = [dirty EXCEPT ![c] = TRUE]
                /\ UNCHANGED <<total, pending>>
                /\ Applied

\* Mutant of TombstoneCost: the tombstone itself is not counted.
TombstoneCostNone(c, pos) == Header + slots[c][pos].len

\* Both the document and its tombstone are garbage from here on.
TombstoneCost(c, pos) == 2 * Header + slots[c][pos].len + TombLen

\* applyDeleteReplay: the slot is marked and its row stays.
ReplayDelete ==
    LET r == Next1
        c == r.coll
    IN  /\ Replaying
        /\ r.op = "delete"
        /\ \/ /\ Undecodable(c, r) \/ Lookup(c, r.id) = {}
              /\ Refused
           \/ \E pos \in Lookup(c, r.id) :
                /\ ~Undecodable(c, r)
                /\ slots' = [slots EXCEPT ![c][pos].len = 0]
                /\ built' = [built EXCEPT ![c] = TRUE]
                /\ ids' = [ids EXCEPT ![c] = Table(c)]
                /\ dead' = dead + TombstoneCost(c, pos)
                /\ dirty' = [dirty EXCEPT ![c] = TRUE]
                /\ total' = total - 1
                /\ pending' = pending \cup {c}
                /\ Applied

\* compactMarkedSlots: the marked slots come out in one pass.
Marks(c) == {i \in DOMAIN slots[c] : Marked(slots[c][i])}

\* The walk has come to the end of an undamaged file.
ReplayEnd ==
    /\ mode = "replay"
    /\ at = Len(log)
    /\ ~torn
    /\ mode' = "open"
    /\ slots' = [c \in Coll |-> IF c \in pending THEN Removed(c, Marks(c)) ELSE slots[c]]
    /\ ids' = [c \in Coll |-> IF c \in pending THEN Remapped(c, Marks(c)) ELSE ids[c]]
    /\ pending' = {}
    /\ UNCHANGED <<at, built, dirty, dead, total, err>>
    /\ UNCHANGED file

\* The walk has met the torn tail.  truncateTail is the return value of replay,
\* so the second phase does not run.
ReplayTruncate ==
    /\ mode = "replay"
    /\ at = Len(log)
    /\ torn
    /\ torn' = FALSE
    /\ synced' = Len(log)
    /\ mode' = "open"
    /\ pending' = {}
    /\ UNCHANGED <<log, at, err>>
    /\ UNCHANGED index
    /\ UNCHANGED counters

-----------------------------------------------------------------------------
Batches(S) == UNION {[1..n -> S] : n \in 1..MaxBatch}

Next ==
    \/ \E c \in Coll, d \in Doc, supplied \in BOOLEAN : Insert(c, d, supplied)
    \/ \E c \in Coll, ds \in Batches(Doc) :
         \E sup \in [DOMAIN ds -> BOOLEAN] : InsertMany(c, ds, sup)
    \/ \E c \in Coll, f \in Filters, sid \in Id \cup {NoId}, v \in Val : Replace(c, f, sid, v)
    \/ \E c \in Coll, f \in Filters, limit \in {0, 1} : Delete(c, f, limit)
    \/ Sync
    \/ Close
    \/ Crash
    \/ Open
    \/ ReplayInsert
    \/ ReplayReplace
    \/ ReplayDelete
    \/ ReplayEnd
    \/ ReplayTruncate

Spec == Init /\ [][Next]_vars

-----------------------------------------------------------------------------
\* Reference definitions, over the log alone

\* What one record does to the documents of its collection.
ApplyTo(ds, r) ==
    CASE r.op = "insert"  -> Append(ds, DocOf(r))
      [] r.op = "replace" -> [i \in DOMAIN ds |-> IF ds[i].id = r.id THEN DocOf(r) ELSE ds[i]]
      [] r.op = "delete"  -> Picked(ds, {i \in DOMAIN ds : ds[i].id # r.id})

\* The documents of c after each of the records, and after the first n of the file.
DocsOf(recs, c) ==
    LET after[k \in 0..Len(recs)] ==
          IF k = 0 THEN <<>>
          ELSE IF recs[k].coll = c THEN ApplyTo(after[k - 1], recs[k])
          ELSE after[k - 1]
    IN  after

DocsAfter(c, n) == DocsOf(log, c)[n]

\* The bytes of those of the first n records whose numbers are in S.
BytesOf(recs, S, n) == Total([k \in 1..n |-> IF k \in S THEN Bytes(recs[k]) ELSE 0], n)

About(r, c, i) == r.coll = c /\ r.id = i

\* ScanLive, after each of the records: the numbers of the live ones, one to an
\* _id of a collection, and the bytes of what was superseded.
Scanned(recs) ==
    LET after[n \in 0..Len(recs)] ==
          IF n = 0 THEN [live |-> {}, dead |-> 0]
          ELSE LET r == recs[n]
                   before == after[n - 1]
                   prev == {k \in before.live : About(recs[k], r.coll, r.id)}
               IN  IF Unreadable(r) THEN before
                   ELSE [live |-> (before.live \ prev)
                                    \cup (IF r.op = "delete" THEN {} ELSE {n}),
                         dead |-> before.dead + BytesOf(recs, prev, n - 1)
                                    + (IF r.op = "delete" THEN Bytes(r) ELSE 0)]
    IN  after

\* nsq stat: the first pass counts inserts, and only a file that supersedes
\* something is walked again, by ScanLive.
Superseded == \E k \in DOMAIN log : log[k].op # "insert"

StatDead == IF Superseded THEN Scanned(log)[Len(log)].dead ELSE 0

StatLive(c) ==
    LET live == IF Superseded THEN {k \in Scanned(log)[Len(log)].live : log[k].coll = c}
                ELSE Inserts(c, Len(log))
    IN  <<Cardinality(live), BytesOf(log, live, Len(log))>>

\* What an open database shows: the documents its index leads to, without slots
\* that are marked as removed.
LiveSlots(c) == Picked(slots[c], DOMAIN slots[c] \ Marks(c))
Shown(c) == [i \in DOMAIN LiveSlots(c) |-> DocOf(log[LiveSlots(c)[i].at])]

-----------------------------------------------------------------------------
\* Properties

\* The index of an open database leads to exactly the documents a fold over the
\* file yields, in insertion order, and its lengths are those of the records,
\* however the records came about: operations that failed half way, batches cut
\* short, replay of any of it.
IndexIsFold ==
    mode = "open" =>
        \A c \in Coll :
           /\ Shown(c) = DocsAfter(c, Len(log))
           /\ \A s \in ToSet(LiveSlots(c)) : s.len = PayloadLen(log[s.at])

\* A built _id table has exactly one row per document, at the document's
\* position: no row is stale after a removal has shifted the slots, and none is
\* missing, so the duplicate check and replay resolve every _id.  Other rows lead
\* to marked slots.
TableExact ==
    mode = "open" =>
        \A c \in Coll : built[c] =>
           {r \in ids[c] : r.pos \notin Marks(c)} =
             {[fp |-> Fp[At(c, i).id], pos |-> i] : i \in DOMAIN slots[c] \ Marks(c)}

\* No two documents of a collection carry the same _id.
UniqueIds ==
    mode = "open" =>
        \A c \in Coll : \A i, j \in DOMAIN slots[c] \ Marks(c) :
           At(c, i).id = At(c, j).id => i = j

\* What nsq stat reports of the file alone, the dead bytes and the documents and
\* live bytes of every collection, is what the open database has counted and
\* indexed, whatever operations, failures and replays led there.
StatAgrees ==
    mode = "open" =>
        /\ dead = StatDead
        /\ \A c \in Coll :
             StatLive(c) =
               <<Len(Shown(c)),
                 Total([i \in DOMAIN LiveSlots(c) |-> Header + LiveSlots(c)[i].len],
                       Len(LiveSlots(c)))>>

\* Whichever read shape a scan picks, it finds the same documents in the same
\* order; one that meets a marked slot fails, and has shown none that it should not.
ScansAgree ==
    mode = "open" =>
        \A c \in Coll : IF ScanFails(c) THEN IsPrefix(Scan(c), Shown(c)) ELSE Scan(c) = Shown(c)

\* Open never refuses a file whose records this program wrote.
NeverCorrupt == mode # "corrupt"

\* index.go: "Published arrays never hold one", a slot marked by replay.
PublishedArraysHoldNoMark ==
    mode = "open" => \A c \in Coll : \A i \in DOMAIN slots[c] : ~Marked(slots[c][i])

\* docs/records.md: the index is changed only after the write and the fsync
\* succeeded, so a call that returned an error has changed no document.
ErrorMeansNoEffect ==
    [][ (mode = "open" /\ mode' = "open" /\ err') =>
          \A c \in Coll : DocsAfter(c, Len(log)) = DocsAfter(c, Len(log))' ]_vars

-----------------------------------------------------------------------------
\* Inductive invariants

\* How many records of the log the index reflects.
Upto == IF mode = "open" THEN Len(log) ELSE at

\* After the first n of these records, collection c has a document i.
Alive(recs, c, i, n) ==
    \E k \in 1..n :
        /\ About(recs[k], c, i) /\ recs[k].op # "delete"
        /\ \A j \in (k + 1)..n : ~(About(recs[j], c, i) /\ recs[j].op = "delete")

\* Inserts bring new documents, and replaces and deletes are about documents that
\* are there.
LogInv ==
    \A k \in DOMAIN log :
        Alive(log, log[k].coll, log[k].id, k - 1) <=> log[k].op # "insert"

\* Each slot leads to a record of its collection that made a document.
SlotInv(c) ==
    \A i \in DOMAIN slots[c] :
        /\ slots[c][i].at \in 1..Upto
        /\ At(c, i).coll = c
        /\ At(c, i).op # "delete"

\* Those that are not marked lead to the documents there are, one to each.
HoldsInv(c) ==
    LET live == DOMAIN slots[c] \ Marks(c)
    IN  /\ \A i \in Id : Alive(log, c, i, Upto) <=> \E k \in live : At(c, k).id = i
        /\ \A i, j \in live : At(c, i).id = At(c, j).id => i = j

\* The table has a row for every slot, marked or not, and no other.
RowsInv(c) == built[c] => ids[c] = RowsOf(c)

\* While nothing was superseded the index lists the inserts of the file in order.
OrderInv(c) ==
    ~dirty[c] =>
        /\ Marks(c) = {}
        /\ {slots[c][i].at : i \in DOMAIN slots[c]} = Inserts(c, Upto)
        /\ \A i, j \in DOMAIN slots[c] : i < j => slots[c][i].at < slots[c][j].at

\* What it leads to, without the marked slots, is what the records make, and the
\* lengths are those of the records.
FoldInv(c) ==
    /\ Shown(c) = DocsAfter(c, Upto)
    /\ \A i \in DOMAIN slots[c] \ Marks(c) : slots[c][i].len = PayloadLen(At(c, i))

CollInv(c) == SlotInv(c) /\ HoldsInv(c) /\ RowsInv(c) /\ OrderInv(c) /\ FoldInv(c)

IInv == LogInv /\ \A c \in Coll : CollInv(c)

\* Of the first n records, those that made a document and that nothing superseded.
Live(recs, n) ==
    {k \in 1..n :
        /\ recs[k].op # "delete"
        /\ \A j \in (k + 1)..n : ~About(recs[j], recs[k].coll, recs[k].id)}

\* The counters say what ScanLive finds in the records the index reflects.
CountInv ==
    /\ total = Cardinality(Live(log, Upto))
    /\ Odd = {} => dead = Scanned(log)[Upto].dead
=============================================================================
