# nosqlite: models, checks and proofs

nosqlite is an embedded document store: a Go package (`store.go`, `collection.go`,
`index.go`, `nosqlite.go`, `scan.go`, `catalog.go`, `query.go`, `trace.go`,
`id.go`, `internal/engine/`), a C interface over it (`capi/`), Python and
TypeScript bindings over that, and the command line tool `nsq`. This directory
holds TLA+ modules that model it, TLC configurations that check them on small
instances, and TLAPS proofs about the file layer, the collections with their
counters and what they promise, the scans, the `_id` table, the catalog, the
trace, the handle registry, the order of values, the queries and the paging
iterators. `PROJECT.json` ties every
definition to the lines it models and every property to a mutation of the model
that breaks it.

Paths below are relative to `src/`.

## 1. The system

### Components, their state and operations

| component | state | operations | models |
|---|---|---|---|
| record log (`store.go`, `nosqlite.go`) | the file, `db.size`, `db.needSync` | `appendRecord`, `appendBatch`, `syncIfNeeded`, `Sync`, `Close`, `Open` with `replay` and `truncateTail` | `LogFile`, `LogFileProofs`, `DurableLog`, `LogFileRefinement`, `MCLogFile` |
| collections (`collection.go`, second half of `store.go`) | per collection the slots (offset, length), the `_id` table, `dirty`; `db.dead`, `db.docs` | `Insert`, `InsertMany`, `Replace`, `Delete`, `DeleteMany`, replay of every record kind | `DocStore`, `DocStoreProofs`, `AbstractStore`, `DocStoreRefinement`, `MCDocStore` |
| index arrays and scans (`index.go`, `scan.go`) | `c.offsets`, `c.lengths` over shared backing arrays | `appendIndex`, `replaceIndex`, `removeIndex`, `snapshot`, the strided and the sequential read shape | `SnapshotScan`, `SnapshotScanProofs` |
| `_id` table (`index.go`) | slots of fingerprint and position, built at the first use | insert, lookup, remapping after removals, growth | slot by slot in `IdTable`, `IdTableProofs`; what it holds, and lookups that verify, in `DocStore` |
| catalog (`catalog.go`, `DB.Collection`) | `db.catalog`, `db.byID`, `db.nextID` | lookup, creation with its define record, replay | `Catalog`, `CatalogProofs` |
| query execution (`scan.go`, `query.go`, `internal/engine/sort.go`) | the bounded heap, or all matches | `runUnsorted`, `runSorted`, `TopK` | `QueryExec`, `QueryEngine`, `QueryProofs`, `MCQueryExec` |
| value order (`internal/engine/compare.go`) | none | `compare`, `equalValues` | `Values`, `Ranking`, `QueryProofs` |
| filters (`internal/engine/compile.go`, `match.go`) | the compiled tree | `CompileFilter`, `Match` | `Filter` |
| projection (`internal/engine/projection.go`) | the tree of named paths | `CompileProjection`, `Apply` | `Projection` |
| trace file (`trace.go`) | `db.trace`, `t.seq`, `t.written`, `t.truncated` | `next`, `emit`, `close` | `Tracer`, `TracerProofs` |
| handle registry (`capi/capi.go`) | the map of numbers to handles, `refs`, `closed`, one mutex and one condition variable | `nsq_open`, acquire and release of every data call, `nsq_close` | `Handles`, `HandlesProofs` |
| bindings (`python/`, `typescript/`) | a paging iterator's offset and page | `iter_find`, `iterFind` | `Paging`, `QueryProofs` |
| file header (`store.go`, `Open`) | the first 32 bytes | `writeFileHeader`, `readFileHeader` | `Catalog` |
| offline walk (`store.go`), `nsq` (`cmd/nsq/`) | none | `WalkFile`, `ScanLive`, `verify`, `stat` | `WalkFile`, `DocStore` |
| `_id` generation (`id.go`) | none | `newID` | its freshness in `DocStore` |

### How they interact

A writing call takes `db.mu` for writing, looks its documents up in the index
and the `_id` table, appends one record or a batch with one `WriteAt` behind
`db.size`, moves `db.size` past what landed, changes the index, and fsyncs if
the database was opened with `SyncAlways`. A query takes the lock for reading
only to copy two slice headers and `db.size`; it then reads the arrays and the
file with no lock, beside writers, and calls back into its visitor, which may
write. `Open` has the file to itself, replays its records into index, tables,
catalog and counters, and truncates a torn tail. The C interface counts the
calls inside each database so that `nsq_close` can wait for them. The bindings'
iterators are sequences of independent queries. `nsq` reads a file with code of
its own, beside replay, which has to come to the same conclusions.

### What is hard

- **Crashes**: a `WriteAt` stops in the middle of a record or batch; a power cut
  takes unsynced records away; replay has to find the end of what is good and
  rebuild every derived structure as the live code would have left it.
- **Partial failure**: a write that stops part way, an fsync that fails behind a
  write that worked.
- **Interleaving**: scans read shared arrays while they are appended to or
  replaced; two goroutines create one collection; a close meets calls inside;
  tracing runs outside `db.mu`.
- **Long legal sequences**: the `_id` table comes into being in the middle of a
  life or of a replay; removals shift positions; an `_id` is deleted and
  inserted again; fingerprints collide.
- **Limits**: ids of collections run out, `Skip+Limit` wraps, the trace cap, a
  hash table that wraps around and grows.
- **Meaning**: filters and projections whose paths run through arrays or contain
  one another, and comparisons across kinds of values.

`PROJECT.json` lists each of these under `hazards`, at its line, with the
properties that would catch it going wrong.

### What makes each component correct

- *Record log*: what an fsync covered is never lost; the index names exactly the
  good records; bytes a reader may read are never written again; Open accepts
  what this program wrote.
- *Collections*: the documents an open database shows are a fold over the file;
  `_id`s are unique; every derived number and table agrees with the file;
  seen from outside each call is atomic.
- *Scans*: a scan sees its snapshot, whole, and nothing newer; nobody waits
  forever.
- *Catalog*: one id per name and one name per id, across races and restarts.
- *Handles*: no call is inside a database that is being closed; closes return.
- *Trace*: the cap holds and writers' lines are in order.
- *Queries and pages*: a filter matches what it means or is refused; a page is
  the right part of the ordered matches; a projection returns what was asked for;
  paging ends and leaves nothing out.
- *`nsq`*: `verify` reports every torn record and bad checksum that would stop a
  replay, and nothing on a file whose end replay reaches; `stat` reports what the
  open database would.

## 2. The modules and the code

**`LogFile`** is the file as a sequence of cells, the unit in which a write
lands: a record is a header cell and its payload cells. `file` is the page
cache, `disk` what a power cut cannot touch. `AppendRecord` and `AppendBatch`
begin a `WriteAt`, `LandCell` lets one more cell of it land, `WriteDone` and
`WriteFails` are its return; `SyncIfNeeded`, `Sync` and `Close` are the fsyncs;
`Kill` and `PowerCut` end the process anywhere, also inside a write or a replay;
`Open`, `ReplayAccept`, `ReplayEOF`, `TruncateTail`, `TruncateSync` and
`ReplayCorrupt` are `DB.replay`, one record per step. `pc` is the program
counter of whoever holds `db.mu`. Two ghosts serve the properties: `promised`,
the index as of the last good fsync, and `opened`, what the last Open found.

**`DurableLog`** is what the file layer promises: a sequence of records, a
durable prefix, the records readers are shown. `LogFileRefinement` maps `LogFile`
to it: the log is what an Open of the present cells would find (`Found`), as much
of it is synced as is promised, and the view is the index.

**`WalkFile`** extends `LogFile` with the walk of `nsq verify` as a function of
the cells: it reads every payload, goes on behind a bad checksum and reports a
torn tail, where replay truncates or refuses. `VerifySeesDamage` sets the two
side by side in every state of a replay, as far as framing and checksums go. It does
not say that Open succeeds on a file `verify` finds nothing wrong with: replay's
dispatch (`store.go:410-471`) also refuses records whose bytes are intact, for what
they say, and the walk looks at none of that. Those refusals, as far as this program
writes such records, are in `DocStore` and `Catalog` (see section 6).

**`DocStore`** takes the file as a sequence of whole records, with at most one
torn behind them, which `LogFile` justifies. A call is one step, as it
holds `db.mu` from its first look to its return; the step chooses how much of
a batch landed and whether the fsync worked. `Insert`, `InsertMany`, `Replace`
(with its `_id` rules), `Delete` (one or many), `Sync`, `Close`, `Crash`, `Open`
and five replay actions, one record per step, keep `slots`, `ids`, `built`,
`dirty`, `dead` and the counters as the code does, including the marks of
length 0 replay leaves in slots of deleted documents until its second phase
removes them. A filter is the set of documents it matches. `Scanned` is the walk of
`ScanLive` over the records alone, `StatLive` and `StatDead` what `nsq
stat` makes of it, including the shortcut for files that supersede nothing.

**`IdTable`** has the hash table slot by slot: where a walk begins, which slot an
entry takes, growth, the rebuild after removals, and when the collection builds
the table. `LookupIsExact` is what justifies the set of rows in `DocStore`. `IInv`
is its inductive invariant.

**`AbstractStore`** is what a caller is promised: documents in order per
collection, each call all or a prefix of its batch, and a crash going back to
some state behind the last fsync. `DocStoreRefinement` maps `DocStore` to it: the
history holds what the file held after each record since the last fsync, and what
is shown is what the index of an open database leads to.

**`SnapshotScan`** goes below the lock: writers and scans of one collection, with
one step per access to shared memory. `heap` holds the backing arrays, so that an
append within capacity writes into the array a reader holds and a growing one
does not; offsets and lengths are separate arrays read one after the other;
half-written records lie behind `db.size`. `Close` may come in at any point where
the lock is free: scans then fail at their next read (`FailRead`), writers that
were waiting return (`MayWrite`).

**`Catalog`** splits `DB.Collection` at the point where the read lock is given up
and the write lock taken, with the define record, its fsync and its replay. In
front of the records it has the header: `WriteFileHeader` and `CreateFile` are
the two halves of an Open that finds an empty file, `Remains` what a crash
leaves, `Open` what `readFileHeader` makes of it. `ReplayRecord` is one turn of
replay's loop, so that a crash may also come in the middle of an Open.

**`Handles`** has one action per stretch of code under `registryMu`.
**`Tracer`** has one action per use of `db.trace` or of the tracer's mutex, for each
line a call traces, and `Open`, which traces alone.
**`Paging`** is the client loop, one action per page and per document, beside
actions of other clients.

**`Values`** has the values a document can hold and `compare`. A JSON value is a
tuple that begins with its kind. `compare` recurses into arrays and objects; here
the order over values nested no deeper than `n` is made from the one for `n - 1`
(`CompareBy`), up to `Depth`. **`Ranking`** counts through finite sets of numbers:
sorted keys, and the matches of `Paging`.

**`QueryExec`** is a query: it compiles the filter and the projection, then scans,
one document per step, into the page, the bounded heap (Go's `container/heap`, by
sift-up and sift-down) or the list, and hands out the page. What filters and
projections do are constant operators (`FilterOf`, `Passes`, `Projected`, ...), so that
what is proved of a query holds for any of them. `sort.SliceStable` is modelled by
its contract.

**`Filter`** has the compiler, which turns a filter into a tree or refuses it, and
`Match` over that tree; its reference, `Means`, reads the filter document itself
and says which places of a document a path leads to (`Places`, `Leads`) without
walking it as `collectPath` does. **`Projection`** has the tree of named paths and
`Apply`; its reference, `Wanted`, is the set of scalars a caller is to get.
**`QueryEngine`** is `QueryExec` together with these two. `MCQueryExec` has the
vocabulary, and tables of what these two make of each filter, projection and document
in it (`Met`: `CompileDocument`, `Match`, `Means`, `CompileProjection`, `Apply`,
`SortKey`), which the configurations give to the constants of `QueryExec`; a run works
each entry out once instead of at every step.

## 3. The runs

| run | module | what it shows |
|---|---|---|
| `log` | `MCLogFile` | with crashes anywhere, power cuts, failing writes and fsyncs: the invariant of the proofs (`IInv`), `AppendOnly`, that `nsq verify` and replay agree on what is torn and what is damaged, and that the file layer implements `DurableLog` |
| `log_fast` | `MCLogFile` | under `SyncNever` and `WithFastOpen`, with working system calls: `Durable`, `IndexTilesFile`, `NeverRefused`, `CloseFlushes` |
| `docs` | `MCDocStore` | all operations on one collection, colliding fingerprints, failures, crashes between records and inside them: index, table, counters, read shapes and `nsq stat` agree with the file; `_id`s are unique; `AbstractStore` is implemented |
| `docs_marks` | `MCDocStore` | violation: marked slots in the published arrays after a torn tail |
| `scan` | `SnapshotScan` | `ScanIsSnapshot`, `OneRule` of `index.go`, that nothing is written after a Close, and that every call returns |
| `catalog` | `Catalog` | racing creations, either sync mode at each Open, lost define records, crashes in the middle of a replay, ids that run out; a database once created survives |
| `catalog_twice` | `Catalog` | violation: a creation tried again after a failed fsync makes the file unreadable |
| `handles` | `Handles` | the invariant of the proofs (`IInv`); no use after close; every close returns |
| `trace` | `Tracer` | the cap of a run and the order of writers' lines |
| `paging` | `Paging` | iteration ends whatever others write; pages are stable while the matches only grow at their end |
| `query` | `MCQueryExec` | filters against their meaning, projections against what was asked for, page and heap against the reference order, and that sort keys are in one total order |
| `id_table` | `IdTable` | a lookup finds exactly the documents of a fingerprint; the table is never more than half full |

### Bounds, and why they are enough

- `log`, `log_fast`: three records in the file, batches of two, payloads of one,
  three and one cells. That is a batch behind a record, or a record behind the
  remains of a longer one that failed, each torn at every cell. The invariant
  relates neighbouring records and the tail only; the proofs remove the bound.
- `docs`: two `_id`s with one fingerprint, two values of different length, four
  records, batches of two. Four records hold the shortest life in which an `_id`
  is deleted and inserted again next to a second document and something happens
  after it. Two collections share nothing but the file and the counters;
  `DocStoreTorn.cfg` checks the same properties over two of them, without deletes,
  and takes half a minute. Deletes in front of a torn tail are the subject of
  `docs_marks`.
- `scan`: two goroutines, each of which scans, writes and closes, three records. Go's
  growth of a slice from one to two to four elements happens within three
  records, so appends within capacity and beyond it both occur under a reader.
- `catalog`: ids 1 and 2 and the wrap to 0, three names, four records; the proofs
  remove the bounds.
- `handles`: four threads and two databases: two calls inside and two closes, on
  the shared condition variable. `trace`: three goroutines, two
  Opens, a cap of three bytes and lines of one or two, four numbers for each
  Open; behaviours end at the bound, which is why that configuration allows
  deadlock.
- `paging`: four documents, pages of one or two, a skip of zero or one.
- `query`: an int of five bits, of which only the sum of skip and limit could come near
  the end; one collection whose documents hold every kind of value under the
  field `a`, arrays in arrays and objects in arrays among them; every operator
  with operands of every kind, fitting and not, on five paths, with a sample of
  conjunctions, disjunctions and negations; every way to keep or drop any of six
  fields whose paths contain one another. Pages: up to three documents with two
  values in each of two fields, none, one or two keys in either direction, skip
  and limit up to two: every tie pattern at both edges of the page.
- `id_table`: five documents, four fingerprints of which two share their slot in a
  table of four slots and others wrap around, a table that begins with two slots
  (16 in the code) so that it grows twice.

### Fairness

- `SnapshotScan`: weak fairness of a goroutine's steps inside a call, since the
  Go scheduler runs every runnable goroutine and no step waits except for
  `db.mu`; strong fairness of taking `db.mu`, since `sync.RWMutex` blocks new
  readers behind a waiting writer and hands the lock over. Beginning a call has
  none.
- `Handles`: weak fairness of each thread inside the C interface: data calls end,
  and Go's mutex and `Cond.Broadcast` wake every waiter.
- `Paging`: the client keeps asking. The others need not stop, but the bound on
  documents means they cannot insert forever; so what is shown is that replaces,
  deletes and the rule for the last page never make the loop run on.

## 4. What is proved

`LogFileProofs` proves, for every set of records, every payload length and every
bound:

- `TypeCorrect`: `Spec => []TypeOK`, under every option;
- `Invariance`, `DurableTheorem`, `IndexTheorem`, `AppendOnlyTheorem`: `IInv`,
  `Durable`, `IndexTilesFile` and `AppendOnly`, if `~FastOpen \/ ~WriteErrors`;
- `NeverRefusedTheorem`: `Spec => []NeverRefused`, if `~WriteErrors`;
- `CloseFlushesTheorem`: `Spec => []CloseFlushes`, if `~SyncErrors`.

The conditions are needed: each excludes a behaviour the code has, and for the
last two section 6 has the configuration that shows it. `Durable` alone is not
inductive: it speaks of an open database, and replay starts from the bytes. The
invariant is `IInv`, four parts:

- `TypeInv`: the types, with the offsets inside the file;
- `PromisedInv`: what was promised is intact *in the file and on the device*, at
  all times, also while the process is down. A power cut splices the two;
- `IndexInv`: the index, complete or being rebuilt, is a run of intact records
  from the first byte, agrees with what was promised, and ends at the append
  point or at replay's cursor;
- `WriteInv`: what a write has landed lies behind the index, intact.

The argument at the core: replay cannot stop inside the promised prefix, since
each record of it is intact where the previous one ends, so neither
`Misframed` nor `BadChecksum` can hold there; and no write starts below the end
of the index, which covers the promise. Of replay's steps only the one that
accepts a record needs a condition, that the record is intact. A checksum shows it
when payloads are read. When they are skipped, the remains of a failed write may
be accepted in place of a good record; without failed writes `TailInv` excludes
that: the device holds a first part of the page cache, every header in the file is
followed by the payload of its record as far as the file goes (`Framed`), and a
power cut, a truncation and a cell that lands keep it so. `TailInv` also shows that
a bad checksum is never met in the middle of the file, which is `NeverRefused`.
`CloseFlushes` needs none of this, only `FlushInv`: records are flushed or
`needSync` is set.
Lemmas about intactness under appends, overwrites behind a record, cuts and
splices (`TiledFrom`, `Intact`, `AllIntact`, `Agree`) carry the steps.

The assumptions are those of `LogFile`: `PayloadCells \in [Record -> Nat \ {0}]`,
`Insert \subseteq Record`, Boolean options, natural bounds.

`ImplementsTheorem`, in the same module, is `Spec => ImplementsDurableLog`, if
`~FastOpen \/ ~WriteErrors`. `LogInv` says which records the file and the device
hold: runs of intact records with *no last cell of a record behind them*
(`NoneEnds`), whatever remains of failed writes and cuts may stand there; the
device holds a first part of the file's, everything promised is in that, and the
index is all of the file's, or what replay has come past. Since a whole record
ends in its last cell, a run of intact records from the first byte is always a
first part of what is held (`RunBegins`), and replay can stop only at its end
(`NothingBehind`). A power cut keeps the records up to the first that lost a cell:
a last cell behind that one would end a record whose cells were all spared. Each
step then is one of `Moves`, an action of `DurableLog` in terms of what is held
before and after. That `Found` finds what is held is shown by a minimal
counterexample; that the recursive function behind it satisfies its own equation
(`FoundStep`) is proved too, by building its values from the end of the file on.

`VerifySeesDamageTheorem`, under the same condition, sets `nsq verify` beside the
framing and checksums of replay. `WalkAlong` shows for every entry the replay has accepted that the walk of
the file has it too and goes on at its end; from the cursor on both look at the same
header, and `IInv` says that the entries accepted are intact.

`DocStoreProofs` proves, for any collections, documents, fingerprints and lengths,
any filters, and whatever options are set, first of the index and the tables:

- `UniqueIdsTheorem`, `TableExactTheorem`: `UniqueIds` and `TableExact`, if
  `StoredSame`, that JSON carries every `_id` as it was given;
- `IndexIsFoldTheorem`, `ScansAgreeTheorem`: `IndexIsFold` and `ScansAgree`, under
  the same condition;
- `NeverCorruptTheorem`: `NeverCorrupt`, if also `Odd = {}`, that no document has a
  second key that `payloadID` would take for its `_id`;
- `IInvTheorem`: `Spec => [](Types /\ IInv)`, if `StoredSame`.

Section 6 has the configurations that need the conditions. None of these is
inductive: an open database forgets nothing, but a replay in the middle knows only
the records behind it. So `IInv` is about the first `Upto` records, all of them in
an open database and those applied in a replay. `Alive` says from these alone
whether a collection has a document of an `_id`: one of them made it, and none
after that one deleted it.

- `LogInv`: in the file, inserts bring `_id`s that are not there and replaces and
  deletes name ones that are. A crash keeps a prefix, so keeps this; that a new
  record continues it is what the duplicate check, the freshness of generated
  `_id`s and the search for victims are for;
- `SlotInv`, `HoldsInv`: the slots without a mark lead to the documents that are
  there, one to each;
- `RowsInv`: a built table has one row for every slot, marked or not. So a lookup
  finds the document if there is one (`LookupFacts`), which is the duplicate check,
  and is why replay never meets a replace or a delete of nothing;
- `OrderInv`: while nothing was superseded, the index lists the inserts of the file
  in order, so that the sequential read shows the same positions as the strided one
  (`ScanFacts`), and `Delete` removes the slots of the documents it buried;
- `FoldInv`: what the slots without a mark lead to is what the records make, in
  their order. A removal of marked slots shows the same documents, a live one takes
  out those that `ApplyTo` filters for the tombstones.

Each step does one of four things to a collection, each with a lemma: nothing, a
new table included (`CollUntouched`), documents at the end (`CollGrows`), one
document superseded (`CollSupersedes`), slots taken out (`CollRemoves`), which the
live delete and the second phase of a replay share. Positions after a removal are
ranks in the set of slots kept; that `Rank` and `Nth` number a finite set in order
and are inverses (`NthFacts`, `NthOfAscending`) is proved from the library's facts
on finite sets. That the fold of `DocsOf` is what its equation says, for every
sequence of records, is proved by constructing the function.

The module goes on with what callers see of them:

- `ImplementsStoreTheorem`: `Spec => ImplementsStore`, if `StoredSame`. `Writes`
  says of a step that it appends records about one collection and shows what they
  make; each call is one such step (`InsertWrites`, `InsertManyWrites`,
  `ReplaceWrites`, `DeleteWrites`), also when it fails part of the way, and
  `OperationIsResult` turns its records, one at a time, into an operation of
  `AbstractStore`. A crash keeps the history up to the record it keeps, a replay
  shows its last state again.
- `CountsTheorem`: `total` is the number of `Live` records and, if `Odd = {}`, `dead`
  is what `ScanLive` makes of the records the index reflects; `TypeOKTheorem` then
  has `total` as a natural number through every removal, and `StatAgreesTheorem`
  (`StoredSame` and `Odd = {}`) is the agreement of `nsq stat` with the open
  database. Sums are recursive functions here, so adding, changing and
  rearranging their terms (`TotalAlong`, `TotalRaised`, `BytesAlong`) is proved first;
  then that a superseding record takes exactly one record out of `Live`
  (`ScannedLive`, `SlotIsLive`), whose bytes are those its slot remembers. A
  `DeleteMany` cuts its tombstones one at a time (`TombstonesCounts`).

`SnapshotScanProofs` proves, for any set of goroutines and any number of records:

- `NothingAfterCloseTheorem`, `OneRuleTheorem`, `ScanIsSnapshotTheorem`: what the
  run `scan` checks, save that calls return;
- `IndexTheorem`: `Spec => []IInv`.

The argument goes up in three layers, each resting on the one below.

- `LockInv` and `SliceInv`: one writer at a time; the current arrays are two
  different ones, and a scan that holds a current array holds no more of it than
  is published. So an append writes a cell no scan may read, and whatever a slice
  shows stays (`Kept`): that is `OneRule`.
- `FileInv`, `CallInv`, `PairInv`, `CleanInv`: below `db.size` the file only grows;
  what an insert has yet to index is there; both arrays hold the same records,
  but for the one being appended; while nothing was superseded, the index lists
  the inserts of the file in order, but for those `Pending`.
- `SnapInv` and `ProgressInv`: what a snapshot took is still what its cells and the
  file below its size hold, and the scan has handed out the first `i` of it. A
  sequential scan that meets an insert meets the next document of its snapshot,
  since that lists the inserts below its size in order. The lock is free when the
  snapshot is taken, so `Pending` is empty then.

`Shape` and `ScanTypes` are typing facts that the proofs need and no property is
about. What a cell holds is left untyped (`IsSeq`): a removal copies cells without
looking at them.

`HandlesProofs` proves, for any finite set of threads and any number of databases:

- `Invariance`: `Spec => []IInv`;
- `NoUseAfterCloseTheorem`: `Spec => []NoUseAfterClose`.

`NoUseAfterClose` is not inductive: that a database about to be closed is empty
says nothing of a thread that enters it next. `IInv` adds what forbids it:

- `TypeInv`: the types, and that a thread inside, waiting or closing is busy with
  a database that was opened;
- `RefsInv`: `refs` is the number of threads inside, so that `refs = 0`, which is
  all `nsq_close` looks at, means that nobody is;
- `ClosingInv`: a database somebody waits to close, closes or has closed has its
  closed flag set, which `acquire` refuses, and from the end of the loop on its
  `refs` stay 0.

The proof has a lemma per action. Entering and leaving the loop of `nsq_close`
are shared by the first close and by a woken one (`WaitOrGoMoves`); adding and
removing a thread changes the count by one (`FiniteSetTheorems`), which is where
`ThreadAssumption`, that threads are finitely many, is used.

`CatalogProofs` proves the five properties of the run `catalog` for any goroutines,
any names and any number of ids: `CreatedStaysTheorem` as it stands, the other four
(`HandlesAgreeTheorem`, `ReopenableTheorem`, `DefinesDurableTheorem`,
`InsertsLandHomeTheorem`) under `~SyncErrors`, without which `catalog_twice` refutes
`Reopenable`. They rest on `IInv`:

- `FileInv`: along the file, defined ids ascend, names do not repeat, and a document
  stands behind the definition of its collection. A crash that keeps a prefix
  keeps all of that, also where it takes definitions away whose ids come back;
- `MapsInv`: the two maps are what the first `Reflected` records define, all of them
  in an open database and those up to `cursor` during a replay; `nextID` is past
  every id among them or 0, which is what makes the next id ascend. So replay never
  meets an id or a name it knows: `Reopenable` is part of the invariant;
- `HandInv`: handles are given out by an open database, and agree with it; each
  promised collection is defined within the synced part of the file.

`IdTableProofs` proves `IInvTheorem`, `HalfEmptyTheorem` and `LookupIsExactTheorem`
for any fingerprints, any initial capacity and any number of documents:

- the walk of a fingerprint visits every slot of the table once before it repeats
  (`Steps`, from division with remainder), so with half of the slots empty it ends;
- `Good` is what every operation keeps: each entry is `Reached` by its walk before
  an empty slot, each position is entered `Once`, and `count` is the number of taken
  slots. `PlaceGood` is the single insertion; `PlaceAllGood` carries it through the
  tables of a growth or a rebuild, which are shown to exist one by one; `GrowGood`,
  `InsertGood`, `BuiltGood` and `RemapGood` are the operations, the last with the
  positions that a removal leaves (`Before` counts the removed ones in front);
- a lookup then hands out every position of its fingerprint once: each of its entries
  is met before the first empty slot, and steps and documents are matched by a
  bijection (`FindsThem`).

`TracerProofs` proves, for any goroutines, any cap, any lengths and without the
bounds `TypeOK` has:

- `IInvTheorem`, `CappedTheorem`, `WritersInOrderTheorem`.

`IInv` has three parts. `CapInv`: `t.written` is the bytes of the run's lines, and the
notice, once there, is the last of them and `t.truncated` is set. `CallInv`: `db.mu`
has one holder, who keeps it from taking a number to the line, and queries trace
nothing but their own kind. `OrderInv`: the number the holder has at hand is above
those of all writers' lines before it. `InvTheorem` has the same with types. The
equation of the sum in `Bytes` is proved by constructing its values.

`QueryProofs` proves of the queries, for any values of any kinds, any documents, sort
keys, skips and limits, and whatever filters and projections do:

- `OrderTheorem`, `KeysTheorem`: `compare` is a total order over any set of values,
  in which only a value itself is equal to it, and so `SortKeysAreOrdered`;
- `QueryTheorem`: `Spec => []QInv`, if `FiltersMean`;
- `HeapTheorem`, `PageTheorem`: `HeapHoldsBest` and `PageIsReference`, if
  `FiltersMean`.

`FiltersMean` says that a filter that is compiled passes the documents it means. It
is a fact about the constant operators, and the half of `FilterMeansWhatItSays`
that a page depends on: TLC checks it for those of `Filter`. The assumptions on the
values (`KeyAssumption`, `ValueAssumption`) are that they are JSON values, closed under
taking parts, and nested no deeper than `Depth`; those on queries
(`QueryAssumption`) are what `validate` and the types of Go leave.

`PageIsReference` speaks of the end of a query only, so `QInv` says what holds on the
way. After `n` documents an unsorted page is what lies behind the skip of the
matches among them, short of the limit. The heap lists `Best`, a set of entries each
of which is less than every other match so far, as many as fit into `K` or all; the
list of an unbounded sort has all of them. After the sort each entry is at its place.
The argument has four parts:

- *The order.* The recursion of `Order` is unfolded by constructing its values
  (`OrderFacts`); sequences compare in a total order when their elements do
  (`LexSymmetric`, `LexTransitive`), where the first element that differs is the least
  of a set of numbers (`MinFacts`); so arrays and objects nested one deeper do
  (`OrderLaws`). `EntryLess` is then a strict order over entries with distinct `seq`
  (`EntriesStrict`), each key of which may be turned round by `desc`.
- *Places.* In a strict order over a finite set each entry has a place, and each place
  one entry (`KthFacts`). A best subset is what lies at the first places (`BestFacts`),
  a sort puts each entry at its place (`SortFacts`), and the reference, which sorts
  what was found before the projection, has the same places (`CopyFacts`).
- *The heap.* The turns of `up` and `down` keep that all is well but at one slot
  (`UpInv`, `DownInv`), and settle before the slots run out (`UpFacts`, `DownFacts`).
  So `Push` and `Pop` keep the heap and what it lists, the root is the worst
  (`RootWorst`), and `TopK.Add` keeps the best, also when it turns a newcomer away
  unseen (`AddFacts`, `BestGrows`).
- *The scan.* One more document is one match more or none (`FoundNext`,
  `FoundNoMore`). That `NewTopK` did not panic means that `skip + limit` is no
  overflow (`KFacts`), which is why the overflow of hazard `scan.go:246` never yields a
  wrong page: such a query panics or is not sorted.

Of the iterators it proves `IInvTheorem` and `StableTheorem`, which is
`IterSpec => []StableWhileGrowing`, for any page sizes and skips and any number of
documents. Which documents an iteration has handed out says nothing about the next
page unless one knows where they lie. So `Walk` says of a client that left out `s`
documents: it was handed the matches from `s + 1` on to where the page at hand
goes on, that page is a stretch of the matches from there, and what it is still owed
lies in front of it, or, once a page was short, in that page. A write that leaves the
matches a prefix of what they become changes none of those (`OthersKeep`); the next
document is not among those handed out, since numbers are not used again.
`FindIsPage` joins the two: the page `Paging` finds is the page that `QueryExec` is
proved to return for an unsorted query with that skip and limit.

**Only model-checked**:

- all liveness (`Paging.IterationEnds`, `Handles` and `SnapshotScan`: that calls
  return), which is out of the proof system's reach;
- `FilterMeansWhatItSays` and `ProjectionReturnsWanted`: the compilers, the matcher
  and their references recurse over filters, projections and documents. What a
  recursion over data computes for every input takes an induction the provers cannot
  instantiate, and the operators are RECURSIVE, which keeps them out of the modules
  with proofs. This is why `QueryExec` has them as constants.

## 5. Assumptions of the models

- A write lands cell by cell from its front; a power cut keeps a prefix of the
  page cache and the last fsynced content beyond it; the size of a file is never
  ahead of its data; the device sees a truncation before later writes. File
  systems that write back out of order within one file are not covered.
- A failing fsync leaves the device as it was. Truncation itself does not fail.
- The payload of a record, read as a header, promises an absurd length, because
  JSON text in the length field is at least 2^29. A checksum never matches by
  chance.
- After `kill -9` the page cache survives. The records a later Open finds are
  not flushed by it: `needSync` starts as false, so a `Close` promises only
  what its own process wrote. `CloseFlushes` is stated so.
- A generated `_id` is one no record carries.
- A visitor of a scan writes at most once per document, and calls no Close.
- The header is a prefix of the file: after a power cut there are no records
  without it.
- Numbers are integers. `toFloat` maps every numeric type to one float64; JSON has
  no NaN, and the rounding of integers beyond 2^53 is outside the models. A regular
  expression is the set of strings it matches.

## 6. Where code and documents disagree

Two disagreements are among the runs, `docs_marks` and `catalog_twice`. The
models contain the steps of thirteen more, and the configurations below make TLC
print each of them. They are left out of the passing runs by the constants named.

| configuration | property | what the code does |
|---|---|---|
| `LogFileRefused.cfg` | `NeverRefused` | a short record over the remains of a longer failed write, torn by a crash, is followed by bytes, so replay answers `ErrCorrupt` instead of truncating (`WriteErrors`) |
| `LogFileCloseLoses.cfg` | `CloseFlushes` | `DB.Sync` clears `needSync` when the fsync failed, and `Close` then flushes nothing; `nosqlite.go:359` says it does (`SyncErrors`) |
| `DocStoreErrors.cfg` | `ErrorMeansNoEffect` | an insert whose fsync fails returns an error and stays; `docs/records.md:49` says the index is changed only if the fsync succeeded |
| `DocStoreOdd.cfg` | `NeverCorrupt` | a document with a number under `"_ID"` is accepted, and once its collection has a delete, Open refuses the file (`Odd`) |
| `DocStoreUtf8.cfg` | `UniqueIds` | `_id`s with invalid UTF-8 are stored with U+FFFD, while the duplicate check compares what was given (`Stored`) |
| `CatalogHeader.cfg` | `EveryCrashRecovers` | a crash inside the first Open can leave 1 to 31 bytes of header, which every later Open refuses; `docs/records.md:236` says "There is no fourth case, and no state in which the database is half-mutated" |
| `CatalogClosed.cfg` | `ClosedIsErrClosed` | a known collection, and its count, are answered after `Close`; `nosqlite.go:68` says `ErrClosed` |
| `TracerOrder.cfg` | `NumbersReflectStart` | sequence numbers are taken when an operation ends; `trace.go:102-103` says at its start |
| `TracerAppend.cfg` | `FileCapped` | with `WithTraceAppend` the cap counts the lines of one run, so the file outgrows it; `nosqlite.go:188` says it "caps the trace file size" |
| `TracerOpenFails.cfg` | `FailedOpenTraced` | an Open that fails in replay writes no line; `nosqlite.go:298-299` says such a failure is itself traced |
| `PagingDeletes.cfg` | `PagesStable` | a delete between two pages makes the iterator pass over a document; the Python docstring calls unsorted pages stable because the store is append-only |
| `QueryExecUnsupported.cfg` | `UnsupportedIsRejected` | `$regex` is compiled and matched, and a projection of `a.$` is accepted as the field `$`; `docs/filters.md:52-53` and `:168` say both are rejected |
| `QueryExecHuge.cfg` | `AlwaysAnswered` | a sorted query whose skip and limit add up beyond the largest int panics in `NewTopK` |

The files of `catalog_twice` and `DocStoreOdd.cfg` are also files on which `nsq
verify` finds nothing wrong, and which Open refuses: every record of theirs is whole
and has a good checksum. `verify` promises no more than checksums
(`docs/trace-and-cli.md:85`), but its success does not mean the file can be opened.

## 7. Running

    tlc -config DocStore.cfg MCDocStore
    tlapm LogFileProofs.tla
    tlapm DocStoreProofs.tla
    tlapm SnapshotScanProofs.tla
    tlapm IdTableProofs.tla
    tlapm CatalogProofs.tla
    tlapm TracerProofs.tla
    tlapm HandlesProofs.tla
    tlapm QueryProofs.tla

Every configuration names its module in the run table, or begins with the
module's name (`LogFile*`, `DocStore*` and `QueryExec*` run under `MCLogFile`,
`MCDocStore` and `MCQueryExec`). The longest runs, `log` and `scan`, take two to
three minutes with two workers; the proofs take twenty-five minutes with two threads, ten
of them those about the collections.

## 8. Not modelled, and the plan

Not modelled and not planned: the wording of traces and errors, JSON encoding and
decoding at the C interface and in the bindings, `nsq dump` and `nsq find` and the
parsing of their arguments, the encoding of generated `_id`s, the library loading
of the bindings. None of them keeps state.

Planned, most important first:

1. `IdTable` as an implementation of the rows of `DocStore`, as a refinement.
2. The wrapper objects of the bindings: `close()` beside calls on other threads,
   and their handle field.
