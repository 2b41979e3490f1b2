------------------------------- MODULE Catalog -------------------------------
(***************************************************************************)
(* Collection names and ids (catalog.go, DB.Collection).  Goroutines ask   *)
(* for collections by name: a look under the read lock, and, when the name *)
(* is unknown, a second look under the write lock before the next id is    *)
(* taken, a define record appended and synced, and the name registered.    *)
(* Replay rebuilds both maps, record by record.                            *)
(*                                                                         *)
(* The file is its 32-byte header, written and synced by the Open that     *)
(* finds an empty file, and a sequence of whole records behind it; module  *)
(* LogFile shows why they are whole.                                       *)
(***************************************************************************)
EXTENDS Naturals, Sequences

CONSTANTS
    Goroutine,
    Name,         \* valid names; validateCollectionName refuses the others
    IdSpace,      \* values of the uint16 coll field
    SyncAlways,   \* the values cfg.sync = SyncAlways may have, one per Open
    WriteErrors,  \* WriteAt may fail
    SyncErrors,   \* fsync may fail
    MaxFile       \* bound: records in the file

ASSUME IdAssumption == IdSpace \in Nat \ {0, 1}
ASSUME OptionsAssumption ==
    SyncAlways \subseteq BOOLEAN /\ WriteErrors \in BOOLEAN /\ SyncErrors \in BOOLEAN
ASSUME BoundAssumption == MaxFile \in Nat

VARIABLES
    header,    \* the header: "none" of it, a "part", "written" or also "synced"
    file,      \* define and insert records; an insert's name is not in the code
    synced,    \* how many of them an fsync has covered
    always,    \* cfg.sync = SyncAlways in this process
    mode,      \* "open", "closed", "down", "creating" when Open has written the
               \* header, "replaying", "refused" or "notDatabase" when Open failed
    cursor,    \* records replayed so far, while Open replays
    catalog,   \* db.catalog: names to ids
    byID,      \* db.byID: ids to names
    nextID,    \* db.nextID
    missed,    \* goroutines between the two looks, and the names they want
    handle,    \* the *Collection each goroutine holds, in order of receipt
    answer,    \* what the last call returned, and if it began on a closed DB
    promised,  \* collections whose creation was reported and synced
    created    \* the Open that wrote the header returned the database

memory == <<catalog, byID, nextID>>
vars == <<header, file, synced, always, mode, cursor, catalog, byID, nextID, missed,
          handle, answer, promised, created>>

Id == 0..(IdSpace - 1)
Collection == [name : Name, id : Id]
Record == [op : {"define", "insert"}, id : Id, name : Name]

TypeOK ==
    /\ header \in {"none", "part", "written", "synced"}
    /\ file \in Seq(Record)
    /\ synced \in 0..Len(file)
    /\ always \in BOOLEAN
    /\ mode \in {"open", "closed", "down", "creating", "replaying", "refused",
                "notDatabase"}
    /\ cursor \in 0..Len(file)
    /\ DOMAIN catalog \subseteq Name /\ \A n \in DOMAIN catalog : catalog[n] \in Id
    /\ DOMAIN byID \subseteq Id /\ \A i \in DOMAIN byID : byID[i] \in Name
    /\ nextID \in Id
    /\ missed \subseteq Goroutine \X Name
    /\ handle \in [Goroutine -> SUBSET Collection]
    /\ answer.is \in {"ok", "error", "ErrClosed"} /\ answer.closed \in BOOLEAN
    /\ promised \subseteq Collection
    /\ created \in BOOLEAN

Empty == [x \in {} |-> 0]
NoAnswer == [is |-> "ok", closed |-> FALSE]

Init ==
    /\ header = "none"
    /\ file = <<>>
    /\ synced = 0
    /\ always \in SyncAlways
    /\ mode = "down"
    /\ cursor = 0
    /\ catalog = Empty
    /\ byID = Empty
    /\ nextID = 1
    /\ missed = {}
    /\ handle = [g \in Goroutine |-> {}]
    /\ answer = NoAnswer
    /\ promised = {}
    /\ created = FALSE

-----------------------------------------------------------------------------
\* Mutant of NextAfter: ids are handed out again.
NextAfterSame(id, next) == next

\* registerCollection moves nextID past an id; it wraps from the last one to 0.
NextAfter(id, next) == IF id >= next THEN (id + 1) % IdSpace ELSE next

\* Mutant of Exhausted: the wrapped nextID is handed out.
ExhaustedNever == FALSE

Exhausted == nextID = 0

\* Mutant of Known: the second look is left out.
KnownFirstLook(n) == FALSE

Known(n) == n \in DOMAIN catalog

Returns(r) == answer' = [is |-> r, closed |-> mode = "closed"]

\* g's call is over.
Idle(g) == \A m \in missed : m[1] # g

Given(g, n, i) == handle' = [handle EXCEPT ![g] = @ \cup {[name |-> n, id |-> i]}]

\* Under the read lock: a known name is answered on a closed database as well.
FirstLook(g, n) ==
    /\ mode \in {"open", "closed"}
    /\ Idle(g)
    /\ \/ /\ n \in DOMAIN catalog
          /\ Given(g, n, catalog[n])
          /\ Returns("ok")
          /\ UNCHANGED missed
       \/ /\ n \notin DOMAIN catalog
          /\ mode = "closed"
          /\ Returns("ErrClosed")
          /\ UNCHANGED <<missed, handle>>
       \/ /\ n \notin DOMAIN catalog
          /\ mode = "open"
          /\ missed' = missed \cup {<<g, n>>}
          /\ UNCHANGED <<handle, answer>>
    /\ UNCHANGED <<header, file, synced, always, mode, cursor, promised, created>>
    /\ UNCHANGED memory

\* The call ends under the write lock without changing anything but what g gets.
EndCall(g, n, r) ==
    /\ missed' = missed \ {<<g, n>>}
    /\ answer' = [is |-> r, closed |-> FALSE]

Written(r) == file' = Append(file, r)

\* Mutant of SyncIfNeeded: the define record is not synced.
SyncIfNeededNot == UNCHANGED <<header, synced>>

\* An fsync covers the header as well, whoever wrote it.
Fsync ==
    /\ synced' = Len(file')
    /\ header' = "synced"

SyncIfNeeded == IF always THEN Fsync ELSE UNCHANGED <<header, synced>>

\* registerCollection.
Register(n, i) ==
    /\ catalog' = [m \in DOMAIN catalog \cup {n} |-> IF m = n THEN i ELSE catalog[m]]
    /\ byID' = [j \in DOMAIN byID \cup {i} |-> IF j = i THEN n ELSE byID[j]]
    /\ nextID' = NextAfter(i, nextID)

\* Under the write lock: the second look, and defineCollection.
SecondLook(g, n) ==
    /\ <<g, n>> \in missed
    /\ UNCHANGED <<always, mode, cursor, created>>
    /\ \/ /\ mode = "closed"
          /\ EndCall(g, n, "ErrClosed")
          /\ UNCHANGED <<header, file, synced, handle, promised>> /\ UNCHANGED memory
       \/ /\ mode = "open" /\ Known(n)
          /\ Given(g, n, catalog[n])
          /\ EndCall(g, n, "ok")
          /\ UNCHANGED <<header, file, synced, promised>> /\ UNCHANGED memory
       \/ /\ mode = "open" /\ ~Known(n)
          /\ Exhausted \/ WriteErrors
          /\ EndCall(g, n, "error")
          /\ UNCHANGED <<header, file, synced, handle, promised>> /\ UNCHANGED memory
       \/ /\ mode = "open" /\ ~Known(n) /\ ~Exhausted
          /\ Len(file) < MaxFile
          /\ Written([op |-> "define", id |-> nextID, name |-> n])
          /\ \/ /\ SyncIfNeeded
                /\ Register(n, nextID)
                /\ Given(g, n, nextID)
                /\ promised' = IF always THEN promised \cup {[name |-> n, id |-> nextID]}
                               ELSE promised
                /\ EndCall(g, n, "ok")
             \/ /\ always /\ SyncErrors
                /\ EndCall(g, n, "error")
                /\ UNCHANGED <<header, synced, handle, promised>> /\ UNCHANGED memory

\* A document goes into a collection g holds; its record carries only the id.
Insert(g) ==
    /\ mode = "open"
    /\ Idle(g)
    /\ Len(file) < MaxFile
    /\ \E c \in handle[g] : Written([op |-> "insert", id |-> c.id, name |-> c.name])
    /\ SyncIfNeeded
    /\ Returns("ok")
    /\ UNCHANGED <<always, mode, cursor, missed, handle, promised, created>>
    /\ UNCHANGED memory

InsertClosed(g) ==
    /\ mode = "closed"
    /\ Idle(g)
    /\ handle[g] # {}
    /\ Returns("ErrClosed")
    /\ UNCHANGED <<header, file, synced, always, mode, cursor, missed, handle, promised,
                   created>>
    /\ UNCHANGED memory

\* Len, and Count without a filter: the index answers, open or closed.
CountAll(g) ==
    /\ mode \in {"open", "closed"}
    /\ Idle(g)
    /\ handle[g] # {}
    /\ Returns("ok")
    /\ UNCHANGED <<header, file, synced, always, mode, cursor, missed, handle, promised,
                   created>>
    /\ UNCHANGED memory

Close ==
    /\ mode = "open"
    /\ mode' = "closed"
    /\ UNCHANGED <<file, always, cursor, missed, handle, answer, promised, created>>
    /\ UNCHANGED memory
    /\ Fsync \/ UNCHANGED <<header, synced>>

\* What a crash may leave of the header.
Remains ==
    CASE header = "written" -> {"none", "part", "written"}
      [] header = "part" -> {"none", "part"}
      [] OTHER -> {header}

\* The process ends; only what was synced is sure to be there afterwards, and
\* the file is cut from its end, so records stay only behind a whole header.
Crash ==
    /\ mode # "down"
    /\ mode' = "down"
    /\ header' \in Remains
    /\ \E n \in synced..Len(file) :
         /\ header' = header \/ n = 0
         /\ file' = SubSeq(file, 1, n)
    /\ cursor' = 0
    /\ catalog' = Empty
    /\ byID' = Empty
    /\ nextID' = 1
    /\ missed' = {}
    /\ handle' = [g \in Goroutine |-> {}]
    /\ answer' = NoAnswer
    /\ UNCHANGED <<synced, always, promised, created>>

\* Open of an empty file writes the header.  A write that fails may leave a part
\* of it, which nothing takes away.
WriteFileHeader ==
    /\ mode = "down"
    /\ header = "none"
    /\ always' \in SyncAlways
    /\ \/ header' = "written" /\ mode' = "creating"
       \/ WriteErrors /\ header' \in {"none", "part"} /\ UNCHANGED mode
    /\ UNCHANGED <<file, synced, cursor, missed, handle, answer, promised, created>>
    /\ UNCHANGED memory

\* Mutant of SyncFileHeader: the header is left to the first flush of a record.
SyncFileHeaderNot ==
    /\ mode = "creating"
    /\ mode' = "open"
    /\ created' = TRUE
    /\ UNCHANGED header

\* It is synced at once, under SyncNever too.
SyncFileHeader ==
    /\ mode = "creating"
    /\ \/ header' = "synced" /\ mode' = "open" /\ created' = TRUE
       \/ SyncErrors /\ mode' = "down" /\ UNCHANGED <<header, created>>

CreateFile ==
    /\ SyncFileHeader
    /\ UNCHANGED <<file, synced, always, cursor, missed, handle, answer, promised>>
    /\ UNCHANGED memory

\* readFileHeader.  A whole header is not synced again.
Open ==
    /\ mode = "down"
    /\ header # "none"
    /\ always' \in SyncAlways
    /\ mode' = IF header = "part" THEN "notDatabase" ELSE "replaying"
    /\ UNCHANGED <<header, file, synced, cursor, missed, handle, answer, promised, created>>
    /\ UNCHANGED memory

\* applyDefineCollection refuses the id 0, and an id or a name it has met before.
\* An insert is refused when its id is undefined.
Accepts(r) ==
    IF r.op = "define"
    THEN r.id # 0 /\ r.id \notin DOMAIN byID /\ r.name \notin DOMAIN catalog
    ELSE r.id \in DOMAIN byID

\* One turn of replay's loop; Open fails at the first record it cannot accept.
ReplayRecord ==
    /\ mode = "replaying"
    /\ cursor < Len(file)
    /\ LET r == file[cursor + 1] IN
         \/ /\ Accepts(r)
            /\ cursor' = cursor + 1
            /\ IF r.op = "define" THEN Register(r.name, r.id) ELSE UNCHANGED memory
            /\ UNCHANGED mode
         \/ /\ ~Accepts(r)
            /\ mode' = "refused"
            /\ UNCHANGED cursor /\ UNCHANGED memory
    /\ UNCHANGED <<header, file, synced, always, missed, handle, answer, promised, created>>

\* Every record is replayed, and Open returns the database.
OpenReturns ==
    /\ mode = "replaying"
    /\ cursor = Len(file)
    /\ mode' = "open"
    /\ cursor' = 0
    /\ UNCHANGED <<header, file, synced, always, missed, handle, answer, promised, created>>
    /\ UNCHANGED memory

Next ==
    \/ \E g \in Goroutine, n \in Name : FirstLook(g, n) \/ SecondLook(g, n)
    \/ \E g \in Goroutine : Insert(g) \/ InsertClosed(g) \/ CountAll(g)
    \/ Close
    \/ Crash
    \/ WriteFileHeader
    \/ CreateFile
    \/ Open
    \/ ReplayRecord
    \/ OpenReturns

Spec == Init /\ [][Next]_vars

-----------------------------------------------------------------------------
\* Properties

\* Whatever two goroutines that miss the same or different names do between
\* their two looks, all of them are given the collection that is registered
\* under the name, and an id leads back to its name.
HandlesAgree ==
    mode = "open" =>
       \A g \in Goroutine : \A c \in handle[g] :
          /\ Known(c.name) /\ catalog[c.name] = c.id
          /\ byID[c.id] = c.name

\* Open accepts every file this program can have written: no id and no name is
\* defined twice, also when ids run out, and no document precedes its collection.
Reopenable == mode # "refused"

\* docs/file-format.md: ids stay stable across restarts.  A collection whose
\* creation was reported under SyncAlways is there, under its id, ever after.
DefinesDurable ==
    mode = "open" => \A c \in promised : Known(c.name) /\ catalog[c.name] = c.id

\* The id in a document's record leads to the collection it was inserted into,
\* though a crash may have taken define records away and their ids been reused.
InsertsLandHome ==
    mode = "open" =>
       \A k \in DOMAIN file : file[k].op = "insert" =>
          file[k].id \in DOMAIN byID /\ byID[file[k].id] = file[k].name

\* A database that Open has created stays one: no crash afterwards takes the file
\* back to nothing or to a part of a header, before the first record is flushed
\* as little as later.
CreatedStays == created => header \in {"written", "synced"}

\* docs/records.md: a write has three crash windows, and all three land somewhere
\* correct.
EveryCrashRecovers == mode # "notDatabase"

\* nosqlite.go: ErrClosed is returned by any operation on a database that has
\* been closed.
ClosedIsErrClosed == answer.closed => answer.is = "ErrClosed"

-----------------------------------------------------------------------------
\* The inductive invariant, while no fsync fails

\* Record k defines the collection n under the id i.
Defines(k, n, i) == file[k].op = "define" /\ file[k].name = n /\ file[k].id = i

\* Ids ascend in the file, from 1 and without a repetition, no name comes twice,
\* and a document stands behind the definition of its collection.
FileInv ==
    /\ \A k \in 1..Len(file) : file[k].op = "define" =>
          /\ file[k].id # 0
          /\ \A j \in 1..(k - 1) : file[j].op = "define" =>
                file[j].id < file[k].id /\ file[j].name # file[k].name
    /\ \A k \in 1..Len(file) : file[k].op = "insert" =>
          \E j \in 1..(k - 1) : Defines(j, file[k].name, file[k].id)
    /\ Len(file) > 0 => header \in {"written", "synced"}
    /\ header \in {"none", "part"} => mode \in {"down", "notDatabase"}
    /\ mode = "creating" => file = <<>>
    /\ mode \in {"down", "creating"} => cursor = 0

\* How many records the two maps reflect.
Reflected ==
    CASE mode = "replaying" -> cursor
      [] mode = "open" -> Len(file)
      [] OTHER -> 0

\* The maps are what those records define, and nextID is past them or used up.
MapsInv ==
    mode \in {"down", "creating", "replaying", "open"} =>
       /\ \A n \in DOMAIN catalog :
             \E k \in 1..Reflected : Defines(k, n, catalog[n])
       /\ \A i \in DOMAIN byID :
             \E k \in 1..Reflected : Defines(k, byID[i], i)
       /\ \A k \in 1..Reflected : file[k].op = "define" =>
             /\ file[k].name \in DOMAIN catalog /\ catalog[file[k].name] = file[k].id
             /\ file[k].id \in DOMAIN byID /\ byID[file[k].id] = file[k].name
             /\ nextID = 0 \/ file[k].id < nextID

\* Handles are given out by an open database only, and promises are synced.
HandInv ==
    /\ mode \notin {"open", "closed"} => handle = [g \in Goroutine |-> {}]
    /\ HandlesAgree
    /\ \A c \in promised : \E k \in 1..synced : Defines(k, c.name, c.id)

IInv ==
    /\ TypeOK
    /\ FileInv
    /\ MapsInv
    /\ HandInv
    /\ Reopenable
=============================================================================
