---------------------------- MODULE CatalogProofs ----------------------------
(***************************************************************************)
(* What holds of Catalog for any number of goroutines, names, ids and      *)
(* records, as long as no fsync fails.                                     *)
(***************************************************************************)
EXTENDS Catalog, TLAPS

-----------------------------------------------------------------------------
\* The file is a sequence

LEMMA AppendFacts ==
    ASSUME NEW s \in Seq(Record), NEW r \in Record
    PROVE  /\ Append(s, r) \in Seq(Record)
           /\ Len(Append(s, r)) = Len(s) + 1
           /\ \A k \in 1..Len(s) : Append(s, r)[k] = s[k]
           /\ Append(s, r)[Len(s) + 1] = r
OBVIOUS

LEMMA SubSeqFacts ==
    ASSUME NEW s \in Seq(Record), NEW n \in 0..Len(s)
    PROVE  /\ SubSeq(s, 1, n) \in Seq(Record)
           /\ Len(SubSeq(s, 1, n)) = n
           /\ \A k \in 1..n : SubSeq(s, 1, n)[k] = s[k]
OBVIOUS

LEMMA NextAfterType ==
    ASSUME NEW i \in Id, NEW next \in Id
    PROVE  NextAfter(i, next) \in Id
BY IdAssumption DEF Id, NextAfter

\* nextID is used up or past every id registered.
LEMMA NextAfterPast ==
    ASSUME NEW i \in Id, NEW next \in Id
    PROVE  NextAfter(i, next) = 0 \/ i < NextAfter(i, next)
<1>1. IdSpace \in Nat /\ IdSpace > 0 /\ i \in Nat /\ i + 1 <= IdSpace /\ next \in Nat
  BY IdAssumption DEF Id
<1>2. (i + 1) % IdSpace = IF i + 1 = IdSpace THEN 0 ELSE i + 1
  BY <1>1
<1> QED
  BY <1>1, <1>2 DEF NextAfter

-----------------------------------------------------------------------------
\* Types

AnswerOK == answer.is \in {"ok", "error", "ErrClosed"} /\ answer.closed \in BOOLEAN

LEMMA ReturnsType ==
    ASSUME NEW r \in {"ok", "error", "ErrClosed"}, Returns(r)
    PROVE  AnswerOK'
<1>1. (mode = "closed") \in BOOLEAN
  OBVIOUS
<1>2. answer'.is = r /\ answer'.closed = (mode = "closed")
  BY DEF Returns
<1> QED
  BY <1>1, <1>2 DEF AnswerOK

LEMMA EndCallType ==
    ASSUME NEW g, NEW n, NEW r \in {"ok", "error", "ErrClosed"}, EndCall(g, n, r)
    PROVE  AnswerOK'
<1>1. answer'.is = r /\ answer'.closed = FALSE
  BY DEF EndCall
<1> QED
  BY <1>1 DEF AnswerOK

LEMMA EmptyFacts == DOMAIN Empty = {}
BY DEF Empty

LEMMA InitType == Init => TypeOK
<1> SUFFICES ASSUME Init PROVE TypeOK
  OBVIOUS
<1>1. /\ header = "none" /\ mode = "down" /\ file \in Seq(Record) /\ Len(file) = 0
      /\ synced \in 0..Len(file) /\ cursor \in 0..Len(file) /\ always \in BOOLEAN
  BY OptionsAssumption DEF Init
<1>2. /\ DOMAIN catalog = {} /\ DOMAIN byID = {} /\ nextID \in Id
      /\ missed = {} /\ promised = {} /\ created \in BOOLEAN
  <2>1. DOMAIN catalog = {} /\ DOMAIN byID = {}
    BY EmptyFacts DEF Init
  <2>2. nextID \in Id
    BY IdAssumption DEF Init, Id
  <2> QED
    BY <2>1, <2>2 DEF Init
<1>3. handle \in [Goroutine -> SUBSET Collection]
  BY DEF Init
<1>4. AnswerOK
  BY DEF Init, NoAnswer, AnswerOK
<1> QED
  BY <1>1, <1>2, <1>3, <1>4 DEF TypeOK, AnswerOK

LEMMA TypeStep ==
    ASSUME TypeOK, [Next]_vars
    PROVE  TypeOK'
<1> USE DEF TypeOK
<1>1. CASE UNCHANGED vars
  BY <1>1 DEF vars, memory
<1>2. ASSUME NEW g \in Goroutine, NEW n \in Name, FirstLook(g, n)
      PROVE  TypeOK'
  <2>1. AnswerOK'
    BY <1>2, ReturnsType DEF FirstLook, AnswerOK
  <2>2. missed' \subseteq Goroutine \X Name
    BY <1>2 DEF FirstLook
  <2>3. handle' \in [Goroutine -> SUBSET Collection]
    BY <1>2 DEF FirstLook, Given, Collection
  <2> QED
    BY <1>2, <2>1, <2>2, <2>3 DEF FirstLook, memory, AnswerOK
<1>3. ASSUME NEW g \in Goroutine, NEW n \in Name, SecondLook(g, n)
      PROVE  TypeOK'
  <2>1. CASE UNCHANGED <<header, file, synced, promised, memory>>
    <3>1. AnswerOK'
      BY <1>3, EndCallType DEF SecondLook
    <3>2. missed' = missed \ {<<g, n>>}
      BY <1>3 DEF SecondLook, EndCall
    <3>3. handle' \in [Goroutine -> SUBSET Collection]
      BY <1>3 DEF SecondLook, Given, Known, Collection
    <3> QED
      BY <1>3, <2>1, <3>1, <3>2, <3>3 DEF SecondLook, memory, AnswerOK
  <2>2. CASE Written([op |-> "define", id |-> nextID, name |-> n])
    <3>1. [op |-> "define", id |-> nextID, name |-> n] \in Record
      BY DEF Record
    <3>2. /\ file' \in Seq(Record)
          /\ Len(file') = Len(file) + 1
      BY <2>2, <3>1, AppendFacts DEF Written
    <3>3. header' \in {"none", "part", "written", "synced"} /\ synced' \in 0..Len(file')
      BY <1>3, <2>2, <3>2 DEF SecondLook, SyncIfNeeded, Fsync
    <3>4. /\ UNCHANGED <<always, mode, cursor, created>>
          /\ missed' = missed \ {<<g, n>>}
          /\ AnswerOK'
      BY <1>3, EndCallType DEF SecondLook, EndCall
    <3>5. \/ Register(n, nextID)
          \/ UNCHANGED memory
      BY <1>3 DEF SecondLook
    <3>6. /\ DOMAIN catalog' \subseteq Name /\ \A m \in DOMAIN catalog' : catalog'[m] \in Id
          /\ DOMAIN byID' \subseteq Id /\ \A i \in DOMAIN byID' : byID'[i] \in Name
          /\ nextID' \in Id
      BY <3>5, NextAfterType DEF Register, memory
    <3>7. handle' \in [Goroutine -> SUBSET Collection] /\ promised' \subseteq Collection
      BY <1>3 DEF SecondLook, Given, Known, Collection
    <3> QED
      BY <3>2, <3>3, <3>4, <3>6, <3>7 DEF AnswerOK
  <2> QED
    BY <1>3, <2>1, <2>2 DEF SecondLook
<1>4. ASSUME NEW g \in Goroutine, Insert(g)
      PROVE  TypeOK'
  <2>1. PICK c \in handle[g] : Written([op |-> "insert", id |-> c.id, name |-> c.name])
    BY <1>4 DEF Insert
  <2>2. [op |-> "insert", id |-> c.id, name |-> c.name] \in Record
    BY DEF Record, Collection
  <2>3. file' \in Seq(Record) /\ Len(file') = Len(file) + 1
    BY <2>1, <2>2, AppendFacts DEF Written
  <2>4. header' \in {"none", "part", "written", "synced"} /\ synced' \in 0..Len(file')
    BY <1>4, <2>3 DEF Insert, SyncIfNeeded, Fsync
  <2> QED
    BY <1>4, <2>3, <2>4, ReturnsType DEF Insert, memory, AnswerOK
<1>5. ASSUME NEW g \in Goroutine, InsertClosed(g) \/ CountAll(g)
      PROVE  TypeOK'
  <2>1. AnswerOK'
    BY <1>5, ReturnsType DEF InsertClosed, CountAll
  <2> QED
    BY <1>5, <2>1 DEF InsertClosed, CountAll, memory, AnswerOK
<1>6. CASE Close
  BY <1>6 DEF Close, Fsync, memory
<1>7. CASE Crash
  <2>1. PICK n \in synced..Len(file) : file' = SubSeq(file, 1, n)
    BY <1>7 DEF Crash
  <2>2. file' \in Seq(Record) /\ Len(file') = n
    BY <2>1, SubSeqFacts
  <2>3. header' \in {"none", "part", "written", "synced"}
    BY <1>7 DEF Crash, Remains
  <2> QED
    BY <1>7, <2>2, <2>3, IdAssumption, EmptyFacts DEF Crash, NoAnswer, Id
<1>8. CASE WriteFileHeader
  BY <1>8, OptionsAssumption DEF WriteFileHeader, memory
<1>9. CASE CreateFile
  BY <1>9 DEF CreateFile, SyncFileHeader, memory
<1>10. CASE Open
  BY <1>10, OptionsAssumption DEF Open, memory
<1>11. CASE ReplayRecord
  <2>1. cursor < Len(file) => file[cursor + 1] \in Record
    OBVIOUS
  <2>2. /\ DOMAIN catalog' \subseteq Name /\ \A m \in DOMAIN catalog' : catalog'[m] \in Id
        /\ DOMAIN byID' \subseteq Id /\ \A i \in DOMAIN byID' : byID'[i] \in Name
        /\ nextID' \in Id
    BY <1>11, <2>1, NextAfterType DEF ReplayRecord, Register, memory, Record
  <2>3. cursor' \in 0..Len(file') /\ mode' \in {"replaying", "refused"}
    BY <1>11 DEF ReplayRecord
  <2> QED
    BY <1>11, <2>2, <2>3 DEF ReplayRecord
<1>12. CASE OpenReturns
  BY <1>12 DEF OpenReturns, memory
<1> QED
  BY <1>1, <1>2, <1>3, <1>4, <1>5, <1>6, <1>7, <1>8, <1>9, <1>10, <1>11, <1>12 DEF Next

-----------------------------------------------------------------------------
\* The inductive invariant

LEMMA InitInv == Init => IInv
<1> SUFFICES ASSUME Init PROVE IInv
  OBVIOUS
<1>1. TypeOK
  BY InitType
<1>2. /\ file = <<>> /\ Len(file) = 0 /\ mode = "down" /\ Reflected = 0 /\ promised = {}
      /\ DOMAIN catalog = {} /\ DOMAIN byID = {} /\ handle = [g \in Goroutine |-> {}]
      /\ cursor = 0
  BY EmptyFacts DEF Init, Reflected
<1>3. FileInv
  BY <1>2 DEF FileInv
<1>4. MapsInv
  BY <1>2 DEF MapsInv
<1>5. HandInv
  BY <1>2 DEF HandInv, HandlesAgree
<1> QED
  BY <1>1, <1>2, <1>3, <1>4, <1>5 DEF IInv, Reopenable

\* A step that leaves everything alone the invariant speaks of.
LEMMA QuietStep ==
    ASSUME IInv, TypeOK',
           UNCHANGED <<header, file, synced, mode, cursor, catalog, byID, nextID, handle,
                       promised>>
    PROVE  IInv'
BY DEF IInv, FileInv, MapsInv, HandInv, HandlesAgree, Known, Reopenable, Reflected, Defines

\* A known collection is given out.
LEMMA GivenStep ==
    ASSUME IInv, TypeOK', NEW g \in Goroutine, NEW n \in DOMAIN catalog,
           Given(g, n, catalog[n]),
           mode \in {"open", "closed"},
           UNCHANGED <<header, file, synced, mode, cursor, catalog, byID, nextID, promised>>
    PROVE  IInv'
<1>1. FileInv' /\ MapsInv' /\ Reopenable'
  BY DEF IInv, FileInv, MapsInv, Reopenable, Reflected, Defines
<1>2. /\ \A c \in promised' : \E k \in 1..synced' : Defines(k, c.name, c.id)'
      /\ mode' \in {"open", "closed"}
  BY DEF IInv, HandInv, Defines
<1>3. HandlesAgree'
  <2> SUFFICES ASSUME mode = "open", NEW h \in Goroutine, NEW c \in handle'[h]
               PROVE  /\ c.name \in DOMAIN catalog /\ catalog[c.name] = c.id
                      /\ byID[c.id] = c.name
    BY DEF HandlesAgree, Known
  <2>1. c \in handle[h] \/ c = [name |-> n, id |-> catalog[n]]
    BY DEF Given, IInv, TypeOK
  <2>2. CASE c \in handle[h]
    BY <2>2 DEF IInv, HandInv, HandlesAgree, Known
  <2>3. CASE c = [name |-> n, id |-> catalog[n]]
    <3>1. PICK k \in 1..Reflected : Defines(k, n, catalog[n])
      BY DEF IInv, MapsInv
    <3>2. byID[catalog[n]] = n
      BY <3>1 DEF IInv, MapsInv, Defines
    <3> QED
      BY <2>3, <3>2
  <2> QED
    BY <2>1, <2>2, <2>3
<1> QED
  BY <1>1, <1>2, <1>3 DEF IInv, HandInv

\* What a record more leaves of the file.
LEMMA GrowFacts ==
    ASSUME TypeOK, NEW r \in Record, Written(r)
    PROVE  /\ Len(file) \in Nat /\ Len(file') = Len(file) + 1
           /\ \A k \in 1..Len(file) : file'[k] = file[k]
           /\ file'[Len(file) + 1] = r
BY AppendFacts DEF TypeOK, Written

\* syncIfNeeded keeps synced records synced and a whole header whole.
LEMMA SyncFacts ==
    ASSUME TypeOK, NEW r \in Record, Written(r), SyncIfNeeded
    PROVE  /\ synced \in Nat /\ synced' \in Nat
           /\ synced <= synced' /\ synced' <= Len(file')
           /\ header \in {"written", "synced"} => header' \in {"written", "synced"}
           /\ always => synced' = Len(file')
BY GrowFacts DEF TypeOK, SyncIfNeeded, Fsync

\* Promised collections stay promised when the file only grows.
LEMMA PromisesKept ==
    ASSUME IInv, NEW r \in Record, Written(r), SyncIfNeeded
    PROVE  \A c \in promised : \E k \in 1..synced' : Defines(k, c.name, c.id)'
<1> TAKE c \in promised
<1>1. PICK k \in 1..synced : Defines(k, c.name, c.id)
  BY DEF IInv, HandInv
<1>2. k \in 1..synced' /\ k \in 1..Len(file)
  <2>1. synced \in 0..Len(file) /\ Len(file) \in Nat
    BY GrowFacts DEF IInv, TypeOK
  <2> QED
    BY <2>1, SyncFacts DEF IInv
<1>3. Defines(k, c.name, c.id)'
  BY <1>1, <1>2, GrowFacts DEF Defines, IInv
<1> QED
  BY <1>2, <1>3

LEMMA InsertStep ==
    ASSUME IInv, TypeOK', NEW g \in Goroutine, Insert(g)
    PROVE  IInv'
<1>1. PICK c \in handle[g] : Written([op |-> "insert", id |-> c.id, name |-> c.name])
  BY DEF Insert
<1> DEFINE r == [op |-> "insert", id |-> c.id, name |-> c.name]
<1>2. r \in Record /\ r.op = "insert" /\ r.id = c.id /\ r.name = c.name
  BY <1>1 DEF Record, Collection, IInv, TypeOK
<1>3. /\ mode = "open" /\ SyncIfNeeded
      /\ UNCHANGED <<mode, cursor, catalog, byID, nextID, handle, promised>>
  BY DEF Insert, memory
<1>4. Written(r)
  BY <1>1
<1> HIDE DEF r
<1>5. PICK j \in 1..Len(file) : Defines(j, c.name, c.id)
  <2>1. c.name \in DOMAIN catalog /\ catalog[c.name] = c.id
    BY <1>3 DEF IInv, HandInv, HandlesAgree, Known
  <2> QED
    BY <2>1, <1>3 DEF IInv, MapsInv, Reflected
<1>6. /\ Len(file) \in Nat /\ Len(file') = Len(file) + 1
      /\ \A k \in 1..Len(file) : file'[k] = file[k]
      /\ file'[Len(file) + 1] = r
  BY <1>2, <1>4, GrowFacts DEF IInv
<1>7. FileInv'
  <2>1. ASSUME NEW k \in 1..Len(file'), file'[k].op = "define"
        PROVE  /\ file'[k].id # 0
               /\ \A i \in 1..(k - 1) : file'[i].op = "define" =>
                     file'[i].id < file'[k].id /\ file'[i].name # file'[k].name
    <3>1. k \in 1..Len(file) /\ file'[k] = file[k]
      BY <1>2, <1>6, <2>1
    <3>2. \A i \in 1..(k - 1) : i \in 1..Len(file) /\ file'[i] = file[i]
      BY <1>6, <3>1
    <3> QED
      BY <2>1, <3>1, <3>2 DEF IInv, FileInv
  <2>2. ASSUME NEW k \in 1..Len(file'), file'[k].op = "insert"
        PROVE  \E i \in 1..(k - 1) : Defines(i, file[k].name, file[k].id)'
    <3>1. CASE k \in 1..Len(file)
      <4>1. PICK i \in 1..(k - 1) : Defines(i, file[k].name, file[k].id)
        BY <1>6, <2>2, <3>1 DEF IInv, FileInv
      <4>2. i \in 1..Len(file)
        BY <1>6, <3>1
      <4> QED
        BY <1>6, <3>1, <4>1, <4>2 DEF Defines
    <3>2. CASE k = Len(file) + 1
      <4>1. j \in 1..(k - 1)
        BY <1>6, <3>2
      <4> QED
        BY <1>2, <1>5, <1>6, <3>2, <4>1 DEF Defines
    <3> QED
      BY <1>6, <3>1, <3>2
  <2>3. header' \in {"written", "synced"} /\ mode' = "open"
    BY <1>2, <1>3, <1>4, SyncFacts DEF IInv, FileInv, TypeOK
  <2> QED
    BY <2>1, <2>2, <2>3 DEF FileInv
<1>8. MapsInv'
  <2>1. Reflected = Len(file) /\ Reflected' = Len(file) + 1
    BY <1>3, <1>6 DEF Reflected
  <2>2. \A k \in 1..Len(file) : \A n, i : Defines(k, n, i)' <=> Defines(k, n, i)
    BY <1>6 DEF Defines
  <2>3. \A k \in 1..Reflected' : file'[k].op = "define" => k \in 1..Len(file)
    BY <1>2, <1>6, <2>1
  <2>4. 1..Len(file) \subseteq 1..Reflected'
    BY <1>6, <2>1
  <2> QED
    BY <1>3, <1>6, <2>1, <2>2, <2>3, <2>4 DEF IInv, MapsInv
<1>9. HandInv'
  BY <1>2, <1>3, <1>4, PromisesKept DEF IInv, HandInv, HandlesAgree, Known
<1> QED
  BY <1>3, <1>7, <1>8, <1>9 DEF IInv, Reopenable

\* registerCollection, when the record behind those the maps reflect defines a
\* collection with an id past theirs and a new name.
LEMMA RegisterMaps ==
    ASSUME TypeOK, TypeOK', MapsInv, mode \in {"replaying", "open"},
           NEW r \in Record, r.op = "define",
           \A k \in 1..Reflected : file'[k] = file[k],
           file'[Reflected + 1] = r,
           Reflected' = Reflected + 1,
           \A k \in 1..Reflected : file[k].op = "define" =>
              file[k].id < r.id /\ file[k].name # r.name,
           Register(r.name, r.id)
    PROVE  MapsInv'
<1>1. Reflected \in Nat
  BY DEF Reflected, TypeOK
<1> PICK last \in Nat : last = Reflected + 1
  BY <1>1
<1>2. /\ DOMAIN catalog' = DOMAIN catalog \cup {r.name} /\ catalog'[r.name] = r.id
      /\ DOMAIN byID' = DOMAIN byID \cup {r.id} /\ byID'[r.id] = r.name
  BY DEF Register
<1>3. /\ \A m \in DOMAIN catalog : m # r.name => catalog'[m] = catalog[m]
      /\ \A i \in DOMAIN byID : i # r.id => byID'[i] = byID[i]
  BY DEF Register
<1>4. 1..Reflected' = 1..Reflected \cup {last} /\ last \in 1..Reflected'
  BY <1>1
<1>5. ASSUME NEW m \in DOMAIN catalog'
      PROVE  \E k \in 1..Reflected' : Defines(k, m, catalog[m])'
  <2>1. CASE m = r.name
    <3>1. Defines(last, m, catalog[m])'
      BY <1>2, <2>1 DEF Defines
    <3> QED
      BY <1>4, <3>1
  <2>2. CASE m # r.name
    <3>1. PICK k \in 1..Reflected : Defines(k, m, catalog[m])
      BY <1>2, <2>2 DEF MapsInv
    <3>2. Defines(k, m, catalog[m])'
      BY <1>2, <1>3, <2>2, <3>1 DEF Defines
    <3> QED
      BY <1>4, <3>2
  <2> QED
    BY <2>1, <2>2
<1>6. ASSUME NEW i \in DOMAIN byID'
      PROVE  \E k \in 1..Reflected' : Defines(k, byID[i], i)'
  <2>1. CASE i = r.id
    <3>1. Defines(last, byID[i], i)'
      BY <1>2, <2>1 DEF Defines
    <3> QED
      BY <1>4, <3>1
  <2>2. CASE i # r.id
    <3>1. PICK k \in 1..Reflected : Defines(k, byID[i], i)
      BY <1>2, <2>2 DEF MapsInv
    <3>2. Defines(k, byID[i], i)'
      BY <1>2, <1>3, <2>2, <3>1 DEF Defines
    <3> QED
      BY <1>4, <3>2
  <2> QED
    BY <2>1, <2>2
<1>7. nextID' = 0 \/ r.id < nextID'
  BY NextAfterPast DEF Register, TypeOK, Record
<1>8. ASSUME NEW k \in 1..Reflected', file'[k].op = "define"
      PROVE  /\ file'[k].name \in DOMAIN catalog' /\ catalog'[file'[k].name] = file'[k].id
             /\ file'[k].id \in DOMAIN byID' /\ byID'[file'[k].id] = file'[k].name
             /\ nextID' = 0 \/ file'[k].id < nextID'
  <2>1. CASE k = last
    BY <1>2, <1>7, <2>1
  <2>2. CASE k \in 1..Reflected
    <3>1. file'[k] = file[k] /\ file[k].op = "define"
      BY <1>8, <2>2
    <3>2. file[k].id < r.id /\ file[k].name # r.name
      BY <2>2, <3>1
    <3>3. /\ file[k].name \in DOMAIN catalog /\ catalog[file[k].name] = file[k].id
          /\ file[k].id \in DOMAIN byID /\ byID[file[k].id] = file[k].name
      BY <2>2, <3>1 DEF MapsInv
    <3>4. file[k].id \in Nat /\ r.id \in Nat /\ nextID' \in Nat
      BY <3>3, SMTT(40) DEF TypeOK, Id, Record
    <3>5. file[k].id # r.id
      BY <3>2, <3>4
    <3>6. nextID' = 0 \/ file[k].id < nextID'
      BY <1>7, <3>2, <3>4
    <3> QED
      BY <1>2, <1>3, <3>1, <3>2, <3>3, <3>5, <3>6
  <2> QED
    BY <1>4, <2>1, <2>2
<1> QED
  BY <1>5, <1>6, <1>8 DEF MapsInv

\* defineCollection: the id is past every one in the file, and the name is new.
LEMMA DefineStep ==
    ASSUME IInv, TypeOK', NEW g \in Goroutine, NEW n \in Name,
           mode = "open", ~Known(n), ~Exhausted,
           Written([op |-> "define", id |-> nextID, name |-> n]),
           SyncIfNeeded, Register(n, nextID), Given(g, n, nextID),
           promised' = IF always THEN promised \cup {[name |-> n, id |-> nextID]}
                       ELSE promised,
           UNCHANGED <<mode, cursor>>
    PROVE  IInv'
<1> DEFINE r == [op |-> "define", id |-> nextID, name |-> n]
<1>1. r \in Record /\ r.op = "define" /\ r.id = nextID /\ r.name = n
  BY DEF Record, IInv, TypeOK
<1>2. Written(r)
  OBVIOUS
<1> HIDE DEF r
<1>3. /\ Len(file) \in Nat /\ Len(file') = Len(file) + 1
      /\ \A k \in 1..Len(file) : file'[k] = file[k]
      /\ file'[Len(file) + 1] = r
  BY <1>1, <1>2, GrowFacts DEF IInv
<1>4. /\ Reflected = Len(file) /\ Reflected' = Len(file) + 1
      /\ \A k \in 1..Len(file) : \A m, i : Defines(k, m, i)' <=> Defines(k, m, i)
  BY <1>3 DEF Reflected, Defines
<1>5. \A k \in 1..Len(file) : file[k].op = "define" =>
         file[k].id < nextID /\ file[k].name # n
  BY <1>4 DEF IInv, MapsInv, Known, Exhausted
<1>6. n \notin DOMAIN catalog /\ nextID \notin DOMAIN byID /\ nextID # 0
  <2>1. ASSUME nextID \in DOMAIN byID
        PROVE  FALSE
    <3>1. PICK k \in 1..Len(file) : Defines(k, byID[nextID], nextID)
      BY <2>1, <1>4 DEF IInv, MapsInv
    <3> QED
      BY <3>1, <1>5 DEF Defines, IInv, TypeOK, Id
  <2> QED
    BY <2>1 DEF Known, Exhausted
<1>7. FileInv'
  <2>1. ASSUME NEW k \in 1..Len(file'), file'[k].op = "define"
        PROVE  /\ file'[k].id # 0
               /\ \A i \in 1..(k - 1) : file'[i].op = "define" =>
                     file'[i].id < file'[k].id /\ file'[i].name # file'[k].name
    <3>1. \A i \in 1..(k - 1) : i \in 1..Len(file) /\ file'[i] = file[i]
      BY <1>3
    <3>2. CASE k \in 1..Len(file)
      BY <1>3, <2>1, <3>1, <3>2 DEF IInv, FileInv
    <3>3. CASE k = Len(file) + 1
      BY <1>1, <1>3, <1>5, <1>6, <3>1, <3>3
    <3> QED
      BY <1>3, <3>2, <3>3
  <2>2. ASSUME NEW k \in 1..Len(file'), file'[k].op = "insert"
        PROVE  \E i \in 1..(k - 1) : Defines(i, file[k].name, file[k].id)'
    <3>1. k \in 1..Len(file)
      BY <1>1, <1>3, <2>2
    <3>2. PICK i \in 1..(k - 1) : Defines(i, file[k].name, file[k].id)
      BY <1>3, <2>2, <3>1 DEF IInv, FileInv
    <3>3. i \in 1..Len(file)
      BY <1>3, <3>1
    <3> QED
      BY <1>3, <3>1, <3>2, <3>3 DEF Defines
  <2>3. header' \in {"written", "synced"} /\ mode' = "open"
    BY <1>1, <1>2, SyncFacts DEF IInv, FileInv, TypeOK
  <2> QED
    BY <2>1, <2>2, <2>3 DEF FileInv
<1>8. MapsInv'
  <2>1. /\ \A k \in 1..Reflected : file'[k] = file[k]
        /\ file'[Reflected + 1] = r /\ Reflected' = Reflected + 1
        /\ \A k \in 1..Reflected : file[k].op = "define" =>
              file[k].id < r.id /\ file[k].name # r.name
    BY <1>1, <1>3, <1>4, <1>5
  <2>2. Register(r.name, r.id)
    BY <1>1
  <2> QED
    BY <1>1, <2>1, <2>2, RegisterMaps DEF IInv
<1>9. HandlesAgree'
  <2> SUFFICES ASSUME NEW h \in Goroutine, NEW c \in handle'[h]
               PROVE  /\ c.name \in DOMAIN catalog' /\ catalog'[c.name] = c.id
                      /\ byID'[c.id] = c.name
    BY DEF HandlesAgree, Known
  <2>1. c \in handle[h] \/ c = [name |-> n, id |-> nextID]
    BY DEF Given, IInv, TypeOK
  <2>2. /\ catalog'[n] = nextID /\ n \in DOMAIN catalog'
        /\ byID'[nextID] = n
        /\ \A m \in DOMAIN catalog : m \in DOMAIN catalog' /\ catalog'[m] = catalog[m]
        /\ \A i \in DOMAIN byID : byID'[i] = byID[i]
    BY <1>6 DEF Register
  <2>3. ASSUME c \in handle[h]
        PROVE  /\ c.name \in DOMAIN catalog /\ catalog[c.name] = c.id
               /\ c.id \in DOMAIN byID /\ byID[c.id] = c.name
    <3>1. c.name \in DOMAIN catalog /\ catalog[c.name] = c.id /\ byID[c.id] = c.name
      BY <2>3 DEF IInv, HandInv, HandlesAgree, Known
    <3>2. PICK k \in 1..Reflected : Defines(k, c.name, c.id)
      BY <3>1 DEF IInv, MapsInv
    <3> QED
      BY <3>1, <3>2 DEF IInv, MapsInv, Defines
  <2> QED
    BY <2>1, <2>2, <2>3
<1>10. HandInv'
  <2>1. ASSUME NEW c \in promised'
        PROVE  \E k \in 1..synced' : Defines(k, c.name, c.id)'
    <3>1. CASE c \in promised
      BY <1>1, <1>2, <3>1, PromisesKept
    <3>2. CASE c \notin promised
      <4>1. always /\ c.name = n /\ c.id = nextID
        BY <3>2, <2>1
      <4> PICK last \in Nat : last = Len(file) + 1
        BY <1>3
      <4>2. synced' = last /\ last \in 1..synced'
        BY <1>1, <1>2, <1>3, <4>1, SyncFacts DEF IInv
      <4>3. Defines(last, c.name, c.id)'
        BY <1>1, <1>3, <4>1, <4>2 DEF Defines
      <4> QED
        BY <4>2, <4>3
    <3> QED
      BY <3>1, <3>2
  <2> QED
    BY <1>9, <2>1 DEF HandInv
<1> QED
  BY <1>7, <1>8, <1>10 DEF IInv, Reopenable

LEMMA FirstLookStep ==
    ASSUME IInv, TypeOK', NEW g \in Goroutine, NEW n \in Name, FirstLook(g, n)
    PROVE  IInv'
<1>1. CASE n \in DOMAIN catalog
  BY <1>1, GivenStep DEF FirstLook, memory
<1>2. CASE n \notin DOMAIN catalog
  BY <1>2, QuietStep DEF FirstLook, memory
<1> QED
  BY <1>1, <1>2

LEMMA SecondLookStep ==
    ASSUME IInv, TypeOK', ~SyncErrors,
           NEW g \in Goroutine, NEW n \in Name, SecondLook(g, n)
    PROVE  IInv'
<1>1. CASE mode = "open" /\ Known(n)
  BY <1>1, GivenStep DEF SecondLook, Known, memory
<1>2. CASE mode = "closed"
  BY <1>2, QuietStep DEF SecondLook, memory
<1>3. CASE mode = "open" /\ ~Known(n)
  <2>1. CASE UNCHANGED <<header, file, synced, handle, promised, memory>>
    BY <1>3, <2>1, QuietStep DEF SecondLook, memory
  <2>2. CASE ~UNCHANGED <<header, file, synced, handle, promised, memory>>
    <3>1. /\ ~Exhausted
          /\ Written([op |-> "define", id |-> nextID, name |-> n])
          /\ SyncIfNeeded /\ Register(n, nextID) /\ Given(g, n, nextID)
          /\ promised' = IF always THEN promised \cup {[name |-> n, id |-> nextID]}
                         ELSE promised
          /\ UNCHANGED <<mode, cursor>>
      BY <1>3, <2>2 DEF SecondLook
    <3> QED
      BY <1>3, <3>1, DefineStep
  <2> QED
    BY <2>1, <2>2
<1> QED
  BY <1>1, <1>2, <1>3 DEF SecondLook

LEMMA CloseStep ==
    ASSUME IInv, TypeOK', Close
    PROVE  IInv'
<1>1. /\ mode = "open" /\ mode' = "closed"
      /\ UNCHANGED <<file, handle, promised>>
      /\ header' \in {header, "synced"}
      /\ synced' \in {synced, Len(file)}
  BY DEF Close, Fsync
<1>2. FileInv'
  BY <1>1 DEF IInv, FileInv, Defines
<1>3. MapsInv'
  BY <1>1 DEF MapsInv
<1>4. \A c \in promised : \E k \in 1..synced' : Defines(k, c.name, c.id)'
  <2>1. synced \in 0..Len(file) /\ Len(file) \in Nat
    BY DEF IInv, TypeOK
  <2>2. 1..synced \subseteq 1..synced'
    BY <1>1, <2>1
  <2> QED
    BY <1>1, <2>2 DEF IInv, HandInv, Defines
<1> QED
  BY <1>1, <1>2, <1>3, <1>4 DEF IInv, HandInv, HandlesAgree, Reopenable

LEMMA CrashStep ==
    ASSUME IInv, TypeOK', Crash
    PROVE  IInv'
<1>1. PICK n \in synced..Len(file) : /\ header' = header \/ n = 0
                                     /\ file' = SubSeq(file, 1, n)
  BY DEF Crash
<1>2. /\ n \in Nat /\ synced \in Nat /\ synced <= n /\ n <= Len(file) /\ Len(file) \in Nat
      /\ Len(file') = n /\ \A k \in 1..n : file'[k] = file[k]
  BY <1>1, SubSeqFacts DEF IInv, TypeOK
<1>3. /\ mode' = "down" /\ Reflected' = 0 /\ UNCHANGED <<synced, promised>>
      /\ DOMAIN catalog' = {} /\ DOMAIN byID' = {} /\ handle' = [g \in Goroutine |-> {}]
      /\ cursor' = 0
  BY EmptyFacts DEF Crash, Reflected
<1>4. FileInv'
  <2>1. ASSUME NEW k \in 1..Len(file'), file'[k].op = "define"
        PROVE  /\ file'[k].id # 0
               /\ \A i \in 1..(k - 1) : file'[i].op = "define" =>
                     file'[i].id < file'[k].id /\ file'[i].name # file'[k].name
    <3>1. k \in 1..Len(file) /\ file'[k] = file[k]
      BY <1>2
    <3>2. \A i \in 1..(k - 1) : file'[i] = file[i]
      BY <1>2
    <3> QED
      BY <2>1, <3>1, <3>2 DEF IInv, FileInv
  <2>2. ASSUME NEW k \in 1..Len(file'), file'[k].op = "insert"
        PROVE  \E i \in 1..(k - 1) : Defines(i, file[k].name, file[k].id)'
    <3>1. k \in 1..Len(file) /\ file'[k] = file[k]
      BY <1>2
    <3>2. PICK i \in 1..(k - 1) : Defines(i, file[k].name, file[k].id)
      BY <2>2, <3>1 DEF IInv, FileInv
    <3>3. file'[i] = file[i]
      BY <1>2
    <3> QED
      BY <3>1, <3>2, <3>3 DEF Defines
  <2>3. Len(file') > 0 => header' \in {"written", "synced"}
    BY <1>1, <1>2 DEF IInv, FileInv
  <2> QED
    BY <1>3, <2>1, <2>2, <2>3 DEF FileInv
<1>5. MapsInv'
  BY <1>3 DEF MapsInv
<1>6. ASSUME NEW c \in promised
      PROVE  \E k \in 1..synced : Defines(k, c.name, c.id)'
  <2>1. PICK k \in 1..synced : Defines(k, c.name, c.id)
    BY DEF IInv, HandInv
  <2> QED
    BY <1>2, <2>1 DEF Defines
<1>7. HandInv'
  BY <1>3, <1>6 DEF HandInv, HandlesAgree
<1> QED
  BY <1>3, <1>4, <1>5, <1>7 DEF IInv, Reopenable

\* The three steps in which Open finds or makes the header.
LEMMA HeaderStep ==
    ASSUME IInv, TypeOK', WriteFileHeader \/ CreateFile \/ Open
    PROVE  IInv'
<1>1. /\ UNCHANGED <<file, synced, cursor, catalog, byID, nextID, handle, promised>>
      /\ mode \in {"down", "creating"}
  BY DEF WriteFileHeader, CreateFile, SyncFileHeader, Open, memory
<1>2. mode' \in {"down", "creating", "open", "replaying", "notDatabase"}
  BY <1>1 DEF WriteFileHeader, CreateFile, SyncFileHeader, Open
<1>3. FileInv'
  <2>1. /\ Len(file) > 0 => header' \in {"written", "synced"}
        /\ header' \in {"none", "part"} => mode' \in {"down", "notDatabase"}
        /\ mode' = "creating" => file = <<>>
    BY <1>1 DEF IInv, FileInv, TypeOK, WriteFileHeader, CreateFile, SyncFileHeader, Open
  <2> QED
    BY <1>1, <2>1 DEF IInv, FileInv, Defines
<1>4. Reflected = 0 /\ Reflected' = 0
  BY <1>1 DEF IInv, FileInv, TypeOK, WriteFileHeader, CreateFile, SyncFileHeader, Open,
              Reflected
<1>5. MapsInv'
  BY <1>1, <1>4 DEF IInv, MapsInv
<1>6. HandInv'
  BY <1>1, <1>2 DEF IInv, HandInv, HandlesAgree, Defines
<1> QED
  BY <1>2, <1>3, <1>5, <1>6 DEF IInv, Reopenable

LEMMA ReplayStep ==
    ASSUME IInv, TypeOK', ReplayRecord
    PROVE  IInv'
<1> DEFINE r == file[cursor + 1]
<1>1. /\ mode = "replaying" /\ cursor < Len(file) /\ Reflected = cursor
      /\ UNCHANGED <<header, file, synced, handle, promised>>
  BY DEF ReplayRecord, Reflected
<1>2. /\ cursor \in Nat /\ Len(file) \in Nat /\ cursor + 1 \in 1..Len(file) /\ r \in Record
      /\ \A k \in 1..cursor : k \in 1..Len(file) /\ k \in 1..(cursor + 1 - 1)
  BY <1>1 DEF IInv, TypeOK
<1>3. ASSUME r.op = "define"
      PROVE  /\ Accepts(r)
             /\ \A k \in 1..cursor : file[k].op = "define" =>
                   file[k].id < r.id /\ file[k].name # r.name
  <2>1. r.id # 0 /\ \A k \in 1..cursor : file[k].op = "define" =>
                       file[k].id < r.id /\ file[k].name # r.name
    BY <1>2, <1>3 DEF IInv, FileInv
  <2>2. ASSUME r.id \in DOMAIN byID PROVE FALSE
    <3>1. PICK k \in 1..cursor : Defines(k, byID[r.id], r.id)
      BY <1>1, <2>2 DEF IInv, MapsInv
    <3> QED
      BY <1>2, <2>1, <3>1 DEF Defines, Record, Id
  <2>3. ASSUME r.name \in DOMAIN catalog PROVE FALSE
    <3>1. PICK k \in 1..cursor : Defines(k, r.name, catalog[r.name])
      BY <1>1, <2>3 DEF IInv, MapsInv
    <3> QED
      BY <2>1, <3>1 DEF Defines
  <2> QED
    BY <1>3, <2>1, <2>2, <2>3 DEF Accepts
<1>4. ASSUME r.op # "define"
      PROVE  Accepts(r)
  <2>1. r.op = "insert"
    BY <1>2, <1>4 DEF Record
  <2>2. PICK j \in 1..(cursor + 1 - 1) : Defines(j, r.name, r.id)
    BY <1>2, <2>1 DEF IInv, FileInv
  <2>3. j \in 1..cursor
    BY <1>2
  <2> QED
    BY <1>1, <1>4, <2>2, <2>3 DEF Accepts, IInv, MapsInv, Defines
<1>5. /\ cursor' = cursor + 1 /\ mode' = mode
      /\ IF r.op = "define" THEN Register(r.name, r.id) ELSE UNCHANGED memory
  BY <1>3, <1>4 DEF ReplayRecord
<1>6. Reflected' = cursor + 1
  BY <1>1, <1>5 DEF Reflected
<1>7. FileInv'
  BY <1>1, <1>5 DEF IInv, FileInv, Defines
<1>8. MapsInv'
  <2>1. CASE r.op = "define"
    <3> HIDE DEF r
    <3>1. /\ \A k \in 1..Reflected : file'[k] = file[k]
          /\ file'[Reflected + 1] = r
      BY <1>1 DEF r
    <3> QED
      BY <1>1, <1>2, <1>3, <1>5, <1>6, <2>1, <3>1, RegisterMaps DEF IInv
  <2>2. CASE r.op # "define"
    <3>1. UNCHANGED <<catalog, byID, nextID>>
      BY <1>5, <2>2 DEF memory
    <3>2. 1..Reflected' = 1..Reflected \cup {cursor + 1}
      BY <1>1, <1>2, <1>6
    <3>3. \A n \in DOMAIN catalog : \E k \in 1..Reflected' : Defines(k, n, catalog[n])
      BY <1>1, <3>2 DEF IInv, MapsInv
    <3>4. \A i \in DOMAIN byID : \E k \in 1..Reflected' : Defines(k, byID[i], i)
      BY <1>1, <3>2 DEF IInv, MapsInv
    <3>5. \A k \in 1..Reflected' : file[k].op = "define" => k \in 1..Reflected
      BY <2>2, <3>2
    <3>6. \A k \in 1..Reflected' : file[k].op = "define" =>
             /\ file[k].name \in DOMAIN catalog /\ catalog[file[k].name] = file[k].id
             /\ file[k].id \in DOMAIN byID /\ byID[file[k].id] = file[k].name
             /\ nextID = 0 \/ file[k].id < nextID
      BY <1>1, <3>5 DEF IInv, MapsInv
    <3> QED
      BY <1>1, <3>1, <3>3, <3>4, <3>6 DEF MapsInv, Defines
  <2> QED
    BY <2>1, <2>2
<1>9. HandInv'
  BY <1>1, <1>5 DEF IInv, HandInv, HandlesAgree, Defines
<1> QED
  BY <1>1, <1>5, <1>7, <1>8, <1>9 DEF IInv, Reopenable

LEMMA OpenReturnsStep ==
    ASSUME IInv, TypeOK', OpenReturns
    PROVE  IInv'
<1>1. /\ mode = "replaying" /\ mode' = "open" /\ cursor = Len(file)
      /\ UNCHANGED <<header, file, synced, catalog, byID, nextID, handle, promised>>
  BY DEF OpenReturns, memory
<1>2. Reflected' = Reflected
  BY <1>1 DEF Reflected
<1>3. FileInv'
  BY <1>1 DEF IInv, FileInv, Defines
<1>4. MapsInv'
  BY <1>1, <1>2 DEF IInv, MapsInv, Defines
<1>5. HandInv'
  BY <1>1 DEF IInv, HandInv, HandlesAgree, Defines
<1> QED
  BY <1>1, <1>3, <1>4, <1>5 DEF IInv, Reopenable

LEMMA IInvStep ==
    ASSUME ~SyncErrors
    PROVE  IInv /\ [Next]_vars => IInv'
<1> SUFFICES ASSUME IInv, [Next]_vars
             PROVE  IInv'
  OBVIOUS
<1>1. TypeOK'
  BY TypeStep DEF IInv
<1>2. CASE UNCHANGED vars
  BY <1>1, <1>2, QuietStep DEF vars
<1>3. ASSUME NEW g \in Goroutine, InsertClosed(g) \/ CountAll(g)
      PROVE  IInv'
  BY <1>1, <1>3, QuietStep DEF InsertClosed, CountAll, memory
<1> QED
  BY <1>1, <1>2, <1>3, FirstLookStep, SecondLookStep, InsertStep, CloseStep, CrashStep,
     HeaderStep, ReplayStep, OpenReturnsStep DEF Next

-----------------------------------------------------------------------------
\* Theorems

\* As long as no fsync fails, every goroutine is given the collection registered
\* under the name it asked for, whichever of them create it (nosqlite.go,
\* DB.Collection; catalog.go, defineCollection).
THEOREM HandlesAgreeTheorem ==
    ASSUME ~SyncErrors
    PROVE  Spec => []HandlesAgree
<1>1. IInv => HandlesAgree
  BY DEF IInv, HandInv
<1> QED
  BY <1>1, InitInv, IInvStep, PTL DEF Spec

\* As long as no fsync fails, Open accepts every file the program and crashes
\* leave, however many of the ids are used up (catalog.go, applyDefineCollection).
THEOREM ReopenableTheorem ==
    ASSUME ~SyncErrors
    PROVE  Spec => []Reopenable
<1>1. IInv => Reopenable
  BY DEF IInv
<1> QED
  BY <1>1, InitInv, IInvStep, PTL DEF Spec

\* A collection reported created under SyncAlways keeps its id over every restart.
THEOREM DefinesDurableTheorem ==
    ASSUME ~SyncErrors
    PROVE  Spec => []DefinesDurable
<1>1. ASSUME IInv, mode = "open", NEW c \in promised
      PROVE  Known(c.name) /\ catalog[c.name] = c.id
  <2>1. PICK k \in 1..synced : Defines(k, c.name, c.id)
    BY <1>1 DEF IInv, HandInv
  <2>2. k \in 1..Reflected
    BY <1>1 DEF IInv, TypeOK, Reflected
  <2> QED
    BY <1>1, <2>1, <2>2 DEF IInv, MapsInv, Defines, Known
<1>2. IInv => DefinesDurable
  BY <1>1 DEF DefinesDurable
<1> QED
  BY <1>2, InitInv, IInvStep, PTL DEF Spec

\* The id in a document's record leads to the collection it was put into, over
\* crashes that take definitions away and let their ids be used again.
THEOREM InsertsLandHomeTheorem ==
    ASSUME ~SyncErrors
    PROVE  Spec => []InsertsLandHome
<1>1. ASSUME IInv, mode = "open", NEW k \in DOMAIN file, file[k].op = "insert"
      PROVE  file[k].id \in DOMAIN byID /\ byID[file[k].id] = file[k].name
  <2>1. k \in 1..Len(file) /\ Len(file) \in Nat
    BY <1>1 DEF IInv, TypeOK
  <2>2. PICK j \in 1..(k - 1) : Defines(j, file[k].name, file[k].id)
    BY <1>1, <2>1 DEF IInv, FileInv
  <2>3. j \in 1..Reflected
    BY <1>1, <2>1 DEF Reflected
  <2> QED
    BY <1>1, <2>2, <2>3 DEF IInv, MapsInv, Defines
<1>2. IInv => InsertsLandHome
  BY <1>1 DEF InsertsLandHome
<1> QED
  BY <1>2, InitInv, IInvStep, PTL DEF Spec

\* A file whose creation Open reported keeps its header over every crash, whether
\* or not later fsyncs fail (store.go, writeFileHeader).
THEOREM CreatedStaysTheorem == Spec => []CreatedStays
<1> DEFINE HeaderInv == created => header = "synced"
<1>1. Init => HeaderInv
  BY DEF Init
<1>2. HeaderInv /\ [Next]_vars => HeaderInv'
  BY ZenonT(40) DEF Next, vars, memory, FirstLook, SecondLook, SyncIfNeeded, Fsync, Insert,
         InsertClosed, CountAll, Close, Crash, Remains, WriteFileHeader, CreateFile,
         SyncFileHeader, Open, ReplayRecord, OpenReturns
<1>3. HeaderInv => CreatedStays
  BY DEF CreatedStays
<1> QED
  BY <1>1, <1>2, <1>3, PTL DEF Spec

=============================================================================
