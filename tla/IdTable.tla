------------------------------- MODULE IdTable -------------------------------
(***************************************************************************)
(* The _id table of one collection (index.go, idTable): an open-addressed  *)
(* hash table from the fingerprint of an _id to the position of its        *)
(* document, with linear probing, growth by doubling, and a rebuild after  *)
(* every removal.  It is built when the first caller supplies an _id.      *)
(*                                                                         *)
(* DocStore has the table as a set of rows; this module shows that probing *)
(* finds exactly those rows.  Slots and positions are counted from 0 as in *)
(* the code, and the mask of a power of two is the remainder by it.        *)
(***************************************************************************)
EXTENDS Naturals, Sequences, FiniteSets, Functions, FiniteSetsExt

CONSTANTS
    Fingerprint,  \* fingerprints of _ids: 0 marks an empty slot
    MinSize,      \* the slots newIDTable begins with: 16 in the code
    Slack,        \* the room for more documents in a table just built: 16
    MaxDocs       \* bound: documents

ASSUME FingerprintAssumption == Fingerprint \subseteq Nat \ {0}
ASSUME SizeAssumption == MinSize \in Nat \ {0} /\ Slack \in Nat
ASSUME BoundAssumption == MaxDocs \in Nat

VARIABLES
    docs,    \* the fingerprint of each document's _id, by position
    built,   \* c.ids # nil
    table    \* what c.ids points to: the slots, and how many are taken

vars == <<docs, built, table>>

Empty == [fp |-> 0, pos |-> 0]
Size(t) == Cardinality(DOMAIN t.slots)

\* newIDTable: the smallest doubling of MinSize that is twice the capacity.
NewTable(capacity) ==
    LET fit[size \in Nat] == IF size < 2 * capacity THEN fit[2 * size] ELSE size
    IN  [slots |-> [i \in 0..(fit[MinSize] - 1) |-> Empty], count |-> 0]

Init ==
    /\ docs = <<>>
    /\ built = FALSE
    /\ table = NewTable(0)

-----------------------------------------------------------------------------
\* Probing

\* The slot a walk that begins at the fingerprint's own slot comes to in k steps.
Probe(t, fp, k) == (fp + k) % Size(t)

\* How many slots it passes before an empty one.
ChainLength(t, fp) == Min({k \in 0..(Size(t) - 1) : t.slots[Probe(t, fp, k)] = Empty})

\* forEachCandidate: the positions it hands out, by the steps it takes to them.
Candidates(t, fp) ==
    LET hits == {k \in 0..(ChainLength(t, fp) - 1) : t.slots[Probe(t, fp, k)].fp = fp}
    IN  [k \in hits |-> t.slots[Probe(t, fp, k)].pos]

\* The first empty slot takes the entry.
Place(t, fp, pos) ==
    [slots |-> [t.slots EXCEPT ![Probe(t, fp, ChainLength(t, fp))] = [fp |-> fp, pos |-> pos]],
     count |-> t.count + 1]

\* The entries of a table whose position is in the domain of to, placed into
\* another one in the order of their slots, each at the position to gives it.
PlaceAll(from, into, to) ==
    LET goes(e) == e # Empty /\ e.pos \in DOMAIN to
        after[i \in 0..Size(from)] ==
          IF i = 0 THEN into
          ELSE LET e == from.slots[i - 1]
               IN  IF goes(e) THEN Place(after[i - 1], e.fp, to[e.pos]) ELSE after[i - 1]
    IN  after[Size(from)]

\* Mutant of Grow: the slots are copied to where they were.
GrowInPlace(t) ==
    [t EXCEPT !.slots = [i \in 0..(2 * Size(t) - 1) |-> IF i < Size(t) THEN t.slots[i] ELSE Empty]]

\* Twice the slots, and every entry placed anew.
Grow(t) ==
    PlaceAll(t, [slots |-> [i \in 0..(2 * Size(t) - 1) |-> Empty], count |-> 0],
             [pos \in {e.pos : e \in Range(t.slots)} |-> pos])

\* Mutant of Insert: the table fills up before it grows.
InsertLate(t, fp, pos) == Place(IF t.count + 1 > Size(t) THEN Grow(t) ELSE t, fp, pos)

\* idTable.insert.
Insert(t, fp, pos) == Place(IF (t.count + 1) * 2 > Size(t) THEN Grow(t) ELSE t, fp, pos)

-----------------------------------------------------------------------------
\* The collection's use of it

\* ensureIDTable: the documents are read in the order of their positions.
Built ==
    LET after[i \in 0..Len(docs)] ==
          IF i = 0 THEN NewTable(Len(docs) + Slack) ELSE Insert(after[i - 1], docs[i], i - 1)
    IN  IF built THEN table ELSE after[Len(docs)]

\* A new document, whose _id came with it or was generated.  A generated one
\* does not make the table be built.
InsertDocument(fp, supplied) ==
    /\ Len(docs) < MaxDocs
    /\ docs' = Append(docs, fp)
    /\ built' = (built \/ supplied)
    /\ table' = IF built' THEN Insert(Built, fp, Len(docs)) ELSE table

\* Mutant of Remap: the entries of removed documents are zeroed in place.
RemapInPlace(gone, to) ==
    [slots |-> [i \in DOMAIN table.slots |->
                  CASE table.slots[i] = Empty -> Empty
                    [] table.slots[i].pos \in gone -> Empty
                    [] OTHER -> [table.slots[i] EXCEPT !.pos = to[@]]],
     count |-> table.count - Cardinality(gone)]

\* remapIDTable: a new table, into which the survivors go with the fingerprints
\* the old one has for them.
Remap(gone, to) ==
    PlaceAll(table, NewTable(Len(docs) - Cardinality(gone) + Slack), to)

\* removeIndex takes the documents at these positions out.
RemoveDocuments(gone) ==
    LET stay == (0..(Len(docs) - 1)) \ gone
        to == [p \in stay |-> Cardinality({q \in stay : q < p})]
    IN  /\ docs' = [i \in 1..Cardinality(stay) |-> docs[(CHOOSE p \in stay : to[p] = i - 1) + 1]]
        /\ table' = IF built THEN Remap(gone, to) ELSE table
        /\ UNCHANGED built

\* A lookup that is not behind an insert: replay of a replace or a delete, and
\* an insert that is refused.
LookUp ==
    /\ built' = TRUE
    /\ table' = Built
    /\ UNCHANGED docs

Next ==
    \/ \E fp \in Fingerprint, supplied \in BOOLEAN : InsertDocument(fp, supplied)
    \/ \E gone \in (SUBSET (0..(Len(docs) - 1))) \ {{}} : RemoveDocuments(gone)
    \/ LookUp

Spec == Init /\ [][Next]_vars

-----------------------------------------------------------------------------
\* Properties

\* Probing for a fingerprint comes upon every document that has it, each exactly
\* once, and upon no other: no growth, wrap-around or removal hides an entry
\* behind an empty slot.
LookupIsExact ==
    built => \A fp \in Fingerprint :
       LET found == Candidates(table, fp)
           there == {p \in 0..(Len(docs) - 1) : docs[p + 1] = fp}
       IN  {found[k] : k \in DOMAIN found} = there /\ Cardinality(DOMAIN found) = Cardinality(there)

\* The slots that are not empty.
Taken(t) == {i \in DOMAIN t.slots : t.slots[i] # Empty}

\* count is the number of taken slots and at most half of them are, so that
\* every walk comes to an empty one.
HalfEmpty == table.count = Cardinality(Taken(table)) /\ 2 * table.count <= Size(table)

-----------------------------------------------------------------------------
\* Inductive invariants

Slot == {Empty} \cup [fp : Fingerprint, pos : Nat]

TableType(t) ==
    /\ t.slots \in [0..(Size(t) - 1) -> Slot] /\ Size(t) \in Nat \ {0}
    /\ t.count = Cardinality(Taken(t))

\* A walk for its fingerprint comes to every entry before it comes to an empty slot.
Reached(t) ==
    \A i \in Taken(t) : \E k \in 0..(Size(t) - 1) :
       /\ Probe(t, t.slots[i].fp, k) = i
       /\ \A j \in 0..(k - 1) : t.slots[Probe(t, t.slots[i].fp, j)] # Empty

\* No position is entered twice.
Once(t) == \A i, j \in Taken(t) : t.slots[i].pos = t.slots[j].pos => i = j

Entries(t) == {t.slots[i] : i \in Taken(t)}

IInv ==
    /\ docs \in Seq(Fingerprint) /\ built \in BOOLEAN
    /\ TableType(table) /\ Reached(table) /\ Once(table)
    /\ 2 * table.count <= Size(table)
    /\ built => Entries(table) = {[fp |-> docs[p + 1], pos |-> p] : p \in 0..(Len(docs) - 1)}
=============================================================================
