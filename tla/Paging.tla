------------------------------- MODULE Paging --------------------------------
(***************************************************************************)
(* iter_find and iterFind of the Python and TypeScript bindings: a client  *)
(* walks the matches of a filter page by page, each page a query of its    *)
(* own with a skip and a limit, while others write to the collection.      *)
(***************************************************************************)
EXTENDS Naturals, Sequences, FiniteSets, SequencesExt, Ranking

CONSTANTS
    Batch,      \* the page sizes a client may choose
    Skip,       \* the documents it may choose to leave out at the start
    Replaces,   \* others replace documents, so that they match no more, or now do
    Deletes,    \* others delete documents
    MaxDocs     \* bound: documents ever inserted

ASSUME BatchAssumption == Batch \subseteq Nat \ {0}
ASSUME SkipAssumption == Skip \subseteq Nat
ASSUME OptionsAssumption == Replaces \in BOOLEAN /\ Deletes \in BOOLEAN
ASSUME BoundAssumption == MaxDocs \in Nat

VARIABLES
    docs,      \* the collection: its documents, numbered as they are inserted
    born,      \* how many were inserted so far
    batch,     \* the client's page size, and 0 before it has called
    offset,    \* where its next page begins
    page,      \* what is left of the page at hand, to be yielded
    full,      \* that page had batch documents
    yielded,   \* what it has been handed
    twice,     \* what it has been handed more than once
    done,      \* the iterator is exhausted
    moved,     \* since the call the matches have changed other than at their end
    steady     \* those that were to be handed out at the call and match ever since

iterVars == <<docs, born, batch, offset, page, full, yielded, twice, done, moved, steady>>

Doc == [n : 1..MaxDocs, match : BOOLEAN]

TypeOK ==
    /\ docs \in Seq(Doc)
    /\ born \in 0..MaxDocs
    /\ batch \in Batch \cup {0}
    /\ offset \in Nat
    /\ page \in Seq(1..MaxDocs) /\ Len(page) <= batch
    /\ full \in BOOLEAN /\ done \in BOOLEAN /\ moved \in BOOLEAN
    /\ yielded \subseteq 1..MaxDocs /\ twice \subseteq yielded
    /\ steady \subseteq 1..MaxDocs

IterInit ==
    /\ docs = <<>>
    /\ born = 0
    /\ batch = 0
    /\ offset = 0
    /\ page = <<>>
    /\ full = FALSE
    /\ yielded = {}
    /\ twice = {}
    /\ done = FALSE
    /\ moved = FALSE
    /\ steady = {}

\* The documents that match, in the order of the collection.
Matches == {i \in DOMAIN docs : docs[i].match}
Matching == [k \in 1..Cardinality(Matches) |-> docs[Nth(Matches, k)]]

\* How many of the matches behind the first skip fit into the limit.
Fitting(skip, limit) == Cardinality({k \in DOMAIN Matching : skip < k /\ k <= skip + limit})

\* Mutant of Find: the limit does not end the scan.
FindUnlimited(skip, limit) ==
    [i \in 1..Fitting(skip, Len(docs)) |-> Matching[skip + i].n]

\* Mutant of Find: the page begins one match too early.
FindEarly(skip, limit) ==
    [i \in 1..Fitting(skip, limit) |-> Matching[IF skip = 0 THEN i ELSE skip + i - 1].n]

\* runUnsorted: matches up to the skip are dropped, and the scan stops when the
\* limit is reached.
Find(skip, limit) == [i \in 1..Fitting(skip, limit) |-> Matching[skip + i].n]

\* Somebody else writes, which the client's own state does not notice.
Others ==
    /\ moved' = (moved \/ (batch # 0 /\ ~IsPrefix(Matching, Matching')))
    /\ UNCHANGED <<batch, offset, page, full, yielded, twice, done>>

\* The generator is made and asked for its first document.
Call(b, skip) ==
    /\ batch = 0
    /\ batch' = b
    /\ offset' = skip
    /\ full' = TRUE
    /\ steady' = {Matching[i].n : i \in (skip + 1)..Len(Matching)}
    /\ UNCHANGED <<docs, born, page, yielded, twice, done, moved>>

\* Mutant of NextOffset: only the page at hand counts.
NextOffsetPage(found) == Len(found)

NextOffset(found) == offset + Len(found)

\* The page at hand is used up, and it was a full one.
NextPage ==
    LET found == Find(offset, batch)
    IN  /\ batch # 0 /\ ~done
        /\ page = <<>>
        /\ full
        /\ page' = found
        /\ full' = (Len(found) = batch)
        /\ offset' = NextOffset(found)
        /\ done' = (found = <<>>)
        /\ UNCHANGED <<docs, born, batch, yielded, twice, moved, steady>>

Yield ==
    /\ page # <<>>
    /\ yielded' = yielded \cup {Head(page)}
    /\ twice' = IF Head(page) \in yielded THEN twice \cup {Head(page)} ELSE twice
    /\ page' = Tail(page)
    /\ UNCHANGED <<docs, born, batch, offset, full, done, moved, steady>>

\* The page at hand is used up, and it was short.
Exhausted ==
    /\ batch # 0 /\ ~done
    /\ page = <<>>
    /\ ~full
    /\ done' = TRUE
    /\ UNCHANGED <<docs, born, batch, offset, page, full, yielded, twice, moved, steady>>

Insert ==
    /\ born < MaxDocs
    /\ born' = born + 1
    /\ \E m \in BOOLEAN : docs' = Append(docs, [n |-> born', match |-> m])
    /\ UNCHANGED steady
    /\ Others

\* A replaced document keeps its place.
Replace ==
    /\ Replaces
    /\ \E i \in DOMAIN docs, m \in BOOLEAN :
         /\ docs' = [docs EXCEPT ![i].match = m]
         /\ steady' = IF m THEN steady ELSE steady \ {docs[i].n}
    /\ UNCHANGED born
    /\ Others

Delete ==
    /\ Deletes
    /\ \E i \in DOMAIN docs :
         /\ docs' = RemoveAt(docs, i)
         /\ steady' = steady \ {docs[i].n}
    /\ UNCHANGED born
    /\ Others

\* The client has what it asked for.
Over == done /\ UNCHANGED iterVars

IterNext ==
    \/ \E b \in Batch, skip \in Skip : Call(b, skip)
    \/ NextPage \/ Yield \/ Exhausted \/ Over
    \/ Insert \/ Replace \/ Delete

IterSpec == IterInit /\ [][IterNext]_iterVars

\* The client keeps asking.
FairIterSpec == IterSpec /\ WF_iterVars(NextPage \/ Yield \/ Exhausted)

-----------------------------------------------------------------------------
\* Properties

\* No document is handed out twice, and at the end every document that matched
\* from the call to the end has been handed out, unless it was to be skipped.
\* The bindings promise this of unsorted pages: "the pages are stable because
\* the underlying store is append-only".
PagesStable ==
    /\ twice = {}
    /\ done => steady \subseteq yielded

\* So it is while the matches only grow at their end: others may insert, replace
\* documents that go on matching or go on not to, and delete what never matched.
StableWhileGrowing == ~moved => PagesStable

\* The iterator is exhausted in the end, once nobody adds documents.
IterationEnds == batch # 0 ~> done

-----------------------------------------------------------------------------
\* Inductive invariants

\* Numbers of documents are not used again.
DocInv ==
    /\ docs \in Seq(Doc) /\ born \in 0..MaxDocs
    /\ \A i \in DOMAIN docs : docs[i].n <= born
    /\ \A i, j \in DOMAIN docs : docs[i].n = docs[j].n => i = j

ClientInv ==
    /\ batch \in Nat /\ offset \in Nat /\ full \in BOOLEAN /\ done \in BOOLEAN /\ moved \in BOOLEAN
    /\ page \in Seq(1..MaxDocs) /\ Len(page) <= offset
    /\ batch = 0 => page = <<>> /\ yielded = {} /\ twice = {} /\ ~done /\ ~moved
    /\ done => page = <<>> /\ ~full

\* The numbers of the i-th to the j-th match.
Span(i, j) == {Matching[k].n : k \in i..j}

\* Where the page at hand goes on.
At == offset - Len(page)

\* The client left out s documents and has been handed those behind them, up to
\* the page at hand.  Those it is still to get lie further on, and none of them
\* behind a page that was short.
Walk(s) ==
    /\ s <= At /\ (offset <= Len(Matching) \/ s = offset)
    /\ \A i \in 1..Len(page) : page[i] = Matching[At + i].n
    /\ yielded = Span(s + 1, At) /\ twice = {}
    /\ steady \subseteq Span(s + 1, IF full THEN Len(Matching) ELSE offset)

IInv == DocInv /\ ClientInv /\ (batch # 0 /\ ~moved => \E s \in 0..offset : Walk(s))
=============================================================================
