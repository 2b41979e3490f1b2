------------------------------ MODULE QueryExec ------------------------------
(***************************************************************************)
(* A query from its call to the page it returns (query.go, scan.go,        *)
(* internal/engine/sort.go): the filter and the projection are compiled,   *)
(* the scan hands over one document after the other, and the matches come  *)
(* out in insertion order with an early stop, through a bounded heap of    *)
(* skip + limit entries, or by sorting all of them.  The heap is Go's      *)
(* container/heap over a slice, positions counted from 0 as in the code.   *)
(* What filters and projections do is left to the constants.               *)
(***************************************************************************)
EXTENDS Values

CONSTANTS
    Queries,            \* several sets of queries: filter, projection, sort, skip,
                        \* limit, and the documents of the collection as inserted
    IntMax,             \* largest int
    FilterOf(_),        \* what a filter is compiled to
    Passes(_, _),       \* that, and a document: does it match?
    Meant(_, _),        \* a filter and a document: should it match?
    ProjectionOf(_),    \* what a projection is compiled to
    Projected(_, _),    \* that, and a document: what is left of it
    KeyOf(_, _)         \* a document and a field to sort by: its value there

ASSUME IntAssumption == IntMax \in Nat
ASSUME QueryAssumption ==
    \A i \in DOMAIN Queries : \A q \in Queries[i] :
       /\ q.skip \in 0..IntMax /\ q.limit \in 0..IntMax
       /\ q.docs \in Seq(ToSet(q.docs))
       /\ q.sort \in Seq([field : STRING, desc : BOOLEAN])
       /\ \A n \in DOMAIN q.docs, k \in DOMAIN q.sort : KeyOf(q.docs[n], q.sort[k].field) \in Value

VARIABLES
    query,     \* the query at hand
    matcher,   \* its compiled filter
    proj,      \* its compiled projection
    scanned,   \* stats.scanned
    matched,   \* stats.matched
    kept,      \* entries kept so far: the heap, or all
    emitted,   \* what the caller has been handed
    state      \* "start", "scan", "emit", "done", "refused" or "panic"

vars == <<query, matcher, proj, scanned, matched, kept, emitted, state>>

Wrap(n) == IF n > IntMax THEN n - 2 * (IntMax + 1) ELSE n

\* Mutant of K: the skipped entries are not kept.
KLimit == query.limit

\* How many entries the heap holds at most.
K == Wrap(query.skip + query.limit)

Sorted == query.sort # <<>>
Bounded == query.limit > 0

Init ==
    /\ \E i \in DOMAIN Queries : query \in Queries[i]
    /\ matcher = Refused
    /\ proj = Refused
    /\ scanned = 0
    /\ matched = 0
    /\ kept = <<>>
    /\ emitted = <<>>
    /\ state = "start"

-----------------------------------------------------------------------------
\* The order

\* entryLess: the first key that differs decides, then the place in the scan.
EntryLess(a, b) ==
    LET differ == {i \in DOMAIN query.sort : ~EqualValues(a.keys[i], b.keys[i])}
    IN  IF differ = {} THEN a.seq < b.seq
        ELSE LET i == Min(differ)
             IN  (Compare(a.keys[i], b.keys[i]) < 0) # query.sort[i].desc

\* sort.SliceStable by entryLess: before an entry come those less than it and,
\* where they stood before it already, those it is not less than.
SortEntries(entries) ==
    LET before(i) == {j \in DOMAIN entries :
                        \/ EntryLess(entries[j], entries[i])
                        \/ j < i /\ ~EntryLess(entries[i], entries[j])}
        place == [i \in DOMAIN entries |-> Cardinality(before(i)) + 1]
    IN  [k \in DOMAIN entries |-> entries[CHOOSE i \in DOMAIN entries : place[i] = k]]

-----------------------------------------------------------------------------
\* The heap

Slot(h, i) == h[i + 1]

\* Reversed, so that the root is the worst entry.
Less(h, i, j) == EntryLess(Slot(h, j), Slot(h, i))

Swap(h, i, j) == [h EXCEPT ![i + 1] = Slot(h, j), ![j + 1] = Slot(h, i)]

Parent(i) == (i - 1) \div 2

\* A turn of the loop in up: the entry at pos goes up if it is worse than its
\* parent.  Once it is not, the loop has ended.
UpTurn(w) ==
    IF w.pos = 0 \/ ~Less(w.heap, w.pos, Parent(w.pos)) THEN w
    ELSE [heap |-> Swap(w.heap, Parent(w.pos), w.pos), pos |-> Parent(w.pos)]

Up(h, j) ==
    LET turn[k \in 0..j] == IF k = 0 THEN [heap |-> h, pos |-> j] ELSE UpTurn(turn[k - 1])
    IN  turn[j].heap

\* The child that is to come up, among the first n entries.
Child(h, i, n) ==
    IF 2 * i + 2 < n /\ Less(h, 2 * i + 2, 2 * i + 1) THEN 2 * i + 2 ELSE 2 * i + 1

\* A turn of the loop in down.
DownTurn(w, n) ==
    LET child == Child(w.heap, w.pos, n)
    IN  IF 2 * w.pos + 1 >= n \/ ~Less(w.heap, child, w.pos) THEN w
        ELSE [heap |-> Swap(w.heap, w.pos, child), pos |-> child]

Down(h, i, n) ==
    LET turn[k \in 0..n] == IF k = 0 THEN [heap |-> h, pos |-> i] ELSE DownTurn(turn[k - 1], n)
    IN  turn[n].heap

Push(h, e) == Up(Append(h, e), Len(h))

Pop(h) == Front(Down(Swap(h, 0, Len(h) - 1), 0, Len(h) - 1))

\* Mutant of Add: a newcomer pushes out the root without being compared.
AddAlways(h, e) == IF Len(h) < K THEN Push(h, e) ELSE Push(Pop(h), e)

\* Mutant of Add: the root is never popped.
AddKeepsAll(h, e) == Push(h, e)

\* TopK.Add.
Add(h, e) ==
    IF Len(h) < K THEN Push(h, e)
    ELSE IF ~EntryLess(e, Slot(h, 0)) THEN h
    ELSE Pop(Push(h, e))

-----------------------------------------------------------------------------
\* The query

\* What the caller asked for, and what that was compiled to.
Compiled == UNCHANGED <<query, matcher, proj>>

Unstarted == UNCHANGED <<scanned, matched, kept, emitted>>

\* validate, CompileFilter, CompileProjection; with a sort and a limit NewTopK then
\* makes a slice of capacity k + 1, which panics when that is negative.
Start ==
    /\ state = "start"
    /\ matcher' = FilterOf(query.filter)
    /\ proj' = ProjectionOf(query.projection)
    /\ state' = IF \/ matcher' = Refused \/ proj' = Refused
                   \/ \E i \in DOMAIN query.sort : query.sort[i].field = ""
                THEN "refused"
                ELSE IF Sorted /\ Bounded /\ Wrap(K + 1) < 0 THEN "panic" ELSE "scan"
    /\ UNCHANGED query
    /\ Unstarted

Document == query.docs[scanned + 1]

\* The scan hands the next document to the visitor, which finds that it matches.
Scan(matches) ==
    /\ state = "scan"
    /\ scanned < Len(query.docs)
    /\ Passes(matcher, Document) = matches
    /\ scanned' = scanned + 1
    /\ matched' = matched + (IF matches THEN 1 ELSE 0)
    /\ Compiled

Drop == Scan(FALSE) /\ UNCHANGED <<kept, emitted, state>>

\* runUnsorted: emit at once, unless skipped, and stop at the limit.
Unsorted ==
    /\ Scan(TRUE)
    /\ ~Sorted
    /\ emitted' = IF matched' > query.skip THEN Append(emitted, Projected(proj, Document)) ELSE emitted
    /\ state' = IF Bounded /\ Len(emitted') >= query.limit THEN "done" ELSE state
    /\ UNCHANGED kept

\* Mutant of EntryOf: the keys are taken from what is left of the document.
EntryOfProjected(doc, seq) ==
    [doc |-> Projected(proj, doc), seq |-> seq,
     keys |-> [k \in DOMAIN query.sort |-> KeyOf(Projected(proj, doc), query.sort[k].field)]]

\* The keys come from the whole document.
EntryOf(doc, seq) ==
    [doc |-> Projected(proj, doc), seq |-> seq,
     keys |-> [k \in DOMAIN query.sort |-> KeyOf(doc, query.sort[k].field)]]

\* runSorted's visitor.
Collect ==
    /\ Scan(TRUE)
    /\ Sorted
    /\ kept' = IF Bounded THEN Add(kept, EntryOf(Document, matched'))
               ELSE Append(kept, EntryOf(Document, matched'))
    /\ UNCHANGED <<emitted, state>>

ScanEnds ==
    /\ state = "scan"
    /\ scanned = Len(query.docs)
    /\ kept' = SortEntries(kept)
    /\ state' = IF Sorted THEN "emit" ELSE "done"
    /\ UNCHANGED <<scanned, matched, emitted>>
    /\ Compiled

\* runSorted hands out what is behind the skip, up to the limit.
EmitSorted ==
    LET behind == IF query.skip < Len(kept) THEN Len(kept) - query.skip ELSE 0
        returned == IF Bounded /\ query.limit < behind THEN query.limit ELSE behind
    IN  /\ state = "emit"
        /\ emitted' = [i \in 1..returned |-> kept[query.skip + i].doc]
        /\ state' = "done"
        /\ UNCHANGED <<scanned, matched, kept>>
        /\ Compiled

\* The call has returned, or its panic has been passed on.
Returned == state \in {"done", "refused", "panic"} /\ UNCHANGED vars

Next == Start \/ Drop \/ Unsorted \/ Collect \/ ScanEnds \/ EmitSorted \/ Returned

Spec == Init /\ [][Next]_vars

-----------------------------------------------------------------------------
\* Properties

\* The documents among the first n that match.
Hits(n) == {i \in 1..n : Meant(query.filter, query.docs[i])}

\* Those documents, each with its keys, in the order of the scan.
Found(n) ==
    [m \in 1..Cardinality(Hits(n)) |->
       LET doc == query.docs[Nth(Hits(n), m)]
       IN  [doc |-> doc, seq |-> m,
            keys |-> [k \in DOMAIN query.sort |-> KeyOf(doc, query.sort[k].field)]]]

\* Entries in the order asked for, ties in the order of the scan.
Ordered(s) ==
    LET before(e) == Cardinality({f \in ToSet(s) : EntryLess(f, e)})
        place == [e \in ToSet(s) |-> before(e) + 1]
    IN  IF Sorted THEN [k \in DOMAIN s |-> CHOOSE e \in ToSet(s) : place[e] = k] ELSE s

\* What lies between the skip and the limit.
PageOf(s) ==
    LET fits == {k \in DOMAIN s : query.skip < k /\ (Bounded => k <= query.skip + query.limit)}
    IN  [i \in 1..Cardinality(fits) |-> s[query.skip + i]]

\* All three ways yield the same page: what lies between the skip and the limit
\* of all matches in order.
PageIsReference ==
    state = "done" =>
       LET wanted == PageOf(Ordered(Found(Len(query.docs))))
       IN  emitted = [i \in DOMAIN wanted |-> Projected(proj, wanted[i].doc)]

\* At every moment the heap holds the best of the matches so far, as many as it
\* may, and each of them is worse than its children.
HeapHoldsBest ==
    state = "scan" /\ Sorted /\ Bounded =>
       LET seen == Ordered(Found(scanned))
       IN  /\ Len(kept) = Min({K, matched})
           /\ {e.seq : e \in ToSet(kept)} = {seen[k].seq : k \in 1..Len(kept)}
           /\ \A i \in 1..(Len(kept) - 1) : ~Less(kept, i, Parent(i))

\* The values a collection is sorted by, of whatever kinds they are and absent
\* ones among them, are in one total order, so that a page does not depend on
\* the order in which the heap compared them.
SortKeysAreOrdered ==
    state = "scan" /\ scanned = 0 =>
       TotalOrder(UNION {{KeyOf(query.docs[n], query.sort[i].field) : n \in DOMAIN query.docs} :
                            i \in DOMAIN query.sort})

\* query.go: Limit caps the number of documents returned.  Every query that
\* validate accepts is answered.
AlwaysAnswered == state # "panic"
=============================================================================
