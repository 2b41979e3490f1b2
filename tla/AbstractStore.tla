--------------------------- MODULE AbstractStore ---------------------------
(***************************************************************************)
(* What nosqlite promises a caller about its documents: each collection is *)
(* a sequence of documents with distinct _ids; an operation appends        *)
(* documents, swaps one in place or takes some out; a crash takes the      *)
(* whole database back to one of the states it went through since the last *)
(* fsync; and reopening changes nothing.                                   *)
(***************************************************************************)
EXTENDS Naturals, Sequences, SequencesExt

CONSTANTS
    Coll,   \* collections
    Doc     \* documents: records with a field id

VARIABLES
    docs,   \* what each collection shows its readers
    hist,   \* the states a crash can go back to, oldest first
    up      \* a process has the database open

vars == <<docs, hist, up>>

TypeOK ==
    /\ docs \in [Coll -> Seq(Doc)]
    /\ hist \in Seq([Coll -> Seq(Doc)])
    /\ hist # <<>>
    /\ up \in BOOLEAN

Distinct(s) == \A i, j \in DOMAIN s : s[i].id = s[j].id => i = j

\* t is s with documents of new _ids behind it.
Extends(s, t) == IsPrefix(s, t) /\ Distinct(t)

\* t is s with one document swapped for another of the same _id.
Swaps(s, t) ==
    /\ Len(t) = Len(s)
    /\ \E i \in DOMAIN s :
         /\ t[i].id = s[i].id
         /\ \A j \in DOMAIN s \ {i} : t[j] = s[j]

\* t is s without some of its documents.
Drops(s, t) ==
    \E f \in [DOMAIN t -> DOMAIN s] :
        /\ \A i, j \in DOMAIN t : i < j => f[i] < f[j]
        /\ \A i \in DOMAIN t : t[i] = s[f[i]]

\* One operation, on one collection, took the database from a to b.
Result(a, b) ==
    \E c \in Coll :
       /\ \A o \in Coll \ {c} : b[o] = a[o]
       /\ \/ Extends(a[c], b[c])
          \/ Swaps(a[c], b[c])
          \/ Drops(a[c], b[c])

Empty == [c \in Coll |-> <<>>]

Init ==
    /\ docs = Empty
    /\ hist = <<Empty>>
    /\ up = TRUE

\* An operation lands, one recoverable state per record, and may be flushed.
Write ==
    /\ up
    /\ Result(docs, docs')
    /\ \/ hist' = <<docs'>>
       \/ /\ IsPrefix(hist, hist')
          /\ Last(hist') = docs'
          /\ \A i \in Len(hist)..(Len(hist') - 1) : Result(hist'[i], hist'[i + 1])
    /\ UNCHANGED up

Flush ==
    /\ up
    /\ hist' = <<docs>>
    /\ UNCHANGED <<docs, up>>

Crash ==
    /\ \E n \in DOMAIN hist : hist' = SubSeq(hist, 1, n)
    /\ docs' = Empty
    /\ up' = FALSE

Close ==
    /\ up
    /\ hist' \in {hist, <<docs>>}
    /\ docs' = Empty
    /\ up' = FALSE

Open ==
    /\ ~up
    /\ docs' = Last(hist)
    /\ hist' \in {hist, <<Last(hist)>>}
    /\ up' = TRUE

Next == Write \/ Flush \/ Crash \/ Close \/ Open

Spec == Init /\ [][Next]_vars
=============================================================================
