-------------------------- MODULE DocStoreRefinement --------------------------
(***************************************************************************)
(* What a caller is promised (AbstractStore), read off the state of the    *)
(* collections and the file.                                               *)
(***************************************************************************)
EXTENDS DocStore

\* The documents each collection has after the first n of these records.
HeldBy(recs, n) == [c \in Coll |-> DocsOf(recs, c)[n]]

\* What each collection of an open database shows.
ShownAll == [c \in Coll |-> IF mode = "open" THEN Shown(c) ELSE <<>>]

\* A crash can take the database back to what it held after any record that no
\* fsync has covered.
Recoverable == [i \in 1..(Len(log) - synced + 1) |-> HeldBy(log, synced + i - 1)]

Abstract == INSTANCE AbstractStore WITH
    docs <- ShownAll,
    hist <- Recoverable,
    up <- mode = "open"

\* Every operation, crash and replay of the collections is a step of the store
\* a caller is promised, or changes nothing in it.
ImplementsStore == Abstract!Spec
=============================================================================
