---------------------------- MODULE DurableLog ----------------------------
(***************************************************************************)
(* What the file layer of nosqlite promises, with the file left out.       *)
(*                                                                         *)
(* The store is a sequence of records that only grows while a process has  *)
(* it open.  A crash may cut the sequence back, but never below what an    *)
(* fsync has covered, and the next Open shows exactly what survived: never *)
(* a hole, a reordering or half a record.                                  *)
(***************************************************************************)
EXTENDS Naturals, Sequences

CONSTANT Record            \* what can be appended

VARIABLES
    log,     \* the records the file would give back if it were opened now
    synced,  \* how many of them an fsync has covered
    view,    \* the records the open process shows its readers
    up       \* a process has the file open

vars == <<log, synced, view, up>>

TypeOK ==
    /\ log \in Seq(Record)
    /\ synced \in 0..Len(log)
    /\ view \in Seq(Record)
    /\ up \in BOOLEAN

Init ==
    /\ log = <<>>
    /\ synced = 0
    /\ view = <<>>
    /\ up = TRUE

\* A record has reached the file in full; readers do not see it yet.
Append1(r) ==
    /\ up
    /\ UNCHANGED <<synced, view, up>>
    /\ log' = Append(log, r)

\* Readers are shown everything the file holds.
Publish ==
    /\ up
    /\ UNCHANGED <<synced, up>>
    /\ view' = log
    /\ UNCHANGED log

Flush ==
    /\ up
    /\ UNCHANGED <<view, up>>
    /\ synced' = Len(log)
    /\ UNCHANGED log

\* Close, with or without a flush of what is outstanding.
Stop ==
    /\ up
    /\ up' = FALSE
    /\ view' = <<>>
    /\ synced' \in {synced, Len(log)}
    /\ UNCHANGED log

\* A kill or a power cut: some suffix of what was never flushed is gone.
Crash ==
    /\ up' = FALSE
    /\ view' = <<>>
    /\ UNCHANGED synced
    /\ \E n \in synced..Len(log) : log' = SubSeq(log, 1, n)

\* Open shows what the file holds; repairing a torn tail flushes the file.
Open ==
    /\ ~up
    /\ up' = TRUE
    /\ view' = log
    /\ synced' \in {synced, Len(log)}
    /\ UNCHANGED log

Next ==
    \/ \E r \in Record : Append1(r)
    \/ Publish
    \/ Flush
    \/ Stop
    \/ Crash
    \/ Open

Spec == Init /\ [][Next]_vars
=============================================================================
