-------------------------- MODULE LogFileRefinement --------------------------
(***************************************************************************)
(* LogFile as an implementation of DurableLog.                             *)
(***************************************************************************)
EXTENDS LogFile

\* The entry a replay of these cells would make at o, if it finds one.
EntryAt(cells, o) == [rec |-> cells[o + 1].rec, off |-> o]

\* What an Open of these cells would find: the longest run of intact records from
\* the start of the file.
FoundFrom(cells) ==
    LET from[o \in 0..Len(cells)] ==
          IF o < Len(cells) /\ Intact(cells, EntryAt(cells, o))
          THEN <<EntryAt(cells, o)>> \o from[End(EntryAt(cells, o))]
          ELSE <<>>
    IN  from

Found(cells) == FoundFrom(cells)[0]

Recs(ix) == [i \in DOMAIN ix |-> ix[i].rec]

Up == pc \in {"idle", "write", "sync"}

\* The log is what the file would give back; the view is the index.
Abstract == INSTANCE DurableLog WITH
    log <- Recs(Found(file)),
    synced <- Len(promised),
    view <- IF Up THEN Recs(index) ELSE <<>>,
    up <- Up

-----------------------------------------------------------------------------
\* Properties

\* The file layer implements the durable log: every write, flush, crash and
\* replay of store.go is a step the abstract log allows, or changes nothing in it.
ImplementsDurableLog == Abstract!Spec

-----------------------------------------------------------------------------
\* The inductive invariant

\* Behind the first n cells no record comes to its end: what is there are the
\* remains of writes that failed.
NoneEnds(cells, n) ==
    \A j \in (n + 1)..Len(cells) : cells[j].part < PayloadCells[cells[j].rec]

\* One of the two goes on where the other ends.
Begins(ix, jx) == Len(ix) <= Len(jx) /\ Agree(ix, jx)

\* ix is all there is in these cells.
Holds(cells, ix) ==
    /\ TiledFrom(0, ix)
    /\ AllIntact(cells, ix)
    /\ NoneEnds(cells, EndOf(ix))

\* log and flushed are the records of the file and of the device.  The device has a
\* first part of the file's, with all that are promised; the index and what a write
\* has landed are all of the file's records, or those replay has come past.
Logs(log, flushed) ==
    /\ log \in Seq(Entry) /\ Holds(file, log)
    /\ flushed \in Seq(Entry) /\ Holds(disk, flushed)
    /\ Begins(promised, flushed)
    /\ Begins(flushed, log)
    /\ pc \in {"idle", "sync", "closed", "truncated"} => log = index
    /\ pc = "write" => log = index \o landed
    /\ pc = "replay" => Begins(index, log)
    /\ pc = "write" /\ ~batch => Len(landed) + Len(todo) = 1

LogInv == Logs(Found(file), Found(disk))
=============================================================================
