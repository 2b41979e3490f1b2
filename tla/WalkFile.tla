------------------------------ MODULE WalkFile ------------------------------
(***************************************************************************)
(* The offline walk over a file (store.go, WalkFile) and what nsq verify   *)
(* makes of it (cmd/nsq).  It parses the same cells as replay by code of   *)
(* its own: it changes nothing, reads every payload, and goes on behind a  *)
(* bad checksum.  Neither looks here at what an intact record says: the    *)
(* walk never does, and replay's dispatch is in DocStore and Catalog.      *)
(***************************************************************************)
EXTENDS LogFile

\* Mutant of WalkTorn: a record that ends with the file is torn.
WalkTornAtEnd(cells, e) == cells[e.off + 1].part # 0 \/ End(e) >= Len(cells)

\* The header cell is none, or promises more than is there.
WalkTorn(cells, e) == cells[e.off + 1].part # 0 \/ End(e) > Len(cells)

\* The records handed to the callback, each with its CRCOK, and whether the walk
\* ended in an error.
Walk(cells) ==
    LET from[off \in 0..Len(cells)] ==
          IF off = Len(cells) THEN [recs |-> <<>>, torn |-> FALSE]
          ELSE LET e == [rec |-> cells[off + 1].rec, off |-> off]
               IN  IF WalkTorn(cells, e) THEN [recs |-> <<>>, torn |-> TRUE]
                   ELSE [recs |-> <<[at |-> e, crcOK |-> Intact(cells, e)]>> \o from[End(e)].recs,
                         torn |-> from[End(e)].torn]
    IN  from[0]

\* cmdVerify: bad checksums make the exit status 1, a torn tail is only printed.
Bad(w) == {i \in DOMAIN w.recs : ~w.recs[i].crcOK}
Silent(w) == ~w.torn /\ Bad(w) = {}

-----------------------------------------------------------------------------
\* nsq verify and the replay of the same file agree on its framing and checksums:
\* every record replay takes is one the walk shows, with a good checksum; a file
\* whose end replay reaches is one verify finds nothing wrong with; and where it
\* finds nothing wrong, framing and checksums never make replay cut the file or
\* refuse it.  Replay may still refuse such a file for what its records say.
VerifySeesDamage ==
    pc = "replay" =>
        LET w == Walk(file)
        IN  /\ \A i \in DOMAIN index : i \in DOMAIN w.recs \ Bad(w) /\ w.recs[i].at = index[i]
            /\ AtEnd => Silent(w) /\ Len(w.recs) = Len(index)
            /\ ~AtEnd /\ Silent(w) => ~Misframed /\ ~BadChecksum
=============================================================================
