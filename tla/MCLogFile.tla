----------------------------- MODULE MCLogFile -----------------------------
(***************************************************************************)
(* Instances of LogFile for TLC: a short insert, a long one, and a         *)
(* tombstone.  The lengths differ so that a shorter record can be written  *)
(* over the remains of a longer one.                                       *)
(***************************************************************************)
EXTENDS WalkFile, LogFileRefinement, TLC

CONSTANTS short, long, tomb

MCPayloadCells == (short :> 1) @@ (long :> 3) @@ (tomb :> 1)
=============================================================================
