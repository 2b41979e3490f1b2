----------------------------- MODULE MCDocStore -----------------------------
(***************************************************************************)
(* Instances of DocStore for TLC: two _ids that share a fingerprint,       *)
(* documents of two lengths, and filters that match everything, one _id,   *)
(* or one value.                                                           *)
(***************************************************************************)
EXTENDS DocStoreRefinement, TLC

CONSTANTS a, b, x, y, none, c1, c2

MCFp == [i \in Id |-> 1]
MCStored == [i \in Id |-> i]
MCStoredAlike == [i \in Id |-> a]
MCValLen == (x :> 2) @@ (y :> 3)
MCFilters == {Doc, {d \in Doc : d.id = a}, {d \in Doc : d.val = x}}
=============================================================================
