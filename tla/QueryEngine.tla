----------------------------- MODULE QueryEngine -----------------------------
(***************************************************************************)
(* Queries over this filter compiler, matcher and projection: QueryExec,   *)
(* with its constants given by the operators of Filter and Projection (by  *)
(* the configurations, through the tables of MCQueryExec), and what a      *)
(* query may rely on.                                                      *)
(***************************************************************************)
EXTENDS QueryExec, Projection

\* LookupOne of the split path of a sort key.
SortKey(doc, field) == LookupOne(doc, Split[field])

-----------------------------------------------------------------------------
\* Properties

\* A filter is refused before the scan exactly when it has no meaning (an unknown
\* operator, operators among plain keys, an operand of the wrong kind, anywhere in
\* it), and otherwise matches the documents it means.
FilterMeansWhatItSays ==
    state # "start" /\ scanned = 0 =>
       /\ matcher = Refused <=> ~Sensible(query.filter)
       /\ matcher # Refused => \A d \in ToSet(query.docs) : Match(matcher, d) = Means(query.filter, d)

\* A projection that is accepted returns every scalar of a document under the
\* fields it asks for, and _id, and none under those it excludes, however its paths
\* overlap.
ProjectionReturnsWanted ==
    state = "scan" /\ scanned = 0 => \A d \in ToSet(query.docs) :
       Scalars(Apply(proj, d)) = Wanted(query.projection, d)

\* docs/filters.md: $regex, and the positional $ of a projection, are not supported
\* and are rejected rather than ignored.
UnsupportedIsRejected ==
    state = "scan" =>
       /\ \A p \in Places(query.filter) : <<"key", "$regex">> \notin ToSet(p.steps)
       /\ \A f \in DOMAIN query.projection[2] : "$" \notin ToSet(Split[f])
=============================================================================
