----------------------------- MODULE MCQueryExec -----------------------------
(***************************************************************************)
(* Instances of QueryExec for TLC: every filter and every projection of a  *)
(* small vocabulary over one collection that holds all kinds of values,    *)
(* and every order, skip and limit over small collections.                 *)
(***************************************************************************)
EXTENDS QueryEngine

MCKeyOrder ==
    <<"", "$and", "$bad", "$eq", "$exists", "$gt", "$gte", "$in", "$lt", "$lte", "$ne", "$nin",
      "$not", "$or", "$regex", "0", "_id", "a", "a.", "a.$", "a.0", "a.0.b", "a.b", "b">>
MCOperator == {"$and", "$bad", "$eq", "$exists", "$gt", "$gte", "$in", "$lt", "$lte", "$ne",
               "$nin", "$not", "$or", "$regex"}
MCSplit ==
    [k \in ToSet(MCKeyOrder) |->
       CASE k = "a." -> <<"a", "">>
         [] k = "a.$" -> <<"a", "$">>
         [] k = "a.0" -> <<"a", "0">>
         [] k = "a.0.b" -> <<"a", "0", "b">>
         [] k = "a.b" -> <<"a", "b">>
         [] OTHER -> <<k>>]
MCAtoi == [k \in {"0"} |-> 0]
\* The second string is a pattern, found in itself and in the third; the fourth is
\* no pattern.
MCRegex == [p \in {Str(1), Str(2), Str(3)} |->
              IF p = Str(2) THEN {Str(2), Str(3)} ELSE {p}]

\* An object with these keys and values.
O1(k, v) == Obj(k :> v)
O2(k, v, l, w) == Obj(k :> v @@ l :> w)
Empty == Obj(Nothing)

Scalar == {Null, Num(1), Num(2), Str(2), Str(3), Bool(TRUE)}
Operand == Scalar \cup {Empty, O1("b", Num(1)), Arr(<<>>), Arr(<<Num(1)>>)}

\* Values of the field a of a document.
Inside ==
    Operand \cup
    {Bool(FALSE), Arr(<<Num(1), Num(2)>>), Arr(<<Str(3), Null>>), Arr(<<Arr(<<Num(1)>>)>>),
     Arr(<<Num(2), O1("b", Num(1))>>), Arr(<<O1("b", Num(1)), O1("b", Num(2))>>),
     Arr(<<O1("b", Arr(<<Num(1), Num(2)>>))>>), Arr(<<O1("0", Num(1)), Num(2)>>),
     Arr(<<Arr(<<O1("b", Num(1))>>)>>), Arr(<<Empty>>),
     O1("b", Num(2)), O1("b", Null), O1("b", Str(2)), O1("b", Arr(<<Num(1), Num(2)>>)),
     O1("b", Arr(<<O1("b", Num(1))>>)),
     O1("0", Num(1)), O1("0", O1("b", Num(1))), O2("0", Num(1), "b", Num(2))}

\* One document without a, then one for every value of it.
Collection ==
    FoldSet(LAMBDA v, docs : Append(docs, O2("_id", Str(1), "a", v)),
            <<O1("_id", Str(1)), O2("_id", Str(1), "b", Num(1))>>, Inside)

Field == {"a", "a.b", "a.0", "a.0.b", "b"}

\* Operator documents, one operator each, and their combinations.
Single ==
    {O1(op, v) : op \in {"$eq", "$ne", "$gt", "$gte", "$lt", "$lte"}, v \in Operand}
    \cup {O1(op, v) : op \in {"$in", "$nin"},
             v \in {Arr(<<>>), Arr(<<Num(1), Str(2)>>), Arr(<<Null, Arr(<<Num(1)>>)>>), Num(1)}}
    \cup {O1("$exists", v) : v \in {Bool(TRUE), Bool(FALSE), Num(1)}}
    \cup {O1("$regex", v) : v \in {Str(2), Str(4), Num(1)}}
Constraint ==
    Single \cup Operand
    \cup {O1("$not", v) : v \in {O1("$gt", Num(1)), O1("$regex", Str(2)), O1("$bad", Null),
                                 O2("$gt", Null, "$ne", Num(2)), Empty, Num(1), O1("b", Num(1))}}
    \cup {O2("$gte", Num(1), "$lt", Num(2)), O2("$gt", Num(1), "b", Num(1)),
          O1("$bad", Num(1)), O1("$and", Arr(<<Empty>>))}

Branch2 == {Empty, O1("a", Num(1)), O1("b", Num(1)), O1("a", O1("$gt", Num(1))), O1("", Num(1)),
            O1("a", O1("$bad", Num(1))), Num(1)}
Filter1 ==
    {Empty} \cup {O1(f, v) : f \in Field, v \in Constraint}
    \cup {O1(op, Arr(<<f, g>>)) : op \in {"$and", "$or"}, f \in Branch2, g \in Branch2}
    \cup {O1(op, v) : op \in {"$and", "$or"}, v \in {Arr(<<>>), Empty, Arr(<<O1("a.b", Num(1))>>)}}
    \cup {O1("$not", f) : f \in Branch2} \cup {O1("$bad", Empty), O1("", Num(1))}
    \cup {O2("a", v, "b", w) : v \in {Num(1), O1("$ne", Num(1))}, w \in {Num(1), O1("$exists", Bool(FALSE))}}
    \cup {O2("$or", Arr(<<O1("a", Num(1)), O1("b", Num(1))>>), "a", v) : v \in {Num(1), Arr(<<Num(1)>>)}}

\* Projections: each field kept, dropped or not mentioned.
Projection1 ==
    UNION {{Obj(f) : f \in [fs -> {Num(0), Num(1)}]} : fs \in SUBSET {"_id", "a", "a.b", "a.0", "a.0.b", "b"}}
    \cup {O1(f, v) : f \in {"", "a.", "a.$", "$bad", "a"}, v \in {Num(1), Bool(FALSE), Str(2), Empty}}

\* The values that are compared: those in documents and in constraints, and the
\* keys of objects.
Compared ==
    {Absent} \cup {Str(n) : n \in DOMAIN MCKeyOrder}
    \cup {p.value : p \in UNION {Places(v) : v \in Inside \cup Constraint}}

RECURSIVE NestingOf(_)
NestingOf(v) ==
    1 + (CASE v[1] = "arr" -> Max({0} \cup {NestingOf(w) : w \in ToSet(v[2])})
           [] v[1] = "obj" -> Max({1} \cup {NestingOf(v[2][k]) : k \in DOMAIN v[2]})
           [] OTHER -> 0)
MCNesting == [v \in Compared |-> NestingOf(v)]

By(field, desc) == [field |-> field, desc |-> desc]

\* Collections of small documents, whose field b the filter may look at.
Small(n) == UNION {[1..m -> {O2("a", v, "b", w) : v \in {Num(1), Num(2)}, w \in {Num(1), Num(2)}}] : m \in 0..n}
Sorts == {<<>>, <<By("a", TRUE)>>} \cup
         {<<By("a", d), By("b", e)>> : d \in BOOLEAN, e \in BOOLEAN}

\* Each filter, each projection, and sorts of the collection of all values, then
\* pages of small collections.
MCQueries ==
    <<[filter : Filter1, projection : {Empty}, sort : {<<>>}, skip : {0}, limit : {0},
       docs : {Collection}],
      [filter : {Empty}, projection : Projection1, sort : {<<>>}, skip : {0}, limit : {0},
       docs : {Collection}],
      [filter : {Empty}, projection : {Empty, O1("b", Num(1))},
       sort : {<<By(f, d)>> : f \in {"a", "a.b", ""}, d \in BOOLEAN},
       skip : {0, 3}, limit : {0, 5}, docs : {Collection}],
      [filter : {Empty, O1("b", Num(1))}, projection : {Empty}, sort : Sorts,
       skip : 0..2, limit : 0..2, docs : Small(3)]>>

\* A skip and a limit near the largest int.
MCHuge ==
    <<[filter : {Empty}, projection : {Empty}, sort : Sorts, skip : {0, 1, 7}, limit : {0, 1, 7},
       docs : Small(1)]>>

-----------------------------------------------------------------------------
\* What filters, projections and sort keys do, worked out in advance for every
\* query and document that can meet.

Asked == MCQueries \o MCHuge
Given == DOMAIN Asked
FiltersIn(i) == {q.filter : q \in Asked[i]}
ProjectionsIn(i) == {q.projection : q \in Asked[i]}
DocumentsIn(i) == UNION {ToSet(docs) : docs \in {q.docs : q \in Asked[i]}}
FieldsIn(i) == UNION {{k.field : k \in ToSet(by)} : by \in {q.sort : q \in Asked[i]}}

\* A function whose values are all worked out once.
Tabulated(f) == f @@ Nothing

FilterTable == Tabulated([f \in UNION {FiltersIn(i) : i \in Given} |-> CompileDocument(f)])
ProjectionTable ==
    Tabulated([p \in UNION {ProjectionsIn(i) : i \in Given} |-> CompileProjection(p)])

\* Filters and projections that are accepted, and what they are compiled to.
Accepted(i) == {f \in FiltersIn(i) : FilterTable[f] # Refused}
MatchersIn(i) == {FilterTable[f] : f \in Accepted(i)}
TreesIn(i) == {ProjectionTable[p] : p \in ProjectionsIn(i)} \ {Refused}

\* What Op makes of all it meets: what is in the sets In, and the documents these
\* are put to.
Met(In(_), Op(_, _)) ==
    LET groups == [i \in Given |-> In(i)]
        facing(x) == UNION {DocumentsIn(i) : i \in {j \in Given : x \in groups[j]}}
    IN  Tabulated([x \in UNION {groups[i] : i \in Given} |->
                     Tabulated([d \in facing(x) |-> Op(x, d)])])

MeaningTable == Met(Accepted, Means)
MatchTable == Met(MatchersIn, Match)
ProjectedTable == Met(TreesIn, Apply)
KeyTable == Met(FieldsIn, LAMBDA f, d : SortKey(d, f))

MCFilterOf(filter) == FilterTable[filter]
MCPasses(compiled, doc) == MatchTable[compiled][doc]
MCMeant(filter, doc) == MeaningTable[filter][doc]
MCProjectionOf(projection) == ProjectionTable[projection]
MCProjected(tree, doc) == ProjectedTable[tree][doc]
MCKeyOf(doc, field) == KeyTable[field][doc]
=============================================================================
