------------------------------- MODULE Filter --------------------------------
(***************************************************************************)
(* How a filter document is compiled into a tree and the tree matched      *)
(* against documents (internal/engine/compile.go, match.go).  A filter is  *)
(* itself a value, as it comes out of JSON.  A node of the tree is a tuple *)
(* that begins with its operator.                                          *)
(***************************************************************************)
EXTENDS Values

CONSTANTS
    Split,      \* SplitPath: the segments of every key used as a path
    Operator,   \* the keys that begin with a dollar sign
    Atoi,       \* the number of each segment that strconv.Atoi reads
    Regex       \* the strings each pattern matches in; others do not compile

-----------------------------------------------------------------------------
\* Compiling

\* The node over these children, unless one of them was refused.
Over(children, node) == IF \E i \in DOMAIN children : children[i] = Refused THEN Refused ELSE node

\* Several keys of one object are and-ed.
And(nodes) == Over(nodes, IF Len(nodes) = 1 THEN nodes[1] ELSE <<"$and", nodes>>)

Not(node) == Over(<<node>>, <<"$not", node>>)

IsDocument(v) == v[1] = "obj"
HasOperator(o) == DOMAIN o[2] \cap Operator # {}
AllOperators(o) == DOMAIN o[2] \subseteq Operator /\ HasOperator(o)

RECURSIVE CompileDocument(_), CompileField(_, _)

\* $and and $or, with the documents of their array compiled.
CompileBranches(op, arg) ==
    IF arg[1] # "arr" \/ arg[2] = <<>> THEN Refused
    ELSE LET branches == [i \in DOMAIN arg[2] |->
                            IF IsDocument(arg[2][i]) THEN CompileDocument(arg[2][i]) ELSE Refused]
         IN  Over(branches, <<op, branches>>)

CompileLogical(op, arg) ==
    CASE op \in {"$and", "$or"} -> CompileBranches(op, arg)
      [] op = "$not" /\ IsDocument(arg) -> Not(CompileDocument(arg))
      [] OTHER -> Refused

CompileOperator(field, op, arg) ==
    IF \/ op \in {"$eq", "$ne", "$gt", "$gte", "$lt", "$lte"}
       \/ op \in {"$in", "$nin"} /\ arg[1] = "arr"
       \/ op = "$exists" /\ arg[1] = "bool"
       \/ op = "$regex" /\ arg[1] = "str" /\ arg \in DOMAIN Regex
    THEN <<op, Split[field], arg>>
    ELSE IF op = "$not" /\ IsDocument(arg) /\ AllOperators(arg)
    THEN Not(CompileField(field, arg))
    ELSE Refused

\* Mutant of CompileField: an object with some operators in it is a literal.
CompileFieldMixed(field, v) ==
    IF ~(IsDocument(v) /\ AllOperators(v)) THEN <<"$eq", Split[field], v>>
    ELSE And([i \in DOMAIN SortedKeys(v) |->
                CompileOperator(field, SortedKeys(v)[i], v[2][SortedKeys(v)[i]])])

\* An object of operators, or a value the field has to equal.
CompileField(field, v) ==
    IF field = "" THEN Refused
    ELSE IF ~(IsDocument(v) /\ AllOperators(v))
    THEN IF IsDocument(v) /\ HasOperator(v) THEN Refused ELSE <<"$eq", Split[field], v>>
    ELSE And([i \in DOMAIN SortedKeys(v) |->
                CompileOperator(field, SortedKeys(v)[i], v[2][SortedKeys(v)[i]])])

\* matchAll, for the empty filter, is the conjunction of nothing.
CompileDocument(f) ==
    And([i \in DOMAIN SortedKeys(f) |->
           LET key == SortedKeys(f)[i]
           IN  IF key \in Operator THEN CompileLogical(key, f[2][key])
               ELSE CompileField(key, f[2][key])])

-----------------------------------------------------------------------------
\* Matching

RECURSIVE CollectPath(_, _), Match(_, _)

\* Mutant of CollectPath: a segment that is an index of the array is no key.
CollectPathIndexOnly(v, path) ==
    LET into(o) == IF IsDocument(o) /\ Head(path) \in DOMAIN o[2]
                   THEN CollectPath(o[2][Head(path)], Tail(path)) ELSE <<>>
    IN  CASE path = <<>> -> <<v>>
          [] path # <<>> /\ v[1] = "arr" ->
               IF Head(path) \in DOMAIN Atoi /\ Atoi[Head(path)] + 1 \in DOMAIN v[2]
               THEN CollectPath(v[2][Atoi[Head(path)] + 1], Tail(path))
               ELSE FlattenSeq([i \in DOMAIN v[2] |-> into(v[2][i])])
          [] OTHER -> into(v)

\* The values a path leads to: in an array a segment is an index and, besides, a
\* key of each of its objects.
CollectPath(v, path) ==
    LET into(o) == IF IsDocument(o) /\ Head(path) \in DOMAIN o[2]
                   THEN CollectPath(o[2][Head(path)], Tail(path)) ELSE <<>>
    IN  CASE path = <<>> -> <<v>>
          [] path # <<>> /\ v[1] = "arr" ->
               (IF Head(path) \in DOMAIN Atoi /\ Atoi[Head(path)] + 1 \in DOMAIN v[2]
                THEN CollectPath(v[2][Atoi[Head(path)] + 1], Tail(path)) ELSE <<>>)
               \o FlattenSeq([i \in DOMAIN v[2] |-> into(v[2][i])])
          [] OTHER -> into(v)

\* The shortcut for a path of one segment finds the same.
LookupPath(doc, path) ==
    LET found == CollectPath(doc, path) IN IF found = <<>> THEN <<Absent>> ELSE found

\* The value a document is sorted by.
LookupOne(doc, path) == LookupPath(doc, path)[1]

\* The values a comparison looks at: those the path leads to, and the elements of
\* arrays among them.
Tested(doc, path) ==
    LET found == ToSet(LookupPath(doc, path))
    IN  found \cup UNION {ToSet(v[2]) : v \in {v \in found : v[1] = "arr"}}

\* Mutant of MatchValue: the order across kinds counts for operators, too.
MatchValueAcross(op, v, arg) ==
    CASE op = "$eq" -> EqualValues(v, arg)
      [] op = "$gt" -> Compare(v, arg) > 0
      [] op = "$gte" -> Compare(v, arg) >= 0
      [] op = "$lt" -> Compare(v, arg) < 0
      [] op = "$lte" -> Compare(v, arg) <= 0
      [] op = "$in" -> \E i \in DOMAIN arg[2] : EqualValues(v, arg[2][i])
      [] op = "$regex" -> v \in Regex[arg]

\* An ordering operator compares within one kind.
MatchValue(op, v, arg) ==
    LET alike == TypeRank(v) = TypeRank(arg)
    IN  CASE op = "$eq" -> EqualValues(v, arg)
          [] op = "$gt" -> alike /\ Compare(v, arg) > 0
          [] op = "$gte" -> alike /\ Compare(v, arg) >= 0
          [] op = "$lt" -> alike /\ Compare(v, arg) < 0
          [] op = "$lte" -> alike /\ Compare(v, arg) <= 0
          [] op = "$in" -> \E i \in DOMAIN arg[2] : EqualValues(v, arg[2][i])
          [] op = "$regex" -> v \in Regex[arg]

Match(node, doc) ==
    LET op == node[1]
    IN  CASE op = "$and" -> \A i \in DOMAIN node[2] : Match(node[2][i], doc)
          [] op = "$or" -> \E i \in DOMAIN node[2] : Match(node[2][i], doc)
          [] op = "$not" -> ~Match(node[2], doc)
          [] op = "$ne" -> ~Match(<<"$eq", node[2], node[3]>>, doc)
          [] op = "$nin" -> ~Match(<<"$in", node[2], node[3]>>, doc)
          [] op = "$exists" -> Bool(LookupPath(doc, node[2]) # <<Absent>>) = node[3]
          [] OTHER -> \E v \in Tested(doc, node[2]) : MatchValue(op, v, node[3])

-----------------------------------------------------------------------------
\* Reference definitions, over the documents alone

\* Every place in a value: the keys and indexes that lead to it, and what is
\* there.
RECURSIVE Places(_)
Places(v) ==
    LET below(step, w) == {[steps |-> <<step>> \o p.steps, value |-> p.value] : p \in Places(w)}
    IN  {[steps |-> <<>>, value |-> v]} \cup
        CASE v[1] = "obj" -> UNION {below(<<"key", k>>, v[2][k]) : k \in DOMAIN v[2]}
          [] v[1] = "arr" -> UNION {below(<<"at", i - 1>>, v[2][i]) : i \in DOMAIN v[2]}
          [] OTHER -> {}

\* A path names some of the steps to a place, one by each segment, and leaves out
\* only the index of an element whose key it names next.
Leads(path, steps) ==
    \E named \in SUBSET DOMAIN steps :
       /\ Cardinality(named) = Len(path)
       /\ \A i \in named :
            LET seg == path[Cardinality({j \in named : j <= i})]
            IN  \/ steps[i] = <<"key", seg>>
                \/ seg \in DOMAIN Atoi /\ steps[i] = <<"at", Atoi[seg]>>
       /\ \A i \in DOMAIN steps \ named :
            steps[i][1] = "at" /\ i + 1 \in named /\ steps[i + 1][1] = "key"

\* What an operator is applied to: what the path leads to, and the elements of
\* arrays among it.
Subjects(doc, field) ==
    LET there == {p.value : p \in {p \in Places(doc) : Leads(Split[field], p.steps)}}
    IN  there \cup UNION {ToSet(v[2]) : v \in {v \in there : v[1] = "arr"}}

\* The filters that have a meaning, and that meaning: those of docs/filters.md, and
\* $regex besides.
RECURSIVE Sensible(_), SensibleField(_), Means(_, _), MeansField(_, _, _)

SensibleField(v) ==
    IsDocument(v) /\ HasOperator(v) => \A op \in DOMAIN v[2] :
       \/ op \in {"$eq", "$ne", "$gt", "$gte", "$lt", "$lte"}
       \/ op \in {"$in", "$nin"} /\ v[2][op][1] = "arr"
       \/ op = "$exists" /\ v[2][op] \in {Bool(TRUE), Bool(FALSE)}
       \/ op = "$regex" /\ v[2][op] \in DOMAIN Regex
       \/ op = "$not" /\ IsDocument(v[2][op]) /\ HasOperator(v[2][op]) /\ SensibleField(v[2][op])

Sensible(f) ==
    \A k \in DOMAIN f[2] :
       \/ /\ k \in {"$and", "$or"} /\ f[2][k][1] = "arr" /\ f[2][k][2] # <<>>
          /\ \A g \in ToSet(f[2][k][2]) : IsDocument(g) /\ Sensible(g)
       \/ k = "$not" /\ IsDocument(f[2][k]) /\ Sensible(f[2][k])
       \/ k \notin Operator \cup {""} /\ SensibleField(f[2][k])

MeansField(field, v, doc) ==
    LET among == Subjects(doc, field)
        inOrder(arg, signs) == \E x \in among : x[1] = arg[1] /\ Compare(x, arg) \in signs
        holds(op, arg) ==
          CASE op = "$eq" -> arg \in among
            [] op = "$ne" -> arg \notin among
            [] op = "$gt" -> inOrder(arg, {1})
            [] op = "$gte" -> inOrder(arg, {0, 1})
            [] op = "$lt" -> inOrder(arg, {-1})
            [] op = "$lte" -> inOrder(arg, {-1, 0})
            [] op = "$in" -> ToSet(arg[2]) \cap among # {}
            [] op = "$nin" -> ToSet(arg[2]) \cap among = {}
            [] op = "$exists" -> arg = Bool(among # {})
            [] op = "$regex" -> Regex[arg] \cap among # {}
            [] op = "$not" -> ~MeansField(field, arg, doc)
    IN  IF IsDocument(v) /\ HasOperator(v) THEN \A op \in DOMAIN v[2] : holds(op, v[2][op])
        ELSE holds("$eq", v)

Means(f, doc) ==
    \A k \in DOMAIN f[2] :
       CASE k = "$and" -> \A g \in ToSet(f[2][k][2]) : Means(g, doc)
         [] k = "$or" -> \E g \in ToSet(f[2][k][2]) : Means(g, doc)
         [] k = "$not" -> ~Means(f[2][k], doc)
         [] OTHER -> MeansField(k, f[2][k], doc)
=============================================================================
