----------------------------- MODULE Projection ------------------------------
(***************************************************************************)
(* How a projection document is compiled and narrows a document on its way *)
(* out (internal/engine/projection.go).                                    *)
(***************************************************************************)
EXTENDS Filter, TLC

\* A node of the tree of named paths: a leaf names all that is below it.
Branch(children) == [leaf |-> FALSE, children |-> children]
Nothing == [k \in {} |-> Null]
Leaf == [leaf |-> TRUE, children |-> Nothing]
Root == Branch(Nothing)

\* No projection: the document whole.
Whole == <<"exclude", Root>>

-----------------------------------------------------------------------------
\* Compiling

RECURSIVE InsertPath(_, _)

\* Mutant of InsertPath: a longer path narrows a shorter one.
InsertPathNarrows(node, path) ==
    IF path = <<>> THEN Leaf
    ELSE LET seg == Head(path)
             next == IF seg \in DOMAIN node.children THEN node.children[seg] ELSE Root
         IN  Branch(seg :> InsertPath(next, Tail(path)) @@ node.children)

\* insert: a shorter path covers a longer one, whichever comes first.
InsertPath(node, path) ==
    IF path = <<>> \/ node.leaf THEN Leaf
    ELSE LET seg == Head(path)
             next == IF seg \in DOMAIN node.children THEN node.children[seg] ELSE Root
         IN  Branch(seg :> InsertPath(next, Tail(path)) @@ node.children)

\* projectionValue and validPath accept the value and the path of a field.
ValidField(field, v) ==
    /\ v[1] \in {"bool", "num"}
    /\ "" \notin ToSet(Split[field])
    /\ field \notin Operator

\* The fields of a projection to keep, or to drop.
Fields(spec, keep) ==
    SelectSeq(SortedKeys(spec), LAMBDA k : (spec[2][k] \notin {Bool(FALSE), Num(0)}) = keep)

\* Mutant of Contradict: only the same path is a contradiction.
ContradictSame(p, q) == p = q

\* One of two paths names the other's field or a part of it.
Contradict(p, q) == IsPrefix(p, q) \/ IsPrefix(q, p)

CompileProjection(spec) ==
    LET incl == Fields(spec, TRUE)
        excl == Fields(spec, FALSE)
        tree(fields) == FoldLeft(LAMBDA node, f : InsertPath(node, Split[f]), Root, fields)
    IN  IF \E k \in DOMAIN spec[2] : ~ValidField(k, spec[2][k]) THEN Refused
        ELSE IF incl = <<>> THEN <<"exclude", tree(excl)>>
        ELSE IF \E p \in ToSet(incl), q \in ToSet(excl) : Contradict(Split[p], Split[q]) THEN Refused
        ELSE <<"include",
               IF "_id" \in ToSet(excl) THEN tree(incl) ELSE InsertPath(tree(incl), <<"_id">>)>>

-----------------------------------------------------------------------------
\* Applying

RECURSIVE IncludeMap(_, _), ExcludeMap(_, _)

Documents(s) == SelectSeq(s, IsDocument)

\* What is kept of a value in which the path goes on.
IncludeValue(v, node) ==
    IF IsDocument(v) THEN IncludeMap(v, node)
    ELSE Arr([i \in DOMAIN Documents(v[2]) |-> IncludeMap(Documents(v[2])[i], node)])

\* Only what the tree names: nothing of a scalar in which the path goes on, nor
\* of the elements of an array that are no documents.
IncludeMap(o, node) ==
    LET kept == {k \in DOMAIN node.children \cap DOMAIN o[2] :
                    node.children[k].leaf \/ o[2][k][1] \in {"arr", "obj"}}
    IN  Obj([k \in kept |-> IF node.children[k].leaf THEN o[2][k]
                            ELSE IncludeValue(o[2][k], node.children[k])])

ExcludeValue(v, node) ==
    CASE IsDocument(v) -> ExcludeMap(v, node)
      [] v[1] = "arr" -> Arr([i \in DOMAIN v[2] |->
                                IF IsDocument(v[2][i]) THEN ExcludeMap(v[2][i], node) ELSE v[2][i]])
      [] OTHER -> v

\* Mutant of ExcludeMap: elements of arrays are kept whole.
ExcludeMapObjects(o, node) ==
    LET named(k) == k \in DOMAIN node.children
        kept == {k \in DOMAIN o[2] : ~(named(k) /\ node.children[k].leaf)}
    IN  Obj([k \in kept |-> IF named(k) /\ IsDocument(o[2][k])
                            THEN ExcludeMap(o[2][k], node.children[k]) ELSE o[2][k]])

\* All but what the tree names.
ExcludeMap(o, node) ==
    LET named(k) == k \in DOMAIN node.children
        kept == {k \in DOMAIN o[2] : ~(named(k) /\ node.children[k].leaf)}
    IN  Obj([k \in kept |-> IF named(k) THEN ExcludeValue(o[2][k], node.children[k])
                            ELSE o[2][k]])

Apply(proj, doc) ==
    IF proj[1] = "include" THEN IncludeMap(doc, proj[2]) ELSE ExcludeMap(doc, proj[2])

-----------------------------------------------------------------------------
\* Reference definitions, over the documents alone

\* The scalars of a document, each with the keys that lead to it; the index of an
\* element is left open.
Scalars(doc) ==
    {[steps |-> [i \in DOMAIN p.steps |-> IF p.steps[i][1] = "at" THEN <<"at">> ELSE p.steps[i]],
      value |-> p.value] : p \in {p \in Places(doc) : p.value[1] \notin {"arr", "obj"}}}

\* A path names what its keys lead to, in an object or in each object of an array,
\* and all below.
Names(path, steps) ==
    \E n \in DOMAIN steps :
       LET first == SubSeq(steps, 1, n)
       IN  /\ SelectSeq(first, LAMBDA s : s # <<"at">>) = [i \in DOMAIN path |-> <<"key", path[i]>>]
           /\ steps[n] # <<"at">>
           /\ \A i \in 2..n : <<steps[i - 1], steps[i]>> # << <<"at">>, <<"at">> >>

\* What a caller is to get of a document.
Wanted(spec, doc) ==
    LET named(s, keep) == \E f \in ToSet(Fields(spec, keep)) : Names(Split[f], s.steps)
    IN  {s \in Scalars(doc) :
           /\ ~named(s, FALSE)
           /\ Fields(spec, TRUE) = <<>> \/ named(s, TRUE) \/ s.steps[1] = <<"key", "_id">>}
=============================================================================
