------------------------------- MODULE Values --------------------------------
(***************************************************************************)
(* The values a document can hold and the total order over them            *)
(* (internal/engine/compare.go).  A value is a tuple that begins with its  *)
(* kind: a number is <<"num", n>>, a string <<"str", n>> with n its place  *)
(* in the order of strings, an array <<"arr", sequence of values>>, an     *)
(* object <<"obj", function from keys to values>>.                         *)
(***************************************************************************)
EXTENDS Integers, Sequences, FiniteSets, SequencesExt, FiniteSetsExt, Ranking

CONSTANTS
    KeyOrder,   \* every key of an object, in the order of strings
    Nesting,    \* the values that are compared, each with how deep it is nested
    Depth       \* how deep that may be: encoding/json reads nothing deeper

Value == DOMAIN Nesting

Absent == <<"absent">>   \* a path leads nowhere
Null == <<"null">>
Num(n) == <<"num", n>>
Str(n) == <<"str", n>>
Bool(b) == <<"bool", b>>
Arr(s) == <<"arr", s>>
Obj(f) == <<"obj", f>>

TypeRank(v) ==
    [absent |-> 0, null |-> 1, num |-> 2, str |-> 3, bool |-> 4, arr |-> 5, obj |-> 6][v[1]]

\* What compiling a filter or a projection yields when it is an error.
Refused == <<"refused">>

\* The keys of an object, by their place in the order.
KeyPlaces(o) == {n \in DOMAIN KeyOrder : KeyOrder[n] \in DOMAIN o[2]}

SortedKeys(o) ==
    LET places == KeyPlaces(o)
    IN  [i \in 1..Cardinality(places) |-> KeyOrder[Nth(places, i)]]

Sign(m, n) == IF m < n THEN -1 ELSE IF m > n THEN 1 ELSE 0

\* The keys and values of an object as they are compared: a key, its value, the
\* next key.
Entries(o) ==
    LET places == KeyPlaces(o)
    IN  [i \in 1..(2 * Cardinality(places)) |->
           LET n == Nth(places, (i + 1) \div 2)
           IN  IF i % 2 = 1 THEN Str(n) ELSE o[2][KeyOrder[n]]]

\* What a value is made of.
Parts(v) ==
    CASE v[1] = "arr" -> ToSet(v[2]) [] v[1] = "obj" -> ToSet(Entries(v)) [] OTHER -> {}

IsValue(v) ==
    \/ v \in {Absent, Null}
    \/ v = Bool(v[2]) /\ v[2] \in BOOLEAN
    \/ v = Num(v[2]) /\ v[2] \in Int
    \/ v = Str(v[2]) /\ v[2] \in Nat
    \/ v = Arr(v[2]) /\ v[2] \in Seq(Value)
    \/ v = Obj(v[2]) /\ v[2] \in [DOMAIN v[2] -> Value] /\ DOMAIN v[2] \subseteq ToSet(KeyOrder)

ASSUME KeyAssumption == KeyOrder \in Seq(STRING) /\ IsInjective(KeyOrder)
ASSUME ValueAssumption ==
    /\ Depth \in Nat
    /\ \A v \in Value : IsValue(v) /\ Nesting[v] \in 1..Depth
    /\ \A v \in Value : \A w \in Parts(v) : w \in Value /\ Nesting[w] < Nesting[v]

\* Mutant of CompareSeqs: a prefix counts as equal.
CompareSeqsPrefix(signs, m, n) ==
    LET differ == {i \in DOMAIN signs : signs[i] # 0}
    IN  IF differ = {} THEN 0 ELSE signs[Min(differ)]

\* Two sequences of lengths m and n, given how their elements compare: element by
\* element, then by length.
CompareSeqs(signs, m, n) ==
    LET differ == {i \in DOMAIN signs : signs[i] # 0}
    IN  IF differ = {} THEN Sign(m, n) ELSE signs[Min(differ)]

\* compare: -1, 0 or 1, given how the parts of values compare.
CompareBy(below, a, b) ==
    LET within(s, t) == CompareSeqs([i \in DOMAIN s \cap DOMAIN t |-> below[<<s[i], t[i]>>]],
                                    Len(s), Len(t))
    IN  IF TypeRank(a) # TypeRank(b) THEN Sign(TypeRank(a), TypeRank(b))
        ELSE CASE a[1] \in {"absent", "null"} -> 0
               [] a[1] \in {"num", "str"} -> Sign(a[2], b[2])
               [] a[1] = "bool" -> IF a[2] = b[2] THEN 0 ELSE IF b[2] THEN -1 ELSE 1
               [] a[1] = "arr" -> within(a[2], b[2])
               [] a[1] = "obj" -> within(Entries(a), Entries(b))

\* compare over values nested no deeper than n.
Order[n \in 0..Depth] ==
    [p \in Value \X Value |-> IF n = 0 THEN 0 ELSE CompareBy(Order[n - 1], p[1], p[2])]

Compare(a, b) == Order[Depth][<<a, b>>]

EqualValues(a, b) == Compare(a, b) = 0

-----------------------------------------------------------------------------
\* Properties

\* One order over values of all kinds, in which only a value itself is equal to
\* it: what sorting and every comparison operator of a filter rely on.
TotalOrder(values) ==
    \A a, b \in values :
       /\ Compare(a, b) = -Compare(b, a)
       /\ EqualValues(a, b) <=> a = b
       /\ \A c \in values : Compare(a, b) <= 0 /\ Compare(b, c) <= 0 => Compare(a, c) <= 0
=============================================================================
