---------------------------- MODULE HandlesProofs ----------------------------
(***************************************************************************)
(* Proofs about the handle registry: no thread is inside a database that   *)
(* is closed or about to be, for any number of threads and databases.      *)
(***************************************************************************)
EXTENDS Handles, FiniteSetTheorems, TLAPS

Places == {"out", "opened", "inside", "asleep", "woken", "closing"}

LEMMA InsideFinite == \A d : IsFiniteSet(Inside(d))
<1> SUFFICES ASSUME NEW d PROVE IsFiniteSet(Inside(d))
  OBVIOUS
<1>1. Inside(d) \subseteq Thread
  BY DEF Inside
<1> QED
  BY <1>1, ThreadAssumption, FS_Subset

\* A thread that is inside is counted.
LEMMA InsideCounted ==
    ASSUME TypeInv, RefsInv, NEW t \in Thread, pc[t].at = "inside"
    PROVE  /\ pc[t].db \in 1..opened
           /\ t \in Inside(pc[t].db)
           /\ handle[pc[t].db].refs > 0
<1>1. pc[t].db \in 1..opened /\ pc[t] = [at |-> "inside", db |-> pc[t].db]
  BY DEF TypeInv, TypeOK
<1>2. t \in Inside(pc[t].db)
  BY <1>1 DEF Inside
<1>3. IsFiniteSet(Inside(pc[t].db))
  BY InsideFinite
<1>4. Cardinality(Inside(pc[t].db)) # 0
  BY <1>2, <1>3, FS_EmptySet
<1>5. handle[pc[t].db].refs \in Nat
  BY <1>1 DEF TypeInv, TypeOK
<1> QED
  BY <1>1, <1>2, <1>4, <1>5 DEF RefsInv

LEMMA InitInvariant == Init => IInv
<1> SUFFICES ASSUME Init PROVE IInv
  OBVIOUS
<1> USE BoundAssumption DEF Init, Out
<1>1. TypeInv
  BY DEF TypeInv, TypeOK
<1>2. RefsInv
  BY DEF RefsInv
<1>3. ClosingInv
  BY DEF ClosingInv
<1> QED
  BY <1>1, <1>2, <1>3 DEF IInv

\* A thread goes somewhere; the others stay where they are.
LEMMA Moved ==
    ASSUME TypeOK, NEW t \in Thread, NEW at \in Places, NEW d \in 0..MaxOpens,
           Goes(t, at, d)
    PROVE  /\ pc' \in [Thread -> [at : Places, db : 0..MaxOpens]]
           /\ \A u \in Thread : u # t => pc'[u] = pc[u]
           /\ pc'[t] = [at |-> at, db |-> d]
<1>1. pc \in [Thread -> [at : Places, db : 0..MaxOpens]]
  BY DEF TypeOK, Places
<1>2. [at |-> at, db |-> d] \in [at : Places, db : 0..MaxOpens]
  OBVIOUS
<1> QED
  BY <1>1, <1>2 DEF Goes

\* Entering and leaving the loop of nsq_close.
LEMMA WaitOrGoMoves ==
    ASSUME TypeInv, NEW t \in Thread, NEW d \in 1..opened, WaitOrGo(t, d)
    PROVE  /\ DOMAIN registry' \subseteq DOMAIN registry
           /\ \A id \in DOMAIN registry' : registry'[id] = registry[id]
           /\ pc' \in [Thread -> [at : Places, db : 0..MaxOpens]]
           /\ \A u \in Thread : u # t => pc'[u] = pc[u]
           /\ pc'[t].db = d
           /\ \/ pc'[t].at = "asleep"
              \/ pc'[t].at = "closing" /\ handle[d].refs = 0
<1>1. TypeOK /\ d \in 0..MaxOpens
  BY BoundAssumption DEF TypeInv, TypeOK
<1>2. CASE MustWait(d)
  <2>1. Goes(t, "asleep", d) /\ UNCHANGED registry
    BY <1>2 DEF WaitOrGo
  <2>2. "asleep" \in Places
    BY DEF Places
  <2>3. /\ pc' \in [Thread -> [at : Places, db : 0..MaxOpens]]
        /\ \A u \in Thread : u # t => pc'[u] = pc[u]
        /\ pc'[t] = [at |-> "asleep", db |-> d]
    BY <1>1, <2>1, <2>2, Moved
  <2> QED
    BY <2>1, <2>3
<1>3. CASE ~MustWait(d)
  <2>1. /\ Goes(t, "closing", d)
        /\ registry' = [id \in DOMAIN registry \ {NumberOf(d)} |-> registry[id]]
    BY <1>3 DEF WaitOrGo
  <2>2. "closing" \in Places
    BY DEF Places
  <2>3. handle[d].refs = 0
    BY <1>3 DEF MustWait, TypeInv, TypeOK
  <2>4. /\ pc' \in [Thread -> [at : Places, db : 0..MaxOpens]]
        /\ \A u \in Thread : u # t => pc'[u] = pc[u]
        /\ pc'[t] = [at |-> "closing", db |-> d]
    BY <1>1, <2>1, <2>2, Moved
  <2> QED
    BY <2>1, <2>3, <2>4
<1> QED
  BY <1>2, <1>3

\* Nobody comes in or goes out.
LEMMA SameInside ==
    ASSUME \A u \in Thread : \/ pc'[u] = pc[u]
                             \/ pc[u].at # "inside" /\ pc'[u].at # "inside"
    PROVE  \A d : Inside(d)' = Inside(d)
<1> SUFFICES ASSUME NEW d PROVE Inside(d)' = Inside(d)
  OBVIOUS
<1>1. ASSUME NEW u \in Thread
      PROVE  pc'[u] = [at |-> "inside", db |-> d] <=> pc[u] = [at |-> "inside", db |-> d]
  OBVIOUS
<1> QED
  BY <1>1 DEF Inside

LEMMA OpenStep ==
    ASSUME IInv, NEW t \in Thread, Open(t)
    PROVE  IInv'
<1> USE DEF IInv, TypeInv, TypeOK
<1>1. /\ opened' = opened + 1 /\ opened' \in 1..MaxOpens
      /\ UNCHANGED <<registry, nextID>>
      /\ handle' \in [1..opened' -> [refs : Nat, closed : BOOLEAN, db : {"open", "closed"}]]
      /\ handle'[opened'] = [refs |-> 0, closed |-> FALSE, db |-> "open"]
      /\ \A d \in 1..opened : handle'[d] = handle[d]
  BY BoundAssumption DEF Open
<1>2. /\ pc' \in [Thread -> [at : Places, db : 0..MaxOpens]]
      /\ \A u \in Thread : u # t => pc'[u] = pc[u]
      /\ pc'[t] = [at |-> "opened", db |-> opened']
  <2>1. "opened" \in Places /\ opened' \in 0..MaxOpens /\ Goes(t, "opened", opened')
    BY <1>1 DEF Places, Open
  <2> QED
    BY <2>1, Moved
<1>3. pc[t].at = "out"
  BY DEF Open, Out
<1>4. TypeInv'
  <2>1. TypeOK'
    BY <1>1, <1>2 DEF Places
  <2>2. \A u \in Thread : pc'[u].at # "out" => pc'[u].db \in 1..opened'
    BY <1>1, <1>2
  <2> QED
    BY <2>1, <2>2
<1>5. RefsInv'
  <2>1. \A d : Inside(d)' = Inside(d)
    BY <1>2, <1>3, SameInside
  <2>2. Inside(opened') = {}
    <3>1. \A u \in Thread : pc[u].at = "inside" => pc[u].db # opened'
      BY <1>1, SMTT(40)
    <3> QED
      BY <3>1 DEF Inside
  <2>3. ASSUME NEW d \in 1..opened' PROVE handle'[d].refs = Cardinality(Inside(d)')
    <3>1. CASE d = opened'
      <4>1. handle'[d].refs = 0
        BY <1>1, <3>1
      <4>2. Inside(d)' = {}
        BY <2>1, <2>2, <3>1
      <4> QED
        BY <4>1, <4>2, FS_EmptySet
    <3>2. CASE d # opened'
      BY <1>1, <2>1, <3>2 DEF RefsInv
    <3> QED
      BY <3>1, <3>2
  <2> QED
    BY <2>3 DEF RefsInv
<1>6. ClosingInv'
  <2>1. ASSUME NEW u \in Thread, pc'[u].at \in {"asleep", "woken", "closing"}
        PROVE  pc'[u] = pc[u] /\ handle'[pc'[u].db] = handle[pc[u].db]
    <3>1. u # t
      BY <1>2, <2>1
    <3>2. pc'[u] = pc[u] /\ pc[u].db \in 1..opened
      BY <1>2, <2>1, <3>1
    <3> QED
      BY <1>1, <3>2
  <2>2. ASSUME NEW d \in 1..opened', handle'[d].db = "closed"
        PROVE  d \in 1..opened /\ handle'[d] = handle[d]
    <3>1. d # opened'
      BY <1>1, <2>2
    <3> QED
      BY <1>1, <3>1
  <2> QED
    BY <2>1, <2>2 DEF ClosingInv
<1> QED
  BY <1>4, <1>5, <1>6

LEMMA RegisterStep ==
    ASSUME IInv, NEW t \in Thread, Register(t)
    PROVE  IInv'
<1> USE DEF IInv, TypeInv, TypeOK
<1>1. /\ UNCHANGED <<opened, handle>>
      /\ pc[t].at = "opened"
      /\ pc' = [pc EXCEPT ![t] = Out]
      /\ pc[t].db \in 1..opened
  BY DEF Register
<1>2. TypeInv'
  <2>1. nextID' \in Nat \ {0} /\ DOMAIN registry' \subseteq 1..(nextID' - 1)
    BY DEF Register
  <2>2. \A id \in DOMAIN registry' : registry'[id] \in 1..opened'
    BY <1>1 DEF Register
  <2>3. pc' \in [Thread -> [at : Places, db : 0..MaxOpens]]
    BY <1>1, BoundAssumption DEF Out, Places
  <2>4. \A u \in Thread : pc'[u].at # "out" => pc'[u].db \in 1..opened'
    BY <1>1 DEF Out
  <2> QED
    BY <1>1, <2>1, <2>2, <2>3, <2>4 DEF Places
<1>3. RefsInv'
  <2>1. \A d : Inside(d)' = Inside(d)
    BY <1>1, SameInside DEF Out
  <2> QED
    BY <1>1, <2>1 DEF RefsInv
<1>4. ClosingInv'
  BY <1>1 DEF ClosingInv, Out
<1> QED
  BY <1>2, <1>3, <1>4

LEMMA AcquireStep ==
    ASSUME IInv, NEW t \in Thread, NEW id, Acquire(t, id)
    PROVE  IInv'
<1> USE DEF IInv, TypeInv, TypeOK
<1>0. PICK d \in 1..opened : d = registry[id]
  BY DEF Acquire, Admits
<1>1. /\ ~handle[d].closed
      /\ UNCHANGED <<opened, registry, nextID>>
      /\ pc[t].at = "out"
  BY <1>0 DEF Acquire, Admits, Out
<1>2. /\ handle' \in [1..opened -> [refs : Nat, closed : BOOLEAN, db : {"open", "closed"}]]
      /\ handle'[d].refs = handle[d].refs + 1
      /\ \A e \in 1..opened : e # d => handle'[e] = handle[e]
      /\ \A e \in 1..opened : handle'[e].closed = handle[e].closed
                              /\ handle'[e].db = handle[e].db
  <2> DEFINE h == [refs |-> handle[d].refs + 1, closed |-> handle[d].closed,
                   db |-> handle[d].db]
  <2>1. handle' = [handle EXCEPT ![d] = [handle[d] EXCEPT !.refs = handle[d].refs + 1]]
    BY <1>0 DEF Acquire
  <2>2. [handle[d] EXCEPT !.refs = handle[d].refs + 1] = h
    OBVIOUS
  <2>3. handle' = [handle EXCEPT ![d] = h]
    BY <2>1, <2>2
  <2> QED
    BY <1>1, <2>3
<1>3. /\ pc' \in [Thread -> [at : Places, db : 0..MaxOpens]]
      /\ \A u \in Thread : u # t => pc'[u] = pc[u]
      /\ pc'[t] = [at |-> "inside", db |-> d]
  <2>1. "inside" \in Places /\ d \in 0..MaxOpens /\ Goes(t, "inside", d)
    BY <1>0, BoundAssumption DEF Places, Acquire
  <2> QED
    BY <2>1, Moved
<1>4. TypeInv'
  <2>1. \A u \in Thread : pc'[u].at # "out" => pc'[u].db \in 1..opened'
    BY <1>1, <1>3
  <2> QED
    BY <1>1, <1>2, <1>3, <2>1 DEF Places
<1>5. RefsInv'
  <2>1. Inside(d)' = Inside(d) \cup {t}
    BY <1>3 DEF Inside
  <2>2. t \notin Inside(d)
    BY <1>1 DEF Inside
  <2>3. \A e \in 1..opened : e # d => Inside(e)' = Inside(e)
    <3> SUFFICES ASSUME NEW e \in 1..opened, e # d PROVE Inside(e)' = Inside(e)
      OBVIOUS
    <3>1. pc'[t] # [at |-> "inside", db |-> e] /\ pc[t] # [at |-> "inside", db |-> e]
      BY <1>1, <1>3
    <3> QED
      BY <1>3, <3>1 DEF Inside
  <2>4. Cardinality(Inside(d)') = Cardinality(Inside(d)) + 1
    BY <2>1, <2>2, InsideFinite, FS_AddElement
  <2>5. ASSUME NEW e \in 1..opened PROVE handle'[e].refs = Cardinality(Inside(e)')
    <3>1. CASE e = d
      BY <1>2, <2>4, <3>1 DEF RefsInv
    <3>2. CASE e # d
      BY <1>2, <2>3, <3>2 DEF RefsInv
    <3> QED
      BY <3>1, <3>2
  <2> QED
    BY <1>1, <2>5 DEF RefsInv
<1>6. ClosingInv'
  <2>1. ASSUME NEW u \in Thread, pc'[u].at \in {"asleep", "woken", "closing"}
        PROVE  pc'[u] = pc[u] /\ pc[u].db \in 1..opened /\ pc[u].db # d
    <3>1. pc'[u] = pc[u]
      BY <1>3, <2>1
    <3>2. handle[pc[u].db].closed /\ pc[u].db \in 1..opened
      BY <2>1, <3>1 DEF ClosingInv
    <3> QED
      BY <1>1, <3>1, <3>2
  <2>2. ASSUME NEW e \in 1..opened, handle'[e].db = "closed" PROVE e # d
    BY <1>1, <1>2, <2>2 DEF ClosingInv
  <2> QED
    BY <1>1, <1>2, <2>1, <2>2, SMTT(40) DEF ClosingInv
<1> QED
  BY <1>4, <1>5, <1>6

LEMMA ReleaseStep ==
    ASSUME IInv, NEW t \in Thread, Release(t)
    PROVE  IInv'
<1> USE DEF IInv, TypeInv, TypeOK
<1>0. PICK d \in 1..opened : d = pc[t].db
  BY InsideCounted DEF Release
<1>1. /\ pc[t] = [at |-> "inside", db |-> d]
      /\ t \in Inside(d) /\ handle[d].refs > 0
      /\ pc[t].at = "inside"
      /\ UNCHANGED <<opened, registry, nextID>>
  BY <1>0, InsideCounted DEF Release
<1>2. /\ handle' \in [1..opened -> [refs : Nat, closed : BOOLEAN, db : {"open", "closed"}]]
      /\ handle'[d].refs = handle[d].refs - 1
      /\ \A e \in 1..opened : e # d => handle'[e] = handle[e]
      /\ \A e \in 1..opened : handle'[e].closed = handle[e].closed
                              /\ handle'[e].db = handle[e].db
  <2> DEFINE h == [refs |-> handle[d].refs - 1, closed |-> handle[d].closed,
                   db |-> handle[d].db]
  <2>1. handle' = [handle EXCEPT ![d] = [handle[d] EXCEPT !.refs = handle[d].refs - 1]]
    BY <1>0 DEF Release, Dropped
  <2>2. [handle[d] EXCEPT !.refs = handle[d].refs - 1] = h
    OBVIOUS
  <2>3. handle' = [handle EXCEPT ![d] = h]
    BY <2>1, <2>2
  <2> QED
    BY <1>1, <2>3
<1>3. /\ pc' \in [Thread -> [at : Places, db : 0..MaxOpens]]
      /\ pc'[t] = Out
      /\ \A u \in Thread : u # t =>
            \/ pc'[u] = pc[u]
            \/ pc[u].at = "asleep" /\ pc'[u] = [at |-> "woken", db |-> pc[u].db]
  <2>1. /\ Woken(d) \in [Thread -> [at : Places, db : 0..MaxOpens]]
        /\ \A u \in Thread : \/ Woken(d)[u] = pc[u]
                             \/ /\ pc[u].at = "asleep"
                                /\ Woken(d)[u] = [at |-> "woken", db |-> pc[u].db]
    <3> DEFINE W == [u \in Thread |-> IF pc[u].at = "asleep" THEN [pc[u] EXCEPT !.at = "woken"]
                                      ELSE pc[u]]
    <3>1. W \in [Thread -> [at : Places, db : 0..MaxOpens]]
      BY DEF Places
    <3>2. \A u \in Thread : \/ W[u] = pc[u]
                            \/ /\ pc[u].at = "asleep"
                               /\ W[u] = [at |-> "woken", db |-> pc[u].db]
      OBVIOUS
    <3>3. Woken(d) = pc \/ Woken(d) = W
      BY DEF Woken
    <3> HIDE DEF W
    <3> QED
      BY <3>1, <3>2, <3>3 DEF Places
  <2>2. pc' = [Woken(d) EXCEPT ![t] = Out]
    BY <1>0 DEF Release
  <2>3. Out \in [at : Places, db : 0..MaxOpens]
    BY BoundAssumption DEF Out, Places
  <2> QED
    BY <2>1, <2>2, <2>3
<1>4. TypeInv'
  <2>1. ASSUME NEW u \in Thread, pc'[u].at # "out" PROVE pc'[u].db \in 1..opened'
    <3>1. u # t
      BY <1>3, <2>1 DEF Out
    <3>2. pc'[u].db = pc[u].db /\ pc[u].at # "out"
      BY <1>3, <2>1, <3>1
    <3> QED
      BY <1>1, <3>2
  <2> QED
    BY <1>1, <1>2, <1>3, <2>1 DEF Places
<1>5. RefsInv'
  <2>1. ASSUME NEW e, NEW u \in Thread, u # t
        PROVE  pc'[u] = [at |-> "inside", db |-> e] <=> pc[u] = [at |-> "inside", db |-> e]
    BY <1>3, <2>1
  <2>2. Inside(d)' = Inside(d) \ {t}
    BY <1>3, <2>1 DEF Inside, Out
  <2>3. ASSUME NEW e \in 1..opened, e # d PROVE Inside(e)' = Inside(e)
    <3>1. pc'[t] # [at |-> "inside", db |-> e] /\ pc[t] # [at |-> "inside", db |-> e]
      BY <1>1, <1>3, <2>3 DEF Out
    <3> QED
      BY <2>1, <3>1 DEF Inside
  <2>4. Cardinality(Inside(d)') = Cardinality(Inside(d)) - 1
    BY <1>1, <2>2, InsideFinite, FS_RemoveElement, ZenonT(40)
  <2>5. ASSUME NEW e \in 1..opened PROVE handle'[e].refs = Cardinality(Inside(e)')
    <3>1. CASE e = d
      BY <1>2, <2>4, <3>1 DEF RefsInv
    <3>2. CASE e # d
      BY <1>2, <2>3, <3>2 DEF RefsInv
    <3> QED
      BY <3>1, <3>2
  <2> QED
    BY <1>1, <2>5 DEF RefsInv
<1>6. ClosingInv'
  <2>1. ASSUME NEW u \in Thread, pc'[u].at \in {"asleep", "woken", "closing"}
        PROVE  /\ pc[u].at \in {"asleep", "woken", "closing"}
               /\ pc'[u].at = "closing" => pc[u].at = "closing"
               /\ pc'[u].db = pc[u].db /\ pc[u].db \in 1..opened
    BY <1>3, <2>1 DEF Out
  <2>2. ASSUME NEW u \in Thread, pc'[u].at = "closing" PROVE pc'[u].db # d
    BY <1>1, <2>1, <2>2 DEF ClosingInv
  <2>3. ASSUME NEW e \in 1..opened, handle'[e].db = "closed" PROVE e # d
    BY <1>1, <1>2, <2>3 DEF ClosingInv
  <2> QED
    BY <1>1, <1>2, <2>1, <2>2, <2>3, SMTT(40) DEF ClosingInv
<1> QED
  BY <1>4, <1>5, <1>6

LEMMA BeginCloseStep ==
    ASSUME IInv, NEW t \in Thread, NEW id, BeginClose(t, id)
    PROVE  IInv'
<1> USE DEF IInv, TypeInv, TypeOK
<1>0. PICK d \in 1..opened : d = registry[id]
  BY DEF BeginClose
<1>1. /\ ~handle[d].closed
      /\ UNCHANGED <<opened, nextID>>
      /\ pc[t].at = "out"
      /\ WaitOrGo(t, d)
  BY <1>0 DEF BeginClose, Out
<1>2. /\ handle' \in [1..opened -> [refs : Nat, closed : BOOLEAN, db : {"open", "closed"}]]
      /\ handle'[d].closed
      /\ \A e \in 1..opened : e # d => handle'[e] = handle[e]
      /\ \A e \in 1..opened : handle'[e].refs = handle[e].refs
                              /\ handle'[e].db = handle[e].db
  <2> DEFINE h == [handle[d] EXCEPT !.closed = TRUE]
  <2>1. handle' = [handle EXCEPT ![d] = h]
    BY <1>0 DEF BeginClose
  <2>2. handle[d] \in [refs : Nat, closed : BOOLEAN, db : {"open", "closed"}]
    OBVIOUS
  <2>3. /\ h \in [refs : Nat, closed : BOOLEAN, db : {"open", "closed"}]
        /\ h.refs = handle[d].refs /\ h.closed /\ h.db = handle[d].db
    BY <2>2
  <2> HIDE DEF h
  <2> QED
    BY <1>1, <2>1, <2>3
<1>3. /\ DOMAIN registry' \subseteq DOMAIN registry
      /\ \A i \in DOMAIN registry' : registry'[i] = registry[i]
      /\ pc' \in [Thread -> [at : Places, db : 0..MaxOpens]]
      /\ \A u \in Thread : u # t => pc'[u] = pc[u]
      /\ pc'[t].db = d
      /\ \/ pc'[t].at = "asleep"
         \/ pc'[t].at = "closing" /\ handle[d].refs = 0
  BY <1>1, WaitOrGoMoves
<1>4. TypeInv'
  <2>1. \A u \in Thread : pc'[u].at # "out" => pc'[u].db \in 1..opened'
    BY <1>1, <1>3
  <2> QED
    BY <1>1, <1>2, <1>3, <2>1 DEF Places
<1>5. RefsInv'
  <2>1. \A e : Inside(e)' = Inside(e)
    BY <1>1, <1>3, SameInside
  <2> QED
    BY <1>1, <1>2, <2>1 DEF RefsInv
<1>6. ClosingInv'
  <2>1. ASSUME NEW u \in Thread, pc'[u].at \in {"asleep", "woken", "closing"}
        PROVE  /\ handle'[pc'[u].db].closed
               /\ pc'[u].at = "closing" => handle'[pc'[u].db].refs = 0
    <3>1. CASE u = t
      BY <1>2, <1>3, <3>1
    <3>2. CASE u # t
      <4>1. pc'[u] = pc[u] /\ pc[u].db \in 1..opened
        BY <1>3, <2>1, <3>2
      <4>2. handle[pc[u].db].closed
        BY <2>1, <4>1 DEF ClosingInv
      <4> QED
        BY <1>1, <1>2, <2>1, <4>1, <4>2 DEF ClosingInv
    <3> QED
      BY <3>1, <3>2
  <2>2. ASSUME NEW e \in 1..opened, handle'[e].db = "closed"
        PROVE  handle'[e].closed /\ handle'[e].refs = 0
    BY <1>1, <1>2, <2>2 DEF ClosingInv
  <2> QED
    BY <1>1, <2>1, <2>2 DEF ClosingInv
<1> QED
  BY <1>4, <1>5, <1>6

LEMMA RecheckStep ==
    ASSUME IInv, NEW t \in Thread, Recheck(t)
    PROVE  IInv'
<1> USE DEF IInv, TypeInv, TypeOK
<1>0. PICK d \in 1..opened : d = pc[t].db
  BY DEF Recheck
<1>1. /\ UNCHANGED <<opened, handle, nextID>>
      /\ pc[t].at = "woken"
      /\ WaitOrGo(t, d)
  BY <1>0 DEF Recheck
<1>2. handle[d].closed
  BY <1>0, <1>1 DEF ClosingInv
<1>3. /\ DOMAIN registry' \subseteq DOMAIN registry
      /\ \A i \in DOMAIN registry' : registry'[i] = registry[i]
      /\ pc' \in [Thread -> [at : Places, db : 0..MaxOpens]]
      /\ \A u \in Thread : u # t => pc'[u] = pc[u]
      /\ pc'[t].db = d
      /\ \/ pc'[t].at = "asleep"
         \/ pc'[t].at = "closing" /\ handle[d].refs = 0
  BY <1>1, WaitOrGoMoves
<1>4. TypeInv'
  <2>1. \A u \in Thread : pc'[u].at # "out" => pc'[u].db \in 1..opened'
    BY <1>1, <1>3
  <2> QED
    BY <1>1, <1>3, <2>1 DEF Places
<1>5. RefsInv'
  <2>1. \A e : Inside(e)' = Inside(e)
    BY <1>1, <1>3, SameInside
  <2> QED
    BY <1>1, <2>1 DEF RefsInv
<1>6. ClosingInv'
  <2>1. ASSUME NEW u \in Thread, pc'[u].at \in {"asleep", "woken", "closing"}
        PROVE  /\ handle[pc'[u].db].closed
               /\ pc'[u].at = "closing" => handle[pc'[u].db].refs = 0
    <3>1. CASE u = t
      BY <1>2, <1>3, <3>1
    <3>2. CASE u # t
      BY <1>3, <2>1, <3>2 DEF ClosingInv
    <3> QED
      BY <3>1, <3>2
  <2> QED
    BY <1>1, <2>1 DEF ClosingInv
<1> QED
  BY <1>4, <1>5, <1>6

LEMMA CloseDBStep ==
    ASSUME IInv, NEW t \in Thread, CloseDB(t)
    PROVE  IInv'
<1> USE DEF IInv, TypeInv, TypeOK
<1>0. PICK d \in 1..opened : d = pc[t].db
  BY DEF CloseDB
<1>1. /\ UNCHANGED <<opened, registry, nextID>>
      /\ pc[t].at = "closing"
      /\ handle[d].closed /\ handle[d].refs = 0
  BY <1>0 DEF CloseDB, ClosingInv
<1>2. /\ handle' \in [1..opened -> [refs : Nat, closed : BOOLEAN, db : {"open", "closed"}]]
      /\ \A e \in 1..opened : e # d => handle'[e] = handle[e]
      /\ \A e \in 1..opened : handle'[e].refs = handle[e].refs
                              /\ handle'[e].closed = handle[e].closed
  <2> DEFINE h == [refs |-> handle[d].refs, closed |-> handle[d].closed, db |-> "closed"]
  <2>1. handle' = [handle EXCEPT ![d] = [handle[d] EXCEPT !.db = "closed"]]
    BY <1>0 DEF CloseDB
  <2>2. [handle[d] EXCEPT !.db = "closed"] = h
    OBVIOUS
  <2>3. handle' = [handle EXCEPT ![d] = h]
    BY <2>1, <2>2
  <2> QED
    BY <1>1, <2>3
<1>3. /\ pc' \in [Thread -> [at : Places, db : 0..MaxOpens]]
      /\ \A u \in Thread : u # t => pc'[u] = pc[u]
      /\ pc'[t].at = "out"
  BY BoundAssumption DEF CloseDB, Out, Places
<1>4. TypeInv'
  <2>1. \A u \in Thread : pc'[u].at # "out" => pc'[u].db \in 1..opened'
    BY <1>1, <1>3
  <2> QED
    BY <1>1, <1>2, <1>3, <2>1 DEF Places
<1>5. RefsInv'
  <2>1. \A e : Inside(e)' = Inside(e)
    BY <1>1, <1>3, SameInside
  <2> QED
    BY <1>1, <1>2, <2>1 DEF RefsInv
<1>6. ClosingInv'
  <2>1. ASSUME NEW u \in Thread, pc'[u].at \in {"asleep", "woken", "closing"}
        PROVE  pc'[u] = pc[u] /\ pc[u].db \in 1..opened
    BY <1>3, <2>1
  <2> QED
    BY <1>1, <1>2, <2>1 DEF ClosingInv
<1> QED
  BY <1>4, <1>5, <1>6

LEMMA StepInvariant == IInv /\ [Next]_vars => IInv'
<1> SUFFICES ASSUME IInv, [Next]_vars PROVE IInv'
  OBVIOUS
<1>1. CASE UNCHANGED vars
  BY <1>1 DEF vars, IInv, TypeInv, TypeOK, RefsInv, ClosingInv, Inside
<1>2. ASSUME NEW t \in Thread, Open(t) PROVE IInv'
  BY <1>2, OpenStep
<1>3. ASSUME NEW t \in Thread, Steps(t) PROVE IInv'
  BY <1>3, RegisterStep, ReleaseStep, RecheckStep, CloseDBStep DEF Steps
<1>4. ASSUME NEW t \in Thread, AnswerOnly(t) PROVE IInv'
  BY <1>1, <1>4 DEF AnswerOnly
<1>5. ASSUME NEW t \in Thread, NEW id, Acquire(t, id) \/ BeginClose(t, id) PROVE IInv'
  BY <1>5, AcquireStep, BeginCloseStep
<1> QED
  BY <1>1, <1>2, <1>3, <1>4, <1>5 DEF Next

\* The account kept by acquire, release and nsq_close is right: refs is the number
\* of threads inside, and a database being closed lets nobody in.
THEOREM Invariance == Spec => []IInv
<1>1. Init => IInv
  BY InitInvariant
<1>2. IInv /\ [Next]_vars => IInv'
  BY StepInvariant
<1> QED
  BY <1>1, <1>2, PTL DEF Spec

\* nsq_close never closes a database while a call is inside it, nor gets ready to,
\* whatever numbers the threads hold and however many threads there are.
THEOREM NoUseAfterCloseTheorem == Spec => []NoUseAfterClose
<1>1. IInv => NoUseAfterClose
  <2> SUFFICES ASSUME IInv, NEW t \in Thread, pc[t].at = "inside"
               PROVE  /\ handle[pc[t].db].db = "open"
                      /\ \A u \in Thread : pc[u] # [at |-> "closing", db |-> pc[t].db]
    BY DEF NoUseAfterClose
  <2>1. pc[t].db \in 1..opened /\ handle[pc[t].db].refs > 0
    BY InsideCounted DEF IInv
  <2>2. handle[pc[t].db].db \in {"open", "closed"}
    BY <2>1 DEF IInv, TypeInv, TypeOK
  <2>3. handle[pc[t].db].db = "open"
    BY <2>1, <2>2 DEF IInv, ClosingInv
  <2>4. \A u \in Thread : pc[u].at = "closing" => handle[pc[u].db].refs = 0
    BY DEF IInv, ClosingInv
  <2>5. ASSUME NEW u \in Thread, pc[u] = [at |-> "closing", db |-> pc[t].db] PROVE FALSE
    BY <2>1, <2>4, <2>5
  <2> QED
    BY <2>3, <2>5
<1> QED
  BY <1>1, Invariance, PTL
=============================================================================
