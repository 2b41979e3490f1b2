------------------------------- MODULE Handles -------------------------------
(***************************************************************************)
(* The handle registry of the C interface (capi/capi.go).  Threads open    *)
(* databases, call into them by number and close them, with numbers they   *)
(* may have kept too long.  Each step below is one stretch of code under   *)
(* registryMu, or one call into the Go package.                            *)
(***************************************************************************)
EXTENDS Integers, FiniteSets

CONSTANTS
    Thread,
    MaxOpens    \* bound: databases opened

ASSUME ThreadAssumption == IsFiniteSet(Thread)
ASSUME BoundAssumption == MaxOpens \in Nat

VARIABLES
    opened,     \* databases opened so far, numbered from 1
    handle,     \* the handle struct of each: refs, closed, and if db is open
    registry,   \* numbers given out to databases
    nextID,
    pc          \* where each thread is, and the database it is busy with

vars == <<opened, handle, registry, nextID, pc>>

Out == [at |-> "out", db |-> 0]

TypeOK ==
    /\ opened \in 0..MaxOpens
    /\ handle \in [1..opened -> [refs : Nat, closed : BOOLEAN, db : {"open", "closed"}]]
    /\ nextID \in Nat \ {0}
    /\ DOMAIN registry \subseteq 1..(nextID - 1)
    /\ \A id \in DOMAIN registry : registry[id] \in 1..opened
    /\ pc \in [Thread -> [at : {"out", "opened", "inside", "asleep", "woken", "closing"},
                          db : 0..MaxOpens]]

Init ==
    /\ opened = 0
    /\ handle = <<>>
    /\ registry = <<>>
    /\ nextID = 1
    /\ pc = [t \in Thread |-> Out]

Inside(d) == {t \in Thread : pc[t] = [at |-> "inside", db |-> d]}

Goes(t, at, d) == pc' = [pc EXCEPT ![t] = [at |-> at, db |-> d]]

-----------------------------------------------------------------------------
\* nsq_open: the database is opened, then entered under the next number.
Open(t) ==
    /\ pc[t] = Out
    /\ opened < MaxOpens
    /\ opened' = opened + 1
    /\ handle' = [d \in 1..opened' |->
                     IF d = opened' THEN [refs |-> 0, closed |-> FALSE, db |-> "open"]
                     ELSE handle[d]]
    /\ Goes(t, "opened", opened')
    /\ UNCHANGED <<registry, nextID>>

Register(t) ==
    /\ pc[t].at = "opened"
    /\ registry' = [id \in DOMAIN registry \cup {nextID} |->
                       IF id = nextID THEN pc[t].db ELSE registry[id]]
    /\ nextID' = nextID + 1
    /\ pc' = [pc EXCEPT ![t] = Out]
    /\ UNCHANGED <<opened, handle>>

Admits(id) == id \in DOMAIN registry /\ ~handle[registry[id]].closed

\* acquire, at the start of every data call; a number that is unknown or being
\* closed gets an error and nothing happens.
Acquire(t, id) ==
    /\ pc[t] = Out
    /\ Admits(id)
    /\ handle' = [handle EXCEPT ![registry[id]].refs = @ + 1]
    /\ Goes(t, "inside", registry[id])
    /\ UNCHANGED <<opened, registry, nextID>>

\* Mutant of Woken: the last call out wakes nobody.
WokenNobody(d) == pc

\* registryCond is shared by all handles, so every sleeping close wakes up.
Woken(d) ==
    IF handle'[d].refs > 0 THEN pc
    ELSE [t \in Thread |-> IF pc[t].at = "asleep" THEN [pc[t] EXCEPT !.at = "woken"] ELSE pc[t]]

\* Mutant of Dropped: a call releases by hand and again by its defer.
DroppedTwice(refs) == refs - 2

Dropped(refs) == refs - 1

\* release, deferred, so it also runs when the call panics.
Release(t) ==
    LET d == pc[t].db
    IN  /\ pc[t].at = "inside"
        /\ handle' = [handle EXCEPT ![d].refs = Dropped(@)]
        /\ pc' = [Woken(d) EXCEPT ![t] = Out]
        /\ UNCHANGED <<opened, registry, nextID>>

\* Mutant of MustWait: close waits only if it finds several calls inside.
MustWaitSeveral(d) == handle[d].refs > 1

MustWait(d) == handle[d].refs > 0

NumberOf(d) == CHOOSE id \in DOMAIN registry : registry[id] = d

\* The loop condition of nsq_close: sleep, or leave the loop with the number
\* taken out of the registry.
WaitOrGo(t, d) ==
    \/ /\ MustWait(d)
       /\ Goes(t, "asleep", d)
       /\ UNCHANGED registry
    \/ /\ ~MustWait(d)
       /\ registry' = [id \in DOMAIN registry \ {NumberOf(d)} |-> registry[id]]
       /\ Goes(t, "closing", d)

\* The first nsq_close of a number.
BeginClose(t, id) ==
    /\ pc[t] = Out
    /\ id \in DOMAIN registry
    /\ ~handle[registry[id]].closed
    /\ handle' = [handle EXCEPT ![registry[id]].closed = TRUE]
    /\ WaitOrGo(t, registry[id])
    /\ UNCHANGED <<opened, nextID>>

\* Cond.Wait returns with the mutex held.
Recheck(t) ==
    /\ pc[t].at = "woken"
    /\ WaitOrGo(t, pc[t].db)
    /\ UNCHANGED <<opened, handle, nextID>>

\* h.db.Close(), without the mutex.
CloseDB(t) ==
    /\ pc[t].at = "closing"
    /\ handle' = [handle EXCEPT ![pc[t].db].db = "closed"]
    /\ pc' = [pc EXCEPT ![t] = Out]
    /\ UNCHANGED <<opened, registry, nextID>>

\* The call gets an answer and changes nothing: an unknown number, a number
\* being closed, a second nsq_close.
AnswerOnly(t) == pc[t] = Out /\ UNCHANGED vars

Steps(t) == Register(t) \/ Release(t) \/ Recheck(t) \/ CloseDB(t)

Next ==
    \E t \in Thread :
       \/ Open(t) \/ Steps(t) \/ AnswerOnly(t)
       \/ \E id \in 1..(nextID - 1) : Acquire(t, id) \/ BeginClose(t, id)

Spec == Init /\ [][Next]_vars

\* A thread that is inside a call and not asleep goes on: calls end, and the
\* mutex is given to every thread that waits for it.
FairSpec == Spec /\ \A t \in Thread : WF_vars(Steps(t))

-----------------------------------------------------------------------------
\* Properties

\* capi.go: closing must not pull the file out from under an in-flight read.
\* No thread is inside a database that has been closed, or is about to be.
NoUseAfterClose ==
    \A t \in Thread : pc[t].at = "inside" =>
       /\ handle[pc[t].db].db = "open"
       /\ \A u \in Thread : pc[u] # [at |-> "closing", db |-> pc[t].db]

\* Every nsq_close returns once the calls it waits for have: no wake-up is lost,
\* though one condition variable serves all handles, and no new call can keep the
\* close waiting by coming in meanwhile.
ClosesReturn ==
    \A t \in Thread : pc[t].at \in {"asleep", "woken"} ~> pc[t].at = "out"

-----------------------------------------------------------------------------
\* Inductive invariant

TypeInv ==
    /\ TypeOK
    /\ \A t \in Thread : pc[t].at # "out" => pc[t].db \in 1..opened

\* refs counts the threads inside, no more and no less.
RefsInv == \A d \in 1..opened : handle[d].refs = Cardinality(Inside(d))

\* A database somebody closes lets nobody in, and one whose close has left its
\* loop is empty and stays so.
ClosingInv ==
    /\ \A t \in Thread : pc[t].at \in {"asleep", "woken", "closing"} =>
                           handle[pc[t].db].closed
    /\ \A t \in Thread : pc[t].at = "closing" => handle[pc[t].db].refs = 0
    /\ \A d \in 1..opened : handle[d].db = "closed" =>
                              handle[d].closed /\ handle[d].refs = 0

\* The account behind NoUseAfterClose: what the count, the closed flag and the
\* place of every thread say about each other.
IInv == TypeInv /\ RefsInv /\ ClosingInv
=============================================================================
