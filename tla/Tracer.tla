------------------------------- MODULE Tracer --------------------------------
(***************************************************************************)
(* The trace file (trace.go) at TraceAll.  A line takes a sequence number, *)
(* is formatted, and is appended under the tracer's own mutex.  A query    *)
(* traces one line and holds no lock; a writing call traces a line for its *)
(* fsync and one of its own with db.mu held; Close traces one and takes    *)
(* the tracer away; Open makes a new tracer, empties the file or appends   *)
(* to it, and traces alone.  Each use of db.trace reads it anew, so a      *)
(* query may end beside a writer, another query or Close, or after it.  A  *)
(* call that outlives its database writes to the closed tracer, so the     *)
(* model lets an Open wait for it.                                         *)
(***************************************************************************)
EXTENDS Naturals, Sequences, FiniteSets, SequencesExt

CONSTANTS
    Goroutine,
    Lengths,      \* lengths of lines
    MaxBytes,     \* cfg.traceMaxBytes
    AppendModes,  \* the values of cfg.traceAppend, one for each Open
    MaxSeq,       \* bound: numbers one tracer hands out
    MaxRuns       \* bound: Opens

ASSUME LengthAssumption == Lengths \subseteq Nat \ {0}
ASSUME AppendAssumption == AppendModes \subseteq BOOLEAN
ASSUME BoundAssumption == MaxBytes \in Nat /\ MaxSeq \in Nat \ {0, 1} /\ MaxRuns \in Nat

VARIABLES
    attached,   \* db.trace # nil
    shut,       \* t.file = nil
    seq,        \* t.seq
    written,    \* t.written
    truncated,  \* t.truncated
    lines,      \* the file: for each line its number, length and kind
    op,         \* the call each goroutine is in: none, a write, a find, Close
    todo,       \* the lines it has still to trace, the next one first
    at,         \* how far it is with that line
    number,     \* the number taken for it
    begun,      \* calls that took no number for their own line yet, as they began
    opens,      \* how many Opens there were
    before      \* how many lines the last one found in the file

file == <<written, truncated, lines>>
history == <<opens, before>>
tracer == <<shut, seq, written, truncated, lines, opens, before>>
vars == <<attached, shut, seq, written, truncated, lines, op, todo, at, number,
          begun, opens, before>>

Notice == [seq |-> 0, length |-> 0, kind |-> "truncated"]
Kind == {"open", "recover", "sync", "write", "find", "close"}
Line == [seq : Nat, length : Lengths, kind : Kind]

TypeOK ==
    /\ attached \in BOOLEAN /\ shut \in BOOLEAN /\ truncated \in BOOLEAN
    /\ seq \in 0..MaxSeq
    /\ written \in 0..MaxBytes
    /\ lines \in Seq(Line \cup {Notice})
    /\ op \in [Goroutine -> {"none", "write", "find", "close"}]
    /\ todo \in [Goroutine -> Seq(Kind)]
    /\ at \in [Goroutine -> {"out", "running", "enabled", "numbered", "emitting",
                             "traced", "shut"}]
    /\ number \in [Goroutine -> 0..MaxSeq]
    /\ begun \in Seq(Goroutine)
    /\ opens \in 0..MaxRuns /\ before \in Nat

Init ==
    /\ attached = FALSE
    /\ shut = TRUE
    /\ seq = 0
    /\ written = 0
    /\ truncated = FALSE
    /\ lines = <<>>
    /\ op = [g \in Goroutine |-> "none"]
    /\ todo = [g \in Goroutine |-> <<>>]
    /\ at = [g \in Goroutine |-> "out"]
    /\ number = [g \in Goroutine |-> 0]
    /\ begun = <<>>
    /\ opens = 0
    /\ before = 0

-----------------------------------------------------------------------------
\* One line.  f is what a line may change: t.written, t.truncated and the file.

\* Mutant of OverCap: the line at hand is not counted.
OverCapLate(sum, length) == sum > MaxBytes

OverCap(sum, length) == sum + length > MaxBytes

\* Mutant of AtCap: the cap is noticed but not remembered.
AtCapForgotten(f) == [f EXCEPT !.lines = Append(@, Notice)]

AtCap(f) == [f EXCEPT !.truncated = TRUE, !.lines = Append(@, Notice)]

\* The end of t.emit, under t.mu.
Emitted(f, l) ==
    CASE f.truncated -> f
      [] ~f.truncated /\ OverCap(f.written, l.length) -> AtCap(f)
      [] ~f.truncated /\ ~OverCap(f.written, l.length) ->
           [f EXCEPT !.written = @ + l.length, !.lines = Append(@, l)]

-----------------------------------------------------------------------------
\* Open

\* The lines a new tracer finds in the file.
Kept(appends) == IF appends THEN lines ELSE <<>>

\* The calls of the database before this one are over.  An Open traces a torn tail
\* that it cut off, and then itself; one that fails after the tracer was made
\* returns no database, and has cut no tail.
Open(appends, ok, recovered) ==
    /\ ~attached
    /\ opens < MaxRuns
    /\ \A g \in Goroutine : at[g] = "out"
    /\ recovered => ok
    /\ opens' = opens + 1
    /\ before' = Len(Kept(appends))
    /\ attached' = ok
    /\ shut' = FALSE
    /\ seq' = IF ~ok THEN 0 ELSE IF recovered THEN 2 ELSE 1
    /\ \E m, n \in Lengths :
         LET fresh == [written |-> 0, truncated |-> FALSE, lines |-> Kept(appends)]
             cut == IF recovered
                    THEN Emitted(fresh, [seq |-> 1, length |-> m, kind |-> "recover"])
                    ELSE fresh
             f == IF ok THEN Emitted(cut, [seq |-> seq', length |-> n, kind |-> "open"])
                  ELSE cut
         IN  written' = f.written /\ truncated' = f.truncated /\ lines' = f.lines
    /\ UNCHANGED <<op, todo, at, number, begun>>

-----------------------------------------------------------------------------
\* Calls

\* The lines a call traces: an fsync that is due is traced ahead of the write it
\* makes durable, and alone in DB.Sync.
CallKinds(o) ==
    IF o = "write" THEN {<<"write">>, <<"sync", "write">>, <<"sync">>} ELSE {<<o>>}

\* Mutant of Locked: a write gives db.mu back before it traces.
LockedUntilTraced(g) ==
    op[g] = "close" \/ (op[g] = "write" /\ at[g] = "running")

\* The calls that hold db.mu until they return.
Locked(g) == op[g] \in {"write", "close"}

Goes(g, place) == at' = [at EXCEPT ![g] = place]

Owed == FoldFunction(LAMBDA kinds, n : n + Len(kinds), 0, todo)

\* seq = 0 when no Open has returned a database.  A closed one takes no writes, and
\* traces no second Close.
Begin(g, o) ==
    /\ at[g] = "out"
    /\ seq > 0
    /\ o # "find" => attached /\ \A h \in Goroutine : ~Locked(h)
    /\ \E kinds \in CallKinds(o) :
         /\ seq + Owed + Len(kinds) <= MaxSeq
         /\ todo' = [todo EXCEPT ![g] = kinds]
    /\ op' = [op EXCEPT ![g] = o]
    /\ Goes(g, "running")
    /\ begun' = Append(begun, g)
    /\ UNCHANGED <<attached, number>> /\ UNCHANGED tracer

Without(g) == SelectSeq(begun, LAMBDA h : h # g)

\* Behind a line: the next one, the rest of Close, or the return of the call.
Traced(g) ==
    /\ todo' = [todo EXCEPT ![g] = Tail(@)]
    /\ number' = [number EXCEPT ![g] = 0]
    /\ IF Len(todo[g]) > 1
       THEN Goes(g, "running") /\ UNCHANGED op
       ELSE IF op[g] = "close"
       THEN Goes(g, "traced") /\ UNCHANGED op
       ELSE Goes(g, "out") /\ op' = [op EXCEPT ![g] = "none"]

\* What the line tells of is done.  It is traced if tracing is on.
Enabled(g) ==
    /\ at[g] = "running"
    /\ IF attached
       THEN Goes(g, "enabled") /\ UNCHANGED <<op, todo, number, begun>>
       ELSE Traced(g) /\ begun' = Without(g)
    /\ UNCHANGED attached /\ UNCHANGED tracer

\* t.next: by now the tracer may be gone, and the number is 0.
TakeNumber(g) ==
    /\ at[g] = "enabled"
    /\ seq' = IF attached THEN seq + 1 ELSE seq
    /\ number' = [number EXCEPT ![g] = IF attached THEN seq' ELSE 0]
    /\ begun' = IF Len(todo[g]) = 1 THEN Without(g) ELSE begun
    /\ Goes(g, "numbered")
    /\ UNCHANGED <<attached, shut, op, todo>> /\ UNCHANGED file /\ UNCHANGED history

\* t.emit is called on what db.trace is now, and formats the line.
Emit(g) ==
    /\ at[g] = "numbered"
    /\ IF attached
       THEN Goes(g, "emitting") /\ UNCHANGED <<op, todo, number>>
       ELSE Traced(g)
    /\ UNCHANGED <<attached, begun>> /\ UNCHANGED tracer

\* The rest of t.emit.  On a closed file the write fails, which is counted and not
\* reported.
WriteLine(g) ==
    /\ at[g] = "emitting"
    /\ \E length \in Lengths :
         LET f == Emitted([written |-> written, truncated |-> truncated, lines |-> lines],
                          [seq |-> number[g], length |-> length, kind |-> Head(todo[g])])
         IN  /\ truncated' = f.truncated
             /\ IF shut
                THEN UNCHANGED <<written, lines>>
                ELSE written' = f.written /\ lines' = f.lines
    /\ Traced(g)
    /\ UNCHANGED <<attached, shut, seq, begun>> /\ UNCHANGED history

\* The end of DB.Close: trace.close, then db.trace = nil.
ShutFile(g) ==
    /\ at[g] = "traced"
    /\ shut' = TRUE
    /\ Goes(g, "shut")
    /\ UNCHANGED <<attached, seq, op, todo, number, begun>>
    /\ UNCHANGED file /\ UNCHANGED history

Detach(g) ==
    /\ at[g] = "shut"
    /\ attached' = FALSE
    /\ op' = [op EXCEPT ![g] = "none"]
    /\ Goes(g, "out")
    /\ UNCHANGED <<todo, number, begun>> /\ UNCHANGED tracer

Next ==
    \/ \E appends \in AppendModes : \E ok, recovered \in BOOLEAN : Open(appends, ok, recovered)
    \/ \E g \in Goroutine :
          \/ \E o \in {"write", "find", "close"} : Begin(g, o)
          \/ Enabled(g) \/ TakeNumber(g) \/ Emit(g) \/ WriteLine(g)
          \/ ShutFile(g) \/ Detach(g)

Spec == Init /\ [][Next]_vars

\* No goroutine differs from another.
Symmetry == Permutations(Goroutine)

-----------------------------------------------------------------------------
\* Properties

Bytes(s) ==
    LET sum[k \in 0..Len(s)] == IF k = 0 THEN 0 ELSE sum[k - 1] + s[k].length
    IN  sum[Len(s)]

\* The lines since the last Open.
Recent == SubSeq(lines, before + 1, Len(lines))

\* The lines of one run of the database are within the cap, whoever wrote them
\* side by side and whatever the file held before, and the notice that the cap
\* was reached, if it is there, is the last line and the only one of its kind.  The
\* notice itself does not count.
Capped ==
    /\ Bytes(Recent) <= MaxBytes
    /\ \A k \in DOMAIN Recent : Recent[k] = Notice => k = Len(Recent)

\* The lines of one run's Open, of its writing calls and fsyncs and of its Close
\* are in the order of their numbers: db.mu is held from the number to the line,
\* though queries interleave freely.
WritersInOrder ==
    \A j, k \in DOMAIN Recent :
       j < k /\ {Recent[j].kind, Recent[k].kind} \cap {"find", "truncated"} = {}
          => Recent[j].seq < Recent[k].seq

\* trace.go: a sequence number is taken at the start of the operation so the
\* numbers reflect start order.
NumbersReflectStart ==
    [][ seq' # seq /\ begun' # begun => begun' = Tail(begun) ]_vars

\* nosqlite.go: WithTraceMaxBytes caps the trace file size.
FileCapped == Bytes(lines) <= MaxBytes

\* nosqlite.go: the tracer is started first so that a failure during replay is
\* itself traced.
FailedOpenTraced == [][ opens' # opens => Len(lines') > before' ]_vars

-----------------------------------------------------------------------------
\* Inductive invariants

\* What t.written counts is what the lines since the last Open take.
CapInv ==
    /\ written = Bytes(Recent) /\ written <= MaxBytes
    /\ \A k \in DOMAIN Recent : Recent[k] = Notice => truncated /\ k = Len(Recent)

\* One call at a time holds db.mu, of a database whose tracer is there, and only
\* Close is past its line.  A query traces its own line and no other, and no other
\* call traces one like it.
CallInv ==
    /\ \A g, h \in Goroutine : Locked(g) /\ Locked(h) => g = h
    /\ \A g \in Goroutine :
         /\ Locked(g) => attached
         /\ (at[g] = "out") <=> (op[g] = "none")
         /\ op[g] = "find" => \A k \in DOMAIN todo[g] : todo[g][k] = "find"
         /\ Locked(g) => \A k \in DOMAIN todo[g] : todo[g][k] # "find"
         /\ at[g] \in {"running", "enabled", "numbered", "emitting"} => todo[g] # <<>>
         /\ at[g] \in {"traced", "shut"} => op[g] = "close"
         /\ at[g] \notin {"numbered", "emitting"} => number[g] = 0

\* Lines that are not a query's have numbers that were handed out before the one
\* the holder of db.mu has at hand.
Ordered(k) == Recent[k].kind \notin {"find", "truncated"}
OrderInv ==
    /\ \A k \in DOMAIN Recent : Ordered(k) =>
         /\ Recent[k].seq <= seq
         /\ \A g \in Goroutine :
              Locked(g) /\ at[g] \in {"numbered", "emitting"} => Recent[k].seq < number[g]
    /\ \A g \in Goroutine : number[g] <= seq

IInv == before <= Len(lines) /\ CapInv /\ CallInv /\ OrderInv /\ WritersInOrder
=============================================================================
