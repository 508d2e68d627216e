------------------------------- MODULE Tracing -------------------------------
(***************************************************************************)
(* Tracer (src/src/llmobs/trace.py): `with trace()` and `with span()` blocks *)
(* nested in threads, each with its context variable, and generators that   *)
(* hold a trace block open across their yields.                             *)
(*                                                                         *)
(* A thread runs blocks as InferenceGateway.generate does: it opens a trace *)
(* or a span, may finish the span early, and leaves the block, normally or  *)
(* by an exception.  A generator is InferenceGateway.stream(): one trace    *)
(* block.  Its consumer advances it in a thread's context or, as a server   *)
(* does, in a fresh copy of one; and when it is dropped, the interpreter    *)
(* may finalise it in any thread, between two blocks of a call.             *)
(*                                                                         *)
(* A trace has the id of its root span, so opening it chooses nothing.      *)
(***************************************************************************)
EXTENDS Integers, Sequences, FiniteSets, Reports

CONSTANTS
  Threads,     \* threads that run generate()
  Generators,  \* stream() generators
  MaxSpans,    \* bound: spans made
  MaxDepth,    \* bound: blocks open in one thread
  MaxTime      \* bound: clock ticks

ASSUME TracingAssumption ==
  /\ IsFiniteSet(Threads)
  /\ MaxSpans \in Nat /\ MaxDepth \in Nat /\ MaxTime \in Nat

VARIABLES
  clock,
  spans,    \* the spans made so far; a span's id is its place
  records,  \* Trace.spans of each trace: ids, in the order they were appended
  active,   \* Tracer._active: ids of traces
  ambient,  \* _current_span in each thread's context, 0 for None
  blocks,   \* the `with` blocks open in each thread, the innermost last
  gen,      \* the trace block of each generator
  stored,   \* what has been exported
  astray    \* history: threads, a block of whose call met another's ambient span

tracer == <<records, active, stored>>
vars   == <<clock, spans, tracer, ambient, blocks, gen, astray>>

Ids == 1 .. MaxSpans

Init ==
  /\ clock = 0
  /\ spans = <<>>
  /\ records = [i \in Ids |-> <<>>]
  /\ active = {}
  /\ ambient = [t \in Threads |-> 0]
  /\ blocks = [t \in Threads |-> <<>>]
  /\ gen = [g \in Generators |-> [at |-> "new", span |-> 0, previous |-> 0]]
  /\ stored = {}
  /\ astray = {}

Tick ==
  /\ clock < MaxTime
  /\ clock' = clock + 1
  /\ UNCHANGED <<spans, tracer, ambient, blocks, gen, astray>>

-----------------------------------------------------------------------------
(* Spans and records *)

NewId == Len(spans) + 1

NewSpan(parent, trace) ==
  [id |-> NewId, parent |-> parent, trace |-> trace, began |-> clock, ended |-> -1, status |-> "ok"]

\* Span.finish: only the first call counts.
Finished(s, status) ==
  IF s.ended # -1 THEN s ELSE [s EXCEPT !.ended = clock, !.status = status]

\* Tracer.trace on entry.
BeginTrace ==
  /\ Len(spans) < MaxSpans
  /\ spans' = Append(spans, NewSpan(0, NewId))
  /\ records' = [records EXCEPT ![NewId] = <<NewId>>]
  /\ active' = active \cup {NewId}
  /\ UNCHANGED stored

\* Tracer.span below a span: the record is that of the parent's trace, if still open.
BeginChild(parent) ==
  LET trace == spans[parent].trace IN
  /\ Len(spans) < MaxSpans
  /\ spans' = Append(spans, NewSpan(parent, trace))
  /\ records' = IF trace \in active THEN [records EXCEPT ![trace] = Append(@, NewId)]
                                    ELSE records
  /\ UNCHANGED <<active, stored>>

\* Tracer.trace on exit: the root is finished and the trace exported.  That an
\* unsampled trace may be dropped here, and an exporter may fail, is in Gateway.
EndTrace(id, status) ==
  /\ spans' = [spans EXCEPT ![id] = Finished(@, status)]
  /\ active' = active \ {id}
  /\ stored' = stored \cup {[i \in DOMAIN records[id] |-> spans'[records[id][i]]]}
  /\ UNCHANGED records

-----------------------------------------------------------------------------
(* Blocks of a thread *)

Top(t) == blocks[t][Len(blocks[t])]

\* Wrong: a trace takes its span back out of the context, but restores nothing.
RestoredToNone(previous) == 0

\* _restore: by the token or, where that is another context's, by assignment.
Restored(previous) == previous

Enter(t) ==
  /\ Len(blocks[t]) < MaxDepth
  /\ blocks' = [blocks EXCEPT ![t] = Append(@, [span |-> NewId, previous |-> ambient[t]])]
  /\ ambient' = [ambient EXCEPT ![t] = NewId]
  /\ UNCHANGED <<clock, gen, astray>>

\* generate() opens its trace; nothing in the repository opens one inside another.
OpenTrace(t) ==
  /\ blocks[t] = <<>>
  /\ BeginTrace
  /\ Enter(t)

\* With no ambient span, span() opens a trace.  A span is never opened below one
\* that its own block has finished.
OpenSpan(t) ==
  /\ blocks[t] # <<>> => spans[Top(t).span].ended = -1
  /\ IF ambient[t] = 0 THEN BeginTrace ELSE BeginChild(ambient[t])
  /\ Enter(t)

\* root.finish() of an answered call, span.finish() of a failed attempt.
FinishEarly(t) ==
  /\ blocks[t] # <<>> /\ spans[Top(t).span].ended = -1
  /\ \E status \in {"ok", "error"} :
       spans' = [spans EXCEPT ![Top(t).span] = Finished(@, status)]
  /\ UNCHANGED <<clock, tracer, ambient, blocks, gen, astray>>

\* An Exception makes it an error, unless it is finished; a BaseException does not.
Leave(t) ==
  /\ blocks[t] # <<>>
  /\ LET id == Top(t).span IN
     \E status \in {"ok", "error"} :
       IF spans[id].trace = id THEN EndTrace(id, status)
       ELSE spans' = [spans EXCEPT ![id] = Finished(@, status)] /\ UNCHANGED tracer
  /\ ambient' = [ambient EXCEPT ![t] = Restored(Top(t).previous)]
  /\ blocks' = [blocks EXCEPT ![t] = Front(@)]
  /\ astray' = IF Len(blocks[t]) = 1 THEN astray \ {t} ELSE astray
  /\ UNCHANGED <<clock, gen>>

-----------------------------------------------------------------------------
(* Generators *)

\* A generator's step in the context of t, or in a copy of it that is then dropped.
InContext(t, copied, value) ==
  ambient' = IF copied THEN ambient ELSE [ambient EXCEPT ![t] = value]

\* The first next().
Begin(g, t) ==
  /\ gen[g].at = "new" /\ blocks[t] = <<>>
  /\ BeginTrace
  /\ gen' = [gen EXCEPT ![g] = [at |-> "open", span |-> NewId, previous |-> ambient[t]]]
  /\ \E copied \in BOOLEAN : InContext(t, copied, NewId)
  /\ UNCHANGED <<clock, blocks, astray>>

Finish(g, t, status) ==
  /\ gen[g].at = "open"
  /\ EndTrace(gen[g].span, status)
  /\ gen' = [gen EXCEPT ![g].at = "done"]
  /\ UNCHANGED <<clock, blocks>>

\* Its last next(), which returns or raises, or its close().
End(g, t) ==
  /\ blocks[t] = <<>>
  /\ \E status \in {"ok", "error"} : Finish(g, t, status)
  /\ \E copied \in BOOLEAN : InContext(t, copied, Restored(gen[g].previous))
  /\ UNCHANGED astray

\* Dropped and finalised in the middle of a call that another request makes in t.
Finalise(g, t) ==
  /\ blocks[t] # <<>>
  /\ Finish(g, t, "ok")
  /\ InContext(t, FALSE, Restored(gen[g].previous))
  /\ astray' = astray \cup {t}

-----------------------------------------------------------------------------

Next ==
  \/ Tick
  \/ \E t \in Threads :
       \/ OpenTrace(t) \/ OpenSpan(t) \/ FinishEarly(t) \/ Leave(t)
       \/ \E g \in Generators : Begin(g, t) \/ End(g, t) \/ Finalise(g, t)

Spec == Init /\ [][Next]_vars

-----------------------------------------------------------------------------
(* Properties *)

(***************************************************************************)
(* What a record is (trace.py:283-289, 322-326), whatever generators do to  *)
(* the ambient spans: one root, first, and every other span after its       *)
(* parent in the same record.  And a call whose context no generator's      *)
(* finalisation has touched keeps its spans: those of its open blocks are   *)
(* each the child of the one around it, and in the record of its trace.     *)
(***************************************************************************)
SpanTree ==
  /\ \A id \in Ids : LET record == records[id] IN
       \A i \in DOMAIN record :
         IF i = 1 THEN record[i] = id /\ spans[id].parent = 0
         ELSE \E j \in 1 .. i - 1 : spans[record[i]].parent = record[j]
  /\ \A t \in Threads \ astray :
       \A i \in DOMAIN blocks[t] : LET id == blocks[t][i].span IN
         /\ i > 1 => spans[id].parent = blocks[t][i - 1].span
         /\ spans[blocks[t][1].span].parent = 0 =>
              \E j \in DOMAIN records[blocks[t][1].span] : records[blocks[t][1].span][j] = id

\* The trace of a stream.
Streamed(trace) == \E g \in Generators : gen[g].span = trace[1].id

\* No two spans right below the root were open together.
InTurn(trace) ==
  \A i, j \in ChildrenOf(trace, trace[1]) : i < j => trace[i].ended <= trace[j].began

(***************************************************************************)
(* "Child durations are subtracted from their parent so the numbers sum to  *)
(* the request total" (trace.py:215): so they do for every stored trace of a*)
(* call all of whose spans have ended, and for one of a stream unless two   *)
(* spans of its consumers, right below its root, were open together.        *)
(***************************************************************************)
BreakdownAddsUp ==
  \A t \in stored :
    (\A i \in DOMAIN t : ~IsOpen(t[i])) /\ (Streamed(t) => InTurn(t)) =>
      Breakdown(t) = Duration(t[1])
=============================================================================
