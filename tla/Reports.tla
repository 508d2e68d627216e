------------------------------- MODULE Reports -------------------------------
(***************************************************************************)
(* What is computed from the traces in the store: Trace.breakdown and       *)
(* Trace.status (src/src/llmobs/trace.py), the read path of TraceStore      *)
(* (store.py), the console's overview and trace list (console.py), and the  *)
(* span tree and the replay of the CLI (cli.py).                            *)
(*                                                                         *)
(* A stored trace is the sequence of its spans, the root first; a span is   *)
(* [id, parent, began, ended, status], with parent 0 for none and ended -1  *)
(* while it is open.  Rounding is left out.                                 *)
(***************************************************************************)
EXTENDS Integers, Sequences, FiniteSetsExt, SequencesExt

IsOpen(s) == s.ended = -1

\* duration_ms, as the sums that skip None count it.
Duration(s) == IF IsOpen(s) THEN 0 ELSE s.ended - s.began

Durations(spans) == [i \in DOMAIN spans |-> Duration(spans[i])]

\* Trace.status
Status(spans) ==
  IF \E i \in DOMAIN spans : spans[i].status = "error" THEN "error" ELSE "ok"

ChildrenOf(spans, s) == {i \in DOMAIN spans : spans[i].parent = s.id}

\* Wrong: the time of the children is left in their parent's.
ExclusiveInclusive(spans, s) == Duration(s)

\* The time of a finished span that none of its finished children accounts for.
Exclusive(spans, s) ==
  IF IsOpen(s) THEN 0
  ELSE Max({0, Duration(s) - SumFunctionOnSet(Durations(spans), ChildrenOf(spans, s))})

\* Trace.breakdown, over all kinds.
Breakdown(spans) ==
  SumFunctionOnSet([i \in DOMAIN spans |-> Exclusive(spans, spans[i])], DOMAIN spans)

\* The spans that `llmobs trace` prints, one level of its walk after another.
Walked(spans) ==
  LET level[d \in 0 .. Len(spans)] ==
        IF d = 0 THEN {i \in DOMAIN spans : spans[i].parent = 0}
        ELSE UNION {ChildrenOf(spans, spans[i]) : i \in level[d - 1]}
  IN [d \in 0 .. Len(spans) |-> level[d]]

-----------------------------------------------------------------------------
(* TraceStore: rows of the table, one for each root span of a trace *)

\* joined, the span of the join, keeps two rows of one trace apart.
Row(spans, root) ==
  [id |-> spans[1].id, began |-> spans[1].began, duration |-> Duration(spans[1]),
   status |-> Status(spans), joined |-> root.id, outcome |-> root.status]

\* outcomes(): the join gives a trace once for each of its spans without a parent.
Outcomes(traces, since) ==
  UNION {{Row(t, t[i]) : i \in {j \in DOMAIN t : t[j].parent = 0}} :
         t \in {u \in traces : u[1].began >= since}}

\* summary(): "errors" goes by the status of the trace.
SummaryErrors(traces) == Cardinality({t \in traces : Status(t) # "ok"})

\* stage_latency(): whole durations, nested work counted in each stage.
StageTotal(traces) ==
  SumFunctionOnSet([t \in traces |-> SumFunctionOnSet(Durations(t), DOMAIN t)], traces)

\* breakdown(): the stages' exclusive times.
BreakdownTotal(traces) == SumFunctionOnSet([t \in traces |-> Breakdown(t)], traces)

-----------------------------------------------------------------------------
(* The console *)

Failed(rows)  == {r \in rows : r.outcome # "ok"}
Retried(rows) == {r \in rows : r.outcome = "ok" /\ r.status # "ok"}

BucketSize(window) == Max({2, window \div 60})
FirstBucket(now, window) == ((now - window) \div BucketSize(window)) * BucketSize(window)
BucketCount(now, window) ==
  (now - FirstBucket(now, window)) \div BucketSize(window) + 1

\* Wrong: a request that began after the clock was read has a bucket of its own.
BucketBeyond(now, window, row) ==
  (row.began - FirstBucket(now, window)) \div BucketSize(window)

\* Counted from 0; a request that began after the clock was read goes last.
Bucket(now, window, row) ==
  Min({BucketCount(now, window) - 1,
       (row.began - FirstBucket(now, window)) \div BucketSize(window)})

\* overview(): requests, failures and recovered requests of one bucket.
Series(now, window, rows) ==
  [i \in 0 .. BucketCount(now, window) - 1 |->
     LET here == {r \in rows : Bucket(now, window, r) = i} IN
     [requests |-> Cardinality(here),
      failed   |-> Cardinality(Failed(here)),
      retried  |-> Cardinality(Retried(here))]]

\* The elements of S, those with the larger key first.
Descending(S, key) ==
  CHOOSE s \in [1 .. Cardinality(S) -> S] :
    IsInjective(s) /\ \A i, j \in DOMAIN s : i < j => key[s[i]] >= key[s[j]]

\* _percentile() of the console and of the load generator, q a fraction: the place in
\* the ascending order, counted from its end.
Percentile(values, q) ==
  LET order == Descending(DOMAIN values, values)
  IN values[order[Len(values) - Min({Len(values) - 1, (q[1] * Len(values)) \div q[2]})]]

\* The list of traces: a view, newest or slowest first.
View(rows, view) ==
  LET shown == CASE view = "failed"  -> Failed(rows)
                 [] view = "retried" -> Retried(rows)
                 [] OTHER            -> rows
  IN Descending(shown, [r \in shown |-> IF view = "slowest" THEN r.duration ELSE r.began])
=============================================================================
