------------------------------- MODULE Readers -------------------------------
(***************************************************************************)
(* What the console (src/src/llmobs/console.py), the readers of TraceStore  *)
(* (store.py) and `llmobs trace` (cli.py) make of the traces that a tracer   *)
(* has exported, each compared with the others.  Reports has what they      *)
(* compute; here they read what Tracing stores.                             *)
(***************************************************************************)
EXTENDS Tracing

CONSTANTS
  Pace,    \* seconds in a tick of the tracer's clock
  Windows  \* the windows asked of overview(), in seconds

ASSUME ReadersAssumption == Pace \in Nat \ {0} /\ Windows \subseteq Nat

InSeconds(t) ==
  [i \in DOMAIN t |->
     [t[i] EXCEPT !.began = 1000 + Pace * @, !.ended = IF @ = -1 THEN -1 ELSE 1000 + Pace * @]]

\* The rows of a window read at tick c, and the traces they stand for.
Shown(c, window) ==
  LET now == 1000 + Pace * c
  IN [now |-> now, rows |-> Outcomes({InSeconds(t) : t \in stored}, now - window)]

\* A column of the series summed, over those of its buckets that a row falls in.
Column(series, buckets, field) ==
  SumFunctionOnSet([i \in DOMAIN series |-> series[i][field]], DOMAIN series \cap buckets)

(***************************************************************************)
(* The console's charts against its headline figures (console.py:171-223):  *)
(* whatever the clock read, also before a row that began in the meantime,   *)
(* every request of the window is in one bucket of the series, and the      *)
(* columns add up to the requests, the failed and the recovered ones.       *)
(***************************************************************************)
SeriesAddUp ==
  \A c \in {clock - 1, clock} \cap Nat : \A window \in Windows :
    LET shown   == Shown(c, window)
        series  == Series(shown.now, window, shown.rows)
        buckets == {Bucket(shown.now, window, r) : r \in shown.rows}
    IN /\ Column(series, buckets, "requests") = Cardinality(shown.rows)
       /\ Column(series, buckets, "failed") = Cardinality(Failed(shown.rows))
       /\ Column(series, buckets, "retried") = Cardinality(Retried(shown.rows))

(***************************************************************************)
(* The readers of one store against one another: the join behind outcomes() *)
(* gives one row a trace (store.py:206-211); summary()'s errors are the     *)
(* console's failed and recovered requests together (store.py:237);         *)
(* breakdown() never has more time in it than stage_latency() (store.py:170, *)
(* 216); the walk of `llmobs trace` prints each span once (cli.py:149-157); *)
(* and no more than q of the rows are faster than the console's percentile. *)
(***************************************************************************)
ReadersAgree ==
  LET rows    == Outcomes(stored, 0)
      slowest == View(rows, "slowest")
      times   == [i \in DOMAIN slowest |-> slowest[i].duration]
  IN
  /\ Cardinality(rows) = Cardinality(stored)
  /\ SummaryErrors(stored) = Len(View(Failed(rows), "failed")) + Len(View(rows, "retried"))
  /\ BreakdownTotal(stored) <= StageTotal(stored)
  /\ \A t \in stored : LET walked == Walked(t) IN
       \A i \in DOMAIN t : Cardinality({d \in DOMAIN walked : i \in walked[d]}) = 1
  /\ stored # {} =>
       \A q \in {<<1, 2>>, <<19, 20>>} :
         Cardinality({i \in DOMAIN times : times[i] < Percentile(times, q)}) * q[2]
           <= q[1] * Len(times)

AtRest == (\A t \in Threads : blocks[t] = <<>>) /\ (\A g \in Generators : gen[g].at # "open")

\* Both, between two requests: TLC looks there, the proof anywhere.
ReportsAgree == AtRest => SeriesAddUp /\ ReadersAgree
=============================================================================
