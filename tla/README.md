# A TLA+ development of llmobs

`llmobs` (`src/src/llmobs/`) is an inference gateway with built-in monitoring:
requests go through one code path that sheds load, retries, traces, measures,
validates, judges against service-level objectives and stores what happened.
This directory holds TLA+ modules for the parts whose correctness depends on the
order of things, the TLC configurations that check them on small instances, and
TLAPS proofs of what matters most for every value of the constants.

Contents: [parts of the system](#1-the-parts-of-the-system) ·
[modules](#2-the-modules) · [granularity](#3-what-one-step-is) ·
[runs](#4-the-runs) · [bounds](#5-the-bounds-and-why-they-are-enough) ·
[fairness](#6-fairness) · [proofs](#7-what-is-proved) ·
[disagreements](#8-where-the-code-and-its-documents-disagree) ·
[assumptions](#9-assumptions) · [not modelled](#10-what-is-not-modelled) ·
[plan](#11-plan)

To check a model: `tlc -config MCServing_calls.cfg MCServing`. To check proofs:
`tlapm GatewayProofs.tla`.

## 1. The parts of the system

Paths below are under `src/src/llmobs/`.

| Part | State | Operations | Talks to |
|---|---|---|---|
| `gateway.py` InferenceGateway | `_in_flight`, listeners | `generate`, `stream`, `snapshot`, `refresh_backend_health`, `close` | backend, tracer, metrics, SLO tracker, validator |
| `trace.py` Tracer | `_active` under a lock, the ambient span (a context variable), exporters | `trace`, `span`, `_export`, `_should_sample` | exporters: the store's `save` |
| `metrics.py` MetricsRegistry | counters, gauges, histograms with their samples | `observe_span`, `inc`, `set`, `observe`, `render`, `snapshot` | called by gateway and server |
| `slo.py` SLOTracker | one event deque per SLO | `record`, `status`, `all_status`, `worst_severity` | called by gateway, server, console, CLI |
| `store.py` TraceStore | a SQLite file, one connection, a lock | `save`, `prune`, `iter_traces`, single-statement readers | called by tracer, server, console, CLI |
| `backends/local.py` LocalSimBackend | `_in_flight`, `_queue_depth`, `_prefix_cache`, tunable attributes | `generate`, `stream`, `health` | called by gateway, tuned by console |
| `backends/http_backends.py` | an HTTP client | `generate`, `stream`, `health` | upstream servers |
| `console.py` TrafficGenerator | `_stop`, `_thread`, `sent`, `scenario` | `start`, `stop`, `set_scenario`, `_loop`, `load_test` | gateway, LocalSimBackend |
| `console.py` overview, router | none | one read endpoint each | store, tracker, registry |
| `validation.py` ResponseValidator | a registry of checks | `validate` | called by gateway |
| `server.py` | the FastAPI application | `/v1/generate`, `/v1/generate/stream`, `/metrics`, `/stats`, `/v1/slo`, `/ready` ... | gateway |
| `loadgen.py` | counts of one run | `generate_load` | gateway |
| `cli.py` | none | `serve`, `load`, `slo`, `traces`, ... | everything |
| `web/`, `deploy/` | presentation, configuration | | |

How they interact. The server runs each request in a thread of its own, and
every thread calls straight into the shared objects: there is no queue and no
event loop between a request and the counters it changes. The gateway holds no
lock at all; the tracer locks its active map, the registry locks
`observe_span()` and `render()` but not the counters the gateway's error path
writes, the tracker locks nothing, the store locks every use of its connection.
The console adds threads that call the same gateway and change attributes of
the backend under it. `llmobs slo` is another process that reads the same file.

What is hard, and what makes each part correct:

* **Gateway.** Four ways out of `generate()` (answer, `BackendError`, any other
  exception, shed before entry) and four out of `stream()`, the fourth being a
  consumer that drops the generator at a yield. Correct when a slot is taken and
  given back exactly once on each, when load is shed only for want of room, when
  each way out leaves exactly the records it owes, and when every request ends.
* **Tracer.** A trace is exported by the `finally` clause of a generator-based
  context manager. Correct when nothing stays in the active map, and when a
  failed or recovered request is exported whatever the sampling rate. The ambient
  span is a context variable, restored by a token or, from another context, by
  assignment. Correct when every record is a tree and a call keeps its spans.
* **SLO tracker.** Threads append to and pop from the same deques while others
  iterate over them. Correct when no pop meets an empty deque, memory stays
  bounded, racing trims lose little, and a rate that is judged is the rate of
  some instant.
* **Trace store.** One connection means one open transaction: what a failed
  `save()` leaves in it, the next commit takes along. Correct when saved traces
  survive everything but a prune of older ones, and when half traces and orphan
  spans do not reach the disk.
* **Simulator and console.** Slots and queue places given back by several ways
  out; a start/stop protocol without a lock; a scenario switch of up to six
  separate writes. Correct when the books are exact, one loop runs at a time, a
  switch is whole, and stopped traffic drains.
* **Metrics.** Histograms observed on the error path outside the lock that
  `render()` takes; the sample dictionary iterated while it grows. Correct when a
  scrape is wrong by no more than the failures it overlaps.
* **Backends, server, load generator.** The classification of failures
  (retryable or not, which status code) and the fate of the other results when
  one request fails unexpectedly. Correct when the upstream is sent nothing the
  retry rules do not allow and every client is told what happened.
* **Readers.** The console, the store's queries and the CLI compute the same
  things from the same traces by different code. Correct when they agree.

`PROJECT.json` lists these as components with what is and is not modelled, and
under `hazards` every place that is hard to test, at its line.

## 2. The modules

| Module | Models | Checked by | Proved in |
|---|---|---|---|
| `RequestLedger` | the accounting the gateway promises (abstract) | through the refinement | `RequestLedgerProofs` |
| `Gateway` | `InferenceGateway.generate`, `stream`; the tracer's active map, sampling and export; counters and gauge as the gateway writes them | `MCServing` (through `Serving`), `MCGateway` | `GatewayProofs` |
| `Validation` | the checks of `validation.py` and the verdict, as operators | `MCServing` | `ServingProofs` (as used there) |
| `Serving` | the HTTP adapters' classification, the answers of the server, `generate_load`, the events that `llmobs slo` replays, composed with `Gateway` | `MCServing` | `ServingProofs` |
| `SLOTracker` | `record`, `_trim`, `_error_rate`, `status`, `all_status`, `SLO.is_good` | `MCSLOTracker` | `SLOTrackerProofs` |
| `TraceArchive` | what a store of traces promises (abstract) | through the refinement | `TraceStoreProofs` (the refinement) |
| `TraceStore` | `save`, `prune`, `iter_traces`; crash of the server | `MCTraceStore` | `TraceStoreProofs` |
| `LocalSim` | `LocalSimBackend`'s admission, queue, injected failure, cache, release | `MCConsole` (through `Console`) | `ConsoleProofs` |
| `Console` | `TrafficGenerator.start`, `stop`, `set_scenario`, `load_test`, `_loop`, composed with `LocalSim` | `MCConsole` | `ConsoleProofs` |
| `Metrics` | `Histogram.observe`, `observe_span` and the error path's records; `render`; the lockless `quantile` | `MCMetrics` | `MetricsProofs` |
| `Tracing` | `Tracer.trace`, `span`, `_restore`: spans, records and ambient spans under nested blocks, threads and generators | `MCTracing` | `TracingProofs` |
| `Reports` | `Trace.breakdown` and `status`, the store's readers, the console's overview and views, the CLI's walk, as operators | `MCTracing` (through `Readers`) | `TracingProofs` (as used by `Readers`) |
| `Readers` | what those readers make of the traces that `Tracing` has stored, compared with one another | `MCTracing` | `TracingProofs` |

Composition: `Console` EXTENDS `LocalSim` and conjoins its steps with its own;
`Serving` EXTENDS `Gateway` in the same way, and gives every step of it a reason:
a reply of the upstream, a free worker of a load test. `Gateway` implements
`RequestLedger` under the refinement mapping at the end of `Gateway.tla`, and
`TraceStore` implements `TraceArchive` under the one at the end of `TraceStore.tla`.
`Gateway` takes the tracker as "one good or bad event", `SLOTracker` opens that
step up; `Gateway` takes an exporter as "stored or lost", `TraceStore` opens that
up; `Gateway` takes the recording of metrics as one step for each metric,
`Metrics` opens that up; `Tracing` opens up its spans. `Reports` and `Validation`
have no state: they are what is computed from the state of the others. `Readers`
EXTENDS `Tracing` and applies `Reports` to what it has stored.

### Gateway

`pc[r]` is where request `r` stands, named after the code: `check` is the test
at `gateway.py:135`, `enter` the increment at 152, `gauge` and `regauge` the
stores into the gauge at 153 and 229, `open` the tracer's entry, `call` the loop
of `_call_with_retries` or the body of a stream, `yielded` a generator suspended
at its yield, `errors`, `requests`, `latency`, `record` the writes of `except
BackendError` in their order, `export` the tracer's exit, `leave` the decrement.
`fate[r]` is the result or exception in flight. `tally` holds the counters, the
number of latency observations and the SLO events. The breakdown, the validation
verdict and the token counts are data no property tells apart; a verdict is part
of "answered" here, and `Serving` takes it apart. A backend may answer, raise a
`BackendError` that is retryable or not, or raise anything else (`AttemptCrash`:
a body that is not JSON, a connection cut mid-body). An exporter may fail, and does so silently
(`trace.py:365`).

`RequestLedger` says only that each request gets one fate, that a fate makes a
set of entries due (`Due`), and that a request settles when it has written all
of them and nothing else. `Due` is what the code does, not what one might wish:
a shed call owes `errors_shed` alone, a crash owes nothing. Whether that is what
the documents promise is the subject of section 8.

### SLOTracker

A deque that is appended to on the right and popped on the left is its history
and the number popped: `log[s]`, `popped[s]`. This makes "what has been lost" a
statement about one state. `Record` to `CapPop` are `record()` and `_trim()`;
`Evaluate` to `Publish` are `all_status()`, with `status()` and `_error_rate()`
inlined, `place[q]` being the locals of a reader. `reversed(deque)` remembers
the length and the modification state of the deque, so `ScanCount` needs
`Untouched` and `ScanRaise` is the `RuntimeError`. Budgets are in thousandths
and thresholds in tenths; where the two rounded divisions of the code would be
compared at exact equality the model allows both verdicts. A latency limit of 0
is none, as in `slo.py:72`.

### TraceStore

A database is a set of trace rows and the number of span rows of each trace. `view`
is what the server's connection sees, its open transaction included, and `disk` what
is committed; a `BEGIN` is implicit in the first write, as in Python's `sqlite3`.
The statements of `save()` may fail after any row of `executemany`
(`StatementFails`): the exception leaves the `with self._lock` block, and the
transaction stays open, because nothing in the code rolls it back. `PruneFails` is a
DELETE or the commit of `prune()` that raises: SQLite undoes that statement, or the
whole transaction. If it is the second DELETE, what is left open has lost traces
whose spans are still there, and the next commit makes that durable; `pruned.torn`
remembers it until a prune is committed. `Crash` is external: SQLite recovers the
committed state. The reader is the other process of `llmobs slo`, with `LIMIT ...
OFFSET ...` pages.

`TraceArchive` has no transaction, lock or rows: a save and a prune are single
steps. What it keeps is what is on disk, and what it has adrift are the rows of
failed saves that only the open transaction has. It does not promise that failed saves
leave nothing behind, because they do (section 8); it says when what they leave
is kept and when it is forgotten.

### LocalSim and Console

`LocalSim` has the simulator's counters and cache; a sleep is the gap between
two steps. `Console` has, for each server thread, the steps of the handler it
runs, and for each arrival thread its loop: `look` is the test of `_stop`,
`pause` the computation of the delay, `wait` the timed wait on the event,
`submit` the hand-over to the pool. `tunable` are the attributes that a scenario
switch writes one by one while calls read them. `apart` records whether two
`start()` calls (ever) or two switches (since the last one that ran by itself)
have overlapped: two properties are about what holds if they have not. `test[h]`
is the load test a handler runs; what it sends is in `Serving`, and where a call of
it raised the handler does too (`LoadRaises`) and the history has nothing of it.

### Serving and Validation

`over[r]` is how the request goes to the upstream: one POST, or a stream of
server-sent events (`generate()` with `stream=True` uses the latter too). `sent` is
how often the upstream has had it and `last` its latest reply, of seven kinds, and
`Classify` what the adapter makes of it; "misshapen" is JSON that is not an object,
which a POST trips over and a stream turns into a `BackendError`. `Attempt` and
`Pull` are the gateway's steps under that reply. The upstream itself is free: any
reply at any time. `told[r]` is what the client hears, by the server's exception
handlers or through the `LoadResult` in `load`. `mixed` is a history variable:
whether some thread has loaded `_in_flight` while another was between its load and
its store into the gauge. A text is the record of what the checks ask of it
(`Validation`), and the instance has one for each way a check can go, the ways it
can raise included: a text may be null, which only the POST of `OpenAICompatBackend`
can bring (`MayBeNull`), and `json.loads` may raise something other than the
`JSONDecodeError` that is caught. `verdict[r]` has what the validator said
(`valid`), what the caller would have of the answer (`acceptable`), and whether the
checks that can fail an answer could look at it (`legible`).

### Metrics

A label set's lists are objects: `lists[k]` holds every generation that
`observe()` has made for it, the last in the dictionary, because a thread, a
scrape or a reader can still hold an earlier one. `scrape.across` is a history
variable: the failing requests whose unlocked updates the scrape has overlapped.
The latency histogram stands for the five, and a failed request differs from an
answered one in taking no lock (`gateway.py:216-224`).

### Tracing, Reports and Readers

`ambient[t]` is the context variable in the context of thread `t`; a generator
is advanced in that context or in a copy of it, as Starlette's thread pool does
(`Begin`, `End`), or is finalised by the interpreter in whichever thread drops
it (`Finalise`, external). `blocks[t]` are the open `with` blocks, with the span
each will restore. `astray` is a history variable: the threads in whose current
call a generator has been finalised. `stored` is what `_export` has handed out,
as the sequences of spans that the operators of `Reports` are about; sampling is
in `Gateway`. A row of `outcomes()` names the span it was joined with, so that two
equal rows of one trace are two. `Readers` reads a tick of the tracer's clock as `Pace` seconds and
asks the console's overview for each of `Windows`.

## 3. What one step is

Threads are CPython threads under the global lock. A thread can lose it at the
start of a function, after a call returns and at a loop's jump back, not between
two simple bytecodes (CPython 3.10 to 3.12).
So:

* `self._in_flight += 1`, `Counter.inc`'s `+=` and `self.sent += 1` are single
  steps; the test at `gateway.py:135` and the increment at 152 are not one,
  because `GenerationRequest(...)` is called in between;
* the argument of `in_flight.set(self._in_flight)` is loaded in the same step as
  the increment before it, and stored by a later one, because `set` is a call;
* in `_trim` no switch point lies between the first test of the first loop and
  the `popleft` it guards, so `TrimFirst` is one step. The later tests of a
  `while` loop are compiled at its bottom, before the jump back, so a switch fits
  between such a test and its `popleft`: `TrimLook` and `TrimPop`. The test of
  the second loop calls `len`, so `CapLook` and `CapPop` are two from the start;
* one iteration of the scan in `_error_rate` is one step;
* in the store everything happens under a lock or inside one SQLite call, and a
  step is a statement (for `executemany`, a row: it can fail between rows);
* in the console a step is one call that a handler makes;
* in `observe()` a step ends at a call that returns (`_labels`, `len`, `append`)
  or at the loop's jump back; `render()` formats each line by calls, so that each
  bucket, the `+Inf` line and the count are steps of their own;
* in the tracer a block is entered and left in one step each: its parts are
  ordered by the locks and by the thread's own context, and no other thread sees
  the span in between.

A coarser model would hide the disagreements of section 8; a finer one adds
switches the interpreter does not make. On a free-threaded build the steps would
have to be finer.

## 4. The runs

| Run | Instance | Shows | States |
|---|---|---|---|
| `serving_calls` | 2 calls of the server or of a load test with 2 workers, 1 slot, 1 retry | `InFlightExact`, `TotalsExact`, `FailuresKeepTheirTrace`, `ShedOnlyWhenFull`, `ClientsMatchBooks`, `GaugeRepaired`, and that the gateway implements `RequestLedger`, in every interleaving of answers, retries, failures, crashes and shedding | 518k |
| `serving_streams` | 1 call with 2 retries, 1 stream, 1 slot, sampled or not, five kinds of reply, both transports | `ActiveExact`, `UpstreamExact`, `ReplayFaithful`, `ClientToldTruth`, and under fairness `EveryRequestSettles`, with a stream that ends in each of its four ways | 187k |
| `serving_rejected` | 1 call, 1 retry | counterexample, section 8 | |
| `gateway_limit`, `gateway_events` | 2 requests | counterexamples, section 8 | |
| `slo_record` | 3 writers, 2 SLOs, cap 3, 6 records | `PopsNonEmpty`, `MemoryBounded`, `OverTrimBounded`, `FailuresHurtEverySLO` | 3.5M |
| `slo_status` | 1 writer, 1 reader, 2 SLOs with 2 rules | `RatesAreSnapshots`, `SeverityMatchesFired` | 2.0M |
| `store` | 3 traces, `keep_last` 1, pages of 2, 2 prunes, 1 crash | `SavedSurvive`, `HalvesAreOfFailedSaves`, `NoOrphanSpans`, `IterationExact`, that the store implements `TraceArchive`, and `SavesEnd` under fairness | 257k |
| `store_halves` | 3 traces | counterexample, section 8 | |
| `console` | 2 handlers, 2 calls, 3 console requests | `BooksExact`, `OneLoop`, `ScenarioWhole`, and `StopDrains` under fairness | 394k |
| `metrics` | 2 answered requests and a failed one, 2 label sets, 2 buckets, 1 sample, a scrape or a reading of `/stats` | `HistogramExact`, `ScrapeConsistent`, `QuantileSound`, and `ScrapeEnds` under fairness | 60k |
| `tracing` | 2 threads, 1 generator, 3 nested blocks; 4 spans and 1 tick, or 3 and 2 | `SpanTree`, `BreakdownAddsUp`, `ReportsAgree` | 579k |

What the properties mean is written above each of them in its module. Some
results worth stating here:

* **Racing trims lose events, but few.** Two threads that saw the same event over
  the cap each pop one. `OverTrimBounded` says by how much: at most one event
  beyond what had to go for each other thread. The stronger statement "nothing is
  popped that need not be" is false.
* **A half-written trace is always that of a failed save.** Not of a crash, and
  not of a save in progress, although `disk` may take over an open transaction.
  Spans without a trace are always of a prune that raised between its two DELETEs,
  and the next prune takes them away.
* **An answer is not always judged.** `ClientToldTruth` says that a mark of
  "invalid" is always deserved, and that an unacceptable answer has one wherever the
  checks could look at it. Where a check raises, the code warns and says "valid":
  section 8.
* **Paging by OFFSET repeats rows but skips none**, as long as nothing is pruned:
  older traces committed between two pages push rows onto later pages, so a trace
  may be replayed twice, and still the replay never counts more than is stored.
* **The queue of the simulator is exact even though it is not a queue**: a call
  waits a fixed time and is then admitted whether a slot is free or not.
* **A wrong gauge is not wrong for long.** Overlapping requests can store their
  values in the opposite order and leave the gauge off with nothing in flight;
  `GaugeRepaired` says that any request that starts or ends while no other is
  about to store puts it right.
* **A scrape is off by what it overlaps.** Answered requests are in all metrics
  or in none; each failing request that writes during the scrape can make two
  numbers differ by one, and nothing else can.
* **The replay is not the live tracker.** `ReplayFaithful` says by how much:
  sampled-out answers are missing, crashes and dropped streams are added, so under
  sampling `llmobs slo` never shows a lower error rate than was recorded, but for
  traces an exporter lost and streams their consumers dropped.
* **The readers agree.** A row of the console, an error of the summary and a span
  of the CLI's tree are counted once each, whatever the clock read and however
  generators were finalised. TLC looks between two requests; the theorem says so of
  every moment, since a trace reaches the store whole.
* **The breakdown of a call adds up, that of a stream may not.** Spans opened below a
  call's root come one after another, whatever else happens. Below the root of
  a stream, two can be open at once: a second generator, begun where that root was
  ambient, puts it back when it is finalised inside a call, and the call's next span
  is opened below the root beside one that is still open. Both are subtracted,
  the exclusive time stops at zero, and the sum may exceed the request's duration.

For every property of a passing run, `PROJECT.json` names a mutant: a plausible
wrong form of one of the definitions, which stands above it in the module with a
comment that begins with "Wrong". Each mutant makes TLC violate its property.

## 5. The bounds, and why they are enough

* *Serving.* Two calls and one slot are the least with a race for admission and a
  shed, and two calls of a load test with two workers the least that run beside one
  another; two retries give a first, a middle and a last attempt, and one is enough
  where the attempts themselves are not the point. `chunks` counts no further than
  `MaxChunks`, while a stream may have any number of them, and be dropped at the
  first or at a later one; `sent` counts one further than the retry rules allow.
  `Replies` leaves out `unreachable` and `cut`, which the adapters treat as they do
  `busy` and `misshapen`, and, with two calls, the kinds that add no further
  outcome. Both values of `SampleChoices` let each trace be sampled or not, in
  `serving_streams` too: its answers are then missing from the replay. The run of
  the two calls has only texts the checks can look at (`LegibleTexts`), as its
  properties count verdicts and do not judge them. `LoadTests`, `Texts` and
  `Contexts` are bounds too: no load test or one of all the calls, and texts that
  each trip one check. The theorems of section 7 hold for any number of calls and
  streams.
* *Metrics.* Two spans and a failure give a race under the lock and one outside
  it; `MaxSamples = 1` fills the pool with two observations; `Loads` are three
  distributions of label sets and latencies (all in one label set, the failure
  apart, the spans apart). `OneVisitor` lets one scrape or one reading run, as
  neither changes what the other sees.
* *Tracing.* `MaxSpans = 4` gives a call of two nested blocks and another beside
  a generator; `MaxDepth = 3` is one more than the gateway reaches (trace,
  attempt); two ticks let a child take part of its parent's time. `Bounded` keeps
  the fourth span and the second tick apart. With one generator the spans below a
  stream's root do not overlap yet; with two they do, and `BreakdownAddsUp` without
  its condition on streams (`InTurn`) fails; that larger instance is left to
  the theorem. `ReportsAgree` is evaluated between two requests, as evaluating it in
  every state makes the run four times as long; the theorem has no such
  restriction. It reads a tick as 67
  seconds, with windows of 60 and 300, so that rows fall outside and into
  several buckets, and reads the clock before or after the latest rows.
* *SLOTracker.* Three writers give a race with more than one loser, which is what
  distinguishes the two bounds. With `MaxEvents = 3` there is room for three threads
  to drop one event each where only one had to go, and for one more to be noticed:
  `OverTrimBounded` with one event less is violated in this instance, and a smaller
  cap could not exceed it. Six records cross the cap three times, all of them
  failures, as what is recorded has no part in the races. The windows are one tick
  or less against two ticks, so events go stale within the run. `MinSample = 2`
  stands for the 10 in `status()`. `MaxStall` bounds how long a `record()` call
  lasts and is also an assumption (section 9). `slo_record` has `MaxStall` equal to
  the shortest window, which is twice what `PopsNonEmpty` can be proved for, and
  with more threads and records it fails there (section 7); within this run's bounds
  it holds.
* *TraceStore.* Three traces against `keep_last = 1` leave both kept and pruned
  ones, out of order; traces of one and of two spans let a save fail before,
  between and after its span rows; with two prunes one can fail between its
  statements and another be committed after it, and a crash can come before, between
  and after them (the invariants are proved for any number).
* *Console.* Three console requests are the least for start, stop, start, for
  two starts around a stop, and for two load tests around a switch, which overfill
  a history of one (`HistorySize`; the code keeps 20); two calls fill and overfill a simulator of one
  slot and a cache of one prefix.

Deadlock is checked in the runs of `Serving` and `Gateway` and in `slo_status`.
`Serving` and `Gateway` have an explicit step for the end (`AllTold`, `Finished`).
The other configurations turn the check off, because their bounded supply of
records, traces or console requests really comes to an end.

## 6. Fairness

* `Serving!FairServingSpec`: weak fairness of each request's steps. The scheduler
  runs every thread; a backend answers or times out (every HTTP read has a timeout,
  and the simulator's sleeps are finite); a consumer either asks for the next chunk
  or drops the generator, which Python closes when it is collected. Nothing in the
  code bounds the number of chunks: that a stream ends is the upstream's part, bound
  as it is by `max_tokens`, and assumed here as strong fairness of its last word
  (`LastPull`). Calls need no such assumption, and it is the loop of their attempts
  that `EveryRequestSettles` is a test of.
* `TraceStore!FairSpec`: weak fairness of each saving thread and of a prune that
  has begun. Taking a free lock needs no strong fairness here, as each thread
  saves once and the lock changes hands finitely often.
* `Console!FairSpec`: weak fairness of handlers, loops and calls, **not** of
  `TimeOut` (the next arrival may be arbitrarily far away at a low rate). So
  `StopDrains` depends on `Event.set()` waking the loop, as it should.

* `Metrics!FairSpec`: weak fairness of each writing thread and of a scrape that
  has begun. Each writer takes the lock once, so a waiting scrape needs no more.

`Tracing` has no liveness property, as a block may stay open for ever.
`SLOTracker` has no liveness property: a burst of records can make an evaluation
fail time after time, and nothing in the code prevents that.

## 7. What is proved

All theorems are of `Spec` (`ServingSpec` in `Serving`), for arbitrary constants that satisfy the module's
`ASSUME`, and checked by TLAPS to the last leaf.

**Gateway** (`GatewayProofs`). The inductive invariant is `TypeOK /\ FateFits /\
InFlightExact`. `FateFits` ties `pc` to `fate`; it is what makes the refinement
mapping well defined, and what excludes for instance a crashed call in the
`except BackendError` clause. From it: `TypeCorrect` (attempts stay within
`max_retries + 1`, and the counter never goes below zero, which needs
`InFlightExact`), `InFlightIsExact`, `ShedsOnlyWhenFull` (the test in the code
reads the counter, the theorem speaks of the calls being served).
`GatewayImplementsLedger` maps every step to an `Advance` of one request or a
stutter. `TotalsAreExact` follows the sets of writers through each step.
`ActiveIsExact` and `FailuresAreExported` add `TraceInv`: what `_active` and
`stored` are for a request at each place.

**RequestLedger** (`RequestLedgerProofs`). `LedgerTotalsMatch`,
`LedgerBooksAgree` and the type invariant: what the abstract ledger promises, and
so, through the refinement, what the gateway's books keep.

**Serving** (`ServingProofs`). `ServingIsGateway`: a step of `Serving` is a step of
`Gateway` with more said about it, or leaves the gateway's variables alone, so all
theorems above hold of the composition. On top of them:

* `GaugeIsRepaired`, from `GaugeInv`: as long as no thread has loaded the counter
  while another was about to store, at most one store is outstanding and its value
  is the counter's; with none outstanding the gauge has that value.
* `ClientsAreToldTheTruth`, from `TruthInv`: what a request has heard of its
  upstream determines its fate at each place, and what it was told is that fate.
  Of verdicts it says that they are `Honest`: check by check, a text that is legible
  is failed if and only if it is not acceptable (`LegibleIsJudged`), and one that is
  failed is never acceptable (`InvalidIsUnacceptable`).
* `UpstreamIsExact`: `retries` is the number of pairs in `Repeated`, since only
  `AttemptRetry` raises an attempt and adds one pair; the rest is `TruthInv`, with
  what a call that is put again may have heard (`Again`).
* `ClientsMatchTheBooks`, from `LoadInv`: the four counts of a load test are the
  numbers of its counted calls by their fates and verdicts. With `TotalsAreExact` the sums over
  the clients and over the telemetry are cardinalities of the same sets.
* `ReplayIsFaithful`, from `StoredInv`: a trace is open until it is exported, and
  always for a shed call. Its last part, on rates, is an inequality of products of
  the numbers found so.

**SLOTracker** (`SLOTrackerProofs`). `TrackerTypeCorrect`; `MemoryIsBounded` by
following `Cardinality(Within(s))`, since a thread leaves `Within` only through a
test that found the deque within its cap; `OverTrimIsBounded`, where the
argument counts what is gone together with what is about to go: a step adds to
that sum only for a thread that was not yet popping, and only when the head it
looked at had to go (`GoneStep`, `HeadJustified`), and neither appending nor time
undoes that an event had to go (`JustifiedStays`); `RatesAreOfOneInstant` through
`RateInv`, which says what the counts of an unfinished scan are.

`PopsMeetEvents` (`PopsNonEmpty`) has two hypotheses besides the module's
assumption, and neither can be dropped. `RoomToRace`: `max_events` is at least the
number of threads less one (it is 200 000), or threads that all look at a deque
one above the cap empty it. `CallsAreShort`: two calls of `record()`, one after
the other, take no longer than a window. The argument: if the head is stale for one
thread, every thread within the trim began more than a call's length after the
head was stamped, hence after the call that appended it had returned, and so has
appended an event of its own behind it (`LaterAppended`). There is then an event
behind the head for each thread that may pop, and what is gone and about to go
together never exceeds what was appended. With calls as long as the window that
breaks: a schedule of five threads, replayed in TLC, ends with more of them about to
pop than the deque has events.

`FailuresAreEverywhere` keeps for each SLO the calls that still owe it an event
(`Owing`), and what it has of bad events together with those owed by failed calls
(`Debt`): between calls nothing is owed. `SeverityIsTheWorst` follows a status
through its rules (`WorstOf`).

**TraceStore** (`TraceStoreProofs`). The invariant speaks of `view` and `disk`
alike, since either may become the other: a saved trace is whole in both or has
`keep_last` newer ones in both, and so on. `NewestKeepEnough` says that deleting
all but the `keep_last` newest rows leaves `keep_last` of them newer than any row
deleted; were one of those newer rows missing, the newest missing one would have
fewer than `keep_last` above it and would have been kept. From it: `SavedTracesSurvive`
and `OnlyFailedSavesLeaveHalves`; with `Clean`, that disk and view have no orphans
unless a prune was torn or stands between its statements, `SpansHaveTheirTrace`.

`StoreImplementsArchive` adds `Agreed`: the view and the disk hold the same of a
trace that both have, and what only the view has is of the save that runs or of
one that failed. So a commit maps to a step that keeps exactly what was adrift and what
was saved, and drops what a prune took (`DurableKeeps`); a failed save and a failed or
unfinished prune map to steps that only forget, a crash loses what was under way, and
every other step is a stutter.

`PagingIsExact` ranks the rows on disk, oldest first (`Rank`). What the reader has
not seen of the traces it began with has a rank of at least its offset
(`PagedRight`). A commit without a prune only raises ranks (`RankGrows`), and an
empty page is the end (`EmptyPageIsTheEnd`): the oldest row of a rank at or above
the offset would have that very rank, and be on the page.

**Console and LocalSim** (`ConsoleProofs`). `AtMostOneLoop`, through `LoopInv`: as
long as starts are apart, a start past its check has seen no loop alive, only a
start brings one to life, and every loop alive is the one `self._thread` holds.
`BooksAreExact`, through `BooksInv` and `CacheInv`: the counters are the numbers of
calls at the places that hold a slot or wait, and the cache, a sequence without
repetitions, drops its oldest key only before the latest is put in. `TypeCorrect`
adds that the calls sent and about to be sent fit the calls there are (`SentInv`)
and the threads created and about to be fit the requests (`BornInv`).
`ScenariosAreWhole`, through `SwitchInv`: what is left of a switch's assignments,
made to the attributes as they are, ends in the scenario it is for (`Leads`), which
every single assignment keeps (`PlanLeads`, `AssignsEach`); this holds for any
values that the scenarios give to the three attributes.

**Metrics** (`MetricsProofs`). `Inv` is the types with `Control`, which ties each
thread's place to the lock and to the lists it holds. `HistogramIsExact`:
`HistogramInv` equates each count with the number of threads past it, the buckets
as long as the lists have been made once; a pool with the threads about to append to
it keeps to the cap and the unlocked threads (`PoolBound`), as of the locked ones only
one can be there.
`ScrapesAreConsistent`: `RenderInv` and `SumInv` bound what a scrape has rendered so
far by what the threads have done, where the difference can only come of
`scrape.across`, as no locked thread moves while the scrape holds the lock; that
buckets ascend needs the bounds to (`MetricsAssumption`). `QuantilesAreSound`, of any
pool: the element at a position of a sorted arrangement has that many samples below
or at it (`ReaderOK` says the pool read is a sequence of values).

**Tracing and Readers** (`TracingProofs`). `SpansFormTrees`: `Inv` says that a span's parent was
made before it and is in the same trace (`SpansOK`), that a record begins with its
root, has every other span after its parent, and has every span of an active trace
(`RecordsOK`), that what contexts, blocks and generators refer to has been made
(`ContextsOK`), that no span is open in two blocks and that a trace open in one is
active (`Owners`), and that the open blocks of a thread that no generator's
finalisation has touched are each the child of the one around it (`Nested`). Records
are trees even for the threads in `astray`.

`BreakdownsAddUp`, from `TimeInv`. What a context holds is the span of the block
below, or that of a generator (`Placed`); so the spans begun below one of a call come
one after another, each within its parent's time (`Kids`), and what is
exported keeps that, with an open span only where a block outlived its trace
(`Exported`). The exclusive times then telescope: each finished span adds its
duration and is subtracted from its parent's, and only the root is subtracted from none.

`ReadersAreConsistent`, from `StoredOnce`: a trace is stored when its root ends and
never again, so stored roots are distinct and the readers' sets count traces
(`Readable`). On that rest the lemmas about the readers themselves, which hold of any
readable set: every row falls in one bucket of the series and buckets partition the
rows (`BucketIn`, `ClassesAddUp`, `ColumnsAddUp`); `Descending` lists
each element once, so that a percentile has the rank its index says
(`EnumerationExists`, `FewAreSmaller`, `PercentileBounds`); the levels of the CLI's
walk are disjoint and cover the tree (`LevelsExist`, `WalkedOnce`);
`breakdown()` takes from a span's time and never adds (`BreakdownWithin`). The
statement is `SeriesAddUp` and `ReadersAgree` at every moment; `ReportsAreConsistent`
is what it says between requests, the form TLC checks.

These sums and listings are over sequences of any length. The library's induction
theorems take an operator as a parameter, which none of the installed provers
instantiates, so the proofs use induction in first-order form: a subset of `Nat`
that holds 0 and the successor of each of its elements is `Nat` (`UpFromZero`, by the
least number missing), and likewise for finite sets (`SetBySet`). What is proved by
induction is first made a set of numbers or of sets. `Descending` is a `CHOOSE` for
the same reason: of the library's `SortSeq` the provers know nothing.

**What cannot be proved here**, and is only model-checked, is *liveness*:
`EveryRequestSettles`, `SavesEnd`, `StopDrains`, `ScrapeEnds`. They rest on fairness,
which is about ENABLED, and the prover has no support for it.

Every other property of a passing run is stated by a theorem. What the four
counterexample runs refute is, of course, not one.

## 8. Where the code and its documents disagree

Each is a run that TLC must find violated.

1. `gateway_limit`: two threads both pass the test at `gateway.py:135` before
   either increments the counter, so more than `max_in_flight` requests are
   served. The comment at `gateway.py:37` says requests are rejected "once this
   many are already in flight".
2. `gateway_events`: an exception other than `BackendError`, and a stream its
   consumer drops, leave a stored trace without an SLO event or a metric, against
   the module's opening sentence.
3. `store_halves`: a `save()` that raises after its first rows leaves them in the
   open transaction, and the next save commits half a trace, which
   `trace.py:10-11` calls worse than no trace.
4. `serving_rejected`: the comment at `http_backends.py:36` says that a 400 means the
   request itself is wrong and is not worth retrying; `stream()` makes every failure
   retryable (161-162), so a call with `stream=True` that was rejected is put to the
   upstream again. `UpstreamExact` claims nothing of the kind for a stream: it
   holds a POST to the comment, and both to never asking again for an answer.

Noted while modelling, without a run of their own:

* The gauge of requests "currently being served" (`metrics.py:230`) can read 1
  with nothing in flight, until the next request (`GaugeRepaired`).
* `docs/ARCHITECTURE.md:92` and the `README.md:61` of the repository say that
  validation flags invalid JSON and empty output. A check that raises is a warning
  (`validation.py:246-249`) and only failures make an answer invalid, so JSON nested
  too deeply for `json.loads`, which is no `JSONDecodeError` (158), and a null text,
  which `http_backends.py:120` passes on and which has no `strip()` (61), are valid.
  Without `verdict[r].legible` in its last conjunct, `ClientToldTruth` is violated.
* A `record()` during an evaluation makes `reversed(deque)` raise `RuntimeError` out
  of `status()` (`slo.py:156`), although the tracker "evaluates every registered SLO"
  (115) and `server.py:183-185` evaluates in the threads that serve requests:
  `ScanRaise`, which `slo_status` takes.
* A call's usage is set on its root (`gateway.py:180-182`) and on its answered
  attempt (267-269), and `total_usage()` (`trace.py:202-208`) sums all spans: the
  stored token counts of calls are twice those of the metrics.
* `outcomes()` orders by start, oldest first, and keeps 50 000 rows
  (`store.py:211`): beyond that the console's list of recent traces lacks the most
  recent ones.
* `parse_prometheus` promises the last value of a metric (`http_backends.py:57`)
  and sums over its label sets (75).
* `quantile` of the metrics and `_percentile` of the console and of the load
  generator take different ranks: the latter may be one rank above.
* A dropped generator that the interpreter finalises in the middle of another
  call restores its own ambient span there. The records stay trees, but that
  call's later spans are lost to it (`SpanTree`, `astray`).
* `breakdown()` promises numbers that "sum to the request total" (`trace.py:215`).
  After such a finalisation, spans below the root of a stream can overlap, and the
  numbers of that trace sum to more (`BreakdownAddsUp`, `InTurn`).

## 9. Assumptions

* A `record()` call does not outlast a window (`MaxStall`), and for `PopsNonEmpty`
  not half a window: the windows that `_trim` uses are days long. An
  old `now` and a new one disagree on what is stale, and if calls may last longer
  `PopsNonEmpty` fails. It also needs `max_events` not below the number of threads
  less one.
* The buckets of a histogram ascend (`metrics.py:25-34` lists them so).
* The console's baseline has a value for each tunable attribute, and every scenario
  changes some of them; `healthy` changes none (`console.py:32-46`, 78, 87, 103).
* SQLite: a statement that fails leaves the transaction open with the rows it had
  inserted; a commit that fails keeps the transaction or rolls it back; a crash
  recovers what was committed.
* An upstream's stream ends some time (section 6). The text of an answer is a string
  or null; what another JSON value in its place would do to the checks is not modelled.
* Traces have distinct `started_at`. With equal ones the order of pages and of
  pruning is SQLite's choice.
* The reader of `iter_traces` is another process, which sees committed data.
* In `Console`, a call is one passage through the backend; a retry by the gateway
  would be a further call.
* In `Tracing`, a generator is advanced between the calls of a thread, not inside
  one: no code of the repository pulls a stream from within a call. Only its
  finalisation can come at any time.
* A tick of the tracer's clock lasts a whole number of seconds, at least one, and
  so does a window of the overview (`ReadersAssumption`). `Reports` leaves rounding out.
* In `Serving`, an upstream that times out is one that is unreachable.
* Lock acquisition, context managers and `finally` do what Python says.

## 10. What is not modelled

* Read-only mirrors and formatters: `gateway.snapshot`, `refresh_backend_health`,
  `health()`, `get`, `recent` and `slowest` of the store, the console's rates, the
  CLI's printing. They change no state of the system.
* Token usage, attributes and events of spans, prompts and their hashes: data
  that no property of the models tells apart.
* Gateway listeners: arbitrary external code whose exceptions are swallowed.
* `add_slo()` (not called after construction), the value of `budget_remaining`,
  and `worst_severity()`, which is a second `all_status()`.
* The latency arithmetic and generated text of the simulator: data without
  consequence for control.
* `web/`, `deploy/`, container files: presentation and configuration.
* Sampling in `Tracing`, and the pruning and paging of what `Reports` reads: each
  is in the module whose subject it is.

Some peculiarities of the code are of this kind and need no model to be seen; they
are listed here because a reader of the models will not meet them. The sample pool
keeps the first 4096 observations, so old quantiles stay (`metrics.py:136`); `mean()`
reads count and sum in two steps (`metrics.py:173`); `total_usage()` sums spans
of which two carry the same usage (`store.py:81`, `gateway.py:180`, `267`);
`outcomes()` keeps the oldest 50 000 rows of a window (`store.py:211`);
`parse_prometheus` adds up ratios of several engines (`http_backends.py:75`); the
seed of a load test stands still once the history is full (`console.py:152`); the
simulator's queue is a delay and not a wait for a slot (`local.py:126`); listeners
hear of a request before its trace is exported (`gateway.py:211`); the error path's
records take no lock (`gateway.py:216`), `stream()` takes no slot and is outside
`max_in_flight` (286), and a shed call counts as an error and never as a request
(136), so that `error_rate` in `snapshot()` is not a share of the requests: the
models have all three as they are in the code.

## 11. Plan

Done, in this order: `RequestLedger`, `Gateway`, `SLOTracker`, `TraceStore`,
`LocalSim` with `Console`, and their proofs; then `Metrics`, `Validation` and
`Serving`, `Reports` and `Tracing`, and the console's load tests.

Then the theorems of `Serving`, `Metrics` and `Tracing`, and the rest of those of
`SLOTracker`, `TraceStore` and `Console`; then the times of spans and the readers
(`Readers`, `BreakdownsAddUp`, `ReadersAreConsistent`), so that every safety property
of a passing run has its theorem.

Last came the abstract store, `TraceArchive`, and that `TraceStore` implements it. What
could be added is the second evaluation behind `worst_severity`
(`server.py:184-185`), for which a reader of `SLOTracker` would go twice through
its steps.
