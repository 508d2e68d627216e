------------------------------- MODULE Metrics -------------------------------
(***************************************************************************)
(* MetricsRegistry and Histogram (src/src/llmobs/metrics.py) under the      *)
(* threads that use them: answered requests record their span under the     *)
(* registry's lock, failed ones write three metrics without it, a scrape    *)
(* renders under the lock, and /stats reads with no lock at all.  The       *)
(* latency histogram stands for the five; of a span's records the request   *)
(* counter and the latency are kept.                                        *)
(*                                                                         *)
(* One step is what CPython does between two points where it may switch     *)
(* threads: a call that returns, a loop that jumps back.  A label set is a  *)
(* (model, backend) pair; the lists that observe() makes for it are objects *)
(* that a scrape or a reader may still hold when they have been replaced.   *)
(***************************************************************************)
EXTENDS Integers, Sequences, FiniteSets

CONSTANTS
  Spans,       \* threads of answered requests: observe_span()
  Failures,    \* threads in the gateway's `except BackendError`
  Scraper,     \* the thread that serves /metrics
  Keys,        \* label sets
  Values,      \* latencies
  Bounds,      \* Histogram.buckets, ascending
  MaxSamples,  \* Histogram.max_samples
  Loads        \* bound: which label set and latency each thread records

Observers == Spans \cup Failures
Buckets   == DOMAIN Bounds

ASSUME MetricsAssumption ==
  /\ Spans \cap Failures = {}
  /\ Scraper \notin Observers
  /\ IsFiniteSet(Observers) /\ IsFiniteSet(Keys)
  /\ Values \subseteq Nat
  /\ Bounds \in Seq(Nat) /\ Bounds # <<>>
  /\ \A i, j \in Buckets : i <= j => Bounds[i] <= Bounds[j]
  /\ MaxSamples \in Nat
  /\ Loads \subseteq [Observers -> [key : Keys, value : Values]]

VARIABLES
  pc,        \* where each writer stands
  load,      \* what each observer records
  bucket,    \* the bucket an observer's loop has reached
  held,      \* the lists an observer looked its sample pool up in
  lock,      \* who holds the registry's lock: at most one thread
  requests,  \* llm_requests_total, over its label sets
  errors,    \* llm_request_errors_total, over its label sets
  lists,     \* the counts and samples made for each label set, the last in use
  sums,      \* Histogram.sums
  totals,    \* Histogram.totals
  scrape,    \* the locals of a scrape
  reader     \* the locals of /stats

writing  == <<pc, load, bucket, held>>
counters == <<requests, errors>>
history  == <<lists, sums, totals>>
vars     == <<writing, lock, counters, history, scrape, reader>>

Fresh == [counts |-> [i \in Buckets |-> 0], pool |-> <<>>]

Exists(k) == lists[k] # <<>>
Made      == {k \in Keys : Exists(k)}
Current(k) == lists[k][Len(lists[k])]

Init ==
  /\ pc = [w \in Observers |-> IF w \in Spans THEN "acquire" ELSE "errors"]
  /\ load \in Loads
  /\ bucket = [w \in Observers |-> 1]
  /\ held = [w \in Observers |-> 0]
  /\ lock = {}
  /\ requests = 0 /\ errors = 0
  /\ lists = [k \in Keys |-> <<>>]
  /\ sums = [k \in Keys |-> 0]
  /\ totals = [k \in Keys |-> 0]
  /\ scrape = [at |-> "idle", todo |-> {}, open |-> {}, seen |-> <<>>, inf |-> 0,
               requests |-> 0, observed |-> 0, across |-> {}]
  /\ reader = [at |-> "idle", todo |-> {}, size |-> 0, open |-> {}, pool |-> <<>>]

-----------------------------------------------------------------------------
(* Observers *)

\* A writer's step, which a scrape under way notices if it is an unlocked one.
Goto(w, from, to) ==
  /\ pc[w] = from
  /\ pc' = [pc EXCEPT ![w] = to]
  /\ scrape' = IF Scraper \in lock /\ w \in Failures
               THEN [scrape EXCEPT !.across = @ \cup {w}]
               ELSE scrape
  /\ UNCHANGED <<load, reader>>

\* Wrong: the lock does not keep a second thread out.
AcquireShared(w) ==
  /\ Goto(w, "acquire", "requests")
  /\ lock' = lock \cup {w}
  /\ UNCHANGED <<bucket, held, counters, history>>

\* MetricsRegistry.observe_span takes the lock for all that it records.
Acquire(w) ==
  /\ lock = {}
  /\ Goto(w, "acquire", "requests")
  /\ lock' = {w}
  /\ UNCHANGED <<bucket, held, counters, history>>

Release(w) ==
  /\ Goto(w, "release", "done")
  /\ lock' = {}
  /\ UNCHANGED <<bucket, held, counters, history>>

CountError(w) ==
  /\ Goto(w, "errors", "requests")
  /\ errors' = errors + 1
  /\ UNCHANGED <<bucket, held, lock, requests, history>>

CountRequest(w) ==
  /\ Goto(w, "requests", "check")
  /\ requests' = requests + 1
  /\ UNCHANGED <<bucket, held, lock, errors, history>>

-----------------------------------------------------------------------------
(* Histogram.observe() *)

Key(w)   == load[w].key
Value(w) == load[w].value

\* Wrong: a span whose sample does not fit in the pool leaves without the lock.
AfterKeepingLock(w) ==
  IF w \in Spans /\ Len(Current(Key(w)).pool) < MaxSamples THEN "release" ELSE "done"

After(w) == IF w \in Spans THEN "release" ELSE "done"

\* `if key not in self.counts`; len(self.buckets) is called before the lists are made.
CheckKey(w) ==
  /\ Goto(w, "check", IF Exists(Key(w)) THEN "bucket" ELSE "create")
  /\ UNCHANGED <<bucket, held, lock, counters, history>>

\* The lists of a label set, replacing those another thread has made meanwhile.
CreateLists(w) ==
  /\ Goto(w, "create", "bucket")
  /\ lists' = [lists EXCEPT ![Key(w)] = Append(@, Fresh)]
  /\ UNCHANGED <<bucket, held, lock, counters, sums, totals>>

\* Wrong: an observation on a bound is left out of its bucket.
CountBucketBelow(w) ==
  /\ bucket[w] \in Buckets
  /\ Goto(w, "bucket", IF bucket[w] = Len(Bounds) THEN "tally" ELSE "bucket")
  /\ bucket' = [bucket EXCEPT ![w] = @ + 1]
  /\ lists' = IF Value(w) < Bounds[bucket[w]]
              THEN [lists EXCEPT ![Key(w)][Len(lists[Key(w)])].counts[bucket[w]] = @ + 1]
              ELSE lists
  /\ UNCHANGED <<held, lock, counters, sums, totals>>

CountBucket(w) ==
  /\ bucket[w] \in Buckets
  /\ Goto(w, "bucket", IF bucket[w] = Len(Bounds) THEN "tally" ELSE "bucket")
  /\ bucket' = [bucket EXCEPT ![w] = @ + 1]
  /\ lists' = IF Value(w) <= Bounds[bucket[w]]
              THEN [lists EXCEPT ![Key(w)][Len(lists[Key(w)])].counts[bucket[w]] = @ + 1]
              ELSE lists
  /\ UNCHANGED <<held, lock, counters, sums, totals>>

\* Wrong: one sample more than the cap.
TallyPastCap(w) ==
  /\ Goto(w, "tally", IF Len(Current(Key(w)).pool) <= MaxSamples THEN "append" ELSE After(w))
  /\ sums' = [sums EXCEPT ![Key(w)] = @ + Value(w)]
  /\ totals' = [totals EXCEPT ![Key(w)] = @ + 1]
  /\ held' = [held EXCEPT ![w] = Len(lists[Key(w)])]
  /\ UNCHANGED <<bucket, lock, counters, lists>>

\* sums and totals, and len() of the pool the label set has at this moment.
Tally(w) ==
  /\ Goto(w, "tally", IF Len(Current(Key(w)).pool) < MaxSamples THEN "append" ELSE After(w))
  /\ sums' = [sums EXCEPT ![Key(w)] = @ + Value(w)]
  /\ totals' = [totals EXCEPT ![Key(w)] = @ + 1]
  /\ held' = [held EXCEPT ![w] = Len(lists[Key(w)])]
  /\ UNCHANGED <<bucket, lock, counters, lists>>

AppendSample(w) ==
  /\ Goto(w, "append", After(w))
  /\ lists' = [lists EXCEPT ![Key(w)][held[w]].pool = Append(@, Value(w))]
  /\ UNCHANGED <<bucket, held, lock, counters, sums, totals>>

-----------------------------------------------------------------------------
(* MetricsRegistry.render(), as far as requests and latencies go *)

\* Failures in the middle of their three updates.
Halfway == {w \in Failures : pc[w] \notin {"errors", "done"}}

ScrapeStep(from) ==
  /\ scrape.at = from
  /\ UNCHANGED <<writing, counters, history, reader>>

\* Bound: one scrape or one reading of /stats; neither changes what the other sees.
OneVisitor == scrape.at = "idle" /\ reader.at = "idle"

ScrapeArrives ==
  /\ OneVisitor
  /\ ScrapeStep("idle")
  /\ scrape' = [scrape EXCEPT !.at = "wait"]
  /\ UNCHANGED lock

\* Wrong: render() does not take the lock.
ScrapeOpenUnlocked ==
  /\ ScrapeStep("wait")
  /\ lock' = lock
  /\ scrape' = [scrape EXCEPT !.at = "keys", !.requests = requests, !.across = Halfway]

\* The lock is taken, and the request counter rendered.
ScrapeOpen ==
  /\ lock = {}
  /\ ScrapeStep("wait")
  /\ lock' = {Scraper}
  /\ scrape' = [scrape EXCEPT !.at = "keys", !.requests = requests, !.across = Halfway]

\* `for key in sorted(self.counts)`
ScrapeKeys ==
  /\ ScrapeStep("keys")
  /\ scrape' = [scrape EXCEPT !.at = "key", !.todo = Made]
  /\ UNCHANGED lock

\* The list of counts the label set has now is the one that is rendered.
ScrapeKey ==
  /\ ScrapeStep("key")
  /\ \E k \in scrape.todo :
       scrape' = [scrape EXCEPT !.at = "bucket", !.todo = @ \ {k},
                                !.open = {<<k, Len(lists[k])>>}, !.seen = <<>>]
  /\ UNCHANGED lock

ScrapeBucket ==
  /\ ScrapeStep("bucket")
  /\ \E o \in scrape.open : LET i == Len(scrape.seen) + 1 IN
       scrape' = [scrape EXCEPT !.at = IF i = Len(Bounds) THEN "inf" ELSE "bucket",
                                !.seen = Append(@, lists[o[1]][o[2]].counts[i])]
  /\ UNCHANGED lock

\* The +Inf bucket and, a few calls later, the count, both from totals.
ScrapeInf ==
  /\ ScrapeStep("inf")
  /\ \E o \in scrape.open :
       scrape' = [scrape EXCEPT !.at = "count", !.inf = totals[o[1]]]
  /\ UNCHANGED lock

ScrapeCount ==
  /\ ScrapeStep("count")
  /\ \E o \in scrape.open :
       scrape' = [scrape EXCEPT !.at = "counted", !.open = {<<o[1], totals[o[1]]>>},
                                !.observed = @ + totals[o[1]]]
  /\ UNCHANGED lock

ScrapeNext ==
  /\ scrape.todo # {}
  /\ ScrapeStep("counted")
  /\ scrape' = [scrape EXCEPT !.at = "key"]
  /\ UNCHANGED lock

ScrapeClose ==
  /\ scrape.todo = {}
  /\ \E from \in {"key", "counted"} : ScrapeStep(from)
  /\ scrape' = [scrape EXCEPT !.at = "done"]
  /\ lock' = {}

Scrape ==
  \/ ScrapeOpen \/ ScrapeKeys \/ ScrapeKey \/ ScrapeBucket
  \/ ScrapeInf \/ ScrapeCount \/ ScrapeNext \/ ScrapeClose

-----------------------------------------------------------------------------
(* Histogram.quantile() behind /stats: no lock *)

ReaderStep(from) ==
  /\ reader.at = from
  /\ UNCHANGED <<writing, lock, counters, history, scrape>>

\* Label set k is next: its pool is looked up now and copied later.
TakeKey(k, keys, size) ==
  reader' = [reader EXCEPT !.at = "copy", !.todo = keys \ {k}, !.size = size,
                           !.open = {<<k, Len(lists[k])>>}]

\* `for labels, samples in self.samples.items()`
ReaderOpen ==
  /\ OneVisitor
  /\ ReaderStep("idle")
  /\ \/ Made = {} /\ reader' = [reader EXCEPT !.at = "done"]
     \/ \E k \in Made : TakeKey(k, Made, Cardinality(Made))

ReaderCopy ==
  /\ ReaderStep("copy")
  /\ \E o \in reader.open :
       reader' = [reader EXCEPT !.at = "next", !.pool = @ \o lists[o[1]][o[2]].pool]

\* The dictionary's iterator goes on only while no label set has been added.
ReaderNext ==
  /\ Cardinality(Made) = reader.size
  /\ ReaderStep("next")
  /\ \/ reader.todo = {} /\ reader' = [reader EXCEPT !.at = "done"]
     \/ \E k \in reader.todo : TakeKey(k, reader.todo, reader.size)

\* RuntimeError: dictionary changed size during iteration.
ReaderRaises ==
  /\ Cardinality(Made) # reader.size
  /\ ReaderStep("next")
  /\ reader' = [reader EXCEPT !.at = "raised"]

Below(pool, v) == Cardinality({i \in DOMAIN pool : pool[i] < v})
UpTo(pool, v)  == Cardinality({i \in DOMAIN pool : pool[i] <= v})

\* sorted(pool)[i], from 0.
Ordered(pool, i) ==
  CHOOSE v \in {pool[j] : j \in DOMAIN pool} : Below(pool, v) <= i /\ i < UpTo(pool, v)

Smaller(x, y) == IF x < y THEN x ELSE y
Larger(x, y)  == IF x > y THEN x ELSE y

\* Wrong: int(q * len(pool)), as the load generator and the console have it.
QuantileTruncated(q, pool) ==
  Ordered(pool, Smaller((q[1] * Len(pool)) \div q[2], Len(pool) - 1))

\* q is a fraction; the index is ceil(q * n) - 1 within the pool.
Quantile(q, pool) ==
  LET n    == Len(pool)
      ceil == (q[1] * n + q[2] - 1) \div q[2]
  IN Ordered(pool, Larger(Smaller(ceil - 1, n - 1), 0))

Read == ReaderOpen \/ ReaderCopy \/ ReaderNext \/ ReaderRaises

-----------------------------------------------------------------------------

Write(w) ==
  \/ Acquire(w) \/ Release(w)
  \/ CountError(w) \/ CountRequest(w)
  \/ CheckKey(w) \/ CreateLists(w) \/ CountBucket(w) \/ Tally(w) \/ AppendSample(w)

Next == (\E w \in Observers : Write(w)) \/ ScrapeArrives \/ Scrape \/ Read

Spec == Init /\ [][Next]_vars

\* The scheduler runs every thread, and a scrape that has begun goes on.
FairSpec == Spec /\ (\A w \in Observers : WF_vars(Write(w))) /\ WF_vars(Scrape)

-----------------------------------------------------------------------------
(* Properties *)

\* The state is of its type, the lock has one holder, and a sample's pool exists.
TypeOK ==
  /\ pc \in [Observers -> {"acquire", "errors", "requests", "check", "create", "bucket",
                           "tally", "append", "release", "done"}]
  /\ load \in Loads
  /\ bucket \in [Observers -> 1 .. Len(Bounds) + 1]
  /\ held \in [Observers -> Nat]
  /\ \E x \in Spans \cup {Scraper} : lock \in {{}, {x}}
  /\ requests \in Nat /\ errors \in Nat
  /\ lists \in [Keys -> Seq([counts : [Buckets -> Nat], pool : Seq(Values)])]
  /\ sums \in [Keys -> Nat] /\ totals \in [Keys -> Nat]
  /\ \A w \in Observers : pc[w] = "append" => held[w] \in DOMAIN lists[Key(w)]

Observing(k) == {w \in Observers : Key(w) = k}
Tallied == {w \in Observers : pc[w] \in {"append", "release", "done"}}

(***************************************************************************)
(* What a label set's histogram holds (metrics.py:125-138): its count is    *)
(* exactly the observations that have got that far, locked or not; and      *)
(* unless two threads both made its lists, each bucket holds exactly the    *)
(* observations within its bound.  Two that did lose what was counted in    *)
(* between, and nothing else.  The sample pool keeps to max_samples but for  *)
(* the threads that looked at its length together (metrics.py:136-137): one *)
(* for each that does not take the lock.                                    *)
(***************************************************************************)
HistogramExact ==
  \A k \in Keys :
    /\ totals[k] = Cardinality(Observing(k) \cap Tallied)
    /\ Len(lists[k]) = 1 =>
         \A i \in Buckets :
           Current(k).counts[i] =
             Cardinality({w \in Observing(k) : Value(w) <= Bounds[i] /\ bucket[w] > i})
    /\ \A g \in DOMAIN lists[k] : Len(lists[k][g].pool) <= MaxSamples + Cardinality(Failures)

(***************************************************************************)
(* What a scrape may be wrong by (metrics.py:174-190, 272-283).  Let U be   *)
(* the failing requests whose unlocked updates it overlapped.  Within a     *)
(* label set, a bucket exceeds a later one, +Inf the count, or the last     *)
(* bucket +Inf, by at most U; and the requests counter and the sum of the   *)
(* latency counts are at most U apart.  So a scrape that no failure         *)
(* overlaps is cumulative, has +Inf equal to _count, and shows each         *)
(* answered request in both metrics or in neither.                          *)
(***************************************************************************)
ScrapeConsistent ==
  LET U == Cardinality(scrape.across) IN
  /\ \A i, j \in DOMAIN scrape.seen : i <= j => scrape.seen[i] <= scrape.seen[j] + U
  /\ scrape.at \in {"count", "counted"} => scrape.seen[Len(Bounds)] <= scrape.inf + U
  /\ scrape.at = "counted" =>
       \E o \in scrape.open : scrape.inf <= o[2] /\ o[2] <= scrape.inf + U
  /\ scrape.at = "done" =>
       /\ scrape.requests <= scrape.observed + U
       /\ scrape.observed <= scrape.requests + U

(***************************************************************************)
(* A quantile of /stats (metrics.py:152-158) is the nearest rank of the     *)
(* samples it gathered: the least of them that at least q of them do not    *)
(* exceed, at either end of the list too.                                   *)
(***************************************************************************)
QuantileSound ==
  reader.at = "done" /\ reader.pool # <<>> =>
    \A q \in {<<0, 1>>, <<1, 2>>, <<19, 20>>, <<99, 100>>, <<1, 1>>} :
      LET v == Quantile(q, reader.pool) IN
      /\ UpTo(reader.pool, v) * q[2] >= q[1] * Len(reader.pool)
      /\ Below(reader.pool, v) # 0 => Below(reader.pool, v) * q[2] < q[1] * Len(reader.pool)

(***************************************************************************)
(* A scrape that waits for the registry's lock gets it and ends             *)
(* (metrics.py:251, 274): no way through observe_span keeps the lock.       *)
(***************************************************************************)
ScrapeEnds == scrape.at = "wait" ~> scrape.at = "done"
=============================================================================
