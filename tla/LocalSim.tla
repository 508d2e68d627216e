------------------------------ MODULE LocalSim ------------------------------
(***************************************************************************)
(* LocalSimBackend (src/src/llmobs/backends/local.py): the calls in flight, *)
(* the queue in front of the batch, the injected failures and the prefix    *)
(* cache.  Sleeps are the gaps between steps; texts and token counts are    *)
(* left out.  A call is one generate() or stream(); the first stands for a  *)
(* stream that is read to its end.                                          *)
(***************************************************************************)
EXTENDS Integers, Sequences, FiniteSets

CONSTANTS
  Calls,           \* calls of generate() or stream()
  Prefixes,        \* what _prefix_key tells apart
  MaxConcurrency,  \* max_concurrency
  CacheCapacity    \* _cache_capacity

ASSUME SimAssumption ==
  /\ IsFiniteSet(Calls)
  /\ MaxConcurrency \in Nat \ {0}
  /\ CacheCapacity \in Nat \ {0}

VARIABLES
  pc,          \* where each call stands
  inFlight,    \* _in_flight
  queueDepth,  \* _queue_depth
  cache,       \* the keys of _prefix_cache, oldest first
  latest,      \* the prefix looked up last
  tunable      \* the attributes the console changes while calls run

books    == <<inFlight, queueDepth>>
caching  == <<cache, latest>>
simVars  == <<pc, books, caching, tunable>>

SimInit ==
  /\ pc = [c \in Calls |-> "none"]
  /\ inFlight = 0 /\ queueDepth = 0
  /\ cache = <<>> /\ latest = <<>>

Goto(c, from, to) ==
  /\ pc[c] = from
  /\ pc' = [pc EXCEPT ![c] = to]

-----------------------------------------------------------------------------
(* _admit() *)

\* Wrong: only a call that need not queue is counted in flight.
AdmitFree(c) ==
  /\ IF inFlight >= MaxConcurrency
     THEN Goto(c, "called", "queued") /\ queueDepth' = queueDepth + 1 /\ inFlight' = inFlight
     ELSE Goto(c, "called", "admitted") /\ queueDepth' = queueDepth /\ inFlight' = inFlight + 1
  /\ UNCHANGED <<caching, tunable>>

\* A call counts as in flight from here on, whether it queues or not.
Admit(c) ==
  /\ IF inFlight >= MaxConcurrency
     THEN Goto(c, "called", "queued") /\ queueDepth' = queueDepth + 1
     ELSE Goto(c, "called", "admitted") /\ queueDepth' = queueDepth
  /\ inFlight' = inFlight + 1
  /\ UNCHANGED <<caching, tunable>>

AtLeastZero(n) == IF n < 0 THEN 0 ELSE n

\* The wait is a fixed time, whether a slot has come free or not.
LeaveQueue(c) ==
  /\ Goto(c, "queued", "admitted")
  /\ queueDepth' = AtLeastZero(queueDepth - 1)
  /\ UNCHANGED <<inFlight, caching, tunable>>

\* The injected failure is drawn after the wait, at the rate of that moment.
FailInjected(c) ==
  /\ tunable["failure_rate"] # 0
  /\ Goto(c, "admitted", "failing")
  /\ UNCHANGED <<books, caching, tunable>>

-----------------------------------------------------------------------------
(* _cached_tokens() *)

\* Wrong: the oldest key goes only once the cache is over its capacity.
RememberOverfull(p) ==
  LET room == IF Len(cache) > CacheCapacity THEN Tail(cache) ELSE cache IN
  IF \E i \in DOMAIN room : room[i] = p THEN room ELSE Append(room, p)

\* A full cache gives up its oldest key first, on a hit too; a key that is
\* still there keeps its place.
Remember(p) ==
  LET room == IF Len(cache) >= CacheCapacity THEN Tail(cache) ELSE cache IN
  IF \E i \in DOMAIN room : room[i] = p THEN room ELSE Append(room, p)

LookUp(c) ==
  /\ Goto(c, "admitted", "serving")
  /\ \E p \in Prefixes :
       /\ cache' = Remember(p)
       /\ latest' = p
  /\ UNCHANGED <<books, tunable>>

-----------------------------------------------------------------------------
(* the end of generate() and of stream() *)

\* Wrong: the release runs after the last word, not in a finally clause.
ReleaseFinished(c) ==
  /\ \E done \in {"answered", "dropped"} :
       /\ Goto(c, "serving", done)
       /\ inFlight' = IF done = "answered" THEN AtLeastZero(inFlight - 1) ELSE inFlight
  /\ UNCHANGED <<queueDepth, caching, tunable>>

\* Every word sent, or the consumer dropped the stream at a yield.
Finish(c) ==
  /\ \E done \in {"answered", "dropped"} : Goto(c, "serving", done)
  /\ inFlight' = AtLeastZero(inFlight - 1)
  /\ UNCHANGED <<queueDepth, caching, tunable>>

\* The BackendError of _admit() passes the same finally clause.
Fail(c) ==
  /\ Goto(c, "failing", "failed")
  /\ inFlight' = AtLeastZero(inFlight - 1)
  /\ UNCHANGED <<queueDepth, caching, tunable>>

Serve(c) ==
  \/ Admit(c) \/ LeaveQueue(c) \/ FailInjected(c) \/ LookUp(c) \/ Finish(c) \/ Fail(c)
=============================================================================
