------------------------------- MODULE Gateway -------------------------------
(***************************************************************************)
(* InferenceGateway (src/src/llmobs/gateway.py): the request path.          *)
(*                                                                         *)
(* Requests run in threads of their own.  One action is one stretch of code *)
(* that CPython with its global lock cannot interrupt, as far as the state  *)
(* the threads share goes: the admission check and the increment of         *)
(* _in_flight are separated by a call (the GenerationRequest constructor),  *)
(* `_in_flight += 1` and the load of the argument of in_flight.set are not, *)
(* and the store into the gauge is a later step.                            *)
(*                                                                         *)
(* A call goes                                                              *)
(*   check -> enter -> gauge -> open -> call ...                            *)
(*     answered:  observe -> record -> export -> leave -> regauge -> done   *)
(*     failed:    export -> errors -> requests -> latency -> record         *)
(*                -> leave -> regauge -> done                               *)
(*     crashed:   export -> leave -> regauge -> done                        *)
(*     shed:      done                                                      *)
(* and a stream goes open -> call <-> yielded ... record / export -> done.  *)
(***************************************************************************)
EXTENDS Naturals, FiniteSets

CONSTANTS
  Calls,          \* requests made through generate(), one thread each
  Streams,        \* requests made through stream(), one generator each
  MaxRetries,     \* GatewayConfig.max_retries
  MaxInFlight,    \* GatewayConfig.max_in_flight, 0 disables shedding
  SampleChoices,  \* what Tracer._should_sample may answer
  MaxChunks       \* bound: the chunks of a stream are counted up to here

Requests == Calls \cup Streams

ASSUME GatewayAssumption ==
  /\ IsFiniteSet(Requests)
  /\ Calls \cap Streams = {}
  /\ MaxRetries \in Nat
  /\ MaxInFlight \in Nat
  /\ SampleChoices \subseteq BOOLEAN
  /\ MaxChunks \in Nat /\ MaxChunks > 0

VARIABLES
  pc,        \* where each request stands
  fate,      \* what each request came to: the result or exception in flight
  attempt,   \* the attempt _call_with_retries is making, from 1
  chunks,    \* chunks a stream has yielded to its consumer, or MaxChunks if more
  inFlight,  \* InferenceGateway._in_flight
  arg,       \* the argument a thread has loaded for in_flight.set, else 0
  gauge,     \* the llm_requests_in_flight gauge
  active,    \* Tracer._active: requests whose trace is open
  sampled,   \* the sampling decision carried by each root span
  stored,    \* what became of each trace at _export
  tally,     \* the counters, the latency histogram's count and the SLO events
  retries    \* the llm_retries_total counter

threads   == <<pc, fate, attempt, chunks>>
admission == <<inFlight, arg, gauge>>
tracing   == <<active, sampled, stored>>
telemetry == <<tally, retries>>
vars      == <<threads, admission, tracing, telemetry>>

Entries == {"requests_ok", "requests_error", "errors_error", "errors_shed",
            "latency", "slo_good", "slo_bad"}

Fates == {"open", "shed", "answered", "failed", "crashed", "abandoned"}

PCs == {"check", "enter", "gauge", "open", "call", "yielded", "observe",
        "record", "export", "errors", "requests", "latency", "leave",
        "regauge", "done"}

Init ==
  /\ pc       = [r \in Requests |-> IF r \in Calls THEN "check" ELSE "open"]
  /\ fate     = [r \in Requests |-> "open"]
  /\ attempt  = [r \in Requests |-> 1]
  /\ chunks   = [r \in Requests |-> 0]
  /\ inFlight = 0
  /\ arg      = [r \in Requests |-> 0]
  /\ gauge    = 0
  /\ active   = {}
  /\ sampled  = [r \in Requests |-> TRUE]
  /\ stored   = [r \in Requests |-> "open"]
  /\ tally    = [e \in Entries |-> 0]
  /\ retries  = 0

-----------------------------------------------------------------------------
(* Helpers *)

Goto(r, from, to) ==
  /\ pc[r] = from
  /\ pc' = [pc EXCEPT ![r] = to]

Decide(r, f) == fate' = [fate EXCEPT ![r] = f]

Count(W) == tally' = [e \in Entries |-> tally[e] + (IF e \in W THEN 1 ELSE 0)]

\* The admission test of generate().
Full == MaxInFlight # 0 /\ inFlight >= MaxInFlight

\* Wrong: only the root span counts.
TraceStatusOfRoot(r) == IF fate[r] \in {"failed", "crashed"} THEN "error" ELSE "ok"

\* Trace.status: ERROR when any span is, the attempts a retry recovered included.
TraceStatus(r) ==
  IF fate[r] \in {"failed", "crashed"} \/ attempt[r] > 1 THEN "error" ELSE "ok"

-----------------------------------------------------------------------------
(* generate(): admission *)

\* Wrong: the check stands inside the try, so shedding runs the finally clause.
ShedInsideTry(r) ==
  /\ r \in Calls
  /\ Full
  /\ Goto(r, "check", "leave")
  /\ Decide(r, "shed")
  /\ Count({"errors_shed"})
  /\ UNCHANGED <<attempt, chunks, admission, tracing, retries>>

\* The gateway is full: one increment of the error counter, then OverloadedError.
Shed(r) ==
  /\ r \in Calls
  /\ Full
  /\ Goto(r, "check", "done")
  /\ Decide(r, "shed")
  /\ Count({"errors_shed"})
  /\ UNCHANGED <<attempt, chunks, admission, tracing, retries>>

Admit(r) ==
  /\ r \in Calls
  /\ ~Full
  /\ Goto(r, "check", "enter")
  /\ UNCHANGED <<fate, attempt, chunks, admission, tracing, telemetry>>

\* Wrong: the value for the gauge is loaded before the increment.
EnterLoadsFirst(r) ==
  /\ Goto(r, "enter", "gauge")
  /\ inFlight' = inFlight + 1
  /\ arg' = [arg EXCEPT ![r] = inFlight]
  /\ UNCHANGED <<fate, attempt, chunks, gauge, tracing, telemetry>>

\* self._in_flight += 1, and the new value is loaded for the gauge.
Enter(r) ==
  /\ Goto(r, "enter", "gauge")
  /\ inFlight' = inFlight + 1
  /\ arg' = [arg EXCEPT ![r] = inFlight + 1]
  /\ UNCHANGED <<fate, attempt, chunks, gauge, tracing, telemetry>>

GaugeIn(r) ==
  /\ Goto(r, "gauge", "open")
  /\ gauge' = arg[r]
  /\ arg' = [arg EXCEPT ![r] = 0]
  /\ UNCHANGED <<fate, attempt, chunks, inFlight, tracing, telemetry>>

-----------------------------------------------------------------------------
(* Both endpoints: the trace *)

\* Tracer.trace on entry: the root span, its sampling decision, the active map.
OpenTrace(r) ==
  /\ Goto(r, "open", "call")
  /\ active' = active \cup {r}
  /\ \E s \in SampleChoices : sampled' = [sampled EXCEPT ![r] = s]
  /\ UNCHANGED <<fate, attempt, chunks, admission, stored, telemetry>>

\* Wrong: the slot is released in `except BackendError`, not in `finally`.
ExportThenLeak(r) ==
  /\ Goto(r, "export", IF r \in Streams \/ fate[r] = "crashed" THEN "done"
                       ELSE IF fate[r] = "failed" THEN "errors" ELSE "leave")
  /\ active' = active \ {r}
  /\ stored' = [stored EXCEPT ![r] = TraceStatus(r)]
  /\ UNCHANGED <<fate, attempt, chunks, admission, sampled, telemetry>>

\* Wrong: the active map is cleaned up in `except Exception`, not in `finally`.
ExportKeepsAbandoned(r) ==
  /\ Goto(r, "export", IF r \in Streams THEN "done"
                       ELSE IF fate[r] = "failed" THEN "errors" ELSE "leave")
  /\ active' = IF fate[r] = "abandoned" THEN active ELSE active \ {r}
  /\ stored' = [stored EXCEPT ![r] = TraceStatus(r)]
  /\ UNCHANGED <<fate, attempt, chunks, admission, sampled, telemetry>>

(***************************************************************************)
(* Tracer.trace on exit: out of the active map, then to the exporters.  An  *)
(* unsampled trace without an error span is dropped, an exporter that       *)
(* raises (a full disk, a closed store) loses the trace and nothing else.   *)
(***************************************************************************)
Export(r) ==
  /\ Goto(r, "export", IF r \in Streams THEN "done"
                       ELSE IF fate[r] = "failed" THEN "errors" ELSE "leave")
  /\ active' = active \ {r}
  /\ \E s \in {TraceStatus(r), "lost", "dropped"} :
       /\ (s = "dropped") <=> (~sampled[r] /\ TraceStatus(r) = "ok")
       /\ stored' = [stored EXCEPT ![r] = s]
  /\ UNCHANGED <<fate, attempt, chunks, admission, sampled, telemetry>>

-----------------------------------------------------------------------------
(* generate(): the backend and its retries *)

\* The backend answers; the response is validated and the root span finished.
AttemptOk(r) ==
  /\ r \in Calls
  /\ Goto(r, "call", "observe")
  /\ Decide(r, "answered")
  /\ UNCHANGED <<attempt, chunks, admission, tracing, telemetry>>

\* Wrong: one attempt too many.
AttemptRetryOnceMore(r) ==
  /\ r \in Calls
  /\ attempt[r] <= MaxRetries + 1
  /\ Goto(r, "call", "call")
  /\ attempt' = [attempt EXCEPT ![r] = @ + 1]
  /\ retries' = retries + 1
  /\ UNCHANGED <<fate, chunks, admission, tracing, tally>>

\* Wrong: each failed attempt is counted as a failed request.
AttemptRetryCountsError(r) ==
  /\ r \in Calls
  /\ attempt[r] <= MaxRetries
  /\ Goto(r, "call", "call")
  /\ attempt' = [attempt EXCEPT ![r] = @ + 1]
  /\ retries' = retries + 1
  /\ Count({"errors_error"})
  /\ UNCHANGED <<fate, chunks, admission, tracing>>

\* Wrong: the loop goes round again without having used an attempt up.
AttemptRetryForFree(r) ==
  /\ r \in Calls
  /\ attempt[r] <= MaxRetries
  /\ Goto(r, "call", "call")
  /\ UNCHANGED <<fate, attempt, chunks, admission, tracing, telemetry>>

\* A retryable BackendError with attempts left: counted, then tried again.
AttemptRetry(r) ==
  /\ r \in Calls
  /\ attempt[r] <= MaxRetries
  /\ Goto(r, "call", "call")
  /\ attempt' = [attempt EXCEPT ![r] = @ + 1]
  /\ retries' = retries + 1
  /\ UNCHANGED <<fate, chunks, admission, tracing, tally>>

\* A BackendError that is not retryable, at any attempt, or any at the last one.
AttemptFail(r) ==
  /\ r \in Calls
  /\ Goto(r, "call", "export")
  /\ Decide(r, "failed")
  /\ UNCHANGED <<attempt, chunks, admission, tracing, telemetry>>

\* Any other exception: a reply that is not JSON, a connection cut mid-body.
AttemptCrash(r) ==
  /\ r \in Calls
  /\ Goto(r, "call", "export")
  /\ Decide(r, "crashed")
  /\ UNCHANGED <<attempt, chunks, admission, tracing, telemetry>>

-----------------------------------------------------------------------------
(* stream() *)

\* The backend produces a chunk and the generator is suspended at its yield;
\* nothing in the code says how often.
StreamChunk(r) ==
  /\ r \in Streams
  /\ Goto(r, "call", "yielded")
  /\ chunks' = [chunks EXCEPT ![r] = IF @ < MaxChunks THEN @ + 1 ELSE @]
  /\ UNCHANGED <<fate, attempt, admission, tracing, telemetry>>

\* The consumer asks for the next chunk.
StreamResume(r) ==
  /\ Goto(r, "yielded", "call")
  /\ UNCHANGED <<fate, attempt, chunks, admission, tracing, telemetry>>

\* The consumer drops the generator: GeneratorExit at the yield, caught by
\* neither handler, unwinds through the trace alone.
StreamAbandon(r) ==
  /\ Goto(r, "yielded", "export")
  /\ Decide(r, "abandoned")
  /\ UNCHANGED <<attempt, chunks, admission, tracing, telemetry>>

StreamEnd(r) ==
  /\ r \in Streams
  /\ Goto(r, "call", "observe")
  /\ Decide(r, "answered")
  /\ UNCHANGED <<attempt, chunks, admission, tracing, telemetry>>

StreamFail(r) ==
  /\ r \in Streams
  /\ Goto(r, "call", "record")
  /\ Decide(r, "failed")
  /\ UNCHANGED <<attempt, chunks, admission, tracing, telemetry>>

StreamCrash(r) ==
  /\ r \in Streams
  /\ Goto(r, "call", "export")
  /\ Decide(r, "crashed")
  /\ UNCHANGED <<attempt, chunks, admission, tracing, telemetry>>

-----------------------------------------------------------------------------
(* The records a request leaves *)

\* MetricsRegistry.observe_span of the root span of an answered request.
ObserveSpan(r) ==
  /\ Goto(r, "observe", "record")
  /\ Count({"requests_ok", "latency"})
  /\ UNCHANGED <<fate, attempt, chunks, admission, tracing, retries>>

\* SLOTracker.record; a failed call has already left its trace and metrics.
RecordSLO(r) ==
  /\ Goto(r, "record", IF r \in Calls /\ fate[r] = "failed" THEN "leave" ELSE "export")
  /\ Count({IF fate[r] = "answered" THEN "slo_good" ELSE "slo_bad"})
  /\ UNCHANGED <<fate, attempt, chunks, admission, tracing, retries>>

\* The three metric updates of `except BackendError`, none under a lock.
CountError(r) ==
  /\ Goto(r, "errors", "requests")
  /\ Count({"errors_error"})
  /\ UNCHANGED <<fate, attempt, chunks, admission, tracing, retries>>

CountRequest(r) ==
  /\ Goto(r, "requests", "latency")
  /\ Count({"requests_error"})
  /\ UNCHANGED <<fate, attempt, chunks, admission, tracing, retries>>

ObserveLatency(r) ==
  /\ Goto(r, "latency", "record")
  /\ Count({"latency"})
  /\ UNCHANGED <<fate, attempt, chunks, admission, tracing, retries>>

-----------------------------------------------------------------------------
(* generate(): the finally clause *)

Leave(r) ==
  /\ Goto(r, "leave", "regauge")
  /\ inFlight' = inFlight - 1
  /\ arg' = [arg EXCEPT ![r] = inFlight - 1]
  /\ UNCHANGED <<fate, attempt, chunks, gauge, tracing, telemetry>>

GaugeOut(r) ==
  /\ Goto(r, "regauge", "done")
  /\ gauge' = arg[r]
  /\ arg' = [arg EXCEPT ![r] = 0]
  /\ UNCHANGED <<fate, attempt, chunks, inFlight, tracing, telemetry>>

-----------------------------------------------------------------------------

Step(r) ==
  \/ Shed(r) \/ Admit(r) \/ Enter(r) \/ GaugeIn(r)
  \/ OpenTrace(r) \/ Export(r)
  \/ AttemptOk(r) \/ AttemptRetry(r) \/ AttemptFail(r) \/ AttemptCrash(r)
  \/ StreamChunk(r) \/ StreamResume(r) \/ StreamAbandon(r)
  \/ StreamEnd(r) \/ StreamFail(r) \/ StreamCrash(r)
  \/ ObserveSpan(r) \/ RecordSLO(r)
  \/ CountError(r) \/ CountRequest(r) \/ ObserveLatency(r)
  \/ Leave(r) \/ GaugeOut(r)

\* Every caller has its answer: the model's requests are used up.
Finished ==
  /\ \A r \in Requests : pc[r] = "done"
  /\ UNCHANGED vars

Next == (\E r \in Requests : Step(r)) \/ Finished

Spec == Init /\ [][Next]_vars

-----------------------------------------------------------------------------
(* Properties *)

TypeOK ==
  /\ pc       \in [Requests -> PCs]
  /\ fate     \in [Requests -> Fates]
  /\ attempt  \in [Requests -> 1 .. MaxRetries + 1]
  /\ chunks   \in [Requests -> 0 .. MaxChunks]
  /\ inFlight \in Nat
  /\ arg      \in [Requests -> Nat]
  /\ gauge    \in Nat
  /\ active   \subseteq Requests
  /\ sampled  \in [Requests -> BOOLEAN]
  /\ stored   \in [Requests -> {"open", "ok", "error", "lost", "dropped"}]
  /\ tally    \in [Entries -> Nat]
  /\ retries  \in Nat

\* Calls between the increment and the decrement of _in_flight.
InsidePCs == {"gauge", "open", "call", "observe", "record", "export",
              "errors", "requests", "latency", "leave"}
Inside == {r \in Calls : pc[r] \in InsidePCs}

(***************************************************************************)
(* The counter the admission test reads is the number of calls being        *)
(* served, whichever way each of them ends (gateway.py:152 and the finally  *)
(* clause at 227): a slot is neither leaked nor released twice.             *)
(***************************************************************************)
InFlightExact == inFlight = Cardinality(Inside)

(***************************************************************************)
(* Load is shed only while the gateway is full (gateway.py:135): a call is  *)
(* turned away only in a state where max_in_flight calls are really being   *)
(* served, so no history of failures, retries and crashes can make the      *)
(* gateway refuse work it has room for.                                     *)
(***************************************************************************)
ShedOnlyWhenFull ==
  [][\A r \in Requests :
       fate[r] # "shed" /\ fate'[r] = "shed" =>
         MaxInFlight # 0 /\ Cardinality(Inside) >= MaxInFlight]_vars

\* Requests inside `with self.tracer.trace(...)`.
Traced ==
  {r \in Requests :
     \/ pc[r] \in {"call", "yielded", "observe", "export"}
     \/ pc[r] = "record" /\ ~(r \in Calls /\ fate[r] = "failed")}

(***************************************************************************)
(* Tracer._active holds exactly the traces still open (trace.py:289, 303):  *)
(* current_trace() finds the trace when generate() computes the breakdown   *)
(* (gateway.py:189), and no way of ending a request leaks an entry.         *)
(***************************************************************************)
ActiveExact == active = Traced

(***************************************************************************)
(* "Errors are always sampled" (trace.py:11): whatever the sampling rate, a *)
(* request that failed, or that a retry recovered, has its trace handed to  *)
(* the exporters by the time its caller hears of it.                        *)
(***************************************************************************)
FailuresKeepTheirTrace ==
  \A r \in Requests :
    /\ pc[r] = "done"
    /\ fate[r] \in {"failed", "crashed"} \/ attempt[r] > 1
    => stored[r] \in {"error", "lost"}

(***************************************************************************)
(* The accounting of the code implements RequestLedger: what each request   *)
(* has recorded is a function of where it stands and what it came to.       *)
(***************************************************************************)
Observed(r) == pc[r] \notin {"check", "enter", "gauge", "open", "call", "yielded", "observe"}
Recorded(r) == Observed(r) /\ pc[r] # "record"

Written(r) ==
  {e \in Entries :
    \/ fate[r] = "shed" /\ e = "errors_shed"
    \/ fate[r] = "answered" /\ e \in {"requests_ok", "latency"} /\ Observed(r)
    \/ fate[r] = "answered" /\ e = "slo_good" /\ Recorded(r)
    \/ fate[r] = "failed" /\ r \in Calls /\
         \/ e = "errors_error"   /\ pc[r] \notin {"export", "errors"}
         \/ e = "requests_error" /\ pc[r] \notin {"export", "errors", "requests"}
         \/ e = "latency"        /\ pc[r] \notin {"export", "errors", "requests", "latency"}
         \/ e = "slo_bad"        /\ pc[r] \in {"leave", "regauge", "done"}
    \/ fate[r] = "failed" /\ r \in Streams /\ e = "slo_bad" /\ pc[r] # "record"}

\* The ledger's fate, tally, Calls and Streams are this module's own.
Ledger == INSTANCE RequestLedger WITH
  written <- [r \in Requests |-> Written(r)],
  settled <- {r \in Requests : pc[r] = "done"}

ImplementsLedger == Ledger!Spec

(***************************************************************************)
(* Exactly-once accounting: each total is the number of requests that, from *)
(* where they stand, should have contributed to it by now: nothing is       *)
(* counted twice by the success path and an except clause (gateway.py:205,  *)
(* 216-225), and nothing is lost between concurrent writers.                *)
(***************************************************************************)
TotalsExact ==
  \A e \in Entries : tally[e] = Cardinality({r \in Requests : e \in Written(r)})

(***************************************************************************)
(* Where a request stands and what it came to fit together: the exception   *)
(* handlers of generate() and stream() (gateway.py:214, 299) see the fates  *)
(* they are written for, and no request is on the other endpoint's path.    *)
(* The proofs need it: it is what makes Written(r) well defined.            *)
(***************************************************************************)
Undecided == {"check", "enter", "gauge", "open", "call", "yielded"}
CallPCs   == PCs \ {"yielded"}
StreamPCs == {"open", "call", "yielded", "observe", "record", "export", "done"}

FateFits ==
  \A r \in Requests :
    /\ pc[r] \in (IF r \in Calls THEN CallPCs ELSE StreamPCs)
    /\ fate[r] = "open" <=> pc[r] \in Undecided
    /\ pc[r] = "observe" => fate[r] = "answered"
    /\ pc[r] = "record" => fate[r] \in {"answered", "failed"}
    /\ pc[r] \in {"errors", "requests", "latency"} => fate[r] = "failed"
    /\ fate[r] = "shed" => r \in Calls /\ pc[r] = "done"
    /\ fate[r] = "abandoned" => r \in Streams

(***************************************************************************)
(* Every call returns or raises, and every stream is finished or dropped,   *)
(* with its records written (gateway.py:241-284, 286-302): no mixture of    *)
(* retries, failures and shedding leaves a request hanging.  That a stream  *)
(* of the upstream ends is not the gateway's doing: it is assumed.          *)
(***************************************************************************)
EveryRequestSettles == \A r \in Requests : <>(pc[r] = "done")
=============================================================================
