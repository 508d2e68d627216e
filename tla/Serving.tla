------------------------------- MODULE Serving -------------------------------
(***************************************************************************)
(* The gateway between its clients and its upstream: the HTTP adapters      *)
(* (src/src/llmobs/backends/http_backends.py) decide what a reply of the    *)
(* upstream is to the retry loop, the server (server.py) and the load       *)
(* generator (loadgen.py) what their clients hear, and `llmobs slo`         *)
(* (cli.py) replays the traces the requests have left.                      *)
(*                                                                         *)
(* Every step of Gateway is taken for a reason here: an attempt ends as the *)
(* adapter classifies the reply, and a call of the load test begins when a  *)
(* worker of its pool is free.                                              *)
(***************************************************************************)
EXTENDS Gateway, Validation

\* Every kind of reply the adapters tell apart.
AllReplies == {"ok", "garbage", "misshapen", "cut", "rejected", "busy", "unreachable"}

CONSTANTS
  Replies,    \* bound: the kinds of reply the upstream gives, among AllReplies
  LoadTests,  \* sets of calls that may be those of one generate_load()
  Workers,    \* its concurrency
  Texts,      \* what the replies may say, as Validation sees them
  Contexts    \* what may be asked of them

ASSUME ServingAssumption ==
  /\ Replies \subseteq AllReplies
  /\ LoadTests \subseteq SUBSET Calls
  /\ Workers \in Nat \ {0}
  /\ \A t \in Texts : {t.chars, t.words, t.loops} \subseteq Nat /\ t.null \in BOOLEAN
  /\ \A t \in Texts : t.json \in {"parses", "fails", "raises"}
  /\ \A c \in Contexts : c.minChars \in Nat /\ c.expectJson \in BOOLEAN

\* What validation may make of an answer: the answer itself is no longer needed.
VerdictsOn(T) ==
  {[valid |-> Valid(t, c), acceptable |-> Acceptable(t, c), legible |-> Legible(t, c)] :
     t \in T, c \in Contexts}

AllVerdicts    == VerdictsOn(Texts)
StringVerdicts == VerdictsOn({t \in Texts : ~t.null})

VARIABLES
  over,     \* how the adapter puts each request to the upstream
  sent,     \* how many times it has; bound: counted to one more than it may
  last,     \* the upstream's latest reply to each
  verdict,  \* the validation of each call's answer
  told,     \* what the client of each request has been told
  load,     \* the load test: its calls and its LoadResult
  mixed     \* history: some store into the gauge may be older than another

upstream    == <<over, sent, last>>
clients     == <<told, load>>
servingVars == <<vars, upstream, verdict, clients, mixed>>

Transports == {"post", "sse"}

\* A LoadResult with 1 for each of S.
Score(S) == [k \in {"successes", "failures", "shed", "invalid"} |-> IF k \in S THEN 1 ELSE 0]

\* Only OpenAICompatBackend and its subclass stream; Triton's stream() is the base
\* class's, one chunk of generate().
ServingInit ==
  /\ Init
  /\ over \in [Requests -> Transports]
  /\ (\A s \in Streams : over[s] = "sse") \/ (\A r \in Requests : over[r] = "post")
  /\ sent = [r \in Requests |-> 0]
  /\ last = [r \in Requests |-> "none"]
  /\ verdict = [r \in Requests |-> [valid |-> TRUE, acceptable |-> TRUE, legible |-> TRUE]]
  /\ told = [r \in Requests |-> "nothing"]
  /\ \E L \in LoadTests : load = [calls |-> L, result |-> Score({})]
  /\ mixed = FALSE

-----------------------------------------------------------------------------
(* The HTTP adapters *)

\* Wrong: every HTTP error of a POST is worth another attempt.
ClassifyHTTPErrorsAlike(how, reply) ==
  IF reply = "ok" \/ (reply = "garbage" /\ how = "sse") THEN "answer"
  ELSE IF how = "post" /\ reply \in {"garbage", "misshapen", "cut"} THEN "crash"
  ELSE "retryable"

(***************************************************************************)
(* _post_json raises a BackendError for an HTTP status, retryable if it is  *)
(* 429 or 5xx ("busy") and not if it is another 4xx ("rejected"), and for   *)
(* an upstream that cannot be reached or times out; a body that is not JSON *)
(* ("garbage") or not an object ("misshapen") and a connection that is seen *)
(* to break after the request was sent ("cut") raise something else.        *)
(* stream() passes over lines that are not JSON, and turns every exception  *)
(* into a retryable BackendError, that of a line that is not an object too. *)
(***************************************************************************)
Classify(how, reply) ==
  IF reply = "ok" \/ (reply = "garbage" /\ how = "sse") THEN "answer"
  ELSE IF how = "post" /\ reply \in {"garbage", "misshapen", "cut"} THEN "crash"
  ELSE IF how = "post" /\ reply = "rejected" THEN "final"
  ELSE "retryable"

Hear(r, reply) == last' = [last EXCEPT ![r] = reply]

\* The upstream has the request once more.
Send(r) == sent' = [sent EXCEPT ![r] = IF @ > MaxRetries + 1 THEN @ ELSE @ + 1]

\* Only the one POST of OpenAICompatBackend.generate() passes a JSON null on as the text.
MayBeNull(r) == over[r] = "post" /\ \A s \in Streams : over[s] = "sse"

\* The verdict on the answer to a call.
Validate(r) ==
  \E v \in IF MayBeNull(r) THEN AllVerdicts ELSE StringVerdicts :
    verdict' = [verdict EXCEPT ![r] = v]

\* An attempt of a call: the upstream's reply, and what the retry loop makes of it.
Attempt(r) ==
  /\ r \in Calls
  /\ \E reply \in Replies :
       /\ Hear(r, reply)
       /\ LET kind == Classify(over[r], reply) IN
          \/ kind = "answer" /\ AttemptOk(r) /\ Validate(r)
          \/ kind = "retryable" /\ AttemptRetry(r) /\ UNCHANGED verdict
          \/ /\ kind = "final" \/ (kind = "retryable" /\ attempt[r] > MaxRetries)
             /\ AttemptFail(r) /\ UNCHANGED verdict
          \/ kind = "crash" /\ AttemptCrash(r) /\ UNCHANGED verdict
  /\ Send(r)
  /\ UNCHANGED <<over, clients, mixed>>

\* A stream() call of the gateway: over "post" it has its reply before its one chunk.
Pull(r) ==
  /\ \/ /\ StreamChunk(r)
        /\ over[r] = "post" => chunks[r] = 0
        /\ Hear(r, "ok")
     \/ \E reply \in Replies :
          /\ Hear(r, reply)
          /\ over[r] = "post" => (chunks[r] = 0) # (reply = "ok")
          /\ LET kind == Classify(over[r], reply) IN
             \/ kind = "answer" /\ StreamEnd(r)
             \/ kind \in {"retryable", "final"} /\ StreamFail(r)
             \/ kind = "crash" /\ StreamCrash(r)
  /\ sent' = [sent EXCEPT ![r] = 1]
  /\ UNCHANGED <<over, verdict, clients, mixed>>

-----------------------------------------------------------------------------
(* The clients *)

\* Calls of the load test that hold a worker of its pool.
AtWork == {r \in load.calls : pc[r] # "check" /\ told[r] = "nothing"}

\* generate() begins: at once for a request of the server, in a worker for one of a load test.
Begin(r) ==
  /\ r \in load.calls => Cardinality(AtWork) < Workers
  /\ Shed(r) \/ Admit(r)
  /\ UNCHANGED <<upstream, verdict, clients, mixed>>

Invalid(r) == IF verdict[r].valid THEN {} ELSE {"invalid"}

\* Wrong: a call that was shed is counted as that only.
OutcomeShedApart(r) ==
  Score(CASE fate[r] = "answered" -> {"successes"} \cup Invalid(r)
          [] fate[r] = "shed"     -> {"shed"}
          [] fate[r] = "failed"   -> {"failures"}
          [] fate[r] = "crashed"  -> {})

\* What run() adds to the LoadResult; an exception it does not catch adds nothing.
Outcome(r) ==
  Score(CASE fate[r] = "answered" -> {"successes"} \cup Invalid(r)
          [] fate[r] = "shed"     -> {"failures", "shed"}
          [] fate[r] = "failed"   -> {"failures"}
          [] fate[r] = "crashed"  -> {})

\* A worker adds up its call, under the lock, and is free; a crash stays in its future.
LoadCounts(r) ==
  /\ r \in load.calls
  /\ pc[r] = "done" /\ told[r] = "nothing"
  /\ load' = [load EXCEPT !.result = [k \in DOMAIN @ |-> @[k] + Outcome(r)[k]]]
  /\ told' = [told EXCEPT ![r] = IF fate[r] = "crashed" THEN "raised" ELSE "counted"]
  /\ UNCHANGED <<vars, upstream, verdict, mixed>>

AnswerToCall(r) ==
  CASE fate[r] = "answered" -> IF verdict[r].valid THEN "200" ELSE "200 invalid"
    [] fate[r] = "shed"     -> "503"
    [] fate[r] = "failed"   -> "502"
    [] fate[r] = "crashed"  -> "500"

\* Wrong: an exception the handler does not catch ends the stream like its last chunk.
AnswerToStreamQuietly(r) ==
  CASE fate[r] \in {"answered", "crashed"} -> "200"
    [] fate[r] = "failed"    -> "200 with an error line"
    [] fate[r] = "abandoned" -> "hung up"

\* The response has begun, with status 200, before the backend is called.
AnswerToStream(r) ==
  CASE fate[r] = "answered"  -> "200"
    [] fate[r] = "failed"    -> "200 with an error line"
    [] fate[r] = "crashed"   -> "200 cut short"
    [] fate[r] = "abandoned" -> "hung up"

ServerAnswers(r) ==
  /\ r \notin load.calls
  /\ pc[r] = "done" /\ told[r] = "nothing"
  /\ told' = [told EXCEPT ![r] = IF r \in Calls THEN AnswerToCall(r) ELSE AnswerToStream(r)]
  /\ UNCHANGED <<vars, upstream, verdict, load, mixed>>

-----------------------------------------------------------------------------
(* The rest of the gateway's steps *)

\* Between its load of _in_flight and its store into the gauge.
Storing == {r \in Calls : pc[r] \in {"gauge", "regauge"}}

\* A thread that loads while nobody is about to store starts afresh.
Loads(r) ==
  /\ Enter(r) \/ Leave(r)
  /\ mixed' = (Storing # {})
  /\ UNCHANGED <<upstream, verdict, clients>>

Within(r) ==
  /\ \/ GaugeIn(r) \/ OpenTrace(r) \/ Export(r)
     \/ StreamResume(r) \/ StreamAbandon(r)
     \/ ObserveSpan(r) \/ RecordSLO(r)
     \/ CountError(r) \/ CountRequest(r) \/ ObserveLatency(r)
     \/ GaugeOut(r)
  /\ UNCHANGED <<upstream, verdict, clients, mixed>>

Serve(r) ==
  Begin(r) \/ Attempt(r) \/ Pull(r) \/ Loads(r) \/ Within(r) \/ LoadCounts(r) \/ ServerAnswers(r)

AllTold ==
  /\ \A r \in Requests : told[r] # "nothing"
  /\ UNCHANGED servingVars

ServingNext == (\E r \in Requests : Serve(r)) \/ AllTold

ServingSpec == ServingInit /\ [][ServingNext]_servingVars

\* The upstream's last word to a stream.
LastPull(r) == Pull(r) /\ pc'[r] # "yielded"

\* The scheduler runs every thread and the pool every call it has a worker for, the
\* upstream answers or times out, a consumer asks for the next chunk or drops the
\* stream, and a stream whose consumer asks on and on comes to its end.
FairServingSpec ==
  /\ ServingSpec
  /\ \A r \in Requests : WF_servingVars(Serve(r))
  /\ \A r \in Streams : SF_servingVars(LastPull(r))

-----------------------------------------------------------------------------
(* `llmobs slo`: the traces in the store, replayed as SLO events *)

Stored == {r \in Requests : pc[r] = "done" /\ stored[r] \in {"ok", "error"}}

\* Wrong: the trace's status, which a recovered attempt makes an error.
ReplayedGoodByTrace(r) == stored[r] = "ok"

\* The status of the root span: GeneratorExit is no Exception and leaves it OK.
ReplayedGood(r) == fate[r] \in {"answered", "abandoned"}

ReplayOf(good) == Cardinality({r \in Stored : ReplayedGood(r) = good})

-----------------------------------------------------------------------------
(* Properties *)

Told(how) == {r \in Requests : told[r] \in how}
Everyone  == \A r \in Requests : told[r] # "nothing"

\* The attempts of calls beyond each one's first.
Repeated == {a \in Calls \X (1 .. MaxRetries) : a[2] < attempt[a[1]]}

(***************************************************************************)
(* Retries as the upstream sees them (gateway.py:241-284 on top of          *)
(* http_backends.py:26-42, 144-162): every request it is sent is a call's   *)
(* first or one of those counted in llm_retries_total, a POST is put to it  *)
(* again only when it was busy or could not be reached, and what it has     *)
(* answered is not asked for again.                                         *)
(***************************************************************************)
UpstreamExact ==
  /\ retries = Cardinality(Repeated)
  /\ \A r \in Calls :
       /\ sent[r] = attempt[r] - (IF fate[r] = "open" THEN 1 ELSE 0) \/ fate[r] = "shed"
       /\ fate[r] = "open" /\ sent[r] > 0 =>
            /\ over[r] = "post" => last[r] \in {"busy", "unreachable"}
            /\ Classify(over[r], last[r]) # "answer"

(***************************************************************************)
(* What a client is told is what happened (server.py:119-136, 141-148): a   *)
(* 502 means that the upstream refused the request or failed every attempt, *)
(* a 500 or a response cut short that it answered something unreadable, an  *)
(* error line that it failed, and a 200 that it answered.  An answer that   *)
(* is marked invalid is not acceptable, and one that is not acceptable is   *)
(* marked invalid if the checks could look at it at all (validation.py:246).*)
(***************************************************************************)
ClientToldTruth ==
  \A r \in Requests :
    /\ told[r] = "502" => last[r] # "ok" /\ (last[r] = "rejected" \/ sent[r] = MaxRetries + 1)
    /\ told[r] \in {"500", "200 cut short"} => last[r] \in {"garbage", "misshapen", "cut"}
    /\ told[r] = "200 with an error line" => last[r] # "ok"
    /\ told[r] \in {"200", "200 invalid"} => Classify(over[r], last[r]) = "answer"
    /\ told[r] = "200 invalid" => ~verdict[r].acceptable
    /\ told[r] = "200" /\ verdict[r].legible => verdict[r].acceptable

(***************************************************************************)
(* The clients' count of the outcomes is the telemetry's: once everyone has *)
(* been told, the answers, sheds and failures that the server's clients and *)
(* the load test have seen (loadgen.py:156-179, as LoadResult counts them)  *)
(* are the totals of the metrics and of the SLO tracker, whichever calls of *)
(* the load test raised; the load test's shed calls are among its failures, *)
(* and none of them has been put to the upstream.                           *)
(***************************************************************************)
ClientsMatchBooks ==
  LET of == load.result IN
  /\ of.shed <= of.failures /\ of.invalid <= of.successes
  /\ \A r \in Requests : fate[r] = "shed" => sent[r] = 0
  /\ Everyone =>
       /\ of.successes + of.failures + Cardinality(Told({"raised"})) = Cardinality(load.calls)
       /\ of.successes + Cardinality(Told({"200", "200 invalid"})) = tally["slo_good"]
       /\ of.shed + Cardinality(Told({"503"})) = tally["errors_shed"]
       /\ of.failures - of.shed + Cardinality(Told({"502", "200 with an error line"}))
            = tally["slo_bad"]

(***************************************************************************)
(* The replay of `llmobs slo` (cli.py:212-229) against what the tracker     *)
(* recorded live: once everyone has been told, a bad event is replayed for  *)
(* each one recorded whose trace the store has, and for each crash, which   *)
(* recorded none; a good one for each recorded and kept, and for each       *)
(* stream its consumer dropped.  A sampled-out trace was a good event's, so *)
(* but for lost traces and dropped streams the error rate replayed is never *)
(* below the one recorded.                                                  *)
(***************************************************************************)
ReplayFaithful ==
  LET Missing(f) == Cardinality({r \in Requests : fate[r] = f} \ Stored)
      Extra(f)   == Cardinality({r \in Stored : fate[r] = f})
  IN Everyone =>
       /\ ReplayOf(FALSE) + Missing("failed") = tally["slo_bad"] + Extra("crashed")
       /\ ReplayOf(TRUE) + Missing("answered") = tally["slo_good"] + Extra("abandoned")
       /\ (\A r \in Requests : stored[r] # "lost" /\ fate[r] # "abandoned") =>
            ReplayOf(FALSE) * tally["slo_good"] >= tally["slo_bad"] * ReplayOf(TRUE)

(***************************************************************************)
(* The in-flight gauge (gateway.py:153, 229) is stored some time after the  *)
(* counter is read, and overlapping requests can leave it wrong; but one    *)
(* that starts or ends while no other is about to store puts it right.      *)
(***************************************************************************)
GaugeRepaired == ~mixed /\ Storing = {} => gauge = inFlight
=============================================================================
