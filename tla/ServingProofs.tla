---------------------------- MODULE ServingProofs ----------------------------
(***************************************************************************)
(* Theorems about Serving, for any sets of calls and streams, any replies   *)
(* of the upstream and any load test.                                       *)
(*                                                                         *)
(* Every step of Serving is a step of Gateway or leaves its variables       *)
(* alone, so all that GatewayProofs shows holds here as well, and its       *)
(* invariant Inv carries the arguments below.                               *)
(***************************************************************************)
EXTENDS Serving, GatewayProofs

\* What a request does in Serving, it does in Gateway, or the gateway stands still.
LEMMA ServeIsStep ==
  ASSUME NEW r \in Requests, Serve(r)
  PROVE  Step(r) \/ UNCHANGED vars
  <1>1. CASE Begin(r)
    BY <1>1 DEF Begin, Step
  <1>2. CASE Attempt(r)
    BY <1>2 DEF Attempt, Step
  <1>3. CASE Pull(r)
    BY <1>3 DEF Pull, Step
  <1>4. CASE Loads(r)
    BY <1>4 DEF Loads, Step
  <1>5. CASE Within(r)
    BY <1>5 DEF Within, Step
  <1>6. CASE LoadCounts(r) \/ ServerAnswers(r)
    BY <1>6 DEF LoadCounts, ServerAnswers
  <1> QED
    BY <1>1, <1>2, <1>3, <1>4, <1>5, <1>6 DEF Serve

LEMMA ServingNextIsNext == [ServingNext]_servingVars => [Next]_vars
  <1>1. ASSUME NEW r \in Requests, Serve(r) PROVE [Next]_vars
    BY <1>1, ServeIsStep DEF Next
  <1>2. CASE AllTold \/ UNCHANGED servingVars
    BY <1>2 DEF AllTold, servingVars
  <1> QED
    BY <1>1, <1>2 DEF ServingNext

\* Under its clients and on top of its upstream the gateway behaves as Gateway says.
THEOREM ServingIsGateway == ServingSpec => Spec
  <1>1. ServingInit => Init
    BY DEF ServingInit
  <1> QED
    BY <1>1, ServingNextIsNext, PTL DEF ServingSpec, Spec

\* What GatewayProofs shows of every reachable state.
THEOREM ServingInv == ServingSpec => []Inv
  BY ServingIsGateway, InvHolds, PTL

-----------------------------------------------------------------------------
(***************************************************************************)
(* The gauge.  Between a load of the counter and its store nothing else may *)
(* load; what GaugeRepaired needs is that the only thread about to store    *)
(* has the present value of the counter in its hands.                       *)
(***************************************************************************)
GaugeInv ==
  ~mixed => \/ Storing = {} /\ gauge = inFlight
            \/ \E r \in Requests : Storing = {r} /\ arg[r] = inFlight

\* Only a load and a store touch the counter, the gauge and who is about to store.
LEMMA OffTheGauge ==
  ASSUME Inv, NEW r \in Requests, Step(r), pc[r] \notin {"enter", "gauge", "leave", "regauge"}
  PROVE  Storing' = Storing /\ UNCHANGED admission
  <1> USE DEF Goto,
           Step, Shed, Admit, OpenTrace, Export, AttemptOk, AttemptRetry, AttemptFail,
           AttemptCrash, StreamChunk, StreamResume, StreamAbandon, StreamEnd, StreamFail,
           StreamCrash, ObserveSpan, RecordSLO, CountError, CountRequest, ObserveLatency,
           Enter, GaugeIn, Leave, GaugeOut
  <1>1. UNCHANGED admission
    OBVIOUS
  <1>2. /\ pc'[r] \notin {"gauge", "regauge"}
        /\ \A q \in Requests \ {r} : pc'[q] = pc[q]
    BY DEF Inv, TypeOK
  <1> QED
    BY <1>1, <1>2 DEF Storing, Requests

LEMMA LoadStep ==
  ASSUME Inv, GaugeInv, NEW r \in Requests, Loads(r)
  PROVE  GaugeInv'
  <1> USE DEF Inv, TypeOK, Goto
  <1>1. r \in Calls /\ pc' = [pc EXCEPT ![r] = pc'[r]] /\ pc'[r] \in {"gauge", "regauge"}
    BY DEF Loads, Enter, Leave, FateFits, StreamPCs
  <1>2. Storing' = Storing \cup {r}
    BY <1>1 DEF Storing, Requests
  <1>3. arg'[r] = inFlight'
    BY DEF Loads, Enter, Leave
  <1> QED
    BY <1>2, <1>3 DEF Loads, GaugeInv

LEMMA StoreStep ==
  ASSUME Inv, GaugeInv, NEW r \in Requests, GaugeIn(r) \/ GaugeOut(r), UNCHANGED mixed
  PROVE  GaugeInv'
  <1> USE DEF Inv, TypeOK, Goto
  <1>1. r \in Storing /\ Storing' = Storing \ {r}
    BY DEF GaugeIn, GaugeOut, FateFits, StreamPCs, Storing, Requests
  <1>2. gauge' = arg[r] /\ inFlight' = inFlight
    BY DEF GaugeIn, GaugeOut
  <1>3. ~mixed => Storing = {r} /\ arg[r] = inFlight
    BY <1>1 DEF GaugeInv
  <1> QED
    BY <1>1, <1>2, <1>3 DEF GaugeInv

LEMMA GaugeStep ==
  ASSUME Inv, GaugeInv, NEW r \in Requests, Serve(r)
  PROVE  GaugeInv'
  <1>1. CASE Loads(r)
    BY <1>1, LoadStep
  <1>2. CASE Within(r) /\ (GaugeIn(r) \/ GaugeOut(r))
    BY <1>2, StoreStep DEF Within
  <1>3. ASSUME Step(r), pc[r] \notin {"enter", "gauge", "leave", "regauge"}, UNCHANGED mixed
        PROVE  GaugeInv'
    BY <1>3, OffTheGauge DEF GaugeInv, admission
  <1>4. CASE Begin(r)
    BY <1>3, <1>4 DEF Begin, Step, Shed, Admit, Goto
  <1>5. CASE Attempt(r)
    BY <1>3, <1>5 DEF Attempt, Step, AttemptOk, AttemptRetry, AttemptFail, AttemptCrash, Goto
  <1>6. CASE Pull(r)
    BY <1>3, <1>6 DEF Pull, Step, StreamChunk, StreamEnd, StreamFail, StreamCrash, Goto
  <1>7. CASE Within(r) /\ ~GaugeIn(r) /\ ~GaugeOut(r)
    BY <1>3, <1>7 DEF Within, Step, OpenTrace, Export, StreamResume, StreamAbandon, ObserveSpan,
                      RecordSLO, CountError, CountRequest, ObserveLatency, Goto
  <1>8. CASE LoadCounts(r) \/ ServerAnswers(r)
    BY <1>8 DEF LoadCounts, ServerAnswers, vars, threads, admission, GaugeInv, Storing
  <1> QED
    BY <1>1, <1>2, <1>4, <1>5, <1>6, <1>7, <1>8 DEF Serve

\* A request that starts or ends while no other is about to store puts the gauge right.
THEOREM GaugeIsRepaired == ServingSpec => []GaugeRepaired
  <1>1. ServingInit => GaugeInv
    BY DEF ServingInit, Init, GaugeInv, Storing, Requests
  <1>2. Inv /\ GaugeInv /\ [ServingNext]_servingVars => GaugeInv'
    <2>1. CASE AllTold \/ UNCHANGED servingVars
      BY <2>1 DEF AllTold, servingVars, vars, threads, admission, GaugeInv, Storing
    <2> QED
      BY <2>1, GaugeStep DEF ServingNext
  <1>3. GaugeInv => GaugeRepaired
    BY DEF GaugeInv, GaugeRepaired
  <1> QED
    BY <1>1, <1>2, <1>3, ServingInv, PTL DEF ServingSpec

-----------------------------------------------------------------------------
(***************************************************************************)
(* What each request has heard of the upstream, and its client of it.       *)
(***************************************************************************)
Results == [{"successes", "failures", "shed", "invalid"} -> Nat]

Answers == {"nothing", "raised", "counted", "200", "200 invalid", "503", "502", "500",
            "200 with an error line", "200 cut short", "hung up"}

VerdictRecords == [valid : BOOLEAN, acceptable : BOOLEAN, legible : BOOLEAN]

ServingTypes ==
  /\ over \in [Requests -> Transports]
  /\ sent \in [Requests -> Nat]
  /\ last \in [Requests -> AllReplies \cup {"none"}]
  /\ verdict \in [Requests -> VerdictRecords]
  /\ told \in [Requests -> Answers]
  /\ load \in [calls : SUBSET Calls, result : Results]

\* What the upstream may have said to a call that is put to it again.
Again(how) == IF how = "post" THEN {"busy", "unreachable"} ELSE AllReplies \ {"ok", "garbage"}

\* A verdict that fails an answer is right, and so is any on an answer the checks could read.
Honest(v) == (~v.valid => ~v.acceptable) /\ (v.legible => v.valid = v.acceptable)

CallHeard(r) ==
  /\ fate[r] = "open" => sent[r] = attempt[r] - 1
  /\ fate[r] \in {"answered", "failed", "crashed"} => sent[r] = attempt[r]
  /\ pc[r] = "check" \/ fate[r] = "shed" => sent[r] = 0
  /\ fate[r] = "open" /\ sent[r] > 0 => last[r] \in Again(over[r])
  /\ fate[r] = "failed" => last[r] = "rejected" \/ sent[r] = MaxRetries + 1

Heard(r) ==
  /\ r \in Calls => CallHeard(r)
  /\ fate[r] = "failed" => last[r] # "ok"
  /\ fate[r] = "crashed" => last[r] \in {"garbage", "misshapen", "cut"}
  /\ fate[r] = "answered" => Classify(over[r], last[r]) = "answer"
  /\ Honest(verdict[r])
  /\ r \notin Calls => verdict[r].acceptable /\ verdict[r].valid

Answer(r) ==
  IF r \in load.calls THEN IF fate[r] = "crashed" THEN "raised" ELSE "counted"
  ELSE IF r \in Calls THEN AnswerToCall(r) ELSE AnswerToStream(r)

ToldRight(r) == told[r] # "nothing" => pc[r] = "done" /\ told[r] = Answer(r)

TruthInv == ServingTypes /\ \A r \in Requests : Heard(r) /\ ToldRight(r)

\* A text the checks can look at is failed by them when it is not acceptable and only then.
LEMMA LegibleIsJudged ==
  ASSUME NEW t \in Texts, NEW c \in Contexts, Legible(t, c)
  PROVE  Valid(t, c) <=> Acceptable(t, c)
  <1>1. /\ t.chars \in Nat /\ t.words \in Nat /\ t.loops \in Nat /\ c.minChars \in Nat
        /\ t.json \in {"parses", "fails", "raises"}
    BY ServingAssumption
  <1>2. "fail" \in Issues(t, c) <=>
          \/ t.blank
          \/ t.words >= 18 /\ t.loops >= 3
          \/ c.expectJson /\ t.json = "fails"
          \/ t.chars < c.minChars
          \/ ~(c.mustContain \subseteq t.says)
          \/ c.mustNotContain \cap t.says # {}
    <2>1. "fail" \in NonEmpty(t, c) <=> t.blank
      BY DEF Legible, NonEmpty, OfText
    <2>2. "fail" \notin NotTruncated(t, c) /\ "fail" \notin NoRefusal(t, c)
      BY DEF Legible, NotTruncated, NoRefusal, OfText
    <2>3. "fail" \in NoRepetition(t, c) <=> t.words >= 18 /\ t.loops >= 3
      BY <1>1 DEF Legible, NoRepetition, OfText, RepeatWindow
    <2>4. "fail" \in ValidJson(t, c) <=> c.expectJson /\ t.json = "fails"
      BY <1>1 DEF Legible, ValidJson, OfText
    <2>5. "fail" \in LengthBounds(t, c) <=> t.chars < c.minChars
      BY <1>1 DEF Legible, LengthBounds, OfText
    <2>6. "fail" \in RequiredPhrases(t, c) <=> ~(c.mustContain \subseteq t.says)
      BY DEF Legible, RequiredPhrases, OfText
    <2>7. "fail" \in ForbiddenPhrases(t, c) <=> c.mustNotContain \cap t.says # {}
      BY DEF Legible, ForbiddenPhrases, OfText
    <2> QED
      BY <2>1, <2>2, <2>3, <2>4, <2>5, <2>6, <2>7 DEF Issues
  <1>3. t.chars < c.minChars <=> ~(t.chars >= c.minChars)
    BY <1>1
  <1>4. t.words >= 18 /\ t.loops >= 3 <=> ~(t.loops < 3 \/ t.words < 18)
    BY <1>1
  <1>5. c.expectJson /\ t.json = "fails" <=> ~(c.expectJson => t.json = "parses")
    BY <1>1 DEF Legible
  <1> QED
    BY <1>2, <1>3, <1>4, <1>5, Zenon DEF Valid, Acceptable, Legible

\* No check fails what it cannot look at, nor what is not wrong.
LEMMA InvalidIsUnacceptable ==
  ASSUME NEW t \in Texts, NEW c \in Contexts, Acceptable(t, c)
  PROVE  Valid(t, c)
  <1>1. Legible(t, c)
    BY DEF Acceptable, Legible
  <1> QED
    BY <1>1, LegibleIsJudged

LEMMA VerdictsHonest == \A v \in AllVerdicts \cup StringVerdicts : v \in VerdictRecords /\ Honest(v)
  <1> SUFFICES ASSUME NEW t \in Texts, NEW c \in Contexts
               PROVE  /\ Valid(t, c) \in BOOLEAN /\ Acceptable(t, c) \in BOOLEAN
                      /\ Legible(t, c) \in BOOLEAN
                      /\ ~Valid(t, c) => ~Acceptable(t, c)
                      /\ Legible(t, c) => Valid(t, c) = Acceptable(t, c)
    BY DEF AllVerdicts, StringVerdicts, VerdictsOn, VerdictRecords, Honest
  <1>1. Valid(t, c) \in BOOLEAN /\ Acceptable(t, c) \in BOOLEAN /\ Legible(t, c) \in BOOLEAN
    BY DEF Valid, Acceptable, Legible
  <1>2. Legible(t, c) => Valid(t, c) = Acceptable(t, c)
    BY <1>1, LegibleIsJudged
  <1> QED
    BY <1>1, <1>2, InvalidIsUnacceptable

\* A step of one request leaves the others where they are.
LEMMA OthersStand ==
  ASSUME Inv, NEW r \in Requests, Step(r), NEW q \in Requests \ {r}
  PROVE  /\ pc'[q] = pc[q] /\ fate'[q] = fate[q] /\ attempt'[q] = attempt[q]
         /\ stored'[q] = stored[q]
  BY DEF Inv, TypeOK, Goto, Decide, threads, tracing,
         Step, Shed, Admit, OpenTrace, Export, AttemptOk, AttemptRetry, AttemptFail,
         AttemptCrash, StreamChunk, StreamResume, StreamAbandon, StreamEnd, StreamFail,
         StreamCrash, ObserveSpan, RecordSLO, CountError, CountRequest, ObserveLatency,
         Enter, GaugeIn, Leave, GaugeOut

\* What a request has heard depends on what is kept of it alone.
LEMMA HeardSame ==
  ASSUME NEW q \in Requests, Heard(q), UNCHANGED <<over, sent, last, verdict>>,
         fate'[q] = fate[q], attempt'[q] = attempt[q], pc'[q] = "check" => pc[q] = "check"
  PROVE  Heard(q)'
  BY DEF Heard, CallHeard

LEMMA AnswerSame ==
  ASSUME NEW q, load'.calls = load.calls, fate'[q] = fate[q], verdict'[q] = verdict[q]
  PROVE  Answer(q)' = Answer(q)
  <1>1. AnswerToCall(q)' = AnswerToCall(q)
    BY DEF AnswerToCall
  <1>2. AnswerToStream(q)' = AnswerToStream(q)
    BY DEF AnswerToStream
  <1> QED
    BY <1>1, <1>2 DEF Answer

LEMMA ToldSame ==
  ASSUME NEW q \in Requests, ToldRight(q), told'[q] = told[q], load'.calls = load.calls,
         fate'[q] = fate[q], verdict'[q] = verdict[q], pc[q] = "done" => pc'[q] = "done"
  PROVE  ToldRight(q)'
  BY AnswerSame DEF ToldRight

\* So only the request whose step it is needs looking at.
LEMMA TruthOfOne ==
  ASSUME Inv, TruthInv, NEW r \in Requests, Step(r), UNCHANGED <<over, told, load>>,
         sent' = [sent EXCEPT ![r] = sent'[r]], last' = [last EXCEPT ![r] = last'[r]],
         verdict' = [verdict EXCEPT ![r] = verdict'[r]],
         ServingTypes', Heard(r)'
  PROVE  TruthInv'
  <1>1. ToldRight(r)'
    BY OneMoves DEF TruthInv, ToldRight
  <1>2. ASSUME NEW q \in Requests \ {r} PROVE Heard(q)' /\ ToldRight(q)'
    <2>1. /\ pc'[q] = pc[q] /\ fate'[q] = fate[q] /\ attempt'[q] = attempt[q]
          /\ sent'[q] = sent[q] /\ last'[q] = last[q] /\ verdict'[q] = verdict[q]
      BY OthersStand DEF TruthInv, ServingTypes
    <2>2. Heard(q)'
      BY <2>1 DEF TruthInv, Heard, CallHeard
    <2>3. ToldRight(q)'
      BY <2>1, ToldSame DEF TruthInv
    <2> QED
      BY <2>2, <2>3
  <1> QED
    BY <1>1, <1>2 DEF TruthInv

LEMMA AttemptTruth ==
  ASSUME Inv, TruthInv, NEW r \in Requests, Attempt(r)
  PROVE  TruthInv'
  <1> USE DEF Inv, TypeOK, TruthInv
  <1>1. PICK reply \in Replies :
          /\ Hear(r, reply)
          /\ LET kind == Classify(over[r], reply) IN
             \/ kind = "answer" /\ AttemptOk(r) /\ Validate(r)
             \/ kind = "retryable" /\ AttemptRetry(r) /\ UNCHANGED verdict
             \/ /\ kind = "final" \/ (kind = "retryable" /\ attempt[r] > MaxRetries)
                /\ AttemptFail(r) /\ UNCHANGED verdict
             \/ kind = "crash" /\ AttemptCrash(r) /\ UNCHANGED verdict
    BY DEF Attempt
  <1>2. Step(r) /\ r \in Calls /\ pc[r] = "call" /\ fate[r] = "open"
    BY <1>1 DEF Attempt, Step, AttemptOk, AttemptRetry, AttemptFail, AttemptCrash, Goto, FateFits,
                Undecided
  <1>3. /\ sent'[r] = attempt[r] /\ last'[r] = reply /\ reply \in AllReplies
        /\ sent' = [sent EXCEPT ![r] = sent'[r]] /\ last' = [last EXCEPT ![r] = last'[r]]
        /\ UNCHANGED <<over, told, load>>
    <2>1. attempt[r] \in 1 .. (MaxRetries + 1) /\ MaxRetries \in Nat
      BY <1>2, GatewayAssumption
    <2>2. sent[r] = attempt[r] - 1
      BY <1>2 DEF Heard, CallHeard
    <2>3. ~(sent[r] > MaxRetries + 1)
      BY <2>1, <2>2
    <2>4. sent' = [sent EXCEPT ![r] = sent[r] + 1] /\ last' = [last EXCEPT ![r] = reply]
      BY <1>1, <2>3 DEF Attempt, Hear, Send
    <2>5. sent'[r] = attempt[r] /\ last'[r] = reply
      BY <1>2, <2>1, <2>2, <2>4 DEF ServingTypes, Requests
    <2>6. reply \in AllReplies
      BY ServingAssumption
    <2> QED
      BY <1>1, <2>4, <2>5, <2>6 DEF Attempt, clients
  <1>4. /\ verdict' = [verdict EXCEPT ![r] = verdict'[r]]
        /\ verdict'[r] \in VerdictRecords
        /\ Honest(verdict'[r])
    BY <1>1, VerdictsHonest DEF Validate, ServingTypes, Heard
  <1>5. ServingTypes'
    <2>1. attempt[r] \in Nat
      BY GatewayAssumption
    <2>2. sent' \in [Requests -> Nat]
      BY <1>3, <2>1 DEF ServingTypes
    <2>3. last' \in [Requests -> AllReplies \cup {"none"}]
      BY <1>3 DEF ServingTypes
    <2>4. verdict' \in [Requests -> VerdictRecords]
      BY <1>4 DEF ServingTypes
    <2> QED
      BY <1>3, <2>2, <2>3, <2>4 DEF ServingTypes
  <1>6. Heard(r)'
    <2>1. CASE AttemptOk(r) /\ Classify(over[r], reply) = "answer"
      BY <1>2, <1>3, <1>4, <2>1 DEF AttemptOk, Decide, Goto, Heard, CallHeard
    <2>2. CASE AttemptRetry(r) /\ Classify(over[r], reply) = "retryable"
      <3>1. reply \in Again(over[r])
        BY <1>3, <2>2 DEF Classify, Again, AllReplies, ServingTypes, Transports
      <3> QED
        BY <1>2, <1>3, <1>4, <2>2, <3>1 DEF AttemptRetry, Goto, Heard, CallHeard
    <2>3. CASE AttemptFail(r)
      <3>1. reply # "ok" /\ (reply = "rejected" \/ attempt[r] = MaxRetries + 1)
        BY <1>1, <1>3, <2>3, GatewayAssumption
           DEF Classify, AttemptFail, AttemptOk, AttemptRetry, AttemptCrash, Decide, Goto
      <3> QED
        BY <1>2, <1>3, <1>4, <2>3, <3>1 DEF AttemptFail, Decide, Goto, Heard, CallHeard
    <2>4. CASE AttemptCrash(r) /\ Classify(over[r], reply) = "crash"
      BY <1>2, <1>3, <1>4, <2>4 DEF Classify, AttemptCrash, Decide, Goto, Heard, CallHeard
    <2> QED
      BY <1>1, <2>1, <2>2, <2>3, <2>4
  <1> QED
    BY <1>2, <1>3, <1>4, <1>5, <1>6, TruthOfOne

LEMMA PullTruth ==
  ASSUME Inv, TruthInv, NEW r \in Requests, Pull(r)
  PROVE  TruthInv'
  <1> USE DEF Inv, TypeOK, TruthInv
  <1>1. PICK reply \in AllReplies :
          /\ Hear(r, reply)
          /\ LET kind == Classify(over[r], reply) IN
             \/ StreamChunk(r)
             \/ kind = "answer" /\ StreamEnd(r)
             \/ kind \in {"retryable", "final"} /\ StreamFail(r)
             \/ kind = "crash" /\ StreamCrash(r)
    BY ServingAssumption DEF Pull, AllReplies
  <1>2. Step(r) /\ r \in Streams /\ r \notin Calls /\ pc[r] = "call" /\ fate[r] = "open"
    BY <1>1, GatewayAssumption DEF Step, StreamChunk, StreamEnd, StreamFail, StreamCrash, Goto, FateFits,
                Undecided, Requests
  <1>3. /\ sent'[r] = 1 /\ last'[r] = reply
        /\ sent' = [sent EXCEPT ![r] = sent'[r]] /\ last' = [last EXCEPT ![r] = last'[r]]
        /\ UNCHANGED <<over, told, load, verdict>>
    BY <1>1, <1>2 DEF Pull, Hear, ServingTypes, clients
  <1>4. ServingTypes'
    <2>1. sent' \in [Requests -> Nat]
      BY <1>3 DEF ServingTypes
    <2>2. last' \in [Requests -> AllReplies \cup {"none"}]
      BY <1>3 DEF ServingTypes
    <2> QED
      BY <1>3, <2>1, <2>2 DEF ServingTypes
  <1>5. Heard(r)'
    <2>1. CASE StreamChunk(r)
      BY <1>2, <1>3, <2>1 DEF StreamChunk, Heard
    <2>2. CASE StreamEnd(r) /\ Classify(over[r], reply) = "answer"
      BY <1>2, <1>3, <2>2 DEF StreamEnd, Decide, Heard
    <2>3. CASE StreamFail(r) /\ Classify(over[r], reply) \in {"retryable", "final"}
      BY <1>2, <1>3, <2>3 DEF StreamFail, Decide, Heard, Classify
    <2>4. CASE StreamCrash(r) /\ Classify(over[r], reply) = "crash"
      BY <1>2, <1>3, <2>4 DEF StreamCrash, Decide, Heard, Classify
    <2> QED
      BY <1>1, <2>1, <2>2, <2>3, <2>4
  <1> QED
    BY <1>2, <1>3, <1>4, <1>5, TruthOfOne DEF ServingTypes

\* A step of the gateway alone changes nothing that has been heard, but may shed.
LEMMA AloneTruth ==
  ASSUME Inv, TruthInv, NEW r \in Requests, Step(r), UNCHANGED <<upstream, verdict, clients>>,
         \/ attempt'[r] = attempt[r] /\ fate'[r] = fate[r] /\ pc'[r] # "check"
         \/ Shed(r) \/ StreamAbandon(r)
  PROVE  TruthInv'
  <1> USE DEF Inv, TypeOK, TruthInv, upstream, clients
  <1>1. ServingTypes'
    BY DEF ServingTypes
  <1>2. Heard(r)'
    <2>1. CASE attempt'[r] = attempt[r] /\ fate'[r] = fate[r] /\ pc'[r] # "check"
      BY <2>1, HeardSame
    <2>2. CASE Shed(r)
      BY <2>2 DEF Shed, Goto, Decide, Heard, CallHeard
    <2>3. CASE StreamAbandon(r)
      BY <2>3, GatewayAssumption
         DEF StreamAbandon, Goto, Decide, Heard, FateFits, CallPCs, PCs
    <2> QED
      BY <2>1, <2>2, <2>3
  <1> QED
    BY <1>1, <1>2, TruthOfOne DEF ServingTypes

\* A worker's sum stays a LoadResult.
LEMMA LoadCountsType ==
  ASSUME load \in [calls : SUBSET Calls, result : Results], NEW r, LoadCounts(r)
  PROVE  /\ load' \in [calls : SUBSET Calls, result : Results]
         /\ load'.calls = load.calls
         /\ \A k \in {"successes", "failures", "shed", "invalid"} :
              load'.result[k] = load.result[k] + Outcome(r)[k]
  <1> DEFINE sum == [k \in DOMAIN load.result |-> load.result[k] + Outcome(r)[k]]
  <1>1. Outcome(r) \in Results
    BY DEF Outcome, Score, Results
  <1>2. load' = [load EXCEPT !.result = sum]
    BY DEF LoadCounts
  <1>3. sum \in Results /\ \A k \in DOMAIN load.result : sum[k] = load.result[k] + Outcome(r)[k]
    BY <1>1 DEF Results
  <1> HIDE DEF sum
  <1> QED
    BY <1>2, <1>3 DEF Results

\* The client of a finished request is told, once, what the request has come to.
LEMMA TellTruth ==
  ASSUME Inv, TruthInv, NEW r \in Requests, LoadCounts(r) \/ ServerAnswers(r)
  PROVE  TruthInv'
  <1> USE DEF TruthInv
  <1>1. /\ pc[r] = "done" /\ UNCHANGED <<vars, upstream, verdict>>
        /\ load' \in [calls : SUBSET Calls, result : Results] /\ load'.calls = load.calls
        /\ told' = [told EXCEPT ![r] = Answer(r)]
    BY LoadCountsType DEF LoadCounts, ServerAnswers, Answer, ServingTypes
  <1>2. Answer(r) \in Answers
    <2>1. /\ fate[r] \in {"answered", "shed", "failed", "crashed", "abandoned"}
          /\ r \in Calls => fate[r] # "abandoned"
          /\ r \notin Calls => fate[r] # "shed"
      BY <1>1, GatewayAssumption DEF Inv, TypeOK, Fates, FateFits, Undecided
    <2>2. r \in Calls => AnswerToCall(r) \in Answers
      BY <2>1 DEF AnswerToCall, Answers
    <2>3. r \notin Calls => AnswerToStream(r) \in Answers
      BY <2>1 DEF AnswerToStream, Answers
    <2> QED
      BY <2>2, <2>3 DEF Answer, Answers
  <1>3. ServingTypes'
    BY <1>1, <1>2 DEF ServingTypes, upstream
  <1>4. ASSUME NEW q \in Requests PROVE Heard(q)' /\ ToldRight(q)'
    <2>1. /\ pc' = pc /\ fate' = fate /\ attempt' = attempt
          /\ UNCHANGED <<over, sent, last, verdict>>
      BY <1>1 DEF vars, threads, upstream
    <2>2. Heard(q)'
      BY <2>1, HeardSame
    <2>3. CASE q = r
      <3>1. Answer(q)' = Answer(q)
        BY <1>1, <2>1, AnswerSame
      <3>2. told'[q] = Answer(q)
        BY <1>1, <2>3 DEF ServingTypes
      <3> QED
        BY <1>1, <2>1, <2>2, <2>3, <3>1, <3>2 DEF ToldRight
    <2>4. CASE q # r
      <3>1. told'[q] = told[q]
        BY <1>1, <2>4 DEF ServingTypes
      <3> QED
        BY <1>1, <2>1, <2>2, <3>1, ToldSame
    <2> QED
      BY <2>3, <2>4
  <1> QED
    BY <1>3, <1>4

LEMMA TruthInit == ServingInit => TruthInv
  <1> SUFFICES ASSUME ServingInit PROVE TruthInv
    OBVIOUS
  <1>1. PICK L \in LoadTests : load = [calls |-> L, result |-> Score({})]
    BY DEF ServingInit
  <1>2. Score({}) \in Results /\ L \subseteq Calls
    BY ServingAssumption DEF Score, Results
  <1>3. ServingTypes
    <2>1. load \in [calls : SUBSET Calls, result : Results]
      BY <1>1, <1>2
    <2> QED
      BY <2>1 DEF ServingInit, ServingTypes, Answers, VerdictRecords
  <1>4. ASSUME NEW r \in Requests PROVE Heard(r) /\ ToldRight(r)
    <2>1. /\ sent[r] = 0 /\ attempt[r] = 1 /\ fate[r] = "open" /\ told[r] = "nothing"
          /\ verdict[r] = [valid |-> TRUE, acceptable |-> TRUE, legible |-> TRUE]
      BY DEF ServingInit, Init
    <2> QED
      BY <2>1 DEF Heard, CallHeard, ToldRight, Honest
  <1> QED
    BY <1>3, <1>4 DEF TruthInv

LEMMA TruthStep ==
  ASSUME Inv, TruthInv, NEW r \in Requests, Serve(r)
  PROVE  TruthInv'
  <1> USE DEF Inv, TypeOK
  <1>1. CASE Begin(r)
    <2>1. CASE Shed(r)
      BY <1>1, <2>1, AloneTruth DEF Begin, Step
    <2>2. CASE Admit(r)
      BY <1>1, <2>2, AloneTruth DEF Begin, Step, Admit, Goto
    <2> QED
      BY <1>1, <2>1, <2>2 DEF Begin
  <1>2. CASE Attempt(r)
    BY <1>2, AttemptTruth
  <1>3. CASE Pull(r)
    BY <1>3, PullTruth
  <1>4. CASE Loads(r)
    BY <1>4, AloneTruth DEF Loads, Step, Enter, Leave, Goto
  <1>5. CASE Within(r) /\ StreamAbandon(r)
    BY <1>5, AloneTruth DEF Within, Step
  <1>6. CASE Within(r) /\ ~StreamAbandon(r)
    BY <1>6, AloneTruth
       DEF Within, Step, GaugeIn, OpenTrace, Export, StreamResume, ObserveSpan, RecordSLO,
           CountError, CountRequest, ObserveLatency, GaugeOut, Goto
  <1>7. CASE LoadCounts(r) \/ ServerAnswers(r)
    BY <1>7, TellTruth
  <1> QED
    BY <1>1, <1>2, <1>3, <1>4, <1>5, <1>6, <1>7 DEF Serve

LEMMA TruthHolds == ServingSpec => []TruthInv
  <1>1. Inv /\ TruthInv /\ [ServingNext]_servingVars => TruthInv'
    <2>1. ASSUME Inv, TruthInv, UNCHANGED servingVars PROVE TruthInv'
      <3> USE <2>1 DEF servingVars, vars, threads, upstream, clients, TruthInv
      <3>1. ServingTypes'
        BY DEF ServingTypes
      <3>2. ASSUME NEW q \in Requests PROVE Heard(q)' /\ ToldRight(q)'
        BY HeardSame, ToldSame
      <3> QED
        BY <3>1, <3>2
    <2> QED
      BY <2>1, TruthStep DEF ServingNext, AllTold
  <1> QED
    BY <1>1, TruthInit, ServingInv, PTL DEF ServingSpec

\* What a client is told is what happened between the gateway and the upstream; no
\* acceptable answer is marked invalid, and no other goes unmarked that the checks
\* could look at.
THEOREM ClientsAreToldTheTruth == ServingSpec => []ClientToldTruth
  <1>1. Inv /\ TruthInv => ClientToldTruth
    <2> SUFFICES ASSUME Inv, TruthInv, NEW r \in Requests, told[r] # "nothing" PROVE
                   /\ told[r] = "502" => last[r] # "ok" /\ (last[r] = "rejected" \/ sent[r] = MaxRetries + 1)
                   /\ told[r] \in {"500", "200 cut short"} => last[r] \in {"garbage", "misshapen", "cut"}
                   /\ told[r] = "200 with an error line" => last[r] # "ok"
                   /\ told[r] \in {"200", "200 invalid"} => Classify(over[r], last[r]) = "answer"
                   /\ told[r] = "200 invalid" => ~verdict[r].acceptable
                   /\ told[r] = "200" /\ verdict[r].legible => verdict[r].acceptable
      BY DEF ClientToldTruth
    <2>1. /\ fate[r] \in {"answered", "shed", "failed", "crashed", "abandoned"}
          /\ r \in Calls => fate[r] # "abandoned"
          /\ r \notin Calls => fate[r] # "shed"
          /\ Heard(r) /\ told[r] = Answer(r)
      BY GatewayAssumption DEF TruthInv, ToldRight, Inv, TypeOK, Fates, FateFits, Undecided
    <2>2. CASE r \in load.calls
      BY <2>1, <2>2 DEF Answer
    <2>3. CASE r \notin load.calls /\ r \in Calls
      BY <2>1, <2>3 DEF Answer, AnswerToCall, Heard, CallHeard, Honest
    <2>4. CASE r \notin load.calls /\ r \notin Calls
      BY <2>1, <2>4 DEF Answer, AnswerToStream, Heard, Honest
    <2> QED
      BY <2>2, <2>3, <2>4
  <1> QED
    BY <1>1, ServingInv, TruthHolds, PTL

-----------------------------------------------------------------------------
(* The upstream's side of the retries *)

LEMMA RepeatedFinite == IsFiniteSet(Repeated)
  <1>1. IsFiniteSet(Calls) /\ IsFiniteSet(1 .. MaxRetries)
    BY GatewayAssumption, FS_Subset, FS_Interval DEF Requests
  <1>2. IsFiniteSet(Calls \X (1 .. MaxRetries))
    BY <1>1, FS_Product
  <1> QED
    BY <1>2, FS_Subset DEF Repeated

\* Only a retry begins an attempt, and it is the one that is counted.
LEMMA OnlyRetriesRepeat ==
  ASSUME Inv, NEW r \in Requests, Step(r)
  PROVE  \/ UNCHANGED <<attempt, retries>>
         \/ /\ r \in Calls /\ attempt[r] \in 1 .. MaxRetries
            /\ attempt' = [attempt EXCEPT ![r] = @ + 1] /\ retries' = retries + 1
  BY GatewayAssumption
     DEF Inv, TypeOK, telemetry,
         Step, Shed, Admit, OpenTrace, Export, AttemptOk, AttemptRetry, AttemptFail,
         AttemptCrash, StreamChunk, StreamResume, StreamAbandon, StreamEnd, StreamFail,
         StreamCrash, ObserveSpan, RecordSLO, CountError, CountRequest, ObserveLatency,
         Enter, GaugeIn, Leave, GaugeOut

LEMMA RepeatedStep ==
  ASSUME Inv, retries = Cardinality(Repeated), [Next]_vars
  PROVE  retries' = Cardinality(Repeated)'
  <1>1. CASE UNCHANGED <<attempt, retries>>
    BY <1>1 DEF Repeated
  <1>2. ASSUME NEW r \in Calls, attempt[r] \in 1 .. MaxRetries,
               attempt' = [attempt EXCEPT ![r] = @ + 1], retries' = retries + 1
        PROVE  retries' = Cardinality(Repeated)'
    <2>1. Repeated' = Repeated \cup {<<r, attempt[r]>>} /\ <<r, attempt[r]>> \notin Repeated
      BY <1>2, GatewayAssumption DEF Inv, TypeOK, Repeated, Requests
    <2> QED
      BY <1>2, <2>1, RepeatedFinite, FS_AddElement
  <1>3. CASE UNCHANGED vars
    BY <1>1, <1>3 DEF vars, threads, telemetry
  <1> QED
    BY <1>1, <1>2, <1>3, OnlyRetriesRepeat DEF Next, Finished

\* The upstream is sent each call's first attempt and the retries that are counted, a
\* POST again only after it was busy or not reached, and nothing again that it answered.
THEOREM UpstreamIsExact == ServingSpec => []UpstreamExact
  <1>1. Init => retries = Cardinality(Repeated)
    <2> SUFFICES ASSUME Init PROVE Repeated = {} /\ retries = 0
      BY FS_EmptySet
    <2> QED
      BY GatewayAssumption DEF Init, Repeated, Requests
  <1>2. Inv /\ retries = Cardinality(Repeated) /\ [Next]_vars => (retries = Cardinality(Repeated))'
    BY RepeatedStep
  <1>3. Inv /\ TruthInv /\ retries = Cardinality(Repeated) => UpstreamExact
    <2> SUFFICES ASSUME Inv, TruthInv, NEW r \in Calls
                 PROVE  /\ sent[r] = attempt[r] - (IF fate[r] = "open" THEN 1 ELSE 0) \/ fate[r] = "shed"
                        /\ fate[r] = "open" /\ sent[r] > 0 =>
                             /\ over[r] = "post" => last[r] \in {"busy", "unreachable"}
                             /\ Classify(over[r], last[r]) # "answer"
      BY DEF UpstreamExact
    <2>1. fate[r] \in {"open", "answered", "shed", "failed", "crashed"}
      BY GatewayAssumption DEF Inv, TypeOK, Fates, FateFits, Requests
    <2>2. CallHeard(r) /\ sent[r] \in Nat /\ attempt[r] \in Nat
      BY GatewayAssumption DEF TruthInv, Heard, ServingTypes, Inv, TypeOK, Requests
    <2> QED
      BY <2>1, <2>2 DEF CallHeard, Again, Classify
  <1> QED
    BY <1>1, <1>2, <1>3, ServingInv, ServingIsGateway, TruthHolds, PTL DEF Spec

-----------------------------------------------------------------------------
(***************************************************************************)
(* The clients' books.  A LoadResult counts the calls that its workers have *)
(* told of; once everyone has been told, these and what the server's        *)
(* clients have heard partition the requests by their fates.                *)
(***************************************************************************)
Counted(f)     == {r \in load.calls : told[r] = "counted" /\ fate[r] \in f}
CountedInvalid == {r \in Counted({"answered"}) : ~verdict[r].valid}

LoadInv ==
  /\ load.result["successes"] = Cardinality(Counted({"answered"}))
  /\ load.result["failures"] = Cardinality(Counted({"failed", "shed"}))
  /\ load.result["shed"] = Cardinality(Counted({"shed"}))
  /\ load.result["invalid"] = Cardinality(CountedInvalid)

LEMMA DisjointCardinality ==
  ASSUME NEW S, NEW T, IsFiniteSet(S), IsFiniteSet(T), S \cap T = {}
  PROVE  Cardinality(S \cup T) = Cardinality(S) + Cardinality(T)
  <1>1. Cardinality(S \cap T) = 0
    BY FS_EmptySet
  <1>2. Cardinality(S) \in Nat /\ Cardinality(T) \in Nat
    BY FS_CardinalityType
  <1>3. Cardinality(S \cup T) = Cardinality(S) + Cardinality(T) - Cardinality(S \cap T)
    BY FS_Union
  <1> QED
    BY <1>1, <1>2, <1>3

LEMMA RequestsFinite ==
  ASSUME NEW S \in SUBSET Requests
  PROVE  IsFiniteSet(S) /\ Cardinality(S) \in Nat
  BY GatewayAssumption, FS_Subset, FS_CardinalityType

LEMMA CountedFinite ==
  ASSUME TruthInv
  PROVE  /\ \A f : Counted(f) \in SUBSET Requests /\ IsFiniteSet(Counted(f))
         /\ CountedInvalid \in SUBSET Requests /\ IsFiniteSet(CountedInvalid)
  <1>1. load.calls \subseteq Requests
    BY DEF TruthInv, ServingTypes, Requests
  <1> QED
    BY <1>1, RequestsFinite DEF Counted, CountedInvalid

\* What has been counted stays as it is.
LEMMA CountedStays ==
  ASSUME Inv, TruthInv, NEW r \in Requests, Serve(r), ~LoadCounts(r), NEW q \in Requests
  PROVE  /\ load' = load
         /\ told'[q] = "counted" <=> told[q] = "counted"
         /\ told[q] = "counted" => fate'[q] = fate[q] /\ verdict'[q] = verdict[q]
  <1> USE DEF TruthInv, ServingTypes
  <1>1. CASE ServerAnswers(r)
    <2>1. AnswerToCall(r) # "counted" \/ r \notin Calls
      <3>1. r \in Calls => fate[r] \in {"answered", "shed", "failed", "crashed"}
        BY <1>1, GatewayAssumption
           DEF ServerAnswers, Inv, TypeOK, Fates, FateFits, Undecided, Requests
      <3> QED
        BY <3>1 DEF AnswerToCall
    <2>2. AnswerToStream(r) # "counted" \/ r \in Calls
      <3>1. r \notin Calls => fate[r] \in {"answered", "abandoned", "failed", "crashed"}
        BY <1>1, GatewayAssumption
           DEF ServerAnswers, Inv, TypeOK, Fates, FateFits, Undecided, Requests
      <3> QED
        BY <3>1 DEF AnswerToStream
    <2> QED
      BY <1>1, <2>1, <2>2 DEF ServerAnswers, vars, threads
  <1>2. CASE ~ServerAnswers(r)
    <2>1. /\ UNCHANGED <<told, load>>
          /\ q # r => verdict'[q] = verdict[q]
      BY <1>2 DEF Serve, Begin, Attempt, Pull, Loads, Within, Validate, clients
    <2>2. Step(r)
      BY <1>2 DEF Serve, Begin, Attempt, Pull, Loads, Within, Step
    <2>3. told[q] = "counted" => q # r
      BY <2>2, OneMoves DEF ToldRight
    <2> QED
      BY <2>1, <2>2, <2>3, OthersStand
  <1> QED
    BY <1>1, <1>2

LEMMA CountedSame ==
  ASSUME Inv, TruthInv, NEW r \in Requests, Serve(r), ~LoadCounts(r)
  PROVE  /\ \A f : Counted(f)' = Counted(f)
         /\ CountedInvalid' = CountedInvalid
         /\ load' = load
  <1>1. load' = load /\ load.calls \subseteq Requests
    BY CountedStays DEF TruthInv, ServingTypes, Requests
  <1> QED
    BY <1>1, CountedStays DEF Counted, CountedInvalid

\* A worker adds its call to the set that its outcome stands for.
LEMMA CountedGrows ==
  ASSUME Inv, TruthInv, NEW r \in Requests, LoadCounts(r)
  PROVE  /\ r \in load.calls /\ load'.calls = load.calls
         /\ \A f : r \notin Counted(f)
         /\ \A f : Counted(f)' = IF fate[r] # "crashed" /\ fate[r] \in f THEN Counted(f) \cup {r}
                               ELSE Counted(f)
         /\ r \notin CountedInvalid
         /\ CountedInvalid' = IF fate[r] = "answered" /\ ~verdict[r].valid THEN CountedInvalid \cup {r}
                              ELSE CountedInvalid
  <1> USE DEF TruthInv, ServingTypes
  <1>1. /\ r \in load.calls /\ told[r] = "nothing" /\ load'.calls = load.calls
        /\ UNCHANGED <<fate, verdict>>
        /\ told'[r] = IF fate[r] = "crashed" THEN "raised" ELSE "counted"
        /\ \A q \in Requests \ {r} : told'[q] = told[q]
    BY LoadCountsType DEF LoadCounts, vars, threads
  <1>2. load.calls \subseteq Requests
    BY DEF Requests
  <1> QED
    BY <1>1, <1>2 DEF Counted, CountedInvalid

LEMMA LoadStepCounts ==
  ASSUME Inv, TruthInv, LoadInv, NEW r \in Requests, LoadCounts(r)
  PROVE  LoadInv'
  <1>1. \A f : Cardinality(Counted(f)') =
               Cardinality(Counted(f)) + (IF fate[r] # "crashed" /\ fate[r] \in f THEN 1 ELSE 0)
    BY CountedGrows, CountedFinite, FS_AddElement, FS_CardinalityType
  <1>2. Cardinality(CountedInvalid') =
          Cardinality(CountedInvalid) + (IF fate[r] = "answered" /\ ~verdict[r].valid THEN 1 ELSE 0)
    BY CountedGrows, CountedFinite, FS_AddElement, FS_CardinalityType
  <1>3. \A k \in {"successes", "failures", "shed", "invalid"} :
          load'.result[k] = load.result[k] + Outcome(r)[k]
    BY LoadCountsType DEF TruthInv, ServingTypes
  <1>4. fate[r] \in {"answered", "shed", "failed", "crashed"}
    BY GatewayAssumption, CountedGrows
       DEF LoadCounts, Inv, TypeOK, Fates, FateFits, Undecided, Requests, TruthInv, ServingTypes
  <1>5. /\ Outcome(r)["successes"] = IF fate[r] = "answered" THEN 1 ELSE 0
        /\ Outcome(r)["failures"] = IF fate[r] \in {"failed", "shed"} THEN 1 ELSE 0
        /\ Outcome(r)["shed"] = IF fate[r] = "shed" THEN 1 ELSE 0
        /\ Outcome(r)["invalid"] = IF fate[r] = "answered" /\ ~verdict[r].valid THEN 1 ELSE 0
    BY <1>4 DEF Outcome, Score, Invalid
  <1> QED
    BY <1>1, <1>2, <1>3, <1>4, <1>5 DEF LoadInv

LEMMA LoadHolds == ServingSpec => []LoadInv
  <1>1. ServingInit => LoadInv
    <2> SUFFICES ASSUME ServingInit PROVE LoadInv
      OBVIOUS
    <2>1. \A f : Counted(f) = {}
      BY TruthInit DEF ServingInit, Counted, TruthInv, ServingTypes, Requests
    <2>2. CountedInvalid = {}
      BY <2>1 DEF CountedInvalid
    <2>3. \A k \in {"successes", "failures", "shed", "invalid"} : load.result[k] = 0
      BY DEF ServingInit, Score
    <2> QED
      BY <2>1, <2>2, <2>3, FS_EmptySet DEF LoadInv
  <1>2. Inv /\ TruthInv /\ LoadInv /\ [ServingNext]_servingVars => LoadInv'
    <2>1. ASSUME LoadInv, UNCHANGED servingVars PROVE LoadInv'
      BY <2>1 DEF LoadInv, servingVars, vars, threads, clients, Counted, CountedInvalid
    <2>2. ASSUME Inv, TruthInv, LoadInv, NEW r \in Requests, Serve(r) PROVE LoadInv'
      BY <2>2, LoadStepCounts, CountedSame DEF LoadInv
    <2> QED
      BY <2>1, <2>2 DEF ServingNext, AllTold
  <1> QED
    BY <1>1, <1>2, ServingInv, TruthHolds, PTL DEF ServingSpec

-----------------------------------------------------------------------------
(* The fates of the requests, once everyone has been told. *)

With(f) == {r \in Requests : fate[r] = f}

LEMMA EveryoneIsDone ==
  ASSUME Inv, TruthInv, Everyone
  PROVE  \A r \in Requests :
           /\ pc[r] = "done" /\ told[r] = Answer(r)
           /\ fate[r] \in {"answered", "shed", "failed", "crashed", "abandoned"}
           /\ fate[r] = "shed" => r \in Calls
           /\ fate[r] = "abandoned" => r \notin Calls
  BY GatewayAssumption DEF TruthInv, Everyone, ToldRight, Inv, TypeOK, Fates, FateFits, Undecided

LEMMA BooksOfFates ==
  ASSUME Inv, TruthInv, TotalsExact, Everyone
  PROVE  /\ tally["slo_good"] = Cardinality(With("answered"))
         /\ tally["slo_bad"] = Cardinality(With("failed"))
         /\ tally["errors_shed"] = Cardinality(With("shed"))
  <1>1. /\ {r \in Requests : "slo_good" \in Written(r)} = With("answered")
        /\ {r \in Requests : "slo_bad" \in Written(r)} = With("failed")
        /\ {r \in Requests : "errors_shed" \in Written(r)} = With("shed")
    BY EveryoneIsDone DEF With, Written, Recorded, Observed, Entries, Requests
  <1> QED
    BY <1>1 DEF TotalsExact, Entries

\* What its client has been told of a request tells its fate.
LEMMA FatesAreTold ==
  ASSUME Inv, TruthInv, Everyone
  PROVE  /\ With("answered") = Counted({"answered"}) \cup Told({"200", "200 invalid"})
         /\ With("shed") = Counted({"shed"}) \cup Told({"503"})
         /\ With("failed") = Counted({"failed"}) \cup Told({"502", "200 with an error line"})
         /\ load.calls = (Counted({"answered"}) \cup Counted({"failed", "shed"}))
                           \cup Told({"raised"})
         /\ \A f : Counted(f) \cap Told(Answers \ {"counted"}) = {}
  <1>1. load.calls \subseteq Requests
    BY DEF TruthInv, ServingTypes, Requests
  <1>2. \A r \in load.calls : told[r] = IF fate[r] = "crashed" THEN "raised" ELSE "counted"
    BY <1>1, EveryoneIsDone DEF Answer
  <1>3. \A r \in load.calls : r \in Calls
    BY DEF TruthInv, ServingTypes
  <1>4. ASSUME NEW r \in Requests \ load.calls, r \in Calls
        PROVE  /\ fate[r] # "abandoned"
               /\ told[r] \in {"200", "200 invalid"} <=> fate[r] = "answered"
               /\ told[r] = "503" <=> fate[r] = "shed"
               /\ told[r] = "502" <=> fate[r] = "failed"
               /\ told[r] \notin {"200 with an error line", "raised", "counted"}
    BY <1>4, EveryoneIsDone DEF Answer, AnswerToCall
  <1>5. ASSUME NEW r \in Requests \ load.calls, r \notin Calls
        PROVE  /\ fate[r] # "shed"
               /\ told[r] \in {"200", "200 invalid"} <=> fate[r] = "answered"
               /\ told[r] = "200 with an error line" <=> fate[r] = "failed"
               /\ told[r] \notin {"503", "502", "raised", "counted"}
    BY <1>5, EveryoneIsDone DEF Answer, AnswerToStream
  <1>6. \A r \in load.calls : fate[r] # "abandoned"
    BY <1>1, <1>3, EveryoneIsDone
  <1>7. With("answered") = Counted({"answered"}) \cup Told({"200", "200 invalid"})
    BY <1>1, <1>2, <1>4, <1>5 DEF With, Counted, Told
  <1>8. With("shed") = Counted({"shed"}) \cup Told({"503"})
    BY <1>1, <1>2, <1>4, <1>5 DEF With, Counted, Told
  <1>9. With("failed") = Counted({"failed"}) \cup Told({"502", "200 with an error line"})
    BY <1>1, <1>2, <1>4, <1>5 DEF With, Counted, Told
  <1>10. load.calls = (Counted({"answered"}) \cup Counted({"failed", "shed"}))
                        \cup Told({"raised"})
    <2>1. Told({"raised"}) \subseteq load.calls
      BY <1>4, <1>5 DEF Told
    <2>2. \A r \in load.calls : fate[r] \in {"answered", "shed", "failed", "crashed"}
      BY <1>1, <1>6, EveryoneIsDone
    <2> QED
      BY <1>1, <1>2, <2>1, <2>2 DEF Counted, Told
  <1>11. \A f : Counted(f) \cap Told(Answers \ {"counted"}) = {}
    BY DEF Counted, Told
  <1> QED
    BY <1>7, <1>8, <1>9, <1>10, <1>11

LEMMA BooksMatch ==
  ASSUME Inv, TruthInv, TotalsExact, LoadInv
  PROVE  ClientsMatchBooks
  <1> DEFINE Card(S) == Cardinality(S)
  <1>1. \A f : Counted(f) \in SUBSET Requests /\ IsFiniteSet(Counted(f)) /\ Card(Counted(f)) \in Nat
    BY CountedFinite, RequestsFinite
  <1>2. \A how : Told(how) \in SUBSET Requests /\ IsFiniteSet(Told(how)) /\ Card(Told(how)) \in Nat
    BY RequestsFinite DEF Told
  <1>3. /\ load.result.successes = Card(Counted({"answered"}))
        /\ load.result.failures = Card(Counted({"failed", "shed"}))
        /\ load.result.shed = Card(Counted({"shed"}))
        /\ load.result.invalid = Card(CountedInvalid)
    BY DEF LoadInv
  <1>4. load.result.shed <= load.result.failures
    <2>1. Counted({"shed"}) \subseteq Counted({"failed", "shed"})
      BY DEF Counted
    <2> QED
      BY <1>1, <1>3, <2>1, FS_Subset
  <1>5. load.result.invalid <= load.result.successes
    <2>1. CountedInvalid \subseteq Counted({"answered"})
      BY DEF CountedInvalid
    <2> QED
      BY <1>1, <1>3, <2>1, FS_Subset
  <1>6. \A r \in Requests : fate[r] = "shed" => sent[r] = 0
    BY DEF Inv, FateFits, TruthInv, Heard, CallHeard
  <1>7. ASSUME Everyone
        PROVE  /\ load.result.successes + load.result.failures + Card(Told({"raised"})) = Card(load.calls)
               /\ load.result.successes + Card(Told({"200", "200 invalid"})) = tally["slo_good"]
               /\ load.result.shed + Card(Told({"503"})) = tally["errors_shed"]
               /\ load.result.failures - load.result.shed + Card(Told({"502", "200 with an error line"}))
                    = tally["slo_bad"]
    <2>1. ASSUME NEW f, NEW how \in SUBSET (Answers \ {"counted"})
          PROVE  Card(Counted(f) \cup Told(how)) = Card(Counted(f)) + Card(Told(how))
      <3>1. Counted(f) \cap Told(how) = {}
        BY DEF Counted, Told
      <3> QED
        BY <1>1, <1>2, <3>1, DisjointCardinality
    <2>2. Counted({"answered"}) \cup Counted({"failed", "shed"}) = Counted({"answered", "failed", "shed"})
      BY DEF Counted
    <2>3. Card(Counted({"answered", "failed", "shed"})) =
            Card(Counted({"answered"})) + Card(Counted({"failed", "shed"}))
      <3>1. Counted({"answered"}) \cap Counted({"failed", "shed"}) = {}
        BY DEF Counted
      <3> QED
        BY <1>1, <2>2, <3>1, DisjointCardinality
    <2>4. Card(Counted({"failed", "shed"})) = Card(Counted({"failed"})) + Card(Counted({"shed"}))
      <3>1. /\ Counted({"failed"}) \cap Counted({"shed"}) = {}
            /\ Counted({"failed", "shed"}) = Counted({"failed"}) \cup Counted({"shed"})
        BY DEF Counted
      <3> QED
        BY <1>1, <3>1, DisjointCardinality
    <2>5. Card(load.calls) = Card(Counted({"answered", "failed", "shed"})) + Card(Told({"raised"}))
      BY <1>7, <2>1, <2>2, FatesAreTold DEF Answers
    <2>6. tally["slo_good"] = Card(Counted({"answered"})) + Card(Told({"200", "200 invalid"}))
      BY <1>7, <2>1, FatesAreTold, BooksOfFates DEF Answers
    <2>7. tally["errors_shed"] = Card(Counted({"shed"})) + Card(Told({"503"}))
      BY <1>7, <2>1, FatesAreTold, BooksOfFates DEF Answers
    <2>8. tally["slo_bad"] = Card(Counted({"failed"})) + Card(Told({"502", "200 with an error line"}))
      BY <1>7, <2>1, FatesAreTold, BooksOfFates DEF Answers
    <2>9. /\ Card(Counted({"answered"})) \in Nat /\ Card(Counted({"failed"})) \in Nat
          /\ Card(Counted({"shed"})) \in Nat /\ Card(Told({"raised"})) \in Nat
          /\ Card(Told({"200", "200 invalid"})) \in Nat /\ Card(Told({"503"})) \in Nat
          /\ Card(Told({"502", "200 with an error line"})) \in Nat
      BY <1>1, <1>2
    <2>10. load.result.successes + load.result.failures + Card(Told({"raised"})) = Card(load.calls)
      BY <1>3, <2>3, <2>5
    <2>11. load.result.successes + Card(Told({"200", "200 invalid"})) = tally["slo_good"]
      BY <1>3, <2>6
    <2>12. load.result.shed + Card(Told({"503"})) = tally["errors_shed"]
      BY <1>3, <2>7
    <2>13. load.result.failures - load.result.shed + Card(Told({"502", "200 with an error line"}))
             = tally["slo_bad"]
      <3>1. load.result.failures - load.result.shed = Card(Counted({"failed"}))
        <4> DEFINE failed == Card(Counted({"failed"}))
                   shed == Card(Counted({"shed"}))
        <4>1. failed \in Nat /\ shed \in Nat
          BY <2>9
        <4>2. load.result.failures = failed + shed /\ load.result.shed = shed
          BY <1>3, <2>4
        <4> HIDE DEF failed, shed
        <4>3. load.result.failures - load.result.shed = failed
          BY <4>1, <4>2
        <4> QED
          BY <4>3 DEF failed
      <3> QED
        BY <2>8, <3>1
    <2> QED
      BY <2>10, <2>11, <2>12, <2>13
  <1> QED
    BY <1>4, <1>5, <1>6, <1>7 DEF ClientsMatchBooks

\* Once everyone has been told, the outcomes the clients have seen are the totals of
\* the telemetry, for any number of workers and whichever calls of the load test raise.
THEOREM ClientsMatchTheBooks == ServingSpec => []ClientsMatchBooks
  <1>1. Inv /\ TruthInv /\ TotalsExact /\ LoadInv => ClientsMatchBooks
    BY BooksMatch
  <1> QED
    BY <1>1, ServingInv, ServingIsGateway, TotalsAreExact, TruthHolds, LoadHolds, PTL

-----------------------------------------------------------------------------
(***************************************************************************)
(* The replay of `llmobs slo`.  A trace is in the store or nowhere until it *)
(* is exported, and no trace of a shed call ever is.                        *)
(***************************************************************************)
StoredInv ==
  \A r \in Requests : stored[r] = "open" <=> ~Exported(r) \/ fate[r] = "shed"

LEMMA StoredStep ==
  ASSUME Inv, StoredInv, NEW r \in Requests, Step(r)
  PROVE  StoredInv'
  <1>1. \A q \in Requests \ {r} :
          /\ pc'[q] = pc[q] /\ fate'[q] = fate[q] /\ stored'[q] = stored[q]
    BY OthersStand
  <1>2. stored'[r] = "open" <=> ~Exported(r)' \/ fate'[r] = "shed"
    BY GatewayAssumption
       DEF Inv, TypeOK, FateFits, StoredInv, Exported, Goto, Decide, Undecided, CallPCs, StreamPCs,
           Requests, threads, tracing, TraceStatus,
           Step, Shed, Admit, OpenTrace, Export, AttemptOk, AttemptRetry, AttemptFail,
           AttemptCrash, StreamChunk, StreamResume, StreamAbandon, StreamEnd, StreamFail,
           StreamCrash, ObserveSpan, RecordSLO, CountError, CountRequest, ObserveLatency,
           Enter, GaugeIn, Leave, GaugeOut
  <1> QED
    BY <1>1, <1>2 DEF StoredInv, Exported

LEMMA StoredHolds == Spec => []StoredInv
  <1>1. Init => StoredInv
    BY DEF Init, StoredInv, Exported, Requests
  <1>2. Inv /\ StoredInv /\ [Next]_vars => StoredInv'
    <2>1. CASE UNCHANGED vars
      BY <2>1 DEF vars, threads, tracing, StoredInv, Exported
    <2> QED
      BY <2>1, StoredStep DEF Next, Finished
  <1> QED
    BY <1>1, <1>2, InvHolds, PTL DEF Spec

\* With(f), split by whether the store has the trace.
InStore(f) == {r \in Stored : fate[r] = f}
Missing(f) == With(f) \ Stored

LEMMA FatesSplit ==
  ASSUME NEW f
  PROVE  /\ Cardinality(With(f)) = Cardinality(InStore(f)) + Cardinality(Missing(f))
         /\ Cardinality(InStore(f)) \in Nat /\ Cardinality(Missing(f)) \in Nat
  <1>1. /\ With(f) = InStore(f) \cup Missing(f) /\ InStore(f) \cap Missing(f) = {}
        /\ InStore(f) \in SUBSET Requests /\ Missing(f) \in SUBSET Requests
    BY DEF With, InStore, Missing, Stored
  <1> QED
    BY <1>1, RequestsFinite, DisjointCardinality

\* Every failure and crash is replayed as bad, every answer and dropped stream as good.
LEMMA ReplaySplit ==
  ASSUME Inv, TruthInv, StoredInv, Everyone
  PROVE  /\ ReplayOf(FALSE) = Cardinality(InStore("failed")) + Cardinality(InStore("crashed"))
         /\ ReplayOf(TRUE) = Cardinality(InStore("answered")) + Cardinality(InStore("abandoned"))
  <1>1. ASSUME NEW r \in Stored
        PROVE  fate[r] \in {"answered", "failed", "crashed", "abandoned"}
    BY EveryoneIsDone DEF Stored, StoredInv
  <1>2. /\ {r \in Stored : ReplayedGood(r) = FALSE} = InStore("failed") \cup InStore("crashed")
        /\ {r \in Stored : ReplayedGood(r) = TRUE} = InStore("answered") \cup InStore("abandoned")
    BY <1>1 DEF ReplayedGood, InStore
  <1>3. /\ InStore("failed") \cap InStore("crashed") = {}
        /\ InStore("answered") \cap InStore("abandoned") = {}
        /\ \A f : InStore(f) \in SUBSET Requests
    BY DEF InStore, Stored
  <1>4. /\ IsFiniteSet(InStore("failed")) /\ IsFiniteSet(InStore("crashed"))
        /\ IsFiniteSet(InStore("answered")) /\ IsFiniteSet(InStore("abandoned"))
    BY <1>3, RequestsFinite
  <1> QED
    BY <1>2, <1>3, <1>4, DisjointCardinality DEF ReplayOf

LEMMA ProductsOrder ==
  ASSUME NEW a \in Nat, NEW b \in Nat, NEW c \in Nat, NEW d \in Nat, b <= a, d <= c
  PROVE  a * c >= b * d
  <1>1. PICK e \in Nat : a = b + e
    <2> WITNESS a - b \in Nat
    <2> QED
      OBVIOUS
  <1>2. PICK g \in Nat : c = d + g
    <2> WITNESS c - d \in Nat
    <2> QED
      OBVIOUS
  <1>3. a * c = b * d + b * g + e * d + e * g
    BY <1>1, <1>2
  <1>4. b * d \in Nat /\ b * g \in Nat /\ e * d \in Nat /\ e * g \in Nat
    OBVIOUS
  <1> QED
    BY <1>3, <1>4

LEMMA ReplayMatches ==
  ASSUME Inv, TruthInv, TotalsExact, StoredInv, FailuresKeepTheirTrace
  PROVE  ReplayFaithful
  <1> SUFFICES ASSUME Everyone
      PROVE /\ ReplayOf(FALSE) + Cardinality(Missing("failed"))
                 = tally["slo_bad"] + Cardinality(InStore("crashed"))
            /\ ReplayOf(TRUE) + Cardinality(Missing("answered"))
                 = tally["slo_good"] + Cardinality(InStore("abandoned"))
            /\ (\A r \in Requests : stored[r] # "lost" /\ fate[r] # "abandoned") =>
                 ReplayOf(FALSE) * tally["slo_good"] >= tally["slo_bad"] * ReplayOf(TRUE)
    BY DEF ReplayFaithful, Missing, InStore, With
  <1> DEFINE kept(f) == Cardinality(InStore(f))
             gone(f) == Cardinality(Missing(f))
  <1>1. \A f : kept(f) \in Nat /\ gone(f) \in Nat
    BY FatesSplit
  <1>2. /\ tally["slo_good"] = kept("answered") + gone("answered")
        /\ tally["slo_bad"] = kept("failed") + gone("failed")
    BY BooksOfFates, FatesSplit
  <1>3. /\ ReplayOf(FALSE) = kept("failed") + kept("crashed")
        /\ ReplayOf(TRUE) = kept("answered") + kept("abandoned")
    BY ReplaySplit
  <1>4. /\ kept("failed") \in Nat /\ gone("failed") \in Nat /\ kept("crashed") \in Nat
        /\ kept("answered") \in Nat /\ gone("answered") \in Nat /\ kept("abandoned") \in Nat
    BY <1>1
  <1>5. ASSUME \A r \in Requests : stored[r] # "lost" /\ fate[r] # "abandoned"
        PROVE  ReplayOf(FALSE) * tally["slo_good"] >= tally["slo_bad"] * ReplayOf(TRUE)
    <2>1. gone("failed") = 0
      <3>1. Missing("failed") = {}
        BY <1>5, EveryoneIsDone DEF Missing, With, Stored, FailuresKeepTheirTrace
      <3> QED
        BY <3>1, FS_EmptySet
    <2>2. kept("abandoned") = 0
      <3>1. InStore("abandoned") = {}
        BY <1>5 DEF InStore, Stored
      <3> QED
        BY <3>1, FS_EmptySet
    <2>3. tally["slo_bad"] = kept("failed")
      <3>1. kept("failed") + gone("failed") = kept("failed")
        BY <1>4, <2>1
      <3> QED
        BY <1>2, <3>1
    <2>4. ReplayOf(TRUE) = kept("answered")
      <3>1. kept("answered") + kept("abandoned") = kept("answered")
        BY <1>4, <2>2
      <3> QED
        BY <1>3, <3>1
    <2>5. (kept("failed") + kept("crashed")) * (kept("answered") + gone("answered"))
            >= kept("failed") * kept("answered")
      BY <1>4, ProductsOrder
    <2> QED
      BY <1>2, <1>3, <2>3, <2>4, <2>5
  <1>6. kept("failed") + kept("crashed") + gone("failed") = kept("failed") + gone("failed") + kept("crashed")
    BY <1>4
  <1>7. kept("answered") + kept("abandoned") + gone("answered")
          = kept("answered") + gone("answered") + kept("abandoned")
    BY <1>4
  <1> QED
    BY <1>2, <1>3, <1>5, <1>6, <1>7

\* A replay of the stored traces has the recorded events, but for what the store has
\* missed, the crashes and the dropped streams, and never flatters the error rate.
THEOREM ReplayIsFaithful == ServingSpec => []ReplayFaithful
  <1>1. Inv /\ TruthInv /\ TotalsExact /\ StoredInv /\ FailuresKeepTheirTrace => ReplayFaithful
    BY ReplayMatches
  <1> QED
    BY <1>1, ServingInv, ServingIsGateway, TotalsAreExact, TruthHolds, StoredHolds,
       FailuresAreExported, PTL
=============================================================================
