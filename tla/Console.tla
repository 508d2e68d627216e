------------------------------- MODULE Console -------------------------------
(***************************************************************************)
(* The operations console's TrafficGenerator (src/src/llmobs/console.py) on *)
(* top of the simulator: server threads start and stop the arrivals and     *)
(* switch the scenario, with no lock, while the arrival loops submit calls. *)
(*                                                                         *)
(* A call goes from the pool through the gateway to LocalSim; a retry of    *)
(* the gateway would be a further call.  The steps of a handler are the     *)
(* calls it makes: CPython can switch threads after each.                   *)
(***************************************************************************)
EXTENDS LocalSim

CONSTANTS
  Handlers,    \* threads of the server that run a console request
  MaxRequests, \* bound: console requests
  HistorySize, \* load tests the console remembers: 20 in the source
  Baseline,    \* the simulator's attributes as the console found them
  Scenarios    \* SCENARIOS: the attributes each one sets

Healthy == CHOOSE name \in DOMAIN Scenarios : DOMAIN Scenarios[name] = {}

TUNABLE == {"failure_rate", "base_overhead_ms", "decode_ms_per_token"}

\* Arrival threads: no more than requests to start one.
Loops == 1 .. MaxRequests

ASSUME ConsoleAssumption ==
  /\ Calls = 1 .. Cardinality(Calls)
  /\ IsFiniteSet(Handlers)
  /\ Baseline \in [TUNABLE -> Nat]
  /\ \A name \in DOMAIN Scenarios : \E keys \in SUBSET TUNABLE : Scenarios[name] \in [keys -> Nat]
  /\ \E name \in DOMAIN Scenarios : DOMAIN Scenarios[name] = {}
  /\ MaxRequests \in Nat /\ HistorySize \in Nat

VARIABLES
  requests,  \* console requests so far
  hpc,       \* where each handler stands
  plan,      \* the setattr calls a scenario switch has yet to make
  target,    \* the scenario a handler switches to
  scenario,  \* self.scenario
  stopped,   \* self._stop
  thread,    \* self._thread, 0 for None
  created,   \* arrival threads constructed so far
  loop,      \* where each arrival thread stands
  sent,      \* self.sent
  test,      \* the load test of each handler
  history,   \* self.load_history: what is left of the records
  apart      \* no two starts, and no two switches, have run at the same time

switching == <<plan, target, scenario, tunable>>
arriving  == <<thread, created, loop, sent>>
testing   == <<test, history>>
vars      == <<simVars, requests, hpc, switching, stopped, arriving, testing, apart>>

\* label is the scenario recorded.  History, for the properties: the attributes
\* at the start, and whether they are those of one scenario all along.
NoTest == [label |-> Healthy, ran |-> Baseline, steady |-> TRUE]

Init ==
  /\ SimInit
  /\ tunable = Baseline
  /\ requests = 0
  /\ hpc = [h \in Handlers |-> "idle"]
  /\ plan = [h \in Handlers |-> <<>>]
  /\ target = [h \in Handlers |-> Healthy]
  /\ scenario = Healthy
  /\ stopped = FALSE
  /\ thread = 0 /\ created = 0
  /\ loop = [l \in Loops |-> "new"]
  /\ sent = 0
  /\ test = [h \in Handlers |-> NoTest] /\ history = <<>>
  /\ apart = [starts |-> TRUE, switches |-> TRUE]

HGoto(h, from, to) ==
  /\ hpc[h] = from
  /\ hpc' = [hpc EXCEPT ![h] = to]

Arrive(h, at) ==
  /\ requests < MaxRequests
  /\ requests' = requests + 1
  /\ HGoto(h, "idle", at)

-----------------------------------------------------------------------------
(* start() and stop() *)

Starting == {"check", "clear", "create", "launch"}

RequestStart(h) ==
  /\ Arrive(h, "check")
  /\ apart' = [apart EXCEPT !.starts = @ /\ \A g \in Handlers : hpc[g] \notin Starting]
  /\ UNCHANGED <<simVars, switching, stopped, arriving, testing>>

IsAlive(l) == loop[l] \in {"look", "pause", "wait", "woken", "submit"}

\* Wrong: a generator that has been told to stop counts as stopped.
RunningUnlessStopped == thread # 0 /\ IsAlive(thread) /\ ~stopped

Running == thread # 0 /\ IsAlive(thread)

CheckRunning(h) ==
  /\ HGoto(h, "check", IF Running THEN "idle" ELSE "clear")
  /\ UNCHANGED <<simVars, requests, switching, stopped, arriving, testing, apart>>

ClearStop(h) ==
  /\ HGoto(h, "clear", "create")
  /\ stopped' = FALSE
  /\ UNCHANGED <<simVars, requests, switching, arriving, testing, apart>>

CreateThread(h) ==
  /\ HGoto(h, "create", "launch")
  /\ created' = created + 1
  /\ thread' = created + 1
  /\ UNCHANGED <<simVars, requests, switching, stopped, loop, sent, testing, apart>>

\* self._thread is read again: it may be another handler's thread by now, and
\* to start a thread twice raises RuntimeError.
Launch(h) ==
  /\ HGoto(h, "launch", "idle")
  /\ loop' = [loop EXCEPT ![thread] = IF @ = "new" THEN "look" ELSE @]
  /\ UNCHANGED <<simVars, requests, switching, stopped, thread, created, sent, testing, apart>>

\* Wrong: a loop that waits for the next arrival is not woken.
StopUnheard(h) ==
  /\ Arrive(h, "idle")
  /\ stopped' = TRUE
  /\ UNCHANGED <<simVars, switching, arriving, testing, apart>>

\* Event.set() wakes the loops that wait on it, whatever becomes of the flag.
Stop(h) ==
  /\ Arrive(h, "idle")
  /\ stopped' = TRUE
  /\ loop' = [l \in Loops |-> IF loop[l] = "wait" THEN "woken" ELSE loop[l]]
  /\ UNCHANGED <<simVars, switching, thread, created, sent, testing, apart>>

-----------------------------------------------------------------------------
(* set_scenario() *)

SetOne(key, keys, values) == IF key \in keys THEN << <<key, values[key]>> >> ELSE <<>>

\* In the order of TUNABLE in the source.
Assign(keys, values) ==
  SetOne("failure_rate", keys, values) \o SetOne("base_overhead_ms", keys, values)
    \o SetOne("decode_ms_per_token", keys, values)

\* Wrong: what the scenario before has changed is not put back.
SwitchPlanOnly(name) == Assign(DOMAIN Scenarios[name], Scenarios[name])

\* The baseline whole, then what the scenario changes.
SwitchPlan(name) == Assign(TUNABLE, Baseline) \o Assign(DOMAIN Scenarios[name], Scenarios[name])

RequestSwitch(h) ==
  /\ Arrive(h, "switch")
  /\ \E name \in DOMAIN Scenarios :
       /\ target' = [target EXCEPT ![h] = name]
       /\ plan' = [plan EXCEPT ![h] = SwitchPlan(name)]
  /\ apart' = [apart EXCEPT !.switches = \A g \in Handlers : hpc[g] # "switch"]
  /\ test' = [g \in Handlers |-> [test[g] EXCEPT !.steady = @ /\ hpc[g] # "test"]]
  /\ UNCHANGED <<simVars, scenario, stopped, arriving, history>>

SetAttribute(h) ==
  /\ plan[h] # <<>>
  /\ HGoto(h, "switch", "switch")
  /\ tunable' = [tunable EXCEPT ![Head(plan[h])[1]] = Head(plan[h])[2]]
  /\ plan' = [plan EXCEPT ![h] = Tail(@)]
  /\ UNCHANGED <<pc, books, caching, requests, target, scenario, stopped, arriving, testing, apart>>

SetScenario(h) ==
  /\ plan[h] = <<>>
  /\ HGoto(h, "switch", "idle")
  /\ scenario' = target[h]
  /\ target' = [target EXCEPT ![h] = Healthy]
  /\ UNCHANGED <<simVars, requests, plan, stopped, arriving, testing, apart>>

-----------------------------------------------------------------------------
(* load_test(): its own calls, through the gateway, are in Serving *)

RequestLoad(h) ==
  /\ Arrive(h, "test")
  /\ test' = [test EXCEPT ![h] = [label  |-> Healthy, ran |-> tunable,
                                 steady |-> apart.switches /\ \A g \in Handlers : hpc[g] # "switch"]]
  /\ UNCHANGED <<simVars, switching, stopped, arriving, history, apart>>

\* The record names the scenario of the moment the last answer is in.
Label(h) ==
  /\ HGoto(h, "test", "insert")
  /\ test' = [test EXCEPT ![h].label = scenario]
  /\ UNCHANGED <<simVars, requests, switching, stopped, arriving, history, apart>>

\* generate_load() raises what a worker raised: nothing is remembered of the test.
LoadRaises(h) ==
  /\ HGoto(h, "test", "idle")
  /\ test' = [test EXCEPT ![h] = NoTest]
  /\ UNCHANGED <<simVars, requests, switching, stopped, arriving, history, apart>>

Insert(h) ==
  /\ HGoto(h, "insert", "cut")
  /\ history' = <<test[h]>> \o history
  /\ test' = [test EXCEPT ![h] = NoTest]
  /\ UNCHANGED <<simVars, requests, switching, stopped, arriving, apart>>

Cut(h) ==
  /\ HGoto(h, "cut", "idle")
  /\ history' = SubSeq(history, 1, IF Len(history) < HistorySize THEN Len(history) ELSE HistorySize)
  /\ UNCHANGED <<simVars, requests, switching, stopped, arriving, test, apart>>

-----------------------------------------------------------------------------
(* _loop(), and the pool that runs _one() *)

LGoto(l, from, to) ==
  /\ loop[l] = from
  /\ loop' = [loop EXCEPT ![l] = to]
  /\ UNCHANGED <<simVars, requests, hpc, switching, stopped, thread, created, sent, testing, apart>>

Look(l) == LGoto(l, "look", IF stopped THEN "dead" ELSE "pause")

\* Bound: arrivals left to come.
MoreToCome == sent + Cardinality({l \in Loops : loop[l] = "submit"}) < Cardinality(Calls)

\* The next arrival is due already, or the loop waits for it.
Due(l)   == MoreToCome /\ LGoto(l, "pause", "submit")
Pause(l) == LGoto(l, "pause", IF stopped THEN "dead" ELSE "wait")

TimeOut(l) == MoreToCome /\ LGoto(l, "wait", "submit")
Woken(l)   == LGoto(l, "woken", "dead")

Submit(l) ==
  /\ loop[l] = "submit"
  /\ loop' = [loop EXCEPT ![l] = "look"]
  /\ sent' = sent + 1
  /\ pc' = [pc EXCEPT ![sent + 1] = "called"]
  /\ UNCHANGED <<books, caching, requests, hpc, switching, stopped, thread, created, testing, apart>>

-----------------------------------------------------------------------------

Handle(h) ==
  \/ CheckRunning(h) \/ ClearStop(h) \/ CreateThread(h) \/ Launch(h)
  \/ SetAttribute(h) \/ SetScenario(h)
  \/ Label(h) \/ LoadRaises(h) \/ Insert(h) \/ Cut(h)

Request(h) == RequestStart(h) \/ Stop(h) \/ RequestSwitch(h) \/ RequestLoad(h)

Loop(l) == Look(l) \/ Due(l) \/ Pause(l) \/ Woken(l) \/ Submit(l)

Call(c) == Serve(c) /\ UNCHANGED <<requests, hpc, plan, target, scenario, stopped, arriving, testing, apart>>

Next ==
  \/ \E h \in Handlers : Request(h) \/ Handle(h)
  \/ \E l \in Loops : Loop(l) \/ TimeOut(l)
  \/ \E c \in Calls : Call(c)

Spec == Init /\ [][Next]_vars

\* Threads that can run do; a wait for the next arrival may outlast the run.
FairSpec ==
  /\ Spec
  /\ \A h \in Handlers : WF_vars(Handle(h))
  /\ \A l \in Loops : WF_vars(Loop(l))
  /\ \A c \in Calls : WF_vars(Call(c))

-----------------------------------------------------------------------------
(* Properties *)

Settled == {"answered", "dropped", "failed"}

TypeOK ==
  /\ pc \in [Calls -> {"none", "called", "queued", "admitted", "failing", "serving"} \cup Settled]
  /\ inFlight \in 0 .. Cardinality(Calls) /\ queueDepth \in 0 .. inFlight
  /\ cache \in Seq(Prefixes)
  /\ tunable \in [TUNABLE -> Nat]
  /\ requests \in 0 .. MaxRequests
  /\ hpc \in [Handlers -> Starting \cup {"idle", "switch", "test", "insert", "cut"}]
  /\ target \in [Handlers -> DOMAIN Scenarios] /\ scenario \in DOMAIN Scenarios
  /\ stopped \in BOOLEAN
  /\ created \in {0} \cup Loops /\ thread \in 0 .. created
  /\ loop \in [Loops -> {"new", "look", "pause", "wait", "woken", "submit", "dead"}]
  /\ \A l \in Loops : l > created => loop[l] = "new"
  /\ sent \in 0 .. Cardinality(Calls)
  /\ \A record \in {test[h] : h \in Handlers} \cup {history[i] : i \in DOMAIN history} :
       record \in [label : DOMAIN Scenarios, ran : [TUNABLE -> Nat], steady : BOOLEAN]

(***************************************************************************)
(* The simulator's books are exact (local.py:118-135, 167-168, 186-187):    *)
(* each admitted call is in flight until it answers, fails or is dropped,   *)
(* the waiting ones are the queue, and max(0, ...) never hides a wrong      *)
(* release.  And its prefix cache stays within its capacity, holds no key   *)
(* twice, and never gives up the prefix just asked for (local.py:96-100).   *)
(***************************************************************************)
BooksExact ==
  /\ inFlight = Cardinality({c \in Calls : pc[c] \in {"queued", "admitted", "failing", "serving"}})
  /\ queueDepth = Cardinality({c \in Calls : pc[c] = "queued"})
  /\ Len(cache) <= CacheCapacity
  /\ \A i, j \in DOMAIN cache : cache[i] = cache[j] => i = j
  /\ latest # <<>> => \E i \in DOMAIN cache : cache[i] = latest

(***************************************************************************)
(* As long as no two start() calls overlap, at most one arrival loop is     *)
(* alive, whatever stops come between (console.py:89-98): a second one would*)
(* double the traffic and no handle would be left to it.                    *)
(***************************************************************************)
OneLoop == apart.starts => Cardinality({l \in Loops : IsAlive(l)}) <= 1

Expected(name) ==
  [key \in TUNABLE |-> IF key \in DOMAIN Scenarios[name] THEN Scenarios[name][key] ELSE Baseline[key]]

(***************************************************************************)
(* The simulator has the attributes of the scenario the console shows       *)
(* (console.py:100-112) when the last switch ran by itself: nothing of an   *)
(* earlier scenario is left, overlapped or not.  A load test that no switch *)
(* has touched ran under the scenario its record names (console.py:155);    *)
(* and the console remembers no more tests than it says, but for those that *)
(* are about to cut the list (console.py:156-157).                          *)
(***************************************************************************)
ScenarioWhole ==
  /\ apart.switches /\ (\A h \in Handlers : hpc[h] # "switch") => tunable = Expected(scenario)
  /\ \A i \in DOMAIN history : history[i].steady => history[i].ran = Expected(history[i].label)
  /\ Len(history) <= HistorySize + Cardinality({h \in Handlers : hpc[h] = "cut"})

(***************************************************************************)
(* Traffic that stays stopped comes to rest (console.py:97-98, 118-127;     *)
(* local.py:167, 186): every arrival loop ends, and the calls it had        *)
(* submitted leave the simulator empty.                                     *)
(***************************************************************************)
Quiet == (\A l \in Loops : ~IsAlive(l)) /\ inFlight = 0 /\ (\A c \in Calls : pc[c] # "called")

StopDrains == <>[]stopped => <>[]Quiet
=============================================================================
