------------------------------ MODULE SLOTracker ------------------------------
(***************************************************************************)
(* SLOTracker (src/src/llmobs/slo.py): request threads record outcomes while*)
(* other threads evaluate the burn rates, with no lock on the event deques. *)
(*                                                                         *)
(* A deque that is only appended to on the right and popped on the left is  *)
(* its whole history and the number popped: log[s] and popped[s].           *)
(*                                                                         *)
(* The steps are the points where CPython can switch threads: after a call  *)
(* and at a loop's jump back.  The first test of the while loop in _trim    *)
(* and its popleft are one step, every later test and its popleft are two.  *)
(***************************************************************************)
EXTENDS Integers, Sequences, FiniteSets

CONSTANTS
  Writers,     \* threads that call record()
  Readers,     \* threads that call all_status()
  SLOs,        \* the tracker's SLO list
  Outcomes,    \* what a request may be recorded as: ok, latency and ttft
  NoTTFT,      \* ttft_seconds=None
  MaxEvents,   \* SLOTracker.max_events
  MinSample,   \* the least events a burn window needs to fire: 10 in status()
  MaxRecords,  \* bound: calls of record()
  MaxStall,    \* the longest a record() call lasts, short of every window
  MaxClock     \* bound: the last instant

Indices == 1 .. Len(SLOs)
Rules(s) == 1 .. Len(SLOs[s].rules)

BurnRateWindows == [window : Nat, threshold : Nat, severity : {"ticket", "page"}]

SLORecords ==
  [kind : {"availability", "latency"}, indicator : {"duration", "ttft"},
   limit : Nat, window : Nat, budget : Nat, rules : Seq(BurnRateWindows)]

ASSUME TrackerAssumption ==
  /\ IsFiniteSet(Writers) /\ Writers # {}
  /\ SLOs # <<>>
  /\ SLOs \in Seq(SLORecords)
  /\ Outcomes # {}
  /\ Outcomes \subseteq [ok : BOOLEAN, latency : Nat, ttft : Nat \cup {NoTTFT}]
  /\ MaxEvents \in Nat /\ MinSample \in Nat
  /\ MaxRecords \in Nat /\ MaxClock \in Nat /\ MaxStall \in Nat
  /\ \A s \in Indices : MaxStall <= SLOs[s].window

VARIABLES
  clock,    \* time.time()
  begun,    \* calls of record() so far
  pc,       \* where each writer stands
  at,       \* the SLO each writer's loop has reached
  now,      \* the timestamp each writer took on entry
  outcome,  \* what each writer records
  log,      \* every event ever appended, per SLO
  popped,   \* how many of them have left the deque
  rpc,      \* where each reader stands
  place,    \* each reader's locals of all_status() and status()
  count,    \* each reader's locals of _error_rate()
  report    \* each reader's SLOStatus list so far

writing == <<begun, pc, at, now, outcome, log, popped>>
reading == <<rpc, place, count, report>>
vars    == <<clock, writing, reading>>

Severities == {"ok", "ticket", "page"}
\* What an idle writer's locals hold.
Unset == CHOOSE o \in Outcomes : TRUE

NoStatus == [severity |-> "ok", fired |-> {}]

\* status() about to scan the whole window of SLO s.
Start(s, t) == [s |-> s, k |-> 0, moment |-> t, status |-> NoStatus]

NoCount == [len |-> 0, popped |-> 0, left |-> 0, total |-> 0, bad |-> 0]

Init ==
  /\ clock   = 0
  /\ begun   = 0
  /\ pc      = [w \in Writers |-> "idle"]
  /\ at      = [w \in Writers |-> 1]
  /\ now     = [w \in Writers |-> 0]
  /\ outcome = [w \in Writers |-> Unset]
  /\ log     = [s \in Indices |-> <<>>]
  /\ popped  = [s \in Indices |-> 0]
  /\ rpc     = [q \in Readers |-> "idle"]
  /\ place   = [q \in Readers |-> Start(1, 0)]
  /\ count   = [q \in Readers |-> NoCount]
  /\ report  = [q \in Readers |-> [s \in Indices |-> NoStatus]]

-----------------------------------------------------------------------------
(* SLO.is_good *)

\* Without a first-token time the whole duration is judged.
Value(slo, o) ==
  IF slo.indicator = "ttft" /\ o.ttft # NoTTFT THEN o.ttft ELSE o.latency

\* A limit of None or 0 judges nothing: `or float("inf")`.
InTime(slo, o) == slo.limit # 0 => Value(slo, o) <= slo.limit

\* Wrong: a latency objective looks at the latency only.
IsGoodByLatency(slo, o) == IF slo.kind = "latency" THEN InTime(slo, o) ELSE o.ok

IsGood(slo, o) == o.ok /\ (slo.kind = "latency" => InTime(slo, o))

-----------------------------------------------------------------------------
(* record() and _trim() *)

Size(s) == Len(log[s]) - popped[s]

\* Wrong: the comparison is turned round, and what is still in the window goes.
HeadIsFresh(w, s) ==
  Size(s) > 0 /\ log[s][popped[s] + 1].time > now[w] - SLOs[s].window

\* `events and events[0].timestamp < cutoff`
HeadIsStale(w, s) ==
  Size(s) > 0 /\ log[s][popped[s] + 1].time < now[w] - SLOs[s].window

\* Wrong: one event too many is kept.
OverCapByOne(s) == Size(s) > MaxEvents + 1

\* `len(events) > self.max_events`
OverCap(s) == Size(s) > MaxEvents

Goto(w, from, to) ==
  /\ pc[w] = from
  /\ pc' = [pc EXCEPT ![w] = to]

PopLeft(s) == popped' = [popped EXCEPT ![s] = @ + 1]

Record(w) ==
  /\ begun < MaxRecords
  /\ Goto(w, "idle", "append")
  /\ begun' = begun + 1
  /\ at' = [at EXCEPT ![w] = 1]
  /\ now' = [now EXCEPT ![w] = clock]
  /\ \E o \in Outcomes : outcome' = [outcome EXCEPT ![w] = o]
  /\ UNCHANGED <<clock, log, popped, reading>>

AppendEvent(w) ==
  LET s == at[w] IN
  /\ Goto(w, "append", "trim")
  /\ log' = [log EXCEPT ![s] = Append(@, [time |-> now[w], good |-> IsGood(SLOs[s], outcome[w])])]
  /\ UNCHANGED <<clock, begun, at, now, outcome, popped, reading>>

\* The first test of `while events and ...`, with the popleft if it holds.
TrimFirst(w) ==
  LET s == at[w] IN
  /\ \/ HeadIsStale(w, s) /\ Goto(w, "trim", "look") /\ PopLeft(s)
     \/ ~HeadIsStale(w, s) /\ Goto(w, "trim", "cap") /\ UNCHANGED popped
  /\ UNCHANGED <<clock, begun, at, now, outcome, log, reading>>

TrimLook(w) ==
  /\ Goto(w, "look", IF HeadIsStale(w, at[w]) THEN "pop" ELSE "cap")
  /\ UNCHANGED <<clock, begun, at, now, outcome, log, popped, reading>>

TrimPop(w) ==
  /\ Goto(w, "pop", "look")
  /\ PopLeft(at[w])
  /\ UNCHANGED <<clock, begun, at, now, outcome, log, reading>>

\* The second while loop; at its end on to the next SLO.
CapLook(w) ==
  LET s == at[w] IN
  /\ \/ /\ OverCap(s)
        /\ Goto(w, "cap", "shrink")
        /\ UNCHANGED <<at, now, outcome>>
     \/ /\ ~OverCap(s) /\ s < Len(SLOs)
        /\ Goto(w, "cap", "append")
        /\ at' = [at EXCEPT ![w] = s + 1]
        /\ UNCHANGED <<now, outcome>>
     \/ /\ ~OverCap(s) /\ s = Len(SLOs)
        /\ Goto(w, "cap", "idle")
        /\ at' = [at EXCEPT ![w] = 1]
        /\ now' = [now EXCEPT ![w] = 0]
        /\ outcome' = [outcome EXCEPT ![w] = Unset]
  /\ UNCHANGED <<clock, begun, log, popped, reading>>

\* Wrong: the length is tested before the popleft, one event too many goes.
CapPopTestedBefore(w) ==
  /\ Goto(w, "shrink", IF OverCap(at[w]) THEN "shrink" ELSE "cap")
  /\ PopLeft(at[w])
  /\ UNCHANGED <<clock, begun, at, now, outcome, log, reading>>

CapPop(w) ==
  /\ Goto(w, "shrink", "cap")
  /\ PopLeft(at[w])
  /\ UNCHANGED <<clock, begun, at, now, outcome, log, reading>>

-----------------------------------------------------------------------------
(* all_status(), status() and _error_rate() *)

RGoto(q, from, to) ==
  /\ rpc[q] = from
  /\ rpc' = [rpc EXCEPT ![q] = to]

\* The window the reader is scanning: the SLO's own, then each burn window.
ScanWindow(v) == IF v.k = 0 THEN SLOs[v.s].window ELSE SLOs[v.s].rules[v.k].window

Evaluate(q) ==
  /\ RGoto(q, "idle", "open")
  /\ place' = [place EXCEPT ![q] = Start(1, clock)]
  /\ report' = [report EXCEPT ![q] = [s \in Indices |-> NoStatus]]
  /\ UNCHANGED <<clock, count, writing>>

\* Wrong: the count of bad events runs on from the window before.
ScanOpenKeepsBad(q) ==
  LET s == place[q].s IN
  /\ RGoto(q, "open", "scan")
  /\ count' = [count EXCEPT ![q] =
       [len |-> Len(log[s]), popped |-> popped[s], left |-> Size(s), total |-> 0, bad |-> @.bad]]
  /\ UNCHANGED <<clock, place, report, writing>>

\* reversed(deque) remembers the deque's length and its modification state.
ScanOpen(q) ==
  LET s == place[q].s IN
  /\ RGoto(q, "open", "scan")
  /\ count' = [count EXCEPT ![q] =
       [len |-> Len(log[s]), popped |-> popped[s], left |-> Size(s), total |-> 0, bad |-> 0]]
  /\ UNCHANGED <<clock, place, report, writing>>

Untouched(q) == Len(log[place[q].s]) = count[q].len /\ popped[place[q].s] = count[q].popped

\* The event the reversed iterator yields next.
NextEvent(q) == log[place[q].s][count[q].popped + count[q].left]

InWindow(q, event) == event.time >= place[q].moment - ScanWindow(place[q])

ScanCount(q) ==
  LET c == count[q] IN
  /\ c.left > 0 /\ Untouched(q) /\ InWindow(q, NextEvent(q))
  /\ RGoto(q, "scan", "scan")
  /\ count' = [count EXCEPT ![q] =
       [len |-> c.len, popped |-> c.popped, left |-> c.left - 1, total |-> c.total + 1,
        bad |-> c.bad + (IF NextEvent(q).good THEN 0 ELSE 1)]]
  /\ UNCHANGED <<clock, place, report, writing>>

\* Wrong: the RuntimeError is swallowed and the partial count judged.
ScanEndEarly(q) ==
  /\ count[q].left > 0 /\ Untouched(q) => ~InWindow(q, NextEvent(q))
  /\ RGoto(q, "scan", "judge")
  /\ UNCHANGED <<clock, place, count, report, writing>>

\* The iterator is exhausted, or the first event before the cutoff breaks the loop.
ScanEnd(q) ==
  /\ count[q].left > 0 => Untouched(q) /\ ~InWindow(q, NextEvent(q))
  /\ RGoto(q, "scan", "judge")
  /\ UNCHANGED <<clock, place, count, report, writing>>

\* RuntimeError: deque mutated during iteration.
ScanRaise(q) ==
  /\ count[q].left > 0 /\ ~Untouched(q)
  /\ RGoto(q, "scan", "raised")
  /\ UNCHANGED <<clock, place, count, report, writing>>

\* The caller of the failed evaluation gets its error; the next one starts over.
GiveUp(q) ==
  /\ RGoto(q, "raised", "idle")
  /\ UNCHANGED <<clock, place, count, report, writing>>

(***************************************************************************)
(* window_total >= 10 and burn >= threshold, with the budget in thousandths *)
(* and the threshold in tenths.  Two rounded divisions precede the          *)
(* comparison, so at exact equality it can go either way.  A zero budget    *)
(* makes the burn rate 0.                                                   *)
(***************************************************************************)
Excess(q) ==
  LET v == place[q] IN
  count[q].bad * 10000 - SLOs[v.s].rules[v.k].threshold * SLOs[v.s].budget * count[q].total

MayFire(q) ==
  LET v == place[q] IN
  /\ count[q].total >= MinSample
  /\ IF SLOs[v.s].budget = 0 THEN SLOs[v.s].rules[v.k].threshold = 0 ELSE Excess(q) >= 0

MayNotFire(q) == MayFire(q) => SLOs[place[q].s].budget # 0 /\ Excess(q) = 0

\* The overall rate alerts nobody.
Verdicts(q) ==
  IF place[q].k = 0 THEN {FALSE}
  ELSE {fire \in BOOLEAN : IF fire THEN MayFire(q) ELSE MayNotFire(q)}

\* Wrong: a ticket rule after a page rule lowers the severity.
EscalateToLast(severity, rule) == rule.severity

\* PAGE wins whenever it comes, TICKET only over OK.
Escalate(severity, rule) ==
  IF rule.severity = "page" THEN "page" ELSE IF severity = "ok" THEN "ticket" ELSE severity

\* The severity and the triggered windows once the current rule is judged.
Judged(v, fire) ==
  IF fire
  THEN [severity |-> Escalate(v.status.severity, SLOs[v.s].rules[v.k]),
        fired    |-> v.status.fired \cup {v.k}]
  ELSE v.status

\* status() between two windows.
NextWindow(q) ==
  LET v == place[q] IN
  /\ v.k < Len(SLOs[v.s].rules)
  /\ RGoto(q, "judge", "open")
  /\ \E fire \in Verdicts(q) :
       place' = [place EXCEPT ![q] =
         [s |-> v.s, k |-> v.k + 1, moment |-> v.moment, status |-> Judged(v, fire)]]
  /\ UNCHANGED <<clock, count, report, writing>>

\* status() returns, and all_status() goes on to the next SLO or returns.
Publish(q) ==
  LET v == place[q] IN
  /\ v.k = Len(SLOs[v.s].rules)
  /\ RGoto(q, "judge", IF v.s < Len(SLOs) THEN "open" ELSE "idle")
  /\ \E fire \in Verdicts(q) : report' = [report EXCEPT ![q][v.s] = Judged(v, fire)]
  /\ place' = [place EXCEPT ![q] = IF v.s < Len(SLOs) THEN Start(v.s + 1, clock) ELSE Start(1, 0)]
  /\ count' = [count EXCEPT ![q] = NoCount]
  /\ UNCHANGED <<clock, writing>>

-----------------------------------------------------------------------------

Tick ==
  /\ clock < MaxClock
  /\ \A w \in Writers : pc[w] # "idle" => clock < now[w] + MaxStall
  /\ clock' = clock + 1
  /\ UNCHANGED <<writing, reading>>

Write(w) ==
  \/ Record(w) \/ AppendEvent(w) \/ TrimFirst(w) \/ TrimLook(w) \/ TrimPop(w)
  \/ CapLook(w) \/ CapPop(w)

Read(q) ==
  \/ Evaluate(q) \/ ScanOpen(q) \/ ScanCount(q) \/ ScanEnd(q) \/ ScanRaise(q)
  \/ GiveUp(q) \/ NextWindow(q) \/ Publish(q)

Next == Tick \/ (\E w \in Writers : Write(w)) \/ (\E q \in Readers : Read(q))

Spec == Init /\ [][Next]_vars

-----------------------------------------------------------------------------
(* Properties *)

Events   == [time : Nat, good : BOOLEAN]
Statuses == [severity : Severities, fired : SUBSET Nat]
Places   == [s : Indices, k : Nat, moment : Nat, status : Statuses]
Counts   == [len : Nat, popped : Nat, left : Int, total : Nat, bad : Nat]

\* A reader is inside the SLO it evaluates and has counted what it has passed.
ScanFits(q) ==
  LET v == place[q]
      c == count[q]
  IN
  /\ v.k <= Len(SLOs[v.s].rules) /\ v.status.fired \subseteq Rules(v.s)
  /\ v.moment <= clock
  /\ c.bad <= c.total
  /\ c.total + c.left = c.len - c.popped
  /\ rpc[q] \in {"scan", "judge"} => c.len <= Len(log[v.s])

WritersOK ==
  /\ clock \in 0 .. MaxClock
  /\ begun \in 0 .. MaxRecords
  /\ pc \in [Writers -> {"idle", "append", "trim", "look", "pop", "cap", "shrink"}]
  /\ at \in [Writers -> Indices]
  /\ now \in [Writers -> Nat]
  /\ outcome \in [Writers -> Outcomes]
  /\ log \in [Indices -> Seq(Events)]
  /\ popped \in [Indices -> Nat]
  /\ \A w \in Writers : now[w] <= clock

ReadersOK ==
  /\ rpc \in [Readers -> {"idle", "open", "scan", "judge", "raised"}]
  /\ place \in [Readers -> Places]
  /\ count \in [Readers -> Counts]
  /\ report \in [Readers -> [Indices -> Statuses]]

TypeOK == WritersOK /\ ReadersOK /\ \A q \in Readers : ScanFits(q)

\* Writers that have decided to pop the deque of s and have not done so yet.
Popping(s) == {w \in Writers : pc[w] \in {"pop", "shrink"} /\ at[w] = s}

\* Writers between their append to s and the end of the trim that follows it.
Within(s) ==
  {w \in Writers : pc[w] \in {"trim", "look", "pop", "cap", "shrink"} /\ at[w] = s}

(***************************************************************************)
(* No popleft meets an empty deque (slo.py:148, 150): two threads may have  *)
(* decided to drop the same event, and the IndexError would make an answered*)
(* request fail in record().  It needs more than TrackerAssumption: windows *)
(* of two calls of record(), and room under the cap for the other threads.  *)
(***************************************************************************)
PopsNonEmpty == \A s \in Indices : Cardinality(Popping(s)) <= Size(s)

(***************************************************************************)
(* Memory is bounded (slo.py:149): at any instant a deque exceeds max_events*)
(* by at most the number of threads whose trim of it is under way.          *)
(***************************************************************************)
MemoryBounded == \A s \in Indices : Size(s) <= MaxEvents + Cardinality(Within(s))

\* Event i of s is out of the window of the latest record, or beyond the cap.
Justified(s, i) ==
  \/ log[s][i].time + SLOs[s].window < clock
  \/ i + MaxEvents <= Len(log[s])

(***************************************************************************)
(* Threads that race in _trim drop too much (slo.py:147-150), but no more   *)
(* than one event for each other thread: what is gone, or about to go,      *)
(* reaches at most |Writers| - 1 past an event that had to go.              *)
(***************************************************************************)
OverTrimBounded ==
  \A s \in Indices :
    LET gone == popped[s] + Cardinality(Popping(s)) IN
    gone > 0 =>
      \E i \in 1 .. Len(log[s]) :
        /\ gone < i + Cardinality(Writers)
        /\ Justified(s, i)

\* Bad events of s from the i-th on.
BadFrom(s, i) == {j \in i .. Len(log[s]) : ~log[s][j].good}

(***************************************************************************)
(* Every request is an event of every SLO, and a request that failed is a   *)
(* bad one for each of them (slo.py:66-73, 138-141): between records the    *)
(* deques agree on how many requests there were, and a latency SLO has at   *)
(* least the bad events of an availability SLO.                             *)
(***************************************************************************)
FailuresHurtEverySLO ==
  (\A w \in Writers : pc[w] = "idle") =>
    \A s, t \in Indices :
      /\ Len(log[s]) = Len(log[t])
      /\ SLOs[s].kind = "availability" =>
           Cardinality(BadFrom(s, 1)) <= Cardinality(BadFrom(t, 1))

(***************************************************************************)
(* An error rate is that of the deque at one instant (slo.py:152-162): the  *)
(* scan that survives has counted exactly the newest run of events inside   *)
(* the window, as the deque was when the scan began.                        *)
(***************************************************************************)
RatesAreSnapshots ==
  \A q \in Readers : rpc[q] = "judge" =>
    LET c == count[q]
        events == log[place[q].s]
        run == {i \in c.popped + 1 .. c.len : \A j \in i .. c.len : InWindow(q, events[j])}
    IN /\ c.total = Cardinality(run)
       /\ c.bad = Cardinality({i \in run : ~events[i].good})

(***************************************************************************)
(* The severity of a report is the worst of the rules it lists as triggered *)
(* (slo.py:187-191), in whatever order the rules stand.                     *)
(***************************************************************************)
SeverityMatchesFired ==
  \A q \in Readers, s \in Indices :
    LET fired == {SLOs[s].rules[k].severity : k \in report[q][s].fired} IN
    report[q][s].severity =
      IF "page" \in fired THEN "page" ELSE IF "ticket" \in fired THEN "ticket" ELSE "ok"
=============================================================================
