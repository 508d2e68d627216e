--------------------------- MODULE SLOTrackerProofs ---------------------------
(***************************************************************************)
(* Proofs about SLOTracker, for every number of threads, every list of SLOs *)
(* and every limit.                                                         *)
(***************************************************************************)
EXTENDS SLOTracker, FiniteSetTheorems, SequenceTheorems, TLAPS

-----------------------------------------------------------------------------
(* Types *)

\* The last SLO is one, and so is the one after any but the last.
LEMMA IndexFacts ==
  /\ Len(SLOs) \in Nat /\ 1 \in Indices /\ Indices \subseteq Nat
  /\ \A s \in Indices : s < Len(SLOs) => s + 1 \in Indices
BY TrackerAssumption DEF Indices

\* What the code reads of an SLO and of a burn window has its type.
LEMMA SLOFacts ==
  \A s \in Indices :
    /\ SLOs[s].window \in Nat
    /\ Len(SLOs[s].rules) \in Nat
    /\ \A k \in Rules(s) : /\ k \in Nat
                           /\ SLOs[s].rules[k].window \in Nat
                           /\ SLOs[s].rules[k].severity \in {"ticket", "page"}
  <1> TAKE s \in Indices
  <1>1. SLOs[s] \in SLORecords
    BY TrackerAssumption DEF Indices
  <1>2. SLOs[s].window \in Nat /\ SLOs[s].rules \in Seq(BurnRateWindows)
    BY <1>1 DEF SLORecords
  <1>3. ASSUME NEW k \in Rules(s) PROVE k \in Nat /\ SLOs[s].rules[k] \in BurnRateWindows
    BY <1>2 DEF Rules
  <1> QED
    BY <1>2, <1>3 DEF BurnRateWindows

LEMMA UnsetIsOutcome == Unset \in Outcomes
BY TrackerAssumption DEF Unset

LEMMA GoodIsBoolean == \A s \in Indices, o \in Outcomes : IsGood(SLOs[s], o) \in BOOLEAN
BY TrackerAssumption DEF IsGood, Indices

LEMMA InitTypeOK == Init => TypeOK
  <1> SUFFICES ASSUME Init PROVE TypeOK
    OBVIOUS
  <1>1. WritersOK
    BY IndexFacts, UnsetIsOutcome, TrackerAssumption DEF Init, WritersOK, Events
  <1>2. ReadersOK
    BY IndexFacts DEF Init, ReadersOK, NoCount, NoStatus, Start, Places, Counts, Statuses, Severities
  <1>3. ASSUME NEW q \in Readers PROVE ScanFits(q)
    BY IndexFacts, SLOFacts DEF Init, ScanFits, NoCount, Start, NoStatus
  <1> QED
    BY <1>1, <1>2, <1>3 DEF TypeOK

LEMMA LogFacts ==
  ASSUME WritersOK
  PROVE  /\ clock \in Nat
         /\ \A s \in Indices : log[s] \in Seq(Events) /\ Len(log[s]) \in Nat /\ popped[s] \in Nat
  BY TrackerAssumption DEF WritersOK

\* The events a log holds stay where they are.
LogsGrow ==
  \A s \in Indices :
    /\ Len(log[s]) <= Len(log'[s])
    /\ \A i \in 1 .. Len(log[s]) : log'[s][i] = log[s][i]

\* A writer's step keeps what it owns in type, and no log gets shorter.
LEMMA WritersStep ==
  ASSUME WritersOK, NEW w \in Writers, Write(w)
  PROVE  /\ WritersOK'
         /\ LogsGrow
         /\ UNCHANGED <<clock, reading>>
  <1> USE LogFacts DEF LogsGrow, WritersOK, Goto, PopLeft
  <1>1. CASE Record(w)
    <2>1. /\ begun' \in 0 .. MaxRecords
          /\ pc' \in [Writers -> {"idle", "append", "trim", "look", "pop", "cap", "shrink"}]
          /\ at' \in [Writers -> Indices]
          /\ outcome' \in [Writers -> Outcomes]
      BY <1>1, IndexFacts, TrackerAssumption DEF Record
    <2>2. now' = [now EXCEPT ![w] = clock] /\ UNCHANGED <<clock, log, popped, reading>>
      BY <1>1 DEF Record
    <2>3. now' \in [Writers -> Nat] /\ \A v \in Writers : now'[v] <= clock'
      BY <2>2
    <2> QED
      BY <2>1, <2>2, <2>3
  <1>2. CASE AppendEvent(w)
    <2> DEFINE s == at[w]
               e == [time |-> now[w], good |-> IsGood(SLOs[s], outcome[w])]
    <2>1. s \in Indices /\ e \in Events
      BY GoodIsBoolean DEF Events
    <2>2. log' = [log EXCEPT ![s] = Append(@, e)]
      BY <1>2 DEF AppendEvent
    <2>3. log' \in [Indices -> Seq(Events)]
      BY <2>1, <2>2
    <2>4. ASSUME NEW t \in Indices
          PROVE  /\ Len(log[t]) <= Len(log'[t])
                 /\ \A i \in 1 .. Len(log[t]) : log'[t][i] = log[t][i]
      <3>1. CASE t = s
        BY <2>1, <2>2, <3>1
      <3>2. CASE t # s
        BY <2>1, <2>2, <3>2
      <3> QED
        BY <3>1, <3>2
    <2> QED
      BY <1>2, <2>3, <2>4 DEF AppendEvent
  <1>3. CASE TrimFirst(w)
    <2>1. popped' \in [Indices -> Nat]
      BY <1>3 DEF TrimFirst
    <2>2. pc' \in [Writers -> {"idle", "append", "trim", "look", "pop", "cap", "shrink"}]
      BY <1>3 DEF TrimFirst
    <2>3. UNCHANGED <<clock, begun, at, now, outcome, log, reading>>
      BY <1>3 DEF TrimFirst
    <2> QED
      BY <2>1, <2>2, <2>3
  <1>4. CASE TrimLook(w)
    BY <1>4 DEF TrimLook
  <1>5. CASE TrimPop(w)
    BY <1>5 DEF TrimPop
  <1>6. CASE CapLook(w)
    <2>1. /\ pc' \in [Writers -> {"idle", "append", "trim", "look", "pop", "cap", "shrink"}]
          /\ at' \in [Writers -> Indices]
      BY <1>6, IndexFacts DEF CapLook
    <2>2. outcome' \in [Writers -> Outcomes]
      BY <1>6, UnsetIsOutcome DEF CapLook
    <2>3. now' \in [Writers -> Nat] /\ \A v \in Writers : now'[v] <= clock
      <3>1. UNCHANGED now \/ now' = [now EXCEPT ![w] = 0]
        BY <1>6 DEF CapLook
      <3>2. CASE UNCHANGED now
        BY <3>2
      <3>3. CASE now' = [now EXCEPT ![w] = 0]
        BY <3>3
      <3> QED
        BY <3>1, <3>2, <3>3
    <2>4. UNCHANGED <<clock, begun, log, popped, reading>>
      BY <1>6 DEF CapLook
    <2> QED
      BY <2>1, <2>2, <2>3, <2>4
  <1>7. CASE CapPop(w)
    BY <1>7 DEF CapPop
  <1> QED
    BY <1>1, <1>2, <1>3, <1>4, <1>5, <1>6, <1>7 DEF Write

\* What a reader's own step needs to know of its locals.
LEMMA ScanFacts ==
  ASSUME TypeOK, NEW q \in Readers
  PROVE  /\ rpc \in [Readers -> {"idle", "open", "scan", "judge", "raised"}]
         /\ place \in [Readers -> Places] /\ count \in [Readers -> Counts]
         /\ report \in [Readers -> [Indices -> Statuses]]
         /\ place[q] \in Places /\ count[q] \in Counts
         /\ place[q].s \in Indices /\ place[q].k \in Nat /\ place[q].status \in Statuses
         /\ place[q].moment \in Nat
         /\ count[q].len \in Nat /\ count[q].popped \in Nat /\ count[q].left \in Int
         /\ count[q].total \in Nat /\ count[q].bad \in Nat
         /\ popped[place[q].s] \in Nat /\ Len(log[place[q].s]) \in Nat /\ clock \in Nat
         /\ Len(SLOs[place[q].s].rules) \in Nat
         /\ ScanFits(q)
  <1>1. WritersOK /\ ReadersOK /\ ScanFits(q)
    BY DEF TypeOK
  <1>2. place[q] \in Places /\ count[q] \in Counts
    BY <1>1 DEF ReadersOK
  <1>3. place[q].s \in Indices
    BY <1>2 DEF Places
  <1>4. /\ place[q].k \in Nat /\ place[q].status \in Statuses /\ place[q].moment \in Nat
        /\ count[q].len \in Nat /\ count[q].popped \in Nat /\ count[q].left \in Int
        /\ count[q].total \in Nat /\ count[q].bad \in Nat
    BY <1>2 DEF Places, Counts
  <1> QED
    BY <1>1, <1>2, <1>3, <1>4, LogFacts, SLOFacts DEF ReadersOK

\* A judgement keeps its types whatever the verdict.
LEMMA JudgedFacts ==
  ASSUME TypeOK, NEW q \in Readers, NEW fire \in Verdicts(q)
  PROVE  /\ Judged(place[q], fire) \in Statuses
         /\ Judged(place[q], fire).fired \subseteq Rules(place[q].s)
  <1> DEFINE v == place[q]
  <1>1. /\ v.s \in Indices /\ v.k \in Nat /\ v.status \in Statuses
        /\ v.status.fired \subseteq Rules(v.s) /\ v.k <= Len(SLOs[v.s].rules)
    BY ScanFacts DEF ScanFits
  <1>2. v.status.severity \in Severities /\ Rules(v.s) \subseteq Nat
    BY <1>1 DEF Statuses, Rules
  <1>3. CASE fire
    <2>1. v.k # 0
      BY <1>3 DEF Verdicts
    <2>2. v.k \in Rules(v.s)
      BY <1>1, <2>1, SLOFacts DEF Rules
    <2>3. Escalate(v.status.severity, SLOs[v.s].rules[v.k]) \in Severities
      BY <1>2 DEF Escalate, Severities
    <2> QED
      BY <1>1, <1>2, <1>3, <2>2, <2>3 DEF Judged, Statuses
  <1>4. CASE ~fire
    BY <1>1, <1>4 DEF Judged
  <1> QED
    BY <1>3, <1>4

LEMMA StartFacts ==
  ASSUME NEW s \in Indices, NEW t \in Nat
  PROVE  /\ Start(s, t) \in Places /\ Start(s, t).s = s /\ Start(s, t).moment = t
         /\ Start(s, t).k <= Len(SLOs[s].rules) /\ Start(s, t).status.fired \subseteq Rules(s)
  BY SLOFacts DEF Start, Places, NoStatus, Statuses, Severities

\* A reader's step keeps its own locals in type and its count exact.
LEMMA ReadersStep ==
  ASSUME TypeOK, NEW q \in Readers, Read(q)
  PROVE  /\ ReadersOK' /\ ScanFits(q)'
         /\ \A p \in Readers \ {q} : place'[p] = place[p] /\ count'[p] = count[p] /\ rpc'[p] = rpc[p]
         /\ UNCHANGED <<clock, writing>>
  <1> DEFINE v == place[q]
             c == count[q]
  <1> USE ScanFacts DEF RGoto
  <1>1. CASE Evaluate(q)
    <2>1. place' = [place EXCEPT ![q] = Start(1, clock)] /\ UNCHANGED <<clock, count, writing>>
      BY <1>1 DEF Evaluate
    <2>2. rpc' = [rpc EXCEPT ![q] = "open"]
      BY <1>1 DEF Evaluate
    <2>3. report' \in [Readers -> [Indices -> Statuses]]
      BY <1>1 DEF Evaluate, NoStatus, Statuses, Severities
    <2>4. 1 \in Indices
      BY IndexFacts
    <2> QED
      BY <2>1, <2>2, <2>3, <2>4, StartFacts DEF ReadersOK, ScanFits
  <1>2. CASE ScanOpen(q)
    <2> DEFINE x == [len |-> Len(log[v.s]), popped |-> popped[v.s], left |-> Size(v.s),
                     total |-> 0, bad |-> 0]
    <2>1. /\ count' = [count EXCEPT ![q] = x] /\ rpc' = [rpc EXCEPT ![q] = "scan"]
          /\ UNCHANGED <<clock, place, report, writing>>
      BY <1>2 DEF ScanOpen
    <2>2. /\ x \in Counts /\ x.len = Len(log[v.s]) /\ x.total = 0 /\ x.bad = 0
          /\ x.total + x.left = x.len - x.popped
      BY DEF Counts, Size
    <2> HIDE DEF x
    <2> QED
      BY <2>1, <2>2 DEF ReadersOK, ScanFits, writing
  <1>3. CASE ScanCount(q)
    <2> DEFINE d == IF NextEvent(q).good THEN 0 ELSE 1
               x == [len |-> c.len, popped |-> c.popped, left |-> c.left - 1,
                     total |-> c.total + 1, bad |-> c.bad + d]
    <2>1. /\ count' = [count EXCEPT ![q] = x] /\ rpc' = rpc /\ rpc[q] = "scan"
          /\ UNCHANGED <<clock, place, report, writing>>
      BY <1>3 DEF ScanCount
    <2>2. d \in {0, 1}
      OBVIOUS
    <2> HIDE DEF d
    <2>3. /\ x \in Counts /\ x.len = c.len /\ x.bad <= x.total
          /\ x.total + x.left = x.len - x.popped
      <3>1. /\ c.len \in Nat /\ c.popped \in Nat /\ c.left \in Int
            /\ c.total \in Nat /\ c.bad \in Nat
            /\ c.bad <= c.total /\ c.total + c.left = c.len - c.popped
        BY ScanFacts DEF ScanFits, Counts
      <3>2. /\ c.left - 1 \in Int /\ c.total + 1 \in Nat /\ c.bad + d \in Nat
            /\ c.bad + d <= c.total + 1 /\ c.total + 1 + (c.left - 1) = c.len - c.popped
        BY <2>2, <3>1
      <3> QED
        BY <3>1, <3>2 DEF Counts
    <2> HIDE DEF x
    <2> QED
      BY <2>1, <2>3 DEF ReadersOK, ScanFits, writing
  <1>4. CASE ScanEnd(q)
    BY <1>4 DEF ScanEnd, ReadersOK, ScanFits, writing
  <1>5. CASE ScanRaise(q)
    BY <1>5 DEF ScanRaise, ReadersOK, ScanFits, writing
  <1>6. CASE GiveUp(q)
    BY <1>6 DEF GiveUp, ReadersOK, ScanFits, writing
  <1>7. CASE NextWindow(q)
    <2>1. PICK fire \in Verdicts(q) :
            place' = [place EXCEPT ![q] =
              [s |-> v.s, k |-> v.k + 1, moment |-> v.moment, status |-> Judged(v, fire)]]
      BY <1>7 DEF NextWindow
    <2> DEFINE j == Judged(v, fire)
               x == [s |-> v.s, k |-> v.k + 1, moment |-> v.moment, status |-> j]
    <2>2. /\ UNCHANGED <<clock, count, report, writing>> /\ rpc' = [rpc EXCEPT ![q] = "open"]
          /\ v.k < Len(SLOs[v.s].rules)
      BY <1>7 DEF NextWindow
    <2>3. /\ x \in Places /\ x.s = v.s /\ x.k <= Len(SLOs[v.s].rules) /\ x.moment = v.moment
          /\ x.status.fired \subseteq Rules(v.s)
      <3>1. j \in Statuses /\ j.fired \subseteq Rules(v.s)
        BY JudgedFacts
      <3> HIDE DEF j
      <3> QED
        BY <2>2, <3>1 DEF Places
    <2> HIDE DEF x
    <2> QED
      BY <2>1, <2>2, <2>3 DEF ReadersOK, ScanFits, x
  <1>8. CASE Publish(q)
    <2>1. PICK fire \in Verdicts(q) : report' = [report EXCEPT ![q][v.s] = Judged(v, fire)]
      BY <1>8 DEF Publish
    <2>2. report' \in [Readers -> [Indices -> Statuses]]
      BY <2>1, JudgedFacts
    <2>3. PICK s \in Indices, t \in {0, clock} : place' = [place EXCEPT ![q] = Start(s, t)]
      BY <1>8, IndexFacts DEF Publish
    <2>4. /\ UNCHANGED <<clock, writing>> /\ count' = [count EXCEPT ![q] = NoCount]
      BY <1>8 DEF Publish
    <2>5. PICK to \in {"open", "idle"} : rpc' = [rpc EXCEPT ![q] = to]
      BY <1>8 DEF Publish
    <2>6. /\ NoCount \in Counts /\ NoCount.bad <= NoCount.total
          /\ NoCount.total + NoCount.left = NoCount.len - NoCount.popped
      BY DEF NoCount, Counts
    <2> QED
      BY <2>2, <2>3, <2>4, <2>5, <2>6, StartFacts DEF ReadersOK, ScanFits
  <1> QED
    BY <1>1, <1>2, <1>3, <1>4, <1>5, <1>6, <1>7, <1>8 DEF Read

LEMMA TypeStep == TypeOK /\ [Next]_vars => TypeOK'
  <1> SUFFICES ASSUME TypeOK, [Next]_vars PROVE TypeOK'
    OBVIOUS
  <1>1. CASE Tick
    <2>1. UNCHANGED <<writing, reading>> /\ clock \in Nat /\ clock' = clock + 1 /\ clock < MaxClock
      BY <1>1, LogFacts DEF Tick, TypeOK
    <2>2. WritersOK'
      BY <2>1, TrackerAssumption DEF TypeOK, WritersOK, writing
    <2>3. ReadersOK'
      BY <2>1 DEF TypeOK, ReadersOK, reading
    <2>4. ASSUME NEW q \in Readers PROVE ScanFits(q)'
      BY <2>1, ScanFacts DEF ScanFits, writing, reading
    <2> QED
      BY <2>2, <2>3, <2>4 DEF TypeOK
  <1>2. ASSUME NEW w \in Writers, Write(w) PROVE TypeOK'
    <2>1. WritersOK' /\ UNCHANGED <<clock, rpc, place, count, report>>
          /\ \A s \in Indices : Len(log[s]) <= Len(log'[s])
      BY <1>2, WritersStep DEF TypeOK, reading, LogsGrow
    <2>2. ReadersOK'
      BY <2>1 DEF TypeOK, ReadersOK
    <2>3. ASSUME NEW q \in Readers PROVE ScanFits(q)'
      <3>1. Len(log'[place[q].s]) \in Nat
        BY <2>1, ScanFacts DEF WritersOK
      <3>2. /\ place'[q] = place[q] /\ count'[q] = count[q] /\ rpc'[q] = rpc[q] /\ clock' = clock
            /\ Len(log[place[q].s]) <= Len(log'[place[q].s])
        BY <2>1, ScanFacts
      <3>3. rpc[q] \in {"scan", "judge"} => count[q].len <= Len(log'[place[q].s])
        <4>1. rpc[q] \in {"scan", "judge"} => count[q].len <= Len(log[place[q].s])
          BY ScanFacts DEF ScanFits
        <4>2. count[q].len \in Nat /\ Len(log[place[q].s]) \in Nat
          BY ScanFacts
        <4> QED
          BY <3>1, <3>2, <4>1, <4>2
      <3>4. ScanFits(q)
        BY ScanFacts
      <3> QED
        BY <3>2, <3>3, <3>4 DEF ScanFits
    <2> QED
      BY <2>1, <2>2, <2>3 DEF TypeOK
  <1>3. ASSUME NEW q \in Readers, Read(q) PROVE TypeOK'
    <2>1. /\ ReadersOK' /\ ScanFits(q)' /\ UNCHANGED <<clock, writing>>
          /\ \A p \in Readers \ {q} : place'[p] = place[p] /\ count'[p] = count[p] /\ rpc'[p] = rpc[p]
      BY <1>3, ReadersStep
    <2>2. WritersOK'
      BY <2>1 DEF TypeOK, WritersOK, writing
    <2>3. ASSUME NEW p \in Readers \ {q} PROVE ScanFits(p)'
      BY <2>1 DEF TypeOK, ScanFits, writing
    <2> QED
      BY <2>1, <2>2, <2>3 DEF TypeOK
  <1>4. CASE UNCHANGED vars
    BY <1>4 DEF vars, writing, reading, TypeOK, WritersOK, ReadersOK, ScanFits
  <1> QED
    BY <1>1, <1>2, <1>3, <1>4 DEF Next

(***************************************************************************)
(* The variables of SLOTracker keep their types; a scan has counted each    *)
(* event it has passed and no other (slo.py:152-162).                       *)
(***************************************************************************)
THEOREM TrackerTypeCorrect == Spec => []TypeOK
  BY InitTypeOK, TypeStep, PTL DEF Spec

-----------------------------------------------------------------------------
(* Memory *)

LEMMA WithinFinite ==
  ASSUME NEW s
  PROVE  IsFiniteSet(Within(s)) /\ Cardinality(Within(s)) \in Nat
  BY TrackerAssumption, FS_Subset, FS_CardinalityType DEF Within

\* A deque grows only with a thread that comes within, and a thread leaves
\* only once it has seen the deque at its cap.
LEMMA MemoryStep ==
  ASSUME TypeOK, MemoryBounded, NEW w \in Writers, Write(w), NEW s \in Indices
  PROVE  Size(s)' <= MaxEvents + Cardinality(Within(s)')
  <1> DEFINE C == Cardinality(Within(s))
  <1>0. /\ Len(log[s]) \in Nat /\ popped[s] \in Nat /\ MaxEvents \in Nat
        /\ Size(s) <= MaxEvents + C /\ C \in Nat
    BY LogFacts, TrackerAssumption, WithinFinite DEF TypeOK, MemoryBounded
  <1>a. pc \in [Writers -> {"idle", "append", "trim", "look", "pop", "cap", "shrink"}]
        /\ at \in [Writers -> Indices] /\ popped \in [Indices -> Nat]
        /\ log \in [Indices -> Seq(Events)]
    BY DEF TypeOK, WritersOK
  <1> USE <1>0, <1>a DEF Goto, PopLeft
  <1>1. CASE Within(s)' = Within(s) /\ log'[s] = log[s] /\ popped'[s] >= popped[s]
                                    /\ popped'[s] \in Nat
    BY <1>1 DEF Size
  <1>2. CASE Record(w)
    <2>1. Within(s)' = Within(s) /\ UNCHANGED <<log, popped>>
      BY <1>2 DEF Record, Within
    <2> QED
      BY <1>1, <2>1
  <1>3. CASE AppendEvent(w)
    <2> DEFINE e == [time |-> now[w], good |-> IsGood(SLOs[at[w]], outcome[w])]
    <2>1. pc[w] = "append" /\ pc' = [pc EXCEPT ![w] = "trim"] /\ UNCHANGED <<at, popped>>
          /\ log' = [log EXCEPT ![at[w]] = Append(@, e)]
      BY <1>3 DEF AppendEvent
    <2>2. CASE at[w] = s
      <3>1. Within(s)' = Within(s) \cup {w} /\ w \notin Within(s)
        BY <2>1, <2>2 DEF Within
      <3>2. Cardinality(Within(s)') = C + 1
        BY <3>1, WithinFinite, FS_AddElement
      <3>3. Len(log'[s]) = Len(log[s]) + 1
        BY <2>1, <2>2
      <3> QED
        BY <2>1, <3>2, <3>3 DEF Size
    <2>3. CASE at[w] # s
      <3>1. Within(s)' = Within(s) /\ log'[s] = log[s] /\ popped'[s] = popped[s]
        BY <2>1, <2>3 DEF Within
      <3> QED
        BY <1>1, <3>1
    <2> QED
      BY <2>2, <2>3
  <1>4. CASE TrimFirst(w) \/ TrimLook(w) \/ TrimPop(w) \/ CapPop(w)
    <2>1. Within(s)' = Within(s)
      BY <1>4 DEF TrimFirst, TrimLook, TrimPop, CapPop, Within
    <2>2. UNCHANGED log /\ popped'[s] >= popped[s] /\ popped'[s] \in Nat
      BY <1>4 DEF TrimFirst, TrimLook, TrimPop, CapPop
    <2> QED
      BY <1>1, <2>1, <2>2
  <1>5. CASE CapLook(w)
    <2>1. UNCHANGED <<log, popped>>
      BY <1>5 DEF CapLook
    <2>2. CASE at[w] = s /\ ~OverCap(at[w])
      <3>1. Size(s)' <= MaxEvents
        BY <2>1, <2>2 DEF OverCap, Size
      <3>2. Cardinality(Within(s)') \in Nat
        <4>1. IsFiniteSet(Within(s)')
          BY TrackerAssumption, FS_Subset DEF Within
        <4> QED
          BY <4>1, FS_CardinalityType
      <3>3. Size(s)' \in Int
        BY <2>1 DEF Size
      <3> QED
        BY <3>1, <3>2, <3>3
    <2>3. CASE ~(at[w] = s /\ ~OverCap(at[w]))
      <3>1. Within(s)' = Within(s)
        BY <1>5, <2>3 DEF CapLook, Within
      <3> QED
        BY <1>1, <2>1, <3>1
    <2> QED
      BY <2>2, <2>3
  <1> QED
    BY <1>2, <1>3, <1>4, <1>5 DEF Write

(***************************************************************************)
(* However many threads record at once, a deque exceeds max_events by no    *)
(* more than the number of threads whose trim of it is under way            *)
(* (slo.py:149).                                                            *)
(***************************************************************************)
THEOREM MemoryIsBounded == Spec => []MemoryBounded
  <1>1. Init => MemoryBounded
    <2> SUFFICES ASSUME Init, NEW s \in Indices
                 PROVE  Size(s) <= MaxEvents + Cardinality(Within(s))
      BY DEF MemoryBounded
    <2>1. Size(s) = 0
      BY DEF Init, Size
    <2> QED
      BY <2>1, WithinFinite, TrackerAssumption
  <1>2. TypeOK /\ MemoryBounded /\ [Next]_vars => MemoryBounded'
    <2> SUFFICES ASSUME TypeOK, MemoryBounded, [Next]_vars PROVE MemoryBounded'
      OBVIOUS
    <2>1. ASSUME NEW w \in Writers, Write(w) PROVE MemoryBounded'
      BY <2>1, MemoryStep DEF MemoryBounded
    <2>2. ASSUME UNCHANGED writing PROVE MemoryBounded'
      BY <2>2 DEF MemoryBounded, writing, Size, Within
    <2>3. ASSUME NEW q \in Readers, Read(q) PROVE UNCHANGED writing
      BY <2>3, ReadersStep
    <2>4. Tick \/ UNCHANGED vars => UNCHANGED writing
      BY DEF Tick, vars
    <2> QED
      BY <2>1, <2>2, <2>3, <2>4 DEF Next
  <1> QED
    BY <1>1, <1>2, TrackerTypeCorrect, PTL DEF Spec

-----------------------------------------------------------------------------
(* Over-trimming *)

LEMMA PoppingFinite ==
  ASSUME NEW s
  PROVE  IsFiniteSet(Popping(s)) /\ Cardinality(Popping(s)) \in Nat
  BY TrackerAssumption, FS_Subset, FS_CardinalityType DEF Popping

\* What is gone from a deque, or about to go.
Gone(s) == popped[s] + Cardinality(Popping(s))

\* A writer outside Popping(s) leaves room for itself among the writers.
LEMMA RoomForOneMore ==
  ASSUME NEW w \in Writers, NEW s, w \notin Popping(s)
  PROVE  Cardinality(Popping(s)) < Cardinality(Writers)
  <1>1. Popping(s) \subseteq Writers \ {w} /\ IsFiniteSet(Writers \ {w})
    BY TrackerAssumption, FS_RemoveElement DEF Popping
  <1>2. Cardinality(Popping(s)) <= Cardinality(Writers \ {w})
    BY <1>1, FS_Subset
  <1>3. Cardinality(Writers \ {w}) = Cardinality(Writers) - 1 /\ Cardinality(Writers) \in Nat
    BY TrackerAssumption, FS_RemoveElement, FS_CardinalityType
  <1> QED
    BY <1>2, <1>3, PoppingFinite

\* An event that had to go still has to.
LEMMA JustifiedStays ==
  ASSUME WritersOK, WritersOK', LogsGrow, clock <= clock',
         NEW s \in Indices, NEW i \in 1 .. Len(log[s]), Justified(s, i)
  PROVE  i \in 1 .. Len(log'[s]) /\ Justified(s, i)'
  <1>0. /\ log[s] \in Seq(Events) /\ log'[s] \in Seq(Events)
        /\ clock \in Nat /\ clock' \in Nat
    BY TrackerAssumption DEF WritersOK
  <1>1. /\ Len(log[s]) \in Nat /\ Len(log'[s]) \in Nat /\ Len(log[s]) <= Len(log'[s])
        /\ log[s][i] \in Events /\ log'[s][i] = log[s][i]
        /\ clock \in Nat /\ clock' \in Nat
    BY <1>0 DEF LogsGrow
  <1>2. log[s][i].time \in Nat /\ SLOs[s].window \in Nat /\ MaxEvents \in Nat
    BY <1>1, SLOFacts, TrackerAssumption DEF Events
  <1> QED
    BY <1>1, <1>2 DEF Justified

\* A head that a writer finds stale, or over the cap, is justified.
LEMMA HeadJustified ==
  ASSUME WritersOK, NEW w \in Writers, NEW s \in Indices, HeadIsStale(w, s) \/ OverCap(s)
  PROVE  popped[s] + 1 \in 1 .. Len(log[s]) /\ Justified(s, popped[s] + 1)
  <1>1. Len(log[s]) \in Nat /\ popped[s] \in Nat /\ MaxEvents \in Nat
    BY LogFacts, TrackerAssumption
  <1>2. CASE OverCap(s)
    BY <1>1, <1>2 DEF OverCap, Size, Justified
  <1>3. CASE HeadIsStale(w, s)
    <2>1. popped[s] + 1 \in 1 .. Len(log[s])
      BY <1>1, <1>3 DEF HeadIsStale, Size
    <2>2. log[s][popped[s] + 1] \in Events
      BY <2>1 DEF WritersOK
    <2>3. /\ log[s][popped[s] + 1].time \in Nat /\ SLOs[s].window \in Nat
          /\ now[w] \in Nat /\ clock \in Nat /\ now[w] <= clock
      BY <2>2, SLOFacts, LogFacts DEF Events, WritersOK
    <2> QED
      BY <1>3, <2>1, <2>3 DEF HeadIsStale, Justified
  <1> QED
    BY <1>2, <1>3

\* A writer's step leaves Gone(s) as it is, or adds one event that has to go
\* for a writer that was not yet popping.
LEMMA GoneStep ==
  ASSUME WritersOK, NEW w \in Writers, Write(w), NEW s \in Indices
  PROVE  \/ Gone(s)' = Gone(s)
         \/ /\ Gone(s)' = Gone(s) + 1
            /\ w \notin Popping(s)
            /\ HeadIsStale(w, s) \/ OverCap(s)
  <1> DEFINE C == Cardinality(Popping(s))
  <1>0. /\ pc \in [Writers -> {"idle", "append", "trim", "look", "pop", "cap", "shrink"}]
        /\ at \in [Writers -> Indices] /\ popped \in [Indices -> Nat]
        /\ C \in Nat
    BY PoppingFinite DEF WritersOK
  <1> USE <1>0 DEF Goto, PopLeft
  <1>1. CASE Popping(s)' = Popping(s) /\ popped'[s] = popped[s]
    BY <1>1 DEF Gone
  <1>2. CASE Popping(s)' = Popping(s) \cup {w} /\ w \notin Popping(s) /\ popped'[s] = popped[s]
             /\ (HeadIsStale(w, s) \/ OverCap(s))
    <2>1. Cardinality(Popping(s)') = C + 1
      BY <1>2, PoppingFinite, FS_AddElement
    <2> QED
      BY <1>2, <2>1 DEF Gone
  <1>3. CASE Popping(s)' = Popping(s) \ {w} /\ w \in Popping(s) /\ popped'[s] = popped[s] + 1
    <2>1. Cardinality(Popping(s)') = C - 1
      BY <1>3, PoppingFinite, FS_RemoveElement
    <2> QED
      BY <1>3, <2>1 DEF Gone
  <1>4. CASE Record(w)
    <2>1. Popping(s)' = Popping(s) /\ UNCHANGED popped
      BY <1>4 DEF Record, Popping
    <2> QED
      BY <1>1, <2>1
  <1>5. CASE AppendEvent(w)
    <2>1. Popping(s)' = Popping(s) /\ UNCHANGED popped
      BY <1>5 DEF AppendEvent, Popping
    <2> QED
      BY <1>1, <2>1
  <1>6. CASE TrimFirst(w)
    <2>1. Popping(s)' = Popping(s) /\ w \notin Popping(s)
      BY <1>6 DEF TrimFirst, Popping
    <2>2. CASE HeadIsStale(w, at[w]) /\ at[w] = s
      <3>1. popped'[s] = popped[s] + 1
        BY <1>6, <2>2 DEF TrimFirst
      <3> QED
        BY <2>1, <2>2, <3>1 DEF Gone
    <2>3. CASE ~(HeadIsStale(w, at[w]) /\ at[w] = s)
      <3>1. popped'[s] = popped[s]
        BY <1>6, <2>3 DEF TrimFirst
      <3> QED
        BY <1>1, <2>1, <3>1
    <2> QED
      BY <2>2, <2>3
  <1>7. CASE TrimLook(w)
    <2>1. UNCHANGED <<at, popped>> /\ pc[w] = "look"
          /\ pc' = [pc EXCEPT ![w] = IF HeadIsStale(w, at[w]) THEN "pop" ELSE "cap"]
      BY <1>7 DEF TrimLook
    <2>2. CASE HeadIsStale(w, at[w]) /\ at[w] = s
      <3>1. Popping(s)' = Popping(s) \cup {w} /\ w \notin Popping(s)
        BY <2>1, <2>2 DEF Popping
      <3> QED
        BY <1>2, <2>1, <2>2, <3>1
    <2>3. CASE ~(HeadIsStale(w, at[w]) /\ at[w] = s)
      <3>1. Popping(s)' = Popping(s)
        BY <2>1, <2>3 DEF Popping
      <3> QED
        BY <1>1, <2>1, <3>1
    <2> QED
      BY <2>2, <2>3
  <1>8. CASE TrimPop(w) \/ CapPop(w)
    <2>1. /\ pc[w] \in {"pop", "shrink"} /\ UNCHANGED at
          /\ \E to \in {"look", "cap"} : pc' = [pc EXCEPT ![w] = to]
          /\ popped' = [popped EXCEPT ![at[w]] = @ + 1]
      BY <1>8 DEF TrimPop, CapPop
    <2>2. CASE at[w] = s
      <3>1. Popping(s)' = Popping(s) \ {w} /\ w \in Popping(s) /\ popped'[s] = popped[s] + 1
        BY <2>1, <2>2 DEF Popping
      <3> QED
        BY <1>3, <3>1
    <2>3. CASE at[w] # s
      <3>1. Popping(s)' = Popping(s) /\ popped'[s] = popped[s]
        BY <2>1, <2>3 DEF Popping
      <3> QED
        BY <1>1, <3>1
    <2> QED
      BY <2>2, <2>3
  <1>9. CASE CapLook(w)
    <2>1. UNCHANGED popped /\ pc[w] = "cap"
      BY <1>9 DEF CapLook
    <2>2. CASE OverCap(at[w]) /\ at[w] = s
      <3>1. pc' = [pc EXCEPT ![w] = "shrink"] /\ UNCHANGED at
        BY <1>9, <2>2 DEF CapLook
      <3>2. Popping(s)' = Popping(s) \cup {w} /\ w \notin Popping(s)
        BY <2>1, <2>2, <3>1 DEF Popping
      <3> QED
        BY <1>2, <2>1, <2>2, <3>2
    <2>3. CASE ~(OverCap(at[w]) /\ at[w] = s)
      <3>1. Popping(s)' = Popping(s)
        BY <1>9, <2>1, <2>3 DEF CapLook, Popping
      <3> QED
        BY <1>1, <2>1, <3>1
    <2> QED
      BY <2>2, <2>3
  <1> QED
    BY <1>4, <1>5, <1>6, <1>7, <1>8, <1>9 DEF Write

(***************************************************************************)
(* The race in _trim (slo.py:147-150) costs at most one event for each      *)
(* other thread: what has gone, or is about to, reaches less than |Writers| *)
(* past an event that had to go.                                            *)
(***************************************************************************)
THEOREM OverTrimIsBounded == Spec => []OverTrimBounded
  <1>1. Init => OverTrimBounded
    <2> SUFFICES ASSUME Init, NEW s \in Indices PROVE ~(Gone(s) > 0)
      BY DEF OverTrimBounded, Gone
    <2>1. Popping(s) = {} /\ popped[s] = 0
      BY DEF Init, Popping
    <2> QED
      BY <2>1, FS_EmptySet DEF Gone
  <1>2. TypeOK /\ TypeOK' /\ OverTrimBounded /\ [Next]_vars => OverTrimBounded'
    <2> SUFFICES ASSUME TypeOK, TypeOK', OverTrimBounded, [Next]_vars, NEW s \in Indices,
                        Gone(s)' > 0
                 PROVE  \E i \in 1 .. Len(log'[s]) :
                          Gone(s)' < i + Cardinality(Writers) /\ Justified(s, i)'
      BY DEF OverTrimBounded, Gone
    <2>0. WritersOK /\ WritersOK'
      BY DEF TypeOK
    <2>1. Gone(s) > 0 =>
            \E i \in 1 .. Len(log[s]) : Gone(s) < i + Cardinality(Writers) /\ Justified(s, i)
      BY DEF OverTrimBounded, Gone
    <2>2. ASSUME Gone(s)' = Gone(s), LogsGrow, clock <= clock'
          PROVE  \E i \in 1 .. Len(log'[s]) :
                   Gone(s)' < i + Cardinality(Writers) /\ Justified(s, i)'
      <3>1. PICK i \in 1 .. Len(log[s]) : Gone(s) < i + Cardinality(Writers) /\ Justified(s, i)
        BY <2>1, <2>2
      <3>2. i \in 1 .. Len(log'[s]) /\ Justified(s, i)'
        BY <2>0, <2>2, <3>1, JustifiedStays
      <3> QED
        BY <2>2, <3>1, <3>2
    <2>3. ASSUME UNCHANGED writing, clock <= clock'
          PROVE  Gone(s)' = Gone(s) /\ LogsGrow
      <3>1. Gone(s)' = Gone(s)
        BY <2>3 DEF writing, Gone, Popping
      <3>2. LogsGrow
        BY <2>0, <2>3, LogFacts DEF writing, LogsGrow
      <3> QED
        BY <3>1, <3>2
    <2>4. ASSUME NEW w \in Writers, Write(w)
          PROVE  \E i \in 1 .. Len(log'[s]) :
                   Gone(s)' < i + Cardinality(Writers) /\ Justified(s, i)'
      <3>1. LogsGrow /\ clock' = clock /\ clock \in Nat
        BY <2>0, <2>4, WritersStep, LogFacts
      <3>2. CASE Gone(s)' = Gone(s)
        BY <2>2, <3>1, <3>2
      <3>3. CASE /\ Gone(s)' = Gone(s) + 1
                 /\ w \notin Popping(s)
                 /\ HeadIsStale(w, s) \/ OverCap(s)
        <4>1. PICK i \in 1 .. Len(log[s]) : i = popped[s] + 1 /\ Justified(s, i)
          BY <2>0, <3>3, HeadJustified
        <4>2. Gone(s)' < i + Cardinality(Writers)
          <5>1. popped[s] \in Nat /\ Cardinality(Writers) \in Nat
            BY <2>0, LogFacts, TrackerAssumption, FS_CardinalityType
          <5> QED
            BY <3>3, <4>1, <5>1, RoomForOneMore, PoppingFinite DEF Gone
        <4>3. i \in 1 .. Len(log'[s]) /\ Justified(s, i)'
          BY <2>0, <3>1, <4>1, JustifiedStays
        <4> QED
          BY <4>2, <4>3
      <3> QED
        BY <2>0, <2>4, <3>2, <3>3, GoneStep
    <2>5. ASSUME NEW q \in Readers, Read(q) PROVE UNCHANGED <<clock, writing>>
      BY <2>5, ReadersStep
    <2>6. clock \in Nat /\ clock' \in Nat
      BY <2>0, TrackerAssumption DEF WritersOK
    <2>7. CASE Tick
      BY <2>2, <2>3, <2>6, <2>7 DEF Tick
    <2>8. CASE UNCHANGED vars
      BY <2>2, <2>3, <2>6, <2>8 DEF vars
    <2>9. ASSUME NEW q \in Readers, Read(q)
          PROVE  \E i \in 1 .. Len(log'[s]) :
                   Gone(s)' < i + Cardinality(Writers) /\ Justified(s, i)'
      BY <2>2, <2>3, <2>5, <2>6, <2>9
    <2> QED
      BY <2>4, <2>7, <2>8, <2>9 DEF Next
  <1> QED
    BY <1>1, <1>2, TrackerTypeCorrect, PTL DEF Spec

-----------------------------------------------------------------------------
(* Error rates *)

\* The events a scan has passed are the newest ones, all inside the window,
\* and it has counted each of them once.
Passed(q) == count[q].popped + count[q].left + 1 .. count[q].len

ScanCounts(q) ==
  rpc[q] \in {"scan", "judge"} =>
    /\ \A j \in Passed(q) : InWindow(q, log[place[q].s][j])
    /\ count[q].total = Cardinality(Passed(q))
    /\ count[q].bad = Cardinality({j \in Passed(q) : ~log[place[q].s][j].good})

\* A scan that has ended had nothing left, or the next event is too old.
ScanStops(q) ==
  /\ rpc[q] = "judge" /\ count[q].left > 0 => ~InWindow(q, NextEvent(q))
  /\ count[q].left < 0 => count[q].total = 0

RateInv == \A q \in Readers : ScanCounts(q) /\ ScanStops(q)

\* What has been passed is in the log, and so is the event that comes next.
LEMMA PassedFacts ==
  ASSUME TypeOK, NEW q \in Readers, rpc[q] \in {"scan", "judge"}, ScanStops(q)
  PROVE  /\ Passed(q) \subseteq 1 .. Len(log[place[q].s])
         /\ IsFiniteSet(Passed(q))
         /\ count[q].left > 0 => count[q].popped + count[q].left \in 1 .. Len(log[place[q].s])
  <1> DEFINE c == count[q]
  <1>1. /\ c.len \in Nat /\ c.popped \in Nat /\ c.left \in Int /\ c.total \in Nat
        /\ c.total + c.left = c.len - c.popped
        /\ Len(log[place[q].s]) \in Nat /\ c.len <= Len(log[place[q].s])
        /\ c.left < 0 => c.total = 0
    BY ScanFacts DEF ScanFits, ScanStops
  <1>2. IsFiniteSet(Passed(q))
    <2>1. c.popped + c.left + 1 \in Int /\ c.len \in Int
      BY <1>1
    <2>2. IsFiniteSet(c.popped + c.left + 1 .. c.len)
      BY <2>1, FS_Interval
    <2> QED
      BY <2>2 DEF Passed
  <1> HIDE DEF c
  <1>3. Passed(q) \subseteq 1 .. Len(log[place[q].s])
    <2>1. c.popped + c.left + 1 >= 1 \/ c.popped + c.left + 1 > c.len
      <3>1. CASE c.left >= 0
        BY <1>1, <3>1
      <3>2. CASE c.left < 0
        BY <1>1, <3>2
      <3> QED
        BY <1>1, <3>1, <3>2
    <2>2. c.popped + c.left + 1 .. c.len \subseteq 1 .. Len(log[place[q].s])
      BY <1>1, <2>1
    <2>3. Passed(q) = c.popped + c.left + 1 .. c.len
      BY Zenon DEF Passed, c
    <2> QED
      BY <2>2, <2>3, Zenon
  <1>4. c.left > 0 => c.popped + c.left \in 1 .. Len(log[place[q].s])
    BY <1>1
  <1> QED
    BY <1>2, <1>3, <1>4 DEF c

\* A count that holds survives whatever leaves the reader and its log alone.
LEMMA RateKept ==
  ASSUME TypeOK, RateInv, LogsGrow, NEW q \in Readers,
         place'[q] = place[q], count'[q] = count[q], rpc'[q] = rpc[q]
  PROVE  ScanCounts(q)' /\ ScanStops(q)'
  <1> DEFINE s == place[q].s
  <1>1. ScanCounts(q) /\ ScanStops(q) /\ s \in Indices
    BY ScanFacts DEF RateInv
  <1>2. CASE rpc[q] \in {"scan", "judge"}
    <2>1. /\ Passed(q) \subseteq 1 .. Len(log[s]) /\ Passed(q)' = Passed(q)
          /\ count[q].left > 0 => count[q].popped + count[q].left \in 1 .. Len(log[s])
      BY <1>1, <1>2, PassedFacts DEF Passed
    <2>2. \A j \in Passed(q) : log'[s][j] = log[s][j]
      BY <1>1, <2>1 DEF LogsGrow
    <2>3. \A j \in Passed(q) : InWindow(q, log[s][j])' <=> InWindow(q, log[s][j])
      BY <2>2 DEF InWindow
    <2>4. {j \in Passed(q) : ~log'[s][j].good} = {j \in Passed(q) : ~log[s][j].good}
      BY <2>2
    <2>5. ScanCounts(q)'
      BY <1>1, <1>2, <2>1, <2>3, <2>4 DEF ScanCounts
    <2>6. count[q].left > 0 => NextEvent(q)' = NextEvent(q)
      BY <1>1, <2>1 DEF NextEvent, LogsGrow
    <2>7. ScanStops(q)'
      BY <1>1, <2>6 DEF ScanStops, InWindow
    <2> QED
      BY <2>5, <2>7
  <1>3. CASE rpc[q] \notin {"scan", "judge"}
    BY <1>1, <1>3 DEF ScanCounts, ScanStops
  <1> QED
    BY <1>2, <1>3

\* One more event inside the window joins those the scan has passed.
LEMMA RateCount ==
  ASSUME TypeOK, RateInv, NEW q \in Readers, ScanCount(q)
  PROVE  ScanCounts(q)' /\ ScanStops(q)'
  <1> DEFINE c == count[q]
             s == place[q].s
             k == c.popped + c.left
             d == IF NextEvent(q).good THEN 0 ELSE 1
             x == [len |-> c.len, popped |-> c.popped, left |-> c.left - 1,
                   total |-> c.total + 1, bad |-> c.bad + d]
             B == {j \in Passed(q) : ~log[s][j].good}
  <1>1. /\ c.left > 0 /\ InWindow(q, NextEvent(q)) /\ rpc[q] = "scan" /\ rpc' = rpc
        /\ count' = [count EXCEPT ![q] = x] /\ UNCHANGED <<clock, place, report, writing>>
    BY ScanFacts DEF ScanCount, RGoto
  <1>2. /\ ScanCounts(q) /\ ScanStops(q) /\ c.len \in Nat /\ c.popped \in Nat /\ c.left \in Int
        /\ c.total \in Nat /\ c.bad \in Nat /\ c.total + c.left = c.len - c.popped
        /\ count \in [Readers -> Counts]
    BY ScanFacts DEF RateInv, ScanFits
  <1>3. count'[q] = x
    BY <1>1, <1>2
  <1>4. Passed(q)' = Passed(q) \cup {k} /\ k \notin Passed(q)
    <2>1. Passed(q)' = k .. c.len /\ Passed(q) = k + 1 .. c.len
      <3>1. c.popped + (c.left - 1) + 1 = k
        BY <1>2
      <3> QED
        BY <1>3, <3>1 DEF Passed
    <2>2. k <= c.len /\ k \in Int
      BY <1>2
    <2> HIDE DEF k
    <2> QED
      BY <1>2, <2>1, <2>2
  <1>5. IsFiniteSet(Passed(q))
    BY <1>1, <1>2, PassedFacts
  <1>6. Cardinality(Passed(q)') = c.total + 1
    <2>1. Cardinality(Passed(q) \cup {k}) = Cardinality(Passed(q)) + 1
      BY <1>4, <1>5, FS_AddElement
    <2> QED
      BY <1>1, <1>2, <1>4, <2>1 DEF ScanCounts
  <1>7. NextEvent(q) = log[s][k] /\ log' = log
    BY <1>1 DEF NextEvent, writing
  <1>8. Cardinality({j \in Passed(q)' : ~log'[s][j].good}) = c.bad + d
    <2>1. IsFiniteSet(B) /\ Cardinality(B) = c.bad
      BY <1>1, <1>2, <1>5, FS_Subset DEF ScanCounts
    <2>2. CASE NextEvent(q).good
      <3>1. {j \in Passed(q)' : ~log'[s][j].good} = B
        BY <1>4, <1>7, <2>2
      <3>2. c.bad + d = c.bad
        BY <1>2, <2>2
      <3> QED
        BY <2>1, <3>1, <3>2
    <2>3. CASE ~NextEvent(q).good
      <3>1. {j \in Passed(q)' : ~log'[s][j].good} = B \cup {k} /\ k \notin B
        BY <1>4, <1>7, <2>3
      <3>2. Cardinality(B \cup {k}) = c.bad + 1
        <4> HIDE DEF B, k
        <4> QED
          BY <2>1, <3>1, FS_AddElement
      <3> QED
        BY <2>3, <3>1, <3>2
    <2> QED
      BY <2>2, <2>3
  <1>9. \A j \in Passed(q)' : InWindow(q, log[s][j])'
    BY <1>1, <1>2, <1>4, <1>7 DEF InWindow, ScanCounts
  <1>10. ScanCounts(q)'
    <2>1. x.total = c.total + 1 /\ x.bad = c.bad + d
      OBVIOUS
    <2> HIDE DEF x, d, B
    <2> QED
      BY <1>1, <1>3, <1>6, <1>7, <1>8, <1>9, <2>1 DEF ScanCounts
  <1>11. ScanStops(q)'
    BY <1>1, <1>2, <1>3 DEF ScanStops
  <1> QED
    BY <1>10, <1>11

LEMMA RateOpen ==
  ASSUME TypeOK, NEW q \in Readers, ScanOpen(q)
  PROVE  ScanCounts(q)' /\ ScanStops(q)'
  <1> DEFINE s == place[q].s
             x == [len |-> Len(log[s]), popped |-> popped[s], left |-> Size(s), total |-> 0, bad |-> 0]
  <1>1. /\ count' = [count EXCEPT ![q] = x] /\ rpc' = [rpc EXCEPT ![q] = "scan"]
        /\ Len(log[s]) \in Nat /\ popped[s] \in Nat /\ count \in [Readers -> Counts]
        /\ rpc \in [Readers -> {"idle", "open", "scan", "judge", "raised"}]
    BY ScanFacts DEF ScanOpen, RGoto
  <1>2. count'[q] = x /\ rpc'[q] = "scan"
    BY <1>1
  <1>3. Passed(q)' = {}
    BY <1>1, <1>2 DEF Passed, Size
  <1>4. Cardinality({}) = 0
    BY FS_EmptySet
  <1>5. {j \in Passed(q)' : ~log'[place'[q].s][j].good} = {}
    BY <1>3
  <1> QED
    BY <1>2, <1>3, <1>4, <1>5 DEF ScanCounts, ScanStops

LEMMA RateStep == TypeOK /\ RateInv /\ [Next]_vars => RateInv'
  <1> SUFFICES ASSUME TypeOK, RateInv, [Next]_vars, NEW q \in Readers
               PROVE  ScanCounts(q)' /\ ScanStops(q)'
    BY DEF RateInv
  <1>1. UNCHANGED log => LogsGrow
    BY LogFacts DEF TypeOK, LogsGrow
  <1>2. ASSUME NEW w \in Writers, Write(w) PROVE ScanCounts(q)' /\ ScanStops(q)'
    BY <1>2, WritersStep, RateKept DEF TypeOK, reading
  <1>3. CASE Tick \/ UNCHANGED vars
    BY <1>1, <1>3, RateKept DEF Tick, vars, reading, writing
  <1>4. ASSUME NEW p \in Readers, Read(p) PROVE ScanCounts(q)' /\ ScanStops(q)'
    <2>1. CASE p # q
      <3>1. place'[q] = place[q] /\ count'[q] = count[q] /\ rpc'[q] = rpc[q] /\ UNCHANGED log
        BY <1>4, <2>1, ReadersStep DEF writing
      <3> QED
        BY <1>1, <3>1, RateKept
    <2>2. CASE p = q
      <3>0. /\ rpc \in [Readers -> {"idle", "open", "scan", "judge", "raised"}]
            /\ count \in [Readers -> Counts] /\ ScanCounts(q) /\ ScanStops(q)
        BY ScanFacts DEF RateInv
      <3>1. CASE ScanOpen(q)
        BY <3>1, RateOpen
      <3>2. CASE ScanCount(q)
        BY <3>2, RateCount
      <3>3. CASE ScanEnd(q)
        <4>1. rpc[q] = "scan" /\ UNCHANGED <<place, count, log>>
              /\ (count[q].left > 0 => ~InWindow(q, NextEvent(q)))
          BY <3>3 DEF ScanEnd, RGoto, writing
        <4> QED
          BY <3>0, <4>1 DEF ScanCounts, ScanStops, Passed, InWindow, NextEvent
      <3>4. CASE Evaluate(q) \/ ScanRaise(q) \/ GiveUp(q) \/ NextWindow(q)
        <4>1. rpc'[q] \notin {"scan", "judge"} /\ UNCHANGED count
          BY <3>0, <3>4 DEF Evaluate, ScanRaise, GiveUp, NextWindow, RGoto
        <4> QED
          BY <3>0, <4>1 DEF ScanCounts, ScanStops
      <3>5. CASE Publish(q)
        <4>1. rpc'[q] \notin {"scan", "judge"} /\ count'[q] = NoCount
          BY <3>0, <3>5 DEF Publish, RGoto
        <4> QED
          BY <4>1 DEF ScanCounts, ScanStops, NoCount
      <3> QED
        BY <1>4, <2>2, <3>1, <3>2, <3>3, <3>4, <3>5 DEF Read
    <2> QED
      BY <2>1, <2>2
  <1> QED
    BY <1>2, <1>3, <1>4 DEF Next

\* The events passed are the newest run inside the window.
LEMMA PassedIsTheRun ==
  ASSUME TypeOK, RateInv, NEW q \in Readers, rpc[q] = "judge"
  PROVE  Passed(q) = {i \in count[q].popped + 1 .. count[q].len :
                        \A j \in i .. count[q].len : InWindow(q, log[place[q].s][j])}
  <1> DEFINE c == count[q]
             In(j) == InWindow(q, log[place[q].s][j])
  <1>1. /\ c.len \in Nat /\ c.popped \in Nat /\ c.left \in Int /\ c.total \in Nat
        /\ c.total + c.left = c.len - c.popped
        /\ c.left < 0 => c.total = 0
        /\ c.left > 0 => ~In(c.popped + c.left)
        /\ \A j \in Passed(q) : In(j)
        /\ Passed(q) = c.popped + c.left + 1 .. c.len
    BY ScanFacts DEF ScanFits, RateInv, ScanStops, ScanCounts, NextEvent, Passed
  <1> HIDE DEF c, In
  <1>2. ASSUME NEW i \in Passed(q)
        PROVE  i \in c.popped + 1 .. c.len /\ \A j \in i .. c.len : In(j)
    <2>1. i \in c.popped + c.left + 1 .. c.len
      BY <1>1
    <2>2. c.left >= 0
      BY <1>1, <2>1
    <2>3. ASSUME NEW j \in i .. c.len PROVE j \in Passed(q)
      BY <1>1, <2>1
    <2> QED
      BY <1>1, <2>1, <2>2, <2>3
  <1>3. ASSUME NEW i \in c.popped + 1 .. c.len, \A j \in i .. c.len : In(j)
        PROVE  i \in Passed(q)
    BY <1>1, <1>3
  <1>4. Passed(q) = {i \in c.popped + 1 .. c.len : \A j \in i .. c.len : In(j)}
    BY <1>2, <1>3
  <1> QED
    BY <1>4 DEF c, In

(***************************************************************************)
(* An error rate is never a mixture of two moments (slo.py:152-162): what a *)
(* surviving scan has counted is the newest run of events inside the window *)
(* in the deque as the scan found it, whatever the request threads did.     *)
(***************************************************************************)
THEOREM RatesAreOfOneInstant == Spec => []RatesAreSnapshots
  <1>1. Init => RateInv
    BY DEF Init, RateInv, ScanCounts, ScanStops, NoCount
  <1>2. TypeOK /\ RateInv => RatesAreSnapshots
    <2> SUFFICES ASSUME TypeOK, RateInv, NEW q \in Readers, rpc[q] = "judge"
                 PROVE  /\ count[q].total = Cardinality(Passed(q))
                        /\ count[q].bad = Cardinality({i \in Passed(q) : ~log[place[q].s][i].good})
      BY PassedIsTheRun DEF RatesAreSnapshots
    <2> QED
      BY DEF RateInv, ScanCounts
  <1> QED
    BY <1>1, <1>2, RateStep, TrackerTypeCorrect, PTL DEF Spec

-----------------------------------------------------------------------------
(* What a writer's step leaves alone *)

LEMMA WriterMoves ==
  ASSUME WritersOK, NEW w \in Writers, Write(w)
  PROVE  /\ \A u \in Writers \ {w} :
              pc'[u] = pc[u] /\ at'[u] = at[u] /\ now'[u] = now[u] /\ outcome'[u] = outcome[u]
         /\ pc[w] = "idle" <=> Record(w)
         /\ pc'[w] # "idle" /\ ~Record(w) => now'[w] = now[w] /\ outcome'[w] = outcome[w]
         /\ AppendEvent(w) \/ UNCHANGED log
         /\ ~Record(w) => UNCHANGED begun
  <1> USE DEF WritersOK, Goto, PopLeft
  <1>1. CASE Record(w)
    BY <1>1 DEF Record
  <1>2. CASE AppendEvent(w)
    BY <1>2 DEF AppendEvent, Record
  <1>3. CASE TrimFirst(w) \/ TrimLook(w) \/ TrimPop(w) \/ CapPop(w)
    BY <1>3 DEF TrimFirst, TrimLook, TrimPop, CapPop, Record
  <1>4. CASE CapLook(w)
    BY <1>4 DEF CapLook, Record
  <1> QED
    BY <1>1, <1>2, <1>3, <1>4 DEF Write

-----------------------------------------------------------------------------
(* Pops *)

\* What PopsNonEmpty needs of a deployment.  Over the cap there is an event for
\* each thread: max_events is 200 000.
RoomToRace == Cardinality(Writers) <= MaxEvents + 1

\* No two calls of record(), one after the other, last as long as a window.
CallsAreShort == \A s \in Indices : 2 * MaxStall <= SLOs[s].window

\* A call under way began no longer ago than it may last.
Timely == \A w \in Writers : pc[w] # "idle" => clock <= now[w] + MaxStall

\* The writers within s that began when whoever appended event h had returned.
Later(s, h) == {w \in Within(s) : now[w] > log[s][h].time + MaxStall}

\* Each of them has appended an event after h.
LaterAppended == \A s \in Indices : \A h \in 1 .. Len(log[s]) : Cardinality(Later(s, h)) <= Len(log[s]) - h

LEMMA TimelyStep ==
  ASSUME TypeOK, TypeOK', Timely, [Next]_vars
  PROVE  Timely'
  <1>0. /\ clock \in Nat /\ clock' \in Nat /\ MaxStall \in Nat
        /\ \A w \in Writers : now[w] \in Nat /\ now'[w] \in Nat
    BY LogFacts, TrackerAssumption DEF TypeOK, WritersOK
  <1>1. ASSUME NEW w \in Writers, Write(w) PROVE Timely'
    <2>1. clock' = clock
      BY <1>1, WritersStep DEF TypeOK
    <2>2. Record(w) => now'[w] = clock
      BY <1>0 DEF Record, TypeOK, WritersOK
    <2> QED
      BY <1>0, <1>1, <2>1, <2>2, WriterMoves DEF Timely, TypeOK
  <1>2. CASE Tick
    BY <1>0, <1>2 DEF Tick, Timely, writing
  <1>3. ASSUME NEW q \in Readers, Read(q) PROVE Timely'
    <2>1. UNCHANGED <<clock, writing>>
      BY <1>3, ReadersStep
    <2> QED
      BY <2>1 DEF Timely, writing
  <1>4. CASE UNCHANGED vars
    BY <1>4 DEF vars, writing, Timely
  <1> QED
    BY <1>1, <1>2, <1>3, <1>4 DEF Next

LEMMA LaterFinite ==
  ASSUME NEW s, NEW h
  PROVE  IsFiniteSet(Later(s, h)) /\ Cardinality(Later(s, h)) \in Nat
  BY WithinFinite, FS_Subset, FS_CardinalityType DEF Later

\* A writer that comes within has just appended; whoever was within before
\* began too late to be counted against that event.
LEMMA LaterStep ==
  ASSUME TypeOK, TypeOK', Timely, LaterAppended, NEW w \in Writers, Write(w)
  PROVE  LaterAppended'
  <1> SUFFICES ASSUME NEW s \in Indices, NEW h \in 1 .. Len(log'[s])
               PROVE  Cardinality(Later(s, h)') <= Len(log'[s]) - h
    BY DEF LaterAppended, Later
  <1>0. /\ log \in [Indices -> Seq(Events)] /\ Len(log[s]) \in Nat /\ Len(log'[s]) \in Nat
        /\ MaxStall \in Nat /\ clock \in Nat /\ WritersOK /\ LogsGrow
        /\ \A u \in Writers : now[u] \in Nat /\ now'[u] \in Nat /\ now[u] <= clock
        /\ at \in [Writers -> Indices]
        /\ pc \in [Writers -> {"idle", "append", "trim", "look", "pop", "cap", "shrink"}]
    <2>1. WritersOK /\ WritersOK' /\ LogsGrow /\ MaxStall \in Nat
      BY WritersStep, TrackerAssumption DEF TypeOK
    <2>2. log[s] \in Seq(Events) /\ log'[s] \in Seq(Events)
      BY <2>1 DEF WritersOK
    <2> QED
      BY <2>1, <2>2, LogFacts, LenProperties DEF WritersOK
  <1>1. CASE ~(AppendEvent(w) /\ at[w] = s)
    <2>1. log'[s] = log[s]
      BY <1>0, <1>1, WriterMoves DEF AppendEvent
    <2>2. Within(s)' \subseteq Within(s)
      <3>1. CASE Record(w)
        BY <1>0, <3>1 DEF Record, Goto, Within
      <3>2. CASE AppendEvent(w)
        BY <1>0, <1>1, <3>2 DEF AppendEvent, Goto, Within
      <3>3. CASE TrimFirst(w) \/ TrimLook(w) \/ TrimPop(w) \/ CapPop(w)
        BY <1>0, <3>3 DEF TrimFirst, TrimLook, TrimPop, CapPop, Goto, Within
      <3>4. CASE CapLook(w)
        BY <1>0, <3>4 DEF CapLook, Goto, Within
      <3> QED
        BY <3>1, <3>2, <3>3, <3>4 DEF Write
    <2>3. \A u \in Within(s)' : now'[u] = now[u]
      <3>1. \A u \in Within(s)' : pc'[u] # "idle" /\ u \in Writers
        BY DEF Within
      <3>2. Record(w) => pc'[w] = "append"
        BY <1>0 DEF Record, Goto
      <3>3. w \in Within(s)' => ~Record(w)
        BY <3>2 DEF Within
      <3> QED
        BY <1>0, <3>1, <3>3, WriterMoves
    <2>4. Later(s, h)' \subseteq Later(s, h)
      BY <2>1, <2>2, <2>3 DEF Later
    <2>5. Cardinality(Later(s, h)') <= Cardinality(Later(s, h)) /\ Cardinality(Later(s, h)') \in Nat
      BY <2>4, LaterFinite, FS_Subset, FS_CardinalityType
    <2> QED
      BY <1>0, <2>1, <2>5, LaterFinite DEF LaterAppended
  <1>2. CASE AppendEvent(w) /\ at[w] = s
    <2> DEFINE e == [time |-> now[w], good |-> IsGood(SLOs[s], outcome[w])]
    <2>1. /\ pc[w] = "append" /\ pc' = [pc EXCEPT ![w] = "trim"] /\ UNCHANGED <<at, now>>
          /\ log' = [log EXCEPT ![s] = Append(@, e)] /\ e.time = now[w]
      BY <1>2 DEF AppendEvent, Goto
    <2> HIDE DEF e
    <2>2. /\ Len(log'[s]) = Len(log[s]) + 1 /\ log'[s][Len(log[s]) + 1].time = now[w]
          /\ \A i \in 1 .. Len(log[s]) : log'[s][i] = log[s][i]
      BY <1>0, <2>1 DEF LogsGrow
    <2>3. Within(s)' = Within(s) \cup {w}
      BY <1>0, <1>2, <2>1 DEF Within
    <2>4. CASE h = Len(log[s]) + 1
      <3>1. ASSUME NEW u \in Later(s, h)' PROVE FALSE
        <4>1. u \in Writers /\ now'[u] = now[u] /\ now[u] > now[w] + MaxStall
          BY <2>1, <2>2, <2>4, <3>1 DEF Later, Within
        <4>2. clock <= now[w] + MaxStall
          BY <2>1 DEF Timely
        <4> QED
          BY <1>0, <4>1, <4>2
      <3>2. Cardinality(Later(s, h)') = 0
        BY <3>1, FS_EmptySet
      <3> QED
        BY <1>0, <2>2, <2>4, <3>2
    <2>5. CASE h \in 1 .. Len(log[s])
      <3>1. Later(s, h)' \subseteq Later(s, h) \cup {w}
        BY <2>1, <2>2, <2>3, <2>5 DEF Later
      <3>2. /\ IsFiniteSet(Later(s, h) \cup {w})
            /\ Cardinality(Later(s, h) \cup {w}) \in Nat
            /\ Cardinality(Later(s, h) \cup {w}) <= Cardinality(Later(s, h)) + 1
        <4>1. PICK L : L = Later(s, h)
          OBVIOUS
        <4>2. IsFiniteSet(L) /\ Cardinality(L) \in Nat
          BY <4>1, LaterFinite
        <4>3. /\ IsFiniteSet(L \cup {w})
              /\ Cardinality(L \cup {w}) = IF w \in L THEN Cardinality(L) ELSE Cardinality(L) + 1
          BY <4>2, FS_AddElement
        <4> QED
          BY <4>1, <4>2, <4>3
      <3>3. /\ Cardinality(Later(s, h)') <= Cardinality(Later(s, h) \cup {w})
            /\ Cardinality(Later(s, h)') \in Nat
        BY <3>1, <3>2, FS_Subset, FS_CardinalityType
      <3>4. Cardinality(Later(s, h)) <= Len(log[s]) - h
        BY <2>5 DEF LaterAppended
      <3> QED
        BY <1>0, <2>2, <3>2, <3>3, <3>4, LaterFinite
    <2>6. h = Len(log[s]) + 1 \/ h \in 1 .. Len(log[s])
      BY <1>0, <2>2
    <2> QED
      BY <2>4, <2>5, <2>6
  <1> QED
    BY <1>1, <1>2

\* Whoever decides to pop finds an event that no other thread is about to pop.
LEMMA PopHasEvent ==
  ASSUME TypeOK, Timely, LaterAppended, RoomToRace, CallsAreShort,
         NEW w \in Writers, NEW s \in Indices, w \notin Popping(s), HeadIsStale(w, s) \/ OverCap(s)
  PROVE  Gone(s) + 1 <= Len(log[s])
  <1>0. /\ Len(log[s]) \in Nat /\ popped[s] \in Nat /\ MaxEvents \in Nat /\ MaxStall \in Nat
        /\ WritersOK /\ Cardinality(Popping(s)) \in Nat /\ Cardinality(Writers) \in Nat
    BY LogFacts, PoppingFinite, TrackerAssumption, FS_CardinalityType DEF TypeOK
  <1>1. CASE OverCap(s)
    <2>1. Cardinality(Popping(s)) < Cardinality(Writers)
      BY RoomForOneMore
    <2>2. Len(log[s]) - popped[s] > MaxEvents
      BY <1>1 DEF OverCap, Size
    <2> QED
      BY <1>0, <2>1, <2>2 DEF RoomToRace, Gone
  <1>2. CASE HeadIsStale(w, s)
    <2>1. PICK h \in 1 .. Len(log[s]) : h = popped[s] + 1
      BY <1>0, <1>2 DEF HeadIsStale, Size
    <2>2. log[s][h] \in Events
      BY <2>1 DEF TypeOK, WritersOK
    <2>3. /\ log[s][h].time \in Nat /\ log[s][h].time < now[w] - SLOs[s].window
          /\ SLOs[s].window \in Nat /\ 2 * MaxStall <= SLOs[s].window
      BY <1>2, <2>1, <2>2, SLOFacts DEF HeadIsStale, Events, CallsAreShort
    <2>4. \A u \in Writers : now[u] \in Nat /\ now[u] <= clock
      BY DEF TypeOK, WritersOK
    <2>5. Within(s) \subseteq Later(s, h)
      <3> SUFFICES ASSUME NEW u \in Within(s) PROVE now[u] > log[s][h].time + MaxStall
        BY DEF Later
      <3>1. u \in Writers /\ clock <= now[u] + MaxStall /\ clock \in Nat
        BY LogFacts DEF Within, Timely, TypeOK
      <3>2. now[u] \in Nat /\ now[w] \in Nat /\ now[w] <= clock
        BY <2>4, <3>1
      <3>3. log[s][h].time + 2 * MaxStall < now[w]
        BY <1>0, <2>3, <3>2
      <3>4. ASSUME NEW a \in Nat, NEW b \in Nat, NEW c \in Nat, NEW d \in Nat, NEW m \in Nat,
                   a + 2 * m < b, b <= c, c <= d + m
            PROVE  d > a + m
        BY <3>4
      <3> QED
        BY <1>0, <2>3, <3>1, <3>2, <3>3, <3>4
    <2>6. Popping(s) \subseteq Later(s, h)
      BY <2>5 DEF Popping, Within
    <2>7. Cardinality(Popping(s)) <= Cardinality(Later(s, h))
      BY <2>6, LaterFinite, FS_Subset
    <2>8. Cardinality(Later(s, h)) <= Len(log[s]) - h
      BY DEF LaterAppended
    <2> QED
      BY <1>0, <2>1, <2>7, <2>8, LaterFinite DEF Gone
  <1> QED
    BY <1>1, <1>2

(***************************************************************************)
(* No popleft of _trim meets an empty deque (slo.py:147-150) where there is *)
(* an event of the cap for each thread and no call of record() lasts half a *)
(* window: an event that is stale for one thread then precedes the events   *)
(* that all threads within have just appended.                              *)
(***************************************************************************)
THEOREM PopsMeetEvents ==
  ASSUME RoomToRace, CallsAreShort
  PROVE  Spec => []PopsNonEmpty
  <1> DEFINE Pops == \A s \in Indices : Gone(s) <= Len(log[s])
  <1>1. Init => Timely /\ LaterAppended /\ Pops
    <2> SUFFICES ASSUME Init PROVE Timely /\ LaterAppended /\ Pops
      OBVIOUS
    <2>1. Timely
      BY DEF Init, Timely
    <2>2. LaterAppended
      BY DEF Init, LaterAppended
    <2>3. ASSUME NEW s \in Indices PROVE Gone(s) = 0 /\ Len(log[s]) = 0
      <3>1. Popping(s) = {} /\ popped[s] = 0 /\ log[s] = <<>>
        BY DEF Init, Popping
      <3> QED
        BY <3>1, FS_EmptySet DEF Gone
    <2> QED
      BY <2>1, <2>2, <2>3
  <1>2. TypeOK /\ TypeOK' /\ Timely /\ LaterAppended /\ Pops /\ [Next]_vars
          => Timely' /\ LaterAppended' /\ Pops'
    <2> SUFFICES ASSUME TypeOK, TypeOK', Timely, LaterAppended, Pops, [Next]_vars
                 PROVE  Timely' /\ LaterAppended' /\ Pops'
      OBVIOUS
    <2>1. Timely'
      BY TimelyStep
    <2>2. ASSUME NEW w \in Writers, Write(w) PROVE LaterAppended' /\ Pops'
      <3>1. LaterAppended'
        BY <2>2, LaterStep
      <3>2. ASSUME NEW s \in Indices PROVE Gone(s)' <= Len(log'[s])
        <4>1. /\ WritersOK /\ Len(log[s]) \in Nat /\ Len(log'[s]) \in Nat
              /\ Len(log[s]) <= Len(log'[s]) /\ Gone(s) <= Len(log[s]) /\ Gone(s) \in Nat
          <5>1. WritersOK /\ WritersOK' /\ LogsGrow
            BY <2>2, WritersStep DEF TypeOK
          <5>2. log'[s] \in Seq(Events)
            BY <5>1 DEF WritersOK
          <5>3. popped[s] \in Nat /\ Cardinality(Popping(s)) \in Nat /\ Len(log[s]) \in Nat
            BY <5>1, LogFacts, PoppingFinite
          <5> QED
            BY <5>1, <5>2, <5>3, LenProperties DEF LogsGrow, Gone
        <4>2. CASE Gone(s)' = Gone(s)
          BY <4>1, <4>2
        <4>3. CASE Gone(s)' = Gone(s) + 1 /\ w \notin Popping(s) /\ (HeadIsStale(w, s) \/ OverCap(s))
          BY <4>1, <4>3, PopHasEvent
        <4> QED
          BY <2>2, <4>1, <4>2, <4>3, GoneStep
      <3> QED
        BY <3>1, <3>2
    <2>3. ASSUME UNCHANGED writing PROVE LaterAppended' /\ Pops'
      BY <2>3 DEF writing, LaterAppended, Later, Within, Gone, Popping
    <2>4. ASSUME NEW q \in Readers, Read(q) PROVE UNCHANGED writing
      BY <2>4, ReadersStep
    <2>5. Tick \/ UNCHANGED vars => UNCHANGED writing
      BY DEF Tick, vars
    <2> QED
      BY <2>1, <2>2, <2>3, <2>4, <2>5 DEF Next
  <1>3. TypeOK /\ Pops => PopsNonEmpty
    <2> SUFFICES ASSUME TypeOK, Pops, NEW s \in Indices PROVE Cardinality(Popping(s)) <= Size(s)
      BY DEF PopsNonEmpty
    <2>1. Len(log[s]) \in Nat /\ popped[s] \in Nat /\ Cardinality(Popping(s)) \in Nat
      BY LogFacts, PoppingFinite DEF TypeOK
    <2> QED
      BY <2>1 DEF Gone, Size
  <1> HIDE DEF Pops
  <1> QED
    BY <1>1, <1>2, <1>3, TrackerTypeCorrect, PTL DEF Spec

-----------------------------------------------------------------------------
(* Records in every deque *)

\* The writers that have yet to append their event to the deque of s.
Owing(s) == {w \in Writers : pc[w] # "idle" /\ (at[w] < s \/ (at[w] = s /\ pc[w] = "append"))}

OwingBad(s) == {w \in Owing(s) : ~outcome[w].ok}

\* The bad events of s once those that are owed by failed requests are there.
Debt(s) == Cardinality(BadFrom(s, 1)) + Cardinality(OwingBad(s))

RecordInv ==
  \A s \in Indices :
    /\ Len(log[s]) + Cardinality(Owing(s)) = begun
    /\ SLOs[s].kind = "availability" => \A t \in Indices : Debt(s) <= Debt(t)

LEMMA OwingFinite ==
  ASSUME NEW s
  PROVE  /\ IsFiniteSet(Owing(s)) /\ Cardinality(Owing(s)) \in Nat
         /\ IsFiniteSet(OwingBad(s)) /\ Cardinality(OwingBad(s)) \in Nat
  <1>1. IsFiniteSet(Owing(s))
    BY TrackerAssumption, FS_Subset DEF Owing
  <1>2. IsFiniteSet(OwingBad(s))
    BY <1>1, FS_Subset DEF OwingBad
  <1> QED
    BY <1>1, <1>2, FS_CardinalityType

LEMMA BadFinite ==
  ASSUME WritersOK, NEW s \in Indices
  PROVE  IsFiniteSet(BadFrom(s, 1)) /\ Cardinality(BadFrom(s, 1)) \in Nat
  <1>1. IsFiniteSet(1 .. Len(log[s]))
    BY LogFacts, FS_Interval
  <1>2. IsFiniteSet(BadFrom(s, 1))
    BY <1>1, FS_Subset DEF BadFrom
  <1> QED
    BY <1>2, FS_CardinalityType

\* record() begins owing an event to every deque, and pays with each append.
LEMMA OwingStep ==
  ASSUME WritersOK, NEW w \in Writers, Write(w), NEW s \in Indices
  PROVE  \/ Record(w) /\ w \notin Owing(s) /\ Owing(s)' = Owing(s) \cup {w}
         \/ AppendEvent(w) /\ at[w] = s /\ w \in Owing(s) /\ Owing(s)' = Owing(s) \ {w}
         \/ ~Record(w) /\ Owing(s)' = Owing(s) /\ log'[s] = log[s]
  <1>0. /\ pc \in [Writers -> {"idle", "append", "trim", "look", "pop", "cap", "shrink"}]
        /\ at \in [Writers -> Indices] /\ log \in [Indices -> Seq(Events)]
        /\ 1 \in Indices /\ Indices = 1 .. Len(SLOs) /\ Len(SLOs) \in Nat /\ s \in Nat
    BY IndexFacts DEF WritersOK, Indices
  <1> USE <1>0 DEF Goto
  <1>1. CASE Record(w)
    <2>1. /\ pc[w] = "idle" /\ pc' = [pc EXCEPT ![w] = "append"]
          /\ at' = [at EXCEPT ![w] = 1] /\ (1 < s \/ 1 = s)
      BY <1>1 DEF Record
    <2>2. w \notin Owing(s) /\ w \in Owing(s)'
      BY <2>1 DEF Owing
    <2>3. \A u \in Writers \ {w} : u \in Owing(s)' <=> u \in Owing(s)
      BY <2>1 DEF Owing
    <2>4. Owing(s) \subseteq Writers /\ Owing(s)' \subseteq Writers
      BY DEF Owing
    <2> QED
      BY <1>1, <2>2, <2>3, <2>4
  <1>2. CASE AppendEvent(w)
    <2>1. pc[w] = "append" /\ pc' = [pc EXCEPT ![w] = "trim"] /\ UNCHANGED at /\ ~Record(w)
      BY <1>2 DEF AppendEvent, Record
    <2>2. CASE at[w] = s
      BY <1>2, <2>1, <2>2 DEF Owing
    <2>3. CASE at[w] # s
      <3>1. log'[s] = log[s]
        BY <1>2, <2>3 DEF AppendEvent
      <3> QED
        BY <2>1, <2>3, <3>1 DEF Owing
    <2> QED
      BY <2>2, <2>3
  <1>3. CASE TrimFirst(w) \/ TrimLook(w) \/ TrimPop(w) \/ CapPop(w)
    <2>1. /\ pc[w] \notin {"idle", "append"} /\ UNCHANGED <<at, log>>
          /\ \E to \in {"look", "cap", "pop"} : pc' = [pc EXCEPT ![w] = to]
      BY <1>3 DEF TrimFirst, TrimLook, TrimPop, CapPop
    <2> QED
      BY <2>1 DEF Owing, Record
  <1>4. CASE CapLook(w)
    <2>1. pc[w] = "cap" /\ UNCHANGED log /\ ~Record(w)
      BY <1>4 DEF CapLook, Record
    <2>2. CASE pc' = [pc EXCEPT ![w] = "shrink"] /\ UNCHANGED at
      BY <2>1, <2>2 DEF Owing
    <2>3. CASE pc' = [pc EXCEPT ![w] = "append"] /\ at' = [at EXCEPT ![w] = at[w] + 1]
      BY <2>1, <2>3 DEF Owing
    <2>4. CASE pc' = [pc EXCEPT ![w] = "idle"] /\ at[w] = Len(SLOs) /\ at' = [at EXCEPT ![w] = 1]
      BY <2>1, <2>4 DEF Owing
    <2> QED
      BY <1>4, <2>2, <2>3, <2>4 DEF CapLook
  <1> QED
    BY <1>1, <1>2, <1>3, <1>4 DEF Write

\* An append adds a bad event, or it does not.
LEMMA BadAppended ==
  ASSUME WritersOK, NEW s \in Indices, NEW e \in Events, log' = [log EXCEPT ![s] = Append(@, e)]
  PROVE  Cardinality(BadFrom(s, 1)') = Cardinality(BadFrom(s, 1)) + (IF e.good THEN 0 ELSE 1)
  <1>1. /\ log[s] \in Seq(Events) /\ Len(log[s]) \in Nat /\ log'[s] = Append(log[s], e)
        /\ e.good \in BOOLEAN
    BY LogFacts DEF WritersOK, Events
  <1>2. PICK n \in Nat : n = Len(log[s])
    BY <1>1
  <1>3. Len(log'[s]) = n + 1 /\ log'[s][n + 1] = e /\ \A i \in 1 .. n : log'[s][i] = log[s][i]
    BY <1>1, <1>2, AppendProperties
  <1>4. PICK B : B = BadFrom(s, 1)
    OBVIOUS
  <1>5. n + 1 \notin B /\ IsFiniteSet(B) /\ Cardinality(B) \in Nat
    <2>1. n + 1 \notin B
      BY <1>2, <1>4 DEF BadFrom
    <2> QED
      BY <1>4, <2>1, BadFinite
  <1>6. BadFrom(s, 1)' = IF e.good THEN B ELSE B \cup {n + 1}
    BY <1>1, <1>2, <1>3, <1>4 DEF BadFrom
  <1>7. Cardinality(B \cup {n + 1}) = Cardinality(B) + 1
    BY <1>5, FS_AddElement
  <1>8. CASE e.good
    BY <1>4, <1>5, <1>6, <1>8
  <1>9. CASE ~e.good
    BY <1>4, <1>5, <1>6, <1>7, <1>9
  <1> QED
    BY <1>8, <1>9

LEMMA OwingBadStep ==
  ASSUME WritersOK, NEW w \in Writers, Write(w), NEW s \in Indices
  PROVE  /\ Record(w) => OwingBad(s)' = IF outcome'[w].ok THEN OwingBad(s) ELSE OwingBad(s) \cup {w}
         /\ AppendEvent(w) /\ at[w] = s => OwingBad(s)' = OwingBad(s) \ {w}
         /\ ~Record(w) /\ Owing(s)' = Owing(s) => OwingBad(s)' = OwingBad(s)
  <1>1. \A u \in Writers \ {w} : outcome'[u] = outcome[u]
    BY WriterMoves
  <1>2. \A u \in Owing(s)' : u \in Writers /\ pc'[u] # "idle"
    BY DEF Owing
  <1>3. CASE Record(w)
    <2>1. w \notin Owing(s) /\ Owing(s)' = Owing(s) \cup {w}
      <3>1. ~AppendEvent(w)
        BY <1>3 DEF Record, AppendEvent, Goto
      <3> QED
        BY <1>3, <3>1, OwingStep
    <2>2. Owing(s) \subseteq Writers
      BY DEF Owing
    <2>3. ~AppendEvent(w)
      BY <1>3 DEF Record, AppendEvent, Goto
    <2>4. ASSUME NEW u PROVE u \in OwingBad(s)' <=> u \in (IF outcome'[w].ok THEN OwingBad(s) ELSE OwingBad(s) \cup {w})
      BY <1>1, <2>1, <2>2 DEF OwingBad
    <2> QED
      BY <1>3, <2>3, <2>4
  <1>4. CASE ~Record(w)
    <2>1. \A u \in Owing(s)' : outcome'[u] = outcome[u]
      BY <1>1, <1>2, <1>4, WriterMoves
    <2>2. AppendEvent(w) /\ at[w] = s => Owing(s)' = Owing(s) \ {w}
      <3>1. AppendEvent(w) => pc'[w] = "trim" /\ at'[w] = at[w]
        BY DEF AppendEvent, Goto, WritersOK
      <3>2. AppendEvent(w) /\ at[w] = s => w \notin Owing(s)'
        BY <3>1, IndexFacts DEF Owing
      <3> QED
        BY <1>4, <3>2, OwingStep
    <2> QED
      BY <1>4, <2>1, <2>2 DEF OwingBad
  <1> QED
    BY <1>3, <1>4

\* What a failed request will cost is added to every deque's debt at once; later
\* a deque's debt only grows, and that of an availability SLO stays.
LEMMA DebtStep ==
  ASSUME WritersOK, NEW w \in Writers, Write(w), NEW s \in Indices
  PROVE  /\ Debt(s) \in Nat /\ Debt(s)' \in Nat
         /\ Record(w) => Debt(s)' = Debt(s) + (IF outcome'[w].ok THEN 0 ELSE 1)
         /\ ~Record(w) => Debt(s)' >= Debt(s)
         /\ ~Record(w) /\ SLOs[s].kind = "availability" => Debt(s)' = Debt(s)
  <1>1. PICK O : O = OwingBad(s)
    OBVIOUS
  <1>2. PICK b \in Nat : b = Cardinality(BadFrom(s, 1))
    BY BadFinite
  <1>3. IsFiniteSet(O) /\ Cardinality(O) \in Nat /\ Debt(s) = b + Cardinality(O)
    BY <1>1, <1>2, OwingFinite DEF Debt
  <1>4. Record(w) => ~AppendEvent(w)
    BY DEF Record, AppendEvent, Goto
  <1>5. CASE Record(w)
    <2>1. w \notin O /\ log' = log
      BY <1>1, <1>4, <1>5, OwingStep DEF OwingBad, Record
    <2>2. OwingBad(s)' = IF outcome'[w].ok THEN O ELSE O \cup {w}
      BY <1>1, <1>5, OwingBadStep
    <2>3. Cardinality(O \cup {w}) = Cardinality(O) + 1
      BY <1>3, <2>1, FS_AddElement
    <2>4. BadFrom(s, 1)' = BadFrom(s, 1)
      BY <2>1 DEF BadFrom
    <2>5. Debt(s)' = b + (IF outcome'[w].ok THEN Cardinality(O) ELSE Cardinality(O) + 1)
      BY <1>2, <2>2, <2>3, <2>4 DEF Debt
    <2> QED
      BY <1>2, <1>3, <1>5, <2>5
  <1>6. CASE AppendEvent(w) /\ at[w] = s
    <2> DEFINE e == [time |-> now[w], good |-> IsGood(SLOs[s], outcome[w])]
    <2>1. outcome[w] \in Outcomes /\ now[w] \in Nat
      BY DEF WritersOK
    <2>2. e \in Events /\ e.good = IsGood(SLOs[s], outcome[w])
      BY <2>1, GoodIsBoolean DEF Events
    <2>3. log' = [log EXCEPT ![s] = Append(@, e)]
      BY <1>6 DEF AppendEvent
    <2> HIDE DEF e
    <2>4. Cardinality(BadFrom(s, 1)') = b + (IF e.good THEN 0 ELSE 1)
      BY <1>2, <2>2, <2>3, BadAppended
    <2>5. w \in Owing(s)
      BY <1>4, <1>6, IndexFacts DEF Owing, AppendEvent, Goto, WritersOK
    <2>6. w \in O <=> ~outcome[w].ok
      BY <1>1, <2>5 DEF OwingBad
    <2>7. OwingBad(s)' = O \ {w}
      BY <1>1, <1>6, OwingBadStep
    <2>8. Cardinality(O \ {w}) = IF w \in O THEN Cardinality(O) - 1 ELSE Cardinality(O)
      BY <1>3, FS_RemoveElement
    <2>9. w \in O => Cardinality(O) > 0
      BY <1>3, FS_EmptySet
    <2>10. /\ outcome[w].ok \in BOOLEAN /\ e.good \in BOOLEAN
           /\ e.good => outcome[w].ok
           /\ SLOs[s].kind = "availability" /\ outcome[w].ok => e.good
      BY <2>1, <2>2, GoodIsBoolean, TrackerAssumption DEF IsGood
    <2>11. Debt(s)' = b + (IF e.good THEN 0 ELSE 1)
                        + (IF outcome[w].ok THEN Cardinality(O) ELSE Cardinality(O) - 1)
      BY <2>4, <2>6, <2>7, <2>8 DEF Debt
    <2> QED
      BY <1>2, <1>3, <1>4, <1>6, <2>6, <2>9, <2>10, <2>11
  <1>7. CASE ~Record(w) /\ ~(AppendEvent(w) /\ at[w] = s)
    <2>1. Owing(s)' = Owing(s) /\ log'[s] = log[s]
      BY <1>7, OwingStep
    <2>2. OwingBad(s)' = O /\ BadFrom(s, 1)' = BadFrom(s, 1)
      BY <1>1, <1>7, <2>1, OwingBadStep DEF BadFrom
    <2>3. Debt(s)' = Debt(s)
      BY <1>1, <2>2 DEF Debt
    <2> QED
      BY <1>3, <1>7, <2>3
  <1> QED
    BY <1>5, <1>6, <1>7

\* Every record has reached a deque or is on its way there.
LEMMA LengthStep ==
  ASSUME WritersOK, begun \in Nat, NEW w \in Writers, Write(w), NEW s \in Indices,
         Len(log[s]) + Cardinality(Owing(s)) = begun
  PROVE  Len(log'[s]) + Cardinality(Owing(s)') = begun'
  <1>1. PICK O : O = Owing(s)
    OBVIOUS
  <1>2. IsFiniteSet(O) /\ Cardinality(O) \in Nat /\ Len(log[s]) \in Nat /\ log[s] \in Seq(Events)
    BY <1>1, OwingFinite, LogFacts
  <1>3. CASE Record(w) /\ w \notin O /\ Owing(s)' = O \cup {w}
    <2>1. Cardinality(O \cup {w}) = Cardinality(O) + 1
      BY <1>2, <1>3, FS_AddElement
    <2>2. log' = log /\ begun' = begun + 1
      BY <1>3 DEF Record
    <2> QED
      BY <1>1, <1>2, <1>3, <2>1, <2>2
  <1>4. CASE AppendEvent(w) /\ at[w] = s /\ w \in O /\ Owing(s)' = O \ {w}
    <2>1. Cardinality(O \ {w}) = Cardinality(O) - 1
      BY <1>2, <1>4, FS_RemoveElement
    <2>2. PICK e : log' = [log EXCEPT ![s] = Append(@, e)] /\ begun' = begun
      BY <1>4 DEF AppendEvent
    <2>3. log'[s] = Append(log[s], e)
      BY <2>2 DEF WritersOK
    <2>4. Len(log'[s]) = Len(log[s]) + 1
      BY <1>2, <2>3
    <2> QED
      BY <1>1, <1>2, <1>4, <2>1, <2>2, <2>4
  <1>5. CASE ~Record(w) /\ Owing(s)' = O /\ log'[s] = log[s]
    BY <1>1, <1>5, WriterMoves
  <1> QED
    BY <1>1, <1>3, <1>4, <1>5, OwingStep

(***************************************************************************)
(* A failed request hurts every SLO (slo.py:66-73, 138-141): when no        *)
(* record() is under way all deques have seen the same requests, and no SLO *)
(* has fewer bad events than an availability SLO, in whatever order the     *)
(* threads reached the deques.                                              *)
(***************************************************************************)
THEOREM FailuresAreEverywhere == Spec => []FailuresHurtEverySLO
  <1>1. Init => RecordInv
    <2> SUFFICES ASSUME Init, NEW s \in Indices
                 PROVE  /\ Len(log[s]) + Cardinality(Owing(s)) = begun
                        /\ \A t \in Indices : Debt(s) <= Debt(t)
      BY DEF RecordInv
    <2>1. \A t \in Indices : Owing(t) = {} /\ OwingBad(t) = {} /\ log[t] = <<>>
      BY DEF Init, Owing, OwingBad
    <2>2. \A t \in Indices : BadFrom(t, 1) = {}
      BY <2>1 DEF BadFrom
    <2>3. ASSUME NEW t \in Indices PROVE Debt(t) = 0 /\ Cardinality(Owing(t)) = 0 /\ Len(log[t]) = 0
      <3>1. Cardinality(Owing(t)) = 0
        BY <2>1, FS_EmptySet
      <3>2. Cardinality(OwingBad(t)) = 0
        BY <2>1, FS_EmptySet
      <3>3. Cardinality(BadFrom(t, 1)) = 0
        BY <2>2, FS_EmptySet
      <3>4. Len(log[t]) = 0
        BY <2>1
      <3> QED
        BY <3>1, <3>2, <3>3, <3>4 DEF Debt
    <2>4. begun = 0
      BY DEF Init
    <2> QED
      BY <2>3, <2>4
  <1>2. TypeOK /\ RecordInv /\ [Next]_vars => RecordInv'
    <2> SUFFICES ASSUME TypeOK, RecordInv, [Next]_vars PROVE RecordInv'
      OBVIOUS
    <2>1. ASSUME NEW w \in Writers, Write(w) PROVE RecordInv'
      <3>1. WritersOK /\ begun \in Nat
        BY TrackerAssumption DEF TypeOK, WritersOK
      <3>2. ASSUME NEW s \in Indices PROVE Len(log'[s]) + Cardinality(Owing(s)') = begun'
        BY <2>1, <3>1, LengthStep DEF RecordInv
      <3>3. ASSUME NEW s \in Indices, SLOs[s].kind = "availability", NEW t \in Indices
            PROVE  Debt(s)' <= Debt(t)'
        <4>1. Debt(s) <= Debt(t)
          BY <3>3 DEF RecordInv
        <4>2. /\ Debt(s) \in Nat /\ Debt(s)' \in Nat
              /\ Record(w) => Debt(s)' = Debt(s) + (IF outcome'[w].ok THEN 0 ELSE 1)
              /\ ~Record(w) => Debt(s)' = Debt(s)
          BY <2>1, <3>1, <3>3, DebtStep
        <4>3. /\ Debt(t) \in Nat /\ Debt(t)' \in Nat
              /\ Record(w) => Debt(t)' = Debt(t) + (IF outcome'[w].ok THEN 0 ELSE 1)
              /\ ~Record(w) => Debt(t)' >= Debt(t)
          BY <2>1, <3>1, DebtStep
        <4> QED
          BY <4>1, <4>2, <4>3
      <3> QED
        BY <3>2, <3>3 DEF RecordInv
    <2>2. ASSUME UNCHANGED writing PROVE RecordInv'
      BY <2>2 DEF writing, RecordInv, Owing, OwingBad, Debt, BadFrom
    <2>3. ASSUME NEW q \in Readers, Read(q) PROVE UNCHANGED writing
      BY <2>3, ReadersStep
    <2>4. Tick \/ UNCHANGED vars => UNCHANGED writing
      BY DEF Tick, vars
    <2> QED
      BY <2>1, <2>2, <2>3, <2>4 DEF Next
  <1>3. TypeOK /\ RecordInv => FailuresHurtEverySLO
    <2> SUFFICES ASSUME TypeOK, RecordInv, \A w \in Writers : pc[w] = "idle",
                        NEW s \in Indices, NEW t \in Indices
                 PROVE  /\ Len(log[s]) = Len(log[t])
                        /\ SLOs[s].kind = "availability" =>
                             Cardinality(BadFrom(s, 1)) <= Cardinality(BadFrom(t, 1))
      BY DEF FailuresHurtEverySLO
    <2>1. \A x \in Indices : Cardinality(Owing(x)) = 0 /\ Cardinality(OwingBad(x)) = 0
      <3>1. \A x \in Indices : Owing(x) = {} /\ OwingBad(x) = {}
        BY DEF Owing, OwingBad
      <3> QED
        BY <3>1, FS_EmptySet
    <2>2. \A x \in Indices : /\ Len(log[x]) \in Nat
                             /\ Cardinality(BadFrom(x, 1)) \in Nat
      BY LogFacts, BadFinite DEF TypeOK
    <2>3. Len(log[s]) = begun /\ Len(log[t]) = begun
      BY <2>1, <2>2 DEF RecordInv
    <2>4. Debt(s) = Cardinality(BadFrom(s, 1)) /\ Debt(t) = Cardinality(BadFrom(t, 1))
      BY <2>1, <2>2 DEF Debt
    <2> QED
      BY <2>3, <2>4 DEF RecordInv
  <1> QED
    BY <1>1, <1>2, <1>3, TrackerTypeCorrect, PTL DEF Spec

-----------------------------------------------------------------------------
(* Severities *)

\* A status has the severity of the worst of its rules.
WorstOf(s, status) ==
  LET fired == {SLOs[s].rules[k].severity : k \in status.fired} IN
  status.severity =
    IF "page" \in fired THEN "page" ELSE IF "ticket" \in fired THEN "ticket" ELSE "ok"

SeverityInv ==
  \A q \in Readers :
    /\ WorstOf(place[q].s, place[q].status)
    /\ \A s \in Indices : WorstOf(s, report[q][s])

LEMMA JudgedIsWorst ==
  ASSUME TypeOK, NEW q \in Readers, NEW fire \in Verdicts(q), NEW s \in Indices, s = place[q].s,
         WorstOf(s, place[q].status)
  PROVE  WorstOf(s, Judged(place[q], fire))
  <1>1. CASE ~fire
    BY <1>1 DEF Judged
  <1>2. CASE fire
    <2>1. PICK k : k = place[q].k
      OBVIOUS
    <2>2. k \in Rules(s)
      <3>1. k # 0
        BY <1>2, <2>1 DEF Verdicts
      <3> QED
        BY <2>1, <3>1, ScanFacts DEF ScanFits, Rules
    <2>3. PICK r : r = SLOs[s].rules[k] /\ r.severity \in {"ticket", "page"}
      BY <2>2, SLOFacts
    <2>4. PICK st : st = place[q].status
      OBVIOUS
    <2>5. Judged(place[q], fire) = [severity |-> Escalate(st.severity, r), fired |-> st.fired \cup {k}]
      BY <1>2, <2>1, <2>3, <2>4 DEF Judged
    <2> DEFINE old == {SLOs[s].rules[j].severity : j \in st.fired}
               new == {SLOs[s].rules[j].severity : j \in st.fired \cup {k}}
    <2>6. new = old \cup {r.severity}
      BY <2>3
    <2>7. st.severity = IF "page" \in old THEN "page" ELSE IF "ticket" \in old THEN "ticket" ELSE "ok"
      BY <2>4 DEF WorstOf
    <2> HIDE DEF old, new
    <2>8. Escalate(st.severity, r) =
            IF "page" \in new THEN "page" ELSE IF "ticket" \in new THEN "ticket" ELSE "ok"
      BY <2>3, <2>6, <2>7 DEF Escalate
    <2>9. PICK y : y = Judged(place[q], fire)
      OBVIOUS
    <2>10. y.severity = Escalate(st.severity, r) /\ y.fired = st.fired \cup {k}
      BY <2>5, <2>9
    <2>11. new = {SLOs[s].rules[j].severity : j \in y.fired}
      BY <2>10 DEF new
    <2>12. WorstOf(s, y)
      BY <2>8, <2>10, <2>11 DEF WorstOf
    <2> QED
      BY <2>9, <2>12
  <1> QED
    BY <1>1, <1>2

LEMMA NothingIsWorst ==
  ASSUME NEW s, NEW u, NEW t
  PROVE  WorstOf(s, NoStatus) /\ Start(u, t).status = NoStatus
  BY DEF WorstOf, NoStatus, Start

LEMMA SeverityStep ==
  ASSUME TypeOK, TypeOK', SeverityInv, [Next]_vars
  PROVE  SeverityInv'
  <1>1. ASSUME NEW q \in Readers, Read(q) PROVE SeverityInv'
    <2>0. /\ place \in [Readers -> Places] /\ report \in [Readers -> [Indices -> Statuses]]
          /\ place[q].s \in Indices /\ WorstOf(place[q].s, place[q].status)
          /\ \A s \in Indices : WorstOf(s, report[q][s])
      BY ScanFacts DEF SeverityInv
    <2>1. \A p \in Readers \ {q} : place'[p] = place[p] /\ report'[p] = report[p]
      <3> USE <2>0
      <3>1. CASE Evaluate(q) \/ ScanOpen(q) \/ ScanCount(q) \/ ScanEnd(q) \/ ScanRaise(q)
        BY <3>1 DEF Evaluate, ScanOpen, ScanCount, ScanEnd, ScanRaise
      <3>2. CASE GiveUp(q) \/ NextWindow(q) \/ Publish(q)
        BY <3>2 DEF GiveUp, NextWindow, Publish
      <3> QED
        BY <1>1, <3>1, <3>2 DEF Read
    <2>2. SUFFICES /\ WorstOf(place'[q].s, place'[q].status)
                   /\ \A s \in Indices : WorstOf(s, report'[q][s])
      <3> SUFFICES ASSUME NEW p \in Readers
          PROVE  /\ WorstOf(place'[p].s, place'[p].status)
                 /\ \A s \in Indices : WorstOf(s, report'[p][s])
        BY DEF SeverityInv, WorstOf
      <3>1. CASE p = q
        BY <2>2, <3>1
      <3>2. CASE p # q
        BY <2>1, <3>2 DEF SeverityInv
      <3> QED
        BY <3>1, <3>2
    <2>3. CASE ScanOpen(q) \/ ScanCount(q) \/ ScanEnd(q) \/ ScanRaise(q) \/ GiveUp(q)
      <3>1. UNCHANGED <<place, report>>
        BY <2>3 DEF ScanOpen, ScanCount, ScanEnd, ScanRaise, GiveUp
      <3> QED
        BY <2>0, <3>1
    <2>4. CASE Evaluate(q)
      <3>1. place'[q] = Start(1, clock) /\ report'[q] = [s \in Indices |-> NoStatus]
        BY <2>0, <2>4 DEF Evaluate
      <3> QED
        BY <3>1, NothingIsWorst
    <2>5. CASE NextWindow(q)
      <3>1. PICK fire \in Verdicts(q) :
              place' = [place EXCEPT ![q] =
                [s |-> place[q].s, k |-> place[q].k + 1, moment |-> place[q].moment,
                 status |-> Judged(place[q], fire)]]
        BY <2>5 DEF NextWindow
      <3>2. place'[q].s = place[q].s /\ place'[q].status = Judged(place[q], fire) /\ report' = report
        BY <2>0, <2>5, <3>1 DEF NextWindow
      <3> QED
        BY <2>0, <3>2, JudgedIsWorst
    <2>6. CASE Publish(q)
      <3>1. PICK fire \in Verdicts(q) : report' = [report EXCEPT ![q][place[q].s] = Judged(place[q], fire)]
        BY <2>6 DEF Publish
      <3>2. WorstOf(place[q].s, Judged(place[q], fire))
        BY <2>0, JudgedIsWorst
      <3>3. \A s \in Indices : report'[q][s] = IF s = place[q].s THEN Judged(place[q], fire) ELSE report[q][s]
        BY <2>0, <3>1
      <3>4. \E u, t \in Nat : place'[q] = Start(u, t)
        <4>1. place'[q] = Start(place[q].s + 1, clock) \/ place'[q] = Start(1, 0)
          BY <2>0, <2>6 DEF Publish
        <4>2. place[q].s + 1 \in Nat /\ clock \in Nat
          <5>1. clock \in Nat
            BY ScanFacts
          <5>2. place[q].s \in Nat
            BY <2>0, IndexFacts
          <5> QED
            BY <5>1, <5>2
        <4> QED
          BY <4>1, <4>2
      <3>5. WorstOf(place'[q].s, place'[q].status)
        BY <3>4, NothingIsWorst
      <3> QED
        BY <2>0, <3>2, <3>3, <3>5
    <2> QED
      BY <1>1, <2>3, <2>4, <2>5, <2>6 DEF Read
  <1>2. ASSUME UNCHANGED <<place, report>> PROVE SeverityInv'
    BY <1>2 DEF SeverityInv, WorstOf
  <1>3. ASSUME NEW w \in Writers, Write(w) PROVE UNCHANGED <<place, report>>
    BY <1>3, WritersStep DEF TypeOK, reading
  <1>4. Tick \/ UNCHANGED vars => UNCHANGED <<place, report>>
    BY DEF Tick, vars, reading
  <1> QED
    BY <1>1, <1>2, <1>3, <1>4 DEF Next

(***************************************************************************)
(* The severity of a status is that of the worst rule it lists              *)
(* (slo.py:187-191), whatever the order of the rules.                       *)
(***************************************************************************)
THEOREM SeverityIsTheWorst == Spec => []SeverityMatchesFired
  <1>1. Init => SeverityInv
    <2> SUFFICES ASSUME Init, NEW q \in Readers, NEW s \in Indices
                 PROVE  WorstOf(place[q].s, place[q].status) /\ WorstOf(s, report[q][s])
      BY IndexFacts DEF SeverityInv
    <2>1. place[q] = Start(1, 0) /\ report[q][s] = NoStatus
      BY DEF Init
    <2> QED
      BY <2>1, NothingIsWorst
  <1>2. SeverityInv => SeverityMatchesFired
    BY DEF SeverityInv, WorstOf, SeverityMatchesFired
  <1> QED
    BY <1>1, <1>2, SeverityStep, TrackerTypeCorrect, PTL DEF Spec
=============================================================================
