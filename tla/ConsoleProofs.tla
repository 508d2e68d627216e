---------------------------- MODULE ConsoleProofs ----------------------------
(***************************************************************************)
(* Theorems of Console for any number of handlers, calls, scenarios and     *)
(* requests.                                                                *)
(*                                                                         *)
(* OneLoop is not inductive: what keeps a second loop away is that a start()*)
(* past its check has seen no loop alive, that no loop comes alive but by a *)
(* start(), and that every loop alive is the one self._thread holds.        *)
(*                                                                         *)
(* BooksExact, TypeOK and ScenarioWhole follow from Inv: the books are kept *)
(* by every step, no call is sent twice because sent numbers them, and what *)
(* is left of a switch's assignments always ends in its scenario.           *)
(***************************************************************************)
EXTENDS Console, FiniteSetTheorems, SequenceTheorems, TLAPS

HandlerPlaces == Starting \cup {"idle", "switch", "test", "insert", "cut"}
LoopPlaces    == {"new", "look", "pause", "wait", "woken", "submit", "dead"}

ThreadsOK ==
  /\ hpc \in [Handlers -> HandlerPlaces]
  /\ loop \in [Loops -> LoopPlaces]
  /\ apart \in [starts : BOOLEAN, switches : BOOLEAN]

\* What holds as long as no two start() calls have overlapped.
StartsApart ==
  /\ \A g, h \in Handlers : hpc[g] \in Starting /\ hpc[h] \in Starting => g = h
  /\ \A l \in Loops : IsAlive(l) => l = thread
  /\ \A h \in Handlers : hpc[h] \in {"clear", "create", "launch"} =>
       \A l \in Loops : ~IsAlive(l)

LoopInv == ThreadsOK /\ (apart.starts => StartsApart)

LEMMA LoopInit == Init => LoopInv
BY DEF Init, LoopInv, ThreadsOK, StartsApart, HandlerPlaces, LoopPlaces, Starting, IsAlive

\* A step of a loop brings none alive that was not.
LEMMA LoopMoves ==
  ASSUME LoopInv, NEW l \in Loops, NEW from \in LoopPlaces \ {"new", "dead"}, NEW to \in LoopPlaces,
         loop[l] = from, loop' = [loop EXCEPT ![l] = to], UNCHANGED <<hpc, thread, apart>>
  PROVE  LoopInv'
BY DEF LoopInv, ThreadsOK, StartsApart, LoopPlaces, IsAlive

LEMMA LoopStep ==
  ASSUME LoopInv, [Next]_vars
  PROVE  LoopInv'
<1> USE DEF LoopInv, ThreadsOK, StartsApart, Starting, HandlerPlaces
<1>1. ASSUME NEW h \in Handlers, RequestStart(h) PROVE LoopInv'
  BY <1>1 DEF RequestStart, Arrive, HGoto, IsAlive, arriving
<1>2. ASSUME NEW h \in Handlers, CheckRunning(h) PROVE LoopInv'
  <2>1. hpc' = [hpc EXCEPT ![h] = IF Running THEN "idle" ELSE "clear"] /\ hpc[h] = "check"
    BY <1>2 DEF CheckRunning, HGoto
  <2>2. UNCHANGED <<loop, thread, apart>>
    BY <1>2 DEF CheckRunning, arriving
  <2>3. ASSUME apart.starts, ~Running PROVE \A l \in Loops : ~IsAlive(l)
    BY <2>3 DEF Running, Loops
  <2> QED
    BY <2>1, <2>2, <2>3 DEF IsAlive
<1>3. ASSUME NEW h \in Handlers, ClearStop(h) PROVE LoopInv'
  BY <1>3 DEF ClearStop, HGoto, IsAlive, arriving
<1>4. ASSUME NEW h \in Handlers, CreateThread(h) PROVE LoopInv'
  BY <1>4 DEF CreateThread, HGoto, IsAlive
<1>5. ASSUME NEW h \in Handlers, Launch(h) PROVE LoopInv'
  <2>1. /\ hpc[h] = "launch" /\ hpc' = [hpc EXCEPT ![h] = "idle"] /\ UNCHANGED <<thread, apart>>
        /\ loop' = [loop EXCEPT ![thread] = IF @ = "new" THEN "look" ELSE @]
    BY <1>5 DEF Launch, HGoto
  <2>2. ThreadsOK'
    BY <2>1 DEF LoopPlaces
  <2>3. ASSUME apart.starts, NEW l \in Loops, l # thread PROVE ~IsAlive(l)'
    BY <2>1, <2>3 DEF IsAlive
  <2>4. ASSUME apart.starts, NEW g \in Handlers PROVE hpc'[g] \notin Starting
    BY <2>1, <2>4
  <2> QED
    BY <2>1, <2>2, <2>3, <2>4
<1>6. ASSUME NEW h \in Handlers, Stop(h) PROVE LoopInv'
  <2>1. /\ hpc[h] = "idle" /\ hpc' = [hpc EXCEPT ![h] = "idle"] /\ UNCHANGED <<thread, apart>>
        /\ loop' = [l \in Loops |-> IF loop[l] = "wait" THEN "woken" ELSE loop[l]]
    BY <1>6 DEF Stop, Arrive, HGoto
  <2>2. \A l \in Loops : IsAlive(l)' <=> IsAlive(l)
    BY <2>1 DEF IsAlive
  <2> QED
    BY <2>1, <2>2 DEF LoopPlaces
<1>7. ASSUME NEW h \in Handlers, RequestSwitch(h) PROVE LoopInv'
  BY <1>7 DEF RequestSwitch, Arrive, HGoto, IsAlive, arriving
<1>8. ASSUME NEW h \in Handlers, SetAttribute(h) \/ SetScenario(h) PROVE LoopInv'
  BY <1>8 DEF SetAttribute, SetScenario, HGoto, IsAlive, arriving
<1>9. ASSUME NEW h \in Handlers, RequestLoad(h) \/ Label(h) \/ LoadRaises(h) \/ Insert(h) \/ Cut(h) PROVE LoopInv'
  <2>1. /\ hpc[h] \notin Starting
        /\ \E to \in HandlerPlaces \ Starting : hpc' = [hpc EXCEPT ![h] = to]
        /\ UNCHANGED <<loop, thread, apart>>
    BY <1>9 DEF RequestLoad, Label, LoadRaises, Insert, Cut, Arrive, HGoto, arriving
  <2> QED
    BY <2>1 DEF IsAlive
<1>10. ASSUME NEW l \in Loops, Loop(l) \/ TimeOut(l) PROVE LoopInv'
  <2>1. /\ loop[l] \in LoopPlaces \ {"new", "dead"}
        /\ \E to \in LoopPlaces : loop' = [loop EXCEPT ![l] = to]
        /\ UNCHANGED <<hpc, thread, apart>>
    BY <1>10 DEF Loop, Look, Due, Pause, TimeOut, Woken, Submit, LGoto, LoopPlaces
  <2> QED
    BY <2>1, LoopMoves
<1>11. ASSUME NEW c \in Calls, Call(c) PROVE LoopInv'
  BY <1>11 DEF Call, IsAlive, arriving
<1>12. CASE UNCHANGED vars
  BY <1>12 DEF vars, IsAlive, arriving
<1> QED
  BY <1>1, <1>2, <1>3, <1>4, <1>5, <1>6, <1>7, <1>8, <1>9, <1>10, <1>11, <1>12 DEF Next, Request, Handle

(***************************************************************************)
(* However many server threads start and stop the traffic, at most one      *)
(* arrival loop is alive while no two start() calls overlap                 *)
(* (console.py:89-98).                                                      *)
(***************************************************************************)
THEOREM AtMostOneLoop == Spec => []OneLoop
<1>1. LoopInv /\ [Next]_vars => LoopInv'
  BY LoopStep
<1>2. LoopInv => OneLoop
  <2>1. SUFFICES ASSUME LoopInv, apart.starts PROVE Cardinality({l \in Loops : IsAlive(l)}) <= 1
    BY DEF OneLoop
  <2>2. {l \in Loops : IsAlive(l)} \subseteq {thread}
    BY <2>1 DEF LoopInv, StartsApart
  <2>3. IsFiniteSet({thread}) /\ Cardinality({thread}) = 1
    BY FS_Singleton
  <2>4. /\ Cardinality({l \in Loops : IsAlive(l)}) <= Cardinality({thread})
        /\ Cardinality({l \in Loops : IsAlive(l)}) \in Nat
    BY <2>2, <2>3, FS_Subset, FS_CardinalityType
  <2> QED
    BY <2>3, <2>4
<1> QED
  BY <1>1, <1>2, LoopInit, PTL DEF Spec

-----------------------------------------------------------------------------
(* The simulator's calls and its prefix cache *)

BusyPlaces == {"queued", "admitted", "failing", "serving"}
CallPlaces == {"none", "called", "queued", "admitted", "failing", "serving"} \cup Settled

Busies == {c \in Calls : pc[c] \in BusyPlaces}
Queue  == {c \in Calls : pc[c] = "queued"}

BooksInv ==
  /\ pc \in [Calls -> CallPlaces]
  /\ inFlight = Cardinality(Busies)
  /\ queueDepth = Cardinality(Queue)

Distinct(keys) == \A i, j \in DOMAIN keys : keys[i] = keys[j] => i = j

Holds(keys, p) == \E i \in DOMAIN keys : keys[i] = p

CacheInv ==
  /\ cache \in Seq(Prefixes) /\ Len(cache) <= CacheCapacity
  /\ Distinct(cache)
  /\ latest # <<>> => Holds(cache, latest)

LEMMA CallsCounted ==
  ASSUME NEW S \in SUBSET Calls
  PROVE  IsFiniteSet(S) /\ Cardinality(S) \in Nat /\ Cardinality(S) <= Cardinality(Calls)
                        /\ Cardinality(Calls) \in Nat
BY SimAssumption, FS_Subset, FS_CardinalityType

\* One element put into a set of calls, or taken out of it.
LEMMA OneMore ==
  ASSUME NEW S \in SUBSET Calls, NEW c \in Calls, c \notin S
  PROVE  Cardinality(S \cup {c}) = Cardinality(S) + 1
BY CallsCounted, FS_AddElement

LEMMA OneLess ==
  ASSUME NEW S \in SUBSET Calls, NEW c \in S
  PROVE  Cardinality(S \ {c}) = Cardinality(S) - 1 /\ Cardinality(S) >= 1
<1>1. IsFiniteSet(S) /\ Cardinality(S) \in Nat
  BY CallsCounted
<1>2. Cardinality(S \ {c}) = Cardinality(S) - 1 /\ Cardinality(S \ {c}) \in Nat
  BY <1>1, CallsCounted, FS_RemoveElement
<1> QED
  BY <1>1, <1>2

\* What a call's step does to the sets the books count.
LEMMA CallMoves ==
  ASSUME BooksInv, NEW c \in Calls, NEW to \in CallPlaces, pc' = [pc EXCEPT ![c] = to]
  PROVE  /\ pc' \in [Calls -> CallPlaces]
         /\ Busies' = IF to \in BusyPlaces THEN Busies \cup {c} ELSE Busies \ {c}
         /\ Queue' = IF to = "queued" THEN Queue \cup {c} ELSE Queue \ {c}
BY DEF BooksInv, Busies, Queue

LEMMA BooksStep ==
  ASSUME BooksInv, NEW c \in Calls, Serve(c)
  PROVE  BooksInv'
<1>1. /\ Busies \in SUBSET Calls /\ Queue \in SUBSET Calls
      /\ inFlight = Cardinality(Busies) /\ queueDepth = Cardinality(Queue)
      /\ inFlight \in Nat /\ queueDepth \in Nat
      /\ c \in Busies <=> pc[c] \in BusyPlaces
      /\ c \in Queue <=> pc[c] = "queued"
  BY CallsCounted DEF BooksInv, Busies, Queue
<1>2. CASE Admit(c)
  <2>1. /\ pc[c] = "called" /\ inFlight' = inFlight + 1
        /\ \/ pc' = [pc EXCEPT ![c] = "queued"] /\ queueDepth' = queueDepth + 1
           \/ pc' = [pc EXCEPT ![c] = "admitted"] /\ queueDepth' = queueDepth
    BY <1>2 DEF Admit, Goto
  <2>2. c \notin Busies /\ c \notin Queue
    BY <1>1, <2>1 DEF BusyPlaces
  <2>3. CASE pc' = [pc EXCEPT ![c] = "queued"] /\ queueDepth' = queueDepth + 1
    <3>1. pc' \in [Calls -> CallPlaces] /\ Busies' = Busies \cup {c} /\ Queue' = Queue \cup {c}
      BY <2>3, CallMoves DEF BusyPlaces, CallPlaces
    <3>2. Cardinality(Busies') = Cardinality(Busies) + 1 /\ Cardinality(Queue') = Cardinality(Queue) + 1
      BY <1>1, <2>2, <3>1, OneMore
    <3> QED
      BY <1>1, <2>1, <2>3, <3>1, <3>2 DEF BooksInv
  <2>4. CASE pc' = [pc EXCEPT ![c] = "admitted"] /\ queueDepth' = queueDepth
    <3>0. pc' \in [Calls -> CallPlaces] /\ Busies' = Busies \cup {c} /\ Queue' = Queue \ {c}
      <4>1. "admitted" \in CallPlaces /\ "admitted" \in BusyPlaces /\ "admitted" # "queued"
        BY DEF BusyPlaces, CallPlaces
      <4> QED
        BY <2>4, <4>1, CallMoves
    <3>1. pc' \in [Calls -> CallPlaces] /\ Busies' = Busies \cup {c} /\ Queue' = Queue
      BY <2>2, <3>0
    <3>2. Cardinality(Busies') = Cardinality(Busies) + 1
      BY <1>1, <2>2, <3>1, OneMore
    <3> QED
      BY <1>1, <2>1, <2>4, <3>1, <3>2 DEF BooksInv
  <2> QED
    BY <2>1, <2>3, <2>4
<1>3. CASE LeaveQueue(c)
  <2>1. /\ pc[c] = "queued" /\ pc' = [pc EXCEPT ![c] = "admitted"] /\ inFlight' = inFlight
        /\ queueDepth' = AtLeastZero(queueDepth - 1)
    BY <1>3 DEF LeaveQueue, Goto, books
  <2>2. pc' \in [Calls -> CallPlaces] /\ Busies' = Busies \cup {c} /\ Queue' = Queue \ {c}
    BY <2>1, CallMoves DEF BusyPlaces, CallPlaces
  <2>3. Busies' = Busies
    BY <1>1, <2>1, <2>2 DEF BusyPlaces
  <2>4. Cardinality(Queue') = Cardinality(Queue) - 1 /\ Cardinality(Queue) >= 1
    BY <1>1, <2>1, <2>2, OneLess
  <2>5. queueDepth' = queueDepth - 1
    BY <1>1, <2>1, <2>4 DEF AtLeastZero
  <2> QED
    BY <1>1, <2>1, <2>2, <2>3, <2>4, <2>5 DEF BooksInv
<1>4. CASE FailInjected(c) \/ LookUp(c)
  <2>1. /\ pc[c] = "admitted" /\ inFlight' = inFlight /\ queueDepth' = queueDepth
        /\ \E to \in {"failing", "serving"} : pc' = [pc EXCEPT ![c] = to]
    BY <1>4 DEF FailInjected, LookUp, Goto, books
  <2>2. pc' \in [Calls -> CallPlaces] /\ Busies' = Busies \cup {c} /\ Queue' = Queue \ {c}
    BY <2>1, CallMoves DEF BusyPlaces, CallPlaces
  <2>3. Busies' = Busies /\ Queue' = Queue
    BY <1>1, <2>1, <2>2 DEF BusyPlaces
  <2> QED
    BY <1>1, <2>1, <2>2, <2>3 DEF BooksInv
<1>5. CASE Finish(c) \/ Fail(c)
  <2>1. /\ pc[c] \in {"serving", "failing"} /\ queueDepth' = queueDepth
        /\ inFlight' = AtLeastZero(inFlight - 1)
        /\ \E to \in Settled : pc' = [pc EXCEPT ![c] = to]
    BY <1>5 DEF Finish, Fail, Goto, Settled
  <2>2. pc' \in [Calls -> CallPlaces] /\ Busies' = Busies \ {c} /\ Queue' = Queue \ {c}
    BY <2>1, CallMoves DEF BusyPlaces, CallPlaces, Settled
  <2>3. Queue' = Queue
    BY <1>1, <2>1, <2>2
  <2>4. Cardinality(Busies') = Cardinality(Busies) - 1 /\ Cardinality(Busies) >= 1
    BY <1>1, <2>1, <2>2, OneLess DEF BusyPlaces
  <2>5. inFlight' = inFlight - 1
    BY <1>1, <2>1, <2>4 DEF AtLeastZero
  <2> QED
    BY <1>1, <2>1, <2>2, <2>3, <2>4, <2>5 DEF BooksInv
<1> QED
  BY <1>2, <1>3, <1>4, <1>5 DEF Serve

(***************************************************************************)
(* A look-up first makes room for one key, so a miss fits, and a hit that   *)
(* was the oldest key is put back at the end.                               *)
(***************************************************************************)
LEMMA CacheStep ==
  ASSUME CacheInv, NEW c \in Calls, Serve(c)
  PROVE  CacheInv'
<1>1. CASE UNCHANGED caching
  BY <1>1 DEF CacheInv, caching, Distinct, Holds
<1>2. CASE LookUp(c)
  <2>1. PICK p \in Prefixes : cache' = Remember(p) /\ latest' = p
    BY <1>2 DEF LookUp
  <2>2. PICK room : room = IF Len(cache) >= CacheCapacity THEN Tail(cache) ELSE cache
    OBVIOUS
  <2>3. cache' = IF Holds(room, p) THEN room ELSE Append(room, p)
    BY <2>1, <2>2 DEF Remember, Holds
  <2>4. cache \in Seq(Prefixes) /\ Len(cache) \in Nat /\ DOMAIN cache = 1 .. Len(cache)
    BY LenProperties DEF CacheInv
  <2>5. room \in Seq(Prefixes) /\ Len(room) \in Nat /\ Len(room) + 1 <= CacheCapacity /\ Distinct(room)
    <3>1. CASE Len(cache) >= CacheCapacity
      <4>1. cache # <<>>
        BY <2>4, <3>1, SimAssumption, EmptySeq
      <4>2. /\ room \in Seq(Prefixes) /\ Len(room) = Len(cache) - 1
            /\ \A i \in 1 .. Len(room) : room[i] = cache[i + 1]
        BY <2>2, <2>4, <3>1, <4>1, HeadTailProperties
      <4>3. DOMAIN room = 1 .. Len(room) /\ Len(room) \in Nat
        BY <4>2, LenProperties
      <4>4. Distinct(room)
        <5>1. SUFFICES ASSUME NEW i \in 1 .. Len(room), NEW j \in 1 .. Len(room), room[i] = room[j]
                       PROVE  i = j
          BY <4>3 DEF Distinct
        <5>2. /\ i + 1 \in 1 .. Len(cache) /\ j + 1 \in 1 .. Len(cache)
              /\ cache[i + 1] = cache[j + 1]
          BY <2>4, <4>2, <5>1
        <5>3. i + 1 = j + 1
          BY <2>4, <5>2 DEF CacheInv, Distinct
        <5> QED
          BY <4>3, <5>3
      <4> QED
        BY <2>4, <4>2, <4>3, <4>4, SimAssumption DEF CacheInv
    <3>2. CASE ~(Len(cache) >= CacheCapacity)
      BY <2>2, <2>4, <3>2, SimAssumption DEF CacheInv
    <3> QED
      BY <3>1, <3>2
  <2>6. CASE Holds(room, p)
    BY <2>1, <2>3, <2>5, <2>6, SimAssumption DEF CacheInv
  <2>7. CASE ~Holds(room, p)
    <3>1. PICK more : more = Append(room, p)
      OBVIOUS
    <3>2. /\ more \in Seq(Prefixes) /\ Len(more) = Len(room) + 1
          /\ \A i \in 1 .. Len(room) : more[i] = room[i]
          /\ more[Len(room) + 1] = p
      BY <2>5, <3>1, AppendProperties
    <3>3. DOMAIN more = 1 .. Len(room) + 1 /\ DOMAIN room = 1 .. Len(room)
      BY <2>5, <3>2, LenProperties
    <3>4. \A i \in 1 .. Len(room) : room[i] # p
      BY <2>7, <3>3 DEF Holds
    <3>5. Distinct(more)
      BY <2>5, <3>2, <3>3, <3>4 DEF Distinct
    <3>6. Holds(more, p)
      BY <2>5, <3>2, <3>3 DEF Holds
    <3> QED
      BY <2>1, <2>3, <2>5, <2>7, <3>1, <3>2, <3>5, <3>6 DEF CacheInv
  <2> QED
    BY <2>6, <2>7
<1> QED
  BY <1>1, <1>2 DEF Serve, Admit, LeaveQueue, FailInjected, Finish, Fail

-----------------------------------------------------------------------------
(* The arrivals *)

AboutToSubmit == {l \in Loops : loop[l] = "submit"}

Unborn == {h \in Handlers : hpc[h] \in {"check", "clear", "create"}}

\* The loops about to submit fit among the calls that are left.
SentInv ==
  /\ sent \in Nat
  /\ sent + Cardinality(AboutToSubmit) <= Cardinality(Calls)
  /\ \A c \in Calls : c > sent => pc[c] = "none"

\* The requests cover the threads constructed and those still to be.
BornInv ==
  /\ requests \in 0 .. MaxRequests
  /\ created \in Nat
  /\ created + Cardinality(Unborn) <= requests
  /\ thread \in 0 .. created
  /\ \A l \in Loops : l > created => loop[l] = "new"
  /\ stopped \in BOOLEAN

LEMMA ThreadsCounted ==
  /\ \A S \in SUBSET Loops : IsFiniteSet(S) /\ Cardinality(S) \in Nat
  /\ \A S \in SUBSET Handlers : IsFiniteSet(S) /\ Cardinality(S) \in Nat
<1>1. IsFiniteSet(Loops) /\ IsFiniteSet(Handlers)
  BY ConsoleAssumption, FS_Interval DEF Loops
<1> QED
  BY <1>1, FS_Subset, FS_CardinalityType

LEMMA SentStep ==
  ASSUME ThreadsOK, BooksInv, SentInv, [Next]_vars
  PROVE  SentInv'
<1> USE DEF ThreadsOK
<1>1. /\ AboutToSubmit \in SUBSET Loops /\ Cardinality(AboutToSubmit) \in Nat
      /\ IsFiniteSet(AboutToSubmit) /\ Cardinality(Calls) \in Nat
      /\ Calls = 1 .. Cardinality(Calls) /\ sent \in Nat
      /\ pc \in [Calls -> CallPlaces]
  BY ThreadsCounted, CallsCounted, ConsoleAssumption DEF AboutToSubmit, SentInv, BooksInv
<1>2. ASSUME AboutToSubmit' = AboutToSubmit, pc' = pc, sent' = sent PROVE SentInv'
  BY <1>2 DEF SentInv
<1>3. ASSUME NEW l \in Loops, Due(l) \/ TimeOut(l) PROVE SentInv'
  <2>1. /\ sent + Cardinality(AboutToSubmit) < Cardinality(Calls)
        /\ loop' = [loop EXCEPT ![l] = "submit"] /\ pc' = pc /\ sent' = sent
    BY <1>3 DEF Due, TimeOut, MoreToCome, LGoto, AboutToSubmit, simVars
  <2>2. AboutToSubmit' = AboutToSubmit \cup {l}
    BY <2>1 DEF AboutToSubmit
  <2>3. Cardinality(AboutToSubmit') <= Cardinality(AboutToSubmit) + 1 /\ Cardinality(AboutToSubmit') \in Nat
    <3>1. Cardinality(AboutToSubmit \cup {l}) \in {Cardinality(AboutToSubmit), Cardinality(AboutToSubmit) + 1}
      BY <1>1, FS_AddElement
    <3> QED
      BY <1>1, <2>2, <3>1
  <2> QED
    BY <1>1, <2>1, <2>3 DEF SentInv
<1>4. ASSUME NEW l \in Loops, Look(l) \/ Pause(l) \/ Woken(l) PROVE SentInv'
  <2>1. /\ loop[l] # "submit" /\ pc' = pc /\ sent' = sent
        /\ \E to \in LoopPlaces \ {"submit"} : loop' = [loop EXCEPT ![l] = to]
    BY <1>4 DEF Look, Pause, Woken, LGoto, simVars, LoopPlaces
  <2>2. AboutToSubmit' = AboutToSubmit
    BY <2>1 DEF AboutToSubmit
  <2> QED
    BY <1>2, <2>1, <2>2
<1>5. ASSUME NEW l \in Loops, Submit(l) PROVE SentInv'
  <2>1. /\ loop[l] = "submit" /\ loop' = [loop EXCEPT ![l] = "look"]
        /\ sent' = sent + 1 /\ pc' = [pc EXCEPT ![sent + 1] = "called"]
    BY <1>5 DEF Submit
  <2>2. AboutToSubmit' = AboutToSubmit \ {l} /\ l \in AboutToSubmit
    BY <2>1 DEF AboutToSubmit
  <2>3. Cardinality(AboutToSubmit') = Cardinality(AboutToSubmit) - 1
    BY <1>1, <2>2, FS_RemoveElement
  <2>4. \A c \in Calls : c > sent + 1 => pc'[c] = "none"
    BY <1>1, <2>1 DEF SentInv
  <2> QED
    BY <1>1, <2>1, <2>3, <2>4 DEF SentInv
<1>6. ASSUME NEW c \in Calls, Call(c) PROVE SentInv'
  <2>1. /\ pc[c] # "none" /\ sent' = sent /\ loop' = loop
        /\ \E to \in CallPlaces : pc' = [pc EXCEPT ![c] = to]
    BY <1>6 DEF Call, Serve, Admit, LeaveQueue, FailInjected, LookUp, Finish, Fail, Goto, CallPlaces,
                Settled, arriving
  <2>2. AboutToSubmit' = AboutToSubmit
    BY <2>1 DEF AboutToSubmit
  <2>3. \A d \in Calls : d > sent => pc'[d] = "none"
    BY <1>1, <2>1 DEF SentInv
  <2> QED
    BY <1>1, <2>1, <2>2, <2>3 DEF SentInv
<1>7. ASSUME NEW h \in Handlers, Launch(h) PROVE SentInv'
  <2>1. /\ pc' = pc /\ sent' = sent
        /\ loop' = [loop EXCEPT ![thread] = IF @ = "new" THEN "look" ELSE @]
    BY <1>7 DEF Launch, simVars
  <2>2. AboutToSubmit' = AboutToSubmit
    BY <2>1 DEF AboutToSubmit
  <2> QED
    BY <1>2, <2>1, <2>2
<1>8. ASSUME NEW h \in Handlers, Stop(h) PROVE SentInv'
  <2>1. /\ pc' = pc /\ sent' = sent
        /\ loop' = [l \in Loops |-> IF loop[l] = "wait" THEN "woken" ELSE loop[l]]
    BY <1>8 DEF Stop, simVars
  <2>2. AboutToSubmit' = AboutToSubmit
    BY <2>1 DEF AboutToSubmit
  <2> QED
    BY <1>2, <2>1, <2>2
<1>9. ASSUME UNCHANGED <<pc, loop, sent>> PROVE SentInv'
  BY <1>2, <1>9 DEF AboutToSubmit
<1>10. ASSUME NEW h \in Handlers,
              \/ RequestStart(h) \/ CheckRunning(h) \/ ClearStop(h) \/ CreateThread(h)
              \/ RequestSwitch(h) \/ SetAttribute(h) \/ SetScenario(h)
              \/ RequestLoad(h) \/ Label(h) \/ LoadRaises(h) \/ Insert(h) \/ Cut(h)
       PROVE  UNCHANGED <<pc, loop, sent>>
  BY <1>10 DEF RequestStart, CheckRunning, ClearStop, CreateThread, RequestSwitch, SetAttribute,
               SetScenario, RequestLoad, Label, LoadRaises, Insert, Cut, simVars, arriving
<1>11. CASE UNCHANGED vars
  BY <1>9, <1>11 DEF vars, simVars, arriving
<1> QED
  BY <1>3, <1>4, <1>5, <1>6, <1>7, <1>8, <1>9, <1>10, <1>11 DEF Next, Request, Handle, Loop

LEMMA BornStep ==
  ASSUME ThreadsOK, BornInv, [Next]_vars
  PROVE  BornInv'
<1> USE DEF ThreadsOK
<1>1. /\ Unborn \in SUBSET Handlers /\ IsFiniteSet(Unborn) /\ Cardinality(Unborn) \in Nat
      /\ requests \in Nat /\ created \in Nat /\ thread \in Nat /\ MaxRequests \in Nat
  BY ThreadsCounted, ConsoleAssumption DEF Unborn, BornInv
<1>2. ASSUME NEW h \in Handlers, RequestStart(h) PROVE BornInv'
  <2>1. /\ requests < MaxRequests /\ requests' = requests + 1 /\ UNCHANGED <<stopped, thread, created, loop>>
        /\ hpc[h] = "idle" /\ hpc' = [hpc EXCEPT ![h] = "check"]
    BY <1>2 DEF RequestStart, Arrive, HGoto, arriving
  <2>2. Unborn' = Unborn \cup {h} /\ h \notin Unborn
    BY <2>1 DEF Unborn
  <2>3. Cardinality(Unborn') = Cardinality(Unborn) + 1
    BY <1>1, <2>2, FS_AddElement
  <2> QED
    BY <1>1, <2>1, <2>3 DEF BornInv
<1>3. ASSUME NEW h \in Handlers, CheckRunning(h) PROVE BornInv'
  <2>1. /\ UNCHANGED <<requests, stopped, thread, created, loop>>
        /\ hpc[h] = "check" /\ \E to \in {"idle", "clear"} : hpc' = [hpc EXCEPT ![h] = to]
    BY <1>3 DEF CheckRunning, HGoto, arriving
  <2>2. Unborn' \in SUBSET Unborn
    BY <2>1 DEF Unborn
  <2>3. Cardinality(Unborn') <= Cardinality(Unborn) /\ Cardinality(Unborn') \in Nat
    BY <1>1, <2>2, FS_Subset, FS_CardinalityType
  <2> QED
    BY <1>1, <2>1, <2>3 DEF BornInv
<1>4. ASSUME NEW h \in Handlers, ClearStop(h) PROVE BornInv'
  <2>1. /\ UNCHANGED <<requests, thread, created, loop>> /\ stopped' = FALSE
        /\ hpc[h] = "clear" /\ hpc' = [hpc EXCEPT ![h] = "create"]
    BY <1>4 DEF ClearStop, HGoto, arriving
  <2>2. Unborn' = Unborn
    BY <2>1 DEF Unborn
  <2> QED
    BY <1>1, <2>1, <2>2 DEF BornInv
<1>5. ASSUME NEW h \in Handlers, CreateThread(h) PROVE BornInv'
  <2>1. /\ UNCHANGED <<requests, stopped, loop>> /\ created' = created + 1 /\ thread' = created + 1
        /\ hpc[h] = "create" /\ hpc' = [hpc EXCEPT ![h] = "launch"]
    BY <1>5 DEF CreateThread, HGoto
  <2>2. Unborn' = Unborn \ {h} /\ h \in Unborn
    BY <2>1 DEF Unborn
  <2>3. Cardinality(Unborn') = Cardinality(Unborn) - 1
    BY <1>1, <2>2, FS_RemoveElement
  <2>4. \A l \in Loops : l > created + 1 => loop[l] = "new"
    BY <1>1, ConsoleAssumption DEF BornInv, Loops
  <2> QED
    BY <1>1, <2>1, <2>3, <2>4 DEF BornInv
<1>6. ASSUME NEW h \in Handlers, Launch(h) PROVE BornInv'
  <2>1. /\ UNCHANGED <<requests, stopped, thread, created>>
        /\ hpc[h] = "launch" /\ hpc' = [hpc EXCEPT ![h] = "idle"]
        /\ loop' = [loop EXCEPT ![thread] = IF @ = "new" THEN "look" ELSE @]
    BY <1>6 DEF Launch, HGoto
  <2>2. Unborn' = Unborn
    BY <2>1 DEF Unborn
  <2>3. \A l \in Loops : l > created => loop'[l] = "new"
    BY <1>1, <2>1 DEF BornInv, Loops
  <2> QED
    BY <1>1, <2>1, <2>2, <2>3 DEF BornInv
<1>7. ASSUME NEW h \in Handlers, Stop(h) PROVE BornInv'
  <2>1. /\ requests < MaxRequests /\ requests' = requests + 1 /\ UNCHANGED <<thread, created>>
        /\ hpc[h] = "idle" /\ hpc' = [hpc EXCEPT ![h] = "idle"] /\ stopped' = TRUE
        /\ loop' = [l \in Loops |-> IF loop[l] = "wait" THEN "woken" ELSE loop[l]]
    BY <1>7 DEF Stop, Arrive, HGoto
  <2>2. Unborn' = Unborn
    BY <2>1 DEF Unborn
  <2>3. \A l \in Loops : l > created => loop'[l] = "new"
    BY <2>1 DEF BornInv
  <2> QED
    BY <1>1, <2>1, <2>2, <2>3 DEF BornInv
<1>8. ASSUME NEW h \in Handlers, RequestSwitch(h) \/ RequestLoad(h) PROVE BornInv'
  <2>1. /\ requests < MaxRequests /\ requests' = requests + 1 /\ UNCHANGED <<stopped, thread, created, loop>>
        /\ hpc[h] = "idle" /\ \E to \in {"switch", "test"} : hpc' = [hpc EXCEPT ![h] = to]
    BY <1>8 DEF RequestSwitch, RequestLoad, Arrive, HGoto, arriving
  <2>2. Unborn' = Unborn
    BY <2>1 DEF Unborn
  <2> QED
    BY <1>1, <2>1, <2>2 DEF BornInv
<1>9. ASSUME NEW h \in Handlers,
             SetAttribute(h) \/ SetScenario(h) \/ Label(h) \/ LoadRaises(h) \/ Insert(h) \/ Cut(h)
      PROVE  BornInv'
  <2>1. /\ UNCHANGED <<requests, stopped, thread, created, loop>>
        /\ hpc[h] \in {"switch", "test", "insert", "cut"}
        /\ \E to \in {"switch", "idle", "insert", "cut"} : hpc' = [hpc EXCEPT ![h] = to]
    BY <1>9 DEF SetAttribute, SetScenario, Label, LoadRaises, Insert, Cut, HGoto, arriving
  <2>2. Unborn' = Unborn
    BY <2>1 DEF Unborn
  <2> QED
    BY <1>1, <2>1, <2>2 DEF BornInv
<1>10. ASSUME NEW l \in Loops, Loop(l) \/ TimeOut(l) PROVE BornInv'
  <2>1. /\ UNCHANGED <<requests, stopped, thread, created, hpc>>
        /\ loop[l] # "new" /\ \E to \in LoopPlaces : loop' = [loop EXCEPT ![l] = to]
    BY <1>10 DEF Loop, Look, Due, Pause, TimeOut, Woken, Submit, LGoto, LoopPlaces
  <2>2. Unborn' = Unborn
    BY <2>1 DEF Unborn
  <2>3. \A k \in Loops : k > created => loop'[k] = "new"
    BY <2>1 DEF BornInv
  <2> QED
    BY <1>1, <2>1, <2>2, <2>3 DEF BornInv
<1>11. ASSUME UNCHANGED <<requests, stopped, thread, created, loop, hpc>> PROVE BornInv'
  <2>1. Unborn' = Unborn
    BY <1>11 DEF Unborn
  <2> QED
    BY <1>11, <2>1 DEF BornInv
<1>12. ASSUME NEW c \in Calls, Call(c) PROVE BornInv'
  BY <1>11, <1>12 DEF Call, arriving
<1>13. CASE UNCHANGED vars
  BY <1>11, <1>13 DEF vars, arriving
<1> QED
  BY <1>2, <1>3, <1>4, <1>5, <1>6, <1>7, <1>8, <1>9, <1>10, <1>12, <1>13 DEF Next, Request, Handle

-----------------------------------------------------------------------------
(* Scenarios and load tests *)

Settings == TUNABLE \X Nat

Records == [label : DOMAIN Scenarios, ran : [TUNABLE -> Nat], steady : BOOLEAN]

\* The last assignment to key among the settings gives it this value.
LastSet(settings, key, value) ==
  \E i \in DOMAIN settings :
    /\ settings[i] = <<key, value>>
    /\ \A j \in DOMAIN settings : j > i => settings[j][1] # key

Untouched(settings, key) == \A i \in DOMAIN settings : settings[i][1] # key

\* What the switch of h has still to do ends in the scenario it switches to.
Leads(h) ==
  \A key \in TUNABLE :
    \/ LastSet(plan[h], key, Expected(target[h])[key])
    \/ Untouched(plan[h], key) /\ tunable[key] = Expected(target[h])[key]

NobodySwitches == \A h \in Handlers : hpc[h] # "switch"

SwitchTypes ==
  /\ tunable \in [TUNABLE -> Nat]
  /\ plan \in [Handlers -> Seq(Settings)]
  /\ target \in [Handlers -> DOMAIN Scenarios] /\ scenario \in DOMAIN Scenarios
  /\ test \in [Handlers -> Records] /\ history \in Seq(Records)

\* While switches keep apart, one at most is under way, and it leads to its end.
SwitchOK ==
  apart.switches =>
    /\ \A g, h \in Handlers : hpc[g] = "switch" /\ hpc[h] = "switch" => g = h
    /\ \A h \in Handlers : hpc[h] = "switch" => Leads(h)
    /\ NobodySwitches => tunable = Expected(scenario)

(***************************************************************************)
(* A test that no switch has touched began under the scenario of now, and   *)
(* keeps it until its record is labelled.                                   *)
(***************************************************************************)
TestOK ==
  /\ \A h \in Handlers : test[h].steady =>
       /\ hpc[h] = "test" => NobodySwitches /\ test[h].ran = tunable /\ tunable = Expected(scenario)
       /\ hpc[h] = "insert" => test[h].ran = Expected(test[h].label)
  /\ \A i \in DOMAIN history : history[i].steady => history[i].ran = Expected(history[i].label)

Cutters == {h \in Handlers : hpc[h] = "cut"}

HistoryFits == Len(history) <= HistorySize + Cardinality(Cutters)

SwitchInv == SwitchTypes /\ SwitchOK /\ TestOK /\ HistoryFits

LEMMA HealthyIsOne == Healthy \in DOMAIN Scenarios /\ DOMAIN Scenarios[Healthy] = {}
BY ConsoleAssumption DEF Healthy

LEMMA ScenarioType ==
  ASSUME NEW name \in DOMAIN Scenarios
  PROVE  /\ DOMAIN Scenarios[name] \in SUBSET TUNABLE
         /\ Scenarios[name] \in [DOMAIN Scenarios[name] -> Nat]
         /\ Expected(name) \in [TUNABLE -> Nat]
<1>1. PICK keys \in SUBSET TUNABLE : Scenarios[name] \in [keys -> Nat]
  BY ConsoleAssumption
<1>2. DOMAIN Scenarios[name] = keys
  BY <1>1
<1> QED
  BY <1>1, <1>2, ConsoleAssumption DEF Expected

LEMMA BaselineIsHealthy == Expected(Healthy) = Baseline
BY HealthyIsOne, ConsoleAssumption DEF Expected

\* What the second of two runs of assignments does not touch, the first decides.
LEMMA LastOfTwo ==
  ASSUME NEW s \in Seq(Settings), NEW t \in Seq(Settings), NEW key \in TUNABLE, NEW value \in Nat
  PROVE  /\ s \o t \in Seq(Settings)
         /\ Untouched(s, key) /\ Untouched(t, key) => Untouched(s \o t, key)
         /\ LastSet(t, key, value) => LastSet(s \o t, key, value)
         /\ LastSet(s, key, value) /\ Untouched(t, key) => LastSet(s \o t, key, value)
<1>1. PICK st : st = s \o t
  OBVIOUS
<1>2. /\ st \in Seq(Settings) /\ Len(st) = Len(s) + Len(t)
      /\ \A i \in 1 .. Len(s) + Len(t) : st[i] = IF i <= Len(s) THEN s[i] ELSE t[i - Len(s)]
  BY <1>1, ConcatProperties
<1>3. /\ Len(s) \in Nat /\ Len(t) \in Nat
      /\ DOMAIN s = 1 .. Len(s) /\ DOMAIN t = 1 .. Len(t) /\ DOMAIN st = 1 .. Len(s) + Len(t)
  BY <1>2, LenProperties
<1>4. /\ \A i \in DOMAIN s : i \in DOMAIN st /\ st[i] = s[i]
      /\ \A i \in DOMAIN t : i + Len(s) \in DOMAIN st /\ st[i + Len(s)] = t[i]
      /\ \A i \in DOMAIN st : \/ i \in DOMAIN s
                              \/ i - Len(s) \in DOMAIN t /\ st[i] = t[i - Len(s)]
  <2>1. ASSUME NEW i \in DOMAIN s PROVE i \in DOMAIN st /\ st[i] = s[i]
    BY <1>2, <1>3, <2>1
  <2>2. ASSUME NEW i \in DOMAIN t PROVE i + Len(s) \in DOMAIN st /\ st[i + Len(s)] = t[i]
    <3>1. i \in Int /\ 1 <= i /\ i <= Len(t)
      BY <1>3, <2>2
    <3>2. i + Len(s) \in 1 .. Len(s) + Len(t) /\ ~(i + Len(s) <= Len(s)) /\ i + Len(s) - Len(s) = i
      BY <1>3, <3>1
    <3> QED
      BY <1>2, <1>3, <3>2
  <2>3. ASSUME NEW i \in DOMAIN st, i \notin DOMAIN s
        PROVE  i - Len(s) \in DOMAIN t /\ st[i] = t[i - Len(s)]
    <3>1. i \in Int /\ ~(i <= Len(s)) /\ i <= Len(s) + Len(t)
      BY <1>3, <2>3
    <3>2. st[i] = t[i - Len(s)]
      BY <1>2, <1>3, <2>3, <3>1
    <3> QED
      BY <1>3, <3>1, <3>2
  <2> QED
    BY <2>1, <2>2, <2>3
<1>5. Untouched(s, key) /\ Untouched(t, key) => Untouched(st, key)
  BY <1>4 DEF Untouched
<1>6. ASSUME LastSet(t, key, value) PROVE LastSet(st, key, value)
  <2>1. PICK i \in DOMAIN t : /\ t[i] = <<key, value>>
                              /\ \A j \in DOMAIN t : j > i => t[j][1] # key
    BY <1>6 DEF LastSet
  <2>2. i + Len(s) \in DOMAIN st /\ st[i + Len(s)] = <<key, value>>
    BY <1>4, <2>1
  <2>3. ASSUME NEW j \in DOMAIN st, j > i + Len(s) PROVE st[j][1] # key
    <3>1. j - Len(s) \in DOMAIN t /\ st[j] = t[j - Len(s)] /\ j - Len(s) > i
      BY <1>3, <1>4, <2>3
    <3> QED
      BY <2>1, <3>1
  <2> QED
    BY <2>2, <2>3 DEF LastSet
<1>7. ASSUME LastSet(s, key, value), Untouched(t, key) PROVE LastSet(st, key, value)
  <2>1. PICK i \in DOMAIN s : /\ s[i] = <<key, value>>
                              /\ \A j \in DOMAIN s : j > i => s[j][1] # key
    BY <1>7 DEF LastSet
  <2>2. ASSUME NEW j \in DOMAIN st, j > i PROVE st[j][1] # key
    BY <1>4, <1>7, <2>1, <2>2 DEF Untouched
  <2> QED
    BY <1>4, <2>1, <2>2 DEF LastSet
<1> QED
  BY <1>1, <1>2, <1>5, <1>6, <1>7

LEMMA OneAssignment ==
  ASSUME NEW key \in TUNABLE, NEW keys \in SUBSET TUNABLE, NEW values \in [keys -> Nat]
  PROVE  /\ SetOne(key, keys, values) \in Seq(Settings)
         /\ \A k \in TUNABLE : k = key /\ k \in keys => LastSet(SetOne(key, keys, values), k, values[k])
         /\ \A k \in TUNABLE : k # key \/ k \notin keys => Untouched(SetOne(key, keys, values), k)
<1>1. CASE key \in keys
  <2>1. PICK one : one = << <<key, values[key]>> >>
    OBVIOUS
  <2>2. /\ one \in Seq(Settings) /\ DOMAIN one = {1} /\ one[1] = <<key, values[key]>>
        /\ one[1][1] = key
    BY <1>1, <2>1 DEF Settings
  <2>3. LastSet(one, key, values[key])
    BY <2>2 DEF LastSet
  <2>4. \A k \in TUNABLE : k # key => Untouched(one, k)
    BY <2>2 DEF Untouched
  <2>5. SetOne(key, keys, values) = one
    BY <1>1, <2>1 DEF SetOne
  <2> QED
    BY <1>1, <2>2, <2>3, <2>4, <2>5
<1>2. CASE key \notin keys
  <2>1. SetOne(key, keys, values) = <<>> /\ DOMAIN <<>> = {}
    BY <1>2 DEF SetOne
  <2> QED
    BY <1>2, <2>1, EmptySeq DEF Untouched
<1> QED
  BY <1>1, <1>2

LEMMA AssignsEach ==
  ASSUME NEW keys \in SUBSET TUNABLE, NEW values \in [keys -> Nat]
  PROVE  /\ Assign(keys, values) \in Seq(Settings)
         /\ \A k \in keys : LastSet(Assign(keys, values), k, values[k])
         /\ \A k \in TUNABLE \ keys : Untouched(Assign(keys, values), k)
<1>1. PICK a : a = SetOne("failure_rate", keys, values)
  OBVIOUS
<1>2. PICK b : b = SetOne("base_overhead_ms", keys, values)
  OBVIOUS
<1>3. PICK c : c = SetOne("decode_ms_per_token", keys, values)
  OBVIOUS
<1>4. /\ "failure_rate" \in TUNABLE /\ "base_overhead_ms" \in TUNABLE /\ "decode_ms_per_token" \in TUNABLE
      /\ \A k \in TUNABLE : k \in {"failure_rate", "base_overhead_ms", "decode_ms_per_token"}
  BY DEF TUNABLE
<1>5. a \in Seq(Settings) /\ b \in Seq(Settings) /\ c \in Seq(Settings)
  BY <1>1, <1>2, <1>3, <1>4, OneAssignment
<1>6. /\ \A k \in TUNABLE : k # "failure_rate" \/ k \notin keys => Untouched(a, k)
      /\ \A k \in TUNABLE : k # "base_overhead_ms" \/ k \notin keys => Untouched(b, k)
      /\ \A k \in TUNABLE : k # "decode_ms_per_token" \/ k \notin keys => Untouched(c, k)
  BY <1>1, <1>2, <1>3, <1>4, OneAssignment
<1>7. /\ "failure_rate" \in keys => LastSet(a, "failure_rate", values["failure_rate"])
      /\ "base_overhead_ms" \in keys => LastSet(b, "base_overhead_ms", values["base_overhead_ms"])
      /\ "decode_ms_per_token" \in keys => LastSet(c, "decode_ms_per_token", values["decode_ms_per_token"])
  BY <1>1, <1>2, <1>3, <1>4, OneAssignment
<1>8. Assign(keys, values) = (a \o b) \o c
  BY <1>1, <1>2, <1>3 DEF Assign
<1>9. PICK ab : ab = a \o b
  OBVIOUS
<1>10. ab \in Seq(Settings) /\ ab \o c \in Seq(Settings)
  BY <1>5, <1>9, ConcatProperties
<1>11. ASSUME NEW k \in keys PROVE LastSet(ab \o c, k, values[k])
  <2>1. k \in TUNABLE /\ values[k] \in Nat
    OBVIOUS
  <2>2. CASE k = "failure_rate"
    <3>1. LastSet(a, k, values[k]) /\ Untouched(b, k) /\ Untouched(c, k)
      BY <1>6, <1>7, <2>1, <2>2
    <3>2. LastSet(ab, k, values[k])
      BY <1>5, <1>9, <2>1, <3>1, LastOfTwo
    <3> QED
      BY <1>5, <1>10, <2>1, <3>1, <3>2, LastOfTwo
  <2>3. CASE k = "base_overhead_ms"
    <3>1. LastSet(b, k, values[k]) /\ Untouched(c, k)
      BY <1>6, <1>7, <2>1, <2>3
    <3>2. LastSet(ab, k, values[k])
      BY <1>5, <1>9, <2>1, <3>1, LastOfTwo
    <3> QED
      BY <1>5, <1>10, <2>1, <3>1, <3>2, LastOfTwo
  <2>4. CASE k = "decode_ms_per_token"
    <3>1. LastSet(c, k, values[k])
      BY <1>7, <2>4
    <3> QED
      BY <1>5, <1>10, <2>1, <3>1, LastOfTwo
  <2> QED
    BY <1>4, <2>1, <2>2, <2>3, <2>4
<1>12. ASSUME NEW k \in TUNABLE \ keys PROVE Untouched(ab \o c, k)
  <2>1. Untouched(a, k) /\ Untouched(b, k) /\ Untouched(c, k)
    BY <1>6
  <2>2. Untouched(ab, k)
    BY <1>5, <1>9, <2>1, LastOfTwo
  <2> QED
    BY <1>5, <1>10, <2>1, <2>2, LastOfTwo
<1> QED
  BY <1>8, <1>9, <1>10, <1>11, <1>12

\* The whole plan of a switch gives each attribute its value in the scenario.
LEMMA PlanLeads ==
  ASSUME NEW name \in DOMAIN Scenarios
  PROVE  /\ SwitchPlan(name) \in Seq(Settings)
         /\ \A key \in TUNABLE : LastSet(SwitchPlan(name), key, Expected(name)[key])
<1>1. PICK keys : keys = DOMAIN Scenarios[name]
  OBVIOUS
<1>2. keys \in SUBSET TUNABLE /\ Scenarios[name] \in [keys -> Nat]
  BY <1>1, ScenarioType
<1>3. PICK s : s = Assign(TUNABLE, Baseline)
  OBVIOUS
<1>4. PICK t : t = Assign(keys, Scenarios[name])
  OBVIOUS
<1>5. SwitchPlan(name) = s \o t
  BY <1>1, <1>3, <1>4 DEF SwitchPlan
<1>6. /\ s \in Seq(Settings) /\ t \in Seq(Settings)
      /\ \A k \in TUNABLE : LastSet(s, k, Baseline[k])
      /\ \A k \in keys : LastSet(t, k, Scenarios[name][k])
      /\ \A k \in TUNABLE \ keys : Untouched(t, k)
  BY <1>2, <1>3, <1>4, AssignsEach, ConsoleAssumption
<1>7. ASSUME NEW key \in TUNABLE PROVE LastSet(s \o t, key, Expected(name)[key])
  <2>1. CASE key \in keys
    <3>1. Expected(name)[key] = Scenarios[name][key] /\ Scenarios[name][key] \in Nat
      BY <1>1, <1>2, <2>1 DEF Expected
    <3> QED
      BY <1>6, <2>1, <3>1, LastOfTwo
  <2>2. CASE key \notin keys
    <3>1. Expected(name)[key] = Baseline[key] /\ Baseline[key] \in Nat
      BY <1>1, <2>2, ConsoleAssumption DEF Expected
    <3> QED
      BY <1>6, <2>2, <3>1, LastOfTwo
  <2> QED
    BY <2>1, <2>2
<1> QED
  BY <1>5, <1>6, <1>7, ConcatProperties

LEMMA SwitchTypesStep ==
  ASSUME ThreadsOK, SwitchTypes, [Next]_vars
  PROVE  SwitchTypes'
<1> USE DEF SwitchTypes
<1>1. ASSUME NEW h \in Handlers, RequestSwitch(h) PROVE SwitchTypes'
  <2>1. PICK name \in DOMAIN Scenarios :
          /\ target' = [target EXCEPT ![h] = name]
          /\ plan' = [plan EXCEPT ![h] = SwitchPlan(name)]
    BY <1>1 DEF RequestSwitch
  <2>2. SwitchPlan(name) \in Seq(Settings)
    BY PlanLeads
  <2>3. /\ test' = [g \in Handlers |-> [test[g] EXCEPT !.steady = @ /\ hpc[g] # "test"]]
        /\ UNCHANGED <<tunable, scenario, history>>
    BY <1>1 DEF RequestSwitch, simVars
  <2>4. test' \in [Handlers -> Records]
    BY <2>3 DEF Records
  <2> QED
    BY <2>1, <2>2, <2>3, <2>4
<1>2. ASSUME NEW h \in Handlers, SetAttribute(h) PROVE SwitchTypes'
  <2>1. /\ plan[h] # <<>> /\ plan[h] \in Seq(Settings)
        /\ tunable' = [tunable EXCEPT ![Head(plan[h])[1]] = Head(plan[h])[2]]
        /\ plan' = [plan EXCEPT ![h] = Tail(@)]
        /\ UNCHANGED <<target, scenario, test, history>>
    BY <1>2 DEF SetAttribute, testing
  <2>2. Head(plan[h]) \in Settings /\ Tail(plan[h]) \in Seq(Settings)
    BY <2>1, HeadTailProperties
  <2>3. Head(plan[h])[1] \in TUNABLE /\ Head(plan[h])[2] \in Nat
    BY <2>2 DEF Settings
  <2>4. tunable' \in [TUNABLE -> Nat]
    BY <2>1, <2>3
  <2> QED
    BY <2>1, <2>2, <2>4
<1>3. ASSUME NEW h \in Handlers, SetScenario(h) PROVE SwitchTypes'
  BY <1>3, HealthyIsOne DEF SetScenario, testing, simVars
<1>4. ASSUME NEW h \in Handlers, RequestLoad(h) PROVE SwitchTypes'
  <2>1. PICK steady \in BOOLEAN :
          test' = [test EXCEPT ![h] = [label |-> Healthy, ran |-> tunable, steady |-> steady]]
    <3>1. (apart.switches /\ \A g \in Handlers : hpc[g] # "switch") \in BOOLEAN
      BY DEF ThreadsOK
    <3> QED
      BY <1>4, <3>1 DEF RequestLoad
  <2>2. UNCHANGED <<tunable, plan, target, scenario, history>>
    BY <1>4 DEF RequestLoad, simVars, switching
  <2>3. [label |-> Healthy, ran |-> tunable, steady |-> steady] \in Records
    BY HealthyIsOne DEF Records
  <2> QED
    BY <2>1, <2>2, <2>3
<1>5. ASSUME NEW h \in Handlers, Label(h) PROVE SwitchTypes'
  BY <1>5 DEF Label, Records, simVars, switching
<1>6. ASSUME NEW h \in Handlers, Insert(h) PROVE SwitchTypes'
  <2>1. /\ history' = <<test[h]>> \o history /\ test' = [test EXCEPT ![h] = NoTest]
        /\ UNCHANGED <<tunable, plan, target, scenario>>
    BY <1>6 DEF Insert, simVars, switching
  <2>2. <<test[h]>> \in Seq(Records) /\ history \in Seq(Records)
    OBVIOUS
  <2>3. <<test[h]>> \o history \in Seq(Records)
    BY <2>2, ConcatProperties
  <2>4. NoTest \in Records
    BY HealthyIsOne, ConsoleAssumption DEF NoTest, Records
  <2> QED
    BY <2>1, <2>3, <2>4
<1>7. ASSUME NEW h \in Handlers, Cut(h) PROVE SwitchTypes'
  <2>1. PICK n : n = IF Len(history) < HistorySize THEN Len(history) ELSE HistorySize
    OBVIOUS
  <2>2. history' = SubSeq(history, 1, n) /\ UNCHANGED <<tunable, plan, target, scenario, test>>
    BY <1>7, <2>1 DEF Cut, simVars, switching
  <2>3. Len(history) \in Nat /\ DOMAIN history = 1 .. Len(history) /\ history \in [1 .. Len(history) -> Records]
    BY LenProperties
  <2>4. n \in Nat /\ \A i \in 1 .. n : history[i] \in Records
    BY <2>1, <2>3, ConsoleAssumption
  <2>5. SubSeq(history, 1, n) \in Seq(Records)
    BY <2>4, SubSeqProperties
  <2> QED
    BY <2>2, <2>5
<1>8. ASSUME UNCHANGED <<tunable, plan, target, scenario, test, history>> PROVE SwitchTypes'
  BY <1>8
<1>9. ASSUME NEW h \in Handlers,
             \/ RequestStart(h) \/ CheckRunning(h) \/ ClearStop(h) \/ CreateThread(h) \/ Launch(h)
             \/ Stop(h)
      PROVE  UNCHANGED <<tunable, plan, target, scenario, test, history>>
  BY <1>9 DEF RequestStart, CheckRunning, ClearStop, CreateThread, Launch, Stop, simVars, switching, testing
<1>10. ASSUME NEW l \in Loops, Loop(l) \/ TimeOut(l)
       PROVE  UNCHANGED <<tunable, plan, target, scenario, test, history>>
  BY <1>10 DEF Loop, Look, Due, Pause, TimeOut, Woken, Submit, LGoto, simVars, switching, testing
<1>11. ASSUME NEW c \in Calls, Call(c)
       PROVE  UNCHANGED <<tunable, plan, target, scenario, test, history>>
  BY <1>11 DEF Call, Serve, Admit, LeaveQueue, FailInjected, LookUp, Finish, Fail, testing
<1>12. CASE UNCHANGED vars
  BY <1>8, <1>12 DEF vars, simVars, switching, testing
<1>13. ASSUME NEW h \in Handlers, LoadRaises(h) PROVE SwitchTypes'
  <2>1. NoTest \in Records
    BY HealthyIsOne, ConsoleAssumption DEF NoTest, Records
  <2> QED
    BY <1>13, <2>1 DEF LoadRaises, simVars, switching
<1> QED
  BY <1>1, <1>2, <1>3, <1>4, <1>5, <1>6, <1>7, <1>8, <1>9, <1>10, <1>11, <1>12, <1>13
     DEF Next, Request, Handle

\* One assignment done, the rest of the plan leads where the plan led.
LEMMA SettingLeads ==
  ASSUME SwitchTypes, NEW h \in Handlers, Leads(h), SetAttribute(h)
  PROVE  Leads(h)'
<1>1. PICK s : s = plan[h]
  OBVIOUS
<1>2. PICK e : e = Expected(target[h])
  OBVIOUS
<1>3. /\ s \in Seq(Settings) /\ s # <<>> /\ tunable \in [TUNABLE -> Nat]
      /\ tunable' = [tunable EXCEPT ![Head(s)[1]] = Head(s)[2]]
      /\ plan'[h] = Tail(s) /\ Expected(target'[h]) = e
  BY <1>1, <1>2 DEF SetAttribute, SwitchTypes, Expected
<1>4. /\ Len(s) \in Nat /\ DOMAIN s = 1 .. Len(s) /\ Head(s) = s[1] /\ 1 \in DOMAIN s
      /\ Tail(s) \in Seq(Settings) /\ Len(Tail(s)) = Len(s) - 1
      /\ \A i \in 1 .. Len(Tail(s)) : Tail(s)[i] = s[i + 1]
  BY <1>3, HeadTailProperties, LenProperties, EmptySeq
<1>5. PICK t : t = Tail(s)
  OBVIOUS
<1>6. /\ DOMAIN t = 1 .. Len(s) - 1 /\ \A i \in DOMAIN t : i + 1 \in DOMAIN s /\ t[i] = s[i + 1]
  BY <1>4, <1>5, LenProperties
<1>7. s[1] \in Settings /\ s[1][1] \in TUNABLE
  <2>1. s[1] \in Settings
    BY <1>3, <1>4, ElementOfSeq
  <2> QED
    BY <2>1 DEF Settings
<1>8. SUFFICES ASSUME NEW key \in TUNABLE
               PROVE  LastSet(t, key, e[key]) \/ (Untouched(t, key) /\ tunable'[key] = e[key])
  <2>1. (\A key \in TUNABLE :
           \/ LastSet(plan'[h], key, Expected(target'[h])[key])
           \/ Untouched(plan'[h], key) /\ tunable'[key] = Expected(target'[h])[key]) => Leads(h)'
    BY DEF Leads, LastSet, Untouched, Expected
  <2> QED
    BY <1>3, <1>5, <2>1
<1>9. CASE LastSet(s, key, e[key])
  <2>1. PICK i \in DOMAIN s : /\ s[i] = <<key, e[key]>>
                              /\ \A j \in DOMAIN s : j > i => s[j][1] # key
    BY <1>9 DEF LastSet
  <2>2. CASE i = 1
    <3>1. tunable'[key] = e[key]
      BY <1>3, <1>4, <2>1, <2>2
    <3>2. Untouched(t, key)
      BY <1>4, <1>6, <2>1, <2>2 DEF Untouched
    <3> QED
      BY <3>1, <3>2
  <2>3. CASE i # 1
    <3>1. i - 1 \in DOMAIN t /\ t[i - 1] = <<key, e[key]>>
      BY <1>4, <1>6, <2>1, <2>3
    <3>2. ASSUME NEW j \in DOMAIN t, j > i - 1 PROVE t[j][1] # key
      <4>1. j + 1 \in DOMAIN s /\ j + 1 > i /\ t[j] = s[j + 1]
        BY <1>4, <1>6, <2>1, <3>2
      <4> QED
        BY <2>1, <4>1
    <3> QED
      BY <3>1, <3>2 DEF LastSet
  <2> QED
    BY <2>2, <2>3
<1>10. CASE Untouched(s, key) /\ tunable[key] = e[key]
  <2>1. s[1][1] # key /\ tunable'[key] = tunable[key]
    BY <1>3, <1>4, <1>10 DEF Untouched
  <2>2. Untouched(t, key)
    BY <1>6, <1>10 DEF Untouched
  <2> QED
    BY <1>10, <2>1, <2>2
<1>11. LastSet(s, key, e[key]) \/ (Untouched(s, key) /\ tunable[key] = e[key])
  BY <1>1, <1>2 DEF Leads
<1> QED
  BY <1>9, <1>10, <1>11

LEMMA SwitchOKStep ==
  ASSUME ThreadsOK, SwitchTypes, SwitchOK, [Next]_vars
  PROVE  SwitchOK'
<1> USE DEF ThreadsOK
<1>1. ASSUME NEW h \in Handlers, RequestSwitch(h) PROVE SwitchOK'
  <2>1. PICK name \in DOMAIN Scenarios :
          /\ target' = [target EXCEPT ![h] = name]
          /\ plan' = [plan EXCEPT ![h] = SwitchPlan(name)]
    BY <1>1 DEF RequestSwitch
  <2>2. /\ hpc[h] = "idle" /\ hpc' = [hpc EXCEPT ![h] = "switch"]
        /\ apart'.switches = NobodySwitches
    BY <1>1 DEF RequestSwitch, Arrive, HGoto, NobodySwitches
  <2>3. plan'[h] = SwitchPlan(name) /\ target'[h] = name
    BY <2>1 DEF SwitchTypes
  <2>4. Leads(h)'
    BY <2>3, PlanLeads DEF Leads, LastSet, Expected
  <2>5. ASSUME NobodySwitches PROVE \A g \in Handlers : hpc'[g] = "switch" => g = h
    BY <2>2, <2>5 DEF NobodySwitches
  <2> QED
    BY <2>2, <2>4, <2>5 DEF SwitchOK, NobodySwitches
<1>2. ASSUME NEW h \in Handlers, SetAttribute(h) PROVE SwitchOK'
  <2>1. /\ hpc[h] = "switch" /\ hpc' = hpc /\ apart' = apart
    BY <1>2 DEF SetAttribute, HGoto
  <2>2. SUFFICES ASSUME apart.switches PROVE SwitchOK'
    BY <2>1 DEF SwitchOK
  <2>3. Leads(h)'
    BY <1>2, <2>1, <2>2, SettingLeads DEF SwitchOK
  <2>4. \A g \in Handlers : hpc'[g] = "switch" => g = h
    BY <2>1, <2>2 DEF SwitchOK
  <2> QED
    BY <2>1, <2>3, <2>4 DEF SwitchOK, NobodySwitches
<1>3. ASSUME NEW h \in Handlers, SetScenario(h) PROVE SwitchOK'
  <2>1. /\ hpc[h] = "switch" /\ hpc' = [hpc EXCEPT ![h] = "idle"] /\ apart' = apart
        /\ plan[h] = <<>> /\ scenario' = target[h] /\ tunable' = tunable
    BY <1>3 DEF SetScenario, HGoto, simVars
  <2>2. SUFFICES ASSUME apart.switches PROVE SwitchOK'
    BY <2>1 DEF SwitchOK
  <2>3. \A g \in Handlers : hpc'[g] # "switch"
    BY <2>1, <2>2 DEF SwitchOK
  <2>4. tunable = Expected(target[h])
    <3>1. DOMAIN plan[h] = {}
      BY <2>1
    <3>2. \A key \in TUNABLE : tunable[key] = Expected(target[h])[key]
      BY <2>1, <2>2, <3>1 DEF SwitchOK, Leads, LastSet
    <3>3. tunable \in [TUNABLE -> Nat] /\ Expected(target[h]) \in [TUNABLE -> Nat]
      BY ScenarioType DEF SwitchTypes
    <3> QED
      BY <3>2, <3>3
  <2>5. tunable' = Expected(scenario')
    BY <2>1, <2>4
  <2> QED
    BY <2>3, <2>5 DEF SwitchOK, Expected
<1>4. ASSUME UNCHANGED <<tunable, plan, target, scenario>>, apart'.switches = apart.switches,
             \A g \in Handlers : hpc'[g] = "switch" <=> hpc[g] = "switch"
      PROVE  SwitchOK'
  <2>1. NobodySwitches' <=> NobodySwitches
    BY <1>4 DEF NobodySwitches
  <2>2. \A g \in Handlers : Leads(g)' <=> Leads(g)
    BY <1>4 DEF Leads, LastSet, Untouched, Expected
  <2> QED
    BY <1>4, <2>1, <2>2 DEF SwitchOK, Expected
<1>5. ASSUME NEW h \in Handlers,
             \/ RequestStart(h) \/ CheckRunning(h) \/ ClearStop(h) \/ CreateThread(h) \/ Launch(h)
             \/ Stop(h) \/ RequestLoad(h) \/ Label(h) \/ LoadRaises(h) \/ Insert(h) \/ Cut(h)
      PROVE  SwitchOK'
  <2>1. UNCHANGED <<tunable, plan, target, scenario>> /\ apart'.switches = apart.switches
    BY <1>5 DEF RequestStart, CheckRunning, ClearStop, CreateThread, Launch, Stop, RequestLoad, Label, LoadRaises,
                Insert, Cut, simVars, switching
  <2>2. /\ hpc[h] # "switch"
        /\ \E to \in HandlerPlaces \ {"switch"} : hpc' = [hpc EXCEPT ![h] = to]
    BY <1>5 DEF RequestStart, CheckRunning, ClearStop, CreateThread, Launch, Stop, RequestLoad, Label, LoadRaises,
                Insert, Cut, Arrive, HGoto, HandlerPlaces, Starting
  <2>3. \A g \in Handlers : hpc'[g] = "switch" <=> hpc[g] = "switch"
    BY <2>2
  <2> QED
    BY <1>4, <2>1, <2>3
<1>6. ASSUME NEW l \in Loops, Loop(l) \/ TimeOut(l)
      PROVE  UNCHANGED <<tunable, plan, target, scenario, apart, hpc>>
  BY <1>6 DEF Loop, Look, Due, Pause, TimeOut, Woken, Submit, LGoto, simVars, switching
<1>7. ASSUME NEW c \in Calls, Call(c)
      PROVE  UNCHANGED <<tunable, plan, target, scenario, apart, hpc>>
  BY <1>7 DEF Call, Serve, Admit, LeaveQueue, FailInjected, LookUp, Finish, Fail
<1>8. CASE UNCHANGED vars
  BY <1>4, <1>8 DEF vars, simVars, switching
<1> QED
  BY <1>1, <1>2, <1>3, <1>4, <1>5, <1>6, <1>7, <1>8 DEF Next, Request, Handle

LEMMA TestOKStep ==
  ASSUME ThreadsOK, SwitchTypes, SwitchOK, TestOK, [Next]_vars
  PROVE  TestOK'
<1> USE DEF ThreadsOK
<1>1. test \in [Handlers -> Records] /\ history \in Seq(Records) /\ DOMAIN history = 1 .. Len(history)
      /\ Len(history) \in Nat
  BY LenProperties DEF SwitchTypes
<1>2. ASSUME UNCHANGED <<tunable, scenario, test, history>>,
             \A g \in Handlers : /\ hpc'[g] = "switch" <=> hpc[g] = "switch"
                                 /\ hpc'[g] = "test" => hpc[g] = "test"
                                 /\ hpc'[g] = "insert" => hpc[g] = "insert"
      PROVE  TestOK'
  <2>1. NobodySwitches' <=> NobodySwitches
    BY <1>2 DEF NobodySwitches
  <2> QED
    BY <1>2, <2>1 DEF TestOK, Expected
<1>3. ASSUME NEW h \in Handlers, RequestSwitch(h) PROVE TestOK'
  <2>1. /\ hpc[h] = "idle" /\ hpc' = [hpc EXCEPT ![h] = "switch"]
        /\ test' = [g \in Handlers |-> [test[g] EXCEPT !.steady = @ /\ hpc[g] # "test"]]
        /\ history' = history
    BY <1>3 DEF RequestSwitch, Arrive, HGoto
  <2>2. ASSUME NEW g \in Handlers, test'[g].steady
        PROVE  /\ hpc'[g] # "test"
               /\ hpc'[g] = "insert" => test'[g].ran = Expected(test'[g].label)
    <3>1. /\ test'[g].steady = (test[g].steady /\ hpc[g] # "test")
          /\ test'[g].ran = test[g].ran /\ test'[g].label = test[g].label
      BY <1>1, <2>1 DEF Records
    <3>2. hpc'[g] = "insert" => hpc[g] = "insert"
      BY <2>1
    <3> QED
      BY <2>1, <2>2, <3>1, <3>2 DEF TestOK
  <2>3. \A i \in DOMAIN history : history[i].steady => history[i].ran = Expected(history[i].label)
    BY DEF TestOK
  <2>4. \A i \in DOMAIN history' : history'[i].steady => history'[i].ran = Expected(history'[i].label)
    BY <2>1, <2>3
  <2>5. (\A g \in Handlers : test'[g].steady =>
           /\ hpc'[g] = "test" =>
                NobodySwitches' /\ test'[g].ran = tunable' /\ tunable' = Expected(scenario')
           /\ hpc'[g] = "insert" => test'[g].ran = Expected(test'[g].label)) => TestOK'
    BY <2>4 DEF TestOK, Expected
  <2> QED
    BY <2>2, <2>5
<1>4. ASSUME NEW h \in Handlers, SetAttribute(h) \/ SetScenario(h) PROVE TestOK'
  <2>1. /\ hpc[h] = "switch" /\ \E to \in {"switch", "idle"} : hpc' = [hpc EXCEPT ![h] = to]
        /\ test' = test /\ history' = history
    BY <1>4 DEF SetAttribute, SetScenario, HGoto, testing
  <2>2. ASSUME NEW g \in Handlers, test[g].steady PROVE hpc[g] # "test"
    BY <2>1, <2>2 DEF TestOK, NobodySwitches
  <2>3. \A g \in Handlers : /\ hpc'[g] = "test" => hpc[g] = "test"
                            /\ hpc'[g] = "insert" => hpc[g] = "insert"
    BY <2>1
  <2> QED
    BY <2>1, <2>2, <2>3 DEF TestOK, Expected
<1>5. ASSUME NEW h \in Handlers, RequestLoad(h) PROVE TestOK'
  <2>1. /\ hpc[h] = "idle" /\ hpc' = [hpc EXCEPT ![h] = "test"]
        /\ test' = [test EXCEPT ![h] = [label |-> Healthy, ran |-> tunable,
                                        steady |-> apart.switches /\ NobodySwitches]]
        /\ UNCHANGED <<tunable, scenario, history>>
    BY <1>5 DEF RequestLoad, Arrive, HGoto, simVars, switching, NobodySwitches
  <2>2. NobodySwitches' <=> NobodySwitches
    BY <2>1 DEF NobodySwitches
  <2>3. test'[h].ran = tunable /\ test'[h].steady = (apart.switches /\ NobodySwitches)
    BY <1>1, <2>1
  <2>4. test'[h].steady => NobodySwitches' /\ test'[h].ran = tunable' /\ tunable' = Expected(scenario')
    BY <2>1, <2>2, <2>3 DEF SwitchOK
  <2>5. hpc'[h] = "test"
    BY <2>1
  <2>6. \A g \in Handlers : g # h => test'[g] = test[g] /\ hpc'[g] = hpc[g]
    BY <1>1, <2>1
  <2> HIDE DEF NobodySwitches
  <2> QED
    BY <2>1, <2>2, <2>4, <2>5, <2>6 DEF TestOK, Expected
<1>6. ASSUME NEW h \in Handlers, Label(h) PROVE TestOK'
  <2>1. /\ hpc[h] = "test" /\ hpc' = [hpc EXCEPT ![h] = "insert"]
        /\ test' = [test EXCEPT ![h].label = scenario]
        /\ UNCHANGED <<tunable, scenario, history>>
    BY <1>6 DEF Label, HGoto, simVars, switching
  <2>2. /\ test'[h].label = scenario /\ test'[h].ran = test[h].ran /\ test'[h].steady = test[h].steady
        /\ hpc'[h] = "insert"
    BY <1>1, <2>1 DEF Records
  <2>3. test'[h].steady => test'[h].ran = Expected(test'[h].label)
    BY <2>1, <2>2 DEF TestOK
  <2>4. NobodySwitches' <=> NobodySwitches
    BY <2>1 DEF NobodySwitches
  <2>5. \A g \in Handlers : g # h => test'[g] = test[g] /\ hpc'[g] = hpc[g]
    BY <1>1, <2>1
  <2> QED
    BY <2>1, <2>2, <2>3, <2>4, <2>5 DEF TestOK, Expected
<1>7. ASSUME NEW h \in Handlers, Insert(h) PROVE TestOK'
  <2>1. /\ hpc[h] = "insert" /\ hpc' = [hpc EXCEPT ![h] = "cut"]
        /\ history' = <<test[h]>> \o history /\ test' = [test EXCEPT ![h] = NoTest]
        /\ UNCHANGED <<tunable, scenario>>
    BY <1>7 DEF Insert, HGoto, simVars, switching
  <2>2. NobodySwitches' <=> NobodySwitches
    BY <2>1 DEF NobodySwitches
  <2>3. PICK r \in Records : r = test[h]
    BY <1>1
  <2>4. PICK longer : longer = <<r>> \o history
    OBVIOUS
  <2>5. /\ longer \in Seq(Records) /\ Len(longer) = 1 + Len(history)
        /\ \A i \in 1 .. 1 + Len(history) : longer[i] = IF i <= 1 THEN r ELSE history[i - 1]
    <3>1. <<r>> \in Seq(Records) /\ Len(<<r>>) = 1 /\ <<r>>[1] = r
      OBVIOUS
    <3>2. \A i \in 1 .. 1 + Len(history) : i <= 1 => <<r>>[i] = r
      BY <1>1, <3>1
    <3> QED
      BY <1>1, <2>4, <3>1, <3>2, ConcatProperties
  <2>6. ASSUME NEW i \in DOMAIN longer, longer[i].steady PROVE longer[i].ran = Expected(longer[i].label)
    <3>1. i \in 1 .. 1 + Len(history)
      BY <2>5, LenProperties
    <3>2. CASE i <= 1
      <4>1. longer[i] = r /\ test[h].steady
        BY <2>3, <2>5, <2>6, <3>1, <3>2
      <4> QED
        BY <2>1, <2>3, <4>1 DEF TestOK
    <3>3. CASE ~(i <= 1)
      <4>1. longer[i] = history[i - 1] /\ i - 1 \in DOMAIN history
        BY <1>1, <2>5, <3>1, <3>3
      <4> QED
        BY <2>6, <4>1 DEF TestOK
    <3> QED
      BY <3>2, <3>3
  <2>7. ASSUME NEW g \in Handlers, test'[g].steady
        PROVE  /\ hpc'[g] = "test" => NobodySwitches' /\ test'[g].ran = tunable' /\ tunable' = Expected(scenario')
               /\ hpc'[g] = "insert" => test'[g].ran = Expected(test'[g].label)
    <3>1. CASE g = h
      BY <2>1, <3>1
    <3>2. CASE g # h
      <4>1. test'[g] = test[g] /\ hpc'[g] = hpc[g]
        BY <1>1, <2>1, <3>2
      <4> QED
        BY <2>1, <2>2, <2>7, <4>1 DEF TestOK
    <3> QED
      BY <3>1, <3>2
  <2>8. history' = longer
    BY <2>1, <2>3, <2>4
  <2> QED
    BY <2>6, <2>7, <2>8 DEF TestOK, Expected
<1>8. ASSUME NEW h \in Handlers, Cut(h) PROVE TestOK'
  <2>1. PICK n : n = IF Len(history) < HistorySize THEN Len(history) ELSE HistorySize
    OBVIOUS
  <2>2. /\ hpc[h] = "cut" /\ hpc' = [hpc EXCEPT ![h] = "idle"]
        /\ history' = SubSeq(history, 1, n) /\ UNCHANGED <<tunable, scenario, test>>
    BY <1>8, <2>1 DEF Cut, HGoto, simVars, switching
  <2>3. n \in Nat /\ n <= Len(history) /\ \A i \in 1 .. n : history[i] \in Records
    BY <1>1, <2>1, ConsoleAssumption, ElementOfSeq
  <2>4. PICK short : short = SubSeq(history, 1, n)
    OBVIOUS
  <2>5. \A i \in 1 .. n : short[i] = history[i]
    <3>1. /\ \A i \in 1 .. n - 1 + 1 : short[i] = history[1 + i - 1]
      BY <2>3, <2>4, SubSeqProperties
    <3> QED
      BY <2>3, <3>1
  <2>6. DOMAIN short \in SUBSET (1 .. n)
    <3>1. short \in Seq(Records) /\ Len(short) = IF 1 <= n THEN n - 1 + 1 ELSE 0
      BY <2>3, <2>4, SubSeqProperties
    <3>2. DOMAIN short = 1 .. Len(short)
      BY <3>1, LenProperties
    <3> QED
      BY <2>3, <3>1, <3>2
  <2>7. \A i \in DOMAIN short : short[i].steady => short[i].ran = Expected(short[i].label)
    <3>1. \A i \in DOMAIN short : i \in DOMAIN history /\ short[i] = history[i]
      BY <1>1, <2>3, <2>5, <2>6
    <3> QED
      BY <3>1 DEF TestOK
  <2>8. \A g \in Handlers : /\ hpc'[g] = "switch" <=> hpc[g] = "switch"
                            /\ hpc'[g] = "test" => hpc[g] = "test"
                            /\ hpc'[g] = "insert" => hpc[g] = "insert"
    BY <2>2
  <2>9. NobodySwitches' <=> NobodySwitches
    BY <2>8 DEF NobodySwitches
  <2>10. \A i \in DOMAIN history' : history'[i].steady => history'[i].ran = Expected(history'[i].label)
    BY <2>2, <2>4, <2>7
  <2>11. \A g \in Handlers : test'[g].steady =>
           /\ hpc'[g] = "test" =>
                NobodySwitches' /\ test'[g].ran = tunable' /\ tunable' = Expected(scenario')
           /\ hpc'[g] = "insert" => test'[g].ran = Expected(test'[g].label)
    BY <2>2, <2>8, <2>9 DEF TestOK
  <2> QED
    BY <2>10, <2>11 DEF TestOK, Expected
<1>9. ASSUME NEW h \in Handlers,
             \/ RequestStart(h) \/ CheckRunning(h) \/ ClearStop(h) \/ CreateThread(h) \/ Launch(h)
             \/ Stop(h)
      PROVE  TestOK'
  <2>1. UNCHANGED <<tunable, scenario, test, history>>
    BY <1>9 DEF RequestStart, CheckRunning, ClearStop, CreateThread, Launch, Stop, simVars, switching, testing
  <2>2. /\ hpc[h] \notin {"switch", "test", "insert"}
        /\ \E to \in Starting \cup {"idle"} : hpc' = [hpc EXCEPT ![h] = to]
    BY <1>9 DEF RequestStart, CheckRunning, ClearStop, CreateThread, Launch, Stop, Arrive, HGoto, Starting
  <2> QED
    BY <1>2, <2>1, <2>2 DEF Starting
<1>10. ASSUME NEW l \in Loops, Loop(l) \/ TimeOut(l)
       PROVE  UNCHANGED <<tunable, scenario, test, history, hpc>>
  BY <1>10 DEF Loop, Look, Due, Pause, TimeOut, Woken, Submit, LGoto, simVars, switching, testing
<1>11. ASSUME NEW c \in Calls, Call(c) PROVE UNCHANGED <<tunable, scenario, test, history, hpc>>
  BY <1>11 DEF Call, Serve, Admit, LeaveQueue, FailInjected, LookUp, Finish, Fail, testing
<1>12. CASE UNCHANGED vars
  BY <1>2, <1>12 DEF vars, simVars, switching, testing
<1>13. ASSUME NEW h \in Handlers, LoadRaises(h) PROVE TestOK'
  <2>1. /\ hpc[h] = "test" /\ hpc' = [hpc EXCEPT ![h] = "idle"]
        /\ test' = [test EXCEPT ![h] = NoTest]
        /\ UNCHANGED <<tunable, scenario, history>>
    BY <1>13 DEF LoadRaises, HGoto, simVars, switching
  <2>2. hpc'[h] = "idle" /\ \A g \in Handlers : g # h => test'[g] = test[g] /\ hpc'[g] = hpc[g]
    BY <1>1, <2>1
  <2>3. NobodySwitches' <=> NobodySwitches
    BY <2>1, <2>2 DEF NobodySwitches
  <2> QED
    BY <2>1, <2>2, <2>3 DEF TestOK, Expected
<1> QED
  BY <1>2, <1>3, <1>4, <1>5, <1>6, <1>7, <1>8, <1>9, <1>10, <1>11, <1>12, <1>13
     DEF Next, Request, Handle

LEMMA HistoryFitsStep ==
  ASSUME ThreadsOK, SwitchTypes, HistoryFits, [Next]_vars
  PROVE  HistoryFits'
<1> USE DEF ThreadsOK
<1>1. /\ Cutters \in SUBSET Handlers /\ IsFiniteSet(Cutters) /\ Cardinality(Cutters) \in Nat
      /\ HistorySize \in Nat /\ history \in Seq(Records) /\ Len(history) \in Nat
  BY ThreadsCounted, ConsoleAssumption, LenProperties DEF Cutters, SwitchTypes
<1>2. ASSUME history' = history, Cutters' = Cutters PROVE HistoryFits'
  BY <1>2 DEF HistoryFits
<1>3. ASSUME NEW h \in Handlers, Insert(h) PROVE HistoryFits'
  <2>1. /\ hpc[h] = "insert" /\ hpc' = [hpc EXCEPT ![h] = "cut"]
        /\ history' = <<test[h]>> \o history /\ test[h] \in Records
    BY <1>3 DEF Insert, HGoto, SwitchTypes
  <2>2. Cutters' = Cutters \cup {h} /\ h \notin Cutters
    BY <2>1 DEF Cutters
  <2>3. Cardinality(Cutters') = Cardinality(Cutters) + 1
    BY <1>1, <2>2, FS_AddElement
  <2>4. Len(history') = 1 + Len(history)
    <3>1. <<test[h]>> \in Seq(Records) /\ Len(<<test[h]>>) = 1
      BY <2>1
    <3> QED
      BY <1>1, <2>1, <3>1, ConcatProperties
  <2> QED
    BY <1>1, <2>3, <2>4 DEF HistoryFits
<1>4. ASSUME NEW h \in Handlers, Cut(h) PROVE HistoryFits'
  <2>1. PICK n : n = IF Len(history) < HistorySize THEN Len(history) ELSE HistorySize
    OBVIOUS
  <2>2. history' = SubSeq(history, 1, n)
    BY <1>4, <2>1 DEF Cut
  <2>3. n \in Nat /\ n <= Len(history) /\ n <= HistorySize /\ \A i \in 1 .. n : history[i] \in Records
    BY <1>1, <2>1, ElementOfSeq
  <2>4. Len(history') = IF 1 <= n THEN n - 1 + 1 ELSE 0
    BY <2>2, <2>3, SubSeqProperties
  <2>5. Cardinality(Cutters') \in Nat
    BY ThreadsCounted, <1>4 DEF Cutters
  <2> QED
    BY <1>1, <2>3, <2>4, <2>5 DEF HistoryFits
<1>5. ASSUME NEW h \in Handlers,
             \/ RequestStart(h) \/ CheckRunning(h) \/ ClearStop(h) \/ CreateThread(h) \/ Launch(h)
             \/ Stop(h) \/ RequestSwitch(h) \/ SetAttribute(h) \/ SetScenario(h)
             \/ RequestLoad(h) \/ Label(h) \/ LoadRaises(h)
      PROVE  HistoryFits'
  <2>1. history' = history
    BY <1>5 DEF RequestStart, CheckRunning, ClearStop, CreateThread, Launch, Stop, RequestSwitch,
                SetAttribute, SetScenario, RequestLoad, Label, LoadRaises, testing
  <2>2. /\ hpc[h] # "cut" /\ \E to \in HandlerPlaces \ {"cut"} : hpc' = [hpc EXCEPT ![h] = to]
    BY <1>5 DEF RequestStart, CheckRunning, ClearStop, CreateThread, Launch, Stop, RequestSwitch,
                SetAttribute, SetScenario, RequestLoad, Label, LoadRaises, Arrive, HGoto, HandlerPlaces, Starting
  <2>3. Cutters' = Cutters
    BY <2>2 DEF Cutters
  <2> QED
    BY <1>2, <2>1, <2>3
<1>6. ASSUME UNCHANGED <<history, hpc>> PROVE HistoryFits'
  BY <1>2, <1>6 DEF Cutters
<1>7. ASSUME NEW l \in Loops, Loop(l) \/ TimeOut(l) PROVE UNCHANGED <<history, hpc>>
  BY <1>7 DEF Loop, Look, Due, Pause, TimeOut, Woken, Submit, LGoto, testing
<1>8. ASSUME NEW c \in Calls, Call(c) PROVE UNCHANGED <<history, hpc>>
  BY <1>8 DEF Call, testing
<1>9. CASE UNCHANGED vars
  BY <1>6, <1>9 DEF vars, testing
<1> QED
  BY <1>3, <1>4, <1>5, <1>6, <1>7, <1>8, <1>9 DEF Next, Request, Handle

-----------------------------------------------------------------------------
(* The inductive invariant, and what follows from it *)

Inv == LoopInv /\ BooksInv /\ CacheInv /\ SentInv /\ BornInv /\ SwitchInv

LEMMA InvInit == Init => Inv
<1> SUFFICES ASSUME Init PROVE Inv
  OBVIOUS
<1>1. /\ pc = [c \in Calls |-> "none"] /\ inFlight = 0 /\ queueDepth = 0
      /\ cache = <<>> /\ latest = <<>>
  BY DEF Init, SimInit
<1>2. BooksInv
  <2>1. Busies = {} /\ Queue = {}
    BY <1>1 DEF Busies, Queue, BusyPlaces
  <2> QED
    BY <1>1, <2>1, FS_EmptySet DEF BooksInv, CallPlaces
<1>3. CacheInv
  <2>1. cache \in Seq(Prefixes) /\ Len(cache) = 0 /\ DOMAIN cache = {}
    BY <1>1, EmptySeq
  <2> QED
    BY <1>1, <2>1, SimAssumption DEF CacheInv, Distinct
<1>4. SentInv
  <2>1. AboutToSubmit = {} /\ sent = 0 /\ Cardinality(Calls) \in Nat
    BY CallsCounted DEF Init, AboutToSubmit
  <2> QED
    BY <1>1, <2>1, FS_EmptySet DEF SentInv
<1>5. BornInv
  <2>1. Unborn = {} /\ requests = 0 /\ created = 0 /\ thread = 0
    BY DEF Init, Unborn
  <2>2. Cardinality(Unborn) = 0 /\ MaxRequests \in Nat
    BY <2>1, FS_EmptySet, ConsoleAssumption
  <2>3. (\A l \in Loops : loop[l] = "new") /\ stopped = FALSE
    BY DEF Init
  <2>4. stopped \in BOOLEAN
    BY <2>3
  <2>5. /\ requests \in 0 .. MaxRequests /\ created \in Nat /\ thread \in 0 .. created
        /\ created + Cardinality(Unborn) <= requests
    BY <2>1, <2>2
  <2> QED
    BY <2>3, <2>4, <2>5 DEF BornInv
<1>6. SwitchInv
  <2>1. SwitchTypes
    BY HealthyIsOne, ConsoleAssumption, EmptySeq DEF Init, SwitchTypes, NoTest, Records
  <2>2. SwitchOK
    BY BaselineIsHealthy DEF Init, SwitchOK
  <2>3. TestOK
    BY DEF Init, TestOK
  <2>4. HistoryFits
    <3>1. Cutters = {} /\ history = <<>> /\ Len(<<>>) = 0
      BY DEF Init, Cutters
    <3> QED
      BY <3>1, FS_EmptySet, ConsoleAssumption DEF HistoryFits
  <2> QED
    BY <2>1, <2>2, <2>3, <2>4 DEF SwitchInv
<1> QED
  BY <1>2, <1>3, <1>4, <1>5, <1>6, LoopInit DEF Inv

\* A call that is submitted was nowhere before.
LEMMA SubmitIsFresh ==
  ASSUME BooksInv, SentInv, NEW l \in Loops, Submit(l)
  PROVE  sent + 1 \in Calls /\ pc[sent + 1] = "none"
<1>1. l \in AboutToSubmit /\ AboutToSubmit \in SUBSET Loops
  BY DEF Submit, AboutToSubmit
<1>2. IsFiniteSet(AboutToSubmit) /\ Cardinality(AboutToSubmit) \in Nat /\ Cardinality(Calls) \in Nat
  BY <1>1, ThreadsCounted, CallsCounted
<1>3. Cardinality(AboutToSubmit) # 0
  BY <1>1, <1>2, FS_EmptySet
<1>4. sent \in Nat /\ sent + 1 <= Cardinality(Calls)
  BY <1>2, <1>3 DEF SentInv
<1>5. sent + 1 \in Calls
  BY <1>2, <1>4, ConsoleAssumption
<1> QED
  BY <1>4, <1>5 DEF SentInv

LEMMA InvStep ==
  ASSUME Inv, [Next]_vars
  PROVE  Inv'
<1> USE DEF Inv
<1>1. ThreadsOK
  BY DEF LoopInv
<1>2. LoopInv' /\ SentInv' /\ BornInv'
  BY <1>1, LoopStep, SentStep, BornStep
<1>3. SwitchInv'
  BY <1>1, SwitchTypesStep, SwitchOKStep, TestOKStep, HistoryFitsStep DEF SwitchInv
<1>4. ASSUME UNCHANGED <<pc, inFlight, queueDepth, cache, latest>> PROVE BooksInv' /\ CacheInv'
  BY <1>4 DEF BooksInv, CacheInv, Busies, Queue, Distinct, Holds
<1>5. ASSUME NEW c \in Calls, Call(c) PROVE BooksInv' /\ CacheInv'
  BY <1>5, BooksStep, CacheStep DEF Call
<1>6. ASSUME NEW l \in Loops, Submit(l) PROVE BooksInv' /\ CacheInv'
  <2>1. /\ pc' = [pc EXCEPT ![sent + 1] = "called"]
        /\ UNCHANGED <<inFlight, queueDepth, cache, latest>>
    BY <1>6 DEF Submit, books, caching
  <2>2. sent + 1 \in Calls /\ pc[sent + 1] = "none"
    BY <1>6, SubmitIsFresh
  <2>3. /\ pc' \in [Calls -> CallPlaces] /\ Busies' = Busies \ {sent + 1}
        /\ Queue' = Queue \ {sent + 1}
    <3>1. "called" \in CallPlaces /\ "called" \notin BusyPlaces /\ "called" # "queued"
      BY DEF CallPlaces, BusyPlaces
    <3> QED
      BY <2>1, <2>2, <3>1, CallMoves
  <2>4. Busies' = Busies /\ Queue' = Queue
    BY <2>2, <2>3 DEF Busies, Queue, BusyPlaces
  <2> QED
    BY <2>1, <2>3, <2>4 DEF BooksInv, CacheInv, Distinct, Holds
<1>7. ASSUME NEW l \in Loops, Look(l) \/ Due(l) \/ Pause(l) \/ Woken(l) \/ TimeOut(l)
      PROVE  UNCHANGED <<pc, inFlight, queueDepth, cache, latest>>
  BY <1>7 DEF Look, Due, Pause, Woken, TimeOut, LGoto, simVars, books, caching
<1>8. ASSUME NEW h \in Handlers, Request(h)
      PROVE  UNCHANGED <<pc, inFlight, queueDepth, cache, latest>>
  BY <1>8 DEF Request, RequestStart, Stop, RequestSwitch, RequestLoad, simVars, books, caching
<1>9. ASSUME NEW h \in Handlers, Handle(h)
      PROVE  UNCHANGED <<pc, inFlight, queueDepth, cache, latest>>
  BY <1>9 DEF Handle, CheckRunning, ClearStop, CreateThread, Launch, SetAttribute, SetScenario, Label, LoadRaises,
              Insert, Cut, simVars, books, caching
<1>10. ASSUME UNCHANGED vars PROVE UNCHANGED <<pc, inFlight, queueDepth, cache, latest>>
  BY <1>10 DEF vars, simVars, books, caching
<1>11. BooksInv' /\ CacheInv'
  BY <1>4, <1>5, <1>6, <1>7, <1>8, <1>9, <1>10 DEF Next, Loop
<1> QED
  BY <1>2, <1>3, <1>11

LEMMA Invariance == Spec => []Inv
<1>1. Inv /\ [Next]_vars => Inv'
  BY InvStep
<1> QED
  BY <1>1, InvInit, PTL DEF Spec

\* The books count calls, the queued among those in flight.
LEMMA BooksAreCounts ==
  ASSUME BooksInv
  PROVE  /\ inFlight \in 0 .. Cardinality(Calls) /\ queueDepth \in 0 .. inFlight
<1>1. Busies \in SUBSET Calls /\ Queue \in SUBSET Busies
  BY DEF Busies, Queue, BusyPlaces
<1>2. /\ IsFiniteSet(Busies) /\ Cardinality(Busies) \in Nat /\ Cardinality(Busies) <= Cardinality(Calls)
      /\ Cardinality(Calls) \in Nat
  BY <1>1, CallsCounted
<1>3. Cardinality(Queue) \in Nat /\ Cardinality(Queue) <= Cardinality(Busies)
  BY <1>1, <1>2, FS_Subset, FS_CardinalityType
<1> QED
  BY <1>2, <1>3 DEF BooksInv

(***************************************************************************)
(* The types are right; in particular a start() constructs no more threads  *)
(* than there were requests, and no loop runs before it is constructed      *)
(* (console.py:89-133, local.py:118-135).                                   *)
(***************************************************************************)
THEOREM TypeCorrect == Spec => []TypeOK
<1>1. ASSUME Inv PROVE TypeOK
  <2>1. /\ pc \in [Calls -> {"none", "called", "queued", "admitted", "failing", "serving"} \cup Settled]
        /\ inFlight \in 0 .. Cardinality(Calls) /\ queueDepth \in 0 .. inFlight
        /\ cache \in Seq(Prefixes)
    BY <1>1, BooksAreCounts DEF Inv, BooksInv, CacheInv, CallPlaces
  <2>2. /\ hpc \in [Handlers -> Starting \cup {"idle", "switch", "test", "insert", "cut"}]
        /\ loop \in [Loops -> {"new", "look", "pause", "wait", "woken", "submit", "dead"}]
    BY <1>1 DEF Inv, LoopInv, ThreadsOK, HandlerPlaces, LoopPlaces
  <2>3. /\ requests \in 0 .. MaxRequests /\ stopped \in BOOLEAN /\ thread \in 0 .. created
        /\ \A l \in Loops : l > created => loop[l] = "new"
    BY <1>1 DEF Inv, BornInv
  <2>4. created \in {0} \cup Loops
    <3>1. Cardinality(Unborn) \in Nat /\ created \in Nat /\ requests \in 0 .. MaxRequests
          /\ created + Cardinality(Unborn) <= requests
      BY <1>1, ThreadsCounted DEF Inv, BornInv, Unborn
    <3> QED
      BY <3>1, ConsoleAssumption DEF Loops
  <2>5. sent \in 0 .. Cardinality(Calls)
    <3>1. /\ Cardinality(AboutToSubmit) \in Nat /\ sent \in Nat /\ Cardinality(Calls) \in Nat
          /\ sent + Cardinality(AboutToSubmit) <= Cardinality(Calls)
      BY <1>1, ThreadsCounted, CallsCounted DEF Inv, SentInv, AboutToSubmit
    <3> QED
      BY <3>1
  <2>6. /\ tunable \in [TUNABLE -> Nat]
        /\ target \in [Handlers -> DOMAIN Scenarios] /\ scenario \in DOMAIN Scenarios
        /\ test \in [Handlers -> Records] /\ history \in Seq(Records)
    BY <1>1 DEF Inv, SwitchInv, SwitchTypes
  <2>7. ASSUME NEW record \in {test[h] : h \in Handlers} \cup {history[i] : i \in DOMAIN history}
        PROVE  record \in Records
    BY <2>6, <2>7, LenProperties, ElementOfSeq
  <2> QED
    BY <2>1, <2>2, <2>3, <2>4, <2>5, <2>6, <2>7 DEF TypeOK, Records
<1> QED
  BY <1>1, Invariance, PTL

(***************************************************************************)
(* The simulator's books are exact and its prefix cache is sound, for any   *)
(* number of calls, any limit and any capacity (local.py:96-100, 118-135):  *)
(* max(0, ...) never has anything to hide.                                  *)
(***************************************************************************)
THEOREM BooksAreExact == Spec => []BooksExact
<1>1. Inv => BooksExact
  BY DEF Inv, BooksInv, CacheInv, Busies, Queue, BusyPlaces, Distinct, Holds, BooksExact
<1> QED
  BY <1>1, Invariance, PTL

(***************************************************************************)
(* A switch that runs by itself leaves the simulator in its scenario and    *)
(* nothing of any earlier one; a load test no switch touched is recorded    *)
(* under the scenario it ran under; and the list of records keeps its size  *)
(* (console.py:100-112, 144-158).                                           *)
(***************************************************************************)
THEOREM ScenariosAreWhole == Spec => []ScenarioWhole
<1>1. Inv => ScenarioWhole
  BY DEF Inv, SwitchInv, SwitchOK, TestOK, HistoryFits, NobodySwitches, Cutters, ScenarioWhole
<1> QED
  BY <1>1, Invariance, PTL
=============================================================================
