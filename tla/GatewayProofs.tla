---------------------------- MODULE GatewayProofs ----------------------------
(***************************************************************************)
(* Theorems about Gateway, for any sets of calls and streams, any number of *)
(* retries and any admission limit.                                         *)
(*                                                                         *)
(* The inductive invariant is Inv: the types, the control invariant         *)
(* FateFits, and InFlightExact, which is needed even for the types, since    *)
(* only a call that is inside makes `_in_flight -= 1` stay in Nat.          *)
(***************************************************************************)
EXTENDS Gateway, FiniteSetTheorems, TLAPS

Inv == TypeOK /\ FateFits /\ InFlightExact

\* A step that moves one thread leaves the others where they were.
LEMMA GotoType ==
  ASSUME NEW r \in Requests, NEW from, NEW to \in PCs, Goto(r, from, to),
         pc \in [Requests -> PCs]
  PROVE  /\ pc[r] = from
         /\ pc' \in [Requests -> PCs]
         /\ pc'[r] = to
         /\ \A q \in Requests \ {r} : pc'[q] = pc[q]
  BY DEF Goto

LEMMA CountType ==
  ASSUME tally \in [Entries -> Nat], NEW W \in SUBSET Entries, Count(W)
  PROVE  tally' \in [Entries -> Nat]
  BY DEF Count

\* The set of calls inside is finite, and its cardinality follows one entry
\* or one exit.
LEMMA InsideFinite == IsFiniteSet(Inside) /\ Cardinality(Inside) \in Nat
  BY GatewayAssumption, FS_Subset, FS_CardinalityType DEF Inside, Requests

LEMMA InsideGains ==
  ASSUME NEW r \in Calls, Inside' = Inside \cup {r}, r \notin Inside
  PROVE  Cardinality(Inside') = Cardinality(Inside) + 1
  BY InsideFinite, FS_AddElement

LEMMA InsideLoses ==
  ASSUME NEW r \in Calls, Inside' = Inside \ {r}, r \in Inside
  PROVE  Cardinality(Inside') = Cardinality(Inside) - 1 /\ Cardinality(Inside) > 0
  <1>1. Cardinality(Inside') = Cardinality(Inside) - 1
    BY InsideFinite, FS_RemoveElement
  <1>2. Cardinality(Inside) # 0
    BY InsideFinite, FS_EmptySet
  <1> QED
    BY <1>1, <1>2, InsideFinite

-----------------------------------------------------------------------------

LEMMA InvInit == Init => Inv
  <1> SUFFICES ASSUME Init PROVE Inv
    OBVIOUS
  <1>1. TypeOK
    BY GatewayAssumption DEF Init, TypeOK, PCs, Fates, Entries, Requests
  <1>2. FateFits
    BY GatewayAssumption DEF Init, FateFits, PCs, CallPCs, StreamPCs, Undecided, Requests
  <1>3. Inside = {}
    BY DEF Init, Inside, InsidePCs, Requests
  <1>4. InFlightExact
    BY <1>3, FS_EmptySet DEF InFlightExact, Init
  <1> QED
    BY <1>1, <1>2, <1>4 DEF Inv

\* The types are preserved; the decrement stays in Nat because the thread
\* that makes it is inside.
LEMMA TypeStep ==
  ASSUME Inv, NEW r \in Requests, Step(r)
  PROVE  TypeOK'
  <1> USE GatewayAssumption
      DEF Inv, TypeOK, Goto, Decide, Count, PCs, Fates, Entries,
          threads, admission, tracing, telemetry
  <1>1. CASE Shed(r)
    BY <1>1 DEF Shed
  <1>2. CASE Admit(r)
    BY <1>2 DEF Admit
  <1>3. CASE Enter(r)
    BY <1>3 DEF Enter
  <1>4. CASE GaugeIn(r)
    BY <1>4 DEF GaugeIn
  <1>5. CASE OpenTrace(r)
    BY <1>5 DEF OpenTrace
  <1>6. CASE Export(r)
    BY <1>6 DEF Export, TraceStatus
  <1>7. CASE AttemptOk(r)
    BY <1>7 DEF AttemptOk
  <1>8. CASE AttemptRetry(r)
    BY <1>8 DEF AttemptRetry
  <1>9. CASE AttemptFail(r)
    BY <1>9 DEF AttemptFail
  <1>10. CASE AttemptCrash(r)
    BY <1>10 DEF AttemptCrash
  <1>11. CASE StreamChunk(r)
    BY <1>11 DEF StreamChunk
  <1>12. CASE StreamResume(r)
    BY <1>12 DEF StreamResume
  <1>13. CASE StreamAbandon(r)
    BY <1>13 DEF StreamAbandon
  <1>14. CASE StreamEnd(r)
    BY <1>14 DEF StreamEnd
  <1>15. CASE StreamFail(r)
    BY <1>15 DEF StreamFail
  <1>16. CASE StreamCrash(r)
    BY <1>16 DEF StreamCrash
  <1>17. CASE ObserveSpan(r)
    BY <1>17 DEF ObserveSpan
  <1>18. CASE RecordSLO(r)
    BY <1>18 DEF RecordSLO
  <1>19. CASE CountError(r)
    BY <1>19 DEF CountError
  <1>20. CASE CountRequest(r)
    BY <1>20 DEF CountRequest
  <1>21. CASE ObserveLatency(r)
    BY <1>21 DEF ObserveLatency
  <1>22. CASE Leave(r)
    <2>1. r \in Inside
      BY <1>22 DEF Leave, Inside, InsidePCs, FateFits, StreamPCs
    <2>2. inFlight > 0
      BY <2>1, InsideFinite, FS_EmptySet DEF InFlightExact
    <2> QED
      BY <1>22, <2>2 DEF Leave
  <1>23. CASE GaugeOut(r)
    BY <1>23 DEF GaugeOut
  <1> QED
    BY <1>1, <1>2, <1>3, <1>4, <1>5, <1>6, <1>7, <1>8, <1>9, <1>10, <1>11, <1>12,
       <1>13, <1>14, <1>15, <1>16, <1>17, <1>18, <1>19, <1>20, <1>21, <1>22, <1>23 DEF Step

\* Each action moves a request along its own endpoint's path, with a fate that
\* fits the place it reaches.
LEMMA FateFitsStep ==
  ASSUME Inv, NEW r \in Requests, Step(r)
  PROVE  FateFits'
  <1> USE GatewayAssumption
      DEF Inv, TypeOK, FateFits, CallPCs, StreamPCs, PCs, Undecided,
          Goto, Decide, threads, Requests
  <1>1. CASE Shed(r)
    BY <1>1 DEF Shed
  <1>2. CASE Admit(r)
    BY <1>2 DEF Admit
  <1>3. CASE Enter(r)
    BY <1>3 DEF Enter
  <1>4. CASE GaugeIn(r)
    BY <1>4 DEF GaugeIn
  <1>5. CASE OpenTrace(r)
    BY <1>5 DEF OpenTrace
  <1>6. CASE Export(r)
    BY <1>6 DEF Export
  <1>7. CASE AttemptOk(r)
    BY <1>7 DEF AttemptOk
  <1>8. CASE AttemptRetry(r)
    BY <1>8 DEF AttemptRetry
  <1>9. CASE AttemptFail(r)
    BY <1>9 DEF AttemptFail
  <1>10. CASE AttemptCrash(r)
    BY <1>10 DEF AttemptCrash
  <1>11. CASE StreamChunk(r)
    BY <1>11 DEF StreamChunk
  <1>12. CASE StreamResume(r)
    BY <1>12 DEF StreamResume
  <1>13. CASE StreamAbandon(r)
    BY <1>13 DEF StreamAbandon
  <1>14. CASE StreamEnd(r)
    BY <1>14 DEF StreamEnd
  <1>15. CASE StreamFail(r)
    BY <1>15 DEF StreamFail
  <1>16. CASE StreamCrash(r)
    BY <1>16 DEF StreamCrash
  <1>17. CASE ObserveSpan(r)
    BY <1>17 DEF ObserveSpan
  <1>18. CASE RecordSLO(r)
    BY <1>18 DEF RecordSLO
  <1>19. CASE CountError(r)
    BY <1>19 DEF CountError
  <1>20. CASE CountRequest(r)
    BY <1>20 DEF CountRequest
  <1>21. CASE ObserveLatency(r)
    BY <1>21 DEF ObserveLatency
  <1>22. CASE Leave(r)
    BY <1>22 DEF Leave
  <1>23. CASE GaugeOut(r)
    BY <1>23 DEF GaugeOut
  <1> QED
    BY <1>1, <1>2, <1>3, <1>4, <1>5, <1>6, <1>7, <1>8, <1>9, <1>10, <1>11, <1>12,
       <1>13, <1>14, <1>15, <1>16, <1>17, <1>18, <1>19, <1>20, <1>21, <1>22, <1>23 DEF Step

\* A step that does not cross the border leaves the set inside as it was.
LEMMA InsideSame ==
  ASSUME Inv, NEW r \in Requests, NEW from, NEW to \in PCs, Goto(r, from, to),
         r \in Calls => (from \in InsidePCs <=> to \in InsidePCs)
  PROVE  Inside' = Inside
  BY GotoType DEF Inv, TypeOK, Inside, Requests

\* The counter of a step that leaves both it and the border alone stays exact.
LEMMA ExactSame ==
  ASSUME Inv, Inside' = Inside, inFlight' = inFlight
  PROVE  InFlightExact'
  BY DEF Inv, InFlightExact

LEMMA InFlightExactStep ==
  ASSUME Inv, NEW r \in Requests, Step(r)
  PROVE  InFlightExact'
  <1> USE DEF Inv, PCs, InsidePCs, admission
  <1>1. CASE Shed(r)
    <2>1. Inside' = Inside
      BY <1>1, InsideSame DEF Shed
    <2> QED
      BY <1>1, <2>1, ExactSame DEF Shed
  <1>2. CASE Admit(r)
    <2>1. Inside' = Inside
      BY <1>2, InsideSame DEF Admit
    <2> QED
      BY <1>2, <2>1, ExactSame DEF Admit
  <1>3. CASE Enter(r)
    <2>1. r \in Calls /\ r \notin Inside
      BY <1>3 DEF Enter, Goto, Inside, FateFits, StreamPCs
    <2>2. Inside' = Inside \cup {r}
      BY <1>3, <2>1, GotoType DEF Enter, Inside, TypeOK, Requests
    <2>3. Cardinality(Inside') = Cardinality(Inside) + 1
      BY <2>1, <2>2, InsideGains
    <2> QED
      BY <1>3, <2>3 DEF Enter, InFlightExact
  <1>4. CASE GaugeIn(r)
    <2>1. Inside' = Inside
      BY <1>4, InsideSame DEF GaugeIn
    <2> QED
      BY <1>4, <2>1, ExactSame DEF GaugeIn
  <1>5. CASE OpenTrace(r)
    <2>1. Inside' = Inside
      BY <1>5, InsideSame DEF OpenTrace
    <2> QED
      BY <1>5, <2>1, ExactSame DEF OpenTrace
  <1>6. CASE Export(r)
    <2>1. Inside' = Inside
      BY <1>6, InsideSame, GatewayAssumption DEF Export, Requests
    <2> QED
      BY <1>6, <2>1, ExactSame DEF Export
  <1>7. CASE AttemptOk(r)
    <2>1. Inside' = Inside
      BY <1>7, InsideSame DEF AttemptOk
    <2> QED
      BY <1>7, <2>1, ExactSame DEF AttemptOk
  <1>8. CASE AttemptRetry(r)
    <2>1. Inside' = Inside
      BY <1>8, InsideSame DEF AttemptRetry
    <2> QED
      BY <1>8, <2>1, ExactSame DEF AttemptRetry
  <1>9. CASE AttemptFail(r)
    <2>1. Inside' = Inside
      BY <1>9, InsideSame DEF AttemptFail
    <2> QED
      BY <1>9, <2>1, ExactSame DEF AttemptFail
  <1>10. CASE AttemptCrash(r)
    <2>1. Inside' = Inside
      BY <1>10, InsideSame DEF AttemptCrash
    <2> QED
      BY <1>10, <2>1, ExactSame DEF AttemptCrash
  <1>11. CASE StreamChunk(r)
    <2>1. r \notin Calls
      BY <1>11, GatewayAssumption DEF StreamChunk, Goto, FateFits, CallPCs, Requests
    <2>2. Inside' = Inside
      BY <1>11, <2>1, InsideSame DEF StreamChunk
    <2> QED
      BY <1>11, <2>2, ExactSame DEF StreamChunk
  <1>12. CASE StreamResume(r)
    <2>1. r \notin Calls
      BY <1>12, GatewayAssumption DEF StreamResume, Goto, FateFits, CallPCs, Requests
    <2>2. Inside' = Inside
      BY <1>12, <2>1, InsideSame DEF StreamResume
    <2> QED
      BY <1>12, <2>2, ExactSame DEF StreamResume
  <1>13. CASE StreamAbandon(r)
    <2>1. r \notin Calls
      BY <1>13, GatewayAssumption DEF StreamAbandon, Goto, FateFits, CallPCs, Requests
    <2>2. Inside' = Inside
      BY <1>13, <2>1, InsideSame DEF StreamAbandon
    <2> QED
      BY <1>13, <2>2, ExactSame DEF StreamAbandon
  <1>14. CASE StreamEnd(r)
    <2>1. Inside' = Inside
      BY <1>14, InsideSame DEF StreamEnd
    <2> QED
      BY <1>14, <2>1, ExactSame DEF StreamEnd
  <1>15. CASE StreamFail(r)
    <2>1. Inside' = Inside
      BY <1>15, InsideSame DEF StreamFail
    <2> QED
      BY <1>15, <2>1, ExactSame DEF StreamFail
  <1>16. CASE StreamCrash(r)
    <2>1. Inside' = Inside
      BY <1>16, InsideSame DEF StreamCrash
    <2> QED
      BY <1>16, <2>1, ExactSame DEF StreamCrash
  <1>17. CASE ObserveSpan(r)
    <2>1. Inside' = Inside
      BY <1>17, InsideSame DEF ObserveSpan
    <2> QED
      BY <1>17, <2>1, ExactSame DEF ObserveSpan
  <1>18. CASE RecordSLO(r)
    <2>1. Inside' = Inside
      BY <1>18, InsideSame DEF RecordSLO
    <2> QED
      BY <1>18, <2>1, ExactSame DEF RecordSLO
  <1>19. CASE CountError(r)
    <2>1. Inside' = Inside
      BY <1>19, InsideSame DEF CountError
    <2> QED
      BY <1>19, <2>1, ExactSame DEF CountError
  <1>20. CASE CountRequest(r)
    <2>1. Inside' = Inside
      BY <1>20, InsideSame DEF CountRequest
    <2> QED
      BY <1>20, <2>1, ExactSame DEF CountRequest
  <1>21. CASE ObserveLatency(r)
    <2>1. Inside' = Inside
      BY <1>21, InsideSame DEF ObserveLatency
    <2> QED
      BY <1>21, <2>1, ExactSame DEF ObserveLatency
  <1>22. CASE Leave(r)
    <2>1. r \in Calls /\ r \in Inside
      BY <1>22 DEF Leave, Goto, Inside, FateFits, StreamPCs
    <2>2. Inside' = Inside \ {r}
      BY <1>22, <2>1, GotoType DEF Leave, Inside, TypeOK, Requests
    <2>3. Cardinality(Inside') = Cardinality(Inside) - 1
      BY <2>1, <2>2, InsideLoses
    <2> QED
      BY <1>22, <2>3 DEF Leave, InFlightExact
  <1>23. CASE GaugeOut(r)
    <2>1. Inside' = Inside
      BY <1>23, InsideSame DEF GaugeOut
    <2> QED
      BY <1>23, <2>1, ExactSame DEF GaugeOut
  <1> QED
    BY <1>1, <1>2, <1>3, <1>4, <1>5, <1>6, <1>7, <1>8, <1>9, <1>10, <1>11, <1>12,
       <1>13, <1>14, <1>15, <1>16, <1>17, <1>18, <1>19, <1>20, <1>21, <1>22, <1>23 DEF Step

\* The finished system only stutters.
LEMMA InvStutter ==
  ASSUME Inv, UNCHANGED vars
  PROVE  Inv'
  <1> USE DEF Inv, vars, threads, admission, tracing, telemetry
  <1>1. TypeOK'
    BY DEF TypeOK
  <1>2. FateFits'
    BY DEF FateFits
  <1>3. InFlightExact'
    BY DEF InFlightExact, Inside
  <1> QED
    BY <1>1, <1>2, <1>3

LEMMA InvStep == Inv /\ [Next]_vars => Inv'
  <1> SUFFICES ASSUME Inv, [Next]_vars PROVE Inv'
    OBVIOUS
  <1>1. ASSUME NEW r \in Requests, Step(r) PROVE Inv'
    BY <1>1, TypeStep, FateFitsStep, InFlightExactStep DEF Inv
  <1>2. CASE UNCHANGED vars
    BY <1>2, InvStutter
  <1> QED
    BY <1>1, <1>2 DEF Next, Finished

\* Inv holds of every reachable state.
THEOREM InvHolds == Spec => []Inv
  BY InvInit, InvStep, PTL DEF Spec

\* Every variable keeps its type: no attempt beyond max_retries + 1, and the
\* in-flight counter never goes below zero.
THEOREM TypeCorrect == Spec => []TypeOK
  <1>1. Inv => TypeOK
    BY DEF Inv
  <1> QED
    BY <1>1, InvHolds, PTL

\* The in-flight counter is the number of calls being served, in every state.
THEOREM InFlightIsExact == Spec => []InFlightExact
  <1>1. Inv => InFlightExact
    BY DEF Inv
  <1> QED
    BY <1>1, InvHolds, PTL

\* A call is only ever turned away while max_in_flight others are being served.
THEOREM ShedsOnlyWhenFull == Spec => ShedOnlyWhenFull
  <1> DEFINE Justified == \A r \in Requests :
               fate[r] # "shed" /\ fate'[r] = "shed" =>
                 MaxInFlight # 0 /\ Cardinality(Inside) >= MaxInFlight
  <1>1. Inv /\ [Next]_vars => [Justified]_vars
    <2> SUFFICES ASSUME Inv, Next, NEW q \in Requests,
                        fate[q] # "shed", fate'[q] = "shed"
                 PROVE  MaxInFlight # 0 /\ Cardinality(Inside) >= MaxInFlight
      OBVIOUS
    <2>1. PICK r \in Requests : Step(r)
      BY DEF Next, Finished, vars, threads
    <2>2. Shed(r)
      BY <2>1 DEF Inv, TypeOK, Step, Decide, threads, Admit, Enter, GaugeIn, OpenTrace,
         Export, AttemptOk, AttemptRetry, AttemptFail, AttemptCrash, StreamChunk,
         StreamResume, StreamAbandon, StreamEnd, StreamFail, StreamCrash, ObserveSpan,
         RecordSLO, CountError, CountRequest, ObserveLatency, Leave, GaugeOut
    <2> QED
      BY <2>2 DEF Inv, InFlightExact, Shed, Full
  <1> QED
    BY <1>1, InvHolds, PTL DEF Spec, ShedOnlyWhenFull

-----------------------------------------------------------------------------
(***************************************************************************)
(* The refinement.  A step of request r is the ledger's Advance(r, f, W),   *)
(* where f is the fate r then has and W what the step records: it is enough *)
(* to show that Written(r) grows by W, for what is written is always due,   *)
(* and all that is due once r is "done".                                    *)
(***************************************************************************)

Books(q) == /\ Written(q) \subseteq Ledger!Due(q, fate[q])
            /\ pc[q] = "done" => /\ Written(q) = Ledger!Due(q, fate[q])
                                /\ fate[q] # "open"

\* What is written is what is due once a request is done, and never more.
LEMMA BooksHold == Inv => \A q \in Requests : Books(q)
  <1> SUFFICES ASSUME Inv, NEW q \in Requests PROVE Books(q)
    OBVIOUS
  <1> USE DEF Inv, TypeOK, FateFits, Books, Written, Observed, Recorded, Ledger!Due,
             Entries, Ledger!Entries, Fates, Undecided, CallPCs, StreamPCs, Requests
  <1>1. CASE fate[q] = "answered"
    BY <1>1
  <1>2. CASE fate[q] = "failed"
    BY <1>2
  <1>3. CASE fate[q] \notin {"answered", "failed"}
    BY <1>3
  <1> QED
    BY <1>1, <1>2, <1>3

LEMMA WrittenElsewhere ==
  ASSUME NEW q \in Requests, pc'[q] = pc[q], fate'[q] = fate[q]
  PROVE  Written(q)' = Written(q)
  BY DEF Written, Observed, Recorded

LEMMA LedgerStep ==
  ASSUME Inv, Inv', NEW r \in Requests, NEW W \in SUBSET Entries,
         pc[r] # "done",
         \A q \in Requests \ {r} : pc'[q] = pc[q],
         fate' = [fate EXCEPT ![r] = fate'[r]],
         fate[r] \in {"open", fate'[r]},
         Written(r)' = Written(r) \cup W,
         Written(r) \cap W = {},
         Count(W)
  PROVE  Ledger!Next
  <1> DEFINE f == fate'[r]
             written == [q \in Requests |-> Written(q)]
             settled == {q \in Requests : pc[q] = "done"}
  <1> USE DEF Inv, TypeOK
  <1>1. Inv' => (\A q \in Requests : Books(q))'
    BY BooksHold, PTL
  <1>2. /\ Written(r)' \subseteq Ledger!Due(r, f)
        /\ pc'[r] = "done" => /\ Written(r)' = Ledger!Due(r, f)
                              /\ f # "open"
    BY <1>1 DEF Books, Ledger!Due
  <1>3. written' = [written EXCEPT ![r] = @ \cup W]
    BY WrittenElsewhere
  <1>4. settled' \in {settled, settled \cup {r}}
    <2>1. CASE pc'[r] = "done"
      BY <2>1
    <2>2. CASE pc'[r] # "done"
      BY <2>2
    <2> QED
      BY <2>1, <2>2
  <1>5. f \in Ledger!Fates /\ W \in SUBSET Ledger!Entries
    BY DEF Fates, Entries, Ledger!Fates, Ledger!Entries
  <1>6. tally' = [e \in Ledger!Entries |-> tally[e] + (IF e \in W THEN 1 ELSE 0)]
    BY DEF Count, Entries, Ledger!Entries
  <1>7. r \notin settled /\ written[r] = Written(r) /\ r \in Ledger!Requests
    BY DEF Requests, Ledger!Requests
  <1>8. written'[r] = Written(r)'
    OBVIOUS
  <1>9. Ledger!Advance(r, f, W)
    BY <1>2, <1>3, <1>4, <1>6, <1>7, <1>8 DEF Ledger!Advance, Requests
  <1> QED
    BY <1>5, <1>7, <1>9 DEF Ledger!Next

\* A step moves one request, and fixes its fate at most once.
LEMMA OneMoves ==
  ASSUME Inv, NEW r \in Requests, Step(r)
  PROVE  /\ pc[r] # "done"
         /\ \A q \in Requests \ {r} : pc'[q] = pc[q]
         /\ fate' = [fate EXCEPT ![r] = fate'[r]]
         /\ fate[r] \in {"open", fate'[r]}
  <1> USE DEF Inv, TypeOK, FateFits, Undecided, Goto, Decide, threads
  <1>1. CASE Shed(r)
    BY <1>1 DEF Shed
  <1>2. CASE Admit(r)
    BY <1>2 DEF Admit
  <1>3. CASE Enter(r)
    BY <1>3 DEF Enter
  <1>4. CASE GaugeIn(r)
    BY <1>4 DEF GaugeIn
  <1>5. CASE OpenTrace(r)
    BY <1>5 DEF OpenTrace
  <1>6. CASE Export(r)
    BY <1>6 DEF Export
  <1>7. CASE AttemptOk(r)
    BY <1>7 DEF AttemptOk
  <1>8. CASE AttemptRetry(r)
    BY <1>8 DEF AttemptRetry
  <1>9. CASE AttemptFail(r)
    BY <1>9 DEF AttemptFail
  <1>10. CASE AttemptCrash(r)
    BY <1>10 DEF AttemptCrash
  <1>11. CASE StreamChunk(r)
    BY <1>11 DEF StreamChunk
  <1>12. CASE StreamResume(r)
    BY <1>12 DEF StreamResume
  <1>13. CASE StreamAbandon(r)
    BY <1>13 DEF StreamAbandon
  <1>14. CASE StreamEnd(r)
    BY <1>14 DEF StreamEnd
  <1>15. CASE StreamFail(r)
    BY <1>15 DEF StreamFail
  <1>16. CASE StreamCrash(r)
    BY <1>16 DEF StreamCrash
  <1>17. CASE ObserveSpan(r)
    BY <1>17 DEF ObserveSpan
  <1>18. CASE RecordSLO(r)
    BY <1>18 DEF RecordSLO
  <1>19. CASE CountError(r)
    BY <1>19 DEF CountError
  <1>20. CASE CountRequest(r)
    BY <1>20 DEF CountRequest
  <1>21. CASE ObserveLatency(r)
    BY <1>21 DEF ObserveLatency
  <1>22. CASE Leave(r)
    BY <1>22 DEF Leave
  <1>23. CASE GaugeOut(r)
    BY <1>23 DEF GaugeOut
  <1> QED
    BY <1>1, <1>2, <1>3, <1>4, <1>5, <1>6, <1>7, <1>8, <1>9, <1>10, <1>11, <1>12,
       <1>13, <1>14, <1>15, <1>16, <1>17, <1>18, <1>19, <1>20, <1>21, <1>22, <1>23 DEF Step

\* What a step adds to the totals is what its request has newly written.
LEMMA CountsWhatItWrites ==
  ASSUME Inv, NEW r \in Requests, Step(r)
  PROVE  /\ Written(r) \subseteq Written(r)'
         /\ Count(Written(r)' \ Written(r))
  <1>0. ASSUME Written(r)' = Written(r), tally' = tally
        PROVE  /\ Written(r) \subseteq Written(r)'
               /\ Count(Written(r)' \ Written(r))
    <2>1. Written(r)' \ Written(r) = {}
      BY <1>0
    <2>2. tally \in [Entries -> Nat]
      BY DEF Inv, TypeOK
    <2>3. tally = [e \in Entries |-> tally[e] + 0]
      BY <2>2
    <2> QED
      BY <1>0, <2>1, <2>3 DEF Count
  <1> USE GatewayAssumption
      DEF Inv, TypeOK, FateFits, Goto, Decide, Count, Written, Observed, Recorded,
          Undecided, CallPCs, StreamPCs, PCs, Entries, Requests,
          threads, admission, tracing, telemetry
  <1>1. CASE Shed(r)
    <2>1. /\ Written(r) \subseteq Written(r)'
          /\ Written(r)' \ Written(r) = {"errors_shed"}
      BY <1>1 DEF Shed
    <2> QED
      BY <1>1, <2>1 DEF Shed
  <1>2. CASE Admit(r)
    <2>1. Written(r)' = Written(r)
      BY <1>2 DEF Admit
    <2>2. tally' = tally
      BY <1>2 DEF Admit
    <2> QED
      BY <2>1, <2>2, <1>0
  <1>3. CASE Enter(r)
    <2>1. Written(r)' = Written(r)
      BY <1>3 DEF Enter
    <2>2. tally' = tally
      BY <1>3 DEF Enter
    <2> QED
      BY <2>1, <2>2, <1>0
  <1>4. CASE GaugeIn(r)
    <2>1. Written(r)' = Written(r)
      BY <1>4 DEF GaugeIn
    <2>2. tally' = tally
      BY <1>4 DEF GaugeIn
    <2> QED
      BY <2>1, <2>2, <1>0
  <1>5. CASE OpenTrace(r)
    <2>1. Written(r)' = Written(r)
      BY <1>5 DEF OpenTrace
    <2>2. tally' = tally
      BY <1>5 DEF OpenTrace
    <2> QED
      BY <2>1, <2>2, <1>0
  <1>6. CASE Export(r)
    <2>1. Written(r)' = Written(r)
      BY <1>6 DEF Export
    <2>2. tally' = tally
      BY <1>6 DEF Export
    <2> QED
      BY <2>1, <2>2, <1>0
  <1>7. CASE AttemptOk(r)
    <2>1. Written(r)' = Written(r)
      BY <1>7 DEF AttemptOk
    <2>2. tally' = tally
      BY <1>7 DEF AttemptOk
    <2> QED
      BY <2>1, <2>2, <1>0
  <1>8. CASE AttemptRetry(r)
    <2>1. Written(r)' = Written(r)
      BY <1>8 DEF AttemptRetry
    <2>2. tally' = tally
      BY <1>8 DEF AttemptRetry
    <2> QED
      BY <2>1, <2>2, <1>0
  <1>9. CASE AttemptFail(r)
    <2>1. Written(r)' = Written(r)
      BY <1>9 DEF AttemptFail
    <2>2. tally' = tally
      BY <1>9 DEF AttemptFail
    <2> QED
      BY <2>1, <2>2, <1>0
  <1>10. CASE AttemptCrash(r)
    <2>1. Written(r)' = Written(r)
      BY <1>10 DEF AttemptCrash
    <2>2. tally' = tally
      BY <1>10 DEF AttemptCrash
    <2> QED
      BY <2>1, <2>2, <1>0
  <1>11. CASE StreamChunk(r)
    <2>1. Written(r)' = Written(r)
      BY <1>11 DEF StreamChunk
    <2>2. tally' = tally
      BY <1>11 DEF StreamChunk
    <2> QED
      BY <2>1, <2>2, <1>0
  <1>12. CASE StreamResume(r)
    <2>1. Written(r)' = Written(r)
      BY <1>12 DEF StreamResume
    <2>2. tally' = tally
      BY <1>12 DEF StreamResume
    <2> QED
      BY <2>1, <2>2, <1>0
  <1>13. CASE StreamAbandon(r)
    <2>1. Written(r)' = Written(r)
      BY <1>13 DEF StreamAbandon
    <2>2. tally' = tally
      BY <1>13 DEF StreamAbandon
    <2> QED
      BY <2>1, <2>2, <1>0
  <1>14. CASE StreamEnd(r)
    <2>1. Written(r)' = Written(r)
      BY <1>14 DEF StreamEnd
    <2>2. tally' = tally
      BY <1>14 DEF StreamEnd
    <2> QED
      BY <2>1, <2>2, <1>0
  <1>15. CASE StreamFail(r)
    <2>1. Written(r)' = Written(r)
      BY <1>15 DEF StreamFail
    <2>2. tally' = tally
      BY <1>15 DEF StreamFail
    <2> QED
      BY <2>1, <2>2, <1>0
  <1>16. CASE StreamCrash(r)
    <2>1. Written(r)' = Written(r)
      BY <1>16 DEF StreamCrash
    <2>2. tally' = tally
      BY <1>16 DEF StreamCrash
    <2> QED
      BY <2>1, <2>2, <1>0
  <1>17. CASE ObserveSpan(r)
    <2>1. /\ Written(r) \subseteq Written(r)'
          /\ Written(r)' \ Written(r) = {"requests_ok", "latency"}
      BY <1>17 DEF ObserveSpan
    <2> QED
      BY <1>17, <2>1 DEF ObserveSpan
  <1>18. CASE RecordSLO(r)
    <2>1. /\ Written(r) \subseteq Written(r)'
          /\ Written(r)' \ Written(r) = {IF fate[r] = "answered" THEN "slo_good" ELSE "slo_bad"}
      BY <1>18 DEF RecordSLO
    <2> QED
      BY <1>18, <2>1 DEF RecordSLO
  <1>19. CASE CountError(r)
    <2>1. /\ Written(r) \subseteq Written(r)'
          /\ Written(r)' \ Written(r) = {"errors_error"}
      BY <1>19 DEF CountError
    <2> QED
      BY <1>19, <2>1 DEF CountError
  <1>20. CASE CountRequest(r)
    <2>1. /\ Written(r) \subseteq Written(r)'
          /\ Written(r)' \ Written(r) = {"requests_error"}
      BY <1>20 DEF CountRequest
    <2> QED
      BY <1>20, <2>1 DEF CountRequest
  <1>21. CASE ObserveLatency(r)
    <2>1. /\ Written(r) \subseteq Written(r)'
          /\ Written(r)' \ Written(r) = {"latency"}
      BY <1>21 DEF ObserveLatency
    <2> QED
      BY <1>21, <2>1 DEF ObserveLatency
  <1>22. CASE Leave(r)
    <2>1. Written(r)' = Written(r)
      BY <1>22 DEF Leave
    <2>2. tally' = tally
      BY <1>22 DEF Leave
    <2> QED
      BY <2>1, <2>2, <1>0
  <1>23. CASE GaugeOut(r)
    <2>1. Written(r)' = Written(r)
      BY <1>23 DEF GaugeOut
    <2>2. tally' = tally
      BY <1>23 DEF GaugeOut
    <2> QED
      BY <2>1, <2>2, <1>0
  <1> QED
    BY <1>1, <1>2, <1>3, <1>4, <1>5, <1>6, <1>7, <1>8, <1>9, <1>10, <1>11, <1>12,
       <1>13, <1>14, <1>15, <1>16, <1>17, <1>18, <1>19, <1>20, <1>21, <1>22, <1>23 DEF Step

LEMMA LedgerAdvances ==
  ASSUME Inv, Inv', NEW r \in Requests, Step(r)
  PROVE  Ledger!Next
  <1> DEFINE W == Written(r)' \ Written(r)
  <1>1. W \in SUBSET Entries
    BY DEF Written
  <1>2. /\ Written(r)' = Written(r) \cup W
        /\ Written(r) \cap W = {}
        /\ Count(W)
    BY CountsWhatItWrites
  <1> QED
    BY <1>1, <1>2, OneMoves, LedgerStep

\* The gateway's telemetry implements the ledger: a step of the code advances
\* one request's records, or leaves the ledger as it was.
THEOREM GatewayImplementsLedger == Spec => ImplementsLedger
  <1>1. Init => Ledger!Init
    <2> SUFFICES ASSUME Init PROVE Ledger!Init
      OBVIOUS
    <2>1. \A r \in Requests : Written(r) = {} /\ pc[r] # "done"
      BY DEF Init, Written, Observed, Recorded
    <2> QED
      BY <2>1 DEF Init, Ledger!Init, Requests, Ledger!Requests, Entries, Ledger!Entries
  <1>2. Inv /\ Inv' /\ [Next]_vars => [Ledger!Next]_(Ledger!vars)
    <2> SUFFICES ASSUME Inv, Inv', [Next]_vars PROVE Ledger!Next \/ UNCHANGED Ledger!vars
      OBVIOUS
    <2>1. ASSUME NEW r \in Requests, Step(r) PROVE Ledger!Next
      BY <2>1, LedgerAdvances
    <2>2. CASE UNCHANGED vars
      BY <2>2 DEF vars, threads, telemetry, Ledger!vars, Written, Observed, Recorded
    <2> QED
      BY <2>1, <2>2 DEF Next, Finished
  <1> QED
    BY <1>1, <1>2, InvHolds, PTL DEF Spec, ImplementsLedger, Ledger!Spec

-----------------------------------------------------------------------------
(* Exactly-once accounting, from the same facts about a step. *)

Writers(e) == {r \in Requests : e \in Written(r)}

LEMMA WritersFinite == \A e : IsFiniteSet(Writers(e))
  BY GatewayAssumption, FS_Subset DEF Writers

LEMMA TotalsStep ==
  ASSUME Inv, NEW r \in Requests, Step(r), NEW e \in Entries,
         tally[e] = Cardinality(Writers(e))
  PROVE  tally'[e] = Cardinality(Writers(e)')
  <1>1. \A q \in Requests \ {r} : Written(q)' = Written(q)
    BY OneMoves, WrittenElsewhere DEF Inv, TypeOK
  <1>2. Written(r) \subseteq Written(r)'
    BY CountsWhatItWrites
  <1>3. tally'[e] = tally[e] + (IF e \in Written(r)' \ Written(r) THEN 1 ELSE 0)
    BY CountsWhatItWrites DEF Count
  <1>4. CASE e \in Written(r)' \ Written(r)
    <2>1. Writers(e)' = Writers(e) \cup {r} /\ r \notin Writers(e)
      BY <1>1, <1>4 DEF Writers
    <2> QED
      BY <1>3, <1>4, <2>1, WritersFinite, FS_AddElement
  <1>5. CASE e \notin Written(r)' \ Written(r)
    <2>1. Writers(e)' = Writers(e)
      BY <1>1, <1>2, <1>5 DEF Writers
    <2>2. tally'[e] = tally[e]
      BY <1>3, <1>5 DEF Inv, TypeOK
    <2> QED
      BY <2>1, <2>2
  <1> QED
    BY <1>4, <1>5

\* Each total is the number of requests that should have contributed to it by
\* now: nothing is counted twice, and nothing is lost.
THEOREM TotalsAreExact == Spec => []TotalsExact
  <1> DEFINE Totals == \A e \in Entries : tally[e] = Cardinality(Writers(e))
  <1>1. Init => Totals
    <2> SUFFICES ASSUME Init, NEW e \in Entries PROVE tally[e] = Cardinality(Writers(e))
      OBVIOUS
    <2>1. Writers(e) = {}
      BY DEF Init, Writers, Written, Observed, Recorded
    <2> QED
      BY <2>1, FS_EmptySet DEF Init
  <1>2. Inv /\ Totals /\ [Next]_vars => Totals'
    <2> SUFFICES ASSUME Inv, Totals, [Next]_vars, NEW e \in Entries
                 PROVE  tally'[e] = Cardinality(Writers(e)')
      OBVIOUS
    <2>1. ASSUME NEW r \in Requests, Step(r)
          PROVE  tally'[e] = Cardinality(Writers(e)')
      BY <2>1, TotalsStep
    <2>2. CASE UNCHANGED vars
      BY <2>2 DEF vars, threads, telemetry, Writers, Written, Observed, Recorded
    <2> QED
      BY <2>1, <2>2 DEF Next, Finished
  <1>3. Totals => TotalsExact
    BY DEF TotalsExact, Writers
  <1> QED
    BY <1>1, <1>2, <1>3, InvHolds, PTL DEF Spec

-----------------------------------------------------------------------------
(***************************************************************************)
(* The traces.  Kept strengthens FailuresKeepTheirTrace to every place      *)
(* after the export, and adds what makes a shed call no exception: a        *)
(* request that has not reached the backend has made no second attempt.     *)
(***************************************************************************)
Exported(r) ==
  \/ pc[r] \in {"errors", "requests", "latency", "leave", "regauge", "done"}
  \/ pc[r] = "record" /\ r \in Calls /\ fate[r] = "failed"

Kept ==
  \A r \in Requests :
    /\ pc[r] \in {"check", "enter", "gauge", "open"} => attempt[r] = 1
    /\ Exported(r) /\ (fate[r] \in {"failed", "crashed"} \/ attempt[r] > 1)
         => stored[r] \in {"error", "lost"}

TraceInv == ActiveExact /\ Kept

LEMMA ActiveStep ==
  ASSUME Inv, ActiveExact, NEW r \in Requests, Step(r)
  PROVE  ActiveExact'
  <1> USE GatewayAssumption
      DEF Inv, TypeOK, FateFits, ActiveExact, Traced, Goto, Decide, Undecided,
          CallPCs, StreamPCs, PCs, Requests, threads, tracing
  <1>1. CASE Shed(r)
    BY <1>1 DEF Shed
  <1>2. CASE Admit(r)
    BY <1>2 DEF Admit
  <1>3. CASE Enter(r)
    BY <1>3 DEF Enter
  <1>4. CASE GaugeIn(r)
    BY <1>4 DEF GaugeIn
  <1>5. CASE OpenTrace(r)
    BY <1>5 DEF OpenTrace
  <1>6. CASE Export(r)
    BY <1>6 DEF Export
  <1>7. CASE AttemptOk(r)
    BY <1>7 DEF AttemptOk
  <1>8. CASE AttemptRetry(r)
    BY <1>8 DEF AttemptRetry
  <1>9. CASE AttemptFail(r)
    BY <1>9 DEF AttemptFail
  <1>10. CASE AttemptCrash(r)
    BY <1>10 DEF AttemptCrash
  <1>11. CASE StreamChunk(r)
    BY <1>11 DEF StreamChunk
  <1>12. CASE StreamResume(r)
    BY <1>12 DEF StreamResume
  <1>13. CASE StreamAbandon(r)
    BY <1>13 DEF StreamAbandon
  <1>14. CASE StreamEnd(r)
    BY <1>14 DEF StreamEnd
  <1>15. CASE StreamFail(r)
    BY <1>15 DEF StreamFail
  <1>16. CASE StreamCrash(r)
    BY <1>16 DEF StreamCrash
  <1>17. CASE ObserveSpan(r)
    BY <1>17 DEF ObserveSpan
  <1>18. CASE RecordSLO(r)
    BY <1>18 DEF RecordSLO
  <1>19. CASE CountError(r)
    BY <1>19 DEF CountError
  <1>20. CASE CountRequest(r)
    BY <1>20 DEF CountRequest
  <1>21. CASE ObserveLatency(r)
    BY <1>21 DEF ObserveLatency
  <1>22. CASE Leave(r)
    BY <1>22 DEF Leave
  <1>23. CASE GaugeOut(r)
    BY <1>23 DEF GaugeOut
  <1> QED
    BY <1>1, <1>2, <1>3, <1>4, <1>5, <1>6, <1>7, <1>8, <1>9, <1>10, <1>11, <1>12,
       <1>13, <1>14, <1>15, <1>16, <1>17, <1>18, <1>19, <1>20, <1>21, <1>22, <1>23 DEF Step

LEMMA KeptStep ==
  ASSUME Inv, Kept, NEW r \in Requests, Step(r)
  PROVE  Kept'
  <1> USE GatewayAssumption
      DEF Inv, TypeOK, FateFits, Kept, Exported, Goto, Decide, Undecided,
          CallPCs, StreamPCs, PCs, Requests, threads, tracing
  <1>1. CASE Shed(r)
    BY <1>1 DEF Shed
  <1>2. CASE Admit(r)
    BY <1>2 DEF Admit
  <1>3. CASE Enter(r)
    BY <1>3 DEF Enter
  <1>4. CASE GaugeIn(r)
    BY <1>4 DEF GaugeIn
  <1>5. CASE OpenTrace(r)
    BY <1>5 DEF OpenTrace
  <1>6. CASE Export(r)
    BY <1>6 DEF Export, TraceStatus
  <1>7. CASE AttemptOk(r)
    BY <1>7 DEF AttemptOk
  <1>8. CASE AttemptRetry(r)
    BY <1>8 DEF AttemptRetry
  <1>9. CASE AttemptFail(r)
    BY <1>9 DEF AttemptFail
  <1>10. CASE AttemptCrash(r)
    BY <1>10 DEF AttemptCrash
  <1>11. CASE StreamChunk(r)
    BY <1>11 DEF StreamChunk
  <1>12. CASE StreamResume(r)
    BY <1>12 DEF StreamResume
  <1>13. CASE StreamAbandon(r)
    BY <1>13 DEF StreamAbandon
  <1>14. CASE StreamEnd(r)
    BY <1>14 DEF StreamEnd
  <1>15. CASE StreamFail(r)
    BY <1>15 DEF StreamFail
  <1>16. CASE StreamCrash(r)
    BY <1>16 DEF StreamCrash
  <1>17. CASE ObserveSpan(r)
    BY <1>17 DEF ObserveSpan
  <1>18. CASE RecordSLO(r)
    BY <1>18 DEF RecordSLO
  <1>19. CASE CountError(r)
    BY <1>19 DEF CountError
  <1>20. CASE CountRequest(r)
    BY <1>20 DEF CountRequest
  <1>21. CASE ObserveLatency(r)
    BY <1>21 DEF ObserveLatency
  <1>22. CASE Leave(r)
    BY <1>22 DEF Leave
  <1>23. CASE GaugeOut(r)
    BY <1>23 DEF GaugeOut
  <1> QED
    BY <1>1, <1>2, <1>3, <1>4, <1>5, <1>6, <1>7, <1>8, <1>9, <1>10, <1>11, <1>12,
       <1>13, <1>14, <1>15, <1>16, <1>17, <1>18, <1>19, <1>20, <1>21, <1>22, <1>23 DEF Step

LEMMA TraceInvHolds == Spec => []TraceInv
  <1>1. Init => TraceInv
    BY DEF Init, TraceInv, ActiveExact, Traced, Kept, Exported
  <1>2. Inv /\ TraceInv /\ [Next]_vars => TraceInv'
    <2> SUFFICES ASSUME Inv, TraceInv, [Next]_vars PROVE TraceInv'
      OBVIOUS
    <2>1. ASSUME NEW r \in Requests, Step(r) PROVE TraceInv'
      BY <2>1, ActiveStep, KeptStep DEF TraceInv
    <2>2. CASE UNCHANGED vars
      BY <2>2 DEF vars, threads, tracing, TraceInv, ActiveExact, Traced, Kept, Exported
    <2> QED
      BY <2>1, <2>2 DEF Next, Finished
  <1> QED
    BY <1>1, <1>2, InvHolds, PTL DEF Spec

\* The tracer's active map holds the open traces and no others, so that no way
\* of ending a request leaks an entry.
THEOREM ActiveIsExact == Spec => []ActiveExact
  <1>1. TraceInv => ActiveExact
    BY DEF TraceInv
  <1> QED
    BY <1>1, TraceInvHolds, PTL

\* Whatever the sampling decision, a request that failed or was retried has
\* handed its trace to the exporters before its caller hears of it.
THEOREM FailuresAreExported == Spec => []FailuresKeepTheirTrace
  <1>1. TraceInv => FailuresKeepTheirTrace
    BY DEF TraceInv, Kept, Exported, FailuresKeepTheirTrace
  <1> QED
    BY <1>1, TraceInvHolds, PTL
=============================================================================
