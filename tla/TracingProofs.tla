---------------------------- MODULE TracingProofs ----------------------------
(***************************************************************************)
(* Theorems about Tracing and Readers, for any threads, any generators and *)
(* any bounds.                                                             *)
(*                                                                         *)
(* SpanTree, by Inv.  A span is in the record of its trace as long as that *)
(* trace is active (RecordsOK), so a child begun below it comes after it   *)
(* there.  The trace of a call stays active while the call runs because no *)
(* two blocks and no generator have the same span (Owners); and the blocks *)
(* of a call are each below the one before (Nest) as long as what _restore *)
(* puts back is what the block found, which a generator finalised in       *)
(* between may break.                                                      *)
(*                                                                         *)
(* BreakdownAddsUp, by TimeInv.  A context holds the span of the block     *)
(* below, or a generator's (Placed), so the spans below one of a call come *)
(* one after another and end before it does (Kids); what is exported keeps *)
(* that (Exported).  Their times then telescope, by induction over sets of *)
(* spans.                                                                  *)
(*                                                                         *)
(* ReportsAgree, by StoredOnce: a trace is stored once, when its root ends.*)
(* The rest is about what the readers compute of any such set of traces.   *)
(*                                                                         *)
(* Induction is in first-order form: a set that holds 0, and n + 1 with n, *)
(* is all of Nat (UpFromZero), and likewise for finite sets (SetBySet).    *)
(***************************************************************************)
EXTENDS Readers, FiniteSetTheorems, SequenceTheorems, WellFoundedInduction, TLAPS

Span  == [id : Nat, parent : Nat, trace : Nat, began : Int, ended : Int, status : {"ok", "error"}]
Block == [span : Nat, previous : Nat]

Types ==
  /\ clock \in Nat
  /\ spans \in Seq(Span) /\ Len(spans) <= MaxSpans
  /\ records \in [Ids -> Seq(Nat)]
  /\ ambient \in [Threads -> Nat]
  /\ blocks \in [Threads -> Seq(Block)]
  /\ gen \in [Generators -> [at : {"new", "open", "done"}, span : Nat, previous : Nat]]

Made  == 1 .. Len(spans)
Known == 0 .. Len(spans)

\* A parent is made before its child, and is in the same trace.
SpansOK ==
  \A s \in Made :
    /\ spans[s].trace \in Made /\ spans[s].parent \in 0 .. s - 1
    /\ spans[s].parent = 0 <=> spans[s].trace = s

Recorded(trace, s) == \E j \in DOMAIN records[trace] : records[trace][j] = s
AfterParent(id, i) == \E j \in 1 .. i - 1 : spans[records[id][i]].parent = records[id][j]

RecordsOK ==
  /\ active \subseteq Made
  /\ \A id \in Ids :
       /\ \A i \in DOMAIN records[id] : records[id][i] \in Made
       /\ records[id] # <<>> => records[id][1] = id /\ spans[id].parent = 0
       /\ \A i \in DOMAIN records[id] : i > 1 => AfterParent(id, i)
  /\ \A s \in Made : spans[s].trace \in active => Recorded(spans[s].trace, s)

\* What blocks, generators and contexts refer to has been made.
ContextsOK ==
  /\ \A t \in Threads :
       /\ ambient[t] \in Known
       /\ \A i \in DOMAIN blocks[t] : blocks[t][i].span \in Made /\ blocks[t][i].previous \in Known
  /\ \A g \in Generators :
       /\ gen[g].previous \in Known
       /\ gen[g].at = "open" => gen[g].span \in Made

\* Every span that is open in a block is that block's alone, and a trace among them is active.
Owned(t, i, s) ==
  /\ \A u \in Threads : \A j \in DOMAIN blocks[u] : blocks[u][j].span = s => t = u /\ i = j
  /\ \A g \in Generators : gen[g].at = "open" => gen[g].span # s
  /\ spans[s].trace = s => s \in active
Owners == \A t \in Threads : \A i \in DOMAIN blocks[t] : Owned(t, i, blocks[t][i].span)

InTrace(r, s) == spans[s].trace = r /\ Recorded(r, s)

\* The blocks of a call: each is below the one before and will restore it.
Nest(t) ==
  /\ blocks[t] # <<>> => ambient[t] = Top(t).span
  /\ \A i \in DOMAIN blocks[t] : i > 1 =>
       /\ blocks[t][i].previous = blocks[t][i - 1].span
       /\ spans[blocks[t][i].span].parent = blocks[t][i - 1].span
  /\ blocks[t] # <<>> /\ spans[blocks[t][1].span].parent = 0 =>
       \A i \in DOMAIN blocks[t] : InTrace(blocks[t][1].span, blocks[t][i].span)

Nested == \A t \in Threads \ astray : Nest(t)

Inv == Types /\ SpansOK /\ RecordsOK /\ ContextsOK /\ Owners /\ Nested

-----------------------------------------------------------------------------
(* Spans and records *)

\* What a step does not take back.
Grows ==
  /\ Len(spans) \in Nat /\ Len(spans') \in Nat /\ Len(spans) <= Len(spans')
  /\ \A s \in Made : spans'[s].parent = spans[s].parent /\ spans'[s].trace = spans[s].trace
  /\ \A id \in Ids : \A i \in DOMAIN records[id] :
       i \in DOMAIN records'[id] /\ records'[id][i] = records[id][i]

LEMMA SpanAppended ==
  ASSUME Types, NEW p \in Nat, NEW trace \in Nat, spans' = Append(spans, NewSpan(p, trace))
  PROVE  /\ spans' \in Seq(Span) /\ Len(spans) \in Nat /\ Len(spans') = Len(spans) + 1
         /\ \A s \in Made : spans'[s] = spans[s]
         /\ spans'[NewId].parent = p /\ spans'[NewId].trace = trace
  <1>1. spans \in Seq(Span) /\ Len(spans) \in Nat
    BY LenProperties DEF Types
  <1>2. NewSpan(p, trace) \in Span
    BY <1>1 DEF Types, NewSpan, NewId, Span
  <1>3. NewSpan(p, trace).parent = p /\ NewSpan(p, trace).trace = trace
    BY DEF NewSpan
  <1> QED
    BY <1>1, <1>2, <1>3, AppendProperties DEF NewId, Made

LEMMA SpanFinished ==
  ASSUME Types, NEW id \in Made, NEW status \in {"ok", "error"},
         spans' = [spans EXCEPT ![id] = Finished(@, status)]
  PROVE  /\ spans' \in Seq(Span) /\ Len(spans) \in Nat /\ Len(spans') = Len(spans)
         /\ \A s \in Made : spans'[s].parent = spans[s].parent /\ spans'[s].trace = spans[s].trace
  <1>1. spans \in Seq(Span) /\ Len(spans) \in Nat
    BY LenProperties DEF Types
  <1>2. spans[id] \in Span
    BY <1>1, ElementOfSeq DEF Made
  <1> DEFINE f == Finished(spans[id], status)
  <1>3. f \in Span /\ f.parent = spans[id].parent /\ f.trace = spans[id].trace
    <2> DEFINE x == spans[id]
               y == [x EXCEPT !.ended = clock, !.status = status]
    <2>1. clock \in Int
      BY DEF Types
    <2>2. y \in Span /\ y.parent = x.parent /\ y.trace = x.trace
      BY <1>2, <2>1 DEF Span
    <2>3. f = x \/ f = y
      BY DEF Finished
    <2> QED
      BY <1>2, <2>2, <2>3
  <1> HIDE DEF f
  <1>4. spans' = [spans EXCEPT ![id] = f]
    BY DEF f
  <1> QED
    BY <1>1, <1>3, <1>4, ExceptSeq DEF Made

LEMMA IdsAndMade ==
  ASSUME Types
  PROVE  /\ Len(spans) \in Nat /\ MaxSpans \in Nat
         /\ Made \subseteq Ids
         /\ NewId \notin Made /\ NewId \in Nat /\ NewId # 0
         /\ Len(spans) < MaxSpans => NewId \in Ids
         /\ \A id \in Ids : records[id] \in Seq(Nat) /\ DOMAIN records[id] = 1 .. Len(records[id])
                            /\ Len(records[id]) \in Nat
  <1>1. Len(spans) \in Nat /\ MaxSpans \in Nat
    BY TracingAssumption, LenProperties DEF Types
  <1>2. \A id \in Ids : records[id] \in Seq(Nat) /\ DOMAIN records[id] = 1 .. Len(records[id])
                        /\ Len(records[id]) \in Nat
    BY LenProperties DEF Types
  <1> QED
    BY <1>1, <1>2 DEF Types, Made, Ids, NewId

\* Tracer.trace on entry.
LEMMA TraceBegun ==
  ASSUME Types, SpansOK, RecordsOK, BeginTrace, NEW new, new = NewId
  PROVE  /\ spans' \in Seq(Span) /\ Len(spans') <= MaxSpans /\ records' \in [Ids -> Seq(Nat)]
         /\ SpansOK' /\ RecordsOK' /\ Grows /\ Len(spans') = Len(spans) + 1
         /\ spans'[new].parent = 0 /\ spans'[new].trace = new
         /\ active' = active \cup {new}
         /\ Recorded(new, new)'
  <1>1. /\ spans' \in Seq(Span) /\ Len(spans) \in Nat /\ Len(spans') = Len(spans) + 1
        /\ \A s \in Made : spans'[s] = spans[s]
        /\ spans'[new].parent = 0 /\ spans'[new].trace = new
    BY IdsAndMade, SpanAppended DEF BeginTrace
  <1>2. Len(spans') <= MaxSpans /\ new \in Ids
    BY <1>1, IdsAndMade DEF BeginTrace
  <1>3. /\ records' = [records EXCEPT ![new] = <<new>>]
        /\ records' \in [Ids -> Seq(Nat)]
        /\ records'[new] = <<new>> /\ \A id \in Ids \ {new} : records'[id] = records[id]
    <2>1. <<new>> \in Seq(Nat)
      BY IdsAndMade
    <2> QED
      BY <1>2, <2>1 DEF BeginTrace, Types
  <1>4. records[new] = <<>>
    <2>1. records[new] # <<>> => 1 \in DOMAIN records[new]
      BY <1>2, IdsAndMade, EmptySeq
    <2> QED
      BY <1>2, <2>1, IdsAndMade DEF RecordsOK
  <1>5. Made' = Made \cup {new}
    BY <1>1 DEF Made, NewId
  <1>6. Grows
    <2>1. DOMAIN records[new] = {}
      BY <1>4
    <2> QED
      BY <1>1, <1>3, <2>1 DEF Grows
  <1>7. SpansOK'
    <2> SUFFICES ASSUME NEW s \in Made' PROVE
            /\ spans'[s].trace \in Made' /\ spans'[s].parent \in 0 .. s - 1
            /\ spans'[s].parent = 0 <=> spans'[s].trace = s
      BY DEF SpansOK
    <2>1. CASE s = new
      BY <1>1, <1>5, <2>1, IdsAndMade
    <2>2. CASE s \in Made
      BY <1>1, <1>5, <2>2 DEF SpansOK
    <2> QED
      BY <1>5, <2>1, <2>2
  <1>8. Recorded(new, new)'
    BY <1>3 DEF Recorded
  <1>9. RecordsOK'
    <2>1. active' = active \cup {new} /\ active' \subseteq Made'
      BY <1>5 DEF BeginTrace, RecordsOK
    <2>2. ASSUME NEW id \in Ids
          PROVE  /\ \A i \in DOMAIN records'[id] : records'[id][i] \in Made'
                 /\ records'[id] # <<>> => records'[id][1] = id /\ spans'[id].parent = 0
                 /\ \A i \in DOMAIN records'[id] : i > 1 => AfterParent(id, i)'
      <3>1. CASE id = new
        BY <1>1, <1>3, <1>5, <3>1
      <3>2. CASE id # new
        <4>1. records'[id] = records[id]
          BY <1>3, <3>2
        <4>2. /\ \A i \in DOMAIN records[id] : records[id][i] \in Made
              /\ records[id] # <<>> => records[id][1] = id /\ spans[id].parent = 0
              /\ \A i \in DOMAIN records[id] : i > 1 => AfterParent(id, i)
          BY DEF RecordsOK
        <4>3. records[id] # <<>> => id \in Made
          <5>1. records[id] # <<>> => 1 \in DOMAIN records[id]
            BY IdsAndMade, EmptySeq
          <5> QED
            BY <4>2, <5>1
        <4>4. \A i \in DOMAIN records[id] : AfterParent(id, i) => AfterParent(id, i)'
          BY <1>1, <4>1, <4>2 DEF AfterParent
        <4> QED
          BY <1>1, <1>5, <4>1, <4>2, <4>3, <4>4
      <3> QED
        BY <3>1, <3>2
    <2>3. ASSUME NEW s \in Made', spans'[s].trace \in active' PROVE Recorded(spans[s].trace, s)'
      <3>1. CASE s = new
        <4>1. spans'[s].trace = new
          BY <1>1, <3>1
        <4> QED
          BY <1>8, <3>1, <4>1 DEF Recorded
      <3>2. CASE s \in Made
        <4> DEFINE q == spans[s].trace
        <4>1. spans'[s].trace = q /\ q \in Made /\ q # new
          BY <1>1, <3>2, IdsAndMade DEF SpansOK
        <4>2. Recorded(q, s) /\ records'[q] = records[q]
          BY <1>3, <2>1, <2>3, <3>2, <4>1, IdsAndMade DEF RecordsOK
        <4> QED
          BY <4>1, <4>2 DEF Recorded
      <3> QED
        BY <1>5, <3>1, <3>2
    <2> QED
      BY <2>1, <2>2, <2>3 DEF RecordsOK
  <1> QED
    BY <1>1, <1>2, <1>3, <1>6, <1>7, <1>8, <1>9 DEF BeginTrace

\* Tracer.span below a span.
LEMMA ChildBegun ==
  ASSUME Types, SpansOK, RecordsOK, NEW p \in Made, BeginChild(p),
         NEW new, new = NewId, NEW q, q = spans[p].trace
  PROVE  /\ spans' \in Seq(Span) /\ Len(spans') <= MaxSpans /\ records' \in [Ids -> Seq(Nat)]
         /\ SpansOK' /\ RecordsOK' /\ Grows /\ Len(spans') = Len(spans) + 1
         /\ spans'[new].parent = p /\ spans'[new].trace = q
         /\ active' = active
         /\ q \in active => Recorded(q, new)'
  <1>0. p \in Nat /\ q \in Made /\ q \in Nat /\ q \in Ids /\ new \notin Made /\ p # 0 /\ new \in Nat
    BY IdsAndMade DEF SpansOK, Made
  <1>1. /\ spans' \in Seq(Span) /\ Len(spans) \in Nat /\ Len(spans') = Len(spans) + 1
        /\ \A s \in Made : spans'[s] = spans[s]
        /\ spans'[new].parent = p /\ spans'[new].trace = q
    BY <1>0, SpanAppended DEF BeginChild
  <1>2. Len(spans') <= MaxSpans
    BY <1>1, IdsAndMade DEF BeginChild
  <1>3. Made' = Made \cup {new}
    BY <1>1 DEF Made, NewId
  <1>4. SpansOK'
    <2> SUFFICES ASSUME NEW s \in Made' PROVE
            /\ spans'[s].trace \in Made' /\ spans'[s].parent \in 0 .. s - 1
            /\ spans'[s].parent = 0 <=> spans'[s].trace = s
      BY DEF SpansOK
    <2>1. CASE s = new
      <3>1. p \in 0 .. new - 1
        BY <1>0, <1>1 DEF Made, NewId
      <3> QED
        BY <1>0, <1>1, <1>3, <2>1, <3>1
    <2>2. CASE s \in Made
      BY <1>1, <1>3, <2>2 DEF SpansOK
    <2> QED
      BY <1>3, <2>1, <2>2
  <1>5. records[q] \in Seq(Nat) /\ DOMAIN records[q] = 1 .. Len(records[q]) /\ Len(records[q]) \in Nat
    BY <1>0, IdsAndMade
  <1>6. CASE q \notin active
    <2>1. records' = records /\ active' = active
      BY <1>6 DEF BeginChild
    <2>2. RecordsOK'
      <3>1. ASSUME NEW id \in Ids
            PROVE  /\ \A i \in DOMAIN records[id] : records[id][i] \in Made'
                   /\ records[id] # <<>> => records[id][1] = id /\ spans'[id].parent = 0
                   /\ \A i \in DOMAIN records[id] : i > 1 => AfterParent(id, i)'
        <4>1. /\ \A i \in DOMAIN records[id] : records[id][i] \in Made
              /\ records[id] # <<>> => records[id][1] = id /\ spans[id].parent = 0
              /\ \A i \in DOMAIN records[id] : i > 1 => AfterParent(id, i)
          BY DEF RecordsOK
        <4>2. records[id] # <<>> => id \in Made
          <5>1. records[id] # <<>> => 1 \in DOMAIN records[id]
            BY IdsAndMade, EmptySeq
          <5> QED
            BY <4>1, <5>1
        <4>3. \A i \in DOMAIN records[id] : AfterParent(id, i) => AfterParent(id, i)'
          BY <1>1, <2>1, <4>1 DEF AfterParent
        <4> QED
          BY <1>1, <1>3, <4>1, <4>2, <4>3
      <3>2. ASSUME NEW s \in Made', spans'[s].trace \in active' PROVE Recorded(spans[s].trace, s)'
        <4>1. s \in Made
          BY <1>1, <1>3, <1>6, <2>1, <3>2
        <4>2. spans'[s].trace = spans[s].trace /\ spans[s].trace \in active
          BY <1>1, <2>1, <3>2, <4>1
        <4>3. Recorded(spans[s].trace, s)
          BY <4>1, <4>2 DEF RecordsOK
        <4> QED
          BY <2>1, <4>2, <4>3 DEF Recorded
      <3>3. active' \subseteq Made'
        BY <1>3, <2>1 DEF RecordsOK
      <3> QED
        BY <2>1, <3>1, <3>2, <3>3 DEF RecordsOK
    <2>3. Grows
      BY <1>1, <2>1 DEF Grows
    <2> QED
      BY <1>1, <1>2, <1>4, <1>6, <2>1, <2>2, <2>3 DEF Types
  <1>7. CASE q \in active
    <2> DEFINE r == Append(records[q], new)
               n == Len(records[q])
    <2>1. /\ records' = [records EXCEPT ![q] = r] /\ active' = active
          /\ r \in Seq(Nat) /\ Len(r) = n + 1 /\ r[n + 1] = new
          /\ \A i \in 1 .. n : r[i] = records[q][i]
          /\ DOMAIN r = 1 .. n + 1
      <3>1. records' = [records EXCEPT ![q] = r] /\ active' = active
        BY <1>7 DEF BeginChild
      <3>2. /\ r \in Seq(Nat) /\ Len(r) = n + 1 /\ r[n + 1] = new
            /\ \A i \in 1 .. n : r[i] = records[q][i]
        BY <1>0, <1>5, AppendProperties
      <3> QED
        BY <3>1, <3>2, LenProperties
    <2> HIDE DEF r
    <2>2. /\ records' \in [Ids -> Seq(Nat)] /\ records'[q] = r
          /\ \A id \in Ids \ {q} : records'[id] = records[id]
      BY <1>0, <2>1 DEF Types
    <2>3. /\ \A id \in Ids : \A i \in DOMAIN records[id] :
               i \in DOMAIN records'[id] /\ records'[id][i] = records[id][i]
          /\ Recorded(q, new)'
      <3>1. n + 1 \in DOMAIN r /\ \A i \in DOMAIN records[q] : i \in DOMAIN r /\ r[i] = records[q][i]
        BY <1>5, <2>1
      <3>2. Recorded(q, new)'
        BY <2>1, <2>2, <3>1 DEF Recorded
      <3> QED
        BY <2>2, <3>1, <3>2
    <2>4. Grows
      BY <1>1, <2>3 DEF Grows
    <2>5. PICK m \in DOMAIN records[q] : records[q][m] = p
      BY <1>7 DEF RecordsOK, Recorded
    <2>6. ASSUME NEW id \in Ids
          PROVE  /\ \A i \in DOMAIN records'[id] : records'[id][i] \in Made'
                 /\ records'[id] # <<>> => records'[id][1] = id /\ spans'[id].parent = 0
                 /\ \A i \in DOMAIN records'[id] : i > 1 => AfterParent(id, i)'
      <3>1. /\ \A i \in DOMAIN records[id] : records[id][i] \in Made
            /\ records[id] # <<>> => records[id][1] = id /\ spans[id].parent = 0
            /\ \A i \in DOMAIN records[id] : i > 1 => AfterParent(id, i)
        BY DEF RecordsOK
      <3>2. records[id] # <<>> => id \in Made
        <4>1. records[id] # <<>> => 1 \in DOMAIN records[id]
          BY IdsAndMade, EmptySeq
        <4> QED
          BY <3>1, <4>1
      <3>3. \A i \in DOMAIN records[id] : i > 1 => AfterParent(id, i)'
        <4> SUFFICES ASSUME NEW i \in DOMAIN records[id], i > 1 PROVE AfterParent(id, i)'
          OBVIOUS
        <4>1. PICK j \in 1 .. i - 1 : spans[records[id][i]].parent = records[id][j]
          BY <3>1 DEF AfterParent
        <4>2. j \in DOMAIN records[id]
          BY IdsAndMade
        <4>3. records'[id][j] = records[id][j] /\ records'[id][i] = records[id][i]
          BY <2>3, <4>2
        <4>4. spans'[records'[id][i]].parent = records'[id][j]
          BY <1>1, <3>1, <4>1, <4>3
        <4> QED
          BY <4>4 DEF AfterParent
      <3>4. CASE id # q
        <4>1. records'[id] = records[id]
          BY <2>2, <3>4
        <4> QED
          BY <1>1, <1>3, <3>1, <3>2, <3>3, <4>1
      <3>5. CASE id = q
        <4>1. m \in 1 .. n /\ n \in Nat /\ n >= 1
          BY <1>5, <2>5
        <4>2. records[q] # <<>> /\ 1 \in DOMAIN records[q]
          BY <1>5, <4>1
        <4>3. r[1] = records[q][1] /\ \A i \in DOMAIN r : i \in DOMAIN records[q] \/ i = n + 1
          BY <1>5, <2>1, <4>2
        <4>4. \A i \in DOMAIN r : r[i] \in Made'
          BY <1>3, <1>5, <2>1, <3>1, <3>5, <4>3
        <4>5. ASSUME NEW i \in DOMAIN r, i > 1 PROVE AfterParent(q, i)'
          <5>1. CASE i \in DOMAIN records[q]
            BY <3>3, <3>5, <4>5, <5>1
          <5>2. CASE i = n + 1
            <6>1. m \in 1 .. i - 1 /\ r[m] = p /\ r[i] = new
              BY <2>1, <2>5, <4>1, <5>2
            <6> QED
              BY <1>1, <2>2, <6>1 DEF AfterParent
          <5> QED
            BY <4>3, <5>1, <5>2
        <4>6. records'[q][1] = q /\ spans'[q].parent = 0
          BY <1>1, <2>2, <3>1, <3>2, <3>5, <4>2, <4>3
        <4> QED
          BY <2>2, <3>5, <4>4, <4>5, <4>6
      <3> QED
        BY <3>4, <3>5
    <2>7. ASSUME NEW s \in Made', spans'[s].trace \in active' PROVE Recorded(spans[s].trace, s)'
      <3>1. CASE s = new
        BY <1>1, <2>3, <3>1 DEF Recorded
      <3>2. CASE s \in Made
        <4> DEFINE z == spans[s].trace
        <4>1. spans'[s].trace = z /\ z \in Made /\ z \in Ids /\ z \in active
          BY <1>1, <2>1, <2>7, <3>2, IdsAndMade DEF SpansOK
        <4>2. PICK j \in DOMAIN records[z] : records[z][j] = s
          BY <3>2, <4>1 DEF RecordsOK, Recorded
        <4>3. j \in DOMAIN records'[z] /\ records'[z][j] = s
          BY <2>3, <4>1, <4>2
        <4> QED
          BY <4>1, <4>3 DEF Recorded
      <3> QED
        BY <1>3, <3>1, <3>2
    <2>8. active' \subseteq Made'
      BY <1>3, <2>1 DEF RecordsOK
    <2> QED
      BY <1>1, <1>2, <1>4, <2>1, <2>2, <2>3, <2>4, <2>6, <2>7, <2>8 DEF RecordsOK
  <1> QED
    BY <1>6, <1>7

\* A block is left or its span finished: nothing is made, and at most its trace is exported.
LEMMA BlockEnded ==
  ASSUME Types, SpansOK, RecordsOK, NEW id \in Made, NEW status \in {"ok", "error"},
         spans' = [spans EXCEPT ![id] = Finished(@, status)], records' = records,
         active' \subseteq active
  PROVE  /\ spans' \in Seq(Span) /\ Len(spans') <= MaxSpans /\ Len(spans') = Len(spans)
         /\ SpansOK' /\ RecordsOK' /\ Grows
  <1>1. /\ spans' \in Seq(Span) /\ Len(spans) \in Nat /\ Len(spans') = Len(spans)
        /\ \A s \in Made : spans'[s].parent = spans[s].parent /\ spans'[s].trace = spans[s].trace
    BY SpanFinished
  <1>2. Made' = Made /\ Len(spans') <= MaxSpans
    BY <1>1 DEF Made, Types
  <1>3. SpansOK'
    BY <1>1, <1>2 DEF SpansOK
  <1>4. RecordsOK'
    <2>1. ASSUME NEW x \in Ids
          PROVE  /\ \A i \in DOMAIN records[x] : records[x][i] \in Made
                 /\ records[x] # <<>> => records[x][1] = x /\ spans'[x].parent = 0
                 /\ \A i \in DOMAIN records[x] : i > 1 => AfterParent(x, i)'
      <3>1. /\ \A i \in DOMAIN records[x] : records[x][i] \in Made
            /\ records[x] # <<>> => records[x][1] = x /\ spans[x].parent = 0
            /\ \A i \in DOMAIN records[x] : i > 1 => AfterParent(x, i)
        BY DEF RecordsOK
      <3>2. records[x] # <<>> => x \in Made
        <4>1. records[x] # <<>> => 1 \in DOMAIN records[x]
          BY IdsAndMade, EmptySeq
        <4> QED
          BY <3>1, <4>1
      <3>3. \A i \in DOMAIN records[x] : AfterParent(x, i) => AfterParent(x, i)'
        BY <1>1, <3>1 DEF AfterParent
      <3> QED
        BY <1>1, <3>1, <3>2, <3>3
    <2>2. \A s \in Made : spans'[s].trace \in active' => Recorded(spans[s].trace, s)'
      BY <1>1 DEF RecordsOK, Recorded
    <2>3. active' \subseteq Made
      BY DEF RecordsOK
    <2> QED
      BY <1>2, <2>1, <2>2, <2>3 DEF RecordsOK
  <1>5. Grows
    BY <1>1 DEF Grows
  <1> QED
    BY <1>1, <1>2, <1>3, <1>4, <1>5

-----------------------------------------------------------------------------
(* Blocks and contexts *)

LEMMA BlocksType ==
  ASSUME Types, NEW t \in Threads
  PROVE  /\ blocks[t] \in Seq(Block) /\ Len(blocks[t]) \in Nat /\ DOMAIN blocks[t] = 1 .. Len(blocks[t])
         /\ blocks[t] = <<>> <=> Len(blocks[t]) = 0
         /\ \A i \in DOMAIN blocks[t] : blocks[t][i] \in Block
  <1>1. blocks[t] \in Seq(Block)
    BY DEF Types
  <1> QED
    BY <1>1, EmptySeq, LenProperties, ElementOfSeq

\* What is known of a context stays known as spans are made.
LEMMA ContextsStay ==
  ASSUME Types, ContextsOK, Grows
  PROVE  /\ Made \subseteq Made' /\ Known \subseteq Known'
         /\ \A t \in Threads : \A i \in DOMAIN blocks[t] : blocks[t][i].span \in Made
  BY DEF ContextsOK, Grows, Made, Known

\* The blocks of a call whose thread takes no step are as they were.
LEMMA NestStays ==
  ASSUME Types, ContextsOK, Grows, NEW t \in Threads, Nest(t),
         blocks'[t] = blocks[t], ambient'[t] = ambient[t]
  PROVE  Nest(t)'
  <1>1. /\ blocks[t] = <<>> <=> Len(blocks[t]) = 0
        /\ Len(blocks[t]) \in Nat /\ DOMAIN blocks[t] = 1 .. Len(blocks[t])
    BY BlocksType
  <1>2. \A i \in DOMAIN blocks[t] :
          /\ blocks[t][i].span \in Made /\ blocks[t][i].span \in Ids
          /\ spans'[blocks[t][i].span].parent = spans[blocks[t][i].span].parent
    BY ContextsStay, IdsAndMade DEF Grows
  <1>3. \A a \in Made, b \in Made : InTrace(a, b) => InTrace(a, b)'
    BY IdsAndMade DEF InTrace, Recorded, Grows
  <1>4. blocks[t] # <<>> => 1 \in DOMAIN blocks[t]
    BY <1>1
  <1>5. /\ blocks[t] # <<>> => ambient'[t] = Top(t)'.span
        /\ \A i \in DOMAIN blocks[t] : i > 1 =>
             /\ blocks[t][i].previous = blocks[t][i - 1].span
             /\ spans'[blocks[t][i].span].parent = blocks[t][i - 1].span
    BY <1>2 DEF Nest, Top
  <1>6. blocks[t] # <<>> /\ spans'[blocks[t][1].span].parent = 0 =>
          \A i \in DOMAIN blocks[t] : InTrace(blocks[t][1].span, blocks[t][i].span)
    BY <1>2, <1>4 DEF Nest
  <1>7. blocks[t] # <<>> /\ spans'[blocks[t][1].span].parent = 0 =>
          \A i \in DOMAIN blocks[t] : InTrace(blocks[t][1].span, blocks[t][i].span)'
    BY <1>2, <1>3, <1>4, <1>6
  <1> QED
    BY <1>5, <1>7 DEF Nest

\* A block is entered.
LEMMA Entered ==
  ASSUME Types, ContextsOK, Grows, Len(spans') = Len(spans) + 1,
         NEW t \in Threads, Enter(t), NEW new, new = NewId, NEW n, n = Len(blocks[t]) + 1
  PROVE  /\ ambient' \in [Threads -> Nat] /\ blocks' \in [Threads -> Seq(Block)]
         /\ ambient'[t] = new /\ Len(blocks'[t]) = n /\ n \in Nat \ {0}
         /\ DOMAIN blocks'[t] = DOMAIN blocks[t] \cup {n} /\ n \notin DOMAIN blocks[t]
         /\ DOMAIN blocks[t] = 1 .. n - 1
         /\ blocks'[t][n] = [span |-> new, previous |-> ambient[t]]
         /\ \A i \in DOMAIN blocks[t] : blocks'[t][i] = blocks[t][i]
         /\ \A u \in Threads \ {t} : ambient'[u] = ambient[u] /\ blocks'[u] = blocks[u]
         /\ UNCHANGED <<clock, gen, astray>>
         /\ ContextsOK'
  <1> DEFINE b == [span |-> new, previous |-> ambient[t]]
  <1>1. b \in Block /\ new \in Nat /\ ambient[t] \in Nat
    BY IdsAndMade DEF Types, Block
  <1>2. /\ blocks' = [blocks EXCEPT ![t] = Append(@, b)] /\ ambient' = [ambient EXCEPT ![t] = new]
        /\ UNCHANGED <<clock, gen, astray>>
    BY DEF Enter
  <1>3. /\ Append(blocks[t], b) \in Seq(Block) /\ Len(Append(blocks[t], b)) = n
        /\ DOMAIN Append(blocks[t], b) = 1 .. n
        /\ Append(blocks[t], b)[n] = b
        /\ \A i \in DOMAIN blocks[t] : Append(blocks[t], b)[i] = blocks[t][i]
    BY <1>1, BlocksType, AppendProperties, LenProperties
  <1>4. /\ ambient' \in [Threads -> Nat] /\ blocks' \in [Threads -> Seq(Block)]
        /\ ambient'[t] = new /\ blocks'[t] = Append(blocks[t], b)
        /\ \A u \in Threads \ {t} : ambient'[u] = ambient[u] /\ blocks'[u] = blocks[u]
    BY <1>1, <1>2, <1>3 DEF Types
  <1>5. /\ n \in Nat \ {0} /\ DOMAIN blocks[t] = 1 .. n - 1
        /\ 1 .. n = DOMAIN blocks[t] \cup {n} /\ n \notin DOMAIN blocks[t]
    BY BlocksType
  <1>6. Made' = Made \cup {new} /\ Known' = Known \cup {new}
    BY IdsAndMade DEF Made, Known, NewId
  <1>7. ContextsOK'
    <2>1. ASSUME NEW u \in Threads
          PROVE  /\ ambient'[u] \in Known'
                 /\ \A i \in DOMAIN blocks'[u] :
                      blocks'[u][i].span \in Made' /\ blocks'[u][i].previous \in Known'
      <3>1. CASE u = t
        <4>1. b.span = new /\ b.previous = ambient[t] /\ ambient[t] \in Known
          BY DEF ContextsOK
        <4> HIDE DEF b
        <4>2. \A i \in DOMAIN blocks'[t] :
                \/ (i = n /\ blocks'[t][i] = b)
                \/ (i \in DOMAIN blocks[t] /\ blocks'[t][i] = blocks[t][i])
          BY <1>3, <1>4, <1>5
        <4>3. \A i \in DOMAIN blocks'[t] :
                blocks'[t][i].span \in Made' /\ blocks'[t][i].previous \in Known'
          BY <1>6, <4>1, <4>2 DEF ContextsOK
        <4> QED
          BY <1>4, <1>6, <3>1, <4>3
      <3>2. CASE u # t
        BY <1>4, <1>6, <3>2 DEF ContextsOK
      <3> QED
        BY <3>1, <3>2
    <2>2. \A g \in Generators :
            /\ gen'[g].previous \in Known'
            /\ gen'[g].at = "open" => gen'[g].span \in Made'
      BY <1>2, <1>6 DEF ContextsOK
    <2> QED
      BY <2>1, <2>2 DEF ContextsOK
  <1> QED
    BY <1>2, <1>3, <1>4, <1>5, <1>7

LEMMA EnteredOwners ==
  ASSUME Types, ContextsOK, Owners, Grows, Len(spans') = Len(spans) + 1,
         NEW t \in Threads, Enter(t), NEW new, new = NewId,
         active \subseteq active', spans'[new].trace = new => new \in active'
  PROVE  Owners'
  <1>1. PICK n : n = Len(blocks[t]) + 1
    OBVIOUS
  <1>2. /\ DOMAIN blocks'[t] = DOMAIN blocks[t] \cup {n} /\ n \notin DOMAIN blocks[t]
        /\ blocks'[t][n] = [span |-> new, previous |-> ambient[t]]
        /\ \A i \in DOMAIN blocks[t] : blocks'[t][i] = blocks[t][i]
        /\ \A u \in Threads \ {t} : blocks'[u] = blocks[u]
        /\ gen' = gen
    BY <1>1, Entered
  <1>3. new \notin Made
    BY IdsAndMade
  <1>4. /\ \A u \in Threads : \A i \in DOMAIN blocks[u] : blocks[u][i].span \in Made
        /\ \A g \in Generators : gen[g].at = "open" => gen[g].span \in Made
    BY DEF ContextsOK
  <1>5. \A u \in Threads : \A i \in DOMAIN blocks'[u] :
          \/ u = t /\ i = n /\ blocks'[u][i].span = new
          \/ i \in DOMAIN blocks[u] /\ blocks'[u][i].span = blocks[u][i].span
    BY <1>2
  <1> SUFFICES ASSUME NEW u \in Threads, NEW i \in DOMAIN blocks'[u]
      PROVE  Owned(u, i, blocks[u][i].span)'
    BY DEF Owners
  <1>6. CASE u = t /\ i = n
    <2>1. blocks'[u][i].span = new
      BY <1>2, <1>6
    <2>2. \A v \in Threads : \A j \in DOMAIN blocks'[v] : blocks'[v][j].span = new => u = v /\ i = j
      BY <1>3, <1>4, <1>5, <1>6
    <2>3. \A g \in Generators : gen'[g].at = "open" => gen'[g].span # new
      BY <1>2, <1>3, <1>4
    <2> QED
      BY <2>1, <2>2, <2>3 DEF Owned
  <1>7. CASE i \in DOMAIN blocks[u] /\ blocks'[u][i].span = blocks[u][i].span
    <2> DEFINE s == blocks[u][i].span
    <2>1. s \in Made /\ Owned(u, i, s)
      BY <1>4, <1>7 DEF Owners
    <2>2. \A v \in Threads : \A j \in DOMAIN blocks'[v] : blocks'[v][j].span = s => u = v /\ i = j
      BY <1>3, <1>5, <2>1 DEF Owned
    <2>3. \A g \in Generators : gen'[g].at = "open" => gen'[g].span # s
      BY <1>2, <2>1 DEF Owned
    <2>4. spans'[s].trace = s => s \in active'
      BY <2>1 DEF Owned, Grows
    <2> QED
      BY <1>7, <2>2, <2>3, <2>4 DEF Owned
  <1> QED
    BY <1>5, <1>6, <1>7

\* A call opens its first block, with no ambient span or an abandoned one, and then the others.
LEMMA OpenTraceStep ==
  ASSUME Inv, NEW t \in Threads, BeginTrace, Enter(t), t \notin astray => blocks[t] = <<>>
  PROVE  Inv'
  <1>1. PICK new : new = NewId
    OBVIOUS
  <1>2. PICK n : n = Len(blocks[t]) + 1
    OBVIOUS
  <1>3. /\ spans' \in Seq(Span) /\ Len(spans') <= MaxSpans /\ records' \in [Ids -> Seq(Nat)]
        /\ SpansOK' /\ RecordsOK' /\ Grows /\ Len(spans') = Len(spans) + 1
        /\ spans'[new].parent = 0 /\ spans'[new].trace = new
        /\ active' = active \cup {new}
        /\ Recorded(new, new)'
    BY <1>1, TraceBegun DEF Inv
  <1>4. /\ ambient' \in [Threads -> Nat] /\ blocks' \in [Threads -> Seq(Block)]
        /\ ambient'[t] = new /\ Len(blocks'[t]) = n
        /\ DOMAIN blocks'[t] = DOMAIN blocks[t] \cup {n} /\ n \notin DOMAIN blocks[t]
        /\ blocks'[t][n] = [span |-> new, previous |-> ambient[t]]
        /\ \A u \in Threads \ {t} : ambient'[u] = ambient[u] /\ blocks'[u] = blocks[u]
        /\ UNCHANGED <<clock, gen, astray>>
        /\ ContextsOK'
    BY <1>1, <1>2, <1>3, Entered DEF Inv
  <1>5. Types'
    BY <1>3, <1>4 DEF Inv, Types
  <1>6. Owners'
    BY <1>1, <1>3, EnteredOwners DEF Inv
  <1>7. ASSUME NEW u \in Threads \ astray', u # t PROVE Nest(u)'
    BY <1>3, <1>4, <1>7, NestStays DEF Inv, Nested
  <1>8. ASSUME t \notin astray' PROVE Nest(t)'
    <2>1. DOMAIN blocks[t] = {} /\ n = 1
      BY <1>2, <1>4, <1>8, BlocksType DEF Inv
    <2>2. DOMAIN blocks'[t] = {1} /\ blocks'[t][1].span = new /\ Top(t)'.span = new
      BY <1>4, <2>1 DEF Top
    <2>3. InTrace(new, new)'
      BY <1>3 DEF InTrace
    <2> QED
      BY <1>4, <2>2, <2>3 DEF Nest, InTrace
  <1>9. Nested'
    BY <1>7, <1>8 DEF Nested
  <1> QED
    BY <1>3, <1>4, <1>5, <1>6, <1>9 DEF Inv

LEMMA OpenChildStep ==
  ASSUME Inv, NEW t \in Threads, ambient[t] # 0, BeginChild(ambient[t]), Enter(t)
  PROVE  Inv'
  <1>1. PICK new : new = NewId
    OBVIOUS
  <1>2. PICK n : n = Len(blocks[t]) + 1
    OBVIOUS
  <1>3. PICK p \in Made : p = ambient[t]
    BY IdsAndMade DEF Inv, ContextsOK, Made, Known
  <1>4. PICK q : q = spans[p].trace
    OBVIOUS
  <1>5. BeginChild(p)
    BY <1>3
  <1>6. /\ spans' \in Seq(Span) /\ Len(spans') <= MaxSpans /\ records' \in [Ids -> Seq(Nat)]
        /\ SpansOK' /\ RecordsOK' /\ Grows /\ Len(spans') = Len(spans) + 1
        /\ spans'[new].parent = p /\ spans'[new].trace = q
        /\ active' = active
        /\ q \in active => Recorded(q, new)'
    BY <1>1, <1>4, <1>5, ChildBegun DEF Inv
  <1>7. /\ ambient' \in [Threads -> Nat] /\ blocks' \in [Threads -> Seq(Block)]
        /\ ambient'[t] = new /\ Len(blocks'[t]) = n /\ n \in Nat \ {0}
        /\ DOMAIN blocks'[t] = DOMAIN blocks[t] \cup {n} /\ n \notin DOMAIN blocks[t]
        /\ DOMAIN blocks[t] = 1 .. n - 1
        /\ blocks'[t][n] = [span |-> new, previous |-> ambient[t]]
        /\ \A i \in DOMAIN blocks[t] : blocks'[t][i] = blocks[t][i]
        /\ \A u \in Threads \ {t} : ambient'[u] = ambient[u] /\ blocks'[u] = blocks[u]
        /\ UNCHANGED <<clock, gen, astray>>
        /\ ContextsOK'
    BY <1>1, <1>2, <1>6, Entered DEF Inv
  <1>8. q \in Made /\ new \notin Made /\ new # q
    BY <1>1, <1>4, IdsAndMade DEF Inv, SpansOK
  <1>9. Types'
    BY <1>6, <1>7 DEF Inv, Types
  <1>10. Owners'
    BY <1>1, <1>6, <1>8, EnteredOwners DEF Inv
  <1>11. ASSUME NEW u \in Threads \ astray', u # t PROVE Nest(u)'
    BY <1>6, <1>7, <1>11, NestStays DEF Inv, Nested
  <1>12. ASSUME t \notin astray' PROVE Nest(t)'
    <2>1. blocks'[t][n].span = new /\ blocks'[t][n].previous = p /\ Top(t)'.span = new
      BY <1>3, <1>7 DEF Top
    <2>2. CASE n = 1
      <3>1. DOMAIN blocks'[t] = {1} /\ spans'[blocks'[t][1].span].parent # 0
        BY <1>3, <1>6, <1>7, <2>1, <2>2 DEF Made
      <3> QED
        BY <1>7, <2>1, <3>1 DEF Nest
    <2>3. CASE n # 1
      <3>1. /\ n - 1 \in DOMAIN blocks[t] /\ 1 \in DOMAIN blocks[t] /\ blocks[t] # <<>>
            /\ n - 1 = Len(blocks[t])
        BY <1>2, <1>7, <2>3, BlocksType DEF Inv
      <3>2. Nest(t) /\ blocks[t][n - 1].span = p
        BY <1>3, <1>7, <1>12, <3>1 DEF Inv, Nested, Nest, Top
      <3>3. \A i \in DOMAIN blocks[t] : blocks[t][i].span \in Made
        BY ContextsStay, <1>6 DEF Inv
      <3>4. \A i \in DOMAIN blocks'[t] : i > 1 =>
              /\ blocks'[t][i].previous = blocks'[t][i - 1].span
              /\ spans'[blocks'[t][i].span].parent = blocks'[t][i - 1].span
        <4> SUFFICES ASSUME NEW i \in DOMAIN blocks'[t], i > 1
            PROVE  /\ blocks'[t][i].previous = blocks'[t][i - 1].span
                   /\ spans'[blocks'[t][i].span].parent = blocks'[t][i - 1].span
          OBVIOUS
        <4>1. CASE i = n
          BY <1>6, <1>7, <2>1, <3>1, <3>2, <4>1
        <4>2. CASE i \in DOMAIN blocks[t]
          <5>1. i - 1 \in DOMAIN blocks[t]
            BY <1>7, <4>2
          <5>2. /\ blocks[t][i].previous = blocks[t][i - 1].span
                /\ spans[blocks[t][i].span].parent = blocks[t][i - 1].span
            BY <3>2, <4>2 DEF Nest
          <5>3. blocks'[t][i] = blocks[t][i] /\ blocks'[t][i - 1] = blocks[t][i - 1]
            BY <1>7, <4>2, <5>1
          <5>4. spans'[blocks[t][i].span].parent = spans[blocks[t][i].span].parent
            BY <1>6, <3>3, <4>2 DEF Grows
          <5> QED
            BY <5>2, <5>3, <5>4
        <4> QED
          BY <1>7, <4>1, <4>2
      <3>5. PICK r \in Made : r = blocks[t][1].span
        BY <3>1, <3>3
      <3>6. ASSUME spans'[r].parent = 0, NEW i \in DOMAIN blocks'[t]
            PROVE  InTrace(r, blocks[t][i].span)'
        <4>1. spans[r].parent = 0 /\ spans[r].trace = r /\ r \in Ids
          BY <1>6, <3>5, <3>6, IdsAndMade DEF Grows, Inv, SpansOK
        <4>2. \A x \in DOMAIN blocks[t] : InTrace(r, blocks[t][x].span)
          BY <3>1, <3>2, <3>5, <4>1 DEF Nest
        <4>3. CASE i = n
          <5>1. q = r
            BY <1>4, <3>1, <3>2, <4>2 DEF InTrace
          <5>2. r \in active
            BY <3>1, <3>5, <4>1 DEF Inv, Owners, Owned
          <5> QED
            BY <1>6, <2>1, <4>3, <5>1, <5>2 DEF InTrace
        <4>4. CASE i \in DOMAIN blocks[t]
          <5>1. PICK s \in Made : s = blocks[t][i].span /\ blocks'[t][i].span = s
            BY <1>7, <3>3, <4>4
          <5>2. InTrace(r, s)
            BY <4>2, <4>4, <5>1
          <5>3. InTrace(r, s)'
            BY <1>6, <4>1, <5>2 DEF InTrace, Recorded, Grows
          <5> QED
            BY <5>1, <5>3 DEF InTrace
        <4> QED
          BY <1>7, <4>3, <4>4
      <3>7. blocks'[t][1].span = r
        BY <1>7, <3>1, <3>5
      <3>8. /\ ambient'[t] = Top(t)'.span
            /\ spans'[blocks'[t][1].span].parent = 0 =>
                 \A i \in DOMAIN blocks'[t] : InTrace(blocks[t][1].span, blocks[t][i].span)'
        BY <1>7, <2>1, <3>6, <3>7
      <3> QED
        BY <3>4, <3>8 DEF Nest
    <2> QED
      BY <2>2, <2>3
  <1>13. Nested'
    BY <1>11, <1>12 DEF Nested
  <1> QED
    BY <1>6, <1>7, <1>9, <1>10, <1>13 DEF Inv

LEMMA OpenStep ==
  ASSUME Inv, NEW t \in Threads, OpenTrace(t) \/ OpenSpan(t)
  PROVE  Inv'
  <1>1. CASE OpenTrace(t)
    BY <1>1, OpenTraceStep DEF OpenTrace
  <1>2. CASE OpenSpan(t) /\ ambient[t] = 0
    <2>1. ASSUME t \notin astray, blocks[t] # <<>> PROVE FALSE
      <3>1. ambient[t] = Top(t).span
        BY <2>1 DEF Inv, Nested, Nest
      <3>2. Len(blocks[t]) \in DOMAIN blocks[t]
        BY <2>1, BlocksType DEF Inv
      <3>3. ambient[t] \in Made
        BY <3>1, <3>2 DEF Inv, ContextsOK, Top
      <3> QED
        BY <1>2, <3>3 DEF Made
    <2> QED
      BY <1>2, <2>1, OpenTraceStep DEF OpenSpan
  <1>3. CASE OpenSpan(t) /\ ambient[t] # 0
    BY <1>3, OpenChildStep DEF OpenSpan
  <1> QED
    BY <1>1, <1>2, <1>3

\* A block that is left, or an early finish, as the tracer sees it.
LEMMA TopEnded ==
  ASSUME Inv, NEW t \in Threads, FinishEarly(t) \/ Leave(t)
  PROVE  /\ Types /\ spans' \in Seq(Span) /\ Len(spans') <= MaxSpans /\ records' = records
         /\ SpansOK' /\ RecordsOK' /\ Grows /\ Made' = Made /\ Known' = Known
         /\ Len(blocks[t]) \in DOMAIN blocks[t] /\ Top(t).span \in Made
         /\ active' = active \/ active' = active \ {Top(t).span}
  <1>1. blocks[t] # <<>>
    BY DEF FinishEarly, Leave
  <1>2. Len(blocks[t]) \in DOMAIN blocks[t] /\ Top(t).span \in Made
    BY <1>1, BlocksType DEF Inv, ContextsOK, Top
  <1>3. \E status \in {"ok", "error"} : spans' = [spans EXCEPT ![Top(t).span] = Finished(@, status)]
    BY DEF FinishEarly, Leave, EndTrace
  <1>4. records' = records /\ (active' = active \/ active' = active \ {Top(t).span})
    BY DEF FinishEarly, Leave, EndTrace, tracer
  <1>5. active' \subseteq active
    BY <1>4
  <1>6. /\ spans' \in Seq(Span) /\ Len(spans') <= MaxSpans /\ Len(spans') = Len(spans)
        /\ SpansOK' /\ RecordsOK' /\ Grows
    BY <1>2, <1>3, <1>4, <1>5, BlockEnded DEF Inv
  <1> QED
    BY <1>2, <1>4, <1>6 DEF Inv, Made, Known

LEMMA FinishEarlyStep ==
  ASSUME Inv, NEW t \in Threads, FinishEarly(t)
  PROVE  Inv'
  <1>1. /\ Types /\ spans' \in Seq(Span) /\ Len(spans') <= MaxSpans /\ records' = records
        /\ SpansOK' /\ RecordsOK' /\ Grows /\ Made' = Made /\ Known' = Known
    BY TopEnded
  <1>2. UNCHANGED <<clock, tracer, ambient, blocks, gen, astray>>
    BY DEF FinishEarly
  <1>3. Types' /\ ContextsOK'
    BY <1>1, <1>2 DEF Types, ContextsOK, Inv
  <1>4. Owners'
    <2>1. \A u \in Threads : \A i \in DOMAIN blocks[u] :
            Owned(u, i, blocks[u][i].span) /\ blocks[u][i].span \in Made
      BY DEF Inv, Owners, ContextsOK
    <2> QED
      BY <1>1, <1>2, <2>1 DEF Owners, Owned, Grows, tracer
  <1>5. Nested'
    BY <1>1, <1>2, NestStays DEF Nested, Inv
  <1> QED
    BY <1>1, <1>3, <1>4, <1>5 DEF Inv

\* What leaving a block does to the contexts.
LEMMA Left ==
  ASSUME Types, NEW t \in Threads, Leave(t), NEW n, n = Len(blocks[t])
  PROVE  /\ n \in Nat /\ n >= 1 /\ n \in DOMAIN blocks[t] /\ DOMAIN blocks[t] = 1 .. n
         /\ Len(blocks'[t]) = n - 1 /\ DOMAIN blocks'[t] = 1 .. n - 1
         /\ \A i \in 1 .. n - 1 : blocks'[t][i] = blocks[t][i]
         /\ ambient' \in [Threads -> Nat] /\ ambient'[t] = blocks[t][n].previous
         /\ blocks' \in [Threads -> Seq(Block)]
         /\ \A u \in Threads \ {t} : ambient'[u] = ambient[u] /\ blocks'[u] = blocks[u]
         /\ astray' = (IF n = 1 THEN astray \ {t} ELSE astray) /\ UNCHANGED <<clock, gen>>
  <1>1. /\ blocks[t] \in Seq(Block) /\ n \in Nat /\ n >= 1 /\ DOMAIN blocks[t] = 1 .. n
        /\ n \in DOMAIN blocks[t] /\ \A i \in DOMAIN blocks[t] : blocks[t][i] \in Block
    <2>1. blocks[t] # <<>>
      BY DEF Leave
    <2> QED
      BY <2>1, BlocksType
  <1>2. /\ ambient' = [ambient EXCEPT ![t] = blocks[t][n].previous]
        /\ blocks' = [blocks EXCEPT ![t] = Front(@)]
        /\ astray' = (IF n = 1 THEN astray \ {t} ELSE astray)
        /\ UNCHANGED <<clock, gen>>
    BY DEF Leave, Restored, Top
  <1>3. /\ Front(blocks[t]) \in Seq(Block) /\ Len(Front(blocks[t])) = n - 1
        /\ DOMAIN Front(blocks[t]) = 1 .. n - 1
        /\ \A i \in 1 .. n - 1 : Front(blocks[t])[i] = blocks[t][i]
    <2>1. n - 1 \in Int /\ 1 \in Int /\ \A i \in 1 .. n - 1 : blocks[t][i] \in Block
      BY <1>1
    <2>2. /\ SubSeq(blocks[t], 1, n - 1) \in Seq(Block)
          /\ Len(SubSeq(blocks[t], 1, n - 1)) = IF 1 <= n - 1 THEN (n - 1) - 1 + 1 ELSE 0
          /\ \A i \in 1 .. (n - 1) - 1 + 1 : SubSeq(blocks[t], 1, n - 1)[i] = blocks[t][1 + i - 1]
      BY <2>1, SubSeqProperties
    <2>3. Front(blocks[t]) = SubSeq(blocks[t], 1, n - 1)
      BY DEF Front
    <2>4. Len(Front(blocks[t])) = n - 1
      BY <1>1, <2>2, <2>3
    <2>5. \A i \in 1 .. n - 1 : Front(blocks[t])[i] = blocks[t][i]
      BY <1>1, <2>2, <2>3
    <2> QED
      BY <2>2, <2>3, <2>4, <2>5, LenProperties
  <1>4. /\ ambient' \in [Threads -> Nat] /\ ambient'[t] = blocks[t][n].previous
        /\ blocks' \in [Threads -> Seq(Block)] /\ blocks'[t] = Front(blocks[t])
        /\ \A u \in Threads \ {t} : ambient'[u] = ambient[u] /\ blocks'[u] = blocks[u]
    <2>1. blocks[t][n].previous \in Nat
      BY <1>1 DEF Block
    <2> QED
      BY <1>2, <1>3, <2>1 DEF Types
  <1> QED
    BY <1>1, <1>2, <1>3, <1>4

LEMMA LeaveStep ==
  ASSUME Inv, NEW t \in Threads, Leave(t)
  PROVE  Inv'
  <1>1. PICK n : n = Len(blocks[t])
    OBVIOUS
  <1>2. PICK id : id = Top(t).span
    OBVIOUS
  <1>3. /\ Types /\ spans' \in Seq(Span) /\ Len(spans') <= MaxSpans /\ records' = records
        /\ SpansOK' /\ RecordsOK' /\ Grows /\ Made' = Made /\ Known' = Known
        /\ n \in DOMAIN blocks[t] /\ id \in Made /\ id = blocks[t][n].span
        /\ active' = active \/ active' = active \ {id}
    BY <1>1, <1>2, TopEnded DEF Top
  <1>4. /\ blocks[t] \in Seq(Block) /\ n \in Nat /\ n >= 1 /\ DOMAIN blocks[t] = 1 .. n
        /\ blocks[t] # <<>> /\ \A i \in DOMAIN blocks[t] : blocks[t][i] \in Block
    BY <1>1, <1>3, BlocksType
  <1>5. astray' = (IF n = 1 THEN astray \ {t} ELSE astray) /\ UNCHANGED <<clock, gen>>
    BY <1>1, <1>3, Left
  <1>6. /\ Len(blocks'[t]) = n - 1 /\ DOMAIN blocks'[t] = 1 .. n - 1
        /\ \A i \in 1 .. n - 1 : blocks'[t][i] = blocks[t][i]
    BY <1>1, <1>3, Left
  <1>7. /\ ambient' \in [Threads -> Nat] /\ ambient'[t] = blocks[t][n].previous
        /\ blocks' \in [Threads -> Seq(Block)]
        /\ \A u \in Threads \ {t} : ambient'[u] = ambient[u] /\ blocks'[u] = blocks[u]
    BY <1>1, <1>3, Left
  <1>8. \A u \in Threads : \A i \in DOMAIN blocks'[u] :
          /\ i \in DOMAIN blocks[u] /\ blocks'[u][i] = blocks[u][i] /\ (u = t => i # n)
          /\ blocks[u][i].span \in Made /\ Owned(u, i, blocks[u][i].span)
    <2> SUFFICES ASSUME NEW u \in Threads, NEW i \in DOMAIN blocks'[u]
        PROVE  i \in DOMAIN blocks[u] /\ blocks'[u][i] = blocks[u][i] /\ (u = t => i # n)
      BY DEF Inv, Owners, ContextsOK
    <2>1. CASE u = t
      <3>1. i \in 1 .. n - 1
        BY <1>6, <1>7, <2>1
      <3>2. i \in 1 .. n /\ i # n
        BY <1>4, <3>1
      <3> QED
        BY <1>4, <1>6, <1>7, <2>1, <3>1, <3>2
    <2>2. CASE u # t
      BY <1>7, <2>2
    <2> QED
      BY <2>1, <2>2
  <1>9. Types'
    BY <1>3, <1>5, <1>7 DEF Types
  <1>10. ContextsOK'
    <2>1. blocks[t][n].previous \in Known
      BY <1>3 DEF Inv, ContextsOK
    <2> QED
      BY <1>3, <1>5, <1>7, <1>8, <2>1 DEF Inv, ContextsOK
  <1>11. Owners'
    <2> SUFFICES ASSUME NEW u \in Threads, NEW i \in DOMAIN blocks'[u]
        PROVE  Owned(u, i, blocks[u][i].span)'
      BY DEF Owners
    <2>1. PICK s \in Made : s = blocks[u][i].span /\ blocks'[u][i].span = s /\ Owned(u, i, s)
      BY <1>8
    <2>2. s # id
      BY <1>3, <1>8, <2>1 DEF Owned
    <2>3. \A v \in Threads : \A j \in DOMAIN blocks'[v] : blocks'[v][j].span = s => u = v /\ i = j
      BY <1>8, <2>1 DEF Owned
    <2>4. /\ \A g \in Generators : gen'[g].at = "open" => gen'[g].span # s
          /\ spans'[s].trace = s => s \in active'
      BY <1>3, <1>5, <2>1, <2>2 DEF Owned, Grows
    <2> QED
      BY <2>1, <2>3, <2>4 DEF Owned
  <1>12. ASSUME NEW u \in Threads \ astray', u # t PROVE Nest(u)'
    BY <1>3, <1>5, <1>7, <1>12, NestStays DEF Inv, Nested
  <1>13. ASSUME t \notin astray' PROVE Nest(t)'
    <2>1. CASE n = 1
      <3>1. Len(blocks'[t]) = 0 /\ DOMAIN blocks'[t] = {} /\ blocks'[t] = <<>>
        BY <1>6, <1>7, <2>1, EmptySeq
      <3> QED
        BY <3>1 DEF Nest
    <2>2. CASE n # 1
      <3>1. t \notin astray /\ Nest(t)
        BY <1>5, <1>13, <2>2 DEF Inv, Nested
      <3>2. /\ n - 1 \in 1 .. n - 1 /\ 1 \in 1 .. n - 1 /\ n > 1
            /\ n - 1 \in DOMAIN blocks'[t] /\ 1 \in DOMAIN blocks'[t]
            /\ Len(blocks'[t]) = n - 1
            /\ blocks'[t][n - 1] = blocks[t][n - 1] /\ blocks'[t][1] = blocks[t][1]
        <4>1. n - 1 \in 1 .. n - 1 /\ 1 \in 1 .. n - 1 /\ n > 1
          BY <1>4, <2>2
        <4> QED
          BY <1>6, <1>7, <4>1
      <3>3. ambient'[t] = Top(t)'.span
        <4>1. blocks[t][n].previous = blocks[t][n - 1].span
          BY <1>3, <3>1, <3>2 DEF Nest
        <4> QED
          BY <1>7, <3>2, <4>1 DEF Top
      <3>4. \A i \in DOMAIN blocks'[t] : i > 1 =>
              /\ blocks'[t][i].previous = blocks'[t][i - 1].span
              /\ spans'[blocks'[t][i].span].parent = blocks'[t][i - 1].span
        <4> SUFFICES ASSUME NEW i \in DOMAIN blocks'[t], i > 1
            PROVE  /\ blocks'[t][i].previous = blocks'[t][i - 1].span
                   /\ spans'[blocks'[t][i].span].parent = blocks'[t][i - 1].span
          OBVIOUS
        <4>1. i \in 1 .. n - 1 /\ i - 1 \in 1 .. n - 1
          BY <1>4, <1>6, <1>7
        <4>2. blocks'[t][i] = blocks[t][i] /\ blocks'[t][i - 1] = blocks[t][i - 1]
          BY <1>6, <1>7, <4>1
        <4>3. /\ blocks[t][i].previous = blocks[t][i - 1].span
              /\ spans[blocks[t][i].span].parent = blocks[t][i - 1].span
          BY <1>8, <3>1 DEF Nest
        <4>4. spans'[blocks[t][i].span].parent = spans[blocks[t][i].span].parent
          BY <1>3, <1>8 DEF Grows
        <4> QED
          BY <4>2, <4>3, <4>4
      <3>5. PICK r \in Made : r = blocks[t][1].span /\ blocks'[t][1].span = r
        BY <1>8, <3>2
      <3>6. ASSUME spans'[r].parent = 0, NEW i \in DOMAIN blocks'[t]
            PROVE  InTrace(r, blocks[t][i].span)'
        <4>1. PICK s \in Made : s = blocks[t][i].span /\ blocks'[t][i].span = s
          BY <1>8
        <4>2. spans[r].parent = 0
          BY <1>3, <3>6 DEF Grows
        <4>3. InTrace(r, s)
          BY <1>4, <1>8, <3>1, <3>5, <4>1, <4>2 DEF Nest
        <4> QED
          BY <1>3, <4>1, <4>3 DEF InTrace, Recorded, Grows
      <3> QED
        BY <3>3, <3>4, <3>5, <3>6 DEF Nest
    <2> QED
      BY <2>1, <2>2
  <1>14. Nested'
    BY <1>12, <1>13 DEF Nested
  <1> QED
    BY <1>3, <1>9, <1>10, <1>11, <1>14 DEF Inv

-----------------------------------------------------------------------------
(* Generators *)

Holder == [at : {"new", "open", "done"}, span : Nat, previous : Nat]

\* What a step of a generator does to the threads: it enters and leaves none of
\* their blocks, and where it changes the context of a call the thread is astray.
Elsewhere(g, t) ==
  /\ UNCHANGED <<clock, blocks>> /\ astray \subseteq astray'
  /\ blocks[t] = <<>> \/ t \in astray'
  /\ ambient' \in [Threads -> Known'] /\ \A u \in Threads \ {t} : ambient'[u] = ambient[u]
  /\ gen' \in [Generators -> Holder] /\ \A h \in Generators \ {g} : gen'[h] = gen[h]
  /\ gen'[g].previous \in Known'

LEMMA GeneratorStep ==
  ASSUME Inv, NEW g \in Generators, NEW t \in Threads, Elsewhere(g, t),
         spans' \in Seq(Span), Len(spans') <= MaxSpans, records' \in [Ids -> Seq(Nat)],
         SpansOK', RecordsOK', Grows,
         gen'[g].at = "open" => gen'[g].span \in Made' \ Made,
         \A s \in active : s \in active' \/ (gen[g].at = "open" /\ s = gen[g].span)
  PROVE  Inv'
  <1>1. /\ Made \subseteq Made' /\ Known \subseteq Known'
        /\ \A u \in Threads : \A i \in DOMAIN blocks[u] : blocks[u][i].span \in Made
    BY ContextsStay DEF Inv
  <1>2. ambient' \in [Threads -> Nat]
    BY DEF Elsewhere, Known, Grows
  <1>3. Types'
    BY <1>2 DEF Inv, Types, Elsewhere, Holder
  <1>4. ContextsOK'
    <2>1. ASSUME NEW u \in Threads
          PROVE  /\ ambient'[u] \in Known'
                 /\ \A i \in DOMAIN blocks'[u] :
                      blocks'[u][i].span \in Made' /\ blocks'[u][i].previous \in Known'
      BY <1>1 DEF Inv, ContextsOK, Elsewhere
    <2>2. ASSUME NEW h \in Generators
          PROVE  gen'[h].previous \in Known' /\ (gen'[h].at = "open" => gen'[h].span \in Made')
      BY <1>1 DEF Inv, ContextsOK, Elsewhere
    <2> QED
      BY <2>1, <2>2 DEF ContextsOK
  <1>5. Owners'
    <2> SUFFICES ASSUME NEW u \in Threads, NEW i \in DOMAIN blocks'[u]
        PROVE  Owned(u, i, blocks[u][i].span)'
      BY DEF Owners
    <2>1. blocks' = blocks
      BY DEF Elsewhere
    <2>2. PICK s \in Made : s = blocks[u][i].span /\ Owned(u, i, s)
      BY <1>1, <2>1 DEF Inv, Owners
    <2>3. \A v \in Threads : \A j \in DOMAIN blocks'[v] : blocks'[v][j].span = s => u = v /\ i = j
      BY <2>1, <2>2 DEF Owned
    <2>4. \A h \in Generators : gen'[h].at = "open" => gen'[h].span # s
      BY <2>2 DEF Owned, Elsewhere
    <2>5. spans'[s].trace = s => s \in active'
      BY <2>2 DEF Owned, Grows
    <2> QED
      BY <2>1, <2>2, <2>3, <2>4, <2>5 DEF Owned
  <1>6. ASSUME NEW u \in Threads \ astray' PROVE Nest(u)'
    <2>1. CASE u = t
      <3>1. blocks'[u] = <<>> /\ DOMAIN blocks'[u] = {}
        BY <1>6, <2>1, BlocksType DEF Elsewhere, Inv
      <3> QED
        BY <3>1 DEF Nest
    <2>2. CASE u # t
      BY <1>6, <2>2, NestStays DEF Inv, Nested, Elsewhere
    <2> QED
      BY <2>1, <2>2
  <1>7. Nested'
    BY <1>6 DEF Nested
  <1> QED
    BY <1>3, <1>4, <1>5, <1>7 DEF Inv

LEMMA BeginStep ==
  ASSUME Inv, NEW g \in Generators, NEW t \in Threads, Begin(g, t)
  PROVE  Inv'
  <1>1. PICK new : new = NewId
    OBVIOUS
  <1>2. /\ spans' \in Seq(Span) /\ Len(spans') <= MaxSpans /\ records' \in [Ids -> Seq(Nat)]
        /\ SpansOK' /\ RecordsOK' /\ Grows /\ Len(spans') = Len(spans) + 1
        /\ active' = active \cup {new}
    BY <1>1, TraceBegun DEF Inv, Begin
  <1>3. new \in Nat /\ new \in Made' \ Made /\ Known' = Known \cup {new} /\ Len(spans) \in Nat
    BY <1>1, <1>2, IdsAndMade DEF Inv, Made, Known, NewId
  <1>4. ambient \in [Threads -> Known]
    BY DEF Inv, Types, ContextsOK
  <1>5. ambient' \in [Threads -> Known'] /\ \A u \in Threads \ {t} : ambient'[u] = ambient[u]
    BY <1>1, <1>3, <1>4 DEF Begin, InContext
  <1> DEFINE x == [at |-> "open", span |-> new, previous |-> ambient[t]]
  <1>6. x \in Holder /\ x.at = "open" /\ x.span = new /\ x.previous \in Known'
    BY <1>3, <1>4 DEF Holder, Known
  <1>7. gen' = [gen EXCEPT ![g] = x] /\ UNCHANGED <<clock, blocks, astray>> /\ blocks[t] = <<>>
    BY <1>1 DEF Begin
  <1> HIDE DEF x
  <1>8. gen' \in [Generators -> Holder] /\ gen'[g] = x /\ \A h \in Generators \ {g} : gen'[h] = gen[h]
    BY <1>6, <1>7 DEF Inv, Types, Holder
  <1>9. Elsewhere(g, t)
    BY <1>5, <1>6, <1>7, <1>8 DEF Elsewhere
  <1> QED
    BY <1>2, <1>3, <1>6, <1>8, <1>9, GeneratorStep

\* The end of a generator's trace, in whichever context it comes.
LEMMA FinishStep ==
  ASSUME Inv, NEW g \in Generators, NEW t \in Threads, NEW status \in {"ok", "error"},
         Finish(g, t, status), NEW copied \in BOOLEAN,
         InContext(t, copied, Restored(gen[g].previous)),
         astray \subseteq astray', blocks[t] = <<>> \/ t \in astray'
  PROVE  Inv'
  <1>1. PICK id \in Made : id = gen[g].span /\ gen[g].at = "open"
    BY DEF Finish, Inv, ContextsOK
  <1>2. /\ spans' = [spans EXCEPT ![id] = Finished(@, status)] /\ records' = records
        /\ active' = active \ {id}
    BY <1>1 DEF Finish, EndTrace
  <1>3. /\ spans' \in Seq(Span) /\ Len(spans') <= MaxSpans /\ Len(spans') = Len(spans)
        /\ SpansOK' /\ RecordsOK' /\ Grows
    <2>1. active' \subseteq active
      BY <1>2
    <2> QED
      BY <1>2, <2>1, BlockEnded DEF Inv
  <1>4. Known' = Known /\ 0 \in Known
    BY <1>3 DEF Known, Grows
  <1>5. ambient \in [Threads -> Known] /\ gen[g].previous \in Known
    BY DEF Inv, Types, ContextsOK
  <1>6. ambient' \in [Threads -> Known'] /\ \A u \in Threads \ {t} : ambient'[u] = ambient[u]
    BY <1>4, <1>5 DEF InContext, Restored
  <1> DEFINE x == [gen[g] EXCEPT !.at = "done"]
  <1>7. x \in Holder /\ x.at = "done" /\ x.previous \in Known'
    BY <1>4, <1>5 DEF Holder, Inv, Types
  <1>8. gen' = [gen EXCEPT ![g] = x] /\ UNCHANGED <<clock, blocks>>
    BY DEF Finish
  <1> HIDE DEF x
  <1>9. gen' \in [Generators -> Holder] /\ gen'[g] = x /\ \A h \in Generators \ {g} : gen'[h] = gen[h]
    BY <1>7, <1>8 DEF Inv, Types, Holder
  <1>10. Elsewhere(g, t)
    BY <1>6, <1>7, <1>8, <1>9 DEF Elsewhere
  <1>11. records' \in [Ids -> Seq(Nat)] /\ gen'[g].at # "open"
    BY <1>2, <1>7, <1>9 DEF Inv, Types
  <1> QED
    BY <1>1, <1>2, <1>3, <1>10, <1>11, GeneratorStep

-----------------------------------------------------------------------------
(* The theorem *)

LEMMA InvInit == Init => Inv
  <1> SUFFICES ASSUME Init PROVE Inv
    OBVIOUS
  <1>1. Len(spans) = 0 /\ Made = {} /\ Known = {0}
    BY DEF Init, Made, Known
  <1>2. Types
    BY TracingAssumption DEF Init, Types
  <1>3. RecordsOK /\ SpansOK
    BY <1>1 DEF Init, RecordsOK, SpansOK
  <1>4. ContextsOK /\ Owners
    BY <1>1 DEF Init, ContextsOK, Owners
  <1>5. Nested
    BY DEF Init, Nested, Nest
  <1> QED
    BY <1>2, <1>3, <1>4, <1>5 DEF Inv

LEMMA InvStep == Inv /\ [Next]_vars => Inv'
  <1> SUFFICES ASSUME Inv, [Next]_vars PROVE Inv'
    OBVIOUS
  <1>1. ASSUME UNCHANGED <<spans, tracer, ambient, blocks, gen, astray>>, clock' \in Nat PROVE Inv'
    <2>1. Types'
      BY <1>1 DEF Inv, Types, tracer
    <2>2. SpansOK' /\ RecordsOK'
      BY <1>1 DEF Inv, SpansOK, RecordsOK, Made, Recorded, AfterParent, tracer
    <2>3. ContextsOK' /\ Owners'
      BY <1>1 DEF Inv, ContextsOK, Owners, Owned, Made, Known, tracer
    <2>4. Nested'
      BY <1>1 DEF Inv, Nested, Nest, InTrace, Recorded, Top, tracer
    <2> QED
      BY <2>1, <2>2, <2>3, <2>4 DEF Inv
  <1>2. CASE Tick
    BY <1>1, <1>2 DEF Tick, Inv, Types
  <1>3. CASE UNCHANGED vars
    BY <1>1, <1>3 DEF vars, Inv, Types
  <1>4. ASSUME NEW t \in Threads, OpenTrace(t) \/ OpenSpan(t) PROVE Inv'
    BY <1>4, OpenStep
  <1>5. ASSUME NEW t \in Threads, FinishEarly(t) PROVE Inv'
    BY <1>5, FinishEarlyStep
  <1>6. ASSUME NEW t \in Threads, Leave(t) PROVE Inv'
    BY <1>6, LeaveStep
  <1>7. ASSUME NEW t \in Threads, NEW g \in Generators, Begin(g, t) PROVE Inv'
    BY <1>7, BeginStep
  <1>8. ASSUME NEW t \in Threads, NEW g \in Generators, End(g, t) PROVE Inv'
    <2>1. PICK status \in {"ok", "error"} : Finish(g, t, status)
      BY <1>8 DEF End
    <2>2. PICK copied \in BOOLEAN : InContext(t, copied, Restored(gen[g].previous))
      BY <1>8 DEF End
    <2>3. astray' = astray /\ blocks[t] = <<>>
      BY <1>8 DEF End
    <2> QED
      BY <2>1, <2>2, <2>3, FinishStep
  <1>9. ASSUME NEW t \in Threads, NEW g \in Generators, Finalise(g, t) PROVE Inv'
    <2>1. /\ Finish(g, t, "ok") /\ InContext(t, FALSE, Restored(gen[g].previous))
          /\ astray' = astray \cup {t}
      BY <1>9 DEF Finalise
    <2> QED
      BY <2>1, FinishStep
  <1> QED
    BY <1>2, <1>3, <1>4, <1>5, <1>6, <1>7, <1>8, <1>9 DEF Next

LEMMA InvHolds == Spec => []Inv
  BY InvInit, InvStep, PTL DEF Spec

\* Whatever threads and generators do to the ambient spans, every record is a tree
\* written root first, and a call that no finalisation disturbed has its blocks nested
\* and, below a root, in the record of its trace (trace.py:283-289, 322-326).
THEOREM SpansFormTrees == Spec => []SpanTree
  <1>1. Inv => SpanTree
    <2> SUFFICES ASSUME Inv PROVE SpanTree
      OBVIOUS
    <2>1. ASSUME NEW id \in Ids, NEW i \in DOMAIN records[id]
          PROVE  IF i = 1 THEN records[id][i] = id /\ spans[id].parent = 0
                 ELSE \E j \in 1 .. i - 1 : spans[records[id][i]].parent = records[id][j]
      <3>1. records[id] # <<>> /\ i \in Nat /\ i >= 1
        BY IdsAndMade DEF Inv
      <3>2. /\ records[id][1] = id /\ spans[id].parent = 0
            /\ i > 1 => AfterParent(id, i)
        BY <3>1 DEF Inv, RecordsOK
      <3> QED
        BY <3>1, <3>2 DEF AfterParent
    <2>2. ASSUME NEW t \in Threads \ astray, NEW i \in DOMAIN blocks[t]
          PROVE  /\ i > 1 => spans[blocks[t][i].span].parent = blocks[t][i - 1].span
                 /\ spans[blocks[t][1].span].parent = 0 =>
                      \E j \in DOMAIN records[blocks[t][1].span] :
                        records[blocks[t][1].span][j] = blocks[t][i].span
      <3>1. blocks[t] # <<>> /\ Nest(t)
        BY <2>2, BlocksType DEF Inv, Nested
      <3> QED
        BY <3>1 DEF Nest, InTrace, Recorded
    <2> QED
      BY <2>1, <2>2 DEF SpanTree
  <1> QED
    BY <1>1, InvHolds, PTL

-----------------------------------------------------------------------------
(* When spans are open *)

\* What a context holds when no call of the thread has put it there.
Foreign(x) == x = 0 \/ \E g \in Generators : gen[g].span = x

\* Ids are given in the order of time.
Timed ==
  /\ \A s \in Made :
       /\ spans[s].id = s /\ spans[s].began \in Nat /\ spans[s].began <= clock
       /\ spans[s].ended = -1 \/
            (spans[s].ended \in Nat /\ spans[s].began <= spans[s].ended /\ spans[s].ended <= clock)
  /\ \A r, s \in Made : r < s => spans[r].began <= spans[s].began

Rising ==
  /\ \A id \in Ids : \A i, j \in DOMAIN records[id] : i < j => records[id][i] < records[id][j]
  /\ \A s \in Made : spans[s].parent = 0 => records[s] # <<>>

\* The span of the block below place i, unless a generator has changed the context.
Below(t, i, x) == Foreign(x) \/ (i > 1 /\ x = blocks[t][i - 1].span)

Placed ==
  /\ \A t \in Threads :
       /\ Below(t, Len(blocks[t]) + 1, ambient[t])
       /\ \A i \in DOMAIN blocks[t] :
            Below(t, i, blocks[t][i].previous) /\ Below(t, i, spans[blocks[t][i].span].parent)
  /\ \A g \in Generators : Foreign(gen[g].previous)

Stream(g) ==
  /\ gen[g].span \in Known /\ (gen[g].at = "new" => gen[g].span = 0)
  /\ gen[g].span # 0 => spans[gen[g].span].parent = 0
  /\ gen[g].at = "open" => gen[g].span # 0 /\ spans[gen[g].span].ended = -1
  /\ \A h \in Generators \ {g} : gen[h].span = gen[g].span => gen[g].span = 0
  /\ \A t \in Threads : \A i \in DOMAIN blocks[t] : blocks[t][i].span # gen[g].span
Streams == \A g \in Generators : Stream(g)

InBlock(s) == \E t \in Threads : \E i \in DOMAIN blocks[t] : blocks[t][i].span = s
Held == \A s \in Made : spans[s].ended = -1 => Foreign(s) \/ InBlock(s)

\* The spans below one of a call come one after another, and end before it does.
Sequential(p) ==
  \A c \in Made : spans[c].parent = p =>
    /\ spans[p].ended # -1 => spans[c].ended # -1 /\ spans[c].ended <= spans[p].ended
    /\ \A d \in Made : spans[d].parent = p /\ c < d =>
         spans[c].ended # -1 /\ spans[c].ended <= spans[d].began
Kids == \A p \in Made : ~Foreign(p) => Sequential(p)

\* The same of a trace that was exported.
Export(x) ==
  /\ x \in Seq(Span) /\ x # <<>> /\ x[1].id \in Made /\ x[1].parent = 0
  /\ \A i, j \in DOMAIN x : i < j => x[i].id < x[j].id /\ x[i].began <= x[j].began
  /\ \A i \in DOMAIN x :
       /\ i # 1 => \E j \in DOMAIN x : x[i].parent = x[j].id
       /\ ~IsOpen(x[i]) => x[i].began <= x[i].ended
       /\ \A c \in ChildrenOf(x, x[i]) :
            /\ i < c
            /\ ~IsOpen(x[i]) /\ ~IsOpen(x[c]) => x[c].ended <= x[i].ended
            /\ \A d \in ChildrenOf(x, x[i]) :
                 c < d /\ ~IsOpen(x[c]) /\ ~(i = 1 /\ Streamed(x)) => x[c].ended <= x[d].began
Exported == \A x \in stored : Export(x)

TimeInv == Timed /\ Rising /\ Placed /\ Streams /\ Held /\ Kids /\ Exported

-----------------------------------------------------------------------------
(* A span is made, or ended *)

Making(new, p) ==
  /\ Made' = Made \cup {new} /\ new \in Nat /\ new \notin Known /\ Known' = Known \cup {new}
  /\ \A s \in Made : spans'[s] = spans[s] /\ s < new
  /\ spans'[new].id = new /\ spans'[new].parent = p
  /\ spans'[new].began = clock /\ spans'[new].ended = -1
  /\ clock' = clock /\ stored' = stored

LEMMA SpanMakes ==
  ASSUME Inv, NEW p \in Nat, NEW trace \in Nat, spans' = Append(spans, NewSpan(p, trace)),
         clock' = clock, stored' = stored, NEW new, new = NewId
  PROVE  Making(new, p)
  <1>1. spans \in Seq(Span) /\ Len(spans) \in Nat
    BY LenProperties DEF Inv, Types
  <1>2. NewSpan(p, trace) \in Span
    BY <1>1 DEF Inv, Types, NewSpan, NewId, Span
  <1>3. /\ Len(spans') = Len(spans) + 1 /\ spans'[new] = NewSpan(p, trace)
        /\ \A s \in Made : spans'[s] = spans[s]
    BY <1>1, <1>2, AppendProperties DEF NewId, Made
  <1>4. /\ Made' = Made \cup {new} /\ new \in Nat /\ new \notin Known /\ Known' = Known \cup {new}
        /\ \A s \in Made : s < new
    BY <1>1, <1>3 DEF Made, Known, NewId
  <1>5. /\ NewSpan(p, trace).id = new /\ NewSpan(p, trace).parent = p
        /\ NewSpan(p, trace).began = clock /\ NewSpan(p, trace).ended = -1
    BY DEF NewSpan
  <1> QED
    BY <1>3, <1>4, <1>5 DEF Making

LEMMA MakesTimed ==
  ASSUME Inv, Timed, NEW new, NEW p, Making(new, p)
  PROVE  Timed'
  <1>1. clock \in Nat
    BY DEF Inv, Types
  <1>2. ASSUME NEW s \in Made'
        PROVE  /\ spans'[s].id = s /\ spans'[s].began \in Nat /\ spans'[s].began <= clock'
               /\ spans'[s].ended = -1 \/ (spans'[s].ended \in Nat
                     /\ spans'[s].began <= spans'[s].ended /\ spans'[s].ended <= clock')
    <2>1. CASE s = new
      BY <1>1, <2>1 DEF Making
    <2>2. CASE s \in Made
      BY <2>2 DEF Making, Timed
    <2> QED
      BY <2>1, <2>2 DEF Making
  <1>3. ASSUME NEW r \in Made', NEW s \in Made', r < s PROVE spans'[r].began <= spans'[s].began
    <2>1. Made \subseteq Nat /\ Made' = Made \cup {new} /\ new \in Nat /\ \A q \in Made : q < new
      BY DEF Making, Made
    <2>2. r \in Made
      BY <1>3, <2>1
    <2>3. CASE s = new
      BY <2>2, <2>3 DEF Making, Timed
    <2>4. CASE s \in Made
      BY <1>3, <2>2, <2>4 DEF Making, Timed
    <2> QED
      BY <2>1, <2>3, <2>4
  <1> QED
    BY <1>2, <1>3 DEF Timed

LEMMA TraceMakes ==
  ASSUME Inv, Rising, BeginTrace, clock' = clock, NEW new, new = NewId
  PROVE  Making(new, 0) /\ Rising'
  <1>1. Making(new, 0)
    <2>1. new \in Nat
      BY IdsAndMade DEF Inv
    <2>2. spans' = Append(spans, NewSpan(0, new)) /\ stored' = stored
      BY DEF BeginTrace
    <2> QED
      BY <2>1, <2>2, SpanMakes
  <1>2. records' = [records EXCEPT ![new] = <<new>>] /\ new \in Ids /\ new \notin Made
    BY IdsAndMade DEF BeginTrace, Inv
  <1>3. records'[new] = <<new>> /\ \A id \in Ids \ {new} : records'[id] = records[id]
    BY <1>2 DEF Inv, Types
  <1>4. \A id \in Ids : \A i, j \in DOMAIN records'[id] : i < j => records'[id][i] < records'[id][j]
    <2> SUFFICES ASSUME NEW id \in Ids, NEW i \in DOMAIN records'[id], NEW j \in DOMAIN records'[id], i < j
        PROVE  records'[id][i] < records'[id][j]
      OBVIOUS
    <2>1. CASE id = new
      <3>1. DOMAIN <<new>> = 1 .. 1
        OBVIOUS
      <3>2. i = 1 /\ j = 1
        BY <1>3, <2>1, <3>1
      <3> QED
        BY <3>2
    <2>2. CASE id # new
      BY <1>3, <2>2 DEF Rising
    <2> QED
      BY <2>1, <2>2
  <1>5. \A s \in Made' : spans'[s].parent = 0 => records'[s] # <<>>
    <2> SUFFICES ASSUME NEW s \in Made', spans'[s].parent = 0 PROVE records'[s] # <<>>
      OBVIOUS
    <2>1. CASE s = new
      <3>1. <<new>> # <<>>
        OBVIOUS
      <3> QED
        BY <1>2, <1>3, <2>1, <3>1
    <2>2. CASE s \in Made
      BY <1>1, <1>2, <1>3, <2>2, IdsAndMade DEF Rising, Making, Inv
    <2> QED
      BY <1>1, <2>1, <2>2 DEF Making
  <1> QED
    BY <1>1, <1>4, <1>5 DEF Rising

LEMMA ChildMakes ==
  ASSUME Inv, Rising, NEW p \in Made, BeginChild(p), clock' = clock, NEW new, new = NewId
  PROVE  Making(new, p) /\ Rising'
  <1> DEFINE q == spans[p].trace
  <1>1. q \in Made /\ p \in Nat /\ p # 0 /\ q \in Nat /\ q \in Ids
    BY IdsAndMade DEF Inv, SpansOK, Made
  <1>2. Making(new, p)
    <2>1. spans' = Append(spans, NewSpan(p, q)) /\ stored' = stored
      BY DEF BeginChild
    <2> QED
      BY <1>1, <2>1, SpanMakes
  <1>3. records[q] \in Seq(Nat) /\ DOMAIN records[q] = 1 .. Len(records[q]) /\ Len(records[q]) \in Nat
    BY <1>1, IdsAndMade DEF Inv
  <1>4. new \in Nat /\ \A id \in Ids : \A i \in DOMAIN records[id] : records[id][i] \in Made /\ records[id][i] < new
    BY <1>2 DEF Inv, RecordsOK, Making
  <1>5. CASE q \notin active
    <2>1. records' = records
      BY <1>5 DEF BeginChild
    <2>2. \A s \in Made' : spans'[s].parent = 0 => s \in Made /\ spans[s].parent = 0
      BY <1>1, <1>2 DEF Making
    <2> QED
      BY <1>2, <2>1, <2>2 DEF Rising
  <1>6. CASE q \in active
    <2> DEFINE n == Len(records[q])
               r == Append(records[q], new)
    <2>1. records' = [records EXCEPT ![q] = r]
      BY <1>6 DEF BeginChild
    <2>2. /\ r \in Seq(Nat) /\ Len(r) = n + 1 /\ DOMAIN r = 1 .. n + 1 /\ r[n + 1] = new
          /\ \A i \in 1 .. n : r[i] = records[q][i]
      <3>1. /\ r \in Seq(Nat) /\ Len(r) = n + 1 /\ r[n + 1] = new
            /\ \A i \in 1 .. n : r[i] = records[q][i]
        BY <1>3, <1>4, AppendProperties
      <3> QED
        BY <3>1, LenProperties
    <2> HIDE DEF r
    <2>3. records'[q] = r /\ \A id \in Ids \ {q} : records'[id] = records[id]
      BY <1>1, <2>1 DEF Inv, Types
    <2>4. ASSUME NEW i \in DOMAIN r, NEW j \in DOMAIN r, i < j PROVE r[i] < r[j]
      <3>1. n \in Nat /\ i \in 1 .. n + 1 /\ j \in 1 .. n + 1
        BY <1>3, <2>2
      <3>2. i \in 1 .. n /\ (j = n + 1 \/ j \in 1 .. n)
        <4> HIDE DEF n
        <4> QED
          BY <2>4, <3>1
      <3>3. i \in 1 .. n /\ r[i] = records[q][i]
        BY <2>2, <3>2
      <3>4. CASE j = n + 1
        BY <1>1, <1>3, <1>4, <2>2, <3>3, <3>4
      <3>5. CASE j \in 1 .. n
        BY <1>1, <1>3, <2>2, <2>4, <3>3, <3>5 DEF Rising
      <3> QED
        BY <3>2, <3>4, <3>5
    <2>5. \A id \in Ids : \A i, j \in DOMAIN records'[id] : i < j => records'[id][i] < records'[id][j]
      BY <2>3, <2>4 DEF Rising
    <2>6. ASSUME NEW s \in Made', spans'[s].parent = 0 PROVE records'[s] # <<>>
      <3>1. s \in Made /\ records[s] # <<>> /\ s \in Ids
        BY <1>1, <1>2, <2>6, IdsAndMade DEF Making, Rising, Inv
      <3>2. r # <<>>
        BY <1>3, <2>2
      <3> QED
        BY <2>3, <3>1, <3>2
    <2> QED
      BY <1>2, <2>5, <2>6 DEF Rising
  <1> QED
    BY <1>5, <1>6

Ending(id) ==
  /\ id \in Made /\ Made' = Made /\ Known' = Known /\ clock' = clock /\ records' = records
  /\ spans' \in Seq(Span) /\ Len(spans') = Len(spans)
  /\ \A s \in Made :
       /\ spans'[s].id = spans[s].id /\ spans'[s].parent = spans[s].parent
       /\ spans'[s].began = spans[s].began
       /\ spans'[s].ended = IF s = id /\ spans[s].ended = -1 THEN clock ELSE spans[s].ended

LEMMA SpanEnds ==
  ASSUME Inv, NEW id \in Made, NEW status \in {"ok", "error"},
         spans' = [spans EXCEPT ![id] = Finished(@, status)], records' = records, clock' = clock
  PROVE  Ending(id)
  <1>1. spans \in Seq(Span) /\ Len(spans) \in Nat
    BY LenProperties DEF Inv, Types
  <1>2. spans[id] \in Span
    BY <1>1, ElementOfSeq DEF Made
  <1> DEFINE f == Finished(spans[id], status)
  <1>3. /\ f \in Span /\ f.parent = spans[id].parent /\ f.id = spans[id].id /\ f.began = spans[id].began
        /\ f.ended = IF spans[id].ended = -1 THEN clock ELSE spans[id].ended
    <2> DEFINE x == spans[id]
               y == [x EXCEPT !.ended = clock, !.status = status]
    <2>1. clock \in Int
      BY DEF Inv, Types
    <2>2. y \in Span /\ y.parent = x.parent /\ y.id = x.id /\ y.began = x.began /\ y.ended = clock
      BY <1>2, <2>1 DEF Span
    <2>3. f = IF x.ended # -1 THEN x ELSE y
      BY DEF Finished
    <2> QED
      BY <1>2, <2>2, <2>3
  <1> HIDE DEF f
  <1>4. spans' = [spans EXCEPT ![id] = f]
    BY DEF f
  <1>5. /\ spans' \in Seq(Span) /\ Len(spans') = Len(spans)
        /\ \A s \in Made : spans'[s] = IF s = id THEN f ELSE spans[s]
    BY <1>1, <1>3, <1>4, ExceptSeq DEF Made
  <1>6. Made' = Made /\ Known' = Known
    BY <1>5 DEF Made, Known
  <1> QED
    BY <1>3, <1>5, <1>6 DEF Ending

LEMMA EndsTimed ==
  ASSUME Inv, Timed, Rising, NEW id, Ending(id)
  PROVE  Timed' /\ Rising'
  <1>1. clock \in Nat
    BY DEF Inv, Types
  <1>2. ASSUME NEW s \in Made'
        PROVE  /\ spans'[s].id = s /\ spans'[s].began \in Nat /\ spans'[s].began <= clock'
               /\ spans'[s].ended = -1 \/ (spans'[s].ended \in Nat
                     /\ spans'[s].began <= spans'[s].ended /\ spans'[s].ended <= clock')
    BY <1>1 DEF Ending, Timed
  <1>3. \A r, s \in Made' : r < s => spans'[r].began <= spans'[s].began
    BY DEF Ending, Timed
  <1>4. Rising'
    BY DEF Ending, Rising
  <1> QED
    BY <1>2, <1>3, <1>4 DEF Timed

-----------------------------------------------------------------------------
(* Exports *)

LEMMA ExportStays ==
  ASSUME NEW x, Export(x), Made \subseteq Made', Streamed(x) => Streamed(x)'
  PROVE  Export(x)'
  BY DEF Export

\* What the record of a root gives, when it is that of a call or is finished only now.
Exportable ==
  \A id \in Made : spans[id].parent = 0 /\ (Foreign(id) => spans[id].ended = clock) =>
    Export([i \in DOMAIN records[id] |-> spans[records[id][i]]])

LEMMA Exports == Inv /\ Timed /\ Rising /\ Kids /\ Streams => Exportable
  <1> SUFFICES ASSUME Inv, Timed, Rising, Kids, Streams, NEW id \in Made, spans[id].parent = 0,
                      Foreign(id) => spans[id].ended = clock
      PROVE  Export([i \in DOMAIN records[id] |-> spans[records[id][i]]])
    BY DEF Exportable
  <1> DEFINE r == records[id]
             x == [i \in DOMAIN r |-> spans[r[i]]]
  <1>1. /\ spans \in Seq(Span) /\ Len(spans) \in Nat /\ id \in Ids
        /\ r \in Seq(Nat) /\ DOMAIN r = 1 .. Len(r) /\ Len(r) \in Nat /\ r # <<>>
    BY IdsAndMade, LenProperties DEF Inv, Types, Rising
  <1>2. /\ r[1] = id /\ 1 \in DOMAIN r
        /\ \A i \in DOMAIN r : r[i] \in Made /\ (i > 1 => \E j \in 1 .. i - 1 : spans[r[i]].parent = r[j])
        /\ \A i, j \in DOMAIN r : i < j => r[i] < r[j]
    <2>1. 1 \in DOMAIN r
      BY <1>1, EmptySeq
    <2>2. r[1] = id /\ \A i \in DOMAIN r : r[i] \in Made /\ (i > 1 => AfterParent(id, i))
      BY <1>1 DEF Inv, RecordsOK
    <2>3. \A i, j \in DOMAIN r : i < j => r[i] < r[j]
      BY <1>1 DEF Rising
    <2> QED
      BY <2>1, <2>2, <2>3 DEF AfterParent
  <1>3. \A i \in DOMAIN r : /\ x[i] = spans[r[i]] /\ x[i] \in Span /\ x[i].id = r[i] /\ r[i] \in Nat /\ r[i] # 0
    <2>1. \A s \in Made : spans[s] \in Span /\ spans[s].id = s /\ s \in Nat /\ s # 0
      BY <1>1, ElementOfSeq DEF Made, Timed
    <2> QED
      BY <1>2, <2>1
  <1>4. x \in Seq(Span) /\ DOMAIN x = DOMAIN r /\ x # <<>>
    <2>1. x \in [1 .. Len(r) -> Span]
      BY <1>1, <1>3
    <2>2. x \in Seq(Span) /\ DOMAIN x = 1 .. Len(r)
      BY <1>1, <2>1, SeqDef
    <2> QED
      BY <1>1, <1>2, <2>2
  <1> HIDE DEF x
  <1>5. x[1].id \in Made /\ x[1].parent = 0
    BY <1>2, <1>3
  <1>6. \A i, j \in DOMAIN x : i < j => x[i].id < x[j].id /\ x[i].began <= x[j].began
    <2> SUFFICES ASSUME NEW i \in DOMAIN x, NEW j \in DOMAIN x, i < j
        PROVE  x[i].id < x[j].id /\ x[i].began <= x[j].began
      OBVIOUS
    <2>1. r[i] \in Made /\ r[j] \in Made /\ r[i] < r[j]
      BY <1>2, <1>4
    <2>2. spans[r[i]].began <= spans[r[j]].began
      BY <2>1 DEF Timed
    <2> QED
      BY <1>3, <1>4, <2>1, <2>2
  <1> SUFFICES ASSUME NEW i \in DOMAIN x
      PROVE  /\ i # 1 => \E j \in DOMAIN x : x[i].parent = x[j].id
             /\ ~IsOpen(x[i]) => x[i].began <= x[i].ended
             /\ \A c \in ChildrenOf(x, x[i]) :
                  /\ i < c
                  /\ ~IsOpen(x[i]) /\ ~IsOpen(x[c]) => x[c].ended <= x[i].ended
                  /\ \A d \in ChildrenOf(x, x[i]) :
                       c < d /\ ~IsOpen(x[c]) /\ ~(i = 1 /\ Streamed(x)) => x[c].ended <= x[d].began
    BY <1>4, <1>5, <1>6 DEF Export, x
  <1>7. i # 1 => \E j \in DOMAIN x : x[i].parent = x[j].id
    <2> SUFFICES ASSUME i # 1 PROVE \E j \in DOMAIN x : x[i].parent = x[j].id
      OBVIOUS
    <2>1. i > 1 /\ i \in DOMAIN r
      BY <1>1, <1>4
    <2>2. PICK j \in 1 .. i - 1 : spans[r[i]].parent = r[j]
      BY <1>2, <2>1
    <2>3. j \in DOMAIN r
      BY <1>1, <2>1, <2>2
    <2> QED
      BY <1>3, <1>4, <2>1, <2>2, <2>3
  <1>8. ~IsOpen(x[i]) => x[i].began <= x[i].ended
    BY <1>2, <1>3, <1>4 DEF Timed, IsOpen
  <1>9. Foreign(r[i]) => i = 1 /\ Streamed(x) /\ x[i].ended = clock
    <2> SUFFICES ASSUME Foreign(r[i]) PROVE i = 1 /\ Streamed(x) /\ x[i].ended = clock
      OBVIOUS
    <2>1. r[i] # 0
      BY <1>3, <1>4
    <2>2. PICK g \in Generators : gen[g].span = r[i]
      BY <2>1 DEF Foreign
    <2>3. spans[r[i]].parent = 0
      BY <2>1, <2>2 DEF Streams, Stream
    <2>4. i = 1
      <3> SUFFICES ASSUME i # 1 PROVE FALSE
        OBVIOUS
      <3>1. i > 1
        BY <1>1, <1>4
      <3>2. PICK j \in 1 .. i - 1 : spans[r[i]].parent = r[j]
        BY <1>2, <1>4, <3>1
      <3>3. j \in DOMAIN r
        BY <1>1, <1>4, <3>1, <3>2
      <3> QED
        BY <1>3, <2>3, <3>2, <3>3
    <2>5. Streamed(x)
      BY <1>3, <1>4, <2>2, <2>4 DEF Streamed
    <2> QED
      BY <1>2, <1>3, <1>4, <2>4, <2>5
  <1>10. ASSUME NEW c \in DOMAIN x, x[c].parent = x[i].id PROVE i < c
    <2>1. spans[r[c]].parent = r[i] /\ r[c] \in Made /\ r[c] \in Nat /\ r[i] \in Nat
      BY <1>2, <1>3, <1>4, <1>10
    <2>2. r[i] < r[c]
      BY <2>1 DEF Inv, SpansOK
    <2>3. i \in Nat /\ c \in Nat /\ (c < i => r[c] < r[i]) /\ (c = i => r[c] = r[i])
      BY <1>1, <1>2, <1>4
    <2> QED
      BY <2>1, <2>2, <2>3
  <1>11. ASSUME NEW c \in DOMAIN x, x[c].parent = x[i].id, ~IsOpen(x[i]), ~IsOpen(x[c])
         PROVE  x[c].ended <= x[i].ended
    <2>1. CASE Foreign(r[i])
      <3>1. x[c].ended <= clock
        BY <1>2, <1>3, <1>4, <1>11 DEF Timed, IsOpen
      <3> QED
        BY <1>9, <2>1, <3>1
    <2>2. CASE ~Foreign(r[i])
      BY <1>2, <1>3, <1>4, <1>11, <2>2 DEF Kids, Sequential, IsOpen
    <2> QED
      BY <2>1, <2>2
  <1>12. ASSUME NEW c \in DOMAIN x, x[c].parent = x[i].id, NEW d \in DOMAIN x, x[d].parent = x[i].id,
                c < d, ~(i = 1 /\ Streamed(x))
         PROVE  x[c].ended <= x[d].began
    <2>1. ~Foreign(r[i])
      BY <1>9, <1>12
    <2>2. r[c] < r[d]
      BY <1>2, <1>4, <1>12
    <2>3. /\ spans[r[c]].parent = r[i] /\ spans[r[d]].parent = r[i]
          /\ r[i] \in Made /\ r[c] \in Made /\ r[d] \in Made
      BY <1>2, <1>3, <1>4, <1>12
    <2>4. spans[r[c]].ended <= spans[r[d]].began
      BY <2>1, <2>2, <2>3 DEF Kids, Sequential
    <2> QED
      BY <1>3, <1>4, <2>4
  <1> QED
    BY <1>7, <1>8, <1>10, <1>11, <1>12 DEF ChildrenOf

-----------------------------------------------------------------------------
(* Steps *)

\* The spans below the innermost block of a thread have ended.
LEMMA LastClosed ==
  ASSUME Inv, Placed, Streams, Held, NEW t \in Threads, blocks[t] # <<>>
  PROVE  /\ Top(t).span \in Made /\ ~Foreign(Top(t).span)
         /\ \A c \in Made : spans[c].parent = Top(t).span => spans[c].ended # -1
  <1> DEFINE n == Len(blocks[t])
             p == Top(t).span
  <1>1. n \in DOMAIN blocks[t] /\ n \in Nat /\ DOMAIN blocks[t] = 1 .. n /\ p = blocks[t][n].span
    BY BlocksType DEF Inv, Top
  <1>2. p \in Made /\ p # 0
    BY <1>1 DEF Inv, ContextsOK, Made
  <1>3. ~Foreign(p)
    BY <1>1, <1>2 DEF Foreign, Streams, Stream
  <1>4. ASSUME NEW c \in Made, spans[c].parent = p, spans[c].ended = -1 PROVE FALSE
    <2>1. ~Foreign(c)
      <3>1. c # 0
        BY DEF Made
      <3> QED
        BY <1>2, <1>4, <3>1 DEF Foreign, Streams, Stream
    <2>2. PICK u \in Threads : \E i \in DOMAIN blocks[u] : blocks[u][i].span = c
      BY <1>4, <2>1 DEF Held, InBlock
    <2>3. PICK i \in DOMAIN blocks[u] : blocks[u][i].span = c
      BY <2>2
    <2>4. i > 1 /\ p = blocks[u][i - 1].span
      BY <1>3, <1>4, <2>3 DEF Placed, Below
    <2>5. i - 1 \in DOMAIN blocks[u]
      BY <2>4, BlocksType DEF Inv
    <2>6. u = t /\ i - 1 = n
      <3>1. Owned(t, n, blocks[t][n].span)
        BY <1>1 DEF Inv, Owners
      <3> QED
        BY <1>1, <2>4, <2>5, <3>1 DEF Owned
    <2> QED
      BY <1>1, <2>3, <2>6
  <1> QED
    BY <1>2, <1>3, <1>4

\* A block is entered with a span of its own, below what the context holds or below none.
LEMMA EnterTimes ==
  ASSUME Inv, TimeInv, NEW t \in Threads, Enter(t), Grows, Len(spans') = Len(spans) + 1,
         NEW new, new = NewId, NEW p, Making(new, p), p = 0 \/ p = ambient[t],
         blocks[t] # <<>> => spans[Top(t).span].ended = -1, Timed', Rising'
  PROVE  TimeInv'
  <1>1. PICK n : n = Len(blocks[t]) + 1
    OBVIOUS
  <1>2. /\ ambient'[t] = new /\ Len(blocks'[t]) = n /\ n \in Nat \ {0}
        /\ DOMAIN blocks'[t] = DOMAIN blocks[t] \cup {n} /\ n \notin DOMAIN blocks[t]
        /\ DOMAIN blocks[t] = 1 .. n - 1
        /\ blocks'[t][n] = [span |-> new, previous |-> ambient[t]]
        /\ \A i \in DOMAIN blocks[t] : blocks'[t][i] = blocks[t][i]
        /\ \A u \in Threads \ {t} : ambient'[u] = ambient[u] /\ blocks'[u] = blocks[u]
        /\ UNCHANGED <<clock, gen, astray>>
    BY <1>1, Entered DEF Inv
  <1>3. /\ Made' = Made \cup {new} /\ new \in Nat /\ new \notin Known /\ Known' = Known \cup {new}
        /\ \A s \in Made : spans'[s] = spans[s] /\ s < new /\ s \in Known
        /\ spans'[new].id = new /\ spans'[new].parent = p
        /\ spans'[new].began = clock /\ spans'[new].ended = -1
        /\ clock' = clock /\ stored' = stored /\ 0 \in Known
    BY IdsAndMade DEF Making, Made, Known, Inv
  <1>4. \A x : Foreign(x)' <=> Foreign(x)
    BY <1>2 DEF Foreign
  <1>5. /\ \A u \in Threads : \A i \in DOMAIN blocks'[u] :
             \/ u = t /\ i = n /\ blocks'[u][i].span = new /\ blocks'[u][i].previous = ambient[t]
             \/ i \in DOMAIN blocks[u] /\ blocks'[u][i] = blocks[u][i]
        /\ \A u \in Threads : \A i \in DOMAIN blocks[u] : i \in DOMAIN blocks'[u] /\ blocks'[u][i] = blocks[u][i]
        /\ \A u \in Threads : \A i \in DOMAIN blocks[u] : blocks[u][i].span \in Made
        /\ \A u \in Threads : \A i \in DOMAIN blocks[u] : i > 1 => i - 1 \in DOMAIN blocks[u]
    <2>1. \A u \in Threads : \A i \in DOMAIN blocks[u] : i > 1 => i - 1 \in DOMAIN blocks[u]
      BY BlocksType DEF Inv
    <2>2. \A u \in Threads : \A i \in DOMAIN blocks'[u] :
             \/ u = t /\ i = n /\ blocks'[u][i].span = new /\ blocks'[u][i].previous = ambient[t]
             \/ i \in DOMAIN blocks[u] /\ blocks'[u][i] = blocks[u][i]
      BY <1>2
    <2>3. \A u \in Threads : \A i \in DOMAIN blocks[u] : i \in DOMAIN blocks'[u] /\ blocks'[u][i] = blocks[u][i]
      BY <1>2
    <2> QED
      BY <2>1, <2>2, <2>3 DEF Inv, ContextsOK
  <1>6. Foreign(ambient[t]) \/ (n > 1 /\ n - 1 \in DOMAIN blocks[t] /\ ambient[t] = blocks[t][n - 1].span
                                 /\ ambient[t] = Top(t).span /\ blocks[t] # <<>>)
    <2>1. Below(t, n, ambient[t])
      BY <1>1 DEF TimeInv, Placed
    <2>2. n > 1 => n - 1 \in DOMAIN blocks[t] /\ blocks[t] # <<>> /\ Top(t) = blocks[t][n - 1]
      BY <1>1, <1>2 DEF Top
    <2> QED
      BY <2>1, <2>2 DEF Below
  <1>7. Placed'
    <2>1. ASSUME NEW u \in Threads, NEW i \in DOMAIN blocks[u], NEW x, Below(u, i, x) PROVE Below(u, i, x)'
      BY <1>4, <1>5, <2>1 DEF Below
    <2>2. ASSUME NEW u \in Threads, NEW i \in DOMAIN blocks'[u]
          PROVE  Below(u, i, blocks[u][i].previous)' /\ Below(u, i, spans[blocks[u][i].span].parent)'
      <3>1. CASE u = t /\ i = n /\ blocks'[u][i].span = new /\ blocks'[u][i].previous = ambient[t]
        <4>1. PICK a : a = ambient[t]
          OBVIOUS
        <4>2. Below(u, i, a)'
          BY <1>4, <1>5, <1>6, <3>1, <4>1 DEF Below
        <4>3. Below(u, i, p)'
          BY <4>1, <4>2 DEF Below, Foreign
        <4>4. blocks'[u][i].previous = a /\ spans'[blocks'[u][i].span].parent = p
          BY <1>3, <3>1, <4>1
        <4> QED
          BY <4>2, <4>3, <4>4 DEF Below
      <3>2. CASE i \in DOMAIN blocks[u] /\ blocks'[u][i] = blocks[u][i]
        <4>1. Below(u, i, blocks[u][i].previous) /\ Below(u, i, spans[blocks[u][i].span].parent)
          BY <3>2 DEF TimeInv, Placed
        <4>2. spans'[blocks[u][i].span] = spans[blocks[u][i].span]
          BY <1>3, <1>5, <3>2
        <4>3. i > 1 => blocks'[u][i - 1] = blocks[u][i - 1]
          BY <1>5, <3>2
        <4> QED
          BY <1>4, <3>2, <4>1, <4>2, <4>3 DEF Below
      <3> QED
        BY <1>5, <3>1, <3>2
    <2>3. ASSUME NEW u \in Threads PROVE Below(u, Len(blocks[u]) + 1, ambient[u])'
      <3>1. CASE u = t
        <4>1. Len(blocks'[t]) + 1 > 1 /\ (Len(blocks'[t]) + 1) - 1 = n
          BY <1>2
        <4>2. blocks'[t][n].span = new
          BY <1>2
        <4> QED
          BY <1>2, <3>1, <4>1, <4>2 DEF Below
      <3>2. CASE u # t
        <4>1. Below(u, Len(blocks[u]) + 1, ambient[u])
          BY DEF TimeInv, Placed
        <4> QED
          BY <1>2, <1>4, <3>2, <4>1 DEF Below
      <3> QED
        BY <3>1, <3>2
    <2>4. \A g \in Generators : Foreign(gen[g].previous)'
      BY <1>2, <1>4 DEF TimeInv, Placed, Foreign
    <2> QED
      BY <2>2, <2>3, <2>4 DEF Placed
  <1>8. Streams'
    <2> SUFFICES ASSUME NEW g \in Generators PROVE Stream(g)'
      BY DEF Streams
    <2>1. Stream(g) /\ gen' = gen
      BY <1>2 DEF TimeInv, Streams
    <2>2. gen[g].span # 0 => gen[g].span \in Made /\ spans'[gen[g].span] = spans[gen[g].span]
      BY <1>3, <2>1, IdsAndMade DEF Stream, Made, Known, Inv
    <2>3. \A u \in Threads : \A i \in DOMAIN blocks'[u] : blocks'[u][i].span # gen[g].span
      BY <1>3, <1>5, <2>1 DEF Stream
    <2> QED
      BY <1>3, <2>1, <2>2, <2>3 DEF Stream
  <1>9. Held'
    <2> SUFFICES ASSUME NEW s \in Made', spans'[s].ended = -1 PROVE Foreign(s)' \/ InBlock(s)'
      BY DEF Held
    <2>1. CASE s = new
      BY <1>2, <2>1 DEF InBlock
    <2>2. CASE s \in Made
      <3>1. Foreign(s) \/ InBlock(s)
        BY <1>3, <2>2 DEF TimeInv, Held
      <3>2. InBlock(s) => InBlock(s)'
        BY <1>5 DEF InBlock
      <3> QED
        BY <1>4, <3>1, <3>2
    <2> QED
      BY <1>3, <2>1, <2>2
  <1>10. Kids'
    <2> SUFFICES ASSUME NEW q \in Made', ~Foreign(q)' PROVE Sequential(q)'
      BY DEF Kids
    <2>0. Made \subseteq Nat /\ \A c \in Made : spans[c].parent < c /\ spans[c].parent \in Nat
      BY DEF Inv, SpansOK, Made
    <2>1. ASSUME q = new PROVE Sequential(q)'
      <3>1. \A c \in Made' : spans'[c].parent # new
        <4>1. p \in Known
          BY <1>3 DEF Inv, ContextsOK
        <4>2. p # new
          BY <1>3, <4>1
        <4>3. \A c \in Made : spans'[c].parent # new
          BY <1>3, <2>0
        <4> QED
          BY <1>3, <4>2, <4>3
      <3> QED
        BY <2>1, <3>1 DEF Sequential
    <2>2. ASSUME q \in Made PROVE Sequential(q)'
      <3>1. Sequential(q) /\ spans'[q] = spans[q] /\ ~Foreign(q)
        BY <1>3, <1>4, <2>2 DEF TimeInv, Kids
      <3>2. ASSUME p = q
            PROVE  spans[q].ended = -1 /\ \A c \in Made : spans[c].parent = q => spans[c].ended # -1
        <4>1. ambient[t] = q /\ q # 0
          BY <2>0, <2>2, <3>2 DEF Made
        <4>2. blocks[t] # <<>> /\ q = Top(t).span
          BY <1>6, <3>1, <4>1
        <4> QED
          BY <4>2, LastClosed DEF TimeInv
      <3> SUFFICES ASSUME NEW c \in Made', spans'[c].parent = q
          PROVE  /\ spans'[q].ended # -1 => spans'[c].ended # -1 /\ spans'[c].ended <= spans'[q].ended
                 /\ \A d \in Made' : spans'[d].parent = q /\ c < d =>
                      spans'[c].ended # -1 /\ spans'[c].ended <= spans'[d].began
        BY DEF Sequential
      <3>3. CASE c = new
        <4>1. spans'[q].ended = -1 /\ \A d \in Made' : ~(c < d)
          BY <1>3, <2>0, <3>1, <3>2, <3>3
        <4> QED
          BY <4>1
      <3>4. CASE c \in Made
        <4>1. spans[c].parent = q /\ spans'[c] = spans[c]
          BY <1>3, <3>4
        <4>2. ASSUME NEW d \in Made', spans'[d].parent = q, c < d
              PROVE  spans'[c].ended # -1 /\ spans'[c].ended <= spans'[d].began
          <5>1. CASE d \in Made
            BY <1>3, <3>1, <3>4, <4>1, <4>2, <5>1 DEF Sequential
          <5>2. CASE d = new
            <6>1. spans[c].ended # -1
              BY <1>3, <3>2, <3>4, <4>1, <4>2, <5>2
            <6> QED
              BY <1>3, <3>4, <4>1, <5>2, <6>1 DEF TimeInv, Timed
          <5> QED
            BY <1>3, <5>1, <5>2
        <4> QED
          BY <3>1, <3>4, <4>1, <4>2 DEF Sequential
      <3> QED
        BY <1>3, <3>3, <3>4
    <2> QED
      BY <1>3, <2>1, <2>2
  <1>11. Exported'
    <2>1. Made \subseteq Made' /\ stored' = stored /\ gen' = gen
      BY <1>2, <1>3
    <2>2. \A x : Streamed(x) => Streamed(x)'
      BY <2>1 DEF Streamed
    <2> QED
      BY <2>1, <2>2, ExportStays DEF TimeInv, Exported
  <1> QED
    BY <1>7, <1>8, <1>9, <1>10, <1>11 DEF TimeInv

\* A span ends: below it, if a call has opened it, nothing is open any more.
LEMMA EndsKids ==
  ASSUME Inv, TimeInv, NEW id, Ending(id), \A g \in Generators : gen'[g].span = gen[g].span,
         ~Foreign(id) => \A c \in Made : spans[c].parent = id => spans[c].ended # -1
  PROVE  Timed' /\ Rising' /\ Kids' /\ \A x : Foreign(x)' <=> Foreign(x)
  <1>1. \A x : Foreign(x)' <=> Foreign(x)
    BY DEF Foreign
  <1>2. Timed' /\ Rising'
    BY EndsTimed DEF TimeInv
  <1>3. /\ id \in Made /\ Made' = Made /\ clock \in Nat
        /\ \A s \in Made : /\ spans'[s].parent = spans[s].parent /\ spans'[s].began = spans[s].began
                           /\ spans[s].ended # -1 => spans'[s].ended = spans[s].ended
                           /\ s # id => spans'[s].ended = spans[s].ended
                           /\ s = id => spans'[s].ended = IF spans[s].ended = -1 THEN clock ELSE spans[s].ended
    BY DEF Ending, Inv, Types
  <1>4. ASSUME NEW q \in Made, ~Foreign(q), NEW c \in Made, spans[c].parent = q
        PROVE  /\ spans'[q].ended # -1 => spans'[c].ended # -1 /\ spans'[c].ended <= spans'[q].ended
               /\ \A d \in Made : spans[d].parent = q /\ c < d =>
                    spans'[c].ended # -1 /\ spans'[c].ended <= spans'[d].began
    <2>1. Sequential(q)
      BY <1>4 DEF TimeInv, Kids
    <2>2. CASE q = id /\ spans[q].ended = -1
      <3>1. spans[c].ended # -1 /\ spans'[c].ended = spans[c].ended /\ spans'[q].ended = clock
        BY <1>3, <1>4, <2>2
      <3>2. spans[c].ended <= clock
        BY <1>4, <3>1 DEF TimeInv, Timed
      <3> QED
        BY <1>3, <1>4, <2>1, <3>1, <3>2 DEF Sequential
    <2>3. CASE ~(q = id /\ spans[q].ended = -1)
      <3>1. spans'[q].ended = spans[q].ended
        BY <1>3, <2>3
      <3> QED
        BY <1>3, <1>4, <2>1, <3>1 DEF Sequential
    <2> QED
      BY <2>2, <2>3
  <1>5. Kids'
    BY <1>1, <1>3, <1>4 DEF Kids, Sequential
  <1> QED
    BY <1>1, <1>2, <1>5

\* What is exported with the end of a root.
LEMMA EndsExported ==
  ASSUME TimeInv, NEW id, Ending(id), Inv', Timed', Rising', Kids', Streams',
         \A g \in Generators : gen'[g].span = gen[g].span,
         \/ stored' = stored
         \/ /\ stored' = stored \cup {[i \in DOMAIN records[id] |-> spans'[records[id][i]]]}
            /\ spans[id].parent = 0 /\ (Foreign(id) => spans[id].ended = -1)
  PROVE  Exported'
  <1>1. Made' = Made /\ id \in Made /\ records' = records /\ clock' = clock
    BY DEF Ending
  <1>2. \A x : Export(x) => Export(x)'
    <2>1. \A x : Streamed(x) => Streamed(x)'
      BY DEF Streamed
    <2> QED
      BY <1>1, <2>1, ExportStays
  <1>3. CASE stored' = stored
    BY <1>2, <1>3 DEF TimeInv, Exported
  <1>4. CASE /\ stored' = stored \cup {[i \in DOMAIN records[id] |-> spans'[records[id][i]]]}
             /\ spans[id].parent = 0 /\ (Foreign(id) => spans[id].ended = -1)
    <2>1. (Inv /\ Timed /\ Rising /\ Kids /\ Streams => Exportable)'
      BY Exports, PTL
    <2>2. Exportable'
      BY <2>1
    <2>3. spans'[id].parent = 0 /\ (Foreign(id)' => spans'[id].ended = clock')
      <3>1. Foreign(id)' => Foreign(id)
        BY DEF Foreign
      <3> QED
        BY <1>1, <1>4, <3>1 DEF Ending
    <2>4. Export([i \in DOMAIN records[id] |-> spans[records[id][i]]])'
      BY <1>1, <2>2, <2>3 DEF Exportable
    <2>5. PICK x : x = [i \in DOMAIN records[id] |-> spans'[records[id][i]]]
      OBVIOUS
    <2>6. Export(x)'
      BY <1>1, <2>4, <2>5
    <2> QED
      BY <1>2, <1>4, <2>5, <2>6 DEF TimeInv, Exported
  <1> QED
    BY <1>3, <1>4

LEMMA EndsStreams ==
  ASSUME Inv, Streams, NEW id, Ending(id), \A g \in Generators : gen'[g].span = gen[g].span,
         \A g \in Generators : gen'[g].at = gen[g].at \/ gen'[g].at = "done",
         \A g \in Generators : gen[g].span = id => gen'[g].at = "done",
         \A u \in Threads : \A i \in DOMAIN blocks'[u] : i \in DOMAIN blocks[u] /\ blocks'[u][i] = blocks[u][i]
  PROVE  Streams'
  <1> SUFFICES ASSUME NEW g \in Generators PROVE Stream(g)'
    BY DEF Streams
  <1>1. Stream(g)
    BY DEF Streams
  <1>2. gen[g].span # 0 => gen[g].span \in Made
    BY <1>1, IdsAndMade DEF Stream, Made, Known, Inv
  <1>3. gen'[g].span \in Known' /\ (gen'[g].at = "new" => gen'[g].span = 0)
    BY <1>1 DEF Stream, Ending
  <1>4. gen'[g].span # 0 => spans'[gen'[g].span].parent = 0
    BY <1>1, <1>2 DEF Stream, Ending
  <1>5. gen'[g].at = "open" => gen'[g].span # 0 /\ spans'[gen'[g].span].ended = -1
    BY <1>1, <1>2 DEF Stream, Ending
  <1> QED
    BY <1>1, <1>3, <1>4, <1>5 DEF Stream

\* The innermost block ends its span, and stays or is left.
LEMMA TopTimes ==
  ASSUME Inv, TimeInv, NEW t \in Threads, FinishEarly(t) \/ Leave(t), Inv'
  PROVE  TimeInv'
  <1> DEFINE id == Top(t).span
  <1>1. /\ blocks[t] # <<>> /\ id \in Made /\ ~Foreign(id)
        /\ \A c \in Made : spans[c].parent = id => spans[c].ended # -1
    <2>1. blocks[t] # <<>>
      BY DEF FinishEarly, Leave
    <2> QED
      BY <2>1, LastClosed DEF TimeInv
  <1>2. Ending(id) /\ gen' = gen
    <2>1. \E status \in {"ok", "error"} : spans' = [spans EXCEPT ![id] = Finished(@, status)]
      BY DEF FinishEarly, Leave, EndTrace
    <2>2. records' = records /\ clock' = clock /\ gen' = gen
      BY DEF FinishEarly, Leave, EndTrace, tracer
    <2> QED
      BY <1>1, <2>1, <2>2, SpanEnds
  <1>3. Timed' /\ Rising' /\ Kids' /\ \A x : Foreign(x)' <=> Foreign(x)
    BY <1>1, <1>2, EndsKids
  <1>4. PICK n : n = Len(blocks[t])
    OBVIOUS
  <1>5. /\ n \in Nat /\ n >= 1 /\ n \in DOMAIN blocks[t] /\ DOMAIN blocks[t] = 1 .. n
        /\ id = blocks[t][n].span
    BY <1>1, <1>4, BlocksType DEF Inv, Top
  <1>6. \/ UNCHANGED <<blocks, ambient>>
        \/ /\ Len(blocks'[t]) = n - 1 /\ DOMAIN blocks'[t] = 1 .. n - 1
           /\ \A i \in 1 .. n - 1 : blocks'[t][i] = blocks[t][i]
           /\ ambient'[t] = blocks[t][n].previous
           /\ \A u \in Threads \ {t} : ambient'[u] = ambient[u] /\ blocks'[u] = blocks[u]
    <2>1. CASE FinishEarly(t)
      BY <2>1 DEF FinishEarly
    <2>2. CASE Leave(t)
      BY <1>4, <2>2, Left DEF Inv
    <2> QED
      BY <2>1, <2>2
  <1>7. \A u \in Threads : \A i \in DOMAIN blocks'[u] :
          /\ i \in DOMAIN blocks[u] /\ blocks'[u][i] = blocks[u][i]
          /\ blocks[u][i].span \in Made
          /\ i > 1 => i - 1 \in DOMAIN blocks'[u] /\ blocks'[u][i - 1] = blocks[u][i - 1]
    <2> SUFFICES ASSUME NEW u \in Threads, NEW i \in DOMAIN blocks'[u]
        PROVE  /\ i \in DOMAIN blocks[u] /\ blocks'[u][i] = blocks[u][i]
               /\ i > 1 => i - 1 \in DOMAIN blocks'[u] /\ blocks'[u][i - 1] = blocks[u][i - 1]
      BY DEF Inv, ContextsOK
    <2>1. CASE blocks' = blocks
      BY <2>1, BlocksType DEF Inv
    <2>2. CASE u # t
      BY <1>6, <2>2, BlocksType DEF Inv
    <2>3. CASE blocks' # blocks /\ u = t
      <3>1. i \in 1 .. n - 1 /\ (i > 1 => i - 1 \in 1 .. n - 1)
        BY <1>5, <1>6, <2>3
      <3> QED
        BY <1>5, <1>6, <2>3, <3>1
    <2> QED
      BY <2>1, <2>2, <2>3
  <1>8. Placed'
    <2>1. ASSUME NEW u \in Threads, NEW i \in DOMAIN blocks'[u]
          PROVE  Below(u, i, blocks[u][i].previous)' /\ Below(u, i, spans[blocks[u][i].span].parent)'
      <3>1. Below(u, i, blocks[u][i].previous) /\ Below(u, i, spans[blocks[u][i].span].parent)
        BY <1>7 DEF TimeInv, Placed
      <3>2. spans'[blocks[u][i].span].parent = spans[blocks[u][i].span].parent
        BY <1>2, <1>7 DEF Ending
      <3> QED
        BY <1>3, <1>7, <3>1, <3>2 DEF Below
    <2>2. ASSUME NEW u \in Threads PROVE Below(u, Len(blocks[u]) + 1, ambient[u])'
      <3>1. Below(u, Len(blocks[u]) + 1, ambient[u])
        BY DEF TimeInv, Placed
      <3>2. CASE blocks'[u] = blocks[u] /\ ambient'[u] = ambient[u]
        BY <1>3, <3>1, <3>2 DEF Below
      <3>3. CASE /\ u = t /\ Len(blocks'[t]) = n - 1 /\ ambient'[t] = blocks[t][n].previous
                 /\ \A i \in 1 .. n - 1 : blocks'[t][i] = blocks[t][i]
        <4>1. Below(t, n, blocks[t][n].previous)
          BY <1>5 DEF TimeInv, Placed
        <4>2. Len(blocks'[t]) + 1 = n /\ (n > 1 => n - 1 \in 1 .. n - 1)
          BY <1>5, <3>3
        <4> QED
          BY <1>3, <3>3, <4>1, <4>2 DEF Below
      <3> QED
        BY <1>6, <3>2, <3>3
    <2>3. \A g \in Generators : Foreign(gen[g].previous)'
      BY <1>2, <1>3 DEF TimeInv, Placed, Foreign
    <2> QED
      BY <2>1, <2>2, <2>3 DEF Placed
  <1>9. Streams'
    <2>1. \A g \in Generators : gen[g].span # id
      BY <1>1 DEF Foreign
    <2> QED
      BY <1>2, <1>7, <2>1, EndsStreams DEF TimeInv
  <1>10. Held'
    <2> SUFFICES ASSUME NEW s \in Made', spans'[s].ended = -1 PROVE Foreign(s)' \/ InBlock(s)'
      BY DEF Held
    <2>1. s \in Made /\ s # id /\ spans[s].ended = -1
      BY <1>2, <1>3 DEF Ending, Inv, Types
    <2>2. CASE Foreign(s)
      BY <1>3, <2>2
    <2>3. CASE InBlock(s)
      <3>1. PICK u \in Threads : \E i \in DOMAIN blocks[u] : blocks[u][i].span = s
        BY <2>3 DEF InBlock
      <3>2. PICK i \in DOMAIN blocks[u] : blocks[u][i].span = s
        BY <3>1
      <3>3. i \in DOMAIN blocks'[u] /\ blocks'[u][i] = blocks[u][i]
        <4>1. CASE UNCHANGED <<blocks, ambient>> \/ u # t
          BY <1>6, <4>1
        <4>2. CASE u = t /\ DOMAIN blocks'[t] = 1 .. n - 1 /\ \A j \in 1 .. n - 1 : blocks'[t][j] = blocks[t][j]
          <5>1. i # n /\ i \in 1 .. n
            BY <1>5, <2>1, <3>2, <4>2
          <5>2. i \in 1 .. n - 1
            BY <1>5, <5>1
          <5> QED
            BY <4>2, <5>2
        <4> QED
          BY <1>6, <4>1, <4>2
      <3> QED
        BY <3>2, <3>3 DEF InBlock
    <2> QED
      BY <2>1, <2>2, <2>3 DEF TimeInv, Held
  <1>11. Exported'
    <2>1. \/ stored' = stored
          \/ /\ stored' = stored \cup {[i \in DOMAIN records[id] |-> spans'[records[id][i]]]}
             /\ spans[id].parent = 0 /\ (Foreign(id) => spans[id].ended = -1)
      <3>1. CASE FinishEarly(t)
        BY <3>1 DEF FinishEarly, tracer
      <3>2. CASE Leave(t)
        <4>1. spans[id].trace = id => spans[id].parent = 0
          BY <1>1 DEF Inv, SpansOK
        <4> QED
          BY <1>1, <3>2, <4>1 DEF Leave, EndTrace, tracer
      <3> QED
        BY <3>1, <3>2
    <2> QED
      BY <1>2, <1>3, <1>9, <2>1, EndsExported
  <1> QED
    BY <1>3, <1>8, <1>9, <1>10, <1>11 DEF TimeInv

\* A generator leaves in a context what it holds itself, or what it found in another.
LEMMA GeneratorPlaced ==
  ASSUME Inv, Placed, NEW t \in Threads, NEW copied \in BOOLEAN, NEW x, InContext(t, copied, x),
         Foreign(x)', blocks' = blocks, \A y : Foreign(y) => Foreign(y)',
         \A s \in Made : spans'[s].parent = spans[s].parent,
         \A g \in Generators : Foreign(gen[g].previous)'
  PROVE  Placed'
  <1>1. ASSUME NEW u \in Threads, NEW i, NEW y, Below(u, i, y) PROVE Below(u, i, y)'
    BY <1>1 DEF Below
  <1>2. \A u \in Threads : \A i \in DOMAIN blocks[u] : blocks[u][i].span \in Made
    BY DEF Inv, ContextsOK
  <1>3. ASSUME NEW u \in Threads, NEW i \in DOMAIN blocks[u]
        PROVE  Below(u, i, blocks[u][i].previous)' /\ Below(u, i, spans[blocks[u][i].span].parent)'
    <2>1. PICK a, b : a = blocks[u][i].previous /\ b = spans[blocks[u][i].span].parent
      OBVIOUS
    <2>2. Below(u, i, a) /\ Below(u, i, b)
      BY <2>1 DEF Placed
    <2>3. Below(u, i, a)' /\ Below(u, i, b)'
      BY <1>1, <2>2
    <2>4. blocks'[u][i].previous = a /\ spans'[blocks'[u][i].span].parent = b
      BY <1>2, <2>1
    <2> QED
      BY <2>3, <2>4 DEF Below
  <1>4. ASSUME NEW u \in Threads PROVE Below(u, Len(blocks[u]) + 1, ambient[u])'
    <2>1. ambient'[u] = ambient[u] \/ ambient'[u] = x
      BY DEF InContext, Inv, Types
    <2>2. PICK a, n : a = ambient'[u] /\ n = Len(blocks[u]) + 1
      OBVIOUS
    <2>3. CASE ambient'[u] = ambient[u]
      <3>1. Below(u, n, a)
        BY <2>2, <2>3 DEF Placed
      <3>2. Below(u, n, a)'
        BY <1>1, <3>1
      <3> QED
        BY <2>2, <3>2 DEF Below
    <2>4. CASE ambient'[u] = x
      BY <2>4 DEF Below, Foreign
    <2> QED
      BY <2>1, <2>3, <2>4
  <1> QED
    BY <1>3, <1>4 DEF Placed

LEMMA BeginTimes ==
  ASSUME Inv, TimeInv, NEW g \in Generators, NEW t \in Threads, Begin(g, t)
  PROVE  TimeInv'
  <1>1. PICK new : new = NewId
    OBVIOUS
  <1>2. Making(new, 0) /\ Rising' /\ Timed'
    <2>1. Making(new, 0) /\ Rising'
      BY <1>1, TraceMakes DEF TimeInv, Begin
    <2> QED
      BY <2>1, MakesTimed DEF TimeInv
  <1>3. /\ Made' = Made \cup {new} /\ new \in Nat /\ new \notin Known /\ Known' = Known \cup {new}
        /\ \A s \in Made : spans'[s] = spans[s] /\ s < new /\ s \in Known
        /\ spans'[new].parent = 0 /\ spans'[new].ended = -1
        /\ clock' = clock /\ stored' = stored /\ 0 \in Known
    BY <1>2, IdsAndMade DEF Making, Made, Known, Inv
  <1>4. /\ gen' = [gen EXCEPT ![g] = [at |-> "open", span |-> new, previous |-> ambient[t]]]
        /\ blocks' = blocks /\ blocks[t] = <<>> /\ gen[g].at = "new"
    BY <1>1 DEF Begin
  <1>5. /\ gen'[g].at = "open" /\ gen'[g].span = new /\ gen'[g].previous = ambient[t]
        /\ \A h \in Generators \ {g} : gen'[h] = gen[h]
    BY <1>4 DEF Inv, Types
  <1>6. \A h \in Generators : Stream(h)
    BY DEF TimeInv, Streams
  <1>7. gen[g].span = 0
    BY <1>4, <1>6 DEF Stream
  <1>8. \A y : Foreign(y) => Foreign(y)'
    BY <1>5, <1>7 DEF Foreign
  <1>9. Foreign(new)'
    BY <1>5 DEF Foreign
  <1>10. Placed'
    <2>1. PICK copied \in BOOLEAN : InContext(t, copied, new)
      BY <1>1 DEF Begin
    <2>2. ASSUME NEW h \in Generators PROVE Foreign(gen[h].previous)'
      <3>1. PICK a : a = gen'[h].previous
        OBVIOUS
      <3>2. Foreign(a)
        <4>1. Below(t, Len(blocks[t]) + 1, ambient[t]) /\ Len(blocks[t]) = 0 /\ Foreign(gen[h].previous)
          BY <1>4 DEF TimeInv, Placed
        <4>2. Foreign(ambient[t])
          BY <4>1 DEF Below
        <4> QED
          BY <1>5, <3>1, <4>1, <4>2
      <3>3. Foreign(a)'
        BY <1>8, <3>2
      <3> QED
        BY <3>1, <3>3 DEF Foreign
    <2> QED
      BY <1>3, <1>4, <1>8, <1>9, <2>1, <2>2, GeneratorPlaced DEF TimeInv
  <1>11. Streams'
    <2> SUFFICES ASSUME NEW h \in Generators PROVE Stream(h)'
      BY DEF Streams
    <2>1. \A u \in Threads : \A i \in DOMAIN blocks[u] : blocks[u][i].span \in Known
      BY <1>3 DEF Inv, ContextsOK
    <2>2. CASE h = g
      <3>1. \A k \in Generators \ {g} : gen'[k].span # new
        BY <1>3, <1>5, <1>6 DEF Stream
      <3>2. \A u \in Threads : \A i \in DOMAIN blocks'[u] : blocks'[u][i].span # new
        BY <1>3, <1>4, <2>1
      <3>3. new # 0 /\ new \in Known'
        BY <1>3
      <3> QED
        BY <1>3, <1>5, <2>2, <3>1, <3>2, <3>3 DEF Stream
    <2>3. CASE h # g
      <3>1. gen'[h] = gen[h] /\ Stream(h)
        BY <1>5, <1>6, <2>3
      <3>2. gen[h].span # 0 => gen[h].span \in Made
        BY <3>1, IdsAndMade DEF Stream, Made, Known, Inv
      <3>3. gen[h].span # new
        BY <1>3, <3>1 DEF Stream
      <3>4. \A k \in Generators \ {h} : gen'[k].span = gen'[h].span => gen'[h].span = 0
        BY <1>5, <3>1, <3>3 DEF Stream
      <3>5. \A u \in Threads : \A i \in DOMAIN blocks'[u] : blocks'[u][i].span # gen'[h].span
        BY <1>4, <3>1 DEF Stream
      <3>6. /\ gen'[h].span \in Known' /\ (gen'[h].at = "new" => gen'[h].span = 0)
            /\ gen'[h].span # 0 => spans'[gen'[h].span].parent = 0
            /\ gen'[h].at = "open" => gen'[h].span # 0 /\ spans'[gen'[h].span].ended = -1
        BY <1>3, <3>1, <3>2 DEF Stream
      <3> QED
        BY <3>4, <3>5, <3>6 DEF Stream
    <2> QED
      BY <2>2, <2>3
  <1>12. Held'
    <2> SUFFICES ASSUME NEW s \in Made', spans'[s].ended = -1 PROVE Foreign(s)' \/ InBlock(s)'
      BY DEF Held
    <2>1. CASE s = new
      BY <1>9, <2>1
    <2>2. CASE s \in Made
      <3>1. Foreign(s) \/ InBlock(s)
        BY <1>3, <2>2 DEF TimeInv, Held
      <3>2. InBlock(s) => InBlock(s)'
        BY <1>4 DEF InBlock
      <3> QED
        BY <1>8, <3>1, <3>2
    <2> QED
      BY <1>3, <2>1, <2>2
  <1>13. Kids'
    <2> SUFFICES ASSUME NEW q \in Made', ~Foreign(q)' PROVE Sequential(q)'
      BY DEF Kids
    <2>1. q \in Made /\ ~Foreign(q) /\ q # 0
      BY <1>3, <1>8, <1>9 DEF Foreign
    <2>2. Sequential(q)
      BY <2>1 DEF TimeInv, Kids
    <2>3. \A c \in Made' : spans'[c].parent = q => c \in Made /\ spans'[c] = spans[c] /\ spans[c].parent = q
      BY <1>3, <2>1
    <2> QED
      BY <1>3, <2>1, <2>2, <2>3 DEF Sequential
  <1>14. Exported'
    <2>1. \A x : Streamed(x) /\ x[1].id \in Made => Streamed(x)'
      <3> SUFFICES ASSUME NEW x, Streamed(x), x[1].id \in Made PROVE Streamed(x)'
        OBVIOUS
      <3>1. PICK h \in Generators : gen[h].span = x[1].id
        BY DEF Streamed
      <3>2. h # g
        BY <1>7, <3>1 DEF Made
      <3> QED
        BY <1>5, <3>1, <3>2 DEF Streamed
    <2>2. \A x : Export(x) => Export(x)'
      <3> SUFFICES ASSUME NEW x, Export(x) PROVE Export(x)'
        OBVIOUS
      <3>1. x[1].id \in Made
        BY DEF Export
      <3> QED
        BY <1>3, <2>1, <3>1, ExportStays
    <2> QED
      BY <1>3, <2>2 DEF TimeInv, Exported
  <1> QED
    BY <1>2, <1>10, <1>11, <1>12, <1>13, <1>14 DEF TimeInv

LEMMA FinishTimes ==
  ASSUME Inv, TimeInv, NEW g \in Generators, NEW t \in Threads, NEW status \in {"ok", "error"},
         Finish(g, t, status), NEW copied \in BOOLEAN,
         InContext(t, copied, Restored(gen[g].previous)), Inv'
  PROVE  TimeInv'
  <1>1. PICK id \in Made : id = gen[g].span /\ gen[g].at = "open"
    BY DEF Finish, Inv, ContextsOK
  <1>2. /\ gen' = [gen EXCEPT ![g].at = "done"] /\ blocks' = blocks
        /\ stored' = stored \cup {[i \in DOMAIN records[id] |-> spans'[records[id][i]]]}
    BY <1>1 DEF Finish, EndTrace
  <1>3. /\ gen'[g].at = "done" /\ gen'[g].span = id /\ gen'[g].previous = gen[g].previous
        /\ \A h \in Generators \ {g} : gen'[h] = gen[h]
    BY <1>1, <1>2 DEF Inv, Types
  <1>4. Ending(id)
    BY <1>1, SpanEnds DEF Finish, EndTrace
  <1>5. Stream(g) /\ Foreign(id) /\ spans[id].parent = 0 /\ spans[id].ended = -1
    <2>1. Stream(g) /\ Foreign(id) /\ id # 0
      BY <1>1 DEF TimeInv, Streams, Foreign, Made
    <2> QED
      BY <1>1, <2>1 DEF Stream
  <1>6. Timed' /\ Rising' /\ Kids' /\ \A x : Foreign(x)' <=> Foreign(x)
    BY <1>1, <1>3, <1>4, <1>5, EndsKids
  <1>7. Placed'
    <2>1. ASSUME NEW h \in Generators PROVE Foreign(gen[h].previous)'
      <3>1. PICK a : a = gen'[h].previous
        OBVIOUS
      <3>2. Foreign(a)
        BY <1>3, <3>1 DEF TimeInv, Placed
      <3>3. Foreign(a)'
        BY <1>6, <3>2
      <3> QED
        BY <3>1, <3>3 DEF Foreign
    <2>2. PICK a : a = gen[g].previous
      OBVIOUS
    <2>3. Foreign(a)' /\ InContext(t, copied, a)
      BY <1>6, <2>2 DEF TimeInv, Placed, Restored
    <2>4. \A s \in Made : spans'[s].parent = spans[s].parent
      BY <1>4 DEF Ending
    <2> QED
      BY <1>2, <1>6, <2>1, <2>3, <2>4, GeneratorPlaced DEF TimeInv
  <1>8. Streams'
    <2>1. \A h \in Generators : gen[h].span = id => h = g
      BY <1>1, <1>5 DEF Stream, Made
    <2>2. \A h \in Generators : gen'[h].span = gen[h].span /\ (gen'[h].at = gen[h].at \/ gen'[h].at = "done")
      BY <1>1, <1>3
    <2> QED
      BY <1>2, <1>3, <1>4, <2>1, <2>2, EndsStreams DEF TimeInv
  <1>9. Held'
    <2>1. \A s : InBlock(s)' <=> InBlock(s)
      BY <1>2 DEF InBlock
    <2> QED
      BY <1>4, <1>5, <1>6, <2>1 DEF TimeInv, Held, Ending
  <1>10. Exported'
    BY <1>1, <1>2, <1>3, <1>4, <1>5, <1>6, <1>8, EndsExported
  <1> QED
    BY <1>6, <1>7, <1>8, <1>9, <1>10 DEF TimeInv

LEMMA TimeInvInit == Init => TimeInv
  <1> SUFFICES ASSUME Init PROVE TimeInv
    OBVIOUS
  <1>1. Len(spans) = 0 /\ Made = {} /\ Known = {0}
    BY DEF Init, Made, Known
  <1>2. Timed /\ Held /\ Kids /\ Exported
    BY <1>1 DEF Init, Timed, Held, Kids, Exported
  <1>3. Rising
    BY <1>1 DEF Init, Rising
  <1>4. Foreign(0)
    BY DEF Foreign
  <1>5. Placed
    BY <1>4 DEF Init, Placed, Below
  <1>6. Streams
    BY <1>1 DEF Init, Streams, Stream
  <1> QED
    BY <1>2, <1>3, <1>5, <1>6 DEF TimeInv

LEMMA TimeInvStep == Inv /\ TimeInv /\ [Next]_vars /\ Inv' => TimeInv'
  <1> SUFFICES ASSUME Inv, TimeInv, [Next]_vars, Inv' PROVE TimeInv'
    OBVIOUS
  <1>1. ASSUME UNCHANGED <<spans, tracer, ambient, blocks, gen>>, clock' = clock \/ clock' = clock + 1
        PROVE  TimeInv'
    <2>1. clock \in Nat /\ clock <= clock'
      BY <1>1 DEF Inv, Types
    <2>2. Timed'
      <3>1. Made' = Made /\ spans' = spans
        BY <1>1 DEF Made
      <3>2. ASSUME NEW s \in Made
            PROVE  /\ spans[s].id = s /\ spans[s].began \in Nat /\ spans[s].began <= clock'
                   /\ spans[s].ended = -1 \/ (spans[s].ended \in Nat
                         /\ spans[s].began <= spans[s].ended /\ spans[s].ended <= clock')
        BY <1>1, <2>1 DEF TimeInv, Timed
      <3> QED
        BY <3>1, <3>2 DEF TimeInv, Timed
    <2>3. Rising' /\ Held' /\ Kids'
      BY <1>1 DEF TimeInv, Rising, Held, Kids, Sequential, InBlock, Foreign, Made, tracer
    <2>4. Placed' /\ Streams'
      BY <1>1 DEF TimeInv, Placed, Below, Streams, Stream, Foreign, Made, Known, tracer
    <2>5. Exported'
      BY <1>1 DEF TimeInv, Exported, Export, Streamed, Made, tracer
    <2> QED
      BY <2>2, <2>3, <2>4, <2>5 DEF TimeInv
  <1>2. CASE Tick
    BY <1>1, <1>2 DEF Tick
  <1>3. CASE UNCHANGED vars
    BY <1>1, <1>3 DEF vars
  <1>4. ASSUME NEW t \in Threads, OpenTrace(t) \/ OpenSpan(t) PROVE TimeInv'
    <2>1. PICK new : new = NewId
      OBVIOUS
    <2>2. Enter(t) /\ clock' = clock
      BY <1>4 DEF OpenTrace, OpenSpan, Enter
    <2>3. blocks[t] # <<>> => spans[Top(t).span].ended = -1
      BY <1>4 DEF OpenTrace, OpenSpan
    <2>4. CASE BeginTrace
      <3>1. Making(new, 0) /\ Rising' /\ Grows /\ Len(spans') = Len(spans) + 1
        BY <2>1, <2>2, <2>4, TraceMakes, TraceBegun DEF TimeInv, Inv
      <3>2. Timed'
        BY <3>1, MakesTimed DEF TimeInv
      <3> QED
        BY <2>1, <2>2, <2>3, <3>1, <3>2, EnterTimes
    <2>5. CASE ambient[t] # 0 /\ BeginChild(ambient[t])
      <3>1. PICK p \in Made : p = ambient[t]
        BY <2>5, IdsAndMade DEF Inv, ContextsOK, Made, Known
      <3>2. BeginChild(p)
        BY <2>5, <3>1
      <3>3. Making(new, p) /\ Rising'
        BY <2>1, <2>2, <3>2, ChildMakes DEF TimeInv
      <3>4. Grows /\ Len(spans') = Len(spans) + 1
        BY <2>1, <3>2, ChildBegun DEF Inv
      <3>5. Timed'
        BY <3>3, MakesTimed DEF TimeInv
      <3> QED
        BY <2>1, <2>2, <2>3, <3>1, <3>3, <3>4, <3>5, EnterTimes
    <2> QED
      BY <1>4, <2>4, <2>5 DEF OpenTrace, OpenSpan
  <1>5. ASSUME NEW t \in Threads, FinishEarly(t) \/ Leave(t) PROVE TimeInv'
    BY <1>5, TopTimes
  <1>6. ASSUME NEW t \in Threads, NEW g \in Generators, Begin(g, t) PROVE TimeInv'
    BY <1>6, BeginTimes
  <1>7. ASSUME NEW t \in Threads, NEW g \in Generators, End(g, t) PROVE TimeInv'
    <2>1. PICK status \in {"ok", "error"} : Finish(g, t, status)
      BY <1>7 DEF End
    <2>2. PICK copied \in BOOLEAN : InContext(t, copied, Restored(gen[g].previous))
      BY <1>7 DEF End
    <2> QED
      BY <2>1, <2>2, FinishTimes
  <1>8. ASSUME NEW t \in Threads, NEW g \in Generators, Finalise(g, t) PROVE TimeInv'
    <2>1. Finish(g, t, "ok") /\ InContext(t, FALSE, Restored(gen[g].previous))
      BY <1>8 DEF Finalise
    <2> QED
      BY <2>1, FinishTimes
  <1> QED
    BY <1>2, <1>3, <1>4, <1>5, <1>6, <1>7, <1>8 DEF Next

LEMMA TimeInvHolds == Spec => []TimeInv
  BY InvInit, InvStep, TimeInvInit, TimeInvStep, PTL DEF Spec

-----------------------------------------------------------------------------
(* Induction: a set that is not all of Nat would have a least number outside. *)

LEMMA UpFromZero ==
  ASSUME NEW G, 0 \in G, \A n \in Nat : n \in G => n + 1 \in G
  PROVE  Nat \subseteq G
  <1> SUFFICES ASSUME Nat \ G # {} PROVE FALSE
    OBVIOUS
  <1>1. PICK m \in Nat \ G : \A n \in Nat \ G : ~(<<n, m>> \in OpToRel(<, Nat))
    BY NatLessThanWellFounded, WFMin
  <1>2. m \in Nat /\ m # 0
    OBVIOUS
  <1>3. m - 1 \in Nat /\ m - 1 < m /\ (m - 1) + 1 = m
    BY <1>2
  <1>4. m - 1 \in G
    BY <1>1, <1>3 DEF OpToRel
  <1> QED
    BY <1>1, <1>3, <1>4

LEMMA OneLess ==
  ASSUME NEW S, IsFiniteSet(S), NEW x \in S, NEW n \in Nat, Cardinality(S) = n + 1
  PROVE  IsFiniteSet(S \ {x}) /\ Cardinality(S \ {x}) = n
  <1>1. IsFiniteSet(S \ {x}) /\ Cardinality(S \ {x}) = Cardinality(S) - 1
    BY FS_RemoveElement
  <1>2. (n + 1) - 1 = n
    OBVIOUS
  <1> QED
    BY <1>1, <1>2

LEMMA SetBySet ==
  ASSUME NEW S, IsFiniteSet(S), NEW G,
         {} \in G, \A A \in SUBSET S : A \in G => \A x \in S \ A : A \cup {x} \in G
  PROVE  S \in G
  <1> DEFINE N == {n \in Nat : \A A \in SUBSET S : Cardinality(A) = n => A \in G}
  <1>1. \A A \in SUBSET S : IsFiniteSet(A) /\ Cardinality(A) \in Nat
    BY FS_Subset, FS_CardinalityType
  <1>2. 0 \in N
    BY <1>1, FS_EmptySet
  <1>3. ASSUME NEW n \in Nat, n \in N PROVE n + 1 \in N
    <2> SUFFICES ASSUME NEW A \in SUBSET S, Cardinality(A) = n + 1 PROVE A \in G
      OBVIOUS
    <2>1. PICK x \in A : TRUE
      BY <1>1, FS_EmptySet
    <2>2. Cardinality(A \ {x}) = n /\ A \ {x} \in SUBSET S
      BY <1>1, FS_RemoveElement
    <2>3. A \ {x} \in G
      BY <1>3, <2>2
    <2>4. (A \ {x}) \cup {x} = A /\ x \in S \ (A \ {x})
      OBVIOUS
    <2> QED
      BY <2>2, <2>3, <2>4
  <1> HIDE DEF N
  <1>4. Nat \subseteq N
    BY <1>2, <1>3, UpFromZero
  <1> QED
    BY <1>1, <1>4 DEF N

-----------------------------------------------------------------------------
(* Sums *)

Pick(s) == CHOOSE x \in s : TRUE
SumsUp(g, f, S) == g = [s \in SUBSET S |-> IF s = {} THEN 0 ELSE f[Pick(s)] + g[s \ {Pick(s)}]]

LEMMA PickIn ==
  ASSUME NEW s, s # {} PROVE Pick(s) \in s
  BY DEF Pick

\* The recursion of the fold has a solution: one that is right for the sets of n
\* elements gives one that is right for those of n + 1.
LEMMA SumExists ==
  ASSUME NEW S, IsFiniteSet(S), NEW f
  PROVE  \E g : SumsUp(g, f, S)
  <1> DEFINE Onward(g) == [s \in SUBSET S |-> IF s = {} THEN 0 ELSE f[Pick(s)] + g[s \ {Pick(s)}]]
             Right(g, n) == g = [s \in SUBSET S |-> g[s]]
                            /\ \A s \in SUBSET S : Cardinality(s) <= n => g[s] = Onward(g)[s]
             N == {n \in Nat : \E g : Right(g, n)}
  <1>1. \A A \in SUBSET S : IsFiniteSet(A) /\ Cardinality(A) \in Nat
    BY FS_Subset, FS_CardinalityType
  <1>2. 0 \in N
    <2> DEFINE z == [s \in SUBSET S |-> 0]
    <2>1. ASSUME NEW s \in SUBSET S, Cardinality(s) <= 0 PROVE z[s] = Onward(z)[s]
      <3>1. s = {}
        BY <1>1, <2>1, FS_EmptySet
      <3> QED
        BY <3>1
    <2> QED
      BY <2>1
  <1>3. ASSUME NEW n \in Nat, n \in N PROVE n + 1 \in N
    <2>1. PICK g : Right(g, n)
      BY <1>3
    <2> DEFINE h == Onward(g)
    <2>2. ASSUME NEW s \in SUBSET S, Cardinality(s) <= n + 1 PROVE h[s] = Onward(h)[s]
      <3>1. CASE s = {}
        BY <3>1
      <3>2. CASE s # {}
        <4> DEFINE r == s \ {Pick(s)}
        <4>1. r \in SUBSET S /\ Cardinality(r) <= n
          BY <1>1, <2>2, <3>2, PickIn, FS_RemoveElement
        <4>2. g[r] = h[r]
          BY <2>1, <4>1
        <4> HIDE DEF r
        <4>3. h[s] = f[Pick(s)] + g[r] /\ Onward(h)[s] = f[Pick(s)] + h[r]
          BY <3>2 DEF r
        <4> QED
          BY <4>2, <4>3
      <3> QED
        BY <3>1, <3>2
    <2>3. h = [s \in SUBSET S |-> h[s]]
      OBVIOUS
    <2>4. Right(h, n + 1)
      BY <2>2, <2>3
    <2>5. \E x : Right(x, n + 1)
      <3> HIDE DEF h, Right, Onward
      <3> QED
        BY <2>4
    <2> HIDE DEF h, Right, Onward
    <2> QED
      BY <2>5
  <1>4. Nat \subseteq N
    BY <1>2, <1>3, UpFromZero
  <1>5. PICK g : Right(g, Cardinality(S))
    BY <1>1, <1>4
  <1>6. \A s \in SUBSET S : g[s] = Onward(g)[s]
    BY <1>5, FS_Subset
  <1>7. g = Onward(g)
    BY <1>5, <1>6
  <1> QED
    BY <1>7 DEF SumsUp

LEMMA SumUnfolds ==
  ASSUME NEW S, IsFiniteSet(S), NEW f
  PROVE  \E g : SumsUp(g, f, S) /\ SumFunctionOnSet(f, S) = g[S]
  <1> DEFINE G == CHOOSE g : SumsUp(g, f, S)
  <1>1. SumsUp(G, f, S)
    BY SumExists
  <1>2. SumFunctionOnSet(f, S) = G[S]
    BY DEF SumFunctionOnSet, FoldFunctionOnSet, MapThenFoldSet, SumsUp, Pick
  <1> QED
    BY <1>1, <1>2

LEMMA SumIsUnique ==
  ASSUME NEW S, NEW T, IsFiniteSet(S), T \subseteq S, NEW f, NEW g, NEW h,
         SumsUp(g, f, S), SumsUp(h, f, T)
  PROVE  g[T] = h[T]
  <1> DEFINE N == {n \in Nat : \A s \in SUBSET T : Cardinality(s) = n => g[s] = h[s]}
  <1>1. \A A \in SUBSET T : IsFiniteSet(A) /\ Cardinality(A) \in Nat
    BY FS_Subset, FS_CardinalityType
  <1>2. \A s \in SUBSET T : /\ g[s] = IF s = {} THEN 0 ELSE f[Pick(s)] + g[s \ {Pick(s)}]
                            /\ h[s] = IF s = {} THEN 0 ELSE f[Pick(s)] + h[s \ {Pick(s)}]
    BY DEF SumsUp
  <1>3. 0 \in N
    BY <1>1, <1>2, FS_EmptySet
  <1>4. ASSUME NEW n \in Nat, n \in N PROVE n + 1 \in N
    <2> SUFFICES ASSUME NEW s \in SUBSET T, Cardinality(s) = n + 1 PROVE g[s] = h[s]
      OBVIOUS
    <2>1. s # {}
      BY FS_EmptySet
    <2> DEFINE r == s \ {Pick(s)}
    <2>2. r \in SUBSET T /\ Cardinality(r) = n
      <3>1. PICK z \in s : z = Pick(s)
        BY <2>1, PickIn
      <3> QED
        BY <1>1, <3>1, OneLess
    <2>3. g[r] = h[r]
      BY <1>4, <2>2
    <2> QED
      BY <1>2, <2>1, <2>3
  <1> HIDE DEF N
  <1>5. Nat \subseteq N
    BY <1>3, <1>4, UpFromZero
  <1> QED
    BY <1>1, <1>5 DEF N

LEMMA SumEmpty ==
  ASSUME NEW f PROVE SumFunctionOnSet(f, {}) = 0
  <1>1. PICK g : SumsUp(g, f, {}) /\ SumFunctionOnSet(f, {}) = g[{}]
    BY SumUnfolds, FS_EmptySet
  <1> QED
    BY <1>1 DEF SumsUp

LEMMA SumPicked ==
  ASSUME NEW S, IsFiniteSet(S), S # {}, NEW f
  PROVE  SumFunctionOnSet(f, S) = f[Pick(S)] + SumFunctionOnSet(f, S \ {Pick(S)})
  <1> DEFINE T == S \ {Pick(S)}
  <1>1. PICK g : SumsUp(g, f, S) /\ SumFunctionOnSet(f, S) = g[S]
    BY SumUnfolds
  <1>2. IsFiniteSet(T)
    BY FS_Subset
  <1>3. PICK h : SumsUp(h, f, T) /\ SumFunctionOnSet(f, T) = h[T]
    BY <1>2, SumUnfolds
  <1>4. g[T] = h[T]
    BY <1>1, <1>3, SumIsUnique
  <1>5. g[S] = f[Pick(S)] + g[T]
    BY <1>1 DEF SumsUp
  <1> QED
    BY <1>1, <1>3, <1>4, <1>5

LEMMA SumIsInt ==
  ASSUME NEW S, IsFiniteSet(S), NEW f, \A x \in S : f[x] \in Int
  PROVE  SumFunctionOnSet(f, S) \in Int
  <1> DEFINE N == {n \in Nat : \A s \in SUBSET S : Cardinality(s) = n => SumFunctionOnSet(f, s) \in Int}
  <1>1. \A A \in SUBSET S : IsFiniteSet(A) /\ Cardinality(A) \in Nat
    BY FS_Subset, FS_CardinalityType
  <1>2. 0 \in N
    <2> SUFFICES ASSUME NEW s \in SUBSET S, Cardinality(s) = 0 PROVE SumFunctionOnSet(f, s) \in Int
      OBVIOUS
    <2>1. s = {}
      BY <1>1, FS_EmptySet
    <2> QED
      BY <2>1, SumEmpty
  <1>3. ASSUME NEW n \in Nat, n \in N PROVE n + 1 \in N
    <2> SUFFICES ASSUME NEW s \in SUBSET S, Cardinality(s) = n + 1 PROVE SumFunctionOnSet(f, s) \in Int
      OBVIOUS
    <2>1. s # {} /\ IsFiniteSet(s)
      BY <1>1, FS_EmptySet
    <2>2. Pick(s) \in s
      BY <2>1, PickIn
    <2>3. s \ {Pick(s)} \in SUBSET S /\ Cardinality(s \ {Pick(s)}) = n
      BY <1>1, <2>2, OneLess
    <2>4. SumFunctionOnSet(f, s \ {Pick(s)}) \in Int
      BY <1>3, <2>3
    <2>5. SumFunctionOnSet(f, s) = f[Pick(s)] + SumFunctionOnSet(f, s \ {Pick(s)})
      BY <2>1, SumPicked
    <2> QED
      BY <2>2, <2>4, <2>5
  <1> HIDE DEF N
  <1>4. Nat \subseteq N
    BY <1>2, <1>3, UpFromZero
  <1> QED
    BY <1>1, <1>4 DEF N

\* The order in which the elements are picked does not matter.
LEMMA SumWithout ==
  ASSUME NEW S, IsFiniteSet(S), NEW x \in S, NEW f, \A y \in S : f[y] \in Int
  PROVE  SumFunctionOnSet(f, S) = f[x] + SumFunctionOnSet(f, S \ {x})
  <1> DEFINE Sum(s) == SumFunctionOnSet(f, s)
             N == {n \in Nat : \A s \in SUBSET S : Cardinality(s) = n =>
                                 \A y \in s : Sum(s) = f[y] + Sum(s \ {y})}
  <1>1. \A A \in SUBSET S : IsFiniteSet(A) /\ Cardinality(A) \in Nat /\ Sum(A) \in Int
    BY FS_Subset, FS_CardinalityType, SumIsInt
  <1>2. 0 \in N
    BY <1>1, FS_EmptySet
  <1>3. ASSUME NEW n \in Nat, n \in N PROVE n + 1 \in N
    <2> SUFFICES ASSUME NEW s \in SUBSET S, Cardinality(s) = n + 1, NEW y \in s
        PROVE  Sum(s) = f[y] + Sum(s \ {y})
      OBVIOUS
    <2>1. s # {} /\ IsFiniteSet(s)
      BY <1>1
    <2>2. PICK z \in s : z = Pick(s)
      BY <2>1, PickIn
    <2>3. Sum(s) = f[z] + Sum(s \ {z})
      BY <2>1, <2>2, SumPicked
    <2>4. CASE z = y
      BY <2>3, <2>4
    <2>5. CASE z # y
      <3>0. Cardinality(s \ {z}) = n /\ Cardinality(s \ {y}) = n
        BY <2>1, OneLess
      <3>1. /\ s \ {z} \in SUBSET S /\ Cardinality(s \ {z}) = n /\ y \in s \ {z}
            /\ s \ {y} \in SUBSET S /\ Cardinality(s \ {y}) = n /\ z \in s \ {y}
        BY <2>5, <3>0
      <3>2. Sum(s \ {z}) = f[y] + Sum((s \ {z}) \ {y})
        BY <1>3, <3>1
      <3>3. Sum(s \ {y}) = f[z] + Sum((s \ {y}) \ {z})
        BY <1>3, <3>1
      <3>4. (s \ {z}) \ {y} = (s \ {y}) \ {z} /\ (s \ {y}) \ {z} \in SUBSET S
        OBVIOUS
      <3> DEFINE rest == Sum((s \ {y}) \ {z})
      <3>5. rest \in Int /\ f[y] \in Int /\ f[z] \in Int
        BY <1>1, <3>4
      <3>6. Sum(s \ {z}) = f[y] + rest
        BY <3>2, <3>4
      <3> HIDE DEF rest
      <3>7. Sum(s \ {y}) = f[z] + rest
        BY <3>3 DEF rest
      <3> HIDE DEF Sum
      <3> QED
        BY <2>3, <3>5, <3>6, <3>7
    <2> QED
      BY <2>4, <2>5
  <1> HIDE DEF N
  <1>4. Nat \subseteq N
    BY <1>2, <1>3, UpFromZero
  <1> QED
    BY <1>1, <1>4 DEF N

LEMMA SumWith ==
  ASSUME NEW S, IsFiniteSet(S), NEW x, x \notin S, NEW f, \A y \in S \cup {x} : f[y] \in Int
  PROVE  SumFunctionOnSet(f, S \cup {x}) = f[x] + SumFunctionOnSet(f, S)
  <1>1. IsFiniteSet(S \cup {x}) /\ (S \cup {x}) \ {x} = S
    BY FS_AddElement
  <1> QED
    BY <1>1, SumWithout

LEMMA SumSame ==
  ASSUME NEW S, IsFiniteSet(S), NEW f, NEW h, \A x \in S : f[x] \in Int /\ h[x] = f[x]
  PROVE  SumFunctionOnSet(f, S) = SumFunctionOnSet(h, S)
  <1> DEFINE G == {A \in SUBSET S : SumFunctionOnSet(f, A) = SumFunctionOnSet(h, A)}
  <1>1. {} \in G
    BY SumEmpty
  <1>2. ASSUME NEW A \in SUBSET S, A \in G, NEW x \in S \ A PROVE A \cup {x} \in G
    <2>1. IsFiniteSet(A) /\ \A y \in A \cup {x} : f[y] \in Int /\ h[y] \in Int
      BY FS_Subset
    <2>2. /\ SumFunctionOnSet(f, A \cup {x}) = f[x] + SumFunctionOnSet(f, A)
          /\ SumFunctionOnSet(h, A \cup {x}) = h[x] + SumFunctionOnSet(h, A)
      BY <2>1, SumWith
    <2> QED
      BY <1>2, <2>2
  <1> HIDE DEF G
  <1>3. S \in G
    BY <1>1, <1>2, SetBySet
  <1> QED
    BY <1>3 DEF G

\* A larger function has the larger sum, and a sum of numbers is one.
LEMMA SumLarger ==
  ASSUME NEW S, IsFiniteSet(S), NEW f, NEW h, \A x \in S : f[x] \in Int /\ h[x] \in Int /\ f[x] <= h[x]
  PROVE  SumFunctionOnSet(f, S) <= SumFunctionOnSet(h, S)
  <1> DEFINE G == {A \in SUBSET S : SumFunctionOnSet(f, A) <= SumFunctionOnSet(h, A)}
  <1>1. {} \in G
    BY SumEmpty
  <1>2. ASSUME NEW A \in SUBSET S, A \in G, NEW x \in S \ A PROVE A \cup {x} \in G
    <2>1. IsFiniteSet(A) /\ \A y \in A \cup {x} : f[y] \in Int /\ h[y] \in Int
      BY FS_Subset
    <2>2. /\ SumFunctionOnSet(f, A \cup {x}) = f[x] + SumFunctionOnSet(f, A)
          /\ SumFunctionOnSet(h, A \cup {x}) = h[x] + SumFunctionOnSet(h, A)
          /\ SumFunctionOnSet(f, A) \in Int /\ SumFunctionOnSet(h, A) \in Int
      BY <2>1, SumWith, SumIsInt
    <2>3. f[x] \in Int /\ h[x] \in Int /\ f[x] <= h[x]
      OBVIOUS
    <2> QED
      BY <1>2, <2>2, <2>3
  <1> HIDE DEF G
  <1>3. S \in G
    BY <1>1, <1>2, SetBySet
  <1> QED
    BY <1>3 DEF G

LEMMA SumIsNat ==
  ASSUME NEW S, IsFiniteSet(S), NEW f, \A x \in S : f[x] \in Nat
  PROVE  SumFunctionOnSet(f, S) \in Nat
  <1> DEFINE z == [x \in S |-> 0]
             G == {A \in SUBSET S : SumFunctionOnSet(f, A) \in Nat}
  <1>1. {} \in G
    BY SumEmpty
  <1>2. ASSUME NEW A \in SUBSET S, A \in G, NEW x \in S \ A PROVE A \cup {x} \in G
    <2>1. IsFiniteSet(A) /\ \A y \in A \cup {x} : f[y] \in Int
      BY FS_Subset
    <2>2. SumFunctionOnSet(f, A \cup {x}) = f[x] + SumFunctionOnSet(f, A)
      BY <2>1, SumWith
    <2>3. f[x] \in Nat
      OBVIOUS
    <2> QED
      BY <1>2, <2>2, <2>3
  <1> HIDE DEF G
  <1>3. S \in G
    BY <1>1, <1>2, SetBySet
  <1> QED
    BY <1>3 DEF G

LEMMA SumOfBoth ==
  ASSUME NEW S, IsFiniteSet(S), NEW T \in SUBSET S, NEW f, \A x \in S : f[x] \in Int
  PROVE  SumFunctionOnSet(f, S) = SumFunctionOnSet(f, T) + SumFunctionOnSet(f, S \ T)
  <1> DEFINE Sum(s) == SumFunctionOnSet(f, s)
             G == {A \in SUBSET (S \ T) : Sum(T \cup A) = Sum(T) + Sum(A)}
  <1>0. /\ \A A \in SUBSET S : IsFiniteSet(A) /\ Sum(A) \in Int
        /\ IsFiniteSet(S \ T)
    BY FS_Subset, SumIsInt
  <1>1. {} \in G
    <2>1. T \cup {} = T /\ Sum(T) \in Int /\ Sum({}) = 0
      BY <1>0, SumEmpty
    <2> HIDE DEF Sum
    <2> QED
      BY <2>1
  <1>2. ASSUME NEW A \in SUBSET (S \ T), A \in G, NEW x \in (S \ T) \ A PROVE A \cup {x} \in G
    <2>1. IsFiniteSet(A) /\ \A y \in A \cup {x} : f[y] \in Int
      BY <1>0
    <2>2. Sum(A \cup {x}) = f[x] + Sum(A)
      BY <2>1, SumWith
    <2>3. /\ IsFiniteSet(T \cup A) /\ x \notin T \cup A
          /\ \A y \in (T \cup A) \cup {x} : f[y] \in Int
      BY <1>0
    <2>4. Sum((T \cup A) \cup {x}) = f[x] + Sum(T \cup A)
      BY <2>3, SumWith
    <2>5. f[x] \in Int /\ Sum(A) \in Int /\ Sum(T) \in Int
      BY <1>0
    <2>6. (T \cup A) \cup {x} = T \cup (A \cup {x})
      OBVIOUS
    <2>7. Sum(T \cup (A \cup {x})) = Sum(T) + Sum(A \cup {x})
      <3>1. Sum(T \cup A) = Sum(T) + Sum(A)
        BY <1>2
      <3>2. Sum(T \cup (A \cup {x})) = f[x] + Sum(T \cup A)
        BY <2>4, <2>6
      <3> HIDE DEF Sum
      <3> QED
        BY <2>2, <2>5, <3>1, <3>2
    <2> QED
      BY <2>7
  <1> HIDE DEF G
  <1>3. S \ T \in G
    BY <1>0, <1>1, <1>2, SetBySet
  <1>4. T \cup (S \ T) = S
    OBVIOUS
  <1> QED
    BY <1>3, <1>4 DEF G

-----------------------------------------------------------------------------
(* The smaller and the larger of two numbers *)

LEMMA MinOfTwo ==
  ASSUME NEW a \in Int, NEW b \in Int
  PROVE  Min({a, b}) \in {a, b} /\ Min({a, b}) <= a /\ Min({a, b}) <= b
  <1> DEFINE P(m) == m \in {a, b} /\ \A n \in {a, b} : m <= n
  <1>1. P(a) \/ P(b)
    OBVIOUS
  <1>2. Min({a, b}) = CHOOSE m : P(m)
    <2> HIDE DEF P
    <2>1. \A m : P(m) <=> (m \in {a, b} /\ \A n \in {a, b} : m <= n)
      BY DEF P
    <2> QED
      BY <2>1 DEF Min
  <1> HIDE DEF P
  <1>3. P(CHOOSE m : P(m))
    BY <1>1
  <1>4. P(Min({a, b}))
    BY <1>2, <1>3
  <1> QED
    BY <1>4 DEF P

LEMMA MaxOfTwo ==
  ASSUME NEW a \in Int, NEW b \in Int
  PROVE  Max({a, b}) \in {a, b} /\ Max({a, b}) >= a /\ Max({a, b}) >= b
  <1> DEFINE P(m) == m \in {a, b} /\ \A n \in {a, b} : m >= n
  <1>1. P(a) \/ P(b)
    OBVIOUS
  <1>2. Max({a, b}) = CHOOSE m : P(m)
    <2> HIDE DEF P
    <2>1. \A m : P(m) <=> (m \in {a, b} /\ \A n \in {a, b} : m >= n)
      BY DEF P
    <2> QED
      BY <2>1 DEF Max
  <1> HIDE DEF P
  <1>3. P(CHOOSE m : P(m))
    BY <1>1
  <1>4. P(Max({a, b}))
    BY <1>2, <1>3
  <1> QED
    BY <1>4 DEF P

LEMMA MaxWithZero ==
  ASSUME NEW y \in Nat PROVE Max({0, y}) = y
  <1>1. Max({0, y}) \in {0, y} /\ Max({0, y}) >= y
    BY MaxOfTwo
  <1> QED
    BY <1>1

-----------------------------------------------------------------------------
(* A breakdown adds up *)

\* A trace all of whose spans have ended: the spans below one lie within it, one after another.
InTurnWithin(x) ==
  /\ \A i \in DOMAIN x : x[i].began \in Int /\ x[i].ended \in Int /\ ~IsOpen(x[i]) /\ x[i].began <= x[i].ended
  /\ \A i \in DOMAIN x : \A c \in ChildrenOf(x, x[i]) :
       /\ x[i].began <= x[c].began /\ x[c].ended <= x[i].ended
       /\ \A d \in ChildrenOf(x, x[i]) : c < d => x[c].ended <= x[d].began

IsTree(x) ==
  /\ DOMAIN x = 1 .. Len(x) /\ Len(x) \in Nat \ {0}
  /\ \A i, j \in DOMAIN x : x[i].id = x[j].id => i = j
  /\ \A i \in DOMAIN x : i # 1 <=> \E j \in DOMAIN x : x[i].parent = x[j].id

LEMMA ChildrenFit ==
  ASSUME NEW x, IsTree(x), InTurnWithin(x), NEW i \in DOMAIN x
  PROVE  /\ \A j \in DOMAIN x : Durations(x)[j] = x[j].ended - x[j].began /\ Durations(x)[j] \in Nat
         /\ ChildrenOf(x, x[i]) \subseteq DOMAIN x /\ IsFiniteSet(ChildrenOf(x, x[i]))
         /\ SumFunctionOnSet(Durations(x), ChildrenOf(x, x[i])) \in Nat
         /\ SumFunctionOnSet(Durations(x), ChildrenOf(x, x[i])) <= Durations(x)[i]
  <1> DEFINE C == ChildrenOf(x, x[i])
             dur == Durations(x)
             Upto(k) == C \cap (1 .. k)
             Sum(s) == SumFunctionOnSet(dur, s)
             Fits(k) == \A u \in Int : x[i].began <= u /\ (\A c \in Upto(k) : x[c].ended <= u) =>
                          Sum(Upto(k)) <= u - x[i].began
             N == {k \in Nat : Fits(k)}
  <1>1. \A j \in DOMAIN x : /\ dur[j] = x[j].ended - x[j].began /\ dur[j] \in Nat
                            /\ x[j].began \in Int /\ x[j].ended \in Int
    <2> SUFFICES ASSUME NEW j \in DOMAIN x
        PROVE  /\ dur[j] = x[j].ended - x[j].began /\ dur[j] \in Nat
               /\ x[j].began \in Int /\ x[j].ended \in Int
      OBVIOUS
    <2>1. x[j].began \in Int /\ x[j].ended \in Int /\ x[j].began <= x[j].ended
      BY DEF InTurnWithin
    <2>2. dur[j] = x[j].ended - x[j].began
      BY DEF InTurnWithin, Durations, Duration
    <2> HIDE DEF dur
    <2> QED
      BY <2>1, <2>2
  <1>2. C \subseteq DOMAIN x
    BY DEF ChildrenOf
  <1>3. IsFiniteSet(C) /\ \A k \in Nat : IsFiniteSet(Upto(k)) /\ Upto(k) \subseteq C
    <2>1. IsFiniteSet(DOMAIN x)
      BY FS_Interval DEF IsTree
    <2> QED
      BY <1>2, <2>1, FS_Subset
  <1>4. \A s \in SUBSET C : IsFiniteSet(s) /\ Sum(s) \in Nat
    BY <1>1, <1>2, <1>3, FS_Subset, SumIsNat
  <1>5. 0 \in N
    <2>1. Upto(0) = {} /\ Sum(Upto(0)) = 0
      <3>1. Upto(0) = {}
        OBVIOUS
      <3> HIDE DEF Upto
      <3> QED
        BY <3>1, SumEmpty
    <2> HIDE DEF Sum, Upto
    <2>2. x[i].began \in Int
      BY <1>1
    <2> QED
      BY <2>1, <2>2
  <1>6. ASSUME NEW k \in Nat, k \in N PROVE k + 1 \in N
    <2> SUFFICES Fits(k + 1)
      <3> HIDE DEF Fits
      <3> QED
        OBVIOUS
    <2> SUFFICES ASSUME NEW u \in Int, x[i].began <= u, \A c \in Upto(k + 1) : x[c].ended <= u
        PROVE  Sum(Upto(k + 1)) <= u - x[i].began
      OBVIOUS
    <2>1. C \subseteq Nat
      BY <1>2 DEF IsTree
    <2>2. CASE k + 1 \notin C
      <3>1. Upto(k + 1) = Upto(k)
        BY <2>1, <2>2
      <3> HIDE DEF Sum, Upto
      <3> QED
        BY <1>6, <3>1
    <2>3. CASE k + 1 \in C
      <3>1. /\ Upto(k + 1) = Upto(k) \cup {k + 1} /\ k + 1 \notin Upto(k)
            /\ \A c \in Upto(k) : c < k + 1 /\ c \in C
        BY <2>1, <2>3
      <3>2. IsFiniteSet(Upto(k)) /\ \A y \in Upto(k) \cup {k + 1} : dur[y] \in Int
        BY <1>1, <1>2, <1>3, <2>3
      <3>3. Sum(Upto(k + 1)) = dur[k + 1] + Sum(Upto(k))
        BY <3>1, <3>2, SumWith
      <3> DEFINE b == x[k + 1].began
      <3>4. /\ x[i].began <= b /\ (\A c \in Upto(k) : x[c].ended <= b)
            /\ x[i].began \in Int /\ b \in Int /\ x[k + 1].ended \in Int
            /\ dur[k + 1] = x[k + 1].ended - b
        BY <1>1, <1>2, <2>3, <3>1 DEF InTurnWithin
      <3>5. Sum(Upto(k)) <= b - x[i].began /\ Sum(Upto(k)) \in Nat /\ x[k + 1].ended <= u
        <4>1. Upto(k) \in SUBSET C /\ k + 1 \in Upto(k + 1)
          BY <2>3
        <4>2. Sum(Upto(k)) \in Nat /\ x[k + 1].ended <= u
          BY <1>4, <4>1
        <4> HIDE DEF b, Sum, Upto
        <4> QED
          BY <1>6, <3>4, <4>2
      <3> HIDE DEF Sum, Upto, b, dur
      <3> QED
        BY <3>3, <3>4, <3>5
    <2> QED
      BY <2>2, <2>3
  <1>7. Nat \subseteq N
    <2> HIDE DEF N
    <2> QED
      BY <1>5, <1>6, UpFromZero
  <1>8. Upto(Len(x)) = C /\ Len(x) \in Nat
    BY <1>2 DEF IsTree
  <1>9. Sum(C) <= x[i].ended - x[i].began
    <2>1. \A c \in C : x[c].ended <= x[i].ended
      BY DEF InTurnWithin
    <2>2. x[i].began <= x[i].ended /\ x[i].ended \in Int
      BY DEF InTurnWithin
    <2> HIDE DEF Sum, Upto, C
    <2> QED
      BY <1>7, <1>8, <2>1, <2>2
  <1> QED
    BY <1>1, <1>2, <1>3, <1>4, <1>9

\* What is left of the spans of S after their children: the time of S less that of the children.
LEMMA ExclusivesTelescope ==
  ASSUME NEW x, IsTree(x), InTurnWithin(x),
         NEW exc, exc = [i \in DOMAIN x |-> Exclusive(x, x[i])]
  PROVE  /\ \A i \in DOMAIN x : exc[i] \in Nat
         /\ SumFunctionOnSet(exc, DOMAIN x) =
              SumFunctionOnSet(Durations(x), DOMAIN x) - SumFunctionOnSet(Durations(x), DOMAIN x \ {1})
  <1> DEFINE D == DOMAIN x
             dur == Durations(x)
             Sum(s) == SumFunctionOnSet(dur, s)
             Exc(s) == SumFunctionOnSet(exc, s)
             Under(s) == UNION {ChildrenOf(x, x[j]) : j \in s}
             G == {s \in SUBSET D : Exc(s) = Sum(s) - Sum(Under(s))}
  <1>1. IsFiniteSet(D) /\ \A s \in SUBSET D : IsFiniteSet(s) /\ Under(s) \in SUBSET D
    <2>1. IsFiniteSet(D)
      BY FS_Interval DEF IsTree
    <2>2. \A s \in SUBSET D : Under(s) \in SUBSET D
      BY DEF ChildrenOf
    <2> QED
      BY <2>1, <2>2, FS_Subset
  <1>2. ASSUME NEW i \in D
        PROVE  /\ exc[i] = dur[i] - Sum(ChildrenOf(x, x[i])) /\ exc[i] \in Nat
               /\ dur[i] \in Nat /\ Sum(ChildrenOf(x, x[i])) \in Nat
    <2> DEFINE c == Sum(ChildrenOf(x, x[i]))
    <2>1. dur[i] \in Nat /\ c \in Nat /\ c <= dur[i]
      BY ChildrenFit
    <2>2. ~IsOpen(x[i]) /\ exc[i] = Exclusive(x, x[i]) /\ dur[i] = Duration(x[i])
      BY DEF InTurnWithin, Durations
    <2>3. exc[i] = Max({0, dur[i] - c})
      BY <2>2 DEF Exclusive
    <2> HIDE DEF dur, c
    <2>4. dur[i] - c \in Nat
      BY <2>1
    <2>5. exc[i] = dur[i] - c
      BY <2>3, <2>4, MaxWithZero
    <2> QED
      BY <2>1, <2>4, <2>5 DEF c
  <1>3. \A s \in SUBSET D : Sum(s) \in Nat /\ Exc(s) \in Nat
    BY <1>1, <1>2, SumIsNat
  <1>4. {} \in G
    <2>1. Under({}) = {} /\ Exc({}) = 0 /\ Sum({}) = 0
      BY SumEmpty
    <2> HIDE DEF Exc, Sum, Under
    <2> QED
      BY <2>1
  <1>5. ASSUME NEW s \in SUBSET D, s \in G, NEW i \in D \ s PROVE s \cup {i} \in G
    <2> DEFINE C == ChildrenOf(x, x[i])
    <2>1. Under(s \cup {i}) \ C = Under(s) /\ C \in SUBSET Under(s \cup {i})
      <3>1. ASSUME NEW c \in Under(s), c \in C PROVE FALSE
        <4>1. PICK j \in s : c \in ChildrenOf(x, x[j])
          OBVIOUS
        <4>2. x[c].parent = x[j].id /\ x[c].parent = x[i].id
          BY <3>1, <4>1 DEF ChildrenOf
        <4> QED
          BY <4>2 DEF IsTree
      <3>2. Under(s \cup {i}) = Under(s) \cup C
        OBVIOUS
      <3> QED
        BY <3>1, <3>2
    <2>2. s \cup {i} \in SUBSET D /\ Under(s \cup {i}) \in SUBSET D /\ IsFiniteSet(Under(s \cup {i}))
      BY <1>1
    <2>3. Sum(Under(s \cup {i})) = Sum(C) + Sum(Under(s))
      <3>1. \A y \in Under(s \cup {i}) : dur[y] \in Int
        BY <1>2, <2>2
      <3> DEFINE B == Under(s \cup {i})
      <3>2. IsFiniteSet(B) /\ C \in SUBSET B /\ B \ C = Under(s) /\ \A y \in B : dur[y] \in Int
        BY <2>1, <2>2, <3>1
      <3> HIDE DEF B, C, dur
      <3>3. SumFunctionOnSet(dur, B) = SumFunctionOnSet(dur, C) + SumFunctionOnSet(dur, B \ C)
        BY <3>2, SumOfBoth
      <3> QED
        BY <3>2, <3>3 DEF B
    <2>4. Sum(s \cup {i}) = dur[i] + Sum(s) /\ Exc(s \cup {i}) = exc[i] + Exc(s)
      <3>1. IsFiniteSet(s) /\ i \notin s /\ \A y \in s \cup {i} : dur[y] \in Int /\ exc[y] \in Int
        BY <1>1, <1>2
      <3> QED
        BY <3>1, SumWith
    <2>5. /\ Sum(s) \in Nat /\ Exc(s) \in Nat /\ Sum(Under(s)) \in Nat /\ dur[i] \in Nat
          /\ Sum(C) \in Nat /\ exc[i] = dur[i] - Sum(C)
      BY <1>1, <1>2, <1>3
    <2>6. Exc(s) = Sum(s) - Sum(Under(s))
      BY <1>5
    <2>7. Exc(s \cup {i}) = Sum(s \cup {i}) - Sum(Under(s \cup {i}))
      <3> HIDE DEF Sum, Exc, Under, C, dur
      <3> QED
        BY <2>3, <2>4, <2>5, <2>6
    <2> QED
      BY <2>2, <2>7
  <1>6. D \in G
    <2> HIDE DEF G
    <2> QED
      BY <1>1, <1>4, <1>5, SetBySet
  <1>7. Under(D) = D \ {1}
    <2>1. ASSUME NEW c \in D PROVE c \in Under(D) <=> c # 1
      BY DEF IsTree, ChildrenOf
    <2> QED
      BY <1>1, <2>1
  <1> QED
    BY <1>2, <1>6, <1>7

LEMMA TreeAddsUp ==
  ASSUME NEW x, IsTree(x), InTurnWithin(x)
  PROVE  Breakdown(x) = Duration(x[1])
  <1> DEFINE exc == [i \in DOMAIN x |-> Exclusive(x, x[i])]
             dur == Durations(x)
             rest == SumFunctionOnSet(dur, DOMAIN x \ {1})
  <1>1. SumFunctionOnSet(exc, DOMAIN x) = SumFunctionOnSet(dur, DOMAIN x) - rest
    BY ExclusivesTelescope
  <1>2. 1 \in DOMAIN x /\ IsFiniteSet(DOMAIN x) /\ IsFiniteSet(DOMAIN x \ {1})
    <2>1. 1 \in DOMAIN x /\ IsFiniteSet(DOMAIN x)
      BY FS_Interval DEF IsTree
    <2> QED
      BY <2>1, FS_Subset
  <1>3. \A j \in DOMAIN x : dur[j] \in Nat
    BY ChildrenFit
  <1>4. SumFunctionOnSet(dur, DOMAIN x) = dur[1] + rest
    BY <1>2, <1>3, SumWithout
  <1>5. rest \in Nat /\ dur[1] \in Nat
    BY <1>2, <1>3, SumIsNat
  <1>6. Breakdown(x) = SumFunctionOnSet(exc, DOMAIN x) /\ dur[1] = Duration(x[1])
    BY <1>2 DEF Breakdown, Durations
  <1> HIDE DEF exc, dur, rest
  <1> QED
    BY <1>1, <1>4, <1>5, <1>6

-----------------------------------------------------------------------------
(* Exported traces *)

\* An exported trace is a tree, and meets what TreeAddsUp asks for once its spans have all ended.
LEMMA ExportIsTree ==
  ASSUME NEW x, Export(x)
  PROVE  /\ IsTree(x) /\ 1 \in DOMAIN x
         /\ \A i \in DOMAIN x : x[i] \in Span /\ x[i].id # 0
  <1>1. /\ x \in Seq(Span) /\ DOMAIN x = 1 .. Len(x) /\ Len(x) \in Nat \ {0} /\ 1 \in DOMAIN x
        /\ \A i \in DOMAIN x : x[i] \in Span
    BY EmptySeq, LenProperties, ElementOfSeq DEF Export
  <1>2. \A i \in DOMAIN x : x[i].id \in Nat /\ x[i].id # 0
    <2>1. x[1].id # 0
      BY DEF Export, Made
    <2>2. ASSUME NEW i \in DOMAIN x, i # 1 PROVE x[i].id # 0
      <3>1. 1 < i
        BY <1>1, <2>2
      <3>2. x[1].id < x[i].id /\ x[1].id \in Nat /\ x[i].id \in Nat
        BY <1>1, <3>1 DEF Export, Span
      <3> QED
        BY <3>2
    <2> QED
      BY <1>1, <2>1, <2>2 DEF Span
  <1>3. ASSUME NEW i \in DOMAIN x, NEW j \in DOMAIN x, x[i].id = x[j].id PROVE i = j
    <2>1. (i < j => x[i].id < x[j].id) /\ (j < i => x[j].id < x[i].id)
      BY DEF Export
    <2>2. i \in Nat /\ j \in Nat
      BY <1>1
    <2> QED
      BY <1>2, <1>3, <2>1, <2>2
  <1>4. IsTree(x)
    BY <1>1, <1>2, <1>3 DEF IsTree, Export
  <1> QED
    BY <1>1, <1>2, <1>4

LEMMA ExportFits ==
  ASSUME NEW x, Export(x), \A i \in DOMAIN x : ~IsOpen(x[i]), Streamed(x) => InTurn(x)
  PROVE  InTurnWithin(x)
  <1>1. \A i \in DOMAIN x : /\ x[i].began \in Int /\ x[i].ended \in Int /\ x[i].began <= x[i].ended
                            /\ \A c \in ChildrenOf(x, x[i]) : c \in DOMAIN x
    BY ExportIsTree DEF Span, Export, ChildrenOf
  <1>2. ASSUME NEW i \in DOMAIN x, NEW c \in ChildrenOf(x, x[i])
        PROVE  x[i].began <= x[c].began /\ x[c].ended <= x[i].ended
    <2>1. i < c /\ c \in DOMAIN x
      BY <1>1 DEF Export
    <2> QED
      BY <2>1 DEF Export
  <1>3. ASSUME NEW i \in DOMAIN x, NEW c \in ChildrenOf(x, x[i]), NEW d \in ChildrenOf(x, x[i]), c < d
        PROVE  x[c].ended <= x[d].began
    <2>1. CASE i = 1 /\ Streamed(x)
      BY <1>3, <2>1 DEF InTurn
    <2>2. CASE ~(i = 1 /\ Streamed(x))
      BY <1>1, <1>3, <2>2 DEF Export
    <2> QED
      BY <2>1, <2>2
  <1> QED
    BY <1>1, <1>2, <1>3 DEF InTurnWithin

-----------------------------------------------------------------------------
(* The theorem about breakdowns *)

\* However threads, blocks, generators and their finalisation mix, the exclusive times of
\* an exported trace whose spans have all ended add up to the time of its root; of a
\* stream's, when no two of its consumers' spans below the root overlapped (trace.py:215).
THEOREM BreakdownsAddUp == Spec => []BreakdownAddsUp
  <1>1. TimeInv => BreakdownAddsUp
    BY ExportIsTree, ExportFits, TreeAddsUp DEF TimeInv, Exported, BreakdownAddsUp
  <1> QED
    BY <1>1, TimeInvHolds, PTL

-----------------------------------------------------------------------------
(* Sizes *)

LEMMA SameSize ==
  ASSUME NEW S, IsFiniteSet(S), NEW T, NEW f, \A x \in S : f[x] \in T,
         \A y \in T : \E x \in S : f[x] = y, \A x, y \in S : f[x] = f[y] => x = y
  PROVE  IsFiniteSet(T) /\ Cardinality(T) = Cardinality(S)
  <1> DEFINE g == [x \in S |-> f[x]]
  <1>1. g \in [S -> T] /\ \A x \in S : g[x] = f[x]
    OBVIOUS
  <1>2. IsInjective(g)
    BY DEF IsInjective
  <1> HIDE DEF g
  <1>3. g \in Bijection(S, T)
    BY <1>1, <1>2 DEF Bijection, Injection, Surjection
  <1>4. ExistsBijection(S, T)
    BY <1>3 DEF ExistsBijection
  <1> QED
    BY <1>4, FS_Bijection

LEMMA ImageIsFinite ==
  ASSUME NEW S, IsFiniteSet(S), NEW T, NEW f, \A x \in S : f[x] \in T,
         \A y \in T : \E x \in S : f[x] = y
  PROVE  IsFiniteSet(T)
  <1> DEFINE g == [x \in S |-> f[x]]
  <1>1. g \in [S -> T] /\ \A x \in S : g[x] = f[x]
    OBVIOUS
  <1> HIDE DEF g
  <1>2. g \in Surjection(S, T)
    BY <1>1 DEF Surjection
  <1> QED
    BY <1>2, FS_Surjection

LEMMA LeastKey ==
  ASSUME NEW S, IsFiniteSet(S), S # {}, NEW key, \A x \in S : key[x] \in Int
  PROVE  \E x \in S : \A y \in S : key[x] <= key[y]
  <1> DEFINE Least(A, x) == \A y \in A : key[x] <= key[y]
             G == {A \in SUBSET S : A # {} => \E x \in A : Least(A, x)}
  <1>1. {} \in G
    OBVIOUS
  <1>2. ASSUME NEW A \in SUBSET S, A \in G, NEW x \in S \ A PROVE A \cup {x} \in G
    <2>1. CASE A = {}
      <3>1. Least(A \cup {x}, x)
        BY <2>1
      <3> QED
        BY <3>1
    <2>2. CASE A # {}
      <3>1. PICK z \in A : Least(A, z)
        BY <1>2, <2>2
      <3>2. key[z] \in Int /\ key[x] \in Int /\ \A y \in A : key[y] \in Int
        OBVIOUS
      <3>3. CASE key[x] <= key[z]
        <4>1. Least(A \cup {x}, x)
          BY <3>1, <3>2, <3>3
        <4> QED
          BY <4>1
      <3>4. CASE key[z] <= key[x]
        <4>1. Least(A \cup {x}, z)
          BY <3>1, <3>2, <3>4
        <4> QED
          BY <4>1
      <3> QED
        BY <3>2, <3>3, <3>4
    <2> QED
      BY <2>1, <2>2
  <1> HIDE DEF G
  <1>3. S \in G
    BY <1>1, <1>2, SetBySet
  <1> QED
    BY <1>3 DEF G

-----------------------------------------------------------------------------
(* Enumerations in descending order *)

Enumerates(s, n, S, key) ==
  /\ s \in [1 .. n -> S] /\ IsInjective(s)
  /\ \A i, j \in 1 .. n : i < j => key[s[i]] >= key[s[j]]

LEMMA EnumerationExists ==
  ASSUME NEW S, IsFiniteSet(S), NEW key, \A x \in S : key[x] \in Int
  PROVE  \E s : Enumerates(s, Cardinality(S), S, key)
  <1> DEFINE N == {n \in Nat : \A A \in SUBSET S : Cardinality(A) = n => \E s : Enumerates(s, n, A, key)}
  <1>1. \A A \in SUBSET S : IsFiniteSet(A) /\ Cardinality(A) \in Nat
    BY FS_Subset, FS_CardinalityType
  <1>2. 0 \in N
    <2>1. ASSUME NEW A PROVE Enumerates(<<>>, 0, A, key)
      <3>1. 1 .. 0 = {}
        OBVIOUS
      <3>2. <<>> \in [{} -> A] /\ DOMAIN <<>> = {}
        OBVIOUS
      <3> QED
        BY <3>1, <3>2 DEF Enumerates, IsInjective
    <2> QED
      BY <2>1
  <1>3. ASSUME NEW n \in Nat, n \in N PROVE n + 1 \in N
    <2> SUFFICES ASSUME NEW A \in SUBSET S, Cardinality(A) = n + 1
        PROVE  \E s : Enumerates(s, n + 1, A, key)
      OBVIOUS
    <2>1. PICK x \in A : \A y \in A : key[x] <= key[y]
      <3>1. A # {} /\ IsFiniteSet(A) /\ \A y \in A : key[y] \in Int
        BY <1>1, FS_EmptySet
      <3> QED
        BY <3>1, LeastKey
    <2>2. A \ {x} \in SUBSET S /\ Cardinality(A \ {x}) = n
      BY <1>1, OneLess
    <2>3. PICK s : Enumerates(s, n, A \ {x}, key)
      BY <1>3, <2>2
    <2> DEFINE r == [i \in 1 .. n + 1 |-> IF i = n + 1 THEN x ELSE s[i]]
    <2>4. \A i \in 1 .. n + 1 : i = n + 1 \/ (i \in 1 .. n /\ i < n + 1)
      OBVIOUS
    <2>5. /\ r[n + 1] = x /\ n + 1 \in 1 .. n + 1 /\ DOMAIN r = 1 .. n + 1
          /\ \A i \in 1 .. n : i \in 1 .. n + 1 /\ r[i] = s[i] /\ s[i] \in A \ {x}
      BY <2>3 DEF Enumerates
    <2>6. r \in [1 .. n + 1 -> A]
      BY <2>4, <2>5
    <2> HIDE DEF r
    <2>7. IsInjective(r)
      <3>1. \A i, j \in 1 .. n : s[i] = s[j] => i = j
        BY <2>3 DEF Enumerates, IsInjective
      <3> QED
        BY <2>4, <2>5, <3>1 DEF IsInjective
    <2>8. ASSUME NEW i \in 1 .. n + 1, NEW j \in 1 .. n + 1, i < j PROVE key[r[i]] >= key[r[j]]
      <3>1. i \in 1 .. n /\ r[i] \in A
        BY <2>4, <2>5, <2>8
      <3>2. CASE j = n + 1
        <4>1. key[r[i]] \in Int /\ key[x] \in Int /\ key[x] <= key[r[i]]
          BY <2>1, <3>1
        <4> QED
          BY <2>5, <3>2, <4>1
      <3>3. CASE j \in 1 .. n
        BY <2>3, <2>5, <2>8, <3>1, <3>3 DEF Enumerates
      <3> QED
        BY <2>4, <3>2, <3>3
    <2> QED
      BY <2>6, <2>7, <2>8 DEF Enumerates
  <1> HIDE DEF N
  <1>4. Nat \subseteq N
    BY <1>2, <1>3, UpFromZero
  <1> QED
    BY <1>1, <1>4 DEF N

LEMMA DescendingEnumerates ==
  ASSUME NEW S, IsFiniteSet(S), NEW key, \A x \in S : key[x] \in Int
  PROVE  /\ Enumerates(Descending(S, key), Cardinality(S), S, key)
         /\ Len(Descending(S, key)) = Cardinality(S)
  <1> DEFINE n == Cardinality(S)
  <1>1. n \in Nat
    BY FS_CardinalityType
  <1>2. \A s \in [1 .. n -> S] : Enumerates(s, n, S, key) <=>
          IsInjective(s) /\ \A i, j \in DOMAIN s : i < j => key[s[i]] >= key[s[j]]
    BY DEF Enumerates
  <1>3. Descending(S, key) = CHOOSE s \in [1 .. n -> S] :
          IsInjective(s) /\ \A i, j \in DOMAIN s : i < j => key[s[i]] >= key[s[j]]
    BY DEF Descending
  <1>4. PICK s \in [1 .. n -> S] : Enumerates(s, n, S, key)
    BY EnumerationExists DEF Enumerates
  <1> HIDE DEF n
  <1>5. Enumerates(Descending(S, key), n, S, key)
    BY <1>2, <1>3, <1>4
  <1>6. Descending(S, key) \in [1 .. n -> S]
    BY <1>5 DEF Enumerates
  <1>7. Len(Descending(S, key)) = n
    BY <1>1, <1>6
  <1> QED
    BY <1>5, <1>7 DEF n

LEMMA EnumeratesAll ==
  ASSUME NEW S, IsFiniteSet(S), NEW n, n = Cardinality(S), NEW key, NEW s, Enumerates(s, n, S, key)
  PROVE  \A x \in S : \E i \in 1 .. n : s[i] = x
  <1> DEFINE T == {s[i] : i \in 1 .. n}
  <1>1. n \in Nat /\ IsFiniteSet(1 .. n) /\ Cardinality(1 .. n) = n
    <2>1. n \in Nat
      BY FS_CardinalityType
    <2> QED
      BY <2>1, FS_Interval
  <1>2. T \in SUBSET S /\ \A i, j \in 1 .. n : s[i] = s[j] => i = j
    BY DEF Enumerates, IsInjective
  <1>3. (\A i \in 1 .. n : s[i] \in T) /\ \A y \in T : \E i \in 1 .. n : s[i] = y
    OBVIOUS
  <1> HIDE DEF T
  <1>4. Cardinality(T) = n
    <2>1. PICK D : D = 1 .. n
      OBVIOUS
    <2>2. /\ IsFiniteSet(D) /\ Cardinality(D) = n /\ \A i, j \in D : s[i] = s[j] => i = j
          /\ (\A i \in D : s[i] \in T) /\ \A y \in T : \E i \in D : s[i] = y
      BY <1>1, <1>2, <1>3, <2>1
    <2> QED
      BY <2>2, SameSize
  <1>5. S = T
    BY <1>2, <1>4, FS_Subset
  <1> QED
    BY <1>3, <1>5

-----------------------------------------------------------------------------
(* Percentiles *)

\* What is smaller than the k-th from the end of the descending order is after it.
LEMMA FewAreSmaller ==
  ASSUME NEW n \in Nat \ {0}, NEW values, \A i \in 1 .. n : values[i] \in Int,
         NEW order, Enumerates(order, n, 1 .. n, values), NEW k \in 0 .. n - 1
  PROVE  Cardinality({i \in 1 .. n : values[i] < values[order[n - k]]}) <= k
  <1> DEFINE last == n - k + 1 .. n
             image == {order[j] : j \in last}
             fewer == {i \in 1 .. n : values[i] < values[order[n - k]]}
  <1>1. /\ IsFiniteSet(1 .. n) /\ Cardinality(1 .. n) = n
        /\ IsFiniteSet(last) /\ Cardinality(last) = k
    BY FS_Interval
  <1>2. last \subseteq 1 .. n /\ n - k \in 1 .. n
    OBVIOUS
  <1>3. IsFiniteSet(image) /\ Cardinality(image) = k
    <2>1. \A i, j \in last : order[i] = order[j] => i = j
      BY <1>2 DEF Enumerates, IsInjective
    <2>2. (\A j \in last : order[j] \in image) /\ \A y \in image : \E j \in last : order[j] = y
      OBVIOUS
    <2> HIDE DEF last, image
    <2> QED
      BY <1>1, <2>1, <2>2, SameSize
  <1>4. fewer \subseteq image
    <2> SUFFICES ASSUME NEW i \in 1 .. n, values[i] < values[order[n - k]] PROVE i \in image
      OBVIOUS
    <2>1. \A m \in 1 .. n : \E j \in 1 .. n : order[j] = m
      <3>1. PICK S : S = 1 .. n
        OBVIOUS
      <3>2. IsFiniteSet(S) /\ n = Cardinality(S) /\ Enumerates(order, n, S, values)
        BY <1>1, <3>1
      <3>3. \A m \in S : \E j \in 1 .. n : order[j] = m
        BY <3>2, EnumeratesAll
      <3> QED
        BY <3>1, <3>3
    <2>2. PICK j \in 1 .. n : order[j] = i
      BY <2>1
    <2>3. order[n - k] \in 1 .. n
      BY <1>2 DEF Enumerates
    <2>4. values[i] \in Int /\ values[order[n - k]] \in Int
      BY <2>3
    <2>5. j # n - k
      BY <2>2, <2>4
    <2>6. ~(j < n - k)
      <3> SUFFICES ASSUME j < n - k PROVE FALSE
        OBVIOUS
      <3>1. values[order[j]] >= values[order[n - k]]
        BY <1>2, <2>2 DEF Enumerates
      <3> QED
        BY <2>2, <2>4, <3>1
    <2>7. j \in last
      BY <2>5, <2>6
    <2> QED
      BY <2>2, <2>7
  <1>5. IsFiniteSet(fewer) /\ Cardinality(fewer) <= Cardinality(image)
    BY <1>3, <1>4, FS_Subset
  <1> QED
    BY <1>3, <1>5

LEMMA PercentileBounds ==
  ASSUME NEW n \in Nat \ {0}, NEW values, values \in [1 .. n -> Int],
         NEW q \in {<<1, 2>>, <<19, 20>>}
  PROVE  Cardinality({i \in DOMAIN values : values[i] < Percentile(values, q)}) * q[2]
           <= q[1] * Len(values)
  <1> DEFINE order == Descending(1 .. n, values)
             d == (q[1] * n) \div q[2]
             k == Min({n - 1, d})
             fewer == {i \in 1 .. n : values[i] < values[order[n - k]]}
  <1>1. DOMAIN values = 1 .. n /\ Len(values) = n
    OBVIOUS
  <1>2. IsFiniteSet(1 .. n) /\ Cardinality(1 .. n) = n
    BY FS_Interval
  <1>3. Enumerates(order, n, 1 .. n, values)
    BY <1>1, <1>2, DescendingEnumerates
  <1>4. /\ (q[1] * n) \div q[2] \in Nat /\ k \in 0 .. n - 1
        /\ k * q[2] <= q[1] * n
    <2>1. d \in Nat /\ d * q[2] <= q[1] * n
      <3>1. CASE q = <<1, 2>>
        <4>1. q[1] = 1 /\ q[2] = 2
          BY <3>1
        <4> QED
          BY <4>1
      <3>2. CASE q = <<19, 20>>
        <4>1. q[1] = 19 /\ q[2] = 20
          BY <3>2
        <4> QED
          BY <4>1
      <3> QED
        BY <3>1, <3>2
    <2>2. k \in {n - 1, d} /\ k <= n - 1 /\ k <= d
      <3> HIDE DEF d
      <3>1. n - 1 \in Int /\ d \in Int
        BY <2>1
      <3> QED
        BY <3>1, MinOfTwo
    <2>3. k \in 0 .. n - 1
      <3> HIDE DEF d, k
      <3> QED
        BY <2>1, <2>2
    <2>4. k * q[2] <= d * q[2]
      <3>1. q[2] = 2 \/ q[2] = 20
        OBVIOUS
      <3> HIDE DEF d, k
      <3> QED
        BY <2>1, <2>2, <2>3, <3>1
    <2>5. k * q[2] <= q[1] * n
      <3>1. (q[1] = 1 /\ q[2] = 2) \/ (q[1] = 19 /\ q[2] = 20)
        OBVIOUS
      <3> HIDE DEF d, k
      <3> QED
        BY <2>1, <2>3, <2>4, <3>1
    <2> QED
      BY <2>1, <2>3, <2>5
  <1>5. Cardinality(fewer) <= k /\ Cardinality(fewer) \in Nat
    <2>1. \A i \in 1 .. n : values[i] \in Int
      OBVIOUS
    <2>2. IsFiniteSet(fewer)
      BY <1>2, FS_Subset
    <2> HIDE DEF order, k
    <2> QED
      BY <1>3, <1>4, <2>1, <2>2, FewAreSmaller, FS_CardinalityType
  <1>6. fewer = {i \in DOMAIN values : values[i] < Percentile(values, q)}
    BY <1>1 DEF Percentile
  <1>7. (q[1] = 1 /\ q[2] = 2) \/ (q[1] = 19 /\ q[2] = 20)
    OBVIOUS
  <1> DEFINE f == Cardinality(fewer)
  <1>8. f * q[2] <= q[1] * n
    <2> HIDE DEF f, k, fewer
    <2>1. f <= k /\ f \in Nat
      BY <1>5 DEF f
    <2> QED
      BY <1>4, <1>7, <2>1
  <1> QED
    BY <1>1, <1>6, <1>8

-----------------------------------------------------------------------------
(* Buckets *)

\* The sizes of the classes of a finite set add up to its size.
LEMMA ClassesAddUp ==
  ASSUME NEW R, IsFiniteSet(R), NEW B, IsFiniteSet(B), NEW class, \A r \in R : class[r] \in B,
         NEW here, \A i \in B : \A r : r \in here[i] <=> r \in R /\ class[r] = i,
         NEW f, \A i \in B : f[i] = Cardinality(here[i])
  PROVE  SumFunctionOnSet(f, B) = Cardinality(R)
  <1> DEFINE sizes(A) == [i \in B |-> Cardinality({r \in A : class[r] = i})]
             G == {A \in SUBSET R : SumFunctionOnSet(sizes(A), B) = Cardinality(A)}
  <1>0. \A A \in SUBSET R : IsFiniteSet(A) /\ Cardinality(A) \in Nat
    BY FS_Subset, FS_CardinalityType
  <1>1. \A A \in SUBSET R : \A i \in B : sizes(A)[i] \in Nat
    <2> SUFFICES ASSUME NEW A \in SUBSET R, NEW i \in B PROVE sizes(A)[i] \in Nat
      OBVIOUS
    <2>1. {r \in A : class[r] = i} \in SUBSET R
      OBVIOUS
    <2> QED
      BY <1>0, <2>1
  <1>2. {} \in G
    <2>1. \A i \in B : {r \in {} : class[r] = i} = {}
      OBVIOUS
    <2>2. \A i \in B : sizes({})[i] = 0
      BY <2>1, FS_EmptySet
    <2> DEFINE z == [i \in B |-> 0]
               H == {A \in SUBSET B : SumFunctionOnSet(z, A) = 0}
    <2>3. {} \in H
      BY SumEmpty
    <2>4. ASSUME NEW A \in SUBSET B, A \in H, NEW x \in B \ A PROVE A \cup {x} \in H
      <3>1. IsFiniteSet(A) /\ \A y \in A \cup {x} : z[y] \in Int
        BY FS_Subset
      <3>2. SumFunctionOnSet(z, A \cup {x}) = z[x] + SumFunctionOnSet(z, A)
        BY <3>1, SumWith
      <3> QED
        BY <2>4, <3>2
    <2> HIDE DEF H
    <2>5. B \in H
      BY <2>3, <2>4, SetBySet
    <2>6. SumFunctionOnSet(z, B) = SumFunctionOnSet(sizes({}), B)
      <3>1. \A i \in B : z[i] \in Int /\ sizes({})[i] = z[i]
        BY <2>2
      <3> HIDE DEF z, sizes
      <3> QED
        BY <3>1, SumSame
    <2> QED
      BY <2>5, <2>6, FS_EmptySet DEF H
  <1>3. ASSUME NEW A \in SUBSET R, A \in G, NEW x \in R \ A PROVE A \cup {x} \in G
    <2> DEFINE AX == A \cup {x}
               old == sizes(A)
               new == sizes(AX)
               c == class[x]
    <2>1. c \in B /\ AX \in SUBSET R /\ Cardinality(AX) = Cardinality(A) + 1
      BY <1>0, FS_AddElement
    <2>2. \A i \in B \ {c} : new[i] = old[i]
      <3> SUFFICES ASSUME NEW i \in B \ {c} PROVE {r \in AX : class[r] = i} = {r \in A : class[r] = i}
        OBVIOUS
      <3> QED
        OBVIOUS
    <2>3. new[c] = old[c] + 1
      <3> DEFINE C == {r \in A : class[r] = c}
      <3>1. {r \in AX : class[r] = c} = C \cup {x} /\ x \notin C /\ C \in SUBSET R
        OBVIOUS
      <3>2. Cardinality(C \cup {x}) = Cardinality(C) + 1
        BY <1>0, <3>1, FS_AddElement
      <3>3. new[c] = Cardinality({r \in AX : class[r] = c}) /\ old[c] = Cardinality(C)
        BY <2>1
      <3> QED
        BY <3>1, <3>2, <3>3
    <2>4. \A i \in B : new[i] \in Int /\ old[i] \in Int
      <3>1. \A i \in B : old[i] \in Nat
        <4> HIDE DEF sizes
        <4> QED
          BY <1>1
      <3>2. \A i \in B : new[i] \in Nat
        <4> HIDE DEF sizes
        <4> QED
          BY <1>1, <2>1
      <3> HIDE DEF old, new
      <3> QED
        BY <3>1, <3>2
    <2>5. IsFiniteSet(B \ {c})
      BY FS_Subset
    <2> HIDE DEF new, old
    <2>6. /\ SumFunctionOnSet(new, B) = new[c] + SumFunctionOnSet(new, B \ {c})
          /\ SumFunctionOnSet(old, B) = old[c] + SumFunctionOnSet(old, B \ {c})
      BY <2>1, <2>4, SumWithout
    <2>7. SumFunctionOnSet(new, B \ {c}) = SumFunctionOnSet(old, B \ {c})
      BY <2>2, <2>4, <2>5, SumSame
    <2>8. SumFunctionOnSet(old, B \ {c}) \in Int /\ new[c] \in Int /\ old[c] \in Int
      BY <2>1, <2>4, <2>5, SumIsInt
    <2>9. SumFunctionOnSet(old, B) = Cardinality(A)
      BY <1>3 DEF old
    <2>10. SumFunctionOnSet(new, B) = Cardinality(AX)
      <3> DEFINE a == SumFunctionOnSet(new, B)
                 b == SumFunctionOnSet(old, B)
                 rest == SumFunctionOnSet(old, B \ {c})
      <3>1. a = new[c] + rest /\ b = old[c] + rest /\ b = Cardinality(A) /\ rest \in Int
        BY <2>6, <2>7, <2>8, <2>9
      <3>2. a = b + 1
        <4> HIDE DEF a, b, rest
        <4> QED
          BY <2>3, <2>8, <3>1
      <3> QED
        BY <2>1, <3>1, <3>2
    <2> QED
      BY <2>1, <2>10 DEF new
  <1>4. R \in G
    <2> HIDE DEF G
    <2> QED
      BY <1>2, <1>3, SetBySet
  <1>5. SumFunctionOnSet(sizes(R), B) = SumFunctionOnSet(f, B)
    <2>1. \A i \in B : here[i] = {r \in R : class[r] = i}
      OBVIOUS
    <2>2. \A i \in B : sizes(R)[i] \in Int /\ f[i] = sizes(R)[i]
      BY <1>1, <2>1
    <2> HIDE DEF sizes
    <2> QED
      BY <2>2, SumSame
  <1> QED
    BY <1>4, <1>5

LEMMA Division ==
  ASSUME NEW a \in Int, NEW b \in Nat \ {0}
  PROVE  a \div b \in Int /\ (a \div b) * b <= a /\ (a >= 0 => a \div b >= 0)
  OBVIOUS

LEMMA BucketsFit ==
  ASSUME NEW window \in Nat, NEW now \in Int
  PROVE  /\ BucketSize(window) \in Nat \ {0}
         /\ FirstBucket(now, window) \in Int /\ FirstBucket(now, window) <= now - window
         /\ BucketCount(now, window) \in Nat \ {0}
  <1>1. BucketSize(window) \in Nat \ {0}
    <2> DEFINE d == window \div 60
    <2>1. d \in Int
      OBVIOUS
    <2>2. Max({2, d}) \in {2, d} /\ Max({2, d}) >= 2
      <3> HIDE DEF d
      <3> QED
        BY <2>1, MaxOfTwo
    <2>3. BucketSize(window) = Max({2, d})
      BY DEF BucketSize
    <2> HIDE DEF d
    <2> QED
      BY <2>1, <2>2, <2>3
  <1> DEFINE b == BucketSize(window)
             since == now - window
             k == since \div b
             first == FirstBucket(now, window)
  <1>2. since \in Int /\ b \in Nat \ {0}
    BY <1>1
  <1>3. first = k * b /\ BucketCount(now, window) = (now - first) \div b + 1
    BY DEF FirstBucket, BucketCount
  <1> HIDE DEF b, since, first
  <1>4. k \in Int /\ k * b <= since
    BY <1>2, Division
  <1>5. k * b \in Int
    <2> HIDE DEF k
    <2> QED
      BY <1>2, <1>4
  <1>6. first \in Int /\ first <= since
    BY <1>3, <1>4, <1>5
  <1>7. now - first \in Int /\ now - first >= 0
    BY <1>6 DEF since
  <1> DEFINE last == (now - first) \div b
  <1>8. last \in Int /\ last >= 0
    BY <1>2, <1>7, Division
  <1>9. BucketCount(now, window) = last + 1
    BY <1>3
  <1> HIDE DEF last
  <1>10. BucketCount(now, window) \in Nat \ {0}
    BY <1>8, <1>9
  <1> QED
    BY <1>1, <1>6, <1>10 DEF since, first

LEMMA BucketIn ==
  ASSUME NEW window \in Nat, NEW now \in Int, NEW r, r.began \in Int, r.began >= now - window
  PROVE  Bucket(now, window, r) \in 0 .. BucketCount(now, window) - 1
  <1> DEFINE b == BucketSize(window)
             first == FirstBucket(now, window)
             n == BucketCount(now, window)
             d == (r.began - first) \div b
  <1>1. b \in Nat \ {0} /\ first \in Int /\ first <= now - window /\ n \in Nat \ {0}
    BY BucketsFit
  <1>2. Bucket(now, window, r) = Min({n - 1, d})
    BY DEF Bucket
  <1> HIDE DEF b, first, n
  <1>3. r.began - first \in Int /\ r.began - first >= 0
    BY <1>1
  <1>4. d \in Int /\ d >= 0
    BY <1>1, <1>3, Division
  <1> HIDE DEF d
  <1>5. n - 1 \in Int
    BY <1>1
  <1>6. Min({n - 1, d}) \in {n - 1, d} /\ Min({n - 1, d}) <= n - 1
    BY <1>4, <1>5, MinOfTwo
  <1>7. Min({n - 1, d}) \in 0 .. n - 1
    BY <1>1, <1>4, <1>6
  <1> QED
    BY <1>2, <1>7 DEF n

LEMMA ColumnsAddUp ==
  ASSUME NEW window \in Nat, NEW now \in Int, NEW rows, IsFiniteSet(rows),
         \A r \in rows : r.began \in Int /\ r.began >= now - window,
         NEW series, series = Series(now, window, rows),
         NEW buckets, buckets = {Bucket(now, window, r) : r \in rows}
  PROVE  /\ Column(series, buckets, "requests") = Cardinality(rows)
         /\ Column(series, buckets, "failed") = Cardinality(Failed(rows))
         /\ Column(series, buckets, "retried") = Cardinality(Retried(rows))
  <1> DEFINE n == BucketCount(now, window)
             class == [r \in rows |-> Bucket(now, window, r)]
             here(i) == {r \in rows : Bucket(now, window, r) = i}
             B == DOMAIN series \cap buckets
  <1>1. n \in Nat \ {0}
    BY BucketsFit
  <1>2. /\ DOMAIN series = 0 .. n - 1
        /\ \A i \in DOMAIN series : /\ series[i]["requests"] = Cardinality(here(i))
                                    /\ series[i]["failed"] = Cardinality(Failed(here(i)))
                                    /\ series[i]["retried"] = Cardinality(Retried(here(i)))
    BY DEF Series
  <1>3. IsFiniteSet(B)
    <2>1. IsFiniteSet(0 .. n - 1)
      <3>1. 0 \in Int /\ n - 1 \in Int
        BY <1>1
      <3> HIDE DEF n
      <3> QED
        BY <3>1, FS_Interval
    <2> QED
      BY <1>2, <2>1, FS_Subset
  <1>4. \A r \in rows : class[r] = Bucket(now, window, r) /\ class[r] \in B
    BY <1>2, BucketIn
  <1>5. ASSUME NEW R \in SUBSET rows, NEW field, NEW part,
               \A i \in DOMAIN series : /\ series[i][field] = Cardinality(part[i])
                                        /\ \A r : r \in part[i] <=> r \in R /\ r \in here(i)
        PROVE  Column(series, buckets, field) = Cardinality(R)
    <2> DEFINE f == [i \in DOMAIN series |-> series[i][field]]
    <2>1. IsFiniteSet(R)
      BY FS_Subset
    <2>2. \A r \in R : class[r] \in B
      BY <1>4
    <2>3. \A i \in B : \A r : r \in part[i] <=> r \in R /\ class[r] = i
      BY <1>4, <1>5
    <2>4. \A i \in B : f[i] = Cardinality(part[i])
      BY <1>5
    <2>5. Column(series, buckets, field) = SumFunctionOnSet(f, B)
      BY DEF Column
    <2> HIDE DEF f, B, class
    <2>6. SumFunctionOnSet(f, B) = Cardinality(R)
      BY <1>3, <2>1, <2>2, <2>3, <2>4, ClassesAddUp
    <2> QED
      BY <2>5, <2>6
  <1>6. Column(series, buckets, "requests") = Cardinality(rows)
    <2> DEFINE part == [i \in DOMAIN series |-> here(i)]
    <2>1. \A i \in DOMAIN series : part[i] = here(i) /\ \A r : r \in here(i) => r \in rows
      OBVIOUS
    <2> HIDE DEF part, here
    <2>2. \A i \in DOMAIN series : /\ series[i]["requests"] = Cardinality(part[i])
                                   /\ \A r : r \in part[i] <=> r \in rows /\ r \in here(i)
      BY <1>2, <2>1
    <2> QED
      BY <1>5, <2>2
  <1>7. Column(series, buckets, "failed") = Cardinality(Failed(rows))
    <2> DEFINE part == [i \in DOMAIN series |-> Failed(here(i))]
    <2>1. /\ Failed(rows) \in SUBSET rows
          /\ \A i \in DOMAIN series : /\ part[i] = Failed(here(i))
               /\ \A r : r \in Failed(here(i)) <=> r \in Failed(rows) /\ r \in here(i)
      BY DEF Failed
    <2> HIDE DEF part, here
    <2>2. \A i \in DOMAIN series : /\ series[i]["failed"] = Cardinality(part[i])
                                   /\ \A r : r \in part[i] <=> r \in Failed(rows) /\ r \in here(i)
      BY <1>2, <2>1
    <2> QED
      BY <1>5, <2>1, <2>2
  <1>8. Column(series, buckets, "retried") = Cardinality(Retried(rows))
    <2> DEFINE part == [i \in DOMAIN series |-> Retried(here(i))]
    <2>1. /\ Retried(rows) \in SUBSET rows
          /\ \A i \in DOMAIN series : /\ part[i] = Retried(here(i))
               /\ \A r : r \in Retried(here(i)) <=> r \in Retried(rows) /\ r \in here(i)
      BY DEF Retried
    <2> HIDE DEF part, here
    <2>2. \A i \in DOMAIN series : /\ series[i]["retried"] = Cardinality(part[i])
                                   /\ \A r : r \in part[i] <=> r \in Retried(rows) /\ r \in here(i)
      BY <1>2, <2>1
    <2> QED
      BY <1>5, <2>1, <2>2
  <1> QED
    BY <1>6, <1>7, <1>8

-----------------------------------------------------------------------------
(* Rows *)

\* Only the root of an exported trace has no parent, so the join gives it one row.
Rooted(x) == 1 \in DOMAIN x /\ \A i \in DOMAIN x : x[i].parent = 0 <=> i = 1

LEMMA ExportIsRooted ==
  ASSUME NEW x, Export(x)
  PROVE  Rooted(x)
  BY ExportIsTree DEF Export, Rooted

RowOf(x) == Row(x, x[1])

LEMMA OneRowEach ==
  ASSUME NEW S, \A x \in S : Rooted(x), NEW since
  PROVE  Outcomes(S, since) = {RowOf(x) : x \in {u \in S : u[1].began >= since}}
  <1> DEFINE here == {u \in S : u[1].began >= since}
             rows(x) == {Row(x, x[i]) : i \in {j \in DOMAIN x : x[j].parent = 0}}
  <1>1. \A x \in here : rows(x) = {RowOf(x)}
    <2> SUFFICES ASSUME NEW x \in here PROVE rows(x) = {RowOf(x)}
      OBVIOUS
    <2>1. {j \in DOMAIN x : x[j].parent = 0} = {1}
      BY DEF Rooted
    <2> QED
      BY <2>1 DEF RowOf
  <1>2. Outcomes(S, since) = UNION {rows(x) : x \in here}
    BY DEF Outcomes
  <1> HIDE DEF here, rows
  <1>3. UNION {rows(x) : x \in here} = {RowOf(x) : x \in here}
    BY <1>1
  <1> QED
    BY <1>2, <1>3 DEF here

\* What the theorem about the readers asks of the store.
Readable(S) ==
  /\ IsFiniteSet(S)
  /\ \A x \in S : Export(x) /\ x[1].began >= 0
  /\ \A x, y \in S : x[1].id = y[1].id => x = y

LEMMA InSecondsKeeps ==
  ASSUME NEW x, Export(x)
  PROVE  Rooted(InSeconds(x)) /\ InSeconds(x)[1].began \in Int
  <1>1. /\ 1 \in DOMAIN x /\ DOMAIN InSeconds(x) = DOMAIN x
        /\ \A i \in DOMAIN x : x[i] \in Span
    BY ExportIsTree DEF InSeconds
  <1>2. ASSUME NEW i \in DOMAIN x
        PROVE  InSeconds(x)[i].parent = x[i].parent /\ InSeconds(x)[i].began = 1000 + Pace * x[i].began
    <2>1. PICK s \in Span : s = x[i]
      BY <1>1
    <2>2. InSeconds(x)[i] = [s EXCEPT !.began = 1000 + Pace * @,
                                      !.ended = IF @ = -1 THEN -1 ELSE 1000 + Pace * @]
      BY <2>1 DEF InSeconds
    <2>3. InSeconds(x)[i].parent = s.parent /\ InSeconds(x)[i].began = 1000 + Pace * s.began
      BY <2>2 DEF Span
    <2> QED
      BY <2>1, <2>3
  <1>3. 1000 + Pace * x[1].began \in Int
    <2>1. x[1].began \in Int /\ Pace \in Int
      BY <1>1, ReadersAssumption DEF Span
    <2> QED
      BY <2>1
  <1>4. Rooted(x)
    BY ExportIsRooted
  <1> QED
    BY <1>1, <1>2, <1>3, <1>4 DEF Rooted

LEMMA SeriesAgrees ==
  ASSUME Inv, Readable(stored)
  PROVE  SeriesAddUp
  <1> SUFFICES ASSUME NEW c \in {clock - 1, clock} \cap Nat, NEW window \in Windows
      PROVE  LET shown   == Shown(c, window)
                 series  == Series(shown.now, window, shown.rows)
                 buckets == {Bucket(shown.now, window, r) : r \in shown.rows}
             IN /\ Column(series, buckets, "requests") = Cardinality(shown.rows)
                /\ Column(series, buckets, "failed") = Cardinality(Failed(shown.rows))
                /\ Column(series, buckets, "retried") = Cardinality(Retried(shown.rows))
    BY DEF SeriesAddUp
  <1> DEFINE now == 1000 + Pace * c
             S == {InSeconds(x) : x \in stored}
             here == {u \in S : u[1].began >= now - window}
             rows == Outcomes(S, now - window)
  <1>1. now \in Int /\ window \in Nat
    <2>1. c \in Int /\ Pace \in Int
      BY ReadersAssumption
    <2> QED
      BY <2>1, ReadersAssumption
  <1>2. Shown(c, window).now = now /\ Shown(c, window).rows = rows
    BY DEF Shown
  <1>3. \A u \in S : Rooted(u) /\ u[1].began \in Int
    BY InSecondsKeeps DEF Readable
  <1>4. rows = {RowOf(x) : x \in here}
    <2> HIDE DEF S, now
    <2> QED
      BY <1>3, OneRowEach
  <1>5. IsFiniteSet(rows)
    <2>1. IsFiniteSet(S)
      <3> DEFINE f == [x \in stored |-> InSeconds(x)]
      <3>1. (\A x \in stored : f[x] \in S) /\ \A y \in S : \E x \in stored : f[x] = y
        OBVIOUS
      <3> HIDE DEF f, S
      <3> QED
        BY <3>1, ImageIsFinite DEF Readable
    <2>2. IsFiniteSet(here)
      <3> HIDE DEF S
      <3> QED
        BY <2>1, FS_Subset
    <2> DEFINE f == [x \in here |-> RowOf(x)]
    <2> HIDE DEF here
    <2>3. (\A x \in here : f[x] \in rows) /\ \A y \in rows : \E x \in here : f[x] = y
      BY <1>4
    <2> HIDE DEF f, rows
    <2> QED
      BY <2>2, <2>3, ImageIsFinite
  <1>6. \A r \in rows : r.began \in Int /\ r.began >= now - window
    <2> HIDE DEF S, now, rows
    <2> QED
      BY <1>3, <1>4 DEF RowOf, Row
  <1> HIDE DEF now, S, here, rows
  <1>7. \A series, buckets : series = Series(now, window, rows)
          /\ buckets = {Bucket(now, window, r) : r \in rows} =>
               /\ Column(series, buckets, "requests") = Cardinality(rows)
               /\ Column(series, buckets, "failed") = Cardinality(Failed(rows))
               /\ Column(series, buckets, "retried") = Cardinality(Retried(rows))
    BY <1>1, <1>5, <1>6, ColumnsAddUp
  <1> QED
    BY <1>2, <1>7

LEMMA RowsMatchTraces ==
  ASSUME NEW S, Readable(S), NEW T \in SUBSET S
  PROVE  /\ Outcomes(S, 0) = {RowOf(x) : x \in S}
         /\ IsFiniteSet({RowOf(x) : x \in T}) /\ Cardinality({RowOf(x) : x \in T}) = Cardinality(T)
  <1>1. Outcomes(S, 0) = {RowOf(x) : x \in S}
    <2>1. \A x \in S : Rooted(x)
      BY ExportIsRooted DEF Readable
    <2>2. {u \in S : u[1].began >= 0} = S
      BY DEF Readable
    <2> QED
      BY <2>1, <2>2, OneRowEach
  <1> DEFINE f == [x \in T |-> RowOf(x)]
             rows == {RowOf(x) : x \in T}
  <1>2. \A x, y \in T : f[x] = f[y] => x = y
    <2> SUFFICES ASSUME NEW x \in T, NEW y \in T, RowOf(x) = RowOf(y) PROVE x = y
      OBVIOUS
    <2>1. RowOf(x).id = x[1].id /\ RowOf(y).id = y[1].id
      BY DEF RowOf, Row
    <2> QED
      BY <2>1 DEF Readable
  <1>3. (\A x \in T : f[x] \in rows) /\ \A y \in rows : \E x \in T : f[x] = y
    OBVIOUS
  <1>4. IsFiniteSet(T)
    BY FS_Subset DEF Readable
  <1> HIDE DEF f, rows
  <1>5. IsFiniteSet(rows) /\ Cardinality(rows) = Cardinality(T)
    BY <1>2, <1>3, <1>4, SameSize
  <1> QED
    BY <1>1, <1>5 DEF rows

LEMMA ViewsAreWhole ==
  ASSUME NEW rows, IsFiniteSet(rows), \A r \in rows : r.began \in Int /\ r.duration \in Int
  PROVE  /\ Len(View(Failed(rows), "failed")) = Cardinality(Failed(rows))
         /\ Len(View(rows, "retried")) = Cardinality(Retried(rows))
         /\ View(rows, "slowest") = Descending(rows, [r \in rows |-> r.duration])
  <1>1. ASSUME NEW R \in SUBSET rows
        PROVE  Len(Descending(R, [r \in R |-> r.began])) = Cardinality(R)
    <2> DEFINE key == [r \in R |-> r.began]
    <2>1. IsFiniteSet(R) /\ \A r \in R : key[r] \in Int
      BY FS_Subset
    <2> HIDE DEF key
    <2>2. Len(Descending(R, key)) = Cardinality(R)
      BY <2>1, DescendingEnumerates
    <2> QED
      BY <2>2 DEF key
  <1>2. Failed(rows) \in SUBSET rows /\ Retried(rows) \in SUBSET rows /\ Failed(Failed(rows)) = Failed(rows)
    BY DEF Failed, Retried
  <1>3. /\ View(Failed(rows), "failed") = Descending(Failed(rows), [r \in Failed(rows) |-> r.began])
        /\ View(rows, "retried") = Descending(Retried(rows), [r \in Retried(rows) |-> r.began])
        /\ View(rows, "slowest") = Descending(rows, [r \in rows |-> r.duration])
    BY <1>2 DEF View
  <1> QED
    BY <1>1, <1>2, <1>3

LEMMA RowsOfExports ==
  ASSUME NEW x, Export(x)
  PROVE  /\ RowOf(x).began \in Int /\ RowOf(x).duration \in Int
         /\ RowOf(x).status = Status(x) /\ RowOf(x).status \in {"ok", "error"}
         /\ RowOf(x).outcome # "ok" => Status(x) # "ok"
  <1>1. 1 \in DOMAIN x /\ x[1] \in Span
    BY ExportIsTree
  <1>2. x[1].began \in Int /\ x[1].ended \in Int /\ x[1].status \in {"ok", "error"}
    BY <1>1 DEF Span
  <1>3. /\ RowOf(x).began = x[1].began /\ RowOf(x).duration = Duration(x[1])
        /\ RowOf(x).status = Status(x) /\ RowOf(x).outcome = x[1].status
    BY DEF RowOf, Row
  <1>4. Duration(x[1]) \in Int
    BY <1>2 DEF Duration
  <1>5. Status(x) \in {"ok", "error"} /\ (x[1].status # "ok" => Status(x) # "ok")
    BY <1>1, <1>2 DEF Status
  <1> QED
    BY <1>2, <1>3, <1>4, <1>5

LEMMA ErrorsAgree ==
  ASSUME NEW S, Readable(S), NEW rows, rows = Outcomes(S, 0)
  PROVE  SummaryErrors(S) = Len(View(Failed(rows), "failed")) + Len(View(rows, "retried"))
  <1> DEFINE bad == {x \in S : Status(x) # "ok"}
  <1>1. rows = {RowOf(x) : x \in S} /\ IsFiniteSet(rows)
    BY RowsMatchTraces
  <1>2. Cardinality({RowOf(x) : x \in bad}) = Cardinality(bad)
    <2>1. bad \in SUBSET S
      OBVIOUS
    <2> HIDE DEF bad
    <2> QED
      BY <2>1, RowsMatchTraces
  <1>3. \A x \in S : /\ RowOf(x).began \in Int /\ RowOf(x).duration \in Int
                     /\ RowOf(x).status = Status(x)
                     /\ RowOf(x).outcome # "ok" => Status(x) # "ok"
    BY RowsOfExports DEF Readable
  <1>4. \A r \in rows : r.began \in Int /\ r.duration \in Int
    BY <1>1, <1>3
  <1>5. {RowOf(x) : x \in bad} = Failed(rows) \cup Retried(rows)
    BY <1>1, <1>3 DEF Failed, Retried
  <1>6. IsFiniteSet(Failed(rows)) /\ IsFiniteSet(Retried(rows)) /\ Failed(rows) \cap Retried(rows) = {}
    <2>1. Failed(rows) \in SUBSET rows /\ Retried(rows) \in SUBSET rows /\ Failed(rows) \cap Retried(rows) = {}
      BY DEF Failed, Retried
    <2> QED
      BY <1>1, <2>1, FS_Subset
  <1>7. Cardinality(Failed(rows) \cup Retried(rows)) = Cardinality(Failed(rows)) + Cardinality(Retried(rows))
    <2>1. /\ Cardinality(Failed(rows) \cup Retried(rows)) = Cardinality(Failed(rows))
               + Cardinality(Retried(rows)) - Cardinality(Failed(rows) \cap Retried(rows))
          /\ Cardinality(Failed(rows) \cap Retried(rows)) = 0
      BY <1>6, FS_Union, FS_EmptySet
    <2>2. Cardinality(Failed(rows)) \in Nat /\ Cardinality(Retried(rows)) \in Nat
      BY <1>6, FS_CardinalityType
    <2> QED
      BY <2>1, <2>2
  <1>8. SummaryErrors(S) = Cardinality(bad)
    BY DEF SummaryErrors
  <1> QED
    BY <1>1, <1>2, <1>4, <1>5, <1>7, <1>8, ViewsAreWhole

-----------------------------------------------------------------------------
(* Exclusive times never exceed whole ones. *)

LEMMA BreakdownWithin ==
  ASSUME NEW x, Export(x)
  PROVE  /\ Breakdown(x) \in Int /\ SumFunctionOnSet(Durations(x), DOMAIN x) \in Int
         /\ Breakdown(x) <= SumFunctionOnSet(Durations(x), DOMAIN x)
  <1> DEFINE D == DOMAIN x
             dur == Durations(x)
             exc == [i \in D |-> Exclusive(x, x[i])]
  <1>1. IsFiniteSet(D) /\ \A i \in D : x[i] \in Span
    <2>1. D = 1 .. Len(x) /\ Len(x) \in Nat
      BY ExportIsTree DEF IsTree
    <2>2. IsFiniteSet(1 .. Len(x))
      BY <2>1, FS_Interval
    <2> QED
      BY <2>1, <2>2, ExportIsTree
  <1>2. \A i \in D : dur[i] = Duration(x[i]) /\ dur[i] \in Nat
    <2> SUFFICES ASSUME NEW i \in D PROVE dur[i] = Duration(x[i]) /\ dur[i] \in Nat
      OBVIOUS
    <2>1. dur[i] = Duration(x[i])
      BY DEF Durations
    <2>2. x[i].began \in Int /\ x[i].ended \in Int /\ (~IsOpen(x[i]) => x[i].began <= x[i].ended)
      BY <1>1 DEF Span, Export
    <2>3. Duration(x[i]) \in Nat
      BY <2>2 DEF Duration
    <2> QED
      BY <2>1, <2>3
  <1>3. ASSUME NEW i \in D PROVE exc[i] \in Int /\ dur[i] \in Int /\ exc[i] <= dur[i]
    <2> DEFINE c == SumFunctionOnSet(dur, ChildrenOf(x, x[i]))
    <2>1. c \in Nat
      <3>1. ChildrenOf(x, x[i]) \in SUBSET D
        BY DEF ChildrenOf
      <3> QED
        BY <1>1, <1>2, <3>1, FS_Subset, SumIsNat
    <2>2. exc[i] = IF IsOpen(x[i]) THEN 0 ELSE Max({0, dur[i] - c})
      BY <1>2 DEF Exclusive
    <2>3. dur[i] \in Nat
      BY <1>2
    <2> HIDE DEF c, dur, exc
    <2>4. Max({0, dur[i] - c}) \in {0, dur[i] - c}
      <3>1. dur[i] - c \in Int /\ 0 \in Int
        BY <2>1, <2>3
      <3> QED
        BY <3>1, MaxOfTwo
    <2> QED
      BY <2>1, <2>2, <2>3, <2>4
  <1>4. Breakdown(x) = SumFunctionOnSet(exc, D)
    BY DEF Breakdown
  <1> HIDE DEF exc, dur, D
  <1>5. SumFunctionOnSet(exc, D) \in Int /\ SumFunctionOnSet(dur, D) \in Int
    BY <1>1, <1>3, SumIsInt
  <1>6. SumFunctionOnSet(exc, D) <= SumFunctionOnSet(dur, D)
    BY <1>1, <1>3, SumLarger
  <1> QED
    BY <1>4, <1>5, <1>6 DEF dur, D

LEMMA TotalsAgree ==
  ASSUME NEW S, Readable(S)
  PROVE  BreakdownTotal(S) <= StageTotal(S)
  <1> DEFINE exc == [x \in S |-> Breakdown(x)]
             all == [x \in S |-> SumFunctionOnSet(Durations(x), DOMAIN x)]
  <1>1. \A x \in S : exc[x] \in Int /\ all[x] \in Int /\ exc[x] <= all[x]
    BY BreakdownWithin DEF Readable
  <1>2. BreakdownTotal(S) = SumFunctionOnSet(exc, S) /\ StageTotal(S) = SumFunctionOnSet(all, S)
    BY DEF BreakdownTotal, StageTotal
  <1> HIDE DEF exc, all
  <1> QED
    BY <1>1, <1>2, SumLarger DEF Readable

-----------------------------------------------------------------------------
(* The walk of a trace *)

\* Levels(x, g): g is what Walked computes.
Levels(x, g) ==
  g = [d \in 0 .. Len(x) |->
         IF d = 0 THEN {i \in DOMAIN x : x[i].parent = 0}
         ELSE UNION {ChildrenOf(x, x[i]) : i \in g[d - 1]}]

LEMMA LevelsExist ==
  ASSUME NEW x, Len(x) \in Nat
  PROVE  \E g : Levels(x, g)
  <1> DEFINE Onward(g) == [d \in 0 .. Len(x) |->
                 IF d = 0 THEN {i \in DOMAIN x : x[i].parent = 0}
                 ELSE UNION {ChildrenOf(x, x[i]) : i \in g[d - 1]}]
             Right(g, n) == g = [d \in 0 .. Len(x) |-> g[d]]
                            /\ \A d \in 0 .. Len(x) : d <= n => g[d] = Onward(g)[d]
             N == {n \in Nat : \E g : Right(g, n)}
  <1>1. 0 \in N
    <2> DEFINE z == [d \in 0 .. Len(x) |-> {i \in DOMAIN x : x[i].parent = 0}]
    <2>1. \A d \in 0 .. Len(x) : d <= 0 => z[d] = Onward(z)[d]
      OBVIOUS
    <2>2. z = [d \in 0 .. Len(x) |-> z[d]]
      OBVIOUS
    <2>3. Right(z, 0)
      BY <2>1, <2>2
    <2> HIDE DEF z, Right
    <2> QED
      BY <2>3
  <1>2. ASSUME NEW n \in Nat, n \in N PROVE n + 1 \in N
    <2>1. PICK g : Right(g, n)
      BY <1>2
    <2> DEFINE h == Onward(g)
    <2>2. ASSUME NEW d \in 0 .. Len(x), d <= n + 1 PROVE h[d] = Onward(h)[d]
      <3>1. CASE d = 0
        BY <3>1
      <3>2. CASE d # 0
        <4>1. d - 1 \in 0 .. Len(x) /\ d - 1 <= n
          BY <2>2, <3>2
        <4>2. g[d - 1] = h[d - 1]
          BY <2>1, <4>1
        <4>3. /\ h[d] = UNION {ChildrenOf(x, x[i]) : i \in g[d - 1]}
              /\ Onward(h)[d] = UNION {ChildrenOf(x, x[i]) : i \in h[d - 1]}
          BY <3>2
        <4> QED
          BY <4>2, <4>3
      <3> QED
        BY <3>1, <3>2
    <2>3. h = [d \in 0 .. Len(x) |-> h[d]]
      OBVIOUS
    <2>4. Right(h, n + 1)
      BY <2>2, <2>3
    <2>5. \E y : Right(y, n + 1)
      <3> HIDE DEF h, Right, Onward
      <3> QED
        BY <2>4
    <2> HIDE DEF h, Right, Onward
    <2> QED
      BY <2>5
  <1>3. Nat \subseteq N
    <2> HIDE DEF N
    <2> QED
      BY <1>1, <1>2, UpFromZero
  <1>4. PICK g : Right(g, Len(x))
    BY <1>3
  <1>5. g = Onward(g)
    BY <1>4
  <1> QED
    BY <1>5 DEF Levels

LEMMA WalkedInLevels ==
  ASSUME NEW x, Len(x) \in Nat
  PROVE  Levels(x, Walked(x))
  <1> DEFINE G == CHOOSE g : Levels(x, g)
  <1>1. Levels(x, G)
    BY LevelsExist
  <1>2. Walked(x) = [d \in 0 .. Len(x) |-> G[d]]
    BY DEF Walked, Levels
  <1>3. G = [d \in 0 .. Len(x) |-> G[d]]
    <2> HIDE DEF G
    <2> QED
      BY <1>1 DEF Levels
  <1>4. Walked(x) = G
    BY <1>2, <1>3
  <1> HIDE DEF G
  <1> QED
    BY <1>1, <1>4

\* The level of a span is the one after its parent's.
LEMMA WalkedOnce ==
  ASSUME NEW x, Export(x), NEW i \in DOMAIN x
  PROVE  Cardinality({d \in DOMAIN Walked(x) : i \in Walked(x)[d]}) = 1
  <1> DEFINE w == Walked(x)
             Once(j) == \E d \in 0 .. j - 1 : \A e \in 0 .. Len(x) : j \in w[e] <=> e = d
             N == {n \in Nat : \A j \in DOMAIN x : j <= n => Once(j)}
  <1>1. /\ DOMAIN x = 1 .. Len(x) /\ Len(x) \in Nat
        /\ \A j \in DOMAIN x : x[j].id # 0
        /\ \A j, k \in DOMAIN x : x[j].id = x[k].id => j = k
    BY ExportIsTree DEF IsTree
  <1>2. /\ DOMAIN w = 0 .. Len(x)
        /\ w[0] = {j \in DOMAIN x : x[j].parent = 0}
        /\ \A d \in 1 .. Len(x) : w[d] = UNION {ChildrenOf(x, x[j]) : j \in w[d - 1]}
        /\ \A d \in 0 .. Len(x) : w[d] \subseteq DOMAIN x
    <2>1. Levels(x, w)
      BY <1>1, WalkedInLevels
    <2> HIDE DEF w
    <2>2. DOMAIN w = 0 .. Len(x)
      BY <2>1 DEF Levels
    <2>3. w[0] = {j \in DOMAIN x : x[j].parent = 0}
      BY <1>1, <2>1 DEF Levels
    <2>4. ASSUME NEW d \in 1 .. Len(x) PROVE w[d] = UNION {ChildrenOf(x, x[j]) : j \in w[d - 1]}
      <3>1. d \in 0 .. Len(x) /\ d # 0
        BY <1>1
      <3> QED
        BY <2>1, <3>1, Zenon DEF Levels
    <2>5. ASSUME NEW d \in 0 .. Len(x) PROVE w[d] \subseteq DOMAIN x
      <3>1. CASE d = 0
        BY <2>3, <3>1
      <3>2. CASE d # 0
        BY <2>4, <3>2 DEF ChildrenOf
      <3> QED
        BY <3>1, <3>2
    <2> QED
      BY <2>2, <2>3, <2>4, <2>5
  <1> HIDE DEF w
  <1>3. ASSUME NEW j \in DOMAIN x, j # 1, NEW d \in 0 .. Len(x)
        PROVE  j \in w[d] <=> d # 0 /\ \E k \in w[d - 1] : x[j].parent = x[k].id
    <2>1. PICK k \in DOMAIN x : x[j].parent = x[k].id
      BY <1>3 DEF Export
    <2>2. d = 0 => j \notin w[d]
      BY <1>1, <1>2, <2>1
    <2>3. d # 0 => (j \in w[d] <=> \E m \in w[d - 1] : x[j].parent = x[m].id)
      <3> SUFFICES ASSUME d # 0 PROVE j \in w[d] <=> \E m \in w[d - 1] : x[j].parent = x[m].id
        OBVIOUS
      <3>1. w[d] = UNION {ChildrenOf(x, x[m]) : m \in w[d - 1]}
        BY <1>1, <1>2
      <3>2. \A m : j \in ChildrenOf(x, x[m]) <=> x[j].parent = x[m].id
        BY DEF ChildrenOf
      <3> QED
        BY <3>1, <3>2
    <2> QED
      BY <2>2, <2>3
  <1>4. 0 \in N
    BY <1>1
  <1>5. ASSUME NEW n \in Nat, n \in N PROVE n + 1 \in N
    <2> SUFFICES ASSUME NEW j \in DOMAIN x, j <= n + 1 PROVE Once(j)
      OBVIOUS
    <2>1. CASE j = 1
      <3>1. \A e \in 0 .. Len(x) : 1 \in w[e] <=> e = 0
        <4>1. x[1].parent = 0
          BY DEF Export
        <4>2. ASSUME NEW e \in 1 .. Len(x), 1 \in w[e] PROVE FALSE
          <5>1. PICK m \in w[e - 1] : 1 \in ChildrenOf(x, x[m])
            BY <1>2, <4>2
          <5>2. m \in DOMAIN x
            BY <1>1, <1>2
          <5> QED
            BY <1>1, <4>1, <5>1, <5>2 DEF ChildrenOf
        <4> QED
          BY <1>1, <1>2, <2>1, <4>1, <4>2
      <3>2. 0 \in 0 .. 1 - 1
        OBVIOUS
      <3> QED
        BY <2>1, <3>1, <3>2
    <2>2. CASE j # 1
      <3>1. PICK k \in DOMAIN x : x[j].parent = x[k].id /\ k < j
        <4>1. PICK k \in DOMAIN x : x[j].parent = x[k].id
          BY <2>2 DEF Export
        <4>2. j \in ChildrenOf(x, x[k])
          BY <4>1 DEF ChildrenOf
        <4> QED
          BY <4>1, <4>2 DEF Export
      <3>2. Once(k)
        <4>1. k <= n
          BY <1>1, <3>1
        <4> QED
          BY <1>5, <4>1
      <3>3. PICK d \in 0 .. k - 1 : \A e \in 0 .. Len(x) : k \in w[e] <=> e = d
        BY <3>2
      <3>4. \A e \in 0 .. Len(x) : j \in w[e] <=> e # 0 /\ k \in w[e - 1]
        <4> SUFFICES ASSUME NEW e \in 0 .. Len(x) PROVE j \in w[e] <=> e # 0 /\ k \in w[e - 1]
          OBVIOUS
        <4>1. e # 0 => e - 1 \in 0 .. Len(x)
          BY <1>1
        <4>2. \A m \in DOMAIN x : x[j].parent = x[m].id => m = k
          BY <1>1, <3>1
        <4> QED
          BY <1>2, <1>3, <2>2, <3>1, <4>1, <4>2
      <3>5. d + 1 \in 0 .. j - 1 /\ \A e \in 0 .. Len(x) : j \in w[e] <=> e = d + 1
        <4>1. d + 1 \in 0 .. j - 1
          BY <1>1, <3>1
        <4>2. ASSUME NEW e \in 0 .. Len(x) PROVE j \in w[e] <=> e = d + 1
          <5>1. e # 0 => e - 1 \in 0 .. Len(x)
            BY <1>1
          <5> QED
            BY <1>1, <3>3, <3>4, <5>1
        <4> QED
          BY <4>1, <4>2
      <3> QED
        BY <3>5
    <2> QED
      BY <2>1, <2>2
  <1>6. Nat \subseteq N
    <2> HIDE DEF N
    <2> QED
      BY <1>4, <1>5, UpFromZero
  <1>7. PICK d \in 0 .. i - 1 : \A e \in 0 .. Len(x) : i \in w[e] <=> e = d
    <2>1. Once(i)
      BY <1>1, <1>6
    <2> QED
      BY <2>1
  <1>8. {e \in DOMAIN w : i \in w[e]} = {d}
    <2>1. d \in 0 .. Len(x)
      BY <1>1
    <2> QED
      BY <1>2, <1>7, <2>1
  <1> QED
    BY <1>8, FS_Singleton DEF w

LEMMA TimesRanked ==
  ASSUME NEW S, Readable(S), S # {}, NEW rows, rows = Outcomes(S, 0),
         NEW slowest, slowest = View(rows, "slowest"),
         NEW times, times = [i \in DOMAIN slowest |-> slowest[i].duration],
         NEW q \in {<<1, 2>>, <<19, 20>>}
  PROVE  Cardinality({i \in DOMAIN times : times[i] < Percentile(times, q)}) * q[2] <= q[1] * Len(times)
  <1>1. rows = {RowOf(x) : x \in S} /\ IsFiniteSet(rows) /\ rows # {}
    <2>1. S \in SUBSET S
      OBVIOUS
    <2>2. Outcomes(S, 0) = {RowOf(x) : x \in S} /\ IsFiniteSet({RowOf(x) : x \in S})
      BY <2>1, RowsMatchTraces
    <2> QED
      BY <2>2
  <1>2. \A r \in rows : r.began \in Int /\ r.duration \in Int
    BY <1>1, RowsOfExports DEF Readable
  <1>3. PICK n \in Nat \ {0} : n = Cardinality(rows)
    BY <1>1, FS_CardinalityType, FS_EmptySet
  <1> DEFINE key == [r \in rows |-> r.duration]
  <1>4. \A r \in rows : key[r] \in Int
    BY <1>2
  <1>5. slowest = Descending(rows, key)
    BY <1>1, <1>2, ViewsAreWhole
  <1>6. Enumerates(slowest, n, rows, key)
    <2> HIDE DEF key
    <2> QED
      BY <1>1, <1>3, <1>4, <1>5, DescendingEnumerates
  <1>7. slowest \in [1 .. n -> rows]
    BY <1>6 DEF Enumerates
  <1>8. times \in [1 .. n -> Int]
    BY <1>2, <1>7
  <1> QED
    BY <1>3, <1>8, PercentileBounds

LEMMA ReadersMatch ==
  ASSUME Readable(stored)
  PROVE  ReadersAgree
  <1> DEFINE rows == Outcomes(stored, 0)
             slowest == View(rows, "slowest")
             times == [i \in DOMAIN slowest |-> slowest[i].duration]
  <1>1. Cardinality(rows) = Cardinality(stored)
    <2>1. /\ Outcomes(stored, 0) = {RowOf(x) : x \in stored}
          /\ Cardinality({RowOf(x) : x \in stored}) = Cardinality(stored)
      BY RowsMatchTraces
    <2> QED
      BY <2>1
  <1>2. SummaryErrors(stored) = Len(View(Failed(rows), "failed")) + Len(View(rows, "retried"))
    BY ErrorsAgree
  <1>3. BreakdownTotal(stored) <= StageTotal(stored)
    BY TotalsAgree
  <1>4. \A t \in stored : \A i \in DOMAIN t : Cardinality({d \in DOMAIN Walked(t) : i \in Walked(t)[d]}) = 1
    BY WalkedOnce DEF Readable
  <1>5. stored # {} => \A q \in {<<1, 2>>, <<19, 20>>} :
          Cardinality({i \in DOMAIN times : times[i] < Percentile(times, q)}) * q[2] <= q[1] * Len(times)
    BY TimesRanked
  <1> QED
    BY <1>1, <1>2, <1>3, <1>4, <1>5 DEF ReadersAgree

-----------------------------------------------------------------------------
(* What is stored *)

\* One trace for each root that was ended, and a trace that is still to be stored is active.
StoredOnce ==
  /\ Readable(stored)
  /\ \A x \in stored : x[1].id \notin active
  /\ \A g \in Generators : gen[g].at = "open" => gen[g].span \in active

LEMMA EndsStored ==
  ASSUME Inv, TimeInv, StoredOnce, Inv', TimeInv', NEW id, Ending(id), NEW status, EndTrace(id, status),
         spans[id].parent = 0, id \in active,
         \A g \in Generators : gen'[g].at = "open" =>
           gen[g].at = "open" /\ gen'[g].span = gen[g].span /\ gen[g].span # id
  PROVE  StoredOnce'
  <1>1. /\ id \in Made /\ records' = records /\ clock' = clock /\ Made' = Made
        /\ active' = active \ {id}
        /\ stored' = stored \cup {[i \in DOMAIN records[id] |-> spans'[records[id][i]]]}
    BY DEF Ending, EndTrace
  <1>2. PICK new : new = [i \in DOMAIN records[id] |-> spans'[records[id][i]]]
    OBVIOUS
  <1>3. new[1].id = id /\ new[1].began >= 0
    <2>1. id \in Ids /\ records[id] # <<>> /\ records[id] \in Seq(Nat)
      BY <1>1, IdsAndMade DEF Inv, Types, TimeInv, Rising
    <2>2. records[id][1] = id /\ 1 \in DOMAIN records[id]
      BY <2>1, EmptySeq DEF Inv, RecordsOK
    <2>3. new[1] = spans'[id]
      BY <1>2, <2>2
    <2>4. spans'[id].id = id /\ spans'[id].began \in Nat
      BY <1>1 DEF TimeInv, Timed
    <2> QED
      BY <2>3, <2>4
  <1>4. \A x \in stored' : Export(x)'
    BY DEF TimeInv, Exported
  <1>5. Readable(stored)'
    <2>1. IsFiniteSet(stored')
      BY <1>1, FS_AddElement DEF StoredOnce, Readable
    <2>2. \A x \in stored' : x[1].began >= 0
      BY <1>1, <1>2, <1>3 DEF StoredOnce, Readable
    <2>3. \A x, y \in stored' : x[1].id = y[1].id => x = y
      BY <1>1, <1>2, <1>3 DEF StoredOnce, Readable
    <2> QED
      BY <1>4, <2>1, <2>2, <2>3 DEF Readable
  <1>6. \A x \in stored' : x[1].id \notin active'
    BY <1>1, <1>2, <1>3 DEF StoredOnce
  <1>7. \A g \in Generators : gen'[g].at = "open" => gen'[g].span \in active'
    BY <1>1 DEF StoredOnce
  <1> QED
    BY <1>5, <1>6, <1>7 DEF StoredOnce

LEMMA KeepsStored ==
  ASSUME Inv, TimeInv, StoredOnce, TimeInv', stored' = stored,
         NEW more, active' = active \cup more, more \cap Made = {},
         \A g \in Generators : gen'[g].at = "open" => gen'[g].span \in active'
  PROVE  StoredOnce'
  <1>1. \A x \in stored : x[1].id \in Made /\ Export(x)'
    BY DEF TimeInv, Exported, Export
  <1>2. Readable(stored)'
    BY <1>1 DEF StoredOnce, Readable
  <1>3. \A x \in stored : x[1].id \notin active'
    BY <1>1 DEF StoredOnce
  <1> QED
    BY <1>2, <1>3 DEF StoredOnce

LEMMA StoredOnceInit == Init => StoredOnce
  BY FS_EmptySet DEF Init, StoredOnce, Readable

LEMMA StoredOnceStep == Inv /\ TimeInv /\ StoredOnce /\ [Next]_vars /\ Inv' /\ TimeInv' => StoredOnce'
  <1> SUFFICES ASSUME Inv, TimeInv, StoredOnce, [Next]_vars, Inv', TimeInv' PROVE StoredOnce'
    OBVIOUS
  <1>1. ASSUME UNCHANGED <<active, stored, gen>> PROVE StoredOnce'
    <2>1. active' = active \cup {} /\ stored' = stored /\ {} \cap Made = {}
      BY <1>1
    <2>2. \A g \in Generators : gen'[g].at = "open" => gen'[g].span \in active'
      BY <1>1 DEF StoredOnce
    <2> QED
      BY <2>1, <2>2, KeepsStored
  <1>2. NewId \notin Made
    BY IdsAndMade DEF Inv, NewId, Made
  <1>3. ASSUME BeginTrace, \A g \in Generators : gen'[g] = gen[g] \/ gen'[g].span = NewId
        PROVE  StoredOnce'
    <2>1. active' = active \cup {NewId} /\ stored' = stored
      BY <1>3 DEF BeginTrace
    <2>2. \A g \in Generators : gen'[g].at = "open" => gen'[g].span \in active'
      BY <1>3, <2>1 DEF StoredOnce
    <2> QED
      BY <1>2, <2>1, <2>2, KeepsStored
  <1>4. CASE Tick \/ UNCHANGED vars
    BY <1>1, <1>4 DEF Tick, vars, tracer
  <1>5. ASSUME NEW t \in Threads, OpenTrace(t) \/ OpenSpan(t) PROVE StoredOnce'
    <2>1. gen' = gen
      BY <1>5 DEF OpenTrace, OpenSpan, Enter
    <2>2. CASE BeginTrace
      BY <1>3, <2>1, <2>2
    <2>3. CASE BeginChild(ambient[t])
      BY <1>1, <2>1, <2>3 DEF BeginChild
    <2> QED
      BY <1>5, <2>2, <2>3 DEF OpenTrace, OpenSpan
  <1>6. ASSUME NEW t \in Threads, FinishEarly(t) PROVE StoredOnce'
    BY <1>1, <1>6 DEF FinishEarly, tracer
  <1>7. ASSUME NEW t \in Threads, Leave(t) PROVE StoredOnce'
    <2> DEFINE id == Top(t).span
    <2>1. blocks[t] # <<>> /\ id \in Made /\ ~Foreign(id) /\ gen' = gen
      BY <1>7, LastClosed DEF Leave, TimeInv
    <2>2. CASE spans[id].trace # id
      BY <1>1, <1>7, <2>1, <2>2 DEF Leave, tracer
    <2>3. CASE spans[id].trace = id
      <3>1. PICK status \in {"ok", "error"} : EndTrace(id, status)
        BY <1>7, <2>3 DEF Leave
      <3>2. Ending(id)
        BY <1>7, <2>1, <3>1, SpanEnds DEF EndTrace, Leave
      <3>3. spans[id].parent = 0
        BY <2>1, <2>3 DEF Inv, SpansOK
      <3>4. id \in active
        <4>1. PICK i \in DOMAIN blocks[t] : id = blocks[t][i].span
          BY <2>1, BlocksType DEF Inv, Top
        <4> QED
          BY <2>3, <4>1 DEF Inv, Owners, Owned
      <3>5. \A g \in Generators : gen[g].span # id
        BY <2>1 DEF Foreign
      <3> HIDE DEF id
      <3> QED
        BY <2>1, <3>1, <3>2, <3>3, <3>4, <3>5, EndsStored
    <2> QED
      BY <2>2, <2>3
  <1>8. ASSUME NEW t \in Threads, NEW g \in Generators, Begin(g, t) PROVE StoredOnce'
    <2>1. gen' = [gen EXCEPT ![g] = [at |-> "open", span |-> NewId, previous |-> ambient[t]]]
      BY <1>8 DEF Begin
    <2>2. \A h \in Generators : gen'[h] = gen[h] \/ gen'[h].span = NewId
      BY <2>1 DEF Inv, Types
    <2> QED
      BY <1>3, <1>8, <2>2 DEF Begin
  <1>9. ASSUME NEW t \in Threads, NEW g \in Generators, NEW status \in {"ok", "error"}, Finish(g, t, status)
        PROVE  StoredOnce'
    <2>1. PICK id \in Made : id = gen[g].span /\ gen[g].at = "open"
      BY <1>9 DEF Finish, Inv, ContextsOK
    <2>2. EndTrace(id, status) /\ gen' = [gen EXCEPT ![g].at = "done"] /\ clock' = clock
      BY <1>9, <2>1 DEF Finish
    <2>3. Ending(id)
      BY <2>1, <2>2, SpanEnds DEF EndTrace
    <2>4. Stream(g) /\ id # 0
      BY <2>1 DEF TimeInv, Streams, Made
    <2>5. spans[id].parent = 0 /\ \A h \in Generators \ {g} : gen[h].span # id
      BY <2>1, <2>4 DEF Stream
    <2>6. id \in active
      BY <2>1 DEF StoredOnce
    <2>7. gen'[g].at = "done" /\ \A h \in Generators \ {g} : gen'[h] = gen[h]
      BY <2>2 DEF Inv, Types
    <2> QED
      BY <2>2, <2>3, <2>5, <2>6, <2>7, EndsStored
  <1>10. ASSUME NEW t \in Threads, NEW g \in Generators, End(g, t) \/ Finalise(g, t) PROVE StoredOnce'
    BY <1>9, <1>10 DEF End, Finalise
  <1> QED
    BY <1>4, <1>5, <1>6, <1>7, <1>8, <1>10 DEF Next

LEMMA StoredOnceHolds == Spec => []StoredOnce
  BY InvInit, InvStep, TimeInvInit, TimeInvStep, StoredOnceInit, StoredOnceStep, PTL DEF Spec

\* The console's series, its headline figures and its percentiles, the store's summary and
\* stage totals and the walk of `llmobs trace` agree on whatever is stored, at rest or in
\* the middle of other requests (console.py:168-223, store.py:170-252, cli.py:143-159).
THEOREM ReadersAreConsistent == Spec => [](SeriesAddUp /\ ReadersAgree)
  <1>1. Inv /\ StoredOnce => SeriesAddUp /\ ReadersAgree
    BY SeriesAgrees, ReadersMatch DEF StoredOnce
  <1> QED
    BY <1>1, InvHolds, StoredOnceHolds, PTL

\* The same between two requests, as the run checks it.
THEOREM ReportsAreConsistent == Spec => []ReportsAgree
  <1>1. SeriesAddUp /\ ReadersAgree => ReportsAgree
    BY DEF ReportsAgree
  <1> QED
    BY <1>1, ReadersAreConsistent, PTL
=============================================================================
