---------------------------- MODULE MetricsProofs ----------------------------
(***************************************************************************)
(* Theorems about Metrics, for any threads, label sets, bounds and sample   *)
(* cap.                                                                     *)
(*                                                                         *)
(* The inductive invariant is Inv: the types, Control, which says how far   *)
(* each observer has got and that a span does it all under the lock, and    *)
(* PoolBound, which counts the samples about to be appended.                *)
(***************************************************************************)
EXTENDS Metrics, FiniteSetTheorems, SequenceTheorems, WellFoundedInduction, TLAPS

\* Past the lists of its label set.
Begun == {"bucket", "tally", "append", "release", "done"}

Control ==
  \A w \in Observers :
    /\ w \in Spans => pc[w] # "errors" /\ (pc[w] \notin {"acquire", "done"} => lock = {w})
    /\ w \in Failures => pc[w] \notin {"acquire", "release"}
    /\ bucket[w] = 1 \/ pc[w] \in Begun
    /\ pc[w] = "bucket" => bucket[w] \in Buckets
    /\ pc[w] \in Begun \ {"bucket"} => bucket[w] = Len(Bounds) + 1
    /\ pc[w] \in Begun => Exists(Key(w))

Inv == TypeOK /\ Control

Entry == [counts : [Buckets -> Nat], pool : Seq(Values)]

LEMMA BucketsRange == Len(Bounds) \in Nat \ {0} /\ Buckets = 1 .. Len(Bounds)
  BY MetricsAssumption, EmptySeq, LenProperties DEF Buckets

LEMMA NonEmptySeq ==
  ASSUME NEW S, NEW s \in Seq(S)
  PROVE  s # <<>> <=> 1 \in DOMAIN s
  <1>1. Len(s) \in Nat /\ DOMAIN s = 1 .. Len(s) /\ (s = <<>> <=> Len(s) = 0)
    BY EmptySeq, LenProperties
  <1> QED
    BY <1>1

LEMMA LoadType ==
  ASSUME TypeOK, NEW w \in Observers
  PROVE  Key(w) \in Keys /\ Value(w) \in Values /\ Value(w) \in Nat
  BY MetricsAssumption DEF TypeOK, Key, Value

\* What an observer's step does to its place, and to a scrape.
LEMMA GotoEffect ==
  ASSUME TypeOK, NEW w \in Observers, NEW from, NEW to, Goto(w, from, to)
  PROVE  /\ pc[w] = from /\ pc'[w] = to
         /\ \A q \in Observers \ {w} : pc'[q] = pc[q]
         /\ \A q : Key(q)' = Key(q) /\ Value(q)' = Value(q)
         /\ load' = load
  BY DEF Goto, TypeOK, Key, Value

\* CheckKey(w), CreateLists(w) and the rest find the lists where these say they are.
LEMMA Created ==
  ASSUME Inv, NEW w \in Observers, CreateLists(w)
  PROVE  /\ lists' \in [Keys -> Seq(Entry)]
         /\ \A k \in Keys \ {Key(w)} : lists'[k] = lists[k]
         /\ Len(lists'[Key(w)]) = Len(lists[Key(w)]) + 1
         /\ \A g \in DOMAIN lists[Key(w)] : lists'[Key(w)][g] = lists[Key(w)][g]
         /\ lists'[Key(w)][Len(lists[Key(w)]) + 1] = Fresh
  <1>1. Key(w) \in Keys /\ lists \in [Keys -> Seq(Entry)]
    BY LoadType DEF Inv, TypeOK, Entry
  <1>2. Fresh \in Entry
    BY EmptySeq DEF Fresh, Entry
  <1>3. lists' = [lists EXCEPT ![Key(w)] = Append(@, Fresh)]
    BY DEF CreateLists
  <1>4. lists[Key(w)] \in Seq(Entry)
    BY <1>1
  <1> QED
    BY <1>1, <1>2, <1>3, <1>4, AppendProperties

\* One entry of a label set's lists with one more in a bucket, or one more sample.
LEMMA EntryBumped ==
  ASSUME NEW x \in Entry, NEW b \in Buckets
  PROVE  /\ [x EXCEPT !.counts[b] = @ + 1] \in Entry
         /\ [x EXCEPT !.counts[b] = @ + 1].pool = x.pool
         /\ \A i \in Buckets : [x EXCEPT !.counts[b] = @ + 1].counts[i]
                                 = x.counts[i] + (IF i = b THEN 1 ELSE 0)
  BY DEF Entry

LEMMA EntryAppended ==
  ASSUME NEW x \in Entry, NEW v \in Values
  PROVE  /\ [x EXCEPT !.pool = Append(@, v)] \in Entry
         /\ [x EXCEPT !.pool = Append(@, v)].counts = x.counts
         /\ Len([x EXCEPT !.pool = Append(@, v)].pool) = Len(x.pool) + 1
  <1>1. x.pool \in Seq(Values) /\ x = [counts |-> x.counts, pool |-> x.pool]
    BY DEF Entry
  <1>2. Append(x.pool, v) \in Seq(Values) /\ Len(Append(x.pool, v)) = Len(x.pool) + 1
    BY <1>1, AppendProperties
  <1> QED
    BY <1>1, <1>2 DEF Entry

\* An entry replaced by another.
LEMMA EntryReplaced ==
  ASSUME lists \in [Keys -> Seq(Entry)], NEW k \in Keys, NEW n \in DOMAIN lists[k], NEW e \in Entry,
         lists' = [lists EXCEPT ![k][n] = e]
  PROVE  /\ lists' \in [Keys -> Seq(Entry)]
         /\ \A q \in Keys : Len(lists'[q]) = Len(lists[q]) /\ DOMAIN lists'[q] = DOMAIN lists[q]
         /\ \A q \in Keys : \A g \in DOMAIN lists[q] :
              lists'[q][g] = IF q = k /\ g = n THEN e ELSE lists[q][g]
  <1>1. lists[k] \in Seq(Entry) /\ DOMAIN lists[k] = 1 .. Len(lists[k])
    BY LenProperties
  <1>2. /\ [lists[k] EXCEPT ![n] = e] \in Seq(Entry)
        /\ Len([lists[k] EXCEPT ![n] = e]) = Len(lists[k])
        /\ \A g \in 1 .. Len(lists[k]) :
             [lists[k] EXCEPT ![n] = e][g] = IF g = n THEN e ELSE lists[k][g]
        /\ DOMAIN [lists[k] EXCEPT ![n] = e] = DOMAIN lists[k]
    BY <1>1, ExceptSeq
  <1>3. /\ lists' = [q \in Keys |-> IF q = k THEN [lists[k] EXCEPT ![n] = e] ELSE lists[q]]
    OBVIOUS
  <1>4. lists'[k] = [lists[k] EXCEPT ![n] = e] /\ \A q \in Keys \ {k} : lists'[q] = lists[q]
    BY <1>3
  <1>5. lists' \in [Keys -> Seq(Entry)]
    BY <1>2, <1>3
  <1> QED
    BY <1>1, <1>2, <1>4, <1>5

LEMMA Bumped ==
  ASSUME Inv, NEW w \in Observers, CountBucket(w)
  PROVE  /\ lists' \in [Keys -> Seq(Entry)]
         /\ \A k \in Keys : Len(lists'[k]) = Len(lists[k]) /\ DOMAIN lists'[k] = DOMAIN lists[k]
         /\ \A k \in Keys : \A g \in DOMAIN lists[k] :
              /\ lists'[k][g].pool = lists[k][g].pool
              /\ \A i \in Buckets :
                   lists'[k][g].counts[i] =
                     lists[k][g].counts[i] +
                       (IF /\ k = Key(w) /\ g = Len(lists[k]) /\ i = bucket[w]
                           /\ Value(w) <= Bounds[i]
                        THEN 1 ELSE 0)
  <1>1. Key(w) \in Keys /\ lists \in [Keys -> Seq(Entry)] /\ bucket[w] \in Buckets
    BY LoadType DEF Inv, TypeOK, Entry, CountBucket
  <1>2. \A k \in Keys : \A g \in DOMAIN lists[k] : lists[k][g] \in Entry
    BY <1>1, LenProperties, ElementOfSeq
  <1>3. Len(lists[Key(w)]) \in DOMAIN lists[Key(w)]
    <2>1. lists[Key(w)] # <<>> /\ lists[Key(w)] \in Seq(Entry)
      BY <1>1 DEF Inv, Control, Exists, CountBucket, Goto, Begun
    <2> QED
      BY <2>1, EmptySeq, LenProperties
  <1>4. CASE Value(w) <= Bounds[bucket[w]]
    <2> DEFINE e == [lists[Key(w)][Len(lists[Key(w)])] EXCEPT !.counts[bucket[w]] = @ + 1]
    <2>1. lists' = [lists EXCEPT ![Key(w)][Len(lists[Key(w)])] = e]
      BY <1>4 DEF CountBucket
    <2>2. /\ e \in Entry /\ e.pool = lists[Key(w)][Len(lists[Key(w)])].pool
          /\ \A i \in Buckets : e.counts[i] = lists[Key(w)][Len(lists[Key(w)])].counts[i]
                                                + (IF i = bucket[w] THEN 1 ELSE 0)
      BY <1>1, <1>2, <1>3, EntryBumped
    <2> HIDE DEF e
    <2>3. \A k \in Keys : \A g \in DOMAIN lists[k] : \A i \in Buckets : lists[k][g].counts[i] \in Nat
      BY <1>2 DEF Entry
    <2> QED
      BY <1>1, <1>3, <1>4, <2>1, <2>2, <2>3, EntryReplaced
  <1>5. CASE ~(Value(w) <= Bounds[bucket[w]])
    <2>1. lists' = lists
      BY <1>5 DEF CountBucket
    <2>2. \A k \in Keys : \A g \in DOMAIN lists[k] : \A i \in Buckets : lists[k][g].counts[i] \in Nat
      BY <1>2 DEF Entry
    <2> QED
      BY <1>1, <1>5, <2>1, <2>2
  <1> QED
    BY <1>4, <1>5

LEMMA Appended ==
  ASSUME Inv, NEW w \in Observers, AppendSample(w)
  PROVE  /\ lists' \in [Keys -> Seq(Entry)]
         /\ \A k \in Keys : Len(lists'[k]) = Len(lists[k]) /\ DOMAIN lists'[k] = DOMAIN lists[k]
         /\ \A k \in Keys : \A g \in DOMAIN lists[k] :
              /\ lists'[k][g].counts = lists[k][g].counts
              /\ Len(lists'[k][g].pool) =
                   Len(lists[k][g].pool) + (IF k = Key(w) /\ g = held[w] THEN 1 ELSE 0)
  <1>1. Key(w) \in Keys /\ lists \in [Keys -> Seq(Entry)] /\ Value(w) \in Values
    BY LoadType DEF Inv, TypeOK, Entry
  <1>2. \A k \in Keys : \A g \in DOMAIN lists[k] : lists[k][g] \in Entry
    BY <1>1, LenProperties, ElementOfSeq
  <1>3. held[w] \in DOMAIN lists[Key(w)]
    BY DEF Inv, TypeOK, AppendSample, Goto
  <1> DEFINE e == [lists[Key(w)][held[w]] EXCEPT !.pool = Append(@, Value(w))]
  <1>4. lists' = [lists EXCEPT ![Key(w)][held[w]] = e]
    BY DEF AppendSample
  <1>5. /\ e \in Entry /\ e.counts = lists[Key(w)][held[w]].counts
        /\ Len(e.pool) = Len(lists[Key(w)][held[w]].pool) + 1
    BY <1>1, <1>2, <1>3, EntryAppended
  <1> HIDE DEF e
  <1>6. \A k \in Keys : \A g \in DOMAIN lists[k] : Len(lists[k][g].pool) \in Nat
    BY <1>2, LenProperties DEF Entry
  <1>7. /\ lists' \in [Keys -> Seq(Entry)]
        /\ \A q \in Keys : Len(lists'[q]) = Len(lists[q]) /\ DOMAIN lists'[q] = DOMAIN lists[q]
        /\ \A q \in Keys : \A g \in DOMAIN lists[q] :
             lists'[q][g] = IF q = Key(w) /\ g = held[w] THEN e ELSE lists[q][g]
    BY <1>1, <1>3, <1>4, <1>5, EntryReplaced
  <1>8. \A k \in Keys : \A g \in DOMAIN lists[k] : lists'[k][g].counts = lists[k][g].counts
    BY <1>5, <1>7
  <1>9. \A k \in Keys : \A g \in DOMAIN lists[k] :
          Len(lists'[k][g].pool) =
            Len(lists[k][g].pool) + (IF k = Key(w) /\ g = held[w] THEN 1 ELSE 0)
    <2> TAKE k \in Keys
    <2> TAKE g \in DOMAIN lists[k]
    <2>1. CASE k = Key(w) /\ g = held[w]
      BY <1>5, <1>7, <2>1
    <2>2. CASE ~(k = Key(w) /\ g = held[w])
      <3>1. lists'[k][g] = lists[k][g] /\ Len(lists[k][g].pool) \in Nat
        BY <1>6, <1>7, <2>2
      <3>2. Len(lists'[k][g].pool) = Len(lists[k][g].pool) + 0
        BY <3>1
      <3> QED
        BY <2>2, <3>2
    <2> QED
      BY <2>1, <2>2
  <1> QED
    BY <1>7, <1>8, <1>9

-----------------------------------------------------------------------------
(* The types, and where the observers stand *)

LEMMA InvInit == Init => Inv
  <1> SUFFICES ASSUME Init PROVE TypeOK /\ Control
    BY DEF Inv
  <1>1. TypeOK
    BY MetricsAssumption, BucketsRange, EmptySeq DEF Init, TypeOK, Observers
  <1>2. Control
    BY MetricsAssumption DEF Init, Control, Observers, Begun
  <1> QED
    BY <1>1, <1>2

\* The parts of TypeOK that a step may change only by these rules.
LEMMA WriteTypes ==
  ASSUME Inv, NEW w \in Observers, Write(w)
  PROVE  /\ load' \in Loads
         /\ pc' \in [Observers -> {"acquire", "errors", "requests", "check", "create", "bucket",
                                   "tally", "append", "release", "done"}]
         /\ bucket' \in [Observers -> 1 .. Len(Bounds) + 1]
         /\ held' \in [Observers -> Nat]
         /\ requests' \in Nat /\ errors' \in Nat
         /\ sums' \in [Keys -> Nat] /\ totals' \in [Keys -> Nat]
  <1>0. /\ Key(w) \in Keys /\ Value(w) \in Nat
        /\ sums[Key(w)] + Value(w) \in Nat /\ totals[Key(w)] + 1 \in Nat
        /\ CountBucket(w) => bucket[w] + 1 \in 1 .. Len(Bounds) + 1
    <2>1. Key(w) \in Keys /\ Value(w) \in Nat
      BY LoadType DEF Inv
    <2>2. sums[Key(w)] + Value(w) \in Nat /\ totals[Key(w)] + 1 \in Nat
      BY <2>1 DEF Inv, TypeOK
    <2>3. CountBucket(w) => bucket[w] + 1 \in 1 .. Len(Bounds) + 1
      BY BucketsRange DEF CountBucket
    <2> QED
      BY <2>1, <2>2, <2>3
  <1> USE DEF Inv, TypeOK, Goto, Write, Acquire, Release, CountError, CountRequest, CheckKey, CreateLists,
              CountBucket, Tally, AppendSample, After, counters, history
  <1>1. load' \in Loads
    OBVIOUS
  <1>2. pc' \in [Observers -> {"acquire", "errors", "requests", "check", "create", "bucket",
                                   "tally", "append", "release", "done"}]
    OBVIOUS
  <1>3. bucket' \in [Observers -> 1 .. Len(Bounds) + 1]
    <2>1. CASE CountBucket(w)
      <3>1. bucket[w] + 1 \in 1 .. Len(Bounds) + 1
        BY <1>0, <2>1
      <3> QED
        BY <2>1, <3>1
    <2>2. CASE UNCHANGED bucket
      BY <2>2
    <2> QED
      BY <2>1, <2>2
  <1>4. held' \in [Observers -> Nat]
    <2>1. Len(lists[Key(w)]) \in Nat
      BY LoadType, LenProperties
    <2> QED
      BY <2>1
  <1>5. requests' \in Nat /\ errors' \in Nat
    OBVIOUS
  <1>6. sums' \in [Keys -> Nat] /\ totals' \in [Keys -> Nat]
    <2>1. CASE Tally(w)
      <3>1. sums[Key(w)] + Value(w) \in Nat /\ totals[Key(w)] + 1 \in Nat
        BY <1>0
      <3> QED
        BY <2>1, <3>1
    <2>2. CASE UNCHANGED <<sums, totals>>
      BY <2>2
    <2> QED
      BY <2>1, <2>2
  <1> QED
    BY <1>1, <1>2, <1>3, <1>4, <1>5, <1>6

\* Lists are made and written to, and never taken away.
LEMMA WriteLists ==
  ASSUME Inv, NEW w \in Observers, Write(w)
  PROVE  /\ lists' \in [Keys -> Seq(Entry)]
         /\ \A k \in Keys : /\ DOMAIN lists[k] \subseteq DOMAIN lists'[k]
                            /\ Exists(k) => Exists(k)'
  <1>0. lists \in [Keys -> Seq(Entry)] /\ Key(w) \in Keys
    BY LoadType DEF Inv, TypeOK, Entry
  <1>1. lists' \in [Keys -> Seq(Entry)] /\ \A k \in Keys : DOMAIN lists[k] \subseteq DOMAIN lists'[k]
    <2>1. CASE CreateLists(w)
      <3>1. \A k \in Keys : lists[k] \in Seq(Entry) /\ lists'[k] \in Seq(Entry)
        BY <1>0, <2>1, Created
      <3>2. \A k \in Keys : /\ DOMAIN lists[k] = 1 .. Len(lists[k]) /\ Len(lists[k]) \in Nat
                            /\ DOMAIN lists'[k] = 1 .. Len(lists'[k])
        BY <3>1, LenProperties
      <3> QED
        BY <2>1, <3>2, Created
    <2>2. CASE CountBucket(w)
      BY <2>2, Bumped
    <2>3. CASE AppendSample(w)
      BY <2>3, Appended
    <2>4. CASE UNCHANGED lists
      BY <1>0, <2>4
    <2> QED
      BY <2>1, <2>2, <2>3, <2>4
         DEF Write, Acquire, Release, CountError, CountRequest, CheckKey, Tally, history
  <1>2. \A k \in Keys : (lists[k] # <<>> <=> 1 \in DOMAIN lists[k])
                       /\ (lists'[k] # <<>> <=> 1 \in DOMAIN lists'[k])
    BY <1>0, <1>1, NonEmptySeq
  <1> QED
    BY <1>1, <1>2 DEF Exists

LEMMA WriteControl ==
  ASSUME Inv, NEW w \in Observers, Write(w)
  PROVE  Control' /\ \E x \in Spans \cup {Scraper} : lock' \in {{}, {x}}
  <1>1. \A q \in Observers : /\ Key(q)' = Key(q) /\ Key(q) \in Keys
                             /\ Exists(Key(q)) => Exists(Key(q))'
    BY WriteLists, LoadType DEF Inv, TypeOK, Key, Goto, Write, Acquire, Release, CountError, CountRequest, CheckKey,
       CreateLists, CountBucket, Tally, AppendSample
  <1>2. \A q \in Observers \ {w} : pc'[q] = pc[q] /\ bucket'[q] = bucket[q]
    BY DEF Inv, TypeOK, Goto, Write, Acquire, Release, CountError, CountRequest, CheckKey,
       CreateLists, CountBucket, Tally, AppendSample
  <1>3. /\ lock' = lock \/ (lock = {} /\ lock' = {w} /\ w \in Spans)
           \/ (lock = {w} /\ lock' = {} /\ w \in Spans /\ pc'[w] = "done")
    BY DEF Inv, TypeOK, Control, Goto, Write, Acquire, Release, CountError, CountRequest, CheckKey,
       CreateLists, CountBucket, Tally, AppendSample, Observers
  <1>4. \A q \in Observers \ {w} : q \in Spans /\ pc[q] \notin {"acquire", "done"} => lock' = {q}
    BY <1>3 DEF Inv, Control
  <1>5. /\ w \in Spans => pc'[w] # "errors" /\ (pc'[w] \notin {"acquire", "done"} => lock' = {w})
        /\ w \in Failures => pc'[w] \notin {"acquire", "release"}
    BY MetricsAssumption DEF Inv, TypeOK, Control, Goto, Write, Acquire, Release, CountError, CountRequest, CheckKey,
       CreateLists, CountBucket, Tally, AppendSample, After, Observers
  <1>6. /\ bucket'[w] = 1 \/ pc'[w] \in Begun
        /\ pc'[w] = "bucket" => bucket'[w] \in Buckets
        /\ pc'[w] \in Begun \ {"bucket"} => bucket'[w] = Len(Bounds) + 1
    BY BucketsRange DEF Inv, TypeOK, Control, Goto, Write, Acquire, Release, CountError, CountRequest, CheckKey,
       CreateLists, CountBucket, Tally, AppendSample, After, Begun
  <1>7. pc'[w] \in Begun => Exists(Key(w))'
    <2>1. CASE pc[w] \in Begun
      BY <1>1, <2>1 DEF Inv, Control
    <2>2. CASE CheckKey(w)
      BY <1>1, <2>2 DEF CheckKey, Goto, Inv, TypeOK, Begun
    <2>3. CASE CreateLists(w)
      <3>1. lists'[Key(w)] \in Seq(Entry) /\ Len(lists'[Key(w)]) # 0
        <4>1. lists[Key(w)] \in Seq(Entry)
          BY <1>1 DEF Inv, TypeOK, Entry
        <4>2. Len(lists[Key(w)]) \in Nat
          BY <4>1, LenProperties
        <4> QED
          BY <1>1, <2>3, <4>2, Created
      <3> QED
        BY <1>1, <3>1, EmptySeq DEF Exists
    <2> QED
      BY <2>1, <2>2, <2>3
         DEF Inv, TypeOK, Goto, Write, Acquire, Release, CountError, CountRequest, CountBucket,
             Tally, AppendSample, After, Begun
  <1>8. Control'
    BY <1>1, <1>2, <1>4, <1>5, <1>6, <1>7 DEF Inv, Control
  <1>9. \E x \in Spans \cup {Scraper} : lock' \in {{}, {x}}
    BY <1>3 DEF Inv, TypeOK
  <1> QED
    BY <1>8, <1>9

LEMMA WriteInv ==
  ASSUME Inv, NEW w \in Observers, Write(w)
  PROVE  Inv'
  <1>1. \A q \in Observers : pc'[q] = "append" => held'[q] \in DOMAIN lists'[Key(q)']
    <2>1. ASSUME NEW q \in Observers, pc'[q] = "append", pc[q] = "append"
          PROVE  held'[q] \in DOMAIN lists'[Key(q)']
      <3>1. held'[q] = held[q] /\ Key(q)' = Key(q) /\ Key(q) \in Keys
        BY <2>1, LoadType DEF Inv, TypeOK, Key, Goto, Write, Acquire, Release, CountError, CountRequest, CheckKey,
           CreateLists, CountBucket, Tally, AppendSample
      <3> QED
        BY <2>1, <3>1, WriteLists DEF Inv, TypeOK
    <2>2. ASSUME NEW q \in Observers, pc'[q] = "append", pc[q] # "append"
          PROVE  held'[q] \in DOMAIN lists'[Key(q)']
      <3>1. q = w /\ Tally(w) /\ lists' = lists /\ held'[q] = Len(lists[Key(q)]) /\ Key(q)' = Key(q)
        BY <2>2 DEF Inv, TypeOK, Key, Goto, Write, Acquire, Release, CountError, CountRequest, CheckKey,
           CreateLists, CountBucket, Tally, AppendSample, After
      <3>2. lists[Key(q)] \in Seq(Entry) /\ lists[Key(q)] # <<>>
        BY <3>1, LoadType DEF Tally, Goto, Inv, TypeOK, Entry, Control, Begun, Exists
      <3> QED
        BY <3>1, <3>2, EmptySeq, LenProperties
    <2> QED
      BY <2>1, <2>2
  <1>2. TypeOK'
    BY <1>1, WriteTypes, WriteLists, WriteControl DEF TypeOK, Entry
  <1> QED
    BY <1>2, WriteControl DEF Inv

-----------------------------------------------------------------------------
(* The scrape: it holds the lock while it renders, and knows whom it overlaps. *)

Scanning == {"keys", "key", "bucket", "inf", "count", "counted"}

Scrapes == [at : {"idle", "wait", "done"} \cup Scanning, todo : SUBSET Keys,
            open : SUBSET (Keys \X Nat), seen : Seq(Nat), inf : Nat, requests : Nat,
            observed : Nat, across : SUBSET Failures]

ScrapeOK ==
  /\ scrape \in Scrapes
  /\ scrape.at \in Scanning => lock = {Scraper} /\ Halfway \subseteq scrape.across
  /\ scrape.at \in {"idle", "wait", "keys"} => scrape.seen = <<>> /\ scrape.observed = 0
  /\ scrape.at \in {"bucket", "inf", "count"} =>
       \E k \in Keys \ scrape.todo, g \in Nat :
         g \in DOMAIN lists[k] /\ scrape.open = {<<k, g>>}
  /\ scrape.at = "bucket" => Len(scrape.seen) < Len(Bounds)
  /\ scrape.at \in {"inf", "count", "counted"} => Len(scrape.seen) = Len(Bounds)
  /\ \A k \in scrape.todo : Exists(k)

\* A scrape and a reader leave all but their own and the lock alone.
LEMMA VisitorsStep ==
  ASSUME ScrapeOK, ScrapeArrives \/ Scrape \/ Read
  PROVE  /\ UNCHANGED <<writing, counters, history>>
         /\ lock' = lock \/ (lock = {} /\ lock' = {Scraper}) \/ (lock = {Scraper} /\ lock' = {})
  BY DEF ScrapeArrives, Scrape, Read, ScrapeStep, ReaderStep, ScrapeOpen, ScrapeKeys, ScrapeKey,
         ScrapeBucket, ScrapeInf, ScrapeCount, ScrapeNext, ScrapeClose,
         ReaderOpen, ReaderCopy, ReaderNext, ReaderRaises, ScrapeOK, Scanning

LEMMA VisitorInv ==
  ASSUME Inv, UNCHANGED <<writing, counters, history>>,
         lock' = lock \/ (lock = {} /\ lock' = {Scraper}) \/ (lock = {Scraper} /\ lock' = {})
  PROVE  Inv'
  <1>1. TypeOK'
    BY DEF Inv, TypeOK, writing, counters, history, Key
  <1>2. Control'
    BY MetricsAssumption
       DEF Inv, Control, writing, counters, history, Key, Exists, Observers
  <1> QED
    BY <1>1, <1>2 DEF Inv

\* A write changes of a scrape only whom it overlaps; a scrape under way overlaps failures only.
LEMMA WriteScrape ==
  ASSUME Inv, ScrapeOK, NEW w \in Observers, Write(w)
  PROVE  /\ scrape' \in Scrapes
         /\ scrape'.at = scrape.at /\ scrape'.todo = scrape.todo /\ scrape'.open = scrape.open
         /\ scrape'.seen = scrape.seen /\ scrape'.inf = scrape.inf
         /\ scrape'.requests = scrape.requests /\ scrape'.observed = scrape.observed
         /\ scrape.across \subseteq scrape'.across
         /\ scrape.at \in Scanning =>
              /\ w \in Failures /\ lock' = lock
              /\ scrape'.across = scrape.across \cup {w}
  <1>1. scrape' = IF Scraper \in lock /\ w \in Failures
                  THEN [scrape EXCEPT !.across = @ \cup {w}] ELSE scrape
    BY DEF Write, Goto, Acquire, Release, CountError, CountRequest, CheckKey, CreateLists, CountBucket,
           Tally, AppendSample
  <1>2. ASSUME scrape.at \in Scanning PROVE w \in Failures /\ lock' = lock /\ Scraper \in lock
    <2>1. lock = {Scraper} /\ Scraper \notin Observers
      BY <1>2, MetricsAssumption DEF ScrapeOK
    <2>2. w \notin Spans
      BY <2>1 DEF Inv, Control, Write, Goto, Acquire, Release, CountError, CountRequest, CheckKey,
                  CreateLists, CountBucket, Tally, AppendSample
    <2> QED
      BY <2>1, <2>2 DEF Observers, Inv, Control, Write, Goto, Acquire, Release, CountError, CountRequest,
                        CheckKey, CreateLists, CountBucket, Tally, AppendSample
  <1>3. scrape \in Scrapes
    BY DEF ScrapeOK
  <1> QED
    BY <1>1, <1>2, <1>3 DEF Scrapes

LEMMA WriteScrapeOK ==
  ASSUME Inv, ScrapeOK, NEW w \in Observers, Write(w)
  PROVE  ScrapeOK'
  <1>1. /\ scrape' \in Scrapes
        /\ scrape'.at = scrape.at /\ scrape'.todo = scrape.todo /\ scrape'.open = scrape.open
        /\ scrape'.seen = scrape.seen /\ scrape'.observed = scrape.observed
        /\ scrape.at \in Scanning => lock' = lock /\ scrape'.across = scrape.across \cup {w}
    BY WriteScrape
  <1>2. \A q \in Observers \ {w} : pc'[q] = pc[q]
    BY DEF Inv, TypeOK, Goto, Write, Acquire, Release, CountError, CountRequest, CheckKey,
       CreateLists, CountBucket, Tally, AppendSample
  <1>3. scrape.at \in Scanning => Halfway' \subseteq scrape'.across
    BY <1>1, <1>2 DEF ScrapeOK, Halfway, Observers
  <1>4. \A k \in Keys : DOMAIN lists[k] \subseteq DOMAIN lists'[k] /\ (Exists(k) => Exists(k)')
    BY WriteLists
  <1>5. scrape.todo \subseteq Keys
    BY DEF ScrapeOK, Scrapes
  <1>6. scrape.at \in {"bucket", "inf", "count"} =>
          \E k \in Keys \ scrape.todo, g \in Nat :
            g \in DOMAIN lists'[k] /\ scrape.open = {<<k, g>>}
    BY <1>4 DEF ScrapeOK
  <1>7. \A k \in scrape'.todo : Exists(k)'
    BY <1>1, <1>4, <1>5 DEF ScrapeOK
  <1> QED
    BY <1>1, <1>3, <1>6, <1>7 DEF ScrapeOK

\* The list that is in use has a place.
LEMMA CurrentPlace ==
  ASSUME TypeOK, NEW k \in Made
  PROVE  /\ k \in Keys /\ lists[k] \in Seq(Entry)
         /\ Len(lists[k]) \in DOMAIN lists[k] /\ Len(lists[k]) \in Nat
         /\ Current(k) \in Entry
  <1>1. k \in Keys /\ lists[k] \in Seq(Entry) /\ lists[k] # <<>>
    BY DEF Made, Exists, TypeOK, Entry
  <1>2. Len(lists[k]) \in DOMAIN lists[k] /\ Len(lists[k]) \in Nat
    BY <1>1, EmptySeq, LenProperties
  <1> QED
    BY <1>1, <1>2, LenProperties, ElementOfSeq DEF Current

LEMMA VisitorScrapeOK ==
  ASSUME Inv, ScrapeOK, ScrapeArrives \/ Scrape \/ Read
  PROVE  ScrapeOK'
  <1> USE DEF ScrapeStep, Scanning
  <1>1. /\ UNCHANGED <<pc, load, lists, totals>>
        /\ Halfway' = Halfway /\ \A k : Exists(k)' = Exists(k)
    BY VisitorsStep DEF writing, history, Halfway, Exists
  <1>2. scrape \in Scrapes /\ totals \in [Keys -> Nat] /\ requests \in Nat
    BY DEF ScrapeOK, Inv, TypeOK
  <1>3. CASE Read
    BY <1>1, <1>3 DEF Read, ReaderOpen, ReaderCopy, ReaderNext, ReaderRaises, ReaderStep, ScrapeOK
  <1>4. CASE ScrapeArrives
    BY <1>1, <1>2, <1>4 DEF ScrapeArrives, ScrapeOK, Scrapes
  <1>5. CASE ScrapeOpen
    <2>1. Halfway \subseteq Failures
      BY DEF Halfway
    <2> QED
      BY <1>1, <1>2, <1>5, <2>1 DEF ScrapeOpen, ScrapeOK, Scrapes
  <1>6. CASE ScrapeKeys
    BY <1>1, <1>2, <1>6 DEF ScrapeKeys, ScrapeOK, Scrapes, Made
  <1>7. CASE ScrapeKey
    <2>1. PICK k \in scrape.todo :
            scrape' = [scrape EXCEPT !.at = "bucket", !.todo = @ \ {k},
                                     !.open = {<<k, Len(lists[k])>>}, !.seen = <<>>]
      BY <1>7 DEF ScrapeKey
    <2>2. k \in Made
      BY DEF ScrapeOK, Scrapes, Made
    <2>3. k \in Keys /\ Len(lists[k]) \in DOMAIN lists[k] /\ Len(lists[k]) \in Nat
      BY <2>2, CurrentPlace DEF Inv
    <2>4. scrape' \in Scrapes /\ Len(scrape'.seen) < Len(Bounds)
      <3>1. <<>> \in Seq(Nat) /\ Len(<<>>) = 0 /\ Len(Bounds) > 0
        BY EmptySeq, BucketsRange
      <3>2. {<<k, Len(lists[k])>>} \in SUBSET (Keys \X Nat)
        BY <2>3
      <3>3. scrape'.seen = <<>>
        BY <1>2, <2>1 DEF Scrapes
      <3> QED
        BY <1>2, <2>1, <3>1, <3>2, <3>3 DEF Scrapes
    <2>5. \E q \in Keys \ scrape'.todo, g \in Nat :
            g \in DOMAIN lists'[q] /\ scrape'.open = {<<q, g>>}
      BY <1>1, <1>2, <2>1, <2>3 DEF Scrapes
    <2> QED
      BY <1>1, <1>2, <1>7, <2>1, <2>4, <2>5 DEF ScrapeKey, ScrapeOK, Scrapes
  <1>8. CASE ScrapeBucket
    <2>1. PICK o \in scrape.open :
            scrape' = [scrape EXCEPT
              !.at = IF Len(scrape.seen) + 1 = Len(Bounds) THEN "inf" ELSE "bucket",
              !.seen = Append(@, lists[o[1]][o[2]].counts[Len(scrape.seen) + 1])]
      BY <1>8 DEF ScrapeBucket
    <2>2. PICK k \in Keys \ scrape.todo, g \in Nat :
            g \in DOMAIN lists[k] /\ scrape.open = {<<k, g>>}
      BY <1>8 DEF ScrapeBucket, ScrapeOK
    <2>3. lists[k][g] \in Entry /\ o[1] = k /\ o[2] = g
      <3>1. lists[k] \in Seq(Entry)
        BY DEF Inv, TypeOK, Entry
      <3>2. lists[k][g] \in Entry
        BY <2>2, <3>1, LenProperties, ElementOfSeq
      <3>3. o = <<k, g>>
        BY <2>1, <2>2
      <3> QED
        BY <3>2, <3>3
    <2>4. scrape.seen \in Seq(Nat) /\ Len(scrape.seen) \in Nat /\ Len(scrape.seen) + 1 \in Buckets
      BY <1>2, <1>8, BucketsRange, LenProperties DEF ScrapeBucket, ScrapeOK, Scrapes
    <2>5. lists[o[1]][o[2]].counts[Len(scrape.seen) + 1] \in Nat
      BY <2>3, <2>4 DEF Entry
    <2>6. scrape'.seen \in Seq(Nat) /\ Len(scrape'.seen) = Len(scrape.seen) + 1
      BY <1>2, <2>1, <2>4, <2>5, AppendProperties DEF Scrapes
    <2>7. scrape' \in Scrapes
      BY <1>2, <2>1, <2>6 DEF Scrapes
    <2>8. /\ scrape'.at = "bucket" => Len(scrape'.seen) < Len(Bounds)
          /\ scrape'.at = "inf" => Len(scrape'.seen) = Len(Bounds)
          /\ scrape'.at \in {"bucket", "inf"}
      BY <1>2, <2>1, <2>4, <2>6, BucketsRange DEF Scrapes
    <2>9. scrape'.open = scrape.open /\ scrape'.todo = scrape.todo /\ scrape'.across = scrape.across
      BY <1>2, <2>1 DEF Scrapes
    <2> QED
      BY <1>1, <1>8, <2>2, <2>7, <2>8, <2>9 DEF ScrapeBucket, ScrapeOK
  <1>9. CASE ScrapeInf
    <2>1. PICK k \in Keys \ scrape.todo, g \in Nat :
            g \in DOMAIN lists[k] /\ scrape.open = {<<k, g>>}
      BY <1>9 DEF ScrapeInf, ScrapeOK
    <2>2. scrape' = [scrape EXCEPT !.at = "count", !.inf = totals[k]]
      <3>1. \A o \in scrape.open : o[1] = k
        BY <2>1
      <3> QED
        BY <1>9, <3>1 DEF ScrapeInf
    <2>3. scrape' \in Scrapes
      BY <1>2, <2>2 DEF Scrapes
    <2>4. /\ scrape'.at = "count" /\ scrape'.todo = scrape.todo /\ scrape'.open = scrape.open
          /\ scrape'.seen = scrape.seen /\ scrape'.across = scrape.across
      BY <1>2, <2>2 DEF Scrapes
    <2> QED
      BY <1>1, <1>9, <2>1, <2>3, <2>4 DEF ScrapeInf, ScrapeOK
  <1>10. CASE ScrapeCount
    <2>1. PICK k \in Keys \ scrape.todo, g \in Nat :
            g \in DOMAIN lists[k] /\ scrape.open = {<<k, g>>}
      BY <1>10 DEF ScrapeCount, ScrapeOK
    <2>2. scrape' = [scrape EXCEPT !.at = "counted", !.open = {<<k, totals[k]>>},
                                   !.observed = @ + totals[k]]
      <3>1. \A o \in scrape.open : o[1] = k
        BY <2>1
      <3> QED
        BY <1>10, <3>1 DEF ScrapeCount
    <2>3. scrape.observed + totals[k] \in Nat
      BY <1>2 DEF Scrapes
    <2>4. scrape' \in Scrapes
      <3>1. {<<k, totals[k]>>} \in SUBSET (Keys \X Nat)
        BY <1>2
      <3> QED
        BY <1>2, <2>2, <2>3, <3>1 DEF Scrapes
    <2> QED
      BY <1>1, <1>2, <1>10, <2>2, <2>4 DEF ScrapeCount, ScrapeOK, Scrapes
  <1>11. CASE ScrapeNext
    BY <1>1, <1>2, <1>11 DEF ScrapeNext, ScrapeOK, Scrapes
  <1>12. CASE ScrapeClose
    BY <1>1, <1>2, <1>12 DEF ScrapeClose, ScrapeOK, Scrapes
  <1> QED
    BY <1>3, <1>4, <1>5, <1>6, <1>7, <1>8, <1>9, <1>10, <1>11, <1>12 DEF Scrape

LEMMA InvHolds == Spec => [](Inv /\ ScrapeOK)
  <1>1. Init => ScrapeOK
    BY EmptySeq, MetricsAssumption DEF Init, ScrapeOK, Scrapes, Scanning
  <1>2. Inv /\ ScrapeOK /\ [Next]_vars => (Inv /\ ScrapeOK)'
    <2>1. ASSUME Inv, ScrapeOK, NEW w \in Observers, Write(w) PROVE (Inv /\ ScrapeOK)'
      BY <2>1, WriteInv, WriteScrapeOK
    <2>2. ASSUME Inv, ScrapeOK, ScrapeArrives \/ Scrape \/ Read PROVE (Inv /\ ScrapeOK)'
      BY <2>2, VisitorsStep, VisitorInv, VisitorScrapeOK
    <2>3. ASSUME Inv, ScrapeOK, UNCHANGED vars PROVE (Inv /\ ScrapeOK)'
      <3>1. Inv'
        BY <2>3, VisitorInv DEF vars, writing, counters, history
      <3>2. ScrapeOK'
        BY <2>3 DEF vars, writing, counters, history, ScrapeOK, Halfway, Exists
      <3> QED
        BY <3>1, <3>2
    <2> QED
      BY <2>1, <2>2, <2>3 DEF Next
  <1> QED
    BY <1>1, <1>2, InvInit, PTL DEF Spec

\* The state is of its type, the lock has one holder, and every sample's pool exists.
THEOREM TypeCorrect == Spec => []TypeOK
  <1>1. Inv => TypeOK
    BY DEF Inv
  <1> QED
    BY <1>1, InvHolds, PTL

-----------------------------------------------------------------------------
(***************************************************************************)
(* What the histogram holds.  For each part of it there is a set of         *)
(* observers that it counts, which one step of one observer makes larger.   *)
(***************************************************************************)
Within(k, i)    == {w \in Observing(k) : Value(w) <= Bounds[i] /\ bucket[w] > i}
Appending(k, g) == {w \in Observing(k) : pc[w] = "append" /\ held[w] = g}

HistogramInv ==
  \A k \in Keys :
    /\ totals[k] = Cardinality(Observing(k) \cap Tallied)
    /\ Len(lists[k]) = 1 => \A i \in Buckets : lists[k][1].counts[i] = Cardinality(Within(k, i))
    /\ \A g \in DOMAIN lists[k] :
         Len(lists[k][g].pool) + Cardinality(Appending(k, g)) <= MaxSamples + Cardinality(Failures)

LEMMA ObserversFinite ==
  ASSUME NEW S \in SUBSET Observers
  PROVE  IsFiniteSet(S) /\ Cardinality(S) \in Nat
  BY MetricsAssumption, FS_Subset, FS_CardinalityType

LEMMA OneMore ==
  ASSUME NEW S \in SUBSET Observers, NEW w \in Observers, w \notin S
  PROVE  Cardinality(S \cup {w}) = Cardinality(S) + 1
  BY ObserversFinite, FS_AddElement

LEMMA OneLess ==
  ASSUME NEW S \in SUBSET Observers, NEW w \in S
  PROVE  Cardinality(S \ {w}) = Cardinality(S) - 1
  BY ObserversFinite, FS_RemoveElement

LEMMA NoMore ==
  ASSUME NEW T \in SUBSET Observers, NEW S \in SUBSET T
  PROVE  Cardinality(S) <= Cardinality(T)
  BY ObserversFinite, FS_Subset

LEMMA DisjointUnion ==
  ASSUME NEW S \in SUBSET Observers, NEW T \in SUBSET Observers, S \cap T = {}
  PROVE  Cardinality(S \cup T) = Cardinality(S) + Cardinality(T)
  <1>1. IsFiniteSet(S) /\ IsFiniteSet(T) /\ Cardinality(S) \in Nat /\ Cardinality(T) \in Nat
    BY ObserversFinite
  <1>2. Cardinality(S \cup T) = Cardinality(S) + Cardinality(T) - Cardinality(S \cap T)
    BY <1>1, FS_Union
  <1>3. Cardinality(S \cap T) = 0
    BY FS_EmptySet
  <1> QED
    BY <1>1, <1>2, <1>3

\* A write is of one observer, and of one of these kinds.
LEMMA WriteEffect ==
  ASSUME Inv, NEW w \in Observers, Write(w)
  PROVE  /\ \A q \in Observers : Key(q)' = Key(q) /\ Value(q)' = Value(q)
         /\ \A q \in Observers \ {w} : pc'[q] = pc[q] /\ bucket'[q] = bucket[q] /\ held'[q] = held[q]
         /\ \A k : Observing(k)' = Observing(k)
         /\ CountBucket(w) => bucket'[w] = bucket[w] + 1 /\ pc[w] = "bucket"
         /\ ~CountBucket(w) => bucket' = bucket
         /\ ~CreateLists(w) /\ ~CountBucket(w) /\ ~AppendSample(w) => lists' = lists
         /\ Tally(w) => pc[w] = "tally" /\ pc'[w] \in {"append", "release", "done"}
         /\ ~Tally(w) => totals' = totals
         /\ ~Tally(w) => (pc'[w] \in {"append", "release", "done"} <=> pc[w] \in {"append", "release", "done"})
         /\ pc'[w] = "append" => Tally(w)
         /\ AppendSample(w) => pc[w] = "append"
         /\ ~AppendSample(w) => pc[w] # "append"
         /\ ~Tally(w) => held' = held
  <1> USE DEF Inv, TypeOK, Goto, Write, Acquire, Release, CountError, CountRequest, CheckKey, CreateLists,
              CountBucket, Tally, AppendSample, After, history
  <1>1. \A q \in Observers : Key(q)' = Key(q) /\ Value(q)' = Value(q)
    BY DEF Key, Value
  <1>2. \A k : Observing(k)' = Observing(k)
    BY <1>1 DEF Observing
  <1>3. \A q \in Observers \ {w} : pc'[q] = pc[q] /\ bucket'[q] = bucket[q] /\ held'[q] = held[q]
    OBVIOUS
  <1>4. /\ CountBucket(w) => bucket'[w] = bucket[w] + 1 /\ pc[w] = "bucket"
        /\ ~CountBucket(w) => bucket' = bucket
        /\ ~CreateLists(w) /\ ~CountBucket(w) /\ ~AppendSample(w) => lists' = lists
    OBVIOUS
  <1>5. /\ Tally(w) => pc[w] = "tally" /\ pc'[w] \in {"append", "release", "done"}
        /\ ~Tally(w) => totals' = totals
        /\ ~Tally(w) => (pc'[w] \in {"append", "release", "done"} <=> pc[w] \in {"append", "release", "done"})
    OBVIOUS
  <1>6. /\ pc'[w] = "append" => Tally(w)
        /\ AppendSample(w) => pc[w] = "append"
        /\ ~AppendSample(w) => pc[w] # "append"
        /\ ~Tally(w) => held' = held
    OBVIOUS
  <1> QED
    BY <1>1, <1>2, <1>3, <1>4, <1>5, <1>6

LEMMA TotalsStep ==
  ASSUME Inv, NEW w \in Observers, Write(w), NEW k \in Keys,
         totals[k] = Cardinality(Observing(k) \cap Tallied)
  PROVE  totals'[k] = Cardinality((Observing(k) \cap Tallied)')
  <1>1. CASE Tally(w) /\ Key(w) = k
    <2>1. (Observing(k) \cap Tallied)' = (Observing(k) \cap Tallied) \cup {w}
          /\ w \notin (Observing(k) \cap Tallied) /\ (Observing(k) \cap Tallied) \in SUBSET Observers
      BY <1>1, WriteEffect DEF Tallied, Observing
    <2>2. totals'[k] = totals[k] + 1
      BY <1>1 DEF Tally, Inv, TypeOK
    <2> QED
      BY <2>1, <2>2, OneMore
  <1>2. CASE ~(Tally(w) /\ Key(w) = k)
    <2>1. (Observing(k) \cap Tallied)' = Observing(k) \cap Tallied
      BY <1>2, WriteEffect DEF Tallied, Observing
    <2>2. totals'[k] = totals[k]
      BY <1>2, WriteEffect DEF Tally, Inv, TypeOK
    <2> QED
      BY <2>1, <2>2
  <1> QED
    BY <1>1, <1>2

\* Nobody has counted anything for a label set that has no lists.
LEMMA NoneWithin ==
  ASSUME Inv, NEW k \in Keys, ~Exists(k), NEW i \in Buckets
  PROVE  Within(k, i) = {}
  BY BucketsRange DEF Within, Observing, Inv, Control

LEMMA CountsStep ==
  ASSUME Inv, NEW w \in Observers, Write(w), NEW k \in Keys, NEW i \in Buckets,
         Len(lists[k]) = 1 => lists[k][1].counts[i] = Cardinality(Within(k, i)),
         Len(lists'[k]) = 1
  PROVE  lists'[k][1].counts[i] = Cardinality(Within(k, i)')
  <1> DEFINE counts == lists[k][1].counts
  <1>0. lists[k] \in Seq(Entry) /\ Len(lists[k]) \in Nat /\ DOMAIN lists[k] = 1 .. Len(lists[k])
    BY LenProperties DEF Inv, TypeOK, Entry
  <1>1. CASE CreateLists(w) /\ Key(w) = k
    <2>1. Len(lists[k]) = 0 /\ lists'[k][1] = Fresh
      BY <1>0, <1>1, Created
    <2>2. ~Exists(k)
      BY <1>0, <2>1, EmptySeq DEF Exists
    <2>3. Within(k, i)' = Within(k, i)
      BY <1>1, WriteEffect DEF Within, Observing, CreateLists
    <2>4. lists'[k][1].counts[i] = 0
      BY <2>1 DEF Fresh
    <2> QED
      BY <2>2, <2>3, <2>4, NoneWithin, FS_EmptySet
  <1>2. CASE CountBucket(w) /\ Key(w) = k /\ i = bucket[w] /\ Value(w) <= Bounds[i]
    <2>1. Len(lists[k]) = 1 /\ 1 \in DOMAIN lists[k]
      BY <1>0, <1>2, Bumped
    <2>2. lists'[k][1].counts[i] = lists[k][1].counts[i] + 1
      BY <1>2, <2>1, Bumped
    <2>3. Within(k, i)' = Within(k, i) \cup {w} /\ w \notin Within(k, i)
          /\ Within(k, i) \in SUBSET Observers
      <3>1. Within(k, i) \in SUBSET Observers /\ w \in Observing(k)
        BY <1>2 DEF Within, Observing
      <3>2. \A q \in Observing(k) : q \in Within(k, i)' <=> q \in Within(k, i) \/ q = w
        BY <1>2, WriteEffect, BucketsRange DEF Within, Observing
      <3>3. w \notin Within(k, i)
        BY <1>2, BucketsRange DEF Within
      <3> QED
        BY <3>1, <3>2, <3>3, WriteEffect DEF Within
    <2> QED
      BY <2>1, <2>2, <2>3, OneMore
  <1>3. CASE ~(CreateLists(w) /\ Key(w) = k)
             /\ ~(CountBucket(w) /\ Key(w) = k /\ i = bucket[w] /\ Value(w) <= Bounds[i])
    <2>1. Len(lists[k]) = 1 /\ lists'[k][1].counts[i] = lists[k][1].counts[i]
      <3>1. CASE CreateLists(w)
        BY <1>3, <3>1, Created
      <3>2. CASE CountBucket(w)
        <4>1. Len(lists[k]) = 1 /\ 1 \in DOMAIN lists[k]
          BY <1>0, <3>2, Bumped
        <4>2. lists[k][1].counts[i] \in Nat
          <5>1. lists[k][1] \in Entry
            BY <1>0, <4>1, ElementOfSeq
          <5> QED
            BY <5>1 DEF Entry
        <4> QED
          BY <1>3, <3>2, <4>1, <4>2, Bumped
      <3>3. CASE AppendSample(w)
        <4>1. Len(lists[k]) = 1 /\ 1 \in DOMAIN lists[k]
          <5>1. Len(lists[k]) = Len(lists'[k])
            BY <3>3, Appended
          <5> QED
            BY <1>0, <5>1
        <4>2. lists'[k][1].counts = lists[k][1].counts
          BY <3>3, <4>1, Appended
        <4> QED
          BY <4>1, <4>2
      <3>4. CASE lists' = lists
        BY <3>4
      <3> QED
        BY <3>1, <3>2, <3>3, <3>4, WriteEffect
    <2>2. Within(k, i)' = Within(k, i)
      <3>1. \A q \in Observing(k) : q \in Within(k, i)' <=> q \in Within(k, i)
        <4>1. ASSUME NEW q \in Observing(k), q = w, CountBucket(w)
              PROVE  q \in Within(k, i)' <=> q \in Within(k, i)
          <5>1. Key(w) = k /\ bucket[w] \in Buckets /\ bucket'[w] = bucket[w] + 1 /\ Value(w)' = Value(w)
            BY <4>1, WriteEffect DEF Observing, CountBucket
          <5>2. Value(w) <= Bounds[i] => i # bucket[w]
            BY <1>3, <4>1, <5>1
          <5> QED
            BY <4>1, <5>1, <5>2, BucketsRange, WriteEffect DEF Within
        <4>2. ASSUME NEW q \in Observing(k), q # w \/ ~CountBucket(w)
              PROVE  q \in Within(k, i)' <=> q \in Within(k, i)
          BY <4>2, WriteEffect DEF Within, Observing
        <4> QED
          BY <4>1, <4>2
      <3> QED
        BY <3>1, WriteEffect DEF Within
    <2> QED
      BY <2>1, <2>2
  <1> QED
    BY <1>1, <1>2, <1>3

LEMMA FailuresAndOne ==
  ASSUME NEW x, NEW S, S \subseteq Failures \cup {x}
  PROVE  Cardinality(S) <= Cardinality(Failures) + 1
  <1>1. IsFiniteSet(Failures) /\ Cardinality(Failures) \in Nat
    BY ObserversFinite DEF Observers
  <1>2. /\ IsFiniteSet(Failures \cup {x})
        /\ Cardinality(Failures \cup {x}) = Cardinality(Failures) + (IF x \in Failures THEN 0 ELSE 1)
    BY <1>1, FS_AddElement
  <1>3. Cardinality(S) <= Cardinality(Failures \cup {x}) /\ Cardinality(S) \in Nat
    BY <1>2, FS_Subset, FS_CardinalityType
  <1> QED
    BY <1>1, <1>2, <1>3

\* Of those about to append, all but one are failures: a span holds the lock.
PoolBound(k, g) ==
  Len(lists[k][g].pool) + Cardinality(Appending(k, g)) <= MaxSamples + Cardinality(Failures)

LEMMA PoolStep ==
  ASSUME Inv, Inv', NEW w \in Observers, Write(w), NEW k \in Keys,
         \A g \in DOMAIN lists[k] : PoolBound(k, g), NEW g \in DOMAIN lists'[k]
  PROVE  PoolBound(k, g)'
  <1>0. /\ lists[k] \in Seq(Entry) /\ lists'[k] \in Seq(Entry)
        /\ Len(lists[k]) \in Nat /\ DOMAIN lists[k] = 1 .. Len(lists[k])
        /\ DOMAIN lists'[k] = 1 .. Len(lists'[k])
    BY LenProperties DEF Inv, TypeOK, Entry
  <1>1. \A h \in DOMAIN lists[k] : Len(lists[k][h].pool) \in Nat
    <2>1. \A h \in DOMAIN lists[k] : lists[k][h].pool \in Seq(Values)
      BY <1>0, ElementOfSeq DEF Entry
    <2> QED
      BY <2>1, LenProperties
  <1>2. /\ Cardinality(Appending(k, g)) \in Nat /\ Cardinality(Appending(k, g)') \in Nat
        /\ Cardinality(Failures) \in Nat /\ MaxSamples \in Nat
        /\ Cardinality(Appending(k, g)') <= Cardinality(Failures) + 1
    <2>1. Appending(k, g) \in SUBSET Observers /\ Appending(k, g)' \in SUBSET Observers
          /\ Failures \in SUBSET Observers
      BY DEF Appending, Observing, Observers
    <2>2. Cardinality(Appending(k, g)') <= Cardinality(Failures) + 1
      <3>1. PICK x : lock' \in {{}, {x}}
        BY DEF Inv, TypeOK
      <3>2. Appending(k, g)' \subseteq Failures \cup {x}
        BY <3>1 DEF Appending, Observing, Observers, Inv, Control
      <3> QED
        BY <3>2, FailuresAndOne
    <2> QED
      BY <2>1, <2>2, ObserversFinite, MetricsAssumption
  <1>3. CASE CreateLists(w)
    <2>1. Appending(k, g)' = Appending(k, g)
      BY <1>3, WriteEffect DEF Appending, Observing, CreateLists, Goto, Inv, TypeOK
    <2>2. CASE g \in DOMAIN lists[k]
      <3>1. lists'[k][g] = lists[k][g]
        BY <1>3, <2>2, Created
      <3> QED
        BY <2>1, <2>2, <3>1 DEF PoolBound
    <2>3. CASE g \notin DOMAIN lists[k]
      <3>1. g = Len(lists[k]) + 1 /\ lists'[k][g] = Fresh
        <4>1. Key(w) = k
          BY <1>3, <2>3, Created
        <4>2. Len(lists'[k]) = Len(lists[k]) + 1 /\ lists'[k][Len(lists[k]) + 1] = Fresh
          BY <1>3, <4>1, Created
        <4> QED
          BY <1>0, <2>3, <4>2
      <3>2. Len(lists'[k][g].pool) = 0
        BY <3>1, EmptySeq DEF Fresh
      <3>3. Appending(k, g) = {}
        BY <2>3 DEF Appending, Observing, Inv, TypeOK
      <3> QED
        BY <1>2, <2>1, <3>2, <3>3, FS_EmptySet DEF PoolBound
    <2> QED
      BY <2>2, <2>3
  <1>4. CASE Tally(w)
    <2>1. lists' = lists /\ g \in DOMAIN lists[k]
      BY <1>4 DEF Tally
    <2>2. CASE pc'[w] = "append" /\ Key(w) = k /\ held'[w] = g
      <3>1. g = Len(lists[k]) /\ Len(lists[k][g].pool) < MaxSamples
        BY <1>4, <2>2 DEF Tally, Goto, After, Current, Inv, TypeOK
      <3> QED
        BY <1>1, <1>2, <2>1, <3>1 DEF PoolBound
    <2>3. CASE ~(pc'[w] = "append" /\ Key(w) = k /\ held'[w] = g)
      <3>1. Appending(k, g)' = Appending(k, g)
        BY <1>4, <2>3, WriteEffect DEF Appending, Observing
      <3> QED
        BY <2>1, <3>1 DEF PoolBound
    <2> QED
      BY <2>2, <2>3
  <1>5. CASE AppendSample(w)
    <2>1. g \in DOMAIN lists[k]
      BY <1>5, Appended
    <2>2. CASE Key(w) = k /\ held[w] = g
      <3>1. Appending(k, g)' = Appending(k, g) \ {w} /\ w \in Appending(k, g)
            /\ Appending(k, g) \in SUBSET Observers
        <4>1. pc[w] = "append" /\ pc'[w] # "append" /\ held' = held
          BY <1>5 DEF AppendSample, Goto, After, Inv, TypeOK
        <4> QED
          BY <2>2, <4>1, WriteEffect DEF Appending, Observing
      <3>2. Len(lists'[k][g].pool) = Len(lists[k][g].pool) + 1
        BY <1>5, <2>1, <2>2, Appended
      <3>3. Cardinality(Appending(k, g)') = Cardinality(Appending(k, g)) - 1
        BY <3>1, OneLess
      <3> QED
        BY <1>1, <1>2, <2>1, <3>2, <3>3 DEF PoolBound
    <2>3. CASE ~(Key(w) = k /\ held[w] = g)
      <3>1. Appending(k, g)' = Appending(k, g)
        <4>1. pc'[w] # "append" /\ held' = held
          BY <1>5 DEF AppendSample, Goto, After, Inv, TypeOK
        <4>2. w \notin Appending(k, g) /\ w \notin Appending(k, g)'
          BY <2>3, <4>1, WriteEffect DEF Appending, Observing
        <4>3. \A q \in Observing(k) \ {w} : q \in Appending(k, g)' <=> q \in Appending(k, g)
          BY <4>1, WriteEffect DEF Appending, Observing
        <4> QED
          BY <4>2, <4>3, WriteEffect DEF Appending
      <3>2. Len(lists'[k][g].pool) = Len(lists[k][g].pool) + 0
        BY <1>5, <2>1, <2>3, Appended
      <3> QED
        BY <1>1, <2>1, <3>1, <3>2 DEF PoolBound
    <2> QED
      BY <2>2, <2>3
  <1>6. CASE ~CreateLists(w) /\ ~Tally(w) /\ ~AppendSample(w)
    <2>1. Appending(k, g)' = Appending(k, g)
      BY <1>6, WriteEffect DEF Appending, Observing
    <2>2. g \in DOMAIN lists[k] /\ lists'[k][g].pool = lists[k][g].pool
      <3>1. CASE CountBucket(w)
        BY <3>1, Bumped
      <3>2. CASE lists' = lists
        BY <3>2
      <3> QED
        BY <1>6, <3>1, <3>2, WriteEffect
    <2> QED
      BY <2>1, <2>2 DEF PoolBound
  <1> QED
    BY <1>3, <1>4, <1>5, <1>6

LEMMA HistogramHolds == Spec => []HistogramInv
  <1>1. Init => HistogramInv
    <2> SUFFICES ASSUME Init, NEW k \in Keys
                 PROVE  /\ totals[k] = Cardinality(Observing(k) \cap Tallied)
                        /\ Len(lists[k]) # 1 /\ DOMAIN lists[k] = {}
      BY DEF HistogramInv
    <2>1. Tallied = {}
      BY DEF Init, Tallied
    <2>2. lists[k] = <<>> /\ totals[k] = 0
      BY DEF Init
    <2> QED
      BY <2>1, <2>2, FS_EmptySet, EmptySeq
  <1>2. Inv /\ Inv' /\ ScrapeOK /\ HistogramInv /\ [Next]_vars => HistogramInv'
    <2>1. ASSUME Inv, Inv', HistogramInv, NEW w \in Observers, Write(w) PROVE HistogramInv'
      <3> SUFFICES ASSUME NEW k \in Keys
          PROVE /\ totals'[k] = Cardinality((Observing(k) \cap Tallied)')
                /\ Len(lists'[k]) = 1 =>
                     \A i \in Buckets : lists'[k][1].counts[i] = Cardinality(Within(k, i)')
                /\ \A g \in DOMAIN lists'[k] : PoolBound(k, g)'
        BY DEF HistogramInv, PoolBound
      <3>1. totals'[k] = Cardinality((Observing(k) \cap Tallied)')
        BY <2>1, TotalsStep DEF HistogramInv
      <3>2. Len(lists'[k]) = 1 => \A i \in Buckets : lists'[k][1].counts[i] = Cardinality(Within(k, i)')
        BY <2>1, CountsStep DEF HistogramInv
      <3>3. \A g \in DOMAIN lists'[k] : PoolBound(k, g)'
        <4>1. \A g \in DOMAIN lists[k] : PoolBound(k, g)
          BY <2>1 DEF HistogramInv, PoolBound
        <4> QED
          BY <2>1, <4>1, PoolStep
      <3> QED
        BY <3>1, <3>2, <3>3
    <2>2. ASSUME HistogramInv, UNCHANGED <<writing, counters, history>> PROVE HistogramInv'
      BY <2>2 DEF HistogramInv, writing, history, Observing, Tallied, Within, Appending, Key, Value
    <2> QED
      BY <2>1, <2>2, VisitorsStep DEF Next, vars
  <1> QED
    BY <1>1, <1>2, InvHolds, PTL DEF Spec

\* The count of a label set is the observations that have got so far, its buckets are
\* right unless its lists have been made twice, and its pools keep to the cap but for
\* one sample of each thread that does not take the lock.
THEOREM HistogramIsExact == Spec => []HistogramExact
  <1>1. Inv /\ HistogramInv => HistogramExact
    <2> SUFFICES ASSUME Inv, HistogramInv, NEW k \in Keys
        PROVE /\ totals[k] = Cardinality(Observing(k) \cap Tallied)
              /\ Len(lists[k]) = 1 =>
                   \A i \in Buckets : Current(k).counts[i] = Cardinality(Within(k, i))
              /\ \A g \in DOMAIN lists[k] :
                   Len(lists[k][g].pool) <= MaxSamples + Cardinality(Failures)
      BY DEF HistogramExact, Within
    <2>1. ASSUME NEW g \in DOMAIN lists[k]
          PROVE  Len(lists[k][g].pool) <= MaxSamples + Cardinality(Failures)
      <3>1. lists[k] \in Seq(Entry)
        BY DEF Inv, TypeOK, Entry
      <3>2. lists[k][g].pool \in Seq(Values)
        <4>1. lists[k][g] \in Entry
          BY <3>1, LenProperties, ElementOfSeq
        <4> QED
          BY <4>1 DEF Entry
      <3>3. Len(lists[k][g].pool) \in Nat
        BY <3>2, LenProperties
      <3>4. /\ Cardinality(Appending(k, g)) \in Nat
            /\ Cardinality(Failures) \in Nat /\ MaxSamples \in Nat
        BY ObserversFinite, MetricsAssumption DEF Appending, Observing, Observers
      <3>5. Len(lists[k][g].pool) + Cardinality(Appending(k, g)) <= MaxSamples + Cardinality(Failures)
        BY DEF HistogramInv
      <3> QED
        BY <3>3, <3>4, <3>5
    <2> QED
      BY <2>1 DEF HistogramInv, Current
  <1> QED
    BY <1>1, InvHolds, HistogramHolds, PTL

-----------------------------------------------------------------------------
(***************************************************************************)
(* What a scrape reads.  The list in use is cumulative but for the          *)
(* observations on their way from one bucket to the next, and its last      *)
(* bucket is counted but for those that are yet to be tallied.              *)
(***************************************************************************)
Between(k, i, j) ==
  {w \in Observing(k) : Value(w) <= Bounds[i] /\ i < bucket[w] /\ bucket[w] <= j}
Untallied(k) == {w \in Observing(k) : pc[w] = "tally"}

CumulativeUpTo(k, i, j) ==
  Current(k).counts[i] <= Current(k).counts[j] + Cardinality(Between(k, i, j))
AllCounted(k) == Current(k).counts[Len(Bounds)] <= totals[k] + Cardinality(Untallied(k))

CumulativeInv ==
  \A k \in Made :
    /\ \A i, j \in Buckets : i <= j => CumulativeUpTo(k, i, j)
    /\ AllCounted(k)

\* What the next step of w adds to bucket i of list g.
Adds(w, k, g, i) ==
  IF /\ pc[w] = "bucket" /\ k = Key(w) /\ g = Len(lists[k]) /\ i = bucket[w]
     /\ Value(w) <= Bounds[i]
  THEN 1 ELSE 0

LEMMA CountsMove ==
  ASSUME Inv, NEW w \in Observers, Write(w), NEW k \in Keys, NEW g \in DOMAIN lists[k],
         NEW i \in Buckets
  PROVE  /\ lists[k][g].counts[i] \in Nat
         /\ lists'[k][g].counts[i] = lists[k][g].counts[i] + Adds(w, k, g, i)
  <1>1. lists[k][g].counts[i] \in Nat
    <2>1. lists[k] \in Seq(Entry)
      BY DEF Inv, TypeOK, Entry
    <2>2. lists[k][g] \in Entry
      BY <2>1, LenProperties, ElementOfSeq
    <2> QED
      BY <2>2 DEF Entry
  <1>2. CASE CountBucket(w)
    <2>1. pc[w] = "bucket"
      BY <1>2, WriteEffect
    <2> QED
      BY <1>1, <1>2, <2>1, Bumped DEF Adds
  <1>3. CASE ~CountBucket(w)
    <2>1. pc[w] # "bucket"
      BY <1>3 DEF Write, Acquire, Release, CountError, CountRequest, CheckKey, CreateLists,
                  Tally, AppendSample, Goto
    <2>2. lists'[k][g].counts[i] = lists[k][g].counts[i]
      <3>1. CASE CreateLists(w)
        <4>1. lists'[k][g] = lists[k][g]
          BY <3>1, Created
        <4> QED
          BY <4>1
      <3>2. CASE AppendSample(w)
        <4>1. lists'[k][g].counts = lists[k][g].counts
          BY <3>2, Appended
        <4> QED
          BY <4>1
      <3>3. CASE lists' = lists
        BY <3>3
      <3> QED
        BY <1>3, <3>1, <3>2, <3>3, WriteEffect
    <2> QED
      BY <1>1, <2>1, <2>2 DEF Adds
  <1> QED
    BY <1>2, <1>3

\* The list in use is a new one, with nothing in it, or the same.
LEMMA CurrentMoves ==
  ASSUME Inv, NEW w \in Observers, Write(w), NEW k \in Keys, Exists(k)'
  PROVE  \/ \A i \in Buckets : Current(k)'.counts[i] = 0
         \/ /\ k \in Made
            /\ \A i \in Buckets :
                 /\ Current(k).counts[i] \in Nat
                 /\ Current(k)'.counts[i] = Current(k).counts[i] + Adds(w, k, Len(lists[k]), i)
  <1>1. CASE CreateLists(w) /\ Key(w) = k
    <2>1. Current(k)' = Fresh
      BY <1>1, Created DEF Current
    <2> QED
      BY <2>1 DEF Fresh
  <1>2. CASE ~(CreateLists(w) /\ Key(w) = k)
    <2>1. Len(lists'[k]) = Len(lists[k])
      <3>1. CASE CreateLists(w)
        <4>1. lists'[k] = lists[k]
          BY <1>2, <3>1, Created
        <4> QED
          BY <4>1
      <3>2. CASE CountBucket(w)
        BY <3>2, Bumped
      <3>3. CASE AppendSample(w)
        BY <3>3, Appended
      <3>4. CASE lists' = lists
        BY <3>4
      <3> QED
        BY <3>1, <3>2, <3>3, <3>4, WriteEffect
    <2>2. k \in Made
      <3>1. lists[k] \in Seq(Entry) /\ lists'[k] \in Seq(Entry)
        BY WriteLists DEF Inv, TypeOK, Entry
      <3> QED
        BY <2>1, <3>1, EmptySeq DEF Exists, Made
    <2>3. Len(lists[k]) \in DOMAIN lists[k]
      BY <2>2, CurrentPlace DEF Inv
    <2> QED
      BY <2>1, <2>2, <2>3, CountsMove DEF Current
  <1> QED
    BY <1>1, <1>2

LEMMA KindsFinite ==
  ASSUME NEW k, NEW i, NEW j
  PROVE  /\ Between(k, i, j) \in SUBSET Observers /\ Cardinality(Between(k, i, j)) \in Nat
         /\ Untallied(k) \in SUBSET Observers /\ Cardinality(Untallied(k)) \in Nat
  <1>1. Between(k, i, j) \in SUBSET Observers /\ Untallied(k) \in SUBSET Observers
    BY DEF Between, Untallied, Observing
  <1> QED
    BY <1>1, ObserversFinite

LEMMA CumulativeStep ==
  ASSUME Inv, NEW w \in Observers, Write(w), NEW k \in Keys, Exists(k)',
         NEW i \in Buckets, NEW j \in Buckets, i <= j, k \in Made => CumulativeUpTo(k, i, j)
  PROVE  CumulativeUpTo(k, i, j)'
  <1> DEFINE c(n) == Current(k).counts[n]
             S == Between(k, i, j)
             T == Between(k, i, j)'
             b == bucket[w]
             add(n) == Adds(w, k, Len(lists[k]), n)
  <1>1. S \in SUBSET Observers /\ Cardinality(S) \in Nat /\ Cardinality(T) \in Nat
    <2>1. T \in SUBSET Observers
      BY DEF Between, Observing
    <2> QED
      BY <2>1, KindsFinite, ObserversFinite
  <1>2. CASE \A n \in Buckets : Current(k)'.counts[n] = 0
    BY <1>1, <1>2 DEF CumulativeUpTo
  <1>3. CASE k \in Made /\ \A n \in Buckets :
               c(n) \in Nat /\ Current(k)'.counts[n] = c(n) + add(n)
    <2>0. /\ Value(w) \in Nat /\ Bounds[i] \in Nat /\ Bounds[j] \in Nat /\ Bounds[i] <= Bounds[j]
          /\ b \in Nat /\ i \in Nat /\ j \in Nat
      <3>1. Value(w) \in Nat /\ b \in 1 .. Len(Bounds) + 1
        BY LoadType DEF Inv, TypeOK
      <3>2. Bounds[i] \in Nat /\ Bounds[j] \in Nat /\ Bounds[i] <= Bounds[j]
        BY MetricsAssumption, BucketsRange, ElementOfSeq
      <3>3. b \in Nat /\ i \in Nat /\ j \in Nat
        BY <3>1, BucketsRange
      <3> QED
        BY <3>1, <3>2, <3>3
    <2>1. c(i) <= c(j) + Cardinality(S)
      BY <1>3 DEF CumulativeUpTo
    <2>2. \A q \in Observing(k) \ {w} : q \in T <=> q \in S
      BY WriteEffect DEF Between, Observing
    <2>3. CASE CountBucket(w) /\ Key(w) = k /\ Value(w) <= Bounds[i] /\ i <= b /\ b <= j
      <3>0. pc[w] = "bucket" /\ bucket'[w] = b + 1 /\ w \in Observing(k) /\ Value(w)' = Value(w)
        BY <2>3, WriteEffect DEF Observing
      <3>1. CASE i = j
        <4>1. add(i) \in {0, 1}
          BY DEF Adds
        <4>2. Current(k)'.counts[i] \in Nat
          <5>1. c(i) \in Nat /\ Current(k)'.counts[i] = c(i) + add(i)
            BY <1>3
          <5> QED
            BY <4>1, <5>1
        <4> QED
          BY <1>1, <3>1, <4>2 DEF CumulativeUpTo
      <3>2. CASE i < j /\ b = i
        <4>1. T = S \cup {w} /\ w \notin S
          BY <2>0, <2>2, <2>3, <3>0, <3>2, WriteEffect DEF Between
        <4>2. add(i) = 1 /\ add(j) = 0
          BY <2>0, <2>3, <3>0, <3>2 DEF Adds
        <4>3. Cardinality(T) = Cardinality(S) + 1
          BY <1>1, <4>1, OneMore
        <4>4. Current(k)'.counts[i] = c(i) + 1 /\ Current(k)'.counts[j] = c(j) + 0
          BY <1>3, <4>2
        <4> QED
          BY <1>1, <1>3, <2>1, <4>3, <4>4 DEF CumulativeUpTo
      <3>3. CASE i < b /\ b < j
        <4>1. T = S
          BY <2>0, <2>2, <2>3, <3>0, <3>3, WriteEffect DEF Between
        <4>2. add(i) = 0 /\ add(j) = 0
          BY <2>0, <3>3 DEF Adds
        <4>3. Current(k)'.counts[i] = c(i) + 0 /\ Current(k)'.counts[j] = c(j) + 0
          BY <1>3, <4>2
        <4> QED
          BY <1>1, <1>3, <2>1, <4>1, <4>3 DEF CumulativeUpTo
      <3>4. CASE i < b /\ b = j
        <4>1. T = S \ {w} /\ w \in S
          BY <2>0, <2>2, <2>3, <3>0, <3>4, WriteEffect DEF Between
        <4>2. add(i) = 0 /\ add(j) = 1
          BY <2>0, <2>3, <3>0, <3>4 DEF Adds
        <4>3. Cardinality(T) = Cardinality(S) - 1
          BY <1>1, <4>1, OneLess
        <4>4. Current(k)'.counts[i] = c(i) + 0 /\ Current(k)'.counts[j] = c(j) + 1
          BY <1>3, <4>2
        <4> QED
          BY <1>1, <1>3, <2>1, <4>3, <4>4 DEF CumulativeUpTo
      <3> QED
        BY <2>0, <2>3, <3>1, <3>2, <3>3, <3>4
    <2>4. CASE ~(CountBucket(w) /\ Key(w) = k /\ Value(w) <= Bounds[i] /\ i <= b /\ b <= j)
      <3>1. w \in T <=> w \in S
        <4>1. CASE CountBucket(w)
          <5>1. w \in Observing(k) => Key(w) = k
            BY DEF Observing
          <5>2. bucket'[w] = b + 1 /\ Value(w)' = Value(w)
            BY <4>1, WriteEffect
          <5> QED
            BY <2>0, <2>4, <4>1, <5>1, <5>2, WriteEffect DEF Between
        <4>2. CASE ~CountBucket(w)
          BY <4>2, WriteEffect DEF Between
        <4> QED
          BY <4>1, <4>2
      <3>2. T = S
        BY <2>2, <3>1, WriteEffect DEF Between
      <3>3. add(i) = 0
        <4>1. pc[w] = "bucket" => CountBucket(w)
          BY DEF Write, Acquire, Release, CountError, CountRequest, CheckKey, CreateLists,
                 Tally, AppendSample, Goto
        <4> QED
          BY <2>0, <2>4, <4>1 DEF Adds
      <3>4. add(j) \in {0, 1}
        BY DEF Adds
      <3>5. Current(k)'.counts[i] = c(i) + 0 /\ Current(k)'.counts[j] \in {c(j) + 0, c(j) + 1}
        BY <1>3, <3>3, <3>4
      <3> QED
        BY <1>1, <1>3, <2>1, <3>2, <3>5 DEF CumulativeUpTo
    <2> QED
      BY <2>3, <2>4
  <1> QED
    BY <1>2, <1>3, CurrentMoves

LEMMA AllCountedStep ==
  ASSUME Inv, NEW w \in Observers, Write(w), NEW k \in Keys, Exists(k)',
         k \in Made => AllCounted(k)
  PROVE  AllCounted(k)'
  <1> DEFINE L == Len(Bounds)
             c == Current(k).counts[L]
             S == Untallied(k)
             T == Untallied(k)'
             add == Adds(w, k, Len(lists[k]), L)
  <1>0. /\ L \in Buckets /\ totals[k] \in Nat /\ totals'[k] \in Nat
        /\ S \in SUBSET Observers /\ Cardinality(S) \in Nat /\ Cardinality(T) \in Nat
    <2>1. T \in SUBSET Observers
      BY DEF Untallied, Observing
    <2>2. L \in Buckets
      BY BucketsRange
    <2>3. totals[k] \in Nat /\ totals'[k] \in Nat
      BY WriteTypes DEF Inv, TypeOK
    <2> QED
      BY <2>1, <2>2, <2>3, KindsFinite, ObserversFinite
  <1>1. CASE \A n \in Buckets : Current(k)'.counts[n] = 0
    BY <1>0, <1>1 DEF AllCounted
  <1>2. CASE k \in Made /\ \A n \in Buckets :
               Current(k).counts[n] \in Nat
               /\ Current(k)'.counts[n] = Current(k).counts[n] + Adds(w, k, Len(lists[k]), n)
    <2>1. c <= totals[k] + Cardinality(S) /\ c \in Nat
      BY <1>0, <1>2 DEF AllCounted
    <2>2. \A q \in Observing(k) \ {w} : q \in T <=> q \in S
      BY WriteEffect DEF Untallied, Observing
    <2>3. CASE CountBucket(w) /\ Key(w) = k /\ bucket[w] = L
      <3>1. pc[w] = "bucket" /\ pc'[w] = "tally" /\ totals' = totals
        BY <2>3, WriteEffect DEF CountBucket, Goto, Inv, TypeOK, history
      <3>2. T = S \cup {w} /\ w \notin S
        BY <2>2, <2>3, <3>1, WriteEffect DEF Untallied, Observing
      <3>3. Cardinality(T) = Cardinality(S) + 1
        BY <1>0, <3>2, OneMore
      <3>4. Current(k)'.counts[L] \in {c, c + 1}
        <4>1. add \in {0, 1} /\ Current(k)'.counts[L] = c + add
          BY <1>0, <1>2 DEF Adds
        <4> QED
          BY <2>1, <4>1
      <3> QED
        BY <1>0, <2>1, <3>1, <3>3, <3>4 DEF AllCounted
    <2>4. CASE Tally(w) /\ Key(w) = k
      <3>1. pc[w] = "tally" /\ pc'[w] # "tally" /\ totals'[k] = totals[k] + 1
        BY <2>4, WriteEffect DEF Tally, Inv, TypeOK
      <3>2. T = S \ {w} /\ w \in S
        BY <2>2, <2>4, <3>1, WriteEffect DEF Untallied, Observing
      <3>3. Cardinality(T) = Cardinality(S) - 1
        BY <1>0, <3>2, OneLess
      <3>4. Current(k)'.counts[L] = c
        <4>1. add = 0 /\ Current(k)'.counts[L] = c + add
          BY <1>0, <1>2, <3>1 DEF Adds
        <4> QED
          BY <2>1, <4>1
      <3> QED
        BY <1>0, <2>1, <3>1, <3>3, <3>4 DEF AllCounted
    <2>5. CASE ~(CountBucket(w) /\ Key(w) = k /\ bucket[w] = L) /\ ~(Tally(w) /\ Key(w) = k)
      <3>1. w \in Observing(k) => (pc'[w] = "tally" <=> pc[w] = "tally")
        BY <2>5
           DEF Observing, Write, Acquire, Release, CountError, CountRequest, CheckKey, CreateLists,
               CountBucket, Tally, AppendSample, After, Goto, Inv, TypeOK
      <3>2. T = S
        BY <2>2, <3>1, WriteEffect DEF Untallied
      <3>3. totals'[k] = totals[k]
        BY <2>5, WriteEffect DEF Tally, Inv, TypeOK
      <3>4. Current(k)'.counts[L] = c
        <4>1. pc[w] = "bucket" => CountBucket(w)
          BY DEF Write, Acquire, Release, CountError, CountRequest, CheckKey, CreateLists,
                 Tally, AppendSample, Goto
        <4>2. add = 0 /\ Current(k)'.counts[L] = c + add
          BY <1>0, <1>2, <2>5, <4>1 DEF Adds
        <4> QED
          BY <2>1, <4>2
      <3> QED
        BY <2>1, <3>2, <3>3, <3>4 DEF AllCounted
    <2> QED
      BY <2>3, <2>4, <2>5
  <1> QED
    BY <1>1, <1>2, CurrentMoves

LEMMA CumulativeHolds == Spec => []CumulativeInv
  <1>1. Init => CumulativeInv
    BY DEF Init, CumulativeInv, Made, Exists
  <1>2. Inv /\ ScrapeOK /\ CumulativeInv /\ [Next]_vars => CumulativeInv'
    <2>1. ASSUME Inv, CumulativeInv, NEW w \in Observers, Write(w) PROVE CumulativeInv'
      <3> SUFFICES ASSUME NEW k \in Keys, Exists(k)'
          PROVE (\A i, j \in Buckets : i <= j => CumulativeUpTo(k, i, j)') /\ AllCounted(k)'
        BY DEF CumulativeInv, Made
      <3>1. ASSUME NEW i \in Buckets, NEW j \in Buckets, i <= j PROVE CumulativeUpTo(k, i, j)'
        BY <2>1, <3>1, CumulativeStep DEF CumulativeInv
      <3>2. AllCounted(k)'
        BY <2>1, AllCountedStep DEF CumulativeInv
      <3> QED
        BY <3>1, <3>2
    <2>2. ASSUME CumulativeInv, UNCHANGED <<writing, counters, history>> PROVE CumulativeInv'
      BY <2>2 DEF CumulativeInv, CumulativeUpTo, AllCounted, writing, history, Made, Exists, Current,
                  Between, Untallied, Observing, Key, Value
    <2> QED
      BY <2>1, <2>2, VisitorsStep DEF Next, vars
  <1> QED
    BY <1>1, <1>2, InvHolds, PTL DEF Spec

\* llm_requests_total is the observers past its increment.
Requested == {w \in Observers : pc[w] \in {"check", "create"} \cup Begun}
RequestsInv == requests = Cardinality(Requested)

LEMMA RequestsHold == Spec => []RequestsInv
  <1>1. Init => RequestsInv
    <2> SUFFICES ASSUME Init PROVE Requested = {} /\ requests = 0
      BY FS_EmptySet DEF RequestsInv
    <2> QED
      BY DEF Init, Requested, Begun
  <1>2. Inv /\ ScrapeOK /\ RequestsInv /\ [Next]_vars => RequestsInv'
    <2>1. ASSUME Inv, RequestsInv, NEW w \in Observers, Write(w) PROVE RequestsInv'
      <3>1. \A q \in Observers \ {w} : pc'[q] = pc[q]
        BY <2>1, WriteEffect
      <3>2. CASE CountRequest(w)
        <4>1. Requested' = Requested \cup {w} /\ w \notin Requested /\ Requested \in SUBSET Observers
          BY <2>1, <3>1, <3>2 DEF CountRequest, Goto, Requested, Begun, Inv, TypeOK
        <4> QED
          BY <2>1, <3>2, <4>1, OneMore DEF CountRequest, RequestsInv
      <3>3. CASE ~CountRequest(w)
        <4>1. Requested' = Requested /\ requests' = requests
          BY <2>1, <3>1, <3>3
             DEF Write, Acquire, Release, CountError, CheckKey, CreateLists, CountBucket, Tally,
                 AppendSample, After, Goto, Requested, Begun, Inv, TypeOK, counters
        <4> QED
          BY <2>1, <4>1 DEF RequestsInv
      <3> QED
        BY <3>2, <3>3
    <2>2. ASSUME RequestsInv, UNCHANGED <<writing, counters, history>> PROVE RequestsInv'
      BY <2>2 DEF RequestsInv, Requested, writing, counters
    <2> QED
      BY <2>1, <2>2, VisitorsStep DEF Next, vars
  <1> QED
    BY <1>1, <1>2, InvHolds, PTL DEF Spec

-----------------------------------------------------------------------------
(***************************************************************************)
(* What a scrape shows.  Nothing but failures writes while it holds the     *)
(* lock, and each that does joins across before a value can be seen to      *)
(* move: a bucket gains one from an observer that goes past it, and the     *)
(* count from one that goes past the tally.  Reading a bucket changes       *)
(* nothing of what will have been rendered, so the bounds that hold of the  *)
(* histogram (CumulativeInv) when its lists are looked up last to its end.  *)
(***************************************************************************)
Rendered(k, g, i) == IF i <= Len(scrape.seen) THEN scrape.seen[i] ELSE lists[k][g].counts[i]
Passed(k, i) == {w \in scrape.across \cap Observing(k) : bucket[w] > i}
Joined(k)    == scrape.across \cap Observing(k) \cap Tallied

RenderedUpTo(k, g, i, j) ==
  Rendered(k, g, i) <= Rendered(k, g, j) + Cardinality(Passed(k, i))
RenderedCounted(k, g) ==
  Rendered(k, g, Len(Bounds)) <= totals[k] + Cardinality(Passed(k, Len(Bounds)))
SeenUpTo(i, j) == scrape.seen[i] <= scrape.seen[j] + Cardinality(scrape.across)
SeenCounted(k) == scrape.seen[Len(Bounds)] <= totals[k] + Cardinality(Passed(k, Len(Bounds)))
SeenInf        == scrape.seen[Len(Bounds)] <= scrape.inf + Cardinality(scrape.across)
InfCounted(k)  == scrape.inf <= totals[k] /\ totals[k] <= scrape.inf + Cardinality(Joined(k))
InfCount(n)    == scrape.inf <= n /\ n <= scrape.inf + Cardinality(scrape.across)

RenderInv ==
  /\ scrape.at = "bucket" => \A o \in scrape.open :
       /\ \A i, j \in Buckets : i <= j => RenderedUpTo(o[1], o[2], i, j)
       /\ RenderedCounted(o[1], o[2])
  /\ scrape.at = "inf" => \A o \in scrape.open : SeenCounted(o[1])
  /\ scrape.at # "bucket" => \A i, j \in DOMAIN scrape.seen : i <= j => SeenUpTo(i, j)
  /\ scrape.at \in {"count", "counted"} => SeenInf
  /\ scrape.at = "count" => \A o \in scrape.open : InfCounted(o[1])
  /\ scrape.at = "counted" => \E o \in scrape.open : InfCount(o[2])

LEMMA ScrapeValues ==
  ASSUME ScrapeOK
  PROVE  /\ DOMAIN scrape.seen = 1 .. Len(scrape.seen) /\ Len(scrape.seen) \in Nat
         /\ \A i \in DOMAIN scrape.seen : scrape.seen[i] \in Nat
         /\ scrape.inf \in Nat /\ scrape.requests \in Nat /\ scrape.observed \in Nat
         /\ scrape.across \in SUBSET Failures /\ scrape.across \in SUBSET Observers
         /\ scrape.todo \in SUBSET Keys
         /\ Cardinality(scrape.across) \in Nat
         /\ \A k, i : /\ Passed(k, i) \in SUBSET Observers /\ Joined(k) \in SUBSET Observers
                      /\ Cardinality(Passed(k, i)) \in Nat /\ Cardinality(Joined(k)) \in Nat
                      /\ Cardinality(Passed(k, i)) <= Cardinality(scrape.across)
                      /\ Cardinality(Joined(k)) <= Cardinality(scrape.across)
  <1>1. /\ scrape.seen \in Seq(Nat) /\ scrape.inf \in Nat /\ scrape.requests \in Nat
        /\ scrape.observed \in Nat /\ scrape.across \in SUBSET Failures
        /\ scrape.todo \in SUBSET Keys
    BY DEF ScrapeOK, Scrapes
  <1>2. /\ DOMAIN scrape.seen = 1 .. Len(scrape.seen) /\ Len(scrape.seen) \in Nat
        /\ \A i \in DOMAIN scrape.seen : scrape.seen[i] \in Nat
    BY <1>1, LenProperties, ElementOfSeq
  <1>3. scrape.across \in SUBSET Observers
    BY <1>1 DEF Observers
  <1>4. \A k, i : Passed(k, i) \in SUBSET scrape.across /\ Joined(k) \in SUBSET scrape.across
    BY DEF Passed, Joined
  <1>5. Cardinality(scrape.across) \in Nat
    BY <1>3, ObserversFinite
  <1>6. \A k, i : /\ Passed(k, i) \in SUBSET Observers /\ Joined(k) \in SUBSET Observers
                  /\ Cardinality(Passed(k, i)) \in Nat /\ Cardinality(Joined(k)) \in Nat
                  /\ Cardinality(Passed(k, i)) <= Cardinality(scrape.across)
                  /\ Cardinality(Joined(k)) <= Cardinality(scrape.across)
    BY <1>3, <1>4, ObserversFinite, NoMore
  <1> QED
    BY <1>1, <1>2, <1>3, <1>5, <1>6

\* The label set that is being rendered.
LEMMA Opened ==
  ASSUME Inv, ScrapeOK, scrape.at \in {"bucket", "inf", "count"}
  PROVE  \E k \in Keys \ scrape.todo, g \in Nat :
           /\ g \in DOMAIN lists[k] /\ scrape.open = {<<k, g>>}
           /\ \A o \in scrape.open : o[1] = k /\ o[2] = g
           /\ \A i \in Buckets : lists[k][g].counts[i] \in Nat
           /\ totals[k] \in Nat
  <1>1. PICK k \in Keys \ scrape.todo, g \in Nat : g \in DOMAIN lists[k] /\ scrape.open = {<<k, g>>}
    BY DEF ScrapeOK
  <1>2. lists[k] \in Seq(Entry) /\ totals[k] \in Nat
    BY DEF Inv, TypeOK, Entry
  <1>3. lists[k][g] \in Entry
    BY <1>1, <1>2, LenProperties, ElementOfSeq
  <1>4. \A i \in Buckets : lists[k][g].counts[i] \in Nat
    BY <1>3 DEF Entry
  <1> QED
    BY <1>1, <1>2, <1>4

\* While a scrape renders, an observer in the middle of its work is a failure it overlaps.
LEMMA MidwayOverlaps ==
  ASSUME Inv, ScrapeOK, scrape.at \in Scanning, NEW w \in Observers,
         pc[w] \notin {"acquire", "errors", "done"}
  PROVE  w \in scrape.across
  <1>1. lock = {Scraper} /\ lock # {w} /\ Halfway \subseteq scrape.across
    BY MetricsAssumption DEF ScrapeOK
  <1>2. w \in Failures
    BY <1>1 DEF Inv, Control, Observers
  <1> QED
    BY <1>1, <1>2 DEF Halfway

\* A write during a scrape: those it overlaps get no fewer, and one more where a value moves.
LEMMA OverlapStep ==
  ASSUME Inv, ScrapeOK, NEW w \in Observers, Write(w), scrape.at \in Scanning,
         NEW k \in Keys, NEW g \in DOMAIN lists[k], NEW i \in Buckets
  PROVE  /\ Cardinality(Passed(k, i)') \in Nat /\ Cardinality(Joined(k)') \in Nat
         /\ Cardinality(Passed(k, i)) <= Cardinality(Passed(k, i)')
         /\ Cardinality(Joined(k)) <= Cardinality(Joined(k)')
         /\ Adds(w, k, g, i) = 1 => Cardinality(Passed(k, i)') = Cardinality(Passed(k, i)) + 1
         /\ totals[k] \in Nat
         /\ \/ totals'[k] = totals[k]
            \/ totals'[k] = totals[k] + 1 /\ Cardinality(Joined(k)') = Cardinality(Joined(k)) + 1
  <1>0. ScrapeOK'
    BY WriteScrapeOK
  <1>1. /\ scrape.across \in SUBSET Observers /\ scrape'.across = scrape.across \cup {w}
        /\ Passed(k, i) \in SUBSET Observers /\ Joined(k) \in SUBSET Observers
        /\ Cardinality(Passed(k, i)) \in Nat /\ Cardinality(Joined(k)) \in Nat
    BY ScrapeValues, WriteScrape
  <1>2. Passed(k, i)' \in SUBSET Observers /\ Joined(k)' \in SUBSET Observers
    BY <1>1 DEF Passed, Joined
  <1>3. bucket[w] \in Nat /\ bucket'[w] \in Nat /\ bucket[w] <= bucket'[w] /\ i \in Nat
    <2>1. bucket[w] \in Nat /\ i \in Nat
      BY BucketsRange DEF Inv, TypeOK
    <2>2. bucket'[w] = bucket[w] \/ bucket'[w] = bucket[w] + 1
      BY WriteEffect
    <2> QED
      BY <2>1, <2>2
  <1>4. Passed(k, i) \in SUBSET Passed(k, i)'
    <2> SUFFICES ASSUME NEW q \in Passed(k, i) PROVE q \in Passed(k, i)'
      OBVIOUS
    <2>1. q \in Observers /\ q \in Observing(k) /\ bucket[q] > i /\ q \in scrape'.across
      BY <1>1 DEF Passed
    <2>2. bucket'[q] > i
      <3>1. CASE q = w
        BY <1>3, <2>1, <3>1
      <3>2. CASE q # w
        BY <2>1, <3>2, WriteEffect
      <3> QED
        BY <3>1, <3>2
    <2> QED
      BY <2>1, <2>2, WriteEffect DEF Passed
  <1>5. Joined(k) \in SUBSET Joined(k)'
    BY <1>1, WriteEffect DEF Joined, Tallied
  <1>6. ASSUME Adds(w, k, g, i) = 1 PROVE Cardinality(Passed(k, i)') = Cardinality(Passed(k, i)) + 1
    <2>1. pc[w] = "bucket" /\ k = Key(w) /\ i = bucket[w]
      BY <1>6 DEF Adds
    <2>2. CountBucket(w)
      BY <2>1 DEF Write, Acquire, Release, CountError, CountRequest, CheckKey, CreateLists,
                  Tally, AppendSample, Goto
    <2>3. bucket'[w] = i + 1 /\ i \in Nat
      BY <2>1, <2>2, WriteEffect, BucketsRange
    <2>4. Passed(k, i)' = Passed(k, i) \cup {w} /\ w \notin Passed(k, i)
      BY <1>1, <2>1, <2>3, WriteEffect DEF Passed, Observing
    <2> QED
      BY <1>1, <2>4, OneMore
  <1>7. totals[k] \in Nat
    BY DEF Inv, TypeOK
  <1>8. CASE Tally(w) /\ Key(w) = k
    <2>1. totals'[k] = totals[k] + 1
      BY <1>8 DEF Tally, Inv, TypeOK
    <2>2. Joined(k)' = Joined(k) \cup {w} /\ w \notin Joined(k)
      BY <1>1, <1>8, WriteEffect DEF Joined, Tallied, Observing
    <2> QED
      BY <1>1, <1>2, <1>4, <1>5, <1>6, <1>7, <2>1, <2>2, OneMore, NoMore, ObserversFinite
  <1>9. CASE ~(Tally(w) /\ Key(w) = k)
    <2>1. totals'[k] = totals[k]
      BY <1>9, WriteEffect DEF Tally, Inv, TypeOK
    <2> QED
      BY <1>2, <1>4, <1>5, <1>6, <1>7, <2>1, NoMore, ObserversFinite
  <1> QED
    BY <1>8, <1>9

LEMMA SlackKept ==
  ASSUME NEW a \in Nat, NEW b \in Nat, NEW n \in Nat, NEW a1 \in Nat, NEW b1 \in Nat, NEW n1 \in Nat,
         a <= b + n, b <= b1, n <= n1, a1 = a \/ (a1 = a + 1 /\ n1 = n + 1)
  PROVE  a1 <= b1 + n1
  OBVIOUS

LEMMA WriteRender ==
  ASSUME Inv, ScrapeOK, RenderInv, NEW w \in Observers, Write(w)
  PROVE  RenderInv'
  <1>0. /\ scrape'.at = scrape.at /\ scrape'.open = scrape.open /\ scrape'.seen = scrape.seen
        /\ scrape'.inf = scrape.inf /\ scrape.across \subseteq scrape'.across
    BY WriteScrape
  <1>1. /\ Cardinality(scrape.across) \in Nat /\ Cardinality(scrape'.across) \in Nat
        /\ Cardinality(scrape.across) <= Cardinality(scrape'.across)
    <2>1. scrape'.across \in SUBSET Observers
      BY WriteScrape DEF Scrapes, Observers
    <2> QED
      BY <1>0, <2>1, NoMore, ObserversFinite
  <1>2. /\ \A i \in DOMAIN scrape.seen : scrape.seen[i] \in Nat
        /\ scrape.at \in {"inf", "count", "counted"} => scrape.seen[Len(Bounds)] \in Nat
        /\ scrape.inf \in Nat
    BY ScrapeValues, BucketsRange DEF ScrapeOK
  <1>3. CASE scrape.at = "bucket"
    <2>1. PICK k \in Keys \ scrape.todo, g \in Nat :
            /\ g \in DOMAIN lists[k] /\ scrape.open = {<<k, g>>}
            /\ \A o \in scrape.open : o[1] = k /\ o[2] = g
            /\ \A i \in Buckets : lists[k][g].counts[i] \in Nat
            /\ totals[k] \in Nat
      BY <1>3, Opened
    <2>2. /\ \A i, j \in Buckets : i <= j => RenderedUpTo(k, g, i, j)
          /\ RenderedCounted(k, g)
      BY <1>3, <2>1 DEF RenderInv
    <2>3. \A i \in Buckets :
            /\ Rendered(k, g, i) \in Nat /\ Rendered(k, g, i)' \in Nat
            /\ Rendered(k, g, i) <= Rendered(k, g, i)'
            /\ Rendered(k, g, i)' = Rendered(k, g, i)
               \/ (Adds(w, k, g, i) = 1 /\ Rendered(k, g, i)' = Rendered(k, g, i) + 1)
      <3> TAKE i \in Buckets
      <3>1. /\ lists[k][g].counts[i] \in Nat
            /\ lists'[k][g].counts[i] = lists[k][g].counts[i] + Adds(w, k, g, i)
        BY <2>1, CountsMove
      <3>2. Adds(w, k, g, i) \in {0, 1}
        BY DEF Adds
      <3>3. CASE i <= Len(scrape.seen)
        <4>1. scrape.seen[i] \in Nat
          BY <1>2, <3>3, ScrapeValues, BucketsRange
        <4>2. Rendered(k, g, i) = scrape.seen[i] /\ Rendered(k, g, i)' = scrape.seen[i]
          BY <1>0, <3>3 DEF Rendered
        <4> QED
          BY <4>1, <4>2
      <3>4. CASE ~(i <= Len(scrape.seen))
        <4>1. Rendered(k, g, i) = lists[k][g].counts[i] /\ Rendered(k, g, i)' = lists'[k][g].counts[i]
          BY <1>0, <3>4 DEF Rendered
        <4>2. CASE Adds(w, k, g, i) = 0
          <5>1. lists'[k][g].counts[i] = lists[k][g].counts[i] + 0
            BY <3>1, <4>2
          <5> QED
            BY <3>1, <4>1, <5>1
        <4>3. CASE Adds(w, k, g, i) = 1
          BY <3>1, <4>1, <4>3
        <4> QED
          BY <3>2, <4>2, <4>3
      <3> QED
        BY <3>3, <3>4
    <2>4. \A i \in Buckets :
            /\ Cardinality(Passed(k, i)) \in Nat /\ Cardinality(Passed(k, i)') \in Nat
            /\ Cardinality(Passed(k, i)) <= Cardinality(Passed(k, i)')
            /\ Adds(w, k, g, i) = 1 => Cardinality(Passed(k, i)') = Cardinality(Passed(k, i)) + 1
            /\ totals'[k] \in Nat /\ totals[k] <= totals'[k]
      BY <1>3, <2>1, OverlapStep, ScrapeValues DEF Scanning
    <2>5. ASSUME NEW i \in Buckets, NEW j \in Buckets, i <= j PROVE RenderedUpTo(k, g, i, j)'
      <3> DEFINE r == Rendered(k, g, i)
                 s == Rendered(k, g, j)
                 p == Cardinality(Passed(k, i))
      <3>1. r <= s + p
        BY <2>2, <2>5 DEF RenderedUpTo
      <3>2. r \in Nat /\ r' \in Nat /\ (r' = r \/ (Adds(w, k, g, i) = 1 /\ r' = r + 1))
        BY <2>3
      <3>3. s \in Nat /\ s' \in Nat /\ s <= s'
        BY <2>3
      <3>4. p \in Nat /\ p' \in Nat /\ p <= p' /\ (Adds(w, k, g, i) = 1 => p' = p + 1)
        BY <2>4
      <3> HIDE DEF r, s, p
      <3>5. r' <= s' + p'
        BY <3>1, <3>2, <3>3, <3>4, SlackKept
      <3> QED
        BY <3>5 DEF RenderedUpTo, r, s, p
    <2>6. RenderedCounted(k, g)'
      <3> DEFINE L == Len(Bounds)
                 r == Rendered(k, g, L)
                 p == Cardinality(Passed(k, L))
      <3>1. r <= totals[k] + p /\ L \in Buckets
        BY <2>2, BucketsRange DEF RenderedCounted
      <3>2. r \in Nat /\ r' \in Nat /\ (r' = r \/ (Adds(w, k, g, L) = 1 /\ r' = r + 1))
        BY <2>3, <3>1
      <3>3. /\ p \in Nat /\ p' \in Nat /\ p <= p' /\ (Adds(w, k, g, L) = 1 => p' = p + 1)
            /\ totals'[k] \in Nat /\ totals[k] <= totals'[k]
        BY <2>4, <3>1
      <3> HIDE DEF r, p
      <3>4. r' <= totals'[k] + p'
        BY <2>1, <3>1, <3>2, <3>3
      <3> QED
        BY <3>4 DEF RenderedCounted, r, p
    <2> QED
      BY <1>0, <1>3, <2>1, <2>5, <2>6 DEF RenderInv
  <1>4. CASE scrape.at # "bucket"
    <2>1. \A i, j \in DOMAIN scrape'.seen : i <= j => SeenUpTo(i, j)'
      BY <1>0, <1>1, <1>2, <1>4 DEF RenderInv, SeenUpTo
    <2>2. scrape.at \in {"count", "counted"} => SeenInf'
      BY <1>0, <1>1, <1>2 DEF RenderInv, SeenInf
    <2>3. scrape.at = "counted" => \E o \in scrape'.open : InfCount(o[2])'
      <3> SUFFICES ASSUME scrape.at = "counted" PROVE \E o \in scrape'.open : InfCount(o[2])'
        OBVIOUS
      <3>1. PICK o \in scrape.open : InfCount(o[2])
        BY DEF RenderInv
      <3>2. o[2] \in Nat
        <4>1. scrape.open \in SUBSET (Keys \X Nat)
          BY DEF ScrapeOK, Scrapes
        <4> QED
          BY <4>1
      <3>3. InfCount(o[2])'
        BY <1>0, <1>1, <1>2, <3>1, <3>2 DEF InfCount
      <3> QED
        BY <1>0, <3>3
    <2>4. ASSUME scrape.at \in {"inf", "count"}
          PROVE  /\ scrape.at = "inf" => \A o \in scrape.open : SeenCounted(o[1])'
                 /\ scrape.at = "count" => \A o \in scrape.open : InfCounted(o[1])'
      <3>1. PICK k \in Keys \ scrape.todo, g \in Nat :
              /\ g \in DOMAIN lists[k] /\ scrape.open = {<<k, g>>}
              /\ \A o \in scrape.open : o[1] = k /\ o[2] = g
              /\ \A i \in Buckets : lists[k][g].counts[i] \in Nat
              /\ totals[k] \in Nat
        BY <2>4, Opened
      <3> DEFINE L == Len(Bounds)
                 p == Cardinality(Passed(k, L))
                 m == Cardinality(Joined(k))
      <3>2. /\ p \in Nat /\ p' \in Nat /\ p <= p' /\ m \in Nat /\ m' \in Nat /\ m <= m'
            /\ \/ totals'[k] = totals[k]
               \/ totals'[k] = totals[k] + 1 /\ m' = m + 1
        <4>1. L \in Buckets
          BY BucketsRange
        <4> QED
          BY <2>4, <3>1, <4>1, OverlapStep, ScrapeValues DEF Scanning
      <3>3. ASSUME scrape.at = "inf" PROVE SeenCounted(k)'
        <4>1. scrape.seen[L] <= totals[k] + p /\ scrape.seen[L] \in Nat
          BY <1>2, <3>1, <3>3 DEF RenderInv, SeenCounted
        <4> HIDE DEF p, m
        <4>2. scrape.seen[L] <= totals'[k] + p'
          BY <3>1, <3>2, <4>1
        <4> QED
          BY <1>0, <4>2 DEF SeenCounted, p
      <3>4. ASSUME scrape.at = "count" PROVE InfCounted(k)'
        <4>1. scrape.inf <= totals[k] /\ totals[k] <= scrape.inf + m
          BY <3>1, <3>4 DEF RenderInv, InfCounted
        <4> HIDE DEF p, m
        <4>2. scrape.inf <= totals'[k] /\ totals'[k] <= scrape.inf + m'
          BY <1>2, <3>1, <3>2, <4>1
        <4> QED
          BY <1>0, <4>2 DEF InfCounted, m
      <3> QED
        BY <3>1, <3>3, <3>4
    <2> QED
      BY <1>0, <1>4, <2>1, <2>2, <2>3, <2>4 DEF RenderInv
  <1> QED
    BY <1>3, <1>4

\* The lists of a label set are looked up: what has not been counted yet is overlapped.
LEMMA KeyRender ==
  ASSUME Inv, ScrapeOK, CumulativeInv, RenderInv, ScrapeKey
  PROVE  RenderInv'
  <1>1. PICK k \in scrape.todo :
          scrape' = [scrape EXCEPT !.at = "bucket", !.todo = @ \ {k},
                                   !.open = {<<k, Len(lists[k])>>}, !.seen = <<>>]
    BY DEF ScrapeKey
  <1>2. k \in Made /\ scrape \in Scrapes /\ scrape.at \in Scanning
    BY DEF ScrapeOK, Scrapes, Made, ScrapeKey, ScrapeStep, Scanning
  <1>3. /\ scrape'.at = "bucket" /\ scrape'.open = {<<k, Len(lists[k])>>}
        /\ scrape'.seen = <<>> /\ scrape'.across = scrape.across
    BY <1>1, <1>2 DEF Scrapes
  <1>4. UNCHANGED <<pc, load, bucket, lists, totals>>
    BY DEF ScrapeKey, ScrapeStep, writing, history
  <1>5. \A i \in Buckets : Rendered(k, Len(lists[k]), i)' = Current(k).counts[i]
    <2>1. Len(<<>>) = 0 /\ \A i \in Buckets : i \in Nat /\ ~(i <= 0)
      BY EmptySeq, BucketsRange
    <2> QED
      BY <1>3, <1>4, <2>1 DEF Rendered, Current
  <1>6. \A q \in Observing(k) : pc[q] \notin {"acquire", "errors", "done"} => q \in scrape.across
    BY <1>2, MidwayOverlaps DEF Observing
  <1>7. \A i \in Buckets : Passed(k, i)' = {q \in scrape.across \cap Observing(k) : bucket[q] > i}
    BY <1>3, <1>4 DEF Passed, Observing, Key
  <1>8. Current(k).counts \in [Buckets -> Nat] /\ totals[k] \in Nat
    <2>1. Current(k) \in Entry /\ k \in Keys
      BY <1>2, CurrentPlace DEF Inv
    <2> QED
      BY <2>1 DEF Entry, Inv, TypeOK
  <1>9. \A i \in Buckets : Passed(k, i)' \in SUBSET Observers /\ Cardinality(Passed(k, i)') \in Nat
    <2>1. \A i \in Buckets : Passed(k, i)' \in SUBSET Observers
      BY <1>7 DEF Observing
    <2> QED
      BY <2>1, ObserversFinite
  <1>10. ASSUME NEW i \in Buckets, NEW j \in Buckets, i <= j
         PROVE  RenderedUpTo(k, Len(lists[k]), i, j)'
    <2>1. Current(k).counts[i] <= Current(k).counts[j] + Cardinality(Between(k, i, j))
      BY <1>2, <1>10 DEF CumulativeInv, CumulativeUpTo
    <2>2. Between(k, i, j) \in SUBSET Passed(k, i)'
      <3> SUFFICES ASSUME NEW q \in Between(k, i, j) PROVE q \in Passed(k, i)'
        OBVIOUS
      <3>1. q \in Observing(k) /\ q \in Observers /\ i < bucket[q] /\ bucket[q] <= j
        BY DEF Between, Observing
      <3>2. bucket[q] # 1 /\ bucket[q] # Len(Bounds) + 1 /\ bucket[q] \in Nat
        <4>1. i \in Nat /\ j \in Nat /\ 1 <= i /\ j <= Len(Bounds) /\ Len(Bounds) \in Nat
          BY BucketsRange
        <4>2. bucket[q] \in Nat
          BY <3>1, BucketsRange DEF Inv, TypeOK
        <4> QED
          BY <3>1, <4>1, <4>2
      <3>3. pc[q] = "bucket"
        BY <3>1, <3>2 DEF Inv, Control, Begun
      <3>4. q \in scrape.across
        BY <1>6, <3>1, <3>3
      <3>5. bucket[q] > i
        BY <3>1, <3>2, BucketsRange
      <3> QED
        BY <1>7, <3>1, <3>4, <3>5
    <2>3. Cardinality(Between(k, i, j)) <= Cardinality(Passed(k, i)')
      BY <1>9, <2>2, NoMore
    <2>4. Current(k).counts[i] <= Current(k).counts[j] + Cardinality(Passed(k, i)')
      BY <1>8, <1>9, <2>1, <2>3, KindsFinite
    <2> QED
      BY <1>5, <2>4 DEF RenderedUpTo
  <1>11. RenderedCounted(k, Len(lists[k]))'
    <2> DEFINE L == Len(Bounds)
    <2>0. L \in Buckets /\ L \in Nat
      BY BucketsRange
    <2>1. Current(k).counts[L] <= totals[k] + Cardinality(Untallied(k))
      BY <1>2 DEF CumulativeInv, AllCounted
    <2>2. Untallied(k) \in SUBSET Passed(k, L)'
      <3> SUFFICES ASSUME NEW q \in Untallied(k) PROVE q \in Passed(k, L)'
        OBVIOUS
      <3>1. q \in Observing(k) /\ q \in Observers /\ pc[q] = "tally"
        BY DEF Untallied, Observing
      <3>2. bucket[q] = L + 1
        BY <3>1 DEF Inv, Control, Begun
      <3>3. bucket[q] > L
        BY <2>0, <3>2
      <3>4. q \in scrape.across
        BY <1>6, <3>1
      <3> QED
        BY <1>7, <2>0, <3>1, <3>3, <3>4
    <2>3. Cardinality(Untallied(k)) <= Cardinality(Passed(k, L)')
      BY <1>9, <2>0, <2>2, NoMore
    <2>4. Current(k).counts[L] \in Nat /\ Cardinality(Passed(k, L)') \in Nat /\ Cardinality(Untallied(k)) \in Nat
      BY <1>8, <1>9, <2>0, KindsFinite
    <2>5. Current(k).counts[L] <= totals[k] + Cardinality(Passed(k, L)')
      BY <1>8, <2>1, <2>3, <2>4
    <2> QED
      BY <1>4, <1>5, <2>0, <2>5 DEF RenderedCounted
  <1>12. \A o \in scrape'.open : o[1] = k /\ o[2] = Len(lists[k])
    BY <1>3
  <1> QED
    BY <1>3, <1>4, <1>10, <1>11, <1>12 DEF RenderInv

\* One bucket more is read: what will have been rendered stays the same.
LEMMA BucketRender ==
  ASSUME Inv, ScrapeOK, RenderInv, ScrapeBucket
  PROVE  RenderInv'
  <1>0. scrape.at = "bucket" /\ UNCHANGED <<pc, load, bucket, lists, totals>> /\ scrape \in Scrapes
    BY DEF ScrapeBucket, ScrapeStep, writing, history, ScrapeOK
  <1>1. PICK k \in Keys \ scrape.todo, g \in Nat :
          /\ g \in DOMAIN lists[k] /\ scrape.open = {<<k, g>>}
          /\ \A o \in scrape.open : o[1] = k /\ o[2] = g
          /\ \A i \in Buckets : lists[k][g].counts[i] \in Nat
          /\ totals[k] \in Nat
    BY <1>0, Opened
  <1> DEFINE n == Len(scrape.seen) + 1
  <1>2. scrape' = [scrape EXCEPT !.at = IF n = Len(Bounds) THEN "inf" ELSE "bucket",
                                 !.seen = Append(@, lists[k][g].counts[n])]
    BY <1>1 DEF ScrapeBucket
  <1>3. /\ scrape'.at = IF n = Len(Bounds) THEN "inf" ELSE "bucket"
        /\ scrape'.open = scrape.open /\ scrape'.across = scrape.across
        /\ scrape'.seen = Append(scrape.seen, lists[k][g].counts[n])
    BY <1>0, <1>2 DEF Scrapes
  <1>4. n \in Buckets /\ n \in Nat /\ Len(scrape.seen) \in Nat
    BY <1>0, ScrapeValues, BucketsRange DEF ScrapeOK
  <1>5. /\ Len(scrape'.seen) = n /\ DOMAIN scrape'.seen = 1 .. n
        /\ \A i \in 1 .. Len(scrape.seen) : scrape'.seen[i] = scrape.seen[i]
        /\ scrape'.seen[n] = lists[k][g].counts[n]
    <2>1. scrape.seen \in Seq(Nat) /\ lists[k][g].counts[n] \in Nat
      BY <1>0, <1>1, <1>4 DEF Scrapes
    <2>2. scrape'.seen \in Seq(Nat)
      BY <1>3, <2>1, AppendProperties
    <2> QED
      BY <1>3, <1>4, <2>1, <2>2, AppendProperties, LenProperties
  <1>6. \A i \in Buckets : Rendered(k, g, i)' = Rendered(k, g, i) /\ Rendered(k, g, i) \in Nat
    <2> TAKE i \in Buckets
    <2>1. i \in Nat /\ i >= 1
      BY BucketsRange
    <2>2. CASE i <= Len(scrape.seen)
      <3>1. i <= n /\ i \in 1 .. Len(scrape.seen)
        BY <1>4, <2>1, <2>2
      <3>2. scrape'.seen[i] = scrape.seen[i] /\ scrape.seen[i] \in Nat
        BY <1>5, <3>1, ScrapeValues
      <3> QED
        BY <1>5, <2>2, <3>1, <3>2 DEF Rendered
    <2>3. CASE i = n
      <3>1. ~(i <= Len(scrape.seen)) /\ i <= Len(scrape'.seen)
        BY <1>4, <1>5, <2>3
      <3> QED
        BY <1>1, <1>5, <2>3, <3>1 DEF Rendered
    <2>4. CASE ~(i <= n)
      <3>1. ~(i <= Len(scrape.seen)) /\ ~(i <= Len(scrape'.seen))
        BY <1>4, <1>5, <2>1, <2>4
      <3> QED
        BY <1>0, <1>1, <3>1 DEF Rendered
    <2> QED
      BY <1>4, <2>1, <2>2, <2>3, <2>4
  <1>7. \A i : Passed(k, i)' = Passed(k, i)
    BY <1>0, <1>3 DEF Passed, Observing, Key
  <1>8. /\ \A i, j \in Buckets : i <= j => RenderedUpTo(k, g, i, j)
        /\ RenderedCounted(k, g)
    BY <1>0, <1>1 DEF RenderInv
  <1>9. CASE n # Len(Bounds)
    <2>1. \A i, j \in Buckets : i <= j => RenderedUpTo(k, g, i, j)'
      BY <1>6, <1>7, <1>8 DEF RenderedUpTo
    <2>2. RenderedCounted(k, g)'
      BY <1>0, <1>6, <1>7, <1>8, BucketsRange DEF RenderedCounted
    <2>3. \A o \in scrape'.open : o[1] = k /\ o[2] = g
      BY <1>1, <1>3
    <2> QED
      BY <1>3, <1>9, <2>1, <2>2, <2>3 DEF RenderInv
  <1>10. CASE n = Len(Bounds)
    <2>1. DOMAIN scrape'.seen = Buckets /\ Len(Bounds) \in Buckets
      BY <1>5, <1>10, BucketsRange
    <2>2. \A i \in Buckets : scrape'.seen[i] = Rendered(k, g, i)
      <3>1. \A i \in Buckets : Rendered(k, g, i)' = scrape'.seen[i]
        BY <1>5, <1>10, BucketsRange DEF Rendered
      <3> QED
        BY <1>6, <3>1
    <2>3. ASSUME NEW i \in Buckets, NEW j \in Buckets, i <= j PROVE SeenUpTo(i, j)'
      <3>1. Rendered(k, g, i) <= Rendered(k, g, j) + Cardinality(Passed(k, i))
        BY <1>8, <2>3 DEF RenderedUpTo
      <3>2. /\ Cardinality(Passed(k, i)) \in Nat /\ Cardinality(scrape.across) \in Nat
            /\ Cardinality(Passed(k, i)) <= Cardinality(scrape.across)
        BY ScrapeValues
      <3>3. Rendered(k, g, i) <= Rendered(k, g, j) + Cardinality(scrape.across)
        BY <1>6, <3>1, <3>2
      <3> QED
        BY <1>3, <2>2, <3>3 DEF SeenUpTo
    <2>4. SeenCounted(k)'
      BY <1>0, <1>7, <1>8, <2>1, <2>2 DEF SeenCounted, RenderedCounted
    <2>5. \A o \in scrape'.open : o[1] = k /\ o[2] = g
      BY <1>1, <1>3
    <2> QED
      BY <1>3, <1>10, <2>1, <2>3, <2>4, <2>5 DEF RenderInv
  <1> QED
    BY <1>9, <1>10

LEMMA TotalsRender ==
  ASSUME Inv, ScrapeOK, RenderInv, ScrapeInf \/ ScrapeCount
  PROVE  RenderInv'
  <1>0. /\ scrape.at \in {"inf", "count"} /\ UNCHANGED <<pc, load, bucket, lists, totals>>
        /\ scrape \in Scrapes
    BY DEF ScrapeInf, ScrapeCount, ScrapeStep, writing, history, ScrapeOK
  <1>1. PICK k \in Keys \ scrape.todo, g \in Nat :
          /\ g \in DOMAIN lists[k] /\ scrape.open = {<<k, g>>}
          /\ \A o \in scrape.open : o[1] = k /\ o[2] = g
          /\ \A i \in Buckets : lists[k][g].counts[i] \in Nat
          /\ totals[k] \in Nat
    BY <1>0, Opened
  <1>2. /\ Cardinality(scrape.across) \in Nat /\ Cardinality(Joined(k)) \in Nat
        /\ Cardinality(Joined(k)) <= Cardinality(scrape.across)
        /\ Cardinality(Passed(k, Len(Bounds))) \in Nat
        /\ Cardinality(Passed(k, Len(Bounds))) <= Cardinality(scrape.across)
        /\ scrape.inf \in Nat
        /\ scrape.seen[Len(Bounds)] \in Nat
    BY <1>0, ScrapeValues, BucketsRange DEF ScrapeOK
  <1>3. \A i, j \in DOMAIN scrape.seen : i <= j => SeenUpTo(i, j)
    BY <1>0 DEF RenderInv
  <1>4. CASE ScrapeInf
    <2>1. scrape' = [scrape EXCEPT !.at = "count", !.inf = totals[k]]
      BY <1>1, <1>4 DEF ScrapeInf
    <2>2. /\ scrape'.at = "count" /\ scrape'.open = scrape.open /\ scrape'.seen = scrape.seen
          /\ scrape'.across = scrape.across /\ scrape'.inf = totals[k]
      BY <1>0, <2>1 DEF Scrapes
    <2>3. \A i, j \in DOMAIN scrape'.seen : i <= j => SeenUpTo(i, j)'
      BY <1>3, <2>2 DEF SeenUpTo
    <2>4. SeenInf'
      <3>1. scrape.seen[Len(Bounds)] <= totals[k] + Cardinality(Passed(k, Len(Bounds)))
        BY <1>1, <1>4 DEF RenderInv, SeenCounted, ScrapeInf, ScrapeStep
      <3>2. scrape.seen[Len(Bounds)] <= totals[k] + Cardinality(scrape.across)
        BY <1>1, <1>2, <3>1
      <3> QED
        BY <2>2, <3>2 DEF SeenInf
    <2>5. InfCounted(k)'
      <3>1. Joined(k)' = Joined(k)
        BY <1>0, <2>2 DEF Joined, Observing, Key, Tallied
      <3>2. totals[k] <= totals[k] + Cardinality(Joined(k))
        BY <1>1, <1>2
      <3> QED
        BY <1>0, <1>1, <2>2, <3>1, <3>2 DEF InfCounted
    <2> QED
      BY <1>1, <2>2, <2>3, <2>4, <2>5 DEF RenderInv
  <1>5. CASE ScrapeCount
    <2>1. scrape' = [scrape EXCEPT !.at = "counted", !.open = {<<k, totals[k]>>},
                                   !.observed = @ + totals[k]]
      BY <1>1, <1>5 DEF ScrapeCount
    <2>2. /\ scrape'.at = "counted" /\ scrape'.open = {<<k, totals[k]>>} /\ scrape'.seen = scrape.seen
          /\ scrape'.across = scrape.across /\ scrape'.inf = scrape.inf
      BY <1>0, <2>1 DEF Scrapes
    <2>3. \A i, j \in DOMAIN scrape'.seen : i <= j => SeenUpTo(i, j)'
      BY <1>3, <2>2 DEF SeenUpTo
    <2>4. SeenInf /\ InfCounted(k)
      BY <1>1, <1>5 DEF RenderInv, ScrapeCount, ScrapeStep
    <2>5. SeenInf'
      BY <2>2, <2>4 DEF SeenInf
    <2>6. scrape.inf <= totals[k] /\ totals[k] <= scrape.inf + Cardinality(scrape.across)
      BY <1>1, <1>2, <2>4 DEF InfCounted
    <2>7. \E o \in scrape'.open : InfCount(o[2])'
      <3>1. PICK o \in scrape'.open : o[2] = totals[k]
        BY <2>2
      <3>2. InfCount(o[2])'
        BY <2>2, <2>6, <3>1 DEF InfCount
      <3> QED
        BY <3>2
    <2> QED
      BY <2>2, <2>3, <2>5, <2>7 DEF RenderInv
  <1> QED
    BY <1>4, <1>5

LEMMA RenderSame ==
  ASSUME RenderInv, UNCHANGED <<pc, load, bucket, lists, totals, scrape>>
  PROVE  RenderInv'
  <1>1. \A k, i : Passed(k, i)' = Passed(k, i) /\ Joined(k)' = Joined(k)
    BY DEF Passed, Joined, Observing, Key, Tallied
  <1>2. \A k, g, i : Rendered(k, g, i)' = Rendered(k, g, i)
    BY DEF Rendered
  <1>3. \A k, g, i, j : RenderedUpTo(k, g, i, j) => RenderedUpTo(k, g, i, j)'
    BY <1>1, <1>2 DEF RenderedUpTo
  <1>4. \A k, g : /\ RenderedCounted(k, g) => RenderedCounted(k, g)'
                  /\ SeenCounted(k) => SeenCounted(k)'
                  /\ InfCounted(k) => InfCounted(k)'
    BY <1>1, <1>2 DEF RenderedCounted, SeenCounted, InfCounted
  <1>5. /\ \A i, j : SeenUpTo(i, j) => SeenUpTo(i, j)'
        /\ SeenInf => SeenInf' /\ \A n : InfCount(n) => InfCount(n)'
    BY DEF SeenUpTo, SeenInf, InfCount
  <1> QED
    BY <1>3, <1>4, <1>5 DEF RenderInv

LEMMA VisitorRender ==
  ASSUME Inv, ScrapeOK, CumulativeInv, RenderInv, ScrapeArrives \/ Scrape \/ Read
  PROVE  RenderInv'
  <1>0. scrape \in Scrapes /\ UNCHANGED <<pc, load, bucket, lists, totals>>
    BY VisitorsStep DEF ScrapeOK, writing, history
  <1>1. CASE Read
    <2>1. scrape' = scrape
      BY <1>1 DEF Read, ReaderOpen, ReaderCopy, ReaderNext, ReaderRaises, ReaderStep
    <2> QED
      BY <1>0, <2>1, RenderSame
  <1>2. CASE ScrapeArrives \/ ScrapeOpen \/ ScrapeKeys
    <2>1. scrape'.at \in {"wait", "keys", "key"} /\ scrape'.seen = <<>>
      BY <1>0, <1>2 DEF ScrapeArrives, ScrapeOpen, ScrapeKeys, ScrapeStep, ScrapeOK, Scrapes
    <2>2. DOMAIN scrape'.seen = {}
      BY <2>1
    <2> QED
      BY <2>1, <2>2 DEF RenderInv
  <1>3. CASE ScrapeNext \/ ScrapeClose
    <2>1. /\ scrape.at \in {"key", "counted"} /\ scrape'.at \in {"key", "done"}
          /\ scrape'.seen = scrape.seen /\ scrape'.across = scrape.across
      BY <1>0, <1>3 DEF ScrapeNext, ScrapeClose, ScrapeStep, Scrapes
    <2> QED
      BY <2>1 DEF RenderInv, SeenUpTo
  <1> QED
    BY <1>1, <1>2, <1>3, KeyRender, BucketRender, TotalsRender DEF Scrape

LEMMA RenderHolds == Spec => []RenderInv
  <1>1. Init => RenderInv
    <2> SUFFICES ASSUME Init PROVE RenderInv
      OBVIOUS
    <2>1. scrape.at = "idle" /\ scrape.seen = <<>>
      BY DEF Init
    <2> QED
      BY <2>1 DEF RenderInv
  <1>2. Inv /\ ScrapeOK /\ CumulativeInv /\ RenderInv /\ [Next]_vars => RenderInv'
    <2>1. ASSUME RenderInv, UNCHANGED vars PROVE RenderInv'
      BY <2>1, RenderSame DEF vars, writing, history
    <2> QED
      BY <2>1, WriteRender, VisitorRender DEF Next
  <1> QED
    BY <1>1, <1>2, InvHolds, CumulativeHolds, PTL DEF Spec

-----------------------------------------------------------------------------
(***************************************************************************)
(* The requests counter and the sum of the latency counts.  Both lie        *)
(* between the number of observers that were done and are not overlapped    *)
(* and that number with the overlapped ones added: the first as it is read, *)
(* the second for the label sets whose count has been read.                 *)
(***************************************************************************)
Unread ==
  scrape.todo \cup
    {k \in Keys : scrape.at \in {"bucket", "inf", "count"} /\ \E o \in scrape.open : o[1] = k}
Settled   == {w \in Observers : pc[w] = "done"} \ scrape.across
Possible  == {w \in Observers : pc[w] = "done"} \cup scrape.across
Summed(S) == {w \in S : Key(w) \notin Unread}

SumInv ==
  /\ scrape.at \in Scanning =>
       /\ Cardinality(Settled) <= scrape.requests
       /\ scrape.requests <= Cardinality(Possible)
  /\ scrape.at \in Scanning \ {"keys"} =>
       /\ Cardinality(Summed(Settled)) <= scrape.observed
       /\ scrape.observed <= Cardinality(Summed(Possible))
  /\ scrape.at = "done" =>
       /\ scrape.requests <= scrape.observed + Cardinality(scrape.across)
       /\ scrape.observed <= scrape.requests + Cardinality(scrape.across)

LEMMA SumSets ==
  ASSUME ScrapeOK
  PROVE  /\ Settled \in SUBSET Possible /\ Possible \in SUBSET Observers /\ Settled \in SUBSET Observers
         /\ Summed(Settled) \in SUBSET Summed(Possible)
         /\ Summed(Possible) \in SUBSET Observers /\ Summed(Settled) \in SUBSET Observers
         /\ Cardinality(Settled) \in Nat /\ Cardinality(Possible) \in Nat
         /\ Cardinality(Summed(Settled)) \in Nat /\ Cardinality(Summed(Possible)) \in Nat
         /\ Cardinality(Possible) <= Cardinality(Settled) + Cardinality(scrape.across)
  <1>1. scrape.across \in SUBSET Observers /\ Cardinality(scrape.across) \in Nat
    BY ScrapeValues
  <1>2. /\ Settled \in SUBSET Possible /\ Possible \in SUBSET Observers /\ Settled \in SUBSET Observers
        /\ Summed(Settled) \in SUBSET Summed(Possible)
        /\ Summed(Possible) \in SUBSET Observers /\ Summed(Settled) \in SUBSET Observers
    BY <1>1 DEF Settled, Possible, Summed
  <1>3. Possible = Settled \cup scrape.across /\ Settled \cap scrape.across = {}
    BY DEF Settled, Possible
  <1>4. Cardinality(Possible) = Cardinality(Settled) + Cardinality(scrape.across)
    BY <1>1, <1>2, <1>3, ObserversFinite, DisjointUnion
  <1> QED
    BY <1>1, <1>2, <1>4, ObserversFinite

LEMMA WriteSum ==
  ASSUME Inv, ScrapeOK, SumInv, NEW w \in Observers, Write(w)
  PROVE  SumInv'
  <1>0. /\ scrape'.at = scrape.at /\ scrape'.open = scrape.open /\ scrape'.todo = scrape.todo
        /\ scrape'.requests = scrape.requests /\ scrape'.observed = scrape.observed
        /\ scrape.across \subseteq scrape'.across
        /\ scrape.at \in Scanning => scrape'.across = scrape.across \cup {w}
    BY WriteScrape
  <1>1. ScrapeOK'
    BY WriteScrapeOK
  <1>2. /\ scrape.across \in SUBSET Observers /\ scrape.requests \in Nat /\ scrape.observed \in Nat
        /\ Cardinality(scrape.across) \in Nat
    BY ScrapeValues
  <1>3. Unread' = Unread
    BY <1>0 DEF Unread
  <1>4. scrape'.across \in SUBSET Observers
    BY <1>1 DEF ScrapeOK, Scrapes, Observers
  <1>5. CASE scrape.at \in Scanning
    <2>1. \A q \in Observers \ {w} : pc'[q] = pc[q]
      BY WriteEffect
    <2>2. Settled' \in SUBSET Settled /\ Possible \in SUBSET Possible' /\ Possible' \in SUBSET Observers
      BY <1>0, <1>4, <1>5, <2>1 DEF Settled, Possible
    <2>3. /\ Summed(Settled)' \in SUBSET Summed(Settled) /\ Summed(Possible) \in SUBSET Summed(Possible)'
          /\ Summed(Possible)' \in SUBSET Observers
      <3>1. \A q \in Observers : Key(q)' = Key(q)
        BY WriteEffect
      <3>2. Settled \in SUBSET Observers /\ Possible \in SUBSET Observers
        BY SumSets
      <3> QED
        BY <1>3, <2>2, <3>1, <3>2 DEF Summed
    <2>4. /\ Cardinality(Settled') <= Cardinality(Settled)
          /\ Cardinality(Possible) <= Cardinality(Possible')
          /\ Cardinality(Summed(Settled)') <= Cardinality(Summed(Settled))
          /\ Cardinality(Summed(Possible)) <= Cardinality(Summed(Possible)')
      BY <2>2, <2>3, SumSets, NoMore
    <2>5. /\ Cardinality(Settled') \in Nat /\ Cardinality(Settled) \in Nat
          /\ Cardinality(Possible') \in Nat /\ Cardinality(Possible) \in Nat
          /\ Cardinality(Summed(Settled)') \in Nat /\ Cardinality(Summed(Settled)) \in Nat
          /\ Cardinality(Summed(Possible)') \in Nat /\ Cardinality(Summed(Possible)) \in Nat
      <3>1. /\ Settled' \in SUBSET Observers /\ Possible' \in SUBSET Observers
            /\ Summed(Settled)' \in SUBSET Observers /\ Summed(Possible)' \in SUBSET Observers
        BY <2>2, <2>3, SumSets
      <3> QED
        BY <3>1, SumSets, ObserversFinite
    <2>6. /\ Cardinality(Settled') <= scrape.requests /\ scrape.requests <= Cardinality(Possible')
      BY <1>2, <1>5, <2>4, <2>5 DEF SumInv
    <2>7. scrape.at # "keys" =>
            /\ Cardinality(Summed(Settled)') <= scrape.observed
            /\ scrape.observed <= Cardinality(Summed(Possible)')
      BY <1>2, <1>5, <2>4, <2>5 DEF SumInv
    <2>8. scrape.at # "done"
      BY <1>5 DEF Scanning
    <2> QED
      BY <1>0, <2>6, <2>7, <2>8 DEF SumInv
  <1>6. CASE scrape.at \notin Scanning
    <2>1. Cardinality(scrape.across) <= Cardinality(scrape'.across) /\ Cardinality(scrape'.across) \in Nat
      BY <1>0, <1>4, NoMore, ObserversFinite
    <2>2. scrape.at = "done" =>
            /\ scrape.requests <= scrape.observed + Cardinality(scrape'.across)
            /\ scrape.observed <= scrape.requests + Cardinality(scrape'.across)
      BY <1>2, <2>1 DEF SumInv
    <2> QED
      BY <1>0, <1>6, <2>2 DEF SumInv
  <1> QED
    BY <1>5, <1>6

\* Nobody is midway through a span when the scrape takes the lock.
LEMMA OpenSum ==
  ASSUME Inv, ScrapeOK, RequestsInv, ScrapeOpen
  PROVE  SumInv'
  <1>1. scrape \in Scrapes /\ lock = {} /\ UNCHANGED <<pc, load>>
    BY DEF ScrapeOK, ScrapeOpen, ScrapeStep, writing
  <1>2. scrape'.at = "keys" /\ scrape'.requests = requests /\ scrape'.across = Halfway
    BY <1>1 DEF ScrapeOpen, Scrapes
  <1>3. \A w \in Observers : pc[w] \in {"check", "create"} \cup Begun => pc[w] = "done" \/ w \in Halfway
    <2> SUFFICES ASSUME NEW w \in Observers, pc[w] \in {"check", "create"} \cup Begun, pc[w] # "done"
        PROVE  w \in Halfway
      OBVIOUS
    <2>1. w \in Failures
      BY <1>1 DEF Inv, Control, Observers, Begun
    <2> QED
      BY <2>1 DEF Halfway, Begun
  <1>4. /\ Settled' \in SUBSET Requested /\ Requested \in SUBSET Possible'
        /\ Requested \in SUBSET Observers /\ Possible' \in SUBSET Observers
    BY <1>1, <1>2, <1>3 DEF Settled, Possible, Requested, Begun, Halfway, Observers
  <1>5. Cardinality(Settled') <= requests /\ requests <= Cardinality(Possible')
    BY <1>4, NoMore DEF RequestsInv
  <1> QED
    BY <1>2, <1>5 DEF SumInv

\* Whoever is done has a label set, and none has been read yet.
LEMMA KeysSum ==
  ASSUME Inv, ScrapeOK, SumInv, ScrapeKeys
  PROVE  SumInv'
  <1>1. scrape \in Scrapes /\ UNCHANGED <<pc, load, lists>> /\ scrape.at = "keys" /\ scrape.observed = 0
    BY DEF ScrapeOK, ScrapeKeys, ScrapeStep, writing, history
  <1>2. /\ scrape'.at = "key" /\ scrape'.requests = scrape.requests /\ scrape'.across = scrape.across
        /\ scrape'.todo = Made /\ scrape'.observed = 0
    BY <1>1 DEF ScrapeKeys, Scrapes
  <1>3. Settled' = Settled /\ Possible' = Possible
    BY <1>1, <1>2 DEF Settled, Possible
  <1>4. Summed(Settled)' = {}
    <2> SUFFICES ASSUME NEW w \in Settled PROVE Key(w) \in Unread'
      BY <1>1, <1>3 DEF Summed, Key
    <2>1. w \in Observers /\ pc[w] = "done"
      BY DEF Settled
    <2>2. Exists(Key(w)) /\ Key(w) \in Keys
      BY <2>1, LoadType DEF Inv, Control, Begun
    <2> QED
      BY <1>2, <2>2 DEF Unread, Made
  <1>5. Cardinality(Summed(Settled)') = 0 /\ Cardinality(Summed(Possible)') \in Nat
    <2>1. Summed(Possible)' \in SUBSET Observers
      BY <1>3, SumSets DEF Summed
    <2> QED
      BY <1>4, <2>1, ObserversFinite, FS_EmptySet
  <1>6. Cardinality(Settled') <= scrape'.requests /\ scrape'.requests <= Cardinality(Possible')
    BY <1>1, <1>2, <1>3 DEF SumInv, Scanning
  <1>7. 0 <= Cardinality(Summed(Possible)')
    BY <1>5
  <1> QED
    BY <1>2, <1>5, <1>6, <1>7 DEF SumInv

\* Looking a label set up and reading its buckets leaves its count unread.
LEMMA UnreadSum ==
  ASSUME Inv, ScrapeOK, SumInv, ScrapeKey \/ ScrapeBucket \/ ScrapeInf \/ ScrapeNext
  PROVE  SumInv'
  <1>1. scrape \in Scrapes /\ UNCHANGED <<pc, load>>
    BY DEF ScrapeOK, ScrapeKey, ScrapeBucket, ScrapeInf, ScrapeNext, ScrapeStep, writing
  <1>2. /\ scrape'.requests = scrape.requests /\ scrape'.across = scrape.across
        /\ scrape'.observed = scrape.observed
        /\ scrape.at \in Scanning \ {"keys"} /\ scrape'.at \in Scanning \ {"keys"}
    BY <1>1 DEF Scrapes, Scanning, ScrapeKey, ScrapeBucket, ScrapeInf, ScrapeNext, ScrapeStep
  <1>3. Settled' = Settled /\ Possible' = Possible
    BY <1>1, <1>2 DEF Settled, Possible
  <1>4. Unread' = Unread
    <2>1. CASE ScrapeKey
      <3>1. PICK k \in scrape.todo :
              scrape' = [scrape EXCEPT !.at = "bucket", !.todo = @ \ {k},
                                       !.open = {<<k, Len(lists[k])>>}, !.seen = <<>>]
        BY <2>1 DEF ScrapeKey
      <3>2. /\ scrape'.at = "bucket" /\ scrape'.todo = scrape.todo \ {k}
            /\ scrape'.open = {<<k, Len(lists[k])>>}
            /\ scrape.at = "key" /\ k \in Keys
        BY <1>1, <2>1, <3>1 DEF Scrapes, ScrapeKey, ScrapeStep
      <3>3. Unread' = (scrape.todo \ {k}) \cup {k}
        BY <3>2 DEF Unread
      <3>4. Unread = scrape.todo
        BY <3>2 DEF Unread
      <3> QED
        BY <3>3, <3>4
    <2>2. CASE ScrapeBucket \/ ScrapeInf
      <3>1. /\ scrape.at \in {"bucket", "inf"} /\ scrape'.at \in {"bucket", "inf", "count"}
            /\ scrape'.open = scrape.open /\ scrape'.todo = scrape.todo
        BY <1>1, <2>2 DEF Scrapes, ScrapeBucket, ScrapeInf, ScrapeStep
      <3> QED
        BY <3>1 DEF Unread
    <2>3. CASE ScrapeNext
      <3>1. scrape.at = "counted" /\ scrape'.at = "key" /\ scrape'.todo = scrape.todo
        BY <1>1, <2>3 DEF Scrapes, ScrapeNext, ScrapeStep
      <3> QED
        BY <3>1 DEF Unread
    <2> QED
      BY <2>1, <2>2, <2>3
  <1>5. Summed(Settled)' = Summed(Settled) /\ Summed(Possible)' = Summed(Possible)
    BY <1>1, <1>3, <1>4 DEF Summed, Key
  <1>6. scrape'.at # "done"
    BY <1>2 DEF Scanning
  <1> QED
    BY <1>2, <1>3, <1>5, <1>6 DEF SumInv

\* A count read: of its observations, those that were settled are in it, and no impossible ones.
LEMMA CountSum ==
  ASSUME Inv, ScrapeOK, HistogramInv, SumInv, ScrapeCount
  PROVE  SumInv'
  <1>1. scrape \in Scrapes /\ scrape.at = "count" /\ UNCHANGED <<pc, load>>
    BY DEF ScrapeOK, ScrapeCount, ScrapeStep, writing
  <1>2. PICK k \in Keys \ scrape.todo, g \in Nat :
          /\ g \in DOMAIN lists[k] /\ scrape.open = {<<k, g>>}
          /\ \A o \in scrape.open : o[1] = k /\ o[2] = g
          /\ \A i \in Buckets : lists[k][g].counts[i] \in Nat
          /\ totals[k] \in Nat
    BY <1>1, Opened
  <1>3. scrape' = [scrape EXCEPT !.at = "counted", !.open = {<<k, totals[k]>>},
                                 !.observed = @ + totals[k]]
    BY <1>2 DEF ScrapeCount
  <1>4. /\ scrape'.at = "counted" /\ scrape'.todo = scrape.todo /\ scrape'.across = scrape.across
        /\ scrape'.requests = scrape.requests /\ scrape'.observed = scrape.observed + totals[k]
    BY <1>1, <1>3 DEF Scrapes
  <1>5. Settled' = Settled /\ Possible' = Possible
    BY <1>1, <1>4 DEF Settled, Possible
  <1>6. Unread = scrape.todo \cup {k} /\ Unread' = scrape.todo /\ k \notin scrape.todo
    BY <1>1, <1>2, <1>4 DEF Unread
  <1> DEFINE Counted == Observing(k) \cap Tallied
             NewS == Settled \cap Observing(k)
             NewP == Possible \cap Observing(k)
  <1>7. /\ Summed(Settled)' = Summed(Settled) \cup NewS /\ Summed(Settled) \cap NewS = {}
        /\ Summed(Possible)' = Summed(Possible) \cup NewP /\ Summed(Possible) \cap NewP = {}
    <2>1. \A q : Key(q)' = Key(q)
      BY <1>1 DEF Key
    <2>2. Settled \in SUBSET Observers /\ Possible \in SUBSET Observers
      BY SumSets
    <2>3. Summed(Settled)' = {q \in Settled : Key(q) \notin scrape.todo}
          /\ Summed(Possible)' = {q \in Possible : Key(q) \notin scrape.todo}
      BY <1>5, <1>6, <2>1 DEF Summed
    <2> QED
      BY <1>6, <2>2, <2>3 DEF Summed, Observing
  <1>8. NewS \in SUBSET Counted /\ Counted \in SUBSET NewP /\ NewP \in SUBSET Observers
    <2>1. NewS \in SUBSET Counted /\ NewP \in SUBSET Observers
      BY DEF Settled, Tallied, Observing
    <2>2. ASSUME NEW q \in Counted PROVE q \in NewP
      <3>1. q \in Observers /\ pc[q] \in {"append", "release", "done"} /\ q \in Observing(k)
        BY <2>2 DEF Tallied, Observing
      <3>2. pc[q] # "done" => q \in scrape.across
        BY <1>1, <3>1, MidwayOverlaps DEF Scanning
      <3> QED
        BY <3>1, <3>2 DEF Possible
    <2> QED
      BY <2>1, <2>2
  <1>9. /\ Cardinality(NewS) <= totals[k] /\ totals[k] <= Cardinality(NewP)
        /\ Cardinality(NewS) \in Nat /\ Cardinality(NewP) \in Nat
    <2>1. totals[k] = Cardinality(Counted)
      BY <1>2 DEF HistogramInv
    <2>2. NewS \in SUBSET Observers /\ Counted \in SUBSET Observers
      BY <1>8
    <2> QED
      BY <1>8, <2>1, <2>2, NoMore, ObserversFinite
  <1>10. /\ Cardinality(Summed(Settled)') = Cardinality(Summed(Settled)) + Cardinality(NewS)
         /\ Cardinality(Summed(Possible)') = Cardinality(Summed(Possible)) + Cardinality(NewP)
    <2>1. NewS \in SUBSET Observers
      BY <1>8
    <2> QED
      BY <1>7, <1>8, <2>1, SumSets, DisjointUnion
  <1>11. /\ Cardinality(Summed(Settled)) <= scrape.observed
         /\ scrape.observed <= Cardinality(Summed(Possible))
         /\ Cardinality(Settled) <= scrape.requests /\ scrape.requests <= Cardinality(Possible)
    BY <1>1 DEF SumInv, Scanning
  <1>12. /\ Cardinality(Summed(Settled)) \in Nat /\ Cardinality(Summed(Possible)) \in Nat
         /\ scrape.observed \in Nat
    BY SumSets, ScrapeValues
  <1> HIDE DEF NewS, NewP
  <1>13. /\ Cardinality(Summed(Settled)') <= scrape'.observed
         /\ scrape'.observed <= Cardinality(Summed(Possible)')
    BY <1>2, <1>4, <1>9, <1>10, <1>11, <1>12
  <1> QED
    BY <1>4, <1>5, <1>11, <1>13 DEF SumInv

\* All counts are read.
LEMMA CloseSum ==
  ASSUME Inv, ScrapeOK, SumInv, ScrapeClose
  PROVE  SumInv'
  <1>1. scrape \in Scrapes /\ scrape.at \in {"key", "counted"} /\ scrape.todo = {}
    BY DEF ScrapeOK, ScrapeClose, ScrapeStep
  <1>2. /\ scrape'.at = "done" /\ scrape'.across = scrape.across
        /\ scrape'.requests = scrape.requests /\ scrape'.observed = scrape.observed
    BY <1>1 DEF ScrapeClose, Scrapes
  <1>3. Summed(Settled) = Settled /\ Summed(Possible) = Possible
    BY <1>1 DEF Summed, Unread
  <1>4. /\ Cardinality(Settled) <= scrape.observed /\ scrape.observed <= Cardinality(Possible)
        /\ Cardinality(Settled) <= scrape.requests /\ scrape.requests <= Cardinality(Possible)
    BY <1>1, <1>3 DEF SumInv, Scanning
  <1>5. /\ scrape.requests <= scrape.observed + Cardinality(scrape.across)
        /\ scrape.observed <= scrape.requests + Cardinality(scrape.across)
    BY <1>4, SumSets, ScrapeValues
  <1> QED
    BY <1>2, <1>5 DEF SumInv, Scanning

LEMMA SumSame ==
  ASSUME SumInv, UNCHANGED <<pc, load, scrape>>
  PROVE  SumInv'
  <1>1. Unread' = Unread /\ Settled' = Settled /\ Possible' = Possible
    BY DEF Unread, Settled, Possible
  <1>2. Summed(Settled)' = Summed(Settled) /\ Summed(Possible)' = Summed(Possible)
    BY <1>1 DEF Summed, Key
  <1> QED
    BY <1>1, <1>2 DEF SumInv

LEMMA SumHolds == Spec => []SumInv
  <1>1. Init => SumInv
    BY DEF Init, SumInv, Scanning
  <1>2. Inv /\ ScrapeOK /\ RequestsInv /\ HistogramInv /\ SumInv /\ [Next]_vars => SumInv'
    <2>1. ASSUME SumInv, UNCHANGED vars PROVE SumInv'
      BY <2>1, SumSame DEF vars, writing
    <2>2. ASSUME SumInv, Read PROVE SumInv'
      BY <2>2, SumSame DEF Read, ReaderOpen, ReaderCopy, ReaderNext, ReaderRaises, ReaderStep, writing
    <2>3. ASSUME ScrapeOK, ScrapeArrives PROVE SumInv'
      <3>1. scrape'.at = "wait"
        BY <2>3 DEF ScrapeArrives, ScrapeOK, Scrapes
      <3> QED
        BY <3>1 DEF SumInv, Scanning
    <2> QED
      BY <2>1, <2>2, <2>3, WriteSum, OpenSum, KeysSum, UnreadSum, CountSum, CloseSum
         DEF Next, Scrape
  <1> QED
    BY <1>1, <1>2, InvHolds, RequestsHold, HistogramHolds, PTL DEF Spec

(***************************************************************************)
(* Whatever writes a scrape overlaps, it is wrong by at most one for each   *)
(* failing request among them: in a label set's buckets and count, and      *)
(* between the requests counter and the sum of the counts.                  *)
(***************************************************************************)
THEOREM ScrapesAreConsistent == Spec => []ScrapeConsistent
  <1>1. Inv /\ ScrapeOK /\ RenderInv /\ SumInv => ScrapeConsistent
    <2> SUFFICES ASSUME Inv, ScrapeOK, RenderInv, SumInv PROVE ScrapeConsistent
      OBVIOUS
    <2> DEFINE U == Cardinality(scrape.across)
    <2>1. \A i, j \in DOMAIN scrape.seen : i <= j => scrape.seen[i] <= scrape.seen[j] + U
      <3>1. CASE scrape.at # "bucket"
        BY <3>1 DEF RenderInv, SeenUpTo
      <3>2. CASE scrape.at = "bucket"
        <4>1. PICK k \in Keys \ scrape.todo, g \in Nat :
                /\ g \in DOMAIN lists[k] /\ scrape.open = {<<k, g>>}
                /\ \A o \in scrape.open : o[1] = k /\ o[2] = g
                /\ \A i \in Buckets : lists[k][g].counts[i] \in Nat
                /\ totals[k] \in Nat
          BY <3>2, Opened
        <4> SUFFICES ASSUME NEW i \in DOMAIN scrape.seen, NEW j \in DOMAIN scrape.seen, i <= j
            PROVE  scrape.seen[i] <= scrape.seen[j] + U
          OBVIOUS
        <4>2. /\ i \in Buckets /\ j \in Buckets /\ i <= Len(scrape.seen) /\ j <= Len(scrape.seen)
              /\ scrape.seen[i] \in Nat /\ scrape.seen[j] \in Nat
          BY <3>2, ScrapeValues, BucketsRange DEF ScrapeOK
        <4>3. RenderedUpTo(k, g, i, j)
          BY <3>2, <4>1, <4>2 DEF RenderInv
        <4>4. scrape.seen[i] <= scrape.seen[j] + Cardinality(Passed(k, i))
          BY <4>2, <4>3 DEF RenderedUpTo, Rendered
        <4>5. Cardinality(Passed(k, i)) <= U /\ Cardinality(Passed(k, i)) \in Nat /\ U \in Nat
          BY ScrapeValues
        <4> QED
          BY <4>2, <4>4, <4>5
      <3> QED
        BY <3>1, <3>2
    <2>2. /\ scrape.at \in {"count", "counted"} => scrape.seen[Len(Bounds)] <= scrape.inf + U
          /\ scrape.at = "counted" =>
               \E o \in scrape.open : scrape.inf <= o[2] /\ o[2] <= scrape.inf + U
      BY DEF RenderInv, SeenInf, InfCount
    <2> QED
      BY <2>1, <2>2 DEF ScrapeConsistent, SumInv
  <1> QED
    BY <1>1, InvHolds, RenderHolds, SumHolds, PTL

-----------------------------------------------------------------------------
(***************************************************************************)
(* Quantiles.  sorted(pool)[i] exists for every i of the pool: among the    *)
(* values with at most i samples below them take one with most below it;    *)
(* had it i samples or fewer up to it, the next value would be another.     *)
(***************************************************************************)
LEMMA LeastExists ==
  ASSUME NEW S \in SUBSET Nat, S # {}
  PROVE  \E m \in S : \A n \in S : m <= n
  <1>1. PICK m \in S : \A n \in S : ~(<<n, m>> \in OpToRel(<, Nat))
    BY NatLessThanWellFounded, WFMin
  <1>2. \A n \in S : ~(n < m)
    BY <1>1 DEF OpToRel
  <1> QED
    BY <1>2

LEMMA PoolRanks ==
  ASSUME NEW pool \in Seq(Nat), NEW v
  PROVE  /\ Len(pool) \in Nat /\ DOMAIN pool = 1 .. Len(pool)
         /\ IsFiniteSet(DOMAIN pool) /\ Cardinality(DOMAIN pool) = Len(pool)
         /\ \A j \in DOMAIN pool : pool[j] \in Nat
         /\ Below(pool, v) \in Nat /\ UpTo(pool, v) \in Nat
         /\ Below(pool, v) <= Len(pool) /\ UpTo(pool, v) <= Len(pool)
  <1>1. Len(pool) \in Nat /\ DOMAIN pool = 1 .. Len(pool) /\ \A j \in DOMAIN pool : pool[j] \in Nat
    BY LenProperties, ElementOfSeq
  <1>2. IsFiniteSet(DOMAIN pool) /\ Cardinality(DOMAIN pool) = Len(pool)
    <2>1. /\ IsFiniteSet(1 .. Len(pool))
          /\ Cardinality(1 .. Len(pool)) = IF 1 > Len(pool) THEN 0 ELSE Len(pool) - 1 + 1
      BY <1>1, FS_Interval
    <2> QED
      BY <1>1, <2>1
  <1>3. \A T \in SUBSET DOMAIN pool : Cardinality(T) \in Nat /\ Cardinality(T) <= Len(pool)
    BY <1>2, FS_Subset, FS_CardinalityType
  <1>4. /\ {i \in DOMAIN pool : pool[i] < v} \in SUBSET DOMAIN pool
        /\ {i \in DOMAIN pool : pool[i] <= v} \in SUBSET DOMAIN pool
    OBVIOUS
  <1> QED
    BY <1>1, <1>2, <1>3, <1>4 DEF Below, UpTo

LEMMA RankExists ==
  ASSUME NEW pool \in Seq(Nat), NEW i \in Nat, i < Len(pool)
  PROVE  \E v \in {pool[j] : j \in DOMAIN pool} : Below(pool, v) <= i /\ i < UpTo(pool, v)
  <1> DEFINE n == Len(pool)
             values == {pool[j] : j \in DOMAIN pool}
             low == {v \in values : Below(pool, v) <= i}
             left == {n - Below(pool, v) : v \in low}
  <1>1. /\ n \in Nat /\ DOMAIN pool = 1 .. n /\ \A j \in DOMAIN pool : pool[j] \in Nat
        /\ IsFiniteSet(DOMAIN pool) /\ Cardinality(DOMAIN pool) = n
    BY PoolRanks
  <1>2. values \in SUBSET Nat /\ values # {}
    BY <1>1
  <1>3. low # {}
    <2>1. PICK v \in values : \A u \in values : v <= u
      BY <1>2, LeastExists
    <2>2. {j \in DOMAIN pool : pool[j] < v} = {}
      <3>1. \A j \in DOMAIN pool : v <= pool[j] /\ pool[j] \in Nat /\ v \in Nat
        BY <1>1, <1>2, <2>1
      <3> QED
        BY <3>1
    <2>3. Below(pool, v) = 0
      BY <2>2, FS_EmptySet DEF Below
    <2> QED
      BY <2>3
  <1>4. left \in SUBSET Nat /\ left # {}
    <2>1. \A v \in low : n - Below(pool, v) \in Nat
      BY PoolRanks
    <2> QED
      BY <1>3, <2>1
  <1>5. PICK m \in left : \A l \in left : m <= l
    BY <1>4, LeastExists
  <1>6. PICK v \in low : m = n - Below(pool, v)
    OBVIOUS
  <1>7. \A u \in low : Below(pool, u) <= Below(pool, v)
    <2> SUFFICES ASSUME NEW u \in low PROVE Below(pool, u) <= Below(pool, v)
      OBVIOUS
    <2>1. n - Below(pool, v) <= n - Below(pool, u)
      BY <1>5, <1>6
    <2>2. Below(pool, u) \in Nat /\ Below(pool, v) \in Nat
      BY PoolRanks
    <2> QED
      BY <1>1, <2>1, <2>2
  <1>8. v \in values /\ v \in Nat /\ Below(pool, v) <= i
    BY <1>2
  <1>9. ASSUME UpTo(pool, v) <= i PROVE FALSE
    <2> DEFINE upto == {j \in DOMAIN pool : pool[j] <= v}
               above == {u \in values : u > v}
    <2>1. UpTo(pool, v) \in Nat /\ UpTo(pool, v) = Cardinality(upto) /\ v \in Nat
      BY <1>8, PoolRanks DEF UpTo
    <2>2. upto # DOMAIN pool
      <3>1. Cardinality(upto) < n
        BY <1>1, <1>9, <2>1
      <3> HIDE DEF upto
      <3>2. Cardinality(upto) # n
        BY <1>1, <3>1
      <3> QED
        BY <1>1, <3>2
    <2>3. above # {}
      <3>1. PICK j \in DOMAIN pool : ~(pool[j] <= v)
        BY <2>2
      <3>2. pool[j] \in Nat /\ pool[j] > v
        BY <1>1, <2>1, <3>1
      <3>3. pool[j] \in above
        BY <3>2
      <3> QED
        BY <3>3
    <2>4. PICK u \in above : \A x \in above : u <= x
      BY <1>2, <2>3, LeastExists
    <2>5. {j \in DOMAIN pool : pool[j] < u} = upto
      <3>1. u \in Nat /\ u > v
        BY <1>2
      <3>2. ASSUME NEW j \in DOMAIN pool PROVE pool[j] < u <=> pool[j] <= v
        <4>1. pool[j] \in Nat /\ pool[j] \in values
          BY <1>1
        <4>2. pool[j] > v => u <= pool[j]
          BY <2>4, <4>1
        <4> QED
          BY <2>1, <3>1, <4>1, <4>2
      <3> QED
        BY <3>2
    <2>6. Below(pool, u) = UpTo(pool, v)
      BY <2>5 DEF Below, UpTo
    <2>7. u \in low
      BY <1>9, <2>6
    <2>8. Below(pool, v) < UpTo(pool, v)
      <3>1. PICK j \in DOMAIN pool : pool[j] = v
        BY <1>8
      <3> DEFINE below == {x \in DOMAIN pool : pool[x] < v}
      <3>2. below \subseteq upto /\ j \in upto /\ j \notin below
        BY <1>1, <1>8, <3>1
      <3>3. IsFiniteSet(upto) /\ below # upto
        <4>1. upto \in SUBSET DOMAIN pool
          OBVIOUS
        <4> QED
          BY <1>1, <3>2, <4>1, FS_Subset
      <3>4. Cardinality(below) < Cardinality(upto)
        <4>1. Cardinality(below) <= Cardinality(upto) /\ Cardinality(below) # Cardinality(upto)
          BY <3>2, <3>3, FS_Subset
        <4>2. Cardinality(below) \in Nat /\ Cardinality(upto) \in Nat
          BY <3>2, <3>3, FS_Subset, FS_CardinalityType
        <4> QED
          BY <4>1, <4>2
      <3>5. Below(pool, v) = Cardinality(below)
        BY DEF Below
      <3> QED
        BY <2>1, <3>4, <3>5
    <2>9. Below(pool, u) <= Below(pool, v) /\ Below(pool, v) \in Nat
      BY <1>7, <2>7, PoolRanks
    <2> QED
      BY <2>1, <2>6, <2>8, <2>9
  <1>10. UpTo(pool, v) \in Nat
    BY PoolRanks
  <1> QED
    BY <1>8, <1>9, <1>10

LEMMA OrderedRank ==
  ASSUME NEW pool \in Seq(Nat), NEW i \in Nat, i < Len(pool)
  PROVE  Below(pool, Ordered(pool, i)) <= i /\ i < UpTo(pool, Ordered(pool, i))
  BY RankExists DEF Ordered

\* v is the least of the samples that at least q of them do not exceed.
NearestRank(q, pool, v) ==
  /\ UpTo(pool, v) * q[2] >= q[1] * Len(pool)
  /\ Below(pool, v) # 0 => Below(pool, v) * q[2] < q[1] * Len(pool)

\* The index that quantile() computes is within the pool and the nearest rank of q.
LEMMA QuantileRank ==
  ASSUME NEW pool \in Seq(Nat), pool # <<>>,
         NEW q \in {<<0, 1>>, <<1, 2>>, <<19, 20>>, <<99, 100>>, <<1, 1>>}
  PROVE  NearestRank(q, pool, Quantile(q, pool))
  <1> DEFINE n == Len(pool)
             ceil == (q[1] * n + q[2] - 1) \div q[2]
             i == Larger(Smaller(ceil - 1, n - 1), 0)
             v == Quantile(q, pool)
  <1>1. n \in Nat /\ n >= 1
    BY EmptySeq, LenProperties
  <1>2. /\ i \in Nat /\ i < n
        /\ (i + 1) * q[2] >= q[1] * n
        /\ i # 0 => i * q[2] < q[1] * n
    <2>1. CASE q = <<0, 1>>
      BY <1>1, <2>1 DEF Larger, Smaller
    <2>2. CASE q = <<1, 2>>
      BY <1>1, <2>2 DEF Larger, Smaller
    <2>3. CASE q = <<19, 20>>
      BY <1>1, <2>3 DEF Larger, Smaller
    <2>4. CASE q = <<99, 100>>
      BY <1>1, <2>4 DEF Larger, Smaller
    <2>5. CASE q = <<1, 1>>
      BY <1>1, <2>5 DEF Larger, Smaller
    <2> QED
      BY <2>1, <2>2, <2>3, <2>4, <2>5
  <1>3. v = Ordered(pool, i)
    BY DEF Quantile
  <1>4. Below(pool, v) <= i /\ i < UpTo(pool, v) /\ Below(pool, v) \in Nat /\ UpTo(pool, v) \in Nat
    BY <1>2, <1>3, OrderedRank, PoolRanks
  <1> DEFINE b == Below(pool, v)
             u == UpTo(pool, v)
  <1> HIDE DEF i, v, n, b, u
  <1>5. u * q[2] >= q[1] * n /\ (b # 0 => b * q[2] < q[1] * n)
    <2>1. b <= i /\ i < u /\ b \in Nat /\ u \in Nat
      BY <1>4 DEF b, u
    \* With q known the two products are linear.
    <2>2. CASE q = <<0, 1>>
      BY <1>1, <1>2, <2>1, <2>2
    <2>3. CASE q = <<1, 2>>
      BY <1>1, <1>2, <2>1, <2>3
    <2>4. CASE q = <<19, 20>>
      BY <1>1, <1>2, <2>1, <2>4
    <2>5. CASE q = <<99, 100>>
      BY <1>1, <1>2, <2>1, <2>5
    <2>6. CASE q = <<1, 1>>
      BY <1>1, <1>2, <2>1, <2>6
    <2> QED
      BY <2>2, <2>3, <2>4, <2>5, <2>6
  <1> QED
    BY <1>5 DEF b, u, v, n, NearestRank

\* What /stats has looked up, and what it has gathered.
ReaderOK ==
  /\ reader.at = "copy" => \A o \in reader.open : o[1] \in Keys /\ o[2] \in DOMAIN lists[o[1]]
  /\ reader.pool \in Seq(Values) /\ reader.todo \in SUBSET Made
  /\ DOMAIN reader = {"at", "todo", "size", "open", "pool"}

LEMMA ReaderHolds == Spec => []ReaderOK
  <1>1. Init => ReaderOK
    BY EmptySeq DEF Init, ReaderOK
  <1>2. Inv /\ ScrapeOK /\ ReaderOK /\ [Next]_vars => ReaderOK'
    <2>1. ASSUME ReaderOK, Inv, NEW w \in Observers, Write(w) PROVE ReaderOK'
      <3>1. reader' = reader
        BY <2>1 DEF Write, Goto, Acquire, Release, CountError, CountRequest, CheckKey, CreateLists,
                    CountBucket, Tally, AppendSample
      <3> QED
        BY <2>1, <3>1, WriteLists DEF ReaderOK, Made
    <2>2. ASSUME ReaderOK, UNCHANGED <<lists, reader>> PROVE ReaderOK'
      BY <2>2 DEF ReaderOK, Made, Exists
    <2>3. ASSUME ScrapeArrives \/ Scrape PROVE UNCHANGED <<lists, reader>>
      BY <2>3 DEF ScrapeArrives, Scrape, ScrapeStep, ScrapeOpen, ScrapeKeys, ScrapeKey,
         ScrapeBucket, ScrapeInf, ScrapeCount, ScrapeNext, ScrapeClose, history
    <2>4. ASSUME Inv, ScrapeOK, ReaderOK, Read PROVE ReaderOK'
      <3>1. UNCHANGED lists /\ Made' = Made
        BY <2>4, VisitorsStep DEF history, Made, Exists
      <3>2. ASSUME NEW k \in Made, NEW keys \in SUBSET Made, NEW size, TakeKey(k, keys, size)
            PROVE  ReaderOK'
        <4>1. k \in Keys /\ Len(lists[k]) \in DOMAIN lists[k]
          BY <2>4, <3>2, CurrentPlace DEF Inv
        <4>2. /\ reader'.open = {<<k, Len(lists[k])>>} /\ reader'.pool = reader.pool
              /\ reader'.todo = keys \ {k} /\ DOMAIN reader' = DOMAIN reader
          BY <2>4, <3>2 DEF TakeKey, ReaderOK
        <4> QED
          BY <2>4, <3>1, <4>1, <4>2 DEF ReaderOK
      <3>3. CASE ReaderOpen
        <4>1. CASE reader' = [reader EXCEPT !.at = "done"]
          BY <2>4, <3>1, <4>1 DEF ReaderOK
        <4> QED
          BY <3>2, <3>3, <4>1 DEF ReaderOpen
      <3>4. CASE ReaderNext
        <4>1. CASE reader' = [reader EXCEPT !.at = "done"]
          BY <2>4, <3>1, <4>1 DEF ReaderOK
        <4>2. reader.todo \in SUBSET Made
          BY <2>4 DEF ReaderOK
        <4> QED
          BY <3>2, <3>4, <4>1, <4>2 DEF ReaderNext
      <3>5. CASE ReaderCopy
        <4>1. PICK o \in reader.open :
                reader' = [reader EXCEPT !.at = "next", !.pool = @ \o lists[o[1]][o[2]].pool]
          BY <3>5 DEF ReaderCopy
        <4>2. o[1] \in Keys /\ o[2] \in DOMAIN lists[o[1]]
          BY <2>4, <3>5 DEF ReaderOK, ReaderCopy, ReaderStep
        <4>3. lists[o[1]][o[2]].pool \in Seq(Values)
          <5>1. lists[o[1]] \in Seq(Entry)
            BY <2>4, <4>2 DEF Inv, TypeOK, Entry
          <5>2. lists[o[1]][o[2]] \in Entry
            BY <4>2, <5>1, LenProperties, ElementOfSeq
          <5> QED
            BY <5>2 DEF Entry
        <4>4. reader.pool \o lists[o[1]][o[2]].pool \in Seq(Values)
          BY <2>4, <4>3, ConcatProperties DEF ReaderOK
        <4>5. /\ reader'.at = "next" /\ reader'.todo = reader.todo
              /\ reader'.pool = reader.pool \o lists[o[1]][o[2]].pool
              /\ DOMAIN reader' = DOMAIN reader
          BY <2>4, <4>1 DEF ReaderOK
        <4> QED
          BY <2>4, <3>1, <4>4, <4>5 DEF ReaderOK
      <3>6. CASE ReaderRaises
        BY <2>4, <3>1, <3>6 DEF ReaderOK, ReaderRaises
      <3> QED
        BY <2>4, <3>3, <3>4, <3>5, <3>6 DEF Read
    <2> QED
      BY <2>1, <2>2, <2>3, <2>4 DEF Next, vars, history
  <1> QED
    BY <1>1, <1>2, InvHolds, PTL DEF Spec

(***************************************************************************)
(* Whatever was written while it read, each quantile of /stats is the       *)
(* nearest rank of the samples that were gathered.                          *)
(***************************************************************************)
THEOREM QuantilesAreSound == Spec => []QuantileSound
  <1>1. ReaderOK => QuantileSound
    <2> SUFFICES ASSUME ReaderOK, reader.pool # <<>>,
                        NEW q \in {<<0, 1>>, <<1, 2>>, <<19, 20>>, <<99, 100>>, <<1, 1>>}
        PROVE  NearestRank(q, reader.pool, Quantile(q, reader.pool))
      BY DEF QuantileSound, NearestRank
    <2>1. reader.pool \in Seq(Nat)
      <3>1. reader.pool \in Seq(Values) /\ Values \subseteq Nat
        BY MetricsAssumption DEF ReaderOK
      <3> QED
        BY <3>1, SeqMonotonic
    <2> QED
      BY <2>1, QuantileRank
  <1> QED
    BY <1>1, ReaderHolds, PTL
=============================================================================
