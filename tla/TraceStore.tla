----------------------------- MODULE TraceStore -----------------------------
(***************************************************************************)
(* TraceStore (src/src/llmobs/store.py): request threads export their       *)
(* traces through one SQLite connection, prune() deletes old ones, another  *)
(* process pages through the file (`llmobs slo`), and the server may crash. *)
(*                                                                         *)
(* A database is its trace rows and how many span rows each trace has:      *)
(* executemany inserts the spans of a trace in order.  view is what the     *)
(* connection sees, its open transaction included; disk is what is          *)
(* committed.  A trace is numbered by its started_at, and the thread that   *)
(* saves it goes by the same number.                                        *)
(***************************************************************************)
EXTENDS Integers, FiniteSets

CONSTANTS
  NumTraces,  \* traces 1 .. NumTraces, oldest first
  NumSpans,   \* spans of each
  KeepLast,   \* prune(keep_last)
  BatchSize,  \* iter_traces(batch_size)
  MaxPrunes,  \* bound: calls of prune()
  MaxCrashes  \* bound: crashes of the server

Traces == 1 .. NumTraces

ASSUME StoreAssumption ==
  /\ NumTraces \in Nat
  /\ NumSpans \in [Traces -> Nat \ {0}]
  /\ KeepLast \in Nat
  /\ BatchSize \in Nat \ {0}
  /\ MaxPrunes \in Nat /\ MaxCrashes \in Nat

VARIABLES
  pc,       \* where the thread that saves each trace stands
  view,     \* the database as the server's connection sees it
  disk,     \* the database as committed
  lock,     \* who holds TraceStore._lock: a trace's thread, 0 for prune(), or nobody
  prune,    \* where the thread that prunes stands
  pruned,   \* calls of prune() so far, and whether one left spans of deleted traces behind
  crashed,  \* crashes so far
  reader    \* the other process's locals, and what was on disk when it began

vars == <<pc, view, disk, lock, prune, pruned, crashed, reader>>

Nobody == NumTraces + 1

Empty == [rows |-> {}, spans |-> [t \in Traces |-> 0]]

Init ==
  /\ pc = [t \in Traces |-> "new"]
  /\ view = Empty /\ disk = Empty
  /\ lock = Nobody
  /\ prune = "idle" /\ pruned = [calls |-> 0, torn |-> FALSE]
  /\ crashed = 0
  /\ reader = [at |-> "idle", offset |-> 0, seen |-> {}, replayed |-> 0,
               older |-> {}, intact |-> TRUE]

-----------------------------------------------------------------------------
(* save() *)

Goto(t, from, to) ==
  /\ pc[t] = from
  /\ pc' = [pc EXCEPT ![t] = to]

Save(t) ==
  /\ lock = Nobody
  /\ Goto(t, "new", "row")
  /\ lock' = t
  /\ UNCHANGED <<view, disk, prune, pruned, crashed, reader>>

\* Wrong: autocommit, each statement is durable by itself.
InsertTraceDurably(t) ==
  /\ Goto(t, "row", "spans")
  /\ view' = [rows |-> view.rows \cup {t}, spans |-> view.spans]
  /\ disk' = view'
  /\ UNCHANGED <<lock, prune, pruned, crashed, reader>>

InsertTrace(t) ==
  /\ Goto(t, "row", "spans")
  /\ view' = [rows |-> view.rows \cup {t}, spans |-> view.spans]
  /\ UNCHANGED <<disk, lock, prune, pruned, crashed, reader>>

\* One row of executemany.
InsertSpan(t) ==
  /\ view.spans[t] < NumSpans[t]
  /\ Goto(t, "spans", IF view.spans[t] + 1 = NumSpans[t] THEN "commit" ELSE "spans")
  /\ view' = [rows |-> view.rows, spans |-> [view.spans EXCEPT ![t] = @ + 1]]
  /\ UNCHANGED <<disk, lock, prune, pruned, crashed, reader>>

\* Wrong: the exception leaves the lock held.
StatementFailsLocked(t) ==
  /\ \E from \in {"row", "spans"} : Goto(t, from, "failed")
  /\ UNCHANGED <<view, disk, lock, prune, pruned, crashed, reader>>

\* A value does not bind: save() raises, and the open transaction stays open.
StatementFails(t) ==
  /\ \E from \in {"row", "spans"} : Goto(t, from, "failed")
  /\ lock' = Nobody
  /\ UNCHANGED <<view, disk, prune, pruned, crashed, reader>>

\* The connection's transaction becomes what every other process reads.
MakeDurable ==
  /\ disk' = view
  /\ reader' = [reader EXCEPT !.intact = @ /\ disk.rows \subseteq view.rows]

\* Wrong: save() returns without the commit.
CommitLater(t) ==
  /\ Goto(t, "commit", "saved")
  /\ lock' = Nobody
  /\ UNCHANGED <<view, disk, prune, pruned, crashed, reader>>

Commit(t) ==
  /\ Goto(t, "commit", "saved")
  /\ MakeDurable
  /\ lock' = Nobody
  /\ UNCHANGED <<view, prune, pruned, crashed>>

\* commit() raises: SQLite keeps the transaction open or rolls it back.
CommitFails(t) ==
  /\ Goto(t, "commit", "failed")
  /\ view' \in {view, disk}
  /\ lock' = Nobody
  /\ UNCHANGED <<disk, prune, pruned, crashed, reader>>

-----------------------------------------------------------------------------
(* prune() *)

PruneGoto(from, to) ==
  /\ prune = from
  /\ prune' = to

\* Wrong: the oldest rows are kept.
NewestAscending(rows) == {t \in rows : Cardinality({u \in rows : u < t}) < KeepLast}

\* ORDER BY started_at DESC LIMIT keep_last
Newest(rows) == {t \in rows : Cardinality({u \in rows : u > t}) < KeepLast}

Prune ==
  /\ pruned.calls < MaxPrunes
  /\ lock = Nobody
  /\ PruneGoto("idle", "rows")
  /\ lock' = 0
  /\ pruned' = [pruned EXCEPT !.calls = @ + 1]
  /\ UNCHANGED <<pc, view, disk, crashed, reader>>

DeleteTraces ==
  /\ PruneGoto("rows", "orphans")
  /\ view' = [rows |-> Newest(view.rows), spans |-> view.spans]
  /\ UNCHANGED <<pc, disk, lock, pruned, crashed, reader>>

\* Wrong: only the spans of traces that were whole are deleted.
DeleteSpansOfWhole ==
  /\ PruneGoto("orphans", "commit")
  /\ view' = [rows |-> view.rows, spans |-> [t \in Traces |->
       IF t \in view.rows \/ view.spans[t] < NumSpans[t] THEN view.spans[t] ELSE 0]]
  /\ UNCHANGED <<pc, disk, lock, pruned, crashed, reader>>

DeleteSpans ==
  /\ PruneGoto("orphans", "commit")
  /\ view' = [rows |-> view.rows, spans |-> [t \in Traces |->
       IF t \in view.rows THEN view.spans[t] ELSE 0]]
  /\ UNCHANGED <<pc, disk, lock, pruned, crashed, reader>>

CommitPrune ==
  /\ PruneGoto("commit", "idle")
  /\ MakeDurable
  /\ lock' = Nobody
  /\ pruned' = [pruned EXCEPT !.torn = FALSE]
  /\ UNCHANGED <<pc, view, crashed>>

\* A DELETE or commit() raises: SQLite undoes no more than the statement, or the
\* whole transaction.  Between the two statements that leaves spans without a trace.
PruneFails ==
  /\ \E from \in {"rows", "orphans", "commit"} : PruneGoto(from, "idle")
  /\ view' \in {view, disk}
  /\ lock' = Nobody
  /\ pruned' = [pruned EXCEPT !.torn = @ \/ prune = "orphans"]
  /\ UNCHANGED <<pc, disk, crashed, reader>>

-----------------------------------------------------------------------------
(* The server dies; it starts again on the same file. *)

Crash ==
  /\ crashed < MaxCrashes
  /\ crashed' = crashed + 1
  /\ pc' = [t \in Traces |-> IF pc[t] \in {"row", "spans", "commit"} THEN "lost" ELSE pc[t]]
  /\ view' = disk
  /\ lock' = Nobody
  /\ prune' = "idle"
  /\ UNCHANGED <<disk, pruned, reader>>

-----------------------------------------------------------------------------
(* iter_traces() on a connection of its own *)

Iterate ==
  /\ reader.at = "idle"
  /\ reader' = [at |-> "page", offset |-> 0, seen |-> {}, replayed |-> 0,
                older |-> disk.rows, intact |-> TRUE]
  /\ UNCHANGED <<pc, view, disk, lock, prune, pruned, crashed>>

\* Rows by started_at, offset + 1 to offset + batch_size.
Page(rows, offset) ==
  {t \in rows : Cardinality({u \in rows : u < t}) \in offset .. offset + BatchSize - 1}

\* Wrong: one row between two pages is passed over.
NextOffsetPastOne(offset) == offset + BatchSize + 1

\* Wrong: the offset counts pages, not rows.
NextOffsetByPage(offset) == offset + 1

NextOffset(offset) == offset + BatchSize

FetchPage ==
  LET page == Page(disk.rows, reader.offset) IN
  /\ reader.at = "page"
  /\ reader' = IF page = {}
               THEN [reader EXCEPT !.at = "done"]
               ELSE [reader EXCEPT !.offset = NextOffset(@), !.seen = @ \cup page,
                                   !.replayed = @ + Cardinality(page)]
  /\ UNCHANGED <<pc, view, disk, lock, prune, pruned, crashed>>

-----------------------------------------------------------------------------

SaveStep(t) ==
  \/ InsertTrace(t) \/ InsertSpan(t) \/ StatementFails(t) \/ Commit(t) \/ CommitFails(t)

PruneStep == DeleteTraces \/ DeleteSpans \/ CommitPrune \/ PruneFails

Next ==
  \/ \E t \in Traces : Save(t) \/ SaveStep(t)
  \/ Prune \/ PruneStep
  \/ Crash
  \/ Iterate \/ FetchPage

Spec == Init /\ [][Next]_vars

\* A thread that runs gets on, and one that waits for a free lock takes it.
FairSpec ==
  /\ Spec
  /\ \A t \in Traces : WF_vars(Save(t) \/ SaveStep(t))
  /\ WF_vars(PruneStep)

-----------------------------------------------------------------------------
(* Properties *)

Places == {"new", "row", "spans", "commit", "saved", "failed", "lost"}

Databases == [rows : SUBSET Traces, spans : [Traces -> Nat]]

Readers ==
  [at : {"idle", "page", "done"}, offset : Nat, seen : SUBSET Traces, replayed : Nat,
   older : SUBSET Traces, intact : BOOLEAN]

Whole(db, t) == t \in db.rows /\ db.spans[t] = NumSpans[t]

Newer(db, t) == {u \in db.rows : u > t}

Writing(t) == pc[t] \in {"row", "spans", "commit"}

\* The lock is with the one thread inside save() or prune(), or with nobody.
LockFits ==
  /\ \A t \in Traces : Writing(t) <=> lock = t
  /\ prune # "idle" <=> lock = 0

TypeOK ==
  /\ pc \in [Traces -> Places]
  /\ view \in Databases /\ disk \in Databases
  /\ \A t \in Traces : view.spans[t] <= NumSpans[t] /\ disk.spans[t] <= NumSpans[t]
  /\ lock \in 0 .. Nobody
  /\ prune \in {"idle", "rows", "orphans", "commit"}
  /\ pruned \in [calls : 0 .. MaxPrunes, torn : BOOLEAN]
  /\ crashed \in 0 .. MaxCrashes
  /\ reader \in Readers
  /\ LockFits

(***************************************************************************)
(* A trace whose save() returned is on disk with all its spans, through any *)
(* failure of other saves, any crash and any prune, until keep_last newer   *)
(* traces are there (store.py:87-121, 268-281).                             *)
(***************************************************************************)
SavedSurvive ==
  \A t \in Traces : pc[t] = "saved" =>
    Whole(disk, t) \/ Cardinality(Newer(disk, t)) >= KeepLast

(***************************************************************************)
(* A trace on disk that lacks spans is one whose save() raised: a crash or  *)
(* a thread in mid-save never leaves one (store.py:87, 121).                *)
(***************************************************************************)
HalvesAreOfFailedSaves ==
  \A t \in disk.rows : Whole(disk, t) \/ pc[t] = "failed"

(***************************************************************************)
(* No span outlives its trace on disk, whatever was left half written when  *)
(* prune() ran (store.py:270-280), unless a prune() raised between its two  *)
(* DELETEs: the save() after it commits the first without the second.  The  *)
(* next prune that is committed takes away what that has left.              *)
(***************************************************************************)
NoOrphanSpans ==
  pruned.torn \/ \A t \in Traces : disk.spans[t] > 0 => t \in disk.rows

(***************************************************************************)
(* The file is what its readers take it for, although it is written row by  *)
(* row through one shared transaction (store.py:87-121, 268-281): a save    *)
(* and a prune happen at their commit, all of it or nothing; a commit drops *)
(* no trace that has not keep_last newer ones; no trace on disk changes;    *)
(* and of what a failed save left behind, the next commit or crash decides. *)
(***************************************************************************)
Archive == INSTANCE TraceArchive WITH
  fate   <- [t \in Traces |-> IF Writing(t) \/ pc[t] = "new" THEN "pending" ELSE pc[t]],
  kept   <- disk.rows,
  part   <- {t \in disk.rows : ~Whole(disk, t)},
  adrift <- {t \in view.rows \ disk.rows : pc[t] = "failed"}

ImplementsArchive == Archive!Spec

(***************************************************************************)
(* Paging by offset (store.py:255-266) misses no trace that was on disk     *)
(* when it began, although older traces are committed between two pages, as *)
(* long as nothing is pruned.  A trace that an older one pushes onto the    *)
(* next page is replayed twice (cli.py:219), but the replay never counts    *)
(* more traces than are stored.                                             *)
(***************************************************************************)
IterationExact ==
  reader.intact =>
    /\ reader.at = "done" => reader.older \subseteq reader.seen
    /\ reader.replayed <= Cardinality(disk.rows)

(***************************************************************************)
(* Every save() comes to an end, whatever fails in it or beside it          *)
(* (store.py:87): the lock always comes free again.                         *)
(***************************************************************************)
SavesEnd == <>(\A t \in Traces : pc[t] \in {"saved", "failed", "lost"})

(***************************************************************************)
(* "A trace with half its spans missing is worse than no trace"             *)
(* (trace.py:10-11): no such trace is on disk.                              *)
(***************************************************************************)
WholeOnDisk == \A t \in disk.rows : Whole(disk, t)
=============================================================================
