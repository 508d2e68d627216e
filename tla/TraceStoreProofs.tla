-------------------------- MODULE TraceStoreProofs --------------------------
(***************************************************************************)
(* Theorems of TraceStore for any number of traces and spans, any keep_last,*)
(* and any number of prunes and crashes.                                    *)
(*                                                                         *)
(* Inv strengthens the claims about the disk with the same claims about the *)
(* connection's view, of which the next commit makes the disk: a failed save*)
(* or commit leaves in the view what no single save() would put there.      *)
(***************************************************************************)
EXTENDS TraceStore, FiniteSetTheorems, WellFoundedInduction, TLAPS

NoOrphans(db) == \A t \in Traces : db.spans[t] > 0 => t \in db.rows

Absent(db, t) == t \notin db.rows /\ db.spans[t] = 0

Replaced(db, t) == Cardinality(Newer(db, t)) >= KeepLast

\* What the two databases hold of a trace, by where its save() stands.
Stage(t) ==
  /\ pc[t] \in {"new", "row"} => Absent(view, t)
  /\ pc[t] \in {"new", "row", "spans", "commit"} => Absent(disk, t)
  /\ pc[t] = "spans" => t \in view.rows /\ view.spans[t] < NumSpans[t]
  /\ pc[t] = "commit" => Whole(view, t)
  /\ pc[t] = "saved" => Whole(disk, t) \/ Replaced(disk, t)
  /\ pc[t] = "saved" => Whole(view, t) \/ Replaced(view, t)

\* What lacks spans, and what the next commit takes away.
Rows(t) ==
  /\ t \in disk.rows => Whole(disk, t) \/ pc[t] = "failed"
  /\ t \in view.rows => Whole(view, t) \/ pc[t] \in {"failed", "spans"}
  /\ t \in disk.rows => t \in view.rows \/ Replaced(view, t)

\* A prune() cleans the view before it commits, and one that raised may have not.
Clean ==
  /\ ~pruned.torn => NoOrphans(disk)
  /\ ~pruned.torn /\ prune # "orphans" => NoOrphans(view)
  /\ prune = "commit" => NoOrphans(view)

Inv ==
  /\ TypeOK
  /\ Clean
  /\ \A t \in Traces : Stage(t) /\ Rows(t)

-----------------------------------------------------------------------------
(* Rows by age *)

LEMMA TracesFinite == IsFiniteSet(Traces)
BY StoreAssumption, FS_Interval DEF Traces

\* More rows, more newer rows.
LEMMA NewerGrows ==
  ASSUME NEW rows \in SUBSET Traces, NEW more \in SUBSET Traces, rows \subseteq more,
         NEW t \in Traces,
         Cardinality({u \in rows : u > t}) >= KeepLast
  PROVE  Cardinality({u \in more : u > t}) >= KeepLast
<1>1. IsFiniteSet({u \in more : u > t})
  BY TracesFinite, FS_Subset
<1>2. {u \in rows : u > t} \subseteq {u \in more : u > t}
  OBVIOUS
<1>3. /\ Cardinality({u \in rows : u > t}) <= Cardinality({u \in more : u > t})
      /\ Cardinality({u \in rows : u > t}) \in Nat
      /\ Cardinality({u \in more : u > t}) \in Nat
  BY <1>1, <1>2, FS_Subset, FS_CardinalityType
<1> QED
  BY <1>3, StoreAssumption

\* A set of traces that is not empty has a newest member.
LEMMA NewestExists ==
  ASSUME NEW S \in SUBSET Traces, S # {}
  PROVE  \E m \in S : \A u \in S : u <= m
<1> DEFINE ages == {NumTraces - u : u \in S}
<1>1. ages \subseteq Nat /\ ages # {}
  <2>1. \A u \in S : NumTraces - u \in Nat
    BY StoreAssumption DEF Traces
  <2> QED
    BY <2>1
<1>2. PICK a \in ages : \A b \in ages : ~(<<b, a>> \in OpToRel(<, Nat))
  BY <1>1, NatLessThanWellFounded, WFMin
<1>3. PICK m \in S : a = NumTraces - m
  OBVIOUS
<1>4. \A u \in S : u <= m
  <2>1. SUFFICES ASSUME NEW u \in S PROVE u <= m
    OBVIOUS
  <2>2. NumTraces - u \in ages
    OBVIOUS
  <2>3. ~(NumTraces - u < a)
    BY <2>2, <1>1, <1>2 DEF OpToRel
  <2> QED
    BY <2>3, <1>3, StoreAssumption DEF Traces
<1> QED
  BY <1>4

(***************************************************************************)
(* Keeping the keep_last newest rows leaves keep_last rows newer than any   *)
(* trace that had them: were one of those missing, the newest missing one   *)
(* would have fewer than keep_last above it and have been kept.             *)
(***************************************************************************)
LEMMA NewestKeepEnough ==
  ASSUME NEW rows \in SUBSET Traces, NEW t \in Traces,
         Cardinality({u \in rows : u > t}) >= KeepLast
  PROVE  Cardinality({u \in Newest(rows) : u > t}) >= KeepLast
<1> DEFINE all == {u \in rows : u > t}
           kept == {u \in Newest(rows) : u > t}
<1>1. kept \subseteq all /\ kept \subseteq Traces
  BY DEF Newest
<1>2. IsFiniteSet(all) /\ IsFiniteSet(kept)
  BY <1>1, TracesFinite, FS_Subset
<1>3. Cardinality(all) \in Nat /\ Cardinality(kept) \in Nat /\ KeepLast \in Nat
  BY <1>2, FS_CardinalityType, StoreAssumption
<1>4. SUFFICES ASSUME Cardinality(kept) < KeepLast PROVE FALSE
  BY <1>3
<1>5. all \ kept # {}
  BY <1>1, <1>3, <1>4
<1>6. PICK m \in all \ kept : \A u \in all \ kept : u <= m
  BY <1>5, NewestExists
<1>7. {u \in rows : u > m} \subseteq kept
  <2>1. SUFFICES ASSUME NEW u \in rows, u > m, u \notin kept PROVE FALSE
    OBVIOUS
  <2>2. u > t
    BY <2>1, <1>6 DEF Traces
  <2>3. u \in all \ kept
    BY <2>1, <2>2
  <2> HIDE DEF all, kept
  <2>4. u <= m /\ u \in Int /\ m \in Int
    BY <2>3, <1>1, <1>6 DEF Traces, all
  <2> QED
    BY <2>1, <2>4
<1>8. Cardinality({u \in rows : u > m}) <= Cardinality(kept) /\ Cardinality({u \in rows : u > m}) \in Nat
  BY <1>2, <1>7, FS_Subset, FS_CardinalityType
<1>9. m \in Newest(rows)
  BY <1>3, <1>4, <1>6, <1>8 DEF Newest
<1> QED
  BY <1>6, <1>9

\* What is not kept has keep_last rows above it.
LEMMA DroppedAreReplaced ==
  ASSUME NEW rows \in SUBSET Traces, NEW t \in rows, t \notin Newest(rows)
  PROVE  Cardinality({u \in Newest(rows) : u > t}) >= KeepLast
<1>1. IsFiniteSet({u \in rows : u > t})
  BY TracesFinite, FS_Subset
<1>2. Cardinality({u \in rows : u > t}) >= KeepLast
  BY <1>1, FS_CardinalityType, StoreAssumption DEF Newest
<1> QED
  BY <1>2, NewestKeepEnough

-----------------------------------------------------------------------------
(* Types and the lock *)

LEMMA TypeInit == Init => TypeOK
BY StoreAssumption DEF Init, TypeOK, Empty, Databases, Readers, LockFits, Writing, Nobody, Traces, Places

\* A commit leaves the reader a reader.
LEMMA DurableReader ==
  ASSUME reader \in Readers, MakeDurable
  PROVE  reader' \in Readers
BY DEF MakeDurable, Readers

LEMMA FetchReader ==
  ASSUME reader \in Readers, disk \in Databases, FetchPage
  PROVE  reader' \in Readers
<1> DEFINE page == Page(disk.rows, reader.offset)
<1>1. page \subseteq Traces /\ IsFiniteSet(page)
  BY TracesFinite, FS_Subset DEF Page, Databases
<1>2. Cardinality(page) \in Nat /\ NextOffset(reader.offset) \in Nat
  BY <1>1, FS_CardinalityType, StoreAssumption DEF NextOffset, Readers
<1> HIDE DEF page
<1>3. CASE page = {}
  BY <1>3 DEF FetchPage, Readers, page
<1>4. CASE page # {}
  <2>1. reader' = [reader EXCEPT !.offset = NextOffset(@), !.seen = @ \cup page,
                                 !.replayed = @ + Cardinality(page)]
    BY <1>4 DEF FetchPage, page
  <2>2. reader.seen \cup page \in SUBSET Traces /\ reader.replayed + Cardinality(page) \in Nat
    BY <1>1, <1>2 DEF Readers
  <2> QED
    BY <1>2, <2>1, <2>2 DEF Readers
<1> QED
  BY <1>3, <1>4

LEMMA TypeStep ==
  ASSUME TypeOK, [Next]_vars
  PROVE  TypeOK'
<1> USE DEF TypeOK, LockFits, Writing, Databases, Places
<1>1. ASSUME NEW t \in Traces, Save(t) PROVE TypeOK'
  <2>1. \A u \in Traces : ~Writing(u)
    BY <1>1, StoreAssumption DEF Save, Nobody, Traces
  <2>2. LockFits'
    BY <1>1, <2>1, StoreAssumption DEF Save, Goto, Nobody, Traces
  <2>3. pc' \in [Traces -> Places]
    BY <1>1 DEF Save, Goto
  <2>4. lock' \in 0 .. Nobody
    BY <1>1, StoreAssumption DEF Save, Nobody, Traces
  <2> HIDE DEF LockFits, Writing
  <2> QED
    BY <1>1, <2>2, <2>3, <2>4 DEF Save
<1>2. ASSUME NEW t \in Traces, InsertTrace(t) PROVE TypeOK'
  BY <1>2, StoreAssumption DEF InsertTrace, Goto, Nobody, Traces
<1>3. ASSUME NEW t \in Traces, InsertSpan(t) PROVE TypeOK'
  <2>1. LockFits' /\ pc' \in [Traces -> Places]
    BY <1>3 DEF InsertSpan, Goto
  <2>2. view' \in Databases /\ \A u \in Traces : view'.spans[u] <= NumSpans[u]
    BY <1>3, StoreAssumption DEF InsertSpan
  <2> HIDE DEF LockFits, Writing, Databases, Places
  <2> QED
    BY <1>3, <2>1, <2>2 DEF InsertSpan
<1>4. ASSUME NEW t \in Traces, StatementFails(t) PROVE TypeOK'
  <2>1. Writing(t) /\ lock = t
    BY <1>4 DEF StatementFails, Goto
  <2>2. \A u \in Traces : ~Writing(u)'
    BY <1>4, <2>1 DEF StatementFails, Goto
  <2>3. LockFits'
    BY <1>4, <2>1, <2>2, StoreAssumption DEF StatementFails, Nobody, Traces
  <2>4. pc' \in [Traces -> Places]
    BY <1>4 DEF StatementFails, Goto
  <2>5. lock' \in 0 .. Nobody
    BY <1>4, StoreAssumption DEF StatementFails, Nobody
  <2> HIDE DEF LockFits, Writing
  <2> QED
    BY <1>4, <2>3, <2>4, <2>5 DEF StatementFails
<1>5. ASSUME NEW t \in Traces, Commit(t) PROVE TypeOK'
  <2>1. Writing(t) /\ lock = t
    BY <1>5 DEF Commit, Goto
  <2>2. \A u \in Traces : ~Writing(u)'
    BY <1>5, <2>1 DEF Commit, Goto
  <2>3. LockFits'
    BY <1>5, <2>1, <2>2, StoreAssumption DEF Commit, Nobody, Traces
  <2>4. pc' \in [Traces -> Places]
    BY <1>5 DEF Commit, Goto
  <2>5. lock' \in 0 .. Nobody
    BY <1>5, StoreAssumption DEF Commit, Nobody
  <2>6. reader' \in Readers
    BY <1>5, DurableReader DEF Commit
  <2> HIDE DEF LockFits, Writing
  <2> QED
    BY <1>5, <2>3, <2>4, <2>5, <2>6 DEF Commit, MakeDurable
<1>6. ASSUME NEW t \in Traces, CommitFails(t) PROVE TypeOK'
  <2>1. Writing(t) /\ lock = t
    BY <1>6 DEF CommitFails, Goto
  <2>2. \A u \in Traces : ~Writing(u)'
    BY <1>6, <2>1 DEF CommitFails, Goto
  <2>3. LockFits'
    BY <1>6, <2>1, <2>2, StoreAssumption DEF CommitFails, Nobody, Traces
  <2>4. pc' \in [Traces -> Places]
    BY <1>6 DEF CommitFails, Goto
  <2>5. lock' \in 0 .. Nobody
    BY <1>6, StoreAssumption DEF CommitFails, Nobody
  <2> HIDE DEF LockFits, Writing
  <2> QED
    BY <1>6, <2>3, <2>4, <2>5 DEF CommitFails
<1>7. CASE Prune
  <2>1. pruned' \in [calls : 0 .. MaxPrunes, torn : BOOLEAN]
    BY <1>7, StoreAssumption DEF Prune
  <2>2. LockFits' /\ lock' \in 0 .. Nobody
    BY <1>7, StoreAssumption DEF Prune, PruneGoto, Nobody, Traces
  <2> HIDE DEF LockFits, Writing
  <2> QED
    BY <1>7, <2>1, <2>2 DEF Prune, PruneGoto
<1>8. CASE DeleteTraces
  BY <1>8, StoreAssumption DEF DeleteTraces, PruneGoto, Newest, Nobody, Traces
<1>9. CASE DeleteSpans
  BY <1>9, StoreAssumption DEF DeleteSpans, PruneGoto, Nobody, Traces
<1>10. CASE CommitPrune
  <2>1. pruned' \in [calls : 0 .. MaxPrunes, torn : BOOLEAN]
    BY <1>10 DEF CommitPrune
  <2>2. LockFits' /\ lock' \in 0 .. Nobody
    BY <1>10, StoreAssumption DEF CommitPrune, PruneGoto, Nobody, Traces
  <2>3. reader' \in Readers
    BY <1>10, DurableReader DEF CommitPrune
  <2> HIDE DEF LockFits, Writing
  <2> QED
    BY <1>10, <2>1, <2>2, <2>3 DEF CommitPrune, MakeDurable, PruneGoto
<1>11. CASE PruneFails
  <2>1. pruned' \in [calls : 0 .. MaxPrunes, torn : BOOLEAN]
    BY <1>11 DEF PruneFails
  <2>2. LockFits' /\ lock' \in 0 .. Nobody
    BY <1>11, StoreAssumption DEF PruneFails, PruneGoto, Nobody, Traces
  <2> HIDE DEF LockFits, Writing
  <2> QED
    BY <1>11, <2>1, <2>2 DEF PruneFails, PruneGoto
<1>12. CASE Crash
  BY <1>12, StoreAssumption DEF Crash, Nobody, Traces
<1>13. CASE Iterate
  BY <1>13 DEF Iterate, Readers
<1>14. CASE FetchPage
  BY <1>14, FetchReader DEF FetchPage
<1>15. CASE UNCHANGED vars
  BY <1>15 DEF vars
<1> QED
  BY <1>1, <1>2, <1>3, <1>4, <1>5, <1>6, <1>7, <1>8, <1>9, <1>10, <1>11, <1>12, <1>13, <1>14,
     <1>15 DEF Next, SaveStep, PruneStep

(***************************************************************************)
(* The types and the lock are right in every reachable state; in particular *)
(* save() and prune() exclude each other (store.py:87, 270).                *)
(***************************************************************************)
THEOREM StoreTypeCorrect == Spec => []TypeOK
<1>1. TypeOK /\ [Next]_vars => TypeOK'
  BY TypeStep
<1> QED
  BY <1>1, TypeInit, PTL DEF Spec

-----------------------------------------------------------------------------
(* The inductive invariant *)

LEMMA InvInit == Init => Inv
<1> SUFFICES ASSUME Init PROVE Inv
  OBVIOUS
<1>1. TypeOK
  BY TypeInit
<1>2. \A t \in Traces : Stage(t) /\ Rows(t)
  BY DEF Init, Empty, Stage, Rows, Absent
<1> QED
  BY <1>1, <1>2 DEF Inv, Clean, Init, Empty, NoOrphans

\* While one save() runs, the others do not, and prune() is idle.
LEMMA OneAtATime ==
  ASSUME TypeOK, NEW t \in Traces, Writing(t)
  PROVE  /\ prune = "idle"
         /\ \A u \in Traces : u # t => pc[u] \in {"new", "saved", "failed", "lost"}
BY DEF TypeOK, LockFits, Writing, Traces, Places

LEMMA NobodySaves ==
  ASSUME TypeOK, prune # "idle"
  PROVE  \A u \in Traces : pc[u] \in {"new", "saved", "failed", "lost"}
BY DEF TypeOK, LockFits, Writing, Traces, Places

LEMMA InsertTraceStep ==
  ASSUME Inv, NEW t \in Traces, InsertTrace(t)
  PROVE  Clean' /\ \A u \in Traces : Stage(u)' /\ Rows(u)'
<1> USE DEF Inv
<1>1. /\ view' = [rows |-> view.rows \cup {t}, spans |-> view.spans]
      /\ pc[t] = "row" /\ pc' = [pc EXCEPT ![t] = "spans"] /\ UNCHANGED <<disk, prune, pruned>>
  BY DEF InsertTrace, Goto
<1>2. /\ view.rows \in SUBSET Traces /\ view'.rows \in SUBSET Traces
      /\ view.rows \subseteq view'.rows /\ view'.spans = view.spans
      /\ pc \in [Traces -> Places]
  BY <1>1 DEF TypeOK, Databases
<1>3. \A u \in Traces : Replaced(view, u) => Replaced(view, u)'
  BY <1>2, NewerGrows DEF Replaced, Newer
<1>4. Stage(t)' /\ Rows(t)'
  BY <1>1, <1>2, StoreAssumption DEF Stage, Rows, Absent, Whole
<1>5. ASSUME NEW u \in Traces, u # t PROVE Stage(u)' /\ Rows(u)'
  <2>1. /\ pc'[u] = pc[u] /\ (u \in view'.rows <=> u \in view.rows)
        /\ Stage(u) /\ Rows(u)
    BY <1>1, <1>2, <1>5
  <2>2. Replaced(disk, u)' <=> Replaced(disk, u)
    BY <1>1 DEF Replaced, Newer
  <2> QED
    BY <1>1, <1>2, <1>3, <2>1, <2>2 DEF Stage, Rows, Absent, Whole
<1>6. Clean'
  BY <1>1, OneAtATime DEF Clean, NoOrphans, Writing
<1> QED
  BY <1>4, <1>5, <1>6

LEMMA InsertSpanStep ==
  ASSUME Inv, NEW t \in Traces, InsertSpan(t)
  PROVE  Clean' /\ \A u \in Traces : Stage(u)' /\ Rows(u)'
<1> USE DEF Inv
<1>1. /\ view' = [rows |-> view.rows, spans |-> [view.spans EXCEPT ![t] = @ + 1]]
      /\ pc[t] = "spans" /\ UNCHANGED <<disk, prune, pruned>>
      /\ pc' = [pc EXCEPT ![t] = IF view.spans[t] + 1 = NumSpans[t] THEN "commit" ELSE "spans"]
  BY DEF InsertSpan, Goto
<1>2. /\ view.spans \in [Traces -> Nat] /\ view'.rows = view.rows
      /\ view'.spans = [view.spans EXCEPT ![t] = @ + 1]
      /\ pc \in [Traces -> Places] /\ NumSpans[t] \in Nat
      /\ view.spans[t] < NumSpans[t] /\ t \in view.rows /\ t \notin disk.rows
      /\ disk.spans[t] = 0
  BY <1>1, StoreAssumption DEF TypeOK, Databases, Stage, Absent
<1>3. \A u \in Traces : Replaced(view, u)' <=> Replaced(view, u)
  BY <1>2 DEF Replaced, Newer
<1>4. Stage(t)' /\ Rows(t)'
  BY <1>1, <1>2 DEF Stage, Rows, Absent, Whole
<1>5. ASSUME NEW u \in Traces, u # t PROVE Stage(u)' /\ Rows(u)'
  <2>1. /\ pc'[u] = pc[u] /\ view'.spans[u] = view.spans[u]
        /\ Stage(u) /\ Rows(u)
    BY <1>1, <1>2, <1>5
  <2>2. Replaced(disk, u)' <=> Replaced(disk, u)
    BY <1>1 DEF Replaced, Newer
  <2> QED
    BY <1>1, <1>2, <1>3, <2>1, <2>2 DEF Stage, Rows, Absent, Whole
<1>6. Clean'
  <2>1. prune = "idle"
    BY <1>1, OneAtATime DEF Writing
  <2>2. NoOrphans(view) => NoOrphans(view)'
    BY <1>2 DEF NoOrphans
  <2>3. NoOrphans(disk)' <=> NoOrphans(disk)
    BY <1>1 DEF NoOrphans
  <2> QED
    BY <1>1, <2>1, <2>2, <2>3 DEF Clean
<1> QED
  BY <1>4, <1>5, <1>6

\* A save() that raises leaves both databases as they are.
LEMMA StatementFailsStep ==
  ASSUME Inv, NEW t \in Traces, StatementFails(t)
  PROVE  \A u \in Traces : Stage(u)' /\ Rows(u)'
<1> USE DEF Inv
<1>1. /\ pc[t] \in {"row", "spans"} /\ pc' = [pc EXCEPT ![t] = "failed"]
      /\ UNCHANGED <<view, disk>> /\ pc \in [Traces -> Places]
  BY DEF StatementFails, Goto, TypeOK
<1>2. \A u \in Traces : /\ Replaced(view, u)' <=> Replaced(view, u)
                        /\ Replaced(disk, u)' <=> Replaced(disk, u)
  BY <1>1 DEF Replaced, Newer
<1> QED
  BY <1>1, <1>2 DEF Stage, Rows, Absent, Whole

\* A commit makes of the disk what the view was.
LEMMA CommitStep ==
  ASSUME Inv, NEW t \in Traces, Commit(t)
  PROVE  Clean' /\ \A u \in Traces : Stage(u)' /\ Rows(u)'
<1> USE DEF Inv
<1>1. /\ pc[t] = "commit" /\ pc' = [pc EXCEPT ![t] = "saved"]
      /\ disk' = view /\ UNCHANGED <<view, prune, pruned>> /\ pc \in [Traces -> Places]
  BY DEF Commit, MakeDurable, Goto, TypeOK
<1>2. /\ prune = "idle"
      /\ \A u \in Traces : u # t => pc[u] \in {"new", "saved", "failed", "lost"}
  BY <1>1, OneAtATime DEF Writing
<1>3. \A u \in Traces : /\ Replaced(view, u)' <=> Replaced(view, u)
                        /\ Replaced(disk, u)' <=> Replaced(view, u)
  BY <1>1 DEF Replaced, Newer
<1>4. Stage(t)' /\ Rows(t)'
  BY <1>1 DEF Stage, Rows, Absent, Whole
<1>5. ASSUME NEW u \in Traces, u # t PROVE Stage(u)' /\ Rows(u)'
  <2>1. pc'[u] = pc[u] /\ pc[u] \in {"new", "saved", "failed", "lost"} /\ Stage(u) /\ Rows(u)
    BY <1>1, <1>2, <1>5
  <2> QED
    BY <1>1, <1>3, <2>1 DEF Stage, Rows, Absent, Whole
<1> QED
  BY <1>1, <1>2, <1>4, <1>5 DEF Clean, NoOrphans

LEMMA CommitFailsStep ==
  ASSUME Inv, NEW t \in Traces, CommitFails(t)
  PROVE  Clean' /\ \A u \in Traces : Stage(u)' /\ Rows(u)'
<1> USE DEF Inv
<1>1. /\ pc[t] = "commit" /\ pc' = [pc EXCEPT ![t] = "failed"]
      /\ view' \in {view, disk} /\ UNCHANGED <<disk, prune, pruned>> /\ pc \in [Traces -> Places]
  BY DEF CommitFails, Goto, TypeOK
<1>2. /\ prune = "idle"
      /\ \A u \in Traces : u # t => pc[u] \in {"new", "saved", "failed", "lost"}
  BY <1>1, OneAtATime DEF Writing
<1>3. \A u \in Traces : /\ view' = view => (Replaced(view, u)' <=> Replaced(view, u))
                        /\ view' = disk => (Replaced(view, u)' <=> Replaced(disk, u))
                        /\ Replaced(disk, u)' <=> Replaced(disk, u)
  BY <1>1 DEF Replaced, Newer
<1>4. Stage(t)' /\ Rows(t)'
  BY <1>1, <1>3 DEF Stage, Rows, Absent, Whole
<1>5. ASSUME NEW u \in Traces, u # t PROVE Stage(u)' /\ Rows(u)'
  <2>1. pc'[u] = pc[u] /\ pc[u] \in {"new", "saved", "failed", "lost"} /\ Stage(u) /\ Rows(u)
    BY <1>1, <1>2, <1>5
  <2> QED
    BY <1>1, <1>3, <2>1 DEF Stage, Rows, Absent, Whole
<1> QED
  BY <1>1, <1>2, <1>4, <1>5 DEF Clean, NoOrphans

\* The rows DELETE takes have their replacements among the rows it keeps.
LEMMA DeleteTracesStep ==
  ASSUME Inv, DeleteTraces
  PROVE  \A u \in Traces : Stage(u)' /\ Rows(u)'
<1> USE DEF Inv
<1>1. /\ view' = [rows |-> Newest(view.rows), spans |-> view.spans]
      /\ prune = "rows" /\ UNCHANGED <<pc, disk>>
  BY DEF DeleteTraces, PruneGoto
<1>2. /\ view.rows \in SUBSET Traces /\ view'.rows = Newest(view.rows)
      /\ view'.spans = view.spans
      /\ \A u \in Traces : pc[u] \in {"new", "saved", "failed", "lost"}
  BY <1>1, NobodySaves DEF TypeOK, Databases
<1>3. \A u \in Traces : Replaced(view, u) => Replaced(view, u)'
  BY <1>2, NewestKeepEnough DEF Replaced, Newer
<1>4. \A u \in Traces : u \in view.rows => u \in view'.rows \/ Replaced(view, u)'
  BY <1>2, DroppedAreReplaced DEF Replaced, Newer
<1>5. view'.rows \subseteq view.rows
  BY <1>2 DEF Newest
<1>6. \A u \in Traces : Replaced(disk, u)' <=> Replaced(disk, u)
  BY <1>1 DEF Replaced, Newer
<1> QED
  BY <1>1, <1>2, <1>3, <1>4, <1>5, <1>6 DEF Stage, Rows, Absent, Whole

LEMMA DeleteSpansStep ==
  ASSUME Inv, DeleteSpans
  PROVE  Clean' /\ \A u \in Traces : Stage(u)' /\ Rows(u)'
<1> USE DEF Inv
<1>1. /\ view' = [rows |-> view.rows, spans |-> [t \in Traces |->
                    IF t \in view.rows THEN view.spans[t] ELSE 0]]
      /\ prune = "orphans" /\ UNCHANGED <<pc, disk, pruned>>
  BY DEF DeleteSpans, PruneGoto
<1>2. /\ view'.rows = view.rows
      /\ \A u \in Traces : view'.spans[u] = IF u \in view.rows THEN view.spans[u] ELSE 0
      /\ \A u \in Traces : pc[u] \in {"new", "saved", "failed", "lost"}
  BY <1>1, NobodySaves
<1>3. \A u \in Traces : /\ Replaced(view, u)' <=> Replaced(view, u)
                        /\ Replaced(disk, u)' <=> Replaced(disk, u)
  BY <1>1 DEF Replaced, Newer
<1>4. Clean'
  BY <1>1, <1>2 DEF Clean, NoOrphans
<1> QED
  BY <1>1, <1>2, <1>3, <1>4 DEF Stage, Rows, Absent, Whole

LEMMA CommitPruneStep ==
  ASSUME Inv, CommitPrune
  PROVE  Clean' /\ \A u \in Traces : Stage(u)' /\ Rows(u)'
<1> USE DEF Inv
<1>1. prune = "commit" /\ disk' = view /\ view' = view /\ pc' = pc /\ prune' = "idle"
  BY DEF CommitPrune, MakeDurable, PruneGoto
<1>2. \A u \in Traces : pc[u] \in {"new", "saved", "failed", "lost"}
  BY <1>1, NobodySaves
<1>3. \A u \in Traces : /\ Replaced(view, u)' <=> Replaced(view, u)
                        /\ Replaced(disk, u)' <=> Replaced(view, u)
  BY <1>1 DEF Replaced, Newer
<1>4. Clean'
  BY <1>1 DEF Clean, NoOrphans
<1> QED
  BY <1>1, <1>2, <1>3, <1>4 DEF Stage, Rows, Absent, Whole

\* The transaction of a prune() that raises is kept open or rolled back.
LEMMA PruneFailsStep ==
  ASSUME Inv, PruneFails
  PROVE  Clean' /\ \A u \in Traces : Stage(u)' /\ Rows(u)'
<1> USE DEF Inv
<1>1. /\ prune \in {"rows", "orphans", "commit"} /\ prune' = "idle"
      /\ disk' = disk /\ view' \in {view, disk} /\ pc' = pc
      /\ ~pruned'.torn => ~pruned.torn /\ prune # "orphans"
  BY DEF PruneFails, PruneGoto, TypeOK
<1>2. \A u \in Traces : pc[u] \in {"new", "saved", "failed", "lost"}
  BY <1>1, NobodySaves
<1>3. \A u \in Traces : /\ view' = view => (Replaced(view, u)' <=> Replaced(view, u))
                        /\ view' = disk => (Replaced(view, u)' <=> Replaced(disk, u))
                        /\ Replaced(disk, u)' <=> Replaced(disk, u)
  BY <1>1 DEF Replaced, Newer
<1>4. Clean'
  BY <1>1 DEF Clean, NoOrphans
<1> QED
  BY <1>1, <1>2, <1>3, <1>4 DEF Stage, Rows, Absent, Whole

\* A crash throws away the open transaction and the threads inside it.
LEMMA CrashStep ==
  ASSUME Inv, Crash
  PROVE  Clean' /\ \A u \in Traces : Stage(u)' /\ Rows(u)'
<1> USE DEF Inv
<1>1. /\ view' = disk /\ disk' = disk /\ prune' = "idle" /\ pruned' = pruned
      /\ \A u \in Traces :
           /\ pc[u] \in {"row", "spans", "commit"} => pc'[u] = "lost"
           /\ pc[u] \notin {"row", "spans", "commit"} => pc'[u] = pc[u]
  BY DEF Crash, TypeOK
<1>2. \A u \in Traces : /\ Replaced(view, u)' <=> Replaced(disk, u)
                        /\ Replaced(disk, u)' <=> Replaced(disk, u)
  BY <1>1 DEF Replaced, Newer
<1>3. Clean'
  BY <1>1 DEF Clean, NoOrphans
<1> QED
  BY <1>1, <1>2, <1>3 DEF Stage, Rows, Absent, Whole

LEMMA InvStep ==
  ASSUME Inv, [Next]_vars
  PROVE  Inv'
<1> DEFINE Held == \A u \in Traces : Stage(u) /\ Rows(u)
<1>1. TypeOK'
  BY TypeStep DEF Inv
<1>2. ASSUME NEW t \in Traces, Save(t) PROVE Inv'
  <2>1. UNCHANGED <<view, disk, prune, pruned>> /\ pc[t] = "new" /\ pc' = [pc EXCEPT ![t] = "row"]
        /\ pc \in [Traces -> Places]
    BY <1>2 DEF Save, Goto, Inv, TypeOK
  <2>2. \A u \in Traces : /\ Replaced(view, u)' <=> Replaced(view, u)
                          /\ Replaced(disk, u)' <=> Replaced(disk, u)
    BY <2>1 DEF Replaced, Newer
  <2>3. Held'
    BY <2>1, <2>2 DEF Inv, Stage, Rows, Absent, Whole
  <2> QED
    BY <1>1, <2>1, <2>3 DEF Inv, Clean, NoOrphans
<1>3. ASSUME NEW t \in Traces, InsertTrace(t) PROVE Inv'
  BY <1>1, <1>3, InsertTraceStep DEF Inv
<1>4. ASSUME NEW t \in Traces, InsertSpan(t) PROVE Inv'
  BY <1>1, <1>4, InsertSpanStep DEF Inv
<1>5. ASSUME NEW t \in Traces, StatementFails(t) PROVE Inv'
  BY <1>1, <1>5, StatementFailsStep DEF Inv, Clean, StatementFails, NoOrphans
<1>6. ASSUME NEW t \in Traces, Commit(t) PROVE Inv'
  BY <1>1, <1>6, CommitStep DEF Inv
<1>7. ASSUME NEW t \in Traces, CommitFails(t) PROVE Inv'
  BY <1>1, <1>7, CommitFailsStep DEF Inv
<1>8. CASE DeleteTraces
  BY <1>1, <1>8, DeleteTracesStep DEF Inv, Clean, DeleteTraces, PruneGoto, NoOrphans
<1>9. CASE DeleteSpans
  BY <1>1, <1>9, DeleteSpansStep DEF Inv
<1>10. CASE CommitPrune
  BY <1>1, <1>10, CommitPruneStep DEF Inv
<1>11. CASE PruneFails
  BY <1>1, <1>11, PruneFailsStep DEF Inv
<1>12. CASE Crash
  BY <1>1, <1>12, CrashStep DEF Inv
<1>13. CASE Prune \/ Iterate \/ FetchPage \/ UNCHANGED vars
  <2>1. /\ UNCHANGED <<view, disk, pc>> /\ pruned'.torn = pruned.torn
        /\ prune' = prune \/ (prune = "idle" /\ prune' = "rows")
    BY <1>13 DEF Prune, PruneGoto, Iterate, FetchPage, vars, Inv, TypeOK
  <2>2. \A u \in Traces : /\ Replaced(view, u)' <=> Replaced(view, u)
                          /\ Replaced(disk, u)' <=> Replaced(disk, u)
    BY <2>1 DEF Replaced, Newer
  <2>3. Held'
    BY <2>1, <2>2 DEF Inv, Stage, Rows, Absent, Whole
  <2> QED
    BY <1>1, <2>1, <2>3 DEF Inv, Clean, NoOrphans
<1> QED
  BY <1>2, <1>3, <1>4, <1>5, <1>6, <1>7, <1>8, <1>9, <1>10, <1>11, <1>12, <1>13
     DEF Next, SaveStep, PruneStep

LEMMA Invariance == Spec => []Inv
<1>1. Inv /\ [Next]_vars => Inv'
  BY InvStep
<1> QED
  BY <1>1, InvInit, PTL DEF Spec

-----------------------------------------------------------------------------
(* The theorems *)

(***************************************************************************)
(* A trace whose save() returned stays on disk with all its spans until     *)
(* keep_last newer ones are there (store.py:87-121, 268-281).               *)
(***************************************************************************)
THEOREM SavedTracesSurvive == Spec => []SavedSurvive
<1>1. Inv => SavedSurvive
  BY DEF Inv, Stage, Replaced, SavedSurvive
<1> QED
  BY <1>1, Invariance, PTL

(***************************************************************************)
(* Only a save() that raised can leave a trace on disk without all its      *)
(* spans (store.py:87, 121).                                                *)
(***************************************************************************)
THEOREM OnlyFailedSavesLeaveHalves == Spec => []HalvesAreOfFailedSaves
<1>1. Inv => HalvesAreOfFailedSaves
  BY DEF Inv, TypeOK, Databases, Rows, HalvesAreOfFailedSaves
<1> QED
  BY <1>1, Invariance, PTL

(***************************************************************************)
(* No span is on disk without its trace (store.py:270-280), but for what a  *)
(* prune() left that raised between its two DELETEs.                        *)
(***************************************************************************)
THEOREM SpansHaveTheirTrace == Spec => []NoOrphanSpans
<1>1. Inv => NoOrphanSpans
  BY DEF Inv, Clean, NoOrphans, NoOrphanSpans
<1> QED
  BY <1>1, Invariance, PTL

-----------------------------------------------------------------------------
(* The store implements TraceArchive *)

\* What both databases hold of a trace is the same, and what only the view holds is of a
\* save that runs or has failed.
Agree(t) ==
  /\ t \in view.rows /\ t \in disk.rows => view.spans[t] = disk.spans[t]
  /\ t \in view.rows /\ t \notin disk.rows => pc[t] \in {"spans", "commit", "failed"}

Agreed == \A t \in Traces : Agree(t)

LEMMA AgreedInit == Init => Agreed
BY DEF Init, Empty, Agreed, Agree

LEMMA AgreedStep ==
  ASSUME Inv, Agreed, [Next]_vars
  PROVE  Agreed'
<1>1. /\ view.rows \in SUBSET Traces /\ disk.rows \in SUBSET Traces
      /\ view.spans \in [Traces -> Nat] /\ disk.spans \in [Traces -> Nat]
      /\ pc \in [Traces -> Places]
  BY DEF Inv, TypeOK, Databases
<1>2. \A t \in Traces : Stage(t)
  BY DEF Inv
<1>3. ASSUME NEW t \in Traces, Save(t) PROVE Agreed'
  <2>1. pc[t] = "new" /\ pc' = [pc EXCEPT ![t] = "row"] /\ view' = view /\ disk' = disk
    BY <1>3 DEF Save, Goto
  <2> QED
    BY <1>1, <1>2, <2>1 DEF Agreed, Agree
<1>4. ASSUME NEW t \in Traces, InsertTrace(t) PROVE Agreed'
  <2>1. /\ pc[t] = "row" /\ pc' = [pc EXCEPT ![t] = "spans"] /\ disk' = disk
        /\ view'.rows = view.rows \cup {t} /\ view'.spans = view.spans
    BY <1>4 DEF InsertTrace, Goto
  <2> QED
    BY <1>1, <1>2, <2>1 DEF Agreed, Agree, Stage, Absent
<1>5. ASSUME NEW t \in Traces, InsertSpan(t) PROVE Agreed'
  <2>1. /\ pc[t] = "spans" /\ disk' = disk
        /\ pc' = [pc EXCEPT ![t] = IF view.spans[t] + 1 = NumSpans[t] THEN "commit" ELSE "spans"]
        /\ view'.rows = view.rows /\ view'.spans = [view.spans EXCEPT ![t] = @ + 1]
    BY <1>5 DEF InsertSpan, Goto
  <2> QED
    BY <1>1, <1>2, <2>1 DEF Agreed, Agree, Stage, Absent
<1>6. ASSUME NEW t \in Traces, StatementFails(t) PROVE Agreed'
  <2>1. pc' = [pc EXCEPT ![t] = "failed"] /\ view' = view /\ disk' = disk
    BY <1>6 DEF StatementFails, Goto
  <2> QED
    BY <1>1, <2>1 DEF Agreed, Agree
<1>7. ASSUME disk' = view, view' = view PROVE Agreed'
  BY <1>7 DEF Agreed, Agree
<1>8. ASSUME NEW t \in Traces, CommitFails(t) PROVE Agreed'
  <2>1. pc' = [pc EXCEPT ![t] = "failed"] /\ (view' = view \/ view' = disk) /\ disk' = disk
    BY <1>8 DEF CommitFails, Goto
  <2> QED
    BY <1>1, <2>1 DEF Agreed, Agree
<1>9. CASE DeleteTraces
  <2>1. view'.rows \subseteq view.rows /\ view'.spans = view.spans /\ disk' = disk /\ pc' = pc
    BY <1>9 DEF DeleteTraces, Newest
  <2> QED
    BY <1>1, <2>1 DEF Agreed, Agree
<1>10. CASE DeleteSpans
  <2>1. /\ view'.rows = view.rows /\ disk' = disk /\ pc' = pc
        /\ \A t \in view.rows : view'.spans[t] = view.spans[t]
    BY <1>1, <1>10 DEF DeleteSpans
  <2> QED
    BY <1>1, <2>1 DEF Agreed, Agree
<1>11. CASE PruneFails
  BY <1>11 DEF PruneFails, Agreed, Agree
<1>12. CASE Crash
  BY <1>12 DEF Crash, Agreed, Agree
<1>13. CASE Prune \/ Iterate \/ FetchPage \/ UNCHANGED vars
  <2>1. view' = view /\ disk' = disk /\ pc' = pc
    BY <1>13 DEF Prune, Iterate, FetchPage, vars
  <2> QED
    BY <2>1 DEF Agreed, Agree
<1>14. ASSUME NEW t \in Traces, Commit(t) PROVE Agreed'
  BY <1>7, <1>14 DEF Commit, MakeDurable
<1>15. CASE CommitPrune
  BY <1>7, <1>15 DEF CommitPrune, MakeDurable
<1> QED
  BY <1>3, <1>4, <1>5, <1>6, <1>8, <1>9, <1>10, <1>11, <1>12, <1>13, <1>14, <1>15
     DEF Next, SaveStep, PruneStep

\* The archive's fate and adrift, as the mapping has them.
Fate   == [t \in Traces |-> IF Writing(t) \/ pc[t] = "new" THEN "pending" ELSE pc[t]]
Part   == {t \in disk.rows : ~Whole(disk, t)}
Adrift == {t \in view.rows \ disk.rows : pc[t] = "failed"}

LEMMA SameCardinality == \A S : Archive!Cardinality(S) = Cardinality(S)
BY DEF Archive!Cardinality, Cardinality

\* A commit keeps what only the view has, and drops what only the disk has.
LEMMA DurableKeeps ==
  ASSUME Inv, Agreed, MakeDurable, view' = view, NEW done \in SUBSET Traces,
         view.rows \ disk.rows = Adrift \cup done, done \cap Adrift = {},
         \A t \in done : Whole(view, t)
  PROVE  Archive!Keep(done)
<1> DEFINE dropped == disk.rows \ view.rows
           halves  == {t \in Adrift : ~Whole(view, t)}
<1>1. disk' = view /\ view.rows \in SUBSET Traces /\ disk.rows \in SUBSET Traces
  BY DEF MakeDurable, Inv, TypeOK, Databases
<1>2. dropped \in SUBSET disk.rows /\ halves \in SUBSET Adrift
  OBVIOUS
<1>3. disk'.rows = (disk.rows \ dropped) \cup Adrift \cup done
  BY <1>1
<1>4. Part' = (Part \ dropped) \cup halves
  <2>1. \A t \in view.rows : t \in disk.rows => (Whole(view, t) <=> Whole(disk, t))
    BY <1>1 DEF Agreed, Agree, Whole
  <2>2. Part' = {t \in view.rows : ~Whole(view, t)}
    BY <1>1 DEF Part, Whole
  <2> QED
    BY <1>1, <2>1, <2>2 DEF Part
<1>5. Adrift' = {}
  BY <1>1 DEF Adrift
<1>6. \A t \in dropped : Cardinality({u \in disk'.rows : u > t}) >= KeepLast
  BY <1>1 DEF Inv, Rows, Replaced, Newer
<1> HIDE DEF dropped, halves
<1>7. \E old \in SUBSET disk.rows, broken \in SUBSET Adrift :
        /\ disk'.rows = (disk.rows \ old) \cup Adrift \cup done
        /\ Part' = (Part \ old) \cup broken
        /\ Adrift' = {}
        /\ \A t \in old : Archive!Cardinality({u \in disk'.rows : u > t}) >= KeepLast
  BY <1>2, <1>3, <1>4, <1>5, <1>6, SameCardinality
<1> QED
  BY <1>7 DEF Archive!Keep, Part, Adrift

LEMMA SaveKeeps ==
  ASSUME Inv, Agreed, NEW t \in Traces, Commit(t)
  PROVE  Archive!Save(t)
<1>1. /\ pc[t] = "commit" /\ pc' = [pc EXCEPT ![t] = "saved"] /\ pc \in [Traces -> Places]
      /\ MakeDurable /\ view' = view
  BY DEF Commit, Goto, Inv, TypeOK
<1>2. \A u \in Traces : u # t => pc[u] \in {"new", "saved", "failed", "lost"}
  BY <1>1, OneAtATime DEF Writing, Inv
<1>3. Whole(view, t) /\ t \notin disk.rows
  BY <1>1 DEF Inv, Stage, Absent
<1>4. view.rows \ disk.rows = Adrift \cup {t} /\ t \notin Adrift
  <2>1. view.rows \in SUBSET Traces
    BY DEF Inv, TypeOK, Databases
  <2> QED
    BY <1>1, <1>2, <1>3, <2>1 DEF Adrift, Agreed, Agree, Whole
<1>5. Archive!Keep({t})
  BY <1>1, <1>3, <1>4, DurableKeeps
<1>6. Fate[t] = "pending" /\ Fate' = [Fate EXCEPT ![t] = "saved"]
  BY <1>1 DEF Fate, Writing
<1> QED
  BY <1>5, <1>6 DEF Archive!Save, Archive!Becomes, Fate

LEMMA PruneKeeps ==
  ASSUME Inv, Agreed, CommitPrune
  PROVE  Archive!Prune
<1>1. prune # "idle" /\ MakeDurable /\ view' = view /\ pc' = pc
  BY DEF CommitPrune, PruneGoto
<1>2. \A u \in Traces : pc[u] \in {"new", "saved", "failed", "lost"}
  BY <1>1, NobodySaves DEF Inv
<1>3. view.rows \ disk.rows = Adrift \cup {}
  <2>1. view.rows \in SUBSET Traces
    BY DEF Inv, TypeOK, Databases
  <2> QED
    BY <1>2, <2>1 DEF Adrift, Agreed, Agree
<1>4. Archive!Keep({})
  BY <1>1, <1>3, DurableKeeps
<1>5. Fate' = Fate
  BY <1>1 DEF Fate, Writing
<1> QED
  BY <1>4, <1>5 DEF Archive!Prune, Fate

\* A save that raises leaves its rows in the view, or is rolled back with all of it.
LEMMA FailureForgets ==
  ASSUME Inv, Agreed, NEW t \in Traces, StatementFails(t) \/ CommitFails(t)
  PROVE  Archive!Fail(t)
<1>1. /\ pc[t] \in {"row", "spans", "commit"} /\ pc' = [pc EXCEPT ![t] = "failed"]
      /\ disk' = disk /\ (view' = view \/ view' = disk) /\ pc \in [Traces -> Places]
  BY DEF StatementFails, CommitFails, Goto, Inv, TypeOK
<1>2. Fate[t] = "pending" /\ Fate' = [Fate EXCEPT ![t] = "failed"]
  BY <1>1 DEF Fate, Writing
<1>3. Part' = Part
  BY <1>1 DEF Part, Whole
<1>4. Adrift' \in {Adrift, Adrift \cup {t}, {}}
  <2>1. \A u \in Traces : u # t => pc'[u] = pc[u]
    BY <1>1
  <2>2. view.rows \in SUBSET Traces
    BY DEF Inv, TypeOK, Databases
  <2>3. CASE view' = disk
    BY <1>1, <2>3 DEF Adrift
  <2>4. CASE view' = view /\ t \in view.rows \ disk.rows
    BY <1>1, <2>1, <2>2, <2>4 DEF Adrift
  <2>5. CASE view' = view /\ t \notin view.rows \ disk.rows
    BY <1>1, <2>1, <2>2, <2>5 DEF Adrift
  <2> QED
    BY <1>1, <2>3, <2>4, <2>5
<1> QED
  BY <1>1, <1>2, <1>3, <1>4 DEF Archive!Fail, Archive!Becomes, Fate, Part, Adrift

LEMMA CrashForgets ==
  ASSUME Inv, Crash
  PROVE  Archive!Crash
<1> DEFINE saves == {t \in Traces : Writing(t)}
<1>1. /\ view' = disk /\ disk' = disk /\ pc \in [Traces -> Places]
      /\ pc' = [t \in Traces |-> IF Writing(t) THEN "lost" ELSE pc[t]]
  BY DEF Crash, Writing, Inv, TypeOK
<1>2. saves \in SUBSET {t \in Traces : Fate[t] = "pending"}
  BY DEF Fate
<1>3. Fate' = [t \in Traces |-> IF t \in saves THEN "lost" ELSE Fate[t]]
  <2>1. \A t \in Traces : Fate'[t] = IF t \in saves THEN "lost" ELSE Fate[t]
    BY <1>1 DEF Fate, Writing
  <2> QED
    BY <2>1 DEF Fate
<1>4. Adrift' = {} /\ Part' = Part
  BY <1>1 DEF Adrift, Part, Whole
<1> HIDE DEF saves
<1> QED
  BY <1>1, <1>2, <1>3, <1>4 DEF Archive!Crash, Fate, Part, Adrift

\* Inside a transaction, nothing that the archive knows of changes.
LEMMA WithinTransaction ==
  ASSUME Inv, NEW t \in Traces, Save(t) \/ InsertTrace(t) \/ InsertSpan(t)
  PROVE  UNCHANGED Archive!vars
<1>1. /\ pc[t] \in {"new", "row", "spans"} /\ disk' = disk /\ pc \in [Traces -> Places]
      /\ \/ pc' = [pc EXCEPT ![t] = "row"]
         \/ pc' = [pc EXCEPT ![t] = "spans"]
         \/ pc' = [pc EXCEPT ![t] = "commit"]
      /\ view'.rows = view.rows \/ view'.rows = view.rows \cup {t}
  BY DEF Save, InsertTrace, InsertSpan, Goto, Inv, TypeOK
<1>2. pc'[t] \in {"row", "spans", "commit"} /\ \A u \in Traces : u # t => pc'[u] = pc[u]
  BY <1>1
<1>3. Fate' = Fate
  BY <1>1, <1>2 DEF Fate, Writing
<1>4. Adrift' = Adrift
  <2>1. view.rows \in SUBSET Traces
    BY DEF Inv, TypeOK, Databases
  <2> QED
    BY <1>1, <1>2, <2>1 DEF Adrift
<1>5. Part' = Part
  BY <1>1 DEF Part, Whole
<1> QED
  BY <1>1, <1>3, <1>4, <1>5 DEF Archive!vars, Fate, Part, Adrift

\* A prune that has begun or failed, like a rollback, only forgets.
LEMMA PruneForgets ==
  ASSUME Inv, DeleteTraces \/ DeleteSpans \/ PruneFails
  PROVE  Archive!Forget
<1>1. /\ disk' = disk /\ pc' = pc
  BY DEF DeleteTraces, DeleteSpans, PruneFails
<1>2. view'.rows \subseteq view.rows \/ view' = disk
  <2>1. CASE DeleteTraces
    BY <2>1 DEF DeleteTraces, Newest
  <2>2. CASE DeleteSpans
    BY <2>2 DEF DeleteSpans
  <2>3. CASE PruneFails
    BY <2>3 DEF PruneFails
  <2> QED
    BY <2>1, <2>2, <2>3
<1>3. Fate' = Fate /\ Part' = Part /\ Adrift' \in SUBSET Adrift
  BY <1>1, <1>2 DEF Fate, Writing, Part, Whole, Adrift
<1> QED
  BY <1>1, <1>3 DEF Archive!Forget, Fate, Part, Adrift

(***************************************************************************)
(* The store implements the archive: a save() or prune() takes effect at its*)
(* commit and at no other step (store.py:87-121, 268-281), which drops no   *)
(* trace that has not keep_last newer ones and changes no other; failures   *)
(* and crashes lose only what no commit has made durable.                   *)
(***************************************************************************)
THEOREM StoreImplementsArchive == Spec => ImplementsArchive
<1>1. Init => Archive!Init
  <2> SUFFICES ASSUME Init PROVE Archive!Init
    OBVIOUS
  <2>1. Fate = [t \in Traces |-> "pending"] /\ disk.rows = {} /\ view.rows = {}
    BY DEF Init, Empty, Fate
  <2> QED
    BY <2>1 DEF Archive!Init, Fate
<1>2. Inv /\ Agreed /\ [Next]_vars => [Archive!Next]_(Archive!vars)
  <2> SUFFICES ASSUME Inv, Agreed, [Next]_vars PROVE Archive!Next \/ UNCHANGED Archive!vars
    OBVIOUS
  <2>1. ASSUME NEW t \in Traces, Save(t) \/ SaveStep(t) PROVE Archive!Next \/ UNCHANGED Archive!vars
    BY <2>1, SaveKeeps, FailureForgets, WithinTransaction DEF SaveStep, Archive!Next
  <2>2. CASE PruneStep
    BY <2>2, PruneKeeps, PruneForgets DEF PruneStep, Archive!Next
  <2>3. CASE Crash
    BY <2>3, CrashForgets DEF Archive!Next
  <2>4. CASE Prune \/ Iterate \/ FetchPage \/ UNCHANGED vars
    <3>1. view' = view /\ disk' = disk /\ pc' = pc
      BY <2>4 DEF Prune, Iterate, FetchPage, vars
    <3> QED
      BY <3>1 DEF Archive!vars, Writing, Whole
  <2> QED
    BY <2>1, <2>2, <2>3, <2>4 DEF Next
<1>3. Inv /\ Agreed /\ [Next]_vars => Agreed'
  BY AgreedStep
<1> QED
  BY <1>1, <1>2, <1>3, AgreedInit, Invariance, PTL DEF Spec, ImplementsArchive, Archive!Spec

-----------------------------------------------------------------------------
(* Paging *)

\* The rows that come before a trace in ORDER BY started_at.
Below(rows, t) == {u \in rows : u < t}

Rank(rows, t) == Cardinality(Below(rows, t))

(***************************************************************************)
(* What the reader knows while nothing is pruned under it: each trace that  *)
(* was there at the start it has seen, or will meet at its offset or later; *)
(* an older trace committed meanwhile only moves the others up.             *)
(***************************************************************************)
PagedRight ==
  reader.intact =>
    /\ reader.older \subseteq disk.rows
    /\ \A t \in reader.older : t \in reader.seen \/ Rank(disk.rows, t) >= reader.offset
    /\ reader.at = "done" => reader.older \subseteq reader.seen
    /\ reader.replayed <= reader.offset
    /\ reader.replayed <= Cardinality(disk.rows)

\* A set of traces that is not empty has an oldest member.
LEMMA OldestExists ==
  ASSUME NEW S \in SUBSET Traces, S # {}
  PROVE  \E m \in S : \A u \in S : m <= u
<1>1. S \subseteq Nat
  BY StoreAssumption DEF Traces
<1>2. PICK m \in S : \A u \in S : ~(<<u, m>> \in OpToRel(<, Nat))
  BY <1>1, NatLessThanWellFounded, WFMin
<1>3. \A u \in S : m <= u
  <2>1. SUFFICES ASSUME NEW u \in S PROVE m <= u
    OBVIOUS
  <2>2. ~(u < m)
    BY <1>1, <1>2 DEF OpToRel
  <2> QED
    BY <1>1, <2>2
<1> QED
  BY <1>3

LEMMA RankIsNat ==
  ASSUME NEW rows \in SUBSET Traces, NEW t \in Traces
  PROVE  /\ IsFiniteSet(rows) /\ IsFiniteSet(Below(rows, t))
         /\ Rank(rows, t) \in Nat /\ Cardinality(rows) \in Nat
         /\ Rank(rows, t) <= Cardinality(rows)
<1>1. IsFiniteSet(rows) /\ Below(rows, t) \in SUBSET rows
  BY TracesFinite, FS_Subset DEF Below
<1> QED
  BY <1>1, FS_Subset, FS_CardinalityType DEF Rank

\* More rows, more below each of them.
LEMMA RankGrows ==
  ASSUME NEW rows \in SUBSET Traces, NEW more \in SUBSET Traces, rows \subseteq more,
         NEW t \in Traces
  PROVE  Rank(rows, t) <= Rank(more, t)
<1>1. IsFiniteSet(Below(more, t)) /\ Below(rows, t) \in SUBSET Below(more, t)
  BY RankIsNat DEF Below
<1> QED
  BY <1>1, FS_Subset DEF Rank

\* The row just below the one of rank r + 1 has rank r.
LEMMA RankBelow ==
  ASSUME NEW rows \in SUBSET Traces, NEW t \in Traces, Rank(rows, t) > 0
  PROVE  \E p \in rows : p < t /\ Rank(rows, p) = Rank(rows, t) - 1
<1>1. Below(rows, t) # {} /\ Below(rows, t) \in SUBSET Traces /\ IsFiniteSet(Below(rows, t))
  BY RankIsNat, FS_EmptySet DEF Rank, Below
<1>2. PICK p \in Below(rows, t) : \A u \in Below(rows, t) : u <= p
  BY <1>1, NewestExists
<1>3. p \in rows /\ p < t
  BY <1>2 DEF Below
<1>4. Below(rows, p) = Below(rows, t) \ {p}
  <2>1. ASSUME NEW u \in rows, u < p PROVE u < t /\ u # p
    BY <1>3, <2>1 DEF Traces
  <2>2. ASSUME NEW u \in rows, u < t, u # p PROVE u < p
    <3>1. u <= p
      BY <1>2, <2>2 DEF Below
    <3> QED
      BY <1>3, <2>2, <3>1 DEF Traces
  <2> QED
    BY <2>1, <2>2 DEF Below
<1>5. Rank(rows, p) = Rank(rows, t) - 1
  BY <1>1, <1>2, <1>4, FS_RemoveElement DEF Rank
<1> QED
  BY <1>3, <1>5

(***************************************************************************)
(* A page is empty only past the last row: the oldest row of rank offset or *)
(* more would have rank offset, and be on the page.                         *)
(***************************************************************************)
LEMMA EmptyPageIsTheEnd ==
  ASSUME NEW rows \in SUBSET Traces, NEW offset \in Nat, Page(rows, offset) = {}
  PROVE  \A t \in rows : Rank(rows, t) < offset
<1> DEFINE rest == {t \in rows : Rank(rows, t) >= offset}
<1>1. \A t \in rows : Rank(rows, t) \in Nat /\ t \in Traces
  BY RankIsNat
<1>2. SUFFICES ASSUME rest # {} PROVE FALSE
  BY <1>1
<1>3. PICK m \in rest : \A u \in rest : m <= u
  BY <1>2, OldestExists
<1>4. m \in rows /\ m \in Traces /\ Rank(rows, m) \in Nat /\ Rank(rows, m) >= offset
  BY <1>1, <1>3
<1>5. CASE Rank(rows, m) = offset
  <2>1. m \in Page(rows, offset)
    BY <1>4, <1>5, StoreAssumption DEF Page, Rank, Below
  <2> QED
    BY <2>1
<1>6. CASE Rank(rows, m) > offset
  <2>1. PICK p \in rows : p < m /\ Rank(rows, p) = Rank(rows, m) - 1
    BY <1>4, <1>6, RankBelow
  <2>2. p \in rest
    BY <1>4, <1>6, <2>1
  <2>3. m <= p
    BY <1>3, <2>2
  <2> QED
    BY <1>1, <1>4, <2>1, <2>3 DEF Traces
<1> QED
  BY <1>4, <1>5, <1>6

(***************************************************************************)
(* A page has batch_size rows at most, and with the rows the offset passes  *)
(* over no more than there are.                                             *)
(***************************************************************************)
LEMMA PageFits ==
  ASSUME NEW rows \in SUBSET Traces, NEW offset \in Nat, Page(rows, offset) # {}
  PROVE  /\ Cardinality(Page(rows, offset)) \in Nat
         /\ Cardinality(Page(rows, offset)) <= BatchSize
         /\ offset + Cardinality(Page(rows, offset)) <= Cardinality(rows)
<1> DEFINE page == Page(rows, offset)
<1>1. /\ page \subseteq rows /\ page \in SUBSET Traces
      /\ \A t \in page : Rank(rows, t) >= offset /\ Rank(rows, t) <= offset + BatchSize - 1
  BY DEF Page, Rank, Below
<1> HIDE DEF page
<1>2. PICK n \in page : \A u \in page : n <= u
  BY <1>1, OldestExists DEF page
<1>3. PICK m \in page : \A u \in page : u <= m
  BY <1>1, NewestExists DEF page
<1>4. /\ n \in rows /\ m \in rows /\ n \in Traces /\ m \in Traces /\ n <= m
      /\ \A u \in page : n <= u /\ u <= m /\ u \in rows /\ u \in Int
  BY <1>1, <1>2, <1>3 DEF Traces
<1>5. /\ IsFiniteSet(rows) /\ IsFiniteSet(page)
      /\ IsFiniteSet(Below(rows, n)) /\ IsFiniteSet(Below(rows, m))
      /\ Rank(rows, n) \in Nat /\ Rank(rows, m) \in Nat /\ Cardinality(rows) \in Nat
      /\ Cardinality(page) \in Nat
  BY <1>1, <1>4, RankIsNat, FS_Subset, FS_CardinalityType
<1>6. Rank(rows, n) >= offset /\ Rank(rows, m) <= offset + BatchSize - 1
  BY <1>1
<1>7. Cardinality(page) <= Cardinality(rows) - Rank(rows, n)
  <2>1. page \in SUBSET (rows \ Below(rows, n))
    BY <1>4 DEF Below, Traces
  <2>2. rows \cap Below(rows, n) = Below(rows, n)
    BY DEF Below
  <2>3. /\ IsFiniteSet(rows \ Below(rows, n))
        /\ Cardinality(rows \ Below(rows, n)) = Cardinality(rows) - Rank(rows, n)
    BY <1>5, <2>2, FS_Difference DEF Rank
  <2> QED
    BY <2>1, <2>3, FS_Subset
<1>8. Cardinality(page) - 1 <= Rank(rows, m) - Rank(rows, n)
  <2>1. page \ {m} \in SUBSET (Below(rows, m) \ Below(rows, n))
    BY <1>4 DEF Below, Traces
  <2>2. Below(rows, m) \cap Below(rows, n) = Below(rows, n)
    <3>1. ASSUME NEW u \in rows, u < n PROVE u < m
      BY <1>4, <3>1 DEF Traces
    <3> QED
      BY <3>1 DEF Below
  <2>3. /\ IsFiniteSet(Below(rows, m) \ Below(rows, n))
        /\ Cardinality(Below(rows, m) \ Below(rows, n)) = Rank(rows, m) - Rank(rows, n)
    BY <1>5, <2>2, FS_Difference DEF Rank
  <2>4. Cardinality(page \ {m}) = Cardinality(page) - 1
    BY <1>3, <1>5, FS_RemoveElement
  <2> QED
    BY <2>1, <2>3, <2>4, FS_Subset
<1>9. Cardinality(page) <= BatchSize /\ offset + Cardinality(page) <= Cardinality(rows)
  BY <1>5, <1>6, <1>7, <1>8, StoreAssumption
<1> QED
  BY <1>5, <1>9 DEF page

\* A commit under which nothing goes leaves the reader right.
LEMMA DurablePaging ==
  ASSUME TypeOK, PagedRight, MakeDurable
  PROVE  PagedRight'
<1>1. /\ disk' = view /\ disk.rows \in SUBSET Traces /\ view.rows \in SUBSET Traces
      /\ reader \in Readers
      /\ reader' = [reader EXCEPT !.intact = @ /\ disk.rows \subseteq view.rows]
  BY DEF TypeOK, Databases, MakeDurable
<1>2. /\ reader'.at = reader.at /\ reader'.offset = reader.offset /\ reader'.seen = reader.seen
      /\ reader'.replayed = reader.replayed /\ reader'.older = reader.older
      /\ reader'.intact = (reader.intact /\ disk.rows \subseteq view.rows)
  BY <1>1 DEF Readers
<1>3. SUFFICES ASSUME reader.intact, disk.rows \subseteq view.rows PROVE PagedRight'
  BY <1>2 DEF PagedRight
<1>4. ASSUME NEW t \in reader.older PROVE t \in reader.seen \/ Rank(view.rows, t) >= reader.offset
  <2>1. t \in disk.rows /\ t \in Traces /\ (t \in reader.seen \/ Rank(disk.rows, t) >= reader.offset)
    BY <1>1, <1>3, <1>4 DEF PagedRight
  <2>2. Rank(disk.rows, t) <= Rank(view.rows, t) /\ Rank(disk.rows, t) \in Nat
        /\ Rank(view.rows, t) \in Nat /\ reader.offset \in Nat
    BY <1>1, <1>3, <2>1, RankGrows, RankIsNat DEF Readers
  <2> QED
    BY <2>1, <2>2
<1>5. reader.replayed <= Cardinality(view.rows)
  <2>1. IsFiniteSet(view.rows)
    BY <1>1, TracesFinite, FS_Subset
  <2>2. /\ Cardinality(disk.rows) <= Cardinality(view.rows)
        /\ Cardinality(disk.rows) \in Nat /\ Cardinality(view.rows) \in Nat
    BY <1>3, <2>1, FS_Subset, FS_CardinalityType
  <2> QED
    BY <1>1, <1>3, <2>2 DEF PagedRight, Readers
<1> QED
  BY <1>1, <1>2, <1>3, <1>4, <1>5 DEF PagedRight

LEMMA FetchPaging ==
  ASSUME TypeOK, PagedRight, FetchPage
  PROVE  PagedRight'
<1>1. PICK page : page = Page(disk.rows, reader.offset)
  OBVIOUS
<1>2. /\ reader.at = "page" /\ disk' = disk /\ disk.rows \in SUBSET Traces /\ reader \in Readers
      /\ reader.offset \in Nat /\ reader.replayed \in Nat
  BY DEF TypeOK, Databases, FetchPage, Readers
<1>3. CASE page = {}
  <2>1. reader' = [reader EXCEPT !.at = "done"]
    BY <1>1, <1>3 DEF FetchPage
  <2>2. /\ reader'.offset = reader.offset /\ reader'.seen = reader.seen
        /\ reader'.replayed = reader.replayed /\ reader'.older = reader.older
        /\ reader'.intact = reader.intact
    BY <1>2, <2>1 DEF Readers
  <2>3. \A t \in disk.rows : Rank(disk.rows, t) < reader.offset /\ Rank(disk.rows, t) \in Nat
    BY <1>1, <1>2, <1>3, EmptyPageIsTheEnd, RankIsNat
  <2>4. reader.intact => reader.older \subseteq reader.seen
    BY <1>2, <2>3 DEF PagedRight
  <2> QED
    BY <1>2, <2>2, <2>4 DEF PagedRight
<1>4. CASE page # {}
  <2>1. PICK count : count = Cardinality(page)
    OBVIOUS
  <2>2. reader' = [reader EXCEPT !.offset = NextOffset(@), !.seen = @ \cup page,
                                 !.replayed = @ + count]
    BY <1>1, <1>4, <2>1 DEF FetchPage
  <2>3. /\ reader'.at = "page" /\ reader'.offset = reader.offset + BatchSize
        /\ reader'.seen = reader.seen \cup page /\ reader'.replayed = reader.replayed + count
        /\ reader'.older = reader.older /\ reader'.intact = reader.intact
    BY <1>2, <2>2 DEF Readers, NextOffset
  <2>4. /\ count \in Nat /\ count <= BatchSize
        /\ reader.offset + count <= Cardinality(disk.rows)
    BY <1>1, <1>2, <1>4, <2>1, PageFits
  <2>5. SUFFICES ASSUME reader.intact PROVE PagedRight'
    BY <2>3 DEF PagedRight
  <2>6. ASSUME NEW t \in reader.older
        PROVE  t \in reader.seen \cup page \/ Rank(disk.rows, t) >= reader.offset + BatchSize
    <3>1. /\ t \in disk.rows /\ Rank(disk.rows, t) \in Nat
          /\ t \in reader.seen \/ Rank(disk.rows, t) >= reader.offset
      BY <1>2, <2>5, <2>6, RankIsNat DEF PagedRight
    <3>2. Rank(disk.rows, t) \in reader.offset .. reader.offset + BatchSize - 1 => t \in page
      BY <1>1, <3>1 DEF Page, Rank, Below
    <3> QED
      BY <1>2, <3>1, <3>2, StoreAssumption
  <2>7. /\ reader.replayed + count <= reader.offset + BatchSize
        /\ reader.replayed + count <= Cardinality(disk.rows)
    <3>1. reader.replayed <= reader.offset /\ Cardinality(disk.rows) \in Nat
      BY <1>2, <2>5, TracesFinite, FS_Subset, FS_CardinalityType DEF PagedRight
    <3> QED
      BY <1>2, <2>4, <3>1, StoreAssumption
  <2>8. reader.older \subseteq disk.rows
    BY <2>5 DEF PagedRight
  <2> QED
    BY <1>2, <2>3, <2>6, <2>7, <2>8 DEF PagedRight
<1> QED
  BY <1>3, <1>4

LEMMA PagingStep ==
  ASSUME TypeOK, PagedRight, [Next]_vars
  PROVE  PagedRight'
<1>1. CASE MakeDurable
  BY <1>1, DurablePaging
<1>2. CASE UNCHANGED <<disk, reader>>
  BY <1>2 DEF PagedRight, Rank, Below
<1>3. CASE Iterate
  <2>1. /\ disk' = disk /\ disk.rows \in SUBSET Traces
        /\ reader'.older = disk.rows /\ reader'.offset = 0 /\ reader'.replayed = 0
        /\ reader'.at = "page"
    BY <1>3 DEF Iterate, TypeOK, Databases
  <2>2. \A t \in disk.rows : Rank(disk.rows, t) >= 0
    <3>1. ASSUME NEW t \in disk.rows PROVE Rank(disk.rows, t) \in Nat
      BY <2>1, <3>1, RankIsNat
    <3> QED
      BY <3>1
  <2>3. Cardinality(disk.rows) >= 0
    BY <2>1, TracesFinite, FS_Subset, FS_CardinalityType
  <2> QED
    BY <2>1, <2>2, <2>3 DEF PagedRight
<1>4. CASE FetchPage
  BY <1>4, FetchPaging
<1>5. MakeDurable \/ UNCHANGED <<disk, reader>> \/ Iterate \/ FetchPage
  BY DEF Next, SaveStep, PruneStep, Save, InsertTrace, InsertSpan, StatementFails, Commit,
         CommitFails, Prune, DeleteTraces, DeleteSpans, CommitPrune, PruneFails, Crash, vars
<1> QED
  BY <1>1, <1>2, <1>3, <1>4, <1>5

(***************************************************************************)
(* Paging by offset meets every trace that was on disk when it began, and   *)
(* counts no more than are stored, whatever is committed between two pages, *)
(* while nothing is pruned (store.py:255-266).                              *)
(***************************************************************************)
THEOREM PagingIsExact == Spec => []IterationExact
<1>1. Init => PagedRight
  BY FS_EmptySet DEF Init, Empty, PagedRight
<1>2. TypeOK /\ PagedRight /\ [Next]_vars => PagedRight'
  BY PagingStep
<1>3. PagedRight => IterationExact
  BY DEF PagedRight, IterationExact
<1> QED
  BY <1>1, <1>2, <1>3, StoreTypeCorrect, PTL DEF Spec
=============================================================================
