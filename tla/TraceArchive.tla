---------------------------- MODULE TraceArchive ----------------------------
(***************************************************************************)
(* What a store of traces promises its writers and readers, without saying  *)
(* how.  A save is one step, and so is a prune.  A trace that is kept stays *)
(* as it is until one of them drops it, and what they drop has keep_last    *)
(* newer traces left.                                                       *)
(*                                                                         *)
(* A save that fails may leave its trace adrift, whole or in part: the next *)
(* save or prune keeps it, unless it is forgotten before, as in a crash.    *)
(* A save may drop traces too: those of a prune that failed before.         *)
(*                                                                         *)
(* TraceStore.tla implements this module under a refinement mapping.        *)
(***************************************************************************)
EXTENDS Naturals, FiniteSets

CONSTANTS
  Traces,   \* numbered by age, oldest first
  KeepLast  \* as many are never dropped

VARIABLES
  fate,   \* [Traces -> {"pending", "saved", "failed", "lost"}]
  kept,   \* the traces that readers see
  part,   \* those of them that lack spans
  adrift  \* traces of failed saves, not kept and not yet forgotten

vars == <<fate, kept, part, adrift>>

Init ==
  /\ fate = [t \in Traces |-> "pending"]
  /\ kept = {} /\ part = {} /\ adrift = {}

Becomes(t, f) ==
  /\ fate[t] = "pending"
  /\ fate' = [fate EXCEPT ![t] = f]

\* The traces in done are kept, with those adrift; old ones may be dropped.
Keep(done) ==
  \E dropped \in SUBSET kept, halves \in SUBSET adrift :
    /\ kept' = (kept \ dropped) \cup adrift \cup done
    /\ part' = (part \ dropped) \cup halves
    /\ adrift' = {}
    /\ \A t \in dropped : Cardinality({u \in kept' : u > t}) >= KeepLast

Save(t) ==
  /\ Becomes(t, "saved")
  /\ Keep({t})

Prune ==
  /\ Keep({})
  /\ UNCHANGED fate

\* The save raises: nothing of it is left, its trace is adrift, or all that was is forgotten.
Fail(t) ==
  /\ Becomes(t, "failed")
  /\ adrift' \in {adrift, adrift \cup {t}, {}}
  /\ UNCHANGED <<kept, part>>

Forget ==
  /\ adrift' \in SUBSET adrift
  /\ UNCHANGED <<fate, kept, part>>

\* The saves under way end without a result.
Crash ==
  /\ \E saves \in SUBSET {t \in Traces : fate[t] = "pending"} :
       fate' = [t \in Traces |-> IF t \in saves THEN "lost" ELSE fate[t]]
  /\ adrift' = {}
  /\ UNCHANGED <<kept, part>>

Next ==
  \/ \E t \in Traces : Save(t) \/ Fail(t)
  \/ Prune \/ Forget \/ Crash

Spec == Init /\ [][Next]_vars
=============================================================================
