---------------------------- MODULE RequestLedger ----------------------------
(***************************************************************************)
(* What the gateway promises about its own accounting, without saying how. *)
(*                                                                         *)
(* Every request is given one fate.  A fate makes a set of entries due: the *)
(* counters, the latency observation and the SLO event that a request with  *)
(* that fate must leave behind.  Entries are written one or several at a    *)
(* time, each at most once, and a request settles only when everything its  *)
(* fate makes due has been written and nothing else has.                    *)
(*                                                                         *)
(* Gateway.tla implements this module under a refinement mapping.           *)
(***************************************************************************)
EXTENDS Naturals, FiniteSets

CONSTANTS
  Calls,    \* requests made through InferenceGateway.generate
  Streams   \* requests made through InferenceGateway.stream

Requests == Calls \cup Streams

\* The records a request can leave, named after the metric or SLO field.
Entries == {"requests_ok", "requests_error", "errors_error", "errors_shed",
            "latency", "slo_good", "slo_bad"}

\* "open" until the request's outcome is known.
Fates == {"open", "shed", "answered", "failed", "crashed", "abandoned"}

(***************************************************************************)
(* What each fate owes.  A backend failure of a stream owes an SLO event    *)
(* and no metric; an exception that is not a BackendError ("crashed") and a *)
(* stream its consumer drops ("abandoned") owe nothing: that is what the    *)
(* code does.                                                               *)
(***************************************************************************)
Due(r, f) ==
  {e \in Entries :
    \/ f = "answered" /\ e \in {"requests_ok", "latency", "slo_good"}
    \/ f = "failed" /\ e = "slo_bad"
    \/ f = "failed" /\ r \in Calls /\ e \in {"errors_error", "requests_error", "latency"}
    \/ f = "shed" /\ e = "errors_shed"}

VARIABLES
  fate,      \* [Requests -> Fates]
  written,   \* [Requests -> SUBSET Entries]: what each request has recorded
  settled,   \* requests whose caller has its answer and whose records are complete
  tally      \* [Entries -> Nat]: the totals a reader of the telemetry sees

vars == <<fate, written, settled, tally>>

Init ==
  /\ fate    = [r \in Requests |-> "open"]
  /\ written = [r \in Requests |-> {}]
  /\ settled = {}
  /\ tally   = [e \in Entries |-> 0]

\* Request r, whose fate is or becomes f, writes the entries W and may settle.
Advance(r, f, W) ==
  /\ r \notin settled
  /\ fate[r] \in {"open", f}
  /\ W \subseteq Due(r, f) \ written[r]
  /\ fate'    = [fate EXCEPT ![r] = f]
  /\ written' = [written EXCEPT ![r] = @ \cup W]
  /\ tally'   = [e \in Entries |-> tally[e] + (IF e \in W THEN 1 ELSE 0)]
  /\ settled' \in {settled, settled \cup {r}}
  /\ r \in settled' => f # "open" /\ written'[r] = Due(r, f)

Next == \E r \in Requests, f \in Fates, W \in SUBSET Entries : Advance(r, f, W)

Spec == Init /\ [][Next]_vars

-----------------------------------------------------------------------------

TypeOK ==
  /\ fate    \in [Requests -> Fates]
  /\ written \in [Requests -> SUBSET Entries]
  /\ settled \subseteq Requests
  /\ tally   \in [Entries -> Nat]

(***************************************************************************)
(* Exactly-once accounting: each total is the number of requests that wrote *)
(* that entry, so nothing is counted twice and nothing is lost between      *)
(* concurrent writers (metrics.py:61 Counter.inc, slo.py:129 record).       *)
(***************************************************************************)
TotalsMatch ==
  \A e \in Entries : tally[e] = Cardinality({r \in Requests : e \in written[r]})

(***************************************************************************)
(* A request is never recorded as something it is not: it has written only  *)
(* what its fate makes due, all of it by the time it settles.               *)
(***************************************************************************)
BooksAgree ==
  \A r \in Requests :
    /\ written[r] \subseteq Due(r, fate[r])
    /\ r \in settled => written[r] = Due(r, fate[r])
=============================================================================
