------------------------------ MODULE MCGateway ------------------------------
(* Statements of the repository about the gateway that the code does not live *)
(* up to.                                                                     *)
EXTENDS Gateway

(***************************************************************************)
(* gateway.py:37: "Reject requests once this many are already in flight."   *)
(***************************************************************************)
InFlightWithinLimit == MaxInFlight # 0 => inFlight <= MaxInFlight

AtRest == \A r \in Requests : pc[r] = "done"

(***************************************************************************)
(* gateway.py:3: a request through the gateway produces a trace, metrics,   *)
(* an SLO event and a stored trace: at rest, a request whose trace has been *)
(* stored has an SLO event too.                                             *)
(***************************************************************************)
StoredHasSLOEvent ==
  AtRest =>
    Cardinality({r \in Requests : stored[r] \in {"ok", "error"}})
      <= tally["slo_good"] + tally["slo_bad"]
=============================================================================
