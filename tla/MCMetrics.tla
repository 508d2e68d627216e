------------------------------ MODULE MCMetrics ------------------------------
(***************************************************************************)
(* Two answered requests and a failed one.  They all observe one new label  *)
(* set, or two of them, the failure bringing in the second or meeting an    *)
(* answered one in the first; a latency is on a bound, or exceeds them all. *)
(***************************************************************************)
EXTENDS Metrics, TLC

CONSTANTS a1, a2, f1, k1, k2

TwoBounds == <<1, 2>>

At(k, v) == [key |-> k, value |-> v]

ThreeLoads ==
  {a1 :> At(k1, 1) @@ a2 :> At(k1, 3) @@ f1 :> At(k1, 2),
   a1 :> At(k1, 2) @@ a2 :> At(k1, 1) @@ f1 :> At(k2, 1),
   a1 :> At(k1, 3) @@ a2 :> At(k2, 2) @@ f1 :> At(k1, 1)}
=============================================================================
