------------------------------ MODULE MCConsole ------------------------------
(***************************************************************************)
(* The three scenarios of the console, with each attribute's values as      *)
(* small numbers: 0 is the baseline.                                        *)
(***************************************************************************)
EXTENDS Console

ThreeScenarios ==
  [healthy  |-> <<>>,
   flaky    |-> [failure_rate |-> 1],
   degraded |-> [base_overhead_ms |-> 1, decode_ms_per_token |-> 1]]

AllZero == [failure_rate |-> 0, base_overhead_ms |-> 0, decode_ms_per_token |-> 0]

TwoCalls == 1 .. 2
=============================================================================
