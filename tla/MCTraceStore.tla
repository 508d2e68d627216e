---------------------------- MODULE MCTraceStore ----------------------------
(***************************************************************************)
(* Traces of one and of two spans, so that a save can fail before, between  *)
(* and after its span rows.                                                 *)
(***************************************************************************)
EXTENDS TraceStore

SpansAlternate == [t \in Traces |-> IF t % 2 = 1 THEN 2 ELSE 1]
=============================================================================
