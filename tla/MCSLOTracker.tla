----------------------------- MODULE MCSLOTracker -----------------------------
(***************************************************************************)
(* Instances of SLOTracker: an availability SLO whose rules page first, a   *)
(* ttft SLO whose rules file a ticket first, windows of one tick.           *)
(***************************************************************************)
EXTENDS SLOTracker, TLC

Rule(w, t, sev) == [window |-> w, threshold |-> t, severity |-> sev]

Availability ==
  [kind |-> "availability", indicator |-> "duration", limit |-> 0, window |-> 1,
   budget |-> 300, rules |-> <<Rule(0, 20, "page"), Rule(1, 10, "ticket")>>]

FirstToken ==
  [kind |-> "latency", indicator |-> "ttft", limit |-> 1, window |-> 1,
   budget |-> 300, rules |-> <<Rule(1, 10, "ticket"), Rule(1, 20, "page")>>]

TwoSLOs == <<Availability, FirstToken>>

\* An answer with a fast first token, one too slow without a first-token time,
\* and a request that failed at once.
Fast   == [ok |-> TRUE, latency |-> 2, ttft |-> 1]
Slow   == [ok |-> TRUE, latency |-> 2, ttft |-> NoTTFT]
Failed == [ok |-> FALSE, latency |-> 1, ttft |-> NoTTFT]

AllOutcomes  == {Fast, Slow, Failed}

\* For the races in _trim, to which what is recorded makes no difference.
OnlyFailures == {Failed}

WriterSymmetry == Permutations(Writers)
=============================================================================
