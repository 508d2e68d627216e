------------------------------ MODULE MCServing ------------------------------
(* Model-checking instances of Serving.  What validation makes of an answer  *)
(* is computed for every text and context below; few outcomes remain.        *)
EXTENDS Serving, TLC

CallSymmetry == Permutations(Calls)

\* Lengths on both sides of the 40 characters of the sentence check and of the bounds.
SomeTexts ==
  {t \in [null : {FALSE}, chars : {0, 3, 40, 41}, blank : BOOLEAN, ends : BOOLEAN,
          words : {0, 1, 17, 18}, distinct : {0, 1, 4, 5}, loops : {0, 1, 3},
          refuses : BOOLEAN, json : {"parses", "fails", "raises"}, says : SUBSET {"p"}] :
     /\ t.blank <=> t.words = 0
     /\ t.blank => ~t.ends /\ ~t.refuses /\ t.json = "fails" /\ t.says = {}
     /\ t.chars = 0 => t.blank
     /\ t.distinct <= t.words /\ t.words <= t.chars
     /\ (t.words = 0) <=> (t.distinct = 0)
     /\ (t.words < 6) <=> (t.loops = 0)
     /\ t.loops = 3 => t.words >= 8}
    \cup
  {[null |-> TRUE, chars |-> 0, blank |-> TRUE, ends |-> FALSE, words |-> 0, distinct |-> 0,
    loops |-> 0, refuses |-> FALSE, json |-> "fails", says |-> {}]}

\* What the checks can look at, for the run whose properties only count the verdicts.
LegibleTexts == {t \in SomeTexts : ~t.null /\ t.json # "raises"}

SomeContexts ==
  [finish : {"stop", "length"}, expectJson : BOOLEAN, minChars : {0, 41}, maxChars : {0, 40},
   mustContain : SUBSET {"p"}, mustNotContain : SUBSET {"p"}]

MaybeALoadTest == {{}, Calls}
NoLoadTest     == {{}}

(***************************************************************************)
(* http_backends.py:36: "429 and 5xx are worth retrying; a 400 means the    *)
(* request itself is wrong": a call that the upstream has rejected is not   *)
(* put to it again.                                                         *)
(***************************************************************************)
RejectedNotRepeated ==
  \A r \in Calls : fate[r] = "open" /\ sent[r] > 0 => last[r] # "rejected"
=============================================================================
