----------------------------- MODULE Validation -----------------------------
(***************************************************************************)
(* ResponseValidator and its eight default checks                           *)
(* (src/src/llmobs/validation.py).                                          *)
(*                                                                         *)
(* A text is the record of what the checks ask of it: null (the upstream's  *)
(* "text" is a JSON null, and the checks get None), chars (its length),     *)
(* blank (nothing but whitespace), ends (on sentence punctuation), words    *)
(* and how many distinct ones, loops (how often its most repeated window of *)
(* six words occurs), refuses (a refusal pattern matches), says (the        *)
(* phrases in it, in any case), and json: whether json.loads parses it, or  *)
(* its fenced part, "fails" with a JSONDecodeError, or "raises" something   *)
(* else: a RecursionError for deep nesting, a ValueError for a huge number. *)
(* The context is the caller's, with the reply's finish_reason.             *)
(*                                                                         *)
(* A check gives the severities of its issues, or {"raises"}.               *)
(***************************************************************************)
EXTENDS Naturals

\* repeat_window
RepeatWindow == 6

\* What a check that asks None for its words, its length or its letters comes to.
OfText(t, issues) == IF t.null THEN {"raises"} ELSE issues

NonEmpty(t, c) == OfText(t, IF t.blank THEN {"fail"} ELSE {})

\* `text and text.strip()[-1]`: an IndexError on whitespace, nothing on "" and None.
NotTruncated(t, c) ==
  IF c.finish = "length" THEN {"warn"}
  ELSE IF t.null \/ t.chars = 0 THEN {}
  ELSE IF t.blank THEN {"raises"}
  ELSE IF ~t.ends /\ t.chars > 40 THEN {"warn"} ELSE {}

NoRepetition(t, c) ==
  OfText(t, IF t.words < 3 * RepeatWindow THEN {}
            ELSE IF t.loops >= 3 THEN {"fail"}
            ELSE IF 4 * t.distinct < t.words THEN {"warn"} ELSE {})

NoRefusal(t, c) == OfText(t, IF t.refuses THEN {"warn"} ELSE {})

\* Only a JSONDecodeError is caught.
ValidJson(t, c) ==
  IF ~c.expectJson THEN {}
  ELSE OfText(t, IF t.json = "raises" THEN {"raises"}
                 ELSE IF t.json = "fails" THEN {"fail"} ELSE {})

\* A minimum or a maximum of 0 is none.
LengthBounds(t, c) ==
  IF c.minChars = 0 /\ c.maxChars = 0 THEN {}
  ELSE OfText(t, (IF t.chars < c.minChars THEN {"fail"} ELSE {})
                   \cup (IF c.maxChars # 0 /\ t.chars > c.maxChars THEN {"warn"} ELSE {}))

RequiredPhrases(t, c) ==
  IF c.mustContain = {} THEN {}
  ELSE OfText(t, IF c.mustContain \subseteq t.says THEN {} ELSE {"fail"})

ForbiddenPhrases(t, c) ==
  IF c.mustNotContain = {} THEN {}
  ELSE OfText(t, IF c.mustNotContain \cap t.says = {} THEN {} ELSE {"fail"})

Issues(t, c) ==
  UNION {NonEmpty(t, c), NotTruncated(t, c), NoRepetition(t, c), NoRefusal(t, c),
         ValidJson(t, c), LengthBounds(t, c), RequiredPhrases(t, c), ForbiddenPhrases(t, c)}

\* Wrong: a check that raises ends the validation, and what it had not failed is valid.
ValidUnlessRaised(t, c) == "raises" \in Issues(t, c) \/ "fail" \notin Issues(t, c)

\* ResponseValidator.validate: a check that raises warns, and only a failure is invalid.
Valid(t, c) == "fail" \notin Issues(t, c)

(***************************************************************************)
(* What a caller would have of an answer, whatever the checks are built     *)
(* from: it says something, does not loop, and is what was asked for.       *)
(***************************************************************************)
Acceptable(t, c) ==
  /\ ~t.null /\ ~t.blank
  /\ t.loops < 3 \/ t.words < 18
  /\ c.expectJson => t.json = "parses"
  /\ t.chars >= c.minChars
  /\ \A p \in c.mustContain : p \in t.says
  /\ \A p \in c.mustNotContain : p \notin t.says

\* The checks that can fail an answer were able to look at it.
Legible(t, c) == ~t.null /\ (c.expectJson => t.json # "raises")
=============================================================================
