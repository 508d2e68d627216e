------------------------- MODULE RequestLedgerProofs -------------------------
(* The accounting promised by RequestLedger, for any set of requests. *)
EXTENDS RequestLedger, FiniteSetTheorems, TLAPS

\* The ledger's variables keep their types.
THEOREM LedgerTypeCorrect == Spec => []TypeOK
  <1>1. Init => TypeOK
    BY DEF Init, TypeOK, Fates
  <1>2. TypeOK /\ [Next]_vars => TypeOK'
    <2> SUFFICES ASSUME TypeOK, [Next]_vars PROVE TypeOK'
      OBVIOUS
    <2>1. ASSUME NEW r \in Requests, NEW f \in Fates, NEW W \in SUBSET Entries,
                 Advance(r, f, W)
          PROVE  TypeOK'
      BY <2>1 DEF TypeOK, Advance
    <2>2. CASE UNCHANGED vars
      BY <2>2 DEF TypeOK, vars
    <2> QED
      BY <2>1, <2>2 DEF Next
  <1> QED
    BY <1>1, <1>2, PTL DEF Spec

\* A request records what its fate makes due and has recorded all of it once
\* settled: the fate is fixed before the first entry, so nothing is mislabelled.
THEOREM LedgerBooksAgree == Spec => []BooksAgree
  <1>1. Init => BooksAgree
    BY DEF Init, BooksAgree
  <1>2. TypeOK /\ BooksAgree /\ [Next]_vars => BooksAgree'
    <2> SUFFICES ASSUME TypeOK, BooksAgree, [Next]_vars PROVE BooksAgree'
      OBVIOUS
    <2>1. ASSUME NEW r \in Requests, NEW f \in Fates, NEW W \in SUBSET Entries,
                 Advance(r, f, W)
          PROVE  BooksAgree'
      <3>1. written[r] \subseteq Due(r, f)
        <4>1. CASE fate[r] = f
          BY <2>1, <4>1 DEF BooksAgree
        <4>2. CASE fate[r] = "open"
          BY <4>2 DEF BooksAgree, Due
        <4> QED
          BY <2>1, <4>1, <4>2 DEF Advance
      <3>2. ASSUME NEW q \in Requests
            PROVE  /\ written'[q] \subseteq Due(q, fate'[q])
                   /\ q \in settled' => written'[q] = Due(q, fate'[q])
        <4>1. CASE q = r
          BY <2>1, <3>1, <4>1 DEF TypeOK, Advance
        <4>2. CASE q # r
          BY <2>1, <4>2 DEF TypeOK, BooksAgree, Advance
        <4> QED
          BY <4>1, <4>2
      <3> QED
        BY <3>2 DEF BooksAgree, Due, Entries
    <2>2. CASE UNCHANGED vars
      BY <2>2 DEF BooksAgree, vars, Due
    <2> QED
      BY <2>1, <2>2 DEF Next
  <1> QED
    BY <1>1, <1>2, LedgerTypeCorrect, PTL DEF Spec

\* Each total is the number of requests that wrote the entry.
THEOREM LedgerTotalsMatch ==
  ASSUME IsFiniteSet(Requests)
  PROVE  Spec => []TotalsMatch
  <1> DEFINE Writers(e) == {r \in Requests : e \in written[r]}
  <1>1. Init => TotalsMatch
    BY FS_EmptySet DEF Init, TotalsMatch
  <1>2. TypeOK /\ TotalsMatch /\ [Next]_vars => TotalsMatch'
    <2> SUFFICES ASSUME TypeOK, TotalsMatch, [Next]_vars,
                        NEW e \in Entries
                 PROVE  tally'[e] = Cardinality(Writers(e)')
      BY DEF TotalsMatch
    <2>0. /\ tally[e] = Cardinality(Writers(e))
          /\ IsFiniteSet(Writers(e))
      BY FS_Subset DEF TotalsMatch
    <2>1. ASSUME NEW r \in Requests, NEW f \in Fates, NEW W \in SUBSET Entries,
                 Advance(r, f, W)
          PROVE  tally'[e] = Cardinality(Writers(e)')
      <3>1. CASE e \in W
        <4>1. /\ r \notin Writers(e)
              /\ Writers(e)' = Writers(e) \cup {r}
          BY <2>1, <3>1 DEF TypeOK, Advance
        <4>2. tally'[e] = tally[e] + 1
          BY <2>1, <3>1 DEF Advance
        <4> QED
          BY <2>0, <4>1, <4>2, FS_AddElement
      <3>2. CASE e \notin W
        <4>1. Writers(e)' = Writers(e)
          BY <2>1, <3>2 DEF TypeOK, Advance
        <4>2. tally'[e] = tally[e]
          BY <2>1, <3>2 DEF TypeOK, Advance
        <4> QED
          BY <2>0, <4>1, <4>2
      <3> QED
        BY <3>1, <3>2
    <2>2. CASE UNCHANGED vars
      BY <2>0, <2>2 DEF vars
    <2> QED
      BY <2>1, <2>2 DEF Next
  <1> QED
    BY <1>1, <1>2, LedgerTypeCorrect, PTL DEF Spec
=============================================================================
