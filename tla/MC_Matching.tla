----------------------------- MODULE MC_Matching -----------------------------
(***************************************************************************)
(* All lists of at most three evidences and three transactions over two    *)
(* dates and the amounts around the limits of the soft match: a gap of     *)
(* 1000 from 100 is accepted, 1100 is not; from 200 ten times 200 is.      *)
(***************************************************************************)
EXTENDS Matching, SequencesExt, TLC

MCDates == {1, 2}

SomeEvidence ==
  {[date |-> d, amount |-> a] : d \in MCDates, a \in {100, 200}}
    \cup {[date |-> 1, amount |-> 0], [date |-> NULL, amount |-> 100]}

SomeTransactions ==
  {[date |-> 1, amount |-> a] : a \in {-100, -200, 1100, -1200, -2300}}
    \cup {[date |-> 2, amount |-> -100]}

MCEvidenceLists == BoundedSeq(SomeEvidence, 3)
MCBankLists == BoundedSeq(SomeTransactions, 3)
=============================================================================
