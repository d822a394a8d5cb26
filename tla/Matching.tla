------------------------------ MODULE Matching ------------------------------
(***************************************************************************)
(* The matching loop of run_reconciliation (services/reconciliation.py):   *)
(* evidences, in the order they were uploaded, each take at most one of    *)
(* the bank transactions still available, in the order they were imported. *)
(* One step is one iteration.  The two lists never change during a run;    *)
(* evidences and transactions are named by their position.                 *)
(*                                                                         *)
(* Amounts are integers: whole won, as receipts and statements have them.  *)
(***************************************************************************)
EXTENDS Integers, Sequences, Report

CONSTANTS
  Dates,          \* the dates that occur
  EvidenceLists,  \* the lists of evidences a run may load
  BankLists,      \* the lists of bank transactions a run may load
  NULL            \* SQL NULL

\* _DATE_SOFT_MATCH_MAX_RATIO, _DATE_SOFT_MATCH_MIN_ABS_GAP
MaxRatio == 10
MinAbsGap == 1000

Evidence == [date : Dates \cup {NULL}, amount : Int \cup {NULL}]
Transaction == [date : Dates, amount : Int]

ASSUME MatchingAssumption ==
  /\ NULL \notin Dates \cup Int
  /\ EvidenceLists \subseteq Seq(Evidence)
  /\ BankLists \subseteq Seq(Transaction)

VARIABLES
  evidences,  \* the loaded evidences
  bank,       \* the loaded transactions
  next,       \* position of the next evidence
  available,  \* positions of the transactions not taken yet
  results     \* the result rows built so far

vars == <<evidences, bank, next, available, results>>

MatchStatus ==
  {"matched", "amount_mismatch", "date_mismatch", "missing_bank_transaction",
   "missing_evidence"}

Result ==
  [evidence : (1..Len(evidences)) \cup {NULL}, tx : (1..Len(bank)) \cup {NULL},
   status : MatchStatus]

TypeOK ==
  /\ evidences \in Seq(Evidence)
  /\ bank \in Seq(Transaction)
  /\ next \in 1..(Len(evidences) + 2)
  /\ available \subseteq 1..Len(bank)
  /\ results \subseteq Result

Init ==
  /\ evidences \in EvidenceLists
  /\ bank \in BankLists
  /\ next = 1
  /\ available = 1..Len(bank)
  /\ results = {}

-----------------------------------------------------------------------------

Abs(n) == IF n < 0 THEN -n ELSE n

Gap(e, t) == Abs(Abs(bank[t].amount) - Abs(evidences[e].amount))

SameDate(e, t) == bank[t].date = evidences[e].date
SameAmount(e, t) == Abs(bank[t].amount) = Abs(evidences[e].amount)

Complete(e) == evidences[e].date # NULL /\ evidences[e].amount # NULL

IsFirst(t, S) == t \in S /\ \A u \in S : t <= u

\* Mutant of Exact: withdrawals keep their sign.
ExactSigned(e) ==
  {t \in available : SameDate(e, t) /\ bank[t].amount = evidences[e].amount}

\* _find_bank_match
Exact(e) == {t \in available : SameDate(e, t) /\ SameAmount(e, t)}

\* min() returns the first of the closest rows.
IsClosest(e, t, S) ==
  /\ t \in S
  /\ \A u \in S : Gap(e, t) < Gap(e, u) \/ (Gap(e, t) = Gap(e, u) /\ t <= u)

Plausible(e, t) ==
  \/ Gap(e, t) <= Abs(evidences[e].amount) * MaxRatio
  \/ Gap(e, t) <= MinAbsGap

\* _find_partial(by="date")
ByDate(e) ==
  LET sameDay == {t \in available : SameDate(e, t)} IN
  IF evidences[e].amount = 0
    THEN {t \in sameDay : IsFirst(t, sameDay)}
    ELSE {t \in sameDay : IsClosest(e, t, sameDay) /\ Plausible(e, t)}

\* Mutant of ByAmount: withdrawals keep their sign.
ByAmountSigned(e) ==
  LET equal == {t \in available : bank[t].amount = evidences[e].amount} IN
  {t \in equal : IsFirst(t, equal)}

\* _find_partial(by="amount")
ByAmount(e) ==
  LET equal == {t \in available : SameAmount(e, t)} IN
  {t \in equal : IsFirst(t, equal)}

-----------------------------------------------------------------------------

Take(t, status) ==
  /\ available' = available \ {t}
  /\ results' = results \cup {[evidence |-> next, tx |-> t, status |-> status]}

\* Mutant of Incomplete: the evidence is skipped without a row.
IncompleteSkipped ==
  /\ next <= Len(evidences)
  /\ ~Complete(next)
  /\ next' = next + 1
  /\ UNCHANGED <<evidences, bank, available, results>>

\* A date or amount is missing, so nothing can be matched.
Incomplete ==
  /\ next <= Len(evidences)
  /\ ~Complete(next)
  /\ results' = results \cup
       {[evidence |-> next, tx |-> NULL, status |-> "missing_bank_transaction"]}
  /\ next' = next + 1
  /\ UNCHANGED <<evidences, bank, available>>

\* Same date and same absolute amount: the first such row.
MatchExact ==
  /\ next <= Len(evidences)
  /\ Complete(next)
  /\ \E t \in Exact(next) : IsFirst(t, Exact(next)) /\ Take(t, "matched")
  /\ next' = next + 1
  /\ UNCHANGED <<evidences, bank>>

\* Otherwise the same date, with a plausible amount.
MatchByDate ==
  /\ next <= Len(evidences)
  /\ Complete(next)
  /\ Exact(next) = {}
  /\ \E t \in ByDate(next) : Take(t, "amount_mismatch")
  /\ next' = next + 1
  /\ UNCHANGED <<evidences, bank>>

\* Otherwise the same amount on another date.
MatchByAmount ==
  /\ next <= Len(evidences)
  /\ Complete(next)
  /\ Exact(next) = {} /\ ByDate(next) = {}
  /\ \E t \in ByAmount(next) : Take(t, "date_mismatch")
  /\ next' = next + 1
  /\ UNCHANGED <<evidences, bank>>

Unmatched ==
  /\ next <= Len(evidences)
  /\ Complete(next)
  /\ Exact(next) = {} /\ ByDate(next) = {} /\ ByAmount(next) = {}
  /\ results' = results \cup
       {[evidence |-> next, tx |-> NULL, status |-> "missing_bank_transaction"]}
  /\ next' = next + 1
  /\ UNCHANGED <<evidences, bank, available>>

\* Mutant of Leftovers: the rest is reported over and over.
LeftoversAgain ==
  /\ next > Len(evidences)
  /\ results' = results \cup
       {[evidence |-> NULL, tx |-> t, status |-> "missing_evidence"] :
          t \in available}
  /\ next' = next + 1
  /\ UNCHANGED <<evidences, bank, available>>

\* After the loop: what is still available has no evidence.
Leftovers ==
  /\ next = Len(evidences) + 1
  /\ results' = results \cup
       {[evidence |-> NULL, tx |-> t, status |-> "missing_evidence"] :
          t \in available}
  /\ next' = next + 1
  /\ UNCHANGED <<evidences, bank, available>>

Next ==
  \/ Incomplete \/ MatchExact \/ MatchByDate \/ MatchByAmount \/ Unmatched
  \/ Leftovers

Spec == Init /\ [][Next]_vars

Finished == next = Len(evidences) + 2

-----------------------------------------------------------------------------
(* What a run promises.                                                     *)

\* The results are one-to-one: no transaction and no evidence is in two of
\* them, and a taken transaction is no longer offered.
OneToOne ==
  /\ \A r, s \in results :
       /\ r.tx = s.tx /\ r.tx # NULL => r = s
       /\ r.evidence = s.evidence /\ r.evidence # NULL => r = s
  /\ ~Finished => \A r \in results : r.tx \notin available

\* In the end the results are a report: every loaded evidence and every loaded
\* transaction is accounted for, once.  ReconciliationRuns relies on it.
MakesAReport ==
  Finished =>
    IsReport({<<r.evidence, r.tx>> : r \in results},
             1..Len(evidences), 1..Len(bank), NULL)

\* A label says how the two sides differ: MATCHED in nothing, AMOUNT_MISMATCH
\* in the amount only, DATE_MISMATCH in the date only.
LabelsAreTrue ==
  \A r \in results :
    /\ r.status = "matched" =>
         SameDate(r.evidence, r.tx) /\ SameAmount(r.evidence, r.tx)
    /\ r.status = "amount_mismatch" =>
         SameDate(r.evidence, r.tx) /\ ~SameAmount(r.evidence, r.tx)
    /\ r.status = "date_mismatch" =>
         ~SameDate(r.evidence, r.tx) /\ SameAmount(r.evidence, r.tx)

\* Nothing is overlooked: an evidence and a transaction that are both reported
\* missing have different amounts, and on the same day implausible ones.
NothingOverlooked ==
  \A e \in 1..Len(evidences), t \in available :
    /\ [evidence |-> e, tx |-> NULL, status |-> "missing_bank_transaction"]
         \in results
    /\ Complete(e)
    => /\ ~SameAmount(e, t)
       /\ SameDate(e, t) => evidences[e].amount # 0 /\ ~Plausible(e, t)

\* The tie-breaker of the docstring: among evidences of the same date and
\* amount those uploaded first are matched first, with the rows imported first.
TwinsPairInOrder ==
  \A r, s \in results :
    /\ r.evidence # NULL /\ s.evidence # NULL
    /\ s.status = "matched"
    /\ r.evidence < s.evidence
    /\ evidences[r.evidence].date = evidences[s.evidence].date
    /\ evidences[r.evidence].amount # NULL
    /\ Abs(evidences[r.evidence].amount) = Abs(evidences[s.evidence].amount)
    => r.status = "matched" /\ r.tx < s.tx

-----------------------------------------------------------------------------
(* What the repository says and the code does not do.                       *)

\* reconciliation.py:3-15, steps 4 to 6: exact pairs are formed first, partial
\* ones among what is left; no row that is an exact match of an unmatched
\* evidence ends up with another one as a mismatch.
ExactBeforePartial ==
  \A r, s \in results :
    /\ r.status \in {"amount_mismatch", "date_mismatch"}
    /\ s.evidence # NULL /\ s.evidence # r.evidence
    /\ Complete(s.evidence)
    /\ SameDate(s.evidence, r.tx) /\ SameAmount(s.evidence, r.tx)
    => s.status = "matched"

=============================================================================
