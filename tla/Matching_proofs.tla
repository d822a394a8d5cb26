--------------------------- MODULE Matching_proofs ---------------------------
(***************************************************************************)
(* For lists of every length, with every date and every integer amount:    *)
(* the results of a matching run are one-to-one, account for everything,   *)
(* are labelled truly, overlook nothing, and pair twins in order.          *)
(*                                                                         *)
(* IInv adds to the properties how far the loop has come (Covered) and     *)
(* what an exact match leaves behind (NoExactLeft): no available row is    *)
(* an exact match of an evidence that went without one, nor an earlier     *)
(* exact match of an evidence that was matched.                            *)
(***************************************************************************)
EXTENDS Matching, FiniteSetTheorems, SequenceTheorems, WellFoundedInduction, TLAPS

\* Every evidence before next has its row, and every row names an evidence
\* before next; a transaction is available or has its row.
Covered ==
  /\ \A r \in results : r.evidence # NULL => r.evidence < next
  /\ next <= Len(evidences) + 1 => \A r \in results : r.evidence # NULL
  /\ \A e \in 1..Len(evidences) : e < next => \E r \in results : r.evidence = e
  /\ \A t \in 1..Len(bank) :
       (t \in available /\ ~Finished) \/ \E r \in results : r.tx = t

NoExactLeft ==
  \A r \in results, t \in available :
    /\ r.evidence # NULL
    /\ Complete(r.evidence)
    /\ SameDate(r.evidence, t) /\ SameAmount(r.evidence, t)
    => r.status = "matched" /\ r.tx < t

NoEmptyRow == \A r \in results : r.evidence # NULL \/ r.tx # NULL

IInv ==
  /\ TypeOK
  /\ NoEmptyRow
  /\ Covered
  /\ OneToOne
  /\ LabelsAreTrue
  /\ NothingOverlooked
  /\ NoExactLeft
  /\ TwinsPairInOrder

-----------------------------------------------------------------------------
(* Least elements.                                                          *)

\* A non-empty set of naturals has a least element: the initial segments
\* below its elements are well-founded under strict inclusion.
LEMMA LeastNatural ==
  ASSUME NEW T, T \subseteq Nat, T # {}
  PROVE  \E m \in T : \A n \in T : m <= n
<1> DEFINE Segments == {0..(m - 1) : m \in T}
<1>1. Segments \subseteq FiniteSubsetsOf(Nat)
  <2> SUFFICES ASSUME NEW m \in T PROVE 0..(m - 1) \in FiniteSubsetsOf(Nat)
    OBVIOUS
  <2>1. IsFiniteSet(0..(m - 1)) BY FS_Interval
  <2> QED BY <2>1 DEF FiniteSubsetsOf
<1>2. Segments # {} OBVIOUS
<1>3. \E x \in Segments : \A y \in Segments :
        ~(<<y, x>> \in StrictSubsetOrdering(Nat))
  BY <1>1, <1>2, FS_StrictSubsetOrderingWellFounded, WFMin
<1>4. PICK m \in T : \A n \in T :
        ~(<<0..(n - 1), 0..(m - 1)>> \in StrictSubsetOrdering(Nat))
  BY <1>3
<1>5. ASSUME NEW n \in T, n < m PROVE FALSE
  <2>1. n \in Nat /\ m \in Nat OBVIOUS
  <2>2. 0..(n - 1) \subseteq 0..(m - 1) BY <2>1, <1>5
  <2>3. n \in 0..(m - 1) /\ n \notin 0..(n - 1) BY <2>1, <1>5
  <2>4. 0..(n - 1) \in SUBSET Nat /\ 0..(m - 1) \in SUBSET Nat BY <2>1
  <2> QED BY <2>2, <2>3, <2>4, <1>4 DEF StrictSubsetOrdering
<1> QED BY <1>4, <1>5

\* The first of several transactions exists.
LEMMA FirstExists ==
  ASSUME NEW S, S \subseteq 1..Len(bank), S # {}, Len(bank) \in Nat
  PROVE  \E t \in S : IsFirst(t, S)
<1>1. S \subseteq Nat OBVIOUS
<1> QED BY <1>1, LeastNatural DEF IsFirst

\* So does the first of the closest ones.
LEMMA ClosestExists ==
  ASSUME NEW e, NEW S, S \subseteq 1..Len(bank), S # {}, Len(bank) \in Nat,
         \A t \in S : Gap(e, t) \in Nat
  PROVE  \E t \in S : IsClosest(e, t, S)
<1> DEFINE Gaps == {Gap(e, t) : t \in S}
<1>1. PICK g \in Gaps : \A h \in Gaps : g <= h
  <2> HIDE DEF Gap
  <2>1. Gaps \subseteq Nat /\ Gaps # {} OBVIOUS
  <2> QED BY <2>1, LeastNatural
<1> DEFINE Best == {t \in S : Gap(e, t) = g}
<1>2. Best \subseteq 1..Len(bank) /\ Best # {} BY <1>1
<1>3. PICK t \in Best : IsFirst(t, Best) BY <1>2, FirstExists
<1>4. IsClosest(e, t, S)
  <2> SUFFICES ASSUME NEW u \in S
               PROVE  Gap(e, t) < Gap(e, u) \/ (Gap(e, t) = Gap(e, u) /\ t <= u)
    BY DEF IsClosest
  <2>1. Gap(e, t) = g /\ g <= Gap(e, u) /\ g \in Nat /\ Gap(e, u) \in Nat
    BY <1>1
  <2>2. CASE Gap(e, u) = g
    BY <2>1, <2>2, <1>3 DEF IsFirst
  <2>3. CASE Gap(e, u) # g
    BY <2>1, <2>3
  <2> QED BY <2>2, <2>3
<1> QED BY <1>4

-----------------------------------------------------------------------------
(* Facts about one iteration.                                               *)

LEMMA ListFacts ==
  ASSUME TypeOK
  PROVE  /\ Len(evidences) \in Nat /\ Len(bank) \in Nat /\ next \in Nat
         /\ \A e \in 1..Len(evidences) :
              /\ evidences[e].date \in Dates \cup {NULL}
              /\ evidences[e].amount \in Int \cup {NULL}
         /\ \A t \in 1..Len(bank) :
              bank[t].date \in Dates /\ bank[t].amount \in Int
<1>1. Len(evidences) \in Nat /\ Len(bank) \in Nat /\ next \in Nat
  BY DEF TypeOK
<1>2. ASSUME NEW e \in 1..Len(evidences)
      PROVE  /\ evidences[e].date \in Dates \cup {NULL}
             /\ evidences[e].amount \in Int \cup {NULL}
  <2>1. evidences[e] \in Evidence BY <1>2, ElementOfSeq DEF TypeOK
  <2> QED BY <2>1 DEF Evidence
<1>3. ASSUME NEW t \in 1..Len(bank)
      PROVE  bank[t].date \in Dates /\ bank[t].amount \in Int
  <2>1. bank[t] \in Transaction BY <1>3, ElementOfSeq DEF TypeOK
  <2> QED BY <2>1 DEF Transaction
<1> QED BY <1>1, <1>2, <1>3

LEMMA AbsType == \A n \in Int : Abs(n) \in Nat
BY DEF Abs

LEMMA GapType ==
  ASSUME TypeOK, NEW e \in 1..Len(evidences), Complete(e)
  PROVE  /\ Abs(evidences[e].amount) \in Nat
         /\ \A t \in 1..Len(bank) : Gap(e, t) \in Nat
<1>1. evidences[e].amount \in Int BY ListFacts DEF Complete
<1>2. Abs(evidences[e].amount) \in Nat BY <1>1, AbsType
<1>3. ASSUME NEW t \in 1..Len(bank) PROVE Gap(e, t) \in Nat
  <2>1. Abs(bank[t].amount) \in Nat BY ListFacts, AbsType
  <2>2. Abs(bank[t].amount) - Abs(evidences[e].amount) \in Int BY <1>2, <2>1
  <2> QED BY <2>2, AbsType DEF Gap
<1> QED BY <1>2, <1>3

\* What the candidates of the next evidence are.
LEMMA CandidateFacts ==
  ASSUME TypeOK
  PROVE  /\ \A t \in Exact(next) :
              t \in available /\ SameDate(next, t) /\ SameAmount(next, t)
         /\ \A t \in ByDate(next) : t \in available /\ SameDate(next, t)
         /\ \A t \in ByAmount(next) : t \in available /\ SameAmount(next, t)
BY DEF Exact, ByDate, ByAmount

\* When there is no candidate, no available row looks like one.
LEMMA NoCandidate ==
  ASSUME TypeOK, next \in 1..Len(evidences), Complete(next),
         ByDate(next) = {}, ByAmount(next) = {}, NEW t \in available
  PROVE  /\ ~SameAmount(next, t)
         /\ SameDate(next, t) =>
              evidences[next].amount # 0 /\ ~Plausible(next, t)
<1>1. available \subseteq 1..Len(bank) /\ Len(bank) \in Nat
  BY ListFacts DEF TypeOK
<1>2. ~SameAmount(next, t)
  <2> DEFINE equal == {u \in available : SameAmount(next, u)}
  <2>1. ByAmount(next) = {u \in equal : IsFirst(u, equal)} BY DEF ByAmount
  <2> HIDE DEF equal
  <2>2. equal \subseteq 1..Len(bank) BY <1>1 DEF equal
  <2>3. equal = {} BY <1>1, <2>1, <2>2, FirstExists
  <2> QED BY <2>3 DEF equal
<1>3. ASSUME SameDate(next, t)
      PROVE  evidences[next].amount # 0 /\ ~Plausible(next, t)
  <2> DEFINE sameDay == {u \in available : SameDate(next, u)}
  <2>1. ByDate(next) =
          IF evidences[next].amount = 0
            THEN {u \in sameDay : IsFirst(u, sameDay)}
            ELSE {u \in sameDay :
                    IsClosest(next, u, sameDay) /\ Plausible(next, u)}
    BY DEF ByDate
  <2>2. t \in sameDay BY <1>3
  <2>3. sameDay \subseteq 1..Len(bank) BY <1>1
  <2> HIDE DEF sameDay
  <2>4. evidences[next].amount # 0
    BY <1>1, <2>1, <2>2, <2>3, FirstExists
  <2>5. \A u \in 1..Len(bank) : Gap(next, u) \in Nat BY GapType
  <2>6. PICK u \in sameDay : IsClosest(next, u, sameDay)
    BY <1>1, <2>2, <2>3, <2>5, ClosestExists
  <2>7. ~Plausible(next, u) BY <2>1, <2>4, <2>6
  <2>8. Gap(next, u) <= Gap(next, t)
    BY <2>2, <2>3, <2>5, <2>6 DEF IsClosest
  <2>9. ~Plausible(next, t)
    <3>1. Abs(evidences[next].amount) * MaxRatio \in Int
      BY GapType DEF MaxRatio
    <3>2. Gap(next, t) \in Int /\ Gap(next, u) \in Int BY <2>2, <2>3, <2>5
    <3> QED BY <2>7, <2>8, <3>1, <3>2 DEF Plausible, MinAbsGap
  <2> QED BY <2>4, <2>9
<1> QED BY <1>2, <1>3

\* The lists do not change, so neither does what compares their elements.
LEMMA Frame ==
  ASSUME UNCHANGED <<evidences, bank>>
  PROVE  \A e, t : /\ SameDate(e, t)' = SameDate(e, t)
                   /\ SameAmount(e, t)' = SameAmount(e, t)
                   /\ Complete(e)' = Complete(e)
                   /\ Plausible(e, t)' = Plausible(e, t)
BY DEF SameDate, SameAmount, Complete, Plausible, Gap, Abs

-----------------------------------------------------------------------------
(* The inductive invariant.                                                 *)

LEMMA InitInv == Init => IInv
<1> SUFFICES ASSUME Init PROVE IInv OBVIOUS
<1>1. evidences \in Seq(Evidence) /\ bank \in Seq(Transaction)
  BY MatchingAssumption DEF Init
<1>2. TypeOK BY <1>1 DEF Init, TypeOK
<1>3. Covered BY <1>1 DEF Init, Covered, Finished
<1> QED
  BY <1>2, <1>3 DEF Init, IInv, NoEmptyRow, OneToOne, LabelsAreTrue, NothingOverlooked,
                    NoExactLeft, TwinsPairInOrder

\* An iteration that takes a transaction.
LEMMA TakeInv ==
  ASSUME IInv, next \in 1..Len(evidences), Complete(next),
         NEW t \in available,
         NEW status \in {"matched", "amount_mismatch", "date_mismatch"},
         Take(t, status), next' = next + 1, UNCHANGED <<evidences, bank>>,
         status = "matched" => t \in Exact(next) /\ IsFirst(t, Exact(next)),
         status = "amount_mismatch" => Exact(next) = {} /\ SameDate(next, t),
         status = "date_mismatch" => Exact(next) = {} /\ SameAmount(next, t)
  PROVE  IInv'
<1> DEFINE row == [evidence |-> next, tx |-> t, status |-> status]
<1>1. /\ available' = available \ {t} /\ available \subseteq 1..Len(bank)
      /\ results' = results \cup {row}
      /\ Len(evidences) \in Nat /\ next \in Nat
  BY ListFacts DEF Take, IInv, TypeOK
<1>2. row \in Result /\ row.evidence = next /\ row.tx = t /\ row.status = status
  BY <1>1 DEF Result, MatchStatus
<1> HIDE DEF row
<1>3. NULL \notin Int BY MatchingAssumption
<1>4. \A r \in results : r.evidence # NULL /\ r.evidence < next
  BY <1>1 DEF IInv, Covered
<1>5. \A r \in results : r.tx \notin available
  BY <1>1 DEF IInv, OneToOne, Finished
<1>6. t \in Exact(next) <=> SameDate(next, t) /\ SameAmount(next, t)
  BY DEF Exact
<1>7. TypeOK'
  <2>1. Result' = Result BY DEF Result
  <2> QED BY <1>1, <1>2, <2>1 DEF IInv, TypeOK
<1>8. Covered'
  <2>1. \A r \in results' : r.evidence # NULL /\ r.evidence < next'
    BY <1>1, <1>2, <1>3, <1>4 DEF IInv, TypeOK, Result
  <2>2. \A e \in 1..Len(evidences) : e < next' => \E r \in results' : r.evidence = e
    BY <1>1, <1>2 DEF IInv, Covered
  <2>3. \A u \in 1..Len(bank) :
          (u \in available' /\ ~Finished') \/ \E r \in results' : r.tx = u
    <3>1. ~Finished' BY <1>1 DEF Finished
    <3> QED BY <1>1, <1>2, <3>1 DEF IInv, Covered
  <2> QED BY <2>1, <2>2, <2>3 DEF Covered
<1>9. OneToOne'
  <2>1. \A r \in results : r.tx # t /\ r.evidence # next
    BY <1>1, <1>4, <1>5
  <2>2. \A r \in results' : r.tx \notin available'
    BY <1>1, <1>2, <1>5
  <2> QED BY <1>1, <1>2, <2>1, <2>2 DEF IInv, OneToOne
<1>10. LabelsAreTrue'
  <2>1. /\ status = "matched" => SameDate(next, t) /\ SameAmount(next, t)
        /\ status = "amount_mismatch" => SameDate(next, t) /\ ~SameAmount(next, t)
        /\ status = "date_mismatch" => ~SameDate(next, t) /\ SameAmount(next, t)
    BY <1>6
  <2> QED BY <1>1, <1>2, <2>1, Frame DEF IInv, LabelsAreTrue
<1>11. NothingOverlooked'
  <2>1. \A e : [evidence |-> e, tx |-> NULL, status |-> "missing_bank_transaction"]
                 \in results' =>
               [evidence |-> e, tx |-> NULL, status |-> "missing_bank_transaction"]
                 \in results
    BY <1>1 DEF row
  <2> QED BY <1>1, <2>1, Frame DEF IInv, NothingOverlooked
<1>12. NoExactLeft'
  <2> SUFFICES ASSUME NEW r \in results', NEW u \in available',
                      Complete(r.evidence), SameDate(r.evidence, u),
                      SameAmount(r.evidence, u), r.evidence # NULL
               PROVE  r.status = "matched" /\ r.tx < u
    BY Frame DEF NoExactLeft
  <2>1. CASE r \in results
    BY <1>1, <2>1 DEF IInv, NoExactLeft
  <2>2. CASE r = row
    <3>1. u \in Exact(next) BY <1>1, <1>2, <2>2 DEF Exact
    <3>2. status = "matched" /\ t <= u BY <3>1 DEF IsFirst
    <3> QED BY <1>1, <1>2, <2>2, <3>2
  <2> QED BY <1>1, <2>1, <2>2
<1>13. TwinsPairInOrder'
  <2> SUFFICES ASSUME NEW r \in results', NEW s \in results',
                      r.evidence # NULL, s.evidence # NULL,
                      s.status = "matched", r.evidence < s.evidence,
                      evidences[r.evidence].date = evidences[s.evidence].date,
                      evidences[r.evidence].amount # NULL,
                      Abs(evidences[r.evidence].amount) =
                        Abs(evidences[s.evidence].amount)
               PROVE  r.status = "matched" /\ r.tx < s.tx
    BY DEF TwinsPairInOrder
  <2>1. CASE r \in results /\ s \in results
    BY <2>1 DEF IInv, TwinsPairInOrder
  <2>2. CASE r = row
    <3>1. s.evidence <= next BY <1>1, <1>2, <1>4 DEF IInv, TypeOK, Result
    <3> QED BY <1>1, <1>2, <1>4, <2>2, <3>1 DEF IInv, TypeOK, Result
  <2>3. CASE r \in results /\ s = row
    <3>1. SameDate(next, t) /\ SameAmount(next, t) BY <1>2, <1>6, <2>3
    <3>2. SameDate(r.evidence, t) /\ SameAmount(r.evidence, t)
      BY <1>2, <2>3, <3>1 DEF SameDate, SameAmount
    <3>3. Complete(r.evidence)
      BY <1>2, <2>3 DEF Complete
    <3> QED BY <1>2, <2>3, <3>2, <3>3 DEF IInv, NoExactLeft
  <2> QED BY <1>1, <2>1, <2>2, <2>3
<1>14. NoEmptyRow'
  BY <1>1, <1>2, <1>3 DEF IInv, NoEmptyRow
<1> QED
  BY <1>7, <1>8, <1>9, <1>10, <1>11, <1>12, <1>13, <1>14 DEF IInv

\* An iteration that finds nothing.
LEMMA LeaveInv ==
  ASSUME IInv, next \in 1..Len(evidences), next' = next + 1,
         UNCHANGED <<evidences, bank, available>>,
         results' = results \cup
           {[evidence |-> next, tx |-> NULL,
             status |-> "missing_bank_transaction"]},
         Complete(next) =>
           \A t \in available :
             /\ ~SameAmount(next, t)
             /\ SameDate(next, t) =>
                  evidences[next].amount # 0 /\ ~Plausible(next, t)
  PROVE  IInv'
<1> DEFINE row == [evidence |-> next, tx |-> NULL,
                   status |-> "missing_bank_transaction"]
<1>1. /\ results' = results \cup {row} /\ available \subseteq 1..Len(bank)
      /\ Len(evidences) \in Nat /\ next \in Nat
  BY ListFacts DEF IInv, TypeOK
<1>2. /\ row \in Result /\ row.evidence = next /\ row.tx = NULL
      /\ row.status = "missing_bank_transaction"
  BY DEF Result, MatchStatus
<1>3. NULL \notin Int BY MatchingAssumption
<1>4. \A r \in results : r.evidence # NULL /\ r.evidence < next
  BY <1>1 DEF IInv, Covered
<1>5. \A r \in results : r.tx \notin available
  BY <1>1 DEF IInv, OneToOne, Finished
<1>6. \A e : [evidence |-> e, tx |-> NULL, status |-> "missing_bank_transaction"]
               \in results' =>
             \/ e = next
             \/ [evidence |-> e, tx |-> NULL,
                 status |-> "missing_bank_transaction"] \in results
  BY <1>1
<1> HIDE DEF row
<1>7. TypeOK'
  <2>1. Result' = Result BY DEF Result
  <2> QED BY <1>1, <1>2, <2>1 DEF IInv, TypeOK
<1>8. Covered'
  <2>1. \A r \in results' : r.evidence # NULL /\ r.evidence < next'
    BY <1>1, <1>2, <1>3, <1>4 DEF IInv, TypeOK, Result
  <2>2. \A e \in 1..Len(evidences) : e < next' => \E r \in results' : r.evidence = e
    BY <1>1, <1>2 DEF IInv, Covered
  <2>3. \A u \in 1..Len(bank) :
          (u \in available' /\ ~Finished') \/ \E r \in results' : r.tx = u
    <3>1. ~Finished' BY <1>1 DEF Finished
    <3> QED BY <1>1, <1>2, <3>1 DEF IInv, Covered
  <2> QED BY <2>1, <2>2, <2>3 DEF Covered
<1>9. OneToOne'
  <2>1. \A r \in results : r.evidence # next
    BY <1>1, <1>4
  <2>2. \A r \in results' : r.tx \notin available'
    BY <1>1, <1>2, <1>3, <1>5
  <2> QED BY <1>1, <1>2, <2>1, <2>2 DEF IInv, OneToOne
<1>10. LabelsAreTrue'
  BY <1>1, <1>2, Frame DEF IInv, LabelsAreTrue
<1>11. NothingOverlooked'
  <2> SUFFICES ASSUME NEW e \in 1..Len(evidences), NEW t \in available,
                      [evidence |-> e, tx |-> NULL,
                       status |-> "missing_bank_transaction"] \in results',
                      Complete(e)
               PROVE  /\ ~SameAmount(e, t)
                      /\ SameDate(e, t) =>
                           evidences[e].amount # 0 /\ ~Plausible(e, t)
    BY Frame DEF NothingOverlooked
  <2> QED BY <1>6 DEF IInv, NothingOverlooked
<1>12. NoExactLeft'
  <2> SUFFICES ASSUME NEW r \in results', NEW u \in available,
                      Complete(r.evidence), SameDate(r.evidence, u),
                      SameAmount(r.evidence, u), r.evidence # NULL
               PROVE  r.status = "matched" /\ r.tx < u
    BY Frame DEF NoExactLeft
  <2> QED BY <1>1, <1>2 DEF IInv, NoExactLeft
<1>13. TwinsPairInOrder'
  <2> SUFFICES ASSUME NEW r \in results', NEW s \in results',
                      r.evidence # NULL, s.evidence # NULL,
                      s.status = "matched", r.evidence < s.evidence,
                      evidences[r.evidence].date = evidences[s.evidence].date,
                      evidences[r.evidence].amount # NULL,
                      Abs(evidences[r.evidence].amount) =
                        Abs(evidences[s.evidence].amount)
               PROVE  r.status = "matched" /\ r.tx < s.tx
    BY DEF TwinsPairInOrder
  <2>1. s \in results BY <1>1, <1>2
  <2>2. r # row
    BY <1>1, <1>2, <1>4, <2>1 DEF IInv, TypeOK, Result
  <2> QED BY <1>1, <2>1, <2>2 DEF IInv, TwinsPairInOrder
<1>14. NoEmptyRow'
  BY <1>1, <1>2, <1>3 DEF IInv, NoEmptyRow
<1> QED
  BY <1>7, <1>8, <1>9, <1>10, <1>11, <1>12, <1>13, <1>14 DEF IInv

\* The rows for what nobody took.
LEMMA LeftoversInv == IInv /\ Leftovers => IInv'
<1> SUFFICES ASSUME IInv, Leftovers PROVE IInv' OBVIOUS
<1> DEFINE rest == {[evidence |-> NULL, tx |-> t, status |-> "missing_evidence"] :
                      t \in available}
<1>1. /\ results' = results \cup rest /\ available \subseteq 1..Len(bank)
      /\ Len(evidences) \in Nat /\ next \in Nat /\ next = Len(evidences) + 1
      /\ next' = next + 1 /\ UNCHANGED <<evidences, bank, available>>
  BY ListFacts DEF Leftovers, IInv, TypeOK
<1>2. \A r \in rest : /\ r \in Result /\ r.evidence = NULL /\ r.tx \in available
                      /\ r.status = "missing_evidence"
  BY <1>1 DEF Result, MatchStatus
<1>3. \A r, s \in rest : r.tx = s.tx => r = s OBVIOUS
<1>4. ASSUME NEW t \in available PROVE \E r \in rest : r.tx = t
  <2> DEFINE r == [evidence |-> NULL, tx |-> t, status |-> "missing_evidence"]
  <2>1. r \in rest /\ r.tx = t OBVIOUS
  <2> QED BY <2>1
<1>5. \A r \in results : r.tx \notin available /\ r.evidence # NULL
  BY <1>1 DEF IInv, OneToOne, Covered, Finished
<1>6. \A e : [evidence |-> e, tx |-> NULL, status |-> "missing_bank_transaction"]
               \in results' =>
             [evidence |-> e, tx |-> NULL, status |-> "missing_bank_transaction"]
               \in results
  BY <1>1
<1> HIDE DEF rest
<1>7. TypeOK'
  <2>1. Result' = Result BY <1>1 DEF Result
  <2> QED BY <1>1, <1>2, <2>1 DEF IInv, TypeOK
<1>8. Covered'
  <2>1. \A r \in results' : r.evidence # NULL => r.evidence < next'
    BY <1>1, <1>2 DEF IInv, Covered, TypeOK, Result
  <2>2. \A e \in 1..Len(evidences) : e < next' => \E r \in results' : r.evidence = e
    BY <1>1 DEF IInv, Covered
  <2>3. \A u \in 1..Len(bank) : \E r \in results' : r.tx = u
    BY <1>1, <1>4 DEF IInv, Covered
  <2> QED BY <1>1, <2>1, <2>2, <2>3 DEF Covered
<1>9. OneToOne'
  <2>1. Finished' BY <1>1 DEF Finished
  <2> QED BY <1>1, <1>2, <1>3, <1>5, <2>1 DEF IInv, OneToOne
<1>10. LabelsAreTrue'
  BY <1>1, <1>2, Frame DEF IInv, LabelsAreTrue
<1>11. NothingOverlooked'
  BY <1>1, <1>6, Frame DEF IInv, NothingOverlooked
<1>12. NoExactLeft'
  BY <1>1, <1>2, Frame DEF IInv, NoExactLeft
<1>13. TwinsPairInOrder'
  BY <1>1, <1>2 DEF IInv, TwinsPairInOrder, Abs
<1>14. NoEmptyRow'
  <2>1. Len(bank) \in Nat BY ListFacts DEF IInv, TypeOK
  <2>2. 1..Len(bank) \subseteq Int BY <2>1
  <2>3. available \subseteq Int BY <1>1, <2>2
  <2>4. \A r \in rest : r.tx \in Int BY <1>2, <2>3
  <2>5. \A r \in rest : r.tx # NULL BY <2>4, MatchingAssumption
  <2> QED BY <1>1, <2>5 DEF IInv, NoEmptyRow
<1> QED
  BY <1>7, <1>8, <1>9, <1>10, <1>11, <1>12, <1>13, <1>14 DEF IInv

LEMMA NextInv == IInv /\ [Next]_vars => IInv'
<1> SUFFICES ASSUME IInv, [Next]_vars PROVE IInv' OBVIOUS
<1>1. TypeOK /\ Len(evidences) \in Nat /\ next \in Nat /\ next >= 1
  BY ListFacts DEF IInv, TypeOK
<1>2. CASE Incomplete
  BY <1>1, <1>2, LeaveInv DEF Incomplete
<1>3. CASE MatchExact
  <2>1. PICK t \in Exact(next) : IsFirst(t, Exact(next)) /\ Take(t, "matched")
    BY <1>3 DEF MatchExact
  <2> QED BY <1>1, <1>3, <2>1, TakeInv, CandidateFacts DEF MatchExact
<1>4. CASE MatchByDate
  <2>1. PICK t \in ByDate(next) : Take(t, "amount_mismatch")
    BY <1>4 DEF MatchByDate
  <2> QED BY <1>1, <1>4, <2>1, TakeInv, CandidateFacts DEF MatchByDate
<1>5. CASE MatchByAmount
  <2>1. PICK t \in ByAmount(next) : Take(t, "date_mismatch")
    BY <1>5 DEF MatchByAmount
  <2> QED BY <1>1, <1>5, <2>1, TakeInv, CandidateFacts DEF MatchByAmount
<1>6. CASE Unmatched
  <2>1. next \in 1..Len(evidences) BY <1>1, <1>6 DEF Unmatched
  <2>2. \A t \in available :
          /\ ~SameAmount(next, t)
          /\ SameDate(next, t) =>
               evidences[next].amount # 0 /\ ~Plausible(next, t)
    BY <1>1, <1>6, <2>1, NoCandidate DEF Unmatched
  <2> QED BY <1>6, <2>1, <2>2, LeaveInv DEF Unmatched
<1>7. CASE Leftovers
  BY <1>7, LeftoversInv
<1>8. CASE UNCHANGED vars
  BY <1>8
  DEF vars, IInv, NoEmptyRow, TypeOK, Result, Covered, Finished, OneToOne, LabelsAreTrue,
      NothingOverlooked, NoExactLeft, TwinsPairInOrder, SameDate, SameAmount,
      Complete, Plausible, Gap, Abs
<1> QED BY <1>2, <1>3, <1>4, <1>5, <1>6, <1>7, <1>8 DEF Next

LEMMA Invariance == Spec => []IInv
<1>1. Init => IInv BY InitInv
<1>2. IInv /\ [Next]_vars => IInv' BY NextInv
<1> QED BY <1>1, <1>2, PTL DEF Spec

-----------------------------------------------------------------------------
(* The theorems.                                                            *)

\* The run stays within its two lists (the loop of run_reconciliation).
THEOREM TypeCorrect == Spec => []TypeOK
<1>1. IInv => TypeOK BY DEF IInv
<1> QED BY <1>1, Invariance, PTL

\* No evidence and no transaction gets two rows in one run, because a matched
\* transaction leaves the list (available_bank.remove).
THEOREM OneRowEach == Spec => []OneToOne
<1>1. IInv => OneToOne BY DEF IInv
<1> QED BY <1>1, Invariance, PTL

\* Every loaded evidence and every loaded transaction is in the report, once:
\* the branches of the loop are exhaustive and the rest is reported.
THEOREM ReportIsMade == Spec => []MakesAReport
<1>1. IInv => MakesAReport
  <2> SUFFICES ASSUME IInv, Finished
               PROVE  IsReport({<<r.evidence, r.tx>> : r \in results},
                               1..Len(evidences), 1..Len(bank), NULL)
    BY DEF MakesAReport
  <2> DEFINE rows == {<<r.evidence, r.tx>> : r \in results}
  <2>1. next = Len(evidences) + 2 /\ Len(evidences) \in Nat
    BY ListFacts DEF IInv, Finished
  <2>2. ASSUME NEW e \in 1..Len(evidences) PROVE \E row \in rows : row[1] = e
    <3>1. PICK r \in results : r.evidence = e BY <2>1 DEF IInv, Covered
    <3>2. <<r.evidence, r.tx>> \in rows BY <3>1
    <3> QED BY <3>1, <3>2
  <2>3. ASSUME NEW t \in 1..Len(bank) PROVE \E row \in rows : row[2] = t
    <3>1. PICK r \in results : r.tx = t BY DEF IInv, Covered
    <3>2. <<r.evidence, r.tx>> \in rows BY <3>1
    <3> QED BY <3>1, <3>2
  <2>4. \A a, b \in rows : /\ a[1] = b[1] /\ a[1] # NULL => a = b
                           /\ a[2] = b[2] /\ a[2] # NULL => a = b
    BY DEF IInv, OneToOne
  <2>5. rows \subseteq (((1..Len(evidences)) \cup {NULL}) \X ((1..Len(bank)) \cup {NULL}))
                         \ {<<NULL, NULL>>}
    BY DEF IInv, TypeOK, Result, NoEmptyRow
  <2> QED BY <2>2, <2>3, <2>4, <2>5 DEF IsReport
<1> QED BY <1>1, Invariance, PTL

\* MATCHED, AMOUNT_MISMATCH and DATE_MISMATCH mean what they say: the partial
\* matches are only tried when there is no exact one.
THEOREM TrueLabels == Spec => []LabelsAreTrue
<1>1. IInv => LabelsAreTrue BY DEF IInv
<1> QED BY <1>1, Invariance, PTL

\* What is reported missing on both sides could not have been paired
\* (_find_partial tries every available row of the same day or amount).
THEOREM NoMissedPair == Spec => []NothingOverlooked
<1>1. IInv => NothingOverlooked BY DEF IInv
<1> QED BY <1>1, Invariance, PTL

\* Same-date same-amount evidences are paired in the order of their upload
\* with the rows in the order of their import, as the docstring says.
THEOREM TwinsInOrder == Spec => []TwinsPairInOrder
<1>1. IInv => TwinsPairInOrder BY DEF IInv
<1> QED BY <1>1, Invariance, PTL
=============================================================================
