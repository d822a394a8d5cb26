---------------------- MODULE ReconciliationRuns_proofs ----------------------
(***************************************************************************)
(* For any number of requests, evidences, statements and transactions:     *)
(* only overlapping runs mix their rows, and no evidence drops out of the  *)
(* report.                                                                 *)
(*                                                                         *)
(* The second needs Guarded: of the rows of an evidence one is safe from   *)
(* every run under way, because the run either did not find it or will     *)
(* replace it.  That several rows exist is not enough, since each could be *)
(* deleted by another run.                                                 *)
(***************************************************************************)
EXTENDS ReconciliationRuns, TLAPS

Working == {"wiped", "read", "matched"}

\* Where a handler stands fits what it was asked for.
PhasesFit ==
  \A r \in Requests :
    /\ pc[r] = "idle" => op[r] = NULL
    /\ pc[r] = "deleting" => op[r] \in {"run", "remove", "drop"}
    /\ pc[r] \in Working \cup {"committed"} => op[r] = "run"
    /\ pc[r] = "checked" => op[r] = "override"
    /\ pc[r] = "deleting" /\ op[r] = "remove" => target[r] \in Evidences
    /\ pc[r] = "deleting" /\ op[r] = "drop" => target[r] \in Statements
    /\ pc[r] = "checked" => target[r] \in Adjustment

\* Rows are told apart by their ids and stem from runs that committed.
RowsHaveRuns ==
  /\ \A a, b \in results : a.id = b.id => a = b
  /\ \A row \in results : Committed(row.id.run)
  /\ \A r \in Requests : \A i \in snap[r] : Committed(i.run)

\* A run under way has found every row of the runs committed before it.
OldRowsFound ==
  \A r \in Requests :
    /\ \A q \in before[r] : Committed(q)
    /\ op[r] = "run" /\ pc[r] \in Working \cup {"deleting"} =>
         \A row \in results : row.id.run \in before[r] => row.id \in snap[r]

\* What runs are held to is reconcilable, and loaded by those under way.
OwedIsLoaded ==
  \A r \in Requests :
    /\ \A e \in owed[r] : evidence[e] = "eligible"
    /\ pc[r] \in {"read", "matched"} => owed[r] \subseteq evs[r]

\* Every evidence a committed run is held to has a row that no run under way
\* will delete without replacing it.
Guarded ==
  \A q \in Requests : Committed(q) =>
    \A e \in owed[q] : \E row \in results :
      /\ row.evidence = e
      /\ \A r \in Requests :
           pc[r] \in {"read", "matched"} /\ row.id \in snap[r] => e \in owed[r]

IInv ==
  /\ TypeOK
  /\ PhasesFit
  /\ RowsHaveRuns
  /\ OldRowsFound
  /\ OwedIsLoaded
  /\ Guarded
  /\ OnlyOverlapsMix

-----------------------------------------------------------------------------
(* What the composite actions do, once their cases are told apart.          *)

LEMMA EndsFacts ==
  ASSUME TypeOK, NEW r \in Requests,
         \E phase \in {"done", "failed"} : Ends(r, phase)
  PROVE  /\ pc' \in [Requests -> Phase]
         /\ snap' \in [Requests -> SUBSET RowId]
         /\ evs' \in [Requests -> SUBSET Evidences]
         /\ txs' \in [Requests -> SUBSET Transactions]
         /\ target' \in [Requests ->
              Evidences \cup Statements \cup Adjustment \cup {NULL}]
         /\ pc'[r] \in {"done", "failed"} /\ snap'[r] = {}
         /\ \A q \in Requests \ {r} :
              /\ pc'[q] = pc[q] /\ snap'[q] = snap[q] /\ evs'[q] = evs[q]
              /\ target'[q] = target[q]
BY DEF Ends, TypeOK, Phase

LEMMA FinishRemoveCases ==
  ASSUME NEW r \in Requests, FinishRemove(r)
  PROVE  /\ pc[r] = "deleting" /\ op[r] = "remove" /\ \E phase \in {"done", "failed"} : Ends(r, phase)
         /\ UNCHANGED <<statement, op, before>>
         /\ \/ /\ \A row \in About(target[r]) : row.id \in snap[r]
               /\ results' = results \ About(target[r])
               /\ evidence' = [evidence EXCEPT ![target[r]] = "removed"]
               /\ owed' = [q \in Requests |-> owed[q] \ {target[r]}]
            \/ UNCHANGED <<results, evidence, owed>>
BY DEF FinishRemove, About

LEMMA FinishDropCases ==
  ASSUME NEW r \in Requests, FinishDrop(r)
  PROVE  /\ pc[r] = "deleting" /\ op[r] = "drop" /\ \E phase \in {"done", "failed"} : Ends(r, phase)
         /\ UNCHANGED <<evidence, op, before>>
         /\ \/ /\ \A row \in From(target[r]) : row.id \in snap[r]
               /\ results' = results \ From(target[r])
               /\ statement' = [statement EXCEPT ![target[r]] = "deleted"]
               /\ owed' = OwedWithout({row.evidence : row \in From(target[r])})
            \/ UNCHANGED <<results, statement, owed>>
BY DEF FinishDrop, From

\* The row an adjustment is about is unique, and only its links change.
LEMMA FinishOverrideCases ==
  ASSUME TypeOK, PhasesFit, RowsHaveRuns, NEW r \in Requests, FinishOverride(r)
  PROVE  /\ pc[r] = "checked" /\ op[r] = "override" /\ \E phase \in {"done", "failed"} : Ends(r, phase)
         /\ UNCHANGED <<evidence, statement, op, before>>
         /\ \/ \E old \in results, new \in Row :
                 /\ new.id = old.id /\ Linked(new)
                 /\ results' = (results \ {old}) \cup {new}
                 /\ owed' = OwedWithout({old.evidence} \ {new.evidence})
            \/ UNCHANGED <<results, owed>>
<1> DEFINE change == target[r]
           olds == {row \in results : row.id = change.id}
           news == {Adjusted(row, change) : row \in olds}
<1>1. change \in Adjustment /\ pc[r] = "checked" /\ op[r] = "override"
  BY DEF FinishOverride, PhasesFit
<1>2. /\ \E phase \in {"done", "failed"} : Ends(r, phase)
      /\ UNCHANGED <<evidence, statement, op, before>>
  BY DEF FinishOverride
<1>3. CASE olds # {} /\ \A row \in news : Linked(row)
  <2>1. /\ results' = (results \ olds) \cup news
        /\ owed' = OwedWithout({row.evidence : row \in olds}
                                 \ {row.evidence : row \in news})
    BY <1>3 DEF FinishOverride
  <2>2. PICK old \in olds : TRUE BY <1>3
  <2>3. old \in results /\ old \in Row BY <2>2 DEF TypeOK
  <2>4. \A row \in olds : row = old BY <2>2 DEF RowsHaveRuns
  <2>5. olds = {old} BY <2>2, <2>4
  <2> DEFINE new == Adjusted(old, change)
  <2>6. news = {new} BY <2>5
  <2>7. new \in Row /\ new.id = old.id
    <3>1. /\ Set(old.evidence, change.evidence) \in Evidences \cup {NULL}
          /\ Set(old.tx, change.tx) \in Transactions \cup {NULL}
      BY <1>1, <2>3 DEF Set, Adjustment, Row
    <3> QED BY <2>3, <3>1 DEF Adjusted, Row
  <2>8. Linked(new) BY <1>3, <2>6
  <2> HIDE DEF olds, news, new
  <2>9. {row.evidence : row \in olds} \ {row.evidence : row \in news} =
          {old.evidence} \ {new.evidence}
    BY <2>5, <2>6
  <2> QED BY <1>1, <1>2, <2>1, <2>3, <2>5, <2>6, <2>7, <2>8, <2>9
<1>4. CASE ~(olds # {} /\ \A row \in news : Linked(row))
  <2>1. UNCHANGED <<results, owed>>
    BY <1>4 DEF FinishOverride
  <2> QED BY <1>1, <1>2, <2>1
<1> QED BY <1>3, <1>4

\* A committing run replaces what it found by one row per evidence it loaded,
\* none of which was on record.
LEMMA CommitRunCases ==
  ASSUME TypeOK, PhasesFit, RowsHaveRuns, NEW r \in Requests, CommitRun(r)
  PROVE  \E new \in SUBSET Row :
           /\ pc[r] = "matched" /\ op[r] = "run"
           /\ results' = {row \in results : row.id \notin snap[r]} \cup new
           /\ snap' = [snap EXCEPT ![r] = Ids(new)]
           /\ \A row \in new : Linked(row) /\ row.id.run = r
           /\ \A a, b \in new : a.id = b.id => a = b
           /\ \A e \in evs[r] : \E row \in new : row.evidence = e
           /\ pc' = [pc EXCEPT ![r] = "committed"]
           /\ evs' = [evs EXCEPT ![r] = {}]
           /\ txs' = [txs EXCEPT ![r] = {}]
           /\ UNCHANGED <<evidence, statement, op, target, before, owed>>
<1>1. PICK report \in SUBSET Links :
        /\ IsReport(report, evs[r], txs[r], NULL)
        /\ \A l \in report : MayLink(l[1], l[2])
        /\ results' = {row \in results : row.id \notin snap[r]}
                        \cup NewRows(r, report)
        /\ snap' = [snap EXCEPT ![r] = Ids(NewRows(r, report))]
  BY DEF CommitRun
<1> DEFINE row(l) == [id |-> [run |-> r, links |-> l], evidence |-> l[1], tx |-> l[2]]
<1>2. NewRows(r, report) = {row(l) : l \in report} BY DEF NewRows
<1>3. \A l \in report : /\ row(l) \in Row /\ row(l).id.run = r
                        /\ row(l).id.links = l /\ Linked(row(l))
                        /\ row(l).evidence = l[1]
  BY <1>1 DEF Links, Row, RowId, Linked
<1>4. \A e \in evs[r] : \E l \in report : l[1] = e BY <1>1 DEF IsReport
<1> HIDE DEF row
<1> DEFINE new == NewRows(r, report)
<1>5. /\ new \in SUBSET Row
      /\ \A x \in new : Linked(x) /\ x.id.run = r
      /\ \A a, b \in new : a.id = b.id => a = b
      /\ \A e \in evs[r] : \E x \in new : x.evidence = e
  <2>1. \A x \in new : x \in Row /\ Linked(x) /\ x.id.run = r BY <1>2, <1>3
  <2>2. ASSUME NEW a \in new, NEW b \in new, a.id = b.id PROVE a = b
    <3>1. PICK k \in report, l \in report : a = row(k) /\ b = row(l) BY <1>2
    <3>2. k = l BY <1>3, <2>2, <3>1
    <3> QED BY <3>1, <3>2
  <2>3. \A e \in evs[r] : \E x \in new : x.evidence = e BY <1>2, <1>3, <1>4
  <2> QED BY <2>1, <2>2, <2>3
<1> HIDE DEF new
<1>6. /\ results' = {x \in results : x.id \notin snap[r]} \cup new
      /\ snap' = [snap EXCEPT ![r] = Ids(new)]
  BY <1>1 DEF new
<1>7. /\ pc[r] = "matched" /\ op[r] = "run"
      /\ pc' = [pc EXCEPT ![r] = "committed"]
      /\ evs' = [evs EXCEPT ![r] = {}]
      /\ txs' = [txs EXCEPT ![r] = {}]
      /\ UNCHANGED <<evidence, statement, op, target, before, owed>>
  BY DEF CommitRun, requestVars, PhasesFit, Working
<1> QED BY <1>5, <1>6, <1>7

-----------------------------------------------------------------------------
(* Every action preserves the inductive invariant.                          *)

LEMMA InitInv == Init => IInv
<1> SUFFICES ASSUME Init PROVE IInv OBVIOUS
<1>1. TypeOK BY DEF Init, TypeOK, Row, Phase, EvidenceState, StatementState
<1>2. PhasesFit BY DEF Init, PhasesFit, Working
<1>3. RowsHaveRuns BY DEF Init, RowsHaveRuns
<1>4. OldRowsFound BY DEF Init, OldRowsFound
<1>5. OwedIsLoaded BY DEF Init, OwedIsLoaded
<1>6. Guarded BY DEF Init, Guarded
<1>7. OnlyOverlapsMix BY DEF Init, OnlyOverlapsMix
<1> QED BY <1>1, <1>2, <1>3, <1>4, <1>5, <1>6, <1>7 DEF IInv

\* The DELETE of a run finds every row there is.
LEMMA StartRunInv ==
  ASSUME IInv, NEW r \in Requests, StartRun(r)
  PROVE  IInv'
<1>1. TypeOK /\ PhasesFit /\ RowsHaveRuns /\ OldRowsFound /\ OwedIsLoaded
      /\ Guarded /\ OnlyOverlapsMix
  BY DEF IInv
<1>0. Ids(results) \subseteq RowId /\ \A i \in Ids(results) : Committed(i.run)
  BY <1>1 DEF Ids, Row, TypeOK, RowsHaveRuns
<1>2. TypeOK'
  BY <1>0, <1>1 DEF StartRun, Ends, requestVars, TypeOK, Phase, HasEvidence, HasTransaction, AllOps
<1>3. PhasesFit'
  BY <1>1 DEF StartRun, Ends, requestVars, PhasesFit, TypeOK, Working
<1>4. RowsHaveRuns'
  BY <1>0, <1>1 DEF StartRun, Ends, requestVars, RowsHaveRuns, PhasesFit, TypeOK, Committed, Working
<1>5. OldRowsFound'
  BY <1>1 DEF StartRun, Ends, requestVars, OldRowsFound, PhasesFit, TypeOK, Committed, Ids, Working
<1>6. OwedIsLoaded'
  BY <1>1 DEF StartRun, Ends, requestVars, OwedIsLoaded, PhasesFit, TypeOK, Working
<1>7. Guarded'
  BY <1>0, <1>1 DEF StartRun, Ends, requestVars, Guarded, OwedIsLoaded, PhasesFit, TypeOK, Committed, Working
<1>8. OnlyOverlapsMix'
  BY <1>1 DEF StartRun, Ends, requestVars, OnlyOverlapsMix, RowsHaveRuns, OldRowsFound, TypeOK, Committed
<1> QED
  BY <1>2, <1>3, <1>4, <1>5, <1>6, <1>7, <1>8 DEF IInv

\* Of the rows found those still there are held.
LEMMA FinishWipeInv ==
  ASSUME IInv, NEW r \in Requests, FinishWipe(r)
  PROVE  IInv'
<1>1. TypeOK /\ PhasesFit /\ RowsHaveRuns /\ OldRowsFound /\ OwedIsLoaded
      /\ Guarded /\ OnlyOverlapsMix
  BY DEF IInv
<1>2. TypeOK'
  BY <1>1 DEF FinishWipe, Ends, requestVars, TypeOK, Phase, HasEvidence, HasTransaction, AllOps, Ids
<1>3. PhasesFit'
  BY <1>1 DEF FinishWipe, Ends, requestVars, PhasesFit, TypeOK, Working
<1>4. RowsHaveRuns'
  BY <1>1 DEF FinishWipe, Ends, requestVars, RowsHaveRuns, PhasesFit, TypeOK, Committed, Working, Ids
<1>5. OldRowsFound'
  BY <1>1 DEF FinishWipe, Ends, requestVars, OldRowsFound, PhasesFit, TypeOK, Committed, Ids, Working
<1>6. OwedIsLoaded'
  BY <1>1 DEF FinishWipe, Ends, requestVars, OwedIsLoaded, PhasesFit, TypeOK, Working
<1>7. Guarded'
  BY <1>1 DEF FinishWipe, Ends, requestVars, Guarded, OwedIsLoaded, PhasesFit, TypeOK, Committed, Working
<1>8. OnlyOverlapsMix'
  BY <1>1 DEF FinishWipe, Ends, requestVars, OnlyOverlapsMix, RowsHaveRuns, OldRowsFound, TypeOK, Committed
<1> QED
  BY <1>2, <1>3, <1>4, <1>5, <1>6, <1>7, <1>8 DEF IInv

\* A run loads what is reconcilable, so all that others are held to.
LEMMA ReadEvidencesInv ==
  ASSUME IInv, NEW r \in Requests, ReadEvidences(r)
  PROVE  IInv'
<1>1. TypeOK /\ PhasesFit /\ RowsHaveRuns /\ OldRowsFound /\ OwedIsLoaded
      /\ Guarded /\ OnlyOverlapsMix
  BY DEF IInv
<1>2. TypeOK'
  BY <1>1 DEF ReadEvidences, Ends, requestVars, TypeOK, Phase, HasEvidence, HasTransaction, AllOps, Ids
<1>3. PhasesFit'
  BY <1>1 DEF ReadEvidences, Ends, requestVars, PhasesFit, TypeOK, Working
<1>4. RowsHaveRuns'
  BY <1>1 DEF ReadEvidences, Ends, requestVars, RowsHaveRuns, PhasesFit, TypeOK, Committed, Working, Ids
<1>5. OldRowsFound'
  BY <1>1 DEF ReadEvidences, Ends, requestVars, OldRowsFound, PhasesFit, TypeOK, Committed, Ids, Working
<1>6. OwedIsLoaded'
  BY <1>1 DEF ReadEvidences, Ends, requestVars, OwedIsLoaded, PhasesFit, TypeOK, Working
<1>7. Guarded'
  BY <1>1 DEF ReadEvidences, Ends, requestVars, Guarded, OwedIsLoaded, PhasesFit, TypeOK, Committed, Working
<1>8. OnlyOverlapsMix'
  BY <1>1 DEF ReadEvidences, Ends, requestVars, OnlyOverlapsMix, RowsHaveRuns, OldRowsFound, TypeOK, Committed
<1> QED
  BY <1>2, <1>3, <1>4, <1>5, <1>6, <1>7, <1>8 DEF IInv

LEMMA ReadBankInv ==
  ASSUME IInv, NEW r \in Requests, ReadBank(r)
  PROVE  IInv'
<1>1. TypeOK /\ PhasesFit /\ RowsHaveRuns /\ OldRowsFound /\ OwedIsLoaded
      /\ Guarded /\ OnlyOverlapsMix
  BY DEF IInv
<1>2. TypeOK'
  BY <1>1 DEF ReadBank, Ends, requestVars, TypeOK, Phase, HasEvidence, HasTransaction, AllOps, Ids
<1>3. PhasesFit'
  BY <1>1 DEF ReadBank, Ends, requestVars, PhasesFit, TypeOK, Working
<1>4. RowsHaveRuns'
  BY <1>1 DEF ReadBank, Ends, requestVars, RowsHaveRuns, PhasesFit, TypeOK, Committed, Working, Ids
<1>5. OldRowsFound'
  BY <1>1 DEF ReadBank, Ends, requestVars, OldRowsFound, PhasesFit, TypeOK, Committed, Ids, Working
<1>6. OwedIsLoaded'
  BY <1>1 DEF ReadBank, Ends, requestVars, OwedIsLoaded, PhasesFit, TypeOK, Working
<1>7. Guarded'
  BY <1>1 DEF ReadBank, Ends, requestVars, Guarded, OwedIsLoaded, PhasesFit, TypeOK, Committed, Working
<1>8. OnlyOverlapsMix'
  BY <1>1 DEF ReadBank, Ends, requestVars, OnlyOverlapsMix, RowsHaveRuns, OldRowsFound, TypeOK, Committed
<1> QED
  BY <1>2, <1>3, <1>4, <1>5, <1>6, <1>7, <1>8 DEF IInv

LEMMA CommitFailsInv ==
  ASSUME IInv, NEW r \in Requests, CommitFails(r)
  PROVE  IInv'
<1>1. TypeOK /\ PhasesFit /\ RowsHaveRuns /\ OldRowsFound /\ OwedIsLoaded
      /\ Guarded /\ OnlyOverlapsMix
  BY DEF IInv
<1>2. TypeOK'
  BY <1>1 DEF CommitFails, Ends, requestVars, TypeOK, Phase, HasEvidence, HasTransaction, AllOps, Ids
<1>3. PhasesFit'
  BY <1>1 DEF CommitFails, Ends, requestVars, PhasesFit, TypeOK, Working
<1>4. RowsHaveRuns'
  BY <1>1 DEF CommitFails, Ends, requestVars, RowsHaveRuns, PhasesFit, TypeOK, Committed, Working, Ids
<1>5. OldRowsFound'
  BY <1>1 DEF CommitFails, Ends, requestVars, OldRowsFound, PhasesFit, TypeOK, Committed, Ids, Working
<1>6. OwedIsLoaded'
  BY <1>1 DEF CommitFails, Ends, requestVars, OwedIsLoaded, PhasesFit, TypeOK, Working
<1>7. Guarded'
  BY <1>1 DEF CommitFails, Ends, requestVars, Guarded, OwedIsLoaded, PhasesFit, TypeOK, Committed, Working
<1>8. OnlyOverlapsMix'
  BY <1>1 DEF CommitFails, Ends, requestVars, OnlyOverlapsMix, RowsHaveRuns, OldRowsFound, TypeOK, Committed
<1> QED
  BY <1>2, <1>3, <1>4, <1>5, <1>6, <1>7, <1>8 DEF IInv

LEMMA RefreshInv ==
  ASSUME IInv, NEW r \in Requests, Refresh(r)
  PROVE  IInv'
<1>1. TypeOK /\ PhasesFit /\ RowsHaveRuns /\ OldRowsFound /\ OwedIsLoaded
      /\ Guarded /\ OnlyOverlapsMix
  BY DEF IInv
<1>2. TypeOK'
  BY <1>1 DEF Refresh, Ends, requestVars, TypeOK, Phase, HasEvidence, HasTransaction, AllOps, Ids
<1>3. PhasesFit'
  BY <1>1 DEF Refresh, Ends, requestVars, PhasesFit, TypeOK, Working
<1>4. RowsHaveRuns'
  BY <1>1 DEF Refresh, Ends, requestVars, RowsHaveRuns, PhasesFit, TypeOK, Committed, Working, Ids
<1>5. OldRowsFound'
  BY <1>1 DEF Refresh, Ends, requestVars, OldRowsFound, PhasesFit, TypeOK, Committed, Ids, Working
<1>6. OwedIsLoaded'
  BY <1>1 DEF Refresh, Ends, requestVars, OwedIsLoaded, PhasesFit, TypeOK, Working
<1>7. Guarded'
  BY <1>1 DEF Refresh, Ends, requestVars, Guarded, OwedIsLoaded, PhasesFit, TypeOK, Committed, Working
<1>8. OnlyOverlapsMix'
  BY <1>1 DEF Refresh, Ends, requestVars, OnlyOverlapsMix, RowsHaveRuns, OldRowsFound, TypeOK, Committed
<1> QED
  BY <1>2, <1>3, <1>4, <1>5, <1>6, <1>7, <1>8 DEF IInv

LEMMA StartRemoveInv ==
  ASSUME IInv, NEW r \in Requests, NEW e \in Evidences, StartRemove(r, e)
  PROVE  IInv'
<1>1. TypeOK /\ PhasesFit /\ RowsHaveRuns /\ OldRowsFound /\ OwedIsLoaded
      /\ Guarded /\ OnlyOverlapsMix
  BY DEF IInv
<1>0. Ids(About(e)) \subseteq RowId /\ \A i \in Ids(About(e)) : Committed(i.run)
  BY <1>1 DEF Ids, Row, TypeOK, RowsHaveRuns, About
<1>2. TypeOK'
  BY <1>0, <1>1 DEF StartRemove, Ends, requestVars, TypeOK, Phase, HasEvidence, HasTransaction, AllOps
<1>3. PhasesFit'
  BY <1>1 DEF StartRemove, Ends, requestVars, PhasesFit, TypeOK, Working
<1>4. RowsHaveRuns'
  BY <1>0, <1>1 DEF StartRemove, Ends, requestVars, RowsHaveRuns, PhasesFit, TypeOK, Committed, Working
<1>5. OldRowsFound'
  BY <1>1 DEF StartRemove, Ends, requestVars, OldRowsFound, PhasesFit, TypeOK, Committed, Ids, Working, About
<1>6. OwedIsLoaded'
  BY <1>1 DEF StartRemove, Ends, requestVars, OwedIsLoaded, PhasesFit, TypeOK, Working
<1>7. Guarded'
  BY <1>0, <1>1 DEF StartRemove, Ends, requestVars, Guarded, OwedIsLoaded, PhasesFit, TypeOK, Committed, Working
<1>8. OnlyOverlapsMix'
  BY <1>1 DEF StartRemove, Ends, requestVars, OnlyOverlapsMix, RowsHaveRuns, OldRowsFound, TypeOK, Committed
<1> QED
  BY <1>2, <1>3, <1>4, <1>5, <1>6, <1>7, <1>8 DEF IInv

LEMMA StartDropInv ==
  ASSUME IInv, NEW r \in Requests, NEW s \in Statements, StartDrop(r, s)
  PROVE  IInv'
<1>1. TypeOK /\ PhasesFit /\ RowsHaveRuns /\ OldRowsFound /\ OwedIsLoaded
      /\ Guarded /\ OnlyOverlapsMix
  BY DEF IInv
<1>9. /\ pc[r] = "idle" /\ pc' = [pc EXCEPT ![r] = "deleting"]
      /\ op' = [op EXCEPT ![r] = "drop"]
      /\ snap' = [snap EXCEPT ![r] = Ids(From(s))]
      /\ UNCHANGED <<results, owed, before>>
  BY DEF StartDrop
<1>0. Ids(From(s)) \subseteq RowId /\ \A i \in Ids(From(s)) : Committed(i.run)
  BY <1>1 DEF Ids, Row, TypeOK, RowsHaveRuns, From
<1>2. TypeOK'
  BY <1>0, <1>1 DEF StartDrop, Ends, requestVars, TypeOK, Phase, HasEvidence, HasTransaction, AllOps
<1>3. PhasesFit'
  BY <1>1 DEF StartDrop, Ends, requestVars, PhasesFit, TypeOK, Working
<1>4. RowsHaveRuns'
  BY <1>0, <1>1, <1>9 DEF RowsHaveRuns, PhasesFit, TypeOK, Committed
<1>5. OldRowsFound'
  BY <1>1 DEF StartDrop, Ends, requestVars, OldRowsFound, PhasesFit, TypeOK, Committed, Ids, Working, From
<1>6. OwedIsLoaded'
  BY <1>1 DEF StartDrop, Ends, requestVars, OwedIsLoaded, PhasesFit, TypeOK, Working
<1>7. Guarded'
  BY <1>1, <1>9 DEF Guarded, TypeOK, Committed
<1>8. OnlyOverlapsMix'
  BY <1>1 DEF StartDrop, Ends, requestVars, OnlyOverlapsMix, RowsHaveRuns, OldRowsFound, TypeOK, Committed
<1> QED
  BY <1>2, <1>3, <1>4, <1>5, <1>6, <1>7, <1>8 DEF IInv

\* A request that fails leaves nothing and is held to nothing.
LEMMA FailInv ==
  ASSUME IInv, NEW r \in Requests, Fail(r)
  PROVE  IInv'
<1>1. TypeOK /\ PhasesFit /\ RowsHaveRuns /\ OldRowsFound /\ OwedIsLoaded
      /\ Guarded /\ OnlyOverlapsMix
  BY DEF IInv
<1>2. TypeOK'
  BY <1>1 DEF Fail, Ends, requestVars, TypeOK, Phase, HasEvidence, HasTransaction, AllOps, Ids
<1>3. PhasesFit'
  BY <1>1 DEF Fail, Ends, requestVars, PhasesFit, TypeOK, Working
<1>4. RowsHaveRuns'
  BY <1>1 DEF Fail, Ends, requestVars, RowsHaveRuns, PhasesFit, TypeOK, Committed, Working, Ids
<1>5. OldRowsFound'
  BY <1>1 DEF Fail, Ends, requestVars, OldRowsFound, PhasesFit, TypeOK, Committed, Ids, Working
<1>6. OwedIsLoaded'
  BY <1>1 DEF Fail, Ends, requestVars, OwedIsLoaded, PhasesFit, TypeOK, Working
<1>7. Guarded'
  BY <1>1 DEF Fail, Ends, requestVars, Guarded, OwedIsLoaded, PhasesFit, TypeOK, Committed, Working
<1>8. OnlyOverlapsMix'
  BY <1>1 DEF Fail, Ends, requestVars, OnlyOverlapsMix, RowsHaveRuns, OldRowsFound, TypeOK, Committed
<1> QED
  BY <1>2, <1>3, <1>4, <1>5, <1>6, <1>7, <1>8 DEF IInv

LEMMA StartOverrideInv ==
  ASSUME IInv, NEW r \in Requests, NEW row \in results,
         NEW e \in Evidences \cup {NULL}, NEW t \in Transactions \cup {NULL},
         StartOverride(r, row, e, t)
  PROVE  IInv'
<1>1. TypeOK /\ PhasesFit /\ RowsHaveRuns /\ OldRowsFound /\ OwedIsLoaded
      /\ Guarded /\ OnlyOverlapsMix
  BY DEF IInv
<1> DEFINE change == [id |-> row.id, evidence |-> {e} \ {row.evidence},
                      tx |-> {t} \ {row.tx}]
<1>2. change \in Adjustment BY <1>1 DEF TypeOK, Row, Adjustment
<1> HIDE DEF change
<1>3. /\ pc[r] = "idle" /\ pc' = [pc EXCEPT ![r] = "checked"]
      /\ op' = [op EXCEPT ![r] = "override"]
      /\ target' = [target EXCEPT ![r] = change]
      /\ UNCHANGED <<evidence, statement, results, snap, evs, txs, before, owed>>
  BY DEF StartOverride, change
<1>4. TypeOK' BY <1>1, <1>2, <1>3 DEF TypeOK, Phase, AllOps, HasEvidence, HasTransaction
<1>5. PhasesFit' BY <1>1, <1>2, <1>3 DEF PhasesFit, TypeOK, Working
<1>6. RowsHaveRuns' BY <1>1, <1>3 DEF RowsHaveRuns, PhasesFit, TypeOK, Committed
<1>7. OldRowsFound'
  BY <1>1, <1>3 DEF OldRowsFound, PhasesFit, TypeOK, Committed, Working
<1>8. OwedIsLoaded' BY <1>1, <1>3 DEF OwedIsLoaded, TypeOK
<1>9. Guarded' BY <1>1, <1>3 DEF Guarded, TypeOK, Committed
<1>10. OnlyOverlapsMix' BY <1>1, <1>3 DEF OnlyOverlapsMix
<1> QED
  BY <1>4, <1>5, <1>6, <1>7, <1>8, <1>9, <1>10 DEF IInv

\* The new rows are nobody's prey: their run had not committed when the others
\* looked.
LEMMA CommitRunInv ==
  ASSUME IInv, NEW r \in Requests, CommitRun(r)
  PROVE  IInv'
<1>1. TypeOK /\ PhasesFit /\ RowsHaveRuns /\ OldRowsFound /\ OwedIsLoaded
      /\ Guarded /\ OnlyOverlapsMix
  BY DEF IInv
<1>2. PICK new \in SUBSET Row :
        /\ pc[r] = "matched" /\ op[r] = "run"
        /\ results' = {row \in results : row.id \notin snap[r]} \cup new
        /\ snap' = [snap EXCEPT ![r] = Ids(new)]
        /\ \A row \in new : Linked(row) /\ row.id.run = r
        /\ \A a, b \in new : a.id = b.id => a = b
        /\ \A e \in evs[r] : \E row \in new : row.evidence = e
        /\ pc' = [pc EXCEPT ![r] = "committed"]
        /\ evs' = [evs EXCEPT ![r] = {}]
        /\ txs' = [txs EXCEPT ![r] = {}]
        /\ UNCHANGED <<evidence, statement, op, target, before, owed>>
  BY <1>1, CommitRunCases
<1> DEFINE kept == {row \in results : row.id \notin snap[r]}
<1>3. /\ Ids(new) \subseteq RowId /\ \A i \in Ids(new) : i.run = r
      /\ \A row \in new : row.id \in Ids(new)
  BY <1>2 DEF Ids, Row
<1>4. /\ ~Committed(r) /\ Committed(r)'
      /\ \A q \in Requests \ {r} : Committed(q)' <=> Committed(q)
  BY <1>1, <1>2 DEF Committed, TypeOK
<1>5. \A row \in kept : row.id.run # r BY <1>1, <1>4 DEF RowsHaveRuns
<1>6. \A q \in Requests : r \notin before[q] BY <1>1, <1>4 DEF OldRowsFound
<1>7. TypeOK'
  <2>1. \A row \in new : /\ row.evidence # NULL => HasEvidence(row.evidence)
                         /\ row.tx # NULL => HasTransaction(row.tx)
    BY <1>2 DEF Linked, MayLink
  <2> QED BY <1>1, <1>2, <1>3, <2>1 DEF TypeOK, Phase, HasEvidence, HasTransaction
<1>8. PhasesFit' BY <1>1, <1>2 DEF PhasesFit, TypeOK, Working
<1>9. RowsHaveRuns'
  <2>1. \A a, b \in results' : a.id = b.id => a = b
    BY <1>1, <1>2, <1>5 DEF RowsHaveRuns
  <2>2. \A row \in results' : Committed(row.id.run)'
    <3>1. \A row \in results : row.id.run \in Requests BY <1>1 DEF TypeOK, Row, RowId
    <3> QED BY <1>1, <1>2, <1>4, <3>1 DEF RowsHaveRuns
  <2>3. \A q \in Requests : \A i \in snap'[q] : Committed(i.run)'
    <3>1. \A q \in Requests : \A i \in snap[q] : i.run \in Requests
      BY <1>1 DEF TypeOK, RowId
    <3> QED BY <1>1, <1>2, <1>3, <1>4, <3>1 DEF RowsHaveRuns, TypeOK
  <2> QED BY <2>1, <2>2, <2>3 DEF RowsHaveRuns
<1>10. OldRowsFound'
  <2> SUFFICES ASSUME NEW q \in Requests
               PROVE  /\ \A p \in before'[q] : Committed(p)'
                      /\ op'[q] = "run" /\ pc'[q] \in Working \cup {"deleting"} =>
                           \A row \in results' :
                             row.id.run \in before'[q] => row.id \in snap'[q]
    BY DEF OldRowsFound
  <2>1. \A p \in before'[q] : Committed(p)'
    BY <1>1, <1>2, <1>4, <1>6 DEF OldRowsFound, TypeOK
  <2>2. ASSUME op'[q] = "run", pc'[q] \in Working \cup {"deleting"},
               NEW row \in results', row.id.run \in before'[q]
        PROVE  row.id \in snap'[q]
    <3>1. q # r BY <1>1, <1>2, <2>2 DEF TypeOK, Working
    <3>2. row \in results BY <1>2, <1>6, <2>2
    <3> QED BY <1>1, <1>2, <2>2, <3>1, <3>2 DEF OldRowsFound, TypeOK
  <2> QED BY <2>1, <2>2
<1>11. OwedIsLoaded' BY <1>1, <1>2 DEF OwedIsLoaded, TypeOK
<1>12. Guarded'
  <2> SUFFICES ASSUME NEW q \in Requests, Committed(q)', NEW e \in owed'[q]
               PROVE  \E row \in results' :
                        /\ row.evidence = e
                        /\ \A p \in Requests :
                             pc'[p] \in {"read", "matched"} /\ row.id \in snap'[p]
                               => e \in owed'[p]
    BY DEF Guarded
  <2>1. e \in owed[q] BY <1>2
  <2>2. ASSUME NEW row \in new, row.evidence = e
        PROVE  \A p \in Requests :
                 pc'[p] \in {"read", "matched"} /\ row.id \in snap'[p]
                   => e \in owed'[p]
    <3> SUFFICES ASSUME NEW p \in Requests, pc'[p] \in {"read", "matched"},
                        row.id \in snap'[p]
                 PROVE  FALSE
      OBVIOUS
    <3>1. p # r /\ snap'[p] = snap[p] BY <1>1, <1>2 DEF TypeOK
    <3>2. Committed(row.id.run) BY <1>1, <3>1 DEF RowsHaveRuns
    <3> QED BY <1>2, <1>4, <3>2
  <2>3. CASE e \in evs[r]
    BY <1>2, <2>2, <2>3
  <2>4. CASE e \notin evs[r]
    <3>1. e \notin owed[r] BY <1>1, <1>2, <2>4 DEF OwedIsLoaded
    <3>2. q # r BY <2>1, <3>1
    <3>3. Committed(q) BY <1>4, <3>2
    <3>4. PICK row \in results :
            /\ row.evidence = e
            /\ \A p \in Requests :
                 pc[p] \in {"read", "matched"} /\ row.id \in snap[p] => e \in owed[p]
      BY <1>1, <2>1, <3>3 DEF Guarded
    <3>5. row \in results' BY <1>2, <3>1, <3>4
    <3> QED BY <1>1, <1>2, <3>4, <3>5 DEF TypeOK
  <2> QED BY <2>3, <2>4
<1>13. OnlyOverlapsMix'
  <2> SUFFICES ASSUME NEW a \in results', NEW b \in results',
                      a.id.run \in before[b.id.run]
               PROVE  FALSE
    BY <1>2 DEF OnlyOverlapsMix
  <2>1. b.id.run \in Requests BY <1>1, <1>2 DEF TypeOK, Row, RowId
  <2>2. a \in kept BY <1>2, <1>6, <2>1
  <2>3. CASE b \in kept BY <1>1, <2>2, <2>3 DEF OnlyOverlapsMix
  <2>4. CASE b \in new
    <3>1. b.id.run = r BY <1>2, <2>4
    <3>2. a.id \in snap[r] BY <1>1, <1>2, <2>2, <3>1 DEF OldRowsFound, Working
    <3> QED BY <2>2, <3>2
  <2> QED BY <1>2, <2>3, <2>4
<1> QED
  BY <1>7, <1>8, <1>9, <1>10, <1>11, <1>12, <1>13 DEF IInv

LEMMA FinishRemoveInv ==
  ASSUME IInv, NEW r \in Requests, FinishRemove(r)
  PROVE  IInv'
<1>1. TypeOK /\ PhasesFit /\ RowsHaveRuns /\ OldRowsFound /\ OwedIsLoaded
      /\ Guarded /\ OnlyOverlapsMix
  BY DEF IInv
<1> DEFINE e == target[r]
<1>2. /\ e \in Evidences /\ pc[r] = "deleting" /\ op[r] = "remove"
      /\ pc' \in [Requests -> Phase]
      /\ snap' \in [Requests -> SUBSET RowId]
      /\ evs' \in [Requests -> SUBSET Evidences]
      /\ txs' \in [Requests -> SUBSET Transactions]
      /\ target' \in [Requests ->
           Evidences \cup Statements \cup Adjustment \cup {NULL}]
      /\ pc'[r] \in {"done", "failed"} /\ snap'[r] = {}
      /\ \A q \in Requests \ {r} :
           /\ pc'[q] = pc[q] /\ snap'[q] = snap[q] /\ evs'[q] = evs[q]
           /\ target'[q] = target[q]
      /\ UNCHANGED <<statement, op, before>>
  BY <1>1, FinishRemoveCases, EndsFacts DEF PhasesFit
<1>3. \/ /\ results' = results \ About(e)
         /\ evidence' = [evidence EXCEPT ![e] = "removed"]
         /\ owed' = [q \in Requests |-> owed[q] \ {e}]
      \/ UNCHANGED <<results, evidence, owed>>
  BY FinishRemoveCases
<1> HIDE DEF e
<1>4. /\ results' \subseteq results
      /\ \A row \in results : row.evidence # e => row \in results'
      /\ \A q \in Requests : owed'[q] \subseteq owed[q]
      /\ \A q \in Requests : \A d \in owed[q] : d # e => d \in owed'[q]
      /\ \A q \in Requests : e \in owed'[q] => UNCHANGED <<results, evidence, owed>>
      /\ owed' \in [Requests -> SUBSET Evidences]
  BY <1>1, <1>3 DEF About, TypeOK
<1>5. \A q \in Requests : Committed(q)' <=> Committed(q)
  BY <1>1, <1>2 DEF Committed, TypeOK
<1>6. TypeOK'
  <2>1. \A row \in results' : row.evidence # NULL => HasEvidence(row.evidence)'
    BY <1>1, <1>2, <1>3 DEF TypeOK, About, HasEvidence, Row
  <2>2. \A row \in results' : row.tx # NULL => HasTransaction(row.tx)'
    BY <1>1, <1>2, <1>4 DEF TypeOK, HasTransaction
  <2>3. evidence' \in [Evidences -> EvidenceState]
    BY <1>1, <1>2, <1>3 DEF TypeOK, EvidenceState
  <2> QED BY <1>1, <1>2, <1>4, <2>1, <2>2, <2>3 DEF TypeOK, Phase
<1>7. PhasesFit' BY <1>1, <1>2 DEF PhasesFit, TypeOK, Working
<1>8. RowsHaveRuns'
  <2>1. \A row \in results : row.id.run \in Requests BY <1>1 DEF TypeOK, Row, RowId
  <2>2. \A q \in Requests : \A i \in snap[q] : i.run \in Requests
    BY <1>1 DEF TypeOK, RowId
  <2> QED BY <1>1, <1>2, <1>4, <1>5, <2>1, <2>2 DEF RowsHaveRuns, TypeOK
<1>9. OldRowsFound'
  BY <1>1, <1>2, <1>4, <1>5 DEF OldRowsFound, TypeOK, Working
<1>10. OwedIsLoaded'
  BY <1>1, <1>2, <1>3, <1>4 DEF OwedIsLoaded, TypeOK
<1>11. Guarded'
  <2> SUFFICES ASSUME NEW q \in Requests, Committed(q)', NEW d \in owed'[q]
               PROVE  \E row \in results' :
                        /\ row.evidence = d
                        /\ \A p \in Requests :
                             pc'[p] \in {"read", "matched"} /\ row.id \in snap'[p]
                               => d \in owed'[p]
    BY DEF Guarded
  <2>1. PICK row \in results :
          /\ row.evidence = d
          /\ \A p \in Requests :
               pc[p] \in {"read", "matched"} /\ row.id \in snap[p] => d \in owed[p]
    BY <1>1, <1>4, <1>5 DEF Guarded
  <2>2. row \in results' BY <1>4, <2>1
  <2>3. \A p \in Requests : d \in owed[p] => d \in owed'[p]
    <3>1. CASE d = e BY <1>4, <3>1
    <3>2. CASE d # e BY <1>4, <3>2
    <3> QED BY <3>1, <3>2
  <2> QED BY <1>2, <2>1, <2>2, <2>3
<1>12. OnlyOverlapsMix'
  BY <1>1, <1>2, <1>4 DEF OnlyOverlapsMix
<1> QED
  BY <1>6, <1>7, <1>8, <1>9, <1>10, <1>11, <1>12 DEF IInv

\* Whoever loses a row with a statement is no longer owed one.
LEMMA FinishDropInv ==
  ASSUME IInv, NEW r \in Requests, FinishDrop(r)
  PROVE  IInv'
<1>1. TypeOK /\ PhasesFit /\ RowsHaveRuns /\ OldRowsFound /\ OwedIsLoaded
      /\ Guarded /\ OnlyOverlapsMix
  BY DEF IInv
<1> DEFINE s == target[r]
           lost == {row.evidence : row \in From(s)}
<1>2. /\ s \in Statements /\ pc[r] = "deleting" /\ op[r] = "drop"
      /\ pc' \in [Requests -> Phase]
      /\ snap' \in [Requests -> SUBSET RowId]
      /\ evs' \in [Requests -> SUBSET Evidences]
      /\ txs' \in [Requests -> SUBSET Transactions]
      /\ target' \in [Requests ->
           Evidences \cup Statements \cup Adjustment \cup {NULL}]
      /\ pc'[r] \in {"done", "failed"} /\ snap'[r] = {}
      /\ \A q \in Requests \ {r} :
           /\ pc'[q] = pc[q] /\ snap'[q] = snap[q] /\ evs'[q] = evs[q]
           /\ target'[q] = target[q]
      /\ UNCHANGED <<evidence, op, before>>
  BY <1>1, FinishDropCases, EndsFacts DEF PhasesFit
<1>3. \/ /\ results' = results \ From(s)
         /\ statement' = [statement EXCEPT ![s] = "deleted"]
         /\ owed' = OwedWithout(lost)
      \/ UNCHANGED <<results, statement, owed>>
  BY FinishDropCases
<1> HIDE DEF s
<1>4. /\ results' \subseteq results
      /\ \A q \in Requests : owed'[q] \subseteq owed[q]
      /\ \A q \in Requests : ~Committed(q) => owed'[q] = owed[q]
      /\ owed' \in [Requests -> SUBSET Evidences]
  BY <1>1, <1>3 DEF TypeOK, OwedWithout
<1>5. \A q \in Requests : \A d \in owed'[q] : Committed(q) =>
        \A row \in results : row.evidence = d => row \in results'
  <2> SUFFICES ASSUME NEW q \in Requests, NEW d \in owed'[q], Committed(q),
                      NEW row \in results, row.evidence = d
               PROVE  row \in results'
    OBVIOUS
  <2>1. CASE UNCHANGED <<results, statement, owed>> BY <2>1
  <2>2. CASE /\ results' = results \ From(s)
             /\ owed' = OwedWithout(lost)
    <3>1. d \notin lost BY <2>2 DEF OwedWithout
    <3>2. row \notin From(s) BY <3>1
    <3> QED BY <2>2, <3>2
  <2> QED BY <1>3, <2>1, <2>2
<1> HIDE DEF lost
<1>6. \A q \in Requests : Committed(q)' <=> Committed(q)
  BY <1>1, <1>2 DEF Committed, TypeOK
<1>7. TypeOK'
  <2>1. \A row \in results' : row.evidence # NULL => HasEvidence(row.evidence)'
    BY <1>1, <1>2, <1>4 DEF TypeOK, HasEvidence
  <2>2. \A row \in results' : row.tx # NULL => HasTransaction(row.tx)'
    <3>1. \A row \in results : row.tx # NULL => StatementOf[row.tx] \in Statements
      BY <1>1, ReconciliationAssumption DEF TypeOK, Row
    <3>2. CASE UNCHANGED <<results, statement, owed>>
      BY <1>1, <3>2 DEF TypeOK, HasTransaction
    <3>3. CASE /\ results' = results \ From(s)
               /\ statement' = [statement EXCEPT ![s] = "deleted"]
      <4> SUFFICES ASSUME NEW row \in results', row.tx # NULL
                   PROVE  statement'[StatementOf[row.tx]] = "on record"
        BY DEF HasTransaction
      <4>1. row \in results /\ StatementOf[row.tx] # s BY <3>3 DEF From
      <4>2. statement[StatementOf[row.tx]] = "on record"
        BY <1>1, <4>1 DEF TypeOK, HasTransaction
      <4>3. statement \in [Statements -> StatementState] BY <1>1 DEF TypeOK
      <4> QED BY <3>1, <3>3, <4>1, <4>2, <4>3
    <3> QED BY <1>3, <3>2, <3>3
  <2>3. statement' \in [Statements -> StatementState]
    BY <1>1, <1>2, <1>3 DEF TypeOK, StatementState
  <2> QED BY <1>1, <1>2, <1>4, <2>1, <2>2, <2>3 DEF TypeOK, Phase
<1>8. PhasesFit' BY <1>1, <1>2 DEF PhasesFit, TypeOK, Working
<1>9. RowsHaveRuns'
  <2>1. \A row \in results : row.id.run \in Requests BY <1>1 DEF TypeOK, Row, RowId
  <2>2. \A q \in Requests : \A i \in snap[q] : i.run \in Requests
    BY <1>1 DEF TypeOK, RowId
  <2> QED BY <1>1, <1>2, <1>4, <1>6, <2>1, <2>2 DEF RowsHaveRuns, TypeOK
<1>10. OldRowsFound'
  BY <1>1, <1>2, <1>4, <1>6 DEF OldRowsFound, TypeOK, Working
<1>11. OwedIsLoaded'
  BY <1>1, <1>2, <1>4 DEF OwedIsLoaded, TypeOK
<1>12. Guarded'
  <2> SUFFICES ASSUME NEW q \in Requests, Committed(q)', NEW d \in owed'[q]
               PROVE  \E row \in results' :
                        /\ row.evidence = d
                        /\ \A p \in Requests :
                             pc'[p] \in {"read", "matched"} /\ row.id \in snap'[p]
                               => d \in owed'[p]
    BY DEF Guarded
  <2>1. PICK row \in results :
          /\ row.evidence = d
          /\ \A p \in Requests :
               pc[p] \in {"read", "matched"} /\ row.id \in snap[p] => d \in owed[p]
    BY <1>1, <1>4, <1>6 DEF Guarded
  <2>2. row \in results' BY <1>5, <1>6, <2>1
  <2>3. \A p \in Requests : pc'[p] \in {"read", "matched"} => owed'[p] = owed[p]
    BY <1>1, <1>2, <1>4 DEF Committed, TypeOK
  <2> QED BY <1>1, <1>2, <2>1, <2>2, <2>3 DEF TypeOK
<1>13. OnlyOverlapsMix'
  BY <1>1, <1>2, <1>4 DEF OnlyOverlapsMix
<1> QED
  BY <1>7, <1>8, <1>9, <1>10, <1>11, <1>12, <1>13 DEF IInv

LEMMA FinishOverrideInv ==
  ASSUME IInv, NEW r \in Requests, FinishOverride(r)
  PROVE  IInv'
<1>1. TypeOK /\ PhasesFit /\ RowsHaveRuns /\ OldRowsFound /\ OwedIsLoaded
      /\ Guarded /\ OnlyOverlapsMix
  BY DEF IInv
<1>2. /\ pc[r] = "checked" /\ op[r] = "override"
      /\ pc' \in [Requests -> Phase]
      /\ snap' \in [Requests -> SUBSET RowId]
      /\ evs' \in [Requests -> SUBSET Evidences]
      /\ txs' \in [Requests -> SUBSET Transactions]
      /\ target' \in [Requests ->
           Evidences \cup Statements \cup Adjustment \cup {NULL}]
      /\ pc'[r] \in {"done", "failed"} /\ snap'[r] = {}
      /\ \A q \in Requests \ {r} :
           /\ pc'[q] = pc[q] /\ snap'[q] = snap[q] /\ evs'[q] = evs[q]
           /\ target'[q] = target[q]
      /\ UNCHANGED <<evidence, statement, op, before>>
  BY <1>1, FinishOverrideCases, EndsFacts
<1>3. \A q \in Requests : Committed(q)' <=> Committed(q)
  BY <1>1, <1>2 DEF Committed, TypeOK
<1>4. CASE UNCHANGED <<results, owed>>
  <2>1. TypeOK'
    BY <1>1, <1>2, <1>4 DEF TypeOK, Phase, HasEvidence, HasTransaction
  <2>2. PhasesFit' BY <1>1, <1>2 DEF PhasesFit, TypeOK, Working
  <2>3. RowsHaveRuns'
    <3>1. \A row \in results : row.id.run \in Requests BY <1>1 DEF TypeOK, Row, RowId
    <3>2. \A q \in Requests : \A i \in snap[q] : i.run \in Requests
      BY <1>1 DEF TypeOK, RowId
    <3> QED BY <1>1, <1>2, <1>3, <1>4, <3>1, <3>2 DEF RowsHaveRuns, TypeOK
  <2>4. OldRowsFound'
    BY <1>1, <1>2, <1>3, <1>4 DEF OldRowsFound, TypeOK, Working
  <2>5. OwedIsLoaded' BY <1>1, <1>2, <1>4 DEF OwedIsLoaded, TypeOK
  <2>6. Guarded' BY <1>1, <1>2, <1>3, <1>4 DEF Guarded, TypeOK
  <2>7. OnlyOverlapsMix' BY <1>1, <1>2, <1>4 DEF OnlyOverlapsMix
  <2> QED BY <2>1, <2>2, <2>3, <2>4, <2>5, <2>6, <2>7 DEF IInv
<1>5. ASSUME NEW old \in results, NEW new \in Row,
             new.id = old.id, Linked(new),
             results' = (results \ {old}) \cup {new},
             owed' = OwedWithout({old.evidence} \ {new.evidence})
      PROVE  IInv'
  <2>1. /\ \A q \in Requests : owed'[q] \subseteq owed[q]
        /\ \A q \in Requests : ~Committed(q) => owed'[q] = owed[q]
        /\ \A q \in Requests : \A d \in owed'[q] :
             Committed(q) => d # old.evidence \/ new.evidence = old.evidence
        /\ owed' \in [Requests -> SUBSET Evidences]
    BY <1>1, <1>5 DEF TypeOK, OwedWithout
  <2>2. TypeOK'
    <3>1. /\ new.evidence # NULL => HasEvidence(new.evidence)
          /\ new.tx # NULL => HasTransaction(new.tx)
      BY <1>5 DEF Linked, MayLink
    <3> QED
      BY <1>1, <1>2, <1>5, <2>1, <3>1 DEF TypeOK, Phase, HasEvidence, HasTransaction
  <2>3. PhasesFit' BY <1>1, <1>2 DEF PhasesFit, TypeOK, Working
  <2>4. RowsHaveRuns'
    <3>1. \A row \in results : row.id.run \in Requests BY <1>1 DEF TypeOK, Row, RowId
    <3>2. \A q \in Requests : \A i \in snap[q] : i.run \in Requests
      BY <1>1 DEF TypeOK, RowId
    <3>3. \A a, b \in results' : a.id = b.id => a = b
      BY <1>1, <1>5 DEF RowsHaveRuns
    <3> QED BY <1>1, <1>2, <1>3, <1>5, <3>1, <3>2, <3>3 DEF RowsHaveRuns, TypeOK
  <2>5. OldRowsFound'
    BY <1>1, <1>2, <1>3, <1>5 DEF OldRowsFound, TypeOK, Working
  <2>6. OwedIsLoaded' BY <1>1, <1>2, <2>1 DEF OwedIsLoaded, TypeOK
  <2>7. Guarded'
    <3> SUFFICES ASSUME NEW q \in Requests, Committed(q)', NEW d \in owed'[q]
                 PROVE  \E row \in results' :
                          /\ row.evidence = d
                          /\ \A p \in Requests :
                               pc'[p] \in {"read", "matched"} /\ row.id \in snap'[p]
                                 => d \in owed'[p]
      BY DEF Guarded
    <3>1. PICK row \in results :
            /\ row.evidence = d
            /\ \A p \in Requests :
                 pc[p] \in {"read", "matched"} /\ row.id \in snap[p] => d \in owed[p]
      BY <1>1, <1>3, <2>1 DEF Guarded
    <3>2. \E kept \in results' : kept.evidence = d /\ kept.id = row.id
      BY <1>3, <1>5, <2>1, <3>1
    <3>3. \A p \in Requests : pc'[p] \in {"read", "matched"} => owed'[p] = owed[p]
      BY <1>1, <1>2, <2>1 DEF Committed, TypeOK
    <3> QED BY <1>1, <1>2, <3>1, <3>2, <3>3 DEF TypeOK
  <2>8. OnlyOverlapsMix'
    BY <1>1, <1>2, <1>5 DEF OnlyOverlapsMix
  <2> QED BY <2>2, <2>3, <2>4, <2>5, <2>6, <2>7, <2>8 DEF IInv
<1> QED BY <1>1, <1>4, <1>5, FinishOverrideCases

\* An evidence that is extracted again is nobody's concern until it is done.
LEMMA EnvironmentInv ==
  ASSUME IInv, Environment
  PROVE  IInv'
<1>1. TypeOK /\ PhasesFit /\ RowsHaveRuns /\ OldRowsFound /\ OwedIsLoaded
      /\ Guarded /\ OnlyOverlapsMix
  BY DEF IInv
<1>2. UNCHANGED <<results, op, target, snap, evs, txs, pc, before>>
  BY DEF Environment, EvidenceMoves, Import, requestVars
<1>3. \A q \in Requests : Committed(q)' <=> Committed(q)
  BY <1>2 DEF Committed
<1>4. PhasesFit' /\ OnlyOverlapsMix'
  BY <1>1, <1>2 DEF PhasesFit, OnlyOverlapsMix
<1>5. RowsHaveRuns' /\ OldRowsFound'
  <2>1. \A row \in results : row.id.run \in Requests BY <1>1 DEF TypeOK, Row, RowId
  <2>2. \A q \in Requests : \A i \in snap[q] : i.run \in Requests
    BY <1>1 DEF TypeOK, RowId
  <2> QED BY <1>1, <1>2, <1>3, <2>1, <2>2 DEF RowsHaveRuns, OldRowsFound, TypeOK
<1>6. ASSUME NEW s \in Statements, Import(s)
      PROVE  TypeOK' /\ OwedIsLoaded' /\ Guarded'
  <2>1. UNCHANGED <<evidence, owed>> BY <1>6 DEF Import
  <2>2. statement[s] = "new" /\ statement' = [statement EXCEPT ![s] = "on record"]
    BY <1>6 DEF Import
  <2>3. TypeOK'
    <3>1. \A row \in results : row.tx # NULL => StatementOf[row.tx] \in Statements
      BY <1>1, ReconciliationAssumption DEF TypeOK, Row
    <3> QED
      BY <1>1, <1>2, <2>1, <2>2, <3>1
      DEF TypeOK, StatementState, HasEvidence, HasTransaction
  <2>4. OwedIsLoaded' BY <1>1, <1>2, <2>1 DEF OwedIsLoaded
  <2>5. Guarded' BY <1>1, <1>2, <1>3, <2>1 DEF Guarded
  <2> QED BY <2>3, <2>4, <2>5
<1>7. ASSUME NEW e \in Evidences, NEW from, NEW to, EvidenceMoves(e, from, to),
             from \in {"new", "eligible", "busy"}, to \in {"eligible", "busy"},
             from = "eligible" => to = "busy"
      PROVE  TypeOK' /\ OwedIsLoaded' /\ Guarded'
  <2>1. /\ UNCHANGED statement
        /\ evidence[e] = from /\ evidence' = [evidence EXCEPT ![e] = to]
    BY <1>7 DEF EvidenceMoves
  <2>2. \/ from # "eligible" /\ owed' = owed
        \/ to = "busy" /\ owed' = [q \in Requests |-> owed[q] \ {e}]
    BY <1>7 DEF EvidenceMoves
  <2>3. owed' \in [Requests -> SUBSET Evidences] BY <1>1, <2>2 DEF TypeOK
  <2>4. TypeOK'
    <3>1. evidence' \in [Evidences -> EvidenceState]
      BY <1>1, <1>7, <2>1 DEF TypeOK, EvidenceState
    <3>2. \A d \in Evidences : HasEvidence(d) => HasEvidence(d)'
      BY <1>1, <1>7, <2>1 DEF TypeOK, HasEvidence
    <3>3. \A row \in results : row.evidence \in Evidences \cup {NULL}
      BY <1>1 DEF TypeOK, Row
    <3>4. \A row \in results' : row.evidence # NULL => HasEvidence(row.evidence)'
      BY <1>1, <1>2, <3>2, <3>3 DEF TypeOK
    <3>5. \A row \in results' : row.tx # NULL => HasTransaction(row.tx)'
      BY <1>1, <1>2, <2>1 DEF TypeOK, HasTransaction
    <3> QED BY <1>1, <1>2, <2>1, <2>3, <3>1, <3>4, <3>5 DEF TypeOK
  <2>5. OwedIsLoaded'
    BY <1>1, <1>2, <1>7, <2>1, <2>2 DEF OwedIsLoaded, TypeOK
  <2>6. Guarded'
    BY <1>1, <1>2, <1>3, <2>2 DEF Guarded
  <2> QED BY <2>4, <2>5, <2>6
<1>8. TypeOK' /\ OwedIsLoaded' /\ Guarded'
  BY <1>6, <1>7 DEF Environment
<1> QED BY <1>4, <1>5, <1>8 DEF IInv

LEMMA NextInv == IInv /\ [Next]_vars => IInv'
<1> SUFFICES ASSUME IInv, [Next]_vars PROVE IInv' OBVIOUS
<1>1. ASSUME NEW r \in Requests, Start(r) PROVE IInv'
  BY <1>1, StartRunInv, StartRemoveInv, StartDropInv, StartOverrideInv DEF Start
<1>2. ASSUME NEW r \in Requests, Step(r) PROVE IInv'
  BY <1>2, FinishWipeInv, ReadEvidencesInv, ReadBankInv, CommitRunInv,
     CommitFailsInv, RefreshInv, FinishRemoveInv, FinishDropInv,
     FinishOverrideInv
  DEF Step
<1>3. ASSUME NEW r \in Requests, Fail(r) PROVE IInv'
  BY <1>3, FailInv
<1>4. CASE Environment BY <1>4, EnvironmentInv
<1>5. CASE UNCHANGED vars
  <2>1. UNCHANGED <<evidence, statement, results, op, target, snap, evs, txs, pc,
                    before, owed>>
    BY <1>5 DEF vars, requestVars
  <2>2. TypeOK' BY <2>1 DEF IInv, TypeOK, HasEvidence, HasTransaction
  <2>3. PhasesFit' /\ OwedIsLoaded' /\ OnlyOverlapsMix'
    BY <2>1 DEF IInv, PhasesFit, OwedIsLoaded, OnlyOverlapsMix
  <2>4. RowsHaveRuns' BY <2>1 DEF IInv, RowsHaveRuns, Committed
  <2>5. OldRowsFound' BY <2>1 DEF IInv, OldRowsFound, Committed
  <2>6. Guarded' BY <2>1 DEF IInv, Guarded, Committed
  <2> QED BY <2>2, <2>3, <2>4, <2>5, <2>6 DEF IInv
<1> QED BY <1>1, <1>2, <1>3, <1>4, <1>5 DEF Next

LEMMA Invariance == Spec => []IInv
<1>1. Init => IInv BY InitInv
<1>2. IInv /\ [Next]_vars => IInv' BY NextInv
<1> QED BY <1>1, <1>2, PTL DEF Spec

-----------------------------------------------------------------------------
(* The theorems.                                                            *)

\* The state is well-formed, and no result row refers to an evidence or a
\* transaction that was removed (delete_evidence, delete_bank_statement_upload
\* and the foreign keys of ReconciliationResult).
THEOREM TypeCorrect == Spec => []TypeOK
<1>1. IInv => TypeOK BY DEF IInv
<1> QED BY <1>1, Invariance, PTL

\* A run never leaves the rows of a run it could see (the DELETE at the start
\* of run_reconciliation): duplicates come from overlapping runs only.
THEOREM CleanSlate == Spec => []OnlyOverlapsMix
<1>1. IInv => OnlyOverlapsMix BY DEF IInv
<1> QED BY <1>1, Invariance, PTL

\* What a run reported stays reported until somebody takes it away: because
\* run_reconciliation deletes before it loads, what it deletes it replaces.
THEOREM ReportsLast == Spec => []NothingDropsOut
<1>1. IInv => NothingDropsOut BY DEF IInv, Guarded, NothingDropsOut
<1> QED BY <1>1, Invariance, PTL
=============================================================================
