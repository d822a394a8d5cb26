------------------------- MODULE ReconciliationRuns -------------------------
(***************************************************************************)
(* The reconciliation results of one settlement, and the HTTP requests     *)
(* that rebuild them, adjust them by hand and take away what they are      *)
(* about (services/reconciliation.py, delete_evidence, bank_statement.py). *)
(*                                                                         *)
(* Each request is one database transaction under READ COMMITTED.  A bulk  *)
(* DELETE finds the rows committed when it starts, waits until nobody else *)
(* holds them, and holds them until its own transaction ends; rows that    *)
(* are committed while it waits are not deleted.  A row cannot refer to an *)
(* evidence or transaction that is gone: the request that tries it fails   *)
(* and is rolled back.                                                     *)
(***************************************************************************)
EXTENDS Report

CONSTANTS
  Requests,    \* the requests clients send; each is handled once
  Asks,        \* request -> the operations it may be for
  Evidences,   \* the evidences that ever exist
  Statements,  \* the bank statements that ever exist
  Transactions, StatementOf,  \* their rows, and the statement each is in
  NULL         \* SQL NULL; nothing

AllOps == {"run", "remove", "drop", "override"}

ASSUME ReconciliationAssumption ==
  /\ Asks \in [Requests -> SUBSET AllOps]
  /\ NULL \notin Requests \cup Evidences \cup Statements \cup Transactions
  /\ StatementOf \in [Transactions -> Statements]

VARIABLES
  evidence,   \* evidence -> where it stands
  statement,  \* bank statement -> where it stands
  results,    \* the committed result rows
  op,         \* request -> what it asks for
  target,     \* request -> the evidence, statement or adjustment it is about
  snap,       \* request -> the rows its DELETE found, or that it inserted
  evs, txs,   \* run -> the evidences and transactions it loaded
  pc,         \* request -> where its handler stands
  before,     \* run -> the runs that had committed when it began (history)
  owed        \* run -> what it loaded and nobody took away since (history)

requestVars == <<op, target>>
vars == <<evidence, statement, results, requestVars, snap, evs, txs, pc,
          before, owed>>

\* A row keeps the links its run gave it beside those it has now.
Links == (Evidences \cup {NULL}) \X (Transactions \cup {NULL})
RowId == [run : Requests, links : Links]
Row == [id : RowId, evidence : Evidences \cup {NULL},
        tx : Transactions \cup {NULL}]

\* "busy" is EXTRACTING or FAILED: not in _RECONCILE_EVIDENCE_STATUSES.
EvidenceState == {"new", "eligible", "busy", "removed"}
StatementState == {"new", "on record", "deleted"}

\* The columns of a PATCH: those left out are empty sets.
Adjustment ==
  [id : RowId, evidence : SUBSET (Evidences \cup {NULL}),
   tx : SUBSET (Transactions \cup {NULL})]

Phase ==
  {"idle", "deleting", "wiped", "read", "matched", "committed", "checked",
   "done", "failed"}

HasEvidence(e) == evidence[e] \in {"eligible", "busy"}
HasTransaction(t) == statement[StatementOf[t]] = "on record"

Ids(rows) == {row.id : row \in rows}

\* The rows a request has deleted and not committed yet.
Held(r) == IF pc[r] \in {"wiped", "read", "matched"} THEN snap[r] ELSE {}

\* Nobody else holds these rows.
Free(r, ids) == \A q \in Requests \ {r} : Held(q) \cap ids = {}

\* Mutant of MayLink: no foreign keys.
MayLinkAnything(e, t) == TRUE

\* A result row may refer to this evidence and this transaction.
MayLink(e, t) ==
  /\ e # NULL => HasEvidence(e)
  /\ t # NULL => HasTransaction(t)

Linked(row) == MayLink(row.evidence, row.tx)

TypeOK ==
  /\ evidence \in [Evidences -> EvidenceState]
  /\ statement \in [Statements -> StatementState]
  /\ results \subseteq Row
  /\ \A row \in results : row.evidence # NULL => HasEvidence(row.evidence)
  /\ \A row \in results : row.tx # NULL => HasTransaction(row.tx)
  /\ op \in [Requests -> AllOps \cup {NULL}]
  /\ target \in [Requests -> Evidences \cup Statements \cup Adjustment \cup {NULL}]
  /\ snap \in [Requests -> SUBSET RowId]
  /\ evs \in [Requests -> SUBSET Evidences]
  /\ txs \in [Requests -> SUBSET Transactions]
  /\ pc \in [Requests -> Phase]
  /\ before \in [Requests -> SUBSET Requests]
  /\ owed \in [Requests -> SUBSET Evidences]

Init ==
  /\ evidence \in [Evidences -> {"new", "eligible"}]
  /\ statement \in [Statements -> {"new", "on record"}]
  /\ results = {}
  /\ op = [r \in Requests |-> NULL]
  /\ target = [r \in Requests |-> NULL]
  /\ snap = [r \in Requests |-> {}]
  /\ evs = [r \in Requests |-> {}]
  /\ txs = [r \in Requests |-> {}]
  /\ pc = [r \in Requests |-> "idle"]
  /\ before = [r \in Requests |-> {}]
  /\ owed = [r \in Requests |-> {}]

Committed(r) == op[r] = "run" /\ pc[r] \in {"committed", "done", "failed"}

\* What runs are still held to once these evidences lost a row.
OwedWithout(lost) ==
  [r \in Requests |-> IF Committed(r) THEN owed[r] \ lost ELSE owed[r]]

\* The handler is over and forgets what it had loaded.
Ends(r, phase) ==
  /\ pc' = [pc EXCEPT ![r] = phase]
  /\ snap' = [snap EXCEPT ![r] = {}]
  /\ evs' = [evs EXCEPT ![r] = {}]
  /\ txs' = [txs EXCEPT ![r] = {}]
  /\ target' = [target EXCEPT ![r] = NULL]

-----------------------------------------------------------------------------
(* A run.                                                                   *)

\* Mutant of StartRun: rows adjusted by hand are spared.
StartRunSparing(r) ==
  /\ pc[r] = "idle"
  /\ op' = [op EXCEPT ![r] = "run"]
  /\ snap' = [snap EXCEPT ![r] =
       Ids({row \in results : row.id.links = <<row.evidence, row.tx>>})]
  /\ before' = [before EXCEPT ![r] = {q \in Requests : Committed(q)}]
  /\ pc' = [pc EXCEPT ![r] = "deleting"]
  /\ UNCHANGED <<evidence, statement, results, target, evs, txs, owed>>

\* The DELETE of the old results finds what is on record.
StartRun(r) ==
  /\ pc[r] = "idle"
  /\ op' = [op EXCEPT ![r] = "run"]
  /\ snap' = [snap EXCEPT ![r] = Ids(results)]
  /\ before' = [before EXCEPT ![r] = {q \in Requests : Committed(q)}]
  /\ pc' = [pc EXCEPT ![r] = "deleting"]
  /\ UNCHANGED <<evidence, statement, results, target, evs, txs, owed>>

\* It waits for those who hold some of these rows.
FinishWipe(r) ==
  /\ pc[r] = "deleting"
  /\ op[r] = "run"
  /\ Free(r, snap[r])
  /\ snap' = [snap EXCEPT ![r] = @ \cap Ids(results)]
  /\ pc' = [pc EXCEPT ![r] = "wiped"]
  /\ UNCHANGED <<evidence, statement, results, requestVars, evs, txs, before,
                 owed>>

\* _load_reconcilable_evidences
ReadEvidences(r) ==
  /\ pc[r] = "wiped"
  /\ evs' = [evs EXCEPT ![r] = {e \in Evidences : evidence[e] = "eligible"}]
  /\ owed' = [owed EXCEPT ![r] = evs'[r]]
  /\ pc' = [pc EXCEPT ![r] = "read"]
  /\ UNCHANGED <<evidence, statement, results, requestVars, snap, txs, before>>

\* _load_bank_transactions
ReadBank(r) ==
  /\ pc[r] = "read"
  /\ txs' = [txs EXCEPT ![r] = {t \in Transactions : HasTransaction(t)}]
  /\ pc' = [pc EXCEPT ![r] = "matched"]
  /\ UNCHANGED <<evidence, statement, results, requestVars, snap, evs, before,
                 owed>>

NewRows(r, report) ==
  {[id |-> [run |-> r, links |-> l], evidence |-> l[1], tx |-> l[2]] :
     l \in report}

\* Mutant of CommitRun: the old results are deleted last.
CommitRunWipingLast(r) ==
  /\ pc[r] = "matched"
  /\ \E report \in SUBSET Links :
       /\ IsReport(report, evs[r], txs[r], NULL)
       /\ \A l \in report : MayLink(l[1], l[2])
       /\ results' = NewRows(r, report)
       /\ snap' = [snap EXCEPT ![r] = Ids(NewRows(r, report))]
  /\ pc' = [pc EXCEPT ![r] = "committed"]
  /\ evs' = [evs EXCEPT ![r] = {}]
  /\ txs' = [txs EXCEPT ![r] = {}]
  /\ UNCHANGED <<evidence, statement, requestVars, before, owed>>

\* The rows of some report are inserted and the deletion takes effect, unless
\* what they refer to is gone.
CommitRun(r) ==
  /\ pc[r] = "matched"
  /\ \E report \in SUBSET Links :
       /\ IsReport(report, evs[r], txs[r], NULL)
       /\ \A l \in report : MayLink(l[1], l[2])
       /\ results' = {row \in results : row.id \notin snap[r]}
                       \cup NewRows(r, report)
       /\ snap' = [snap EXCEPT ![r] = Ids(NewRows(r, report))]
  /\ pc' = [pc EXCEPT ![r] = "committed"]
  /\ evs' = [evs EXCEPT ![r] = {}]
  /\ txs' = [txs EXCEPT ![r] = {}]
  /\ UNCHANGED <<evidence, statement, requestVars, before, owed>>

\* Mutant of CommitFails: the insert is tried again in the same transaction.
CommitRetries(r) ==
  /\ pc[r] = "matched"
  /\ \/ \E e \in evs[r] : ~HasEvidence(e)
     \/ \E t \in txs[r] : ~HasTransaction(t)
  /\ UNCHANGED vars

\* A foreign key is violated: error 500, and the old results stay.
CommitFails(r) ==
  /\ pc[r] = "matched"
  /\ \/ \E e \in evs[r] : ~HasEvidence(e)
     \/ \E t \in txs[r] : ~HasTransaction(t)
  /\ Ends(r, "failed")
  /\ owed' = [owed EXCEPT ![r] = {}]
  /\ UNCHANGED <<evidence, statement, results, op, before>>

\* The rows are read back one by one for the answer: error 500 if one is gone.
Refresh(r) ==
  /\ pc[r] = "committed"
  /\ Ends(r, IF snap[r] \subseteq Ids(results) THEN "done" ELSE "failed")
  /\ UNCHANGED <<evidence, statement, results, op, before, owed>>

-----------------------------------------------------------------------------
(* Removal of an evidence, deletion of a bank statement.                    *)

About(e) == {row \in results : row.evidence = e}
From(s) == {row \in results : row.tx # NULL /\ StatementOf[row.tx] = s}

StartRemove(r, e) ==
  /\ pc[r] = "idle"
  /\ HasEvidence(e)
  /\ op' = [op EXCEPT ![r] = "remove"]
  /\ target' = [target EXCEPT ![r] = e]
  /\ snap' = [snap EXCEPT ![r] = Ids(About(e))]
  /\ pc' = [pc EXCEPT ![r] = "deleting"]
  /\ UNCHANGED <<evidence, statement, results, evs, txs, before, owed>>

\* Of the rows found, those still about e are deleted.  If others came, the
\* evidence cannot go and nothing happens.
FinishRemove(r) ==
  LET e == target[r]
      gone == {row \in About(e) : row.id \in snap[r]} IN
  /\ pc[r] = "deleting"
  /\ op[r] = "remove"
  /\ Free(r, snap[r] \cup Ids(About(e)))
  /\ IF About(e) = gone
       THEN /\ results' = results \ gone
            /\ evidence' = [evidence EXCEPT ![e] = "removed"]
            /\ owed' = [q \in Requests |-> owed[q] \ {e}]
            /\ Ends(r, "done")
       ELSE /\ Ends(r, "failed")
            /\ UNCHANGED <<results, evidence, owed>>
  /\ UNCHANGED <<statement, op, before>>

StartDrop(r, s) ==
  /\ pc[r] = "idle"
  /\ statement[s] = "on record"
  /\ op' = [op EXCEPT ![r] = "drop"]
  /\ target' = [target EXCEPT ![r] = s]
  /\ snap' = [snap EXCEPT ![r] = Ids(From(s))]
  /\ pc' = [pc EXCEPT ![r] = "deleting"]
  /\ UNCHANGED <<evidence, statement, results, evs, txs, before, owed>>

\* The evidences that were paired with the statement lose their rows, too.
FinishDrop(r) ==
  LET s == target[r]
      gone == {row \in From(s) : row.id \in snap[r]} IN
  /\ pc[r] = "deleting"
  /\ op[r] = "drop"
  /\ Free(r, snap[r] \cup Ids(From(s)))
  /\ IF From(s) = gone
       THEN /\ results' = results \ gone
            /\ statement' = [statement EXCEPT ![s] = "deleted"]
            /\ owed' = OwedWithout({row.evidence : row \in gone})
            /\ Ends(r, "done")
       ELSE /\ Ends(r, "failed")
            /\ UNCHANGED <<results, statement, owed>>
  /\ UNCHANGED <<evidence, op, before>>

-----------------------------------------------------------------------------
(* Adjustment by hand.                                                      *)

\* The row is loaded and what the client links must exist.  A column that the
\* client sets to what it was is not written.
StartOverride(r, row, e, t) ==
  /\ pc[r] = "idle"
  /\ MayLink(e, t)
  /\ op' = [op EXCEPT ![r] = "override"]
  /\ target' = [target EXCEPT ![r] =
       [id |-> row.id, evidence |-> {e} \ {row.evidence}, tx |-> {t} \ {row.tx}]]
  /\ pc' = [pc EXCEPT ![r] = "checked"]
  /\ UNCHANGED <<evidence, statement, results, snap, evs, txs, before, owed>>

Set(old, new) == IF new = {} THEN old ELSE CHOOSE v \in new : TRUE

Adjusted(row, change) ==
  [row EXCEPT !.evidence = Set(@, change.evidence), !.tx = Set(@, change.tx)]

\* The UPDATE of a row that is gone raises, and so does one with a link to
\* what is gone.
FinishOverride(r) ==
  LET change == target[r]
      old == {row \in results : row.id = change.id}
      new == {Adjusted(row, change) : row \in old} IN
  /\ pc[r] = "checked"
  /\ Free(r, {change.id})
  /\ IF old # {} /\ \A row \in new : Linked(row)
       THEN /\ results' = (results \ old) \cup new
            /\ owed' = OwedWithout({row.evidence : row \in old}
                                     \ {row.evidence : row \in new})
            /\ Ends(r, "done")
       ELSE /\ Ends(r, "failed")
            /\ UNCHANGED <<results, owed>>
  /\ UNCHANGED <<evidence, statement, op, before>>

-----------------------------------------------------------------------------

\* The client goes away or the connection breaks: rolled back.
Fail(r) ==
  /\ pc[r] \notin {"idle", "done", "failed"}
  /\ Ends(r, "failed")
  /\ owed' = [owed EXCEPT ![r] = IF Committed(r) THEN @ ELSE {}]
  /\ before' = [before EXCEPT ![r] = IF Committed(r) THEN @ ELSE {}]
  /\ UNCHANGED <<evidence, statement, results, op>>

\* The handler of r goes on.
Step(r) ==
  \/ FinishWipe(r) \/ ReadEvidences(r) \/ ReadBank(r) \/ CommitRun(r)
  \/ CommitFails(r) \/ Refresh(r)
  \/ FinishRemove(r) \/ FinishDrop(r) \/ FinishOverride(r)

Start(r) ==
  \/ "run" \in Asks[r] /\ StartRun(r)
  \/ "remove" \in Asks[r] /\ \E e \in Evidences : StartRemove(r, e)
  \/ "drop" \in Asks[r] /\ \E s \in Statements : StartDrop(r, s)
  \/ /\ "override" \in Asks[r]
     /\ \E row \in results, e \in Evidences \cup {NULL}, t \in Transactions \cup {NULL} :
          StartOverride(r, row, e, t)

\* Uploads and extractions (EvidenceWork) decide which evidences there are and
\* which of them are reconciled.
EvidenceMoves(e, from, to) ==
  /\ evidence[e] = from
  /\ evidence' = [evidence EXCEPT ![e] = to]
  /\ owed' = IF to = "busy" THEN [q \in Requests |-> owed[q] \ {e}] ELSE owed
  /\ UNCHANGED <<statement, results, requestVars, snap, evs, txs, pc, before>>

\* create_upload_with_transactions
Import(s) ==
  /\ statement[s] = "new"
  /\ statement' = [statement EXCEPT ![s] = "on record"]
  /\ UNCHANGED <<evidence, results, requestVars, snap, evs, txs, pc, before,
                 owed>>

Environment ==
  \/ \E e \in Evidences : \/ EvidenceMoves(e, "new", "eligible")
                          \/ EvidenceMoves(e, "eligible", "busy")
                          \/ EvidenceMoves(e, "busy", "eligible")
  \/ \E s \in Statements : Import(s)

Next == (\E r \in Requests : Start(r) \/ Step(r) \/ Fail(r)) \/ Environment

Spec == Init /\ [][Next]_vars

\* The event loop resumes every handler whose statement has returned.
FairSpec == Spec /\ \A r \in Requests : WF_vars(Step(r))

-----------------------------------------------------------------------------
(* What the results promise.                                                *)

\* A run leaves no row of a run that had committed when it began: rows of
\* different runs stand side by side only when the runs overlapped.
OnlyOverlapsMix ==
  \A a, b \in results : a.id.run \notin before[b.id.run]

\* No evidence drops out of the report: what a committed run had loaded has a
\* row until it is removed or extracted again, its row is linked to something
\* else by hand, or the statement it was paired with is deleted.
NothingDropsOut ==
  \A r \in Requests :
    Committed(r) => \A e \in owed[r] : \E row \in results : row.evidence = e

\* Nobody waits for ever, whatever holds rows lets them go: again and again
\* there is no request under way.
EveryRequestEnds ==
  []<>(\A r \in Requests : pc[r] \in {"idle", "done", "failed"})

-----------------------------------------------------------------------------
(* What the repository says and the code does not do.                       *)

\* reconciliation.py:91: the old results are dropped "so re-running gives a
\* clean slate"; tests/test_reconciliation.py:223: "Re-running should not
\* duplicate rows."  No evidence has two rows that nobody adjusted.
OneRowPerEvidence ==
  \A a, b \in results :
    /\ a.evidence = b.evidence /\ a.evidence # NULL
    /\ a.id.links = <<a.evidence, a.tx>> /\ b.id.links = <<b.evidence, b.tx>>
    => a = b

=============================================================================
