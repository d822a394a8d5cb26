------------------------------ MODULE Records ------------------------------
(***************************************************************************)
(* The tables (models/entities.py) that the reading side of the service    *)
(* puts together: public pages, student viewer, audit worklist and the     *)
(* dashboards.  The seats and the organizations do not change here (their  *)
(* changes are those of Memberships and Applications).                     *)
(*                                                                         *)
(* Time is a logical clock: every stamp is one tick later than the one     *)
(* before it.  A table is a function from identities to rows, NULL where   *)
(* there is none, or a set of rows that carry their identity.              *)
(***************************************************************************)
EXTENDS Integers, Sequences, FiniteSets, FiniteSetsExt

CONSTANTS
  NULL,          \* SQL NULL, and no row
  Users, Orgs,
  Settlements, Evidences,  \* identities, used and unused
  GroupNames,        \* the labels of evidence groups
  account,       \* user -> college and department of the account, or NULLs
  organization,  \* organization -> its college, department and founding year
  seats          \* the rows of organization_memberships

VARIABLES
  now,           \* the last tick that was stamped
  settlements,   \* Settlements -> row or NULL
  evidences,     \* Evidences -> row or NULL
  comments,      \* rows of audit_comments
  uploads,       \* rows of bank_statement_uploads with their transactions
  results,       \* rows of reconciliation_results
  artifacts      \* rows of settlement_artifacts

\* The dashboard of a department that is not stored is called "own".  A
\* college is not nullable; two rows one of which is taken first were not
\* stamped alike.
ASSUME RecordsAssumption ==
  /\ IsFiniteSet(Orgs) /\ IsFiniteSet(Settlements) /\ IsFiniteSet(Evidences)
  /\ IsFiniteSet(seats)
  /\ NULL \notin Orgs \cup Settlements \cup Evidences \cup seats \cup Int
  /\ "own" \notin Orgs
  /\ \A o \in Orgs :
       organization[o].college # NULL /\ organization[o].created_at \in Nat
  /\ \A o, p \in Orgs :
       o # p /\ organization[o].college = organization[p].college
             /\ organization[o].department = organization[p].department =>
         organization[o].created_at # organization[p].created_at
  /\ \A m \in seats :
       m.org \in Orgs /\ m.primary \in BOOLEAN /\ m.created_at \in Nat
  /\ \A m, n \in seats : m # n /\ m.user = n.user => m.created_at # n.created_at

tables ==
  <<now, settlements, evidences, comments, uploads, results, artifacts>>

-----------------------------------------------------------------------------

Stored == {s \in Settlements : settlements[s] # NULL}

EvidencesOf(s) ==
  {e \in Evidences : evidences[e] # NULL /\ evidences[e].settlement = s}

SeatsOf(u) == {m \in seats : m.user = u}

Abs(n) == IF n < 0 THEN -n ELSE n

\* evidence_signed_amount: amounts count by their magnitude, refunds against
\* it; a SUM passes over an amount that was not recognised.
Signed(e) ==
  LET row == evidences[e]
  IN  IF row.amount = NULL THEN 0
      ELSE IF row.refund THEN -Abs(row.amount) ELSE Abs(row.amount)

\* count(id) and coalesce(sum(signed amount), 0) over a set of evidences
Aggregate(E) == [total |-> MapThenSumSet(Signed, E), count |-> Cardinality(E)]

\* The first of S in the order Before (LIMIT 1), or NULL.
FirstOf(S, Before(_, _)) ==
  IF S = {} THEN NULL
  ELSE CHOOSE x \in S : \A y \in S \ {x} : Before(x, y)

\* The first n of S in the order Before (LIMIT n).
FirstOnes(n, S, Before(_, _)) ==
  {x \in S : Cardinality({y \in S \ {x} : Before(y, x)}) < n}

\* ORDER BY submitted_at DESC NULLS LAST, created_at DESC
LatelySubmitted(s, t) ==
  LET a == settlements[s].submitted_at
      b == settlements[t].submitted_at
  IN  \/ a # NULL /\ (b = NULL \/ a > b)
      \/ a = b /\ settlements[s].created_at > settlements[t].created_at

\* ORDER BY is_primary DESC, created_at ASC, of memberships
MainSeat(m, n) ==
  \/ m.primary /\ ~n.primary
  \/ m.primary = n.primary /\ m.created_at < n.created_at

\* Settlement.status and the times it carries; see SettlementLifecycle.
SettlementStatus ==
  {"draft", "ready_for_review", "submitted", "under_audit", "approved",
   "rejected", "resubmitted"}

MatchStatus ==
  {"matched", "amount_mismatch", "date_mismatch", "missing_bank_transaction",
   "missing_evidence", "manually_resolved"}
=============================================================================
