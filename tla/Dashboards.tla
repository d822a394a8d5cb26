---------------------------- MODULE Dashboards ----------------------------
(***************************************************************************)
(* What officials may read: the auditor's worklist and review              *)
(* (services/audit_workflow.py), the expense summary of a settlement       *)
(* (services/settlement.py) and the dashboards of treasurer, auditor and   *)
(* president (services/dashboard.py).                                      *)
(***************************************************************************)
EXTENDS Viewers

CONSTANT RecentLimit  \* recent_limit and pending_limit of the requests

-----------------------------------------------------------------------------
(* services/audit_workflow.py                                               *)

AuditorVisibleStatuses ==
  {"submitted", "under_audit", "resubmitted", "approved", "rejected"}

AuditorSeats(u) == {m \in SeatsOf(u) : m.role = "auditor"}

\* auditor_visible_colleges
AuditorColleges(u) == {organization[m.org].college : m \in AuditorSeats(u)} \ {NULL}

\* auditor_visible_org_ids
AuditorOrgs(u) == {o \in Orgs : organization[o].college \in AuditorColleges(u)}

\* require_auditor_for_settlement: the seat the auditor acts under, the earliest
\* in the college of the settlement, or NULL (403)
AuditorSeatFor(u, s) ==
  LET college == organization[settlements[s].org].college
  IN  IF college \notin AuditorColleges(u) THEN NULL
      ELSE FirstOf({m \in AuditorSeats(u) : organization[m.org].college = college},
                   LAMBDA m, n : m.created_at < n.created_at)

ResultCounts(s) ==
  [st \in MatchStatus |->
     Cardinality({x \in results : x.settlement = s /\ x.status = st})]

TransactionCount(s) ==
  MapThenSumSet(LAMBDA up : Len(up.transactions), {up \in uploads : up.settlement = s})

CommentCount(s) == Cardinality({c \in comments : c.settlement = s})

\* list_auditor_worklist; no statuses asked for stands for all that are visible
WorklistOf(u, statuses) ==
  LET wanted == IF statuses = {} THEN AuditorVisibleStatuses ELSE statuses
  IN  {[settlement |-> s, org |-> settlements[s].org,
        evidence_count |-> Aggregate(EvidencesOf(s)).count,
        transaction_count |-> TransactionCount(s), comment_count |-> CommentCount(s),
        total |-> Aggregate(EvidencesOf(s)).total, counts |-> ResultCounts(s)] :
         s \in {t \in Stored : /\ settlements[t].org \in AuditorOrgs(u)
                               /\ settlements[t].status \in wanted}}

\* GET /audit/settlements: nothing for who is auditor nowhere
Worklist(u, statuses) == IF AuditorSeats(u) = {} THEN {} ELSE WorklistOf(u, statuses)

\* get_review_bundle
ReviewBundle(s) ==
  [settlement |-> settlements[s], evidences |-> EvidencesOf(s),
   transactions |-> {up.transactions : up \in {x \in uploads : x.settlement = s}},
   results |-> {x \in results : x.settlement = s},
   comments |-> {c \in comments : c.settlement = s}]

\* GET /audit/settlements/{id}
Review(u, s) ==
  IF settlements[s] = NULL THEN Refused(404)
  ELSE IF AuditorSeatFor(u, s) = NULL THEN Refused(403)
  ELSE Found(ReviewBundle(s))

-----------------------------------------------------------------------------
(* services/settlement.py                                                   *)

\* get_settlement_expense_summary: per group label, and their sums
ExpenseSummary(s) ==
  LET Bucket(g) == {e \in EvidencesOf(s) : evidences[e].group = g}
      buckets == {[group |-> g, count |-> Aggregate(Bucket(g)).count,
                   amount |-> Aggregate(Bucket(g)).total] :
                     g \in {evidences[e].group : e \in EvidencesOf(s)}}
  IN  [by_category |-> buckets,
       count |-> MapThenSumSet(LAMBDA b : b.count, buckets),
       total |-> MapThenSumSet(LAMBDA b : b.amount, buckets)]

-----------------------------------------------------------------------------
(* services/dashboard.py                                                    *)

MatchedLike == {"matched", "manually_resolved"}

CountOf(counts, statuses) == MapThenSumSet(LAMBDA st : counts[st], statuses)

\* progress_percent in hundredths of a percent, rounded to the nearest
Progress(matched, all) ==
  IF all = 0 THEN 0 ELSE (20000 * matched + all) \div (2 * all)

\* _rollups_for_settlements and the properties of _SettlementRollup
Rollup(s) ==
  LET counts == ResultCounts(s)
      matched == CountOf(counts, MatchedLike)
      all == CountOf(counts, MatchStatus)
  IN  [settlement |-> s, org |-> settlements[s].org,
       evidence_count |-> Aggregate(EvidencesOf(s)).count,
       transaction_count |-> TransactionCount(s), comment_count |-> CommentCount(s),
       total |-> Aggregate(EvidencesOf(s)).total, counts |-> counts,
       matched |-> matched, unmatched |-> all - matched,
       progress |-> Progress(matched, all)]

\* _user_org_ids with the roles of the treasurer dashboard
TreasurerOrgs(u) == {m.org : m \in {x \in SeatsOf(u) : x.role \in {"treasurer", "president"}}}

SettlementsOf(orgs) == {s \in Stored : settlements[s].org \in orgs}

CountsByStatus(S) ==
  [st \in SettlementStatus |-> Cardinality({s \in S : settlements[s].status = st})]

\* get_treasurer_dashboard: totals over all settlements, cards of the latest
TreasurerDashboard(u) ==
  LET all == SettlementsOf(TreasurerOrgs(u))
      figures == Aggregate({e \in Evidences : evidences[e] # NULL
                                              /\ evidences[e].settlement \in all})
      rows == {x \in results : x.settlement \in all}
      matched == Cardinality({x \in rows : x.status \in MatchedLike})
  IN  [organization_count |-> Cardinality(TreasurerOrgs(u)),
       counts |-> CountsByStatus(all),
       evidence_count |-> figures.count, total |-> figures.total,
       matched |-> matched, unmatched |-> Cardinality(rows) - matched,
       progress |-> Progress(matched, Cardinality(rows)),
       recent |-> {Rollup(s) : s \in FirstOnes(RecentLimit, all, LatelySubmitted)}]

PendingStatuses == {"submitted", "resubmitted"}

\* get_auditor_dashboard
AuditorDashboard(u) ==
  LET all == SettlementsOf(AuditorOrgs(u))
      counts == CountsByStatus(all)
      pending == {s \in all : settlements[s].status \in PendingStatuses}
  IN  [organization_count |-> Cardinality(AuditorOrgs(u)), counts |-> counts,
       pending_count |-> CountOf(counts, PendingStatuses),
       in_progress_count |-> CountOf(counts, {"under_audit"}),
       completed_count |-> CountOf(counts, {"approved", "rejected"}),
       pending |-> {Rollup(s) : s \in FirstOnes(RecentLimit, pending, LatelySubmitted)}]

PresidentSeats(u) == {m \in SeatsOf(u) : m.role = "president"}

\* resolve_admin_organization
AdminOrg(u, asked) ==
  IF asked # NULL
  THEN IF \E m \in PresidentSeats(u) : m.org = asked THEN Found(asked) ELSE Refused(403)
  ELSE IF PresidentSeats(u) = {} THEN Refused(404)
  ELSE Found(FirstOf(PresidentSeats(u), MainSeat).org)

\* _SUBMITTED_STATUSES, _AUDIT_COMPLETED_STATUSES, _REVIEW_PENDING_STATUSES
SubmittedStatuses == {"submitted", "under_audit", "resubmitted", "approved", "rejected"}
AuditCompletedStatuses == {"approved", "rejected"}
ReviewPendingStatuses == {"submitted", "resubmitted", "under_audit"}

\* _settlement_last_activity
LastActivity(row) ==
  Max({row.updated_at, row.submitted_at, row.audited_at, row.published_at} \ {NULL})

\* The order of Python on the texts of Settlement.semester
Texts == <<"1", "2", "summer", "winter">>
TextOrder(name) == CHOOSE i \in DOMAIN Texts : Texts[i] = name

\* current_period of get_president_dashboard: the greatest (year, text of the
\* semester), of several the one submitted last
PresidentPeriod(o) ==
  FirstOf(OrgSettlements(o),
          LAMBDA s, t :
            LET p == PeriodOf(s)
                q == PeriodOf(t)
            IN  \/ p.year > q.year
                \/ p.year = q.year /\ TextOrder(p.semester) > TextOrder(q.semester)
                \/ p = q /\ LatelySubmitted(s, t))

\* The latest comments an auditor wrote under his seats in o: reviewed
Reviewed(o, u) ==
  {c \in comments :
     /\ settlements[c.settlement].org = o
     /\ \E m \in AuditorSeats(u) : m.org = o /\ m.id = c.author}

\* _auditor_activity_cards (the mean of the days of review left out)
AuditorActivity(o) ==
  LET Auditors == {m \in seats : m.org = o /\ m.role = "auditor"}
      Of(u, statuses) ==
        Cardinality({s \in {c.settlement : c \in Reviewed(o, u)} :
                       settlements[s].status \in statuses})
  IN  {[user |-> m.user,
        completed |-> Of(m.user, AuditCompletedStatuses),
        pending |-> Of(m.user, ReviewPendingStatuses),
        assigned |-> Of(m.user, AuditCompletedStatuses) + Of(m.user, ReviewPendingStatuses),
        last_activity |-> IF Reviewed(o, m.user) = {} THEN m.created_at
                          ELSE Max({c.created_at : c \in Reviewed(o, m.user)})] :
          m \in Auditors}

\* president_name: the president whose seat is primary, or the first one
PresidentOf(o) ==
  FirstOf({m \in seats : m.org = o /\ m.role = "president"}, MainSeat)

\* get_president_dashboard
PresidentDashboardOf(o) ==
  LET all == OrgSettlements(o)
      counts == CountsByStatus(all)
  IN  [org |-> o, president |-> PresidentOf(o), current |-> PresidentPeriod(o),
       team_member_count |-> Cardinality({m.user : m \in {x \in seats : x.org = o}}),
       submitted_count |-> CountOf(counts, SubmittedStatuses),
       audit_completed_count |-> CountOf(counts, AuditCompletedStatuses),
       review_pending_count |-> CountOf(counts, ReviewPendingStatuses),
       treasurer_work |->
         {[rollup |-> Rollup(s), last_activity |-> LastActivity(settlements[s])] :
            s \in FirstOnes(RecentLimit, all, LatelySubmitted)},
       auditor_activity |-> AuditorActivity(o),
       members |-> {[user |-> m.user, role |-> m.role, primary |-> m.primary] :
                      m \in {x \in seats : x.org = o}}]

\* GET /dashboard/president
PresidentDashboard(u, asked) ==
  LET org == AdminOrg(u, asked)
  IN  IF org.code # 200 THEN org ELSE Found(PresidentDashboardOf(org.body))
=============================================================================
