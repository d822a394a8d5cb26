------------------------------ MODULE Viewers ------------------------------
(***************************************************************************)
(* What students may read: the public pages (services/public.py), the      *)
(* period cards (services/student_viewer.py) and the student dashboard     *)
(* (services/student_dashboard.py), with the answers of their endpoints.   *)
(* An answer is what was found, or the status code of the refusal.  The    *)
(* order of the rows of a list is left out where nothing depends on it.    *)
(***************************************************************************)
EXTENDS Records

CONSTANT DefaultYear  \* the year shown for an organization that is not stored

Found(x) == [code |-> 200, body |-> x]
Refused(code) == [code |-> code, body |-> NULL]

\* _SEMESTER_ORDER
Semesters == <<"1", "2", "summer", "winter">>
SemesterOrder(name) == CHOOSE i \in DOMAIN Semesters : Semesters[i] = name

\* is_settlement_public, of a row
IsPublic(row) == row.status = "approved" /\ row.published_at # NULL

\* user_visible_colleges: those of the memberships, and that of the account
VisibleColleges(u) ==
  ({organization[m.org].college : m \in SeatsOf(u)} \cup {account[u].college})
    \ {NULL}

Covers(u, s) == organization[settlements[s].org].college \in VisibleColleges(u)

-----------------------------------------------------------------------------
(* services/public.py                                                       *)

\* The evidences recorded by the time of publication.
Snapshot(s) ==
  {e \in EvidencesOf(s) :
     /\ settlements[s].published_at # NULL
     /\ evidences[e].created_at <= settlements[s].published_at}

\* _settlement_aggregates
PublicAggregate(s) == Aggregate(Snapshot(s))

PublicSettlements(u) == {s \in Stored : IsPublic(settlements[s]) /\ Covers(u, s)}

\* list_public_settlements
PublicList(u) ==
  {[settlement |-> s, org |-> settlements[s].org,
    total |-> PublicAggregate(s).total, count |-> PublicAggregate(s).count] :
     s \in PublicSettlements(u)}

\* The gate of get_public_settlement_detail, list_public_items and
\* increment_settlement_view
MayRead(u, s) == IsPublic(settlements[s]) /\ Covers(u, s)

\* get_public_settlement_detail
DetailOf(u, s) ==
  IF ~MayRead(u, s) THEN Refused(404)
  ELSE Found([settlement |-> s, org |-> settlements[s].org,
              total |-> PublicAggregate(s).total,
              count |-> PublicAggregate(s).count,
              artifacts |-> {a \in artifacts :
                               a.settlement = s /\ a.status = "completed"}])

\* GET /public/settlements/{id}
PublicDetail(u, s) ==
  IF settlements[s] = NULL THEN Refused(404) ELSE DetailOf(u, s)

\* list_public_items
ItemsOf(u, s) ==
  IF ~MayRead(u, s) THEN Refused(404)
  ELSE Found({e \in EvidencesOf(s) :
                evidences[e].created_at <= settlements[s].published_at})

\* GET /public/settlements/{id}/items
PublicItems(u, s) ==
  IF settlements[s] = NULL THEN Refused(404) ELSE ItemsOf(u, s)

\* get_public_evidence
EvidenceIsPublic(u, e) ==
  LET s == evidences[e].settlement
  IN  /\ s \in Stored
      /\ IsPublic(settlements[s])
      /\ Covers(u, s)
      /\ ~(settlements[s].published_at # NULL
             /\ evidences[e].created_at > settlements[s].published_at)

\* GET /public/evidences/{id}
PublicEvidence(u, e) ==
  IF evidences[e] = NULL \/ ~EvidenceIsPublic(u, e) THEN Refused(404)
  ELSE Found(evidences[e])

\* GET /public/evidences/{id}/file
PublicEvidenceFile(u, e) ==
  IF evidences[e] = NULL \/ ~EvidenceIsPublic(u, e) THEN Refused(404)
  ELSE IF evidences[e].file THEN Found(e) ELSE Refused(410)

\* assert_artifact_public
ArtifactIsPublic(u, a) ==
  /\ a.settlement \in Stored
  /\ IsPublic(settlements[a.settlement])
  /\ a.status = "completed"
  /\ Covers(u, a.settlement)

\* GET /public/settlements/{id}/downloads/{artifact_id}
PublicDownload(u, s, a) ==
  IF a \notin artifacts \/ a.settlement # s \/ ~ArtifactIsPublic(u, a) THEN Refused(404)
  ELSE IF a.file THEN Found(a) ELSE Refused(410)

-----------------------------------------------------------------------------
(* services/student_viewer.py                                               *)

\* settlement_status_label
StatusLabel(s) ==
  IF s = NULL THEN "not submitted"
  ELSE LET row == settlements[s]
       IN  CASE row.status = "draft" -> "being written"
             [] row.status = "ready_for_review" -> "ready for review"
             [] row.status \in {"submitted", "resubmitted"} -> "in audit"
             [] row.status = "rejected" -> "rejected"
             [] row.status = "approved" ->
                  IF row.published_at # NULL THEN "published" ELSE "approved"
             [] OTHER -> row.status

\* build_progress_steps
ProgressSteps(row) ==
  LET audit ==
        IF row.status \in {"submitted", "resubmitted"} THEN "in_progress"
        ELSE IF row.audited_at # NULL THEN "completed" ELSE "pending"
      approve == IF row.status = "approved" THEN "completed" ELSE "pending"
      At(state, time) == [state |-> state, at |-> IF state = "completed" THEN time ELSE NULL]
  IN  [submit  |-> [state |-> IF row.submitted_at # NULL THEN "completed" ELSE "pending",
                    at |-> row.submitted_at],
       audit   |-> At(audit, row.audited_at),
       approve |-> At(approve, row.audited_at)]

\* resolve_org_by_user_identity
IdentityOrg(u) ==
  FirstOf({o \in Orgs : /\ account[u].college # NULL
                        /\ account[u].department # NULL
                        /\ organization[o].college = account[u].college
                        /\ organization[o].department = account[u].department},
          LAMBDA o, p : organization[o].created_at < organization[p].created_at)

\* settlement_aggregates: the snapshot of a published settlement, and all there
\* is of another one
Shown(s) ==
  {e \in EvidencesOf(s) :
     \/ settlements[s].published_at = NULL
     \/ evidences[e].created_at <= settlements[s].published_at}

\* Mutant of StudentAggregate: one total for everybody.
StudentAggregateOfToday(s) == Aggregate(EvidencesOf(s))

StudentAggregate(s) == Aggregate(Shown(s))

PeriodOf(s) == [year |-> settlements[s].academic_year,
                semester |-> settlements[s].semester]

\* _period_sort_key, descending
LaterPeriod(p, q) ==
  \/ p.year > q.year
  \/ p.year = q.year /\ SemesterOrder(p.semester) > SemesterOrder(q.semester)

\* list_public_periods
PublicPeriods(u) ==
  LET public == PublicSettlements(u)
  IN  {[period |-> p, settlement_count |-> Cardinality({s \in public : PeriodOf(s) = p})] :
         p \in {PeriodOf(s) : s \in public}}

\* resolve_primary_organization_id
PrimaryOrg(u) ==
  IF SeatsOf(u) # {} THEN FirstOf(SeatsOf(u), MainSeat).org ELSE IdentityOrg(u)

CardOrgs(u) == {o \in Orgs : organization[o].college \in VisibleColleges(u)}

InPeriod(o, p) == {s \in Stored : settlements[s].org = o /\ PeriodOf(s) = p}

\* settlement_by_org of list_period_settlement_cards: of several settlements of
\* an organization in the period, the one the database happens to return last
Picks(u, p) ==
  LET of == [o \in CardOrgs(u) |->
               IF InPeriod(o, p) = {} THEN {NULL} ELSE InPeriod(o, p)]
  IN  {pick \in [CardOrgs(u) -> UNION {of[o] : o \in CardOrgs(u)}] :
         \A o \in CardOrgs(u) : pick[o] \in of[o]}

\* list_period_settlement_cards
PeriodRows(u, p, pick) ==
  {[org |-> o, settlement |-> pick[o],
    total |-> IF pick[o] = NULL THEN NULL ELSE StudentAggregate(pick[o]).total,
    count |-> IF pick[o] = NULL THEN NULL ELSE StudentAggregate(pick[o]).count] :
     o \in CardOrgs(u)}

\* _rows_to_period_cards
Cards(rows, p, primary) ==
  {LET s == row.settlement
       public == s # NULL /\ IsPublic(settlements[s])
   IN  [settlement |-> s, org |-> row.org, period |-> p,
        is_my_organization |-> primary # NULL /\ row.org = primary,
        status_label |-> StatusLabel(s), is_published |-> public,
        audited_at |-> IF s = NULL THEN NULL ELSE settlements[s].audited_at,
        published_at |-> IF s = NULL THEN NULL ELSE settlements[s].published_at,
        total |-> row.total, count |-> row.count,
        view_count |-> IF public THEN settlements[s].view_count ELSE NULL] :
     row \in rows}

\* GET /public/periods/{year}/{semester}/settlements
PeriodCards(u, p, pick) ==
  IF \A i \in DOMAIN Semesters : Semesters[i] # p.semester THEN Refused(422)
  ELSE Found(Cards(PeriodRows(u, p, pick), p, PrimaryOrg(u)))

\* latest_audit_summary_comment
LatestComment(s) ==
  FirstOf({c \in comments : c.settlement = s},
          LAMBDA c, d : c.created_at > d.created_at)

-----------------------------------------------------------------------------
(* services/student_dashboard.py                                            *)

\* resolve_dashboard_organization: an organization, "own" for one that stands
\* for the account's department and is not stored, or a refusal
DashboardOrg(u, asked) ==
  IF asked # NULL
  THEN IF \E m \in SeatsOf(u) : m.org = asked THEN Found(asked) ELSE Refused(403)
  ELSE IF PrimaryOrg(u) # NULL THEN Found(PrimaryOrg(u))
  ELSE IF account[u].college = NULL \/ account[u].department = NULL THEN Refused(404)
  ELSE Found("own")

OrgSettlements(o) == {s \in Stored : settlements[s].org = o}

\* _pick_current_period_settlement: max() of the settlements, newest first
CurrentSettlement(o) ==
  FirstOf(OrgSettlements(o),
          LAMBDA s, t :
            \/ LaterPeriod(PeriodOf(s), PeriodOf(t))
            \/ /\ PeriodOf(s) = PeriodOf(t)
               /\ settlements[s].created_at > settlements[t].created_at)

\* _build_current_period, empty_current_period
CurrentPeriod(o) ==
  LET s == CurrentSettlement(o)
      waiting == [state |-> "pending", at |-> NULL]
      figures == IF s = NULL THEN [total |-> 0, count |-> 0] ELSE StudentAggregate(s)
  IN  [settlement |-> s,
       period |-> IF s # NULL THEN PeriodOf(s)
                  ELSE [year |-> IF o \in Orgs THEN organization[o].year ELSE DefaultYear,
                        semester |-> "1"],
       status_label |-> StatusLabel(s),
       is_published |-> s # NULL /\ IsPublic(settlements[s]),
       total |-> figures.total, count |-> figures.count,
       steps |-> IF s # NULL THEN ProgressSteps(settlements[s])
                 ELSE [submit |-> waiting, audit |-> waiting, approve |-> waiting]]

\* get_student_dashboard
DashboardOf(u, o, pick) ==
  LET published == {s \in OrgSettlements(o) : IsPublic(settlements[s])}
      recent == FirstOnes(5, published, LAMBDA s, t :
                  settlements[s].published_at > settlements[t].published_at)
      period == CurrentPeriod(o).period
  IN  [org |-> o,
       published_count |-> Cardinality(published),
       last_published_at |->
         IF published = {} THEN NULL ELSE Max({settlements[s].published_at : s \in published}),
       total_view_count |-> MapThenSumSet(LAMBDA s : settlements[s].view_count, published),
       current |-> CurrentPeriod(o),
       recent |-> {[settlement |-> s, status_label |-> StatusLabel(s),
                    total |-> StudentAggregate(s).total, comment |-> LatestComment(s)] :
                      s \in recent},
       overview |-> Cards(PeriodRows(u, period, pick), period,
                          IF o \in Orgs THEN o ELSE NULL)]

\* GET /dashboard/student
StudentDashboard(u, asked, pick) ==
  LET org == DashboardOrg(u, asked)
  IN  IF org.code # 200 THEN org ELSE Found(DashboardOf(u, org.body, pick))
=============================================================================
