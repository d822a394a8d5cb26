----------------------------- MODULE Documents -----------------------------
(***************************************************************************)
(* The papers of a settlement while requests change what is on record:     *)
(* the pages and dashboards of Viewers and Dashboards, the counter of      *)
(* views, the statements of BankSheet and the ledgers of Ledger.           *)
(*                                                                         *)
(* A request loads what it needs in one statement and commits what it      *)
(* changes in another; between the two others may commit.  What it does    *)
(* in one transaction without such a gap is one step.  A request that is   *)
(* refused changes nothing and is left out.  SettlementLifecycle and       *)
(* EvidenceWork follow the requests in between more closely.               *)
(***************************************************************************)
EXTENDS Dashboards, Ordering, SequencesExt

CONSTANTS
  HeaderScanRows, HeaderWindow, CloseWindow, ThisYear,
  Requests,
  Worlds      \* what is on record when the requests come, their operations,
              \* the statements and the ledger templates at hand

Bank == INSTANCE BankSheet
Book == INSTANCE Ledger
Reader == INSTANCE Recognition

\* The rows of the tables that are not only handed on.
Time == Nat \cup {NULL}

SettlementRow ==
  [org : Orgs, academic_year : Int, semester : ToSet(Semesters),
   status : SettlementStatus, submitted_at : Time, audited_at : Time,
   published_at : Time, created_at : Nat, updated_at : Nat, view_count : Nat]

EvidenceRow ==
  [settlement : Settlements, amount : Int \cup {NULL}, refund : BOOLEAN,
   date : Int \cup {NULL}, group : GroupNames \cup {NULL}, file : BOOLEAN,
   created_at : Nat]

CommentColumns == {"settlement", "author", "created_at", "evidence", "text"}

\* What is on record, given the tables: rows of these types, no two
\* settlements created at once, and nothing about a settlement that is not
\* stored.
OnRecord(time, table, evidence, remarks, matches) ==
  /\ time \in Nat
  /\ table \in [Settlements -> SettlementRow \cup {NULL}]
  /\ evidence \in [Evidences -> EvidenceRow \cup {NULL}]
  /\ \A s \in Settlements : table[s] # NULL =>
       /\ table[s].created_at <= time
       /\ \A t \in Settlements \ {s} :
            table[t] # NULL => table[s].created_at # table[t].created_at
  /\ \A e \in Evidences : evidence[e] # NULL => table[evidence[e].settlement] # NULL
  /\ \A c \in remarks :
       DOMAIN c = CommentColumns /\ c.settlement \in Settlements
         /\ table[c.settlement] # NULL
  /\ IsFiniteSet(matches) /\ \A x \in matches : x.status \in MatchStatus

\* No two evidences of a settlement were created at once, and none will be.
EvidencesApart(time, evidence) ==
  \A e \in Evidences : evidence[e] # NULL =>
    /\ evidence[e].created_at <= time
    /\ \A f \in Evidences \ {e} :
         evidence[f] # NULL /\ evidence[f].settlement = evidence[e].settlement =>
           evidence[f].created_at # evidence[e].created_at

\* A statement: what a bank says in its file, in one of the layouts that are
\* documented.
Statement(f) ==
  LET cells == f.sheet.cells
  IN  /\ IsFiniteSet(DOMAIN cells) /\ DOMAIN cells \subseteq (Nat \ {0}) \X (Nat \ {0})
      /\ f.movements \in Seq(ToSet(f.movements))
      /\ Bank!States(f.sheet, f.movements)

\* What is kept of the statements that were imported.
Imported(ups) ==
  \A up \in ups :
    /\ up.transactions = up.file.movements
    /\ up.status = IF up.file.movements = <<>> THEN "failed" ELSE "completed"

\* A row of a ledger template.
TemplateRow ==
  [opens : Int \cup {NULL}, closes : Int \cup {NULL}, cells : Seq(SUBSET Book!LedgerKeys),
   holds : {<<>>}]

\* A title, as it reads at the beginning of a row.
TitleText ==
  [opens : Int \cup {NULL}, closes : Int \cup {NULL}, keys : SUBSET Book!LedgerKeys]

\* No cell names two columns: what is written for one would overwrite the other.
ColumnsApart(sheet) ==
  \A r \in DOMAIN sheet : \A c \in DOMAIN sheet[r].cells :
    Cardinality(sheet[r].cells[c]) <= 1

\* The settings of the engines (core/config.py), and what may come of the
\* passes over a photo: a pass fails, or there is so much text, read so surely.
EngineSettings ==
  [provider : {"local", "gemini", "clova"}, configured : BOOLEAN,
   fallback : BOOLEAN, mode : {"local", "modal"}, cap : Int]

Legible(photo) ==
  \A v \in ToSet(Reader!Priority) : photo.pages[v] # NULL =>
    /\ photo.pages[v].lines \in Nat /\ photo.pages[v].length \in Nat
    /\ photo.pages[v].confidence \in 0 .. 10

\* Another date of the year stands right above the label of the day.
Crowded(lines, date) ==
  \E i \in DOMAIN lines \ {1} :
    /\ "day" \in lines[i].words
    /\ \E d \in ToSet(lines[i - 1].dates) : d.year = date.year

\* A label for the total stands apart, and another number is met again.
Outweighed(lines, paid) ==
  LET apart == \E i \in DOMAIN lines : lines[i].values = <<>> /\ "total" \in lines[i].words
      Again(n) == \E i, j \in DOMAIN lines :
                    i # j /\ \A k \in {i, j} : \E v \in ToSet(lines[k].values) : v.n = n
  IN  apart /\ \E i \in DOMAIN lines : \E v \in ToSet(lines[i].values) : v.n # paid /\ Again(v.n)

\* The lines of a page.
Printed(lines) ==
  /\ lines \in Seq(ToSet(lines))
  /\ \A i \in DOMAIN lines :
       /\ lines[i].values \in Seq([n : Nat, digits : Nat])
       /\ lines[i].dates \in Seq([year : Int, day : Int])
       /\ lines[i].top \in Int /\ lines[i].bottom \in Int

\* A receipt states when and how much was paid.
Issued(file) ==
  LET lines == file.page.lines
  IN  /\ Printed(lines)
      /\ file.paid \in Nat \cup {NULL}
      /\ Crowded(lines, file.date) \/ Reader!Slip!Dated(lines, file.date)
      /\ Outweighed(lines, file.paid) \/ Reader!Slip!Charged(lines, file.paid)

ASSUME DocumentsAssumption ==
  /\ IsFiniteSet(Requests)
  /\ RecentLimit \in Nat /\ HeaderScanRows \in Nat /\ ThisYear \in Int
  /\ NULL \notin SettlementRow \cup EvidenceRow
  /\ \A w \in Worlds :
       /\ OnRecord(w.now, w.settlements, w.evidences, w.comments, w.results)
       /\ w.amounts \subseteq Int \cup {NULL}
       /\ \A p \in w.periods : p.year \in Int /\ p.semester \in ToSet(Semesters)
       /\ EvidencesApart(w.now, w.evidences)
       /\ Imported(w.uploads)
       /\ \A f \in w.statements : Statement(f)
       /\ w.templates \subseteq Seq(TemplateRow) /\ w.titles \subseteq TitleText
       /\ \A sheet \in w.templates : ColumnsApart(sheet)
       /\ w.settings \subseteq EngineSettings
       /\ \A x \in w.files :
            /\ x.kind = "photo" => Legible(x)
            /\ x.kind = "pdf" => x.page = NULL \/ Issued(x)

VARIABLES
  world,      \* the one of Worlds this history began with
  pc,         \* request -> where it stands
  on,         \* request -> the settlement, evidence or comment it is about
  copy,       \* request -> the view_count it loaded, or the seat it acts under
  knew,       \* request -> the views that were committed when it loaded
  viewed,     \* the requests whose view is committed
  ledgers,    \* the ledgers written so far
  previews    \* the files that were read for a preview, and how

requestVars == <<pc, on, copy, knew>>
papers == <<viewed, ledgers, previews>>
vars == <<world, tables, requestVars, papers>>

Moves == {"submit", "resubmit", "approve", "reject", "publish"}

Init ==
  /\ world \in Worlds
  /\ now = world.now
  /\ settlements = world.settlements
  /\ evidences = world.evidences
  /\ comments = world.comments
  /\ uploads = world.uploads
  /\ results = world.results
  /\ artifacts = world.artifacts
  /\ pc = [r \in Requests |-> "idle"]
  /\ on = [r \in Requests |-> NULL]
  /\ copy = [r \in Requests |-> NULL]
  /\ knew = [r \in Requests |-> {}]
  /\ viewed = {}
  /\ ledgers = {}
  /\ previews = {}

Asks(r, ops) == pc[r] = "idle" /\ world.plan[r] \in ops

Loaded(r, phase, what, held) ==
  /\ pc' = [pc EXCEPT ![r] = phase]
  /\ on' = [on EXCEPT ![r] = what]
  /\ copy' = [copy EXCEPT ![r] = held]
  /\ knew' = [knew EXCEPT ![r] = viewed]

Ends(r) ==
  /\ pc' = [pc EXCEPT ![r] = "done"]
  /\ UNCHANGED <<on, copy, knew>>

Holds(u, o, roles) == \E m \in SeatsOf(u) : m.org = o /\ m.role \in roles

Officials == {"treasurer", "president"}

Tick == now' = now + 1

-----------------------------------------------------------------------------
(* Views                                                                    *)

\* Mutant of LoadView: the count is kept in the process and not read again.
LoadViewCached(r) ==
  /\ Asks(r, {"view"})
  /\ \E u \in Users, s \in Stored :
       MayRead(u, s) /\ Loaded(r, "viewing", s, world.settlements[s].view_count)
  /\ UNCHANGED <<world, tables, papers>>

\* record_settlement_view up to the increment
LoadView(r) ==
  /\ Asks(r, {"view"})
  /\ \E u \in Users, s \in Stored :
       MayRead(u, s) /\ Loaded(r, "viewing", s, settlements[s].view_count)
  /\ UNCHANGED <<world, tables, papers>>

\* increment_settlement_view: the count that was loaded, and one
CommitView(r) ==
  /\ pc[r] = "viewing"
  /\ settlements' = [settlements EXCEPT ![on[r]].view_count = copy[r] + 1,
                                        ![on[r]].updated_at = now + 1]
  /\ viewed' = viewed \cup {r}
  /\ Tick
  /\ Ends(r)
  /\ UNCHANGED <<world, evidences, comments, uploads, results, artifacts, ledgers, previews>>

-----------------------------------------------------------------------------
(* The audit workflow (api/v1/endpoints/audit.py)                           *)

\* Who may, and from which status of the row that was loaded.
MayMove(u, move, s) ==
  LET row == settlements[s]
  IN  CASE move = "submit" -> Holds(u, row.org, Officials) /\ row.status = "draft"
        [] move = "resubmit" -> Holds(u, row.org, Officials) /\ row.status = "rejected"
        [] move = "publish" -> /\ Holds(u, row.org, {"president"})
                               /\ row.status = "approved" /\ row.published_at = NULL
        [] OTHER -> AuditorSeatFor(u, s) # NULL /\ row.status \in {"submitted", "resubmitted"}

\* The seat under which the remark of a move is stored.
SeatFor(u, move, s) ==
  IF move \in {"approve", "reject"} THEN AuditorSeatFor(u, s)
  ELSE CHOOSE m \in SeatsOf(u) : m.org = settlements[s].org /\ m.role \in Officials

LoadMove(r) ==
  /\ Asks(r, Moves)
  /\ \E u \in Users, s \in Stored :
       /\ MayMove(u, world.plan[r], s)
       /\ Loaded(r, "moving", s, SeatFor(u, world.plan[r], s).id)
  /\ UNCHANGED <<world, tables, papers>>

\* What the services write to the row; the audited_at of a draft is NULL, and
\* is not written when it is cleared again.
Moved(row, move, t) ==
  CASE move = "submit"   -> [row EXCEPT !.status = "submitted", !.submitted_at = t]
    [] move = "resubmit" -> [row EXCEPT !.status = "resubmitted", !.submitted_at = t,
                                        !.audited_at = NULL]
    [] move = "approve"  -> [row EXCEPT !.status = "approved", !.audited_at = t]
    [] move = "reject"   -> [row EXCEPT !.status = "rejected", !.audited_at = t]
    [] OTHER             -> [row EXCEPT !.published_at = t]

CommitMove(r) ==
  /\ pc[r] = "moving"
  /\ settlements' = [settlements EXCEPT ![on[r]] =
       [Moved(@, world.plan[r], now + 1) EXCEPT !.updated_at = now + 1]]
  /\ pc' = [pc EXCEPT ![r] = CASE world.plan[r] \in {"submit", "resubmit"} -> "filing"
                               [] world.plan[r] = "publish" -> "done"
                               [] OTHER -> "remarking"]
  /\ Tick
  /\ UNCHANGED <<world, evidences, comments, uploads, results, artifacts, on, copy,
                 knew, papers>>

\* generate_settlement_artifacts, whose steps are those of Artifacts: a new pair
\* in the place of the old ones, each of them completed or failed
File(r) ==
  /\ pc[r] = "filing"
  /\ \E outcome \in [{"settlement_excel", "evidence_pdf"} -> {"completed", "failed"}] :
       artifacts' = {a \in artifacts : a.settlement # on[r]} \cup
         {[id |-> <<now + 1, type>>, settlement |-> on[r], status |-> outcome[type],
           file |-> outcome[type] = "completed"] : type \in DOMAIN outcome}
  /\ pc' = [pc EXCEPT ![r] = IF world.plan[r] = "submit" THEN "done" ELSE "remarking"]
  /\ Tick
  /\ UNCHANGED <<world, settlements, evidences, comments, uploads, results, on, copy,
                 knew, papers>>

\* _maybe_attach_decision_comment, or no remark
Remark(r) ==
  /\ pc[r] = "remarking"
  /\ comments' \in
       {comments,
        comments \cup {[settlement |-> on[r], author |-> copy[r], created_at |-> now + 1,
                        evidence |-> NULL, text |-> r]}}
  /\ Tick
  /\ Ends(r)
  /\ UNCHANGED <<world, settlements, evidences, uploads, results, artifacts, papers>>

\* add_comment: any member, about an evidence of the settlement or about none
Comment(r) ==
  /\ Asks(r, {"comment"})
  /\ \E m \in seats, s \in Stored :
       /\ m.org = settlements[s].org
       /\ \E e \in EvidencesOf(s) \cup {NULL} :
            comments' = comments \cup
              {[settlement |-> s, author |-> m.id, created_at |-> now + 1,
                evidence |-> e, text |-> r]}
  /\ Tick
  /\ Ends(r)
  /\ UNCHANGED <<world, settlements, evidences, uploads, results, artifacts, papers>>

\* update_comment: the author, by the user of the seat that is recorded
Reword(r) ==
  /\ Asks(r, {"reword"})
  /\ \E u \in Users, c \in comments :
       /\ \E m \in SeatsOf(u) : m.id = c.author
       /\ comments' = (comments \ {c}) \cup {[c EXCEPT !.text = r]}
  /\ Tick
  /\ Ends(r)
  /\ UNCHANGED <<world, settlements, evidences, uploads, results, artifacts, papers>>

\* create_settlement: as many of a period as anyone asks for
Create(r) ==
  /\ Asks(r, {"create"})
  /\ \E u \in Users, o \in Orgs, s \in Settlements \ Stored, p \in world.periods :
       /\ Holds(u, o, Officials)
       /\ settlements' = [settlements EXCEPT ![s] =
            [org |-> o, academic_year |-> p.year, semester |-> p.semester,
             status |-> "draft", submitted_at |-> NULL, audited_at |-> NULL,
             published_at |-> NULL, created_at |-> now + 1, updated_at |-> now + 1,
             view_count |-> 0]]
  /\ Tick
  /\ Ends(r)
  /\ UNCHANGED <<world, evidences, comments, uploads, results, artifacts, papers>>

-----------------------------------------------------------------------------
(* Evidences: the status is tested on the settlement that was loaded        *)

Mutable == {"draft", "rejected"}

LoadUpload(r) ==
  /\ Asks(r, {"upload"})
  /\ \E u \in Users, s \in Stored :
       /\ Holds(u, settlements[s].org, Officials)
       /\ settlements[s].status \in Mutable
       /\ Loaded(r, "uploading", s, NULL)
  /\ UNCHANGED <<world, tables, papers>>

CommitUpload(r) ==
  /\ pc[r] = "uploading"
  /\ \E e \in Evidences :
       /\ evidences[e] = NULL
       /\ evidences' = [evidences EXCEPT ![e] =
            [settlement |-> on[r], amount |-> NULL, refund |-> FALSE, date |-> NULL,
             group |-> NULL, file |-> TRUE, created_at |-> now + 1]]
  /\ Tick
  /\ Ends(r)
  /\ UNCHANGED <<world, settlements, comments, uploads, results, artifacts, papers>>

LoadAmend(r) ==
  /\ Asks(r, {"amend", "discard"})
  /\ \E u \in Users, e \in Evidences :
       /\ evidences[e] # NULL
       /\ Holds(u, settlements[evidences[e].settlement].org, Officials)
       /\ settlements[evidences[e].settlement].status \in Mutable
       /\ Loaded(r, IF world.plan[r] = "amend" THEN "amending" ELSE "discarding", e, NULL)
  /\ UNCHANGED <<world, tables, papers>>

\* Extraction or review: the amount, whatever it is, or a refund
CommitAmend(r) ==
  /\ pc[r] = "amending"
  /\ evidences[on[r]] # NULL
  /\ \E amount \in world.amounts, refund \in BOOLEAN :
       evidences' = [evidences EXCEPT ![on[r]].amount = amount, ![on[r]].refund = refund]
  /\ Tick
  /\ Ends(r)
  /\ UNCHANGED <<world, settlements, comments, uploads, results, artifacts, papers>>

\* delete_evidence: with it go its remarks and its results
CommitDiscard(r) ==
  /\ pc[r] = "discarding"
  /\ evidences[on[r]] # NULL
  /\ evidences' = [evidences EXCEPT ![on[r]] = NULL]
  /\ comments' = {c \in comments : c.evidence # on[r]}
  /\ results' = {x \in results : x.evidence # on[r]}
  /\ Tick
  /\ Ends(r)
  /\ UNCHANGED <<world, settlements, uploads, artifacts, papers>>

-----------------------------------------------------------------------------
(* Statements and ledgers                                                   *)

\* upload_bank_statement: a statement that cannot be read is kept as failed
Import(r) ==
  /\ Asks(r, {"statement"})
  /\ \E u \in Users, s \in Stored, f \in world.statements :
       /\ Holds(u, settlements[s].org, Officials)
       /\ uploads' = uploads \cup
            {[id |-> now + 1, settlement |-> s, file |-> f,
              transactions |-> Bank!Parse(f.sheet).transactions,
              status |-> IF Bank!Parse(f.sheet).transactions = <<>> THEN "failed"
                         ELSE "completed"]}
  /\ Tick
  /\ Ends(r)
  /\ UNCHANGED <<world, settlements, evidences, comments, results, artifacts, papers>>

\* delete_bank_statement_upload
Drop(r) ==
  /\ Asks(r, {"drop"})
  /\ \E u \in Users, up \in uploads :
       /\ Holds(u, settlements[up.settlement].org, Officials)
       /\ uploads' = uploads \ {up}
       /\ results' = {x \in results : x.upload # up.id}
  /\ Tick
  /\ Ends(r)
  /\ UNCHANGED <<world, settlements, evidences, comments, artifacts, papers>>

\* The rows a ledger is written from.
LedgerEvidences(s) ==
  {[id |-> e, date |-> evidences[e].date, created_at |-> evidences[e].created_at,
    amount |-> evidences[e].amount, refund |-> evidences[e].refund,
    group |-> evidences[e].group] : e \in EvidencesOf(s)}

\* render_settlement_excel with the audit ledger layout: the columns are those
\* detected in the template, the sections those left once it has its heading.
WriteLedger(r) ==
  /\ Asks(r, {"ledger"})
  /\ \E s \in Stored, template \in world.templates, title \in world.titles :
       LET columns == Book!LedgerColumns(template)
           headed == Book!Headed(template, title)
       IN  /\ columns # {}
           /\ ledgers' = ledgers \cup
                {[settlement |-> s, template |-> template, title |-> title,
                  headed |-> headed, evidences |-> LedgerEvidences(s),
                  sections |-> Book!Sections(headed),
                  sheet |-> Book!Fill(headed, columns, LedgerEvidences(s))]}
  /\ Ends(r)
  /\ UNCHANGED <<world, tables, viewed, previews>>

\* preview_evidence_extraction: any official reads any file, nothing is stored
Preview(r) ==
  /\ Asks(r, {"preview"})
  /\ \E m \in seats, settings \in world.settings, file \in world.files :
       /\ m.role \in Officials
       /\ previews' = previews \cup
            {[settings |-> settings, file |-> file, result |-> Reader!Extract(settings, file)]}
  /\ Ends(r)
  /\ UNCHANGED <<world, tables, viewed, ledgers>>

-----------------------------------------------------------------------------

Next ==
  \E r \in Requests :
    \/ LoadView(r) \/ CommitView(r)
    \/ LoadMove(r) \/ CommitMove(r) \/ File(r) \/ Remark(r)
    \/ Comment(r) \/ Reword(r) \/ Create(r)
    \/ LoadUpload(r) \/ CommitUpload(r) \/ LoadAmend(r) \/ CommitAmend(r) \/ CommitDiscard(r)
    \/ Import(r) \/ Drop(r) \/ WriteLedger(r)
    \/ Preview(r)

Spec == Init /\ [][Next]_vars

-----------------------------------------------------------------------------
(* The pages agree                                                          *)

\* One settlement on the public pages of one reader: the list, the detail, the
\* items, each evidence and each download tell the same story.
PagesAgree(u, s, listed, detail, items) ==
  LET open == detail.code = 200
  IN  /\ open = (listed # {}) /\ open = (items.code = 200)
      /\ open =>
           /\ \A x \in listed : x.total = detail.body.total /\ x.count = detail.body.count
           /\ Aggregate(items.body) = [total |-> detail.body.total, count |-> detail.body.count]
      /\ \A e \in EvidencesOf(s) :
           LET shown == open /\ e \in items.body
           IN  /\ (PublicEvidence(u, e).code = 200) = shown
               /\ (PublicEvidenceFile(u, e).code # 404) = shown
      /\ \A a \in artifacts : a.settlement = s =>
           (PublicDownload(u, s, a).code # 404) = (open /\ a \in detail.body.artifacts)

\* The cards of a period agree with its part of the public list, whichever
\* settlement of an organization is on its card: a published one is missing
\* only behind another one of the same period.
CardsAgree(cards, p, listed) ==
  /\ \A c \in cards : c.is_published =>
       \E x \in listed : /\ x.settlement = c.settlement /\ x.org = c.org
                         /\ x.total = c.total /\ x.count = c.count
  /\ \A x \in listed : \E c \in cards :
       /\ c.org = x.org
       /\ \/ c.settlement = x.settlement /\ c.is_published
          \/ Cardinality(InPeriod(x.org, p)) > 1

\* The student dashboard shows of its organization what the public list does,
\* and of the current period what the overview beside it does.
DashboardAgrees(page, current, public) ==
  LET listed == {x \in public : x.org = page.org}
  IN  /\ page.published_count = Cardinality(listed)
      /\ \A x \in page.recent :
           \E y \in listed : y.settlement = x.settlement /\ y.total = x.total
      /\ \A c \in page.overview :
           /\ c.is_my_organization = (c.org = page.org)
           /\ c.org = page.org /\ c.settlement = current.settlement =>
                /\ c.total = IF c.settlement = NULL THEN NULL ELSE current.total
                /\ c.status_label = current.status_label
                /\ c.is_published = current.is_published

\* What a student, or anybody else, is shown.
StudentAgrees(u, public) ==
  /\ \A s \in Settlements :
       PagesAgree(u, s, {x \in public : x.settlement = s}, PublicDetail(u, s), PublicItems(u, s))
  /\ \A p \in {PeriodOf(s) : s \in Stored} :
       LET listed == {x \in public : PeriodOf(x.settlement) = p}
       IN  /\ {o.settlement_count : o \in {q \in PublicPeriods(u) : q.period = p}}
                = (IF listed = {} THEN {} ELSE {Cardinality(listed)})
           /\ \A pick \in Picks(u, p) : CardsAgree(PeriodCards(u, p, pick).body, p, listed)
  /\ \A asked \in {NULL} \cup ({m.org : m \in SeatsOf(u)} \ {PrimaryOrg(u)}) :
       \A org \in {DashboardOrg(u, asked)} : org.code = 200 =>
         \A current \in {CurrentPeriod(org.body)} : \A pick \in Picks(u, current.period) :
           DashboardAgrees(StudentDashboard(u, asked, pick).body, current, public)

\* The figures of a settlement: the expense summary is what the officials'
\* cards show, and differs from what the students see by the evidences that
\* came in after the publication, and by nothing else.
FiguresAgree(s, summary, rollup, students) ==
  LET late == {e \in EvidencesOf(s) : /\ settlements[s].published_at # NULL
                                      /\ evidences[e].created_at > settlements[s].published_at}
  IN  /\ summary.total = rollup.total /\ summary.count = rollup.evidence_count
      /\ summary.total = students.total + Aggregate(late).total
      /\ summary.count = students.count + Aggregate(late).count

\* The treasurer's dashboard counts what the settlements behind it hold.
TreasurerAgrees(page, mine) ==
  /\ page.total = MapThenSumSet(LAMBDA s : ExpenseSummary(s).total, mine)
  /\ page.matched = MapThenSumSet(LAMBDA s : Rollup(s).matched, mine)
  /\ page.unmatched = MapThenSumSet(LAMBDA s : Rollup(s).unmatched, mine)

\* The auditor's dashboard counts what his worklists hold.
AuditorAgrees(page, worklist, pending) ==
  /\ page.pending_count = Cardinality(pending)
  /\ page.pending_count + page.in_progress_count + page.completed_count
       = Cardinality(worklist)
  /\ \A x \in page.pending : \E y \in pending :
       \A f \in DOMAIN y : y[f] = x[f]
  /\ Cardinality(page.pending) = Min({Cardinality(pending), RecentLimit})

\* What an official is shown: his dashboards, and for review what is listed.
OfficialAgrees(u) ==
  /\ TreasurerAgrees(TreasurerDashboard(u), SettlementsOf(TreasurerOrgs(u)))
  /\ AuditorAgrees(AuditorDashboard(u), Worklist(u, {}), Worklist(u, PendingStatuses))
  /\ \A s \in Stored :
       (\E x \in Worklist(u, {}) : x.settlement = s)
         = (Review(u, s).code = 200 /\ settlements[s].status \in AuditorVisibleStatuses)

\* The president's page of an organization: what was submitted is either being
\* reviewed or decided; its current period is the students'; and no auditor is
\* credited with more settlements than were submitted.
PresidentAgrees(page, current) ==
  /\ page.submitted_count = page.audit_completed_count + page.review_pending_count
  /\ page.current # NULL => PeriodOf(page.current) = current.period
  /\ (page.current = NULL) = (current.settlement = NULL)
  /\ \A c \in page.auditor_activity : c.assigned <= page.submitted_count

\* Every reader is told the same about a settlement: each page has its own
\* queries for who may see it, which evidences count, and where a period ends.
ReadersAgree ==
  /\ \A u \in Users :
       /\ StudentAgrees(u, PublicList(u))
       /\ OfficialAgrees(u)
       /\ \A page \in {PresidentDashboard(u, NULL)} : page.code = 200 =>
            PresidentAgrees(page.body, CurrentPeriod(page.body.org))
  /\ \A s \in Stored : FiguresAgree(s, ExpenseSummary(s), Rollup(s), StudentAggregate(s))

-----------------------------------------------------------------------------

\* Views of one settlement that did not overlap are all counted, overlapping
\* ones may get lost, and no view is counted twice: a commit writes the count
\* it loaded, and one.
ViewsAreLostOnlyByOverlap ==
  \A s \in Settlements :
    LET views == {r \in viewed : on[r] = s}
        base == IF world.settlements[s] = NULL THEN 0 ELSE world.settlements[s].view_count
        Apart(q, r) == q = r \/ q \in knew[r] \/ r \in knew[q]
    IN  settlements[s] # NULL =>
          /\ settlements[s].view_count <= base + Cardinality(views)
          /\ views # {} => settlements[s].view_count > base
          /\ (\A q, r \in views : Apart(q, r)) =>
               settlements[s].view_count = base + Cardinality(views)

\* A statement whose cells can be read is read as what it says, whichever of the
\* documented layouts the bank uses, whatever precedes and follows the table, and
\* whichever reader lists its rows.
StatementsAreRead == Imported(uploads)

\* The evidences a section of a ledger is about.
Due(l, section) ==
  {e \in l.evidences :
     section.month = IF e.date = NULL THEN l.sections[1].month ELSE Book!MonthOf(e.date)}

\* The evidences that have a section.
Sectioned(l, full) == {e \in l.evidences : \E x \in full : e \in Due(l, x)}

\* What was written for a section: the evidences due, each once, those of a
\* group together and by date, numbered in their order; the subtotals and the
\* settlement row, `close`, hold the sums, and the last balance is the month's.
SectionTells(due, rows, subtotals, close) ==
  LET Row(n) == CHOOSE e \in due : e.id = rows[n].holds.of
      Total(k) == MapThenSumSet(LAMBDA n : subtotals[n].holds[k], DOMAIN subtotals)
  IN  /\ Len(rows) = Cardinality(due)
      /\ {rows[n].holds.of : n \in DOMAIN rows} = {e.id : e \in due}
      /\ \A n \in DOMAIN rows :
           "receipt" \in DOMAIN rows[n].holds => rows[n].holds.receipt = n
      /\ \A m, n \in DOMAIN rows : m < n /\ Row(m).group = Row(n).group =>
           /\ \A k \in m .. n : Row(k).group = Row(m).group
           /\ Row(m).date # NULL /\ Row(n).date # NULL => Row(m).date <= Row(n).date
      /\ close.income = MapThenSumSet(Book!Income, due)
      /\ close.expense = MapThenSumSet(Book!Expense, due)
      /\ "balance" \in DOMAIN close =>
           /\ close.balance = close.income - close.expense
           /\ rows[Len(rows)].holds.balance = close.balance
      /\ subtotals # <<>> => Total("income") = close.income /\ Total("expense") = close.expense

\* The title and the date change no cell of the template but A3 and G1, and cost
\* it no section unless the title takes the place of a row of one or reads like
\* one.
HeadingSpares(l) ==
  LET Same(n) == /\ l.headed[n].opens = l.template[n].opens
                 /\ l.headed[n].closes = l.template[n].closes
      HeaderToo == Book!IsLedgerHeader(l.headed[3]) <=> Book!IsLedgerHeader(l.template[3])
  IN  /\ \A n \in DOMAIN l.template :
           /\ n # 3 => Same(n)
           /\ \A c \in DOMAIN l.template[n].cells :
                <<n, c>> \notin {<<3, 1>>, <<1, 7>>} =>
                  l.headed[n].cells[c] = l.template[n].cells[c]
      /\ 3 \in DOMAIN l.template /\ Same(3) /\ HeaderToo =>
           l.sections = Book!Sections(l.template)

\* A ledger, given the sections it fills, the rows of its headed template that
\* are no examples of those, and its own rows that are none either.
LedgerTells(l, full, kept, plain) ==
  LET at(section) == CHOOSE k \in DOMAIN kept : kept[k] = section.close
      block(section) == SubSeq(l.sheet, plain[at(section) - 1] + 1, plain[at(section)] - 1)
      close(section) == l.sheet[plain[at(section)]].holds
  IN  /\ Len(plain) = Len(kept)
      /\ \A n \in DOMAIN kept :
           [l.sheet[plain[n]] EXCEPT !.holds = <<>>] = l.headed[kept[n]]
      /\ \A section \in full :
           LET rows == block(section)
               of(n) == rows[n].holds.of
           IN  SectionTells(Due(l, section),
                            Picked(rows, {n \in DOMAIN rows : of(n) # NULL}),
                            Picked(rows, {n \in DOMAIN rows : of(n) = NULL}),
                            close(section))
      /\ (\A e \in l.evidences : Cardinality({x \in full : e \in Due(l, x)}) <= 1) =>
           MapThenSumSet(LAMBDA x : close(x).expense - close(x).income, full)
             = MapThenSumSet(LAMBDA e : Book!Expense(e) - Book!Income(e), Sectioned(l, full))

\* Once it has its title and date, a ledger keeps every row of its template but
\* the examples of the months it fills, tells each of these months as it was,
\* and comes to all its evidences do but those of months that have no section,
\* unless a month has several.
LedgerTellsTheMonths ==
  \A l \in ledgers :
    HeadingSpares(l) /\ \A full \in {{x \in {l.sections[i] : i \in DOMAIN l.sections} : Due(l, x) # {}}} :
      LedgerTells(l, full,
        Upward({n \in DOMAIN l.headed : \A x \in full : ~(x.header < n /\ n < x.close)}),
        Upward({n \in DOMAIN l.sheet : l.sheet[n].holds = <<>> \/ l.sheet[n].closes # NULL}))

-----------------------------------------------------------------------------

\* A field of an answer, given the pages that were read.  It is what one of
\* them says, and missing only if none says anything; no other value has more
\* of them behind it; and where no two agree, no page that says something else
\* is better in every respect than those that say this.
FieldEarned(photo, read, f, value) ==
  LET says(v, x) == /\ photo.pages[v][f] # NULL
                    /\ Reader!KeyOf(f, photo.pages[v][f]) = Reader!KeyOf(f, x)
      behind(x) == {v \in read : says(v, x)}
      found(v) == {g \in Reader!Fields : photo.pages[v][g] # NULL}
      Better(v, w) ==
        /\ found(w) \subseteq found(v)
        /\ photo.pages[v].lines >= photo.pages[w].lines
        /\ photo.pages[v].length >= photo.pages[w].length
        /\ photo.pages[v].confidence > photo.pages[w].confidence
        /\ Reader!Bonus(v, photo.type) >= Reader!Bonus(w, photo.type)
        /\ Reader!FieldBonus(v, f) >= Reader!FieldBonus(w, f)
  IN  IF value = NULL THEN \A v \in read : f \notin found(v)
      ELSE /\ \E v \in read : photo.pages[v][f] = value
           /\ \A v \in {w \in read : f \in found(w)} :
                /\ f # "payment" =>
                     Cardinality(behind(photo.pages[v][f])) <= Cardinality(behind(value))
                /\ f = "payment" \/ Cardinality(behind(value)) = 1 =>
                     says(v, value) \/ \E w \in behind(value) : ~Better(v, w)

\* An answer made of the passes over a photo, and the payload beside it, which
\* shows another value of a field only where this one was outvoted.
PassesTell(photo, read, answer) ==
  /\ answer.type = photo.type /\ answer.category = NULL /\ ~answer.refund
  /\ answer.passes.selected \in read
  /\ \A f \in Reader!Fields :
       /\ FieldEarned(photo, read, f, answer.fields[f])
       /\ answer.passes.fusion[f] # answer.fields[f] =>
            \E v, w \in read :
              /\ v # w /\ photo.pages[v][f] # NULL /\ photo.pages[w][f] # NULL
              /\ Reader!KeyOf(f, photo.pages[v][f]) = Reader!KeyOf(f, photo.pages[w][f])

\* What is read from a photo is earned by what was read: misread, empty and
\* failed passes and a cloud that fails decide nothing.  With the fallback on,
\* a cloud that gave no answer leaves no trace, unless its failure was not
\* foreseen; and the passes come to nothing only if one failed or none read.
ReadingsAreEarned ==
  \A x \in previews : x.file.kind = "photo" =>
    LET photo == x.file
        used == Reader!Chosen(x.settings, photo.type)
        passed == \A v \in used : photo.pages[v] # NULL
        read == {v \in used : photo.pages[v].lines > 0}
        cloud == x.settings.provider
    IN  /\ x.result.outcome = "answer" /\ x.result.engine = "paddleocr" =>
             passed /\ PassesTell(photo, read, x.result)
        /\ x.settings.fallback /\ cloud # "local" =>
             \/ x.result = Reader!Extract([x.settings EXCEPT !.provider = "local"], photo)
             \/ x.result.outcome = "answer" /\ x.result.engine = cloud
             \/ x.result.outcome = "broken" /\ \E n \in 1 .. 3 : photo.replies[n].says = "cut"
        /\ x.result.outcome = "refused" /\ passed =>
             \/ read = {}
             \/ cloud # "local" /\ ~x.settings.fallback

\* A receipt is read as what it states: the date that is labelled, unless
\* another one of that year stands right above it, and what was to be paid,
\* whether that is the only number or stands among prices, taxes, cash and other
\* numbers, and whether its label is on the same line or above it.  Beside a
\* label without a number, prices that are met again may outweigh it.
ReceiptsAreRead ==
  \A x \in previews : x.file.kind = "pdf" /\ x.result.outcome = "answer" =>
    LET lines == x.file.page.lines
    IN  /\ ~Crowded(lines, x.file.date) => x.result.fields.date = x.file.date
        /\ ~Outweighed(lines, x.file.paid) => x.result.fields.amount = x.file.paid
====
