# Union Ledger: a verification project

Union Ledger is the backend (FastAPI, SQLAlchemy, PostgreSQL) with which student
unions write the settlement of a semester: a treasurer uploads receipts and a
bank statement, the two are reconciled, the settlement is submitted, an auditor
of the college approves or rejects it, the president publishes it. This
directory holds TLA+ specifications of that program, TLC configurations that
check them on small instances, and proofs that TLAPS checks. Paths below are
relative to `src/union_ledger/` unless they start with `docs/` or `tests/`.

## 1. The system

All state is in one database and one directory of files. Every HTTP request is a
coroutine with its own `AsyncSession` (`db/session.py`, `expire_on_commit` off),
the isolation level is the default READ COMMITTED, no statement locks a row
(`with_for_update` does not occur) and no table has a version column. A request
therefore works on a copy of the rows it loaded; what the commit writes are the
columns whose value differs from the loaded one. Nothing runs in the background:
what a request does not finish is not finished.

| component | state | operations | what is hard |
|---|---|---|---|
| settlement lifecycle (`services/settlement_lifecycle.py`, `services/settlement.py`, `api/v1/endpoints/audit.py`, `settlements.py`) | the `settlements` row: status, three timestamps, title, term, template | create, edit, submit, resubmit, approve, reject, publish | status checked on a stale copy; column-wise mixing of two commits; the work that follows the commit (artifacts, remark, notifications) may not happen |
| notifications (`services/notification.py`) | one row per user and event | fan-out of five lifecycle events and of comments, mark read | separate transaction after the event; no retry |
| audit comments (`services/audit_comment.py`) | comments of members, on a settlement or an evidence | create, reword, list | the membership of the author cannot be deleted by a role transfer |
| evidences (`api/v1/endpoints/evidences.py`, `services/evidence.py`, `file_storage.py`) | evidence rows, the files behind them | upload, extract (OCR), manual review, delete | seconds between the check and the write of an extraction; files are not transactional |
| reconciliation (`services/reconciliation.py`) | result rows linking evidences and bank rows | run, manual override | greedy matching order; concurrent runs; runs against overrides and deletions |
| bank statements (`services/bank_statement.py`) | uploads, parsed transactions, files | upload and parse, delete | same as evidences; number and date parsing |
| artifacts (`services/artifact.py`) | one spreadsheet and one PDF row per generation, files | generate, download | five commits per generation; two generations at once |
| templates (`services/settlement_template.py`, `template_mapping.py`, `template_ledger.py`) | templates of an organization, the active one | upload, activate, delete, fill | uniqueness of the active template; ledger layout arithmetic while rows are deleted and inserted |
| invitations and memberships (`services/invitation.py`, `organization.py`, `api/deps/auth.py`) | invitations, memberships | invite, revoke, accept, decline, transfer a role | acceptance against revocation, expiry, a second transfer |
| admin applications (`services/admin_application.py`) | applications, organizations | apply, approve, reject | two reviewers; two applications |
| authentication (`api/v1/endpoints/auth.py`, `services/email_verification_store.py`) | users, verification rows | send code, verify, signup, reset, login | expiry; one-time use |
| viewers and dashboards (`services/public.py`, `student_viewer.py`, `student_dashboard.py`, `audit_workflow.py`, `dashboard.py`) | view counter | read; count a view | lost updates; a dozen queries that repeat who sees what and which evidences count |
| evidence extraction (`services/evidence_extraction.py`) | none | choose an engine, read, fuse the passes | fallback after a failure; passes that disagree; a total among other numbers |
| e-mail sender, configuration, schemas, tools | none | | pure I/O, or validation |

The settlement row is the hub. The evidence operations read its status before
they write; submission generates the artifacts from evidences, bank rows and
results; publication makes the row visible to the viewers; memberships decide
who may call what and who is notified.

## 2. Plan

The order is that of the damage a fault does: first the row everything hangs on,
then the two kinds of work a treasurer does on it, then what is derived from
them, then the people.

1. `SettlementFlow`, `SettlementLifecycle` (+ proofs): the hub. **Done.**
2. `EvidenceWork` (+ proofs): evidences and their files against a settlement
   that moves; composes `SettlementFlow`. **Done.**
3. `Report`, `Matching` (+ proofs): one reconciliation run. `ReconciliationRuns`
   (+ proofs): runs against each other, adjustments and deletions; uses what
   `Matching` is proved to produce. **Done.**
4. `Templates`, `Artifacts` (+ proofs): the one active template; the two output
   rows of a generation across its five commits, two generations at once, the
   download of a row and its file. **Done**, without `mapping_schema`.
5. `EmailVerification`, `Memberships`, `Applications` (+ two proof modules): how
   people get an account, a password and a seat. **Done.** The refinement once
   planned here (an invitation is answered once) is stated directly as
   `UsedTwiceOnlyByOverlap`, since the handlers do overlap.
6. `Records`, `Viewers`, `Dashboards`: what each reader is told. **Done.**
7. `BankSheet`, `Ledger`: the statement that is read and the ledger that is
   written. **Done.**
8. `Recognition`, `Receipt`: reading the fields of an evidence. **Done** but for
   what section 13 lists. `Documents` puts 6, 7 and 8 together.
9. Left: `mapping_schema` and its detection (`template_mapping.py`), the inbox
   (marking notifications read), the merging of boxes into lines and the name of
   the shop in `evidence_extraction.py`.

Which module uses which: `SettlementFlow` is the abstraction of
`SettlementLifecycle` and part of `EvidenceWork`; `Report` joins `Matching` to
`ReconciliationRuns`; `Artifacts` extends `Templates`; `Applications` extends
`Memberships`, which extends `EmailVerification`; `Documents` extends
`Dashboards`, `Viewers` and `Records` and has instances of `BankSheet`, `Ledger`
and `Recognition`, and that one of `Receipt`; `Ordering` (sorted lists) serves
`BankSheet`, `Ledger` and `Documents`. `X_proofs` extends `X` (that of
`Documents` by way of `Readers_proofs`), `MC_X` is the instance TLC runs.

## 3. The settlement lifecycle

`SettlementFlow` is the promise: the state machine drawn in the docstring of
`services/settlement_lifecycle.py`, timestamps reduced to set / not set.

`SettlementLifecycle` is the program. `settlement` is the committed row; every
request has a program counter `pc`, the operation `op` and the user `actor`, the
row it loaded (`seen`) and the requests already committed at that time (`knew`).
`Load` is the endpoint up to the status check of the service; `Edit`, `Submit`,
`Resubmit`, `Approve`, `Reject` and `Publish` are the assignments and the
commit; `GenerateArtifacts`, `AttachRemark` and `Notify` are what the endpoint
does afterwards, each in its own transaction; `Fail` is an exception or the end
of the process between two transactions. `Flushed` is the UPDATE the ORM emits.
A timestamp is the request that took it, which makes "whose submission is this
verdict about" expressible.

`knew` separates the faults of the transition rules (none found) from those of
their interleaving, in the program as it is, without a lock it does not have. Two
requests *overlap* when neither had seen the other's commit as it loaded the row.
`LeavesFlowOnlyByOverlap` says that a commit no other overtook is a step of
`SettlementFlow`, also when it starts from a row that overlapping requests mixed
before it; `SettledTwiceOnlyByOverlap` that a draft is submitted, a round judged,
a rejection answered or a settlement published twice only by requests that
overlap.

## 4. Evidences and their files

`EvidenceWork` models upload, extraction, manual review and removal
(`api/v1/endpoints/evidences.py`, `services/evidence.py`, `file_storage.py`).
`evidence` is the committed table, `files` the directory; an evidence is named
after the request that uploads it, and a column's value is the request that
wrote it. `marked` (the last request that changed the status of a row) and
`knew` (the requests that were over when another loaded its row) are history. A
request `Load`s its evidence (role check included), then `Check`s the settlement
in a second statement; everything later is unprotected. `SaveFile` / `Insert`
are an upload, `StartExtraction` / `FinishExtraction` / `FailExtraction` the two
commits of an extraction around the worker thread, `Review` a PATCH of any
columns, `Remove` / `Unlink` the deletion of the row and, after the commit, of
the document. `Update` is what a flush does: only columns that differ from the
loaded ones are written, and an UPDATE that finds no row raises. `Fail` may
strike between any two steps.

The settlement moves as `SettlementFlow` says. In the program a few
more arrows exist (section 12); no property of this module depends on which
arrows there are, only on the set of statuses that allow changes.

A PATCH may set any `EvidenceStatus`, `extracting` among them
(`schemas/evidence.py:45`, `evidences.py:384-385`): a row may say EXTRACTING
without any extraction. `ExtractingHasWorker` says who can have left the mark: an
extraction that is at work or died, or such a PATCH, and never an extraction that
came to its end. What a dead extraction left is there for good, since nothing in
the code clears it. `EarlierCategoriesStand` is about what extractions overwrite:
a category set by a request that was over before the extraction loaded its row
stays, one set meanwhile is lost (section 12). That a later result replaces what a
review says of date, shop and amount is what the code means to do.

## 5. One reconciliation run

`Matching` is the loop of `run_reconciliation`: one step is one iteration, and
the last step reports the transactions nobody took. The two loaded lists are
sequences, evidences and transactions are their positions, so "first" in the
code's `for` loops and `min()` is "smallest position". `Exact`, `ByDate` and
`ByAmount` are `_find_bank_match` and the two branches of `_find_partial`; the
two limits are the constants of the source. Amounts are whole won (the columns
are NUMERIC(12,2), no receipt or statement of this currency has a fraction).

`Report` states in one operator what a run hands over. `Matching` is proved to
produce it (`ReportIsMade`), `ReconciliationRuns` inserts an arbitrary report:
the concurrency is checked for every matching strategy, and the loop is replaced
by what is known about it rather than by a guess.

## 6. Reconciliation runs, adjustments and deletions

`ReconciliationRuns` models the endpoints that share the table
`reconciliation_results`: a run, a manual override (`update_result`), the
removal of an evidence and the deletion of a bank statement, with uploads and
extractions as the environment. Each is one transaction, and its statements are
the steps:

| code | action |
|---|---|
| `delete(ReconciliationResult)` of a run | `StartRun` (what the DELETE finds), `FinishWipe` (it has the rows) |
| `_load_reconcilable_evidences`, `_load_bank_transactions` | `ReadEvidences`, `ReadBank` |
| insert and `commit()` | `CommitRun`, or `CommitFails` on a foreign key |
| `refresh` of each row | `Refresh`, which fails when a row is gone |
| `delete_evidence` | `StartRemove`, `FinishRemove` |
| `delete_bank_statement_upload` | `StartDrop`, `FinishDrop` |
| `update_result` | `StartOverride` (load and checks), `FinishOverride` (commit) |

READ COMMITTED is modelled by what it does to a bulk DELETE: it finds the rows
committed when it starts, waits for whoever holds one of them, skips those
deleted meanwhile and does not see those inserted meanwhile. Foreign keys and
row locks belong to the database and are marked external in the map.

Abstractions: the DELETE of a removal, the check of the foreign keys and the
commit are one step; a DELETE that waits holds nothing yet (in PostgreSQL it may
hold a part of its rows, which can only make others wait longer or end in a
detected deadlock, an error like `Fail`); the label and the note of an adjusted
row are free text to the code and are not followed; the rule that a removal
needs an editable settlement is in `EvidenceWork`. The bank statement and
reconciliation endpoints check the role of the caller and never the status of
the settlement, so there is no such guard here.

`before` and `owed` are history variables: the runs that had committed when a
run began, and the evidences a committed run still answers for.

## 7. Templates and artifacts

`Templates` is `services/settlement_template.py`. An upload is three steps:
`InsertTemplate` (flush of the new row), `FindActive` (the SELECT of
`deactivate_org_templates`) and `CommitTemplate` (one commit of the new row and
of the deactivations). PATCH and DELETE are `LoadTemplate` and `PatchTemplate`:
the ORM writes `is_active` only if it is to differ from the loaded value, and
`found` holds that value. `older` is the order of `created_at`; of two rows
inserted at different times one is older, ties of the clock are left out.
`known` and `byHand` are history.

`Artifacts` extends it with `generate_settlement_artifacts`, whether it is
called by its endpoint or after a submission, and the download:

| code | action |
|---|---|
| load of the settlement, `delete(SettlementArtifact)` | `StartGeneration` (what the DELETE finds; `pin` is the template the loaded row names) |
| two inserts and the first `commit()` | `ReplacePair` |
| the refreshes, `_load_snapshot` | `LoadSnapshot` |
| `PROCESSING` and its commit, twice | `StartProcessing` |
| `resolve_template_for_generation`, `render_settlement_excel`, `_write_bytes` | `RenderExcel`, `RenderPinned`, both by `FillSheet`; `RenderNothing` |
| `render_evidence_pdf`, `_write_bytes` | `RenderPdf` |
| `COMPLETED` or `FAILED` and its commit, twice | `CommitArtifact` |
| the last refreshes | `Answer`; `RowLost` when a row is gone |
| `download_artifact` up to the check of the status, `resolve_download` | `LoadArtifact`, `Serve` |

An artifact is named by its generation and kind; the name of a file is a new
UUID, so a file belongs to one artifact. A file is reduced to the evidences it
was made from: "the PDF shows e" means that its document was found and could be
read. The spreadsheet shows the evidences of the snapshot that have a place on
its template: under the ledger layout those whose month has a section, under any
other none (`Ledger` has the details, section 9). `FillSheet` therefore lets the
template have any places, and `room` remembers which; the PDF shows evidences
whether they have a place or not, so `PairAgrees` says that it shows none that
has a place and is missing from the spreadsheet. The commit of the pinned
template and the writing of the spreadsheet are one step: an exception between
the two shows as a failed spreadsheet with a new pin. Row locks are not
modelled: a generation may commit between the moment a DELETE finds its row and
the moment it deletes it, which the code's isolation level allows in a narrower
window. `EvidencesMove` and `Repin` are the environment: what `EvidenceWork` and
`SettlementLifecycle` do to the documents and to `settlements.template_id`.
`replaced` is history: the generations whose rows a DELETE could see.

Files of replaced artifacts are never deleted by the program. That is litter,
and it is also what makes `DownloadsAreServed` true: a download that found its
row completed needs the file after a generation has deleted the row.

## 8. Accounts, seats and applications

Three modules, one on top of the other, share the program counter `pc` of a
request, its operation `op` and the user `who` it is about. A request that is
refused before it has changed anything, and one whose process dies, simply takes
no further step.

`EmailVerification`: the row per e-mail of `email_verifications` (`codes`,
`windows`), the accounts and the request that set each password.

| code | action |
|---|---|
| the checks of `send_verification_code`, `verify_email`, `forgot_password`, `reset_password`, `sign_up` | `Ask` |
| `issue_code` | `LoadForIssue`, `CommitCode`, `CommitCodeFails` on the unique index |
| `send_verification_email`; `revoke_code` when it raises | `Mail`; `LoadForRevoke`, `CommitRevoke` |
| `verify_code` | `LoadForVerify`, `CommitVerify` |
| `reset_password` after the code | `CheckReset`, `CommitPassword`, then `LoadWindow`, `CommitWindow` |
| `consume_verified` | `LoadWindow`, `CommitWindow` |

`Memberships`: `members`, `invitations`, and the memberships audit comments
refer to (`cited`), which a foreign key keeps.

| code | action |
|---|---|
| `require_roles_in_org` | `Authorise` |
| `issue_invitation` | `Issue` |
| `revoke_invitation`, `decline_invitation` | `LoadAnswer`, `CommitAnswer` |
| `_accept_loaded_invitation` | `LoadInvitation`, `CommitExpiry` or `CheckSeat`, `ReadHolders`, `CommitAccept` or `CommitAcceptFails` |
| second half of `sign_up` | `LoadCode`, `Enroll` |
| `create_comment` | `Comment` |

`Applications`: `LoadApplications` and `CommitApplication` file one,
`LoadApplication` with `CommitApproval` or `CommitRejection` decides it,
`CreateOrganization` is the operator's own. `Lapse` lets the time of a code,
window, invitation or the pause after a rejection run out whenever somebody may
still look at it.

A token (a code, a window, an invitation, an application) is named after the
request that made it. `spent`, `knew` and `over` are history: what a request has
used up, who had used a token when the request decided on it, and who had acted
when it looked for the holders of a role.

## 9. Papers: viewers, dashboards, statements, ledgers, previews

`Documents` has the tables the readers query (`Records`) and one action per
request that changes them: a view is `LoadView` and `CommitView`; the lifecycle
is `LoadMove`, `CommitMove`, and after it `File` (artifacts) and `Remark`;
evidences are uploaded, amended and discarded by a load and a commit; `Comment`,
`Reword`, `Create`, `Import`, `Drop`, `WriteLedger` and `Preview` are one step
each, having no gap between a check and a write that this module's properties
could tell. `SettlementLifecycle`, `EvidenceWork`, `ReconciliationRuns` and
`Artifacts` follow the same handlers statement by statement.

* `Viewers` has an operator for each page of `public.py`, `student.py` and their
  services, with the answer it gives (`code`, `body`); where the code takes the
  last of several rows without an order (`list_period_settlement_cards`),
  `Picks` ranges over all choices.
* `Dashboards` does so for auditor, treasurer and president.
* `BankSheet` is the upload of a statement: the three readers of a sheet
  (openpyxl, the strict XML fallback, xlrd), `_find_header_row`,
  `_resolve_amount`, `parse_bank_statement_bytes`. A cell is reduced to the
  keywords its text contains and what the coercions make of it. That the readers
  agree is said of rows and their places. The type a reader gives a value is part
  of the cell, and there they differ: the XML fallback returns a date as its
  serial number and xlrd a number as a float, so that a date kept as a number
  (`str(20260429.0)`) is none to `_coerce_date`. `States` says
  what a sheet states, in the layouts the module documents, without any of these:
  each movement in a row of its own below the first heading, which names every
  column once and stands within the rows that are searched. It is what an upload
  is compared with.
* `Ledger` is what `render_settlement_excel` does to a template whose layout was
  detected: `Headed` writes the title into A3 and the date into G1, then `Fill`
  is `fill_audit_ledger`, which looks for the monthly sections of the sheet as it
  is *then* and deletes and inserts rows from the bottom up. The evidences of a
  month and its subtotals are lines, which `Above` orders as the loops write
  them. A title that lands on the header, the title or the settlement row of a
  section takes the section away, and its evidences with it; a title that reads
  like "3월 결산" may open one. `HeadingSpares` says that nothing else is lost;
  everything after it is said of the sheet with its heading. Assumed: a template
  has one worksheet (detection reads the first, rendering writes the active one)
  and no cell that names two columns (`ColumnsApart`; the value written for one
  would overwrite the other). Other entries of `mapping_schema` and merged cells
  are not followed. Without evidences `fill_audit_ledger` is not called, which is
  the same as `Fill` with none.
* `Ordering` lists a finite set by an order: element `i` is the one with `i - 1`
  others before it.
* `Recognition` is the choice of an engine, its fallback, the passes over one
  photo and the fusion of what they read. A pass is reduced to the fields found,
  the number of lines, the length of the text and the confidence. A cloud
  answers, is busy, fails, or is cut off while its reply is read.
* `Receipt` is `parse_extracted_text` on lines that are reduced to the groups of
  keywords in them, their numbers and dates, and their place. What a receipt
  states is said apart from how it is scored. `Dated`: the day stands at the only
  label for it, or there is one date. `Charged`: the amount stands in the line of
  the last total (`InLine`), below its label (`BelowLabel`), is cash given less
  change (`HandedOver`), or the only number there is (`Alone`). The side
  conditions are the limits of the scores, found by looking for receipts that are
  misread: another date of the same year right above the label (`Crowded`), and
  an amount that stands apart from its label while another number is met again
  (`Outweighed`), are receipts the code does misread. `ReceiptsAreRead` is about
  receipts that are laid out so: it says nothing of the date of a crowded one, of
  the amount of an outweighed one, nor of any other receipt.

## 10. What the runs check

| run | instance | what it shows |
|---|---|---|
| `lifecycle_concurrent` | 3 requests of any kind, 4 users | status and timestamps agree (`StampsMatchStatus`), every verdict, resubmission and publication rests on a transition committed before it was loaded (`EveryTransitionHasItsCause`), notifications and remarks are about committed transitions (`NewsIsTrue`), and a transition is announced unless its handler dies |
| `lifecycle_overlaps` | 4 requests of any kind, one auditor | a commit that was not overtaken is a step of `SettlementFlow` (`LeavesFlowOnlyByOverlap`); nothing is settled twice but by requests that overlap (`SettledTwiceOnlyByOverlap`) |
| `lifecycle_machine` | 4 requests, as coded | **violation**: stale loads leave the drawn state machine |
| `evidence_concurrent` | 3 requests of any kind | every row has its document, no litter but that of dead handlers, EXTRACTING was left by an extraction at work or dead or by a PATCH that asked for it (`ExtractingHasWorker`), removed rows stay removed, an extraction overwrites no category that was set before it began (`EarlierCategoriesStand`), closed settlements come to rest |
| `evidence_frozen` | 3 requests | **violation**: a latecomer writes into a submitted settlement |
| `matching` | all pairs of lists up to length 3 | a run makes a report of all it loaded, the labels are true, nothing that could be paired is reported missing |
| `matching_order` | the same | **violation**: a soft match takes the exact match of a later evidence |
| `reconciliation_concurrent` | a run, a run/removal/override, and any third request; 1 evidence, 1 transaction | rows of different runs mix only when the runs overlapped, no reported evidence drops out, links never dangle, nobody waits for ever |
| `artifacts` | 3 requests: two generations and a download, or one generation at most among uploads, patches and downloads; 1 evidence | completed rows and running downloads have their files, pairs of rows stand side by side only if their generations overlapped, no row waits without a generation at work or dead, the PDF shows nothing that the spreadsheet lacks though it has a place for it (`PairAgrees`); two templates are active only after overlapping uploads or by hand, and a stale patch does not revive a retired one |
| `reconciliation_rerun` | 3 runs | **violation**: overlapping runs duplicate rows |
| `accounts` | 3 requests about a mailbox, or about the seats and invitations of an organization, or about an application; 3 users | no organization without a president (`OrganizationsAreLed`); a hand-over is complete but for seats taken after it looked (`HandOverIsComplete`); a code, window, invitation or application is used twice only by requests that overlap (`UsedTwiceOnlyByOverlap`); every password and seat goes back to a code sent to, or an offer made to, its owner (`EveryRightHasItsSource`) |
| `documents` | 30 archives with one request of any kind, 12 with two; 3 racing views; 721 statements; 512 months in 7 templates under 4 titles; 1152 receipts, some 1100 photos; 4 readers | all pages tell every reader the same about a settlement (`ReadersAgree`); views are lost only by overlap (`ViewsAreLostOnlyByOverlap`); a statement is read as what it says (`StatementsAreRead`); its heading costs a ledger no section but one whose row it takes or that it imitates, and each month that is left is told once, in order, and adds up (`LedgerTellsTheMonths`); misread or failed passes and failing clouds do not decide a field (`ReadingsAreEarned`); date and amount of a receipt are those it states (`ReceiptsAreRead`) |

Every property of a passing run has a mutant in `PROJECT.json`: an operator
beside the mapped definition that changes it the way a plausible bug would, and
with which TLC finds the property violated.

**Bounds.** Each request is handled once, so the number of requests bounds
everything; the pure algorithms are bounded by their inputs, below. Three
requests are enough for every interference of a writer with a second writer and
a third party that moves the state in between, and each hazard listed in
`PROJECT.json` needs at most that; the fourth of `lifecycle_overlaps` and
`lifecycle_machine` meets a row that the others have mixed. A whole audit round
trip (submit, reject, resubmit, approve, publish) takes five; the theorems of
the lifecycle hold for any number. The lists of `matching` hold exact, soft and
impossible partners on both sides of either limit, a withdrawal and a deposit,
an amount of zero and a missing date; three of each is the least at which one
evidence takes the partner of a second and a third is left. The theorems of
section 11 hold for every number of requests and lists of every length. In
`accounts` at most two requests are of one kind (sending, proving, signing up),
one is an official's and one a refusal: a third of a kind meets nothing the
second does not. A token lapses only while a request that would look at it is
still to come, later it makes no difference. In `documents` the readers look at
every state; two requests meet over archives in six stages, with and without a
twin settlement of the same period. The scan limits `_MAX_HEADER_SCAN_ROWS`
(30), the eight rows in which a section's header and the forty in which its
settlement row are looked for, and the length of the "recent" lists are
constants with the values 3, 3, 5 and 1, so that small sheets and archives reach
either side of each. Statements have up to three movements in four layouts under
four kinds of preamble, with and without an empty row and a line of totals, in
three formats, one for each reader. A ledger template has its first section
below row 3 or across it, complete or not; its title is plain, begins like a
section or its end, or contains every word of a header. A month has up to three
evidences of seven kinds (refund, negative, without date, without amount,
another year, another month, grouped). Photos have three or four passes, each of
which reads well, misreads, reads nothing or fails; a cloud has three tries with
four kinds of answer. Receipts combine two heads, six placements of the date,
four lists of goods, taxes, four forms of the total and three ways to pay.
Symmetry is used only in runs without liveness properties.

**Deadlock** is not checked: when all requests are over the system stops, as the
code does.

**Fairness.** `FairSpec` adds weak fairness of `Step(r)` for each request: the
event loop resumes a coroutine whose statement has returned, and a worker thread
ends. Nothing is assumed of `Load` or `Start` (clients owe us nothing), nor of
`Fail`. In `ReconciliationRuns` a step is disabled while its rows are held; weak
fairness suffices because a row that is held is let go for good or its holder is
another request, of which there are finitely many.

## 11. What is proved

For every value of the constants that satisfies the named assumption of its
module (`LifecycleAssumption`, `EvidenceAssumption`, `MatchingAssumption`,
`ReconciliationAssumption`, `TemplatesAssumption`, `ArtifactsAssumption`,
`MailAssumption`, `SeatAssumption`, `RecordsAssumption`: types, and that NULL is
not a value; `RecordsAssumption` and `DocumentsAssumption` also say what the
schema and the endpoints let into the tables: a college is not nullable, a
semester is one of the four the requests accept, an evidence and a comment
refer to a stored settlement, and no two seats of a user, no two organizations
of one department, no two settlements and no two evidences of one settlement
were created at the same time. What
a pass makes of a photo is any number of lines, any length and a confidence
from 0 to 10, or the pass fails (`Legible`). A statement is any sheet that is
laid out as `States` says, in any of the formats, or has no heading at all
(`Statement`), and one that was imported before was read as that. A receipt is any
number of lines with any numbers and dates, and states its day and its amount as
`Dated` and `Charged` say, unless it is `Crowded` or `Outweighed` (`Issued`). A
template is
any sequence of rows that hold no figures yet (`TemplateRow`) and in which no cell
names two columns (`ColumnsApart`), a title is any text (`TitleText`);
`WorldAssumption` says what was on record before: every organization has a
president, members have accounts, no two mailboxes share a code).

* `SettlementLifecycle_proofs`. A stale commit mixes its columns with those of
  others, so `StampsMatchStatus` alone is not inductive. The invariant also says
  that every *copy* a request holds was a consistent row, that a row's
  timestamps belong to committed requests, and that what a copy shows was
  committed before it was loaded (`SnapshotOK`). From it: `StampsAgree`,
  `CausesFirst`, `TrueNews`, `NoReturnToDraft`. That a commit which was not
  overtaken is a step of `SettlementFlow` (`FlowUnlessOverlapped`) adds that a
  request which knew every commit so far holds the current row (`UpToDate`).
  `OverlapSettlesTwice` rests on `Settled`: neither the row nor any copy of it
  shows as open what a request it includes has settled. A stale commit keeps this
  of the row, because one that opens a round or a rejection stamps it with its own
  time, which nothing committed before can be about.
* `EvidenceWork_proofs`. The invariant ties the phase of each handler to its
  evidence: rows and uploads that passed `SaveFile` have their file, a file is
  unlinked only when its row is gone for good, and EXTRACTING on a row goes back
  to the request `marked` names (`Marked`). That an extraction which loaded a
  row without a category has not known the one it replaces is `CategoriesOK`.
  Extraction and review are treated once through what `Update` does to a row
  (`UpdateFacts`). Theorems `DocumentsKept`, `NoLitter`, `ExtractionsReport`,
  `RemovedForGood`, `CategoriesStand`, `LateWritersOnly`.
* `Matching_proofs`. What the loop promises about labels and missing pairs rests
  on what `min()` and "the first" return: a non-empty set of naturals has a
  least element (`LeastNatural`, from the well-foundedness of strict inclusion
  on finite sets). The invariant adds that every evidence already passed and
  every transaction taken has a row (`Covered`) and that a passed evidence left
  no exact partner behind (`NoExactLeft`). Theorems `OneRowEach`,
  `ReportIsMade`, `TrueLabels`, `NoMissedPair`, `TwinsInOrder`.
* `ReconciliationRuns_proofs`. `NothingDropsOut` is preserved by a commit only
  if the run that deletes the rows of an earlier one re-reports them. `Guarded`
  says why: an evidence a committed run answers for has a row such that every
  run under way which will delete that row, and has read the evidences, has read
  and answers for this one; a run that has yet to read will find it. Theorems
  `CleanSlate` and `ReportsLast`.

* `Artifacts_proofs`, the templates. `RivalsOverlapped` needs two facts about an
  upload under way: its row is invisible (`Uncommitted`), and whatever it knew
  and did not find active has not become active since but by hand
  (`FoundAllActive`).
  Theorems `OnlyOverlapsRival`, `NeverWithoutTemplate`, `RetiredForGood`.
* `Artifacts_proofs`, the artifacts. `Stands` says what a request may rely on at
  each phase: before its pair is committed no DELETE can have seen it
  (`Unborn`), the rows a DELETE found are exactly those of the generations it
  replaces (`Wiping`), the files of a generation show what it loaded (`Filling`;
  of those with a place, in the spreadsheet), the first document is settled
  before the second is begun. `OthersStand` proves once that a step of one
  request leaves the others standing. Theorems `EveryDownloadServed`,
  `PairsAlone`, `NoForgottenRow`, `PairsAgree`; `ImplementsTemplates` carries
  the theorems about `Templates` over.

* `Applications_proofs`. The invariant `IInv` says of each request what it may
  rely on at its phase: the code or window it holds was meant for its mailbox
  (`MailboxOK`), the invitation or application it is about exists and is
  addressed to its user (`SubjectOK`), and the holders of a role it read include
  every one who is seated since before it looked (`HoldersOK`). Of the tables it
  says that a seat was inserted by the last step of a request (`SeatsOK`), that
  a code on record was sent to that address and a window opened with such a
  code, that invitations are of existing organizations and applicants have
  accounts (`RecordsOK`), and that every password and seat has its source
  (`PasswordsOK`, `RightTo`). A request touches few of these: `Private`,
  `Lasting` and `Onward` say what every step leaves alone, and `OthersOK`
  carries the facts of the other requests over. `OrganizationsAreLed` survives a
  hand-over because the deletion and the insertion are one commit. Theorems
  `TypeCorrect`, `AlwaysLed`, `HandOversAreComplete`, `RightsHaveASource`.
* `Applications_proofs`, single use: what is spent is `Used`, that is, off the
  record and never to come back, because a code or window on record belongs to a
  request that has issued it, and a copy of it to one mailbox only. So a request
  never looks at a spent token (`knew` stays empty). Theorem `GoodForOneUse`.

* `Readers_proofs`. `ReadersAgree` is not about how a state was reached: it holds
  of any tables whose rows have their types, that refer to stored settlements
  only, and in which no two settlements were created at once (`OnRecord`). That
  is the theorem `ReadersSame`. Its pages are sums, counts and first rows, so it
  needs what the library does not say about them. `SmallerSets` turns the
  well-foundedness of strict inclusion on finite sets into an induction over a
  *set* of sets, which the provers can use. From it come the folds: `SumOf` is
  the sum of a function, `FoldUnique` and `FoldExists` say that its equation has
  one solution, `SumTake` that any element may be taken out first, `SumUnion`
  and `SumOfParts` that sums over parts add up, `SumOfOnes` that a count is a
  sum. `SignedSum`, `AmountSum` and the like show that a `MapThenSumSet` of the
  model is such a sum. `FirstExists` and `FirstOnesCount` do the same for
  `LIMIT 1` and `LIMIT n` under an order (`Orders`; `LatelyOrders`,
  `PeriodOrders` and `MainSeatIs` show that those of the code are orders). One
  lemma per reader follows: `PagesSame`, `PeriodsSame`, `CardsSame` and
  `DashboardSame` for students, `TreasurerSame`, `AuditorSame`, `ReviewSame` and
  `PresidentPage` for officials, `FiguresSame` for the expense summary.
* `Documents_proofs`. `TypeOK` has `OnRecord`, and of each request that what it
  is about is stored and stays so, since settlements are never deleted
  (`RequestOK`). Theorems `TypeCorrect` and, with `ReadersSame`,
  `ReadersAlwaysAgree`. A count of views that was loaded is stale, so
  `ViewsAreLostOnlyByOverlap` is not inductive: `ViewsInv` says of the row, and
  of every copy that waits to be committed, which views it may have been made
  of (`Fits`), given what each of them knew. Theorem `ViewsAreCounted`.
* `Documents_proofs`, readings. `PreviewsInv` says that a preview is what
  `Extract` makes of its file under its settings, so `ReadingsAreEarned` is about
  the engines alone. `AttemptsAre` shows that the attempts over a photo are one
  per pass that read any text, each in a place of its own (`Ranked`); then every
  key has a first attempt (`TopExists`), and the choices of the fusion are what
  they should be: `FusedIs` says of the chosen attempt that none has more votes
  and, if no other shares its reading, none a higher score, `VotesAre` that its
  votes are the passes that read the same, `BetterScores` that a page which is
  better in every respect scores higher. `CloudIs` and `LocalSame` are the
  clouds and the fallback. Theorem `ReadingsEarned`.
* Lists, in `Readers_proofs`. A finite set that is ordered has one list
  (`ListExists`, `OrderedIs`), and `Ordered` is it: what it says of an element,
  how many others come before it, is its place in that list (`ListsBefore`). So
  a list that was written down for a proof is the one the model computes, which
  takes the place of an induction over sequences.
* Statements. `RowsAre` says of either reader that it has the rows of the sheet
  in their order and that the XML reader leaves out only empty ones; rows that
  are left out are never the ones a heading or a movement stands in, so
  `HeaderFound` finds the heading of the sheet, `GetIs` the cell under it, and
  `StatementRead` exactly the movements. `StatementsInv` is that every world is
  as assumed and every import so read. Theorem `StatementsRead`.
* Ledgers, one month, in `Readers_proofs`. `DownOrders`: `Above` puts no two
  lines together, because the first evidences of the groups are in order and so
  are the evidences of each. `EvidencesListed` and `SubtotalsListed` split the
  lines of a month into those of its evidences and those of its groups, both in
  order; `SubtotalsAdd` says that the subtotals come to the sums of the month
  (the groups are parts of it, `SumOfParts`). `MonthTold`: the rows tell the
  month.
* Ledgers, the sheet, in `Documents_proofs`. `PutIs` and `HeadedIs` say cell by
  cell what the heading changes, and `SameSections` that sections depend on the
  months and headers of the rows only, which gives `HeadingSpared`. The rest is
  about the sheet with its heading. `SectionsInOrder`, by induction on the rows:
  each section begins below the end of the one before. Filling goes from the
  last section up, so what is known after some of them (`Filled`) is this: of
  the rows of the template that stay there is a rising map to their places in
  the sheet, the sections that are left stand where the template has them, and
  each one that was filled holds its month between the places of its header and
  its settlement row. `SectionFilled` moves the map by what one section adds;
  that it leaves the sections above alone is where the order from the bottom up
  is needed. `PlainAre` recognises the rows of the template in the finished
  sheet, `MonthsCome` adds the settlement rows up to the evidences that have a
  section. `LedgersInv` says of a ledger on record how it was written, and that
  the evidences on record are apart, which an upload keeps since it ticks the
  clock (`ApartWritten`). Theorem `LedgersTellTheMonths`.

* Receipts, in both. `FlatIs` says what `FlattenSeq` makes of a list of lists,
  without an induction over sequences: the function it folds with exists
  (`FlatExists`) and grows one list at a time (`JoinsMore`). So the candidates for
  the date are known with their order, and `DateRead` bounds the score of each of
  them against the labelled one's (`NotesAgainst`). The choice of the amount is a
  `CHOOSE` over an order by four keys; that it has a best candidate is `BestExists`,
  and `AmountWins` reduces the claim to this: every candidate of another value is
  behind one of the right value. `DirectScoreIs` and `NearScoreIs` bound what a
  candidate can score, `SingleMet`, `MetOnce` and `MetTwiceAtMost` how often a
  number that stands nowhere else is met, `MetAgain` how often the amount is. The
  four ways to state an amount are `InLineRead`, `BelowLabelRead`,
  `HandedOverRead` and `AloneRead`; for the second, a price above the label may
  tie with the amount in points, and loses by how often it is met or by its size.
  Theorem `ReceiptsRead`.

Each invariant was first checked by TLC on the instances of section 10.

**Only model-checked:** the liveness properties (`TransitionIsAnnounced`,
`ClosedBooksComeToRest`, `EveryRequestEnds`), since fairness is out of the
prover's reach. Every invariant and every action property a passing run checks is
proved.

**Only proved**, on top of what the runs check: `NoReturnToDraft`,
`NeverWithoutTemplate`, `OneRowEach`, `TwinsInOrder`, `ImplementsTemplates`, and
`LateWritersOnly`, which follows closely from the admission guard and says whom
`ClosedBooksComeToRest` waits for.

## 12. Disagreements between the code and what it says

Four are runs with a finding in `PROJECT.json`: the state machine
(`lifecycle_machine`), the frozen evidences (`evidence_frozen`), the clean slate
of a second run (`reconciliation_rerun`), exact before partial matches
(`matching_order`). Met while modelling, without a run of their own:

* `services/settlement.py:193-194` promises that settlements are edited in DRAFT
  only; an edit that overlaps a submission is committed after it.
* `tests/test_audit.py:403` expects a second publication to be refused; two that
  overlap both pass the test of `published_at`.
* `docs/Union-Ledger_기능명세서_v4.md:192` describes automatic publication and
  `docs/api/mvp-api-spec.md:87-88` a status `under_audit` in use; the code
  publishes on request and never sets that status.
* `api/v1/endpoints/evidences.py:341-342`: a category set by hand while the
  extraction runs is overwritten, since the test reads the copy loaded before.
* `services/settlement_template.py:125-127`: "Detection augments — it must never
  discard cells the treasurer mapped explicitly." The merge starts from the
  mapping that was loaded; a PATCH committed between that load and the write is
  overwritten by it.
* `services/invitation.py:249` calls accepted, revoked and declined invitations
  terminal; two answers that overlap both commit and the later one stays. In the
  same way `auth.py:214` ("single-use") and `issue_code` ("invalidating any
  prior code + verified flag") hold only without overlap, two reviewers may
  approve and reject one application, and `revoke_code` after a mail that
  bounced clears a code sent meanwhile.
* `sign_up` takes an invitation code without looking at `expires_at`, which
  acceptance does look at, and with a code of a role transfer it adds the
  successor and leaves the previous holder seated.
* `services/public.py:103` and `audit_workflow.py:197` announce
  `sum(abs(amount))`; the sums are signed, refunds count as negative.
  `public.py:12` ("every user has a signup-org"): students have none.
* `services/dashboard.py:646` credits an auditor with comments written under a
  seat of this organization, while `require_auditor_for_settlement` may let him
  comment under his seat in another one of the college.
* Nothing keeps an organization from several settlements of one period, and its
  card shows an arbitrary one; draft totals are on the cards of students.
  Viewing sets `updated_at`, so that the president's "last activity" moves with
  views.
* `template_ledger.py`: a month without evidences keeps the example rows of the
  template; two sections of one month are both filled; only the month decides,
  not the year; evidences of a month without a section are dropped without a
  word, while the PDF shows them. The title goes into A3 whatever stands there:
  in a template whose first section reaches row 3 it overwrites a row of it.
* `bank_statement.py`: a heading that contains the word for withdrawals is the
  withdrawal column, also one that says "in/out" as in "입출금구분"; a row above the
  table with words for a date and for withdrawals is taken for the heading.
* `core/config.py:59-62`: "on any provider error we fall back to local OCR". The
  fallback catches `ExtractionError` only; a connection cut while the reply is
  read, or a Modal call that raises, escapes it and the handlers of the
  endpoint, and leaves an evidence EXTRACTING.
* `ocr_max_variants` does not bind the Modal passes. One failing pass fails all
  of them. `field_fusion` in the payload is chosen by score alone and may show
  another value than the one the votes chose and the evidence got. A PDF without
  text is an answer without fields, a photo without text an error.
* A price that is met three times outweighs a total whose label stands on a line
  of its own; of two dates of one year right above each other the first is
  taken, if the second is labelled.
* `resolve_template_for_generation` compares the active template with the pin it
  loaded: if a draft is repinned meanwhile, the spreadsheet is made on one
  template and the settlement names another.

## 13. Not modelled

* `template_mapping.py` and `mapping_schema`; the rendering of spreadsheets and
  PDFs beyond the ledger rows; marking notifications read and inbox queries.
* Of the extraction: the preparation of pictures, the merging of boxes into
  lines, the matching of words, numbers and dates in a text, the name of the
  shop, the engine cache and its locks. `receipt_payment_parser.py` is used by a
  developer tool only.
* Login, token refresh, `/me`, and what a token contains: they change nothing.
* The mean number of days of a review, labels of periods, the order of lists.
* E-mail, configuration, request schemas, migrations, developer tools.

Abstractions that are worth knowing: two codes drawn at random differ; of the
times of applications only the pause after a rejection is kept; readers see one
committed state; seats do not change in `Documents`; a generation of artifacts
is one step there (its steps are in `Artifacts`); the columns of a sheet are
known by the keys their headings contain. `PROJECT.json` lists each component
with its status and each hazard without a property with the reason.
