------------------------ MODULE SettlementLifecycle ------------------------
(***************************************************************************)
(* One row of `settlements` and the HTTP requests that move it through the *)
(* audit workflow: PATCH /settlements/{id}, submit, resubmit, approve,     *)
(* reject and publish.                                                     *)
(*                                                                         *)
(* Every request owns an AsyncSession.  It loads the row, checks the       *)
(* status of the copy it loaded, assigns to that copy and commits.  No     *)
(* row lock and no version column is used, so between the load and the     *)
(* commit any other request may commit.  The UPDATE the ORM emits names    *)
(* the columns whose value differs from the loaded one and no others;      *)
(* the database applies it to whatever the row has become.  After the      *)
(* commit the handler goes on in further transactions: it generates the    *)
(* artifacts, stores the optional remark and fans the notification out.    *)
(*                                                                         *)
(* A timestamp is the request that took it (its datetime.now() is written  *)
(* by that request's commit and by no other), or NULL.                     *)
(***************************************************************************)

CONSTANTS
  Requests,         \* the requests clients send; each is handled once
  Users,            \* accounts
  Holders,          \* role -> users holding it in the settlement's organization
  CollegeAuditors,  \* users who are auditor of some organization of its college
  Ops,              \* the operations these clients call
  NULL              \* SQL NULL

\* RoleType (models/enums.py)
Roles == {"student", "treasurer", "auditor", "president"}

\* SettlementStatus (models/enums.py)
Status ==
  {"draft", "ready_for_review", "submitted", "under_audit", "approved",
   "rejected", "resubmitted"}

AllOps == {"edit", "submit", "resubmit", "approve", "reject", "publish"}

ASSUME LifecycleAssumption ==
  /\ NULL \notin Requests \cup AllOps
  /\ Holders \in [Roles -> SUBSET Users]
  /\ Holders["auditor"] \subseteq CollegeAuditors
  /\ CollegeAuditors \subseteq Users
  /\ Ops \subseteq AllOps

VARIABLES
  settlement,  \* the committed row
  op,          \* request -> the operation it asks for (NULL before it starts)
  actor,       \* request -> the authenticated user
  pc,          \* request -> where its handler stands
  seen,        \* request -> the row it loaded
  knew,        \* request -> the requests that had committed when it loaded
  committed,   \* requests whose transition is committed
  remarks,     \* requests whose remark is stored in audit_comments
  told         \* request -> users it created a notification for

requestVars == <<op, actor, seen, knew>>
vars == <<settlement, op, actor, pc, seen, knew, committed, remarks, told>>

Stamp == Requests \cup {NULL}

Columns == {"status", "content", "submitted_at", "audited_at", "published_at"}

\* "content" stands for title, academic_year, semester and template_id.
Row ==
  [status : Status, content : Stamp, submitted_at : Stamp,
   audited_at : Stamp, published_at : Stamp]

Phase ==
  {"idle", "checked", "artifacts", "remark", "notify", "done", "refused",
   "failed"}

TypeOK ==
  /\ settlement \in Row
  /\ op \in [Requests -> AllOps \cup {NULL}]
  /\ actor \in [Requests -> Users \cup {NULL}]
  /\ pc \in [Requests -> Phase]
  /\ seen \in [Requests -> Row]
  /\ knew \in [Requests -> SUBSET Requests]
  /\ committed \in SUBSET Requests
  /\ remarks \in SUBSET Requests
  /\ told \in [Requests -> SUBSET Users]
  /\ \A r \in Requests : pc[r] # "idle" => op[r] # NULL

-----------------------------------------------------------------------------
(* The services: what each operation requires of the row it loaded, and     *)
(* what it assigns to it.                                                   *)

\* Mutant of Sources: approved settlements may be audited again.
SourcesReaudit ==
  [edit     |-> {"draft"},
   submit   |-> {"draft"},
   resubmit |-> {"rejected"},
   approve  |-> {"submitted", "resubmitted", "approved"},
   reject   |-> {"submitted", "resubmitted", "approved"},
   publish  |-> {"approved"}]

\* Mutant of Sources: publication does not wait for the verdict.
SourcesEarlyPublish ==
  [edit     |-> {"draft"},
   submit   |-> {"draft"},
   resubmit |-> {"rejected"},
   approve  |-> {"submitted", "resubmitted"},
   reject   |-> {"submitted", "resubmitted"},
   publish  |-> {"submitted", "resubmitted", "approved"}]

\* _SUBMITTABLE, _AUDITABLE, _RESUBMITTABLE, _PUBLISHABLE and the DRAFT-only
\* rule of update_settlement
Sources ==
  [edit     |-> {"draft"},
   submit   |-> {"draft"},
   resubmit |-> {"rejected"},
   approve  |-> {"submitted", "resubmitted"},
   reject   |-> {"submitted", "resubmitted"},
   publish  |-> {"approved"}]

AlreadyPublished(row) == row.published_at # NULL

Legal(o, row) ==
  /\ row.status \in Sources[o]
  /\ o = "publish" => ~AlreadyPublished(row)

\* The flush of the ORM: columns left as they were loaded are not written.
Flushed(row, loaded, new) ==
  [c \in Columns |-> IF new[c] # loaded[c] THEN new[c] ELSE row[c]]

-----------------------------------------------------------------------------
(* The endpoints.                                                           *)

\* Who passes the role check of the endpoint.
Permitted ==
  [edit     |-> Holders["treasurer"] \cup Holders["president"],
   submit   |-> Holders["treasurer"] \cup Holders["president"],
   resubmit |-> Holders["treasurer"] \cup Holders["president"],
   approve  |-> CollegeAuditors,
   reject   |-> CollegeAuditors,
   publish  |-> Holders["president"]]

\* Whose inbox notify_* fills.
Audience ==
  [edit     |-> {},
   submit   |-> Holders["auditor"],
   resubmit |-> Holders["auditor"],
   approve  |-> Holders["treasurer"] \cup Holders["president"],
   reject   |-> Holders["treasurer"] \cup Holders["president"],
   publish  |-> UNION {Holders[role] : role \in Roles}]

\* Mutant of AfterCommit: a rejection is not announced.
AfterCommitSilentReject ==
  [edit |-> "done", submit |-> "artifacts", resubmit |-> "artifacts",
   approve |-> "remark", reject |-> "done", publish |-> "notify"]

\* What the handler does once its transition is committed.
AfterCommit ==
  [edit |-> "done", submit |-> "artifacts", resubmit |-> "artifacts",
   approve |-> "remark", reject |-> "remark", publish |-> "notify"]

Init ==
  /\ settlement = [status |-> "draft", content |-> NULL,
                   submitted_at |-> NULL, audited_at |-> NULL,
                   published_at |-> NULL]
  /\ op = [r \in Requests |-> NULL]
  /\ actor = [r \in Requests |-> NULL]
  /\ pc = [r \in Requests |-> "idle"]
  /\ seen = [r \in Requests |-> settlement]
  /\ knew = [r \in Requests |-> {}]
  /\ committed = {}
  /\ remarks = {}
  /\ told = [r \in Requests |-> {}]

\* Load the row, check the caller's role and the status of the loaded copy.
\* A request that fails the status check is answered 400 and changes nothing.
Load(r, o, u) ==
  /\ pc[r] = "idle"
  /\ u \in Permitted[o]
  /\ op' = [op EXCEPT ![r] = o]
  /\ actor' = [actor EXCEPT ![r] = u]
  /\ seen' = [seen EXCEPT ![r] = settlement]
  /\ knew' = [knew EXCEPT ![r] = committed]
  /\ pc' = [pc EXCEPT ![r] = IF Legal(o, settlement) THEN "checked"
                                                     ELSE "refused"]
  /\ UNCHANGED <<settlement, committed, remarks, told>>

\* The handler of o assigned to its copy of the row and commits it.
CommitRow(r, o, new) ==
  /\ pc[r] = "checked"
  /\ op[r] = o
  /\ settlement' = Flushed(settlement, seen[r], new)
  /\ committed' = committed \cup {r}
  /\ pc' = [pc EXCEPT ![r] = AfterCommit[o]]
  /\ UNCHANGED <<requestVars, remarks, told>>

Edit(r) == CommitRow(r, "edit", [seen[r] EXCEPT !.content = r])

Submit(r) ==
  CommitRow(r, "submit",
    [seen[r] EXCEPT !.status = "submitted", !.submitted_at = r,
                    !.audited_at = NULL])

\* Mutant of Resubmit: the prior audit date is not cleared.
ResubmitStillAudited(r) ==
  CommitRow(r, "resubmit",
    [seen[r] EXCEPT !.status = "resubmitted", !.submitted_at = r])

Resubmit(r) ==
  CommitRow(r, "resubmit",
    [seen[r] EXCEPT !.status = "resubmitted", !.submitted_at = r,
                    !.audited_at = NULL])

\* Mutant of Approve: a status the enum does not have.
ApproveAsAudited(r) ==
  CommitRow(r, "approve",
    [seen[r] EXCEPT !.status = "audited", !.audited_at = r])

Approve(r) ==
  CommitRow(r, "approve",
    [seen[r] EXCEPT !.status = "approved", !.audited_at = r])

Reject(r) ==
  CommitRow(r, "reject",
    [seen[r] EXCEPT !.status = "rejected", !.audited_at = r])

Publish(r) == CommitRow(r, "publish", [seen[r] EXCEPT !.published_at = r])

\* generate_settlement_artifacts returned: its own rows are FAILED or
\* COMPLETED, neither stops the handler.  Only a resubmission has a remark.
GenerateArtifacts(r) ==
  /\ pc[r] = "artifacts"
  /\ pc' = [pc EXCEPT ![r] = IF op[r] = "resubmit" THEN "remark" ELSE "notify"]
  /\ UNCHANGED <<settlement, requestVars, committed, remarks, told>>

\* The body may carry a remark; it is committed before the notification.
AttachRemark(r) ==
  /\ pc[r] = "remark"
  /\ \/ remarks' = remarks \cup {r}
     \/ UNCHANGED remarks
  /\ pc' = [pc EXCEPT ![r] = "notify"]
  /\ UNCHANGED <<settlement, requestVars, committed, told>>

\* Mutant of Notify: the actor is not left out.
NotifyEveryone(r) ==
  /\ pc[r] = "notify"
  /\ told' = [told EXCEPT ![r] = Audience[op[r]]]
  /\ pc' = [pc EXCEPT ![r] = "done"]
  /\ UNCHANGED <<settlement, requestVars, committed, remarks>>

\* One notification for each distinct member of the audience but the actor.
Notify(r) ==
  /\ pc[r] = "notify"
  /\ told' = [told EXCEPT ![r] = Audience[op[r]] \ {actor[r]}]
  /\ pc' = [pc EXCEPT ![r] = "done"]
  /\ UNCHANGED <<settlement, requestVars, committed, remarks>>

\* An exception nobody catches, or the end of the process: the open
\* transaction is rolled back, what was committed stays, nothing is retried.
Fail(r) ==
  /\ pc[r] \in {"checked", "artifacts", "remark", "notify"}
  /\ pc' = [pc EXCEPT ![r] = "failed"]
  /\ UNCHANGED <<settlement, requestVars, committed, remarks, told>>

Step(r) ==
  \/ Edit(r)
  \/ Submit(r)
  \/ Resubmit(r)
  \/ Approve(r)
  \/ Reject(r)
  \/ Publish(r)
  \/ GenerateArtifacts(r)
  \/ AttachRemark(r)
  \/ Notify(r)

Next ==
  \E r \in Requests :
    \/ \E o \in Ops, u \in Users : Load(r, o, u)
    \/ Step(r)
    \/ Fail(r)

Spec == Init /\ [][Next]_vars

\* The event loop resumes every handler that is not waiting for a client.
FairSpec == Spec /\ \A r \in Requests : WF_vars(Step(r))

-----------------------------------------------------------------------------
(* What holds however requests interleave.                                  *)

\* A row whose status and timestamps tell the same story, the requests of S
\* being the ones that may have written it and asked what each asked for.
SoundRow(row, S, asked) ==
  LET By(o) == {r \in S : asked[r] = o} IN
  /\ row.status = "draft" <=> row.submitted_at = NULL
  /\ row.status = "submitted" => row.submitted_at \in By("submit")
  /\ row.status = "resubmitted" =>
       row.submitted_at \in By("resubmit") /\ row.audited_at = NULL
  /\ row.status = "approved" => row.audited_at \in By("approve")
  /\ row.status = "rejected" => row.audited_at \in By("reject")
  /\ row.published_at # NULL => row.published_at \in By("publish")

\* Status and timestamps agree, although stale requests overwrite some
\* columns of a row and leave the others: a row is a draft exactly while it
\* was never submitted, the status of a submission or a verdict comes with
\* the timestamp of a request that made it, and a resubmitted row carries no
\* audit date.  (A submitted row may: see StatusFollowsStateMachine.)
StampsMatchStatus == SoundRow(settlement, committed, op)

\* Nothing is decided without its cause: a committed verdict was passed on a
\* submission that had committed before the auditor loaded the row, a
\* resubmission answers a rejection and a publication an approval that had
\* committed before their requests loaded it.
EveryTransitionHasItsCause ==
  \A r \in committed :
    /\ op[r] \in {"approve", "reject"} =>
         /\ seen[r].submitted_at \in knew[r]
         /\ op[seen[r].submitted_at] \in {"submit", "resubmit"}
    /\ op[r] = "resubmit" =>
         /\ seen[r].audited_at \in knew[r]
         /\ op[seen[r].audited_at] = "reject"
    /\ op[r] = "publish" =>
         /\ seen[r].audited_at \in knew[r]
         /\ op[seen[r].audited_at] = "approve"

\* Remarks and notifications speak of committed transitions only, and nobody
\* is notified of what they did themselves, whatever fails and whenever.
NewsIsTrue ==
  /\ remarks \subseteq committed
  /\ \A r \in Requests :
       /\ told[r] # {} => r \in committed
       /\ actor[r] \notin told[r]

\* A submitted settlement never becomes a draft again: a stale draft edit may
\* still write its columns, but it never writes the status.
NeverDraftAgain ==
  [][settlement.status # "draft" => settlement.status' # "draft"]_settlement

\* Every committed transition is announced to its whole audience, unless its
\* handler dies on the way: there is no retry.
TransitionIsAnnounced ==
  \A r \in Requests :
    r \in committed ~>
      \/ r \in committed /\ told[r] = Audience[op[r]] \ {actor[r]}
      \/ pc[r] = "failed"

-----------------------------------------------------------------------------
(* How far the missing lock lets the row stray: only where the load of one  *)
(* request and the commit of another overlap.                               *)

\* Two requests that settle the same matter: the first submission, one
\* round's verdict, the answer to one rejection, the publication.
SameMatter(a, b) ==
  \/ op[a] = "submit" /\ op[b] = "submit"
  \/ /\ {op[a], op[b]} \subseteq {"approve", "reject"}
     /\ seen[a].submitted_at = seen[b].submitted_at
  \/ /\ op[a] = "resubmit" /\ op[b] = "resubmit"
     /\ seen[a].audited_at = seen[b].audited_at
  \/ op[a] = "publish" /\ op[b] = "publish"

\* A matter is settled twice only by requests neither of which had seen the
\* other's commit: whatever stale commits made of the row in the meantime, a
\* round that was judged, a rejection that was answered, a draft that was
\* submitted and a publication never look open again to a later request.
SettledTwiceOnlyByOverlap ==
  \A a, b \in committed : a # b /\ SameMatter(a, b) => a \notin knew[b]

Flow == INSTANCE SettlementFlow WITH
          status    <- settlement.status,
          submitted <- settlement.submitted_at # NULL,
          audited   <- settlement.audited_at # NULL,
          published <- settlement.published_at # NULL

\* A request that no other commit overtook between its load and its own moves
\* the row along an arrow of the docstring of settlement_lifecycle.py, also
\* from a row that overlapping requests mixed earlier.
LeavesFlowOnlyByOverlap ==
  [][\A r \in committed' \ committed :
       knew[r] = committed => [Flow!Next]_(Flow!flowVars)]_vars

-----------------------------------------------------------------------------
(* What the repository says and the code does not do.                       *)

\* settlement_lifecycle.py:5-12: the status moves along the arrows drawn there.
StatusFollowsStateMachine ==
  [][\/ settlement.status = "draft" /\ settlement.status' = "submitted"
     \/ /\ settlement.status \in {"submitted", "resubmitted"}
        /\ settlement.status' \in {"approved", "rejected"}
     \/ settlement.status = "rejected" /\ settlement.status' = "resubmitted"
     \/ settlement.status' = settlement.status]_settlement

=============================================================================
