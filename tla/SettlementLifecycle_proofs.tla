-------------------- MODULE SettlementLifecycle_proofs --------------------
(***************************************************************************)
(* Theorems about SettlementLifecycle, for any set of requests, users and  *)
(* role holders.                                                           *)
(***************************************************************************)
EXTENDS SettlementLifecycle, TLAPS

\* A row all of whose timestamps were taken by requests of S.
StampedBy(row, S) ==
  /\ row.content \in S \cup {NULL}
  /\ row.submitted_at \in S \cup {NULL}
  /\ row.audited_at \in S \cup {NULL}
  /\ row.published_at \in S \cup {NULL}

\* The row a request loaded was sound when it loaded it, it committed nothing
\* before its commit, and it passed the check of its operation.  What was
\* submitted once stays submitted.
SnapshotOK(r) ==
  /\ knew[r] \subseteq committed
  /\ pc[r] \in {"idle", "checked", "refused"} => r \notin committed
  /\ pc[r] \in {"artifacts", "remark", "notify", "done"} => r \in committed
  /\ pc[r] # "idle" =>
       /\ op[r] \in AllOps
       /\ SoundRow(seen[r], knew[r], op)
       /\ StampedBy(seen[r], knew[r])
       /\ seen[r].submitted_at # NULL => settlement.submitted_at # NULL
  /\ pc[r] \notin {"idle", "refused"} => Legal(op[r], seen[r])

\* The inductive invariant.
IInv ==
  /\ TypeOK
  /\ StampsMatchStatus
  /\ StampedBy(settlement, committed)
  /\ \A r \in Requests : SnapshotOK(r)

-----------------------------------------------------------------------------
(* Facts about the operators.                                               *)

\* The flush yields a row, column by column the new value where it differs
\* from the loaded one and the current value elsewhere.
LEMMA FlushedRow ==
  ASSUME NEW row \in Row, NEW loaded \in Row, NEW new \in Row
  PROVE  /\ Flushed(row, loaded, new) \in Row
         /\ \A c \in Columns :
              Flushed(row, loaded, new)[c] =
                IF new[c] # loaded[c] THEN new[c] ELSE row[c]
BY DEF Flushed, Row, Columns

-----------------------------------------------------------------------------
(* Type correctness.                                                        *)

LEMMA InitType == Init => TypeOK
BY LifecycleAssumption
DEF Init, TypeOK, Row, Status, Stamp, Phase

\* The step every operation ends its transaction with.
LEMMA CommitRowType ==
  ASSUME TypeOK, NEW r \in Requests, NEW o \in AllOps, NEW new \in Row,
         CommitRow(r, o, new)
  PROVE  TypeOK'
<1>1. settlement' \in Row
  BY FlushedRow DEF CommitRow, TypeOK
<1>2. AfterCommit[o] \in Phase
  BY DEF AfterCommit, AllOps, Phase
<1> QED
  BY <1>1, <1>2 DEF CommitRow, TypeOK, requestVars

LEMMA NextType == TypeOK /\ [Next]_vars => TypeOK'
<1> SUFFICES ASSUME TypeOK, [Next]_vars PROVE TypeOK'
  OBVIOUS
<1>1. ASSUME NEW r \in Requests, NEW o \in Ops, NEW u \in Users, Load(r, o, u)
      PROVE  TypeOK'
  BY <1>1, LifecycleAssumption DEF Load, Phase, TypeOK
<1>2. ASSUME NEW r \in Requests,
             Edit(r) \/ Submit(r) \/ Resubmit(r) \/ Approve(r) \/ Reject(r)
               \/ Publish(r)
      PROVE  TypeOK'
  <2>1. CASE Edit(r)
    <3>1. [seen[r] EXCEPT !.content = r] \in Row
      BY DEF TypeOK, Row, Status, Stamp
    <3> QED
      BY <2>1, <3>1, CommitRowType DEF Edit, AllOps
  <2>2. CASE Submit(r)
    <3>1. [seen[r] EXCEPT !.status = "submitted", !.submitted_at = r,
                              !.audited_at = NULL] \in Row
      BY DEF TypeOK, Row, Status, Stamp
    <3> QED
      BY <2>2, <3>1, CommitRowType DEF Submit, AllOps
  <2>3. CASE Resubmit(r)
    <3>1. [seen[r] EXCEPT !.status = "resubmitted", !.submitted_at = r,
                              !.audited_at = NULL] \in Row
      BY DEF TypeOK, Row, Status, Stamp
    <3> QED
      BY <2>3, <3>1, CommitRowType DEF Resubmit, AllOps
  <2>4. CASE Approve(r)
    <3>1. [seen[r] EXCEPT !.status = "approved", !.audited_at = r] \in Row
      BY DEF TypeOK, Row, Status, Stamp
    <3> QED
      BY <2>4, <3>1, CommitRowType DEF Approve, AllOps
  <2>5. CASE Reject(r)
    <3>1. [seen[r] EXCEPT !.status = "rejected", !.audited_at = r] \in Row
      BY DEF TypeOK, Row, Status, Stamp
    <3> QED
      BY <2>5, <3>1, CommitRowType DEF Reject, AllOps
  <2>6. CASE Publish(r)
    <3>1. [seen[r] EXCEPT !.published_at = r] \in Row
      BY DEF TypeOK, Row, Status, Stamp
    <3> QED
      BY <2>6, <3>1, CommitRowType DEF Publish, AllOps
  <2> QED
    BY <1>2, <2>1, <2>2, <2>3, <2>4, <2>5, <2>6
<1>3. ASSUME NEW r \in Requests, GenerateArtifacts(r)
      PROVE  TypeOK'
  BY <1>3 DEF GenerateArtifacts, Phase, TypeOK, requestVars
<1>4. ASSUME NEW r \in Requests, AttachRemark(r)
      PROVE  TypeOK'
  BY <1>4 DEF AttachRemark, Phase, TypeOK, requestVars
<1>5. ASSUME NEW r \in Requests, Notify(r)
      PROVE  TypeOK'
  <2>1. op[r] \in AllOps
    BY <1>5 DEF Notify, TypeOK
  <2>2. Audience[op[r]] \subseteq Users
    BY <2>1, LifecycleAssumption DEF Audience, AllOps, Roles
  <2> QED
    BY <1>5, <2>2 DEF Notify, Phase, TypeOK, requestVars
<1>6. ASSUME NEW r \in Requests, Fail(r)
      PROVE  TypeOK'
  BY <1>6 DEF Fail, Phase, TypeOK, requestVars
<1>7. CASE UNCHANGED vars
  BY <1>7 DEF vars, TypeOK
<1> QED
  BY <1>1, <1>2, <1>3, <1>4, <1>5, <1>6, <1>7 DEF Next, Step

\* Every variable keeps its type.
THEOREM TypeCorrect == Spec => []TypeOK
BY InitType, NextType, PTL DEF Spec

-----------------------------------------------------------------------------
(* Status and timestamps agree.                                             *)

\* A sound row stays sound when more requests have committed, as long as the
\* old ones still ask for what they asked for.
LEMMA SoundRowGrows ==
  ASSUME NEW row, NEW S, NEW T, NEW f, NEW g,
         S \subseteq T, \A s \in S : f[s] = g[s], SoundRow(row, S, f)
  PROVE  SoundRow(row, T, g)
BY DEF SoundRow

LEMMA InitInv == Init => IInv
<1> SUFFICES ASSUME Init PROVE IInv
  OBVIOUS
<1> QED
  BY InitType
  DEF Init, IInv, StampsMatchStatus, SoundRow, StampedBy, SnapshotOK

\* A commit keeps the invariant if it leaves a sound row and assigned to the
\* loaded copy timestamps of its own only.
LEMMA CommitRowInv ==
  ASSUME IInv, NEW r \in Requests, NEW o \in AllOps, NEW new \in Row,
         CommitRow(r, o, new), StampedBy(new, knew[r] \cup {r}),
         new.submitted_at # seen[r].submitted_at => new.submitted_at # NULL,
         SoundRow(settlement', committed', op)
  PROVE  IInv'
<1>1. TypeOK'
  BY CommitRowType DEF IInv
<1>2. StampsMatchStatus'
  BY DEF StampsMatchStatus, CommitRow, requestVars
<1>3. StampedBy(settlement, committed)'
  <2>1. knew[r] \subseteq committed
    BY DEF IInv, SnapshotOK
  <2>2. /\ settlement \in Row
        /\ seen[r] \in Row
    BY DEF IInv, TypeOK
  <2>3. \A c \in Columns : settlement'[c] = new[c] \/ settlement'[c] = settlement[c]
    BY <2>2, FlushedRow DEF CommitRow
  <2> QED
    BY <2>1, <2>3 DEF StampedBy, Columns, CommitRow, IInv
<1>4. settlement.submitted_at # NULL => settlement.submitted_at' # NULL
  BY FlushedRow DEF CommitRow, Columns, IInv, TypeOK
<1>5. ASSUME NEW q \in Requests
      PROVE  SnapshotOK(q)'
  <2>1. SnapshotOK(q)
    BY DEF IInv
  <2>2. /\ op' = op /\ seen' = seen /\ knew' = knew
        /\ committed' = committed \cup {r}
        /\ pc[r] = "checked"
        /\ pc' = [pc EXCEPT ![r] = AfterCommit[o]]
    BY DEF CommitRow, requestVars
  <2>3. AfterCommit[o] \in {"artifacts", "remark", "notify", "done"}
    BY DEF AfterCommit, AllOps
  <2>4. CASE q = r
    BY <1>4, <2>1, <2>2, <2>3, <2>4 DEF SnapshotOK, IInv, TypeOK
  <2>5. CASE q # r
    BY <1>4, <2>1, <2>2, <2>5 DEF SnapshotOK, IInv, TypeOK
  <2> QED
    BY <2>4, <2>5
<1> QED
  BY <1>1, <1>2, <1>3, <1>5 DEF IInv

\* What a checked request knows: its copy of the row is sound, its operation
\* is legal on that copy, and it has taken no timestamp yet.
LEMMA CheckedRequest ==
  ASSUME IInv, NEW r \in Requests, pc[r] = "checked"
  PROVE  /\ settlement \in Row
         /\ seen[r] \in Row
         /\ SoundRow(settlement, committed, op)
         /\ SoundRow(seen[r], committed, op)
         /\ StampedBy(settlement, committed)
         /\ StampedBy(seen[r], knew[r])
         /\ StampedBy(seen[r], committed)
         /\ Legal(op[r], seen[r])
         /\ seen[r].submitted_at # NULL => settlement.submitted_at # NULL
         /\ r \notin committed
         /\ NULL \notin committed \cup {r}
<1>1. SnapshotOK(r)
  BY DEF IInv
<1>2. SoundRow(seen[r], committed, op)
  BY <1>1, SoundRowGrows DEF SnapshotOK
<1> QED
  BY <1>1, <1>2, LifecycleAssumption
  DEF IInv, TypeOK, SnapshotOK, StampsMatchStatus, StampedBy

LEMMA CommitsInv ==
  ASSUME IInv, NEW r \in Requests,
         Edit(r) \/ Submit(r) \/ Resubmit(r) \/ Approve(r) \/ Reject(r)
           \/ Publish(r)
  PROVE  IInv'
<1>1. pc[r] = "checked"
  BY DEF Edit, Submit, Resubmit, Approve, Reject, Publish, CommitRow
<1>2. /\ settlement \in Row
      /\ seen[r] \in Row
      /\ SoundRow(settlement, committed, op)
      /\ SoundRow(seen[r], committed, op)
      /\ StampedBy(settlement, committed)
      /\ StampedBy(seen[r], knew[r])
      /\ StampedBy(seen[r], committed)
      /\ Legal(op[r], seen[r])
      /\ seen[r].submitted_at # NULL => settlement.submitted_at # NULL
      /\ r \notin committed
      /\ NULL \notin committed \cup {r}
  BY <1>1, CheckedRequest
<1>3. CASE Edit(r)
  <2> DEFINE new == [seen[r] EXCEPT !.content = r]
  <2>1. new \in Row
    BY <1>2 DEF Row, Status, Stamp
  <2>2. StampedBy(new, knew[r] \cup {r})
    BY <1>2 DEF StampedBy, Row
  <2>3. CommitRow(r, "edit", new)
    BY <1>3 DEF Edit
  <2>4. SoundRow(settlement', committed', op)
    <3> HIDE DEF new
    <3>1. \A c \in Columns :
           settlement'[c] = IF new[c] # seen[r][c] THEN new[c] ELSE settlement[c]
      BY <1>2, <2>1, <2>3, FlushedRow DEF CommitRow
    <3>2. committed' = committed \cup {r} /\ op[r] = "edit"
      BY <2>3 DEF CommitRow
    <3> QED
      BY <1>2, <3>1, <3>2
      DEF new, Row, Columns, SoundRow, StampedBy, Legal, Sources
  <2>5. new.submitted_at # seen[r].submitted_at => new.submitted_at # NULL
    BY <1>2 DEF Row
  <2> HIDE DEF new
  <2> QED
    BY <2>1, <2>2, <2>3, <2>4, <2>5, CommitRowInv DEF AllOps
<1>4. CASE Submit(r)
  <2> DEFINE new == [seen[r] EXCEPT !.status = "submitted", !.submitted_at = r,
                                     !.audited_at = NULL]
  <2>1. new \in Row
    BY <1>2 DEF Row, Status, Stamp
  <2>2. StampedBy(new, knew[r] \cup {r})
    BY <1>2 DEF StampedBy, Row
  <2>3. CommitRow(r, "submit", new)
    BY <1>4 DEF Submit
  <2>4. SoundRow(settlement', committed', op)
    <3> HIDE DEF new
    <3>1. \A c \in Columns :
           settlement'[c] = IF new[c] # seen[r][c] THEN new[c] ELSE settlement[c]
      BY <1>2, <2>1, <2>3, FlushedRow DEF CommitRow
    <3>2. committed' = committed \cup {r} /\ op[r] = "submit"
      BY <2>3 DEF CommitRow
    <3> QED
      BY <1>2, <3>1, <3>2
      DEF new, Row, Columns, SoundRow, StampedBy, Legal, Sources
  <2>5. new.submitted_at # seen[r].submitted_at => new.submitted_at # NULL
    BY <1>2 DEF Row
  <2> HIDE DEF new
  <2> QED
    BY <2>1, <2>2, <2>3, <2>4, <2>5, CommitRowInv DEF AllOps
<1>5. CASE Resubmit(r)
  <2> DEFINE new == [seen[r] EXCEPT !.status = "resubmitted", !.submitted_at = r,
                                     !.audited_at = NULL]
  <2>1. new \in Row
    BY <1>2 DEF Row, Status, Stamp
  <2>2. StampedBy(new, knew[r] \cup {r})
    BY <1>2 DEF StampedBy, Row
  <2>3. CommitRow(r, "resubmit", new)
    BY <1>5 DEF Resubmit
  <2>4. SoundRow(settlement', committed', op)
    <3> HIDE DEF new
    <3>1. \A c \in Columns :
           settlement'[c] = IF new[c] # seen[r][c] THEN new[c] ELSE settlement[c]
      BY <1>2, <2>1, <2>3, FlushedRow DEF CommitRow
    <3>2. committed' = committed \cup {r} /\ op[r] = "resubmit"
      BY <2>3 DEF CommitRow
    <3>3. /\ settlement.status' = "resubmitted"
          /\ settlement.submitted_at' = r
          /\ settlement.audited_at' = NULL
          /\ settlement.published_at' = settlement.published_at
      BY <1>2, <3>1, <3>2
      DEF new, Row, Columns, SoundRow, StampedBy, Legal, Sources
    <3> QED
      BY <1>2, <3>2, <3>3 DEF SoundRow
  <2>5. new.submitted_at # seen[r].submitted_at => new.submitted_at # NULL
    BY <1>2 DEF Row
  <2> HIDE DEF new
  <2> QED
    BY <2>1, <2>2, <2>3, <2>4, <2>5, CommitRowInv DEF AllOps
<1>6. CASE Approve(r)
  <2> DEFINE new == [seen[r] EXCEPT !.status = "approved", !.audited_at = r]
  <2>1. new \in Row
    BY <1>2 DEF Row, Status, Stamp
  <2>2. StampedBy(new, knew[r] \cup {r})
    BY <1>2 DEF StampedBy, Row
  <2>3. CommitRow(r, "approve", new)
    BY <1>6 DEF Approve
  <2>4. SoundRow(settlement', committed', op)
    <3> HIDE DEF new
    <3>1. \A c \in Columns :
           settlement'[c] = IF new[c] # seen[r][c] THEN new[c] ELSE settlement[c]
      BY <1>2, <2>1, <2>3, FlushedRow DEF CommitRow
    <3>2. committed' = committed \cup {r} /\ op[r] = "approve"
      BY <2>3 DEF CommitRow
    <3> QED
      BY <1>2, <3>1, <3>2
      DEF new, Row, Columns, SoundRow, StampedBy, Legal, Sources
  <2>5. new.submitted_at # seen[r].submitted_at => new.submitted_at # NULL
    BY <1>2 DEF Row
  <2> HIDE DEF new
  <2> QED
    BY <2>1, <2>2, <2>3, <2>4, <2>5, CommitRowInv DEF AllOps
<1>7. CASE Reject(r)
  <2> DEFINE new == [seen[r] EXCEPT !.status = "rejected", !.audited_at = r]
  <2>1. new \in Row
    BY <1>2 DEF Row, Status, Stamp
  <2>2. StampedBy(new, knew[r] \cup {r})
    BY <1>2 DEF StampedBy, Row
  <2>3. CommitRow(r, "reject", new)
    BY <1>7 DEF Reject
  <2>4. SoundRow(settlement', committed', op)
    <3> HIDE DEF new
    <3>1. \A c \in Columns :
           settlement'[c] = IF new[c] # seen[r][c] THEN new[c] ELSE settlement[c]
      BY <1>2, <2>1, <2>3, FlushedRow DEF CommitRow
    <3>2. committed' = committed \cup {r} /\ op[r] = "reject"
      BY <2>3 DEF CommitRow
    <3> QED
      BY <1>2, <3>1, <3>2
      DEF new, Row, Columns, SoundRow, StampedBy, Legal, Sources
  <2>5. new.submitted_at # seen[r].submitted_at => new.submitted_at # NULL
    BY <1>2 DEF Row
  <2> HIDE DEF new
  <2> QED
    BY <2>1, <2>2, <2>3, <2>4, <2>5, CommitRowInv DEF AllOps
<1>8. CASE Publish(r)
  <2> DEFINE new == [seen[r] EXCEPT !.published_at = r]
  <2>1. new \in Row
    BY <1>2 DEF Row, Status, Stamp
  <2>2. StampedBy(new, knew[r] \cup {r})
    BY <1>2 DEF StampedBy, Row
  <2>3. CommitRow(r, "publish", new)
    BY <1>8 DEF Publish
  <2>4. SoundRow(settlement', committed', op)
    <3> HIDE DEF new
    <3>1. \A c \in Columns :
           settlement'[c] = IF new[c] # seen[r][c] THEN new[c] ELSE settlement[c]
      BY <1>2, <2>1, <2>3, FlushedRow DEF CommitRow
    <3>2. committed' = committed \cup {r} /\ op[r] = "publish"
      BY <2>3 DEF CommitRow
    <3> QED
      BY <1>2, <3>1, <3>2
      DEF new, Row, Columns, SoundRow, StampedBy, Legal, Sources
  <2>5. new.submitted_at # seen[r].submitted_at => new.submitted_at # NULL
    BY <1>2 DEF Row
  <2> HIDE DEF new
  <2> QED
    BY <2>1, <2>2, <2>3, <2>4, <2>5, CommitRowInv DEF AllOps
<1> QED
  BY <1>3, <1>4, <1>5, <1>6, <1>7, <1>8

LEMMA LoadInv ==
  ASSUME IInv, NEW r \in Requests, NEW o \in Ops, NEW u \in Users, Load(r, o, u)
  PROVE  IInv'
<1>1. TypeOK'
  BY NextType DEF IInv, Next
<1>2. /\ r \notin committed
      /\ \A q \in Requests : r \notin knew[q]
  BY DEF IInv, SnapshotOK, Load
<1>3. \A q \in Requests : q # r => op'[q] = op[q]
  BY DEF Load, IInv, TypeOK
<1>4. SoundRow(settlement, committed, op')
  BY <1>2, <1>3, SoundRowGrows DEF IInv, TypeOK, StampsMatchStatus
<1>5. ASSUME NEW q \in Requests
      PROVE  SnapshotOK(q)'
  <2>1. CASE q = r
    BY <2>1, <1>2, <1>4, LifecycleAssumption
    DEF Load, IInv, TypeOK, SnapshotOK
  <2>2. CASE q # r
    <3>1. SoundRow(seen[q], knew[q], op) => SoundRow(seen[q], knew[q], op')
      BY <1>2, <1>3, SoundRowGrows DEF IInv, TypeOK
    <3> QED
      BY <2>2, <3>1, <1>3 DEF Load, IInv, TypeOK, SnapshotOK
  <2> QED
    BY <2>1, <2>2
<1> QED
  BY <1>1, <1>4, <1>5 DEF IInv, Load, StampsMatchStatus, StampedBy

\* The steps that follow a commit, and a failure, touch neither the row nor
\* what requests know.
LEMMA TailInv ==
  ASSUME IInv, NEW r \in Requests,
         GenerateArtifacts(r) \/ AttachRemark(r) \/ Notify(r) \/ Fail(r)
  PROVE  IInv'
<1>1. TypeOK'
  BY NextType DEF IInv, Next, Step
<1>2. /\ UNCHANGED <<settlement, op, seen, knew, committed>>
      /\ \E p \in {"remark", "notify", "done", "failed"} :
           pc' = [pc EXCEPT ![r] = p]
      /\ pc[r] \in {"checked", "artifacts", "remark", "notify"}
  BY DEF GenerateArtifacts, AttachRemark, Notify, Fail, requestVars
<1>3. pc[r] = "checked" => pc' = [pc EXCEPT ![r] = "failed"]
  BY DEF GenerateArtifacts, AttachRemark, Notify, Fail
<1>4. ASSUME NEW q \in Requests
      PROVE  SnapshotOK(q)'
  BY <1>2, <1>3 DEF IInv, TypeOK, SnapshotOK
<1> QED
  BY <1>1, <1>2, <1>4 DEF IInv, StampsMatchStatus, StampedBy

LEMMA NextInv == IInv /\ [Next]_vars => IInv'
<1> SUFFICES ASSUME IInv, [Next]_vars PROVE IInv'
  OBVIOUS
<1>1. CASE UNCHANGED vars
  BY <1>1 DEF vars, IInv, TypeOK, StampsMatchStatus, StampedBy, SnapshotOK
<1>2. CASE Next
  BY <1>2, LoadInv, CommitsInv, TailInv DEF Next, Step
<1> QED
  BY <1>1, <1>2

LEMMA Invariance == Spec => []IInv
BY InitInv, NextInv, PTL DEF Spec

\* The row's status and timestamps agree in every reachable state, although
\* commits of stale copies mix the columns of several requests.
THEOREM StampsAgree == Spec => []StampsMatchStatus
BY Invariance, PTL DEF IInv

\* What a request answers had committed when it loaded the row.
LEMMA Causes == IInv => EveryTransitionHasItsCause
<1> SUFFICES ASSUME IInv, NEW r \in committed
             PROVE  EveryTransitionHasItsCause!(r)
  BY DEF EveryTransitionHasItsCause
<1>1. r \in Requests /\ SnapshotOK(r)
  BY DEF IInv, TypeOK
<1>2. SoundRow(seen[r], knew[r], op) /\ Legal(op[r], seen[r])
  BY <1>1 DEF SnapshotOK
<1>3. seen[r] \in Row
  BY <1>1 DEF IInv, TypeOK
<1> QED
  BY <1>1, <1>2, <1>3 DEF SoundRow, Legal, Sources

\* A verdict, a resubmission or a publication is never committed without the
\* submission, rejection or approval it answers having committed first.
THEOREM CausesFirst == Spec => []EveryTransitionHasItsCause
BY Causes, Invariance, PTL

\* Once submitted, a settlement is never a draft again.
THEOREM NoReturnToDraft == Spec => NeverDraftAgain
<1>1. ASSUME IInv, IInv', [Next]_vars, settlement.status # "draft"
      PROVE  settlement.status' # "draft"
  <2>1. settlement.submitted_at # NULL
    BY <1>1 DEF IInv, StampsMatchStatus, SoundRow
  <2>2. settlement.submitted_at' # NULL
    <3>1. CASE settlement' = settlement
      BY <3>1, <2>1
    <3>2. ASSUME NEW r \in Requests,
                 \/ Edit(r) \/ Submit(r) \/ Resubmit(r)
                 \/ Approve(r) \/ Reject(r) \/ Publish(r)
          PROVE  settlement.submitted_at' # NULL
      <4>1. /\ seen[r] \in Row
            /\ settlement \in Row
            /\ r # NULL
        BY <1>1, LifecycleAssumption DEF IInv, TypeOK
      <4>2. CASE Edit(r)
        BY <2>1, <4>1, <4>2 DEF Edit, CommitRow, Flushed, Columns, Row
      <4>3. CASE Submit(r)
        BY <2>1, <4>1, <4>3 DEF Submit, CommitRow, Flushed, Columns, Row
      <4>4. CASE Resubmit(r)
        BY <2>1, <4>1, <4>4 DEF Resubmit, CommitRow, Flushed, Columns, Row
      <4>5. CASE Approve(r)
        BY <2>1, <4>1, <4>5 DEF Approve, CommitRow, Flushed, Columns, Row
      <4>6. CASE Reject(r)
        BY <2>1, <4>1, <4>6 DEF Reject, CommitRow, Flushed, Columns, Row
      <4>7. CASE Publish(r)
        BY <2>1, <4>1, <4>7 DEF Publish, CommitRow, Flushed, Columns, Row
      <4> QED
        BY <3>2, <4>2, <4>3, <4>4, <4>5, <4>6, <4>7
    <3> QED
      BY <1>1, <3>1, <3>2
      DEF Next, Step, Load, GenerateArtifacts, AttachRemark, Notify, Fail, vars
  <2> QED
    BY <1>1, <2>2 DEF IInv, StampsMatchStatus, SoundRow
<1> QED
  BY <1>1, Invariance, PTL DEF Spec, NeverDraftAgain

\* Remarks and notifications speak of committed transitions only, and not to
\* those who made them.
THEOREM TrueNews == Spec => []NewsIsTrue
<1>1. Init => NewsIsTrue
  BY DEF Init, NewsIsTrue
<1>2. IInv /\ NewsIsTrue /\ [Next]_vars => NewsIsTrue'
  <2> SUFFICES ASSUME IInv, NewsIsTrue, [Next]_vars PROVE NewsIsTrue'
    OBVIOUS
  <2>1. \A r \in Requests : SnapshotOK(r)
    BY DEF IInv
  <2>2. TypeOK
    BY DEF IInv
  <2>3. ASSUME NEW r \in Requests, NEW o \in Ops, NEW u \in Users,
               Load(r, o, u)
        PROVE  NewsIsTrue'
    BY <2>1, <2>2, <2>3 DEF NewsIsTrue, Load, SnapshotOK, TypeOK
  <2>4. ASSUME NEW r \in Requests,
               \/ Edit(r) \/ Submit(r) \/ Resubmit(r)
               \/ Approve(r) \/ Reject(r) \/ Publish(r)
        PROVE  NewsIsTrue'
    BY <2>4
    DEF NewsIsTrue, Edit, Submit, Resubmit, Approve, Reject, Publish,
        CommitRow, requestVars
  <2>5. ASSUME NEW r \in Requests, GenerateArtifacts(r) \/ Fail(r)
        PROVE  NewsIsTrue'
    BY <2>5 DEF NewsIsTrue, GenerateArtifacts, Fail, requestVars
  <2>6. ASSUME NEW r \in Requests, AttachRemark(r)
        PROVE  NewsIsTrue'
    BY <2>1, <2>6 DEF NewsIsTrue, AttachRemark, SnapshotOK, requestVars
  <2>7. ASSUME NEW r \in Requests, Notify(r)
        PROVE  NewsIsTrue'
    BY <2>1, <2>2, <2>7 DEF NewsIsTrue, Notify, SnapshotOK, TypeOK, requestVars
  <2>8. CASE UNCHANGED vars
    BY <2>8 DEF NewsIsTrue, vars
  <2> QED
    BY <2>3, <2>4, <2>5, <2>6, <2>7, <2>8 DEF Next, Step
<1> QED
  BY <1>1, <1>2, Invariance, PTL DEF Spec

-----------------------------------------------------------------------------
(* A commit nobody overlapped.                                              *)

\* A request that is about to commit holds the row itself, unless another
\* request has committed since it loaded its copy.
UpToDate ==
  \A r \in Requests :
    pc[r] = "checked" /\ knew[r] = committed => seen[r] = settlement

\* The transitions, which end a transaction, and the other steps.
Commits(r) ==
  Edit(r) \/ Submit(r) \/ Resubmit(r) \/ Approve(r) \/ Reject(r) \/ Publish(r)

Follows(r) == GenerateArtifacts(r) \/ AttachRemark(r) \/ Notify(r) \/ Fail(r)

LEMMA CommitEffect ==
  ASSUME NEW r \in Requests, Commits(r)
  PROVE  /\ pc[r] = "checked"
         /\ committed' = committed \cup {r}
         /\ UNCHANGED <<op, seen, knew>>
         /\ \E p \in Phase \ {"idle", "checked"} : pc' = [pc EXCEPT ![r] = p]
BY DEF Commits, Edit, Submit, Resubmit, Approve, Reject, Publish, CommitRow,
       AfterCommit, Phase, requestVars

LEMMA FollowEffect ==
  ASSUME NEW r \in Requests, Follows(r)
  PROVE  /\ UNCHANGED <<settlement, committed, op, seen, knew>>
         /\ pc[r] # "idle"
         /\ \E p \in Phase \ {"idle", "checked"} : pc' = [pc EXCEPT ![r] = p]
BY DEF Follows, GenerateArtifacts, AttachRemark, Notify, Fail, Phase,
       requestVars

LEMMA Steps ==
  ASSUME Next
  PROVE  \E r \in Requests :
           \/ \E o \in Ops, u \in Users : Load(r, o, u)
           \/ Commits(r)
           \/ Follows(r)
BY DEF Next, Step, Commits, Follows

LEMMA UpToDateNext == IInv /\ UpToDate /\ [Next]_vars => UpToDate'
<1> SUFFICES ASSUME IInv, UpToDate, [Next]_vars PROVE UpToDate'
  OBVIOUS
<1>1. TypeOK /\ \A r \in Requests : SnapshotOK(r)
  BY DEF IInv
<1>2. ASSUME NEW r \in Requests, NEW o \in Ops, NEW u \in Users,
             Load(r, o, u)
      PROVE  UpToDate'
  BY <1>1, <1>2 DEF UpToDate, Load, TypeOK
<1>3. ASSUME NEW r \in Requests, Commits(r)
      PROVE  UpToDate'
  <2>1. r \notin committed
    BY <1>1, <1>3, CommitEffect DEF SnapshotOK
  <2>2. \A q \in Requests : knew[q] \subseteq committed
    BY <1>1 DEF SnapshotOK
  <2>3. committed' = committed \cup {r} /\ knew' = knew
    BY <1>3, CommitEffect
  <2> QED
    BY <2>1, <2>2, <2>3 DEF UpToDate
<1>4. ASSUME NEW r \in Requests, Follows(r)
      PROVE  UpToDate'
  BY <1>1, <1>4, FollowEffect DEF UpToDate, TypeOK
<1>5. CASE UNCHANGED vars
  BY <1>5 DEF UpToDate, vars
<1> QED
  BY <1>2, <1>3, <1>4, <1>5, Steps

\* The commit of a request that holds the row itself is a step of the state
\* machine, or leaves it where it is.
LEMMA FreshCommitFlows ==
  ASSUME IInv, NEW r \in Requests, Commits(r), seen[r] = settlement
  PROVE  [Flow!Next]_(Flow!flowVars)
<1>1. /\ settlement \in Row
      /\ seen[r] = settlement
      /\ Legal(op[r], settlement)
      /\ SoundRow(settlement, committed, op)
      /\ NULL \notin committed \cup {r}
  BY CommitEffect, CheckedRequest
<1>2. CASE Edit(r)
  <2>1. UNCHANGED Flow!flowVars
    BY <1>1, <1>2
    DEF Edit, CommitRow, Flushed, Columns, Row, Legal, Sources,
        SoundRow, AlreadyPublished, Flow!flowVars
  <2> QED
    BY <2>1 DEF Flow!Next
<1>3. CASE Submit(r)
  <2>1. /\ settlement.status' = "submitted"
        /\ settlement.submitted_at' = r
        /\ settlement.audited_at' = NULL
        /\ settlement.published_at' = settlement.published_at
    BY <1>1, <1>3 DEF Submit, CommitRow, Flushed, Columns, Row
  <2>2. settlement.status \in Sources.submit
    BY <1>1, <1>3 DEF Submit, CommitRow, Legal, Sources
  <2>3. Flow!Submit
    BY <1>1, <2>1, <2>2 DEF Flow!Submit, Sources, SoundRow
  <2> QED
    BY <2>3 DEF Flow!Next
<1>4. CASE Resubmit(r)
  <2>1. /\ settlement.status' = "resubmitted"
        /\ settlement.submitted_at' = r
        /\ settlement.audited_at' = NULL
        /\ settlement.published_at' = settlement.published_at
    BY <1>1, <1>4 DEF Resubmit, CommitRow, Flushed, Columns, Row
  <2>2. settlement.status \in Sources.resubmit
    BY <1>1, <1>4 DEF Resubmit, CommitRow, Legal, Sources
  <2>3. Flow!Resubmit
    BY <1>1, <2>1, <2>2 DEF Flow!Resubmit, Sources, SoundRow
  <2> QED
    BY <2>3 DEF Flow!Next
<1>5. CASE Approve(r)
  <2>1. /\ settlement.status' = "approved"
        /\ settlement.submitted_at' = settlement.submitted_at
        /\ settlement.audited_at' = r
        /\ settlement.published_at' = settlement.published_at
    BY <1>1, <1>5 DEF Approve, CommitRow, Flushed, Columns, Row
  <2>2. settlement.status \in Sources.approve
    BY <1>1, <1>5 DEF Approve, CommitRow, Legal, Sources
  <2>3. Flow!Audit("approved")
    BY <1>1, <2>1, <2>2 DEF Flow!Audit, Sources, SoundRow
  <2> QED
    BY <2>3 DEF Flow!Next
<1>6. CASE Reject(r)
  <2>1. /\ settlement.status' = "rejected"
        /\ settlement.submitted_at' = settlement.submitted_at
        /\ settlement.audited_at' = r
        /\ settlement.published_at' = settlement.published_at
    BY <1>1, <1>6 DEF Reject, CommitRow, Flushed, Columns, Row
  <2>2. settlement.status \in Sources.reject
    BY <1>1, <1>6 DEF Reject, CommitRow, Legal, Sources
  <2>3. Flow!Audit("rejected")
    BY <1>1, <2>1, <2>2 DEF Flow!Audit, Sources, SoundRow
  <2> QED
    BY <2>3 DEF Flow!Next
<1>7. CASE Publish(r)
  <2>1. Flow!Publish
    BY <1>1, <1>7
    DEF Publish, CommitRow, Flushed, Columns, Row, Legal, Sources,
        SoundRow, AlreadyPublished, Flow!Publish
  <2> QED
    BY <2>1 DEF Flow!Next
<1> QED
  BY <1>2, <1>3, <1>4, <1>5, <1>6, <1>7 DEF Commits

\* Whatever overlapping requests made of the row before, a request that no
\* other commit overtook moves it along an arrow of the state machine.
THEOREM FlowUnlessOverlapped == Spec => LeavesFlowOnlyByOverlap
<1>1. Init => UpToDate
  BY DEF Init, UpToDate
<1>2. ASSUME IInv, UpToDate, [Next]_vars,
             NEW r \in committed' \ committed, knew[r] = committed
      PROVE  [Flow!Next]_(Flow!flowVars)
  <2>1. PICK q \in Requests :
          \/ \E o \in Ops, u \in Users : Load(q, o, u)
          \/ Commits(q)
          \/ Follows(q)
    BY <1>2, Steps DEF vars
  <2>2. Commits(q)
    BY <1>2, <2>1, FollowEffect DEF Load
  <2>3. pc[q] = "checked" /\ q = r
    BY <1>2, <2>2, CommitEffect
  <2>4. seen[q] = settlement
    BY <1>2, <2>3 DEF UpToDate
  <2> QED
    BY <1>2, <2>2, <2>4, FreshCommitFlows
<1>3. ASSUME IInv, UpToDate, [Next]_vars
      PROVE  \A r \in committed' \ committed :
               knew[r] = committed => [Flow!Next]_(Flow!flowVars)
  BY <1>2, <1>3
<1> QED
  BY <1>1, <1>3, UpToDateNext, Invariance, PTL
  DEF Spec, LeavesFlowOnlyByOverlap

-----------------------------------------------------------------------------
(* No matter settled by a commit a request knew of is open in its copy.     *)

\* None of the matters the requests of S settled is open in the row, asked
\* being what each asked for and loaded the copy each settled it on.
Settled(row, S, asked, loaded) ==
  /\ row.status = "draft" => \A a \in S : asked[a] # "submit"
  /\ row.status \in {"submitted", "resubmitted"} =>
       \A a \in S : asked[a] \in {"approve", "reject"} =>
         loaded[a].submitted_at # row.submitted_at
  /\ row.status = "rejected" =>
       \A a \in S : asked[a] = "resubmit" =>
         loaded[a].audited_at # row.audited_at
  /\ row.published_at = NULL => \A a \in S : asked[a] # "publish"

SettledInv ==
  /\ Settled(settlement, committed, op, seen)
  /\ \A r \in Requests :
       pc[r] # "idle" => Settled(seen[r], knew[r], op, seen)

\* What other requests ask for and load does not matter.
LEMMA SettledSame ==
  ASSUME NEW row, NEW S, NEW asked, NEW loaded, NEW asks, NEW loads,
         \A a \in S : asks[a] = asked[a] /\ loads[a] = loaded[a],
         Settled(row, S, asked, loaded)
  PROVE  Settled(row, S, asks, loads)
BY DEF Settled

\* The submission a verdict was passed on, and the rejection a resubmission
\* answered, had committed.
LEMMA AnswersCommitted ==
  ASSUME IInv, NEW a \in committed
  PROVE  /\ op[a] \in {"approve", "reject"} => seen[a].submitted_at \in committed
         /\ op[a] = "resubmit" => seen[a].audited_at \in committed
<1>1. knew[a] \subseteq committed
  BY DEF IInv, TypeOK, SnapshotOK
<1> QED
  BY <1>1, Causes DEF EveryTransitionHasItsCause

LEMMA CommitSettles ==
  ASSUME IInv, SettledInv, NEW r \in Requests, Commits(r)
  PROVE  Settled(settlement', committed \cup {r}, op, seen)
<1>1. /\ settlement \in Row
      /\ seen[r] \in Row
      /\ Legal(op[r], seen[r])
      /\ r \notin committed
      /\ r # NULL
      /\ SoundRow(seen[r], committed, op)
      /\ StampedBy(seen[r], committed)
  BY CommitEffect, CheckedRequest
<1>2. \A a \in committed :
        /\ op[a] \in {"approve", "reject"} => seen[a].submitted_at # r
        /\ op[a] = "resubmit" => seen[a].audited_at # r
  BY <1>1, AnswersCommitted
<1>3. Settled(settlement, committed, op, seen)
  BY DEF SettledInv
<1>4. CASE Edit(r)
  <2>1. /\ op[r] = "edit"
        /\ settlement'.status = settlement.status
        /\ settlement'.submitted_at = settlement.submitted_at
        /\ settlement'.audited_at = settlement.audited_at
        /\ settlement'.published_at = settlement.published_at
    BY <1>1, <1>4 DEF Edit, CommitRow, Flushed, Columns, Row
  <2> QED
    BY <1>3, <2>1 DEF Settled
<1>5. CASE Submit(r)
  <2>1. seen[r].status = "draft" /\ seen[r].submitted_at = NULL
    <3>1. seen[r].status \in Sources.submit
      BY <1>1, <1>5 DEF Submit, CommitRow, Legal
    <3> QED
      BY <1>1, <3>1 DEF Sources, SoundRow
  <2>2. /\ op[r] = "submit"
        /\ settlement'.status = "submitted"
        /\ settlement'.submitted_at = r
        /\ settlement'.published_at = settlement.published_at
    BY <1>1, <1>5, <2>1 DEF Submit, CommitRow, Flushed, Columns, Row
  <2> QED
    BY <1>2, <1>3, <2>2 DEF Settled
<1>6. CASE Resubmit(r)
  <2>1. seen[r].status = "rejected" /\ seen[r].submitted_at # r
    <3>1. seen[r].status \in Sources.resubmit
      BY <1>1, <1>6 DEF Resubmit, CommitRow, Legal
    <3> QED
      BY <1>1, <3>1 DEF Sources, StampedBy
  <2>2. /\ op[r] = "resubmit"
        /\ settlement'.status = "resubmitted"
        /\ settlement'.submitted_at = r
        /\ settlement'.published_at = settlement.published_at
    BY <1>1, <1>6, <2>1 DEF Resubmit, CommitRow, Flushed, Columns, Row
  <2> QED
    BY <1>2, <1>3, <2>2 DEF Settled
<1>7. CASE Approve(r)
  <2>1. seen[r].status # "approved"
    <3>1. seen[r].status \in Sources.approve
      BY <1>1, <1>7 DEF Approve, CommitRow, Legal
    <3> QED
      BY <3>1 DEF Sources
  <2>2. /\ op[r] = "approve"
        /\ settlement'.status = "approved"
        /\ settlement'.published_at = settlement.published_at
    BY <1>1, <1>7, <2>1 DEF Approve, CommitRow, Flushed, Columns, Row
  <2> QED
    BY <1>3, <2>2 DEF Settled
<1>8. CASE Reject(r)
  <2>1. seen[r].status # "rejected" /\ seen[r].audited_at # r
    <3>1. seen[r].status \in Sources.reject
      BY <1>1, <1>8 DEF Reject, CommitRow, Legal
    <3> QED
      BY <1>1, <3>1 DEF Sources, StampedBy
  <2>2. /\ op[r] = "reject"
        /\ settlement'.status = "rejected"
        /\ settlement'.audited_at = r
        /\ settlement'.published_at = settlement.published_at
    BY <1>1, <1>8, <2>1 DEF Reject, CommitRow, Flushed, Columns, Row
  <2> QED
    BY <1>2, <1>3, <2>2 DEF Settled
<1>9. CASE Publish(r)
  <2>1. /\ op[r] = "publish"
        /\ settlement'.status = settlement.status
        /\ settlement'.submitted_at = settlement.submitted_at
        /\ settlement'.audited_at = settlement.audited_at
        /\ settlement'.published_at = r
    BY <1>1, <1>9
    DEF Publish, CommitRow, Flushed, Columns, Row, Legal, AlreadyPublished
  <2> QED
    BY <1>1, <1>3, <2>1 DEF Settled
<1> QED
  BY <1>4, <1>5, <1>6, <1>7, <1>8, <1>9 DEF Commits

LEMMA SettledNext == IInv /\ SettledInv /\ [Next]_vars => SettledInv'
<1> SUFFICES ASSUME IInv, SettledInv, [Next]_vars PROVE SettledInv'
  OBVIOUS
<1>1. TypeOK /\ \A r \in Requests : SnapshotOK(r)
  BY DEF IInv
<1>2. ASSUME NEW r \in Requests, NEW o \in Ops, NEW u \in Users,
             Load(r, o, u)
      PROVE  SettledInv'
  <2>1. /\ r \notin committed
        /\ \A q \in Requests : r \notin knew[q]
    BY <1>1, <1>2 DEF SnapshotOK, Load
  <2>2. \A q \in Requests : q # r => op'[q] = op[q] /\ seen'[q] = seen[q]
                                   /\ knew'[q] = knew[q] /\ pc'[q] = pc[q]
    BY <1>1, <1>2 DEF Load, TypeOK
  <2>3. Settled(settlement, committed, op', seen')
    BY <1>1, <2>1, <2>2, SettledSame DEF SettledInv, TypeOK
  <2>4. ASSUME NEW q \in Requests, pc'[q] # "idle"
        PROVE  Settled(seen'[q], knew'[q], op', seen')
    <3>1. CASE q = r
      BY <1>1, <1>2, <2>3, <3>1 DEF Load, TypeOK
    <3>2. CASE q # r
      <4>1. Settled(seen[q], knew[q], op, seen)
        BY <2>2, <2>4, <3>2 DEF SettledInv
      <4>2. Settled(seen[q], knew[q], op', seen')
        BY <1>1, <2>1, <2>2, <4>1, SettledSame DEF TypeOK
      <4> QED
        BY <2>2, <3>2, <4>2
    <3> QED
      BY <3>1, <3>2
  <2> QED
    BY <1>2, <2>3, <2>4 DEF SettledInv, Load
<1>3. ASSUME NEW r \in Requests, Commits(r)
      PROVE  SettledInv'
  <2>1. \A q \in Requests : pc'[q] # "idle" => pc[q] # "idle"
    BY <1>1, <1>3, CommitEffect DEF TypeOK
  <2> QED
    BY <1>3, <2>1, CommitEffect, CommitSettles DEF SettledInv
<1>4. ASSUME NEW r \in Requests, Follows(r)
      PROVE  SettledInv'
  <2>1. \A q \in Requests : pc'[q] # "idle" => pc[q] # "idle"
    BY <1>1, <1>4, FollowEffect DEF TypeOK
  <2> QED
    BY <1>4, <2>1, FollowEffect DEF SettledInv
<1>5. CASE UNCHANGED vars
  BY <1>5 DEF SettledInv, vars
<1> QED
  BY <1>2, <1>3, <1>4, <1>5, Steps

\* Two requests submit the same draft, judge the same round, answer the same
\* rejection or publish the same settlement only if neither had seen the
\* other's commit, however many requests there are and however stale.
THEOREM OverlapSettlesTwice == Spec => []SettledTwiceOnlyByOverlap
<1>1. Init => SettledInv
  BY DEF Init, SettledInv, Settled
<1>2. IInv /\ SettledInv => SettledTwiceOnlyByOverlap
  <2> SUFFICES ASSUME IInv, SettledInv, NEW a \in committed, NEW b \in committed,
                      SameMatter(a, b), a \in knew[b]
               PROVE  FALSE
    BY DEF SettledTwiceOnlyByOverlap
  <2>1. b \in Requests /\ SnapshotOK(b) /\ pc[b] \notin {"idle", "refused"}
    BY DEF IInv, TypeOK, SnapshotOK
  <2>2. Legal(op[b], seen[b]) /\ Settled(seen[b], knew[b], op, seen)
    BY <2>1 DEF SnapshotOK, SettledInv
  <2> QED
    BY <2>2 DEF SameMatter, Legal, Sources, AlreadyPublished, Settled
<1> QED
  BY <1>1, <1>2, SettledNext, Invariance, PTL DEF Spec

=============================================================================
