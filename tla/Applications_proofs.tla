-------------------------- MODULE Applications_proofs --------------------------
(***************************************************************************)
(* Theorems about Applications, for any set of requests and users and any  *)
(* worlds they may start in: types and rights first, and from them that    *)
(* what is good for one use is used once unless requests overlap.          *)
(***************************************************************************)
EXTENDS Applications, TLAPS

\* The code c was sent to u; the window v was opened with a code sent to u.
SentTo(c, u) == c \in Requests => who[c] = u

OpenedFor(v, u) == v \in Requests => who[v] = u /\ PresentsCode(v, u)

\* What a request has established about a mailbox when it gets to a phase.
MailboxOK(r) ==
  /\ IF pc[r] = "idle" THEN who[r] = NULL ELSE who[r] \in Users
  /\ pc[r] = "matched" =>
       /\ op[r] \in {"verify", "reset"}
       /\ who[r] \in mailRows
       /\ held[r].code \in Stamp /\ SentTo(held[r].code, who[r])
  /\ pc[r] \in {"verified", "changing"} =>
       op[r] = "reset" /\ PresentsCode(r, who[r])
  /\ pc[r] = "spending" =>
       /\ op[r] \in {"signup", "reset"}
       /\ held[r].window \in Stamp /\ OpenedFor(held[r].window, who[r])
  /\ pc[r] \in {"admitted", "enrolling"} =>
       op[r] = "signup" /\ ProvesMailbox(r, who[r])

\* The request is about an invitation that exists.
About(r) == subject[r] \in Stamp /\ invitations[subject[r]] \in Invitation

\* m holds the role of the invitation request r is about.
Rivals(r, m) ==
  /\ m.org = invitations[subject[r]].org
  /\ m.role = invitations[subject[r]].role

\* What a request has established about the organization.
SubjectOK(r) ==
  /\ pc[r] = "authorised" => via[r] \in Seat /\ via[r].org \in orgs
  /\ pc[r] \in {"answering", "expiring", "invited", "checked", "ready"} =>
       About(r)
  /\ pc[r] \in {"invited", "checked", "ready"} =>
       /\ op[r] = "accept"
       /\ who[r] \in accounts
       /\ invitations[subject[r]].email = who[r]
  /\ pc[r] = "enrolling" /\ subject[r] # NULL =>
       About(r) /\ invitations[subject[r]].email = who[r]
  /\ pc[r] = "filing" => who[r] \in accounts
  /\ pc[r] = "reviewing" =>
       subject[r] \in Stamp /\ applications[subject[r]] \in Application
  /\ invitations[r] # NULL \/ applications[r] # NULL => pc[r] = "done"

\* Request r deletes holders of the role it hands over, and all of those that
\* were seated when it looked.
HoldersOK(r) ==
  /\ op[r] = "accept" => \A q \in over[r] \cap Requests : pc[q] = "done"
  /\ pc[r] = "ready" =>
       /\ \A m \in prior[r] : Rivals(r, m)
       /\ invitations[subject[r]].kind = "role_transfer" =>
            \A m \in members : Rivals(r, m) /\ m.by \in over[r] => m \in prior[r]

\* A membership was inserted by the last step of a request.
SeatsOK ==
  \A m \in members : m.by \in Requests =>
    /\ pc[m.by] = "done"
    /\ op[m.by] = "accept" => About(m.by)

\* What the two parts of EveryRightHasItsSource say of a password and a seat.
PasswordsOK ==
  \A u \in Users : password[u] # NULL =>
    /\ password[u] \in Requests
    /\ who[password[u]] = u
    /\ IF op[password[u]] = "signup" THEN ProvesMailbox(password[u], u)
       ELSE PresentsCode(password[u], u)

RightTo(m) ==
  /\ m.user \in accounts /\ m.org \in orgs
  /\ m.by \in Requests =>
       \/ op[m.by] = "found" /\ m.org = m.by /\ m.user \in Operators
       \/ \E a \in Stamp : /\ <<"application", a>> \in spent[m.by]
                           /\ m.org = m.by
                           /\ applications[a] \in Application
                           /\ applications[a].applicant = m.user
       \/ \E i \in Stamp : /\ <<"invitation", i>> \in spent[m.by]
                           /\ invitations[i] \in Invitation
                           /\ invitations[i].org = m.org
                           /\ invitations[i].email = m.user
                           /\ invitations[i].role = m.role

\* Codes and windows, invitations and applications belong to somebody.
RecordsOK ==
  /\ \A u \in Users : SentTo(codes[u], u) /\ OpenedFor(windows[u], u)
  /\ \A i \in Stamp :
       /\ invitations[i] # NULL => invitations[i].org \in orgs
       /\ applications[i] # NULL => applications[i].applicant \in accounts

\* The inductive invariant.
IInv ==
  /\ TypeOK
  /\ \A r \in Requests : MailboxOK(r) /\ SubjectOK(r) /\ HoldersOK(r)
  /\ SeatsOK
  /\ RecordsOK
  /\ OrganizationsAreLed
  /\ HandOverIsComplete
  /\ PasswordsOK
  /\ \A m \in members : RightTo(m)

-----------------------------------------------------------------------------
(* The initial states.                                                      *)

\* Requests of the past did not overlap.
LEMMA InitIInv == Init => IInv
<1> SUFFICES ASSUME Init PROVE IInv
  OBVIOUS
<1>1. PICK w \in Worlds :
        /\ op = w.plan /\ accounts = w.accounts /\ mailRows = w.mailRows
        /\ codes = w.codes /\ windows = w.windows /\ orgs = w.orgs
        /\ members = w.members /\ invitations = w.invitations
        /\ applications = w.applications
  BY DEF Init
<1>2. /\ op \in [Requests -> AllOps]
      /\ accounts \subseteq Users /\ mailRows \subseteq Users
      /\ codes \in [Users -> Past \cup {NULL}]
      /\ windows \in [Users -> Past \cup {NULL}]
      /\ orgs \subseteq Past
      /\ members \subseteq [org : Past, user : Users, role : Roles, by : Past]
      /\ invitations \in [Stamp -> Invitation \cup {NULL}]
      /\ applications \in [Stamp -> Application \cup {NULL}]
  BY <1>1, WorldAssumption DEF World
<1>3. /\ OrganizationsAreLed
      /\ \A m \in members : m.user \in accounts /\ m.org \in orgs
      /\ \A u \in Users : u \notin mailRows => codes[u] = NULL /\ windows[u] = NULL
      /\ \A i \in Stamp : invitations[i] # NULL =>
           i \in Past /\ invitations[i].org \in orgs
      /\ \A a \in Stamp : applications[a] # NULL =>
           a \in Past /\ applications[a].applicant \in accounts
  BY <1>1, WorldAssumption DEF OrganizationsAreLed
<1>4. TypeOK
  <2>1. MailTypeOK
    BY <1>2, <1>3 DEF Init, MailTypeOK, NoCopy, Stamp
  <2>2. SeatTypeOK
    BY <1>2 DEF Init, SeatTypeOK, Seat, Stamp
  <2>3. "idle" \in Phase
    BY DEF Phase, MailPhase
  <2> QED
    BY <1>2, <2>1, <2>2, <2>3 DEF Init, TypeOK
<1>5. ASSUME NEW r \in Requests
      PROVE  MailboxOK(r) /\ SubjectOK(r) /\ HoldersOK(r)
  BY <1>3, MailAssumption DEF Init, MailboxOK, SubjectOK, HoldersOK, Stamp
<1>6. \A m \in members : m.by \notin Requests
  BY <1>2, MailAssumption
<1>7. SeatsOK /\ HandOverIsComplete
  BY <1>6 DEF SeatsOK, HandOverIsComplete
<1>8. RecordsOK
  BY <1>2, <1>3, MailAssumption DEF RecordsOK, SentTo, OpenedFor, Stamp
<1>9. PasswordsOK /\ \A m \in members : RightTo(m)
  BY <1>3, <1>6 DEF Init, PasswordsOK, RightTo
<1> QED
  BY <1>3, <1>4, <1>5, <1>7, <1>8, <1>9 DEF IInv

-----------------------------------------------------------------------------
(* What every step leaves alone.                                            *)

\* A step of r is no business of the other requests.
Private(r) ==
  \A q \in Requests \ {r} :
    /\ pc'[q] = pc[q] /\ who'[q] = who[q] /\ held'[q] = held[q]
    /\ subject'[q] = subject[q] /\ via'[q] = via[q]
    /\ prior'[q] = prior[q] /\ over'[q] = over[q] /\ spent'[q] = spent[q]
    /\ invitations'[q] # NULL => invitations[q] # NULL
    /\ applications'[q] # NULL => applications[q] # NULL

\* Records are never taken back and never change owner.
Lasting ==
  /\ op' = op
  /\ accounts \subseteq accounts' /\ orgs \subseteq orgs'
  /\ mailRows \subseteq mailRows'
  /\ \A i \in Stamp : invitations[i] \in Invitation =>
       /\ invitations'[i] \in Invitation
       /\ invitations'[i].org = invitations[i].org
       /\ invitations'[i].email = invitations[i].email
       /\ invitations'[i].kind = invitations[i].kind
       /\ invitations'[i].role = invitations[i].role
  /\ \A a \in Stamp : applications[a] \in Application =>
       /\ applications'[a] \in Application
       /\ applications'[a].applicant = applications[a].applicant

\* Nobody acts after the end, what a request has spent stays spent, and its
\* caller stays who he is.
Onward(r) ==
  /\ pc[r] # "done"
  /\ pc[r] # "idle" => who'[r] = who[r]
  /\ pc'[r] # "idle"
  /\ spent[r] \subseteq spent'[r]
  /\ \A m \in members' : m \in members \/ (m.by = r /\ pc'[r] = "done")

Step(r) ==
  \/ /\ (\E u \in Users : Ask(r, u)) \/ MailStep(r)
     /\ UNCHANGED <<seatVars, applications>>
  \/ InviteStep(r) /\ UNCHANGED applications
  \/ DeskStep(r)

\* What the variables of the requests are functions of.
Functions ==
  /\ pc \in [Requests -> Phase] /\ who \in [Requests -> Users \cup {NULL}]
  /\ spent \in [Requests -> SUBSET Token] /\ over \in [Requests -> SUBSET Stamp]
  /\ held \in [Requests ->
       [row : BOOLEAN, code : Stamp \cup {NULL}, window : Stamp \cup {NULL}]]
  /\ subject \in [Requests -> Stamp \cup {NULL}]
  /\ via \in [Requests -> Seat \cup {NULL}] /\ prior \in [Requests -> SUBSET Seat]
  /\ invitations \in [Stamp -> Invitation \cup {NULL}]
  /\ applications \in [Stamp -> Application \cup {NULL}]

LEMMA FunctionsOK == IInv => Functions
BY DEF IInv, TypeOK, MailTypeOK, SeatTypeOK, Functions

\* A step about a mailbox.
LEMMA MailStepFrame ==
  ASSUME IInv, NEW r \in Requests,
         (\E u \in Users : Ask(r, u)) \/ MailStep(r),
         UNCHANGED <<seatVars, applications>>
  PROVE  Private(r) /\ Lasting /\ Onward(r)
<1>t. Functions
  BY FunctionsOK
<1> USE <1>t DEF Functions, Private, Lasting, Onward, requestVars, mailVars,
            seatVars, Go, Ends, Looks, Spends, SeatFor
<1>1. ASSUME NEW u \in Users, Ask(r, u) PROVE Private(r) /\ Lasting /\ Onward(r)
  BY <1>1 DEF Ask
<1>2. CASE LoadForIssue(r)
  BY <1>2 DEF LoadForIssue
<1>3. CASE CommitCode(r)
  BY <1>3 DEF CommitCode
<1>4. CASE CommitCodeFails(r)
  BY <1>4 DEF CommitCodeFails
<1>5. CASE Mail(r)
  BY <1>5 DEF Mail
<1>6. CASE LoadForRevoke(r)
  BY <1>6 DEF LoadForRevoke
<1>7. CASE CommitRevoke(r)
  BY <1>7 DEF CommitRevoke
<1>8. ASSUME NEW c \in Stamp, LoadForVerify(r, c)
      PROVE  Private(r) /\ Lasting /\ Onward(r)
  BY <1>8 DEF LoadForVerify
<1>9. CASE CommitVerify(r)
  BY <1>9 DEF CommitVerify
<1>10. CASE CheckReset(r)
  BY <1>10 DEF CheckReset
<1>11. CASE CommitPassword(r)
  BY <1>11 DEF CommitPassword
<1>12. CASE LoadWindow(r)
  BY <1>12 DEF LoadWindow
<1>13. CASE CommitWindow(r)
  BY <1>13 DEF CommitWindow
<1> QED
  BY <1>1, <1>2, <1>3, <1>4, <1>5, <1>6, <1>7, <1>8, <1>9, <1>10, <1>11, <1>12,
     <1>13 DEF MailStep

\* A change of status leaves the rest of an invitation.
LEMMA StatusOnly ==
  ASSUME IInv, NEW i \in Stamp, invitations[i] \in Invitation,
         NEW s \in InviteStatus, SetStatus(i, s)
  PROVE  /\ invitations' \in [Stamp -> Invitation \cup {NULL}]
         /\ \A j \in Stamp : invitations'[j] # NULL <=> invitations[j] # NULL
         /\ \A j \in Stamp : invitations[j] \in Invitation =>
              /\ invitations'[j] \in Invitation
              /\ invitations'[j].org = invitations[j].org
              /\ invitations'[j].email = invitations[j].email
              /\ invitations'[j].kind = invitations[j].kind
              /\ invitations'[j].role = invitations[j].role
<1>1. NULL \notin Invitation
  BY SeatAssumption
<1> QED
  BY <1>1 DEF IInv, TypeOK, SeatTypeOK, SetStatus, Invitation

\* A record of Stamp that is not NULL.
LEMMA OnRecord ==
  ASSUME IInv
  PROVE  /\ \A i \in Stamp : invitations[i] # NULL <=> invitations[i] \in Invitation
         /\ \A a \in Stamp : applications[a] # NULL <=> applications[a] \in Application
BY SeatAssumption, WorldAssumption DEF IInv, TypeOK, SeatTypeOK

\* A step about an invitation.
LEMMA InviteStepFrame ==
  ASSUME IInv, NEW r \in Requests, InviteStep(r), UNCHANGED applications
  PROVE  Private(r) /\ Lasting /\ Onward(r)
<1>t. Functions
  BY FunctionsOK
<1> USE <1>t DEF Functions, Private, Lasting, Onward, requestVars, mailVars,
            seatVars, Go, Ends, Looks, Spends, SeatFor
<1>0. SubjectOK(r) /\ MailboxOK(r)
  BY DEF IInv
<1>s. /\ \A i \in Requests : i \in Stamp
      /\ {"accepted", "expired", "revoked", "declined"} \subseteq InviteStatus
  BY DEF Stamp, InviteStatus
<1>1. ASSUME NEW m \in members, Authorise(r, m)
      PROVE  Private(r) /\ Lasting /\ Onward(r)
  BY <1>1 DEF Authorise
<1>2. CASE Issue(r)
  BY <1>0, <1>2, <1>s, OnRecord DEF Issue, SubjectOK
<1>3. ASSUME NEW i \in Stamp, NEW u \in Users, LoadAnswer(r, i, u)
      PROVE  Private(r) /\ Lasting /\ Onward(r)
  BY <1>3 DEF LoadAnswer
<1>4. ASSUME NEW i \in Stamp, NEW u \in Users, LoadInvitation(r, i, u)
      PROVE  Private(r) /\ Lasting /\ Onward(r)
  BY <1>4 DEF LoadInvitation
<1>5. CASE CommitAnswer(r)
  BY <1>0, <1>5, <1>s, StatusOnly DEF CommitAnswer, SubjectOK, About
<1>6. CASE CommitExpiry(r)
  BY <1>0, <1>6, <1>s, StatusOnly DEF CommitExpiry, SubjectOK, About
<1>7. CASE CheckSeat(r)
  BY <1>7 DEF CheckSeat
<1>8. CASE ReadHolders(r)
  BY <1>8 DEF ReadHolders
<1>9. CASE CommitAccept(r)
  BY <1>0, <1>9, <1>s, StatusOnly DEF CommitAccept, SubjectOK, About
<1>10. CASE CommitAcceptFails(r)
  BY <1>10 DEF CommitAcceptFails
<1>11. ASSUME NEW i \in Stamp \cup {NULL}, LoadCode(r, i)
       PROVE  Private(r) /\ Lasting /\ Onward(r)
  BY <1>11 DEF LoadCode
<1>12. CASE Enroll(r)
  BY <1>0, <1>12, <1>s, StatusOnly DEF Enroll, SubjectOK, About
<1> QED
  BY <1>1, <1>2, <1>3, <1>4, <1>5, <1>6, <1>7, <1>8, <1>9, <1>10, <1>11, <1>12
  DEF InviteStep

\* A decision leaves the applicant of an application.
LEMMA DecisionOnly ==
  ASSUME IInv, NEW a \in Stamp, applications[a] \in Application,
         NEW s \in {"approved", "rejected"}, NEW o \in Stamp \cup {NULL},
         applications' =
           [applications EXCEPT ![a] = [applications[a] EXCEPT !.status = s, !.org = o]]
  PROVE  /\ applications' \in [Stamp -> Application \cup {NULL}]
         /\ \A b \in Stamp : applications'[b] # NULL <=> applications[b] # NULL
         /\ \A b \in Stamp : applications[b] \in Application =>
              /\ applications'[b] \in Application
              /\ applications'[b].applicant = applications[b].applicant
<1>1. NULL \notin Application
  BY WorldAssumption
<1>2. applications \in [Stamp -> Application \cup {NULL}]
  BY DEF IInv, TypeOK
<1>3. /\ [applications[a] EXCEPT !.status = s, !.org = o] \in Application
      /\ [applications[a] EXCEPT !.status = s, !.org = o].applicant =
           applications[a].applicant
  BY DEF Application
<1> QED
  BY <1>1, <1>2, <1>3

\* The two decisions in the form of DecisionOnly.
LEMMA Decisions ==
  ASSUME IInv, NEW r \in Requests, pc[r] = "reviewing",
         CommitApproval(r) \/ CommitRejection(r)
  PROVE  /\ subject[r] \in Stamp /\ applications[subject[r]] \in Application
         /\ \E s \in {"approved", "rejected"}, o \in Stamp \cup {NULL} :
              applications' = [applications EXCEPT ![subject[r]] =
                [applications[subject[r]] EXCEPT !.status = s, !.org = o]]
<1>1. subject[r] \in Stamp /\ applications[subject[r]] \in Application
  BY DEF IInv, SubjectOK
<1>2. applications \in [Stamp -> Application \cup {NULL}]
  BY DEF IInv, TypeOK
<1>3. CASE CommitApproval(r)
  <2>1. applications' = [applications EXCEPT ![subject[r]] =
          [applications[subject[r]] EXCEPT !.status = "approved", !.org = r]]
    BY <1>1, <1>2, <1>3 DEF CommitApproval, Application
  <2> QED
    BY <1>1, <2>1 DEF Stamp
<1>4. CASE CommitRejection(r)
  <2>1. applications' = [applications EXCEPT ![subject[r]] =
          [applications[subject[r]] EXCEPT !.status = "rejected",
             !.org = applications[subject[r]].org]]
    BY <1>1, <1>2, <1>4 DEF CommitRejection, Application
  <2>2. applications[subject[r]].org \in Stamp \cup {NULL}
    BY <1>1 DEF Application
  <2> QED
    BY <1>1, <2>1, <2>2
<1> QED
  BY <1>3, <1>4

\* A step about an application or a new organization.
LEMMA DeskStepFrame ==
  ASSUME IInv, NEW r \in Requests, DeskStep(r)
  PROVE  Private(r) /\ Lasting /\ Onward(r)
<1>t. Functions
  BY FunctionsOK
<1> USE <1>t DEF Functions, Private, Lasting, Onward, requestVars, mailVars,
            seatVars, Go, Ends, Looks, Spends, SeatFor
<1>0. SubjectOK(r) /\ MailboxOK(r)
  BY DEF IInv
<1>s. \A i \in Requests : i \in Stamp
  BY DEF Stamp
<1>1. ASSUME NEW u \in Users, LoadApplications(r, u)
      PROVE  Private(r) /\ Lasting /\ Onward(r)
  BY <1>1 DEF LoadApplications
<1>2. ASSUME NEW u \in Users, CreateOrganization(r, u)
      PROVE  Private(r) /\ Lasting /\ Onward(r)
  BY <1>2 DEF CreateOrganization, Founds
<1>3. CASE CommitApplication(r)
  BY <1>0, <1>3, <1>s, OnRecord DEF CommitApplication, SubjectOK
<1>4. ASSUME NEW u \in Users, NEW a \in Stamp, LoadApplication(r, u, a)
      PROVE  Private(r) /\ Lasting /\ Onward(r)
  BY <1>4 DEF LoadApplication
<1>5. CASE CommitApproval(r)
  <2>1. /\ \A b \in Stamp : applications'[b] # NULL <=> applications[b] # NULL
        /\ \A b \in Stamp : applications[b] \in Application =>
             /\ applications'[b] \in Application
             /\ applications'[b].applicant = applications[b].applicant
    <3>1. pc[r] = "reviewing"
      BY <1>5 DEF CommitApproval
    <3>2. PICK s \in {"approved", "rejected"}, o \in Stamp \cup {NULL} :
            /\ subject[r] \in Stamp /\ applications[subject[r]] \in Application
            /\ applications' = [applications EXCEPT ![subject[r]] =
                 [applications[subject[r]] EXCEPT !.status = s, !.org = o]]
      BY <1>5, <3>1, Decisions
    <3> QED
      BY <3>2, DecisionOnly
  <2>2. \A m \in members' : m \in members \/ (m.by = r /\ pc'[r] = "done")
    BY <1>5 DEF CommitApproval, Founds
  <2>3. orgs \subseteq orgs' /\ pc[r] # "done" /\ pc'[r] # "idle"
    BY <1>5 DEF CommitApproval, Founds
  <2> QED
    BY <1>5, <1>s, <2>1, <2>2, <2>3 DEF CommitApproval
<1>6. CASE CommitRejection(r)
  <2>1. /\ \A b \in Stamp : applications'[b] # NULL <=> applications[b] # NULL
        /\ \A b \in Stamp : applications[b] \in Application =>
             /\ applications'[b] \in Application
             /\ applications'[b].applicant = applications[b].applicant
    <3>1. pc[r] = "reviewing"
      BY <1>6 DEF CommitRejection
    <3>2. PICK s \in {"approved", "rejected"}, o \in Stamp \cup {NULL} :
            /\ subject[r] \in Stamp /\ applications[subject[r]] \in Application
            /\ applications' = [applications EXCEPT ![subject[r]] =
                 [applications[subject[r]] EXCEPT !.status = s, !.org = o]]
      BY <1>6, <3>1, Decisions
    <3> QED
      BY <3>2, DecisionOnly
  <2> QED
    BY <1>6, <1>s, <2>1 DEF CommitRejection
<1> QED
  BY <1>1, <1>2, <1>3, <1>4, <1>5, <1>6 DEF DeskStep

LEMMA StepFrame ==
  ASSUME IInv, NEW r \in Requests, Step(r)
  PROVE  Private(r) /\ Lasting /\ Onward(r)
BY MailStepFrame, InviteStepFrame, DeskStepFrame DEF Step

-----------------------------------------------------------------------------
(* What lasts through every step.                                           *)

LEMMA Lasts ==
  ASSUME IInv, NEW r \in Requests, Private(r), Lasting, Onward(r)
  PROVE  /\ \A q \in Requests : who[q] \in Users => who'[q] = who[q]
         /\ \A q \in Requests : spent[q] \subseteq spent'[q]
         /\ \A q \in Requests : pc[q] = "done" => pc'[q] = "done"
         /\ \A q \in Requests, u \in Users :
              PresentsCode(q, u) => PresentsCode(q, u)'
<1>1. \A q \in Requests : who[q] \in Users => who'[q] = who[q]
  BY MailAssumption DEF IInv, MailboxOK, Private, Onward
<1>2. \A q \in Requests : spent[q] \subseteq spent'[q]
  BY DEF Private, Onward
<1>3. \A q \in Requests : pc[q] = "done" => pc'[q] = "done"
  BY DEF Private, Onward
<1>4. \A q \in Requests, u \in Users :
              PresentsCode(q, u) => PresentsCode(q, u)'
  BY <1>1, <1>2 DEF PresentsCode
<1> QED
  BY <1>1, <1>2, <1>3, <1>4

LEMMA TokensLast ==
  ASSUME IInv, NEW r \in Requests, Private(r), Lasting, Onward(r),
         NEW u \in Users
  PROVE  /\ \A c : SentTo(c, u) => (c \in Requests => who'[c] = u)
         /\ \A v : OpenedFor(v, u) =>
              (v \in Requests => who'[v] = u /\ PresentsCode(v, u)')
         /\ \A q \in Requests : ProvesMailbox(q, u) => ProvesMailbox(q, u)'
<1>1. \A c : SentTo(c, u) => (c \in Requests => who'[c] = u)
  BY Lasts DEF SentTo
<1>2. \A v : OpenedFor(v, u) =>
        (v \in Requests => who'[v] = u /\ PresentsCode(v, u)')
  BY Lasts DEF OpenedFor
<1>3. \A q \in Requests : ProvesMailbox(q, u) => ProvesMailbox(q, u)'
  BY Lasts DEF ProvesMailbox
<1> QED
  BY <1>1, <1>2, <1>3

\* The other requests are where they were.
LEMMA OthersOK ==
  ASSUME IInv, NEW r \in Requests, Private(r), Lasting, Onward(r),
         NEW q \in Requests, q # r
  PROVE  MailboxOK(q)' /\ SubjectOK(q)' /\ HoldersOK(q)'
<1> MailboxOK(q) /\ SubjectOK(q) /\ HoldersOK(q)
  BY DEF IInv
<1> /\ pc'[q] = pc[q] /\ who'[q] = who[q] /\ held'[q] = held[q]
    /\ subject'[q] = subject[q] /\ via'[q] = via[q]
    /\ prior'[q] = prior[q] /\ over'[q] = over[q]
    /\ invitations'[q] # NULL => invitations[q] # NULL
    /\ applications'[q] # NULL => applications[q] # NULL
    /\ op'[q] = op[q]
  BY DEF Private, Lasting
<1>1. MailboxOK(q)'
  <2>1. CASE pc[q] = "idle"
    BY <2>1 DEF MailboxOK
  <2>2. CASE pc[q] # "idle"
    <3>u. PICK u \in Users : who[q] = u
      BY <2>2 DEF MailboxOK
    <3>1. pc[q] = "matched" => SentTo(held[q].code, who[q])'
      BY <3>u, TokensLast DEF MailboxOK, SentTo
    <3>2. pc[q] \in {"verified", "changing"} => PresentsCode(q, who[q])'
      <4>1. pc[q] \in {"verified", "changing"} => PresentsCode(q, u)'
        BY <3>u, Lasts DEF MailboxOK
      <4> QED
        BY <3>u, <4>1 DEF PresentsCode
    <3>3. pc[q] = "spending" => OpenedFor(held[q].window, who[q])'
      <4>1. pc[q] = "spending" => (held[q].window \in Requests =>
              who'[held[q].window] = u /\ PresentsCode(held[q].window, u)')
        BY <3>u, TokensLast DEF MailboxOK
      <4> QED
        BY <3>u, <4>1 DEF OpenedFor, PresentsCode
    <3>4. pc[q] \in {"admitted", "enrolling"} => ProvesMailbox(q, who[q])'
      <4>1. pc[q] \in {"admitted", "enrolling"} => ProvesMailbox(q, u)'
        BY <3>u, TokensLast DEF MailboxOK
      <4> QED
        BY <3>u, <4>1 DEF ProvesMailbox, PresentsCode
    <3> QED
      BY <2>2, <3>1, <3>2, <3>3, <3>4 DEF MailboxOK, Lasting
  <2> QED
    BY <2>1, <2>2
<1>2. SubjectOK(q)'
  BY DEF SubjectOK, About, Lasting
<1>3. HoldersOK(q)'
  <2>1. op[q] = "accept" => \A p \in over[q] \cap Requests : pc[p] = "done" /\ p # r
    BY DEF HoldersOK, Onward
  <2>2. op[q] = "accept" => \A p \in over[q] \cap Requests : pc'[p] = "done"
    BY <2>1, Lasts
  <2>3. CASE pc[q] # "ready"
    BY <2>2, <2>3 DEF HoldersOK
  <2>4. CASE pc[q] = "ready"
    <3>1. op[q] = "accept" /\ subject[q] \in Stamp
            /\ invitations[subject[q]] \in Invitation
      BY <2>4 DEF SubjectOK, About
    <3>2. /\ invitations'[subject[q]].org = invitations[subject[q]].org
          /\ invitations'[subject[q]].role = invitations[subject[q]].role
          /\ invitations'[subject[q]].kind = invitations[subject[q]].kind
      BY <3>1 DEF Lasting
    <3>3. \A m : Rivals(q, m)' <=> Rivals(q, m)
      BY <3>2 DEF Rivals
    <3>4. \A m \in members' : m.by \in over[q] => m \in members
      BY <2>1, <3>1 DEF Onward
    <3> QED
      BY <2>2, <2>4, <3>2, <3>3, <3>4 DEF HoldersOK, Rivals
  <2> QED
    BY <2>3, <2>4
<1> QED
  BY <1>1, <1>2, <1>3

-----------------------------------------------------------------------------
(* What is left to show of a step, once the rest lasts.                     *)

LEMMA MailboxStays ==
  ASSUME NEW r \in Requests, who'[r] \in Users,
         pc'[r] \notin {"idle", "matched", "verified", "changing", "spending",
                       "admitted", "enrolling"}
  PROVE  MailboxOK(r)'
BY DEF MailboxOK

SubjectPhase == SeatPhase \cup {"filing", "reviewing"}

LEMMA SubjectStays ==
  ASSUME NEW r \in Requests, pc'[r] \notin SubjectPhase,
         invitations'[r] # NULL \/ applications'[r] # NULL => pc'[r] = "done"
  PROVE  SubjectOK(r)'
BY DEF SubjectOK, SubjectPhase, SeatPhase

LEMMA HoldersStay ==
  ASSUME IInv, NEW r \in Requests, Private(r), Lasting, Onward(r),
         pc'[r] # "ready", over'[r] = over[r] \/ op[r] # "accept"
  PROVE  HoldersOK(r)'
<1>1. op[r] = "accept" => \A q \in over[r] \cap Requests : pc[q] = "done"
  BY DEF IInv, HoldersOK
<1>2. op[r] = "accept" => \A q \in over[r] \cap Requests : pc'[q] = "done"
  BY <1>1, Lasts
<1> QED
  BY <1>2 DEF HoldersOK, Lasting

LEMMA PasswordsLast ==
  ASSUME IInv, NEW r \in Requests, Private(r), Lasting, Onward(r),
         \A u \in Users : password'[u] # password[u] =>
           /\ password'[u] = r /\ who'[r] = u
           /\ IF op[r] = "signup" THEN ProvesMailbox(r, u)' ELSE PresentsCode(r, u)'
  PROVE  PasswordsOK'
<1>0. op' = op
  BY DEF Lasting
<1>1. ASSUME NEW u \in Users, NEW q, password'[u] = q, q # NULL
      PROVE  /\ q \in Requests /\ who'[q] = u
             /\ op'[q] = "signup" => ProvesMailbox(q, u)'
             /\ op'[q] # "signup" => PresentsCode(q, u)'
  <2>1. CASE password'[u] # password[u]
    BY <1>0, <1>1, <2>1
  <2>2. CASE password'[u] = password[u]
    <3>1. /\ q \in Requests /\ who[q] = u
          /\ op[q] = "signup" => ProvesMailbox(q, u)
          /\ op[q] # "signup" => PresentsCode(q, u)
      BY <1>1, <2>2 DEF IInv, PasswordsOK
    <3> QED
      BY <1>0, <3>1, Lasts, TokensLast
  <2> QED
    BY <2>1, <2>2
<1> QED
  BY <1>1 DEF PasswordsOK, ProvesMailbox, PresentsCode

LEMMA RecordsLast ==
  ASSUME IInv, NEW r \in Requests, Private(r), Lasting, Onward(r),
         \A u \in Users : codes'[u] \in {codes[u], NULL} \/ (codes'[u] = r /\ who'[r] = u),
         \A u \in Users :
           \/ windows'[u] \in {windows[u], NULL}
           \/ windows'[u] = r /\ who'[r] = u /\ PresentsCode(r, u)',
         \A i \in Stamp : invitations'[i] # NULL =>
           invitations[i] # NULL \/ invitations'[i].org \in orgs',
         \A a \in Stamp : applications'[a] # NULL =>
           applications[a] # NULL \/ applications'[a].applicant \in accounts'
  PROVE  RecordsOK'
<1>1. NULL \notin Requests
  BY MailAssumption DEF Stamp
<1>2. ASSUME NEW u \in Users PROVE SentTo(codes[u], u)'
  <2>1. codes'[u] = codes[u] => (codes[u] \in Requests => who'[codes[u]] = u)
    BY TokensLast DEF IInv, RecordsOK
  <2> QED
    BY <1>1, <2>1 DEF SentTo
<1>3. ASSUME NEW u \in Users PROVE OpenedFor(windows[u], u)'
  <2>1. windows'[u] = windows[u] => (windows[u] \in Requests =>
          who'[windows[u]] = u /\ PresentsCode(windows[u], u)')
    BY TokensLast DEF IInv, RecordsOK
  <2> QED
    BY <1>1, <2>1 DEF OpenedFor, PresentsCode
<1>4. \A i \in Stamp : invitations'[i] # NULL => invitations'[i].org \in orgs'
  BY OnRecord DEF IInv, RecordsOK, Lasting
<1>5. \A a \in Stamp : applications'[a] # NULL => applications'[a].applicant \in accounts'
  BY OnRecord DEF IInv, RecordsOK, Lasting
<1> QED
  BY <1>2, <1>3, <1>4, <1>5 DEF RecordsOK

\* Seats that are there keep their right, and new ones of r need theirs.
LEMMA SeatsLast ==
  ASSUME IInv, NEW r \in Requests, Private(r), Lasting, Onward(r),
         \A m \in members' : m \notin members => RightTo(m)',
         members' \subseteq members \/ (op[r] = "accept" => About(r)')
  PROVE  SeatsOK' /\ \A m \in members' : RightTo(m)'
<1>1. ASSUME NEW m \in members', m \in members, m.by \in Requests
      PROVE  /\ pc'[m.by] = "done"
             /\ op'[m.by] = "accept" => About(m.by)'
  <2>1. pc[m.by] = "done" /\ (op[m.by] = "accept" => About(m.by)) /\ m.by # r
    BY <1>1 DEF IInv, SeatsOK, Onward
  <2>2. pc'[m.by] = "done" /\ subject'[m.by] = subject[m.by] /\ op' = op
    BY <1>1, <2>1 DEF Private, Lasting
  <2> QED
    BY <2>1, <2>2 DEF About, Lasting
<1>2. ASSUME NEW m \in members', m \notin members, m.by \in Requests
      PROVE  /\ pc'[m.by] = "done"
             /\ op'[m.by] = "accept" => About(m.by)'
  <2>1. m.by = r /\ pc'[r] = "done" /\ op' = op
    BY <1>2 DEF Onward, Lasting
  <2> QED
    BY <1>2, <2>1 DEF About
<1>3. ASSUME NEW m \in members', m \in members PROVE RightTo(m)'
  <2>1. RightTo(m)
    BY <1>3 DEF IInv
  <2>2. m.by \in Requests => spent[m.by] \subseteq spent'[m.by]
    BY Lasts
  <2> QED
    BY <2>1, <2>2 DEF RightTo, Lasting
<1> QED
  BY <1>1, <1>2, <1>3 DEF SeatsOK

LEMMA HandOverLasts ==
  ASSUME IInv, NEW r \in Requests, Private(r), Lasting, Onward(r),
         \A n \in members' : n \notin members /\ op[r] = "accept" =>
           \A m \in members' :
             /\ m # n /\ m.org = n.org /\ m.role = n.role
             /\ invitations'[subject'[r]].kind = "role_transfer"
             => m.by \notin over'[r]
  PROVE  HandOverIsComplete'
<1> SUFFICES ASSUME NEW m \in members', NEW n \in members',
                    m # n, m.org = n.org, m.role = n.role,
                    n.by \in Requests, op[n.by] = "accept",
                    invitations'[subject'[n.by]].kind = "role_transfer"
             PROVE  m.by \notin over'[n.by]
  BY DEF HandOverIsComplete, Lasting
<1>1. CASE n \notin members
  BY <1>1 DEF Onward
<1>2. CASE n \in members
  <2>1. pc[n.by] = "done" /\ About(n.by) /\ n.by # r
    BY <1>2 DEF IInv, SeatsOK, Onward
  <2>2. subject'[n.by] = subject[n.by] /\ over'[n.by] = over[n.by]
    BY <2>1 DEF Private
  <2>3. invitations[subject[n.by]].kind = "role_transfer"
    BY <2>1, <2>2 DEF About, Lasting
  <2>4. CASE m \in members
    BY <1>2, <2>2, <2>3, <2>4 DEF IInv, HandOverIsComplete
  <2>5. CASE m \notin members
    <3>1. m.by = r /\ pc[r] # "done"
      BY <2>5 DEF Onward
    <3>2. \A q \in over[n.by] \cap Requests : pc[q] = "done"
      BY DEF IInv, HoldersOK
    <3> QED
      BY <2>2, <3>1, <3>2
  <2> QED
    BY <2>4, <2>5
<1> QED
  BY <1>1, <1>2

-----------------------------------------------------------------------------
(* The steps about a mailbox.                                               *)

LEMMA MailQuiet ==
  ASSUME IInv, NEW r \in Requests, Private(r), Lasting, Onward(r),
         UNCHANGED <<seatVars, applications>>, pc'[r] \in MailPhase,
         over'[r] = over[r] \/ op[r] # "accept"
  PROVE  SubjectOK(r)' /\ HoldersOK(r)'
<1>1. pc'[r] \notin SubjectPhase /\ pc'[r] # "ready"
  BY DEF MailPhase, SubjectPhase, SeatPhase
<1>2. invitations'[r] = invitations[r] /\ applications'[r] = applications[r]
  BY DEF seatVars
<1>3. invitations[r] = NULL /\ applications[r] = NULL
  BY DEF IInv, SubjectOK, Onward
<1> QED
  BY <1>1, <1>2, <1>3, SubjectStays, HoldersStay

LEMMA MailTypes ==
  ASSUME IInv, UNCHANGED <<seatVars, applications>>, MailTypeOK',
         NEW r \in Requests, NEW phase \in MailPhase, Go(r, phase)
  PROVE  TypeOK' /\ pc'[r] = phase
<1>1. SeatTypeOK' /\ applications' \in [Stamp -> Application \cup {NULL}]
  BY DEF IInv, TypeOK, SeatTypeOK, seatVars
<1>2. pc' \in [Requests -> Phase] /\ pc'[r] = phase
  BY DEF IInv, TypeOK, Go, Phase
<1> QED
  BY <1>1, <1>2 DEF TypeOK

\* The history keeps its type.
LEMMA LooksType ==
  ASSUME MailTypeOK, NEW r \in Requests, NEW t \in Token, Looks(r, t)
  PROVE  knew' \in [Requests -> SUBSET (Token \X Requests)]
<1>1. {t} \X Spenders(t) \in SUBSET (Token \X Requests)
  BY DEF Spenders
<1>2. knew \in [Requests -> SUBSET (Token \X Requests)]
  BY DEF MailTypeOK
<1>3. knew[r] \cup ({t} \X Spenders(t)) \in SUBSET (Token \X Requests)
  BY <1>1, <1>2
<1>4. knew' = [knew EXCEPT ![r] = knew[r] \cup ({t} \X Spenders(t))]
  BY DEF Looks
<1> QED
  BY <1>2, <1>3, <1>4

LEMMA SpendsType ==
  ASSUME MailTypeOK, NEW r \in Requests, NEW t \in Token, Spends(r, t)
  PROVE  spent' \in [Requests -> SUBSET Token] /\ t \in spent'[r]
BY DEF MailTypeOK, Spends

\* What a step of r has to show of itself.
Keeps(r) ==
  TypeOK' /\ MailboxOK(r)' /\ SubjectOK(r)' /\ HoldersOK(r)' /\ RecordsOK' /\ PasswordsOK'

LEMMA MailSelf ==
  ASSUME IInv, NEW r \in Requests, Private(r), Lasting, Onward(r),
         UNCHANGED <<seatVars, applications>>
  PROVE  /\ \A u \in Users : Ask(r, u) => Keeps(r)
         /\ LoadForIssue(r) => Keeps(r)
         /\ CommitCode(r) => Keeps(r)
         /\ CommitCodeFails(r) => Keeps(r)
         /\ Mail(r) => Keeps(r)
         /\ LoadForRevoke(r) => Keeps(r)
         /\ CommitRevoke(r) => Keeps(r)
         /\ \A c \in Stamp : LoadForVerify(r, c) => Keeps(r)
         /\ CommitVerify(r) => Keeps(r)
         /\ CheckReset(r) => Keeps(r)
         /\ CommitPassword(r) => Keeps(r)
         /\ LoadWindow(r) => Keeps(r)
         /\ CommitWindow(r) => Keeps(r)
<1>t. MailTypeOK /\ Functions /\ (IF pc[r] = "idle" THEN who[r] = NULL ELSE who[r] \in Users)
  BY FunctionsOK DEF IInv, TypeOK, MailboxOK
<1>m. MailboxOK(r)
  BY DEF IInv
<1>s. /\ \A i \in Stamp : /\ invitations'[i] = invitations[i]
                         /\ applications'[i] = applications[i]
      /\ op' = op /\ r \in Stamp
  BY DEF seatVars, Lasting, Stamp
<1>p. ASSUME NEW phase \in MailPhase, Go(r, phase), MailTypeOK', MailboxOK(r)',
             over'[r] = over[r] \/ op[r] # "accept",
             UNCHANGED <<codes, windows, password>>
      PROVE  Keeps(r)
  <2>1. TypeOK' /\ pc'[r] = phase
    BY <1>p, MailTypes
  <2>2. SubjectOK(r)' /\ HoldersOK(r)'
    BY <1>p, <2>1, MailQuiet
  <2>3. PasswordsOK'
    BY <1>p, PasswordsLast
  <2>4. RecordsOK'
    BY <1>p, <1>s, RecordsLast
  <2> QED
    BY <1>p, <2>1, <2>2, <2>3, <2>4 DEF Keeps
<1>1. ASSUME NEW u \in Users, Ask(r, u) PROVE Keeps(r)
  <2>1. Go(r, "asked") /\ pc'[r] = "asked" /\ who'[r] = u /\ "asked" \in MailPhase
    BY <1>1, <1>t DEF Ask, Go, Functions, MailPhase
  <2>2. MailTypeOK'
    BY <1>1, <1>t DEF Ask, MailTypeOK
  <2>3. UNCHANGED <<codes, windows, password, over>>
    BY <1>1 DEF Ask
  <2> QED
    BY <2>1, <2>2, <2>3, <1>p, MailboxStays
<1>2. ASSUME LoadForIssue(r) PROVE Keeps(r)
  <2>1. Go(r, "loaded") /\ pc'[r] = "loaded" /\ who'[r] \in Users /\ "loaded" \in MailPhase
    BY <1>2, <1>t DEF LoadForIssue, Go, Functions, MailPhase
  <2>2. MailTypeOK'
    BY <1>2, <1>t DEF LoadForIssue, MailTypeOK, Copy, Acted, Stamp
  <2>3. UNCHANGED <<codes, windows, password>> /\ op[r] # "accept"
    BY <1>2 DEF LoadForIssue
  <2> QED
    BY <2>1, <2>2, <2>3, <1>p, MailboxStays
<1>4. ASSUME CommitCodeFails(r) PROVE Keeps(r)
  <2>1. Go(r, "failed") /\ pc'[r] = "failed" /\ who'[r] \in Users /\ "failed" \in MailPhase
    BY <1>4, <1>t DEF CommitCodeFails, Ends, Go, Functions, MailPhase, requestVars
  <2>2. MailTypeOK'
    BY <1>4, <1>t DEF CommitCodeFails, MailTypeOK, Ends, NoCopy, requestVars
  <2>3. UNCHANGED <<codes, windows, password, over>>
    BY <1>4 DEF CommitCodeFails, requestVars
  <2> QED
    BY <2>1, <2>2, <2>3, <1>p, MailboxStays
<1>5. ASSUME Mail(r) PROVE Keeps(r)
  <2>1. PICK phase \in {"done", "bounced"} : Go(r, phase)
    BY <1>5 DEF Mail
  <2>2. phase \in MailPhase /\ pc'[r] = phase /\ who'[r] \in Users
    BY <1>5, <2>1, <1>t DEF Mail, Go, Functions, MailPhase, requestVars
  <2>3. MailTypeOK' /\ UNCHANGED <<codes, windows, password, over>>
    BY <1>5, <1>t DEF Mail, MailTypeOK, requestVars
  <2> QED
    BY <2>1, <2>2, <2>3, <1>p, MailboxStays
<1>6. ASSUME LoadForRevoke(r) PROVE Keeps(r)
  <2>1. PICK phase \in {"failed", "revoking"} : Go(r, phase)
    BY <1>6 DEF LoadForRevoke
  <2>2. phase \in MailPhase /\ pc'[r] = phase /\ who'[r] \in Users
    BY <1>6, <2>1, <1>t DEF LoadForRevoke, Go, Functions, MailPhase, requestVars
  <2>3. MailTypeOK' /\ UNCHANGED <<codes, windows, password, over>>
    BY <1>6, <1>t DEF LoadForRevoke, MailTypeOK, requestVars
  <2> QED
    BY <2>1, <2>2, <2>3, <1>p, MailboxStays
<1>8. ASSUME NEW c \in Stamp, LoadForVerify(r, c) PROVE Keeps(r)
  <2>1. /\ Go(r, "matched") /\ pc'[r] = "matched" /\ "matched" \in MailPhase
        /\ who' = who /\ who[r] \in Users /\ held'[r].code = c /\ codes[who[r]] = c
    BY <1>8, <1>t DEF LoadForVerify, Go, Functions, MailPhase, Copy
  <2>2. MailTypeOK'
    <3>1. <<"code", c>> \in Token
      BY DEF Token
    <3>2. knew' \in [Requests -> SUBSET (Token \X Requests)]
      BY <1>8, <1>t, <3>1, LooksType DEF LoadForVerify
    <3> QED
      BY <1>8, <1>t, <3>2 DEF LoadForVerify, MailTypeOK, Copy
  <2>3. UNCHANGED <<codes, windows, password, over>>
    BY <1>8 DEF LoadForVerify
  <2>4. c # NULL
    BY MailAssumption
  <2>5. who[r] \in mailRows /\ SentTo(c, who[r])
    BY <2>1, <2>4, <1>t DEF MailTypeOK, IInv, RecordsOK
  <2>6. MailboxOK(r)'
    BY <1>8, <1>s, <2>1, <2>5 DEF LoadForVerify, MailboxOK, SentTo
  <2> QED
    BY <2>1, <2>2, <2>3, <2>6, <1>p
<1>10. ASSUME CheckReset(r) PROVE Keeps(r)
  <2>1. PICK phase \in {"refused", "changing"} : Go(r, phase)
    BY <1>10 DEF CheckReset
  <2>2. phase \in MailPhase /\ pc'[r] = phase /\ who' = who /\ who[r] \in Users
    BY <1>10, <2>1, <1>t DEF CheckReset, Go, Functions, MailPhase, requestVars
  <2>3. MailTypeOK' /\ UNCHANGED <<codes, windows, password, over, spent>>
    BY <1>10, <1>t DEF CheckReset, MailTypeOK, requestVars
  <2>4. MailboxOK(r)'
    BY <1>10, <1>m, <1>s, <2>2, <2>3 DEF CheckReset, MailboxOK, PresentsCode
  <2> QED
    BY <2>1, <2>2, <2>3, <2>4, <1>p
<1>12. ASSUME LoadWindow(r) PROVE Keeps(r)
  <2> DEFINE v == windows[who[r]]
  <2>1. /\ who' = who /\ who[r] \in Users /\ op[r] \in {"signup", "reset"}
        /\ UNCHANGED <<codes, windows, password, over, spent>>
    BY <1>12, <1>t DEF LoadWindow
  <2>2. CASE v # NULL /\ <<"window", v>> \notin lapsed
    <3>1. /\ Go(r, "spending") /\ pc'[r] = "spending" /\ "spending" \in MailPhase
          /\ held'[r].window = v /\ v \in Stamp
      BY <1>12, <2>1, <2>2, <1>t DEF LoadWindow, Go, Functions, MailPhase, Copy, MailTypeOK
    <3>2. MailTypeOK'
      <4>1. <<"window", v>> \in Token
        BY <3>1 DEF Token
      <4>2. knew' \in [Requests -> SUBSET (Token \X Requests)]
        BY <1>12, <1>t, <2>2, <4>1, LooksType DEF LoadWindow
      <4>3. held' \in [Requests ->
              [row : BOOLEAN, code : Stamp \cup {NULL}, window : Stamp \cup {NULL}]]
        <5>1. held' = [held EXCEPT ![r] = Copy(who[r])]
          BY <1>12, <2>2 DEF LoadWindow
        <5> QED
          BY <5>1, <2>1, <1>t DEF MailTypeOK, Copy
      <4> QED
        BY <1>12, <1>t, <4>2, <4>3 DEF LoadWindow, MailTypeOK
    <3>3. OpenedFor(v, who[r])
      BY <2>1 DEF IInv, RecordsOK
    <3>4. MailboxOK(r)'
      BY <1>s, <2>1, <3>1, <3>3 DEF MailboxOK, OpenedFor, PresentsCode
    <3> QED
      BY <2>1, <3>1, <3>2, <3>4, <1>p
  <2>3. CASE ~(v # NULL /\ <<"window", v>> \notin lapsed)
    <3>1. PICK phase \in {"done", "refused"} : Ends(r, phase) /\ knew' = knew
      BY <1>12, <2>3 DEF LoadWindow
    <3>2. Go(r, phase) /\ phase \in MailPhase /\ pc'[r] = phase
      BY <3>1, <1>t DEF Ends, Go, Functions, MailPhase
    <3>3. MailTypeOK'
      BY <1>12, <1>t, <3>1 DEF LoadWindow, MailTypeOK, Ends, NoCopy
    <3> QED
      BY <2>1, <3>2, <3>3, <1>p, MailboxStays
  <2> QED
    BY <2>2, <2>3
<1>3. ASSUME CommitCode(r) PROVE Keeps(r)
  <2>1. /\ Go(r, "issued") /\ pc'[r] = "issued" /\ "issued" \in MailPhase
        /\ who' = who /\ who[r] \in Users /\ UNCHANGED <<password, over, spent>>
    BY <1>3, <1>t DEF CommitCode, Ends, Go, Functions, MailPhase, requestVars
  <2>2. MailTypeOK'
    BY <1>3, <1>t, <1>s, <2>1 DEF CommitCode, MailTypeOK, Ends, NoCopy, requestVars
  <2>3. \A u \in Users : /\ codes'[u] \in {codes[u], NULL} \/ (codes'[u] = r /\ who'[r] = u)
                        /\ windows'[u] \in {windows[u], NULL}
    BY <1>3, <1>t, <2>1 DEF CommitCode, MailTypeOK
  <2>4. RecordsOK' /\ PasswordsOK'
    BY <1>s, <2>1, <2>3, RecordsLast, PasswordsLast
  <2>5. TypeOK' /\ MailboxOK(r)' /\ SubjectOK(r)' /\ HoldersOK(r)'
    BY <2>1, <2>2, MailTypes, MailQuiet, MailboxStays
  <2> QED
    BY <2>4, <2>5 DEF Keeps
<1>7. ASSUME CommitRevoke(r) PROVE Keeps(r)
  <2>1. /\ Go(r, "failed") /\ pc'[r] = "failed" /\ "failed" \in MailPhase
        /\ who' = who /\ who[r] \in Users /\ UNCHANGED <<password, over, spent>>
    BY <1>7, <1>t DEF CommitRevoke, Ends, Go, Functions, MailPhase, requestVars
  <2>2. MailTypeOK'
    BY <1>7, <1>t, <2>1 DEF CommitRevoke, MailTypeOK, Ends, NoCopy, requestVars
  <2>3. \A u \in Users : /\ codes'[u] \in {codes[u], NULL}
                        /\ windows'[u] \in {windows[u], NULL}
    BY <1>7, <1>t DEF CommitRevoke, MailTypeOK
  <2>4. RecordsOK' /\ PasswordsOK'
    BY <1>s, <2>1, <2>3, RecordsLast, PasswordsLast
  <2>5. TypeOK' /\ MailboxOK(r)' /\ SubjectOK(r)' /\ HoldersOK(r)'
    BY <2>1, <2>2, MailTypes, MailQuiet, MailboxStays
  <2> QED
    BY <2>4, <2>5 DEF Keeps
<1>9. ASSUME CommitVerify(r) PROVE Keeps(r)
  <2>0. /\ op[r] \in {"verify", "reset"} /\ who[r] \in mailRows /\ who[r] \in Users
        /\ held[r].code \in Stamp /\ SentTo(held[r].code, who[r])
    BY <1>9, <1>m, <1>t DEF CommitVerify, MailboxOK
  <2>1. PICK phase \in {"verified", "done"} :
          /\ Ends(r, phase) /\ (phase = "verified" => op[r] = "reset")
    BY <1>9 DEF CommitVerify
  <2>2. /\ Go(r, phase) /\ pc'[r] = phase /\ phase \in MailPhase
        /\ who' = who /\ UNCHANGED <<password, over>>
    BY <1>9, <2>1, <1>t DEF CommitVerify, Ends, Go, Functions, MailPhase, requestVars
  <2>3. <<"code", held[r].code>> \in Token
    BY <2>0 DEF Token
  <2>4. MailTypeOK'
    <3>1. spent' \in [Requests -> SUBSET Token]
      BY <1>9, <1>t, <2>3, SpendsType DEF CommitVerify
    <3>2. held' \in [Requests ->
            [row : BOOLEAN, code : Stamp \cup {NULL}, window : Stamp \cup {NULL}]]
      BY <2>1, <1>t DEF MailTypeOK, Ends, NoCopy
    <3>3. /\ codes' = [codes EXCEPT ![who[r]] = NULL]
          /\ windows' = [windows EXCEPT ![who[r]] = r]
          /\ mailRows' = mailRows
      BY <1>9 DEF CommitVerify
    <3>4. /\ codes' \in [Users -> Stamp \cup {NULL}]
          /\ windows' \in [Users -> Stamp \cup {NULL}]
          /\ \A u \in Users : codes'[u] # NULL \/ windows'[u] # NULL => u \in mailRows'
      BY <3>3, <1>t, <1>s, <2>0 DEF MailTypeOK
    <3> QED
      BY <1>9, <1>t, <3>1, <3>2, <3>4 DEF CommitVerify, MailTypeOK, requestVars
  <2>5. <<"code", held[r].code>> \in spent'[r]
    BY <1>9, <1>t DEF CommitVerify, Functions, Spends
  <2>6. PICK u \in Users : u = who[r]
    BY <2>0
  <2>7. PresentsCode(r, u)'
    BY <2>0, <2>2, <2>5, <2>6 DEF PresentsCode, SentTo
  <2>8. \A w \in Users : /\ codes'[w] \in {codes[w], NULL}
                        /\ \/ windows'[w] \in {windows[w], NULL}
                           \/ windows'[w] = r /\ w = u
    BY <1>9, <1>t, <2>6 DEF CommitVerify, MailTypeOK
  <2>9. ASSUME NEW w \in Users
        PROVE  \/ windows'[w] \in {windows[w], NULL}
               \/ windows'[w] = r /\ who'[r] = w /\ PresentsCode(r, w)'
    <3>1. w = u => PresentsCode(r, w)'
      BY <2>7
    <3> QED
      BY <2>2, <2>6, <2>8, <3>1
  <2>10. RecordsOK' /\ PasswordsOK'
    BY <1>s, <2>2, <2>8, <2>9, RecordsLast, PasswordsLast
  <2>11. MailboxOK(r)'
    BY <1>s, <2>1, <2>2, <2>0, <2>6, <2>7 DEF MailboxOK, PresentsCode
  <2>12. TypeOK' /\ SubjectOK(r)' /\ HoldersOK(r)'
    BY <2>2, <2>4, MailTypes, MailQuiet
  <2> QED
    BY <2>10, <2>11, <2>12 DEF Keeps
<1>11. ASSUME CommitPassword(r) PROVE Keeps(r)
  <2>1. /\ Go(r, "consuming") /\ pc'[r] = "consuming" /\ "consuming" \in MailPhase
        /\ who' = who /\ UNCHANGED <<over, spent, codes, windows>>
        /\ op[r] = "reset"
    BY <1>11, <1>m, <1>t DEF CommitPassword, Go, Functions, MailPhase, requestVars, MailboxOK
  <2>2. PICK u \in Users : u = who[r]
    BY <1>11, <1>t DEF CommitPassword
  <2>3. MailTypeOK'
    BY <1>11, <1>t, <1>s DEF CommitPassword, MailTypeOK, requestVars
  <2>4. PresentsCode(r, u)'
    BY <1>11, <1>m, <2>1, <2>2 DEF CommitPassword, MailboxOK, PresentsCode
  <2>5. \A w \in Users : password'[w] # password[w] => password'[w] = r /\ w = u
    BY <1>11, <1>t, <2>2 DEF CommitPassword, MailTypeOK
  <2>6. ASSUME NEW w \in Users, password'[w] # password[w]
        PROVE  /\ password'[w] = r /\ who'[r] = w
               /\ IF op[r] = "signup" THEN ProvesMailbox(r, w)' ELSE PresentsCode(r, w)'
    <3>1. w = u
      BY <2>5, <2>6
    <3>2. PresentsCode(r, w)'
      BY <2>4, <3>1
    <3> QED
      BY <2>1, <2>2, <2>5, <2>6, <3>1, <3>2
  <2>7. RecordsOK' /\ PasswordsOK'
    BY <1>s, <2>1, <2>6, RecordsLast, PasswordsLast
  <2>8. TypeOK' /\ MailboxOK(r)' /\ SubjectOK(r)' /\ HoldersOK(r)'
    BY <2>1, <2>2, <2>3, MailTypes, MailQuiet, MailboxStays
  <2> QED
    BY <2>7, <2>8 DEF Keeps
<1>13. ASSUME CommitWindow(r) PROVE Keeps(r)
  <2>0. /\ op[r] \in {"signup", "reset"} /\ who[r] \in Users
        /\ held[r].window \in Stamp /\ OpenedFor(held[r].window, who[r])
    BY <1>13, <1>m, <1>t DEF CommitWindow, MailboxOK
  <2>1. PICK phase \in {"done", "admitted"} :
          Ends(r, phase) /\ (phase = "admitted" => op[r] = "signup")
    BY <1>13, <2>0 DEF CommitWindow
  <2>2. /\ Go(r, phase) /\ pc'[r] = phase /\ phase \in MailPhase
        /\ who' = who /\ UNCHANGED <<password, over, codes>>
    BY <1>13, <2>1, <1>t DEF CommitWindow, Ends, Go, Functions, MailPhase, requestVars
  <2>3. <<"window", held[r].window>> \in Token
    BY <2>0 DEF Token
  <2>4. MailTypeOK'
    BY <1>13, <1>t, <2>0, <2>1, <2>3
    DEF CommitWindow, MailTypeOK, Ends, NoCopy, requestVars, Spends
  <2>5. <<"window", held[r].window>> \in spent'[r]
    BY <1>13, <1>t DEF CommitWindow, Functions, Spends
  <2>6. PICK u \in Users : u = who[r]
    BY <2>0
  <2>7. PICK v \in Stamp : v = held[r].window
    BY <2>0
  <2>8. v \in Requests => who'[v] = u /\ PresentsCode(v, u)'
    BY <2>0, <2>6, <2>7, TokensLast
  <2>9. ProvesMailbox(r, u)'
    BY <2>5, <2>7, <2>8 DEF ProvesMailbox
  <2>10. MailboxOK(r)'
    BY <1>s, <2>0, <2>1, <2>2, <2>6, <2>9 DEF MailboxOK, ProvesMailbox, PresentsCode
  <2>11. \A w \in Users : windows'[w] \in {windows[w], NULL}
    BY <1>13, <1>t DEF CommitWindow, MailTypeOK
  <2>12. RecordsOK' /\ PasswordsOK'
    BY <1>s, <2>2, <2>11, RecordsLast, PasswordsLast
  <2>13. TypeOK' /\ SubjectOK(r)' /\ HoldersOK(r)'
    BY <2>2, <2>4, MailTypes, MailQuiet
  <2> QED
    BY <2>10, <2>12, <2>13 DEF Keeps
<1> QED
  BY <1>1, <1>2, <1>3, <1>4, <1>5, <1>6, <1>7, <1>8, <1>9, <1>10, <1>11, <1>12,
     <1>13

-----------------------------------------------------------------------------
(* The steps about an organization.                                         *)

\* What a step has to show of the seats.
SeatsKeep ==
  SeatsOK' /\ (\A m \in members' : RightTo(m)') /\ HandOverIsComplete' /\ OrganizationsAreLed'

\* A step that seats nobody.
LEMMA SeatsQuiet ==
  ASSUME IInv, NEW r \in Requests, Private(r), Lasting, Onward(r),
         members' = members, orgs' = orgs
  PROVE  SeatsKeep
<1>1. SeatsOK' /\ \A m \in members' : RightTo(m)'
  BY SeatsLast
<1>2. HandOverIsComplete'
  BY HandOverLasts
<1>3. OrganizationsAreLed'
  BY DEF IInv, OrganizationsAreLed
<1> QED
  BY <1>1, <1>2, <1>3 DEF SeatsKeep

\* The row in hand may be dropped.
LEMMA EndsType ==
  ASSUME MailTypeOK, NEW r \in Requests, held' = [held EXCEPT ![r] = NoCopy]
  PROVE  held' \in [Requests ->
           [row : BOOLEAN, code : Stamp \cup {NULL}, window : Stamp \cup {NULL}]]
BY DEF MailTypeOK, NoCopy

\* What a step that leaves the mailboxes alone has to show.
LEMMA SeatKeeps ==
  ASSUME IInv, NEW r \in Requests, Private(r), Lasting, Onward(r),
         UNCHANGED <<op, accounts, password, mailRows, codes, windows, lapsed>>,
         who' \in [Requests -> Users \cup {NULL}],
         held' = held \/ held' = [held EXCEPT ![r] = NoCopy],
         spent' \in [Requests -> SUBSET Token],
         knew' \in [Requests -> SUBSET (Token \X Requests)],
         over' \in [Requests -> SUBSET Stamp],
         NEW phase \in Phase, Go(r, phase),
         SeatTypeOK', applications' \in [Stamp -> Application \cup {NULL}],
         MailboxOK(r)', SubjectOK(r)', HoldersOK(r)',
         \A i \in Stamp : invitations'[i] # NULL =>
           invitations[i] # NULL \/ invitations'[i].org \in orgs',
         \A a \in Stamp : applications'[a] # NULL =>
           applications[a] # NULL \/ applications'[a].applicant \in accounts'
  PROVE  Keeps(r)
<1>1. MailTypeOK
  BY DEF IInv, TypeOK
<1>2. held' \in [Requests ->
         [row : BOOLEAN, code : Stamp \cup {NULL}, window : Stamp \cup {NULL}]]
  BY <1>1, EndsType DEF MailTypeOK
<1>3. MailTypeOK'
  BY <1>1, <1>2 DEF MailTypeOK
<1>4. pc' \in [Requests -> Phase]
  BY DEF IInv, TypeOK, Go
<1>5. RecordsOK'
  BY RecordsLast
<1>6. PasswordsOK'
  BY PasswordsLast
<1> QED
  BY <1>3, <1>4, <1>5, <1>6 DEF Keeps, TypeOK

LEMMA InvitationTokens == \A i \in Stamp : <<"invitation", i>> \in Token /\ <<"application", i>> \in Token
BY DEF Token

\* The invitation of a seat in use is that of a person and a role.
LEMMA SeatForType ==
  ASSUME NEW r \in Requests, NEW inv \in Invitation, NEW u \in Users
  PROVE  /\ SeatFor(r, inv, u) \in Seat
         /\ SeatFor(r, inv, u).org = inv.org /\ SeatFor(r, inv, u).user = u
         /\ SeatFor(r, inv, u).role = inv.role /\ SeatFor(r, inv, u).by = r
BY DEF SeatFor, Seat, Invitation, Stamp

\* The steps about an invitation that seat nobody.
LEMMA InviteSelf ==
  ASSUME IInv, NEW r \in Requests, Private(r), Lasting, Onward(r),
         UNCHANGED applications
  PROVE  /\ \A m \in members : Authorise(r, m) => Keeps(r)
         /\ Issue(r) => Keeps(r)
         /\ \A i \in Stamp, u \in Users : LoadAnswer(r, i, u) => Keeps(r)
         /\ \A i \in Stamp, u \in Users : LoadInvitation(r, i, u) => Keeps(r)
         /\ CommitAnswer(r) => Keeps(r)
         /\ CommitExpiry(r) => Keeps(r)
         /\ CheckSeat(r) => Keeps(r)
         /\ ReadHolders(r) => Keeps(r)
         /\ CommitAcceptFails(r) => Keeps(r)
         /\ \A i \in Stamp \cup {NULL} : LoadCode(r, i) => Keeps(r)
<1>t. MailTypeOK /\ SeatTypeOK /\ Functions
  BY FunctionsOK DEF IInv, TypeOK
<1>m. MailboxOK(r) /\ SubjectOK(r)
  BY DEF IInv
<1>n. invitations[r] = NULL /\ applications[r] = NULL
  BY <1>m DEF SubjectOK, Onward
<1>a. applications' \in [Stamp -> Application \cup {NULL}] /\ op' = op /\ r \in Stamp
  BY DEF IInv, TypeOK, Lasting, Stamp
<1>ph. /\ {"authorised", "expiring", "invited", "checked", "ready", "answering",
          "enrolling", "done", "refused", "failed"} \subseteq Phase
  BY DEF Phase, SeatPhase, MailPhase
<1>o. \A i \in Stamp : invitations[i] # NULL <=> invitations[i] \in Invitation
  BY OnRecord
\* A step to a phase other than "ready" and "enrolling".
<1>p. ASSUME NEW phase \in {"authorised", "expiring", "invited", "checked",
                           "answering", "done", "refused", "failed"},
             Go(r, phase), who'[r] \in Users,
             UNCHANGED <<op, accounts, password, mailRows, codes, windows, lapsed, over>>,
             who' \in [Requests -> Users \cup {NULL}],
             held' = held \/ held' = [held EXCEPT ![r] = NoCopy],
             spent' \in [Requests -> SUBSET Token],
             knew' \in [Requests -> SUBSET (Token \X Requests)],
             SeatTypeOK', SubjectOK(r)',
             \A i \in Stamp : invitations'[i] # NULL =>
               invitations[i] # NULL \/ invitations'[i].org \in orgs'
      PROVE  Keeps(r)
  <2>1. pc'[r] = phase /\ phase \in Phase /\ over' \in [Requests -> SUBSET Stamp]
    BY <1>p, <1>t, <1>ph DEF Go, Functions
  <2>2. MailboxOK(r)'
    BY <1>p, <2>1, MailboxStays
  <2>3. HoldersOK(r)'
    BY <1>p, <2>1, HoldersStay
  <2> QED
    BY <1>p, <1>a, <2>1, <2>2, <2>3, SeatKeeps
<1>1. ASSUME NEW m \in members, Authorise(r, m) PROVE Keeps(r)
  <2>1. m \in Seat /\ m.user \in Users /\ m.org \in orgs
    BY <1>t DEF SeatTypeOK, Seat, IInv, RightTo
  <2>2. /\ Go(r, "authorised") /\ pc'[r] = "authorised" /\ who'[r] = m.user
        /\ who' \in [Requests -> Users \cup {NULL}] /\ via'[r] = m
    BY <1>1, <1>t, <2>1 DEF Authorise, Go, Functions
  <2>3. SeatTypeOK'
    BY <1>1, <1>t, <2>1 DEF Authorise, SeatTypeOK
  <2>4. SubjectOK(r)'
    BY <1>1, <1>n, <2>1, <2>2 DEF Authorise, SubjectOK
  <2> QED
    BY <1>1, <1>t, <2>1, <2>2, <2>3, <2>4, <1>p DEF Authorise, MailTypeOK
<1>2. ASSUME Issue(r) PROVE Keeps(r)
  <2>1. via[r] \in Seat /\ via[r].org \in orgs /\ who[r] \in Users
    BY <1>2, <1>m DEF Issue, SubjectOK, MailboxOK
  <2>2. PICK e \in Users, offer \in Offers(r) : invitations' = [invitations EXCEPT ![r] =
          [org |-> via[r].org, email |-> e, kind |-> offer[1], role |-> offer[2],
           status |-> "pending"]]
    BY <1>2 DEF Issue
  <2>3. offer[1] \in InviteKinds /\ offer[2] \in Roles
    BY <2>1 DEF Offers, InviteKinds, Roles, Seat
  <2>4. [org |-> via[r].org, email |-> e, kind |-> offer[1], role |-> offer[2],
           status |-> "pending"] \in Invitation
    BY <2>1, <2>3 DEF Invitation, Seat, InviteStatus
  <2>5. /\ invitations' \in [Stamp -> Invitation \cup {NULL}]
        /\ \A i \in Stamp : invitations'[i] # NULL =>
             invitations[i] # NULL \/ invitations'[i].org \in orgs
    BY <1>t, <1>a, <2>1, <2>2, <2>4 DEF SeatTypeOK
  <2>6. SeatTypeOK'
    BY <1>2, <1>t, <2>5 DEF Issue, SeatTypeOK
  <2>7. Go(r, "done") /\ pc'[r] = "done"
    BY <1>2, <1>t DEF Issue, Ends, Go, Functions
  <2>8. SubjectOK(r)'
    BY <2>7 DEF SubjectOK
  <2> QED
    BY <1>2, <1>t, <2>1, <2>5, <2>6, <2>7, <2>8, <1>p
    DEF Issue, Ends, requestVars, MailTypeOK
<1>3. ASSUME NEW i \in Stamp, NEW u \in Users, LoadAnswer(r, i, u) PROVE Keeps(r)
  <2>1. /\ Go(r, "answering") /\ pc'[r] = "answering" /\ who'[r] = u
        /\ who' \in [Requests -> Users \cup {NULL}] /\ subject'[r] = i
        /\ invitations' = invitations /\ invitations[i] \in Invitation
    BY <1>3, <1>t, <1>o DEF LoadAnswer, Pending, Go, Functions
  <2>2. SeatTypeOK'
    BY <1>3, <1>t DEF LoadAnswer, SeatTypeOK
  <2>3. SubjectOK(r)'
    BY <1>3, <1>n, <2>1 DEF SubjectOK, About
  <2>4. knew' \in [Requests -> SUBSET (Token \X Requests)]
    BY <1>3, <1>t, InvitationTokens, LooksType DEF LoadAnswer
  <2> QED
    BY <1>3, <1>t, <2>1, <2>2, <2>3, <2>4, <1>p DEF LoadAnswer, MailTypeOK
<1>4. ASSUME NEW i \in Stamp, NEW u \in Users, LoadInvitation(r, i, u) PROVE Keeps(r)
  <2>0. PICK phase \in {"expiring", "invited"} :
          Go(r, phase) /\ (phase = "invited" => u = invitations[i].email)
    BY <1>4 DEF LoadInvitation
  <2>1. /\ pc'[r] = phase /\ who'[r] = u
        /\ who' \in [Requests -> Users \cup {NULL}] /\ subject'[r] = i
        /\ invitations' = invitations /\ invitations[i] \in Invitation
        /\ u \in accounts /\ accounts' = accounts /\ op[r] = "accept"
    BY <1>4, <1>t, <1>o, <2>0 DEF LoadInvitation, Pending, Go, Functions
  <2>2. SeatTypeOK'
    BY <1>4, <1>t DEF LoadInvitation, SeatTypeOK
  <2>3. SubjectOK(r)'
    BY <1>a, <1>n, <2>0, <2>1 DEF SubjectOK, About
  <2>4. knew' \in [Requests -> SUBSET (Token \X Requests)]
    BY <1>4, <1>t, InvitationTokens, LooksType DEF LoadInvitation
  <2> QED
    BY <1>4, <1>t, <2>0, <2>1, <2>2, <2>3, <2>4, <1>p DEF LoadInvitation, MailTypeOK
<1>5. ASSUME CommitAnswer(r) PROVE Keeps(r)
  <2>1. subject[r] \in Stamp /\ invitations[subject[r]] \in Invitation /\ who[r] \in Users
    BY <1>5, <1>m DEF CommitAnswer, SubjectOK, MailboxOK, About
  <2>2. PICK s \in {"revoked", "declined"} : SetStatus(subject[r], s)
    BY <1>5 DEF CommitAnswer
  <2>3. /\ invitations' \in [Stamp -> Invitation \cup {NULL}]
        /\ \A j \in Stamp : invitations'[j] # NULL => invitations[j] # NULL
    BY <2>1, <2>2, StatusOnly DEF InviteStatus
  <2>4. SeatTypeOK'
    BY <1>5, <1>t, <2>3 DEF CommitAnswer, SeatTypeOK
  <2>5. Go(r, "done") /\ pc'[r] = "done"
    BY <1>5, <1>t DEF CommitAnswer, Ends, Go, Functions
  <2>6. SubjectOK(r)'
    BY <2>5 DEF SubjectOK
  <2>7. spent' \in [Requests -> SUBSET Token]
    BY <1>5, <1>t, <2>1, InvitationTokens, SpendsType DEF CommitAnswer
  <2> QED
    BY <1>5, <1>t, <2>1, <2>3, <2>4, <2>5, <2>6, <2>7, <1>p
    DEF CommitAnswer, Ends, requestVars, MailTypeOK
<1>6. ASSUME CommitExpiry(r) PROVE Keeps(r)
  <2>1. subject[r] \in Stamp /\ invitations[subject[r]] \in Invitation /\ who[r] \in Users
    BY <1>6, <1>m DEF CommitExpiry, SubjectOK, MailboxOK, About
  <2>3. /\ invitations' \in [Stamp -> Invitation \cup {NULL}]
        /\ \A j \in Stamp : invitations'[j] # NULL => invitations[j] # NULL
    BY <1>6, <2>1, StatusOnly DEF InviteStatus, CommitExpiry
  <2>4. SeatTypeOK'
    BY <1>6, <1>t, <2>3 DEF CommitExpiry, SeatTypeOK
  <2>5. Go(r, "refused") /\ pc'[r] = "refused"
    BY <1>6, <1>t DEF CommitExpiry, Ends, Go, Functions
  <2>6. SubjectOK(r)'
    BY <1>a, <1>n, <2>3, <2>5 DEF SubjectOK
  <2>7. spent' \in [Requests -> SUBSET Token]
    BY <1>6, <1>t, <2>1, InvitationTokens, SpendsType DEF CommitExpiry
  <2> QED
    BY <1>6, <1>t, <2>1, <2>3, <2>4, <2>5, <2>6, <2>7, <1>p
    DEF CommitExpiry, Ends, requestVars, MailTypeOK
<1>7. ASSUME CheckSeat(r) PROVE Keeps(r)
  <2>0. PICK phase \in {"refused", "checked"} : Go(r, phase)
    BY <1>7 DEF CheckSeat
  <2>1. /\ pc'[r] = phase /\ who' = who /\ subject' = subject
        /\ invitations' = invitations /\ accounts' = accounts /\ who[r] \in Users
    BY <1>7, <1>t, <1>m, <2>0 DEF CheckSeat, Go, Functions, requestVars, MailboxOK
  <2>2. SeatTypeOK'
    BY <1>7, <1>t DEF CheckSeat, SeatTypeOK
  <2>3. SubjectOK(r)'
    BY <1>7, <1>a, <1>m, <1>n, <2>0, <2>1 DEF CheckSeat, SubjectOK, About
  <2> QED
    BY <1>7, <1>t, <2>0, <2>1, <2>2, <2>3, <1>p DEF CheckSeat, requestVars, MailTypeOK
<1>8. ASSUME ReadHolders(r) PROVE Keeps(r)
  <2>1. /\ Go(r, "ready") /\ pc'[r] = "ready" /\ who' = who /\ subject' = subject
        /\ invitations' = invitations /\ accounts' = accounts /\ who[r] \in Users
        /\ members' = members
        /\ About(r) /\ op[r] = "accept"
    BY <1>8, <1>t, <1>m DEF ReadHolders, Go, Functions, MailboxOK, SubjectOK
  <2>2. /\ prior'[r] = {m \in members : invitations[subject[r]].kind = "role_transfer"
                          /\ Rivals(r, m)}
        /\ over'[r] = {m.by : m \in members}
    BY <1>8, <1>t DEF ReadHolders, Functions, Rivals
  <2>3. prior' \in [Requests -> SUBSET Seat] /\ over' \in [Requests -> SUBSET Stamp]
    <3>1. prior'[r] \in SUBSET Seat
      BY <2>2, <1>t DEF SeatTypeOK
    <3>2. over'[r] \in SUBSET Stamp
      BY <2>2, <1>t DEF SeatTypeOK, Seat
    <3>3. /\ prior' = [prior EXCEPT ![r] = prior'[r]]
          /\ over' = [over EXCEPT ![r] = over'[r]]
      BY <1>8, <1>t DEF ReadHolders, Functions
    <3> QED
      BY <1>t, <3>1, <3>2, <3>3 DEF Functions
  <2>4. SeatTypeOK'
    BY <1>8, <1>t, <2>3 DEF ReadHolders, SeatTypeOK
  <2>5. MailboxOK(r)'
    BY <2>1, MailboxStays
  <2>6. SubjectOK(r)'
    BY <1>8, <1>a, <1>m, <1>n, <2>1 DEF ReadHolders, SubjectOK, About
  <2>7. HoldersOK(r)'
    <3>1. \A q \in over'[r] \cap Requests : pc'[q] = "done"
      <4>1. \A q \in over'[r] \cap Requests : pc[q] = "done"
        BY <2>2 DEF IInv, SeatsOK
      <4> QED
        BY <4>1, Lasts
    <3>2. \A m : Rivals(r, m)' <=> Rivals(r, m)
      BY <2>1 DEF Rivals
    <3>3. \A m \in prior'[r] : Rivals(r, m)
      BY <2>2
    <3>4. invitations[subject[r]].kind = "role_transfer" =>
            \A m \in members : Rivals(r, m) => m \in prior'[r]
      BY <2>2
    <3> QED
      BY <2>1, <3>1, <3>2, <3>3, <3>4 DEF HoldersOK, Rivals
  <2> QED
    BY <1>8, <1>t, <1>a, <1>ph, <2>1, <2>3, <2>4, <2>5, <2>6, <2>7, SeatKeeps
    DEF ReadHolders, MailTypeOK
<1>9. ASSUME CommitAcceptFails(r) PROVE Keeps(r)
  <2>1. /\ Go(r, "failed") /\ pc'[r] = "failed" /\ who[r] \in Users
        /\ UNCHANGED seatVars
    BY <1>9, <1>t, <1>m DEF CommitAcceptFails, Ends, Go, Functions, MailboxOK
  <2>2. SeatTypeOK' /\ invitations' = invitations
    BY <2>1, <1>t DEF SeatTypeOK, seatVars
  <2>3. SubjectOK(r)'
    BY <1>a, <1>n, <2>1, <2>2 DEF SubjectOK
  <2> QED
    BY <1>9, <1>t, <2>1, <2>2, <2>3, <1>p
    DEF CommitAcceptFails, Ends, requestVars, MailTypeOK
<1>10. ASSUME NEW i \in Stamp \cup {NULL}, LoadCode(r, i) PROVE Keeps(r)
  <2>1. /\ Go(r, "enrolling") /\ pc'[r] = "enrolling" /\ who' = who /\ subject'[r] = i
        /\ invitations' = invitations
        /\ op[r] = "signup" /\ who[r] \in Users /\ ProvesMailbox(r, who[r])
    BY <1>10, <1>t, <1>m DEF LoadCode, Go, Functions, MailboxOK
  <2>2. i # NULL => i \in Stamp /\ invitations[i] \in Invitation /\ invitations[i].email = who[r]
    BY <1>10, <1>o DEF LoadCode, Pending
  <2>3. SeatTypeOK'
    BY <1>10, <1>t DEF LoadCode, SeatTypeOK
  <2>4. MailboxOK(r)'
    <3>1. PICK u \in Users : u = who[r]
      BY <2>1
    <3>2. ProvesMailbox(r, u)'
      BY <2>1, <3>1, TokensLast
    <3> QED
      BY <1>a, <2>1, <3>1, <3>2 DEF MailboxOK, ProvesMailbox, PresentsCode
  <2>5. SubjectOK(r)'
    BY <1>a, <1>n, <2>1, <2>2 DEF SubjectOK, About
  <2>6. HoldersOK(r)'
    BY <1>10, <2>1, HoldersStay DEF LoadCode
  <2>7. knew' \in [Requests -> SUBSET (Token \X Requests)]
    <3>1. CASE i = NULL
      BY <1>10, <3>1, <1>t DEF LoadCode, MailTypeOK
    <3>2. CASE i # NULL
      BY <1>10, <3>2, <1>t, InvitationTokens, LooksType DEF LoadCode
    <3> QED
      BY <3>1, <3>2
  <2> QED
    BY <1>10, <1>t, <1>a, <1>ph, <2>1, <2>3, <2>4, <2>5, <2>6, <2>7, SeatKeeps
    DEF LoadCode, MailTypeOK
<1> QED
  BY <1>1, <1>2, <1>3, <1>4, <1>5, <1>6, <1>7, <1>8, <1>9, <1>10

\* The two steps that seat somebody by an invitation.
LEMMA AcceptKeeps ==
  ASSUME IInv, NEW r \in Requests, Private(r), Lasting, Onward(r),
         UNCHANGED applications, CommitAccept(r)
  PROVE  Keeps(r) /\ SeatsKeep
<1>t. MailTypeOK /\ SeatTypeOK /\ Functions
  BY FunctionsOK DEF IInv, TypeOK
<1>m. MailboxOK(r) /\ SubjectOK(r) /\ HoldersOK(r)
  BY DEF IInv
<1>1. /\ pc[r] = "ready" /\ Go(r, "done") /\ pc'[r] = "done" /\ op[r] = "accept" /\ op' = op
      /\ who' = who /\ subject' = subject /\ over' = over /\ orgs' = orgs
      /\ accounts' = accounts
      /\ who[r] \in accounts /\ who[r] \in Users /\ subject[r] \in Stamp
      /\ invitations[subject[r]] \in Invitation
      /\ invitations[subject[r]].email = who[r]
  BY <1>t, <1>m DEF CommitAccept, Ends, Go, Functions, MailboxOK, SubjectOK, About,
     Lasting, requestVars
<1>2. PICK i \in Stamp : i = subject[r]
  BY <1>1
<1>3. PICK new \in Seat :
        /\ members' = (members \ prior[r]) \cup {new}
        /\ new.org = invitations[i].org /\ new.user = who[r]
        /\ new.role = invitations[i].role /\ new.by = r
  BY <1>1, <1>2, SeatForType DEF CommitAccept
<1>4. /\ invitations' \in [Stamp -> Invitation \cup {NULL}]
      /\ \A j \in Stamp : invitations'[j] # NULL => invitations[j] # NULL
      /\ invitations'[i] \in Invitation
      /\ invitations'[i].org = invitations[i].org
      /\ invitations'[i].email = invitations[i].email
      /\ invitations'[i].kind = invitations[i].kind
      /\ invitations'[i].role = invitations[i].role
  BY <1>1, <1>2, StatusOnly DEF CommitAccept, InviteStatus
<1>5. Keeps(r)
  <2>1. members' \subseteq Seat
    BY <1>3, <1>t DEF SeatTypeOK
  <2>2. SeatTypeOK'
    BY <1>t, <1>4, <2>1 DEF CommitAccept, SeatTypeOK
  <2>3. spent' \in [Requests -> SUBSET Token]
    BY <1>t, <1>1, InvitationTokens, SpendsType DEF CommitAccept
  <2>4. MailboxOK(r)' /\ SubjectOK(r)' /\ HoldersOK(r)'
    BY <1>1, MailboxStays, HoldersStay DEF SubjectOK
  <2>5. applications' \in [Stamp -> Application \cup {NULL}] /\ "done" \in Phase
    BY DEF IInv, TypeOK, Phase, MailPhase
  <2> QED
    BY <1>1, <1>4, <1>t, <2>2, <2>3, <2>4, <2>5, SeatKeeps
    DEF CommitAccept, Ends, MailTypeOK, requestVars
<1>6. SeatsOK' /\ \A m \in members' : RightTo(m)'
  <2>1. <<"invitation", i>> \in spent'[r]
    BY <1>2, <1>t DEF CommitAccept, Spends, Functions
  <2>2. invitations[i].org \in orgs
    BY <1>1, <1>2, OnRecord DEF IInv, RecordsOK
  <2>3. RightTo(new)'
    BY <1>1, <1>2, <1>3, <1>4, <2>1, <2>2 DEF RightTo
  <2>4. \A m \in members' : m \notin members => RightTo(m)'
    BY <1>3, <2>3
  <2>5. About(r)'
    BY <1>1, <1>2, <1>4 DEF About
  <2> QED
    BY <2>4, <2>5, SeatsLast
<1>7. HandOverIsComplete'
  <2>1. ASSUME NEW m \in members', NEW n \in members', n \notin members,
               m # n, m.org = n.org, m.role = n.role,
               invitations'[subject'[r]].kind = "role_transfer"
        PROVE  m.by \notin over'[r]
    <3>1. n = new /\ m \in members /\ m \notin prior[r]
      BY <1>3, <2>1
    <3>2. Rivals(r, m) /\ invitations[subject[r]].kind = "role_transfer"
      BY <1>1, <1>2, <1>3, <1>4, <2>1, <3>1 DEF Rivals
    <3> QED
      BY <1>1, <1>m, <3>1, <3>2 DEF HoldersOK
  <2> QED
    BY <2>1, HandOverLasts
<1>8. OrganizationsAreLed'
  <2>1. ASSUME NEW o \in orgs PROVE \E m \in members' : m.org = o /\ m.role = "president"
    <3>1. PICK m \in members : m.org = o /\ m.role = "president"
      BY DEF IInv, OrganizationsAreLed
    <3>2. CASE m \in prior[r]
      <4>1. Rivals(r, m)
        BY <1>1, <1>m, <3>2 DEF HoldersOK
      <4> QED
        BY <1>2, <1>3, <3>1, <4>1 DEF Rivals
    <3>3. CASE m \notin prior[r]
      BY <1>3, <3>1, <3>3
    <3> QED
      BY <3>2, <3>3
  <2> QED
    BY <1>1, <2>1 DEF OrganizationsAreLed
<1> QED
  BY <1>5, <1>6, <1>7, <1>8 DEF SeatsKeep

\* Sign-up seats somebody if it was given a code.
LEMMA EnrollKeeps ==
  ASSUME IInv, NEW r \in Requests, Private(r), Lasting, Onward(r),
         UNCHANGED applications, Enroll(r)
  PROVE  Keeps(r) /\ SeatsKeep
<1>t. MailTypeOK /\ SeatTypeOK /\ Functions
  BY FunctionsOK DEF IInv, TypeOK
<1>m. MailboxOK(r) /\ SubjectOK(r)
  BY DEF IInv
<1>1. /\ pc[r] = "enrolling" /\ Go(r, "done") /\ pc'[r] = "done" /\ op[r] = "signup" /\ op' = op
      /\ who' = who /\ subject' = subject /\ over' = over /\ orgs' = orgs
      /\ who[r] \in Users /\ ProvesMailbox(r, who[r])
      /\ subject[r] \in Stamp \cup {NULL}
  BY <1>t, <1>m DEF Enroll, Ends, Go, Functions, MailboxOK, SubjectOK, About,
     Lasting, requestVars
<1>2. PICK u \in Users : u = who[r]
  BY <1>1
<1>3. /\ accounts' = accounts \cup {u} /\ password' = [password EXCEPT ![u] = r]
      /\ UNCHANGED <<op, mailRows, codes, windows, lapsed, knew>>
  BY <1>2 DEF Enroll, requestVars
<1>4. /\ invitations' \in [Stamp -> Invitation \cup {NULL}]
      /\ \A j \in Stamp : invitations'[j] # NULL => invitations[j] # NULL
      /\ spent' \in [Requests -> SUBSET Token]
  <2>1. CASE subject[r] = NULL
    BY <2>1, <1>t DEF Enroll, SeatTypeOK, MailTypeOK
  <2>2. CASE subject[r] # NULL
    <3>1. subject[r] \in Stamp /\ invitations[subject[r]] \in Invitation
      BY <1>1, <1>m, <2>2 DEF SubjectOK, About
    <3>2. SetStatus(subject[r], "accepted") /\ Spends(r, <<"invitation", subject[r]>>)
      BY <2>2 DEF Enroll
    <3> QED
      BY <1>t, <3>1, <3>2, StatusOnly, InvitationTokens, SpendsType DEF InviteStatus
  <2> QED
    BY <2>1, <2>2
<1>5. ASSUME NEW m \in members', m \notin members
      PROVE  m \in Seat /\ RightTo(m)'
  <2>1. subject[r] # NULL
    BY <1>5 DEF Enroll
  <2>2. PICK i \in Stamp : i = subject[r]
    BY <1>1, <2>1
  <2>3. invitations[i] \in Invitation /\ invitations[i].email = u
    BY <1>1, <1>2, <1>m, <2>1, <2>2 DEF SubjectOK, About
  <2>4. SetStatus(i, "accepted") /\ <<"invitation", i>> \in spent'[r]
          /\ m = SeatFor(r, invitations[i], u)
    BY <1>2, <1>5, <1>t, <2>1, <2>2 DEF Enroll, Spends, Functions
  <2>5. /\ m \in Seat /\ m.org = invitations[i].org /\ m.user = u
        /\ m.role = invitations[i].role /\ m.by = r
    BY <2>3, <2>4, SeatForType
  <2>6. /\ invitations'[i] \in Invitation
        /\ invitations'[i].org = invitations[i].org
        /\ invitations'[i].email = invitations[i].email
        /\ invitations'[i].role = invitations[i].role
    BY <2>3, <2>4, StatusOnly DEF InviteStatus
  <2>7. invitations[i].org \in orgs
    BY <2>3, OnRecord DEF IInv, RecordsOK
  <2> QED
    BY <1>1, <1>3, <2>3, <2>4, <2>5, <2>6, <2>7 DEF RightTo
<1>6. members \subseteq members' /\ members' \subseteq Seat
  BY <1>5, <1>t DEF Enroll, SeatTypeOK
<1>7. Keeps(r)
  <2>1. held' \in [Requests ->
          [row : BOOLEAN, code : Stamp \cup {NULL}, window : Stamp \cup {NULL}]]
    BY <1>t, EndsType DEF Enroll, Ends
  <2>2. accounts' \subseteq Users /\ password' \in [Users -> Stamp \cup {NULL}]
    BY <1>3, <1>t DEF MailTypeOK, Stamp
  <2>3. MailTypeOK'
    BY <1>1, <1>3, <1>4, <1>t, <2>1, <2>2 DEF MailTypeOK
  <2>4. SeatTypeOK'
    BY <1>4, <1>6, <1>t DEF Enroll, SeatTypeOK
  <2>5. TypeOK'
    BY <1>1, <2>3, <2>4 DEF IInv, TypeOK, Go, Phase, MailPhase
  <2>6. MailboxOK(r)' /\ SubjectOK(r)' /\ HoldersOK(r)'
    BY <1>1, MailboxStays, HoldersStay DEF SubjectOK
  <2>7. RecordsOK'
    BY <1>3, <1>4, RecordsLast
  <2>8. PasswordsOK'
    <3>1. ProvesMailbox(r, u)'
      BY <1>1, <1>2, TokensLast
    <3>2. ASSUME NEW w \in Users, password'[w] # password[w]
          PROVE  password'[w] = r /\ who'[r] = w /\ ProvesMailbox(r, w)'
      <4>1. w = u /\ password'[w] = r
        BY <1>3, <3>2, <1>t DEF MailTypeOK
      <4> QED
        BY <1>1, <1>2, <3>1, <4>1
    <3> QED
      BY <1>1, <3>2, PasswordsLast
  <2> QED
    BY <2>5, <2>6, <2>7, <2>8 DEF Keeps
<1>8. SeatsOK' /\ \A m \in members' : RightTo(m)'
  BY <1>1, <1>5, SeatsLast
<1>9. HandOverIsComplete'
  BY <1>1, HandOverLasts
<1>10. OrganizationsAreLed'
  BY <1>1, <1>6 DEF IInv, OrganizationsAreLed
<1> QED
  BY <1>7, <1>8, <1>9, <1>10 DEF SeatsKeep

LEMMA InviteKeeps ==
  ASSUME IInv, NEW r \in Requests, Private(r), Lasting, Onward(r),
         InviteStep(r), UNCHANGED applications
  PROVE  Keeps(r) /\ SeatsKeep
<1>1. CASE CommitAccept(r)
  BY <1>1, AcceptKeeps
<1>2. CASE Enroll(r)
  BY <1>2, EnrollKeeps
<1>3. CASE ~CommitAccept(r) /\ ~Enroll(r)
  <2>1. Keeps(r)
    BY <1>3, InviteSelf DEF InviteStep
  <2>2. members' = members /\ orgs' = orgs
    BY <1>3 DEF InviteStep, Authorise, Issue, LoadAnswer, LoadInvitation, CommitAnswer,
       CommitExpiry, CheckSeat, ReadHolders, CommitAcceptFails, LoadCode, seatVars
  <2> QED
    BY <2>1, <2>2, SeatsQuiet
<1> QED
  BY <1>1, <1>2, <1>3

-----------------------------------------------------------------------------
(* The steps about an application.                                          *)

\* Request r founds an organization for somebody with an account.
LEMMA Founding ==
  ASSUME IInv, NEW r \in Requests, Private(r), Lasting, Onward(r),
         NEW u \in Users, Founds(r, u), op[r] # "accept",
         RightTo([org |-> r, user |-> u, role |-> "president", by |-> r])'
  PROVE  /\ orgs' \subseteq Stamp /\ members' \subseteq Seat
         /\ SeatsKeep
<1> DEFINE new == [org |-> r, user |-> u, role |-> "president", by |-> r]
<1>1. new \in Seat /\ new.org = r /\ new.role = "president"
  BY DEF Seat, Stamp, Roles
<1>2. members' = members \cup {new} /\ orgs' = orgs \cup {r}
  BY DEF Founds
<1>3. orgs' \subseteq Stamp /\ members' \subseteq Seat
  BY <1>1, <1>2 DEF IInv, TypeOK, SeatTypeOK, Stamp
<1>4. SeatsOK' /\ \A m \in members' : RightTo(m)'
  <2>1. \A m \in members' : m \notin members => RightTo(m)'
    BY <1>2
  <2> QED
    BY <2>1, SeatsLast
<1>5. HandOverIsComplete'
  BY HandOverLasts
<1>6. OrganizationsAreLed'
  BY <1>1, <1>2 DEF IInv, OrganizationsAreLed
<1> QED
  BY <1>3, <1>4, <1>5, <1>6 DEF SeatsKeep

LEMMA DeskKeeps ==
  ASSUME IInv, NEW r \in Requests, Private(r), Lasting, Onward(r), DeskStep(r)
  PROVE  Keeps(r) /\ SeatsKeep
<1>t. MailTypeOK /\ SeatTypeOK /\ Functions
  BY FunctionsOK DEF IInv, TypeOK
<1>m. MailboxOK(r) /\ SubjectOK(r)
  BY DEF IInv
<1>n. invitations[r] = NULL /\ applications[r] = NULL
  BY <1>m DEF SubjectOK, Onward
<1>a. applications \in [Stamp -> Application \cup {NULL}] /\ op' = op /\ r \in Stamp
  BY DEF IInv, TypeOK, Lasting, Stamp
<1>o. \A b \in Stamp : applications[b] # NULL <=> applications[b] \in Application
  BY OnRecord
\* A step to any of the phases of these handlers.
<1>p. ASSUME NEW phase \in {"filing", "reviewing", "done"},
             Go(r, phase), who'[r] \in Users,
             UNCHANGED <<op, accounts, password, mailRows, codes, windows, lapsed, over,
                         invitations>>,
             who' \in [Requests -> Users \cup {NULL}],
             held' = held \/ held' = [held EXCEPT ![r] = NoCopy],
             spent' \in [Requests -> SUBSET Token],
             knew' \in [Requests -> SUBSET (Token \X Requests)],
             SeatTypeOK', applications' \in [Stamp -> Application \cup {NULL}],
             SubjectOK(r)',
             \A b \in Stamp : applications'[b] # NULL =>
               applications[b] # NULL \/ applications'[b].applicant \in accounts'
      PROVE  Keeps(r)
  <2>1. /\ pc'[r] = phase /\ phase \in Phase /\ over' \in [Requests -> SUBSET Stamp]
        /\ \A i \in Stamp : invitations'[i] # NULL =>
             invitations[i] # NULL \/ invitations'[i].org \in orgs'
    BY <1>p, <1>t DEF Go, Functions, Phase, MailPhase
  <2>2. MailboxOK(r)'
    BY <1>p, <2>1, MailboxStays
  <2>3. HoldersOK(r)'
    BY <1>p, <2>1, HoldersStay
  <2> QED
    BY <1>p, <2>1, <2>2, <2>3, SeatKeeps
<1>1. ASSUME NEW u \in Users, LoadApplications(r, u) PROVE Keeps(r) /\ SeatsKeep
  <2>1. /\ Go(r, "filing") /\ pc'[r] = "filing" /\ who'[r] = u
        /\ who' \in [Requests -> Users \cup {NULL}]
        /\ UNCHANGED <<seatVars, applications>> /\ u \in accounts /\ accounts' = accounts
    BY <1>1, <1>t DEF LoadApplications, Go, Functions
  <2>2. SeatTypeOK' /\ invitations' = invitations /\ members' = members /\ orgs' = orgs
    BY <2>1, <1>t DEF SeatTypeOK, seatVars
  <2>3. SubjectOK(r)'
    BY <1>n, <2>1, <2>2 DEF SubjectOK
  <2>4. Keeps(r)
    BY <1>1, <1>t, <1>a, <2>1, <2>2, <2>3, <1>p DEF LoadApplications, MailTypeOK
  <2> QED
    BY <2>2, <2>4, SeatsQuiet
<1>2. ASSUME CommitApplication(r) PROVE Keeps(r) /\ SeatsKeep
  <2>1. /\ Go(r, "done") /\ pc'[r] = "done" /\ UNCHANGED seatVars
        /\ who[r] \in Users /\ who[r] \in accounts /\ accounts' = accounts
    BY <1>2, <1>t, <1>m DEF CommitApplication, Ends, Go, Functions, MailboxOK, SubjectOK
  <2>2. SeatTypeOK' /\ invitations' = invitations /\ members' = members /\ orgs' = orgs
    BY <2>1, <1>t DEF SeatTypeOK, seatVars
  <2>3. SubjectOK(r)'
    BY <2>1 DEF SubjectOK
  <2>4. [applicant |-> who[r], status |-> "pending", org |-> NULL] \in Application
    BY <2>1 DEF Application
  <2>5. /\ applications' \in [Stamp -> Application \cup {NULL}]
        /\ \A b \in Stamp : applications'[b] # NULL =>
             applications[b] # NULL \/ applications'[b].applicant \in accounts'
    BY <1>2, <1>a, <2>1, <2>4 DEF CommitApplication
  <2>6. Keeps(r)
    BY <1>2, <1>t, <2>1, <2>2, <2>3, <2>5, <1>p
    DEF CommitApplication, Ends, requestVars, MailTypeOK
  <2> QED
    BY <2>2, <2>6, SeatsQuiet
<1>3. ASSUME NEW u \in Users, NEW a \in Stamp, LoadApplication(r, u, a)
      PROVE  Keeps(r) /\ SeatsKeep
  <2>1. /\ Go(r, "reviewing") /\ pc'[r] = "reviewing" /\ who'[r] = u /\ subject'[r] = a
        /\ who' \in [Requests -> Users \cup {NULL}]
        /\ applications' = applications /\ applications[a] \in Application
    BY <1>3, <1>t, <1>o DEF LoadApplication, Go, Functions
  <2>2. SeatTypeOK' /\ invitations' = invitations /\ members' = members /\ orgs' = orgs
    BY <1>3, <1>t DEF LoadApplication, SeatTypeOK
  <2>3. SubjectOK(r)'
    BY <1>n, <2>1, <2>2 DEF SubjectOK
  <2>4. knew' \in [Requests -> SUBSET (Token \X Requests)]
    BY <1>3, <1>t, InvitationTokens, LooksType DEF LoadApplication
  <2>5. Keeps(r)
    BY <1>3, <1>t, <1>a, <2>1, <2>2, <2>3, <2>4, <1>p DEF LoadApplication, MailTypeOK
  <2> QED
    BY <2>2, <2>5, SeatsQuiet
<1>4. ASSUME CommitApproval(r) \/ CommitRejection(r) PROVE Keeps(r) /\ SeatsKeep
  <2>0. pc[r] = "reviewing" /\ op[r] # "accept"
    BY <1>4 DEF CommitApproval, CommitRejection
  <2>1. PICK a \in Stamp : a = subject[r] /\ applications[a] \in Application
    BY <2>0, <1>m DEF SubjectOK
  <2>2. PICK s \in {"approved", "rejected"}, o \in Stamp \cup {NULL} :
          applications' = [applications EXCEPT ![a] =
            [applications[a] EXCEPT !.status = s, !.org = o]]
    BY <1>4, <2>0, <2>1, Decisions
  <2>3. /\ applications' \in [Stamp -> Application \cup {NULL}]
        /\ \A b \in Stamp : applications'[b] # NULL => applications[b] # NULL
        /\ applications'[a] \in Application
        /\ applications'[a].applicant = applications[a].applicant
    BY <2>1, <2>2, DecisionOnly
  <2>4. /\ Go(r, "done") /\ pc'[r] = "done" /\ who' = who /\ who[r] \in Users
        /\ UNCHANGED <<op, accounts, password, mailRows, codes, windows, lapsed, over,
                       invitations, knew>>
        /\ held' = [held EXCEPT ![r] = NoCopy]
    BY <1>4, <1>t, <1>m, <2>0 DEF CommitApproval, CommitRejection, Ends, Go, Functions,
       MailboxOK, requestVars, seatVars
  <2>5. spent' \in [Requests -> SUBSET Token] /\ <<"application", a>> \in spent'[r]
    BY <1>4, <1>t, <2>1, InvitationTokens, SpendsType DEF CommitApproval, CommitRejection
  <2>6. SubjectOK(r)'
    BY <2>4 DEF SubjectOK
  <2>7. orgs' \subseteq Stamp /\ members' \subseteq Seat /\ SeatsKeep
    <3>1. CASE CommitRejection(r)
      BY <3>1, <1>t, SeatsQuiet DEF CommitRejection, seatVars, SeatTypeOK
    <3>2. CASE CommitApproval(r)
      <4>1. PICK u \in Users : u = applications[a].applicant /\ u \in accounts
        BY <2>1, OnRecord DEF Application, IInv, RecordsOK
      <4>2. Founds(r, u) /\ r \in orgs'
        BY <3>2, <2>1, <4>1 DEF CommitApproval, Founds
      <4>3. RightTo([org |-> r, user |-> u, role |-> "president", by |-> r])'
        BY <2>3, <2>4, <2>5, <4>1, <4>2 DEF RightTo
      <4> QED
        BY <2>0, <4>2, <4>3, Founding
    <3> QED
      BY <1>4, <3>1, <3>2
  <2>8. SeatTypeOK'
    BY <1>4, <1>t, <2>7 DEF SeatTypeOK, CommitApproval, CommitRejection, seatVars
  <2>9. Keeps(r)
    BY <1>t, <2>3, <2>4, <2>5, <2>6, <2>8, <1>p DEF MailTypeOK
  <2> QED
    BY <2>7, <2>9
<1>5. ASSUME NEW u \in Users, CreateOrganization(r, u) PROVE Keeps(r) /\ SeatsKeep
  <2>1. /\ Go(r, "done") /\ pc'[r] = "done" /\ who'[r] = u
        /\ who' \in [Requests -> Users \cup {NULL}] /\ op[r] = "found"
        /\ Founds(r, u) /\ u \in accounts /\ u \in Operators /\ accounts' = accounts
    BY <1>5, <1>t DEF CreateOrganization, Go, Functions
  <2>2. RightTo([org |-> r, user |-> u, role |-> "president", by |-> r])'
    BY <1>a, <2>1 DEF RightTo, Founds
  <2>3. orgs' \subseteq Stamp /\ members' \subseteq Seat /\ SeatsKeep
    BY <2>1, <2>2, Founding
  <2>4. SeatTypeOK'
    BY <1>5, <1>t, <2>3 DEF SeatTypeOK, CreateOrganization
  <2>5. SubjectOK(r)'
    BY <2>1 DEF SubjectOK
  <2>6. Keeps(r)
    BY <1>5, <1>t, <1>a, <2>1, <2>4, <2>5, <1>p DEF CreateOrganization, MailTypeOK
  <2> QED
    BY <2>3, <2>6
<1> QED
  BY <1>1, <1>2, <1>3, <1>4, <1>5 DEF DeskStep

-----------------------------------------------------------------------------
(* Every step.                                                              *)

LEMMA MailStepKeeps ==
  ASSUME IInv, NEW r \in Requests, Private(r), Lasting, Onward(r),
         (\E u \in Users : Ask(r, u)) \/ MailStep(r),
         UNCHANGED <<seatVars, applications>>
  PROVE  Keeps(r) /\ SeatsKeep
<1>1. Keeps(r)
  BY MailSelf DEF MailStep
<1>2. SeatsKeep
  BY SeatsQuiet DEF seatVars
<1> QED
  BY <1>1, <1>2

LEMMA StepKeeps ==
  ASSUME IInv, NEW r \in Requests, Step(r)
  PROVE  IInv'
<1>1. Private(r) /\ Lasting /\ Onward(r)
  BY StepFrame
<1>2. Keeps(r) /\ SeatsKeep
  BY <1>1, MailStepKeeps, InviteKeeps, DeskKeeps DEF Step
<1>3. ASSUME NEW q \in Requests
      PROVE  MailboxOK(q)' /\ SubjectOK(q)' /\ HoldersOK(q)'
  BY <1>1, <1>2, OthersOK DEF Keeps
<1> QED
  BY <1>2, <1>3 DEF IInv, Keeps, SeatsKeep

\* Time, comments and nothing at all.
LEMMA QuietKeeps ==
  ASSUME IInv, TypeOK',
         UNCHANGED <<op, who, pc, accounts, password, mailRows, codes, windows, held,
                     spent, knew, over, orgs, members, invitations, subject, via,
                     prior, applications>>
  PROVE  IInv'
<1>1. ASSUME NEW r \in Requests PROVE MailboxOK(r)' /\ SubjectOK(r)' /\ HoldersOK(r)'
  <2>1. MailboxOK(r) /\ SubjectOK(r) /\ HoldersOK(r)
    BY DEF IInv
  <2>2. MailboxOK(r)'
    BY <2>1 DEF MailboxOK, SentTo, OpenedFor, PresentsCode, ProvesMailbox
  <2>3. SubjectOK(r)'
    BY <2>1 DEF SubjectOK, About
  <2>4. HoldersOK(r)'
    BY <2>1 DEF HoldersOK, Rivals
  <2> QED
    BY <2>2, <2>3, <2>4
<1>2. SeatsOK' /\ RecordsOK'
  <2>1. SeatsOK /\ RecordsOK
    BY DEF IInv
  <2>2. SeatsOK'
    BY <2>1 DEF SeatsOK, About
  <2>3. RecordsOK'
    BY <2>1 DEF RecordsOK, SentTo, OpenedFor, PresentsCode
  <2> QED
    BY <2>2, <2>3
<1>3. OrganizationsAreLed' /\ HandOverIsComplete'
  BY DEF IInv, OrganizationsAreLed, HandOverIsComplete
<1>4. PasswordsOK' /\ \A m \in members' : RightTo(m)'
  <2>1. PasswordsOK /\ \A m \in members : RightTo(m)
    BY DEF IInv
  <2>2. PasswordsOK'
    <3>1. ASSUME NEW u \in Users, password'[u] # NULL
          PROVE  /\ password'[u] \in Requests /\ who'[password'[u]] = u
                 /\ op'[password'[u]] = "signup" => ProvesMailbox(password[u], u)'
                 /\ op'[password'[u]] # "signup" => PresentsCode(password[u], u)'
      <4>1. /\ password[u] \in Requests /\ who[password[u]] = u
            /\ op[password[u]] = "signup" => ProvesMailbox(password[u], u)
            /\ op[password[u]] # "signup" => PresentsCode(password[u], u)
        BY <2>1, <3>1 DEF PasswordsOK
      <4>2. PICK q \in Requests : q = password[u]
        BY <4>1
      <4>3. ProvesMailbox(q, u) => ProvesMailbox(q, u)'
        BY DEF ProvesMailbox, PresentsCode
      <4>4. PresentsCode(q, u) => PresentsCode(q, u)'
        BY DEF PresentsCode
      <4> QED
        BY <4>1, <4>2, <4>3, <4>4 DEF ProvesMailbox, PresentsCode
    <3> QED
      BY <3>1 DEF PasswordsOK
  <2>3. \A m \in members' : RightTo(m)'
    BY <2>1 DEF RightTo
  <2> QED
    BY <2>2, <2>3
<1> QED
  BY <1>1, <1>2, <1>3, <1>4 DEF IInv

\* The invariant is inductive.
LEMMA NextIInv == IInv /\ [Next]_vars => IInv'
<1> SUFFICES ASSUME IInv, [Next]_vars PROVE IInv'
  OBVIOUS
<1>1. ASSUME NEW r \in Requests, Step(r) PROVE IInv'
  BY <1>1, StepKeeps
<1>2. ASSUME NEW t \in Token, Lapse(t), UNCHANGED <<seatVars, applications>> PROVE IInv'
  <2>1. TypeOK'
    BY <1>2 DEF IInv, TypeOK, MailTypeOK, SeatTypeOK, Lapse, requestVars, seatVars
  <2> QED
    BY <1>2, <2>1, QuietKeeps DEF Lapse, requestVars, seatVars
<1>3. ASSUME NEW m \in members, Comment(m), UNCHANGED applications PROVE IInv'
  <2>1. TypeOK'
    BY <1>3 DEF IInv, TypeOK, MailTypeOK, SeatTypeOK, Comment, mailVars, Seat
  <2> QED
    BY <1>3, <2>1, QuietKeeps DEF Comment, mailVars
<1>4. CASE UNCHANGED vars
  <2>1. TypeOK'
    BY <1>4 DEF IInv, TypeOK, MailTypeOK, SeatTypeOK, vars, mailVars, seatVars
  <2> QED
    BY <1>4, <2>1, QuietKeeps DEF vars, mailVars, seatVars
<1> QED
  BY <1>1, <1>2, <1>3, <1>4 DEF Next, Step

LEMMA Invariant == Spec => []IInv
BY InitIInv, NextIInv, PTL DEF Spec

-----------------------------------------------------------------------------

\* Every variable keeps its type.
THEOREM TypeCorrect == Spec => []TypeOK
<1>1. IInv => TypeOK
  BY DEF IInv
<1> QED
  BY <1>1, Invariant, PTL

\* However acceptances, approvals and sign-ups interleave, no organization is
\* ever without a president: a transaction that deletes one inserts another
\* (_accept_loaded_invitation).
THEOREM AlwaysLed == Spec => []OrganizationsAreLed
<1>1. IInv => OrganizationsAreLed
  BY DEF IInv
<1> QED
  BY <1>1, Invariant, PTL

\* Whoever accepts a role that is handed over shares it only with members
\* seated after he looked (_accept_loaded_invitation).
THEOREM HandOversAreComplete == Spec => []HandOverIsComplete
<1>1. IInv => HandOverIsComplete
  BY DEF IInv
<1> QED
  BY <1>1, Invariant, PTL

\* Nobody sets a password without a code sent to the address, and nobody gets
\* a seat that was not offered to him or comes with an organization made for
\* him (sign_up, reset_password, _accept_loaded_invitation,
\* approve_application, create_organization).
THEOREM RightsHaveASource == Spec => []EveryRightHasItsSource
<1>1. IInv => EveryRightHasItsSource
  <2> SUFFICES ASSUME IInv PROVE EveryRightHasItsSource
    OBVIOUS
  <2>1. PasswordsOK /\ \A m \in members : RightTo(m)
    BY DEF IInv
  <2> QED
    BY <2>1 DEF EveryRightHasItsSource, PasswordsOK, RightTo
<1> QED
  BY <1>1, Invariant, PTL

-----------------------------------------------------------------------------
(* Codes, verified windows, invitations and applications are good for one  *)
(* use.  The invariant says that what has been spent is not on offer any   *)
(* more, whatever overlapping requests commit.                             *)

Senders == {"send", "forgot"}

\* The request has got as far as issuing a code, or opening a window.
Issued(c) == c \in Requests => pc[c] \notin {"idle", "asked", "loaded"}

Opened(v) == v \in Requests => pc[v] \notin {"idle", "asked", "matched"}

\* The token t is no longer on offer and never will be again.
Used(t) ==
  /\ t[1] = "code" => Issued(t[2]) /\ \A u \in Users : codes[u] # t[2]
  /\ t[1] = "window" => Opened(t[2]) /\ \A u \in Users : windows[u] # t[2]
  /\ t[1] = "invitation" =>
       invitations[t[2]] \in Invitation /\ invitations[t[2]].status # "pending"
  /\ t[1] = "application" =>
       applications[t[2]] \in Application /\ applications[t[2]].status # "pending"

\* What a request holds of a mailbox is nobody else's.
CopyOK(r) ==
  /\ pc[r] = "matched" =>
       Issued(held[r].code) /\ \A u \in Users \ {who[r]} : codes[u] # held[r].code
  /\ pc[r] = "spending" =>
       Opened(held[r].window) /\ \A u \in Users \ {who[r]} : windows[u] # held[r].window
  /\ pc[r] = "loaded" =>
       /\ op[r] \in Senders
       /\ held[r].window = NULL /\ windows[who[r]] # NULL =>
            windows[who[r]] \notin over[r]

\* The history of a request.
HistoryOK(r) ==
  /\ pc[r] \in {"idle", "asked", "loaded", "matched"} => spent[r] = {}
  /\ op[r] \in Senders => \A q \in over[r] \cap Requests : spent[q] # {}
  /\ knew[r] = {}
  /\ \A t \in spent[r] : Used(t)

\* The codes and windows on offer.
OfferOK ==
  /\ \A u \in Users : codes[u] # NULL =>
       Issued(codes[u]) /\ (codes[u] \in Requests => op[codes[u]] \in Senders)
  /\ \A u \in Users : windows[u] # NULL => Opened(windows[u])
  /\ \A u, v \in Users : u # v => (codes[u] = NULL \/ codes[u] # codes[v])
  /\ \A u, v \in Users : u # v => (windows[u] = NULL \/ windows[u] # windows[v])
  /\ \A u \in Users : codes[u] \in Requests /\ windows[u] # NULL =>
       windows[u] \notin over[codes[u]]

Once ==
  /\ \A r \in Requests : CopyOK(r) /\ HistoryOK(r)
  /\ OfferOK

LEMMA InitOnce == Init => Once
<1> SUFFICES ASSUME Init PROVE Once
  OBVIOUS
<1>1. PICK w \in Worlds : codes = w.codes /\ windows = w.windows
  BY DEF Init
<1>2. /\ codes \in [Users -> Past \cup {NULL}]
      /\ windows \in [Users -> Past \cup {NULL}]
  BY <1>1, WorldAssumption DEF World
<1>3. /\ \A u, v \in Users : u # v => (codes[u] = NULL \/ codes[u] # codes[v])
      /\ \A u, v \in Users : u # v => (windows[u] = NULL \/ windows[u] # windows[v])
  BY <1>1, WorldAssumption
<1>4. \A u \in Users : codes[u] \notin Requests /\ windows[u] \notin Requests
  BY <1>2, MailAssumption DEF Stamp
<1>5. OfferOK
  BY <1>3, <1>4 DEF OfferOK, Issued, Opened
<1>6. ASSUME NEW r \in Requests PROVE CopyOK(r) /\ HistoryOK(r)
  BY DEF Init, CopyOK, HistoryOK
<1> QED
  BY <1>5, <1>6 DEF Once

-----------------------------------------------------------------------------
(* What a step of r does to codes and windows, to its phase and to the     *)
(* history.                                                                *)

CodesStep(r) ==
  \A u \in Users :
    \/ codes'[u] \in {codes[u], NULL}
    \/ /\ codes'[u] = r /\ u = who[r] /\ pc[r] = "loaded"
       /\ windows'[u] = NULL \/ (held[r].window = NULL /\ windows'[u] = windows[u])

WindowsStep(r) ==
  \A u \in Users :
    \/ windows'[u] \in {windows[u], NULL}
    \/ windows'[u] = r /\ u = who[r] /\ pc[r] = "matched"

PhaseStep(r) ==
  /\ pc'[r] = "asked" => pc[r] = "idle"
  /\ pc'[r] \in {"loaded", "matched"} => pc[r] = "asked"
  /\ pc'[r] \in {"asked", "loaded", "matched"} => spent'[r] = spent[r]
  /\ pc'[r] = "loaded" =>
       op[r] \in Senders /\ held'[r].window = windows[who[r]] /\ windows' = windows
  /\ pc'[r] = "matched" =>
       held'[r].code = codes[who[r]] /\ codes[who[r]] # NULL /\ codes' = codes
  /\ pc'[r] = "spending" =>
       /\ pc[r] # "idle" /\ windows' = windows
       /\ held'[r].window = windows[who[r]] /\ windows[who[r]] # NULL

HistoryStep(r) ==
  /\ \A q \in Requests \ {r} : knew'[q] = knew[q]
  /\ \/ knew'[r] = knew[r]
     \/ \E t \in Token : ~Used(t) /\ knew'[r] = knew[r] \cup ({t} \X Spenders(t))
  /\ \/ spent'[r] = spent[r]
     \/ \E t \in Token : Used(t)' /\ spent'[r] = spent[r] \cup {t}
  /\ \/ over'[r] = over[r]
     \/ op[r] = "accept"
     \/ pc'[r] = "loaded" /\ over'[r] = Acted

StatusStep ==
  /\ \A i \in Stamp : invitations[i] \in Invitation /\ invitations[i].status # "pending" =>
       invitations'[i].status # "pending"
  /\ \A a \in Stamp : applications[a] \in Application /\ applications[a].status # "pending" =>
       applications'[a].status # "pending"

Effect(r) ==
  CodesStep(r) /\ WindowsStep(r) /\ PhaseStep(r) /\ HistoryStep(r) /\ StatusStep

LEMMA IssuedLasts ==
  ASSUME IInv, NEW r \in Requests, Private(r), Lasting, Onward(r), PhaseStep(r)
  PROVE  /\ \A c : Issued(c) => (c \in Requests => pc'[c] \notin {"idle", "asked", "loaded"})
         /\ \A v : Opened(v) => (v \in Requests => pc'[v] \notin {"idle", "asked", "matched"})
BY DEF Issued, Opened, Private, Onward, PhaseStep

\* What is used stays used.
LEMMA UsedLasts ==
  ASSUME IInv, NEW r \in Requests, Private(r), Lasting, Onward(r), Effect(r),
         NEW t \in Token, Used(t)
  PROVE  Used(t)'
<1>0. t[2] \in Stamp /\ t[2] # NULL
  BY MailAssumption DEF Token
<1>1. t[1] = "code" => Issued(t[2])' /\ \A u \in Users : codes'[u] # t[2]
  BY <1>0, IssuedLasts DEF Used, Effect, CodesStep, Issued
<1>2. t[1] = "window" => Opened(t[2])' /\ \A u \in Users : windows'[u] # t[2]
  BY <1>0, IssuedLasts DEF Used, Effect, WindowsStep, Opened
<1>3. t[1] = "invitation" =>
        invitations'[t[2]] \in Invitation /\ invitations'[t[2]].status # "pending"
  BY <1>0 DEF Used, Effect, StatusStep, Lasting
<1>4. t[1] = "application" =>
        applications'[t[2]] \in Application /\ applications'[t[2]].status # "pending"
  BY <1>0 DEF Used, Effect, StatusStep, Lasting
<1> QED
  BY <1>1, <1>2, <1>3, <1>4 DEF Used

\* The invariant lasts through every such step.
LEMMA OnceLasts ==
  ASSUME IInv, Once, NEW r \in Requests, Private(r), Lasting, Onward(r), Effect(r)
  PROVE  Once'
<1>t. /\ \A q \in Requests : spent[q] \in SUBSET Token
      /\ \A u \in Users : codes[u] \in Stamp \cup {NULL} /\ windows[u] \in Stamp \cup {NULL}
      /\ op' = op /\ NULL \notin Stamp /\ NULL \notin Requests /\ r \in Stamp /\ r # NULL
  BY MailAssumption DEF IInv, TypeOK, MailTypeOK, Lasting, Stamp
<1>m. \A q \in Requests : pc[q] # "idle" => who[q] \in Users
  BY DEF IInv, MailboxOK
<1>n. \A q \in Requests :
        /\ pc[q] = "matched" => held[q].code \in Stamp
        /\ pc[q] = "spending" => held[q].window \in Stamp
  BY DEF IInv, MailboxOK
<1>s. \A q \in Requests : spent[q] \subseteq spent'[q]
  BY Lasts
<1>1. ASSUME NEW q \in Requests, q # r PROVE CopyOK(q)'
  <2>1. /\ CopyOK(q) /\ pc'[q] = pc[q] /\ who'[q] = who[q] /\ held'[q] = held[q]
        /\ over'[q] = over[q]
    BY <1>1 DEF Once, Private
  <2>2. pc[q] = "matched" =>
          Issued(held[q].code)' /\ \A u \in Users \ {who[q]} : codes'[u] # held[q].code
    <3> SUFFICES ASSUME pc[q] = "matched"
                 PROVE  Issued(held[q].code)' /\ \A u \in Users \ {who[q]} : codes'[u] # held[q].code
      OBVIOUS
    <3>1. /\ Issued(held[q].code) /\ held[q].code # NULL
          /\ \A u \in Users \ {who[q]} : codes[u] # held[q].code
      <4>1. Issued(held[q].code) /\ \A u \in Users \ {who[q]} : codes[u] # held[q].code
        BY <2>1 DEF CopyOK
      <4>2. held[q].code \in Stamp
        BY <1>n
      <4> QED
        BY <1>t, <4>1, <4>2
    <3>2. Issued(held[q].code)'
      <4>1. PhaseStep(r)
        BY DEF Effect
      <4>2. held[q].code \in Requests => pc'[held[q].code] \notin {"idle", "asked", "loaded"}
        BY <3>1, <4>1, IssuedLasts
      <4> QED
        BY <2>1, <4>2 DEF Issued
    <3>3. pc[r] = "loaded" => held[q].code # r
      BY <3>1 DEF Issued
    <3> QED
      BY <3>1, <3>2, <3>3 DEF Effect, CodesStep
  <2>3. pc[q] = "spending" =>
          Opened(held[q].window)' /\ \A u \in Users \ {who[q]} : windows'[u] # held[q].window
    BY <1>t, <1>n, <2>1, IssuedLasts DEF CopyOK, Effect, WindowsStep, Opened
  <2>4. pc[q] = "loaded" /\ held[q].window = NULL /\ windows'[who[q]] # NULL =>
          windows'[who[q]] \notin over[q]
    <3>1. pc[q] = "loaded" /\ pc[r] = "matched" => r \notin over[q]
      BY <2>1 DEF Once, HistoryOK, CopyOK
    <3> QED
      BY <1>m, <2>1, <3>1 DEF CopyOK, Effect, WindowsStep
  <2> QED
    BY <1>t, <2>1, <2>2, <2>3, <2>4 DEF CopyOK, Issued, Opened
<1>2. CopyOK(r)'
  <2>0. pc[r] # "idle" => who'[r] = who[r] /\ who[r] \in Users
    BY <1>m DEF Onward
  <2>1. pc'[r] = "matched" =>
          Issued(held[r].code)' /\ \A u \in Users \ {who'[r]} : codes'[u] # held'[r].code
    <3> SUFFICES ASSUME pc'[r] = "matched"
                 PROVE  Issued(held[r].code)' /\ \A u \in Users \ {who'[r]} : codes'[u] # held'[r].code
      OBVIOUS
    <3>1. /\ who'[r] = who[r] /\ who[r] \in Users /\ codes' = codes
          /\ held'[r].code = codes[who[r]] /\ codes[who[r]] # NULL
      BY <2>0 DEF Effect, PhaseStep
    <3>2. Issued(codes[who[r]])
      BY <3>1 DEF Once, OfferOK
    <3>3. Issued(held[r].code)'
      BY <3>1, <3>2, IssuedLasts DEF Issued, Effect
    <3> QED
      BY <3>1, <3>3 DEF Once, OfferOK
  <2>2. pc'[r] = "spending" =>
          Opened(held[r].window)' /\ \A u \in Users \ {who'[r]} : windows'[u] # held'[r].window
    <3> SUFFICES ASSUME pc'[r] = "spending"
                 PROVE  Opened(held[r].window)' /\ \A u \in Users \ {who'[r]} : windows'[u] # held'[r].window
      OBVIOUS
    <3>1. /\ who'[r] = who[r] /\ who[r] \in Users /\ windows' = windows
          /\ held'[r].window = windows[who[r]] /\ windows[who[r]] # NULL
      BY <2>0 DEF Effect, PhaseStep
    <3>2. Opened(windows[who[r]])
      BY <3>1 DEF Once, OfferOK
    <3>3. Opened(held[r].window)'
      BY <3>1, <3>2, IssuedLasts DEF Opened, Effect
    <3> QED
      BY <3>1, <3>3 DEF Once, OfferOK
  <2>3. pc'[r] = "loaded" =>
          /\ op'[r] \in Senders
          /\ held'[r].window = NULL => windows'[who'[r]] = NULL
    BY <1>t, <2>0 DEF Effect, PhaseStep
  <2> QED
    BY <2>1, <2>2, <2>3 DEF CopyOK
<1>3. ASSUME NEW q \in Requests, q # r PROVE HistoryOK(q)'
  <2>1. /\ HistoryOK(q) /\ pc'[q] = pc[q] /\ spent'[q] = spent[q] /\ over'[q] = over[q]
        /\ knew'[q] = knew[q]
    BY <1>3 DEF Once, Private, Effect, HistoryStep
  <2>2. op'[q] \in Senders => \A p \in over'[q] \cap Requests : spent'[p] # {}
    BY <1>t, <1>s, <2>1 DEF HistoryOK
  <2>3. \A t \in spent'[q] : Used(t)'
    BY <1>t, <2>1, UsedLasts DEF HistoryOK
  <2> QED
    BY <2>1, <2>2, <2>3 DEF HistoryOK
<1>4. HistoryOK(r)'
  <2>0. HistoryOK(r)
    BY DEF Once
  <2>1. pc'[r] \in {"idle", "asked", "loaded", "matched"} => spent'[r] = {}
    BY <2>0 DEF HistoryOK, Effect, PhaseStep, Onward
  <2>2. op'[r] \in Senders => \A p \in over'[r] \cap Requests : spent'[p] # {}
    <3>1. CASE over'[r] = over[r]
      BY <1>t, <1>s, <2>0, <3>1 DEF HistoryOK
    <3>2. CASE op[r] = "accept"
      BY <1>t, <3>2 DEF Senders
    <3>3. CASE over'[r] = Acted
      <4>1. \A p \in Acted \cap Requests : spent[p] # {}
        BY MailAssumption DEF Acted
      <4> QED
        BY <1>s, <3>3, <4>1
    <3> QED
      BY <3>1, <3>2, <3>3 DEF Effect, HistoryStep
  <2>3. knew'[r] = {}
    <3>1. CASE knew'[r] = knew[r]
      BY <2>0, <3>1 DEF HistoryOK
    <3>2. ASSUME NEW t \in Token, ~Used(t), knew'[r] = knew[r] \cup ({t} \X Spenders(t))
          PROVE  knew'[r] = {}
      <4>1. Spenders(t) = {}
        BY <3>2 DEF Spenders, Once, HistoryOK
      <4> QED
        BY <2>0, <3>2, <4>1 DEF HistoryOK
    <3> QED
      BY <3>1, <3>2 DEF Effect, HistoryStep
  <2>4. \A t \in spent'[r] : Used(t)'
    <3>1. \A t \in spent[r] : Used(t)'
      BY <1>t, <2>0, UsedLasts DEF HistoryOK
    <3> QED
      BY <3>1 DEF Effect, HistoryStep
  <2> QED
    BY <2>1, <2>2, <2>3, <2>4 DEF HistoryOK
<1>5. OfferOK'
  <2>o. OfferOK
    BY DEF Once
  <2>1. ASSUME NEW u \in Users, codes'[u] # NULL
        PROVE  Issued(codes[u])' /\ (codes'[u] \in Requests => op'[codes'[u]] \in Senders)
    <3>1. CASE codes'[u] = codes[u]
      BY <1>t, <2>o, <2>1, <3>1, IssuedLasts DEF OfferOK, Issued, Effect
    <3>2. CASE codes'[u] = r /\ pc[r] = "loaded"
      BY <1>t, <2>1, <3>2 DEF Issued, Once, CopyOK, Effect, PhaseStep, Onward
    <3> QED
      BY <2>1, <3>1, <3>2 DEF Effect, CodesStep
  <2>2. ASSUME NEW u \in Users, windows'[u] # NULL PROVE Opened(windows[u])'
    <3>1. CASE windows'[u] = windows[u]
      BY <2>o, <2>2, <3>1, IssuedLasts DEF OfferOK, Opened, Effect
    <3>2. CASE windows'[u] = r /\ pc[r] = "matched"
      BY <2>2, <3>2 DEF Opened, Effect, PhaseStep, Onward
    <3> QED
      BY <2>2, <3>1, <3>2 DEF Effect, WindowsStep
  <2>3. ASSUME NEW u \in Users, NEW v \in Users, u # v
        PROVE  codes'[u] = NULL \/ codes'[u] # codes'[v]
    <3>1. pc[r] = "loaded" => codes[u] # r /\ codes[v] # r
      BY <1>t, <2>o DEF OfferOK, Issued
    <3> QED
      BY <1>t, <2>o, <2>3, <3>1 DEF OfferOK, Effect, CodesStep
  <2>4. ASSUME NEW u \in Users, NEW v \in Users, u # v
        PROVE  windows'[u] = NULL \/ windows'[u] # windows'[v]
    <3>1. pc[r] = "matched" => windows[u] # r /\ windows[v] # r
      BY <1>t, <2>o DEF OfferOK, Opened
    <3> QED
      BY <1>t, <2>o, <2>4, <3>1 DEF OfferOK, Effect, WindowsStep
  <2>5. ASSUME NEW u \in Users, codes'[u] \in Requests, windows'[u] # NULL
        PROVE  windows'[u] \notin over'[codes'[u]]
    <3>1. CASE codes'[u] = codes[u]
      <4>1. PICK c \in Requests : c = codes[u]
        BY <2>5, <3>1
      <4>2. op[c] \in Senders /\ Issued(c)
        BY <1>t, <2>o, <4>1 DEF OfferOK
      <4>3. over'[c] = over[c]
        BY <4>2 DEF Private, Effect, HistoryStep, PhaseStep, Issued, Senders
      <4>4. pc[r] = "matched" => r \notin over[c]
        BY <4>2 DEF Once, HistoryOK
      <4>5. windows[u] # NULL => windows[u] \notin over[c]
        BY <2>o, <4>1 DEF OfferOK
      <4> QED
        BY <2>5, <3>1, <4>1, <4>3, <4>4, <4>5 DEF Effect, WindowsStep
    <3>2. CASE codes'[u] = r /\ u = who[r] /\ pc[r] = "loaded" /\ held[r].window = NULL
               /\ windows'[u] = windows[u]
      <4>1. windows[u] \notin over[r]
        BY <2>5, <3>2 DEF Once, CopyOK
      <4>2. op[r] \in Senders
        BY <3>2 DEF Once, CopyOK
      <4>3. over'[r] = over[r]
        BY <3>2, <4>2 DEF Effect, HistoryStep, PhaseStep, Senders
      <4> QED
        BY <3>2, <4>1, <4>3
    <3> QED
      BY <1>t, <2>5, <3>1, <3>2 DEF Effect, CodesStep
  <2> QED
    BY <2>1, <2>2, <2>3, <2>4, <2>5 DEF OfferOK, Issued, Opened
<1> QED
  BY <1>1, <1>2, <1>3, <1>4, <1>5 DEF Once

-----------------------------------------------------------------------------
(* Every step is of that kind.                                              *)

\* What has been looked at, and what has been spent, by a step of r.
LEMMA LooksStep ==
  ASSUME IInv, NEW r \in Requests, NEW t \in Token, Looks(r, t), ~Used(t)
  PROVE  /\ \A q \in Requests \ {r} : knew'[q] = knew[q]
         /\ knew'[r] = knew[r] \/
              \E u \in Token : ~Used(u) /\ knew'[r] = knew[r] \cup ({u} \X Spenders(u))
<1>1. knew \in [Requests -> SUBSET (Token \X Requests)]
  BY DEF IInv, TypeOK, MailTypeOK
<1>2. knew' = [knew EXCEPT ![r] = knew[r] \cup ({t} \X Spenders(t))]
  BY DEF Looks
<1>3. knew'[r] = knew[r] \cup ({t} \X Spenders(t))
  BY <1>1, <1>2
<1> QED
  BY <1>1, <1>2, <1>3

LEMMA SpendsStep ==
  ASSUME IInv, NEW r \in Requests, NEW t \in Token, Spends(r, t), Used(t)'
  PROVE  \E u \in Token : Used(u)' /\ spent'[r] = spent[r] \cup {u}
<1>1. spent'[r] = spent[r] \cup {t}
  BY DEF IInv, TypeOK, MailTypeOK, Spends
<1> QED
  BY <1>1

\* A step that neither looks nor spends.
LEMMA QuietHistory ==
  ASSUME NEW r \in Requests, UNCHANGED <<knew, spent>>,
         over' = over \/ op[r] = "accept"
  PROVE  HistoryStep(r)
BY DEF HistoryStep

\* A step that leaves the mailboxes alone.
LEMMA AwayEffect ==
  ASSUME NEW r \in Requests, UNCHANGED <<codes, windows>>,
         pc'[r] \notin {"asked", "loaded", "matched", "spending"},
         HistoryStep(r), StatusStep
  PROVE  Effect(r)
BY DEF Effect, CodesStep, WindowsStep, PhaseStep

LEMMA MailEffect ==
  ASSUME IInv, Once, NEW r \in Requests, Private(r), Lasting, Onward(r),
         (\E u \in Users : Ask(r, u)) \/ MailStep(r),
         UNCHANGED <<seatVars, applications>>
  PROVE  Effect(r)
<1>t. MailTypeOK /\ Functions
  BY FunctionsOK DEF IInv, TypeOK
<1>m. MailboxOK(r) /\ CopyOK(r)
  BY DEF IInv, Once
<1>s. StatusStep
  BY DEF StatusStep, seatVars
\* A step that leaves codes, windows and history alone as well.
<1>q. ASSUME UNCHANGED <<codes, windows, knew, spent, over>>,
             pc'[r] \notin {"asked", "loaded", "matched", "spending"}
      PROVE  Effect(r)
  BY <1>q, <1>s, QuietHistory, AwayEffect
<1>1. ASSUME NEW u \in Users, Ask(r, u) PROVE Effect(r)
  <2>1. HistoryStep(r)
    BY <1>1, QuietHistory DEF Ask
  <2>2. pc[r] = "idle" /\ pc'[r] = "asked" /\ UNCHANGED <<codes, windows, spent>>
    BY <1>1, <1>t DEF Ask, Go, Functions
  <2> QED
    BY <1>s, <2>1, <2>2 DEF Effect, CodesStep, WindowsStep, PhaseStep
<1>2. ASSUME LoadForIssue(r) PROVE Effect(r)
  <2>1. /\ pc[r] = "asked" /\ pc'[r] = "loaded" /\ op[r] \in Senders
        /\ UNCHANGED <<codes, windows, spent, knew>>
        /\ held'[r].window = windows[who[r]] /\ over'[r] = Acted
    BY <1>2, <1>t DEF LoadForIssue, Go, Functions, Copy, Senders
  <2>2. HistoryStep(r)
    BY <2>1 DEF HistoryStep
  <2> QED
    BY <1>s, <2>1, <2>2 DEF Effect, CodesStep, WindowsStep, PhaseStep
<1>3. ASSUME CommitCode(r) PROVE Effect(r)
  <2>1. /\ pc[r] = "loaded" /\ pc'[r] = "issued" /\ UNCHANGED <<spent, knew, over>>
    BY <1>3, <1>t DEF CommitCode, Ends, Go, Functions, requestVars
  <2>2. CodesStep(r) /\ WindowsStep(r)
    BY <1>3, <1>t DEF CommitCode, CodesStep, WindowsStep, MailTypeOK
  <2>3. HistoryStep(r)
    BY <2>1, QuietHistory
  <2> QED
    BY <1>s, <2>1, <2>2, <2>3 DEF Effect, PhaseStep
<1>4. ASSUME CommitCodeFails(r) PROVE Effect(r)
  <2>1. pc'[r] = "failed" /\ UNCHANGED <<codes, windows, knew, spent, over>>
    BY <1>4, <1>t DEF CommitCodeFails, Ends, Go, Functions, requestVars
  <2> QED
    BY <2>1, <1>q
<1>5. ASSUME Mail(r) PROVE Effect(r)
  <2>1. pc'[r] \in {"done", "bounced"} /\ UNCHANGED <<codes, windows, knew, spent, over>>
    BY <1>5, <1>t DEF Mail, Go, Functions, requestVars
  <2> QED
    BY <2>1, <1>q
<1>6. ASSUME LoadForRevoke(r) PROVE Effect(r)
  <2>1. pc'[r] \in {"failed", "revoking"} /\ UNCHANGED <<codes, windows, knew, spent, over>>
    BY <1>6, <1>t DEF LoadForRevoke, Go, Functions, requestVars
  <2> QED
    BY <2>1, <1>q
<1>7. ASSUME CommitRevoke(r) PROVE Effect(r)
  <2>1. pc'[r] = "failed" /\ UNCHANGED <<windows, knew, spent, over>>
    BY <1>7, <1>t DEF CommitRevoke, Ends, Go, Functions, requestVars
  <2>2. CodesStep(r) /\ WindowsStep(r)
    BY <1>7, <1>t DEF CommitRevoke, CodesStep, WindowsStep, MailTypeOK
  <2>3. HistoryStep(r)
    BY <2>1, QuietHistory
  <2> QED
    BY <1>s, <2>1, <2>2, <2>3 DEF Effect, PhaseStep
<1>8. ASSUME NEW c \in Stamp, LoadForVerify(r, c) PROVE Effect(r)
  <2>1. /\ pc[r] = "asked" /\ pc'[r] = "matched" /\ UNCHANGED <<codes, windows, spent, over>>
        /\ held'[r].code = codes[who[r]] /\ codes[who[r]] = c /\ who[r] \in Users
    BY <1>8, <1>t, <1>m DEF LoadForVerify, Go, Functions, Copy, MailboxOK
  <2>2. <<"code", c>> \in Token /\ c # NULL
    BY MailAssumption DEF Token
  <2>3. ~Used(<<"code", c>>)
    BY <2>1 DEF Used
  <2>4. HistoryStep(r)
    BY <1>8, <2>1, <2>2, <2>3, LooksStep DEF LoadForVerify, HistoryStep
  <2> QED
    BY <1>s, <2>1, <2>2, <2>4 DEF Effect, CodesStep, WindowsStep, PhaseStep
<1>9. ASSUME CommitVerify(r) PROVE Effect(r)
  <2>1. /\ pc[r] = "matched" /\ pc'[r] \in {"verified", "done"}
        /\ UNCHANGED <<knew, over>>
        /\ held[r].code \in Stamp /\ who[r] \in Users
    BY <1>9, <1>t, <1>m DEF CommitVerify, Ends, Go, Functions, requestVars, MailboxOK
  <2>2. /\ codes' = [codes EXCEPT ![who[r]] = NULL]
        /\ windows' = [windows EXCEPT ![who[r]] = r]
    BY <1>9 DEF CommitVerify
  <2>3. CodesStep(r) /\ WindowsStep(r)
    BY <1>t, <2>1, <2>2 DEF CodesStep, WindowsStep, MailTypeOK
  <2>4. PhaseStep(r)
    BY <2>1 DEF PhaseStep
  <2>5. PICK c \in Stamp : c = held[r].code
    BY <2>1
  <2>6. Issued(c) /\ \A u \in Users \ {who[r]} : codes[u] # c
    BY <1>m, <2>1, <2>5 DEF CopyOK
  <2>7. Issued(c)'
    BY <2>4, <2>6, IssuedLasts DEF Issued
  <2>8. \A u \in Users : codes'[u] # c
    BY <1>t, <2>2, <2>5, <2>6, MailAssumption DEF MailTypeOK
  <2>9. Used(<<"code", c>>)' /\ <<"code", c>> \in Token
    BY <2>7, <2>8 DEF Used, Token
  <2>10. HistoryStep(r)
    BY <1>9, <2>1, <2>5, <2>9, SpendsStep DEF CommitVerify, HistoryStep
  <2> QED
    BY <1>s, <2>3, <2>4, <2>10 DEF Effect
<1>10. ASSUME CheckReset(r) PROVE Effect(r)
  <2>1. pc'[r] \in {"refused", "changing"} /\ UNCHANGED <<codes, windows, knew, spent, over>>
    BY <1>10, <1>t DEF CheckReset, Go, Functions, requestVars
  <2> QED
    BY <2>1, <1>q
<1>11. ASSUME CommitPassword(r) PROVE Effect(r)
  <2>1. pc'[r] = "consuming" /\ UNCHANGED <<codes, windows, knew, spent, over>>
    BY <1>11, <1>t DEF CommitPassword, Go, Functions, requestVars
  <2> QED
    BY <2>1, <1>q
<1>12. ASSUME LoadWindow(r) PROVE Effect(r)
  <2> DEFINE v == windows[who[r]]
  <2>1. UNCHANGED <<codes, windows, spent, over>> /\ who[r] \in Users /\ pc[r] # "idle"
    BY <1>12, <1>m DEF LoadWindow, MailboxOK
  <2>2. CASE v # NULL /\ <<"window", v>> \notin lapsed
    <3>1. /\ pc'[r] = "spending" /\ held'[r].window = v /\ Looks(r, <<"window", v>>)
          /\ v \in Stamp
      BY <1>12, <1>t, <2>1, <2>2 DEF LoadWindow, Go, Functions, Copy, MailTypeOK
    <3>2. <<"window", v>> \in Token /\ ~Used(<<"window", v>>)
      BY <2>1, <3>1 DEF Token, Used
    <3>3. HistoryStep(r)
      BY <2>1, <3>1, <3>2, LooksStep DEF HistoryStep
    <3> QED
      BY <1>s, <2>1, <2>2, <3>1, <3>3 DEF Effect, CodesStep, WindowsStep, PhaseStep
  <2>3. CASE ~(v # NULL /\ <<"window", v>> \notin lapsed)
    <3>1. pc'[r] \in {"done", "refused"} /\ knew' = knew
      BY <1>12, <1>t, <2>3 DEF LoadWindow, Ends, Go, Functions
    <3> QED
      BY <2>1, <3>1, <1>q
  <2> QED
    BY <2>2, <2>3
<1>13. ASSUME CommitWindow(r) PROVE Effect(r)
  <2>1. /\ pc[r] = "spending" /\ pc'[r] \in {"admitted", "done"}
        /\ UNCHANGED <<knew, over, codes>>
        /\ held[r].window \in Stamp /\ who[r] \in Users
    BY <1>13, <1>t, <1>m DEF CommitWindow, Ends, Go, Functions, requestVars, MailboxOK
  <2>2. windows' = [windows EXCEPT ![who[r]] = NULL]
    BY <1>13 DEF CommitWindow
  <2>3. CodesStep(r) /\ WindowsStep(r)
    BY <1>t, <2>1, <2>2 DEF CodesStep, WindowsStep, MailTypeOK
  <2>4. PhaseStep(r)
    BY <2>1 DEF PhaseStep
  <2>5. PICK v \in Stamp : v = held[r].window
    BY <2>1
  <2>6. Opened(v) /\ \A u \in Users \ {who[r]} : windows[u] # v
    BY <1>m, <2>1, <2>5 DEF CopyOK
  <2>7. Opened(v)'
    BY <2>4, <2>6, IssuedLasts DEF Opened
  <2>8. \A u \in Users : windows'[u] # v
    BY <1>t, <2>2, <2>5, <2>6, MailAssumption DEF MailTypeOK
  <2>9. Used(<<"window", v>>)' /\ <<"window", v>> \in Token
    BY <2>7, <2>8 DEF Used, Token
  <2>10. HistoryStep(r)
    BY <1>13, <2>1, <2>5, <2>9, SpendsStep DEF CommitWindow, HistoryStep
  <2> QED
    BY <1>s, <2>3, <2>4, <2>10 DEF Effect
<1> QED
  BY <1>1, <1>2, <1>3, <1>4, <1>5, <1>6, <1>7, <1>8, <1>9, <1>10, <1>11, <1>12,
     <1>13 DEF MailStep

\* An answered invitation is not pending, and the others are as they were.
LEMMA Answered ==
  ASSUME IInv, NEW i \in Stamp, invitations[i] \in Invitation,
         NEW s \in InviteStatus \ {"pending"}, SetStatus(i, s), UNCHANGED applications
  PROVE  StatusStep /\ Used(<<"invitation", i>>)' /\ <<"invitation", i>> \in Token
<1>1. invitations \in [Stamp -> Invitation \cup {NULL}]
  BY DEF IInv, TypeOK, SeatTypeOK
<1>2. /\ invitations'[i].status = s /\ invitations'[i] \in Invitation
      /\ \A j \in Stamp : j # i => invitations'[j] = invitations[j]
  BY <1>1 DEF SetStatus, Invitation
<1>3. StatusStep
  BY <1>2 DEF StatusStep
<1>4. Used(<<"invitation", i>>)' /\ <<"invitation", i>> \in Token
  BY <1>2 DEF Used, Token
<1> QED
  BY <1>3, <1>4

LEMMA InviteEffect ==
  ASSUME IInv, Once, NEW r \in Requests, Private(r), Lasting, Onward(r),
         InviteStep(r), UNCHANGED applications
  PROVE  Effect(r)
<1>t. MailTypeOK /\ SeatTypeOK /\ Functions
  BY FunctionsOK DEF IInv, TypeOK
<1>m. MailboxOK(r) /\ SubjectOK(r)
  BY DEF IInv
<1>n. invitations[r] = NULL /\ r \in Stamp
  BY <1>m DEF SubjectOK, Onward, Stamp
<1>i. {"accepted", "expired", "revoked", "declined"} \subseteq InviteStatus \ {"pending"}
  BY DEF InviteStatus
<1>1. ASSUME NEW m \in members, Authorise(r, m) PROVE Effect(r)
  <2>1. /\ pc'[r] = "authorised" /\ UNCHANGED <<codes, windows, knew, spent, over>>
        /\ StatusStep
    BY <1>1, <1>t DEF Authorise, Go, Functions, StatusStep
  <2> QED
    BY <2>1, QuietHistory, AwayEffect
<1>2. ASSUME Issue(r) PROVE Effect(r)
  <2>1. /\ pc'[r] = "done" /\ UNCHANGED <<codes, windows, knew, spent, over>>
    BY <1>2, <1>t DEF Issue, Ends, Go, Functions, requestVars
  <2>2. \A i \in Stamp : i # r => invitations'[i] = invitations[i]
    BY <1>2, <1>t DEF Issue, Functions
  <2>3. NULL \notin Invitation
    BY SeatAssumption
  <2>4. StatusStep
    BY <1>n, <2>2, <2>3 DEF StatusStep
  <2> QED
    BY <2>1, <2>4, QuietHistory, AwayEffect
<1>3. ASSUME NEW i \in Stamp, NEW u \in Users, LoadAnswer(r, i, u) \/ LoadInvitation(r, i, u)
      PROVE  Effect(r)
  <2>1. /\ pc'[r] \in {"answering", "expiring", "invited"}
        /\ UNCHANGED <<codes, windows, spent, over, invitations>>
        /\ Looks(r, <<"invitation", i>>) /\ Pending(i)
    BY <1>3, <1>t DEF LoadAnswer, LoadInvitation, Go, Functions
  <2>2. <<"invitation", i>> \in Token /\ ~Used(<<"invitation", i>>)
    BY <2>1 DEF Token, Used, Pending
  <2>3. HistoryStep(r)
    BY <2>1, <2>2, LooksStep DEF HistoryStep
  <2>4. StatusStep
    BY <2>1 DEF StatusStep
  <2> QED
    BY <2>1, <2>3, <2>4, AwayEffect
<1>4. ASSUME CommitAnswer(r) \/ CommitExpiry(r) \/ CommitAccept(r) PROVE Effect(r)
  <2>1. /\ pc'[r] \in {"done", "refused"} /\ UNCHANGED <<codes, windows, over, knew>>
        /\ subject[r] \in Stamp /\ invitations[subject[r]] \in Invitation
        /\ Spends(r, <<"invitation", subject[r]>>)
    BY <1>4, <1>t, <1>m DEF CommitAnswer, CommitExpiry, CommitAccept, Ends, Go, Functions,
       requestVars, SubjectOK, About
  <2>2. PICK s \in {"accepted", "expired", "revoked", "declined"} : SetStatus(subject[r], s)
    BY <1>4 DEF CommitAnswer, CommitExpiry, CommitAccept
  <2>3. PICK i \in Stamp : i = subject[r]
    BY <2>1
  <2>4. StatusStep /\ Used(<<"invitation", i>>)' /\ <<"invitation", i>> \in Token
    BY <1>i, <2>1, <2>2, <2>3, Answered
  <2>5. HistoryStep(r)
    BY <2>1, <2>3, <2>4, SpendsStep DEF HistoryStep
  <2> QED
    BY <2>1, <2>4, <2>5, AwayEffect
<1>5. ASSUME CheckSeat(r) PROVE Effect(r)
  <2>1. /\ pc'[r] \in {"refused", "checked"}
        /\ UNCHANGED <<codes, windows, knew, spent, over>> /\ StatusStep
    BY <1>5, <1>t DEF CheckSeat, Go, Functions, requestVars, StatusStep
  <2> QED
    BY <2>1, QuietHistory, AwayEffect
<1>6. ASSUME ReadHolders(r) PROVE Effect(r)
  <2>1. /\ pc'[r] = "ready" /\ op[r] = "accept"
        /\ UNCHANGED <<codes, windows, knew, spent>> /\ StatusStep
    BY <1>6, <1>t, <1>m DEF ReadHolders, Go, Functions, StatusStep, SubjectOK
  <2> QED
    BY <2>1, QuietHistory, AwayEffect
<1>7. ASSUME CommitAcceptFails(r) PROVE Effect(r)
  <2>1. /\ pc'[r] = "failed" /\ UNCHANGED <<codes, windows, knew, spent, over>> /\ StatusStep
    BY <1>7, <1>t DEF CommitAcceptFails, Ends, Go, Functions, requestVars, seatVars, StatusStep
  <2> QED
    BY <2>1, QuietHistory, AwayEffect
<1>8. ASSUME NEW i \in Stamp \cup {NULL}, LoadCode(r, i) PROVE Effect(r)
  <2>1. /\ pc'[r] = "enrolling" /\ UNCHANGED <<codes, windows, spent, over>> /\ StatusStep
    BY <1>8, <1>t DEF LoadCode, Go, Functions, StatusStep
  <2>2. HistoryStep(r)
    <3>1. CASE i = NULL
      BY <1>8, <2>1, <3>1, QuietHistory DEF LoadCode
    <3>2. CASE i # NULL
      <4>1. Looks(r, <<"invitation", i>>) /\ Pending(i) /\ i \in Stamp
        BY <1>8, <3>2 DEF LoadCode
      <4>2. <<"invitation", i>> \in Token /\ ~Used(<<"invitation", i>>)
        BY <4>1 DEF Token, Used, Pending
      <4> QED
        BY <2>1, <4>1, <4>2, LooksStep DEF HistoryStep
    <3> QED
      BY <3>1, <3>2
  <2> QED
    BY <2>1, <2>2, AwayEffect
<1>9. ASSUME Enroll(r) PROVE Effect(r)
  <2>1. pc'[r] = "done" /\ UNCHANGED <<codes, windows, knew, over>>
    BY <1>9, <1>t DEF Enroll, Ends, Go, Functions, requestVars
  <2>2. CASE subject[r] = NULL
    <3>1. UNCHANGED spent /\ StatusStep
      BY <1>9, <2>2 DEF Enroll, StatusStep
    <3> QED
      BY <2>1, <3>1, QuietHistory, AwayEffect
  <2>3. CASE subject[r] # NULL
    <3>1. PICK i \in Stamp : i = subject[r] /\ invitations[i] \in Invitation
      BY <1>9, <1>m, <2>3 DEF Enroll, SubjectOK, About
    <3>2. SetStatus(i, "accepted") /\ Spends(r, <<"invitation", i>>)
      BY <1>9, <2>3, <3>1 DEF Enroll
    <3>3. StatusStep /\ Used(<<"invitation", i>>)' /\ <<"invitation", i>> \in Token
      BY <1>i, <3>1, <3>2, Answered
    <3>4. HistoryStep(r)
      BY <2>1, <3>2, <3>3, SpendsStep DEF HistoryStep
    <3> QED
      BY <2>1, <3>3, <3>4, AwayEffect
  <2> QED
    BY <2>2, <2>3
<1> QED
  BY <1>1, <1>2, <1>3, <1>4, <1>5, <1>6, <1>7, <1>8, <1>9 DEF InviteStep

LEMMA DeskEffect ==
  ASSUME IInv, Once, NEW r \in Requests, Private(r), Lasting, Onward(r), DeskStep(r)
  PROVE  Effect(r)
<1>t. MailTypeOK /\ Functions
  BY FunctionsOK DEF IInv, TypeOK
<1>m. SubjectOK(r)
  BY DEF IInv
<1>1. ASSUME NEW u \in Users, LoadApplications(r, u) \/ CreateOrganization(r, u)
      PROVE  Effect(r)
  <2>1. /\ pc'[r] \in {"filing", "done"} /\ UNCHANGED <<codes, windows, knew, spent, over>>
        /\ StatusStep
    BY <1>1, <1>t DEF LoadApplications, CreateOrganization, Go, Functions, seatVars, StatusStep
  <2> QED
    BY <2>1, QuietHistory, AwayEffect
<1>2. ASSUME CommitApplication(r) PROVE Effect(r)
  <2>1. pc'[r] = "done" /\ UNCHANGED <<codes, windows, knew, spent, over, invitations>>
    BY <1>2, <1>t DEF CommitApplication, Ends, Go, Functions, requestVars, seatVars
  <2>2. \A a \in Stamp : a # r => applications'[a] = applications[a]
    BY <1>2, <1>t DEF CommitApplication, Functions
  <2>3. applications[r] = NULL /\ NULL \notin Application
    BY <1>m, WorldAssumption DEF SubjectOK, Onward
  <2>4. StatusStep
    BY <2>1, <2>2, <2>3 DEF StatusStep
  <2> QED
    BY <2>1, <2>4, QuietHistory, AwayEffect
<1>3. ASSUME NEW u \in Users, NEW a \in Stamp, LoadApplication(r, u, a) PROVE Effect(r)
  <2>1. /\ pc'[r] = "reviewing"
        /\ UNCHANGED <<codes, windows, spent, over, invitations, applications>>
        /\ Looks(r, <<"application", a>>) /\ applications[a].status = "pending"
    BY <1>3, <1>t DEF LoadApplication, Go, Functions
  <2>2. <<"application", a>> \in Token /\ ~Used(<<"application", a>>)
    BY <2>1 DEF Token, Used
  <2>3. HistoryStep(r)
    BY <2>1, <2>2, LooksStep DEF HistoryStep
  <2>4. StatusStep
    BY <2>1 DEF StatusStep
  <2> QED
    BY <2>1, <2>3, <2>4, AwayEffect
<1>4. ASSUME CommitApproval(r) \/ CommitRejection(r) PROVE Effect(r)
  <2>0. pc[r] = "reviewing"
    BY <1>4 DEF CommitApproval, CommitRejection
  <2>1. /\ pc'[r] = "done" /\ UNCHANGED <<codes, windows, over, knew, invitations>>
        /\ Spends(r, <<"application", subject[r]>>)
    BY <1>4, <1>t DEF CommitApproval, CommitRejection, Ends, Go, Functions,
       requestVars, seatVars
  <2>2. PICK a \in Stamp : a = subject[r] /\ applications[a] \in Application
    BY <1>m, <2>0 DEF SubjectOK
  <2>3. PICK s \in {"approved", "rejected"}, o \in Stamp \cup {NULL} :
          applications' = [applications EXCEPT ![a] =
            [applications[a] EXCEPT !.status = s, !.org = o]]
    BY <1>4, <2>0, <2>2, Decisions
  <2>4. /\ applications'[a].status = s /\ applications'[a] \in Application
        /\ \A b \in Stamp : b # a => applications'[b] = applications[b]
    BY <1>t, <2>2, <2>3 DEF Functions, Application
  <2>5. StatusStep
    BY <2>1, <2>4 DEF StatusStep
  <2>6. Used(<<"application", a>>)' /\ <<"application", a>> \in Token
    BY <2>4 DEF Used, Token
  <2>7. HistoryStep(r)
    BY <2>1, <2>2, <2>6, SpendsStep DEF HistoryStep
  <2> QED
    BY <2>1, <2>5, <2>7, AwayEffect
<1> QED
  BY <1>1, <1>2, <1>3, <1>4 DEF DeskStep

-----------------------------------------------------------------------------

\* Time, comments and nothing at all.
LEMMA QuietOnce ==
  ASSUME Once,
         UNCHANGED <<op, who, pc, codes, windows, held, spent, knew, over, invitations,
                     applications>>
  PROVE  Once'
<1>1. ASSUME NEW r \in Requests PROVE CopyOK(r)' /\ HistoryOK(r)'
  <2>1. CopyOK(r) /\ HistoryOK(r)
    BY DEF Once
  <2>2. CopyOK(r)'
    BY <2>1 DEF CopyOK, Issued, Opened
  <2>3. HistoryOK(r)'
    BY <2>1 DEF HistoryOK, Used, Issued, Opened
  <2> QED
    BY <2>2, <2>3
<1>2. OfferOK'
  <2>1. OfferOK
    BY DEF Once
  <2> QED
    BY <2>1 DEF OfferOK, Issued, Opened
<1> QED
  BY <1>1, <1>2 DEF Once

\* The invariant is inductive, given that of Applications_proofs.
LEMMA NextOnce == IInv /\ Once /\ [Next]_vars => Once'
<1> SUFFICES ASSUME IInv, Once, [Next]_vars PROVE Once'
  OBVIOUS
<1>1. ASSUME NEW r \in Requests, Step(r) PROVE Once'
  <2>1. Private(r) /\ Lasting /\ Onward(r)
    BY <1>1, StepFrame
  <2>2. Effect(r)
    BY <1>1, <2>1, MailEffect, InviteEffect, DeskEffect DEF Step
  <2> QED
    BY <2>1, <2>2, OnceLasts
<1>2. ASSUME NEW t \in Token, Lapse(t), UNCHANGED <<seatVars, applications>> PROVE Once'
  BY <1>2, QuietOnce DEF Lapse, requestVars, seatVars
<1>3. ASSUME NEW m \in members, Comment(m), UNCHANGED applications PROVE Once'
  BY <1>3, QuietOnce DEF Comment, mailVars
<1>4. CASE UNCHANGED vars
  BY <1>4, QuietOnce DEF vars, mailVars, seatVars
<1> QED
  BY <1>1, <1>2, <1>3, <1>4 DEF Next, Step

\* Two requests use the same code, window, invitation or application only if
\* both had loaded it before either committed, and a code stands beside an open
\* window only if the window was opened after the code's request had loaded the
\* row (verify_code, consume_verified, the PENDING checks, issue_code).
THEOREM GoodForOneUse == Spec => []UsedTwiceOnlyByOverlap
<1>1. Once => UsedTwiceOnlyByOverlap
  <2> SUFFICES ASSUME Once PROVE UsedTwiceOnlyByOverlap
    OBVIOUS
  <2>1. \A q, r \in Requests : \A t \in spent[q] \cap spent[r] :
          q # r => <<t, q>> \notin knew[r]
    BY DEF Once, HistoryOK
  <2>2. \A u \in Users : codes[u] \in Requests /\ windows[u] # NULL =>
          windows[u] \notin over[codes[u]]
    BY DEF Once, OfferOK
  <2> QED
    BY <2>1, <2>2 DEF UsedTwiceOnlyByOverlap
<1> QED
  BY <1>1, InitOnce, NextOnce, Invariant, PTL DEF Spec
=============================================================================
