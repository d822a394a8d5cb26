---------------------------- MODULE Applications ----------------------------
(***************************************************************************)
(* Applications for the presidency of a new organization, their review by  *)
(* the operators of the platform (services/admin_application.py,           *)
(* api/v1/endpoints/admin_applications.py), organizations an operator      *)
(* makes himself (services/organization.py), and all of it together with   *)
(* Memberships and EmailVerification: the accounts of the system.          *)
(*                                                                         *)
(* An application is named after the request that filed it.                *)
(***************************************************************************)
EXTENDS Memberships

CONSTANTS
  Operators,  \* the accounts of OPERATOR_EMAILS
  Worlds      \* what is on record when the requests come, and their operations

VARIABLE
  applications  \* stamp -> the application it filed, or NULL

vars == <<mailVars, seatVars, applications>>

\* `org` is created_organization_id.
Application ==
  [applicant : Users, status : {"pending", "approved", "rejected"},
   org : Stamp \cup {NULL}]

Phase == MailPhase \cup SeatPhase \cup {"filing", "reviewing"}

\* A world is made by requests of the past that did not overlap.
World ==
  [plan : [Requests -> AllOps],
   accounts : SUBSET Users, mailRows : SUBSET Users,
   codes : [Users -> Past \cup {NULL}], windows : [Users -> Past \cup {NULL}],
   orgs : SUBSET Past,
   members : SUBSET [org : Past, user : Users, role : Roles, by : Past],
   invitations : [Stamp -> Invitation \cup {NULL}],
   applications : [Stamp -> Application \cup {NULL}]]

ASSUME WorldAssumption ==
  /\ Operators \subseteq Users
  /\ NULL \notin Application
  /\ \A w \in Worlds : w \in World
  /\ \A w \in Worlds :
       /\ \A o \in w.orgs : \E m \in w.members : m.org = o /\ m.role = "president"
       /\ \A m \in w.members : m.user \in w.accounts /\ m.org \in w.orgs
       /\ \A u \in Users :
            /\ w.codes[u] = NULL \/ w.windows[u] = NULL
            /\ u \notin w.mailRows => w.codes[u] = NULL /\ w.windows[u] = NULL
            /\ \A v \in Users \ {u} :
                 /\ w.codes[u] = NULL \/ w.codes[u] # w.codes[v]
                 /\ w.windows[u] = NULL \/ w.windows[u] # w.windows[v]
       /\ \A i \in Stamp : w.invitations[i] # NULL =>
            i \in Past /\ w.invitations[i].org \in w.orgs
       /\ \A a \in Stamp : w.applications[a] # NULL =>
            a \in Past /\ w.applications[a].applicant \in w.accounts

TypeOK ==
  /\ MailTypeOK
  /\ SeatTypeOK
  /\ pc \in [Requests -> Phase]
  /\ applications \in [Stamp -> Application \cup {NULL}]

Init ==
  /\ who = [r \in Requests |-> NULL]
  /\ pc = [r \in Requests |-> "idle"]
  /\ held = [r \in Requests |-> NoCopy]
  /\ lapsed = {}
  /\ spent = [r \in Requests |-> {}]
  /\ knew = [r \in Requests |-> {}]
  /\ over = [r \in Requests |-> {}]
  /\ cited = {}
  /\ subject = [r \in Requests |-> NULL]
  /\ via = [r \in Requests |-> NULL]
  /\ prior = [r \in Requests |-> {}]
  /\ password = [u \in Users |-> NULL]
  /\ \E w \in Worlds :
       /\ op = w.plan
       /\ accounts = w.accounts
       /\ mailRows = w.mailRows
       /\ codes = w.codes
       /\ windows = w.windows
       /\ orgs = w.orgs
       /\ members = w.members
       /\ invitations = w.invitations
       /\ applications = w.applications

-----------------------------------------------------------------------------

Filed(u, s) ==
  {a \in Stamp : applications[a] # NULL /\ applications[a].applicant = u
                   /\ applications[a].status = s}

\* submit_application: nothing of the caller's may be pending, and the
\* rejection consulted must have cooled down.  The code consults the rejected
\* application filed last; filing times are not modelled, it may be any.
LoadApplications(r, u) ==
  /\ op[r] = "apply" /\ pc[r] = "idle"
  /\ u \in accounts
  /\ Filed(u, "pending") = {}
  /\ \/ Filed(u, "rejected") = {}
     \/ \E a \in Filed(u, "rejected") : <<"application", a>> \in lapsed
  /\ who' = [who EXCEPT ![r] = u]
  /\ Go(r, "filing")
  /\ UNCHANGED <<op, accounts, password, mailRows, codes, windows, held, lapsed,
                 spent, knew, over, seatVars, applications>>

CommitApplication(r) ==
  /\ pc[r] = "filing"
  /\ applications' = [applications EXCEPT ![r] =
       [applicant |-> who[r], status |-> "pending", org |-> NULL]]
  /\ Ends(r, "done")
  /\ UNCHANGED <<requestVars, accounts, password, mailRows, codes, windows,
                 lapsed, spent, seatVars>>

\* approve_application, reject_application: the application is loaded and
\* pending; the caller is an operator.
LoadApplication(r, u, a) ==
  /\ op[r] \in {"approve", "reject"} /\ pc[r] = "idle"
  /\ u \in accounts \cap Operators
  /\ applications[a] # NULL /\ applications[a].status = "pending"
  /\ who' = [who EXCEPT ![r] = u]
  /\ subject' = [subject EXCEPT ![r] = a]
  /\ Looks(r, <<"application", a>>)
  /\ Go(r, "reviewing")
  /\ UNCHANGED <<op, accounts, password, mailRows, codes, windows, held, lapsed,
                 spent, over, orgs, members, invitations, cited, via, prior,
                 applications>>

\* The organization of request r with its president.
Founds(r, u) ==
  /\ orgs' = orgs \cup {r}
  /\ members' = members \cup
       {[org |-> r, user |-> u, role |-> "president", by |-> r]}

CommitApproval(r) ==
  LET a == subject[r] IN
  /\ op[r] = "approve" /\ pc[r] = "reviewing"
  /\ Founds(r, applications[a].applicant)
  /\ applications' = [applications EXCEPT ![a].status = "approved", ![a].org = r]
  /\ Spends(r, <<"application", a>>)
  /\ Ends(r, "done")
  /\ UNCHANGED <<requestVars, accounts, password, mailRows, codes, windows,
                 lapsed, invitations, cited, subject, via, prior>>

CommitRejection(r) ==
  LET a == subject[r] IN
  /\ op[r] = "reject" /\ pc[r] = "reviewing"
  /\ applications' = [applications EXCEPT ![a].status = "rejected"]
  /\ Spends(r, <<"application", a>>)
  /\ Ends(r, "done")
  /\ UNCHANGED <<requestVars, accounts, password, mailRows, codes, windows,
                 lapsed, seatVars>>

\* create_organization, by an operator
CreateOrganization(r, u) ==
  /\ op[r] = "found" /\ pc[r] = "idle"
  /\ u \in accounts \cap Operators
  /\ Founds(r, u)
  /\ who' = [who EXCEPT ![r] = u]
  /\ Go(r, "done")
  /\ UNCHANGED <<op, accounts, password, mailRows, codes, windows, held, lapsed,
                 spent, knew, over, invitations, cited, subject, via, prior,
                 applications>>

DeskStep(r) ==
  \/ \E u \in Users : LoadApplications(r, u) \/ CreateOrganization(r, u)
  \/ CommitApplication(r)
  \/ \E u \in Users, a \in Stamp : LoadApplication(r, u, a)
  \/ CommitApproval(r)
  \/ CommitRejection(r)

-----------------------------------------------------------------------------

\* Somebody may still look at the time of a token.
Awaits(ops, phases) == \E r \in Requests : op[r] \in ops /\ pc[r] \in phases

Ticking ==
  {t \in ({"code"} \X {codes[u] : u \in Users})
           \cup ({"window"} \X {windows[u] : u \in Users})
           \cup ({"invitation"} \X {i \in Stamp : Pending(i)})
           \cup ({"application"} \X UNION {Filed(u, "rejected") : u \in Users}) :
     CASE t[1] = "code" -> Awaits({"verify", "reset"}, {"idle", "asked"})
       [] t[1] = "window" -> \/ Awaits({"signup"}, {"idle", "asked"})
                             \/ Awaits({"reset"}, {"changing", "consuming"})
       [] t[1] = "invitation" -> Awaits({"accept"}, {"idle"})
       [] OTHER -> Awaits({"apply"}, {"idle"})}

Next ==
  \/ \E r \in Requests :
       \/ \/ \E u \in Users : Ask(r, u)
          \/ MailStep(r)
          /\ UNCHANGED <<seatVars, applications>>
       \/ InviteStep(r) /\ UNCHANGED applications
       \/ DeskStep(r)
  \/ \E t \in Ticking \cap Token : Lapse(t) /\ UNCHANGED <<seatVars, applications>>
  \/ \E m \in members : Comment(m) /\ UNCHANGED applications

Spec == Init /\ [][Next]_vars

-----------------------------------------------------------------------------
(* Properties.                                                              *)

\* An organization is never without a president: handing the presidency over
\* deletes the membership of the holder in the transaction that inserts the
\* successor, whoever else hands over, answers or comments meanwhile
\* (_accept_loaded_invitation, approve_application).
OrganizationsAreLed ==
  \A o \in orgs : \E m \in members : m.org = o /\ m.role = "president"

\* Who took a role over by accepting a transfer shares it only with members
\* seated after he had looked who holds it (the prior holders of
\* _accept_loaded_invitation).
HandOverIsComplete ==
  \A m, n \in members :
    /\ m # n /\ m.org = n.org /\ m.role = n.role
    /\ n.by \in Requests /\ op[n.by] = "accept"
    /\ invitations[subject[n.by]].kind = "role_transfer"
    => m.by \notin over[n.by]

\* A code, a verified window, an invitation and an application are each good
\* for one use; two requests use the same one only if both had loaded it
\* before either committed.  And a code stands beside an open window only if
\* the window was opened after the code's request had loaded the row
\* (verify_code, consume_verified, the PENDING checks, issue_code).
UsedTwiceOnlyByOverlap ==
  /\ \A q, r \in Requests : \A t \in spent[q] \cap spent[r] :
       q # r => <<t, q>> \notin knew[r]
  /\ \A u \in Users :
       codes[u] \in Requests /\ windows[u] # NULL =>
         windows[u] \notin over[codes[u]]

\* Request r presented a code that was issued for u.
PresentsCode(r, u) ==
  \E c \in Stamp : <<"code", c>> \in spent[r] /\ (c \in Requests => who[c] = u)

\* Request r consumed a window of u that a code sent to u had opened.
ProvesMailbox(r, u) ==
  \E v \in Stamp :
    /\ <<"window", v>> \in spent[r]
    /\ v \in Requests => who[v] = u /\ PresentsCode(v, u)

\* Nobody gets in by the way: a password was set by whoever had the mail sent
\* to that address; a seat of an organization was offered to its owner's
\* address in that role, or comes with an organization an operator approved
\* for him or made himself (sign_up, reset_password,
\* _accept_loaded_invitation, approve_application, create_organization).
EveryRightHasItsSource ==
  /\ \A u \in Users : password[u] # NULL =>
       LET r == password[u] IN
       /\ who[r] = u
       /\ IF op[r] = "signup" THEN ProvesMailbox(r, u) ELSE PresentsCode(r, u)
  /\ \A m \in members :
       /\ m.user \in accounts /\ m.org \in orgs
       /\ m.by \in Requests =>
            \/ op[m.by] = "found" /\ m.org = m.by /\ m.user \in Operators
            \/ \E a \in Stamp : /\ <<"application", a>> \in spent[m.by]
                                /\ m.org = m.by
                                /\ applications[a].applicant = m.user
            \/ \E i \in Stamp : /\ <<"invitation", i>> \in spent[m.by]
                                /\ invitations[i].org = m.org
                                /\ invitations[i].email = m.user
                                /\ invitations[i].role = m.role
=============================================================================
