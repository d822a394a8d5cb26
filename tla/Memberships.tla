---------------------------- MODULE Memberships ----------------------------
(***************************************************************************)
(* Who belongs to an organization in which role: invitations, their        *)
(* answers, the hand-over of a role (services/invitation.py,               *)
(* api/v1/endpoints/invitations.py, the organization gates of              *)
(* api/deps/auth.py) and the second half of sign_up, which takes an        *)
(* invitation code.                                                        *)
(*                                                                         *)
(* An invitation is named after the request that issued it, a membership   *)
(* carries the request that inserted it; both stand for primary keys.      *)
(***************************************************************************)
EXTENDS EmailVerification

VARIABLES
  orgs,         \* the organizations, named after the request that made them
  members,      \* the committed memberships
  invitations,  \* stamp -> the invitation it issued, or NULL
  cited,        \* the memberships audit comments refer to
  subject,      \* request -> the invitation or application it is about
  via,          \* request -> the membership its caller was let in with
  prior         \* request -> the holders of the role it found

seatVars == <<orgs, members, invitations, cited, subject, via, prior>>

\* RoleType without "student", which no membership is ever given.
Roles == {"treasurer", "auditor", "president"}

\* InvitationType
InviteKinds == {"treasurer_invite", "auditor_invite", "role_transfer"}

\* InvitationStatus
InviteStatus == {"pending", "accepted", "expired", "revoked", "declined"}

Seat == [org : Stamp, user : Users, role : Roles, by : Stamp]

Invitation ==
  [org : Stamp, email : Users, kind : InviteKinds, role : Roles,
   status : InviteStatus]

SeatPhase ==
  {"authorised", "expiring", "invited", "checked", "ready", "answering",
   "enrolling"}

ASSUME SeatAssumption == NULL \notin Seat \cup Invitation

SeatTypeOK ==
  /\ orgs \subseteq Stamp
  /\ members \subseteq Seat
  /\ invitations \in [Stamp -> Invitation \cup {NULL}]
  /\ cited \subseteq Stamp
  /\ subject \in [Requests -> Stamp \cup {NULL}]
  /\ via \in [Requests -> Seat \cup {NULL}]
  /\ prior \in [Requests -> SUBSET Seat]

-----------------------------------------------------------------------------

Pending(i) == invitations[i] # NULL /\ invitations[i].status = "pending"

SetStatus(i, s) == invitations' = [invitations EXCEPT ![i].status = s]

\* Membership uq_org_membership_role: organization, user and role.
Taken(inv, u) ==
  \E m \in members : m.org = inv.org /\ m.user = u /\ m.role = inv.role

SeatFor(r, inv, u) == [org |-> inv.org, user |-> u, role |-> inv.role, by |-> r]

\* require_roles_in_org: one of the caller's memberships in the organization
\* has a role the endpoint asks for.
Gate ==
  [invite |-> {"president"}, revoke |-> {"president"}, transfer |-> Roles]

Authorise(r, m) ==
  /\ pc[r] = "idle"
  /\ op[r] \in DOMAIN Gate
  /\ m.role \in Gate[op[r]]
  /\ who' = [who EXCEPT ![r] = m.user]
  /\ via' = [via EXCEPT ![r] = m]
  /\ Go(r, "authorised")
  /\ UNCHANGED <<op, accounts, password, mailRows, codes, windows, held, lapsed,
                 spent, knew, over, orgs, members, invitations, cited, subject,
                 prior>>

\* What an invitation of the form may ask for: the role fits the type, and a
\* transfer has an endpoint of its own, for the role of the caller.
Offers(r) ==
  IF op[r] = "transfer"
  THEN {<<"role_transfer", via[r].role>>}
  ELSE {<<"treasurer_invite", "treasurer">>, <<"auditor_invite", "auditor">>}

\* issue_invitation
Issue(r) ==
  /\ pc[r] = "authorised"
  /\ op[r] \in {"invite", "transfer"}
  /\ \E e \in Users, offer \in Offers(r) :
       invitations' = [invitations EXCEPT ![r] =
         [org |-> via[r].org, email |-> e, kind |-> offer[1], role |-> offer[2],
          status |-> "pending"]]
  /\ Ends(r, "done")
  /\ UNCHANGED <<requestVars, accounts, password, mailRows, codes, windows,
                 lapsed, spent, orgs, members, cited, subject, via, prior>>

\* revoke_invitation, decline_invitation: the invitation is loaded and pending
LoadAnswer(r, i, u) ==
  /\ Pending(i)
  /\ \/ /\ op[r] = "revoke" /\ pc[r] = "authorised"
        /\ via[r].org = invitations[i].org
        /\ u = who[r]
     \/ /\ op[r] = "decline" /\ pc[r] = "idle"
        /\ u \in accounts /\ u = invitations[i].email
  /\ who' = [who EXCEPT ![r] = u]
  /\ subject' = [subject EXCEPT ![r] = i]
  /\ Looks(r, <<"invitation", i>>)
  /\ Go(r, "answering")
  /\ UNCHANGED <<op, accounts, password, mailRows, codes, windows, held, lapsed,
                 spent, over, orgs, members, invitations, cited, via, prior>>

CommitAnswer(r) ==
  LET i == subject[r] IN
  /\ pc[r] = "answering"
  /\ SetStatus(i, IF op[r] = "revoke" THEN "revoked" ELSE "declined")
  /\ Spends(r, <<"invitation", i>>)
  /\ Ends(r, "done")
  /\ UNCHANGED <<requestVars, accounts, password, mailRows, codes, windows,
                 lapsed, orgs, members, cited, subject, via, prior>>

-----------------------------------------------------------------------------
(* accept_invitation by code or by id.                                      *)

\* Anybody logged in who has the code or the id gets as far as the expiry.
LoadInvitation(r, i, u) ==
  LET late == <<"invitation", i>> \in lapsed IN
  /\ op[r] = "accept" /\ pc[r] = "idle"
  /\ Pending(i)
  /\ u \in accounts
  /\ late \/ u = invitations[i].email
  /\ who' = [who EXCEPT ![r] = u]
  /\ subject' = [subject EXCEPT ![r] = i]
  /\ Looks(r, <<"invitation", i>>)
  /\ Go(r, IF late THEN "expiring" ELSE "invited")
  /\ UNCHANGED <<op, accounts, password, mailRows, codes, windows, held, lapsed,
                 spent, over, orgs, members, invitations, cited, via, prior>>

CommitExpiry(r) ==
  /\ pc[r] = "expiring"
  /\ SetStatus(subject[r], "expired")
  /\ Spends(r, <<"invitation", subject[r]>>)
  /\ Ends(r, "refused")
  /\ UNCHANGED <<requestVars, accounts, password, mailRows, codes, windows,
                 lapsed, orgs, members, cited, subject, via, prior>>

\* Duplicate membership guard
CheckSeat(r) ==
  /\ pc[r] = "invited"
  /\ Go(r, IF Taken(invitations[subject[r]], who[r]) THEN "refused"
           ELSE "checked")
  /\ UNCHANGED <<requestVars, accounts, password, mailRows, codes, windows,
                 held, lapsed, spent, orgs, members, invitations, cited,
                 subject, via, prior>>

\* Mutant of ReadHolders: one row is fetched instead of all.
ReadOneHolder(r) ==
  LET inv == invitations[subject[r]]
      holders == {m \in members : m.org = inv.org /\ m.role = inv.role}
  IN
  /\ pc[r] = "checked"
  /\ prior' = [prior EXCEPT ![r] =
       IF inv.kind # "role_transfer" \/ holders = {} THEN {}
       ELSE {CHOOSE m \in holders : TRUE}]
  /\ over' = [over EXCEPT ![r] = {m.by : m \in members}]
  /\ Go(r, "ready")
  /\ UNCHANGED <<op, who, knew, accounts, password, mailRows, codes, windows,
                 held, lapsed, spent, orgs, members, invitations, cited,
                 subject, via>>

\* A transfer removes whoever holds the role.
ReadHolders(r) ==
  LET inv == invitations[subject[r]] IN
  /\ pc[r] = "checked"
  /\ prior' = [prior EXCEPT ![r] =
       {m \in members :
          inv.kind = "role_transfer" /\ m.org = inv.org /\ m.role = inv.role}]
  /\ over' = [over EXCEPT ![r] = {m.by : m \in members}]
  /\ Go(r, "ready")
  /\ UNCHANGED <<op, who, knew, accounts, password, mailRows, codes, windows,
                 held, lapsed, spent, orgs, members, invitations, cited,
                 subject, via>>

\* The INSERT meets no row of the same organization, user and role, and no
\* comment refers to a row to be deleted.
MayCommitSeat(r) ==
  /\ ~Taken(invitations[subject[r]], who[r])
  /\ \A m \in prior[r] \cap members : m.by \notin cited

\* Mutant of CommitAccept: the holders are deleted by role, after the INSERT.
CommitAcceptSwapped(r) ==
  LET i == subject[r]
      inv == invitations[i]
      holds(m) == m.org = inv.org /\ m.role = inv.role
  IN
  /\ pc[r] = "ready"
  /\ MayCommitSeat(r)
  /\ members' = {m \in members \cup {SeatFor(r, inv, who[r])} :
                   ~(inv.kind = "role_transfer" /\ holds(m))}
  /\ SetStatus(i, "accepted")
  /\ Spends(r, <<"invitation", i>>)
  /\ Ends(r, "done")
  /\ UNCHANGED <<requestVars, accounts, password, mailRows, codes, windows,
                 lapsed, orgs, cited, subject, via, prior>>

\* Mutant of CommitAccept: the invitation is not marked.
CommitAcceptUnmarked(r) ==
  LET i == subject[r] IN
  /\ pc[r] = "ready"
  /\ MayCommitSeat(r)
  /\ members' = (members \ prior[r]) \cup {SeatFor(r, invitations[i], who[r])}
  /\ Spends(r, <<"invitation", i>>)
  /\ Ends(r, "done")
  /\ UNCHANGED <<requestVars, accounts, password, mailRows, codes, windows,
                 lapsed, orgs, invitations, cited, subject, via, prior>>

\* One commit deletes the holders found, those still there, inserts the new
\* one and marks the invitation, whatever has become of it.
CommitAccept(r) ==
  LET i == subject[r] IN
  /\ pc[r] = "ready"
  /\ MayCommitSeat(r)
  /\ members' = (members \ prior[r]) \cup {SeatFor(r, invitations[i], who[r])}
  /\ SetStatus(i, "accepted")
  /\ Spends(r, <<"invitation", i>>)
  /\ Ends(r, "done")
  /\ UNCHANGED <<requestVars, accounts, password, mailRows, codes, windows,
                 lapsed, orgs, cited, subject, via, prior>>

CommitAcceptFails(r) ==
  /\ pc[r] = "ready"
  /\ ~MayCommitSeat(r)
  /\ Ends(r, "failed")
  /\ UNCHANGED <<requestVars, accounts, password, mailRows, codes, windows,
                 lapsed, spent, seatVars>>

-----------------------------------------------------------------------------
(* sign_up, once the verified window is consumed.                           *)

\* The code of the payload, if any, must be that of a pending invitation of
\* the same email.  Its expiry is not looked at.
LoadCode(r, i) ==
  /\ pc[r] = "admitted"
  /\ i # NULL => Pending(i) /\ invitations[i].email = who[r]
  /\ subject' = [subject EXCEPT ![r] = i]
  /\ IF i = NULL THEN UNCHANGED knew ELSE Looks(r, <<"invitation", i>>)
  /\ Go(r, "enrolling")
  /\ UNCHANGED <<op, who, accounts, password, mailRows, codes, windows, held,
                 lapsed, spent, over, orgs, members, invitations, cited, via,
                 prior>>

\* The flush of the user fails if the email was taken meanwhile.  The holders
\* of a transferred role are not removed here.
Enroll(r) ==
  LET i == subject[r]
      u == who[r]
  IN
  /\ pc[r] = "enrolling"
  /\ u \notin accounts
  /\ accounts' = accounts \cup {u}
  /\ password' = [password EXCEPT ![u] = r]
  /\ IF i = NULL
     THEN UNCHANGED <<members, invitations, spent>>
     ELSE /\ members' = members \cup {SeatFor(r, invitations[i], u)}
          /\ SetStatus(i, "accepted")
          /\ Spends(r, <<"invitation", i>>)
  /\ Ends(r, "done")
  /\ UNCHANGED <<requestVars, mailRows, codes, windows, lapsed, orgs, cited,
                 subject, via, prior>>

\* A comment is written under a membership (services/audit_comment.py).
Comment(m) ==
  /\ m.by \notin cited
  /\ cited' = cited \cup {m.by}
  /\ UNCHANGED <<mailVars, orgs, members, invitations, subject, via, prior>>

InviteStep(r) ==
  \/ \E m \in members : Authorise(r, m)
  \/ Issue(r)
  \/ \E i \in Stamp, u \in Users : LoadAnswer(r, i, u) \/ LoadInvitation(r, i, u)
  \/ CommitAnswer(r)
  \/ CommitExpiry(r)
  \/ CheckSeat(r)
  \/ ReadHolders(r)
  \/ CommitAccept(r)
  \/ CommitAcceptFails(r)
  \/ \E i \in Stamp \cup {NULL} : LoadCode(r, i)
  \/ Enroll(r)
=============================================================================
