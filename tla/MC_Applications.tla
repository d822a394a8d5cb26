-------------------------- MODULE MC_Applications --------------------------
(***************************************************************************)
(* Instances of Applications.  Three requests, either about a mailbox and  *)
(* a first account, or about an organization ann presides, with            *)
(* invitations from before, or about an application.                       *)
(***************************************************************************)
EXTENDS Applications, Integers, FiniteSets, TLC

CONSTANTS p1, p2, ann, bob, cat

Nothing ==
  [accounts |-> {}, mailRows |-> {},
   codes |-> [u \in Users |-> NULL], windows |-> [u \in Users |-> NULL],
   orgs |-> {}, members |-> {},
   invitations |-> [i \in Stamp |-> NULL], applications |-> [a \in Stamp |-> NULL]]

\* bob's mailbox: unknown, a code sent with or without account, a window open.
MailWorlds ==
  {Nothing,
   [Nothing EXCEPT !.mailRows = {bob}, !.codes[bob] = p1],
   [Nothing EXCEPT !.mailRows = {bob}, !.codes[bob] = p1, !.accounts = {bob}],
   [Nothing EXCEPT !.mailRows = {bob}, !.windows[bob] = p1]}

Offer(u, k, role) ==
  [org |-> p1, email |-> u, kind |-> k, role |-> role, status |-> "pending"]

Led == [Nothing EXCEPT !.accounts = {ann, bob}, !.orgs = {p1},
          !.members = {[org |-> p1, user |-> ann, role |-> "president", by |-> p1]}]

\* ann presides; bob and cat have been offered her seat, or bob another one.
SeatWorlds ==
  {[Led EXCEPT !.invitations[p1] = Offer(bob, "role_transfer", "president"),
               !.invitations[p2] = second,
               !.mailRows = {cat}, !.windows[cat] = p1] :
     second \in {Offer(cat, "role_transfer", "president"),
                 Offer(bob, "auditor_invite", "auditor")}}
  \cup {[Led EXCEPT !.accounts = {ann, bob, cat},
                    !.invitations[p1] = Offer(bob, "role_transfer", "president"),
                    !.invitations[p2] = Offer(cat, "role_transfer", "president")]}

DeskWorlds ==
  {[Nothing EXCEPT !.accounts = {ann, bob}, !.applications[p1] = filed] :
     filed \in {NULL, [applicant |-> bob, status |-> "pending", org |-> NULL],
                [applicant |-> bob, status |-> "rejected", org |-> NULL]}}

Asked(worlds, plans) == {[plan |-> p] @@ w : w \in worlds, p \in plans}

Count(p, ops) == Cardinality({r \in Requests : p[r] \in ops})

\* Two requests of a kind are enough for each to meet its like and another.
MailPlans ==
  {p \in [Requests -> MailOps] :
     \A ops \in {{"send", "forgot"}, {"verify", "reset"}, {"signup"}} :
       Count(p, ops) <= 2}

\* At most one request of an official: two of them add nothing but invitations
\* nobody is left to answer; and one refusal, which can meet either of the
\* invitations.
SeatPlans ==
  {p \in [Requests -> InviteOps \cup {"signup"}] :
     Count(p, DOMAIN Gate) <= 1 /\ Count(p, {"decline"}) <= 1}

MCWorlds ==
  Asked(MailWorlds, MailPlans)
    \cup Asked(SeatWorlds, SeatPlans)
    \cup Asked(DeskWorlds, [Requests -> DeskOps])

RequestSymmetry == Permutations(Requests)
=============================================================================
