------------------------- MODULE EmailVerification -------------------------
(***************************************************************************)
(* Codes sent to a mailbox, the verified window a code opens, and what is  *)
(* bought with them: an account (sign_up) or a new password                *)
(* (reset_password).  api/v1/endpoints/auth.py over                        *)
(* services/email_verification_store.py.                                   *)
(*                                                                         *)
(* The table email_verifications has one row per email.  Its operations    *)
(* load the row, decide on the loaded copy and commit the columns that     *)
(* differ from it, so that a commit may hit a row others have changed.     *)
(*                                                                         *)
(* A code, a window and a password are named after the request that made   *)
(* them; two codes drawn at random are taken to differ.  A user is his     *)
(* email, which is unique.  `codes` stands for the columns code and        *)
(* code_expires_at, always written together.                               *)
(*                                                                         *)
(* A request that is refused before it has changed anything, and one whose *)
(* process dies, is a request that takes no further step: nothing obliges  *)
(* it to.                                                                  *)
(***************************************************************************)
CONSTANTS
  Requests,  \* the requests clients send; each is handled once
  Past,      \* what was done before is named after these
  Users,     \* emails of the university
  NULL       \* SQL NULL

MailOps == {"send", "forgot", "verify", "reset", "signup"}

InviteOps == {"invite", "transfer", "revoke", "accept", "decline"}

DeskOps == {"apply", "approve", "reject", "found"}

AllOps == MailOps \cup InviteOps \cup DeskOps

Stamp == Requests \cup Past

\* What is good for one use: a code, a window, an invitation, an application.
Token == {"code", "window", "invitation", "application"} \X Stamp

ASSUME MailAssumption ==
  /\ Past \cap Requests = {}
  /\ NULL \notin Stamp \cup Users

VARIABLES
  op,        \* request -> what it is for
  who,       \* request -> the email of the payload or of the caller
  pc,        \* request -> where its handler stands
  accounts,  \* the emails with an account
  password,  \* account -> the request that set its password
  mailRows,  \* the emails with a row in email_verifications
  codes,     \* email -> the code on record, or NULL
  windows,   \* email -> verified_until, or NULL
  held,      \* request -> the row it loaded
  lapsed,    \* the tokens whose time is over
  spent,     \* request -> the tokens it has spent (history)
  knew,      \* request -> <<t, q>>: q had spent t when it loaded t (history)
  over       \* request -> those that had acted when it looked (history)

requestVars == <<op, who, knew, over>>
mailVars ==
  <<op, who, pc, accounts, password, mailRows, codes, windows, held, lapsed,
    spent, knew, over>>

NoCopy == [row |-> FALSE, code |-> NULL, window |-> NULL]

MailPhase ==
  {"idle", "asked", "loaded", "issued", "bounced", "revoking", "matched",
   "verified", "changing", "consuming", "spending", "admitted", "done",
   "refused", "failed"}

MailTypeOK ==
  /\ op \in [Requests -> AllOps]
  /\ who \in [Requests -> Users \cup {NULL}]
  /\ accounts \subseteq Users
  /\ password \in [Users -> Stamp \cup {NULL}]
  /\ mailRows \subseteq Users
  /\ codes \in [Users -> Stamp \cup {NULL}]
  /\ windows \in [Users -> Stamp \cup {NULL}]
  /\ held \in [Requests ->
       [row : BOOLEAN, code : Stamp \cup {NULL}, window : Stamp \cup {NULL}]]
  /\ lapsed \subseteq Token
  /\ spent \in [Requests -> SUBSET Token]
  /\ knew \in [Requests -> SUBSET (Token \X Requests)]
  /\ over \in [Requests -> SUBSET Stamp]
  /\ \A u \in Users : codes[u] # NULL \/ windows[u] # NULL => u \in mailRows

-----------------------------------------------------------------------------
(* History.                                                                 *)

Spenders(t) == {q \in Requests : t \in spent[q]}

Acted == Past \cup {q \in Requests : spent[q] # {}}

\* r decides on the token t.
Looks(r, t) == knew' = [knew EXCEPT ![r] = @ \cup ({t} \X Spenders(t))]

Spends(r, t) == spent' = [spent EXCEPT ![r] = @ \cup {t}]

-----------------------------------------------------------------------------
(* The handlers.                                                            *)

Go(r, phase) == pc' = [pc EXCEPT ![r] = phase]

\* The copy of a row is dropped with the session.
Ends(r, phase) ==
  /\ Go(r, phase)
  /\ held' = [held EXCEPT ![r] = NoCopy]

Copy(u) == [row |-> u \in mailRows, code |-> codes[u], window |-> windows[u]]

\* The checks that come before the row is touched: sign-up needs a free email,
\* a reset starts with the code.  forgot_password answers a stranger without
\* doing anything.
Ask(r, u) ==
  /\ pc[r] = "idle"
  /\ op[r] \in MailOps
  /\ op[r] \in {"send", "verify", "signup"} => u \notin accounts
  /\ op[r] = "forgot" => u \in accounts
  /\ who' = [who EXCEPT ![r] = u]
  /\ Go(r, "asked")
  /\ UNCHANGED <<op, accounts, password, mailRows, codes, windows, held, lapsed,
                 spent, knew, over>>

\* issue_code: the SELECT
LoadForIssue(r) ==
  /\ pc[r] = "asked"
  /\ op[r] \in {"send", "forgot"}
  /\ held' = [held EXCEPT ![r] = Copy(who[r])]
  /\ over' = [over EXCEPT ![r] = Acted]
  /\ Go(r, "loaded")
  /\ UNCHANGED <<op, who, accounts, password, mailRows, codes, windows, lapsed,
                 spent, knew>>

\* Mutant of CommitCode: the new row is not added to the session.
CommitCodeNoRow(r) ==
  LET u == who[r] IN
  /\ pc[r] = "loaded"
  /\ held[r].row \/ u \notin mailRows
  /\ codes' = [codes EXCEPT ![u] = r]
  /\ windows' = [windows EXCEPT ![u] = IF held[r].window # NULL THEN NULL ELSE @]
  /\ Ends(r, "issued")
  /\ UNCHANGED <<requestVars, accounts, password, mailRows, lapsed, spent>>

\* The fresh code replaces whatever code there is; the verified flag is
\* cleared if the copy shows one.
CommitCode(r) ==
  LET u == who[r] IN
  /\ pc[r] = "loaded"
  /\ held[r].row \/ u \notin mailRows
  /\ mailRows' = mailRows \cup {u}
  /\ codes' = [codes EXCEPT ![u] = r]
  /\ windows' = [windows EXCEPT ![u] = IF held[r].window # NULL THEN NULL ELSE @]
  /\ Ends(r, "issued")
  /\ UNCHANGED <<requestVars, accounts, password, lapsed, spent>>

\* Two requests insert the first row of an email: the second is refused.
CommitCodeFails(r) ==
  /\ pc[r] = "loaded"
  /\ ~held[r].row /\ who[r] \in mailRows
  /\ Ends(r, "failed")
  /\ UNCHANGED <<requestVars, accounts, password, mailRows, codes, windows,
                 lapsed, spent>>

\* send_verification_email returns or raises EmailDeliveryError.
Mail(r) ==
  /\ pc[r] = "issued"
  /\ \E phase \in {"done", "bounced"} : Go(r, phase)
  /\ UNCHANGED <<requestVars, accounts, password, mailRows, codes, windows,
                 held, lapsed, spent>>

\* revoke_code: the SELECT; nothing to do without a code
LoadForRevoke(r) ==
  /\ pc[r] = "bounced"
  /\ Go(r, IF codes[who[r]] = NULL THEN "failed" ELSE "revoking")
  /\ UNCHANGED <<requestVars, accounts, password, mailRows, codes, windows,
                 held, lapsed, spent>>

\* It clears the code of the row, whoever issued it.
CommitRevoke(r) ==
  /\ pc[r] = "revoking"
  /\ codes' = [codes EXCEPT ![who[r]] = NULL]
  /\ Ends(r, "failed")
  /\ UNCHANGED <<requestVars, accounts, password, mailRows, windows, lapsed,
                 spent>>

-----------------------------------------------------------------------------

\* Mutant of LoadForVerify: the code of the payload is not compared.
LoadForVerifyAny(r, c) ==
  LET u == who[r] IN
  /\ pc[r] = "asked"
  /\ op[r] \in {"verify", "reset"}
  /\ codes[u] # NULL
  /\ held' = [held EXCEPT ![r] = [Copy(u) EXCEPT !.code = c]]
  /\ Looks(r, <<"code", c>>)
  /\ Go(r, "matched")
  /\ UNCHANGED <<op, who, accounts, password, mailRows, codes, windows, lapsed,
                 spent, over>>

\* verify_code: the SELECT finds the code of the payload, in time
LoadForVerify(r, c) ==
  LET u == who[r] IN
  /\ pc[r] = "asked"
  /\ op[r] \in {"verify", "reset"}
  /\ codes[u] = c
  /\ <<"code", c>> \notin lapsed
  /\ held' = [held EXCEPT ![r] = Copy(u)]
  /\ Looks(r, <<"code", c>>)
  /\ Go(r, "matched")
  /\ UNCHANGED <<op, who, accounts, password, mailRows, codes, windows, lapsed,
                 spent, over>>

\* It consumes the code of the row, which may be a newer one by now.
CommitVerify(r) ==
  LET u == who[r] IN
  /\ pc[r] = "matched"
  /\ codes' = [codes EXCEPT ![u] = NULL]
  /\ windows' = [windows EXCEPT ![u] = r]
  /\ Spends(r, <<"code", held[r].code>>)
  /\ Ends(r, IF op[r] = "reset" THEN "verified" ELSE "done")
  /\ UNCHANGED <<requestVars, accounts, password, mailRows, lapsed>>

\* reset_password: an unknown account or the password it has already ends the
\* request with the window open.
CheckReset(r) ==
  /\ pc[r] = "verified"
  /\ \/ Go(r, "refused")
     \/ who[r] \in accounts /\ Go(r, "changing")
  /\ UNCHANGED <<requestVars, accounts, password, mailRows, codes, windows,
                 held, lapsed, spent>>

CommitPassword(r) ==
  /\ pc[r] = "changing"
  /\ password' = [password EXCEPT ![who[r]] = r]
  /\ Go(r, "consuming")
  /\ UNCHANGED <<requestVars, accounts, mailRows, codes, windows, held, lapsed,
                 spent>>

\* consume_verified: the SELECT.  Sign-up is refused without an open window, a
\* reset has nothing left to do.
LoadWindow(r) ==
  LET v == windows[who[r]]
      open == v # NULL /\ <<"window", v>> \notin lapsed
  IN
  /\ \/ op[r] = "signup" /\ pc[r] = "asked"
     \/ op[r] = "reset" /\ pc[r] = "consuming"
  /\ IF open
     THEN /\ held' = [held EXCEPT ![r] = Copy(who[r])]
          /\ Looks(r, <<"window", v>>)
          /\ Go(r, "spending")
     ELSE /\ Ends(r, IF op[r] = "reset" THEN "done" ELSE "refused")
          /\ UNCHANGED knew
  /\ UNCHANGED <<op, who, accounts, password, mailRows, codes, windows, lapsed,
                 spent, over>>

CommitWindow(r) ==
  LET u == who[r] IN
  /\ pc[r] = "spending"
  /\ windows' = [windows EXCEPT ![u] = NULL]
  /\ Spends(r, <<"window", held[r].window>>)
  /\ Ends(r, IF op[r] = "reset" THEN "done" ELSE "admitted")
  /\ UNCHANGED <<requestVars, accounts, password, mailRows, codes, lapsed>>

-----------------------------------------------------------------------------

MailStep(r) ==
  \/ LoadForIssue(r)
  \/ CommitCode(r)
  \/ CommitCodeFails(r)
  \/ Mail(r)
  \/ LoadForRevoke(r)
  \/ CommitRevoke(r)
  \/ \E c \in Stamp : LoadForVerify(r, c)
  \/ CommitVerify(r)
  \/ CheckReset(r)
  \/ CommitPassword(r)
  \/ LoadWindow(r)
  \/ CommitWindow(r)

\* Time passes: the expiry of a token is a comparison made when it is read.
Lapse(t) ==
  /\ t \notin lapsed
  /\ lapsed' = lapsed \cup {t}
  /\ UNCHANGED <<requestVars, pc, accounts, password, mailRows, codes, windows,
                 held, spent>>
=============================================================================
