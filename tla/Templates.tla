----------------------------- MODULE Templates -----------------------------
(***************************************************************************)
(* The settlement templates of one organization: the requests that upload  *)
(* one, which is to replace the active one, and those that change one by   *)
(* hand (services/settlement_template.py).                                 *)
(*                                                                         *)
(* An upload inserts its row, finds the active templates that are          *)
(* committed by then, and commits its row together with their              *)
(* deactivation.  Uploads do not see each other's uncommitted rows.        *)
(* Templates are never deleted, nor are their files.                       *)
(***************************************************************************)
CONSTANTS
  Requests,  \* the requests clients send; each is handled once
  Plans,     \* what each request may be for: request -> operation
  Old,       \* a template from before; the others are named after their upload
  NULL       \* SQL NULL

TemplateOps == {"upload", "patch"}

AllOps == TemplateOps \cup {"generate", "download"}

ASSUME TemplatesAssumption ==
  /\ Plans \subseteq [Requests -> AllOps]
  /\ Old \notin Requests
  /\ NULL \notin Requests \cup {Old}

VARIABLES
  op,        \* request -> what it is for
  templates, \* the committed templates
  active,    \* those with is_active
  older,     \* template -> those inserted before it: the order of created_at
  found,     \* request -> the active templates it loaded
  subject,   \* patch -> the template it is about
  tpc,       \* request -> where its handler stands
  known,     \* upload -> the templates committed when it looked (history)
  byHand     \* the templates a client switched on or off (history)

templateVars ==
  <<op, templates, active, older, found, subject, tpc, known, byHand>>

Template == Requests \cup {Old}

TemplatesTypeOK ==
  /\ op \in [Requests -> AllOps]
  /\ templates \subseteq Template
  /\ active \subseteq templates
  /\ older \in [Template -> SUBSET Template]
  /\ found \in [Requests -> SUBSET Template]
  /\ subject \in [Requests -> Template \cup {NULL}]
  /\ tpc \in [Requests -> {"idle", "inserted", "looked", "loaded", "done", "failed"}]
  /\ known \in [Requests -> SUBSET Template]
  /\ byHand \subseteq Template
  /\ \A r \in Requests : tpc[r] = "loaded" => subject[r] \in templates

TemplatesInit ==
  /\ op \in Plans
  /\ templates \in {{}, {Old}}
  /\ active \in SUBSET templates
  /\ older = [t \in Template |-> {}]
  /\ found = [r \in Requests |-> {}]
  /\ subject = [r \in Requests |-> NULL]
  /\ tpc = [r \in Requests |-> "idle"]
  /\ known = [r \in Requests |-> {}]
  /\ byHand = templates \ active

-----------------------------------------------------------------------------

\* The one with the latest created_at, if any.
Newest(S) ==
  {t \in S : S \subseteq older[t] \cup {t}}

\* get_active_org_template
ActiveTemplate == Newest(active)

\* The handler is over and forgets what it had loaded.
EndTemplate(r, phase) ==
  /\ tpc' = [tpc EXCEPT ![r] = phase]
  /\ found' = [found EXCEPT ![r] = {}]
  /\ subject' = [subject EXCEPT ![r] = NULL]

\* The file is saved and the row inserted, not committed.
InsertTemplate(r) ==
  /\ tpc[r] = "idle"
  /\ op[r] = "upload"
  /\ older' = [older EXCEPT ![r] =
       templates \cup {q \in Requests : tpc[q] \in {"inserted", "looked"}}]
  /\ tpc' = [tpc EXCEPT ![r] = "inserted"]
  /\ UNCHANGED <<op, templates, active, found, subject, known, byHand>>

\* deactivate_org_templates: the SELECT
FindActive(r) ==
  /\ tpc[r] = "inserted"
  /\ found' = [found EXCEPT ![r] = active]
  /\ known' = [known EXCEPT ![r] = templates]
  /\ tpc' = [tpc EXCEPT ![r] = "looked"]
  /\ UNCHANGED <<op, templates, active, older, subject, byHand>>

\* Mutant of CommitTemplate: only the newest active template is switched off.
CommitTemplateOverNewest(r) ==
  /\ tpc[r] = "looked"
  /\ templates' = templates \cup {r}
  /\ active' = (active \ Newest(found[r])) \cup {r}
  /\ EndTemplate(r, "done")
  /\ UNCHANGED <<op, older, known, byHand>>

\* One commit inserts the new template and switches off those found.
CommitTemplate(r) ==
  /\ tpc[r] = "looked"
  /\ templates' = templates \cup {r}
  /\ active' = (active \ found[r]) \cup {r}
  /\ EndTemplate(r, "done")
  /\ UNCHANGED <<op, older, known, byHand>>

\* PATCH and DELETE load the template first.
LoadTemplate(r, t) ==
  /\ tpc[r] = "idle"
  /\ op[r] = "patch"
  /\ t \in templates
  /\ subject' = [subject EXCEPT ![r] = t]
  /\ found' = [found EXCEPT ![r] = active \cap {t}]
  /\ tpc' = [tpc EXCEPT ![r] = "loaded"]
  /\ UNCHANGED <<op, templates, active, older, known, byHand>>

\* Mutant of PatchTemplate: DELETE deletes the row.
DeleteTemplate(r) ==
  LET t == subject[r] IN
  /\ tpc[r] = "loaded"
  /\ templates' = templates \ {t}
  /\ active' = active \ {t}
  /\ byHand' = byHand \cup {t}
  /\ EndTemplate(r, "done")
  /\ UNCHANGED <<op, older, known>>

\* Mutant of PatchTemplate: is_active is written back as it was loaded.
PatchWholeTemplate(r) ==
  LET t == subject[r] IN
  /\ tpc[r] = "loaded"
  /\ \/ /\ active' = (active \ {t}) \cup found[r]
        /\ UNCHANGED byHand
     \/ /\ active' = IF t \in found[r] THEN active \ {t} ELSE active \cup {t}
        /\ byHand' = byHand \cup {t}
  /\ EndTemplate(r, "done")
  /\ UNCHANGED <<op, templates, older, known>>

\* update_template: is_active is written if it is to differ from what was
\* loaded; name and mapping are left out.
PatchTemplate(r) ==
  LET t == subject[r] IN
  /\ tpc[r] = "loaded"
  /\ \/ UNCHANGED <<active, byHand>>
     \/ /\ active' = IF t \in found[r] THEN active \ {t} ELSE active \cup {t}
        /\ byHand' = byHand \cup {t}
  /\ EndTemplate(r, "done")
  /\ UNCHANGED <<op, templates, older, known>>

FailTemplate(r) ==
  /\ tpc[r] \in {"inserted", "looked", "loaded"}
  /\ EndTemplate(r, "failed")
  /\ UNCHANGED <<op, templates, active, older, known, byHand>>

TemplateStep(r) ==
  \/ InsertTemplate(r)
  \/ FindActive(r)
  \/ CommitTemplate(r)
  \/ \E t \in templates : LoadTemplate(r, t)
  \/ PatchTemplate(r)
  \/ FailTemplate(r)

TemplatesNext == \E r \in Requests : TemplateStep(r)

TemplatesSpec == TemplatesInit /\ [][TemplatesNext]_templateVars

-----------------------------------------------------------------------------

\* However uploads interleave, once there is a template there is an active one,
\* unless a client switched templates by hand.
SomeTemplateActive == templates # {} /\ byHand = {} => active # {}

\* Two templates are active only if neither of the uploads could see the other,
\* or a client switched one of them on.
RivalsOverlapped ==
  \A t \in active \ byHand, u \in (active \ byHand) \cap Requests :
    t # u => t \notin known[u]

\* A template that an upload switched off is not switched on again by a patch
\* of something else that was under way: only by one that found it off.
RetiredStaysRetired ==
  [][\A t \in (templates \ active) \cap active' :
       \E r \in Requests : tpc[r] = "loaded" /\ subject[r] = t /\ t \notin found[r]
     ]_templateVars

=============================================================================
