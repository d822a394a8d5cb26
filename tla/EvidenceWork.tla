---------------------------- MODULE EvidenceWork ----------------------------
(***************************************************************************)
(* The evidences of one settlement, the files behind them, and the HTTP    *)
(* requests that upload, extract, review and remove them while the         *)
(* settlement moves on (api/v1/endpoints/evidences.py,                     *)
(* services/evidence.py, services/file_storage.py).                        *)
(*                                                                         *)
(* A request loads the evidence, then the settlement, whose status must    *)
(* allow changes; what follows may take seconds (an extraction runs in a   *)
(* worker thread) and is not protected against anything the other requests *)
(* or the settlement do meanwhile.  The settlement itself moves as         *)
(* SettlementFlow says.                                                    *)
(*                                                                         *)
(* An evidence is named after the request that uploads it.  The value of a *)
(* column is the request that wrote it, or NULL; of the status column,     *)
(* whose values mean something, `marked` has the writer.                   *)
(***************************************************************************)

CONSTANTS
  Requests,   \* the requests clients send; each is handled once
  Ops,        \* the operations these clients call
  Verdicts,   \* the statuses a PATCH asks for
  NULL        \* SQL NULL; no row

AllOps == {"upload", "extract", "review", "remove"}

\* EvidenceStatus (models/enums.py)
EvidenceStatus ==
  {"uploaded", "extracting", "needs_review", "confirmed", "failed"}

\* "amount" stands for everything read off the document: date, merchant,
\* amount, payment method, refund flag, type, method and payload.
Evidence ==
  [status : EvidenceStatus, amount : Requests \cup {NULL},
   category : Requests \cup {NULL}]

ASSUME EvidenceAssumption ==
  /\ NULL \notin Requests \cup AllOps \cup Evidence
  /\ Ops \subseteq AllOps
  /\ Verdicts \subseteq EvidenceStatus

VARIABLES
  status, submitted, audited, published,  \* the settlement: see SettlementFlow
  evidence,  \* request that uploaded it -> its committed row, or NULL
  files,     \* evidences whose document is on disk
  op,        \* request -> the operation it asks for (NULL before it starts)
  target,    \* request -> the evidence it is about
  seen,      \* request -> its session's copy of that evidence's row
  pc,        \* request -> where its handler stands
  marked,    \* evidence -> the request that last changed its status (history)
  knew       \* request -> the requests over when it loaded its row (history)

flowVars == <<status, submitted, audited, published>>
requestVars == <<op, target, knew>>
rowVars == <<evidence, marked>>
vars == <<flowVars, rowVars, files, requestVars, seen, pc>>

Flow == INSTANCE SettlementFlow

Phase ==
  {"idle", "loaded", "checked", "saved", "extracting", "deleted", "done",
   "failed"}

TypeOK ==
  /\ evidence \in [Requests -> Evidence \cup {NULL}]
  /\ files \subseteq Requests
  /\ op \in [Requests -> AllOps \cup {NULL}]
  /\ target \in [Requests -> Requests]
  /\ seen \in [Requests -> Evidence \cup {NULL}]
  /\ pc \in [Requests -> Phase]
  /\ marked \in [Requests -> Requests]
  /\ knew \in [Requests -> SUBSET Requests]
  /\ \A r \in Requests :
       /\ pc[r] # "idle" <=> op[r] # NULL
       /\ op[r] = "upload" => target[r] = r
       /\ op[r] \in AllOps \ {"upload"} => seen[r] # NULL
       /\ pc[r] = "saved" => op[r] = "upload"
       /\ pc[r] = "extracting" => op[r] = "extract"
       /\ pc[r] = "deleted" => op[r] = "remove"

\* _EVIDENCE_MUTABLE_STATUSES (services/settlement.py)
Mutable == {"draft", "rejected"}

Init ==
  /\ Flow!Init
  /\ evidence = [r \in Requests |-> NULL]
  /\ files = {}
  /\ op = [r \in Requests |-> NULL]
  /\ target = [r \in Requests |-> r]
  /\ seen = [r \in Requests |-> NULL]
  /\ pc = [r \in Requests |-> "idle"]
  /\ marked = [e \in Requests |-> e]
  /\ knew = [r \in Requests |-> {}]

-----------------------------------------------------------------------------

\* A request about an evidence finds its row and passes the role check; an
\* upload has no row to find.
Load(r, o, e) ==
  /\ pc[r] = "idle"
  /\ IF o = "upload" THEN e = r ELSE evidence[e] # NULL
  /\ op' = [op EXCEPT ![r] = o]
  /\ target' = [target EXCEPT ![r] = e]
  /\ seen' = [seen EXCEPT ![r] = evidence[e]]
  /\ knew' = [knew EXCEPT ![r] = {q \in Requests : pc[q] = "done"}]
  /\ pc' = [pc EXCEPT ![r] = "loaded"]
  /\ UNCHANGED <<flowVars, rowVars, files>>

\* The settlement is loaded and must allow evidences to change (else 409).
Check(r) ==
  /\ pc[r] = "loaded"
  /\ pc' = [pc EXCEPT ![r] = IF status \in Mutable THEN "checked" ELSE "done"]
  /\ UNCHANGED <<flowVars, rowVars, files, requestVars, seen>>

\* The document is written to disk under a fresh name.
SaveFile(r) ==
  /\ pc[r] = "checked"
  /\ op[r] = "upload"
  /\ files' = files \cup {r}
  /\ pc' = [pc EXCEPT ![r] = "saved"]
  /\ UNCHANGED <<flowVars, rowVars, requestVars, seen>>

\* The form may carry a category.
Insert(r) ==
  /\ pc[r] = "saved"
  /\ \E category \in {r, NULL} :
       evidence' = [evidence EXCEPT ![r] =
         [status |-> "uploaded", amount |-> NULL, category |-> category]]
  /\ pc' = [pc EXCEPT ![r] = "done"]
  /\ UNCHANGED <<flowVars, files, requestVars, seen, marked>>

\* Mutant of Update: the flush writes the row back when it is gone.
UpdateOrInsert(r, new, phase) ==
  LET e == target[r] IN
  /\ evidence' = [evidence EXCEPT ![e] = new]
  /\ pc' = [pc EXCEPT ![r] = phase]
  /\ seen' = [seen EXCEPT ![r] = new]
  /\ UNCHANGED <<flowVars, files, requestVars, marked>>

\* The session of r commits its copy as new.  Columns equal to the loaded
\* ones are not written; an UPDATE that finds no row raises.
Update(r, new, phase) ==
  LET e == target[r]
      flushed == [c \in {"status", "amount", "category"} |->
                    IF new[c] # seen[r][c] THEN new[c] ELSE evidence[e][c]]
  IN
  /\ \/ /\ evidence[e] # NULL
        /\ evidence' = [evidence EXCEPT ![e] = flushed]
        /\ marked' =
             IF new.status # seen[r].status THEN [marked EXCEPT ![e] = r] ELSE marked
        /\ pc' = [pc EXCEPT ![r] = phase]
        /\ seen' = [seen EXCEPT ![r] = new]
     \/ /\ evidence[e] = NULL
        /\ pc' = [pc EXCEPT ![r] = IF new = seen[r] THEN phase ELSE "failed"]
        /\ UNCHANGED <<rowVars, seen>>
  /\ UNCHANGED <<flowVars, files, requestVars>>

\* Mutant of StartExtraction: it waits for a running extraction of the row.
StartExtractionInTurn(r) ==
  /\ pc[r] = "checked"
  /\ op[r] = "extract"
  /\ evidence[target[r]] # NULL => evidence[target[r]].status # "extracting"
  /\ Update(r, [seen[r] EXCEPT !.status = "extracting"], "extracting")

\* The row says EXTRACTING before the worker thread starts.
StartExtraction(r) ==
  /\ pc[r] = "checked"
  /\ op[r] = "extract"
  /\ Update(r, [seen[r] EXCEPT !.status = "extracting"], "extracting")

\* Mutant of FinishExtraction: the inferred category is always taken.
FinishExtractionAnyway(r) ==
  /\ pc[r] = "extracting"
  /\ \E amount \in {r, seen[r].amount}, category \in {seen[r].category, r} :
       Update(r, [status |-> "needs_review", amount |-> amount,
                  category |-> category], "done")

\* The result is written over the row, the inferred category (if any) only
\* where the session's copy has none.
FinishExtraction(r) ==
  /\ pc[r] = "extracting"
  /\ \E amount \in {r, seen[r].amount},
        category \in {seen[r].category}
                      \cup IF seen[r].category = NULL THEN {r} ELSE {} :
       Update(r, [status |-> "needs_review", amount |-> amount,
                  category |-> category], "done")

\* Mutant of FailExtraction: the error is returned, the row is left alone.
FailExtractionQuietly(r) ==
  /\ pc[r] = "extracting"
  /\ pc' = [pc EXCEPT ![r] = "done"]
  /\ UNCHANGED <<flowVars, rowVars, files, requestVars, seen>>

\* Mutant of FailExtraction: a status the enum does not have.
FailExtractionAsError(r) ==
  /\ pc[r] = "extracting"
  /\ Update(r, [seen[r] EXCEPT !.status = "error"], "done")

FailExtraction(r) ==
  /\ pc[r] = "extracting"
  /\ Update(r, [seen[r] EXCEPT !.status = "failed"], "done")

\* PATCH: any selection of columns gets the reviewer's values; no status is
\* refused, EXTRACTING neither.
Review(r) ==
  /\ pc[r] = "checked"
  /\ op[r] = "review"
  /\ \E amount \in {r, seen[r].amount}, category \in {r, seen[r].category, NULL},
        verdict \in Verdicts \cup {seen[r].status} :
       Update(r, [status |-> verdict, amount |-> amount,
                  category |-> category], "done")

\* Mutant of Remove: the document goes first.
RemoveFileFirst(r) ==
  /\ pc[r] = "checked"
  /\ op[r] = "remove"
  /\ files' = files \ {target[r]}
  /\ pc' = [pc EXCEPT ![r] = "deleted"]
  /\ UNCHANGED <<flowVars, rowVars, requestVars, seen>>

\* The row goes first; deleting a row that is gone is not an error.
Remove(r) ==
  /\ pc[r] = "checked"
  /\ op[r] = "remove"
  /\ evidence' = [evidence EXCEPT ![target[r]] = NULL]
  /\ pc' = [pc EXCEPT ![r] = "deleted"]
  /\ UNCHANGED <<flowVars, files, requestVars, seen, marked>>

\* Mutant of Unlink: the document is forgotten.
UnlinkNothing(r) ==
  /\ pc[r] = "deleted"
  /\ pc' = [pc EXCEPT ![r] = "done"]
  /\ UNCHANGED <<flowVars, rowVars, files, requestVars, seen>>

\* unlink(missing_ok=True), once the deletion is committed
Unlink(r) ==
  /\ pc[r] = "deleted"
  /\ files' = files \ {target[r]}
  /\ pc' = [pc EXCEPT ![r] = "done"]
  /\ UNCHANGED <<flowVars, rowVars, requestVars, seen>>

\* An exception nobody catches, or the end of the process.
Fail(r) ==
  /\ pc[r] \in {"loaded", "checked", "saved", "extracting", "deleted"}
  /\ pc' = [pc EXCEPT ![r] = "failed"]
  /\ UNCHANGED <<flowVars, rowVars, files, requestVars, seen>>

Step(r) ==
  \/ Check(r)
  \/ SaveFile(r)
  \/ Insert(r)
  \/ StartExtraction(r)
  \/ FinishExtraction(r)
  \/ FailExtraction(r)
  \/ Review(r)
  \/ Remove(r)
  \/ Unlink(r)

SettlementMoves ==
  /\ Flow!Next
  /\ UNCHANGED <<rowVars, files, requestVars, seen, pc>>

Next ==
  \/ SettlementMoves
  \/ \E r \in Requests :
       \/ \E o \in Ops, e \in Requests : Load(r, o, e)
       \/ Step(r)
       \/ Fail(r)

Spec == Init /\ [][Next]_vars

\* The event loop resumes every handler, the worker threads end.
FairSpec == Spec /\ \A r \in Requests : WF_vars(Step(r))

-----------------------------------------------------------------------------
(* What holds however requests and the settlement interleave.               *)

\* Files are saved before their row and unlinked after it, so that whatever
\* fails in between an evidence on record has its document on disk.
FileBehindEveryRow == \A e \in Requests : evidence[e] # NULL => e \in files

\* Conversely a document without a row is being uploaded or removed, or was
\* when a handler died: nothing else leaves litter behind.
NoStrayFiles ==
  \A e \in files :
    \/ evidence[e] # NULL
    \/ pc[e] \in {"saved", "failed"}
    \/ \E d \in Requests :
         op[d] = "remove" /\ target[d] = e /\ pc[d] \in {"deleted", "failed"}

\* A row that says EXTRACTING (and is skipped by the reconciliation) was put
\* there by an extraction that is at work or died, or by a PATCH that asked
\* for it: finished extractions never leave the mark behind, in whatever order
\* they and the reviews commit.
ExtractingHasWorker ==
  \A e \in Requests :
    evidence[e] # NULL /\ evidence[e].status = "extracting" =>
      LET x == marked[e] IN
      /\ target[x] = e
      /\ \/ op[x] = "extract" /\ pc[x] \in {"extracting", "failed"}
         \/ op[x] = "review"

\* An extraction replaces a category only if the request that set it was still
\* under way when the extraction loaded its row: what a treasurer had set by
\* hand before is never overwritten, however the requests between them fall.
EarlierCategoriesStand ==
  [][\A e \in Requests :
       evidence[e] # NULL /\ evidence'[e] # NULL =>
         LET old == evidence[e].category
             new == evidence'[e].category
         IN  old # NULL /\ new \notin {old, NULL} /\ op[new] = "extract" =>
               old \notin knew[new]]_vars

\* A removed evidence stays removed: no extraction or review that was under
\* way brings its row back.
NoResurrection ==
  [][\A e \in Requests :
       pc[e] = "done" /\ evidence[e] = NULL => evidence'[e] = NULL]_vars

\* The requests that passed the check and may still write.
Writers == {r \in Requests : pc[r] \in {"checked", "saved", "extracting"}}

\* While a settlement is closed its evidences change at the hands of requests
\* that were admitted before it closed; nobody joins them.
OnlyLateWritersWrite ==
  [][status \notin Mutable =>
       /\ Writers' \subseteq Writers
       /\ \A e \in Requests :
            evidence'[e] # evidence[e] =>
              \E r \in Writers : target[r] = e /\ pc'[r] # pc[r]]_vars

\* A settlement that stays closed has its evidences at rest in the end: every
\* admitted request finishes or dies.
ClosedBooksComeToRest ==
  status \notin Mutable ~> status \in Mutable \/ Writers = {}

-----------------------------------------------------------------------------
(* What the repository says and the code does not do.                       *)

\* services/settlement.py:53-71: evidences change in drafts and rejected
\* settlements only.
ClosedBooksAreFrozen == [][status \notin Mutable => UNCHANGED evidence]_vars

=============================================================================
