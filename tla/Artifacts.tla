----------------------------- MODULE Artifacts -----------------------------
(***************************************************************************)
(* The two output documents of a settlement, the requests that generate    *)
(* and download them (services/artifact.py), and what they are made of:    *)
(* the template of the organization, which Templates moves, and the        *)
(* evidences with their documents, which EvidenceWork moves.               *)
(*                                                                         *)
(* A generation replaces the pair of rows in one transaction and fills     *)
(* them in four more, first the spreadsheet, then the PDF.  Its DELETE     *)
(* finds the rows committed when it starts.  An UPDATE of a row that is    *)
(* gone raises, and so does a refresh.                                     *)
(*                                                                         *)
(* A row and its file are named by the generation that made them and their *)
(* kind.  Names of files are fresh; file_path is set with COMPLETED.       *)
(***************************************************************************)
EXTENDS Templates

CONSTANT Evidences  \* the evidences that ever exist

Kinds == {"excel", "pdf"}

Artifact == Requests \X Kinds

VARIABLES
  evidences,  \* the evidences on record
  documents,  \* the evidences whose document is on disk
  rows,       \* artifact -> status of its row, or NULL
  files,      \* artifact -> the evidences its file shows, or NULL
  pinned,     \* settlements.template_id
  pin,        \* generation -> settlements.template_id as it was loaded
  snap,       \* generation -> the artifacts its DELETE found
  evs,        \* generation -> the evidences it loaded
  turn,       \* generation -> the kind it works on
  outcome,    \* generation -> the status it is going to commit
  chosen,     \* download -> the artifact it loaded
  gpc,        \* request -> where its handler stands
  replaced,   \* generation -> those whose rows it could see (history)
  room        \* generation -> the evidences its sheet has a place for (history)

worldVars == <<evidences, documents>>
storeVars == <<rows, files, pinned>>
memoryVars == <<pin, snap, evs, turn, outcome, chosen>>
historyVars == <<replaced, room>>
artifactVars == <<worldVars, storeVars, memoryVars, gpc, historyVars>>
vars == <<templateVars, artifactVars>>

\* ArtifactStatus (models/enums.py)
Status == {"queued", "processing", "completed", "failed"}

ASSUME ArtifactsAssumption ==
  /\ NULL \notin Status
  /\ \A S \in SUBSET Evidences : S # NULL

Phase ==
  {"idle", "wiping", "replaced", "ready", "processing", "rendered",
   "filled", "found", "done", "failed"}

TypeOK ==
  /\ TemplatesTypeOK
  /\ evidences \subseteq documents
  /\ documents \subseteq Evidences
  /\ rows \in [Artifact -> Status \cup {NULL}]
  /\ files \in [Artifact -> (SUBSET Evidences) \cup {NULL}]
  /\ pinned \in templates \cup {NULL}
  /\ pin \in [Requests -> templates \cup {NULL}]
  /\ snap \in [Requests -> SUBSET Artifact]
  /\ evs \in [Requests -> SUBSET Evidences]
  /\ turn \in [Requests -> Kinds]
  /\ outcome \in [Requests -> Status]
  /\ chosen \in [Requests -> Artifact \cup {NULL}]
  /\ gpc \in [Requests -> Phase]
  /\ replaced \in [Requests -> SUBSET Requests]
  /\ room \in [Requests -> SUBSET Evidences]

Init ==
  /\ TemplatesInit
  /\ evidences \in SUBSET Evidences
  /\ documents = evidences
  /\ rows = [a \in Artifact |-> NULL]
  /\ files = [a \in Artifact |-> NULL]
  /\ pinned \in templates \cup {NULL}
  /\ pin = [r \in Requests |-> NULL]
  /\ snap = [r \in Requests |-> {}]
  /\ evs = [r \in Requests |-> {}]
  /\ turn = [r \in Requests |-> "excel"]
  /\ outcome = [r \in Requests |-> "queued"]
  /\ chosen = [r \in Requests |-> NULL]
  /\ gpc = [r \in Requests |-> "idle"]
  /\ replaced = [r \in Requests |-> {}]
  /\ room = [r \in Requests |-> {}]

OnRecord == {a \in Artifact : rows[a] # NULL}

Mine(r) == {<<r, k>> : k \in Kinds}

\* The handler is over and forgets what it had loaded.
Ends(r, phase) ==
  /\ gpc' = [gpc EXCEPT ![r] = phase]
  /\ pin' = [pin EXCEPT ![r] = NULL]
  /\ snap' = [snap EXCEPT ![r] = {}]
  /\ evs' = [evs EXCEPT ![r] = {}]
  /\ turn' = [turn EXCEPT ![r] = "excel"]
  /\ outcome' = [outcome EXCEPT ![r] = "queued"]
  /\ chosen' = [chosen EXCEPT ![r] = NULL]

-----------------------------------------------------------------------------
(* A generation.                                                            *)

\* The settlement is loaded; the DELETE of the prior artifacts finds what is on
\* record.
StartGeneration(r) ==
  /\ gpc[r] = "idle"
  /\ op[r] = "generate"
  /\ pin' = [pin EXCEPT ![r] = pinned]
  /\ snap' = [snap EXCEPT ![r] = OnRecord]
  /\ replaced' = [replaced EXCEPT ![r] = {a[1] : a \in OnRecord}]
  /\ gpc' = [gpc EXCEPT ![r] = "wiping"]
  /\ UNCHANGED <<worldVars, storeVars, evs, turn, outcome, chosen, room>>

\* Mutant of ReplacePair: rows still being filled are spared.
ReplaceSettled(r) ==
  /\ gpc[r] = "wiping"
  /\ rows' = [a \in Artifact |->
       IF a \in Mine(r) THEN "queued"
       ELSE IF a \in snap[r] /\ rows[a] \in {"completed", "failed"} THEN NULL
       ELSE rows[a]]
  /\ snap' = [snap EXCEPT ![r] = {}]
  /\ gpc' = [gpc EXCEPT ![r] = "replaced"]
  /\ UNCHANGED <<worldVars, files, pinned, pin, evs, turn, outcome, chosen, historyVars>>

\* Mutant of ReplacePair: the files of the prior run are deleted, too.
ReplaceFiles(r) ==
  /\ gpc[r] = "wiping"
  /\ rows' = [a \in Artifact |->
       IF a \in Mine(r) THEN "queued" ELSE IF a \in snap[r] THEN NULL ELSE rows[a]]
  /\ files' = [a \in Artifact |-> IF a \in snap[r] THEN NULL ELSE files[a]]
  /\ snap' = [snap EXCEPT ![r] = {}]
  /\ gpc' = [gpc EXCEPT ![r] = "replaced"]
  /\ UNCHANGED <<worldVars, pinned, pin, evs, turn, outcome, chosen, historyVars>>

\* The deletion and a fresh pair are committed; the files stay.
ReplacePair(r) ==
  /\ gpc[r] = "wiping"
  /\ rows' = [a \in Artifact |->
       IF a \in Mine(r) THEN "queued" ELSE IF a \in snap[r] THEN NULL ELSE rows[a]]
  /\ snap' = [snap EXCEPT ![r] = {}]
  /\ gpc' = [gpc EXCEPT ![r] = "replaced"]
  /\ UNCHANGED <<worldVars, files, pinned, pin, evs, turn, outcome, chosen, historyVars>>

\* Both rows are refreshed, then _load_snapshot.
LoadSnapshot(r) ==
  /\ gpc[r] = "replaced"
  /\ Mine(r) \subseteq OnRecord
  /\ evs' = [evs EXCEPT ![r] = evidences]
  /\ gpc' = [gpc EXCEPT ![r] = "ready"]
  /\ UNCHANGED <<worldVars, storeVars, pin, snap, turn, outcome, chosen, historyVars>>

\* The document the generation works on.
Current(r) == <<r, turn[r]>>

StartProcessing(r) ==
  /\ gpc[r] = "ready"
  /\ Current(r) \in OnRecord
  /\ rows' = [rows EXCEPT ![Current(r)] = "processing"]
  /\ gpc' = [gpc EXCEPT ![r] = "processing"]
  /\ UNCHANGED <<worldVars, files, pinned, memoryVars, historyVars>>

\* The row is going to be COMPLETED with the file that was written, or FAILED.
Render(r, content) ==
  /\ \/ /\ files' = [files EXCEPT ![Current(r)] = content]
        /\ outcome' = [outcome EXCEPT ![r] = "completed"]
     \/ /\ outcome' = [outcome EXCEPT ![r] = "failed"]
        /\ UNCHANGED files
  /\ gpc' = [gpc EXCEPT ![r] = "rendered"]
  /\ UNCHANGED <<worldVars, rows, pin, snap, evs, turn, chosen, replaced>>

\* A sheet shows the evidences of the snapshot that have a place on its template:
\* in a ledger those whose month has a section, on any other template none.
FillSheet(r) ==
  \E place \in SUBSET Evidences :
    /\ Render(r, evs[r] \cap place)
    /\ room' = IF outcome'[r] = "completed" THEN [room EXCEPT ![r] = place] ELSE room

\* The spreadsheet is made from the active template, which is pinned unless it
\* was when the settlement was loaded.
RenderExcel(r) ==
  /\ gpc[r] = "processing"
  /\ turn[r] = "excel"
  /\ \E t \in ActiveTemplate : pinned' = IF pin[r] = t THEN pinned ELSE t
  /\ FillSheet(r)

\* Without an active template the one that was pinned is taken.
RenderPinned(r) ==
  /\ gpc[r] = "processing"
  /\ turn[r] = "excel"
  /\ ActiveTemplate = {} /\ pin[r] # NULL
  /\ FillSheet(r)
  /\ UNCHANGED pinned

\* TemplateMissing
RenderNothing(r) ==
  /\ gpc[r] = "processing"
  /\ turn[r] = "excel"
  /\ ActiveTemplate = {} /\ pin[r] = NULL
  /\ outcome' = [outcome EXCEPT ![r] = "failed"]
  /\ gpc' = [gpc EXCEPT ![r] = "rendered"]
  /\ UNCHANGED <<worldVars, storeVars, pin, snap, evs, turn, chosen, historyVars>>

\* Mutant of RenderPdf: the evidences are loaded again.
RenderPdfAnew(r) ==
  /\ gpc[r] = "processing"
  /\ turn[r] = "pdf"
  /\ Render(r, evidences)
  /\ UNCHANGED <<pinned, room>>

\* The PDF shows those whose document is found and can be read; the others are
\* skipped.
RenderPdf(r) ==
  /\ gpc[r] = "processing"
  /\ turn[r] = "pdf"
  /\ \E readable \in SUBSET documents : Render(r, evs[r] \cap readable)
  /\ UNCHANGED <<pinned, room>>

\* Mutant of CommitArtifact: after a failed spreadsheet the PDF is skipped.
CommitArtifactOrStop(r) ==
  /\ gpc[r] = "rendered"
  /\ Current(r) \in OnRecord
  /\ rows' = [rows EXCEPT ![Current(r)] = outcome[r]]
  /\ turn' = [turn EXCEPT ![r] = "pdf"]
  /\ gpc' = [gpc EXCEPT ![r] =
       IF turn[r] = "pdf" \/ outcome[r] = "failed" THEN "filled" ELSE "ready"]
  /\ UNCHANGED <<worldVars, files, pinned, pin, snap, evs, outcome, chosen, historyVars>>

\* The outcome is committed; after the spreadsheet comes the PDF.
CommitArtifact(r) ==
  /\ gpc[r] = "rendered"
  /\ Current(r) \in OnRecord
  /\ rows' = [rows EXCEPT ![Current(r)] = outcome[r]]
  /\ turn' = [turn EXCEPT ![r] = "pdf"]
  /\ gpc' = [gpc EXCEPT ![r] = IF turn[r] = "pdf" THEN "filled" ELSE "ready"]
  /\ UNCHANGED <<worldVars, files, pinned, pin, snap, evs, outcome, chosen, historyVars>>

\* Both rows are refreshed for the answer.
Answer(r) ==
  /\ gpc[r] = "filled"
  /\ Mine(r) \subseteq OnRecord
  /\ Ends(r, "done")
  /\ UNCHANGED <<worldVars, storeVars, historyVars>>

\* The UPDATE or the refresh of a row that is gone raises: error 500.
RowLost(r) ==
  /\ \/ gpc[r] \in {"replaced", "filled"} /\ ~(Mine(r) \subseteq OnRecord)
     \/ gpc[r] \in {"ready", "rendered"} /\ Current(r) \notin OnRecord
  /\ Ends(r, "failed")
  /\ UNCHANGED <<worldVars, storeVars, historyVars>>

-----------------------------------------------------------------------------
(* A download.                                                              *)

\* The row is loaded; unless it is COMPLETED the answer is 409.
LoadArtifact(r, a) ==
  /\ gpc[r] = "idle"
  /\ op[r] = "download"
  /\ a \in OnRecord
  /\ \/ /\ rows[a] = "completed"
        /\ chosen' = [chosen EXCEPT ![r] = a]
        /\ gpc' = [gpc EXCEPT ![r] = "found"]
     \/ /\ rows[a] # "completed"
        /\ gpc' = [gpc EXCEPT ![r] = "done"]
        /\ UNCHANGED chosen
  /\ UNCHANGED <<worldVars, storeVars, pin, snap, evs, turn, outcome, historyVars>>

\* resolve_download in a worker thread: 410 if the file is gone.
Serve(r) ==
  /\ gpc[r] = "found"
  /\ Ends(r, IF files[chosen[r]] # NULL THEN "done" ELSE "failed")
  /\ UNCHANGED <<worldVars, storeVars, historyVars>>

-----------------------------------------------------------------------------

\* An exception nobody catches, or the end of the process.
Fail(r) ==
  /\ gpc[r] \notin {"idle", "done", "failed"}
  /\ Ends(r, "failed")
  /\ UNCHANGED <<worldVars, storeVars, historyVars>>

Step(r) ==
  \/ StartGeneration(r) \/ ReplacePair(r) \/ LoadSnapshot(r)
  \/ StartProcessing(r)
  \/ RenderExcel(r) \/ RenderPinned(r) \/ RenderNothing(r) \/ RenderPdf(r)
  \/ CommitArtifact(r) \/ Answer(r) \/ RowLost(r)
  \/ \E a \in OnRecord : LoadArtifact(r, a)
  \/ Serve(r)

\* EvidenceWork: the document is saved before its row and unlinked after it.
EvidencesMove ==
  /\ \E e \in Evidences :
       \/ /\ e \notin documents
          /\ documents' = documents \cup {e}
          /\ UNCHANGED evidences
       \/ /\ e \in documents \ evidences
          /\ evidences' = evidences \cup {e}
          /\ UNCHANGED documents
       \/ /\ e \in evidences
          /\ evidences' = evidences \ {e}
          /\ UNCHANGED documents
       \/ /\ e \in documents \ evidences
          /\ documents' = documents \ {e}
          /\ UNCHANGED evidences
  /\ UNCHANGED <<storeVars, memoryVars, gpc, historyVars>>

\* SettlementLifecycle: a draft is patched with any template, or with none.
Repin ==
  /\ pinned' \in templates \cup {NULL}
  /\ UNCHANGED <<worldVars, rows, files, memoryVars, gpc, historyVars>>

Next ==
  \/ TemplatesNext /\ UNCHANGED artifactVars
  \/ /\ EvidencesMove \/ Repin \/ \E r \in Requests : Step(r) \/ Fail(r)
     /\ UNCHANGED templateVars

Spec == Init /\ [][Next]_vars

-----------------------------------------------------------------------------
(* What holds however generations, downloads and template changes           *)
(* interleave.                                                              *)

\* A completed artifact has its file, and so has every artifact a download
\* found completed, even if a generation replaced its row since.
DownloadsAreServed ==
  /\ \A a \in Artifact : rows[a] = "completed" => files[a] # NULL
  /\ \A r \in Requests : gpc[r] = "found" => files[chosen[r]] # NULL

\* Artifacts come and go in pairs, and two pairs stand side by side only if
\* neither generation could see the other's.
PairsReplaceEachOther ==
  \A a \in OnRecord :
    /\ Mine(a[1]) \subseteq OnRecord
    /\ \A b \in OnRecord : a[1] # b[1] => a[1] \notin replaced[b[1]]

\* An artifact that is not finished has a generation at work on it, or one that
\* died: whatever becomes of one document, the other is attempted.
UnfinishedHasGenerator ==
  \A a \in OnRecord :
    rows[a] \in {"queued", "processing"} => gpc[a[1]] \notin {"idle", "done"}

\* The two documents of a pair are made of one snapshot: the PDF shows no
\* evidence its spreadsheet lacks, unless the template had no place for it.
PairAgrees ==
  \A r \in Requests :
    files[<<r, "excel">>] # NULL /\ files[<<r, "pdf">>] # NULL =>
      files[<<r, "pdf">>] \cap room[r] \subseteq files[<<r, "excel">>]

=============================================================================
