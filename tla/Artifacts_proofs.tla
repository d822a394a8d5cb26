--------------------------- MODULE Artifacts_proofs ---------------------------
(***************************************************************************)
(* Proofs about Templates and Artifacts, for any sets of requests and      *)
(* evidences.                                                              *)
(***************************************************************************)
EXTENDS Artifacts, TLAPS

-----------------------------------------------------------------------------
(* The templates alone.                                                     *)

\* The row of an upload is invisible until its commit.
Uncommitted ==
  \A r \in Requests : tpc[r] \in {"idle", "inserted", "looked"} => r \notin templates

KnownOnRecord == \A r \in Requests : known[r] \subseteq templates

\* What an upload saw and did not find active is active later only by hand.
FoundAllActive ==
  \A r \in Requests : tpc[r] = "looked" =>
    (known[r] \cap active) \ byHand \subseteq found[r]

TemplatesInv ==
  /\ TemplatesTypeOK
  /\ Uncommitted
  /\ KnownOnRecord
  /\ FoundAllActive
  /\ RivalsOverlapped

-----------------------------------------------------------------------------

LEMMA TemplatesInitInv == TemplatesInit => TemplatesInv
BY TemplatesAssumption
DEF TemplatesInit, TemplatesInv, TemplatesTypeOK, Template, Uncommitted,
    KnownOnRecord, FoundAllActive, RivalsOverlapped

LEMMA TemplateStepType ==
  ASSUME TemplatesTypeOK, NEW r \in Requests, TemplateStep(r)
  PROVE  TemplatesTypeOK'
<1>1. CASE InsertTemplate(r)
  BY <1>1 DEF TemplatesTypeOK, Template, InsertTemplate
<1>2. CASE FindActive(r)
  BY <1>2 DEF TemplatesTypeOK, Template, FindActive
<1>3. CASE CommitTemplate(r)
  BY <1>3 DEF TemplatesTypeOK, Template, CommitTemplate, EndTemplate
<1>4. CASE \E t \in templates : LoadTemplate(r, t)
  BY <1>4 DEF TemplatesTypeOK, Template, LoadTemplate
<1>5. CASE PatchTemplate(r)
  BY <1>5 DEF TemplatesTypeOK, Template, PatchTemplate, EndTemplate
<1>6. CASE FailTemplate(r)
  BY <1>6 DEF TemplatesTypeOK, Template, FailTemplate, EndTemplate
<1> QED BY <1>1, <1>2, <1>3, <1>4, <1>5, <1>6 DEF TemplateStep

LEMMA TemplateStepInv ==
  ASSUME TemplatesInv, NEW r \in Requests, TemplateStep(r)
  PROVE  Uncommitted' /\ KnownOnRecord' /\ FoundAllActive' /\ RivalsOverlapped'
<1> USE DEF TemplatesInv, TemplatesTypeOK, Uncommitted, KnownOnRecord,
            FoundAllActive, RivalsOverlapped
<1>1. CASE InsertTemplate(r) BY <1>1 DEF InsertTemplate
<1>2. CASE FindActive(r) BY <1>2 DEF FindActive
<1>3. CASE CommitTemplate(r)
  <2>1. /\ r \notin templates /\ tpc[r] = "looked"
        /\ templates' = templates \cup {r} /\ active' = (active \ found[r]) \cup {r}
        /\ tpc' = [tpc EXCEPT ![r] = "done"] /\ found' = [found EXCEPT ![r] = {}]
        /\ UNCHANGED <<known, byHand>>
    BY <1>3 DEF CommitTemplate, EndTemplate
  <2>2. Uncommitted' /\ KnownOnRecord' BY <2>1
  <2>3. FoundAllActive' BY <2>1
  <2>4. RivalsOverlapped'
    <3> SUFFICES ASSUME NEW t \in (active \ byHand)',
                        NEW u \in ((active \ byHand) \cap Requests)', t # u
                 PROVE  t \notin known[u]
      BY <2>1
    <3>1. CASE t = r BY <2>1, <3>1
    <3>2. CASE u = r BY <2>1, <3>2
    <3>3. CASE t # r /\ u # r BY <2>1, <3>3
    <3> QED BY <3>1, <3>2, <3>3
  <2> QED BY <2>2, <2>3, <2>4
<1>4. CASE \E t \in templates : LoadTemplate(r, t) BY <1>4 DEF LoadTemplate
<1>5. CASE PatchTemplate(r)
  <2>1. /\ \A t \in active' : t \in active \/ t \in byHand'
        /\ byHand \subseteq byHand' /\ UNCHANGED <<templates, known>>
        /\ tpc' = [tpc EXCEPT ![r] = "done"] /\ found' = [found EXCEPT ![r] = {}]
        /\ tpc[r] = "loaded"
    BY <1>5 DEF PatchTemplate, EndTemplate
  <2> QED BY <2>1
<1>6. CASE FailTemplate(r) BY <1>6 DEF FailTemplate, EndTemplate
<1> QED BY <1>1, <1>2, <1>3, <1>4, <1>5, <1>6 DEF TemplateStep

LEMMA TemplatesNextInv ==
  TemplatesInv /\ [TemplatesNext]_templateVars => TemplatesInv'
<1>1. ASSUME TemplatesInv, NEW r \in Requests, TemplateStep(r) PROVE TemplatesInv'
  BY <1>1, TemplateStepType, TemplateStepInv DEF TemplatesInv
<1>2. ASSUME TemplatesInv, UNCHANGED templateVars PROVE TemplatesInv'
  BY <1>2
  DEF templateVars, TemplatesInv, TemplatesTypeOK, Uncommitted, KnownOnRecord,
      FoundAllActive, RivalsOverlapped
<1> QED BY <1>1, <1>2 DEF TemplatesNext

LEMMA TemplatesInvariance == TemplatesSpec => []TemplatesInv
BY TemplatesInitInv, TemplatesNextInv, PTL DEF TemplatesSpec

-----------------------------------------------------------------------------

\* Every reachable state of the templates has the declared types; in
\* particular a patch never loses its row: no template is deleted.
THEOREM TemplatesTypeCorrect == TemplatesSpec => []TemplatesTypeOK
BY TemplatesInvariance, PTL DEF TemplatesInv

\* However many uploads interleave, deactivate_org_templates leaves two active
\* templates only if neither upload could see the other.
THEOREM OnlyOverlapsRival == TemplatesSpec => []RivalsOverlapped
BY TemplatesInvariance, PTL DEF TemplatesInv

\* No number of uploads leaves the organization without an active template.
THEOREM NeverWithoutTemplate == TemplatesSpec => []SomeTemplateActive
<1>1. TemplatesInit => SomeTemplateActive
  BY DEF TemplatesInit, SomeTemplateActive
<1>2. SomeTemplateActive /\ [TemplatesNext]_templateVars => SomeTemplateActive'
  <2> SUFFICES ASSUME SomeTemplateActive, [TemplatesNext]_templateVars
               PROVE  SomeTemplateActive'
    OBVIOUS
  <2>1. CASE UNCHANGED templateVars
    BY <2>1 DEF templateVars, SomeTemplateActive
  <2>2. ASSUME NEW r \in Requests, TemplateStep(r) PROVE SomeTemplateActive'
    BY <2>2
    DEF SomeTemplateActive, TemplateStep, InsertTemplate, FindActive,
        CommitTemplate, LoadTemplate, PatchTemplate, FailTemplate
  <2> QED BY <2>1, <2>2 DEF TemplatesNext
<1> QED BY <1>1, <1>2, PTL DEF TemplatesSpec

\* update_template writes is_active only where it differs from what was loaded:
\* a retired template comes back only by a patch that found it retired.
THEOREM RetiredForGood == TemplatesSpec => RetiredStaysRetired
<1> DEFINE Asked ==
      \A t \in (templates \ active) \cap active' :
        \E r \in Requests : tpc[r] = "loaded" /\ subject[r] = t /\ t \notin found[r]
<1>1. TemplatesInv /\ [TemplatesNext]_templateVars => [Asked]_templateVars
  <2> SUFFICES ASSUME TemplatesInv, NEW r \in Requests, TemplateStep(r) PROVE Asked
    BY DEF TemplatesNext
  <2>1. CASE PatchTemplate(r) BY <2>1 DEF PatchTemplate
  <2>2. CASE CommitTemplate(r)
    BY <2>2 DEF CommitTemplate, TemplatesInv, Uncommitted
  <2> QED
    BY <2>1, <2>2
    DEF TemplateStep, InsertTemplate, FindActive, LoadTemplate, FailTemplate
<1> QED BY <1>1, TemplatesInvariance, PTL DEF TemplatesSpec, RetiredStaysRetired

-----------------------------------------------------------------------------
(* The artifacts.                                                           *)

Settled(a) == rows[a] \in {"completed", "failed", NULL}

\* Before its pair is committed nobody knows a generation.
Unborn(r) ==
  /\ Mine(r) \cap OnRecord = {}
  /\ \A q \in Requests : r \notin replaced[q] /\ Mine(r) \cap snap[q] = {}

\* The DELETE found exactly the rows of the generations it replaces.
Wiping(r) ==
  \A a \in Artifact : a[1] \in replaced[r] <=> a \in snap[r]

NoFiles(r) == \A k \in Kinds : files[<<r, k>>] = NULL

\* What the files may show while the generation runs.
Filling(r) ==
  /\ files[<<r, "excel">>] \in {NULL, evs[r] \cap room[r]}
  /\ files[<<r, "pdf">>] # NULL => files[<<r, "pdf">>] \subseteq evs[r]

Rendered(r) ==
  /\ outcome[r] \in {"completed", "failed"}
  /\ outcome[r] = "completed" => files[Current(r)] # NULL

\* What a request may rely on where it stands.
Stands(r) ==
  /\ gpc[r] \in {"idle", "wiping", "found"} => Unborn(r)
  /\ gpc[r] \in {"idle", "wiping", "found", "replaced"} => NoFiles(r) /\ turn[r] = "excel"
  /\ gpc[r] = "found" => chosen[r] \in Artifact
  /\ gpc[r] = "wiping" => Wiping(r)
  /\ gpc[r] \in {"ready", "processing"} /\ turn[r] = "excel" => NoFiles(r)
  /\ gpc[r] \in {"ready", "processing", "rendered", "filled"} => Filling(r)
  /\ gpc[r] = "rendered" => Rendered(r)
  /\ gpc[r] \in {"ready", "processing", "rendered"} /\ turn[r] = "pdf" =>
       Settled(<<r, "excel">>)
  /\ gpc[r] = "filled" => \A k \in Kinds : Settled(<<r, k>>)

IInv ==
  /\ TypeOK
  /\ \A r \in Requests : Stands(r)
  /\ DownloadsAreServed
  /\ PairsReplaceEachOther
  /\ UnfinishedHasGenerator
  /\ PairAgrees

-----------------------------------------------------------------------------
(* Types.                                                                   *)

LEMMA ArtifactsTypeInit == Init => TypeOK
<1> SUFFICES ASSUME Init PROVE TypeOK
  OBVIOUS
<1>1. TemplatesTypeOK
  BY TemplatesInitInv DEF Init, TemplatesInv
<1> QED BY <1>1 DEF Init, TypeOK, Artifact, Kinds, Status, Phase

LEMMA GenerationType ==
  ASSUME TypeOK, NEW r \in Requests, Step(r), UNCHANGED templateVars
  PROVE  TypeOK'
<1>0. TemplatesTypeOK' /\ templates' = templates /\ active \subseteq templates
  BY DEF TypeOK, TemplatesTypeOK, templateVars, Template
<1> USE <1>0 DEF TypeOK, worldVars, historyVars, storeVars, memoryVars, Kinds, Status, Phase
<1>1. CASE StartGeneration(r)
  <2>1. OnRecord \subseteq Artifact /\ {a[1] : a \in OnRecord} \subseteq Requests
    BY DEF OnRecord, Artifact
  <2> QED BY <1>1, <2>1 DEF StartGeneration
<1>2. CASE ReplacePair(r) BY <1>2 DEF ReplacePair
<1>3. CASE LoadSnapshot(r) BY <1>3 DEF LoadSnapshot
<1>4. CASE StartProcessing(r) BY <1>4 DEF StartProcessing
<1>5. CASE RenderExcel(r)
  BY <1>5 DEF RenderExcel, FillSheet, Render, ActiveTemplate, Newest
<1>6. CASE RenderPinned(r) BY <1>6 DEF RenderPinned, FillSheet, Render
<1>7. CASE RenderNothing(r) BY <1>7 DEF RenderNothing
<1>8. CASE RenderPdf(r) BY <1>8 DEF RenderPdf, Render
<1>9. CASE CommitArtifact(r) BY <1>9 DEF CommitArtifact
<1>10. CASE Answer(r) BY <1>10 DEF Answer, Ends
<1>11. CASE RowLost(r) BY <1>11 DEF RowLost, Ends
<1>12. CASE \E a \in OnRecord : LoadArtifact(r, a)
  BY <1>12 DEF LoadArtifact, OnRecord
<1>13. CASE Serve(r) BY <1>13 DEF Serve, Ends
<1> QED
  BY <1>1, <1>2, <1>3, <1>4, <1>5, <1>6, <1>7, <1>8, <1>9, <1>10, <1>11, <1>12,
     <1>13
  DEF Step

LEMMA ArtifactsTypeStep ==
  ASSUME TypeOK, [Next]_vars
  PROVE  TypeOK'
<1>1. CASE UNCHANGED vars
  BY <1>1
  DEF vars, templateVars, artifactVars, worldVars, historyVars, storeVars,
      memoryVars, TypeOK, TemplatesTypeOK, Template
<1>2. CASE TemplatesNext /\ UNCHANGED artifactVars
  <2>1. TemplatesTypeOK'
    BY <1>2, TemplateStepType DEF TemplatesNext, TypeOK
  <2>2. templates \subseteq templates'
    BY <1>2
    DEF TemplatesNext, TemplateStep, InsertTemplate, FindActive, CommitTemplate,
        LoadTemplate, PatchTemplate, FailTemplate
  <2> QED
    BY <1>2, <2>1, <2>2
    DEF artifactVars, worldVars, historyVars, storeVars, memoryVars, TypeOK
<1>3. CASE EvidencesMove /\ UNCHANGED templateVars
  BY <1>3
  DEF EvidencesMove, templateVars, historyVars, storeVars, memoryVars, TypeOK,
      TemplatesTypeOK, Template
<1>4. ASSUME NEW r \in Requests, Step(r), UNCHANGED templateVars PROVE TypeOK'
  BY <1>4, GenerationType
<1>5. ASSUME NEW r \in Requests, Fail(r), UNCHANGED templateVars PROVE TypeOK'
  BY <1>5
  DEF Fail, Ends, templateVars, worldVars, historyVars, storeVars, TypeOK, TemplatesTypeOK,
      Template, Kinds, Status, Phase
<1>6. CASE Repin /\ UNCHANGED templateVars
  BY <1>6
  DEF Repin, templateVars, worldVars, historyVars, memoryVars, TypeOK,
      TemplatesTypeOK, Template
<1> QED BY <1>1, <1>2, <1>3, <1>4, <1>5, <1>6 DEF Next

-----------------------------------------------------------------------------
(* The invariant.                                                           *)

LEMMA ArtifactIsPair ==
  ASSUME NEW a \in Artifact
  PROVE  a = <<a[1], a[2]>> /\ a[1] \in Requests /\ a[2] \in Kinds
BY DEF Artifact

LEMMA MineAre ==
  ASSUME NEW r \in Requests, NEW a
  PROVE  a \in Mine(r) <=> a \in Artifact /\ a[1] = r
BY DEF Mine, Artifact

LEMMA ArtifactsInitInv == Init => IInv
<1> SUFFICES ASSUME Init PROVE IInv
  OBVIOUS
<1>1. TypeOK BY ArtifactsTypeInit
<1>2. OnRecord = {} BY DEF Init, OnRecord
<1>3. \A r \in Requests : Mine(r) \subseteq Artifact BY MineAre
<1>4. \A r \in Requests : Stands(r)
  BY <1>2, <1>3 DEF Init, Stands, Unborn, NoFiles, Artifact, Kinds
<1> QED
  BY <1>1, <1>2, <1>4, <1>3, ArtifactsAssumption
  DEF IInv, Init, DownloadsAreServed, PairsReplaceEachOther,
      UnfinishedHasGenerator, PairAgrees, Artifact, Kinds, Status

\* What a step of r never touches: the others' handlers and their files, and
\* their rows but to delete them.
OnlyMoves(r) ==
  /\ \A q \in Requests \ {r} :
       /\ gpc'[q] = gpc[q] /\ evs'[q] = evs[q] /\ turn'[q] = turn[q]
       /\ outcome'[q] = outcome[q] /\ chosen'[q] = chosen[q]
       /\ snap'[q] = snap[q] /\ replaced'[q] = replaced[q]
       /\ room'[q] = room[q]
       /\ \A k \in Kinds :
            /\ files'[<<q, k>>] = files[<<q, k>>]
            /\ rows'[<<q, k>>] \in {rows[<<q, k>>], NULL}
  /\ snap'[r] \subseteq snap[r] \cup OnRecord
  /\ replaced'[r] \subseteq replaced[r] \cup {a[1] : a \in OnRecord}

LEMMA OthersStand ==
  ASSUME IInv, TypeOK', NEW r \in Requests, OnlyMoves(r),
         NEW q \in Requests, q # r
  PROVE  Stands(q)'
<1>1. \A k \in Kinds : <<q, k>> \in Artifact
  BY DEF Artifact
<1>2. Unborn(q) => Unborn(q)'
  <2> SUFFICES ASSUME Unborn(q) PROVE Unborn(q)'
    OBVIOUS
  <2>1. \A a \in OnRecord : a \in Artifact /\ a[1] # q
    BY MineAre DEF Unborn, OnRecord
  <2>2. \A k \in Kinds : rows'[<<q, k>>] = NULL
    BY <1>1 DEF OnlyMoves, Unborn, OnRecord, Mine
  <2>3. Mine(q) \cap OnRecord' = {}
    BY <2>2 DEF Mine, OnRecord
  <2>4. \A p \in Requests : q \notin replaced'[p]
    BY <2>1 DEF OnlyMoves, Unborn
  <2>5. \A p \in Requests : Mine(q) \cap snap'[p] = {}
    BY <2>1, MineAre DEF OnlyMoves, Unborn
  <2> QED BY <2>3, <2>4, <2>5 DEF Unborn, Mine
<1>3. Wiping(q) => Wiping(q)'
  BY DEF Wiping, OnlyMoves
<1>4. NoFiles(q) => NoFiles(q)'
  BY DEF NoFiles, OnlyMoves
<1>5. Filling(q) => Filling(q)'
  BY DEF Filling, OnlyMoves, Kinds
<1>6. Rendered(q) => Rendered(q)'
  <2>1. turn[q] \in Kinds BY DEF IInv, TypeOK
  <2>2. turn'[q] = turn[q] /\ outcome'[q] = outcome[q]
        /\ files'[<<q, turn[q]>>] = files[<<q, turn[q]>>]
    BY <2>1 DEF OnlyMoves
  <2> QED BY <2>2 DEF Rendered, Current
<1>7. \A k \in Kinds : Settled(<<q, k>>) => Settled(<<q, k>>)'
  BY DEF Settled, OnlyMoves
<1>8. Stands(q) BY DEF IInv
<1> QED
  BY <1>2, <1>3, <1>4, <1>5, <1>6, <1>7, <1>8 DEF Stands, OnlyMoves, Kinds

\* A step that changes neither rows nor files nor what requests remember.
LEMMA UnmovedInv ==
  ASSUME IInv, TypeOK', UNCHANGED <<rows, files, memoryVars, gpc, historyVars>>
  PROVE  IInv'
<1>1. OnRecord' = OnRecord
  BY DEF OnRecord
<1>2. ASSUME NEW r \in Requests PROVE Stands(r)'
  <2>1. Stands(r) BY DEF IInv
  <2> QED
    BY <1>1, <2>1
    DEF memoryVars, historyVars, Stands, Unborn, Wiping, NoFiles, Filling, Rendered, Settled,
        Mine, Current
<1>3. DownloadsAreServed' /\ PairAgrees'
  BY DEF memoryVars, historyVars, IInv, DownloadsAreServed, PairAgrees
<1>4. PairsReplaceEachOther'
  BY <1>1 DEF historyVars, IInv, PairsReplaceEachOther, Mine
<1>5. UnfinishedHasGenerator'
  BY <1>1 DEF IInv, UnfinishedHasGenerator
<1> QED BY <1>2, <1>3, <1>4, <1>5 DEF IInv

-----------------------------------------------------------------------------
(* The steps of a generation.                                               *)

\* It suffices to say where the request itself stands, and what the step does
\* to the properties.
LEMMA StepInv ==
  ASSUME IInv, TypeOK', NEW r \in Requests, OnlyMoves(r), Stands(r)',
         DownloadsAreServed', PairsReplaceEachOther', UnfinishedHasGenerator',
         PairAgrees'
  PROVE  IInv'
<1>1. ASSUME NEW q \in Requests PROVE Stands(q)'
  <2>1. CASE q = r BY <2>1
  <2>2. CASE q # r BY <2>2, OthersStand
  <2> QED BY <2>1, <2>2
<1> QED BY <1>1 DEF IInv

LEMMA StartGenerationInv ==
  ASSUME IInv, TypeOK', NEW r \in Requests, StartGeneration(r)
  PROVE  IInv'
<1> USE DEF StartGeneration, worldVars, historyVars, storeVars
<1>1. OnlyMoves(r) BY DEF OnlyMoves, IInv, TypeOK
<1>2. /\ gpc[r] = "idle" /\ gpc'[r] = "wiping"
      /\ snap' = [snap EXCEPT ![r] = OnRecord]
      /\ replaced' = [replaced EXCEPT ![r] = {a[1] : a \in OnRecord}]
      /\ OnRecord' = OnRecord /\ UNCHANGED <<rows, files, turn, chosen, room>>
  BY DEF OnRecord, IInv, TypeOK
<1>3. Unborn(r) /\ NoFiles(r) /\ turn[r] = "excel"
  BY <1>2 DEF IInv, Stands
<1>4. Unborn(r)'
  <2>1. \A a \in OnRecord : a[1] # r
    BY <1>3, MineAre DEF Unborn, OnRecord
  <2> QED BY <1>2, <1>3, <2>1 DEF Unborn, Mine, IInv, TypeOK
<1>5. Wiping(r)'
  <2>1. \A a \in Artifact : a[1] \in {b[1] : b \in OnRecord} => a \in OnRecord
    BY ArtifactIsPair, MineAre DEF IInv, PairsReplaceEachOther, OnRecord
  <2>2. \A a \in Artifact : a[1] \in replaced'[r] <=> a \in snap'[r]
    BY <1>2, <2>1 DEF IInv, TypeOK
  <2> QED BY <2>2 DEF Wiping
<1>6. Stands(r)'
  BY <1>2, <1>3, <1>4, <1>5 DEF Stands, NoFiles
<1>7. PairsReplaceEachOther'
  BY <1>2, <1>3, MineAre
  DEF PairsReplaceEachOther, IInv, TypeOK, Unborn, Mine, OnRecord
<1>8. gpc' = [gpc EXCEPT ![r] = "wiping"]
  OBVIOUS
<1>9. DownloadsAreServed' /\ PairAgrees'
  <2> HIDE DEF StartGeneration
  <2> QED BY <1>2, <1>8 DEF IInv, TypeOK, DownloadsAreServed, PairAgrees
<1>10. UnfinishedHasGenerator'
  <2>1. \A a \in OnRecord : a[1] \in Requests
    BY ArtifactIsPair DEF OnRecord
  <2> HIDE DEF StartGeneration
  <2> QED BY <1>2, <1>8, <2>1 DEF IInv, TypeOK, UnfinishedHasGenerator
<1> QED BY <1>1, <1>6, <1>7, <1>9, <1>10, StepInv

LEMMA ReplacePairInv ==
  ASSUME IInv, TypeOK', NEW r \in Requests, ReplacePair(r)
  PROVE  IInv'
<1> USE DEF ReplacePair, worldVars, historyVars
<1>0. \A q \in Requests, k \in Kinds : <<q, k>> \in Artifact /\ (<<q, k>> \in Mine(r) <=> q = r)
  BY MineAre DEF Artifact
<1>1. OnlyMoves(r) BY <1>0 DEF OnlyMoves, IInv, TypeOK
<1>2. /\ gpc[r] = "wiping" /\ gpc' = [gpc EXCEPT ![r] = "replaced"]
      /\ snap' = [snap EXCEPT ![r] = {}] /\ UNCHANGED <<files, turn, chosen, replaced, room>>
      /\ \A a \in Artifact : rows'[a] = IF a \in Mine(r) THEN "queued"
                                        ELSE IF a \in snap[r] THEN NULL ELSE rows[a]
  BY DEF IInv, TypeOK
<1>3. Unborn(r) /\ NoFiles(r) /\ Wiping(r) /\ turn[r] = "excel"
  BY <1>2 DEF IInv, Stands
<1>4. Stands(r)'
  BY <1>2, <1>3 DEF Stands, NoFiles, IInv, TypeOK
<1>5. \A a \in Artifact : a \in OnRecord' <=> a[1] = r \/ (a \in OnRecord /\ a \notin snap[r])
  BY <1>2, <1>3, MineAre, ArtifactsAssumption DEF OnRecord, Status, Unborn
<1>6. PairsReplaceEachOther'
  <2> SUFFICES ASSUME NEW a \in OnRecord'
               PROVE  /\ Mine(a[1]) \subseteq OnRecord'
                      /\ \A b \in OnRecord' : a[1] # b[1] => a[1] \notin replaced[b[1]]
    BY <1>2 DEF PairsReplaceEachOther, Mine
  <2>0. a \in Artifact /\ a[1] \in Requests
    BY ArtifactIsPair DEF OnRecord
  <2>1. Mine(a[1]) \subseteq OnRecord'
    <3>1. CASE a[1] = r BY <3>1, <1>5, MineAre
    <3>2. CASE a[1] # r
      <4>1. a \in OnRecord /\ a[1] \notin replaced[r]
        BY <3>2, <1>5, <1>3, <2>0 DEF Wiping
      <4>2. Mine(a[1]) \subseteq OnRecord
        BY <4>1 DEF IInv, PairsReplaceEachOther
      <4>3. \A b \in Mine(a[1]) : b \in Artifact /\ b[1] = a[1]
        BY <2>0, MineAre
      <4>4. \A b \in Mine(a[1]) : b \notin snap[r]
        BY <4>1, <4>3, <1>3 DEF Wiping
      <4> QED BY <4>2, <4>3, <4>4, <1>5
    <3> QED BY <3>1, <3>2
  <2>2. ASSUME NEW b \in OnRecord', a[1] # b[1] PROVE a[1] \notin replaced[b[1]]
    <3>0. b \in Artifact /\ b[1] \in Requests
      BY ArtifactIsPair DEF OnRecord
    <3>1. CASE a[1] = r
      BY <3>1, <3>0, <1>3 DEF Unborn
    <3>2. CASE b[1] = r
      BY <3>2, <2>2, <2>0, <1>5, <1>3 DEF Wiping
    <3>3. CASE a[1] # r /\ b[1] # r
      BY <3>3, <2>2, <2>0, <3>0, <1>5 DEF IInv, PairsReplaceEachOther
    <3> QED BY <3>1, <3>2, <3>3
  <2> QED BY <2>1, <2>2
<1>7. DownloadsAreServed'
  BY <1>2, ArtifactsAssumption DEF IInv, DownloadsAreServed, TypeOK, Status
<1>8. UnfinishedHasGenerator'
  <2> SUFFICES ASSUME NEW a \in OnRecord', rows'[a] \in {"queued", "processing"}
               PROVE  gpc'[a[1]] \notin {"idle", "done"}
    BY DEF UnfinishedHasGenerator
  <2>1. a \in Artifact /\ a[1] \in Requests
    BY ArtifactIsPair DEF OnRecord
  <2>2. CASE a[1] = r BY <2>2, <1>2 DEF IInv, TypeOK
  <2>3. CASE a[1] # r
    <3>1. a \in OnRecord /\ rows'[a] = rows[a]
      BY <2>1, <2>3, <1>2, <1>5, MineAre
    <3> QED BY <3>1, <2>1, <2>3, <1>2 DEF IInv, UnfinishedHasGenerator, TypeOK
  <2> QED BY <2>2, <2>3
<1>9. PairAgrees' BY <1>2 DEF IInv, PairAgrees
<1> QED BY <1>1, <1>4, <1>6, <1>7, <1>8, <1>9, StepInv


\* Steps that leave every row on record in its place.
LEMMA SameRecord ==
  ASSUME IInv, OnRecord' = OnRecord, UNCHANGED replaced
  PROVE  PairsReplaceEachOther'
BY DEF IInv, PairsReplaceEachOther, Mine

\* Steps of a handler that is not over change no row but its own.
LEMMA StillUnfinished ==
  ASSUME IInv, NEW r \in Requests, NEW phase, gpc' = [gpc EXCEPT ![r] = phase],
         phase \notin {"idle", "done"} \/ \A k \in Kinds : Settled(<<r, k>>),
         phase \notin {"idle", "done"} \/ UNCHANGED rows,
         \A a \in Artifact : a[1] # r => rows'[a] = rows[a]
  PROVE  UnfinishedHasGenerator'
<1> SUFFICES ASSUME NEW a \in OnRecord', rows'[a] \in {"queued", "processing"}
             PROVE  gpc'[a[1]] \notin {"idle", "done"}
  BY DEF UnfinishedHasGenerator
<1>1. a \in Artifact /\ a[1] \in Requests /\ a[2] \in Kinds /\ a = <<a[1], a[2]>>
  BY ArtifactIsPair DEF OnRecord
<1>2. CASE a[1] # r
  <2>1. a \in OnRecord /\ rows'[a] = rows[a]
    BY <1>1, <1>2 DEF OnRecord
  <2> QED BY <2>1, <1>1, <1>2 DEF IInv, UnfinishedHasGenerator, TypeOK
<1>3. CASE a[1] = r
  <2>1. CASE phase \notin {"idle", "done"} BY <1>3, <2>1 DEF IInv, TypeOK
  <2>2. CASE phase \in {"idle", "done"}
    <3>1. Settled(a) /\ rows'[a] = rows[a] BY <1>1, <1>3, <2>2
    <3> QED BY <3>1, ArtifactsAssumption DEF Settled, Status
  <2> QED BY <2>1, <2>2
<1> QED BY <1>2, <1>3

LEMMA LoadSnapshotInv ==
  ASSUME IInv, TypeOK', NEW r \in Requests, LoadSnapshot(r)
  PROVE  IInv'
<1> USE DEF LoadSnapshot, worldVars, historyVars, storeVars
<1>1. OnlyMoves(r) BY DEF OnlyMoves, IInv, TypeOK
<1>2. /\ gpc[r] = "replaced" /\ gpc' = [gpc EXCEPT ![r] = "ready"]
      /\ UNCHANGED <<rows, files, turn, replaced, room, chosen>> /\ OnRecord' = OnRecord
  BY DEF OnRecord
<1>3. NoFiles(r) /\ turn[r] = "excel" BY <1>2 DEF IInv, Stands
<1>4. Stands(r)'
  BY <1>2, <1>3 DEF Stands, NoFiles, Filling, Kinds, IInv, TypeOK
<1>5. PairsReplaceEachOther' BY <1>2, SameRecord
<1>6. UnfinishedHasGenerator' BY <1>2, StillUnfinished
<1>7. DownloadsAreServed' /\ PairAgrees'
  BY <1>2 DEF IInv, TypeOK, DownloadsAreServed, PairAgrees
<1> QED BY <1>1, <1>4, <1>5, <1>6, <1>7, StepInv

LEMMA StartProcessingInv ==
  ASSUME IInv, TypeOK', NEW r \in Requests, StartProcessing(r)
  PROVE  IInv'
<1> USE DEF StartProcessing, worldVars, historyVars, memoryVars, Current
<1>0. \A q \in Requests, k \in Kinds : <<q, k>> \in Artifact
  BY DEF Artifact
<1>1. OnlyMoves(r) BY <1>0 DEF OnlyMoves, IInv, TypeOK
<1>2. /\ gpc[r] = "ready" /\ gpc' = [gpc EXCEPT ![r] = "processing"]
      /\ rows' = [rows EXCEPT ![<<r, turn[r]>>] = "processing"]
      /\ UNCHANGED <<files, evs, turn, replaced, room, chosen>>
      /\ <<r, turn[r]>> \in Artifact
  BY <1>0 DEF IInv, TypeOK
<1>3. /\ Filling(r)
      /\ turn[r] = "pdf" => Settled(<<r, "excel">>)
      /\ turn[r] = "excel" => NoFiles(r)
  BY <1>2 DEF IInv, Stands
<1>4. Stands(r)'
  <2>1. Filling(r)' BY <1>2, <1>3 DEF Filling
  <2>2. turn[r] = "pdf" => Settled(<<r, "excel">>)'
    BY <1>0, <1>2, <1>3 DEF Settled, IInv, TypeOK
  <2>3. turn[r] = "excel" => NoFiles(r)' BY <1>2, <1>3 DEF NoFiles
  <2> QED BY <1>2, <2>1, <2>2, <2>3 DEF Stands, IInv, TypeOK
<1>5. OnRecord' = OnRecord
  BY <1>2, ArtifactsAssumption DEF OnRecord, Status, IInv, TypeOK
<1>6. PairsReplaceEachOther' BY <1>2, <1>5, SameRecord
<1>7. UnfinishedHasGenerator'
  <2>1. \A a \in Artifact : a[1] # r => rows'[a] = rows[a]
    BY <1>2 DEF IInv, TypeOK
  <2> QED BY <2>1, <1>2, StillUnfinished
<1>8. DownloadsAreServed' /\ PairAgrees'
  BY <1>2 DEF IInv, TypeOK, DownloadsAreServed, PairAgrees
<1> QED BY <1>1, <1>4, <1>6, <1>7, <1>8, StepInv

\* What RenderExcel, RenderPinned and RenderPdf write.
LEMMA RenderInv ==
  ASSUME IInv, TypeOK', NEW r \in Requests, NEW content \in SUBSET Evidences,
         gpc[r] = "processing", Render(r, content),
         turn[r] = "excel" => content = evs[r] \cap room'[r] \/ UNCHANGED files,
         turn[r] = "pdf" => content \subseteq evs[r] /\ UNCHANGED room,
         \A q \in Requests \ {r} : room'[q] = room[q]
  PROVE  IInv'
<1> USE DEF Render, worldVars, historyVars, Current
<1>0. /\ \A q \in Requests, k \in Kinds : <<q, k>> \in Artifact
      /\ content # NULL
  BY ArtifactsAssumption DEF Artifact
<1>1. OnlyMoves(r) BY <1>0 DEF OnlyMoves, IInv, TypeOK
<1>2. /\ gpc' = [gpc EXCEPT ![r] = "rendered"]
      /\ UNCHANGED <<rows, evs, turn, replaced, chosen>> /\ OnRecord' = OnRecord
      /\ \/ /\ files' = [files EXCEPT ![<<r, turn[r]>>] = content]
            /\ outcome' = [outcome EXCEPT ![r] = "completed"]
         \/ UNCHANGED files /\ outcome' = [outcome EXCEPT ![r] = "failed"]
      /\ turn[r] \in Kinds
  BY DEF OnRecord, IInv, TypeOK
<1>3. /\ Filling(r)
      /\ turn[r] = "pdf" => Settled(<<r, "excel">>)
      /\ turn[r] = "excel" => NoFiles(r)
  BY DEF IInv, Stands
<1>a. /\ \A a \in Artifact : files'[a] \in {files[a], content}
      /\ \A a \in Artifact : a # <<r, turn[r]>> => files'[a] = files[a]
  <2>1. files \in [Artifact -> (SUBSET Evidences) \cup {NULL}]
    BY DEF IInv, TypeOK
  <2>2. files' = files \/ files' = [files EXCEPT ![<<r, turn[r]>>] = content]
    BY <1>2
  <2> HIDE DEF Render
  <2> QED BY <2>1, <2>2
<1>4. Filling(r)'
  <2>0. <<r, "excel">> \in Artifact /\ <<r, "pdf">> \in Artifact
    BY <1>0 DEF Kinds
  <2>1. CASE turn[r] = "excel"
    <3>1. files'[<<r, "pdf">>] = files[<<r, "pdf">>] /\ files[<<r, "excel">>] = NULL
      BY <2>0, <2>1, <1>a, <1>3 DEF NoFiles, Kinds
    <3>2. files'[<<r, "excel">>] \in {NULL, evs[r] \cap room'[r]}
      BY <3>1, <2>0, <2>1, <1>a
    <3> QED BY <3>1, <3>2, <2>1, <1>2, <1>3 DEF Filling
  <2>2. CASE turn[r] = "pdf"
    <3>1. files'[<<r, "excel">>] = files[<<r, "excel">>]
      BY <2>0, <2>2, <1>a
    <3> QED BY <3>1, <2>0, <2>2, <1>a, <1>2, <1>3 DEF Filling
  <2> QED BY <2>1, <2>2, <1>2 DEF Kinds
<1>5. Rendered(r)'
  BY <1>0, <1>2 DEF Rendered, IInv, TypeOK
<1>6. Stands(r)'
  BY <1>2, <1>3, <1>4, <1>5 DEF Stands, Settled, IInv, TypeOK
<1>7. PairsReplaceEachOther' BY <1>2, SameRecord
<1>8. UnfinishedHasGenerator' BY <1>2, StillUnfinished
<1>9. DownloadsAreServed'
  <2>1. \A a \in Artifact : files[a] # NULL => files'[a] # NULL
    BY <1>0, <1>a
  <2>2. \A q \in Requests : gpc'[q] = "found" =>
          gpc[q] = "found" /\ chosen[q] \in Artifact /\ chosen'[q] = chosen[q]
    BY <1>2 DEF IInv, TypeOK, Stands
  <2> QED BY <2>1, <2>2, <1>2 DEF IInv, DownloadsAreServed
<1>10. PairAgrees'
  <2> SUFFICES ASSUME NEW q \in Requests, (files[<<q, "excel">>] # NULL)',
                      (files[<<q, "pdf">>] # NULL)'
               PROVE  (files[<<q, "pdf">>] \cap room[q] \subseteq files[<<q, "excel">>])'
    BY DEF PairAgrees
  <2>1. CASE q = r BY <2>1, <1>2, <1>4 DEF Filling
  <2>2. CASE q # r BY <2>2, <1>1 DEF OnlyMoves, Kinds, IInv, PairAgrees
  <2> QED BY <2>1, <2>2
<1> QED BY <1>1, <1>6, <1>7, <1>8, <1>9, <1>10, StepInv

\* RenderExcel and RenderPinned.
LEMMA FillSheetInv ==
  ASSUME IInv, TypeOK', NEW r \in Requests,
         gpc[r] = "processing", turn[r] = "excel", FillSheet(r)
  PROVE  IInv'
<1>1. PICK place \in SUBSET Evidences :
        /\ Render(r, evs[r] \cap place)
        /\ room' = IF outcome'[r] = "completed" THEN [room EXCEPT ![r] = place] ELSE room
  BY DEF FillSheet
<1>2. \A q \in Requests \ {r} : room'[q] = room[q]
  BY <1>1 DEF IInv, TypeOK
<1>3. room'[r] = place \/ UNCHANGED files
  BY <1>1 DEF Render, IInv, TypeOK
<1> QED BY <1>1, <1>2, <1>3, RenderInv

LEMMA RenderNothingInv ==
  ASSUME IInv, TypeOK', NEW r \in Requests, RenderNothing(r)
  PROVE  IInv'
<1> USE DEF RenderNothing, worldVars, historyVars, storeVars
<1>1. OnlyMoves(r) BY DEF OnlyMoves, IInv, TypeOK
<1>2. /\ gpc[r] = "processing" /\ gpc' = [gpc EXCEPT ![r] = "rendered"]
      /\ outcome' = [outcome EXCEPT ![r] = "failed"] /\ turn[r] = "excel"
      /\ UNCHANGED <<rows, files, evs, turn, replaced, room, chosen>> /\ OnRecord' = OnRecord
  BY DEF OnRecord
<1>3. Filling(r) BY <1>2 DEF IInv, Stands
<1>4. Stands(r)'
  <2>1. Filling(r)' BY <1>2, <1>3 DEF Filling
  <2>2. Rendered(r)' BY <1>2 DEF Rendered, IInv, TypeOK
  <2> QED BY <1>2, <2>1, <2>2 DEF Stands, IInv, TypeOK
<1>5. PairsReplaceEachOther' BY <1>2, SameRecord
<1>6. UnfinishedHasGenerator' BY <1>2, StillUnfinished
<1>7. DownloadsAreServed' /\ PairAgrees'
  BY <1>2 DEF IInv, TypeOK, DownloadsAreServed, PairAgrees
<1> QED BY <1>1, <1>4, <1>5, <1>6, <1>7, StepInv


LEMMA CommitArtifactInv ==
  ASSUME IInv, TypeOK', NEW r \in Requests, CommitArtifact(r)
  PROVE  IInv'
<1> USE DEF CommitArtifact, worldVars, historyVars, Current
<1>0. \A q \in Requests, k \in Kinds : <<q, k>> \in Artifact
  BY DEF Artifact
<1>1. OnlyMoves(r) BY <1>0 DEF OnlyMoves, IInv, TypeOK
<1>2. /\ gpc[r] = "rendered"
      /\ gpc' = [gpc EXCEPT ![r] = IF turn[r] = "pdf" THEN "filled" ELSE "ready"]
      /\ rows' = [rows EXCEPT ![<<r, turn[r]>>] = outcome[r]]
      /\ turn' = [turn EXCEPT ![r] = "pdf"]
      /\ UNCHANGED <<files, evs, replaced, room, chosen>>
      /\ <<r, turn[r]>> \in Artifact /\ turn[r] \in Kinds
  BY <1>0 DEF IInv, TypeOK
<1>3. Filling(r) /\ Rendered(r) /\ (turn[r] = "pdf" => Settled(<<r, "excel">>))
  BY <1>2 DEF IInv, Stands
<1>4. Filling(r)' BY <1>2, <1>3 DEF Filling
<1>5. /\ rows'[<<r, turn[r]>>] \in {"completed", "failed"}
      /\ \A a \in Artifact : a # <<r, turn[r]>> => rows'[a] = rows[a]
  BY <1>2, <1>3 DEF Rendered, IInv, TypeOK
<1>6. Settled(<<r, "excel">>)'
  <2>1. CASE turn[r] = "excel" BY <2>1, <1>5 DEF Settled
  <2>2. CASE turn[r] = "pdf" BY <2>2, <1>0, <1>3, <1>5 DEF Settled, Kinds
  <2> QED BY <2>1, <2>2, <1>2 DEF Kinds
<1>7. turn[r] = "pdf" => \A k \in Kinds : Settled(<<r, k>>)'
  BY <1>5, <1>6 DEF Settled, Kinds
<1>8. Stands(r)'
  BY <1>2, <1>4, <1>6, <1>7 DEF Stands, IInv, TypeOK
<1>9. OnRecord' = OnRecord
  <2>1. rows'[<<r, turn[r]>>] # NULL /\ rows[<<r, turn[r]>>] # NULL
    BY <1>5, ArtifactsAssumption DEF Status, OnRecord
  <2> QED BY <2>1, <1>5 DEF OnRecord
<1>10. PairsReplaceEachOther' BY <1>2, <1>9, SameRecord
<1>11. UnfinishedHasGenerator'
  <2>1. \A a \in Artifact : a[1] # r => rows'[a] = rows[a]
    BY <1>5
  <2>2. CASE turn[r] = "pdf"
    <3>1. gpc' = [gpc EXCEPT ![r] = "filled"] BY <1>2, <2>2
    <3> HIDE DEF CommitArtifact
    <3> QED BY <3>1, <2>1, StillUnfinished
  <2>3. CASE turn[r] # "pdf"
    <3>1. gpc' = [gpc EXCEPT ![r] = "ready"] BY <1>2, <2>3
    <3> HIDE DEF CommitArtifact
    <3> QED BY <3>1, <2>1, StillUnfinished
  <2> QED BY <2>2, <2>3
<1>12. DownloadsAreServed'
  <2>1. \A a \in Artifact : rows'[a] = "completed" => files[a] # NULL
    BY <1>2, <1>3, <1>5 DEF Rendered, IInv, DownloadsAreServed, TypeOK
  <2>2. \A q \in Requests : gpc'[q] = "found" => gpc[q] = "found"
    BY <1>2 DEF IInv, TypeOK
  <2> QED BY <2>1, <2>2, <1>2 DEF IInv, DownloadsAreServed
<1>13. PairAgrees' BY <1>2 DEF IInv, PairAgrees
<1> QED BY <1>1, <1>8, <1>10, <1>11, <1>12, <1>13, StepInv

\* A handler that is over: Answer, RowLost, Serve and Fail.
LEMMA EndsInv ==
  ASSUME IInv, TypeOK', NEW r \in Requests, NEW phase \in {"done", "failed"},
         Ends(r, phase), UNCHANGED <<rows, files, historyVars>>,
         phase = "done" => \A k \in Kinds : Settled(<<r, k>>)
  PROVE  IInv'
<1> USE DEF Ends, historyVars
<1>1. OnlyMoves(r) BY DEF OnlyMoves, IInv, TypeOK
<1>2. Stands(r)' BY DEF Stands, IInv, TypeOK
<1>3. PairsReplaceEachOther' BY SameRecord DEF OnRecord
<1>4. UnfinishedHasGenerator' BY StillUnfinished
<1>5. DownloadsAreServed' /\ PairAgrees'
  BY DEF IInv, TypeOK, DownloadsAreServed, PairAgrees
<1> QED BY <1>1, <1>2, <1>3, <1>4, <1>5, StepInv

\* A request that has generated nothing has no row to be finished.
LEMMA UnbornSettled ==
  ASSUME NEW r \in Requests, Unborn(r), NEW k \in Kinds
  PROVE  Settled(<<r, k>>)
BY DEF Unborn, Settled, Mine, OnRecord, Artifact

LEMMA LoadArtifactInv ==
  ASSUME IInv, TypeOK', NEW r \in Requests, NEW a \in OnRecord, LoadArtifact(r, a)
  PROVE  IInv'
<1> USE DEF LoadArtifact, worldVars, historyVars, storeVars
<1>1. OnlyMoves(r) BY DEF OnlyMoves, IInv, TypeOK
<1>2. /\ gpc[r] = "idle" /\ a \in Artifact
      /\ UNCHANGED <<rows, files, snap, evs, turn, replaced, room>> /\ OnRecord' = OnRecord
      /\ \/ /\ gpc' = [gpc EXCEPT ![r] = "found"] /\ rows[a] = "completed"
            /\ chosen' = [chosen EXCEPT ![r] = a]
         \/ gpc' = [gpc EXCEPT ![r] = "done"] /\ UNCHANGED chosen
  BY DEF OnRecord
<1>3. Unborn(r) /\ NoFiles(r) /\ turn[r] = "excel"
  BY <1>2 DEF IInv, Stands
<1>4. Unborn(r)' BY <1>2, <1>3 DEF Unborn, Mine
<1>5. Stands(r)'
  BY <1>2, <1>3, <1>4 DEF Stands, NoFiles, IInv, TypeOK
<1>6. PairsReplaceEachOther' BY <1>2, SameRecord
<1>7. UnfinishedHasGenerator'
  BY <1>2, <1>3, UnbornSettled, StillUnfinished
<1>8. DownloadsAreServed'
  BY <1>2 DEF IInv, TypeOK, DownloadsAreServed
<1>9. PairAgrees' BY <1>2 DEF IInv, PairAgrees
<1> QED BY <1>1, <1>5, <1>6, <1>7, <1>8, <1>9, StepInv

LEMMA StepKeepsInv ==
  ASSUME IInv, TypeOK', NEW r \in Requests, Step(r)
  PROVE  IInv'
<1> USE DEF worldVars, historyVars, storeVars
<1>0. /\ evs[r] \in SUBSET Evidences
      /\ \A S \in SUBSET documents : evs[r] \cap S \in SUBSET Evidences
      /\ turn[r] \in Kinds
  BY DEF IInv, TypeOK
<1>1. CASE StartGeneration(r) BY <1>1, StartGenerationInv
<1>2. CASE ReplacePair(r) BY <1>2, ReplacePairInv
<1>3. CASE LoadSnapshot(r) BY <1>3, LoadSnapshotInv
<1>4. CASE StartProcessing(r) BY <1>4, StartProcessingInv
<1>5. CASE RenderExcel(r)
  BY <1>5, FillSheetInv DEF RenderExcel
<1>6. CASE RenderPinned(r)
  BY <1>6, FillSheetInv DEF RenderPinned
<1>7. CASE RenderNothing(r) BY <1>7, RenderNothingInv
<1>8. CASE RenderPdf(r)
  BY <1>0, <1>8, RenderInv DEF RenderPdf
<1>9. CASE CommitArtifact(r) BY <1>9, CommitArtifactInv
<1>10. CASE Answer(r)
  <2>1. \A k \in Kinds : Settled(<<r, k>>) BY <1>10 DEF Answer, IInv, Stands
  <2> QED BY <1>10, <2>1, EndsInv DEF Answer
<1>11. CASE RowLost(r) BY <1>11, EndsInv DEF RowLost
<1>12. CASE \E a \in OnRecord : LoadArtifact(r, a)
  BY <1>12, LoadArtifactInv
<1>13. CASE Serve(r)
  <2>1. Unborn(r) BY <1>13 DEF Serve, IInv, Stands
  <2>2. \A k \in Kinds : Settled(<<r, k>>) BY <2>1, UnbornSettled
  <2> QED BY <1>13, <2>2, EndsInv DEF Serve
<1> QED
  BY <1>1, <1>2, <1>3, <1>4, <1>5, <1>6, <1>7, <1>8, <1>9, <1>10, <1>11, <1>12,
     <1>13
  DEF Step

LEMMA ArtifactsNextInv == IInv /\ [Next]_vars => IInv'
<1> SUFFICES ASSUME IInv, [Next]_vars PROVE IInv'
  OBVIOUS
<1>0. TypeOK' BY ArtifactsTypeStep DEF IInv
<1>1. CASE UNCHANGED vars
  BY <1>0, <1>1, UnmovedInv DEF vars, artifactVars, storeVars
<1>2. CASE TemplatesNext /\ UNCHANGED artifactVars
  BY <1>0, <1>2, UnmovedInv DEF artifactVars, storeVars
<1>3. CASE EvidencesMove
  BY <1>0, <1>3, UnmovedInv DEF EvidencesMove, storeVars
<1>4. ASSUME NEW r \in Requests, Step(r) PROVE IInv'
  BY <1>0, <1>4, StepKeepsInv
<1>5. ASSUME NEW r \in Requests, Fail(r) PROVE IInv'
  BY <1>0, <1>5, EndsInv DEF Fail, storeVars
<1>6. CASE Repin
  BY <1>0, <1>6, UnmovedInv DEF Repin
<1> QED BY <1>1, <1>2, <1>3, <1>4, <1>5, <1>6 DEF Next

LEMMA ArtifactsInvariance == Spec => []IInv
BY ArtifactsInitInv, ArtifactsNextInv, PTL DEF Spec

-----------------------------------------------------------------------------

\* Every reachable state of the artifacts and of the templates has the declared
\* types; in particular settlements.template_id always names a template.
THEOREM TypeCorrect == Spec => []TypeOK
BY ArtifactsInvariance, PTL DEF IInv

\* resolve_download finds the file of every artifact it loaded as completed,
\* whatever generations commit in between.
THEOREM EveryDownloadServed == Spec => []DownloadsAreServed
BY ArtifactsInvariance, PTL DEF IInv

\* Of any number of generations, two leave their rows side by side only if
\* neither DELETE could see the other pair.
THEOREM PairsAlone == Spec => []PairsReplaceEachOther
BY ArtifactsInvariance, PTL DEF IInv

\* generate_artifacts answers only after both documents came to an end: a row
\* that is queued or processing has its generation at work, or it died.
THEOREM NoForgottenRow == Spec => []UnfinishedHasGenerator
BY ArtifactsInvariance, PTL DEF IInv

\* The PDF of a pair shows no evidence that its spreadsheet has a place for and
\* lacks, although the two are rendered and committed apart.
THEOREM PairsAgree == Spec => []PairAgrees
BY ArtifactsInvariance, PTL DEF IInv

\* Artifacts moves the templates as Templates says: its theorems hold here.
THEOREM ImplementsTemplates == Spec => TemplatesSpec
<1>1. Init => TemplatesInit BY DEF Init
<1>2. [Next]_vars => [TemplatesNext]_templateVars
  BY DEF Next, vars
<1> QED BY <1>1, <1>2, PTL DEF Spec, TemplatesSpec

=============================================================================
