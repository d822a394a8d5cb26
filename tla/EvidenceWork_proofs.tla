------------------------ MODULE EvidenceWork_proofs ------------------------
(***************************************************************************)
(* Theorems about EvidenceWork, for any set of requests.                   *)
(***************************************************************************)
EXTENDS EvidenceWork, TLAPS

Touches(r) ==
  StartExtraction(r) \/ FinishExtraction(r) \/ FailExtraction(r) \/ Review(r)

\* What an UPDATE by the session of r does: it writes the row, if it is still
\* there, and the status and the category only if they changed in the
\* session's copy.
UpdateEffect(r, new, phase) ==
  LET e == target[r] IN
  /\ \/ /\ evidence[e] # NULL
        /\ \E row \in Evidence :
             /\ evidence' = [evidence EXCEPT ![e] = row]
             /\ row.status = IF new.status # seen[r].status
                               THEN new.status ELSE evidence[e].status
             /\ row.category = IF new.category # seen[r].category
                                 THEN new.category ELSE evidence[e].category
        /\ marked' = IF new.status # seen[r].status
                        THEN [marked EXCEPT ![e] = r] ELSE marked
        /\ seen' = [seen EXCEPT ![r] = new]
        /\ pc' = [pc EXCEPT ![r] = phase]
     \/ /\ evidence[e] = NULL
        /\ \E p \in {phase, "failed"} : pc' = [pc EXCEPT ![r] = p]
        /\ new # seen[r] => pc' = [pc EXCEPT ![r] = "failed"]
        /\ UNCHANGED <<evidence, marked, seen>>
  /\ UNCHANGED <<flowVars, files, op, target, knew>>

\* The category of the copy a session commits: an extraction sets one where
\* there is none, a review sets it or clears it.
Reclassifies(r, new) ==
  /\ op[r] = "extract" =>
       \/ new.category = seen[r].category
       \/ seen[r].category = NULL /\ new.category = r
  /\ op[r] = "review" => new.category \in {r, seen[r].category, NULL}

LEMMA UpdateFacts ==
  ASSUME TypeOK, NEW r \in Requests, seen[r] \in Evidence,
         NEW new \in Evidence, NEW phase, Update(r, new, phase)
  PROVE  UpdateEffect(r, new, phase)
<1> DEFINE e == target[r]
           flushed == [c \in {"status", "amount", "category"} |->
                         IF new[c] # seen[r][c] THEN new[c] ELSE evidence[e][c]]
<1>1. e \in Requests
  BY DEF TypeOK
<1>2. UNCHANGED <<flowVars, files, op, target, knew>>
  BY DEF Update, requestVars
<1>3. CASE evidence[e] # NULL
  <2>1. evidence[e] \in Evidence
    BY <1>1, <1>3 DEF TypeOK
  <2>2. flushed \in Evidence
    BY <2>1 DEF Evidence
  <2>3. flushed.status = IF new.status # seen[r].status
                           THEN new.status ELSE evidence[e].status
    OBVIOUS
  <2>4. flushed.category = IF new.category # seen[r].category
                             THEN new.category ELSE evidence[e].category
    OBVIOUS
  <2>5. /\ evidence' = [evidence EXCEPT ![e] = flushed]
        /\ marked' = IF new.status # seen[r].status
                        THEN [marked EXCEPT ![e] = r] ELSE marked
        /\ seen' = [seen EXCEPT ![r] = new]
        /\ pc' = [pc EXCEPT ![r] = phase]
    BY <1>3 DEF Update
  <2> HIDE DEF flushed
  <2> QED
    BY <1>2, <1>3, <2>2, <2>3, <2>4, <2>5 DEF UpdateEffect
<1>4. CASE evidence[e] = NULL
  BY <1>2, <1>4 DEF Update, UpdateEffect, rowVars
<1> QED
  BY <1>3, <1>4

\* What r makes of its copy, given where it stands.
Work(r, new, phase) ==
  /\ Reclassifies(r, new)
  /\ phase = "extracting" => /\ pc[r] = "checked"
                             /\ op[r] = "extract"
                             /\ new = [seen[r] EXCEPT !.status = "extracting"]
  /\ phase = "done" /\ op[r] = "extract" =>
       pc[r] = "extracting" /\ new.status \in {"needs_review", "failed"}
  /\ op[r] = "review" => phase = "done" /\ pc[r] = "checked"

\* Which update each of the four operations makes.
LEMMA TouchIsUpdate ==
  ASSUME TypeOK, NEW r \in Requests, Touches(r)
  PROVE  /\ seen[r] \in Evidence
         /\ op[r] \in {"extract", "review"}
         /\ pc[r] \in {"checked", "extracting"}
         /\ \E new \in Evidence, phase \in {"extracting", "done"} :
              /\ UpdateEffect(r, new, phase)
              /\ Work(r, new, phase)
<1>1. /\ op[r] \in {"extract", "review"}
      /\ pc[r] \in {"checked", "extracting"}
  BY DEF Touches, StartExtraction, FinishExtraction, FailExtraction, Review,
         TypeOK
<1>2. seen[r] \in Evidence
  BY <1>1 DEF TypeOK, AllOps
<1>3. CASE StartExtraction(r)
  <2>1. [seen[r] EXCEPT !.status = "extracting"] \in Evidence
    BY <1>2 DEF Evidence, EvidenceStatus
  <2>2. Reclassifies(r, [seen[r] EXCEPT !.status = "extracting"])
    BY <1>2 DEF Reclassifies, Evidence
  <2>3. UpdateEffect(r, [seen[r] EXCEPT !.status = "extracting"], "extracting")
    BY <1>2, <1>3, <2>1, UpdateFacts DEF StartExtraction
  <2>4. Work(r, [seen[r] EXCEPT !.status = "extracting"], "extracting")
    BY <1>3, <2>2 DEF StartExtraction, Work
  <2> QED
    BY <1>1, <1>2, <2>1, <2>3, <2>4
<1>4. CASE FinishExtraction(r)
  <2>1. PICK amount \in {r, seen[r].amount},
             category \in {seen[r].category}
                           \cup IF seen[r].category = NULL THEN {r} ELSE {} :
          Update(r, [status |-> "needs_review", amount |-> amount,
                     category |-> category], "done")
    BY <1>4 DEF FinishExtraction
  <2>2. [status |-> "needs_review", amount |-> amount, category |-> category]
          \in Evidence
    BY <1>2 DEF Evidence, EvidenceStatus
  <2>3. pc[r] = "extracting" /\ op[r] = "extract"
    BY <1>4 DEF FinishExtraction, TypeOK
  <2>4. Reclassifies(r, [status |-> "needs_review", amount |-> amount,
                         category |-> category])
    BY <2>3 DEF Reclassifies
  <2>5. UpdateEffect(r, [status |-> "needs_review", amount |-> amount,
                         category |-> category], "done")
    BY <1>2, <2>1, <2>2, UpdateFacts
  <2>6. Work(r, [status |-> "needs_review", amount |-> amount,
                 category |-> category], "done")
    BY <2>3, <2>4 DEF Work
  <2> QED
    BY <1>1, <1>2, <2>2, <2>5, <2>6
<1>5. CASE FailExtraction(r)
  <2>1. [seen[r] EXCEPT !.status = "failed"] \in Evidence
    BY <1>2 DEF Evidence, EvidenceStatus
  <2>2. [seen[r] EXCEPT !.status = "failed"].status = "failed"
    BY <1>2 DEF Evidence
  <2>3. pc[r] = "extracting" /\ op[r] = "extract"
    BY <1>5 DEF FailExtraction, TypeOK
  <2>4. Update(r, [seen[r] EXCEPT !.status = "failed"], "done")
    BY <1>5 DEF FailExtraction
  <2>5. Reclassifies(r, [seen[r] EXCEPT !.status = "failed"])
    BY <1>2, <2>3 DEF Reclassifies, Evidence
  <2>6. UpdateEffect(r, [seen[r] EXCEPT !.status = "failed"], "done")
    BY <1>2, <2>1, <2>4, UpdateFacts
  <2>7. Work(r, [seen[r] EXCEPT !.status = "failed"], "done")
    BY <2>2, <2>3, <2>5 DEF Work
  <2> QED
    BY <1>1, <1>2, <2>1, <2>6, <2>7
<1>6. CASE Review(r)
  <2>1. PICK amount \in {r, seen[r].amount},
             category \in {r, seen[r].category, NULL},
             verdict \in Verdicts \cup {seen[r].status} :
          Update(r, [status |-> verdict, amount |-> amount,
                     category |-> category], "done")
    BY <1>6 DEF Review
  <2>2. [status |-> verdict, amount |-> amount, category |-> category]
          \in Evidence
    BY <1>2, EvidenceAssumption DEF Evidence, EvidenceStatus
  <2>3. pc[r] = "checked" /\ op[r] = "review"
    BY <1>6 DEF Review
  <2>4. Reclassifies(r, [status |-> verdict, amount |-> amount,
                         category |-> category])
    BY <2>3 DEF Reclassifies
  <2>5. UpdateEffect(r, [status |-> verdict, amount |-> amount,
                         category |-> category], "done")
    BY <1>2, <2>1, <2>2, UpdateFacts
  <2>6. Work(r, [status |-> verdict, amount |-> amount,
                 category |-> category], "done")
    BY <2>3, <2>4 DEF Work
  <2> QED
    BY <1>1, <1>2, <2>2, <2>5, <2>6
<1> QED
  BY <1>3, <1>4, <1>5, <1>6 DEF Touches

-----------------------------------------------------------------------------
(* Type correctness.                                                        *)

LEMMA InitType == Init => TypeOK
BY EvidenceAssumption DEF Init, TypeOK, AllOps, Phase

LEMMA TouchType ==
  ASSUME TypeOK, NEW r \in Requests, Touches(r)
  PROVE  TypeOK'
<1>1. PICK new \in Evidence, phase \in {"extracting", "done"} :
        /\ UpdateEffect(r, new, phase)
        /\ phase = "extracting" => op[r] = "extract"
        /\ op[r] \in {"extract", "review"}
        /\ pc[r] \in {"checked", "extracting"}
  BY TouchIsUpdate DEF Work
<1>2. NULL \notin Evidence
  BY EvidenceAssumption
<1>3. UNCHANGED <<op, target, files, knew>>
  BY <1>1 DEF UpdateEffect
<1>4. marked' \in [Requests -> Requests]
  BY <1>1 DEF UpdateEffect, TypeOK
<1>5. /\ evidence' \in [Requests -> Evidence \cup {NULL}]
      /\ seen' \in [Requests -> Evidence \cup {NULL}]
      /\ \A q \in Requests : seen[q] # NULL => seen'[q] # NULL
  BY <1>1, <1>2 DEF UpdateEffect, TypeOK
<1>6. \E p \in {"extracting", "done", "failed"} :
        pc' = [pc EXCEPT ![r] = p] /\ (p = "extracting" => op[r] = "extract")
  BY <1>1 DEF UpdateEffect
<1> QED
  BY <1>1, <1>3, <1>4, <1>5, <1>6 DEF TypeOK, Phase, AllOps

LEMMA NextType == TypeOK /\ [Next]_vars => TypeOK'
<1> SUFFICES ASSUME TypeOK, [Next]_vars PROVE TypeOK'
  OBVIOUS
<1>1. CASE SettlementMoves
  BY <1>1 DEF SettlementMoves, TypeOK, rowVars, requestVars
<1>2. ASSUME NEW r \in Requests, NEW o \in Ops, NEW e \in Requests,
             Load(r, o, e)
      PROVE  TypeOK'
  <2>1. o \in AllOps /\ o # NULL
    BY EvidenceAssumption
  <2> QED
    BY <1>2, <2>1 DEF Load, TypeOK, Phase, rowVars
<1>3. ASSUME NEW r \in Requests, Check(r) \/ SaveFile(r) \/ Unlink(r) \/ Fail(r)
      PROVE  TypeOK'
  BY <1>3
  DEF Check, SaveFile, Unlink, Fail, TypeOK, Phase, requestVars, rowVars
<1>4. ASSUME NEW r \in Requests, Insert(r)
      PROVE  TypeOK'
  <2>1. PICK category \in {r, NULL} :
          evidence' = [evidence EXCEPT ![r] =
            [status |-> "uploaded", amount |-> NULL, category |-> category]]
    BY <1>4 DEF Insert
  <2>2. [status |-> "uploaded", amount |-> NULL, category |-> category]
          \in Evidence
    BY DEF Evidence, EvidenceStatus
  <2> QED
    BY <1>4, <2>1, <2>2 DEF Insert, TypeOK, Phase, requestVars
<1>5. ASSUME NEW r \in Requests, Remove(r)
      PROVE  TypeOK'
  BY <1>5 DEF Remove, TypeOK, Phase, requestVars
<1>6. ASSUME NEW r \in Requests, Touches(r)
      PROVE  TypeOK'
  BY <1>6, TouchType
<1>7. CASE UNCHANGED vars
  BY <1>7 DEF vars, rowVars, requestVars, TypeOK
<1> QED
  BY <1>1, <1>2, <1>3, <1>4, <1>5, <1>6, <1>7 DEF Next, Step, Touches

\* Every variable keeps its type.
THEOREM TypeCorrect == Spec => []TypeOK
BY InitType, NextType, PTL DEF Spec

-----------------------------------------------------------------------------
(* Rows and files.                                                          *)

\* Rows come from finished uploads, and only those are worked on.
Targeted ==
  /\ \A e \in Requests :
       evidence[e] # NULL => pc[e] = "done" /\ op[e] = "upload"
  /\ \A r \in Requests :
       op[r] \in AllOps \ {"upload"} =>
         pc[target[r]] = "done" /\ op[target[r]] = "upload"

\* What an upload saved is on disk until its row is; what a removal is about
\* to unlink has no row.
Filed ==
  /\ FileBehindEveryRow
  /\ \A r \in Requests : pc[r] = "saved" => r \in files
  /\ \A d \in Requests : pc[d] = "deleted" => evidence[target[d]] = NULL

\* The row of e may say EXTRACTING because of x.
MarkedBy(e, x) ==
  /\ target[x] = e
  /\ \/ op[x] = "extract" /\ pc[x] \in {"extracting", "failed"}
     \/ op[x] = "review"

\* An extraction at work knows its row as EXTRACTING.
Marked ==
  /\ \A e \in Requests :
       evidence[e] # NULL /\ evidence[e].status = "extracting" =>
         MarkedBy(e, marked[e])
  /\ \A x \in Requests : pc[x] = "extracting" => seen[x].status = "extracting"

IInv == TypeOK /\ Targeted /\ Filed /\ Marked /\ NoStrayFiles

LEMMA InitInv == Init => IInv
BY InitType, EvidenceAssumption
DEF Init, IInv, Targeted, Filed, Marked, FileBehindEveryRow,
    NoStrayFiles

LEMMA TouchInv ==
  ASSUME IInv, NEW r \in Requests, Touches(r)
  PROVE  Targeted' /\ Filed' /\ Marked' /\ NoStrayFiles'
<1> DEFINE e == target[r]
<1>1. PICK new \in Evidence, phase \in {"extracting", "done"} :
        UpdateEffect(r, new, phase) /\ Work(r, new, phase)
  BY TouchIsUpdate DEF IInv
<1>2. /\ seen[r] \in Evidence
      /\ op[r] \in {"extract", "review"}
      /\ pc[r] \in {"checked", "extracting"}
      /\ e \in Requests
      /\ TypeOK /\ NULL \notin Evidence
  BY TouchIsUpdate, EvidenceAssumption DEF IInv, TypeOK
<1>3. UNCHANGED <<files, op, target>>
  BY <1>1 DEF UpdateEffect
<1>4. \A q \in Requests : evidence'[q] = NULL <=> evidence[q] = NULL
  BY <1>1, <1>2 DEF UpdateEffect, TypeOK
<1>5. /\ \A q \in Requests \ {r} : pc'[q] = pc[q]
      /\ pc'[r] \in {phase, "failed"}
  BY <1>1, <1>2 DEF UpdateEffect, TypeOK
<1>6. Targeted'
  <2>1. \A q \in Requests : target[q] \in Requests
    BY <1>2 DEF TypeOK
  <2>2. \A q \in Requests : pc[q] = "done" => pc'[q] = "done"
    BY <1>2, <1>5
  <2>3. Targeted
    BY DEF IInv
  <2> QED
    BY <1>3, <1>4, <2>1, <2>2, <2>3 DEF Targeted
<1>7. Filed'
  BY <1>2, <1>3, <1>4, <1>5 DEF IInv, Filed, FileBehindEveryRow, TypeOK
<1>8. NoStrayFiles'
  BY <1>2, <1>3, <1>4, <1>5 DEF IInv, NoStrayFiles, TypeOK
<1>9. ASSUME NEW q \in Requests, evidence'[q] # NULL,
             evidence'[q].status = "extracting"
      PROVE  MarkedBy(q, marked[q])'
  <2>1. marked[q] \in Requests /\ marked'[q] \in Requests
    BY <1>1, <1>2 DEF UpdateEffect, TypeOK
  <2>2. ASSUME evidence[q] # NULL, evidence[q].status = "extracting",
               marked'[q] = marked[q],
               q = e => op[r] = "review" \/ phase = "extracting"
        PROVE  MarkedBy(q, marked[q])'
    <3>1. MarkedBy(q, marked[q])
      BY <2>2 DEF IInv, Marked
    <3>2. ASSUME marked[q] = r, op[r] = "extract", pc[r] = "extracting"
          PROVE  FALSE
      BY <1>1, <2>2, <3>1, <3>2 DEF MarkedBy, Work
    <3> QED
      BY <1>2, <1>3, <1>5, <2>1, <2>2, <3>1, <3>2 DEF MarkedBy
  <2>3. CASE q # e
    BY <1>1, <1>2, <1>4, <1>9, <2>2, <2>3 DEF UpdateEffect, TypeOK
  <2>4. CASE q = e
    <3>1. /\ evidence[e] # NULL
          /\ evidence'[e].status = IF new.status # seen[r].status
                                     THEN new.status ELSE evidence[e].status
          /\ marked'[e] = IF new.status # seen[r].status THEN r ELSE marked[e]
          /\ pc'[r] = phase
      BY <1>1, <1>2, <1>4, <1>9, <2>4 DEF UpdateEffect, TypeOK
    <3>2. CASE new.status # seen[r].status
      BY <1>1, <1>2, <1>3, <1>9, <2>4, <3>1, <3>2 DEF MarkedBy, Work
    <3>3. CASE new.status = seen[r].status
      <4>1. op[r] = "review" \/ phase = "extracting"
        BY <1>1, <1>2, <3>3 DEF IInv, Marked, Work
      <4> QED
        BY <1>9, <2>2, <2>4, <3>1, <3>3, <4>1
    <3> QED
      BY <3>2, <3>3
  <2> QED
    BY <2>3, <2>4
<1>10. ASSUME NEW x \in Requests, pc'[x] = "extracting"
       PROVE  seen'[x].status = "extracting"
  <2>1. CASE x = r
    <3>1. /\ phase = "extracting"
          /\ new = [seen[r] EXCEPT !.status = "extracting"]
      BY <1>1, <1>5, <1>10, <2>1 DEF Work
    <3>2. new.status = "extracting"
      BY <1>2, <3>1 DEF Evidence
    <3>3. pc' # [pc EXCEPT ![r] = "failed"]
      BY <1>2, <1>10, <2>1 DEF TypeOK
    <3>4. seen'[r] = new
      BY <1>1, <1>2, <3>3 DEF UpdateEffect, TypeOK
    <3> QED
      BY <2>1, <3>2, <3>4
  <2>2. CASE x # r
    BY <1>1, <1>2, <1>5, <1>10, <2>2 DEF UpdateEffect, IInv, Marked, TypeOK
  <2> QED
    BY <2>1, <2>2
<1>11. Marked'
  BY <1>9, <1>10 DEF Marked
<1> QED
  BY <1>6, <1>7, <1>8, <1>11

LEMMA NextInv == IInv /\ [Next]_vars => IInv'
<1> SUFFICES ASSUME IInv, [Next]_vars PROVE IInv'
  OBVIOUS
<1>1. TypeOK /\ TypeOK' /\ NULL \notin AllOps
  BY NextType, EvidenceAssumption DEF IInv
<1> SUFFICES Targeted' /\ Filed' /\ Marked' /\ NoStrayFiles'
  BY <1>1 DEF IInv
<1> USE DEF IInv, Targeted, Filed, Marked, FileBehindEveryRow,
            MarkedBy, NoStrayFiles, rowVars
<1>2. CASE SettlementMoves
  BY <1>2 DEF SettlementMoves, requestVars
<1>3. ASSUME NEW r \in Requests, NEW o \in Ops, NEW e \in Requests,
             Load(r, o, e)
      PROVE  Targeted' /\ Filed' /\ Marked' /\ NoStrayFiles'
  <2>1. /\ pc[r] = "idle" /\ op[r] = NULL
        /\ IF o = "upload" THEN e = r ELSE pc[e] = "done" /\ op[e] = "upload"
    BY <1>1, <1>3 DEF Load, TypeOK
  <2>2. /\ op' = [op EXCEPT ![r] = o]
        /\ target' = [target EXCEPT ![r] = e]
        /\ seen' = [seen EXCEPT ![r] = evidence[e]]
        /\ pc' = [pc EXCEPT ![r] = "loaded"]
        /\ evidence' = evidence /\ files' = files /\ marked' = marked
    BY <1>3 DEF Load
  <2>3. \A q \in Requests : q # r => /\ op'[q] = op[q]
                                   /\ target'[q] = target[q]
                                   /\ seen'[q] = seen[q]
                                   /\ pc'[q] = pc[q]
    BY <1>1, <2>2 DEF TypeOK
  <2>4. Targeted'
    BY <1>1, <2>1, <2>2 DEF TypeOK
  <2>5. Filed'
    <3>1. \A d \in Requests : pc'[d] = "deleted" \/ pc'[d] = "saved" => d # r
      BY <1>1, <2>2 DEF TypeOK
    <3> QED
      BY <2>2, <2>3, <3>1
  <2>6. Marked'
    <3>1. ASSUME NEW q \in Requests, MarkedBy(q, marked[q])
          PROVE  MarkedBy(q, marked[q])'
      <4>1. marked[q] \in Requests
        BY <1>1 DEF TypeOK
      <4>2. op[marked[q]] # NULL
        BY <1>1, <3>1 DEF AllOps
      <4>3. marked[q] # r
        BY <2>1, <4>2
      <4> QED
        BY <2>2, <2>3, <3>1, <4>1, <4>3
    <3>2. \A x \in Requests : pc'[x] = "extracting" => x # r
      BY <1>1, <2>2 DEF TypeOK
    <3> HIDE DEF MarkedBy
    <3> QED
      BY <2>2, <2>3, <3>1, <3>2
  <2>7. NoStrayFiles'
    <3> SUFFICES ASSUME NEW q \in files, evidence[q] = NULL
                 PROVE  \/ pc'[q] \in {"saved", "failed"}
                        \/ \E d \in Requests :
                             /\ op'[d] = "remove" /\ target'[d] = q
                             /\ pc'[d] \in {"deleted", "failed"}
      BY <2>2
    <3>1. \/ pc[q] \in {"saved", "failed"}
          \/ \E d \in Requests : /\ op[d] = "remove" /\ target[d] = q
                                /\ pc[d] \in {"deleted", "failed"}
      OBVIOUS
    <3>2. q \in Requests
      BY <1>1 DEF TypeOK
    <3> QED
      BY <2>1, <2>3, <3>1, <3>2
  <2> QED
    BY <2>4, <2>5, <2>6, <2>7
<1>4. ASSUME NEW r \in Requests, Check(r)
      PROVE  Targeted' /\ Filed' /\ Marked' /\ NoStrayFiles'
  BY <1>1, <1>4 DEF Check, TypeOK, requestVars
<1>5. ASSUME NEW r \in Requests, SaveFile(r)
      PROVE  Targeted' /\ Filed' /\ Marked' /\ NoStrayFiles'
  BY <1>1, <1>5 DEF SaveFile, TypeOK, requestVars
<1>6. ASSUME NEW r \in Requests, Insert(r)
      PROVE  Targeted' /\ Filed' /\ Marked' /\ NoStrayFiles'
  <2>1. PICK category \in {r, NULL} :
          evidence' = [evidence EXCEPT ![r] =
            [status |-> "uploaded", amount |-> NULL, category |-> category]]
    BY <1>6 DEF Insert
  <2>2. /\ evidence'[r] # NULL /\ evidence'[r].status = "uploaded"
        /\ \A q \in Requests \ {r} : evidence'[q] = evidence[q]
    <3>1. [status |-> "uploaded", amount |-> NULL, category |-> category]
            \in Evidence
      BY DEF Evidence, EvidenceStatus
    <3> QED
      BY <1>1, <2>1, <3>1, EvidenceAssumption DEF TypeOK
  <2>3. /\ pc[r] = "saved" /\ op[r] = "upload"
        /\ pc' = [pc EXCEPT ![r] = "done"]
        /\ UNCHANGED <<files, op, target, seen, marked>>
    BY <1>1, <1>6 DEF Insert, TypeOK, requestVars
  <2>4. Targeted'
    BY <1>1, <2>2, <2>3 DEF TypeOK
  <2>5. Filed'
    <3>1. \A d \in Requests : pc[d] = "deleted" => target[d] # r
      BY <1>1, <2>3 DEF TypeOK, AllOps
    <3> QED
      BY <1>1, <2>2, <2>3, <3>1 DEF TypeOK
  <2>6. Marked'
    BY <1>1, <2>2, <2>3 DEF TypeOK
  <2>7. NoStrayFiles'
    BY <1>1, <2>2, <2>3 DEF TypeOK
  <2> QED
    BY <2>4, <2>5, <2>6, <2>7
<1>7. ASSUME NEW r \in Requests, Remove(r)
      PROVE  Targeted' /\ Filed' /\ Marked' /\ NoStrayFiles'
  BY <1>1, <1>7 DEF Remove, TypeOK, requestVars
<1>8. ASSUME NEW r \in Requests, Unlink(r)
      PROVE  Targeted' /\ Filed' /\ Marked' /\ NoStrayFiles'
  <2>1. /\ pc[r] = "deleted" /\ op[r] = "remove"
        /\ target[r] \in Requests /\ evidence[target[r]] = NULL
        /\ pc[target[r]] = "done"
    BY <1>1, <1>8 DEF Unlink, TypeOK, AllOps
  <2> QED
    BY <1>1, <1>8, <2>1 DEF Unlink, TypeOK, requestVars
<1>9. ASSUME NEW r \in Requests, Fail(r)
      PROVE  Targeted' /\ Filed' /\ Marked' /\ NoStrayFiles'
  BY <1>1, <1>9 DEF Fail, TypeOK, requestVars
<1>10. ASSUME NEW r \in Requests, Touches(r)
       PROVE  Targeted' /\ Filed' /\ Marked' /\ NoStrayFiles'
  BY <1>10, TouchInv
<1>11. CASE UNCHANGED vars
  BY <1>11 DEF vars, requestVars
<1> QED
  BY <1>2, <1>3, <1>4, <1>5, <1>6, <1>7, <1>8, <1>9, <1>10, <1>11
  DEF Next, Step, Touches

LEMMA Invariance == Spec => []IInv
BY InitInv, NextInv, PTL DEF Spec

\* Whatever crashes and races, an evidence on record has its document.
THEOREM DocumentsKept == Spec => []FileBehindEveryRow
<1>1. IInv => FileBehindEveryRow
  BY DEF IInv, Filed
<1> QED
  BY <1>1, Invariance, PTL

\* Only dying handlers leave documents without a row behind.
THEOREM NoLitter == Spec => []NoStrayFiles
<1>1. IInv => NoStrayFiles
  BY DEF IInv
<1> QED
  BY <1>1, Invariance, PTL

\* A row says EXTRACTING because an extraction put it so that is at work or
\* died, or because a PATCH did.
THEOREM ExtractionsReport == Spec => []ExtractingHasWorker
<1>1. IInv => ExtractingHasWorker
  BY DEF IInv, Marked, MarkedBy, ExtractingHasWorker
<1> QED
  BY <1>1, Invariance, PTL

-----------------------------------------------------------------------------
(* Steps.                                                                   *)

\* How a step changes a row of the evidence table.
LEMMA WhoWrites ==
  ASSUME IInv, [Next]_vars, NEW e \in Requests, evidence'[e] # evidence[e]
  PROVE  /\ UNCHANGED status
         /\ \E r \in Writers : target[r] = e /\ pc'[r] # pc[r]
         /\ evidence[e] = NULL => pc[e] = "saved"
<1>1. TypeOK
  BY DEF IInv
<1>2. ASSUME NEW r \in Requests, Insert(r)
      PROVE  /\ r = e /\ pc[r] = "saved" /\ target[r] = e
             /\ pc'[r] # pc[r] /\ UNCHANGED status
  BY <1>1, <1>2 DEF Insert, TypeOK, flowVars
<1>3. ASSUME NEW r \in Requests, Remove(r)
      PROVE  /\ target[r] = e /\ pc[r] = "checked" /\ evidence[e] # NULL
             /\ pc'[r] # pc[r] /\ UNCHANGED status
  BY <1>1, <1>3 DEF Remove, TypeOK, flowVars
<1>4. ASSUME NEW r \in Requests, Touches(r)
      PROVE  /\ target[r] = e /\ pc[r] \in {"checked", "extracting"}
             /\ evidence[e] # NULL /\ pc'[r] # pc[r] /\ UNCHANGED status
  <2>1. PICK new \in Evidence, phase \in {"extracting", "done"} :
          /\ UpdateEffect(r, new, phase)
          /\ phase = "extracting" => pc[r] = "checked"
    BY <1>1, <1>4, TouchIsUpdate DEF Work
  <2>2. pc[r] \in {"checked", "extracting"}
    BY <1>1, <1>4, TouchIsUpdate
  <2> QED
    BY <1>1, <2>1, <2>2 DEF UpdateEffect, TypeOK, flowVars
<1>5. \E r \in Requests : Insert(r) \/ Remove(r) \/ Touches(r)
  BY DEF Next, Step, Touches, SettlementMoves, Load, Check, SaveFile, Unlink,
         Fail, vars, rowVars
<1> QED
  BY <1>2, <1>3, <1>4, <1>5 DEF Writers

\* A removed evidence stays removed.
THEOREM RemovedForGood == Spec => NoResurrection
<1>1. IInv /\ [Next]_vars =>
        [\A e \in Requests :
           pc[e] = "done" /\ evidence[e] = NULL => evidence'[e] = NULL]_vars
  BY WhoWrites
<1> QED
  BY <1>1, Invariance, PTL DEF Spec, NoResurrection

-----------------------------------------------------------------------------
(* Categories.                                                              *)

\* A category on record was set by a request that is over.  A request that is
\* over stays so.  An extraction whose copy has no category finds on record
\* none that was set before it loaded the copy: the value it missed has been
\* replaced, and no request sets it again.
CategoriesOK ==
  /\ \A e \in Requests :
       evidence[e] # NULL /\ evidence[e].category # NULL =>
         pc[evidence[e].category] = "done"
  /\ \A r \in Requests : \A q \in knew[r] : pc[q] = "done"
  /\ \A x \in Requests :
       op[x] = "extract" /\ seen[x].category = NULL /\ evidence[target[x]] # NULL =>
         evidence[target[x]].category \notin knew[x]

\* w is setting the category of e; if it is an extraction, its copy has none.
Sets(w, e) ==
  /\ w \in Requests
  /\ pc[w] # "done"
  /\ pc'[w] = "done"
  /\ op[w] = "extract" =>
       evidence[e] # NULL /\ target[w] = e /\ seen[w].category = NULL

\* How a step changes the category of a row, or inserts one.
LEMMA Recategorised ==
  ASSUME IInv, [Next]_vars, NEW e \in Requests, evidence'[e] # NULL,
         evidence[e] # NULL => evidence'[e].category # evidence[e].category,
         evidence'[e].category # NULL
  PROVE  Sets(evidence'[e].category, e)
<1>1. TypeOK /\ NULL \notin Evidence
  BY EvidenceAssumption DEF IInv
<1>2. ASSUME NEW r \in Requests, Insert(r)
      PROVE  Sets(evidence'[e].category, e)
  <2>1. PICK category \in {r, NULL} :
          evidence' = [evidence EXCEPT ![r] =
            [status |-> "uploaded", amount |-> NULL, category |-> category]]
    BY <1>2 DEF Insert
  <2>2. r = e
    BY <1>1, <2>1 DEF TypeOK
  <2>3. evidence'[e].category = r
    BY <1>1, <2>1, <2>2 DEF TypeOK
  <2>4. pc[r] = "saved" /\ op[r] = "upload" /\ pc'[r] = "done"
    BY <1>1, <1>2 DEF Insert, TypeOK
  <2> QED
    BY <2>3, <2>4 DEF Sets
<1>3. ASSUME NEW r \in Requests, Remove(r)
      PROVE  Sets(evidence'[e].category, e)
  BY <1>1, <1>3 DEF Remove, TypeOK
<1>4. ASSUME NEW r \in Requests, Touches(r)
      PROVE  Sets(evidence'[e].category, e)
  <2>1. PICK new \in Evidence, phase \in {"extracting", "done"} :
          UpdateEffect(r, new, phase) /\ Work(r, new, phase)
    BY <1>1, <1>4, TouchIsUpdate
  <2>2. /\ op[r] \in {"extract", "review"}
        /\ pc[r] \in {"checked", "extracting"}
        /\ seen[r] \in Evidence
    BY <1>1, <1>4, TouchIsUpdate
  <2>3. /\ target[r] = e
        /\ evidence[e] # NULL
        /\ evidence'[e].category = new.category
        /\ new.category # seen[r].category
        /\ pc'[r] = phase
    BY <1>1, <2>1 DEF UpdateEffect, TypeOK
  <2>4. new.category = r
    BY <2>1, <2>2, <2>3 DEF Work, Reclassifies
  <2>5. op[r] = "extract" => seen[r].category = NULL
    BY <2>1, <2>3 DEF Work, Reclassifies
  <2>6. phase = "done"
    BY <2>1, <2>2, <2>3 DEF Work, Evidence
  <2> QED
    BY <2>2, <2>3, <2>4, <2>5, <2>6 DEF Sets
<1>5. \E r \in Requests : Insert(r) \/ Remove(r) \/ Touches(r)
  BY DEF Next, Step, Touches, SettlementMoves, Load, Check, SaveFile, Unlink,
         Fail, vars, rowVars
<1> QED
  BY <1>2, <1>3, <1>4, <1>5

\* What a step does to the requests: one of them loads its row, or none does
\* and a copy that has no category had none before.
LEMMA Onward ==
  ASSUME IInv, [Next]_vars
  PROVE  /\ \A q \in Requests : pc[q] = "done" => pc'[q] = "done"
         /\ \/ \E r \in Requests, o \in Ops, e \in Requests : Load(r, o, e)
            \/ /\ UNCHANGED <<op, target, knew>>
               /\ \A x \in Requests :
                    op[x] = "extract" /\ seen'[x].category = NULL =>
                      seen[x].category = NULL
<1>1. TypeOK /\ NULL \notin Requests
  BY EvidenceAssumption DEF IInv
<1>2. CASE SettlementMoves \/ UNCHANGED vars
  BY <1>2 DEF SettlementMoves, vars, requestVars
<1>3. ASSUME NEW r \in Requests, NEW o \in Ops, NEW e \in Requests,
             Load(r, o, e)
      PROVE  \A q \in Requests : pc[q] = "done" => pc'[q] = "done"
  BY <1>1, <1>3 DEF Load, TypeOK
<1>4. ASSUME NEW r \in Requests,
             \/ Check(r) \/ SaveFile(r) \/ Insert(r) \/ Remove(r)
             \/ Unlink(r) \/ Fail(r)
      PROVE  /\ \A q \in Requests : pc[q] = "done" => pc'[q] = "done"
             /\ UNCHANGED <<op, target, knew, seen>>
  BY <1>1, <1>4
  DEF Check, SaveFile, Insert, Remove, Unlink, Fail, TypeOK, requestVars
<1>5. ASSUME NEW r \in Requests, Touches(r)
      PROVE  /\ \A q \in Requests : pc[q] = "done" => pc'[q] = "done"
             /\ UNCHANGED <<op, target, knew>>
             /\ \A x \in Requests :
                  op[x] = "extract" /\ seen'[x].category = NULL =>
                    seen[x].category = NULL
  <2>1. PICK new \in Evidence, phase \in {"extracting", "done"} :
          UpdateEffect(r, new, phase) /\ Work(r, new, phase)
    BY <1>1, <1>5, TouchIsUpdate
  <2>2. pc[r] \in {"checked", "extracting"}
    BY <1>1, <1>5, TouchIsUpdate
  <2>3. \A q \in Requests : pc[q] = "done" => pc'[q] = "done"
    BY <1>1, <2>1, <2>2 DEF UpdateEffect, TypeOK
  <2>4. UNCHANGED <<op, target, knew>>
    BY <2>1 DEF UpdateEffect
  <2>5. op[r] = "extract" /\ new.category = NULL => seen[r].category = NULL
    BY <1>1, <2>1 DEF Work, Reclassifies
  <2>6. \A x \in Requests : seen'[x] = seen[x] \/ (x = r /\ seen'[x] = new)
    BY <1>1, <2>1 DEF UpdateEffect, TypeOK
  <2> QED
    BY <2>3, <2>4, <2>5, <2>6
<1> QED
  BY <1>2, <1>3, <1>4, <1>5 DEF Next, Step, Touches

LEMMA CategoriesNext == IInv /\ CategoriesOK /\ [Next]_vars => CategoriesOK'
<1> SUFFICES ASSUME IInv, CategoriesOK, [Next]_vars PROVE CategoriesOK'
  OBVIOUS
<1>1. TypeOK /\ TypeOK' /\ NULL \notin Requests
  BY NextType, EvidenceAssumption DEF IInv
<1>2. \A q \in Requests : pc[q] = "done" => pc'[q] = "done"
  BY Onward
<1>3. ASSUME NEW e \in Requests, evidence'[e] # NULL,
             evidence'[e].category # NULL
      PROVE  \/ Sets(evidence'[e].category, e)
             \/ /\ evidence[e] # NULL
                /\ evidence'[e].category = evidence[e].category
  BY <1>3, Recategorised
<1>4. ASSUME NEW e \in Requests, evidence'[e] # NULL,
             evidence'[e].category # NULL
      PROVE  pc'[evidence'[e].category] = "done"
  <2>1. evidence[e] # NULL => evidence[e] \in Evidence
    BY <1>1 DEF TypeOK
  <2> QED
    BY <1>2, <1>3, <1>4, <2>1 DEF Sets, CategoriesOK, Evidence
<1>5. CASE \E r \in Requests, o \in Ops, e \in Requests : Load(r, o, e)
  <2>1. PICK r \in Requests, o \in Ops, e \in Requests : Load(r, o, e)
    BY <1>5
  <2>2. /\ op' = [op EXCEPT ![r] = o]
        /\ target' = [target EXCEPT ![r] = e]
        /\ seen' = [seen EXCEPT ![r] = evidence[e]]
        /\ knew' = [knew EXCEPT ![r] = {q \in Requests : pc[q] = "done"}]
        /\ evidence' = evidence
    BY <2>1 DEF Load, rowVars
  <2>3. ASSUME NEW x \in Requests, NEW q \in knew'[x]
        PROVE  pc'[q] = "done"
    BY <1>1, <1>2, <2>2, <2>3 DEF CategoriesOK, TypeOK
  <2>4. ASSUME NEW x \in Requests, op'[x] = "extract",
               seen'[x].category = NULL, evidence'[target'[x]] # NULL
        PROVE  evidence'[target'[x]].category \notin knew'[x]
    <3>1. CASE x = r
      <4>1. seen'[x] = evidence'[target'[x]]
        BY <1>1, <2>2, <3>1 DEF TypeOK
      <4> QED
        BY <1>1, <2>4, <4>1 DEF TypeOK
    <3>2. CASE x # r
      BY <1>1, <2>2, <2>4, <3>2 DEF CategoriesOK, TypeOK
    <3> QED
      BY <3>1, <3>2
  <2> QED
    BY <1>4, <2>3, <2>4 DEF CategoriesOK
<1>6. CASE /\ UNCHANGED <<op, target, knew>>
           /\ \A x \in Requests :
                op[x] = "extract" /\ seen'[x].category = NULL =>
                  seen[x].category = NULL
  <2>1. \A x \in Requests : \A q \in knew'[x] : pc'[q] = "done"
    BY <1>1, <1>2, <1>6 DEF CategoriesOK, TypeOK
  <2>2. ASSUME NEW x \in Requests, op[x] = "extract",
               seen'[x].category = NULL, evidence'[target[x]] # NULL,
               evidence'[target[x]].category \in knew[x]
        PROVE  FALSE
    <3>1. target[x] \in Requests /\ knew[x] \subseteq Requests
      BY <1>1 DEF TypeOK
    <3>2. evidence'[target[x]].category # NULL
      BY <1>1, <2>2, <3>1
    <3>3. ~Sets(evidence'[target[x]].category, target[x])
      BY <2>2 DEF Sets, CategoriesOK
    <3>4. /\ evidence[target[x]] # NULL
          /\ evidence'[target[x]].category = evidence[target[x]].category
      BY <1>3, <2>2, <3>1, <3>2, <3>3
    <3> QED
      BY <1>6, <2>2, <3>4 DEF CategoriesOK
  <2> QED
    BY <1>4, <1>6, <2>1, <2>2 DEF CategoriesOK
<1> QED
  BY <1>5, <1>6, Onward

\* No extraction replaces a category that had been set, by hand or otherwise,
\* when it loaded its row.
THEOREM CategoriesStand == Spec => EarlierCategoriesStand
<1>1. Init => CategoriesOK
  BY EvidenceAssumption DEF Init, CategoriesOK
<1>2. ASSUME IInv, CategoriesOK, [Next]_vars, NEW e \in Requests,
             evidence[e] # NULL, evidence'[e] # NULL,
             evidence'[e].category \notin {evidence[e].category, NULL},
             op[evidence'[e].category] = "extract"
      PROVE  evidence[e].category \notin knew[evidence'[e].category]
  <2>1. Sets(evidence'[e].category, e)
    BY <1>2, Recategorised
  <2> QED
    BY <1>2, <2>1 DEF Sets, CategoriesOK
<1>3. IInv /\ CategoriesOK /\ [Next]_vars =>
        [\A e \in Requests :
           evidence[e] # NULL /\ evidence'[e] # NULL =>
             LET old == evidence[e].category
                 new == evidence'[e].category
             IN  old # NULL /\ new \notin {old, NULL} /\ op[new] = "extract" =>
                   old \notin knew[new]]_vars
  BY <1>2
<1> QED
  BY <1>1, <1>3, CategoriesNext, Invariance, PTL DEF Spec, EarlierCategoriesStand

-----------------------------------------------------------------------------
(* Closed settlements.                                                      *)

\* After the settlement closes only the requests admitted before still write.
THEOREM LateWritersOnly == Spec => OnlyLateWritersWrite
<1>1. ASSUME IInv, [Next]_vars, status \notin Mutable
      PROVE  Writers' \subseteq Writers
  <2>1. TypeOK
    BY <1>1 DEF IInv
  <2>2. CASE SettlementMoves
    BY <2>2 DEF SettlementMoves, Writers
  <2>3. ASSUME NEW r \in Requests, NEW o \in Ops, NEW e \in Requests,
               Load(r, o, e)
        PROVE  Writers' \subseteq Writers
    BY <2>1, <2>3 DEF Load, Writers, TypeOK
  <2>4. ASSUME NEW r \in Requests,
               \/ Check(r) \/ SaveFile(r) \/ Insert(r) \/ Remove(r)
               \/ Unlink(r) \/ Fail(r)
        PROVE  Writers' \subseteq Writers
    BY <1>1, <2>1, <2>4
    DEF Check, SaveFile, Insert, Remove, Unlink, Fail, Writers, TypeOK
  <2>5. ASSUME NEW r \in Requests, Touches(r)
        PROVE  Writers' \subseteq Writers
    <3>1. /\ r \in Writers
          /\ \E p \in Phase \cup {"failed"} : pc' = [pc EXCEPT ![r] = p]
      BY <2>1, <2>5, TouchIsUpdate DEF UpdateEffect, Writers, Phase
    <3> QED
      BY <2>1, <3>1 DEF Writers, TypeOK
  <2>6. CASE UNCHANGED vars
    BY <2>6 DEF vars, Writers
  <2> QED
    BY <1>1, <2>2, <2>3, <2>4, <2>5, <2>6 DEF Next, Step, Touches
<1>2. IInv /\ [Next]_vars =>
        [status \notin Mutable =>
           /\ Writers' \subseteq Writers
           /\ \A e \in Requests :
                evidence'[e] # evidence[e] =>
                  \E r \in Writers : target[r] = e /\ pc'[r] # pc[r]]_vars
  BY <1>1, WhoWrites
<1> QED
  BY <1>2, Invariance, PTL DEF Spec, OnlyLateWritersWrite

=============================================================================
