--------------------------- MODULE Documents_proofs ---------------------------
(***************************************************************************)
(* Theorems about Documents, for any sets of requests, settlements,        *)
(* evidences, seats and organizations, and any worlds the requests meet:   *)
(* what is on record stays well-formed, so that the readers agree in every *)
(* state (Readers_proofs), which views the counter may lose, and that what *)
(* a preview shows of a photo is earned by what was read, and of a receipt *)
(* what that states.                                                       *)
(***************************************************************************)
EXTENDS Readers_proofs

Phase ==
  {"idle", "viewing", "moving", "filing", "remarking", "uploading", "amending",
   "discarding", "done"}

\* The request is about a settlement in these phases.
AboutSettlement == {"viewing", "moving", "filing", "remarking", "uploading"}

\* What a request is about is on record, and stays there: settlements are
\* never deleted.
RequestOK(r) ==
  /\ pc[r] \in AboutSettlement => on[r] \in Settlements /\ settlements[on[r]] # NULL
  /\ pc[r] \in {"amending", "discarding"} => on[r] \in Evidences
  /\ pc[r] = "viewing" => copy[r] \in Nat

TypeOK ==
  /\ world \in Worlds
  /\ OnRecord(now, settlements, evidences, comments, results)
  /\ pc \in [Requests -> Phase]
  /\ on \in [Requests -> Settlements \cup Evidences \cup {NULL}]
  /\ copy = [r \in Requests |-> copy[r]]
  /\ knew \in [Requests -> SUBSET Requests]
  /\ viewed \subseteq Requests
  /\ \A r \in Requests : RequestOK(r)

-----------------------------------------------------------------------------
(* The counter of views.                                                    *)

Base(w, s) == IF w.settlements[s] = NULL THEN 0 ELSE w.settlements[s].view_count

Of(about, s, S) == {r \in S : about[r] = s}

\* The count n is what the views V may have left of base, given what each of
\* them knew.
Fits(n, base, V, known) ==
  /\ n \in Nat
  /\ base <= n /\ n <= base + Cardinality(V)
  /\ V # {} => base < n
  /\ (\A q, r \in V : q = r \/ q \in known[r] \/ r \in known[q]) =>
       n = base + Cardinality(V)

Counted(n, s, S) == Fits(n, Base(world, s), Of(on, s, S), knew)

ViewsInv ==
  /\ \A r \in viewed : pc[r] = "done"
  /\ \A r \in Requests : knew[r] \subseteq viewed
  /\ \A r \in Requests : pc[r] = "viewing" => Counted(copy[r], on[r], knew[r])
  /\ \A s \in Settlements :
       IF settlements[s] = NULL
       THEN world.settlements[s] = NULL /\ Of(on, s, viewed) = {}
       ELSE Counted(settlements[s].view_count, s, viewed)

-----------------------------------------------------------------------------
(* Types.                                                                   *)

LEMMA WorldOnRecord ==
  ASSUME NEW w \in Worlds
  PROVE  OnRecord(w.now, w.settlements, w.evidences, w.comments, w.results)
BY DocumentsAssumption

LEMMA InitType == Init => TypeOK
<1> SUFFICES ASSUME Init PROVE TypeOK
  OBVIOUS
<1>1. OnRecord(now, settlements, evidences, comments, results)
  BY WorldOnRecord DEF Init
<1> QED
  BY <1>1 DEF Init, TypeOK, Phase, RequestOK, AboutSettlement

\* A move leaves a row of the type.
LEMMA MovedRow ==
  ASSUME NEW row \in SettlementRow, NEW move, NEW t \in Nat
  PROVE  [Moved(row, move, t) EXCEPT !.updated_at = t] \in SettlementRow
BY DEF Moved, SettlementRow, Time, SettlementStatus

\* So does a view.
CountedTo(row, n, t) == [row EXCEPT !.view_count = n, !.updated_at = t]

LEMMA CountedRow ==
  ASSUME NEW row \in SettlementRow, NEW n \in Nat, NEW t \in Nat
  PROVE  /\ CountedTo(row, n, t) \in SettlementRow
         /\ CountedTo(row, n, t).created_at = row.created_at
         /\ CountedTo(row, n, t).view_count = n
BY DEF CountedTo, SettlementRow

\* And so does an amendment of an evidence.
LEMMA AmendedRow ==
  ASSUME NEW row \in EvidenceRow, NEW amount \in Int \cup {NULL}, NEW refund \in BOOLEAN
  PROVE  LET new == [row EXCEPT !.amount = amount, !.refund = refund]
         IN  new \in EvidenceRow /\ new.settlement = row.settlement
BY DEF EvidenceRow

\* A request that is loaded, or ends, leaves the others where they are.
LEMMA LoadedType ==
  ASSUME TypeOK, NEW r \in Requests, NEW phase \in Phase,
         NEW what \in Settlements \cup Evidences, NEW held,
         Loaded(r, phase, what, held), UNCHANGED <<world, tables, papers>>,
         phase \in AboutSettlement =>
           what \in Settlements /\ settlements[what] # NULL,
         phase \in {"amending", "discarding"} => what \in Evidences,
         phase = "viewing" => held \in Nat
  PROVE  TypeOK'
<1> USE DEF Loaded, TypeOK, RequestOK, tables, papers
<1>1. OnRecord(now, settlements, evidences, comments, results)'
  OBVIOUS
<1>2. copy' = [q \in Requests |-> copy'[q]]
  OBVIOUS
<1>3. \A q \in Requests : RequestOK(q)'
  OBVIOUS
<1> QED
  BY <1>1, <1>2, <1>3

\* What every step keeps that is not a load.
LEMMA StepType ==
  ASSUME TypeOK, NEW r \in Requests, NEW phase \in Phase,
         pc' = [pc EXCEPT ![r] = phase], UNCHANGED <<world, on, copy, knew>>,
         phase \in AboutSettlement => pc[r] \in AboutSettlement,
         phase \notin {"viewing", "amending", "discarding"},
         viewed' \subseteq Requests,
         OnRecord(now, settlements, evidences, comments, results)',
         \A s \in Settlements : settlements[s] # NULL => settlements'[s] # NULL
  PROVE  TypeOK'
<1> USE DEF TypeOK, RequestOK
<1>1. copy' = [q \in Requests |-> copy'[q]]
  OBVIOUS
<1>2. \A q \in Requests : RequestOK(q)'
  BY DEF AboutSettlement
<1> QED
  BY <1>1, <1>2

\* The tables after a step that writes one row of settlements, or adds one.
LEMMA RowWritten ==
  ASSUME TypeOK, NEW s \in Settlements, NEW row \in SettlementRow,
         settlements' = [settlements EXCEPT ![s] = row], now' = now + 1,
         IF settlements[s] = NULL THEN row.created_at = now + 1
         ELSE row.created_at = settlements[s].created_at,
         UNCHANGED <<evidences, comments, results>>
  PROVE  /\ OnRecord(now, settlements, evidences, comments, results)'
         /\ \A t \in Settlements : settlements[t] # NULL => settlements'[t] # NULL
<1> USE DocumentsAssumption DEF TypeOK, OnRecord
<1>1. row # NULL /\ now \in Nat /\ now' \in Nat
  OBVIOUS
<1>2. settlements' \in [Settlements -> SettlementRow \cup {NULL}]
  OBVIOUS
<1>3. \A t \in Settlements : settlements[t] # NULL => settlements'[t] # NULL
  BY <1>1
<1>4. \A t \in Settlements : settlements[t] # NULL => settlements[t].created_at \in Nat
  BY DEF SettlementRow
<1>5. \A t \in Settlements : settlements'[t] # NULL =>
        /\ settlements'[t].created_at <= now'
        /\ \A q \in Settlements \ {t} :
             settlements'[q] # NULL => settlements'[t].created_at # settlements'[q].created_at
  <2>1. \A t \in Settlements \ {s} : settlements'[t] = settlements[t]
    OBVIOUS
  <2>2. settlements'[s] = row
    OBVIOUS
  <2>3. \A t \in Settlements : settlements[t] # NULL => settlements[t].created_at <= now
    OBVIOUS
  <2>4. row.created_at \in Nat /\ row.created_at <= now'
    BY <1>1, <1>4, <2>3 DEF SettlementRow
  <2>5. \A t \in Settlements \ {s} : settlements[t] # NULL => settlements[t].created_at # row.created_at
    BY <1>1, <1>4, <2>3
  <2> QED
    BY <1>1, <1>4, <2>1, <2>2, <2>3, <2>4, <2>5
<1>6. /\ \A e \in Evidences : evidences[e] # NULL => evidences[e].settlement \in Settlements
      /\ \A c \in comments : c.settlement \in Settlements
  BY DEF EvidenceRow
<1> QED
  BY <1>1, <1>2, <1>3, <1>5, <1>6

\* The steps that load, by what they load.
LEMMA LoadsType ==
  ASSUME TypeOK, NEW r \in Requests,
         LoadView(r) \/ LoadMove(r) \/ LoadUpload(r) \/ LoadAmend(r)
  PROVE  TypeOK'
<1>1. CASE LoadView(r)
  <2>1. PICK s \in Stored : Loaded(r, "viewing", s, settlements[s].view_count)
    BY <1>1 DEF LoadView
  <2>2. s \in Settlements /\ settlements[s] # NULL /\ settlements[s].view_count \in Nat
    BY DEF Stored, TypeOK, OnRecord, SettlementRow
  <2> QED
    BY <1>1, <2>1, <2>2, LoadedType DEF LoadView, Phase
<1>2. CASE LoadMove(r)
  <2>1. PICK s \in Stored, held \in {SeatFor(u, world.plan[r], t).id : u \in Users, t \in Stored} :
          Loaded(r, "moving", s, held)
    BY <1>2 DEF LoadMove
  <2> QED
    BY <1>2, <2>1, LoadedType DEF LoadMove, Phase, Stored
<1>3. CASE LoadUpload(r)
  <2>1. PICK s \in Stored : Loaded(r, "uploading", s, NULL)
    BY <1>3 DEF LoadUpload
  <2> QED
    BY <1>3, <2>1, LoadedType DEF LoadUpload, Phase, Stored
<1>4. CASE LoadAmend(r)
  <2>1. PICK e \in Evidences, phase \in {"amending", "discarding"} : Loaded(r, phase, e, NULL)
    BY <1>4 DEF LoadAmend
  <2> QED
    BY <1>4, <2>1, LoadedType DEF LoadAmend, Phase, AboutSettlement
<1> QED
  BY <1>1, <1>2, <1>3, <1>4

\* A view writes a row that differs in its count and its time.
LEMMA ViewWrites ==
  ASSUME TypeOK, NEW r \in Requests, CommitView(r)
  PROVE  \E row \in SettlementRow :
           /\ settlements' = [settlements EXCEPT ![on[r]] = row]
           /\ row.created_at = settlements[on[r]].created_at
           /\ row.view_count = copy[r] + 1
<1>1. on[r] \in Settlements /\ settlements[on[r]] \in SettlementRow
  BY DEF CommitView, TypeOK, RequestOK, AboutSettlement, OnRecord
<1>2. PICK n \in Nat, t \in Nat : n = copy[r] + 1 /\ t = now + 1
  BY DEF CommitView, TypeOK, RequestOK, OnRecord
<1>3. n \in Nat /\ t \in Nat
  BY <1>2
<1> DEFINE row == CountedTo(settlements[on[r]], n, t)
<1>4. /\ row \in SettlementRow /\ row.created_at = settlements[on[r]].created_at
      /\ row.view_count = n
  BY <1>1, <1>3, CountedRow
<1>5. settlements' = [settlements EXCEPT ![on[r]] = row]
  <2>1. settlements' = [settlements EXCEPT ![on[r]].view_count = n, ![on[r]].updated_at = t]
    BY <1>2 DEF CommitView
  <2>2. settlements = [s \in Settlements |-> settlements[s]]
    BY DEF TypeOK, OnRecord
  <2> QED
    BY <1>1, <2>1, <2>2 DEF CountedTo
<1> HIDE DEF row
<1> QED
  BY <1>2, <1>4, <1>5

\* The steps that write a row of settlements.
LEMMA RowsType ==
  ASSUME TypeOK, NEW r \in Requests, CommitView(r) \/ CommitMove(r) \/ Create(r)
  PROVE  TypeOK'
<1> DEFINE s == on[r]
<1>0. now \in Nat /\ now + 1 \in Nat
  BY DEF TypeOK, OnRecord
<1>1. CASE CommitView(r)
  <2>1. s \in Settlements /\ settlements[s] # NULL
    BY <1>1 DEF CommitView, TypeOK, RequestOK, AboutSettlement
  <2>2. PICK row \in SettlementRow :
          /\ settlements' = [settlements EXCEPT ![s] = row]
          /\ row.created_at = settlements[s].created_at
    BY <1>1, ViewWrites
  <2>3. /\ OnRecord(now, settlements, evidences, comments, results)'
        /\ \A t \in Settlements : settlements[t] # NULL => settlements'[t] # NULL
    BY <1>1, <2>1, <2>2, RowWritten DEF CommitView, Tick
  <2>4. viewed' \subseteq Requests
    BY <1>1 DEF CommitView, TypeOK
  <2> QED
    BY <1>1, <2>3, <2>4, StepType, Zenon DEF CommitView, Ends, Phase, AboutSettlement
<1>2. CASE CommitMove(r)
  <2> DEFINE row == [Moved(settlements[s], world.plan[r], now + 1) EXCEPT !.updated_at = now + 1]
  <2>1. s \in Settlements /\ settlements[s] \in SettlementRow
    BY <1>2 DEF CommitMove, TypeOK, RequestOK, AboutSettlement, OnRecord
  <2>2. row \in SettlementRow
    BY <1>0, <2>1, MovedRow
  <2>3. row.created_at = settlements[s].created_at
    BY <1>0, <2>1 DEF Moved, SettlementRow
  <2>4. settlements' = [settlements EXCEPT ![s] = row]
    BY <1>2, <2>1 DEF CommitMove, TypeOK, OnRecord
  <2>5. settlements[s] # NULL
    BY <2>1, DocumentsAssumption
  <2>6. /\ OnRecord(now, settlements, evidences, comments, results)'
        /\ \A t \in Settlements : settlements[t] # NULL => settlements'[t] # NULL
    BY <1>2, <2>1, <2>2, <2>3, <2>4, <2>5, RowWritten DEF CommitMove, Tick
  <2>7. PICK phase \in {"filing", "done", "remarking"} : pc' = [pc EXCEPT ![r] = phase]
    BY <1>2 DEF CommitMove
  <2>8. viewed' \subseteq Requests
    BY <1>2 DEF CommitMove, papers, TypeOK
  <2>9. pc[r] \in AboutSettlement
    BY <1>2 DEF CommitMove, AboutSettlement
  <2>10. phase \in Phase /\ phase \notin {"viewing", "amending", "discarding"}
    BY DEF Phase
  <2> QED
    BY <1>2, <2>6, <2>7, <2>8, <2>9, <2>10, StepType DEF CommitMove
<1>3. CASE Create(r)
  <2>1. PICK o \in Orgs, t \in Settlements \ Stored, p \in world.periods :
          settlements' = [settlements EXCEPT ![t] =
            [org |-> o, academic_year |-> p.year, semester |-> p.semester,
             status |-> "draft", submitted_at |-> NULL, audited_at |-> NULL,
             published_at |-> NULL, created_at |-> now + 1, updated_at |-> now + 1,
             view_count |-> 0]]
    BY <1>3 DEF Create
  <2> DEFINE row == [org |-> o, academic_year |-> p.year, semester |-> p.semester,
             status |-> "draft", submitted_at |-> NULL, audited_at |-> NULL,
             published_at |-> NULL, created_at |-> now + 1, updated_at |-> now + 1,
             view_count |-> 0]
  <2>2. p.year \in Int /\ p.semester \in ToSet(Semesters)
    BY DocumentsAssumption DEF TypeOK
  <2>3. row \in SettlementRow /\ row.created_at = now + 1
    BY <1>0, <2>2 DEF SettlementRow, Time, SettlementStatus
  <2>4. t \in Settlements /\ settlements[t] = NULL
    BY DEF Stored
  <2>5. /\ OnRecord(now, settlements, evidences, comments, results)'
        /\ \A q \in Settlements : settlements[q] # NULL => settlements'[q] # NULL
    BY <1>3, <2>1, <2>3, <2>4, RowWritten DEF Create, Tick
  <2>6. viewed' \subseteq Requests
    BY <1>3 DEF Create, papers, TypeOK
  <2> QED
    BY <1>3, <2>5, <2>6, StepType, Zenon DEF Create, Ends, Phase, AboutSettlement
<1> QED
  BY <1>1, <1>2, <1>3

\* What the other steps leave of the tables.
LEMMA PapersType ==
  ASSUME TypeOK, NEW r \in Requests,
         \/ File(r) \/ Remark(r) \/ Comment(r) \/ Reword(r)
         \/ CommitUpload(r) \/ CommitAmend(r) \/ CommitDiscard(r)
         \/ Import(r) \/ Drop(r) \/ WriteLedger(r) \/ Preview(r)
  PROVE  TypeOK'
<1>0. /\ now \in Nat /\ now + 1 \in Nat
      /\ \A s \in Settlements : settlements[s] # NULL => settlements[s].created_at <= now + 1
  BY DEF TypeOK, OnRecord, SettlementRow
<1>1. /\ settlements' = settlements /\ world' = world
      /\ viewed' \subseteq Requests /\ UNCHANGED <<on, copy, knew>>
      /\ now' \in {now, now + 1}
  BY DEF File, Remark, Comment, Reword, CommitUpload, CommitAmend, CommitDiscard,
         Import, Drop, WriteLedger, Preview, tables, papers, Ends, Tick, TypeOK
<1>2. PICK phase \in {"done", "remarking"} :
        /\ pc' = [pc EXCEPT ![r] = phase]
        /\ phase = "remarking" => pc[r] = "filing"
  BY DEF File, Remark, Comment, Reword, CommitUpload, CommitAmend, CommitDiscard,
         Import, Drop, WriteLedger, Preview, Ends
<1>3. evidences' \in [Evidences -> EvidenceRow \cup {NULL}]
      /\ \A e \in Evidences : evidences'[e] # NULL => settlements[evidences'[e].settlement] # NULL
  <2>1. CASE CommitUpload(r)
    <3>1. on[r] \in Settlements /\ settlements[on[r]] # NULL
      BY <2>1 DEF CommitUpload, TypeOK, RequestOK, AboutSettlement
    <3> DEFINE new == [settlement |-> on[r], amount |-> NULL, refund |-> FALSE, date |-> NULL,
                       group |-> NULL, file |-> TRUE, created_at |-> now + 1]
    <3>2. new \in EvidenceRow /\ new.settlement = on[r]
      BY <1>0, <3>1 DEF EvidenceRow
    <3>3. PICK e \in Evidences : evidences' = [evidences EXCEPT ![e] = new]
      BY <2>1 DEF CommitUpload
    <3> QED
      BY <3>1, <3>2, <3>3 DEF TypeOK, OnRecord
  <2>2. CASE CommitAmend(r)
    <3>1. on[r] \in Evidences /\ evidences[on[r]] # NULL
      BY <2>2 DEF CommitAmend, TypeOK, RequestOK
    <3>2. PICK amount \in world.amounts, refund \in BOOLEAN :
            evidences' = [evidences EXCEPT ![on[r]].amount = amount, ![on[r]].refund = refund]
      BY <2>2 DEF CommitAmend
    <3> DEFINE new == [evidences[on[r]] EXCEPT !.amount = amount, !.refund = refund]
    <3>3. amount \in Int \cup {NULL}
      BY DocumentsAssumption DEF TypeOK
    <3>4. new \in EvidenceRow /\ new.settlement = evidences[on[r]].settlement
      <4>1. evidences[on[r]] \in EvidenceRow
        BY <3>1 DEF TypeOK, OnRecord
      <4> QED
        BY <3>3, <4>1, AmendedRow
    <3>5. evidences' = [evidences EXCEPT ![on[r]] = new]
      BY <3>1, <3>2 DEF TypeOK, OnRecord
    <3> QED
      BY <3>1, <3>4, <3>5 DEF TypeOK, OnRecord
  <2>3. CASE CommitDiscard(r)
    <3>1. evidences' = [evidences EXCEPT ![on[r]] = NULL]
      BY <2>3 DEF CommitDiscard
    <3> QED
      BY <3>1 DEF TypeOK, OnRecord
  <2>4. CASE evidences' = evidences
    BY <2>4 DEF TypeOK, OnRecord
  <2> QED
    BY <2>1, <2>2, <2>3, <2>4
    DEF File, Remark, Comment, Reword, Import, Drop, WriteLedger, Preview, tables
<1>4. \A c \in comments' :
        DOMAIN c = CommentColumns /\ c.settlement \in Settlements
          /\ settlements[c.settlement] # NULL
  <2>0. \A c \in comments :
        DOMAIN c = CommentColumns /\ c.settlement \in Settlements
          /\ settlements[c.settlement] # NULL
    BY DEF TypeOK, OnRecord
  <2>1. CASE Remark(r)
    <3>1. on[r] \in Settlements /\ settlements[on[r]] # NULL
      BY <2>1 DEF Remark, TypeOK, RequestOK, AboutSettlement
    <3> QED
      BY <2>0, <2>1, <3>1 DEF Remark, CommentColumns
  <2>2. CASE Comment(r)
    BY <2>0, <2>2 DEF Comment, CommentColumns, Stored
  <2>3. CASE Reword(r)
    <3>1. PICK c \in comments : comments' = (comments \ {c}) \cup {[c EXCEPT !.text = r]}
      BY <2>3 DEF Reword
    <3>2. DOMAIN [c EXCEPT !.text = r] = CommentColumns
          /\ [c EXCEPT !.text = r].settlement = c.settlement
      BY <2>0 DEF CommentColumns
    <3> QED
      BY <2>0, <3>1, <3>2
  <2>4. CASE comments' \subseteq comments
    BY <2>0, <2>4
  <2> QED
    BY <2>1, <2>2, <2>3, <2>4
    DEF File, CommitUpload, CommitAmend, CommitDiscard, Import, Drop, WriteLedger,
        Preview, tables
<1>5. results' \subseteq results
  BY DEF File, Remark, Comment, Reword, CommitUpload, CommitAmend, CommitDiscard,
         Import, Drop, WriteLedger, Preview, tables
<1>6. IsFiniteSet(results') /\ \A x \in results' : x.status \in MatchStatus
  BY <1>5, FS_Subset DEF TypeOK, OnRecord
<1>7. OnRecord(now, settlements, evidences, comments, results)'
  BY <1>0, <1>1, <1>3, <1>4, <1>6 DEF OnRecord, TypeOK
<1>8. phase \in Phase /\ phase \notin {"viewing", "amending", "discarding"}
      /\ (phase \in AboutSettlement => pc[r] \in AboutSettlement)
  BY <1>2 DEF Phase, AboutSettlement
<1> QED
  BY <1>1, <1>2, <1>7, <1>8, StepType

LEMMA NextType == TypeOK /\ [Next]_vars => TypeOK'
<1>1. ASSUME TypeOK, UNCHANGED vars PROVE TypeOK'
  BY <1>1 DEF vars, tables, requestVars, papers, TypeOK, RequestOK, OnRecord
<1> QED
  BY <1>1, LoadsType, RowsType, PapersType DEF Next

\* Every table keeps its types, no two settlements are created at once, and no
\* evidence and no comment is about a settlement that is not stored, however
\* the requests interleave.
THEOREM TypeCorrect == Spec => []TypeOK
BY InitType, NextType, PTL DEF Spec

\* In every state each reader is told the same about a settlement, whichever
\* page or dashboard it comes from: the rows that are on record are all that
\* the readers' agreement needs.
THEOREM ReadersAlwaysAgree == Spec => []ReadersAgree
<1>1. TypeOK => ReadersAgree
  BY ReadersSame DEF TypeOK, Recorded
<1> QED
  BY <1>1, InitType, NextType, PTL DEF Spec

-----------------------------------------------------------------------------
(* The counter of views, continued.                                         *)

\* What a request knew, or which views there are, is a finite set.
LEMMA OfFinite ==
  ASSUME NEW about, NEW s, NEW S \in SUBSET Requests
  PROVE  IsFiniteSet(Of(about, s, S)) /\ Cardinality(Of(about, s, S)) \in Nat
<1>1. Of(about, s, S) \in SUBSET Requests
  BY DEF Of
<1> QED
  BY <1>1, DocumentsAssumption, FS_Subset, FS_CardinalityType

LEMMA BaseNat ==
  ASSUME TypeOK, NEW s \in Settlements
  PROVE  Base(world, s) \in Nat
BY WorldOnRecord DEF TypeOK, Base, OnRecord, SettlementRow

LEMMA FitsKept ==
  ASSUME NEW n, NEW base, NEW V, NEW known, NEW new, Fits(n, base, V, known),
         \A q \in V : new[q] = known[q]
  PROVE  Fits(n, base, V, new)
BY DEF Fits

\* One view more, by r, which knew those of W.
LEMMA FitsGrows ==
  ASSUME NEW n, NEW base \in Nat, NEW V, IsFiniteSet(V), NEW W \in SUBSET V,
         NEW known, Fits(n, base, W, known),
         NEW r, r \notin V, \A q \in V : r \notin known[q],
         \A q \in V : q \in known[r] => q \in W
  PROVE  Fits(n + 1, base, V \cup {r}, known)
<1>1. /\ Cardinality(V) \in Nat /\ Cardinality(W) \in Nat
      /\ Cardinality(W) <= Cardinality(V)
  BY FS_Subset, FS_CardinalityType
<1>2. Cardinality(V \cup {r}) = Cardinality(V) + 1
  BY FS_AddElement
<1>3. n \in Nat /\ base <= n /\ n <= base + Cardinality(W)
  BY DEF Fits
<1>4. ASSUME \A q, p \in V \cup {r} : q = p \/ q \in known[p] \/ p \in known[q]
      PROVE  n = base + Cardinality(V)
  <2>1. \A q \in V : q \in W
    BY <1>4
  <2>2. W = V
    BY <2>1
  <2> QED
    BY <1>4, <2>2 DEF Fits
<1>5. /\ n + 1 \in Nat /\ base < n + 1
      /\ n + 1 <= base + Cardinality(V \cup {r})
  BY <1>1, <1>2, <1>3
<1>6. (\A q, p \in V \cup {r} : q = p \/ q \in known[p] \/ p \in known[q]) =>
        n + 1 = base + Cardinality(V \cup {r})
  BY <1>1, <1>2, <1>4
<1> QED
  BY <1>5, <1>6 DEF Fits

\* A step that moves one request, which has not viewed anything, and writes no
\* view: counts stay, and those of new settlements are zero.
LEMMA ViewsKept ==
  ASSUME TypeOK, ViewsInv, NEW r \in Requests,
         world' = world, viewed' = viewed, r \notin viewed,
         \A q \in Requests \ {r} :
           pc'[q] = pc[q] /\ on'[q] = on[q] /\ copy'[q] = copy[q] /\ knew'[q] = knew[q],
         knew'[r] \subseteq viewed,
         pc'[r] = "viewing" =>
           /\ on'[r] \in Settlements /\ knew'[r] = viewed
           /\ settlements[on'[r]] # NULL /\ copy'[r] = settlements[on'[r]].view_count,
         \A s \in Settlements :
           IF settlements[s] # NULL
           THEN settlements'[s] # NULL /\ settlements'[s].view_count = settlements[s].view_count
           ELSE settlements'[s] # NULL => settlements'[s].view_count = 0
  PROVE  ViewsInv'
<1>0. viewed \subseteq Requests
  BY DEF TypeOK
<1>1. ASSUME NEW n, NEW s, NEW S \in SUBSET viewed,
             Fits(n, Base(world, s), Of(on, s, S), knew)
      PROVE  Fits(n, Base(world, s), Of(on', s, S), knew')
  <2>1. /\ Of(on', s, S) = Of(on, s, S)
        /\ \A q \in Of(on, s, S) : knew'[q] = knew[q]
    BY <1>0 DEF Of
  <2> QED
    BY <1>1, <2>1, FitsKept
<1>2. \A q \in viewed' : pc'[q] = "done"
  BY <1>0 DEF ViewsInv
<1>3. \A q \in Requests : knew'[q] \subseteq viewed'
  BY DEF ViewsInv
<1>4. ASSUME NEW q \in Requests, pc'[q] = "viewing"
      PROVE  Fits(copy'[q], Base(world, on'[q]), Of(on', on'[q], knew'[q]), knew')
  <2>1. CASE q = r
    <3>1. Fits(copy'[r], Base(world, on'[r]), Of(on, on'[r], viewed), knew)
      BY <1>4, <2>1 DEF ViewsInv, Counted
    <3>2. Fits(copy'[r], Base(world, on'[r]), Of(on', on'[r], viewed), knew')
      BY <1>1, <3>1
    <3> QED
      BY <1>4, <2>1, <3>2
  <2>2. CASE q # r
    <3>1. Fits(copy[q], Base(world, on[q]), Of(on, on[q], knew[q]), knew) /\ knew[q] \in SUBSET viewed
      BY <1>4, <2>2 DEF ViewsInv, Counted
    <3>2. Fits(copy[q], Base(world, on[q]), Of(on', on[q], knew[q]), knew')
      BY <1>1, <3>1
    <3> QED
      BY <2>2, <3>2
  <2> QED
    BY <2>1, <2>2
<1>5. ASSUME NEW s \in Settlements
      PROVE  IF settlements'[s] = NULL
             THEN world.settlements[s] = NULL /\ Of(on', s, viewed) = {}
             ELSE Fits(settlements'[s].view_count, Base(world, s), Of(on', s, viewed), knew')
  <2>1. CASE settlements[s] # NULL
    <3>1. Fits(settlements[s].view_count, Base(world, s), Of(on, s, viewed), knew)
      BY <2>1 DEF ViewsInv, Counted
    <3>2. Fits(settlements[s].view_count, Base(world, s), Of(on', s, viewed), knew')
      BY <1>1, <3>1
    <3> QED
      BY <2>1, <3>2
  <2>2. CASE settlements[s] = NULL
    <3>1. world.settlements[s] = NULL /\ Of(on, s, viewed) = {}
      BY <2>2 DEF ViewsInv
    <3>2. Of(on', s, viewed) = {} /\ Base(world, s) = 0
      BY <1>0, <3>1 DEF Of, Base
    <3>3. Fits(0, 0, {}, knew')
      BY FS_EmptySet DEF Fits
    <3>4. settlements'[s] # NULL => settlements'[s].view_count = 0
      BY <2>2
    <3> QED
      BY <3>1, <3>2, <3>3, <3>4
  <2> QED
    BY <2>1, <2>2
<1>6. \A q \in Requests : pc'[q] = "viewing" => Counted(copy[q], on[q], knew[q])'
  BY <1>4 DEF Counted
<1>7. \A s \in Settlements :
        IF settlements'[s] = NULL
        THEN world'.settlements[s] = NULL /\ Of(on', s, viewed') = {}
        ELSE Counted(settlements[s].view_count, s, viewed)'
  BY <1>5 DEF Counted
<1> QED
  BY <1>2, <1>3, <1>6, <1>7 DEF ViewsInv

\* A view writes what it loaded, and one: one more than the views it knew may
\* have left.  Those it did not know it overlapped, and they may be lost.
LEMMA CommitViewKept ==
  ASSUME TypeOK, ViewsInv, NEW r \in Requests, CommitView(r)
  PROVE  ViewsInv'
<1> DEFINE s == on[r]
<1>0. viewed \subseteq Requests
  BY DEF TypeOK
<1>1. s \in Settlements /\ settlements[s] # NULL /\ pc[r] = "viewing"
  BY DEF CommitView, RequestOK, AboutSettlement, TypeOK
<1>2. /\ UNCHANGED <<world, on, copy, knew>> /\ viewed' = viewed \cup {r}
      /\ pc' = [pc EXCEPT ![r] = "done"] /\ r \notin viewed
  BY <1>1 DEF CommitView, Ends, ViewsInv
<1>3. /\ \A t \in Settlements \ {s} : settlements'[t] = settlements[t]
      /\ settlements'[s] # NULL
      /\ settlements'[s].view_count = copy[r] + 1
  <2>1. PICK row \in SettlementRow :
          /\ settlements' = [settlements EXCEPT ![s] = row]
          /\ row.view_count = copy[r] + 1
    BY ViewWrites
  <2> QED
    BY <1>1, <2>1, DocumentsAssumption DEF OnRecord, TypeOK
<1>4. Fits(copy[r], Base(world, s), Of(on, s, knew[r]), knew) /\ knew[r] \subseteq viewed
  BY <1>1 DEF ViewsInv, Counted
<1>5. Fits(copy[r] + 1, Base(world, s), Of(on, s, viewed) \cup {r}, knew)
  <2>1. /\ Of(on, s, knew[r]) \in SUBSET Of(on, s, viewed) /\ r \notin Of(on, s, viewed)
        /\ \A q \in Of(on, s, viewed) : r \notin knew[q]
        /\ \A q \in Of(on, s, viewed) : q \in knew[r] => q \in Of(on, s, knew[r])
    BY <1>0, <1>2, <1>4 DEF Of, ViewsInv
  <2>2. IsFiniteSet(Of(on, s, viewed)) /\ Base(world, s) \in Nat
    BY <1>0, <1>1, OfFinite, BaseNat
  <2> QED
    BY <1>4, <2>1, <2>2, FitsGrows
<1>6. /\ Of(on, s, viewed \cup {r}) = Of(on, s, viewed) \cup {r}
      /\ \A t \in Settlements \ {s} : Of(on, t, viewed \cup {r}) = Of(on, t, viewed)
  BY DEF Of
<1>7. \A t \in Settlements :
        IF settlements'[t] = NULL
        THEN world.settlements[t] = NULL /\ Of(on, t, viewed \cup {r}) = {}
        ELSE Fits(settlements'[t].view_count, Base(world, t), Of(on, t, viewed \cup {r}), knew)
  BY <1>1, <1>3, <1>5, <1>6 DEF ViewsInv, Counted
<1>8. \A q \in Requests : pc'[q] = "viewing" => Counted(copy[q], on[q], knew[q])'
  <2>1. \A q \in Requests : pc'[q] = "viewing" => pc[q] = "viewing"
    BY <1>2 DEF TypeOK
  <2>2. \A q \in Requests : pc[q] = "viewing" => Counted(copy[q], on[q], knew[q])
    BY DEF ViewsInv
  <2> QED
    BY <1>2, <2>1, <2>2 DEF Counted
<1>9. \A q \in viewed' : pc'[q] = "done"
  BY <1>0, <1>2 DEF ViewsInv, TypeOK
<1>10. \A q \in Requests : knew'[q] \subseteq viewed'
  BY <1>2 DEF ViewsInv
<1>11. \A t \in Settlements :
        IF settlements'[t] = NULL
        THEN world'.settlements[t] = NULL /\ Of(on', t, viewed') = {}
        ELSE Counted(settlements[t].view_count, t, viewed)'
  BY <1>2, <1>7 DEF Counted
<1> QED
  BY <1>8, <1>9, <1>10, <1>11 DEF ViewsInv

LEMMA InitViews == Init => ViewsInv
<1> SUFFICES ASSUME Init PROVE ViewsInv
  OBVIOUS
<1>1. TypeOK
  BY InitType
<1>2. ASSUME NEW s \in Settlements
      PROVE  IF settlements[s] = NULL
             THEN world.settlements[s] = NULL /\ Of(on, s, viewed) = {}
             ELSE Counted(settlements[s].view_count, s, viewed)
  <2>1. settlements = world.settlements /\ Of(on, s, viewed) = {}
    BY DEF Init, Of
  <2>2. Base(world, s) \in Nat
    BY <1>1, BaseNat
  <2>3. Fits(Base(world, s), Base(world, s), {}, knew)
    BY <2>2, FS_EmptySet DEF Fits
  <2> QED
    BY <2>1, <2>3 DEF Counted, Base
<1>3. /\ \A r \in viewed : pc[r] = "done"
      /\ \A r \in Requests : knew[r] \subseteq viewed
      /\ \A r \in Requests : pc[r] = "viewing" => Counted(copy[r], on[r], knew[r])
  BY DEF Init
<1> QED
  BY <1>2, <1>3 DEF ViewsInv

\* The requests that are loaded.
LEMMA LoadsViews ==
  ASSUME TypeOK, ViewsInv, NEW r \in Requests,
         LoadView(r) \/ LoadMove(r) \/ LoadUpload(r) \/ LoadAmend(r)
  PROVE  ViewsInv'
<1>1. /\ world' = world /\ viewed' = viewed /\ settlements' = settlements
      /\ pc[r] = "idle"
  BY DEF LoadView, LoadMove, LoadUpload, LoadAmend, Asks, papers, tables
<1>2. r \notin viewed
  BY <1>1 DEF ViewsInv
<1>3. PICK phase, what, held : Loaded(r, phase, what, held) /\
        (phase = "viewing" => /\ what \in Settlements /\ settlements[what] # NULL
                              /\ held = settlements[what].view_count)
  <2>1. CASE LoadView(r)
    BY <2>1 DEF LoadView, Stored
  <2>2. CASE LoadMove(r)
    BY <2>2 DEF LoadMove
  <2>3. CASE LoadUpload(r)
    BY <2>3 DEF LoadUpload
  <2>4. CASE LoadAmend(r)
    BY <2>4 DEF LoadAmend
  <2> QED
    BY <2>1, <2>2, <2>3, <2>4
<1>4. /\ \A q \in Requests \ {r} :
           pc'[q] = pc[q] /\ on'[q] = on[q] /\ copy'[q] = copy[q] /\ knew'[q] = knew[q]
      /\ pc'[r] = phase /\ on'[r] = what /\ copy'[r] = held /\ knew'[r] = viewed
  BY <1>3 DEF Loaded, TypeOK
<1> QED
  BY <1>1, <1>2, <1>3, <1>4, ViewsKept

\* The requests that move on, or end, without a view.
LEMMA OthersViews ==
  ASSUME TypeOK, ViewsInv, NEW r \in Requests,
         \/ CommitMove(r) \/ File(r) \/ Remark(r) \/ Comment(r) \/ Reword(r) \/ Create(r)
         \/ CommitUpload(r) \/ CommitAmend(r) \/ CommitDiscard(r)
         \/ Import(r) \/ Drop(r) \/ WriteLedger(r) \/ Preview(r)
  PROVE  ViewsInv'
<1>1. world' = world /\ viewed' = viewed /\ UNCHANGED <<on, copy, knew>>
  BY DEF CommitMove, File, Remark, Comment, Reword, Create, CommitUpload, CommitAmend,
         CommitDiscard, Import, Drop, WriteLedger, Preview, tables, papers, Ends
<1>2. pc[r] # "done"
  BY DEF CommitMove, File, Remark, Comment, Reword, Create, CommitUpload, CommitAmend,
         CommitDiscard, Import, Drop, WriteLedger, Preview, Asks
<1>3. PICK phase \in {"filing", "done", "remarking"} : pc' = [pc EXCEPT ![r] = phase]
  BY DEF CommitMove, File, Remark, Comment, Reword, Create, CommitUpload, CommitAmend,
         CommitDiscard, Import, Drop, WriteLedger, Preview, Ends
<1>4. ASSUME NEW s \in Settlements
      PROVE  IF settlements[s] # NULL
             THEN settlements'[s] # NULL /\ settlements'[s].view_count = settlements[s].view_count
             ELSE settlements'[s] # NULL => settlements'[s].view_count = 0
  <2>1. CASE CommitMove(r)
    <3> DEFINE row == [Moved(settlements[on[r]], world.plan[r], now + 1)
                         EXCEPT !.updated_at = now + 1]
    <3>1. on[r] \in Settlements /\ settlements[on[r]] \in SettlementRow /\ now + 1 \in Nat
      BY <2>1 DEF CommitMove, TypeOK, RequestOK, AboutSettlement, OnRecord
    <3>2. settlements' = [settlements EXCEPT ![on[r]] = row]
      BY <2>1, <3>1 DEF CommitMove, TypeOK, OnRecord
    <3>3. row \in SettlementRow
      BY <3>1, MovedRow
    <3>4. row.view_count = settlements[on[r]].view_count
      BY <3>1 DEF Moved, SettlementRow
    <3>5. row # NULL /\ settlements[on[r]] # NULL
      BY <3>1, <3>3, DocumentsAssumption
    <3> HIDE DEF row
    <3> QED
      BY <3>1, <3>2, <3>4, <3>5 DEF TypeOK, OnRecord
  <2>2. CASE Create(r)
    <3>1. PICK o \in Orgs, t \in Settlements \ Stored, p \in world.periods :
            settlements' = [settlements EXCEPT ![t] =
              [org |-> o, academic_year |-> p.year, semester |-> p.semester,
               status |-> "draft", submitted_at |-> NULL, audited_at |-> NULL,
               published_at |-> NULL, created_at |-> now + 1, updated_at |-> now + 1,
               view_count |-> 0]]
      BY <2>2 DEF Create
    <3> QED
      BY <3>1 DEF TypeOK, OnRecord, Stored
  <2>3. CASE settlements' = settlements
    BY <2>3
  <2> QED
    BY <2>1, <2>2, <2>3
    DEF File, Remark, Comment, Reword, CommitUpload, CommitAmend, CommitDiscard, Import,
        Drop, WriteLedger, Preview, tables
<1>5. /\ r \notin viewed /\ pc'[r] # "viewing" /\ knew'[r] \subseteq viewed
      /\ \A q \in Requests \ {r} :
           pc'[q] = pc[q] /\ on'[q] = on[q] /\ copy'[q] = copy[q] /\ knew'[q] = knew[q]
  BY <1>1, <1>2, <1>3 DEF ViewsInv, TypeOK
<1> QED
  BY <1>1, <1>4, <1>5, ViewsKept

LEMMA NextViews == TypeOK /\ ViewsInv /\ [Next]_vars => ViewsInv'
<1>1. ASSUME ViewsInv, UNCHANGED vars PROVE ViewsInv'
  BY <1>1 DEF vars, tables, requestVars, papers, ViewsInv, Counted
<1> QED
  BY <1>1, LoadsViews, CommitViewKept, OthersViews DEF Next

\* Views of a settlement that did not overlap are all counted, and none is
\* counted twice, whatever else happens to the settlement meanwhile.
THEOREM ViewsAreCounted == Spec => []ViewsAreLostOnlyByOverlap
<1>1. TypeOK /\ ViewsInv => ViewsAreLostOnlyByOverlap
  <2> SUFFICES ASSUME TypeOK, ViewsInv, NEW s \in Settlements, settlements[s] # NULL
               PROVE  LET n == settlements[s].view_count
                          V == {r \in viewed : on[r] = s}
                          base == IF world.settlements[s] = NULL THEN 0
                                  ELSE world.settlements[s].view_count
                      IN  /\ n <= base + Cardinality(V) /\ (V # {} => n > base)
                          /\ (\A q, r \in V : q = r \/ q \in knew[r] \/ r \in knew[q]) =>
                               n = base + Cardinality(V)
    BY DEF ViewsAreLostOnlyByOverlap
  <2>1. Fits(settlements[s].view_count, Base(world, s), Of(on, s, viewed), knew)
    BY DEF ViewsInv, Counted
  <2>2. Base(world, s) \in Nat
    BY BaseNat
  <2> QED
    BY <2>1, <2>2 DEF Fits, Base, Of
<1> QED
  BY <1>1, InitType, NextType, InitViews, NextViews, PTL DEF Spec

-----------------------------------------------------------------------------
(* Readings                                                                 *)

\* Attempts as they are ranked: each was made in a place of its own.
Ranked(S) ==
  /\ IsFiniteSet(S)
  /\ \A a \in S : a.score \in Int /\ a.place \in Int /\ a.page.confidence \in Int
  /\ \A a, b \in S : a # b => a.place # b.place

LEMMA RankedSome == ASSUME NEW S, Ranked(S), NEW T \in SUBSET S PROVE Ranked(T)
BY FS_Subset DEF Ranked

\* No two attempts tie: one comes out first by any key.
LEMMA TopExists ==
  ASSUME NEW S, Ranked(S), S # {}, NEW key \in [S -> Int]
  PROVE  \E a \in S : \A b \in S \ {a} :
           key[a] > key[b] \/ (key[a] = key[b] /\ Reader!Before(a, b))
<1> DEFINE R == {p \in S \X S : \/ key[p[1]] > key[p[2]]
                                \/ key[p[1]] = key[p[2]] /\ Reader!Before(p[1], p[2])}
<1>1. \A a, b \in S : <<a, b>> \in R <=>
        key[a] > key[b] \/ (key[a] = key[b] /\ Reader!Before(a, b))
  OBVIOUS
<1>2. \A a, b \in S : key[a] \in Int /\ key[b] \in Int
  OBVIOUS
<1> HIDE DEF R
<1>3. Orders(R, S)
  BY <1>1, <1>2 DEF Orders, Ranked, Reader!Before
<1>4. PICK a \in S : \A b \in S \ {a} : <<a, b>> \in R
  BY <1>3, FirstExists DEF Ranked
<1> QED
  BY <1>1, <1>4

LEMMA BonusNat ==
  ASSUME NEW v, NEW x
  PROVE  Reader!Bonus(v, x) \in Nat /\ Reader!FieldBonus(v, x) \in Nat
BY DEF Reader!Bonus, Reader!FieldBonus

LEMMA FieldScoreInt ==
  ASSUME NEW S, Ranked(S), NEW f, NEW a \in S
  PROVE  Reader!FieldScore(a, f) \in Int
BY BonusNat DEF Ranked, Reader!FieldScore

\* Who is first has no smaller key.
LEMMA TopByField ==
  ASSUME NEW S, Ranked(S), S # {}, NEW f
  PROVE  /\ Reader!Highest(S, f) \in S
         /\ \A b \in S : Reader!FieldScore(Reader!Highest(S, f), f) >= Reader!FieldScore(b, f)
<1> DEFINE key == [a \in S |-> Reader!FieldScore(a, f)]
           Top(a) == \A b \in S \ {a} :
                       \/ Reader!FieldScore(a, f) > Reader!FieldScore(b, f)
                       \/ Reader!FieldScore(a, f) = Reader!FieldScore(b, f) /\ Reader!Before(a, b)
<1>1. \A a \in S : Reader!FieldScore(a, f) \in Int
  BY FieldScoreInt
<1>2. key \in [S -> Int] /\ \A a \in S : key[a] = Reader!FieldScore(a, f)
  BY <1>1
<1> HIDE DEF key
<1>3. \E a \in S : Top(a)
  <2>1. PICK a \in S : \A b \in S \ {a} :
                 key[a] > key[b] \/ (key[a] = key[b] /\ Reader!Before(a, b))
    BY <1>2, TopExists
  <2>2. Top(a)
    BY <1>2, <2>1
  <2> QED
    BY <2>2
<1>4. Reader!Highest(S, f) = CHOOSE a \in S : Top(a)
  BY DEF Reader!Highest, Reader!FirstMax
<1> DEFINE top == CHOOSE a \in S : Top(a)
<1>5. top \in S /\ Top(top)
  BY <1>3
<1> HIDE DEF top
<1>6. \A b \in S : Reader!FieldScore(top, f) >= Reader!FieldScore(b, f)
  BY <1>1, <1>5
<1> QED
  BY <1>4, <1>5, <1>6 DEF top

\* An instance of a module has its own copy of what the module extends.
LEMMA SameCardinality == \A S : Reader!Cardinality(S) = Cardinality(S)
BY DEF Reader!Cardinality, Cardinality

LEMMA SameToSet == \A s : Reader!ToSet(s) = ToSet(s)
BY DEF Reader!ToSet, ToSet

\* The votes behind what an attempt read.
Votes(S, f, a) == Reader!Cardinality(Reader!Voters(S, f, a))

LEMMA VotesNat ==
  ASSUME NEW S, Ranked(S), NEW f, NEW a
  PROVE  /\ Reader!Voters(S, f, a) \in SUBSET S
         /\ Votes(S, f, a) = Cardinality(Reader!Voters(S, f, a))
         /\ Votes(S, f, a) \in Nat
<1>1. Reader!Voters(S, f, a) \in SUBSET S
  BY DEF Reader!Voters, Reader!Having
<1>2. Votes(S, f, a) = Cardinality(Reader!Voters(S, f, a))
  BY SameCardinality DEF Votes
<1> QED
  BY <1>1, <1>2, FS_Subset, FS_CardinalityType DEF Ranked

LEMMA TopByVotes ==
  ASSUME NEW S, Ranked(S), NEW f, Reader!Having(S, f) # {}
  PROVE  /\ Reader!MostShared(S, f) \in Reader!Having(S, f)
         /\ \A b \in Reader!Having(S, f) : Votes(S, f, b) <= Votes(S, f, Reader!MostShared(S, f))
<1> DEFINE T == Reader!Having(S, f)
           key == [a \in T |-> Votes(S, f, a)]
           Top(a) == \A b \in T \ {a} :
                       \/ Votes(S, f, a) > Votes(S, f, b)
                       \/ Votes(S, f, a) = Votes(S, f, b) /\ Reader!Before(a, b)
<1>1. \A a \in T : Votes(S, f, a) \in Int
  BY VotesNat
<1>2. key \in [T -> Int] /\ \A a \in T : key[a] = Votes(S, f, a)
  BY <1>1
<1> HIDE DEF key
<1>3. \E a \in T : Top(a)
  <2>1. T \in SUBSET S
    BY DEF Reader!Having
  <2>2. Ranked(T)
    BY <2>1, RankedSome
  <2>3. PICK a \in T : \A b \in T \ {a} :
                 key[a] > key[b] \/ (key[a] = key[b] /\ Reader!Before(a, b))
    BY <1>2, <2>2, TopExists
  <2>4. Top(a)
    BY <1>2, <2>3
  <2> QED
    BY <2>4
<1>4. Reader!MostShared(S, f) = CHOOSE a \in T : Top(a)
  BY DEF Reader!MostShared, Reader!FirstMax, Votes
<1> DEFINE top == CHOOSE a \in T : Top(a)
<1>5. top \in T /\ Top(top)
  BY <1>3
<1> HIDE DEF top
<1>6. \A b \in T : Votes(S, f, b) <= Votes(S, f, top)
  BY <1>1, <1>5
<1> QED
  BY <1>4, <1>5, <1>6 DEF top

LEMMA BestIs ==
  ASSUME NEW S, Ranked(S), S # {}
  PROVE  Reader!Best(S) \in S
<1> DEFINE key == [a \in S |-> a.score * 11 + a.page.confidence]
           Top(a) == \A b \in S \ {a} :
                       \/ a.score * 11 + a.page.confidence > b.score * 11 + b.page.confidence
                       \/ /\ a.score * 11 + a.page.confidence = b.score * 11 + b.page.confidence
                          /\ Reader!Before(a, b)
<1>1. \A a \in S : a.score * 11 + a.page.confidence \in Int
  BY DEF Ranked
<1>2. key \in [S -> Int] /\ \A a \in S : key[a] = a.score * 11 + a.page.confidence
  BY <1>1
<1> HIDE DEF key
<1>3. \E a \in S : Top(a)
  <2>1. PICK a \in S : \A b \in S \ {a} :
                 key[a] > key[b] \/ (key[a] = key[b] /\ Reader!Before(a, b))
    BY <1>2, TopExists
  <2>2. Top(a)
    BY <1>2, <2>1
  <2> QED
    BY <2>2
<1>4. Reader!Best(S) = CHOOSE a \in S : Top(a)
  BY DEF Reader!Best, Reader!FirstMax
<1> QED
  BY <1>3, <1>4

\* What the attempts come to is what one of them read: none has more votes,
\* and if nobody shares it, none has a higher score.
LEMMA FusedIs ==
  ASSUME NEW S, Ranked(S), NEW f, Reader!Having(S, f) # {}
  PROVE  \E a \in Reader!Having(S, f) :
           /\ Reader!Fused(S, f) = a.page[f]
           /\ f # "payment" => \A b \in Reader!Having(S, f) : Votes(S, f, b) <= Votes(S, f, a)
           /\ f = "payment" \/ Votes(S, f, a) = 1 =>
                \A b \in Reader!Having(S, f) : Reader!FieldScore(a, f) >= Reader!FieldScore(b, f)
           /\ Reader!Fused(S, f) # Reader!ByScore(S, f) => f # "payment" /\ Votes(S, f, a) >= 2
<1> DEFINE H == Reader!Having(S, f)
           V(a) == Reader!Voters(S, f, a)
           best == Reader!Highest(H, f)
           most == Reader!MostShared(S, f)
           first == Reader!Highest(V(most), f)
<1>1. H \in SUBSET S /\ Ranked(H)
  BY RankedSome DEF Reader!Having
<1>2. /\ \A a : V(a) \in SUBSET H
      /\ \A a \in H : a \in V(a)
      /\ \A a \in H, b \in H : b \in V(a) => V(b) = V(a)
  BY DEF Reader!Voters
<1>3. \A a : Ranked(V(a)) /\ Votes(S, f, a) \in Nat
  BY VotesNat, RankedSome
<1>4. best \in H /\ \A b \in H : Reader!FieldScore(best, f) >= Reader!FieldScore(b, f)
  BY <1>1, TopByField
<1>5. most \in H /\ \A b \in H : Votes(S, f, b) <= Votes(S, f, most)
  BY TopByVotes
<1>6. first \in V(most) /\ V(first) = V(most)
  <2>1. V(most) # {}
    BY <1>2, <1>5
  <2>2. first \in V(most)
    <3> HIDE DEF V
    <3> QED
      BY <1>3, <2>1, TopByField
  <2> QED
    BY <1>2, <1>5, <2>2
<1>7. Reader!ByScore(S, f) = best.page[f]
  BY DEF Reader!ByScore
<1>8. Reader!Fused(S, f) = IF f = "payment" \/ Votes(S, f, most) < 2
                           THEN best.page[f] ELSE first.page[f]
  BY <1>7 DEF Reader!Fused, Votes
<1>9. Votes(S, f, first) = Votes(S, f, most)
  BY <1>6 DEF Votes
<1>10. \A a \in H : Votes(S, f, a) >= 1
  <2>1. \A a \in H : V(a) # {} /\ IsFiniteSet(V(a))
    BY <1>2, <1>3 DEF Ranked
  <2>2. \A a \in H : Votes(S, f, a) # 0
    BY <2>1, FS_EmptySet, VotesNat
  <2> QED
    BY <1>3, <2>2
<1> HIDE DEF V, best, most, first
<1>11. CASE f = "payment" \/ Votes(S, f, most) < 2
  <2>1. Votes(S, f, most) < 2 => \A b \in H : Votes(S, f, b) <= Votes(S, f, best)
    BY <1>3, <1>4, <1>5, <1>10
  <2> QED
    BY <1>4, <1>7, <1>8, <1>11, <2>1
<1>12. CASE f # "payment" /\ Votes(S, f, most) >= 2
  <2>1. first \in H /\ Votes(S, f, first) >= 2
    BY <1>2, <1>6, <1>9, <1>12
  <2>2. Reader!Fused(S, f) = first.page[f]
    BY <1>3, <1>8, <1>12
  <2>3. \A b \in H : Votes(S, f, b) <= Votes(S, f, first)
    BY <1>5, <1>9
  <2> QED
    BY <1>3, <1>12, <2>1, <2>2, <2>3
<1> QED
  BY <1>3, <1>11, <1>12

-----------------------------------------------------------------------------

\* The place of a preparation is found.
LEMMA PlaceIs ==
  ASSUME NEW order, DOMAIN order \subseteq Nat, NEW v \in ToSet(order)
  PROVE  Reader!Place(order, v) \in Nat /\ order[Reader!Place(order, v)] = v
BY DEF ToSet, Reader!Place

LEMMA OrdersAre ==
  ASSUME NEW type
  PROVE  /\ DOMAIN Reader!Priority \subseteq Nat /\ DOMAIN Reader!Variants(type) \subseteq Nat
         /\ ToSet(Reader!Variants(type)) \subseteq ToSet(Reader!Priority)
         /\ IsFiniteSet(ToSet(Reader!Priority))
<1> DEFINE names == {"document_enhanced", "background_cropped", "original", "adaptive_binary",
                     "sharpened", "perspective_corrected"}
<1>1. ToSet(Reader!Priority) = names
  BY DEF ToSet, Reader!Priority
<1>2. ToSet(Reader!Variants(type)) \subseteq names
  BY DEF ToSet, Reader!Variants
<1>3. DOMAIN Reader!Priority \subseteq Nat /\ DOMAIN Reader!Variants(type) \subseteq Nat
  BY DEF Reader!Priority, Reader!Variants
<1>4. IsFiniteSet(names)
  <2>1. \A S, x : IsFiniteSet(S) => IsFiniteSet(S \cup {x})
    BY FS_AddElement
  <2>2. IsFiniteSet({} \cup {"document_enhanced"} \cup {"background_cropped"} \cup {"original"})
    BY <2>1, FS_EmptySet
  <2>3. IsFiniteSet({"document_enhanced", "background_cropped", "original"}
                     \cup {"adaptive_binary"} \cup {"sharpened"} \cup {"perspective_corrected"})
    <3>1. {} \cup {"document_enhanced"} \cup {"background_cropped"} \cup {"original"}
            = {"document_enhanced", "background_cropped", "original"}
      OBVIOUS
    <3> QED
      BY <2>1, <2>2, <3>1
  <2>4. {"document_enhanced", "background_cropped", "original"}
          \cup {"adaptive_binary"} \cup {"sharpened"} \cup {"perspective_corrected"} = names
    OBVIOUS
  <2> QED
    BY <2>3, <2>4
<1> QED
  BY <1>1, <1>2, <1>3, <1>4

\* The passes that read any text, and what each is as an attempt.
ReadBy(settings, photo) ==
  {v \in Reader!Chosen(settings, photo.type) : photo.pages[v].lines > 0}

AttemptOf(settings, photo, v) ==
  [variant |-> v, page |-> photo.pages[v],
   place |-> Reader!Place(IF Reader!Limited(settings, photo.type) THEN Reader!Priority
                          ELSE Reader!Variants(photo.type), v),
   score |-> Reader!Score(photo.pages[v], v, photo.type)]

\* No pass that is made failed.
Passed(settings, photo) ==
  \A v \in Reader!Chosen(settings, photo.type) : photo.pages[v] # NULL

LEMMA AtMostNat ==
  ASSUME NEW n \in Nat, NEW k \in Nat
  PROVE  Reader!Slip!AtMost(n, k) \in Nat
BY DEF Reader!Slip!AtMost

LEMMA ScoreInt ==
  ASSUME NEW page, NEW v, NEW type, page.lines \in Nat, page.length \in Nat,
         page.confidence \in Nat
  PROVE  Reader!Score(page, v, type) \in Int
<1>1. Reader!Bonus(v, type) \in Nat
  BY BonusNat
<1>2. Reader!Slip!AtMost(page.lines, 12) \in Nat /\ Reader!Slip!AtMost(page.length, 10) \in Nat
  BY AtMostNat
<1> QED
  BY <1>1, <1>2 DEF Reader!Score, Reader!Weight

LEMMA AttemptsAre ==
  ASSUME NEW settings, NEW photo, Legible(photo), Passed(settings, photo)
  PROVE  /\ Reader!Attempts(settings, photo) =
              {AttemptOf(settings, photo, v) : v \in ReadBy(settings, photo)}
         /\ Ranked(Reader!Attempts(settings, photo))
         /\ IsFiniteSet(ReadBy(settings, photo))
<1> DEFINE order == IF Reader!Limited(settings, photo.type) THEN Reader!Priority
                    ELSE Reader!Variants(photo.type)
           chosen == Reader!Chosen(settings, photo.type)
           read == ReadBy(settings, photo)
           Made(v) == AttemptOf(settings, photo, v)
           attempts == Reader!Attempts(settings, photo)
<1>1. attempts = {Made(v) : v \in read}
  BY DEF Reader!Attempts, ReadBy, AttemptOf
<1>2. chosen \subseteq ToSet(order) /\ chosen \subseteq ToSet(Reader!Priority)
  <2>1. chosen \subseteq ToSet(Reader!Variants(photo.type))
    BY SameToSet DEF Reader!Chosen
  <2> QED
    BY <2>1, OrdersAre
<1>3. \A v \in read : v \in ToSet(order) /\ v \in ToSet(Reader!Priority) /\ photo.pages[v] # NULL
  BY <1>2 DEF ReadBy, Passed
<1>4. \A v \in read : /\ Made(v).page = photo.pages[v] /\ Made(v).variant = v
                      /\ Made(v).place = Reader!Place(order, v)
                      /\ Made(v).score = Reader!Score(photo.pages[v], v, photo.type)
  BY DEF AttemptOf
<1>5. DOMAIN order \subseteq Nat
  BY OrdersAre
<1>6. \A v \in read : /\ Reader!Place(order, v) \in Nat
                      /\ order[Reader!Place(order, v)] = v
  <2> HIDE DEF order, read
  <2> QED
    BY <1>3, <1>5, PlaceIs
<1>7. IsFiniteSet(read) /\ IsFiniteSet(attempts)
  <2>1. read \in SUBSET ToSet(Reader!Priority)
    BY <1>3
  <2>2. IsFiniteSet(read)
    BY <2>1, OrdersAre, FS_Subset
  <2>3. IsFiniteSet({Made(v) : v \in read})
    <3> DEFINE to == [v \in read |-> Made(v)]
    <3>1. to \in Surjection(read, {Made(v) : v \in read})
      <4> HIDE DEF read, Made
      <4> QED
        BY DEF Surjection
    <3> HIDE DEF to, read, Made
    <3> QED
      BY <2>2, <3>1, FS_Surjection
  <2> QED
    BY <1>1, <2>2, <2>3
<1>8. \A v \in read : /\ Made(v).score \in Int /\ Made(v).place \in Int
                      /\ Made(v).page.confidence \in Int
  <2>1. \A v \in read : /\ photo.pages[v].lines \in Nat /\ photo.pages[v].length \in Nat
                        /\ photo.pages[v].confidence \in Nat
    BY <1>3 DEF Legible
  <2>2. \A v \in read : Reader!Score(photo.pages[v], v, photo.type) \in Int
    BY <2>1, ScoreInt
  <2> HIDE DEF read, Made, order
  <2> QED
    BY <1>4, <1>6, <2>1, <2>2
<1>9. \A v, w \in read : Made(v).place = Made(w).place => v = w
  <2> HIDE DEF read, Made, order
  <2> QED
    BY <1>4, <1>6
<1>10. Ranked({Made(v) : v \in read})
  <2> HIDE DEF read, Made
  <2> QED
    BY <1>1, <1>7, <1>8, <1>9 DEF Ranked
<1> QED
  BY <1>1, <1>7, <1>10

\* Who read the same as x.
ReadAs(settings, photo, f, x) ==
  {w \in ReadBy(settings, photo) :
     photo.pages[w][f] # NULL /\ Reader!KeyOf(f, photo.pages[w][f]) = Reader!KeyOf(f, x)}

\* The votes behind an attempt are the passes that read the same.
LEMMA VotesAre ==
  ASSUME NEW settings, NEW photo, Legible(photo), Passed(settings, photo),
         NEW f, NEW v \in ReadBy(settings, photo)
  PROVE  Votes(Reader!Attempts(settings, photo), f, AttemptOf(settings, photo, v))
           = Cardinality(ReadAs(settings, photo, f, photo.pages[v][f]))
<1> DEFINE read == ReadBy(settings, photo)
           Made(w) == AttemptOf(settings, photo, w)
           S == Reader!Attempts(settings, photo)
           V == Reader!Voters(S, f, Made(v))
           same == ReadAs(settings, photo, f, photo.pages[v][f])
           to == [w \in same |-> Made(w)]
<1>1. S = {Made(w) : w \in read} /\ IsFiniteSet(read) /\ Ranked(S)
  BY AttemptsAre
<1>2. \A w \in read : Made(w).page = photo.pages[w] /\ Made(w).variant = w
  BY DEF AttemptOf
<1>3. V = {b \in S : /\ b.page[f] # NULL
                     /\ Reader!KeyOf(f, b.page[f]) = Reader!KeyOf(f, photo.pages[v][f])}
  BY <1>2 DEF Reader!Voters, Reader!Having
<1>4. to \in Bijection(same, V)
  <2>0. same = {w \in read : /\ photo.pages[w][f] # NULL
                             /\ Reader!KeyOf(f, photo.pages[w][f]) = Reader!KeyOf(f, photo.pages[v][f])}
    BY DEF ReadAs
  <2> HIDE DEF S, Made, V, read
  <2>1. \A w \in same : Made(w) \in V
    BY <1>1, <1>2, <1>3, <2>0
  <2>2. \A b \in V : \E w \in same : Made(w) = b
    BY <1>1, <1>2, <1>3, <2>0
  <2>3. \A w, x \in same : Made(w) = Made(x) => w = x
    BY <1>2, <2>0
  <2> HIDE DEF same
  <2> QED
    <3>1. to \in [same -> V] /\ \A w \in same : to[w] = Made(w)
      BY <2>1
    <3> HIDE DEF to
    <3>2. \A w, x \in same : to[w] = to[x] => w = x
      BY <2>3, <3>1
    <3>3. \A b \in V : \E w \in same : to[w] = b
      BY <2>2, <3>1
    <3>4. to \in Injection(same, V)
      BY <3>1, <3>2 DEF Injection, IsInjective
    <3>5. to \in Surjection(same, V)
      BY <3>1, <3>3 DEF Surjection
    <3> QED
      BY <3>4, <3>5 DEF Bijection
<1>5. IsFiniteSet(same)
  <2>1. same \in SUBSET read
    BY DEF ReadAs
  <2> QED
    BY <1>1, <2>1, FS_Subset
<1>6. Cardinality(same) = Cardinality(V)
  <2> HIDE DEF to, same, V
  <2> QED
    BY <1>4, <1>5, FS_Bijection DEF ExistsBijection
<1> QED
  BY <1>1, <1>6, VotesNat

\* A page that is better in every respect has the higher score.
LEMMA BetterScores ==
  ASSUME NEW settings, NEW photo, Legible(photo), Passed(settings, photo), NEW f,
         NEW v \in ReadBy(settings, photo), NEW w \in ReadBy(settings, photo),
         \A g \in Reader!Fields : photo.pages[w][g] # NULL => photo.pages[v][g] # NULL,
         photo.pages[v].lines >= photo.pages[w].lines,
         photo.pages[v].length >= photo.pages[w].length,
         photo.pages[v].confidence > photo.pages[w].confidence,
         Reader!Bonus(v, photo.type) >= Reader!Bonus(w, photo.type),
         Reader!FieldBonus(v, f) >= Reader!FieldBonus(w, f)
  PROVE  Reader!FieldScore(AttemptOf(settings, photo, v), f)
           > Reader!FieldScore(AttemptOf(settings, photo, w), f)
<1> DEFINE Gain(x, g) == IF photo.pages[x][g] = NULL THEN 0 ELSE Reader!Weight[g]
           Capped(n, k) == Reader!Slip!AtMost(n, k)
           AsMuch(x) == Gain(x, "date") + Gain(x, "merchant") + Gain(x, "amount")
                          + Gain(x, "payment")
           Much(x) == AsMuch(x) + Capped(photo.pages[x].lines, 12) + Capped(photo.pages[x].length, 10)
                          + Reader!Bonus(x, photo.type)
<1>1. \A x \in {v, w} : /\ photo.pages[x].lines \in Nat /\ photo.pages[x].length \in Nat
                         /\ photo.pages[x].confidence \in Nat
  <2>1. \A x \in {v, w} : x \in ToSet(Reader!Priority) /\ photo.pages[x] # NULL
    BY SameToSet, OrdersAre DEF ReadBy, Passed, Reader!Chosen
  <2> QED
    BY <2>1 DEF Legible
<1>2. \A g \in Reader!Fields : /\ Gain(v, g) \in Nat /\ Gain(w, g) \in Nat
                               /\ Gain(v, g) >= Gain(w, g)
  BY DEF Reader!Fields, Reader!Weight
<1>3. AsMuch(v) \in Nat /\ AsMuch(w) \in Nat /\ AsMuch(v) >= AsMuch(w)
  <2> HIDE DEF Gain
  <2> QED
    BY <1>2 DEF Reader!Fields
<1>4. \A k \in {10, 12}, m, n \in Nat : n >= m =>
        Capped(n, k) \in Nat /\ Capped(m, k) \in Nat /\ Capped(n, k) >= Capped(m, k)
  BY DEF Reader!Slip!AtMost
<1>5. Much(v) \in Nat /\ Much(w) \in Nat /\ Much(v) >= Much(w)
  <2>1. Reader!Bonus(v, photo.type) \in Nat /\ Reader!Bonus(w, photo.type) \in Nat
    BY BonusNat
  <2>2. /\ Capped(photo.pages[v].lines, 12) \in Nat /\ Capped(photo.pages[w].lines, 12) \in Nat
        /\ Capped(photo.pages[v].lines, 12) >= Capped(photo.pages[w].lines, 12)
        /\ Capped(photo.pages[v].length, 10) \in Nat /\ Capped(photo.pages[w].length, 10) \in Nat
        /\ Capped(photo.pages[v].length, 10) >= Capped(photo.pages[w].length, 10)
    <3> HIDE DEF Capped
    <3> QED
      BY <1>1, <1>4
  <2> HIDE DEF AsMuch, Capped
  <2> QED
    BY <1>3, <2>1, <2>2
<1>6. \A x \in {v, w} : Reader!FieldScore(AttemptOf(settings, photo, x), f) =
        2 * Much(x) + 3 * photo.pages[x].confidence + 2 * photo.pages[x].confidence
          + 2 * Reader!FieldBonus(x, f)
  BY DEF Reader!FieldScore, Reader!Score, AttemptOf
<1>7. Reader!FieldBonus(v, f) \in Nat /\ Reader!FieldBonus(w, f) \in Nat
  BY BonusNat
<1> HIDE DEF Much
<1> QED
  BY <1>1, <1>5, <1>6, <1>7

\* A field is earned by what was read, and where the payload tells another
\* value two passes agreed on this one.
LEMMA FieldsEarned ==
  ASSUME NEW settings, NEW photo, Legible(photo), Passed(settings, photo),
         NEW f \in Reader!Fields
  PROVE  LET S == Reader!Attempts(settings, photo)
             read == ReadBy(settings, photo)
         IN  /\ FieldEarned(photo, read, f, Reader!Fused(S, f))
             /\ Reader!ByScore(S, f) # Reader!Fused(S, f) =>
                  \E v, w \in read :
                    /\ v # w /\ photo.pages[v][f] # NULL /\ photo.pages[w][f] # NULL
                    /\ Reader!KeyOf(f, photo.pages[v][f]) = Reader!KeyOf(f, photo.pages[w][f])
<1> DEFINE S == Reader!Attempts(settings, photo)
           H == Reader!Having(S, f)
           read == ReadBy(settings, photo)
           Made(v) == AttemptOf(settings, photo, v)
           Behind(x) == ReadAs(settings, photo, f, x)
           Says(v) == v \in read /\ photo.pages[v][f] # NULL
<1>1. S = {Made(v) : v \in read} /\ IsFiniteSet(read) /\ Ranked(S)
  BY AttemptsAre
<1>2. \A v \in read : Made(v).page = photo.pages[v]
  BY DEF AttemptOf
<1>3. /\ \A a \in H : \E v : Says(v) /\ a = Made(v)
      /\ \A v : Says(v) => Made(v) \in H
  <2> HIDE DEF S, Made, read
  <2> QED
    BY <1>1, <1>2 DEF Reader!Having
<1>4. \A v : Says(v) => Votes(S, f, Made(v)) = Cardinality(Behind(photo.pages[v][f]))
  <2> HIDE DEF S
  <2> QED
    BY VotesAre DEF S
<1>5. CASE H = {}
  <2>1. Reader!Fused(S, f) = NULL /\ Reader!ByScore(S, f) = NULL
    BY <1>5 DEF Reader!Fused, Reader!ByScore
  <2>2. \A v \in read : photo.pages[v][f] = NULL
    BY <1>3, <1>5
  <2> QED
    BY <2>1, <2>2 DEF FieldEarned
<1>6. CASE H # {}
  <2> HIDE DEF S, Made, read
  <2>1. PICK a \in H :
          /\ Reader!Fused(S, f) = a.page[f]
          /\ f # "payment" => \A b \in H : Votes(S, f, b) <= Votes(S, f, a)
          /\ f = "payment" \/ Votes(S, f, a) = 1 =>
               \A b \in H : Reader!FieldScore(a, f) >= Reader!FieldScore(b, f)
          /\ Reader!Fused(S, f) # Reader!ByScore(S, f) => f # "payment" /\ Votes(S, f, a) >= 2
    BY <1>1, <1>6, FusedIs
  <2>2. PICK u : Says(u) /\ a = Made(u)
    BY <1>3
  <2> DEFINE value == photo.pages[u][f]
  <2>3. Reader!Fused(S, f) = value /\ value # NULL /\ Votes(S, f, a) = Cardinality(Behind(value))
    BY <1>2, <1>4, <2>1, <2>2
  <2>4. f # "payment" => \A v : Says(v) =>
          Cardinality(Behind(photo.pages[v][f])) <= Cardinality(Behind(value))
    <3> HIDE DEF Behind, Says
    <3> QED
      BY <1>3, <1>4, <2>1, <2>3
  <2>5. f = "payment" \/ Cardinality(Behind(value)) = 1 =>
          \A v : Says(v) => ~(Reader!FieldScore(Made(v), f) > Reader!FieldScore(Made(u), f))
    <3>1. \A b \in H : b \in S
      BY DEF Reader!Having
    <3>2. \A b \in S : Reader!FieldScore(b, f) \in Int
      BY <1>1, FieldScoreInt
    <3> HIDE DEF Behind, Says
    <3> QED
      BY <1>3, <2>1, <2>2, <2>3, <3>1, <3>2
  <2>6. Reader!ByScore(S, f) # value => \E v, w \in Behind(value) : v # w
    <3>1. Behind(value) \in SUBSET read /\ u \in Behind(value)
      BY <2>2, <2>3 DEF ReadAs, read
    <3>2. SUFFICES ASSUME Cardinality(Behind(value)) >= 2
                   PROVE  \E v, w \in Behind(value) : v # w
      BY <2>1, <2>3
    <3> HIDE DEF Behind, value
    <3>3. Cardinality({u}) = 1
      BY FS_Singleton
    <3>4. Behind(value) # {u}
      BY <3>2, <3>3
    <3> QED
      BY <3>1, <3>4
  <2>7. ASSUME NEW v, Says(v), f = "payment" \/ Cardinality(Behind(value)) = 1
        PROVE  ~(/\ \A g \in Reader!Fields : photo.pages[u][g] # NULL => photo.pages[v][g] # NULL
                 /\ photo.pages[v].lines >= photo.pages[u].lines
                 /\ photo.pages[v].length >= photo.pages[u].length
                 /\ photo.pages[v].confidence > photo.pages[u].confidence
                 /\ Reader!Bonus(v, photo.type) >= Reader!Bonus(u, photo.type)
                 /\ Reader!FieldBonus(v, f) >= Reader!FieldBonus(u, f))
    BY <2>2, <2>5, <2>7, BetterScores DEF Made, read
  <2>8. FieldEarned(photo, read, f, value)
    <3>1. \A x : Behind(x) = {w \in read : /\ photo.pages[w][f] # NULL
                                           /\ Reader!KeyOf(f, photo.pages[w][f]) = Reader!KeyOf(f, x)}
      BY DEF ReadAs, read
    <3>2. u \in Behind(value)
      BY <2>2, <3>1
    <3> HIDE DEF value
    <3>3. SUFFICES ASSUME NEW v, Says(v)
          PROVE  /\ f # "payment" =>
                      Cardinality(Behind(photo.pages[v][f])) <= Cardinality(Behind(value))
                 /\ f = "payment" \/ Cardinality(Behind(value)) = 1 =>
                      \E w \in Behind(value) :
                        ~(/\ {g \in Reader!Fields : photo.pages[w][g] # NULL}
                               \subseteq {g \in Reader!Fields : photo.pages[v][g] # NULL}
                          /\ photo.pages[v].lines >= photo.pages[w].lines
                          /\ photo.pages[v].length >= photo.pages[w].length
                          /\ photo.pages[v].confidence > photo.pages[w].confidence
                          /\ Reader!Bonus(v, photo.type) >= Reader!Bonus(w, photo.type)
                          /\ Reader!FieldBonus(v, f) >= Reader!FieldBonus(w, f))
      <4> HIDE DEF Behind
      <4> QED
        BY <2>2, <2>3, <3>1 DEF FieldEarned, value
    <3> QED
      BY <2>4, <2>7, <3>2, <3>3
  <2> HIDE DEF value
  <2>9. \A v \in Behind(value) :
          /\ v \in read /\ photo.pages[v][f] # NULL
          /\ Reader!KeyOf(f, photo.pages[v][f]) = Reader!KeyOf(f, value)
    BY DEF ReadAs, read
  <2> QED
    BY <2>3, <2>6, <2>8, <2>9 DEF read, S
<1> QED
  BY <1>5, <1>6

-----------------------------------------------------------------------------

\* The passes over a photo answer only if none failed, and with what was read;
\* they come to nothing only if one failed or none read.
LEMMA LocalEarned ==
  ASSUME NEW settings, NEW photo, Legible(photo)
  PROVE  LET result == Reader!ReadLocally(settings, photo)
         IN  /\ result.outcome = "answer" =>
                  /\ Passed(settings, photo) /\ result.engine = "paddleocr"
                  /\ PassesTell(photo, ReadBy(settings, photo), result)
             /\ result.outcome = "refused" /\ Passed(settings, photo) =>
                  ReadBy(settings, photo) = {}
<1> DEFINE result == Reader!ReadLocally(settings, photo)
           S == Reader!Attempts(settings, photo)
           read == ReadBy(settings, photo)
           answer == Reader!Answer("paddleocr", photo.type, Reader!Merged(S).fields, NULL, FALSE,
                                   Reader!Merged(S))
<1>1. CASE ~Passed(settings, photo)
  <2>1. result = Reader!Broken \/ result = Reader!Refused
    BY <1>1 DEF Reader!ReadLocally, Passed
  <2> QED
    BY <1>1, <2>1 DEF Reader!Broken, Reader!Refused
<1>2. CASE Passed(settings, photo)
  <2>1. result = IF S = {} THEN Reader!Refused ELSE answer
    BY <1>2 DEF Reader!ReadLocally, Passed
  <2>2. S = {AttemptOf(settings, photo, v) : v \in read} /\ Ranked(S)
    BY <1>2, AttemptsAre
  <2>3. CASE S = {}
    <3>1. read = {}
      BY <2>2, <2>3
    <3> QED
      BY <2>1, <2>3, <3>1 DEF Reader!Refused
  <2>4. CASE S # {}
    <3>1. result = answer
      BY <2>1, <2>4
    <3>2. /\ answer.outcome = "answer" /\ answer.engine = "paddleocr"
          /\ answer.type = photo.type /\ answer.category = NULL /\ answer.refund = FALSE
          /\ answer.passes.selected = Reader!Best(S).variant
          /\ \A f \in Reader!Fields : /\ answer.fields[f] = Reader!Fused(S, f)
                                      /\ answer.passes.fusion[f] = Reader!ByScore(S, f)
      BY DEF Reader!Answer, Reader!Merged
    <3> HIDE DEF S, answer, read
    <3>3. Reader!Best(S).variant \in read
      <4>1. PICK v \in read : Reader!Best(S) = AttemptOf(settings, photo, v)
        BY <2>2, <2>4, BestIs
      <4> QED
        BY <4>1 DEF AttemptOf
    <3>4. \A f \in Reader!Fields :
            /\ FieldEarned(photo, read, f, Reader!Fused(S, f))
            /\ Reader!ByScore(S, f) # Reader!Fused(S, f) =>
                 \E v, w \in read :
                   /\ v # w /\ photo.pages[v][f] # NULL /\ photo.pages[w][f] # NULL
                   /\ Reader!KeyOf(f, photo.pages[v][f]) = Reader!KeyOf(f, photo.pages[w][f])
      BY <1>2, FieldsEarned DEF S, read
    <3>5. PassesTell(photo, read, answer)
      BY <3>2, <3>3, <3>4 DEF PassesTell
    <3> HIDE DEF result
    <3> QED
      BY <1>2, <3>1, <3>2, <3>5 DEF read, result
  <2> QED
    BY <2>3, <2>4
<1> QED
  BY <1>1, <1>2

\* The passes do not ask which cloud was asked before.
LEMMA LocalSame ==
  ASSUME NEW settings, NEW other, NEW photo,
         other.mode = settings.mode, other.cap = settings.cap
  PROVE  Reader!ReadLocally(other, photo) = Reader!ReadLocally(settings, photo)
<1>1. Reader!Limited(other, photo.type) <=> Reader!Limited(settings, photo.type)
  BY DEF Reader!Limited
<1>2. Reader!Chosen(other, photo.type) = Reader!Chosen(settings, photo.type)
  BY <1>1 DEF Reader!Chosen
<1>3. Reader!Attempts(other, photo) = Reader!Attempts(settings, photo)
  BY <1>1, <1>2 DEF Reader!Attempts
<1> QED
  BY <1>2, <1>3 DEF Reader!ReadLocally

\* What comes of a cloud.
Cloudy(result, settings, photo) ==
  \/ result = Reader!Refused
  \/ result = Reader!Broken /\ \E n \in 1 .. 3 : photo.replies[n].says = "cut"
  \/ result.outcome = "answer" /\ result.engine = settings.provider

LEMMA ReplyIs ==
  ASSUME NEW replies
  PROVE  \E n \in 1 .. 3 : Reader!Reply(replies) = replies[n]
<1> DEFINE said == {n \in 1 .. 3 : replies[n].says # "busy"}
<1>1. CASE said = {}
  BY <1>1 DEF Reader!Reply
<1>2. CASE said # {}
  <2>1. Reader!Min(said) = CHOOSE n \in said : \A m \in said : n <= m
    BY DEF Reader!Min
  <2>2. \E n \in said : \A m \in said : n <= m
    BY <1>2
  <2>3. Reader!Min(said) \in 1 .. 3
    BY <2>1, <2>2
  <2>4. Reader!Reply(replies) = replies[Reader!Min(said)]
    BY <1>2 DEF Reader!Reply
  <2> QED
    BY <2>3, <2>4
<1> QED
  BY <1>1, <1>2

LEMMA CloudIs ==
  ASSUME NEW settings \in EngineSettings, settings.provider # "local", NEW photo
  PROVE  Cloudy(Reader!AskCloud(settings, photo), settings, photo)
<1>1. ASSUME NEW reply, NEW answer, answer.outcome = "answer", answer.engine = settings.provider,
             \E n \in 1 .. 3 : reply = photo.replies[n]
      PROVE  Cloudy(Reader!Outcome(reply, answer), settings, photo)
  <2>1. CASE reply.says = "answer"
    BY <1>1, <2>1 DEF Reader!Outcome, Cloudy
  <2>2. CASE reply.says = "cut"
    <3>1. Reader!Outcome(reply, answer) = Reader!Broken
      BY <2>2 DEF Reader!Outcome
    <3>2. \E n \in 1 .. 3 : photo.replies[n].says = "cut"
      BY <1>1, <2>2
    <3> QED
      BY <3>1, <3>2 DEF Cloudy
  <2>3. CASE reply.says \notin {"answer", "cut"}
    BY <2>3 DEF Reader!Outcome, Cloudy
  <2> QED
    BY <2>1, <2>2, <2>3
<1>2. CASE ~settings.configured
  BY <1>2 DEF Reader!AskCloud, Cloudy
<1>3. CASE settings.configured /\ settings.provider = "gemini"
  <2>1. Reader!AskCloud(settings, photo) = Reader!AskGemini(photo)
    BY <1>3 DEF Reader!AskCloud
  <2>2. PICK reply, answer : /\ Reader!AskGemini(photo) = Reader!Outcome(reply, answer)
                             /\ reply = Reader!Reply(photo.replies)
                             /\ answer.outcome = "answer" /\ answer.engine = "gemini"
    BY DEF Reader!AskGemini, Reader!Answer
  <2> QED
    BY <1>1, <1>3, <2>1, <2>2, ReplyIs
<1>4. CASE settings.configured /\ settings.provider = "clova"
  <2>1. Reader!AskCloud(settings, photo) = Reader!AskClova(photo)
    BY <1>4 DEF Reader!AskCloud
  <2>2. PICK reply, answer : /\ Reader!AskClova(photo) = Reader!Outcome(reply, answer)
                             /\ reply = photo.replies[1]
                             /\ answer.outcome = "answer" /\ answer.engine = "clova"
    BY DEF Reader!AskClova, Reader!Answer
  <2> QED
    BY <1>1, <1>4, <2>1, <2>2
<1> QED
  BY <1>2, <1>3, <1>4 DEF EngineSettings

\* A preview shows what the file came to, under the settings of its time.
PreviewsInv ==
  \A x \in previews :
    /\ x.settings \in EngineSettings
    /\ x.file.kind = "photo" => Legible(x.file)
    /\ x.file.kind = "pdf" => x.file.page = NULL \/ Issued(x.file)
    /\ x.result = Reader!Extract(x.settings, x.file)

\* A photo is read by the passes, or by a cloud that did not leave it to them.
LEMMA PhotoRead ==
  ASSUME NEW settings \in EngineSettings, NEW photo, photo.kind = "photo"
  PROVE  LET result == Reader!Extract(settings, photo)
             byPasses == Reader!ReadLocally(settings, photo)
         IN  IF settings.provider = "local" THEN result = byPasses
             ELSE /\ Reader!Extract([settings EXCEPT !.provider = "local"], photo) = byPasses
                  /\ \/ settings.fallback /\ result = byPasses
                     \/ /\ Cloudy(result, settings, photo)
                        /\ result = Reader!Refused => ~settings.fallback
<1> DEFINE local == [settings EXCEPT !.provider = "local"]
           cloud == Reader!AskCloud(settings, photo)
<1>1. CASE settings.provider = "local"
  BY <1>1 DEF Reader!Extract, Reader!ReadPhoto
<1>2. CASE settings.provider # "local"
  <2>1. /\ local.provider = "local" /\ local.mode = settings.mode /\ local.cap = settings.cap
    BY DEF EngineSettings
  <2>2. Reader!Extract(local, photo) = Reader!ReadLocally(settings, photo)
    <3> HIDE DEF local
    <3>1. Reader!Extract(local, photo) = Reader!ReadLocally(local, photo)
      BY <2>1 DEF Reader!Extract, Reader!ReadPhoto
    <3> QED
      BY <2>1, <3>1, LocalSame
  <2>3. Reader!Extract(settings, photo) =
          IF cloud = Reader!Refused /\ settings.fallback
          THEN Reader!ReadLocally(settings, photo) ELSE cloud
    BY <1>2 DEF Reader!Extract, Reader!ReadPhoto
  <2>4. Cloudy(cloud, settings, photo)
    BY <1>2, CloudIs
  <2> HIDE DEF cloud
  <2> QED
    BY <1>2, <2>2, <2>3, <2>4
<1> QED
  BY <1>1, <1>2

\* What is read from a photo is earned by what was read, whatever the passes
\* make of it and however the clouds fail.
LEMMA PreviewsEarned == PreviewsInv => ReadingsAreEarned
<1> SUFFICES ASSUME PreviewsInv, NEW x \in previews, x.file.kind = "photo"
             PROVE  LET photo == x.file
                        used == Reader!Chosen(x.settings, photo.type)
                        passed == \A v \in used : photo.pages[v] # NULL
                        read == {v \in used : photo.pages[v].lines > 0}
                        cloud == x.settings.provider
                    IN  /\ x.result.outcome = "answer" /\ x.result.engine = "paddleocr" =>
                             passed /\ PassesTell(photo, read, x.result)
                        /\ x.settings.fallback /\ cloud # "local" =>
                             \/ x.result = Reader!Extract([x.settings EXCEPT !.provider = "local"], photo)
                             \/ x.result.outcome = "answer" /\ x.result.engine = cloud
                             \/ x.result.outcome = "broken" /\ \E n \in 1 .. 3 : photo.replies[n].says = "cut"
                        /\ x.result.outcome = "refused" /\ passed =>
                             \/ read = {}
                             \/ cloud # "local" /\ ~x.settings.fallback
  BY DEF ReadingsAreEarned
<1> DEFINE photo == x.file
           settings == x.settings
           byPasses == Reader!ReadLocally(settings, photo)
           read == ReadBy(settings, photo)
<1>1. /\ settings \in EngineSettings /\ Legible(photo)
      /\ x.result = Reader!Extract(settings, photo)
  BY DEF PreviewsInv
<1>2. /\ byPasses.outcome = "answer" =>
           /\ Passed(settings, photo) /\ byPasses.engine = "paddleocr"
           /\ PassesTell(photo, read, byPasses)
      /\ byPasses.outcome = "refused" /\ Passed(settings, photo) => read = {}
  BY <1>1, LocalEarned
<1>3. IF settings.provider = "local" THEN x.result = byPasses
      ELSE /\ Reader!Extract([settings EXCEPT !.provider = "local"], photo) = byPasses
           /\ \/ settings.fallback /\ x.result = byPasses
              \/ /\ Cloudy(x.result, settings, photo)
                 /\ x.result = Reader!Refused => ~settings.fallback
  BY <1>1, PhotoRead
<1>4. settings.provider \in {"local", "gemini", "clova"} /\ settings.fallback \in BOOLEAN
  BY <1>1 DEF EngineSettings
<1>5. Cloudy(x.result, settings, photo) /\ settings.provider # "local" =>
        /\ x.result.outcome = "refused" => x.result = Reader!Refused
        /\ x.result.outcome = "answer" =>
             x.result.engine = settings.provider /\ x.result.engine # "paddleocr"
        /\ \/ x.result = Reader!Refused
           \/ x.result.outcome = "answer"
           \/ x.result.outcome = "broken" /\ \E n \in 1 .. 3 : photo.replies[n].says = "cut"
  BY <1>4 DEF Cloudy, Reader!Refused, Reader!Broken
<1>6. /\ read = {v \in Reader!Chosen(settings, photo.type) : photo.pages[v].lines > 0}
      /\ Passed(settings, photo) <=>
           \A v \in Reader!Chosen(settings, photo.type) : photo.pages[v] # NULL
  BY DEF ReadBy, Passed
<1> HIDE DEF photo, settings, byPasses, read
<1>7. x.result.outcome = "answer" /\ x.result.engine = "paddleocr" =>
        Passed(settings, photo) /\ PassesTell(photo, read, x.result)
  BY <1>2, <1>3, <1>5
<1>8. settings.fallback /\ settings.provider # "local" =>
        \/ x.result = Reader!Extract([settings EXCEPT !.provider = "local"], photo)
        \/ x.result.outcome = "answer" /\ x.result.engine = settings.provider
        \/ x.result.outcome = "broken" /\ \E n \in 1 .. 3 : photo.replies[n].says = "cut"
  BY <1>3, <1>5
<1>9. x.result.outcome = "refused" /\ Passed(settings, photo) =>
        read = {} \/ (settings.provider # "local" /\ ~settings.fallback)
  BY <1>2, <1>3, <1>5
<1> QED
  BY <1>6, <1>7, <1>8, <1>9 DEF photo, settings

\* What a world brings to be read.
LEMMA FilesAre ==
  ASSUME NEW w \in Worlds, NEW settings \in w.settings, NEW file \in w.files
  PROVE  /\ settings \in EngineSettings
         /\ file.kind = "photo" => Legible(file)
         /\ file.kind = "pdf" => file.page = NULL \/ Issued(file)
BY DocumentsAssumption

LEMMA InitPreviews == Init => PreviewsInv
BY DEF Init, PreviewsInv

\* Only a preview adds to them.
LEMMA NextPreviews == TypeOK /\ PreviewsInv /\ [Next]_vars => PreviewsInv'
<1> SUFFICES ASSUME TypeOK, PreviewsInv, [Next]_vars PROVE PreviewsInv'
  OBVIOUS
<1>1. ASSUME NEW r \in Requests, Preview(r) PROVE PreviewsInv'
  <2>1. PICK settings \in world.settings, file \in world.files :
          previews' = previews \cup
            {[settings |-> settings, file |-> file, result |-> Reader!Extract(settings, file)]}
    BY <1>1 DEF Preview
  <2>2. /\ settings \in EngineSettings
        /\ file.kind = "photo" => Legible(file)
        /\ file.kind = "pdf" => file.page = NULL \/ Issued(file)
    <3>1. world \in Worlds
      BY DEF TypeOK
    <3> QED
      BY <3>1, FilesAre
  <2> DEFINE p == [settings |-> settings, file |-> file, result |-> Reader!Extract(settings, file)]
  <2>3. previews' = previews \cup {p}
    BY <2>1
  <2>4. p.settings = settings /\ p.file = file /\ p.result = Reader!Extract(settings, file)
    OBVIOUS
  <2> HIDE DEF p
  <2>5. \A x \in previews' : x \in previews \/ x = p
    BY <2>3
  <2> QED
    BY <2>2, <2>4, <2>5 DEF PreviewsInv
<1>2. CASE previews' = previews
  BY <1>2 DEF PreviewsInv
<1> QED
  BY <1>1, <1>2
  DEF Next, vars, papers, LoadView, CommitView, LoadMove, CommitMove, File, Remark, Comment,
      Reword, Create, LoadUpload, CommitUpload, LoadAmend, CommitAmend, CommitDiscard,
      Import, Drop, WriteLedger

\* Every preview of a photo is earned by what its passes read, for any numbers
\* of pages, lines and clouds that fail, and for any settings of the engines.
THEOREM ReadingsEarned == Spec => []ReadingsAreEarned
BY InitType, NextType, InitPreviews, NextPreviews, PreviewsEarned, PTL DEF Spec

-----------------------------------------------------------------------------
(* Statements.                                                              *)

\* Every world is one of those there are, and what is imported is stated so.
StatementsInv == world \in Worlds /\ Imported(uploads)

\* Nothing is imported at first.
LEMMA InitStatements == Init => StatementsInv
BY DocumentsAssumption DEF Init, StatementsInv

\* Only what an upload states is imported.
LEMMA NextStatements == StatementsInv /\ [Next]_vars => StatementsInv'
<1> SUFFICES ASSUME StatementsInv, [Next]_vars PROVE StatementsInv'
  OBVIOUS
<1> USE DEF StatementsInv
<1>1. CASE UNCHANGED vars
  BY <1>1 DEF vars, tables, Imported
<1>2. ASSUME NEW r \in Requests, Import(r) PROVE StatementsInv'
  <2>1. PICK s \in Stored, f \in world.statements :
          uploads' = uploads \cup
            {[id |-> now + 1, settlement |-> s, file |-> f,
              transactions |-> Bank!Parse(f.sheet).transactions,
              status |-> IF Bank!Parse(f.sheet).transactions = <<>> THEN "failed"
                         ELSE "completed"]}
    BY <1>2 DEF Import
  <2>2. Statement(f)
    BY <2>1, DocumentsAssumption
  <2>3. Bank!Parse(f.sheet).transactions = f.movements
    BY <2>2, StatementRead
  <2>4. uploads' = uploads \cup
            {[id |-> now + 1, settlement |-> s, file |-> f, transactions |-> f.movements,
              status |-> IF f.movements = <<>> THEN "failed" ELSE "completed"]}
    BY <2>1, <2>3
  <2>5. Imported(uploads')
    BY <2>4 DEF Imported
  <2> QED
    BY <1>2, <2>5 DEF Import, Imported
<1>3. ASSUME NEW r \in Requests, Drop(r) PROVE StatementsInv'
  <2>1. uploads' \subseteq uploads /\ world' = world
    BY <1>3 DEF Drop
  <2> QED
    BY <2>1 DEF Imported
<1>4. ASSUME NEW r \in Requests,
             \/ LoadView(r) \/ CommitView(r) \/ LoadMove(r) \/ CommitMove(r) \/ File(r)
             \/ Remark(r) \/ Comment(r) \/ Reword(r) \/ Create(r)
             \/ LoadUpload(r) \/ CommitUpload(r) \/ LoadAmend(r) \/ CommitAmend(r)
             \/ CommitDiscard(r) \/ WriteLedger(r) \/ Preview(r)
      PROVE  StatementsInv'
  <2>1. uploads' = uploads /\ world' = world
    BY <1>4 DEF LoadView, CommitView, LoadMove, CommitMove, File, Remark, Comment, Reword,
                Create, LoadUpload, CommitUpload, LoadAmend, CommitAmend, CommitDiscard,
                WriteLedger, Preview, tables
  <2> QED
    BY <2>1 DEF Imported
<1> QED
  BY <1>1, <1>2, <1>3, <1>4 DEF Next

\* Whatever statements are uploaded, each is read as what it says.
THEOREM StatementsRead == Spec => []StatementsAreRead
<1>1. StatementsInv => StatementsAreRead
  BY DEF StatementsInv, StatementsAreRead
<1> QED
  BY <1>1, InitStatements, NextStatements, PTL DEF Spec

-----------------------------------------------------------------------------
(* The sections of a template.                                              *)

\* A section stands in a sheet: its title, its header, its settlement row.
Standing(x, sheet) ==
  /\ x.title \in DOMAIN sheet /\ x.header \in DOMAIN sheet /\ x.close \in DOMAIN sheet
  /\ x.title < x.header /\ x.header < x.close
  /\ sheet[x.close].closes # NULL

SectionRecord == [month : Int \cup {NULL}, title : Nat, header : Nat, close : Nat]

\* Sections that stand one below the other.
InOrder(sections, sheet) ==
  /\ sections \in Seq(SectionRecord)
  /\ \A i \in 1 .. Len(sections) : Standing(sections[i], sheet)
  /\ \A i, j \in 1 .. Len(sections) : i < j => sections[i].close < sections[j].title

\* The first of some rows is one of them.
LEMMA LeastIn ==
  ASSUME NEW S, NEW n \in Nat, S \subseteq 1 .. n, S # {}
  PROVE  Book!Min(S) \in S
<1>1. IsFiniteSet(S) /\ S \subseteq Int
  <2>1. IsFiniteSet(1 .. n)
    BY FS_Interval
  <2>2. IsFiniteSet(S)
    BY <2>1, FS_Subset
  <2> QED
    BY <2>2
<1>2. PICK m \in S : \A x \in S : m <= x
  BY <1>1, LowestExists
<1> QED
  BY <1>1, <1>2 DEF Book!Min

\* A section that is found stands in the sheet it was found in.
LEMMA SectionStands ==
  ASSUME NEW sheet \in Seq(TemplateRow), NEW r \in DOMAIN sheet, sheet[r].opens # NULL,
         Book!SectionAt(sheet, r).close # 0
  PROVE  /\ Book!SectionAt(sheet, r) \in SectionRecord
         /\ Standing(Book!SectionAt(sheet, r), sheet) /\ Book!SectionAt(sheet, r).title = r
<1> DEFINE x == Book!SectionAt(sheet, r)
           heads == {q \in DOMAIN sheet :
                       r < q /\ q < r + HeaderWindow /\ Book!IsLedgerHeader(sheet[q])}
           header == IF heads = {} THEN 0 ELSE Book!Min(heads)
           closers == {q \in DOMAIN sheet :
                         /\ header < q /\ q < header + CloseWindow
                         /\ sheet[q].closes = sheet[r].opens}
           close == IF header = 0 THEN 0 ELSE IF closers = {} THEN 0 ELSE Book!Min(closers)
<1>1. x = [month |-> sheet[r].opens, title |-> r, header |-> header, close |-> close]
  BY DEF Book!SectionAt, Book!FirstAfter
<1>2. header # 0 /\ close = Book!Min(closers) /\ closers # {}
  <2>1. x.close = close
    BY <1>1
  <2>2. close # 0
    BY <2>1
  <2> HIDE DEF x, header, closers
  <2> QED
    BY <2>2
<1>3. DOMAIN sheet = 1 .. Len(sheet) /\ Len(sheet) \in Nat
  OBVIOUS
<1>4. header = Book!Min(heads) /\ heads # {}
  BY <1>2
<1>5. heads \subseteq DOMAIN sheet /\ \A q \in heads : r < q
  OBVIOUS
<1> HIDE DEF heads
<1>6. header \in heads
  BY <1>3, <1>4, <1>5, LeastIn
<1> HIDE DEF header
<1>7. closers \subseteq DOMAIN sheet
      /\ \A q \in closers : header < q /\ sheet[q].closes = sheet[r].opens
  OBVIOUS
<1> HIDE DEF closers
<1>8a. close \in closers
  BY <1>2, <1>3, <1>7, LeastIn
<1> HIDE DEF close
<1>9. /\ header \in DOMAIN sheet /\ r < header
      /\ close \in DOMAIN sheet /\ header < close /\ sheet[close].closes = sheet[r].opens
  BY <1>5, <1>6, <1>7, <1>8a
<1>10. sheet[r] \in TemplateRow /\ sheet[r].opens \in Int \cup {NULL}
  <2>1. sheet[r] \in TemplateRow
    OBVIOUS
  <2> QED
    BY <2>1 DEF TemplateRow
<1>11. x \in SectionRecord
  <2>1. r \in Nat /\ header \in Nat /\ close \in Nat
    BY <1>3, <1>9
  <2> QED
    BY <1>1, <1>10, <2>1 DEF SectionRecord
<1>12. x.title = r /\ x.header = header /\ x.close = close
  BY <1>1
<1> HIDE DEF x
<1>13. Standing(x, sheet)
  BY <1>9, <1>12 DEF Standing
<1> USE DEF x
<1> QED
  BY <1>11, <1>12, <1>13

\* The sections of the first rows, row by row.
SectionsStep(sheet, f, r) ==
  IF r = 0 THEN <<>>
  ELSE IF \/ sheet[r].opens = NULL \/ Book!SectionAt(sheet, r).close = 0
          \/ f[r - 1] # <<>> /\ r <= Book!Last(f[r - 1]).close
  THEN f[r - 1]
  ELSE Append(f[r - 1], Book!SectionAt(sheet, r))

SectionsTo(sheet, n, f) == f = [r \in 0 .. n |-> SectionsStep(sheet, f, r)]

\* There are such sections for every number of rows.
LEMMA SectionsExist ==
  ASSUME NEW sheet, NEW n \in Nat
  PROVE  \E f : SectionsTo(sheet, n, f)
<1> DEFINE Good == {i \in 0 .. n : \E f : SectionsTo(sheet, i, f)}
<1>1. 0 \in Good
  <2>1. SectionsTo(sheet, 0, [r \in 0 .. 0 |-> <<>>])
    BY DEF SectionsTo, SectionsStep
  <2> QED
    BY <2>1
<1>2. ASSUME NEW i \in 0 .. n - 1, i \in Good PROVE i + 1 \in Good
  <2>1. PICK f : SectionsTo(sheet, i, f)
    BY <1>2
  <2> DEFINE g == [r \in 0 .. i + 1 |-> IF r = i + 1 THEN SectionsStep(sheet, f, r) ELSE f[r]]
  <2>2. \A r \in 0 .. i : g[r] = f[r]
    OBVIOUS
  <2>3. \A r \in 0 .. i + 1 : r # 0 => r - 1 \in 0 .. i
    OBVIOUS
  <2>4. \A r \in 0 .. i + 1 : g[r] = SectionsStep(sheet, f, r)
    BY <2>1 DEF SectionsTo
  <2>5. g = [r \in 0 .. i + 1 |-> g[r]]
    OBVIOUS
  <2> HIDE DEF g
  <2>6. \A r \in 0 .. i + 1 : SectionsStep(sheet, f, r) = SectionsStep(sheet, g, r)
    BY <2>2, <2>3 DEF SectionsStep
  <2>7. SectionsTo(sheet, i + 1, g)
    BY <2>4, <2>5, <2>6 DEF SectionsTo
  <2> QED
    BY <2>7
<1> HIDE DEF Good
<1>3. \A i \in 0 .. n : i \in Good
  BY <1>1, <1>2, UpTo
<1> QED
  BY <1>3 DEF Good

\* Sections are those of all rows.
LEMMA SectionsAre ==
  ASSUME NEW sheet, Len(sheet) \in Nat
  PROVE  \E f : SectionsTo(sheet, Len(sheet), f) /\ Book!Sections(sheet) = f[Len(sheet)]
<1> DEFINE n == Len(sheet)
           it == CHOOSE f : f = [r \in 0 .. n |-> SectionsStep(sheet, f, r)]
<1>1. \E f : f = [r \in 0 .. n |-> SectionsStep(sheet, f, r)]
  BY SectionsExist DEF SectionsTo
<1>2. Book!Sections(sheet) = it[n]
  BY DEF Book!Sections, SectionsStep
<1>3. SectionsTo(sheet, n, it)
  BY <1>1 DEF SectionsTo
<1> HIDE DEF it
<1> QED
  BY <1>2, <1>3

\* By induction on the rows: a section begins below the end of the one before.
LEMMA SectionsInOrder ==
  ASSUME NEW sheet \in Seq(TemplateRow)
  PROVE  InOrder(Book!Sections(sheet), sheet)
<1>0. Len(sheet) \in Nat /\ DOMAIN sheet = 1 .. Len(sheet)
  OBVIOUS
<1>1. PICK f : SectionsTo(sheet, Len(sheet), f) /\ Book!Sections(sheet) = f[Len(sheet)]
  BY <1>0, SectionsAre
<1> DEFINE Good == {r \in 0 .. Len(sheet) : InOrder(f[r], sheet)}
<1>2. \A r \in 0 .. Len(sheet) : f[r] = SectionsStep(sheet, f, r)
  BY <1>1 DEF SectionsTo
<1>3. 0 \in Good
  <2>1. f[0] = <<>>
    BY <1>0, <1>2 DEF SectionsStep
  <2>2. <<>> \in Seq(SectionRecord) /\ Len(<<>>) = 0
    OBVIOUS
  <2>3. InOrder(<<>>, sheet)
    BY <2>2 DEF InOrder
  <2> QED
    BY <1>0, <2>1, <2>3
<1>4. ASSUME NEW i \in 0 .. Len(sheet) - 1, i \in Good PROVE i + 1 \in Good
  <2> DEFINE r == i + 1
             old == f[i]
             x == Book!SectionAt(sheet, r)
  <2>1. r \in DOMAIN sheet /\ r # 0 /\ r - 1 = i /\ r \in 0 .. Len(sheet)
    BY <1>0
  <2>2. InOrder(old, sheet)
    BY <1>4
  <2>3. \/ f[r] = old
        \/ /\ sheet[r].opens # NULL /\ x.close # 0
           /\ old = <<>> \/ ~(r <= Book!Last(old).close)
           /\ f[r] = Append(old, x)
    <3>1. f[r] = SectionsStep(sheet, f, r)
      BY <1>2, <2>1
    <3> HIDE DEF r
    <3> QED
      BY <2>1, <3>1 DEF SectionsStep
  <2> HIDE DEF r, old
  <2>4. CASE f[r] = old
    BY <2>1, <2>2, <2>4 DEF r
  <2>5. CASE /\ sheet[r].opens # NULL /\ x.close # 0
             /\ old = <<>> \/ ~(r <= Book!Last(old).close)
             /\ f[r] = Append(old, x)
    <3>1. x \in SectionRecord /\ Standing(x, sheet) /\ x.title = r
      BY <2>1, <2>5, SectionStands
    <3> HIDE DEF x
    <3>2. old \in Seq(SectionRecord) /\ Len(old) \in Nat
      BY <2>2 DEF InOrder
    <3>3. /\ f[r] \in Seq(SectionRecord) /\ Len(f[r]) = Len(old) + 1
          /\ \A j \in 1 .. Len(old) : f[r][j] = old[j]
          /\ f[r][Len(old) + 1] = x
      BY <2>5, <3>1, <3>2
    <3>4. ASSUME NEW j \in 1 .. Len(old) PROVE old[j].close < r
      <4>1. Book!Last(old) = old[Len(old)]
        BY DEF Book!Last
      <4>2. old # <<>>
        BY <3>2, <3>4
      <4>3. Len(old) \in 1 .. Len(old)
        BY <3>2, <3>4
      <4>4. old[j] \in SectionRecord /\ old[Len(old)] \in SectionRecord
        BY <3>2, <3>4, <4>3
      <4>5. old[Len(old)].close < r
        BY <1>0, <2>1, <2>5, <4>1, <4>2, <4>4 DEF SectionRecord
      <4>6. CASE j = Len(old)
        BY <4>5, <4>6
      <4>7. CASE j # Len(old)
        <5>1. old[j].close < old[Len(old)].title
          BY <2>2, <3>2, <4>3, <4>7 DEF InOrder
        <5>2. old[Len(old)].title < old[Len(old)].header
              /\ old[Len(old)].header < old[Len(old)].close
          BY <2>2, <4>3 DEF InOrder, Standing
        <5> QED
          BY <1>0, <2>1, <4>4, <4>5, <5>1, <5>2 DEF SectionRecord
      <4> QED
        BY <4>6, <4>7
    <3>5. \A j \in 1 .. Len(f[r]) : Standing(f[r][j], sheet)
      BY <2>2, <3>1, <3>2, <3>3 DEF InOrder
    <3>6. ASSUME NEW j \in 1 .. Len(f[r]), NEW k \in 1 .. Len(f[r]), j < k
          PROVE  f[r][j].close < f[r][k].title
      <4>1. CASE k = Len(old) + 1
        BY <3>1, <3>2, <3>3, <3>4, <3>6, <4>1
      <4>2. CASE k # Len(old) + 1
        <5>1. j \in 1 .. Len(old) /\ k \in 1 .. Len(old)
          BY <3>2, <3>3, <3>6, <4>2
        <5> QED
          BY <2>2, <3>3, <3>6, <5>1 DEF InOrder
      <4> QED
        BY <4>1, <4>2
    <3>7. InOrder(f[r], sheet)
      BY <3>3, <3>5, <3>6 DEF InOrder
    <3> QED
      BY <2>1, <3>7 DEF r
  <2> QED
    BY <2>3, <2>4, <2>5
<1> HIDE DEF Good
<1>5. \A r \in 0 .. Len(sheet) : r \in Good
  BY <1>0, <1>3, <1>4, UpTo
<1>6. Len(sheet) \in Good
  BY <1>0, <1>5
<1> QED
  BY <1>1, <1>6 DEF Good

-----------------------------------------------------------------------------
(* Filling a section.                                                       *)

\* Two sequences, one after the other.
Joint(s, t) == s \o t

IsJoint(u, s, t, X) ==
  /\ u \in Seq(X) /\ Len(u) = Len(s) + Len(t)
  /\ \A i \in 1 .. Len(s) : u[i] = s[i]
  /\ \A i \in 1 .. Len(t) : u[Len(s) + i] = t[i]

\* What a joint holds, and where.
LEMMA Joined ==
  ASSUME NEW X, NEW s, s \in Seq(X), NEW t, t \in Seq(X)
  PROVE  IsJoint(Joint(s, t), s, t, X)
<1>1. Joint(s, t) \in Seq(X) /\ Len(Joint(s, t)) = Len(s) + Len(t)
  BY DEF Joint
<1>2. ASSUME NEW i \in 1 .. Len(s) PROVE Joint(s, t)[i] = s[i]
  BY DEF Joint
<1>3. ASSUME NEW i \in 1 .. Len(t) PROVE Joint(s, t)[Len(s) + i] = t[i]
  BY DEF Joint
<1> QED
  BY <1>1, <1>2, <1>3 DEF IsJoint

\* Four of them.
AreJoint(t, a, b, c, d, X) ==
  /\ t \in Seq(X) /\ Len(t) = Len(a) + Len(b) + Len(c) + Len(d)
  /\ \A i \in 1 .. Len(a) : t[i] = a[i]
  /\ \A i \in 1 .. Len(b) : t[Len(a) + i] = b[i]
  /\ \A i \in 1 .. Len(c) : t[Len(a) + Len(b) + i] = c[i]
  /\ \A i \in 1 .. Len(d) : t[Len(a) + Len(b) + Len(c) + i] = d[i]

LEMMA FourJoined ==
  ASSUME NEW X, NEW a, a \in Seq(X), NEW b, b \in Seq(X), NEW c, c \in Seq(X), NEW d, d \in Seq(X),
         NEW w, w = Joint(Joint(Joint(a, b), c), d)
  PROVE  AreJoint(w, a, b, c, d, X)
<1> DEFINE u == Joint(a, b)
           v == Joint(u, c)
<1>0. Len(a) \in Nat /\ Len(b) \in Nat /\ Len(c) \in Nat /\ Len(d) \in Nat
  OBVIOUS
<1>1. IsJoint(u, a, b, X)
  BY Joined
<1>2. w = Joint(v, d)
  OBVIOUS
<1> HIDE DEF u
<1>3. IsJoint(v, u, c, X)
  <2>1. u \in Seq(X)
    BY <1>1 DEF IsJoint
  <2> QED
    BY <2>1, Joined
<1> HIDE DEF v
<1>4. IsJoint(w, v, d, X)
  <2>1. v \in Seq(X)
    BY <1>3 DEF IsJoint
  <2> QED
    BY <1>2, <2>1, Joined
<1>5. Len(v) = Len(a) + Len(b) + Len(c) /\ Len(u) = Len(a) + Len(b)
  BY <1>1, <1>3 DEF IsJoint
<1>6. w \in Seq(X) /\ Len(w) = Len(a) + Len(b) + Len(c) + Len(d)
  BY <1>4, <1>5 DEF IsJoint
<1>7. ASSUME NEW i \in 1 .. Len(a) PROVE w[i] = a[i]
  <2>1. i \in 1 .. Len(u) /\ i \in 1 .. Len(v)
    BY <1>0, <1>5
  <2> QED
    BY <1>1, <1>3, <1>4, <2>1 DEF IsJoint
<1>8. ASSUME NEW i \in 1 .. Len(b) PROVE w[Len(a) + i] = b[i]
  <2>1. Len(a) + i \in 1 .. Len(u) /\ Len(a) + i \in 1 .. Len(v)
    BY <1>0, <1>5
  <2> QED
    BY <1>1, <1>3, <1>4, <2>1 DEF IsJoint
<1>9. ASSUME NEW i \in 1 .. Len(c) PROVE w[Len(a) + Len(b) + i] = c[i]
  <2>1. Len(u) + i \in 1 .. Len(v)
    BY <1>0, <1>5
  <2>2. w[Len(u) + i] = c[i]
    BY <1>3, <1>4, <2>1 DEF IsJoint
  <2> QED
    BY <1>5, <2>2
<1>10. ASSUME NEW i \in 1 .. Len(d) PROVE w[Len(a) + Len(b) + Len(c) + i] = d[i]
  BY <1>4, <1>5 DEF IsJoint
<1> QED
  BY <1>6, <1>7, <1>8, <1>9, <1>10 DEF AreJoint

\* Rows in the place of those between h and c, and another one at c.
Splice(S, rows, row, h, c) ==
  SubSeq(S, 1, h) \o rows \o <<row>> \o SubSeq(S, c + 1, Len(S))

IsSpliced(T, S, L, mid, R, last, lo, hi) ==
  /\ T = [q \in 1 .. lo + R + 1 + (L - hi) |-> T[q]]
  /\ \A q \in 1 .. lo : T[q] = S[q]
  /\ \A j \in 1 .. R : T[lo + j] = mid[j]
  /\ T[lo + R + 1] = last
  /\ \A q \in hi + 1 .. L : T[q - hi + lo + R + 1] = S[q]

\* Rows above stay, the new ones follow, rows below move.
LEMMA Spliced ==
  ASSUME NEW S, NEW L \in Nat, S = [q \in 1 .. L |-> S[q]],
         NEW mid, NEW R \in Nat, mid = [j \in 1 .. R |-> mid[j]],
         NEW last, NEW lo \in Nat, NEW hi \in Nat, lo < hi, hi <= L,
         NEW T, T = Splice(S, mid, last, lo, hi)
  PROVE  IsSpliced(T, S, L, mid, R, last, lo, hi)
<1> DEFINE X == {S[q] : q \in 1 .. L} \cup {mid[j] : j \in 1 .. R} \cup {last}
           A == SubSeq(S, 1, lo)
           one == <<last>>
           D == SubSeq(S, hi + 1, L)
<1>1. /\ S \in Seq(X) /\ Len(S) = L
      /\ mid \in Seq(X) /\ Len(mid) = R
      /\ one \in Seq(X) /\ Len(one) = 1 /\ one[1] = last
  <2>1. S \in [1 .. L -> X] /\ mid \in [1 .. R -> X] /\ last \in X
    OBVIOUS
  <2> HIDE DEF X
  <2> QED
    BY <2>1
<1> HIDE DEF X
<1>2. A \in Seq(X) /\ Len(A) = lo /\ \A q \in 1 .. lo : A[q] = S[q]
  <2>1. Len(A) = lo /\ \A q \in 1 .. lo : A[q] = S[q]
    OBVIOUS
  <2>2. A = [q \in 1 .. lo |-> S[q]]
    OBVIOUS
  <2> HIDE DEF A
  <2>3. A \in [1 .. lo -> X]
    BY <1>1, <2>2
  <2>4. A \in Seq(X)
    BY <2>3
  <2> QED
    BY <2>1, <2>4
<1>3. D \in Seq(X) /\ Len(D) = L - hi /\ \A q \in 1 .. L - hi : D[q] = S[q + hi]
  <2>1. Len(D) = L - hi /\ \A q \in 1 .. L - hi : D[q] = S[q + hi]
    OBVIOUS
  <2>2. D \in Seq(X)
    BY <1>1
  <2> QED
    BY <2>1, <2>2
<1>4. T = Joint(Joint(Joint(A, mid), one), D)
  BY <1>1 DEF Splice, Joint
<1> HIDE DEF A, D, one
<1>5. /\ T \in Seq(X) /\ Len(T) = lo + R + 1 + (L - hi)
      /\ \A i \in 1 .. lo : T[i] = A[i]
      /\ \A i \in 1 .. R : T[lo + i] = mid[i]
      /\ \A i \in 1 .. 1 : T[lo + R + i] = one[i]
      /\ \A i \in 1 .. L - hi : T[lo + R + 1 + i] = D[i]
  <2>1. /\ A \in Seq(X) /\ mid \in Seq(X) /\ one \in Seq(X) /\ D \in Seq(X)
    BY <1>1, <1>2, <1>3
  <2>2. AreJoint(T, A, mid, one, D, X)
    BY <1>4, <2>1, FourJoined
  <2> QED
    BY <1>1, <1>2, <1>3, <2>2 DEF AreJoint
<1>6. T = [q \in 1 .. lo + R + 1 + (L - hi) |-> T[q]]
  <2> DEFINE n == lo + R + 1 + (L - hi)
  <2>1. T \in Seq(X) /\ Len(T) = n
    BY <1>5
  <2> HIDE DEF n
  <2>2. T = [q \in 1 .. n |-> T[q]]
    BY <2>1
  <2> QED
    BY <2>2 DEF n
<1>7. T[lo + R + 1] = last
  BY <1>1, <1>5
<1>8. ASSUME NEW q \in hi + 1 .. L PROVE T[q - hi + lo + R + 1] = S[q]
  <2>1. q - hi \in 1 .. L - hi /\ q - hi + hi = q
        /\ q - hi + lo + R + 1 = lo + R + 1 + (q - hi)
    OBVIOUS
  <2>2. D[q - hi] = S[q - hi + hi] /\ T[lo + R + 1 + (q - hi)] = D[q - hi]
    BY <1>3, <1>5, <2>1
  <2> QED
    BY <2>1, <2>2
<1>9. (\A q \in 1 .. lo : T[q] = S[q]) /\ (\A j \in 1 .. R : T[lo + j] = mid[j])
  BY <1>2, <1>5
<1> QED
  BY <1>6, <1>7, <1>8, <1>9 DEF IsSpliced

-----------------------------------------------------------------------------
(* Filling the sections of a ledger.                                        *)

\* The sheet after the sections that were filled, from the last one up.
FillStep(sheet, columns, E, f, n) ==
  LET sections == Book!Sections(sheet)
      order == Book!BottomUp(sections)
  IN  IF n = 0 THEN sheet
      ELSE Book!FillSection(f[n - 1], columns, order[n],
                            Book!MonthEvidences(sections, E, order[n].month))

FillTo(sheet, columns, E, n, f) == f = [i \in 0 .. n |-> FillStep(sheet, columns, E, f, i)]

\* There are such sheets for every number of sections.
LEMMA FillExists ==
  ASSUME NEW sheet, NEW columns, NEW E, NEW n \in Nat
  PROVE  \E f : FillTo(sheet, columns, E, n, f)
<1> DEFINE Good == {i \in 0 .. n : \E f : FillTo(sheet, columns, E, i, f)}
<1>1. 0 \in Good
  <2>1. FillTo(sheet, columns, E, 0, [r \in 0 .. 0 |-> sheet])
    BY DEF FillTo, FillStep
  <2> QED
    BY <2>1
<1>2. ASSUME NEW i \in 0 .. n - 1, i \in Good PROVE i + 1 \in Good
  <2>1. PICK f : FillTo(sheet, columns, E, i, f)
    BY <1>2
  <2> DEFINE g == [r \in 0 .. i + 1 |-> IF r = i + 1 THEN FillStep(sheet, columns, E, f, r)
                                        ELSE f[r]]
  <2>2. \A r \in 0 .. i : g[r] = f[r]
    OBVIOUS
  <2>3. \A r \in 0 .. i + 1 : r # 0 => r - 1 \in 0 .. i
    OBVIOUS
  <2>4. \A r \in 0 .. i + 1 : g[r] = FillStep(sheet, columns, E, f, r)
    BY <2>1 DEF FillTo
  <2>5. g = [r \in 0 .. i + 1 |-> g[r]]
    OBVIOUS
  <2> HIDE DEF g
  <2>6. \A r \in 0 .. i + 1 :
          FillStep(sheet, columns, E, f, r) = FillStep(sheet, columns, E, g, r)
    BY <2>2, <2>3 DEF FillStep
  <2>7. FillTo(sheet, columns, E, i + 1, g)
    BY <2>4, <2>5, <2>6 DEF FillTo
  <2> QED
    BY <2>7
<1> HIDE DEF Good
<1>3. \A i \in 0 .. n : i \in Good
  BY <1>1, <1>2, UpTo
<1> QED
  BY <1>3 DEF Good

\* Fill is the sheet after all of them.
LEMMA FillIs ==
  ASSUME NEW sheet, NEW columns, NEW E, NEW N \in Nat, N = Len(Book!Sections(sheet))
  PROVE  \E f : FillTo(sheet, columns, E, N, f) /\ Book!Fill(sheet, columns, E) = f[N]
<1> DEFINE it == CHOOSE f : f = [i \in 0 .. N |-> FillStep(sheet, columns, E, f, i)]
<1>1. \E f : f = [i \in 0 .. N |-> FillStep(sheet, columns, E, f, i)]
  BY FillExists DEF FillTo
<1>2. Book!Fill(sheet, columns, E) = it[N]
  BY DEF Book!Fill, FillStep
<1>3. FillTo(sheet, columns, E, N, it)
  BY <1>1 DEF FillTo
<1> HIDE DEF it
<1> QED
  BY <1>2, <1>3

\* The rows of a month are written rows.
LEMMA MonthIsWritten ==
  ASSUME NEW es, Written(es), es # {}, NEW columns, {"income", "expense"} \subseteq columns
  PROVE  \E n : WrittenRows(Book!MonthRows(columns, es), n)
BY MonthTells

\* What was written in a row can be taken out again.
LEMMA RowEmptied ==
  ASSUME NEW row \in TemplateRow, NEW x
  PROVE  /\ [[row EXCEPT !.holds = x] EXCEPT !.holds = <<>>] = row
         /\ [row EXCEPT !.holds = <<>>] = row /\ row.holds = <<>>
         /\ [row EXCEPT !.holds = x].holds = x
         /\ [row EXCEPT !.holds = x].closes = row.closes
BY DEF TemplateRow

\* The rows of a template that stay when all but the first k of its sections are
\* filled, dues[i] being the evidences of the i-th.
Kept(sheet, sections, dues, k) ==
  {p \in DOMAIN sheet : \A i \in k + 1 .. Len(sections) :
     dues[i] # {} => ~(sections[i].header < p /\ p < sections[i].close)}

Plain(row) == row.holds = <<>> \/ row.closes # NULL

\* The rows of the template that are kept are the plain ones of the sheet S of L
\* rows: m[p] is where row p is.
Places(m, kept, L) ==
  m \in [kept -> 1 .. L] /\ \A p, q \in kept : p < q => m[p] < m[q]

Keeps(S, L, m, kept, sheet) ==
  /\ \A p \in kept : [S[m[p]] EXCEPT !.holds = <<>>] = sheet[p] /\ Plain(S[m[p]])
  /\ \A q \in 1 .. L : (\E p \in kept : m[p] = q) \/ ~Plain(S[q])

\* The sections that are left stand in the first rows, as in the template.
Left(sections, k) == IF k = 0 THEN 0 ELSE sections[k].close

Untouched(S, m, kept, sheet, b) ==
  \A p \in 1 .. b : p \in kept /\ m[p] = p /\ S[p] = sheet[p]

\* The rows of a month stand between its header and its settlement row.
HoldsMonth(S, m, columns, x, es) ==
  LET rows == Book!MonthRows(columns, es)
  IN  /\ S[m[x.close]].holds = Settled(columns, es)
      /\ m[x.close] = m[x.header] + Len(rows) + 1
      /\ \A j \in 1 .. Len(rows) : S[m[x.header] + j] = rows[j]

Filled(S, L, m, sheet, columns, sections, dues, k) ==
  /\ L \in Nat /\ S = [q \in 1 .. L |-> S[q]]
  /\ Places(m, Kept(sheet, sections, dues, k), L)
  /\ Keeps(S, L, m, Kept(sheet, sections, dues, k), sheet)
  /\ Untouched(S, m, Kept(sheet, sections, dues, k), sheet, Left(sections, k))
  /\ \A i \in k + 1 .. Len(sections) :
       dues[i] # {} => HoldsMonth(S, m, columns, sections[i], dues[i])

\* The sections of a template, in numbers.
LEMMA SectionsBounds ==
  ASSUME NEW sheet \in Seq(TemplateRow), NEW sections, InOrder(sections, sheet)
  PROVE  /\ Len(sections) \in Nat /\ Len(sheet) \in Nat /\ DOMAIN sheet = 1 .. Len(sheet)
         /\ DOMAIN sections = 1 .. Len(sections)
         /\ \A i \in 1 .. Len(sections) :
              /\ sections[i].header \in Nat /\ sections[i].close \in Nat
              /\ 1 <= sections[i].header /\ sections[i].header < sections[i].close
              /\ sections[i].close <= Len(sheet) /\ sheet[sections[i].close].closes # NULL
         /\ \A i, j \in 1 .. Len(sections) : i < j => sections[i].close < sections[j].header
<1>1. /\ sections \in Seq(SectionRecord)
      /\ Len(sections) \in Nat /\ Len(sheet) \in Nat /\ DOMAIN sheet = 1 .. Len(sheet)
      /\ DOMAIN sections = 1 .. Len(sections)
  BY DEF InOrder
<1>2. ASSUME NEW i \in 1 .. Len(sections)
      PROVE  /\ sections[i].title \in Nat /\ sections[i].header \in Nat /\ sections[i].close \in Nat
             /\ 1 <= sections[i].title /\ sections[i].title < sections[i].header
             /\ sections[i].header < sections[i].close
             /\ sections[i].close <= Len(sheet) /\ sheet[sections[i].close].closes # NULL
  <2>1. sections[i] \in SectionRecord
    BY <1>1
  <2>2. Standing(sections[i], sheet)
    BY DEF InOrder
  <2> QED
    BY <1>1, <2>1, <2>2 DEF SectionRecord, Standing
<1>3. ASSUME NEW i \in 1 .. Len(sections), NEW j \in 1 .. Len(sections), i < j
      PROVE  sections[i].close < sections[j].header
  <2>1. sections[i].close < sections[j].title
    BY <1>3 DEF InOrder
  <2> QED
    BY <1>2, <2>1
<1>4. ASSUME NEW i \in 1 .. Len(sections)
      PROVE  /\ sections[i].header \in Nat /\ sections[i].close \in Nat
             /\ 1 <= sections[i].header /\ sections[i].header < sections[i].close
             /\ sections[i].close <= Len(sheet) /\ sheet[sections[i].close].closes # NULL
  BY <1>2
<1> QED
  BY <1>1, <1>3, <1>4

\* The ends of a section are kept.
LEMMA EndsKept ==
  ASSUME NEW sheet \in Seq(TemplateRow), NEW sections, InOrder(sections, sheet), NEW dues,
         NEW k \in Nat, NEW i \in 1 .. Len(sections)
  PROVE  /\ sections[i].header \in Kept(sheet, sections, dues, k)
         /\ sections[i].close \in Kept(sheet, sections, dues, k)
<1>1. ASSUME NEW j \in k + 1 .. Len(sections)
      PROVE  /\ ~(sections[j].header < sections[i].header /\ sections[i].header < sections[j].close)
             /\ ~(sections[j].header < sections[i].close /\ sections[i].close < sections[j].close)
  <2>1. j \in 1 .. Len(sections) /\ Len(sections) \in Nat /\ j \in Int /\ i \in Int
    BY SectionsBounds
  <2>2. /\ sections[i].header \in Nat /\ sections[i].close \in Nat
        /\ sections[j].header \in Nat /\ sections[j].close \in Nat
        /\ sections[i].header < sections[i].close /\ sections[j].header < sections[j].close
    BY <2>1, SectionsBounds
  <2>3. CASE i < j
    <3>1. sections[i].close < sections[j].header
      BY <2>1, <2>3, SectionsBounds
    <3> QED
      BY <2>2, <3>1
  <2>4. CASE j < i
    <3>1. sections[j].close < sections[i].header
      BY <2>1, <2>4, SectionsBounds
    <3> QED
      BY <2>2, <3>1
  <2> QED
    BY <2>1, <2>2, <2>3, <2>4
<1> QED
  BY <1>1, SectionsBounds DEF Kept

\* One more section is filled.
LEMMA SectionFilled ==
  ASSUME NEW sheet \in Seq(TemplateRow), NEW sections, InOrder(sections, sheet), NEW dues,
         \A i \in 1 .. Len(sections) : Written(dues[i]),
         NEW columns, {"income", "expense"} \subseteq columns,
         NEW k \in 1 .. Len(sections), NEW S, NEW L, NEW m,
         Filled(S, L, m, sheet, columns, sections, dues, k),
         NEW T, T = Book!FillSection(S, columns, sections[k], dues[k])
  PROVE  \E M, n : Filled(T, M, n, sheet, columns, sections, dues, k - 1)
<1> DEFINE h == sections[k].header
           c == sections[k].close
           due == dues[k]
           kept == Kept(sheet, sections, dues, k)
           less == Kept(sheet, sections, dues, k - 1)
           b == Left(sections, k - 1)
           N == Len(sections)
<1>1. /\ N \in Nat /\ k \in 1 .. N /\ Len(sheet) \in Nat /\ DOMAIN sheet = 1 .. Len(sheet)
      /\ h \in Nat /\ c \in Nat /\ 1 <= h /\ h < c /\ c <= Len(sheet) /\ sheet[c].closes # NULL
  BY SectionsBounds
<1>2. b \in Nat /\ b <= h
  <2>1. CASE k = 1
    BY <1>1, <2>1 DEF Left
  <2>2. CASE k # 1
    <3>1. k - 1 \in 1 .. N /\ k - 1 < k /\ b = sections[k - 1].close
      BY <1>1, <2>2 DEF Left
    <3>2. sections[k - 1].close < h /\ sections[k - 1].close \in Nat
      BY <3>1, SectionsBounds
    <3> QED
      BY <1>1, <3>1, <3>2
  <2> QED
    BY <2>1, <2>2
<1>3. \A p : p \in less <=> p \in kept /\ (due # {} => ~(h < p /\ p < c))
  <2>1. \A i : i \in k - 1 + 1 .. N <=> i = k \/ i \in k + 1 .. N
    BY <1>1
  <2> QED
    BY <2>1 DEF Kept
<1>4. Left(sections, k) = c
  BY <1>1 DEF Left
<1>5. /\ L \in Nat /\ S = [q \in 1 .. L |-> S[q]]
      /\ Places(m, kept, L) /\ Keeps(S, L, m, kept, sheet) /\ Untouched(S, m, kept, sheet, c)
      /\ \A i \in k + 1 .. N :
           dues[i] # {} => HoldsMonth(S, m, columns, sections[i], dues[i])
  BY <1>4 DEF Filled
<1>6. ASSUME NEW i \in k + 1 .. N
      PROVE  /\ i \in 1 .. N /\ sections[i].header \in less /\ sections[i].close \in less
             /\ c < sections[i].header /\ sections[i].header < sections[i].close
             /\ sections[i].header \in Nat /\ sections[i].close \in Nat
  <2>1. i \in 1 .. N /\ k < i /\ k - 1 \in Nat
    BY <1>1
  <2> QED
    BY <1>1, <2>1, SectionsBounds, EndsKept
<1>6b. /\ \A p \in kept : p \in 1 .. Len(sheet)
       /\ \A p \in less : p \in 1 .. Len(sheet)
  BY <1>1 DEF Kept
<1>6c. Written(due) /\ due = dues[k]
  OBVIOUS
<1>6d. \A i : i \in k - 1 + 1 .. N <=> i = k \/ i \in k + 1 .. N
  BY <1>1
<1> HIDE DEF h, c, due, kept, less, b, N
<1>7. CASE due = {}
  <2>1. T = S
    BY <1>6c, <1>7 DEF Book!FillSection
  <2>2. less = kept
    BY <1>3, <1>7
  <2>3. Untouched(T, m, less, sheet, b)
    <3>1. \A p \in 1 .. b : p \in 1 .. c
      BY <1>1, <1>2
    <3> QED
      BY <1>5, <2>1, <2>2, <3>1 DEF Untouched
  <2>4. \A i \in k - 1 + 1 .. N :
          dues[i] # {} => HoldsMonth(T, m, columns, sections[i], dues[i])
    BY <1>5, <1>6c, <1>6d, <1>7, <2>1
  <2>5. Filled(T, L, m, sheet, columns, sections, dues, k - 1)
    BY <1>5, <2>1, <2>2, <2>3, <2>4 DEF Filled, less, b, N
  <2> QED
    BY <2>5
<1>8. CASE due # {}
  <2> DEFINE month == Book!MonthRows(columns, due)
             settled == [S[c] EXCEPT !.holds = Settled(columns, due)]
  <2>1a. PICK R : WrittenRows(month, R)
    BY <1>6c, <1>8, MonthIsWritten
  <2>1. R \in Nat /\ month = [q \in 1 .. R |-> month[q]]
    BY <2>1a DEF WrittenRows
  <2>2. \A j \in 1 .. R : ~Plain(month[j])
    BY <2>1a DEF WrittenRows, Plain
  <2>3. Len(month) = R
    BY <2>1
  <2>4. Len(S) = L
    BY <1>5, SMTT(30)
  <2>5. T = Splice(S, month, settled, h, c)
    BY <1>6c, <1>8, <2>4, Zenon DEF Book!FillSection, Splice, Settled, h, c
  <2> HIDE DEF month, settled
  <2>6. /\ \A p \in 1 .. c : p \in kept /\ m[p] = p /\ S[p] = sheet[p] /\ p \in 1 .. L
        /\ c \in 1 .. c /\ c <= L
    <3>1. \A p \in 1 .. c : p \in kept /\ m[p] = p /\ S[p] = sheet[p]
      BY <1>5 DEF Untouched
    <3>2. \A p \in kept : m[p] \in 1 .. L
      BY <1>5 DEF Places
    <3>3. c \in 1 .. c
      BY <1>1
    <3>4. \A p \in 1 .. c : p \in 1 .. L
      BY <3>1, <3>2
    <3>5. c \in 1 .. L
      BY <3>3, <3>4
    <3>6. c <= L
      BY <1>5, <3>5
    <3> QED
      BY <3>1, <3>3, <3>4, <3>6
  <2> DEFINE M == h + R + 1 + (L - c)
             d == h + R + 1 - c
             n == [p \in less |-> IF p <= h THEN p ELSE m[p] + d]
  <2>7. /\ T = [q \in 1 .. M |-> T[q]]
        /\ \A q \in 1 .. h : T[q] = S[q]
        /\ \A j \in 1 .. R : T[h + j] = month[j]
        /\ T[h + R + 1] = settled
        /\ \A q \in c + 1 .. L : T[q - c + h + R + 1] = S[q]
    <3>1. h \in Nat /\ c \in Nat /\ h < c /\ c <= L /\ L \in Nat /\ S = [q \in 1 .. L |-> S[q]]
      BY <1>1, <1>5, <2>6
    <3> QED
      <4>1. IsSpliced(T, S, L, month, R, settled, h, c)
        BY <2>1, <2>5, <3>1, Spliced
      <4> QED
        BY <4>1 DEF IsSpliced, M
  <2>8. d \in Int /\ M = L + d /\ M \in Nat /\ \A q \in c + 1 .. L : T[q + d] = S[q]
    <3>1. ASSUME NEW q \in c + 1 .. L PROVE q - c + h + R + 1 = q + d
      <4>1. q \in Int
        BY <1>1, <1>5
      <4> QED
        BY <1>1, <2>1, <4>1
    <3>2. d \in Int /\ M = L + d /\ M \in Nat
      BY <1>1, <1>5, <2>1, <2>6
    <3> HIDE DEF d, M
    <3> QED
      BY <2>7, <3>1, <3>2
  <2>9. /\ \A p \in kept : p \in 1 .. Len(sheet) /\ m[p] \in 1 .. L
        /\ \A p, q \in kept : p < q => m[p] < m[q]
    BY <1>5, <1>6b DEF Places
  <2>10. \A p \in less : p \in kept /\ (p <= h \/ p >= c) /\ p \in 1 .. Len(sheet)
    BY <1>1, <1>3, <1>6b, <1>8
  <2>11. n \in [less -> Int] /\ DOMAIN n = less
    <3>1. \A p \in less : m[p] \in Int /\ p \in Int
      BY <1>5, <2>9, <2>10
    <3> HIDE DEF d
    <3> QED
      BY <2>8, <3>1
  <2>12. ASSUME NEW p \in less, p <= h
         PROVE  n[p] = p /\ n[p] \in 1 .. h /\ T[n[p]] = sheet[p] /\ m[p] = p
    <3>1. p \in 1 .. h /\ p \in 1 .. c
      BY <1>1, <2>10, <2>12
    <3>2. m[p] = p /\ S[p] = sheet[p] /\ T[p] = S[p]
      BY <2>6, <2>7, <3>1
    <3>3. n[p] = p
      BY <2>12
    <3> QED
      BY <3>1, <3>2, <3>3
  <2>13. c \in less /\ n[c] = h + R + 1 /\ T[n[c]] = settled
    <3>1. c \in less /\ ~(c <= h) /\ m[c] = c
      BY <1>1, <1>3, <2>6
    <3> QED
      BY <1>1, <2>1, <2>7, <3>1
  <2>14. ASSUME NEW p \in less, p > c
         PROVE  n[p] = m[p] + d /\ m[p] \in c + 1 .. L /\ T[n[p]] = S[m[p]]
    <3>1. p \in kept /\ ~(p <= h)
      BY <1>1, <2>10, <2>14
    <3>2. m[p] > m[c] /\ m[c] = c /\ m[p] \in 1 .. L
      BY <1>1, <2>6, <2>9, <2>14, <3>1
    <3>3. m[p] \in c + 1 .. L
      BY <1>1, <1>5, <3>2
    <3> QED
      BY <2>8, <3>1, <3>3
  <2> HIDE DEF n
  <2>15. \A p \in less : p <= h \/ p = c \/ p > c
    BY <1>1, <2>10
  <2>16. h \in less /\ n[h] = h
    <3>1. h \in less
      BY <1>1, <1>3, <2>6
    <3> QED
      BY <1>1, <2>12, <3>1
  <2>17. /\ d + c = h + R + 1 /\ M = h + R + 1 + (L - c) /\ M = L + d
         /\ h \in Nat /\ c \in Nat /\ R \in Nat /\ L \in Nat /\ d \in Int /\ c <= L /\ h < c
    BY <1>1, <1>5, <2>1, <2>6, <2>8
  <2> HIDE DEF d, M
  <2>18. Places(n, less, M)
    <3>1. ASSUME NEW p \in less PROVE n[p] \in 1 .. M
      <4>1. CASE p <= h
        <5>1. n[p] = p /\ p \in 1 .. h
          BY <2>12, <4>1
        <5> QED
          BY <2>17, <5>1
      <4>2. CASE p = c
        <5>1. n[p] = h + R + 1
          BY <2>13, <4>2
        <5> QED
          BY <2>17, <5>1
      <4>3. CASE p > c
        <5>1. n[p] = m[p] + d /\ m[p] \in c + 1 .. L
          BY <2>14, <4>3
        <5> QED
          BY <2>17, <5>1
      <4> QED
        BY <2>15, <4>1, <4>2, <4>3
    <3>2. ASSUME NEW p \in less, NEW q \in less, p < q PROVE n[p] < n[q]
      <4>1. CASE q <= h
        <5>1. p <= h
          BY <1>1, <2>17, <2>10, <3>2, <4>1
        <5> QED
          BY <2>12, <3>2, <4>1, <5>1
      <4>2. CASE q = c
        <5>1. p <= h
          BY <1>1, <2>17, <2>10, <3>2, <4>2
        <5> QED
          BY <1>1, <2>17, <2>12, <2>13, <4>2, <5>1
      <4>3. CASE q > c
        <5>1. n[q] = m[q] + d /\ m[q] \in c + 1 .. L
          BY <2>14, <4>3
        <5>2. CASE p <= h
          <6>1. n[p] = p /\ p \in 1 .. h
            BY <2>12, <5>2
          <6> QED
            BY <2>17, <5>1, <6>1
        <5>3. CASE p = c
          <6>1. n[p] = h + R + 1
            BY <2>13, <5>3
          <6> QED
            BY <2>17, <5>1, <6>1
        <5>4. CASE p > c
          <6>1. n[p] = m[p] + d /\ m[p] \in c + 1 .. L
            BY <2>14, <5>4
          <6>2. m[p] < m[q]
            BY <2>9, <2>10, <3>2
          <6> QED
            BY <2>17, <5>1, <6>1, <6>2
        <5> QED
          BY <2>15, <5>2, <5>3, <5>4
      <4> QED
        BY <2>15, <4>1, <4>2, <4>3
    <3>3. n \in [less -> 1 .. M]
      BY <2>11, <3>1
    <3> QED
      BY <3>2, <3>3 DEF Places
  <2>19. Keeps(T, M, n, less, sheet)
    <3>1. ASSUME NEW p \in less
          PROVE  [T[n[p]] EXCEPT !.holds = <<>>] = sheet[p] /\ Plain(T[n[p]])
      <4>1. sheet[p] \in TemplateRow
        BY <1>1, <2>17, <2>10
      <4>2. CASE p <= h
        <5>1. T[n[p]] = sheet[p]
          BY <2>12, <4>2
        <5> QED
          BY <4>1, <5>1, RowEmptied DEF Plain
      <4>3. CASE p = c
        <5>0. m[p] = p /\ S[p] = sheet[p]
          BY <2>6, <4>3
        <5>1. T[n[p]] = [sheet[p] EXCEPT !.holds = Settled(columns, due)]
          BY <1>1, <2>6, <2>13, <4>3 DEF settled
        <5>2. sheet[p].closes # NULL
          BY <1>1, <2>17, <4>3
        <5>3. [T[n[p]] EXCEPT !.holds = <<>>] = sheet[p]
          BY <4>1, <5>1, RowEmptied, ZenonT(60)
        <5>4. T[n[p]].closes # NULL
          BY <4>1, <5>1, <5>2 DEF TemplateRow
        <5> QED
          BY <5>3, <5>4 DEF Plain
      <4>4. CASE p > c
        <5>1. T[n[p]] = S[m[p]] /\ p \in kept
          BY <2>10, <2>14, <4>4
        <5> QED
          BY <1>5, <5>1 DEF Keeps
      <4> QED
        BY <2>15, <4>2, <4>3, <4>4
    <3>2. ASSUME NEW q \in 1 .. M PROVE (\E p \in less : n[p] = q) \/ ~Plain(T[q])
      <4>1. CASE q <= h
        <5>1. q \in kept /\ q \in less
          BY <1>1, <2>17, <1>3, <2>6, <4>1
        <5> QED
          BY <2>12, <4>1, <5>1
      <4>2. CASE q > h /\ q <= h + R
        <5>0. q \in Int
          BY <2>17
        <5>1. q - h \in 1 .. R /\ h + (q - h) = q
          BY <2>17, <4>2, <5>0
        <5> QED
          BY <2>2, <2>7, <5>1
      <4>3. CASE q = h + R + 1
        BY <2>13, <4>3
      <4>4. CASE q > h + R + 1
        <5>0. q \in Int /\ q <= M
          BY <2>17
        <5>1. q - d \in c + 1 .. L /\ q - d + d = q
          BY <2>17, <4>4, <5>0
        <5>2. T[q] = S[q - d] /\ q - d \in 1 .. L
          <6>1. T[q - d + d] = S[q - d]
            BY <2>8, <5>1
          <6>2. q - d \in 1 .. L
            BY <2>17, <5>1
          <6> QED
            BY <5>1, <6>1, <6>2
        <5>3. CASE ~Plain(S[q - d])
          BY <5>2, <5>3
        <5>4. CASE Plain(S[q - d])
          <6>1. PICK p \in kept : m[p] = q - d
            BY <1>5, <5>2, <5>4 DEF Keeps
          <6>2. p > c
            <7>1. p \in 1 .. Len(sheet)
              BY <2>9
            <7>2. ASSUME p \in 1 .. c PROVE FALSE
              <8>1. m[p] = p /\ m[p] \in c + 1 .. L
                BY <2>6, <5>1, <6>1, <7>2
              <8> QED
                BY <2>17, <7>2, <8>1
            <7> QED
              BY <1>1, <2>17, <7>1, <7>2
          <6>3. p \in less
            <7>1. ~(p < c)
              BY <1>1, <2>17, <2>9, <6>2
            <7> QED
              BY <1>3, <7>1
          <6>4. n[p] = q
            BY <2>14, <5>1, <6>1, <6>2, <6>3
          <6> QED
            BY <6>3, <6>4
        <5> QED
          BY <5>3, <5>4
      <4> QED
        <5>1. q \in Int
          BY <2>17
        <5>2. \/ q <= h \/ (q > h /\ q <= h + R) \/ q = h + R + 1 \/ q > h + R + 1
          BY <2>17, <5>1
        <5> QED
          BY <4>1, <4>2, <4>3, <4>4, <5>2
    <3> QED
      BY <3>1, <3>2 DEF Keeps
  <2>20. Untouched(T, n, less, sheet, b)
    <3>1. ASSUME NEW p \in 1 .. b PROVE p \in less /\ n[p] = p /\ T[p] = sheet[p]
      <4>1. p \in 1 .. c /\ p <= h
        BY <1>1, <2>17, <1>2
      <4>2. p \in less
        BY <1>1, <2>17, <1>3, <2>6, <4>1
      <4> QED
        BY <2>12, <4>1, <4>2
    <3> QED
      BY <3>1 DEF Untouched
  <2>21. HoldsMonth(T, n, columns, sections[k], due)
    <3>1. T[n[c]].holds = Settled(columns, due)
      <4>1. sheet[c] \in TemplateRow /\ S[c] = sheet[c]
        BY <1>1, <2>17, <2>6
      <4> QED
        <5>1. T[n[c]] = [sheet[c] EXCEPT !.holds = Settled(columns, due)]
          BY <2>13, <4>1 DEF settled
        <5> QED
          BY <4>1, <5>1 DEF TemplateRow
    <3>2. n[c] = n[h] + Len(month) + 1
      BY <2>3, <2>13, <2>16, <2>17
    <3>3. \A j \in 1 .. Len(month) : T[n[h] + j] = month[j]
      BY <2>3, <2>7, <2>16
    <3> QED
      BY <3>1, <3>2, <3>3 DEF HoldsMonth, h, c, month
  <2>22. ASSUME NEW i \in k + 1 .. N, dues[i] # {}
         PROVE  HoldsMonth(T, n, columns, sections[i], dues[i])
    <3> DEFINE hi == sections[i].header
               ci == sections[i].close
               his == Book!MonthRows(columns, dues[i])
    <3>1. HoldsMonth(S, m, columns, sections[i], dues[i])
      BY <1>5, <2>22
    <3>2. hi \in less /\ ci \in less /\ hi > c /\ ci > c
      <4>1. /\ hi \in less /\ ci \in less /\ c < hi /\ hi < ci /\ hi \in Nat /\ ci \in Nat
        BY <1>6
      <4> HIDE DEF hi, ci
      <4> QED
        BY <2>17, <4>1
    <3> HIDE DEF hi, ci
    <3>3. /\ n[hi] = m[hi] + d /\ m[hi] \in c + 1 .. L
          /\ n[ci] = m[ci] + d /\ m[ci] \in c + 1 .. L /\ T[n[ci]] = S[m[ci]]
      BY <2>14, <3>2
    <3>3a. m[hi] \in Int /\ m[ci] \in Int /\ c < m[hi] /\ m[ci] <= L
      BY <2>17, <3>3
    <3>4. /\ S[m[ci]].holds = Settled(columns, dues[i])
          /\ m[ci] = m[hi] + Len(his) + 1
          /\ \A j \in 1 .. Len(his) : S[m[hi] + j] = his[j]
      BY <3>1 DEF HoldsMonth, hi, ci
    <3>5. Len(his) \in Nat
      <4>1. Written(dues[i])
        BY <1>6 DEF N
      <4>2. PICK H : WrittenRows(his, H)
        BY <2>22, <4>1, MonthIsWritten
      <4> QED
        BY <4>2 DEF WrittenRows
    <3> HIDE DEF his
    <3>6. n[ci] = n[hi] + Len(his) + 1
      BY <2>17, <3>3, <3>3a, <3>4, <3>5
    <3>7. ASSUME NEW j \in 1 .. Len(his) PROVE T[n[hi] + j] = his[j]
      <4>1. m[hi] + j \in c + 1 .. L /\ n[hi] + j = m[hi] + j + d
        <5> DEFINE u == n[hi]
                   v == m[hi]
                   e == m[ci]
                   w == Len(his)
        <5>1. /\ u = v + d /\ v \in Int /\ c < v /\ e = v + w + 1 /\ e <= L /\ w \in Nat
              /\ j \in 1 .. w
          BY <3>3, <3>3a, <3>4, <3>5
        <5> HIDE DEF u, v, e, w
        <5>2. v + j \in c + 1 .. L /\ u + j = v + j + d
          BY <2>17, <5>1
        <5> QED
          BY <5>2 DEF u, v
      <4>2. T[m[hi] + j + d] = S[m[hi] + j]
        BY <2>8, <4>1
      <4> QED
        BY <3>4, <4>1, <4>2
    <3>8. T[n[ci]].holds = Settled(columns, dues[i])
      BY <3>3, <3>4
    <3> QED
      BY <3>6, <3>7, <3>8 DEF HoldsMonth, hi, ci, his
  <2>23. \A i \in k - 1 + 1 .. N :
           dues[i] # {} => HoldsMonth(T, n, columns, sections[i], dues[i])
    <3> QED
      BY <1>6c, <1>6d, <2>21, <2>22
  <2>24. Filled(T, M, n, sheet, columns, sections, dues, k - 1)
    BY <2>7, <2>8, <2>18, <2>19, <2>20, <2>23 DEF Filled, less, b, N
  <2> QED
    BY <2>24
<1> QED
  BY <1>7, <1>8

\* The evidences of the sections, one by one.
DuesOf(sections, E) ==
  [i \in 1 .. Len(sections) |-> Book!MonthEvidences(sections, E, sections[i].month)]

\* The template, before any section is filled.
LEMMA NothingFilled ==
  ASSUME NEW sheet \in Seq(TemplateRow), NEW sections, InOrder(sections, sheet), NEW dues,
         NEW columns
  PROVE  \E L, m : Filled(sheet, L, m, sheet, columns, sections, dues, Len(sections))
<1> DEFINE N == Len(sections)
           L == Len(sheet)
           kept == Kept(sheet, sections, dues, N)
           m == [p \in 1 .. L |-> p]
<1>1. /\ N \in Nat /\ L \in Nat /\ DOMAIN sheet = 1 .. L
      /\ \A i : i \notin N + 1 .. N
  BY SectionsBounds
<1>2. kept = 1 .. L
  BY <1>1 DEF Kept
<1>3. Left(sections, N) \in 0 .. L
  <2>1. CASE N = 0
    BY <1>1, <2>1 DEF Left
  <2>2. CASE N # 0
    <3>1. N \in 1 .. N
      BY <1>1, <2>2
    <3>2. sections[N].close \in Nat /\ sections[N].close <= L
      BY <3>1, SectionsBounds
    <3> QED
      BY <1>1, <2>2, <3>2 DEF Left
  <2> QED
    BY <2>1, <2>2
<1>4. \A p \in 1 .. L : [sheet[p] EXCEPT !.holds = <<>>] = sheet[p] /\ Plain(sheet[p])
  <2>1. ASSUME NEW p \in 1 .. L
        PROVE  [sheet[p] EXCEPT !.holds = <<>>] = sheet[p] /\ Plain(sheet[p])
    <3>1. sheet[p] \in TemplateRow
      BY <1>1
    <3> QED
      BY <3>1, RowEmptied DEF Plain
  <2> QED
    BY <2>1
<1> HIDE DEF N, L, kept
<1>5. Places(m, kept, L)
  BY <1>1, <1>2 DEF Places
<1>6. Keeps(sheet, L, m, kept, sheet)
  BY <1>2, <1>4 DEF Keeps
<1>7. Untouched(sheet, m, kept, sheet, Left(sections, N))
  BY <1>1, <1>2, <1>3 DEF Untouched
<1>8. sheet = [q \in 1 .. L |-> sheet[q]]
  BY <1>1
<1> HIDE DEF m
<1>9. Filled(sheet, L, m, sheet, columns, sections, dues, N)
  BY <1>1, <1>5, <1>6, <1>7, <1>8 DEF Filled, N, kept
<1> QED
  BY <1>9 DEF N

\* All sections are filled, by induction from the last one up.
LEMMA SheetFilled ==
  ASSUME NEW sheet \in Seq(TemplateRow), NEW E, Written(E),
         NEW columns, {"income", "expense"} \subseteq columns,
         NEW sections, sections = Book!Sections(sheet)
  PROVE  \E L, m : Filled(Book!Fill(sheet, columns, E), L, m, sheet, columns, sections,
                          DuesOf(sections, E), 0)
<1> DEFINE N == Len(sections)
           dues == DuesOf(sections, E)
<1>1. InOrder(sections, sheet)
  BY SectionsInOrder
<1>2. N \in Nat
  BY <1>1, SectionsBounds
<1>3. \A i \in 1 .. N : Written(dues[i])
  <2>1. ASSUME NEW i \in 1 .. N PROVE Written(dues[i])
    <3>1. dues[i] = Book!MonthEvidences(sections, E, sections[i].month)
      BY DEF DuesOf
    <3>2. Book!MonthEvidences(sections, E, sections[i].month) \in SUBSET E
      BY DEF Book!MonthEvidences
    <3> QED
      BY <3>1, <3>2, WrittenSome
  <2> QED
    BY <2>1
<1>4. PICK f : FillTo(sheet, columns, E, N, f) /\ Book!Fill(sheet, columns, E) = f[N]
  BY <1>2, FillIs
<1>5. \A i \in 0 .. N : f[i] = FillStep(sheet, columns, E, f, i)
  BY <1>4 DEF FillTo
<1> DEFINE Good == {i \in 0 .. N : \E L, m :
                      Filled(f[i], L, m, sheet, columns, sections, dues, N - i)}
<1>6. 0 \in Good
  <2>1. f[0] = sheet
    BY <1>2, <1>5 DEF FillStep
  <2>2. N - 0 = Len(sections)
    BY <1>2
  <2> QED
    BY <1>1, <1>2, <2>1, <2>2, NothingFilled
<1>7. ASSUME NEW i \in 0 .. N - 1, i \in Good PROVE i + 1 \in Good
  <2> DEFINE k == N - i
             j == i + 1
  <2>1. k \in 1 .. N /\ j \in 1 .. N /\ j # 0 /\ j - 1 = i /\ N - j = k - 1 /\ N - j + 1 = k
    BY <1>2
  <2>2. PICK L, m : Filled(f[i], L, m, sheet, columns, sections, dues, k)
    BY <1>7
  <2> HIDE DEF k, j
  <2>3. Book!BottomUp(sections)[j] = sections[k]
    BY <2>1 DEF Book!BottomUp, Book!Reverse
  <2>4. dues[k] = Book!MonthEvidences(sections, E, sections[k].month)
    BY <2>1 DEF DuesOf
  <2>5. f[j] = Book!FillSection(f[i], columns, sections[k], dues[k])
    <3>1. j \in 0 .. N
      BY <1>2, <2>1
    <3>2. f[j] = FillStep(sheet, columns, E, f, j)
      BY <1>5, <3>1
    <3> QED
      BY <2>1, <2>3, <2>4, <3>2 DEF FillStep
  <2> HIDE DEF dues
  <2>6. \E M, n : Filled(f[j], M, n, sheet, columns, sections, dues, k - 1)
    BY <1>1, <1>3, <2>1, <2>2, <2>5, SectionFilled
  <2>7. j \in Good
    <3>1. j \in 0 .. N
      BY <1>2, <2>1
    <3> QED
      BY <2>1, <2>6, <3>1
  <2> QED
    BY <2>7 DEF j
<1> HIDE DEF Good
<1>8a. \A i \in 0 .. N : i \in Good
  BY <1>2, <1>6, <1>7, UpTo
<1>8. N \in Good
  BY <1>2, <1>8a
<1>9. \E L, m : Filled(f[N], L, m, sheet, columns, sections, dues, N - N)
  BY <1>8 DEF Good
<1> QED
  BY <1>2, <1>4, <1>9

\* The plain rows of the sheet are those that are kept, one by one.
PlainPlaced(kept, plain, m, n) ==
  /\ Rising(Upward(kept), n, kept)
  /\ Upward(plain) = [k \in 1 .. n |-> m[Upward(kept)[k]]]

\* In order, the plain rows are at the places of the kept ones.
LEMMA PlainAre ==
  ASSUME NEW sheet \in Seq(TemplateRow), NEW sections, NEW dues, NEW columns,
         NEW S, NEW L, NEW m, Filled(S, L, m, sheet, columns, sections, dues, 0),
         NEW kept, kept = Kept(sheet, sections, dues, 0),
         NEW plain, plain = {q \in DOMAIN S : Plain(S[q])}
  PROVE  \E n : PlainPlaced(kept, plain, m, n)
<1>1. /\ kept \subseteq 1 .. Len(sheet) /\ Len(sheet) \in Nat
      /\ plain = {q \in 1 .. L : Plain(S[q])} /\ L \in Nat
      /\ Places(m, kept, L) /\ Keeps(S, L, m, kept, sheet)
  <2>1. L \in Nat /\ S = [q \in 1 .. L |-> S[q]]
    BY DEF Filled
  <2>2. DOMAIN S = 1 .. L
    BY <2>1
  <2> QED
    BY <2>1, <2>2 DEF Filled, Kept
<1> DEFINE n == Cardinality(kept)
           u == Upward(kept)
           p == [k \in 1 .. n |-> m[u[k]]]
<1>2. Rising(u, n, kept)
  <2>1. IsFiniteSet(1 .. Len(sheet))
    BY <1>1, FS_Interval
  <2>2. IsFiniteSet(kept) /\ kept \subseteq Int
    BY <1>1, <2>1, FS_Subset
  <2> QED
    BY <2>2, UpwardRises
<1> HIDE DEF n, u
<1>3. Rising(p, n, plain)
  <2>1. n \in Nat /\ \A k \in 1 .. n : u[k] \in kept
    BY <1>2 DEF Rising
  <2>2. \A k \in 1 .. n : p[k] \in plain
    <3>1. \A x \in kept : m[x] \in 1 .. L /\ Plain(S[m[x]])
      BY <1>1 DEF Places, Keeps
    <3> QED
      BY <1>1, <2>1, <3>1
  <2>3. \A q \in plain : \E k \in 1 .. n : p[k] = q
    <3>1. ASSUME NEW q \in plain PROVE \E k \in 1 .. n : p[k] = q
      <4>1. PICK x \in kept : m[x] = q
        BY <1>1 DEF Keeps
      <4>2. PICK k \in 1 .. n : u[k] = x
        BY <1>2 DEF Rising
      <4> QED
        BY <4>1, <4>2
    <3> QED
      BY <3>1
  <2>4. \A i, j \in 1 .. n : i < j => p[i] < p[j]
    <3>1. \A i, j \in 1 .. n : i < j => u[i] < u[j]
      BY <1>2 DEF Rising
    <3> QED
      BY <1>1, <2>1, <3>1 DEF Places
  <2>5. p \in [1 .. n -> plain]
    BY <2>2
  <2> HIDE DEF p
  <2> QED
    BY <2>1, <2>3, <2>4, <2>5 DEF Rising
<1>4. Upward(plain) = p
  <2>1. plain \subseteq Int
    BY <1>1
  <2> HIDE DEF p
  <2> QED
    BY <1>3, <2>1, UpwardIs
<1> QED
  BY <1>2, <1>4 DEF PlainPlaced, u

\* Where a section ends among the rows that are kept, and what is above it.
LEMMA EndsAre ==
  ASSUME NEW sheet \in Seq(TemplateRow), NEW sections, InOrder(sections, sheet), NEW dues,
         NEW kept, kept = Kept(sheet, sections, dues, 0), NEW u, NEW n, Rising(u, n, kept),
         NEW i \in 1 .. Len(sections), dues[i] # {}
  PROVE  \E k \in 2 .. n : u[k] = sections[i].close /\ u[k - 1] = sections[i].header
<1> DEFINE h == sections[i].header
           c == sections[i].close
<1>1. h \in kept /\ c \in kept
  BY EndsKept
<1>2. h \in Nat /\ c \in Nat /\ h < c /\ kept \subseteq 1 .. Len(sheet) /\ Len(sheet) \in Nat
  BY SectionsBounds DEF Kept
<1>3. \A p \in kept : ~(h < p /\ p < c)
  <2>1. i \in 0 + 1 .. Len(sections)
    BY SectionsBounds
  <2> QED
    BY <2>1 DEF Kept
<1> HIDE DEF h, c
<1>4. PICK a \in 1 .. n, k \in 1 .. n : u[a] = h /\ u[k] = c
  BY <1>1 DEF Rising
<1>5. /\ n \in Nat /\ \A j \in 1 .. n : u[j] \in kept
      /\ \A j, e \in 1 .. n : j < e => u[j] < u[e]
  BY DEF Rising
<1>6. a < k
  BY <1>2, <1>4, <1>5
<1>7. a = k - 1
  <2> SUFFICES ASSUME a # k - 1 PROVE FALSE
    OBVIOUS
  <2>1. a + 1 \in 1 .. n /\ a < a + 1 /\ a + 1 < k
    BY <1>5, <1>6
  <2>2. u[a] < u[a + 1] /\ u[a + 1] < u[k] /\ u[a + 1] \in kept
    BY <1>5, <2>1
  <2> QED
    BY <1>3, <1>4, <2>2
<1>8. k \in 2 .. n
  BY <1>5, <1>6
<1> QED
  BY <1>4, <1>7, <1>8 DEF h, c

\* What a ledger holds between the ends of a section.
Block(sheet, plain, k) == SubSeq(sheet, plain[k - 1] + 1, plain[k] - 1)

IsSheet(S, L) == L \in Nat /\ S = [q \in 1 .. L |-> S[q]]

\* It is the rows that stand there.
LEMMA BlockIs ==
  ASSUME NEW S, NEW L, IsSheet(S, L),
         NEW rows, NEW R, WrittenRows(rows, R),
         NEW a \in Nat, NEW b, b = a + R + 1, b <= L,
         \A j \in 1 .. R : S[a + j] = rows[j]
  PROVE  SubSeq(S, a + 1, b - 1) = rows
<1>1. R \in Nat /\ rows = [q \in 1 .. R |-> rows[q]]
  BY DEF WrittenRows
<1>2. b - 1 - (a + 1) + 1 = R /\ \A j \in 1 .. R : a + 1 + j - 1 = a + j
  BY <1>1
<1> DEFINE X == {S[q] : q \in 1 .. L}
           sub == SubSeq(S, a + 1, a + R)
<1>3. S \in Seq(X) /\ Len(S) = L /\ L \in Nat
  <2>1. S \in [1 .. L -> X] /\ L \in Nat
    BY DEF IsSheet
  <2> HIDE DEF X
  <2> QED
    BY <2>1
<1> HIDE DEF X
<1>4. a + R <= L /\ b - 1 = a + R
  BY <1>1, <1>3
<1>5. Len(sub) = R
  BY <1>1, <1>3, <1>4
<1>6. \A j \in 1 .. R : sub[j] = S[a + j]
  BY <1>1, <1>3, <1>4
<1>7. sub = [j \in 1 .. R |-> S[a + j]]
  BY <1>1, <1>3, <1>4
<1> HIDE DEF sub
<1>8. sub = [j \in 1 .. R |-> rows[j]]
  BY <1>7
<1> QED
  BY <1>1, <1>4, <1>8 DEF sub

\* The place of a settlement row among those that are kept.
AtClose(kept, x) == CHOOSE k \in DOMAIN kept : kept[k] = x.close

SectionTold(S, u, v, columns, x, due) ==
  LET k == AtClose(u, x)
      rows == Block(S, v, k)
  IN  /\ S[v[k]].holds = Settled(columns, due)
      /\ SectionTells(due, Picked(rows, {q \in DOMAIN rows : rows[q].holds.of # NULL}),
                      Picked(rows, {q \in DOMAIN rows : rows[q].holds.of = NULL}),
                      S[v[k]].holds)

\* Each section of a filled sheet is told by what stands above its settlement row.
LEMMA SectionIsTold ==
  ASSUME NEW sheet \in Seq(TemplateRow), NEW sections, InOrder(sections, sheet),
         NEW dues, \A i \in 1 .. Len(sections) : Written(dues[i]),
         NEW columns, {"income", "expense"} \subseteq columns,
         NEW S, NEW L, NEW m, Filled(S, L, m, sheet, columns, sections, dues, 0),
         NEW u, NEW n, Rising(u, n, Kept(sheet, sections, dues, 0)),
         NEW v, \A k \in 1 .. n : v[k] = m[u[k]],
         NEW i \in 1 .. Len(sections), dues[i] # {}
  PROVE  SectionTold(S, u, v, columns, sections[i], dues[i])
<1> DEFINE h == sections[i].header
           c == sections[i].close
           due == dues[i]
           at == AtClose(u, sections[i])
           month == Book!MonthRows(columns, due)
<1>1. PICK k \in 2 .. n : u[k] = c /\ u[k - 1] = h
  BY EndsAre
<1>2. /\ n \in Nat /\ u \in [1 .. n -> Kept(sheet, sections, dues, 0)]
      /\ \A j, e \in 1 .. n : j < e => u[j] < u[e]
  BY DEF Rising
<1>3. k \in 1 .. n /\ k - 1 \in 1 .. n
  BY <1>2
<1>4. at = k
  <2>1. DOMAIN u = 1 .. n /\ Kept(sheet, sections, dues, 0) \subseteq Int
    BY <1>2, SectionsBounds DEF Kept
  <2>2. \A j \in 1 .. n : u[j] = c => j = k
    <3>1. \A j \in 1 .. n : u[j] \in Int
      BY <1>2, <2>1
    <3> HIDE DEF c
    <3> QED
      BY <1>1, <1>2, <1>3, <3>1, SMTT(30)
  <2> QED
    BY <1>1, <1>3, <2>1, <2>2 DEF AtClose
<1>5. v[k] = m[c] /\ v[k - 1] = m[h]
  BY <1>1, <1>3
<1>6. HoldsMonth(S, m, columns, sections[i], due)
  <2>1. i \in 0 + 1 .. Len(sections)
    BY SectionsBounds
  <2> QED
    BY <2>1 DEF Filled
<1>7. /\ L \in Nat /\ S = [q \in 1 .. L |-> S[q]]
      /\ \A p \in Kept(sheet, sections, dues, 0) : m[p] \in 1 .. L
  BY DEF Filled, Places
<1>8. m[h] \in 1 .. L /\ m[c] \in 1 .. L
  <2>1. h \in Kept(sheet, sections, dues, 0) /\ c \in Kept(sheet, sections, dues, 0)
    BY EndsKept
  <2> QED
    BY <1>7, <2>1
<1>9. PICK R : WrittenRows(month, R)
  BY MonthIsWritten
<1>10. /\ S[m[c]].holds = Settled(columns, due)
       /\ m[c] = m[h] + Len(month) + 1
       /\ \A j \in 1 .. Len(month) : S[m[h] + j] = month[j]
  BY <1>6 DEF HoldsMonth
<1>11. Len(month) = R
  BY <1>9 DEF WrittenRows
<1> HIDE DEF month, h, c, at
<1>12. SubSeq(S, m[h] + 1, m[c] - 1) = month
  <2>1. m[h] \in Nat /\ m[c] <= L
    BY <1>7, <1>8
  <2>2. m[c] = m[h] + R + 1 /\ \A j \in 1 .. R : S[m[h] + j] = month[j]
    BY <1>10, <1>11
  <2> DEFINE from == m[h]
             to == m[c]
  <2>3. from \in Nat /\ to = from + R + 1 /\ to <= L /\ \A j \in 1 .. R : S[from + j] = month[j]
    BY <2>1, <2>2
  <2>4. IsSheet(S, L) /\ WrittenRows(month, R)
    BY <1>7, <1>9 DEF IsSheet
  <2> HIDE DEF from, to
  <2>5. SubSeq(S, from + 1, to - 1) = month
    BY <2>3, <2>4, BlockIs
  <2> QED
    BY <2>5 DEF from, to
<1>13. Block(S, v, at) = month
  BY <1>4, <1>5, <1>12 DEF Block
<1>14. S[v[at]].holds = Settled(columns, due)
  BY <1>4, <1>5, <1>10
<1>15. SectionTells(due, Picked(month, {q \in DOMAIN month : month[q].holds.of # NULL}),
                    Picked(month, {q \in DOMAIN month : month[q].holds.of = NULL}),
                    Settled(columns, due))
  BY MonthTells DEF month
<1> HIDE DEF due
<1> QED
  BY <1>13, <1>14, <1>15 DEF SectionTold, due, at

-----------------------------------------------------------------------------
(* What the months of a ledger come to.                                     *)

\* A sum of differences is the difference of the sums.
LEMMA SumDifference ==
  ASSUME NEW S, IsFiniteSet(S), NEW f, NEW g, NEW h,
         \A x \in S : f[x] \in Int /\ g[x] \in Int /\ h[x] = f[x] - g[x]
  PROVE  SumOf(h, S) = SumOf(f, S) - SumOf(g, S)
<1> DEFINE Fine == {T \in SUBSET S : SumOf(h, T) = SumOf(f, T) - SumOf(g, T)}
<1>1. ASSUME NEW T \in SUBSET S, \A U \in SUBSET T : U # T => U \in Fine
      PROVE  T \in Fine
  <2>0. IsFiniteSet(T) /\ \A x \in T : h[x] \in Int /\ f[x] \in Int /\ g[x] \in Int
    BY FS_Subset
  <2>1. CASE T = {}
    <3>1. SumOf(h, T) = 0 /\ SumOf(f, T) = 0 /\ SumOf(g, T) = 0
      BY <2>0, <2>1, SumStep
    <3> QED
      BY <3>1
  <2>2. CASE T # {}
    <3>1. PICK x \in T : TRUE
      BY <2>2
    <3> DEFINE V == T \ {x}
    <3>2. SumOf(h, V) = SumOf(f, V) - SumOf(g, V)
      BY <1>1, <3>1
    <3>3. /\ SumOf(h, T) = h[x] + SumOf(h, V) /\ SumOf(f, T) = f[x] + SumOf(f, V)
          /\ SumOf(g, T) = g[x] + SumOf(g, V)
      BY <2>0, SumTake
    <3>4. IsFiniteSet(V) /\ \A y \in V : f[y] \in Int /\ g[y] \in Int
      BY <2>0, FS_Subset
    <3> HIDE DEF V
    <3>5. SumOf(f, V) \in Int /\ SumOf(g, V) \in Int
      BY <3>4, SumType
    <3>6. h[x] = f[x] - g[x] /\ f[x] \in Int /\ g[x] \in Int
      OBVIOUS
    <3> QED
      BY <3>2, <3>3, <3>5, <3>6
  <2> QED
    BY <2>1, <2>2
<1> HIDE DEF Fine
<1>2. S \in Fine
  BY <1>1, SmallerSets
<1> QED
  BY <1>2 DEF Fine

NetOf(E) == [e \in E |-> Book!Expense(e) - Book!Income(e)]
NetSum(E) == MapThenSumSet(LAMBDA e : Book!Expense(e) - Book!Income(e), E)

\* It is the sum of these.
LEMMA NetSumIs ==
  ASSUME NEW E, IsFiniteSet(E)
  PROVE  NetSum(E) = SumOf(NetOf(E), E)
<1> DEFINE Step(g) == [s \in SUBSET E |-> IF s = {} THEN 0
                        ELSE LET x == CHOOSE x \in s : TRUE
                             IN  Book!Expense(x) - Book!Income(x) + g[s \ {x}]]
           it == CHOOSE g : g = Step(g)
<1>1. NetSum(E) = it[E]
  BY DEF NetSum, MapThenSumSet, MapThenFoldSet
<1>2. ASSUME NEW g PROVE g = Step(g) <=> IsFold(g, E, NetOf(E))
  <2>1. \A s \in SUBSET E : s # {} =>
          NetOf(E)[AnyOf(s)] = Book!Expense(AnyOf(s)) - Book!Income(AnyOf(s))
    BY AnyOfIn DEF NetOf
  <2>2. [s \in SUBSET E |-> IF s = {} THEN 0 ELSE NetOf(E)[AnyOf(s)] + g[s \ {AnyOf(s)}]]
      = [s \in SUBSET E |-> IF s = {} THEN 0
           ELSE Book!Expense(AnyOf(s)) - Book!Income(AnyOf(s)) + g[s \ {AnyOf(s)}]]
    BY <2>1
  <2> QED
    BY <2>2 DEF IsFold, AnyOf
<1> HIDE DEF Step
<1>3. it = Step(it)
  BY <1>2, FoldExists
<1>4. SumOf(NetOf(E), E) = it[E]
  BY <1>2, <1>3, FoldSum
<1> QED
  BY <1>1, <1>4

\* What a settlement row says the month cost.
ClosesAt(S, v, u, x) == S[v[AtClose(u, x)]].holds

ClosesSum(S, v, u, full) ==
  MapThenSumSet(LAMBDA x : ClosesAt(S, v, u, x).expense - ClosesAt(S, v, u, x).income, full)

\* It is a sum over the sections.
LEMMA ClosesSumIs ==
  ASSUME NEW S, NEW v, NEW u, NEW full, IsFiniteSet(full)
  PROVE  ClosesSum(S, v, u, full) =
           SumOf([x \in full |-> ClosesAt(S, v, u, x).expense - ClosesAt(S, v, u, x).income], full)
<1> DEFINE f == [x \in full |-> ClosesAt(S, v, u, x).expense - ClosesAt(S, v, u, x).income]
           Net(x) == ClosesAt(S, v, u, x).expense - ClosesAt(S, v, u, x).income
           Step(g) == [s \in SUBSET full |-> IF s = {} THEN 0
                        ELSE LET x == CHOOSE x \in s : TRUE IN Net(x) + g[s \ {x}]]
           it == CHOOSE g : g = Step(g)
<1>1. ClosesSum(S, v, u, full) = it[full]
  BY DEF ClosesSum, MapThenSumSet, MapThenFoldSet
<1>2. ASSUME NEW g PROVE g = Step(g) <=> IsFold(g, full, f)
  <2>1. \A s \in SUBSET full : s # {} => f[AnyOf(s)] = Net(AnyOf(s))
    BY AnyOfIn
  <2> HIDE DEF Net, f
  <2>2. [s \in SUBSET full |-> IF s = {} THEN 0 ELSE f[AnyOf(s)] + g[s \ {AnyOf(s)}]]
      = [s \in SUBSET full |-> IF s = {} THEN 0 ELSE Net(AnyOf(s)) + g[s \ {AnyOf(s)}]]
    BY <2>1
  <2> QED
    BY <2>2 DEF IsFold, AnyOf
<1> HIDE DEF Step, f
<1>3. it = Step(it)
  BY <1>2, FoldExists
<1>4. SumOf(f, full) = it[full]
  BY <1>2, <1>3, FoldSum
<1> QED
  BY <1>1, <1>4 DEF f

\* The net of some evidences.
LEMMA NetWithin ==
  ASSUME NEW E, Written(E), NEW D \in SUBSET E
  PROVE  SumOf(ExpenseOf(D), D) - SumOf(IncomeOf(D), D) = SumOf(NetOf(E), D)
<1>1. Written(D)
  BY WrittenSome
<1>2. IsFiniteSet(D)
  BY <1>1 DEF Written
<1>3. \A e \in D : /\ ExpenseOf(D)[e] \in Int /\ IncomeOf(D)[e] \in Int
                   /\ NetOf(E)[e] = ExpenseOf(D)[e] - IncomeOf(D)[e]
  <2>1. ASSUME NEW e \in D
        PROVE  /\ ExpenseOf(D)[e] \in Int /\ IncomeOf(D)[e] \in Int
               /\ NetOf(E)[e] = ExpenseOf(D)[e] - IncomeOf(D)[e]
    <3>1. /\ IncomeOf(D)[e] = Book!Income(e) /\ ExpenseOf(D)[e] = Book!Expense(e)
          /\ Book!Income(e) \in Int /\ Book!Expense(e) \in Int
      BY <1>1, SumsInt
    <3>2. NetOf(E)[e] = Book!Expense(e) - Book!Income(e)
      BY DEF NetOf
    <3> QED
      BY <3>1, <3>2
  <2> QED
    BY <2>1
<1> QED
  BY <1>2, <1>3, SumDifference

-----------------------------------------------------------------------------
(* A ledger.                                                                *)

\* How a ledger was written.
LedgerHeld(l) ==
  /\ l.template \in Seq(TemplateRow) /\ Book!LedgerColumns(l.template) # {}
  /\ l.title \in TitleText /\ l.headed = Book!Headed(l.template, l.title)
  /\ Written(l.evidences) /\ l.sections = Book!Sections(l.headed)
  /\ l.sheet = Book!Fill(l.headed, Book!LedgerColumns(l.template), l.evidences)

\* A sheet in which one cell was written.
IsPut(new, sheet, r, c) ==
  /\ new \in Seq(TemplateRow)
  /\ Len(new) = IF Len(sheet) < r THEN r ELSE Len(sheet)
  /\ \A q \in 1 .. Len(sheet) : q # r => new[q] = sheet[q]
  /\ \A q \in 1 .. Len(sheet) : c # 1 =>
       new[q].opens = sheet[q].opens /\ new[q].closes = sheet[q].closes
  /\ \A q \in 1 .. Len(sheet) : \A k \in DOMAIN sheet[q].cells :
       <<q, k>> # <<r, c>> =>
         k \in DOMAIN new[q].cells /\ new[q].cells[k] = sheet[q].cells[k]

\* Writing a cell leaves the others as they were.
LEMMA PutIs ==
  ASSUME NEW sheet \in Seq(TemplateRow), NEW r \in Nat \ {0}, NEW c \in Nat \ {0},
         NEW text \in TitleText
  PROVE  IsPut(Book!Put(sheet, r, c, text), sheet, r, c)
<1> DEFINE row == IF r \in DOMAIN sheet THEN sheet[r] ELSE Book!Bare
           width == IF Len(row.cells) < c THEN c ELSE Len(row.cells)
           height == IF Len(sheet) < r THEN r ELSE Len(sheet)
           cells == [k \in 1 .. width |-> IF k = c THEN text.keys ELSE Book!CellAt(row, k)]
           put == [opens |-> IF c = 1 THEN text.opens ELSE row.opens,
                   closes |-> IF c = 1 THEN text.closes ELSE row.closes,
                   cells |-> cells, holds |-> row.holds]
           new == [q \in 1 .. height |->
                     IF q = r THEN put ELSE IF q \in DOMAIN sheet THEN sheet[q] ELSE Book!Bare]
<1>1. Book!Put(sheet, r, c, text) = new
  BY DEF Book!Put
<1>2. Len(sheet) \in Nat /\ DOMAIN sheet = 1 .. Len(sheet)
      /\ \A q \in 1 .. Len(sheet) : sheet[q] \in TemplateRow
  OBVIOUS
<1>3. Book!Bare \in TemplateRow
  BY DEF Book!Bare, TemplateRow
<1>4. row \in TemplateRow
  BY <1>2, <1>3
<1>5. /\ row.opens \in Int \cup {NULL} /\ row.closes \in Int \cup {NULL}
      /\ row.cells \in Seq(SUBSET Book!LedgerKeys) /\ row.holds = <<>>
  BY <1>4 DEF TemplateRow
<1>6. /\ text.opens \in Int \cup {NULL} /\ text.closes \in Int \cup {NULL}
      /\ text.keys \in SUBSET Book!LedgerKeys
  BY DEF TitleText
<1>7. height \in Nat /\ 1 .. Len(sheet) \subseteq 1 .. height /\ r \in 1 .. height
  BY <1>2
<1>a. r \in 1 .. Len(sheet) => row = sheet[r]
  BY <1>2
<1> HIDE DEF row
<1>8. width \in Nat /\ DOMAIN row.cells = 1 .. Len(row.cells)
      /\ 1 .. Len(row.cells) \subseteq 1 .. width
  BY <1>5
<1> HIDE DEF width, height
<1>9. \A k \in 1 .. width : Book!CellAt(row, k) \in SUBSET Book!LedgerKeys
  BY <1>5, <1>8 DEF Book!CellAt
<1>10. cells \in Seq(SUBSET Book!LedgerKeys)
  <2>1. cells \in [1 .. width -> SUBSET Book!LedgerKeys]
    BY <1>6, <1>9
  <2> HIDE DEF cells
  <2> QED
    BY <1>8, <2>1
<1>11. \A k \in DOMAIN row.cells : k # c => k \in DOMAIN cells /\ cells[k] = row.cells[k]
  BY <1>8 DEF Book!CellAt
<1> HIDE DEF cells
<1>12. put \in TemplateRow
  BY <1>5, <1>6, <1>10 DEF TemplateRow
<1>13. put.cells = cells
       /\ (c # 1 => put.opens = row.opens /\ put.closes = row.closes)
  OBVIOUS
<1> HIDE DEF put
<1>14. \A q \in 1 .. height : new[q] \in TemplateRow
  BY <1>2, <1>3, <1>12
<1>15. new \in Seq(TemplateRow) /\ Len(new) = height
  BY <1>7, <1>14
<1>16. \A q \in 1 .. Len(sheet) : new[q] = IF q = r THEN put ELSE sheet[q]
  BY <1>2, <1>7
<1> HIDE DEF new
<1>17. \A q \in 1 .. Len(sheet) : c # 1 =>
         new[q].opens = sheet[q].opens /\ new[q].closes = sheet[q].closes
  BY <1>13, <1>16, <1>a
<1>18. \A q \in 1 .. Len(sheet) : \A k \in DOMAIN sheet[q].cells :
         <<q, k>> # <<r, c>> =>
           k \in DOMAIN new[q].cells /\ new[q].cells[k] = sheet[q].cells[k]
  BY <1>11, <1>13, <1>16, <1>a
<1> QED
  BY <1>1, <1>15, <1>16, <1>17, <1>18 DEF IsPut, height

\* What the title and the date leave of a template.
IsHeaded(new, sheet) ==
  /\ new \in Seq(TemplateRow) /\ Len(sheet) <= Len(new)
  /\ 3 <= Len(sheet) => Len(new) = Len(sheet)
  /\ \A q \in 1 .. Len(sheet) : q \notin {1, 3} => new[q] = sheet[q]
  /\ \A q \in 1 .. Len(sheet) : q # 3 =>
       new[q].opens = sheet[q].opens /\ new[q].closes = sheet[q].closes
  /\ \A q \in 1 .. Len(sheet) : \A k \in DOMAIN sheet[q].cells :
       <<q, k>> \notin {<<3, 1>>, <<1, 7>>} => new[q].cells[k] = sheet[q].cells[k]

LEMMA HeadedIs ==
  ASSUME NEW sheet \in Seq(TemplateRow), NEW title \in TitleText
  PROVE  IsHeaded(Book!Headed(sheet, title), sheet)
<1> DEFINE date == [opens |-> NULL, closes |-> NULL, keys |-> {}]
           titled == Book!Put(sheet, 3, 1, title)
           new == Book!Put(titled, 1, 7, date)
<1>1. IsPut(titled, sheet, 3, 1)
  BY PutIs
<1>2. date \in TitleText
  BY DEF TitleText
<1>3. titled \in Seq(TemplateRow)
  BY <1>1 DEF IsPut
<1> HIDE DEF date, titled
<1>4. IsPut(new, titled, 1, 7)
  BY <1>2, <1>3, PutIs
<1>5. Book!Headed(sheet, title) = new
  BY DEF Book!Headed, date, titled
<1> HIDE DEF new
<1>6. Len(sheet) \in Nat /\ Len(titled) \in Nat
      /\ Len(titled) = (IF Len(sheet) < 3 THEN 3 ELSE Len(sheet))
      /\ Len(new) = (IF Len(titled) < 1 THEN 1 ELSE Len(titled)) /\ new \in Seq(TemplateRow)
  BY <1>1, <1>3, <1>4 DEF IsPut
<1>7. 1 .. Len(sheet) \subseteq 1 .. Len(titled)
      /\ Len(sheet) <= Len(new) /\ (3 <= Len(sheet) => Len(new) = Len(sheet))
  BY <1>6
<1>8. ASSUME NEW q \in 1 .. Len(sheet)
      PROVE  /\ q \notin {1, 3} => new[q] = sheet[q]
             /\ q # 3 => new[q].opens = sheet[q].opens /\ new[q].closes = sheet[q].closes
  <2>1. q # 3 => titled[q] = sheet[q]
    BY <1>1 DEF IsPut
  <2>2. q \in 1 .. Len(titled)
    BY <1>7
  <2>3. q # 1 => new[q] = titled[q]
    BY <1>4, <2>2 DEF IsPut
  <2>4. new[q].opens = titled[q].opens /\ new[q].closes = titled[q].closes
    BY <1>4, <2>2 DEF IsPut
  <2> QED
    BY <2>1, <2>3, <2>4
<1>9. ASSUME NEW q \in 1 .. Len(sheet), NEW k \in DOMAIN sheet[q].cells,
             <<q, k>> \notin {<<3, 1>>, <<1, 7>>}
      PROVE  new[q].cells[k] = sheet[q].cells[k]
  <2>1. k \in DOMAIN titled[q].cells /\ titled[q].cells[k] = sheet[q].cells[k]
    BY <1>1, <1>9 DEF IsPut
  <2>2. q \in 1 .. Len(titled) /\ <<q, k>> # <<1, 7>>
    BY <1>7, <1>9
  <2> QED
    BY <1>4, <2>1, <2>2 DEF IsPut
<1> QED
  BY <1>5, <1>6, <1>7, <1>8, <1>9 DEF IsHeaded

\* Sheets with the same titles, headers and settlement rows have the same
\* sections.
LEMMA SameSections ==
  ASSUME NEW s, NEW t, NEW n \in Nat, Len(s) = n, Len(t) = n,
         DOMAIN s = 1 .. n, DOMAIN t = 1 .. n,
         \A r \in 1 .. n : s[r].opens = t[r].opens /\ s[r].closes = t[r].closes,
         \A r \in 2 .. n : Book!IsLedgerHeader(s[r]) <=> Book!IsLedgerHeader(t[r])
  PROVE  Book!Sections(s) = Book!Sections(t)
<1> DEFINE HeadsOf(x, r) == {q \in DOMAIN x :
                             r < q /\ q < r + HeaderWindow /\ Book!IsLedgerHeader(x[q])}
           HeadAt(x, r) == IF HeadsOf(x, r) = {} THEN 0 ELSE Book!Min(HeadsOf(x, r))
           ClosersOf(x, r) == {q \in DOMAIN x :
                               /\ HeadAt(x, r) < q /\ q < HeadAt(x, r) + CloseWindow
                               /\ x[q].closes = x[r].opens}
           ClosedAt(x, r) == IF HeadAt(x, r) = 0 THEN 0
                           ELSE IF ClosersOf(x, r) = {} THEN 0 ELSE Book!Min(ClosersOf(x, r))
<1>1. \A x, r : Book!SectionAt(x, r) =
        [month |-> x[r].opens, title |-> r, header |-> HeadAt(x, r), close |-> ClosedAt(x, r)]
  BY DEF Book!SectionAt, Book!FirstAfter
<1>2. ASSUME NEW r \in 1 .. n PROVE Book!SectionAt(s, r) = Book!SectionAt(t, r)
  <2>1. \A q \in 1 .. n : r < q => q \in 2 .. n
    OBVIOUS
  <2>2. HeadsOf(s, r) = HeadsOf(t, r)
    BY <2>1
  <2> HIDE DEF HeadsOf
  <2>3. HeadAt(s, r) = HeadAt(t, r)
    BY <2>2
  <2> HIDE DEF HeadAt
  <2>4. ClosersOf(s, r) = ClosersOf(t, r)
    BY <2>3
  <2> HIDE DEF ClosersOf
  <2>5. ClosedAt(s, r) = ClosedAt(t, r)
    BY <2>3, <2>4
  <2> HIDE DEF ClosedAt
  <2> QED
    BY <1>1, <2>3, <2>5
<1> HIDE DEF ClosedAt
<1>3. \A f : \A r \in 0 .. n : SectionsStep(s, f, r) = SectionsStep(t, f, r)
  <2>1. \A r \in 0 .. n : r = 0 \/ r \in 1 .. n
    OBVIOUS
  <2> QED
    BY <1>2, <2>1 DEF SectionsStep
<1> DEFINE It(x) == CHOOSE f : f = [r \in 0 .. n |-> SectionsStep(x, f, r)]
<1>4. Book!Sections(s) = It(s)[n] /\ Book!Sections(t) = It(t)[n]
  BY DEF Book!Sections, SectionsStep
<1>5. \A f : [r \in 0 .. n |-> SectionsStep(s, f, r)] = [r \in 0 .. n |-> SectionsStep(t, f, r)]
  BY <1>3
<1>6. It(s) = It(t)
  BY <1>5
<1> HIDE DEF It
<1> QED
  BY <1>4, <1>6

\* What the heading of a ledger spares.
LEMMA HeadingSpared ==
  ASSUME NEW l, LedgerHeld(l)
  PROVE  HeadingSpares(l)
<1> DEFINE t == l.template
           h == l.headed
<1>1. t \in Seq(TemplateRow) /\ IsHeaded(h, t) /\ l.sections = Book!Sections(h)
  BY HeadedIs DEF LedgerHeld
<1>2. Len(t) \in Nat /\ DOMAIN t = 1 .. Len(t)
  BY <1>1
<1> HIDE DEF t, h
<1>3. ASSUME 3 \in DOMAIN t, h[3].opens = t[3].opens, h[3].closes = t[3].closes,
             Book!IsLedgerHeader(h[3]) <=> Book!IsLedgerHeader(t[3])
      PROVE  l.sections = Book!Sections(t)
  <2>1. Len(h) = Len(t) /\ DOMAIN h = 1 .. Len(t)
    BY <1>1, <1>2, <1>3 DEF IsHeaded
  <2>2. \A r \in 1 .. Len(t) : h[r].opens = t[r].opens /\ h[r].closes = t[r].closes
    BY <1>1, <1>3 DEF IsHeaded
  <2>3. \A r \in 2 .. Len(t) : Book!IsLedgerHeader(h[r]) <=> Book!IsLedgerHeader(t[r])
    <3>1. ASSUME NEW r \in 2 .. Len(t), r # 3 PROVE h[r] = t[r]
      BY <1>1, <1>2, <3>1 DEF IsHeaded
    <3> QED
      BY <1>3, <3>1
  <2> QED
    BY <1>1, <1>2, <2>1, <2>2, <2>3, SameSections
<1>4. \A n \in DOMAIN t :
        /\ n # 3 => h[n].opens = t[n].opens /\ h[n].closes = t[n].closes
        /\ \A c \in DOMAIN t[n].cells :
             <<n, c>> \notin {<<3, 1>>, <<1, 7>>} => h[n].cells[c] = t[n].cells[c]
  BY <1>1, <1>2 DEF IsHeaded
<1> QED
  BY <1>3, <1>4 DEF HeadingSpares, t, h

\* A template with the columns of a ledger has income and expense.
LEMMA ColumnsHold ==
  ASSUME NEW sheet \in Seq(TemplateRow), Book!LedgerColumns(sheet) # {}
  PROVE  {"income", "expense"} \subseteq Book!LedgerColumns(sheet)
<1> DEFINE headers == {r \in DOMAIN sheet : r <= 120 /\ Book!IsLedgerHeader(sheet[r])}
           least == Book!Min(headers)
<1>1. headers # {} /\ Book!LedgerColumns(sheet) = DOMAIN Book!ColumnsOf(sheet[least])
  BY DEF Book!LedgerColumns
<1>2. headers \subseteq 1 .. Len(sheet) /\ Len(sheet) \in Nat
      /\ \A r \in headers : Book!IsLedgerHeader(sheet[r])
  OBVIOUS
<1> HIDE DEF headers
<1>3. least \in headers
  BY <1>1, <1>2, LeastIn
<1> QED
  BY <1>1, <1>2, <1>3 DEF Book!IsLedgerHeader, Book!RequiredKeys

\* What is due to a section is what is written for it.
LEMMA DueIs ==
  ASSUME NEW l, NEW i \in 1 .. Len(l.sections), Written(l.evidences)
  PROVE  /\ Due(l, l.sections[i]) = DuesOf(l.sections, l.evidences)[i]
         /\ Due(l, l.sections[i]) \in SUBSET l.evidences
<1> DEFINE E == l.evidences
           month == l.sections[i].month
           first == l.sections[1].month
<1>1. DuesOf(l.sections, E)[i] = Book!MonthEvidences(l.sections, E, month)
  BY DEF DuesOf
<1>2. Book!MonthEvidences(l.sections, E, month) =
        {e \in E : e.date # NULL /\ Book!MonthOf(e.date) = month}
          \cup (IF month = first THEN {e \in E : e.date = NULL} ELSE {})
  BY DEF Book!MonthEvidences
<1>3. Due(l, l.sections[i]) =
        {e \in E : month = IF e.date = NULL THEN first ELSE Book!MonthOf(e.date)}
  BY DEF Due
<1> HIDE DEF E, month, first
<1>4. Book!MonthEvidences(l.sections, E, month) =
        {e \in E : month = IF e.date = NULL THEN first ELSE Book!MonthOf(e.date)}
  BY <1>2
<1> QED
  BY <1>1, <1>3, <1>4 DEF E, month

\* The sections that are filled.
FullOf(l) == {x \in {l.sections[i] : i \in DOMAIN l.sections} : Due(l, x) # {}}
KeptOf(l, full) ==
  {n \in DOMAIN l.headed : \A x \in full : ~(x.header < n /\ n < x.close)}
PlainOf(l) == {n \in DOMAIN l.sheet : l.sheet[n].holds = <<>> \/ l.sheet[n].closes # NULL}

\* The sections that are filled, those that stay empty and the rows kept.
LEMMA FullIs ==
  ASSUME NEW l, LedgerHeld(l), NEW full, full = FullOf(l),
         NEW dues, dues = DuesOf(l.sections, l.evidences)
  PROVE  /\ \A x \in full : \E i \in 1 .. Len(l.sections) :
              x = l.sections[i] /\ Due(l, x) = dues[i] /\ dues[i] # {}
         /\ \A i \in 1 .. Len(l.sections) : dues[i] # {} => l.sections[i] \in full
         /\ \A i \in 1 .. Len(l.sections) : Written(dues[i])
         /\ IsFiniteSet(full)
         /\ KeptOf(l, full) = Kept(l.headed, l.sections, dues, 0)
<1> DEFINE N == Len(l.sections)
<1>1. Written(l.evidences) /\ InOrder(l.sections, l.headed)
      /\ N \in Nat /\ DOMAIN l.sections = 1 .. N
  <2>1. l.headed \in Seq(TemplateRow) /\ l.sections = Book!Sections(l.headed)
    BY HeadedIs DEF LedgerHeld, IsHeaded
  <2>2. InOrder(l.sections, l.headed)
    BY <2>1, SectionsInOrder
  <2> QED
    BY <2>1, <2>2, SectionsBounds DEF LedgerHeld
<1>2. \A i \in 1 .. N : Due(l, l.sections[i]) = dues[i] /\ dues[i] \in SUBSET l.evidences
  BY <1>1, DueIs
<1>3. \A x : x \in full <=> \E i \in 1 .. N : x = l.sections[i] /\ dues[i] # {}
  BY <1>1, <1>2 DEF FullOf
<1>4. \A i \in 1 .. N : Written(dues[i])
  BY <1>1, <1>2, WrittenSome
<1>5. IsFiniteSet(full)
  <2> DEFINE places == 1 .. N
  <2>1. IsFiniteSet(places)
    BY <1>1, FS_Interval
  <2> HIDE DEF places
  <2>2. IsFiniteSet({l.sections[i] : i \in places})
    BY <2>1, ImageFinite
  <2>3. full \subseteq {l.sections[i] : i \in places}
    BY <1>3 DEF places
  <2> QED
    BY <2>2, <2>3, FS_Subset
<1>6. KeptOf(l, full) = Kept(l.headed, l.sections, dues, 0)
  <2>1. \A n : (\A x \in full : ~(x.header < n /\ n < x.close))
                 <=> \A i \in 1 .. N : dues[i] # {} =>
                       ~(l.sections[i].header < n /\ n < l.sections[i].close)
    BY <1>3
  <2>2. 0 + 1 .. N = 1 .. N
    OBVIOUS
  <2> QED
    BY <2>1, <2>2 DEF KeptOf, Kept
<1>7. \A x \in full : \E i \in 1 .. N : x = l.sections[i] /\ Due(l, x) = dues[i] /\ dues[i] # {}
  BY <1>2, <1>3
<1>8. \A i \in 1 .. N : dues[i] # {} => l.sections[i] \in full
  BY <1>3
<1> QED
  BY <1>4, <1>5, <1>6, <1>7, <1>8

\* Where no evidence is due to several sections, the settlement rows come to what
\* those do that have one.
LEMMA MonthsCome ==
  ASSUME NEW l, LedgerHeld(l), NEW full, full = FullOf(l), NEW S, NEW v, NEW u,
         \A x \in full :
           /\ ClosesAt(S, v, u, x).expense = SumOf(ExpenseOf(Due(l, x)), Due(l, x))
           /\ ClosesAt(S, v, u, x).income = SumOf(IncomeOf(Due(l, x)), Due(l, x)),
         \A e \in l.evidences : Cardinality({x \in full : e \in Due(l, x)}) <= 1
  PROVE  ClosesSum(S, v, u, full) = NetSum(Sectioned(l, full))
<1> DEFINE E == Sectioned(l, full)
           key == [e \in E |-> CHOOSE x \in full : e \in Due(l, x)]
           net == [x \in full |-> ClosesAt(S, v, u, x).expense - ClosesAt(S, v, u, x).income]
<1>1. Written(E) /\ IsFiniteSet(E) /\ IsFiniteSet(full)
  <2>1. E \in SUBSET l.evidences
    BY DEF Sectioned
  <2> HIDE DEF E
  <2>2. Written(E)
    BY <2>1, WrittenSome DEF LedgerHeld
  <2> QED
    BY <2>2, FullIs DEF Written
<1>2. \A x \in full : Due(l, x) \in SUBSET E
  BY DEF Due, Sectioned
<1>3. ASSUME NEW e \in E
      PROVE  \E x \in full : /\ e \in Due(l, x)
                             /\ \A y \in full : e \in Due(l, y) => y = x
  <2> DEFINE those == {x \in full : e \in Due(l, x)}
  <2>0. e \in l.evidences /\ those # {}
    BY <1>3 DEF Sectioned
  <2>2. IsFiniteSet(those)
    BY <1>1, FS_Subset
  <2>a. Cardinality(those) <= 1
    BY <2>0
  <2> HIDE DEF those
  <2>1. Cardinality(those) = 1
    <3>1. Cardinality(those) \in Nat /\ Cardinality(those) # 0
      BY <2>0, <2>2, FS_CardinalityType, FS_EmptySet
    <3> QED
      BY <2>a, <3>1
  <2>3. \E x : those = {x}
    BY <2>1, <2>2, FS_Singleton
  <2> QED
    BY <2>3 DEF those
<1>4. \A e \in E : key[e] \in full /\ \A x \in full : e \in Due(l, x) <=> key[e] = x
  BY <1>3
<1> HIDE DEF key
<1>5. \A x \in full : PartOf(E, key, x) = Due(l, x)
  BY <1>2, <1>4 DEF PartOf
<1>6. \A x \in full : net[x] = SumOf(NetOf(E), PartOf(E, key, x))
  <2>1. ASSUME NEW x \in full PROVE net[x] = SumOf(NetOf(E), PartOf(E, key, x))
    <3>1. net[x] = SumOf(ExpenseOf(Due(l, x)), Due(l, x)) - SumOf(IncomeOf(Due(l, x)), Due(l, x))
      OBVIOUS
    <3>2. Due(l, x) \in SUBSET E
      BY <1>2
    <3> HIDE DEF net
    <3> QED
      BY <1>1, <1>5, <3>1, <3>2, NetWithin
  <2> QED
    BY <2>1
<1>7. \A e \in E : NetOf(E)[e] \in Int
  <2>1. ASSUME NEW e \in E PROVE NetOf(E)[e] \in Int
    <3>1. Book!Income(e) \in Int /\ Book!Expense(e) \in Int
      BY <1>1, SumsInt
    <3> QED
      BY <3>1 DEF NetOf
  <2> QED
    BY <2>1
<1>8. ClosesSum(S, v, u, full) = SumOf(net, full)
  BY <1>1, ClosesSumIs
<1> HIDE DEF net, E
<1>9. SumOf(net, full) = SumOf(NetOf(E), E)
  BY <1>1, <1>4, <1>6, <1>7, SumOfParts
<1>10. NetSum(E) = SumOf(NetOf(E), E)
  BY <1>1, NetSumIs
<1> QED
  BY <1>8, <1>9, <1>10 DEF E

\* A ledger tells its months.
LEMMA LedgerTold ==
  ASSUME NEW l, LedgerHeld(l), NEW full, full = FullOf(l)
  PROVE  LedgerTells(l, full, Upward(KeptOf(l, full)), Upward(PlainOf(l)))
<1> DEFINE sheet == l.headed
           sections == l.sections
           dues == DuesOf(sections, l.evidences)
           columns == Book!LedgerColumns(l.template)
           S == l.sheet
           kept == Kept(sheet, sections, dues, 0)
           u == Upward(KeptOf(l, full))
           v == Upward(PlainOf(l))
<1>1. /\ sheet \in Seq(TemplateRow) /\ Written(l.evidences) /\ InOrder(sections, sheet)
      /\ {"income", "expense"} \subseteq columns
      /\ sections = Book!Sections(sheet) /\ S = Book!Fill(sheet, columns, l.evidences)
  <2>1. sheet \in Seq(TemplateRow)
    BY HeadedIs DEF LedgerHeld, IsHeaded
  <2> QED
    BY <2>1, ColumnsHold, SectionsInOrder DEF LedgerHeld
<1>2. /\ \A x \in full : \E i \in 1 .. Len(sections) :
           x = sections[i] /\ Due(l, x) = dues[i] /\ dues[i] # {}
      /\ \A i \in 1 .. Len(sections) : Written(dues[i])
      /\ IsFiniteSet(full) /\ KeptOf(l, full) = kept
  BY FullIs
<1>3. PICK L, m : Filled(S, L, m, sheet, columns, sections, dues, 0)
  BY <1>1, SheetFilled
<1>4. PlainOf(l) = {q \in DOMAIN S : Plain(S[q])}
  BY DEF PlainOf, Plain
<1> HIDE DEF sheet, dues, columns, kept
<1>5. PICK n \in Nat : Rising(u, n, kept) /\ v = [k \in 1 .. n |-> m[u[k]]]
  <2> DEFINE all == KeptOf(l, full)
             bare == PlainOf(l)
  <2>1. all = Kept(sheet, sections, dues, 0) /\ bare = {q \in DOMAIN S : Plain(S[q])}
    BY <1>2, <1>4 DEF kept
  <2> HIDE DEF all, bare
  <2>2. PICK n : PlainPlaced(all, bare, m, n)
    BY <1>1, <1>3, <2>1, PlainAre
  <2>3. n \in Nat /\ Rising(Upward(all), n, all)
        /\ Upward(bare) = [k \in 1 .. n |-> m[Upward(all)[k]]]
    BY <2>2 DEF PlainPlaced, Rising
  <2> QED
    BY <1>2, <2>3 DEF all, bare
<1>6. u \in [1 .. n -> kept]
  BY <1>5 DEF Rising
<1>7. Len(v) = Len(u) /\ DOMAIN u = 1 .. n /\ \A k \in 1 .. n : v[k] = m[u[k]]
  <2> HIDE DEF v, u
  <2>1. u = [k \in 1 .. n |-> u[k]]
    BY <1>6
  <2> QED
    BY <1>5, <1>6, <2>1
<1> HIDE DEF u, v
<1>8. \A k \in DOMAIN u : [S[v[k]] EXCEPT !.holds = <<>>] = sheet[u[k]]
  <2>1. \A p \in kept : [S[m[p]] EXCEPT !.holds = <<>>] = sheet[p]
    BY <1>3 DEF Filled, Keeps, kept
  <2> QED
    BY <1>6, <1>7, <2>1
<1>9. ASSUME NEW x \in full PROVE SectionTold(S, u, v, columns, x, Due(l, x))
  <2>1. PICK i \in 1 .. Len(sections) :
          x = sections[i] /\ Due(l, x) = dues[i] /\ dues[i] # {}
    BY <1>2
  <2>2. SectionTold(S, u, v, columns, sections[i], dues[i])
    <3>1. Rising(u, n, Kept(sheet, sections, dues, 0))
      BY <1>5 DEF kept
    <3>2. sheet \in Seq(TemplateRow) /\ InOrder(sections, sheet)
          /\ {"income", "expense"} \subseteq columns
      BY <1>1
    <3>3. \A j \in 1 .. Len(sections) : Written(dues[j])
      BY <1>2
    <3>4. \A k \in 1 .. n : v[k] = m[u[k]]
      BY <1>7
    <3>5. i \in 1 .. Len(sections) /\ dues[i] # {}
      BY <2>1
    <3>6. Filled(S, L, m, sheet, columns, sections, dues, 0)
      BY <1>3
    <3> HIDE DEF S, sections
    <3> QED
      BY <3>1, <3>2, <3>3, <3>4, <3>5, <3>6, SectionIsTold
  <2> QED
    BY <2>1, <2>2
<1>10. (\A e \in l.evidences : Cardinality({x \in full : e \in Due(l, x)}) <= 1) =>
         ClosesSum(S, v, u, full) = NetSum(Sectioned(l, full))
  <2>1. ASSUME NEW x \in full
        PROVE  /\ ClosesAt(S, v, u, x).expense = SumOf(ExpenseOf(Due(l, x)), Due(l, x))
               /\ ClosesAt(S, v, u, x).income = SumOf(IncomeOf(Due(l, x)), Due(l, x))
    <3>1. ClosesAt(S, v, u, x) = Settled(columns, Due(l, x))
      BY <1>9 DEF SectionTold, ClosesAt
    <3>2. Written(Due(l, x))
      BY <1>2
    <3> QED
      BY <1>1, <3>1, <3>2, SettledSays
  <2> QED
    BY <2>1, MonthsCome
<1>11. \A k \in DOMAIN u : [l.sheet[v[k]] EXCEPT !.holds = <<>>] = l.headed[u[k]]
  BY <1>8 DEF sheet
<1>12. \A x \in full :
         LET k == AtClose(u, x)
             rows == Block(S, v, k)
         IN  SectionTells(Due(l, x),
                          Picked(rows, {q \in DOMAIN rows : rows[q].holds.of # NULL}),
                          Picked(rows, {q \in DOMAIN rows : rows[q].holds.of = NULL}),
                          S[v[k]].holds)
  BY <1>9 DEF SectionTold
<1>13. LedgerTells(l, full, u, v)
  BY <1>7, <1>10, <1>11, <1>12, ZenonT(90)
  DEF LedgerTells, AtClose, Block, ClosesSum, ClosesAt, NetSum
<1> QED
  BY <1>13 DEF u, v

\* The evidences stay apart, and every ledger is what was written of them.
LedgersInv == EvidencesApart(now, evidences) /\ \A l \in ledgers : LedgerHeld(l)

\* What was written so tells its months.
LEMMA LedgersTell == LedgersInv => LedgerTellsTheMonths
<1> SUFFICES ASSUME LedgersInv PROVE LedgerTellsTheMonths
  OBVIOUS
<1>1. ASSUME NEW l \in ledgers
      PROVE  /\ HeadingSpares(l)
             /\ \A full \in {FullOf(l)} :
                  LedgerTells(l, full, Upward(KeptOf(l, full)), Upward(PlainOf(l)))
  BY LedgerTold, HeadingSpared DEF LedgersInv
<1> QED
  BY <1>1 DEF LedgerTellsTheMonths, FullOf, KeptOf, PlainOf

\* The evidences of a settlement, in a ledger.
LEMMA EvidencesWritten ==
  ASSUME TypeOK, EvidencesApart(now, evidences), NEW s
  PROVE  Written(LedgerEvidences(s))
<1> DEFINE D == EvidencesOf(s)
           Copy(e) == [id |-> e, date |-> evidences[e].date,
                       created_at |-> evidences[e].created_at,
                       amount |-> evidences[e].amount, refund |-> evidences[e].refund,
                       group |-> evidences[e].group]
           copies == [e \in D |-> Copy(e)]
<1>1. D \subseteq Evidences /\ IsFiniteSet(D)
      /\ \A e \in D : evidences[e] # NULL /\ evidences[e].settlement = s
  BY FS_Subset, RecordsAssumption DEF EvidencesOf
<1>2. \A e \in D : evidences[e] \in EvidenceRow
  BY <1>1 DEF TypeOK, OnRecord
<1> HIDE DEF D
<1>3. LedgerEvidences(s) = {copies[e] : e \in D}
  BY DEF LedgerEvidences, D
<1>4. IsFiniteSet(LedgerEvidences(s))
  <2> HIDE DEF copies
  <2> QED
    BY <1>1, <1>3, ImageFinite
<1>5. ASSUME NEW e \in D
      PROVE  /\ copies[e].id = e /\ copies[e].created_at = evidences[e].created_at
             /\ copies[e].id \in Evidences
             /\ copies[e].date \in Int \cup {NULL} /\ copies[e].created_at \in Nat
             /\ copies[e].amount \in Int \cup {NULL} /\ copies[e].refund \in BOOLEAN
  <2>1. evidences[e] \in EvidenceRow /\ e \in Evidences
    BY <1>1, <1>2
  <2>2. /\ copies[e].id = e /\ copies[e].created_at = evidences[e].created_at
        /\ copies[e].date = evidences[e].date
        /\ copies[e].amount = evidences[e].amount /\ copies[e].refund = evidences[e].refund
    OBVIOUS
  <2> QED
    BY <2>1, <2>2 DEF EvidenceRow
<1> HIDE DEF copies
<1>6. ASSUME NEW e \in D, NEW f \in D, e # f
      PROVE  copies[e].created_at # copies[f].created_at
  BY <1>1, <1>5, <1>6 DEF EvidencesApart
<1>7. \A x \in LedgerEvidences(s) : \E e \in D : x = copies[e]
  BY <1>3
<1>8. \A x \in LedgerEvidences(s) :
        /\ x.id \in Evidences /\ x.date \in Int \cup {NULL} /\ x.created_at \in Nat
        /\ x.amount \in Int \cup {NULL} /\ x.refund \in BOOLEAN
  BY <1>5, <1>7
<1>9. \A x, y \in LedgerEvidences(s) : x # y => x.id # y.id /\ x.created_at # y.created_at
  BY <1>5, <1>6, <1>7
<1> QED
  BY <1>4, <1>8, <1>9 DEF Written

\* No ledger is written at first.
LEMMA InitLedgers == Init => LedgersInv
BY DocumentsAssumption DEF Init, LedgersInv

\* A new evidence is created later than all others, and no other step moves a
\* time of creation.
LEMMA ApartWritten ==
  ASSUME TypeOK, EvidencesApart(now, evidences), NEW r \in Requests,
         CommitUpload(r) \/ CommitAmend(r) \/ CommitDiscard(r)
  PROVE  EvidencesApart(now', evidences')
<1>1. now \in Nat /\ evidences \in [Evidences -> EvidenceRow \cup {NULL}] /\ NULL \notin EvidenceRow
  BY DocumentsAssumption DEF TypeOK, OnRecord
<1>2. \A e \in Evidences : evidences[e] # NULL =>
        /\ evidences[e].created_at \in Nat /\ evidences[e].created_at <= now
        /\ \A f \in Evidences \ {e} :
             evidences[f] # NULL /\ evidences[f].settlement = evidences[e].settlement =>
               evidences[f].created_at # evidences[e].created_at
  <2>1. ASSUME NEW e \in Evidences, evidences[e] # NULL PROVE evidences[e].created_at \in Nat
    <3>1. evidences[e] \in EvidenceRow
      BY <1>1, <2>1
    <3> QED
      BY <3>1 DEF EvidenceRow
  <2> QED
    BY <2>1 DEF EvidencesApart
<1>3. now' = now + 1
  BY DEF CommitUpload, CommitAmend, CommitDiscard, Tick
<1>4. CASE CommitUpload(r)
  <2>1. PICK e \in Evidences :
          /\ evidences[e] = NULL
          /\ evidences' = [evidences EXCEPT ![e] =
               [settlement |-> on[r], amount |-> NULL, refund |-> FALSE, date |-> NULL,
                group |-> NULL, file |-> TRUE, created_at |-> now + 1]]
    BY <1>4 DEF CommitUpload
  <2>2. /\ evidences'[e].created_at = now + 1
        /\ \A f \in Evidences \ {e} : evidences'[f] = evidences[f]
    BY <1>1, <2>1
  <2>3. \A f \in Evidences \ {e} : evidences'[f] # NULL =>
          evidences'[f].created_at \in Nat /\ evidences'[f].created_at <= now
    BY <1>2, <2>2
  <2>4. \A f \in Evidences : evidences'[f] # NULL => evidences'[f].created_at <= now'
    BY <1>1, <1>3, <2>2, <2>3
  <2>5. ASSUME NEW f \in Evidences, NEW g \in Evidences \ {f},
               evidences'[f] # NULL, evidences'[g] # NULL,
               evidences'[g].settlement = evidences'[f].settlement
        PROVE  evidences'[g].created_at # evidences'[f].created_at
    <3>1. CASE f = e
      BY <1>1, <2>2, <2>3, <2>5, <3>1
    <3>2. CASE g = e
      BY <1>1, <2>2, <2>3, <2>5, <3>2
    <3>3. CASE f # e /\ g # e
      BY <1>2, <2>2, <2>5, <3>3
    <3> QED
      BY <3>1, <3>2, <3>3
  <2> QED
    BY <2>4, <2>5 DEF EvidencesApart
<1>5. CASE CommitAmend(r) \/ CommitDiscard(r)
  <2>0. ASSUME NEW f \in Evidences
        PROVE  \/ evidences'[f] = NULL
               \/ /\ evidences[f] # NULL
                  /\ evidences'[f].created_at = evidences[f].created_at
                  /\ evidences'[f].settlement = evidences[f].settlement
    <3>1. CASE CommitAmend(r)
      <4>1. PICK amount \in world.amounts, refund \in BOOLEAN :
              evidences' = [evidences EXCEPT ![on[r]].amount = amount, ![on[r]].refund = refund]
        BY <3>1 DEF CommitAmend
      <4>2. on[r] \in Evidences /\ evidences[on[r]] # NULL
        BY <3>1 DEF CommitAmend, TypeOK, RequestOK
      <4>3. evidences[on[r]] \in EvidenceRow
        BY <1>1, <4>2
      <4>4. evidences' = [evidences EXCEPT ![on[r]] =
                           [evidences[on[r]] EXCEPT !.amount = amount, !.refund = refund]]
        BY <1>1, <4>1, <4>2
      <4>5. f = on[r] => evidences'[f] = [evidences[f] EXCEPT !.amount = amount, !.refund = refund]
        BY <1>1, <4>2, <4>4
      <4>6. f # on[r] => evidences'[f] = evidences[f]
        BY <1>1, <4>2, <4>4
      <4> QED
        BY <4>2, <4>3, <4>5, <4>6 DEF EvidenceRow
    <3>2. CASE CommitDiscard(r)
      <4>1. evidences' = [evidences EXCEPT ![on[r]] = NULL]
        BY <3>2 DEF CommitDiscard
      <4>2. evidences'[f] = NULL \/ evidences'[f] = evidences[f]
        BY <1>1, <4>1
      <4> QED
        BY <4>2
    <3> QED
      BY <1>5, <3>1, <3>2
  <2>1. ASSUME NEW f \in Evidences, evidences'[f] # NULL
        PROVE  evidences'[f].created_at <= now'
    BY <1>1, <1>2, <1>3, <2>0, <2>1
  <2>2. ASSUME NEW f \in Evidences, NEW g \in Evidences \ {f},
               evidences'[f] # NULL, evidences'[g] # NULL,
               evidences'[g].settlement = evidences'[f].settlement
        PROVE  evidences'[g].created_at # evidences'[f].created_at
    BY <1>2, <2>0, <2>2
  <2> QED
    BY <2>1, <2>2 DEF EvidencesApart
<1> QED
  BY <1>4, <1>5

\* A ledger is written of evidences that are apart, and stays.
LEMMA NextLedgers == TypeOK /\ LedgersInv /\ [Next]_vars => LedgersInv'
<1> SUFFICES ASSUME TypeOK, LedgersInv, [Next]_vars PROVE LedgersInv'
  OBVIOUS
<1>1. ASSUME NEW r \in Requests, WriteLedger(r) PROVE LedgersInv'
  <2>1. PICK s \in Stored, sheet \in world.templates, title \in world.titles :
          /\ Book!LedgerColumns(sheet) # {}
          /\ ledgers' = ledgers \cup
               {[settlement |-> s, template |-> sheet, title |-> title,
                 headed |-> Book!Headed(sheet, title), evidences |-> LedgerEvidences(s),
                 sections |-> Book!Sections(Book!Headed(sheet, title)),
                 sheet |-> Book!Fill(Book!Headed(sheet, title), Book!LedgerColumns(sheet),
                                     LedgerEvidences(s))]}
    BY <1>1 DEF WriteLedger
  <2> DEFINE l == [settlement |-> s, template |-> sheet, title |-> title,
                   headed |-> Book!Headed(sheet, title), evidences |-> LedgerEvidences(s),
                   sections |-> Book!Sections(Book!Headed(sheet, title)),
                   sheet |-> Book!Fill(Book!Headed(sheet, title), Book!LedgerColumns(sheet),
                                       LedgerEvidences(s))]
  <2>2. sheet \in Seq(TemplateRow) /\ title \in TitleText
    BY DocumentsAssumption DEF TypeOK
  <2>3. Written(LedgerEvidences(s))
    BY EvidencesWritten DEF LedgersInv
  <2>4. LedgerHeld(l)
    BY <2>1, <2>2, <2>3 DEF LedgerHeld
  <2>5. ledgers' = ledgers \cup {l}
    BY <2>1
  <2> HIDE DEF l
  <2>6. \A x \in ledgers' : LedgerHeld(x)
    BY <2>4, <2>5 DEF LedgersInv
  <2>7. now' = now /\ evidences' = evidences
    BY <1>1 DEF WriteLedger, tables
  <2> QED
    BY <2>6, <2>7 DEF LedgersInv
<1>2. ASSUME NEW r \in Requests, CommitUpload(r) \/ CommitAmend(r) \/ CommitDiscard(r)
      PROVE  LedgersInv'
  <2>1. ledgers' = ledgers
    BY <1>2 DEF CommitUpload, CommitAmend, CommitDiscard, papers
  <2>2. EvidencesApart(now', evidences')
    BY <1>2, ApartWritten DEF LedgersInv
  <2> QED
    BY <2>1, <2>2 DEF LedgersInv
<1>3. CASE ledgers' = ledgers /\ evidences' = evidences /\ (now' = now \/ now' = now + 1)
  <2>1. now \in Nat /\ evidences \in [Evidences -> EvidenceRow \cup {NULL}]
    BY DEF TypeOK, OnRecord
  <2>2. \A e \in Evidences : evidences[e] # NULL => evidences[e].created_at \in Nat
    <3>1. ASSUME NEW e \in Evidences, evidences[e] # NULL PROVE evidences[e].created_at \in Nat
      <4>1. evidences[e] \in EvidenceRow
        BY <2>1, <3>1
      <4> QED
        BY <4>1 DEF EvidenceRow
    <3> QED
      BY <3>1
  <2>3. EvidencesApart(now', evidences')
    BY <1>3, <2>1, <2>2 DEF LedgersInv, EvidencesApart
  <2> QED
    BY <1>3, <2>3 DEF LedgersInv
<1>4. ASSUME NEW r \in Requests,
             \/ LoadView(r) \/ CommitView(r) \/ LoadMove(r) \/ CommitMove(r) \/ File(r)
             \/ Remark(r) \/ Comment(r) \/ Reword(r) \/ Create(r)
             \/ LoadUpload(r) \/ LoadAmend(r) \/ Import(r) \/ Drop(r) \/ Preview(r)
      PROVE  ledgers' = ledgers /\ evidences' = evidences /\ (now' = now \/ now' = now + 1)
  BY <1>4 DEF LoadView, CommitView, LoadMove, CommitMove, File, Remark, Comment, Reword,
              Create, LoadUpload, LoadAmend, Import, Drop, Preview, tables, papers, Tick
<1>5. CASE UNCHANGED vars
  BY <1>3, <1>5 DEF vars, tables, papers
<1> QED
  BY <1>1, <1>2, <1>3, <1>4, <1>5 DEF Next

\* Every ledger tells the months it fills, for any template, any sections in it
\* and any evidences of the settlement, and comes to what these come to.
THEOREM LedgersTellTheMonths == Spec => []LedgerTellsTheMonths
BY InitType, NextType, InitLedgers, NextLedgers, LedgersTell, PTL DEF Spec

-----------------------------------------------------------------------------
(* The amount of a receipt, where a total stands on it.                     *)

LEMMA LeadsByHint ==
  ASSUME NEW found, NEW c, NEW d, c.hint, ~d.hint
  PROVE  Leads(found, c, d)
BY Zenon DEF Leads

LEMMA SameHint ==
  ASSUME NEW c, NEW d, c.hint \in BOOLEAN, d.hint \in BOOLEAN, c.hint, d.hint
  PROVE  c.hint = d.hint
BY Zenon

LEMMA LeadsByPoints ==
  ASSUME NEW found, found \subseteq Amounts, NEW c \in found, NEW d \in found, c.hint, d.hint,
         \/ Points(found, c) > Points(found, d)
         \/ Points(found, c) = Points(found, d) /\ Often(found, c) > Often(found, d)
         \/ /\ Points(found, c) = Points(found, d) /\ Often(found, c) = Often(found, d)
            /\ c.value > d.value
  PROVE  Leads(found, c, d)
<1>1. c.hint \in BOOLEAN /\ d.hint \in BOOLEAN
  BY DEF Amounts
<1>2. c.hint = d.hint
  BY <1>1, SameHint
<1> QED
  BY <1>2, Zenon DEF Leads

\* Every candidate is a number where it stands, one next to a label, or what
\* the cash comes to.
Placed(lines, payment, d) ==
  \E i \in DOMAIN lines :
    /\ Reader!Slip!Suspect(lines, i) => Around(lines, i, {"total"})
    /\ \E n \in Reader!Slip!Numbers(lines, i) : d = AtPlace(lines, payment, i, n)

Labels(lines, d) ==
  \E i \in DOMAIN lines :
    /\ lines[i].values = <<>> /\ Reader!Slip!Says(lines, i, {"total"})
    /\ \E j \in Reader!Slip!Reached(lines, i) :
         \E n \in Reader!Slip!Numbers(lines, j) : d = FromLabel(lines, i, j, n)

LEMMA ThreeKinds ==
  ASSUME NEW lines, NEW payment, NEW d \in Reader!Slip!Candidates(lines, payment)
  PROVE  \/ Placed(lines, payment, d) \/ Labels(lines, d)
         \/ Reader!Slip!CashTotal(lines) # NULL /\ d = ByCash(lines)
<1>1. ASSUME NEW i \in DOMAIN lines, d \in Reader!Slip!Direct(lines, payment, i)
      PROVE  Placed(lines, payment, d)
  <2>1. PICK n \in Reader!Slip!Numbers(lines, i) : d = AtPlace(lines, payment, i, n)
    BY <1>1, DirectIs
  <2>2. Reader!Slip!Suspect(lines, i) => Around(lines, i, {"total"})
    BY <1>1, DirectIs
  <2> QED
    BY <2>1, <2>2, Zenon DEF Placed
<1>2. ASSUME NEW i \in DOMAIN lines, d \in Reader!Slip!Nearby(lines, i)
      PROVE  Labels(lines, d)
  BY <1>2, LabelsNear, Zenon DEF Labels
<1> QED
  BY <1>1, <1>2, FoundIs

LEMMA ReachedIn == \A lines, i : Reader!Slip!Reached(lines, i) \subseteq DOMAIN lines
BY DEF Reader!Slip!Reached

\* Who is met with a number that stands nowhere else.
LEMMA SingleMet ==
  ASSUME NEW lines, Printed(lines), NEW payment, NEW i \in DOMAIN lines,
         NEW n \in DOMAIN lines[i].values, Reader!Slip!Single(lines, i, n),
         Reader!Slip!CashTotal(lines) # lines[i].values[n].n,
         NEW d \in Reader!Slip!Candidates(lines, payment), d.value = lines[i].values[n].n
  PROVE  \/ /\ d = AtPlace(lines, payment, i, n)
            /\ Reader!Slip!Suspect(lines, i) => Around(lines, i, {"total"})
         \/ \E t \in DOMAIN lines :
              /\ lines[t].values = <<>> /\ Reader!Slip!Says(lines, t, {"total"})
              /\ i \in Reader!Slip!Reached(lines, t) /\ d = FromLabel(lines, t, i, n)
<1>0. ASSUME NEW j \in DOMAIN lines, NEW m \in DOMAIN lines[j].values,
             lines[j].values[m].n = lines[i].values[n].n
      PROVE  j = i /\ m = n
  BY <1>0 DEF Reader!Slip!Single
<1>1. CASE Placed(lines, payment, d)
  <2>0. PICK j \in DOMAIN lines :
          /\ Reader!Slip!Suspect(lines, j) => Around(lines, j, {"total"})
          /\ \E m \in Reader!Slip!Numbers(lines, j) : d = AtPlace(lines, payment, j, m)
    BY <1>1, Zenon DEF Placed
  <2>1. PICK m \in Reader!Slip!Numbers(lines, j) : d = AtPlace(lines, payment, j, m)
    BY <2>0, Zenon
  <2>2. d.value = lines[j].values[m].n
    BY <2>1, PlaceHas
  <2>2a. m \in DOMAIN lines[j].values
    BY NumbersAre
  <2>3. j = i /\ m = n
    BY <1>0, <2>2, <2>2a
  <2> QED
    BY <2>0, <2>1, <2>3
<1>2. CASE Labels(lines, d)
  <2>1. PICK t \in DOMAIN lines :
          /\ lines[t].values = <<>> /\ Reader!Slip!Says(lines, t, {"total"})
          /\ \E j \in Reader!Slip!Reached(lines, t) :
               \E m \in Reader!Slip!Numbers(lines, j) : d = FromLabel(lines, t, j, m)
    BY <1>2, Zenon DEF Labels
  <2>1a. PICK j \in Reader!Slip!Reached(lines, t) : \E m \in Reader!Slip!Numbers(lines, j) :
          d = FromLabel(lines, t, j, m)
    BY <2>1, Zenon
  <2>2. PICK m \in Reader!Slip!Numbers(lines, j) : d = FromLabel(lines, t, j, m)
    BY <2>1a, Zenon
  <2>3. j \in DOMAIN lines
    BY ReachedIn
  <2>4. m \in DOMAIN lines[j].values /\ d.value = lines[j].values[m].n
    BY <2>2, <2>3, NumbersAre, LabelHas
  <2>5. j = i /\ m = n
    BY <1>0, <2>3, <2>4
  <2> QED
    BY <2>1, <2>2, <2>5
<1>3. CASE Reader!Slip!CashTotal(lines) # NULL /\ d = ByCash(lines)
  BY <1>3, CashHas
<1> QED
  BY <1>1, <1>2, <1>3, ThreeKinds

LEMMA MetOnce ==
  ASSUME NEW found, NEW d \in found, NEW e,
         \A x \in found : x.value = d.value => x = e
  PROVE  Often(found, d) = 1
<1>1. {x \in found : x.value = d.value} = {d}
  OBVIOUS
<1> QED
  BY <1>1, FS_Singleton, OftenIs

LEMMA OneMore ==
  ASSUME NEW S, IsFiniteSet(S), NEW x, x \notin S, NEW T, T = S \cup {x}
  PROVE  IsFiniteSet(T) /\ Cardinality(T) = Cardinality(S) + 1
BY FS_AddElement

LEMMA Two ==
  ASSUME NEW a, NEW b, a # b, NEW T, T = {a, b}
  PROVE  IsFiniteSet(T) /\ Cardinality(T) = 2
<1> DEFINE A == {a}
<1>1. IsFiniteSet(A) /\ Cardinality(A) = 1
  BY FS_Singleton
<1>2. b \notin A /\ T = A \cup {b}
  OBVIOUS
<1> HIDE DEF A
<1>3. IsFiniteSet(T) /\ Cardinality(T) = Cardinality(A) + 1
  BY <1>1, <1>2, OneMore
<1> QED
  BY <1>1, <1>3

LEMMA Three ==
  ASSUME NEW a, NEW b, NEW c, a # b, c # a, c # b, NEW T, T = {a, b, c}
  PROVE  IsFiniteSet(T) /\ Cardinality(T) = 3
<1> DEFINE A == {a, b}
<1>1. IsFiniteSet(A) /\ Cardinality(A) = 2
  BY Two
<1>2. c \notin A /\ T = A \cup {c}
  OBVIOUS
<1> HIDE DEF A
<1>3. IsFiniteSet(T) /\ Cardinality(T) = Cardinality(A) + 1
  BY <1>1, <1>2, OneMore
<1> QED
  BY <1>1, <1>3

LEMMA Smaller ==
  ASSUME NEW S, IsFiniteSet(S), NEW T, T \subseteq S, NEW n \in Int, Cardinality(T) = n
  PROVE  Cardinality(S) >= n /\ Cardinality(S) \in Nat
<1>1. T \in SUBSET S
  OBVIOUS
<1>2. Cardinality(T) <= Cardinality(S)
  BY <1>1, FS_Subset
<1>3. Cardinality(S) \in Nat
  BY FS_CardinalityType
<1> QED
  BY <1>2, <1>3

LEMMA MetTwiceAtMost ==
  ASSUME NEW found, NEW d \in found, NEW e, NEW f,
         \A x \in found : x.value = d.value => x = e \/ x = f
  PROVE  Often(found, d) <= 2
<1> DEFINE S == {x \in found : x.value = d.value}
<1>1. Often(found, d) = Cardinality(S)
  BY OftenIs
<1>2. S \subseteq {e, f} /\ S # {}
  OBVIOUS
<1>3. CASE e = f
  <2>1. S = {e}
    BY <1>2, <1>3
  <2>2. Cardinality(S) = 1
    <3> HIDE DEF S
    <3> QED
      BY <2>1, FS_Singleton
  <2> QED
    BY <1>1, <2>2
<1>4. CASE e # f
  <2>1. IsFiniteSet({e, f}) /\ Cardinality({e, f}) = 2
    BY <1>4, Two
  <2> HIDE DEF S
  <2>2. IsFiniteSet(S) /\ Cardinality(S) <= Cardinality({e, f})
    BY <1>2, <2>1, FS_Subset
  <2> QED
    BY <1>1, <2>1, <2>2
<1> QED
  BY <1>3, <1>4

LEMMA MetAgain ==
  ASSUME NEW found, IsFiniteSet(found), NEW c \in found, NEW d \in found, c # d,
         c.value = d.value
  PROVE  /\ Often(found, c) >= 2
         /\ \A e \in found : e # c /\ e # d /\ e.value = c.value => Often(found, c) >= 3
<1> DEFINE S == {x \in found : x.value = c.value}
<1>1. IsFiniteSet(S) /\ c \in S /\ d \in S
  BY FS_Subset
<1>2. Often(found, c) = Cardinality(S)
  BY OftenIs
<1>3. \A e \in found : e.value = c.value => e \in S
  OBVIOUS
<1> HIDE DEF S
<1>4. Cardinality(S) >= 2
  <2>1. {c, d} \subseteq S /\ Cardinality({c, d}) = 2
    BY <1>1, Two
  <2> QED
    BY <1>1, <2>1, Smaller
<1>5. ASSUME NEW e \in found, e # c, e # d, e.value = c.value PROVE Cardinality(S) >= 3
  <2>1. e \in S
    BY <1>3, <1>5
  <2> DEFINE T == {c, d, e}
  <2>2. T \subseteq S
    BY <1>1, <2>1
  <2>3. Cardinality(T) = 3
    BY <1>5, Three
  <2> HIDE DEF T
  <2> QED
    BY <1>1, <2>2, <2>3, Smaller
<1> QED
  BY <1>2, <1>4, <1>5

LEMMA PointsBound ==
  ASSUME NEW found, IsFiniteSet(found), found \subseteq Amounts, NEW c \in found
  PROVE  /\ Points(found, c) \in Int /\ c.score \in Int
         /\ Often(found, c) \in Int /\ Often(found, c) >= 1
         /\ Often(found, c) = 1 => Points(found, c) = c.score
         /\ Often(found, c) >= 2 => Points(found, c) >= c.score + 12
         /\ Often(found, c) >= 3 => Points(found, c) = c.score + 24
         /\ Often(found, c) <= 2 => Points(found, c) <= c.score + 12
         /\ Points(found, c) <= c.score + 24
<1>1. c.score \in Int
  BY DEF Amounts
<1>2. /\ Often(found, c) \in Nat \ {0} /\ Points(found, c) = c.score + Extra(found, c)
      /\ Extra(found, c) = IF Often(found, c) = 1 THEN 0
                           ELSE IF Often(found, c) = 2 THEN 12 ELSE 24
  BY PointsInt
<1> QED
  BY <1>1, <1>2

LEMMA HeightInt ==
  ASSUME NEW lines, Printed(lines), NEW i \in DOMAIN lines
  PROVE  Reader!Slip!Height(lines) \in Int /\ lines[i].top \in Int
<1> DEFINE f == [j \in DOMAIN lines |-> lines[j].bottom]
           S == {lines[j].bottom : j \in DOMAIN lines}
<1>1. \A j \in DOMAIN lines : lines[j].bottom \in Int /\ lines[j].top \in Int
  BY DEF Printed
<1>2. S = {f[j] : j \in DOMAIN lines}
  OBVIOUS
<1>3. S # {} /\ S \subseteq Int
  BY <1>1
<1>4. IsFiniteSet(S)
  <2> HIDE DEF f, S
  <2> QED
    BY <1>2, LinesAre, ImageFinite
<1>5. Reader!Slip!Max(S) \in Int
  <2> HIDE DEF S
  <2> QED
    BY <1>3, <1>4, SlipMax
<1> QED
  BY <1>1, <1>5 DEF Reader!Slip!Height

LEMMA BelowToo ==
  ASSUME NEW lines, Printed(lines), NEW i \in DOMAIN lines, NEW j \in DOMAIN lines,
         lines[i].top <= lines[j].top, Reader!Slip!Below(lines, i, 45)
  PROVE  Reader!Slip!Below(lines, j, 45)
<1>1. Reader!Slip!Height(lines) \in Int /\ lines[i].top \in Int /\ lines[j].top \in Int
  BY HeightInt
<1> QED
  BY <1>1 DEF Reader!Slip!Below

LEMMA MeritUp ==
  ASSUME NEW lines, Printed(lines), NEW s \in DOMAIN lines, NEW t \in DOMAIN lines,
         s <= t, lines[s].top <= lines[t].top, NEW n, NEW k,
         Around(lines, s, {"paid"}) => Around(lines, t, {"paid"}),
         Around(lines, s, {"won"}) => Around(lines, t, {"won"}),
         n >= 1000 => k >= 1000
  PROVE  /\ (n >= 10000 => k >= 10000) => Merit(lines, s, n) <= Merit(lines, t, k)
         /\ Merit(lines, s, n) <= Merit(lines, t, k) + 4
<1>1. Reader!Slip!Below(lines, s, 45) => Reader!Slip!Below(lines, t, 45)
  BY BelowToo
<1>2. s > Len(lines) - 5 => t > Len(lines) - 5
  BY LinesAre
<1> QED
  BY <1>1, <1>2 DEF Merit

\* A line that speaks for itself.
Clear(lines, t, paid) ==
  /\ paid >= 1000
  /\ \/ {"paid", "won"} \subseteq lines[t].words
     \/ Reader!Slip!Below(lines, t, 45) /\ lines[t].words \cap {"paid", "won"} # {}

LEMMA AroundIf ==
  ASSUME NEW lines, NEW t \in DOMAIN lines, NEW w, w \in lines[t].words
  PROVE  Around(lines, t, {w})
BY SaysIs DEF Around

LEMMA ClearMerit ==
  ASSUME NEW lines, NEW t \in DOMAIN lines, NEW paid \in Int, Clear(lines, t, paid)
  PROVE  Merit(lines, t, paid) >= 24
<1>1. "paid" \in lines[t].words => Around(lines, t, {"paid"})
  BY AroundIf
<1>2. "won" \in lines[t].words => Around(lines, t, {"won"})
  BY AroundIf
<1>3. "paid" \in lines[t].words \/ "won" \in lines[t].words
  BY DEF Clear
<1>4. \/ "paid" \in lines[t].words /\ "won" \in lines[t].words
      \/ Reader!Slip!Below(lines, t, 45)
  BY DEF Clear
<1>5. paid >= 1000
  BY DEF Clear
<1> QED
  BY <1>1, <1>2, <1>3, <1>4, <1>5 DEF Merit

TotalAt(lines, paid, t) ==
  /\ t \in Reader!Slip!Totals(lines)
  /\ Reader!Slip!Holds(lines[t], paid)
  /\ lines[t].words \cap {"tender", "received", "change"} = {}
  /\ \A s \in Reader!Slip!Totals(lines) \ {t} :
       /\ s < t /\ lines[s].top <= lines[t].top /\ lines[s].values # <<>>
       /\ {"paid", "won"} \subseteq lines[t].words
       /\ \A n \in DOMAIN lines[s].values : lines[s].values[n].n # paid =>
            /\ Reader!Slip!Single(lines, s, n)
            /\ \A size \in {1000, 10000} : lines[s].values[n].n >= size => paid >= size
  /\ \/ Clear(lines, t, paid)
     \/ \A s \in Reader!Slip!Totals(lines) : \A j \in {s - 1, s + 1} \cap DOMAIN lines :
          \A n \in DOMAIN lines[j].values :
            lines[j].values[n].n = paid \/ Reader!Slip!Single(lines, j, n)

LEMMA InLineAt ==
  ASSUME NEW lines, NEW paid, Reader!Slip!InLine(lines, paid)
  PROVE  \E t : TotalAt(lines, paid, t)
BY DEF Reader!Slip!InLine, TotalAt, Clear

LEMMA TotalsAre ==
  ASSUME NEW lines, NEW i
  PROVE  i \in Reader!Slip!Totals(lines) <=> Reader!Slip!Says(lines, i, {"total"})
BY SaysIs DEF Reader!Slip!Totals

LEMMA HoldsIs ==
  ASSUME NEW lines, Printed(lines), NEW i \in DOMAIN lines, NEW n, Reader!Slip!Holds(lines[i], n)
  PROVE  /\ n \in Nat /\ Len(lines[i].values) = 1 /\ lines[i].values[1].n = n
         /\ DOMAIN lines[i].values = {1} /\ 1 \in Reader!Slip!Numbers(lines, i)
         /\ lines[i].values # <<>>
<1>1. Len(lines[i].values) = 1 /\ lines[i].values[1].n = n /\ lines[i].values[1].digits < 9
  BY DEF Reader!Slip!Holds
<1>2. DOMAIN lines[i].values = {1}
  BY <1>1, LinesAre
<1>3. i \in Spoken(lines)
  BY <1>1, LargestOne
<1> QED
  BY <1>1, <1>2, <1>3, LinesAre DEF Reader!Slip!Numbers, Spoken

\* Every total has a number, and so there is nothing next to it.
LEMMA NoLabels ==
  ASSUME NEW lines, Printed(lines), NEW paid, NEW t, TotalAt(lines, paid, t), NEW d
  PROVE  ~Labels(lines, d)
<1>1. lines[t].values # <<>>
  BY HoldsIs DEF TotalAt, Reader!Slip!Totals
<1>2. \A s \in Reader!Slip!Totals(lines) : lines[s].values # <<>>
  BY <1>1 DEF TotalAt
<1> QED
  BY <1>2, TotalsAre DEF Labels

LEMMA CashAtTotal ==
  ASSUME NEW lines, Printed(lines), NEW paid, NEW t, TotalAt(lines, paid, t)
  PROVE  Reader!Slip!CashTotal(lines) = paid
<1>1. t \in DOMAIN lines /\ Len(lines[t].values) = 1 /\ lines[t].values[1].n = paid
  BY HoldsIs DEF TotalAt, Reader!Slip!Totals
<1>2. t \in Spoken(lines) /\ Largest(lines, t) = paid
  BY <1>1, LargestOne
<1>3. t \notin Given(lines) /\ t \notin Back(lines)
  <2>1. "received" \notin lines[t].words /\ "change" \notin lines[t].words
    BY DEF TotalAt
  <2> QED
    BY <2>1, SaysIs DEF Given, Back
<1>4. t \in Summed(lines) /\ Summed(lines) \subseteq Spoken(lines)
  BY <1>2, <1>3, TotalsAre DEF Summed, TotalAt
<1>5. \A s \in Summed(lines) : s \in Reader!Slip!Totals(lines)
  BY TotalsAre DEF Summed
<1>6. \A s \in Summed(lines) : s = t \/ s < t
  BY <1>5 DEF TotalAt
<1>7. Reader!Slip!Max(Summed(lines)) \in Summed(lines) /\ t <= Reader!Slip!Max(Summed(lines))
  BY <1>4, LastIn
<1>8. Reader!Slip!Max(Summed(lines)) = t
  <2>1. Summed(lines) \subseteq Int
    BY LinesAre DEF Summed, Spoken
  <2> QED
    BY <1>4, <1>6, <1>7, <2>1
<1>9. LastOf(lines, Summed(lines)) = paid
  BY <1>2, <1>8 DEF LastOf
<1> QED
  BY <1>4, <1>9, CashIs

LEMMA PlaceFound ==
  ASSUME NEW lines, NEW payment, NEW i \in DOMAIN lines, NEW n \in Reader!Slip!Numbers(lines, i),
         Around(lines, i, {"total"})
  PROVE  AtPlace(lines, payment, i, n) \in Reader!Slip!Candidates(lines, payment)
<1>1. AtPlace(lines, payment, i, n) \in Reader!Slip!Direct(lines, payment, i)
  BY DirectIs
<1> QED
  BY <1>1, FoundIs

LEMMA CashFound ==
  ASSUME NEW lines, NEW payment, Reader!Slip!CashTotal(lines) # NULL
  PROVE  ByCash(lines) \in Reader!Slip!Candidates(lines, payment)
BY FoundIs

LEMMA NatNoNull == ASSUME NEW n \in Int PROVE n # NULL
BY NullNoNumber

\* What a number of its own comes to where nothing is next to a label.
LEMMA AloneMet ==
  ASSUME NEW lines, Printed(lines), NEW payment, NEW i \in DOMAIN lines,
         NEW n \in DOMAIN lines[i].values, Reader!Slip!Single(lines, i, n),
         Reader!Slip!CashTotal(lines) # lines[i].values[n].n, \A d : ~Labels(lines, d),
         NEW d \in Reader!Slip!Candidates(lines, payment), d = AtPlace(lines, payment, i, n)
  PROVE  Often(Reader!Slip!Candidates(lines, payment), d) = 1
<1> DEFINE found == Reader!Slip!Candidates(lines, payment)
<1>1. d.value = lines[i].values[n].n
  BY PlaceHas
<1>2. ASSUME NEW x \in found, x.value = d.value PROVE x = d
  <2>1. \/ x = d
        \/ \E t \in DOMAIN lines :
              /\ lines[t].values = <<>> /\ Reader!Slip!Says(lines, t, {"total"})
              /\ i \in Reader!Slip!Reached(lines, t) /\ x = FromLabel(lines, t, i, n)
    BY <1>1, <1>2, SingleMet
  <2>2. Placed(lines, payment, x) \/ x = ByCash(lines)
    BY <1>2, ThreeKinds
  <2>3. CASE Placed(lines, payment, x)
    <3>1. PICK j \in DOMAIN lines :
            \E m \in Reader!Slip!Numbers(lines, j) : x = AtPlace(lines, payment, j, m)
      BY <2>3, Zenon DEF Placed
    <3>2. PICK m \in Reader!Slip!Numbers(lines, j) : x = AtPlace(lines, payment, j, m)
      BY <3>1, Zenon
    <3>3. x.value = lines[j].values[m].n
      BY <3>2, PlaceHas
    <3>4. m \in DOMAIN lines[j].values
      BY NumbersAre
    <3>5. j = i /\ m = n
      BY <1>1, <1>2, <3>3, <3>4 DEF Reader!Slip!Single
    <3> QED
      BY <3>2, <3>5
  <2>4. CASE x = ByCash(lines)
    BY <1>1, <1>2, <2>4, CashHas
  <2> QED
    BY <2>2, <2>3, <2>4
<1> HIDE DEF found
<1>3. d \in found
  BY DEF found
<1>4. Often(found, d) = 1
  BY <1>2, <1>3, MetOnce
<1> QED
  BY <1>4 DEF found

\* The amount that stands in the line of the last total.
LEMMA InLineRead ==
  ASSUME NEW lines, Printed(lines), NEW payment, NEW paid,
         Reader!Slip!InLine(lines, paid)
  PROVE  Reader!Slip!AmountOf(lines, payment) = paid
<1> DEFINE found == Reader!Slip!Candidates(lines, payment)
<1>0. IsFiniteSet(found) /\ found \subseteq Amounts
  BY FoundFinite, FoundType
<1>1. PICK t : TotalAt(lines, paid, t)
  BY InLineAt
<1>2. t \in DOMAIN lines /\ Reader!Slip!Says(lines, t, {"total"})
  BY <1>1, TotalsAre DEF TotalAt, Reader!Slip!Totals
<1>3. /\ paid \in Nat /\ Len(lines[t].values) = 1 /\ lines[t].values[1].n = paid
      /\ DOMAIN lines[t].values = {1} /\ 1 \in Reader!Slip!Numbers(lines, t)
  BY <1>1, <1>2, HoldsIs DEF TotalAt
<1> DEFINE there == AtPlace(lines, payment, t, 1)
           high == Merit(lines, t, paid)
<1>4. there \in found
  <2>1. Around(lines, t, {"total"})
    BY <1>2, Zenon DEF Around
  <2> QED
    BY <1>2, <1>3, <2>1, PlaceFound
<1>5. there.value = paid /\ there.at = t /\ there.hint
  <2>1. Around(lines, t, {"total"})
    BY <1>2, Zenon DEF Around
  <2> QED
    BY <1>3, <2>1, PlaceHas
<1>6. there.score = 84 + high
  <2>1. ~Reader!Slip!Says(lines, t, {"tender"})
    BY <1>1, SaysIs DEF TotalAt
  <2>2. there.score = Reader!Slip!DirectScore(lines, payment, t, 1)
    BY PlaceHas
  <2> HIDE DEF there
  <2> QED
    BY <1>2, <1>3, <2>1, <2>2, DirectScoreIs
<1>7. Reader!Slip!CashTotal(lines) = paid /\ paid # NULL
  BY <1>1, <1>3, CashAtTotal, NatNoNull
<1>8. ByCash(lines) \in found /\ ByCash(lines).value = paid /\ ByCash(lines).at = 0
  BY <1>7, CashFound, CashHas
<1>9. t # 0
  BY <1>2, LinesAre
<1> HIDE DEF found, there
<1>10. there # ByCash(lines)
  BY <1>5, <1>8, <1>9
<1>11. Often(found, there) >= 2
  BY <1>0, <1>4, <1>5, <1>8, <1>10, MetAgain
<1>12. high \in 0 .. 42
  BY MeritIs
<1> HIDE DEF high
<1>13. Points(found, there) \in Int /\ Points(found, there) >= 96 + high
  BY <1>0, <1>4, <1>6, <1>11, <1>12, PointsBound
<1>14. \A d : ~Labels(lines, d)
  BY <1>1, NoLabels
<1>15. ASSUME NEW d \in found, d.value # paid PROVE Leads(found, there, d)
  <2>0. Placed(lines, payment, d)
    BY <1>7, <1>14, <1>15, ThreeKinds, CashHas DEF found
  <2>1. PICK i \in DOMAIN lines : \E m \in Reader!Slip!Numbers(lines, i) :
          d = AtPlace(lines, payment, i, m)
    BY <2>0, Zenon DEF Placed
  <2>2. PICK n \in Reader!Slip!Numbers(lines, i) : d = AtPlace(lines, payment, i, n)
    BY <2>1, Zenon
  <2> DEFINE v == lines[i].values[n].n
  <2>3. n \in DOMAIN lines[i].values /\ v \in Nat
    BY NumbersAre
  <2>4. /\ d.value = v /\ d.score = Reader!Slip!DirectScore(lines, payment, i, n)
        /\ d.hint <=> Around(lines, i, {"total"})
    BY <2>2, PlaceHas
  <2>5. CASE ~d.hint
    BY <1>5, <2>5, LeadsByHint
  <2>6. CASE d.hint /\ Reader!Slip!Says(lines, i, {"total"})
    <3>1. i \in Reader!Slip!Totals(lines) \ {t}
      <4>1. i # t
        BY <1>3, <1>15, <2>3, <2>4
      <4> QED
        BY <2>6, <4>1, TotalsAre
    <3>2. /\ i < t /\ lines[i].top <= lines[t].top
          /\ "paid" \in lines[t].words /\ "won" \in lines[t].words
      BY <1>1, <3>1 DEF TotalAt
    <3>3. Reader!Slip!Single(lines, i, n) /\ (v >= 1000 => paid >= 1000)
          /\ (v >= 10000 => paid >= 10000)
      BY <1>1, <1>15, <2>3, <2>4, <3>1 DEF TotalAt
    <3>4. Often(found, d) = 1
      BY <1>7, <1>14, <1>15, <2>2, <2>3, <2>4, <3>3, AloneMet DEF found
    <3>5. Around(lines, t, {"paid"}) /\ Around(lines, t, {"won"})
      BY <1>2, <3>2, AroundIf
    <3>6. i <= t
      BY <1>2, <3>2, LinesAre
    <3>7. Merit(lines, i, v) <= high
      <4> HIDE DEF v
      <4> QED
        BY <1>2, <3>2, <3>3, <3>5, <3>6, MeritUp DEF high
    <3>8. d.score <= 84 + Merit(lines, i, v)
      BY <2>4, <2>6, DirectScoreIs
    <3>9. Points(found, d) = d.score /\ d.score \in Int
      BY <1>0, <1>15, <3>4, PointsBound
    <3>10. Merit(lines, i, v) \in Int
      BY MeritIs
    <3> HIDE DEF v
    <3>11. Points(found, there) > Points(found, d)
      BY <1>12, <1>13, <3>7, <3>8, <3>9, <3>10
    <3> QED
      BY <1>0, <1>4, <1>5, <1>15, <2>6, <3>11, LeadsByPoints
  <2>7. CASE d.hint /\ ~Reader!Slip!Says(lines, i, {"total"})
    <3>1. Beside(lines, i)
      BY <2>4, <2>7 DEF Around, Beside
    <3>2. d.score <= 50 + Merit(lines, i, v)
      BY <2>4, <2>7, <3>1, DirectScoreIs
    <3>3. Merit(lines, i, v) \in 0 .. 42
      BY MeritIs
    <3>4. d.score <= 92
      <4> HIDE DEF v
      <4>1. d.score \in Int
        BY <1>0, <1>15, PointsBound
      <4> QED
        BY <3>2, <3>3, <4>1
    <3>5. CASE Clear(lines, t, paid)
      <4>1. high >= 24
        BY <1>2, <1>3, <3>5, ClearMerit DEF high
      <4>2. Points(found, d) <= d.score + 24 /\ d.score \in Int /\ Points(found, d) \in Int
        BY <1>0, <1>15, PointsBound
      <4>3. Points(found, there) > Points(found, d)
        BY <1>12, <1>13, <3>4, <4>1, <4>2
      <4> QED
        BY <1>0, <1>4, <1>5, <1>15, <2>7, <4>3, LeadsByPoints
    <3>6. CASE ~Clear(lines, t, paid)
      <4>1. PICK s \in Reader!Slip!Totals(lines) : i = s - 1 \/ i = s + 1
        <5>1. i \in Int
          BY LinesAre
        <5>2. i - 1 \in Reader!Slip!Totals(lines) \/ i + 1 \in Reader!Slip!Totals(lines)
          BY <3>1, TotalsAre DEF Beside
        <5>3. (i - 1) + 1 = i /\ (i + 1) - 1 = i
          BY <5>1
        <5> QED
          BY <5>2, <5>3
      <4>2. Reader!Slip!Single(lines, i, n)
        <5>1. i \in {s - 1, s + 1} \cap DOMAIN lines
          BY <4>1
        <5>2. \A m \in DOMAIN lines[i].values :
                lines[i].values[m].n = paid \/ Reader!Slip!Single(lines, i, m)
          <6>1. \A k \in Reader!Slip!Totals(lines) : \A j \in {k - 1, k + 1} \cap DOMAIN lines :
                  \A m \in DOMAIN lines[j].values :
                    lines[j].values[m].n = paid \/ Reader!Slip!Single(lines, j, m)
            BY <1>1, <3>6, Zenon DEF TotalAt
          <6> QED
            BY <5>1, <6>1, Zenon
        <5> QED
          BY <1>15, <2>3, <2>4, <5>2
      <4>3. Often(found, d) = 1
        BY <1>7, <1>14, <1>15, <2>2, <2>3, <2>4, <4>2, AloneMet DEF found
      <4>4. Points(found, d) = d.score /\ d.score \in Int
        BY <1>0, <1>15, <4>3, PointsBound
      <4>5. Points(found, there) > Points(found, d)
        BY <1>12, <1>13, <3>4, <4>4
      <4> QED
        BY <1>0, <1>4, <1>5, <1>15, <2>7, <4>5, LeadsByPoints
    <3> QED
      BY <3>5, <3>6
  <2> QED
    BY <2>5, <2>6, <2>7
<1>16. \A d \in found : d.value # paid => \E c \in found : Leads(found, c, d)
  BY <1>4, <1>15
<1>17. found # {}
  BY <1>4
<1> QED
  BY <1>0, <1>16, <1>17, AmountWins DEF found

BelowAt(lines, paid, t) ==
  /\ Reader!Slip!Totals(lines) = {t} /\ lines[t].values = <<>> /\ "won" \notin lines[t].words
  /\ t + 1 \in DOMAIN lines /\ Reader!Slip!Close(lines, t, t + 1)
  /\ Reader!Slip!Holds(lines[t + 1], paid) /\ paid >= 1000
  /\ lines[t + 1].words \cap {"item", "tender"} = {}
  /\ Reader!Slip!CashTotal(lines) \in {NULL, paid}
  /\ \A j \in DOMAIN lines : \A n \in DOMAIN lines[j].values :
       lines[j].values[n].n = paid \/ Reader!Slip!Single(lines, j, n)
  /\ \A j \in {t - 2, t - 1} \cap DOMAIN lines :
       /\ lines[j].words \cap {"paid", "won"} = {} /\ lines[j].top <= lines[t + 1].top
       /\ j = t - 1 => \A n \in DOMAIN lines[j].values :
                         lines[j].values[n].n < 10000 \/ lines[j].values[n].n <= paid
  /\ t + 2 \in DOMAIN lines /\ lines[t + 2].values # <<>> =>
       \/ Reader!Slip!Below(lines, t + 1, 45) \/ Reader!Slip!CashTotal(lines) = paid
       \/ Reader!Slip!Suspect(lines, t + 2)

LEMMA BelowLabelAt ==
  ASSUME NEW lines, NEW paid, Reader!Slip!BelowLabel(lines, paid)
  PROVE  \E t : BelowAt(lines, paid, t)
BY DEF Reader!Slip!BelowLabel, BelowAt

\* What the lines about the label are.
LEMMA AboutLabel ==
  ASSUME NEW lines, Printed(lines), NEW paid, NEW t, BelowAt(lines, paid, t)
  PROVE  /\ t \in DOMAIN lines /\ t + 1 \in DOMAIN lines /\ t \in Int /\ t >= 1
         /\ \A i : Reader!Slip!Says(lines, i, {"total"}) <=> i = t
         /\ paid \in Nat /\ paid >= 1000
         /\ Len(lines[t + 1].values) = 1 /\ lines[t + 1].values[1].n = paid
         /\ DOMAIN lines[t + 1].values = {1} /\ 1 \in Reader!Slip!Numbers(lines, t + 1)
         /\ DOMAIN lines[t].values = {}
         /\ t + 1 \in Reader!Slip!Reached(lines, t)
         /\ ~Reader!Slip!Says(lines, t + 1, {"item"}) /\ ~Reader!Slip!Says(lines, t + 1, {"tender"})
<1>1. Reader!Slip!Totals(lines) = {t} /\ t + 1 \in DOMAIN lines
      /\ Reader!Slip!Holds(lines[t + 1], paid) /\ paid >= 1000 /\ lines[t].values = <<>>
  BY DEF BelowAt
<1>2. t \in DOMAIN lines
  BY <1>1 DEF Reader!Slip!Totals
<1>3. t \in Int /\ t >= 1
  BY <1>2, LinesAre
<1>4. \A i : Reader!Slip!Says(lines, i, {"total"}) <=> i = t
  BY <1>1, TotalsAre
<1>5. /\ paid \in Nat /\ Len(lines[t + 1].values) = 1 /\ lines[t + 1].values[1].n = paid
      /\ DOMAIN lines[t + 1].values = {1} /\ 1 \in Reader!Slip!Numbers(lines, t + 1)
  BY <1>1, HoldsIs
<1>6. DOMAIN lines[t].values = {}
  BY <1>1
<1>7. t + 1 \in Reader!Slip!Reached(lines, t)
  <2>1. Reader!Slip!Close(lines, t, t + 1)
    BY DEF BelowAt
  <2>2. \A k \in t + 1 .. t + 1 : Reader!Slip!Close(lines, t, k)
    BY <1>3, <2>1
  <2> QED
    BY <1>1, <1>3, <2>2 DEF Reader!Slip!Reached
<1>8. "item" \notin lines[t + 1].words /\ "tender" \notin lines[t + 1].words
  <2>1. lines[t + 1].words \cap {"item", "tender"} = {}
    BY SMT DEF BelowAt
  <2> QED
    BY <2>1
<1>9. ~Reader!Slip!Says(lines, t + 1, {"item"}) /\ ~Reader!Slip!Says(lines, t + 1, {"tender"})
  BY <1>8, SaysIs
<1> QED
  BY <1>1, <1>2, <1>3, <1>4, <1>5, <1>6, <1>7, <1>9

\* The two candidates that stand for the amount.
LEMMA BelowStands ==
  ASSUME NEW lines, Printed(lines), NEW payment, NEW paid, NEW t, BelowAt(lines, paid, t),
         NEW found, found = Reader!Slip!Candidates(lines, payment)
  PROVE  LET near == FromLabel(lines, t, t + 1, 1)
             there == AtPlace(lines, payment, t + 1, 1)
             low == IF Reader!Slip!Below(lines, t + 1, 45) THEN 10 ELSE 0
         IN  /\ near \in found /\ near.value = paid /\ near.hint
             /\ there \in found /\ there.value = paid /\ there.hint
             /\ Points(found, near) >= 88 + low
             /\ Reader!Slip!CashTotal(lines) = paid => Points(found, near) >= 100
             /\ Often(found, there) >= 2
             /\ Points(found, there) >= 62 + Merit(lines, t + 1, paid)
<1> DEFINE near == FromLabel(lines, t, t + 1, 1)
           there == AtPlace(lines, payment, t + 1, 1)
           low == IF Reader!Slip!Below(lines, t + 1, 45) THEN 10 ELSE 0
           high == Merit(lines, t + 1, paid)
<1>0. IsFiniteSet(found) /\ found \subseteq Amounts
  BY FoundFinite, FoundType
<1>1. /\ t \in DOMAIN lines /\ t + 1 \in DOMAIN lines /\ t \in Int /\ t >= 1
      /\ Reader!Slip!Says(lines, t, {"total"}) /\ ~Reader!Slip!Says(lines, t + 1, {"total"})
      /\ paid \in Nat /\ paid >= 1000
      /\ Len(lines[t + 1].values) = 1 /\ lines[t + 1].values[1].n = paid
      /\ 1 \in Reader!Slip!Numbers(lines, t + 1) /\ t + 1 \in Reader!Slip!Reached(lines, t)
      /\ ~Reader!Slip!Says(lines, t + 1, {"item"}) /\ ~Reader!Slip!Says(lines, t + 1, {"tender"})
  BY AboutLabel
<1>2. Around(lines, t + 1, {"total"})
  <2>1. t \in {(t + 1) - 1, t + 1, (t + 1) + 1}
    BY <1>1
  <2> QED
    BY <1>1, <2>1, Zenon DEF Around
<1>3. there \in found
  BY <1>1, <1>2, PlaceFound
<1>4. there.value = paid /\ there.by = t + 1 /\ there.at = t + 1 /\ there.hint
      /\ there.score = Reader!Slip!DirectScore(lines, payment, t + 1, 1)
  BY <1>1, <1>2, PlaceHas
<1>5. near \in found
  <2>1. lines[t].values = <<>>
    BY DEF BelowAt
  <2>2. near \in Reader!Slip!Nearby(lines, t)
    BY <1>1, <2>1, NearbyIs
  <2> QED
    BY <1>1, <2>2, FoundIs
<1>6. near.value = paid /\ near.by = t /\ near.at = t + 1 /\ near.hint
      /\ near.score = NearScore(lines, t, t + 1, 1)
  BY <1>1, LabelHas
<1>7. near.score = 76 + low
  <2>1. NearScore(lines, t, t + 1, 1) = 76 + low
    BY <1>1 DEF NearScore
  <2> QED
    BY <1>6, <2>1
<1>8. there.score = 50 + high
  <2>1. (t + 1) - 1 = t
    BY <1>1
  <2>2. Beside(lines, t + 1)
    BY <1>1, <2>1 DEF Beside
  <2> HIDE DEF there
  <2> QED
    BY <1>1, <1>4, <2>2, DirectScoreIs
<1>9. high \in 0 .. 42 /\ low \in {0, 10}
  BY MeritIs
<1>10. Reader!Slip!CashTotal(lines) = paid =>
         ByCash(lines) \in found /\ ByCash(lines).value = paid /\ ByCash(lines).at = 0
  BY <1>1, CashFound, CashHas, NatNoNull
<1> HIDE DEF near, there, low, high
<1>11. near # there
  BY <1>1, <1>4, <1>6
<1>12. Often(found, near) >= 2 /\ Often(found, there) >= 2
  BY <1>0, <1>3, <1>4, <1>5, <1>6, <1>11, MetAgain
<1>13. ASSUME Reader!Slip!CashTotal(lines) = paid PROVE Often(found, near) >= 3
  <2>1. ByCash(lines) # near /\ ByCash(lines) # there
    BY <1>1, <1>4, <1>6, <1>10, <1>13
  <2>2. ByCash(lines) \in found /\ ByCash(lines).value = near.value
    BY <1>6, <1>10, <1>13
  <2> QED
    BY <1>0, <1>3, <1>4, <1>5, <1>6, <1>11, <2>1, <2>2, MetAgain
<1>14. Points(found, near) \in Int /\ Points(found, near) >= 88 + low
  BY <1>0, <1>5, <1>7, <1>9, <1>12, PointsBound
<1>15. Reader!Slip!CashTotal(lines) = paid => Points(found, near) >= 100
  BY <1>0, <1>5, <1>7, <1>9, <1>13, PointsBound
<1>16. Points(found, there) >= 62 + high
  BY <1>0, <1>3, <1>8, <1>9, <1>12, PointsBound
<1> QED
  BY <1>3, <1>4, <1>5, <1>6, <1>12, <1>14, <1>15, <1>16 DEF near, there, low, high

LEMMA NearScoreIs ==
  ASSUME NEW lines, NEW t \in Int, NEW j \in Int, NEW n
  PROVE  LET low == IF Reader!Slip!Below(lines, j, 45) THEN 10 ELSE 0
         IN  /\ j = t - 1 => NearScore(lines, t, j, n) <= 72 + low
             /\ j = t - 2 => NearScore(lines, t, j, n) <= 66 + low
             /\ j = t + 2 => NearScore(lines, t, j, n) <= 70 + low
             /\ NearScore(lines, t, j, n) \in Int
BY DEF NearScore

\* A number of its own next to the label is met twice at most.
LEMMA OwnMet ==
  ASSUME NEW lines, Printed(lines), NEW payment, NEW paid, NEW t, BelowAt(lines, paid, t),
         NEW found, found = Reader!Slip!Candidates(lines, payment),
         NEW i \in DOMAIN lines, NEW n \in DOMAIN lines[i].values,
         NEW d \in found, d.value = lines[i].values[n].n, d.value # paid
  PROVE  /\ Often(found, d) <= 2
         /\ Reader!Slip!Suspect(lines, i) /\ ~Around(lines, i, {"total"}) => Often(found, d) = 1
<1>1. Reader!Slip!Single(lines, i, n)
  <2>1. \A j \in DOMAIN lines : \A m \in DOMAIN lines[j].values :
          lines[j].values[m].n = paid \/ Reader!Slip!Single(lines, j, m)
    BY DEF BelowAt
  <2> QED
    BY <2>1
<1>2. \A x : Reader!Slip!Says(lines, x, {"total"}) <=> x = t
  BY AboutLabel
<1>3. Reader!Slip!CashTotal(lines) # d.value
  <2>1. Reader!Slip!CashTotal(lines) \in {NULL, paid}
    BY DEF BelowAt
  <2>2. d.value # NULL
    BY LinesAre, NatNoNull
  <2> QED
    BY <2>1, <2>2
<1>4. ASSUME NEW x \in found, x.value = d.value
      PROVE  \/ /\ x = AtPlace(lines, payment, i, n)
                /\ Reader!Slip!Suspect(lines, i) => Around(lines, i, {"total"})
             \/ x = FromLabel(lines, t, i, n)
  BY <1>1, <1>2, <1>3, <1>4, SingleMet
<1>5. Often(found, d) <= 2
  BY <1>4, MetTwiceAtMost
<1>6. ASSUME Reader!Slip!Suspect(lines, i), ~Around(lines, i, {"total"}) PROVE Often(found, d) = 1
  <2>1. \A x \in found : x.value = d.value => x = FromLabel(lines, t, i, n)
    BY <1>4, <1>6
  <2> QED
    BY <2>1, MetOnce
<1> QED
  BY <1>5, <1>6

\* The price above the label, where it stands.
LEMMA PriceStands ==
  ASSUME NEW lines, Printed(lines), NEW paid, NEW t, BelowAt(lines, paid, t),
         t - 1 \in DOMAIN lines, NEW v \in Nat
  PROVE  LET low == IF Reader!Slip!Below(lines, t + 1, 45) THEN 10 ELSE 0
         IN  /\ v >= 10000 /\ v <= paid
                  => Merit(lines, t - 1, v) <= Merit(lines, t + 1, paid)
             /\ v < 10000 => Merit(lines, t - 1, v) <= 22 + low
<1>1. /\ t \in DOMAIN lines /\ t + 1 \in DOMAIN lines /\ t \in Int /\ t >= 1
      /\ paid \in Nat /\ paid >= 1000
  BY AboutLabel
<1>2. \A j \in {t - 2, t - 1} \cap DOMAIN lines :
        lines[j].words \cap {"paid", "won"} = {} /\ lines[j].top <= lines[t + 1].top
  BY DEF BelowAt
<1>3. ASSUME NEW j \in {t - 2, t - 1} \cap DOMAIN lines
      PROVE  "paid" \notin lines[j].words /\ "won" \notin lines[j].words
  BY <1>2, <1>3
<1>4. ~Reader!Slip!Says(lines, t - 2, {"paid"}) /\ ~Reader!Slip!Says(lines, t - 2, {"won"})
  BY <1>3, SaysIs
<1>5. ~Reader!Slip!Says(lines, t - 1, {"paid"}) /\ ~Reader!Slip!Says(lines, t - 1, {"won"})
  BY <1>3, SaysIs
<1>6. ~Reader!Slip!Says(lines, t, {"won"})
  <2>1. "won" \notin lines[t].words
    BY DEF BelowAt
  <2> QED
    BY <2>1, SaysIs
<1>7. (t - 1) - 1 = t - 2 /\ (t - 1) + 1 = t /\ (t + 1) - 1 = t
  BY <1>1
<1>8. ~Around(lines, t - 1, {"won"})
  BY <1>4, <1>5, <1>6, <1>7 DEF Around
<1>9. Around(lines, t - 1, {"paid"}) => Around(lines, t + 1, {"paid"})
  BY <1>4, <1>5, <1>7 DEF Around
<1>10. lines[t - 1].top <= lines[t + 1].top
  BY <1>2
<1>11. t - 1 <= t + 1
  BY <1>1
<1>12. v >= 10000 /\ v <= paid => Merit(lines, t - 1, v) <= Merit(lines, t + 1, paid)
  <2>1. v >= 1000 => paid >= 1000
    BY <1>1
  <2>2. v <= paid => (v >= 10000 => paid >= 10000)
    BY <1>1
  <2> QED
    BY <1>1, <1>8, <1>9, <1>10, <1>11, <2>1, <2>2, MeritUp
<1>13. Reader!Slip!Below(lines, t - 1, 45) => Reader!Slip!Below(lines, t + 1, 45)
  BY <1>1, <1>10, BelowToo
<1>14. v < 10000 => Merit(lines, t - 1, v)
                      <= 22 + (IF Reader!Slip!Below(lines, t + 1, 45) THEN 10 ELSE 0)
  BY <1>8, <1>13 DEF Merit
<1> QED
  BY <1>12, <1>14

\* The amount that stands below its label.
LEMMA BelowLabelRead ==
  ASSUME NEW lines, Printed(lines), NEW payment, NEW paid, Reader!Slip!BelowLabel(lines, paid)
  PROVE  Reader!Slip!AmountOf(lines, payment) = paid
<1> DEFINE found == Reader!Slip!Candidates(lines, payment)
<1>0. IsFiniteSet(found) /\ found \subseteq Amounts
  BY FoundFinite, FoundType
<1>1. PICK t : BelowAt(lines, paid, t)
  BY BelowLabelAt
<1>2. /\ t \in DOMAIN lines /\ t + 1 \in DOMAIN lines /\ t \in Int /\ t >= 1
      /\ \A i : Reader!Slip!Says(lines, i, {"total"}) <=> i = t
      /\ paid \in Nat /\ paid >= 1000
      /\ lines[t + 1].values[1].n = paid
      /\ DOMAIN lines[t + 1].values = {1} /\ DOMAIN lines[t].values = {}
  BY <1>1, AboutLabel
<1> DEFINE near == FromLabel(lines, t, t + 1, 1)
           there == AtPlace(lines, payment, t + 1, 1)
           low == IF Reader!Slip!Below(lines, t + 1, 45) THEN 10 ELSE 0
           high == Merit(lines, t + 1, paid)
<1>3. /\ near \in found /\ near.value = paid /\ near.hint
      /\ there \in found /\ there.value = paid /\ there.hint
      /\ Points(found, near) >= 88 + low
      /\ Reader!Slip!CashTotal(lines) = paid => Points(found, near) >= 100
      /\ Often(found, there) >= 2
      /\ Points(found, there) >= 62 + high
  BY <1>1, BelowStands
<1>4. low \in {0, 10} /\ high \in 0 .. 42
  BY MeritIs
<1>5. /\ Points(found, near) \in Int /\ Points(found, there) \in Int
      /\ Often(found, there) \in Int
  <2> HIDE DEF found, near, there
  <2> QED
    BY <1>0, <1>3, PointsBound
<1>6. ASSUME NEW d \in found, d.value # paid, NEW i \in DOMAIN lines,
             NEW n \in Reader!Slip!Numbers(lines, i), d = AtPlace(lines, payment, i, n)
      PROVE  Leads(found, near, d) \/ Leads(found, there, d)
  <2> DEFINE v == lines[i].values[n].n
  <2>1. n \in DOMAIN lines[i].values /\ v \in Nat
    BY NumbersAre
  <2>2. /\ d.value = v /\ d.score = Reader!Slip!DirectScore(lines, payment, i, n)
        /\ d.hint <=> Around(lines, i, {"total"})
    BY <1>6, PlaceHas
  <2>3. CASE ~d.hint
    <3> HIDE DEF found, near
    <3> QED
      BY <1>3, <2>3, LeadsByHint
  <2>4. CASE d.hint
    <3>1. i \in Int
      BY LinesAre
    <3>2. t \in {i - 1, i, i + 1}
      BY <1>2, <2>2, <2>4 DEF Around
    <3>3. i # t /\ i # t + 1
      BY <1>2, <1>6, <2>1, <2>2
    <3>4. i = t - 1
      BY <1>2, <3>1, <3>2, <3>3
    <3>5. ~Reader!Slip!Says(lines, i, {"total"}) /\ Beside(lines, i)
      <4>1. i + 1 = t /\ i # t
        BY <1>2, <3>4
      <4> QED
        BY <1>2, <4>1 DEF Beside
    <3>6. d.score <= 50 + Merit(lines, i, v)
      BY <2>2, <3>5, DirectScoreIs
    <3>7. Often(found, d) <= 2
      BY <1>1, <1>6, <2>1, <2>2, OwnMet
    <3>8. v < 10000 \/ v <= paid
      <4> DEFINE P(j) == \A m \in DOMAIN lines[j].values :
                           lines[j].values[m].n < 10000 \/ lines[j].values[m].n <= paid
      <4>1. \A j \in {t - 2, t - 1} \cap DOMAIN lines : j = t - 1 => P(j)
        BY <1>1 DEF BelowAt
      <4> HIDE DEF P
      <4>2. P(i)
        BY <3>4, <4>1
      <4> HIDE DEF v
      <4>3. lines[i].values[n].n < 10000 \/ lines[i].values[n].n <= paid
        BY <2>1, <4>2 DEF P
      <4> QED
        BY <4>3 DEF v
    <3>9. Merit(lines, i, v) \in 0 .. 42
      BY MeritIs
    <3>10. /\ v >= 10000 /\ v <= paid => Merit(lines, i, v) <= high
           /\ v < 10000 => Merit(lines, i, v) <= 22 + low
      <4> HIDE DEF v
      <4> QED
        BY <1>1, <2>1, <3>4, PriceStands
    <3> HIDE DEF found, near, there, low, high, v
    <3>11. /\ Points(found, d) \in Int /\ d.score \in Int /\ Often(found, d) \in Int
           /\ Points(found, d) <= d.score + 12
      BY <1>0, <1>6, <3>7, PointsBound
    <3>12. CASE v < 10000
      <4>1. Points(found, near) > Points(found, d)
        BY <1>3, <1>4, <1>5, <3>6, <3>9, <3>10, <3>11, <3>12
      <4> QED
        BY <1>0, <1>3, <1>6, <2>4, <4>1, LeadsByPoints
    <3>13. CASE v >= 10000 /\ v <= paid
      <4>1. Points(found, there) >= Points(found, d)
        BY <1>3, <1>4, <1>5, <3>6, <3>9, <3>10, <3>11, <3>13
      <4>2. Often(found, there) >= Often(found, d)
        BY <1>3, <1>5, <3>7, <3>11
      <4>3. there.value > d.value
        BY <1>2, <1>3, <1>6, <2>1, <2>2, <3>13
      <4>4. \/ Points(found, there) > Points(found, d)
            \/ Points(found, there) = Points(found, d) /\ Often(found, there) > Often(found, d)
            \/ /\ Points(found, there) = Points(found, d) /\ Often(found, there) = Often(found, d)
               /\ there.value > d.value
        BY <1>5, <3>11, <4>1, <4>2, <4>3
      <4> QED
        BY <1>0, <1>3, <1>6, <2>4, <4>4, LeadsByPoints
    <3> QED
      BY <2>1, <3>8, <3>12, <3>13
  <2> QED
    BY <2>3, <2>4
<1>7. ASSUME NEW d \in found, d.value # paid, NEW j \in Reader!Slip!Reached(lines, t),
             NEW n \in Reader!Slip!Numbers(lines, j), d = FromLabel(lines, t, j, n)
      PROVE  Leads(found, near, d)
  <2> DEFINE v == lines[j].values[n].n
  <2>1. j \in DOMAIN lines /\ j \in Int
    BY ReachedIn, LinesAre
  <2>2. n \in DOMAIN lines[j].values /\ v \in Nat
    BY <2>1, NumbersAre
  <2>3. d.value = v /\ d.score = NearScore(lines, t, j, n) /\ d.hint
    BY <1>7, LabelHas
  <2>4. j \in {t + 1, t + 2, t - 1, t - 2}
    BY DEF Reader!Slip!Reached
  <2>5. j # t + 1
    BY <1>2, <1>7, <2>2, <2>3
  <2>6. /\ Often(found, d) <= 2
        /\ Reader!Slip!Suspect(lines, j) /\ ~Around(lines, j, {"total"}) => Often(found, d) = 1
    BY <1>1, <1>7, <2>1, <2>2, <2>3, OwnMet
  <2> HIDE DEF v
  <2>7. /\ Points(found, d) \in Int /\ d.score \in Int
        /\ Points(found, d) <= d.score + 12
        /\ Often(found, d) = 1 => Points(found, d) = d.score
    <3> HIDE DEF found
    <3> QED
      BY <1>0, <1>7, <2>6, PointsBound
  <2>8. CASE j = t - 1 \/ j = t - 2
    <3>1. Reader!Slip!Below(lines, j, 45) => Reader!Slip!Below(lines, t + 1, 45)
      <4>1. \A k \in {t - 2, t - 1} \cap DOMAIN lines : lines[k].top <= lines[t + 1].top
        BY <1>1 DEF BelowAt
      <4> QED
        BY <1>2, <2>1, <2>8, <4>1, BelowToo
    <3>2. NearScore(lines, t, j, n) <= 72 + low
      BY <1>2, <2>1, <2>8, <3>1, NearScoreIs
    <3> HIDE DEF found, near, low
    <3>3. Points(found, near) > Points(found, d)
      BY <1>3, <1>4, <1>5, <2>3, <2>7, <3>2
    <3> QED
      BY <1>0, <1>3, <1>7, <2>3, <3>3, LeadsByPoints
  <2>9. CASE j = t + 2
    <3>1. NearScore(lines, t, j, n) <= 80
      BY <1>2, <2>1, <2>9, NearScoreIs
    <3>2. lines[t + 2].values # <<>>
      BY <2>2, <2>9
    <3>3. \/ Reader!Slip!Below(lines, t + 1, 45) \/ Reader!Slip!CashTotal(lines) = paid
          \/ Reader!Slip!Suspect(lines, t + 2)
      BY <1>1, <2>1, <2>9, <3>2, Zenon DEF BelowAt
    <3>4. ~Around(lines, j, {"total"})
      BY <1>2, <2>1, <2>9 DEF Around
    <3>5. Reader!Slip!Suspect(lines, t + 2) => Points(found, d) = d.score
      BY <2>6, <2>7, <2>9, <3>4
    <3>6. Reader!Slip!Below(lines, t + 1, 45) => low = 10
      OBVIOUS
    <3> HIDE DEF found, near, low
    <3>7. Points(found, near) > Points(found, d)
      BY <1>3, <1>4, <1>5, <2>3, <2>7, <3>1, <3>3, <3>5, <3>6
    <3> QED
      BY <1>0, <1>3, <1>7, <2>3, <3>7, LeadsByPoints
  <2> QED
    BY <2>4, <2>5, <2>8, <2>9
<1>8. ASSUME NEW d \in found, d.value # paid
      PROVE  Leads(found, near, d) \/ Leads(found, there, d)
  <2>1. CASE Placed(lines, payment, d)
    <3>1. PICK i \in DOMAIN lines : \E n \in Reader!Slip!Numbers(lines, i) :
            d = AtPlace(lines, payment, i, n)
      BY <2>1, Zenon DEF Placed
    <3>2. PICK n \in Reader!Slip!Numbers(lines, i) : d = AtPlace(lines, payment, i, n)
      BY <3>1, Zenon
    <3> HIDE DEF found, near, there
    <3> QED
      BY <1>6, <1>8, <3>2
  <2>2. CASE Labels(lines, d)
    <3>1. PICK i \in DOMAIN lines : /\ Reader!Slip!Says(lines, i, {"total"})
                                   /\ \E j \in Reader!Slip!Reached(lines, i) :
                                        \E n \in Reader!Slip!Numbers(lines, j) :
                                          d = FromLabel(lines, i, j, n)
      BY <2>2, Zenon DEF Labels
    <3>2. i = t
      BY <1>2, <3>1
    <3>3. PICK j \in Reader!Slip!Reached(lines, t) :
            \E n \in Reader!Slip!Numbers(lines, j) : d = FromLabel(lines, t, j, n)
      BY <3>1, <3>2
    <3>4. PICK n \in Reader!Slip!Numbers(lines, j) : d = FromLabel(lines, t, j, n)
      BY <3>3, Zenon
    <3> HIDE DEF found, near, there
    <3> QED
      BY <1>7, <1>8, <3>4
  <2>3. CASE Reader!Slip!CashTotal(lines) # NULL /\ d = ByCash(lines)
    <3>1. Reader!Slip!CashTotal(lines) \in {NULL, paid}
      BY <1>1 DEF BelowAt
    <3> QED
      BY <1>8, <2>3, <3>1, CashHas
  <2> QED
    BY <1>8, <2>1, <2>2, <2>3, ThreeKinds
<1> HIDE DEF found, near, there
<1>9. \A d \in found : d.value # paid => \E c \in found : Leads(found, c, d)
  BY <1>3, <1>8
<1>10. found # {}
  BY <1>3
<1> QED
  BY <1>0, <1>9, <1>10, AmountWins DEF found

\* What is charged is what is read.
LEMMA AmountRead ==
  ASSUME NEW lines, Printed(lines), NEW payment, NEW paid \in Nat \cup {NULL},
         Reader!Slip!Charged(lines, paid)
  PROVE  Reader!Slip!AmountOf(lines, payment) = paid
BY InLineRead, BelowLabelRead, HandedOverRead, AloneRead, Zenon DEF Reader!Slip!Charged

-----------------------------------------------------------------------------
(* Receipts.                                                                *)

\* What is read from a file that is no photo is what its lines say.
LEMMA PdfRead ==
  ASSUME NEW settings, NEW file, file.kind = "pdf",
         Reader!Extract(settings, file).outcome = "answer"
  PROVE  /\ file.page # NULL
         /\ Reader!Extract(settings, file).fields.date = Reader!Slip!DateOf(file.page.lines)
         /\ Reader!Extract(settings, file).fields.amount
              = Reader!Slip!AmountOf(file.page.lines,
                  Reader!Slip!PaymentOf(file.page.lines, file.type))
<1>1. Reader!Extract(settings, file) = Reader!ReadPdf(file)
  BY DEF Reader!Extract
<1>2a. Reader!Refused.outcome # "answer"
  BY DEF Reader!Refused
<1>2. file.page # NULL
  BY <1>1, <1>2a DEF Reader!ReadPdf
<1> QED
  BY <1>1, <1>2 DEF Reader!ReadPdf, Reader!Answer, Reader!Slip!Parse

\* Of a receipt that states when and how much was paid the preview shows both.
LEMMA ReceiptsTold == PreviewsInv => ReceiptsAreRead
<1> SUFFICES ASSUME PreviewsInv, NEW x \in previews, x.file.kind = "pdf",
                    x.result.outcome = "answer"
             PROVE  /\ ~Crowded(x.file.page.lines, x.file.date)
                         => x.result.fields.date = x.file.date
                    /\ ~Outweighed(x.file.page.lines, x.file.paid)
                         => x.result.fields.amount = x.file.paid
  BY DEF ReceiptsAreRead
<1> DEFINE file == x.file
           lines == file.page.lines
           payment == Reader!Slip!PaymentOf(lines, file.type)
<1>1. /\ file.page = NULL \/ Issued(file)
      /\ x.result = Reader!Extract(x.settings, file)
  BY DEF PreviewsInv
<1>2. /\ file.page # NULL
      /\ x.result.fields.date = Reader!Slip!DateOf(lines)
      /\ x.result.fields.amount = Reader!Slip!AmountOf(lines, payment)
  BY <1>1, PdfRead
<1>3. Issued(file)
  BY <1>1, <1>2
<1>4. /\ Printed(lines) /\ file.paid \in Nat \cup {NULL}
      /\ Crowded(lines, file.date) \/ Reader!Slip!Dated(lines, file.date)
      /\ Outweighed(lines, file.paid) \/ Reader!Slip!Charged(lines, file.paid)
  BY <1>3 DEF Issued
<1> HIDE DEF lines, payment
<1>5. ~Crowded(lines, file.date) => Reader!Slip!DateOf(lines) = file.date
  BY <1>4, DateRead
<1>6. ~Outweighed(lines, file.paid) => Reader!Slip!AmountOf(lines, payment) = file.paid
  BY <1>4, AmountRead
<1> QED
  BY <1>2, <1>5, <1>6 DEF lines

\* A preview of a receipt shows the date and the amount it states, however many
\* lines, numbers and dates it has and whatever else these are, unless another
\* date crowds the label of the day or another number is met again.
THEOREM ReceiptsRead == Spec => []ReceiptsAreRead
BY InitType, NextType, InitPreviews, NextPreviews, ReceiptsTold, PTL DEF Spec

=============================================================================
