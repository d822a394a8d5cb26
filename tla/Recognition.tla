---------------------------- MODULE Recognition ----------------------------
(***************************************************************************)
(* Reading the fields of an evidence from its file                         *)
(* (services/evidence_extraction.py): the choice of an engine and its      *)
(* fallback, the passes over differently prepared pictures of one photo,   *)
(* and the fusion of what they read.                                       *)
(*                                                                         *)
(* A page is what one pass makes of a picture: the fields found in its     *)
(* text, and how much of it there is.  How a photo becomes a text is       *)
(* behind it; how a text becomes fields is in Receipt.                     *)
(***************************************************************************)
EXTENDS Integers, Sequences, FiniteSets, SequencesExt

CONSTANTS NULL, ThisYear

Slip == INSTANCE Receipt

Fields == {"date", "merchant", "amount", "payment"}

\* What an extraction comes to: an answer, or an error of the two classes the
\* endpoints know ("refused"), or any other exception ("broken").
Answer(engine, type, fields, category, refund, passes) ==
  [outcome |-> "answer", engine |-> engine, type |-> type, fields |-> fields,
   category |-> category, refund |-> refund, passes |-> passes]

Refused == [outcome |-> "refused"]
Broken == [outcome |-> "broken"]

-----------------------------------------------------------------------------
(* The passes over a photo                                                  *)

\* _VARIANT_PRIORITY
Priority ==
  <<"document_enhanced", "background_cropped", "original", "adaptive_binary",
    "sharpened", "perspective_corrected">>

\* _prepare_image_variants: paper is straightened and cropped first
Variants(type) ==
  IF type = "physical_receipt"
  THEN <<"original", "perspective_corrected", "background_cropped",
         "document_enhanced", "adaptive_binary", "sharpened">>
  ELSE <<"original", "document_enhanced", "adaptive_binary", "sharpened">>

\* _limit_variants; the parallel passes on Modal are not limited
Limited(settings, type) ==
  settings.mode # "modal" /\ settings.cap > 0 /\ Len(Variants(type)) > settings.cap

Place(order, v) == CHOOSE i \in DOMAIN order : order[i] = v

\* The passes that are made.
Chosen(settings, type) ==
  {v \in ToSet(Variants(type)) : Limited(settings, type) =>
     Cardinality({w \in ToSet(Variants(type)) : Place(Priority, w) < Place(Priority, v)})
       < settings.cap}

-----------------------------------------------------------------------------
(* Scores.  In halves of a point; the confidence of a page is in tenths,    *)
(* its length in units of 60 characters.                                    *)

Weight == [date |-> 18, merchant |-> 30, amount |-> 32, payment |-> 12]

\* The preference for some of the preparations in _score_ocr_attempt.
Bonus(variant, type) ==
  CASE variant = "adaptive_binary" -> IF type = "physical_receipt" THEN 4 ELSE 0
    [] variant = "background_cropped" -> IF type = "physical_receipt" THEN 3 ELSE 0
    [] variant = "sharpened" -> 2
    [] OTHER -> 0

\* _score_ocr_attempt
Score(page, variant, type) ==
  LET found(f) == IF page[f] = NULL THEN 0 ELSE Weight[f]
  IN  2 * (found("date") + found("merchant") + found("amount") + found("payment")
             + Slip!AtMost(page.lines, 12) + Slip!AtMost(page.length, 10) + Bonus(variant, type))
        + 3 * page.confidence

\* The preference for some of the preparations in _field_score.
FieldBonus(variant, field) ==
  CASE field = "merchant" ->
         (CASE variant \in {"perspective_corrected", "background_cropped"} -> 6
            [] variant = "sharpened" -> 4
            [] OTHER -> 0)
    [] field = "amount" ->
         (CASE variant = "adaptive_binary" -> 2
            [] variant = "sharpened" -> 1
            [] OTHER -> 0)
    [] field = "date" -> IF variant = "document_enhanced" THEN 3 ELSE 0
    [] OTHER -> 0

FieldScore(attempt, field) ==
  attempt.score + 2 * attempt.page.confidence + 2 * FieldBonus(attempt.variant, field)

\* The attempts of the passes that read any text, in what place each was made.
Attempts(settings, photo) ==
  LET order == IF Limited(settings, photo.type) THEN Priority ELSE Variants(photo.type)
  IN  {[variant |-> v, page |-> photo.pages[v], place |-> Place(order, v),
        score |-> Score(photo.pages[v], v, photo.type)] :
         v \in {w \in Chosen(settings, photo.type) : photo.pages[w].lines > 0}}

\* They are sorted by their score, equal ones stay as they were made.
Before(a, b) == a.score > b.score \/ (a.score = b.score /\ a.place < b.place)

\* The first of some attempts for which Key is largest.
FirstMax(attempts, Key(_)) ==
  CHOOSE a \in attempts : \A b \in attempts \ {a} :
    Key(a) > Key(b) \/ (Key(a) = Key(b) /\ Before(a, b))

\* select_best_ocr_attempt: by score, equal ones by confidence
Best(attempts) == FirstMax(attempts, LAMBDA a : a.score * 11 + a.page.confidence)

-----------------------------------------------------------------------------
(* Fusion                                                                   *)

\* A shop is written [key |-> ..., name |-> ...]: the key is the name without
\* blanks and punctuation, by which votes for it are counted.
KeyOf(field, v) == IF field = "merchant" THEN v.key ELSE v

Having(attempts, field) == {a \in attempts : a.page[field] # NULL}

Highest(attempts, field) == FirstMax(attempts, LAMBDA a : FieldScore(a, field))

\* _select_field_choice
ByScore(attempts, field) ==
  LET having == Having(attempts, field)
  IN  IF having = {} THEN NULL ELSE Highest(having, field).page[field]

\* Those who read the same as attempt a.
Voters(attempts, field, a) ==
  {b \in Having(attempts, field) : KeyOf(field, b.page[field]) = KeyOf(field, a.page[field])}

MostShared(attempts, field) ==
  FirstMax(Having(attempts, field), LAMBDA a : Cardinality(Voters(attempts, field, a)))

\* Mutant of Fused: the scores decide even where two attempts agree.
FusedByScore(attempts, field) == ByScore(attempts, field)

\* _select_amount_with_consensus and its likes: the value most attempts agree
\* on, as the best of them writes it; if no two agree, and for the method of
\* payment, the best attempt's
Fused(attempts, field) ==
  LET voters == Voters(attempts, field, MostShared(attempts, field))
  IN  IF \/ field = "payment" \/ Having(attempts, field) = {}
         \/ Cardinality(voters) < 2
      THEN ByScore(attempts, field)
      ELSE Highest(voters, field).page[field]

\* merge_ocr_attempt_fields, and beside it the "field_fusion" of the payload
\* (_build_field_fusion_payload) and the attempt whose text is kept
Merged(attempts) ==
  [fields |-> [f \in Fields |-> Fused(attempts, f)],
   fusion |-> [f \in Fields |-> ByScore(attempts, f)],
   selected |-> Best(attempts).variant]

-----------------------------------------------------------------------------
(* Engines                                                                  *)

\* _extract_pdf_result: a document without text is an answer without fields
ReadPdf(file) ==
  IF file.page = NULL THEN Refused
  ELSE Answer("pypdf", file.type, Slip!Parse(file.page, file.type), NULL, FALSE, NULL)

\* _extract_image_result: the first pass that fails ends it; a call of Modal
\* that fails does so with an exception of its own
ReadLocally(settings, photo) ==
  LET attempts == Attempts(settings, photo)
  IN  IF \E v \in Chosen(settings, photo.type) : photo.pages[v] = NULL
      THEN IF settings.mode = "modal" THEN Broken ELSE Refused
      ELSE IF attempts = {} THEN Refused
      ELSE Answer("paddleocr", photo.type, Merged(attempts).fields, NULL, FALSE,
                  Merged(attempts))

\* RECEIPT_CATEGORIES
Categories ==
  {"meals", "snacks", "drinks", "transport", "office", "printing", "events",
   "meetings", "gifts", "venues", "other"}

\* _coerce_evidence_type
TypeOr(said, type) ==
  IF said \in {"physical_receipt", "bank_transfer_statement", "e_receipt"} THEN said ELSE type

CategoryOf(said) == IF said \in Categories \cup {NULL} THEN said ELSE "other"

\* The clouds do not tell how was paid.
CloudFields(said) ==
  [date |-> said.date, merchant |-> said.merchant, amount |-> said.amount, payment |-> NULL]

\* _call_gemini_generate: asked again while it is busy, three times in all
Reply(replies) ==
  LET said == {n \in 1 .. 3 : replies[n].says # "busy"}
  IN  IF said = {} THEN replies[3] ELSE replies[Min(said)]

\* A call that brings no answer ends in an ExtractionError, unless it fails in
\* a way that is not foreseen, as when the connection is cut during the reply.
Outcome(reply, answer) ==
  CASE reply.says = "answer" -> answer
    [] reply.says = "cut" -> Broken
    [] OTHER -> Refused

\* _extract_image_gemini, gemini_json_to_fields: the answer also tells what the
\* evidence is and is about
AskGemini(photo) ==
  LET reply == Reply(photo.replies)
      json == reply.json
  IN  Outcome(reply, Answer("gemini", TypeOr(json.type, photo.type), CloudFields(json),
                            CategoryOf(json.category), json.refund, NULL))

\* _extract_image_clova, parse_clova_receipt_response: one call
AskClova(photo) ==
  LET reply == photo.replies[1]
  IN  Outcome(reply, Answer("clova", photo.type, CloudFields(reply.json), NULL, FALSE, NULL))

\* An engine that lacks its key is refused before it is called.
AskCloud(settings, photo) ==
  IF ~settings.configured THEN Refused
  ELSE IF settings.provider = "gemini" THEN AskGemini(photo) ELSE AskClova(photo)

\* extract_file: with the fallback on, what a cloud refuses is read locally.
ReadPhoto(settings, photo) ==
  LET cloud == AskCloud(settings, photo)
  IN  IF settings.provider = "local" \/ (cloud = Refused /\ settings.fallback)
      THEN ReadLocally(settings, photo) ELSE cloud

Extract(settings, file) ==
  CASE file.kind = "pdf" -> ReadPdf(file)
    [] file.kind = "photo" -> ReadPhoto(settings, file)
    [] OTHER -> Refused
====
