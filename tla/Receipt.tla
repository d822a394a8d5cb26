------------------------------ MODULE Receipt ------------------------------
(***************************************************************************)
(* What the lines of a receipt say (parse_extracted_text in                *)
(* services/evidence_extraction.py): when, how and how much was paid.      *)
(*                                                                         *)
(* A line is a record: the groups of keywords found in its text, its       *)
(* numbers and dates from left to right, and where it stands on the page.  *)
(* How texts are matched is behind these fields, and so is the name of the *)
(* shop; the dates of one receipt are written in one form.  The groups:    *)
(* "total" (TOTAL_HINTS), "day" (DATE_KEYWORDS), "reject"                  *)
(* (AMOUNT_REJECTION_KEYWORDS), "number" (a business or phone number),     *)
(* "online", "bank", "cash", "card" (the ways to pay), and of the words    *)
(* _extract_amount_from_layout lists itself "paid", "won", "item" and      *)
(* "tender", of those for cash handed over and back "received", "change".  *)
(***************************************************************************)
EXTENDS Integers, Sequences, FiniteSets, SequencesExt

CONSTANTS
  NULL,
  ThisYear  \* date.today().year

Height(lines) == Max({lines[i].bottom : i \in DOMAIN lines})

\* _normalized_y, in hundredths
Below(lines, i, percent) == 100 * lines[i].top >= percent * Height(lines)
Above(lines, i, percent) == 100 * lines[i].top <= percent * Height(lines)

\* _vertical_gap of lines i and j, not over the limit all callers have
Close(lines, i, j) == lines[j].top - lines[i].bottom <= 28

Says(lines, i, words) == i \in DOMAIN lines /\ lines[i].words \cap words # {}

If(condition, n) == IF condition THEN n ELSE 0

\* The first of a set of positions for which Key is largest.
FirstMax(S, Key(_)) ==
  CHOOSE i \in S : \A j \in S : Key(j) < Key(i) \/ (Key(j) = Key(i) /\ i <= j)

-----------------------------------------------------------------------------

\* _extract_payment_method_from_layout
PaymentOf(lines, type) ==
  LET anywhere(words) == \E i \in DOMAIN lines : Says(lines, i, words)
      bank == type = "bank_transfer_statement" \/ anywhere({"bank"})
  IN  IF anywhere({"online"}) THEN "online_payment"
      ELSE IF bank THEN "bank_transfer"
      ELSE IF anywhere({"cash"}) THEN "cash"
      ELSE IF anywhere({"card"}) THEN "card"
      ELSE IF type = "e_receipt" THEN "online_payment" ELSE NULL

-----------------------------------------------------------------------------
(* The date                                                                 *)

\* The dates in the order they are looked at: those of a line, then those of
\* the line and the next one together.
DateCandidates(lines) ==
  LET alone(i) ==
        [n \in DOMAIN lines[i].dates |->
           [line |-> i, date |-> lines[i].dates[n], labelled |-> Says(lines, i, {"day"})]]
      both(i) == lines[i].dates \o lines[i + 1].dates
      joined(i) ==
        IF i + 1 \in DOMAIN lines /\ Close(lines, i, i + 1)
        THEN [n \in DOMAIN both(i) |->
                [line |-> i, date |-> both(i)[n],
                 labelled |-> Says(lines, i, {"day"}) \/ Says(lines, i + 1, {"day"})]]
        ELSE <<>>
  IN  FlattenSeq([i \in DOMAIN lines |-> alone(i) \o joined(i)])

Away(date) == IF date.year > ThisYear THEN date.year - ThisYear ELSE ThisYear - date.year

\* In tenths of a point.
DateScore(lines, c) ==
  500 + If(c.labelled, 220) - 8 * (c.line - 1) + If(Above(lines, c.line, 35), 60)
    - 40 * Away(c.date) - If(c.date.year > ThisYear + 1 \/ c.date.year < ThisYear - 4, 120)

\* Mutant of DateOf: the first date is taken.
DateOfFirst(lines) ==
  LET found == DateCandidates(lines) IN IF found = <<>> THEN NULL ELSE found[1].date

\* _extract_date_from_layout
DateOf(lines) ==
  LET found == DateCandidates(lines)
  IN  IF found = <<>> THEN NULL
      ELSE found[FirstMax(DOMAIN found, LAMBDA n : DateScore(lines, found[n]))].date

-----------------------------------------------------------------------------
(* The amount.  A candidate is a number: the line and place it stands at,   *)
(* and the line that speaks for it.                                         *)

Candidate(by, at, nth, value, score, hint) ==
  [by |-> by, at |-> at, nth |-> nth, value |-> value, score |-> score, hint |-> hint]

\* Numbers of nine digits and more are no amounts.
Numbers(lines, i) == {n \in DOMAIN lines[i].values : lines[i].values[n].digits < 9}

\* _should_reject_amount_context of a line without a word for the total about
Suspect(lines, i) == Says(lines, i, {"number", "reject"})

\* What a number is worth where it stands.
DirectScore(lines, payment, i, n) ==
  LET number == lines[i].values[n]
      total == Says(lines, i, {"total"})
      beside == Says(lines, i - 1, {"total"}) \/ Says(lines, i + 1, {"total"})
      around(words) == \E j \in {i - 1, i, i + 1} : Says(lines, j, words)
      many == Len(lines[i].values)
  IN  12 + (IF total THEN 62 ELSE If(beside, 38))
        + If(around({"paid"}), 10) + If(around({"won"}), 6)
        + If(number.n >= 1000, 8) + If(number.n >= 10000, 4)
        + If(Below(lines, i, 45), 10) + If(i > Len(lines) - 5, 4)
        + If(many = 1 /\ total, 10)
        - If(Says(lines, i, {"item"}) /\ ~total, 30) - If(many >= 3 /\ ~total, 22)
        - If(number.digits >= 7 /\ ~total /\ ~beside, 32)
        - If(around({"reject"}) /\ ~total /\ ~beside, 55)
        - If(payment = "cash" /\ Says(lines, i, {"tender"}), 18)
        - If(Above(lines, i, 22) /\ ~total /\ ~beside, 12)

Direct(lines, payment, i) ==
  LET hint == \E j \in {i - 1, i, i + 1} : Says(lines, j, {"total"})
  IN  IF Suspect(lines, i) /\ ~hint THEN {}
      ELSE {Candidate(i, i, n, lines[i].values[n].n, DirectScore(lines, payment, i, n), hint) :
              n \in Numbers(lines, i)}

\* A word for the total without a number speaks for those of the two lines
\* after it and the two before it, as long as these are close.
Reached(lines, i) ==
  {j \in DOMAIN lines : \/ /\ j \in {i + 1, i + 2}
                           /\ \A k \in i + 1 .. j : Close(lines, i, k)
                        \/ /\ j \in {i - 1, i - 2}
                           /\ \A k \in j .. i - 1 : Close(lines, k, i)}

Nearby(lines, i) ==
  LET base(j) == IF j > i THEN 74 - 6 * (j - i) ELSE 70 - 6 * (i - j)
      score(j, n) == base(j) + If(Below(lines, j, 45), 10) + If(lines[j].values[n].n >= 1000, 8)
  IN  IF lines[i].values # <<>> \/ ~Says(lines, i, {"total"}) THEN {}
      ELSE UNION {{Candidate(i, j, n, lines[j].values[n].n, score(j, n), TRUE) :
                     n \in Numbers(lines, j)} : j \in Reached(lines, i)}

\* _derive_cash_total_from_layout: the last total, or what was given less the
\* change
CashTotal(lines) ==
  LET largest(i) == Max({v.n : v \in ToSet(lines[i].values)})
      last(S) == IF S = {} THEN NULL ELSE largest(Max(S))
      speaks == {i \in DOMAIN lines : lines[i].values # <<>>}
      given == {i \in speaks : Says(lines, i, {"received"})}
      back == {i \in speaks \ given : Says(lines, i, {"change"})}
      total == {i \in speaks \ (given \cup back) : Says(lines, i, {"total"})}
  IN  CASE total # {} -> last(total)
        [] total = {} /\ given # {} /\ back # {} ->
             (IF last(given) > last(back) THEN last(given) - last(back) ELSE NULL)
        [] OTHER -> NULL

Candidates(lines, payment) ==
  (UNION {Direct(lines, payment, i) \cup Nearby(lines, i) : i \in DOMAIN lines})
    \cup (IF CashTotal(lines) = NULL THEN {}
          ELSE {Candidate(0, 0, 0, CashTotal(lines), 88, TRUE)})

AtMost(n, k) == IF n < k THEN n ELSE k

\* _extract_amount_from_layout: a number with a word for the total about comes
\* first, then the score, which rises when a number is met again; then how
\* often it is met, then the larger one
AmountOf(lines, payment) ==
  LET found == Candidates(lines, payment)
      met(c) == Cardinality({d \in found : d.value = c.value})
      score(c) == c.score + AtMost(12 * (met(c) - 1), 24)
      Beats(c, d) ==
        \/ c.hint /\ ~d.hint
        \/ /\ c.hint = d.hint
           /\ \/ score(c) > score(d)
              \/ score(c) = score(d) /\ met(c) > met(d)
              \/ score(c) = score(d) /\ met(c) = met(d) /\ c.value > d.value
  IN  IF found = {} THEN NULL
      ELSE (CHOOSE c \in found : \A d \in found : ~Beats(d, c)).value

-----------------------------------------------------------------------------

\* parse_extracted_text
Parse(receipt, type) ==
  LET payment == PaymentOf(receipt.lines, type)
  IN  [date |-> DateOf(receipt.lines), merchant |-> receipt.shop,
       amount |-> AmountOf(receipt.lines, payment), payment |-> payment]

-----------------------------------------------------------------------------
(* What a receipt states.                                                   *)

\* The day stands by its label, not too far below another date, and no date is
\* of a year as near to this one but of the same; or there is one date only.
Dated(lines, date) ==
  LET dated == {i \in DOMAIN lines : lines[i].dates # <<>>}
  IN  \/ date = NULL /\ dated = {}
      \/ dated # {} /\ \A j \in dated : \A n \in DOMAIN lines[j].dates : lines[j].dates[n] = date
      \/ \E i \in DOMAIN lines :
           /\ "day" \in lines[i].words /\ lines[i].dates = <<date>>
           /\ date.year \in ThisYear - 4 .. ThisYear + 1
           /\ \A j \in DOMAIN lines \ {i} :
                /\ "day" \notin lines[j].words
                /\ j \in dated => i < j + 19
                /\ \A n \in DOMAIN lines[j].dates :
                     \/ lines[j].dates[n].year = date.year
                     \/ Away(lines[j].dates[n]) > Away(date)

Totals(lines) == {i \in DOMAIN lines : "total" \in lines[i].words}

\* A line with one number, which may be an amount.
Holds(line, n) == Len(line.values) = 1 /\ line.values[1].n = n /\ line.values[1].digits < 9

\* A number that stands nowhere else.
Single(lines, i, n) ==
  \A j \in DOMAIN lines : \A m \in DOMAIN lines[j].values :
    lines[j].values[m].n = lines[i].values[n].n => j = i /\ m = n

\* What is paid stands in the line of the last word for the total.  Other
\* totals above it are numbers of their own and no larger ones; prices right
\* beside a total may repeat if the line speaks clearly.
InLine(lines, paid) ==
  \E t \in Totals(lines) :
    LET words == lines[t].words
        clear == /\ paid >= 1000
                 /\ \/ {"paid", "won"} \subseteq words
                    \/ Below(lines, t, 45) /\ words \cap {"paid", "won"} # {}
    IN  /\ Holds(lines[t], paid) /\ words \cap {"tender", "received", "change"} = {}
        /\ \A s \in Totals(lines) \ {t} :
             /\ s < t /\ lines[s].top <= lines[t].top /\ lines[s].values # <<>>
             /\ {"paid", "won"} \subseteq words
             /\ \A n \in DOMAIN lines[s].values : lines[s].values[n].n # paid =>
                  /\ Single(lines, s, n)
                  /\ \A size \in {1000, 10000} : lines[s].values[n].n >= size => paid >= size
        /\ clear \/ \A s \in Totals(lines) : \A j \in {s - 1, s + 1} \cap DOMAIN lines :
                       \A n \in DOMAIN lines[j].values :
                         lines[j].values[n].n = paid \/ Single(lines, j, n)

\* It stands below its label, and every other number is one of its own.  The
\* lines above the label are prices, the one below the amount is what was
\* handed over or the number of a card.
BelowLabel(lines, paid) ==
  \E t \in Totals(lines) :
    /\ Totals(lines) = {t} /\ lines[t].values = <<>> /\ "won" \notin lines[t].words
    /\ t + 1 \in DOMAIN lines /\ Close(lines, t, t + 1)
    /\ Holds(lines[t + 1], paid) /\ paid >= 1000
    /\ lines[t + 1].words \cap {"item", "tender"} = {}
    /\ CashTotal(lines) \in {NULL, paid}
    /\ \A j \in DOMAIN lines : \A n \in DOMAIN lines[j].values :
         lines[j].values[n].n = paid \/ Single(lines, j, n)
    /\ \A j \in {t - 2, t - 1} \cap DOMAIN lines :
         /\ lines[j].words \cap {"paid", "won"} = {} /\ lines[j].top <= lines[t + 1].top
         /\ j = t - 1 => \A n \in DOMAIN lines[j].values :
                           lines[j].values[n].n < 10000 \/ lines[j].values[n].n <= paid
    /\ t + 2 \in DOMAIN lines /\ lines[t + 2].values # <<>> =>
         Below(lines, t + 1, 45) \/ CashTotal(lines) = paid \/ Suspect(lines, t + 2)

\* It is what was handed over less what was handed back.
HandedOver(lines, paid) ==
  /\ Totals(lines) = {}
  /\ \E r, c \in DOMAIN lines :
       /\ {i \in DOMAIN lines : "received" \in lines[i].words} = {r}
       /\ {i \in DOMAIN lines : "change" \in lines[i].words} \ {r} = {c}
       /\ Len(lines[r].values) = 1 /\ Len(lines[c].values) = 1
       /\ paid = lines[r].values[1].n - lines[c].values[1].n /\ paid > 0

\* It is the only number, which is not one of a business or a phone; or there
\* is none.
Alone(lines, paid) ==
  \/ paid = NULL /\ \A i \in DOMAIN lines : lines[i].values = <<>>
  \/ /\ \E i \in DOMAIN lines : Numbers(lines, i) # {} /\ ~Suspect(lines, i)
     /\ \A i \in DOMAIN lines : \A n \in DOMAIN lines[i].values : lines[i].values[n].n = paid

Charged(lines, paid) ==
  InLine(lines, paid) \/ BelowLabel(lines, paid) \/ HandedOver(lines, paid) \/ Alone(lines, paid)
====
