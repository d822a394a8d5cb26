------------------------------- MODULE Ledger -------------------------------
(***************************************************************************)
(* Filling an audit ledger (services/template_ledger.py): the sheet of a   *)
(* template holds a section for each month, from its title row over a      *)
(* header row and example rows to its settlement row; the example rows     *)
(* give way to the evidences of the month.                                 *)
(*                                                                         *)
(* A row of a sheet is a record: the month its title opens or closes, and  *)
(* the header keys each of its cells contains; a row that was written      *)
(* holds the values by key, wherever their columns are; one of the         *)
(* template holds none.                                                    *)
(***************************************************************************)
EXTENDS Ordering, SequencesExt

CONSTANTS
  NULL,
  HeaderWindow,  \* the rows after a title in which its header is looked for
  CloseWindow    \* the rows after a header in which its settlement row is

\* _LEDGER_HEADER_ALIASES, and those _find_ledger_header_row requires
LedgerKeys ==
  {"date", "category", "item", "income", "expense", "balance", "memo", "receipt"}
RequiredKeys == {"date", "category", "item", "income", "expense"}

\* columns of _find_ledger_header_row: the first column for each key
ColumnsOf(row) ==
  LET Columns(k) == {c \in DOMAIN row.cells : k \in row.cells[c]}
  IN  [k \in {x \in LedgerKeys : Columns(x) # {}} |-> Min(Columns(k))]

IsLedgerHeader(row) == RequiredKeys \subseteq DOMAIN ColumnsOf(row)

\* detect_audit_ledger_mapping: the keys that have a column, {} for no ledger
LedgerColumns(sheet) ==
  LET headers == {r \in DOMAIN sheet : r <= 120 /\ IsLedgerHeader(sheet[r])}
  IN  IF headers = {} THEN {} ELSE DOMAIN ColumnsOf(sheet[Min(headers)])

-----------------------------------------------------------------------------
(* The mapped cells.  A text is a record: the month a title that begins     *)
(* with it opens or closes, and the header keys it contains.                *)

\* A row nothing was written to yet.
Bare == [opens |-> NULL, closes |-> NULL, cells |-> <<>>, holds |-> <<>>]

\* A cell the row does not reach is empty.
CellAt(row, c) == IF c \in DOMAIN row.cells THEN row.cells[c] ELSE {}

\* sheet[cell_addr] = value: the sheet and the row reach at least to the cell.
Put(sheet, r, c, text) ==
  LET row == IF r \in DOMAIN sheet THEN sheet[r] ELSE Bare
      width == IF Len(row.cells) < c THEN c ELSE Len(row.cells)
      height == IF Len(sheet) < r THEN r ELSE Len(sheet)
      put == [opens |-> IF c = 1 THEN text.opens ELSE row.opens,
              closes |-> IF c = 1 THEN text.closes ELSE row.closes,
              cells |-> [k \in 1 .. width |-> IF k = c THEN text.keys ELSE CellAt(row, k)],
              holds |-> row.holds]
  IN  [q \in 1 .. height |->
         IF q = r THEN put ELSE IF q \in DOMAIN sheet THEN sheet[q] ELSE Bare]

\* render_settlement_excel with the mapping of a detected ledger: before any
\* section is looked for the title goes into A3 and the date into G1.
Headed(sheet, title) ==
  Put(Put(sheet, 3, 1, title), 1, 7, [opens |-> NULL, closes |-> NULL, keys |-> {}])

-----------------------------------------------------------------------------
(* _parse_month_sections                                                    *)

\* The first row after r, fewer than n rows away, for which Test holds, or 0.
FirstAfter(sheet, r, n, Test(_)) ==
  LET found == {q \in DOMAIN sheet : r < q /\ q < r + n /\ Test(sheet[q])}
  IN  IF found = {} THEN 0 ELSE Min(found)

\* The section a title row opens: its header and its settlement row, or 0.
SectionAt(sheet, r) ==
  LET header == FirstAfter(sheet, r, HeaderWindow, IsLedgerHeader)
      close == IF header = 0 THEN 0
               ELSE FirstAfter(sheet, header, CloseWindow,
                               LAMBDA row : row.closes = sheet[r].opens)
  IN  [month |-> sheet[r].opens, title |-> r, header |-> header, close |-> close]

\* The sections of the first rows, in their order: a title opens one if it is
\* complete and does not stand inside the one before.
Sections(sheet) ==
  LET upTo[r \in 0 .. Len(sheet)] ==
        IF r = 0 THEN <<>>
        ELSE IF \/ sheet[r].opens = NULL \/ SectionAt(sheet, r).close = 0
                \/ upTo[r - 1] # <<>> /\ r <= Last(upTo[r - 1]).close
        THEN upTo[r - 1]
        ELSE Append(upTo[r - 1], SectionAt(sheet, r))
  IN  upTo[Len(sheet)]

-----------------------------------------------------------------------------
(* fill_audit_ledger.  An evidence is a record: id, date (the number        *)
(* yyyymmdd), created_at, amount, refund, group.                            *)

MonthOf(date) == (date \div 100) % 100

\* The order of the evidences of a month: by date and upload, the undated last.
ByDate(e, f) ==
  \/ e.date = f.date /\ e.created_at < f.created_at
  \/ e.date # NULL /\ (f.date = NULL \/ e.date < f.date)

\* by_month, with the undated evidences in the first section's month
MonthEvidences(sections, E, month) ==
  {e \in E : e.date # NULL /\ MonthOf(e.date) = month}
    \cup (IF month = sections[1].month THEN {e \in E : e.date = NULL} ELSE {})

\* _evidence_income_expense
Income(e) ==
  IF ~e.refund \/ e.amount = NULL THEN 0 ELSE IF e.amount < 0 THEN -e.amount ELSE e.amount
Expense(e) ==
  IF e.refund \/ e.amount = NULL THEN 0 ELSE IF e.amount < 0 THEN -e.amount ELSE e.amount

\* groups: the evidences of a label, under the first of them; the groups stand
\* in the order of these.
GroupOf(es, e) == {f \in es : f.group = e.group}
FirstOf(es, e) ==
  CHOOSE f \in GroupOf(es, e) : \A g \in GroupOf(es, e) \ {f} : ByDate(f, g)

\* The lines of a month: an evidence, and FALSE; or the first evidence of a
\* group, and TRUE, for its subtotal, when the month uses labels at all.
Labelled(es) == \E e \in es : e.group # NULL
Lines(es) ==
  (es \X {FALSE})
    \cup (IF Labelled(es) THEN {FirstOf(es, e) : e \in es} \X {TRUE} ELSE {})

\* Group after group, each with its subtotal below.
Above(es, x, y) ==
  LET first == FirstOf(es, x[1])
      other == FirstOf(es, y[1])
  IN  \/ first # other /\ ByDate(first, other)
      \/ first = other /\ ~x[2] /\ (y[2] \/ ByDate(x[1], y[1]))

\* A row that holds values: those whose key has a column.
Written(columns, values) ==
  [opens |-> NULL, closes |-> NULL, cells |-> <<>>,
   holds |-> [k \in (columns \cap DOMAIN values) \cup {"of"} |-> values[k]]]

OrNone(n) == IF n = 0 THEN NULL ELSE n

\* _write_evidence_row: seq and the balance count the evidences above and it
EvidenceRow(columns, es, e) ==
  LET done == {f \in es : f = e \/ Above(es, <<f, FALSE>>, <<e, FALSE>>)}
  IN  Written(columns,
        [of |-> e.id, date |-> e.date,
         category |-> IF ~Labelled(es) THEN "budget category"
                      ELSE IF e # FirstOf(es, e) THEN "same group"
                      ELSE IF e.group = NULL THEN "ungrouped" ELSE e.group,
         item |-> e.id, income |-> OrNone(Income(e)), expense |-> OrNone(Expense(e)),
         balance |-> MapThenSumSet(Income, done) - MapThenSumSet(Expense, done),
         memo |-> NULL, receipt |-> Cardinality(done)])

\* _write_subtotal_row
SubtotalRow(columns, group, label) ==
  Written(columns, [of |-> NULL, item |-> label, income |-> MapThenSumSet(Income, group),
                    expense |-> MapThenSumSet(Expense, group)])

\* The rows of a month.
MonthRows(columns, es) ==
  LET lines == Ordered(Lines(es), {p \in Lines(es) \X Lines(es) : Above(es, p[1], p[2])})
      row(line) == IF line[2] THEN SubtotalRow(columns, GroupOf(es, line[1]), line[1].group)
                   ELSE EvidenceRow(columns, es, line[1])
  IN  [n \in DOMAIN lines |-> row(lines[n])]

\* One section: its example rows deleted, the rows of the month inserted, its
\* settlement row rewritten; a month without evidences keeps its examples.
FillSection(sheet, columns, section, es) ==
  LET total == Written(columns,
                 [of |-> NULL, income |-> MapThenSumSet(Income, es),
                  expense |-> MapThenSumSet(Expense, es),
                  balance |-> MapThenSumSet(Income, es) - MapThenSumSet(Expense, es)]).holds
  IN  IF es = {} THEN sheet
      ELSE SubSeq(sheet, 1, section.header) \o MonthRows(columns, es)
             \o <<[sheet[section.close] EXCEPT !.holds = total]>>
             \o SubSeq(sheet, section.close + 1, Len(sheet))

\* Mutant of BottomUp: from the first one down.
TopDown(sections) == sections

\* The sections are filled from the last one up, for filling moves the rows
\* below: sorted by settlement_row, reverse.
BottomUp(sections) == Reverse(sections)

\* fill_audit_ledger, after n of the sections
Fill(sheet, columns, E) ==
  LET sections == Sections(sheet)
      order == BottomUp(sections)
      filled[n \in 0 .. Len(sections)] ==
        IF n = 0 THEN sheet
        ELSE FillSection(filled[n - 1], columns, order[n],
                         MonthEvidences(sections, E, order[n].month))
  IN  filled[Len(sections)]
=============================================================================
