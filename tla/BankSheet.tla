----------------------------- MODULE BankSheet -----------------------------
(***************************************************************************)
(* Reading a bank statement (services/bank_statement.py): the cells of a   *)
(* sheet, as the three readers return them, the search for the header row, *)
(* and the transactions of the rows below it.                              *)
(*                                                                         *)
(* A cell is a record: the header keywords its text contains, and what the *)
(* coercions make of it (a date, a number, a word).  How texts are split,  *)
(* stripped and parsed is behind these fields, and so is the type a reader *)
(* gives a value: the rows of the readers are compared, not their cells.   *)
(***************************************************************************)
EXTENDS Ordering, SequencesExt

CONSTANTS
  NULL,
  HeaderScanRows  \* _MAX_HEADER_SCAN_ROWS

\* The columns _find_header_row looks for; an amount column is only one whose
\* cell names neither withdrawals nor deposits.
ColumnKeys == {"date", "description", "memo", "type", "withdrawal", "deposit", "amount"}

Blank == [words |-> {}, date |-> NULL, num |-> NULL, text |-> NULL]
Heading(words) == [Blank EXCEPT !.words = words]
DateCell(d) == [Blank EXCEPT !.date = d]
NumCell(n) == [Blank EXCEPT !.num = n]
TextCell(t) == [Blank EXCEPT !.text = t]

-----------------------------------------------------------------------------
(* The readers.  A file is the format it is stored in and its filled cells, *)
(* a function from <<row, column>>.                                         *)

LastRow(cells) == Max({0} \cup {at[1] : at \in DOMAIN cells})
LastColumn(cells) == Max({0} \cup {at[2] : at \in DOMAIN cells})

CellAt(cells, r, c) == IF <<r, c>> \in DOMAIN cells THEN cells[<<r, c>>] ELSE Blank

\* sheet.iter_rows (openpyxl), and the row loop of _read_rows_xls: every row
\* down to the last, every column up to the last
DenseRows(cells) ==
  [r \in 1 .. LastRow(cells) |->
     [c \in 1 .. LastColumn(cells) |-> CellAt(cells, r, c)]]

\* _read_rows_xlsx_via_xml: the rows that hold a cell, in their order
SparseRows(cells) ==
  LET filled == Upward({at[1] : at \in DOMAIN cells})
  IN  [i \in DOMAIN filled |->
         [c \in 1 .. LastColumn(cells) |-> CellAt(cells, filled[i], c)]]

\* read_excel_sheet_rows, _read_rows_xlsx: openpyxl finds no sheet in a strict
\* OOXML file, and the XML is read instead
Rows(file) == IF file.format = "strict" THEN SparseRows(file.cells) ELSE DenseRows(file.cells)

-----------------------------------------------------------------------------
(* The header row                                                           *)

\* Mutant of Keys: the heading of the withdrawals also says "amount".
KeysGeneric(cell) == cell.words

\* What a heading may stand for.
Keys(cell) ==
  IF cell.words \cap {"withdrawal", "deposit"} = {} THEN cell.words
  ELSE cell.words \ {"amount"}

\* column_map: the first column for each key
ColumnMap(row) ==
  LET Columns(k) == {c \in DOMAIN row : k \in Keys(row[c])}
  IN  [k \in {x \in ColumnKeys : Columns(x) # {}} |-> Min(Columns(k))]

IsHeader(row) ==
  LET found == DOMAIN ColumnMap(row)
  IN  "date" \in found /\ found \cap {"amount", "withdrawal", "deposit"} # {}

\* _find_header_row, 0 where it raises BankStatementParseError
HeaderRow(rows) ==
  LET candidates == {r \in DOMAIN rows : r <= HeaderScanRows /\ IsHeader(rows[r])}
  IN  IF candidates = {} THEN 0 ELSE Min(candidates)

-----------------------------------------------------------------------------
(* The transactions                                                         *)

\* _safe_get
Get(row, columns, k) == IF k \in DOMAIN columns THEN row[columns[k]] ELSE Blank

Magnitude(n) == IF n < 0 THEN -n ELSE n

\* _resolve_amount, NULL where there is none
AmountOf(row, columns) ==
  LET n == Get(row, columns, "amount").num
      way == Get(row, columns, "type").text
      out == Get(row, columns, "withdrawal").num
      in == Get(row, columns, "deposit").num
  IN  IF "amount" \in DOMAIN columns
      THEN IF n = NULL \/ "type" \notin DOMAIN columns THEN n
           ELSE CASE way = "withdrawal" -> -Magnitude(n)
                  [] way = "deposit" -> Magnitude(n)
                  [] OTHER -> n
      ELSE CASE out # NULL /\ out # 0 -> -Magnitude(out)
             [] (out = NULL \/ out = 0) /\ in # NULL /\ in # 0 -> Magnitude(in)
             [] OTHER -> NULL

\* The transaction of a row of parse_bank_statement_bytes, the two parts of its
\* description side by side; a blank row has no date either.
Transaction(row, columns) ==
  [date |-> Get(row, columns, "date").date,
   description |-> Get(row, columns, "description").text,
   memo |-> Get(row, columns, "memo").text,
   amount |-> AmountOf(row, columns)]

\* parse_bank_statement_bytes: the error, or the transactions of the rows that
\* have a date and an amount
Parse(file) ==
  LET rows == Rows(file)
      header == HeaderRow(rows)
  IN  IF header = 0 THEN [ok |-> FALSE, transactions |-> <<>>]
      ELSE LET columns == ColumnMap(rows[header])
               all == [r \in DOMAIN rows |-> Transaction(rows[r], columns)]
           IN  [ok |-> TRUE,
                transactions |->
                  Picked(all, {r \in header + 1 .. Len(rows) :
                                 all[r].date # NULL /\ all[r].amount # NULL})]

-----------------------------------------------------------------------------
(* What a sheet says, in the layouts the module documents.                  *)

\* A heading names a key; one of withdrawals or deposits does not name the amount.
Names(heading, k) ==
  k \in heading.words /\ (k = "amount" => heading.words \cap {"withdrawal", "deposit"} = {})

Headings(cells, h, k) == {c \in 1 .. LastColumn(cells) : Names(CellAt(cells, h, c), k)}

IsHeading(cells, h) ==
  /\ Headings(cells, h, "date") # {}
  /\ \E k \in {"amount", "withdrawal", "deposit"} : Headings(cells, h, k) # {}

\* The cell of row r under the heading in row h that names k.
Under(cells, h, r, k) ==
  IF Headings(cells, h, k) = {} THEN Blank
  ELSE CellAt(cells, r, CHOOSE c \in Headings(cells, h, k) : TRUE)

\* Row r tells a movement: by a signed amount, by an amount and its way, or by
\* one of two amounts.
Tells(cells, h, r, m) ==
  LET told(k) == Under(cells, h, r, k)
      sized(k) == told(k).num \in {m.amount, -m.amount}
      headed(k) == Headings(cells, h, k) # {}
      way == IF m.amount < 0 THEN "withdrawal" ELSE "deposit"
  IN  /\ m = [date |-> told("date").date, description |-> told("description").text,
              memo |-> told("memo").text, amount |-> m.amount]
      /\ m.date # NULL /\ m.amount \in Int
      /\ \/ headed("amount") /\ ~headed("type") /\ told("amount").num = m.amount
         \/ headed("amount") /\ headed("type") /\ sized("amount") /\ told("type").text = way
         \/ /\ ~headed("amount") /\ m.amount # 0 /\ sized(way)
            /\ way = "withdrawal" \/ told("withdrawal").num \in {NULL, 0}

\* A sheet says that there were these movements: each in a row below a heading
\* that names every key once and is the first of all, and the other rows have
\* no date or no number; or it has no such heading, and says nothing.
States(sheet, movements) ==
  LET cells == sheet.cells
      last == LastRow(cells)
  IN  \/ movements = <<>> /\ \A r \in 1 .. last : ~IsHeading(cells, r)
      \/ \E h \in 1 .. last :
           /\ h <= HeaderScanRows /\ IsHeading(cells, h)
           /\ \A r \in 1 .. h - 1 : ~IsHeading(cells, r)
           /\ \A k \in ColumnKeys : \A c, d \in Headings(cells, h, k) : c = d
           /\ \E line \in [1 .. Len(movements) -> h + 1 .. last] :
                /\ \A i, j \in DOMAIN line : i < j => line[i] < line[j]
                /\ \A i \in DOMAIN line : Tells(cells, h, line[i], movements[i])
                /\ \A r \in h + 1 .. last : (\A i \in DOMAIN line : line[i] # r) =>
                     \/ Under(cells, h, r, "date").date = NULL
                     \/ \A k \in {"amount", "withdrawal", "deposit"} :
                          Under(cells, h, r, k).num = NULL
=============================================================================
