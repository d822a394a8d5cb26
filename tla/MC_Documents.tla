---------------------------- MODULE MC_Documents ----------------------------
(***************************************************************************)
(* Instances of Documents: two organizations of a college and one of       *)
(* another, with a president, an auditor, a student of the college and one *)
(* of elsewhere.  What is on record when the requests come is what earlier *)
(* requests may have left.                                                 *)
(***************************************************************************)
EXTENDS Documents, TLC

CONSTANTS o1, o2, o3, pres, aud, stu, far, s1, s2, s3, e1, e2, e3, e4, g1, g2,
  r1, r2, r3

MCOrganization ==
  (o1 :> [college |-> "A", department |-> "x", year |-> 2026, created_at |-> 1])
    @@ (o2 :> [college |-> "A", department |-> "y", year |-> 2026, created_at |-> 2])
    @@ (o3 :> [college |-> "B", department |-> "x", year |-> 2026, created_at |-> 3])

MCAccount ==
  (pres :> [college |-> NULL, department |-> NULL])
    @@ (aud :> [college |-> "B", department |-> NULL])
    @@ (stu :> [college |-> "A", department |-> "y"])
    @@ (far :> [college |-> "B", department |-> "z"])

\* The auditor has seats in both organizations of the college.
MCSeats ==
  {[id |-> 1, user |-> pres, role |-> "president", org |-> o1, primary |-> TRUE, created_at |-> 4],
   [id |-> 2, user |-> pres, role |-> "treasurer", org |-> o2, primary |-> FALSE, created_at |-> 5],
   [id |-> 3, user |-> aud, role |-> "auditor", org |-> o2, primary |-> FALSE, created_at |-> 6],
   [id |-> 4, user |-> aud, role |-> "auditor", org |-> o1, primary |-> FALSE, created_at |-> 7]}

Spring == [year |-> 2026, semester |-> "1"]
Summer == [year |-> 2026, semester |-> "summer"]

\* A settlement created at t, as far as it got; one that was approved and
\* published while another auditor was about to reject it is overtaken.
Settlement(o, p, t, stage, views) ==
  LET at(k, stages) == IF stage \in stages THEN t + k ELSE NULL
      row ==
        [org |-> o, academic_year |-> p.year, semester |-> p.semester,
         status |-> CASE stage = "published" -> "approved"
                     [] stage = "overtaken" -> "rejected"
                     [] OTHER -> stage,
         submitted_at |-> at(3, {"submitted", "rejected", "approved", "published", "overtaken"}),
         audited_at |-> at(4, {"rejected", "approved", "published", "overtaken"}),
         published_at |-> at(5, {"published", "overtaken"}),
         created_at |-> t, updated_at |-> t, view_count |-> views]
  IN  [row EXCEPT !.updated_at = LastActivity(row)]

Evidence(s, t, amount, refund, date, group) ==
  [settlement |-> s, amount |-> amount, refund |-> refund, date |-> date,
   group |-> group, file |-> TRUE, created_at |-> t]

Movement(d, n) == [date |-> d, description |-> "shop", memo |-> NULL, amount |-> n]

Empty ==
  [now |-> 50, plan |-> [r \in Requests |-> "none"],
   settlements |-> [s \in Settlements |-> NULL], evidences |-> [e \in Evidences |-> NULL],
   comments |-> {}, uploads |-> {}, results |-> {}, artifacts |-> {},
   periods |-> {Spring}, amounts |-> {700}, statements |-> {}, templates |-> {}, titles |-> {},
   settings |-> {}, files |-> {}]

\* The first settlement has an evidence and a refund from before its
\* submission, and a third evidence that came in after its publication, if it
\* was published.  The second one is of another organization or period, or of
\* the same.
Twin == Settlement(o1, Spring, 30, "published", 0)
Second ==
  {NULL, Twin, Settlement(o1, Summer, 30, "draft", 0),
   Settlement(o2, Spring, 30, "published", 3), Settlement(o3, Spring, 30, "published", 0)}

Archive(stage, second) ==
  [Empty EXCEPT
     !.settlements[s1] = Settlement(o1, Spring, 20, stage, 5),
     !.settlements[s2] = second,
     !.evidences[e1] = Evidence(s1, 21, 300, FALSE, NULL, g1),
     !.evidences[e2] = Evidence(s1, 22, 100, TRUE, NULL, NULL),
     !.evidences[e3] = IF second # NULL THEN Evidence(s2, 31, -200, FALSE, NULL, NULL)
                       ELSE IF stage \in {"published", "overtaken"} THEN Evidence(s1, 26, 50, FALSE, NULL, g1)
                       ELSE NULL,
     !.comments = IF stage = "draft" THEN {}
                  ELSE {[settlement |-> s1, author |-> 3, created_at |-> 27,
                         evidence |-> e1, text |-> "earlier"]},
     !.uploads = {[id |-> 28, settlement |-> s1, status |-> "completed",
                   transactions |-> <<Movement(1, -300)>>,
                   file |-> [movements |-> <<Movement(1, -300)>>]]},
     !.results = {[id |-> 1, settlement |-> s1, status |-> "matched", upload |-> 28, evidence |-> e1],
                  [id |-> 2, settlement |-> s1, status |-> "missing_bank_transaction", upload |-> NULL, evidence |-> e2]},
     !.artifacts = {[id |-> <<23, "settlement_excel">>, settlement |-> s1, status |-> "completed", file |-> TRUE],
                    [id |-> <<23, "evidence_pdf">>, settlement |-> s1, status |-> "failed", file |-> FALSE]}]

Archives(seconds) ==
  {Archive(stage, second) :
     stage \in {"draft", "submitted", "rejected", "approved", "published", "overtaken"},
     second \in seconds}

\* One request of any kind, or two of those that change what others read; the
\* requests are interchangeable and the plans in order.  Two of them meet over
\* one settlement: another one they would only read is left out, but for one of
\* the same organization and period.
Loners == <<"comment", "reword", "drop", "create", "discard">>
Actors == <<"view", "upload", "amend", "submit", "resubmit", "approve", "reject", "publish">>

Plan(a, b, c) == (r1 :> a) @@ (r2 :> b) @@ (r3 :> c)

Single == {Plan(a, "none", "none") : a \in ToSet(Loners) \cup ToSet(Actors)}

Pairs ==
  {Plan("amend", "discard", "none")} \cup
    {Plan(Actors[x[1]], Actors[x[2]], "none") :
       x \in {y \in (1 .. Len(Actors)) \X (1 .. Len(Actors)) : y[1] <= y[2]}}

Asked(worlds, plans) == {[w EXCEPT !.plan = p] : w \in worlds, p \in plans}

-----------------------------------------------------------------------------
(* Statements, in the layouts services/bank_statement.py documents.         *)

Movements ==
  {<<>>, <<Movement(1, -300)>>, <<Movement(1, 200), Movement(2, -300)>>,
   <<Movement(2, -300), Movement(1, -300), Movement(1, 200)>>}

Headings ==
  [signed |-> <<{"date"}, {"description"}, {"amount"}>>,
   typed  |-> <<{"date"}, {"type"}, {"amount"}, {"description"}>>,
   pair   |-> <<{"date"}, {"withdrawal", "amount"}, {"deposit", "amount"}, {"description"}>>,
   mixed  |-> <<{"description"}, {"deposit"}, {"withdrawal"}, {"date"}>>]

\* The cells of a movement, by the keyword that tells its column.
CellFor(m, heading, typed) ==
  LET size == IF m.amount < 0 THEN -m.amount ELSE m.amount
  IN  CASE "date" \in heading -> Bank!DateCell(m.date)
        [] "description" \in heading -> Bank!TextCell(m.description)
        [] "type" \in heading -> Bank!TextCell(IF m.amount < 0 THEN "withdrawal" ELSE "deposit")
        [] "withdrawal" \in heading -> IF m.amount < 0 THEN Bank!NumCell(size) ELSE Bank!Blank
        [] "deposit" \in heading -> IF m.amount < 0 THEN Bank!NumCell(0) ELSE Bank!NumCell(size)
        [] OTHER -> Bank!NumCell(IF typed THEN size ELSE m.amount)

\* The sheet of a statement: what the bank puts above the table, the heading,
\* the movements behind an empty row or not, and the line of totals.
Rendered(kind, movements, above, gap, totals) ==
  LET heading == Headings[kind]
      line(m) == [c \in DOMAIN heading |-> CellFor(m, heading[c], kind = "typed")]
  IN  above \o <<[c \in DOMAIN heading |-> Bank!Heading(heading[c])]>>
        \o (IF gap THEN << <<>> >> ELSE <<>>)
        \o [i \in DOMAIN movements |-> line(movements[i])]
        \o (IF totals THEN << <<Bank!TextCell("total"), Bank!NumCell(999)>> >> ELSE <<>>)

\* The filled cells of a sheet.
Filled(rows) ==
  LET at == {<<r, c>> : r \in DOMAIN rows, c \in 1 .. 4}
      cell(x) == IF x[2] \in DOMAIN rows[x[1]] THEN rows[x[1]][x[2]] ELSE Bank!Blank
  IN  [x \in {y \in at : cell(y) # Bank!Blank} |-> cell(x)]

Above ==
  {<<>>, << <<>> >>, << <<Bank!TextCell("holder")>>, <<>> >>,
   << <<Bank!Heading({"date"}), Bank!DateCell(9)>>, <<Bank!Heading({"amount"})>> >>}

StatementOf(kind, movements, above, gap, totals, format) ==
  [movements |-> movements,
   sheet |-> [format |-> format, cells |-> Filled(Rendered(kind, movements, above, gap, totals))]]

Unreadable ==
  [movements |-> <<>>,
   sheet |-> [format |-> "xlsx", cells |-> Filled(<< <<Bank!Heading({"date"})>>, <<Bank!DateCell(1)>> >>)]]

MCStatements ==
  {Unreadable} \cup
  {StatementOf(kind, movements, above, gap, totals, format) :
     kind \in DOMAIN Headings, movements \in Movements, above \in Above,
     gap \in BOOLEAN, totals \in BOOLEAN, format \in {"xls", "xlsx", "strict"}}

-----------------------------------------------------------------------------
(* Ledgers                                                                  *)

Plain == [opens |-> NULL, closes |-> NULL, cells |-> <<>>, holds |-> <<>>]
Title(month) == [Plain EXCEPT !.opens = month]
Close(month) == [Plain EXCEPT !.closes = month]
Header == [Plain EXCEPT !.cells =
  <<{"date"}, {"category"}, {"item"}, {"income"}, {"expense"}, {"balance"}, {"memo"}, {"receipt"}>>]
Short == [Plain EXCEPT !.cells = <<{"item"}, {"date"}, {"expense"}, {"category"}, {"income"}>>]

\* The title, a name of no consequence, may also begin like that of a section or
\* its end, or contain all the words of a header.
Name == [opens |-> NULL, closes |-> NULL, keys |-> {}]
MCTitles ==
  {Name, [Name EXCEPT !.opens = 3], [Name EXCEPT !.closes = 3],
   [Name EXCEPT !.keys = Book!RequiredKeys]}

\* The usual one below a heading, and one whose first month has its header in
\* the row of the title; one whose first month has its header too far below, one
\* without a settlement row for it, one with a month told twice, one with no more
\* columns than it needs, and one without a row for the title.
MCTemplates ==
  {<<Plain, Plain, Plain, Plain, Title(3), Header, Plain, Plain, Close(3), Plain, Title(4), Header, Plain, Close(4), Plain>>,
   <<Plain, Title(3), Header, Plain, Plain, Close(3), Plain, Title(4), Plain, Header, Close(4), Plain>>,
   <<Title(3), Plain, Plain, Header, Plain, Close(3), Title(4), Header, Plain, Close(4)>>,
   <<Title(3), Header, Plain, Title(4), Header, Plain, Close(4)>>,
   <<Title(4), Header, Plain, Plain, Plain, Close(4), Title(4), Header, Close(4), Title(3), Header, Close(3)>>,
   <<Plain, Title(4), Plain, Short, Plain, Close(4), Title(3), Short, Plain, Close(3)>>,
   <<Title(4), Short>>}

LedgerRows ==
  {NULL, Evidence(s1, 0, 300, FALSE, 20260305, g1), Evidence(s1, 0, 100, TRUE, 20260305, NULL),
   Evidence(s1, 0, -50, FALSE, 20250301, g1), Evidence(s1, 0, 70, FALSE, NULL, g2),
   Evidence(s1, 0, NULL, FALSE, 20260412, g2), Evidence(s1, 0, 40, FALSE, 20260401, NULL),
   Evidence(s1, 0, 20, FALSE, 20260501, NULL)}

Stamped(row, t) == IF row = NULL THEN NULL ELSE [row EXCEPT !.created_at = t]

LedgerWorlds ==
  {[Empty EXCEPT !.settlements[s1] = Settlement(o1, Spring, 20, "draft", 0),
                 !.evidences[e1] = Stamped(a, 21), !.evidences[e2] = Stamped(b, 22),
                 !.evidences[e3] = Stamped(c, 23), !.templates = MCTemplates,
                 !.titles = MCTitles] :
     a \in LedgerRows, b \in LedgerRows, c \in LedgerRows}

StatementWorlds ==
  {[Empty EXCEPT !.settlements[s1] = Settlement(o1, Spring, 20, "draft", 0),
                 !.statements = MCStatements]}

-----------------------------------------------------------------------------
(* Previews                                                                 *)

\* What a pass may make of a photo: all of it; less, and the amount misread;
\* the same misreading, and another spelling of the shop; a text in which
\* nothing is found; nothing.
Shop(name) == [key |-> "k", name |-> name]
Page(date, merchant, amount, payment, lines, confidence) ==
  [date |-> date, merchant |-> merchant, amount |-> amount, payment |-> payment,
   lines |-> lines, length |-> lines, confidence |-> confidence]

Good == Page(305, Shop("a"), 500, "card", 8, 9)
Poor == Page(306, NULL, 5000, NULL, 9, 10)
Dim == Page(305, Shop("A"), 5000, "cash", 4, 3)
Dumb == Page(NULL, NULL, NULL, NULL, 2, 5)
None == Page(NULL, NULL, NULL, NULL, 0, 0)
Pages == {Good, Poor, Dim, Dumb, None}

\* The picture every other pass gets: it is not looked at when it must not be.
Photo(type, pages, replies) ==
  [kind |-> "photo", type |-> type, replies |-> replies,
   pages |-> [v \in ToSet(Reader!Priority) |-> IF v \in DOMAIN pages THEN pages[v] ELSE NULL]]

Says(what) ==
  [says |-> what,
   json |-> [date |-> 305, merchant |-> Shop("a"), amount |-> 500, type |-> "e_receipt",
             category |-> "books", refund |-> TRUE]]

Replies == {<<Says(a), Says(b), Says(c)>> :
              a, b, c \in {"answer", "busy", "denied", "cut"}}

Paper == "physical_receipt"

\* The three passes of a limited run, and the four of a file that is not paper.
Limited == {Photo(Paper, p, <<>>) :
              p \in [{"document_enhanced", "background_cropped", "original"} -> Pages \cup {NULL}]}
Whole == {Photo("e_receipt", p, <<>>) : p \in [ToSet(Reader!Variants("e_receipt")) -> Pages]}

Sent == {Photo(Paper, [v \in ToSet(Reader!Priority) |-> page], replies) :
           page \in {Poor, None, NULL}, replies \in Replies}

\* The lines of a receipt, one under the other.
Line(words, values, dates) ==
  [words |-> words, dates |-> dates,
   values |-> [n \in DOMAIN values |->
                 [n |-> values[n], digits |-> Len(ToString(values[n]))]]]

Placed(lines) ==
  [i \in DOMAIN lines |-> [words |-> lines[i].words, values |-> lines[i].values,
     dates |-> lines[i].dates, top |-> 20 * (i - 1), bottom |-> 20 * (i - 1) + 12]]

Day(year, day) == [year |-> year, day |-> day]

Heads == {<<>>, <<Line({"number", "reject"}, <<123, 67890>>, <<>>), Line({"number"}, <<4567>>, <<>>)>>}

\* The day of the purchase, and another date above, right above or below.
Stated == Line({"day"}, <<>>, <<Day(2026, 321)>>)
Other(year) == Line({}, <<>>, <<Day(year, 120)>>)
Blank == Line({}, <<>>, <<>>)
Days == {<<>>, <<Stated>>, <<Stated, Other(2026)>>, <<Other(2024), Stated>>,
         <<Other(2026), Stated>>, <<Other(2026), Blank, Stated>>}

Price(n) == Line({}, <<n>>, <<>>)
Goods == {<<>>, <<Price(4500)>>, <<Price(2000), Price(2500)>>,
          <<Price(1500), Price(1500), Price(1500)>>}
Taxes == {<<>>, <<Line({"item"}, <<4091>>, <<>>), Line({"item"}, <<409>>, <<>>)>>}

\* The total: on one line, with its unit, below its label, after a discount.
Totals ==
  {<<Line({"total", "paid"}, <<4500>>, <<>>)>>,
   <<Line({"total", "won"}, <<4500>>, <<>>)>>,
   <<Line({"total", "paid"}, <<>>, <<>>), Price(4500)>>,
   <<Line({"total", "paid"}, <<5000>>, <<>>), Line({"item"}, <<500>>, <<>>),
     Line({"total", "paid", "won"}, <<4500>>, <<>>)>>}

Ends4500 ==
  {<<>>,
   <<Line({"received", "tender", "cash"}, <<10000>>, <<>>),
     Line({"change", "tender", "cash"}, <<5500>>, <<>>)>>,
   <<Line({"card", "paid", "reject"}, <<12345678>>, <<>>)>>}

Slips ==
  {[kind |-> "pdf", type |-> Paper,
    date |-> IF days = <<>> THEN NULL ELSE Day(2026, 321), paid |-> 4500,
    page |-> [shop |-> Shop("a"),
              lines |-> Placed(head \o days \o goods \o taxes \o total \o end)]] :
     head \in Heads, days \in Days, goods \in Goods, taxes \in Taxes, total \in Totals,
     end \in Ends4500}

\* Cash given and returned, and no total; and a page without text.
Documented ==
  {[kind |-> "pdf", type |-> Paper, date |-> NULL, paid |-> 4500,
    page |-> [shop |-> NULL, lines |-> Placed(end)]] :
     end \in {e \in Ends4500 : \E i \in DOMAIN e : "change" \in e[i].words}}
  \cup {[kind |-> "pdf", type |-> Paper, date |-> NULL, paid |-> NULL,
         page |-> [shop |-> NULL, lines |-> <<>>]],
        [kind |-> "pdf", type |-> Paper, page |-> NULL],
        [kind |-> "sheet", type |-> Paper]}

Setting(provider, configured, fallback, mode, cap) ==
  [provider |-> provider, configured |-> configured, fallback |-> fallback,
   mode |-> mode, cap |-> cap]

Local(mode, cap) == Setting("local", FALSE, TRUE, mode, cap)

Reading(settings, files) ==
  Asked({[Empty EXCEPT !.settings = settings, !.files = files]},
        {Plan("preview", "none", "none")})

PreviewWorlds ==
  Reading({Local("local", 3), Local("local", 1)}, Limited)
    \cup Reading({Local("local", 0), Local("modal", 3)}, Whole)
    \cup Reading({Local("local", 3)}, Slips \cup Documented)
    \cup Reading({Setting(provider, configured, fallback, mode, 3) :
                    provider \in {"gemini", "clova"}, configured \in BOOLEAN,
                    fallback \in BOOLEAN, mode \in {"local", "modal"}}, Sent)

-----------------------------------------------------------------------------

MCWorlds ==
  Asked(Archives(Second), Single)
    \cup Asked(Archives({NULL, Twin}), Pairs)
    \cup Asked({Archive("published", NULL)}, {Plan("view", "view", "view")})
    \cup Asked(StatementWorlds, {Plan("statement", "none", "none")})
    \cup Asked(LedgerWorlds, {Plan("ledger", "none", "none")})
    \cup PreviewWorlds
=============================================================================
