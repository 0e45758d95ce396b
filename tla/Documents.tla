------------------------------- MODULE Documents ----------------------------
(***************************************************************************)
(* The documents of a book: what each writes to the ledger (postings.ts    *)
(* and the domain services), the allocation of receipts to invoices, the   *)
(* stock moves of a perpetual inventory, and how a document is deleted and *)
(* edited (documentService.ts).  A document is a row of the sources table; *)
(* it has a party of the customer or supplier role, or the member a        *)
(* capital movement is for; cash is the settlement account, "none" when    *)
(* the document is on credit; account is the expense, asset or funding     *)
(* account the user chose; units are the product units it moves; op is the  *)
(* shared operation that made it, if one did.                              *)
(***************************************************************************)
EXTENDS Ledger

CONSTANT UnitCost   \* the cost of one unit of the product kept in stock
ASSUME UnitCostAssumption == UnitCost \in Nat

Purchases == {"cash_purchase", "credit_purchase"}
Notes == {"credit_note", "debit_note"}
MemberMoves == {"capital_injection", "drawing"}
ManualCash == {"manual_cash_income", "manual_cash_expense"}
ManualBalances == {"manual_asset", "manual_liability"}
SourceTypes == {"cash_sale", "invoice", "receipt", "supplier_payment", "expense",
                "commission_payment", "opening_balance", "stock_adjust"}
               \cup Purchases \cup Notes \cup MemberMoves \cup ManualCash \cup ManualBalances

Doc(type, date, total) ==
  [type |-> type, op |-> 0, of |-> 0, date |-> date, total |-> total, tax |-> 0, party |-> "none",
   cash |-> "none", link |-> 0, account |-> "none", units |-> 0, reversed |-> FALSE]

-----------------------------------------------------------------------------
(* Receipts and invoices *)

Allocated(b, i) ==
  SumFunction([r \in {a \in b.allocs : a.invoice = i} |-> r.amount])

Consumed(b, s) ==
  SumFunction([r \in {a \in b.allocs : a.receipt = s} |-> r.amount])

NotesOf(b, i, type) == {n \in Live(b, {type}) : b.sources[n].link = i}

TotalOf(b, ss) == SumFunction([s \in ss |-> b.sources[s].total])

\* What is still to be paid of an invoice; the code asks it of reversed ones too.
InvoiceOpen(b, i) ==
  Max({0, b.sources[i].total + TotalOf(b, NotesOf(b, i, "debit_note"))
          - Allocated(b, i) - TotalOf(b, NotesOf(b, i, "credit_note"))})

Remaining(b, r) == b.sources[r].total - Consumed(b, r)

Advances(b, party) ==
  {r \in Live(b, {"receipt"}) : b.sources[r].party = party /\ Remaining(b, r) > 0}

AdvanceBalance(b, party) == SumFunction([r \in Advances(b, party) |-> Remaining(b, r)])

\* Advances are used up oldest first, and by identifier on one date: that of the
\* operation that made the receipt, or its place in a book that is not shared.
Before(d, n, e, m) == d < e \/ (d = e /\ n < m)

Older(b, r, s) ==
  LET name(t) == IF b.sources[t].op # 0 THEN b.sources[t].op ELSE t
  IN Before(b.sources[r].date, name(r), b.sources[s].date, name(s))

Applied(b, doc) == Min({AdvanceBalance(b, doc.party), doc.total})

Take(b, doc, r) ==
  Min({Remaining(b, r),
       Applied(b, doc) - SumFunction([q \in {a \in Advances(b, doc.party) : Older(b, a, r)} |->
                                       Remaining(b, q)])})

Row(invoice, receipt, amount) ==
  [born |-> invoice, invoice |-> invoice, receipt |-> receipt, amount |-> amount]

\* Variant: a row is written for every advance, used or not.
RowsOfAll(b, doc, apply) ==
  IF doc.type = "invoice"
  THEN {Row(Len(b.sources) + 1, r, Take(b, doc, r)) : r \in Advances(b, doc.party)}
  ELSE {Row(a.invoice, Len(b.sources) + 1, a.amount) : a \in apply}

\* The rows of the allocation table a document writes; a row keeps the invoice
\* it was made for, which with the receipt is its identity.
RowsOf(b, doc, apply) ==
  CASE doc.type = "invoice" ->
         {Row(Len(b.sources) + 1, r, Take(b, doc, r)) :
            r \in {q \in Advances(b, doc.party) : Take(b, doc, q) > 0}}
    [] doc.type = "receipt" -> {Row(a.invoice, Len(b.sources) + 1, a.amount) : a \in apply}
    [] OTHER -> {}

AppliedTotal(apply) == SumFunction([a \in apply |-> a.amount])

\* Each allocation is to an invoice of the same customer, within what is open of
\* it, and together they are within the receipt.
CanApply(b, doc, apply) ==
  /\ \A a \in apply : /\ b.sources[a.invoice].type = "invoice" /\ b.sources[a.invoice].of = 0
                      /\ b.sources[a.invoice].party = doc.party
                      /\ a.amount <= InvoiceOpen(b, a.invoice)
  /\ AppliedTotal(apply) <= doc.total

Invoices(b) ==
  {s \in DOMAIN b.sources : b.sources[s].type = "invoice" /\ b.sources[s].of = 0}

\* The allocations a receipt can be entered with, one to an invoice.
Applications(b, doc) ==
  IF doc.type # "receipt" THEN {{}}
  ELSE {a \in SUBSET [invoice : Invoices(b), amount : 1 .. doc.total] :
          \A r, t \in a : r.invoice = t.invoice => r = t}

\* What is open of an invoice, as a receipt applied to it.
Payment(b, i, date) ==
  [Doc("receipt", date, InvoiceOpen(b, i)) EXCEPT !.party = b.sources[i].party, !.cash = "CASH"]

-----------------------------------------------------------------------------
(* The lines of each document: debits positive, credits negative *)

SaleLines(doc, debit) ==
  <<debit, Line("SALES", "none", -(doc.total - doc.tax)), Line("TAX_PAYABLE", "none", -doc.tax)>>

InvoiceLines(b, doc) ==
  SaleLines(doc, Line("AR", doc.party, doc.total))
    \o <<Line("CUSTOMER_ADVANCES", doc.party, Applied(b, doc)),
         Line("AR", doc.party, -Applied(b, doc))>>

\* Variant: what is not applied to invoices is left out.
ReceiptLinesApplied(doc, apply) ==
  <<Line(doc.cash, doc.party, doc.total), Line("AR", doc.party, -AppliedTotal(apply))>>

ReceiptLines(doc, apply) ==
  <<Line(doc.cash, doc.party, doc.total),
    Line("AR", doc.party, -AppliedTotal(apply)),
    Line("CUSTOMER_ADVANCES", doc.party, AppliedTotal(apply) - doc.total)>>

\* A credit bill is settled by the supplier's advance as far as it goes.
AdvanceApplied(b, doc) == Min({PartyBalance(b, "SUPPLIER_ADVANCES", doc.party), doc.total})

PurchaseLines(b, doc) ==
  IF doc.type = "cash_purchase"
  THEN <<Line(doc.account, doc.party, doc.total), Line(doc.cash, doc.party, -doc.total)>>
  ELSE <<Line(doc.account, doc.party, doc.total),
         Line("SUPPLIER_ADVANCES", doc.party, -Max({0, AdvanceApplied(b, doc)})),
         Line("AP", doc.party, AdvanceApplied(b, doc) - doc.total)>>

\* A payment settles what is owed; the rest is an advance.
ToPayable(b, doc) == Min({doc.total, Max({0, -PartyBalance(b, "AP", doc.party)})})

PaymentLines(b, doc) ==
  <<Line("AP", doc.party, ToPayable(b, doc)),
    Line("SUPPLIER_ADVANCES", doc.party, doc.total - ToPayable(b, doc)),
    Line(doc.cash, "none", -doc.total)>>

\* Variant: a supplier's note has the sides of a customer's.
NoteLinesAlike(doc) ==
  LET sign == IF doc.type = "credit_note" THEN 1 ELSE -1
      account == IF doc.party = "supplier" THEN "AP" ELSE "AR"
  IN <<Line("SALES_RETURNS", "none", sign * doc.total), Line(account, doc.party, -sign * doc.total)>>

\* A note moves the party's balance, or cash when it is settled at once.
NoteLines(doc) ==
  LET settled(account) == IF doc.cash = "none" THEN account ELSE doc.cash
      sales == IF doc.type = "credit_note" THEN "SALES_RETURNS" ELSE "SALES"
      sign == IF doc.type = "credit_note" THEN 1 ELSE -1
  IN IF doc.party = "supplier"
     THEN <<Line(settled("AP"), doc.party, sign * doc.total),
            Line(doc.account, "none", -sign * doc.total)>>
     ELSE <<Line(sales, "none", sign * doc.total),
            Line(settled("AR"), doc.party, -sign * doc.total)>>

\* A supplier's note is about the account of the bill it names.
NoteOn(b, doc, s) ==
  [doc EXCEPT !.link = s,
              !.account = IF doc.party = "supplier" /\ s # 0 THEN b.sources[s].account
                          ELSE "INVENTORY"]

\* The other documents debit one account and credit another.
Debited(doc) ==
  CASE doc.type \in {"expense", "opening_balance", "manual_liability"} -> doc.account
    [] doc.type \in {"capital_injection", "manual_cash_income"} -> "CASH"
    [] doc.type = "manual_cash_expense" -> "EXPENSES"
    [] doc.type = "drawing" -> "DRAWINGS"
    [] doc.type = "commission_payment" -> "COMMISSION_PAYABLE"
    [] doc.type = "manual_asset" -> "OTHER_ASSETS"
    [] doc.type = "stock_adjust" -> IF doc.units > 0 THEN "INVENTORY" ELSE "EXPENSES"

Credited(doc) ==
  CASE doc.type \in {"expense", "drawing", "commission_payment"} -> doc.cash
    [] doc.type \in {"capital_injection", "opening_balance"} -> "CAPITAL"
    [] doc.type = "manual_cash_income" -> "SALES"
    [] doc.type = "manual_cash_expense" -> "CASH"
    [] doc.type = "manual_asset" -> doc.cash
    [] doc.type = "manual_liability" -> IF doc.account = "INVENTORY" THEN "AP" ELSE "OTHER_LIABILITIES"
    [] doc.type = "stock_adjust" -> IF doc.units > 0 THEN "EXPENSES" ELSE "INVENTORY"

LinesOf(b, doc, apply) ==
  Lines(CASE doc.type = "cash_sale" -> SaleLines(doc, Line(doc.cash, "none", doc.total))
          [] doc.type = "invoice" -> InvoiceLines(b, doc)
          [] doc.type = "receipt" -> ReceiptLines(doc, apply)
          [] doc.type \in Purchases -> PurchaseLines(b, doc)
          [] doc.type = "supplier_payment" -> PaymentLines(b, doc)
          [] doc.type \in Notes -> NoteLines(doc)
          [] OTHER -> <<Line(Debited(doc), "none", doc.total), Line(Credited(doc), "none", -doc.total)>>)

-----------------------------------------------------------------------------
(* Stock: the product's quantity, its moves, and the cost of what is sold *)

Move(source, kind, units) == [source |-> source, kind |-> kind, units |-> units]

Moved(b, s, kind, units, delta) ==
  [b EXCEPT !.qty = @ + delta, !.moves = @ \cup {Move(s, kind, units)}]

\* Variant: the sides are exchanged.
CogsLinesBack(units) == Lines(<<Line("INVENTORY", "none", units * UnitCost),
                                Line("COGS", "none", -units * UnitCost)>>)

CogsLines(units) == Lines(<<Line("COGS", "none", units * UnitCost),
                            Line("INVENTORY", "none", -units * UnitCost)>>)

\* The moves of a document just written, and the journal of the cost of a sale.
Stocked(b, doc, p) ==
  LET s == Len(b.sources)
  IN CASE ~b.perpetual \/ doc.units = 0 -> b
       [] doc.type \in {"cash_sale", "invoice"} ->
            Write(Moved(b, s, "sale", doc.units, -doc.units),
                  IF CogsLines(doc.units) = <<>> THEN <<>>
                  ELSE <<Journal(p, s, doc.date, CogsLines(doc.units))>>)
       [] doc.type \in Purchases -> Moved(b, s, "purchase", doc.units, doc.units)
       [] OTHER -> Moved(b, s, "adjust", doc.units, doc.units)

CanStock(b, doc) ==
  b.perpetual /\ doc.type \in {"cash_sale", "invoice"} => doc.units <= b.qty

MoveDelta(m) == IF m.kind = "sale" THEN -m.units ELSE m.units

MovesOf(b, s) == {m \in b.moves : m.source = s}

\* reverseMovesForSource: nothing when the service has no active book.
ReverseMoves(b, s, enabled) ==
  IF ~enabled \/ ~b.perpetual THEN b
  ELSE [b EXCEPT !.qty = @ - SumFunction([m \in MovesOf(b, s) |-> MoveDelta(m)]), !.moves = @ \ MovesOf(b, s)]

-----------------------------------------------------------------------------
(* Issuing a document into a period *)

\* Conditions of each kind of document on the book it is issued into.
CanIssue(b, doc, apply) ==
  /\ doc.total > 0
  /\ doc.tax > 0 => doc.tax < doc.total
  /\ doc.type = "receipt" => CanApply(b, doc, apply)
  /\ doc.type = "commission_payment" => doc.total <= -Balance(b, "COMMISSION_PAYABLE")
  /\ doc.type = "stock_adjust" => b.perpetual
  /\ CanStock(b, doc)

Written(b, doc, apply, p) ==
  [PostSource(b, doc, p, LinesOf(b, doc, apply)) EXCEPT !.allocs = @ \cup RowsOf(b, doc, apply)]

Issued(b, doc, apply, p) == Stocked(Written(b, doc, apply, p), doc, p)

\* Into the period of the document's own date.
Create(b, doc, apply) ==
  Issued(InContext(b, doc.date), doc, apply, ContextPeriod(b, doc.date))

\* A deposit of capital does not stretch a period.
CanCreate(b, doc, apply) ==
  /\ IF doc.type = "capital_injection" THEN OpenOn(b, doc.date) # {} ELSE HasContext(b, doc.date)
  /\ CanIssue(b, doc, apply)
  /\ CanPost(InContext(b, doc.date), doc, ContextPeriod(b, doc.date), LinesOf(b, doc, apply))

-----------------------------------------------------------------------------
(* Deleting a document *)

HasLine(b, r, account) ==
  \E j \in JournalsOf(b, r) : \E k \in DOMAIN b.journals[j].lines :
    b.journals[j].lines[k].account = account

\* The receipt was an advance and nothing else.
OnlyAdvance(b, r) == HasLine(b, r, "CUSTOMER_ADVANCES") /\ ~HasLine(b, r, "AR")

RowsTo(b, i) == {r \in b.allocs : r.invoice = i}

AdvanceRows(b, i) == {r \in RowsTo(b, i) : OnlyAdvance(b, r.receipt)}

\* Variant: the rows of a receipt stay.
DropRowsOfInvoices(b, s) ==
  IF b.sources[s].type = "invoice" THEN [b EXCEPT !.allocs = @ \ AdvanceRows(b, s)] ELSE b

DropRows(b, s) ==
  CASE b.sources[s].type = "invoice" -> [b EXCEPT !.allocs = @ \ AdvanceRows(b, s)]
    [] b.sources[s].type = "receipt" -> [b EXCEPT !.allocs = {r \in @ : r.receipt # s}]
    [] OTHER -> b

\* reverseSource: the product service it builds never has an active book.
ReverseSource(b, s, today) == Reversed(DropRows(ReverseMoves(b, s, FALSE), s), s, today)

CanReverse(b, s) ==
  /\ s \in Live(b, SourceTypes)
  /\ JournalsOf(b, s) # {}
  /\ b.sources[s].type = "invoice" => RowsTo(b, s) = AdvanceRows(b, s)

-----------------------------------------------------------------------------
(* Editing a document: reverse it and issue another in its place *)

\* Most documents keep their date only if it is in an open period.
Redated ==
  SourceTypes \ (ManualCash \cup {"capital_injection", "receipt", "opening_balance", "stock_adjust"})

Dated(b, doc, today) ==
  IF doc.type \in Redated THEN [doc EXCEPT !.date = EditDate(b, doc.date, today)] ELSE doc

Replaced(b, s, doc, today) ==
  Create(ReverseSource(b, s, today), Dated(b, doc, today), {})

CanReplace(b, s, doc, today) ==
  /\ CanReverse(b, s)
  /\ CanCreate(ReverseSource(b, s, today), Dated(b, doc, today), {})

\* An invoice with rows: those of receipts that paid it directly are moved to
\* its replacement, whose total may not be less than they are.
DirectRows(b, i) == {r \in RowsTo(b, i) : HasLine(b, r.receipt, "AR")}

Repointed(b, rows, i) ==
  [b EXCEPT !.allocs = (@ \ rows) \cup {[r EXCEPT !.invoice = i] : r \in rows}]

ReplacedPaid(b, s, doc, today) ==
  LET b1 == ReverseSource(b, s, today)
  IN Repointed(Create(b1, Dated(b, doc, today), {}), DirectRows(b, s), Len(b1.sources) + 1)

CanReplacePaid(b, s, doc, today) ==
  /\ s \in Live(b, {"invoice"}) /\ RowsTo(b, s) # {}
  /\ SumFunction([r \in DirectRows(b, s) |-> r.amount]) <= doc.total
  /\ CanCreate(ReverseSource(b, s, today), Dated(b, doc, today), {})

\* A receipt: the period is that of the new date, and the correction is posted
\* without the checks of an ordinary posting, redirected if it must be.
EditedReceipt(b, s, doc, apply, today) ==
  LET b1 == ReverseSource(InContext(b, doc.date), s, today)
      to == Target(b1, ContextPeriod(b, doc.date), doc.date, today)
  IN Issued(b1, [doc EXCEPT !.date = to.date], apply, to.period)

CanEditReceipt(b, s, doc, apply, today) ==
  /\ HasContext(b, doc.date)
  /\ s \in Live(b, {"receipt"})
  /\ CanIssue(ReverseSource(InContext(b, doc.date), s, today), doc, apply)

\* The opening balance is posted anew when it changes; a total of zero only
\* takes the old one back.  There is never more than one in force.
Opening(b) == Live(b, {"opening_balance"})

\* Variant: the opening balance in force is not taken back.
ReopenedBeside(b, doc, today) ==
  IF doc.total = 0 THEN InContext(b, doc.date)
  ELSE Issued(InContext(b, doc.date), doc, {}, ContextPeriod(b, doc.date))

Reopened(b, doc, today) ==
  LET b1 == InContext(b, doc.date)
      b2 == IF Opening(b) = {} THEN b1 ELSE ReverseSource(b1, CHOOSE s \in Opening(b) : TRUE, today)
  IN IF doc.total = 0 THEN b2
     ELSE Issued(b2, doc, {}, ContextPeriod(b, doc.date))

CanReopen(b, doc) ==
  /\ HasContext(b, doc.date)
  /\ ~\E s \in Opening(b) : b.sources[s] = doc
=============================================================================
