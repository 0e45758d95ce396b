-------------------------------- MODULE MCBooks -----------------------------
(* Scenarios of the book for TLC: six dates in three months. *)
EXTENDS Books

MCMonthEnd == <<2, 2, 4, 4, 6, 6>>

MCShare == [m \in {"m1", "m2"} |-> 50]

Fresh(start, end) ==
  [periods |-> <<[start |-> start, end |-> end, open |-> TRUE]>>,
   sources |-> <<>>, journals |-> <<>>, allocs |-> {}, counts |-> {}, moves |-> {},
   qty |-> 0, perpetual |-> FALSE, fixed |-> FALSE, members |-> <<>>,
   closes |-> <<>>, capital |-> [m \in {} |-> 0]]

Sale(date, total) == [Doc("cash_sale", date, total) EXCEPT !.cash = "CASH"]
Invoice(date, total) == [Doc("invoice", date, total) EXCEPT !.party = "customer"]
Receipt(date, total) ==
  [Doc("receipt", date, total) EXCEPT !.party = "customer", !.cash = "CASH"]
Note(type, party, date, total) == [Doc(type, date, total) EXCEPT !.party = party]
Bill(date, total) ==
  [Doc("credit_purchase", date, total) EXCEPT !.party = "supplier", !.account = "INVENTORY"]
Purchase(date, total) ==
  [Bill(date, total) EXCEPT !.type = "cash_purchase", !.cash = "CASH"]
Paid(date, total) ==
  [Doc("supplier_payment", date, total) EXCEPT !.party = "supplier", !.cash = "CASH"]
Expense(date, total, account) ==
  [Doc("expense", date, total) EXCEPT !.account = account, !.cash = "CASH"]
Deposit(member, date, total) == [Doc("capital_injection", date, total) EXCEPT !.party = member]
Drawing(member, date, total) ==
  [Doc("drawing", date, total) EXCEPT !.party = member, !.cash = "CASH"]
Stock(date, units) ==
  [Doc("stock_adjust", date, 2 * (IF units > 0 THEN units ELSE -units)) EXCEPT !.units = units]
OpeningOf(account, date) == [Doc("opening_balance", date, 1) EXCEPT !.account = account]

Manual(type, account, cash) ==
  [Doc(type, 1, 1) EXCEPT !.account = account, !.cash = cash]

Scenario(b, entries, dates, counts, operations, sources, closes) ==
  [book |-> b, entries |-> entries, dates |-> dates, counts |-> counts,
   operations |-> operations, sources |-> sources, closes |-> closes]

\* Invoices, receipts and customer notes, edited and deleted.
Credit ==
  Scenario(Fresh(1, 2),
    {Invoice(1, 2), Invoice(1, 3), Receipt(1, 2), Receipt(1, 3), Note("credit_note", "customer", 1, 1)},
    {1}, {}, {"issue", "mark_paid", "delete", "edit", "edit_paid", "edit_receipt"}, 4, 0)

\* Bills, payments and supplier notes.
Payables ==
  Scenario(Fresh(1, 2),
    {Bill(1, 2), Paid(1, 1), Paid(1, 3), Purchase(1, 2), Note("credit_note", "supplier", 1, 1),
     Note("debit_note", "supplier", 1, 1)},
    {1}, {}, {"issue", "delete", "edit"}, 4, 0)

\* A book closed twice, with documents corrected after the first close.
Trading ==
  Scenario(Fresh(1, 2),
    {Sale(1, 9), Sale(3, 9), Expense(1, 1, "EXPENSES"), Purchase(1, 2),
     [Doc("commission_payment", 3, 1) EXCEPT !.cash = "CASH"]},
    {2, 4}, {1}, {"issue", "delete", "edit", "close"}, 4, 2)

\* Opening balances and stock counts, with dates outside the period.
Counting ==
  Scenario(Fresh(2, 2),
    {Purchase(1, 2), Purchase(4, 2), OpeningOf("INVENTORY", 1), OpeningOf("CASH", 3)},
    {1, 4}, {0, 1}, {"issue", "opening", "fail", "count", "close"}, 2, 1)

\* Periods fixed in advance, of one month each.
Fixed ==
  Scenario([Fresh(1, 2) EXCEPT !.fixed = TRUE],
    {Sale(1, 3), Sale(3, 3), Sale(5, 3)}, {2, 4}, {0, 1}, {"issue", "delete", "edit", "close"}, 4, 2)

\* A partnership.
Partners ==
  Scenario([Fresh(1, 2) EXCEPT !.members = <<"m1", "m2">>, !.capital = "m1" :> 3 @@ "m2" :> 0],
    {Sale(1, 3), Sale(3, 3), Deposit("m1", 1, 2), Drawing("m2", 1, 1), Drawing("m1", 3, 1)},
    {2, 4}, {0}, {"issue", "delete", "close"}, 4, 2)

\* Stock valued at each movement.
Perpetual ==
  Scenario([Fresh(1, 2) EXCEPT !.perpetual = TRUE],
    {[Purchase(1, 4) EXCEPT !.units = 2], [Sale(1, 5) EXCEPT !.units = 1],
     [Invoice(1, 5) EXCEPT !.units = 1], Stock(1, 1), Stock(1, -1)},
    {1, 2}, {0}, {"issue", "delete", "edit", "close"}, 4, 1)

\* Entries of one line each, taxed sales, and fees that are not operating expenses.
Sundry ==
  Scenario(Fresh(1, 2),
    {Doc("manual_cash_income", 1, 1), Doc("manual_cash_expense", 1, 2),
     Manual("manual_asset", "none", "OWNER_CONTRIBUTIONS"), Manual("manual_liability", "INVENTORY", "none"),
     Manual("manual_liability", "EXPENSES", "none"), Expense(1, 1, "MARKETPLACE_FEES"),
     [Invoice(1, 3) EXCEPT !.tax = 1], Note("debit_note", "customer", 1, 1)},
    {2}, {0}, {"issue", "delete", "edit", "close"}, 3, 1)

MCScenarios == [credit |-> Credit, payables |-> Payables, trading |-> Trading, counting |-> Counting, fixed |-> Fixed,
                partners |-> Partners, perpetual |-> Perpetual, sundry |-> Sundry]
=============================================================================
