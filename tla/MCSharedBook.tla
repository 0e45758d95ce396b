------------------------------ MODULE MCSharedBook ----------------------------
(* Scenarios of a shared book for TLC: two devices, dates in three months. *)
EXTENDS SharedBook

MCMonthEnd == <<2, 2, 4, 4, 6, 6>>

MCShare == [m \in {} |-> 0]

MCBook ==
  [periods |-> <<[start |-> 1, end |-> 2, open |-> TRUE]>>,
   sources |-> <<>>, journals |-> <<>>, allocs |-> {}, counts |-> {}, moves |-> {},
   qty |-> 0, perpetual |-> FALSE, fixed |-> FALSE, members |-> <<>>,
   closes |-> <<>>, capital |-> [m \in {} |-> 0]]

Sale(date, total) == [Doc("cash_sale", date, total) EXCEPT !.cash = "CASH"]
Invoice(date, total) == [Doc("invoice", date, total) EXCEPT !.party = "customer"]
Receipt(date, total) ==
  [Doc("receipt", date, total) EXCEPT !.party = "customer", !.cash = "CASH"]
Bill(date, total) ==
  [Doc("credit_purchase", date, total) EXCEPT !.party = "supplier", !.account = "INVENTORY"]
Paid(date, total) ==
  [Doc("supplier_payment", date, total) EXCEPT !.party = "supplier", !.cash = "CASH"]

Scenario(b, entries, dates, counts, verbs, operations, today) ==
  [book |-> b, entries |-> entries, dates |-> dates, counts |-> counts, verbs |-> verbs,
   operations |-> operations, today |-> today]

\* Invoices, receipts and advances.
Credit ==
  Scenario(MCBook, {Invoice(1, 2), Receipt(1, 2), Receipt(1, 1)}, {1}, {},
           {"create", "edit", "delete", "pay"}, 3, 1)

\* The last unit of the stock, sold twice.
Stock ==
  Scenario([MCBook EXCEPT !.perpetual = TRUE, !.qty = 1],
           {[Sale(1, 5) EXCEPT !.units = 1], [Invoice(1, 5) EXCEPT !.units = 1],
            [Doc("stock_adjust", 1, 2) EXCEPT !.units = 1]},
           {1}, {}, {"create"}, 3, 1)

\* Work dated in a period another device closes.
Close ==
  Scenario(MCBook, {Sale(1, 3), Sale(3, 3), Bill(2, 2)}, {2}, {0},
           {"create", "edit", "delete", "count", "close"}, 3, 2)

MCScenarios == [credit |-> Credit, stock |-> Stock, close |-> Close]

CONSTANTS d1, d2

MCDevices == {d1, d2}

Symmetry == Permutations(MCDevices)
=============================================================================
