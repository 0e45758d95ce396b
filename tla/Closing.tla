-------------------------------- MODULE Closing ------------------------------
(***************************************************************************)
(* Stock counts and the close of an accounting period                      *)
(* (capitalDomainService.ts, closeBooksRepository.ts, cogs.ts).  A close   *)
(* records the counts it was given, posts the cost of goods sold that they *)
(* imply and the commission, clears the revenue and expense accounts into  *)
(* retained earnings, shares the profit out to the members, and opens the  *)
(* next period with the closing count carried forward.                     *)
(***************************************************************************)
EXTENDS Documents

CONSTANTS
  Share,          \* each member's percentage of the profit
  CommissionPct   \* the commission, in percent of the gross profit

ASSUME CommissionPctAssumption == CommissionPct \in 0 .. 100
ASSUME ShareAssumption == \A m \in DOMAIN Share : Share[m] \in 0 .. 100

\* Kinds of counts, in the order their identifiers sort.
Carried == 1
Taken == 2
Entered == 3

Count(kind, period, date, value) ==
  [kind |-> kind, period |-> period, date |-> date, value |-> value]

SameCount(c, d) == c.kind = d.kind /\ c.period = d.period /\ c.date = d.date

PutCount(b, c) == [b EXCEPT !.counts = {d \in @ : ~SameCount(c, d)} \cup {c}]

\* A count of a date replaces the one taken on that date.
RecordedCount(b, d, value) ==
  PutCount(InContext(b, d), Count(Taken, ContextPeriod(b, d), d, value))

CountsIn(b, p) == {c \in b.counts : c.period = p}

DeletedCount(b, c) == [b EXCEPT !.counts = @ \ {c}]

-----------------------------------------------------------------------------
(* Periodic cost of goods sold *)

Newest(cs) ==
  CHOOSE c \in cs : \A d \in cs : d.date < c.date \/ (d.date = c.date /\ d.kind <= c.kind)

CountsDated(b, from, to) == {c \in b.counts : c.date \in from .. to}

OpeningStock(b, start) ==
  IF CountsDated(b, start, start) # {} THEN Newest(CountsDated(b, start, start)).value
  ELSE Movement(b, JournalsDated(b, 1, start - 1), {"INVENTORY"})

\* Opening balances are left out: they are in the opening stock already.
OpeningBalanceJournals(b) ==
  {j \in DOMAIN b.journals : /\ b.journals[j].source # 0
                             /\ b.sources[b.journals[j].source].type = "opening_balance"}

PurchasesIn(b, start, end) ==
  Max({0, Movement(b, JournalsDated(b, start, end) \ OpeningBalanceJournals(b), {"INVENTORY"})})

\* The counts that can close: not the one the opening stock was read from.
ClosingCounts(b, start, end) ==
  CountsDated(b, IF CountsDated(b, start, start) # {} THEN start + 1 ELSE start, end)

HasClosingCount(b, start, end) == ClosingCounts(b, start, end) # {}

ClosingStock(b, start, end) ==
  IF HasClosingCount(b, start, end) THEN Newest(ClosingCounts(b, start, end)).value ELSE 0

PeriodicCogs(b, start, end) ==
  IF HasClosingCount(b, start, end)
  THEN OpeningStock(b, start) + PurchasesIn(b, start, end) - ClosingStock(b, start, end)
  ELSE 0

-----------------------------------------------------------------------------
(* The result of a period and its distribution *)

\* A percentage of an amount, rounded to the cent, halves away from zero.
Percent(n, pct) ==
  IF n >= 0 THEN (n * pct + 50) \div 100 ELSE -((-n * pct + 50) \div 100)

\* What a period has to show: the journals of the period, whatever their dates.
Result(b, p, date) ==
  LET mv(accounts) == Movement(b, JournalsIn(b, p), accounts)
      start == b.periods[p].start
      cogs == IF b.perpetual THEN Max({0, mv({"COGS"})}) ELSE PeriodicCogs(b, start, date)
      gross == -mv(RevenueAccounts) - cogs
      commission == IF gross > 0 THEN Percent(gross, CommissionPct) ELSE 0
  IN [period |-> p, cogs |-> cogs, commission |-> commission,
      net |-> gross - commission - Max({0, mv({"EXPENSES"})})]

\* The i-th member's part of an amount; the last takes what the others leave.
Part(b, n, i) ==
  IF i < Len(b.members) THEN Percent(n, Share[b.members[i]])
  ELSE n - SumFunction([k \in 1 .. Len(b.members) - 1 |-> Percent(n, Share[b.members[k]])])

\* Variant: movements that were taken back are counted too.
MemberTotalEver(b, p, type, member) ==
  TotalOf(b, {s \in DOMAIN b.sources : /\ b.sources[s].type = type /\ b.sources[s].of = 0
                                       /\ b.sources[s].party = member
                                       /\ \E j \in JournalsOf(b, s) : b.journals[j].period = p})

\* The movements of one member in a period that are still in force.
MemberTotal(b, p, type, member) ==
  TotalOf(b, {s \in Live(b, {type}) : /\ b.sources[s].party = member
                                      /\ \E j \in JournalsOf(b, s) : b.journals[j].period = p})

\* Drawings of the ledger that no member's documents account for are shared out too.
Unattributed(b, p) ==
  Max({0, Max({0, Movement(b, JournalsIn(b, p), {"DRAWINGS"})})
            - SumFunction([k \in DOMAIN b.members |-> MemberTotal(b, p, "drawing", b.members[k])])})

ClosingCapital(b, p, net, i) ==
  LET m == b.members[i]
  IN b.capital[m] + MemberTotal(b, p, "capital_injection", m) + Part(b, net, i)
       - MemberTotal(b, p, "drawing", m) - Part(b, Unattributed(b, p), i)

-----------------------------------------------------------------------------
(* The journals of a close *)

\* Debits one account and credits another, or the reverse for a negative amount.
AdjustmentJournals(p, date, amount, debit, credit) ==
  IF amount = 0 THEN <<>>
  ELSE <<Journal(p, 0, date, <<Line(debit, "none", amount), Line(credit, "none", -amount)>>)>>

\* Variant: only the accounts a trading book always has.
ClearingLinesOfTrade(b, p) ==
  SetToSeq({Line(a, "none", -Movement(b, JournalsIn(b, p), {a})) : a \in {"SALES", "COGS", "EXPENSES"}})

\* Each revenue and expense account's balance in the period, taken back.
ClearingLines(b, p) ==
  SetToSeq({Line(a, "none", -Movement(b, JournalsIn(b, p), {a})) :
              a \in RevenueAccounts \cup ExpenseAccounts})

ShareLines(b, net) ==
  [i \in DOMAIN b.members |-> Line("RETAINED_EARNINGS", "none", Part(b, net, i))]
    \o [i \in DOMAIN b.members |-> Line("CAPITAL", "none", -Part(b, net, i))]

ClosingLines(b, p, net) ==
  Lines(ClearingLines(b, p)
        \o <<Line("RETAINED_EARNINGS", "none",
                  Movement(b, JournalsIn(b, p), RevenueAccounts \cup ExpenseAccounts))>>
        \o ShareLines(b, net))

ClosingJournals(b, p, date, net) ==
  IF ClosingLines(b, p, net) = <<>> THEN <<>>
  ELSE <<Journal(p, 0, date, ClosingLines(b, p, net))>>

\* The cost is posted only where it was not at each sale.
Adjusted(b, r, date) ==
  Write(b, (IF b.perpetual THEN <<>>
            ELSE AdjustmentJournals(r.period, date, r.cogs, "COGS", "INVENTORY"))
           \o AdjustmentJournals(r.period, date, r.commission,
                                 "COMMISSION_EXPENSE", "COMMISSION_PAYABLE"))

-----------------------------------------------------------------------------
(* The close *)

\* The counts given with the close are recorded where the period has none.
Counted(b, p, date, opening, actual) ==
  LET none(d) == ~\E c \in CountsIn(b, p) : c.date = d
      start == b.periods[p].start
      new == {c \in {Count(Entered, p, start, opening)} : none(start)}
             \cup {c \in {Count(Entered, p, date, actual)} : none(date)}
  IN [b EXCEPT !.periods[p].end = date, !.counts = @ \cup new]

MonthsOf(from, to) == Cardinality({MonthEnd[d] : d \in from .. to})

MonthAligned(start, end) ==
  MonthEnd[end] = end /\ (start = 1 \/ MonthEnd[start - 1] = start - 1)

\* Fixed periods follow each other with the same number of months, or of days.
NextFixedEnd(start, end) ==
  IF MonthAligned(start, end)
  THEN Max({end + 1} \cup {d \in end + 1 .. LastDate : MonthsOf(end + 1, d) <= MonthsOf(start, end)})
  ELSE Min({LastDate, 2 * end + 1 - start})

NextEnd(b, p, explicit) ==
  CASE b.fixed -> NextFixedEnd(b.periods[p].start, b.periods[p].end)
    [] ~b.fixed /\ explicit -> LastDate
    [] OTHER -> MonthEnd[b.periods[p].end + 1]

\* The period after p: an open one that is there, or a new one.
LaterOpen(b, p) == {q \in OpenPeriods(b) : b.periods[q].start > b.periods[p].end}

WithNext(b, p, explicit) ==
  IF LaterOpen(b, p) # {} THEN b
  ELSE [b EXCEPT !.periods = Append(@, [start |-> b.periods[p].end + 1,
                                        end |-> NextEnd(b, p, explicit), open |-> TRUE])]

Settled(b, r, date) ==
  LET p == r.period
      b1 == Adjusted(b, r, date)
      b2 == Write(b1, ClosingJournals(b1, p, date, r.net))
      n == FirstOf(b, LaterOpen(b, p))
  IN [b2 EXCEPT
        !.periods[p].open = FALSE,
        !.closes = Append(@, r),
        !.capital = [m \in DOMAIN @ |->
                       LET i == CHOOSE k \in DOMAIN b.members : b.members[k] = m
                       IN ClosingCapital(b, p, r.net, i)],
        !.counts = @ \cup {Count(Carried, n, b.periods[n].start,
                                 ClosingStock(b, b.periods[p].start, date))}]

ClosingPeriod(b) == FirstOf(b, OpenPeriods(b))

Prepared(b, date, explicit, opening, actual) ==
  WithNext(Counted(b, ClosingPeriod(b), date, opening, actual), ClosingPeriod(b), explicit)

Closed(b, date, explicit, opening, actual) ==
  LET b1 == Prepared(b, date, explicit, opening, actual)
  IN Settled(b1, Result(b1, ClosingPeriod(b), date), date)

CanClose(b, date, explicit, opening, actual) ==
  LET p == ClosingPeriod(b)
      start == b.periods[p].start
      b1 == Counted(b, p, date, opening, actual)
      tracks == CountsIn(b1, p) # {} \/ PurchasesIn(b1, start, date) > 0
  IN /\ OpenPeriods(b) # {}
     /\ ~explicit => date = b.periods[p].end
     /\ date >= start
     /\ date < LastDate
     /\ b.fixed => date = b.periods[p].end
     /\ ~\E j \in JournalsIn(b, p) : b.journals[j].date > date
     /\ ~\E c \in CountsIn(b, p) : c.date > date
     /\ ~Overlaps(b, p, start, date)
     /\ tracks => HasClosingCount(b1, start, date)
     /\ b.members # <<>> =>
          SumFunction([k \in DOMAIN b.members |-> Share[b.members[k]]]) = 100
=============================================================================
