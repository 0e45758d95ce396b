-------------------------------- MODULE Ledger ------------------------------
(***************************************************************************)
(* The posting core of one accounting book (accountingV2/repository.ts,    *)
(* appService.ts, and the reversal machinery of documentService.ts).  The  *)
(* book is one record, a database transaction is an operator from a book   *)
(* to a book, and the guards of the transaction are operators beside it.   *)
(* Sources, journals and periods are never deleted by the code, so they    *)
(* are sequences and their identifiers are indices.  Money is counted in   *)
(* cents; a line's amount is its debit when positive and its credit when   *)
(* negative.                                                               *)
(***************************************************************************)
EXTENDS Integers, Sequences, FiniteSets, FiniteSetsExt, SequencesExt

CONSTANTS
  LastDate,     \* bound: dates are 1 .. LastDate; the last stands for 9999-12-31
  MonthEnd      \* the last day of each date's month

Dates == 1 .. LastDate

ASSUME LastDateAssumption == LastDate \in Nat \ {0}
ASSUME MonthEndAssumption == MonthEnd \in [Dates -> Dates] /\ \A d \in Dates : d <= MonthEnd[d]

RevenueAccounts == {"SALES", "SALES_RETURNS"}
ExpenseAccounts == {"COGS", "EXPENSES", "COMMISSION_EXPENSE", "MARKETPLACE_FEES"}
CashAccounts == {"CASH", "BANK"}
Accounts == RevenueAccounts \cup ExpenseAccounts \cup CashAccounts \cup
  {"AR", "INVENTORY", "SUPPLIER_ADVANCES", "OTHER_ASSETS", "AP", "CUSTOMER_ADVANCES",
   "COMMISSION_PAYABLE", "TAX_PAYABLE", "OTHER_LIABILITIES", "CAPITAL", "DRAWINGS",
   "RETAINED_EARNINGS", "OWNER_CONTRIBUTIONS"}

-----------------------------------------------------------------------------
(* Lines and balances *)

Line(account, party, amount) == [account |-> account, party |-> party, amount |-> amount]

\* Lines of no amount are left out.
Lines(s) ==
  LET kept[n \in 0 .. Len(s)] == CASE n = 0 -> <<>>
                                   [] n > 0 /\ s[n].amount # 0 -> Append(kept[n - 1], s[n])
                                   [] OTHER -> kept[n - 1]
  IN kept[Len(s)]

\* What some of the lines come to.
LineTotal(lines, ks) == SumFunction([k \in ks |-> lines[k].amount])

Balanced(lines) == LineTotal(lines, DOMAIN lines) = 0

On(lines, accounts) == {k \in DOMAIN lines : lines[k].account \in accounts}

\* Debits less credits of some accounts in some journals.
Movement(b, js, accounts) ==
  SumFunction([j \in js |-> LineTotal(b.journals[j].lines, On(b.journals[j].lines, accounts))])

Balance(b, account) == Movement(b, DOMAIN b.journals, {account})

PartyBalance(b, account, party) ==
  LET with(lines) == {k \in On(lines, {account}) : lines[k].party = party}
  IN SumFunction([j \in DOMAIN b.journals |->
                    LineTotal(b.journals[j].lines, with(b.journals[j].lines))])

JournalsOf(b, s) == {j \in DOMAIN b.journals : b.journals[j].source = s}

JournalsIn(b, p) == {j \in DOMAIN b.journals : b.journals[j].period = p}

JournalsDated(b, from, to) ==
  {j \in DOMAIN b.journals : b.journals[j].date \in from .. to}

-----------------------------------------------------------------------------
(* Periods *)

Within(p, d) == p.start <= d /\ d <= p.end

OpenPeriods(b) == {p \in DOMAIN b.periods : b.periods[p].open}

OpenOn(b, d) == {p \in OpenPeriods(b) : Within(b.periods[p], d)}

ClosedOn(b, d) == {p \in DOMAIN b.periods \ OpenPeriods(b) : Within(b.periods[p], d)}

FirstOf(b, ps) == CHOOSE p \in ps : \A q \in ps : b.periods[p].start <= b.periods[q].start

LastOf(b, ps) == CHOOSE p \in ps : \A q \in ps : b.periods[q].start <= b.periods[p].start

Overlaps(b, p, start, end) ==
  \E q \in DOMAIN b.periods \ {p} : b.periods[q].start <= end /\ b.periods[q].end >= start

\* The open period a date outside every period is taken into, by moving its bounds.
Stretched(b, d) ==
  LET p == IF d < b.periods[FirstOf(b, OpenPeriods(b))].start THEN FirstOf(b, OpenPeriods(b))
                                                              ELSE LastOf(b, OpenPeriods(b))
  IN [period |-> p,
      start  |-> IF d < b.periods[p].start THEN d ELSE b.periods[p].start,
      end    |-> IF d > b.periods[p].end THEN d ELSE b.periods[p].end]

\* Variant: the stretched bounds are not compared with the other periods.
MustStretchFreely(b, d) ==
  OpenOn(b, d) = {} /\ ClosedOn(b, d) = {} /\ ~b.fixed /\ OpenPeriods(b) # {}

MustStretch(b, d) ==
  /\ OpenOn(b, d) = {} /\ ClosedOn(b, d) = {} /\ ~b.fixed /\ OpenPeriods(b) # {}
  /\ ~Overlaps(b, Stretched(b, d).period, Stretched(b, d).start, Stretched(b, d).end)

\* A posting date has a context when an open period holds it or can be stretched to it.
HasContext(b, d) == OpenOn(b, d) # {} \/ MustStretch(b, d)

\* The book after activeContext(d), which writes the new bounds at once ...
InContext(b, d) ==
  IF OpenOn(b, d) # {} THEN b
  ELSE [b EXCEPT !.periods[Stretched(b, d).period] =
          [@ EXCEPT !.start = Stretched(b, d).start, !.end = Stretched(b, d).end]]

\* ... and the period it answers with.
ContextPeriod(b, d) == LastOf(InContext(b, d), OpenOn(InContext(b, d), d))

\* Where an edited document goes: its date if an open period holds it, else
\* today, brought into the last open period.
Clamp(p, d) == IF d < p.start THEN p.start ELSE IF d > p.end THEN p.end ELSE d

EditDate(b, d, today) ==
  IF OpenOn(b, d) # {} THEN d ELSE Clamp(b.periods[LastOf(b, OpenPeriods(b))], today)

\* Where a correction goes: the period and date asked for if that period is
\* open and holds the date, else today, in the current open period.
\* Variants: today is not brought into the open period, or the period asked for is
\* taken though it is closed.
TargetToday(b, p, d, today) ==
  IF b.periods[p].open /\ Within(b.periods[p], d) THEN [period |-> p, date |-> d]
  ELSE [period |-> LastOf(b, OpenPeriods(b)), date |-> today]
TargetAsAsked(b, p, d, today) == [period |-> p, date |-> d]

Target(b, p, d, today) ==
  IF b.periods[p].open /\ Within(b.periods[p], d) THEN [period |-> p, date |-> d]
  ELSE LET q == LastOf(b, IF OpenOn(b, today) # {} THEN OpenOn(b, today) ELSE OpenPeriods(b))
       IN [period |-> q, date |-> Clamp(b.periods[q], today)]

-----------------------------------------------------------------------------
(* Posting *)

Journal(period, source, date, lines) ==
  [period |-> period, source |-> source, date |-> date, lines |-> lines, reversalOf |-> 0]

\* validateJournal: two lines or more that balance, and the period is open and holds the date.
Valid(b, j) ==
  /\ Len(j.lines) >= 2 /\ Balanced(j.lines)
  /\ b.periods[j.period].open /\ Within(b.periods[j.period], j.date)

Write(b, js) == [b EXCEPT !.journals = @ \o js]

\* A new source and its journal, in one transaction.
PostSource(b, source, period, lines) ==
  Write([b EXCEPT !.sources = Append(@, source)],
        <<Journal(period, Len(b.sources) + 1, source.date, lines)>>)

CanPost(b, source, period, lines) ==
  Valid(b, Journal(period, Len(b.sources) + 1, source.date, lines))

-----------------------------------------------------------------------------
(* Reversing a source: each of its journals is answered by a new source with *)
(* a journal of the opposite lines, in an open period.                       *)

Opposite(lines) == [k \in DOMAIN lines |-> [lines[k] EXCEPT !.amount = -@]]

ReversalDate(b, s, j, today) ==
  Target(b, b.journals[j].period, b.sources[s].date, today)

Reversal(b, s, j, i, today) ==
  [Journal(ReversalDate(b, s, j, today).period, Len(b.sources) + i,
           ReversalDate(b, s, j, today).date, Opposite(b.journals[j].lines))
     EXCEPT !.reversalOf = j]

ReversalSource(b, s, j, today) ==
  [b.sources[s] EXCEPT !.of = s, !.date = ReversalDate(b, s, j, today).date, !.link = 0,
                       !.party = "none"]

\* Variant: only the first journal of the source is reversed.
ReversedFirst(b, s, today) ==
  LET j == Min(JournalsOf(b, s))
  IN [b EXCEPT !.journals = Append(@, Reversal(b, s, j, 1, today)),
               !.sources = Append([@ EXCEPT ![s].reversed = TRUE], ReversalSource(b, s, j, today))]

Reversed(b, s, today) ==
  LET js == SetToSeq(JournalsOf(b, s))
  IN [b EXCEPT
        !.journals = @ \o [i \in 1 .. Len(js) |-> Reversal(b, s, js[i], i, today)],
        !.sources = [@ EXCEPT ![s].reversed = TRUE]
                    \o [i \in 1 .. Len(js) |-> ReversalSource(b, s, js[i], today)]]

\* A document still in force: not a reversal, and not reversed.
Live(b, types) ==
  {s \in DOMAIN b.sources : b.sources[s].type \in types /\ b.sources[s].of = 0
                            /\ ~b.sources[s].reversed}
=============================================================================
