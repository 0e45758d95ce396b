--------------------------------- MODULE Books ------------------------------
(***************************************************************************)
(* One accounting book as a state machine: documents are issued, deleted   *)
(* and edited, stock is counted and adjusted, and periods are closed.      *)
(* Each operation of the application runs in one transaction under the     *)
(* mutation lock, so it is one step; what the user enters, and the day it  *)
(* is done on, are chosen freely.  A scenario says which operations and    *)
(* entries a behaviour is about, and which book it starts from.            *)
(***************************************************************************)
EXTENDS Closing

CONSTANTS
  Scenarios    \* the scenarios by name: their book, entries, dates, operations and bounds

\* A book before its first document: an open period, and nothing entered; the
\* members start with what they contributed, which is not posted.
NewBook(b) ==
  /\ b = [periods |-> b.periods, sources |-> <<>>, journals |-> <<>>, allocs |-> {},
          counts |-> {}, moves |-> {}, qty |-> 0, perpetual |-> b.perpetual, fixed |-> b.fixed,
          members |-> b.members, closes |-> <<>>, capital |-> b.capital]
  /\ b.members \in Seq(DOMAIN Share) /\ \A i, k \in DOMAIN b.members : b.members[i] = b.members[k] => i = k
  /\ b.capital \in [Range(b.members) -> Nat]
  /\ \E start, end \in Dates :
       start <= end /\ b.periods = <<[start |-> start, end |-> end, open |-> TRUE]>>

\* A document is settled through cash or the bank, and charged to the accounts its
\* form offers: a bill to stock or an expense.
Charted(doc) ==
  /\ doc.type \in {"cash_sale", "receipt", "cash_purchase", "supplier_payment", "drawing",
                   "commission_payment", "expense"} => doc.cash \in CashAccounts
  /\ doc.type = "manual_asset" =>
       doc.cash \in CashAccounts \cup {"OWNER_CONTRIBUTIONS", "OTHER_LIABILITIES"}
  /\ doc.type \in Notes => doc.cash \in CashAccounts \cup {"none"}
  /\ doc.type \in Purchases => doc.account \in {"INVENTORY", "EXPENSES"}
  /\ doc.type = "expense" => doc.account \in ExpenseAccounts
  /\ doc.type = "opening_balance" => doc.account \in {"CASH", "INVENTORY", "OTHER_ASSETS"}
  /\ doc.type = "manual_liability" =>
       doc.account \in CashAccounts \cup {"OTHER_ASSETS", "EXPENSES", "INVENTORY"}

\* A document as a user enters it: not a reversal, not reversed, not linked yet.
\* A deposit is made by a member.
Entry(members, doc) ==
  /\ doc.type = "capital_injection" => doc.party \in members
  /\ doc.type \in SourceTypes /\ doc.date \in Dates /\ Charted(doc)
  /\ doc.total \in Nat /\ doc.tax \in Nat /\ doc.units \in Int
  /\ doc = [Doc(doc.type, doc.date, doc.total) EXCEPT
              !.tax = doc.tax, !.party = doc.party, !.cash = doc.cash,
              !.account = doc.account, !.units = doc.units]

ASSUME ScenariosAssumption ==
  \A n \in DOMAIN Scenarios :
    /\ NewBook(Scenarios[n].book)
    /\ \A doc \in Scenarios[n].entries : Entry(Range(Scenarios[n].book.members), doc)
    /\ Scenarios[n].dates \subseteq Dates /\ Scenarios[n].counts \subseteq Nat

VARIABLES
  book,        \* the database: periods, sources, journals, allocations, counts, stock
  scenario     \* the name of the scenario, which never changes

vars == <<book, scenario>>

Now == Scenarios[scenario]

Does(operation) == operation \in Now.operations

\* Bound: no further document is issued when the scenario's number is reached.
Room == Len(book.sources) < Now.sources

-----------------------------------------------------------------------------
(* What a user can enter *)

\* A note may name a document of its party, in force or not.
Links(b, doc) ==
  {0} \cup {s \in DOMAIN b.sources :
              /\ b.sources[s].type \in IF doc.party = "supplier" THEN Purchases ELSE {"invoice"}
              /\ b.sources[s].of = 0}

Entries(b, doc) ==
  IF doc.type \in Notes THEN {NoteOn(b, doc, s) : s \in Links(b, doc)} ELSE {doc}

\* A document is edited into one of its own kind.
SameKind(type) ==
  CASE type \in Purchases -> Purchases
    [] type \in ManualCash -> ManualCash
    [] OTHER -> {type}

EditsOf(b, s) ==
  {IF doc.type \in Notes THEN NoteOn(b, [doc EXCEPT !.party = b.sources[s].party], b.sources[s].link)
   ELSE doc : doc \in {d \in Now.entries : d.type \in SameKind(b.sources[s].type)}}

-----------------------------------------------------------------------------
(* Operations *)

Issue ==
  \E entry \in Now.entries : \E doc \in Entries(book, entry) :
    \E apply \in Applications(book, doc) :
      /\ doc.type # "opening_balance"
      /\ CanCreate(book, doc, apply)
      /\ book' = Create(book, doc, apply)

MarkPaid ==
  \E i \in Invoices(book), date \in Now.dates :
    LET doc == Payment(book, i, date)
        apply == {[invoice |-> i, amount |-> doc.total]}
    IN /\ InvoiceOpen(book, i) > 0
       /\ CanCreate(book, doc, apply)
       /\ book' = Create(book, doc, apply)

Delete ==
  \E s \in DOMAIN book.sources, today \in Now.dates :
    /\ book.sources[s].type \notin {"opening_balance", "stock_adjust"}
    /\ CanReverse(book, s)
    /\ book' = ReverseSource(book, s, today)

Edit ==
  \E s \in DOMAIN book.sources, today \in Now.dates :
    /\ book.sources[s].type \notin {"opening_balance", "stock_adjust", "receipt"}
    /\ book.sources[s].type = "invoice" => RowsTo(book, s) = {}
    /\ \E doc \in EditsOf(book, s) :
         /\ CanReplace(book, s, doc, today)
         /\ book' = Replaced(book, s, doc, today)

EditPaidInvoice ==
  \E s \in Invoices(book), today \in Now.dates : \E doc \in EditsOf(book, s) :
    /\ CanReplacePaid(book, s, doc, today)
    /\ book' = ReplacedPaid(book, s, doc, today)

EditReceipt ==
  \E s \in DOMAIN book.sources, today \in Now.dates : \E doc \in EditsOf(book, s) :
    \E apply \in Applications(book, doc) :
      /\ doc.type = "receipt"
      /\ CanEditReceipt(book, s, doc, apply, today)
      /\ book' = EditedReceipt(book, s, doc, apply, today)

SetOpeningBalance ==
  \E doc \in Now.entries, total \in {0, 1, 2}, today \in Now.dates :
    /\ doc.type = "opening_balance"
    /\ CanReopen(book, [doc EXCEPT !.total = total])
    /\ book' = Reopened(book, [doc EXCEPT !.total = total], today)

\* The stretch of a period outlives the posting it was made for.
FailToPost ==
  \E date \in Now.dates : HasContext(book, date) /\ book' = InContext(book, date)

CountStock ==
  \E date \in Now.dates, value \in Now.counts :
    /\ HasContext(book, date)
    /\ book' = RecordedCount(book, date, value)

DeleteCount ==
  \E c \in book.counts :
    /\ OpenPeriods(book) # {} /\ c.period = FirstOf(book, OpenPeriods(book))
    /\ book' = DeletedCount(book, c)

Close ==
  \E date \in Now.dates, explicit \in BOOLEAN, opening, actual \in Now.counts :
    /\ Len(book.closes) < Now.closes
    /\ CanClose(book, date, explicit, opening, actual)
    /\ book' = Closed(book, date, explicit, opening, actual)

Init == scenario \in DOMAIN Scenarios /\ book = Now.book

Next ==
  /\ UNCHANGED scenario
  /\ \/ Room /\ Does("issue") /\ Issue
     \/ Room /\ Does("mark_paid") /\ MarkPaid
     \/ Room /\ Does("delete") /\ Delete
     \/ Room /\ Does("edit") /\ Edit
     \/ Room /\ Does("edit_paid") /\ EditPaidInvoice
     \/ Room /\ Does("edit_receipt") /\ EditReceipt
     \/ Room /\ Does("opening") /\ SetOpeningBalance
     \/ Does("fail") /\ FailToPost
     \/ Does("count") /\ CountStock
     \/ Does("count") /\ DeleteCount
     \/ Does("close") /\ Close

Spec == Init /\ [][Next]_vars

-----------------------------------------------------------------------------
(* Properties *)

Periods == [start : Dates, end : Dates, open : BOOLEAN]

\* The book keeps its shape: identifiers refer to rows that are there.
RowsKept ==
  /\ scenario \in DOMAIN Scenarios
  /\ book.periods \in Seq(Periods)
  /\ \A s \in DOMAIN book.sources :
       /\ book.sources[s].type \in SourceTypes /\ book.sources[s].date \in Dates
       /\ {book.sources[s].of, book.sources[s].link} \subseteq 0 .. Len(book.sources)
  /\ \A j \in DOMAIN book.journals :
       /\ book.journals[j].period \in DOMAIN book.periods
       /\ book.journals[j].source \in 0 .. Len(book.sources)
  /\ \A r \in book.allocs : {r.invoice, r.receipt} \subseteq DOMAIN book.sources /\ r.amount > 0
  /\ \A c \in book.counts : c.period \in DOMAIN book.periods

\* Lines are of known accounts, and of some amount.
LinesKept ==
  \A j \in DOMAIN book.journals : \A k \in DOMAIN book.journals[j].lines :
    book.journals[j].lines[k].account \in Accounts /\ book.journals[j].lines[k].amount # 0

\* The rows and lines of the book are well formed.
TypeOK == RowsKept /\ LinesKept

\* No two accounting periods share a day, however they are stretched and closed.
PeriodsDisjoint ==
  /\ \A p \in DOMAIN book.periods : book.periods[p].start <= book.periods[p].end
  /\ \A p, q \in DOMAIN book.periods :
       p # q => book.periods[p].end < book.periods[q].start \/ book.periods[q].end < book.periods[p].start

\* Every journal, corrections and edited receipts included, is dated in its period.
JournalsInPeriod ==
  \A j \in DOMAIN book.journals :
    Within(book.periods[book.journals[j].period], book.journals[j].date)

\* Every journal balances, those posted without the ordinary checks included.
DoubleEntry == \A j \in DOMAIN book.journals : Balanced(book.journals[j].lines)

\* A customer owes the invoices in force, less the receipts and notes; what is
\* owed to a supplier is the bills in force, less the payments and notes.
OnAccount(type, party) ==
  TotalOf(book, {s \in Live(book, {type}) : book.sources[s].party = party
                                           /\ (type \in Notes => book.sources[s].cash = "none")})

PartyPositions ==
  /\ PartyBalance(book, "AR", "customer") + PartyBalance(book, "CUSTOMER_ADVANCES", "customer")
       = OnAccount("invoice", "customer") + OnAccount("debit_note", "customer")
         - OnAccount("receipt", "customer") - OnAccount("credit_note", "customer")
  /\ PartyBalance(book, "AP", "supplier") + PartyBalance(book, "SUPPLIER_ADVANCES", "supplier")
       = OnAccount("supplier_payment", "supplier") + OnAccount("credit_note", "supplier")
         - OnAccount("credit_purchase", "supplier") - OnAccount("debit_note", "supplier")

\* Invoices are paid from receipts in force: taking a receipt back, or editing
\* it, leaves no allocation of it behind.
AllocatedInForce == \A a \in book.allocs : a.receipt \in Live(book, {"receipt"})

\* What is allocated comes from a receipt in force, and never exceeds it.
AllocationsFunded ==
  AllocatedInForce /\ \A a \in book.allocs : Remaining(book, a.receipt) >= 0

\* A journal is reversed at most once, by its opposite, and exactly when its
\* document was deleted or replaced.
OneReversal ==
  \A j \in DOMAIN book.journals :
    LET rs == {k \in DOMAIN book.journals : book.journals[k].reversalOf = j}
        s == book.journals[j].source
    IN /\ Cardinality(rs) <= 1
       /\ rs # {} <=> s # 0 /\ book.sources[s].reversed
       /\ \A k \in rs : book.journals[k].lines = Opposite(book.journals[j].lines)

\* A closed period shows no revenue and no expense: all of it was cleared.
ClosedZero ==
  \A p \in DOMAIN book.periods \ OpenPeriods(book) :
    \A a \in RevenueAccounts \cup ExpenseAccounts : Movement(book, JournalsIn(book, p), {a}) = 0

\* What the closes added to the members' capital, over what they started with, is
\* what the ledger of the closed periods says, unless a movement of theirs was
\* taken back after the close that counted it (closeBooksRepository.ts:53-114).
ClosedJournals(b) == UNION {JournalsIn(b, p) : p \in DOMAIN b.periods \ OpenPeriods(b)}

TakenBackLater(b) ==
  \E k \in DOMAIN b.journals :
    LET j == b.journals[k].reversalOf
    IN /\ j # 0 /\ b.sources[b.journals[k].source].type \in MemberMoves
       /\ b.journals[j].period # b.journals[k].period

CapitalAgrees ==
  book.members # <<>> /\ ~TakenBackLater(book) =>
    SumFunction(book.capital) - SumFunction(Now.book.capital)
      = -Movement(book, ClosedJournals(book) \ OpeningBalanceJournals(book), {"CAPITAL", "DRAWINGS"})

\* At most one opening balance is in force, however often it is set.
OneOpening == Cardinality(Opening(book)) <= 1

\* Where stock is valued at each movement and none was taken back, the inventory
\* account is worth the quantity on hand.
StockValued ==
  book.perpetual /\ (\A s \in DOMAIN book.sources : book.sources[s].units # 0 =>
                                                    ~book.sources[s].reversed) =>
    Balance(book, "INVENTORY") = book.qty * UnitCost

\* The stock on hand is what the documents in force moved: a sale that was
\* deleted gives its units back.
UnitsOf(types) == SumFunction([s \in Live(book, types) |-> book.sources[s].units])

StockRestored ==
  book.qty = UnitsOf(Purchases \cup {"stock_adjust"}) - UnitsOf({"cash_sale", "invoice"})

\* A closed period keeps its bounds and its journals; nothing is posted into it.
ClosedFrozen ==
  [][\A p \in DOMAIN book.periods \ OpenPeriods(book) :
       /\ book'.periods[p] = book.periods[p]
       /\ JournalsIn(book', p) = JournalsIn(book, p)
       /\ \A j \in JournalsIn(book, p) : book'.journals[j] = book.journals[j]]_vars
=============================================================================
