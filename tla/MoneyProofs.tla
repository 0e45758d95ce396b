---------------------------- MODULE MoneyProofs -----------------------------
(***************************************************************************)
(* The amounts of a book: every journal balances, every closed period was  *)
(* cleared, no receipt is allocated beyond its total, the ledger shows of  *)
(* every party what the documents in force say, and the members' capital   *)
(* is what it holds for them.  First, that the operators which post and    *)
(* take back leave fair lines (Money) and what a party owes as it should   *)
(* be (Positioned); then that allocations stay within what receipts give   *)
(* (Funded), and that a close clears its period for good (Zeroed); then    *)
(* the operations of Books; last, what a period holds of the members'      *)
(* movements (Titled) and what a close makes of it (CapitalHeld).          *)
(***************************************************************************)
EXTENDS LedgerProofs

-----------------------------------------------------------------------------
(* Lines of the chart of accounts *)

Listed(s) == LineSeq(s) /\ \A k \in DOMAIN s : s[k].account \in Accounts

\* The lines a journal may have.
Fair(s) == Listed(s) /\ Balanced(s) /\ \A k \in DOMAIN s : s[k].amount # 0

LEMMA LineFact ==
  ASSUME NEW account, NEW party, NEW amount \in Int
  PROVE  /\ IsLine(Line(account, party, amount))
         /\ Line(account, party, amount).account = account
         /\ Line(account, party, amount).amount = amount
BY DEF IsLine, Line

\* A line of a known account, its account and its amount.
Charges(l, a, n) == IsLine(l) /\ l.account = a /\ l.amount = n /\ a \in Accounts /\ n \in Int

LEMMA ChargesFact ==
  ASSUME NEW account \in Accounts, NEW party, NEW amount \in Int
  PROVE  Charges(Line(account, party, amount), account, amount)
BY LineFact DEF Charges

LEMMA ListedOne ==
  ASSUME NEW l, NEW a, NEW n, Charges(l, a, n)
  PROVE  Listed(<<l>>) /\ Net(<<l>>, Accounts) = n
<1>1. LineSeq(<<l>>) /\ Net(<<l>>, Accounts) = n
  BY NetOne DEF Charges
<1>2. DOMAIN <<l>> = {1} /\ <<l>>[1] = l
  OBVIOUS
<1> QED BY <1>1, <1>2 DEF Listed, Charges

LEMMA ListedJoined ==
  ASSUME NEW s, NEW t, Listed(s), Listed(t)
  PROVE  Listed(s \o t) /\ Net(s \o t, Accounts) = Net(s, Accounts) + Net(t, Accounts)
<1>1. /\ DOMAIN (s \o t) = 1 .. Len(s) + Len(t)
      /\ \A i \in 1 .. Len(s) : (s \o t)[i] = s[i]
      /\ \A i \in 1 .. Len(t) : (s \o t)[Len(s) + i] = t[i]
      /\ Len(s) \in Nat /\ DOMAIN s = 1 .. Len(s) /\ Len(t) \in Nat /\ DOMAIN t = 1 .. Len(t)
  BY ConcatFact, SeqFact DEF Listed, LineSeq
<1>2. ASSUME NEW k \in 1 .. Len(s) + Len(t) PROVE (s \o t)[k].account \in Accounts
  <2>1. CASE k \in 1 .. Len(s)
    BY <1>1, <2>1 DEF Listed
  <2>2. CASE k \notin 1 .. Len(s)
    <3>1. k - Len(s) \in 1 .. Len(t) /\ Len(s) + (k - Len(s)) = k
      BY <1>1, <2>2
    <3> QED BY <1>1, <3>1 DEF Listed
  <2> QED BY <2>1, <2>2
<1> QED BY <1>1, <1>2, NetJoined DEF Listed

LEMMA ListedTwo ==
  ASSUME NEW l, NEW a, NEW n, Charges(l, a, n), NEW m, NEW c, NEW o, Charges(m, c, o)
  PROVE  Listed(<<l, m>>) /\ Net(<<l, m>>, Accounts) = n + o
<1>1. <<l, m>> = <<l>> \o <<m>>
  OBVIOUS
<1>2. Listed(<<l>>) /\ Net(<<l>>, Accounts) = n /\ Listed(<<m>>) /\ Net(<<m>>, Accounts) = o
  BY ListedOne
<1> DEFINE s == <<l>>
           t == <<m>>
<1>3. Listed(s) /\ Listed(t)
  BY <1>2
<1> HIDE DEF s, t
<1>4. Listed(s \o t) /\ Net(s \o t, Accounts) = Net(s, Accounts) + Net(t, Accounts)
  BY <1>3, ListedJoined
<1> QED BY <1>1, <1>2, <1>4 DEF s, t

LEMMA ListedThree ==
  ASSUME NEW l, NEW a, NEW n, Charges(l, a, n), NEW m, NEW c, NEW o, Charges(m, c, o),
         NEW q, NEW e, NEW r, Charges(q, e, r)
  PROVE  Listed(<<l, m, q>>) /\ Net(<<l, m, q>>, Accounts) = n + o + r
<1>1. <<l, m, q>> = <<l, m>> \o <<q>>
  OBVIOUS
<1>2. /\ Listed(<<l, m>>) /\ Net(<<l, m>>, Accounts) = n + o
      /\ Listed(<<q>>) /\ Net(<<q>>, Accounts) = r
  BY ListedOne, ListedTwo
<1> DEFINE s == <<l, m>>
           t == <<q>>
<1>3. Listed(s) /\ Listed(t)
  BY <1>2
<1> HIDE DEF s, t
<1>4. Listed(s \o t) /\ Net(s \o t, Accounts) = Net(s, Accounts) + Net(t, Accounts)
  BY <1>3, ListedJoined
<1> QED BY <1>1, <1>2, <1>4 DEF s, t

LEMMA ListedLines ==
  ASSUME NEW s, Listed(s)
  PROVE  /\ Listed(Lines(s)) /\ \A k \in DOMAIN Lines(s) : Lines(s)[k].amount # 0
         /\ Balanced(Lines(s)) => Fair(Lines(s))
         /\ Net(s, Accounts) = 0 => Fair(Lines(s))
<1>1. /\ LineSeq(Lines(s)) /\ Net(Lines(s), Accounts) = Net(s, Accounts)
      /\ \A k \in DOMAIN Lines(s) : Lines(s)[k].amount # 0 /\ \E i \in DOMAIN s : Lines(s)[k] = s[i]
  BY NetLines DEF Listed
<1>2. Listed(Lines(s))
  BY <1>1 DEF Listed
<1>3. Balanced(Lines(s)) <=> Net(Lines(s), Accounts) = 0
  BY <1>2, NetBalanced DEF Listed
<1> QED BY <1>1, <1>2, <1>3 DEF Fair

LEMMA FairOpposite == ASSUME NEW s, Fair(s) PROVE Fair(Opposite(s))
<1> DEFINE o == Opposite(s)
<1>1. LineSeq(s) /\ Net(s, Accounts) = 0
  BY NetBalanced DEF Fair, Listed
<1>2. LineSeq(o) /\ Net(o, Accounts) = 0
  BY <1>1, NetOpposite
<1>3. DOMAIN o = DOMAIN s
  BY DEF Opposite
<1>4. ASSUME NEW k \in DOMAIN s PROVE o[k].account \in Accounts /\ o[k].amount # 0
  <2>1. IsLine(s[k]) /\ s[k].account \in Accounts /\ s[k].amount # 0
    BY DEF Fair, Listed, LineSeq
  <2>2. o[k] = [s[k] EXCEPT !.amount = -s[k].amount]
    BY DEF Opposite
  <2>3. o[k].account = s[k].account /\ o[k].amount = -s[k].amount /\ s[k].amount \in Int
    BY <2>1, <2>2 DEF IsLine, Line
  <2> QED BY <2>1, <2>3
<1> HIDE DEF o
<1>5. Listed(o)
  BY <1>2, <1>3, <1>4 DEF Listed
<1>6. Balanced(o)
  BY <1>2, <1>5, NetBalanced DEF Listed
<1> QED BY <1>3, <1>4, <1>5, <1>6 DEF Fair, o

-----------------------------------------------------------------------------
(* The amounts of a book *)

Priced(doc) ==
  /\ doc.total \in Nat /\ doc.tax \in Nat /\ doc.units \in Int /\ Charted(doc)
  /\ doc.type \in Notes => doc.account \in {"INVENTORY", "EXPENSES"}

\* A supplier's note names a bill, and a deposit is a member's.
Noted(b, doc) ==
  /\ doc.type \in Notes /\ doc.party = "supplier" /\ doc.link # 0 =>
       b.sources[doc.link].type \in Purchases
  /\ doc.type = "capital_injection" /\ doc.of = 0 => doc.party \in Range(b.members)

MoneyCount(n) == n.kind \in 1 .. 3 /\ n.date \in Dates /\ n.value \in Nat

\* Every amount is a number, every account is of the chart, and journals balance.
Money(b) ==
  /\ \A s \in DOMAIN b.sources : Priced(b.sources[s]) /\ Noted(b, b.sources[s])
  /\ \A j \in DOMAIN b.journals : Fair(b.journals[j].lines)
  /\ IsFiniteSet(b.allocs) /\ \A r \in b.allocs : r.amount \in Int
  /\ \A n \in b.counts : MoneyCount(n)
  /\ b.members \in Seq(DOMAIN Share)

\* Cash and the bank, stock and expenses are accounts of the chart.
LEMMA ChartedFact ==
  ASSUME NEW doc, Charted(doc)
  PROVE  /\ doc.type \in {"cash_sale", "receipt", "cash_purchase", "supplier_payment", "expense", "drawing",
                          "commission_payment", "manual_asset"} => doc.cash \in Accounts
         /\ doc.type \in Notes => doc.cash \in Accounts \cup {"none"}
         /\ doc.type \in Purchases \cup {"expense", "opening_balance", "manual_liability"} =>
              doc.account \in Accounts
<1>1. /\ CashAccounts \subseteq Accounts /\ ExpenseAccounts \subseteq Accounts
      /\ {"INVENTORY", "EXPENSES", "CASH", "OTHER_ASSETS", "OTHER_LIABILITIES",
          "OWNER_CONTRIBUTIONS"} \subseteq Accounts
  BY DEF Accounts, ExpenseAccounts, CashAccounts
<1> QED BY <1>1 DEF Charted

LEMMA SummableFact == ASSUME NEW S, NEW f, Summable(f, S) PROVE SumFunction(f) \in Int
BY SumInt DEF Summable

LEMMA RowSets ==
  ASSUME NEW b, Rows(b)
  PROVE  /\ DOMAIN b.journals = 1 .. Len(b.journals) /\ Len(b.journals) \in Nat
         /\ DOMAIN b.sources = 1 .. Len(b.sources) /\ Len(b.sources) \in Nat
         /\ \A js \in SUBSET DOMAIN b.journals : IsFiniteSet(js)
         /\ \A ss \in SUBSET DOMAIN b.sources : IsFiniteSet(ss)
<1>1. /\ DOMAIN b.journals = 1 .. Len(b.journals) /\ Len(b.journals) \in Nat
      /\ DOMAIN b.sources = 1 .. Len(b.sources) /\ Len(b.sources) \in Nat
  BY SeqFact DEF Rows
<1>2. IsFiniteSet(DOMAIN b.journals) /\ IsFiniteSet(DOMAIN b.sources)
  BY <1>1, IntervalFinite
<1> QED BY <1>1, <1>2, FS_Subset

LEMMA TotalInt ==
  ASSUME NEW s, LineSeq(s), NEW K \in SUBSET DOMAIN s PROVE LineTotal(s, K) \in Int
<1> DEFINE f == [k \in K |-> s[k].amount]
<1>1. Len(s) \in Nat /\ DOMAIN s = 1 .. Len(s) /\ \A k \in 1 .. Len(s) : IsLine(s[k])
  BY WorthFact
<1>2. IsFiniteSet(K)
  BY <1>1, IntervalFinite, FS_Subset
<1>3. f \in [K -> Int]
  BY <1>1 DEF IsLine
<1> HIDE DEF f
<1>4. SumFunction(f) \in Int
  BY <1>2, <1>3, SumInt
<1> QED BY <1>4 DEF LineTotal, f

\* What journals come to on some accounts, by the lines of each.
Nets(b, js, A) == [j \in js |-> Net(b.journals[j].lines, A)]

LEMMA MovementIs ==
  ASSUME NEW b, Rows(b), Money(b), NEW js \in SUBSET DOMAIN b.journals, NEW A
  PROVE  /\ Movement(b, js, A) = SumFunction(Nets(b, js, A)) /\ Summable(Nets(b, js, A), js)
         /\ Movement(b, js, A) \in Int
<1>1. \A j \in js : LineSeq(b.journals[j].lines)
  BY DEF Money, Fair, Listed
<1>2. \A j \in js : LineTotal(b.journals[j].lines, On(b.journals[j].lines, A)) = Net(b.journals[j].lines, A)
  BY <1>1, NetIs
<1>3. [j \in js |-> LineTotal(b.journals[j].lines, On(b.journals[j].lines, A))] = Nets(b, js, A)
  BY <1>2 DEF Nets
<1>4. Movement(b, js, A) = SumFunction(Nets(b, js, A))
  BY <1>3 DEF Movement
<1>5. Summable(Nets(b, js, A), js)
  <2>1. \A j \in js : Net(b.journals[j].lines, A) \in Int
    BY <1>1, NetInt
  <2> QED BY <2>1, RowSets DEF Summable, Nets
<1> QED BY <1>4, <1>5, SummableFact

LEMMA PartyBalanceInt ==
  ASSUME NEW b, Rows(b), Money(b), NEW account, NEW party
  PROVE  PartyBalance(b, account, party) \in Int
<1> DEFINE with(lines) == {k \in On(lines, {account}) : lines[k].party = party}
           f == [j \in DOMAIN b.journals |-> LineTotal(b.journals[j].lines, with(b.journals[j].lines))]
<1>1. \A j \in DOMAIN b.journals : LineTotal(b.journals[j].lines, with(b.journals[j].lines)) \in Int
  <2> SUFFICES ASSUME NEW j \in DOMAIN b.journals
               PROVE  LineTotal(b.journals[j].lines, with(b.journals[j].lines)) \in Int
    OBVIOUS
  <2>1. LineSeq(b.journals[j].lines)
    BY DEF Money, Fair, Listed
  <2>2. with(b.journals[j].lines) \in SUBSET DOMAIN b.journals[j].lines
    BY DEF On
  <2> QED BY <2>1, <2>2, TotalInt
<1>2. f \in [DOMAIN b.journals -> Int] /\ IsFiniteSet(DOMAIN b.journals)
  BY <1>1, RowSets
<1>3. PartyBalance(b, account, party) = SumFunction(f)
  BY DEF PartyBalance
<1> HIDE DEF f
<1> QED BY <1>2, <1>3, SumInt

LEMMA AllocatedInt ==
  ASSUME NEW b, Rows(b), Money(b), NEW s PROVE Allocated(b, s) \in Int /\ Consumed(b, s) \in Int
<1> DEFINE f == [r \in {a \in b.allocs : a.invoice = s} |-> r.amount]
           g == [r \in {a \in b.allocs : a.receipt = s} |-> r.amount]
<1>1. f \in [{a \in b.allocs : a.invoice = s} -> Int] /\ g \in [{a \in b.allocs : a.receipt = s} -> Int]
  BY DEF Money
<1>2. /\ {a \in b.allocs : a.invoice = s} \in SUBSET b.allocs /\ IsFiniteSet(b.allocs)
      /\ {a \in b.allocs : a.receipt = s} \in SUBSET b.allocs
  BY DEF Money
<1>3. Allocated(b, s) = SumFunction(f) /\ Consumed(b, s) = SumFunction(g)
  BY DEF Allocated, Consumed
<1> HIDE DEF f, g
<1>4. IsFiniteSet({a \in b.allocs : a.invoice = s}) /\ IsFiniteSet({a \in b.allocs : a.receipt = s})
  BY <1>2, FS_Subset
<1> QED BY <1>1, <1>3, <1>4, SumInt

LEMMA TotalOfInt ==
  ASSUME NEW b, Rows(b), Money(b), NEW ss \in SUBSET DOMAIN b.sources PROVE TotalOf(b, ss) \in Int
<1> DEFINE f == [s \in ss |-> b.sources[s].total]
<1>1. f \in [ss -> Int] /\ IsFiniteSet(ss)
  BY RowSets DEF Money, Priced
<1>2. TotalOf(b, ss) = SumFunction(f)
  BY DEF TotalOf
<1> HIDE DEF f
<1> QED BY <1>1, <1>2, SumInt

LEMMA MaxOfTwo ==
  ASSUME NEW m \in Int, NEW n \in Int
  PROVE  Max({m, n}) \in {m, n} /\ m <= Max({m, n}) /\ n <= Max({m, n})
<1>1. \E x \in {m, n} : \A y \in {m, n} : x >= y
  OBVIOUS
<1> QED BY <1>1 DEF Max

LEMMA MaxOfZero == ASSUME NEW n \in Int PROVE Max({0, n}) \in Nat
<1>1. 0 \in Int
  OBVIOUS
<1>2. Max({0, n}) \in {0, n} /\ 0 <= Max({0, n})
  BY <1>1, MaxOfTwo
<1> QED BY <1>2

LEMMA InvoiceOpenNat ==
  ASSUME NEW b, Rows(b), Money(b), NEW i \in DOMAIN b.sources PROVE InvoiceOpen(b, i) \in Nat
<1>1. b.sources[i].total \in Nat
  BY DEF Money, Priced
<1>2. TotalOf(b, NotesOf(b, i, "debit_note")) \in Int /\ TotalOf(b, NotesOf(b, i, "credit_note")) \in Int
  <2>1. \A type : NotesOf(b, i, type) \in SUBSET DOMAIN b.sources
    BY DEF NotesOf, Live
  <2> QED BY <2>1, TotalOfInt
<1>3. Allocated(b, i) \in Int
  BY AllocatedInt
<1> DEFINE n == b.sources[i].total + TotalOf(b, NotesOf(b, i, "debit_note"))
                  - Allocated(b, i) - TotalOf(b, NotesOf(b, i, "credit_note"))
<1>4. n \in Int
  BY <1>1, <1>2, <1>3
<1>5. InvoiceOpen(b, i) = Max({0, n})
  BY DEF InvoiceOpen
<1> HIDE DEF n
<1> QED BY <1>4, <1>5, MaxOfZero

LEMMA AdvancesInt ==
  ASSUME NEW b, Rows(b), Money(b)
  PROVE  /\ \A r \in DOMAIN b.sources : Remaining(b, r) \in Int
         /\ \A party : AdvanceBalance(b, party) \in Int /\ Advances(b, party) \in SUBSET DOMAIN b.sources
         /\ \A rs \in SUBSET DOMAIN b.sources : SumFunction([r \in rs |-> Remaining(b, r)]) \in Int
<1>1. \A r \in DOMAIN b.sources : Remaining(b, r) \in Int
  BY AllocatedInt DEF Remaining, Money, Priced
<1>2. ASSUME NEW rs \in SUBSET DOMAIN b.sources PROVE SumFunction([r \in rs |-> Remaining(b, r)]) \in Int
  <2> DEFINE f == [r \in rs |-> Remaining(b, r)]
  <2>1. f \in [rs -> Int] /\ IsFiniteSet(rs)
    BY <1>1, RowSets
  <2> HIDE DEF f
  <2>2. SumFunction(f) \in Int
    BY <2>1, SumInt
  <2> QED BY <2>2 DEF f
<1>3. \A party : Advances(b, party) \in SUBSET DOMAIN b.sources
  BY DEF Advances, Live
<1>4. \A party : AdvanceBalance(b, party) \in Int
  BY <1>2, <1>3 DEF AdvanceBalance
<1> QED BY <1>1, <1>2, <1>3, <1>4

-----------------------------------------------------------------------------
(* The lines of documents *)

\* What a receipt is applied to.
Paying(apply) == IsFiniteSet(apply) /\ \A a \in apply : a.amount \in Int

LEMMA AppliedTotalInt == ASSUME NEW apply, Paying(apply) PROVE AppliedTotal(apply) \in Int
<1> DEFINE f == [a \in apply |-> a.amount]
<1>1. f \in [apply -> Int] /\ IsFiniteSet(apply)
  BY DEF Paying
<1>2. AppliedTotal(apply) = SumFunction(f)
  BY DEF AppliedTotal
<1> HIDE DEF f
<1> QED BY <1>1, <1>2, SumInt

LEMMA SettledInt ==
  ASSUME NEW b, Rows(b), Money(b), NEW doc, doc.total \in Nat
  PROVE  /\ Applied(b, doc) \in Int /\ Applied(b, doc) <= AdvanceBalance(b, doc.party)
         /\ AdvanceApplied(b, doc) \in Int /\ ToPayable(b, doc) \in Int
         /\ Max({0, AdvanceApplied(b, doc)}) \in Int
<1>0. PICK n \in Int : n = doc.total
  OBVIOUS
<1>1. Applied(b, doc) \in Int /\ Applied(b, doc) <= AdvanceBalance(b, doc.party)
  <2>1. PICK m \in Int : m = AdvanceBalance(b, doc.party)
    BY AdvancesInt
  <2>2. Min({m, n}) \in {m, n} /\ Min({m, n}) <= m
    BY MinFact
  <2> QED BY <1>0, <2>1, <2>2 DEF Applied
<1>2. AdvanceApplied(b, doc) \in Int
  <2>1. PICK m \in Int : m = PartyBalance(b, "SUPPLIER_ADVANCES", doc.party)
    BY PartyBalanceInt
  <2>2. Min({m, n}) \in {m, n}
    BY MinFact
  <2> QED BY <1>0, <2>1, <2>2 DEF AdvanceApplied
<1>3. ToPayable(b, doc) \in Int
  <2>1. PICK m \in Int : m = -PartyBalance(b, "AP", doc.party)
    BY PartyBalanceInt
  <2>2. PICK o : o = Max({0, m})
    OBVIOUS
  <2>3. o \in Int
    BY <2>2, MaxOfZero
  <2>4. Min({n, o}) \in {n, o}
    BY <2>3, MinFact
  <2> QED BY <1>0, <2>1, <2>2, <2>3, <2>4 DEF ToPayable
<1>4. Max({0, AdvanceApplied(b, doc)}) \in Int
  <2>1. PICK m \in Int : m = AdvanceApplied(b, doc)
    BY <1>2
  <2>2. Max({0, m}) \in Nat
    BY MaxOfZero
  <2> QED BY <2>1, <2>2
<1> QED BY <1>1, <1>2, <1>3, <1>4

LEMMA SaleListed ==
  ASSUME NEW doc, doc.total \in Nat, doc.tax \in Nat, NEW debit, NEW a, Charges(debit, a, doc.total)
  PROVE  Listed(SaleLines(doc, debit)) /\ Net(SaleLines(doc, debit), Accounts) = 0
<1> DEFINE m == -(doc.total - doc.tax)
           o == -doc.tax
<1>1. m \in Int /\ o \in Int /\ doc.total + m + o = 0
  OBVIOUS
<1> HIDE DEF m, o
<1>2. Charges(Line("SALES", "none", m), "SALES", m)
      /\ Charges(Line("TAX_PAYABLE", "none", o), "TAX_PAYABLE", o)
  <2>1. "SALES" \in Accounts /\ "TAX_PAYABLE" \in Accounts
    BY DEF Accounts, RevenueAccounts
  <2> QED BY <1>1, <2>1, ChargesFact
<1>3. SaleLines(doc, debit) = <<debit, Line("SALES", "none", m), Line("TAX_PAYABLE", "none", o)>>
  BY DEF SaleLines, m, o
<1> QED BY <1>1, <1>2, <1>3, ListedThree

LEMMA InvoiceListed ==
  ASSUME NEW b, Rows(b), Money(b), NEW doc, doc.total \in Nat, doc.tax \in Nat
  PROVE  Listed(InvoiceLines(b, doc))
<1> DEFINE n == Applied(b, doc)
           m == -Applied(b, doc)
           s == SaleLines(doc, Line("AR", doc.party, doc.total))
           t == <<Line("CUSTOMER_ADVANCES", doc.party, n), Line("AR", doc.party, m)>>
<1>1. n \in Int /\ m \in Int
  <2>1. Applied(b, doc) \in Int
    BY SettledInt
  <2> QED BY <2>1
<1>2. InvoiceLines(b, doc) = s \o t
  BY DEF InvoiceLines
<1>3. Charges(Line("AR", doc.party, doc.total), "AR", doc.total)
  <2>1. "AR" \in Accounts /\ doc.total \in Int
    BY DEF Accounts
  <2> QED BY <2>1, ChargesFact
<1>4. Listed(s)
  BY <1>3, SaleListed
<1> HIDE DEF n, m, s
<1>5. Charges(Line("CUSTOMER_ADVANCES", doc.party, n), "CUSTOMER_ADVANCES", n)
      /\ Charges(Line("AR", doc.party, m), "AR", m)
  BY <1>1, ChargesFact DEF Accounts
<1>6. Listed(t)
  BY <1>5, ListedTwo
<1> HIDE DEF t
<1> QED BY <1>2, <1>4, <1>6, ListedJoined

LEMMA ReceiptListed ==
  ASSUME NEW doc, doc.total \in Nat, doc.cash \in Accounts, NEW apply, Paying(apply)
  PROVE  Listed(ReceiptLines(doc, apply)) /\ Net(ReceiptLines(doc, apply), Accounts) = 0
<1> DEFINE n == doc.total
           m == -AppliedTotal(apply)
           o == AppliedTotal(apply) - doc.total
<1>1. n \in Int /\ m \in Int /\ o \in Int /\ n + m + o = 0
  BY AppliedTotalInt
<1>2. ReceiptLines(doc, apply) = <<Line(doc.cash, doc.party, n), Line("AR", doc.party, m),
                                   Line("CUSTOMER_ADVANCES", doc.party, o)>>
  BY DEF ReceiptLines
<1> HIDE DEF n, m, o
<1>3. /\ Charges(Line(doc.cash, doc.party, n), doc.cash, n) /\ Charges(Line("AR", doc.party, m), "AR", m)
      /\ Charges(Line("CUSTOMER_ADVANCES", doc.party, o), "CUSTOMER_ADVANCES", o)
  BY <1>1, ChargesFact DEF Accounts
<1> QED BY <1>1, <1>2, <1>3, ListedThree

LEMMA PurchaseListed ==
  ASSUME NEW b, Rows(b), Money(b), NEW doc, Priced(doc), doc.type \in Purchases
  PROVE  Listed(PurchaseLines(b, doc))
<1>1. doc.total \in Nat /\ doc.account \in Accounts /\ -doc.total \in Int
  BY ChartedFact DEF Priced
<1>2. Charges(Line(doc.account, doc.party, doc.total), doc.account, doc.total)
  BY <1>1, ChargesFact
<1>3. CASE doc.type = "cash_purchase"
  <2>1. doc.cash \in Accounts
    BY <1>3, ChartedFact DEF Priced
  <2>2. Charges(Line(doc.cash, doc.party, -doc.total), doc.cash, -doc.total)
    BY <1>1, <2>1, ChargesFact
  <2>3. PurchaseLines(b, doc) = <<Line(doc.account, doc.party, doc.total),
                                  Line(doc.cash, doc.party, -doc.total)>>
    BY <1>3 DEF PurchaseLines
  <2> QED BY <1>2, <2>2, <2>3, ListedTwo
<1>4. CASE doc.type # "cash_purchase"
  <2> DEFINE m == -Max({0, AdvanceApplied(b, doc)})
             o == AdvanceApplied(b, doc) - doc.total
  <2>1. m \in Int /\ o \in Int
    BY <1>1, SettledInt
  <2>2. PurchaseLines(b, doc) = <<Line(doc.account, doc.party, doc.total),
                                  Line("SUPPLIER_ADVANCES", doc.party, m), Line("AP", doc.party, o)>>
    BY <1>4 DEF PurchaseLines
  <2> HIDE DEF m, o
  <2>3. Charges(Line("SUPPLIER_ADVANCES", doc.party, m), "SUPPLIER_ADVANCES", m)
        /\ Charges(Line("AP", doc.party, o), "AP", o)
    BY <2>1, ChargesFact DEF Accounts
  <2> QED BY <1>2, <2>2, <2>3, ListedThree
<1> QED BY <1>3, <1>4

LEMMA PaymentListed ==
  ASSUME NEW b, Rows(b), Money(b), NEW doc, doc.total \in Nat, doc.cash \in Accounts
  PROVE  Listed(PaymentLines(b, doc))
<1> DEFINE n == ToPayable(b, doc)
           m == doc.total - ToPayable(b, doc)
           o == -doc.total
<1>1. n \in Int /\ m \in Int /\ o \in Int
  <2>1. ToPayable(b, doc) \in Int
    BY SettledInt
  <2> QED BY <2>1
<1>2. PaymentLines(b, doc) = <<Line("AP", doc.party, n), Line("SUPPLIER_ADVANCES", doc.party, m),
                               Line(doc.cash, "none", o)>>
  BY DEF PaymentLines
<1> HIDE DEF n, m, o
<1>3. /\ Charges(Line("AP", doc.party, n), "AP", n) /\ Charges(Line(doc.cash, "none", o), doc.cash, o)
      /\ Charges(Line("SUPPLIER_ADVANCES", doc.party, m), "SUPPLIER_ADVANCES", m)
  BY <1>1, ChargesFact DEF Accounts
<1> QED BY <1>2, <1>3, ListedThree

LEMMA NoteListed ==
  ASSUME NEW doc, Priced(doc), doc.type \in Notes
  PROVE  Listed(NoteLines(doc))
<1> DEFINE settled(account) == IF doc.cash = "none" THEN account ELSE doc.cash
           sales == IF doc.type = "credit_note" THEN "SALES_RETURNS" ELSE "SALES"
           sign == IF doc.type = "credit_note" THEN 1 ELSE -1
           n == sign * doc.total
           m == -sign * doc.total
           ap == settled("AP")
           ar == settled("AR")
<1>1. doc.total \in Nat /\ doc.cash \in Accounts \cup {"none"} /\ doc.account \in Accounts
  BY ChartedFact DEF Priced, Accounts, ExpenseAccounts
<1>2. n \in Int /\ m \in Int /\ ap \in Accounts /\ ar \in Accounts /\ sales \in Accounts
  BY <1>1 DEF Accounts, RevenueAccounts
<1>3. NoteLines(doc) = IF doc.party = "supplier"
                       THEN <<Line(ap, doc.party, n), Line(doc.account, "none", m)>>
                       ELSE <<Line(sales, "none", n), Line(ar, doc.party, m)>>
  BY DEF NoteLines
<1> HIDE DEF n, m, ap, ar, sales, sign
<1>4. /\ Charges(Line(ap, doc.party, n), ap, n) /\ Charges(Line(doc.account, "none", m), doc.account, m)
      /\ Charges(Line(sales, "none", n), sales, n) /\ Charges(Line(ar, doc.party, m), ar, m)
  BY <1>1, <1>2, ChargesFact
<1>5. Listed(<<Line(ap, doc.party, n), Line(doc.account, "none", m)>>)
      /\ Listed(<<Line(sales, "none", n), Line(ar, doc.party, m)>>)
  BY <1>4, ListedTwo
<1> QED BY <1>3, <1>5

\* The documents that debit one account and credit another.
Plain == SourceTypes \ ({"cash_sale", "invoice", "receipt", "supplier_payment"} \cup Purchases \cup Notes)

LEMMA PlainFact ==
  ASSUME NEW doc, Priced(doc), doc.type \in Plain
  PROVE  Debited(doc) \in Accounts /\ Credited(doc) \in Accounts
<1>1. doc.type \in {"expense", "commission_payment", "opening_balance", "stock_adjust",
                    "capital_injection", "drawing", "manual_cash_income", "manual_cash_expense",
                    "manual_asset", "manual_liability"}
  BY DEF Plain, SourceTypes, Purchases, Notes, MemberMoves, ManualCash, ManualBalances
<1>2. /\ "CASH" \in Accounts /\ "EXPENSES" \in Accounts /\ "DRAWINGS" \in Accounts
      /\ "COMMISSION_PAYABLE" \in Accounts /\ "OTHER_ASSETS" \in Accounts /\ "INVENTORY" \in Accounts
      /\ "CAPITAL" \in Accounts /\ "SALES" \in Accounts /\ "AP" \in Accounts
      /\ "OTHER_LIABILITIES" \in Accounts
  BY DEF Accounts, RevenueAccounts, ExpenseAccounts, CashAccounts
<1>3. /\ doc.type \in {"expense", "opening_balance", "manual_liability"} => doc.account \in Accounts
      /\ doc.type \in {"expense", "drawing", "commission_payment", "manual_asset"} => doc.cash \in Accounts
  BY ChartedFact DEF Priced
<1>4. Debited(doc) \in Accounts
  BY <1>1, <1>2, <1>3 DEF Debited
<1>5. Credited(doc) \in Accounts
  BY <1>1, <1>2, <1>3 DEF Credited
<1> QED BY <1>4, <1>5

LEMMA PlainListed ==
  ASSUME NEW doc, Priced(doc), doc.type \in Plain
  PROVE  LET s == <<Line(Debited(doc), "none", doc.total), Line(Credited(doc), "none", -doc.total)>>
         IN Listed(s) /\ Net(s, Accounts) = 0
<1> DEFINE n == doc.total
           m == -doc.total
<1>1. n \in Int /\ m \in Int /\ n + m = 0
  BY DEF Priced
<1> HIDE DEF n, m
<1>2. /\ Charges(Line(Debited(doc), "none", n), Debited(doc), n)
      /\ Charges(Line(Credited(doc), "none", m), Credited(doc), m)
  BY <1>1, PlainFact, ChargesFact
<1>3. LET s == <<Line(Debited(doc), "none", n), Line(Credited(doc), "none", m)>>
      IN Listed(s) /\ Net(s, Accounts) = 0
  BY <1>1, <1>2, ListedTwo
<1> QED BY <1>3 DEF n, m

\* What a document writes is lines of known accounts; those of a receipt and of
\* the other documents that are posted unchecked balance by themselves.
LEMMA DocumentLines ==
  ASSUME NEW b, Rows(b), Money(b), NEW doc, Priced(doc), doc.type \in SourceTypes,
         NEW apply, Paying(apply)
  PROVE  /\ Balanced(LinesOf(b, doc, apply)) => Fair(LinesOf(b, doc, apply))
         /\ doc.type \in {"receipt", "opening_balance"} => Fair(LinesOf(b, doc, apply))
<1> DEFINE s == CASE doc.type = "cash_sale" -> SaleLines(doc, Line(doc.cash, "none", doc.total))
          [] doc.type = "invoice" -> InvoiceLines(b, doc)
          [] doc.type = "receipt" -> ReceiptLines(doc, apply)
          [] doc.type \in Purchases -> PurchaseLines(b, doc)
          [] doc.type = "supplier_payment" -> PaymentLines(b, doc)
          [] doc.type \in Notes -> NoteLines(doc)
          [] OTHER -> <<Line(Debited(doc), "none", doc.total), Line(Credited(doc), "none", -doc.total)>>
<1>1. LinesOf(b, doc, apply) = Lines(s)
  BY DEF LinesOf
<1>2. doc.total \in Nat /\ doc.tax \in Nat
  BY DEF Priced
<1>3. CASE doc.type = "cash_sale"
  <2>1. s = SaleLines(doc, Line(doc.cash, "none", doc.total))
    BY <1>3 DEF Purchases, Notes
  <2>2. doc.cash \in Accounts
    BY <1>3, ChartedFact DEF Priced
  <2>3. Charges(Line(doc.cash, "none", doc.total), doc.cash, doc.total)
    BY <1>2, <2>2, ChargesFact
  <2>4. Listed(s)
    BY <1>2, <2>1, <2>3, SaleListed
  <2> HIDE DEF s
  <2> QED BY <1>1, <1>3, <2>4, ListedLines
<1>4. CASE doc.type = "invoice"
  <2>1. s = InvoiceLines(b, doc)
    BY <1>4 DEF Purchases, Notes
  <2> HIDE DEF s
  <2> QED BY <1>1, <1>2, <1>4, <2>1, InvoiceListed, ListedLines
<1>5. CASE doc.type = "receipt"
  <2>1. s = ReceiptLines(doc, apply)
    BY <1>5 DEF Purchases, Notes
  <2>2. doc.cash \in Accounts
    BY <1>5, ChartedFact DEF Priced
  <2> HIDE DEF s
  <2> QED BY <1>1, <1>2, <2>1, <2>2, ReceiptListed, ListedLines
<1>6. CASE doc.type \in Purchases
  <2>1. s = PurchaseLines(b, doc) /\ doc.type \notin {"receipt", "opening_balance"}
    BY <1>6 DEF Purchases, Notes
  <2> HIDE DEF s
  <2> QED BY <1>1, <1>6, <2>1, PurchaseListed, ListedLines
<1>7. CASE doc.type = "supplier_payment"
  <2>1. s = PaymentLines(b, doc)
    BY <1>7 DEF Purchases, Notes
  <2>2. doc.cash \in Accounts
    BY <1>7, ChartedFact DEF Priced
  <2> HIDE DEF s
  <2> QED BY <1>1, <1>2, <1>7, <2>1, <2>2, PaymentListed, ListedLines
<1>8. CASE doc.type \in Notes
  <2>1. s = NoteLines(doc) /\ doc.type \notin {"receipt", "opening_balance"}
    BY <1>8 DEF Purchases, Notes
  <2> HIDE DEF s
  <2> QED BY <1>1, <1>8, <2>1, NoteListed, ListedLines
<1>9. CASE doc.type \in Plain
  <2>1. s = <<Line(Debited(doc), "none", doc.total), Line(Credited(doc), "none", -doc.total)>>
    BY <1>9 DEF Plain
  <2>2. Listed(s) /\ Net(s, Accounts) = 0
    BY <1>9, <2>1, PlainListed
  <2> HIDE DEF s
  <2> QED BY <1>1, <2>2, ListedLines
<1> QED BY <1>3, <1>4, <1>5, <1>6, <1>7, <1>8, <1>9 DEF Plain

-----------------------------------------------------------------------------
(* What a party owes, or is owed: the receivables and advances of a customer, *)
(* the payables and advances of a supplier                                    *)

Parties == {"customer", "supplier"}

Side(p) == IF p = "customer" THEN {"AR", "CUSTOMER_ADVANCES"} ELSE {"AP", "SUPPLIER_ADVANCES"}

\* What the lines of a journal put on a party's account.
Owing(lines, p) == NetOf(lines, Side(p), {p})

Raising(p) == IF p = "customer" THEN {"invoice", "debit_note"} ELSE {"supplier_payment", "credit_note"}

Lowering(p) == IF p = "customer" THEN {"receipt", "credit_note"} ELSE {"credit_purchase", "debit_note"}

\* What a document is to put there: nothing when it is of another party, or
\* a note that is settled at once.
Effect(doc, p) ==
  IF doc.party # p \/ (doc.type \in Notes /\ doc.cash # "none") THEN 0
  ELSE IF doc.type \in Raising(p) THEN doc.total
  ELSE IF doc.type \in Lowering(p) THEN -doc.total ELSE 0

\* A line, and what it puts on a party's account.
Bears(l, p, n) ==
  IsLine(l) /\ n = (IF l.account \in Side(p) /\ l.party = p THEN l.amount ELSE 0) /\ n \in Int

LEMMA BearsFact ==
  ASSUME NEW account, NEW party, NEW amount \in Int, NEW p
  PROVE  Bears(Line(account, party, amount), p, IF account \in Side(p) /\ party = p THEN amount ELSE 0)
<1>1. LET l == Line(account, party, amount)
      IN IsLine(l) /\ l.account = account /\ l.amount = amount /\ l.party = party
  BY LineFact DEF Line
<1> QED BY <1>1 DEF Bears

LEMMA OwingOne ==
  ASSUME NEW p, NEW l, NEW n, Bears(l, p, n) PROVE LineSeq(<<l>>) /\ Owing(<<l>>, p) = n
<1>1. Concerns(l, Side(p), {p}) <=> l.account \in Side(p) /\ l.party = p
  BY DEF Concerns
<1>2. LineSeq(<<l>>) /\ NetOf(<<l>>, Side(p), {p}) = IF Concerns(l, Side(p), {p}) THEN l.amount ELSE 0
  BY NetOfOne DEF Bears
<1> QED BY <1>1, <1>2 DEF Bears, Owing

LEMMA OwingJoined ==
  ASSUME NEW p, NEW s, NEW t, LineSeq(s), LineSeq(t)
  PROVE  LineSeq(s \o t) /\ Owing(s \o t, p) = Owing(s, p) + Owing(t, p)
BY NetOfJoined DEF Owing

LEMMA OwingTwo ==
  ASSUME NEW p, NEW l, NEW n, Bears(l, p, n), NEW m, NEW o, Bears(m, p, o)
  PROVE  LineSeq(<<l, m>>) /\ Owing(<<l, m>>, p) = n + o
<1> DEFINE s == <<l>>
           t == <<m>>
<1>1. <<l, m>> = s \o t
  OBVIOUS
<1>2. LineSeq(s) /\ Owing(s, p) = n /\ LineSeq(t) /\ Owing(t, p) = o
  BY OwingOne
<1> HIDE DEF s, t
<1> QED BY <1>1, <1>2, OwingJoined

LEMMA OwingThree ==
  ASSUME NEW p, NEW l, NEW n, Bears(l, p, n), NEW m, NEW o, Bears(m, p, o),
         NEW q, NEW r, Bears(q, p, r)
  PROVE  LineSeq(<<l, m, q>>) /\ Owing(<<l, m, q>>, p) = n + o + r
<1> DEFINE s == <<l, m>>
           t == <<q>>
<1>1. <<l, m, q>> = s \o t
  OBVIOUS
<1>2. LineSeq(s) /\ Owing(s, p) = n + o /\ LineSeq(t) /\ Owing(t, p) = r
  BY OwingOne, OwingTwo
<1> HIDE DEF s, t
<1> QED BY <1>1, <1>2, OwingJoined

LEMMA OwingLines == ASSUME NEW p, NEW s, LineSeq(s) PROVE Owing(Lines(s), p) = Owing(s, p)
BY NetOfLines DEF Owing

\* Lines of nobody's account.
LEMMA BearsNothing ==
  ASSUME NEW account, NEW party, NEW amount \in Int, NEW p \in Parties,
         party \notin Parties \/ account \notin Side("customer") \cup Side("supplier")
  PROVE  Bears(Line(account, party, amount), p, 0)
<1>1. ~(account \in Side(p) /\ party = p)
  BY DEF Parties
<1> QED BY <1>1, BearsFact

LEMMA SidesFact ==
  /\ Side("customer") = {"AR", "CUSTOMER_ADVANCES"} /\ Side("supplier") = {"AP", "SUPPLIER_ADVANCES"}
  /\ "none" \notin Parties
  /\ \A a \in CashAccounts \cup {"INVENTORY", "EXPENSES"} : a \notin Side("customer") \cup Side("supplier")
BY DEF Side, Parties, CashAccounts

LEMMA EffectFact ==
  ASSUME NEW doc, NEW p \in Parties
  PROVE  /\ doc.party # p \/ (doc.type \in Notes /\ doc.cash # "none") => Effect(doc, p) = 0
         /\ doc.type \in Plain \cup {"cash_sale", "cash_purchase"} => Effect(doc, p) = 0
<1>1. doc.type \in Plain \cup {"cash_sale", "cash_purchase"} =>
        doc.type \notin Raising(p) \cup Lowering(p)
  BY DEF Plain, Purchases, Notes, Raising, Lowering
<1> QED BY <1>1 DEF Effect

\* The lines of a sale are nobody's, but for what it is debited to.
LEMMA SaleOwes ==
  ASSUME NEW doc, doc.total \in Nat, doc.tax \in Nat, NEW p \in Parties,
         NEW debit, NEW n, Bears(debit, p, n)
  PROVE  LineSeq(SaleLines(doc, debit)) /\ Owing(SaleLines(doc, debit), p) = n
<1> DEFINE m == -(doc.total - doc.tax)
           o == -doc.tax
<1>1. m \in Int /\ o \in Int
  OBVIOUS
<1> HIDE DEF m, o
<1>2. Bears(Line("SALES", "none", m), p, 0) /\ Bears(Line("TAX_PAYABLE", "none", o), p, 0)
  BY <1>1, SidesFact, BearsNothing
<1>3. SaleLines(doc, debit) = <<debit, Line("SALES", "none", m), Line("TAX_PAYABLE", "none", o)>>
  BY DEF SaleLines, m, o
<1>4. n \in Int
  BY DEF Bears
<1> QED BY <1>2, <1>3, <1>4, OwingThree

LEMMA InvoiceOwes ==
  ASSUME NEW b, Rows(b), Money(b), NEW doc, Priced(doc), doc.type = "invoice", NEW p \in Parties
  PROVE  LineSeq(InvoiceLines(b, doc)) /\ Owing(InvoiceLines(b, doc), p) = Effect(doc, p)
<1> DEFINE n == Applied(b, doc)
           m == -Applied(b, doc)
           o == doc.total
           s == SaleLines(doc, Line("AR", doc.party, o))
           t == <<Line("CUSTOMER_ADVANCES", doc.party, n), Line("AR", doc.party, m)>>
           mine == p = "customer" /\ doc.party = p
           if(i) == IF mine THEN i ELSE 0
<1>1. doc.total \in Nat /\ doc.tax \in Nat
  BY DEF Priced
<1>2. n \in Int /\ m \in Int /\ o \in Int /\ n + m = 0
  <2>1. Applied(b, doc) \in Int
    BY <1>1, SettledInt
  <2> QED BY <1>1, <2>1
<1>3. InvoiceLines(b, doc) = s \o t
  BY DEF InvoiceLines
<1>4. /\ "AR" \in Side(p) /\ doc.party = p <=> mine
      /\ "CUSTOMER_ADVANCES" \in Side(p) /\ doc.party = p <=> mine
  BY DEF Side, Parties
<1>5. Effect(doc, p) = if(o)
  BY DEF Effect, Raising, Lowering, Notes, Parties
<1> HIDE DEF n, m, o, mine
<1>6. /\ Bears(Line("AR", doc.party, o), p, if(o))
      /\ Bears(Line("CUSTOMER_ADVANCES", doc.party, n), p, if(n)) /\ Bears(Line("AR", doc.party, m), p, if(m))
  BY <1>2, <1>4, BearsFact
<1>7. LineSeq(s) /\ Owing(s, p) = if(o)
  BY <1>1, <1>6, SaleOwes
<1>8. LineSeq(t) /\ Owing(t, p) = if(n) + if(m)
  BY <1>6, OwingTwo
<1> HIDE DEF s, t
<1>9. if(o) + (if(n) + if(m)) = if(o)
  BY <1>2
<1> QED BY <1>3, <1>5, <1>7, <1>8, <1>9, OwingJoined

LEMMA ReceiptOwes ==
  ASSUME NEW doc, Priced(doc), doc.type = "receipt", NEW apply, Paying(apply), NEW p \in Parties
  PROVE  LineSeq(ReceiptLines(doc, apply)) /\ Owing(ReceiptLines(doc, apply), p) = Effect(doc, p)
<1> DEFINE n == doc.total
           m == -AppliedTotal(apply)
           o == AppliedTotal(apply) - doc.total
           mine == p = "customer" /\ doc.party = p
           if(i) == IF mine THEN i ELSE 0
<1>1. doc.total \in Nat /\ doc.cash \in CashAccounts
  BY DEF Priced, Charted
<1>2. n \in Int /\ m \in Int /\ o \in Int /\ m + o = -n
  BY <1>1, AppliedTotalInt
<1>3. ReceiptLines(doc, apply) = <<Line(doc.cash, doc.party, n), Line("AR", doc.party, m),
                                   Line("CUSTOMER_ADVANCES", doc.party, o)>>
  BY DEF ReceiptLines
<1>4. /\ "AR" \in Side(p) /\ doc.party = p <=> mine
      /\ "CUSTOMER_ADVANCES" \in Side(p) /\ doc.party = p <=> mine
  BY DEF Side, Parties
<1>5. Effect(doc, p) = if(-n)
  BY DEF Effect, Raising, Lowering, Notes, Parties
<1> HIDE DEF n, m, o, mine
<1>6. /\ Bears(Line(doc.cash, doc.party, n), p, 0) /\ Bears(Line("AR", doc.party, m), p, if(m))
      /\ Bears(Line("CUSTOMER_ADVANCES", doc.party, o), p, if(o))
  BY <1>1, <1>2, <1>4, BearsFact, BearsNothing, SidesFact
<1>7. 0 + if(m) + if(o) = if(-n)
  BY <1>2
<1> QED BY <1>3, <1>5, <1>6, <1>7, OwingThree

\* A bill on credit that balances was settled from no more than the advances.
LEMMA PurchaseOwes ==
  ASSUME NEW b, Rows(b), Money(b), NEW doc, Priced(doc), doc.type \in Purchases, NEW p \in Parties,
         Net(PurchaseLines(b, doc), Accounts) = 0
  PROVE  LineSeq(PurchaseLines(b, doc)) /\ Owing(PurchaseLines(b, doc), p) = Effect(doc, p)
<1> DEFINE n == doc.total
           k == -doc.total
<1>1. doc.total \in Nat /\ doc.account \in {"INVENTORY", "EXPENSES"} /\ n \in Int /\ k \in Int /\ n + k = 0
  BY DEF Priced, Charted
<1>2. Bears(Line(doc.account, doc.party, n), p, 0)
  BY <1>1, SidesFact, BearsNothing
<1>3. CASE doc.type = "cash_purchase"
  <2>1. doc.cash \in CashAccounts
    BY <1>3 DEF Priced, Charted
  <2>2. Bears(Line(doc.cash, doc.party, k), p, 0)
    BY <1>1, <2>1, SidesFact, BearsNothing
  <2>3. PurchaseLines(b, doc) = <<Line(doc.account, doc.party, n), Line(doc.cash, doc.party, k)>>
    BY <1>3 DEF PurchaseLines
  <2>4. Effect(doc, p) = 0
    BY <1>3, EffectFact
  <2> QED BY <1>2, <2>2, <2>3, <2>4, OwingTwo
<1>4. CASE doc.type = "credit_purchase"
  <2> DEFINE m == -Max({0, AdvanceApplied(b, doc)})
             o == AdvanceApplied(b, doc) - doc.total
             mine == p = "supplier" /\ doc.party = p
             if(i) == IF mine THEN i ELSE 0
  <2>1. m \in Int /\ o \in Int
    <3>1. doc.total \in Nat
      BY <1>1
    <3>2. AdvanceApplied(b, doc) \in Int /\ Max({0, AdvanceApplied(b, doc)}) \in Int
      BY <3>1, SettledInt
    <3> QED BY <3>1, <3>2
  <2>2. PurchaseLines(b, doc) = <<Line(doc.account, doc.party, n),
                                  Line("SUPPLIER_ADVANCES", doc.party, m), Line("AP", doc.party, o)>>
    BY <1>4 DEF PurchaseLines
  <2>3. /\ "AP" \in Side(p) /\ doc.party = p <=> mine
        /\ "SUPPLIER_ADVANCES" \in Side(p) /\ doc.party = p <=> mine
    BY DEF Side, Parties
  <2>4. Effect(doc, p) = if(k)
    BY <1>4 DEF Effect, Raising, Lowering, Notes, Parties
  <2> HIDE DEF m, o, n, k, mine
  <2>5. /\ Bears(Line("SUPPLIER_ADVANCES", doc.party, m), p, if(m)) /\ Bears(Line("AP", doc.party, o), p, if(o))
    BY <2>1, <2>3, BearsFact
  <2>6. m + o = k
    <3>1. doc.account \in Accounts
      BY <1>4, ChartedFact DEF Priced, Purchases
    <3>2. /\ Charges(Line(doc.account, doc.party, n), doc.account, n)
          /\ Charges(Line("SUPPLIER_ADVANCES", doc.party, m), "SUPPLIER_ADVANCES", m)
          /\ Charges(Line("AP", doc.party, o), "AP", o)
      BY <1>1, <2>1, <3>1, ChargesFact DEF Accounts
    <3>3. n + m + o = 0
      BY <2>2, <3>2, ListedThree
    <3> QED BY <1>1, <2>1, <3>3
  <2>7. 0 + if(m) + if(o) = if(k)
    BY <1>1, <2>1, <2>6
  <2> QED BY <1>2, <2>2, <2>4, <2>5, <2>7, OwingThree
<1> QED BY <1>3, <1>4 DEF Purchases

LEMMA PaymentOwes ==
  ASSUME NEW b, Rows(b), Money(b), NEW doc, Priced(doc), doc.type = "supplier_payment", NEW p \in Parties
  PROVE  LineSeq(PaymentLines(b, doc)) /\ Owing(PaymentLines(b, doc), p) = Effect(doc, p)
<1> DEFINE n == ToPayable(b, doc)
           m == doc.total - ToPayable(b, doc)
           o == -doc.total
           k == doc.total
           mine == p = "supplier" /\ doc.party = p
           if(i) == IF mine THEN i ELSE 0
<1>1. doc.total \in Nat /\ doc.cash \in CashAccounts
  BY DEF Priced, Charted
<1>2. n \in Int /\ m \in Int /\ o \in Int /\ k \in Int /\ n + m = k
  <2>1. ToPayable(b, doc) \in Int
    BY <1>1, SettledInt
  <2> QED BY <1>1, <2>1
<1>3. PaymentLines(b, doc) = <<Line("AP", doc.party, n), Line("SUPPLIER_ADVANCES", doc.party, m),
                               Line(doc.cash, "none", o)>>
  BY DEF PaymentLines
<1>4. /\ "AP" \in Side(p) /\ doc.party = p <=> mine
      /\ "SUPPLIER_ADVANCES" \in Side(p) /\ doc.party = p <=> mine
  BY DEF Side, Parties
<1>5. Effect(doc, p) = if(k)
  BY DEF Effect, Raising, Lowering, Notes, Parties
<1> HIDE DEF n, m, o, k, mine
<1>6. /\ Bears(Line("AP", doc.party, n), p, if(n)) /\ Bears(Line("SUPPLIER_ADVANCES", doc.party, m), p, if(m))
      /\ Bears(Line(doc.cash, "none", o), p, 0)
  BY <1>1, <1>2, <1>4, BearsFact, BearsNothing, SidesFact
<1>7. if(n) + if(m) + 0 = if(k)
  BY <1>2
<1> QED BY <1>3, <1>5, <1>6, <1>7, OwingThree

\* A note moves its own party's account, unless it is settled at once.
LEMMA NoteOwes ==
  ASSUME NEW doc, Priced(doc), doc.type \in Notes, NEW p \in Parties
  PROVE  LineSeq(NoteLines(doc)) /\ Owing(NoteLines(doc), p) = Effect(doc, p)
<1> DEFINE settled(account) == IF doc.cash = "none" THEN account ELSE doc.cash
           sales == IF doc.type = "credit_note" THEN "SALES_RETURNS" ELSE "SALES"
           sign == IF doc.type = "credit_note" THEN 1 ELSE -1
           n == sign * doc.total
           m == -sign * doc.total
           ap == settled("AP")
           ar == settled("AR")
           mine(q) == doc.cash = "none" /\ doc.party = q /\ p = q
<1>1. doc.total \in Nat /\ doc.cash \in CashAccounts \cup {"none"}
  BY DEF Priced, Charted
<1>2. n \in Int /\ m \in Int
  BY <1>1
<1>3. NoteLines(doc) = IF doc.party = "supplier"
                       THEN <<Line(ap, doc.party, n), Line(doc.account, "none", m)>>
                       ELSE <<Line(sales, "none", n), Line(ar, doc.party, m)>>
  BY DEF NoteLines
<1>4. /\ doc.party = "supplier" => (ap \in Side(p) /\ doc.party = p <=> mine("supplier"))
      /\ doc.party # "supplier" => (ar \in Side(p) /\ doc.party = p <=> mine("customer"))
  BY <1>1, SidesFact DEF Side, Parties
<1>5. /\ doc.party = "supplier" => Effect(doc, p) = IF mine("supplier") THEN n ELSE 0
      /\ doc.party # "supplier" => Effect(doc, p) = IF mine("customer") THEN m ELSE 0
  <2>1. CASE doc.cash # "none" \/ doc.party # p
    BY <2>1, EffectFact
  <2>2. CASE doc.cash = "none" /\ doc.party = p
    <3>1. doc.type = "credit_note" => n = doc.total /\ m = -doc.total
      BY <1>1
    <3>2. doc.type # "credit_note" => n = -doc.total /\ m = doc.total
      BY <1>1
    <3>3. p = "supplier" \/ p = "customer"
      BY DEF Parties
    <3> HIDE DEF n, m
    <3> QED BY <2>2, <3>1, <3>2, <3>3 DEF Effect, Raising, Lowering, Notes
  <2> QED BY <2>1, <2>2
<1> HIDE DEF n, m, ap, ar, sales, sign, mine
<1>6. CASE doc.party = "supplier"
  <2>1. Bears(Line(ap, doc.party, n), p, IF mine("supplier") THEN n ELSE 0)
    BY <1>2, <1>4, <1>6, BearsFact
  <2>2. Bears(Line(doc.account, "none", m), p, 0)
    BY <1>2, SidesFact, BearsNothing
  <2>3. (IF mine("supplier") THEN n ELSE 0) + 0 = Effect(doc, p)
    BY <1>2, <1>5, <1>6
  <2> QED BY <1>3, <1>6, <2>1, <2>2, <2>3, OwingTwo
<1>7. CASE doc.party # "supplier"
  <2>1. Bears(Line(ar, doc.party, m), p, IF mine("customer") THEN m ELSE 0)
    BY <1>2, <1>4, <1>7, BearsFact
  <2>2. Bears(Line(sales, "none", n), p, 0)
    BY <1>2, SidesFact, BearsNothing
  <2>3. 0 + (IF mine("customer") THEN m ELSE 0) = Effect(doc, p)
    BY <1>2, <1>5, <1>7
  <2> QED BY <1>3, <1>7, <2>1, <2>2, <2>3, OwingTwo
<1> QED BY <1>6, <1>7

LEMMA PlainOwes ==
  ASSUME NEW doc, Priced(doc), NEW p \in Parties
  PROVE  LET s == <<Line(Debited(doc), "none", doc.total), Line(Credited(doc), "none", -doc.total)>>
         IN LineSeq(s) /\ Owing(s, p) = 0
<1> DEFINE n == doc.total
           m == -doc.total
<1>1. n \in Int /\ m \in Int
  BY DEF Priced
<1> HIDE DEF n, m
<1>2. Bears(Line(Debited(doc), "none", n), p, 0) /\ Bears(Line(Credited(doc), "none", m), p, 0)
  BY <1>1, SidesFact, BearsNothing
<1>3. LET s == <<Line(Debited(doc), "none", n), Line(Credited(doc), "none", m)>>
      IN LineSeq(s) /\ Owing(s, p) = 0 + 0
  BY <1>2, OwingTwo
<1> QED BY <1>3 DEF n, m

\* The lines of a document put on each party's account what the document is to put there.
LEMMA DocumentOwes ==
  ASSUME NEW b, Rows(b), Money(b), NEW doc, Priced(doc), doc.type \in SourceTypes,
         NEW apply, Paying(apply), Fair(LinesOf(b, doc, apply)), NEW p \in Parties
  PROVE  Owing(LinesOf(b, doc, apply), p) = Effect(doc, p)
<1> DEFINE s == CASE doc.type = "cash_sale" -> SaleLines(doc, Line(doc.cash, "none", doc.total))
          [] doc.type = "invoice" -> InvoiceLines(b, doc)
          [] doc.type = "receipt" -> ReceiptLines(doc, apply)
          [] doc.type \in Purchases -> PurchaseLines(b, doc)
          [] doc.type = "supplier_payment" -> PaymentLines(b, doc)
          [] doc.type \in Notes -> NoteLines(doc)
          [] OTHER -> <<Line(Debited(doc), "none", doc.total), Line(Credited(doc), "none", -doc.total)>>
<1>1. LinesOf(b, doc, apply) = Lines(s)
  BY DEF LinesOf
<1>2. CASE doc.type = "cash_sale"
  <2>1. s = SaleLines(doc, Line(doc.cash, "none", doc.total))
    BY <1>2 DEF Purchases, Notes
  <2>2. doc.total \in Nat /\ doc.tax \in Nat /\ doc.total \in Int
    BY DEF Priced
  <2>3. Bears(Line(doc.cash, "none", doc.total), p, 0)
    BY <2>2, SidesFact, BearsNothing
  <2>4. LineSeq(s) /\ Owing(s, p) = 0
    BY <2>1, <2>2, <2>3, SaleOwes
  <2> HIDE DEF s
  <2> QED BY <1>1, <1>2, <2>4, EffectFact, OwingLines
<1>3. CASE doc.type = "invoice"
  <2>1. s = InvoiceLines(b, doc)
    BY <1>3 DEF Purchases, Notes
  <2> HIDE DEF s
  <2> QED BY <1>1, <1>3, <2>1, InvoiceOwes, OwingLines
<1>4. CASE doc.type = "receipt"
  <2>1. s = ReceiptLines(doc, apply)
    BY <1>4 DEF Purchases, Notes
  <2> HIDE DEF s
  <2> QED BY <1>1, <1>4, <2>1, ReceiptOwes, OwingLines
<1>5. CASE doc.type \in Purchases
  <2>1. s = PurchaseLines(b, doc)
    BY <1>5 DEF Purchases, Notes
  <2> HIDE DEF s
  <2>2. Net(PurchaseLines(b, doc), Accounts) = 0
    <3>1. LineSeq(s)
      BY <1>5, <2>1, PurchaseListed DEF Listed
    <3>2. Net(Lines(s), Accounts) = Net(s, Accounts)
      BY <3>1, NetLines
    <3>3. Net(Lines(s), Accounts) = 0
      BY <1>1, NetBalanced DEF Fair, Listed
    <3> QED BY <2>1, <3>2, <3>3
  <2> QED BY <1>1, <1>5, <2>1, <2>2, PurchaseOwes, OwingLines
<1>6. CASE doc.type = "supplier_payment"
  <2>1. s = PaymentLines(b, doc)
    BY <1>6 DEF Purchases, Notes
  <2> HIDE DEF s
  <2> QED BY <1>1, <1>6, <2>1, PaymentOwes, OwingLines
<1>7. CASE doc.type \in Notes
  <2>1. s = NoteLines(doc)
    BY <1>7 DEF Purchases, Notes
  <2> HIDE DEF s
  <2> QED BY <1>1, <1>7, <2>1, NoteOwes, OwingLines
<1>8. CASE doc.type \in Plain
  <2>1. s = <<Line(Debited(doc), "none", doc.total), Line(Credited(doc), "none", -doc.total)>>
    BY <1>8 DEF Plain
  <2>2. LineSeq(s) /\ Owing(s, p) = 0
    BY <2>1, PlainOwes
  <2> HIDE DEF s
  <2> QED BY <1>1, <1>8, <2>2, EffectFact, OwingLines
<1> QED BY <1>2, <1>3, <1>4, <1>5, <1>6, <1>7, <1>8 DEF Plain

-----------------------------------------------------------------------------
(* What a document puts on the members' accounts *)

Titles == {"CAPITAL", "DRAWINGS"}

LEMMA NetElsewhere ==
  ASSUME NEW s, LineSeq(s), NEW A, \A k \in DOMAIN s : s[k].account \notin A
  PROVE  Net(s, A) = 0
<1> DEFINE f == Worth(s, A)
           S == 1 .. Len(s)
<1>1. /\ Len(s) \in Nat /\ Integers(f, Len(s)) /\ \A k \in S : f[k] = 0
  <2>1. Len(s) \in Nat /\ Integers(f, Len(s)) /\ DOMAIN s = S
    BY WorthFact
  <2>2. \A k \in S : f[k] = 0
    BY <2>1 DEF Worth, WorthOf, Concerns
  <2> QED BY <2>1, <2>2
<1>2. IsFiniteSet(S) /\ f \in [S -> Int]
  BY <1>1, IntervalFinite DEF Integers
<1> HIDE DEF f, S
<1>3. SumFunction(f) = 0
  BY <1>1, <1>2, SumZero
<1> QED BY <1>3 DEF Net, NetOf, Worth, f

\* Deposits and the opening balance are credited to the capital, what is drawn is
\* debited to the drawings; no other document is about the members' accounts.
Title(doc, a) ==
  IF a = "DRAWINGS" /\ doc.type = "drawing" THEN doc.total
  ELSE IF a = "CAPITAL" /\ doc.type \in {"capital_injection", "opening_balance"} THEN -doc.total
  ELSE 0

\* Lines of other accounts.
Avoids(s) == \A k \in DOMAIN s : s[k].account \notin Titles

LEMMA AvoidsNet == ASSUME NEW s, LineSeq(s), Avoids(s), NEW a \in Titles PROVE Net(s, {a}) = 0
<1>1. \A k \in DOMAIN s : s[k].account \notin {a}
  BY DEF Avoids
<1> QED BY <1>1, NetElsewhere

LEMMA AvoidsFact ==
  /\ \A a, p, n, c, q, m : {a, c} \cap Titles = {} => Avoids(<<Line(a, p, n), Line(c, q, m)>>)
  /\ \A a, p, n, c, q, m, e, r, o :
       {a, c, e} \cap Titles = {} => Avoids(<<Line(a, p, n), Line(c, q, m), Line(e, r, o)>>)
  /\ \A s, t : LineSeq(s) /\ LineSeq(t) /\ Avoids(s) /\ Avoids(t) => Avoids(s \o t)
<1>1. ASSUME NEW a, NEW p, NEW n, NEW c, NEW q, NEW m, {a, c} \cap Titles = {}
      PROVE  Avoids(<<Line(a, p, n), Line(c, q, m)>>)
  <2> DEFINE l == Line(a, p, n)
             k == Line(c, q, m)
  <2>1. l.account \notin Titles /\ k.account \notin Titles
    BY <1>1 DEF Line
  <2> HIDE DEF l, k
  <2>2. DOMAIN <<l, k>> = {1, 2} /\ <<l, k>>[1] = l /\ <<l, k>>[2] = k
    OBVIOUS
  <2>3. Avoids(<<l, k>>)
    BY <2>1, <2>2 DEF Avoids
  <2> QED BY <2>3 DEF l, k
<1>2. ASSUME NEW a, NEW p, NEW n, NEW c, NEW q, NEW m, NEW e, NEW r, NEW o, {a, c, e} \cap Titles = {}
      PROVE  Avoids(<<Line(a, p, n), Line(c, q, m), Line(e, r, o)>>)
  <2> DEFINE l == Line(a, p, n)
             k == Line(c, q, m)
             h == Line(e, r, o)
  <2>1. l.account \notin Titles /\ k.account \notin Titles /\ h.account \notin Titles
    BY <1>2 DEF Line
  <2> HIDE DEF l, k, h
  <2>2. /\ DOMAIN <<l, k, h>> = {1, 2, 3} /\ <<l, k, h>>[1] = l /\ <<l, k, h>>[2] = k
        /\ <<l, k, h>>[3] = h
    OBVIOUS
  <2>3. Avoids(<<l, k, h>>)
    BY <2>1, <2>2 DEF Avoids
  <2> QED BY <2>3 DEF l, k, h
<1>3. ASSUME NEW s, NEW t, LineSeq(s), LineSeq(t), Avoids(s), Avoids(t) PROVE Avoids(s \o t)
  <2>1. /\ DOMAIN (s \o t) = 1 .. Len(s) + Len(t)
        /\ \A i \in 1 .. Len(s) : (s \o t)[i] = s[i]
        /\ \A i \in 1 .. Len(t) : (s \o t)[Len(s) + i] = t[i]
        /\ Len(s) \in Nat /\ DOMAIN s = 1 .. Len(s) /\ Len(t) \in Nat /\ DOMAIN t = 1 .. Len(t)
    BY <1>3, ConcatFact, SeqFact DEF LineSeq
  <2>2. ASSUME NEW k \in 1 .. Len(s) + Len(t) PROVE (s \o t)[k].account \notin Titles
    <3>1. CASE k \in 1 .. Len(s)
      BY <1>3, <2>1, <3>1 DEF Avoids
    <3>2. CASE k \notin 1 .. Len(s)
      <4>1. k - Len(s) \in 1 .. Len(t) /\ Len(s) + (k - Len(s)) = k
        BY <2>1, <3>2
      <4> QED BY <1>3, <2>1, <4>1 DEF Avoids
    <3> QED BY <3>1, <3>2
  <2> QED BY <2>1, <2>2 DEF Avoids
<1> QED BY <1>1, <1>2, <1>3

\* The accounts documents other than the members' are charged to.
LEMMA UntitledFact ==
  /\ "SALES" \notin Titles /\ "SALES_RETURNS" \notin Titles /\ "TAX_PAYABLE" \notin Titles
  /\ "AR" \notin Titles /\ "CUSTOMER_ADVANCES" \notin Titles
  /\ "AP" \notin Titles /\ "SUPPLIER_ADVANCES" \notin Titles
  /\ "INVENTORY" \notin Titles /\ "EXPENSES" \notin Titles /\ "COGS" \notin Titles
  /\ "RETAINED_EARNINGS" \notin Titles /\ CashAccounts \cap Titles = {}
BY DEF Titles, CashAccounts

LEMMA SaleAvoids ==
  ASSUME NEW doc, NEW a, a \notin Titles, NEW p, NEW n
  PROVE  Avoids(SaleLines(doc, Line(a, p, n)))
<1>1. {a, "SALES", "TAX_PAYABLE"} \cap Titles = {}
  BY UntitledFact
<1> QED BY <1>1, AvoidsFact DEF SaleLines

LEMMA InvoiceAvoids ==
  ASSUME NEW b, Rows(b), Money(b), NEW doc, doc.total \in Nat, doc.tax \in Nat
  PROVE  Avoids(InvoiceLines(b, doc))
<1> DEFINE n == Applied(b, doc)
           m == -Applied(b, doc)
           s == SaleLines(doc, Line("AR", doc.party, doc.total))
           t == <<Line("CUSTOMER_ADVANCES", doc.party, n), Line("AR", doc.party, m)>>
<1>1. n \in Int /\ m \in Int
  <2>1. Applied(b, doc) \in Int
    BY SettledInt
  <2> QED BY <2>1
<1>2. InvoiceLines(b, doc) = s \o t
  BY DEF InvoiceLines
<1>3. Charges(Line("AR", doc.party, doc.total), "AR", doc.total)
  <2>1. "AR" \in Accounts /\ doc.total \in Int
    BY DEF Accounts
  <2> QED BY <2>1, ChargesFact
<1>4. LineSeq(s) /\ Avoids(s)
  BY <1>3, SaleListed, SaleAvoids, UntitledFact DEF Listed
<1> HIDE DEF n, m, s
<1>5. Charges(Line("CUSTOMER_ADVANCES", doc.party, n), "CUSTOMER_ADVANCES", n)
      /\ Charges(Line("AR", doc.party, m), "AR", m)
  BY <1>1, ChargesFact DEF Accounts
<1>6. LineSeq(t)
  BY <1>5, ListedTwo DEF Listed
<1>7. Avoids(t)
  <2>1. {"CUSTOMER_ADVANCES", "AR"} \cap Titles = {}
    BY UntitledFact
  <2> QED BY <2>1, AvoidsFact
<1> HIDE DEF t
<1> QED BY <1>2, <1>4, <1>6, <1>7, AvoidsFact

LEMMA PurchaseAvoids ==
  ASSUME NEW b, NEW doc, Priced(doc), doc.type \in Purchases
  PROVE  Avoids(PurchaseLines(b, doc))
<1>1. doc.account \notin Titles /\ (doc.type = "cash_purchase" => doc.cash \notin Titles)
  BY UntitledFact DEF Priced, Charted
<1>2. CASE doc.type = "cash_purchase"
  <2>1. {doc.account, doc.cash} \cap Titles = {}
    BY <1>1, <1>2
  <2>2. PurchaseLines(b, doc) = <<Line(doc.account, doc.party, doc.total),
                                  Line(doc.cash, doc.party, -doc.total)>>
    BY <1>2 DEF PurchaseLines
  <2> QED BY <2>1, <2>2, AvoidsFact
<1>3. CASE doc.type # "cash_purchase"
  <2>1. {doc.account, "SUPPLIER_ADVANCES", "AP"} \cap Titles = {}
    BY <1>1, UntitledFact
  <2>2. PurchaseLines(b, doc) = <<Line(doc.account, doc.party, doc.total),
         Line("SUPPLIER_ADVANCES", doc.party, -Max({0, AdvanceApplied(b, doc)})),
         Line("AP", doc.party, AdvanceApplied(b, doc) - doc.total)>>
    BY <1>3 DEF PurchaseLines
  <2> QED BY <2>1, <2>2, AvoidsFact
<1> QED BY <1>2, <1>3

LEMMA NoteAvoids ==
  ASSUME NEW doc, Priced(doc), doc.type \in Notes
  PROVE  Avoids(NoteLines(doc))
<1> DEFINE settled(account) == IF doc.cash = "none" THEN account ELSE doc.cash
           sales == IF doc.type = "credit_note" THEN "SALES_RETURNS" ELSE "SALES"
           sign == IF doc.type = "credit_note" THEN 1 ELSE -1
           n == sign * doc.total
           m == -sign * doc.total
           ap == settled("AP")
           ar == settled("AR")
<1>1. NoteLines(doc) = IF doc.party = "supplier"
                       THEN <<Line(ap, doc.party, n), Line(doc.account, "none", m)>>
                       ELSE <<Line(sales, "none", n), Line(ar, doc.party, m)>>
  BY DEF NoteLines
<1>2. {ap, doc.account} \cap Titles = {} /\ {sales, ar} \cap Titles = {}
  <2>1. doc.cash \in CashAccounts \cup {"none"} /\ doc.account \in {"INVENTORY", "EXPENSES"}
    BY DEF Priced, Charted
  <2> QED BY <2>1, UntitledFact
<1> HIDE DEF n, m, ap, ar, sales, sign
<1> QED BY <1>1, <1>2, AvoidsFact

\* The two lines of the other documents.
LEMMA PlainTitles ==
  ASSUME NEW doc, Priced(doc), doc.type \in Plain, NEW a \in Titles
  PROVE  LET s == <<Line(Debited(doc), "none", doc.total), Line(Credited(doc), "none", -doc.total)>>
         IN LineSeq(s) /\ Net(s, {a}) = Title(doc, a)
<1> DEFINE n == doc.total
           m == -doc.total
           d == Debited(doc)
           c == Credited(doc)
           l == Line(d, "none", n)
           k == Line(c, "none", m)
<1>1. n \in Int /\ m \in Int
  BY DEF Priced
<1>2. doc.type \in {"expense", "commission_payment", "opening_balance", "stock_adjust",
                    "capital_injection", "drawing", "manual_cash_income", "manual_cash_expense",
                    "manual_asset", "manual_liability"}
  BY DEF Plain, SourceTypes, Purchases, Notes, MemberMoves, ManualCash, ManualBalances
<1>3. Title(doc, a) = (IF d = a THEN n ELSE 0) + (IF c = a THEN m ELSE 0)
  <2>1. a \in {"CAPITAL", "DRAWINGS"}
    BY DEF Titles
  <2>2. CASE doc.type \in {"expense", "commission_payment"}
    <3>1. doc.cash \in {"CASH", "BANK"}
      BY <2>2 DEF Priced, Charted, CashAccounts
    <3>2. d # a
      BY <2>1, <2>2 DEF Priced, Charted, Debited, ExpenseAccounts
    <3>3. c # a
      BY <2>1, <2>2, <3>1 DEF Credited
    <3>4. Title(doc, a) = 0
      BY <2>2 DEF Title
    <3> QED BY <3>2, <3>3, <3>4
  <2>3. CASE doc.type \in {"manual_asset", "manual_liability"}
    <3>1. doc.type = "manual_asset" => doc.cash \in {"CASH", "BANK", "OWNER_CONTRIBUTIONS", "OTHER_LIABILITIES"}
      BY DEF Priced, Charted, CashAccounts
    <3>2. doc.type = "manual_liability" =>
            doc.account \in {"CASH", "BANK", "OTHER_ASSETS", "EXPENSES", "INVENTORY"}
      BY DEF Priced, Charted, CashAccounts
    <3>3. d # a
      BY <2>1, <2>3, <3>2 DEF Debited
    <3>4. c # a
      BY <2>1, <2>3, <3>1 DEF Credited
    <3>5. Title(doc, a) = 0
      BY <2>3 DEF Title
    <3> QED BY <3>3, <3>4, <3>5
  <2>4. CASE doc.type \in {"stock_adjust", "manual_cash_income", "manual_cash_expense"}
    <3>1. d # a
      BY <2>1, <2>4 DEF Debited
    <3>2. c # a
      BY <2>1, <2>4 DEF Credited
    <3>3. Title(doc, a) = 0
      BY <2>4 DEF Title
    <3> QED BY <3>1, <3>2, <3>3
  <2>5. CASE doc.type = "opening_balance"
    <3>1. doc.account \in {"CASH", "INVENTORY", "OTHER_ASSETS"}
      BY <2>5 DEF Priced, Charted
    <3>2. d # a /\ c = "CAPITAL"
      BY <2>1, <2>5, <3>1 DEF Debited, Credited
    <3>3. Title(doc, a) = IF a = "CAPITAL" THEN m ELSE 0
      BY <2>5 DEF Title
    <3> QED BY <1>1, <3>2, <3>3
  <2>6. CASE doc.type = "capital_injection"
    <3>1. d = "CASH" /\ c = "CAPITAL"
      BY <2>6 DEF Debited, Credited
    <3>2. Title(doc, a) = IF a = "CAPITAL" THEN m ELSE 0
      BY <2>6 DEF Title
    <3> QED BY <1>1, <2>1, <3>1, <3>2
  <2>7. CASE doc.type = "drawing"
    <3>1. doc.cash \in {"CASH", "BANK"}
      BY <2>7 DEF Priced, Charted, CashAccounts
    <3>2. d = "DRAWINGS" /\ c # a
      BY <2>1, <2>7, <3>1 DEF Debited, Credited
    <3>3. Title(doc, a) = IF a = "DRAWINGS" THEN n ELSE 0
      BY <2>7 DEF Title
    <3> QED BY <1>1, <3>2, <3>3
  <2> QED BY <1>2, <2>2, <2>3, <2>4, <2>5, <2>6, <2>7
<1>4. IsLine(l) /\ IsLine(k) /\ l.account = d /\ l.amount = n /\ k.account = c /\ k.amount = m
  BY <1>1, LineFact
<1>5. <<l, k>> = <<l>> \o <<k>>
  OBVIOUS
<1> HIDE DEF l, k, n, m, d, c
<1>6. /\ LineSeq(<<l>>) /\ Net(<<l>>, {a}) = IF d = a THEN n ELSE 0
      /\ LineSeq(<<k>>) /\ Net(<<k>>, {a}) = IF c = a THEN m ELSE 0
  BY <1>4, NetOne
<1>7. LineSeq(<<l, k>>) /\ Net(<<l, k>>, {a}) = Net(<<l>>, {a}) + Net(<<k>>, {a})
  <2> DEFINE s == <<l>>
             t == <<k>>
  <2>1. <<l, k>> = s \o t /\ LineSeq(s) /\ LineSeq(t)
    BY <1>5, <1>6
  <2> HIDE DEF s, t
  <2>2. LineSeq(s \o t) /\ Net(s \o t, {a}) = Net(s, {a}) + Net(t, {a})
    BY <2>1, NetJoined
  <2>3. LineSeq(<<l, k>>) /\ Net(<<l, k>>, {a}) = Net(s, {a}) + Net(t, {a})
    BY <2>1, <2>2
  <2> QED BY <2>3 DEF s, t
<1>8. LineSeq(<<l, k>>) /\ Net(<<l, k>>, {a}) = Title(doc, a)
  BY <1>3, <1>6, <1>7
<1> QED BY <1>8 DEF l, k, n, m, d, c

\* The lines of a document put on the members' accounts what the document is to put there.
LEMMA DocumentTitles ==
  ASSUME NEW b, Rows(b), Money(b), NEW doc, Priced(doc), doc.type \in SourceTypes,
         NEW apply, Paying(apply), NEW a \in Titles
  PROVE  Net(LinesOf(b, doc, apply), {a}) = Title(doc, a)
<1> DEFINE s == CASE doc.type = "cash_sale" -> SaleLines(doc, Line(doc.cash, "none", doc.total))
          [] doc.type = "invoice" -> InvoiceLines(b, doc)
          [] doc.type = "receipt" -> ReceiptLines(doc, apply)
          [] doc.type \in Purchases -> PurchaseLines(b, doc)
          [] doc.type = "supplier_payment" -> PaymentLines(b, doc)
          [] doc.type \in Notes -> NoteLines(doc)
          [] OTHER -> <<Line(Debited(doc), "none", doc.total), Line(Credited(doc), "none", -doc.total)>>
<1>1. LinesOf(b, doc, apply) = Lines(s)
  BY DEF LinesOf
<1>2. doc.total \in Nat /\ doc.tax \in Nat
  BY DEF Priced
<1>3. ASSUME doc.type \in {"cash_sale", "receipt", "supplier_payment"}
      PROVE  doc.cash \in Accounts /\ doc.cash \notin Titles
  BY <1>3, ChartedFact, UntitledFact DEF Priced, Charted
<1>4. ASSUME doc.type \notin Plain PROVE Title(doc, a) = 0
  BY <1>4 DEF Title, Plain, SourceTypes, Purchases, Notes, MemberMoves
<1>5. ASSUME NEW t, LineSeq(t), Avoids(t), Title(doc, a) = 0, s = t
      PROVE  Net(Lines(s), {a}) = Title(doc, a)
  BY <1>5, NetLines, AvoidsNet
<1>6. CASE doc.type = "cash_sale"
  <2>1. s = SaleLines(doc, Line(doc.cash, "none", doc.total))
    BY <1>6 DEF Purchases, Notes
  <2>2. Charges(Line(doc.cash, "none", doc.total), doc.cash, doc.total)
    BY <1>2, <1>3, <1>6, ChargesFact
  <2>3. LineSeq(SaleLines(doc, Line(doc.cash, "none", doc.total)))
    BY <1>2, <2>2, SaleListed DEF Listed
  <2>4. Avoids(SaleLines(doc, Line(doc.cash, "none", doc.total)))
    BY <1>3, <1>6, SaleAvoids
  <2>5. doc.type \notin Plain
    BY <1>6 DEF Plain
  <2> HIDE DEF s
  <2> QED BY <1>1, <1>4, <1>5, <2>1, <2>3, <2>4, <2>5
<1>7. CASE doc.type = "invoice"
  <2>1. s = InvoiceLines(b, doc) /\ doc.type \notin Plain
    BY <1>7 DEF Purchases, Notes, Plain
  <2> HIDE DEF s
  <2>2. LineSeq(InvoiceLines(b, doc)) /\ Avoids(InvoiceLines(b, doc))
    BY <1>2, InvoiceListed, InvoiceAvoids DEF Listed
  <2> QED BY <1>1, <1>4, <1>5, <2>1, <2>2
<1>8. CASE doc.type = "receipt"
  <2>1. s = ReceiptLines(doc, apply) /\ doc.type \notin Plain
    BY <1>8 DEF Purchases, Notes, Plain
  <2> HIDE DEF s
  <2>2. LineSeq(ReceiptLines(doc, apply))
    BY <1>2, <1>3, <1>8, ReceiptListed DEF Listed
  <2>3. Avoids(ReceiptLines(doc, apply))
    <3>1. {doc.cash, "AR", "CUSTOMER_ADVANCES"} \cap Titles = {}
      BY <1>3, <1>8, UntitledFact
    <3> QED BY <3>1, AvoidsFact DEF ReceiptLines
  <2> QED BY <1>1, <1>4, <1>5, <2>1, <2>2, <2>3
<1>9. CASE doc.type \in Purchases
  <2>1. s = PurchaseLines(b, doc) /\ doc.type \notin Plain
    BY <1>9 DEF Purchases, Notes, Plain
  <2> HIDE DEF s
  <2>2. LineSeq(PurchaseLines(b, doc)) /\ Avoids(PurchaseLines(b, doc))
    BY <1>9, PurchaseListed, PurchaseAvoids DEF Listed
  <2> QED BY <1>1, <1>4, <1>5, <2>1, <2>2
<1>10. CASE doc.type = "supplier_payment"
  <2>1. s = PaymentLines(b, doc) /\ doc.type \notin Plain
    BY <1>10 DEF Purchases, Notes, Plain
  <2> HIDE DEF s
  <2>2. LineSeq(PaymentLines(b, doc))
    BY <1>2, <1>3, <1>10, PaymentListed DEF Listed
  <2>3. Avoids(PaymentLines(b, doc))
    <3>1. {"AP", "SUPPLIER_ADVANCES", doc.cash} \cap Titles = {}
      BY <1>3, <1>10, UntitledFact
    <3> QED BY <3>1, AvoidsFact DEF PaymentLines
  <2> QED BY <1>1, <1>4, <1>5, <2>1, <2>2, <2>3
<1>11. CASE doc.type \in Notes
  <2>1. s = NoteLines(doc) /\ doc.type \notin Plain
    BY <1>11 DEF Purchases, Notes, Plain
  <2> HIDE DEF s
  <2>2. LineSeq(NoteLines(doc)) /\ Avoids(NoteLines(doc))
    BY <1>11, NoteListed, NoteAvoids DEF Listed
  <2> QED BY <1>1, <1>4, <1>5, <2>1, <2>2
<1>12. CASE doc.type \in Plain
  <2>1. s = <<Line(Debited(doc), "none", doc.total), Line(Credited(doc), "none", -doc.total)>>
    BY <1>12 DEF Plain
  <2>2. LineSeq(s) /\ Net(s, {a}) = Title(doc, a)
    BY <1>12, <2>1, PlainTitles
  <2> HIDE DEF s
  <2> QED BY <1>1, <2>2, NetLines
<1> QED BY <1>6, <1>7, <1>8, <1>9, <1>10, <1>11, <1>12 DEF Plain

\* The cost of a sale is not the members'.
LEMMA CogsAvoids == ASSUME NEW units \in Int, NEW a \in Titles PROVE Net(CogsLines(units), {a}) = 0
<1> DEFINE n == units * UnitCost
           m == -units * UnitCost
           l == Line("COGS", "none", n)
           k == Line("INVENTORY", "none", m)
           s == <<l, k>>
<1>1. CogsLines(units) = Lines(s)
  BY DEF CogsLines
<1>2. n \in Int /\ m \in Int
  BY UnitCostAssumption
<1>3. Avoids(s)
  <2>1. {"COGS", "INVENTORY"} \cap Titles = {}
    BY UntitledFact
  <2> HIDE DEF n, m
  <2> QED BY <2>1, AvoidsFact
<1>4. LineSeq(s)
  <2> HIDE DEF n, m
  <2>1. Charges(Line("COGS", "none", n), "COGS", n) /\ Charges(Line("INVENTORY", "none", m), "INVENTORY", m)
    BY <1>2, ChargesFact DEF Accounts, ExpenseAccounts
  <2> QED BY <2>1, ListedTwo DEF Listed
<1> HIDE DEF s
<1> QED BY <1>1, <1>3, <1>4, NetLines, AvoidsNet

-----------------------------------------------------------------------------
(* Changes that keep the amounts of a book *)

\* Allocations are paid as receipts are: amounts of finitely many rows.
LEMMA MoneyFact ==
  ASSUME NEW b, Money(b)
  PROVE  /\ \A s \in DOMAIN b.sources : Priced(b.sources[s]) /\ Noted(b, b.sources[s])
         /\ \A j \in DOMAIN b.journals : Fair(b.journals[j].lines)
         /\ Paying(b.allocs) /\ (\A n \in b.counts : MoneyCount(n)) /\ b.members \in Seq(DOMAIN Share)
BY DEF Money, Paying

LEMMA MoneyIs ==
  ASSUME NEW b,
         \A s \in DOMAIN b.sources : Priced(b.sources[s]) /\ Noted(b, b.sources[s]),
         \A j \in DOMAIN b.journals : Fair(b.journals[j].lines),
         Paying(b.allocs), \A n \in b.counts : MoneyCount(n), b.members \in Seq(DOMAIN Share)
  PROVE  Money(b)
BY DEF Money, Paying

LEMMA MoneyBeside ==
  ASSUME NEW b, Money(b), NEW c, c.sources = b.sources, c.journals = b.journals,
         c.members = b.members, Paying(c.allocs), \A n \in c.counts : MoneyCount(n)
  PROVE  Money(c)
BY DEF Money, Paying, Noted

LEMMA PayingLess == ASSUME NEW S, Paying(S), NEW R \in SUBSET S PROVE Paying(R)
BY FS_Subset DEF Paying

LEMMA MoneyInContext ==
  ASSUME NEW b, Sound(b), Money(b), NEW d \in Dates, HasContext(b, d)
  PROVE  /\ Money(InContext(b, d)) /\ Sound(InContext(b, d)) /\ InContext(b, d).sources = b.sources
         /\ InContext(b, d).journals = b.journals /\ InContext(b, d).allocs = b.allocs
         /\ InContext(b, d).members = b.members /\ InContext(b, d).capital = b.capital
         /\ OpenPeriods(InContext(b, d)) = OpenPeriods(b) /\ ContextPeriod(b, d) \in OpenPeriods(b)
         /\ Within(InContext(b, d).periods[ContextPeriod(b, d)], d)
<1> DEFINE c == InContext(b, d)
<1>1. /\ \E ps : c = [b EXCEPT !.periods = ps]
      /\ Sound(c) /\ OpenPeriods(c) = OpenPeriods(b) /\ ContextPeriod(b, d) \in OpenPeriods(b)
      /\ Within(c.periods[ContextPeriod(b, d)], d)
  BY InContextFact
<1>2. BookRecord(b)
  BY DEF Sound, Rows
<1> HIDE DEF c
<1>3. /\ c.sources = b.sources /\ c.journals = b.journals /\ c.members = b.members
      /\ c.allocs = b.allocs /\ c.counts = b.counts /\ c.capital = b.capital
  BY <1>1, <1>2 DEF BookRecord
<1>4. Money(c)
  BY <1>3, MoneyFact, MoneyBeside
<1> QED BY <1>1, <1>3, <1>4 DEF c

LEMMA MoneySource ==
  ASSUME NEW b, Sound(b), Money(b), NEW doc, SourceRow(b, doc), Priced(doc), Noted(b, doc),
         NEW c, c = WithSource(b, doc)
  PROVE  Money(c)
<1> DEFINE n == Len(b.sources)
<1>1. BookRecord(b) /\ IsSeq(b.sources) /\ \A s \in DOMAIN b.sources : SourceRow(b, b.sources[s])
  BY DEF Sound, Rows
<1>2. /\ c.sources = Append(b.sources, doc) /\ c.journals = b.journals /\ c.members = b.members
      /\ c.allocs = b.allocs /\ c.counts = b.counts
  BY <1>1 DEF BookRecord, WithSource
<1>3. /\ DOMAIN c.sources = 1 .. n + 1 /\ DOMAIN b.sources = 1 .. n /\ n \in Nat
      /\ c.sources[n + 1] = doc /\ \A s \in 1 .. n : c.sources[s] = b.sources[s]
  BY <1>1, <1>2, AppendFact, SeqFact
<1>4. ASSUME NEW e, SourceRow(b, e), Noted(b, e) PROVE Noted(c, e)
  <2>1. e.link # 0 => e.link \in 1 .. n
    BY <1>3, <1>4 DEF SourceRow
  <2> QED BY <1>2, <1>3, <1>4, <2>1 DEF Noted
<1>5. ASSUME NEW s \in DOMAIN c.sources PROVE Priced(c.sources[s]) /\ Noted(c, c.sources[s])
  <2>1. CASE s = n + 1
    BY <1>3, <1>4, <2>1
  <2>2. CASE s \in 1 .. n
    BY <1>1, <1>3, <1>4, <2>2, MoneyFact
  <2>3. s = n + 1 \/ s \in 1 .. n
    BY <1>3
  <2> QED BY <2>1, <2>2, <2>3
<1> QED BY <1>2, <1>5, MoneyFact, MoneyIs

\* Journals of fair lines.
AllFair(js) == IsSeq(js) /\ \A i \in DOMAIN js : Fair(js[i].lines)

LEMMA AllFairFact ==
  /\ AllFair(<<>>)
  /\ \A p, s, date, lines : Fair(lines) => AllFair(<<Journal(p, s, date, lines)>>)
  /\ \A js, ks : AllFair(js) /\ AllFair(ks) => AllFair(js \o ks)
<1>1. AllFair(<<>>)
  <2>1. IsSeq(<<>>)
    BY OneFact
  <2>2. DOMAIN <<>> = {}
    OBVIOUS
  <2> QED BY <2>1, <2>2 DEF AllFair
<1>2. ASSUME NEW p, NEW s, NEW date, NEW lines, Fair(lines)
      PROVE  AllFair(<<Journal(p, s, date, lines)>>)
  <2> DEFINE j == Journal(p, s, date, lines)
  <2>1. j.lines = lines
    BY DEF Journal
  <2> HIDE DEF j
  <2>2. IsSeq(<<j>>) /\ DOMAIN <<j>> = {1} /\ <<j>>[1] = j
    BY OneFact
  <2> QED BY <1>2, <2>1, <2>2 DEF AllFair, j
<1>3. ASSUME NEW js, NEW ks, AllFair(js), AllFair(ks) PROVE AllFair(js \o ks)
  <2>1. /\ IsSeq(js \o ks) /\ DOMAIN (js \o ks) = 1 .. Len(js) + Len(ks)
        /\ \A i \in 1 .. Len(js) : (js \o ks)[i] = js[i]
        /\ \A i \in 1 .. Len(ks) : (js \o ks)[Len(js) + i] = ks[i]
    BY <1>3, ConcatFact DEF AllFair
  <2>2. /\ Len(js) \in Nat /\ DOMAIN js = 1 .. Len(js) /\ Len(ks) \in Nat /\ DOMAIN ks = 1 .. Len(ks)
    BY <1>3, SeqFact DEF AllFair
  <2>3. ASSUME NEW i \in 1 .. Len(js) + Len(ks) PROVE Fair((js \o ks)[i].lines)
    <3>1. CASE i \in 1 .. Len(js)
      BY <1>3, <2>1, <2>2, <3>1 DEF AllFair
    <3>2. CASE i \notin 1 .. Len(js)
      <4>1. i - Len(js) \in 1 .. Len(ks) /\ i = Len(js) + (i - Len(js))
        BY <2>2, <3>2
      <4>2. (js \o ks)[i] = ks[i - Len(js)]
        BY <2>1, <4>1
      <4> QED BY <1>3, <2>2, <4>1, <4>2 DEF AllFair
    <3> QED BY <3>1, <3>2
  <2> QED BY <2>1, <2>3 DEF AllFair
<1> QED BY <1>1, <1>2, <1>3

LEMMA MoneyWrite ==
  ASSUME NEW b, BookRecord(b), IsSeq(b.journals), Money(b), NEW js, AllFair(js),
         NEW c, c = Write(b, js)
  PROVE  /\ Money(c) /\ BookRecord(c) /\ IsSeq(c.journals) /\ c.sources = b.sources
         /\ c.allocs = b.allocs /\ c.journals = b.journals \o js
         /\ c.periods = b.periods /\ c.counts = b.counts /\ c.members = b.members
         /\ c.capital = b.capital
<1>1. c = [b EXCEPT !.journals = b.journals \o js]
  BY DEF Write
<1>2. /\ c.sources = b.sources /\ c.allocs = b.allocs /\ c.journals = b.journals \o js
      /\ c.counts = b.counts /\ c.members = b.members /\ c.periods = b.periods /\ BookRecord(c)
      /\ c.capital = b.capital
  BY <1>1 DEF BookRecord
<1>3. AllFair(b.journals)
  BY MoneyFact DEF AllFair
<1>4. AllFair(b.journals \o js)
  BY <1>3, AllFairFact
<1>5. \A s \in DOMAIN c.sources : Priced(c.sources[s]) /\ Noted(c, c.sources[s])
  BY <1>2, MoneyFact DEF Noted
<1>6. Money(c) /\ IsSeq(c.journals)
  BY <1>2, <1>4, <1>5, MoneyFact, MoneyIs DEF AllFair
<1> QED BY <1>2, <1>6

-----------------------------------------------------------------------------
(* What the journals of a book put on a party's account, and what the documents *)
(* in force are to put there                                                    *)

Owes(b, js, p) == [j \in js |-> Owing(b.journals[j].lines, p)]

Owed(b, js, p) == SumFunction(Owes(b, js, p))

Effects(b, ss, p) == [s \in ss |-> Effect(b.sources[s], p)]

Due(b, p) == SumFunction(Effects(b, Live(b, SourceTypes), p))

\* A party owes what the documents in force say, and each of them was posted as it says.
Positioned(b) ==
  \A p \in Parties :
    /\ Owed(b, DOMAIN b.journals, p) = Due(b, p)
    /\ \A s \in Live(b, SourceTypes) : Owed(b, JournalsOf(b, s), p) = Effect(b.sources[s], p)

\* A book whose journals can be summed.
Summed(b) ==
  IsSeq(b.journals) /\ IsSeq(b.sources) /\ (\A j \in DOMAIN b.journals : LineSeq(b.journals[j].lines))
    /\ \A s \in DOMAIN b.sources : b.sources[s].total \in Int

LEMMA SummedFact ==
  ASSUME NEW b, IsSeq(b.journals), IsSeq(b.sources), Money(b)
  PROVE  Summed(b)
BY DEF Summed, Money, Fair, Listed, Priced

LEMMA EffectInt == ASSUME NEW doc, doc.total \in Int, NEW p PROVE Effect(doc, p) \in Int
BY DEF Effect

LEMMA OwedFact ==
  ASSUME NEW b, Summed(b), NEW p
  PROVE  /\ \A js \in SUBSET DOMAIN b.journals : /\ Summable(Owes(b, js, p), js) /\ Owed(b, js, p) \in Int
                                                 /\ \A j \in js : Owing(b.journals[j].lines, p) \in Int
         /\ \A ss \in SUBSET DOMAIN b.sources : Summable(Effects(b, ss, p), ss)
         /\ Due(b, p) \in Int
<1>1. \A j \in DOMAIN b.journals : Owing(b.journals[j].lines, p) \in Int
  BY NetOfInt DEF Summed, Owing
<1>2. \A s \in DOMAIN b.sources : Effect(b.sources[s], p) \in Int
  BY EffectInt DEF Summed
<1>3. /\ \A js \in SUBSET DOMAIN b.journals : IsFiniteSet(js)
      /\ \A ss \in SUBSET DOMAIN b.sources : IsFiniteSet(ss)
  <2>1. /\ DOMAIN b.journals = 1 .. Len(b.journals) /\ Len(b.journals) \in Nat
        /\ DOMAIN b.sources = 1 .. Len(b.sources) /\ Len(b.sources) \in Nat
    BY SeqFact DEF Summed
  <2>2. IsFiniteSet(DOMAIN b.journals) /\ IsFiniteSet(DOMAIN b.sources)
    BY <2>1, IntervalFinite
  <2> QED BY <2>2, FS_Subset
<1>4. \A js \in SUBSET DOMAIN b.journals : Summable(Owes(b, js, p), js)
  BY <1>1, <1>3 DEF Summable, Owes
<1>5. \A ss \in SUBSET DOMAIN b.sources : Summable(Effects(b, ss, p), ss)
  BY <1>2, <1>3 DEF Summable, Effects
<1>6. Live(b, SourceTypes) \in SUBSET DOMAIN b.sources
  BY DEF Live
<1> QED BY <1>1, <1>4, <1>5, <1>6, SummableFact DEF Owed, Due

LEMMA PositionedSame ==
  ASSUME NEW b, Positioned(b), NEW c, c.sources = b.sources, c.journals = b.journals
  PROVE  Positioned(c)
<1>1. \A types : Live(c, types) = Live(b, types)
  BY DEF Live
<1>2. \A s : JournalsOf(c, s) = JournalsOf(b, s)
  BY DEF JournalsOf
<1>3. /\ \A js, p : Owed(c, js, p) = Owed(b, js, p)
      /\ \A p : Due(c, p) = Due(b, p)
  BY <1>1 DEF Owed, Owes, Due, Effects
<1> QED BY <1>1, <1>2, <1>3 DEF Positioned

\* The journals of one book are there in another one.
Beginning(b, c) ==
  \A j \in DOMAIN b.journals : j \in DOMAIN c.journals /\ c.journals[j] = b.journals[j]

\* Journals that put nothing there.
Idle(c, js, p) == \A j \in js : Owing(c.journals[j].lines, p) = 0

LEMMA OwedWithin ==
  ASSUME NEW b, Summed(b), NEW c, Summed(c), Beginning(b, c), NEW p,
         NEW js, js \subseteq DOMAIN c.journals, NEW ks, ks = js \cap DOMAIN b.journals,
         Idle(c, js \ ks, p)
  PROVE  Owed(c, js, p) = Owed(b, ks, p)
<1> DEFINE f == Owes(c, js, p)
           g == Owes(b, ks, p)
<1>1. Summable(f, js) /\ Summable(g, ks) /\ ks \in SUBSET js
  BY OwedFact
<1>2. Alike(f, g, ks) /\ \A j \in js \ ks : f[j] = 0
  BY <1>1 DEF Alike, Owes, Beginning, Idle
<1>3. g \in [ks -> Int]
  BY <1>1 DEF Summable
<1> HIDE DEF f, g
<1>4. SumFunction(f) = SumFunction(g)
  BY <1>1, <1>2, <1>3, SumWithin
<1> QED BY <1>4 DEF Owed, f, g

\* Lines that are nobody's.
Blank(s) == LineSeq(s) /\ \A k \in DOMAIN s : s[k].party = "none"

LEMMA BlankOwing ==
  ASSUME NEW s, Blank(s), NEW p \in Parties PROVE Owing(s, p) = 0
<1> DEFINE f == WorthOf(s, Side(p), {p})
           S == 1 .. Len(s)
<1>1. /\ Len(s) \in Nat /\ DOMAIN s = S /\ Integers(f, Len(s))
      /\ \A k \in S : f[k] = IF Concerns(s[k], Side(p), {p}) THEN s[k].amount ELSE 0
  BY WorthOfFact DEF Blank
<1>2. \A k \in S : ~Concerns(s[k], Side(p), {p})
  BY <1>1, SidesFact DEF Concerns, Blank
<1>3. IsFiniteSet(S)
  BY <1>1, IntervalFinite
<1>4. f \in [S -> Int] /\ \A k \in S : f[k] = 0
  BY <1>1, <1>2 DEF Integers
<1> HIDE DEF f, S
<1>5. SumFunction(f) = 0
  BY <1>3, <1>4, SumZero
<1> QED BY <1>5 DEF Owing, NetOf, f

LEMMA BlankFact ==
  /\ \A s : Blank(s) => Blank(Lines(s))
  /\ \A s, t : Blank(s) /\ Blank(t) => Blank(s \o t)
  /\ \A a, n : n \in Int => Blank(<<Line(a, "none", n)>>)
  /\ \A a, m, c, n : m \in Int /\ n \in Int => Blank(<<Line(a, "none", m), Line(c, "none", n)>>)
<1>1. ASSUME NEW s, Blank(s) PROVE Blank(Lines(s))
  BY <1>1, NetOfLines DEF Blank
<1>2. ASSUME NEW s, NEW t, Blank(s), Blank(t) PROVE Blank(s \o t)
  <2>1. /\ DOMAIN (s \o t) = 1 .. Len(s) + Len(t)
        /\ \A i \in 1 .. Len(s) : (s \o t)[i] = s[i]
        /\ \A i \in 1 .. Len(t) : (s \o t)[Len(s) + i] = t[i]
        /\ Len(s) \in Nat /\ DOMAIN s = 1 .. Len(s) /\ Len(t) \in Nat /\ DOMAIN t = 1 .. Len(t)
    BY <1>2, ConcatFact, SeqFact DEF Blank, LineSeq
  <2>2. ASSUME NEW k \in 1 .. Len(s) + Len(t) PROVE (s \o t)[k].party = "none"
    <3>1. CASE k \in 1 .. Len(s)
      BY <1>2, <2>1, <3>1 DEF Blank
    <3>2. CASE k \notin 1 .. Len(s)
      <4>1. k - Len(s) \in 1 .. Len(t) /\ Len(s) + (k - Len(s)) = k
        BY <2>1, <3>2
      <4> QED BY <1>2, <2>1, <4>1 DEF Blank
    <3> QED BY <3>1, <3>2
  <2>3. LineSeq(s \o t)
    BY <1>2, NetJoined DEF Blank
  <2> QED BY <2>1, <2>2, <2>3 DEF Blank
<1>3. ASSUME NEW a, NEW n \in Int PROVE Blank(<<Line(a, "none", n)>>)
  <2> DEFINE l == Line(a, "none", n)
  <2>1. IsLine(l) /\ l.party = "none"
    BY LineFact DEF Line
  <2> HIDE DEF l
  <2>2. LineSeq(<<l>>) /\ DOMAIN <<l>> = {1} /\ <<l>>[1] = l
    BY <2>1, NetOne
  <2> QED BY <2>1, <2>2 DEF Blank, l
<1>4. ASSUME NEW a, NEW m \in Int, NEW c, NEW n \in Int
      PROVE  Blank(<<Line(a, "none", m), Line(c, "none", n)>>)
  <2> DEFINE s == <<Line(a, "none", m)>>
             t == <<Line(c, "none", n)>>
  <2>1. <<Line(a, "none", m), Line(c, "none", n)>> = s \o t
    OBVIOUS
  <2>2. Blank(s) /\ Blank(t)
    BY <1>3
  <2> HIDE DEF s, t
  <2> QED BY <1>2, <2>1, <2>2
<1> QED BY <1>1, <1>2, <1>3, <1>4

\* Journals of lines that are nobody's.
AllBlank(js) == \A i \in DOMAIN js : Blank(js[i].lines)

LEMMA AllBlankFact ==
  /\ AllBlank(<<>>)
  /\ \A p, s, date, lines : Blank(lines) => AllBlank(<<Journal(p, s, date, lines)>>)
  /\ \A js, ks : IsSeq(js) /\ IsSeq(ks) /\ AllBlank(js) /\ AllBlank(ks) => AllBlank(js \o ks)
<1>1. AllBlank(<<>>)
  <2>1. DOMAIN <<>> = {}
    OBVIOUS
  <2> QED BY <2>1 DEF AllBlank
<1>2. ASSUME NEW p, NEW s, NEW date, NEW lines, Blank(lines)
      PROVE  AllBlank(<<Journal(p, s, date, lines)>>)
  <2> DEFINE j == Journal(p, s, date, lines)
  <2>1. j.lines = lines
    BY DEF Journal
  <2> HIDE DEF j
  <2>2. DOMAIN <<j>> = {1} /\ <<j>>[1] = j
    BY OneFact
  <2> QED BY <1>2, <2>1, <2>2 DEF AllBlank, j
<1>3. ASSUME NEW js, NEW ks, IsSeq(js), IsSeq(ks), AllBlank(js), AllBlank(ks) PROVE AllBlank(js \o ks)
  <2>1. /\ DOMAIN (js \o ks) = 1 .. Len(js) + Len(ks)
        /\ \A i \in 1 .. Len(js) : (js \o ks)[i] = js[i]
        /\ \A i \in 1 .. Len(ks) : (js \o ks)[Len(js) + i] = ks[i]
        /\ Len(js) \in Nat /\ DOMAIN js = 1 .. Len(js) /\ Len(ks) \in Nat /\ DOMAIN ks = 1 .. Len(ks)
    BY <1>3, ConcatFact, SeqFact
  <2>2. ASSUME NEW i \in 1 .. Len(js) + Len(ks) PROVE Blank((js \o ks)[i].lines)
    <3>1. CASE i \in 1 .. Len(js)
      BY <1>3, <2>1, <3>1 DEF AllBlank
    <3>2. CASE i \notin 1 .. Len(js)
      <4>1. i - Len(js) \in 1 .. Len(ks) /\ i = Len(js) + (i - Len(js))
        BY <2>1, <3>2
      <4>2. (js \o ks)[i] = ks[i - Len(js)]
        BY <2>1, <4>1
      <4> QED BY <1>3, <2>1, <4>1, <4>2 DEF AllBlank
    <3> QED BY <3>1, <3>2
  <2> QED BY <2>1, <2>2 DEF AllBlank
<1> QED BY <1>1, <1>2, <1>3

\* Posting lines that are nobody's moves nobody's account.
LEMMA PositionedWrite ==
  ASSUME NEW b, Positioned(b), Summed(b), NEW js, IsSeq(js), AllBlank(js),
         NEW c, c.sources = b.sources, c.journals = b.journals \o js
  PROVE  Positioned(c)
<1> DEFINE n == Len(b.journals)
           m == Len(js)
<1>1. /\ IsSeq(c.journals) /\ DOMAIN c.journals = 1 .. n + m
      /\ \A i \in 1 .. n : c.journals[i] = b.journals[i]
      /\ \A i \in 1 .. m : c.journals[n + i] = js[i]
      /\ n \in Nat /\ DOMAIN b.journals = 1 .. n /\ m \in Nat /\ DOMAIN js = 1 .. m
  BY ConcatFact, SeqFact DEF Summed
<1> HIDE DEF n, m
<1>2. ASSUME NEW j \in DOMAIN c.journals \ DOMAIN b.journals PROVE Blank(c.journals[j].lines)
  <2>1. j - n \in 1 .. m /\ j = n + (j - n)
    BY <1>1
  <2>2. c.journals[j] = js[j - n]
    BY <1>1, <2>1
  <2> QED BY <1>1, <2>1, <2>2 DEF AllBlank
<1>3. Beginning(b, c)
  BY <1>1 DEF Beginning
<1>4. Summed(c)
  <2>1. \A j \in DOMAIN c.journals : LineSeq(c.journals[j].lines)
    BY <1>2, <1>3 DEF Summed, Beginning, Blank
  <2> QED BY <1>1, <2>1 DEF Summed
<1>5. Live(c, SourceTypes) = Live(b, SourceTypes) /\ \A p : Due(c, p) = Due(b, p)
  BY DEF Live, Due, Effects
<1>6. ASSUME NEW p \in Parties, NEW ks, ks \subseteq DOMAIN c.journals,
             NEW is, is = ks \cap DOMAIN b.journals
      PROVE  Owed(c, ks, p) = Owed(b, is, p)
  <2>1. Idle(c, ks \ is, p)
    BY <1>2, <1>6, BlankOwing DEF Idle
  <2>2. Summed(b) /\ Summed(c) /\ Beginning(b, c)
    BY <1>3, <1>4
  <2>3. ks \subseteq DOMAIN c.journals /\ is = ks \cap DOMAIN b.journals
    BY <1>6
  <2> QED BY <2>1, <2>2, <2>3, OwedWithin
<1>7. ASSUME NEW p \in Parties PROVE Owed(c, DOMAIN c.journals, p) = Owed(b, DOMAIN b.journals, p)
  <2>1. DOMAIN b.journals = DOMAIN c.journals \cap DOMAIN b.journals
    BY <1>3 DEF Beginning
  <2> QED BY <1>6, <2>1
<1>8. ASSUME NEW p \in Parties, NEW s PROVE Owed(c, JournalsOf(c, s), p) = Owed(b, JournalsOf(b, s), p)
  <2>1. /\ JournalsOf(b, s) = JournalsOf(c, s) \cap DOMAIN b.journals
        /\ JournalsOf(c, s) \subseteq DOMAIN c.journals
    BY <1>3 DEF Beginning, JournalsOf
  <2> QED BY <1>6, <2>1
<1> QED BY <1>5, <1>7, <1>8 DEF Positioned

\* A document in force, and its journal.
LEMMA PositionedPosted ==
  ASSUME NEW b, Positioned(b), Summed(b), Rows(b),
         NEW doc, doc.type \in SourceTypes, doc.of = 0, ~doc.reversed, doc.total \in Int,
         NEW j, j.source = Len(b.sources) + 1, LineSeq(j.lines),
         \A p \in Parties : Owing(j.lines, p) = Effect(doc, p),
         NEW c, c.sources = Append(b.sources, doc), c.journals = b.journals \o <<j>>
  PROVE  Positioned(c)
<1> DEFINE n == Len(b.journals)
           l == Len(b.sources)
<1>1. /\ IsSeq(c.journals) /\ DOMAIN c.journals = 1 .. n + 1
      /\ \A i \in 1 .. n : c.journals[i] = b.journals[i]
      /\ c.journals[n + 1] = j /\ n \in Nat /\ DOMAIN b.journals = 1 .. n
  <2> DEFINE k == <<j>>
           q == b.journals
  <2>1. IsSeq(k) /\ IsSeq(q)
    BY OneFact DEF Summed
  <2>2. Len(k) = 1 /\ k[1] = j /\ c.journals = q \o k
    BY OneFact
  <2> HIDE DEF k, q
  <2>3. /\ IsSeq(q \o k) /\ DOMAIN (q \o k) = 1 .. Len(q) + Len(k)
        /\ \A i \in 1 .. Len(q) : (q \o k)[i] = q[i]
        /\ \A i \in 1 .. Len(k) : (q \o k)[Len(q) + i] = k[i]
    BY <2>1, ConcatFact
  <2>4. 1 \in 1 .. Len(k)
    BY <2>2
  <2> QED BY <2>1, <2>2, <2>3, <2>4, SeqFact DEF q
<1>2. /\ IsSeq(c.sources) /\ DOMAIN c.sources = 1 .. l + 1 /\ DOMAIN b.sources = 1 .. l /\ l \in Nat
      /\ c.sources[l + 1] = doc /\ \A s \in 1 .. l : c.sources[s] = b.sources[s]
  BY AppendFact, SeqFact DEF Summed
<1>3. \A i \in 1 .. n : b.journals[i].source \in 0 .. l
  BY <1>1 DEF Rows, JournalRow
<1> HIDE DEF n, l
<1>4. Summed(c) /\ Beginning(b, c)
  <2>1. \A i \in DOMAIN c.journals : LineSeq(c.journals[i].lines)
    BY <1>1 DEF Summed
  <2>2. \A s \in DOMAIN c.sources : c.sources[s].total \in Int
    BY <1>2 DEF Summed
  <2>3. Beginning(b, c)
    BY <1>1 DEF Beginning
  <2> QED BY <1>1, <1>2, <2>1, <2>2, <2>3 DEF Summed
<1>5. Live(c, SourceTypes) = Live(b, SourceTypes) \cup {l + 1} /\ l + 1 \notin Live(b, SourceTypes)
  BY <1>2 DEF Live
<1>6. /\ JournalsOf(c, l + 1) = {n + 1}
      /\ \A s \in Live(b, SourceTypes) : JournalsOf(c, s) = JournalsOf(b, s)
  <2>1. \A i \in 1 .. n : c.journals[i].source # l + 1
    <3>1. \A i \in 0 .. l : i # l + 1
      BY <1>2
    <3> QED BY <1>1, <1>3, <3>1
  <2>2. c.journals[n + 1].source = l + 1
    BY <1>1 DEF l
  <2>5. \A i \in 1 .. n + 1 : i \in 1 .. n \/ i = n + 1
    BY <1>1
  <2>3. ASSUME NEW s, s # l + 1 PROVE JournalsOf(c, s) = JournalsOf(b, s)
    <3>1. \A i \in 1 .. n + 1 : c.journals[i].source = s => i \in 1 .. n
      BY <2>2, <2>3, <2>5
    <3> QED BY <1>1, <3>1 DEF JournalsOf
  <2>4. JournalsOf(c, l + 1) = {n + 1}
    <3>1. \A i \in 1 .. n + 1 : c.journals[i].source = l + 1 <=> i = n + 1
      BY <2>1, <2>2, <2>5
    <3>2. n + 1 \in 1 .. n + 1
      BY <1>1
    <3> QED BY <1>1, <3>1, <3>2 DEF JournalsOf
  <2> QED BY <1>5, <2>3, <2>4
<1>7. ASSUME NEW p \in Parties PROVE Owed(c, DOMAIN c.journals, p) = Due(c, p)
  <2> DEFINE S == DOMAIN c.journals
             e == n + 1
             f == Owes(c, S, p)
             T == Live(c, SourceTypes)
             d == l + 1
             g == Effects(c, T, p)
  <2>1. IsFiniteSet(S) /\ f \in [S -> Int] /\ e \in S /\ IsFiniteSet(T) /\ g \in [T -> Int] /\ d \in T
    <3>1. T \in SUBSET DOMAIN c.sources /\ S \in SUBSET DOMAIN c.journals
      BY DEF Live
    <3>2. Summable(f, S) /\ Summable(g, T)
      <4> HIDE DEF S, T
      <4> QED BY <1>4, <3>1, OwedFact
    <3>3. e \in S /\ d \in T
      BY <1>1, <1>5
    <3> HIDE DEF f, g, S, T
    <3> QED BY <3>2, <3>3 DEF Summable
  <2>2. f[e] = Effect(doc, p) /\ g[d] = Effect(doc, p)
    BY <1>1, <1>2, <1>5 DEF Owes, Effects
  <2>3. [x \in S \ {e} |-> f[x]] = Owes(b, DOMAIN b.journals, p)
    BY <1>1 DEF Owes
  <2>4. [x \in T \ {d} |-> g[x]] = Effects(b, Live(b, SourceTypes), p)
    <3>1. T \ {d} = Live(b, SourceTypes)
      BY <1>5
    <3>2. \A x \in T \ {d} : x \in 1 .. l
      BY <1>2, <3>1 DEF Live
    <3> QED BY <1>2, <3>1, <3>2 DEF Effects
  <2> HIDE DEF S, e, f, T, d, g
  <2>5. SumFunction(f) = f[e] + SumFunction([x \in S \ {e} |-> f[x]])
    BY <2>1, SumTake, ZenonT(60)
  <2>6. SumFunction(g) = g[d] + SumFunction([x \in T \ {d} |-> g[x]])
    BY <2>1, SumTake, ZenonT(60)
  <2>7. SumFunction(f) = Effect(doc, p) + Owed(b, DOMAIN b.journals, p)
    BY <2>2, <2>3, <2>5 DEF Owed
  <2>8. SumFunction(g) = Effect(doc, p) + Due(b, p)
    BY <2>2, <2>4, <2>6 DEF Due
  <2> QED BY <2>7, <2>8 DEF Positioned, Owed, Due, f, g, S, T
<1>8. ASSUME NEW p \in Parties, NEW s \in Live(c, SourceTypes)
      PROVE  Owed(c, JournalsOf(c, s), p) = Effect(c.sources[s], p)
  <2>1. CASE s \in Live(b, SourceTypes)
    <3>1. JournalsOf(c, s) = JournalsOf(b, s) /\ c.sources[s] = b.sources[s]
      <4>1. s \in 1 .. l
        BY <1>2, <2>1 DEF Live
      <4> QED BY <1>2, <1>6, <2>1, <4>1
    <3>2. Owes(c, JournalsOf(b, s), p) = Owes(b, JournalsOf(b, s), p)
      BY <1>1 DEF Owes, JournalsOf
    <3> QED BY <2>1, <3>1, <3>2 DEF Positioned, Owed
  <2>2. CASE s = l + 1
    <3> DEFINE S == {n + 1}
               e == n + 1
               f == Owes(c, S, p)
    <3>1. IsFiniteSet(S) /\ f \in [S -> Int] /\ e \in S /\ S \in SUBSET DOMAIN c.journals
      <4>1. S \in SUBSET DOMAIN c.journals
        BY <1>1
      <4> QED BY <1>4, <4>1, OwedFact DEF Summable
    <3>2. \A x \in S \ {e} : f[x] = 0
      OBVIOUS
    <3>3. f[e] = Effect(doc, p)
      BY <1>1 DEF Owes
    <3> HIDE DEF S, e, f
    <3>4. SumFunction(f) = f[e]
      BY <3>1, <3>2, SumOnly
    <3> QED BY <1>2, <1>6, <2>2, <3>3, <3>4 DEF Owed, f, S
  <2> QED BY <1>5, <2>1, <2>2
<1> QED BY <1>7, <1>8 DEF Positioned

SameEffect(e, doc) ==
  e.type = doc.type /\ e.party = doc.party /\ e.cash = doc.cash /\ e.total = doc.total

\* A book in which a document was taken back: each journal of it, as f lists them,
\* is answered by the opposite one.
TakesBack(b, c, s, f, m) ==
  /\ m \in Nat /\ Renames(f, 1 .. m, JournalsOf(b, s)) /\ Beginning(b, c)
  /\ DOMAIN c.journals = 1 .. Len(b.journals) + m
  /\ \A i \in 1 .. m : /\ c.journals[Len(b.journals) + i].lines = Opposite(b.journals[f[i]].lines)
                       /\ c.journals[Len(b.journals) + i].source = Len(b.sources) + i
  /\ DOMAIN c.sources = 1 .. Len(b.sources) + m
  /\ \A q \in DOMAIN b.sources : /\ SameEffect(c.sources[q], b.sources[q]) /\ c.sources[q].of = b.sources[q].of
                                 /\ c.sources[q].reversed <=> b.sources[q].reversed \/ q = s
  /\ \A i \in 1 .. m : c.sources[Len(b.sources) + i].of = s

\* What the answers put on a party's account is the opposite of what the document put there.
LEMMA OwedBack ==
  ASSUME NEW b, Summed(b), NEW c, Summed(c), NEW s, NEW f, NEW m, TakesBack(b, c, s, f, m), NEW p
  PROVE  Owed(c, DOMAIN c.journals, p) = Owed(b, DOMAIN b.journals, p) - Owed(b, JournalsOf(b, s), p)
<1> DEFINE n == Len(b.journals)
           J == JournalsOf(b, s)
           I == 1 .. m
           v == Owes(b, J, p)
           w == [i \in I |-> v[f[i]]]
           o == [i \in I |-> -v[f[i]]]
           g == Owes(b, DOMAIN b.journals, p)
           h == Owes(c, DOMAIN c.journals, p)
<1>1. /\ n \in Nat /\ DOMAIN b.journals = 1 .. n /\ m \in Nat /\ DOMAIN c.journals = 1 .. n + m
      /\ Renames(f, I, J) /\ J \in SUBSET DOMAIN b.journals
  BY SeqFact DEF Summed, TakesBack, JournalsOf
<1>2. Summable(v, J) /\ Summable(g, DOMAIN b.journals) /\ Summable(h, DOMAIN c.journals)
  BY <1>1, OwedFact
<1>3. f \in [I -> J] /\ v \in [J -> Int]
  BY <1>1, <1>2 DEF Renames, Summable
<1>4. w \in [I -> Int] /\ o \in [I -> Int] /\ IsFiniteSet(I)
  <2>1. \A i \in I : v[f[i]] \in Int
    BY <1>3
  <2>2. IsFiniteSet(I)
    BY <1>1, IntervalFinite
  <2> HIDE DEF v, I
  <2> QED BY <2>1, <2>2
<1>5. After(w, v, f, I) /\ \A i \in I : o[i] = -w[i]
  BY DEF After
<1>6. SumFunction(w) = SumFunction(v)
  <2>1. Summable(w, I)
    BY <1>4 DEF Summable
  <2> HIDE DEF v, w, I, J
  <2> QED BY <1>1, <1>2, <1>5, <2>1, SumRenamed
<1>7. SumFunction(o) = -SumFunction(w)
  <2> HIDE DEF o, w, I
  <2> QED BY <1>4, <1>5, SumOpposite
<1>8. Integers(g, n) /\ Integers(o, m) /\ Integers(h, n + m)
  BY <1>1, <1>2, <1>4 DEF Integers, Summable
<1>9. Joined(h, g, n, o, m)
  <2>1. \A i \in 1 .. n : h[i] = g[i]
    BY <1>1 DEF Owes, TakesBack, Beginning
  <2>2. ASSUME NEW i \in 1 .. m PROVE h[n + i] = o[i]
    <3>1. f[i] \in J /\ f[i] \in DOMAIN b.journals
      BY <1>1, <1>3
    <3>2. c.journals[n + i].lines = Opposite(b.journals[f[i]].lines) /\ LineSeq(b.journals[f[i]].lines)
      BY <3>1 DEF TakesBack, Summed
    <3>3. Owing(c.journals[n + i].lines, p) = -Owing(b.journals[f[i]].lines, p)
      BY <3>2, NetOfOpposite DEF Owing
    <3>4. h[n + i] = Owing(c.journals[n + i].lines, p) /\ v[f[i]] = Owing(b.journals[f[i]].lines, p)
      <4>1. n + i \in DOMAIN c.journals
        BY <1>1
      <4> QED BY <3>1, <4>1 DEF Owes
    <3> HIDE DEF h, v
    <3> QED BY <3>3, <3>4
  <2> HIDE DEF g, o, h
  <2> QED BY <2>1, <2>2 DEF Joined
<1> HIDE DEF n, J, I, v, w, o, g, h
<1>10. SumFunction(h) = SumFunction(g) + SumFunction(o)
  BY <1>1, <1>8, <1>9, SumJoined
<1>11. SumFunction(v) \in Int /\ SumFunction(g) \in Int
  BY <1>2, SummableFact
<1>12. SumFunction(h) = SumFunction(g) - SumFunction(v)
  BY <1>6, <1>7, <1>10, <1>11
<1> QED BY <1>12 DEF Owed, v, g, h, J

LEMMA PlacesJoined ==
  ASSUME NEW x \in Nat, NEW y \in Nat
  PROVE  /\ \A i \in 1 .. x + y : i \in 1 .. x \/ (i - x \in 1 .. y /\ i = x + (i - x))
         /\ \A i \in 1 .. y : x + i \notin 1 .. x /\ x + i \in 1 .. x + y
OBVIOUS

LEMMA PositionedReversed ==
  ASSUME NEW b, Positioned(b), Summed(b), Rows(b), NEW s \in Live(b, SourceTypes),
         NEW c, Summed(c), NEW f, NEW m, TakesBack(b, c, s, f, m)
  PROVE  Positioned(c)
<1> DEFINE l == Len(b.sources)
           n == Len(b.journals)
           L == Live(b, SourceTypes)
<1>1. /\ l \in Nat /\ DOMAIN b.sources = 1 .. l /\ n \in Nat /\ DOMAIN b.journals = 1 .. n /\ m \in Nat
      /\ DOMAIN c.sources = 1 .. l + m /\ DOMAIN c.journals = 1 .. n + m
  BY SeqFact DEF Summed, TakesBack
<1> HIDE DEF l, n
<1>2. s \in 1 .. l /\ s # 0 /\ L \in SUBSET DOMAIN b.sources /\ s \in L
  BY <1>1 DEF Live
<1>3. /\ \A q \in 1 .. l + m : q \in 1 .. l \/ (q - l \in 1 .. m /\ q = l + (q - l))
      /\ \A i \in 1 .. m : l + i \notin 1 .. l /\ l + i \in 1 .. l + m
  BY <1>1, PlacesJoined
<1>4. \A q \in 1 .. l + m : c.sources[q].of = 0 => q \in 1 .. l
  <2>1. \A i \in 1 .. m : c.sources[l + i].of = s
    BY DEF TakesBack, l
  <2> QED BY <1>2, <1>3, <2>1
<1>5. /\ \A q \in 1 .. l : /\ SameEffect(c.sources[q], b.sources[q]) /\ c.sources[q].of = b.sources[q].of
                           /\ c.sources[q].reversed <=> b.sources[q].reversed \/ q = s
      /\ \A j \in 1 .. n : c.journals[j] = b.journals[j]
      /\ \A i \in 1 .. m : c.journals[n + i].source = l + i
  BY <1>1 DEF TakesBack, Beginning, l, n
<1>6. \A j \in 1 .. n + m : j \in 1 .. n \/ (j - n \in 1 .. m /\ j = n + (j - n))
  BY <1>1, PlacesJoined
<1>8. Live(c, SourceTypes) = L \ {s}
  <2>1. ASSUME NEW q \in Live(c, SourceTypes) PROVE q \in L \ {s}
    <3>1. q \in 1 .. l
      BY <1>1, <1>4 DEF Live
    <3> QED BY <1>1, <1>5, <3>1 DEF Live, SameEffect
  <2>2. ASSUME NEW q \in L \ {s} PROVE q \in Live(c, SourceTypes)
    <3>1. q \in 1 .. l /\ q \in 1 .. l + m
      BY <1>1 DEF Live
    <3> QED BY <1>1, <1>5, <3>1 DEF Live, SameEffect
  <2> QED BY <2>1, <2>2
<1>9. \A q \in 1 .. l : \A p : Effect(c.sources[q], p) = Effect(b.sources[q], p)
  BY <1>5 DEF SameEffect, Effect
<1>10. ASSUME NEW p \in Parties PROVE Due(c, p) = Due(b, p) - Effect(b.sources[s], p)
  <2> DEFINE g == Effects(b, L, p)
  <2>1. g \in [L -> Int] /\ IsFiniteSet(L) /\ g[s] = Effect(b.sources[s], p) /\ g[s] \in Int
    <3>1. Summable(g, L)
      BY <1>2, OwedFact
    <3>2. g[s] = Effect(b.sources[s], p)
      BY <1>2 DEF Effects
    <3> HIDE DEF g
    <3> QED BY <1>2, <3>1, <3>2 DEF Summable
  <2>2. [x \in L \ {s} |-> g[x]] = Effects(c, L \ {s}, p)
    BY <1>1, <1>2, <1>9 DEF Effects
  <2>3. SumFunction(Effects(c, L \ {s}, p)) \in Int
    <3>1. Due(c, p) \in Int
      BY OwedFact
    <3> QED BY <1>8, <3>1 DEF Due
  <2> HIDE DEF g, L
  <2>4. SumFunction(g) = g[s] + SumFunction([x \in L \ {s} |-> g[x]])
    BY <1>2, <2>1, SumTake, ZenonT(60)
  <2>5. SumFunction(g) = Due(b, p) /\ SumFunction(Effects(c, L \ {s}, p)) = Due(c, p)
    BY <1>8 DEF Due, g, L
  <2> QED BY <2>1, <2>2, <2>3, <2>4, <2>5
<1>11. ASSUME NEW q \in L \ {s} PROVE JournalsOf(c, q) = JournalsOf(b, q)
  <2>1. q \in 1 .. l
    BY <1>1 DEF Live
  <2>2. \A j \in 1 .. n + m : c.journals[j].source = q => j \in 1 .. n
    BY <1>3, <1>5, <1>6, <2>1
  <2>3. 1 .. n \subseteq 1 .. n + m
    BY <1>1
  <2> QED BY <1>1, <1>5, <2>2, <2>3 DEF JournalsOf
<1>12. ASSUME NEW p \in Parties PROVE Owed(c, DOMAIN c.journals, p) = Due(c, p)
  <2>1. Owed(c, DOMAIN c.journals, p) = Owed(b, DOMAIN b.journals, p) - Owed(b, JournalsOf(b, s), p)
    BY OwedBack
  <2> QED BY <1>2, <1>10, <2>1 DEF Positioned, L
<1>13. ASSUME NEW p \in Parties, NEW q \in L \ {s}
       PROVE  Owed(c, JournalsOf(c, q), p) = Effect(c.sources[q], p)
  <2>1. Owes(c, JournalsOf(b, q), p) = Owes(b, JournalsOf(b, q), p)
    BY <1>1, <1>5 DEF Owes, JournalsOf
  <2>2. Owed(b, JournalsOf(b, q), p) = Effect(b.sources[q], p) /\ q \in 1 .. l
    BY <1>1, <1>2 DEF Positioned
  <2> QED BY <1>9, <1>11, <2>1, <2>2 DEF Owed
<1> QED BY <1>8, <1>12, <1>13 DEF Positioned

-----------------------------------------------------------------------------
(* What is added to a book: documents, and the journals that post them or take *)
(* others back                                                                 *)

SameDocument(e, doc) ==
  e.type = doc.type /\ e.of = doc.of /\ e.total = doc.total /\ e.party = doc.party

\* A journal is of a document: as it says if it was entered, else it answers one of
\* the document's that was.
Proper(b, j) ==
  LET s == b.journals[j].source
      doc == b.sources[s]
      k == b.journals[j].reversalOf
  IN /\ s \in DOMAIN b.sources
     /\ doc.of = 0 => k = 0 /\ \A a \in Titles : Net(b.journals[j].lines, {a}) = Title(doc, a)
     /\ doc.of # 0 => /\ k \in DOMAIN b.journals /\ b.journals[k].source = doc.of
                      /\ doc.of \in DOMAIN b.sources
                      /\ b.sources[doc.of].of = 0 /\ b.sources[doc.of].type = doc.type

New(b, c) == DOMAIN c.journals \ DOMAIN b.journals

\* A movement of a member is posted once.
Sole(c, js) ==
  \A i, j \in js :
    c.journals[i].source = c.journals[j].source /\ c.sources[c.journals[j].source].type \in MemberMoves =>
      i = j

Enters(b, c) ==
  /\ c.members = b.members /\ c.capital = b.capital /\ Beginning(b, c)
  /\ \A s \in DOMAIN b.sources : s \in DOMAIN c.sources /\ SameDocument(c.sources[s], b.sources[s])
  /\ \A j \in New(b, c) : Proper(c, j) /\ c.journals[j].source \notin DOMAIN b.sources
  /\ Sole(c, New(b, c))

LEMMA EntersSame ==
  ASSUME NEW b, NEW c, c.members = b.members, c.capital = b.capital,
         c.sources = b.sources, c.journals = b.journals
  PROVE  Enters(b, c)
BY DEF Enters, Beginning, SameDocument, New, Sole

LEMMA ProperKept ==
  ASSUME NEW b, NEW c, Enters(b, c), NEW j \in DOMAIN b.journals, Proper(b, j)
  PROVE  Proper(c, j)
<1>1. c.journals[j] = b.journals[j] /\ b.journals[j].source \in DOMAIN b.sources
  BY DEF Enters, Beginning, Proper
<1> DEFINE s == b.journals[j].source
           doc == b.sources[s]
           e == c.sources[s]
           k == b.journals[j].reversalOf
<1>2. s \in DOMAIN c.sources /\ SameDocument(e, doc)
  BY <1>1 DEF Enters
<1>3. ASSUME e.of = 0 PROVE k = 0 /\ \A a \in Titles : Net(c.journals[j].lines, {a}) = Title(e, a)
  BY <1>1, <1>2, <1>3 DEF Proper, SameDocument, Title
<1>4. ASSUME e.of # 0
      PROVE  /\ k \in DOMAIN c.journals /\ c.journals[k].source = e.of
             /\ e.of \in DOMAIN c.sources /\ c.sources[e.of].of = 0 /\ c.sources[e.of].type = e.type
  <2>1. doc.of = e.of /\ doc.type = e.type
    BY <1>2 DEF SameDocument
  <2>2. /\ k \in DOMAIN b.journals /\ b.journals[k].source = doc.of /\ doc.of \in DOMAIN b.sources
        /\ b.sources[doc.of].of = 0 /\ b.sources[doc.of].type = doc.type
    BY <1>4, <2>1 DEF Proper
  <2>3. k \in DOMAIN c.journals /\ c.journals[k] = b.journals[k]
    BY <2>2 DEF Enters, Beginning
  <2>4. doc.of \in DOMAIN c.sources /\ SameDocument(c.sources[doc.of], b.sources[doc.of])
    BY <2>2 DEF Enters
  <2> QED BY <2>1, <2>2, <2>3, <2>4 DEF SameDocument
<1>5. c.journals[j].source = s /\ c.journals[j].reversalOf = k
  BY <1>1
<1> QED BY <1>2, <1>3, <1>4, <1>5 DEF Proper

LEMMA EntersTwice ==
  ASSUME NEW b, NEW c, NEW d, Enters(b, c), Enters(c, d) PROVE Enters(b, d)
<1>1. Beginning(b, d) /\ d.members = b.members /\ d.capital = b.capital
  BY DEF Enters, Beginning
<1>2. \A s \in DOMAIN b.sources : /\ s \in DOMAIN d.sources /\ s \in DOMAIN c.sources
                                  /\ SameDocument(d.sources[s], b.sources[s])
  BY DEF Enters, SameDocument
<1>3. ASSUME NEW j \in New(b, d) PROVE Proper(d, j) /\ d.journals[j].source \notin DOMAIN b.sources
  <2>1. CASE j \in New(c, d)
    BY <1>2, <2>1 DEF Enters
  <2>2. CASE j \in New(b, c)
    <3>1. Proper(c, j) /\ c.journals[j].source \notin DOMAIN b.sources /\ j \in DOMAIN c.journals
      BY <2>2 DEF Enters, New
    <3>2. Proper(d, j) /\ d.journals[j] = c.journals[j]
      BY <3>1, ProperKept DEF Enters, Beginning
    <3> QED BY <3>1, <3>2
  <2> QED BY <2>1, <2>2 DEF New
<1>4. ASSUME NEW i \in New(b, d), NEW j \in New(b, d), d.journals[i].source = d.journals[j].source,
             d.sources[d.journals[j].source].type \in MemberMoves
      PROVE  i = j
  <2>1. ASSUME NEW k \in New(b, c)
        PROVE  /\ d.journals[k] = c.journals[k] /\ c.journals[k].source \in DOMAIN c.sources
               /\ d.sources[c.journals[k].source].type = c.sources[c.journals[k].source].type
    <3>1. Proper(c, k) /\ k \in DOMAIN c.journals
      BY DEF Enters, New
    <3>2. d.journals[k] = c.journals[k] /\ c.journals[k].source \in DOMAIN c.sources
      BY <3>1 DEF Enters, Beginning, Proper
    <3> QED BY <3>2 DEF Enters, SameDocument
  <2>2. \A k \in New(c, d) : d.journals[k].source \notin DOMAIN c.sources
    BY DEF Enters
  <2>3. CASE i \in New(b, c) /\ j \in New(b, c)
    BY <1>4, <2>1, <2>3 DEF Enters, Sole
  <2>4. CASE i \in New(c, d) /\ j \in New(c, d)
    BY <1>4, <2>4 DEF Enters, Sole
  <2>5. \A k \in {i, j} : k \in New(b, c) \/ k \in New(c, d)
    BY DEF New
  <2> QED BY <1>4, <2>1, <2>2, <2>3, <2>4, <2>5
<1> QED BY <1>1, <1>2, <1>3, <1>4 DEF Enters, Sole

\* Journals of one document, as it says they are to be.
Posting(js, s, doc) ==
  IsSeq(js) /\ \A i \in DOMAIN js : /\ js[i].source = s /\ js[i].reversalOf = 0
                                    /\ \A a \in Titles : Net(js[i].lines, {a}) = Title(doc, a)

LEMMA PostingFact ==
  ASSUME NEW s, NEW doc
  PROVE  /\ Posting(<<>>, s, doc)
         /\ \A p, date, lines : (\A a \in Titles : Net(lines, {a}) = Title(doc, a)) =>
              Posting(<<Journal(p, s, date, lines)>>, s, doc)
         /\ \A js, ks : Posting(js, s, doc) /\ Posting(ks, s, doc) => Posting(js \o ks, s, doc)
<1>1. Posting(<<>>, s, doc)
  <2>1. IsSeq(<<>>)
    BY OneFact
  <2>2. DOMAIN <<>> = {}
    OBVIOUS
  <2> QED BY <2>1, <2>2 DEF Posting
<1>2. ASSUME NEW p, NEW date, NEW lines, \A a \in Titles : Net(lines, {a}) = Title(doc, a)
      PROVE  Posting(<<Journal(p, s, date, lines)>>, s, doc)
  <2> DEFINE j == Journal(p, s, date, lines)
  <2>1. j.lines = lines /\ j.source = s /\ j.reversalOf = 0
    BY DEF Journal
  <2> HIDE DEF j
  <2>2. IsSeq(<<j>>) /\ DOMAIN <<j>> = {1} /\ <<j>>[1] = j
    BY OneFact
  <2>3. Posting(<<j>>, s, doc)
    BY <1>2, <2>1, <2>2 DEF Posting
  <2> QED BY <2>3 DEF j
<1>3. ASSUME NEW js, NEW ks, Posting(js, s, doc), Posting(ks, s, doc) PROVE Posting(js \o ks, s, doc)
  <2>1. /\ IsSeq(js \o ks) /\ DOMAIN (js \o ks) = 1 .. Len(js) + Len(ks)
        /\ \A i \in 1 .. Len(js) : (js \o ks)[i] = js[i]
        /\ \A i \in 1 .. Len(ks) : (js \o ks)[Len(js) + i] = ks[i]
        /\ Len(js) \in Nat /\ DOMAIN js = 1 .. Len(js) /\ Len(ks) \in Nat /\ DOMAIN ks = 1 .. Len(ks)
    BY <1>3, ConcatFact, SeqFact DEF Posting
  <2>2. ASSUME NEW i \in 1 .. Len(js) + Len(ks)
        PROVE  (\E k \in DOMAIN js : (js \o ks)[i] = js[k]) \/ \E k \in DOMAIN ks : (js \o ks)[i] = ks[k]
    <3>1. CASE i \in 1 .. Len(js)
      BY <2>1, <3>1
    <3>2. CASE i \notin 1 .. Len(js)
      <4>1. i - Len(js) \in 1 .. Len(ks) /\ i = Len(js) + (i - Len(js))
        BY <2>1, <3>2
      <4> QED BY <2>1, <4>1
    <3> QED BY <3>1, <3>2
  <2>3. ASSUME NEW i \in DOMAIN (js \o ks)
        PROVE  /\ (js \o ks)[i].source = s /\ (js \o ks)[i].reversalOf = 0
               /\ \A a \in Titles : Net((js \o ks)[i].lines, {a}) = Title(doc, a)
    <3>1. CASE \E k \in DOMAIN js : (js \o ks)[i] = js[k]
      BY <1>3, <3>1 DEF Posting
    <3>2. CASE \E k \in DOMAIN ks : (js \o ks)[i] = ks[k]
      BY <1>3, <3>2 DEF Posting
    <3> QED BY <2>1, <2>2, <3>1, <3>2
  <2>4. IsSeq(js \o ks)
    BY <2>1
  <2> QED BY <2>3, <2>4 DEF Posting
<1> QED BY <1>1, <1>2, <1>3

\* Sequences can be joined in any order.
LEMMA JoinedTwice ==
  ASSUME NEW s, NEW t, NEW u, IsSeq(s), IsSeq(t), IsSeq(u)
  PROVE  (s \o t) \o u = s \o (t \o u) /\ s \o <<>> = s
<1> DEFINE S == Range(s) \cup Range(t) \cup Range(u)
<1>1. s \in Seq(S) /\ t \in Seq(S) /\ u \in Seq(S)
  <2>1. \A q, T : q \in Seq(Range(q)) /\ Range(q) \subseteq T => q \in Seq(T)
    OBVIOUS
  <2> QED BY <2>1 DEF IsSeq
<1> HIDE DEF S
<1> QED BY <1>1, ConcatAssociative, ConcatEmptySeq

LEMMA JoinedLater ==
  ASSUME NEW s, NEW t, NEW u, IsSeq(s), IsSeq(t), IsSeq(u), NEW q, q = (s \o t) \o u,
         NEW r, r = t \o u
  PROVE  q = s \o r
BY JoinedTwice

\* A document that is entered, and its journals.
LEMMA EntersPosted ==
  ASSUME NEW b, Rows(b), NEW doc, doc.of = 0, NEW js, Posting(js, Len(b.sources) + 1, doc),
         doc.type \in MemberMoves => Len(js) <= 1,
         NEW c, c.sources = Append(b.sources, doc), c.journals = b.journals \o js,
         c.members = b.members, c.capital = b.capital
  PROVE  Enters(b, c)
<1> DEFINE n == Len(b.journals)
           l == Len(b.sources)
           m == Len(js)
<1>1. /\ IsSeq(c.journals) /\ DOMAIN c.journals = 1 .. n + m
      /\ \A i \in 1 .. n : c.journals[i] = b.journals[i]
      /\ \A i \in 1 .. m : c.journals[n + i] = js[i]
      /\ n \in Nat /\ DOMAIN b.journals = 1 .. n /\ m \in Nat /\ DOMAIN js = 1 .. m
  BY ConcatFact, SeqFact DEF Rows, Posting
<1>2. /\ DOMAIN c.sources = 1 .. l + 1 /\ l \in Nat /\ DOMAIN b.sources = 1 .. l
      /\ c.sources[l + 1] = doc /\ \A q \in 1 .. l : c.sources[q] = b.sources[q]
  BY AppendFact, SeqFact DEF Rows
<1> HIDE DEF n, m
<1>3. ASSUME NEW j \in New(b, c) PROVE j - n \in 1 .. m /\ c.journals[j] = js[j - n]
  <2>1. j - n \in 1 .. m /\ j = n + (j - n)
    BY <1>1 DEF New
  <2> QED BY <1>1, <2>1
<1>4. Beginning(b, c)
  BY <1>1 DEF Beginning
<1>5. \A s \in DOMAIN b.sources : s \in DOMAIN c.sources /\ SameDocument(c.sources[s], b.sources[s])
  BY <1>2 DEF SameDocument
<1>6. ASSUME NEW j \in New(b, c) PROVE Proper(c, j) /\ c.journals[j].source \notin DOMAIN b.sources
  <2>1. PICK i \in DOMAIN js : c.journals[j] = js[i]
    BY <1>1, <1>3
  <2>2. /\ c.journals[j].source = l + 1 /\ c.journals[j].reversalOf = 0
        /\ \A a \in Titles : Net(c.journals[j].lines, {a}) = Title(doc, a)
    BY <2>1 DEF Posting
  <2>3. c.sources[c.journals[j].source] = doc /\ c.journals[j].source \in DOMAIN c.sources
    BY <1>2, <2>2
  <2>4. l + 1 \notin DOMAIN b.sources
    BY <1>2
  <2> HIDE DEF l
  <2> QED BY <2>2, <2>3, <2>4 DEF Proper
<1>7. Sole(c, New(b, c))
  <2> SUFFICES ASSUME NEW i \in New(b, c), NEW j \in New(b, c),
                      c.sources[c.journals[j].source].type \in MemberMoves
               PROVE  i = j
    BY DEF Sole
  <2>1. c.journals[j].source = l + 1
    <3>1. PICK k \in DOMAIN js : c.journals[j] = js[k]
      BY <1>1, <1>3
    <3> QED BY <3>1 DEF Posting
  <2>2. m <= 1
    BY <1>2, <2>1 DEF m
  <2>3. i - n = 1 /\ j - n = 1
    BY <1>1, <1>3, <2>2
  <2> QED BY <1>1, <2>3 DEF New
<1> QED BY <1>4, <1>5, <1>6, <1>7 DEF Enters

\* Books that differ in what is not posted.
LEMMA EntersBeside ==
  ASSUME NEW b, NEW d, d.members = b.members, d.capital = b.capital, d.sources = b.sources,
         d.journals = b.journals, NEW c, Enters(d, c)
  PROVE  Enters(b, c)
BY EntersSame, EntersTwice

-----------------------------------------------------------------------------
(* Taking a document back keeps the amounts *)

\* A row that is priced as another is.
PricedAs(e, doc) ==
  /\ e.type = doc.type /\ e.total = doc.total /\ e.tax = doc.tax /\ e.units = doc.units
  /\ e.cash = doc.cash /\ e.account = doc.account

LEMMA PricedAlike ==
  ASSUME NEW doc, NEW e, Priced(doc), PricedAs(e, doc) PROVE Priced(e)
BY DEF Priced, PricedAs, Charted

LEMMA SeqFunction == ASSUME NEW q, IsSeq(q), NEW S, \A i \in DOMAIN q : q[i] \in S PROVE q \in [DOMAIN q -> S]
<1>1. q \in [1 .. Len(q) -> Range(q)]
  BY LenProperties DEF IsSeq
<1>2. q = [i \in DOMAIN q |-> q[i]]
  BY <1>1
<1> QED BY <1>2

LEMMA MoneyReversed ==
  ASSUME NEW b, Sound(b), Money(b), NEW s \in DOMAIN b.sources, NEW today \in Dates,
         NEW c, c = Reversed(b, s, today)
  PROVE  /\ Money(c) /\ c.allocs = b.allocs
         /\ \A q \in DOMAIN b.sources : q \in DOMAIN c.sources /\ c.sources[q].total = b.sources[q].total
         /\ s \in Live(b, SourceTypes) /\ Positioned(b) => Positioned(c)
         /\ s \in Live(b, SourceTypes) => Enters(b, c)
<1> DEFINE js == SetToSeq(JournalsOf(b, s))
           l == Len(b.sources)
           m == Len(js)
           R == [i \in 1 .. m |-> Reversal(b, s, js[i], i, today)]
           Q == [i \in 1 .. m |-> ReversalSource(b, s, js[i], today)]
           taken == [b.sources EXCEPT ![s].reversed = TRUE]
<1>1. /\ Rows(b) /\ BookRecord(b) /\ IsSeq(b.sources) /\ IsSeq(b.journals)
      /\ l \in Nat /\ DOMAIN b.sources = 1 .. l /\ Len(b.journals) \in Nat
      /\ DOMAIN b.journals = 1 .. Len(b.journals)
      /\ \A q \in DOMAIN b.sources : SourceRow(b, b.sources[q])
  BY SeqFact DEF Sound, Rows
<1>2. c = [b EXCEPT !.journals = b.journals \o R, !.sources = taken \o Q]
  BY DEF Reversed
<1>3. /\ IsSeq(js) /\ m \in Nat /\ DOMAIN js = 1 .. m /\ (\A i \in 1 .. m : js[i] \in JournalsOf(b, s))
      /\ \A i, k \in 1 .. m : js[i] = js[k] => i = k
      /\ \A j \in JournalsOf(b, s) : \E i \in 1 .. m : js[i] = j
  <2>1. JournalsOf(b, s) \subseteq 1 .. Len(b.journals)
    BY <1>1 DEF JournalsOf
  <2> QED BY <1>1, <2>1, SetToSeqFact, SeqFact
<1>4. IsSeq(R) /\ Len(R) = m /\ DOMAIN R = 1 .. m /\ IsSeq(Q) /\ Len(Q) = m /\ DOMAIN Q = 1 .. m
  <2>1. R = [i \in 1 .. m |-> R[i]] /\ Q = [i \in 1 .. m |-> Q[i]]
    OBVIOUS
  <2> HIDE DEF R, Q, m
  <2> QED BY <1>3, <2>1, FunctionSeq
<1>5. ASSUME NEW i \in 1 .. m
      PROVE  /\ R[i].lines = Opposite(b.journals[js[i]].lines) /\ js[i] \in DOMAIN b.journals
             /\ PricedAs(Q[i], b.sources[s]) /\ Q[i].link = 0
             /\ R[i].source = l + i /\ Q[i].of = s /\ R[i].reversalOf = js[i]
  <2> DEFINE date == ReversalDate(b, s, js[i], today).date
  <2>1. js[i] \in DOMAIN b.journals
    BY <1>3 DEF JournalsOf
  <2>2. R[i] = Reversal(b, s, js[i], i, today) /\ Q[i] = ReversalSource(b, s, js[i], today)
    OBVIOUS
  <2>3. /\ R[i].lines = Opposite(b.journals[js[i]].lines) /\ R[i].source = l + i
        /\ R[i].reversalOf = js[i]
    BY <2>2 DEF Reversal, Journal
  <2>4. Q[i] = [b.sources[s] EXCEPT !.of = s, !.date = date, !.link = 0, !.party = "none"]
    BY <2>2 DEF ReversalSource
  <2>5. SourceRow(b, b.sources[s])
    BY <1>1
  <2> HIDE DEF Q, R, js, date
  <2>6. PricedAs(Q[i], b.sources[s]) /\ Q[i].link = 0 /\ Q[i].of = s
    BY <2>4, <2>5 DEF PricedAs, SourceRow
  <2> QED BY <2>1, <2>3, <2>6
<1>6. AllFair(R)
  <2>1. \A i \in 1 .. m : Fair(R[i].lines)
    BY <1>5, FairOpposite, MoneyFact
  <2> QED BY <1>4, <2>1 DEF AllFair
<1>7. /\ IsSeq(taken) /\ Len(taken) = l /\ DOMAIN taken = 1 .. l
      /\ \A q \in 1 .. l : /\ PricedAs(taken[q], b.sources[q]) /\ taken[q].link = b.sources[q].link
                           /\ taken[q].party = b.sources[q].party /\ taken[q].of = b.sources[q].of
                           /\ taken[q].reversed <=> b.sources[q].reversed \/ q = s
  <2> DEFINE row == [b.sources[s] EXCEPT !.reversed = TRUE]
  <2>1. taken = [b.sources EXCEPT ![s] = row]
    OBVIOUS
  <2>2. SourceRow(b, b.sources[s])
    BY <1>1
  <2>3. /\ PricedAs(row, b.sources[s]) /\ row.link = b.sources[s].link
        /\ row.party = b.sources[s].party /\ row.of = b.sources[s].of /\ row.reversed
    BY <2>2 DEF PricedAs, SourceRow
  <2> HIDE DEF row, taken
  <2>4. /\ IsSeq(taken) /\ Len(taken) = l /\ DOMAIN taken = DOMAIN b.sources
        /\ taken[s] = row /\ \A q \in DOMAIN b.sources \ {s} : taken[q] = b.sources[q]
    BY <1>1, <2>1, ExceptFact
  <2> QED BY <1>1, <2>3, <2>4 DEF PricedAs
<1> HIDE DEF R, Q, taken, js, m
<1>8. /\ c.sources = taken \o Q /\ c.journals = b.journals \o R /\ c.allocs = b.allocs
      /\ c.counts = b.counts /\ c.members = b.members /\ c.capital = b.capital
  BY <1>1, <1>2 DEF BookRecord
<1>9. /\ DOMAIN c.sources = 1 .. l + m
      /\ \A q \in 1 .. l : c.sources[q] = taken[q]
      /\ \A i \in 1 .. m : c.sources[l + i] = Q[i]
  <2>1. /\ DOMAIN (taken \o Q) = 1 .. Len(taken) + Len(Q)
        /\ \A q \in 1 .. Len(taken) : (taken \o Q)[q] = taken[q]
        /\ \A i \in 1 .. Len(Q) : (taken \o Q)[Len(taken) + i] = Q[i]
    <3>1. IsSeq(taken) /\ IsSeq(Q)
      BY <1>4, <1>7
    <3> QED BY <3>1, ConcatFact
  <2> QED BY <1>4, <1>7, <1>8, <2>1
<1>10. ASSUME NEW q \in 1 .. l PROVE Priced(c.sources[q]) /\ Noted(c, c.sources[q])
  <2>1. PricedAs(c.sources[q], b.sources[q]) /\ Priced(b.sources[q]) /\ Noted(b, b.sources[q])
    BY <1>1, <1>7, <1>9, MoneyFact
  <2>2. c.sources[q].link = b.sources[q].link /\ c.sources[q].party = b.sources[q].party
    BY <1>7, <1>9
  <2>3. b.sources[q].link # 0 => b.sources[q].link \in 1 .. l
    <3>1. b.sources[q].link \in 0 .. l
      BY <1>1 DEF SourceRow
    <3> QED BY <1>1, <3>1
  <2>4. \A r \in 1 .. l : c.sources[r].type = b.sources[r].type
    BY <1>7, <1>9 DEF PricedAs
  <2>5. c.sources[q].type = b.sources[q].type
    BY <2>1 DEF PricedAs
  <2>6. Noted(c, c.sources[q])
    BY <1>7, <1>8, <1>9, <2>1, <2>2, <2>3, <2>4, <2>5 DEF Noted
  <2> QED BY <2>1, <2>6, PricedAlike
<1>11. ASSUME NEW i \in 1 .. m PROVE Priced(c.sources[l + i]) /\ Noted(c, c.sources[l + i])
  <2>1. c.sources[l + i] = Q[i]
    BY <1>9
  <2>2. Priced(Q[i])
    BY <1>5, MoneyFact, PricedAlike
  <2>3. Noted(c, Q[i])
    <3>1. s # 0
      BY <1>1
    <3> QED BY <1>5, <3>1 DEF Noted
  <2> QED BY <2>1, <2>2, <2>3
<1>12. ASSUME NEW q \in DOMAIN c.sources PROVE Priced(c.sources[q]) /\ Noted(c, c.sources[q])
  <2>1. CASE q \in 1 .. l
    BY <1>10, <2>1
  <2>2. CASE q \notin 1 .. l
    <3>1. q - l \in 1 .. m /\ q = l + (q - l)
      <4>1. q \in 1 .. l + m /\ q \notin 1 .. l
        BY <1>9, <2>2
      <4>2. l \in Nat /\ m \in Nat
        BY <1>1, <1>3
      <4> QED BY <4>1, <4>2
    <3>2. PICK i \in 1 .. m : q = l + i
      BY <3>1
    <3> QED BY <1>11, <3>2
  <2> QED BY <2>1, <2>2
<1>13. AllFair(b.journals)
  BY <1>1, MoneyFact DEF AllFair
<1>14. AllFair(c.journals)
  BY <1>6, <1>8, <1>13, AllFairFact
<1>15. Money(c)
  BY <1>8, <1>12, <1>14, MoneyFact, MoneyIs DEF AllFair
<1>16. ASSUME NEW q \in DOMAIN b.sources
       PROVE  q \in DOMAIN c.sources /\ c.sources[q].total = b.sources[q].total
  <2>1. q \in 1 .. l /\ q \in 1 .. l + m
    BY <1>1, <1>3
  <2> QED BY <1>7, <1>9, <2>1 DEF PricedAs
<1>17. TakesBack(b, c, s, js, m)
  <2>1. Renames(js, 1 .. m, JournalsOf(b, s))
    <3>1. js \in [1 .. m -> JournalsOf(b, s)]
      BY <1>3, SeqFunction
    <3> QED BY <1>3, <3>1 DEF Renames
  <2>2. /\ DOMAIN c.journals = 1 .. Len(b.journals) + m
        /\ \A i \in 1 .. Len(b.journals) : c.journals[i] = b.journals[i]
        /\ \A i \in 1 .. m : c.journals[Len(b.journals) + i] = R[i]
    BY <1>1, <1>4, <1>8, ConcatFact
  <2>3. Beginning(b, c)
    BY <1>1, <1>3, <2>2 DEF Beginning
  <2>4. \A q \in 1 .. l : /\ SameEffect(c.sources[q], b.sources[q]) /\ c.sources[q].of = b.sources[q].of
                          /\ c.sources[q].reversed <=> b.sources[q].reversed \/ q = s
    BY <1>7, <1>9 DEF PricedAs, SameEffect
  <2>5. \A i \in 1 .. m : /\ c.journals[Len(b.journals) + i].lines = Opposite(b.journals[js[i]].lines)
                          /\ c.journals[Len(b.journals) + i].source = l + i
                          /\ c.sources[l + i].of = s
    BY <1>5, <1>9, <2>2
  <2> QED BY <1>1, <1>3, <1>9, <2>1, <2>2, <2>3, <2>4, <2>5 DEF TakesBack
<1>18. ASSUME s \in Live(b, SourceTypes), Positioned(b) PROVE Positioned(c)
  <2>1. Summed(b) /\ Summed(c)
    <3>1. IsSeq(c.journals) /\ IsSeq(c.sources)
      BY <1>1, <1>4, <1>7, <1>8, ConcatFact
    <3> QED BY <1>1, <1>15, <3>1, SummedFact
  <2> QED BY <1>1, <1>17, <1>18, <2>1, PositionedReversed
<1>19. ASSUME s \in Live(b, SourceTypes) PROVE Enters(b, c)
  <2> DEFINE n == Len(b.journals)
  <2>1. /\ DOMAIN c.journals = 1 .. n + m
        /\ \A i \in 1 .. n : c.journals[i] = b.journals[i]
        /\ \A i \in 1 .. m : c.journals[n + i] = R[i]
    BY <1>1, <1>4, <1>8, ConcatFact
  <2>2. Beginning(b, c)
    BY <1>1, <1>3, <2>1 DEF Beginning
  <2>3. \A q \in DOMAIN b.sources : q \in DOMAIN c.sources /\ SameDocument(c.sources[q], b.sources[q])
    BY <1>1, <1>7, <1>9, <1>16 DEF PricedAs, SameDocument
  <2>4. s \in DOMAIN c.sources /\ c.sources[s].of = 0 /\ c.sources[s].type = b.sources[s].type /\ s # 0
    BY <1>1, <1>19, <2>3 DEF SameDocument, Live
  <2> HIDE DEF l, n
  <2>5. ASSUME NEW i \in 1 .. m
        PROVE  /\ c.journals[n + i] = R[i] /\ R[i].source = l + i /\ l + i \in 1 .. l + m
               /\ l + i \notin 1 .. l
               /\ Proper(c, n + i)
    <3>1. c.journals[n + i] = R[i] /\ R[i].source = l + i /\ l + i \in 1 .. l + m /\ l + i \notin 1 .. l
      BY <1>1, <1>3, <1>5, <2>1 DEF l
    <3>2. c.sources[l + i].of = s /\ c.sources[l + i].type = b.sources[s].type
      BY <1>5, <1>9 DEF PricedAs, l
    <3>3. R[i].reversalOf = js[i] /\ js[i] \in DOMAIN c.journals /\ c.journals[js[i]].source = s
      BY <1>3, <1>5, <2>2 DEF Beginning, JournalsOf
    <3>4. l + i \in DOMAIN c.sources
      BY <1>9, <3>1 DEF l
    <3> QED BY <2>4, <3>1, <3>2, <3>3, <3>4 DEF Proper
  <2>6. ASSUME NEW j \in New(b, c) PROVE j - n \in 1 .. m /\ j = n + (j - n)
    BY <1>1, <1>3, <2>1 DEF New, n
  <2>7. ASSUME NEW j \in New(b, c) PROVE Proper(c, j) /\ c.journals[j].source \notin DOMAIN b.sources
    <3>1. PICK i \in 1 .. m : j = n + i
      BY <2>6
    <3> QED BY <1>1, <2>5, <3>1 DEF l
  <2>8. Sole(c, New(b, c))
    <3>1. ASSUME NEW i \in New(b, c), NEW j \in New(b, c), c.journals[i].source = c.journals[j].source
          PROVE  i = j
      <4>1. PICK f \in 1 .. m : i = n + f
        BY <2>6
      <4>2. PICK g \in 1 .. m : j = n + g
        BY <2>6
      <4>3. l + f = l + g /\ l \in Nat
        BY <1>1, <2>5, <3>1, <4>1, <4>2 DEF l
      <4>4. f = g
        BY <4>3
      <4> QED BY <4>1, <4>2, <4>4
    <3> QED BY <3>1 DEF Sole
  <2> QED BY <1>8, <2>2, <2>3, <2>7, <2>8 DEF Enters
<1> QED BY <1>8, <1>15, <1>16, <1>18, <1>19

LEMMA MoneyReverse ==
  ASSUME NEW b, Sound(b), Money(b), NEW s \in Live(b, SourceTypes), NEW today \in Dates,
         NEW c, c = ReverseSource(b, s, today)
  PROVE  /\ Money(c) /\ Sound(c) /\ c.allocs = DropRows(b, s).allocs /\ c.allocs \subseteq b.allocs
         /\ \A q \in DOMAIN b.sources : q \in DOMAIN c.sources /\ c.sources[q].total = b.sources[q].total
         /\ Positioned(b) => Positioned(c)
         /\ Enters(b, c)
<1> DEFINE d == DropRows(b, s)
<1>1. c = Reversed(d, s, today)
  BY DEF ReverseSource, ReverseMoves
<1>2. BookRecord(b) /\ \A r \in b.allocs : AllocRow(b, r)
  BY DEF Sound, Rows
<1>3. d = b \/ \E rows : rows \subseteq b.allocs /\ d = [b EXCEPT !.allocs = rows]
  <2>1. b.allocs \ AdvanceRows(b, s) \subseteq b.allocs /\ {r \in b.allocs : r.receipt # s} \subseteq b.allocs
    OBVIOUS
  <2> QED BY <2>1 DEF DropRows
<1> HIDE DEF d
<1>4. /\ BookRecord(d) /\ d.allocs \subseteq b.allocs /\ d.sources = b.sources
      /\ d.members = b.members /\ d.capital = b.capital
      /\ d.journals = b.journals /\ d.periods = b.periods /\ d.counts = b.counts
  <2>1. ASSUME NEW rows, rows \subseteq b.allocs, d = [b EXCEPT !.allocs = rows]
        PROVE  /\ BookRecord(d) /\ d.allocs \subseteq b.allocs /\ d.sources = b.sources
               /\ d.members = b.members /\ d.capital = b.capital
               /\ d.journals = b.journals /\ d.periods = b.periods /\ d.counts = b.counts
    BY <1>2, <2>1 DEF BookRecord
  <2> QED BY <1>2, <1>3, <2>1
<1>5. Sound(d)
  <2>1. Beside(b, d)
    BY <1>2, <1>4 DEF Beside, Sound, Rows
  <2> QED BY <2>1, BesideFact
<1>6. Money(d)
  <2>1. Paying(d.allocs)
    BY <1>4, MoneyFact, PayingLess
  <2> QED BY <1>4, <2>1, MoneyFact, MoneyBeside
<1>7. s \in DOMAIN d.sources /\ s \in Live(d, SourceTypes)
  BY <1>4 DEF Live
<1>8. /\ Money(c) /\ c.allocs = d.allocs
      /\ \A q \in DOMAIN d.sources : q \in DOMAIN c.sources /\ c.sources[q].total = d.sources[q].total
      /\ (Positioned(d) => Positioned(c)) /\ Enters(d, c)
  BY <1>1, <1>5, <1>6, <1>7, MoneyReversed
<1>9. Sound(c)
  BY ReverseSourceFact
<1>10. Positioned(b) => Positioned(d)
  BY <1>4, PositionedSame
<1>11. Enters(b, c)
  BY <1>4, <1>8, EntersBeside
<1> QED BY <1>4, <1>8, <1>9, <1>10, <1>11 DEF d

-----------------------------------------------------------------------------
(* Allocations *)

LEMMA ImageFinite ==
  ASSUME NEW S, IsFiniteSet(S), NEW f, NEW T, T = {f[x] : x \in S} PROVE IsFiniteSet(T)
<1> DEFINE g == [x \in S |-> f[x]]
<1>1. g \in Surjection(S, T)
  BY DEF Surjection
<1> HIDE DEF g
<1> QED BY <1>1, FS_Surjection

LEMMA RowFact ==
  ASSUME NEW invoice, NEW receipt, NEW amount
  PROVE  /\ Row(invoice, receipt, amount).amount = amount
         /\ Row(invoice, receipt, amount).receipt = receipt
         /\ Row(invoice, receipt, amount).invoice = invoice
BY DEF Row

\* What an advance gives to an invoice: not more than is left of it.
LEMMA TakeFact ==
  ASSUME NEW b, Rows(b), Money(b), NEW doc, doc.total \in Nat, NEW r \in DOMAIN b.sources
  PROVE  Take(b, doc, r) \in Int /\ Take(b, doc, r) <= Remaining(b, r)
<1> DEFINE older == {a \in Advances(b, doc.party) : Older(b, a, r)}
<1>1. PICK m \in Int : m = Remaining(b, r)
  BY AdvancesInt
<1>2. PICK n \in Int : n = Applied(b, doc)
  BY SettledInt
<1>3. older \in SUBSET DOMAIN b.sources
  BY AdvancesInt
<1>4. PICK o \in Int : o = SumFunction([q \in older |-> Remaining(b, q)])
  <2> HIDE DEF older
  <2> QED BY <1>3, AdvancesInt
<1>5. Take(b, doc, r) = Min({m, n - o})
  BY <1>1, <1>2, <1>4 DEF Take
<1>6. PICK k \in Int : k = n - o
  OBVIOUS
<1>7. Min({m, k}) \in {m, k} /\ Min({m, k}) <= m
  BY MinFact
<1> QED BY <1>1, <1>5, <1>6, <1>7

LEMMA RowsPaying ==
  ASSUME NEW b, Rows(b), Money(b), NEW doc, doc.total \in Nat, NEW apply, Paying(apply)
  PROVE  Paying(RowsOf(b, doc, apply))
<1> DEFINE n == Len(b.sources) + 1
<1>1. CASE doc.type = "invoice"
  <2> DEFINE S == {q \in Advances(b, doc.party) : Take(b, doc, q) > 0}
             f == [r \in S |-> Row(n, r, Take(b, doc, r))]
             T == {f[r] : r \in S}
  <2>1. RowsOf(b, doc, apply) = T
    BY <1>1 DEF RowsOf
  <2>2. S \in SUBSET DOMAIN b.sources
    BY AdvancesInt
  <2>3. \A r \in S : f[r].amount \in Int
    BY <2>2, TakeFact, RowFact
  <2>4. IsFiniteSet(S) /\ T = {f[r] : r \in S}
    BY <2>2, RowSets
  <2> HIDE DEF S, f, T
  <2>5. IsFiniteSet(T)
    BY <2>4, ImageFinite
  <2> QED BY <2>1, <2>3, <2>4, <2>5 DEF Paying
<1>2. CASE doc.type = "receipt"
  <2> DEFINE f == [a \in apply |-> Row(a.invoice, n, a.amount)]
             T == {f[a] : a \in apply}
  <2>1. RowsOf(b, doc, apply) = T
    BY <1>2 DEF RowsOf
  <2>2. \A a \in apply : f[a].amount \in Int
    BY RowFact DEF Paying
  <2>3. IsFiniteSet(apply) /\ T = {f[a] : a \in apply}
    BY DEF Paying
  <2> HIDE DEF f, T
  <2>4. IsFiniteSet(T)
    BY <2>3, ImageFinite
  <2> QED BY <2>1, <2>2, <2>3, <2>4 DEF Paying
<1>3. CASE doc.type \notin {"invoice", "receipt"}
  <2>1. RowsOf(b, doc, apply) = {}
    BY <1>3 DEF RowsOf
  <2> QED BY <2>1, FS_EmptySet DEF Paying
<1> QED BY <1>1, <1>2, <1>3

LEMMA PayingBoth == ASSUME NEW S, NEW R, Paying(S), Paying(R) PROVE Paying(S \cup R)
BY FS_Union DEF Paying

LEMMA ApplicationsPaying ==
  ASSUME NEW b, Rows(b), NEW doc, doc.total \in Nat, NEW apply \in Applications(b, doc)
  PROVE  Paying(apply)
<1> DEFINE S == Invoices(b)
           N == 1 .. doc.total
           P == S \X N
           f == [p \in P |-> [invoice |-> p[1], amount |-> p[2]]]
           T == {f[p] : p \in P}
<1>1. IsFiniteSet(S) /\ IsFiniteSet(N)
  BY RowSets, IntervalFinite DEF Invoices
<1>2. IsFiniteSet(P)
  <2> HIDE DEF S, N
  <2> QED BY <1>1, FS_Product
<1>3. \A a \in [invoice : S, amount : N] : a \in T /\ a.amount \in Int
  <2> SUFFICES ASSUME NEW a \in [invoice : S, amount : N] PROVE a \in T /\ a.amount \in Int
    OBVIOUS
  <2>1. PICK p \in P : p = <<a.invoice, a.amount>>
    OBVIOUS
  <2>2. f[p] = a
    BY <2>1
  <2> QED BY <2>2
<1>4. apply = {} \/ apply \subseteq [invoice : S, amount : N]
  BY DEF Applications
<1>5. T = {f[p] : p \in P}
  OBVIOUS
<1> HIDE DEF S, N, P, f, T
<1>6. IsFiniteSet(T)
  BY <1>2, <1>5, ImageFinite
<1>7. apply \subseteq T /\ \A a \in apply : a.amount \in Int
  BY <1>3, <1>4
<1> QED BY <1>6, <1>7, FS_Subset DEF Paying

-----------------------------------------------------------------------------
(* Issuing a document keeps the amounts *)

LEMMA CogsFair == ASSUME NEW units \in Int PROVE Fair(CogsLines(units)) /\ Blank(CogsLines(units))
<1>1. PICK n \in Int : n = units * UnitCost
  BY UnitCostAssumption
<1>2. PICK m \in Int : m = -units * UnitCost /\ n + m = 0
  <2>1. -units * UnitCost = -(units * UnitCost)
    BY UnitCostAssumption
  <2> QED BY <1>1, <2>1
<1>3. CogsLines(units) = Lines(<<Line("COGS", "none", n), Line("INVENTORY", "none", m)>>)
  BY <1>1, <1>2 DEF CogsLines
<1>4. "COGS" \in Accounts /\ "INVENTORY" \in Accounts
  BY DEF Accounts, ExpenseAccounts
<1>5. /\ Charges(Line("COGS", "none", n), "COGS", n)
      /\ Charges(Line("INVENTORY", "none", m), "INVENTORY", m)
  BY <1>4, ChargesFact
<1> DEFINE s == <<Line("COGS", "none", n), Line("INVENTORY", "none", m)>>
<1>6. Listed(s) /\ Net(s, Accounts) = 0
  BY <1>2, <1>5, ListedTwo
<1> HIDE DEF s
<1>7. Fair(Lines(s))
  BY <1>6, ListedLines
<1>8. Blank(Lines(s))
  <2>1. Blank(s)
    BY <1>1, <1>2, BlankFact DEF s
  <2> QED BY <2>1, BlankFact
<1> QED BY <1>3, <1>7, <1>8 DEF s

\* What the stock of a document adds to the journals.
Stocking(b, c, doc) ==
  \E ks : /\ c.journals = b.journals \o ks /\ Posting(ks, Len(b.sources), doc)
          /\ doc.type \in MemberMoves => ks = <<>>

LEMMA MoneyStocked ==
  ASSUME NEW b, BookRecord(b), IsSeq(b.journals), IsSeq(b.sources), Money(b), NEW doc, doc.units \in Int, NEW p,
         NEW c, c = Stocked(b, doc, p)
  PROVE  /\ Money(c) /\ c.sources = b.sources /\ c.allocs = b.allocs /\ c.periods = b.periods
         /\ c.members = b.members /\ c.capital = b.capital
         /\ Positioned(b) => Positioned(c)
         /\ Stocking(b, c, doc)
<1> DEFINE s == Len(b.sources)
           lines == CogsLines(doc.units)
           js == IF lines = <<>> THEN <<>> ELSE <<Journal(p, s, doc.date, lines)>>
           moved == Moved(b, s, "sale", doc.units, -doc.units)
<1>1. ASSUME NEW kind, NEW units, NEW delta, NEW d, d = Moved(b, s, kind, units, delta)
      PROVE  /\ Money(d) /\ BookRecord(d) /\ IsSeq(d.journals)
             /\ d.sources = b.sources /\ d.allocs = b.allocs /\ d.periods = b.periods
             /\ d.members = b.members /\ d.capital = b.capital /\ d.journals = b.journals
             /\ Positioned(b) => Positioned(d)
  <2>1. d = [b EXCEPT !.qty = @ + delta, !.moves = @ \cup {Move(s, kind, units)}]
    BY <1>1 DEF Moved
  <2>2. /\ d.sources = b.sources /\ d.periods = b.periods /\ d.journals = b.journals
        /\ d.allocs = b.allocs /\ d.counts = b.counts /\ d.members = b.members /\ BookRecord(d)
        /\ d.capital = b.capital
    BY <2>1 DEF BookRecord
  <2>3. Money(d)
    BY <2>2, MoneyFact, MoneyBeside
  <2>4. Positioned(b) => Positioned(d)
    BY <2>2, PositionedSame
  <2> QED BY <2>2, <2>3, <2>4
<1>2. AllFair(js) /\ AllBlank(js)
  <2>1. Fair(lines) /\ Blank(lines)
    BY CogsFair
  <2> HIDE DEF lines, s
  <2> QED BY <2>1, AllFairFact, AllBlankFact
<1>9. ASSUME doc.type \in {"cash_sale", "invoice"} PROVE Posting(js, s, doc)
  <2>1. \A a \in Titles : Net(lines, {a}) = 0 /\ Title(doc, a) = 0
    BY <1>9, CogsAvoids DEF Title
  <2> HIDE DEF lines, s
  <2> QED BY <2>1, PostingFact
<1>3. \/ c = b \/ (c = Write(moved, js) /\ doc.type \in {"cash_sale", "invoice"})
      \/ c = Moved(b, s, "purchase", doc.units, doc.units)
      \/ c = Moved(b, s, "adjust", doc.units, doc.units)
  <2>1. c = CASE ~b.perpetual \/ doc.units = 0 -> b
              [] doc.type \in {"cash_sale", "invoice"} -> Write(moved, js)
              [] doc.type \in Purchases -> Moved(b, s, "purchase", doc.units, doc.units)
              [] OTHER -> Moved(b, s, "adjust", doc.units, doc.units)
    BY DEF Stocked
  <2> HIDE DEF moved, js, lines, s
  <2> QED BY <2>1
<1>4. /\ Money(moved) /\ BookRecord(moved) /\ IsSeq(moved.journals)
      /\ moved.sources = b.sources /\ moved.allocs = b.allocs /\ moved.periods = b.periods
      /\ Positioned(b) => Positioned(moved)
  BY <1>1
<1>10. moved.members = b.members /\ moved.capital = b.capital /\ moved.journals = b.journals
  BY <1>1
<1> HIDE DEF moved, js
<1>5. ASSUME c = Write(moved, js)
      PROVE  /\ Money(c) /\ c.sources = moved.sources /\ c.allocs = moved.allocs
             /\ c.periods = moved.periods /\ c.members = moved.members /\ c.capital = moved.capital
             /\ c.journals = moved.journals \o js
             /\ Positioned(moved) => Positioned(c)
  <2>1. /\ Money(c) /\ c.sources = moved.sources /\ c.allocs = moved.allocs
        /\ c.periods = moved.periods /\ c.journals = moved.journals \o js
        /\ c.members = moved.members /\ c.capital = moved.capital
    BY <1>2, <1>4, <1>5, MoneyWrite
  <2>2. Summed(moved)
    BY <1>4, SummedFact
  <2>3. IsSeq(js)
    BY <1>2 DEF AllFair
  <2> QED BY <1>2, <2>1, <2>2, <2>3, PositionedWrite
<1>6. b.journals \o <<>> = b.journals
  <2>1. IsSeq(<<>>)
    BY OneFact
  <2> QED BY <2>1, JoinedTwice
<1>7. /\ Money(c) /\ c.sources = b.sources /\ c.allocs = b.allocs /\ c.periods = b.periods
      /\ c.members = b.members /\ c.capital = b.capital /\ (Positioned(b) => Positioned(c))
  BY <1>1, <1>3, <1>4, <1>5, <1>10
<1>8. \E ks : /\ c.journals = b.journals \o ks /\ Posting(ks, s, doc)
              /\ doc.type \in MemberMoves => ks = <<>>
  <2>1. CASE c.journals = b.journals
    <3>1. c.journals = b.journals \o <<>> /\ Posting(<<>>, s, doc)
      BY <1>6, <2>1, PostingFact
    <3> QED BY <3>1
  <2>2. CASE c = Write(moved, js) /\ doc.type \in {"cash_sale", "invoice"}
    <3>1. c.journals = b.journals \o js
      BY <1>5, <1>10, <2>2
    <3>2. doc.type \notin MemberMoves
      BY <2>2 DEF MemberMoves
    <3> QED BY <1>9, <2>2, <3>1, <3>2
  <2> QED BY <1>1, <1>3, <2>1, <2>2
<1>11. Stocking(b, c, doc)
  BY <1>8 DEF Stocking
<1> HIDE DEF s
<1> QED BY <1>7, <1>11

\* A document that is entered, of amounts and accounts that are known.
Payable(b, doc) == Issuable(b, doc) /\ Priced(doc) /\ Noted(b, doc)

LEMMA MoneyIssued ==
  ASSUME NEW b, Sound(b), Money(b), NEW doc, Payable(b, doc), NEW p,
         NEW apply, Paying(apply), Fair(LinesOf(b, doc, apply)),
         NEW c, c = Issued(b, doc, apply, p)
  PROVE  /\ Money(c) /\ c.sources = Append(b.sources, doc) /\ c.periods = b.periods
         /\ c.allocs = b.allocs \cup RowsOf(b, doc, apply)
         /\ Positioned(b) => Positioned(c)
         /\ Enters(b, c)
<1> DEFINE d == WithSource(b, doc)
           lines == LinesOf(b, doc, apply)
           posted == PostSource(b, doc, p, lines)
           written == Written(b, doc, apply, p)
           js == <<Journal(p, Len(b.sources) + 1, doc.date, lines)>>
<1>1. SourceRow(b, doc) /\ (doc.type = "opening_balance" => doc.of # 0 \/ Opening(b) = {})
      /\ Priced(doc) /\ Noted(b, doc)
  BY DEF Payable, Issuable
<1>2. Sound(d) /\ Money(d)
  <2>1. d = WithSource(b, doc)
    OBVIOUS
  <2> HIDE DEF d
  <2>2. Sound(d)
    BY <1>1, <2>1, AddedSource
  <2>3. Money(d)
    BY <1>1, <2>1, MoneySource
  <2> QED BY <2>2, <2>3
<1>3. BookRecord(d) /\ IsSeq(d.journals)
  BY <1>2 DEF Sound, Rows
<1>4. posted = Write(d, js)
  BY DEF PostSource, WithSource
<1>5. written = [posted EXCEPT !.allocs = posted.allocs \cup RowsOf(b, doc, apply)]
  BY DEF Written
<1>6. c = Stocked(written, doc, p)
  BY DEF Issued
<1>13. /\ d.sources = Append(b.sources, doc) /\ d.allocs = b.allocs /\ d.periods = b.periods
       /\ d.journals = b.journals /\ d.members = b.members /\ d.capital = b.capital
  BY DEF WithSource, Sound, Rows, BookRecord
<1> HIDE DEF d, posted, written, lines
<1>7. AllFair(js)
  <2>1. Fair(lines)
    BY DEF lines
  <2> QED BY <2>1, AllFairFact
<1>15. ASSUME NEW q, q.journals = b.journals \o js, q.sources = Append(b.sources, doc), Positioned(b)
       PROVE  Positioned(q)
  <2> DEFINE j == Journal(p, Len(b.sources) + 1, doc.date, lines)
  <2>1. j.source = Len(b.sources) + 1 /\ j.lines = lines
    BY DEF Journal
  <2>2. doc.type \in SourceTypes /\ doc.of = 0 /\ ~doc.reversed /\ doc.total \in Int /\ Priced(doc)
    BY <1>1 DEF Payable, Issuable, SourceRow, Priced
  <2>3. Rows(b) /\ Summed(b)
    BY SummedFact DEF Sound, Rows
  <2>4. LineSeq(lines) /\ \A r \in Parties : Owing(lines, r) = Effect(doc, r)
    BY <2>2, <2>3, DocumentOwes DEF Fair, Listed, lines
  <2> HIDE DEF j
  <2>5. q.journals = b.journals \o <<j>>
    BY <1>15 DEF j, js
  <2> QED BY <1>15, <2>1, <2>2, <2>3, <2>4, <2>5, PositionedPosted
<1> HIDE DEF js
<1>8. /\ Money(posted) /\ BookRecord(posted) /\ IsSeq(posted.journals)
      /\ posted.sources = d.sources /\ posted.allocs = d.allocs /\ posted.periods = d.periods
      /\ posted.journals = d.journals \o js
      /\ posted.members = d.members /\ posted.capital = d.capital
  BY <1>2, <1>3, <1>4, <1>7, MoneyWrite
<1>9. /\ written.allocs = posted.allocs \cup RowsOf(b, doc, apply)
      /\ written.sources = posted.sources /\ written.journals = posted.journals
      /\ written.periods = posted.periods
      /\ written.counts = posted.counts /\ written.members = posted.members /\ BookRecord(written)
      /\ written.capital = posted.capital
  BY <1>5, <1>8 DEF BookRecord
<1>10. Paying(written.allocs)
  <2>1. Rows(b) /\ doc.total \in Nat
    BY <1>1 DEF Sound, Priced
  <2>2. Paying(RowsOf(b, doc, apply))
    BY <2>1, RowsPaying
  <2>3. Paying(posted.allocs)
    BY <1>8, MoneyFact
  <2> QED BY <1>9, <2>2, <2>3, PayingBoth
<1>11. Money(written)
  BY <1>8, <1>9, <1>10, MoneyFact, MoneyBeside
<1>12. IsSeq(written.journals) /\ doc.units \in Int /\ IsSeq(written.sources)
  <2>1. IsSeq(d.sources)
    BY <1>2 DEF Sound, Rows
  <2> QED BY <1>1, <1>8, <1>9, <2>1 DEF Priced
<1>14. /\ Money(c) /\ c.sources = written.sources /\ c.allocs = written.allocs
       /\ c.periods = written.periods /\ (Positioned(written) => Positioned(c))
  BY <1>6, <1>9, <1>11, <1>12, MoneyStocked
<1>19. /\ c.members = written.members /\ c.capital = written.capital
       /\ Stocking(written, c, doc)
  BY <1>6, <1>9, <1>11, <1>12, MoneyStocked
<1>17. c.members = b.members /\ c.capital = b.capital
  BY <1>8, <1>9, <1>13, <1>19
<1>18. Enters(b, c)
  <2> DEFINE n == Len(b.sources) + 1
  <2>1. PICK ks : /\ c.journals = written.journals \o ks /\ Posting(ks, Len(written.sources), doc)
                  /\ doc.type \in MemberMoves => ks = <<>>
    BY <1>19 DEF Stocking
  <2>2. Len(written.sources) = n
    <3>1. IsSeq(b.sources)
      BY DEF Sound, Rows
    <3> QED BY <1>8, <1>9, <1>13, <3>1, AppendFact
  <2>3. doc.of = 0 /\ doc.type \in SourceTypes /\ Priced(doc) /\ Rows(b)
    BY <1>1 DEF Payable, Issuable, SourceRow, Sound
  <2>4. ASSUME NEW a \in Titles PROVE Net(lines, {a}) = Title(doc, a)
    <3>1. Net(LinesOf(b, doc, apply), {a}) = Title(doc, a)
      BY <2>3, DocumentTitles
    <3> QED BY <3>1 DEF lines
  <2>5. Posting(js, n, doc)
    BY <2>4, PostingFact DEF js
  <2>6. Posting(ks, n, doc)
    BY <2>1, <2>2
  <2>7. c.journals = b.journals \o (js \o ks)
    <3>1. IsSeq(b.journals) /\ IsSeq(js) /\ IsSeq(ks)
      BY <2>5, <2>6 DEF Sound, Rows, Posting
    <3>2. c.journals = (b.journals \o js) \o ks
      BY <1>8, <1>9, <1>13, <2>1
    <3> HIDE DEF js
    <3>3. PICK bs, cs : bs = b.journals /\ cs = c.journals
      OBVIOUS
    <3>4. IsSeq(bs) /\ IsSeq(js) /\ IsSeq(ks) /\ cs = (bs \o js) \o ks
      BY <3>1, <3>2, <3>3
    <3>5. PICK r : r = js \o ks
      OBVIOUS
    <3>6. cs = bs \o r
      BY <3>4, <3>5, JoinedLater
    <3> QED BY <3>3, <3>5, <3>6
  <2>8. Posting(js \o ks, n, doc)
    BY <2>5, <2>6, PostingFact
  <2>9. doc.type \in MemberMoves => Len(js \o ks) <= 1
    <3>1. IsSeq(js)
      BY <2>5 DEF Posting
    <3>2. Len(js) = 1
      BY OneFact DEF js
    <3> HIDE DEF js
    <3>3. js \o <<>> = js
      BY <3>1, JoinedTwice, OneFact
    <3>4. ASSUME doc.type \in MemberMoves PROVE js \o ks = js
      BY <2>1, <3>3, <3>4
    <3> QED BY <3>2, <3>4
  <2>10. c.sources = Append(b.sources, doc)
    BY <1>8, <1>9, <1>13, <1>14
  <2> HIDE DEF js
  <2> QED BY <1>17, <2>3, <2>7, <2>8, <2>9, <2>10, EntersPosted
<1>16. Positioned(b) => Positioned(written)
  BY <1>8, <1>9, <1>13, <1>15
<1> QED BY <1>8, <1>9, <1>13, <1>14, <1>16, <1>18

\* A document is of the same lines in every state of the periods.
LEMMA LinesAlike ==
  ASSUME NEW b, NEW c, c.sources = b.sources, c.journals = b.journals, c.allocs = b.allocs,
         NEW doc, NEW apply
  PROVE  LinesOf(c, doc, apply) = LinesOf(b, doc, apply)
<1>1. \A r : Consumed(c, r) = Consumed(b, r) /\ Remaining(c, r) = Remaining(b, r)
  BY DEF Consumed, Remaining
<1>2. \A types : Live(c, types) = Live(b, types)
  BY DEF Live
<1>3. \A party : Advances(c, party) = Advances(b, party)
  BY <1>1, <1>2 DEF Advances
<1>4. AdvanceBalance(c, doc.party) = AdvanceBalance(b, doc.party)
  BY <1>1, <1>3 DEF AdvanceBalance
<1>5. Applied(c, doc) = Applied(b, doc)
  BY <1>4 DEF Applied
<1>6. InvoiceLines(c, doc) = InvoiceLines(b, doc)
  BY <1>5 DEF InvoiceLines
<1>7. \A account, party : PartyBalance(c, account, party) = PartyBalance(b, account, party)
  BY DEF PartyBalance
<1>8. PurchaseLines(c, doc) = PurchaseLines(b, doc)
  BY <1>7 DEF PurchaseLines, AdvanceApplied
<1>9. PaymentLines(c, doc) = PaymentLines(b, doc)
  BY <1>7 DEF PaymentLines, ToPayable
<1> QED BY <1>6, <1>8, <1>9 DEF LinesOf

-----------------------------------------------------------------------------
(* What rows of the allocation table come to *)

Amounts(S) == [a \in S |-> a.amount]

\* Rows of some amount.
Gives(S) == Paying(S) /\ \A a \in S : a.amount >= 0

LEMMA AmountsFact ==
  ASSUME NEW S, Paying(S)
  PROVE  /\ AppliedTotal(S) = SumFunction(Amounts(S)) /\ Summable(Amounts(S), S)
         /\ AppliedTotal(S) \in Int
<1>1. AppliedTotal(S) = SumFunction(Amounts(S))
  BY DEF AppliedTotal, Amounts
<1>2. Summable(Amounts(S), S)
  BY DEF Paying, Amounts, Summable
<1> QED BY <1>1, <1>2, SummableFact

LEMMA TotalNone == AppliedTotal({}) = 0
<1>1. Amounts({}) \in [{} -> Int]
  BY DEF Amounts
<1>2. SumFunction(Amounts({})) = 0
  BY <1>1, SumNone
<1>3. Paying({})
  BY FS_EmptySet DEF Paying
<1> QED BY <1>2, <1>3, AmountsFact

LEMMA TotalOne == ASSUME NEW a, a.amount \in Int PROVE AppliedTotal({a}) = a.amount
<1>1. Paying({a})
  BY FS_Singleton DEF Paying
<1>2. AppliedTotal({a}) = SumFunction(Amounts({a})) /\ Summable(Amounts({a}), {a})
  BY <1>1, AmountsFact
<1>3. SumFunction(Amounts({a})) = Amounts({a})[a]
  <2> DEFINE S == {a}
             f == Amounts(S)
  <2>1. IsFiniteSet(S) /\ f \in [S -> Int] /\ a \in S /\ \A x \in S \ {a} : f[x] = 0
    BY <1>2 DEF Summable
  <2> HIDE DEF S, f
  <2>2. SumFunction(f) = f[a]
    BY <2>1, SumOnly
  <2> QED BY <2>2 DEF S, f
<1>4. Amounts({a})[a] = a.amount
  BY DEF Amounts
<1> QED BY <1>2, <1>3, <1>4

LEMMA TotalApart ==
  ASSUME NEW R, NEW S, Paying(R), Paying(S), R \cap S = {}
  PROVE  AppliedTotal(R \cup S) = AppliedTotal(R) + AppliedTotal(S)
<1> DEFINE T == R \cup S
<1>1. Paying(T)
  BY PayingBoth
<1>2. Summable(Amounts(T), T) /\ Summable(Amounts(R), R) /\ Summable(Amounts(S), S)
  BY <1>1, AmountsFact
<1>3. Alike(Amounts(T), Amounts(R), R) /\ Alike(Amounts(T), Amounts(S), S)
  BY DEF Alike, Amounts
<1>4. SumFunction(Amounts(T)) = SumFunction(Amounts(R)) + SumFunction(Amounts(S))
  <2>1. T = R \cup S
    OBVIOUS
  <2> HIDE DEF T
  <2> QED BY <1>2, <1>3, <2>1, SumSplit
<1> QED BY <1>1, <1>4, AmountsFact

LEMMA TotalSome == ASSUME NEW S, Gives(S) PROVE AppliedTotal(S) >= 0
<1> DEFINE f == [a \in S |-> 0]
           g == Amounts(S)
<1>1. IsFiniteSet(S) /\ f \in [S -> Int] /\ g \in [S -> Int] /\ \A a \in S : f[a] = 0 /\ f[a] <= g[a]
  BY DEF Gives, Paying, Amounts
<1>2. AppliedTotal(S) = SumFunction(g)
  BY AmountsFact DEF Gives
<1> HIDE DEF f, g
<1>3. SumFunction(f) = 0 /\ SumFunction(f) <= SumFunction(g)
  BY <1>1, SumZero, SumAtMost
<1>4. SumFunction(g) \in Int
  BY <1>1, SumInt
<1> QED BY <1>2, <1>3, <1>4

LEMMA TotalLess ==
  ASSUME NEW S, Gives(S), NEW R \in SUBSET S
  PROVE  AppliedTotal(R) <= AppliedTotal(S)
<1> DEFINE T == S \ R
<1>1. Paying(R) /\ Gives(T) /\ Paying(T)
  BY PayingLess DEF Gives
<1>2. S = R \cup T /\ R \cap T = {}
  OBVIOUS
<1> HIDE DEF T
<1>3. AppliedTotal(S) = AppliedTotal(R) + AppliedTotal(T)
  BY <1>1, <1>2, TotalApart
<1>4. AppliedTotal(T) >= 0 /\ AppliedTotal(T) \in Int /\ AppliedTotal(R) \in Int
  BY <1>1, TotalSome, AmountsFact
<1> QED BY <1>3, <1>4

LEMMA TotalBoth ==
  ASSUME NEW R, NEW S, Gives(R), Gives(S)
  PROVE  AppliedTotal(R \cup S) <= AppliedTotal(R) + AppliedTotal(S)
<1> DEFINE T == S \ R
<1>1. Paying(R) /\ Paying(S) /\ Paying(T)
  BY PayingLess DEF Gives
<1>2. R \cup T = R \cup S /\ R \cap T = {} /\ T \in SUBSET S
  OBVIOUS
<1> HIDE DEF T
<1>3. PICK U : U = R \cup S
  OBVIOUS
<1>4. AppliedTotal(R \cup T) = AppliedTotal(U) /\ AppliedTotal(R \cup S) = AppliedTotal(U)
  BY <1>2, <1>3
<1>5. AppliedTotal(R \cup T) = AppliedTotal(R) + AppliedTotal(T)
  BY <1>1, <1>2, TotalApart
<1>6. AppliedTotal(T) <= AppliedTotal(S)
  BY <1>2, TotalLess
<1>7. AppliedTotal(R) \in Int /\ AppliedTotal(S) \in Int /\ AppliedTotal(T) \in Int
  BY <1>1, AmountsFact
<1> QED BY <1>4, <1>5, <1>6, <1>7

\* Rows made of others, one of each and of the same amount.
Copies(f, S, T) ==
  /\ T = {f[a] : a \in S} /\ \A a \in S : f[a].amount = a.amount
  /\ \A a, c \in S : f[a] = f[c] => a = c

LEMMA TotalCopies ==
  ASSUME NEW S, Paying(S), NEW f, NEW T, Copies(f, S, T)
  PROVE  Paying(T) /\ AppliedTotal(T) = AppliedTotal(S)
<1> DEFINE p == [a \in S |-> f[a]]
<1>1. Paying(T)
  <2>1. IsFiniteSet(T)
    <3>1. IsFiniteSet(S) /\ T = {f[a] : a \in S}
      BY DEF Paying, Copies
    <3> QED BY <3>1, ImageFinite
  <2> QED BY <2>1 DEF Paying, Copies
<1>2. Renames(p, S, T)
  BY DEF Renames, Copies
<1>3. \A a \in S : p[a] \in T /\ p[a].amount = a.amount
  BY DEF Copies
<1>4. After(Amounts(S), Amounts(T), p, S)
  <2> HIDE DEF p
  <2> QED BY <1>3 DEF After, Amounts
<1>5. Summable(Amounts(S), S) /\ Summable(Amounts(T), T)
  BY <1>1, AmountsFact
<1> HIDE DEF p
<1>6. SumFunction(Amounts(S)) = SumFunction(Amounts(T))
  BY <1>2, <1>4, <1>5, SumRenamed
<1> QED BY <1>1, <1>6, AmountsFact

-----------------------------------------------------------------------------
(* What receipts give *)

From(rows, s) == {a \in rows : a.receipt = s}

\* Receipts are allocated within their totals.
Funded(b) == \A s \in DOMAIN b.sources : Consumed(b, s) <= b.sources[s].total

LEMMA ConsumedIs == ASSUME NEW b, NEW s PROVE Consumed(b, s) = AppliedTotal(From(b.allocs, s))
BY DEF Consumed, AppliedTotal, From

LEMMA FromGives == ASSUME NEW S, Gives(S), NEW s PROVE Gives(From(S, s))
<1>1. From(S, s) \in SUBSET S
  BY DEF From
<1> QED BY <1>1, PayingLess DEF Gives

LEMMA FundFact ==
  ASSUME NEW b, Sound(b), Money(b)
  PROVE  /\ Gives(b.allocs)
         /\ \A s : /\ Consumed(b, s) = AppliedTotal(From(b.allocs, s)) /\ Consumed(b, s) \in Int
                   /\ s \notin DOMAIN b.sources => From(b.allocs, s) = {}
         /\ \A s \in DOMAIN b.sources : b.sources[s].total \in Nat
<1>1. \A r \in b.allocs : AllocRow(b, r)
  BY DEF Sound, Rows
<1>2. Gives(b.allocs)
  <2>1. Paying(b.allocs)
    BY MoneyFact
  <2> QED BY <1>1, <2>1 DEF Gives, Paying, AllocRow
<1>3. ASSUME NEW s PROVE Consumed(b, s) = AppliedTotal(From(b.allocs, s)) /\ Consumed(b, s) \in Int
  <2>1. Gives(From(b.allocs, s))
    BY <1>2, FromGives
  <2> QED BY <2>1, ConsumedIs, AmountsFact DEF Gives
<1>4. ASSUME NEW s, s \notin DOMAIN b.sources PROVE From(b.allocs, s) = {}
  BY <1>1, <1>4 DEF From, AllocRow, Live
<1>5. \A s \in DOMAIN b.sources : b.sources[s].total \in Nat
  BY MoneyFact DEF Priced
<1> QED BY <1>2, <1>3, <1>4, <1>5

\* Every row of a book is a row of another, of the same total.
Extends(b, c) ==
  \A q \in DOMAIN b.sources : q \in DOMAIN c.sources /\ c.sources[q].total = b.sources[q].total

LEMMA FundedLess ==
  ASSUME NEW b, Sound(b), Money(b), Funded(b), NEW c, Sound(c), Money(c),
         c.allocs \subseteq b.allocs, Extends(b, c)
  PROVE  Funded(c)
<1> SUFFICES ASSUME NEW s \in DOMAIN c.sources PROVE Consumed(c, s) <= c.sources[s].total
  BY DEF Funded
<1>1. Consumed(c, s) = AppliedTotal(From(c.allocs, s)) /\ c.sources[s].total \in Nat /\ Consumed(c, s) \in Int
  BY FundFact
<1>2. From(c.allocs, s) \subseteq From(b.allocs, s)
  BY DEF From
<1>3. Gives(From(b.allocs, s))
  BY FundFact, FromGives
<1>4. Consumed(c, s) <= Consumed(b, s) /\ Consumed(b, s) \in Int
  BY <1>1, <1>2, <1>3, FundFact, TotalLess
<1>5. CASE s \in DOMAIN b.sources
  <2>1. c.sources[s].total = b.sources[s].total /\ Consumed(b, s) <= b.sources[s].total
    BY <1>5 DEF Extends, Funded
  <2> QED BY <1>1, <1>4, <2>1
<1>6. CASE s \notin DOMAIN b.sources
  <2>1. Consumed(b, s) = 0
    BY <1>6, FundFact, TotalNone
  <2> QED BY <1>1, <1>4, <2>1
<1> QED BY <1>5, <1>6

LEMMA FundedMore ==
  ASSUME NEW b, Sound(b), Money(b), Funded(b), NEW c, Extends(b, c),
         NEW R, Gives(R), c.allocs = b.allocs \cup R,
         \A s \in DOMAIN b.sources : AppliedTotal(From(R, s)) <= Remaining(b, s),
         \A s \in DOMAIN c.sources \ DOMAIN b.sources : AppliedTotal(From(R, s)) <= c.sources[s].total,
         \A s \in DOMAIN c.sources : c.sources[s].total \in Nat
  PROVE  Funded(c)
<1> SUFFICES ASSUME NEW s \in DOMAIN c.sources PROVE Consumed(c, s) <= c.sources[s].total
  BY DEF Funded
<1> DEFINE old == From(b.allocs, s)
           new == From(R, s)
<1>1. Gives(old) /\ Gives(new)
  BY FundFact, FromGives
<1>2. From(c.allocs, s) = old \cup new
  BY DEF From
<1>3. Consumed(b, s) = AppliedTotal(old) /\ Consumed(c, s) = AppliedTotal(old \cup new)
  BY <1>2, ConsumedIs
<1> HIDE DEF old
<1>4. Consumed(c, s) <= Consumed(b, s) + AppliedTotal(new)
  <2> HIDE DEF new
  <2> QED BY <1>1, <1>3, TotalBoth
<1>5. Paying(old \cup new)
  BY <1>1, PayingBoth DEF Gives
<1>6. AppliedTotal(new) \in Int /\ AppliedTotal(old) \in Int /\ AppliedTotal(old \cup new) \in Int
  BY <1>1, <1>5, AmountsFact DEF Gives
<1>7. c.sources[s].total \in Nat
  OBVIOUS
<1>8. CASE s \in DOMAIN b.sources
  <2>1. c.sources[s].total = b.sources[s].total
    BY <1>8 DEF Extends
  <2>2. AppliedTotal(new) <= b.sources[s].total - Consumed(b, s)
    BY <1>8 DEF Remaining
  <2> HIDE DEF new
  <2> QED BY <1>3, <1>4, <1>6, <1>7, <2>1, <2>2
<1>9. CASE s \notin DOMAIN b.sources
  <2>1. Consumed(b, s) = 0
    <3>1. From(b.allocs, s) = {}
      BY <1>9, FundFact
    <3> QED BY <3>1, ConsumedIs, TotalNone
  <2>2. AppliedTotal(new) <= c.sources[s].total
    BY <1>9
  <2> HIDE DEF new
  <2> QED BY <1>3, <1>4, <1>6, <1>7, <2>1, <2>2
<1> QED BY <1>8, <1>9

\* The amounts are kept, what is closed is what was, and receipts stay within
\* their totals.
Carries(b, c) ==
  Money(c) /\ Frozen(c) = Frozen(b) /\ Enters(b, c)
    /\ (Funded(b) => Funded(c)) /\ (Positioned(b) => Positioned(c))

LEMMA CarriesTwice == ASSUME NEW b, NEW c, NEW d, Carries(b, c), Carries(c, d) PROVE Carries(b, d)
BY EntersTwice DEF Carries

\* A change of neither the receipts nor the allocations.
LEMMA CarriesSame ==
  ASSUME NEW b, NEW c, c.sources = b.sources, c.allocs = b.allocs
  PROVE  Funded(b) => Funded(c)
<1>1. \A s : Consumed(c, s) = Consumed(b, s)
  BY DEF Consumed
<1> QED BY <1>1 DEF Funded

LEMMA FrozenSame == ASSUME NEW b, NEW c, c.periods = b.periods PROVE Frozen(c) = Frozen(b)
BY DEF Frozen, OpenPeriods

\* ... nor of the documents and what is posted.
LEMMA CarriesBeside ==
  ASSUME NEW b, NEW c, Money(c), Frozen(c) = Frozen(b), c.members = b.members, c.capital = b.capital,
         c.sources = b.sources, c.journals = b.journals, Funded(b) => Funded(c)
  PROVE  Carries(b, c)
BY EntersSame, PositionedSame DEF Carries

LEMMA CarriesInContext ==
  ASSUME NEW b, Sound(b), Money(b), NEW d \in Dates, HasContext(b, d)
  PROVE  Carries(b, InContext(b, d))
<1> DEFINE c == InContext(b, d)
<1>1. DOMAIN c.periods = DOMAIN b.periods /\ OpenPeriods(c) = OpenPeriods(b)
  BY InContextFact
<1>2. /\ c.sources = b.sources /\ c.allocs = b.allocs /\ Money(c) /\ c.journals = b.journals
      /\ c.members = b.members /\ c.capital = b.capital
  BY MoneyInContext
<1> HIDE DEF c
<1>3. Carries(b, c)
  BY <1>1, <1>2, CarriesSame, CarriesBeside DEF Frozen
<1> QED BY <1>3 DEF c

LEMMA CarriesReverse ==
  ASSUME NEW b, Sound(b), Money(b), NEW s \in Live(b, SourceTypes), NEW today \in Dates,
         NEW c, c = ReverseSource(b, s, today)
  PROVE  Carries(b, c)
<1>1. /\ Money(c) /\ Sound(c) /\ c.allocs \subseteq b.allocs /\ Extends(b, c)
      /\ (Positioned(b) => Positioned(c)) /\ Enters(b, c)
  BY MoneyReverse DEF Extends
<1>2. c.periods = b.periods
  BY ReverseSourceFact
<1> QED BY <1>1, <1>2, FundedLess, FrozenSame DEF Carries

\* What a receipt is applied with: an invoice and an amount.
Slips(apply) == \A a \in apply : a = [invoice |-> a.invoice, amount |-> a.amount]

\* A receipt is applied within its total.
Covered(doc, apply) == doc.type = "receipt" => Slips(apply) /\ AppliedTotal(apply) <= doc.total

LEMMA InvoiceRows ==
  ASSUME NEW b, Sound(b), Money(b), Funded(b), NEW doc, doc.total \in Nat, doc.type = "invoice",
         NEW apply, NEW s
  PROVE  /\ s \in DOMAIN b.sources =>
              AppliedTotal(From(RowsOf(b, doc, apply), s)) <= Remaining(b, s)
         /\ s \notin DOMAIN b.sources => From(RowsOf(b, doc, apply), s) = {}
<1> DEFINE n == Len(b.sources) + 1
           used == {q \in Advances(b, doc.party) : Take(b, doc, q) > 0}
           row(r) == Row(n, r, Take(b, doc, r))
           R == RowsOf(b, doc, apply)
<1>1. R = {row(r) : r \in used}
  BY DEF RowsOf
<1>2. \A r : row(r).receipt = r /\ row(r).amount = Take(b, doc, r)
  BY RowFact
<1>3. Rows(b) /\ used \subseteq DOMAIN b.sources
  BY AdvancesInt DEF Sound
<1> HIDE DEF used, row, R
<1>4. From(R, s) = IF s \in used THEN {row(s)} ELSE {}
  BY <1>1, <1>2 DEF From
<1>5. ASSUME s \in DOMAIN b.sources PROVE AppliedTotal(From(R, s)) <= Remaining(b, s)
  <2>1. CASE s \in used
    <3>1. Take(b, doc, s) \in Int /\ Take(b, doc, s) <= Remaining(b, s)
      BY <1>3, <1>5, TakeFact
    <3>2. AppliedTotal({row(s)}) = Take(b, doc, s)
      BY <1>2, <3>1, TotalOne
    <3> QED BY <1>4, <2>1, <3>1, <3>2
  <2>2. CASE s \notin used
    <3>1. Consumed(b, s) <= b.sources[s].total /\ Consumed(b, s) \in Int /\ b.sources[s].total \in Nat
      BY <1>5, FundFact DEF Funded
    <3>2. 0 <= Remaining(b, s)
      BY <3>1 DEF Remaining
    <3> QED BY <1>4, <2>2, <3>2, TotalNone
  <2> QED BY <2>1, <2>2
<1>6. s \notin DOMAIN b.sources => From(R, s) = {}
  BY <1>3, <1>4
<1> QED BY <1>5, <1>6 DEF R

LEMMA ReceiptRows ==
  ASSUME NEW b, NEW doc, doc.type = "receipt", NEW apply, Paying(apply), Covered(doc, apply), NEW s
  PROVE  /\ s # Len(b.sources) + 1 => From(RowsOf(b, doc, apply), s) = {}
         /\ s = Len(b.sources) + 1 => AppliedTotal(From(RowsOf(b, doc, apply), s)) <= doc.total
<1> DEFINE n == Len(b.sources) + 1
           f == [a \in apply |-> Row(a.invoice, n, a.amount)]
           R == RowsOf(b, doc, apply)
<1>1. R = {f[a] : a \in apply}
  BY DEF RowsOf
<1>2. \A a \in apply : f[a].receipt = n /\ f[a].amount = a.amount /\ f[a].invoice = a.invoice
  BY RowFact
<1> HIDE DEF f, R, n
<1>3. \A a, c \in apply : f[a] = f[c] => a = c
  BY <1>2 DEF Covered, Slips
<1>4. Copies(f, apply, R)
  BY <1>1, <1>2, <1>3 DEF Copies
<1>5. AppliedTotal(R) <= doc.total
  BY <1>4, TotalCopies DEF Covered
<1>6. s = n => From(R, s) = R
  BY <1>1, <1>2 DEF From
<1>7. s # n => From(R, s) = {}
  BY <1>1, <1>2 DEF From
<1> QED BY <1>5, <1>6, <1>7 DEF R, n

LEMMA RowsGive ==
  ASSUME NEW b, Rows(b), Money(b), NEW doc, doc.total \in Nat, NEW apply, Paying(apply), Applying(b, apply)
  PROVE  Gives(RowsOf(b, doc, apply))
<1> DEFINE n == Len(b.sources) + 1
<1>1. Paying(RowsOf(b, doc, apply))
  BY RowsPaying
<1>2. ASSUME NEW r \in RowsOf(b, doc, apply) PROVE r.amount >= 0
  <2>1. CASE doc.type = "invoice"
    <3>1. PICK q : Take(b, doc, q) > 0 /\ q \in Advances(b, doc.party) /\ r = Row(n, q, Take(b, doc, q))
      BY <2>1 DEF RowsOf
    <3>2. q \in DOMAIN b.sources
      BY <3>1, AdvancesInt
    <3>3. Take(b, doc, q) \in Int /\ r.amount = Take(b, doc, q)
      BY <3>1, <3>2, TakeFact, RowFact
    <3> QED BY <3>1, <3>3
  <2>2. CASE doc.type = "receipt"
    <3>1. PICK a \in apply : r = Row(a.invoice, n, a.amount)
      BY <2>2 DEF RowsOf
    <3>2. a.amount \in Int /\ a.amount > 0 /\ r.amount = a.amount
      BY <3>1, RowFact DEF Applying, Paying
    <3> QED BY <3>2
  <2>3. CASE doc.type \notin {"invoice", "receipt"}
    BY <2>3 DEF RowsOf
  <2> QED BY <2>1, <2>2, <2>3
<1> QED BY <1>1, <1>2 DEF Gives

LEMMA FundedIssued ==
  ASSUME NEW b, Sound(b), Money(b), Funded(b), NEW doc, doc.total \in Nat,
         NEW apply, Paying(apply), Applying(b, apply), Covered(doc, apply),
         NEW c, c.sources = Append(b.sources, doc), c.allocs = b.allocs \cup RowsOf(b, doc, apply)
  PROVE  Funded(c)
<1> DEFINE n == Len(b.sources) + 1
           R == RowsOf(b, doc, apply)
<1>1. /\ DOMAIN c.sources = 1 .. n /\ DOMAIN b.sources = 1 .. Len(b.sources) /\ Len(b.sources) \in Nat
      /\ c.sources[n] = doc /\ \A q \in 1 .. Len(b.sources) : c.sources[q] = b.sources[q]
  <2>1. IsSeq(b.sources)
    BY DEF Sound, Rows
  <2> QED BY <2>1, AppendFact, SeqFact
<1>2. /\ DOMAIN c.sources \ DOMAIN b.sources = {n} /\ n \notin DOMAIN b.sources
      /\ Extends(b, c) /\ \A s \in DOMAIN c.sources : c.sources[s].total \in Nat
  <2>1. \A s \in DOMAIN c.sources : s = n \/ s \in 1 .. Len(b.sources)
    BY <1>1
  <2>2. \A s \in DOMAIN b.sources : b.sources[s].total \in Nat
    BY FundFact
  <2>3. n \notin DOMAIN b.sources /\ n \in DOMAIN c.sources /\ DOMAIN b.sources \subseteq DOMAIN c.sources
    BY <1>1
  <2> QED BY <1>1, <2>1, <2>2, <2>3 DEF Extends
<1>3. Gives(R)
  BY RowsGive DEF Sound
<1>4. \A s \in DOMAIN b.sources : 0 <= Remaining(b, s)
  <2> SUFFICES ASSUME NEW s \in DOMAIN b.sources PROVE 0 <= Remaining(b, s)
    OBVIOUS
  <2>1. Consumed(b, s) <= b.sources[s].total /\ Consumed(b, s) \in Int /\ b.sources[s].total \in Nat
    BY FundFact DEF Funded
  <2> QED BY <2>1 DEF Remaining
<1>5. c.sources[n].total \in Nat /\ c.sources[n].total = doc.total
  BY <1>1
<1>6. /\ \A s \in DOMAIN b.sources : AppliedTotal(From(R, s)) <= Remaining(b, s)
      /\ AppliedTotal(From(R, n)) <= c.sources[n].total
  <2>1. CASE doc.type = "invoice"
    <3>1. \A s \in DOMAIN b.sources : AppliedTotal(From(R, s)) <= Remaining(b, s)
      BY <2>1, InvoiceRows
    <3>2. From(R, n) = {}
      BY <1>2, <2>1, InvoiceRows
    <3> HIDE DEF R, n
    <3> QED BY <1>5, <3>1, <3>2, TotalNone
  <2>2. CASE doc.type = "receipt"
    <3>1. \A s \in DOMAIN b.sources : From(R, s) = {}
      BY <1>2, <2>2, ReceiptRows
    <3>2. AppliedTotal(From(R, n)) <= c.sources[n].total
      BY <1>5, <2>2, ReceiptRows
    <3> QED BY <1>4, <3>1, <3>2, TotalNone
  <2>3. CASE doc.type \notin {"invoice", "receipt"}
    <3>1. \A s : From(R, s) = {}
      BY <2>3 DEF RowsOf, From
    <3>2. \A s : AppliedTotal(From(R, s)) = 0
      BY <3>1, TotalNone
    <3> HIDE DEF R, n
    <3> QED BY <1>4, <1>5, <3>2
  <2> QED BY <2>1, <2>2, <2>3
<1>7. c.allocs = b.allocs \cup R
  OBVIOUS
<1>8. \A s \in DOMAIN c.sources \ DOMAIN b.sources : AppliedTotal(From(R, s)) <= c.sources[s].total
  BY <1>2, <1>6
<1> HIDE DEF R, n
<1> QED BY <1>2, <1>3, <1>6, <1>7, <1>8, FundedMore

LEMMA CarriesIssued ==
  ASSUME NEW b, Sound(b), Money(b), NEW doc, Payable(b, doc), NEW p,
         NEW apply, Paying(apply), Applying(b, apply), Covered(doc, apply),
         Fair(LinesOf(b, doc, apply)), NEW c, c = Issued(b, doc, apply, p)
  PROVE  Carries(b, c)
<1>1. /\ Money(c) /\ c.sources = Append(b.sources, doc) /\ c.periods = b.periods
      /\ c.allocs = b.allocs \cup RowsOf(b, doc, apply) /\ (Positioned(b) => Positioned(c))
      /\ Enters(b, c)
  BY MoneyIssued
<1>2. doc.total \in Nat
  BY DEF Payable, Priced
<1> QED BY <1>1, <1>2, FrozenSame, FundedIssued DEF Carries

LEMMA CarriesCreate ==
  ASSUME NEW b, Sound(b), Money(b), NEW doc, Payable(b, doc),
         NEW apply, Paying(apply), Applying(b, apply), doc.type = "receipt" => Slips(apply),
         CanCreate(b, doc, apply), NEW c, c = Create(b, doc, apply)
  PROVE  Carries(b, c) /\ b.allocs \subseteq c.allocs
<1> DEFINE d == InContext(b, doc.date)
           p == ContextPeriod(b, doc.date)
<1>1. doc.date \in Dates /\ HasContext(b, doc.date) /\ doc.type \in SourceTypes /\ Priced(doc)
  BY DEF Payable, Issuable, SourceRow, CanCreate, HasContext
<1>2. /\ Money(d) /\ Sound(d) /\ d.sources = b.sources /\ d.journals = b.journals
      /\ d.allocs = b.allocs /\ d.members = b.members
  BY <1>1, MoneyInContext
<1>3. c = Issued(d, doc, apply, p)
  BY DEF Create
<1>4. Balanced(LinesOf(b, doc, apply))
  BY DEF CanCreate, CanPost, Valid, Journal
<1>5. Rows(b)
  BY DEF Sound
<1>6. Covered(doc, apply)
  BY DEF Covered, CanCreate, CanIssue, CanApply
<1>7. Carries(b, d)
  BY <1>1, CarriesInContext
<1> HIDE DEF d, p
<1>8. Fair(LinesOf(b, doc, apply))
  BY <1>1, <1>4, <1>5, DocumentLines
<1>9. Fair(LinesOf(d, doc, apply))
  BY <1>2, <1>8, LinesAlike
<1>10. Payable(d, doc) /\ Applying(d, apply)
  BY <1>2 DEF Payable, Issuable, SourceRow, Opening, Live, Noted, Applying
<1>11. Carries(d, c)
  BY <1>2, <1>3, <1>6, <1>9, <1>10, CarriesIssued
<1>12. c.allocs = d.allocs \cup RowsOf(d, doc, apply)
  BY <1>2, <1>3, <1>9, <1>10, MoneyIssued
<1> QED BY <1>2, <1>7, <1>11, <1>12, CarriesTwice

LEMMA NoSlips == ASSUME NEW b PROVE Paying({}) /\ Applying(b, {}) /\ Slips({})
BY FS_EmptySet DEF Paying, Applying, Slips

-----------------------------------------------------------------------------
(* Editing a document keeps the amounts and the totals *)

Given(b, doc) == Fresh(b, doc) /\ Priced(doc) /\ Noted(b, doc)

LEMMA EnteredPayable ==
  ASSUME NEW b, NEW doc, Given(b, doc), doc.type = "opening_balance" => Opening(b) = {}
  PROVE  Payable(b, doc)
BY DEF Given, Payable, Fresh, Issuable

LEMMA EnteredKept ==
  ASSUME NEW b, Sound(b), NEW c, Sound(c), Len(b.sources) <= Len(c.sources),
         \A q \in DOMAIN b.sources : c.sources[q].type = b.sources[q].type,
         c.members = b.members, NEW doc, Given(b, doc)
  PROVE  Given(c, doc)
<1>1. DOMAIN b.sources = 1 .. Len(b.sources) /\ Len(b.sources) \in Nat
  BY SeqFact DEF Sound, Rows
<1>2. doc.link \in 0 .. Len(b.sources)
  BY DEF Given, Fresh, SourceRow
<1>3. doc.link # 0 => doc.link \in DOMAIN b.sources
  BY <1>1, <1>2
<1>4. Noted(c, doc)
  BY <1>3 DEF Given, Noted
<1>5. Fresh(c, doc)
  BY FreshKept DEF Given
<1> QED BY <1>4, <1>5 DEF Given

LEMMA EnteredRedated ==
  ASSUME NEW b, NEW doc, Given(b, doc), NEW date \in Dates,
         NEW d, d = [doc EXCEPT !.date = date]
  PROVE  Given(b, d) /\ d.type = doc.type
<1>1. Fresh(b, doc) /\ Priced(doc) /\ Noted(b, doc)
  BY DEF Given
<1>2. PricedAs(d, doc) /\ d.party = doc.party /\ d.link = doc.link /\ Fresh(b, d)
  BY <1>1 DEF Fresh, SourceRow, PricedAs
<1>3. Priced(d) /\ d.type = doc.type
  BY <1>1, <1>2, PricedAlike DEF PricedAs
<1>4. Noted(b, d)
  BY <1>1, <1>2, <1>3 DEF Noted
<1> QED BY <1>2, <1>3, <1>4 DEF Given

LEMMA EnteredDated ==
  ASSUME NEW b, Sound(b), NEW doc, Given(b, doc), NEW today \in Dates,
         NEW d, d = Dated(b, doc, today)
  PROVE  Given(b, d) /\ d.type = doc.type
<1> DEFINE e == EditDate(b, doc.date, today)
<1>1. d = doc \/ d = [doc EXCEPT !.date = e]
  BY DEF Dated
<1>2. Fresh(b, doc)
  BY DEF Given
<1>3. Fresh(b, d)
  BY <1>2, DatedFact
<1> HIDE DEF e
<1>4. ASSUME d = [doc EXCEPT !.date = e] PROVE e \in Dates
  BY <1>2, <1>3, <1>4 DEF Fresh, SourceRow
<1> QED BY <1>1, <1>4, EnteredRedated

LEMMA MoneyRepointed ==
  ASSUME NEW b, Sound(b), Money(b), NEW c, Sound(c), Money(c), NEW rows \in SUBSET b.allocs,
         NEW i, NEW d, d = Repointed(c, rows, i)
  PROVE  Money(d)
<1> DEFINE f == [r \in rows |-> [r EXCEPT !.invoice = i]]
           T == {f[r] : r \in rows}
<1>1. BookRecord(c) /\ Paying(rows) /\ Paying(c.allocs)
  BY MoneyFact, PayingLess DEF Sound, Rows
<1>2. ASSUME NEW r \in rows PROVE f[r].amount \in Int
  <2>1. AllocRow(b, r) /\ r.amount \in Int
    BY <1>1 DEF Sound, Rows, Paying
  <2>2. f[r] = [r EXCEPT !.invoice = i]
    OBVIOUS
  <2> HIDE DEF f
  <2> QED BY <2>1, <2>2 DEF AllocRow
<1>3. d = [c EXCEPT !.allocs = (c.allocs \ rows) \cup T]
  BY DEF Repointed
<1>4. IsFiniteSet(rows) /\ T = {f[r] : r \in rows}
  BY <1>1 DEF Paying
<1> HIDE DEF f, T
<1>5. IsFiniteSet(T)
  BY <1>4, ImageFinite
<1>6. Paying(T)
  BY <1>2, <1>4, <1>5 DEF Paying
<1>7. /\ d.allocs = (c.allocs \ rows) \cup T /\ d.sources = c.sources
      /\ d.journals = c.journals /\ d.members = c.members /\ d.counts = c.counts
  BY <1>1, <1>3 DEF BookRecord
<1>8. Paying(c.allocs \ rows)
  BY <1>1, PayingLess
<1>9. Paying(d.allocs)
  BY <1>6, <1>7, <1>8, PayingBoth
<1> QED BY <1>7, <1>9, MoneyFact, MoneyBeside

LEMMA CarriesReplaced ==
  ASSUME NEW b, Sound(b), Money(b), NEW s \in Live(b, SourceTypes), NEW today \in Dates,
         NEW doc, Given(b, doc), doc.type # "opening_balance",
         NEW a, a = ReverseSource(b, s, today), NEW d, d = Dated(b, doc, today),
         CanCreate(a, d, {}), NEW c, c = Create(a, d, {})
  PROVE  Carries(b, c) /\ a.allocs \subseteq c.allocs
<1>1. Money(a) /\ Sound(a)
  BY MoneyReverse
<1>2. Len(b.sources) <= Len(a.sources) /\ \A q \in DOMAIN b.sources : a.sources[q].type = b.sources[q].type
  BY ReverseSourceFact
<1>3. Given(b, d) /\ d.type = doc.type
  BY EnteredDated
<1>6. Carries(b, a)
  BY CarriesReverse
<1>4. Given(a, d)
  <2>1. a.members = b.members
    BY <1>6 DEF Carries, Enters
  <2> QED BY <1>1, <1>2, <1>3, <2>1, EnteredKept
<1>5. Payable(a, d)
  BY <1>3, <1>4, EnteredPayable
<1>7. Carries(a, c) /\ a.allocs \subseteq c.allocs
  BY <1>1, <1>5, NoSlips, CarriesCreate
<1> QED BY <1>6, <1>7, CarriesTwice

\* Rows of one invoice, moved to another.
LEMMA CarriesRepointed ==
  ASSUME NEW b, Sound(b), Money(b), NEW rows, rows \subseteq b.allocs, NEW s,
         \A r \in rows : r.invoice = s, NEW i, NEW c, c = Repointed(b, rows, i)
  PROVE  Carries(b, c)
<1> DEFINE f == [r \in rows |-> [r EXCEPT !.invoice = i]]
           T == {f[r] : r \in rows}
           rest == b.allocs \ rows
<1>1. BookRecord(b) /\ \A r \in rows : AllocRow(b, r)
  BY DEF Sound, Rows
<1>2. ASSUME NEW r \in rows
      PROVE  /\ f[r] = [born |-> r.born, invoice |-> i, receipt |-> r.receipt, amount |-> r.amount]
             /\ r = [born |-> r.born, invoice |-> s, receipt |-> r.receipt, amount |-> r.amount]
  <2>1. AllocRow(b, r) /\ r.invoice = s
    BY <1>1
  <2> QED BY <2>1 DEF AllocRow
<1>3. c = [b EXCEPT !.allocs = rest \cup T]
  BY DEF Repointed
<1>4. T = {f[r] : r \in rows}
  OBVIOUS
<1> HIDE DEF f, T
<1>8. ASSUME NEW r \in rows
      PROVE  /\ f[r].receipt = r.receipt /\ f[r].amount = r.amount
             /\ r = [born |-> f[r].born, invoice |-> s, receipt |-> f[r].receipt,
                     amount |-> f[r].amount]
  <2>1. PICK q : q = f[r]
    OBVIOUS
  <2>2. /\ q = [born |-> r.born, invoice |-> i, receipt |-> r.receipt, amount |-> r.amount]
        /\ r = [born |-> r.born, invoice |-> s, receipt |-> r.receipt, amount |-> r.amount]
    BY <1>2, <2>1
  <2>3. q.born = r.born /\ q.receipt = r.receipt /\ q.amount = r.amount
    BY <2>2
  <2> QED BY <2>1, <2>2, <2>3
<1>5. /\ c.allocs = rest \cup T /\ c.sources = b.sources /\ c.periods = b.periods
      /\ c.journals = b.journals /\ c.members = b.members /\ c.capital = b.capital
  BY <1>1, <1>3 DEF BookRecord
<1>6. ASSUME NEW t PROVE Consumed(c, t) <= Consumed(b, t) /\ Consumed(c, t) \in Int
  <2> DEFINE old == From(rows, t)
             new == From(T, t)
             kept == From(rest, t)
  <2>1. Gives(b.allocs)
    BY FundFact
  <2>2. Gives(old) /\ Gives(kept)
    <3>1. old \in SUBSET b.allocs /\ kept \in SUBSET b.allocs
      BY DEF From
    <3> HIDE DEF old, kept
    <3> QED BY <2>1, <3>1, PayingLess DEF Gives
  <2>3. Copies(f, old, new)
    <3>1. new = {f[r] : r \in old}
      BY <1>4, <1>8 DEF From
    <3>2. \A r \in old : r \in rows
      BY DEF From
    <3>3. \A r \in old : f[r].amount = r.amount
      BY <1>8, <3>2
    <3>4. \A r, q \in old : f[r] = f[q] => r = q
      BY <1>8, <3>2
    <3> HIDE DEF old, new
    <3> QED BY <3>1, <3>3, <3>4 DEF Copies
  <2>4. From(c.allocs, t) = kept \cup new /\ From(b.allocs, t) = kept \cup old /\ kept \cap old = {}
    BY <1>5 DEF From
  <2> HIDE DEF old, new, kept
  <2>5. Paying(new) /\ AppliedTotal(new) = AppliedTotal(old)
    BY <2>2, <2>3, TotalCopies DEF Gives
  <2>6. Gives(new)
    BY <2>2, <2>3, <2>5 DEF Gives, Copies
  <2>7. AppliedTotal(kept \cup new) <= AppliedTotal(kept) + AppliedTotal(new)
    BY <2>2, <2>6, TotalBoth
  <2>8. AppliedTotal(kept \cup old) = AppliedTotal(kept) + AppliedTotal(old)
    BY <2>2, <2>4, TotalApart DEF Gives
  <2>9. Consumed(c, t) = AppliedTotal(kept \cup new) /\ Consumed(b, t) = AppliedTotal(kept \cup old)
    BY <2>4, ConsumedIs
  <2>10. AppliedTotal(kept \cup new) \in Int
    BY <2>2, <2>6, PayingBoth, AmountsFact DEF Gives
  <2> QED BY <2>5, <2>7, <2>8, <2>9, <2>10
<1>7. ASSUME Funded(b) PROVE Funded(c)
  <2> SUFFICES ASSUME NEW t \in DOMAIN c.sources PROVE Consumed(c, t) <= c.sources[t].total
    BY DEF Funded
  <2>1. Consumed(b, t) <= b.sources[t].total /\ Consumed(b, t) \in Int /\ b.sources[t].total \in Nat
    BY <1>5, <1>7, FundFact DEF Funded
  <2>2. Consumed(c, t) <= Consumed(b, t) /\ Consumed(c, t) \in Int
    BY <1>6
  <2> QED BY <1>5, <2>1, <2>2
<1>9. Money(c)
  BY MoneyRepointed
<1> QED BY <1>5, <1>7, <1>9, FrozenSame, CarriesBeside

LEMMA DirectKept ==
  ASSUME NEW b, Sound(b), NEW s, b.sources[s].type = "invoice"
  PROVE  DirectRows(b, s) \subseteq DropRows(b, s).allocs
<1> DEFINE rows == b.allocs \ AdvanceRows(b, s)
<1>1. DirectRows(b, s) \subseteq rows
  BY DEF DirectRows, AdvanceRows, OnlyAdvance, RowsTo
<1>2. DropRows(b, s) = [b EXCEPT !.allocs = rows] /\ BookRecord(b)
  BY DEF DropRows, Sound, Rows
<1> HIDE DEF rows
<1>3. DropRows(b, s).allocs = rows
  BY <1>2 DEF BookRecord
<1> QED BY <1>1, <1>3

LEMMA CarriesReplacedPaid ==
  ASSUME NEW b, Sound(b), Money(b), NEW s \in Live(b, {"invoice"}), NEW today \in Dates,
         NEW doc, Given(b, doc), doc.type # "opening_balance", CanReplacePaid(b, s, doc, today),
         NEW c, c = ReplacedPaid(b, s, doc, today)
  PROVE  Carries(b, c)
<1> DEFINE a == ReverseSource(b, s, today)
           d == Dated(b, doc, today)
           e == Create(a, d, {})
           rows == DirectRows(b, s)
           n == Len(a.sources) + 1
<1>1. c = Repointed(e, rows, n)
  BY DEF ReplacedPaid
<1>2. \A r \in rows : r.invoice = s
  BY DEF DirectRows, RowsTo
<1>3. /\ a = ReverseSource(b, s, today) /\ d = Dated(b, doc, today) /\ e = Create(a, d, {})
      /\ CanCreate(a, d, {})
  BY DEF CanReplacePaid
<1>4. rows \subseteq DropRows(b, s).allocs
  BY DirectKept DEF Live
<1> HIDE DEF a, d, e, rows, n
<1>5. s \in Live(b, SourceTypes)
  BY DEF Live, SourceTypes
<1>7. Sound(e)
  <2>1. HasContext(a, d.date) /\ Fresh(b, doc)
    BY <1>3 DEF CanCreate, HasContext, Given
  <2> QED BY <1>3, <1>5, <2>1, ReplacedFact
<1>8. Carries(b, e) /\ a.allocs \subseteq e.allocs /\ Money(e)
  BY <1>3, <1>5, CarriesReplaced DEF Carries
<1>9. rows \subseteq e.allocs
  <2>1. a.allocs = DropRows(b, s).allocs
    BY <1>3, <1>5, MoneyReverse
  <2> QED BY <1>4, <1>8, <2>1
<1>10. Carries(e, c)
  BY <1>1, <1>2, <1>7, <1>8, <1>9, CarriesRepointed
<1> QED BY <1>8, <1>10, CarriesTwice

LEMMA CarriesEditedReceipt ==
  ASSUME NEW b, Sound(b), Money(b), NEW s \in Live(b, SourceTypes), NEW today \in Dates,
         NEW doc, Given(b, doc), doc.type = "receipt", HasContext(b, doc.date),
         NEW apply, Paying(apply), Applying(b, apply), Covered(doc, apply),
         NEW c, c = EditedReceipt(b, s, doc, apply, today)
  PROVE  Carries(b, c)
<1> DEFINE d == InContext(b, doc.date)
           p == ContextPeriod(b, doc.date)
           a == ReverseSource(d, s, today)
           to == Target(a, p, doc.date, today)
           new == [doc EXCEPT !.date = to.date]
<1>1. c = Issued(a, new, apply, to.period)
  BY DEF EditedReceipt
<1>2. doc.date \in Dates
  BY DEF Given, Fresh, SourceRow
<1>3. Money(d) /\ Sound(d) /\ d.sources = b.sources /\ p \in OpenPeriods(d) /\ Carries(b, d)
  BY <1>2, MoneyInContext, CarriesInContext
<1>4. a = ReverseSource(d, s, today) /\ to = Target(a, p, doc.date, today) /\ new = [doc EXCEPT !.date = to.date]
  OBVIOUS
<1> HIDE DEF d, p, a, to, new
<1>5. s \in Live(d, SourceTypes)
  BY <1>3 DEF Live
<1>6. Money(a) /\ Sound(a) /\ Carries(d, a)
  BY <1>3, <1>4, <1>5, MoneyReverse, CarriesReverse
<1>7. /\ a.periods = d.periods /\ Len(d.sources) <= Len(a.sources)
      /\ \A q \in DOMAIN d.sources : q \in DOMAIN a.sources /\ a.sources[q].type = d.sources[q].type
  BY <1>3, <1>4, <1>5, ReverseSourceFact
<1>8. p \in DOMAIN a.periods
  BY <1>3, <1>7 DEF OpenPeriods
<1>9. to.date \in Dates
  BY <1>2, <1>4, <1>6, <1>8, TargetFact
<1>10. Given(a, doc)
  <2>1. Carries(b, a)
    BY <1>3, <1>6, CarriesTwice
  <2>2. a.members = b.members
    BY <2>1 DEF Carries, Enters
  <2> QED BY <1>3, <1>6, <1>7, <2>2, EnteredKept
<1>11. Given(a, new) /\ new.type = "receipt"
  BY <1>4, <1>9, <1>10, EnteredRedated
<1>12. Payable(a, new)
  BY <1>11, EnteredPayable
<1>13. Fair(LinesOf(a, new, apply))
  <2>1. Rows(a) /\ Priced(new) /\ new.type \in SourceTypes
    BY <1>6, <1>11 DEF Sound, Given, SourceTypes
  <2> QED BY <1>6, <1>11, <2>1, DocumentLines
<1>14. Applying(a, apply)
  BY <1>3, <1>7 DEF Applying
<1>15. Covered(new, apply)
  <2>1. new.total = doc.total
    BY <1>4 DEF Given, Fresh, SourceRow
  <2> QED BY <1>11, <2>1 DEF Covered
<1>16. Carries(a, c)
  BY <1>1, <1>6, <1>12, <1>13, <1>14, <1>15, CarriesIssued
<1> QED BY <1>3, <1>6, <1>16, CarriesTwice

LEMMA CarriesReopened ==
  ASSUME NEW b, Sound(b), Money(b), NEW today \in Dates, NEW doc, Given(b, doc),
         doc.type = "opening_balance", HasContext(b, doc.date), NEW c, c = Reopened(b, doc, today)
  PROVE  Carries(b, c)
<1> DEFINE a == InContext(b, doc.date)
           p == ContextPeriod(b, doc.date)
           s == CHOOSE t \in Opening(b) : TRUE
           d == IF Opening(b) = {} THEN a ELSE ReverseSource(a, s, today)
<1>1. doc.date \in Dates /\ OpeningOnce(b)
  BY DEF Given, Fresh, SourceRow, Sound
<1>2. Money(a) /\ Sound(a) /\ a.sources = b.sources /\ Carries(b, a)
  BY <1>1, MoneyInContext, CarriesInContext
<1>3. c = IF doc.total = 0 THEN d ELSE Issued(d, doc, {}, p)
  BY DEF Reopened
<1> HIDE DEF a, p
<1>4. Opening(a) = Opening(b) /\ Len(b.sources) <= Len(a.sources)
  <2>1. Len(b.sources) \in Nat
    BY SeqFact DEF Sound, Rows
  <2> QED BY <1>2, <2>1 DEF Opening, Live
<1>5. Given(a, doc)
  <2>1. a.members = b.members
    BY <1>2 DEF Carries, Enters
  <2> QED BY <1>2, <1>4, <2>1, EnteredKept
<1>6. Money(d) /\ Sound(d) /\ Opening(d) = {} /\ Given(d, doc) /\ Carries(a, d)
  <2>1. CASE Opening(b) = {}
    BY <1>2, <1>4, <1>5, <2>1, CarriesBeside
  <2>2. CASE Opening(b) # {}
    <3>1. d = ReverseSource(a, s, today) /\ s \in Opening(b)
      BY <2>2
    <3> HIDE DEF d, s
    <3>2. Opening(b) = {s}
      BY <1>1, <3>1 DEF OpeningOnce
    <3>3. s \in Live(a, SourceTypes)
      BY <1>4, <3>1 DEF Opening, Live, SourceTypes
    <3>4. Money(d) /\ Sound(d) /\ Carries(a, d)
      BY <1>2, <3>1, <3>3, MoneyReverse, CarriesReverse
    <3>5. /\ Opening(d) \subseteq Opening(a) \ {s} /\ Len(a.sources) <= Len(d.sources)
          /\ \A q \in DOMAIN a.sources : d.sources[q].type = a.sources[q].type
      BY <1>2, <3>1, <3>3, ReverseSourceFact
    <3>6. Given(d, doc)
      <4>1. d.members = a.members
        BY <3>4 DEF Carries, Enters
      <4> QED BY <1>2, <1>5, <3>4, <3>5, <4>1, EnteredKept
    <3> QED BY <1>4, <3>2, <3>4, <3>5, <3>6
  <2> QED BY <2>1, <2>2
<1> HIDE DEF d
<1>7. Payable(d, doc) /\ Paying({}) /\ Applying(d, {}) /\ Covered(doc, {})
  BY <1>6, EnteredPayable, NoSlips DEF Covered
<1>8. Fair(LinesOf(d, doc, {}))
  <2>1. Rows(d) /\ Priced(doc) /\ doc.type \in SourceTypes
    BY <1>6 DEF Sound, Given, SourceTypes
  <2> QED BY <1>6, <1>7, <2>1, DocumentLines
<1>9. Carries(d, Issued(d, doc, {}, p))
  BY <1>6, <1>7, <1>8, CarriesIssued
<1>10. Carries(d, d)
  BY <1>6, CarriesBeside
<1> QED BY <1>2, <1>3, <1>6, <1>9, <1>10, CarriesTwice

-----------------------------------------------------------------------------
(* Counting stock keeps the amounts *)

LEMMA CarriesCounts ==
  ASSUME NEW b, BookRecord(b), Money(b), NEW counts, \A n \in counts : MoneyCount(n),
         NEW c, c = [b EXCEPT !.counts = counts]
  PROVE  Carries(b, c)
<1>1. /\ c.counts = counts /\ c.sources = b.sources /\ c.allocs = b.allocs
      /\ c.journals = b.journals /\ c.members = b.members /\ c.periods = b.periods
      /\ c.capital = b.capital
  BY DEF BookRecord
<1>2. Money(c)
  BY <1>1, MoneyFact, MoneyBeside
<1> QED BY <1>1, <1>2, CarriesSame, FrozenSame, CarriesBeside

LEMMA CountIs ==
  ASSUME NEW kind \in 1 .. 3, NEW p, NEW date \in Dates, NEW value \in Nat
  PROVE  MoneyCount(Count(kind, p, date, value))
BY DEF MoneyCount, Count

LEMMA CarriesRecordedCount ==
  ASSUME NEW b, Sound(b), Money(b), NEW d \in Dates, HasContext(b, d), NEW value \in Nat,
         NEW c, c = RecordedCount(b, d, value)
  PROVE  Carries(b, c)
<1> DEFINE a == InContext(b, d)
           n == Count(Taken, ContextPeriod(b, d), d, value)
           counts == {m \in a.counts : ~SameCount(n, m)} \cup {n}
<1>1. Sound(a) /\ Money(a) /\ Carries(b, a)
  BY MoneyInContext, CarriesInContext
<1>2. MoneyCount(n)
  BY CountIs DEF Taken
<1>3. c = PutCount(a, n)
  BY DEF RecordedCount
<1> HIDE DEF n, a
<1>4. c = [a EXCEPT !.counts = counts]
  BY <1>3 DEF PutCount
<1>5. \A m \in counts : MoneyCount(m)
  BY <1>1, <1>2, MoneyFact
<1>6. BookRecord(a)
  BY <1>1 DEF Sound, Rows
<1> HIDE DEF counts
<1>7. Carries(a, c)
  BY <1>1, <1>4, <1>5, <1>6, CarriesCounts
<1> QED BY <1>1, <1>7, CarriesTwice

LEMMA CarriesDeletedCount ==
  ASSUME NEW b, Sound(b), Money(b), NEW n, NEW c, c = DeletedCount(b, n)
  PROVE  Carries(b, c)
<1> DEFINE counts == b.counts \ {n}
<1>1. c = [b EXCEPT !.counts = counts]
  BY DEF DeletedCount
<1>2. (\A m \in counts : MoneyCount(m)) /\ BookRecord(b)
  BY MoneyFact DEF Sound, Rows
<1> HIDE DEF counts
<1> QED BY <1>1, <1>2, CarriesCounts

LEMMA MoneyPrepared ==
  ASSUME NEW b, Sound(b), Money(b), NEW date \in Dates, NEW explicit,
         NEW opening \in Nat, NEW actual \in Nat, CanClose(b, date, explicit, opening, actual),
         NEW p, p = ClosingPeriod(b), NEW c, c = Prepared(b, date, explicit, opening, actual)
  PROVE  /\ Money(c) /\ c.sources = b.sources /\ c.journals = b.journals /\ c.allocs = b.allocs
         /\ c.members = b.members /\ c.capital = b.capital
<1> DEFINE start == b.periods[p].start
           none(d) == ~\E n \in CountsIn(b, p) : n.date = d
           new == {n \in {Count(Entered, p, start, opening)} : none(start)}
                  \cup {n \in {Count(Entered, p, date, actual)} : none(date)}
           a == Counted(b, p, date, opening, actual)
<1>1. p \in DOMAIN b.periods /\ Rows(b) /\ BookRecord(b)
  BY FirstOpen DEF Sound, Rows
<1>2. start \in Dates
  BY <1>1, PeriodFact DEF Dates
<1>3. \A n \in new : MoneyCount(n)
  <2>1. MoneyCount(Count(Entered, p, start, opening)) /\ MoneyCount(Count(Entered, p, date, actual))
    BY <1>2, CountIs DEF Entered
  <2>2. \A n \in new : n \in {Count(Entered, p, start, opening), Count(Entered, p, date, actual)}
    OBVIOUS
  <2> QED BY <2>1, <2>2
<1>4. a = [b EXCEPT !.periods[p].end = date, !.counts = b.counts \cup new]
  BY DEF Counted
<1>5. c = WithNext(a, p, explicit)
  BY DEF Prepared
<1> HIDE DEF new, a
<1>6. /\ BookRecord(a) /\ a.counts = b.counts \cup new /\ a.sources = b.sources
      /\ a.journals = b.journals /\ a.allocs = b.allocs /\ a.members = b.members
      /\ a.capital = b.capital
  BY <1>1, <1>4 DEF BookRecord
<1>7. /\ c.counts = a.counts /\ c.sources = a.sources /\ c.journals = a.journals
      /\ c.allocs = a.allocs /\ c.members = a.members /\ c.capital = a.capital
  BY <1>5, <1>6 DEF WithNext, BookRecord
<1>8. (\A n \in c.counts : MoneyCount(n)) /\ Paying(c.allocs)
  BY <1>3, <1>6, <1>7, MoneyFact
<1>9. /\ c.sources = b.sources /\ c.journals = b.journals /\ c.members = b.members
      /\ c.allocs = b.allocs /\ c.capital = b.capital
  BY <1>6, <1>7
<1>10. Money(c)
  BY <1>8, <1>9, MoneyBeside
<1> QED BY <1>9, <1>10

-----------------------------------------------------------------------------
(* The amounts of a close *)

LEMMA NewestFact ==
  ASSUME NEW cs, cs # {}, \A n \in cs : MoneyCount(n) PROVE Newest(cs) \in cs
<1> DEFINE f == [n \in cs |-> 4 * n.date + n.kind]
<1>1. \A n \in cs : n.date \in Int /\ n.date <= LastDate /\ n.kind \in 1 .. 3 /\ LastDate \in Int
  BY LastDateAssumption DEF MoneyCount, Dates
<1>2. f \in [cs -> Int] /\ \A n \in cs : f[n] <= 4 * LastDate + 3
  BY <1>1
<1>3. PICK m \in Int : m = 4 * LastDate + 3
  BY <1>1
<1> HIDE DEF f
<1>4. PICK n \in cs : \A k \in cs : f[k] <= f[n]
  BY <1>2, <1>3, Largest
<1>5. ASSUME NEW k \in cs PROVE k.date < n.date \/ (k.date = n.date /\ k.kind <= n.kind)
  <2>1. f[k] <= f[n] /\ f[k] = 4 * k.date + k.kind /\ f[n] = 4 * n.date + n.kind
    BY <1>4 DEF f
  <2> QED BY <1>1, <2>1
<1> QED BY <1>5 DEF Newest

LEMMA StockCounted ==
  ASSUME NEW b, Rows(b), Money(b), NEW start \in Dates, NEW end \in Dates
  PROVE  /\ OpeningStock(b, start) \in Int /\ PurchasesIn(b, start, end) \in Nat
         /\ ClosingStock(b, start, end) \in Nat /\ PeriodicCogs(b, start, end) \in Int
<1>1. \A cs \in SUBSET b.counts : cs # {} => Newest(cs).value \in Nat
  BY NewestFact, MoneyFact DEF MoneyCount
<1>2. \A js \in SUBSET DOMAIN b.journals : Movement(b, js, {"INVENTORY"}) \in Int
  BY MovementIs
<1>3. OpeningStock(b, start) \in Int
  <2>1. CountsDated(b, start, start) \in SUBSET b.counts
    BY DEF CountsDated
  <2>2. JournalsDated(b, 1, start - 1) \in SUBSET DOMAIN b.journals
    BY DEF JournalsDated
  <2> QED BY <1>1, <1>2, <2>1, <2>2 DEF OpeningStock
<1>4. PurchasesIn(b, start, end) \in Nat
  <2> DEFINE n == Movement(b, JournalsDated(b, start, end) \ OpeningBalanceJournals(b), {"INVENTORY"})
  <2>1. JournalsDated(b, start, end) \ OpeningBalanceJournals(b) \in SUBSET DOMAIN b.journals
    BY DEF JournalsDated
  <2>2. n \in Int
    BY <1>2, <2>1
  <2>3. PurchasesIn(b, start, end) = Max({0, n})
    BY DEF PurchasesIn
  <2> HIDE DEF n
  <2> QED BY <2>2, <2>3, MaxOfZero
<1>5. ClosingStock(b, start, end) \in Nat
  <2>1. ClosingCounts(b, start, end) \in SUBSET b.counts
    BY DEF ClosingCounts, CountsDated
  <2> QED BY <1>1, <2>1 DEF ClosingStock, HasClosingCount
<1>6. PeriodicCogs(b, start, end) \in Int
  BY <1>3, <1>4, <1>5 DEF PeriodicCogs
<1> QED BY <1>3, <1>4, <1>5, <1>6

LEMMA PercentInt ==
  ASSUME NEW n \in Int, NEW pct \in 0 .. 100 PROVE Percent(n, pct) \in Int
<1>1. PICK m \in Int : m = n * pct + 50
  OBVIOUS
<1>2. PICK k \in Int : k = -n * pct + 50
  OBVIOUS
<1>3. m \div 100 \in Int /\ k \div 100 \in Int
  OBVIOUS
<1> QED BY <1>1, <1>2, <1>3 DEF Percent

LEMMA ResultFact ==
  ASSUME NEW b, Rows(b), Money(b), NEW p \in DOMAIN b.periods, NEW date \in Dates,
         NEW r, r = Result(b, p, date)
  PROVE  r.period = p /\ r.cogs \in Int /\ r.commission \in Int /\ r.net \in Int
<1> DEFINE mv(accounts) == Movement(b, JournalsIn(b, p), accounts)
           start == b.periods[p].start
           cogs == IF b.perpetual THEN Max({0, mv({"COGS"})}) ELSE PeriodicCogs(b, start, date)
           gross == -mv(RevenueAccounts) - cogs
           commission == IF gross > 0 THEN Percent(gross, CommissionPct) ELSE 0
           net == gross - commission - Max({0, mv({"EXPENSES"})})
<1>1. r = [period |-> p, cogs |-> cogs, commission |-> commission, net |-> net]
  BY DEF Result
<1>2. \A A : mv(A) \in Int
  BY MovementIs DEF JournalsIn
<1>3. Max({0, mv({"COGS"})}) \in Int /\ Max({0, mv({"EXPENSES"})}) \in Int
  <2>1. PICK m \in Int : m = mv({"COGS"})
    BY <1>2
  <2>2. PICK n \in Int : n = mv({"EXPENSES"})
    BY <1>2
  <2>3. Max({0, m}) \in Nat /\ Max({0, n}) \in Nat
    BY MaxOfZero
  <2> QED BY <2>1, <2>2, <2>3
<1>4. start \in Dates
  BY PeriodFact DEF Dates
<1>5. cogs \in Int
  <2>1. PeriodicCogs(b, start, date) \in Int
    BY <1>4, StockCounted
  <2> HIDE DEF mv, start
  <2> QED BY <1>3, <2>1
<1>6. mv(RevenueAccounts) \in Int
  BY <1>2
<1> HIDE DEF mv, start, cogs
<1>7. gross \in Int
  BY <1>5, <1>6
<1> HIDE DEF gross
<1>8. commission \in Int
  <2>1. Percent(gross, CommissionPct) \in Int
    BY <1>7, PercentInt, CommissionPctAssumption
  <2> QED BY <2>1
<1> HIDE DEF commission
<1>9. net \in Int
  BY <1>3, <1>7, <1>8
<1> HIDE DEF net
<1> QED BY <1>1, <1>5, <1>8, <1>9

LEMMA PartInt ==
  ASSUME NEW b, b.members \in Seq(DOMAIN Share), NEW n \in Int, NEW i \in DOMAIN b.members
  PROVE  Part(b, n, i) \in Int
<1> DEFINE l == Len(b.members)
           K == 1 .. l - 1
           f == [k \in K |-> Percent(n, Share[b.members[k]])]
<1>1. l \in Nat /\ DOMAIN b.members = 1 .. l /\ \A k \in 1 .. l : b.members[k] \in DOMAIN Share
  <2>1. l \in Nat /\ b.members \in [1 .. l -> DOMAIN Share]
    BY LenProperties
  <2> QED BY <2>1
<1>2. \A k \in 1 .. l : Percent(n, Share[b.members[k]]) \in Int
  BY <1>1, PercentInt, ShareAssumption
<1>3. f \in [K -> Int] /\ IsFiniteSet(K)
  <2>1. \A k \in K : k \in 1 .. l
    BY <1>1
  <2>2. IsFiniteSet(K)
    BY <1>1, IntervalFinite
  <2> QED BY <1>2, <2>1, <2>2
<1>4. Part(b, n, i) = IF i < l THEN Percent(n, Share[b.members[i]]) ELSE n - SumFunction(f)
  BY DEF Part
<1> HIDE DEF f, K
<1>5. SumFunction(f) \in Int
  BY <1>3, SumInt
<1> QED BY <1>1, <1>2, <1>4, <1>5

-----------------------------------------------------------------------------
(* The journals of a close balance *)

LEMMA NetNowhere == ASSUME NEW s, LineSeq(s) PROVE Net(s, {}) = 0
<1> DEFINE f == Worth(s, {})
           S == 1 .. Len(s)
<1>1. /\ Len(s) \in Nat /\ Integers(f, Len(s)) /\ \A k \in S : f[k] = 0
  <2>1. Len(s) \in Nat /\ Integers(f, Len(s))
    BY WorthFact
  <2>2. \A k \in S : f[k] = 0
    BY DEF Worth, WorthOf, Concerns
  <2> QED BY <2>1, <2>2
<1>2. IsFiniteSet(S) /\ f \in [S -> Int]
  BY <1>1, IntervalFinite DEF Integers
<1> HIDE DEF f, S
<1>3. SumFunction(f) = 0
  BY <1>1, <1>2, SumZero
<1> QED BY <1>3 DEF Net, NetOf, Worth, f

LEMMA MovementApart ==
  ASSUME NEW b, Rows(b), Money(b), NEW js \in SUBSET DOMAIN b.journals, NEW A, NEW a, a \notin A
  PROVE  Movement(b, js, A \cup {a}) = Movement(b, js, A) + Movement(b, js, {a})
<1> DEFINE f == Nets(b, js, A)
           g == Nets(b, js, {a})
           h == Nets(b, js, A \cup {a})
<1>1. /\ Movement(b, js, A) = SumFunction(f) /\ Summable(f, js)
      /\ Movement(b, js, {a}) = SumFunction(g) /\ Summable(g, js)
      /\ Movement(b, js, A \cup {a}) = SumFunction(h) /\ Summable(h, js)
  BY MovementIs
<1>2. \A j \in js : h[j] = f[j] + g[j]
  <2> SUFFICES ASSUME NEW j \in js PROVE h[j] = f[j] + g[j]
    OBVIOUS
  <2>1. LineSeq(b.journals[j].lines)
    BY MoneyFact DEF Fair, Listed
  <2> QED BY <2>1, NetApart DEF Nets
<1> HIDE DEF f, g, h
<1>3. SumFunction(h) = SumFunction(f) + SumFunction(g)
  BY <1>1, <1>2, SumAdd DEF Summable
<1> QED BY <1>1, <1>3

LEMMA MovementNowhere ==
  ASSUME NEW b, Rows(b), Money(b), NEW js \in SUBSET DOMAIN b.journals
  PROVE  Movement(b, js, {}) = 0
<1> DEFINE f == Nets(b, js, {})
<1>1. Movement(b, js, {}) = SumFunction(f) /\ Summable(f, js)
  BY MovementIs
<1>2. \A j \in js : f[j] = 0
  <2> SUFFICES ASSUME NEW j \in js PROVE f[j] = 0
    OBVIOUS
  <2>1. LineSeq(b.journals[j].lines)
    BY MoneyFact DEF Fair, Listed
  <2> QED BY <2>1, NetNowhere DEF Nets
<1> HIDE DEF f
<1> QED BY <1>1, <1>2, SumZero DEF Summable

\* What each of some accounts comes to.
EachMoved(f, b, js, A) == f = [a \in A |-> Movement(b, js, {a})]

\* What some accounts come to together is what each comes to, added up.
LEMMA MovementAdds ==
  ASSUME NEW b, Rows(b), Money(b), NEW js \in SUBSET DOMAIN b.journals, NEW A, IsFiniteSet(A),
         NEW f, EachMoved(f, b, js, A)
  PROVE  f \in [A -> Int] /\ SumFunction(f) = Movement(b, js, A)
<1>0. f = [a \in A |-> Movement(b, js, {a})]
  BY DEF EachMoved
<1>1. f \in [A -> Int]
  BY <1>0, MovementIs
<1>2. PICK h \in [SUBSET A -> Int] : PartSums(h, f, A)
  BY <1>1, SumsOfParts
<1> DEFINE T == {s \in SUBSET A : Movement(b, js, s) = h[s]}
<1>3. {} \in T
  BY <1>2, MovementNowhere DEF PartSums
<1>4. ASSUME NEW s \in SUBSET A, s # {}, \A x \in s : s \ {x} \in T PROVE s \in T
  <2>1. PICK x \in s : s \ {x} \in T
    BY <1>4
  <2>2. h[s] = f[x] + h[s \ {x}] /\ Movement(b, js, s \ {x}) = h[s \ {x}]
    BY <1>2, <2>1 DEF PartSums
  <2>3. PICK B : B = s \ {x}
    OBVIOUS
  <2>4. x \notin B
    BY <2>3
  <2>5. s = B \cup {x}
    BY <2>3
  <2>6. Movement(b, js, B \cup {x}) = Movement(b, js, B) + Movement(b, js, {x})
    BY <2>4, MovementApart
  <2>7. f[x] = Movement(b, js, {x}) /\ f[x] \in Int /\ h[s \ {x}] \in Int
    BY <1>0, <1>1
  <2>8. PICK m \in Int, n \in Int : m = f[x] /\ n = h[s \ {x}]
    BY <2>7
  <2>9. Movement(b, js, B) = n /\ Movement(b, js, {x}) = m
    BY <2>2, <2>3, <2>7, <2>8
  <2>10. Movement(b, js, s) = n + m
    BY <2>5, <2>6, <2>9
  <2>11. h[s] = m + n
    BY <2>2, <2>8
  <2>12. Movement(b, js, s) = h[s]
    BY <2>10, <2>11
  <2> QED BY <2>12
<1> HIDE DEF T
<1>5. A \in T
  BY <1>3, <1>4, SubsetsCovered
<1>6. SumFunction(f) = h[A]
  <2>1. f = [x \in A |-> f[x]]
    BY <1>1
  <2> QED BY <1>2, <2>1 DEF PartSums
<1> QED BY <1>1, <1>5, <1>6 DEF T

ResultAccounts == RevenueAccounts \cup ExpenseAccounts

LEMMA ResultAccountsFact == IsFiniteSet(ResultAccounts) /\ ResultAccounts \subseteq Accounts
<1>1. IsFiniteSet(RevenueAccounts)
  <2>1. RevenueAccounts = {"SALES"} \cup {"SALES_RETURNS"}
    BY DEF RevenueAccounts
  <2> QED BY <2>1, FS_Singleton, FS_Union
<1>2. IsFiniteSet(ExpenseAccounts)
  <2>1. ExpenseAccounts = (({"COGS"} \cup {"EXPENSES"}) \cup {"COMMISSION_EXPENSE"}) \cup {"MARKETPLACE_FEES"}
    BY DEF ExpenseAccounts
  <2> QED BY <2>1, FS_Singleton, FS_Union
<1>3. ResultAccounts \subseteq Accounts
  BY DEF ResultAccounts, Accounts
<1> QED BY <1>1, <1>2, <1>3, FS_Union DEF ResultAccounts

\* The clearing lines take back what each revenue and expense account comes to.
LEMMA ClearingFact ==
  ASSUME NEW b, Rows(b), Money(b), NEW p, NEW js, js = JournalsIn(b, p),
         NEW q, q = ClearingLines(b, p)
  PROVE  /\ Listed(q) /\ Net(q, Accounts) = -Movement(b, js, ResultAccounts) /\ Blank(q)
         /\ \A a \in ResultAccounts : Net(q, {a}) = -Movement(b, js, {a})
<1> DEFINE mv(a) == Movement(b, js, {a})
           l == [a \in ResultAccounts |-> Line(a, "none", -mv(a))]
           S == {l[a] : a \in ResultAccounts}
           D == 1 .. Len(q)
           c == [k \in D |-> q[k].account]
<1>0. js \in SUBSET DOMAIN b.journals
  BY DEF JournalsIn
<1>1. \A a \in ResultAccounts : mv(a) \in Int /\ Charges(l[a], a, -mv(a))
  <2> SUFFICES ASSUME NEW a \in ResultAccounts PROVE mv(a) \in Int /\ Charges(l[a], a, -mv(a))
    OBVIOUS
  <2>1. mv(a) \in Int
    BY <1>0, MovementIs
  <2>2. PICK m \in Int : m = -mv(a)
    BY <2>1
  <2>3. a \in Accounts
    BY ResultAccountsFact
  <2>4. Charges(Line(a, "none", m), a, m)
    BY <2>3, ChargesFact
  <2> QED BY <2>1, <2>2, <2>4
<1>2. q = SetToSeq(S)
  BY DEF ClearingLines, ResultAccounts
<1>3. IsFiniteSet(S)
  <2>1. S = {l[a] : a \in ResultAccounts}
    OBVIOUS
  <2> HIDE DEF S, l
  <2> QED BY <2>1, ResultAccountsFact, ImageFinite
<1>4. /\ IsSeq(q) /\ \A k \in DOMAIN q : q[k] \in S
      /\ \A i, k \in DOMAIN q : q[i] = q[k] => i = k
      /\ \A x \in S : \E k \in DOMAIN q : q[k] = x
  <2> HIDE DEF S
  <2> QED BY <1>2, <1>3, FiniteToSeq
<1>5. Len(q) \in Nat /\ DOMAIN q = D
  BY <1>4, SeqFact
<1>6. ASSUME NEW k \in D
      PROVE  /\ c[k] \in ResultAccounts /\ q[k] = l[c[k]] /\ c[k] = q[k].account
             /\ IsLine(q[k]) /\ q[k].amount = -mv(c[k])
  <2>1. PICK a \in ResultAccounts : q[k] = l[a]
    <3>1. q[k] \in S
      BY <1>4, <1>5
    <3> HIDE DEF l
    <3> QED BY <3>1
  <2>2. Charges(q[k], a, -mv(a))
    BY <1>1, <2>1
  <2>3. c[k] = q[k].account
    OBVIOUS
  <2> HIDE DEF c, l, mv
  <2> QED BY <2>1, <2>2, <2>3 DEF Charges
<1>7. Listed(q)
  <2>1. \A k \in DOMAIN q : IsLine(q[k]) /\ q[k].account \in Accounts
    BY <1>5, <1>6, ResultAccountsFact
  <2> QED BY <1>4, <2>1 DEF Listed, LineSeq
<1>8. Renames(c, D, ResultAccounts)
  <2>1. c \in [D -> ResultAccounts]
    BY <1>6
  <2>2. ASSUME NEW i \in D, NEW k \in D, c[i] = c[k] PROVE i = k
    <3>1. q[i] = l[c[i]] /\ q[k] = l[c[k]]
      BY <1>6
    <3>2. q[i] = q[k]
      BY <2>2, <3>1
    <3> QED BY <1>4, <1>5, <3>2
  <2>3. ASSUME NEW a \in ResultAccounts PROVE \E k \in D : c[k] = a
    <3>1. l[a] \in S
      OBVIOUS
    <3>2. PICK k \in D : q[k] = l[a]
      BY <1>4, <1>5, <3>1
    <3>3. Charges(q[k], a, -mv(a))
      BY <1>1, <3>2
    <3> QED BY <3>3 DEF Charges
  <2> QED BY <2>1, <2>2, <2>3 DEF Renames
<1>9. ASSUME NEW A
      PROVE  LET f == [a \in ResultAccounts |-> IF a \in A THEN -mv(a) ELSE 0]
             IN f \in [ResultAccounts -> Int] /\ Net(q, A) = SumFunction(f)
  <2> DEFINE f == [a \in ResultAccounts |-> IF a \in A THEN -mv(a) ELSE 0]
             g == Worth(q, A)
  <2>1. f \in [ResultAccounts -> Int]
    <3>1. \A a \in ResultAccounts : mv(a) \in Int
      BY <1>1
    <3> HIDE DEF mv
    <3> QED BY <3>1
  <2>2. Integers(g, Len(q)) /\ \A k \in D : g[k] = IF q[k].account \in A THEN q[k].amount ELSE 0
    BY <1>7, WorthFact DEF Listed
  <2>3. Summable(g, D) /\ Summable(f, ResultAccounts)
    BY <1>5, <2>1, <2>2, IntegersFact, ResultAccountsFact DEF Summable
  <2>4. After(g, f, c, D)
    <3>1. \A k \in D : g[k] = f[c[k]]
      <4> SUFFICES ASSUME NEW k \in D PROVE g[k] = f[c[k]]
        OBVIOUS
      <4>1. c[k] \in ResultAccounts /\ c[k] = q[k].account /\ q[k].amount = -mv(c[k])
        BY <1>6
      <4>2. g[k] = IF c[k] \in A THEN -mv(c[k]) ELSE 0
        BY <2>2, <4>1
      <4> HIDE DEF g, c, mv
      <4> QED BY <4>1, <4>2
    <3> QED BY <3>1 DEF After
  <2> HIDE DEF f, g, c, D
  <2>5. SumFunction(g) = SumFunction(f)
    BY <1>8, <2>3, <2>4, SumRenamed
  <2> QED BY <2>1, <2>5 DEF Net, NetOf, Worth, f, g
<1>10. Net(q, Accounts) = -Movement(b, js, ResultAccounts)
  <2> DEFINE f == [a \in ResultAccounts |-> IF a \in Accounts THEN -mv(a) ELSE 0]
             g == [a \in ResultAccounts |-> Movement(b, js, {a})]
  <2>1. f \in [ResultAccounts -> Int] /\ Net(q, Accounts) = SumFunction(f)
    BY <1>9
  <2>2. g = [a \in ResultAccounts |-> Movement(b, js, {a})]
    OBVIOUS
  <2>3. \A a \in ResultAccounts : f[a] = -g[a]
    BY ResultAccountsFact
  <2> HIDE DEF f, g
  <2>4. g \in [ResultAccounts -> Int] /\ SumFunction(g) = Movement(b, js, ResultAccounts)
    <3>1. IsFiniteSet(ResultAccounts)
      BY ResultAccountsFact
    <3>2. EachMoved(g, b, js, ResultAccounts)
      BY <2>2 DEF EachMoved
    <3> QED BY <1>0, <3>1, <3>2, MovementAdds
  <2>5. SumFunction(f) = -SumFunction(g)
    BY <2>1, <2>3, <2>4, ResultAccountsFact, SumOpposite
  <2> QED BY <2>1, <2>4, <2>5
<1>11. ASSUME NEW e \in ResultAccounts PROVE Net(q, {e}) = -Movement(b, js, {e})
  <2> DEFINE f == [a \in ResultAccounts |-> IF a \in {e} THEN -mv(a) ELSE 0]
  <2>1. f \in [ResultAccounts -> Int] /\ Net(q, {e}) = SumFunction(f)
    BY <1>9
  <2>2. f[e] = -mv(e) /\ \A a \in ResultAccounts \ {e} : f[a] = 0
    OBVIOUS
  <2> HIDE DEF f
  <2>3. SumFunction(f) = f[e]
    BY <2>1, <2>2, ResultAccountsFact, SumOnly
  <2> QED BY <2>1, <2>2, <2>3
<1>12. Blank(q)
  <2>1. ASSUME NEW k \in DOMAIN q PROVE q[k].party = "none"
    <3>1. PICK x : x = Line(c[k], "none", -mv(c[k]))
      OBVIOUS
    <3>2. c[k] \in ResultAccounts /\ q[k] = l[c[k]]
      BY <1>5, <1>6
    <3> HIDE DEF c, mv
    <3>3. q[k] = x
      BY <3>1, <3>2
    <3> QED BY <3>1, <3>3 DEF Line
  <2> QED BY <1>7, <2>1 DEF Blank, Listed
<1> QED BY <1>7, <1>10, <1>11, <1>12

\* What each member is given from retained earnings is added to capital.
LEMMA ShareFact ==
  ASSUME NEW b, b.members \in Seq(DOMAIN Share), NEW n \in Int, NEW q, q = ShareLines(b, n)
  PROVE  /\ Listed(q) /\ Net(q, Accounts) = 0 /\ Blank(q)
         /\ \A a \in ResultAccounts : Net(q, {a}) = 0
<1> DEFINE l == Len(b.members)
           D == 1 .. l
           s == [i \in D |-> Line("RETAINED_EARNINGS", "none", Part(b, n, i))]
           t == [i \in D |-> Line("CAPITAL", "none", -Part(b, n, i))]
           f == Worth(s, Accounts)
           g == Worth(t, Accounts)
<1>1. l \in Nat /\ DOMAIN b.members = D
  BY LenProperties
<1>2. q = s \o t
  BY <1>1 DEF ShareLines
<1>3. ASSUME NEW i \in D
      PROVE  /\ Charges(s[i], "RETAINED_EARNINGS", Part(b, n, i))
             /\ Charges(t[i], "CAPITAL", -Part(b, n, i))
  <2>1. PICK m \in Int : m = Part(b, n, i)
    BY <1>1, PartInt
  <2>2. PICK o \in Int : o = -m
    OBVIOUS
  <2>3. "RETAINED_EARNINGS" \in Accounts /\ "CAPITAL" \in Accounts
    BY DEF Accounts
  <2>4. /\ Charges(Line("RETAINED_EARNINGS", "none", m), "RETAINED_EARNINGS", m)
        /\ Charges(Line("CAPITAL", "none", o), "CAPITAL", o)
    BY <2>3, ChargesFact
  <2> QED BY <2>1, <2>2, <2>4
<1>4. /\ IsSeq(s) /\ Len(s) = l /\ DOMAIN s = D /\ IsSeq(t) /\ Len(t) = l /\ DOMAIN t = D
  <2>1. s = [i \in D |-> s[i]] /\ t = [i \in D |-> t[i]]
    OBVIOUS
  <2> HIDE DEF s, t, l
  <2> QED BY <1>1, <2>1, FunctionSeq
<1>10. (\A i \in D : s[i].party = "none") /\ \A i \in D : t[i].party = "none"
  BY DEF Line
<1> HIDE DEF s, t, l
<1>5. Listed(s) /\ Listed(t)
  BY <1>3, <1>4 DEF Listed, LineSeq, Charges
<1>6. /\ Integers(f, l) /\ \A i \in D : f[i] = Part(b, n, i)
      /\ Integers(g, l) /\ \A i \in D : g[i] = -Part(b, n, i)
  <2>1. Integers(f, l) /\ \A i \in D : f[i] = IF s[i].account \in Accounts THEN s[i].amount ELSE 0
    BY <1>4, <1>5, WorthFact DEF Listed
  <2>2. Integers(g, l) /\ \A i \in D : g[i] = IF t[i].account \in Accounts THEN t[i].amount ELSE 0
    BY <1>4, <1>5, WorthFact DEF Listed
  <2> QED BY <1>3, <2>1, <2>2 DEF Charges
<1>7. Net(t, Accounts) = -Net(s, Accounts) /\ Net(s, Accounts) \in Int
  <2>1. IsFiniteSet(D) /\ f \in [D -> Int] /\ g \in [D -> Int] /\ \A i \in D : g[i] = -f[i]
    BY <1>1, <1>6, IntervalFinite DEF Integers
  <2> HIDE DEF f, g, D
  <2>2. SumFunction(g) = -SumFunction(f) /\ SumFunction(f) \in Int
    BY <2>1, SumOpposite, SumInt
  <2> QED BY <2>2 DEF Net, NetOf, Worth, f, g
<1>8. Listed(q) /\ Net(q, Accounts) = 0
  <2>1. Listed(s \o t) /\ Net(s \o t, Accounts) = Net(s, Accounts) + Net(t, Accounts)
    BY <1>5, ListedJoined
  <2> QED BY <1>2, <1>7, <2>1
<1>9. ASSUME NEW a \in ResultAccounts PROVE Net(q, {a}) = 0
  <2>1. a # "RETAINED_EARNINGS" /\ a # "CAPITAL"
    BY DEF ResultAccounts, RevenueAccounts, ExpenseAccounts
  <2>2. (\A k \in DOMAIN s : s[k].account \notin {a}) /\ (\A k \in DOMAIN t : t[k].account \notin {a})
    BY <1>3, <1>4, <2>1 DEF Charges
  <2>3. Net(s, {a}) = 0 /\ Net(t, {a}) = 0
    BY <1>5, <2>2, NetElsewhere DEF Listed
  <2>4. Net(s \o t, {a}) = Net(s, {a}) + Net(t, {a})
    BY <1>5, NetJoined DEF Listed
  <2> QED BY <1>2, <2>3, <2>4
<1>11. Blank(q)
  <2>1. Blank(s) /\ Blank(t)
    BY <1>4, <1>5, <1>10 DEF Blank, Listed
  <2> QED BY <1>2, <2>1, BlankFact
<1> QED BY <1>8, <1>9, <1>11

\* The closing journal balances, and takes back what each revenue and expense
\* account of the period comes to.
LEMMA ClosingLinesFact ==
  ASSUME NEW b, Rows(b), Money(b), NEW p, NEW net \in Int, NEW js, js = JournalsIn(b, p),
         NEW q, q = ClosingLines(b, p, net)
  PROVE  Fair(q) /\ Blank(q) /\ \A a \in ResultAccounts : Net(q, {a}) = -Movement(b, js, {a})
<1> DEFINE total == Movement(b, js, ResultAccounts)
           clearing == ClearingLines(b, p)
           retained == <<Line("RETAINED_EARNINGS", "none", total)>>
           shares == ShareLines(b, net)
           s == clearing \o retained \o shares
<1>1. q = Lines(s)
  BY DEF ClosingLines, ResultAccounts
<1>2. js \in SUBSET DOMAIN b.journals
  BY DEF JournalsIn
<1>3. total \in Int /\ \A a : Movement(b, js, {a}) \in Int
  BY <1>2, MovementIs
<1>4. /\ Listed(clearing) /\ Net(clearing, Accounts) = -total /\ Blank(clearing)
      /\ \A a \in ResultAccounts : Net(clearing, {a}) = -Movement(b, js, {a})
  BY ClearingFact
<1>5. /\ Listed(retained) /\ Net(retained, Accounts) = total /\ Blank(retained)
      /\ \A a \in ResultAccounts : Net(retained, {a}) = 0
  <2>1. PICK m \in Int : m = total
    BY <1>3
  <2>2. "RETAINED_EARNINGS" \in Accounts
    BY DEF Accounts
  <2>3. Charges(Line("RETAINED_EARNINGS", "none", m), "RETAINED_EARNINGS", m)
    BY <2>2, ChargesFact
  <2>4. /\ Listed(<<Line("RETAINED_EARNINGS", "none", m)>>)
        /\ Net(<<Line("RETAINED_EARNINGS", "none", m)>>, Accounts) = m
    BY <2>3, ListedOne
  <2>5. ASSUME NEW a \in ResultAccounts
        PROVE  Net(<<Line("RETAINED_EARNINGS", "none", m)>>, {a}) = 0
    <3>1. "RETAINED_EARNINGS" \notin {a}
      BY DEF ResultAccounts, RevenueAccounts, ExpenseAccounts
    <3> QED BY <2>3, <3>1, NetOne DEF Charges
  <2>6. Blank(<<Line("RETAINED_EARNINGS", "none", m)>>)
    BY BlankFact
  <2> QED BY <2>1, <2>4, <2>5, <2>6
<1>6. /\ Listed(shares) /\ Net(shares, Accounts) = 0 /\ Blank(shares)
      /\ \A a \in ResultAccounts : Net(shares, {a}) = 0
  BY ShareFact, MoneyFact
<1> HIDE DEF clearing, retained, shares, total
<1> DEFINE t == clearing \o retained
<1>7. /\ Listed(t) /\ Net(t, Accounts) = 0
      /\ \A a \in ResultAccounts : Net(t, {a}) = -Movement(b, js, {a})
  <2>1. Listed(t) /\ Net(t, Accounts) = Net(clearing, Accounts) + Net(retained, Accounts)
    BY <1>4, <1>5, ListedJoined
  <2>2. \A A : Net(t, A) = Net(clearing, A) + Net(retained, A)
    BY <1>4, <1>5, NetJoined DEF Listed
  <2>3. Net(t, Accounts) = 0
    BY <1>3, <1>4, <1>5, <2>1
  <2>4. ASSUME NEW a \in ResultAccounts PROVE Net(t, {a}) = -Movement(b, js, {a})
    <3>1. Net(clearing, {a}) = -Movement(b, js, {a}) /\ Net(retained, {a}) = 0
      BY <1>4, <1>5
    <3>2. Movement(b, js, {a}) \in Int
      BY <1>3
    <3> HIDE DEF t
    <3> QED BY <2>2, <3>1, <3>2
  <2> QED BY <2>1, <2>3, <2>4
<1>8. s = t \o shares
  OBVIOUS
<1> HIDE DEF t, s
<1>9. /\ Listed(s) /\ Net(s, Accounts) = 0
      /\ \A a \in ResultAccounts : Net(s, {a}) = -Movement(b, js, {a})
  <2>1. Listed(t \o shares) /\ Net(t \o shares, Accounts) = Net(t, Accounts) + Net(shares, Accounts)
    BY <1>6, <1>7, ListedJoined
  <2>2. \A A : Net(t \o shares, A) = Net(t, A) + Net(shares, A)
    BY <1>6, <1>7, NetJoined DEF Listed
  <2>3. ASSUME NEW a \in ResultAccounts PROVE Net(s, {a}) = -Movement(b, js, {a})
    <3>1. Net(t, {a}) = -Movement(b, js, {a}) /\ Net(shares, {a}) = 0
      BY <1>6, <1>7
    <3>2. Movement(b, js, {a}) \in Int
      BY <1>3
    <3> QED BY <1>8, <2>2, <3>1, <3>2
  <2> QED BY <1>6, <1>7, <1>8, <2>1, <2>3
<1>10. Fair(Lines(s)) /\ \A A : Net(Lines(s), A) = Net(s, A)
  BY <1>9, ListedLines, NetLines DEF Listed
<1>11. Blank(Lines(s))
  <2>1. Blank(t)
    BY <1>4, <1>5, BlankFact DEF t
  <2> QED BY <1>6, <1>8, <2>1, BlankFact
<1> QED BY <1>1, <1>9, <1>10, <1>11

LEMMA AdjustmentFair ==
  ASSUME NEW p, NEW date, NEW amount \in Int, NEW debit \in Accounts, NEW credit \in Accounts
  PROVE  /\ AllFair(AdjustmentJournals(p, date, amount, debit, credit))
         /\ AllBlank(AdjustmentJournals(p, date, amount, debit, credit))
<1>1. CASE amount = 0
  BY <1>1, AllFairFact, AllBlankFact DEF AdjustmentJournals
<1>2. CASE amount # 0
  <2> DEFINE s == <<Line(debit, "none", amount), Line(credit, "none", -amount)>>
  <2>1. AdjustmentJournals(p, date, amount, debit, credit) = <<Journal(p, 0, date, s)>>
    BY <1>2 DEF AdjustmentJournals
  <2>2. PICK o \in Int : o = -amount
    OBVIOUS
  <2>3. Charges(Line(debit, "none", amount), debit, amount) /\ Charges(Line(credit, "none", o), credit, o)
    BY ChargesFact
  <2>4. /\ Listed(<<Line(debit, "none", amount), Line(credit, "none", o)>>)
        /\ Net(<<Line(debit, "none", amount), Line(credit, "none", o)>>, Accounts) = amount + o
    BY <2>3, ListedTwo
  <2>5. Listed(s) /\ Net(s, Accounts) = 0
    BY <2>2, <2>4
  <2>6. \A k \in DOMAIN s : s[k].amount # 0
    <3>1. DOMAIN s = {1, 2} /\ s[1] = Line(debit, "none", amount) /\ s[2] = Line(credit, "none", o)
      BY <2>2
    <3>2. s[1].amount = amount /\ s[2].amount = o
      BY <2>3, <3>1 DEF Charges
    <3> HIDE DEF s
    <3> QED BY <1>2, <2>2, <3>1, <3>2
  <2>8. Blank(s)
    BY <2>2, BlankFact
  <2> HIDE DEF s
  <2>7. Fair(s)
    BY <2>5, <2>6, NetBalanced DEF Fair, Listed
  <2> QED BY <2>1, <2>7, <2>8, AllFairFact, AllBlankFact
<1> QED BY <1>1, <1>2

LEMMA MoneyAdjusted ==
  ASSUME NEW b, Sound(b), Money(b), NEW r, r.cogs \in Int, r.commission \in Int, NEW date,
         NEW c, c = Adjusted(b, r, date)
  PROVE  /\ Money(c) /\ c.sources = b.sources /\ c.allocs = b.allocs /\ c.periods = b.periods
         /\ c.counts = b.counts /\ c.members = b.members
         /\ Positioned(b) => Positioned(c)
<1> DEFINE us == IF b.perpetual THEN <<>>
                 ELSE AdjustmentJournals(r.period, date, r.cogs, "COGS", "INVENTORY")
           vs == AdjustmentJournals(r.period, date, r.commission, "COMMISSION_EXPENSE", "COMMISSION_PAYABLE")
<1>1. /\ "COGS" \in Accounts /\ "INVENTORY" \in Accounts
      /\ "COMMISSION_EXPENSE" \in Accounts /\ "COMMISSION_PAYABLE" \in Accounts
  BY DEF Accounts, ExpenseAccounts
<1>2. AllFair(us) /\ AllFair(vs) /\ AllBlank(us) /\ AllBlank(vs)
  BY <1>1, AdjustmentFair, AllFairFact, AllBlankFact
<1>3. c = Write(b, us \o vs)
  BY DEF Adjusted
<1>4. BookRecord(b) /\ IsSeq(b.journals)
  BY DEF Sound, Rows
<1> HIDE DEF us, vs
<1>5. AllFair(us \o vs)
  BY <1>2, AllFairFact
<1>6. IsSeq(us \o vs) /\ AllBlank(us \o vs)
  BY <1>2, <1>5, AllBlankFact DEF AllFair
<1>7. c.journals = b.journals \o (us \o vs) /\ c.sources = b.sources
  <2>1. PICK js : js = us \o vs
    OBVIOUS
  <2>2. c = Write(b, js) /\ AllFair(js)
    BY <1>3, <1>5, <2>1
  <2>3. c.journals = b.journals \o js /\ c.sources = b.sources
    BY <1>4, <2>2, MoneyWrite
  <2> QED BY <2>1, <2>3
<1>8. Summed(b)
  BY <1>4, SummedFact DEF Sound, Rows
<1>9. Positioned(b) => Positioned(c)
  BY <1>6, <1>7, <1>8, PositionedWrite
<1> QED BY <1>3, <1>4, <1>5, <1>9, MoneyWrite

-----------------------------------------------------------------------------
(* What the journals of a period come to *)

LEMMA MovementKept ==
  ASSUME NEW b, NEW c, NEW js, \A j \in js : c.journals[j] = b.journals[j], NEW A
  PROVE  Movement(c, js, A) = Movement(b, js, A)
BY DEF Movement

PostedTo(b, c, j) == c.journals = b.journals \o <<j>>

LEMMA MovementPosted ==
  ASSUME NEW b, Rows(b), Money(b), NEW c, Rows(c), Money(c), NEW j, PostedTo(b, c, j), NEW A
  PROVE  Movement(c, JournalsIn(c, j.period), A)
           = Movement(b, JournalsIn(b, j.period), A) + Net(j.lines, A)
<1> DEFINE n == Len(b.journals) + 1
           p == j.period
           new == JournalsIn(c, p)
           old == JournalsIn(b, p)
           f == Nets(c, new, A)
           g == Nets(b, old, A)
<1>1. /\ Len(b.journals) \in Nat /\ DOMAIN b.journals = 1 .. Len(b.journals)
      /\ DOMAIN c.journals = 1 .. n /\ c.journals[n] = j
      /\ \A k \in DOMAIN b.journals : c.journals[k] = b.journals[k]
  <2>1. IsSeq(b.journals) /\ IsSeq(<<j>>) /\ Len(<<j>>) = 1 /\ <<j>>[1] = j
    BY OneFact DEF Rows
  <2>2. c.journals = b.journals \o <<j>>
    BY DEF PostedTo
  <2> QED BY <2>1, <2>2, ConcatFact, SeqFact
<1>2. /\ old \in SUBSET DOMAIN b.journals /\ new \in SUBSET DOMAIN c.journals
      /\ n \in new /\ new \ {n} = old
  BY <1>1 DEF JournalsIn
<1>3. /\ Movement(c, new, A) = SumFunction(f) /\ Summable(f, new)
      /\ Movement(b, old, A) = SumFunction(g) /\ Summable(g, old)
  BY <1>2, MovementIs
<1>4. f[n] = Net(j.lines, A)
  BY <1>1, <1>2 DEF Nets
<1>5. [x \in new \ {n} |-> f[x]] = g
  <2>1. \A x \in old : x \in new /\ f[x] = g[x]
    <3>1. \A x \in old : x \in new /\ c.journals[x] = b.journals[x]
      BY <1>1, <1>2
    <3> QED BY <3>1 DEF Nets
  <2>2. g = [x \in old |-> g[x]]
    BY DEF Nets
  <2> HIDE DEF f, g, new, old
  <2> QED BY <1>2, <2>1, <2>2
<1> HIDE DEF f, g, new, old, n
<1>6. SumFunction(f) = f[n] + SumFunction([x \in new \ {n} |-> f[x]])
  <2>1. IsFiniteSet(new) /\ f \in [new -> Int] /\ n \in new
    BY <1>2, <1>3 DEF Summable
  <2> QED BY <2>1, SumTake
<1>7. SumFunction(g) \in Int /\ f[n] \in Int
  BY <1>2, <1>3, SummableFact DEF Summable
<1>8. Movement(c, new, A) = Movement(b, old, A) + Net(j.lines, A)
  BY <1>3, <1>4, <1>5, <1>6, <1>7
<1> QED BY <1>8 DEF new, old

\* No revenue and no expense is left in a period.
Cleared(b, p) == \A a \in ResultAccounts : Movement(b, JournalsIn(b, p), {a}) = 0

LEMMA ClearedFact ==
  ASSUME NEW b, Sound(b), Money(b), NEW p \in OpenPeriods(b), NEW date \in Dates,
         Within(b.periods[p], date), NEW net \in Int,
         NEW c, c = Write(b, ClosingJournals(b, p, date, net))
  PROVE  /\ Money(c) /\ c.sources = b.sources /\ c.allocs = b.allocs /\ c.periods = b.periods
         /\ c.counts = b.counts /\ c.members = b.members /\ Sound(c) /\ Cleared(c, p)
         /\ Positioned(b) => Positioned(c)
<1> DEFINE q == ClosingLines(b, p, net)
           j == Journal(p, 0, date, q)
           js == JournalsIn(b, p)
           ks == ClosingJournals(b, p, date, net)
<1>1. Rows(b) /\ BookRecord(b) /\ IsSeq(b.journals)
  BY DEF Sound, Rows
<1>2. Fair(q) /\ Blank(q) /\ \A a \in ResultAccounts : Net(q, {a}) = -Movement(b, js, {a})
  BY <1>1, ClosingLinesFact
<1>3. \A A : Movement(b, js, A) \in Int
  BY <1>1, MovementIs DEF JournalsIn
<1>4. ks = IF q = <<>> THEN <<>> ELSE <<j>>
  BY DEF ClosingJournals
<1>5. j.lines = q /\ j.period = p
  BY DEF Journal
<1>6. AllFair(ks) /\ AllPostable(b, ks)
  <2>1. AllFair(<<>>) /\ AllFair(<<j>>)
    BY <1>2, AllFairFact
  <2>2. AllPostable(b, <<>>) /\ AllPostable(b, <<j>>)
    BY ClosingJournalFact
  <2> QED BY <1>4, <2>1, <2>2
<1>11. AllBlank(ks)
  <2>1. AllBlank(<<>>) /\ AllBlank(<<j>>)
    BY <1>2, AllBlankFact
  <2> QED BY <1>4, <2>1
<1>7. c = Write(b, ks)
  OBVIOUS
<1> HIDE DEF j, q, ks
<1>8. /\ Money(c) /\ c.sources = b.sources /\ c.allocs = b.allocs /\ c.periods = b.periods
      /\ c.counts = b.counts /\ c.members = b.members /\ c.journals = b.journals \o ks
  BY <1>1, <1>6, <1>7, MoneyWrite
<1>9. Sound(c)
  BY <1>6, <1>7, WriteFact DEF AllPostable
<1>10. Cleared(c, p)
  <2> SUFFICES ASSUME NEW a \in ResultAccounts PROVE Movement(c, JournalsIn(c, p), {a}) = 0
    BY DEF Cleared
  <2>1. CASE q = <<>>
    <3>1. Net(q, {a}) = 0
      BY <2>1, NetNone
    <3>2. ks = <<>>
      BY <1>4, <2>1
    <3>3. b.journals \o <<>> = b.journals
      BY <1>1 DEF IsSeq
    <3>4. c.journals = b.journals
      BY <1>8, <3>2, <3>3
    <3>5. Movement(c, JournalsIn(c, p), {a}) = Movement(b, js, {a})
      BY <3>4 DEF Movement, JournalsIn
    <3>6. Net(q, {a}) = -Movement(b, js, {a}) /\ Movement(b, js, {a}) \in Int
      BY <1>2, <1>3
    <3> QED BY <3>1, <3>5, <3>6
  <2>2. CASE q # <<>>
    <3>1. c.journals = b.journals \o <<j>>
      BY <1>4, <1>8, <2>2
    <3>2. Rows(c)
      BY <1>9 DEF Sound
    <3>3. Movement(c, JournalsIn(c, j.period), {a})
            = Movement(b, JournalsIn(b, j.period), {a}) + Net(j.lines, {a})
      <4>1. PostedTo(b, c, j) /\ Rows(b) /\ Money(c)
        BY <1>1, <1>8, <3>1 DEF PostedTo
      <4> QED BY <3>2, <4>1, MovementPosted
    <3>4. Net(q, {a}) = -Movement(b, js, {a}) /\ Movement(b, js, {a}) \in Int
      BY <1>2, <1>3
    <3> QED BY <1>5, <3>3, <3>4
  <2> QED BY <2>1, <2>2
<1>12. Positioned(b) => Positioned(c)
  <2>1. Summed(b)
    BY <1>1, SummedFact DEF Rows
  <2> QED BY <1>6, <1>8, <1>11, <2>1, PositionedWrite DEF AllFair
<1> QED BY <1>8, <1>9, <1>10, <1>12

LEMMA MoneySettled ==
  ASSUME NEW b, Sound(b), Money(b), NEW p \in OpenPeriods(b), NEW date \in Dates,
         Within(b.periods[p], date), LaterOpen(b, p) # {},
         NEW r, r.period = p, r.cogs \in Int, r.commission \in Int, r.net \in Int,
         NEW c, c = Settled(b, r, date)
  PROVE  /\ Money(c) /\ Cleared(c, p) /\ Frozen(c) = Frozen(b) \cup {p}
         /\ c.sources = b.sources /\ c.allocs = b.allocs /\ c.members = b.members
         /\ Positioned(b) => Positioned(c)
<1> DEFINE b1 == Adjusted(b, r, date)
           b2 == Write(b1, ClosingJournals(b1, p, date, r.net))
           n == FirstOf(b, LaterOpen(b, p))
           count == Count(Carried, n, b.periods[n].start, ClosingStock(b, b.periods[p].start, date))
           capital == [m \in DOMAIN b2.capital |->
                         LET i == CHOOSE k \in DOMAIN b.members : b.members[k] = m
                         IN ClosingCapital(b, p, r.net, i)]
<1>1. Rows(b) /\ p \in DOMAIN b.periods /\ b.periods[p].open
  BY DEF Sound, OpenPeriods
<1>2. /\ Money(b1) /\ b1.sources = b.sources /\ b1.allocs = b.allocs /\ b1.periods = b.periods
      /\ b1.counts = b.counts /\ b1.members = b.members /\ Sound(b1)
      /\ Positioned(b) => Positioned(b1)
  BY MoneyAdjusted, AdjustedFact
<1>3. MoneyCount(count)
  <2>1. n \in LaterOpen(b, p)
    <3>1. LaterOpen(b, p) \subseteq DOMAIN b.periods
      BY DEF LaterOpen, OpenPeriods
    <3> QED BY <1>1, <3>1, LastOfFact
  <2>2. n \in DOMAIN b.periods
    BY <2>1 DEF LaterOpen, OpenPeriods
  <2>3. b.periods[n].start \in Dates /\ b.periods[p].start \in Dates
    BY <1>1, <2>2, PeriodFact DEF Dates
  <2>4. ClosingStock(b, b.periods[p].start, date) \in Nat
    BY <1>1, <2>3, StockCounted
  <2> HIDE DEF n
  <2> QED BY <2>3, <2>4, CountIs DEF Carried
<1>4. c = [b2 EXCEPT !.periods[p].open = FALSE, !.closes = Append(@, r), !.capital = capital,
                     !.counts = @ \cup {count}]
  BY DEF Settled
<1> HIDE DEF b1, n, count, capital
<1>5. p \in OpenPeriods(b1) /\ Within(b1.periods[p], date)
  BY <1>1, <1>2 DEF OpenPeriods
<1>6. b2 = Write(b1, ClosingJournals(b1, p, date, r.net))
  OBVIOUS
<1> HIDE DEF b2
<1>7. /\ Money(b2) /\ b2.sources = b1.sources /\ b2.allocs = b1.allocs /\ b2.periods = b1.periods
      /\ b2.counts = b1.counts /\ b2.members = b1.members /\ Sound(b2) /\ Cleared(b2, p)
      /\ Positioned(b1) => Positioned(b2)
  BY <1>2, <1>5, <1>6, ClearedFact
<1>8. BookRecord(b2)
  BY <1>7 DEF Sound, Rows
<1>9. /\ c.sources = b2.sources /\ c.journals = b2.journals /\ c.allocs = b2.allocs
      /\ c.members = b2.members /\ c.counts = b2.counts \cup {count}
      /\ c.periods = [b2.periods EXCEPT ![p] = [b2.periods[p] EXCEPT !.open = FALSE]]
  BY <1>4, <1>8 DEF BookRecord
<1>10. Money(c)
  <2>1. (\A m \in c.counts : MoneyCount(m)) /\ Paying(c.allocs)
    BY <1>3, <1>7, <1>9, MoneyFact
  <2> QED BY <1>7, <1>9, <2>1, MoneyBeside
<1>11. Cleared(c, p)
  <2>1. JournalsIn(c, p) = JournalsIn(b2, p) /\ \A j \in JournalsIn(b2, p) : c.journals[j] = b2.journals[j]
    BY <1>9 DEF JournalsIn
  <2>2. \A a : Movement(c, JournalsIn(c, p), {a}) = Movement(b2, JournalsIn(b2, p), {a})
    BY <2>1, MovementKept
  <2> QED BY <1>7, <2>2 DEF Cleared
<1>12. Frozen(c) = Frozen(b) \cup {p}
  <2>1. b2.periods = b.periods
    BY <1>2, <1>7
  <2>2. b.periods[p] = [start |-> b.periods[p].start, end |-> b.periods[p].end, open |-> b.periods[p].open]
    BY <1>1, PeriodFact DEF Periods
  <2>3. [b.periods[p] EXCEPT !.open = FALSE].open = FALSE
    BY <2>2
  <2>4. /\ DOMAIN c.periods = DOMAIN b.periods /\ c.periods[p].open = FALSE
        /\ \A q \in DOMAIN b.periods \ {p} : c.periods[q] = b.periods[q]
    BY <1>1, <1>9, <2>1, <2>3
  <2> QED BY <1>1, <2>4 DEF Frozen, OpenPeriods
<1>13. Positioned(b) => Positioned(c)
  BY <1>2, <1>7, <1>9, PositionedSame
<1> QED BY <1>2, <1>7, <1>9, <1>10, <1>11, <1>12, <1>13

\* Every closed period was cleared.
Zeroed(b) == \A p \in Frozen(b) : Cleared(b, p)

\* What closed stays cleared.
LEMMA ZeroedLater ==
  ASSUME NEW b, Zeroed(b), NEW c, Later(b, c),
         \A p \in Frozen(c) \ Frozen(b) : Cleared(c, p)
  PROVE  Zeroed(c)
<1> SUFFICES ASSUME NEW p \in Frozen(b) PROVE Cleared(c, p)
  BY DEF Zeroed
<1>1. JournalsIn(c, p) = JournalsIn(b, p) /\ \A j \in JournalsIn(b, p) : c.journals[j] = b.journals[j]
  BY DEF Later, JournalsIn
<1>2. \A a : Movement(c, JournalsIn(c, p), {a}) = Movement(b, JournalsIn(b, p), {a})
  BY <1>1, MovementKept
<1> QED BY <1>2 DEF Cleared, Zeroed

LEMMA PreparedFrozen ==
  ASSUME NEW b, Sound(b), NEW date \in Dates, NEW explicit, NEW opening, NEW actual,
         CanClose(b, date, explicit, opening, actual),
         NEW c, c = Prepared(b, date, explicit, opening, actual)
  PROVE  Frozen(c) = Frozen(b)
<1> DEFINE p == ClosingPeriod(b)
           a == Counted(b, p, date, opening, actual)
           n == [start |-> a.periods[p].end + 1, end |-> NextEnd(a, p, explicit), open |-> TRUE]
<1>1. /\ p \in OpenPeriods(b) /\ p \in DOMAIN b.periods /\ BookRecord(b) /\ b.periods[p].open
      /\ b.periods[p] \in Periods
  BY FirstOpen, PeriodFact DEF Sound, Rows, OpenPeriods
<1>2. /\ Sound(a) /\ OpenPeriods(a) = OpenPeriods(b)
  <2>1. p = ClosingPeriod(b) /\ a = Counted(b, p, date, opening, actual)
    OBVIOUS
  <2> HIDE DEF a, p
  <2> QED BY <2>1, CountedFact
<1>3. DOMAIN a.periods = DOMAIN b.periods
  <2>1. \E counts : a = [b EXCEPT !.periods[p].end = date, !.counts = counts]
    BY DEF Counted
  <2> HIDE DEF a, p
  <2> QED BY <1>1, <2>1 DEF BookRecord
<1>4. c = IF LaterOpen(a, p) # {} THEN a ELSE [a EXCEPT !.periods = Append(@, n)]
  BY DEF Prepared, WithNext
<1>5. n.open
  OBVIOUS
<1> HIDE DEF a, p, n
<1>6. Frozen(a) = Frozen(b)
  BY <1>2, <1>3 DEF Frozen
<1>7. ASSUME c = [a EXCEPT !.periods = Append(a.periods, n)] PROVE Frozen(c) = Frozen(a)
  <2>1. BookRecord(a) /\ a.periods \in Seq(Periods)
    BY <1>2 DEF Sound, Rows
  <2>2. IsSeq(a.periods)
    BY <2>1, InRange
  <2>3. c.periods = Append(a.periods, n)
    BY <1>7, <2>1 DEF BookRecord
  <2>4. /\ DOMAIN c.periods = 1 .. Len(a.periods) + 1 /\ c.periods[Len(a.periods) + 1] = n
        /\ \A q \in 1 .. Len(a.periods) : c.periods[q] = a.periods[q]
        /\ DOMAIN a.periods = 1 .. Len(a.periods) /\ Len(a.periods) \in Nat
    BY <2>2, <2>3, AppendFact, SeqFact
  <2> QED BY <1>5, <2>4 DEF Frozen, OpenPeriods
<1> QED BY <1>4, <1>6, <1>7

LEMMA MoneyClosed ==
  ASSUME NEW b, Sound(b), Money(b), NEW date \in Dates, NEW explicit,
         NEW opening \in Nat, NEW actual \in Nat, CanClose(b, date, explicit, opening, actual),
         NEW c, c = Closed(b, date, explicit, opening, actual)
  PROVE  /\ Money(c) /\ c.sources = b.sources /\ c.allocs = b.allocs /\ c.members = b.members
         /\ Zeroed(b) => Zeroed(c)
         /\ Positioned(b) => Positioned(c)
<1> DEFINE p == ClosingPeriod(b)
           a == Prepared(b, date, explicit, opening, actual)
           r == Result(a, p, date)
<1>1. /\ Sound(a) /\ Later(b, a) /\ p \in OpenPeriods(a) /\ Within(a.periods[p], date)
      /\ LaterOpen(a, p) # {} /\ a.periods[p].end = date
      /\ \A q \in OpenPeriods(a) \ {p} : date < a.periods[q].start
      /\ Money(a) /\ Frozen(a) = Frozen(b) /\ a.sources = b.sources /\ a.allocs = b.allocs
      /\ a.journals = b.journals /\ a.members = b.members
  <2>1. p = ClosingPeriod(b) /\ a = Prepared(b, date, explicit, opening, actual)
    OBVIOUS
  <2> HIDE DEF a, p
  <2> QED BY <2>1, PreparedFact, MoneyPrepared, PreparedFrozen
<1>2. c = Settled(a, r, date)
  BY DEF Closed
<1>3. r = Result(a, p, date)
  OBVIOUS
<1> HIDE DEF a, p, r
<1>4. r.period = p /\ r.cogs \in Int /\ r.commission \in Int /\ r.net \in Int
  <2>1. Rows(a) /\ p \in DOMAIN a.periods
    BY <1>1 DEF Sound, OpenPeriods
  <2> QED BY <1>1, <1>3, <2>1, ResultFact
<1>5. /\ Money(c) /\ Cleared(c, p) /\ Frozen(c) = Frozen(a) \cup {p}
      /\ c.sources = a.sources /\ c.allocs = a.allocs /\ c.members = a.members
      /\ Positioned(a) => Positioned(c)
  BY <1>1, <1>2, <1>4, MoneySettled
<1>6. Later(b, c)
  BY ClosedFact
<1>7. ASSUME Zeroed(b) PROVE Zeroed(c)
  <2>1. \A q \in Frozen(c) \ Frozen(b) : Cleared(c, q)
    BY <1>1, <1>5
  <2> QED BY <1>6, <1>7, <2>1, ZeroedLater
<1>8. Positioned(b) => Positioned(a)
  BY <1>1, PositionedSame
<1> QED BY <1>1, <1>5, <1>7, <1>8

-----------------------------------------------------------------------------
(* What a user enters has amounts and accounts that are known *)

Valued(doc) ==
  doc.total \in Nat /\ doc.tax \in Nat /\ doc.units \in Int /\ Charted(doc)

LEMMA EntryGiven ==
  ASSUME NEW b, Sound(b), NEW doc, Entry(Range(b.members), doc)
  PROVE  /\ Fresh(b, doc) /\ Valued(doc)
         /\ doc.type \notin Notes => Given(b, doc)
<1>1. Fresh(b, doc)
  BY EntryFact
<1>2. Valued(doc)
  BY DEF Entry, Valued
<1>3. doc.type \notin Notes => Priced(doc) /\ Noted(b, doc)
  BY <1>2 DEF Valued, Priced, Noted, Entry
<1> QED BY <1>1, <1>2, <1>3 DEF Given

\* A note is about stock, or the account of the bill that a supplier's note names.
LEMMA NoteGiven ==
  ASSUME NEW b, Sound(b), Money(b), NEW doc, Fresh(b, doc), Valued(doc), doc.type \in Notes,
         NEW q \in 0 .. Len(b.sources),
         doc.party = "supplier" /\ q # 0 => b.sources[q].type \in Purchases,
         NEW e, e = NoteOn(b, doc, q)
  PROVE  Given(b, e) /\ e.type = doc.type
<1> DEFINE account == IF doc.party = "supplier" /\ q # 0 THEN b.sources[q].account ELSE "INVENTORY"
<1>1. account \in {"INVENTORY", "EXPENSES"}
  <2>1. ASSUME doc.party = "supplier", q # 0 PROVE b.sources[q].account \in {"INVENTORY", "EXPENSES"}
    <3>1. q \in DOMAIN b.sources
      BY <2>1, SeqFact DEF Sound, Rows
    <3> QED BY <2>1, <3>1, MoneyFact DEF Priced, Charted
  <2> QED BY <2>1
<1>2. e = [doc EXCEPT !.link = q, !.account = account]
  BY DEF NoteOn
<1> HIDE DEF account
<1>3. /\ Fresh(b, e) /\ e.type = doc.type /\ e.account = account /\ e.link = q
      /\ e.total = doc.total /\ e.tax = doc.tax /\ e.units = doc.units
      /\ e.cash = doc.cash /\ e.party = doc.party
  BY <1>2 DEF Fresh, SourceRow
<1>4. Charted(e)
  <2>1. doc.type \notin {"cash_sale", "receipt", "supplier_payment", "expense", "drawing",
                         "commission_payment", "manual_asset", "opening_balance",
                         "manual_liability"} \cup Purchases
    BY DEF Notes, Purchases
  <2>2. doc.cash \in CashAccounts \cup {"none"}
    BY DEF Valued, Charted
  <2> QED BY <1>3, <2>1, <2>2 DEF Charted, Purchases
<1>5. Priced(e)
  BY <1>1, <1>3, <1>4 DEF Priced, Valued
<1>6. Noted(b, e)
  BY <1>3 DEF Noted, Notes
<1> QED BY <1>3, <1>5, <1>6 DEF Given

LEMMA EntriesGiven ==
  ASSUME NEW b, Sound(b), Money(b), NEW entry, Entry(Range(b.members), entry),
         NEW doc \in Entries(b, entry)
  PROVE  Given(b, doc) /\ doc.type = entry.type
<1>1. Fresh(b, entry) /\ Valued(entry)
  BY EntryGiven
<1>2. CASE entry.type \notin Notes
  BY <1>2, EntryGiven DEF Entries
<1>3. CASE entry.type \in Notes
  <2>1. PICK q \in Links(b, entry) : doc = NoteOn(b, entry, q)
    BY <1>3 DEF Entries
  <2>2. DOMAIN b.sources = 1 .. Len(b.sources) /\ Len(b.sources) \in Nat
    BY SeqFact DEF Sound, Rows
  <2>3. /\ q \in 0 .. Len(b.sources)
        /\ entry.party = "supplier" /\ q # 0 => b.sources[q].type \in Purchases
    BY <2>2 DEF Links
  <2> QED BY <1>1, <1>3, <2>1, <2>3, NoteGiven
<1> QED BY <1>2, <1>3

LEMMA EditGiven ==
  ASSUME scenario \in DOMAIN Scenarios, NEW b, Sound(b), Money(b), b.members = Now.book.members,
         NEW s \in DOMAIN b.sources,
         NEW doc \in EditsOf(b, s)
  PROVE  Given(b, doc) /\ doc.type \in SameKind(b.sources[s].type)
<1>1. PICK d \in Now.entries :
        /\ d.type \in SameKind(b.sources[s].type)
        /\ doc = IF d.type \in Notes THEN NoteOn(b, [d EXCEPT !.party = b.sources[s].party], b.sources[s].link)
                 ELSE d
  BY DEF EditsOf
<1>2. Entry(Range(b.members), d)
  BY ScenarioFact
<1>3. Fresh(b, d) /\ Valued(d)
  BY <1>2, EntryGiven
<1>4. CASE d.type \notin Notes
  BY <1>1, <1>2, <1>4, EntryGiven
<1>5. CASE d.type \in Notes
  <2> DEFINE e == [d EXCEPT !.party = b.sources[s].party]
             q == b.sources[s].link
  <2>1. Fresh(b, e) /\ PricedAs(e, d) /\ e.party = b.sources[s].party
    BY <1>3 DEF Fresh, SourceRow, PricedAs
  <2>2. Valued(e) /\ e.type = d.type
    BY <1>3, <2>1 DEF PricedAs, Valued, Charted
  <2>3. b.sources[s].type \in Notes
    BY <1>1, <1>5 DEF SameKind, Purchases, ManualCash, Notes
  <2>4. Noted(b, b.sources[s]) /\ SourceRow(b, b.sources[s])
    BY MoneyFact DEF Sound, Rows
  <2>5. q \in 0 .. Len(b.sources) /\ (e.party = "supplier" /\ q # 0 => b.sources[q].type \in Purchases)
    BY <2>1, <2>3, <2>4 DEF Noted, SourceRow
  <2>6. doc = NoteOn(b, e, q)
    BY <1>1, <1>5
  <2> HIDE DEF e, q
  <2> QED BY <1>1, <1>5, <2>1, <2>2, <2>5, <2>6, NoteGiven
<1> QED BY <1>4, <1>5

LEMMA SlipsGiven ==
  ASSUME NEW b, Sound(b), NEW doc, doc.total \in Nat, NEW apply \in Applications(b, doc)
  PROVE  Paying(apply) /\ Applying(b, apply) /\ Slips(apply)
<1>1. Paying(apply) /\ Applying(b, apply)
  BY ApplicationsPaying, ApplicationsFact DEF Sound
<1>2. apply = {} \/ apply \subseteq [invoice : Invoices(b), amount : 1 .. doc.total]
  BY DEF Applications
<1>3. \A a \in [invoice : Invoices(b), amount : 1 .. doc.total] :
        a = [invoice |-> a.invoice, amount |-> a.amount]
  OBVIOUS
<1> QED BY <1>1, <1>2, <1>3 DEF Slips

-----------------------------------------------------------------------------
(* Each operation keeps the amounts of the book *)

MoneyInv ==
  /\ BookInv /\ Money(book) /\ Zeroed(book) /\ Funded(book) /\ Positioned(book)
  /\ book.members = Now.book.members

\* What an operation other than a close does.
Kept == Carries(book, book')

LEMMA ScenarioCounts ==
  ASSUME scenario \in DOMAIN Scenarios PROVE \A n \in Now.counts : n \in Nat
BY ScenariosAssumption DEF Now

LEMMA IssueKeeps == ASSUME MoneyInv, Issue PROVE Kept
<1>1. PICK entry \in Now.entries : \E doc \in Entries(book, entry) :
        \E apply \in Applications(book, doc) :
          doc.type # "opening_balance" /\ CanCreate(book, doc, apply) /\ book' = Create(book, doc, apply)
  BY DEF Issue
<1>2. PICK doc \in Entries(book, entry) : \E apply \in Applications(book, doc) :
        doc.type # "opening_balance" /\ CanCreate(book, doc, apply) /\ book' = Create(book, doc, apply)
  BY <1>1
<1>3. PICK apply \in Applications(book, doc) :
        doc.type # "opening_balance" /\ CanCreate(book, doc, apply) /\ book' = Create(book, doc, apply)
  BY <1>2
<1>4. Sound(book) /\ Money(book)
  BY DEF MoneyInv, BookInv
<1>5. Entry(Range(book.members), entry)
  BY ScenarioFact DEF MoneyInv, BookInv
<1>6. Given(book, doc)
  BY <1>4, <1>5, EntriesGiven
<1>7. Payable(book, doc)
  BY <1>3, <1>6, EnteredPayable
<1>8. Paying(apply) /\ Applying(book, apply) /\ Slips(apply)
  BY <1>4, <1>6, SlipsGiven DEF Given, Priced
<1> QED BY <1>3, <1>4, <1>7, <1>8, CarriesCreate DEF Kept

LEMMA MarkPaidKeeps == ASSUME MoneyInv, MarkPaid PROVE Kept
<1>1. PICK i \in Invoices(book), date \in Now.dates :
        LET doc == Payment(book, i, date)
            apply == {[invoice |-> i, amount |-> doc.total]}
        IN /\ InvoiceOpen(book, i) > 0
           /\ CanCreate(book, doc, apply)
           /\ book' = Create(book, doc, apply)
  BY DEF MarkPaid
<1> DEFINE doc == Payment(book, i, date)
           apply == {[invoice |-> i, amount |-> doc.total]}
           total == InvoiceOpen(book, i)
           party == book.sources[i].party
<1>2. CanCreate(book, doc, apply) /\ book' = Create(book, doc, apply) /\ total > 0
  BY <1>1
<1>3. Sound(book) /\ Money(book) /\ date \in Dates /\ i \in DOMAIN book.sources
  BY ScenarioFact DEF MoneyInv, BookInv, Invoices
<1>4. total \in Nat
  BY <1>3, InvoiceOpenNat DEF Sound
<1>5. doc = [Doc("receipt", date, total) EXCEPT !.party = party, !.cash = "CASH"]
  BY DEF Payment
<1>6. apply = {[invoice |-> i, amount |-> doc.total]}
  OBVIOUS
<1> HIDE DEF doc, total, party, apply
<1>7. doc = [type |-> "receipt", op |-> 0, of |-> 0, date |-> date, total |-> total, tax |-> 0,
             party |-> party, cash |-> "CASH", link |-> 0, account |-> "none",
             units |-> 0, reversed |-> FALSE]
  BY <1>5 DEF Doc
<1>8. /\ doc.type = "receipt" /\ doc.date = date /\ doc.of = 0 /\ doc.link = 0 /\ doc.reversed = FALSE
      /\ doc.total = total /\ doc.tax = 0 /\ doc.units = 0 /\ doc.cash = "CASH"
      /\ doc = [type |-> doc.type, op |-> doc.op, of |-> doc.of, date |-> doc.date,
                total |-> doc.total, tax |-> doc.tax, party |-> doc.party, cash |-> doc.cash,
                link |-> doc.link, account |-> doc.account, units |-> doc.units,
                reversed |-> doc.reversed]
  BY <1>7
<1>9. 0 \in 0 .. Len(book.sources)
  BY <1>3, SeqFact DEF Sound, Rows
<1>10. Issuable(book, doc)
  BY <1>3, <1>8, <1>9 DEF Issuable, SourceRow, SourceTypes
<1>11. Priced(doc) /\ Noted(book, doc)
  <2>1. "CASH" \in CashAccounts
    BY DEF CashAccounts
  <2> QED BY <1>4, <1>8, <2>1 DEF Priced, Charted, Noted, Notes, Purchases
<1>12. Payable(book, doc)
  BY <1>10, <1>11 DEF Payable
<1>13. Paying(apply) /\ Applying(book, apply) /\ Slips(apply)
  <2>1. PICK a : a = [invoice |-> i, amount |-> doc.total]
    OBVIOUS
  <2>2. apply = {a} /\ a.invoice = i /\ a.amount = total
    BY <1>6, <1>8, <2>1
  <2>3. IsFiniteSet(apply)
    BY <2>2, FS_Singleton
  <2> QED BY <1>2, <1>3, <1>4, <1>8, <2>1, <2>2, <2>3 DEF Paying, Applying, Slips
<1> QED BY <1>2, <1>3, <1>12, <1>13, CarriesCreate DEF Kept

LEMMA DeleteKeeps == ASSUME MoneyInv, Delete PROVE Kept
<1>1. PICK s \in DOMAIN book.sources, today \in Now.dates :
        CanReverse(book, s) /\ book' = ReverseSource(book, s, today)
  BY DEF Delete
<1>2. s \in Live(book, SourceTypes) /\ today \in Dates /\ Sound(book) /\ Money(book)
  BY <1>1, ScenarioFact DEF CanReverse, MoneyInv, BookInv
<1> QED BY <1>1, <1>2, CarriesReverse DEF Kept

LEMMA EditKeeps == ASSUME MoneyInv, Edit PROVE Kept
<1>1. PICK s \in DOMAIN book.sources, today \in Now.dates :
        /\ book.sources[s].type \notin {"opening_balance", "stock_adjust", "receipt"}
        /\ \E doc \in EditsOf(book, s) :
             CanReplace(book, s, doc, today) /\ book' = Replaced(book, s, doc, today)
  BY DEF Edit
<1>2. PICK doc \in EditsOf(book, s) :
        CanReplace(book, s, doc, today) /\ book' = Replaced(book, s, doc, today)
  BY <1>1
<1>3. s \in Live(book, SourceTypes) /\ today \in Dates /\ Sound(book) /\ Money(book)
  BY <1>2, ScenarioFact DEF CanReplace, CanReverse, MoneyInv, BookInv
<1>4. Given(book, doc) /\ doc.type \in SameKind(book.sources[s].type)
  BY <1>3, EditGiven DEF MoneyInv, BookInv
<1>5. doc.type # "opening_balance"
  BY <1>1, <1>4 DEF SameKind, Purchases, ManualCash
<1> DEFINE a == ReverseSource(book, s, today)
           d == Dated(book, doc, today)
<1>6. book' = Create(a, d, {}) /\ CanCreate(a, d, {})
  BY <1>2 DEF Replaced, CanReplace
<1>7. a = ReverseSource(book, s, today) /\ d = Dated(book, doc, today)
  OBVIOUS
<1> HIDE DEF a, d
<1> QED BY <1>3, <1>4, <1>5, <1>6, <1>7, CarriesReplaced DEF Kept

LEMMA EditPaidKeeps == ASSUME MoneyInv, EditPaidInvoice PROVE Kept
<1>1. PICK s \in Invoices(book), today \in Now.dates : \E doc \in EditsOf(book, s) :
        CanReplacePaid(book, s, doc, today) /\ book' = ReplacedPaid(book, s, doc, today)
  BY DEF EditPaidInvoice
<1>2. PICK doc \in EditsOf(book, s) :
        CanReplacePaid(book, s, doc, today) /\ book' = ReplacedPaid(book, s, doc, today)
  BY <1>1
<1>3. s \in DOMAIN book.sources /\ book.sources[s].type = "invoice"
  BY DEF Invoices
<1>4. s \in Live(book, {"invoice"}) /\ today \in Dates /\ Sound(book) /\ Money(book)
  BY <1>2, ScenarioFact DEF CanReplacePaid, MoneyInv, BookInv
<1>5. Given(book, doc) /\ doc.type \in SameKind(book.sources[s].type)
  BY <1>3, <1>4, EditGiven DEF MoneyInv, BookInv
<1>6. doc.type # "opening_balance"
  BY <1>3, <1>5 DEF SameKind, Purchases, ManualCash
<1> QED BY <1>2, <1>4, <1>5, <1>6, CarriesReplacedPaid DEF Kept

LEMMA EditReceiptKeeps == ASSUME MoneyInv, EditReceipt PROVE Kept
<1>1. PICK s \in DOMAIN book.sources, today \in Now.dates : \E doc \in EditsOf(book, s) :
        \E apply \in Applications(book, doc) :
          /\ doc.type = "receipt" /\ CanEditReceipt(book, s, doc, apply, today)
          /\ book' = EditedReceipt(book, s, doc, apply, today)
  BY DEF EditReceipt
<1>2. PICK doc \in EditsOf(book, s) : \E apply \in Applications(book, doc) :
        /\ doc.type = "receipt" /\ CanEditReceipt(book, s, doc, apply, today)
        /\ book' = EditedReceipt(book, s, doc, apply, today)
  BY <1>1
<1>3. PICK apply \in Applications(book, doc) :
        /\ doc.type = "receipt" /\ CanEditReceipt(book, s, doc, apply, today)
        /\ book' = EditedReceipt(book, s, doc, apply, today)
  BY <1>2
<1>4. /\ s \in Live(book, SourceTypes) /\ today \in Dates /\ HasContext(book, doc.date)
      /\ Sound(book) /\ Money(book)
  BY <1>3, ScenarioFact DEF CanEditReceipt, Live, SourceTypes, MoneyInv, BookInv
<1>5. Given(book, doc)
  BY <1>4, EditGiven DEF MoneyInv, BookInv
<1>6. Paying(apply) /\ Applying(book, apply) /\ Slips(apply)
  BY <1>4, <1>5, SlipsGiven DEF Given, Priced
<1>7. Covered(doc, apply)
  BY <1>3, <1>6 DEF Covered, CanEditReceipt, CanIssue, CanApply
<1> QED BY <1>3, <1>4, <1>5, <1>6, <1>7, CarriesEditedReceipt DEF Kept

LEMMA OpeningKeeps == ASSUME MoneyInv, SetOpeningBalance PROVE Kept
<1>1. PICK entry \in Now.entries, total \in {0, 1, 2}, today \in Now.dates :
        /\ entry.type = "opening_balance"
        /\ CanReopen(book, [entry EXCEPT !.total = total])
        /\ book' = Reopened(book, [entry EXCEPT !.total = total], today)
  BY DEF SetOpeningBalance
<1> DEFINE doc == [entry EXCEPT !.total = total]
<1>2. Sound(book) /\ Money(book) /\ today \in Dates /\ Entry(Range(book.members), entry)
  BY ScenarioFact DEF MoneyInv, BookInv
<1>3. Fresh(book, entry) /\ Valued(entry)
  BY <1>2, EntryGiven
<1>4. /\ Fresh(book, doc) /\ doc.type = "opening_balance" /\ doc.total = total /\ doc.tax = entry.tax
      /\ doc.units = entry.units /\ doc.account = entry.account
  BY <1>1, <1>3 DEF Fresh, SourceRow
<1>5. CanReopen(book, doc) /\ book' = Reopened(book, doc, today)
  BY <1>1
<1> HIDE DEF doc
<1>6. doc.account \in {"CASH", "INVENTORY", "OTHER_ASSETS"}
  BY <1>1, <1>3, <1>4 DEF Valued, Charted
<1>7. Priced(doc) /\ Noted(book, doc)
  BY <1>3, <1>4, <1>6 DEF Priced, Valued, Charted, Noted, Notes, Purchases
<1>8. Given(book, doc) /\ HasContext(book, doc.date)
  BY <1>4, <1>5, <1>7 DEF Given, CanReopen
<1> QED BY <1>2, <1>4, <1>5, <1>8, CarriesReopened DEF Kept

LEMMA CountKeeps == ASSUME MoneyInv, CountStock \/ DeleteCount \/ FailToPost PROVE Kept
<1>1. Sound(book) /\ Money(book)
  BY DEF MoneyInv, BookInv
<1>2. ASSUME FailToPost PROVE Kept
  <2>1. PICK date \in Now.dates : HasContext(book, date) /\ book' = InContext(book, date)
    BY <1>2 DEF FailToPost
  <2>2. date \in Dates
    BY ScenarioFact DEF MoneyInv, BookInv
  <2> QED BY <1>1, <2>1, <2>2, CarriesInContext DEF Kept
<1>3. ASSUME CountStock PROVE Kept
  <2>1. PICK date \in Now.dates, value \in Now.counts :
          HasContext(book, date) /\ book' = RecordedCount(book, date, value)
    BY <1>3 DEF CountStock
  <2>2. date \in Dates /\ value \in Nat
    BY ScenarioFact, ScenarioCounts DEF MoneyInv, BookInv
  <2> QED BY <1>1, <2>1, <2>2, CarriesRecordedCount DEF Kept
<1>4. ASSUME DeleteCount PROVE Kept
  <2>1. PICK n \in book.counts : book' = DeletedCount(book, n)
    BY <1>4 DEF DeleteCount
  <2> QED BY <1>1, <2>1, CarriesDeletedCount DEF Kept
<1> QED BY <1>2, <1>3, <1>4

LEMMA CloseKeeps ==
  ASSUME MoneyInv, Close
  PROVE  /\ Money(book') /\ Zeroed(book') /\ Funded(book') /\ Positioned(book')
         /\ book'.members = book.members
<1>1. PICK date \in Now.dates, explicit \in BOOLEAN, opening \in Now.counts, actual \in Now.counts :
        /\ CanClose(book, date, explicit, opening, actual)
        /\ book' = Closed(book, date, explicit, opening, actual)
  BY DEF Close
<1>2. date \in Dates /\ Sound(book) /\ Money(book) /\ opening \in Nat /\ actual \in Nat
  BY ScenarioFact, ScenarioCounts DEF MoneyInv, BookInv
<1>3. /\ Money(book') /\ book'.sources = book.sources /\ book'.allocs = book.allocs
      /\ book'.members = book.members
      /\ Zeroed(book) => Zeroed(book')
      /\ Positioned(book) => Positioned(book')
  BY <1>1, <1>2, MoneyClosed
<1> QED BY <1>3, CarriesSame DEF MoneyInv

LEMMA MoneySteps == ASSUME MoneyInv, [Next]_vars PROVE MoneyInv'
<1>1. BookInv' /\ Later(book, book')
  BY EveryStep DEF MoneyInv
<1>2. ASSUME Kept
      PROVE  /\ Money(book') /\ Zeroed(book') /\ Funded(book') /\ Positioned(book')
             /\ book'.members = book.members
  BY <1>1, <1>2, ZeroedLater DEF MoneyInv, Kept, Carries, Enters
<1>3. CASE UNCHANGED vars
  BY <1>1, <1>3 DEF MoneyInv, vars, Now
<1>4. ASSUME Next
      PROVE  /\ Money(book') /\ Zeroed(book') /\ Funded(book') /\ Positioned(book')
             /\ book'.members = book.members /\ Now' = Now
  <2>1. Kept \/ Close
    BY <1>4, IssueKeeps, MarkPaidKeeps, DeleteKeeps, EditKeeps, EditPaidKeeps, EditReceiptKeeps,
       OpeningKeeps, CountKeeps DEF Next
  <2>2. Now' = Now
    BY <1>4 DEF Next, Now
  <2> QED BY <1>2, <2>1, <2>2, CloseKeeps
<1> QED BY <1>1, <1>3, <1>4 DEF MoneyInv

LEMMA NewBookMoney ==
  ASSUME NEW b, NewBook(b) PROVE Money(b) /\ Zeroed(b) /\ Funded(b) /\ Positioned(b)
<1>1. b.sources = <<>> /\ b.journals = <<>> /\ b.allocs = {} /\ b.counts = {} /\ b.members \in Seq(DOMAIN Share)
  BY DEF NewBook
<1>2. DOMAIN <<>> = {}
  OBVIOUS
<1>3. Paying(b.allocs)
  BY <1>1, FS_EmptySet DEF Paying
<1>4. Money(b) /\ Funded(b)
  BY <1>1, <1>2, <1>3, MoneyIs DEF Funded
<1>5. PICK first : first.open /\ b.periods = <<first>>
  <2>1. PICK start \in Dates, end \in Dates : b.periods = <<[start |-> start, end |-> end, open |-> TRUE]>>
    BY DEF NewBook
  <2>2. [start |-> start, end |-> end, open |-> TRUE].open
    OBVIOUS
  <2> QED BY <2>1, <2>2
<1>6. DOMAIN b.periods = {1} /\ b.periods[1] = first
  BY <1>5
<1>7. Frozen(b) = {}
  BY <1>5, <1>6 DEF Frozen, OpenPeriods
<1>8. Positioned(b)
  <2> SUFFICES ASSUME NEW p \in Parties PROVE Owed(b, DOMAIN b.journals, p) = Due(b, p)
    BY <1>1, <1>2 DEF Positioned, Live
  <2>1. DOMAIN b.journals = {} /\ Live(b, SourceTypes) = {}
    BY <1>1, <1>2 DEF Live
  <2>2. Owes(b, DOMAIN b.journals, p) \in [{} -> Int] /\ Effects(b, Live(b, SourceTypes), p) \in [{} -> Int]
    BY <2>1 DEF Owes, Effects
  <2> QED BY <2>2, SumNone DEF Owed, Due
<1> QED BY <1>4, <1>7, <1>8 DEF Zeroed

LEMMA MoneyInvariant == Spec => []MoneyInv
<1>1. Init => MoneyInv
  <2> SUFFICES ASSUME Init PROVE MoneyInv
    OBVIOUS
  <2>1. scenario \in DOMAIN Scenarios /\ NewBook(book) /\ book = Now.book
    BY ScenarioFact DEF Init
  <2> QED BY <2>1, NewBookFact, NewBookMoney DEF MoneyInv, BookInv
<1>2. MoneyInv /\ [Next]_vars => MoneyInv'
  BY MoneySteps
<1> QED BY <1>1, <1>2, PTL DEF Spec

-----------------------------------------------------------------------------
(* The positions of the parties, read from the ledger and from the documents *)

Of(b, p, type) ==
  {s \in Live(b, {type}) : b.sources[s].party = p /\ (type \in Notes => b.sources[s].cash = "none")}

LEMMA BalancesOwed ==
  ASSUME NEW b, Summed(b), NEW p, NEW a, NEW c, a # c, Side(p) = {a, c}
  PROVE  PartyBalance(b, a, p) + PartyBalance(b, c, p) = Owed(b, DOMAIN b.journals, p)
<1> DEFINE D == DOMAIN b.journals
           of(A) == [j \in D |-> NetOf(b.journals[j].lines, A, {p})]
           both == Owes(b, D, p)
<1>1. ASSUME NEW A PROVE of(A) \in [D -> Int]
  <2>1. \A j \in D : NetOf(b.journals[j].lines, A, {p}) \in Int
    BY NetOfInt DEF Summed
  <2> QED BY <2>1
<1>2. ASSUME NEW e PROVE PartyBalance(b, e, p) = SumFunction(of({e}))
  <2>1. ASSUME NEW j \in D
        PROVE  LET lines == b.journals[j].lines
               IN LineTotal(lines, {k \in On(lines, {e}) : lines[k].party = p}) = NetOf(lines, {e}, {p})
    <3>1. PICK lines : lines = b.journals[j].lines
      OBVIOUS
    <3>2. LineSeq(lines)
      BY <3>1 DEF Summed
    <3>3. LineTotal(lines, {k \in On(lines, {e}) : {p} = {} \/ lines[k].party \in {p}}) = NetOf(lines, {e}, {p})
      BY <3>2, NetOfIs
    <3>4. {k \in On(lines, {e}) : {p} = {} \/ lines[k].party \in {p}} = {k \in On(lines, {e}) : lines[k].party = p}
      OBVIOUS
    <3> QED BY <3>1, <3>3, <3>4
  <2> QED BY <2>1 DEF PartyBalance
<1>3. IsFiniteSet(D) /\ both \in [D -> Int]
  BY OwedFact DEF Summable
<1>4. \A j \in D : both[j] = of({a})[j] + of({c})[j]
  <2> SUFFICES ASSUME NEW j \in D
               PROVE  Owing(b.journals[j].lines, p)
                        = NetOf(b.journals[j].lines, {a}, {p}) + NetOf(b.journals[j].lines, {c}, {p})
    BY DEF Owes
  <2>1. LineSeq(b.journals[j].lines)
    BY DEF Summed
  <2>2. Side(p) = {a} \cup {c} /\ c \notin {a}
    OBVIOUS
  <2> QED BY <2>1, <2>2, NetOfApart DEF Owing
<1>5. PICK f \in [D -> Int] : f = of({a})
  BY <1>1
<1>6. PICK g \in [D -> Int] : g = of({c})
  BY <1>1
<1>7. \A j \in D : both[j] = f[j] + g[j]
  BY <1>4, <1>5, <1>6
<1> HIDE DEF D, of, both
<1>8. SumFunction(both) = SumFunction(f) + SumFunction(g)
  BY <1>3, <1>7, SumAdd
<1> QED BY <1>2, <1>5, <1>6, <1>8 DEF Owed, both, D

\* What the documents of one kind put on the account of a party, before its sign.
KindOf(b, p, type) ==
  [s \in Live(b, SourceTypes) |-> IF s \in Of(b, p, type) THEN b.sources[s].total ELSE 0]

LEMMA KindFact ==
  ASSUME NEW b, Summed(b), NEW p, NEW type \in SourceTypes
  PROVE  /\ KindOf(b, p, type) \in [Live(b, SourceTypes) -> Int]
         /\ SumFunction(KindOf(b, p, type)) = TotalOf(b, Of(b, p, type))
<1> DEFINE S == Live(b, SourceTypes)
           R == Of(b, p, type)
           f == KindOf(b, p, type)
           g == [s \in R |-> b.sources[s].total]
<1>1. R \in SUBSET S /\ S \in SUBSET DOMAIN b.sources
  BY DEF Of, Live
<1>2. \A s \in S : b.sources[s].total \in Int
  BY <1>1 DEF Summed
<1>3. Summable(Effects(b, S, p), S)
  BY <1>1, OwedFact
<1>4. f \in [S -> Int]
  BY <1>2 DEF KindOf
<1>5. Alike(f, g, R) /\ g \in [R -> Int] /\ \A s \in S \ R : f[s] = 0
  BY <1>1, <1>2 DEF Alike, KindOf
<1>6. Summable(f, S)
  BY <1>3, <1>4 DEF Summable
<1>7. TotalOf(b, R) = SumFunction(g)
  BY DEF TotalOf
<1> HIDE DEF f, g, S, R
<1>8. SumFunction(f) = SumFunction(g)
  BY <1>1, <1>5, <1>6, SumWithin
<1> QED BY <1>4, <1>7, <1>8 DEF f, S, R

LEMMA DueIs ==
  ASSUME NEW b, Summed(b), NEW p, NEW u, NEW v, NEW x, NEW y,
         {u, v, x, y} \subseteq SourceTypes, u # v, x # y, {u, v} \cap {x, y} = {},
         Raising(p) = {u, v}, Lowering(p) = {x, y}
  PROVE  Due(b, p) = TotalOf(b, Of(b, p, u)) + TotalOf(b, Of(b, p, v))
                       - TotalOf(b, Of(b, p, x)) - TotalOf(b, Of(b, p, y))
<1> DEFINE S == Live(b, SourceTypes)
           e(t) == KindOf(b, p, t)
           up == [s \in S |-> e(u)[s] + e(v)[s]]
           down == [s \in S |-> e(x)[s] + e(y)[s]]
           less == [s \in S |-> -down[s]]
           all == Effects(b, S, p)
<1>1. S \in SUBSET DOMAIN b.sources
  BY DEF Live
<1>2. IsFiniteSet(S) /\ all \in [S -> Int]
  BY <1>1, OwedFact DEF Summable
<1>3. \A t \in {u, v, x, y} : e(t) \in [S -> Int] /\ SumFunction(e(t)) = TotalOf(b, Of(b, p, t))
  BY KindFact
<1>4. \A s \in S : all[s] = e(u)[s] + e(v)[s] - (e(x)[s] + e(y)[s])
  <2> SUFFICES ASSUME NEW s \in S PROVE all[s] = e(u)[s] + e(v)[s] - (e(x)[s] + e(y)[s])
    OBVIOUS
  <2> DEFINE doc == b.sources[s]
             n == doc.total
             ours == doc.party = p /\ ~(doc.type \in Notes /\ doc.cash # "none")
  <2>1. n \in Int /\ all[s] = Effect(doc, p)
    BY <1>1 DEF Summed, Effects
  <2>2. \A t \in {u, v, x, y} : e(t)[s] = IF doc.type = t /\ ours THEN n ELSE 0
    BY DEF KindOf, Of, Live
  <2>3. Effect(doc, p) = IF ~ours THEN 0
                         ELSE IF doc.type \in {u, v} THEN n
                         ELSE IF doc.type \in {x, y} THEN -n ELSE 0
    BY DEF Effect
  <2>4. PICK type : type = doc.type
    OBVIOUS
  <2> HIDE DEF ours, n, doc, all, e, S
  <2>5. CASE ~ours
    BY <2>1, <2>2, <2>3, <2>5
  <2>6. CASE ours /\ doc.type \in {u, v}
    <3>1. all[s] = n /\ e(x)[s] = 0 /\ e(y)[s] = 0
      BY <2>1, <2>2, <2>3, <2>6
    <3>2. (e(u)[s] = n /\ e(v)[s] = 0) \/ (e(u)[s] = 0 /\ e(v)[s] = n)
      BY <2>2, <2>6
    <3> QED BY <2>1, <3>1, <3>2
  <2>7. CASE ours /\ doc.type \in {x, y}
    <3>1. all[s] = -n /\ e(u)[s] = 0 /\ e(v)[s] = 0
      BY <2>1, <2>2, <2>3, <2>7
    <3>2. (e(x)[s] = n /\ e(y)[s] = 0) \/ (e(x)[s] = 0 /\ e(y)[s] = n)
      BY <2>2, <2>7
    <3> QED BY <2>1, <3>1, <3>2
  <2>8. CASE ours /\ doc.type \notin {u, v, x, y}
    BY <2>1, <2>2, <2>3, <2>8
  <2> QED BY <2>5, <2>6, <2>7, <2>8
<1> HIDE DEF e, all, S
<1>5. up \in [S -> Int] /\ down \in [S -> Int]
  BY <1>3
<1>6. less \in [S -> Int] /\ \A s \in S : less[s] = -down[s]
  BY <1>5
<1>7. \A s \in S : all[s] = up[s] + less[s]
  BY <1>3, <1>4
<1>8. (\A s \in S : up[s] = e(u)[s] + e(v)[s]) /\ (\A s \in S : down[s] = e(x)[s] + e(y)[s])
  OBVIOUS
<1> HIDE DEF up, down, less
<1>9. SumFunction(up) = SumFunction(e(u)) + SumFunction(e(v))
  BY <1>2, <1>3, <1>5, <1>8, SumAdd
<1>10. SumFunction(down) = SumFunction(e(x)) + SumFunction(e(y))
  BY <1>2, <1>3, <1>5, <1>8, SumAdd
<1>11. SumFunction(less) = -SumFunction(down)
  BY <1>2, <1>5, <1>6, SumOpposite
<1>12. SumFunction(all) = SumFunction(up) + SumFunction(less)
  BY <1>2, <1>5, <1>6, <1>7, SumAdd
<1>13. Due(b, p) = SumFunction(all)
  BY DEF Due, all, S
<1>14. \A t \in {u, v, x, y} : SumFunction(e(t)) \in Int
  BY <1>2, <1>3, SumInt
<1> QED BY <1>3, <1>9, <1>10, <1>11, <1>12, <1>13, <1>14

-----------------------------------------------------------------------------
(* What a period holds of the members' movements *)

Documented(b) == {j \in DOMAIN b.journals : b.journals[j].source # 0}

\* Every journal is of a document or of a close, which posts into the period it
\* closes; a movement of a member is posted once.
Titled(b) ==
  /\ \A j \in Documented(b) : Proper(b, j)
  /\ \A j \in DOMAIN b.journals \ Documented(b) :
       b.journals[j].reversalOf = 0 /\ b.journals[j].period \in Frozen(b)
  /\ Sole(b, Documented(b))

LEMMA TitledKept ==
  ASSUME NEW b, Titled(b), NEW c, Rows(c), Enters(b, c), Frozen(b) \subseteq Frozen(c)
  PROVE  Titled(c)
<1>1. 0 \notin DOMAIN c.sources
  <2>1. DOMAIN c.sources = 1 .. Len(c.sources) /\ Len(c.sources) \in Nat
    BY RowSets
  <2> QED BY <2>1
<1>2. ASSUME NEW j \in New(b, c)
      PROVE  /\ Proper(c, j) /\ j \in Documented(c) /\ c.journals[j].source \notin DOMAIN b.sources
             /\ j \in DOMAIN c.journals
  BY <1>1 DEF Enters, Proper, Documented, New
<1>3. ASSUME NEW j \in DOMAIN b.journals
      PROVE  /\ c.journals[j] = b.journals[j] /\ j \in DOMAIN c.journals
             /\ j \in Documented(b) <=> j \in Documented(c)
  BY DEF Enters, Beginning, Documented
<1>4. ASSUME NEW j \in Documented(b)
      PROVE  /\ Proper(c, j) /\ j \in DOMAIN b.journals /\ b.journals[j].source \in DOMAIN b.sources
             /\ c.sources[b.journals[j].source].type = b.sources[b.journals[j].source].type
  <2>1. j \in DOMAIN b.journals /\ Proper(b, j)
    BY DEF Titled, Documented
  <2>2. Proper(c, j)
    BY <2>1, ProperKept
  <2> QED BY <2>1, <2>2 DEF Proper, Enters, SameDocument
<1>5. ASSUME NEW j \in Documented(c) PROVE Proper(c, j)
  BY <1>2, <1>3, <1>4 DEF New, Documented
<1>6. ASSUME NEW j \in DOMAIN c.journals \ Documented(c)
      PROVE  c.journals[j].reversalOf = 0 /\ c.journals[j].period \in Frozen(c)
  <2>1. j \in DOMAIN b.journals \ Documented(b)
    BY <1>2, <1>3 DEF New
  <2> QED BY <1>3, <2>1 DEF Titled
<1>7. ASSUME NEW i \in Documented(c), NEW j \in Documented(c),
             c.journals[i].source = c.journals[j].source,
             c.sources[c.journals[j].source].type \in MemberMoves
      PROVE  i = j
  <2>1. \A k \in {i, j} : k \in Documented(b) \/ k \in New(b, c)
    BY <1>3 DEF New, Documented
  <2>2. CASE i \in Documented(b) /\ j \in Documented(b)
    BY <1>3, <1>4, <1>7, <2>2 DEF Titled, Sole
  <2>3. CASE i \in New(b, c) /\ j \in New(b, c)
    BY <1>7, <2>3 DEF Enters, Sole
  <2>4. CASE i \in Documented(b) /\ j \in New(b, c)
    BY <1>2, <1>3, <1>4, <1>7, <2>4
  <2>5. CASE i \in New(b, c) /\ j \in Documented(b)
    BY <1>2, <1>3, <1>4, <1>7, <2>5
  <2> QED BY <2>1, <2>2, <2>3, <2>4, <2>5
<1> QED BY <1>5, <1>6, <1>7 DEF Titled, Sole

\* What was taken back in another period stays so.
LEMMA TakenBackKept ==
  ASSUME NEW b, Titled(b), NEW c, Beginning(b, c),
         \A s \in DOMAIN b.sources : c.sources[s].type = b.sources[s].type, TakenBackLater(b)
  PROVE  TakenBackLater(c)
<1>1. PICK k \in DOMAIN b.journals :
        LET j == b.journals[k].reversalOf
        IN /\ j # 0 /\ b.sources[b.journals[k].source].type \in MemberMoves
           /\ b.journals[j].period # b.journals[k].period
  BY DEF TakenBackLater
<1>2. k \in Documented(b)
  BY <1>1 DEF Titled
<1>3. /\ Proper(b, k) /\ b.journals[k].source \in DOMAIN b.sources
  BY <1>2 DEF Titled, Proper
<1>4. b.journals[k].reversalOf \in DOMAIN b.journals
  BY <1>1, <1>3 DEF Proper
<1>5. /\ k \in DOMAIN c.journals /\ c.journals[k] = b.journals[k]
      /\ c.journals[b.journals[k].reversalOf] = b.journals[b.journals[k].reversalOf]
  BY <1>1, <1>4 DEF Beginning
<1>6. c.sources[b.journals[k].source].type \in MemberMoves
  BY <1>1, <1>3
<1> QED BY <1>1, <1>5, <1>6 DEF TakenBackLater

\* The documents of a kind that a period has a journal of and that are in force.
InForce(b, p, type) ==
  {s \in Live(b, {type}) : \E j \in JournalsOf(b, s) : b.journals[j].period = p}

\* The journals of a kind of document in a period.
Moving(b, p, type) ==
  {j \in JournalsIn(b, p) : b.journals[j].source # 0 /\ b.sources[b.journals[j].source].type = type}

\* Those of documents in force, of documents taken back, and those that do so.
Standing(b, p, type) ==
  {j \in Moving(b, p, type) : b.sources[b.journals[j].source].of = 0
                            /\ ~b.sources[b.journals[j].source].reversed}
Withdrawn(b, p, type) ==
  {j \in Moving(b, p, type) : b.sources[b.journals[j].source].of = 0
                            /\ b.sources[b.journals[j].source].reversed}
Withdrawing(b, p, type) == {j \in Moving(b, p, type) : b.sources[b.journals[j].source].of # 0}

\* The kind of document that is for a member's account.
Titling(a) == IF a = "CAPITAL" THEN "capital_injection" ELSE "drawing"

Ordinary(b, p) == JournalsIn(b, p) \ OpeningBalanceJournals(b)

Ledgered(b) == Rows(b) /\ Money(b) /\ Answered(b) /\ Titled(b)

\* Lines that come to the opposite of others on an account.
Cancels(s, t, a) == Net(s, {a}) = -Net(t, {a})

\* A journal that takes another back is its opposite.
Undoes(b, k, j) ==
  /\ j \in Documented(b) /\ Proper(b, j) /\ j # 0
  /\ b.sources[b.journals[j].source].of = 0 /\ b.sources[b.journals[j].source].reversed
  /\ b.sources[b.journals[j].source].type = b.sources[b.journals[k].source].type
  /\ \A a : Cancels(b.journals[k].lines, b.journals[j].lines, a)

LEMMA TakesBackFact ==
  ASSUME NEW b, Ledgered(b), NEW k, k \in Documented(b), b.sources[b.journals[k].source].of # 0,
         NEW j, j = b.journals[k].reversalOf
  PROVE  Undoes(b, k, j)
<1>1. k \in DOMAIN b.journals /\ Proper(b, k)
  BY DEF Documented, Ledgered, Titled
<1>2. /\ j \in DOMAIN b.journals /\ b.journals[j].source = b.sources[b.journals[k].source].of
      /\ b.sources[b.journals[j].source].of = 0
      /\ b.sources[b.journals[j].source].type = b.sources[b.journals[k].source].type
  BY <1>1 DEF Proper
<1>3. j \in Documented(b) /\ Proper(b, j)
  BY <1>2 DEF Documented, Ledgered, Titled
<1>4. j # 0
  <2>1. DOMAIN b.journals = 1 .. Len(b.journals) /\ Len(b.journals) \in Nat
    BY RowSets DEF Ledgered
  <2>2. j \in 1 .. Len(b.journals)
    BY <1>2, <2>1
  <2> QED BY <2>1, <2>2
<1>5. Undone(b, j) /\ b.journals[k].lines = Opposite(b.journals[j].lines)
  BY <1>1, <1>4 DEF Ledgered, Answered
<1>6. LineSeq(b.journals[j].lines)
  BY <1>2 DEF Ledgered, Money, Fair, Listed
<1>7. ASSUME NEW a PROVE Cancels(b.journals[k].lines, b.journals[j].lines, a)
  BY <1>5, <1>6, NetOpposite DEF Cancels
<1> QED BY <1>2, <1>3, <1>4, <1>5, <1>7 DEF Undone, Undoes

\* Other documents put nothing on a member's account, opening balances aside.
LEMMA OtherKinds ==
  ASSUME NEW b, Ledgered(b), NEW p, p \notin Frozen(b), NEW a \in Titles,
         NEW j \in Ordinary(b, p) \ Moving(b, p, Titling(a))
  PROVE  Net(b.journals[j].lines, {a}) = 0
<1>1. /\ j \in Documented(b) /\ j \in DOMAIN b.journals
      /\ b.sources[b.journals[j].source].type \notin {"opening_balance", Titling(a)}
  BY DEF Ordinary, Moving, JournalsIn, OpeningBalanceJournals, Ledgered, Titled, Documented
<1>2. ASSUME NEW i, Proper(b, i), b.sources[b.journals[i].source].of = 0,
             b.sources[b.journals[i].source].type \notin {"opening_balance", Titling(a)}
      PROVE  Net(b.journals[i].lines, {a}) = 0
  BY <1>2 DEF Proper, Title, Titling, Titles
<1>3. CASE b.sources[b.journals[j].source].of = 0
  BY <1>1, <1>2, <1>3 DEF Ledgered, Titled
<1>4. CASE b.sources[b.journals[j].source].of # 0
  <2>3. PICK i : i = b.journals[j].reversalOf
    OBVIOUS
  <2>1. /\ Proper(b, i) /\ b.sources[b.journals[i].source].of = 0
        /\ b.sources[b.journals[i].source].type = b.sources[b.journals[j].source].type
        /\ Cancels(b.journals[j].lines, b.journals[i].lines, a)
    <3>1. Undoes(b, j, i)
      BY <1>1, <1>4, <2>3, TakesBackFact
    <3> QED BY <3>1 DEF Undoes
  <2>2. Net(b.journals[i].lines, {a}) = 0
    BY <1>1, <1>2, <2>1
  <2> QED BY <2>1, <2>2 DEF Cancels
<1> QED BY <1>3, <1>4

LEMMA MovesFact ==
  ASSUME NEW b, Rows(b), NEW p, NEW type, NEW S, S \subseteq Moving(b, p, type)
  PROVE  IsFiniteSet(S) /\ S \in SUBSET DOMAIN b.journals /\ S \subseteq Documented(b)
<1>1. S \in SUBSET DOMAIN b.journals
  BY DEF Moving, JournalsIn
<1>2. S \subseteq Documented(b)
  BY DEF Moving, JournalsIn, Documented
<1>3. IsFiniteSet(S)
  BY <1>1, RowSets
<1> QED BY <1>1, <1>2, <1>3

\* What was taken back in the period it was posted in leaves nothing there.
LEMMA Undoing ==
  ASSUME NEW b, Ledgered(b), ~TakenBackLater(b), NEW p, NEW type \in MemberMoves, NEW a
  PROVE  Movement(b, Withdrawing(b, p, type), {a}) = -Movement(b, Withdrawn(b, p, type), {a})
<1> DEFINE S == Withdrawing(b, p, type)
           R == Withdrawn(b, p, type)
           f == Nets(b, R, {a})
           g == Nets(b, S, {a})
           h == [k \in S |-> -g[k]]
           q == [k \in S |-> b.journals[k].reversalOf]
<1>1. /\ S \in SUBSET DOMAIN b.journals /\ R \in SUBSET DOMAIN b.journals
      /\ S \subseteq Documented(b) /\ R \subseteq Documented(b)
  <2>1. S \subseteq Moving(b, p, type) /\ R \subseteq Moving(b, p, type)
    BY DEF Withdrawing, Withdrawn
  <2> HIDE DEF S, R
  <2>2. Rows(b)
    BY DEF Ledgered
  <2>3. S \in SUBSET DOMAIN b.journals /\ S \subseteq Documented(b)
    BY <2>1, <2>2, MovesFact
  <2>4. R \in SUBSET DOMAIN b.journals /\ R \subseteq Documented(b)
    BY <2>1, <2>2, MovesFact
  <2> QED BY <2>3, <2>4
<1>2. /\ Movement(b, S, {a}) = SumFunction(g) /\ Summable(g, S)
      /\ Movement(b, R, {a}) = SumFunction(f) /\ Summable(f, R)
  <2> HIDE DEF S, R
  <2> QED BY <1>1, MovementIs DEF Ledgered
<1>3. ASSUME NEW k \in S
      PROVE  q[k] \in R /\ Net(b.journals[k].lines, {a}) = -Net(b.journals[q[k]].lines, {a}) /\ q[k] # 0
  <2>1. /\ k \in Documented(b) /\ b.sources[b.journals[k].source].of # 0
        /\ b.sources[b.journals[k].source].type = type /\ b.journals[k].period = p
    BY <1>1 DEF Withdrawing, Moving, JournalsIn
  <2>5. PICK j : j = b.journals[k].reversalOf
    OBVIOUS
  <2>2. /\ j \in Documented(b) /\ j # 0 /\ b.sources[b.journals[j].source].of = 0
        /\ b.sources[b.journals[j].source].reversed
        /\ b.sources[b.journals[j].source].type = type
        /\ Cancels(b.journals[k].lines, b.journals[j].lines, a)
    <3>1. Undoes(b, k, j)
      BY <2>1, <2>5, TakesBackFact
    <3> QED BY <2>1, <3>1 DEF Undoes
  <2>3. b.journals[j].period = p
    BY <2>1, <2>2, <2>5 DEF TakenBackLater, Documented
  <2>4. j \in R
    BY <2>2, <2>3 DEF Withdrawn, Moving, JournalsIn, Documented
  <2> QED BY <2>2, <2>4, <2>5 DEF Cancels
<1>4. ASSUME NEW j \in R PROVE \E k \in S : q[k] = j
  <2>1. Undone(b, j) /\ j \in DOMAIN b.journals /\ b.journals[j].period = p
        /\ b.sources[b.journals[j].source].type = type
    BY <1>1 DEF Withdrawn, Moving, JournalsIn, Undone
  <2>2. PICK k \in DOMAIN b.journals : b.journals[k].reversalOf = j
    BY <2>1 DEF Ledgered, Answered
  <2>3. j # 0
    <3>1. DOMAIN b.journals = 1 .. Len(b.journals) /\ Len(b.journals) \in Nat
      BY RowSets DEF Ledgered
    <3> QED BY <2>1, <3>1
  <2>4. k \in Documented(b) /\ Proper(b, k)
    BY <2>2, <2>3 DEF Ledgered, Titled
  <2>5. b.sources[b.journals[k].source].of # 0
    BY <2>2, <2>3, <2>4 DEF Proper
  <2>6. b.sources[b.journals[k].source].type = type
    <3>1. Undoes(b, k, j)
      BY <2>2, <2>4, <2>5, TakesBackFact
    <3> QED BY <2>1, <3>1 DEF Undoes
  <2>7. b.journals[k].period = p
    BY <2>1, <2>2, <2>3, <2>6 DEF TakenBackLater
  <2>8. k \in S
    BY <2>4, <2>5, <2>6, <2>7 DEF Withdrawing, Moving, JournalsIn, Documented
  <2> QED BY <2>2, <2>8
<1>5. \A k, l \in S : q[k] = q[l] => k = l
  <2>1. \A k, l \in S : b.journals[k].reversalOf # 0 /\ b.journals[k].reversalOf = b.journals[l].reversalOf => k = l
    BY <1>1 DEF Ledgered, Answered
  <2> QED BY <1>3, <2>1
<1>6. Renames(q, S, R)
  <2>1. q \in [S -> R]
    BY <1>3
  <2> QED BY <1>4, <1>5, <2>1 DEF Renames
<1>7. h \in [S -> Int] /\ \A k \in S : g[k] = -h[k] /\ h[k] = f[q[k]]
  <2>1. \A k \in S : g[k] = Net(b.journals[k].lines, {a}) /\ f[q[k]] = Net(b.journals[q[k]].lines, {a})
    BY <1>3 DEF Nets
  <2>2. g \in [S -> Int] /\ f \in [R -> Int]
    BY <1>2 DEF Summable
  <2>3. \A k \in S : g[k] \in Int /\ f[q[k]] \in Int /\ g[k] = -f[q[k]]
    BY <1>3, <2>1, <2>2
  <2> HIDE DEF f, g, q, S, R
  <2> QED BY <2>3
<1> HIDE DEF f, g, h, q, S, R
<1>8. SumFunction(h) = SumFunction(f)
  <2>1. After(h, f, q, S) /\ Summable(h, S)
    BY <1>2, <1>7 DEF After, Summable
  <2> QED BY <1>2, <1>6, <2>1, SumRenamed
<1>9. SumFunction(g) = -SumFunction(h)
  BY <1>2, <1>7, SumOpposite DEF Summable
<1>10. Movement(b, S, {a}) = -Movement(b, R, {a})
  BY <1>2, <1>8, <1>9
<1> QED BY <1>10 DEF S, R

\* What documents of a kind put on a member's account.
Titlings(b, S, a) == [s \in S |-> Title(b.sources[s], a)]

LEMMA InForceFact ==
  ASSUME NEW b, Ledgered(b), NEW p, NEW type, NEW a \in Titles
  PROVE  /\ InForce(b, p, type) \in SUBSET DOMAIN b.sources /\ IsFiniteSet(InForce(b, p, type))
         /\ Summable(Titlings(b, InForce(b, p, type), a), InForce(b, p, type))
<1>1. InForce(b, p, type) \in SUBSET DOMAIN b.sources
  BY DEF InForce, Live
<1>2. IsFiniteSet(InForce(b, p, type))
  BY <1>1, RowSets DEF Ledgered
<1>3. \A s \in InForce(b, p, type) : Title(b.sources[s], a) \in Int
  <2>1. \A s \in InForce(b, p, type) : b.sources[s].total \in Int
    BY <1>1 DEF Ledgered, Money, Priced
  <2> QED BY <2>1 DEF Title
<1> QED BY <1>1, <1>2, <1>3 DEF Summable, Titlings

\* The journals that stand are those of the documents in force.
LEMMA StandingIs ==
  ASSUME NEW b, Ledgered(b), NEW p, NEW type \in MemberMoves, NEW a \in Titles
  PROVE  Movement(b, Standing(b, p, type), {a}) = SumFunction(Titlings(b, InForce(b, p, type), a))
<1> DEFINE S == Standing(b, p, type)
           R == InForce(b, p, type)
           f == Titlings(b, R, a)
           g == Nets(b, S, {a})
           q == [j \in S |-> b.journals[j].source]
<1>1. S \in SUBSET DOMAIN b.journals /\ S \subseteq Documented(b)
  <2>1. S \subseteq Moving(b, p, type) /\ Rows(b)
    BY DEF Standing, Ledgered
  <2> HIDE DEF S
  <2> QED BY <2>1, MovesFact
<1>2. Movement(b, S, {a}) = SumFunction(g) /\ Summable(g, S)
  <2> HIDE DEF S
  <2> QED BY <1>1, MovementIs DEF Ledgered
<1>3. Summable(f, R)
  BY InForceFact
<1>4. ASSUME NEW j \in S
      PROVE  /\ b.journals[j].source \in R
             /\ b.sources[b.journals[j].source].type = type
             /\ Net(b.journals[j].lines, {a}) = Title(b.sources[b.journals[j].source], a)
  <2>1. Proper(b, j) /\ j \in DOMAIN b.journals
    BY <1>1 DEF Ledgered, Titled
  <2>2. /\ b.sources[b.journals[j].source].type = type /\ b.sources[b.journals[j].source].of = 0
        /\ ~b.sources[b.journals[j].source].reversed /\ b.journals[j].period = p
    BY DEF Standing, Moving, JournalsIn
  <2>3. b.journals[j].source \in DOMAIN b.sources
    BY <2>1 DEF Proper
  <2>4. b.journals[j].source \in R
    BY <2>1, <2>2, <2>3 DEF InForce, Live, JournalsOf
  <2>5. Net(b.journals[j].lines, {a}) = Title(b.sources[b.journals[j].source], a)
    BY <2>1, <2>2 DEF Proper
  <2> QED BY <2>2, <2>4, <2>5
<1>5. ASSUME NEW s \in R PROVE \E j \in S : b.journals[j].source = s
  <2>1. /\ s \in DOMAIN b.sources /\ b.sources[s].type = type /\ b.sources[s].of = 0
        /\ ~b.sources[s].reversed
    BY DEF InForce, Live
  <2>2. PICK j \in JournalsOf(b, s) : b.journals[j].period = p
    BY DEF InForce
  <2>3. s # 0
    <3>1. DOMAIN b.sources = 1 .. Len(b.sources) /\ Len(b.sources) \in Nat
      BY RowSets DEF Ledgered
    <3> QED BY <2>1, <3>1
  <2>4. j \in S /\ b.journals[j].source = s
    BY <2>1, <2>2, <2>3 DEF JournalsOf, Standing, Moving, JournalsIn
  <2> QED BY <2>4
<1>6. ASSUME NEW i \in S, NEW j \in S, b.journals[i].source = b.journals[j].source PROVE i = j
  BY <1>1, <1>4, <1>6 DEF Ledgered, Titled, Sole
<1>7. Renames(q, S, R)
  <2>1. q \in [S -> R] /\ \A j \in S : q[j] = b.journals[j].source
    BY <1>4
  <2> HIDE DEF q, S, R
  <2> QED BY <1>5, <1>6, <2>1 DEF Renames
<1>8. After(g, f, q, S)
  BY <1>4 DEF After, Nets, Titlings
<1> HIDE DEF f, g, q, S, R
<1>9. Movement(b, S, {a}) = SumFunction(f)
  BY <1>2, <1>3, <1>7, <1>8, SumRenamed
<1> QED BY <1>9 DEF S, R, f

\* What some journals come to is what two parts of them do.
LEMMA MovementSplit ==
  ASSUME NEW b, Rows(b), Money(b), NEW A, NEW B, A \cap B = {}, NEW S, S = A \cup B,
         S \in SUBSET DOMAIN b.journals, NEW T
  PROVE  Movement(b, S, T) = Movement(b, A, T) + Movement(b, B, T)
<1> DEFINE f == Nets(b, S, T)
           g == Nets(b, A, T)
           h == Nets(b, B, T)
<1>1. A \in SUBSET DOMAIN b.journals /\ B \in SUBSET DOMAIN b.journals
  OBVIOUS
<1>2. Movement(b, S, T) = SumFunction(f) /\ Summable(f, S)
  BY MovementIs
<1>3. Movement(b, A, T) = SumFunction(g) /\ Summable(g, A)
  BY <1>1, MovementIs
<1>4. Movement(b, B, T) = SumFunction(h) /\ Summable(h, B)
  BY <1>1, MovementIs
<1>5. Alike(f, g, A) /\ Alike(f, h, B)
  BY DEF Alike, Nets
<1> HIDE DEF f, g, h
<1> QED BY <1>2, <1>3, <1>4, <1>5, SumSplit

LEMMA MovementNone ==
  ASSUME NEW b, Rows(b), Money(b), NEW S \in SUBSET DOMAIN b.journals, NEW T,
         \A j \in S : Net(b.journals[j].lines, T) = 0
  PROVE  Movement(b, S, T) = 0
<1> DEFINE f == Nets(b, S, T)
<1>1. Movement(b, S, T) = SumFunction(f) /\ Summable(f, S)
  BY MovementIs
<1>2. \A j \in S : f[j] = 0
  BY DEF Nets
<1> HIDE DEF f
<1> QED BY <1>1, <1>2, SumZero DEF Summable

\* An open period holds of the members' movements those in force, unless one was
\* taken back in another period.
LEMMA PeriodTitles ==
  ASSUME NEW b, Ledgered(b), ~TakenBackLater(b), NEW p, p \notin Frozen(b), NEW a \in Titles
  PROVE  Movement(b, Ordinary(b, p), {a}) = SumFunction(Titlings(b, InForce(b, p, Titling(a)), a))
<1> DEFINE type == Titling(a)
           S == Ordinary(b, p)
           K == Moving(b, p, type)
           A == Standing(b, p, type)
           R == Withdrawn(b, p, type)
           W == Withdrawing(b, p, type)
           B == R \cup W
<1>1. S \in SUBSET DOMAIN b.journals /\ Rows(b) /\ Money(b)
  BY DEF Ordinary, JournalsIn, Ledgered
<1>2. type \in MemberMoves
  BY DEF Titling, MemberMoves
<1>3. K \subseteq S
  <2> SUFFICES ASSUME NEW j \in K PROVE j \in S
    OBVIOUS
  <2>1. b.sources[b.journals[j].source].type # "opening_balance"
    BY DEF Moving, Titling
  <2> QED BY <2>1 DEF Moving, Ordinary, JournalsIn, OpeningBalanceJournals
<1>4. A \cap B = {} /\ K = A \cup B /\ R \cap W = {}
  BY DEF Standing, Withdrawn, Withdrawing
<1>5. Movement(b, A, {a}) = SumFunction(Titlings(b, InForce(b, p, type), a))
  <2> HIDE DEF type
  <2> QED BY <1>2, StandingIs
<1>6. Movement(b, W, {a}) = -Movement(b, R, {a})
  <2> HIDE DEF type
  <2> QED BY <1>2, Undoing
<1>7. \A j \in S \ K : Net(b.journals[j].lines, {a}) = 0
  BY OtherKinds
<1> HIDE DEF S, K, A, R, W, type
<1>8. Movement(b, S \ K, {a}) = 0
  <2>1. S \ K \in SUBSET DOMAIN b.journals
    BY <1>1
  <2> QED BY <1>1, <1>7, <2>1, MovementNone
<1>9. /\ K \in SUBSET DOMAIN b.journals /\ B \in SUBSET DOMAIN b.journals
      /\ A \in SUBSET DOMAIN b.journals /\ R \in SUBSET DOMAIN b.journals
  BY <1>1, <1>3, <1>4
<1>10. Movement(b, S, {a}) = Movement(b, K, {a}) + Movement(b, S \ K, {a})
  <2>1. K \cap (S \ K) = {} /\ S = K \cup (S \ K)
    BY <1>3
  <2> QED BY <1>1, <2>1, MovementSplit
<1>11. Movement(b, B, {a}) = Movement(b, R, {a}) + Movement(b, W, {a})
  BY <1>1, <1>4, <1>9, MovementSplit
<1> HIDE DEF B
<1>12. Movement(b, K, {a}) = Movement(b, A, {a}) + Movement(b, B, {a})
  BY <1>1, <1>4, <1>9, MovementSplit
<1>13. Movement(b, R, {a}) \in Int /\ Movement(b, A, {a}) \in Int
  BY <1>1, <1>9, MovementIs
<1>14. Movement(b, S, {a}) = Movement(b, A, {a})
  BY <1>6, <1>8, <1>10, <1>11, <1>12, <1>13
<1> QED BY <1>5, <1>14 DEF S, type

-----------------------------------------------------------------------------
(* What a period holds for each member *)

\* The documents of a kind in force in a period that are of some parties.
OfParties(b, p, type, P) == {s \in InForce(b, p, type) : b.sources[s].party \in P}

LEMMA MemberTotalIs ==
  ASSUME NEW b, NEW p, NEW type, NEW m
  PROVE  MemberTotal(b, p, type, m) = TotalOf(b, OfParties(b, p, type, {m}))
<1>1. {s \in Live(b, {type}) : /\ b.sources[s].party = m
                              /\ \E j \in JournalsOf(b, s) : b.journals[j].period = p}
        = OfParties(b, p, type, {m})
  BY DEF OfParties, InForce
<1> QED BY <1>1 DEF MemberTotal

LEMMA TotalOfBoth ==
  ASSUME NEW b, Rows(b), Money(b), NEW A, NEW B, A \cap B = {}, NEW S, S = A \cup B,
         S \in SUBSET DOMAIN b.sources
  PROVE  /\ TotalOf(b, S) = TotalOf(b, A) + TotalOf(b, B)
         /\ TotalOf(b, A) \in Int /\ TotalOf(b, B) \in Nat
<1> DEFINE f == [s \in S |-> b.sources[s].total]
           g == [s \in A |-> b.sources[s].total]
           h == [s \in B |-> b.sources[s].total]
           z == [s \in B |-> 0]
<1>1. IsFiniteSet(A) /\ IsFiniteSet(B) /\ IsFiniteSet(S)
  <2>1. A \in SUBSET DOMAIN b.sources /\ B \in SUBSET DOMAIN b.sources
    OBVIOUS
  <2> QED BY <2>1, RowSets
<1>2. \A s \in S : b.sources[s].total \in Nat
  BY DEF Money, Priced
<1>3. Summable(f, S) /\ Summable(g, A) /\ Summable(h, B) /\ Alike(f, g, A) /\ Alike(f, h, B)
  BY <1>1, <1>2 DEF Summable, Alike
<1>4. z \in [B -> Int] /\ (\A x \in B : z[x] = 0 /\ z[x] <= h[x])
  BY <1>2
<1>5. TotalOf(b, S) = SumFunction(f) /\ TotalOf(b, A) = SumFunction(g) /\ TotalOf(b, B) = SumFunction(h)
  BY DEF TotalOf
<1> HIDE DEF f, g, h, z
<1>6. SumFunction(f) = SumFunction(g) + SumFunction(h)
  BY <1>3, SumSplit
<1>7. SumFunction(g) \in Int /\ SumFunction(h) \in Int
  BY <1>3, SummableFact
<1>8. SumFunction(z) = 0 /\ SumFunction(z) <= SumFunction(h)
  BY <1>1, <1>3, <1>4, SumZero, SumAtMost DEF Summable
<1> QED BY <1>5, <1>6, <1>7, <1>8

\* The members, no two alike.
Partners(b) ==
  b.members \in Seq(DOMAIN Share) /\ \A i, k \in DOMAIN b.members : b.members[i] = b.members[k] => i = k

LeadMembers(b, n) == {b.members[k] : k \in 1 .. n}

MemberTotals(b, p, type, n) == [k \in 1 .. n |-> MemberTotal(b, p, type, b.members[k])]

LEMMA MemberSums ==
  ASSUME NEW b, Rows(b), Money(b), Partners(b), NEW p, NEW type, NEW n \in Nat, n <= Len(b.members)
  PROVE  /\ Integers(MemberTotals(b, p, type, n), n)
         /\ SumFunction(MemberTotals(b, p, type, n)) = TotalOf(b, OfParties(b, p, type, LeadMembers(b, n)))
<1> DEFINE l == Len(b.members)
           F(k) == MemberTotals(b, p, type, k)
           T(k) == OfParties(b, p, type, LeadMembers(b, k))
           Good == {k \in Nat : k <= l => Integers(F(k), k) /\ SumFunction(F(k)) = TotalOf(b, T(k))}
<1>1. l \in Nat /\ DOMAIN b.members = 1 .. l
  BY LenProperties DEF Partners
<1>2. \A P : OfParties(b, p, type, P) \in SUBSET DOMAIN b.sources
  BY DEF OfParties, InForce, Live
<1>3. 0 \in Good
  <2>1. 1 .. 0 = {}
    OBVIOUS
  <2>2. Integers(F(0), 0)
    BY <2>1 DEF MemberTotals, Integers
  <2>3. T(0) = {}
    BY <2>1 DEF LeadMembers, OfParties
  <2>4. TotalOf(b, {}) = 0
    <3>1. [s \in {} |-> b.sources[s].total] \in [{} -> Int]
      OBVIOUS
    <3> QED BY <3>1, SumNone DEF TotalOf
  <2>5. SumFunction(F(0)) = 0
    BY <2>2, SumOfFew
  <2> QED BY <2>2, <2>3, <2>4, <2>5
<1>4. ASSUME NEW k \in Nat, k \in Good PROVE k + 1 \in Good
  <2> SUFFICES ASSUME k + 1 <= l
               PROVE  Integers(F(k + 1), k + 1) /\ SumFunction(F(k + 1)) = TotalOf(b, T(k + 1))
    OBVIOUS
  <2> DEFINE m == b.members[k + 1]
             M == OfParties(b, p, type, {m})
  <2>1. Integers(F(k), k) /\ SumFunction(F(k)) = TotalOf(b, T(k))
    BY <1>1, <1>4
  <2>2. LeadMembers(b, k + 1) = LeadMembers(b, k) \cup {m} /\ m \notin LeadMembers(b, k)
    <3>1. 1 .. k + 1 = (1 .. k) \cup {k + 1}
      BY <1>4
    <3>2. LeadMembers(b, k + 1) = LeadMembers(b, k) \cup {m}
      BY <3>1 DEF LeadMembers
    <3>3. \A i \in 1 .. k : i \in 1 .. l /\ k + 1 \in 1 .. l /\ i # k + 1
      BY <1>1, <1>4
    <3>4. m \notin LeadMembers(b, k)
      BY <1>1, <3>3 DEF LeadMembers, Partners
    <3> QED BY <3>2, <3>4
  <2>3. T(k + 1) = T(k) \cup M /\ T(k) \cap M = {}
    BY <2>2 DEF OfParties
  <2>4. TotalOf(b, M) = MemberTotal(b, p, type, m)
    BY MemberTotalIs
  <2>5. /\ TotalOf(b, T(k + 1)) = TotalOf(b, T(k)) + TotalOf(b, M)
        /\ TotalOf(b, T(k)) \in Int /\ TotalOf(b, M) \in Nat
    <3>1. PICK A, B, S : A = T(k) /\ B = M /\ S = T(k + 1)
      OBVIOUS
    <3>2. A \cap B = {} /\ S = A \cup B /\ S \in SUBSET DOMAIN b.sources
      BY <1>2, <2>3, <3>1
    <3> HIDE DEF T, M, F
    <3>4. TotalOf(b, A) \in Int
      BY <3>2, TotalOfBoth
    <3>5. TotalOf(b, B) \in Nat
      BY <3>2, TotalOfBoth
    <3>3. TotalOf(b, S) = TotalOf(b, A) + TotalOf(b, B)
      BY <3>2, <3>4, <3>5, TotalOfBoth, SMTT(60)
    <3> QED BY <3>1, <3>3, <3>4, <3>5
  <2>6. Integers(F(k + 1), k + 1) /\ F(k + 1)[k + 1] = TotalOf(b, M) /\ F(k) = [i \in 1 .. k |-> F(k + 1)[i]]
    <3> DEFINE v(i) == MemberTotal(b, p, type, b.members[i])
    <3>1. F(k + 1) = [i \in 1 .. k + 1 |-> v(i)] /\ F(k) = [i \in 1 .. k |-> v(i)]
      BY DEF MemberTotals
    <3>2. \A i \in 1 .. k : v(i) \in Int
      <4> HIDE DEF v
      <4> QED BY <2>1, <3>1 DEF Integers
    <3>3. v(k + 1) = TotalOf(b, M) /\ v(k + 1) \in Int
      BY <2>4, <2>5
    <3>4. \A i \in 1 .. k + 1 : i \in 1 .. k \/ i = k + 1
      BY <1>4
    <3>5. (\A i \in 1 .. k : i \in 1 .. k + 1) /\ k + 1 \in 1 .. k + 1
      BY <1>4
    <3> HIDE DEF v, F, M
    <3>6. \A i \in 1 .. k + 1 : v(i) \in Int
      BY <3>2, <3>3, <3>4
    <3>7. F(k + 1)[k + 1] = v(k + 1) /\ \A i \in 1 .. k : F(k + 1)[i] = v(i)
      BY <3>1, <3>5
    <3> QED BY <3>1, <3>3, <3>6, <3>7 DEF Integers
  <2> HIDE DEF F, T, M
  <2>7. SumFunction(F(k + 1)) = SumFunction(F(k)) + F(k + 1)[k + 1]
    BY <2>6, SumLast
  <2> QED BY <2>1, <2>5, <2>6, <2>7
<1> HIDE DEF Good
<1>5. n \in Good
  BY <1>3, <1>4, NaturalsCovered
<1> QED BY <1>5 DEF Good

\* The parts of an amount come to it.
LEMMA PartsSum ==
  ASSUME NEW b, Partners(b), b.members # <<>>, NEW n \in Int
  PROVE  /\ [i \in DOMAIN b.members |-> Part(b, n, i)] \in [DOMAIN b.members -> Int]
         /\ SumFunction([i \in DOMAIN b.members |-> Part(b, n, i)]) = n
<1> DEFINE l == Len(b.members)
           m == l - 1
           f == [i \in 1 .. l |-> Part(b, n, i)]
           g == [k \in 1 .. m |-> Percent(n, Share[b.members[k]])]
<1>1. l \in Nat /\ DOMAIN b.members = 1 .. l /\ m \in Nat /\ l = m + 1
  BY LenProperties DEF Partners
<1>2. \A i \in 1 .. l : Part(b, n, i) \in Int
  BY <1>1, PartInt DEF Partners
<1>3. \A i \in 1 .. m : i \in 1 .. l /\ Part(b, n, i) = Percent(n, Share[b.members[i]])
  <2>1. \A i \in 1 .. m : i \in 1 .. l /\ i < l
    BY <1>1
  <2> QED BY <2>1 DEF Part
<1>4. Part(b, n, l) = n - SumFunction(g)
  <2>1. ~(l < l)
    BY <1>1
  <2> QED BY <2>1 DEF Part
<1>5. Integers(f, l) /\ f[l] = n - SumFunction(g) /\ g = [i \in 1 .. m |-> f[i]]
  <2>1. l \in 1 .. l
    BY <1>1
  <2>2. Integers(f, l)
    BY <1>2 DEF Integers
  <2>3. f[l] = Part(b, n, l) /\ \A i \in 1 .. m : f[i] = Percent(n, Share[b.members[i]])
    BY <1>3, <2>1
  <2> HIDE DEF f
  <2> QED BY <1>4, <2>2, <2>3
<1> HIDE DEF f, g, l, m
<1>6. SumFunction(f) = SumFunction(g) + f[l] /\ Integers(g, m)
  BY <1>1, <1>5, SumLast
<1>7. SumFunction(g) \in Int
  BY <1>1, <1>6, IntegersFact
<1>8. SumFunction(f) = n
  <2>1. PICK x \in Int : x = SumFunction(g)
    BY <1>7
  <2>4. PICK y : y = f[l]
    OBVIOUS
  <2>2. y = n - x
    BY <1>5, <2>1, <2>4
  <2>3. SumFunction(f) = x + y
    BY <1>6, <2>1, <2>4
  <2> QED BY <2>1, <2>2, <2>3
<1>9. f = [i \in DOMAIN b.members |-> Part(b, n, i)]
  BY <1>1 DEF f
<1>10. f \in [DOMAIN b.members -> Int]
  BY <1>1, <1>5 DEF Integers
<1> QED BY <1>8, <1>9, <1>10

\* A function that is made of two others.
Sums(h, f, g, S) ==
  /\ IsFiniteSet(S) /\ h \in [S -> Int] /\ f \in [S -> Int] /\ g \in [S -> Int]
  /\ \A x \in S : h[x] = f[x] + g[x]

LEMMA SumOfBoth ==
  ASSUME NEW S, NEW h, NEW f, NEW g, Sums(h, f, g, S)
  PROVE  SumFunction(h) = SumFunction(f) + SumFunction(g)
BY SumAdd DEF Sums

\* A function that is made of five others.
Combines(g, g1, g2, g3, g4, g5, S) ==
  /\ Summable(g, S) /\ {g1, g2, g3, g4, g5} \subseteq [S -> Int]
  /\ \A x \in S : g[x] = g1[x] + g2[x] + g3[x] - g4[x] - g5[x]

LEMMA SumOfFive ==
  ASSUME NEW S, NEW g, NEW g1, NEW g2, NEW g3, NEW g4, NEW g5, Combines(g, g1, g2, g3, g4, g5, S)
  PROVE  SumFunction(g) = SumFunction(g1) + SumFunction(g2) + SumFunction(g3)
                            - SumFunction(g4) - SumFunction(g5)
<1> DEFINE h1 == [x \in S |-> g1[x] + g2[x]]
           h2 == [x \in S |-> h1[x] + g3[x]]
           h3 == [x \in S |-> g[x] + g4[x]]
<1>0. /\ IsFiniteSet(S) /\ g \in [S -> Int] /\ g1 \in [S -> Int] /\ g2 \in [S -> Int]
      /\ g3 \in [S -> Int] /\ g4 \in [S -> Int] /\ g5 \in [S -> Int]
      /\ \A x \in S : g[x] = g1[x] + g2[x] + g3[x] - g4[x] - g5[x]
  BY DEF Combines, Summable
<1>1. h1 \in [S -> Int] /\ \A x \in S : h1[x] = g1[x] + g2[x]
  BY <1>0
<1>2. h2 \in [S -> Int] /\ \A x \in S : h2[x] = h1[x] + g3[x]
  <2> HIDE DEF h1
  <2> QED BY <1>0, <1>1
<1>3. h3 \in [S -> Int] /\ \A x \in S : h3[x] = g[x] + g4[x]
  <2> HIDE DEF h1, h2
  <2> QED BY <1>0
<1> HIDE DEF h1, h2, h3
<1>4. \A x \in S : h2[x] = h3[x] + g5[x]
  <2> SUFFICES ASSUME NEW x \in S PROVE h2[x] = h3[x] + g5[x]
    OBVIOUS
  <2>1. g[x] \in Int /\ g1[x] \in Int /\ g2[x] \in Int /\ g3[x] \in Int /\ g4[x] \in Int /\ g5[x] \in Int
    BY <1>0
  <2> QED BY <1>0, <1>1, <1>2, <1>3, <2>1
<1>5. SumFunction(h1) = SumFunction(g1) + SumFunction(g2)
  <2>1. Sums(h1, g1, g2, S)
    BY <1>0, <1>1 DEF Sums
  <2> QED BY <2>1, SumOfBoth
<1>6. SumFunction(h2) = SumFunction(h1) + SumFunction(g3)
  <2>1. Sums(h2, h1, g3, S)
    BY <1>0, <1>1, <1>2 DEF Sums
  <2> QED BY <2>1, SumOfBoth
<1>7. SumFunction(h3) = SumFunction(g) + SumFunction(g4)
  <2>1. Sums(h3, g, g4, S)
    BY <1>0, <1>3 DEF Sums
  <2> QED BY <2>1, SumOfBoth
<1>8. SumFunction(h2) = SumFunction(h3) + SumFunction(g5)
  <2>1. Sums(h2, h3, g5, S)
    BY <1>0, <1>2, <1>3, <1>4 DEF Sums
  <2> QED BY <2>1, SumOfBoth
<1>9. /\ SumFunction(g) \in Int /\ SumFunction(g1) \in Int /\ SumFunction(g2) \in Int
      /\ SumFunction(g3) \in Int /\ SumFunction(g4) \in Int /\ SumFunction(g5) \in Int
  BY <1>0, SumInt
<1> QED BY <1>5, <1>6, <1>7, <1>8, <1>9

\* What the members' documents of a kind in force in a period come to.
MembersTotal(b, p, type) == TotalOf(b, OfParties(b, p, type, Range(b.members)))

LEMMA MembersTotalIs ==
  ASSUME NEW b, Rows(b), Money(b), Partners(b), NEW p, NEW type, NEW l, l = Len(b.members)
  PROVE  /\ Integers(MemberTotals(b, p, type, l), l)
         /\ SumFunction(MemberTotals(b, p, type, l)) = MembersTotal(b, p, type)
         /\ MembersTotal(b, p, type) \in Int
<1>1. l \in Nat /\ DOMAIN b.members = 1 .. l /\ l <= l
  BY LenProperties DEF Partners
<1>2. LeadMembers(b, l) = Range(b.members)
  BY <1>1 DEF LeadMembers, Range
<1>3. Integers(MemberTotals(b, p, type, l), l)
  BY <1>1, MemberSums
<1>4. SumFunction(MemberTotals(b, p, type, l)) = TotalOf(b, OfParties(b, p, type, LeadMembers(b, l)))
  BY <1>1, MemberSums
<1>5. SumFunction(MemberTotals(b, p, type, l)) \in Int
  BY <1>1, <1>3, IntegersFact
<1> QED BY <1>2, <1>3, <1>4, <1>5 DEF MembersTotal

LEMMA CapitalInt ==
  ASSUME NEW b, Partners(b), b.capital \in [Range(b.members) -> Int]
  PROVE  SumFunction(b.capital) \in Int
<1>1. b.members \in [DOMAIN b.members -> Range(b.members)] /\ IsFiniteSet(DOMAIN b.members)
  <2>1. Len(b.members) \in Nat /\ DOMAIN b.members = 1 .. Len(b.members)
    BY LenProperties DEF Partners
  <2> QED BY <2>1, IntervalFinite DEF Partners, Range
<1>2. Range(b.members) = {b.members[x] : x \in DOMAIN b.members}
  BY DEF Range
<1>3. IsFiniteSet(Range(b.members))
  BY <1>1, <1>2, ImageFinite
<1> QED BY <1>3, SumInt

\* The members' capital that a close works out.
CapitalAfter(b, p, net) ==
  [m \in DOMAIN b.capital |-> LET i == CHOOSE k \in DOMAIN b.members : b.members[k] = m
                              IN ClosingCapital(b, p, net, i)]

\* What it comes to.
LEMMA CapitalSum ==
  ASSUME NEW b, Rows(b), Money(b), Partners(b), b.members # <<>>,
         b.capital \in [Range(b.members) -> Int], NEW p, NEW net \in Int,
         NEW f, f = CapitalAfter(b, p, net)
  PROVE  /\ Summable(f, Range(b.members))
         /\ SumFunction(f) = SumFunction(b.capital) + MembersTotal(b, p, "capital_injection") + net
                               - MembersTotal(b, p, "drawing") - Unattributed(b, p)
         /\ Unattributed(b, p) = Max({0, Max({0, Movement(b, JournalsIn(b, p), {"DRAWINGS"})})
                                           - MembersTotal(b, p, "drawing")})
<1> DEFINE l == Len(b.members)
           D == 1 .. l
           R == Range(b.members)
           u == Unattributed(b, p)
           g == [i \in D |-> ClosingCapital(b, p, net, i)]
           g1 == [i \in D |-> b.capital[b.members[i]]]
           g2 == MemberTotals(b, p, "capital_injection", l)
           g3 == [i \in DOMAIN b.members |-> Part(b, net, i)]
           g4 == MemberTotals(b, p, "drawing", l)
           g5 == [i \in DOMAIN b.members |-> Part(b, u, i)]
<1>1. l \in Nat /\ DOMAIN b.members = D /\ IsFiniteSet(D)
  <2>1. l \in Nat /\ DOMAIN b.members = 1 .. l
    BY LenProperties DEF Partners
  <2> QED BY <2>1, IntervalFinite
<1>2. g2 \in [D -> Int] /\ SumFunction(g2) = MembersTotal(b, p, "capital_injection")
  BY MembersTotalIs DEF Integers
<1>3. g4 \in [D -> Int] /\ SumFunction(g4) = MembersTotal(b, p, "drawing") /\ SumFunction(g4) \in Int
  BY MembersTotalIs DEF Integers
<1>4. u = Max({0, Max({0, Movement(b, JournalsIn(b, p), {"DRAWINGS"})}) - MembersTotal(b, p, "drawing")})
  <2>1. [k \in DOMAIN b.members |-> MemberTotal(b, p, "drawing", b.members[k])] = g4
    BY <1>1 DEF MemberTotals
  <2> HIDE DEF g4
  <2> QED BY <1>3, <2>1 DEF Unattributed
<1>5. u \in Int
  <2>1. JournalsIn(b, p) \in SUBSET DOMAIN b.journals
    BY DEF JournalsIn
  <2>2. PICK m \in Int : m = Movement(b, JournalsIn(b, p), {"DRAWINGS"})
    BY <2>1, MovementIs
  <2>3. Max({0, m}) \in Int
    BY MaxOfZero
  <2>4. PICK n \in Int : n = Max({0, m}) - MembersTotal(b, p, "drawing")
    BY <1>3, <2>3
  <2>5. u = Max({0, n})
    BY <1>4, <2>2, <2>4
  <2> QED BY <2>5, MaxOfZero
<1>6. g3 \in [D -> Int] /\ SumFunction(g3) = net
  <2> HIDE DEF D
  <2> QED BY <1>1, PartsSum
<1>7. g5 \in [D -> Int] /\ SumFunction(g5) = u
  <2> HIDE DEF D, u
  <2> QED BY <1>1, <1>5, PartsSum
<1>8. \A i \in D : b.members[i] \in R /\ b.capital[b.members[i]] \in Int
  BY <1>1 DEF Range
<1>9. g1 \in [D -> Int]
  BY <1>8
<1>10. \A i \in D : g[i] = g1[i] + g2[i] + g3[i] - g4[i] - g5[i]
  <2> SUFFICES ASSUME NEW i \in D PROVE g[i] = g1[i] + g2[i] + g3[i] - g4[i] - g5[i]
    OBVIOUS
  <2>1. /\ g[i] = ClosingCapital(b, p, net, i) /\ g1[i] = b.capital[b.members[i]]
        /\ g2[i] = MemberTotal(b, p, "capital_injection", b.members[i])
        /\ g4[i] = MemberTotal(b, p, "drawing", b.members[i])
        /\ g3[i] = Part(b, net, i) /\ g5[i] = Part(b, u, i)
    <3> HIDE DEF u
    <3> QED BY <1>1 DEF MemberTotals
  <2> HIDE DEF g, g1, g2, g3, g4, g5
  <2>2. g[i] = g1[i] + g2[i] + Part(b, net, i) - g4[i] - Part(b, u, i)
    BY <2>1 DEF ClosingCapital
  <2> QED BY <2>1, <2>2
<1>11. Renames(b.members, D, R)
  <2>1. b.members \in [D -> R]
    BY <1>1, LenProperties DEF Partners, Range
  <2> QED BY <1>1, <2>1 DEF Renames, Partners, Range
<1>12. \A i \in D : f[b.members[i]] = g[i]
  <2> SUFFICES ASSUME NEW i \in D PROVE f[b.members[i]] = g[i]
    OBVIOUS
  <2>1. PICK k : k = CHOOSE x \in DOMAIN b.members : b.members[x] = b.members[i]
    OBVIOUS
  <2>2. k \in DOMAIN b.members /\ b.members[k] = b.members[i]
    BY <1>1, <2>1
  <2>3. k = i
    BY <1>1, <2>2 DEF Partners
  <2>4. f[b.members[i]] = ClosingCapital(b, p, net, k)
    BY <1>8, <2>1 DEF CapitalAfter
  <2> QED BY <2>3, <2>4
<1>13. DOMAIN f = R /\ DOMAIN b.capital = R
  BY DEF CapitalAfter
<1> HIDE DEF g, g1, g2, g3, g4, g5, D, R, u
<1>14. g \in [D -> Int]
  <2>1. \A i \in D : g[i] \in Int
    BY <1>2, <1>3, <1>6, <1>7, <1>9, <1>10
  <2>2. g = [i \in D |-> g[i]]
    BY DEF g
  <2> QED BY <2>1, <2>2
<1>15. f \in [R -> Int]
  <2>1. \A m \in R : \E i \in D : m = b.members[i]
    BY <1>11 DEF Renames
  <2>2. ASSUME NEW m \in R PROVE f[m] \in Int
    <3>1. PICK i \in D : m = b.members[i]
      BY <2>1
    <3>2. f[m] = g[i] /\ g[i] \in Int
      BY <1>12, <1>14, <3>1
    <3> QED BY <3>2
  <2>3. f = [m \in R |-> f[m]]
    BY DEF CapitalAfter, R
  <2> QED BY <2>2, <2>3
<1>16. IsFiniteSet(R)
  <2>1. R = {b.members[i] : i \in D}
    BY <1>1 DEF R, Range
  <2> QED BY <1>1, <2>1, ImageFinite
<1>17. SumFunction(g) = SumFunction(f)
  <2>1. After(g, f, b.members, D)
    BY <1>12 DEF After
  <2>2. Summable(g, D) /\ Summable(f, R)
    BY <1>1, <1>14, <1>15, <1>16 DEF Summable
  <2>3. PICK q : q = b.members
    OBVIOUS
  <2>4. Renames(q, D, R) /\ After(g, f, q, D)
    BY <1>11, <2>1, <2>3
  <2> QED BY <2>2, <2>4, SumRenamed
<1>18. SumFunction(g1) = SumFunction(b.capital)
  <2>1. After(g1, b.capital, b.members, D)
    BY DEF After, g1
  <2>2. b.capital \in [R -> Int]
    BY DEF R
  <2> QED BY <1>1, <1>9, <1>11, <1>16, <2>1, <2>2, SumRenamed DEF Summable
<1>19. SumFunction(g) = SumFunction(g1) + SumFunction(g2) + SumFunction(g3) - SumFunction(g4) - SumFunction(g5)
  <2>1. g2 \in [D -> Int] /\ g4 \in [D -> Int]
    BY <1>2, <1>3
  <2>2. g3 \in [D -> Int] /\ g5 \in [D -> Int]
    BY <1>6, <1>7
  <2>3. Summable(g, D)
    BY <1>1, <1>14 DEF Summable
  <2>4. Combines(g, g1, g2, g3, g4, g5, D)
    BY <1>9, <1>10, <2>1, <2>2, <2>3 DEF Combines
  <2> QED BY <2>4, SumOfFive
<1>20. SumFunction(f) = SumFunction(b.capital) + MembersTotal(b, p, "capital_injection") + net
                          - MembersTotal(b, p, "drawing") - u
  BY <1>2, <1>3, <1>6, <1>7, <1>17, <1>18, <1>19
<1> QED BY <1>4, <1>15, <1>16, <1>20 DEF R, u, Summable

-----------------------------------------------------------------------------
(* The ledger of an open period, and what its close adds to the capital *)

\* Opening balances put nothing on the drawings.
LEMMA OpeningDrawings ==
  ASSUME NEW b, Ledgered(b), NEW j \in OpeningBalanceJournals(b)
  PROVE  Net(b.journals[j].lines, {"DRAWINGS"}) = 0
<1>1. /\ j \in Documented(b) /\ j \in DOMAIN b.journals
      /\ b.sources[b.journals[j].source].type = "opening_balance"
  BY DEF OpeningBalanceJournals, Documented
<1>2. ASSUME NEW i, Proper(b, i), b.sources[b.journals[i].source].of = 0,
             b.sources[b.journals[i].source].type = "opening_balance"
      PROVE  Net(b.journals[i].lines, {"DRAWINGS"}) = 0
  BY <1>2 DEF Proper, Title, Titles
<1>3. CASE b.sources[b.journals[j].source].of = 0
  BY <1>1, <1>2, <1>3 DEF Ledgered, Titled
<1>4. CASE b.sources[b.journals[j].source].of # 0
  <2>1. PICK i : i = b.journals[j].reversalOf
    OBVIOUS
  <2>2. PICK a : a = "DRAWINGS"
    OBVIOUS
  <2>3. Undoes(b, j, i)
    BY <1>1, <1>4, <2>1, TakesBackFact
  <2>7. Net(b.journals[i].lines, {a}) = 0
    BY <1>1, <1>2, <2>2, <2>3 DEF Undoes
  <2>8. Net(b.journals[j].lines, {a}) = 0
    <3>1. Cancels(b.journals[j].lines, b.journals[i].lines, a)
      BY <2>3 DEF Undoes
    <3> QED BY <2>7, <3>1 DEF Cancels
  <2> QED BY <2>2, <2>8
<1> QED BY <1>3, <1>4

LEMMA DrawingsIn ==
  ASSUME NEW b, Ledgered(b), NEW p
  PROVE  Movement(b, JournalsIn(b, p), {"DRAWINGS"}) = Movement(b, Ordinary(b, p), {"DRAWINGS"})
<1> DEFINE J == JournalsIn(b, p)
           A == Ordinary(b, p)
           B == J \cap OpeningBalanceJournals(b)
<1>1. Rows(b) /\ Money(b)
  BY DEF Ledgered
<1>2. A \cap B = {} /\ J = A \cup B /\ J \in SUBSET DOMAIN b.journals
  BY DEF Ordinary, JournalsIn
<1>3. \A j \in B : Net(b.journals[j].lines, {"DRAWINGS"}) = 0
  BY OpeningDrawings
<1> HIDE DEF J, A, B
<1>4. Movement(b, J, {"DRAWINGS"}) = Movement(b, A, {"DRAWINGS"}) + Movement(b, B, {"DRAWINGS"})
  BY <1>1, <1>2, MovementSplit
<1>5. A \in SUBSET DOMAIN b.journals /\ B \in SUBSET DOMAIN b.journals
  BY <1>2
<1>6. Movement(b, B, {"DRAWINGS"}) = 0
  BY <1>1, <1>3, <1>5, MovementNone
<1>7. Movement(b, A, {"DRAWINGS"}) \in Int
  BY <1>1, <1>5, MovementIs
<1>8. Movement(b, J, {"DRAWINGS"}) = Movement(b, A, {"DRAWINGS"})
  BY <1>4, <1>6, <1>7
<1> QED BY <1>8 DEF J, A

\* What the members drew, and what of it their documents do not say.
LEMMA PeriodDrawings ==
  ASSUME NEW b, Ledgered(b), ~TakenBackLater(b), NEW p, p \notin Frozen(b),
         NEW u, u = Max({0, Max({0, Movement(b, JournalsIn(b, p), {"DRAWINGS"})})
                              - MembersTotal(b, p, "drawing")})
  PROVE  /\ u \in Int /\ MembersTotal(b, p, "drawing") \in Int
         /\ u + MembersTotal(b, p, "drawing") = Movement(b, Ordinary(b, p), {"DRAWINGS"})
<1> DEFINE type == "drawing"
           S == InForce(b, p, type)
           A == OfParties(b, p, type, Range(b.members))
           B == S \ A
           f == Titlings(b, S, "DRAWINGS")
<1>1. Rows(b) /\ Money(b)
  BY DEF Ledgered
<1>2. S \in SUBSET DOMAIN b.sources /\ A \cap B = {} /\ S = A \cup B
  BY DEF OfParties, InForce, Live
<1>3. f = [s \in S |-> b.sources[s].total]
  <2>1. ASSUME NEW s \in S PROVE Title(b.sources[s], "DRAWINGS") = b.sources[s].total
    BY DEF InForce, Live, Title
  <2> HIDE DEF S
  <2> QED BY <2>1 DEF Titlings
<1>4. Movement(b, Ordinary(b, p), {"DRAWINGS"}) = TotalOf(b, S)
  <2>1. PICK a : a = "DRAWINGS"
    OBVIOUS
  <2>2. a \in Titles /\ Titling(a) = "drawing"
    BY <2>1 DEF Titles, Titling
  <2>3. Movement(b, Ordinary(b, p), {a}) = SumFunction(Titlings(b, InForce(b, p, Titling(a)), a))
    BY <2>2, PeriodTitles
  <2> QED BY <1>3, <2>1, <2>2, <2>3 DEF TotalOf
<1>5. MembersTotal(b, p, "drawing") = TotalOf(b, A)
  BY DEF MembersTotal
<1> HIDE DEF S, A, B, f
<1>6. TotalOf(b, S) = TotalOf(b, A) + TotalOf(b, B)
  BY <1>1, <1>2, TotalOfBoth
<1>7. TotalOf(b, B) \in Nat
  BY <1>1, <1>2, TotalOfBoth
<1>8. TotalOf(b, A) \in Nat
  <2>1. B \cap A = {} /\ S = B \cup A
    BY <1>2
  <2> QED BY <1>1, <1>2, <2>1, TotalOfBoth
<1>9. PICK x \in Nat, y \in Nat : x = TotalOf(b, A) /\ y = TotalOf(b, B)
  BY <1>7, <1>8
<1>10. Movement(b, JournalsIn(b, p), {"DRAWINGS"}) = x + y
  BY <1>4, <1>6, <1>9, DrawingsIn
<1>11. Max({0, x + y}) = x + y
  <2>1. PICK n \in Nat : n = x + y
    OBVIOUS
  <2>2. Max({0, n}) = n
    <3>1. n \in Int /\ 0 \in Int
      OBVIOUS
    <3>2. Max({0, n}) \in {0, n} /\ n <= Max({0, n})
      BY <3>1, MaxOfTwo
    <3> QED BY <3>2
  <2> QED BY <2>1, <2>2
<1>12. Max({0, y}) = y
  <2>1. y \in Int /\ 0 \in Int
    OBVIOUS
  <2>2. Max({0, y}) \in {0, y} /\ y <= Max({0, y})
    BY <2>1, MaxOfTwo
  <2> QED BY <2>2
<1>13. u = y
  <2>1. (x + y) - x = y
    OBVIOUS
  <2> QED BY <1>5, <1>9, <1>10, <1>11, <1>12, <2>1
<1> QED BY <1>4, <1>5, <1>6, <1>9, <1>13

\* What the members paid in.
LEMMA PeriodInjections ==
  ASSUME NEW b, Ledgered(b), ~TakenBackLater(b), NEW p, p \notin Frozen(b)
  PROVE  /\ MembersTotal(b, p, "capital_injection") \in Int
         /\ MembersTotal(b, p, "capital_injection") = -Movement(b, Ordinary(b, p), {"CAPITAL"})
<1> DEFINE type == "capital_injection"
           S == InForce(b, p, type)
           f == Titlings(b, S, "CAPITAL")
           g == [s \in S |-> b.sources[s].total]
<1>1. Rows(b) /\ Money(b)
  BY DEF Ledgered
<1>2. S \in SUBSET DOMAIN b.sources /\ IsFiniteSet(S)
  <2>1. S \in SUBSET DOMAIN b.sources
    BY DEF InForce, Live
  <2> QED BY <1>1, <2>1, RowSets
<1>3. OfParties(b, p, type, Range(b.members)) = S
  <2>1. ASSUME NEW s \in S PROVE b.sources[s].party \in Range(b.members)
    <3>1. s \in DOMAIN b.sources /\ b.sources[s].type = type /\ b.sources[s].of = 0
      BY DEF InForce, Live
    <3>2. Noted(b, b.sources[s])
      BY <1>1, <3>1 DEF Money
    <3> QED BY <3>1, <3>2 DEF Noted
  <2> QED BY <2>1 DEF OfParties
<1>4. MembersTotal(b, p, type) = SumFunction(g)
  BY <1>3 DEF MembersTotal, TotalOf
<1>5. Movement(b, Ordinary(b, p), {"CAPITAL"}) = SumFunction(f)
  <2>1. PICK a : a = "CAPITAL"
    OBVIOUS
  <2>2. a \in Titles /\ Titling(a) = type
    BY <2>1 DEF Titles, Titling
  <2>3. Movement(b, Ordinary(b, p), {a}) = SumFunction(Titlings(b, InForce(b, p, Titling(a)), a))
    BY <2>2, PeriodTitles
  <2> QED BY <2>1, <2>2, <2>3
<1>6. ASSUME NEW s \in S PROVE g[s] \in Int /\ f[s] \in Int /\ f[s] = -g[s]
  <2>1. b.sources[s].type = type /\ b.sources[s].total \in Nat
    BY <1>1, <1>2 DEF InForce, Live, Money, Priced
  <2>2. Title(b.sources[s], "CAPITAL") = -b.sources[s].total
    BY <2>1 DEF Title
  <2> QED BY <2>1, <2>2 DEF Titlings
<1>7. DOMAIN f = S /\ DOMAIN g = S /\ f = [s \in S |-> f[s]] /\ g = [s \in S |-> g[s]]
  BY DEF Titlings
<1> HIDE DEF f, g, S
<1>8. f \in [S -> Int] /\ g \in [S -> Int]
  BY <1>6, <1>7
<1>9. SumFunction(f) = -SumFunction(g) /\ SumFunction(g) \in Int
  BY <1>2, <1>6, <1>8, SumOpposite, SumInt
<1> QED BY <1>4, <1>5, <1>9

-----------------------------------------------------------------------------
(* What a close posts to the members' accounts *)

\* The profit is added to the members' capital; nothing else of a close is theirs.
Shared(b, net, a) == IF a = "CAPITAL" /\ b.members # <<>> THEN -net ELSE 0

\* What each member is given is a part of the profit.
LEMMA ShareTitles ==
  ASSUME NEW b, Partners(b), NEW n \in Int, NEW q, q = ShareLines(b, n), NEW a \in Titles
  PROVE  Net(q, {a}) = Shared(b, n, a)
<1> DEFINE l == Len(b.members)
           D == 1 .. l
           s == [i \in D |-> Line("RETAINED_EARNINGS", "none", Part(b, n, i))]
           t == [i \in D |-> Line("CAPITAL", "none", -Part(b, n, i))]
           h == [i \in DOMAIN b.members |-> Part(b, n, i)]
           g == Worth(t, {a})
<1>1. l \in Nat /\ DOMAIN b.members = D
  BY LenProperties DEF Partners
<1>2. q = s \o t
  BY <1>1 DEF ShareLines
<1>3. ASSUME NEW i \in D
      PROVE  /\ Charges(s[i], "RETAINED_EARNINGS", Part(b, n, i))
             /\ Charges(t[i], "CAPITAL", -Part(b, n, i)) /\ Part(b, n, i) \in Int
  <2>1. PICK m \in Int : m = Part(b, n, i)
    BY <1>1, PartInt DEF Partners
  <2>2. PICK o \in Int : o = -m
    OBVIOUS
  <2>3. "RETAINED_EARNINGS" \in Accounts /\ "CAPITAL" \in Accounts
    BY DEF Accounts
  <2>4. /\ Charges(Line("RETAINED_EARNINGS", "none", m), "RETAINED_EARNINGS", m)
        /\ Charges(Line("CAPITAL", "none", o), "CAPITAL", o)
    BY <2>3, ChargesFact
  <2> QED BY <2>1, <2>2, <2>4
<1>4. /\ IsSeq(s) /\ Len(s) = l /\ DOMAIN s = D /\ IsSeq(t) /\ Len(t) = l /\ DOMAIN t = D
  <2>1. s = [i \in D |-> s[i]] /\ t = [i \in D |-> t[i]]
    OBVIOUS
  <2> HIDE DEF s, t, l
  <2> QED BY <1>1, <2>1, FunctionSeq
<1> HIDE DEF s, t, l
<1>5. LineSeq(s) /\ LineSeq(t)
  BY <1>3, <1>4 DEF LineSeq, Charges
<1>6. Net(s, {a}) = 0
  <2>1. \A k \in DOMAIN s : s[k].account \notin {a}
    BY <1>3, <1>4 DEF Charges, Titles
  <2> QED BY <1>5, <2>1, NetElsewhere
<1>7. Net(t, {a}) = Shared(b, n, a)
  <2>1. CASE a # "CAPITAL"
    <3>1. \A k \in DOMAIN t : t[k].account \notin {a}
      BY <1>3, <1>4, <2>1 DEF Charges
    <3> QED BY <1>5, <2>1, <3>1, NetElsewhere DEF Shared
  <2>2. CASE a = "CAPITAL" /\ b.members = <<>>
    <3>1. DOMAIN t = {}
      <4>1. DOMAIN b.members = {}
        BY <2>2
      <4> QED BY <1>1, <1>4, <4>1
    <3>2. Net(t, {a}) = 0
      BY <1>5, <3>1, NetElsewhere
    <3> QED BY <2>2, <3>2 DEF Shared
  <2>3. CASE a = "CAPITAL" /\ b.members # <<>>
    <3>1. Integers(g, l) /\ \A i \in D : g[i] = IF t[i].account \in {a} THEN t[i].amount ELSE 0
      BY <1>4, <1>5, WorthFact
    <3>2. \A i \in D : g[i] = -h[i]
      BY <1>1, <1>3, <2>3, <3>1 DEF Charges
    <3>3. h \in [DOMAIN b.members -> Int] /\ SumFunction(h) = n
      BY <2>3, PartsSum
    <3>4. IsFiniteSet(D) /\ g \in [D -> Int] /\ h \in [D -> Int]
      <4>1. IsFiniteSet(D)
        <5> HIDE DEF g, h
        <5>1. IsFiniteSet(1 .. l)
          BY <1>1, IntervalFinite
        <5> QED BY <5>1
      <4>2. g \in [D -> Int]
        <5> HIDE DEF g
        <5> QED BY <3>1 DEF Integers
      <4>3. h \in [D -> Int]
        <5> HIDE DEF h, D
        <5> QED BY <1>1, <3>3
      <4> QED BY <4>1, <4>2, <4>3
    <3> HIDE DEF g, h, D
    <3>5. SumFunction(g) = -SumFunction(h)
      BY <3>2, <3>4, SumOpposite
    <3>6. Net(t, {a}) = -n
      BY <3>3, <3>5 DEF Net, NetOf, Worth, g
    <3> QED BY <2>3, <3>6 DEF Shared
  <2> QED BY <2>1, <2>2, <2>3
<1>8. Net(s \o t, {a}) = Net(s, {a}) + Net(t, {a})
  BY <1>5, NetJoined
<1>9. Shared(b, n, a) \in Int
  BY DEF Shared
<1> QED BY <1>2, <1>6, <1>7, <1>8, <1>9

\* What clears revenue and expense is not the members'.
LEMMA ClearingTitles ==
  ASSUME NEW b, Rows(b), Money(b), NEW p, NEW q, q = ClearingLines(b, p)
  PROVE  LineSeq(q) /\ Avoids(q)
<1> DEFINE l == [a \in ResultAccounts |-> Line(a, "none", -Movement(b, JournalsIn(b, p), {a}))]
           S == {l[a] : a \in ResultAccounts}
<1>1. LineSeq(q)
  BY ClearingFact DEF Listed
<1>2. q = SetToSeq(S)
  BY DEF ClearingLines, ResultAccounts
<1>3. IsFiniteSet(S)
  <2>1. S = {l[a] : a \in ResultAccounts}
    OBVIOUS
  <2> HIDE DEF S, l
  <2> QED BY <2>1, ResultAccountsFact, ImageFinite
<1>4. \A k \in DOMAIN q : q[k] \in S
  <2> HIDE DEF S
  <2> QED BY <1>2, <1>3, FiniteToSeq
<1>5. ASSUME NEW x \in S PROVE x.account \in ResultAccounts
  <2>1. PICK a \in ResultAccounts : x = l[a]
    OBVIOUS
  <2>2. PICK m : m = -Movement(b, JournalsIn(b, p), {a})
    OBVIOUS
  <2>3. x = Line(a, "none", m)
    BY <2>1, <2>2
  <2> QED BY <2>3 DEF Line
<1>6. \A a \in ResultAccounts : a \notin Titles
  BY DEF ResultAccounts, RevenueAccounts, ExpenseAccounts, Titles
<1> HIDE DEF S
<1> QED BY <1>1, <1>4, <1>5, <1>6 DEF Avoids

LEMMA ClosingTitles ==
  ASSUME NEW b, Rows(b), Money(b), Partners(b), NEW p, NEW net \in Int,
         NEW q, q = ClosingLines(b, p, net), NEW a \in Titles
  PROVE  Net(q, {a}) = Shared(b, net, a)
<1> DEFINE total == Movement(b, JournalsIn(b, p), ResultAccounts)
           clearing == ClearingLines(b, p)
           retained == <<Line("RETAINED_EARNINGS", "none", total)>>
           shares == ShareLines(b, net)
           t == clearing \o retained
           s == t \o shares
<1>1. q = Lines(s)
  BY DEF ClosingLines, ResultAccounts
<1>2. total \in Int
  <2>1. JournalsIn(b, p) \in SUBSET DOMAIN b.journals
    BY DEF JournalsIn
  <2> QED BY <2>1, MovementIs
<1>3. LineSeq(clearing) /\ Net(clearing, {a}) = 0
  <2> HIDE DEF clearing
  <2>1. clearing = ClearingLines(b, p)
    BY DEF clearing
  <2>2. LineSeq(clearing) /\ Avoids(clearing)
    BY <2>1, ClearingTitles
  <2> QED BY <2>2, AvoidsNet
<1>4. LineSeq(retained) /\ Net(retained, {a}) = 0
  <2>1. PICK m \in Int : m = total
    BY <1>2
  <2>2. "RETAINED_EARNINGS" \in Accounts
    BY DEF Accounts
  <2>3. Charges(Line("RETAINED_EARNINGS", "none", m), "RETAINED_EARNINGS", m)
    BY <2>2, ChargesFact
  <2>4. LineSeq(<<Line("RETAINED_EARNINGS", "none", m)>>)
    BY <2>3, ListedOne DEF Listed
  <2>5. "RETAINED_EARNINGS" \notin {a}
    BY UntitledFact
  <2>6. Net(<<Line("RETAINED_EARNINGS", "none", m)>>, {a}) = 0
    BY <2>3, <2>5, NetOne DEF Charges
  <2> QED BY <2>1, <2>4, <2>6
<1>5. LineSeq(shares) /\ Net(shares, {a}) = Shared(b, net, a)
  <2>1. Net(shares, {a}) = Shared(b, net, a)
    BY ShareTitles
  <2>2. LineSeq(shares)
    BY ShareFact DEF Listed, Partners
  <2> QED BY <2>1, <2>2
<1> HIDE DEF clearing, retained, shares
<1>6. LineSeq(t) /\ Net(t, {a}) = 0
  <2>1. LineSeq(t)
    BY <1>3, <1>4, NetJoined
  <2>2. Net(t, {a}) = Net(clearing, {a}) + Net(retained, {a})
    BY <1>3, <1>4, NetJoined
  <2> QED BY <1>3, <1>4, <2>1, <2>2
<1> HIDE DEF t
<1>7. LineSeq(s) /\ Net(s, {a}) = Net(t, {a}) + Net(shares, {a})
  BY <1>5, <1>6, NetJoined
<1>8. Shared(b, net, a) \in Int
  BY DEF Shared
<1> HIDE DEF s
<1>9. Net(s, {a}) = Shared(b, net, a)
  BY <1>5, <1>6, <1>7, <1>8
<1> QED BY <1>1, <1>7, <1>9, NetLines

\* Journals of a close: of no document, in the period that closes, each putting
\* the same on the members' accounts.
OfClose(js, p, T) ==
  IsSeq(js) /\ \A i \in DOMAIN js : /\ js[i].source = 0 /\ js[i].reversalOf = 0 /\ js[i].period = p
                                    /\ \A a \in Titles : Net(js[i].lines, {a}) = T[a]

LEMMA OfCloseFact ==
  ASSUME NEW p, NEW T
  PROVE  /\ OfClose(<<>>, p, T)
         /\ \A date, lines : (\A a \in Titles : Net(lines, {a}) = T[a]) =>
              OfClose(<<Journal(p, 0, date, lines)>>, p, T)
         /\ \A js, ks : OfClose(js, p, T) /\ OfClose(ks, p, T) => OfClose(js \o ks, p, T)
<1>1. OfClose(<<>>, p, T)
  <2>1. IsSeq(<<>>)
    BY OneFact
  <2>2. DOMAIN <<>> = {}
    OBVIOUS
  <2> QED BY <2>1, <2>2 DEF OfClose
<1>2. ASSUME NEW date, NEW lines, \A a \in Titles : Net(lines, {a}) = T[a]
      PROVE  OfClose(<<Journal(p, 0, date, lines)>>, p, T)
  <2> DEFINE j == Journal(p, 0, date, lines)
  <2>1. j.lines = lines /\ j.source = 0 /\ j.reversalOf = 0 /\ j.period = p
    BY DEF Journal
  <2> HIDE DEF j
  <2>2. IsSeq(<<j>>) /\ DOMAIN <<j>> = {1} /\ <<j>>[1] = j
    BY OneFact
  <2>3. OfClose(<<j>>, p, T)
    BY <1>2, <2>1, <2>2 DEF OfClose
  <2> QED BY <2>3 DEF j
<1>3. ASSUME NEW js, NEW ks, OfClose(js, p, T), OfClose(ks, p, T) PROVE OfClose(js \o ks, p, T)
  <2>1. /\ IsSeq(js \o ks) /\ DOMAIN (js \o ks) = 1 .. Len(js) + Len(ks)
        /\ \A i \in 1 .. Len(js) : (js \o ks)[i] = js[i]
        /\ \A i \in 1 .. Len(ks) : (js \o ks)[Len(js) + i] = ks[i]
        /\ Len(js) \in Nat /\ DOMAIN js = 1 .. Len(js) /\ Len(ks) \in Nat /\ DOMAIN ks = 1 .. Len(ks)
    BY <1>3, ConcatFact, SeqFact DEF OfClose
  <2>2. ASSUME NEW i \in 1 .. Len(js) + Len(ks)
        PROVE  (\E k \in DOMAIN js : (js \o ks)[i] = js[k]) \/ \E k \in DOMAIN ks : (js \o ks)[i] = ks[k]
    <3>1. CASE i \in 1 .. Len(js)
      BY <2>1, <3>1
    <3>2. CASE i \notin 1 .. Len(js)
      <4>1. i - Len(js) \in 1 .. Len(ks) /\ i = Len(js) + (i - Len(js))
        BY <2>1, <3>2
      <4> QED BY <2>1, <4>1
    <3> QED BY <3>1, <3>2
  <2>3. ASSUME NEW i \in DOMAIN (js \o ks)
        PROVE  /\ (js \o ks)[i].source = 0 /\ (js \o ks)[i].reversalOf = 0 /\ (js \o ks)[i].period = p
               /\ \A a \in Titles : Net((js \o ks)[i].lines, {a}) = T[a]
    <3>1. CASE \E k \in DOMAIN js : (js \o ks)[i] = js[k]
      BY <1>3, <3>1 DEF OfClose
    <3>2. CASE \E k \in DOMAIN ks : (js \o ks)[i] = ks[k]
      BY <1>3, <3>2 DEF OfClose
    <3> QED BY <2>1, <2>2, <3>1, <3>2
  <2>4. IsSeq(js \o ks)
    BY <2>1
  <2> QED BY <2>3, <2>4 DEF OfClose
<1> QED BY <1>1, <1>2, <1>3

\* What a close posts to a book.
Clerks(b, c, p) ==
  /\ Beginning(b, c) /\ c.sources = b.sources /\ c.members = b.members
  /\ \A j \in New(b, c) :
       c.journals[j].source = 0 /\ c.journals[j].reversalOf = 0 /\ c.journals[j].period = p

LEMMA ClerksTwice ==
  ASSUME NEW b, NEW c, NEW d, NEW p, Clerks(b, c, p), Clerks(c, d, p)
  PROVE  Clerks(b, d, p) /\ New(b, d) = New(b, c) \cup New(c, d) /\ New(b, c) \cap New(c, d) = {}
<1>1. /\ DOMAIN b.journals \subseteq DOMAIN c.journals /\ DOMAIN c.journals \subseteq DOMAIN d.journals
      /\ \A j \in DOMAIN c.journals : d.journals[j] = c.journals[j]
      /\ \A j \in DOMAIN b.journals : c.journals[j] = b.journals[j]
  BY DEF Clerks, Beginning
<1>2. New(b, d) = New(b, c) \cup New(c, d) /\ New(b, c) \cap New(c, d) = {}
  BY <1>1 DEF New
<1>3. Beginning(b, d)
  BY <1>1 DEF Beginning
<1>4. \A j \in New(b, c) : j \in DOMAIN c.journals
  BY DEF New
<1>5. ASSUME NEW j \in New(b, d)
      PROVE  d.journals[j].source = 0 /\ d.journals[j].reversalOf = 0 /\ d.journals[j].period = p
  <2>1. CASE j \in New(c, d)
    BY <2>1 DEF Clerks
  <2>2. CASE j \in New(b, c)
    BY <1>1, <1>4, <2>2 DEF Clerks
  <2> QED BY <1>2, <2>1, <2>2
<1>6. d.sources = b.sources /\ d.members = b.members
  BY DEF Clerks
<1> QED BY <1>2, <1>3, <1>5, <1>6 DEF Clerks

\* What the journals of a close put on the members' accounts.
Charging(b, c, T) == \A j \in New(b, c) : \A a \in Titles : Net(c.journals[j].lines, {a}) = T[a]

LEMMA ClerksPosted ==
  ASSUME NEW b, IsSeq(b.journals), NEW p, NEW T, NEW js, OfClose(js, p, T),
         NEW c, c.journals = b.journals \o js, c.sources = b.sources, c.members = b.members
  PROVE  /\ Clerks(b, c, p) /\ Charging(b, c, T)
         /\ \A j \in New(b, c) : j - Len(b.journals) \in DOMAIN js
<1> DEFINE n == Len(b.journals)
           m == Len(js)
<1>1. /\ IsSeq(c.journals) /\ DOMAIN c.journals = 1 .. n + m
      /\ \A i \in 1 .. n : c.journals[i] = b.journals[i]
      /\ \A i \in 1 .. m : c.journals[n + i] = js[i]
      /\ n \in Nat /\ DOMAIN b.journals = 1 .. n /\ m \in Nat /\ DOMAIN js = 1 .. m
  BY ConcatFact, SeqFact DEF OfClose
<1>2. Beginning(b, c)
  <2> HIDE DEF n, m
  <2> QED BY <1>1 DEF Beginning
<1>3. ASSUME NEW j \in New(b, c) PROVE j - n \in DOMAIN js /\ c.journals[j] = js[j - n]
  <2> HIDE DEF n, m
  <2>1. j - n \in 1 .. m /\ j = n + (j - n)
    BY <1>1 DEF New
  <2> QED BY <1>1, <2>1
<1>4. ASSUME NEW j \in New(b, c)
      PROVE  /\ c.journals[j].source = 0 /\ c.journals[j].reversalOf = 0 /\ c.journals[j].period = p
             /\ \A a \in Titles : Net(c.journals[j].lines, {a}) = T[a]
  <2>1. PICK i \in DOMAIN js : c.journals[j] = js[i]
    BY <1>3
  <2> QED BY <2>1 DEF OfClose
<1> QED BY <1>2, <1>3, <1>4 DEF Clerks, Charging

\* The journals that adjust the stock and the commission are not of the members.
LEMMA AdjustmentTitles ==
  ASSUME NEW p, NEW date, NEW amount \in Int, NEW debit \in Accounts, NEW credit \in Accounts,
         {debit, credit} \cap Titles = {}
  PROVE  OfClose(AdjustmentJournals(p, date, amount, debit, credit), p, [a \in Titles |-> 0])
<1> DEFINE T == [a \in Titles |-> 0]
<1>1. CASE amount = 0
  BY <1>1, OfCloseFact DEF AdjustmentJournals
<1>2. CASE amount # 0
  <2> DEFINE s == <<Line(debit, "none", amount), Line(credit, "none", -amount)>>
  <2>1. AdjustmentJournals(p, date, amount, debit, credit) = <<Journal(p, 0, date, s)>>
    BY <1>2 DEF AdjustmentJournals
  <2>2. PICK o \in Int : o = -amount
    OBVIOUS
  <2>3. Charges(Line(debit, "none", amount), debit, amount) /\ Charges(Line(credit, "none", o), credit, o)
    BY ChargesFact
  <2>4. LineSeq(<<Line(debit, "none", amount), Line(credit, "none", o)>>)
    BY <2>3, ListedTwo DEF Listed
  <2>5. Avoids(<<Line(debit, "none", amount), Line(credit, "none", o)>>)
    BY AvoidsFact
  <2>6. LineSeq(s) /\ Avoids(s)
    BY <2>2, <2>4, <2>5
  <2> HIDE DEF s
  <2>7. \A a \in Titles : Net(s, {a}) = T[a]
    BY <2>6, AvoidsNet
  <2> HIDE DEF T
  <2>8. OfClose(<<Journal(p, 0, date, s)>>, p, T)
    BY <2>7, OfCloseFact
  <2> QED BY <2>1, <2>8 DEF T
<1> QED BY <1>1, <1>2

LEMMA AdjustedTitles ==
  ASSUME NEW b, Sound(b), Money(b), NEW r, r.cogs \in Int, r.commission \in Int, NEW date,
         NEW p, p = r.period, NEW c, c = Adjusted(b, r, date)
  PROVE  Clerks(b, c, p) /\ c.capital = b.capital /\ Charging(b, c, [a \in Titles |-> 0])
<1> DEFINE us == IF b.perpetual THEN <<>>
                 ELSE AdjustmentJournals(r.period, date, r.cogs, "COGS", "INVENTORY")
           vs == AdjustmentJournals(r.period, date, r.commission, "COMMISSION_EXPENSE", "COMMISSION_PAYABLE")
           T == [a \in Titles |-> 0]
<1>1. /\ "COGS" \in Accounts /\ "INVENTORY" \in Accounts
      /\ "COMMISSION_EXPENSE" \in Accounts /\ "COMMISSION_PAYABLE" \in Accounts
      /\ {"COGS", "INVENTORY"} \cap Titles = {}
      /\ {"COMMISSION_EXPENSE", "COMMISSION_PAYABLE"} \cap Titles = {}
  BY DEF Accounts, ExpenseAccounts, Titles
<1>2. AllFair(us) /\ AllFair(vs)
  BY <1>1, AdjustmentFair, AllFairFact
<1>3. OfClose(us, p, T) /\ OfClose(vs, p, T)
  <2>1. OfClose(AdjustmentJournals(r.period, date, r.cogs, "COGS", "INVENTORY"), p, T)
    BY <1>1, AdjustmentTitles
  <2>2. OfClose(vs, p, T)
    BY <1>1, AdjustmentTitles
  <2> HIDE DEF T, vs
  <2>3. OfClose(<<>>, p, T)
    BY OfCloseFact
  <2> QED BY <2>1, <2>2, <2>3
<1>4. c = Write(b, us \o vs)
  BY DEF Adjusted
<1>5. BookRecord(b) /\ IsSeq(b.journals)
  BY DEF Sound, Rows
<1> HIDE DEF us, vs, T
<1>6. PICK js : js = us \o vs
  OBVIOUS
<1>7. AllFair(js) /\ OfClose(js, p, T)
  BY <1>2, <1>3, <1>6, AllFairFact, OfCloseFact
<1>8. c = Write(b, js)
  BY <1>4, <1>6
<1>9. /\ c.journals = b.journals \o js /\ c.sources = b.sources
      /\ c.members = b.members /\ c.capital = b.capital
  BY <1>5, <1>7, <1>8, MoneyWrite
<1>10. Clerks(b, c, p)
  BY <1>5, <1>7, <1>9, ClerksPosted
<1>11. Charging(b, c, T)
  BY <1>5, <1>7, <1>9, ClerksPosted
<1> QED BY <1>9, <1>10, <1>11 DEF T

\* The closing journal adds the profit to the members' capital.
LEMMA ClosingPosted ==
  ASSUME NEW b, Sound(b), Money(b), Partners(b), NEW p, NEW date, NEW net \in Int,
         NEW c, c = Write(b, ClosingJournals(b, p, date, net)), Rows(c), Money(c), NEW a \in Titles
  PROVE  /\ Clerks(b, c, p) /\ c.capital = b.capital
         /\ Movement(c, New(b, c), {a}) = Shared(b, net, a)
<1> DEFINE q == ClosingLines(b, p, net)
           j == Journal(p, 0, date, q)
           ks == ClosingJournals(b, p, date, net)
           T == [e \in Titles |-> Shared(b, net, e)]
           N == New(b, c)
           f == Nets(c, N, {a})
<1>1. Rows(b) /\ BookRecord(b) /\ IsSeq(b.journals)
  BY DEF Sound, Rows
<1>2. \A e \in Titles : Net(q, {e}) = T[e]
  <2>1. ASSUME NEW e \in Titles PROVE Net(q, {e}) = Shared(b, net, e)
    <3> HIDE DEF q
    <3>1. q = ClosingLines(b, p, net)
      BY DEF q
    <3> QED BY <1>1, <3>1, ClosingTitles
  <2> QED BY <2>1
<1>3. ks = IF q = <<>> THEN <<>> ELSE <<j>>
  BY DEF ClosingJournals
<1>4. AllFair(ks)
  <2>1. Fair(q)
    BY <1>1, ClosingLinesFact
  <2> HIDE DEF q, ks
  <2>3. AllFair(<<>>) /\ AllFair(<<j>>)
    BY <2>1, AllFairFact
  <2> HIDE DEF j
  <2> QED BY <1>3, <2>3
<1>5. OfClose(ks, p, T)
  <2> HIDE DEF q, T, ks
  <2>1. OfClose(<<>>, p, T) /\ OfClose(<<j>>, p, T)
    BY <1>2, OfCloseFact
  <2> HIDE DEF j
  <2> QED BY <1>3, <2>1
<1>6. c = Write(b, ks)
  OBVIOUS
<1> HIDE DEF ks, j, q
<1>7. /\ c.journals = b.journals \o ks /\ c.sources = b.sources
      /\ c.members = b.members /\ c.capital = b.capital
  BY <1>1, <1>4, <1>6, MoneyWrite
<1>8. /\ Clerks(b, c, p) /\ \A k \in N : k - Len(b.journals) \in DOMAIN ks
      /\ \A k \in N : Net(c.journals[k].lines, {a}) = Shared(b, net, a)
  <2>1. Clerks(b, c, p) /\ \A k \in New(b, c) : k - Len(b.journals) \in DOMAIN ks
    <3> HIDE DEF T
    <3> QED BY <1>1, <1>5, <1>7, ClerksPosted
  <2>2. Charging(b, c, T)
    <3> HIDE DEF T
    <3> QED BY <1>1, <1>5, <1>7, ClerksPosted
  <2> QED BY <2>1, <2>2 DEF Charging
<1>9. N \in SUBSET DOMAIN c.journals
  BY DEF New
<1>10. CASE q = <<>>
  <2>1. ks = <<>>
    BY <1>3, <1>10
  <2>2. DOMAIN ks = {}
    BY <2>1
  <2>3. N = {}
    BY <1>8, <2>2
  <2>4. Movement(c, N, {a}) = 0
    BY <1>9, <2>3, MovementNone
  <2>5. Net(q, {a}) = 0
    BY <1>10, NetNone
  <2>6. Shared(b, net, a) = 0
    BY <1>2, <2>5
  <2> QED BY <1>7, <1>8, <2>4, <2>6
<1>11. CASE q # <<>>
  <2>1. ks = <<j>>
    BY <1>3, <1>11
  <2>2. DOMAIN ks = {1} /\ Len(ks) = 1 /\ IsSeq(ks)
    BY <2>1, OneFact
  <2>3. PICK n \in Nat : n = Len(b.journals) /\ DOMAIN b.journals = 1 .. n
    BY <1>1, SeqFact
  <2>4. n + 1 \in N
    <3>1. DOMAIN c.journals = 1 .. n + 1
      <4>1. IsSeq(b.journals) /\ IsSeq(ks)
        BY <1>1, <2>2
      <4>2. DOMAIN (b.journals \o ks) = 1 .. Len(b.journals) + Len(ks)
        BY <4>1, ConcatFact
      <4> QED BY <1>7, <2>2, <2>3, <4>2
    <3> QED BY <2>3, <3>1 DEF New
  <2>5. \A k \in N : k = n + 1
    <3>1. \A k \in N : k \in Int
      <4>1. \A k \in DOMAIN c.journals : k \in Int
        BY RowSets
      <4> QED BY <1>9, <4>1
    <3> QED BY <1>8, <2>2, <2>3, <3>1
  <2>6. Movement(c, N, {a}) = SumFunction(f) /\ Summable(f, N)
    BY <1>9, MovementIs
  <2>7. PICK e \in N : e = n + 1
    BY <2>4
  <2>8. f[e] = Shared(b, net, a)
    BY <1>8 DEF Nets
  <2> HIDE DEF f, N
  <2>9. SumFunction(f) = f[e]
    BY <2>5, <2>6, <2>7, SumOnly DEF Summable
  <2>10. Movement(c, N, {a}) = Shared(b, net, a)
    BY <2>6, <2>8, <2>9
  <2> QED BY <1>7, <1>8, <2>10 DEF N
<1> QED BY <1>10, <1>11

-----------------------------------------------------------------------------
(* The book after a close *)

LEMMA TitlesSettled ==
  ASSUME NEW b, Sound(b), Money(b), Partners(b), NEW p \in OpenPeriods(b), NEW date \in Dates,
         Within(b.periods[p], date),
         NEW r, r.period = p, r.cogs \in Int, r.commission \in Int, r.net \in Int,
         NEW c, c = Settled(b, r, date), Rows(c), Money(c), NEW a \in Titles
  PROVE  /\ Clerks(b, c, p) /\ c.capital = CapitalAfter(b, p, r.net)
         /\ Movement(c, New(b, c), {a}) = Shared(b, r.net, a)
<1> DEFINE b1 == Adjusted(b, r, date)
           b2 == Write(b1, ClosingJournals(b1, p, date, r.net))
           n == FirstOf(b, LaterOpen(b, p))
           count == Count(Carried, n, b.periods[n].start, ClosingStock(b, b.periods[p].start, date))
           capital == [m \in DOMAIN b2.capital |->
                         LET i == CHOOSE k \in DOMAIN b.members : b.members[k] = m
                         IN ClosingCapital(b, p, r.net, i)]
<1>1. p \in DOMAIN b.periods /\ b.periods[p].open
  BY DEF OpenPeriods
<1>2. Money(b1) /\ b1.members = b.members /\ b1.periods = b.periods /\ Sound(b1)
  BY MoneyAdjusted, AdjustedFact
<1>3. /\ Clerks(b, b1, p) /\ b1.capital = b.capital
      /\ \A j \in New(b, b1) : Net(b1.journals[j].lines, {a}) = 0
  <2>1. b1 = Adjusted(b, r, date)
    OBVIOUS
  <2> HIDE DEF b1, n, count, capital, b2
  <2>2. Clerks(b, b1, p)
    BY <2>1, AdjustedTitles
  <2>3. b1.capital = b.capital
    BY <2>1, AdjustedTitles
  <2>4. Charging(b, b1, [e \in Titles |-> 0])
    BY <2>1, AdjustedTitles
  <2> QED BY <2>2, <2>3, <2>4 DEF Charging
<1>4. c = [b2 EXCEPT !.periods[p].open = FALSE, !.closes = Append(@, r), !.capital = capital,
                     !.counts = @ \cup {count}]
  BY DEF Settled
<1> HIDE DEF b1, n, count, capital
<1>5. p \in OpenPeriods(b1) /\ Within(b1.periods[p], date) /\ Partners(b1)
  BY <1>1, <1>2 DEF OpenPeriods, Partners
<1>6. b2 = Write(b1, ClosingJournals(b1, p, date, r.net))
  OBVIOUS
<1> HIDE DEF b2
<1>7. Money(b2) /\ Sound(b2)
  BY <1>2, <1>5, <1>6, ClearedFact
<1>8. Rows(b2) /\ BookRecord(b2) /\ Rows(b1)
  BY <1>2, <1>7 DEF Sound, Rows
<1>9. /\ Clerks(b1, b2, p) /\ b2.capital = b1.capital
      /\ Movement(b2, New(b1, b2), {a}) = Shared(b1, r.net, a)
  BY <1>2, <1>5, <1>6, <1>7, <1>8, ClosingPosted
<1>10. /\ Clerks(b, b2, p) /\ New(b, b2) = New(b, b1) \cup New(b1, b2)
       /\ New(b, b1) \cap New(b1, b2) = {}
  BY <1>3, <1>9, ClerksTwice
<1>11. /\ c.sources = b2.sources /\ c.journals = b2.journals /\ c.members = b2.members
       /\ c.capital = capital
  BY <1>4, <1>8 DEF BookRecord
<1>12. c.capital = CapitalAfter(b, p, r.net)
  BY <1>3, <1>9, <1>11 DEF capital, CapitalAfter
<1>13. Clerks(b, c, p) /\ New(b, c) = New(b, b2)
  BY <1>10, <1>11 DEF Clerks, Beginning, New
<1>14. \A j \in New(b, b1) : j \in DOMAIN b2.journals /\ b2.journals[j] = b1.journals[j]
  BY <1>9 DEF Clerks, Beginning, New
<1>15. Movement(b2, New(b, b1), {a}) = 0
  <2>1. New(b, b1) \in SUBSET DOMAIN b2.journals /\ \A j \in New(b, b1) : Net(b2.journals[j].lines, {a}) = 0
    BY <1>3, <1>14
  <2> QED BY <1>7, <1>8, <2>1, MovementNone
<1>16. Movement(b2, New(b, b2), {a}) = Shared(b, r.net, a)
  <2>1. PICK A, B, S : A = New(b, b1) /\ B = New(b1, b2) /\ S = New(b, b2)
    OBVIOUS
  <2>2. A \cap B = {} /\ S = A \cup B /\ S \in SUBSET DOMAIN b2.journals
    BY <1>10, <2>1 DEF New
  <2>3. Movement(b2, S, {a}) = Movement(b2, A, {a}) + Movement(b2, B, {a})
    BY <1>7, <1>8, <2>2, MovementSplit
  <2>4. Shared(b1, r.net, a) = Shared(b, r.net, a) /\ Shared(b, r.net, a) \in Int
    BY <1>2 DEF Shared
  <2> QED BY <1>9, <1>15, <2>1, <2>3, <2>4
<1>17. Movement(c, New(b, c), {a}) = Movement(b2, New(b, b2), {a})
  BY <1>11, <1>13, MovementKept
<1> QED BY <1>12, <1>13, <1>16, <1>17

\* What a closed period holds for the members, opening balances aside.
Gains(b, c, p, a) ==
  Movement(c, Ordinary(c, p), {a}) = Movement(b, Ordinary(b, p), {a}) + Movement(c, New(b, c), {a})

LEMMA PeriodClosed ==
  ASSUME NEW b, Rows(b), Money(b), NEW c, Rows(c), Money(c), NEW p, Clerks(b, c, p), NEW a
  PROVE  /\ OpeningBalanceJournals(c) = OpeningBalanceJournals(b)
         /\ Gains(b, c, p, a)
<1>1. /\ \A j \in DOMAIN b.journals : j \in DOMAIN c.journals /\ c.journals[j] = b.journals[j]
      /\ \A j \in DOMAIN c.journals \ DOMAIN b.journals :
           c.journals[j].source = 0 /\ c.journals[j].period = p
      /\ c.sources = b.sources
  BY DEF Clerks, Beginning, New
<1>2. OpeningBalanceJournals(c) = OpeningBalanceJournals(b)
  BY <1>1 DEF OpeningBalanceJournals
<1>3. \A j \in OpeningBalanceJournals(b) : j \in DOMAIN b.journals
  BY DEF OpeningBalanceJournals
<1> DEFINE S == Ordinary(c, p)
           A == Ordinary(b, p)
           N == New(b, c)
<1>4. A \cap N = {} /\ S = A \cup N
  BY <1>1, <1>2, <1>3 DEF Ordinary, JournalsIn, New
<1>5. S \in SUBSET DOMAIN c.journals /\ \A j \in A : c.journals[j] = b.journals[j]
  BY <1>1 DEF Ordinary, JournalsIn
<1> HIDE DEF S, A, N
<1>6. Movement(c, S, {a}) = Movement(c, A, {a}) + Movement(c, N, {a})
  BY <1>4, <1>5, MovementSplit
<1>7. Movement(c, A, {a}) = Movement(b, A, {a})
  BY <1>5, MovementKept
<1> QED BY <1>2, <1>6, <1>7 DEF S, A, N, Gains

\* The journals of the periods that closed, opening balances aside.
Settling(b) == ClosedJournals(b) \ OpeningBalanceJournals(b)

LEMMA SettlingIs ==
  ASSUME NEW b
  PROVE  /\ ClosedJournals(b) = {j \in DOMAIN b.journals : b.journals[j].period \in Frozen(b)}
         /\ Settling(b) \in SUBSET DOMAIN b.journals
<1>1. ClosedJournals(b) = UNION {JournalsIn(b, p) : p \in Frozen(b)}
  BY DEF ClosedJournals, Frozen
<1>2. ClosedJournals(b) = {j \in DOMAIN b.journals : b.journals[j].period \in Frozen(b)}
  BY <1>1 DEF JournalsIn
<1> QED BY <1>2 DEF Settling

\* The capital is what the members started with and what closes added, which the
\* ledger says too.
CapitalHeld(b, begun) ==
  /\ b.capital \in [Range(b.members) -> Int]
  /\ b.members # <<>> /\ ~TakenBackLater(b) =>
       SumFunction(b.capital) - SumFunction(begun) = -Movement(b, Settling(b), Titles)

LEMMA TitlesApart ==
  ASSUME NEW b, Rows(b), Money(b), NEW S \in SUBSET DOMAIN b.journals
  PROVE  /\ Movement(b, S, Titles) = Movement(b, S, {"DRAWINGS"}) + Movement(b, S, {"CAPITAL"})
         /\ Movement(b, S, {"DRAWINGS"}) \in Int /\ Movement(b, S, {"CAPITAL"}) \in Int
<1>1. PICK A, a : A = {"DRAWINGS"} /\ a = "CAPITAL"
  OBVIOUS
<1>2. a \notin A /\ Titles = A \cup {a}
  BY <1>1 DEF Titles
<1>3. Movement(b, S, A \cup {a}) = Movement(b, S, A) + Movement(b, S, {a})
  BY <1>2, MovementApart
<1>4. Movement(b, S, A) \in Int /\ Movement(b, S, {a}) \in Int
  BY MovementIs
<1> QED BY <1>1, <1>2, <1>3, <1>4

\* What a close adds to the members' capital is what the period holds for them.
LEMMA CloseAdds ==
  ASSUME NEW b, Ledgered(b), Partners(b), b.members # <<>>, b.capital \in [Range(b.members) -> Int],
         ~TakenBackLater(b), NEW p, p \notin Frozen(b), NEW net \in Int,
         NEW c, Rows(c), Money(c), Clerks(b, c, p), c.capital = CapitalAfter(b, p, net),
         \A a \in Titles : Movement(c, New(b, c), {a}) = Shared(b, net, a)
  PROVE  /\ SumFunction(c.capital) = SumFunction(b.capital) - Movement(c, Ordinary(c, p), Titles)
         /\ Movement(c, Ordinary(c, p), Titles) \in Int
<1> DEFINE i == MembersTotal(b, p, "capital_injection")
           d == MembersTotal(b, p, "drawing")
           u == Unattributed(b, p)
           k == Movement(b, Ordinary(b, p), {"CAPITAL"})
           w == Movement(b, Ordinary(b, p), {"DRAWINGS"})
           S == Ordinary(c, p)
<1>1. Rows(b) /\ Money(b)
  BY DEF Ledgered
<1>3. /\ SumFunction(c.capital) = SumFunction(b.capital) + i + net - d - u
      /\ u = Max({0, Max({0, Movement(b, JournalsIn(b, p), {"DRAWINGS"})}) - d})
  <2>1. PICK f : f = c.capital
    OBVIOUS
  <2>2. f = CapitalAfter(b, p, net)
    BY <2>1
  <2>3. SumFunction(f) = SumFunction(b.capital) + MembersTotal(b, p, "capital_injection") + net
                           - MembersTotal(b, p, "drawing") - Unattributed(b, p)
    BY <1>1, <2>2, CapitalSum
  <2>4. Unattributed(b, p) = Max({0, Max({0, Movement(b, JournalsIn(b, p), {"DRAWINGS"})})
                                       - MembersTotal(b, p, "drawing")})
    BY <1>1, <2>2, CapitalSum
  <2> QED BY <2>1, <2>3, <2>4
<1>4. u \in Int /\ d \in Int /\ u + d = w
  <2> HIDE DEF u
  <2> QED BY <1>3, PeriodDrawings
<1>5. i \in Int /\ i = -k
  BY PeriodInjections
<1>6. k \in Int
  <2>1. Ordinary(b, p) \in SUBSET DOMAIN b.journals
    BY DEF Ordinary, JournalsIn
  <2> QED BY <1>1, <2>1, MovementIs
<1>7. Movement(c, S, {"CAPITAL"}) = k + (-net) /\ Movement(c, S, {"DRAWINGS"}) = w + 0
  <2>1. Movement(c, New(b, c), {"CAPITAL"}) = -net /\ Movement(c, New(b, c), {"DRAWINGS"}) = 0
    BY DEF Titles, Shared
  <2>2. Gains(b, c, p, "CAPITAL") /\ Gains(b, c, p, "DRAWINGS")
    BY <1>1, PeriodClosed
  <2> QED BY <2>1, <2>2 DEF Gains
<1>8. /\ Movement(c, S, Titles) = Movement(c, S, {"DRAWINGS"}) + Movement(c, S, {"CAPITAL"})
  <2>1. S \in SUBSET DOMAIN c.journals
    BY DEF Ordinary, JournalsIn
  <2> HIDE DEF S
  <2> QED BY <2>1, TitlesApart
<1>9. SumFunction(b.capital) \in Int
  BY CapitalInt
<1> HIDE DEF i, d, u, k, w, S
<1>10. PICK x \in Int : x = SumFunction(b.capital)
  BY <1>9
<1>11. SumFunction(c.capital) = x + i + net - d - u
  BY <1>3, <1>10
<1>12. Movement(c, S, Titles) = u + d - i - net
  BY <1>4, <1>5, <1>6, <1>7, <1>8
<1>13. /\ SumFunction(c.capital) = SumFunction(b.capital) - Movement(c, S, Titles)
       /\ Movement(c, S, Titles) \in Int
  <2>1. PICK m, y : m = Movement(c, S, Titles) /\ y = SumFunction(c.capital)
    OBVIOUS
  <2>2. y = x + i + net - d - u /\ m = u + d - i - net
    BY <1>11, <1>12, <2>1
  <2>3. m \in Int
    BY <1>4, <1>5, <2>2
  <2>4. x + i + net - d - u = x - (u + d - i - net)
    BY <1>4, <1>5, <1>10
  <2>5. y = x - m
    BY <2>2, <2>4
  <2> QED BY <1>10, <2>1, <2>3, <2>5
<1> QED BY <1>13 DEF S

\* What does not close a period keeps what the capital is worth.
LEMMA CapitalKept ==
  ASSUME NEW b, Titled(b), NEW c, Enters(b, c), Later(b, c), Frozen(c) = Frozen(b),
         NEW begun, CapitalHeld(b, begun)
  PROVE  CapitalHeld(c, begun)
<1>1. /\ c.members = b.members /\ c.capital = b.capital /\ Beginning(b, c)
      /\ \A s \in DOMAIN b.sources : c.sources[s].type = b.sources[s].type
  BY DEF Enters, SameDocument
<1>2. TakenBackLater(b) => TakenBackLater(c)
  BY <1>1, TakenBackKept
<1>3. \A j \in DOMAIN b.journals : b.journals[j].source # 0 => b.journals[j].source \in DOMAIN b.sources
  BY DEF Titled, Documented, Proper
<1>4. \A j \in DOMAIN b.journals : j \in DOMAIN c.journals /\ c.journals[j] = b.journals[j]
  BY <1>1 DEF Beginning
<1>5. \A j \in DOMAIN b.journals : j \in OpeningBalanceJournals(c) <=> j \in OpeningBalanceJournals(b)
  BY <1>1, <1>3, <1>4 DEF OpeningBalanceJournals
<1>6. ClosedJournals(c) = ClosedJournals(b)
  <2>1. \A j \in DOMAIN c.journals \ DOMAIN b.journals : c.journals[j].period \notin Frozen(c)
    BY DEF Later
  <2>2. ClosedJournals(c) = {j \in DOMAIN c.journals : c.journals[j].period \in Frozen(c)}
    BY SettlingIs
  <2>3. ClosedJournals(b) = {j \in DOMAIN b.journals : b.journals[j].period \in Frozen(b)}
    BY SettlingIs
  <2> QED BY <1>4, <2>1, <2>2, <2>3
<1>7. Settling(c) = Settling(b)
  <2>1. \A j \in ClosedJournals(b) : j \in DOMAIN b.journals
    BY SettlingIs
  <2> QED BY <1>5, <1>6, <2>1 DEF Settling
<1>8. Movement(c, Settling(c), Titles) = Movement(b, Settling(b), Titles)
  <2>1. PICK S : S = Settling(b)
    OBVIOUS
  <2>2. \A j \in S : c.journals[j] = b.journals[j]
    BY <1>4, <2>1, SettlingIs
  <2>3. Movement(c, S, Titles) = Movement(b, S, Titles)
    BY <2>2, MovementKept
  <2> QED BY <1>7, <2>1, <2>3
<1> QED BY <1>1, <1>2, <1>8 DEF CapitalHeld

\* A close keeps the rules of what is entered: its own journals are in the period
\* that closed.
LEMMA TitledClosed ==
  ASSUME NEW b, Titled(b), NEW p, NEW c, Clerks(b, c, p), Frozen(c) = Frozen(b) \cup {p}
  PROVE  Titled(c)
<1>1. /\ \A j \in DOMAIN b.journals : j \in DOMAIN c.journals /\ c.journals[j] = b.journals[j]
      /\ c.sources = b.sources
      /\ \A j \in DOMAIN c.journals \ DOMAIN b.journals :
           c.journals[j].source = 0 /\ c.journals[j].reversalOf = 0 /\ c.journals[j].period = p
  BY DEF Clerks, Beginning, New
<1>2. Documented(c) = Documented(b)
  BY <1>1 DEF Documented
<1>3. ASSUME NEW j \in Documented(b) PROVE Proper(c, j)
  <2>1. Proper(b, j) /\ j \in DOMAIN b.journals
    BY DEF Titled, Documented
  <2>2. c.journals[j] = b.journals[j]
    BY <1>1, <2>1
  <2>3. b.sources[b.journals[j].source].of # 0 =>
          /\ b.journals[j].reversalOf \in DOMAIN c.journals
          /\ c.journals[b.journals[j].reversalOf] = b.journals[b.journals[j].reversalOf]
    BY <1>1, <2>1 DEF Proper
  <2> QED BY <1>1, <2>1, <2>2, <2>3 DEF Proper
<1>4. ASSUME NEW j \in DOMAIN c.journals \ Documented(c)
      PROVE  c.journals[j].reversalOf = 0 /\ c.journals[j].period \in Frozen(c)
  <2>1. CASE j \in DOMAIN b.journals
    <3>1. j \in DOMAIN b.journals \ Documented(b)
      BY <1>2, <2>1
    <3> QED BY <1>1, <3>1 DEF Titled
  <2>2. CASE j \notin DOMAIN b.journals
    BY <1>1, <2>2
  <2> QED BY <2>1, <2>2
<1>5. Sole(c, Documented(c))
  <2>1. \A j \in Documented(b) : c.journals[j] = b.journals[j]
    BY <1>1 DEF Documented
  <2> QED BY <1>1, <1>2, <2>1 DEF Titled, Sole
<1> QED BY <1>2, <1>3, <1>4, <1>5 DEF Titled

\* A close keeps what the capital is worth: it adds to it what it posts.
LEMMA CapitalSettled ==
  ASSUME NEW b, Ledgered(b), Partners(b), NEW begun, SumFunction(begun) \in Int, CapitalHeld(b, begun),
         NEW p, p \notin Frozen(b), NEW net \in Int,
         NEW c, Rows(c), Money(c), Clerks(b, c, p), c.capital = CapitalAfter(b, p, net),
         \A a \in Titles : Movement(c, New(b, c), {a}) = Shared(b, net, a),
         Frozen(c) = Frozen(b) \cup {p}
  PROVE  CapitalHeld(c, begun)
<1>1. /\ Rows(b) /\ Money(b) /\ c.members = b.members /\ Beginning(b, c) /\ c.sources = b.sources
      /\ b.capital \in [Range(b.members) -> Int]
  BY DEF Ledgered, Clerks, CapitalHeld
<1>2. c.capital \in [Range(c.members) -> Int]
  <2>1. CASE b.members = <<>>
    <3>1. Range(b.members) = {}
      BY <2>1 DEF Range
    <3>2. DOMAIN b.capital = {}
      BY <1>1, <3>1
    <3> QED BY <1>1, <3>1, <3>2 DEF CapitalAfter
  <2>2. CASE b.members # <<>>
    <3>1. PICK f : f = c.capital
      OBVIOUS
    <3>2. f = CapitalAfter(b, p, net)
      BY <3>1
    <3>3. Summable(f, Range(b.members))
      BY <1>1, <2>2, <3>2, CapitalSum
    <3> QED BY <1>1, <3>1, <3>3 DEF Summable
  <2> QED BY <2>1, <2>2
<1>3. ASSUME c.members # <<>>, ~TakenBackLater(c)
      PROVE  SumFunction(c.capital) - SumFunction(begun) = -Movement(c, Settling(c), Titles)
  <2> DEFINE S == Settling(c)
             A == Settling(b)
             B == Ordinary(c, p)
  <2>1. ~TakenBackLater(b)
    <3>1. Titled(b)
      BY DEF Ledgered
    <3> QED BY <1>1, <1>3, <3>1, TakenBackKept
  <2>2. SumFunction(b.capital) - SumFunction(begun) = -Movement(b, A, Titles)
    BY <1>1, <1>3, <2>1 DEF CapitalHeld
  <2>3. /\ SumFunction(c.capital) = SumFunction(b.capital) - Movement(c, B, Titles)
        /\ Movement(c, B, Titles) \in Int
    <3> HIDE DEF B
    <3>1. SumFunction(c.capital) = SumFunction(b.capital) - Movement(c, Ordinary(c, p), Titles)
      BY <1>1, <1>3, <2>1, CloseAdds
    <3>2. Movement(c, Ordinary(c, p), Titles) \in Int
      BY <1>1, <1>3, <2>1, CloseAdds
    <3> QED BY <3>1, <3>2 DEF B
  <2>4. OpeningBalanceJournals(c) = OpeningBalanceJournals(b)
    BY <1>1, PeriodClosed
  <2>5. /\ \A j \in DOMAIN b.journals : j \in DOMAIN c.journals /\ c.journals[j] = b.journals[j]
        /\ \A j \in DOMAIN c.journals \ DOMAIN b.journals : c.journals[j].period = p
    BY DEF Clerks, Beginning, New
  <2>6. ClosedJournals(c) = ClosedJournals(b) \cup JournalsIn(c, p) /\ ClosedJournals(b) \cap JournalsIn(c, p) = {}
    <3>1. ClosedJournals(c) = {j \in DOMAIN c.journals : c.journals[j].period \in Frozen(c)}
      BY SettlingIs
    <3>2. ClosedJournals(b) = {j \in DOMAIN b.journals : b.journals[j].period \in Frozen(b)}
      BY SettlingIs
    <3> QED BY <2>5, <3>1, <3>2 DEF JournalsIn
  <2>7. S = A \cup B /\ A \cap B = {}
    BY <2>4, <2>6 DEF Settling, Ordinary
  <2>8. S \in SUBSET DOMAIN c.journals /\ A \in SUBSET DOMAIN b.journals
    BY SettlingIs
  <2> HIDE DEF S, A, B
  <2>9. Movement(c, S, Titles) = Movement(c, A, Titles) + Movement(c, B, Titles)
    BY <2>7, <2>8, MovementSplit
  <2>10. Movement(c, A, Titles) = Movement(b, A, Titles)
    BY <2>5, <2>8, MovementKept
  <2>11. Movement(b, A, Titles) \in Int
    BY <1>1, <2>8, MovementIs
  <2>12. SumFunction(b.capital) \in Int
    BY <1>1, CapitalInt
  <2>13. SumFunction(c.capital) - SumFunction(begun) = -Movement(c, S, Titles)
    BY <2>2, <2>3, <2>9, <2>10, <2>11, <2>12
  <2> QED BY <2>13 DEF S
<1> QED BY <1>2, <1>3 DEF CapitalHeld

LEMMA CapitalCloses ==
  ASSUME NEW b, Sound(b), Money(b), Titled(b), Partners(b),
         NEW begun, SumFunction(begun) \in Int, CapitalHeld(b, begun),
         NEW date \in Dates, NEW explicit, NEW opening \in Nat, NEW actual \in Nat,
         CanClose(b, date, explicit, opening, actual),
         NEW c, c = Closed(b, date, explicit, opening, actual)
  PROVE  Titled(c) /\ CapitalHeld(c, begun)
<1> DEFINE p == ClosingPeriod(b)
           a == Prepared(b, date, explicit, opening, actual)
           r == Result(a, p, date)
<1>1. /\ Sound(a) /\ Later(b, a) /\ p \in OpenPeriods(a) /\ Within(a.periods[p], date)
      /\ LaterOpen(a, p) # {} /\ Money(a) /\ Frozen(a) = Frozen(b) /\ a.sources = b.sources
      /\ a.journals = b.journals /\ a.members = b.members /\ a.capital = b.capital
  <2>1. p = ClosingPeriod(b) /\ a = Prepared(b, date, explicit, opening, actual)
    OBVIOUS
  <2> HIDE DEF a, p
  <2> QED BY <2>1, PreparedFact, MoneyPrepared, PreparedFrozen
<1>2. c = Settled(a, r, date)
  BY DEF Closed
<1>3. r = Result(a, p, date)
  OBVIOUS
<1>4. Rows(c)
  BY ClosedFact DEF Sound
<1> HIDE DEF a, p, r
<1>5. r.period = p /\ r.cogs \in Int /\ r.commission \in Int /\ r.net \in Int
  <2>1. Rows(a) /\ p \in DOMAIN a.periods
    BY <1>1 DEF Sound, OpenPeriods
  <2> QED BY <1>1, <1>3, <2>1, ResultFact
<1>6. Money(c) /\ Frozen(c) = Frozen(a) \cup {p}
  BY <1>1, <1>2, <1>5, MoneySettled
<1>7. Enters(b, a)
  BY <1>1, EntersSame
<1>8. Titled(a)
  <2>1. Rows(a) /\ Frozen(b) \subseteq Frozen(a)
    BY <1>1 DEF Sound
  <2> QED BY <1>7, <2>1, TitledKept
<1>9. CapitalHeld(a, begun)
  BY <1>1, <1>7, CapitalKept
<1>10. Partners(a)
  BY <1>1 DEF Partners
<1>11. Ledgered(a) /\ p \notin Frozen(a)
  BY <1>1, <1>8 DEF Ledgered, Sound, Frozen
<1>12. /\ \A e \in Titles : Clerks(a, c, p) /\ c.capital = CapitalAfter(a, p, r.net)
       /\ \A e \in Titles : Movement(c, New(a, c), {e}) = Shared(a, r.net, e)
  <2>1. ASSUME NEW e \in Titles
        PROVE  /\ Clerks(a, c, p) /\ c.capital = CapitalAfter(a, p, r.net)
               /\ Movement(c, New(a, c), {e}) = Shared(a, r.net, e)
    BY <1>1, <1>2, <1>4, <1>5, <1>6, <1>10, TitlesSettled
  <2> QED BY <2>1
<1>13. Clerks(a, c, p) /\ c.capital = CapitalAfter(a, p, r.net)
  BY <1>12 DEF Titles
<1>14. Titled(c)
  BY <1>6, <1>8, <1>13, TitledClosed
<1>15. CapitalHeld(c, begun)
  <2>1. PICK net \in Int : net = r.net
    BY <1>5
  <2>2. c.capital = CapitalAfter(a, p, net) /\ \A e \in Titles : Movement(c, New(a, c), {e}) = Shared(a, net, e)
    BY <1>12, <1>13, <2>1
  <2> QED BY <1>4, <1>6, <1>9, <1>10, <1>11, <1>13, <2>2, CapitalSettled
<1> QED BY <1>14, <1>15

-----------------------------------------------------------------------------
(* The capital of the members, whatever is done to the book *)

CapitalInv == MoneyInv /\ Titled(book) /\ CapitalHeld(book, Now.book.capital)

LEMMA NewBookCapital ==
  ASSUME NEW b, NewBook(b)
  PROVE  Partners(b) /\ SumFunction(b.capital) \in Int /\ Titled(b) /\ CapitalHeld(b, b.capital)
<1>1. b.journals = <<>> /\ b.sources = <<>>
  BY DEF NewBook
<1>2. Partners(b)
  BY DEF NewBook, Partners
<1>3. b.capital \in [Range(b.members) -> Int]
  <2>1. b.capital \in [Range(b.members) -> Nat]
    BY DEF NewBook
  <2> QED BY <2>1
<1>4. PICK x \in Int : x = SumFunction(b.capital)
  BY <1>2, <1>3, CapitalInt
<1>5. DOMAIN b.journals = {}
  BY <1>1
<1>6. Documented(b) = {}
  BY <1>5 DEF Documented
<1>7. Titled(b)
  BY <1>5, <1>6 DEF Titled, Sole
<1>8. Movement(b, Settling(b), Titles) = 0
  <2>1. Settling(b) \in SUBSET DOMAIN b.journals
    BY SettlingIs
  <2>2. Rows(b) /\ Money(b)
    BY NewBookFact, NewBookMoney DEF Sound
  <2> QED BY <1>5, <2>1, <2>2, MovementNone
<1>9. SumFunction(b.capital) - SumFunction(b.capital) = -Movement(b, Settling(b), Titles)
  BY <1>4, <1>8
<1> QED BY <1>2, <1>3, <1>4, <1>7, <1>9 DEF CapitalHeld

LEMMA CapitalSteps == ASSUME CapitalInv, [Next]_vars PROVE CapitalInv'
<1>1. MoneyInv /\ Titled(book) /\ CapitalHeld(book, Now.book.capital)
  BY DEF CapitalInv
<1>2. MoneyInv'
  BY <1>1, MoneySteps
<1>3. Rows(book') /\ Later(book, book')
  <2>1. BookInv' /\ Later(book, book')
    BY <1>1, EveryStep DEF MoneyInv
  <2> QED BY <2>1 DEF BookInv, Sound
<1>4. PICK begun : begun = Now.book.capital
  OBVIOUS
<1>5. CapitalHeld(book, begun)
  BY <1>1, <1>4
<1>6. Partners(book) /\ SumFunction(begun) \in Int
  <2>1. NewBook(Now.book) /\ book.members = Now.book.members
    BY <1>1, ScenarioFact DEF MoneyInv, BookInv
  <2>2. Partners(Now.book) /\ SumFunction(Now.book.capital) \in Int
    BY <2>1, NewBookCapital
  <2> QED BY <1>4, <2>1, <2>2 DEF Partners
<1>7. ASSUME Kept PROVE Titled(book') /\ CapitalHeld(book', begun)
  <2>1. Enters(book, book') /\ Frozen(book') = Frozen(book)
    BY <1>7 DEF Kept, Carries
  <2>2. Titled(book')
    BY <1>1, <1>3, <2>1, TitledKept
  <2> QED BY <1>1, <1>3, <1>5, <2>1, <2>2, CapitalKept
<1>8. ASSUME Close PROVE Titled(book') /\ CapitalHeld(book', begun)
  <2>1. PICK date \in Now.dates, explicit \in BOOLEAN, opening \in Now.counts, actual \in Now.counts :
          /\ CanClose(book, date, explicit, opening, actual)
          /\ book' = Closed(book, date, explicit, opening, actual)
    BY <1>8 DEF Close
  <2>2. date \in Dates /\ Sound(book) /\ Money(book) /\ opening \in Nat /\ actual \in Nat
    BY <1>1, ScenarioFact, ScenarioCounts DEF MoneyInv, BookInv
  <2> QED BY <1>1, <1>5, <1>6, <2>1, <2>2, CapitalCloses
<1>9. CASE UNCHANGED vars
  BY <1>1, <1>2, <1>9 DEF CapitalInv, vars, Now
<1>10. CASE Next
  <2>1. Kept \/ Close
    BY <1>1, <1>10, IssueKeeps, MarkPaidKeeps, DeleteKeeps, EditKeeps, EditPaidKeeps, EditReceiptKeeps,
       OpeningKeeps, CountKeeps DEF Next
  <2>2. Now' = Now
    BY <1>10 DEF Next, Now
  <2>3. Titled(book') /\ CapitalHeld(book', begun)
    BY <1>7, <1>8, <2>1
  <2> QED BY <1>2, <1>4, <2>2, <2>3 DEF CapitalInv
<1> QED BY <1>9, <1>10

LEMMA CapitalInvariant == Spec => []CapitalInv
<1>1. Init => CapitalInv
  <2> SUFFICES ASSUME Init PROVE CapitalInv
    OBVIOUS
  <2>1. scenario \in DOMAIN Scenarios /\ NewBook(book) /\ book = Now.book
    BY ScenarioFact DEF Init
  <2>2. MoneyInv
    BY <2>1, NewBookFact, NewBookMoney DEF MoneyInv, BookInv
  <2> QED BY <2>1, <2>2, NewBookCapital DEF CapitalInv
<1>2. CapitalInv /\ [Next]_vars => CapitalInv'
  BY CapitalSteps
<1> QED BY <1>1, <1>2, PTL DEF Spec

-----------------------------------------------------------------------------
(* What follows for the amounts of every book *)

\* Every journal balances, whatever the amounts: that of a document and its
\* cost, of a reversal, of a close's adjustments and clearing, and of an edited
\* receipt or an opening balance, which are posted without the checks of an
\* ordinary posting (postings.ts, documentService.ts, closeBooksRepository.ts).
THEOREM EveryJournalBalances == Spec => []DoubleEntry
<1>1. MoneyInv => DoubleEntry
  BY DEF MoneyInv, Money, Fair, DoubleEntry
<1> QED BY <1>1, MoneyInvariant, PTL

\* Every table keeps its shape, and every line posted is of an account of the
\* chart and of some amount: a line of nothing is left out.
THEOREM TypeCorrect == Spec => []TypeOK
<1>1. MoneyInv => LinesKept
  BY DEF MoneyInv, Money, Fair, Listed, LinesKept
<1> QED BY <1>1, MoneyInvariant, RowsWellFormed, PTL DEF TypeOK

\* A close clears all revenue and expense of its period, its own adjustments
\* included, and nothing posted later brings any back (closeBooksRepository.ts
\* closingEntries, reverseSource for what is taken back after).
THEOREM ClosedPeriodsCleared == Spec => []ClosedZero
<1>1. MoneyInv => ClosedZero
  BY DEF MoneyInv, Zeroed, Frozen, Cleared, ResultAccounts, ClosedZero
<1> QED BY <1>1, MoneyInvariant, PTL

\* A receipt gives no more than it is for: when it is entered or edited, when an
\* invoice draws on the advances of a customer, and when an invoice that was paid
\* is replaced (allocationService.ts, documentService.ts).
THEOREM NeverOverAllocated == Spec => []AllocationsFunded
<1>1. MoneyInv => \A a \in book.allocs : Remaining(book, a.receipt) >= 0
  <2> SUFFICES ASSUME MoneyInv, NEW a \in book.allocs PROVE Remaining(book, a.receipt) >= 0
    OBVIOUS
  <2>1. Sound(book) /\ Money(book) /\ Funded(book)
    BY DEF MoneyInv, BookInv
  <2>2. a.receipt \in DOMAIN book.sources
    BY <2>1 DEF Sound, Rows, AllocRow, Live
  <2> DEFINE r == a.receipt
  <2>3. /\ Consumed(book, r) <= book.sources[r].total
        /\ Consumed(book, r) \in Int /\ book.sources[r].total \in Nat
    BY <2>1, <2>2, FundFact DEF Funded
  <2> HIDE DEF r
  <2>4. Remaining(book, r) >= 0
    BY <2>3 DEF Remaining
  <2> QED BY <2>4 DEF r
<1> QED BY <1>1, MoneyInvariant, PaidFromReceiptsInForce, PTL DEF AllocationsFunded

\* What the ledger shows a customer to owe, advances counted, is the invoices and
\* debit notes in force less the receipts and credit notes, and what it shows a
\* supplier to be owed is the bills and debit notes in force less the payments and
\* credit notes, whatever was reversed, edited, split over advances or closed
\* (postings.ts, allocationService.ts, documentService.ts, journalRepository.ts).
THEOREM PositionsAgree == Spec => []PartyPositions
<1>1. MoneyInv => PartyPositions
  <2> SUFFICES ASSUME MoneyInv PROVE PartyPositions
    OBVIOUS
  <2>1. Summed(book) /\ Positioned(book)
    BY SummedFact DEF MoneyInv, BookInv, Sound, Rows
  <2>2. \A p \in Parties : Owed(book, DOMAIN book.journals, p) = Due(book, p)
    BY <2>1 DEF Positioned
  <2>3. \A type, p : OnAccount(type, p) = TotalOf(book, Of(book, p, type))
    BY DEF OnAccount, Of
  <2>4. PartyBalance(book, "AR", "customer") + PartyBalance(book, "CUSTOMER_ADVANCES", "customer")
          = Due(book, "customer")
    BY <2>1, <2>2, BalancesOwed DEF Parties, Side
  <2>5. PartyBalance(book, "AP", "supplier") + PartyBalance(book, "SUPPLIER_ADVANCES", "supplier")
          = Due(book, "supplier")
    BY <2>1, <2>2, BalancesOwed DEF Parties, Side
  <2>6. {"invoice", "debit_note", "receipt", "credit_note", "supplier_payment", "credit_purchase"} \subseteq SourceTypes
    BY DEF SourceTypes, Notes, Purchases
  <2>7. Due(book, "customer")
          = TotalOf(book, Of(book, "customer", "invoice")) + TotalOf(book, Of(book, "customer", "debit_note"))
              - TotalOf(book, Of(book, "customer", "receipt")) - TotalOf(book, Of(book, "customer", "credit_note"))
    <3>1. Raising("customer") = {"invoice", "debit_note"} /\ Lowering("customer") = {"receipt", "credit_note"}
      BY DEF Raising, Lowering
    <3> QED BY <2>1, <2>6, <3>1, DueIs
  <2>8. Due(book, "supplier")
          = TotalOf(book, Of(book, "supplier", "supplier_payment")) + TotalOf(book, Of(book, "supplier", "credit_note"))
              - TotalOf(book, Of(book, "supplier", "credit_purchase")) - TotalOf(book, Of(book, "supplier", "debit_note"))
    <3>1. /\ Raising("supplier") = {"supplier_payment", "credit_note"}
          /\ Lowering("supplier") = {"credit_purchase", "debit_note"}
      BY DEF Raising, Lowering
    <3> QED BY <2>1, <2>6, <3>1, DueIs
  <2> QED BY <2>3, <2>4, <2>5, <2>7, <2>8 DEF PartyPositions
<1> QED BY <1>1, MoneyInvariant, PTL

\* What the closes added to the members' capital is what the ledger holds for it
\* in the periods they closed: shares of the profit, injections and drawings, those
\* of no one spread in proportion, and a movement that was taken back within its
\* period counted in neither (closeBooksRepository.ts allocateProfit,
\* memberMovements, postClosingEntries).
THEOREM CapitalOfMembers == Spec => []CapitalAgrees
<1>1. CapitalInv => CapitalAgrees
  BY DEF CapitalInv, CapitalHeld, CapitalAgrees, Settling, Titles
<1> QED BY <1>1, CapitalInvariant, PTL
=============================================================================
