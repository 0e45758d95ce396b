------------------------------- MODULE Arbitration ----------------------------
(***************************************************************************)
(* An operation on a shared book, run twice: a device runs it on its book, *)
(* and any other device runs it again from its inputs (api.ts); the server *)
(* keeps no book, but facts it folds from the accepted operations          *)
(* (postgresDomainState.ts), and from those it permits the next operation  *)
(* or refuses it (domainArbitration.ts).  Documents are named by the       *)
(* operation that made them.  An operation's doc is what was entered, or   *)
(* the document to be deleted; seen is the cursor of its author, captured  *)
(* the advances its author's book applied, net the result of its close.    *)
(***************************************************************************)
EXTENDS Closing

Sales == {"cash_sale", "invoice"}

-----------------------------------------------------------------------------
(* Running an operation on a book *)

\* Documents of operations: those in the book, and the place of one of them.
Made(b) == {b.sources[s].op : s \in {t \in DOMAIN b.sources : b.sources[t].of = 0}}

Source(b, n) == CHOOSE s \in DOMAIN b.sources : b.sources[s].op = n /\ b.sources[s].of = 0

Local(b, apply) == {[a EXCEPT !.invoice = Source(b, @)] : a \in apply}

Named(op) == [op.doc EXCEPT !.op = op.id]

\* A payment is of what is open in the book that runs it.
Paying(b, op) == [Payment(b, Source(b, op.of), op.doc.date) EXCEPT !.op = op.id]

PayingFor(b, op) == {[invoice |-> Source(b, op.of), amount |-> Paying(b, op).total]}

PaidFor(b, op) == op.doc.type = "invoice" /\ RowsTo(b, Source(b, op.of)) # {}

CanRun(b, op, today) ==
  /\ ({op.of} \ {0}) \cup {a.invoice : a \in op.apply} \subseteq Made(b)
  /\ CASE op.verb = "create" -> CanCreate(b, Named(op), Local(b, op.apply))
       [] op.verb = "pay" ->
            InvoiceOpen(b, Source(b, op.of)) > 0 /\ CanCreate(b, Paying(b, op), PayingFor(b, op))
       [] op.verb = "delete" -> CanReverse(b, Source(b, op.of))
       [] op.verb = "edit" /\ op.doc.type = "receipt" ->
            CanEditReceipt(b, Source(b, op.of), Named(op), Local(b, op.apply), today)
       [] op.verb = "edit" /\ PaidFor(b, op) ->
            CanReplacePaid(b, Source(b, op.of), Named(op), today)
       [] op.verb = "edit" /\ ~PaidFor(b, op) /\ op.doc.type # "receipt" ->
            CanReplace(b, Source(b, op.of), Named(op), today)
       [] op.verb = "count" -> HasContext(b, op.doc.date)
       [] op.verb = "close" -> CanClose(b, op.doc.date, TRUE, 0, op.doc.total)

Run(b, op, today) ==
  CASE op.verb = "create" -> Create(b, Named(op), Local(b, op.apply))
    [] op.verb = "pay" -> Create(b, Paying(b, op), PayingFor(b, op))
    [] op.verb = "delete" -> ReverseSource(b, Source(b, op.of), today)
    [] op.verb = "edit" /\ op.doc.type = "receipt" ->
         EditedReceipt(b, Source(b, op.of), Named(op), Local(b, op.apply), today)
    [] op.verb = "edit" /\ PaidFor(b, op) ->
         ReplacedPaid(b, Source(b, op.of), Named(op), today)
    [] op.verb = "edit" /\ ~PaidFor(b, op) /\ op.doc.type # "receipt" ->
         Replaced(b, Source(b, op.of), Named(op), today)
    [] op.verb = "count" -> RecordedCount(b, op.doc.date, op.doc.total)
    [] op.verb = "close" -> Closed(b, op.doc.date, TRUE, 0, op.doc.total)

\* The advances taken by the document last written.
Captured(b) ==
  {[receipt |-> b.sources[r.receipt].op, amount |-> r.amount] :
     r \in {q \in b.allocs : q.born = Len(b.sources)}}

-----------------------------------------------------------------------------
(* The facts of the accepted operations *)

At(f, n) == IF n \in DOMAIN f THEN f[n] ELSE 0

Plus(f, n, amount) == (n :> At(f, n) + amount) @@ f

NoFacts ==
  [invoices |-> <<>>, receipts |-> <<>>, known |-> {}, reversed |-> {}, dates |-> <<>>,
   stock |-> 0, effects |-> <<>>, counts |-> {}, closed |-> 0, sequence |-> 0]

NewInvoice(f, n, doc, allocated) ==
  [f EXCEPT !.invoices = (n :> [party |-> doc.party, total |-> doc.total,
                                allocated |-> allocated, reversed |-> FALSE]) @@ @]

NewReceipt(f, n, doc, total) ==
  [f EXCEPT !.receipts = (n :> [party |-> doc.party, date |-> doc.date, total |-> total,
                                allocated |-> 0, reversed |-> FALSE,
                                to |-> <<>>, advance |-> <<>>]) @@ @]

Allocate(f, i, r, amount, advance) ==
  [f EXCEPT
     !.invoices[i].allocated = @ + amount,
     !.receipts[r] = [@ EXCEPT !.allocated = @ + amount, !.to = Plus(@, i, amount),
                               !.advance = IF advance THEN Plus(@, i, amount) ELSE @]]

ApplyAdvances(f, i, captured) ==
  FoldSet(LAMBDA c, g : Allocate(g, i, c.receipt, c.amount, TRUE), f, captured)

ApplyReceipt(f, r, apply) ==
  FoldSet(LAMBDA a, g : Allocate(g, a.invoice, r, a.amount, FALSE), f, apply)

\* The units a document moves, registered so that they can be given back.
Effect(doc) == IF doc.type \in Sales THEN -doc.units ELSE doc.units

Stocking(f, n, doc) ==
  [f EXCEPT !.stock = @ + Effect(doc), !.effects = (n :> Effect(doc)) @@ @]

\* A reversed invoice gives its advances back, a reversed receipt what it paid.
ReleasedBy(f, i) ==
  MapThenSumSet(LAMBDA r : At(f.receipts[r].advance, i), DOMAIN f.receipts)

TakeBackInvoice(f, i) ==
  [f EXCEPT
     !.invoices[i] = [@ EXCEPT !.allocated = Max({0, @ - ReleasedBy(f, i)}), !.reversed = TRUE],
     !.receipts = [r \in DOMAIN @ |->
                     LET back == At(f.receipts[r].advance, i)
                     IN [@[r] EXCEPT !.allocated = Max({0, @ - back}), !.advance = Plus(@, i, -back),
                                     !.to = Plus(@, i, -Min({back, At(@, i)}))]]]

\* Variant: what the receipt paid stays paid.
TakeBackReceiptOnly(f, r) == [f EXCEPT !.receipts[r].reversed = TRUE]

TakeBackReceipt(f, r) ==
  [f EXCEPT
     !.receipts[r].reversed = TRUE,
     !.invoices = [i \in DOMAIN @ |->
                     [@[i] EXCEPT !.allocated = Max({0, @ - At(f.receipts[r].to, i)})]]]

TakeBack(f, n) ==
  LET g == [f EXCEPT !.reversed = @ \cup {n}, !.stock = @ - At(f.effects, n),
                     !.effects = (n :> 0) @@ @]
  IN CASE n \in f.reversed -> f
       [] n \in DOMAIN f.invoices \ f.reversed -> TakeBackInvoice(g, n)
       [] n \in DOMAIN f.receipts \ f.reversed -> TakeBackReceipt(g, n)
       [] OTHER -> g

\* What is left allocated to an invoice goes to its replacement.
Rekeyed(f, i, j) ==
  LET moved(m) == Plus(Plus(m, j, At(m, i)), i, -At(m, i))
  IN [f EXCEPT !.receipts = [r \in DOMAIN @ |->
                               [@[r] EXCEPT !.to = moved(@), !.advance = moved(@)]]]

Recorded(f, op) ==
  LET g == [f EXCEPT !.known = @ \cup ({op.id, op.of} \ {0}),
                     !.dates = IF op.verb \in {"create", "edit", "pay"}
                               THEN (op.id :> op.doc.date) @@ @ ELSE @]
  IN [g EXCEPT !.sequence = @ + 1]

DocumentMade(f, op) ==
  Stocking(CASE op.doc.type = "invoice" ->
                  ApplyAdvances(NewInvoice(f, op.id, op.doc, IF op.of = 0 THEN 0
                                                             ELSE f.invoices[op.of].allocated),
                                op.id, op.captured)
             [] op.doc.type = "receipt" ->
                  ApplyReceipt(NewReceipt(f, op.id, op.doc, op.doc.total), op.id, op.apply)
             [] OTHER -> f,
           op.id, op.doc)

Remains(f, i) == f.invoices[i].total - f.invoices[i].allocated

Fold(f, op) ==
  LET g == Recorded(f, op)
      h == TakeBack(g, op.of)
  IN CASE op.verb = "create" -> DocumentMade(g, op)
       [] op.verb = "pay" ->
            Allocate(NewReceipt(g, op.id, [op.doc EXCEPT !.party = g.invoices[op.of].party],
                                Remains(g, op.of)),
                     op.of, op.id, Remains(g, op.of), FALSE)
       [] op.verb = "delete" -> h
       [] op.verb = "edit" ->
            DocumentMade(IF op.doc.type = "invoice" THEN Rekeyed(h, op.of, op.id) ELSE h, op)
       [] op.verb = "count" -> [g EXCEPT !.counts = @ \cup {op.doc.date}]
       [] op.verb = "close" -> [g EXCEPT !.closed = Max({@, op.doc.date})]

-----------------------------------------------------------------------------
(* What the server permits *)

\* Nothing is dated, and no document is changed, in a closed period.
NotClosed(f, op) ==
  /\ op.verb \in {"create", "edit", "pay"} => op.doc.date > f.closed
  /\ op.verb \in {"edit", "delete"} /\ op.of \in DOMAIN f.dates => f.dates[op.of] > f.closed

InForce(facts, n) == n \in DOMAIN facts /\ ~facts[n].reversed

\* Variant: what others paid of the invoice is not counted.
ReceiptFitsTotal(f, op) ==
  /\ \A a \in op.apply : InForce(f.invoices, a.invoice) /\ a.amount <= f.invoices[a.invoice].total
  /\ AppliedTotal(op.apply) <= op.doc.total

\* A receipt applies what is left of invoices of its party; an edited one can
\* apply what it applied before.
ReceiptFits(f, op) ==
  /\ \A a \in op.apply :
       /\ InForce(f.invoices, a.invoice)
       /\ f.invoices[a.invoice].party = op.doc.party
       /\ a.amount <= Remains(f, a.invoice)
                      + (IF op.of = 0 THEN 0 ELSE At(f.receipts[op.of].to, a.invoice))
  /\ AppliedTotal(op.apply) <= op.doc.total

\* What an invoice takes of the advances of its party, the oldest first; an
\* edited one can take what it took before.
Usable(f, r, i) ==
  Max({0, f.receipts[r].total - f.receipts[r].allocated + At(f.receipts[r].advance, i)})

OldestFirst(f, op) ==
  LET rs == {r \in DOMAIN f.receipts : /\ InForce(f.receipts, r)
                                       /\ f.receipts[r].party = op.doc.party}
      taken(r) == Min({Usable(f, r, op.of),
                       op.doc.total - MapThenSumSet(LAMBDA q : Usable(f, q, op.of),
                         {q \in rs : Before(f.receipts[q].date, q, f.receipts[r].date, r)})})
  IN {[receipt |-> r, amount |-> taken(r)] : r \in {q \in rs : taken(q) > 0}}

StockFits(f, op) ==
  op.doc.units # 0 => f.stock - At(f.effects, op.of) + Effect(op.doc) >= 0

MadePermitted(f, op) ==
  /\ op.doc.type = "receipt" => ReceiptFits(f, op)
  /\ op.doc.type \in Sales \cup Purchases \cup {"stock_adjust"} => StockFits(f, op)
  /\ op.doc.type = "invoice" => op.captured = OldestFirst(f, op)

EditPermitted(f, op) ==
  /\ op.doc.type = "invoice" =>
       /\ InForce(f.invoices, op.of)
       /\ Max({0, f.invoices[op.of].allocated - ReleasedBy(f, op.of)}) <= op.doc.total
       /\ f.invoices[op.of].party = op.doc.party \/ f.invoices[op.of].allocated = 0
  /\ op.doc.type = "receipt" => InForce(f.receipts, op.of)
  /\ MadePermitted(f, op)

DeletePermitted(f, op) ==
  /\ op.doc.type = "invoice" => InForce(f.invoices, op.of) /\ f.invoices[op.of].allocated = 0
  /\ op.of \in f.known \ f.reversed

\* The amount the author's book paid is what the facts leave to pay.
PayPermitted(f, op) ==
  InForce(f.invoices, op.of) /\ Remains(f, op.of) > 0 /\ op.doc.total = Remains(f, op.of)

\* Variant: a close is of any book not closed so far.
CloseLater(f, op) == op.doc.date > f.closed

\* A close is of a book its author had seen all of.
ClosePermitted(f, op) == op.doc.date > f.closed /\ op.seen = f.sequence

Permits(f, op) ==
  /\ NotClosed(f, op)
  /\ CASE op.verb = "create" -> MadePermitted(f, op)
       [] op.verb = "edit" -> EditPermitted(f, op)
       [] op.verb = "delete" -> DeletePermitted(f, op)
       [] op.verb = "pay" -> PayPermitted(f, op)
       [] op.verb = "count" -> op.doc.date \notin f.counts
       [] op.verb = "close" -> ClosePermitted(f, op)
=============================================================================
