-------------------------------- MODULE SharedBook ----------------------------
(***************************************************************************)
(* A book kept by several devices and a server that arbitrates.  A device  *)
(* runs what its user enters on its own book and queues the operation      *)
(* (coordinator.ts, withSyncedMutation); the server accepts it into the    *)
(* log or refuses it; every other device pulls it and runs it again.  A    *)
(* device that cannot run what it pulled records the conflict that blocks  *)
(* it, and pushes nothing.  How requests are lost, repeated and cut off,   *)
(* and how conflicts are decided, is DeviceSync's concern: the accounting  *)
(* is what this module is about.                                           *)
(***************************************************************************)
EXTENDS Arbitration

CONSTANTS
  Devices,
  Scenarios   \* by name: the book at the start, entries, dates, verbs and number of operations

VARIABLES
  scenario,   \* the name of the scenario, which never changes
  book,       \* each device's book
  queue,      \* each device's operations not yet answered, in order
  sending,    \* how many of them are in a push under way
  cursor,     \* how much of the log each device has pulled
  blocked,    \* the devices with a conflict that blocks their pulls
  refused,    \* each device's refused operations, whose effect its book keeps
  log,        \* the accepted operations
  facts,      \* what the server folds from the log
  follower    \* a device that only pulls, and at once: its book, and the
              \* operation that stopped it, if one did

vars == <<scenario, book, queue, sending, cursor, blocked, refused, log, facts, follower>>

Now == Scenarios[scenario]

-----------------------------------------------------------------------------
(* Revisions *)

\* What an operation changes: the document it makes or is about, or the stock
\* count or the close of a date.
Aggregate(op) ==
  CASE op.verb \in {"edit", "delete", "pay"} -> <<"source", op.of>>
    [] op.verb = "create" -> <<"source", op.id>>
    [] OTHER -> <<op.verb, op.doc.date>>

Changes(op) == {k \in DOMAIN log : Aggregate(log[k]) = Aggregate(op)}

Revision(op) == Cardinality(Changes(op))

\* The newest revision a device was told of: what it pulled, and its own.
KnownRevision(d, op) ==
  Cardinality({k \in Changes(op) :
    \E j \in Changes(op) : k <= j /\ (j <= cursor[d] \/ log[j].author = d)})

-----------------------------------------------------------------------------
(* What a user does *)

\* How many operations were made so far.
Submitted == Len(log) + MapThenSumSet(LAMBDA d : Len(queue[d]) + Cardinality(refused[d]), Devices)

Command(d, verb, of, doc, apply) ==
  [id |-> Submitted + 1, author |-> d, verb |-> verb, of |-> of, doc |-> doc, apply |-> apply,
   captured |-> {}, seen |-> cursor[d], base |-> 0, net |-> 0]

ByOperation(b, apply) == {[a EXCEPT !.invoice = b.sources[@].op] : a \in apply}

Commands(d) ==
  LET b == book[d]
      of(s) == b.sources[s].op
  IN UNION
     {{Command(d, "create", 0, doc, ByOperation(b, apply)) :
         apply \in Applications(b, doc)} : doc \in Now.entries}
     \cup UNION
     {{Command(d, "edit", of(s), doc, ByOperation(b, apply)) : apply \in Applications(b, doc)} :
         <<s, doc>> \in {<<t, e>> \in Live(b, SourceTypes) \X Now.entries :
                           e.type = b.sources[t].type}}
     \cup {Command(d, "delete", of(s), b.sources[s], {}) : s \in Live(b, SourceTypes)}
     \cup {Command(d, "pay", of(s), Payment(b, s, date), {}) :
             s \in Live(b, {"invoice"}), date \in Now.dates}
     \cup {Command(d, "count", 0, Doc("count", date, value), {}) :
             date \in Now.dates, value \in Now.counts}
     \cup {Command(d, "close", 0, Doc("close", date, value), {}) :
             date \in Now.dates, value \in Now.counts}

Net(op, b) == IF op.verb = "close" THEN Last(b.closes).net ELSE 0

\* Bound: the number of operations of the scenario.
Do(d) ==
  /\ Submitted < Now.operations
  /\ \E c \in {x \in Commands(d) : x.verb \in Now.verbs} :
       LET b == Run(book[d], c, Now.today)
       IN /\ CanRun(book[d], c, Now.today)
          /\ book' = [book EXCEPT ![d] = b]
          /\ queue' = [queue EXCEPT ![d] =
                         Append(@, [c EXCEPT !.captured = Captured(b), !.net = Net(c, b),
                                             !.base = KnownRevision(d, c)])]
          /\ UNCHANGED <<scenario, sending, cursor, blocked, refused, log, facts, follower>>

-----------------------------------------------------------------------------
(* The server and the replay *)

Accepts(op) == op.base = Revision(op) /\ Permits(facts, op)

Followed(op) ==
  CASE follower.stoppedBy # {} -> follower
    [] follower.stoppedBy = {} /\ CanRun(follower.book, op, Now.today) ->
         [follower EXCEPT !.book = Run(@, op, Now.today)]
    [] OTHER -> [follower EXCEPT !.stoppedBy = {op}]

\* The server reads the log anew for each operation; here its facts are kept.
Accept(d, op) ==
  /\ Accepts(op)
  /\ log' = Append(log, op) /\ facts' = Fold(facts, op) /\ follower' = Followed(op)
  /\ UNCHANGED refused

Refuse(d, op) ==
  /\ ~Accepts(op)
  /\ refused' = [refused EXCEPT ![d] = @ \cup {op}]
  /\ UNCHANGED <<log, facts, follower>>

\* A push is of the operations queued when the device has pulled all there is.
StartPush(d) ==
  /\ sending[d] = 0 /\ queue[d] # <<>> /\ cursor[d] = Len(log)
  /\ sending' = [sending EXCEPT ![d] = Len(queue[d])]
  /\ UNCHANGED <<scenario, book, queue, cursor, blocked, refused, log, facts, follower>>

Send(d) ==
  /\ sending[d] > 0
  /\ Accept(d, Head(queue[d])) \/ Refuse(d, Head(queue[d]))
  /\ queue' = [queue EXCEPT ![d] = Tail(@)]
  /\ sending' = [sending EXCEPT ![d] = @ - 1]
  /\ UNCHANGED <<scenario, book, cursor, blocked>>

\* A device does not run its own operations again.
\* Variant: it does.
RunsAll(d, op) == TRUE

Runs(d, op) == op.author # d

\* The page a device pulls, run on its book up to the first event that fails.
Replay(d) ==
  FoldLeft(LAMBDA r, op :
             CASE r.fails \/ ~Runs(d, op) -> r
               [] ~r.fails /\ Runs(d, op) /\ CanRun(r.book, op, Now.today) ->
                    [r EXCEPT !.book = Run(@, op, Now.today)]
               [] OTHER -> [r EXCEPT !.fails = TRUE],
           [book |-> book[d], fails |-> FALSE], SubSeq(log, cursor[d] + 1, Len(log)))

Pull(d) ==
  LET replay == Replay(d)
  IN /\ sending[d] = 0 /\ cursor[d] < Len(log)
     /\ ~replay.fails
     /\ book' = [book EXCEPT ![d] = replay.book]
     /\ cursor' = [cursor EXCEPT ![d] = Len(log)]
     /\ UNCHANGED <<scenario, queue, sending, blocked, refused, log, facts, follower>>

\* The page is rolled back, and the sync ends before its push.
Block(d) ==
  /\ sending[d] = 0 /\ cursor[d] < Len(log) /\ Replay(d).fails
  /\ blocked' = blocked \cup {d}
  /\ UNCHANGED <<scenario, book, queue, sending, cursor, refused, log, facts, follower>>

Init ==
  /\ scenario \in DOMAIN Scenarios
  /\ book = [d \in Devices |-> Now.book]
  /\ queue = [d \in Devices |-> <<>>] /\ sending = [d \in Devices |-> 0]
  /\ cursor = [d \in Devices |-> 0] /\ blocked = {}
  /\ refused = [d \in Devices |-> {}]
  /\ log = <<>>
  /\ facts = [NoFacts EXCEPT !.stock = Now.book.qty]
  /\ follower = [book |-> Now.book, stoppedBy |-> {}]

Next == \E d \in Devices : Do(d) \/ StartPush(d) \/ Send(d) \/ Pull(d) \/ Block(d)

Spec == Init /\ [][Next]_vars

-----------------------------------------------------------------------------
(* Properties *)

\* What the server accepts can be run by every device, also by one with work of
\* its own that the server has not judged: all devices come to the end of the
\* log (CONFLICT_POLICY.md:81, coordinator.ts:302-308).
NothingBlocks == blocked = {}

\* What stops a device with no work of its own is a count, whose date the server does
\* not compare with the closed periods, or the edit of a document whose own operation
\* the server refused: what it permits of receipts, advances, payments, stock and
\* closes can be run (docs/sync/CONFLICT_POLICY.md:81, domainArbitration.ts:183-400).
OnlyUncheckedStops ==
  \A op \in follower.stoppedBy :
    op.verb = "count" \/ (op.verb = "edit" /\ op.of \notin Made(follower.book))

\* The facts the server judges by are those of the replayed book, until the replay
\* is stopped, and as long as no receipt that an invoice took an advance from was
\* taken back.
AdvanceTakenBack ==
  \E n \in facts.reversed \cap DOMAIN facts.receipts : DOMAIN facts.receipts[n].advance # {}

FactsAgree ==
  LET b == follower.book
  IN follower.stoppedBy = {} =>
     /\ \A i \in DOMAIN facts.invoices :
          /\ facts.invoices[i].reversed = b.sources[Source(b, i)].reversed
          /\ ~facts.invoices[i].reversed /\ ~AdvanceTakenBack =>
               facts.invoices[i].allocated = Allocated(b, Source(b, i))
     /\ \A r \in DOMAIN facts.receipts :
          InForce(facts.receipts, r) => facts.receipts[r].allocated = Consumed(b, Source(b, r))
     /\ facts.reversed = {n \in Made(b) : b.sources[Source(b, n)].reversed}
     /\ facts.closed = Max({0} \cup {b.periods[c.period].end : c \in Range(b.closes)})

\* The result a device showed its user for a close is the one every other device
\* that comes so far computes, unless its book held an operation that was refused.
CloseAgrees ==
  follower.stoppedBy = {} => \A k \in DOMAIN log :
    log[k].verb = "close" /\ (\A r \in refused[log[k].author] : r.id > log[k].id) =>
      \E c \in Range(follower.book.closes) :
        follower.book.periods[c.period].end = log[k].doc.date /\ c.net = log[k].net

\* Devices with nothing left to send, to pull or to be decided on.
AtRest == {d \in Devices \ blocked : queue[d] = <<>> /\ cursor[d] = Len(log) /\ refused[d] = {}}

\* docs/sync/README.md: reports, trial balance, allocations and stock reconcile
\* on every converged device.
Allocations(b) ==
  {[invoice |-> b.sources[r.invoice].op, receipt |-> b.sources[r.receipt].op, amount |-> r.amount] :
     r \in b.allocs}

AllocationsAgree == \A d, e \in AtRest : Allocations(book[d]) = Allocations(book[e])

\* Without money paid in advance, the balances and the stock do reconcile.
PaidInAdvance(b) ==
  \E j \in DOMAIN b.journals : \E k \in DOMAIN b.journals[j].lines :
    b.journals[j].lines[k].account \in {"CUSTOMER_ADVANCES", "SUPPLIER_ADVANCES"}

Shown(b) == [balances |-> [a \in Accounts |-> Balance(b, a)], stock |-> b.qty]

BalancesAgree ==
  \A d, e \in AtRest :
    ~PaidInAdvance(book[d]) /\ ~PaidInAdvance(book[e]) => Shown(book[d]) = Shown(book[e])
=============================================================================
