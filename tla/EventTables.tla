----------------------------- MODULE EventTables ----------------------------
(***************************************************************************)
(* The tables of the canonical event store of one book and the transactions *)
(* on them: PostgresEventStore of sync-server/src/postgres.ts.  Every      *)
(* action here is one committed transaction: the lock on the book row      *)
(* serializes them, so each is one atomic step.  A refused operation rolls *)
(* its transaction back; the conflict row it leaves is written afterwards, *)
(* by recordConflict, from the evidence the handler holds.                 *)
(*                                                                         *)
(* An event is the accepted operation with its two server-assigned         *)
(* numbers.  A hash is what it is a hash of: payloadHash is the payload,   *)
(* and the hash of a canonical prefix is the prefix.                       *)
(***************************************************************************)
EXTENDS Integers, FiniteSets, Sequences

CONSTANTS
  Epochs,       \* identifiers an epoch can be given
  OpIds,        \* identifiers an operation can be given
  Devices,
  Aggregates,
  Payloads,     \* what an operation carries
  Projections,  \* what a snapshot carries: the accounting state of a device
  NoEpoch,      \* the book does not exist
  NoRevision,   \* baseRevision: null
  NoOp,         \* no canonical operation is linked
  PullLimit     \* most events one pull returns (MAX_BATCH_SIZE)

ASSUME NullAssumption ==
  /\ NoEpoch \notin Epochs
  /\ NoRevision \notin Nat
  /\ NoOp \notin OpIds

ASSUME PullLimitAssumption == PullLimit \in Nat \ {0}

VARIABLES
  bookEpoch,     \* sync_books.book_epoch
  nextSequence,  \* sync_books.next_sequence
  epochs,        \* sync_book_epochs
  events,        \* sync_events
  conflicts,     \* sync_conflicts: row i has conflict_id i
  snapshots,     \* sync_snapshots, in the order they were created
  checkpoints    \* sync_checkpoints

storeVars == <<bookEpoch, nextSequence, epochs, events, conflicts, snapshots, checkpoints>>

Operation == [opId: OpIds, bookEpoch: Epochs, deviceId: Devices, deviceSequence: Nat \ {0},
              aggregateId: Aggregates, baseRevision: Nat \cup {NoRevision},
              dependencies: SUBSET OpIds, payload: Payloads]

Event == [op: Operation, bookSequence: Nat \ {0}, aggregateRevision: Nat \ {0}]

\* What append itself refuses an operation for, and what the arbitrator does.
StoreReasons == {"epoch_mismatch", "op_id_payload_mismatch", "dependency_missing",
                 "device_sequence_reused", "aggregate_revision_conflict"}

ArbitrationReasons == {"INVALID_ACCOUNTING_COMMAND", "DOMAIN_CONFLICT"}

\* What the arbitrator says of an operation it has not seen.
Verdict == {"ok"} \cup ArbitrationReasons

Reasons == StoreReasons \cup ArbitrationReasons

Evidence == [op: Operation, reason: Reasons, canonicalOpId: OpIds \cup {NoOp}]

Conflict == [op: Operation, reason: Reasons, canonicalOpId: OpIds \cup {NoOp},
             status: {"open", "resolved"}, resolutionOpId: OpIds \cup {NoOp}]

EpochRow == [number: Nat, start: Nat, end: Nat]

Snapshot == [bookEpoch: Epochs, throughSequence: Nat, payload: Projections,
             aggregateRevisions: [Aggregates -> Nat]]

Checkpoint == [bookEpoch: Epochs, throughSequence: Nat, eventHash: SUBSET Event]

StoreTypeOK ==
  /\ bookEpoch \in Epochs \cup {NoEpoch}
  /\ nextSequence \in Nat \ {0}
  /\ epochs \in [Epochs -> EpochRow]
  /\ events \subseteq Event
  /\ conflicts \in Seq(Conflict)
  /\ snapshots \in Seq(Snapshot)
  /\ checkpoints \subseteq Checkpoint

Unused == [number |-> 0, start |-> 0, end |-> 0]

StoreInit ==
  /\ bookEpoch = NoEpoch
  /\ nextSequence = 1
  /\ epochs = [e \in Epochs |-> Unused]
  /\ events = {}
  /\ conflicts = <<>>
  /\ snapshots = <<>>
  /\ checkpoints = {}

-----------------------------------------------------------------------------
(* Queries *)

EventsOf(e, a) == {x \in events : x.op.bookEpoch = e /\ x.op.aggregateId = a}

EventsThrough(e, n) == {x \in events : x.op.bookEpoch = e /\ x.bookSequence <= n}

\* COALESCE(MAX(aggregate_revision),0) over a set of events.
MaxRevision(E) ==
  LET R == {0} \cup {x.aggregateRevision : x \in E}
  IN CHOOSE r \in R : \A q \in R : q <= r

CurrentRevision(a) == MaxRevision(EventsOf(bookEpoch, a))

Existing(op) == {x \in events : x.op.bookEpoch = op.bookEpoch /\ x.op.opId = op.opId}

\* Variant: the device sequence is not looked up.
NoDeviceSequence(op) == {}

SameDeviceSequence(op) ==
  {x \in events : /\ x.op.bookEpoch = op.bookEpoch
                  /\ x.op.deviceId = op.deviceId
                  /\ x.op.deviceSequence = op.deviceSequence}

\* Variant: a dependency may be met by another epoch.
DependenciesAnywhere(op) == \A d \in op.dependencies : \E x \in events : x.op.opId = d

DependenciesPresent(op) ==
  \A d \in op.dependencies : \E x \in events : x.op.bookEpoch = op.bookEpoch /\ x.op.opId = d

\* Variant: a base below the current revision is let through.
RevisionNotAhead(op) ==
  op.baseRevision = NoRevision \/ op.baseRevision <= CurrentRevision(op.aggregateId)

RevisionMatches(op) == op.baseRevision \in {NoRevision, CurrentRevision(op.aggregateId)}

\* The newest event of the aggregate: the canonical side of a revision conflict.
CanonicalOpOf(a) ==
  LET E == EventsOf(bookEpoch, a)
  IN IF E = {} THEN NoOp
     ELSE (CHOOSE x \in E : \A y \in E : y.aggregateRevision <= x.aggregateRevision).op.opId

\* Variant: the epoch of the operation is not compared with the book's.
RefusalAnyEpoch(op, verdict) ==
  IF Existing(op) # {} THEN ""
  ELSE IF verdict # "ok" THEN verdict
  ELSE IF ~DependenciesPresent(op) THEN "dependency_missing"
  ELSE IF SameDeviceSequence(op) # {} THEN "device_sequence_reused"
  ELSE IF ~RevisionMatches(op) THEN "aggregate_revision_conflict"
  ELSE ""

\* What append refuses an operation for, in the order the code tests; "" when
\* it accepts.  A verdict other than "ok" is an error the arbitrator throws.
Refusal(op, verdict) ==
  CASE op.bookEpoch # bookEpoch -> "epoch_mismatch"
    [] op.bookEpoch = bookEpoch /\ Existing(op) # {} ->
         IF \E x \in Existing(op) : x.op.payload = op.payload THEN "" ELSE "op_id_payload_mismatch"
    [] op.bookEpoch = bookEpoch /\ Existing(op) = {} ->
         IF verdict # "ok" THEN verdict
         ELSE IF ~DependenciesPresent(op) THEN "dependency_missing"
         ELSE IF SameDeviceSequence(op) # {} THEN "device_sequence_reused"
         ELSE IF ~RevisionMatches(op) THEN "aggregate_revision_conflict"
         ELSE ""

CanonicalSide(op, reason) ==
  CASE reason = "op_id_payload_mismatch" -> op.opId
    [] reason = "device_sequence_reused" -> (CHOOSE x \in SameDeviceSequence(op) : TRUE).op.opId
    [] reason = "aggregate_revision_conflict" -> CanonicalOpOf(op.aggregateId)
    [] OTHER -> NoOp

\* What pull answers for the cursor `after`: the next events of the active
\* epoch in sequence order, at most PullLimit of them.
PullPage(after) ==
  LET start == epochs[bookEpoch].start
      from == IF after > start - 1 THEN after ELSE start - 1
      ahead == {x \in events : x.op.bookEpoch = bookEpoch /\ x.bookSequence > from}
      page == {x \in ahead : Cardinality({y \in ahead : y.bookSequence <= x.bookSequence}) <= PullLimit}
      cursor == IF page = {} THEN from
                ELSE (CHOOSE x \in page : \A y \in page : y.bookSequence <= x.bookSequence).bookSequence
  IN [bookEpoch |-> bookEpoch, events |-> page, cursor |-> cursor, hasMore |-> page # ahead,
      checkpointHash |-> EventsThrough(bookEpoch, cursor)]

\* Indexes of the snapshots latestSnapshot may serve: the furthest, then the newest.
LatestSnapshots(e) ==
  {i \in DOMAIN snapshots :
     /\ snapshots[i].bookEpoch = e
     /\ \A j \in DOMAIN snapshots : snapshots[j].bookEpoch = e =>
          \/ snapshots[j].throughSequence < snapshots[i].throughSequence
          \/ snapshots[j].throughSequence = snapshots[i].throughSequence /\ j <= i}

\* Variant: one past the last event is let through.
InEpochOrNext(n) == n >= epochs[bookEpoch].start - 1 /\ n <= nextSequence

InEpoch(n) == n >= epochs[bookEpoch].start - 1 /\ n <= nextSequence - 1

\* The checkpoint of the first n events of an epoch, as they are now.
CheckpointOf(e, n) == [bookEpoch |-> e, throughSequence |-> n, eventHash |-> EventsThrough(e, n)]

PutCheckpoint(c) ==
  checkpoints' =
    {k \in checkpoints : k.bookEpoch # c.bookEpoch \/ k.throughSequence # c.throughSequence} \cup {c}

-----------------------------------------------------------------------------
(* Transactions *)

CreateBook(e) ==
  /\ bookEpoch = NoEpoch
  /\ bookEpoch' = e
  /\ epochs' = [epochs EXCEPT ![e] = [number |-> 1, start |-> 1, end |-> 0]]
  /\ UNCHANGED <<nextSequence, events, conflicts, snapshots, checkpoints>>

\* Variant: the stored revision is the one before the change.
InsertBaseRevision(op, verdict) ==
  /\ bookEpoch # NoEpoch
  /\ Refusal(op, verdict) = ""
  /\ Existing(op) = {}
  /\ events' = events \cup {[op |-> op, bookSequence |-> nextSequence,
                             aggregateRevision |-> CurrentRevision(op.aggregateId)]}
  /\ nextSequence' = nextSequence + 1
  /\ UNCHANGED <<bookEpoch, epochs, conflicts, snapshots, checkpoints>>

Insert(op, verdict) ==
  /\ bookEpoch # NoEpoch
  /\ Refusal(op, verdict) = ""
  /\ Existing(op) = {}
  /\ events' = events \cup {[op |-> op, bookSequence |-> nextSequence,
                             aggregateRevision |-> CurrentRevision(op.aggregateId) + 1]}
  /\ nextSequence' = nextSequence + 1
  /\ UNCHANGED <<bookEpoch, epochs, conflicts, snapshots, checkpoints>>

\* A retry of an accepted operation: the stored event is the answer.
Deduplicate(op, verdict) ==
  /\ bookEpoch # NoEpoch
  /\ Refusal(op, verdict) = ""
  /\ Existing(op) # {}
  /\ UNCHANGED storeVars

Accept(op, verdict) == Insert(op, verdict) \/ Deduplicate(op, verdict)

\* What a rolled back append knows of the conflict.
EvidenceOf(op, verdict) ==
  [op |-> op, reason |-> Refusal(op, verdict),
   canonicalOpId |-> CanonicalSide(op, Refusal(op, verdict))]

\* Variant: rows are told apart by their canonical side as well.
OpenRowsPerSide(evidence) ==
  {i \in DOMAIN conflicts :
     /\ conflicts[i].status = "open" /\ conflicts[i].reason = evidence.reason
     /\ conflicts[i].op = evidence.op /\ conflicts[i].canonicalOpId = evidence.canonicalOpId}

\* The open rows of an operation and a reason.
OpenRows(evidence) ==
  {i \in DOMAIN conflicts :
     /\ conflicts[i].status = "open" /\ conflicts[i].reason = evidence.reason
     /\ conflicts[i].op.bookEpoch = evidence.op.bookEpoch
     /\ conflicts[i].op.opId = evidence.op.opId}

\* The partial unique index on open rows makes a second insert do nothing.
RecordConflict(evidence) ==
  /\ bookEpoch # NoEpoch
  /\ conflicts' =
       IF OpenRows(evidence) # {} THEN conflicts
       ELSE Append(conflicts, [op |-> evidence.op, reason |-> evidence.reason,
                               canonicalOpId |-> evidence.canonicalOpId,
                               status |-> "open", resolutionOpId |-> NoOp])
  /\ UNCHANGED <<bookEpoch, nextSequence, epochs, events, snapshots, checkpoints>>

Pull(after) ==
  /\ bookEpoch # NoEpoch
  /\ after <= nextSequence - 1
  /\ PutCheckpoint(CheckpointOf(bookEpoch, PullPage(after).cursor))
  /\ UNCHANGED <<bookEpoch, nextSequence, epochs, events, conflicts, snapshots>>

\* verifyCheckpoint is not a transaction: it writes the hash it read earlier.
WriteCheckpoint(c) ==
  /\ PutCheckpoint(c)
  /\ UNCHANGED <<bookEpoch, nextSequence, epochs, events, conflicts, snapshots>>

\* Variant: the sequence starts again with the epoch.
AdvanceAndRestart(expected, new) ==
  /\ bookEpoch # NoEpoch
  /\ expected = bookEpoch
  /\ epochs[new] = Unused
  /\ epochs' = [epochs EXCEPT ![bookEpoch].end = nextSequence - 1,
                              ![new] = [number |-> epochs[bookEpoch].number + 1,
                                        start |-> 1, end |-> 0]]
  /\ bookEpoch' = new
  /\ nextSequence' = 1
  /\ UNCHANGED <<events, conflicts, snapshots, checkpoints>>

AdvanceEpoch(expected, new) ==
  /\ bookEpoch # NoEpoch
  /\ expected = bookEpoch
  /\ epochs[new] = Unused
  /\ epochs' = [epochs EXCEPT ![bookEpoch].end = nextSequence - 1,
                              ![new] = [number |-> epochs[bookEpoch].number + 1,
                                        start |-> nextSequence, end |-> 0]]
  /\ bookEpoch' = new
  /\ UNCHANGED <<nextSequence, events, conflicts, snapshots, checkpoints>>

\* Variant: the revisions of the whole epoch, later events included.
RevisionMapNow(e, n) == [a \in Aggregates |-> MaxRevision(EventsOf(e, a))]

RevisionMap(e, n) ==
  [a \in Aggregates |-> MaxRevision({x \in EventsThrough(e, n) : x.op.aggregateId = a})]

\* The server derives the revision map itself; a client's hash must match.
SaveSnapshot(e, n, payload, hash) ==
  /\ bookEpoch # NoEpoch
  /\ e = bookEpoch
  /\ InEpoch(n)
  /\ hash = EventsThrough(e, n)
  /\ snapshots' =
       IF \E i \in DOMAIN snapshots : /\ snapshots[i].bookEpoch = e
                                      /\ snapshots[i].throughSequence = n
                                      /\ snapshots[i].payload = payload
       THEN snapshots
       ELSE Append(snapshots, [bookEpoch |-> e, throughSequence |-> n, payload |-> payload,
                               aggregateRevisions |-> RevisionMap(e, n)])
  /\ UNCHANGED <<bookEpoch, nextSequence, epochs, events, conflicts, checkpoints>>

\* Variant: the resolution need not depend on the canonical operation.
ResolvesUnlinked(x, c) ==
  x.op.bookEpoch = c.op.bookEpoch /\ x.op.aggregateId = c.op.aggregateId

\* assertConflictResolutionEvent.  Which payloads an audited correction or a
\* merge may carry is not told apart here.
Resolves(x, c) ==
  /\ x.op.bookEpoch = c.op.bookEpoch
  /\ x.op.aggregateId = c.op.aggregateId
  /\ c.canonicalOpId = NoOp \/ c.canonicalOpId \in x.op.dependencies

\* Variant: a later decision replaces an earlier one.
MarkResolvedAgain(i, resolutionOpId) ==
  conflicts' = [conflicts EXCEPT ![i].status = "resolved", ![i].resolutionOpId = resolutionOpId]

\* The first decision stands: a row that is not open is answered as it is.
MarkResolved(i, resolutionOpId) ==
  conflicts' =
    IF conflicts[i].status = "open"
    THEN [conflicts EXCEPT ![i].status = "resolved", ![i].resolutionOpId = resolutionOpId]
    ELSE conflicts

KeepCanonical(i) ==
  /\ MarkResolved(i, NoOp)
  /\ UNCHANGED <<bookEpoch, nextSequence, epochs, events, snapshots, checkpoints>>

ResolveWith(i, x) ==
  /\ x.op.bookEpoch = bookEpoch
  /\ Resolves(x, conflicts[i])
  /\ MarkResolved(i, x.op.opId)
  /\ UNCHANGED <<bookEpoch, nextSequence, epochs, events, snapshots, checkpoints>>

-----------------------------------------------------------------------------
(* Properties of the tables, whoever runs the transactions *)

\* Canonical order is total and gapless: the accepted events of the book are
\* numbered 1, 2, ... without a hole or a tie, across epochs
\* (append, postgres.ts:298-302).
Sequenced ==
  /\ \A x \in events : x.bookSequence < nextSequence
  /\ \A n \in 1 .. nextSequence - 1 : \E x \in events : x.bookSequence = n
  /\ \A x, y \in events : x.bookSequence = y.bookSequence => x = y

\* However often an operation is submitted, and whatever happened to the
\* answers, an epoch holds it at most once, and a device sequence names at
\* most one operation (postgres.ts:280-281, 289-290).
ExactlyOnce ==
  \A x, y \in events : x.op.bookEpoch = y.op.bookEpoch =>
    /\ x.op.opId = y.op.opId => x = y
    /\ x.op.deviceId = y.op.deviceId /\ x.op.deviceSequence = y.op.deviceSequence => x = y

\* No lost update: within an epoch the events of an aggregate form a chain.
\* Each starts from the revision just before it, so an operation that names a
\* base saw every earlier change of its aggregate (postgres.ts:291-297).
RevisionChain ==
  \A x \in events :
    LET before == {y \in EventsOf(x.op.bookEpoch, x.op.aggregateId) :
                     y.bookSequence < x.bookSequence}
    IN /\ x.aggregateRevision = Cardinality(before) + 1
       /\ x.op.baseRevision # NoRevision => x.op.baseRevision = x.aggregateRevision - 1

\* An epoch is a fence: the events of an epoch lie inside the interval of book
\* sequences it was active for, so nothing stamped with a superseded epoch is
\* accepted after the advance (postgres.ts:271, 351-353).
EpochFence ==
  \A x \in events :
    LET row == epochs[x.op.bookEpoch]
    IN /\ row.number > 0 /\ row.start <= x.bookSequence
       /\ x.op.bookEpoch # bookEpoch => x.bookSequence <= row.end

\* Replaying the canonical log in order never meets an operation before one
\* it depends on (postgres.ts:283-288).
DependenciesPrecede ==
  \A x \in events : \A d \in x.op.dependencies :
    \E y \in events : /\ y.op.opId = d /\ y.op.bookEpoch = x.op.bookEpoch
                      /\ y.bookSequence < x.bookSequence

\* A device that installs a snapshot and then counts the later events of an
\* aggregate holds the revision the server will compare its next edit with
\* (canonicalAggregateRevisions, postgres.ts:225-235, 369).
SnapshotRevisions ==
  \A i \in DOMAIN snapshots : \A a \in Aggregates :
    LET s == snapshots[i]
    IN MaxRevision(EventsOf(s.bookEpoch, a)) =
         s.aggregateRevisions[a]
           + Cardinality({x \in EventsOf(s.bookEpoch, a) : x.bookSequence > s.throughSequence})

\* A checkpoint a device holds stays the hash of the canonical prefix, also of
\* an epoch that has ended: history below a cursor never changes
\* (canonicalHash, postgres.ts:224, 331-332).
CheckpointsStable ==
  \A c \in checkpoints : c.eventHash = EventsThrough(c.bookEpoch, c.throughSequence)

\* A conflict closed with a correction or a merge is closed by an event that
\* is later in the log than the canonical operation it answers, on the same
\* aggregate of the same epoch (resolveConflict, postgres.ts:450-455).
AuditedResolution ==
  \A i \in DOMAIN conflicts : conflicts[i].resolutionOpId # NoOp =>
    \E x \in events :
      /\ x.op.opId = conflicts[i].resolutionOpId
      /\ x.op.bookEpoch = conflicts[i].op.bookEpoch
      /\ x.op.aggregateId = conflicts[i].op.aggregateId
      /\ \A y \in events :
           y.op.bookEpoch = conflicts[i].op.bookEpoch /\ y.op.opId = conflicts[i].canonicalOpId =>
             y.bookSequence < x.bookSequence

\* An operation that is refused leaves its evidence: one open conflict per
\* operation and reason, never two (recordConflict, postgres.ts:421-432).
OneOpenConflict ==
  \A i, j \in DOMAIN conflicts :
    /\ conflicts[i].status = "open" /\ conflicts[j].status = "open"
    /\ conflicts[i].reason = conflicts[j].reason
    /\ conflicts[i].op.bookEpoch = conflicts[j].op.bookEpoch
    /\ conflicts[i].op.opId = conflicts[j].op.opId
    => i = j

\* Canonical history only grows at its end, epochs only move forward, a
\* conflict once recorded is never lost and a decision on it is final: of two
\* people who decide the same conflict the first one wins (postgres.ts:456).
AppendOnlyHistory ==
  [][ /\ events \subseteq events'
      /\ \A x \in events' \ events : x.bookSequence = nextSequence
      /\ bookEpoch' # bookEpoch => \A e \in Epochs : epochs'[e].number <= epochs'[bookEpoch'].number
      /\ \A i \in DOMAIN conflicts :
           /\ i \in DOMAIN conflicts' /\ conflicts'[i].op = conflicts[i].op
           /\ conflicts[i].status = "resolved" => conflicts'[i] = conflicts[i] ]_storeVars
=============================================================================
