----------------------------- MODULE DeviceTables ---------------------------
(***************************************************************************)
(* The SQLite tables of the devices that share a book, and the             *)
(* transactions on them: frontend/src/sync/outbox.ts, conflicts.ts and the *)
(* database half of coordinator.ts and recovery.ts.  Every action is one   *)
(* statement or one savepoint held under withSyncDatabaseMutationLock.     *)
(*                                                                         *)
(* The accounting state of a device is the set of operations whose effect  *)
(* it holds.  An operation is named by the order in which it was issued:   *)
(* ops[n] is the operation with opId n.                                    *)
(***************************************************************************)
EXTENDS EventTables

CONSTANTS
  Exclusive,     \* aggregates on which concurrent commands cannot both be applied
  PushLimit,     \* most operations in one push (100)
  NoHash         \* no checkpoint hash is stored

ASSUME PushLimitAssumption == PushLimit \in Nat \ {0}
ASSUME ExclusiveAssumption == Exclusive \subseteq Aggregates
ASSUME OpIdsAssumption == IsFiniteSet(OpIds) /\ OpIds = 1 .. Cardinality(OpIds)
ASSUME PayloadsAssumption == Payloads = {"edit", "correction"} /\ NoOp = 0
ASSUME ProjectionsAssumption == Projections = SUBSET OpIds

VARIABLES
  ops,           \* the operations issued so far, by every device
  outbox,        \* sync_outbox.status of each, on the device that issued it
  db             \* the other sync tables and the accounting state of each device

deviceVars == <<ops, outbox, db>>

\* "untracked": applied by withSyncedMutation without an outbox row.
Statuses == {"untracked", "pending", "retryable", "quarantined", "conflict", "rejected", "accepted"}

Issued == [opId: OpIds, bookEpoch: Epochs \cup {NoEpoch}, deviceId: Devices,
           deviceSequence: Nat, aggregateId: Aggregates, baseRevision: Nat,
           dependencies: SUBSET OpIds, payload: Payloads]

\* sync_conflicts; id 0 is a "local:" row, which the server does not know.
LocalConflict == [id: Nat, op: OpIds, canonicalOpId: OpIds \cup {NoOp},
                  canonicalRevision: Nat \cup {NoRevision},
                  status: {"open", "resolved", "ignored"}]

Resolution == [id: Nat, resolutionOpId: OpIds \cup {NoOp}, status: {"pending", "sent", "rejected"}]

\* epoch, recovery: sync_profiles (recovery "required" or "bootstrap" means not
\* enabled).  stateEpoch, cursor, checkpoint: sync_book_state.
Database == [epoch: Epochs \cup {NoEpoch}, recovery: {"none", "bootstrap", "required"},
             stateEpoch: Epochs \cup {NoEpoch}, cursor: Nat,
             checkpoint: (SUBSET Event) \cup {NoHash}, sequence: Nat \ {0},
             revision: [Aggregates -> Nat], applied: SUBSET OpIds,
             projection: SUBSET OpIds, rows: SUBSET LocalConflict,
             resolutions: SUBSET Resolution]

DeviceTypeOK ==
  /\ ops \in Seq(Issued)
  /\ outbox \in [DOMAIN ops -> Statuses]
  /\ db \in [Devices -> Database]

Fresh == [epoch |-> NoEpoch, recovery |-> "none", stateEpoch |-> NoEpoch, cursor |-> 0,
          checkpoint |-> NoHash, sequence |-> 1, revision |-> [a \in Aggregates |-> 0],
          applied |-> {}, projection |-> {}, rows |-> {}, resolutions |-> {}]

DeviceInit == ops = <<>> /\ outbox = <<>> /\ db = [d \in Devices |-> Fresh]

-----------------------------------------------------------------------------
(* Queries *)

Enabled(d) == db[d].epoch # NoEpoch /\ db[d].recovery = "none"

\* The device has a row in sync_book_state.
Known(d) == db[d].stateEpoch # NoEpoch

Own(d) == {o \in DOMAIN ops : ops[o].deviceId = d /\ outbox[o] # "untracked"}

InStatus(d, S) == {o \in Own(d) : outbox[o] \in S}

OfEpoch(O, e) == {o \in O : ops[o].bookEpoch = e}

OpenRowsFor(d, o) == {r \in db[d].rows : r.op = o /\ r.status = "open"}

\* A command fails when its own rows exist already (runtimeIds derives them
\* from the opId), or when it meets a concurrent one on an exclusive aggregate.
Clash(o, q) ==
  \/ o = q
  \/ /\ ops[o].aggregateId \in Exclusive /\ ops[o].aggregateId = ops[q].aggregateId
     /\ ops[o].deviceId # ops[q].deviceId /\ ops[o].baseRevision = ops[q].baseRevision
     /\ ops[o].payload = "edit" /\ ops[q].payload = "edit"

Applies(o, projection) == \A q \in projection : ~Clash(o, q)

\* The operations of O in the order of their device sequence, at most n of them.
FirstBySequence(O, n) ==
  {o \in O : Cardinality({q \in O : ops[q].deviceSequence <= ops[o].deviceSequence}) <= n}

Larger(m, n) == IF m < n THEN n ELSE m

-----------------------------------------------------------------------------
(* Local work *)

\* withSyncedMutation: the change and its outbox row in one savepoint.  Before
\* enrollment and during bootstrap the change is applied and nothing is queued.
Mutate(d, a) ==
  LET o == Len(ops) + 1
      tracked == db[d].epoch # NoEpoch /\ db[d].recovery # "bootstrap"
  IN /\ o \in OpIds
     /\ ops' = Append(ops, [opId |-> o, deviceId |-> d, aggregateId |-> a, dependencies |-> {},
                            bookEpoch |-> IF ~tracked THEN NoEpoch
                                         ELSE IF Known(d) THEN db[d].stateEpoch ELSE db[d].epoch,
                            deviceSequence |-> IF tracked THEN db[d].sequence ELSE 0,
                            baseRevision |-> db[d].revision[a], payload |-> "edit"])
     /\ outbox' = Append(outbox, IF ~tracked THEN "untracked"
                                 ELSE IF db[d].recovery = "required" THEN "quarantined"
                                 ELSE "pending")
     /\ db' = [db EXCEPT ![d].projection = @ \cup {o},
                         ![d].sequence = IF tracked THEN @ + 1 ELSE @]

\* The outbox with the work of d set aside, as markSyncRecoveryRequired leaves it.
Quarantine(box, d) ==
  [o \in DOMAIN box |->
     IF ops[o].deviceId = d /\ box[o] \in {"pending", "retryable"} THEN "quarantined" ELSE box[o]]

\* Variant: the decision is recorded, and no recovery is asked for.
DecidedInPlace(d, row, resolutionOpId) ==
  [db[d] EXCEPT !.rows = (@ \ {row}) \cup {[row EXCEPT !.status = "resolved"]},
                !.resolutions = @ \cup {[id |-> row.id, resolutionOpId |-> resolutionOpId,
                                         status |-> "pending"]}]

Decided(d, row, resolutionOpId) ==
  [db[d] EXCEPT !.recovery = "required",
                !.rows = (@ \ {row}) \cup {[row EXCEPT !.status = "resolved"]},
                !.resolutions = @ \cup {[id |-> row.id, resolutionOpId |-> resolutionOpId,
                                         status |-> "pending"]}]

\* Variant: the refused operation is left as it is.
GiveUpNothing(box, d, o) == box

\* The outbox once a decision is recorded: the refused operation is given up.
GiveUp(box, d, o) ==
  IF o \in Own(d) /\ box[o] = "conflict" THEN [box EXCEPT ![o] = "rejected"] ELSE box

\* resolveSyncConflict, keep_canonical.
DecideKeep(d, row) ==
  /\ row.status = "open" /\ db[d].epoch # NoEpoch
  /\ outbox' = Quarantine(GiveUp(outbox, d, row.op), d)
  /\ db' = [db EXCEPT ![d] = Decided(d, row, NoOp)]
  /\ UNCHANGED ops

\* Variant: the canonical revision is taken for known.
CorrectionBaseBare(row) == row.canonicalRevision

CorrectionBase(row) ==
  IF row.canonicalRevision = NoRevision THEN ops[row.op].baseRevision ELSE row.canonicalRevision

\* resolveSyncConflict, audited_correction: a new operation that depends on the
\* canonical one.  It is queued, not applied: the next install replays it.
DecideCorrect(d, row) ==
  LET o == Len(ops) + 1
  IN /\ row.status = "open" /\ db[d].epoch # NoEpoch
     /\ row.op \in Own(d) /\ o \in OpIds
     /\ ops' = Append(ops, [ops[row.op] EXCEPT
                 !.opId = o, !.bookEpoch = db[d].epoch, !.deviceSequence = db[d].sequence,
                 !.baseRevision = CorrectionBase(row),
                 !.dependencies = @ \cup ({row.canonicalOpId} \ {NoOp}), !.payload = "correction"])
     /\ outbox' = Append(Quarantine(GiveUp(outbox, d, row.op), d), "quarantined")
     /\ db' = [db EXCEPT ![d] = [Decided(d, row, o) EXCEPT !.sequence = @ + 1]]

-----------------------------------------------------------------------------
(* What the coordinator writes *)

\* markSyncRecoveryRequired, where no savepoint is open, is two statements: the
\* work is set aside, and sync is stopped.
SetAside(d) ==
  /\ outbox' = Quarantine(outbox, d)
  /\ UNCHANGED <<ops, db>>

StopSync(d) ==
  /\ db' = [db EXCEPT ![d].recovery = "required"]
  /\ UNCHANGED <<ops, outbox>>

\* resetV2AccountingData, in a savepoint of its own: the sync tables stay.
EmptyBooks(d) ==
  /\ db' = [db EXCEPT ![d].projection = {}]
  /\ UNCHANGED <<ops, outbox>>

Unapplied(d, page) == {x \in page.events : x.op.opId \notin db[d].applied}

\* Variant: an operation found in the outbox is applied once more.
ReplayedAll(d, page) == {x.op.opId : x \in Unapplied(d, page)}

\* An operation found in the outbox is not applied again: its effect is local.
Replayed(d, page) == {x.op.opId : x \in {y \in Unapplied(d, page) : y.op.opId \notin Own(d)}}

Applicable(O, projection) == \A o \in O : \A q \in projection \cup (O \ {o}) : ~Clash(o, q)

\* Variant: what is learnt of an aggregate is added to what is known of it.
RevisionsAdded(revision, E) ==
  [a \in Aggregates |-> revision[a] + MaxRevision({x \in E : x.op.aggregateId = a})]

RevisionsWith(revision, E) ==
  [a \in Aggregates |-> Larger(revision[a], MaxRevision({x \in E : x.op.aggregateId = a}))]

\* pullAndApply: the page, the cursor and the checkpoint in one savepoint.
ApplyPage(d, epoch, page) ==
  /\ Applicable(Replayed(d, page), db[d].projection)
  /\ db' = [db EXCEPT ![d].projection = @ \cup Replayed(d, page),
                      ![d].applied = @ \cup {x.op.opId : x \in Unapplied(d, page)},
                      ![d].revision = RevisionsWith(@, Unapplied(d, page)),
                      ![d].stateEpoch = epoch, ![d].cursor = page.cursor,
                      ![d].checkpoint = page.checkpointHash]
  /\ UNCHANGED <<ops, outbox>>

\* The page is rolled back and its first event that fails blocks the device.
BlockPage(d, page) ==
  \E x \in page.events :
    LET o == x.op.opId
        earlier == {y.op.opId : y \in {z \in page.events : z.bookSequence < x.bookSequence}}
        before == db[d].projection \cup (Replayed(d, page) \cap earlier)
        row == [id |-> 0, op |-> o, canonicalOpId |-> o,
                canonicalRevision |-> x.aggregateRevision, status |-> "open"]
    IN /\ o \in Replayed(d, page) /\ ~Applies(o, before)
       /\ Applicable(Replayed(d, page) \cap earlier, db[d].projection)
       /\ db' = [db EXCEPT ![d].rows = IF OpenRowsFor(d, o) # {} THEN @ ELSE @ \cup {row}]
       /\ UNCHANGED <<ops, outbox>>

\* An answer is settled by two statements: the operation is marked (SettleAccepted,
\* SettleFailed), and then its revision or its conflict is recorded.
SettleAccepted(o) ==
  /\ outbox' = [outbox EXCEPT ![o] = "accepted"]
  /\ UNCHANGED <<ops, db>>

\* bumpAcceptedRevision.
BumpRevision(d, o) ==
  /\ db' = [db EXCEPT ![d].revision[ops[o].aggregateId] = Larger(@, ops[o].baseRevision + 1)]
  /\ UNCHANGED <<ops, outbox>>

\* The row has this id already, and is not open: the insert fails.
RowTaken(d, o, id) == OpenRowsFor(d, o) = {} /\ \E r \in db[d].rows : r.id = id

\* recordConflict: no second open row for an operation.
RecordRow(d, o, id) ==
  LET row == [id |-> id, op |-> o, canonicalOpId |-> NoOp,
              canonicalRevision |-> NoRevision, status |-> "open"]
  IN /\ ~RowTaken(d, o, id)
     /\ db' = [db EXCEPT ![d].rows = IF OpenRowsFor(d, o) # {} THEN @ ELSE @ \cup {row}]
     /\ UNCHANGED <<ops, outbox>>

\* Variant: an error is taken for a refusal.
SettleFailedForGood(O, status) ==
  /\ outbox' = [o \in DOMAIN outbox |-> IF o \notin O THEN outbox[o]
                                       ELSE IF status = "retryable" THEN "rejected" ELSE status]
  /\ UNCHANGED <<ops, db>>

\* Variant: what was sent is taken for accepted.
SettleFailedAsSent(O, status) ==
  /\ outbox' = [o \in DOMAIN outbox |-> IF o \in O THEN "accepted" ELSE outbox[o]]
  /\ UNCHANGED <<ops, db>>

SettleFailed(O, status) ==
  /\ outbox' = [o \in DOMAIN outbox |-> IF o \in O THEN status ELSE outbox[o]]
  /\ UNCHANGED <<ops, db>>

\* The revision recordConflict stores with a conflict: that of its canonical
\* event, 0 when a base revision met an aggregate with no history.
CanonicalRevision(c) ==
  LET canonical == {x \in events : x.op.bookEpoch = c.op.bookEpoch /\ x.op.opId = c.canonicalOpId}
  IN IF canonical # {} THEN (CHOOSE x \in canonical : TRUE).aggregateRevision
     ELSE IF c.reason = "aggregate_revision_conflict" THEN 0 ELSE NoRevision

\* refreshServerConflicts: every conflict open on the server gets a row, or
\* its row the server's canonical side; the status of a row stays.
RefreshRows(d) ==
  LET open == {i \in DOMAIN conflicts : conflicts[i].status = "open"}
      known(i) == {r \in db[d].rows : r.id = i}
      row(i) == [id |-> i, op |-> conflicts[i].op.opId, canonicalOpId |-> conflicts[i].canonicalOpId,
                 canonicalRevision |-> CanonicalRevision(conflicts[i]),
                 status |-> IF known(i) = {} THEN "open" ELSE (CHOOSE r \in known(i) : TRUE).status]
  IN /\ db' = [db EXCEPT ![d].rows = {r \in @ : r.id \notin open} \cup {row(i) : i \in open}]
     /\ UNCHANGED <<ops, outbox>>

MarkSent(d, resolution) ==
  /\ db' = [db EXCEPT ![d].resolutions =
              (@ \ {resolution}) \cup {[resolution EXCEPT !.status = "sent"]}]
  /\ UNCHANGED <<ops, outbox>>

-----------------------------------------------------------------------------
(* What recovery writes *)

Changed(d, answer) == Known(d) /\ db[d].stateEpoch # answer.epoch

DataExists(answer) == answer.snapshotAvailable \/ answer.current >= answer.start

NeedsSnapshot(d, recovering, answer) ==
  DataExists(answer) /\ (Changed(d, answer) \/ ~Known(d) \/ recovering)

\* Variant: every enrollment starts the epoch over.
EnrolledCursorReset(d, answer) == answer.start - 1

EnrolledCursor(d, answer) ==
  IF Known(d) /\ ~Changed(d, answer) THEN db[d].cursor ELSE answer.start - 1

\* The first device of an epoch gets the hash of the empty history; a device
\* that is in the epoch already keeps what it has.
EnrolledCheckpoint(d, answer) ==
  IF Known(d) /\ ~Changed(d, answer) THEN db[d].checkpoint
  ELSE IF DataExists(answer) THEN NoHash ELSE {}

EnrolledRecovery(d, recovering, answer) ==
  IF NeedsSnapshot(d, recovering, answer) THEN "required"
  ELSE IF ~DataExists(answer) THEN "bootstrap" ELSE "none"

\* enrollSyncDevice after its answer, statement by statement: the profile, what is
\* set aside, closed and given up with an epoch that ended, and the book state.
\* `recovering` was read before the request; the state that `Changed` and the last
\* statement speak of is written by the last only.
WriteProfile(d, recovering, answer) ==
  /\ db' = [db EXCEPT ![d].epoch = answer.epoch,
                      ![d].recovery = EnrolledRecovery(d, recovering, answer)]
  /\ UNCHANGED <<ops, outbox>>

SetOldAside(d, answer) ==
  LET aside(o) == /\ o \in Own(d) /\ ops[o].bookEpoch # answer.epoch
                  /\ outbox[o] \in {"pending", "retryable", "conflict"}
  IN /\ outbox' = [o \in DOMAIN outbox |-> IF aside(o) THEN "quarantined" ELSE outbox[o]]
     /\ UNCHANGED <<ops, db>>

IgnoreRows(d) ==
  /\ db' = [db EXCEPT ![d].rows =
              {IF r.status = "open" THEN [r EXCEPT !.status = "ignored"] ELSE r : r \in @}]
  /\ UNCHANGED <<ops, outbox>>

RejectResolutions(d) ==
  /\ db' = [db EXCEPT ![d].resolutions =
              {IF r.status = "pending" THEN [r EXCEPT !.status = "rejected"] ELSE r : r \in @}]
  /\ UNCHANGED <<ops, outbox>>

WriteState(d, answer) ==
  /\ db' = [db EXCEPT ![d] = [@ EXCEPT !.stateEpoch = answer.epoch,
              !.cursor = EnrolledCursor(d, answer), !.checkpoint = EnrolledCheckpoint(d, answer)]]
  /\ UNCHANGED <<ops, outbox>>

\* What publishServerSnapshot refuses to publish over.
Unsettled(d) ==
  \/ OfEpoch(InStatus(d, {"pending", "retryable", "conflict", "quarantined"}), db[d].stateEpoch) # {}
  \/ \E r \in db[d].rows : r.status = "open"

FinishBootstrap(d) ==
  /\ db' = [db EXCEPT ![d].recovery = "none"]
  /\ UNCHANGED <<ops, outbox>>

\* Work of the snapshot's epoch that installServerSnapshot makes replayable.
Preserved(d, epoch) == OfEpoch(InStatus(d, {"pending", "retryable", "quarantined"}), epoch)

CanonicalIds(tail) == {x.op.opId : x \in tail}

\* The canonical events, then the preserved work, can be applied to the snapshot.
Replayable(d, snapshot, tail) ==
  /\ snapshot.payload \cap CanonicalIds(tail) = {}
  /\ (snapshot.payload \cup CanonicalIds(tail)) \cap Preserved(d, snapshot.bookEpoch) = {}
  /\ Applicable(CanonicalIds(tail) \cup Preserved(d, snapshot.bookEpoch), snapshot.payload)

\* Variant: the events after the snapshot are counted, not replayed.
InstalledWithoutTail(d, snapshot, tail) == snapshot.payload \cup Preserved(d, snapshot.bookEpoch)

InstalledProjection(d, snapshot, tail) ==
  snapshot.payload \cup CanonicalIds(tail) \cup Preserved(d, snapshot.bookEpoch)

\* The savepoint of installServerSnapshot.
InstallSnapshot(d, snapshot, tail, cursor, hash) ==
  /\ Replayable(d, snapshot, tail)
  /\ outbox' = [o \in DOMAIN outbox |->
                  IF o \in Preserved(d, snapshot.bookEpoch) THEN "pending" ELSE outbox[o]]
  /\ db' = [db EXCEPT ![d] = [@ EXCEPT
       !.recovery = "none", !.stateEpoch = snapshot.bookEpoch,
       !.cursor = cursor, !.checkpoint = hash,
       !.revision = RevisionsWith(snapshot.aggregateRevisions, tail),
       !.applied = CanonicalIds(tail),
       !.projection = InstalledProjection(d, snapshot, tail)]]
  /\ UNCHANGED ops

\* advanceSyncEpoch after SetAside and StopSync: the profile, then the book state.
RenameEpoch(d, epoch) ==
  /\ db' = [db EXCEPT ![d].epoch = epoch]
  /\ UNCHANGED <<ops, outbox>>

\* Variant: the checkpoint of the epoch that ends is kept.
RestartStateKeepingHash(d, epoch, start) ==
  /\ db' = [db EXCEPT ![d] = [@ EXCEPT !.stateEpoch = epoch, !.cursor = start - 1]]
  /\ UNCHANGED <<ops, outbox>>

RestartState(d, epoch, start) ==
  /\ db' = [db EXCEPT ![d] = [@ EXCEPT !.stateEpoch = epoch, !.cursor = start - 1,
                                       !.checkpoint = NoHash]]
  /\ UNCHANGED <<ops, outbox>>
=============================================================================
