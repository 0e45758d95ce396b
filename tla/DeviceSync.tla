------------------------------ MODULE DeviceSync ----------------------------
(***************************************************************************)
(* The devices of a book and its server together: the coordinator and the  *)
(* recovery tasks of frontend/src/sync run on each device, make requests   *)
(* that the handlers of sync-server/src/server.ts serve with the store's   *)
(* transactions, and may be cut off at any point.                          *)
(*                                                                         *)
(* A device runs at most one task: the sync screen disables its buttons    *)
(* while one runs, and syncNow joins a run that is active (bound: the user *)
(* does not reopen the screen meanwhile, which forgets the first).  Local  *)
(* changes and decisions come from other screens, at any moment.           *)
(***************************************************************************)
EXTENDS DeviceTables

CONSTANTS
  Verdicts,      \* what the arbitrator may say of an operation it has not seen
  Scenarios      \* the scenarios by name: what the user of each device does, the
                 \* aggregates changed, and the bounds on operations and faults (lost
                 \* answers, interrupted tasks, failed appends)

Kinds == {"mutate", "sync", "retry", "keep", "correct", "clear", "enroll",
          "publish", "install", "advance"}

ASSUME VerdictsAssumption == Verdicts \subseteq Verdict /\ "ok" \in Verdicts
ASSUME ScenariosAssumption ==
  \A n \in DOMAIN Scenarios :
    Scenarios[n] \in [acts: [Devices -> SUBSET Kinds], aggregates: SUBSET Aggregates,
                     operations: Nat, faults: Nat]

VARIABLES
  enrolled,      \* sync_devices: the epoch a device may act in, NoEpoch when revoked
  task,          \* what runs on each device
  clearing,      \* how far clearAccountingData came on each device; "emptied" until the
                 \* next installation
  orphans,       \* operations left in push handlers whose client has gone
  faults,        \* faults still to come
  scenario       \* the name of the scenario, which never changes

vars == <<storeVars, deviceVars, enrolled, task, clearing, orphans, faults, scenario>>

Now == Scenarios[scenario]

Idle == [step |-> "idle"]

\* PostgresBookAuthorizer.authorize: enrolled, not revoked, in the book's epoch.
Authorized(d) == bookEpoch # NoEpoch /\ enrolled[d] = bookEpoch

May(d, kind) == kind \in Now.acts[d]

\* Bound: no further operation is issued when the scenario's number is reached.
Room == Len(ops) < Now.operations

Cursor == [epoch: Epochs, cursor: Nat]

Page == [bookEpoch: Epochs, events: SUBSET Event, cursor: Nat, hasMore: BOOLEAN,
         checkpointHash: SUBSET Event]

Answer == [op: OpIds, status: {"accepted", "conflict", "rejected", "retryable"}, id: Nat]

EnrollAnswer == [epoch: Epochs, start: Nat \ {0}, current: Nat, snapshotAvailable: BOOLEAN]

\* What a task holds between two of its steps.
PullTask == [step: {"pull", "granted"}, pass: 1 .. 2, state: Cursor]
PageTask == [step: {"page"}, pass: 1 .. 2, state: Cursor, page: Page]
StopTask == [step: {"stop"}]
StateTask == [step: {"push", "refresh"}, state: Cursor]
PushTask == [step: {"pushing"}, state: Cursor, batch: SUBSET OpIds, todo: Seq(OpIds),
             accepted: Seq(Answer), others: Seq(Answer)]
SettleTask == [step: {"settle", "record"}, state: Cursor, batch: SUBSET OpIds, answers: Seq(Answer)]
FlushTask == [step: {"flush"}, state: Cursor, todo: SUBSET Resolution]
EnrollTask == [step: {"enrolling", "setting aside", "ignoring", "rejecting", "stating"},
               recovering: BOOLEAN, answer: EnrollAnswer]
PublishTask == [step: {"publishing", "published"}, epoch: Epochs, cursor: Nat,
                checkpoint: SUBSET Event, bootstrap: BOOLEAN]
InstallTask == [step: {"installing"}, snapshot: Snapshot, tail: SUBSET Event, cursor: Nat,
                hash: SUBSET Event, more: BOOLEAN]
AdvanceTask == [step: {"advancing", "stopping", "renaming", "restarting"}, epoch: Epochs, start: Nat \ {0}]

Task ==
  {Idle} \cup PullTask \cup PageTask \cup StopTask \cup StateTask \cup PushTask \cup SettleTask
    \cup FlushTask \cup EnrollTask \cup PublishTask \cup InstallTask \cup AdvanceTask

\* One type invariant for the tables of the server and of every device.
TypeOK ==
  /\ StoreTypeOK
  /\ DeviceTypeOK
  /\ enrolled \in [Devices -> Epochs \cup {NoEpoch}]
  /\ task \in [Devices -> Task]
  /\ clearing \in [Devices -> {"no", "stop", "empty", "emptied"}]
  /\ orphans \subseteq Seq(OpIds)
  /\ scenario \in DOMAIN Scenarios /\ faults \in 0 .. Now.faults

Init ==
  /\ StoreInit /\ DeviceInit
  /\ enrolled = [d \in Devices |-> NoEpoch]
  /\ task = [d \in Devices |-> Idle]
  /\ clearing = [d \in Devices |-> "no"]
  /\ orphans = {}
  /\ scenario \in DOMAIN Scenarios /\ faults = Now.faults

Goto(d, t) == task' = [task EXCEPT ![d] = t]

GoOn(d, step) == Goto(d, [task[d] EXCEPT !.step = step])

Fault == faults > 0 /\ faults' = faults - 1

Fine == UNCHANGED faults

-----------------------------------------------------------------------------
(* Other screens *)

Change(d) ==
  /\ May(d, "mutate") /\ Room
  /\ \E a \in Now.aggregates : Mutate(d, a)
  /\ UNCHANGED <<storeVars, enrolled, task, orphans, faults>>

Decide(d) ==
  /\ \E row \in db[d].rows : \/ May(d, "keep") /\ DecideKeep(d, row)
                             \/ May(d, "correct") /\ Room /\ DecideCorrect(d, row)
  /\ UNCHANGED <<storeVars, enrolled, task, orphans, faults>>

\* clearAccountingData, which asks nothing of the tasks that run.
\* Bound: emptied books are filled again before they are cleared again.
Clear(d) ==
  /\ \/ /\ May(d, "clear") /\ clearing[d] = "no"
        /\ SetAside(d) /\ clearing' = [clearing EXCEPT ![d] = "stop"]
     \/ /\ clearing[d] = "stop"
        /\ StopSync(d) /\ clearing' = [clearing EXCEPT ![d] = "empty"]
     \/ /\ clearing[d] = "empty"
        /\ EmptyBooks(d) /\ clearing' = [clearing EXCEPT ![d] = "emptied"]
  /\ UNCHANGED <<storeVars, enrolled, task, orphans, faults>>

-----------------------------------------------------------------------------
(* syncNow: pull, push, settle, refresh conflicts, flush decisions, pull *)

Pulling(d, pass, state) == [step |-> "pull", pass |-> pass, state |-> state]

StartSync(d) ==
  /\ task[d] = Idle /\ Enabled(d)
  /\ \/ May(d, "sync") /\ UNCHANGED deviceVars
     \/ May(d, "retry") /\ SettleFailed(OfEpoch(InStatus(d, {"retryable"}), db[d].epoch), "pending")
  /\ Goto(d, Pulling(d, 1, [epoch |-> db[d].stateEpoch, cursor |-> db[d].cursor]))
  /\ UNCHANGED <<storeVars, enrolled, orphans, faults>>

\* The pull handler authorizes, then reads in a transaction of its own.
AuthorizePull(d) ==
  /\ task[d].step = "pull"
  /\ Goto(d, IF Authorized(d) THEN [task[d] EXCEPT !.step = "granted"] ELSE Idle)
  /\ UNCHANGED <<storeVars, deviceVars, enrolled, orphans, faults>>

ServePull(d) ==
  /\ task[d].step = "granted"
  /\ Pull(task[d].state.cursor)
  /\ Goto(d, [step |-> "page", pass |-> task[d].pass, state |-> task[d].state,
              page |-> PullPage(task[d].state.cursor)])
  /\ UNCHANGED <<deviceVars, enrolled, orphans, faults>>

\* Variant: the next page is asked for with the cursor of this one.
AfterPageAgain(d) ==
  IF task[d].page.hasMore THEN Pulling(d, task[d].pass, task[d].state)
  ELSE IF task[d].pass = 1 THEN [step |-> "push", state |-> task[d].state]
  ELSE Idle

\* What syncNow goes on with once a page is applied.
AfterPage(d) ==
  LET state == [task[d].state EXCEPT !.cursor = task[d].page.cursor]
  IN IF task[d].page.hasMore THEN Pulling(d, task[d].pass, state)
     ELSE IF task[d].pass = 1 THEN [step |-> "push", state |-> state]
     ELSE Idle

ReceivePage(d) ==
  /\ task[d].step = "page"
  /\ \/ /\ task[d].page.bookEpoch # task[d].state.epoch
        /\ SetAside(d) /\ Goto(d, [step |-> "stop"])
     \/ /\ task[d].page.bookEpoch = task[d].state.epoch
        /\ ApplyPage(d, task[d].state.epoch, task[d].page) /\ Goto(d, AfterPage(d))
     \/ /\ task[d].page.bookEpoch = task[d].state.epoch
        /\ BlockPage(d, task[d].page) /\ Goto(d, Idle)
  /\ UNCHANGED <<storeVars, enrolled, orphans, faults>>

\* The second statement of markSyncRecoveryRequired.
Stop(d) ==
  /\ task[d].step = "stop"
  /\ StopSync(d) /\ Goto(d, Idle)
  /\ UNCHANGED <<storeVars, enrolled, orphans, faults>>

InSequence(O) ==
  CHOOSE s \in [1 .. Cardinality(O) -> O] :
    \A i, j \in 1 .. Cardinality(O) : i < j => ops[s[i]].deviceSequence < ops[s[j]].deviceSequence

\* Of the retryable operations some are due: next_retry_at has passed.
StartPush(d) ==
  /\ task[d].step = "push"
  /\ \E due \in SUBSET OfEpoch(InStatus(d, {"retryable"}), task[d].state.epoch) :
       LET ready == OfEpoch(InStatus(d, {"pending"}), task[d].state.epoch) \cup due
           batch == FirstBySequence(ready, PushLimit)
           skip == [step |-> "refresh", state |-> task[d].state]
       IN \/ batch = {} /\ Goto(d, skip) /\ UNCHANGED deviceVars
          \/ batch # {} /\ ~Authorized(d) /\ Goto(d, skip) /\ SettleFailed(batch, "retryable")
          \/ /\ batch # {} /\ Authorized(d) /\ UNCHANGED deviceVars
             /\ Goto(d, [step |-> "pushing", state |-> task[d].state, batch |-> batch,
                         todo |-> InSequence(batch), accepted |-> <<>>, others |-> <<>>])
  /\ UNCHANGED <<storeVars, enrolled, orphans, faults>>

\* How the push handler answers a refusal.
StatusOf(reason) ==
  CASE reason = "dependency_missing" -> "retryable"
    [] reason = "INVALID_ACCOUNTING_COMMAND" -> "rejected"
    [] OTHER -> "conflict"

\* The handler appends one operation and keeps its answer.
HandleNext(d) ==
  LET o == Head(task[d].todo)
      rest == Tail(task[d].todo)
  IN /\ task[d].step = "pushing" /\ task[d].todo # <<>>
     /\ \/ /\ \E v \in Verdicts : Accept(ops[o], v)
           /\ Goto(d, [task[d] EXCEPT !.todo = rest,
                !.accepted = Append(@, [op |-> o, status |-> "accepted", id |-> 0])])
           /\ Fine
        \/ \E v \in Verdicts :
             /\ Refusal(ops[o], v) # ""
             /\ RecordConflict(EvidenceOf(ops[o], v))
             /\ \E i \in DOMAIN conflicts' :
                  /\ conflicts'[i].status = "open" /\ conflicts'[i].reason = Refusal(ops[o], v)
                  /\ conflicts'[i].op = ops[o]
                  /\ Goto(d, [task[d] EXCEPT !.todo = rest,
                       !.others = Append(@, [op |-> o, status |-> StatusOf(Refusal(ops[o], v)), id |-> i])])
             /\ Fine
        \/ /\ Fault
           /\ Goto(d, [task[d] EXCEPT !.todo = rest,
                !.others = Append(@, [op |-> o, status |-> "retryable", id |-> 0])])
           /\ UNCHANGED storeVars
     /\ UNCHANGED <<deviceVars, enrolled, orphans>>

\* A handler whose client has gone finishes its loop all the same.
HandleOrphan(todo) ==
  LET o == Head(todo)
  IN /\ \E v \in Verdicts : \/ Accept(ops[o], v)
                            \/ Refusal(ops[o], v) # "" /\ RecordConflict(EvidenceOf(ops[o], v))
     /\ orphans' = (orphans \ {todo}) \cup (IF Len(todo) > 1 THEN {Tail(todo)} ELSE {})
     /\ UNCHANGED <<deviceVars, enrolled, task, faults>>

ReceiveAnswers(d) ==
  /\ task[d].step = "pushing" /\ task[d].todo = <<>>
  /\ Goto(d, [step |-> "settle", state |-> task[d].state, batch |-> task[d].batch,
              answers |-> task[d].accepted \o task[d].others])
  /\ UNCHANGED <<storeVars, deviceVars, enrolled, orphans, faults>>

Orphaned(d) ==
  IF task[d].step = "pushing" /\ task[d].todo # <<>> THEN orphans \cup {task[d].todo} ELSE orphans

\* The answer is lost: every operation of the batch is to be retried.
LoseAnswers(d) ==
  /\ task[d].step = "pushing" /\ Fault
  /\ SettleFailed(task[d].batch, "retryable")
  /\ orphans' = Orphaned(d)
  /\ Goto(d, [step |-> "refresh", state |-> task[d].state])
  /\ UNCHANGED <<storeVars, enrolled>>

\* The answers that are left once the first is settled.
Settled(d) == [task[d] EXCEPT !.step = "settle", !.answers = Tail(@)]

\* One answer at a time: what it says of the operation, and then what follows.
Settle(d) ==
  LET answer == Head(task[d].answers)
  IN /\ task[d].step = "settle" /\ task[d].answers # <<>>
     /\ \/ answer.status = "accepted" /\ SettleAccepted(answer.op) /\ GoOn(d, "record")
        \/ answer.status = "conflict" /\ SettleFailed({answer.op}, "conflict") /\ GoOn(d, "record")
        \/ /\ answer.status \in {"rejected", "retryable"}
           /\ SettleFailed({answer.op}, answer.status) /\ Goto(d, Settled(d))
     /\ UNCHANGED <<storeVars, enrolled, orphans, faults>>

\* An error sends the whole batch back to be retried.
Record(d) ==
  LET answer == Head(task[d].answers)
  IN /\ task[d].step = "record"
     /\ \/ answer.status = "accepted" /\ BumpRevision(d, answer.op) /\ Goto(d, Settled(d))
        \/ answer.status = "conflict" /\ RecordRow(d, answer.op, answer.id) /\ Goto(d, Settled(d))
        \/ /\ answer.status = "conflict" /\ RowTaken(d, answer.op, answer.id)
           /\ SettleFailed(task[d].batch, "retryable")
           /\ Goto(d, [Settled(d) EXCEPT !.answers = <<>>])
     /\ UNCHANGED <<storeVars, enrolled, orphans, faults>>

\* A failed refresh is left to the next sync.
Refresh(d) ==
  /\ \/ task[d].step = "refresh"
     \/ task[d].step = "settle" /\ task[d].answers = <<>>
  /\ \/ Authorized(d) /\ RefreshRows(d) /\ Fine
     \/ ~Authorized(d) /\ UNCHANGED deviceVars /\ Fine
     \/ Authorized(d) /\ UNCHANGED deviceVars /\ Fault
  /\ Goto(d, [step |-> "flush", state |-> task[d].state,
              todo |-> {r \in db[d].resolutions : r.status = "pending"}])
  /\ UNCHANGED <<storeVars, enrolled, orphans>>

\* The resolve handler: the decision, or the event that carries it.
Deliver(r) ==
  IF r.resolutionOpId = NoOp THEN KeepCanonical(r.id)
  ELSE \E x \in events : x.op.opId = r.resolutionOpId /\ ResolveWith(r.id, x)

Refused(r) ==
  /\ r.resolutionOpId # NoOp
  /\ ~\E x \in events : /\ x.op.opId = r.resolutionOpId /\ x.op.bookEpoch = bookEpoch
                        /\ Resolves(x, conflicts[r.id])

\* One decision: local ones are done; the others are sent, and stay pending
\* when the server refuses them, cannot be asked, or its answer is lost.
Flush(d) ==
  /\ task[d].step = "flush"
  /\ \E r \in task[d].todo :
       /\ \/ r.id = 0 /\ MarkSent(d, r) /\ UNCHANGED storeVars /\ Fine
          \/ r.id # 0 /\ Authorized(d) /\ Deliver(r) /\ MarkSent(d, r) /\ Fine
          \/ r.id # 0 /\ Authorized(d) /\ Deliver(r) /\ UNCHANGED deviceVars /\ Fault
          \/ r.id # 0 /\ (~Authorized(d) \/ Refused(r)) /\ UNCHANGED <<storeVars, deviceVars>> /\ Fine
       /\ Goto(d, [task[d] EXCEPT !.todo = @ \ {r}])
  /\ UNCHANGED <<enrolled, orphans>>

PullAgain(d) ==
  /\ task[d].step = "flush" /\ task[d].todo = {}
  /\ Goto(d, Pulling(d, 2, task[d].state))
  /\ UNCHANGED <<storeVars, deviceVars, enrolled, orphans, faults>>

SyncStep(d) ==
  \/ AuthorizePull(d) \/ ServePull(d) \/ ReceivePage(d) \/ Stop(d) \/ StartPush(d) \/ HandleNext(d)
  \/ ReceiveAnswers(d) \/ Settle(d) \/ Record(d) \/ Refresh(d) \/ Flush(d) \/ PullAgain(d)

-----------------------------------------------------------------------------
(* Enrollment and recovery *)

\* The enroll handler: the book is created when there is none.
RequestEnrollment(d) ==
  /\ task[d] = Idle /\ May(d, "enroll")
  /\ \/ \E e \in Epochs : CreateBook(e)
     \/ bookEpoch # NoEpoch /\ UNCHANGED storeVars
  /\ enrolled' = [enrolled EXCEPT ![d] = bookEpoch']
  /\ Goto(d, [step |-> "enrolling", recovering |-> db[d].recovery # "none",
              answer |-> [epoch |-> bookEpoch', start |-> epochs'[bookEpoch'].start,
                          current |-> nextSequence - 1,
                          snapshotAvailable |-> \E i \in DOMAIN snapshots :
                                                  snapshots[i].bookEpoch = bookEpoch']])
  /\ UNCHANGED <<deviceVars, orphans, faults>>

\* What the client writes of the answer, one statement after the other.
Enroll(d) ==
  LET answer == task[d].answer
  IN /\ \/ /\ task[d].step = "enrolling" /\ WriteProfile(d, task[d].recovering, answer)
           /\ GoOn(d, IF Changed(d, answer) THEN "setting aside" ELSE "stating")
        \/ task[d].step = "setting aside" /\ SetOldAside(d, answer) /\ GoOn(d, "ignoring")
        \/ task[d].step = "ignoring" /\ IgnoreRows(d) /\ GoOn(d, "rejecting")
        \/ task[d].step = "rejecting" /\ RejectResolutions(d) /\ GoOn(d, "stating")
        \/ task[d].step = "stating" /\ WriteState(d, answer) /\ Goto(d, Idle)
     /\ UNCHANGED <<storeVars, enrolled, orphans, faults>>

\* publishServerSnapshot reads its profile and state once, before it exports.
StartPublish(d) ==
  /\ task[d] = Idle /\ May(d, "publish")
  /\ Enabled(d) \/ db[d].recovery = "bootstrap"
  /\ db[d].checkpoint # NoHash /\ db[d].stateEpoch = db[d].epoch
  /\ ~Unsettled(d)
  /\ Goto(d, [step |-> "publishing", epoch |-> db[d].stateEpoch, cursor |-> db[d].cursor,
              checkpoint |-> db[d].checkpoint, bootstrap |-> db[d].recovery = "bootstrap"])
  /\ UNCHANGED <<storeVars, deviceVars, enrolled, orphans, faults>>

Upload(d) ==
  /\ task[d].step = "publishing"
  /\ \/ /\ Authorized(d)
        /\ SaveSnapshot(task[d].epoch, task[d].cursor, db[d].projection, task[d].checkpoint)
        /\ Goto(d, [task[d] EXCEPT !.step = "published"])
     \/ /\ ~(Authorized(d) /\ task[d].epoch = bookEpoch)
        /\ Goto(d, Idle) /\ UNCHANGED storeVars
  /\ UNCHANGED <<deviceVars, enrolled, orphans, faults>>

FinishPublish(d) ==
  /\ task[d].step = "published"
  /\ IF task[d].bootstrap THEN FinishBootstrap(d) ELSE UNCHANGED deviceVars
  /\ Goto(d, Idle)
  /\ UNCHANGED <<storeVars, enrolled, orphans, faults>>

\* installServerSnapshot: the snapshot, the pages after it, one savepoint.
FetchSnapshot(d) ==
  /\ task[d] = Idle /\ May(d, "install")
  /\ db[d].recovery = "required" /\ Authorized(d)
  /\ \E i \in LatestSnapshots(bookEpoch) :
       /\ db[d].epoch = snapshots[i].bookEpoch
       /\ Goto(d, [step |-> "installing", snapshot |-> snapshots[i], tail |-> {}, more |-> TRUE,
                   cursor |-> snapshots[i].throughSequence,
                   hash |-> EventsThrough(bookEpoch, snapshots[i].throughSequence)])
  /\ UNCHANGED <<storeVars, deviceVars, enrolled, orphans, faults>>

\* Variant: a page takes the place of those before it.
WithLastPage(t, page) ==
  [t EXCEPT !.tail = page.events, !.cursor = page.cursor,
            !.hash = page.checkpointHash, !.more = page.hasMore]

WithPage(t, page) ==
  [t EXCEPT !.tail = @ \cup page.events, !.cursor = page.cursor,
            !.hash = page.checkpointHash, !.more = page.hasMore]

FetchTail(d) ==
  /\ task[d].step = "installing" /\ task[d].more
  /\ \/ /\ Authorized(d) /\ task[d].snapshot.bookEpoch = bookEpoch
        /\ Pull(task[d].cursor)
        /\ Goto(d, WithPage(task[d], PullPage(task[d].cursor)))
     \/ /\ ~(Authorized(d) /\ task[d].snapshot.bookEpoch = bookEpoch)
        /\ Goto(d, Idle) /\ UNCHANGED storeVars
  /\ UNCHANGED <<deviceVars, enrolled, orphans, faults>>

ReadyToInstall(d) == task[d].step = "installing" /\ ~task[d].more

\* The rollback of an installation that cannot be replayed changes nothing.
Install(d) ==
  /\ ReadyToInstall(d)
  /\ \/ /\ InstallSnapshot(d, task[d].snapshot, task[d].tail, task[d].cursor, task[d].hash)
        /\ clearing' = [clearing EXCEPT ![d] = IF @ = "emptied" THEN "no" ELSE @]
     \/ /\ ~Replayable(d, task[d].snapshot, task[d].tail)
        /\ UNCHANGED <<deviceVars, clearing>>
  /\ Goto(d, Idle)
  /\ UNCHANGED <<storeVars, enrolled, orphans, faults>>

\* Offered to a device in recovery; the store revokes every device.
RequestAdvance(d) ==
  /\ task[d] = Idle /\ May(d, "advance")
  /\ db[d].recovery = "required" /\ Authorized(d)
  /\ \E e \in Epochs :
       /\ AdvanceEpoch(db[d].epoch, e)
       /\ Goto(d, [step |-> "advancing", epoch |-> e, start |-> nextSequence])
  /\ enrolled' = [c \in Devices |-> NoEpoch]
  /\ UNCHANGED <<deviceVars, orphans, faults>>

\* What its client writes of the answer: markSyncRecoveryRequired, and the new epoch.
Advance(d) ==
  /\ \/ task[d].step = "advancing" /\ SetAside(d) /\ GoOn(d, "stopping")
     \/ task[d].step = "stopping" /\ StopSync(d) /\ GoOn(d, "renaming")
     \/ task[d].step = "renaming" /\ RenameEpoch(d, task[d].epoch) /\ GoOn(d, "restarting")
     \/ task[d].step = "restarting" /\ RestartState(d, task[d].epoch, task[d].start) /\ Goto(d, Idle)
  /\ UNCHANGED <<storeVars, enrolled, orphans, faults>>

RecoveryStep(d) ==
  \/ Enroll(d) \/ Upload(d) \/ FinishPublish(d) \/ FetchTail(d) \/ Advance(d)

-----------------------------------------------------------------------------

\* A request of the task fails, or the app is killed, in the middle of a clear too.
Interrupt(d) ==
  /\ Fault
  /\ \/ task[d] # Idle /\ UNCHANGED clearing
     \/ clearing[d] \in {"stop", "empty"} /\ clearing' = [clearing EXCEPT ![d] = "no"]
  /\ orphans' = Orphaned(d)
  /\ Goto(d, Idle)
  /\ UNCHANGED <<storeVars, deviceVars, enrolled>>

Next ==
  /\ UNCHANGED scenario
  /\ \/ /\ UNCHANGED clearing
        /\ \/ \E d \in Devices :
                \/ Change(d) \/ Decide(d) \/ StartSync(d) \/ SyncStep(d) \/ LoseAnswers(d)
                \/ RequestEnrollment(d) \/ StartPublish(d) \/ FetchSnapshot(d)
                \/ RequestAdvance(d) \/ RecoveryStep(d)
           \/ \E todo \in orphans : HandleOrphan(todo)
     \/ \E d \in Devices : Clear(d) \/ Install(d) \/ Interrupt(d)

Spec == Init /\ [][Next]_vars

\* A task goes on: the event loop runs it, and a request is answered or fails.
Fairness ==
  \A d \in Devices :
    WF_vars((((SyncStep(d) \/ RecoveryStep(d)) /\ UNCHANGED clearing) \/ Install(d)) /\ UNCHANGED scenario)

FairSpec == Spec /\ Fairness

-----------------------------------------------------------------------------
(* Properties *)

InHistory(o) == \E x \in events : x.op.opId = o /\ x.op.bookEpoch = ops[o].bookEpoch

\* What a device calls accepted is in the canonical log, whatever answers were
\* lost and retried, and whichever handlers were still running
\* (coordinator.ts:386-447, server.ts:420-450).
AcceptedInHistory == \A o \in DOMAIN ops : outbox[o] = "accepted" => InHistory(o)

\* What a device gives up or asks its user about is not in the log, though the
\* operation may have been sent more than once (coordinator.ts:400-447,
\* conflicts.ts:127-133).
RefusedNotInHistory ==
  \A o \in DOMAIN ops : outbox[o] \in {"conflict", "rejected"} => ~InHistory(o)

\* Unless it asks for recovery, a device has in its books the effect of every
\* canonical event at or below the cursor of its epoch: by a pull, by its own change,
\* by a snapshot or by the replay after it (coordinator.ts:262-301, recovery.ts:150-185).
CursorCovered ==
  \A d \in Devices : db[d].recovery # "required" /\ db[d].stateEpoch = db[d].epoch =>
    \A x \in EventsThrough(db[d].stateEpoch, db[d].cursor) : x.op.opId \in db[d].projection

\* Founding, joining, replacing an epoch and recovering lose nothing either, as
\* long as no device's books are empty from a clear (recovery.ts:63-215).
CoveredUnlessEmptied == (\A d \in Devices : clearing[d] # "emptied") => CursorCovered

\* The checkpoint a device holds is the hash of the canonical prefix that ends
\* at its cursor, so a verification compares like with like, and a snapshot it
\* publishes is not refused (coordinator.ts:292-299, recovery.ts:145, 183).
CheckpointHeld ==
  \A d \in Devices : db[d].checkpoint # NoHash =>
    db[d].checkpoint = EventsThrough(db[d].stateEpoch, db[d].cursor)

\* The conflict of an operation is marked, and its row about to be recorded.
BeingRecorded(o) ==
  LET t == task[ops[o].deviceId]
  IN t.step = "record" /\ Head(t.answers).op = o /\ Head(t.answers).status = "conflict"

\* An operation in conflict asks its user for a decision: it has an open row, or one
\* is being recorded.
Asked(o) ==
  outbox[o] = "conflict" => OpenRowsFor(ops[o].deviceId, o) # {} \/ BeingRecorded(o)

\* Decisions, refreshes, enrollments and retries never leave an operation in
\* conflict that its user was asked about without a row to decide it by: only an
\* app killed between the two statements that record it can
\* (coordinator.ts:425, conflicts.ts:120-162, recovery.ts:76-80).
OnlyKillsStrand ==
  [][ \A o \in DOMAIN ops :
        Asked(o) /\ ~Asked(o)' =>
          BeingRecorded(o) /\ Interrupt(ops[o].deviceId) ]_vars

\* A page never meets an operation whose effect the device has already: every
\* operation is applied once, though it arrives by several ways, and a page is
\* blocked only where two commands exclude each other (coordinator.ts:275-281).
AppliedOnce ==
  \A d \in Devices : \A r \in db[d].rows : r.id = 0 => ops[r.op].aggregateId \in Exclusive

\* All of the device's work is decided, and it has seen all of the history.
AtRest(d) ==
  /\ task[d] = Idle /\ Enabled(d)
  /\ InStatus(d, {"pending", "retryable", "quarantined", "conflict"}) = {}
  /\ \A r \in db[d].rows : r.status # "open"
  /\ db[d].stateEpoch = bookEpoch /\ db[d].cursor = nextSequence - 1

\* Devices at rest hold the same books, whatever was changed offline, refused,
\* decided, lost and recovered on the way (docs/sync/README.md:218-222).
Agreement ==
  \A c, d \in Devices : AtRest(c) /\ AtRest(d) => db[c].projection = db[d].projection

\* Within an epoch a device never forgets history it has seen
\* (coordinator.ts:289-291, recovery.ts:142-144).
CursorForward ==
  [][ \A d \in Devices :
        db'[d].stateEpoch = db[d].stateEpoch => db'[d].cursor >= db[d].cursor ]_vars

\* Every sync, enrollment, publication and recovery comes to an end, with
\* pages, retries and other devices' work in between (coordinator.ts:313-320).
EveryTaskEnds == \A d \in Devices : task[d] # Idle ~> task[d] = Idle

\* A device's idea of an aggregate's revision is never ahead of the history: an
\* edit of what nobody else has changed is accepted (coordinator.ts:203-210).
RevisionsKnown ==
  \A d \in Devices : db[d].stateEpoch = bookEpoch /\ Enabled(d) =>
    \A a \in Aggregates : db[d].revision[a] <= CurrentRevision(a)

\* A device that is told to publish the first snapshot of an epoch holds the
\* checkpoint it needs to do so (sync-settings.tsx:434, recovery.ts:105).
BootstrapPublishes ==
  \A d \in Devices : db[d].recovery = "bootstrap" /\ Authorized(d) /\ task[d] = Idle =>
    db[d].checkpoint # NoHash

\* Sequential edits of one device never conflict with each other
\* (coordinator.ts:391-396).
NoSelfConflict ==
  \A i \in DOMAIN conflicts :
    conflicts[i].reason = "aggregate_revision_conflict" /\ conflicts[i].canonicalOpId # NoOp
      => ops[conflicts[i].canonicalOpId].deviceId # conflicts[i].op.deviceId

\* A prepared recovery can always be installed: replaying preserved work on top
\* of the canonical state never fails (docs/sync/README.md:56, 222).
RecoveryInstalls ==
  \A d \in Devices : ReadyToInstall(d) => Replayable(d, task[d].snapshot, task[d].tail)
=============================================================================
