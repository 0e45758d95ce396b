-------------------------- MODULE DeviceWorkProofs -------------------------
(***************************************************************************)
(* What a device remembers of the log between two requests is true of the  *)
(* log as it is when the answer is applied: the cursor and the checkpoint  *)
(* it holds, the page or the snapshot it has fetched and not yet applied,  *)
(* the answer to an enrollment or to an advance of the epoch.  And what it *)
(* says of its own work is true, and what it has to decide can be decided, *)
(* whatever answers were lost and whichever handlers go on.                *)
(***************************************************************************)
EXTENDS DeviceSyncProofs

\* What is known of the log on every path: see EventTablesProofs.
LogFacts ==
  /\ TablesOK /\ Sequenced /\ EpochFence /\ EpochChain /\ EpochsEnded /\ SnapshotsExact

Opened(e) == e \in Epochs /\ epochs[e].number > 0

\* A hash and the end of the canonical prefix it is the hash of.
HashOf(hash, e, n) == n < nextSequence /\ hash = EventsThrough(e, n)

\* The cursor of a device is in the log, in an epoch that was opened.
StateTrue(d) ==
  /\ db[d].cursor < nextSequence
  /\ db[d].stateEpoch # NoEpoch => Opened(db[d].stateEpoch)
  /\ db[d].checkpoint # NoHash => HashOf(db[d].checkpoint, db[d].stateEpoch, db[d].cursor)

\* The steps of syncNow, which carry the sync state along.
SyncSteps == {"pull", "granted", "page", "push", "pushing", "settle", "record", "refresh", "flush"}

\* The steps that hold the answer to an enrollment, or to an advance of the epoch.
EnrollSteps == {"enrolling", "setting aside", "ignoring", "rejecting", "stating"}
AdvanceSteps == {"advancing", "stopping", "renaming", "restarting"}

\* The steps of a task that hold nothing of the log.
BareSteps == {"idle", "stop", "publishing", "published"}

TaskTrue(d, t) ==
  /\ t.step \in SyncSteps => t.state.epoch = db[d].stateEpoch /\ t.state.cursor = db[d].cursor
  /\ t.step = "page" => /\ t.state.cursor <= t.page.cursor
                        /\ HashOf(t.page.checkpointHash, t.page.bookEpoch, t.page.cursor)
  /\ t.step \in EnrollSteps => /\ Opened(t.answer.epoch)
                               /\ t.answer.start = epochs[t.answer.epoch].start
  /\ t.step = "installing" =>
       /\ Opened(t.snapshot.bookEpoch) /\ HashOf(t.hash, t.snapshot.bookEpoch, t.cursor)
       /\ ~t.more /\ t.snapshot.bookEpoch = db[d].stateEpoch => db[d].cursor <= t.cursor
  /\ t.step \in AdvanceSteps => /\ Opened(t.epoch) /\ t.start = epochs[t.epoch].start
                                /\ t.epoch # db[d].stateEpoch

CursorInv == \A d \in Devices : StateTrue(d) /\ TaskTrue(d, task[d])

LEMMA LogFactsCorrect == TableSpec => []LogFacts
BY TablesCorrect, TableSequenced, TableEpochFence, EpochChainCorrect, EpochsEndedCorrect,
   SnapshotsExactCorrect, PTL DEF LogFacts

-----------------------------------------------------------------------------
(* What was true of the log stays true of it *)

LEMMA LogStays ==
  ASSUME LogFacts, [TableNext]_storeVars
  PROVE  /\ nextSequence \in Nat /\ nextSequence' \in Nat /\ nextSequence <= nextSequence'
         /\ \A e : Opened(e) => Opened(e)' /\ epochs'[e].start = epochs[e].start
         /\ \A hash, e, n : n \in Nat /\ HashOf(hash, e, n) => HashOf(hash, e, n)'
<1>1. TablesOK /\ EpochChain
  BY DEF LogFacts
<1>2. /\ nextSequence \in Nat /\ nextSequence' \in Nat /\ nextSequence <= nextSequence'
      /\ \A e, n : n \in Nat /\ n < nextSequence => EventsThrough(e, n)' = EventsThrough(e, n)
  BY <1>1, PrefixStable
<1>3. \A e : Opened(e) => Opened(e)' /\ epochs'[e].start = epochs[e].start
  BY <1>1, StartsFinal DEF Opened
<1>4. ASSUME NEW hash, NEW e, NEW n \in Nat, HashOf(hash, e, n) PROVE HashOf(hash, e, n)'
  BY <1>2, <1>4 DEF HashOf
<1> QED BY <1>2, <1>3, <1>4

LEMMA StateStays ==
  ASSUME LogFacts, SyncInv, [TableNext]_storeVars, NEW d \in Devices,
         SyncState(d)' = SyncState(d), StateTrue(d)
  PROVE  StateTrue(d)'
<1>1. db[d].cursor \in Nat
  <2>1. db[d] \in Database
    BY SyncTypes
  <2> QED BY <2>1 DEF Database
<1>2. PICK e : e = db[d].stateEpoch
  OBVIOUS
<1>3. PICK n \in Nat : n = db[d].cursor
  BY <1>1
<1>4. PICK hash : hash = db[d].checkpoint
  OBVIOUS
<1>5. db'[d].stateEpoch = e /\ db'[d].cursor = n /\ db'[d].checkpoint = hash
  BY <1>2, <1>3, <1>4 DEF SyncState
<1>6. n < nextSequence /\ (e # NoEpoch => Opened(e)) /\ (hash # NoHash => HashOf(hash, e, n))
  BY <1>2, <1>3, <1>4 DEF StateTrue
<1>7. n < nextSequence' /\ (e # NoEpoch => Opened(e)') /\ (hash # NoHash => HashOf(hash, e, n)')
  BY <1>6, LogStays
<1>8. HashOf(hash, e, n)' => HashOf(db[d].checkpoint, db[d].stateEpoch, db[d].cursor)'
  BY <1>5 DEF HashOf
<1> QED BY <1>5, <1>7, <1>8 DEF StateTrue, Opened

\* The numbers a task holds are numbers.
LEMMA TaskNumbers ==
  ASSUME NEW t \in Task
  PROVE  /\ t.step = "page" => t.page.cursor \in Nat /\ t.state.cursor \in Nat
         /\ t.step = "installing" => t.cursor \in Nat
<1>1. ASSUME t.step = "page" PROVE t.page.cursor \in Nat /\ t.state.cursor \in Nat
  <2>1. t \in PageTask
    BY <1>1, TaskKinds
  <2>2. t.page \in Page /\ t.state \in Cursor
    BY <2>1 DEF PageTask
  <2> QED BY <2>2 DEF Page, Cursor
<1>2. ASSUME t.step = "installing" PROVE t.cursor \in Nat
  BY <1>2, TaskKinds DEF InstallTask
<1> QED BY <1>1, <1>2

LEMMA TaskStays ==
  ASSUME LogFacts, [TableNext]_storeVars, NEW d \in Devices, SyncState(d)' = SyncState(d),
         NEW t \in Task, TaskTrue(d, t)
  PROVE  TaskTrue(d, t)'
<1>1. db'[d].stateEpoch = db[d].stateEpoch /\ db'[d].cursor = db[d].cursor
  BY DEF SyncState
<1>2. /\ \A e : Opened(e) => Opened(e)' /\ epochs'[e].start = epochs[e].start
      /\ \A hash, e, n : n \in Nat /\ HashOf(hash, e, n) => HashOf(hash, e, n)'
  BY LogStays
<1>3. t.step = "page" => HashOf(t.page.checkpointHash, t.page.bookEpoch, t.page.cursor)'
  BY <1>2, TaskNumbers DEF TaskTrue
<1>4. t.step = "installing" => Opened(t.snapshot.bookEpoch)' /\ HashOf(t.hash, t.snapshot.bookEpoch, t.cursor)'
  BY <1>2, TaskNumbers DEF TaskTrue
<1>5. t.step \in EnrollSteps => Opened(t.answer.epoch)' /\ t.answer.start = epochs'[t.answer.epoch].start
  BY <1>2 DEF TaskTrue
<1>6. t.step \in AdvanceSteps => Opened(t.epoch)' /\ t.start = epochs'[t.epoch].start
  BY <1>2 DEF TaskTrue
<1> QED BY <1>1, <1>3, <1>4, <1>5, <1>6 DEF TaskTrue

\* No device goes back in the log of its epoch.
Forward ==
  \A d \in Devices : db'[d].stateEpoch = db[d].stateEpoch => db'[d].cursor >= db[d].cursor

\* A step that leaves the sync states alone: what matters is the task it goes to.
LEMMA Carry ==
  ASSUME LogFacts, SyncInv, CursorInv, [TableNext]_storeVars, StatesKept,
         NEW d \in Devices, NEW t, task' = [task EXCEPT ![d] = t],
         (t \in Task /\ TaskTrue(d, t)) \/ TaskTrue(d, t)'
  PROVE  CursorInv' /\ Forward
<1>1. task \in [Devices -> Task] /\ db \in [Devices -> Database]
  BY SyncTypes
<1>2. ASSUME NEW c \in Devices PROVE StateTrue(c)' /\ TaskTrue(c, task[c])'
  <2>1. SyncState(c)' = SyncState(c) /\ StateTrue(c) /\ TaskTrue(c, task[c])
    BY DEF StatesKept, CursorInv
  <2>2. StateTrue(c)'
    BY <2>1, StateStays
  <2>3. CASE c = d
    <3>1. TaskTrue(d, t)'
      BY <2>1, <2>3, TaskStays
    <3>2. t = task'[c]
      BY <1>1, <2>3
    <3> QED BY <2>2, <2>3, <3>1, <3>2
  <2>4. CASE c # d
    <3>1. PICK u \in Task : u = task[c]
      BY <1>1
    <3>2. TaskTrue(c, u)'
      BY <2>1, <3>1, TaskStays
    <3>3. u = task'[c]
      BY <1>1, <2>4, <3>1
    <3> QED BY <2>2, <3>2, <3>3
  <2> QED BY <2>3, <2>4
<1>3. ASSUME NEW c \in Devices PROVE db'[c].cursor >= db[c].cursor
  <2>1. db[c].cursor \in Nat
    <3>1. db[c] \in Database
      BY <1>1
    <3> QED BY <3>1 DEF Database
  <2> QED BY <2>1 DEF StatesKept, SyncState
<1> QED BY <1>2, <1>3 DEF CursorInv, Forward

LEMMA CarryTask ==
  ASSUME LogFacts, SyncInv, CursorInv, [TableNext]_storeVars, StatesKept, SyncInv',
         NEW d \in Devices, NEW t, Goto(d, t), TaskTrue(d, t) \/ TaskTrue(d, t)'
  PROVE  CursorInv' /\ Forward
<1>1. task' = [task EXCEPT ![d] = t] /\ task \in [Devices -> Task] /\ task' \in [Devices -> Task]
  BY DEF Goto, SyncInv
<1>2. t \in Task
  BY <1>1
<1> QED BY <1>1, <1>2, Carry

LEMMA TaskKept ==
  ASSUME LogFacts, SyncInv, CursorInv, [TableNext]_storeVars, StatesKept, SyncInv',
         NEW d \in Devices, UNCHANGED task
  PROVE  CursorInv' /\ Forward
<1>1. PICK t : t = task[d]
  OBVIOUS
<1>2. task' = [task EXCEPT ![d] = t] /\ t \in Task /\ TaskTrue(d, t)
  BY <1>1 DEF SyncInv, CursorInv
<1> QED BY <1>2, Carry

LEMMA Vacuous ==
  ASSUME NEW d, NEW t, t.step \in BareSteps PROVE TaskTrue(d, t)
BY DEF TaskTrue, BareSteps, SyncSteps, EnrollSteps, AdvanceSteps

\* A task that goes on with the state it has.
LEMMA SameState ==
  ASSUME NEW d, TaskTrue(d, task[d]), task[d].step \in SyncSteps,
         NEW t, t.step \in SyncSteps \ {"page"}, t.state = task[d].state
  PROVE  TaskTrue(d, t)
BY DEF TaskTrue, SyncSteps, EnrollSteps, AdvanceSteps

\* A step towards a task that holds nothing new.
GoesOn(d, t) ==
  \/ t.step \in BareSteps
  \/ /\ task[d].step \in SyncSteps /\ t.step \in SyncSteps \ {"page"}
     /\ t.state = task[d].state

LEMMA GoesOnStep ==
  ASSUME LogFacts, SyncInv, CursorInv, [TableNext]_storeVars, StatesKept, SyncInv',
         NEW d \in Devices, NEW t, Goto(d, t), GoesOn(d, t)
  PROVE  CursorInv' /\ Forward
<1>1. TaskTrue(d, task[d])
  BY DEF CursorInv
<1>2. TaskTrue(d, t)
  BY <1>1, Vacuous, SameState DEF GoesOn
<1> QED BY <1>2, CarryTask

-----------------------------------------------------------------------------
(* One lemma per action *)

LEMMA OtherScreens ==
  ASSUME LogFacts, SyncInv, CursorInv, NEW d \in Devices, UNCHANGED scenario,
         Change(d) \/ Decide(d) \/ Clear(d)
  PROVE  CursorInv' /\ Forward
<1>1. SyncInv' /\ UNCHANGED storeVars /\ StatesKept /\ UNCHANGED task
  BY ChangeStep, DecideStep, ClearStep DEF Change, Decide, Clear
<1> QED BY <1>1, TaskKept

LEMMA OrphanForward ==
  ASSUME LogFacts, SyncInv, CursorInv, UNCHANGED scenario, NEW todo \in orphans, HandleOrphan(todo)
  PROVE  CursorInv' /\ Forward
<1>1. SyncInv' /\ [TableNext]_storeVars /\ StatesKept /\ UNCHANGED task
  BY HandleOrphanStep DEF HandleOrphan
<1> QED BY <1>1, TaskKept DEF CursorInv, Forward

LEMMA StartSyncForward ==
  ASSUME LogFacts, SyncInv, CursorInv, NEW d \in Devices, UNCHANGED scenario, StartSync(d)
  PROVE  CursorInv' /\ Forward
<1>1. SyncInv' /\ UNCHANGED storeVars /\ StatesKept
  BY StartSyncStep
<1>2. PICK t : t = Pulling(d, 1, [epoch |-> db[d].stateEpoch, cursor |-> db[d].cursor])
  OBVIOUS
<1>3. TaskTrue(d, t)
  BY <1>2 DEF TaskTrue, SyncSteps, EnrollSteps, AdvanceSteps, Pulling
<1> QED BY <1>1, <1>2, <1>3, CarryTask DEF StartSync

\* The steps of a task that learn nothing of the log.
LEMMA QuietSteps ==
  ASSUME LogFacts, SyncInv, CursorInv, NEW d \in Devices, UNCHANGED scenario,
         \/ AuthorizePull(d) \/ StartPush(d) \/ HandleNext(d) \/ ReceiveAnswers(d) \/ LoseAnswers(d)
         \/ Stop(d) \/ Settle(d) \/ Record(d) \/ Refresh(d) \/ Flush(d) \/ PullAgain(d)
         \/ StartPublish(d) \/ Upload(d) \/ FinishPublish(d) \/ Interrupt(d)
  PROVE  CursorInv' /\ Forward
<1>1. SyncInv' /\ [TableNext]_storeVars /\ StatesKept
  BY AuthorizePullStep, StartPushStep, HandleNextStep, ReceiveAnswersStep, LoseAnswersStep, StopStep, SettleStep,
     RecordStep, RefreshStep, FlushStep, PullAgainStep, StartPublishStep, UploadStep, FinishPublishStep, InterruptStep
<1>2. task[d] \in Task
  BY SyncTypes
<1> SUFFICES \E t : Goto(d, t) /\ GoesOn(d, t)
  BY <1>1, GoesOnStep
<1>3. CASE AuthorizePull(d)
  <2>1. task[d] \in PullTask
    BY <1>2, <1>3, TaskKinds DEF AuthorizePull
  <2>2. GoesOn(d, Idle) /\ GoesOn(d, [task[d] EXCEPT !.step = "granted"])
    BY <1>3, <2>1 DEF GoesOn, BareSteps, Idle, PullTask, AuthorizePull, SyncSteps
  <2> QED BY <1>3, <2>2 DEF AuthorizePull
<1>4. CASE StartPush(d)
  BY <1>4 DEF StartPush, GoesOn, SyncSteps
<1>5. CASE HandleNext(d)
  <2>1. task[d] \in PushTask
    BY <1>2, <1>5, TaskKinds DEF HandleNext
  <2>2. \A todo, answer : /\ GoesOn(d, [task[d] EXCEPT !.todo = todo, !.accepted = Append(@, answer)])
                          /\ GoesOn(d, [task[d] EXCEPT !.todo = todo, !.others = Append(@, answer)])
    BY <1>5, <2>1 DEF GoesOn, PushTask, SyncSteps
  <2> QED BY <1>5, <2>2 DEF HandleNext
<1>6. CASE ReceiveAnswers(d)
  BY <1>6 DEF ReceiveAnswers, GoesOn, SyncSteps
<1>7. CASE LoseAnswers(d)
  BY <1>7 DEF LoseAnswers, GoesOn, SyncSteps
<1>8. CASE Settle(d) \/ Record(d)
  <2>1. task[d] \in SettleTask
    BY <1>2, <1>8, TaskKinds DEF Settle, Record
  <2>2. GoesOn(d, Settled(d)) /\ GoesOn(d, [Settled(d) EXCEPT !.answers = <<>>])
    BY <1>8, <2>1 DEF Settled, GoesOn, SettleTask, SyncSteps, Settle, Record
  <2>3. GoesOn(d, [task[d] EXCEPT !.step = "record"])
    BY <1>8, <2>1 DEF GoesOn, SettleTask, SyncSteps, Settle, Record
  <2> QED BY <1>8, <2>2, <2>3 DEF Settle, Record, GoOn
<1>9. CASE Refresh(d)
  BY <1>9 DEF Refresh, GoesOn, SyncSteps
<1>10. CASE Flush(d)
  <2>1. task[d] \in FlushTask
    BY <1>2, <1>10, TaskKinds DEF Flush
  <2>2. \A r : GoesOn(d, [task[d] EXCEPT !.todo = @ \ {r}])
    BY <1>10, <2>1 DEF GoesOn, FlushTask, SyncSteps, Flush
  <2> QED BY <1>10, <2>2 DEF Flush
<1>11. CASE PullAgain(d)
  BY <1>11 DEF PullAgain, Pulling, GoesOn, SyncSteps
<1>12. CASE StartPublish(d)
  BY <1>12 DEF StartPublish, GoesOn, BareSteps
<1>13. CASE Upload(d)
  <2>1. task[d] \in PublishTask
    BY <1>2, <1>13, TaskKinds DEF Upload
  <2>2. GoesOn(d, Idle) /\ GoesOn(d, [task[d] EXCEPT !.step = "published"])
    BY <2>1 DEF GoesOn, BareSteps, Idle, PublishTask
  <2> QED BY <1>13, <2>2 DEF Upload
<1>14. CASE FinishPublish(d) \/ Interrupt(d) \/ Stop(d)
  BY <1>14 DEF FinishPublish, Interrupt, Stop, GoesOn, BareSteps, Idle
<1> QED BY <1>3, <1>4, <1>5, <1>6, <1>7, <1>8, <1>9, <1>10, <1>11, <1>12, <1>13, <1>14

\* The steps of a task that read the log, or what the server says of its epoch.

LEMMA ServePullForward ==
  ASSUME LogFacts, SyncInv, CursorInv, NEW d \in Devices, UNCHANGED scenario, ServePull(d)
  PROVE  CursorInv' /\ Forward
<1>1. SyncInv' /\ StatesKept /\ TableNext
  BY ServePullStep DEF TableNext
<1>2. task[d] \in PullTask /\ TaskTrue(d, task[d])
  BY SyncTypes, TaskKinds DEF ServePull, CursorInv
<1>3. PICK n \in Nat : n = task[d].state.cursor
  BY <1>2 DEF PullTask, Cursor
<1>4. PageOf(PullPage(n), n)
  BY <1>3, PageFact DEF LogFacts, ServePull
<1>5. PICK t : t = [step |-> "page", pass |-> task[d].pass, state |-> task[d].state, page |-> PullPage(n)]
  OBVIOUS
<1>6. Goto(d, t)
  BY <1>3, <1>5 DEF ServePull
<1>7. TaskTrue(d, t)
  <2>1. t.state.epoch = db[d].stateEpoch /\ t.state.cursor = db[d].cursor
    BY <1>2, <1>5 DEF TaskTrue, SyncSteps, ServePull
  <2>2. t.step = "page" /\ t.page = PullPage(n) /\ t.state.cursor = n
    BY <1>3, <1>5
  <2>3. t.state.cursor <= t.page.cursor /\ HashOf(t.page.checkpointHash, t.page.bookEpoch, t.page.cursor)
    BY <1>4, <2>2 DEF PageOf, HashOf
  <2> QED BY <2>1, <2>2, <2>3 DEF TaskTrue, SyncSteps, EnrollSteps, AdvanceSteps
<1> QED BY <1>1, <1>6, <1>7, CarryTask

LEMMA FetchSnapshotForward ==
  ASSUME LogFacts, SyncInv, CursorInv, NEW d \in Devices, UNCHANGED scenario, FetchSnapshot(d)
  PROVE  CursorInv' /\ Forward
<1>1. SyncInv' /\ UNCHANGED storeVars /\ StatesKept
  BY FetchSnapshotStep
<1>2. PICK i \in DOMAIN snapshots :
        /\ snapshots[i].bookEpoch = bookEpoch
        /\ Goto(d, [step |-> "installing", snapshot |-> snapshots[i], tail |-> {}, more |-> TRUE,
                    cursor |-> snapshots[i].throughSequence,
                    hash |-> EventsThrough(bookEpoch, snapshots[i].throughSequence)])
  BY DEF FetchSnapshot, LatestSnapshots
<1>3. PICK t : t = [step |-> "installing", snapshot |-> snapshots[i], tail |-> {}, more |-> TRUE,
                    cursor |-> snapshots[i].throughSequence,
                    hash |-> EventsThrough(bookEpoch, snapshots[i].throughSequence)]
  OBVIOUS
<1>4. snapshots[i].throughSequence < nextSequence
  BY DEF LogFacts, SnapshotsExact, SnapshotExact
<1>5. Opened(bookEpoch)
  BY OpenEpoch DEF EpochOpen, Opened, LogFacts, FetchSnapshot, Authorized
<1>6. TaskTrue(d, t)
  BY <1>2, <1>3, <1>4, <1>5 DEF TaskTrue, SyncSteps, EnrollSteps, AdvanceSteps, HashOf
<1> QED BY <1>1, <1>2, <1>3, <1>6, CarryTask

LEMMA FetchTailForward ==
  ASSUME LogFacts, SyncInv, CursorInv, NEW d \in Devices, UNCHANGED scenario, FetchTail(d)
  PROVE  CursorInv' /\ Forward
<1>1. SyncInv' /\ [TableNext]_storeVars /\ StatesKept
  BY FetchTailStep
<1>2. PICK u : u = task[d]
  OBVIOUS
<1>3. u \in InstallTask /\ u.step = "installing" /\ TaskTrue(d, u) /\ StateTrue(d)
  BY <1>2, SyncTypes, TaskKinds DEF FetchTail, CursorInv
<1>4. PICK n \in Nat : n = u.cursor
  BY <1>3 DEF InstallTask
<1>5. CASE Goto(d, Idle)
  BY <1>1, <1>5, GoesOnStep DEF GoesOn, BareSteps, Idle
<1>6. CASE /\ u.snapshot.bookEpoch = bookEpoch
           /\ Pull(n) /\ Goto(d, WithPage(u, PullPage(n)))
  <2>1. PICK page : page = PullPage(n)
    OBVIOUS
  <2>2. PageOf(page, n)
    BY <1>6, <2>1, PageFact DEF LogFacts
  <2>3. PICK t : t = WithPage(u, page)
    OBVIOUS
  <2>4. /\ t.step = "installing" /\ t.snapshot = u.snapshot /\ t.cursor = page.cursor
        /\ t.hash = page.checkpointHash /\ t.more = page.hasMore
    BY <1>3, <2>3 DEF WithPage, InstallTask
  <2>5. HashOf(t.hash, t.snapshot.bookEpoch, t.cursor)
    BY <1>6, <2>2, <2>4 DEF HashOf, PageOf
  <2>6. Opened(t.snapshot.bookEpoch)
    BY <1>3, <2>4 DEF TaskTrue
  <2>7. ~t.more => db[d].cursor <= t.cursor
    <3>1. db[d].cursor \in Nat /\ nextSequence \in Nat
      <4>1. db[d] \in Database
        BY SyncTypes
      <4> QED BY <4>1 DEF Database, LogFacts, TablesOK, StoreTypeOK
    <3> QED BY <1>3, <2>2, <2>4, <3>1 DEF StateTrue, PageOf
  <2>8. TaskTrue(d, t)
    BY <2>4, <2>5, <2>6, <2>7 DEF TaskTrue, SyncSteps, EnrollSteps, AdvanceSteps
  <2> QED BY <1>1, <1>6, <2>1, <2>3, <2>8, CarryTask
<1> QED BY <1>2, <1>4, <1>5, <1>6 DEF FetchTail

LEMMA RequestEnrollmentForward ==
  ASSUME LogFacts, SyncInv, CursorInv, NEW d \in Devices, UNCHANGED scenario, RequestEnrollment(d)
  PROVE  CursorInv' /\ Forward
<1>1. SyncInv' /\ [TableNext]_storeVars /\ StatesKept
  BY RequestEnrollmentStep
<1>2. PICK t : /\ Goto(d, t) /\ t.step = "enrolling"
               /\ t.answer.epoch = bookEpoch' /\ t.answer.start = epochs'[bookEpoch'].start
  BY DEF RequestEnrollment
<1>3. bookEpoch' # NoEpoch
  BY NullAssumption DEF RequestEnrollment, CreateBook, storeVars
<1>4. EpochOpen'
  <2>1. TablesOK'
    BY <1>1 DEF SyncInv
  <2> QED BY <2>1, OpenEpoch, PTL
<1>5. Opened(t.answer.epoch)'
  BY <1>2, <1>3, <1>4 DEF EpochOpen, Opened
<1>6. TaskTrue(d, t)'
  BY <1>2, <1>5 DEF TaskTrue, SyncSteps, EnrollSteps, AdvanceSteps
<1> QED BY <1>1, <1>2, <1>6, CarryTask

LEMMA RequestAdvanceForward ==
  ASSUME LogFacts, SyncInv, CursorInv, NEW d \in Devices, UNCHANGED scenario, RequestAdvance(d)
  PROVE  CursorInv' /\ Forward
<1>1. SyncInv' /\ [TableNext]_storeVars /\ StatesKept
  BY RequestAdvanceStep
<1>2. PICK e \in Epochs : /\ AdvanceEpoch(db[d].epoch, e)
                          /\ Goto(d, [step |-> "advancing", epoch |-> e, start |-> nextSequence])
  BY DEF RequestAdvance
<1>3. PICK t : t = [step |-> "advancing", epoch |-> e, start |-> nextSequence]
  OBVIOUS
<1>4. /\ epochs \in [Epochs -> EpochRow] /\ bookEpoch \in Epochs
      /\ epochs[bookEpoch].number \in Nat /\ epochs[e].number = 0
  BY <1>2 DEF LogFacts, TablesOK, StoreTypeOK, EpochRow, AdvanceEpoch, Unused
<1>5. epochs'[e].number > 0 /\ epochs'[e].start = nextSequence
  BY <1>2, <1>4 DEF AdvanceEpoch
<1>6. e # db[d].stateEpoch
  <2>1. StateTrue(d)
    BY DEF CursorInv
  <2> QED BY <1>4, <2>1, NullAssumption DEF StateTrue, Opened
<1>7. db'[d].stateEpoch = db[d].stateEpoch
  BY <1>1 DEF StatesKept, SyncState
<1>8. TaskTrue(d, t)'
  BY <1>3, <1>5, <1>6, <1>7 DEF TaskTrue, SyncSteps, EnrollSteps, AdvanceSteps, Opened
<1> QED BY <1>1, <1>2, <1>3, <1>8, CarryTask

\* A write of the sync state of one device, true of the log as it is.
LEMMA Move ==
  ASSUME LogFacts, SyncInv, CursorInv, UNCHANGED storeVars, SyncInv', NEW d \in Devices, OthersKept(d),
         NEW e, NEW n \in Nat, NEW hash, SyncState(d)' = <<e, n, hash>>,
         n < nextSequence, Opened(e), hash # NoHash => HashOf(hash, e, n),
         e = db[d].stateEpoch => n >= db[d].cursor,
         NEW t, Goto(d, t),
         \/ t.step = "idle"
         \/ t.step \in SyncSteps \ {"page"} /\ t.state.epoch = e /\ t.state.cursor = n
  PROVE  CursorInv' /\ Forward
<1>1. /\ nextSequence' = nextSequence /\ epochs' = epochs /\ events' = events
      /\ db'[d].stateEpoch = e /\ db'[d].cursor = n /\ db'[d].checkpoint = hash
  BY DEF storeVars, SyncState
<1>2. StateTrue(d)'
  BY <1>1 DEF StateTrue, Opened, HashOf, EventsThrough
<1>3. task'[d] = t /\ \A c \in Devices \ {d} : task'[c] = task[c]
  BY DEF Goto, SyncInv
<1>4. TaskTrue(d, task[d])'
  <2>1. TaskTrue(d, t)'
    BY <1>1 DEF TaskTrue, SyncSteps, EnrollSteps, AdvanceSteps
  <2> QED BY <1>3, <2>1
<1>5. ASSUME NEW c \in Devices \ {d} PROVE StateTrue(c)' /\ TaskTrue(c, task[c])'
  <2>1. SyncState(c)' = SyncState(c) /\ StateTrue(c) /\ TaskTrue(c, task[c])
    BY DEF OthersKept, CursorInv
  <2>2. PICK u \in Task : u = task[c]
    BY SyncTypes
  <2>3. StateTrue(c)' /\ TaskTrue(c, u)'
    BY <2>1, <2>2, StateStays, TaskStays
  <2> QED BY <1>3, <2>2, <2>3
<1>6. ASSUME NEW c \in Devices \ {d} PROVE db'[c].cursor >= db[c].cursor
  <2>1. db[c].cursor \in Nat
    <3>1. db[c] \in Database
      BY SyncTypes
    <3> QED BY <3>1 DEF Database
  <2> QED BY <2>1 DEF OthersKept, SyncState
<1> QED BY <1>1, <1>2, <1>4, <1>5, <1>6 DEF CursorInv, Forward

LEMMA ReceivePageForward ==
  ASSUME LogFacts, SyncInv, CursorInv, NEW d \in Devices, UNCHANGED scenario, ReceivePage(d)
  PROVE  CursorInv' /\ Forward
<1>1. /\ SyncInv' /\ UNCHANGED storeVars
      /\ \/ StatesKept /\ \E t \in {Idle, [step |-> "stop"]} : Goto(d, t)
         \/ /\ task[d].page.bookEpoch = task[d].state.epoch /\ Goto(d, AfterPage(d))
            /\ SyncState(d)' = <<task[d].state.epoch, task[d].page.cursor, task[d].page.checkpointHash>>
            /\ OthersKept(d)
  BY ReceivePageStep
<1>2. CASE StatesKept /\ \E t \in {Idle, [step |-> "stop"]} : Goto(d, t)
  <2>1. \A t \in {Idle, [step |-> "stop"]} : GoesOn(d, t)
    BY DEF GoesOn, BareSteps, Idle
  <2> QED BY <1>1, <1>2, <2>1, GoesOnStep
<1>3. CASE /\ task[d].page.bookEpoch = task[d].state.epoch /\ Goto(d, AfterPage(d))
           /\ SyncState(d)' = <<task[d].state.epoch, task[d].page.cursor, task[d].page.checkpointHash>>
           /\ OthersKept(d)
  <2>1. /\ task[d].step = "page" /\ task[d] \in PageTask /\ TaskTrue(d, task[d]) /\ StateTrue(d)
        /\ task[d].page.cursor \in Nat
    BY SyncTypes, TaskKinds, TaskNumbers DEF ReceivePage, CursorInv
  <2>2. PICK n \in Nat : n = task[d].page.cursor
    BY <2>1
  <2>3. PICK e \in Epochs : e = task[d].state.epoch
    BY <2>1 DEF PageTask, Cursor
  <2>4. PICK hash : hash = task[d].page.checkpointHash
    OBVIOUS
  <2>5. e = db[d].stateEpoch /\ task[d].state.cursor = db[d].cursor /\ task[d].state.cursor <= n
    BY <2>1, <2>2, <2>3 DEF TaskTrue, SyncSteps, EnrollSteps, AdvanceSteps
  <2>6. HashOf(hash, e, n)
    BY <1>3, <2>1, <2>2, <2>3, <2>4 DEF TaskTrue
  <2>7. Opened(e)
    BY <2>1, <2>5, NullAssumption DEF StateTrue
  <2>8. n >= db[d].cursor
    <3>1. db[d].cursor \in Nat
      BY <2>1, <2>5, TaskNumbers, SyncTypes
    <3> QED BY <2>5, <3>1
  <2>9. PICK state : state = [task[d].state EXCEPT !.cursor = n]
    OBVIOUS
  <2>10. state.epoch = e /\ state.cursor = n
    BY <2>1, <2>3, <2>9 DEF PageTask, Cursor
  <2>11. PICK t : t = AfterPage(d)
    OBVIOUS
  <2>12. \/ t = [step |-> "pull", pass |-> task[d].pass, state |-> state]
         \/ t = [step |-> "push", state |-> state]
         \/ t = Idle
    BY <2>2, <2>9, <2>11 DEF AfterPage, Pulling
  <2>13. \/ t.step = "idle"
         \/ t.step \in SyncSteps \ {"page"} /\ t.state.epoch = e /\ t.state.cursor = n
    BY <2>10, <2>12 DEF SyncSteps, Idle
  <2>14. n < nextSequence
    BY <2>6 DEF HashOf
  <2>15. SyncState(d)' = <<e, n, hash>> /\ Goto(d, t)
    BY <1>3, <2>2, <2>3, <2>4, <2>11
  <2> QED BY <1>1, <1>3, <2>6, <2>7, <2>8, <2>13, <2>14, <2>15, Move
<1> QED BY <1>1, <1>2, <1>3

\* The answer of the server is still held when the book state is written.
LEMMA HeldForward ==
  ASSUME LogFacts, SyncInv, CursorInv, UNCHANGED storeVars, StatesKept, SyncInv', NEW d \in Devices,
         NEW step, GoOn(d, step),
         \/ task[d].step \in EnrollSteps /\ step \in EnrollSteps
         \/ task[d].step \in AdvanceSteps /\ step \in AdvanceSteps
  PROVE  CursorInv' /\ Forward
<1>1. PICK u : u = task[d]
  OBVIOUS
<1>2. PICK t : t = [u EXCEPT !.step = step]
  OBVIOUS
<1>3. Goto(d, t) /\ u \in Task /\ TaskTrue(d, u)
  BY <1>1, <1>2, SyncTypes DEF GoOn, CursorInv
<1>4. CASE u.step \in EnrollSteps /\ step \in EnrollSteps
  <2>1. u \in EnrollTask
    BY <1>3, <1>4, TaskKinds DEF EnrollSteps
  <2>2. t.step = step /\ t.answer = u.answer
    BY <1>2, <2>1 DEF EnrollTask
  <2>3. TaskTrue(d, t)
    BY <1>3, <1>4, <2>2 DEF TaskTrue, SyncSteps, EnrollSteps, AdvanceSteps
  <2> QED BY <1>3, <2>3, CarryTask
<1>5. CASE u.step \in AdvanceSteps /\ step \in AdvanceSteps
  <2>1. u \in AdvanceTask
    BY <1>3, <1>5, TaskKinds DEF AdvanceSteps
  <2>2. t.step = step /\ t.epoch = u.epoch /\ t.start = u.start
    BY <1>2, <2>1 DEF AdvanceTask
  <2>3. TaskTrue(d, t)
    BY <1>3, <1>5, <2>2 DEF TaskTrue, SyncSteps, EnrollSteps, AdvanceSteps
  <2> QED BY <1>3, <2>3, CarryTask
<1> QED BY <1>1, <1>4, <1>5

LEMMA WriteStateForward ==
  ASSUME LogFacts, SyncInv, CursorInv, NEW d \in Devices, UNCHANGED scenario, Enroll(d), Goto(d, Idle)
  PROVE  CursorInv' /\ Forward
<1>1. PICK answer : answer = task[d].answer
  OBVIOUS
<1>2. /\ SyncInv' /\ UNCHANGED storeVars /\ Goto(d, Idle)
      /\ \/ StatesKept
         \/ /\ OthersKept(d)
            /\ SyncState(d)' = <<answer.epoch, EnrolledCursor(d, answer), EnrolledCheckpoint(d, answer)>>
  BY <1>1, EnrollStep
<1>3. /\ answer \in EnrollAnswer /\ StateTrue(d)
      /\ Opened(answer.epoch) /\ answer.start = epochs[answer.epoch].start
  <2>1. task[d].step \in EnrollSteps
    BY DEF Enroll, EnrollSteps
  <2>2. task[d] \in EnrollTask /\ TaskTrue(d, task[d]) /\ StateTrue(d)
    BY <2>1, SyncTypes, TaskKinds DEF EnrollSteps, CursorInv
  <2> QED BY <1>1, <2>1, <2>2 DEF EnrollTask, TaskTrue
<1>4. /\ answer.epoch \in Epochs /\ answer.start \in Nat \ {0} /\ answer.start <= nextSequence
      /\ nextSequence \in Nat
  BY <1>3 DEF EnrollAnswer, LogFacts, TablesOK, EpochsInv, StoreTypeOK
<1>5. CASE StatesKept
  BY <1>2, <1>5, GoesOnStep DEF GoesOn, BareSteps, Idle
<1> SUFFICES ASSUME OthersKept(d),
                    SyncState(d)' = <<answer.epoch, EnrolledCursor(d, answer), EnrolledCheckpoint(d, answer)>>
             PROVE  CursorInv' /\ Forward
  BY <1>2, <1>5
<1>6. CASE Known(d) /\ ~Changed(d, answer)
  <2>1. db[d].stateEpoch = answer.epoch
    BY <1>6 DEF Changed
  <2>2. SyncState(d)' = SyncState(d)
    BY <1>6, <2>1 DEF EnrolledCursor, EnrolledCheckpoint, SyncState
  <2>3. StatesKept
    BY <2>2 DEF StatesKept, OthersKept
  <2> QED BY <1>5, <2>3
<1>7. CASE ~(Known(d) /\ ~Changed(d, answer))
  <2>1. answer.epoch # db[d].stateEpoch
    BY <1>4, <1>7, NullAssumption DEF Known, Changed
  <2>2. PICK n \in Nat : n = answer.start - 1
    BY <1>4
  <2>3. n < nextSequence
    BY <1>4, <2>2
  <2>4. EventsThrough(answer.epoch, n) = {}
    <3>1. ASSUME NEW x \in events, x.op.bookEpoch = answer.epoch, x.bookSequence <= n PROVE FALSE
      <4>1. x.bookSequence \in Nat
        BY DEF LogFacts, TablesOK, StoreTypeOK, Event
      <4>2. epochs[x.op.bookEpoch].start <= x.bookSequence
        BY DEF LogFacts, EpochFence
      <4> QED BY <1>3, <1>4, <2>2, <3>1, <4>1, <4>2
    <3> QED BY <3>1 DEF EventsThrough
  <2>5. PICK hash : hash = EnrolledCheckpoint(d, answer)
    OBVIOUS
  <2>6. hash # NoHash => HashOf(hash, answer.epoch, n)
    BY <1>7, <2>3, <2>4, <2>5 DEF EnrolledCheckpoint, HashOf
  <2>7. EnrolledCursor(d, answer) = n
    BY <1>7, <2>2 DEF EnrolledCursor
  <2>8. SyncState(d)' = <<answer.epoch, n, hash>>
    BY <2>5, <2>7
  <2>9. PICK e : e = answer.epoch
    OBVIOUS
  <2> QED BY <1>2, <1>3, <2>1, <2>3, <2>6, <2>8, <2>9, Move DEF Idle
<1> QED BY <1>6, <1>7

LEMMA EnrollForward ==
  ASSUME LogFacts, SyncInv, CursorInv, NEW d \in Devices, UNCHANGED scenario, Enroll(d)
  PROVE  CursorInv' /\ Forward
<1>1. CASE Goto(d, Idle)
  BY <1>1, WriteStateForward
<1>2. ASSUME ~Goto(d, Idle) PROVE CursorInv' /\ Forward
  <2>1. SyncInv' /\ UNCHANGED storeVars /\ StatesKept
    BY <1>2, EnrollStep
  <2>2. task[d].step \in EnrollSteps /\ \E step \in EnrollSteps : GoOn(d, step)
    BY <1>2 DEF Enroll, EnrollSteps
  <2> QED BY <2>1, <2>2, HeldForward
<1> QED BY <1>1, <1>2

LEMMA InstallForward ==
  ASSUME LogFacts, SyncInv, CursorInv, NEW d \in Devices, UNCHANGED scenario, Install(d)
  PROVE  CursorInv' /\ Forward
<1>1. /\ SyncInv' /\ UNCHANGED storeVars /\ Goto(d, Idle)
      /\ \/ StatesKept
         \/ /\ SyncState(d)' = <<task[d].snapshot.bookEpoch, task[d].cursor, task[d].hash>>
            /\ OthersKept(d)
  BY InstallStep
<1>2. CASE StatesKept
  BY <1>1, <1>2, GoesOnStep DEF GoesOn, BareSteps, Idle
<1>3. CASE /\ SyncState(d)' = <<task[d].snapshot.bookEpoch, task[d].cursor, task[d].hash>>
           /\ OthersKept(d)
  <2>1. /\ task[d].step = "installing" /\ ~task[d].more /\ TaskTrue(d, task[d])
        /\ task[d].cursor \in Nat
    BY SyncTypes, TaskNumbers DEF Install, ReadyToInstall, CursorInv
  <2>2. PICK n \in Nat : n = task[d].cursor
    BY <2>1
  <2>3. PICK e : e = task[d].snapshot.bookEpoch
    OBVIOUS
  <2>4. PICK hash : hash = task[d].hash
    OBVIOUS
  <2>5. Opened(e) /\ HashOf(hash, e, n) /\ n < nextSequence
    BY <2>1, <2>2, <2>3, <2>4 DEF TaskTrue, HashOf
  <2>6. e = db[d].stateEpoch => n >= db[d].cursor
    <3>1. db[d].cursor \in Nat
      <4>1. db[d] \in Database
        BY SyncTypes
      <4> QED BY <4>1 DEF Database
    <3>2. e = db[d].stateEpoch => db[d].cursor <= n
      BY <2>1, <2>2, <2>3 DEF TaskTrue
    <3> QED BY <3>1, <3>2
  <2> QED BY <1>1, <1>3, <2>2, <2>3, <2>4, <2>5, <2>6, Move DEF Idle
<1> QED BY <1>1, <1>2, <1>3

LEMMA AdvanceForward ==
  ASSUME LogFacts, SyncInv, CursorInv, NEW d \in Devices, UNCHANGED scenario, Advance(d)
  PROVE  CursorInv' /\ Forward
<1>1. /\ SyncInv' /\ UNCHANGED storeVars
      /\ \/ StatesKept
         \/ /\ Goto(d, Idle) /\ OthersKept(d)
            /\ SyncState(d)' = <<task[d].epoch, task[d].start - 1, NoHash>>
  BY AdvanceStep
<1>2. /\ task[d] \in AdvanceTask /\ TaskTrue(d, task[d]) /\ task[d].step \in AdvanceSteps
  BY SyncTypes, TaskKinds DEF Advance, CursorInv, AdvanceSteps
<1>3. CASE StatesKept
  <2>1. Goto(d, Idle) \/ \E step \in AdvanceSteps : GoOn(d, step)
    BY DEF Advance, AdvanceSteps
  <2>2. CASE Goto(d, Idle)
    BY <1>1, <1>3, <2>2, GoesOnStep DEF GoesOn, BareSteps, Idle
  <2> QED BY <1>1, <1>2, <1>3, <2>1, <2>2, HeldForward
<1>4. CASE /\ Goto(d, Idle) /\ OthersKept(d)
           /\ SyncState(d)' = <<task[d].epoch, task[d].start - 1, NoHash>>
  <2>1. PICK e \in Epochs : e = task[d].epoch
    BY <1>2 DEF AdvanceTask
  <2>2. /\ Opened(e) /\ e # db[d].stateEpoch /\ task[d].start = epochs[e].start
        /\ task[d].start \in Nat \ {0}
    BY <1>2, <2>1 DEF TaskTrue, AdvanceTask
  <2>3. task[d].start <= nextSequence /\ nextSequence \in Nat
    BY <2>2 DEF LogFacts, TablesOK, EpochsInv, StoreTypeOK
  <2>4. PICK n \in Nat : n = task[d].start - 1
    BY <2>2
  <2>5. n < nextSequence
    BY <2>2, <2>3, <2>4
  <2>6. SyncState(d)' = <<e, n, NoHash>>
    BY <1>4, <2>1, <2>4
  <2> QED BY <1>1, <1>4, <2>2, <2>5, <2>6, Move DEF Idle
<1> QED BY <1>1, <1>3, <1>4

-----------------------------------------------------------------------------
(* The theorems *)

LEMMA InitCursors == Init => CursorInv
<1> SUFFICES ASSUME Init, NEW d \in Devices PROVE StateTrue(d) /\ TaskTrue(d, task[d])
  BY DEF CursorInv
<1>1. db[d] = Fresh /\ task[d] = Idle /\ nextSequence = 1
  BY DEF Init, DeviceInit, StoreInit
<1>2. StateTrue(d)
  BY <1>1 DEF StateTrue, Fresh
<1>3. Idle.step = "idle"
  BY IdleFact
<1> QED BY <1>1, <1>2, <1>3, Vacuous DEF BareSteps

LEMMA CursorStep ==
  ASSUME LogFacts, SyncInv, CursorInv, [Next]_vars PROVE CursorInv' /\ Forward
<1>1. CASE UNCHANGED vars
  <2>1. /\ SyncInv' /\ UNCHANGED <<storeVars, task>> /\ StatesKept
    BY <1>1, SyncInvStep DEF vars, deviceVars, StatesKept, SyncState
  <2> QED BY <2>1, TaskKept DEF CursorInv, Forward
<1>2. ASSUME Next, NEW d \in Devices,
             \/ Change(d) \/ Decide(d) \/ Clear(d) \/ StartSync(d) \/ LoseAnswers(d)
             \/ Install(d) \/ Interrupt(d)
             \/ RequestEnrollment(d) \/ StartPublish(d) \/ FetchSnapshot(d) \/ RequestAdvance(d)
      PROVE  CursorInv' /\ Forward
  <2>1. UNCHANGED scenario
    BY <1>2 DEF Next
  <2> QED BY <1>2, <2>1, OtherScreens, StartSyncForward, QuietSteps, InstallForward,
             RequestEnrollmentForward, FetchSnapshotForward, RequestAdvanceForward
<1>3. ASSUME Next, NEW d \in Devices, SyncStep(d) PROVE CursorInv' /\ Forward
  <2>1. UNCHANGED scenario
    BY <1>3 DEF Next
  <2> QED BY <1>3, <2>1, QuietSteps, ServePullForward, ReceivePageForward DEF SyncStep
<1>4. ASSUME Next, NEW d \in Devices, RecoveryStep(d) PROVE CursorInv' /\ Forward
  <2>1. UNCHANGED scenario
    BY <1>4 DEF Next
  <2> QED BY <1>4, <2>1, EnrollForward, QuietSteps, FetchTailForward, AdvanceForward
          DEF RecoveryStep
<1>5. ASSUME Next, NEW todo \in orphans, HandleOrphan(todo) PROVE CursorInv' /\ Forward
  <2>1. UNCHANGED scenario
    BY <1>5 DEF Next
  <2> QED BY <1>5, <2>1, OrphanForward
<1> QED BY <1>1, <1>2, <1>3, <1>4, <1>5 DEF Next

LEMMA LogFactsHold == Spec => []LogFacts
BY DevicesTransact, LogFactsCorrect, PTL

LEMMA CursorsCorrect == Spec => []CursorInv
BY InitCursors, CursorStep, SyncInvCorrect, LogFactsHold, PTL DEF Spec

\* The checkpoint a device holds is the hash of the canonical prefix that ends
\* at its cursor, whatever was appended, recovered or replaced since it was
\* written, and on whichever of the four ways it was written.
THEOREM CheckpointsTrue == Spec => []CheckpointHeld
<1>1. CursorInv => CheckpointHeld
  BY DEF CursorInv, StateTrue, HashOf, CheckpointHeld
<1> QED BY <1>1, CursorsCorrect, PTL

\* No device goes back in the history of its epoch: not when a page is served
\* late, nor when it enrolls again or recovers from an older snapshot.
THEOREM NeverBack == Spec => CursorForward
<1> DEFINE A == \A d \in Devices :
                  db'[d].stateEpoch = db[d].stateEpoch => db'[d].cursor >= db[d].cursor
<1>1. LogFacts /\ SyncInv /\ CursorInv /\ [Next]_vars => [A]_vars
  BY CursorStep DEF Forward
<1> HIDE DEF A
<1>2. Spec => [][A]_vars
  BY <1>1, SyncInvCorrect, LogFactsHold, CursorsCorrect, PTL DEF Spec
<1> QED BY <1>2 DEF A, CursorForward

-----------------------------------------------------------------------------
(* A device's own work. *)

\* An acceptance is in the log, and a refusal names the conflict that was
\* recorded for the operation.
TrueAnswer(a) ==
  /\ a.status = "accepted" => InHistory(a.op)
  /\ a.status = "conflict" => a.id \in DOMAIN conflicts /\ conflicts[a.id].op.opId = a.op

TrueAnswers(batch) == {a \in Answer : a.op \in batch /\ TrueAnswer(a)}

\* Epochs are numbered in the order in which they were opened.
NotAfter(e, f) == Opened(e) /\ Opened(f) /\ epochs[e].number <= epochs[f].number

\* A row with a number is that of one conflict of the server.
RowsTrue(rows) ==
  /\ \A r \in rows : r.id # 0 => conflicts[r.id].op.opId = r.op
  /\ \A r, s \in rows : r.id # 0 /\ r.id = s.id => r = s

\* The status of each operation: one in conflict was sent in an epoch the device was in.
OperationTrue(d, o) ==
  /\ outbox[o] = "accepted" => InHistory(o)
  /\ outbox[o] = "conflict" => NotAfter(ops[o].bookEpoch, db[d].stateEpoch)

WorkTrue(d) == RowsTrue(db[d].rows) /\ \A o \in Own(d) : OperationTrue(d, o)

\* What a push sends.
Sent(d, batch) == batch \subseteq OfEpoch(Own(d), db[d].stateEpoch)

\* The epoch of the device is not after e.
Reached(d, e) == db[d].stateEpoch # NoEpoch => NotAfter(db[d].stateEpoch, e)

NoConflicts(d) == \A o \in Own(d) : outbox[o] # "conflict"

\* The answers a task holds are true; the epoch it goes to is not an earlier one; and
\* when rows are about to be ignored, no operation needs them.
TaskWork(d, t) ==
  /\ t.step = "pushing" =>
       /\ Sent(d, t.batch) /\ t.todo \in Seq(t.batch)
       /\ t.accepted \in Seq(TrueAnswers(t.batch)) /\ t.others \in Seq(TrueAnswers(t.batch))
  /\ t.step \in {"settle", "record"} => Sent(d, t.batch) /\ t.answers \in Seq(TrueAnswers(t.batch))
  /\ t.step \in EnrollSteps => Reached(d, t.answer.epoch)
  /\ t.step = "setting aside" => db[d].stateEpoch # NoEpoch /\ db[d].stateEpoch # t.answer.epoch
  /\ t.step = "ignoring" => NoConflicts(d)
  /\ t.step = "installing" => Reached(d, t.snapshot.bookEpoch)
  /\ t.step \in AdvanceSteps => Reached(d, t.epoch)

WorkInv == \A d \in Devices : WorkTrue(d) /\ TaskWork(d, task[d])

-----------------------------------------------------------------------------
(* What no step takes away, and what most steps leave as it is *)

Grown ==
  /\ events \subseteq events'
  /\ \A i \in DOMAIN conflicts : i \in DOMAIN conflicts' /\ conflicts'[i].op = conflicts[i].op
  /\ \A e, f : NotAfter(e, f) => NotAfter(e, f)'
  /\ \A o \in DOMAIN ops : o \in DOMAIN ops' /\ ops'[o] = ops[o]
  /\ Tracked \subseteq Tracked'

LEMMA Grows ==
  ASSUME LogFacts, [TableNext]_storeVars, Tracked \subseteq Tracked',
         \A o \in DOMAIN ops : o \in DOMAIN ops' /\ ops'[o] = ops[o]
  PROVE  Grown
<1>1. TablesOK /\ EpochChain
  BY DEF LogFacts
<1>2. events \subseteq events'
  BY <1>1, EventsKept
<1>3. \A i \in DOMAIN conflicts : i \in DOMAIN conflicts' /\ conflicts'[i].op = conflicts[i].op
  BY <1>1, ConflictsFinal
<1>4. \A e, f : NotAfter(e, f) => NotAfter(e, f)'
  BY <1>1, StartsFinal DEF NotAfter, Opened
<1> QED BY <1>2, <1>3, <1>4 DEF Grown

LEMMA GrownFacts ==
  ASSUME SyncInv, Grown
  PROVE  /\ \A d : Own(d) \subseteq Own(d)'
         /\ \A o \in DOMAIN ops : InHistory(o) => InHistory(o)'
         /\ \A batch \in SUBSET DOMAIN ops : TrueAnswers(batch) \subseteq TrueAnswers(batch)'
<1>1. \A d : Own(d) \subseteq Own(d)'
  BY DEF Own, Grown, Tracked
<1>2. \A o \in DOMAIN ops : InHistory(o) => InHistory(o)'
  BY DEF InHistory, Grown
<1>3. ASSUME NEW batch \in SUBSET DOMAIN ops, NEW a \in TrueAnswers(batch) PROVE a \in TrueAnswers(batch)'
  <2>1. a \in Answer /\ a.op \in batch /\ TrueAnswer(a)
    BY <1>3 DEF TrueAnswers
  <2>2. a.status = "accepted" => InHistory(a.op)'
    BY <1>2, <2>1 DEF TrueAnswer
  <2>3. a.status = "conflict" => a.id \in DOMAIN conflicts' /\ conflicts'[a.id].op.opId = a.op
    BY <2>1 DEF TrueAnswer, Grown
  <2> QED BY <2>1, <2>2, <2>3 DEF TrueAnswers, TrueAnswer
<1> QED BY <1>1, <1>2, <1>3

\* The statuses a device answers for.
Told == {"accepted", "conflict"}

WorkState(d) == <<db[d].rows, db[d].stateEpoch>>

\* A device whose rows and epoch stay, and whose operations are told of
\* nothing new; it may issue one more.
Quiet(d) ==
  /\ WorkState(d)' = WorkState(d)
  /\ \A o \in Own(d)' : outbox'[o] \in Told => o \in Own(d) /\ outbox'[o] = outbox[o]

LEMMA QuietWork ==
  ASSUME SyncInv, Grown, NEW d \in Devices, Quiet(d), WorkTrue(d)
  PROVE  WorkTrue(d)'
<1>1. PICK e : e = db[d].stateEpoch
  OBVIOUS
<1>2. db'[d].stateEpoch = e /\ db'[d].rows = db[d].rows
  BY <1>1 DEF Quiet, WorkState
<1>3. RowsTrue(db[d].rows)'
  <2>1. \A r \in db[d].rows : r.id # 0 => r.id \in DOMAIN conflicts
    BY SyncTypes DEF IdsUpTo
  <2> QED BY <1>2, <2>1 DEF RowsTrue, WorkTrue, Grown
<1>4. ASSUME NEW o \in Own(d)' PROVE OperationTrue(d, o)'
  <2>1. outbox'[o] \in Told => o \in Own(d) /\ o \in DOMAIN ops /\ outbox'[o] = outbox[o]
    BY DEF Quiet, Own
  <2>2. outbox'[o] = "accepted" => InHistory(o)'
    BY <2>1, GrownFacts DEF Told, WorkTrue, OperationTrue
  <2>3. outbox'[o] = "conflict" => NotAfter(ops[o].bookEpoch, e)'
    BY <1>1, <2>1 DEF Told, WorkTrue, OperationTrue, Grown
  <2>4. NotAfter(ops[o].bookEpoch, e)' => NotAfter(ops[o].bookEpoch, db[d].stateEpoch)'
    BY <1>2 DEF NotAfter, Opened
  <2> QED BY <2>2, <2>3, <2>4 DEF OperationTrue
<1> QED BY <1>3, <1>4 DEF WorkTrue

\* No operation of the device is refused by the step.
NoneRefused(d) == \A o \in Own(d)' : outbox'[o] = "conflict" => o \in Own(d) /\ outbox[o] = "conflict"

LEMMA TaskWorkStays ==
  ASSUME SyncInv, Grown, NEW d \in Devices, db'[d].stateEpoch = db[d].stateEpoch,
         NEW t, t.step # "ignoring" \/ NoneRefused(d), TaskWork(d, t)
  PROVE  TaskWork(d, t)'
<1>1. PICK e : e = db[d].stateEpoch
  OBVIOUS
<1>2. \A f : Reached(d, f) => Reached(d, f)'
  <2>1. ASSUME NEW f, Reached(d, f), e # NoEpoch PROVE NotAfter(e, f)'
    BY <1>1, <2>1 DEF Reached, Grown
  <2>2. \A f : NotAfter(e, f)' => NotAfter(db[d].stateEpoch, f)'
    BY <1>1 DEF NotAfter, Opened
  <2> QED BY <1>1, <2>1, <2>2 DEF Reached
<1>3. ASSUME NEW batch, Sent(d, batch)
      PROVE  /\ Sent(d, batch)'
             /\ Seq(TrueAnswers(batch)) \subseteq Seq(TrueAnswers(batch)')
  <2>1. batch \subseteq Own(d) /\ batch \subseteq DOMAIN ops /\ \A o \in batch : ops[o].bookEpoch = e
    BY <1>1, <1>3 DEF Sent, OfEpoch, Own
  <2>2. \A o \in batch : o \in Own(d)' /\ ops'[o].bookEpoch = e
    BY <2>1, GrownFacts DEF Grown
  <2>3. Sent(d, batch)'
    BY <1>1, <2>2 DEF Sent, OfEpoch
  <2>4. TrueAnswers(batch) \subseteq TrueAnswers(batch)'
    BY <2>1, GrownFacts
  <2>5. PICK A : A = TrueAnswers(batch)
    OBVIOUS
  <2>6. PICK B : B = TrueAnswers(batch)'
    OBVIOUS
  <2>7. Seq(A) \subseteq Seq(B)
    BY <2>4, <2>5, <2>6, SeqMonotonic
  <2> QED BY <2>3, <2>5, <2>6, <2>7
<1>4. t.step = "pushing" => /\ Sent(d, t.batch)' /\ t.todo \in Seq(t.batch)
                            /\ t.accepted \in Seq(TrueAnswers(t.batch)') /\ t.others \in Seq(TrueAnswers(t.batch)')
  BY <1>3 DEF TaskWork
<1>5. t.step \in {"settle", "record"} => Sent(d, t.batch)' /\ t.answers \in Seq(TrueAnswers(t.batch)')
  BY <1>3 DEF TaskWork
<1>6. t.step = "setting aside" => db'[d].stateEpoch # NoEpoch /\ db'[d].stateEpoch # t.answer.epoch
  BY DEF TaskWork
<1>7. t.step = "ignoring" => NoConflicts(d)'
  BY DEF TaskWork, NoConflicts, NoneRefused
<1>8. /\ t.step \in EnrollSteps => Reached(d, t.answer.epoch)'
      /\ t.step = "installing" => Reached(d, t.snapshot.bookEpoch)'
      /\ t.step \in AdvanceSteps => Reached(d, t.epoch)'
  BY <1>2 DEF TaskWork
<1> QED BY <1>4, <1>5, <1>6, <1>7, <1>8 DEF TaskWork

\* The new task of one device, and what its action did to its own tables.
LEMMA WorkAssembled ==
  ASSUME SyncInv, WorkInv, Grown, NEW d \in Devices, NEW t, Goto(d, t), TaskWork(d, t)',
         \A c \in Devices \ {d} : Quiet(c), Quiet(d) \/ WorkTrue(d)'
  PROVE  WorkInv'
<1>1. task'[d] = t /\ \A c \in Devices \ {d} : task'[c] = task[c]
  BY DEF Goto, SyncInv
<1>2. WorkTrue(d)' /\ TaskWork(d, task[d])'
  <2>1. WorkTrue(d)'
    BY QuietWork DEF WorkInv
  <2> QED BY <1>1, <2>1
<1>3. ASSUME NEW c \in Devices \ {d} PROVE WorkTrue(c)' /\ TaskWork(c, task[c])'
  <2>1. WorkTrue(c)'
    BY QuietWork DEF WorkInv
  <2>2. PICK u : u = task[c]
    OBVIOUS
  <2>3. TaskWork(c, u) /\ db'[c].stateEpoch = db[c].stateEpoch /\ NoneRefused(c)
    BY <2>2 DEF WorkInv, Quiet, WorkState, NoneRefused, Told
  <2>4. TaskWork(c, u)'
    BY <2>3, TaskWorkStays
  <2>5. task'[c] = u
    BY <1>1, <2>2
  <2> QED BY <2>1, <2>4, <2>5
<1> QED BY <1>2, <1>3 DEF WorkInv

\* The steps of a task that hold nothing of the device's work.
HoldsNothing(t) ==
  t.step \notin EnrollSteps \cup AdvanceSteps \cup {"pushing", "settle", "record", "installing"}

LEMMA NothingHeld == ASSUME NEW d, NEW t, HoldsNothing(t) PROVE TaskWork(d, t) /\ TaskWork(d, t)'
BY DEF HoldsNothing, TaskWork, EnrollSteps

\* No open row is closed, and no operation comes into conflict.
RowsStay ==
  \A c \in Devices : \A r \in db[c].rows : r.status = "open" =>
    \E s \in db'[c].rows : s.op = r.op /\ s.status = "open"

BoxStays ==
  \A o \in DOMAIN ops : /\ o \in DOMAIN ops' /\ ops'[o] = ops[o]
                        /\ outbox'[o] = "conflict" => outbox[o] = "conflict"

Stays == RowsStay /\ BoxStays

\* A new outbox that tells of nothing new.
BoxQuiet == BoxKept /\ \A o \in DOMAIN ops : outbox'[o] \in Told => outbox'[o] = outbox[o]

LEMMA BoxesQuiet ==
  ASSUME DevicesOK, NEW d
  PROVE  /\ UNCHANGED outbox => BoxQuiet
         /\ outbox' = Quarantine(outbox, d) => BoxQuiet
         /\ \A O, status : /\ O \subseteq Tracked /\ status \in Statuses \ (Told \cup {"untracked"})
                           /\ outbox' = [o \in DOMAIN outbox |-> IF o \in O THEN status ELSE outbox[o]]
                           => BoxQuiet
<1>1. outbox \in [DOMAIN ops -> Statuses] /\ DOMAIN outbox = DOMAIN ops
  BY DEF DevicesOK, DeviceTypeOK
<1>2. UNCHANGED outbox => BoxQuiet
  BY <1>1 DEF BoxQuiet, BoxKept
<1>3. outbox' = Quarantine(outbox, d) => BoxQuiet
  BY <1>1 DEF BoxQuiet, BoxKept, Quarantine, Told, Statuses
<1>4. ASSUME NEW O, NEW status, O \subseteq Tracked, status \in Statuses \ (Told \cup {"untracked"}),
             outbox' = [o \in DOMAIN outbox |-> IF o \in O THEN status ELSE outbox[o]]
      PROVE  BoxQuiet
  BY <1>1, <1>4 DEF BoxQuiet, BoxKept, Tracked
<1> QED BY <1>2, <1>3, <1>4

LEMMA BoxGrows ==
  ASSUME LogFacts, [TableNext]_storeVars, UNCHANGED ops, BoxKept PROVE Grown
<1>1. Tracked \subseteq Tracked'
  BY DEF Tracked, BoxKept
<1> QED BY <1>1, Grows

\* Tables that keep their rows and epochs, under an outbox that tells nothing new.
LEMMA QuietTables ==
  ASSUME SyncInv, UNCHANGED ops, BoxQuiet, NEW d \in Devices, WorkState(d)' = WorkState(d)
  PROVE  Quiet(d)
<1>1. \A o \in Own(d)' : o \in Own(d)
  BY DEF Own, BoxQuiet, BoxKept
<1>2. \A o \in Own(d) : outbox'[o] \in Told => outbox'[o] = outbox[o]
  BY DEF Own, BoxQuiet
<1> QED BY <1>1, <1>2 DEF Quiet

\* What an action of one device leaves of the tables of the others.
LEMMA OthersQuiet ==
  ASSUME SyncInv, UNCHANGED ops, BoxKept, NEW d \in Devices, NEW row, db' = [db EXCEPT ![d] = row],
         \A o \in DOMAIN ops : outbox'[o] \in Told /\ outbox'[o] # outbox[o] => ops[o].deviceId = d
  PROVE  \A c \in Devices \ {d} : Quiet(c)
<1> SUFFICES ASSUME NEW c \in Devices \ {d} PROVE Quiet(c)
  OBVIOUS
<1>1. WorkState(c)' = WorkState(c)
  BY SyncTypes DEF WorkState
<1>2. \A o \in Own(c)' : o \in Own(c)
  BY DEF Own, BoxKept
<1>3. \A o \in Own(c) : outbox'[o] \in Told => outbox'[o] = outbox[o]
  BY DEF Own
<1> QED BY <1>1, <1>2, <1>3 DEF Quiet

\* What a step that tells no device anything new does to the tables of the devices.
TellsNothing == UNCHANGED ops /\ BoxQuiet /\ \A c \in Devices : WorkState(c)' = WorkState(c)

LEMMA TellingStays == ASSUME TellsNothing PROVE Stays
BY DEF TellsNothing, BoxQuiet, WorkState, Stays, RowsStay, BoxStays, Told

LEMMA QuietStep ==
  ASSUME LogFacts, SyncInv, WorkInv, [TableNext]_storeVars, TellsNothing,
         NEW d \in Devices, NEW t, Goto(d, t), TaskWork(d, t) \/ TaskWork(d, t)'
  PROVE  WorkInv' /\ Stays
<1>1. Grown
  BY BoxGrows DEF TellsNothing, BoxQuiet
<1>2. \A c \in Devices : Quiet(c)
  BY QuietTables DEF TellsNothing
<1>3. TaskWork(d, t)'
  <2>1. NoneRefused(d) /\ db'[d].stateEpoch = db[d].stateEpoch
    BY <1>2 DEF Quiet, WorkState, NoneRefused, Told
  <2> QED BY <1>1, <2>1, TaskWorkStays
<1> QED BY <1>1, <1>2, <1>3, WorkAssembled, TellingStays

LEMMA QuietTaskKept ==
  ASSUME LogFacts, SyncInv, WorkInv, [TableNext]_storeVars, TellsNothing, NEW d \in Devices, UNCHANGED task
  PROVE  WorkInv' /\ Stays
<1>1. PICK t : t = task[d]
  OBVIOUS
<1>2. Goto(d, t) /\ TaskWork(d, t)
  BY <1>1, SyncTypes DEF Goto, WorkInv
<1> QED BY <1>2, QuietStep

-----------------------------------------------------------------------------
(* The steps that tell nothing new *)

LEMMA UntouchedTells == ASSUME SyncInv, UNCHANGED deviceVars PROVE TellsNothing
BY SyncTypes, BoxesQuiet DEF deviceVars, TellsNothing, WorkState

LEMMA FailedTells ==
  ASSUME SyncInv, NEW O, NEW status, SettleFailed(O, status), O \subseteq Tracked,
         status \in Statuses \ (Told \cup {"untracked"})
  PROVE  TellsNothing
<1>1. BoxQuiet
  BY SyncTypes, BoxesQuiet DEF SettleFailed
<1> QED BY <1>1 DEF SettleFailed, TellsNothing, WorkState

LEMMA SetAsideTells == ASSUME SyncInv, NEW d, SetAside(d) PROVE TellsNothing
<1>1. BoxQuiet
  BY SyncTypes, BoxesQuiet DEF SetAside
<1> QED BY <1>1 DEF SetAside, TellsNothing, WorkState

\* A write of one device's tables that leaves its rows and epoch.
LEMMA RowTells ==
  ASSUME SyncInv, UNCHANGED <<ops, outbox>>, NEW d \in Devices, NEW row, db' = [db EXCEPT ![d] = row],
         row.rows = db[d].rows, row.stateEpoch = db[d].stateEpoch
  PROVE  TellsNothing
<1>1. BoxQuiet
  BY SyncTypes, BoxesQuiet
<1> QED BY <1>1, SyncTypes DEF TellsNothing, WorkState

LEMMA ProfileTells ==
  ASSUME SyncInv, NEW d \in Devices,
         \/ StopSync(d) \/ FinishBootstrap(d)
         \/ \E recovering, answer : WriteProfile(d, recovering, answer)
         \/ \E epoch : RenameEpoch(d, epoch)
  PROVE  TellsNothing
<1>1. PICK epoch, recovery : db' = [db EXCEPT ![d] = [db[d] EXCEPT !.epoch = epoch, !.recovery = recovery]]
  <2>1. db[d] \in Database
    BY SyncTypes
  <2>2. CASE StopSync(d)
    <3>1. [db[d] EXCEPT !.recovery = "required"] = [db[d] EXCEPT !.epoch = db[d].epoch, !.recovery = "required"]
      BY <2>1 DEF Database
    <3> QED BY <2>2, <3>1 DEF StopSync
  <2>3. CASE FinishBootstrap(d)
    <3>1. [db[d] EXCEPT !.recovery = "none"] = [db[d] EXCEPT !.epoch = db[d].epoch, !.recovery = "none"]
      BY <2>1 DEF Database
    <3> QED BY <2>3, <3>1 DEF FinishBootstrap
  <2>4. ASSUME NEW recovering, NEW answer, WriteProfile(d, recovering, answer)
        PROVE  db' = [db EXCEPT ![d] = [db[d] EXCEPT !.epoch = answer.epoch,
                                          !.recovery = EnrolledRecovery(d, recovering, answer)]]
    <3>1. PICK rec : rec = EnrolledRecovery(d, recovering, answer)
      OBVIOUS
    <3>2. db' = [db EXCEPT ![d].epoch = answer.epoch, ![d].recovery = rec]
      BY <2>4, <3>1 DEF WriteProfile
    <3> QED BY <3>1, <3>2, SyncTypes
  <2>5. ASSUME NEW epoch, RenameEpoch(d, epoch)
        PROVE  db' = [db EXCEPT ![d] = [db[d] EXCEPT !.epoch = epoch, !.recovery = db[d].recovery]]
    <3>1. [db[d] EXCEPT !.epoch = epoch] = [db[d] EXCEPT !.epoch = epoch, !.recovery = db[d].recovery]
      BY <2>1 DEF Database
    <3> QED BY <2>5, <3>1 DEF RenameEpoch
  <2> QED BY <2>2, <2>3, <2>4, <2>5
<1>2. PICK row : row = [db[d] EXCEPT !.epoch = epoch, !.recovery = recovery]
  OBVIOUS
<1>3. row.rows = db[d].rows /\ row.stateEpoch = db[d].stateEpoch
  <2>1. db[d] \in Database
    BY SyncTypes
  <2> QED BY <1>2, <2>1 DEF Database
<1>4. UNCHANGED <<ops, outbox>>
  BY DEF StopSync, FinishBootstrap, WriteProfile, RenameEpoch
<1> QED BY <1>1, <1>2, <1>3, <1>4, RowTells

LEMMA OneFieldTells ==
  ASSUME SyncInv, NEW d \in Devices,
         \/ EmptyBooks(d) \/ RejectResolutions(d)
         \/ \E o : BumpRevision(d, o)
         \/ \E r : MarkSent(d, r)
  PROVE  TellsNothing
<1>1. UNCHANGED <<ops, outbox>> /\ db[d] \in Database
  BY SyncTypes DEF EmptyBooks, RejectResolutions, BumpRevision, MarkSent
<1>2. CASE EmptyBooks(d)
  <2>1. PICK row : row = [db[d] EXCEPT !.projection = {}]
    OBVIOUS
  <2>2. db' = [db EXCEPT ![d] = row] /\ row.rows = db[d].rows /\ row.stateEpoch = db[d].stateEpoch
    BY <1>1, <1>2, <2>1 DEF EmptyBooks, Database
  <2> QED BY <1>1, <2>2, RowTells
<1>3. CASE RejectResolutions(d)
  <2>1. PICK new : new = {IF r.status = "pending" THEN [r EXCEPT !.status = "rejected"] ELSE r : r \in db[d].resolutions}
    OBVIOUS
  <2>2. PICK row : row = [db[d] EXCEPT !.resolutions = new]
    OBVIOUS
  <2>3. db' = [db EXCEPT ![d] = row]
    BY <1>3, <2>1, <2>2 DEF RejectResolutions
  <2>4. row.rows = db[d].rows /\ row.stateEpoch = db[d].stateEpoch
    BY <1>1, <2>2 DEF Database
  <2> QED BY <1>1, <2>3, <2>4, RowTells
<1>4. ASSUME NEW o, BumpRevision(d, o) PROVE TellsNothing
  <2>1. PICK row : row = [db[d] EXCEPT !.revision[ops[o].aggregateId] = Larger(@, ops[o].baseRevision + 1)]
    OBVIOUS
  <2>2. db' = [db EXCEPT ![d] = row]
    BY <1>4, <2>1 DEF BumpRevision
  <2>3. row.rows = db[d].rows /\ row.stateEpoch = db[d].stateEpoch
    BY <1>1, <2>1 DEF Database
  <2> QED BY <1>1, <2>2, <2>3, RowTells
<1>5. ASSUME NEW r, MarkSent(d, r) PROVE TellsNothing
  <2>1. PICK row : row = [db[d] EXCEPT !.resolutions = (@ \ {r}) \cup {[r EXCEPT !.status = "sent"]}]
    OBVIOUS
  <2>2. db' = [db EXCEPT ![d] = row]
    BY <1>5, <2>1 DEF MarkSent
  <2>3. row.rows = db[d].rows /\ row.stateEpoch = db[d].stateEpoch
    BY <1>1, <2>1 DEF Database
  <2> QED BY <1>1, <2>2, <2>3, RowTells
<1> QED BY <1>2, <1>3, <1>4, <1>5

LEMMA ApplyPageTells ==
  ASSUME SyncInv, NEW d \in Devices, NEW page, ApplyPage(d, db[d].stateEpoch, page)
  PROVE  TellsNothing
<1>1. UNCHANGED <<ops, outbox>> /\ db[d] \in Database
  BY SyncTypes DEF ApplyPage
<1>2. PICK row : row = [db[d] EXCEPT !.projection = @ \cup Replayed(d, page),
                                     !.applied = @ \cup {x.op.opId : x \in Unapplied(d, page)},
                                     !.revision = RevisionsWith(@, Unapplied(d, page)),
                                     !.stateEpoch = db[d].stateEpoch, !.cursor = page.cursor,
                                     !.checkpoint = page.checkpointHash]
  OBVIOUS
<1>3. db' = [db EXCEPT ![d] = row]
  BY <1>2 DEF ApplyPage
<1>4. row.rows = db[d].rows /\ row.stateEpoch = db[d].stateEpoch
  BY <1>1, <1>2 DEF Database
<1> QED BY <1>1, <1>3, <1>4, RowTells

LEMMA TellingStep ==
  ASSUME LogFacts, SyncInv, WorkInv, [TableNext]_storeVars, TellsNothing,
         NEW d \in Devices, NEW t, Goto(d, t), HoldsNothing(t)
  PROVE  WorkInv' /\ Stays
<1>1. TaskWork(d, t)
  BY NothingHeld
<1> QED BY <1>1, QuietStep

LEMMA ClearWork ==
  ASSUME LogFacts, SyncInv, WorkInv, NEW d \in Devices, Clear(d) PROVE WorkInv' /\ Stays
<1>1. TellsNothing
  BY SetAsideTells, ProfileTells, OneFieldTells DEF Clear
<1> QED BY <1>1, QuietTaskKept DEF Clear

LEMMA OrphanWork ==
  ASSUME LogFacts, SyncInv, WorkInv, UNCHANGED scenario, NEW todo \in orphans,
         HandleOrphan(todo), NEW d \in Devices
  PROVE  WorkInv' /\ Stays
<1>1. [TableNext]_storeVars /\ UNCHANGED <<deviceVars, task>>
  BY HandleOrphanStep DEF HandleOrphan
<1>2. TellsNothing
  BY <1>1, UntouchedTells
<1> QED BY <1>1, <1>2, QuietTaskKept


LEMMA PlainSteps ==
  ASSUME LogFacts, SyncInv, WorkInv, NEW d \in Devices, UNCHANGED scenario,
         \/ AuthorizePull(d) \/ ServePull(d) \/ PullAgain(d) \/ StartPublish(d) \/ Upload(d) \/ Interrupt(d)
         \/ FinishPublish(d) \/ Flush(d) \/ LoseAnswers(d) \/ StartSync(d) \/ Stop(d)
  PROVE  WorkInv' /\ Stays
<1>1. [TableNext]_storeVars
  <2>1. ServePull(d) => TableNext
    BY ServePullStep DEF TableNext
  <2> QED BY <2>1, AuthorizePullStep, PullAgainStep, StartPublishStep, UploadStep, InterruptStep,
             FinishPublishStep, FlushStep, LoseAnswersStep, StartSyncStep, StopStep
<1>2. task[d] \in Task /\ TaskRefs(d, task[d])
  BY DEF SyncInv
<1>3. TellsNothing
  <2>1. CASE \/ AuthorizePull(d) \/ ServePull(d) \/ PullAgain(d) \/ StartPublish(d) \/ Upload(d)
             \/ Interrupt(d)
    BY <2>1, UntouchedTells DEF AuthorizePull, ServePull, PullAgain, StartPublish, Upload, Interrupt
  <2>2. CASE FinishPublish(d) \/ Flush(d) \/ Stop(d)
    BY <2>2, UntouchedTells, ProfileTells, OneFieldTells DEF FinishPublish, Flush, Stop
  <2>3. CASE LoseAnswers(d)
    <3>1. task[d].batch \subseteq Tracked /\ "retryable" \in Statuses \ (Told \cup {"untracked"})
      BY <1>2, <2>3 DEF LoseAnswers, TaskRefs, Statuses, Told
    <3> QED BY <2>3, <3>1, FailedTells DEF LoseAnswers
  <2>4. CASE StartSync(d)
    <3>1. /\ OfEpoch(InStatus(d, {"retryable"}), db[d].epoch) \subseteq Tracked
          /\ "pending" \in Statuses \ (Told \cup {"untracked"})
      BY DEF OfEpoch, InStatus, Own, Tracked, Statuses, Told
    <3> QED BY <2>4, <3>1, UntouchedTells, FailedTells DEF StartSync
  <2> QED BY <2>1, <2>2, <2>3, <2>4
<1>4. \E t : Goto(d, t) /\ HoldsNothing(t)
  <2>1. CASE AuthorizePull(d)
    <3>1. task[d] \in PullTask
      BY <1>2, <2>1, TaskKinds DEF AuthorizePull
    <3>2. HoldsNothing(Idle) /\ HoldsNothing([task[d] EXCEPT !.step = "granted"])
      BY <3>1 DEF HoldsNothing, Idle, PullTask, EnrollSteps, AdvanceSteps
    <3> QED BY <2>1, <3>2 DEF AuthorizePull
  <2>2. CASE Upload(d)
    <3>1. task[d] \in PublishTask
      BY <1>2, <2>2, TaskKinds DEF Upload
    <3>2. HoldsNothing(Idle) /\ HoldsNothing([task[d] EXCEPT !.step = "published"])
      BY <3>1 DEF HoldsNothing, Idle, PublishTask, EnrollSteps, AdvanceSteps
    <3> QED BY <2>2, <3>2 DEF Upload
  <2>3. CASE Flush(d)
    <3>1. task[d] \in FlushTask
      BY <1>2, <2>3, TaskKinds DEF Flush
    <3>2. \A r : HoldsNothing([task[d] EXCEPT !.todo = @ \ {r}])
      BY <2>3, <3>1 DEF HoldsNothing, FlushTask, Flush, EnrollSteps, AdvanceSteps
    <3> QED BY <2>3, <3>2 DEF Flush
  <2>4. CASE ServePull(d) \/ StartPublish(d) \/ LoseAnswers(d) \/ PullAgain(d) \/ StartSync(d)
    <3>1. PICK t : Goto(d, t) /\ t.step \in {"page", "publishing", "refresh", "pull"}
      <4>1. CASE ServePull(d)
        BY <4>1 DEF ServePull
      <4>2. CASE StartPublish(d)
        BY <4>2 DEF StartPublish
      <4>3. CASE LoseAnswers(d)
        BY <4>3 DEF LoseAnswers
      <4>4. CASE PullAgain(d) \/ StartSync(d)
        BY <4>4 DEF PullAgain, StartSync, Pulling
      <4> QED BY <2>4, <4>1, <4>2, <4>3, <4>4
    <3>2. HoldsNothing(t)
      BY <3>1 DEF HoldsNothing, EnrollSteps, AdvanceSteps
    <3> QED BY <3>1, <3>2
  <2>5. CASE FinishPublish(d) \/ Interrupt(d) \/ Stop(d)
    <3>1. HoldsNothing(Idle)
      BY DEF HoldsNothing, Idle, EnrollSteps, AdvanceSteps
    <3> QED BY <2>5, <3>1 DEF FinishPublish, Interrupt, Stop
  <2> QED BY <2>1, <2>2, <2>3, <2>4, <2>5
<1> QED BY <1>1, <1>3, <1>4, TellingStep

-----------------------------------------------------------------------------
(* The steps that learn something and leave the tables of the devices alone *)

LEMMA LearningStep ==
  ASSUME LogFacts, SyncInv, WorkInv, [TableNext]_storeVars, UNCHANGED deviceVars,
         NEW d \in Devices, NEW t, Goto(d, t), TaskWork(d, t)'
  PROVE  WorkInv' /\ Stays
<1>1. TellsNothing
  BY UntouchedTells
<1> QED BY <1>1, QuietStep

\* The task of a device, as what is known after the step reads it.
LEMMA TaskAfter ==
  ASSUME LogFacts, SyncInv, WorkInv, [TableNext]_storeVars, UNCHANGED deviceVars, NEW d \in Devices
  PROVE  Grown /\ TaskWork(d, task[d]) /\ \A t : TaskWork(d, t) => TaskWork(d, t)'
<1>1. TellsNothing
  BY UntouchedTells
<1>2. Grown /\ db'[d].stateEpoch = db[d].stateEpoch
  BY <1>1, BoxGrows DEF TellsNothing, BoxQuiet, WorkState
<1>3. NoneRefused(d)
  BY DEF NoneRefused, Own, deviceVars
<1> QED BY <1>2, <1>3, TaskWorkStays DEF WorkInv

\* A task that carries the sync state is in the epoch the device is in, which was opened.
LEMMA StateHeld ==
  ASSUME SyncInv, CursorInv, NEW d \in Devices, task[d].step \in SyncSteps
  PROVE  task[d].state.epoch = db[d].stateEpoch /\ Opened(db[d].stateEpoch)
<1>1. task[d].state \in Cursor
  <2>1. \/ task[d] \in PullTask \/ task[d] \in PageTask \/ task[d] \in StateTask
        \/ task[d] \in PushTask \/ task[d] \in SettleTask \/ task[d] \in FlushTask
    BY TaskKinds, SyncTypes DEF SyncSteps
  <2> QED BY <2>1 DEF PullTask, PageTask, StateTask, PushTask, SettleTask, FlushTask
<1>2. task[d].state.epoch = db[d].stateEpoch /\ StateTrue(d)
  BY DEF CursorInv, TaskTrue
<1>3. task[d].state.epoch # NoEpoch
  BY <1>1, NullAssumption DEF Cursor
<1> QED BY <1>2, <1>3 DEF StateTrue

LEMMA StartPushWork ==
  ASSUME LogFacts, SyncInv, CursorInv, WorkInv, NEW d \in Devices, UNCHANGED scenario, StartPush(d)
  PROVE  WorkInv' /\ Stays
<1>1. UNCHANGED storeVars
  BY DEF StartPush
<1>2. task[d].state.epoch = db[d].stateEpoch
  BY StateHeld DEF StartPush, SyncSteps
<1>3. PICK batch \in SUBSET OfEpoch(Own(d), db[d].stateEpoch) :
        \/ Goto(d, [step |-> "refresh", state |-> task[d].state])
           /\ (UNCHANGED deviceVars \/ SettleFailed(batch, "retryable"))
        \/ Goto(d, [step |-> "pushing", state |-> task[d].state, batch |-> batch,
                    todo |-> InSequence(batch), accepted |-> <<>>, others |-> <<>>])
           /\ UNCHANGED deviceVars
  BY <1>2, PushedBatch
<1>4. CASE /\ Goto(d, [step |-> "refresh", state |-> task[d].state])
           /\ UNCHANGED deviceVars \/ SettleFailed(batch, "retryable")
  <2>1. batch \subseteq Tracked /\ "retryable" \in Statuses \ (Told \cup {"untracked"})
    BY DEF OfEpoch, Own, Tracked, Statuses, Told
  <2>2. TellsNothing
    BY <1>4, <2>1, UntouchedTells, FailedTells
  <2>3. HoldsNothing([step |-> "refresh", state |-> task[d].state])
    BY DEF HoldsNothing, EnrollSteps, AdvanceSteps
  <2> QED BY <1>1, <1>4, <2>2, <2>3, TellingStep
<1>5. ASSUME NEW t, Goto(d, t), UNCHANGED deviceVars,
             t = [step |-> "pushing", state |-> task[d].state, batch |-> batch,
                  todo |-> InSequence(batch), accepted |-> <<>>, others |-> <<>>]
      PROVE  WorkInv' /\ Stays
  <2>1. InSequence(batch) \in Seq(batch)
    BY InSequenceFact, SyncTypes DEF OfEpoch
  <2>2. <<>> \in Seq(TrueAnswers(batch))
    BY EmptySeq
  <2>3. t.step = "pushing" /\ t.batch = batch /\ t.todo = InSequence(batch)
        /\ t.accepted = <<>> /\ t.others = <<>>
    BY <1>5
  <2>4. TaskWork(d, t)
    BY <2>1, <2>2, <2>3 DEF TaskWork, Sent, EnrollSteps, AdvanceSteps
  <2>5. TaskWork(d, t)'
    BY <1>1, <1>5, <2>4, TaskAfter
  <2> QED BY <1>1, <1>5, <2>5, LearningStep
<1> QED BY <1>3, <1>4, <1>5

\* One more operation of the push is answered.
LEMMA AnsweredWork ==
  ASSUME LogFacts, SyncInv, WorkInv, [TableNext]_storeVars, UNCHANGED deviceVars,
         NEW d \in Devices, task[d].step = "pushing", task[d].todo # <<>>,
         NEW answer \in Answer, answer.op = Head(task[d].todo),
         answer.status = "accepted" => InHistory(answer.op)',
         answer.status = "conflict" => answer.id \in DOMAIN conflicts'
                                       /\ conflicts'[answer.id].op.opId = answer.op,
         NEW t, Goto(d, t),
         \/ t = [task[d] EXCEPT !.todo = Tail(@), !.accepted = Append(@, answer)]
         \/ t = [task[d] EXCEPT !.todo = Tail(@), !.others = Append(@, answer)]
  PROVE  WorkInv' /\ Stays
<1>1. PICK u : u = task[d]
  OBVIOUS
<1>2. u \in PushTask /\ u.step = "pushing" /\ u.todo # <<>> /\ TaskWork(d, u)'
  BY <1>1, TaskAfter, TaskKinds, SyncTypes
<1>3. PICK batch : batch = u.batch
  OBVIOUS
<1>4. PICK A : A = TrueAnswers(batch)'
  OBVIOUS
<1>5. Sent(d, batch)' /\ u.todo \in Seq(batch) /\ u.accepted \in Seq(A) /\ u.others \in Seq(A)
  BY <1>2, <1>3, <1>4 DEF TaskWork
<1>6. Tail(u.todo) \in Seq(batch) /\ Head(u.todo) \in batch
  BY <1>2, <1>5, HeadTailProperties
<1>7. answer \in A
  BY <1>1, <1>4, <1>6 DEF TrueAnswers, TrueAnswer
<1>8. /\ t.step = "pushing" /\ t.batch = batch /\ t.todo = Tail(u.todo)
      /\ t.accepted \in {u.accepted, Append(u.accepted, answer)}
      /\ t.others \in {u.others, Append(u.others, answer)}
  BY <1>1, <1>2, <1>3 DEF PushTask
<1>9. t.todo \in Seq(batch) /\ t.accepted \in Seq(A) /\ t.others \in Seq(A)
  <2>1. Append(u.accepted, answer) \in Seq(A) /\ Append(u.others, answer) \in Seq(A)
    BY <1>5, <1>7, AppendProperties
  <2> QED BY <1>5, <1>6, <1>8, <2>1
<1>10. TaskWork(d, t)'
  BY <1>4, <1>5, <1>8, <1>9 DEF TaskWork, EnrollSteps, AdvanceSteps
<1> QED BY <1>10, LearningStep

LEMMA HandleNextWork ==
  ASSUME LogFacts, SyncInv, WorkInv, NEW d \in Devices, UNCHANGED scenario, HandleNext(d)
  PROVE  WorkInv' /\ Stays
<1>1. [TableNext]_storeVars /\ UNCHANGED deviceVars /\ task[d].step = "pushing" /\ task[d].todo # <<>>
  BY HandleNextStep DEF HandleNext
<1>2. PICK o : o = Head(task[d].todo)
  OBVIOUS
<1>3. o \in Own(d) /\ o \in OpIds /\ ops[o].opId = o
  <2>1. task[d].todo \in Seq(task[d].batch) /\ task[d].batch \subseteq Own(d)
    BY <1>1 DEF WorkInv, TaskWork, Sent, OfEpoch
  <2>2. o \in Own(d)
    BY <1>1, <1>2, <2>1, HeadTailProperties
  <2> QED BY <2>2, OpsFact, SyncTypes DEF Own
<1>4. ASSUME NEW v \in Verdicts, Accept(ops[o], v),
             Goto(d, [task[d] EXCEPT !.todo = Tail(task[d].todo),
                        !.accepted = Append(@, [op |-> o, status |-> "accepted", id |-> 0])])
      PROVE  WorkInv' /\ Stays
  <2>1. PICK answer : answer = [op |-> o, status |-> "accepted", id |-> 0]
    OBVIOUS
  <2>2. answer \in Answer /\ answer.op = o /\ answer.status = "accepted"
    BY <1>3, <2>1 DEF Answer
  <2>3. ops' = ops
    BY <1>1 DEF deviceVars
  <2>4. InHistory(o)'
    <3>1. CASE Insert(ops[o], v)
      <4>1. PICK new : new = [op |-> ops[o], bookSequence |-> nextSequence,
                              aggregateRevision |-> CurrentRevision(ops[o].aggregateId) + 1]
        OBVIOUS
      <4>2. events' = events \cup {new} /\ new.op = ops[o]
        BY <3>1, <4>1 DEF Insert
      <4> QED BY <1>3, <2>3, <4>2 DEF InHistory
    <3>2. CASE Deduplicate(ops[o], v)
      <4>1. events' = events /\ Existing(ops[o]) # {}
        BY <3>2 DEF Deduplicate, storeVars
      <4> QED BY <1>3, <2>3, <4>1 DEF InHistory, Existing
    <3> QED BY <1>4, <3>1, <3>2 DEF Accept
  <2>5. InHistory(answer.op)'
    BY <2>2, <2>4 DEF InHistory
  <2>6. PICK t : t = [task[d] EXCEPT !.todo = Tail(@), !.accepted = Append(@, answer)]
    OBVIOUS
  <2>7. Goto(d, t)
    BY <1>4, <2>1, <2>6
  <2> QED BY <1>1, <1>2, <2>2, <2>5, <2>6, <2>7, AnsweredWork
<1>5. ASSUME NEW status \in {"conflict", "rejected", "retryable"}, NEW i \in Nat,
             status = "conflict" => i \in DOMAIN conflicts' /\ conflicts'[i].op = ops[o],
             Goto(d, [task[d] EXCEPT !.todo = Tail(task[d].todo),
                        !.others = Append(@, [op |-> o, status |-> status, id |-> i])])
      PROVE  WorkInv' /\ Stays
  <2>1. PICK answer : answer = [op |-> o, status |-> status, id |-> i]
    OBVIOUS
  <2>2. answer \in Answer /\ answer.op = o /\ answer.status = status /\ answer.id = i
    BY <1>3, <2>1 DEF Answer
  <2>3. PICK t : t = [task[d] EXCEPT !.todo = Tail(@), !.others = Append(@, answer)]
    OBVIOUS
  <2>4. Goto(d, t)
    BY <1>5, <2>1, <2>3
  <2>5. answer.status # "accepted"
    BY <1>5, <2>2
  <2>6. answer.status = "conflict" => answer.id \in DOMAIN conflicts'
                                      /\ conflicts'[answer.id].op.opId = answer.op
    BY <1>3, <1>5, <2>2
  <2> QED BY <1>1, <1>2, <2>2, <2>3, <2>4, <2>5, <2>6, AnsweredWork
<1>6. \A i \in DOMAIN conflicts' : i \in Nat
  <2>1. conflicts' \in Seq(Conflict)
    BY <1>1, StoreStep, SyncTypes DEF TablesOK, StoreTypeOK
  <2> QED BY <2>1
<1>7. ASSUME NEW v \in Verdicts, NEW i \in DOMAIN conflicts', conflicts'[i].op = ops[o],
             Goto(d, [task[d] EXCEPT !.todo = Tail(task[d].todo),
                        !.others = Append(@, [op |-> o, status |-> StatusOf(Refusal(ops[o], v)), id |-> i])])
      PROVE  WorkInv' /\ Stays
  <2>1. StatusOf(Refusal(ops[o], v)) \in {"conflict", "rejected", "retryable"}
    BY DEF StatusOf
  <2> QED BY <1>5, <1>6, <1>7, <2>1
<1> QED BY <1>2, <1>4, <1>5, <1>7 DEF HandleNext

LEMMA ReceiveAnswersWork ==
  ASSUME LogFacts, SyncInv, WorkInv, NEW d \in Devices, UNCHANGED scenario, ReceiveAnswers(d)
  PROVE  WorkInv' /\ Stays
<1>1. UNCHANGED <<storeVars, deviceVars>>
  BY DEF ReceiveAnswers
<1>2. PICK u : u = task[d]
  OBVIOUS
<1>3. TaskWork(d, u) /\ u.step = "pushing"
  BY <1>2 DEF WorkInv, ReceiveAnswers
<1>4. PICK A : A = TrueAnswers(u.batch)
  OBVIOUS
<1>5. u.accepted \o u.others \in Seq(A) /\ Sent(d, u.batch)
  BY <1>3, <1>4, ConcatProperties DEF TaskWork
<1>6. PICK t : t = [step |-> "settle", state |-> u.state, batch |-> u.batch,
                    answers |-> u.accepted \o u.others]
  OBVIOUS
<1>7. Goto(d, t)
  BY <1>2, <1>6 DEF ReceiveAnswers
<1>8. t.step = "settle" /\ t.batch = u.batch /\ t.answers = u.accepted \o u.others
  BY <1>6
<1>9. TaskWork(d, t)
  BY <1>4, <1>5, <1>8 DEF TaskWork, EnrollSteps, AdvanceSteps
<1>10. TaskWork(d, t)'
  BY <1>1, <1>9, TaskAfter
<1> QED BY <1>1, <1>7, <1>10, LearningStep

\* Epochs opened one after the other, of which the book's is the last.
EpochsOrdered ==
  /\ \A e, f, g : NotAfter(e, f) /\ NotAfter(f, g) => NotAfter(e, g)
  /\ \A e, f : NotAfter(e, f) /\ NotAfter(f, e) => e = f
  /\ \A e : Opened(e) => NotAfter(e, e) /\ (bookEpoch # NoEpoch => NotAfter(e, bookEpoch))

LEMMA OrderOfEpochs == TablesOK /\ EpochChain => EpochsOrdered
<1> SUFFICES ASSUME TablesOK, EpochChain PROVE EpochsOrdered
  OBVIOUS
<1>1. \A e \in Epochs : epochs[e].number \in Nat
  BY DEF TablesOK, StoreTypeOK, EpochRow
<1>2. EpochOpen
  BY OpenEpoch
<1> QED BY <1>1, <1>2 DEF EpochsOrdered, NotAfter, Opened, EpochChain, EpochOpen

\* An epoch a device is in, and the book's after the step.
LEMMA OpenedNext ==
  ASSUME LogFacts, [TableNext]_storeVars, NEW e, Opened(e), bookEpoch' # NoEpoch
  PROVE  NotAfter(e, bookEpoch)'
<1>1. Opened(e)' /\ (TablesOK /\ EpochChain)'
  BY LogStays, TablesStep, EpochChainStep DEF LogFacts
<1>2. EpochsOrdered'
  BY <1>1, OrderOfEpochs, PTL
<1> QED BY <1>1, <1>2 DEF EpochsOrdered

\* So the epoch of a device is not after the one its request is answered with.
LEMMA ReachedNext ==
  ASSUME LogFacts, CursorInv, [TableNext]_storeVars, UNCHANGED deviceVars, NEW d \in Devices,
         bookEpoch' # NoEpoch, NEW e, e = bookEpoch'
  PROVE  Reached(d, e)'
<1>1. PICK f : f = db[d].stateEpoch
  OBVIOUS
<1>2. db'[d].stateEpoch = f
  BY <1>1 DEF deviceVars
<1>3. f # NoEpoch => NotAfter(f, bookEpoch)'
  BY <1>1, OpenedNext DEF CursorInv, StateTrue
<1>4. NotAfter(f, bookEpoch)' => NotAfter(db[d].stateEpoch, e)'
  BY <1>2 DEF NotAfter, Opened
<1> QED BY <1>2, <1>3, <1>4 DEF Reached

LEMMA RequestEnrollmentWork ==
  ASSUME LogFacts, SyncInv, CursorInv, WorkInv, NEW d \in Devices, UNCHANGED scenario, RequestEnrollment(d)
  PROVE  WorkInv' /\ Stays
<1>1. [TableNext]_storeVars /\ UNCHANGED deviceVars
  BY RequestEnrollmentStep DEF RequestEnrollment
<1>2. PICK t : Goto(d, t) /\ t.step = "enrolling" /\ t.answer.epoch = bookEpoch'
  BY DEF RequestEnrollment
<1>3. bookEpoch' # NoEpoch
  BY NullAssumption DEF RequestEnrollment, CreateBook, storeVars
<1>4. PICK e : e = t.answer.epoch
  OBVIOUS
<1>5. Reached(d, e)'
  BY <1>1, <1>2, <1>3, <1>4, ReachedNext
<1>6. Reached(d, t.answer.epoch)'
  BY <1>4, <1>5 DEF Reached, NotAfter, Opened
<1>7. TaskWork(d, t)'
  BY <1>2, <1>6 DEF TaskWork, AdvanceSteps
<1> QED BY <1>1, <1>2, <1>7, LearningStep

LEMMA FetchSnapshotWork ==
  ASSUME LogFacts, SyncInv, CursorInv, WorkInv, NEW d \in Devices, UNCHANGED scenario, FetchSnapshot(d)
  PROVE  WorkInv' /\ Stays
<1>1. UNCHANGED <<storeVars, deviceVars>>
  BY DEF FetchSnapshot
<1>2. PICK t : Goto(d, t) /\ t.step = "installing" /\ t.snapshot.bookEpoch = bookEpoch
  BY DEF FetchSnapshot, LatestSnapshots
<1>3. bookEpoch' # NoEpoch /\ bookEpoch' = bookEpoch
  BY <1>1 DEF FetchSnapshot, Authorized, storeVars
<1>4. PICK e : e = t.snapshot.bookEpoch
  OBVIOUS
<1>5. Reached(d, e)'
  BY <1>1, <1>2, <1>3, <1>4, ReachedNext
<1>6. Reached(d, t.snapshot.bookEpoch)'
  BY <1>4, <1>5 DEF Reached, NotAfter, Opened
<1>7. TaskWork(d, t)'
  BY <1>2, <1>6 DEF TaskWork, EnrollSteps, AdvanceSteps
<1> QED BY <1>1, <1>2, <1>7, LearningStep

LEMMA FetchTailWork ==
  ASSUME LogFacts, SyncInv, WorkInv, NEW d \in Devices, UNCHANGED scenario, FetchTail(d)
  PROVE  WorkInv' /\ Stays
<1>1. [TableNext]_storeVars /\ UNCHANGED deviceVars
  BY FetchTailStep DEF FetchTail
<1>2. task[d] \in InstallTask /\ task[d].step = "installing" /\ TaskWork(d, task[d])
  BY TaskKinds, SyncTypes DEF FetchTail, WorkInv
<1>3. CASE Goto(d, Idle)
  <2>1. HoldsNothing(Idle)
    BY DEF HoldsNothing, Idle, EnrollSteps, AdvanceSteps
  <2> QED BY <1>1, <1>3, <2>1, NothingHeld, LearningStep
<1>4. ASSUME NEW page, Goto(d, WithPage(task[d], page)) PROVE WorkInv' /\ Stays
  <2>1. PICK t : t = WithPage(task[d], page)
    OBVIOUS
  <2>2. t.step = "installing" /\ t.snapshot = task[d].snapshot
    BY <1>2, <2>1 DEF WithPage, InstallTask
  <2>3. TaskWork(d, t)
    BY <1>2, <2>2 DEF TaskWork, EnrollSteps, AdvanceSteps
  <2>4. TaskWork(d, t)'
    BY <1>1, <2>3, TaskAfter
  <2> QED BY <1>1, <1>4, <2>1, <2>4, LearningStep
<1> QED BY <1>3, <1>4 DEF FetchTail

LEMMA RequestAdvanceWork ==
  ASSUME LogFacts, SyncInv, CursorInv, WorkInv, NEW d \in Devices, UNCHANGED scenario, RequestAdvance(d)
  PROVE  WorkInv' /\ Stays
<1>1. [TableNext]_storeVars /\ UNCHANGED deviceVars
  BY RequestAdvanceStep DEF RequestAdvance
<1>2. PICK e \in Epochs : /\ AdvanceEpoch(db[d].epoch, e)
                          /\ Goto(d, [step |-> "advancing", epoch |-> e, start |-> nextSequence])
  BY DEF RequestAdvance
<1>3. PICK t : t = [step |-> "advancing", epoch |-> e, start |-> nextSequence]
  OBVIOUS
<1>4. bookEpoch' = e /\ e # NoEpoch
  BY <1>2, NullAssumption DEF AdvanceEpoch
<1>5. Reached(d, e)'
  BY <1>1, <1>4, ReachedNext
<1>6. t.step = "advancing" /\ t.epoch = e
  BY <1>3
<1>7. TaskWork(d, t)'
  BY <1>5, <1>6 DEF TaskWork, EnrollSteps, AdvanceSteps, Reached, NotAfter, Opened
<1> QED BY <1>1, <1>2, <1>3, <1>7, LearningStep

-----------------------------------------------------------------------------
(* The steps that write what a device says of its work *)

\* What a write of one device has to show: the others are told nothing new.
LEMMA OwnStep ==
  ASSUME LogFacts, SyncInv, WorkInv, UNCHANGED storeVars, Grown,
         NEW d \in Devices, \A c \in Devices \ {d} : Quiet(c),
         NEW row, db'[d] = row, RowsTrue(row.rows),
         \A o \in Own(d)' :
           /\ outbox'[o] = "accepted" => o \in DOMAIN ops /\ InHistory(o)
           /\ outbox'[o] = "conflict" => NotAfter(ops'[o].bookEpoch, row.stateEpoch),
         NEW t, Goto(d, t), TaskWork(d, t)'
  PROVE  WorkInv'
<1>1. UNCHANGED <<events, epochs, conflicts>>
  BY DEF storeVars
<1>2. ASSUME NEW o \in Own(d)' PROVE OperationTrue(d, o)'
  <2>1. PICK e : e = ops'[o].bookEpoch
    OBVIOUS
  <2>2. PICK f : f = row.stateEpoch
    OBVIOUS
  <2>3. outbox'[o] = "conflict" => NotAfter(e, f)
    BY <2>1, <2>2
  <2>4. outbox'[o] = "conflict" => NotAfter(e, f)'
    BY <1>1, <2>3 DEF NotAfter, Opened
  <2>5. outbox'[o] = "conflict" => NotAfter(ops[o].bookEpoch, db[d].stateEpoch)'
    BY <2>1, <2>2, <2>4 DEF NotAfter, Opened
  <2>6. outbox'[o] = "accepted" => InHistory(o)'
    BY GrownFacts
  <2> QED BY <2>5, <2>6 DEF OperationTrue
<1>3. RowsTrue(db[d].rows)'
  BY <1>1 DEF RowsTrue
<1>4. WorkTrue(d)'
  BY <1>2, <1>3 DEF WorkTrue
<1> QED BY <1>4, WorkAssembled

\* The same for a write that issues no operation.
OnlyOwn(d) ==
  /\ UNCHANGED ops /\ BoxKept
  /\ \A o \in DOMAIN ops : outbox'[o] \in Told /\ outbox'[o] # outbox[o] => ops[o].deviceId = d

OwnTrue(d, row) ==
  /\ RowsTrue(row.rows)
  /\ \A o \in Own(d) :
       /\ outbox'[o] = "accepted" => InHistory(o)
       /\ outbox'[o] = "conflict" => NotAfter(ops[o].bookEpoch, row.stateEpoch)

LEMMA OwnWrite ==
  ASSUME LogFacts, SyncInv, WorkInv, UNCHANGED storeVars, NEW d \in Devices, OnlyOwn(d),
         NEW row, db' = [db EXCEPT ![d] = row], OwnTrue(d, row), NEW t, Goto(d, t), TaskWork(d, t)'
  PROVE  WorkInv'
<1>1. Grown
  BY BoxGrows DEF OnlyOwn
<1>2. \A c \in Devices \ {d} : Quiet(c)
  BY OthersQuiet DEF OnlyOwn
<1>3. db'[d] = row
  BY SyncTypes
<1>4. \A o \in Own(d)' : o \in Own(d) /\ o \in DOMAIN ops
  BY DEF Own, OnlyOwn, BoxKept
<1>5. ASSUME NEW o \in Own(d)'
      PROVE  /\ outbox'[o] = "accepted" => o \in DOMAIN ops /\ InHistory(o)
             /\ outbox'[o] = "conflict" => NotAfter(ops'[o].bookEpoch, row.stateEpoch)
  BY <1>4 DEF OwnTrue, OnlyOwn
<1>6. RowsTrue(row.rows)
  BY DEF OwnTrue
<1> QED BY <1>1, <1>2, <1>3, <1>5, <1>6, OwnStep

\* What is known of a device's own operations, in the epoch it is in.
LEMMA OwnFacts ==
  ASSUME SyncInv, WorkInv, NEW d \in Devices
  PROVE  /\ RowsTrue(db[d].rows) /\ db[d] \in Database
         /\ \A o \in Own(d) :
              /\ outbox[o] = "accepted" => InHistory(o)
              /\ outbox[o] = "conflict" => NotAfter(ops[o].bookEpoch, db[d].stateEpoch)
BY SyncTypes DEF WorkInv, WorkTrue, OperationTrue

\* A write of the rows alone, which closes none that is open.
LEMMA RowsWrite ==
  ASSUME LogFacts, SyncInv, WorkInv, UNCHANGED <<storeVars, ops, outbox>>, NEW d \in Devices,
         NEW rows, db' = [db EXCEPT ![d].rows = rows], RowsTrue(rows),
         NEW t, Goto(d, t), t.step # "ignoring", TaskWork(d, t)
  PROVE  /\ WorkInv'
         /\ (\A r \in db[d].rows : r.status = "open" => \E s \in rows : s.op = r.op /\ s.status = "open")
            => Stays
<1>1. PICK row : row = [db[d] EXCEPT !.rows = rows]
  OBVIOUS
<1>2. db' = [db EXCEPT ![d] = row]
  BY <1>1
<1>3. row.rows = rows /\ row.stateEpoch = db[d].stateEpoch
  BY <1>1, OwnFacts DEF Database
<1>4. BoxKept
  BY BoxesQuiet, SyncTypes DEF BoxQuiet
<1>5. OnlyOwn(d) /\ OwnTrue(d, row)
  BY <1>3, <1>4, OwnFacts DEF OnlyOwn, OwnTrue
<1>6. TaskWork(d, t)'
  <2>1. Grown /\ db'[d].stateEpoch = db[d].stateEpoch
    BY <1>2, <1>3, <1>4, BoxGrows, SyncTypes
  <2> QED BY <2>1, TaskWorkStays
<1>7. db'[d].rows = rows /\ \A c \in Devices \ {d} : db'[c] = db[c]
  BY <1>2, <1>3, SyncTypes
<1>8. BoxStays
  BY DEF BoxStays
<1>9. ASSUME \A r \in db[d].rows : r.status = "open" => \E s \in rows : s.op = r.op /\ s.status = "open"
      PROVE  RowsStay
  BY <1>7, <1>9 DEF RowsStay
<1> QED BY <1>2, <1>5, <1>6, <1>8, <1>9, OwnWrite DEF Stays

LEMMA BlockPageWork ==
  ASSUME LogFacts, SyncInv, WorkInv, UNCHANGED storeVars, NEW d \in Devices, NEW page,
         BlockPage(d, page), Goto(d, Idle)
  PROVE  WorkInv' /\ Stays
<1>1. UNCHANGED <<ops, outbox>>
  BY DEF BlockPage
<1>2. PICK o, new : /\ new.id = 0
                    /\ db' = [db EXCEPT ![d].rows = IF OpenRowsFor(d, o) # {} THEN @ ELSE @ \cup {new}]
  <2>1. PICK x \in page.events :
          db' = [db EXCEPT ![d].rows =
                   IF OpenRowsFor(d, x.op.opId) # {} THEN @
                   ELSE @ \cup {[id |-> 0, op |-> x.op.opId, canonicalOpId |-> x.op.opId,
                                 canonicalRevision |-> x.aggregateRevision, status |-> "open"]}]
    BY DEF BlockPage
  <2>2. PICK new : new = [id |-> 0, op |-> x.op.opId, canonicalOpId |-> x.op.opId,
                          canonicalRevision |-> x.aggregateRevision, status |-> "open"]
    OBVIOUS
  <2>3. new.id = 0
    BY <2>2
  <2> QED BY <2>1, <2>2, <2>3
<1>3. PICK rows : rows = IF OpenRowsFor(d, o) # {} THEN db[d].rows ELSE db[d].rows \cup {new}
  OBVIOUS
<1>4. db' = [db EXCEPT ![d].rows = rows]
  BY <1>2, <1>3
<1>5. RowsTrue(rows) /\ db[d].rows \subseteq rows
  BY <1>2, <1>3, OwnFacts DEF RowsTrue
<1>6. PICK t : t = Idle
  OBVIOUS
<1>7. Goto(d, t) /\ t.step # "ignoring" /\ TaskWork(d, t)
  BY <1>6 DEF TaskWork, Idle, EnrollSteps, AdvanceSteps
<1> QED BY <1>1, <1>4, <1>5, <1>7, RowsWrite

LEMMA ReceivePageWork ==
  ASSUME LogFacts, SyncInv, CursorInv, WorkInv, NEW d \in Devices, UNCHANGED scenario, ReceivePage(d)
  PROVE  WorkInv' /\ Stays
<1>1. UNCHANGED storeVars
  BY DEF ReceivePage
<1>2. task[d].state.epoch = db[d].stateEpoch
  BY StateHeld DEF ReceivePage, SyncSteps
<1>3. CASE SetAside(d) /\ Goto(d, [step |-> "stop"])
  <2>1. HoldsNothing([step |-> "stop"])
    BY DEF HoldsNothing, EnrollSteps, AdvanceSteps
  <2> QED BY <1>1, <1>3, <2>1, SetAsideTells, TellingStep
<1>4. CASE ApplyPage(d, task[d].state.epoch, task[d].page) /\ Goto(d, AfterPage(d))
  <2>1. HoldsNothing(AfterPage(d))
    BY DEF HoldsNothing, AfterPage, Pulling, Idle, EnrollSteps, AdvanceSteps
  <2> QED BY <1>1, <1>2, <1>4, <2>1, ApplyPageTells, TellingStep
<1>5. CASE BlockPage(d, task[d].page) /\ Goto(d, Idle)
  BY <1>1, <1>5, BlockPageWork
<1> QED BY <1>3, <1>4, <1>5 DEF ReceivePage

\* The task that goes on with the answers it has, without the first, or without any.
LEMMA SettledTask ==
  ASSUME SyncInv, WorkInv, NEW d \in Devices, task[d].step \in {"settle", "record"}, task[d].answers # <<>>,
         NEW t, \/ t = Settled(d)
                \/ t = [Settled(d) EXCEPT !.answers = <<>>]
                \/ t = [task[d] EXCEPT !.step = "record"]
  PROVE  /\ TaskWork(d, t) /\ t.step # "ignoring"
         /\ Head(task[d].answers) \in TrueAnswers(task[d].batch) /\ Sent(d, task[d].batch)
<1>1. PICK u : u = task[d]
  OBVIOUS
<1>2. u \in SettleTask /\ u.step \in {"settle", "record"} /\ u.answers # <<>> /\ TaskWork(d, u)
  BY <1>1, TaskKinds, SyncTypes DEF WorkInv
<1>3. PICK A : A = TrueAnswers(u.batch)
  OBVIOUS
<1>4. u.answers \in Seq(A) /\ Sent(d, u.batch)
  BY <1>2, <1>3 DEF TaskWork
<1>5. Tail(u.answers) \in Seq(A) /\ Head(u.answers) \in A /\ <<>> \in Seq(A)
  BY <1>2, <1>4, HeadTailProperties, EmptySeq
<1>6. t.step \in {"settle", "record"} /\ t.batch = u.batch /\ t.answers \in {u.answers, Tail(u.answers), <<>>}
  BY <1>1, <1>2 DEF SettleTask, Settled
<1>7. t.answers \in Seq(A)
  BY <1>4, <1>5, <1>6
<1>8. TaskWork(d, t)
  BY <1>3, <1>4, <1>6, <1>7 DEF TaskWork, EnrollSteps, AdvanceSteps
<1> QED BY <1>1, <1>3, <1>4, <1>5, <1>6, <1>8

\* One operation of the device is told what became of it.
LEMMA ToldWork ==
  ASSUME LogFacts, SyncInv, WorkInv, UNCHANGED <<storeVars, ops, db>>, NEW d \in Devices, NEW o \in Own(d),
         NEW status \in Told, outbox' = [q \in DOMAIN outbox |-> IF q = o THEN status ELSE outbox[q]],
         status = "accepted" => InHistory(o),
         status = "conflict" => NotAfter(ops[o].bookEpoch, db[d].stateEpoch),
         NEW t, Goto(d, t), t.step # "ignoring", TaskWork(d, t)
  PROVE  WorkInv'
<1>1. outbox \in [DOMAIN ops -> Statuses] /\ o \in DOMAIN ops /\ outbox[o] # "untracked" /\ ops[o].deviceId = d
  BY SyncTypes DEF Own, DevicesOK, DeviceTypeOK
<1>2. BoxKept
  BY <1>1 DEF BoxKept, Statuses, Told
<1>3. \A q \in DOMAIN ops : outbox'[q] = IF q = o THEN status ELSE outbox[q]
  BY <1>1
<1>4. PICK row : row = db[d]
  OBVIOUS
<1>5. db' = [db EXCEPT ![d] = row]
  BY <1>4, SyncTypes
<1>6. OnlyOwn(d)
  BY <1>1, <1>2, <1>3 DEF OnlyOwn
<1>7. ASSUME NEW q \in Own(d)
      PROVE  /\ outbox'[q] = "accepted" => InHistory(q)
             /\ outbox'[q] = "conflict" => NotAfter(ops[q].bookEpoch, row.stateEpoch)
  <2>1. outbox'[q] = IF q = o THEN status ELSE outbox[q]
    BY <1>3 DEF Own
  <2> QED BY <1>4, <2>1, OwnFacts
<1>8. OwnTrue(d, row)
  BY <1>4, <1>7, OwnFacts DEF OwnTrue
<1>9. TaskWork(d, t)'
  <2>1. Grown
    BY <1>2, BoxGrows
  <2> QED BY <2>1, TaskWorkStays
<1> QED BY <1>5, <1>6, <1>8, <1>9, OwnWrite

\* What a sync says of an operation as a refusal, and then goes on to record.
Marking(d) ==
  LET answer == Head(task[d].answers)
  IN /\ task[d].step = "settle" /\ answer.op \in Own(d) /\ answer.status = "conflict"
     /\ UNCHANGED <<ops, db>> /\ SettleFailed({answer.op}, "conflict") /\ GoOn(d, "record")

LEMMA SettleWork ==
  ASSUME LogFacts, SyncInv, CursorInv, WorkInv, NEW d \in Devices, UNCHANGED scenario, Settle(d)
  PROVE  WorkInv' /\ (Stays \/ Marking(d))
<1>1. PICK answer : answer = Head(task[d].answers)
  OBVIOUS
<1>2. task[d].step = "settle" /\ task[d].answers # <<>> /\ UNCHANGED storeVars
  BY DEF Settle
<1>3. answer \in TrueAnswers(task[d].batch) /\ Sent(d, task[d].batch)
  BY <1>1, <1>2, SettledTask
<1>4. PICK o : o = answer.op
  OBVIOUS
<1>5. o \in Own(d) /\ ops[o].bookEpoch = db[d].stateEpoch
  BY <1>3, <1>4 DEF TrueAnswers, Sent, OfEpoch
<1>6. outbox \in [DOMAIN ops -> Statuses] /\ o \in DOMAIN ops
  BY <1>5, SyncTypes DEF Own, DevicesOK, DeviceTypeOK
<1>7. CASE answer.status = "accepted" /\ SettleAccepted(o) /\ GoOn(d, "record")
  <2>1. PICK t : t = [task[d] EXCEPT !.step = "record"]
    OBVIOUS
  <2>2. Goto(d, t) /\ TaskWork(d, t) /\ t.step # "ignoring"
    BY <1>2, <1>7, <2>1, SettledTask DEF GoOn
  <2>3. outbox' = [q \in DOMAIN outbox |-> IF q = o THEN "accepted" ELSE outbox[q]] /\ UNCHANGED <<ops, db>>
    BY <1>6, <1>7 DEF SettleAccepted
  <2>4. "accepted" \in Told /\ InHistory(o)
    BY <1>3, <1>4, <1>7 DEF Told, TrueAnswers, TrueAnswer
  <2>5. WorkInv'
    BY <1>2, <1>5, <2>2, <2>3, <2>4, ToldWork
  <2>6. Stays
    BY <1>6, <2>3 DEF Stays, RowsStay, BoxStays
  <2> QED BY <2>5, <2>6
<1>8. CASE answer.status = "conflict" /\ SettleFailed({o}, "conflict") /\ GoOn(d, "record")
  <2>1. PICK t : t = [task[d] EXCEPT !.step = "record"]
    OBVIOUS
  <2>2. Goto(d, t) /\ TaskWork(d, t) /\ t.step # "ignoring"
    BY <1>2, <1>8, <2>1, SettledTask DEF GoOn
  <2>3. outbox' = [q \in DOMAIN outbox |-> IF q = o THEN "conflict" ELSE outbox[q]] /\ UNCHANGED <<ops, db>>
    BY <1>6, <1>8 DEF SettleFailed
  <2>4. NotAfter(ops[o].bookEpoch, db[d].stateEpoch)
    <3>1. Opened(db[d].stateEpoch)
      BY <1>2, StateHeld DEF SyncSteps
    <3>2. EpochsOrdered
      BY OrderOfEpochs DEF LogFacts
    <3> QED BY <1>5, <3>1, <3>2 DEF EpochsOrdered
  <2>5. "conflict" \in Told
    BY DEF Told
  <2>6. WorkInv'
    BY <1>2, <1>5, <2>2, <2>3, <2>4, <2>5, ToldWork
  <2> QED BY <1>1, <1>2, <1>4, <1>5, <1>8, <2>3, <2>6 DEF Marking
<1>9. CASE /\ answer.status \in {"rejected", "retryable"}
           /\ SettleFailed({o}, answer.status) /\ Goto(d, Settled(d))
  <2>1. PICK t : t = Settled(d)
    OBVIOUS
  <2>2. Goto(d, t) /\ TaskWork(d, t)
    BY <1>2, <1>9, <2>1, SettledTask
  <2>3. {o} \subseteq Tracked /\ answer.status \in Statuses \ (Told \cup {"untracked"})
    BY <1>5, <1>9 DEF Own, Tracked, Statuses, Told
  <2>4. TellsNothing
    BY <1>9, <2>3, FailedTells
  <2> QED BY <1>2, <2>2, <2>4, QuietStep
<1> QED BY <1>1, <1>4, <1>7, <1>8, <1>9 DEF Settle

\* The row of a refusal is recorded, and the device has an open one for the operation.
LEMMA RecordRowWork ==
  ASSUME LogFacts, SyncInv, WorkInv, UNCHANGED storeVars, NEW d \in Devices,
         NEW o, NEW i, conflicts[i].op.opId = o, RecordRow(d, o, i),
         NEW t, Goto(d, t), t.step # "ignoring", TaskWork(d, t)
  PROVE  WorkInv' /\ Stays /\ \E r \in db'[d].rows : r.op = o /\ r.status = "open"
<1>1. PICK new : new = [id |-> i, op |-> o, canonicalOpId |-> NoOp,
                        canonicalRevision |-> NoRevision, status |-> "open"]
  OBVIOUS
<1>2. PICK rows : rows = IF OpenRowsFor(d, o) # {} THEN db[d].rows ELSE db[d].rows \cup {new}
  OBVIOUS
<1>3. db' = [db EXCEPT ![d].rows = rows] /\ ~RowTaken(d, o, i) /\ UNCHANGED <<ops, outbox>>
  BY <1>1, <1>2 DEF RecordRow
<1>4. new.id = i /\ new.op = o /\ new.status = "open"
  BY <1>1
<1>5. RowsTrue(rows)
  BY <1>2, <1>3, <1>4, OwnFacts DEF RowsTrue, RowTaken
<1>6. db[d].rows \subseteq rows /\ \E r \in rows : r.op = o /\ r.status = "open"
  BY <1>2, <1>4 DEF OpenRowsFor
<1>7. db'[d].rows = rows
  BY <1>3, OwnFacts, SyncTypes DEF Database
<1> QED BY <1>3, <1>5, <1>6, <1>7, RowsWrite

\* What a sync has recorded of a refusal: a row, or that it is to be sent again.
RefusalRecorded(d, o) ==
  \/ Head(task[d].answers).status # "conflict"
  \/ o \in Own(d) /\ \E r \in db'[d].rows : r.op = o /\ r.status = "open"
  \/ outbox'[o] # "conflict"

LEMMA RecordWork ==
  ASSUME LogFacts, SyncInv, WorkInv, NEW d \in Devices, UNCHANGED scenario, Record(d)
  PROVE  WorkInv' /\ Stays /\ RefusalRecorded(d, Head(task[d].answers).op)
<1>1. PICK answer : answer = Head(task[d].answers)
  OBVIOUS
<1>2. task[d].step = "record" /\ task[d].answers # <<>> /\ UNCHANGED storeVars
  BY DEF Record, SyncInv, TaskRefs
<1>3. answer \in TrueAnswers(task[d].batch) /\ Sent(d, task[d].batch)
  BY <1>1, <1>2, SettledTask
<1>4. PICK o : o = answer.op
  OBVIOUS
<1>5. o \in Own(d) /\ o \in task[d].batch
  BY <1>3, <1>4 DEF TrueAnswers, Sent, OfEpoch
<1>6. CASE answer.status = "accepted" /\ BumpRevision(d, o) /\ Goto(d, Settled(d))
  <2>1. PICK t : t = Settled(d)
    OBVIOUS
  <2>2. Goto(d, t) /\ TaskWork(d, t)
    BY <1>2, <1>6, <2>1, SettledTask
  <2>3. TellsNothing
    BY <1>6, OneFieldTells
  <2> QED BY <1>1, <1>2, <1>6, <2>2, <2>3, QuietStep DEF RefusalRecorded
<1>7. CASE answer.status = "conflict" /\ RecordRow(d, o, answer.id) /\ Goto(d, Settled(d))
  <2>1. PICK t : t = Settled(d)
    OBVIOUS
  <2>2. Goto(d, t) /\ TaskWork(d, t) /\ t.step # "ignoring"
    BY <1>2, <1>7, <2>1, SettledTask
  <2>3. PICK i : i = answer.id
    OBVIOUS
  <2>4. conflicts[i].op.opId = o /\ RecordRow(d, o, i)
    BY <1>3, <1>4, <1>7, <2>3 DEF TrueAnswers, TrueAnswer
  <2>5. WorkInv' /\ Stays /\ \E r \in db'[d].rows : r.op = o /\ r.status = "open"
    BY <1>2, <2>2, <2>4, RecordRowWork
  <2> QED BY <1>1, <1>4, <1>5, <2>5 DEF RefusalRecorded
<1>8. CASE /\ RowTaken(d, o, answer.id) /\ SettleFailed(task[d].batch, "retryable")
           /\ Goto(d, [Settled(d) EXCEPT !.answers = <<>>])
  <2>1. PICK t : t = [Settled(d) EXCEPT !.answers = <<>>]
    OBVIOUS
  <2>2. Goto(d, t) /\ TaskWork(d, t)
    BY <1>2, <1>8, <2>1, SettledTask
  <2>3. task[d].batch \subseteq Tracked /\ "retryable" \in Statuses \ (Told \cup {"untracked"})
    BY <1>3 DEF Sent, OfEpoch, Own, Tracked, Statuses, Told
  <2>4. TellsNothing
    BY <1>8, <2>3, FailedTells
  <2>5. outbox'[o] # "conflict"
    <3>1. o \in DOMAIN outbox
      BY <1>5, SyncTypes DEF Own, DevicesOK, DeviceTypeOK
    <3> QED BY <1>5, <1>8, <3>1 DEF SettleFailed
  <2> QED BY <1>1, <1>2, <1>4, <2>2, <2>4, <2>5, QuietStep DEF RefusalRecorded
<1> QED BY <1>1, <1>4, <1>6, <1>7, <1>8 DEF Record

\* The refresh keeps the status of a row, and so what it asks its user.
LEMMA RefreshWork ==
  ASSUME LogFacts, SyncInv, WorkInv, NEW d \in Devices, UNCHANGED scenario, Refresh(d)
  PROVE  WorkInv' /\ Stays
<1>1. UNCHANGED storeVars /\ (RefreshRows(d) \/ UNCHANGED deviceVars)
  BY DEF Refresh
<1>2. PICK t : Goto(d, t) /\ t.step = "flush"
  BY DEF Refresh
<1>3. HoldsNothing(t) /\ TaskWork(d, t) /\ t.step # "ignoring"
  <2>1. HoldsNothing(t)
    BY <1>2 DEF HoldsNothing, EnrollSteps, AdvanceSteps
  <2> QED BY <1>2, <2>1, NothingHeld
<1>4. CASE UNCHANGED deviceVars
  BY <1>1, <1>2, <1>3, <1>4, NothingHeld, LearningStep
<1>5. CASE RefreshRows(d)
  <2>1. PICK old : old = db[d].rows
    OBVIOUS
  <2> DEFINE open == {i \in DOMAIN conflicts : conflicts[i].status = "open"}
             known(i) == {r \in old : r.id = i}
             at(i) == [id |-> i, op |-> conflicts[i].op.opId, canonicalOpId |-> conflicts[i].canonicalOpId,
                       canonicalRevision |-> CanonicalRevision(conflicts[i]),
                       status |-> IF known(i) = {} THEN "open"
                                  ELSE (CHOOSE r \in known(i) : TRUE).status]
  <2>2. PICK rows : rows = {r \in old : r.id \notin open} \cup {at(i) : i \in open}
    OBVIOUS
  <2>4. db' = [db EXCEPT ![d].rows = rows] /\ UNCHANGED <<ops, outbox>>
    BY <1>5, <2>1, <2>2 DEF RefreshRows
  <2>6. \A i : at(i).id = i /\ at(i).op = conflicts[i].op.opId
    OBVIOUS
  <2>7. \A i : 0 \notin open
    BY SyncTypes
  <2>8. RowsTrue(old)
    BY <2>1, OwnFacts
  <2>9. ASSUME NEW r \in old, r.status = "open"
        PROVE  \E s \in rows : s.op = r.op /\ s.status = "open"
    <3>1. CASE r.id \notin open
      BY <2>2, <2>9, <3>1
    <3>2. CASE r.id \in open
      <4>1. PICK i : i = r.id
        OBVIOUS
      <4>2. known(i) = {r}
        BY <2>7, <2>8, <3>2, <4>1 DEF RowsTrue
      <4>3. at(i).status = "open" /\ at(i).op = r.op /\ at(i) \in rows
        <5>1. (CHOOSE s \in known(i) : TRUE) = r
          BY <4>2
        <5>2. at(i).status = "open"
          BY <2>9, <4>2, <5>1
        <5>3. at(i).op = r.op
          BY <2>7, <2>8, <3>2, <4>1 DEF RowsTrue
        <5>4. at(i) \in rows
          <6> HIDE DEF at
          <6> QED BY <2>2, <3>2, <4>1
        <5> QED BY <5>2, <5>3, <5>4
      <4> QED BY <4>3
    <3> QED BY <3>1, <3>2
  <2> HIDE DEF at, open
  <2>10. RowsTrue(rows)
    BY <2>2, <2>6, <2>8 DEF RowsTrue
  <2>11. \A r \in db[d].rows : r.status = "open" => \E s \in rows : s.op = r.op /\ s.status = "open"
    BY <2>1, <2>9
  <2> QED BY <1>1, <1>2, <1>3, <2>4, <2>10, <2>11, RowsWrite
<1> QED BY <1>1, <1>4, <1>5

\* A change of the device's own: it is told nothing of what it has just issued.
LEMMA ChangeWork ==
  ASSUME LogFacts, SyncInv, WorkInv, NEW d \in Devices, UNCHANGED scenario, Change(d)
  PROVE  WorkInv' /\ Stays
<1>1. UNCHANGED storeVars /\ UNCHANGED task
  BY DEF Change
<1>2. PICK a \in Aggregates : Mutate(d, a)
  BY ScenariosAssumption DEF Change, SyncInv, Now
<1>3. PICK n : n = Len(ops) + 1
  OBVIOUS
<1>4. DevicesOK' /\ Tracked \subseteq Tracked' /\ \A o \in DOMAIN ops : o \in DOMAIN ops' /\ ops'[o] = ops[o]
  BY <1>2, MutateFact, SyncTypes
<1>5. Grown
  BY <1>1, <1>4, Grows
<1>6. /\ Len(ops) \in Nat /\ DOMAIN ops = 1 .. Len(ops)
      /\ outbox \in Seq(Statuses) /\ Len(outbox) = Len(ops)
  BY OpsFact, SyncTypes
<1>7. PICK tracked : tracked = (db[d].epoch # NoEpoch /\ db[d].recovery # "bootstrap")
  OBVIOUS
<1>8. PICK op, status : /\ ops' = Append(ops, op) /\ outbox' = Append(outbox, status)
                        /\ status \in {"untracked", "quarantined", "pending"}
  <2>1. PICK op : op = [opId |-> Len(ops) + 1, deviceId |-> d, aggregateId |-> a, dependencies |-> {},
                        bookEpoch |-> IF ~tracked THEN NoEpoch
                                      ELSE IF Known(d) THEN db[d].stateEpoch ELSE db[d].epoch,
                        deviceSequence |-> IF tracked THEN db[d].sequence ELSE 0,
                        baseRevision |-> db[d].revision[a], payload |-> "edit"]
    OBVIOUS
  <2>2. PICK status : status = IF ~tracked THEN "untracked"
                               ELSE IF db[d].recovery = "required" THEN "quarantined" ELSE "pending"
    OBVIOUS
  <2>4. ops' = Append(ops, op) /\ outbox' = Append(outbox, status)
    BY <1>2, <1>7, <2>1, <2>2 DEF Mutate
  <2> QED BY <2>2, <2>4
<1>9. /\ \A o \in DOMAIN ops' : o \in DOMAIN ops \/ o = n
      /\ \A o \in DOMAIN ops : ops'[o] = ops[o] /\ outbox'[o] = outbox[o]
      /\ ops'[n] = op /\ outbox'[n] = status
  BY <1>3, <1>6, <1>8
<1>10. \A c \in Devices : WorkState(c)' = WorkState(c)
  <2>1. PICK row : row = [db[d] EXCEPT !.projection = @ \cup {n},
                                       !.sequence = IF tracked THEN @ + 1 ELSE @]
    OBVIOUS
  <2>2. db' = [db EXCEPT ![d] = row]
    BY <1>2, <1>3, <1>7, <2>1, SyncTypes DEF Mutate
  <2>3. row.rows = db[d].rows /\ row.stateEpoch = db[d].stateEpoch
    BY <2>1, OwnFacts DEF Database
  <2> QED BY <2>2, <2>3, SyncTypes DEF WorkState
<1>11. ASSUME NEW c \in Devices, NEW o \in Own(c)', outbox'[o] \in Told
       PROVE  o \in Own(c) /\ outbox'[o] = outbox[o]
  <2>1. o \in DOMAIN ops' /\ ops'[o].deviceId = c /\ outbox'[o] # "untracked"
    BY DEF Own
  <2>2. o # n
    BY <1>8, <1>9, <1>11 DEF Told
  <2> QED BY <1>9, <2>1, <2>2 DEF Own
<1>12. \A c \in Devices : Quiet(c)
  BY <1>10, <1>11 DEF Quiet
<1>13. PICK t : t = task[d]
  OBVIOUS
<1>14. Goto(d, t)
  BY <1>1, <1>13, SyncTypes DEF Goto
<1>15. TaskWork(d, t)'
  <2>1. TaskWork(d, t) /\ db'[d].stateEpoch = db[d].stateEpoch /\ NoneRefused(d)
    BY <1>10, <1>11, <1>13 DEF WorkInv, WorkState, NoneRefused, Told
  <2> QED BY <1>5, <2>1, TaskWorkStays
<1>16. Stays
  <2>1. RowsStay
    BY <1>10 DEF RowsStay, WorkState
  <2>2. BoxStays
    BY <1>4, <1>9 DEF BoxStays
  <2> QED BY <2>1, <2>2 DEF Stays
<1> QED BY <1>5, <1>12, <1>14, <1>15, <1>16, WorkAssembled

-----------------------------------------------------------------------------
(* What a step leaves of the rows that operations in conflict are decided by *)

AsksOn ==
  \A o \in DOMAIN ops :
    /\ o \in DOMAIN ops' /\ ops'[o] = ops[o]
    /\ outbox'[o] = "conflict" =>
         /\ outbox[o] = "conflict"
         /\ \A r \in db[ops[o].deviceId].rows : r.op = o /\ r.status = "open" =>
              \E s \in db'[ops[o].deviceId].rows : s.op = o /\ s.status = "open"

LEMMA StaysAsks == ASSUME SyncInv, Stays PROVE AsksOn
<1>1. \A o \in DOMAIN ops : ops[o].deviceId \in Devices
  BY OpsFact, SyncTypes DEF Issued
<1> QED BY <1>1 DEF AsksOn, Stays, RowsStay, BoxStays

\* What a decision leaves of the rows, and of the outbox it found.
DecidedRows(d, row) == (db[d].rows \ {row}) \cup {[row EXCEPT !.status = "resolved"]}

DecidedBox(d, row) == Quarantine(GiveUp(outbox, d, row.op), d)

LEMMA DecidedFacts ==
  ASSUME SyncInv, WorkInv, NEW d \in Devices, NEW row \in db[d].rows
  PROVE  /\ RowsTrue(DecidedRows(d, row))
         /\ DecidedBox(d, row) \in [DOMAIN ops -> Statuses]
         /\ \A o \in DOMAIN ops :
              /\ DecidedBox(d, row)[o] = "untracked" <=> outbox[o] = "untracked"
              /\ DecidedBox(d, row)[o] \in Told => DecidedBox(d, row)[o] = outbox[o]
         /\ \A o \in Own(d) : DecidedBox(d, row)[o] = "conflict" =>
              \A r \in db[d].rows : r.op = o => r \in DecidedRows(d, row)
<1>1. row \in LocalConflict
  BY OwnFacts DEF Database
<1>2. PICK closed : closed = [row EXCEPT !.status = "resolved"]
  OBVIOUS
<1>3. closed.id = row.id /\ closed.op = row.op
  BY <1>1, <1>2 DEF LocalConflict
<1>4. DecidedRows(d, row) = (db[d].rows \ {row}) \cup {closed}
  BY <1>2 DEF DecidedRows
<1>5. RowsTrue(DecidedRows(d, row))
  BY <1>3, <1>4, OwnFacts DEF RowsTrue
<1>6. outbox \in [DOMAIN ops -> Statuses]
  BY SyncTypes DEF DevicesOK, DeviceTypeOK
<1>7. PICK given : given = GiveUp(outbox, d, row.op)
  OBVIOUS
<1>8. /\ given \in [DOMAIN ops -> Statuses]
      /\ \A o \in DOMAIN ops : \/ given[o] = outbox[o]
                               \/ given[o] = "rejected" /\ outbox[o] # "untracked"
      /\ row.op \in Own(d) => given[row.op] # "conflict"
  BY <1>6, <1>7 DEF GiveUp, Own, Statuses
<1>9. DecidedBox(d, row) = Quarantine(given, d)
  BY <1>7 DEF DecidedBox
<1>10. /\ DecidedBox(d, row) \in [DOMAIN ops -> Statuses]
       /\ \A o \in DOMAIN ops : \/ DecidedBox(d, row)[o] = given[o]
                                \/ /\ DecidedBox(d, row)[o] = "quarantined"
                                   /\ given[o] \in {"pending", "retryable"}
  BY <1>8, <1>9 DEF Quarantine, Statuses
<1>11. \A o \in DOMAIN ops :
         /\ DecidedBox(d, row)[o] = "untracked" <=> outbox[o] = "untracked"
         /\ DecidedBox(d, row)[o] \in Told => DecidedBox(d, row)[o] = outbox[o]
  BY <1>8, <1>10 DEF Told
<1>12. ASSUME NEW o \in Own(d), DecidedBox(d, row)[o] = "conflict", NEW r \in db[d].rows, r.op = o
       PROVE  r \in DecidedRows(d, row)
  <2>1. o \in DOMAIN ops /\ given[o] = "conflict"
    BY <1>8, <1>10, <1>12 DEF Own
  <2>2. o # row.op
    BY <1>8, <2>1
  <2> QED BY <1>4, <1>12, <2>2
<1> QED BY <1>5, <1>10, <1>11, <1>12

\* A decision closes its row, and gives up the operation the row was about.
LEMMA DecideWork ==
  ASSUME LogFacts, SyncInv, WorkInv, NEW d \in Devices, UNCHANGED scenario, Decide(d)
  PROVE  WorkInv' /\ AsksOn
<1>1. UNCHANGED <<storeVars, task>>
  BY DEF Decide
<1>2. PICK row \in db[d].rows : DecideKeep(d, row) \/ DecideCorrect(d, row)
  BY DEF Decide
<1>3. PICK rows : rows = DecidedRows(d, row)
  OBVIOUS
<1>4. PICK box : box = DecidedBox(d, row)
  OBVIOUS
<1>5. PICK t : t = task[d]
  OBVIOUS
<1>6. Goto(d, t) /\ TaskWork(d, t)
  BY <1>1, <1>5, SyncTypes DEF Goto, WorkInv
<1>7. /\ RowsTrue(rows) /\ box \in [DOMAIN ops -> Statuses]
      /\ \A o \in DOMAIN ops : /\ box[o] = "untracked" <=> outbox[o] = "untracked"
                               /\ box[o] \in Told => box[o] = outbox[o]
      /\ \A o \in Own(d) : box[o] = "conflict" => \A r \in db[d].rows : r.op = o => r \in rows
  BY <1>3, <1>4, DecidedFacts
\* What both decisions do of the operations there were, and what they leave to be decided.
<1> DEFINE Old == \A o \in DOMAIN ops : o \in DOMAIN ops' /\ ops'[o] = ops[o] /\ outbox'[o] = box[o]
<1>8. ASSUME Old, NEW new, new.rows = rows, db' = [db EXCEPT ![d] = new] PROVE AsksOn
  <2>1. ASSUME NEW o \in DOMAIN ops, outbox'[o] = "conflict" PROVE outbox[o] = "conflict" /\ box[o] = "conflict"
    BY <1>7, <1>8, <2>1 DEF Told
  <2>2. ASSUME NEW o \in DOMAIN ops, outbox'[o] = "conflict", NEW r \in db[ops[o].deviceId].rows, r.op = o
        PROVE  r \in db'[ops[o].deviceId].rows
    <3>1. CASE ops[o].deviceId = d
      <4>1. o \in Own(d) /\ box[o] = "conflict"
        BY <2>1, <2>2, <3>1 DEF Own
      <4> QED BY <1>7, <1>8, <2>2, <3>1, <4>1, SyncTypes
    <3>2. CASE ops[o].deviceId # d
      <4>1. ops[o].deviceId \in Devices
        BY OpsFact, SyncTypes DEF Issued
      <4> QED BY <1>8, <2>2, <3>2, <4>1, SyncTypes
    <3> QED BY <3>1, <3>2
  <2> QED BY <1>8, <2>1, <2>2 DEF AsksOn
<1>9. CASE DecideKeep(d, row)
  <2>1. PICK new : new = Decided(d, row, NoOp)
    OBVIOUS
  <2>2. db' = [db EXCEPT ![d] = new] /\ outbox' = box /\ UNCHANGED ops
    BY <1>4, <1>9, <2>1 DEF DecideKeep, DecidedBox
  <2>3. new.rows = rows /\ new.stateEpoch = db[d].stateEpoch
    BY <1>3, <2>1, OwnFacts DEF Decided, DecidedRows, Database
  <2>4. BoxKept
    BY <1>7, <2>2 DEF BoxKept
  <2>5. \A o \in DOMAIN ops : outbox'[o] \in Told => outbox'[o] = outbox[o]
    BY <1>7, <2>2
  <2>6. OnlyOwn(d) /\ OwnTrue(d, new)
    <3>1. \A o \in Own(d) : outbox'[o] \in Told => outbox'[o] = outbox[o]
      BY <2>5 DEF Own
    <3> QED BY <1>7, <2>2, <2>3, <2>4, <2>5, <3>1, OwnFacts DEF OnlyOwn, OwnTrue, Told
  <2>7. TaskWork(d, t)'
    <3>1. Grown /\ db'[d].stateEpoch = db[d].stateEpoch
      BY <1>1, <2>2, <2>3, <2>4, BoxGrows, SyncTypes
    <3>2. NoneRefused(d)
      BY <2>2, <2>4, <2>5 DEF NoneRefused, Own, BoxKept, Told
    <3> QED BY <1>6, <3>1, <3>2, TaskWorkStays
  <2>8. Old
    BY <2>2
  <2>9. AsksOn
    BY <1>8, <2>2, <2>3, <2>8
  <2> QED BY <1>1, <1>6, <2>2, <2>6, <2>7, <2>9, OwnWrite
<1>10. CASE DecideCorrect(d, row)
  <2>1. PICK n : n = Len(ops) + 1
    OBVIOUS
  <2>2. PICK op : /\ ops' = Append(ops, op) /\ outbox' = Append(box, "quarantined") /\ op.deviceId = d
    <3>1. ops[row.op] \in Issued /\ ops[row.op].deviceId = d
      BY <1>10, OpsFact, SyncTypes DEF DecideCorrect, Own
    <3>2. PICK op : op = [ops[row.op] EXCEPT
                 !.opId = Len(ops) + 1, !.bookEpoch = db[d].epoch, !.deviceSequence = db[d].sequence,
                 !.baseRevision = CorrectionBase(row),
                 !.dependencies = @ \cup ({row.canonicalOpId} \ {NoOp}), !.payload = "correction"]
      OBVIOUS
    <3>3. op.deviceId = d
      BY <3>1, <3>2 DEF Issued
    <3> QED BY <1>4, <1>10, <3>2, <3>3 DEF DecideCorrect, DecidedBox
  <2>3. PICK new : new = [Decided(d, row, n) EXCEPT !.sequence = @ + 1]
    OBVIOUS
  <2>4. db' = [db EXCEPT ![d] = new]
    BY <1>10, <2>1, <2>3 DEF DecideCorrect
  <2>5. new.rows = rows /\ new.stateEpoch = db[d].stateEpoch
    BY <1>3, <2>3, OwnFacts DEF Decided, DecidedRows, Database
  <2>6. /\ Len(ops) \in Nat /\ DOMAIN ops = 1 .. Len(ops) /\ box \in [DOMAIN ops -> Statuses]
    BY <1>7, OpsFact, SyncTypes
  <2>7. box \in Seq(Statuses) /\ Len(box) = Len(ops)
    BY <2>6
  <2>8. /\ \A o \in DOMAIN ops' : o \in DOMAIN ops \/ o = n
        /\ \A o \in DOMAIN ops : ops'[o] = ops[o] /\ outbox'[o] = box[o]
        /\ ops'[n] = op /\ outbox'[n] = "quarantined"
    BY <2>1, <2>2, <2>6, <2>7
  <2>9. Tracked \subseteq Tracked' /\ \A o \in DOMAIN ops : o \in DOMAIN ops' /\ ops'[o] = ops[o]
    BY <1>10, DecideCorrectFact, SyncTypes
  <2>10. Grown
    BY <1>1, <2>9, Grows
  <2>11. ASSUME NEW c \in Devices, NEW o \in Own(c)', outbox'[o] \in Told
         PROVE  o \in Own(c) /\ o \in DOMAIN ops /\ outbox'[o] = outbox[o] /\ ops'[o] = ops[o]
    <3>1. o \in DOMAIN ops' /\ ops'[o].deviceId = c /\ outbox'[o] # "untracked"
      BY DEF Own
    <3>2. o \in DOMAIN ops
      BY <2>8, <2>11, <3>1 DEF Told
    <3> QED BY <1>7, <2>8, <2>11, <3>1, <3>2 DEF Own
  <2>12. ASSUME NEW c \in Devices \ {d} PROVE Quiet(c)
    <3>1. WorkState(c)' = WorkState(c)
      BY <2>4, SyncTypes DEF WorkState
    <3> QED BY <2>11, <3>1 DEF Quiet
  <2>13. \A o \in Own(d)' :
           /\ outbox'[o] = "accepted" => o \in DOMAIN ops /\ InHistory(o)
           /\ outbox'[o] = "conflict" => NotAfter(ops'[o].bookEpoch, new.stateEpoch)
    BY <2>5, <2>11, OwnFacts DEF Told
  <2>14. TaskWork(d, t)'
    <3>1. db'[d].stateEpoch = db[d].stateEpoch
      BY <2>4, <2>5, SyncTypes
    <3>2. NoneRefused(d)
      BY <2>11 DEF NoneRefused, Told
    <3> QED BY <1>6, <2>10, <3>1, <3>2, TaskWorkStays
  <2>15. db'[d] = new /\ RowsTrue(new.rows)
    BY <1>7, <2>4, <2>5, SyncTypes
  <2>16. AsksOn
    <3>1. Old
      BY <2>8, <2>9
    <3> QED BY <1>8, <2>4, <2>5, <3>1
  <2> QED BY <1>1, <1>6, <2>10, <2>12, <2>13, <2>14, <2>15, <2>16, OwnStep
<1> QED BY <1>2, <1>9, <1>10

-----------------------------------------------------------------------------
(* The steps of a recovery *)

\* A device moves to an epoch that is not before the one it is in.
LEMMA MoveWork ==
  ASSUME LogFacts, SyncInv, WorkInv, UNCHANGED <<storeVars, ops>>, BoxQuiet, NEW d \in Devices,
         NEW row, db' = [db EXCEPT ![d] = row], row.rows = db[d].rows,
         NEW e, row.stateEpoch = e, Reached(d, e), Goto(d, Idle)
  PROVE  WorkInv' /\ Stays
<1>1. PICK t : t = Idle
  OBVIOUS
<1>2. Goto(d, t) /\ TaskWork(d, t)'
  BY <1>1 DEF TaskWork, Idle, EnrollSteps, AdvanceSteps
<1>3. OnlyOwn(d)
  BY DEF OnlyOwn, BoxQuiet
<1>4. ASSUME NEW o \in Own(d)
      PROVE  /\ outbox'[o] = "accepted" => InHistory(o)
             /\ outbox'[o] = "conflict" => NotAfter(ops[o].bookEpoch, e)
  <2>1. outbox'[o] \in Told => outbox'[o] = outbox[o]
    BY DEF BoxQuiet, Own
  <2>2. ASSUME outbox[o] = "conflict" PROVE NotAfter(ops[o].bookEpoch, e)
    <3>1. NotAfter(ops[o].bookEpoch, db[d].stateEpoch)
      BY <2>2, OwnFacts
    <3>2. NotAfter(db[d].stateEpoch, e)
      BY <3>1, NullAssumption DEF Reached, NotAfter, Opened
    <3>3. EpochsOrdered
      BY OrderOfEpochs DEF LogFacts
    <3> QED BY <3>1, <3>2, <3>3 DEF EpochsOrdered
  <2> QED BY <2>1, <2>2, OwnFacts DEF Told
<1>5. OwnTrue(d, row)
  BY <1>4, OwnFacts DEF OwnTrue
<1>6. WorkInv'
  BY <1>2, <1>3, <1>5, OwnWrite
<1>7. \A c \in Devices : db'[c].rows = db[c].rows
  BY SyncTypes
<1>8. Stays
  BY <1>7 DEF Stays, RowsStay, BoxStays, BoxQuiet, Told
<1> QED BY <1>6, <1>8

\* The task that holds the answer of an enrollment, at its next statement.
LEMMA EnrollHeld ==
  ASSUME SyncInv, WorkInv, NEW d \in Devices, task[d].step \in EnrollSteps, NEW step
  PROVE  /\ task[d] \in EnrollTask /\ TaskWork(d, task[d])
         /\ [task[d] EXCEPT !.step = step].step = step
         /\ [task[d] EXCEPT !.step = step].answer = task[d].answer
         /\ Reached(d, task[d].answer.epoch)
<1>1. task[d] \in EnrollTask /\ TaskWork(d, task[d])
  BY TaskKinds, SyncTypes DEF WorkInv, EnrollSteps
<1> QED BY <1>1 DEF EnrollTask, TaskWork

LEMMA WriteProfileWork ==
  ASSUME LogFacts, SyncInv, WorkInv, UNCHANGED storeVars, NEW d \in Devices, task[d].step = "enrolling",
         NEW answer, answer = task[d].answer, \E recovering : WriteProfile(d, recovering, answer),
         NEW step, step = IF Changed(d, answer) THEN "setting aside" ELSE "stating", GoOn(d, step)
  PROVE  WorkInv' /\ Stays
<1>1. PICK t : t = [task[d] EXCEPT !.step = step]
  OBVIOUS
<1>2. t.step = step /\ t.answer = answer /\ Reached(d, answer.epoch)
  <2>1. task[d].step \in EnrollSteps
    BY DEF EnrollSteps
  <2>2. task[d] \in EnrollTask /\ Reached(d, answer.epoch)
    <3>1. task[d] \in EnrollTask /\ TaskWork(d, task[d])
      BY <2>1, TaskKinds, SyncTypes DEF WorkInv, EnrollSteps
    <3> QED BY <2>1, <3>1 DEF TaskWork
  <2> QED BY <1>1, <2>2 DEF EnrollTask
<1>3. TaskWork(d, t)
  BY <1>2 DEF TaskWork, EnrollSteps, AdvanceSteps, Changed, Known
<1>4. Goto(d, t)
  BY <1>1 DEF GoOn
<1>5. TellsNothing
  BY ProfileTells
<1> QED BY <1>3, <1>4, <1>5, QuietStep

\* What the device had refused in the epochs before is set aside: nothing of it needs its row.
LEMMA SetOldAsideWork ==
  ASSUME LogFacts, SyncInv, WorkInv, UNCHANGED storeVars, NEW d \in Devices, task[d].step = "setting aside",
         SetOldAside(d, task[d].answer), GoOn(d, "ignoring")
  PROVE  WorkInv' /\ Stays
<1>1. PICK t : t = [task[d] EXCEPT !.step = "ignoring"]
  OBVIOUS
<1>2. PICK e : e = task[d].answer.epoch
  OBVIOUS
<1>3. t.step = "ignoring" /\ t.answer = task[d].answer /\ Reached(d, e) /\ Goto(d, t)
  BY <1>1, <1>2, EnrollHeld DEF EnrollSteps, GoOn
<1>4. db[d].stateEpoch # NoEpoch /\ db[d].stateEpoch # e
  BY <1>2, EnrollHeld DEF TaskWork, EnrollSteps
<1> DEFINE aside(o) == /\ o \in Own(d) /\ ops[o].bookEpoch # e
                       /\ outbox[o] \in {"pending", "retryable", "conflict"}
<1>5. UNCHANGED <<ops, db>> /\ outbox' = [o \in DOMAIN outbox |-> IF aside(o) THEN "quarantined" ELSE outbox[o]]
  BY <1>2 DEF SetOldAside
<1>6. outbox \in [DOMAIN ops -> Statuses]
  BY SyncTypes DEF DevicesOK, DeviceTypeOK
<1>7. \A o \in DOMAIN ops : outbox'[o] = IF aside(o) THEN "quarantined" ELSE outbox[o]
  BY <1>5, <1>6
<1>8. BoxQuiet
  <2>1. outbox' \in [DOMAIN ops -> Statuses]
    <3> HIDE DEF aside
    <3> QED BY <1>5, <1>6 DEF Statuses
  <2>2. \A o \in DOMAIN ops : outbox'[o] = "untracked" <=> outbox[o] = "untracked"
    BY <1>7
  <2>3. \A o \in DOMAIN ops : outbox'[o] \in Told => outbox'[o] = outbox[o]
    BY <1>7 DEF Told
  <2> QED BY <1>5, <2>1, <2>2, <2>3 DEF BoxQuiet, BoxKept
<1>9. TellsNothing
  BY <1>5, <1>8 DEF TellsNothing, WorkState
<1>10. ASSUME NEW o \in Own(d)', outbox'[o] = "conflict" PROVE FALSE
  <2>1. o \in DOMAIN ops /\ o \in Own(d)
    BY <1>5, <1>8 DEF Own, BoxQuiet, BoxKept
  <2>2. outbox[o] = "conflict" /\ ~aside(o)
    BY <1>7, <1>10, <2>1
  <2>3. ops[o].bookEpoch = e
    BY <2>1, <2>2
  <2>4. NotAfter(e, db[d].stateEpoch)
    BY <2>1, <2>2, <2>3, OwnFacts
  <2>5. NotAfter(db[d].stateEpoch, e)
    BY <1>3, <1>4 DEF Reached
  <2>6. EpochsOrdered
    BY OrderOfEpochs DEF LogFacts
  <2> QED BY <1>4, <2>4, <2>5, <2>6 DEF EpochsOrdered
<1>11. NoConflicts(d)'
  BY <1>10 DEF NoConflicts
<1>12. Reached(d, t.answer.epoch)'
  BY <1>2, <1>3, <1>5 DEF Reached, NotAfter, Opened, storeVars
<1>13. TaskWork(d, t)'
  BY <1>3, <1>11, <1>12 DEF TaskWork, EnrollSteps, AdvanceSteps
<1> QED BY <1>3, <1>9, <1>13, QuietStep

\* The rows of the epochs before are closed.
LEMMA IgnoreRowsWork ==
  ASSUME LogFacts, SyncInv, WorkInv, UNCHANGED storeVars, NEW d \in Devices, task[d].step = "ignoring",
         IgnoreRows(d), GoOn(d, "rejecting")
  PROVE  WorkInv' /\ AsksOn
<1>1. PICK t : t = [task[d] EXCEPT !.step = "rejecting"]
  OBVIOUS
<1>2. t.step = "rejecting" /\ t.answer = task[d].answer /\ Reached(d, task[d].answer.epoch) /\ Goto(d, t)
  BY <1>1, EnrollHeld DEF EnrollSteps, GoOn
<1>3. TaskWork(d, t) /\ t.step # "ignoring"
  BY <1>2 DEF TaskWork, EnrollSteps, AdvanceSteps
<1>4. PICK closed : closed = [r \in db[d].rows |->
                                IF r.status = "open" THEN [r EXCEPT !.status = "ignored"] ELSE r]
  OBVIOUS
<1>5. PICK rows : rows = {closed[r] : r \in db[d].rows}
  OBVIOUS
<1>6. db' = [db EXCEPT ![d].rows = rows] /\ UNCHANGED <<ops, outbox>>
  <2>1. {IF r.status = "open" THEN [r EXCEPT !.status = "ignored"] ELSE r : r \in db[d].rows} = rows
    BY <1>4, <1>5
  <2> QED BY <2>1 DEF IgnoreRows
<1>7. RowsTrue(rows)
  <2>1. \A r \in db[d].rows : r \in LocalConflict
    BY OwnFacts DEF Database
  <2>2. \A r \in db[d].rows : closed[r].id = r.id /\ closed[r].op = r.op
    BY <1>4, <2>1 DEF LocalConflict
  <2> QED BY <1>5, <2>2, OwnFacts DEF RowsTrue
<1>8. WorkInv'
  BY <1>2, <1>3, <1>6, <1>7, RowsWrite
<1>9. ASSUME NEW o \in DOMAIN ops, outbox[o] = "conflict"
      PROVE  db'[ops[o].deviceId].rows = db[ops[o].deviceId].rows
  <2>1. ops[o].deviceId # d
    BY <1>9, EnrollHeld DEF TaskWork, NoConflicts, Own, EnrollSteps
  <2>2. ops[o].deviceId \in Devices
    BY OpsFact, SyncTypes DEF Issued
  <2> QED BY <1>6, <2>1, <2>2, SyncTypes
<1>10. AsksOn
  BY <1>6, <1>9 DEF AsksOn
<1> QED BY <1>8, <1>10

\* An enrollment, statement by statement.
LEMMA EnrollWork ==
  ASSUME LogFacts, SyncInv, WorkInv, NEW d \in Devices, UNCHANGED scenario, Enroll(d)
  PROVE  WorkInv' /\ AsksOn
<1>1. UNCHANGED storeVars
  BY DEF Enroll
<1>2. PICK answer : answer = task[d].answer
  OBVIOUS
<1>3. CASE /\ task[d].step = "enrolling" /\ WriteProfile(d, task[d].recovering, answer)
           /\ GoOn(d, IF Changed(d, answer) THEN "setting aside" ELSE "stating")
  BY <1>1, <1>2, <1>3, WriteProfileWork, StaysAsks
<1>4. CASE task[d].step = "setting aside" /\ SetOldAside(d, answer) /\ GoOn(d, "ignoring")
  BY <1>1, <1>2, <1>4, SetOldAsideWork, StaysAsks
<1>5. CASE task[d].step = "ignoring" /\ IgnoreRows(d) /\ GoOn(d, "rejecting")
  BY <1>1, <1>5, IgnoreRowsWork
<1>6. CASE task[d].step = "rejecting" /\ RejectResolutions(d) /\ GoOn(d, "stating")
  <2>1. PICK t : t = [task[d] EXCEPT !.step = "stating"]
    OBVIOUS
  <2>2. t.step = "stating" /\ t.answer = answer /\ Reached(d, answer.epoch) /\ Goto(d, t)
    BY <1>2, <1>6, <2>1, EnrollHeld DEF EnrollSteps, GoOn
  <2>3. TaskWork(d, t)
    BY <2>2 DEF TaskWork, EnrollSteps, AdvanceSteps
  <2>4. TellsNothing
    BY <1>6, OneFieldTells
  <2> QED BY <1>1, <2>2, <2>3, <2>4, QuietStep, StaysAsks
<1>7. CASE task[d].step = "stating" /\ WriteState(d, answer) /\ Goto(d, Idle)
  <2>1. PICK e : e = answer.epoch
    OBVIOUS
  <2>2. Reached(d, e)
    BY <1>2, <1>7, <2>1, EnrollHeld DEF EnrollSteps
  <2>3. PICK row : row = [db[d] EXCEPT !.stateEpoch = answer.epoch,
              !.cursor = EnrolledCursor(d, answer), !.checkpoint = EnrolledCheckpoint(d, answer)]
    OBVIOUS
  <2>4. db' = [db EXCEPT ![d] = row] /\ UNCHANGED <<ops, outbox>>
    BY <1>7, <2>3 DEF WriteState
  <2>5. row.rows = db[d].rows /\ row.stateEpoch = e
    BY <2>1, <2>3, OwnFacts DEF Database
  <2>6. BoxQuiet
    BY <2>4, BoxesQuiet, SyncTypes
  <2> QED BY <1>1, <1>7, <2>2, <2>4, <2>5, <2>6, MoveWork, StaysAsks
<1> QED BY <1>2, <1>3, <1>4, <1>5, <1>6, <1>7 DEF Enroll

LEMMA AdvanceWork ==
  ASSUME LogFacts, SyncInv, WorkInv, NEW d \in Devices, UNCHANGED scenario, Advance(d)
  PROVE  WorkInv' /\ Stays
<1>1. UNCHANGED storeVars /\ task[d].step \in AdvanceSteps
  BY DEF Advance, AdvanceSteps
<1>2. PICK u \in AdvanceTask : u = task[d]
  BY <1>1, TaskKinds, SyncTypes DEF AdvanceSteps
<1>3. PICK e : e = u.epoch
  OBVIOUS
<1>4. Reached(d, e)
  BY <1>1, <1>2, <1>3 DEF WorkInv, TaskWork
<1>5. ASSUME NEW step \in AdvanceSteps, GoOn(d, step), TellsNothing PROVE WorkInv' /\ Stays
  <2>1. PICK t : t = [u EXCEPT !.step = step]
    OBVIOUS
  <2>2. t.step = step /\ t.epoch = e /\ Goto(d, t)
    BY <1>2, <1>3, <1>5, <2>1 DEF AdvanceTask, GoOn
  <2>3. TaskWork(d, t)
    BY <1>4, <2>2 DEF TaskWork, EnrollSteps, AdvanceSteps
  <2> QED BY <1>1, <1>5, <2>2, <2>3, QuietStep
<1>6. CASE SetAside(d) /\ GoOn(d, "stopping")
  BY <1>5, <1>6, SetAsideTells DEF AdvanceSteps
<1>7. CASE StopSync(d) /\ GoOn(d, "renaming")
  BY <1>5, <1>7, ProfileTells DEF AdvanceSteps
<1>8. CASE RenameEpoch(d, task[d].epoch) /\ GoOn(d, "restarting")
  BY <1>5, <1>8, ProfileTells DEF AdvanceSteps
<1>9. CASE RestartState(d, task[d].epoch, task[d].start) /\ Goto(d, Idle)
  <2>1. PICK row : row = [db[d] EXCEPT !.stateEpoch = task[d].epoch, !.cursor = task[d].start - 1,
                                       !.checkpoint = NoHash]
    OBVIOUS
  <2>2. db' = [db EXCEPT ![d] = row] /\ UNCHANGED <<ops, outbox>>
    BY <1>9, <2>1 DEF RestartState
  <2>3. row.rows = db[d].rows /\ row.stateEpoch = e
    BY <1>2, <1>3, <2>1, OwnFacts DEF Database
  <2>4. BoxQuiet
    BY <2>2, BoxesQuiet, SyncTypes
  <2> QED BY <1>1, <1>4, <1>9, <2>2, <2>3, <2>4, MoveWork
<1> QED BY <1>6, <1>7, <1>8, <1>9 DEF Advance

LEMMA InstallWork ==
  ASSUME LogFacts, SyncInv, WorkInv, NEW d \in Devices, UNCHANGED scenario, Install(d)
  PROVE  WorkInv' /\ Stays
<1>1. UNCHANGED storeVars /\ Goto(d, Idle) /\ task[d].step = "installing"
  BY DEF Install, ReadyToInstall
<1>2. CASE UNCHANGED deviceVars
  <2>1. HoldsNothing(Idle)
    BY DEF HoldsNothing, Idle, EnrollSteps, AdvanceSteps
  <2> QED BY <1>1, <1>2, <2>1, NothingHeld, LearningStep
<1>3. ASSUME NEW snapshot, NEW tail, NEW cursor, NEW hash, snapshot = task[d].snapshot,
             InstallSnapshot(d, snapshot, tail, cursor, hash)
      PROVE  WorkInv' /\ Stays
  <2>1. PICK e : e = snapshot.bookEpoch
    OBVIOUS
  <2>2. Reached(d, e)
    BY <1>1, <1>3, <2>1 DEF WorkInv, TaskWork
  <2>3. PICK row : row = [db[d] EXCEPT
         !.recovery = "none", !.stateEpoch = snapshot.bookEpoch,
         !.cursor = cursor, !.checkpoint = hash,
         !.revision = RevisionsWith(snapshot.aggregateRevisions, tail),
         !.applied = CanonicalIds(tail),
         !.projection = InstalledProjection(d, snapshot, tail)]
    OBVIOUS
  <2>4. db' = [db EXCEPT ![d] = row] /\ UNCHANGED ops
    BY <1>3, <2>3 DEF InstallSnapshot
  <2>5. row.rows = db[d].rows /\ row.stateEpoch = e
    BY <2>1, <2>3, OwnFacts DEF Database
  <2>6. BoxQuiet
    <3>1. Preserved(d, snapshot.bookEpoch) \subseteq Tracked
      BY DEF Preserved, OfEpoch, InStatus, Own, Tracked
    <3>2. "pending" \in Statuses \ (Told \cup {"untracked"})
      BY DEF Statuses, Told
    <3> QED BY <1>3, <3>1, <3>2, SyncTypes, BoxesQuiet DEF InstallSnapshot
  <2> QED BY <1>1, <2>2, <2>4, <2>5, <2>6, MoveWork
<1> QED BY <1>2, <1>3 DEF Install

-----------------------------------------------------------------------------
(* An operation in conflict that its user was asked about *)

\* What OnlyKillsStrand says of a step.
KeptAsked == \A o \in DOMAIN ops : Asked(o) /\ ~Asked(o)' => BeingRecorded(o) /\ Interrupt(ops[o].deviceId)

\* The row of an operation stays, or a task goes on to record it.
LEMMA Asking ==
  ASSUME SyncInv, AsksOn, NEW d \in Devices, NEW t, Goto(d, t),
         \/ task[d].step # "record" \/ t = task[d] \/ Interrupt(d)
         \/ RefusalRecorded(d, Head(task[d].answers).op)
  PROVE  KeptAsked
<1> SUFFICES ASSUME NEW o \in DOMAIN ops, Asked(o), ~Asked(o)'
             PROVE  BeingRecorded(o) /\ Interrupt(ops[o].deviceId)
  BY DEF KeptAsked
<1>1. PICK c : c = ops[o].deviceId
  OBVIOUS
<1>2. c \in Devices /\ o \in DOMAIN ops' /\ ops'[o].deviceId = c
  BY <1>1, OpsFact, SyncTypes DEF Issued, AsksOn
<1>3. /\ outbox'[o] = "conflict" /\ outbox[o] = "conflict"
      /\ \A r \in db'[c].rows : ~(r.op = o /\ r.status = "open")
  BY <1>1, <1>2 DEF Asked, OpenRowsFor, AsksOn
<1>4. \A r \in db[c].rows : ~(r.op = o /\ r.status = "open")
  BY <1>1, <1>3 DEF AsksOn
<1>5. BeingRecorded(o)
  BY <1>1, <1>3, <1>4 DEF Asked, OpenRowsFor
<1>6. task[c].step = "record" /\ Head(task[c].answers).op = o /\ Head(task[c].answers).status = "conflict"
  BY <1>1, <1>5 DEF BeingRecorded
<1>7. ~(/\ task'[c].step = "record" /\ Head(task'[c].answers).op = o
        /\ Head(task'[c].answers).status = "conflict")
  BY <1>2 DEF Asked, BeingRecorded
<1>8. task'[d] = t /\ \A b \in Devices \ {d} : task'[b] = task[b]
  BY DEF Goto, SyncInv
<1>9. c = d /\ t # task[d]
  BY <1>2, <1>6, <1>7, <1>8
<1>10. ~RefusalRecorded(d, o)
  BY <1>3, <1>6, <1>9 DEF RefusalRecorded
<1> QED BY <1>1, <1>5, <1>6, <1>9, <1>10

\* A refusal that is marked is then being recorded.
LEMMA MarkingAsks ==
  ASSUME SyncInv, NEW d \in Devices, Marking(d) PROVE KeptAsked
<1> SUFFICES ASSUME NEW o \in DOMAIN ops, Asked(o) PROVE Asked(o)'
  BY DEF KeptAsked
<1>1. PICK u : u = task[d]
  OBVIOUS
<1>2. PICK q : q = Head(u.answers).op
  OBVIOUS
<1>3. /\ u.step = "settle" /\ q \in Own(d) /\ Head(u.answers).status = "conflict"
      /\ UNCHANGED <<ops, db>> /\ SettleFailed({q}, "conflict") /\ GoOn(d, "record")
  BY <1>1, <1>2 DEF Marking
<1>4. u \in SettleTask
  BY <1>1, <1>3, TaskKinds, SyncTypes
<1>5. /\ task'[d].step = "record" /\ task'[d].answers = u.answers
      /\ \A c \in Devices \ {d} : task'[c] = task[c]
  BY <1>1, <1>3, <1>4, SyncTypes DEF GoOn, Goto, SettleTask
<1>6. outbox \in [DOMAIN ops -> Statuses]
  BY SyncTypes DEF DevicesOK, DeviceTypeOK
<1>7. CASE o = q
  <2>1. ops'[o].deviceId = d
    BY <1>3, <1>7 DEF Own
  <2>2. BeingRecorded(o)'
    BY <1>2, <1>3, <1>5, <1>7, <2>1 DEF BeingRecorded
  <2> QED BY <2>2 DEF Asked
<1>8. CASE o # q
  <2>1. outbox'[o] = outbox[o]
    BY <1>3, <1>6, <1>8 DEF SettleFailed
  <2>2. OpenRowsFor(ops[o].deviceId, o)' = OpenRowsFor(ops[o].deviceId, o)
    BY <1>3 DEF OpenRowsFor
  <2>3. ops[o].deviceId \in Devices
    BY OpsFact, SyncTypes DEF Issued
  <2>4. BeingRecorded(o) => BeingRecorded(o)'
    BY <1>1, <1>3, <1>5, <2>3 DEF BeingRecorded
  <2> QED BY <2>1, <2>2, <2>4 DEF Asked
<1> QED BY <1>7, <1>8

\* The tasks that record nothing.
LEMMA OtherTasks ==
  ASSUME SyncInv, NEW d \in Devices,
         \/ StartSync(d) \/ LoseAnswers(d) \/ RequestEnrollment(d) \/ StartPublish(d) \/ FetchSnapshot(d)
         \/ RequestAdvance(d) \/ RecoveryStep(d) \/ Install(d)
         \/ AuthorizePull(d) \/ ServePull(d) \/ ReceivePage(d) \/ Stop(d) \/ StartPush(d) \/ HandleNext(d)
         \/ ReceiveAnswers(d) \/ Settle(d) \/ Refresh(d) \/ Flush(d) \/ PullAgain(d)
  PROVE  task[d].step # "record" /\ \E t : Goto(d, t)
<1>1. Idle.step = "idle"
  BY IdleFact
<1>2. CASE \/ StartSync(d) \/ RequestEnrollment(d) \/ StartPublish(d) \/ FetchSnapshot(d) \/ RequestAdvance(d)
  <2>1. task[d] = Idle
    BY <1>2 DEF StartSync, RequestEnrollment, StartPublish, FetchSnapshot, RequestAdvance
  <2>2. \E t : Goto(d, t)
    BY <1>2 DEF StartSync, RequestEnrollment, StartPublish, FetchSnapshot, RequestAdvance
  <2> QED BY <1>1, <2>1, <2>2
<1>3. CASE LoseAnswers(d) \/ Install(d) \/ Stop(d) \/ PullAgain(d) \/ Refresh(d) \/ Flush(d)
  BY <1>3 DEF LoseAnswers, Install, ReadyToInstall, Stop, PullAgain, Refresh, Flush
<1>4. CASE AuthorizePull(d) \/ ServePull(d) \/ ReceivePage(d)
  BY <1>4 DEF AuthorizePull, ServePull, ReceivePage
<1>5. CASE StartPush(d) \/ HandleNext(d) \/ ReceiveAnswers(d) \/ Settle(d)
  BY <1>5 DEF StartPush, HandleNext, ReceiveAnswers, Settle, GoOn
<1>6. CASE RecoveryStep(d)
  <2>1. CASE Enroll(d) \/ Advance(d)
    BY <2>1 DEF Enroll, Advance, GoOn
  <2>2. CASE Upload(d) \/ FinishPublish(d) \/ FetchTail(d)
    BY <2>2 DEF Upload, FinishPublish, FetchTail
  <2> QED BY <1>6, <2>1, <2>2 DEF RecoveryStep
<1> QED BY <1>2, <1>3, <1>4, <1>5, <1>6

-----------------------------------------------------------------------------
(* The theorems *)

LEMMA InitWork == Init => WorkInv
<1> SUFFICES ASSUME Init PROVE WorkInv
  OBVIOUS
<1>1. ops = <<>> /\ db = [d \in Devices |-> Fresh] /\ task = [d \in Devices |-> Idle]
  BY DEF Init, DeviceInit
<1>2. ASSUME NEW d \in Devices PROVE WorkTrue(d) /\ TaskWork(d, task[d])
  <2>1. db[d].rows = {} /\ Own(d) = {}
    BY <1>1 DEF Fresh, Own
  <2>2. TaskWork(d, task[d])
    BY <1>1 DEF TaskWork, Idle, EnrollSteps, AdvanceSteps
  <2> QED BY <2>1, <2>2 DEF WorkTrue, RowsTrue
<1> QED BY <1>2 DEF WorkInv

\* A step that leaves every task as it is.
LEMMA TasksKept ==
  ASSUME SyncInv, AsksOn, UNCHANGED task PROVE KeptAsked
<1>1. CASE Devices = {}
  <2>1. DOMAIN ops = {}
    BY <1>1, OpsFact, SyncTypes DEF Issued
  <2> QED BY <2>1 DEF KeptAsked
<1>2. ASSUME NEW d \in Devices PROVE KeptAsked
  <2>1. PICK t : t = task[d]
    OBVIOUS
  <2>2. Goto(d, t)
    BY <2>1, SyncTypes DEF Goto
  <2> QED BY <2>1, <2>2, Asking
<1> QED BY <1>1, <1>2

LEMMA WorkStep ==
  ASSUME LogFacts, SyncInv, CursorInv, WorkInv, [Next]_vars PROVE WorkInv' /\ KeptAsked
<1>1. CASE UNCHANGED vars
  <2>1. UNCHANGED <<storeVars, deviceVars, task>>
    BY <1>1 DEF vars
  <2>2. TellsNothing
    BY <2>1, UntouchedTells
  <2>3. ASSUME Devices = {} PROVE WorkInv'
    BY <2>3 DEF WorkInv
  <2>4. ASSUME NEW d \in Devices PROVE WorkInv'
    BY <2>1, <2>2, QuietTaskKept
  <2> QED BY <2>1, <2>2, <2>3, <2>4, TellingStays, StaysAsks, TasksKept
<1>2. ASSUME UNCHANGED scenario, NEW d \in Devices, Change(d) \/ Decide(d) \/ Clear(d)
      PROVE  WorkInv' /\ KeptAsked
  <2>1. WorkInv' /\ AsksOn
    BY <1>2, ChangeWork, DecideWork, ClearWork, StaysAsks
  <2>2. UNCHANGED task
    BY <1>2 DEF Change, Decide, Clear
  <2> QED BY <2>1, <2>2, TasksKept
<1>3. ASSUME UNCHANGED scenario, NEW d \in Devices,
             \/ StartSync(d) \/ LoseAnswers(d) \/ RequestEnrollment(d) \/ StartPublish(d) \/ FetchSnapshot(d)
             \/ RequestAdvance(d) \/ RecoveryStep(d) \/ Install(d)
             \/ AuthorizePull(d) \/ ServePull(d) \/ ReceivePage(d) \/ Stop(d) \/ StartPush(d) \/ HandleNext(d)
             \/ ReceiveAnswers(d) \/ Settle(d) \/ Refresh(d) \/ Flush(d) \/ PullAgain(d)
      PROVE  WorkInv' /\ KeptAsked
  <2>1. WorkInv' /\ (AsksOn \/ Marking(d))
    <3>1. CASE \/ StartSync(d) \/ LoseAnswers(d) \/ StartPublish(d) \/ AuthorizePull(d) \/ ServePull(d)
               \/ Stop(d) \/ Flush(d) \/ PullAgain(d)
      BY <1>3, <3>1, PlainSteps, StaysAsks
    <3>2. CASE RequestEnrollment(d) \/ FetchSnapshot(d) \/ RequestAdvance(d) \/ Install(d)
      BY <1>3, <3>2, RequestEnrollmentWork, FetchSnapshotWork, RequestAdvanceWork, InstallWork, StaysAsks
    <3>3. CASE ReceivePage(d) \/ StartPush(d) \/ HandleNext(d) \/ ReceiveAnswers(d)
      BY <1>3, <3>3, ReceivePageWork, StartPushWork, HandleNextWork, ReceiveAnswersWork, StaysAsks
    <3>4. CASE Settle(d) \/ Refresh(d)
      BY <1>3, <3>4, SettleWork, RefreshWork, StaysAsks
    <3>5. CASE RecoveryStep(d)
      BY <1>3, <3>5, PlainSteps, EnrollWork, FetchTailWork, AdvanceWork, StaysAsks DEF RecoveryStep
    <3> QED BY <1>3, <3>1, <3>2, <3>3, <3>4, <3>5
  <2>2. task[d].step # "record" /\ \E t : Goto(d, t)
    BY <1>3, OtherTasks
  <2> QED BY <2>1, <2>2, Asking, MarkingAsks
<1>4. ASSUME UNCHANGED scenario, NEW d \in Devices, Record(d) PROVE WorkInv' /\ KeptAsked
  <2>1. WorkInv' /\ Stays /\ RefusalRecorded(d, Head(task[d].answers).op)
    BY <1>4, RecordWork
  <2>2. \E t : Goto(d, t)
    BY <1>4 DEF Record
  <2> QED BY <2>1, <2>2, StaysAsks, Asking
<1>5. ASSUME UNCHANGED scenario, NEW d \in Devices, Interrupt(d) PROVE WorkInv' /\ KeptAsked
  <2>1. WorkInv' /\ Stays
    BY <1>5, PlainSteps
  <2>2. Goto(d, Idle)
    BY <1>5 DEF Interrupt
  <2> QED BY <1>5, <2>1, <2>2, StaysAsks, Asking
<1>6. ASSUME UNCHANGED scenario, NEW todo \in orphans, HandleOrphan(todo) PROVE WorkInv' /\ KeptAsked
  <2>1. UNCHANGED <<deviceVars, task>>
    BY <1>6 DEF HandleOrphan
  <2>2. ASSUME Devices = {} PROVE WorkInv'
    BY <2>2 DEF WorkInv
  <2>3. ASSUME NEW d \in Devices PROVE WorkInv'
    BY <1>6, OrphanWork
  <2>4. Stays
    BY <2>1, UntouchedTells, TellingStays
  <2> QED BY <2>1, <2>2, <2>3, <2>4, StaysAsks, TasksKept
<1>7. ASSUME Next PROVE WorkInv' /\ KeptAsked
  <2>1. UNCHANGED scenario
    BY <1>7 DEF Next
  <2>2. CASE \E d \in Devices : SyncStep(d)
    BY <1>3, <1>4, <2>1, <2>2 DEF SyncStep
  <2> QED BY <1>2, <1>3, <1>5, <1>6, <1>7, <2>1, <2>2 DEF Next
<1> QED BY <1>1, <1>7

LEMMA WorkCorrect == Spec => []WorkInv
<1>1. Init => WorkInv
  BY InitWork
<1>2. LogFacts /\ SyncInv /\ CursorInv /\ WorkInv /\ [Next]_vars => WorkInv'
  BY WorkStep
<1> QED BY <1>1, <1>2, LogFactsHold, SyncInvCorrect, CursorsCorrect, PTL DEF Spec

\* Once its user has been asked about an operation in conflict, an open row to decide it
\* by stays: through lost answers, retries, refreshes, decisions, enrollments that take
\* several writes, advances, installations and clears, whatever the others do.  Only an
\* interruption between the two statements of the sync that record it can leave it
\* refused without one.
THEOREM Answerable == Spec => OnlyKillsStrand
<1> DEFINE A == \A o \in DOMAIN ops :
                  Asked(o) /\ ~Asked(o)' => BeingRecorded(o) /\ Interrupt(ops[o].deviceId)
<1>1. LogFacts /\ SyncInv /\ CursorInv /\ WorkInv /\ [Next]_vars => [A]_vars
  BY WorkStep DEF KeptAsked
<1> HIDE DEF A
<1>2. Spec => [][A]_vars
  BY <1>1, SyncInvCorrect, LogFactsHold, CursorsCorrect, WorkCorrect, PTL DEF Spec
<1> QED BY <1>2 DEF A, OnlyKillsStrand

\* What an outbox calls accepted is in the canonical log, in the epoch it was
\* issued in, whichever answers were lost and whichever handlers went on alone.
THEOREM AcceptedForGood == Spec => []AcceptedInHistory
<1>1. SyncInv /\ WorkInv => AcceptedInHistory
  <2> SUFFICES ASSUME SyncInv, WorkInv, NEW o \in DOMAIN ops, outbox[o] = "accepted"
               PROVE  InHistory(o)
    BY DEF AcceptedInHistory
  <2>1. PICK d : d = ops[o].deviceId
    OBVIOUS
  <2>2. d \in Devices
    BY <2>1, OpsFact, SyncTypes DEF Issued
  <2>3. o \in Own(d)
    BY <2>1 DEF Own
  <2> QED BY <2>2, <2>3 DEF WorkInv, WorkTrue, OperationTrue
<1> QED BY <1>1, SyncInvCorrect, WorkCorrect, PTL
=============================================================================
