-------------------------- MODULE DeviceSyncProofs --------------------------
(***************************************************************************)
(* The devices and their server together: whatever is interrupted, lost or *)
(* interleaved, the store only ever runs its own transactions, so its log  *)
(* keeps every promise of EventTablesProofs, and what a device remembers   *)
(* of the log stays true to it.                                            *)
(***************************************************************************)
EXTENDS DeviceSync, DeviceTablesProofs

\* The operations of a batch, which all have a device sequence of their own,
\* can be put in order.
LEMMA InSequenceFact ==
  ASSUME DevicesOK, NEW d, NEW O, O \subseteq Own(d)
  PROVE  InSequence(O) \in Seq(O) /\ (O # {} => InSequence(O) # <<>>)
<1> DEFINE upto(o) == {q \in O : ops[q].deviceSequence <= ops[o].deviceSequence}
           rank == [o \in O |-> Cardinality(upto(o))]
           k == Cardinality(O)
           ordered(s) == \A i, j \in 1 .. k : i < j => ops[s[i]].deviceSequence < ops[s[j]].deviceSequence
<1>1. /\ \A o \in O : ops[o].deviceSequence \in Nat
      /\ \A o, q \in O : ops[o].deviceSequence = ops[q].deviceSequence => o = q
  BY DEF Own, Tracked, DevicesOK, OpsOK, Operation
<1>2. IsFiniteSet(O) /\ k \in Nat
  <2>1. O \subseteq 1 .. Len(ops) /\ Len(ops) \in Nat
    BY OpsFact DEF Own
  <2>2. IsFiniteSet(1 .. Len(ops))
    BY <2>1, FS_Interval
  <2> QED BY <2>1, <2>2, FS_Subset, FS_CardinalityType
<1>3. \A o \in O : /\ IsFiniteSet(upto(o)) /\ rank[o] \in 1 .. k
  <2> TAKE o \in O
  <2>1. upto(o) \in SUBSET O /\ o \in upto(o)
    BY <1>1
  <2>2. IsFiniteSet(upto(o)) /\ rank[o] \in Nat /\ rank[o] <= k
    <3> HIDE DEF upto
    <3> QED BY <1>2, <2>1, FS_Subset, FS_CardinalityType
  <2>3. rank[o] # 0
    <3> HIDE DEF upto
    <3> QED BY <2>1, <2>2, FS_EmptySet
  <2> HIDE DEF rank, k, upto
  <2> QED BY <1>2, <2>2, <2>3
<1>4. \A o, q \in O : ops[o].deviceSequence < ops[q].deviceSequence => rank[o] < rank[q]
  <2> SUFFICES ASSUME NEW o \in O, NEW q \in O, ops[o].deviceSequence < ops[q].deviceSequence
               PROVE  rank[o] < rank[q]
    OBVIOUS
  <2>1. upto(o) \in SUBSET upto(q) /\ q \in upto(q) /\ q \notin upto(o)
    BY <1>1
  <2> HIDE DEF upto
  <2>2. /\ Cardinality(upto(o)) <= Cardinality(upto(q))
        /\ Cardinality(upto(o)) # Cardinality(upto(q))
    BY <1>3, <2>1, FS_Subset
  <2>3. rank[o] \in Nat /\ rank[q] \in Nat
    BY <1>2, <1>3
  <2> QED BY <2>2, <2>3
<1>5. \A o, q \in O : rank[o] = rank[q] => o = q
  <2> SUFFICES ASSUME NEW o \in O, NEW q \in O, rank[o] = rank[q], o # q PROVE FALSE
    OBVIOUS
  <2>1. ops[o].deviceSequence < ops[q].deviceSequence \/ ops[q].deviceSequence < ops[o].deviceSequence
    BY <1>1
  <2>2. rank[o] \in Nat /\ rank[q] \in Nat
    BY <1>2, <1>3
  <2> HIDE DEF rank
  <2> QED BY <1>4, <2>1, <2>2
<1>6. rank \in Surjection(O, 1 .. k)
  <2>1. rank \in [O -> 1 .. k]
    <3>1. rank = [o \in O |-> rank[o]]
      OBVIOUS
    <3> HIDE DEF rank
    <3> QED BY <1>3, <3>1
  <2>2. rank \in Injection(O, 1 .. k)
    <3> HIDE DEF rank
    <3> QED BY <1>5, <2>1 DEF Injection, IsInjective
  <2>3. IsFiniteSet(1 .. k) /\ Cardinality(1 .. k) = k
    <3> HIDE DEF k
    <3> QED BY <1>2, FS_Interval
  <2> HIDE DEF rank
  <2> QED BY <2>2, <2>3, FS_Injection
<1>7. \A i \in 1 .. k : \E o \in O : rank[o] = i
  <2> HIDE DEF rank
  <2> QED BY <1>6 DEF Surjection
<1> DEFINE s == [i \in 1 .. k |-> CHOOSE o \in O : rank[o] = i]
<1> HIDE DEF rank, k
<1>8. s \in [1 .. k -> O] /\ \A i \in 1 .. k : rank[s[i]] = i
  BY <1>7
<1>9. ordered(s)
  <2> SUFFICES ASSUME NEW i \in 1 .. k, NEW j \in 1 .. k, i < j
               PROVE  ops[s[i]].deviceSequence < ops[s[j]].deviceSequence
    OBVIOUS
  <2>1. s[i] \in O /\ s[j] \in O /\ rank[s[i]] = i /\ rank[s[j]] = j
    BY <1>8
  <2> HIDE DEF s
  <2>2. ~(ops[s[j]].deviceSequence < ops[s[i]].deviceSequence)
    BY <1>2, <1>4, <2>1
  <2>3. s[i] # s[j]
    BY <1>2, <2>1
  <2> QED BY <1>1, <2>1, <2>2, <2>3
<1>10. InSequence(O) = CHOOSE z \in [1 .. k -> O] : ordered(z)
  BY DEF InSequence, k
<1> HIDE DEF s, ordered
<1>11. InSequence(O) \in [1 .. k -> O]
  BY <1>8, <1>9, <1>10
<1>12. InSequence(O) \in Seq(O) /\ Len(InSequence(O)) = k
  BY <1>2, <1>11, FunctionSeq
<1>13. O # {} => k # 0
  BY <1>2, FS_EmptySet DEF k
<1> QED BY <1>12, <1>13

-----------------------------------------------------------------------------
(* What the tasks refer to *)

\* Answers about tracked operations, with conflicts the server has.
Answers == {a \in Answer : a.op \in Tracked /\ a.id <= Len(conflicts)}

\* Operations, events and conflicts that a task of d holds between two of its steps
\* exist, and so does the profile or the state it was started for.
TaskRefs(d, t) ==
  /\ t.step = "page" => t.page.events \subseteq events
  /\ t.step = "pushing" => /\ t.batch \subseteq Tracked /\ t.todo \in Seq(Tracked)
                           /\ t.accepted \in Seq(Answers) /\ t.others \in Seq(Answers)
  /\ t.step \in {"settle", "record"} => t.batch \subseteq Tracked /\ t.answers \in Seq(Answers)
  /\ t.step = "record" => t.answers # <<>>
  /\ t.step = "flush" => \A r \in t.todo : r.id \in 0 .. Len(conflicts)
  /\ t.step = "installing" => t.tail \subseteq events
  /\ t.step \in {"publishing", "published"} => db[d].stateEpoch # NoEpoch
  /\ t.step \in {"advancing", "stopping", "renaming", "restarting"} => db[d].epoch # NoEpoch

\* So do the operations that are left in a handler, at least one in each.
OrphansOK == orphans \subseteq Seq(Tracked) \ {<<>>}

SyncInv ==
  /\ TablesOK /\ DevicesOK /\ IdsUpTo(Len(conflicts))
  /\ enrolled \in [Devices -> Epochs \cup {NoEpoch}]
  /\ task \in [Devices -> Task] /\ \A d \in Devices : TaskRefs(d, task[d])
  /\ OrphansOK
  /\ scenario \in DOMAIN Scenarios /\ faults \in 0 .. Now.faults

\* A task is what its step says.
LEMMA TaskKinds ==
  ASSUME NEW t \in Task
  PROVE  /\ t.step \in {"pull", "granted"} => t \in PullTask
         /\ t.step = "page" => t \in PageTask
         /\ t.step \in {"push", "refresh"} => t \in StateTask
         /\ t.step = "pushing" => t \in PushTask
         /\ t.step = "stop" => t \in StopTask
         /\ t.step \in {"settle", "record"} => t \in SettleTask
         /\ t.step = "flush" => t \in FlushTask
         /\ t.step \in {"enrolling", "setting aside", "ignoring", "rejecting", "stating"} => t \in EnrollTask
         /\ t.step \in {"publishing", "published"} => t \in PublishTask
         /\ t.step = "installing" => t \in InstallTask
         /\ t.step \in {"advancing", "stopping", "renaming", "restarting"} => t \in AdvanceTask
<1>1. \/ t.step = "idle"
      \/ t \in PullTask /\ t.step \in {"pull", "granted"}
      \/ t \in PageTask /\ t.step \in {"page"}
      \/ t \in StopTask /\ t.step \in {"stop"}
      \/ t \in StateTask /\ t.step \in {"push", "refresh"}
      \/ t \in PushTask /\ t.step \in {"pushing"}
      \/ t \in SettleTask /\ t.step \in {"settle", "record"}
      \/ t \in FlushTask /\ t.step \in {"flush"}
      \/ t \in EnrollTask /\ t.step \in {"enrolling", "setting aside", "ignoring", "rejecting", "stating"}
      \/ t \in PublishTask /\ t.step \in {"publishing", "published"}
      \/ t \in InstallTask /\ t.step \in {"installing"}
      \/ t \in AdvanceTask /\ t.step \in {"advancing", "stopping", "renaming", "restarting"}
  <2>1. CASE t = Idle
    BY <2>1 DEF Idle
  <2>2. CASE t \in PullTask
    BY <2>2 DEF PullTask
  <2>3. CASE t \in PageTask
    BY <2>3 DEF PageTask
  <2>4. CASE t \in StopTask
    BY <2>4 DEF StopTask
  <2>5. CASE t \in StateTask
    BY <2>5 DEF StateTask
  <2>6. CASE t \in PushTask
    BY <2>6 DEF PushTask
  <2>7. CASE t \in SettleTask
    BY <2>7 DEF SettleTask
  <2>8. CASE t \in FlushTask
    BY <2>8 DEF FlushTask
  <2>9. CASE t \in EnrollTask
    BY <2>9 DEF EnrollTask
  <2>10. CASE t \in PublishTask
    BY <2>10 DEF PublishTask
  <2>11. CASE t \in InstallTask
    BY <2>11 DEF InstallTask
  <2>12. CASE t \in AdvanceTask
    BY <2>12 DEF AdvanceTask
  <2> QED BY <2>1, <2>2, <2>3, <2>4, <2>5, <2>6, <2>7, <2>8, <2>9, <2>10, <2>11, <2>12 DEF Task
<1> QED BY <1>1

LEMMA IdleFact == Idle \in Task /\ Idle.step = "idle" /\ \A d : TaskRefs(d, Idle)
BY DEF Idle, Task, TaskRefs

\* What a step of the server leaves of the tables a task refers to.
LEMMA StoreStep ==
  ASSUME TablesOK, [TableNext]_storeVars
  PROVE  /\ TablesOK' /\ events \subseteq events'
         /\ Len(conflicts) \in Nat /\ Len(conflicts') \in Nat /\ Len(conflicts) <= Len(conflicts')
<1>1. TablesOK'
  BY TablesStep
<1>2. conflicts \in Seq(Conflict) /\ conflicts' \in Seq(Conflict)
  BY <1>1 DEF TablesOK, StoreTypeOK
<1>3. \A i \in DOMAIN conflicts : i \in DOMAIN conflicts'
  BY ConflictRows
<1>4. Len(conflicts) <= Len(conflicts')
  <2>1. /\ DOMAIN conflicts = 1 .. Len(conflicts) /\ DOMAIN conflicts' = 1 .. Len(conflicts')
        /\ Len(conflicts) \in Nat /\ Len(conflicts') \in Nat
    BY <1>2
  <2> QED BY <1>3, <2>1
<1> QED BY <1>1, <1>2, <1>4, EventsKept

LEMMA RefsKept ==
  ASSUME events \subseteq events', Tracked \subseteq Tracked', Len(conflicts) \in Nat,
         Len(conflicts') \in Nat, Len(conflicts) <= Len(conflicts')
  PROVE  /\ Answers \subseteq Answers'
         /\ \A todo \in Seq(Tracked) : todo \in Seq(Tracked')
<1>1. Answers \subseteq Answers'
  BY DEF Answers, Answer
<1>2. \A todo \in Seq(Tracked) : todo \in Seq(Tracked')
  BY SeqMonotonic
<1> QED BY <1>1, <1>2

LEMMA TaskRefsKept ==
  ASSUME events \subseteq events', Tracked \subseteq Tracked', Len(conflicts) \in Nat,
         Len(conflicts') \in Nat, Len(conflicts) <= Len(conflicts'), JoinedKept,
         NEW d \in Devices, NEW t, TaskRefs(d, t)
  PROVE  TaskRefs(d, t)'
<1>1. \A todo \in Seq(Tracked) : todo \in Seq(Tracked')
  BY RefsKept
<1>2. \A answers \in Seq(Answers) : answers \in Seq(Answers')
  BY RefsKept, SeqMonotonic
<1> QED BY <1>1, <1>2 DEF TaskRefs, JoinedKept

\* The invariant after a step of the task of one device.
LEMMA Assemble ==
  ASSUME SyncInv, [TableNext]_storeVars, UNCHANGED scenario,
         DevicesOK', Tracked \subseteq Tracked', JoinedKept, NEW n, n = Len(conflicts), IdsUpTo(n)',
         NEW d \in Devices, NEW t \in Task, TaskRefs(d, t) \/ TaskRefs(d, t)', task' = [task EXCEPT ![d] = t],
         enrolled' \in [Devices -> Epochs \cup {NoEpoch}],
         orphans' \subseteq orphans \cup (Seq(Tracked) \ {<<>>}),
         faults' = faults \/ Fault
  PROVE  SyncInv'
<1>1. /\ TablesOK' /\ events \subseteq events'
      /\ Len(conflicts) \in Nat /\ Len(conflicts') \in Nat /\ Len(conflicts) <= Len(conflicts')
  BY StoreStep DEF SyncInv
<1>2. /\ \A c \in Devices : \A u : TaskRefs(c, u) => TaskRefs(c, u)'
      /\ \A todo \in Seq(Tracked) : todo \in Seq(Tracked')
  BY <1>1, RefsKept, TaskRefsKept
<1>3. IdsUpTo(Len(conflicts))'
  BY <1>1 DEF IdsUpTo
<1>4. task' \in [Devices -> Task] /\ \A c \in Devices : TaskRefs(c, task[c])'
  <2>1. \A c \in Devices : task'[c] = IF c = d THEN t ELSE task[c]
    BY DEF SyncInv
  <2>2. ASSUME NEW c \in Devices PROVE TaskRefs(c, task[c])'
    <3>1. CASE c = d
      <4>1. t = task[c]'
        BY <2>1, <3>1
      <4>2. TaskRefs(d, t)'
        BY <1>2
      <4> QED BY <3>1, <4>1, <4>2
    <3>2. CASE c # d
      <4>1. PICK u : u = task[c]
        OBVIOUS
      <4>2. TaskRefs(c, u)' /\ u = task[c]'
        BY <1>2, <2>1, <3>2, <4>1 DEF SyncInv
      <4> QED BY <4>2
    <3> QED BY <3>1, <3>2
  <2> QED BY <2>2 DEF SyncInv
<1>5. OrphansOK'
  BY <1>2 DEF SyncInv, OrphansOK
<1>6. scenario' \in DOMAIN Scenarios /\ faults' \in 0 .. Now'.faults
  <2>1. Now.faults \in Nat
    BY ScenariosAssumption DEF SyncInv, Now
  <2> QED BY <2>1 DEF SyncInv, Now, Fault
<1> QED BY <1>1, <1>3, <1>4, <1>5, <1>6 DEF SyncInv

LEMMA Untouched ==
  ASSUME DevicesOK, NEW n, IdsUpTo(n), UNCHANGED deviceVars
  PROVE  WriteFine(n) /\ StatesKept
BY DEF deviceVars, WriteFine, DevicesOK, DeviceTypeOK, ProfilesOK, OpsOK, Tracked, IdsUpTo, StatesKept, SyncState,
       JoinedKept

LEMMA SyncTypes ==
  ASSUME SyncInv
  PROVE  /\ TablesOK /\ DevicesOK /\ IdsUpTo(Len(conflicts)) /\ Len(conflicts) \in Nat
         /\ db \in [Devices -> Database] /\ task \in [Devices -> Task]
         /\ conflicts \in Seq(Conflict) /\ DOMAIN conflicts = 1 .. Len(conflicts)
BY DEF SyncInv, DevicesOK, DeviceTypeOK, TablesOK, StoreTypeOK

-----------------------------------------------------------------------------
(* One lemma per action: the store runs a transaction or nothing, and the   *)
(* invariant is kept.                                                       *)

LEMMA ChangeStep ==
  ASSUME SyncInv, NEW d \in Devices, Change(d), UNCHANGED scenario
  PROVE  SyncInv' /\ UNCHANGED storeVars /\ StatesKept
<1>1. PICK n : n = Len(conflicts)
  OBVIOUS
<1>2. PICK a \in Aggregates : Mutate(d, a)
  BY ScenariosAssumption DEF Change, SyncInv, Now
<1>3. DevicesOK' /\ IdsUpTo(n)' /\ JoinedKept /\ Tracked \subseteq Tracked' /\ StatesKept
  BY <1>1, <1>2, MutateFact, SyncTypes
<1>4. task' = [task EXCEPT ![d] = task[d]] /\ task[d] \in Task /\ TaskRefs(d, task[d])
  BY DEF Change, SyncInv
<1>5. /\ UNCHANGED <<storeVars, enrolled, orphans, faults>>
  BY DEF Change
<1>6. PICK t : t = task[d]
  OBVIOUS
<1> QED BY <1>1, <1>3, <1>4, <1>5, <1>6, Assemble DEF SyncInv

LEMMA DecideStep ==
  ASSUME SyncInv, NEW d \in Devices, Decide(d), UNCHANGED scenario
  PROVE  SyncInv' /\ UNCHANGED storeVars /\ StatesKept
<1>1. PICK n : n = Len(conflicts)
  OBVIOUS
<1>2. PICK row \in db[d].rows : DecideKeep(d, row) \/ DecideCorrect(d, row)
  BY DEF Decide
<1>3. DevicesOK' /\ IdsUpTo(n)' /\ JoinedKept /\ Tracked \subseteq Tracked' /\ StatesKept
  BY <1>1, <1>2, DecideKeepFact, DecideCorrectFact, SyncTypes DEF WriteFine
<1>4. task' = [task EXCEPT ![d] = task[d]] /\ task[d] \in Task /\ TaskRefs(d, task[d])
  BY DEF Decide, SyncInv
<1>5. /\ UNCHANGED <<storeVars, enrolled, orphans, faults>>
  BY DEF Decide
<1>6. PICK t : t = task[d]
  OBVIOUS
<1> QED BY <1>1, <1>3, <1>4, <1>5, <1>6, Assemble DEF SyncInv

LEMMA ClearStep ==
  ASSUME SyncInv, NEW d \in Devices, Clear(d), UNCHANGED scenario
  PROVE  SyncInv' /\ UNCHANGED storeVars /\ StatesKept
<1>1. PICK n : n = Len(conflicts)
  OBVIOUS
<1>2. SetAside(d) \/ StopSync(d) \/ EmptyBooks(d)
  BY DEF Clear
<1>3. DevicesOK' /\ IdsUpTo(n)' /\ JoinedKept /\ Tracked \subseteq Tracked' /\ StatesKept
  BY <1>1, <1>2, SetAsideFact, StopSyncFact, EmptyBooksFact, SyncTypes DEF WriteFine
<1>4. task' = [task EXCEPT ![d] = task[d]] /\ task[d] \in Task /\ TaskRefs(d, task[d])
  BY DEF Clear, SyncInv
<1>5. /\ UNCHANGED <<storeVars, enrolled, orphans, faults>>
  BY DEF Clear
<1>6. PICK t : t = task[d]
  OBVIOUS
<1> QED BY <1>1, <1>3, <1>4, <1>5, <1>6, Assemble DEF SyncInv

LEMMA StartSyncStep ==
  ASSUME SyncInv, NEW d \in Devices, StartSync(d), UNCHANGED scenario
  PROVE  SyncInv' /\ UNCHANGED storeVars /\ StatesKept
<1>1. PICK n : n = Len(conflicts)
  OBVIOUS
<1>2. PICK t : t = Pulling(d, 1, [epoch |-> db[d].stateEpoch, cursor |-> db[d].cursor])
  OBVIOUS
<1>3. [epoch |-> db[d].stateEpoch, cursor |-> db[d].cursor] \in Cursor
  <2>1. db[d].epoch # NoEpoch /\ db[d].recovery = "none" /\ db[d] \in Database
    BY SyncTypes DEF StartSync, Enabled
  <2>2. db[d].stateEpoch \in Epochs /\ db[d].cursor \in Nat
    BY <2>1 DEF SyncInv, DevicesOK, ProfilesOK, Database
  <2> QED BY <2>2 DEF Cursor
<1>4. t \in Task /\ TaskRefs(d, t)
  BY <1>2, <1>3 DEF Pulling, Task, PullTask, TaskRefs
<1>5. WriteFine(n) /\ StatesKept
  <2>1. CASE UNCHANGED deviceVars
    BY <1>1, <2>1, Untouched, SyncTypes
  <2>2. CASE SettleFailed(OfEpoch(InStatus(d, {"retryable"}), db[d].epoch), "pending")
    <3>1. OfEpoch(InStatus(d, {"retryable"}), db[d].epoch) \subseteq Tracked
      BY DEF OfEpoch, InStatus, Own, Tracked
    <3>2. "pending" \in Statuses \ {"untracked"}
      BY DEF Statuses
    <3> QED BY <1>1, <2>2, <3>1, <3>2, SettleFailedFact, SyncTypes
  <2> QED BY <2>1, <2>2 DEF StartSync
<1>6. UNCHANGED <<storeVars, enrolled, orphans, faults>> /\ task' = [task EXCEPT ![d] = t]
  BY <1>2 DEF StartSync, Goto
<1> QED BY <1>1, <1>4, <1>5, <1>6, Assemble DEF SyncInv, WriteFine

LEMMA AuthorizePullStep ==
  ASSUME SyncInv, NEW d \in Devices, AuthorizePull(d), UNCHANGED scenario
  PROVE  SyncInv' /\ UNCHANGED storeVars /\ StatesKept
<1>1. PICK n : n = Len(conflicts)
  OBVIOUS
<1>2. PICK t : t = IF Authorized(d) THEN [task[d] EXCEPT !.step = "granted"] ELSE Idle
  OBVIOUS
<1>3. task[d] \in PullTask
  BY TaskKinds, SyncTypes DEF AuthorizePull
<1>4. [task[d] EXCEPT !.step = "granted"] \in PullTask /\ [task[d] EXCEPT !.step = "granted"].step = "granted"
  BY <1>3 DEF PullTask
<1>5. t \in Task /\ TaskRefs(d, t)
  BY <1>2, <1>4, IdleFact DEF Task, TaskRefs
<1>6. /\ WriteFine(n) /\ StatesKept /\ UNCHANGED <<storeVars, enrolled, orphans, faults>>
      /\ task' = [task EXCEPT ![d] = t]
  BY <1>1, <1>2, Untouched, SyncTypes DEF AuthorizePull, Goto
<1> QED BY <1>1, <1>5, <1>6, Assemble DEF SyncInv, WriteFine

\* A page a pull answers with is one the store can give.
LEMMA PullPageType ==
  ASSUME TablesOK, NEW n \in Nat, Pull(n)
  PROVE  PullPage(n) \in Page /\ PullPage(n).events \subseteq events
<1>1. bookEpoch \in Epochs /\ PullPage(n).cursor \in Nat
  BY PullFact
<1>2. events \subseteq Event
  BY DEF TablesOK, StoreTypeOK
<1>3. PICK page : page = PullPage(n)
  OBVIOUS
<1>4. /\ page.events \subseteq events /\ page.bookEpoch = bookEpoch /\ page.hasMore \in BOOLEAN
      /\ page.checkpointHash \subseteq events
      /\ page = [bookEpoch |-> page.bookEpoch, events |-> page.events, cursor |-> page.cursor,
                 hasMore |-> page.hasMore, checkpointHash |-> page.checkpointHash]
  BY <1>3 DEF PullPage, EventsThrough
<1> QED BY <1>1, <1>2, <1>3, <1>4 DEF Page

LEMMA ServePullStep ==
  ASSUME SyncInv, NEW d \in Devices, ServePull(d), UNCHANGED scenario
  PROVE  SyncInv' /\ StatesKept /\ \E k \in Nat : Pull(k)
<1>1. PICK n : n = Len(conflicts)
  OBVIOUS
<1>2. PICK t : t = [step |-> "page", pass |-> task[d].pass, state |-> task[d].state,
                    page |-> PullPage(task[d].state.cursor)]
  OBVIOUS
<1>3. task[d] \in PullTask
  BY TaskKinds, SyncTypes DEF ServePull
<1>4. /\ task[d].pass \in 1 .. 2 /\ task[d].state \in Cursor /\ task[d].state.cursor \in Nat
      /\ Pull(task[d].state.cursor)
  BY <1>3 DEF PullTask, Cursor, ServePull
<1>5. /\ PullPage(task[d].state.cursor) \in Page
      /\ PullPage(task[d].state.cursor).events \subseteq events
  BY <1>4, PullPageType, SyncTypes
<1>6. t \in Task /\ TaskRefs(d, t)
  <2>1. t \in PageTask /\ t.step = "page" /\ t.page = PullPage(task[d].state.cursor)
    BY <1>2, <1>4, <1>5 DEF PageTask
  <2> QED BY <1>5, <2>1 DEF Task, TaskRefs
<1>7. WriteFine(n) /\ StatesKept /\ UNCHANGED <<enrolled, orphans, faults>> /\ task' = [task EXCEPT ![d] = t]
  BY <1>1, <1>2, Untouched, SyncTypes DEF ServePull, Goto
<1>8. TableNext
  BY <1>4 DEF TableNext
<1> QED BY <1>1, <1>4, <1>6, <1>7, <1>8, Assemble DEF SyncInv, WriteFine

LEMMA ReceivePageStep ==
  ASSUME SyncInv, NEW d \in Devices, ReceivePage(d), UNCHANGED scenario
  PROVE  /\ SyncInv' /\ UNCHANGED storeVars
         /\ \/ StatesKept /\ \E t \in {Idle, [step |-> "stop"]} : Goto(d, t)
            \/ /\ task[d].page.bookEpoch = task[d].state.epoch /\ Goto(d, AfterPage(d))
               /\ SyncState(d)' = <<task[d].state.epoch, task[d].page.cursor, task[d].page.checkpointHash>>
               /\ OthersKept(d)
<1>1. PICK n \in Nat : n = Len(conflicts)
  BY SyncTypes
<1>2. PICK page : page = task[d].page
  OBVIOUS
<1>3. task[d] \in PageTask
  BY TaskKinds, SyncTypes DEF ReceivePage
<1>4. /\ page \in Page /\ task[d].state \in Cursor /\ task[d].pass \in 1 .. 2
      /\ page.events \subseteq events
  BY <1>2, <1>3 DEF PageTask, ReceivePage, SyncInv, TaskRefs
<1>5. /\ page.cursor \in Nat /\ page.checkpointHash \in SUBSET Event /\ page.hasMore \in BOOLEAN
      /\ task[d].state.epoch \in Epochs
  BY <1>4 DEF Page, Cursor
<1>6. UNCHANGED <<storeVars, enrolled, orphans, faults>>
  BY DEF ReceivePage
<1>7. CASE SetAside(d) /\ Goto(d, [step |-> "stop"])
  <2>1. WriteFine(n) /\ StatesKept
    BY <1>1, <1>7, SetAsideFact, SyncTypes
  <2>2. PICK t : t = [step |-> "stop"]
    OBVIOUS
  <2>3. t \in Task /\ TaskRefs(d, t)
    BY <2>2 DEF Task, StopTask, TaskRefs
  <2> QED BY <1>1, <1>6, <1>7, <2>1, <2>2, <2>3, Assemble DEF SyncInv, WriteFine, Goto
<1>8. CASE /\ task[d].page.bookEpoch = task[d].state.epoch
           /\ ApplyPage(d, task[d].state.epoch, task[d].page) /\ Goto(d, AfterPage(d))
  <2>1. /\ WriteFine(n) /\ OthersKept(d)
        /\ SyncState(d)' = <<task[d].state.epoch, task[d].page.cursor, task[d].page.checkpointHash>>
    BY <1>1, <1>2, <1>4, <1>5, <1>8, ApplyPageFact, SyncTypes
  <2>2. PICK t : t = AfterPage(d)
    OBVIOUS
  <2>3. [task[d].state EXCEPT !.cursor = page.cursor] \in Cursor
    BY <1>4, <1>5 DEF Cursor
  <2>4. t \in Task /\ TaskRefs(d, t)
    <3> DEFINE state == [task[d].state EXCEPT !.cursor = page.cursor]
    <3> HIDE DEF state
    <3>1. \/ t = [step |-> "pull", pass |-> task[d].pass, state |-> state]
          \/ t = [step |-> "push", state |-> state]
          \/ t = Idle
      BY <1>2, <2>2 DEF AfterPage, Pulling, state
    <3>2. state \in Cursor
      BY <2>3 DEF state
    <3> QED BY <1>4, <3>1, <3>2, IdleFact DEF Task, PullTask, StateTask, TaskRefs
  <2> QED BY <1>1, <1>6, <1>8, <2>1, <2>2, <2>4, Assemble DEF SyncInv, WriteFine, Goto
<1>9. CASE BlockPage(d, task[d].page) /\ Goto(d, Idle)
  <2>1. WriteFine(n) /\ StatesKept
    BY <1>1, <1>2, <1>4, <1>9, BlockPageFact, SyncTypes
  <2> QED BY <1>1, <1>6, <1>9, <2>1, IdleFact, Assemble DEF SyncInv, WriteFine, Goto
<1> QED BY <1>7, <1>8, <1>9 DEF ReceivePage

LEMMA StopStep ==
  ASSUME SyncInv, NEW d \in Devices, Stop(d), UNCHANGED scenario
  PROVE  SyncInv' /\ UNCHANGED storeVars /\ StatesKept
<1>1. PICK n : n = Len(conflicts)
  OBVIOUS
<1>2. WriteFine(n) /\ StatesKept
  BY <1>1, StopSyncFact, SyncTypes DEF Stop
<1>3. UNCHANGED <<storeVars, enrolled, orphans, faults>> /\ Goto(d, Idle)
  BY DEF Stop
<1> QED BY <1>1, <1>2, <1>3, IdleFact, Assemble DEF SyncInv, WriteFine, Goto

\* What a push sends, or sets to be retried.
LEMMA PushedBatch ==
  ASSUME SyncInv, NEW d \in Devices, StartPush(d)
  PROVE  \E batch \in SUBSET OfEpoch(Own(d), task[d].state.epoch) :
           \/ Goto(d, [step |-> "refresh", state |-> task[d].state])
              /\ (UNCHANGED deviceVars \/ SettleFailed(batch, "retryable"))
           \/ Goto(d, [step |-> "pushing", state |-> task[d].state, batch |-> batch,
                       todo |-> InSequence(batch), accepted |-> <<>>, others |-> <<>>])
              /\ UNCHANGED deviceVars
<1>1. PICK due \in SUBSET OfEpoch(InStatus(d, {"retryable"}), task[d].state.epoch) :
        LET ready == OfEpoch(InStatus(d, {"pending"}), task[d].state.epoch) \cup due
            batch == FirstBySequence(ready, PushLimit)
            skip == [step |-> "refresh", state |-> task[d].state]
        IN \/ batch = {} /\ Goto(d, skip) /\ UNCHANGED deviceVars
           \/ batch # {} /\ ~Authorized(d) /\ Goto(d, skip) /\ SettleFailed(batch, "retryable")
           \/ /\ batch # {} /\ Authorized(d) /\ UNCHANGED deviceVars
              /\ Goto(d, [step |-> "pushing", state |-> task[d].state, batch |-> batch,
                          todo |-> InSequence(batch), accepted |-> <<>>, others |-> <<>>])
  BY DEF StartPush
<1> DEFINE ready == OfEpoch(InStatus(d, {"pending"}), task[d].state.epoch) \cup due
<1>2. PICK batch : batch = FirstBySequence(ready, PushLimit)
  OBVIOUS
<1>3. batch \subseteq ready /\ ready \subseteq OfEpoch(Own(d), task[d].state.epoch)
  BY <1>2 DEF FirstBySequence, OfEpoch, InStatus
<1> QED BY <1>1, <1>2, <1>3

LEMMA StartPushStep ==
  ASSUME SyncInv, NEW d \in Devices, StartPush(d), UNCHANGED scenario
  PROVE  SyncInv' /\ UNCHANGED storeVars /\ StatesKept
<1>1. PICK n \in Nat : n = Len(conflicts)
  BY SyncTypes
<1>2. task[d] \in StateTask
  BY TaskKinds, SyncTypes DEF StartPush
<1>3. PICK batch \in SUBSET OfEpoch(Own(d), task[d].state.epoch) :
        \/ Goto(d, [step |-> "refresh", state |-> task[d].state])
           /\ (UNCHANGED deviceVars \/ SettleFailed(batch, "retryable"))
        \/ Goto(d, [step |-> "pushing", state |-> task[d].state, batch |-> batch,
                    todo |-> InSequence(batch), accepted |-> <<>>, others |-> <<>>])
           /\ UNCHANGED deviceVars
  BY PushedBatch
<1>5. batch \subseteq Own(d) /\ batch \subseteq Tracked /\ batch \in SUBSET OpIds
  BY OpsFact, SyncTypes DEF OfEpoch, Own, Tracked
<1>6. UNCHANGED <<storeVars, enrolled, orphans, faults>>
  BY DEF StartPush
<1>7. PICK skip : skip = [step |-> "refresh", state |-> task[d].state]
  OBVIOUS
<1>8. skip \in Task /\ TaskRefs(d, skip) /\ task[d].state \in Cursor
  BY <1>2, <1>7 DEF Task, StateTask, TaskRefs
<1>9. PICK push : push = [step |-> "pushing", state |-> task[d].state, batch |-> batch,
                          todo |-> InSequence(batch), accepted |-> <<>>, others |-> <<>>]
  OBVIOUS
<1>10. push \in Task /\ TaskRefs(d, push)
  <2>1. InSequence(batch) \in Seq(batch)
    BY <1>5, InSequenceFact, SyncTypes
  <2>2. InSequence(batch) \in Seq(Tracked) /\ InSequence(batch) \in Seq(OpIds)
    BY <1>5, <2>1, SeqMonotonic
  <2>3. <<>> \in Seq(Answer) /\ <<>> \in Seq(Answers)
    BY EmptySeq
  <2>4. push \in PushTask
    BY <1>5, <1>8, <1>9, <2>2, <2>3 DEF PushTask
  <2>5. TaskRefs(d, push)
    BY <1>5, <1>9, <2>2, <2>3 DEF TaskRefs
  <2> QED BY <2>4, <2>5 DEF Task
<1>11. \/ Goto(d, skip) /\ UNCHANGED deviceVars
       \/ Goto(d, skip) /\ SettleFailed(batch, "retryable")
       \/ Goto(d, push) /\ UNCHANGED deviceVars
  BY <1>3, <1>7, <1>9
<1>12. WriteFine(n) /\ StatesKept
  <2>1. CASE UNCHANGED deviceVars
    BY <1>1, <2>1, Untouched, SyncTypes
  <2>2. CASE SettleFailed(batch, "retryable")
    <3>1. "retryable" \in Statuses \ {"untracked"}
      BY DEF Statuses
    <3> QED BY <1>1, <1>5, <2>2, <3>1, SettleFailedFact, SyncTypes
  <2> QED BY <1>11, <2>1, <2>2
<1>13. CASE Goto(d, skip)
  BY <1>1, <1>6, <1>8, <1>12, <1>13, Assemble DEF SyncInv, WriteFine, Goto
<1>14. CASE Goto(d, push)
  BY <1>1, <1>6, <1>10, <1>12, <1>14, Assemble DEF SyncInv, WriteFine, Goto
<1> QED BY <1>6, <1>11, <1>13, <1>14

\* What a handler does with one operation it is sent.
LEMMA HandledOperation ==
  ASSUME SyncInv, NEW o \in Tracked, NEW v \in Verdicts,
         \/ Accept(ops[o], v)
         \/ Refusal(ops[o], v) # "" /\ RecordConflict(EvidenceOf(ops[o], v))
  PROVE  [TableNext]_storeVars
<1>1. ops[o] \in Operation /\ v \in Verdict /\ TablesOK
  BY VerdictsAssumption DEF SyncInv, DevicesOK, OpsOK
<1>2. CASE Insert(ops[o], v)
  BY <1>1, <1>2 DEF TableNext
<1>3. CASE Deduplicate(ops[o], v)
  BY <1>3 DEF Deduplicate
<1>4. CASE Refusal(ops[o], v) # "" /\ RecordConflict(EvidenceOf(ops[o], v))
  <2>1. bookEpoch \in Epochs
    BY <1>1, <1>4 DEF RecordConflict, TablesOK, StoreTypeOK
  <2>2. EvidenceOf(ops[o], v) \in Evidence
    BY <1>1, <1>4, <2>1, EvidenceFact DEF TablesOK
  <2> QED BY <1>4, <2>2 DEF TableNext
<1> QED BY <1>2, <1>3, <1>4 DEF Accept

\* The task once one more of its operations is answered.
LEMMA AnswerKept ==
  ASSUME SyncInv, [TableNext]_storeVars, Tracked' = Tracked,
         NEW d \in Devices, task[d].step = "pushing", task[d].todo # <<>>,
         NEW answer \in Answer, answer \in Answers',
         NEW t, \/ t = [task[d] EXCEPT !.todo = Tail(@), !.accepted = Append(@, answer)]
                \/ t = [task[d] EXCEPT !.todo = Tail(@), !.others = Append(@, answer)]
  PROVE  t \in Task /\ TaskRefs(d, t)'
<1>1. task[d] \in PushTask /\ TaskRefs(d, task[d])
  BY TaskKinds, SyncTypes DEF SyncInv
<1>2. PICK u : u = task[d]
  OBVIOUS
<1>3. /\ u \in PushTask /\ u.step = "pushing" /\ u.todo # <<>>
      /\ u.batch \subseteq Tracked /\ u.todo \in Seq(Tracked) /\ u.todo \in Seq(OpIds)
      /\ u.accepted \in Seq(Answers) /\ u.others \in Seq(Answers)
      /\ u.accepted \in Seq(Answer) /\ u.others \in Seq(Answer)
  BY <1>1, <1>2 DEF PushTask, TaskRefs
<1>4. Answers \subseteq Answers'
  BY StoreStep, RefsKept DEF SyncInv
<1>5. u.accepted \in Seq(Answers') /\ u.others \in Seq(Answers')
  BY <1>3, <1>4, SeqMonotonic
<1>6. Tail(u.todo) \in Seq(Tracked) /\ Tail(u.todo) \in Seq(OpIds)
  BY <1>3, HeadTailProperties
<1>7. /\ Append(u.accepted, answer) \in Seq(Answer) /\ Append(u.accepted, answer) \in Seq(Answers')
      /\ Append(u.others, answer) \in Seq(Answer) /\ Append(u.others, answer) \in Seq(Answers')
  BY <1>3, <1>5, AppendProperties
<1>8. ASSUME NEW accepted \in Seq(Answer), NEW others \in Seq(Answer),
             accepted \in Seq(Answers'), others \in Seq(Answers'),
             t.step = "pushing", t.batch = u.batch, t.todo = Tail(u.todo), t.accepted = accepted,
             t.others = others, t = [u EXCEPT !.todo = Tail(u.todo), !.accepted = accepted, !.others = others]
      PROVE  t \in Task /\ TaskRefs(d, t)'
  <2>1. t \in PushTask
    BY <1>3, <1>6, <1>8 DEF PushTask
  <2>2. TaskRefs(d, t)'
    BY <1>3, <1>6, <1>8 DEF TaskRefs
  <2> QED BY <2>1, <2>2 DEF Task
<1>9. CASE t = [task[d] EXCEPT !.todo = Tail(@), !.accepted = Append(@, answer)]
  <2>1. /\ t = [u EXCEPT !.todo = Tail(u.todo), !.accepted = Append(u.accepted, answer), !.others = u.others]
        /\ t.step = "pushing" /\ t.batch = u.batch /\ t.todo = Tail(u.todo)
        /\ t.accepted = Append(u.accepted, answer) /\ t.others = u.others
    BY <1>2, <1>3, <1>9 DEF PushTask
  <2> QED BY <1>3, <1>5, <1>7, <1>8, <2>1
<1>10. CASE t = [task[d] EXCEPT !.todo = Tail(@), !.others = Append(@, answer)]
  <2>1. /\ t = [u EXCEPT !.todo = Tail(u.todo), !.accepted = u.accepted, !.others = Append(u.others, answer)]
        /\ t.step = "pushing" /\ t.batch = u.batch /\ t.todo = Tail(u.todo)
        /\ t.accepted = u.accepted /\ t.others = Append(u.others, answer)
    BY <1>2, <1>3, <1>10 DEF PushTask
  <2> QED BY <1>3, <1>5, <1>7, <1>8, <2>1
<1> QED BY <1>9, <1>10

LEMMA HandleNextStep ==
  ASSUME SyncInv, NEW d \in Devices, HandleNext(d), UNCHANGED scenario
  PROVE  SyncInv' /\ [TableNext]_storeVars /\ StatesKept
<1>1. PICK n \in Nat : n = Len(conflicts)
  BY SyncTypes
<1>2. PICK o : o = Head(task[d].todo)
  OBVIOUS
<1>3. task[d] \in PushTask /\ TaskRefs(d, task[d]) /\ task[d].step = "pushing" /\ task[d].todo # <<>>
  BY TaskKinds, SyncTypes DEF SyncInv, HandleNext
<1>4. o \in Tracked /\ o \in OpIds
  <2>1. task[d].todo \in Seq(Tracked)
    BY <1>3 DEF TaskRefs
  <2>2. o \in Tracked
    BY <1>2, <1>3, <2>1, HeadTailProperties
  <2> QED BY <2>2, OpsFact, SyncTypes DEF Tracked
<1>5. WriteFine(n) /\ StatesKept /\ UNCHANGED <<enrolled, orphans>> /\ UNCHANGED deviceVars
  BY <1>1, Untouched, SyncTypes DEF HandleNext
<1>6. ASSUME [TableNext]_storeVars, faults' = faults \/ Fault,
             NEW answer \in Answer, answer \in Answers',
             NEW t, Goto(d, t),
             \/ t = [task[d] EXCEPT !.todo = Tail(@), !.accepted = Append(@, answer)]
             \/ t = [task[d] EXCEPT !.todo = Tail(@), !.others = Append(@, answer)]
      PROVE  SyncInv'
  <2>1. t \in Task /\ TaskRefs(d, t)'
    BY <1>3, <1>5, <1>6, AnswerKept DEF WriteFine
  <2> QED BY <1>1, <1>5, <1>6, <2>1, Assemble DEF SyncInv, WriteFine, Goto
<1>7. Tracked' = Tracked /\ Len(conflicts) \in Nat
  BY <1>5, SyncTypes DEF WriteFine
<1>8. ASSUME NEW v \in Verdicts, Accept(ops[o], v),
             Goto(d, [task[d] EXCEPT !.todo = Tail(task[d].todo),
                        !.accepted = Append(@, [op |-> o, status |-> "accepted", id |-> 0])]),
             Fine
      PROVE  SyncInv' /\ [TableNext]_storeVars
  <2>1. [TableNext]_storeVars
    BY <1>4, <1>8, HandledOperation
  <2>2. PICK answer : answer = [op |-> o, status |-> "accepted", id |-> 0]
    OBVIOUS
  <2>3. Len(conflicts') \in Nat
    BY <2>1, StoreStep, SyncTypes
  <2>4. answer \in Answer /\ answer.op = o /\ answer.id = 0
    BY <1>4, <2>2 DEF Answer
  <2>5. answer \in Answers'
    BY <1>4, <1>7, <2>3, <2>4 DEF Answers
  <2>6. PICK t : t = [task[d] EXCEPT !.todo = Tail(@), !.accepted = Append(@, answer)]
    OBVIOUS
  <2>7. Goto(d, t)
    BY <1>8, <2>2, <2>6
  <2> QED BY <1>6, <1>8, <2>1, <2>4, <2>5, <2>6, <2>7 DEF Fine
<1>9. ASSUME NEW v \in Verdicts, Refusal(ops[o], v) # "", RecordConflict(EvidenceOf(ops[o], v)),
             NEW i \in DOMAIN conflicts',
             Goto(d, [task[d] EXCEPT !.todo = Tail(task[d].todo),
                        !.others = Append(@, [op |-> o, status |-> StatusOf(Refusal(ops[o], v)), id |-> i])]),
             Fine
      PROVE  SyncInv' /\ [TableNext]_storeVars
  <2>1. [TableNext]_storeVars
    BY <1>4, <1>9, HandledOperation
  <2>2. PICK answer : answer = [op |-> o, status |-> StatusOf(Refusal(ops[o], v)), id |-> i]
    OBVIOUS
  <2>3. i \in Nat /\ i <= Len(conflicts')
    <3>1. conflicts' \in Seq(Conflict)
      BY <2>1, StoreStep, SyncTypes DEF TablesOK, StoreTypeOK
    <3>2. DOMAIN conflicts' = 1 .. Len(conflicts') /\ Len(conflicts') \in Nat
      BY <3>1, LenProperties
    <3>3. i \in DOMAIN conflicts'
      OBVIOUS
    <3> QED BY <3>2, <3>3
  <2>4. answer \in Answer /\ answer.op = o /\ answer.id = i
    <3>1. StatusOf(Refusal(ops[o], v)) \in {"accepted", "conflict", "rejected", "retryable"}
      BY DEF StatusOf
    <3> QED BY <1>4, <2>2, <2>3, <3>1 DEF Answer
  <2>5. answer \in Answers'
    BY <1>4, <1>7, <2>3, <2>4 DEF Answers
  <2>6. PICK t : t = [task[d] EXCEPT !.todo = Tail(@), !.others = Append(@, answer)]
    OBVIOUS
  <2>7. Goto(d, t)
    BY <1>9, <2>2, <2>6
  <2> QED BY <1>6, <1>9, <2>1, <2>4, <2>5, <2>6, <2>7 DEF Fine
<1>10. ASSUME Fault, UNCHANGED storeVars,
              Goto(d, [task[d] EXCEPT !.todo = Tail(task[d].todo),
                        !.others = Append(@, [op |-> o, status |-> "retryable", id |-> 0])])
       PROVE  SyncInv' /\ [TableNext]_storeVars
  <2>1. Len(conflicts') \in Nat
    BY <1>10, <1>7 DEF storeVars
  <2>2. PICK answer : answer = [op |-> o, status |-> "retryable", id |-> 0]
    OBVIOUS
  <2>4. answer \in Answer /\ answer.op = o /\ answer.id = 0
    BY <1>4, <2>2 DEF Answer
  <2>5. answer \in Answers'
    BY <1>4, <1>7, <2>1, <2>4 DEF Answers
  <2>6. PICK t : t = [task[d] EXCEPT !.todo = Tail(@), !.others = Append(@, answer)]
    OBVIOUS
  <2>7. Goto(d, t)
    BY <1>10, <2>2, <2>6
  <2> QED BY <1>6, <1>10, <2>4, <2>5, <2>6, <2>7
<1> QED BY <1>2, <1>5, <1>8, <1>9, <1>10 DEF HandleNext

LEMMA ReceiveAnswersStep ==
  ASSUME SyncInv, NEW d \in Devices, ReceiveAnswers(d), UNCHANGED scenario
  PROVE  SyncInv' /\ UNCHANGED storeVars /\ StatesKept
<1>1. PICK n \in Nat : n = Len(conflicts)
  BY SyncTypes
<1>2. PICK u : u = task[d]
  OBVIOUS
<1>3. u \in PushTask /\ TaskRefs(d, u) /\ u.step = "pushing"
  BY <1>2, TaskKinds, SyncTypes DEF SyncInv, ReceiveAnswers
<1>4. PICK t : t = [step |-> "settle", state |-> u.state, batch |-> u.batch,
                    answers |-> u.accepted \o u.others]
  OBVIOUS
<1>5. /\ u.accepted \o u.others \in Seq(Answer) /\ u.accepted \o u.others \in Seq(Answers)
      /\ u.batch \subseteq Tracked /\ u.batch \in SUBSET OpIds /\ u.state \in Cursor
  BY <1>3, ConcatProperties DEF PushTask, TaskRefs
<1>6. t \in Task /\ TaskRefs(d, t)
  <2>1. t \in SettleTask
    BY <1>4, <1>5 DEF SettleTask
  <2> QED BY <1>4, <1>5, <2>1 DEF Task, TaskRefs
<1>7. WriteFine(n) /\ StatesKept /\ UNCHANGED <<storeVars, enrolled, orphans, faults>> /\ Goto(d, t)
  BY <1>1, <1>2, <1>4, Untouched, SyncTypes DEF ReceiveAnswers
<1> QED BY <1>1, <1>6, <1>7, Assemble DEF SyncInv, WriteFine, Goto

\* What a device that goes away leaves in its handler.
LEMMA OrphanedFact ==
  ASSUME SyncInv, NEW d \in Devices
  PROVE  Orphaned(d) \subseteq orphans \cup (Seq(Tracked) \ {<<>>})
BY DEF SyncInv, TaskRefs, Orphaned

LEMMA LoseAnswersStep ==
  ASSUME SyncInv, NEW d \in Devices, LoseAnswers(d), UNCHANGED scenario
  PROVE  SyncInv' /\ UNCHANGED storeVars /\ StatesKept
<1>1. PICK n \in Nat : n = Len(conflicts)
  BY SyncTypes
<1>2. task[d] \in PushTask /\ TaskRefs(d, task[d]) /\ task[d].step = "pushing"
  BY TaskKinds, SyncTypes DEF SyncInv, LoseAnswers
<1>3. PICK t : t = [step |-> "refresh", state |-> task[d].state]
  OBVIOUS
<1>4. t \in Task /\ TaskRefs(d, t)
  BY <1>2, <1>3 DEF PushTask, StateTask, Task, TaskRefs
<1>5. WriteFine(n) /\ StatesKept
  <2>1. task[d].batch \subseteq Tracked /\ "retryable" \in Statuses \ {"untracked"}
    BY <1>2 DEF TaskRefs, Statuses
  <2> QED BY <1>1, <2>1, SettleFailedFact, SyncTypes DEF LoseAnswers
<1>6. UNCHANGED <<storeVars, enrolled>> /\ Goto(d, t) /\ Fault /\ orphans' = Orphaned(d)
  BY <1>3 DEF LoseAnswers
<1> QED BY <1>1, <1>4, <1>5, <1>6, OrphanedFact, Assemble DEF SyncInv, WriteFine, Goto

LEMMA InterruptStep ==
  ASSUME SyncInv, NEW d \in Devices, Interrupt(d), UNCHANGED scenario
  PROVE  SyncInv' /\ UNCHANGED storeVars /\ StatesKept
<1>1. PICK n \in Nat : n = Len(conflicts)
  BY SyncTypes
<1>2. /\ WriteFine(n) /\ StatesKept /\ UNCHANGED <<storeVars, enrolled>>
      /\ Goto(d, Idle) /\ Fault /\ orphans' = Orphaned(d)
  BY <1>1, Untouched, SyncTypes DEF Interrupt
<1> QED BY <1>1, <1>2, IdleFact, OrphanedFact, Assemble DEF SyncInv, WriteFine, Goto

\* A handler left alone may handle its next operation for as long as it has one.
LEMMA HandleOrphanStep ==
  ASSUME SyncInv, NEW todo \in orphans, HandleOrphan(todo), UNCHANGED scenario
  PROVE  SyncInv' /\ [TableNext]_storeVars /\ StatesKept
<1>1. PICK n \in Nat : n = Len(conflicts)
  BY SyncTypes
<1>2. todo \in Seq(Tracked) /\ todo # <<>>
  BY DEF SyncInv, OrphansOK
<1>3. PICK o \in Tracked : o = Head(todo)
  BY <1>2, HeadTailProperties
<1>4. PICK d \in Devices : d = ops[o].deviceId
  BY SyncTypes DEF DevicesOK, OpsOK, Operation
<1>5. [TableNext]_storeVars
  BY <1>3, HandledOperation DEF HandleOrphan
<1>6. orphans' \subseteq orphans \cup (Seq(Tracked) \ {<<>>})
  <2>1. Tail(todo) \in Seq(Tracked) /\ Len(Tail(todo)) = Len(todo) - 1 /\ Len(todo) \in Nat
    BY <1>2, HeadTailProperties, LenProperties
  <2>2. Len(todo) > 1 => Tail(todo) # <<>>
    <3>1. PICK rest : rest = Tail(todo)
      OBVIOUS
    <3>2. rest = <<>> => Len(rest) = 0
      OBVIOUS
    <3>3. Len(rest) = 0 => ~(Len(todo) > 1)
      BY <2>1, <3>1
    <3> QED BY <3>1, <3>2, <3>3
  <2>3. orphans' = (orphans \ {todo}) \cup (IF Len(todo) > 1 THEN {Tail(todo)} ELSE {})
    BY DEF HandleOrphan
  <2> QED BY <2>1, <2>2, <2>3
<1>7. WriteFine(n) /\ StatesKept /\ UNCHANGED <<enrolled, task, faults>>
  BY <1>1, Untouched, SyncTypes DEF HandleOrphan
<1>8. PICK t : t = task[d]
  OBVIOUS
<1>9. t \in Task /\ TaskRefs(d, t) /\ task' = [task EXCEPT ![d] = t]
  BY <1>7, <1>8 DEF SyncInv
<1> QED BY <1>1, <1>5, <1>6, <1>7, <1>9, Assemble DEF SyncInv, WriteFine

\* The task once an answer has been settled, or all of them at once.
LEMMA SettlingFact ==
  ASSUME SyncInv, NEW d \in Devices, task[d].step \in {"settle", "record"}, task[d].answers # <<>>,
         NEW t, \/ t = Settled(d)
                \/ t = [Settled(d) EXCEPT !.answers = <<>>]
                \/ t = [task[d] EXCEPT !.step = "record"]
  PROVE  t \in Task /\ TaskRefs(d, t)
<1>1. task[d] \in SettleTask /\ TaskRefs(d, task[d])
  BY TaskKinds, SyncTypes DEF SyncInv
<1>2. PICK u : u = task[d]
  OBVIOUS
<1>3. /\ u \in SettleTask /\ u.batch \subseteq Tracked /\ u.answers # <<>>
      /\ u.answers \in Seq(Answers) /\ u.answers \in Seq(Answer)
  BY <1>1, <1>2 DEF SettleTask, TaskRefs
<1>4. Tail(u.answers) \in Seq(Answers) /\ Tail(u.answers) \in Seq(Answer)
  BY <1>3, HeadTailProperties
<1>5. <<>> \in Seq(Answers) /\ <<>> \in Seq(Answer)
  BY EmptySeq
<1>6. PICK answers, step : /\ answers \in Seq(Answers) /\ answers \in Seq(Answer)
                           /\ step = "settle" \/ (step = "record" /\ answers # <<>>)
                           /\ t = [u EXCEPT !.step = step, !.answers = answers]
  <2>1. CASE t = Settled(d)
    <3>1. t = [u EXCEPT !.step = "settle", !.answers = Tail(u.answers)]
      BY <1>2, <1>3, <2>1 DEF Settled, SettleTask
    <3> QED BY <1>4, <3>1
  <2>2. CASE t = [Settled(d) EXCEPT !.answers = <<>>]
    <3>1. t = [u EXCEPT !.step = "settle", !.answers = <<>>]
      BY <1>2, <1>3, <2>2 DEF Settled, SettleTask
    <3> QED BY <1>5, <3>1
  <2>3. CASE t = [task[d] EXCEPT !.step = "record"]
    <3>1. t = [u EXCEPT !.step = "record", !.answers = u.answers]
      BY <1>2, <1>3, <2>3 DEF SettleTask
    <3> QED BY <1>3, <3>1
  <2> QED BY <2>1, <2>2, <2>3
<1>7. t \in SettleTask /\ t.step = step /\ t.batch = u.batch /\ t.answers = answers
  BY <1>3, <1>6 DEF SettleTask
<1> QED BY <1>3, <1>6, <1>7 DEF Task, TaskRefs

\* The answer a task settles is about an operation its push sent.
LEMMA FirstAnswer ==
  ASSUME SyncInv, NEW d \in Devices, task[d].step \in {"settle", "record"}, task[d].answers # <<>>
  PROVE  /\ Head(task[d].answers).op \in Tracked
         /\ Head(task[d].answers).id \in 0 .. Len(conflicts)
<1>1. task[d].answers \in Seq(Answers)
  BY DEF SyncInv, TaskRefs
<1>2. PICK answer : answer = Head(task[d].answers)
  OBVIOUS
<1>3. answer \in Answers
  BY <1>1, <1>2, HeadTailProperties
<1> QED BY <1>2, <1>3, SyncTypes DEF Answers, Answer

LEMMA SettleStep ==
  ASSUME SyncInv, NEW d \in Devices, Settle(d), UNCHANGED scenario
  PROVE  SyncInv' /\ UNCHANGED storeVars /\ StatesKept
<1>1. PICK n \in Nat : n = Len(conflicts)
  BY SyncTypes
<1>2. task[d].step = "settle" /\ task[d].answers # <<>>
  BY DEF Settle
<1>3. PICK answer : answer = Head(task[d].answers)
  OBVIOUS
<1>4. answer.op \in Tracked
  BY <1>2, <1>3, FirstAnswer
<1>5. UNCHANGED <<storeVars, enrolled, orphans, faults>>
  BY DEF Settle
<1>6. PICK t : /\ Goto(d, t)
               /\ t = Settled(d) \/ t = [task[d] EXCEPT !.step = "record"]
  BY DEF Settle, GoOn
<1>7. t \in Task /\ TaskRefs(d, t)
  BY <1>2, <1>6, SettlingFact
<1>8. WriteFine(n) /\ StatesKept
  <2>1. CASE SettleAccepted(answer.op)
    BY <1>1, <1>4, <2>1, SettleAcceptedFact, SyncTypes
  <2>2. CASE answer.status \in {"conflict", "rejected", "retryable"} /\ SettleFailed({answer.op}, answer.status)
    <3>1. {answer.op} \subseteq Tracked /\ answer.status \in Statuses \ {"untracked"}
      BY <1>4, <2>2 DEF Statuses
    <3> QED BY <1>1, <2>2, <3>1, SettleFailedFact, SyncTypes
  <2> QED BY <1>3, <2>1, <2>2 DEF Settle
<1> QED BY <1>1, <1>5, <1>6, <1>7, <1>8, Assemble DEF SyncInv, WriteFine, Goto

LEMMA RecordStep ==
  ASSUME SyncInv, NEW d \in Devices, Record(d), UNCHANGED scenario
  PROVE  SyncInv' /\ UNCHANGED storeVars /\ StatesKept
<1>1. PICK n \in Nat : n = Len(conflicts)
  BY SyncTypes
<1>2. task[d].step = "record" /\ task[d].answers # <<>> /\ TaskRefs(d, task[d])
  BY DEF Record, SyncInv, TaskRefs
<1>3. PICK answer : answer = Head(task[d].answers)
  OBVIOUS
<1>4. answer.op \in Tracked /\ answer.id \in 0 .. n
  BY <1>1, <1>2, <1>3, FirstAnswer
<1>5. UNCHANGED <<storeVars, enrolled, orphans, faults>>
  BY DEF Record
<1>6. PICK t : /\ Goto(d, t)
               /\ t = Settled(d) \/ t = [Settled(d) EXCEPT !.answers = <<>>]
  BY DEF Record
<1>7. t \in Task /\ TaskRefs(d, t)
  BY <1>2, <1>6, SettlingFact
<1>8. WriteFine(n) /\ StatesKept
  <2>1. CASE BumpRevision(d, answer.op)
    BY <1>1, <1>4, <2>1, BumpRevisionFact, SyncTypes
  <2>2. CASE RecordRow(d, answer.op, answer.id)
    BY <1>1, <1>4, <2>2, RecordRowFact, SyncTypes
  <2>3. CASE SettleFailed(task[d].batch, "retryable")
    <3>1. task[d].batch \subseteq Tracked /\ "retryable" \in Statuses \ {"untracked"}
      BY <1>2 DEF TaskRefs, Statuses
    <3> QED BY <1>1, <2>3, <3>1, SettleFailedFact, SyncTypes
  <2> QED BY <1>3, <2>1, <2>2, <2>3 DEF Record
<1> QED BY <1>1, <1>5, <1>6, <1>7, <1>8, Assemble DEF SyncInv, WriteFine, Goto

LEMMA RefreshStep ==
  ASSUME SyncInv, NEW d \in Devices, Refresh(d), UNCHANGED scenario
  PROVE  SyncInv' /\ UNCHANGED storeVars /\ StatesKept
<1>1. PICK n \in Nat : n = Len(conflicts)
  BY SyncTypes
<1>2. task[d].state \in Cursor
  <2>1. task[d] \in StateTask \/ task[d] \in SettleTask
    BY TaskKinds, SyncTypes DEF Refresh
  <2> QED BY <2>1 DEF StateTask, SettleTask
<1>3. PICK t : t = [step |-> "flush", state |-> task[d].state,
                    todo |-> {r \in db[d].resolutions : r.status = "pending"}]
  OBVIOUS
<1>4. t \in Task /\ TaskRefs(d, t)
  <2>1. db[d].resolutions \in SUBSET Resolution
    BY SyncTypes DEF Database
  <2>2. \A r \in db[d].resolutions : r.id \in 0 .. n
    BY <1>1, SyncTypes DEF IdsUpTo
  <2> QED BY <1>1, <1>2, <1>3, <2>1, <2>2 DEF Task, FlushTask, TaskRefs
<1>5. UNCHANGED <<storeVars, enrolled, orphans>> /\ (faults' = faults \/ Fault) /\ Goto(d, t)
  BY <1>3 DEF Refresh, Fine
<1>6. WriteFine(n) /\ StatesKept
  <2>1. CASE RefreshRows(d)
    BY <1>1, <2>1, RefreshFact, SyncTypes
  <2>2. CASE UNCHANGED deviceVars
    BY <1>1, <2>2, Untouched, SyncTypes
  <2> QED BY <2>1, <2>2 DEF Refresh
<1> QED BY <1>1, <1>4, <1>5, <1>6, Assemble DEF SyncInv, WriteFine, Goto

\* A decision that is delivered is a transaction on a conflict the server has.
LEMMA DeliveredFact ==
  ASSUME SyncInv, NEW r, r.id \in 0 .. Len(conflicts), r.id # 0, Deliver(r)
  PROVE  TableNext
<1>1. r.id \in DOMAIN conflicts
  BY SyncTypes
<1> QED BY <1>1 DEF Deliver, TableNext

LEMMA FlushStep ==
  ASSUME SyncInv, NEW d \in Devices, Flush(d), UNCHANGED scenario
  PROVE  SyncInv' /\ [TableNext]_storeVars /\ StatesKept
<1>1. PICK n \in Nat : n = Len(conflicts)
  BY SyncTypes
<1>2. task[d] \in FlushTask /\ TaskRefs(d, task[d]) /\ task[d].step = "flush"
  BY TaskKinds, SyncTypes DEF SyncInv, Flush
<1>3. PICK r \in task[d].todo :
        /\ \/ r.id = 0 /\ MarkSent(d, r) /\ UNCHANGED storeVars /\ Fine
           \/ r.id # 0 /\ Authorized(d) /\ Deliver(r) /\ MarkSent(d, r) /\ Fine
           \/ r.id # 0 /\ Authorized(d) /\ Deliver(r) /\ UNCHANGED deviceVars /\ Fault
           \/ r.id # 0 /\ (~Authorized(d) \/ Refused(r)) /\ UNCHANGED <<storeVars, deviceVars>> /\ Fine
        /\ Goto(d, [task[d] EXCEPT !.todo = @ \ {r}])
  BY DEF Flush
<1>4. r \in Resolution /\ r.id \in 0 .. Len(conflicts)
  BY <1>2 DEF FlushTask, TaskRefs
<1>5. [TableNext]_storeVars
  BY <1>3, <1>4, DeliveredFact
<1>6. PICK t : t = [task[d] EXCEPT !.todo = @ \ {r}]
  OBVIOUS
<1>7. t \in Task /\ TaskRefs(d, t)
  <2>1. t \in FlushTask /\ t.step = "flush" /\ t.todo = task[d].todo \ {r}
    BY <1>2, <1>6 DEF FlushTask
  <2> QED BY <1>2, <2>1 DEF Task, TaskRefs
<1>8. WriteFine(n) /\ StatesKept
  <2>1. CASE MarkSent(d, r)
    BY <1>1, <1>4, <2>1, MarkSentFact, SyncTypes
  <2>2. CASE UNCHANGED deviceVars
    BY <1>1, <2>2, Untouched, SyncTypes
  <2> QED BY <1>3, <2>1, <2>2
<1>9. UNCHANGED <<enrolled, orphans>> /\ (faults' = faults \/ Fault) /\ Goto(d, t)
  BY <1>3, <1>6 DEF Flush, Fine
<1> QED BY <1>1, <1>5, <1>7, <1>8, <1>9, Assemble DEF SyncInv, WriteFine, Goto

LEMMA PullAgainStep ==
  ASSUME SyncInv, NEW d \in Devices, PullAgain(d), UNCHANGED scenario
  PROVE  SyncInv' /\ UNCHANGED storeVars /\ StatesKept
<1>1. PICK n \in Nat : n = Len(conflicts)
  BY SyncTypes
<1>2. task[d] \in FlushTask
  BY TaskKinds, SyncTypes DEF PullAgain
<1>3. PICK t : t = Pulling(d, 2, task[d].state)
  OBVIOUS
<1>4. t \in Task /\ TaskRefs(d, t)
  BY <1>2, <1>3 DEF Pulling, FlushTask, PullTask, Task, TaskRefs
<1>5. WriteFine(n) /\ StatesKept /\ UNCHANGED <<storeVars, enrolled, orphans, faults>> /\ Goto(d, t)
  BY <1>1, <1>3, Untouched, SyncTypes DEF PullAgain
<1> QED BY <1>1, <1>4, <1>5, Assemble DEF SyncInv, WriteFine, Goto

\* The epoch of a book, once it has one, is among those it opened.
EpochOpen ==
  bookEpoch # NoEpoch =>
    /\ bookEpoch \in Epochs /\ epochs[bookEpoch].start \in Nat \ {0} /\ epochs[bookEpoch].number > 0
    /\ nextSequence \in Nat \ {0} /\ epochs[bookEpoch].start <= nextSequence

LEMMA OpenEpoch == TablesOK => EpochOpen
BY DEF TablesOK, StoreTypeOK, EpochsInv, EpochRow, EpochOpen

LEMMA RequestEnrollmentStep ==
  ASSUME SyncInv, NEW d \in Devices, RequestEnrollment(d), UNCHANGED scenario
  PROVE  SyncInv' /\ [TableNext]_storeVars /\ StatesKept
<1>1. PICK n \in Nat : n = Len(conflicts)
  BY SyncTypes
<1>2. [TableNext]_storeVars
  BY DEF RequestEnrollment, TableNext
<1>3. TablesOK' /\ bookEpoch' # NoEpoch /\ nextSequence' = nextSequence
  <2>1. TablesOK'
    BY <1>2, StoreStep, SyncTypes
  <2> QED BY <2>1, NullAssumption DEF RequestEnrollment, CreateBook, storeVars
<1>4. bookEpoch' \in Epochs /\ epochs'[bookEpoch'].start \in Nat \ {0} /\ nextSequence' \in Nat \ {0}
  <2>1. EpochOpen'
    BY <1>3, OpenEpoch, PTL
  <2> QED BY <1>3, <2>1 DEF EpochOpen
<1>5. PICK answer : answer = [epoch |-> bookEpoch', start |-> epochs'[bookEpoch'].start,
                              current |-> nextSequence - 1,
                              snapshotAvailable |-> \E i \in DOMAIN snapshots :
                                                      snapshots[i].bookEpoch = bookEpoch']
  OBVIOUS
<1>6. answer \in EnrollAnswer
  <2>1. nextSequence - 1 \in Nat
    BY <1>3, <1>4
  <2>2. (\E i \in DOMAIN snapshots : snapshots[i].bookEpoch = bookEpoch') \in BOOLEAN
    OBVIOUS
  <2> QED BY <1>4, <1>5, <2>1, <2>2 DEF EnrollAnswer
<1>7. PICK t : t = [step |-> "enrolling", recovering |-> db[d].recovery # "none", answer |-> answer]
  OBVIOUS
<1>8. t \in Task /\ TaskRefs(d, t)
  BY <1>6, <1>7 DEF Task, EnrollTask, TaskRefs
<1>9. WriteFine(n) /\ StatesKept /\ UNCHANGED <<orphans, faults>> /\ Goto(d, t)
  BY <1>1, <1>5, <1>7, Untouched, SyncTypes DEF RequestEnrollment
<1>10. enrolled' \in [Devices -> Epochs \cup {NoEpoch}]
  BY <1>4 DEF RequestEnrollment, SyncInv
<1> QED BY <1>1, <1>2, <1>8, <1>9, <1>10, Assemble DEF SyncInv, WriteFine, Goto

LEMMA EnrollStep ==
  ASSUME SyncInv, NEW d \in Devices, Enroll(d), UNCHANGED scenario
  PROVE  /\ SyncInv' /\ UNCHANGED storeVars
         /\ \/ StatesKept
            \/ /\ task[d].step = "stating" /\ Goto(d, Idle) /\ OthersKept(d)
               /\ SyncState(d)' = <<task[d].answer.epoch, EnrolledCursor(d, task[d].answer),
                                    EnrolledCheckpoint(d, task[d].answer)>>
<1>1. PICK n \in Nat : n = Len(conflicts)
  BY SyncTypes
<1>2. task[d] \in EnrollTask
  BY TaskKinds, SyncTypes DEF Enroll
<1>3. PICK answer : answer = task[d].answer
  OBVIOUS
<1>4. answer.epoch \in Epochs /\ answer.start \in Nat \ {0} /\ task[d].recovering \in BOOLEAN
  BY <1>2, <1>3 DEF EnrollTask, EnrollAnswer
<1>5. UNCHANGED <<storeVars, enrolled, orphans, faults>>
  BY DEF Enroll
<1>6. CASE WriteState(d, answer) /\ Goto(d, Idle) /\ task[d].step = "stating"
  <2>1. /\ WriteFine(n) /\ OthersKept(d)
        /\ SyncState(d)' = <<answer.epoch, EnrolledCursor(d, answer), EnrolledCheckpoint(d, answer)>>
    BY <1>1, <1>4, <1>6, WriteStateFact, SyncTypes
  <2>2. SyncInv'
    BY <1>1, <1>5, <1>6, <2>1, IdleFact, Assemble DEF SyncInv, WriteFine, Goto
  <2> QED BY <1>3, <1>5, <1>6, <2>1, <2>2
<1>7. CASE /\ \/ WriteProfile(d, task[d].recovering, answer) \/ SetOldAside(d, answer)
              \/ IgnoreRows(d) \/ RejectResolutions(d)
           /\ \E step \in {"setting aside", "ignoring", "rejecting", "stating"} : GoOn(d, step)
  <2>1. WriteFine(n) /\ StatesKept
    BY <1>1, <1>4, <1>7, WriteProfileFact, SetOldAsideFact, IgnoreRowsFact, RejectResolutionsFact, SyncTypes
  <2>2. PICK step \in {"setting aside", "ignoring", "rejecting", "stating"} : GoOn(d, step)
    BY <1>7
  <2>3. PICK t : t = [task[d] EXCEPT !.step = step]
    OBVIOUS
  <2>4. t \in EnrollTask /\ t.step = step
    BY <1>2, <2>3 DEF EnrollTask
  <2>5. t \in Task /\ TaskRefs(d, t)
    BY <2>4 DEF Task, TaskRefs
  <2>6. SyncInv'
    BY <1>1, <1>5, <2>1, <2>2, <2>3, <2>5, Assemble DEF SyncInv, WriteFine, Goto, GoOn
  <2> QED BY <1>5, <2>1, <2>6
<1> QED BY <1>3, <1>6, <1>7 DEF Enroll

LEMMA StartPublishStep ==
  ASSUME SyncInv, NEW d \in Devices, StartPublish(d), UNCHANGED scenario
  PROVE  SyncInv' /\ UNCHANGED storeVars /\ StatesKept
<1>1. PICK n \in Nat : n = Len(conflicts)
  BY SyncTypes
<1>2. PICK t : t = [step |-> "publishing", epoch |-> db[d].stateEpoch, cursor |-> db[d].cursor,
                    checkpoint |-> db[d].checkpoint, bootstrap |-> db[d].recovery = "bootstrap"]
  OBVIOUS
<1>3. db[d].stateEpoch \in Epochs /\ db[d].cursor \in Nat /\ db[d].checkpoint \in SUBSET Event
  <2>1. db[d] \in Database
    BY SyncTypes
  <2>2. db[d].epoch # NoEpoch
    BY SyncTypes DEF StartPublish, Enabled, DevicesOK, ProfilesOK
  <2>3. db[d].stateEpoch \in Epochs \cup {NoEpoch} /\ db[d].cursor \in Nat
    BY <2>1 DEF Database
  <2>4. db[d].checkpoint \in (SUBSET Event) \cup {NoHash}
    BY <2>1 DEF Database
  <2> QED BY <2>2, <2>3, <2>4 DEF StartPublish
<1>4. t \in Task /\ TaskRefs(d, t)
  BY <1>2, <1>3, NullAssumption DEF Task, PublishTask, TaskRefs
<1>5. WriteFine(n) /\ StatesKept /\ UNCHANGED <<storeVars, enrolled, orphans, faults>> /\ Goto(d, t)
  BY <1>1, <1>2, Untouched, SyncTypes DEF StartPublish
<1> QED BY <1>1, <1>4, <1>5, Assemble DEF SyncInv, WriteFine, Goto

LEMMA UploadStep ==
  ASSUME SyncInv, NEW d \in Devices, Upload(d), UNCHANGED scenario
  PROVE  SyncInv' /\ [TableNext]_storeVars /\ StatesKept
<1>1. PICK n \in Nat : n = Len(conflicts)
  BY SyncTypes
<1>2. task[d] \in PublishTask
  BY TaskKinds, SyncTypes DEF Upload
<1>3. [TableNext]_storeVars
  <2>1. task[d].epoch \in Epochs /\ task[d].cursor \in Nat
    BY <1>2 DEF PublishTask
  <2>2. db[d].projection \in Projections
    <3>1. db[d] \in Database
      BY SyncTypes
    <3> QED BY <3>1, ProjectionsAssumption DEF Database
  <2> QED BY <2>1, <2>2 DEF Upload, TableNext
<1>4. PICK t : Goto(d, t) /\ (t = Idle \/ t = [task[d] EXCEPT !.step = "published"])
  BY DEF Upload
<1>5. t \in Task /\ TaskRefs(d, t)
  <2>1. CASE t = Idle
    BY <2>1, IdleFact
  <2>2. CASE t = [task[d] EXCEPT !.step = "published"]
    <3>1. t \in PublishTask /\ t.step = "published"
      BY <1>2, <2>2 DEF PublishTask
    <3>2. db[d].stateEpoch # NoEpoch
      BY DEF Upload, SyncInv, TaskRefs
    <3> QED BY <3>1, <3>2 DEF Task, TaskRefs
  <2> QED BY <1>4, <2>1, <2>2
<1>6. WriteFine(n) /\ StatesKept /\ UNCHANGED <<enrolled, orphans, faults>>
  BY <1>1, Untouched, SyncTypes DEF Upload
<1> QED BY <1>1, <1>3, <1>4, <1>5, <1>6, Assemble DEF SyncInv, WriteFine, Goto

LEMMA FinishPublishStep ==
  ASSUME SyncInv, NEW d \in Devices, FinishPublish(d), UNCHANGED scenario
  PROVE  SyncInv' /\ UNCHANGED storeVars /\ StatesKept
<1>1. PICK n \in Nat : n = Len(conflicts)
  BY SyncTypes
<1>2. WriteFine(n) /\ StatesKept
  <2>1. Known(d)
    BY DEF FinishPublish, SyncInv, TaskRefs, Known
  <2> QED BY <1>1, <2>1, FinishBootstrapFact, Untouched, SyncTypes DEF FinishPublish
<1>3. UNCHANGED <<storeVars, enrolled, orphans, faults>> /\ Goto(d, Idle)
  BY DEF FinishPublish
<1> QED BY <1>1, <1>2, <1>3, IdleFact, Assemble DEF SyncInv, WriteFine, Goto

LEMMA FetchSnapshotStep ==
  ASSUME SyncInv, NEW d \in Devices, FetchSnapshot(d), UNCHANGED scenario
  PROVE  SyncInv' /\ UNCHANGED storeVars /\ StatesKept
<1>1. PICK n \in Nat : n = Len(conflicts)
  BY SyncTypes
<1>2. PICK i \in DOMAIN snapshots :
        Goto(d, [step |-> "installing", snapshot |-> snapshots[i], tail |-> {}, more |-> TRUE,
                 cursor |-> snapshots[i].throughSequence,
                 hash |-> EventsThrough(bookEpoch, snapshots[i].throughSequence)])
  BY DEF FetchSnapshot, LatestSnapshots
<1>3. PICK t : t = [step |-> "installing", snapshot |-> snapshots[i], tail |-> {}, more |-> TRUE,
                    cursor |-> snapshots[i].throughSequence,
                    hash |-> EventsThrough(bookEpoch, snapshots[i].throughSequence)]
  OBVIOUS
<1>4. snapshots[i] \in Snapshot /\ snapshots[i].throughSequence \in Nat
  <2>1. snapshots \in Seq(Snapshot)
    BY SyncTypes DEF TablesOK, StoreTypeOK
  <2>2. snapshots[i] \in Snapshot
    BY <2>1
  <2> QED BY <2>2 DEF Snapshot
<1>5. EventsThrough(bookEpoch, snapshots[i].throughSequence) \in SUBSET Event
  BY SyncTypes DEF EventsThrough, TablesOK, StoreTypeOK
<1>6. t \in Task /\ TaskRefs(d, t)
  BY <1>3, <1>4, <1>5 DEF Task, InstallTask, TaskRefs
<1>7. WriteFine(n) /\ StatesKept /\ UNCHANGED <<storeVars, enrolled, orphans, faults>> /\ Goto(d, t)
  BY <1>1, <1>2, <1>3, Untouched, SyncTypes DEF FetchSnapshot
<1> QED BY <1>1, <1>6, <1>7, Assemble DEF SyncInv, WriteFine, Goto

LEMMA FetchTailStep ==
  ASSUME SyncInv, NEW d \in Devices, FetchTail(d), UNCHANGED scenario
  PROVE  SyncInv' /\ [TableNext]_storeVars /\ StatesKept
<1>1. PICK n \in Nat : n = Len(conflicts)
  BY SyncTypes
<1>2. task[d] \in InstallTask /\ TaskRefs(d, task[d]) /\ task[d].step = "installing"
  BY TaskKinds, SyncTypes DEF SyncInv, FetchTail
<1>3. PICK u : u = task[d]
  OBVIOUS
<1>4. u.cursor \in Nat /\ u.tail \subseteq events /\ u \in InstallTask
  BY <1>2, <1>3 DEF InstallTask, TaskRefs
<1>5. WriteFine(n) /\ StatesKept /\ UNCHANGED <<enrolled, orphans, faults>>
  BY <1>1, Untouched, SyncTypes DEF FetchTail
<1>6. CASE Pull(u.cursor) /\ Goto(d, WithPage(u, PullPage(u.cursor)))
  <2>1. PICK page : page = PullPage(u.cursor)
    OBVIOUS
  <2>2. page \in Page /\ page.events \subseteq events
    BY <1>4, <1>6, <2>1, PullPageType, SyncTypes
  <2>3. PICK t : t = WithPage(u, page)
    OBVIOUS
  <2>4. t \in InstallTask /\ t.step = "installing" /\ t.tail = u.tail \cup page.events
    BY <1>4, <2>2, <2>3 DEF WithPage, Page, InstallTask
  <2>5. t \in Task /\ TaskRefs(d, t)
    BY <1>4, <2>2, <2>4 DEF Task, TaskRefs
  <2>6. TableNext
    BY <1>4, <1>6 DEF TableNext
  <2> QED BY <1>1, <1>5, <1>6, <2>1, <2>3, <2>5, <2>6, Assemble DEF SyncInv, WriteFine, Goto
<1>7. CASE Goto(d, Idle) /\ UNCHANGED storeVars
  BY <1>1, <1>5, <1>7, IdleFact, Assemble DEF SyncInv, WriteFine, Goto
<1> QED BY <1>3, <1>6, <1>7 DEF FetchTail

LEMMA InstallStep ==
  ASSUME SyncInv, NEW d \in Devices, Install(d), UNCHANGED scenario
  PROVE  /\ SyncInv' /\ UNCHANGED storeVars /\ Goto(d, Idle)
         /\ \/ StatesKept
            \/ /\ SyncState(d)' = <<task[d].snapshot.bookEpoch, task[d].cursor, task[d].hash>>
               /\ OthersKept(d)
<1>1. PICK n \in Nat : n = Len(conflicts)
  BY SyncTypes
<1>2. task[d] \in InstallTask /\ TaskRefs(d, task[d]) /\ task[d].step = "installing"
  BY TaskKinds, SyncTypes DEF SyncInv, Install, ReadyToInstall
<1>3. /\ task[d].snapshot \in Snapshot /\ task[d].tail \in SUBSET events
      /\ task[d].cursor \in Nat /\ task[d].hash \in SUBSET Event
  BY <1>2 DEF InstallTask, TaskRefs
<1>4. /\ WriteFine(n)
      /\ \/ StatesKept
         \/ /\ SyncState(d)' = <<task[d].snapshot.bookEpoch, task[d].cursor, task[d].hash>>
            /\ OthersKept(d)
  <2>1. CASE InstallSnapshot(d, task[d].snapshot, task[d].tail, task[d].cursor, task[d].hash)
    BY <1>1, <1>3, <2>1, InstallFact, SyncTypes
  <2>2. CASE UNCHANGED deviceVars
    BY <1>1, <2>2, Untouched, SyncTypes
  <2> QED BY <2>1, <2>2 DEF Install
<1>5. UNCHANGED <<storeVars, enrolled, orphans, faults>> /\ Goto(d, Idle)
  BY DEF Install
<1> QED BY <1>1, <1>4, <1>5, IdleFact, Assemble DEF SyncInv, WriteFine, Goto

LEMMA RequestAdvanceStep ==
  ASSUME SyncInv, NEW d \in Devices, RequestAdvance(d), UNCHANGED scenario
  PROVE  SyncInv' /\ [TableNext]_storeVars /\ StatesKept
<1>1. PICK n \in Nat : n = Len(conflicts)
  BY SyncTypes
<1>2. PICK e \in Epochs : /\ AdvanceEpoch(db[d].epoch, e)
                          /\ Goto(d, [step |-> "advancing", epoch |-> e, start |-> nextSequence])
  BY DEF RequestAdvance
<1>3. bookEpoch \in Epochs /\ nextSequence \in Nat \ {0} /\ db[d].epoch = bookEpoch
  BY <1>2, SyncTypes DEF AdvanceEpoch, TablesOK, StoreTypeOK
<1>4. TableNext
  BY <1>2, <1>3 DEF TableNext
<1>5. PICK t : t = [step |-> "advancing", epoch |-> e, start |-> nextSequence]
  OBVIOUS
<1>6. t \in Task /\ TaskRefs(d, t)
  BY <1>3, <1>5, NullAssumption DEF Task, AdvanceTask, TaskRefs
<1>7. WriteFine(n) /\ StatesKept /\ UNCHANGED <<orphans, faults>> /\ Goto(d, t)
  BY <1>1, <1>2, <1>5, Untouched, SyncTypes DEF RequestAdvance
<1>8. enrolled' \in [Devices -> Epochs \cup {NoEpoch}]
  BY DEF RequestAdvance
<1> QED BY <1>1, <1>4, <1>6, <1>7, <1>8, Assemble DEF SyncInv, WriteFine, Goto

LEMMA AdvanceStep ==
  ASSUME SyncInv, NEW d \in Devices, Advance(d), UNCHANGED scenario
  PROVE  /\ SyncInv' /\ UNCHANGED storeVars
         /\ \/ StatesKept
            \/ /\ Goto(d, Idle) /\ OthersKept(d)
               /\ SyncState(d)' = <<task[d].epoch, task[d].start - 1, NoHash>>
<1>1. PICK n \in Nat : n = Len(conflicts)
  BY SyncTypes
<1>2. task[d] \in AdvanceTask /\ db[d].epoch # NoEpoch
  BY TaskKinds, SyncTypes DEF Advance, SyncInv, TaskRefs
<1>3. task[d].epoch \in Epochs /\ task[d].start \in Nat \ {0}
  BY <1>2 DEF AdvanceTask
<1>4. UNCHANGED <<storeVars, enrolled, orphans, faults>>
  BY DEF Advance
<1>5. CASE RestartState(d, task[d].epoch, task[d].start) /\ Goto(d, Idle)
  <2>1. /\ WriteFine(n) /\ OthersKept(d)
        /\ SyncState(d)' = <<task[d].epoch, task[d].start - 1, NoHash>>
    BY <1>1, <1>3, <1>5, RestartStateFact, SyncTypes
  <2>2. SyncInv'
    BY <1>1, <1>4, <1>5, <2>1, IdleFact, Assemble DEF SyncInv, WriteFine, Goto
  <2> QED BY <1>4, <1>5, <2>1, <2>2
<1>6. CASE /\ SetAside(d) \/ StopSync(d) \/ RenameEpoch(d, task[d].epoch)
           /\ \E step \in {"stopping", "renaming", "restarting"} : GoOn(d, step)
  <2>1. WriteFine(n) /\ StatesKept
    BY <1>1, <1>2, <1>3, <1>6, SetAsideFact, StopSyncFact, RenameEpochFact, SyncTypes
  <2>2. PICK step \in {"stopping", "renaming", "restarting"} : GoOn(d, step)
    BY <1>6
  <2>3. PICK t : t = [task[d] EXCEPT !.step = step]
    OBVIOUS
  <2>4. t \in AdvanceTask /\ t.step = step
    BY <1>2, <2>3 DEF AdvanceTask
  <2>5. t \in Task /\ TaskRefs(d, t)
    BY <1>2, <2>4 DEF Task, TaskRefs
  <2>6. SyncInv'
    BY <1>1, <1>4, <2>1, <2>2, <2>3, <2>5, Assemble DEF SyncInv, WriteFine, Goto, GoOn
  <2> QED BY <1>4, <2>1, <2>6
<1> QED BY <1>5, <1>6 DEF Advance

-----------------------------------------------------------------------------
(* The devices and the server together *)

LEMMA InitSync == Init => SyncInv
<1> SUFFICES ASSUME Init PROVE SyncInv
  OBVIOUS
<1>1. TablesOK /\ DevicesOK /\ IdsUpTo(0)
  BY InitTables, InitDevices DEF Init
<1>2. Len(conflicts) = 0
  BY DEF Init, StoreInit
<1>3. \A d \in Devices : task[d] = Idle
  BY DEF Init
<1>4. task \in [Devices -> Task] /\ \A d \in Devices : TaskRefs(d, task[d])
  <2>1. task = [d \in Devices |-> Idle]
    BY DEF Init
  <2> QED BY <2>1, IdleFact
<1>5. Now.faults \in Nat
  BY ScenariosAssumption DEF Init, Now
<1>6. enrolled \in [Devices -> Epochs \cup {NoEpoch}] /\ OrphansOK
  BY DEF Init, OrphansOK
<1>7. scenario \in DOMAIN Scenarios /\ faults \in 0 .. Now.faults
  BY <1>5 DEF Init
<1> QED BY <1>1, <1>2, <1>4, <1>6, <1>7 DEF SyncInv

\* Whatever a device or a handler does, the store runs one of its transactions
\* or nothing.
LEMMA SyncInvStep ==
  ASSUME SyncInv, [Next]_vars PROVE SyncInv' /\ [TableNext]_storeVars
<1>1. CASE UNCHANGED vars
  <2>1. UNCHANGED storeVars /\ UNCHANGED deviceVars /\ UNCHANGED <<enrolled, task, orphans, faults, scenario>>
    BY <1>1 DEF vars
  <2>2. SyncInv'
    <3>1. TablesOK'
      BY <2>1, StoreStep DEF SyncInv
    <3>2. Len(conflicts') = Len(conflicts) /\ events' = events
      BY <2>1 DEF storeVars
    <3>3. DevicesOK' /\ IdsUpTo(Len(conflicts))' /\ Tracked' = Tracked
      <4>1. PICK n : n = Len(conflicts)
        OBVIOUS
      <4> QED BY <2>1, <3>2, <4>1, Untouched, SyncTypes DEF WriteFine, IdsUpTo
    <3>4. OrphansOK'
      BY <2>1, <3>3 DEF SyncInv, OrphansOK
    <3>5. \A d \in Devices : TaskRefs(d, task[d])'
      BY <2>1, <3>2, <3>3 DEF SyncInv, TaskRefs, Answers, deviceVars
    <3> QED BY <2>1, <3>1, <3>3, <3>4, <3>5 DEF SyncInv, Now
  <2> QED BY <2>1, <2>2
<1>2. ASSUME Next, NEW d \in Devices,
             \/ Change(d) \/ Decide(d) \/ Clear(d) \/ StartSync(d) \/ LoseAnswers(d)
             \/ Install(d) \/ Interrupt(d)
             \/ RequestEnrollment(d) \/ StartPublish(d) \/ FetchSnapshot(d) \/ RequestAdvance(d)
      PROVE  SyncInv' /\ [TableNext]_storeVars
  <2>1. UNCHANGED scenario
    BY <1>2 DEF Next
  <2> QED BY <1>2, <2>1, ChangeStep, DecideStep, ClearStep, StartSyncStep, LoseAnswersStep, InstallStep, InterruptStep,
             RequestEnrollmentStep, StartPublishStep, FetchSnapshotStep, RequestAdvanceStep
<1>3. ASSUME Next, NEW d \in Devices, SyncStep(d) PROVE SyncInv' /\ [TableNext]_storeVars
  <2>1. UNCHANGED scenario
    BY <1>3 DEF Next
  <2>2. ASSUME ServePull(d) PROVE SyncInv' /\ [TableNext]_storeVars
    BY <2>1, <2>2, ServePullStep DEF TableNext
  <2> QED BY <1>3, <2>1, <2>2, AuthorizePullStep, ReceivePageStep, StopStep, StartPushStep, HandleNextStep,
             ReceiveAnswersStep, SettleStep, RecordStep, RefreshStep, FlushStep, PullAgainStep DEF SyncStep
<1>4. ASSUME Next, NEW d \in Devices, RecoveryStep(d) PROVE SyncInv' /\ [TableNext]_storeVars
  <2>1. UNCHANGED scenario
    BY <1>4 DEF Next
  <2> QED BY <1>4, <2>1, EnrollStep, UploadStep, FinishPublishStep, FetchTailStep, AdvanceStep
          DEF RecoveryStep
<1>5. ASSUME Next, NEW todo \in orphans, HandleOrphan(todo) PROVE SyncInv' /\ [TableNext]_storeVars
  <2>1. UNCHANGED scenario
    BY <1>5 DEF Next
  <2> QED BY <1>5, <2>1, HandleOrphanStep
<1> QED BY <1>1, <1>2, <1>3, <1>4, <1>5 DEF Next

LEMMA SyncInvCorrect == Spec => []SyncInv
BY InitSync, SyncInvStep, PTL DEF Spec

\* Devices that retry, lose answers, are interrupted with a push half handled,
\* recover or advance the epoch change the server by whole transactions only.
THEOREM DevicesTransact == Spec => TableSpec
<1>1. Init => StoreInit
  BY DEF Init
<1> QED BY <1>1, SyncInvStep, SyncInvCorrect, PTL DEF Spec, TableSpec

\* Every reachable state of the server, of the devices and of what runs on them
\* is well typed, for every number of devices, operations, epochs and faults.
THEOREM TypeCorrect == Spec => []TypeOK
<1> DEFINE ClearingOK == clearing \in [Devices -> {"no", "stop", "empty", "emptied"}]
<1>1. SyncInv /\ ClearingOK => TypeOK
  <2> SUFFICES ASSUME SyncInv, ClearingOK PROVE TypeOK
    OBVIOUS
  <2>1. Tracked \subseteq OpIds
    BY OpsFact, SyncTypes DEF Tracked
  <2>2. \A todo \in Seq(Tracked) : todo \in Seq(OpIds)
    BY <2>1, SeqMonotonic
  <2>3. orphans \subseteq Seq(OpIds)
    BY <2>2 DEF SyncInv, OrphansOK
  <2> QED BY <2>3 DEF SyncInv, TypeOK, TablesOK, DevicesOK
<1>2. Init => ClearingOK
  BY DEF Init
<1>3. ClearingOK /\ [Next]_vars => ClearingOK'
  BY DEF Next, Clear, Install, Interrupt, vars
<1> HIDE DEF ClearingOK
<1> QED BY <1>1, <1>2, <1>3, SyncInvCorrect, PTL DEF Spec

\* What the log promises holds with the devices that write it: whatever a
\* device submits again, was cut off in or does after its epoch was replaced,
\* the canonical log has no hole, holds an operation once, inside its epoch,
\* after what it depends on and after the revision it saw.
LogPromises == Sequenced /\ ExactlyOnce /\ EpochFence /\ DependenciesPrecede /\ RevisionChain

THEOREM LogAmongDevices == Spec => []LogPromises
<1>1. TableSpec => []LogPromises
  BY TableSequenced, TableExactlyOnce, TableEpochFence, TableDependencies, TableRevisionChain, PTL DEF LogPromises
<1> QED BY <1>1, DevicesTransact, PTL

\* No device, handler or fault takes an event or a decision back.
THEOREM NothingTakenBack == Spec => AppendOnlyHistory
BY DevicesTransact, TableAppendOnly, PTL
=============================================================================
