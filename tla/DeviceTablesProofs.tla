------------------------- MODULE DeviceTablesProofs -------------------------
(***************************************************************************)
(* What the transactions of a device keep of its own tables: their types,  *)
(* a profile that knows its epoch, and an outbox whose operations the       *)
(* server can be sent, in a sequence of their own.                          *)
(***************************************************************************)
EXTENDS DeviceTables, EventTablesProofs, SequenceTheorems

\* The operations with an outbox row: what a push may send.
Tracked == {o \in DOMAIN ops : outbox[o] # "untracked"}

\* A device whose profile is not in recovery has a sync state, and only a device
\* with a profile bootstraps.
ProfilesOK ==
  \A d \in Devices :
    /\ db[d].epoch # NoEpoch /\ db[d].recovery = "none" => db[d].stateEpoch # NoEpoch
    /\ db[d].recovery = "bootstrap" => db[d].epoch # NoEpoch

\* Tracked operations are complete, and a device never numbers two alike.
OpsOK ==
  /\ \A o \in DOMAIN ops : ops[o].opId = o
  /\ \A o \in Tracked : ops[o] \in Operation /\ ops[o].deviceSequence < db[ops[o].deviceId].sequence
  /\ \A o, q \in Tracked :
       ops[o].deviceId = ops[q].deviceId /\ ops[o].deviceSequence = ops[q].deviceSequence => o = q

DevicesOK == DeviceTypeOK /\ ProfilesOK /\ OpsOK

\* Rows and decisions name conflicts the server has, or none.
IdsUpTo(n) == \A d \in Devices : \A r \in db[d].rows \cup db[d].resolutions : r.id \in 0 .. n

LEMMA InitDevices == DeviceInit => DevicesOK /\ IdsUpTo(0)
<1> SUFFICES ASSUME DeviceInit PROVE DevicesOK /\ IdsUpTo(0)
  OBVIOUS
<1>1. Fresh \in Database
  <2>1. [a \in Aggregates |-> 0] \in [Aggregates -> Nat]
    OBVIOUS
  <2> QED BY <2>1 DEF Fresh, Database
<1>2. ops = <<>> /\ outbox = <<>> /\ db = [d \in Devices |-> Fresh]
  BY DEF DeviceInit
<1>3. DeviceTypeOK
  BY <1>1, <1>2 DEF DeviceTypeOK
<1>4. ProfilesOK /\ IdsUpTo(0)
  BY <1>2 DEF ProfilesOK, IdsUpTo, Fresh
<1>5. OpsOK
  BY <1>2 DEF OpsOK, Tracked
<1> QED BY <1>3, <1>4, <1>5 DEF DevicesOK

LEMMA OpsFact ==
  ASSUME DevicesOK
  PROVE  /\ Len(ops) \in Nat /\ DOMAIN ops = 1 .. Len(ops) /\ DOMAIN ops \subseteq OpIds
         /\ \A o \in DOMAIN ops : ops[o] \in Issued /\ ops[o].opId = o
         /\ outbox \in Seq(Statuses) /\ Len(outbox) = Len(ops) /\ DOMAIN outbox = DOMAIN ops
         /\ db \in [Devices -> Database]
<1>1. ops \in Seq(Issued) /\ outbox \in [DOMAIN ops -> Statuses] /\ db \in [Devices -> Database]
  BY DEF DevicesOK, DeviceTypeOK
<1>2. Len(ops) \in Nat /\ DOMAIN ops = 1 .. Len(ops) /\ \A o \in DOMAIN ops : ops[o] \in Issued
  BY <1>1
<1>3. \A o \in DOMAIN ops : ops[o].opId = o /\ ops[o].opId \in OpIds
  BY <1>2 DEF DevicesOK, OpsOK, Issued
<1>4. outbox \in Seq(Statuses) /\ Len(outbox) = Len(ops)
  BY <1>1, <1>2
<1> QED BY <1>1, <1>2, <1>3, <1>4

-----------------------------------------------------------------------------
(* Writes that issue no operation *)

\* The outbox has the rows it had.
BoxKept ==
  /\ outbox' \in [DOMAIN ops -> Statuses]
  /\ \A o \in DOMAIN ops : outbox'[o] = "untracked" <=> outbox[o] = "untracked"

\* What a device knows of the log: the epoch, the cursor and the checkpoint.
SyncState(d) == <<db[d].stateEpoch, db[d].cursor, db[d].checkpoint>>

\* What most writes leave as it is, on every device.
StatesKept == \A c \in Devices : SyncState(c)' = SyncState(c)

OthersKept(d) == \A c \in Devices \ {d} : SyncState(c)' = SyncState(c)

\* A device that has a profile or a sync state has one ever after.
JoinedKept ==
  \A c \in Devices : /\ db[c].epoch # NoEpoch => db'[c].epoch # NoEpoch
                     /\ db[c].stateEpoch # NoEpoch => db'[c].stateEpoch # NoEpoch

\* A row of the devices' tables that keeps its type, its profile and its ids.
RowOK(d, row, n) ==
  /\ row \in Database /\ row.sequence = db[d].sequence
  /\ row.epoch # NoEpoch /\ row.recovery = "none" => row.stateEpoch # NoEpoch
  /\ row.recovery = "bootstrap" => row.epoch # NoEpoch
  /\ db[d].epoch # NoEpoch => row.epoch # NoEpoch
  /\ db[d].stateEpoch # NoEpoch => row.stateEpoch # NoEpoch
  /\ \A r \in row.rows \cup row.resolutions : r.id \in 0 .. n

\* What every such write does: the tables stay sound, and no operation is
\* issued or dropped.
WriteFine(n) == DevicesOK' /\ Tracked' = Tracked /\ IdsUpTo(n)' /\ JoinedKept

LEMMA WriteKeeps ==
  ASSUME DevicesOK, UNCHANGED ops, BoxKept, NEW n, IdsUpTo(n), NEW d \in Devices, NEW row,
         RowOK(d, row, n), db' = [db EXCEPT ![d] = row]
  PROVE  WriteFine(n)
<1>1. DeviceTypeOK'
  BY DEF DevicesOK, DeviceTypeOK, BoxKept, RowOK
<1>2. ProfilesOK'
  BY DEF DevicesOK, ProfilesOK, RowOK, DeviceTypeOK
<1>3. \A c \in Devices : db'[c].sequence = db[c].sequence
  BY DEF DevicesOK, RowOK, DeviceTypeOK
<1>4. Tracked' = Tracked
  BY DEF Tracked, BoxKept
<1>5. \A o \in Tracked : ops[o].deviceId \in Devices
  BY DEF DevicesOK, OpsOK, Operation
<1>6. OpsOK'
  BY <1>3, <1>4, <1>5 DEF DevicesOK, OpsOK
<1>7. IdsUpTo(n)'
  BY DEF DevicesOK, DeviceTypeOK, RowOK, IdsUpTo
<1>8. JoinedKept
  BY DEF DevicesOK, DeviceTypeOK, RowOK, JoinedKept
<1> QED BY <1>1, <1>2, <1>4, <1>6, <1>7, <1>8 DEF DevicesOK, WriteFine

LEMMA BoxWriteKeeps ==
  ASSUME DevicesOK, UNCHANGED <<ops, db>>, BoxKept, NEW n, IdsUpTo(n)
  PROVE  WriteFine(n)
<1>1. Tracked' = Tracked
  BY DEF Tracked, BoxKept
<1> QED BY <1>1 DEF DevicesOK, DeviceTypeOK, BoxKept, ProfilesOK, OpsOK, IdsUpTo, WriteFine, JoinedKept

\* A new outbox with the rows of the old one.
Rewritten(box) ==
  /\ box \in [DOMAIN ops -> Statuses]
  /\ \A o \in DOMAIN ops : box[o] = "untracked" <=> outbox[o] = "untracked"

LEMMA QuarantineFact ==
  ASSUME DevicesOK, NEW d, NEW box, Rewritten(box)
  PROVE  Rewritten(Quarantine(box, d))
BY DEF Rewritten, Quarantine, Statuses, DevicesOK, DeviceTypeOK

LEMMA GiveUpFact ==
  ASSUME DevicesOK, NEW d, NEW o PROVE Rewritten(GiveUp(outbox, d, o))
BY DEF Rewritten, GiveUp, Statuses, DevicesOK, DeviceTypeOK, Own

LEMMA OutboxFact ==
  ASSUME DevicesOK
  PROVE  /\ Rewritten(outbox) /\ DOMAIN outbox = DOMAIN ops
         /\ \A box : Rewritten(box) /\ outbox' = box => BoxKept
BY DEF Rewritten, BoxKept, DevicesOK, DeviceTypeOK

LEMMA SetAsideFact ==
  ASSUME DevicesOK, NEW n, IdsUpTo(n), NEW d \in Devices, SetAside(d)
  PROVE  WriteFine(n) /\ StatesKept
<1>1. BoxKept
  BY OutboxFact, QuarantineFact DEF SetAside
<1> QED BY <1>1, BoxWriteKeeps DEF SetAside, StatesKept, SyncState

\* The write of a row that leaves what the device knows of the log.
LEMMA RowWriteKeeps ==
  ASSUME DevicesOK, UNCHANGED ops, BoxKept, NEW n, IdsUpTo(n), NEW d \in Devices, NEW row,
         RowOK(d, row, n), db' = [db EXCEPT ![d] = row], row.stateEpoch = db[d].stateEpoch,
         row.cursor = db[d].cursor, row.checkpoint = db[d].checkpoint
  PROVE  WriteFine(n) /\ StatesKept
<1>1. db \in [Devices -> Database]
  BY DEF DevicesOK, DeviceTypeOK
<1>2. StatesKept
  BY <1>1 DEF StatesKept, SyncState
<1> QED BY <1>2, WriteKeeps

LEMMA StopSyncFact ==
  ASSUME DevicesOK, NEW n, IdsUpTo(n), NEW d \in Devices, StopSync(d)
  PROVE  WriteFine(n) /\ StatesKept
<1>1. db \in [Devices -> Database] /\ UNCHANGED <<ops, outbox>> /\ BoxKept
  BY OutboxFact DEF DevicesOK, DeviceTypeOK, StopSync
<1> DEFINE row == [db[d] EXCEPT !.recovery = "required"]
<1>2. db' = [db EXCEPT ![d] = row]
  BY <1>1 DEF StopSync
<1>3. /\ row \in Database /\ row.sequence = db[d].sequence /\ row.recovery = "required"
      /\ row.rows = db[d].rows /\ row.resolutions = db[d].resolutions /\ row.epoch = db[d].epoch
      /\ row.stateEpoch = db[d].stateEpoch /\ row.cursor = db[d].cursor
      /\ row.checkpoint = db[d].checkpoint
  BY <1>1 DEF Database
<1> HIDE DEF row
<1>4. RowOK(d, row, n)
  BY <1>3 DEF RowOK, IdsUpTo
<1> QED BY <1>1, <1>2, <1>3, <1>4, RowWriteKeeps

LEMMA EmptyBooksFact ==
  ASSUME DevicesOK, NEW n, IdsUpTo(n), NEW d \in Devices, EmptyBooks(d)
  PROVE  WriteFine(n) /\ StatesKept
<1>1. db \in [Devices -> Database] /\ UNCHANGED <<ops, outbox>> /\ BoxKept
  BY OutboxFact DEF DevicesOK, DeviceTypeOK, EmptyBooks
<1> DEFINE row == [db[d] EXCEPT !.projection = {}]
<1>2. db' = [db EXCEPT ![d] = row]
  BY <1>1 DEF EmptyBooks
<1>3. /\ row \in Database /\ row.sequence = db[d].sequence /\ row.recovery = db[d].recovery
      /\ row.rows = db[d].rows /\ row.resolutions = db[d].resolutions /\ row.epoch = db[d].epoch
      /\ row.stateEpoch = db[d].stateEpoch /\ row.cursor = db[d].cursor
      /\ row.checkpoint = db[d].checkpoint
  BY <1>1 DEF Database
<1> HIDE DEF row
<1>4. RowOK(d, row, n)
  BY <1>3 DEF RowOK, IdsUpTo, DevicesOK, ProfilesOK
<1> QED BY <1>1, <1>2, <1>3, <1>4, RowWriteKeeps

\* The row of a device that has recorded a decision.
LEMMA DecidedFact ==
  ASSUME DevicesOK, NEW n, IdsUpTo(n), NEW d \in Devices, NEW row \in db[d].rows,
         NEW id \in OpIds \cup {NoOp}
  PROVE  RowOK(d, Decided(d, row, id), n)
<1>1. db[d] \in Database /\ row \in LocalConflict /\ db[d].rows \subseteq LocalConflict
  BY DEF DevicesOK, DeviceTypeOK, Database
<1> DEFINE closed == [row EXCEPT !.status = "resolved"]
           decision == [id |-> row.id, resolutionOpId |-> id, status |-> "pending"]
           rows == (db[d].rows \ {row}) \cup {closed}
           resolutions == db[d].resolutions \cup {decision}
<1>2. closed \in LocalConflict /\ closed.id = row.id
  BY <1>1 DEF LocalConflict
<1>3. decision \in Resolution /\ decision.id = row.id
  BY <1>1 DEF LocalConflict, Resolution
<1>4. \A r \in db[d].rows \cup db[d].resolutions : r.id \in 0 .. n
  BY DEF IdsUpTo
<1> HIDE DEF closed, decision
<1>5. rows \in SUBSET LocalConflict /\ resolutions \in SUBSET Resolution
  BY <1>1, <1>2, <1>3 DEF Database
<1>6. \A r \in rows \cup resolutions : r.id \in 0 .. n
  BY <1>2, <1>3, <1>4
<1>7. Decided(d, row, id) = [db[d] EXCEPT !.recovery = "required", !.rows = rows, !.resolutions = resolutions]
  BY <1>1 DEF Decided, Database, closed, decision
<1> HIDE DEF rows, resolutions
<1>8. /\ Decided(d, row, id) \in Database /\ Decided(d, row, id).sequence = db[d].sequence
      /\ Decided(d, row, id).epoch = db[d].epoch /\ Decided(d, row, id).stateEpoch = db[d].stateEpoch
      /\ Decided(d, row, id).recovery = "required"
      /\ Decided(d, row, id).rows = rows /\ Decided(d, row, id).resolutions = resolutions
  BY <1>1, <1>5, <1>7 DEF Database
<1> QED BY <1>6, <1>8 DEF RowOK, DevicesOK, ProfilesOK

LEMMA DecideKeepFact ==
  ASSUME DevicesOK, NEW n, IdsUpTo(n), NEW d \in Devices, NEW row \in db[d].rows, DecideKeep(d, row)
  PROVE  WriteFine(n) /\ StatesKept
<1>1. BoxKept
  BY OutboxFact, GiveUpFact, QuarantineFact DEF DecideKeep
<1>2. db \in [Devices -> Database] /\ UNCHANGED ops /\ db' = [db EXCEPT ![d] = Decided(d, row, NoOp)]
  BY DEF DevicesOK, DeviceTypeOK, DecideKeep
<1>3. RowOK(d, Decided(d, row, NoOp), n)
  BY DecidedFact
<1>4. StatesKept
  BY <1>2 DEF StatesKept, SyncState, Database, Decided
<1> QED BY <1>1, <1>2, <1>3, <1>4, WriteKeeps

\* What a device learns of an aggregate from events of the log is a number.
LEMMA RevisionsFact ==
  ASSUME TablesOK, NEW E \in SUBSET events, NEW revision \in [Aggregates -> Nat]
  PROVE  RevisionsWith(revision, E) \in [Aggregates -> Nat]
<1>1. ASSUME NEW a \in Aggregates PROVE MaxRevision({x \in E : x.op.aggregateId = a}) \in Nat
  BY CurrentRevisionFact DEF TablesOK
<1> QED BY <1>1 DEF RevisionsWith, Larger

LEMMA EventIds ==
  ASSUME TablesOK, NEW E \in SUBSET events PROVE {x.op.opId : x \in E} \subseteq OpIds
BY DEF TablesOK, StoreTypeOK, Event, Operation

LEMMA ApplyPageFact ==
  ASSUME TablesOK, DevicesOK, NEW n, IdsUpTo(n), NEW d \in Devices, NEW e \in Epochs, NEW page,
         page.events \subseteq events, page.cursor \in Nat, page.checkpointHash \in SUBSET Event,
         ApplyPage(d, e, page)
  PROVE  /\ WriteFine(n)
         /\ SyncState(d)' = <<e, page.cursor, page.checkpointHash>>
         /\ OthersKept(d)
<1>1. BoxKept
  BY OutboxFact DEF ApplyPage
<1>2. db \in [Devices -> Database] /\ UNCHANGED ops
  BY DEF DevicesOK, DeviceTypeOK, ApplyPage
<1> DEFINE new == {x.op.opId : x \in Unapplied(d, page)}
           learnt == RevisionsWith(db[d].revision, Unapplied(d, page))
           edited(x, projection, applied, revision, cursor, hash) ==
             [x EXCEPT !.projection = projection, !.applied = applied, !.revision = revision,
                       !.stateEpoch = e, !.cursor = cursor, !.checkpoint = hash]
           row == edited(db[d], db[d].projection \cup Replayed(d, page), db[d].applied \cup new,
                         learnt, page.cursor, page.checkpointHash)
<1>3. db' = [db EXCEPT ![d] = row]
  BY <1>2 DEF ApplyPage
<1>4. Unapplied(d, page) \in SUBSET events /\ new \subseteq OpIds /\ Replayed(d, page) \subseteq OpIds
  BY EventIds DEF Unapplied, Replayed
<1>5. learnt \in [Aggregates -> Nat]
  BY <1>2, <1>4, RevisionsFact DEF Database
<1>6. RowOK(d, row, n)
  <2> HIDE DEF new, learnt
  <2>1. row \in Database
    <3>1. ASSUME NEW x \in Database, NEW projection \in SUBSET OpIds, NEW applied \in SUBSET OpIds,
                 NEW revision \in [Aggregates -> Nat], NEW cursor \in Nat, NEW hash \in SUBSET Event
          PROVE  edited(x, projection, applied, revision, cursor, hash) \in Database
      BY DEF Database
    <3>2. /\ db[d] \in Database /\ db[d].projection \cup Replayed(d, page) \in SUBSET OpIds
          /\ db[d].applied \cup new \in SUBSET OpIds
      BY <1>2, <1>4 DEF Database
    <3> HIDE DEF edited
    <3> QED BY <1>5, <3>1, <3>2
  <2>2. /\ row.sequence = db[d].sequence /\ row.epoch = db[d].epoch /\ row.recovery = db[d].recovery
        /\ row.stateEpoch = e /\ row.rows = db[d].rows /\ row.resolutions = db[d].resolutions
    BY <1>2 DEF Database
  <2> HIDE DEF row
  <2> QED BY <2>1, <2>2, NullAssumption DEF RowOK, DevicesOK, ProfilesOK, IdsUpTo
<1>7. /\ SyncState(d)' = <<e, page.cursor, page.checkpointHash>>
      /\ OthersKept(d)
  <2> HIDE DEF new, learnt
  <2> QED BY <1>2, <1>3 DEF OthersKept, SyncState, Database
<1> HIDE DEF row
<1> QED BY <1>1, <1>2, <1>3, <1>6, <1>7, WriteKeeps

\* A device with one more conflict row.
LEMMA RowAddedFact ==
  ASSUME DevicesOK, NEW n, IdsUpTo(n), NEW d \in Devices,
         NEW row \in LocalConflict, row.id \in 0 .. n
  PROVE  RowOK(d, [db[d] EXCEPT !.rows = @ \cup {row}], n)
<1>1. db[d] \in Database
  BY DEF DevicesOK, DeviceTypeOK
<1> DEFINE new == [db[d] EXCEPT !.rows = @ \cup {row}]
<1>2. new \in Database
  BY <1>1 DEF Database
<1>3. /\ new.sequence = db[d].sequence /\ new.epoch = db[d].epoch /\ new.recovery = db[d].recovery
      /\ new.stateEpoch = db[d].stateEpoch /\ new.rows = db[d].rows \cup {row}
      /\ new.resolutions = db[d].resolutions
  BY <1>1 DEF Database
<1> HIDE DEF new
<1>4. RowOK(d, new, n)
  BY <1>2, <1>3 DEF RowOK, DevicesOK, ProfilesOK, IdsUpTo
<1> QED BY <1>4 DEF new

\* A device writes a conflict row, or finds the operation has one.
LEMMA RowWritten ==
  ASSUME DevicesOK, NEW n, IdsUpTo(n), NEW d \in Devices, NEW row \in LocalConflict, row.id \in 0 .. n,
         UNCHANGED ops, BoxKept,
         \/ db' = db
         \/ db' = [db EXCEPT ![d].rows = @ \cup {row}]
  PROVE  WriteFine(n) /\ StatesKept
<1>1. db \in [Devices -> Database]
  BY DEF DevicesOK, DeviceTypeOK
<1>2. CASE db' = db
  <2>1. db' = [db EXCEPT ![d] = db[d]]
    BY <1>1, <1>2
  <2>2. RowOK(d, db[d], n)
    BY <1>1 DEF RowOK, DevicesOK, ProfilesOK, IdsUpTo
  <2> QED BY <1>2, <2>1, <2>2, WriteKeeps DEF StatesKept, SyncState
<1>3. CASE db' = [db EXCEPT ![d].rows = @ \cup {row}]
  <2> DEFINE new == [db[d] EXCEPT !.rows = @ \cup {row}]
  <2>1. db' = [db EXCEPT ![d] = new]
    BY <1>1, <1>3
  <2>2. RowOK(d, new, n)
    BY RowAddedFact
  <2>3. StatesKept
    BY <1>1, <2>1 DEF StatesKept, SyncState, Database
  <2> HIDE DEF new
  <2> QED BY <2>1, <2>2, <2>3, WriteKeeps
<1> QED BY <1>2, <1>3

LEMMA BlockPageFact ==
  ASSUME TablesOK, DevicesOK, NEW n \in Nat, IdsUpTo(n), NEW d \in Devices, NEW page,
         page.events \subseteq events, BlockPage(d, page)
  PROVE  WriteFine(n) /\ StatesKept
<1>1. PICK x \in page.events, row \in LocalConflict :
        /\ row.id = 0 /\ UNCHANGED <<ops, outbox>>
        /\ db' = db \/ db' = [db EXCEPT ![d].rows = @ \cup {row}]
  <2>1. PICK x \in page.events :
          /\ UNCHANGED <<ops, outbox>>
          /\ db' = [db EXCEPT ![d].rows =
                      IF OpenRowsFor(d, x.op.opId) # {} THEN @
                      ELSE @ \cup {[id |-> 0, op |-> x.op.opId, canonicalOpId |-> x.op.opId,
                                    canonicalRevision |-> x.aggregateRevision, status |-> "open"]}]
    BY DEF BlockPage
  <2> DEFINE row == [id |-> 0, op |-> x.op.opId, canonicalOpId |-> x.op.opId,
                     canonicalRevision |-> x.aggregateRevision, status |-> "open"]
  <2>2. x \in Event /\ x.op.opId \in OpIds /\ x.aggregateRevision \in Nat
    BY DEF TablesOK, StoreTypeOK, Event, Operation
  <2>3. row \in LocalConflict /\ row.id = 0
    BY <2>2 DEF LocalConflict
  <2>4. db \in [Devices -> Database]
    BY DEF DevicesOK, DeviceTypeOK
  <2>5. db' = db \/ db' = [db EXCEPT ![d].rows = @ \cup {row}]
    BY <2>1, <2>4 DEF Database
  <2> HIDE DEF row
  <2> QED BY <2>1, <2>3, <2>5
<1>2. BoxKept /\ row.id \in 0 .. n
  BY <1>1, OutboxFact
<1> QED BY <1>1, <1>2, RowWritten

LEMMA SettleAcceptedFact ==
  ASSUME DevicesOK, NEW n, IdsUpTo(n), NEW o \in Tracked, SettleAccepted(o)
  PROVE  WriteFine(n) /\ StatesKept
<1>1. outbox \in [DOMAIN ops -> Statuses] /\ outbox' = [outbox EXCEPT ![o] = "accepted"]
  BY DEF DevicesOK, DeviceTypeOK, SettleAccepted
<1>2. BoxKept
  BY <1>1 DEF BoxKept, Statuses, Tracked
<1> QED BY <1>2, BoxWriteKeeps DEF SettleAccepted, StatesKept, SyncState

LEMMA BumpRevisionFact ==
  ASSUME DevicesOK, NEW n, IdsUpTo(n), NEW d \in Devices, NEW o \in Tracked, BumpRevision(d, o)
  PROVE  WriteFine(n) /\ StatesKept
<1>1. ops[o] \in Issued
  BY OpsFact DEF Tracked
<1>2. db \in [Devices -> Database] /\ UNCHANGED <<ops, outbox>> /\ BoxKept
  BY OutboxFact DEF DevicesOK, DeviceTypeOK, BumpRevision
<1> DEFINE a == ops[o].aggregateId
           v == [db[d].revision EXCEPT ![a] = Larger(@, ops[o].baseRevision + 1)]
           row == [db[d] EXCEPT !.revision = v]
<1>3. v \in [Aggregates -> Nat]
  BY <1>1, <1>2 DEF Issued, Larger, Database
<1>4. db' = [db EXCEPT ![d] = row]
  BY <1>2 DEF BumpRevision, Database
<1> HIDE DEF v
<1>5. /\ row \in Database /\ row.sequence = db[d].sequence /\ row.recovery = db[d].recovery
      /\ row.rows = db[d].rows /\ row.resolutions = db[d].resolutions /\ row.epoch = db[d].epoch
      /\ row.stateEpoch = db[d].stateEpoch /\ row.cursor = db[d].cursor
      /\ row.checkpoint = db[d].checkpoint
  BY <1>2, <1>3 DEF Database
<1> HIDE DEF row
<1>6. RowOK(d, row, n)
  BY <1>5 DEF RowOK, IdsUpTo, DevicesOK, ProfilesOK
<1> QED BY <1>2, <1>4, <1>5, <1>6, RowWriteKeeps

LEMMA RecordRowFact ==
  ASSUME DevicesOK, NEW n, IdsUpTo(n), NEW d \in Devices, NEW o \in Tracked,
         NEW id \in 0 .. n, n \in Nat, RecordRow(d, o, id)
  PROVE  WriteFine(n) /\ StatesKept
<1>1. o \in OpIds
  BY OpsFact DEF Tracked
<1> DEFINE row == [id |-> id, op |-> o, canonicalOpId |-> NoOp,
                   canonicalRevision |-> NoRevision, status |-> "open"]
<1>2. row \in LocalConflict /\ row.id \in 0 .. n
  BY <1>1 DEF LocalConflict
<1>3. db \in [Devices -> Database] /\ UNCHANGED <<ops, outbox>> /\ BoxKept
  BY OutboxFact DEF DevicesOK, DeviceTypeOK, RecordRow
<1>4. db' = db \/ db' = [db EXCEPT ![d].rows = @ \cup {row}]
  BY <1>3 DEF RecordRow, Database
<1> HIDE DEF row
<1> QED BY <1>2, <1>3, <1>4, RowWritten

\* Statuses a failed operation can be left in.
LEMMA SettleFailedFact ==
  ASSUME DevicesOK, NEW n, IdsUpTo(n), NEW O, O \subseteq Tracked,
         NEW status \in Statuses \ {"untracked"}, SettleFailed(O, status)
  PROVE  WriteFine(n) /\ StatesKept
<1>1. BoxKept
  <2>1. /\ outbox \in [DOMAIN ops -> Statuses] /\ DOMAIN outbox = DOMAIN ops
        /\ outbox' = [o \in DOMAIN outbox |-> IF o \in O THEN status ELSE outbox[o]]
    BY DEF DevicesOK, DeviceTypeOK, SettleFailed
  <2> QED BY <2>1 DEF BoxKept, Tracked
<1> QED BY <1>1, BoxWriteKeeps DEF SettleFailed, StatesKept, SyncState

\* Other rows for the conflicts of a device.
LEMMA RowsReplaced ==
  ASSUME DevicesOK, NEW n, IdsUpTo(n), NEW d \in Devices, UNCHANGED ops, BoxKept,
         NEW rows \in SUBSET LocalConflict, NEW resolutions \in SUBSET Resolution,
         \A r \in rows \cup resolutions : r.id \in 0 .. n,
         db' = [db EXCEPT ![d] = [db[d] EXCEPT !.rows = rows, !.resolutions = resolutions]]
  PROVE  WriteFine(n) /\ StatesKept
<1>1. db \in [Devices -> Database]
  BY DEF DevicesOK, DeviceTypeOK
<1> DEFINE row == [db[d] EXCEPT !.rows = rows, !.resolutions = resolutions]
<1>2. /\ row \in Database /\ row.sequence = db[d].sequence /\ row.epoch = db[d].epoch
      /\ row.stateEpoch = db[d].stateEpoch /\ row.recovery = db[d].recovery
      /\ row.rows = rows /\ row.resolutions = resolutions
  <2>1. ASSUME NEW x \in Database
        PROVE  LET y == [x EXCEPT !.rows = rows, !.resolutions = resolutions]
               IN /\ y \in Database /\ y.sequence = x.sequence /\ y.epoch = x.epoch
                  /\ y.stateEpoch = x.stateEpoch /\ y.recovery = x.recovery
                  /\ y.rows = rows /\ y.resolutions = resolutions
    BY DEF Database
  <2> QED BY <1>1, <2>1
<1>3. RowOK(d, row, n)
  <2> HIDE DEF row
  <2> QED BY <1>2 DEF RowOK, DevicesOK, ProfilesOK
<1>4. StatesKept
  BY <1>1 DEF StatesKept, SyncState, Database
<1>5. db' = [db EXCEPT ![d] = row]
  OBVIOUS
<1> HIDE DEF row
<1> QED BY <1>3, <1>4, <1>5, WriteKeeps

LEMMA RefreshFact ==
  ASSUME TablesOK, DevicesOK, NEW n \in Nat, IdsUpTo(n), Len(conflicts) <= n, NEW d \in Devices, RefreshRows(d)
  PROVE  WriteFine(n) /\ StatesKept
<1>1. db \in [Devices -> Database] /\ UNCHANGED <<ops, outbox>>
  BY DEF DevicesOK, DeviceTypeOK, RefreshRows
<1> DEFINE open == {i \in DOMAIN conflicts : conflicts[i].status = "open"}
           known(i) == {r \in db[d].rows : r.id = i}
           status(i) == IF known(i) = {} THEN "open" ELSE (CHOOSE r \in known(i) : TRUE).status
           row(i) == [id |-> i, op |-> conflicts[i].op.opId, canonicalOpId |-> conflicts[i].canonicalOpId,
                      canonicalRevision |-> CanonicalRevision(conflicts[i]), status |-> status(i)]
           rows == {r \in db[d].rows : r.id \notin open} \cup {row(i) : i \in open}
<1>2. \A r \in db[d].rows : r \in LocalConflict
  BY <1>1 DEF Database
<1>3. \A i \in open : status(i) \in {"open", "resolved", "ignored"}
  BY <1>2 DEF LocalConflict
<1>4. \A i \in open : CanonicalRevision(conflicts[i]) \in Nat \cup {NoRevision}
  <2>1. \A x \in events : x.aggregateRevision \in Nat
    BY DEF TablesOK, StoreTypeOK, Event
  <2> QED BY <2>1 DEF CanonicalRevision
<1>5. \A i \in open : /\ i \in 0 .. n /\ i \in Nat /\ conflicts[i].op.opId \in OpIds
                      /\ conflicts[i].canonicalOpId \in OpIds \cup {NoOp}
  <2>1. conflicts \in Seq(Conflict)
    BY DEF TablesOK, StoreTypeOK
  <2>2. \A i \in open : i \in 1 .. Len(conflicts) /\ conflicts[i] \in Conflict
    BY <2>1
  <2>3. Len(conflicts) \in Nat
    BY <2>1
  <2> HIDE DEF open
  <2> QED BY <2>2, <2>3 DEF Conflict, Operation
<1>6. \A i \in open : row(i) \in LocalConflict /\ row(i).id = i
  <2> HIDE DEF status
  <2> QED BY <1>3, <1>4, <1>5 DEF LocalConflict
<1>7. db' = [db EXCEPT ![d].rows = rows]
  BY <1>1 DEF RefreshRows
<1> HIDE DEF row, open
<1>8. rows \in SUBSET LocalConflict /\ \A r \in rows \cup db[d].resolutions : r.id \in 0 .. n
  BY <1>2, <1>5, <1>6 DEF IdsUpTo
<1> HIDE DEF rows
<1>9. db' = [db EXCEPT ![d] = [db[d] EXCEPT !.rows = rows, !.resolutions = db[d].resolutions]]
  BY <1>1, <1>7 DEF Database
<1>10. BoxKept /\ db[d].resolutions \in SUBSET Resolution
  BY <1>1, OutboxFact DEF Database
<1> QED BY <1>1, <1>8, <1>9, <1>10, RowsReplaced

LEMMA MarkSentFact ==
  ASSUME DevicesOK, NEW n, IdsUpTo(n), NEW d \in Devices,
         NEW r \in Resolution, r.id \in 0 .. n, MarkSent(d, r)
  PROVE  WriteFine(n) /\ StatesKept
<1>1. db \in [Devices -> Database] /\ UNCHANGED <<ops, outbox>>
  BY DEF DevicesOK, DeviceTypeOK, MarkSent
<1> DEFINE sent == [r EXCEPT !.status = "sent"]
           resolutions == (db[d].resolutions \ {r}) \cup {sent}
<1>2. sent \in Resolution /\ sent.id = r.id
  BY DEF Resolution
<1> HIDE DEF sent
<1>3. resolutions \in SUBSET Resolution
  BY <1>1, <1>2 DEF Database
<1>4. \A q \in db[d].rows \cup resolutions : q.id \in 0 .. n
  BY <1>2 DEF IdsUpTo
<1>5. db' = [db EXCEPT ![d].resolutions = resolutions]
  BY <1>1 DEF MarkSent, sent
<1> HIDE DEF resolutions
<1>6. db' = [db EXCEPT ![d] = [db[d] EXCEPT !.rows = db[d].rows, !.resolutions = resolutions]]
  BY <1>1, <1>5 DEF Database
<1>7. BoxKept /\ db[d].rows \in SUBSET LocalConflict
  BY <1>1, OutboxFact DEF Database
<1> QED BY <1>1, <1>3, <1>4, <1>6, <1>7, RowsReplaced

-----------------------------------------------------------------------------
(* Writes that move a device to an epoch *)

LEMMA WriteProfileFact ==
  ASSUME DevicesOK, NEW n, IdsUpTo(n), NEW d \in Devices, NEW recovering \in BOOLEAN, NEW answer,
         answer.epoch \in Epochs, WriteProfile(d, recovering, answer)
  PROVE  WriteFine(n) /\ StatesKept
<1>1. db \in [Devices -> Database] /\ UNCHANGED <<ops, outbox>> /\ BoxKept
  BY OutboxFact DEF DevicesOK, DeviceTypeOK, WriteProfile
<1> DEFINE recovery == EnrolledRecovery(d, recovering, answer)
           row == [db[d] EXCEPT !.epoch = answer.epoch, !.recovery = recovery]
<1>2. /\ recovery \in {"none", "bootstrap", "required"}
      /\ recovery = "none" => db[d].stateEpoch # NoEpoch
  BY DEF EnrolledRecovery, NeedsSnapshot, Known
<1>3. db' = [db EXCEPT ![d] = row]
  BY <1>1 DEF WriteProfile
<1> HIDE DEF recovery
<1>4. /\ row \in Database /\ row.sequence = db[d].sequence /\ row.recovery = recovery
      /\ row.rows = db[d].rows /\ row.resolutions = db[d].resolutions /\ row.epoch = answer.epoch
      /\ row.stateEpoch = db[d].stateEpoch /\ row.cursor = db[d].cursor
      /\ row.checkpoint = db[d].checkpoint
  BY <1>1, <1>2 DEF Database
<1> HIDE DEF row
<1>5. RowOK(d, row, n)
  BY <1>2, <1>4, NullAssumption DEF RowOK, IdsUpTo
<1> QED BY <1>1, <1>3, <1>4, <1>5, RowWriteKeeps

LEMMA SetOldAsideFact ==
  ASSUME DevicesOK, NEW n, IdsUpTo(n), NEW d, NEW answer, SetOldAside(d, answer)
  PROVE  WriteFine(n) /\ StatesKept
<1>1. outbox \in [DOMAIN ops -> Statuses] /\ DOMAIN outbox = DOMAIN ops
  BY DEF DevicesOK, DeviceTypeOK
<1>2. BoxKept
  BY <1>1 DEF SetOldAside, BoxKept, Statuses
<1> QED BY <1>2, BoxWriteKeeps DEF SetOldAside, StatesKept, SyncState

LEMMA IgnoreRowsFact ==
  ASSUME DevicesOK, NEW n, IdsUpTo(n), NEW d \in Devices, IgnoreRows(d)
  PROVE  WriteFine(n) /\ StatesKept
<1>1. db \in [Devices -> Database] /\ UNCHANGED <<ops, outbox>> /\ BoxKept
  BY OutboxFact DEF DevicesOK, DeviceTypeOK, IgnoreRows
<1> DEFINE closed(r) == IF r.status = "open" THEN [r EXCEPT !.status = "ignored"] ELSE r
           rows == {closed(r) : r \in db[d].rows}
<1>2. \A r \in db[d].rows : r \in LocalConflict /\ r.id \in 0 .. n
  BY <1>1 DEF Database, IdsUpTo
<1>3. \A r \in db[d].rows : closed(r) \in LocalConflict /\ closed(r).id = r.id
  BY <1>2 DEF LocalConflict
<1>4. db' = [db EXCEPT ![d].rows = rows]
  BY <1>1 DEF IgnoreRows
<1> HIDE DEF closed
<1>5. rows \in SUBSET LocalConflict /\ \A r \in rows \cup db[d].resolutions : r.id \in 0 .. n
  BY <1>2, <1>3 DEF IdsUpTo
<1> HIDE DEF rows
<1>6. db' = [db EXCEPT ![d] = [db[d] EXCEPT !.rows = rows, !.resolutions = db[d].resolutions]]
  BY <1>1, <1>4 DEF Database
<1>7. db[d].resolutions \in SUBSET Resolution
  BY <1>1 DEF Database
<1> QED BY <1>1, <1>5, <1>6, <1>7, RowsReplaced

LEMMA RejectResolutionsFact ==
  ASSUME DevicesOK, NEW n, IdsUpTo(n), NEW d \in Devices, RejectResolutions(d)
  PROVE  WriteFine(n) /\ StatesKept
<1>1. db \in [Devices -> Database] /\ UNCHANGED <<ops, outbox>> /\ BoxKept
  BY OutboxFact DEF DevicesOK, DeviceTypeOK, RejectResolutions
<1> DEFINE dropped(r) == IF r.status = "pending" THEN [r EXCEPT !.status = "rejected"] ELSE r
           resolutions == {dropped(r) : r \in db[d].resolutions}
<1>2. \A r \in db[d].resolutions : r \in Resolution /\ r.id \in 0 .. n
  BY <1>1 DEF Database, IdsUpTo
<1>3. \A r \in db[d].resolutions : dropped(r) \in Resolution /\ dropped(r).id = r.id
  BY <1>2 DEF Resolution
<1>4. db' = [db EXCEPT ![d].resolutions = resolutions]
  BY <1>1 DEF RejectResolutions
<1> HIDE DEF dropped
<1>5. resolutions \in SUBSET Resolution /\ \A r \in db[d].rows \cup resolutions : r.id \in 0 .. n
  BY <1>2, <1>3 DEF IdsUpTo
<1> HIDE DEF resolutions
<1>6. db' = [db EXCEPT ![d] = [db[d] EXCEPT !.rows = db[d].rows, !.resolutions = resolutions]]
  BY <1>1, <1>4 DEF Database
<1>7. db[d].rows \in SUBSET LocalConflict
  BY <1>1 DEF Database
<1> QED BY <1>1, <1>5, <1>6, <1>7, RowsReplaced

\* The write of a book state: its epoch, its cursor and its checkpoint.
LEMMA StateWritten ==
  ASSUME DevicesOK, NEW n, IdsUpTo(n), NEW d \in Devices, NEW e \in Epochs, NEW cursor \in Nat,
         NEW hash \in (SUBSET Event) \cup {NoHash}, UNCHANGED <<ops, outbox>>,
         db' = [db EXCEPT ![d] = [@ EXCEPT !.stateEpoch = e, !.cursor = cursor, !.checkpoint = hash]]
  PROVE  WriteFine(n) /\ SyncState(d)' = <<e, cursor, hash>> /\ OthersKept(d)
<1>1. db \in [Devices -> Database] /\ BoxKept
  BY OutboxFact DEF DevicesOK, DeviceTypeOK
<1> DEFINE row == [db[d] EXCEPT !.stateEpoch = e, !.cursor = cursor, !.checkpoint = hash]
<1>2. db' = [db EXCEPT ![d] = row]
  BY <1>1
<1>3. /\ row \in Database /\ row.sequence = db[d].sequence /\ row.recovery = db[d].recovery
      /\ row.rows = db[d].rows /\ row.resolutions = db[d].resolutions /\ row.epoch = db[d].epoch
      /\ row.stateEpoch = e
  BY <1>1 DEF Database
<1>4. SyncState(d)' = <<e, cursor, hash>> /\ OthersKept(d)
  BY <1>1, <1>2 DEF OthersKept, SyncState, Database
<1> HIDE DEF row
<1>5. RowOK(d, row, n)
  BY <1>3, NullAssumption DEF RowOK, IdsUpTo, DevicesOK, ProfilesOK
<1> QED BY <1>1, <1>2, <1>4, <1>5, WriteKeeps

LEMMA WriteStateFact ==
  ASSUME DevicesOK, NEW n, IdsUpTo(n), NEW d \in Devices, NEW answer,
         answer.epoch \in Epochs, answer.start \in Nat \ {0}, WriteState(d, answer)
  PROVE  /\ WriteFine(n)
         /\ SyncState(d)' = <<answer.epoch, EnrolledCursor(d, answer), EnrolledCheckpoint(d, answer)>>
         /\ OthersKept(d)
<1>1. db \in [Devices -> Database]
  BY DEF DevicesOK, DeviceTypeOK
<1>2. EnrolledCursor(d, answer) \in Nat
  BY <1>1 DEF EnrolledCursor, Database
<1>3. EnrolledCheckpoint(d, answer) \in (SUBSET Event) \cup {NoHash}
  BY <1>1 DEF EnrolledCheckpoint, Database
<1> QED BY <1>2, <1>3, StateWritten DEF WriteState

LEMMA FinishBootstrapFact ==
  ASSUME DevicesOK, NEW n, IdsUpTo(n), NEW d \in Devices, Known(d), FinishBootstrap(d)
  PROVE  WriteFine(n) /\ StatesKept
<1>1. db \in [Devices -> Database] /\ UNCHANGED <<ops, outbox>>
  BY DEF DevicesOK, DeviceTypeOK, FinishBootstrap
<1> DEFINE row == [db[d] EXCEPT !.recovery = "none"]
<1>2. db' = [db EXCEPT ![d] = row]
  BY <1>1 DEF FinishBootstrap
<1>3. RowOK(d, row, n)
  <2>1. ASSUME NEW x \in Database
        PROVE  LET y == [x EXCEPT !.recovery = "none"]
               IN /\ y \in Database /\ y.sequence = x.sequence /\ y.epoch = x.epoch
                  /\ y.stateEpoch = x.stateEpoch /\ y.recovery = "none"
                  /\ y.rows = x.rows /\ y.resolutions = x.resolutions
    BY DEF Database
  <2>2. /\ row \in Database /\ row.sequence = db[d].sequence /\ row.epoch = db[d].epoch
        /\ row.stateEpoch = db[d].stateEpoch /\ row.recovery = "none"
        /\ row.rows = db[d].rows /\ row.resolutions = db[d].resolutions
    BY <1>1, <2>1
  <2> HIDE DEF row
  <2> QED BY <2>2 DEF RowOK, Known, IdsUpTo
<1>4. BoxKept /\ StatesKept
  BY <1>1, <1>2, OutboxFact DEF StatesKept, SyncState, Database
<1> HIDE DEF row
<1> QED BY <1>1, <1>2, <1>3, <1>4, WriteKeeps

LEMMA InstallFact ==
  ASSUME TablesOK, DevicesOK, NEW n, IdsUpTo(n), NEW d \in Devices, NEW snapshot \in Snapshot,
         NEW tail \in SUBSET events, NEW cursor \in Nat, NEW hash \in SUBSET Event,
         InstallSnapshot(d, snapshot, tail, cursor, hash)
  PROVE  /\ WriteFine(n)
         /\ SyncState(d)' = <<snapshot.bookEpoch, cursor, hash>>
         /\ OthersKept(d)
<1>1. db \in [Devices -> Database] /\ UNCHANGED ops
  BY DEF DevicesOK, DeviceTypeOK, InstallSnapshot
<1>2. BoxKept
  <2>1. outbox \in [DOMAIN ops -> Statuses] /\ DOMAIN outbox = DOMAIN ops
    BY DEF DevicesOK, DeviceTypeOK
  <2>2. \A o \in Preserved(d, snapshot.bookEpoch) : outbox[o] # "untracked"
    BY DEF Preserved, OfEpoch, InStatus, Own
  <2> QED BY <2>1, <2>2 DEF InstallSnapshot, BoxKept, Statuses
<1> DEFINE learnt == RevisionsWith(snapshot.aggregateRevisions, tail)
           projection == InstalledProjection(d, snapshot, tail)
           edited(x, e, revision, applied, effects) ==
             [x EXCEPT !.recovery = "none", !.stateEpoch = e, !.cursor = cursor, !.checkpoint = hash,
                       !.revision = revision, !.applied = applied, !.projection = effects]
           row == edited(db[d], snapshot.bookEpoch, learnt, CanonicalIds(tail), projection)
<1>3. learnt \in [Aggregates -> Nat]
  BY RevisionsFact DEF Snapshot
<1>4. CanonicalIds(tail) \in SUBSET OpIds
  BY EventIds DEF CanonicalIds
<1>5. projection \in SUBSET OpIds
  <2>1. snapshot.payload \subseteq OpIds
    BY ProjectionsAssumption DEF Snapshot
  <2>2. Preserved(d, snapshot.bookEpoch) \subseteq OpIds
    BY OpsFact DEF Preserved, OfEpoch, InStatus, Own
  <2> QED BY <1>4, <2>1, <2>2 DEF InstalledProjection
<1>6. db' = [db EXCEPT ![d] = row]
  BY <1>1 DEF InstallSnapshot
<1> HIDE DEF learnt, projection
<1>7. row \in Database /\ snapshot.bookEpoch \in Epochs
  <2>1. snapshot.bookEpoch \in Epochs
    BY DEF Snapshot
  <2>2. ASSUME NEW x \in Database, NEW e \in Epochs, NEW revision \in [Aggregates -> Nat],
               NEW applied \in SUBSET OpIds, NEW effects \in SUBSET OpIds
        PROVE  edited(x, e, revision, applied, effects) \in Database
    BY DEF Database
  <2> HIDE DEF edited
  <2> QED BY <1>1, <1>3, <1>4, <1>5, <2>1, <2>2
<1>8. RowOK(d, row, n)
  BY <1>1, <1>7, NullAssumption DEF RowOK, Database, IdsUpTo
<1>9. /\ SyncState(d)' = <<snapshot.bookEpoch, cursor, hash>>
      /\ OthersKept(d)
  BY <1>1, <1>6 DEF OthersKept, SyncState, Database
<1> HIDE DEF row
<1> QED BY <1>1, <1>2, <1>6, <1>8, <1>9, WriteKeeps

LEMMA RenameEpochFact ==
  ASSUME DevicesOK, NEW n, IdsUpTo(n), NEW d \in Devices, NEW e \in Epochs,
         db[d].epoch # NoEpoch, RenameEpoch(d, e)
  PROVE  WriteFine(n) /\ StatesKept
<1>1. db \in [Devices -> Database] /\ UNCHANGED <<ops, outbox>> /\ BoxKept
  BY OutboxFact DEF DevicesOK, DeviceTypeOK, RenameEpoch
<1> DEFINE row == [db[d] EXCEPT !.epoch = e]
<1>2. db' = [db EXCEPT ![d] = row]
  BY <1>1 DEF RenameEpoch
<1>3. /\ row \in Database /\ row.sequence = db[d].sequence /\ row.recovery = db[d].recovery
      /\ row.rows = db[d].rows /\ row.resolutions = db[d].resolutions /\ row.epoch = e
      /\ row.stateEpoch = db[d].stateEpoch /\ row.cursor = db[d].cursor
      /\ row.checkpoint = db[d].checkpoint
  BY <1>1 DEF Database
<1> HIDE DEF row
<1>4. RowOK(d, row, n)
  BY <1>3, NullAssumption DEF RowOK, IdsUpTo, DevicesOK, ProfilesOK
<1> QED BY <1>1, <1>2, <1>3, <1>4, RowWriteKeeps

LEMMA RestartStateFact ==
  ASSUME DevicesOK, NEW n, IdsUpTo(n), NEW d \in Devices, NEW e \in Epochs, NEW start \in Nat \ {0},
         RestartState(d, e, start)
  PROVE  WriteFine(n) /\ SyncState(d)' = <<e, start - 1, NoHash>> /\ OthersKept(d)
<1>1. start - 1 \in Nat /\ NoHash \in (SUBSET Event) \cup {NoHash}
  OBVIOUS
<1> QED BY <1>1, StateWritten DEF RestartState

-----------------------------------------------------------------------------
(* Writes that issue an operation *)

\* The operation d issues next, with the status of its outbox row.
IssuedBy(d, op, status) ==
  /\ op \in Issued /\ op.opId = Len(ops) + 1 /\ status \in Statuses
  /\ status # "untracked" => op \in Operation /\ op.deviceId = d /\ op.deviceSequence = db[d].sequence

\* The row of its device afterwards.
IssuingRow(d, row, n) ==
  /\ row \in Database /\ row.epoch = db[d].epoch /\ row.stateEpoch = db[d].stateEpoch
  /\ row.epoch # NoEpoch /\ row.recovery = "none" => row.stateEpoch # NoEpoch
  /\ row.recovery = "bootstrap" => row.epoch # NoEpoch
  /\ \A r \in row.rows \cup row.resolutions : r.id \in 0 .. n

LEMMA FunctionSeq ==
  ASSUME NEW S, NEW n \in Nat, NEW f \in [1 .. n -> S] PROVE f \in Seq(S) /\ Len(f) = n
OBVIOUS

LEMMA IssueKeeps ==
  ASSUME DevicesOK, NEW n, IdsUpTo(n), NEW d \in Devices, NEW op, NEW status, IssuedBy(d, op, status),
         NEW box, Rewritten(box), ops' = Append(ops, op), outbox' = Append(box, status),
         NEW row, IssuingRow(d, row, n), db' = [db EXCEPT ![d] = row],
         row.sequence = IF status = "untracked" THEN db[d].sequence ELSE db[d].sequence + 1
  PROVE  /\ DevicesOK' /\ IdsUpTo(n)' /\ JoinedKept /\ Tracked \subseteq Tracked'
         /\ \A o \in DOMAIN ops : o \in DOMAIN ops' /\ ops'[o] = ops[o]
<1> DEFINE k == Len(ops) + 1
<1>0. /\ ops \in Seq(Issued) /\ Len(ops) \in Nat /\ DOMAIN ops = 1 .. Len(ops)
      /\ box \in [1 .. Len(ops) -> Statuses] /\ db \in [Devices -> Database]
      /\ \A o \in DOMAIN ops : (outbox[o] = "untracked" <=> box[o] = "untracked") /\ ops[o] \in Issued
  BY OpsFact DEF Rewritten, DevicesOK, DeviceTypeOK
<1>1. box \in Seq(Statuses) /\ Len(box) = Len(ops)
  BY <1>0, FunctionSeq
<1>2. /\ ops' \in Seq(Issued) /\ DOMAIN ops' = 1 .. k /\ ops'[k] = op
      /\ \A o \in DOMAIN ops : ops'[o] = ops[o]
  BY <1>0 DEF IssuedBy
<1>3. /\ outbox' \in Seq(Statuses) /\ DOMAIN outbox' = 1 .. k /\ outbox'[k] = status
      /\ \A o \in DOMAIN ops : outbox'[o] = box[o]
  BY <1>0, <1>1 DEF IssuedBy
<1>4. outbox' \in [1 .. k -> Statuses]
  <2>1. outbox' \in [1 .. Len(outbox') -> Statuses] /\ DOMAIN outbox' = 1 .. Len(outbox')
    BY <1>3, LenProperties
  <2> HIDE DEF k
  <2> QED BY <1>3, <2>1
<1>5. k \in Nat /\ k \notin DOMAIN ops /\ 1 .. k = DOMAIN ops \cup {k}
  BY <1>0
<1> HIDE DEF k
<1>6. DeviceTypeOK'
  BY <1>0, <1>2, <1>4 DEF DeviceTypeOK, IssuingRow
<1>7. ProfilesOK' /\ IdsUpTo(n)' /\ JoinedKept
  BY <1>0 DEF DevicesOK, ProfilesOK, IdsUpTo, JoinedKept, IssuingRow
<1>8. Tracked' = Tracked \cup (IF status = "untracked" THEN {} ELSE {k})
  BY <1>0, <1>2, <1>3, <1>5 DEF Tracked
<1>9. \A c \in Devices : /\ db[c].sequence \in Nat /\ db'[c].sequence \in Nat
                         /\ db[c].sequence <= db'[c].sequence
                         /\ status # "untracked" => db[d].sequence < db'[d].sequence
  BY <1>0 DEF Database, IssuingRow
<1>10. OpsOK'
  <2>1. \A o \in DOMAIN ops' : ops'[o].opId = o
    BY <1>2, <1>5 DEF k, IssuedBy, DevicesOK, OpsOK
  <2>2. \A o \in Tracked : /\ ops'[o] = ops[o] /\ ops[o] \in Operation /\ o \in DOMAIN ops
                           /\ ops[o].deviceSequence < db[ops[o].deviceId].sequence
                           /\ ops[o].deviceId \in Devices /\ ops[o].deviceSequence \in Nat
    BY <1>2 DEF DevicesOK, OpsOK, Tracked, Operation
  <2>3. \A o \in Tracked : ops'[o].deviceSequence < db'[ops'[o].deviceId].sequence
    BY <2>2, <1>9
  <2>4. status # "untracked" => /\ ops'[k] \in Operation /\ ops'[k].deviceId = d
                                /\ ops'[k].deviceSequence = db[d].sequence
    BY <1>2 DEF IssuedBy
  <2>5. \A o \in Tracked' : ops'[o] \in Operation /\ ops'[o].deviceSequence < db'[ops'[o].deviceId].sequence
    BY <1>8, <1>9, <2>2, <2>3, <2>4
  <2>6. \A o, q \in Tracked' :
          ops'[o].deviceId = ops'[q].deviceId /\ ops'[o].deviceSequence = ops'[q].deviceSequence => o = q
    <3>1. \A o, q \in Tracked :
            ops'[o].deviceId = ops'[q].deviceId /\ ops'[o].deviceSequence = ops'[q].deviceSequence => o = q
      BY <2>2 DEF DevicesOK, OpsOK
    <3>2. ASSUME status # "untracked", NEW o \in Tracked, ops'[o].deviceId = d
          PROVE  ops'[o].deviceSequence # ops'[k].deviceSequence
      <4>1. ops[o].deviceSequence < db[d].sequence /\ ops'[o].deviceSequence = ops[o].deviceSequence
        BY <2>2, <3>2
      <4>2. ops[o].deviceSequence \in Nat /\ db[d].sequence \in Nat
        BY <2>2, <1>9
      <4>3. ops'[k].deviceSequence = db[d].sequence
        BY <2>4, <3>2
      <4> QED BY <4>1, <4>2, <4>3
    <3>3. CASE status = "untracked"
      BY <1>8, <3>1, <3>3
    <3>4. CASE status # "untracked"
      <4>1. Tracked' = Tracked \cup {k} /\ ops'[k].deviceId = d
        BY <1>8, <2>4, <3>4
      <4>2. \A o \in Tracked : ops'[o].deviceId = d => ops'[o].deviceSequence # ops'[k].deviceSequence
        BY <3>2, <3>4
      <4>3. ASSUME NEW o \in Tracked', NEW q \in Tracked',
                   ops'[o].deviceId = ops'[q].deviceId, ops'[o].deviceSequence = ops'[q].deviceSequence
            PROVE  o = q
        <5>1. CASE o = k /\ q \in Tracked
          BY <4>1, <4>2, <4>3, <5>1
        <5>2. CASE q = k /\ o \in Tracked
          BY <4>1, <4>2, <4>3, <5>2
        <5>3. CASE o \in Tracked /\ q \in Tracked
          BY <3>1, <4>3, <5>3
        <5> QED BY <4>1, <4>3, <5>1, <5>2, <5>3
      <4> QED BY <4>3
    <3> QED BY <3>3, <3>4
  <2> QED BY <2>1, <2>5, <2>6 DEF OpsOK
<1> QED BY <1>2, <1>5, <1>6, <1>7, <1>8, <1>10 DEF DevicesOK

LEMMA MutateFact ==
  ASSUME DevicesOK, NEW n, IdsUpTo(n), NEW d \in Devices, NEW a \in Aggregates, Mutate(d, a)
  PROVE  /\ DevicesOK' /\ IdsUpTo(n)' /\ JoinedKept /\ Tracked \subseteq Tracked'
         /\ \A o \in DOMAIN ops : o \in DOMAIN ops' /\ ops'[o] = ops[o]
         /\ StatesKept
<1> DEFINE o == Len(ops) + 1
           tracked == db[d].epoch # NoEpoch /\ db[d].recovery # "bootstrap"
           epoch == IF ~tracked THEN NoEpoch
                    ELSE IF Known(d) THEN db[d].stateEpoch ELSE db[d].epoch
           op == [opId |-> o, deviceId |-> d, aggregateId |-> a, dependencies |-> {},
                  bookEpoch |-> epoch,
                  deviceSequence |-> IF tracked THEN db[d].sequence ELSE 0,
                  baseRevision |-> db[d].revision[a], payload |-> "edit"]
           status == IF ~tracked THEN "untracked"
                     ELSE IF db[d].recovery = "required" THEN "quarantined" ELSE "pending"
           edited(x, sequence) == [x EXCEPT !.projection = @ \cup {o}, !.sequence = sequence]
           row == edited(db[d], IF tracked THEN db[d].sequence + 1 ELSE db[d].sequence)
<1>0. db \in [Devices -> Database] /\ o \in OpIds
  BY DEF DevicesOK, DeviceTypeOK, Mutate
<1>1. ops' = Append(ops, op) /\ outbox' = Append(outbox, status)
  BY DEF Mutate
<1>2. db' = [db EXCEPT ![d] = row]
  BY <1>0 DEF Mutate
<1>3. IssuedBy(d, op, status)
  <2>0. {} \in SUBSET OpIds /\ "edit" \in Payloads
    BY PayloadsAssumption
  <2>1. /\ db[d].stateEpoch \in Epochs \cup {NoEpoch} /\ db[d].sequence \in Nat \ {0}
        /\ db[d].revision[a] \in Nat /\ db[d].epoch \in Epochs \cup {NoEpoch}
    BY <1>0 DEF Database
  <2>2. epoch \in Epochs \cup {NoEpoch} /\ (tracked => epoch \in Epochs)
    BY <2>1 DEF Known
  <2>3. status \in Statuses /\ (status # "untracked" <=> tracked)
    BY DEF Statuses
  <2>4. op \in Issued
    <3> HIDE DEF tracked, o, epoch
    <3> QED BY <1>0, <2>0, <2>1, <2>2 DEF Issued
  <2>5. tracked => op \in Operation /\ op.deviceId = d /\ op.deviceSequence = db[d].sequence
    <3> HIDE DEF o, epoch
    <3> SUFFICES ASSUME tracked PROVE op \in Operation /\ op.deviceId = d /\ op.deviceSequence = db[d].sequence
      OBVIOUS
    <3>1. op.deviceId = d /\ op.deviceSequence = db[d].sequence
      OBVIOUS
    <3> HIDE DEF tracked
    <3>2. op \in Operation
      BY <1>0, <2>0, <2>1, <2>2 DEF Operation
    <3> QED BY <3>1, <3>2
  <2>6. op.opId = Len(ops) + 1
    OBVIOUS
  <2> HIDE DEF op, status, tracked, epoch
  <2> QED BY <2>3, <2>4, <2>5, <2>6 DEF IssuedBy
<1>4. row \in Database
  <2> HIDE DEF tracked, o
  <2>1. ASSUME NEW x \in Database, NEW sequence \in Nat \ {0} PROVE edited(x, sequence) \in Database
    BY <1>0 DEF Database
  <2>2. (IF tracked THEN db[d].sequence + 1 ELSE db[d].sequence) \in Nat \ {0}
    BY <1>0 DEF Database
  <2> HIDE DEF edited
  <2> QED BY <1>0, <2>1, <2>2
<1>5. /\ row.sequence = IF status = "untracked" THEN db[d].sequence ELSE db[d].sequence + 1
      /\ row.epoch = db[d].epoch /\ row.stateEpoch = db[d].stateEpoch /\ row.recovery = db[d].recovery
      /\ row.rows = db[d].rows /\ row.resolutions = db[d].resolutions
  BY <1>0 DEF Database
<1>6. StatesKept
  BY <1>0, <1>2 DEF StatesKept, SyncState, Database
<1>7. IssuingRow(d, row, n)
  <2> HIDE DEF row
  <2> QED BY <1>4, <1>5 DEF DevicesOK, ProfilesOK, IdsUpTo, IssuingRow
<1>8. Rewritten(outbox)
  BY OutboxFact
<1> HIDE DEF row, op, status, o
<1>9. row.sequence = IF status = "untracked" THEN db[d].sequence ELSE db[d].sequence + 1
  BY <1>5
<1>10. /\ DevicesOK' /\ IdsUpTo(n)' /\ JoinedKept /\ Tracked \subseteq Tracked'
       /\ \A q \in DOMAIN ops : q \in DOMAIN ops' /\ ops'[q] = ops[q]
  BY <1>1, <1>2, <1>3, <1>7, <1>8, <1>9, IssueKeeps
<1> QED BY <1>6, <1>10

LEMMA DecideCorrectFact ==
  ASSUME DevicesOK, NEW n, IdsUpTo(n), NEW d \in Devices, NEW row \in db[d].rows, DecideCorrect(d, row)
  PROVE  /\ DevicesOK' /\ IdsUpTo(n)' /\ JoinedKept /\ Tracked \subseteq Tracked'
         /\ \A o \in DOMAIN ops : o \in DOMAIN ops' /\ ops'[o] = ops[o]
         /\ StatesKept
<1> DEFINE o == Len(ops) + 1
           old == ops[row.op]
           op == [old EXCEPT
                    !.opId = o, !.bookEpoch = db[d].epoch, !.deviceSequence = db[d].sequence,
                    !.baseRevision = CorrectionBase(row),
                    !.dependencies = @ \cup ({row.canonicalOpId} \ {NoOp}), !.payload = "correction"]
           new == [Decided(d, row, o) EXCEPT !.sequence = @ + 1]
<1>0. /\ db \in [Devices -> Database] /\ o \in OpIds /\ db[d].epoch # NoEpoch
      /\ row \in LocalConflict /\ row.op \in Own(d)
  BY DEF DevicesOK, DeviceTypeOK, DecideCorrect, Database
<1>1. /\ ops' = Append(ops, op) /\ db' = [db EXCEPT ![d] = new]
      /\ outbox' = Append(Quarantine(GiveUp(outbox, d, row.op), d), "quarantined")
  BY DEF DecideCorrect
<1>2. Rewritten(Quarantine(GiveUp(outbox, d, row.op), d))
  BY OutboxFact, GiveUpFact, QuarantineFact
<1>3. IssuedBy(d, op, "quarantined")
  <2>1. /\ old \in Operation /\ old \in Issued /\ old.deviceId = d
    BY <1>0, OpsFact DEF Own, Tracked, DevicesOK, OpsOK
  <2>2. CorrectionBase(row) \in Nat
    BY <1>0, <2>1 DEF CorrectionBase, LocalConflict, Issued
  <2>3. /\ {row.canonicalOpId} \ {NoOp} \subseteq OpIds /\ "correction" \in Payloads
        /\ db[d].sequence \in Nat \ {0} /\ db[d].epoch \in Epochs
    BY <1>0, PayloadsAssumption DEF LocalConflict, Database
  <2> HIDE DEF old, o
  <2>4. op \in Issued
    BY <1>0, <2>1, <2>2, <2>3 DEF Issued
  <2>5. op \in Operation
    BY <1>0, <2>1, <2>2, <2>3 DEF Operation
  <2>6. op.deviceId = d /\ op.deviceSequence = db[d].sequence /\ op.opId = o
    BY <2>1 DEF Operation
  <2> HIDE DEF op
  <2> QED BY <2>4, <2>5, <2>6 DEF IssuedBy, Statuses, o
<1>4. RowOK(d, Decided(d, row, o), n)
  <2> HIDE DEF o
  <2> QED BY <1>0, DecidedFact
<1>6. new \in Database
  <2> DEFINE dec == Decided(d, row, o)
  <2> HIDE DEF dec
  <2>1. dec \in Database
    BY <1>4 DEF RowOK, dec
  <2>2. dec.sequence \in Nat /\ dec.sequence + 1 \in Nat \ {0}
    BY <2>1 DEF Database
  <2>3. [dec EXCEPT !.sequence = dec.sequence + 1] \in Database
    BY <2>1, <2>2 DEF Database
  <2> QED BY <2>3 DEF dec
<1>7. new.sequence = db[d].sequence + 1 /\ IssuingRow(d, new, n)
  <2> DEFINE dec == Decided(d, row, o)
  <2> HIDE DEF dec
  <2>1. dec \in Database /\ RowOK(d, dec, n)
    BY <1>4 DEF RowOK, dec
  <2>2. new = [dec EXCEPT !.sequence = @ + 1]
    BY DEF dec
  <2>3. dec.epoch = db[d].epoch /\ dec.stateEpoch = db[d].stateEpoch
    BY <1>0 DEF dec, Decided, Database
  <2> HIDE DEF new
  <2> QED BY <1>6, <2>1, <2>2, <2>3 DEF Database, RowOK, IssuingRow
<1>8. StatesKept
  <2>1. /\ new.stateEpoch = db[d].stateEpoch /\ new.cursor = db[d].cursor
        /\ new.checkpoint = db[d].checkpoint
    BY <1>0 DEF Decided, Database
  <2> HIDE DEF new
  <2> QED BY <1>0, <1>1, <2>1 DEF StatesKept, SyncState
<1>9. new.sequence = IF "quarantined" = "untracked" THEN db[d].sequence ELSE db[d].sequence + 1
  BY <1>7
<1>10. PICK box : Rewritten(box) /\ outbox' = Append(box, "quarantined")
  BY <1>1, <1>2
<1> HIDE DEF op, new, o, old
<1>11. /\ DevicesOK' /\ IdsUpTo(n)' /\ JoinedKept /\ Tracked \subseteq Tracked'
       /\ \A q \in DOMAIN ops : q \in DOMAIN ops' /\ ops'[q] = ops[q]
  BY <1>1, <1>3, <1>7, <1>9, <1>10, IssueKeeps
<1> QED BY <1>8, <1>11
=============================================================================
