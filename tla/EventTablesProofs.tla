-------------------------- MODULE EventTablesProofs -------------------------
(***************************************************************************)
(* What the tables of the event store guarantee to anyone who changes them *)
(* by their transactions only, for every number of devices, operations and *)
(* epochs.  The event store on its own and the devices that share a book   *)
(* are both shown to do so, and inherit every fact proved here.  First, of *)
(* the tables themselves; then, of what is derived from the canonical log: *)
(* checkpoints, snapshots, conflicts and what was decided about them.      *)
(***************************************************************************)
EXTENDS EventTables, FiniteSetTheorems, WellFoundedInduction, TLAPS

\* The transactions, and verifyCheckpoint's write of a hash that still holds.
TableNext ==
  \/ \E e \in Epochs : CreateBook(e)
  \/ \E op \in Operation, v \in Verdict : Insert(op, v)
  \/ \E n \in Nat : Pull(n)
  \/ \E e \in Epochs, n \in Nat : n < nextSequence /\ WriteCheckpoint(CheckpointOf(e, n))
  \/ \E e, f \in Epochs : AdvanceEpoch(e, f)
  \/ \E hash : \E e \in Epochs, n \in Nat, p \in Projections : SaveSnapshot(e, n, p, hash)
  \/ \E evidence \in Evidence : RecordConflict(evidence)
  \/ \E i \in DOMAIN conflicts : KeepCanonical(i) \/ \E x \in events : ResolveWith(i, x)

TableSpec == StoreInit /\ [][TableNext]_storeVars

\* A non-empty set of naturals with an upper bound has a greatest element.
LEMMA BoundedMaximum ==
  ASSUME NEW S \in SUBSET Nat, S # {}, NEW b \in Nat, \A s \in S : s <= b
  PROVE  \E g \in S : \A s \in S : s <= g
<1> DEFINE R == OpToRel(<, Nat)
           T == {n \in Nat : \A s \in S : s <= n}
<1>1. IsWellFoundedOn(R, Nat)
  BY NatLessThanWellFounded
<1>2. T \subseteq Nat /\ T # {}
  OBVIOUS
<1>3. PICK g \in T : \A n \in T : <<n, g>> \notin R
  <2> HIDE DEF R, T
  <2> QED BY <1>1, <1>2, WFMin
<1>4. \A n \in T : ~(n < g)
  BY <1>3 DEF OpToRel
<1>5. g \in S
  <2> SUFFICES ASSUME g \notin S PROVE FALSE
    OBVIOUS
  <2>1. \A s \in S : s <= g - 1
    OBVIOUS
  <2>2. g - 1 \in Nat
    <3> PICK s \in S : s <= g - 1
      BY <2>1
    <3> QED OBVIOUS
  <2>3. g - 1 \in T
    BY <2>1, <2>2
  <2> QED BY <2>3, <1>4
<1> QED BY <1>5

-----------------------------------------------------------------------------
(* Facts about the queries *)

\* The greatest revision of a set of events, when the revisions are bounded.
LEMMA MaxRevisionFact ==
  ASSUME NEW E, NEW b \in Nat,
         \A x \in E : x.aggregateRevision \in Nat /\ x.aggregateRevision <= b
  PROVE  /\ MaxRevision(E) \in 0 .. b
         /\ \A x \in E : x.aggregateRevision <= MaxRevision(E)
         /\ MaxRevision(E) # 0 => \E x \in E : x.aggregateRevision = MaxRevision(E)
<1> DEFINE R == {0} \cup {x.aggregateRevision : x \in E}
<1>1. R \subseteq Nat /\ R # {} /\ \A r \in R : r <= b
  OBVIOUS
<1>2. \E g \in R : \A r \in R : r <= g
  <2> HIDE DEF R
  <2> QED BY <1>1, BoundedMaximum
<1>3. MaxRevision(E) \in R /\ \A r \in R : r <= MaxRevision(E)
  BY <1>2 DEF MaxRevision
<1> QED BY <1>1, <1>3

\* What the numbers of the stored events are bounded by.
EventsBounded ==
  \A x \in events : x.bookSequence < nextSequence /\ x.aggregateRevision <= x.bookSequence

LEMMA CurrentRevisionFact ==
  ASSUME StoreTypeOK, EventsBounded, NEW E \in SUBSET events
  PROVE  /\ MaxRevision(E) \in Nat
         /\ MaxRevision(E) < nextSequence
         /\ \A x \in E : x.aggregateRevision <= MaxRevision(E)
         /\ MaxRevision(E) # 0 => \E x \in E : x.aggregateRevision = MaxRevision(E)
<1>1. \A x \in E : x.aggregateRevision \in Nat /\ x.aggregateRevision <= nextSequence - 1
  BY DEF StoreTypeOK, EventsBounded, Event
<1>2. nextSequence \in Nat /\ nextSequence - 1 \in Nat
  BY DEF StoreTypeOK
<1>3. /\ MaxRevision(E) \in 0 .. nextSequence - 1
      /\ \A x \in E : x.aggregateRevision <= MaxRevision(E)
      /\ MaxRevision(E) # 0 => \E x \in E : x.aggregateRevision = MaxRevision(E)
  BY <1>1, <1>2, MaxRevisionFact
<1>4. MaxRevision(E) \in Nat /\ MaxRevision(E) < nextSequence
  BY <1>2, <1>3
<1> QED BY <1>3, <1>4

\* The cursor a pull answers with is a sequence number the book has reached.
LEMMA PullCursorFact ==
  ASSUME StoreTypeOK, EventsBounded, bookEpoch \in Epochs,
         epochs[bookEpoch].start <= nextSequence,
         NEW after \in Nat, after < nextSequence
  PROVE  PullPage(after).cursor \in Nat /\ PullPage(after).cursor < nextSequence
<1> DEFINE start == epochs[bookEpoch].start
           from == IF after > start - 1 THEN after ELSE start - 1
           ahead == {x \in events : x.op.bookEpoch = bookEpoch /\ x.bookSequence > from}
           page == {x \in ahead : Cardinality({y \in ahead : y.bookSequence <= x.bookSequence}) <= PullLimit}
           S == {x.bookSequence : x \in page}
<1>1. start \in Nat /\ from \in Nat /\ from < nextSequence
  BY DEF StoreTypeOK, EpochRow
<1>2. page \subseteq events
  OBVIOUS
<1>3. CASE page = {}
  BY <1>1, <1>3 DEF PullPage
<1>4. CASE page # {}
  <2>1. \A x \in page : x.bookSequence \in Nat /\ x.bookSequence <= nextSequence - 1
    BY <1>2 DEF StoreTypeOK, EventsBounded, Event
  <2>2. S \in SUBSET Nat /\ S # {} /\ nextSequence - 1 \in Nat /\ \A s \in S : s <= nextSequence - 1
    <3> HIDE DEF page
    <3> QED BY <2>1, <1>4 DEF StoreTypeOK
  <2>3. \E g \in S : \A s \in S : s <= g
    <3> HIDE DEF S
    <3> QED BY <2>2, BoundedMaximum
  <2>4. \E x \in page : \A y \in page : y.bookSequence <= x.bookSequence
    <3> HIDE DEF page
    <3> QED BY <2>3
  <2> DEFINE last == CHOOSE x \in page : \A y \in page : y.bookSequence <= x.bookSequence
  <2>5. last \in page
    <3> HIDE DEF page
    <3> QED BY <2>4
  <2>6. PullPage(after).cursor = last.bookSequence
    BY <1>4 DEF PullPage
  <2> HIDE DEF last, page
  <2> QED BY <2>1, <2>5, <2>6 DEF StoreTypeOK
<1> QED BY <1>3, <1>4

\* The newest event of an aggregate is one of its events.
LEMMA CanonicalOpFact ==
  ASSUME StoreTypeOK, EventsBounded, NEW a
  PROVE  CanonicalOpOf(a) \in OpIds \cup {NoOp}
<1> DEFINE E == EventsOf(bookEpoch, a)
           last == CHOOSE x \in E : \A y \in E : y.aggregateRevision <= x.aggregateRevision
<1>1. E \subseteq events
  BY DEF EventsOf
<1>2. CASE E = {}
  BY <1>2 DEF CanonicalOpOf
<1>3. CASE E # {}
  <2>1. \A x \in E : x.aggregateRevision \in Nat \ {0}
    BY <1>1 DEF StoreTypeOK, Event
  <2>2. \E x \in E : \A y \in E : y.aggregateRevision <= x.aggregateRevision
    <3>1. /\ \A x \in E : x.aggregateRevision <= MaxRevision(E)
          /\ MaxRevision(E) # 0 => \E x \in E : x.aggregateRevision = MaxRevision(E)
      BY <1>1, CurrentRevisionFact
    <3>2. MaxRevision(E) # 0
      <4> HIDE DEF E
      <4> QED BY <3>1, <2>1, <1>3
    <3> HIDE DEF E
    <3> QED BY <3>1, <3>2
  <2>3. last \in E
    <3> HIDE DEF E
    <3> QED BY <2>2
  <2>4. CanonicalOpOf(a) = last.op.opId
    BY <1>3 DEF CanonicalOpOf
  <2> HIDE DEF last
  <2> QED BY <2>3, <2>4, <1>1 DEF StoreTypeOK, Event, Operation
<1> QED BY <1>2, <1>3

\* A rolled back append always has a reason and a well-formed canonical side.
LEMMA EvidenceFact ==
  ASSUME StoreTypeOK, EventsBounded, bookEpoch \in Epochs,
         NEW op \in Operation, NEW v \in Verdict,
         Refusal(op, v) # ""
  PROVE  EvidenceOf(op, v) \in Evidence
<1> DEFINE r == Refusal(op, v)
<1>1. r \in Reasons
  BY DEF Verdict, Refusal, Reasons, StoreReasons, ArbitrationReasons
<1>2. r = "device_sequence_reused" => SameDeviceSequence(op) # {}
  BY DEF Verdict, Refusal, ArbitrationReasons
<1>3. SameDeviceSequence(op) # {} =>
        (CHOOSE x \in SameDeviceSequence(op) : TRUE).op.opId \in OpIds
  BY DEF SameDeviceSequence, StoreTypeOK, Event, Operation
<1>4. op.opId \in OpIds
  BY DEF Operation
<1>5. CanonicalSide(op, r) \in OpIds \cup {NoOp}
  <2> HIDE DEF r
  <2> QED BY <1>2, <1>3, <1>4, CanonicalOpFact DEF CanonicalSide
<1> HIDE DEF r
<1> QED BY <1>1, <1>5 DEF EvidenceOf, Evidence, r

-----------------------------------------------------------------------------
(* Type correctness, with the bounds it rests on *)

\* Which rows of sync_book_epochs an open book has.
EpochsInv ==
  /\ bookEpoch = NoEpoch => events = {} /\ nextSequence = 1
  /\ bookEpoch # NoEpoch => epochs[bookEpoch].number > 0 /\ epochs[bookEpoch].start > 0
  /\ \A e \in Epochs : epochs[e].start <= nextSequence

TablesOK == StoreTypeOK /\ EventsBounded /\ EpochsInv

LEMMA InitTables == StoreInit => TablesOK
BY NullAssumption DEF StoreInit, TablesOK, StoreTypeOK, EventsBounded, EpochsInv, Unused, EpochRow

\* Every transaction but three leaves the log and the epochs alone.
OpenOrInsert ==
  \/ \E e \in Epochs : CreateBook(e)
  \/ \E op \in Operation, v \in Verdict : Insert(op, v)
  \/ \E e, f \in Epochs : AdvanceEpoch(e, f)

logVars == <<bookEpoch, nextSequence, epochs, events>>

LEMMA StepKinds ==
  ASSUME [TableNext]_storeVars PROVE OpenOrInsert \/ UNCHANGED logVars
BY DEF TableNext, storeVars, OpenOrInsert, logVars, Pull, WriteCheckpoint, SaveSnapshot, RecordConflict,
     KeepCanonical, ResolveWith

LEMMA InsertedEvent ==
  ASSUME TablesOK, NEW op \in Operation, NEW v, Insert(op, v)
  PROVE  LET new == [op |-> op, bookSequence |-> nextSequence,
                     aggregateRevision |-> CurrentRevision(op.aggregateId) + 1]
         IN /\ events' = events \cup {new}
            /\ new \in Event
            /\ new.aggregateRevision <= nextSequence
            /\ bookEpoch \in Epochs /\ op.bookEpoch = bookEpoch /\ Existing(op) = {}
            /\ nextSequence \in Nat /\ nextSequence' = nextSequence + 1
            /\ UNCHANGED <<bookEpoch, epochs>>
<1>1. bookEpoch \in Epochs
  BY DEF Insert, TablesOK, StoreTypeOK
<1>2. op.bookEpoch = bookEpoch
  BY DEF Insert, Refusal
<1>3. nextSequence \in Nat \ {0}
  BY DEF TablesOK, StoreTypeOK
<1>4. CurrentRevision(op.aggregateId) \in Nat /\ CurrentRevision(op.aggregateId) < nextSequence
  BY CurrentRevisionFact DEF TablesOK, CurrentRevision, EventsOf
<1>5. /\ events' = events \cup {[op |-> op, bookSequence |-> nextSequence,
                                 aggregateRevision |-> CurrentRevision(op.aggregateId) + 1]}
      /\ Existing(op) = {} /\ nextSequence' = nextSequence + 1 /\ UNCHANGED <<bookEpoch, epochs>>
  BY DEF Insert
<1> QED BY <1>1, <1>2, <1>3, <1>4, <1>5 DEF Event

LogTypeOK ==
  /\ bookEpoch \in Epochs \cup {NoEpoch}
  /\ nextSequence \in Nat \ {0}
  /\ epochs \in [Epochs -> EpochRow]
  /\ events \subseteq Event

\* The log and the epochs keep their types and their bounds.
LEMMA LogStep ==
  ASSUME TablesOK, [TableNext]_storeVars
  PROVE  LogTypeOK' /\ EventsBounded' /\ EpochsInv'
<1>0. LogTypeOK
  BY DEF TablesOK, StoreTypeOK, LogTypeOK
<1>1. CASE UNCHANGED logVars
  BY <1>0, <1>1 DEF logVars, TablesOK, LogTypeOK, EventsBounded, EpochsInv
<1>2. ASSUME NEW e \in Epochs, CreateBook(e)
      PROVE  LogTypeOK' /\ EventsBounded' /\ EpochsInv'
  BY <1>0, <1>2, NullAssumption
     DEF CreateBook, TablesOK, LogTypeOK, EpochRow, EventsBounded, EpochsInv
<1>3. ASSUME NEW op \in Operation, NEW v \in Verdict, Insert(op, v)
      PROVE  LogTypeOK' /\ EventsBounded' /\ EpochsInv'
  <2>1. op \in Operation
    OBVIOUS
  <2> DEFINE new == [op |-> op, bookSequence |-> nextSequence,
                     aggregateRevision |-> CurrentRevision(op.aggregateId) + 1]
  <2>2. /\ events' = events \cup {new}
        /\ new \in Event
        /\ new.aggregateRevision <= nextSequence
        /\ bookEpoch \in Epochs
        /\ nextSequence \in Nat /\ nextSequence' = nextSequence + 1
        /\ UNCHANGED <<bookEpoch, epochs>>
    BY <1>3, <2>1, InsertedEvent
  <2>3. new.bookSequence = nextSequence
    OBVIOUS
  <2> HIDE DEF new
  <2>4. LogTypeOK'
    BY <1>0, <2>2 DEF LogTypeOK
  <2>5. EventsBounded'
    <3>1. \A x \in events : x.bookSequence \in Nat
      BY <1>0 DEF LogTypeOK, Event
    <3> QED BY <2>2, <2>3, <3>1 DEF EventsBounded, TablesOK
  <2>6. EpochsInv'
    BY <1>0, <2>2, NullAssumption DEF EpochsInv, TablesOK, LogTypeOK, EpochRow
  <2> QED BY <2>4, <2>5, <2>6
<1>4. ASSUME NEW e \in Epochs, NEW f \in Epochs, AdvanceEpoch(e, f)
      PROVE  LogTypeOK' /\ EventsBounded' /\ EpochsInv'
  <2>1. bookEpoch \in Epochs /\ f # bookEpoch
    BY <1>0, <1>4 DEF AdvanceEpoch, LogTypeOK, TablesOK, EpochsInv, Unused
  <2>2. /\ epochs' \in [Epochs -> EpochRow]
        /\ epochs'[f].number > 0 /\ epochs'[f].start = nextSequence
        /\ \A g \in Epochs \ {f} : epochs'[g].start = epochs[g].start
    BY <1>0, <1>4, <2>1 DEF AdvanceEpoch, LogTypeOK, EpochRow
  <2>3. bookEpoch' = f /\ nextSequence' = nextSequence /\ events' = events
    BY <1>4 DEF AdvanceEpoch
  <2>4. LogTypeOK'
    BY <1>0, <2>2, <2>3 DEF LogTypeOK
  <2>5. EventsBounded'
    BY <2>3 DEF EventsBounded, TablesOK
  <2>6. EpochsInv'
    BY <1>0, <2>2, <2>3, NullAssumption DEF EpochsInv, TablesOK, LogTypeOK
  <2> QED BY <2>4, <2>5, <2>6
<1> QED BY <1>1, <1>2, <1>3, <1>4, StepKinds DEF OpenOrInsert

RecordsTypeOK ==
  /\ conflicts \in Seq(Conflict)
  /\ snapshots \in Seq(Snapshot)
  /\ checkpoints \subseteq Checkpoint

LEMMA TypeParts == StoreTypeOK <=> LogTypeOK /\ RecordsTypeOK
BY DEF StoreTypeOK, LogTypeOK, RecordsTypeOK

LEMMA CheckpointFact ==
  ASSUME TablesOK, NEW e \in Epochs, NEW n \in Nat
  PROVE  CheckpointOf(e, n) \in Checkpoint
BY DEF CheckpointOf, Checkpoint, EventsThrough, TablesOK, StoreTypeOK

LEMMA PutCheckpointType ==
  ASSUME checkpoints \subseteq Checkpoint, NEW c \in Checkpoint, PutCheckpoint(c)
  PROVE  checkpoints' \subseteq Checkpoint
BY DEF PutCheckpoint

\* What a pull answers: events of the active epoch, and a cursor the log has reached.
LEMMA PullFact ==
  ASSUME TablesOK, NEW n \in Nat, Pull(n)
  PROVE  /\ bookEpoch \in Epochs
         /\ PullPage(n).cursor \in Nat /\ PullPage(n).cursor < nextSequence
         /\ CheckpointOf(bookEpoch, PullPage(n).cursor) \in Checkpoint
<1>1. nextSequence \in Nat /\ n < nextSequence /\ bookEpoch \in Epochs
  BY DEF Pull, TablesOK, StoreTypeOK
<1>2. PullPage(n).cursor \in Nat /\ PullPage(n).cursor < nextSequence
  BY <1>1, PullCursorFact DEF TablesOK, EpochsInv
<1> QED BY <1>1, <1>2, CheckpointFact

LEMMA RecordConflictType ==
  ASSUME NEW evidence \in Evidence, conflicts \in Seq(Conflict), RecordConflict(evidence)
  PROVE  conflicts' \in Seq(Conflict)
<1> DEFINE new == [op |-> evidence.op, reason |-> evidence.reason,
                   canonicalOpId |-> evidence.canonicalOpId,
                   status |-> "open", resolutionOpId |-> NoOp]
<1>1. new \in Conflict
  BY DEF Evidence, Conflict
<1>2. conflicts' = conflicts \/ conflicts' = Append(conflicts, new)
  BY DEF RecordConflict
<1> HIDE DEF new
<1> QED BY <1>1, <1>2

LEMMA RecordsStep ==
  ASSUME TablesOK, [TableNext]_storeVars PROVE RecordsTypeOK'
<1>0. StoreTypeOK /\ EventsBounded /\ EpochsInv /\ RecordsTypeOK
  BY TypeParts DEF TablesOK
<1> DEFINE Kept == UNCHANGED <<conflicts, snapshots, checkpoints>>
<1>1. Kept => RecordsTypeOK'
  BY <1>0 DEF RecordsTypeOK
<1>2. ASSUME NEW e \in Epochs, CreateBook(e) PROVE RecordsTypeOK'
  BY <1>1, <1>2 DEF CreateBook
<1>3. ASSUME NEW op \in Operation, NEW v \in Verdict, Insert(op, v) PROVE RecordsTypeOK'
  BY <1>1, <1>3 DEF Insert
<1>4. ASSUME NEW c \in Checkpoint, PutCheckpoint(c), UNCHANGED <<conflicts, snapshots>>
      PROVE  RecordsTypeOK'
  BY <1>0, <1>4, PutCheckpointType DEF RecordsTypeOK
<1>5. ASSUME NEW n \in Nat, Pull(n) PROVE RecordsTypeOK'
  <2> DEFINE c == CheckpointOf(bookEpoch, PullPage(n).cursor)
  <2>1. c \in Checkpoint /\ PutCheckpoint(c) /\ UNCHANGED <<conflicts, snapshots>>
    BY <1>5, PullFact DEF Pull
  <2> HIDE DEF c
  <2> QED BY <1>4, <2>1
<1>6. ASSUME NEW e \in Epochs, NEW n \in Nat, WriteCheckpoint(CheckpointOf(e, n)) PROVE RecordsTypeOK'
  <2> DEFINE c == CheckpointOf(e, n)
  <2>1. c \in Checkpoint /\ PutCheckpoint(c) /\ UNCHANGED <<conflicts, snapshots>>
    BY <1>6, CheckpointFact DEF WriteCheckpoint
  <2> HIDE DEF c
  <2> QED BY <1>4, <2>1
<1>7. ASSUME NEW e \in Epochs, NEW f \in Epochs, AdvanceEpoch(e, f) PROVE RecordsTypeOK'
  BY <1>1, <1>7 DEF AdvanceEpoch
<1>8. ASSUME NEW e \in Epochs, NEW n \in Nat, NEW p \in Projections, NEW hash, SaveSnapshot(e, n, p, hash)
      PROVE  RecordsTypeOK'
  <2> DEFINE new == [bookEpoch |-> e, throughSequence |-> n, payload |-> p,
                     aggregateRevisions |-> RevisionMap(e, n)]
  <2>1. ASSUME NEW a \in Aggregates
        PROVE  MaxRevision({x \in EventsThrough(e, n) : x.op.aggregateId = a}) \in Nat
    <3>1. {x \in EventsThrough(e, n) : x.op.aggregateId = a} \subseteq events
      BY DEF EventsThrough
    <3> QED BY <1>0, <3>1, CurrentRevisionFact
  <2>2. new \in Snapshot
    BY <2>1 DEF Snapshot, RevisionMap
  <2>3. snapshots' = snapshots \/ snapshots' = Append(snapshots, new)
    BY <1>8 DEF SaveSnapshot
  <2>4. snapshots' \in Seq(Snapshot)
    <3> HIDE DEF new
    <3> QED BY <1>0, <2>2, <2>3 DEF RecordsTypeOK
  <2>5. UNCHANGED <<conflicts, checkpoints>>
    BY <1>8 DEF SaveSnapshot
  <2> QED BY <1>0, <2>4, <2>5 DEF RecordsTypeOK
<1>9. ASSUME NEW evidence \in Evidence, RecordConflict(evidence) PROVE RecordsTypeOK'
  <2>1. conflicts' \in Seq(Conflict)
    BY <1>0, <1>9, RecordConflictType DEF RecordsTypeOK
  <2> QED BY <1>0, <1>9, <2>1 DEF RecordConflict, RecordsTypeOK
<1>10. ASSUME NEW i \in DOMAIN conflicts, KeepCanonical(i) \/ \E x \in events : ResolveWith(i, x)
       PROVE  RecordsTypeOK'
  <2>1. \E id \in OpIds \cup {NoOp} : MarkResolved(i, id)
    BY <1>0, <1>10 DEF KeepCanonical, ResolveWith, StoreTypeOK, Event, Operation
  <2>2. PICK id \in OpIds \cup {NoOp} : MarkResolved(i, id)
    BY <2>1
  <2>3. conflicts \in Seq(Conflict) /\ conflicts[i] \in Conflict
    BY <1>0 DEF RecordsTypeOK
  <2> DEFINE row == [conflicts[i] EXCEPT !.status = "resolved", !.resolutionOpId = id]
  <2>4. row \in Conflict
    BY <2>2, <2>3 DEF Conflict
  <2>5. conflicts' = conflicts \/ conflicts' = [conflicts EXCEPT ![i] = row]
    BY <2>2, <2>3 DEF MarkResolved
  <2>6. conflicts' \in Seq(Conflict)
    <3> HIDE DEF row
    <3> QED BY <2>3, <2>4, <2>5
  <2>7. UNCHANGED <<snapshots, checkpoints>>
    BY <1>10 DEF KeepCanonical, ResolveWith
  <2> QED BY <1>0, <2>6, <2>7 DEF RecordsTypeOK
<1>11. CASE UNCHANGED storeVars
  BY <1>1, <1>11 DEF storeVars
<1> QED BY <1>2, <1>3, <1>5, <1>6, <1>7, <1>8, <1>9, <1>10, <1>11 DEF TableNext

LEMMA TablesStep ==
  ASSUME TablesOK, [TableNext]_storeVars PROVE TablesOK'
<1>1. LogTypeOK' /\ RecordsTypeOK' /\ EventsBounded' /\ EpochsInv'
  BY LogStep, RecordsStep
<1>2. StoreTypeOK'
  BY <1>1 DEF StoreTypeOK, LogTypeOK, RecordsTypeOK
<1> QED BY <1>1, <1>2 DEF TablesOK

LEMMA TablesCorrect == TableSpec => []TablesOK
BY InitTables, TablesStep, PTL DEF TableSpec

-----------------------------------------------------------------------------
(* The canonical log *)

LEMMA SequencedStep ==
  ASSUME TablesOK, Sequenced, [TableNext]_storeVars PROVE Sequenced'
<1>1. CASE UNCHANGED logVars
  BY <1>1 DEF logVars, Sequenced
<1>2. ASSUME NEW e \in Epochs, CreateBook(e) PROVE Sequenced'
  BY <1>2 DEF CreateBook, Sequenced
<1>3. ASSUME NEW op \in Operation, NEW v \in Verdict, Insert(op, v) PROVE Sequenced'
  <2> DEFINE new == [op |-> op, bookSequence |-> nextSequence,
                     aggregateRevision |-> CurrentRevision(op.aggregateId) + 1]
  <2>1. /\ events' = events \cup {new} /\ new.bookSequence = nextSequence
        /\ nextSequence \in Nat /\ nextSequence' = nextSequence + 1
    BY <1>3, InsertedEvent
  <2>2. \A x \in events : x.bookSequence \in Nat
    BY DEF TablesOK, StoreTypeOK, Event
  <2> HIDE DEF new
  <2>3. \A x \in events' : x.bookSequence < nextSequence'
    BY <2>1, <2>2 DEF Sequenced
  <2>4. ASSUME NEW n \in 1 .. nextSequence' - 1 PROVE \E x \in events' : x.bookSequence = n
    <3>1. n = nextSequence \/ n \in 1 .. nextSequence - 1
      BY <2>1
    <3> QED BY <2>1, <3>1 DEF Sequenced
  <2>5. \A x, y \in events' : x.bookSequence = y.bookSequence => x = y
    BY <2>1, <2>2 DEF Sequenced
  <2> QED BY <2>3, <2>4, <2>5 DEF Sequenced
<1>4. ASSUME NEW e \in Epochs, NEW f \in Epochs, AdvanceEpoch(e, f) PROVE Sequenced'
  BY <1>4 DEF AdvanceEpoch, Sequenced
<1> QED BY <1>1, <1>2, <1>3, <1>4, StepKinds DEF OpenOrInsert

\* Canonical order is total and gapless across epochs, whatever the bounds.
LEMMA TableSequenced == TableSpec => []Sequenced
<1>1. StoreInit => Sequenced
  BY DEF StoreInit, Sequenced
<1>2. TablesOK /\ Sequenced /\ [TableNext]_storeVars => Sequenced'
  BY SequencedStep
<1> QED BY <1>1, <1>2, TablesCorrect, PTL DEF TableSpec

LEMMA ExactlyOnceStep ==
  ASSUME TablesOK, ExactlyOnce, [TableNext]_storeVars PROVE ExactlyOnce'
<1>1. CASE UNCHANGED logVars
  BY <1>1 DEF logVars, ExactlyOnce
<1>2. ASSUME NEW e \in Epochs, CreateBook(e) PROVE ExactlyOnce'
  BY <1>2 DEF CreateBook, ExactlyOnce
<1>3. ASSUME NEW op \in Operation, NEW v \in Verdict, Insert(op, v) PROVE ExactlyOnce'
  <2> DEFINE new == [op |-> op, bookSequence |-> nextSequence,
                     aggregateRevision |-> CurrentRevision(op.aggregateId) + 1]
  <2>1. /\ events' = events \cup {new} /\ new.op = op
        /\ op.bookEpoch = bookEpoch /\ Existing(op) = {}
    BY <1>3, InsertedEvent
  <2>2. SameDeviceSequence(op) = {}
    <3>1. Refusal(op, v) = ""
      BY <1>3 DEF Insert
    <3>2. v # ""
      BY DEF Verdict, ArbitrationReasons
    <3> QED BY <2>1, <3>1, <3>2 DEF Refusal
  <2>3. \A x \in events : x.op.bookEpoch = op.bookEpoch =>
          /\ x.op.opId # op.opId
          /\ ~(x.op.deviceId = op.deviceId /\ x.op.deviceSequence = op.deviceSequence)
    BY <2>1, <2>2 DEF Existing, SameDeviceSequence
  <2> HIDE DEF new
  <2> QED BY <2>1, <2>3 DEF ExactlyOnce
<1>4. ASSUME NEW e \in Epochs, NEW f \in Epochs, AdvanceEpoch(e, f) PROVE ExactlyOnce'
  BY <1>4 DEF AdvanceEpoch, ExactlyOnce
<1> QED BY <1>1, <1>2, <1>3, <1>4, StepKinds DEF OpenOrInsert

\* However often an operation is submitted, an epoch holds it once, and no
\* device sequence is spent twice.
LEMMA TableExactlyOnce == TableSpec => []ExactlyOnce
<1>1. StoreInit => ExactlyOnce
  BY DEF StoreInit, ExactlyOnce
<1>2. TablesOK /\ ExactlyOnce /\ [TableNext]_storeVars => ExactlyOnce'
  BY ExactlyOnceStep
<1> QED BY <1>1, <1>2, TablesCorrect, PTL DEF TableSpec

LEMMA EpochFenceStep ==
  ASSUME TablesOK, EpochFence, [TableNext]_storeVars PROVE EpochFence'
<1>0. /\ LogTypeOK /\ EventsBounded /\ EpochsInv
      /\ \A x \in events : x.op.bookEpoch \in Epochs /\ x.bookSequence \in Nat
      /\ nextSequence \in Nat
  BY TypeParts DEF TablesOK, LogTypeOK, Event, Operation
<1>1. CASE UNCHANGED logVars
  BY <1>1 DEF logVars, EpochFence
<1>2. ASSUME NEW e \in Epochs, CreateBook(e) PROVE EpochFence'
  <2>1. events = {} /\ events' = {}
    BY <1>0, <1>2 DEF CreateBook, EpochsInv
  <2> QED BY <2>1 DEF EpochFence
<1>3. ASSUME NEW op \in Operation, NEW v \in Verdict, Insert(op, v) PROVE EpochFence'
  <2> DEFINE new == [op |-> op, bookSequence |-> nextSequence,
                     aggregateRevision |-> CurrentRevision(op.aggregateId) + 1]
  <2>1. /\ events' = events \cup {new} /\ new.op = op /\ new.bookSequence = nextSequence
        /\ bookEpoch \in Epochs /\ op.bookEpoch = bookEpoch
        /\ UNCHANGED <<bookEpoch, epochs>>
    BY <1>3, InsertedEvent
  <2>2. epochs[bookEpoch].number > 0 /\ epochs[bookEpoch].start <= nextSequence
    BY <1>0, <2>1, NullAssumption DEF EpochsInv
  <2> HIDE DEF new
  <2> QED BY <2>1, <2>2 DEF EpochFence
<1>4. ASSUME NEW e \in Epochs, NEW f \in Epochs, AdvanceEpoch(e, f) PROVE EpochFence'
  <2>1. bookEpoch \in Epochs /\ f # bookEpoch /\ epochs[f].number = 0
    BY <1>0, <1>4 DEF AdvanceEpoch, LogTypeOK, EpochsInv, Unused
  <2>2. /\ epochs'[bookEpoch].number = epochs[bookEpoch].number
        /\ epochs'[bookEpoch].start = epochs[bookEpoch].start
        /\ epochs'[bookEpoch].end = nextSequence - 1
        /\ \A g \in Epochs \ {f, bookEpoch} : epochs'[g] = epochs[g]
        /\ bookEpoch' = f /\ events' = events
    BY <1>0, <1>4, <2>1 DEF AdvanceEpoch, LogTypeOK, EpochRow
  <2>3. ASSUME NEW x \in events'
        PROVE  LET row == epochs'[x.op.bookEpoch]
               IN /\ row.number > 0 /\ row.start <= x.bookSequence
                  /\ x.op.bookEpoch # bookEpoch' => x.bookSequence <= row.end
    <3>1. x \in events /\ x.op.bookEpoch \in Epochs /\ x.bookSequence \in Nat
          /\ x.bookSequence < nextSequence
      BY <1>0, <2>2 DEF EventsBounded
    <3>2. x.op.bookEpoch # f
      BY <2>1, <3>1 DEF EpochFence
    <3>3. CASE x.op.bookEpoch = bookEpoch
      BY <1>0, <2>2, <3>1, <3>2, <3>3 DEF EpochFence
    <3>4. CASE x.op.bookEpoch # bookEpoch
      BY <2>2, <3>1, <3>2, <3>4 DEF EpochFence
    <3> QED BY <3>3, <3>4
  <2> QED BY <2>3 DEF EpochFence
<1> QED BY <1>1, <1>2, <1>3, <1>4, StepKinds DEF OpenOrInsert

\* Nothing stamped with a superseded epoch enters the log after the advance.
LEMMA TableEpochFence == TableSpec => []EpochFence
<1>1. StoreInit => EpochFence
  BY DEF StoreInit, EpochFence
<1>2. TablesOK /\ EpochFence /\ [TableNext]_storeVars => EpochFence'
  BY EpochFenceStep
<1> QED BY <1>1, <1>2, TablesCorrect, PTL DEF TableSpec

LEMMA DependenciesStep ==
  ASSUME TablesOK, DependenciesPrecede, [TableNext]_storeVars PROVE DependenciesPrecede'
<1>1. CASE UNCHANGED logVars
  BY <1>1 DEF logVars, DependenciesPrecede
<1>2. ASSUME NEW e \in Epochs, CreateBook(e) PROVE DependenciesPrecede'
  BY <1>2 DEF CreateBook, DependenciesPrecede
<1>3. ASSUME NEW op \in Operation, NEW v \in Verdict, Insert(op, v) PROVE DependenciesPrecede'
  <2> DEFINE new == [op |-> op, bookSequence |-> nextSequence,
                     aggregateRevision |-> CurrentRevision(op.aggregateId) + 1]
  <2>1. /\ events' = events \cup {new} /\ new.op = op /\ new.bookSequence = nextSequence
        /\ op.bookEpoch = bookEpoch /\ Existing(op) = {}
    BY <1>3, InsertedEvent
  <2>2. DependenciesPresent(op)
    <3>1. Refusal(op, v) = ""
      BY <1>3 DEF Insert
    <3>2. v # ""
      BY DEF Verdict, ArbitrationReasons
    <3> QED BY <2>1, <3>1, <3>2 DEF Refusal
  <2>3. \A y \in events : y.bookSequence < nextSequence
    BY DEF TablesOK, EventsBounded
  <2> HIDE DEF new
  <2>4. \A d \in new.op.dependencies :
          \E y \in events : y.op.opId = d /\ y.op.bookEpoch = new.op.bookEpoch
                              /\ y.bookSequence < new.bookSequence
    BY <2>1, <2>2, <2>3 DEF DependenciesPresent
  <2> QED BY <2>1, <2>4 DEF DependenciesPrecede
<1>4. ASSUME NEW e \in Epochs, NEW f \in Epochs, AdvanceEpoch(e, f) PROVE DependenciesPrecede'
  BY <1>4 DEF AdvanceEpoch, DependenciesPrecede
<1> QED BY <1>1, <1>2, <1>3, <1>4, StepKinds DEF OpenOrInsert

\* Replaying the log in order never meets an operation before its dependencies.
LEMMA TableDependencies == TableSpec => []DependenciesPrecede
<1>1. StoreInit => DependenciesPrecede
  BY DEF StoreInit, DependenciesPrecede
<1>2. TablesOK /\ DependenciesPrecede /\ [TableNext]_storeVars => DependenciesPrecede'
  BY DependenciesStep
<1> QED BY <1>1, <1>2, TablesCorrect, PTL DEF TableSpec

-----------------------------------------------------------------------------
(* Revisions.  The revision the store would compare the next operation of  *)
(* an aggregate with is the number of its events: this is what makes       *)
(* RevisionChain inductive.                                                *)

RevisionsCount ==
  /\ IsFiniteSet(events)
  /\ \A e \in Epochs, a \in Aggregates :
       MaxRevision(EventsOf(e, a)) = Cardinality(EventsOf(e, a))

\* The greatest revision, once it is known to be one.
LEMMA MaxRevisionIs ==
  ASSUME NEW E, NEW r \in Nat, \A x \in E : x.aggregateRevision \in Nat /\ x.aggregateRevision <= r,
         r = 0 \/ \E x \in E : x.aggregateRevision = r
  PROVE  MaxRevision(E) = r
<1>1. /\ MaxRevision(E) \in 0 .. r
      /\ \A x \in E : x.aggregateRevision <= MaxRevision(E)
  BY MaxRevisionFact
<1> QED BY <1>1

LEMMA RevisionsInsert ==
  ASSUME TablesOK, RevisionsCount, NEW op \in Operation, NEW v \in Verdict, Insert(op, v),
         NEW e \in Epochs, NEW a \in Aggregates
  PROVE  LET new == [op |-> op, bookSequence |-> nextSequence,
                     aggregateRevision |-> CurrentRevision(op.aggregateId) + 1]
             mine == e = bookEpoch /\ a = op.aggregateId
         IN /\ events' = events \cup {new} /\ new \notin events
            /\ EventsOf(e, a)' = IF mine THEN EventsOf(e, a) \cup {new} ELSE EventsOf(e, a)
            /\ mine => new.aggregateRevision = Cardinality(EventsOf(e, a)) + 1
            /\ Cardinality(EventsOf(e, a)) \in Nat
            /\ MaxRevision(EventsOf(e, a))' = Cardinality(EventsOf(e, a)')
<1> DEFINE new == [op |-> op, bookSequence |-> nextSequence,
                   aggregateRevision |-> CurrentRevision(op.aggregateId) + 1]
           E == EventsOf(e, a)
<1>1. /\ events' = events \cup {new} /\ new \in Event
      /\ new.op = op /\ new.bookSequence = nextSequence
      /\ op.bookEpoch = bookEpoch /\ nextSequence \in Nat
      /\ new.aggregateRevision = CurrentRevision(op.aggregateId) + 1
  BY InsertedEvent
<1>2. new \notin events
  BY <1>1 DEF TablesOK, EventsBounded
<1>3. IsFiniteSet(E) /\ Cardinality(E) \in Nat /\ MaxRevision(E) = Cardinality(E) /\ E \subseteq events
  <2>1. E \subseteq events /\ IsFiniteSet(events) /\ MaxRevision(E) = Cardinality(E)
    BY DEF RevisionsCount, EventsOf
  <2>2. IsFiniteSet(E)
    BY <2>1, FS_Subset
  <2>3. Cardinality(E) \in Nat
    BY <2>2, FS_CardinalityType
  <2> QED BY <2>1, <2>2, <2>3
<1>4. \A x \in E : x.aggregateRevision \in Nat /\ x.aggregateRevision <= Cardinality(E)
  <2>1. StoreTypeOK /\ EventsBounded
    BY DEF TablesOK
  <2>2. \A x \in E : x.aggregateRevision <= MaxRevision(E)
    BY <1>3, <2>1, CurrentRevisionFact
  <2>3. \A x \in E : x.aggregateRevision \in Nat
    BY <1>3, <2>1 DEF StoreTypeOK, Event
  <2> QED BY <1>3, <2>2, <2>3
<1> HIDE DEF new
<1>5. CASE e = bookEpoch /\ a = op.aggregateId
  <2>1. E' = E \cup {new}
    BY <1>1, <1>5 DEF EventsOf
  <2>2. new.aggregateRevision = Cardinality(E) + 1
    BY <1>1, <1>3, <1>5 DEF CurrentRevision
  <2> HIDE DEF E
  <2>3. Cardinality(E') = Cardinality(E) + 1
    <3>1. new \notin E
      BY <1>2, <1>3
    <3> QED BY <1>3, <2>1, <3>1, FS_AddElement
  <2>4. MaxRevision(E)' = Cardinality(E) + 1
    <3>1. \A x \in E \cup {new} : x.aggregateRevision \in Nat
                                   /\ x.aggregateRevision <= Cardinality(E) + 1
      BY <1>3, <1>4, <2>2
    <3>2. MaxRevision(E \cup {new}) = Cardinality(E) + 1
      BY <1>3, <2>2, <3>1, MaxRevisionIs
    <3>3. MaxRevision(E)' = MaxRevision(E \cup {new})
      BY <2>1 DEF MaxRevision
    <3> QED BY <3>2, <3>3
  <2> QED BY <1>1, <1>2, <1>3, <1>5, <2>1, <2>2, <2>3, <2>4 DEF new, E
<1>6. CASE ~(e = bookEpoch /\ a = op.aggregateId)
  <2>1. E' = E
    BY <1>1, <1>6 DEF EventsOf
  <2>2. MaxRevision(E)' = MaxRevision(E)
    BY <2>1 DEF MaxRevision
  <2> QED BY <1>1, <1>2, <1>3, <1>6, <2>1, <2>2 DEF new
<1> QED BY <1>5, <1>6

LEMMA RevisionStep ==
  ASSUME TablesOK, RevisionsCount, RevisionChain, [TableNext]_storeVars
  PROVE  RevisionsCount' /\ RevisionChain'
<1>1. ASSUME events' = events PROVE RevisionsCount' /\ RevisionChain'
  <2>1. \A e, a : EventsOf(e, a)' = EventsOf(e, a)
    BY <1>1 DEF EventsOf
  <2>2. ASSUME NEW e, NEW a PROVE MaxRevision(EventsOf(e, a))' = MaxRevision(EventsOf(e, a))
    BY <2>1 DEF MaxRevision
  <2>3. RevisionsCount'
    BY <1>1, <2>1, <2>2 DEF RevisionsCount
  <2>4. RevisionChain'
    BY <1>1, <2>1 DEF RevisionChain
  <2> QED BY <2>3, <2>4
<1>2. CASE UNCHANGED logVars
  BY <1>1, <1>2 DEF logVars
<1>3. ASSUME NEW e \in Epochs, CreateBook(e) PROVE RevisionsCount' /\ RevisionChain'
  BY <1>1, <1>3 DEF CreateBook
<1>4. ASSUME NEW e \in Epochs, NEW f \in Epochs, AdvanceEpoch(e, f)
      PROVE  RevisionsCount' /\ RevisionChain'
  BY <1>1, <1>4 DEF AdvanceEpoch
<1>5. ASSUME NEW op \in Operation, NEW v \in Verdict, Insert(op, v)
      PROVE  RevisionsCount' /\ RevisionChain'
  <2> DEFINE new == [op |-> op, bookSequence |-> nextSequence,
                     aggregateRevision |-> CurrentRevision(op.aggregateId) + 1]
             Before(x, E) == {y \in E : y.bookSequence < x.bookSequence}
  <2>1. /\ events' = events \cup {new} /\ new.op = op /\ new.bookSequence = nextSequence
        /\ bookEpoch \in Epochs /\ op.bookEpoch = bookEpoch /\ Existing(op) = {}
        /\ nextSequence \in Nat
        /\ new.aggregateRevision = CurrentRevision(op.aggregateId) + 1
    BY <1>5, InsertedEvent
  <2>2. op.aggregateId \in Aggregates
    BY DEF Operation
  <2>3. \A y \in events : y.bookSequence < nextSequence /\ y.bookSequence \in Nat
    BY DEF TablesOK, EventsBounded, StoreTypeOK, Event
  <2>4. RevisionsCount'
    <3>1. IsFiniteSet(events')
      BY <2>1, FS_AddElement DEF RevisionsCount
    <3>2. \A e \in Epochs, a \in Aggregates :
            MaxRevision(EventsOf(e, a))' = Cardinality(EventsOf(e, a)')
      BY <1>5, RevisionsInsert
    <3> QED BY <3>1, <3>2 DEF RevisionsCount
  <2>5. /\ EventsOf(bookEpoch, op.aggregateId)' = EventsOf(bookEpoch, op.aggregateId) \cup {new}
        /\ new.aggregateRevision = Cardinality(EventsOf(bookEpoch, op.aggregateId)) + 1
        /\ Cardinality(EventsOf(bookEpoch, op.aggregateId)) \in Nat
    <3>1. ASSUME NEW e \in Epochs, NEW a \in Aggregates, e = bookEpoch, a = op.aggregateId
          PROVE  /\ EventsOf(e, a)' = EventsOf(e, a) \cup {new}
                 /\ new.aggregateRevision = Cardinality(EventsOf(e, a)) + 1
                 /\ Cardinality(EventsOf(e, a)) \in Nat
      BY <1>5, <3>1, RevisionsInsert
    <3>2. bookEpoch' = bookEpoch
      BY <1>5 DEF Insert
    <3> HIDE DEF new
    <3> QED BY <2>1, <2>2, <3>1, <3>2
  <2>6. \A e, a : EventsOf(e, a) \subseteq events
                  /\ EventsOf(e, a) \subseteq EventsOf(e, a)'
                  /\ EventsOf(e, a)' \subseteq EventsOf(e, a) \cup {new}
    BY <2>1 DEF EventsOf
  <2>7. op.baseRevision # NoRevision => op.baseRevision = CurrentRevision(op.aggregateId)
    <3>1. Refusal(op, v) = ""
      BY <1>5 DEF Insert
    <3>2. v # ""
      BY DEF Verdict, ArbitrationReasons
    <3>3. RevisionMatches(op)
      BY <2>1, <3>1, <3>2 DEF Refusal
    <3> QED BY <3>3 DEF RevisionMatches
  <2> HIDE DEF new
  <2>8. ASSUME NEW x \in events'
        PROVE  LET before == Before(x, EventsOf(x.op.bookEpoch, x.op.aggregateId)')
               IN /\ x.aggregateRevision = Cardinality(before) + 1
                  /\ x.op.baseRevision # NoRevision => x.op.baseRevision = x.aggregateRevision - 1
    <3>1. CASE x = new
      <4>1. Before(x, EventsOf(x.op.bookEpoch, x.op.aggregateId)')
              = EventsOf(bookEpoch, op.aggregateId)
        BY <2>1, <2>3, <2>5, <2>6, <3>1
      <4>2. CurrentRevision(op.aggregateId) = Cardinality(EventsOf(bookEpoch, op.aggregateId))
        BY <2>1, <2>2 DEF CurrentRevision, RevisionsCount
      <4>3. /\ x.aggregateRevision = Cardinality(EventsOf(bookEpoch, op.aggregateId)) + 1
            /\ x.op.baseRevision # NoRevision =>
                 x.op.baseRevision = Cardinality(EventsOf(bookEpoch, op.aggregateId))
        BY <2>1, <2>5, <2>7, <3>1, <4>2
      <4> HIDE DEF Before
      <4> QED BY <2>5, <4>1, <4>3
    <3>2. CASE x \in events
      <4>1. Before(x, EventsOf(x.op.bookEpoch, x.op.aggregateId)')
              = Before(x, EventsOf(x.op.bookEpoch, x.op.aggregateId))
        BY <2>1, <2>3, <2>6, <3>2
      <4> QED BY <3>2, <4>1 DEF RevisionChain
    <3> QED BY <2>1, <3>1, <3>2
  <2>9. RevisionChain'
    BY <2>8 DEF RevisionChain
  <2> QED BY <2>4, <2>9
<1> QED BY <1>2, <1>3, <1>4, <1>5, StepKinds DEF OpenOrInsert

\* No lost update: in an epoch the events of every aggregate form one chain,
\* and an event that names a base names the link just before it.
LEMMA TableRevisionChain == TableSpec => []RevisionChain
<1>1. StoreInit => RevisionsCount /\ RevisionChain
  <2>1. ASSUME StoreInit PROVE \A e, a : EventsOf(e, a) = {} /\ events = {}
    BY <2>1 DEF StoreInit, EventsOf
  <2>2. MaxRevision({}) = 0
    BY MaxRevisionIs
  <2> QED BY <2>1, <2>2, FS_EmptySet DEF RevisionsCount, RevisionChain
<1>2. TablesOK /\ RevisionsCount /\ RevisionChain /\ [TableNext]_storeVars => RevisionsCount' /\ RevisionChain'
  BY RevisionStep
<1> QED BY <1>1, <1>2, TablesCorrect, PTL DEF TableSpec

-----------------------------------------------------------------------------
(* What is derived from the canonical log stays true to it. *)

\* The log is as it was, or one event longer.
LEMMA LogGrows ==
  ASSUME TablesOK, [TableNext]_storeVars
  PROVE  \/ events' = events /\ nextSequence' = nextSequence
         \/ \E op \in Operation, v \in Verdict : Insert(op, v)
BY StepKinds DEF OpenOrInsert, CreateBook, AdvanceEpoch, logVars

\* History below a sequence number the book has reached is final.
LEMMA PrefixStable ==
  ASSUME TablesOK, [TableNext]_storeVars
  PROVE  /\ nextSequence \in Nat /\ nextSequence' \in Nat /\ nextSequence <= nextSequence'
         /\ \A e, n : n \in Nat /\ n < nextSequence => EventsThrough(e, n)' = EventsThrough(e, n)
<1>0. nextSequence \in Nat
  BY DEF TablesOK, StoreTypeOK
<1>1. CASE events' = events /\ nextSequence' = nextSequence
  BY <1>0, <1>1 DEF EventsThrough
<1>2. ASSUME NEW op \in Operation, NEW v \in Verdict, Insert(op, v)
      PROVE  /\ nextSequence' = nextSequence + 1
             /\ \A e, n : n \in Nat /\ n < nextSequence => EventsThrough(e, n)' = EventsThrough(e, n)
  <2> DEFINE new == [op |-> op, bookSequence |-> nextSequence,
                     aggregateRevision |-> CurrentRevision(op.aggregateId) + 1]
  <2>1. events' = events \cup {new} /\ new.bookSequence = nextSequence /\ nextSequence' = nextSequence + 1
    BY <1>2, InsertedEvent
  <2> HIDE DEF new
  <2> QED BY <1>0, <2>1 DEF EventsThrough
<1> QED BY <1>0, <1>1, <1>2, LogGrows

-----------------------------------------------------------------------------
(* Checkpoints *)

\* A checkpoint of a prefix that is final.
Final(c) ==
  /\ c.throughSequence < nextSequence
  /\ c.eventHash = EventsThrough(c.bookEpoch, c.throughSequence)

CheckpointsFinal == \A c \in checkpoints : Final(c)

\* It stays one, wherever it is held.
LEMMA FinalForGood ==
  ASSUME TablesOK, [TableNext]_storeVars, NEW c, c.throughSequence \in Nat, Final(c)
  PROVE  Final(c)'
BY PrefixStable DEF Final

\* Where a step's checkpoints come from: they were there, or are taken now.
LEMMA CheckpointSources ==
  ASSUME TablesOK, [TableNext]_storeVars, NEW c \in checkpoints'
  PROVE  \/ c \in checkpoints
         \/ /\ events' = events /\ nextSequence' = nextSequence
            /\ \E e, n : n \in Nat /\ n < nextSequence /\ c = CheckpointOf(e, n)
<1>1. ASSUME NEW e, NEW n \in Nat, n < nextSequence, PutCheckpoint(CheckpointOf(e, n)),
             events' = events, nextSequence' = nextSequence
      PROVE  \/ c \in checkpoints
             \/ /\ events' = events /\ nextSequence' = nextSequence
                /\ \E f, m : m \in Nat /\ m < nextSequence /\ c = CheckpointOf(f, m)
  <2> DEFINE new == CheckpointOf(e, n)
  <2>1. c \in checkpoints \/ c = new
    <3>1. PutCheckpoint(new)
      BY <1>1
    <3> HIDE DEF new
    <3> QED BY <3>1 DEF PutCheckpoint
  <2> QED BY <1>1, <2>1
<1>2. ASSUME NEW n \in Nat, Pull(n)
      PROVE  \/ c \in checkpoints
             \/ /\ events' = events /\ nextSequence' = nextSequence
                /\ \E f, m : m \in Nat /\ m < nextSequence /\ c = CheckpointOf(f, m)
  <2>1. /\ PullPage(n).cursor \in Nat /\ PullPage(n).cursor < nextSequence
        /\ PutCheckpoint(CheckpointOf(bookEpoch, PullPage(n).cursor))
        /\ events' = events /\ nextSequence' = nextSequence
    BY <1>2, PullFact DEF Pull
  <2> QED BY <1>1, <2>1
<1>3. ASSUME NEW e \in Epochs, NEW n \in Nat, n < nextSequence, WriteCheckpoint(CheckpointOf(e, n))
      PROVE  \/ c \in checkpoints
             \/ /\ events' = events /\ nextSequence' = nextSequence
                /\ \E f, m : m \in Nat /\ m < nextSequence /\ c = CheckpointOf(f, m)
  BY <1>1, <1>3 DEF WriteCheckpoint
<1>4. \/ \E n \in Nat : Pull(n)
      \/ \E e \in Epochs, n \in Nat : n < nextSequence /\ WriteCheckpoint(CheckpointOf(e, n))
      \/ checkpoints' = checkpoints
  BY DEF TableNext, storeVars, CreateBook, Insert, AdvanceEpoch, SaveSnapshot, RecordConflict,
       KeepCanonical, ResolveWith
<1> QED BY <1>2, <1>3, <1>4

LEMMA CheckpointsFinalStep ==
  ASSUME TablesOK, CheckpointsFinal, [TableNext]_storeVars PROVE CheckpointsFinal'
<1> SUFFICES ASSUME NEW c \in checkpoints' PROVE Final(c)'
  BY DEF CheckpointsFinal, Final
<1>1. CASE c \in checkpoints
  <2>1. c.throughSequence \in Nat /\ Final(c)
    BY <1>1 DEF CheckpointsFinal, TablesOK, StoreTypeOK, Checkpoint
  <2> QED BY <2>1, FinalForGood
<1>2. CASE /\ events' = events /\ nextSequence' = nextSequence
           /\ \E e, n : n \in Nat /\ n < nextSequence /\ c = CheckpointOf(e, n)
  BY <1>2 DEF Final, CheckpointOf, EventsThrough
<1> QED BY <1>1, <1>2, CheckpointSources

LEMMA CheckpointsFinalCorrect == TableSpec => []CheckpointsFinal
<1>1. StoreInit => CheckpointsFinal
  BY DEF StoreInit, CheckpointsFinal
<1> QED BY <1>1, CheckpointsFinalStep, TablesCorrect, PTL DEF TableSpec

\* A checkpoint a device holds stays the hash of the canonical prefix, however
\* its reading and its writing are interleaved with other transactions.
LEMMA TableCheckpoints == TableSpec => []CheckpointsStable
<1>1. CheckpointsFinal => CheckpointsStable
  BY DEF CheckpointsFinal, Final, CheckpointsStable
<1> QED BY <1>1, CheckpointsFinalCorrect, PTL

-----------------------------------------------------------------------------
(* Snapshots.  Below a sequence number the revision map of a snapshot is   *)
(* the number of events of each aggregate, because the revisions are a     *)
(* chain; and that number is final.                                        *)

PrefixOf(e, a, n) == {x \in EventsOf(e, a) : x.bookSequence <= n}

\* The revision an aggregate had at a sequence number is how often it was changed.
LEMMA PrefixRevision ==
  ASSUME TablesOK, Sequenced, RevisionsCount, RevisionChain,
         NEW e \in Epochs, NEW a \in Aggregates, NEW n \in Nat
  PROVE  /\ IsFiniteSet(PrefixOf(e, a, n))
         /\ MaxRevision(PrefixOf(e, a, n)) = Cardinality(PrefixOf(e, a, n))
<1> DEFINE P == PrefixOf(e, a, n)
           Before(x) == {y \in EventsOf(e, a) : y.bookSequence < x.bookSequence}
<1>1. P \subseteq events /\ EventsOf(e, a) \subseteq events /\ IsFiniteSet(events)
  BY DEF PrefixOf, EventsOf, RevisionsCount
<1>2. IsFiniteSet(P) /\ Cardinality(P) \in Nat
  <2>1. IsFiniteSet(P)
    BY <1>1, FS_Subset
  <2> QED BY <2>1, FS_CardinalityType
<1>3. \A x \in events : x.bookSequence \in Nat /\ x.aggregateRevision \in Nat
  BY DEF TablesOK, StoreTypeOK, Event
<1>4. ASSUME NEW x \in P
      PROVE  /\ x \in EventsOf(e, a)
             /\ x.aggregateRevision = Cardinality(Before(x)) + 1
             /\ Before(x) \subseteq P \ {x}
  <2>1. x \in events /\ x.op.bookEpoch = e /\ x.op.aggregateId = a /\ x.bookSequence <= n
    BY DEF PrefixOf, EventsOf
  <2>2. x.aggregateRevision = Cardinality(Before(x)) + 1
    BY <2>1 DEF RevisionChain
  <2>3. Before(x) \subseteq P \ {x}
    BY <1>1, <1>3, <2>1 DEF PrefixOf
  <2> QED BY <2>1, <2>2, <2>3 DEF EventsOf
<1>5. ASSUME NEW x \in P
      PROVE  x.aggregateRevision \in Nat /\ x.aggregateRevision <= Cardinality(P)
  <2>1. /\ IsFiniteSet(P \ {x}) /\ Cardinality(P \ {x}) = Cardinality(P) - 1
    BY <1>2, FS_RemoveElement
  <2>2. /\ IsFiniteSet(Before(x)) /\ Cardinality(Before(x)) <= Cardinality(P \ {x})
    BY <1>4, <2>1, FS_Subset
  <2>3. Cardinality(Before(x)) \in Nat
    BY <2>2, FS_CardinalityType
  <2> HIDE DEF P, Before
  <2> QED BY <1>2, <1>4, <2>1, <2>2, <2>3
<1>6. Cardinality(P) = 0 \/ \E x \in P : x.aggregateRevision = Cardinality(P)
  <2> SUFFICES ASSUME P # {} PROVE \E x \in P : x.aggregateRevision = Cardinality(P)
    BY FS_EmptySet
  <2> DEFINE S == {x.bookSequence : x \in P}
  <2>1. S \in SUBSET Nat /\ S # {} /\ \A s \in S : s <= n
    BY <1>1, <1>3 DEF PrefixOf
  <2>2. PICK g \in S : \A s \in S : s <= g
    <3> HIDE DEF S
    <3> QED BY <2>1, BoundedMaximum
  <2>3. PICK x \in P : x.bookSequence = g
    BY <2>2
  <2>4. \A y \in P \ {x} : y.bookSequence < x.bookSequence
    <3>1. ASSUME NEW y \in P \ {x} PROVE y.bookSequence <= g /\ y.bookSequence # g
      BY <1>1, <2>2, <2>3 DEF Sequenced
    <3> QED BY <1>1, <1>3, <2>3, <3>1
  <2>5. Before(x) = P \ {x}
    <3>1. P \ {x} \subseteq EventsOf(e, a)
      BY <1>4
    <3>2. P \ {x} \subseteq Before(x)
      <4> HIDE DEF P
      <4> QED BY <2>4, <3>1
    <3> QED BY <1>4, <3>2
  <2>6. Cardinality(P \ {x}) = Cardinality(P) - 1
    BY <1>2, FS_RemoveElement
  <2>7. x.aggregateRevision = Cardinality(P \ {x}) + 1
    <3>1. x.aggregateRevision = Cardinality(Before(x)) + 1
      BY <1>4
    <3> QED BY <2>5, <3>1
  <2>8. x.aggregateRevision = Cardinality(P)
    <3> HIDE DEF P
    <3> QED BY <1>2, <2>6, <2>7
  <2> QED BY <2>3, <2>8
<1>7. MaxRevision(P) = Cardinality(P)
  <2> HIDE DEF P
  <2> QED BY <1>2, <1>5, <1>6, MaxRevisionIs
<1> QED BY <1>2, <1>7

SnapshotExact(s) ==
  /\ s.throughSequence < nextSequence
  /\ \A a \in Aggregates :
       s.aggregateRevisions[a] = Cardinality(PrefixOf(s.bookEpoch, a, s.throughSequence))

SnapshotsExact == \A i \in DOMAIN snapshots : SnapshotExact(snapshots[i])

LogExact == Sequenced /\ RevisionsCount /\ RevisionChain

\* A step adds at most one snapshot, of a prefix that is final.
LEMMA SnapshotSources ==
  ASSUME TablesOK, [TableNext]_storeVars
  PROVE  \/ snapshots' = snapshots
         \/ /\ events' = events /\ nextSequence' = nextSequence
            /\ \E e \in Epochs, n \in Nat, p \in Projections :
                 /\ n < nextSequence
                 /\ snapshots' = Append(snapshots, [bookEpoch |-> e, throughSequence |-> n, payload |-> p,
                                                    aggregateRevisions |-> RevisionMap(e, n)])
<1>1. ASSUME NEW e \in Epochs, NEW n \in Nat, NEW p \in Projections, NEW hash, SaveSnapshot(e, n, p, hash)
      PROVE  \/ snapshots' = snapshots
             \/ /\ events' = events /\ nextSequence' = nextSequence
                /\ n < nextSequence
                /\ snapshots' = Append(snapshots, [bookEpoch |-> e, throughSequence |-> n, payload |-> p,
                                                   aggregateRevisions |-> RevisionMap(e, n)])
  <2>1. n < nextSequence
    BY <1>1 DEF SaveSnapshot, InEpoch, TablesOK, StoreTypeOK
  <2> QED BY <1>1, <2>1 DEF SaveSnapshot
<1>2. \/ \E hash : \E e \in Epochs, n \in Nat, p \in Projections : SaveSnapshot(e, n, p, hash)
      \/ snapshots' = snapshots
  BY DEF TableNext, storeVars, CreateBook, Insert, Pull, WriteCheckpoint, AdvanceEpoch, RecordConflict,
       KeepCanonical, ResolveWith
<1> QED BY <1>1, <1>2

LEMMA PrefixOfStable ==
  ASSUME TablesOK, [TableNext]_storeVars, NEW e, NEW a, NEW n \in Nat, n < nextSequence
  PROVE  PrefixOf(e, a, n)' = PrefixOf(e, a, n)
<1>1. \A f : PrefixOf(f, a, n) = {x \in EventsThrough(f, n) : x.op.aggregateId = a}
  BY DEF PrefixOf, EventsOf, EventsThrough
<1>2. PrefixOf(e, a, n)' = {x \in EventsThrough(e, n)' : x.op.aggregateId = a}
  BY DEF PrefixOf, EventsOf, EventsThrough
<1> QED BY <1>1, <1>2, PrefixStable

LEMMA SnapshotsExactStep ==
  ASSUME TablesOK, LogExact, SnapshotsExact, [TableNext]_storeVars PROVE SnapshotsExact'
<1>0. /\ nextSequence \in Nat /\ nextSequence' \in Nat /\ nextSequence <= nextSequence'
      /\ snapshots \in Seq(Snapshot)
  BY PrefixStable DEF TablesOK, StoreTypeOK
<1> SUFFICES ASSUME NEW i \in DOMAIN snapshots', NEW s, s = snapshots'[i] PROVE SnapshotExact(s)'
  BY DEF SnapshotsExact, SnapshotExact, PrefixOf, EventsOf
<1>1. ASSUME i \in DOMAIN snapshots, s = snapshots[i] PROVE SnapshotExact(s)'
  <2>1. s \in Snapshot /\ SnapshotExact(s)
    BY <1>0, <1>1 DEF SnapshotsExact
  <2>2. s.throughSequence \in Nat /\ s.throughSequence < nextSequence
    BY <2>1 DEF Snapshot, SnapshotExact
  <2>3. \A a : PrefixOf(s.bookEpoch, a, s.throughSequence)' = PrefixOf(s.bookEpoch, a, s.throughSequence)
    BY <2>2, PrefixOfStable
  <2> QED BY <1>0, <2>1, <2>2, <2>3 DEF SnapshotExact
<1>2. CASE snapshots' = snapshots
  BY <1>1, <1>2
<1>3. ASSUME events' = events, nextSequence' = nextSequence,
             NEW e \in Epochs, NEW n \in Nat, NEW p, n < nextSequence,
             snapshots' = Append(snapshots, [bookEpoch |-> e, throughSequence |-> n, payload |-> p,
                                             aggregateRevisions |-> RevisionMap(e, n)])
      PROVE  SnapshotExact(s)'
  <2> DEFINE new == [bookEpoch |-> e, throughSequence |-> n, payload |-> p,
                     aggregateRevisions |-> RevisionMap(e, n)]
  <2>1. \A a \in Aggregates : RevisionMap(e, n)[a] = Cardinality(PrefixOf(e, a, n))
    <3>1. \A a \in Aggregates :
            RevisionMap(e, n)[a] = MaxRevision({x \in EventsThrough(e, n) : x.op.aggregateId = a})
      BY DEF RevisionMap
    <3>2. \A a \in Aggregates :
            {x \in EventsThrough(e, n) : x.op.aggregateId = a} = PrefixOf(e, a, n)
      BY DEF PrefixOf, EventsOf, EventsThrough
    <3> QED BY <3>1, <3>2, PrefixRevision DEF LogExact
  <2>2. /\ new.throughSequence = n /\ new.bookEpoch = e
        /\ new.aggregateRevisions = RevisionMap(e, n)
    OBVIOUS
  <2>3. snapshots' = Append(snapshots, new)
    BY <1>3
  <2> HIDE DEF new
  <2>4. \A a : PrefixOf(e, a, n)' = PrefixOf(e, a, n)
    BY <1>3 DEF PrefixOf, EventsOf
  <2>5. CASE i \in DOMAIN snapshots
    <3>1. snapshots'[i] = snapshots[i]
      BY <1>0, <2>3, <2>5
    <3> QED BY <1>1, <2>5, <3>1
  <2>6. CASE i \notin DOMAIN snapshots
    <3>1. s = new
      BY <1>0, <2>3, <2>6
    <3> QED BY <1>3, <2>1, <2>2, <2>4, <3>1 DEF SnapshotExact
  <2> QED BY <2>5, <2>6
<1> QED BY <1>2, <1>3, SnapshotSources

\* The revisions of a snapshot and the events after it make the current ones.
LEMMA SnapshotRevisionsFact ==
  ASSUME TablesOK, LogExact, SnapshotsExact PROVE SnapshotRevisions
<1> SUFFICES ASSUME NEW i \in DOMAIN snapshots, NEW a \in Aggregates, NEW s, s = snapshots[i]
             PROVE  MaxRevision(EventsOf(s.bookEpoch, a)) =
                      s.aggregateRevisions[a]
                        + Cardinality({x \in EventsOf(s.bookEpoch, a) : x.bookSequence > s.throughSequence})
  BY DEF SnapshotRevisions
<1> DEFINE E == EventsOf(s.bookEpoch, a)
           P == PrefixOf(s.bookEpoch, a, s.throughSequence)
           L == {x \in E : x.bookSequence > s.throughSequence}
<1>1. s.bookEpoch \in Epochs /\ s.throughSequence \in Nat
  <2>1. snapshots \in Seq(Snapshot)
    BY DEF TablesOK, StoreTypeOK
  <2>2. s \in Snapshot
    BY <2>1
  <2> QED BY <2>2 DEF Snapshot
<1>2. MaxRevision(E) = Cardinality(E) /\ s.aggregateRevisions[a] = Cardinality(P)
  BY <1>1 DEF LogExact, RevisionsCount, SnapshotsExact, SnapshotExact
<1>3. E \subseteq events /\ IsFiniteSet(events) /\ \A x \in E : x.bookSequence \in Nat
  BY DEF LogExact, RevisionsCount, EventsOf, TablesOK, StoreTypeOK, Event
<1>4. P \cup L = E /\ P \cap L = {} /\ P \subseteq E /\ L \subseteq E
  BY <1>1, <1>3 DEF PrefixOf
<1>5. IsFiniteSet(E)
  BY <1>3, FS_Subset
<1> HIDE DEF E, P, L
<1>6. IsFiniteSet(P) /\ IsFiniteSet(L)
  BY <1>4, <1>5, FS_Subset
<1>7. Cardinality(E) = Cardinality(P) + Cardinality(L) - Cardinality({})
  BY <1>4, <1>6, FS_Union
<1>8. Cardinality(P) \in Nat /\ Cardinality(L) \in Nat /\ Cardinality({}) = 0
  BY <1>6, FS_CardinalityType, FS_EmptySet
<1> QED BY <1>2, <1>7, <1>8 DEF E, L

LEMMA LogExactCorrect == TableSpec => []LogExact
<1>1. StoreInit => LogExact
  <2>1. ASSUME StoreInit PROVE \A e, a : EventsOf(e, a) = {} /\ events = {}
    BY <2>1 DEF StoreInit, EventsOf
  <2>2. MaxRevision({}) = 0
    BY MaxRevisionIs
  <2>3. StoreInit => Sequenced
    BY DEF StoreInit, Sequenced
  <2> QED BY <2>1, <2>2, <2>3, FS_EmptySet DEF LogExact, RevisionsCount, RevisionChain
<1>2. TablesOK /\ LogExact /\ [TableNext]_storeVars => LogExact'
  BY SequencedStep, RevisionStep DEF LogExact
<1> QED BY <1>1, <1>2, TablesCorrect, PTL DEF TableSpec

LEMMA SnapshotsExactCorrect == TableSpec => []SnapshotsExact
<1>1. StoreInit => SnapshotsExact
  BY DEF StoreInit, SnapshotsExact
<1>2. TablesOK /\ LogExact /\ SnapshotsExact /\ [TableNext]_storeVars => SnapshotsExact'
  BY SnapshotsExactStep
<1> QED BY <1>1, <1>2, TablesCorrect, LogExactCorrect, PTL DEF TableSpec

\* A device that installs any snapshot and counts the later events of an
\* aggregate holds the revision the server compares its next edit with.
LEMMA TableSnapshots == TableSpec => []SnapshotRevisions
<1>1. TablesOK /\ LogExact /\ SnapshotsExact => SnapshotRevisions
  BY SnapshotRevisionsFact
<1> QED BY <1>1, TablesCorrect, LogExactCorrect, SnapshotsExactCorrect, PTL

-----------------------------------------------------------------------------
(* Conflicts and decisions *)

OpenRow(evidence) ==
  [op |-> evidence.op, reason |-> evidence.reason, canonicalOpId |-> evidence.canonicalOpId,
   status |-> "open", resolutionOpId |-> NoOp]

ClosedRow(row, id) == [row EXCEPT !.status = "resolved", !.resolutionOpId = id]

Recorded(evidence) ==
  /\ OpenRows(evidence) = {}
  /\ conflicts' = Append(conflicts, OpenRow(evidence))
  /\ events' = events

\* A decision on an open conflict: keep the canonical side, or an event that answers it.
DecidedBy(i, id) ==
  /\ conflicts[i].status = "open"
  /\ id = NoOp \/ \E x \in events : id = x.op.opId /\ Resolves(x, conflicts[i])
  /\ conflicts' = [conflicts EXCEPT ![i] = ClosedRow(conflicts[i], id)]
  /\ events' = events

\* What a step may do to the conflicts.
LEMMA ConflictSources ==
  ASSUME TablesOK, [TableNext]_storeVars
  PROVE  \/ conflicts' = conflicts
         \/ \E evidence \in Evidence : Recorded(evidence)
         \/ \E i \in DOMAIN conflicts, id \in OpIds \cup {NoOp} : DecidedBy(i, id)
<1>0. StoreTypeOK /\ conflicts \in Seq(Conflict)
  BY DEF TablesOK, StoreTypeOK
<1>1. ASSUME NEW i \in DOMAIN conflicts, NEW id \in OpIds \cup {NoOp}, MarkResolved(i, id),
             events' = events, id = NoOp \/ \E x \in events : id = x.op.opId /\ Resolves(x, conflicts[i])
      PROVE  conflicts' = conflicts \/ DecidedBy(i, id)
  <2>1. conflicts[i] \in Conflict
    BY <1>0
  <2>2. CASE conflicts[i].status = "open"
    <3>1. conflicts' = [conflicts EXCEPT ![i] = ClosedRow(conflicts[i], id)]
      BY <1>0, <1>1, <2>1, <2>2 DEF MarkResolved, ClosedRow, Conflict
    <3> QED BY <1>1, <2>2, <3>1 DEF DecidedBy
  <2>3. CASE conflicts[i].status # "open"
    BY <1>1, <2>3 DEF MarkResolved
  <2> QED BY <2>2, <2>3
<1>2. ASSUME NEW i \in DOMAIN conflicts, KeepCanonical(i)
      PROVE  conflicts' = conflicts \/ DecidedBy(i, NoOp)
  BY <1>1, <1>2 DEF KeepCanonical
<1>3. ASSUME NEW i \in DOMAIN conflicts, NEW x \in events, ResolveWith(i, x)
      PROVE  conflicts' = conflicts \/ DecidedBy(i, x.op.opId)
  <2>1. x.op.opId \in OpIds
    BY <1>0 DEF StoreTypeOK, Event, Operation
  <2>2. MarkResolved(i, x.op.opId) /\ events' = events /\ Resolves(x, conflicts[i])
    BY <1>3 DEF ResolveWith
  <2> QED BY <1>1, <2>1, <2>2
<1>4. ASSUME NEW evidence \in Evidence, RecordConflict(evidence)
      PROVE  conflicts' = conflicts \/ Recorded(evidence)
  BY <1>4 DEF RecordConflict, Recorded, OpenRow
<1>5. \/ \E evidence \in Evidence : RecordConflict(evidence)
      \/ \E i \in DOMAIN conflicts : KeepCanonical(i) \/ \E x \in events : ResolveWith(i, x)
      \/ conflicts' = conflicts
  BY DEF TableNext, storeVars, CreateBook, Insert, Pull, WriteCheckpoint, AdvanceEpoch, SaveSnapshot
<1>6. \A x \in events : x.op.opId \in OpIds
  BY <1>0 DEF StoreTypeOK, Event, Operation
<1> QED BY <1>2, <1>3, <1>4, <1>5, <1>6

\* The rows there were keep their place; one of them may be decided, one may be added.
LEMMA ConflictRows ==
  ASSUME TablesOK, [TableNext]_storeVars
  PROVE  /\ conflicts \in Seq(Conflict) /\ DOMAIN conflicts \subseteq DOMAIN conflicts'
         /\ \A i \in DOMAIN conflicts :
              \/ conflicts'[i] = conflicts[i]
              \/ /\ conflicts[i].status = "open" /\ events' = events
                 /\ \E id : /\ conflicts'[i] = ClosedRow(conflicts[i], id)
                            /\ id = NoOp \/ \E x \in events : id = x.op.opId /\ Resolves(x, conflicts[i])
         /\ \A i \in DOMAIN conflicts' \ DOMAIN conflicts :
              \E evidence \in Evidence : /\ OpenRows(evidence) = {} /\ conflicts'[i] = OpenRow(evidence)
                                         /\ events' = events
                                         /\ \A j \in DOMAIN conflicts' : j # i => j \in DOMAIN conflicts
                                         /\ \A j \in DOMAIN conflicts : conflicts'[j] = conflicts[j]
<1>0. conflicts \in Seq(Conflict)
  BY DEF TablesOK, StoreTypeOK
<1>1. CASE conflicts' = conflicts
  BY <1>0, <1>1
<1>2. ASSUME NEW evidence \in Evidence, Recorded(evidence)
      PROVE  /\ DOMAIN conflicts' = DOMAIN conflicts \cup {Len(conflicts) + 1}
             /\ \A i \in DOMAIN conflicts : conflicts'[i] = conflicts[i]
             /\ conflicts'[Len(conflicts) + 1] = OpenRow(evidence)
             /\ OpenRows(evidence) = {} /\ events' = events
  <2> DEFINE new == OpenRow(evidence)
  <2>1. conflicts' = Append(conflicts, new) /\ OpenRows(evidence) = {} /\ events' = events
    BY <1>2 DEF Recorded
  <2> HIDE DEF new
  <2> QED BY <1>0, <2>1 DEF new
<1>3. ASSUME NEW k \in DOMAIN conflicts, NEW id, DecidedBy(k, id)
      PROVE  /\ DOMAIN conflicts' = DOMAIN conflicts
             /\ \A i \in DOMAIN conflicts \ {k} : conflicts'[i] = conflicts[i]
             /\ conflicts'[k] = ClosedRow(conflicts[k], id)
             /\ conflicts[k].status = "open" /\ events' = events
             /\ id = NoOp \/ \E x \in events : id = x.op.opId /\ Resolves(x, conflicts[k])
  BY <1>0, <1>3 DEF DecidedBy
<1>4. CASE \E evidence \in Evidence : Recorded(evidence)
  BY <1>0, <1>2, <1>4
<1>5. CASE \E i \in DOMAIN conflicts, id \in OpIds \cup {NoOp} : DecidedBy(i, id)
  BY <1>0, <1>3, <1>5
<1> QED BY <1>1, <1>4, <1>5, ConflictSources

LEMMA OneOpenConflictStep ==
  ASSUME TablesOK, OneOpenConflict, [TableNext]_storeVars PROVE OneOpenConflict'
<1> DEFINE Same(c, k) == /\ c.status = "open" /\ k.status = "open" /\ c.reason = k.reason
                         /\ c.op.bookEpoch = k.op.bookEpoch /\ c.op.opId = k.op.opId
<1>1. \A i, j \in DOMAIN conflicts : Same(conflicts[i], conflicts[j]) => i = j
  BY DEF OneOpenConflict
<1>2. ASSUME NEW i \in DOMAIN conflicts, conflicts'[i].status = "open"
      PROVE  conflicts'[i] = conflicts[i]
  <2>1. \A id : ClosedRow(conflicts[i], id).status # "open"
    <3>1. conflicts[i] \in Conflict
      BY ConflictRows
    <3> QED BY <3>1 DEF ClosedRow, Conflict
  <2> QED BY <1>2, <2>1, ConflictRows
<1>3. ASSUME NEW i \in DOMAIN conflicts' \ DOMAIN conflicts, NEW j \in DOMAIN conflicts,
             Same(conflicts'[i], conflicts'[j]) \/ Same(conflicts'[j], conflicts'[i])
      PROVE  FALSE
  <2>1. PICK evidence \in Evidence : /\ OpenRows(evidence) = {} /\ conflicts'[i] = OpenRow(evidence)
                                     /\ \A k \in DOMAIN conflicts : conflicts'[k] = conflicts[k]
    BY ConflictRows
  <2>2. /\ conflicts'[i].op = evidence.op /\ conflicts'[i].reason = evidence.reason
    BY <2>1 DEF OpenRow
  <2>3. j \in OpenRows(evidence)
    BY <1>3, <2>1, <2>2 DEF OpenRows
  <2> QED BY <2>1, <2>3
<1>4. ASSUME NEW i \in DOMAIN conflicts', NEW j \in DOMAIN conflicts', Same(conflicts'[i], conflicts'[j])
      PROVE  i = j
  <2>1. CASE i \in DOMAIN conflicts /\ j \in DOMAIN conflicts
    BY <1>1, <1>2, <1>4, <2>1
  <2>2. CASE i \notin DOMAIN conflicts /\ j \notin DOMAIN conflicts
    BY <2>2, ConflictRows
  <2> HIDE DEF Same
  <2> QED BY <1>3, <1>4, <2>1, <2>2
<1> QED BY <1>4 DEF OneOpenConflict

\* A refused operation never has two open conflicts for one reason, though the
\* store and the handler both record what they hold, in any order.
LEMMA TableOneConflict == TableSpec => []OneOpenConflict
<1>1. StoreInit => OneOpenConflict
  BY DEF StoreInit, OneOpenConflict
<1>2. TablesOK /\ OneOpenConflict /\ [TableNext]_storeVars => OneOpenConflict'
  BY OneOpenConflictStep
<1> QED BY <1>1, <1>2, TablesCorrect, PTL DEF TableSpec

LEMMA EventsKept ==
  ASSUME TablesOK, [TableNext]_storeVars PROVE events \subseteq events'
<1>1. ASSUME NEW op \in Operation, NEW v \in Verdict, Insert(op, v) PROVE events \subseteq events'
  BY <1>1 DEF Insert
<1> QED BY <1>1, LogGrows

\* What answers a conflict, and what it answers, are both in the log for good.
Answered(c) ==
  c.resolutionOpId # NoOp =>
    \E x \in events :
      /\ x.op.opId = c.resolutionOpId
      /\ x.op.bookEpoch = c.op.bookEpoch /\ x.op.aggregateId = c.op.aggregateId
      /\ \/ c.canonicalOpId = NoOp
         \/ \E y \in events : /\ y.op.bookEpoch = c.op.bookEpoch /\ y.op.opId = c.canonicalOpId
                              /\ y.bookSequence < x.bookSequence

DecisionsAnswered == \A i \in DOMAIN conflicts : Answered(conflicts[i])

LEMMA DecisionsAnsweredStep ==
  ASSUME TablesOK, DependenciesPrecede, DecisionsAnswered, [TableNext]_storeVars PROVE DecisionsAnswered'
<1> SUFFICES ASSUME NEW i \in DOMAIN conflicts', NEW c, c = conflicts'[i] PROVE Answered(c)'
  BY DEF DecisionsAnswered, Answered
<1>1. ASSUME Answered(c) PROVE Answered(c)'
  BY <1>1, EventsKept DEF Answered
<1>2. CASE i \notin DOMAIN conflicts
  <2>1. PICK evidence \in Evidence : c = OpenRow(evidence)
    BY <1>2, ConflictRows
  <2> QED BY <2>1 DEF OpenRow, Answered
<1>3. CASE i \in DOMAIN conflicts /\ c = conflicts[i]
  BY <1>1, <1>3 DEF DecisionsAnswered
<1>4. ASSUME NEW id, i \in DOMAIN conflicts, c = ClosedRow(conflicts[i], id), events' = events,
             id = NoOp \/ \E x \in events : id = x.op.opId /\ Resolves(x, conflicts[i])
      PROVE  Answered(c)'
  <2>1. conflicts[i] \in Conflict
    BY <1>4, ConflictRows
  <2>2. /\ c.op = conflicts[i].op /\ c.canonicalOpId = conflicts[i].canonicalOpId
        /\ c.resolutionOpId = id
    BY <1>4, <2>1 DEF ClosedRow, Conflict
  <2>3. ASSUME NEW x \in events, id = x.op.opId, Resolves(x, conflicts[i]) PROVE Answered(c)
    BY <2>2, <2>3 DEF Resolves, Answered, DependenciesPrecede
  <2> QED BY <1>1, <1>4, <2>2, <2>3 DEF Answered
<1> QED BY <1>2, <1>3, <1>4, ConflictRows

\* A conflict decided by a correction or a merge is answered by a later event
\* on the same aggregate, though the log goes on growing between the two.
LEMMA TableDecisions == TableSpec => []AuditedResolution
<1>1. StoreInit => DependenciesPrecede /\ DecisionsAnswered /\ ExactlyOnce
  BY DEF StoreInit, DependenciesPrecede, DecisionsAnswered, ExactlyOnce
<1>2. TablesOK /\ DependenciesPrecede /\ DecisionsAnswered /\ [TableNext]_storeVars => DecisionsAnswered'
  BY DecisionsAnsweredStep
<1>3. TablesOK /\ ExactlyOnce /\ DecisionsAnswered => AuditedResolution
  <2> SUFFICES ASSUME TablesOK, ExactlyOnce, DecisionsAnswered, NEW i \in DOMAIN conflicts,
                      conflicts[i].resolutionOpId # NoOp
               PROVE  \E x \in events :
                        /\ x.op.opId = conflicts[i].resolutionOpId
                        /\ x.op.bookEpoch = conflicts[i].op.bookEpoch
                        /\ x.op.aggregateId = conflicts[i].op.aggregateId
                        /\ \A y \in events :
                             /\ y.op.bookEpoch = conflicts[i].op.bookEpoch
                             /\ y.op.opId = conflicts[i].canonicalOpId
                             => y.bookSequence < x.bookSequence
    BY DEF AuditedResolution
  <2>1. Answered(conflicts[i])
    BY DEF DecisionsAnswered
  <2>2. \A y \in events : y.op.opId # NoOp
    BY NullAssumption DEF TablesOK, StoreTypeOK, Event, Operation
  <2> QED BY <2>1, <2>2 DEF Answered, ExactlyOnce
<1> QED BY <1>1, <1>2, <1>3, TablesCorrect, TableExactlyOnce, TableDependencies, PTL DEF TableSpec

-----------------------------------------------------------------------------
(* Epochs, and what a step may never do *)

\* The epochs of a book are numbered 1, 2, ... and the active one is the last.
EpochChain ==
  /\ bookEpoch = NoEpoch => \A e \in Epochs : epochs[e].number = 0
  /\ bookEpoch # NoEpoch =>
       /\ \A e \in Epochs : epochs[e].number <= epochs[bookEpoch].number
       /\ \A n \in 1 .. epochs[bookEpoch].number : \E e \in Epochs : epochs[e].number = n
  /\ \A e, f \in Epochs : epochs[e].number = epochs[f].number /\ epochs[e].number # 0 => e = f

LEMMA EpochChainStep ==
  ASSUME TablesOK, EpochChain, [TableNext]_storeVars PROVE EpochChain'
<1>0. /\ bookEpoch \in Epochs \cup {NoEpoch} /\ epochs \in [Epochs -> EpochRow]
      /\ \A e \in Epochs : epochs[e].number \in Nat
  BY DEF TablesOK, StoreTypeOK, EpochRow
<1>1. CASE UNCHANGED <<bookEpoch, epochs>>
  BY <1>1 DEF EpochChain
<1>2. ASSUME NEW e \in Epochs, CreateBook(e) PROVE EpochChain'
  <2>1. /\ bookEpoch = NoEpoch /\ bookEpoch' = e /\ e # NoEpoch
        /\ epochs'[e].number = 1 /\ \A f \in Epochs \ {e} : epochs'[f].number = epochs[f].number
    BY <1>0, <1>2, NullAssumption DEF CreateBook
  <2>2. \A f \in Epochs : epochs'[f].number = IF f = e THEN 1 ELSE 0
    BY <2>1 DEF EpochChain
  <2>3. 1 .. epochs'[e].number = {1}
    BY <2>1
  <2> QED BY <2>1, <2>2, <2>3 DEF EpochChain
<1>3. ASSUME NEW e \in Epochs, NEW f \in Epochs, AdvanceEpoch(e, f) PROVE EpochChain'
  <2>1. bookEpoch \in Epochs /\ f # bookEpoch /\ epochs[f].number = 0 /\ bookEpoch' = f /\ f # NoEpoch
    BY <1>0, <1>3, NullAssumption DEF AdvanceEpoch, TablesOK, EpochsInv, Unused
  <2>2. /\ epochs'[f].number = epochs[bookEpoch].number + 1
        /\ \A g \in Epochs \ {f} : epochs'[g].number = epochs[g].number
    BY <1>0, <1>3, <2>1 DEF AdvanceEpoch, EpochRow
  <2>3. \A g \in Epochs : epochs'[g].number <= epochs'[f].number
    BY <1>0, <2>1, <2>2 DEF EpochChain
  <2>4. ASSUME NEW n \in 1 .. epochs'[f].number PROVE \E g \in Epochs : epochs'[g].number = n
    <3>1. n = epochs'[f].number \/ n \in 1 .. epochs[bookEpoch].number
      BY <1>0, <2>1, <2>2
    <3>2. ASSUME n \in 1 .. epochs[bookEpoch].number PROVE \E g \in Epochs : epochs'[g].number = n
      <4>1. PICK g \in Epochs : epochs[g].number = n
        BY <2>1, <3>2, NullAssumption DEF EpochChain
      <4>2. g # f
        BY <2>1, <3>2, <4>1
      <4> QED BY <2>2, <4>1, <4>2
    <3> QED BY <3>1, <3>2
  <2>5. \A g, h \in Epochs : epochs'[g].number = epochs'[h].number /\ epochs'[g].number # 0 => g = h
    BY <1>0, <2>1, <2>2, NullAssumption DEF EpochChain
  <2> QED BY <2>1, <2>3, <2>4, <2>5 DEF EpochChain
<1>4. ASSUME NEW op \in Operation, NEW v \in Verdict, Insert(op, v) PROVE EpochChain'
  BY <1>1, <1>4 DEF Insert
<1> QED BY <1>1, <1>2, <1>3, <1>4, StepKinds DEF OpenOrInsert, logVars

LEMMA EpochChainCorrect == TableSpec => []EpochChain
<1>1. StoreInit => EpochChain
  BY NullAssumption DEF StoreInit, EpochChain, Unused
<1> QED BY <1>1, EpochChainStep, TablesCorrect, PTL DEF TableSpec

\* No conflict is lost, and a decision is final.
LEMMA ConflictsFinal ==
  ASSUME TablesOK, [TableNext]_storeVars, NEW i \in DOMAIN conflicts
  PROVE  /\ i \in DOMAIN conflicts' /\ conflicts'[i].op = conflicts[i].op
         /\ conflicts[i].status = "resolved" => conflicts'[i] = conflicts[i]
<1>1. conflicts[i] \in Conflict /\ i \in DOMAIN conflicts'
  BY ConflictRows
<1>2. \A id : ClosedRow(conflicts[i], id).op = conflicts[i].op
  BY <1>1 DEF ClosedRow, Conflict
<1> QED BY <1>1, <1>2, ConflictRows

\* History only grows at its end, epochs only move forward, and a decision is
\* final, whichever two handlers run one after the other.
LEMMA TableAppendOnly == TableSpec => AppendOnlyHistory
<1> DEFINE A == /\ events \subseteq events'
                /\ \A x \in events' \ events : x.bookSequence = nextSequence
                /\ bookEpoch' # bookEpoch => \A e \in Epochs : epochs'[e].number <= epochs'[bookEpoch'].number
                /\ \A i \in DOMAIN conflicts :
                     /\ i \in DOMAIN conflicts' /\ conflicts'[i].op = conflicts[i].op
                     /\ conflicts[i].status = "resolved" => conflicts'[i] = conflicts[i]
<1>1. ASSUME TablesOK, EpochChain, [TableNext]_storeVars PROVE A
  <2>1. events \subseteq events'
    BY <1>1, EventsKept
  <2>2. \A x \in events' \ events : x.bookSequence = nextSequence
    <3>1. ASSUME NEW op \in Operation, NEW v \in Verdict, Insert(op, v)
          PROVE  \A x \in events' \ events : x.bookSequence = nextSequence
      <4> DEFINE new == [op |-> op, bookSequence |-> nextSequence,
                         aggregateRevision |-> CurrentRevision(op.aggregateId) + 1]
      <4>1. events' = events \cup {new} /\ new.bookSequence = nextSequence
        BY <3>1 DEF Insert
      <4> HIDE DEF new
      <4> QED BY <4>1
    <3> QED BY <1>1, <3>1, LogGrows
  <2>3. bookEpoch' # bookEpoch => \A e \in Epochs : epochs'[e].number <= epochs'[bookEpoch'].number
    <3>1. EpochChain'
      BY <1>1, EpochChainStep
    <3>2. bookEpoch' # bookEpoch => bookEpoch' # NoEpoch
      BY <1>1, StepKinds, NullAssumption DEF OpenOrInsert, CreateBook, Insert, AdvanceEpoch, logVars
    <3> QED BY <3>1, <3>2 DEF EpochChain
  <2>4. \A i \in DOMAIN conflicts : /\ i \in DOMAIN conflicts' /\ conflicts'[i].op = conflicts[i].op
                                    /\ conflicts[i].status = "resolved" => conflicts'[i] = conflicts[i]
    BY <1>1, ConflictsFinal
  <2> QED BY <2>1, <2>2, <2>3, <2>4
<1>2. TablesOK /\ EpochChain /\ [TableNext]_storeVars => [A]_storeVars
  BY <1>1
<1> HIDE DEF A
<1>3. TableSpec => [][A]_storeVars
  BY <1>2, TablesCorrect, EpochChainCorrect, PTL DEF TableSpec
<1> QED BY <1>3 DEF A, AppendOnlyHistory

-----------------------------------------------------------------------------
(* Epochs as intervals, and the pages of the log a device pulls *)

\* An epoch that was opened stays opened, where it was.
LEMMA StartsFinal ==
  ASSUME TablesOK, EpochChain, [TableNext]_storeVars, NEW e \in Epochs, epochs[e].number > 0
  PROVE  epochs'[e].number = epochs[e].number /\ epochs'[e].start = epochs[e].start
<1>0. epochs \in [Epochs -> EpochRow] /\ bookEpoch \in Epochs \cup {NoEpoch}
  BY DEF TablesOK, StoreTypeOK
<1>1. CASE epochs' = epochs
  BY <1>1
<1>2. ASSUME NEW f \in Epochs, CreateBook(f) PROVE FALSE
  BY <1>2 DEF CreateBook, EpochChain
<1>3. ASSUME NEW f \in Epochs, NEW g \in Epochs, AdvanceEpoch(f, g)
      PROVE  epochs'[e].number = epochs[e].number /\ epochs'[e].start = epochs[e].start
  <2>1. e # g /\ bookEpoch \in Epochs
    BY <1>0, <1>3 DEF AdvanceEpoch, Unused
  <2> QED BY <1>0, <1>3, <2>1 DEF AdvanceEpoch, EpochRow
<1> QED BY <1>1, <1>2, <1>3, StepKinds DEF OpenOrInsert, logVars, Insert

\* Every epoch that was replaced ended before the active one began.
EpochsEnded ==
  \A e \in Epochs : epochs[e].number > 0 /\ e # bookEpoch =>
    bookEpoch \in Epochs /\ epochs[e].end < epochs[bookEpoch].start

LEMMA EpochsEndedStep ==
  ASSUME TablesOK, EpochChain, EpochsEnded, [TableNext]_storeVars PROVE EpochsEnded'
<1>0. /\ epochs \in [Epochs -> EpochRow] /\ bookEpoch \in Epochs \cup {NoEpoch}
      /\ nextSequence \in Nat
      /\ \A e \in Epochs : /\ epochs[e].number \in Nat /\ epochs[e].start \in Nat /\ epochs[e].end \in Nat
                           /\ epochs[e].start <= nextSequence
  BY DEF TablesOK, StoreTypeOK, EpochRow, EpochsInv
<1>1. CASE UNCHANGED <<bookEpoch, epochs>>
  BY <1>1 DEF EpochsEnded
<1>2. ASSUME NEW f \in Epochs, CreateBook(f) PROVE EpochsEnded'
  <2>1. bookEpoch' = f /\ \A e \in Epochs : e # f => epochs'[e].number = 0
    BY <1>0, <1>2 DEF CreateBook, EpochChain
  <2> QED BY <2>1 DEF EpochsEnded
<1>3. ASSUME NEW f \in Epochs, NEW g \in Epochs, AdvanceEpoch(f, g) PROVE EpochsEnded'
  <2>1. /\ bookEpoch \in Epochs /\ g # bookEpoch /\ bookEpoch' = g
        /\ epochs'[g].start = nextSequence /\ epochs'[bookEpoch].end = nextSequence - 1
    BY <1>0, <1>3 DEF AdvanceEpoch, Unused, TablesOK, EpochsInv, EpochRow
  <2>2. \A e \in Epochs \ {g, bookEpoch} : epochs'[e] = epochs[e]
    BY <1>0, <1>3, <2>1 DEF AdvanceEpoch
  <2>3. ASSUME NEW e \in Epochs, e # g, epochs'[e].number > 0 PROVE epochs'[e].end < nextSequence
    <3>1. CASE e = bookEpoch
      BY <3>1, <2>1, <1>0
    <3>2. CASE e # bookEpoch
      <4>1. epochs[e].end < epochs[bookEpoch].start
        BY <2>2, <2>3, <3>2 DEF EpochsEnded
      <4>2. epochs'[e].end = epochs[e].end /\ epochs[e].end \in Nat /\ epochs[bookEpoch].start \in Nat
        BY <1>0, <2>1, <2>2, <2>3, <3>2
      <4>3. epochs[bookEpoch].start <= nextSequence
        BY <1>0, <2>1
      <4> QED BY <1>0, <4>1, <4>2, <4>3
    <3> QED BY <3>1, <3>2
  <2> QED BY <2>1, <2>3 DEF EpochsEnded
<1>4. ASSUME NEW op \in Operation, NEW v \in Verdict, Insert(op, v) PROVE EpochsEnded'
  BY <1>1, <1>4 DEF Insert
<1> QED BY <1>1, <1>2, <1>3, <1>4, StepKinds DEF OpenOrInsert, logVars

LEMMA EpochsEndedCorrect == TableSpec => []EpochsEnded
<1>1. StoreInit => EpochsEnded
  BY DEF StoreInit, EpochsEnded, Unused
<1> QED BY <1>1, EpochsEndedStep, TablesCorrect, EpochChainCorrect, PTL DEF TableSpec

\* What the answer to a pull holds: events of the active epoch between the two
\* cursors, and the hash of the canonical prefix that ends at the second one.
PageOf(page, n) ==
  /\ page.bookEpoch = bookEpoch /\ bookEpoch \in Epochs
  /\ page.events \subseteq {x \in events : x.op.bookEpoch = bookEpoch}
  /\ page.cursor \in Nat /\ n <= page.cursor /\ page.cursor < nextSequence
  /\ page.hasMore \in BOOLEAN
  /\ page.checkpointHash = EventsThrough(bookEpoch, page.cursor)
  /\ ~page.hasMore => page.cursor = nextSequence - 1

LEMMA PageFact ==
  ASSUME TablesOK, Sequenced, EpochFence, EpochsEnded, NEW n \in Nat, Pull(n)
  PROVE  PageOf(PullPage(n), n)
<1> DEFINE start == epochs[bookEpoch].start
           from == IF n > start - 1 THEN n ELSE start - 1
           ahead == {x \in events : x.op.bookEpoch = bookEpoch /\ x.bookSequence > from}
           page == {x \in ahead : Cardinality({y \in ahead : y.bookSequence <= x.bookSequence}) <= PullLimit}
<1>1. PullPage(n).cursor \in Nat /\ PullPage(n).cursor < nextSequence /\ bookEpoch \in Epochs
  BY PullFact
<1>2. /\ PullPage(n).events = page /\ page \subseteq ahead /\ PullPage(n).bookEpoch = bookEpoch
      /\ PullPage(n).hasMore = (page # ahead)
      /\ PullPage(n).checkpointHash = EventsThrough(bookEpoch, PullPage(n).cursor)
  BY DEF PullPage
<1>3. /\ start \in Nat /\ nextSequence \in Nat /\ n < nextSequence /\ from \in Int
      /\ n <= from /\ start - 1 <= from
      /\ \A x \in events : x.bookSequence \in Nat /\ x.bookSequence < nextSequence /\ x.op.bookEpoch \in Epochs
      /\ \A e \in Epochs : epochs[e].end \in Nat
  BY <1>1 DEF Pull, TablesOK, StoreTypeOK, EpochRow, EventsBounded, Event, Operation
<1>4. page = {} => PullPage(n).cursor = from
  BY DEF PullPage
<1>5. page # {} => /\ \E x \in page : PullPage(n).cursor = x.bookSequence
                   /\ \A y \in page : y.bookSequence <= PullPage(n).cursor
  <2> SUFFICES ASSUME page # {}
               PROVE  /\ \E x \in page : PullPage(n).cursor = x.bookSequence
                      /\ \A y \in page : y.bookSequence <= PullPage(n).cursor
    OBVIOUS
  <2> DEFINE S == {x.bookSequence : x \in page}
             last == CHOOSE x \in page : \A y \in page : y.bookSequence <= x.bookSequence
  <2>1. PullPage(n).cursor = last.bookSequence
    BY DEF PullPage
  <2>2. \A x \in page : x.bookSequence \in Nat /\ x.bookSequence <= nextSequence - 1
    <3>1. \A x \in page : x \in events
      BY <1>2
    <3> HIDE DEF page
    <3> QED BY <1>3, <3>1
  <2> HIDE DEF page
  <2>3. S \in SUBSET Nat /\ S # {} /\ nextSequence - 1 \in Nat /\ \A s \in S : s <= nextSequence - 1
    BY <2>2, <1>3
  <2>4. \E g \in S : \A s \in S : s <= g
    <3> HIDE DEF S
    <3> QED BY <2>3, BoundedMaximum
  <2>5. \E x \in page : \A y \in page : y.bookSequence <= x.bookSequence
    BY <2>4
  <2>6. last \in page /\ \A y \in page : y.bookSequence <= last.bookSequence
    BY <2>5
  <2> HIDE DEF last
  <2> QED BY <2>1, <2>6
<1>6. from <= PullPage(n).cursor
  <2>1. \A x \in page : from < x.bookSequence /\ x.bookSequence \in Nat
    <3>1. \A x \in ahead : from < x.bookSequence /\ x.bookSequence \in Nat
      BY <1>3
    <3> HIDE DEF page, ahead, from
    <3> QED BY <1>2, <3>1
  <2> HIDE DEF page, from
  <2> QED BY <1>3, <1>4, <1>5, <2>1
<1>7. ASSUME page = ahead PROVE PullPage(n).cursor = nextSequence - 1
  <2> SUFFICES ASSUME PullPage(n).cursor < nextSequence - 1 PROVE FALSE
    BY <1>1, <1>3
  <2>0. from < nextSequence - 1 /\ nextSequence - 1 \in 1 .. nextSequence - 1
    <3> HIDE DEF from
    <3> QED BY <1>1, <1>3, <1>6
  <2>1. PICK x \in events : x.bookSequence = nextSequence - 1
    BY <2>0 DEF Sequenced
  <2>2. x.op.bookEpoch = bookEpoch
    <3> SUFFICES ASSUME x.op.bookEpoch # bookEpoch PROVE FALSE
      OBVIOUS
    <3>1. x.op.bookEpoch \in Epochs /\ epochs[x.op.bookEpoch].number > 0
          /\ x.bookSequence <= epochs[x.op.bookEpoch].end
      BY <1>3 DEF EpochFence
    <3>2. epochs[x.op.bookEpoch].end < start /\ epochs[x.op.bookEpoch].end \in Nat
      BY <3>1, <1>3 DEF EpochsEnded
    <3> HIDE DEF from, start
    <3> QED BY <1>3, <2>0, <2>1, <3>1, <3>2
  <2>3. x \in page
    <3>1. x \in ahead
      <4>1. x.bookSequence > from
        <5> HIDE DEF from
        <5> QED BY <2>0, <2>1
      <4> HIDE DEF from
      <4> QED BY <2>2, <4>1
    <3> HIDE DEF page, ahead
    <3> QED BY <3>1, <1>7
  <2> HIDE DEF page
  <2> QED BY <1>1, <1>3, <1>5, <2>1, <2>3
<1>8. n <= PullPage(n).cursor
  <2> HIDE DEF from
  <2> QED BY <1>1, <1>3, <1>6
<1>9. PullPage(n).events \subseteq {x \in events : x.op.bookEpoch = bookEpoch}
  <2>1. ahead \subseteq {x \in events : x.op.bookEpoch = bookEpoch}
    OBVIOUS
  <2> HIDE DEF page, ahead
  <2> QED BY <1>2, <2>1
<1> HIDE DEF page, ahead
<1> QED BY <1>1, <1>2, <1>7, <1>8, <1>9 DEF PageOf
=============================================================================
