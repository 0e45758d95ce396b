-------------------------- MODULE EventStoreProofs -------------------------
(***************************************************************************)
(* What the event store guarantees on its own, for every number of devices, *)
(* operations and epochs, and every bound: its handlers change the tables  *)
(* by transactions only, so all that EventTablesProofs shows of the        *)
(* tables holds, whatever the handlers hold between two transactions.  In   *)
(* the second part, every transaction writes one operation the canonical   *)
(* log may write next, opens an era, or changes nothing of either.         *)
(***************************************************************************)
EXTENDS EventStore, EventTablesProofs, SequenceTheorems

\* What a handler holds between two statements is well formed, and the hash
\* verifyCheckpoint read is still that of the prefix it was read of.
HandlersOK ==
  /\ refused \subseteq Held
  /\ \A c \in verifying : c \in Checkpoint /\ Final(c)

Core == TablesOK /\ HandlersOK

LEMMA InitCore == Init => Core
BY InitTables DEF Init, Core, HandlersOK

\* Every step of the store is a transaction on its tables, or none.
LEMMA StepTransacts ==
  ASSUME Core, [Next]_vars PROVE [TableNext]_storeVars
<1>0. StoreTypeOK
  BY DEF Core, TablesOK
<1>1. ASSUME NEW op \in Operations, NEW v \in Verdicts[op], Accept(op, v) PROVE [TableNext]_storeVars
  <2>1. op \in Operation /\ v \in Verdict
    BY OperationsAssumption, VerdictsAssumption
  <2> QED BY <1>1, <2>1 DEF Accept, Deduplicate, TableNext
<1>2. ASSUME NEW n \in 0 .. nextSequence, Pull(n) PROVE TableNext
  <2>1. n \in Nat
    BY <1>0 DEF StoreTypeOK
  <2> QED BY <1>2, <2>1 DEF TableNext
<1>3. ASSUME NEW c \in checkpoints, NEW p \in Projections,
             SaveSnapshot(c.bookEpoch, c.throughSequence, p, c.eventHash)
      PROVE  TableNext
  <2>1. c.bookEpoch \in Epochs /\ c.throughSequence \in Nat
    BY <1>0 DEF StoreTypeOK, Checkpoint
  <2> QED BY <1>3, <2>1 DEF TableNext
<1>4. CASE Transaction
  BY <1>1, <1>2, <1>3, <1>4 DEF Transaction, TableNext
<1>5. ASSUME NEW h \in refused, StoreRecords(h) \/ HandlerRecords(h) PROVE TableNext
  <2>1. h.evidence \in Evidence
    BY DEF Core, HandlersOK, Held
  <2> QED BY <1>5, <2>1 DEF StoreRecords, HandlerRecords, TableNext
<1>6. ASSUME NEW c \in verifying, FinishVerify(c) PROVE TableNext
  <2>1. c \in Checkpoint /\ Final(c)
    BY DEF Core, HandlersOK
  <2>2. c.bookEpoch \in Epochs /\ c.throughSequence \in Nat /\ c.throughSequence < nextSequence
    BY <2>1 DEF Checkpoint, Final
  <2>3. c = CheckpointOf(c.bookEpoch, c.throughSequence)
    BY <2>1 DEF Checkpoint, Final, CheckpointOf
  <2> QED BY <1>6, <2>2, <2>3 DEF FinishVerify, TableNext
<1>7. ASSUME UNCHANGED storeVars PROVE [TableNext]_storeVars
  BY <1>7
<1>8. CASE \E op \in Operations : \E v \in Verdicts[op] : Rollback(op, v)
  BY <1>7, <1>8 DEF Rollback
<1>9. CASE \E n \in 0 .. nextSequence : ReadCheckpoint(n)
  BY <1>7, <1>9 DEF ReadCheckpoint
<1>10. CASE Crash \/ UNCHANGED vars
  BY <1>7, <1>10 DEF Crash, vars
<1> QED BY <1>4, <1>5, <1>6, <1>8, <1>9, <1>10 DEF Next, Step

LEMMA HandlersStep ==
  ASSUME Core, [Next]_vars PROVE HandlersOK'
<1>0. TablesOK /\ HandlersOK /\ [TableNext]_storeVars
  BY StepTransacts DEF Core
<1>1. ASSUME NEW c \in verifying PROVE c \in Checkpoint /\ Final(c)'
  <2>1. c \in Checkpoint /\ Final(c) /\ c.throughSequence \in Nat
    BY <1>0 DEF HandlersOK, Checkpoint
  <2> QED BY <1>0, <2>1, FinalForGood
<1>2. ASSUME refused' \subseteq refused, verifying' \subseteq verifying PROVE HandlersOK'
  BY <1>0, <1>1, <1>2 DEF HandlersOK, Final
<1>3. CASE (Transaction /\ UNCHANGED <<refused, verifying>>) \/ UNCHANGED vars
  BY <1>2, <1>3 DEF vars
<1>4. ASSUME NEW op \in Operations, NEW v \in Verdicts[op], Rollback(op, v) PROVE HandlersOK'
  <2>1. op \in Operation /\ v \in Verdict /\ bookEpoch \in Epochs /\ StoreTypeOK /\ EventsBounded
    BY <1>0, <1>4, OperationsAssumption, VerdictsAssumption DEF Rollback, TablesOK, StoreTypeOK
  <2>2. EvidenceOf(op, v) \in Evidence
    BY <1>4, <2>1, EvidenceFact DEF Rollback
  <2> DEFINE held == [evidence |-> EvidenceOf(op, v), recorded |-> FALSE]
  <2>3. held \in Held
    BY <2>2 DEF Held
  <2>4. refused' = refused \cup {held} /\ verifying' = verifying
    BY <1>4 DEF Rollback
  <2> HIDE DEF held
  <2> QED BY <1>0, <1>1, <2>3, <2>4 DEF HandlersOK, Final
<1>5. ASSUME NEW h \in refused, StoreRecords(h) \/ HandlerRecords(h) PROVE HandlersOK'
  <2>1. h \in Held
    BY <1>0 DEF HandlersOK
  <2>2. [h EXCEPT !.recorded = TRUE] \in Held
    BY <2>1 DEF Held
  <2>3. refused' \subseteq Held /\ verifying' = verifying
    BY <1>0, <1>5, <2>2 DEF StoreRecords, HandlerRecords, HandlersOK
  <2> QED BY <1>1, <2>3 DEF HandlersOK, Final
<1>6. ASSUME NEW n \in 0 .. nextSequence, ReadCheckpoint(n) PROVE HandlersOK'
  <2> PICK c : c = CheckpointOf(bookEpoch, n)
    OBVIOUS
  <2>1. bookEpoch \in Epochs /\ n \in Nat /\ n < nextSequence
    BY <1>0, <1>6 DEF ReadCheckpoint, InEpoch, TablesOK, StoreTypeOK
  <2>2. c \in Checkpoint
    BY <1>0, <2>1, CheckpointFact
  <2>3. Final(c)
    BY <2>1 DEF Final, CheckpointOf
  <2>4. c.throughSequence \in Nat
    BY <2>1 DEF CheckpointOf
  <2>5. verifying' = verifying \cup {c} /\ refused' = refused
    BY <1>6 DEF ReadCheckpoint
  <2>6. Final(c)'
    BY <1>0, <2>3, <2>4, FinalForGood
  <2> QED BY <1>0, <1>1, <2>2, <2>5, <2>6 DEF HandlersOK, Final
<1>7. ASSUME NEW c \in verifying, FinishVerify(c) PROVE HandlersOK'
  BY <1>2, <1>7 DEF FinishVerify
<1>8. CASE Crash
  BY <1>2, <1>8 DEF Crash
<1> QED BY <1>3, <1>4, <1>5, <1>6, <1>7, <1>8 DEF Next, Step

LEMMA CoreCorrect == Spec => []Core
<1>1. Core /\ [Next]_vars => Core'
  BY StepTransacts, TablesStep, HandlersStep DEF Core
<1> QED BY <1>1, InitCore, PTL DEF Spec

\* Handlers that roll back, record evidence late, hold a hash they read or
\* disappear in a crash change the tables by whole transactions only.
THEOREM TransactionsOnly == Spec => TableSpec
<1>1. Init => StoreInit
  BY DEF Init
<1> QED BY <1>1, StepTransacts, CoreCorrect, PTL DEF Spec, TableSpec

\* Every reachable state is well typed, for every number of devices,
\* operations and epochs.
THEOREM TypeCorrect == Spec => []TypeOK
<1>1. Core => TypeOK
  BY DEF Core, TablesOK, HandlersOK, TypeOK
<1> QED BY <1>1, CoreCorrect, PTL

\* Canonical order is total and gapless across epochs, whatever the bounds.
THEOREM CanonicalOrder == Spec => []Sequenced
BY TransactionsOnly, TableSequenced, PTL

\* However often an operation is submitted, an epoch holds it once, and no
\* device sequence is spent twice.
THEOREM NoDuplicates == Spec => []ExactlyOnce
BY TransactionsOnly, TableExactlyOnce, PTL

\* Nothing stamped with a superseded epoch enters the log after the advance.
THEOREM EpochsFenceTheLog == Spec => []EpochFence
BY TransactionsOnly, TableEpochFence, PTL

\* Replaying the log in order never meets an operation before its dependencies.
THEOREM DependenciesFirst == Spec => []DependenciesPrecede
BY TransactionsOnly, TableDependencies, PTL

\* No lost update: in an epoch the events of every aggregate form one chain,
\* and an event that names a base names the link just before it.
THEOREM NoLostUpdate == Spec => []RevisionChain
BY TransactionsOnly, TableRevisionChain, PTL

\* A checkpoint a device holds stays the hash of the canonical prefix, however
\* its reading and its writing are interleaved with other transactions.
THEOREM CheckpointsHold == Spec => []CheckpointsStable
BY TransactionsOnly, TableCheckpoints, PTL

\* A device that installs any snapshot and counts the later events of an
\* aggregate holds the revision the server compares its next edit with.
THEOREM SnapshotsCountRevisions == Spec => []SnapshotRevisions
BY TransactionsOnly, TableSnapshots, PTL

\* A refused operation never has two open conflicts for one reason, though the
\* store and the handler both record what they hold, in any order.
THEOREM OneConflictPerRefusal == Spec => []OneOpenConflict
BY TransactionsOnly, TableOneConflict, PTL

\* A conflict decided by a correction or a merge is answered by a later event
\* on the same aggregate, though the log goes on growing between the two.
THEOREM DecisionsAudited == Spec => []AuditedResolution
BY TransactionsOnly, TableDecisions, PTL

\* History only grows at its end, epochs only move forward, and a decision is
\* final, whichever two handlers run one after the other.
THEOREM HistoryAppendOnly == Spec => AppendOnlyHistory
BY TransactionsOnly, TableAppendOnly, PTL

-----------------------------------------------------------------------------
(* The store implements the canonical log *)

\* The log and the eras the tables represent.
TableLog == [n \in 1 .. nextSequence - 1 |-> EventAt(n).op]

EraCount == IF bookEpoch = NoEpoch THEN 0 ELSE epochs[bookEpoch].number

TableEras == [n \in 1 .. EraCount |-> EpochAt(n)]

StoreInv == TablesOK /\ LogExact /\ EpochChain /\ ExactlyOnce

LEMMA StoreInvCorrect == Spec => []StoreInv
BY TransactionsOnly, TablesCorrect, LogExactCorrect, EpochChainCorrect, TableExactlyOnce, PTL DEF StoreInv

\* Entry n of the log is the event numbered n.
LEMMA EventAtFact ==
  ASSUME StoreInv
  PROVE  /\ nextSequence \in Nat \ {0}
         /\ \A n \in 1 .. nextSequence - 1 : EventAt(n) \in events /\ EventAt(n).bookSequence = n
         /\ \A x \in events : x.bookSequence \in 1 .. nextSequence - 1 /\ EventAt(x.bookSequence) = x
         /\ \A x \in events : x \in Event /\ x.op \in Operation
<1>1. nextSequence \in Nat \ {0} /\ events \subseteq Event /\ Sequenced
  BY DEF StoreInv, TablesOK, StoreTypeOK, LogExact
<1>2. ASSUME NEW n \in 1 .. nextSequence - 1 PROVE EventAt(n) \in events /\ EventAt(n).bookSequence = n
  <2>1. \E x \in events : x.bookSequence = n
    BY <1>1 DEF Sequenced
  <2> QED BY <2>1 DEF EventAt
<1>3. \A x \in events : x \in Event /\ x.op \in Operation /\ x.bookSequence \in Nat \ {0}
  BY <1>1 DEF Event
<1>4. ASSUME NEW x \in events
      PROVE  x.bookSequence \in 1 .. nextSequence - 1 /\ EventAt(x.bookSequence) = x
  <2>1. x.bookSequence \in 1 .. nextSequence - 1
    BY <1>1, <1>3 DEF Sequenced
  <2>2. EventAt(x.bookSequence) \in events /\ EventAt(x.bookSequence).bookSequence = x.bookSequence
    BY <1>2, <2>1
  <2> QED BY <1>1, <2>1, <2>2 DEF Sequenced
<1> QED BY <1>1, <1>2, <1>3, <1>4

\* The log holds the operations of the events, each at its number.
LogOfEvents ==
  /\ TableLog \in Seq(Operation) /\ Len(TableLog) = nextSequence - 1
  /\ DOMAIN TableLog = 1 .. nextSequence - 1
  /\ \A i \in DOMAIN TableLog : \E x \in events : TableLog[i] = x.op /\ x.bookSequence = i
  /\ \A x \in events : x.bookSequence \in DOMAIN TableLog /\ TableLog[x.bookSequence] = x.op

LEMMA TableLogFact == StoreInv => LogOfEvents
<1> SUFFICES ASSUME StoreInv PROVE LogOfEvents
  OBVIOUS
<1>1. /\ nextSequence - 1 \in Nat
      /\ \A n \in 1 .. nextSequence - 1 : EventAt(n) \in events /\ EventAt(n).bookSequence = n
                                          /\ EventAt(n).op \in Operation
      /\ \A x \in events : x.bookSequence \in 1 .. nextSequence - 1 /\ EventAt(x.bookSequence) = x
  BY EventAtFact
<1>2. TableLog \in [1 .. nextSequence - 1 -> Operation]
  BY <1>1 DEF TableLog
<1>3. TableLog \in Seq(Operation) /\ Len(TableLog) = nextSequence - 1
  BY <1>1, <1>2
<1> QED BY <1>1, <1>2, <1>3 DEF LogOfEvents, TableLog

\* Changes of an aggregate, counted in the log or in the table.
LEMMA TableRevision ==
  ASSUME StoreInv, NEW e, NEW a
  PROVE  Cardinality({i \in DOMAIN TableLog : TableLog[i].bookEpoch = e /\ TableLog[i].aggregateId = a})
           = Cardinality(EventsOf(e, a))
<1> DEFINE I == {i \in DOMAIN TableLog : TableLog[i].bookEpoch = e /\ TableLog[i].aggregateId = a}
           E == EventsOf(e, a)
           f == [x \in E |-> x.bookSequence]
<1>1. IsFiniteSet(E)
  <2>1. E \subseteq events /\ IsFiniteSet(events)
    BY DEF EventsOf, StoreInv, LogExact, RevisionsCount
  <2> QED BY <2>1, FS_Subset
<1>2. f \in [E -> I]
  BY TableLogFact DEF EventsOf, LogOfEvents
<1>3. \A x, y \in E : f[x] = f[y] => x = y
  BY DEF EventsOf, StoreInv, LogExact, Sequenced
<1>4. \A i \in I : \E x \in E : f[x] = i
  BY TableLogFact DEF EventsOf, LogOfEvents
<1>5. ExistsBijection(E, I)
  <2> HIDE DEF I, E, f
  <2>1. f \in Injection(E, I) /\ f \in Surjection(E, I)
    BY <1>2, <1>3, <1>4 DEF Injection, IsInjective, Surjection
  <2> QED BY <2>1 DEF ExistsBijection, Bijection
<1> HIDE DEF I, E
<1> QED BY <1>1, <1>5, FS_Bijection DEF I, E

\* The eras are the epochs opened so far, each at its number.
ErasOfEpochs ==
  /\ EraCount \in Nat /\ (EraCount = 0 <=> bookEpoch = NoEpoch)
  /\ TableEras \in Seq(Epochs) /\ Len(TableEras) = EraCount
  /\ \A n \in 1 .. EraCount : TableEras[n] \in Epochs /\ epochs[TableEras[n]].number = n
  /\ bookEpoch # NoEpoch => TableEras[EraCount] = bookEpoch

LEMMA TableErasFact == StoreInv => ErasOfEpochs
<1> SUFFICES ASSUME StoreInv PROVE ErasOfEpochs
  OBVIOUS
<1> DEFINE k == EraCount
<1>1. /\ bookEpoch \in Epochs \cup {NoEpoch} /\ epochs \in [Epochs -> EpochRow]
      /\ bookEpoch # NoEpoch => epochs[bookEpoch].number > 0
  BY DEF StoreInv, TablesOK, EpochsInv, StoreTypeOK
<1>2. k \in Nat /\ (k = 0 <=> bookEpoch = NoEpoch)
  BY <1>1 DEF EraCount, EpochRow
<1>3. ASSUME NEW n \in 1 .. k PROVE EpochAt(n) \in Epochs /\ epochs[EpochAt(n)].number = n
  <2>1. bookEpoch # NoEpoch
    BY <1>2, <1>3
  <2>2. \E e \in Epochs : epochs[e].number = n
    BY <1>3, <2>1 DEF StoreInv, EpochChain, EraCount
  <2> QED BY <2>2 DEF EpochAt
<1>4. TableEras = [n \in 1 .. k |-> EpochAt(n)]
  BY DEF TableEras
<1> HIDE DEF k
<1>5. TableEras \in [1 .. k -> Epochs]
  BY <1>3, <1>4
<1>6. TableEras \in Seq(Epochs) /\ Len(TableEras) = k
  BY <1>2, <1>5
<1>7. bookEpoch # NoEpoch => TableEras[k] = bookEpoch
  <2> SUFFICES ASSUME bookEpoch # NoEpoch PROVE TableEras[k] = bookEpoch
    OBVIOUS
  <2>1. k \in 1 .. k /\ k = epochs[bookEpoch].number /\ k # 0
    BY <1>1, <1>2 DEF k, EraCount
  <2>2. EpochAt(k) \in Epochs /\ epochs[EpochAt(k)].number = epochs[bookEpoch].number
    BY <1>3, <2>1
  <2> QED BY <1>1, <1>4, <2>1, <2>2 DEF StoreInv, EpochChain
<1> QED BY <1>2, <1>3, <1>4, <1>6, <1>7 DEF k, ErasOfEpochs

-----------------------------------------------------------------------------
(* The steps of the store as steps of the log *)

LEMMA TableStutter ==
  ASSUME UNCHANGED logVars PROVE UNCHANGED <<TableLog, TableEras>>
BY DEF logVars, TableLog, TableEras, EraCount, EventAt, EpochAt

LEMMA InsertWrites ==
  ASSUME StoreInv, StoreInv', NEW op \in Operations, NEW v \in Verdicts[op], Insert(op, v)
  PROVE  Log!Write(op)
<1> DEFINE new == [op |-> op, bookSequence |-> nextSequence,
                   aggregateRevision |-> CurrentRevision(op.aggregateId) + 1]
<1>1. /\ events' = events \cup {new} /\ new.op = op /\ new.bookSequence = nextSequence
      /\ bookEpoch \in Epochs /\ op.bookEpoch = bookEpoch /\ Existing(op) = {}
      /\ nextSequence \in Nat /\ nextSequence' = nextSequence + 1
      /\ UNCHANGED <<bookEpoch, epochs>>
  BY OperationsAssumption, VerdictsAssumption, InsertedEvent DEF StoreInv
<1>2. op \in Operation /\ nextSequence \in Nat \ {0} /\ bookEpoch # NoEpoch
  BY <1>1, EventAtFact, OperationsAssumption, NullAssumption
<1> HIDE DEF new
<1>3. TableEras' = TableEras
  BY <1>1 DEF TableEras, EraCount, EpochAt
<1>4. TableEras # <<>> /\ op.bookEpoch = TableEras[Len(TableEras)]
  BY <1>1, <1>2, TableErasFact DEF ErasOfEpochs
<1> LogOfEvents /\ LogOfEvents'
  BY TableLogFact, PTL
<1>5. TableLog' = Append(TableLog, op)
  <2>1. /\ TableLog \in Seq(Operation) /\ Len(TableLog) = nextSequence - 1
        /\ TableLog' \in Seq(Operation) /\ Len(TableLog') = nextSequence
        /\ \A x \in events : TableLog[x.bookSequence] = x.op
        /\ \A x \in events' : TableLog'[x.bookSequence] = x.op
        /\ \A i \in 1 .. nextSequence - 1 : \E x \in events : x.bookSequence = i
    BY <1>1, <1>2 DEF LogOfEvents, StoreInv, LogExact, Sequenced
  <2>2. \A i \in 1 .. nextSequence - 1 : TableLog'[i] = TableLog[i]
    BY <1>1, <2>1
  <2>3. TableLog'[nextSequence] = op
    BY <1>1, <2>1
  <2>4. /\ Append(TableLog, op) \in Seq(Operation) /\ Len(Append(TableLog, op)) = nextSequence
        /\ \A i \in 1 .. nextSequence :
             Append(TableLog, op)[i] = IF i = nextSequence THEN op ELSE TableLog[i]
    BY <1>2, <2>1
  <2>5. \A i \in 1 .. nextSequence : TableLog'[i] = Append(TableLog, op)[i]
    BY <1>2, <2>2, <2>3, <2>4
  <2> QED BY <2>1, <2>4, <2>5, SeqEqual
<1>6. /\ Refusal(op, v) = "" /\ v # ""
  BY VerdictsAssumption DEF Insert, Verdict, ArbitrationReasons
<1>7. DependenciesPresent(op) /\ SameDeviceSequence(op) = {} /\ RevisionMatches(op)
  BY <1>1, <1>6 DEF Refusal
<1>8. ASSUME NEW w \in Log!Written(op.bookEpoch)
      PROVE  /\ w.opId # op.opId
             /\ w.deviceId = op.deviceId => w.deviceSequence # op.deviceSequence
  <2>1. PICK i \in DOMAIN TableLog : TableLog[i].bookEpoch = op.bookEpoch /\ w = TableLog[i]
    BY DEF Log!Written, TableLog
  <2>2. PICK x \in events : x.op = w
    BY <2>1 DEF LogOfEvents
  <2> QED BY <1>1, <1>7, <2>1, <2>2 DEF Existing, SameDeviceSequence
<1>9. ASSUME NEW d \in op.dependencies PROVE \E w \in Log!Written(op.bookEpoch) : w.opId = d
  <2>1. PICK x \in events : x.op.bookEpoch = op.bookEpoch /\ x.op.opId = d
    BY <1>7 DEF DependenciesPresent
  <2>2. x.bookSequence \in DOMAIN TableLog /\ TableLog[x.bookSequence] = x.op
    BY DEF LogOfEvents
  <2>3. x.op \in Log!Written(op.bookEpoch)
    BY <2>1, <2>2 DEF Log!Written, TableLog
  <2> QED BY <2>1, <2>3
<1>10. op.baseRevision \in {NoRevision, Log!Revision(op.bookEpoch, op.aggregateId)}
  <2>1. Log!Revision(op.bookEpoch, op.aggregateId) = Cardinality(EventsOf(bookEpoch, op.aggregateId))
    <3>1. Log!Revision(op.bookEpoch, op.aggregateId) =
            Cardinality({i \in DOMAIN TableLog : /\ TableLog[i].bookEpoch = op.bookEpoch
                                                 /\ TableLog[i].aggregateId = op.aggregateId})
      BY DEF Log!Revision, Log!Cardinality, Cardinality, TableLog
    <3> QED BY <1>1, <3>1, TableRevision
  <2>2. op.aggregateId \in Aggregates
    BY <1>2 DEF Operation
  <2>3. CurrentRevision(op.aggregateId) = Cardinality(EventsOf(bookEpoch, op.aggregateId))
    BY <1>1, <2>2 DEF CurrentRevision, StoreInv, LogExact, RevisionsCount
  <2> QED BY <1>7, <2>1, <2>3 DEF RevisionMatches
<1> QED BY <1>3, <1>4, <1>5, <1>8, <1>9, <1>10 DEF Log!Write, TableLog, TableEras, EraCount

LEMMA EraOpens ==
  ASSUME StoreInv, StoreInv', NEW f \in Epochs, events' = events, nextSequence' = nextSequence,
         bookEpoch' = f, epochs[f].number = 0,
         \A e \in Epochs \ {f} : epochs'[e].number = epochs[e].number,
         epochs'[f].number = EraCount + 1
  PROVE  Log!OpenEra(f)
<1> DEFINE k == EraCount
<1> ErasOfEpochs /\ ErasOfEpochs'
  BY TableErasFact, PTL
<1>1. /\ k \in Nat /\ TableEras \in Seq(Epochs) /\ Len(TableEras) = k
      /\ \A n \in 1 .. k : TableEras[n] \in Epochs /\ epochs[TableEras[n]].number = n
  BY DEF ErasOfEpochs
<1>2. f # NoEpoch /\ EraCount' = k + 1
  BY NullAssumption DEF EraCount
<1>3. /\ TableEras' \in Seq(Epochs) /\ Len(TableEras') = k + 1
      /\ \A n \in 1 .. k + 1 : TableEras'[n] \in Epochs /\ epochs'[TableEras'[n]].number = n
      /\ TableEras'[k + 1] = f
  BY <1>2 DEF ErasOfEpochs
<1> HIDE DEF k
<1>4. \A n \in 1 .. k : TableEras[n] # f
  BY <1>1
<1>5. ASSUME NEW n \in 1 .. k PROVE TableEras'[n] = TableEras[n]
  <2>1. /\ TableEras'[n] \in Epochs /\ epochs'[TableEras'[n]].number = n
        /\ TableEras[n] \in Epochs /\ epochs'[TableEras[n]].number = n
    BY <1>1, <1>3, <1>4
  <2> QED BY <1>1, <2>1 DEF StoreInv, EpochChain
<1>6. TableEras' = Append(TableEras, f)
  <2>1. /\ Append(TableEras, f) \in Seq(Epochs) /\ Len(Append(TableEras, f)) = k + 1
        /\ \A i \in 1 .. k + 1 : Append(TableEras, f)[i] = IF i = k + 1 THEN f ELSE TableEras[i]
    BY <1>1
  <2>2. \A i \in 1 .. k + 1 : TableEras'[i] = Append(TableEras, f)[i]
    BY <1>1, <1>3, <1>5, <2>1
  <2> QED BY <1>1, <1>3, <2>1, <2>2, SeqEqual
<1>7. TableLog' = TableLog
  BY DEF TableLog, EventAt
<1>8. \A i \in DOMAIN TableEras : TableEras[i] # f
  BY <1>1, <1>4
<1> QED BY <1>6, <1>7, <1>8 DEF Log!OpenEra, TableLog, TableEras, EraCount

LEMMA StoreKinds ==
  ASSUME [Next]_vars
  PROVE  \/ \E e \in Epochs : CreateBook(e)
         \/ \E op \in Operations : \E v \in Verdicts[op] : Insert(op, v)
         \/ \E e, f \in Epochs : AdvanceEpoch(e, f)
         \/ UNCHANGED logVars
<1>1. CASE UNCHANGED storeVars
  BY <1>1 DEF storeVars, logVars
<1>2. CASE Transaction
  BY <1>1, <1>2 DEF Transaction, Accept, Deduplicate, Pull, SaveSnapshot, KeepCanonical, ResolveWith, logVars
<1>3. CASE \E op \in Operations : \E v \in Verdicts[op] : Rollback(op, v)
  BY <1>1, <1>3 DEF Rollback
<1>4. CASE \E h \in refused : StoreRecords(h) \/ HandlerRecords(h)
  BY <1>4 DEF StoreRecords, HandlerRecords, RecordConflict, logVars
<1>5. CASE (\E n \in 0 .. nextSequence : ReadCheckpoint(n)) \/ Crash \/ UNCHANGED vars
  BY <1>1, <1>5 DEF ReadCheckpoint, Crash, vars
<1>6. CASE \E c \in verifying : FinishVerify(c)
  BY <1>6 DEF FinishVerify, WriteCheckpoint, logVars
<1> QED BY <1>2, <1>3, <1>4, <1>5, <1>6 DEF Next, Step

LEMMA StoreStep ==
  ASSUME StoreInv, StoreInv', [Next]_vars
  PROVE  [Log!Next]_<<TableLog, TableEras>>
<1>1. CASE UNCHANGED logVars
  BY <1>1, TableStutter
<1>2. ASSUME NEW op \in Operations, NEW v \in Verdicts[op], Insert(op, v) PROVE Log!Next
  BY <1>2, InsertWrites DEF Log!Next
<1>3. ASSUME NEW e \in Epochs, CreateBook(e) PROVE Log!Next
  <2>1. /\ bookEpoch = NoEpoch /\ bookEpoch' = e /\ events' = events /\ nextSequence' = nextSequence
        /\ epochs'[e].number = 1 /\ \A g \in Epochs \ {e} : epochs'[g].number = epochs[g].number
    BY <1>3 DEF CreateBook, StoreInv, TablesOK, StoreTypeOK
  <2>2. epochs[e].number = 0
    BY <2>1 DEF StoreInv, EpochChain
  <2>3. Log!OpenEra(e)
    BY <2>1, <2>2, EraOpens DEF EraCount
  <2> QED BY <2>3 DEF Log!Next
<1>4. ASSUME NEW e \in Epochs, NEW f \in Epochs, AdvanceEpoch(e, f) PROVE Log!Next
  <2>1. /\ bookEpoch \in Epochs /\ bookEpoch # NoEpoch /\ epochs \in [Epochs -> EpochRow]
        /\ bookEpoch' = f /\ events' = events /\ nextSequence' = nextSequence
        /\ epochs[f].number = 0 /\ epochs[bookEpoch].number > 0
    BY <1>4, NullAssumption
       DEF AdvanceEpoch, Unused, StoreInv, TablesOK, EpochsInv, StoreTypeOK
  <2>2. /\ epochs'[f].number = epochs[bookEpoch].number + 1
        /\ \A g \in Epochs \ {f} : epochs'[g].number = epochs[g].number
    BY <1>4, <2>1 DEF AdvanceEpoch, EpochRow
  <2>3. Log!OpenEra(f)
    BY <2>1, <2>2, EraOpens DEF EraCount
  <2> QED BY <2>3 DEF Log!Next
<1> QED BY <1>1, <1>2, <1>3, <1>4, StoreKinds

\* The store implements the canonical log its devices rely on: for any number
\* of devices, operations and epochs, and whatever runs at the same time.
THEOREM StoreImplementsLog == Spec => ImplementsLog
<1>1. Init => Log!Init
  <2> SUFFICES ASSUME Init PROVE Log!Init
    OBVIOUS
  <2>1. nextSequence - 1 = 0 /\ bookEpoch = NoEpoch
    BY DEF Init, StoreInit
  <2>2. 1 .. nextSequence - 1 = {}
    BY <2>1
  <2>3. TableLog = <<>> /\ TableEras = <<>>
    BY <2>1, <2>2 DEF TableLog, TableEras, EraCount
  <2> QED BY <2>3 DEF Log!Init, TableLog, TableEras, EraCount
<1>2. StoreInv /\ StoreInv' /\ [Next]_vars => [Log!Next]_<<TableLog, TableEras>>
  BY StoreStep
<1>3. Spec => Log!Init /\ [][Log!Next]_<<TableLog, TableEras>>
  BY <1>1, <1>2, StoreInvCorrect, PTL DEF Spec
<1> QED BY <1>3, PTL DEF ImplementsLog, Log!Spec, TableLog, TableEras, EraCount
=============================================================================
