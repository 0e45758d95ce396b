------------------------------ MODULE EventStore ----------------------------
(***************************************************************************)
(* The event store on its own.  The clients are a set of operations they   *)
(* may submit in any order, any number of times, and the HTTP handlers     *)
(* make every other call at any moment.  A handler is explicit where it    *)
(* holds something between two statements: the evidence of a rolled back   *)
(* append, which is recorded by append (postgres.ts:312) and again by the  *)
(* push handler (server.ts:431, 441), and the hash verifyCheckpoint read.  *)
(***************************************************************************)
EXTENDS EventTables

CONSTANTS
  Operations,    \* the operations clients may submit
  Verdicts,      \* what the arbitrator may say of each, when it is new
  MaxRefused,    \* bound: handlers holding evidence at once
  MaxVerifying,  \* bound: handlers holding a checkpoint at once
  MaxConflicts, MaxCheckpoints, MaxSnapshots   \* bounds: rows of each table

ASSUME OperationsAssumption == Operations \subseteq Operation
ASSUME VerdictsAssumption == Verdicts \in [Operations -> SUBSET Verdict]
ASSUME BoundsAssumption ==
  {MaxRefused, MaxVerifying, MaxConflicts, MaxCheckpoints, MaxSnapshots} \subseteq Nat

VARIABLES
  refused,       \* evidence of rolled back appends; recorded: by append already
  verifying      \* checkpoints read and not yet written

vars == <<storeVars, refused, verifying>>

Held == [evidence: Evidence, recorded: BOOLEAN]

TypeOK ==
  /\ StoreTypeOK
  /\ refused \subseteq Held
  /\ verifying \subseteq Checkpoint

Init == StoreInit /\ refused = {} /\ verifying = {}

Transaction ==
  \/ \E e \in Epochs : CreateBook(e)
  \/ \E op \in Operations : \E v \in Verdicts[op] : Accept(op, v)
  \/ \E n \in 0 .. nextSequence : Pull(n)
  \/ \E e, f \in Epochs : AdvanceEpoch(e, f)
  \/ \E c \in checkpoints, p \in Projections :
       SaveSnapshot(c.bookEpoch, c.throughSequence, p, c.eventHash)
  \/ \E i \in DOMAIN conflicts : KeepCanonical(i) \/ \E x \in events : ResolveWith(i, x)

Rollback(op, verdict) ==
  /\ bookEpoch # NoEpoch
  /\ Refusal(op, verdict) # ""
  /\ Cardinality(refused) < MaxRefused
  /\ refused' = refused \cup {[evidence |-> EvidenceOf(op, verdict), recorded |-> FALSE]}
  /\ UNCHANGED <<storeVars, verifying>>

StoreRecords(h) ==
  /\ ~h.recorded /\ h.evidence.reason \in StoreReasons
  /\ RecordConflict(h.evidence)
  /\ refused' = (refused \ {h}) \cup {[h EXCEPT !.recorded = TRUE]}
  /\ UNCHANGED verifying

HandlerRecords(h) ==
  /\ h.recorded \/ h.evidence.reason \in ArbitrationReasons
  /\ RecordConflict(h.evidence)
  /\ refused' = refused \ {h}
  /\ UNCHANGED verifying

\* Its two reads are one step: once the first finds n in the epoch, no event at or
\* below n is to come.
ReadCheckpoint(n) ==
  /\ bookEpoch # NoEpoch
  /\ InEpoch(n)
  /\ Cardinality(verifying) < MaxVerifying
  /\ verifying' = verifying \cup {CheckpointOf(bookEpoch, n)}
  /\ UNCHANGED <<storeVars, refused>>

FinishVerify(c) ==
  /\ WriteCheckpoint(c)
  /\ verifying' = verifying \ {c}
  /\ UNCHANGED refused

\* The server process stops: transactions are whole, what handlers held is gone.
Crash ==
  /\ refused' = {}
  /\ verifying' = {}
  /\ UNCHANGED storeVars

WithinBounds ==
  /\ Len(conflicts) <= MaxConflicts
  /\ Cardinality(checkpoints) <= MaxCheckpoints
  /\ Len(snapshots) <= MaxSnapshots

Step ==
  \/ Transaction /\ UNCHANGED <<refused, verifying>>
  \/ \E op \in Operations : \E v \in Verdicts[op] : Rollback(op, v)
  \/ \E h \in refused : StoreRecords(h) \/ HandlerRecords(h)
  \/ \E n \in 0 .. nextSequence : ReadCheckpoint(n)
  \/ \E c \in verifying : FinishVerify(c)
  \/ Crash

Next == Step /\ WithinBounds'

Spec == Init /\ [][Next]_vars

-----------------------------------------------------------------------------
(* The canonical log the tables represent: entry n of the log is the event *)
(* numbered n, and era n is the epoch whose row has epoch_number n.        *)

EventAt(n) == CHOOSE x \in events : x.bookSequence = n

EpochAt(n) == CHOOSE e \in Epochs : epochs[e].number = n

Log == INSTANCE CanonicalLog WITH
         Operation <- Operations,
         log <- [n \in 1 .. nextSequence - 1 |-> EventAt(n).op],
         eras <- [n \in 1 .. (IF bookEpoch = NoEpoch THEN 0 ELSE epochs[bookEpoch].number) |->
                    EpochAt(n)]

\* The store implements the log: whatever the interleaving of handlers, every
\* transaction opens an era, writes one operation the log may write, or
\* changes nothing the devices can see.
ImplementsLog == Log!Spec
=============================================================================
