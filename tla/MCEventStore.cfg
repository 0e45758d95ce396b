SPECIFICATION Spec
CONSTANTS
  e1 = e1
  e2 = e2
  d1 = d1
  d2 = d2
  x = x
  y = y
  p1 = p1
  p2 = p2
  o1 = o1
  o2 = o2
  o3 = o3
  o4 = o4
  o5 = o5
  Epochs = {e1, e2}
  OpIds = {o1, o2, o3, o4, o5}
  Devices = {d1, d2}
  Aggregates = {x, y}
  Payloads = {p1, p2}
  Projections = {p1, p2}
  NoEpoch = NoEpoch
  NoRevision = NoRevision
  NoOp = NoOp
  PullLimit = 2
  Operations <- MCOperations
  Verdicts <- MCVerdicts
  MaxRefused = 1
  MaxVerifying = 1
  MaxConflicts = 2
  MaxCheckpoints = 3
  MaxSnapshots = 2
CONSTRAINTS
  FirstEpoch
  OneConcern
INVARIANTS
  TypeOK
  Sequenced
  ExactlyOnce
  RevisionChain
  EpochFence
  DependenciesPrecede
  AuditedResolution
  OneOpenConflict
  SnapshotRevisions
  CheckpointsStable
PROPERTIES
  AppendOnlyHistory
  ImplementsLog
CHECK_DEADLOCK FALSE
