SPECIFICATION Spec
CONSTANTS
  e1 = e1
  e2 = e2
  d1 = d1
  d2 = d2
  x = x
  y = y
  Epochs = {e1, e2}
  OpIds = {1}
  Devices = {d1, d2}
  Aggregates = {x, y}
  Payloads = {"edit", "correction"}
  Projections <- MCProjections
  NoEpoch = NoEpoch
  NoRevision = NoRevision
  NoHash = NoHash
  NoOp = 0
  PullLimit = 1
  PushLimit = 2
  Exclusive = {x}
  Scenarios <- Replacing
  Verdicts = {"ok"}
INVARIANT BootstrapPublishes
CHECK_DEADLOCK FALSE
