---------------------------- MODULE MCDeviceSync ----------------------------
(***************************************************************************)
(* DeviceSync on small books: what the devices may do in each run, and a   *)
(* start in the middle of a book's life.                                   *)
(***************************************************************************)
EXTENDS DeviceSync

CONSTANTS e1, e2, d1, d2, x, y

MCProjections == SUBSET OpIds

Scenario(acts1, acts2, aggregate, n, failures) ==
  [acts |-> [d \in Devices |-> IF d = d1 THEN acts1 ELSE acts2], aggregates |-> {aggregate},
   operations |-> n, faults |-> failures]

\* Both devices edit and sync; the first also decides conflicts and recovers.
Deciding(n) ==
  Scenario({"mutate", "sync", "keep", "correct", "install"}, {"mutate", "sync"}, x, n, 0)

\* An answer is lost or a task killed; the first device retries by hand as well.
\* Concurrent commands on y can both be applied.
Retrying ==
  Scenario({"mutate", "sync", "retry", "keep", "install"}, {"mutate", "sync"}, y, 2, 1)

DecidingAndRetrying == [deciding |-> Deciding(3), retrying |-> Retrying]

\* From an empty server either device may found the book, replace its epoch or recover.
Founding(acts1, acts2) == Scenario(acts1, acts2, y, 1, 0)

\* Or one device works and the other follows it, clears its books, and recovers
\* or replaces the epoch; or so with a task or a clear cut off on the way.
FoundingOrFollowing ==
  LET acts == {"sync", "clear", "install", "advance"}
  IN [founding |-> Founding({"mutate", "sync", "enroll", "publish", "advance"},
                            {"sync", "enroll", "publish", "install"}),
      following |-> Scenario({"mutate", "sync"}, acts, y, 2, 0),
      interrupted |-> Scenario({"mutate", "sync"}, acts, y, 1, 1)]

\* A device clears its books, whatever task runs on it.
ClearingAnyTime ==
  [clearing |-> Scenario({"mutate", "sync", "clear", "enroll"}, {"sync"}, y, 1, 0)]

Editing == [editing |-> Scenario({"mutate", "sync"}, {"mutate", "sync"}, y, 2, 0)]

Clearing == [clearing |-> Scenario({"mutate", "sync", "clear", "install"},
                                   {"mutate", "sync", "clear", "install"}, y, 1, 1)]

Replacing ==
  [replacing |-> Founding({"mutate", "sync", "clear", "enroll", "publish", "advance"},
                          {"mutate", "sync", "enroll", "publish", "install"})]

\* The book after its first device enrolled, published its empty books, and the
\* others installed them.
WarmInit ==
  /\ bookEpoch = e1 /\ nextSequence = 1
  /\ epochs = [e \in Epochs |-> IF e = e1 THEN [number |-> 1, start |-> 1, end |-> 0] ELSE Unused]
  /\ events = {} /\ conflicts = <<>> /\ checkpoints = {CheckpointOf(e1, 0)}
  /\ snapshots = <<[bookEpoch |-> e1, throughSequence |-> 0, payload |-> {},
                    aggregateRevisions |-> [a \in Aggregates |-> 0]]>>
  /\ ops = <<>> /\ outbox = <<>>
  /\ db = [d \in Devices |-> [Fresh EXCEPT !.epoch = e1, !.stateEpoch = e1, !.checkpoint = {}]]
  /\ enrolled = [d \in Devices |-> e1]
  /\ task = [d \in Devices |-> Idle] /\ clearing = [d \in Devices |-> "no"]
  /\ orphans = {} /\ scenario \in DOMAIN Scenarios /\ faults = Now.faults

\* A book founded in the scenario starts from nothing, any other from there.
Founded == \E d \in Devices : May(d, "enroll")

StartOfBook ==
  \/ Init /\ Founded
  \/ WarmInit /\ ~Founded

MCSpec == StartOfBook /\ [][Next]_vars

WarmSpec == WarmInit /\ [][Next]_vars

FairMCSpec == MCSpec /\ Fairness
=============================================================================
