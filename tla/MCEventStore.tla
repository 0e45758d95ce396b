---------------------------- MODULE MCEventStore ----------------------------
(***************************************************************************)
(* EventStore on a small book: two epochs, two devices, two aggregates and *)
(* the operations that meet in every way append tells apart.               *)
(***************************************************************************)
EXTENDS EventStore

CONSTANTS e1, e2, d1, d2, x, y, p1, p2, o1, o2, o3, o4, o5

Op(id, e, d, n, a, base, deps, p) ==
  [opId |-> id, bookEpoch |-> e, deviceId |-> d, deviceSequence |-> n, aggregateId |-> a,
   baseRevision |-> base, dependencies |-> deps, payload |-> p]

MCOperations == {
  Op(o1, e1, d1, 1, x, 0, {}, p1),              \* device 1 creates x
  Op(o1, e1, d1, 1, x, 0, {}, p2),              \* the same opId, another payload
  Op(o2, e1, d2, 1, x, 1, {}, p1),              \* device 2 edits x after o1
  Op(o3, e1, d1, 2, x, 1, {}, p1),              \* device 1 edits x concurrently
  Op(o4, e1, d2, 1, x, NoRevision, {o1}, p1),   \* corrects o1; its sequence is used by o2
  Op(o5, e2, d1, 3, x, 0, {}, p1),              \* the next epoch counts revisions anew
  Op(o2, e2, d2, 2, y, NoRevision, {o1}, p1)    \* depends on the superseded epoch
}

\* The arbitrator may refuse one of the two concurrent edits.
MCVerdicts ==
  [op \in MCOperations |-> IF op.opId = o3 THEN {"ok", "DOMAIN_CONFLICT"} ELSE {"ok"}]

\* The epochs are interchangeable: e1 comes first.
FirstEpoch == epochs[e2].number # 1

\* Conflicts, and snapshots and checkpoints, are explored apart: none of their
\* transactions reads the tables of the other.
OneConcern ==
  \/ conflicts = <<>> /\ refused = {}
  \/ checkpoints = {} /\ verifying = {} /\ snapshots = <<>>
=============================================================================
