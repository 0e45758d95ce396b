---------------------------- MODULE CanonicalLog ----------------------------
(***************************************************************************)
(* What the canonical store of a book promises its devices, with no table, *)
(* number or retry in sight: one log that only grows, in eras that follow  *)
(* each other and never come back.  Within an era an operation is written  *)
(* once, after the operations it depends on, and one that names a base     *)
(* revision is written only if nothing has changed its aggregate since.    *)
(***************************************************************************)
EXTENDS Naturals, FiniteSets, Sequences

CONSTANTS
  Operation,    \* what can be written
  Epochs,       \* names of eras
  NoRevision    \* the base of an operation that does not name one

VARIABLES
  log,          \* the operations written so far, in order
  eras          \* the eras so far; the last one is open

Init == log = <<>> /\ eras = <<>>

Written(e) == {log[i] : i \in {j \in DOMAIN log : log[j].bookEpoch = e}}

\* Changes of an aggregate in an era so far.
Revision(e, a) ==
  Cardinality({i \in DOMAIN log : log[i].bookEpoch = e /\ log[i].aggregateId = a})

OpenEra(e) ==
  /\ \A i \in DOMAIN eras : eras[i] # e
  /\ eras' = Append(eras, e)
  /\ UNCHANGED log

Write(op) ==
  /\ eras # <<>> /\ op.bookEpoch = eras[Len(eras)]
  /\ \A w \in Written(op.bookEpoch) :
       /\ w.opId # op.opId
       /\ w.deviceId = op.deviceId => w.deviceSequence # op.deviceSequence
  /\ \A d \in op.dependencies : \E w \in Written(op.bookEpoch) : w.opId = d
  /\ op.baseRevision \in {NoRevision, Revision(op.bookEpoch, op.aggregateId)}
  /\ log' = Append(log, op)
  /\ UNCHANGED eras

Next == (\E e \in Epochs : OpenEra(e)) \/ (\E op \in Operation : Write(op))

Spec == Init /\ [][Next]_<<log, eras>>
=============================================================================
