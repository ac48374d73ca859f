---------------------------- MODULE MCDeletionJob ----------------------------
(* Small instances of DeletionJob for TLC. *)
EXTENDS DeletionJob

CONSTANTS w1, w2

TwoWorkers == {w1, w2}

\* One fault of each kind, and two errors.
EachFault == [k \in FaultKinds |-> IF k = "fail" THEN 2 ELSE 1]
OnlyPromote == [k \in FaultKinds |-> IF k = "promote" THEN 1 ELSE 0]
=============================================================================
