-------------------------- MODULE ImportRunLifecycle --------------------------
(***************************************************************************)
(* ImportRun seen by an administrator.                                     *)
(***************************************************************************)
EXTENDS ImportRun

\* What a status tells the administrator.
Meaning ==
    [s \in Statuses |->
       CASE s \in {"QUEUED", "PROCESSING"} -> "working"
         [] s = "CANCELLING"   -> "cancelling"
         [] s = "CANCELLED"    -> "cancelled"
         [] s = "PREPROCESSED" -> "offered"
         [] s = "FAILED"       -> "failed"
         [] s = "PROCESSED"    -> "finalized"]

Shown == {b \in Batches : cand[b] /= "absent"}

Life == INSTANCE ImportLifecycle
          WITH Records <- Batches, state <- Meaning[status],
               shown <- Shown, dropped <- rejected

(* While no worker outlives its lease, no delivery is dead-lettered and    *)
(* runs are finalized after review, the workers, leases and messages of an *)
(* import (src/geodata.py, src/geodata_import_worker.py) implement the     *)
(* simple life of ImportLifecycle.                                         *)
ImplementsLifecycle == Life!LifeSpec

===============================================================================
