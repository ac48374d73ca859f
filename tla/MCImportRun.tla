----------------------------- MODULE MCImportRun -----------------------------
(* Small instances of ImportRun for TLC. *)
EXTENDS ImportRunLifecycle, TLC

CONSTANTS w1, w2, client

TwoWorkers == {w1, w2}
Symmetry   == Permutations(TwoWorkers)

Faults(crash, overrun, loss, dead, repeat) ==
    [k \in FaultKinds |-> CASE k = "crash"   -> crash
                            [] k = "overrun" -> overrun
                            [] k = "loss"    -> loss
                            [] k = "dead"    -> dead
                            [] k = "repeat"  -> repeat]

NoFaults    == Faults(0, 0, 0, 0, 0)
Healthy     == Faults(1, 0, 1, 0, 0)
AllFaults   == Faults(1, 1, 0, 1, 1)

Anytime     == Statuses \ {"QUEUED", "PROCESSING", "PROCESSED"}
AfterReview == {"PREPROCESSED", "FAILED"}

(* What a step may still read: a worker's copy of the row matters only     *)
(* until its scope is discarded, its cancel event only while it stages,    *)
(* and nothing of the first run reads the history of rejections.           *)
Copy(w) ==
    CASE pc[w] \in Synced -> <<baseStatus[w], baseCount[w], leaseMoved[w],
                              doneMoved[w]>>
      [] pc[w] \in {"batch", "stage"} -> <<baseCount[w], cancelEvent[w]>>
      [] OTHER -> <<>>

View == <<row, cand, source, msgs, faults, flow, heartbeat,
          [w \in Workers |-> Copy(w)], Copy(Client)>>
=============================================================================
