--------------------------- MODULE ImportRunProofs ---------------------------
(***************************************************************************)
(* What TLAPS proves of ImportRun, for every set of workers, every number  *)
(* of batches, every bound and every choice of finalizable statuses.       *)
(***************************************************************************)
EXTENDS ImportRun, TLAPS

USE DEF row, staged, flow, thread, base, vars

-----------------------------------------------------------------------------
(* A worker stages only records of its source: what TypeOK needs to be     *)
(* inductive (the batch counter moves on at a checkpoint).                 *)
StageInRange == \A w \in Workers : pc[w] = "stage" => batch[w] \in Batches

(* The client's request is under way only when one has been repeated.      *)
ClientIdle == pc[Client] = "idle" \/ ~NoFault("repeat")

TypeInv == TypeOK /\ StageInRange /\ ClientIdle

\* The phases by name, for proofs that split on a place in the handler.
LEMMA PhasesKnown ==
    Phases = {"download", "batch", "stage", "refresh", "complete",
              "commit", "failing", "failCommit", "cancelling", "idle",
              "received", "cleanup", "nak", "create", "persist"}
BY DEF Phases, Holding, Staging

(* Another writer's stamp makes flags of flags. *)
LEMMA StampType ==
    ASSUME NEW moved \in [Writers -> BOOLEAN]
    PROVE  Stamp(moved) \in [Writers -> BOOLEAN]
BY Zenon DEF Stamp

\* So does one flag of its own.
LEMMA WithFlag ==
    ASSUME NEW f \in [Writers -> BOOLEAN], NEW c, NEW flag \in BOOLEAN
    PROVE  [f EXCEPT ![c] = flag] \in [Writers -> BOOLEAN]
OBVIOUS

\* The client writes the run too, and is none of its workers.
LEMMA WritersKnown ==
    /\ Client \in Writers /\ Client \notin Workers
    /\ \A w \in Workers : w \in Writers
BY ClientAssumption DEF Writers

(* A fault is counted by a number. *)
LEMMA FaultType ==
    ASSUME NEW kind \in FaultKinds, faults \in [FaultKinds -> Nat], Fault(kind)
    PROVE  /\ faults' \in [FaultKinds -> Nat]
           /\ \A k \in FaultKinds : faults[k] /= 0 => faults'[k] /= 0
BY DEF Fault

\* A run that has just been created (_create_import_run) is well typed.
LEMMA InitTypeInv == Init => TypeInv
BY BatchesAssumption, PhasesKnown, WritersKnown
   DEF Init, TypeInv, ClientIdle, TypeOK, StageInRange, Batches, Statuses, Leases,
       Candidates, Sources, FaultKinds, Unloaded

(* What the three shared parts of the actions do to the types. *)
LEMMA GotoType ==
    ASSUME TypeOK, NEW w \in Writers, NEW phase \in Phases, Goto(w, phase)
    PROVE  /\ pc' \in [Writers -> Phases]
           /\ pc'[w] = phase
           /\ \A v \in Writers : v /= w => pc'[v] = pc[v]
BY DEF TypeOK, Goto

\* What a fresh read of the row leaves of the baseline of a worker.
LEMMA ReloadType ==
    ASSUME TypeOK, NEW w \in Writers, Reload(w)
    PROVE  /\ baseStatus' \in [Writers -> Statuses]
           /\ baseCount' \in [Writers -> 0 .. NumBatches + 1]
           /\ leaseMoved' \in [Writers -> BOOLEAN]
           /\ doneMoved' \in [Writers -> BOOLEAN]
<1>1. baseCount' \in [Writers -> 0 .. NumBatches + 1]
  BY BatchesAssumption DEF TypeOK, Reload
<1> QED
  BY <1>1 DEF TypeOK, Reload

\* What the end of a handler leaves: an idle worker with no message.
LEMMA AckedType ==
    ASSUME TypeInv, NEW w \in Workers, Acked(w)
    PROVE  /\ pc' \in [Writers -> Phases]
           /\ held' \in [Workers -> BOOLEAN]
           /\ batch' \in [Workers -> 1 .. NumBatches + 1]
           /\ window' \in [Workers -> {"unread", "absent", "present", "stale"}]
           /\ StageInRange'
           /\ pc'[Client] = pc[Client]
<1>1. /\ pc' \in [Writers -> Phases]
      /\ pc'[w] = "idle"
      /\ \A v \in Writers : v /= w => pc'[v] = pc[v]
  BY GotoType, PhasesKnown, WritersKnown DEF TypeInv, Acked
<1>2. held' \in [Workers -> BOOLEAN]
  BY DEF TypeInv, TypeOK, Acked
<1>3. batch' \in [Workers -> 1 .. NumBatches + 1]
  BY BatchesAssumption DEF TypeInv, TypeOK, Acked
<1>4. window' \in [Workers -> {"unread", "absent", "present", "stale"}]
  BY DEF TypeInv, TypeOK, Acked
<1>5. StageInRange'
  BY <1>1, WritersKnown DEF TypeInv, TypeOK, StageInRange, Acked
<1> QED
  BY <1>1, <1>2, <1>3, <1>4, <1>5, WritersKnown

\* What the end of the client's request leaves of its copy of the row.
LEMMA AnsweredType ==
    ASSUME TypeInv, NEW moved \in [Writers -> BOOLEAN], Answered(moved)
    PROVE  /\ pc' \in [Writers -> Phases]
           /\ pc'[Client] = "idle"
           /\ \A v \in Workers : pc'[v] = pc[v]
           /\ baseStatus' \in [Writers -> Statuses]
           /\ baseCount' \in [Writers -> 0 .. NumBatches + 1]
           /\ leaseMoved' \in [Writers -> BOOLEAN]
           /\ doneMoved' \in [Writers -> BOOLEAN]
<1>1. /\ pc' \in [Writers -> Phases]
      /\ pc'[Client] = "idle"
      /\ \A v \in Workers : pc'[v] = pc[v]
  BY GotoType, PhasesKnown, WritersKnown DEF TypeInv, Answered
<1>u. Unloaded \in 0 .. NumBatches + 1
  BY BatchesAssumption DEF Unloaded
<1>2. baseCount' \in [Writers -> 0 .. NumBatches + 1]
  BY <1>u DEF TypeInv, TypeOK, Answered
<1>3. baseStatus' \in [Writers -> Statuses]
  BY DEF TypeInv, TypeOK, Answered, Statuses
<1>4. leaseMoved' \in [Writers -> BOOLEAN] /\ doneMoved' \in [Writers -> BOOLEAN]
  BY DEF TypeInv, TypeOK, Answered
<1> QED
  BY <1>1, <1>2, <1>3, <1>4

(* Every step keeps the types. *)
LEMMA NextTypeInv == TypeInv /\ [Next]_vars => TypeInv'
<1> SUFFICES ASSUME TypeInv, [Next]_vars PROVE TypeInv'
  OBVIOUS
<1> USE BatchesAssumption, PhasesKnown, WritersKnown
    DEF TypeInv, TypeOK, StageInRange, ClientIdle, NoFault, Batches, Goto, Unloaded, Statuses,
        Leases, Candidates, Sources
<1>1. ASSUME NEW w \in Workers, Deliver(w) PROVE TypeInv'
  <2>1. msgs' \in Nat
    BY <1>1 DEF Deliver
  <2>2. CASE UNCHANGED <<pc, held, base>>
    BY <1>1, <2>1, <2>2 DEF Deliver
  <2>3. CASE Reload(w) /\ Goto(w, "failCommit")
    BY <1>1, <2>1, <2>3, ReloadType DEF Deliver
  <2>4. CASE (Goto(w, "cancelling") \/ Goto(w, "received")) /\ UNCHANGED base
    <3>0. PICK phase \in {"cancelling", "received"} :
            pc' = [pc EXCEPT ![w] = phase]
      BY <2>4
    <3>1. pc' \in [Writers -> Phases]
      BY <3>0
    <3>2. StageInRange'
      BY <1>1, <3>0 DEF Deliver
    <3>3. ClientIdle'
      BY <1>1, <3>0 DEF Deliver
    <3> QED
      BY <1>1, <2>1, <2>4, <3>1, <3>2, <3>3 DEF Deliver
  <2> QED
    BY <1>1, <2>2, <2>3, <2>4 DEF Deliver
<1>2. ASSUME NEW w \in Workers, BreakOff(w) PROVE TypeInv'
  BY <1>2 DEF BreakOff
<1>3. ASSUME NEW w \in Workers, ReconcileCancellation(w) PROVE TypeInv'
  BY <1>3 DEF ReconcileCancellation
<1>4. ASSUME NEW w \in Workers, DeadLetter(w) PROVE TypeInv'
  <2>1. faults' \in [FaultKinds -> Nat]
    BY <1>4, FaultType DEF FaultKinds, DeadLetter
  <2>s. PICK f \in [Writers -> BOOLEAN] : f = Stamp(doneMoved)
    BY StampType
  <2>t. doneMoved' \in {[f EXCEPT ![Client] = doneMoved[Client]], doneMoved}
    BY <1>4, <2>s DEF DeadLetter
  <2>u. doneMoved[Client] \in BOOLEAN
    OBVIOUS
  <2>2. doneMoved' \in [Writers -> BOOLEAN]
    BY <2>t, <2>u, WithFlag
  <2>3. status' \in Statuses /\ lease' \in Leases
    BY <1>4 DEF DeadLetter
  <2>4. ClientIdle'
    BY <1>4, AckedType, FaultType DEF DeadLetter, FaultKinds
  <2> QED
    BY <1>4, <2>1, <2>2, <2>3, <2>4, AckedType DEF DeadLetter
<1>5. ASSUME NEW w \in Workers, Crash(w) PROVE TypeInv'
  <2>1. faults' \in [FaultKinds -> Nat] /\ msgs' \in Nat
    BY <1>5, FaultType DEF FaultKinds, Crash
  <2>2. heartbeat' \in [Workers -> BOOLEAN]
    BY <1>5 DEF Crash
  <2>3. Acked(w)
    BY <1>5 DEF Crash
  <2>4. ClientIdle'
    BY <1>5, AckedType, FaultType DEF Crash, FaultKinds
  <2> QED
    BY <1>5, <2>1, <2>2, <2>3, <2>4, AckedType DEF Crash
<1>6. ASSUME NEW w \in Workers, Claim(w) PROVE TypeInv'
  <2>1. Stamp(leaseMoved) \in [Writers -> BOOLEAN]
        /\ Stamp(doneMoved) \in [Writers -> BOOLEAN]
    BY StampType
  <2>2. leaseMoved' \in [Writers -> BOOLEAN] /\ doneMoved' \in [Writers -> BOOLEAN]
    BY <1>6, <2>1 DEF Claim
  <2>3. pc' \in [Writers -> Phases] /\ StageInRange' /\ ClientIdle'
    BY <1>6 DEF Claim
  <2> QED
    BY <1>6, <2>2, <2>3 DEF Claim
<1>7. ASSUME NEW w \in Workers, ClaimRefused(w) PROVE TypeInv'
  BY <1>7 DEF ClaimRefused
<1>8. ASSUME NEW w \in Workers, Nak(w) PROVE TypeInv'
  BY <1>8, AckedType DEF Nak
<1>9. ASSUME NEW w \in Workers, Download(w) PROVE TypeInv'
  <2>1. batch' \in [Workers -> 1 .. NumBatches + 1]
    BY <1>9 DEF Download
  <2>2. baseCount' \in [Writers -> 0 .. NumBatches + 1]
    BY <1>9 DEF Download
  <2>3. cancelEvent' \in [Workers -> BOOLEAN] /\ heartbeat' \in [Workers -> BOOLEAN]
    BY <1>9 DEF Download
  <2>4. pc' \in [Writers -> Phases] /\ StageInRange'
    BY <1>9 DEF Download
  <2> QED
    BY <1>9, <2>1, <2>2, <2>3, <2>4 DEF Download
<1>10. ASSUME NEW w \in Workers, ReadWindow(w) PROVE TypeInv'
  BY <1>10 DEF ReadWindow
<1>11. ASSUME NEW w \in Workers, SeeCancel(w) PROVE TypeInv'
  BY <1>11 DEF SeeCancel
<1>12. ASSUME NEW w \in Workers, Checkpoint(w) PROVE TypeInv'
  BY <1>12 DEF Checkpoint, StagedRow
<1>13. ASSUME NEW w \in Workers, CheckpointRefused(w) PROVE TypeInv'
  BY <1>13 DEF CheckpointRefused
<1>14. ASSUME NEW w \in Workers, StopHeartbeat(w) PROVE TypeInv'
  BY <1>14 DEF StopHeartbeat
<1>15. ASSUME NEW w \in Workers, Refresh(w) PROVE TypeInv'
  BY <1>15, ReloadType DEF Refresh
<1>16. ASSUME NEW w \in Workers, CheckStatus(w) PROVE TypeInv'
  BY <1>16 DEF CheckStatus
<1>17. ASSUME NEW w \in Workers, Commit(w) PROVE TypeInv'
  <2>1. featureCount' \in 0 .. NumBatches
    BY <1>17 DEF Commit
  <2>2. /\ status' \in Statuses /\ lease' \in Leases
        /\ doneMoved' \in [Writers -> BOOLEAN]
    BY <1>17, StampType DEF Commit
  <2>3. Acked(w)
    BY <1>17 DEF Commit
  <2> QED
    BY <1>17, <2>1, <2>2, <2>3, AckedType DEF Commit
<1>18. ASSUME NEW w \in Workers, CommitRefused(w) PROVE TypeInv'
  BY <1>18 DEF CommitRefused
<1>19. ASSUME NEW w \in Workers, BeginFail(w) PROVE TypeInv'
  BY <1>19, ReloadType DEF BeginFail
<1>20. ASSUME NEW w \in Workers, CommitFail(w) PROVE TypeInv'
  BY <1>20, StampType, AckedType DEF CommitFail
<1>21. ASSUME NEW w \in Workers, FailRefused(w) PROVE TypeInv'
  BY <1>21 DEF FailRefused
<1>22. ASSUME NEW w \in Workers, FinishCancellation(w) PROVE TypeInv'
  <2>1. doneMoved' \in [Writers -> BOOLEAN]
    BY <1>22, StampType DEF FinishCancellation
  <2>2. pc' \in [Writers -> Phases] /\ StageInRange' /\ ClientIdle'
    BY <1>22 DEF FinishCancellation
  <2>3. cand' \in [Batches -> Candidates] /\ status' \in Statuses /\ lease' \in Leases
    BY <1>22 DEF FinishCancellation
  <2> QED
    BY <1>22, <2>1, <2>2, <2>3 DEF FinishCancellation
<1>23. ASSUME NEW w \in Workers, DeleteSource(w) PROVE TypeInv'
  BY <1>23, AckedType DEF DeleteSource
<1>24. ASSUME NEW w \in Workers, HeartbeatExtend(w) PROVE TypeInv'
  BY <1>24, StampType DEF HeartbeatExtend
<1>25. ASSUME NEW w \in Workers, HeartbeatEnd(w) PROVE TypeInv'
  BY <1>25 DEF HeartbeatEnd
<1>26. CASE Redispatch
  BY <1>26 DEF Redispatch
<1>27. CASE LeaseExpires
  BY <1>27 DEF LeaseExpires
<1>28. CASE Overrun
  BY <1>28, FaultType DEF FaultKinds, Overrun
<1>29. CASE LoseMessage
  BY <1>29, FaultType DEF FaultKinds, LoseMessage
<1>30. CASE Cancel
  BY <1>30, StampType DEF Cancel
<1>31. CASE MarkProcessed
  BY <1>31 DEF MarkProcessed
<1>32. ASSUME NEW b \in Batches, Confirm(b) PROVE TypeInv'
  BY <1>32 DEF Confirm
<1>33. ASSUME NEW b \in Batches, Reject(b) PROVE TypeInv'
  BY <1>33 DEF Reject
<1>34. CASE UNCHANGED vars
  BY <1>34
<1>35. CASE RepeatCompletion
  <2>1. faults' \in [FaultKinds -> Nat] /\ ~NoFault("repeat")'
    BY <1>35, FaultType DEF FaultKinds, RepeatCompletion, Fault
  <2>2. pc' \in [Writers -> Phases] /\ StageInRange'
    BY <1>35 DEF RepeatCompletion
  <2> QED
    BY <1>35, <2>1, <2>2 DEF RepeatCompletion
<1>36. CASE CreateAgain
  BY <1>36, ReloadType, GotoType DEF CreateAgain
<1>37. CASE PersistAgain
  <2>1. ~NoFault("repeat")'
    BY <1>37 DEF PersistAgain
  <2>2. featureCount' \in 0 .. NumBatches
    BY <1>37 DEF PersistAgain
  <2>3. status' \in Statuses /\ lease' \in Leases /\ msgs' \in Nat
    BY <1>37 DEF PersistAgain
  <2>4. PICK moved \in [Writers -> BOOLEAN] : Answered(moved)
    BY <1>37, Zenon DEF PersistAgain
  <2> QED
    BY <1>37, <2>1, <2>2, <2>3, <2>4, AnsweredType DEF PersistAgain
<1>38. CASE PersistAgainRefused
  BY <1>38, AnsweredType DEF PersistAgainRefused
<1> QED
  BY <1>1, <1>2, <1>3, <1>4, <1>5, <1>6, <1>7, <1>8, <1>9, <1>10, <1>11,
     <1>12, <1>13, <1>14, <1>15, <1>16, <1>17, <1>18, <1>19, <1>20, <1>21,
     <1>22, <1>23, <1>24, <1>25, <1>26, <1>27, <1>28, <1>29, <1>30, <1>31,
     <1>32, <1>33, <1>34, <1>35, <1>36, <1>37, <1>38
  DEF Next, Handle, Heartbeat, Administrator, Repeat

(* Type correctness: every variable keeps its type, in particular the      *)
(* feature count and the batch number stay within the source.              *)
THEOREM TypeCorrect == Spec => []TypeOK
<1>1. Spec => []TypeInv
  BY InitTypeInv, NextTypeInv, PTL DEF Spec
<1> QED
  BY <1>1, PTL DEF TypeInv

-----------------------------------------------------------------------------
(* Faults are counted and never uncounted. *)
LEMMA NoFaultBefore ==
    ASSUME TypeOK, [Next]_vars, NEW kind \in FaultKinds, NoFault(kind)'
    PROVE  NoFault(kind)
<1> USE DEF TypeOK, NoFault
<1>1. ASSUME NEW w \in Workers, Deliver(w) PROVE NoFault(kind)
  BY <1>1 DEF Deliver
<1>2. ASSUME NEW w \in Workers, BreakOff(w) PROVE NoFault(kind)
  BY <1>2 DEF BreakOff
<1>3. ASSUME NEW w \in Workers, ReconcileCancellation(w) PROVE NoFault(kind)
  BY <1>3 DEF ReconcileCancellation
<1>4. ASSUME NEW w \in Workers, DeadLetter(w) PROVE NoFault(kind)
  BY <1>4 DEF DeadLetter, Fault
<1>5. ASSUME NEW w \in Workers, Crash(w) PROVE NoFault(kind)
  BY <1>5 DEF Crash, Fault
<1>6. ASSUME NEW w \in Workers, Claim(w) PROVE NoFault(kind)
  BY <1>6 DEF Claim
<1>7. ASSUME NEW w \in Workers, ClaimRefused(w) PROVE NoFault(kind)
  BY <1>7 DEF ClaimRefused
<1>8. ASSUME NEW w \in Workers, Nak(w) PROVE NoFault(kind)
  BY <1>8 DEF Nak
<1>9. ASSUME NEW w \in Workers, Download(w) PROVE NoFault(kind)
  BY <1>9 DEF Download
<1>10. ASSUME NEW w \in Workers, ReadWindow(w) PROVE NoFault(kind)
  BY <1>10 DEF ReadWindow
<1>11. ASSUME NEW w \in Workers, SeeCancel(w) PROVE NoFault(kind)
  BY <1>11 DEF SeeCancel
<1>12. ASSUME NEW w \in Workers, Checkpoint(w) PROVE NoFault(kind)
  BY <1>12 DEF Checkpoint
<1>13. ASSUME NEW w \in Workers, CheckpointRefused(w) PROVE NoFault(kind)
  BY <1>13 DEF CheckpointRefused
<1>14. ASSUME NEW w \in Workers, StopHeartbeat(w) PROVE NoFault(kind)
  BY <1>14 DEF StopHeartbeat
<1>15. ASSUME NEW w \in Workers, Refresh(w) PROVE NoFault(kind)
  BY <1>15 DEF Refresh
<1>16. ASSUME NEW w \in Workers, CheckStatus(w) PROVE NoFault(kind)
  BY <1>16 DEF CheckStatus
<1>17. ASSUME NEW w \in Workers, Commit(w) PROVE NoFault(kind)
  BY <1>17 DEF Commit
<1>18. ASSUME NEW w \in Workers, CommitRefused(w) PROVE NoFault(kind)
  BY <1>18 DEF CommitRefused
<1>19. ASSUME NEW w \in Workers, BeginFail(w) PROVE NoFault(kind)
  BY <1>19 DEF BeginFail
<1>20. ASSUME NEW w \in Workers, CommitFail(w) PROVE NoFault(kind)
  BY <1>20 DEF CommitFail
<1>21. ASSUME NEW w \in Workers, FailRefused(w) PROVE NoFault(kind)
  BY <1>21 DEF FailRefused
<1>22. ASSUME NEW w \in Workers, FinishCancellation(w) PROVE NoFault(kind)
  BY <1>22 DEF FinishCancellation
<1>23. ASSUME NEW w \in Workers, DeleteSource(w) PROVE NoFault(kind)
  BY <1>23 DEF DeleteSource
<1>24. ASSUME NEW w \in Workers, HeartbeatExtend(w) PROVE NoFault(kind)
  BY <1>24 DEF HeartbeatExtend
<1>25. ASSUME NEW w \in Workers, HeartbeatEnd(w) PROVE NoFault(kind)
  BY <1>25 DEF HeartbeatEnd
<1>26. CASE Redispatch
  BY <1>26 DEF Redispatch
<1>27. CASE LeaseExpires
  BY <1>27 DEF LeaseExpires
<1>28. CASE Overrun
  BY <1>28 DEF Overrun, Fault
<1>29. CASE LoseMessage
  BY <1>29 DEF LoseMessage, Fault
<1>30. CASE Cancel
  BY <1>30 DEF Cancel
<1>31. CASE MarkProcessed
  BY <1>31 DEF MarkProcessed
<1>32. ASSUME NEW b \in Batches, Confirm(b) PROVE NoFault(kind)
  BY <1>32 DEF Confirm
<1>33. ASSUME NEW b \in Batches, Reject(b) PROVE NoFault(kind)
  BY <1>33 DEF Reject
<1>34. CASE UNCHANGED vars
  BY <1>34
<1>35. CASE RepeatCompletion
  BY <1>35 DEF RepeatCompletion, Fault
<1>36. CASE CreateAgain
  BY <1>36 DEF CreateAgain
<1>37. CASE PersistAgain
  BY <1>37 DEF PersistAgain
<1>38. CASE PersistAgainRefused
  BY <1>38 DEF PersistAgainRefused
<1> QED
  BY <1>1, <1>2, <1>3, <1>4, <1>5, <1>6, <1>7, <1>8, <1>9, <1>10, <1>11,
     <1>12, <1>13, <1>14, <1>15, <1>16, <1>17, <1>18, <1>19, <1>20, <1>21,
     <1>22, <1>23, <1>24, <1>25, <1>26, <1>27, <1>28, <1>29, <1>30, <1>31,
     <1>32, <1>33, <1>34, <1>35, <1>36, <1>37, <1>38
     DEF Next, Handle, Heartbeat, Administrator, Repeat

(* A worker believes in a cancellation only once the run has left QUEUED   *)
(* and PROCESSING for good, and reaches the deletion of the source only    *)
(* once it has left CANCELLING too.                                        *)
CancellationSeen ==
    /\ \A w \in Workers :
         cancelEvent[w] \/ pc[w] = "cancelling"
           => status \notin {"QUEUED", "PROCESSING"}
    /\ \A w \in Workers :
         pc[w] = "cleanup" => status \notin {"QUEUED", "PROCESSING", "CANCELLING"}

SourceKept ==
    /\ CancellationSeen
    /\ source = "deleted" => status \notin {"QUEUED", "PROCESSING", "CANCELLING"}

SourceInv == NoFault("repeat") => SourceKept

\* No worker believes in a cancellation when the run is created.
LEMMA InitSourceInv == Init => SourceInv
BY WritersKnown DEF Init, SourceInv, SourceKept, CancellationSeen

\* No step of a handler, a reconciler or the administrator deletes the
\* source while somebody may still need it.
LEMMA NextSourceInv == TypeInv /\ SourceInv /\ [Next]_vars => SourceInv'
<1> SUFFICES ASSUME TypeInv, SourceInv, [Next]_vars, NoFault("repeat")'
             PROVE  SourceKept'
  BY DEF SourceInv
<1>0. NoFault("repeat") /\ SourceKept
  BY NoFaultBefore DEF TypeInv, SourceInv, FaultKinds
<1> USE <1>0, WritersKnown DEF TypeInv, TypeOK, SourceKept, CancellationSeen, Goto
<1>1. ASSUME NEW w \in Workers, Deliver(w) PROVE SourceKept'
  BY <1>1 DEF Deliver
<1>2. ASSUME NEW w \in Workers, BreakOff(w) PROVE SourceKept'
  BY <1>2 DEF BreakOff
<1>3. ASSUME NEW w \in Workers, ReconcileCancellation(w) PROVE SourceKept'
  BY <1>3 DEF ReconcileCancellation
<1>4. ASSUME NEW w \in Workers, DeadLetter(w) PROVE SourceKept'
  BY <1>4 DEF DeadLetter, Acked
<1>5. ASSUME NEW w \in Workers, Crash(w) PROVE SourceKept'
  BY <1>5 DEF Crash, Acked
<1>6. ASSUME NEW w \in Workers, Claim(w) PROVE SourceKept'
  BY <1>6 DEF Claim, Claimable
<1>7. ASSUME NEW w \in Workers, ClaimRefused(w) PROVE SourceKept'
  BY <1>7 DEF ClaimRefused
<1>8. ASSUME NEW w \in Workers, Nak(w) PROVE SourceKept'
  BY <1>8 DEF Nak, Acked
<1>9. ASSUME NEW w \in Workers, Download(w) PROVE SourceKept'
  BY <1>9 DEF Download
<1>10. ASSUME NEW w \in Workers, ReadWindow(w) PROVE SourceKept'
  BY <1>10 DEF ReadWindow
<1>11. ASSUME NEW w \in Workers, SeeCancel(w) PROVE SourceKept'
  BY <1>11 DEF SeeCancel
<1>12. ASSUME NEW w \in Workers, Checkpoint(w) PROVE SourceKept'
  BY <1>12 DEF Checkpoint
<1>13. ASSUME NEW w \in Workers, CheckpointRefused(w) PROVE SourceKept'
  BY <1>13 DEF CheckpointRefused
<1>14. ASSUME NEW w \in Workers, StopHeartbeat(w) PROVE SourceKept'
  BY <1>14 DEF StopHeartbeat
<1>15. ASSUME NEW w \in Workers, Refresh(w) PROVE SourceKept'
  BY <1>15 DEF Refresh
<1>16. ASSUME NEW w \in Workers, CheckStatus(w) PROVE SourceKept'
  BY <1>16 DEF CheckStatus
<1>17. ASSUME NEW w \in Workers, Commit(w) PROVE SourceKept'
  BY <1>17 DEF Commit, Acked
<1>18. ASSUME NEW w \in Workers, CommitRefused(w) PROVE SourceKept'
  BY <1>18 DEF CommitRefused
<1>19. ASSUME NEW w \in Workers, BeginFail(w) PROVE SourceKept'
  BY <1>19 DEF BeginFail
<1>20. ASSUME NEW w \in Workers, CommitFail(w) PROVE SourceKept'
  BY <1>20 DEF CommitFail, Acked
<1>21. ASSUME NEW w \in Workers, FailRefused(w) PROVE SourceKept'
  BY <1>21 DEF FailRefused
<1>22. ASSUME NEW w \in Workers, FinishCancellation(w) PROVE SourceKept'
  BY <1>22 DEF FinishCancellation
<1>23. ASSUME NEW w \in Workers, DeleteSource(w) PROVE SourceKept'
  BY <1>23 DEF DeleteSource, Acked
<1>24. ASSUME NEW w \in Workers, HeartbeatExtend(w) PROVE SourceKept'
  BY <1>24 DEF HeartbeatExtend
<1>25. ASSUME NEW w \in Workers, HeartbeatEnd(w) PROVE SourceKept'
  BY <1>25 DEF HeartbeatEnd
<1>26. CASE Redispatch
  BY <1>26 DEF Redispatch, Claimable
<1>27. CASE LeaseExpires
  BY <1>27 DEF LeaseExpires
<1>28. CASE Overrun
  BY <1>28 DEF Overrun
<1>29. CASE LoseMessage
  BY <1>29 DEF LoseMessage
<1>30. CASE Cancel
  BY <1>30 DEF Cancel
<1>31. CASE MarkProcessed
  BY <1>31 DEF MarkProcessed
<1>32. ASSUME NEW b \in Batches, Confirm(b) PROVE SourceKept'
  BY <1>32 DEF Confirm
<1>33. ASSUME NEW b \in Batches, Reject(b) PROVE SourceKept'
  BY <1>33 DEF Reject
<1>34. CASE UNCHANGED vars
  BY <1>34
<1>35. CASE RepeatCompletion
  BY <1>35 DEF RepeatCompletion, NoFault, ClientIdle, Fault, FaultKinds
<1>36. CASE CreateAgain
  BY <1>36 DEF CreateAgain, NoFault, ClientIdle, Fault, FaultKinds
<1>37. CASE PersistAgain
  BY <1>37 DEF PersistAgain, NoFault, ClientIdle, Fault, FaultKinds
<1>38. CASE PersistAgainRefused
  BY <1>38 DEF PersistAgainRefused, NoFault, ClientIdle, Fault, FaultKinds
<1> QED
  BY <1>1, <1>2, <1>3, <1>4, <1>5, <1>6, <1>7, <1>8, <1>9, <1>10, <1>11,
     <1>12, <1>13, <1>14, <1>15, <1>16, <1>17, <1>18, <1>19, <1>20, <1>21,
     <1>22, <1>23, <1>24, <1>25, <1>26, <1>27, <1>28, <1>29, <1>30, <1>31,
     <1>32, <1>33, <1>34, <1>35, <1>36, <1>37, <1>38
     DEF Next, Handle, Heartbeat, Administrator, Repeat

(* No delivery ever finds its run without the source it needs: the object  *)
(* is deleted only when the run can no longer be resumed.                  *)
THEOREM SourceSafe == Spec => []SourceOutlivesWork
<1>1. Spec => [](TypeInv /\ SourceInv)
  BY InitTypeInv, NextTypeInv, InitSourceInv, NextSourceInv, PTL DEF Spec
<1>2. SourceInv => SourceOutlivesWork
  BY DEF SourceInv, SourceKept, SourceOutlivesWork
<1> QED
  BY <1>1, <1>2, PTL

-----------------------------------------------------------------------------
RestartStep ==
    status \notin {"QUEUED", "PROCESSING"} /\ status' \in {"QUEUED", "PROCESSING"}
    => /\ pc[Client] = "persist" /\ pc'[Client] = "idle"
       /\ status = baseStatus[Client]
       /\ status \notin {"CANCELLING", "CANCELLED"}

(* The writers of QUEUED and PROCESSING are the claim and the redispatch,  *)
(* which require one of the two, and the client's repeated completion.     *)
LEMMA StepNoRestart == TypeOK /\ [Next]_vars => RestartStep
<1> SUFFICES ASSUME TypeOK, [Next]_vars,
                    status \notin {"QUEUED", "PROCESSING"},
                    status' \in {"QUEUED", "PROCESSING"}
             PROVE  RestartStep
  BY DEF RestartStep
<1>0. ASSUME status' \notin {"QUEUED", "PROCESSING"} PROVE RestartStep
  BY <1>0
<1>1. ASSUME NEW w \in Workers, Deliver(w)
      PROVE  RestartStep
  BY <1>1 DEF Deliver
<1>2. ASSUME NEW w \in Workers, BreakOff(w)
      PROVE  RestartStep
  BY <1>2 DEF BreakOff
<1>3. ASSUME NEW w \in Workers, ReconcileCancellation(w)
      PROVE  RestartStep
  BY <1>3 DEF ReconcileCancellation
<1>4. ASSUME NEW w \in Workers, DeadLetter(w)
      PROVE  RestartStep
  BY <1>4 DEF DeadLetter
<1>5. ASSUME NEW w \in Workers, Crash(w)
      PROVE  RestartStep
  BY <1>5 DEF Crash
<1>6. ASSUME NEW w \in Workers, Claim(w)
      PROVE  RestartStep
  BY <1>6 DEF Claim, Claimable
<1>7. ASSUME NEW w \in Workers, ClaimRefused(w)
      PROVE  RestartStep
  BY <1>7 DEF ClaimRefused
<1>8. ASSUME NEW w \in Workers, Nak(w)
      PROVE  RestartStep
  BY <1>8 DEF Nak
<1>9. ASSUME NEW w \in Workers, Download(w)
      PROVE  RestartStep
  BY <1>9 DEF Download
<1>10. ASSUME NEW w \in Workers, ReadWindow(w)
       PROVE  RestartStep
  BY <1>10 DEF ReadWindow
<1>11. ASSUME NEW w \in Workers, SeeCancel(w)
       PROVE  RestartStep
  BY <1>11 DEF SeeCancel
<1>12. ASSUME NEW w \in Workers, Checkpoint(w)
       PROVE  RestartStep
  BY <1>12 DEF Checkpoint
<1>13. ASSUME NEW w \in Workers, CheckpointRefused(w)
       PROVE  RestartStep
  BY <1>13 DEF CheckpointRefused
<1>14. ASSUME NEW w \in Workers, StopHeartbeat(w)
       PROVE  RestartStep
  BY <1>14 DEF StopHeartbeat
<1>15. ASSUME NEW w \in Workers, Refresh(w)
       PROVE  RestartStep
  BY <1>15 DEF Refresh
<1>16. ASSUME NEW w \in Workers, CheckStatus(w)
       PROVE  RestartStep
  BY <1>16 DEF CheckStatus
<1>17. ASSUME NEW w \in Workers, Commit(w)
       PROVE  RestartStep
  BY <1>17 DEF Commit
<1>18. ASSUME NEW w \in Workers, CommitRefused(w)
       PROVE  RestartStep
  BY <1>18 DEF CommitRefused
<1>19. ASSUME NEW w \in Workers, BeginFail(w)
       PROVE  RestartStep
  BY <1>19 DEF BeginFail
<1>20. ASSUME NEW w \in Workers, CommitFail(w)
       PROVE  RestartStep
  BY <1>20 DEF CommitFail
<1>21. ASSUME NEW w \in Workers, FailRefused(w)
       PROVE  RestartStep
  BY <1>21 DEF FailRefused
<1>22. ASSUME NEW w \in Workers, FinishCancellation(w)
       PROVE  RestartStep
  BY <1>22 DEF FinishCancellation
<1>23. ASSUME NEW w \in Workers, DeleteSource(w)
       PROVE  RestartStep
  BY <1>23 DEF DeleteSource
<1>24. ASSUME NEW w \in Workers, HeartbeatExtend(w)
       PROVE  RestartStep
  BY <1>24 DEF HeartbeatExtend
<1>25. ASSUME NEW w \in Workers, HeartbeatEnd(w)
       PROVE  RestartStep
  BY <1>25 DEF HeartbeatEnd
<1>26. CASE Redispatch
  BY <1>26 DEF Redispatch, Claimable
<1>27. CASE LeaseExpires
  BY <1>27 DEF LeaseExpires
<1>28. CASE Overrun
  BY <1>28 DEF Overrun
<1>29. CASE LoseMessage
  BY <1>29 DEF LoseMessage
<1>30. CASE Cancel
  BY <1>30 DEF Cancel
<1>31. CASE MarkProcessed
  BY <1>31 DEF MarkProcessed
<1>32. ASSUME NEW b \in Batches, Confirm(b)
       PROVE  RestartStep
  BY <1>32 DEF Confirm
<1>33. ASSUME NEW b \in Batches, Reject(b)
       PROVE  RestartStep
  BY <1>33 DEF Reject
<1>34. CASE UNCHANGED vars
  BY <1>34
<1>35. CASE RepeatCompletion
  BY <1>35 DEF RepeatCompletion
<1>36. CASE CreateAgain
  BY <1>36 DEF CreateAgain
<1>37. CASE PersistAgain
  BY <1>37, WritersKnown
     DEF TypeOK, PersistAgain, PersistConflict, Conflict, RowGuarded, Answered,
         Goto, RestartStep
<1>38. CASE PersistAgainRefused
  BY <1>38 DEF PersistAgainRefused
<1> QED
  BY <1>1, <1>2, <1>3, <1>4, <1>5, <1>6, <1>7, <1>8, <1>9, <1>10, <1>11,
     <1>12, <1>13, <1>14, <1>15, <1>16, <1>17, <1>18, <1>19, <1>20, <1>21,
     <1>22, <1>23, <1>24, <1>25, <1>26, <1>27, <1>28, <1>29, <1>30, <1>31,
     <1>32, <1>33, <1>34, <1>35, <1>36, <1>37, <1>38
     DEF Next, Handle, Heartbeat, Administrator, Repeat

(* A settled run is never worked on again, however many duplicates of its  *)
(* command and however many stale workers there are, unless a client       *)
(* completes its upload once more; a cancelled one is not even then.       *)
THEOREM NeverRestarted == Spec => NoRestart
<1>1. Spec => []TypeInv
  BY InitTypeInv, NextTypeInv, PTL DEF Spec
<1>2. TypeInv /\ [Next]_vars => [RestartStep]_vars
  BY StepNoRestart DEF TypeInv
<1> QED
  BY <1>1, <1>2, PTL DEF Spec, NoRestart, RestartStep

(* Every writer of the status respects a cancellation: the upsert guard,   *)
(* the conditional updates, and the checks of the handlers.                *)
CancellationStep ==
    /\ status = "CANCELLING" => status' \in {"CANCELLING", "CANCELLED", "PROCESSED"}
    /\ status = "CANCELLED" => status' \in {"CANCELLED", "PROCESSED"}

\* No write of a worker takes CANCELLING or CANCELLED back.
LEMMA StepCancellation == [Next]_vars => CancellationStep
<1> SUFFICES ASSUME [Next]_vars PROVE CancellationStep
  OBVIOUS
<1> USE DEF CancellationStep
<1>1. ASSUME NEW w \in Workers, Deliver(w) PROVE CancellationStep
  BY <1>1 DEF Deliver
<1>2. ASSUME NEW w \in Workers, BreakOff(w) PROVE CancellationStep
  BY <1>2 DEF BreakOff
<1>3. ASSUME NEW w \in Workers, ReconcileCancellation(w) PROVE CancellationStep
  BY <1>3 DEF ReconcileCancellation
<1>4. ASSUME NEW w \in Workers, DeadLetter(w) PROVE CancellationStep
  BY <1>4 DEF DeadLetter
<1>5. ASSUME NEW w \in Workers, Crash(w) PROVE CancellationStep
  BY <1>5 DEF Crash
<1>6. ASSUME NEW w \in Workers, Claim(w) PROVE CancellationStep
  BY <1>6 DEF Claim, Claimable
<1>7. ASSUME NEW w \in Workers, ClaimRefused(w) PROVE CancellationStep
  BY <1>7 DEF ClaimRefused
<1>8. ASSUME NEW w \in Workers, Nak(w) PROVE CancellationStep
  BY <1>8 DEF Nak
<1>9. ASSUME NEW w \in Workers, Download(w) PROVE CancellationStep
  BY <1>9 DEF Download
<1>10. ASSUME NEW w \in Workers, ReadWindow(w) PROVE CancellationStep
  BY <1>10 DEF ReadWindow
<1>11. ASSUME NEW w \in Workers, SeeCancel(w) PROVE CancellationStep
  BY <1>11 DEF SeeCancel
<1>12. ASSUME NEW w \in Workers, Checkpoint(w) PROVE CancellationStep
  BY <1>12 DEF Checkpoint
<1>13. ASSUME NEW w \in Workers, CheckpointRefused(w) PROVE CancellationStep
  BY <1>13 DEF CheckpointRefused
<1>14. ASSUME NEW w \in Workers, StopHeartbeat(w) PROVE CancellationStep
  BY <1>14 DEF StopHeartbeat
<1>15. ASSUME NEW w \in Workers, Refresh(w) PROVE CancellationStep
  BY <1>15 DEF Refresh
<1>16. ASSUME NEW w \in Workers, CheckStatus(w) PROVE CancellationStep
  BY <1>16 DEF CheckStatus
<1>17. ASSUME NEW w \in Workers, Commit(w) PROVE CancellationStep
  BY <1>17 DEF Commit, RowGuarded
<1>18. ASSUME NEW w \in Workers, CommitRefused(w) PROVE CancellationStep
  BY <1>18 DEF CommitRefused
<1>19. ASSUME NEW w \in Workers, BeginFail(w) PROVE CancellationStep
  BY <1>19 DEF BeginFail
<1>20. ASSUME NEW w \in Workers, CommitFail(w) PROVE CancellationStep
  BY <1>20 DEF CommitFail, RowGuarded
<1>21. ASSUME NEW w \in Workers, FailRefused(w) PROVE CancellationStep
  BY <1>21 DEF FailRefused
<1>22. ASSUME NEW w \in Workers, FinishCancellation(w) PROVE CancellationStep
  BY <1>22 DEF FinishCancellation
<1>23. ASSUME NEW w \in Workers, DeleteSource(w) PROVE CancellationStep
  BY <1>23 DEF DeleteSource
<1>24. ASSUME NEW w \in Workers, HeartbeatExtend(w) PROVE CancellationStep
  BY <1>24 DEF HeartbeatExtend
<1>25. ASSUME NEW w \in Workers, HeartbeatEnd(w) PROVE CancellationStep
  BY <1>25 DEF HeartbeatEnd
<1>26. CASE Redispatch
  BY <1>26 DEF Redispatch, Claimable
<1>27. CASE LeaseExpires
  BY <1>27 DEF LeaseExpires
<1>28. CASE Overrun
  BY <1>28 DEF Overrun
<1>29. CASE LoseMessage
  BY <1>29 DEF LoseMessage
<1>30. CASE Cancel
  BY <1>30 DEF Cancel
<1>31. CASE MarkProcessed
  BY <1>31 DEF MarkProcessed
<1>32. ASSUME NEW b \in Batches, Confirm(b) PROVE CancellationStep
  BY <1>32 DEF Confirm
<1>33. ASSUME NEW b \in Batches, Reject(b) PROVE CancellationStep
  BY <1>33 DEF Reject
<1>34. CASE UNCHANGED vars
  BY <1>34
<1>35. CASE RepeatCompletion
  BY <1>35 DEF RepeatCompletion
<1>36. CASE CreateAgain
  BY <1>36 DEF CreateAgain
<1>37. CASE PersistAgain
  BY <1>37 DEF PersistAgain, PersistConflict, Conflict, RowGuarded
<1>38. CASE PersistAgainRefused
  BY <1>38 DEF PersistAgainRefused
<1> QED
  BY <1>1, <1>2, <1>3, <1>4, <1>5, <1>6, <1>7, <1>8, <1>9, <1>10, <1>11,
     <1>12, <1>13, <1>14, <1>15, <1>16, <1>17, <1>18, <1>19, <1>20, <1>21,
     <1>22, <1>23, <1>24, <1>25, <1>26, <1>27, <1>28, <1>29, <1>30, <1>31,
     <1>32, <1>33, <1>34, <1>35, <1>36, <1>37, <1>38
     DEF Next, Handle, Heartbeat, Administrator, Repeat

(* A cancellation is never undone by a worker that finishes, fails or is   *)
(* dead-lettered after it.                                                 *)
THEOREM CancellationIsSticky == Spec => CancellationSticks
<1>1. [Next]_vars => [CancellationStep]_vars
  BY StepCancellation
<1> QED
  BY <1>1, PTL DEF Spec, CancellationSticks, CancellationStep

-----------------------------------------------------------------------------
(* While no worker has outlived its lease, a worker that stages records or *)
(* writes the outcome is the only one, holds a live lease unless the run   *)
(* is already being cancelled or settled, and knows which records are new. *)
Serialized ==
    /\ \A v, w \in Workers : pc[v] \in Staging /\ pc[w] \in Staging => v = w
    /\ \A w \in Workers :
         pc[w] \in Staging =>
           /\ status /= "QUEUED"
           /\ status = "PROCESSING" => lease = "live"
    /\ \A w \in Workers :
         pc[w] = "stage" /\ window[w] = "absent" => cand[batch[w]] = "absent"

LeaseInv == LeaseHonoured => Serialized

\* No worker holds anything when the run is created.
LEMMA InitLeaseInv == Init => LeaseInv
BY WritersKnown DEF Init, LeaseInv, LeaseHonoured, Serialized, Staging, NoFault

(* A run that can be claimed or dispatched again has no active worker.     *)
LEMMA ClaimableIsFree ==
    ASSUME Serialized, Claimable
    PROVE  \A v \in Workers : pc[v] \notin Staging
BY DEF Serialized, Claimable

(* A step without an overrun keeps the workers serialized. *)
LEMMA NextLeaseInv == TypeInv /\ LeaseInv /\ [Next]_vars => LeaseInv'
<1> SUFFICES ASSUME TypeInv, LeaseInv, [Next]_vars, LeaseHonoured'
             PROVE  Serialized'
  BY DEF LeaseInv
<1>0. LeaseHonoured /\ Serialized
  BY NoFaultBefore DEF TypeInv, LeaseInv, LeaseHonoured, FaultKinds
<1> USE <1>0, WritersKnown
<1> USE DEF TypeInv, TypeOK, StageInRange, Serialized, Staging, Holding, Goto
<1>1. ASSUME NEW w \in Workers, Deliver(w) PROVE Serialized'
  BY <1>1 DEF Deliver
<1>2. ASSUME NEW w \in Workers, BreakOff(w) PROVE Serialized'
  BY <1>2 DEF BreakOff
<1>3. ASSUME NEW w \in Workers, ReconcileCancellation(w) PROVE Serialized'
  BY <1>3 DEF ReconcileCancellation
<1>4. ASSUME NEW w \in Workers, DeadLetter(w) PROVE Serialized'
  BY <1>4 DEF DeadLetter, Acked, Fault
<1>5. ASSUME NEW w \in Workers, Crash(w) PROVE Serialized'
  BY <1>5 DEF Crash, Acked, Fault
<1>6. ASSUME NEW w \in Workers, Claim(w) PROVE Serialized'
  <2>1. \A v \in Workers : pc[v] \notin Staging
    BY <1>6, ClaimableIsFree DEF Claim
  <2>2. pc'[w] = "download" /\ \A v \in Workers : v /= w => pc'[v] = pc[v]
    BY <1>6 DEF Claim
  <2>3. status' = "PROCESSING" /\ lease' = "live"
    BY <1>6 DEF Claim
  <2> QED
    BY <2>1, <2>2, <2>3
<1>7. ASSUME NEW w \in Workers, ClaimRefused(w) PROVE Serialized'
  BY <1>7 DEF ClaimRefused
<1>8. ASSUME NEW w \in Workers, Nak(w) PROVE Serialized'
  BY <1>8 DEF Nak, Acked
<1>9. ASSUME NEW w \in Workers, Download(w) PROVE Serialized'
  BY <1>9 DEF Download
<1>10. ASSUME NEW w \in Workers, ReadWindow(w) PROVE Serialized'
  BY <1>10 DEF ReadWindow
<1>11. ASSUME NEW w \in Workers, SeeCancel(w) PROVE Serialized'
  BY <1>11 DEF SeeCancel
<1>12. ASSUME NEW w \in Workers, Checkpoint(w) PROVE Serialized'
  BY <1>12 DEF Checkpoint, StagedRow
<1>13. ASSUME NEW w \in Workers, CheckpointRefused(w) PROVE Serialized'
  BY <1>13 DEF CheckpointRefused
<1>14. ASSUME NEW w \in Workers, StopHeartbeat(w) PROVE Serialized'
  BY <1>14 DEF StopHeartbeat
<1>15. ASSUME NEW w \in Workers, Refresh(w) PROVE Serialized'
  BY <1>15 DEF Refresh
<1>16. ASSUME NEW w \in Workers, CheckStatus(w) PROVE Serialized'
  BY <1>16 DEF CheckStatus
<1>17. ASSUME NEW w \in Workers, Commit(w) PROVE Serialized'
  BY <1>17 DEF Commit, Acked
<1>18. ASSUME NEW w \in Workers, CommitRefused(w) PROVE Serialized'
  BY <1>18 DEF CommitRefused
<1>19. ASSUME NEW w \in Workers, BeginFail(w) PROVE Serialized'
  BY <1>19 DEF BeginFail
<1>20. ASSUME NEW w \in Workers, CommitFail(w) PROVE Serialized'
  BY <1>20 DEF CommitFail, Acked
<1>21. ASSUME NEW w \in Workers, FailRefused(w) PROVE Serialized'
  BY <1>21 DEF FailRefused
<1>22. ASSUME NEW w \in Workers, FinishCancellation(w) PROVE Serialized'
  BY <1>22 DEF FinishCancellation
<1>23. ASSUME NEW w \in Workers, DeleteSource(w) PROVE Serialized'
  BY <1>23 DEF DeleteSource, Acked
<1>24. ASSUME NEW w \in Workers, HeartbeatExtend(w) PROVE Serialized'
  BY <1>24 DEF HeartbeatExtend
<1>25. ASSUME NEW w \in Workers, HeartbeatEnd(w) PROVE Serialized'
  BY <1>25 DEF HeartbeatEnd
<1>26. CASE Redispatch
  BY <1>26 DEF Redispatch, Claimable
<1>27. CASE LeaseExpires
  BY <1>27 DEF LeaseExpires
<1>28. CASE Overrun
  BY <1>28 DEF Overrun, Fault, FaultKinds, LeaseHonoured, NoFault
<1>29. CASE LoseMessage
  BY <1>29 DEF LoseMessage, Fault
<1>30. CASE Cancel
  BY <1>30 DEF Cancel
<1>31. CASE MarkProcessed
  BY <1>31 DEF MarkProcessed
<1>32. ASSUME NEW b \in Batches, Confirm(b) PROVE Serialized'
  BY <1>32 DEF Confirm
<1>33. ASSUME NEW b \in Batches, Reject(b) PROVE Serialized'
  BY <1>33 DEF Reject
<1>34. CASE UNCHANGED vars
  BY <1>34
<1>35. CASE RepeatCompletion
  BY <1>35 DEF LeaseHonoured, NoFault, ClientIdle, Fault, FaultKinds,
         RepeatCompletion
<1>36. CASE CreateAgain
  BY <1>36 DEF LeaseHonoured, NoFault, ClientIdle, Fault, FaultKinds,
         CreateAgain
<1>37. CASE PersistAgain
  BY <1>37 DEF LeaseHonoured, NoFault, ClientIdle, Fault, FaultKinds,
         PersistAgain
<1>38. CASE PersistAgainRefused
  BY <1>38 DEF LeaseHonoured, NoFault, ClientIdle, Fault, FaultKinds,
         PersistAgainRefused
<1> QED
  BY <1>1, <1>2, <1>3, <1>4, <1>5, <1>6, <1>7, <1>8, <1>9, <1>10, <1>11,
     <1>12, <1>13, <1>14, <1>15, <1>16, <1>17, <1>18, <1>19, <1>20, <1>21,
     <1>22, <1>23, <1>24, <1>25, <1>26, <1>27, <1>28, <1>29, <1>30, <1>31,
     <1>32, <1>33, <1>34, <1>35, <1>36, <1>37, <1>38
     DEF Next, Handle, Heartbeat, Administrator, Repeat

(* The lease serializes workers: while none has outlived its lease, at     *)
(* most one stages records or writes the outcome.                          *)
THEOREM WorkersSerialized == Spec => []SingleActiveWorker
<1>1. Spec => [](TypeInv /\ LeaseInv)
  BY InitTypeInv, NextTypeInv, InitLeaseInv, NextLeaseInv, PTL DEF Spec
<1>2. LeaseInv => SingleActiveWorker
  BY DEF LeaseInv, Serialized, SingleActiveWorker
<1> QED
  BY <1>1, <1>2, PTL

(* No step of a serialized system takes a confirmation back. *)
ConfirmationKept ==
    LeaseHonoured =>
      \A b \in Batches : cand[b] = "CONFIRMED" => cand'[b] /= "PENDING"

\* A checkpoint merges into a confirmed record and keeps its review.
LEMMA StepConfirmationKept ==
    TypeInv /\ LeaseInv /\ [Next]_vars => ConfirmationKept
<1> SUFFICES ASSUME TypeInv, LeaseInv, [Next]_vars, LeaseHonoured,
                    NEW b \in Batches, cand[b] = "CONFIRMED"
             PROVE  cand'[b] /= "PENDING"
  BY DEF ConfirmationKept
<1> USE DEF TypeInv, TypeOK, StageInRange, LeaseInv, Serialized
<1>1. ASSUME NEW w \in Workers, Deliver(w) PROVE cand'[b] /= "PENDING"
  BY <1>1 DEF Deliver
<1>2. ASSUME NEW w \in Workers, BreakOff(w) PROVE cand'[b] /= "PENDING"
  BY <1>2 DEF BreakOff
<1>3. ASSUME NEW w \in Workers, ReconcileCancellation(w)
      PROVE  cand'[b] /= "PENDING"
  BY <1>3 DEF ReconcileCancellation
<1>4. ASSUME NEW w \in Workers, DeadLetter(w) PROVE cand'[b] /= "PENDING"
  BY <1>4 DEF DeadLetter
<1>5. ASSUME NEW w \in Workers, Crash(w) PROVE cand'[b] /= "PENDING"
  BY <1>5 DEF Crash
<1>6. ASSUME NEW w \in Workers, Claim(w) PROVE cand'[b] /= "PENDING"
  BY <1>6 DEF Claim
<1>7. ASSUME NEW w \in Workers, ClaimRefused(w) PROVE cand'[b] /= "PENDING"
  BY <1>7 DEF ClaimRefused
<1>8. ASSUME NEW w \in Workers, Nak(w) PROVE cand'[b] /= "PENDING"
  BY <1>8 DEF Nak
<1>9. ASSUME NEW w \in Workers, Download(w) PROVE cand'[b] /= "PENDING"
  BY <1>9 DEF Download
<1>10. ASSUME NEW w \in Workers, ReadWindow(w) PROVE cand'[b] /= "PENDING"
  BY <1>10 DEF ReadWindow
<1>11. ASSUME NEW w \in Workers, SeeCancel(w) PROVE cand'[b] /= "PENDING"
  BY <1>11 DEF SeeCancel
<1>12. ASSUME NEW w \in Workers, Checkpoint(w) PROVE cand'[b] /= "PENDING"
  BY <1>12 DEF Checkpoint, StagedRow
<1>13. ASSUME NEW w \in Workers, CheckpointRefused(w)
       PROVE  cand'[b] /= "PENDING"
  BY <1>13 DEF CheckpointRefused
<1>14. ASSUME NEW w \in Workers, StopHeartbeat(w) PROVE cand'[b] /= "PENDING"
  BY <1>14 DEF StopHeartbeat
<1>15. ASSUME NEW w \in Workers, Refresh(w) PROVE cand'[b] /= "PENDING"
  BY <1>15 DEF Refresh
<1>16. ASSUME NEW w \in Workers, CheckStatus(w) PROVE cand'[b] /= "PENDING"
  BY <1>16 DEF CheckStatus
<1>17. ASSUME NEW w \in Workers, Commit(w) PROVE cand'[b] /= "PENDING"
  BY <1>17 DEF Commit
<1>18. ASSUME NEW w \in Workers, CommitRefused(w) PROVE cand'[b] /= "PENDING"
  BY <1>18 DEF CommitRefused
<1>19. ASSUME NEW w \in Workers, BeginFail(w) PROVE cand'[b] /= "PENDING"
  BY <1>19 DEF BeginFail
<1>20. ASSUME NEW w \in Workers, CommitFail(w) PROVE cand'[b] /= "PENDING"
  BY <1>20 DEF CommitFail
<1>21. ASSUME NEW w \in Workers, FailRefused(w) PROVE cand'[b] /= "PENDING"
  BY <1>21 DEF FailRefused
<1>22. ASSUME NEW w \in Workers, FinishCancellation(w)
       PROVE  cand'[b] /= "PENDING"
  BY <1>22 DEF FinishCancellation
<1>23. ASSUME NEW w \in Workers, DeleteSource(w) PROVE cand'[b] /= "PENDING"
  BY <1>23 DEF DeleteSource
<1>24. ASSUME NEW w \in Workers, HeartbeatExtend(w) PROVE cand'[b] /= "PENDING"
  BY <1>24 DEF HeartbeatExtend
<1>25. ASSUME NEW w \in Workers, HeartbeatEnd(w) PROVE cand'[b] /= "PENDING"
  BY <1>25 DEF HeartbeatEnd
<1>26. CASE Redispatch
  BY <1>26 DEF Redispatch
<1>27. CASE LeaseExpires
  BY <1>27 DEF LeaseExpires
<1>28. CASE Overrun
  BY <1>28 DEF Overrun
<1>29. CASE LoseMessage
  BY <1>29 DEF LoseMessage
<1>30. CASE Cancel
  BY <1>30 DEF Cancel
<1>31. CASE MarkProcessed
  BY <1>31 DEF MarkProcessed
<1>32. ASSUME NEW c \in Batches, Confirm(c) PROVE cand'[b] /= "PENDING"
  BY <1>32 DEF Confirm
<1>33. ASSUME NEW c \in Batches, Reject(c) PROVE cand'[b] /= "PENDING"
  BY <1>33 DEF Reject
<1>34. CASE UNCHANGED vars
  BY <1>34
<1>35. CASE RepeatCompletion
  BY <1>35 DEF RepeatCompletion
<1>36. CASE CreateAgain
  BY <1>36 DEF CreateAgain
<1>37. CASE PersistAgain
  BY <1>37 DEF PersistAgain
<1>38. CASE PersistAgainRefused
  BY <1>38 DEF PersistAgainRefused
<1> QED
  BY <1>1, <1>2, <1>3, <1>4, <1>5, <1>6, <1>7, <1>8, <1>9, <1>10, <1>11,
     <1>12, <1>13, <1>14, <1>15, <1>16, <1>17, <1>18, <1>19, <1>20, <1>21,
     <1>22, <1>23, <1>24, <1>25, <1>26, <1>27, <1>28, <1>29, <1>30, <1>31,
     <1>32, <1>33, <1>34, <1>35, <1>36, <1>37, <1>38
     DEF Next, Handle, Heartbeat, Administrator, Repeat

(* Replaying a batch after a crash never takes a confirmation back.        *)
THEOREM ReviewSurvivesReplay == Spec => ReviewKept
<1>1. Spec => [](TypeInv /\ LeaseInv)
  BY InitTypeInv, NextTypeInv, InitLeaseInv, NextLeaseInv, PTL DEF Spec
<1>2. TypeInv /\ LeaseInv /\ [Next]_vars => [ConfirmationKept]_vars
  BY StepConfirmationKept
<1> QED
  BY <1>1, <1>2, PTL DEF Spec, ReviewKept, ConfirmationKept

=============================================================================
