------------------------- MODULE ImportLifecycleProofs -------------------------
(***************************************************************************)
(* Two promises of an import, proved for every instance in which faults    *)
(* leave a worker alone with its lease.                                    *)
(*   A run that is offered for review has every record of its source       *)
(* (ReviewIsComplete), provided that no worker outlives its lease, no      *)
(* delivery is dead-lettered under a live worker, no client repeats the    *)
(* completion of its upload, and runs are finalized only after they were   *)
(* offered for review or have failed.  Then ImportRun implements           *)
(* ImportLifecycle as well (LifecycleImplemented).                         *)
(***************************************************************************)
EXTENDS ImportRunProofs, ImportRunLifecycle

USE DEF row, staged, flow, thread, base, vars

ReviewFirst == FinalizeFrom \subseteq {"PREPROCESSED", "FAILED"}

\* Phases of a worker that took the lease and has not written an outcome.
Active == Staging \cup {"failing", "failCommit"}

\* The record was staged, or an administrator has rejected it since.
Reviewed(b) == cand[b] /= "absent" \/ b \in rejected

(* A run without a recorded source is failed on delivery and never worked  *)
(* on; any other has at most one active worker, ...                        *)
Sourceless ==
    source = "unrecorded" =>
      /\ status /= "PREPROCESSED"
      /\ \A w \in Workers : pc[w] \notin (Active \cup {"received"}) \ {"failCommit"}

Exclusive ==
    source /= "unrecorded" =>
      /\ \A v, w \in Workers : pc[v] \in Active /\ pc[w] \in Active => v = w
      /\ \A w \in Workers :
           pc[w] \in Active =>
             /\ status \in {"PROCESSING", "CANCELLING", "CANCELLED"}
             /\ status = "PROCESSING" => lease = "live"

\* ... which has read what it replays, ...
WindowRead == \A w \in Workers : pc[w] = "stage" => window[w] /= "unread"

(* ... and has staged every batch before its own; all of them once it is   *)
(* past the last one.  Only a finished cancellation discards them.         *)
Progress ==
    status /= "CANCELLED" =>
      \A w \in Workers, b \in Batches :
        \/ pc[w] \in {"batch", "stage"} /\ b < batch[w]
        \/ pc[w] \in {"refresh", "complete", "commit"}
        => Reviewed(b)

Offered == status = "PREPROCESSED" => \A b \in Batches : Reviewed(b)

Reviewable == Sourceless /\ Exclusive /\ WindowRead /\ Progress /\ Offered

Undisturbed == LeaseHonoured /\ NoFault("dead")

ReviewInv == Undisturbed => Reviewable

\* Nothing is staged and no worker is active when the run is created.
LEMMA InitReviewInv == Init => ReviewInv
BY WritersKnown
   DEF Init, ReviewInv, Reviewable, Sourceless, Exclusive, WindowRead,
       Progress, Offered, Active, Staging

(* While nothing has disturbed the run, no request of its client is under  *)
(* way.                                                                    *)
LEMMA NotRepeated ==
    ASSUME TypeInv, Undisturbed, Undisturbed'
    PROVE  ~(RepeatCompletion \/ CreateAgain \/ PersistAgain \/ PersistAgainRefused)
<1>1. pc[Client] = "idle"
  BY DEF TypeInv, ClientIdle, Undisturbed, LeaseHonoured
<1>2. ~RepeatCompletion
  BY DEF TypeInv, TypeOK, RepeatCompletion, Fault, FaultKinds, Undisturbed,
         LeaseHonoured, NoFault
<1> QED
  BY <1>1, <1>2 DEF CreateAgain, PersistAgain, PersistAgainRefused

(* A run that can be claimed or dispatched again has no active worker,     *)
(* unless it has no source and is about to be failed.                      *)
LEMMA ClaimableIsIdle ==
    ASSUME Exclusive, Claimable, source /= "unrecorded"
    PROVE  \A v \in Workers : pc[v] \notin Active
BY DEF Exclusive, Claimable

(* So has a run that can be finalized.                                     *)
LEMMA FinalizedIsIdle ==
    ASSUME Exclusive, Sourceless, status \in FinalizeFrom, ReviewFirst
    PROVE  \A w \in Workers : pc[w] \notin Staging
BY DEF Exclusive, Sourceless, ReviewFirst, Active, Staging

(* A run without a source stays unworked.                                  *)
LEMMA NextSourceless ==
    ASSUME TypeInv, Reviewable, Undisturbed, Undisturbed', ReviewFirst,
           [Next]_vars
    PROVE  Sourceless'
<1> USE WritersKnown DEF Goto, Reviewable, TypeInv, TypeOK,
            Sourceless, Active, Staging
<1>1. ASSUME NEW w \in Workers, Deliver(w) PROVE Sourceless'
  BY <1>1 DEF Deliver
<1>2. ASSUME NEW w \in Workers, BreakOff(w) PROVE Sourceless'
  BY <1>2 DEF BreakOff
<1>3. ASSUME NEW w \in Workers, ReconcileCancellation(w) PROVE Sourceless'
  BY <1>3 DEF ReconcileCancellation
<1>4. ASSUME NEW w \in Workers, DeadLetter(w) PROVE Sourceless'
  BY <1>4 DEF DeadLetter, Acked, Fault, FaultKinds, NoFault
<1>5. ASSUME NEW w \in Workers, Crash(w) PROVE Sourceless'
  BY <1>5 DEF Crash, Acked
<1>6. ASSUME NEW w \in Workers, Claim(w) PROVE Sourceless'
  BY <1>6 DEF Claim
<1>7. ASSUME NEW w \in Workers, ClaimRefused(w) PROVE Sourceless'
  BY <1>7 DEF ClaimRefused
<1>8. ASSUME NEW w \in Workers, Nak(w) PROVE Sourceless'
  BY <1>8 DEF Nak, Acked
<1>9. ASSUME NEW w \in Workers, Download(w) PROVE Sourceless'
  BY <1>9 DEF Download
<1>10. ASSUME NEW w \in Workers, ReadWindow(w) PROVE Sourceless'
  BY <1>10 DEF ReadWindow
<1>11. ASSUME NEW w \in Workers, SeeCancel(w) PROVE Sourceless'
  BY <1>11 DEF SeeCancel
<1>12. ASSUME NEW w \in Workers, Checkpoint(w) PROVE Sourceless'
  BY <1>12 DEF Checkpoint, StagedRow, CheckpointConflict
<1>13. ASSUME NEW w \in Workers, CheckpointRefused(w) PROVE Sourceless'
  BY <1>13 DEF CheckpointRefused
<1>14. ASSUME NEW w \in Workers, StopHeartbeat(w) PROVE Sourceless'
  BY <1>14 DEF StopHeartbeat
<1>15. ASSUME NEW w \in Workers, Refresh(w) PROVE Sourceless'
  BY <1>15 DEF Refresh
<1>16. ASSUME NEW w \in Workers, CheckStatus(w) PROVE Sourceless'
  BY <1>16 DEF CheckStatus
<1>17. ASSUME NEW w \in Workers, Commit(w) PROVE Sourceless'
  BY <1>17 DEF Commit, Acked, RowGuarded
<1>18. ASSUME NEW w \in Workers, CommitRefused(w) PROVE Sourceless'
  BY <1>18 DEF CommitRefused
<1>19. ASSUME NEW w \in Workers, BeginFail(w) PROVE Sourceless'
  BY <1>19 DEF BeginFail
<1>20. ASSUME NEW w \in Workers, CommitFail(w) PROVE Sourceless'
  BY <1>20 DEF CommitFail, Acked, RowGuarded
<1>21. ASSUME NEW w \in Workers, FailRefused(w) PROVE Sourceless'
  BY <1>21 DEF FailRefused
<1>22. ASSUME NEW w \in Workers, FinishCancellation(w) PROVE Sourceless'
  BY <1>22 DEF FinishCancellation
<1>23. ASSUME NEW w \in Workers, DeleteSource(w) PROVE Sourceless'
  BY <1>23 DEF DeleteSource, Acked
<1>24. ASSUME NEW w \in Workers, HeartbeatExtend(w) PROVE Sourceless'
  BY <1>24 DEF HeartbeatExtend
<1>25. ASSUME NEW w \in Workers, HeartbeatEnd(w) PROVE Sourceless'
  BY <1>25 DEF HeartbeatEnd
<1>26. CASE Redispatch
  BY <1>26 DEF Redispatch, Claimable
<1>27. CASE LeaseExpires
  BY <1>27 DEF LeaseExpires
<1>28. CASE Overrun
  BY <1>28 DEF Overrun, Fault, FaultKinds, Undisturbed, LeaseHonoured, NoFault
<1>29. CASE LoseMessage
  BY <1>29 DEF LoseMessage
<1>30. CASE Cancel
  BY <1>30 DEF Cancel
<1>31. CASE MarkProcessed
  BY <1>31 DEF MarkProcessed
<1>32. ASSUME NEW b \in Batches, Confirm(b) PROVE Sourceless'
  BY <1>32 DEF Confirm
<1>33. ASSUME NEW b \in Batches, Reject(b) PROVE Sourceless'
  BY <1>33 DEF Reject
<1>34. CASE UNCHANGED vars
  BY <1>34
<1>35. CASE RepeatCompletion
  BY <1>35, NotRepeated DEF RepeatCompletion, TypeInv
<1>36. CASE CreateAgain
  BY <1>36, NotRepeated DEF CreateAgain, TypeInv
<1>37. CASE PersistAgain
  BY <1>37, NotRepeated DEF PersistAgain, TypeInv
<1>38. CASE PersistAgainRefused
  BY <1>38, NotRepeated DEF PersistAgainRefused, TypeInv
<1> QED
  BY <1>1, <1>2, <1>3, <1>4, <1>5, <1>6, <1>7, <1>8, <1>9, <1>10, <1>11,
     <1>12, <1>13, <1>14, <1>15, <1>16, <1>17, <1>18, <1>19, <1>20, <1>21,
     <1>22, <1>23, <1>24, <1>25, <1>26, <1>27, <1>28, <1>29, <1>30, <1>31,
     <1>32, <1>33, <1>34, <1>35, <1>36, <1>37, <1>38
     DEF Next, Handle, Heartbeat, Administrator, Repeat

(* An active worker stays the only one.                                    *)
LEMMA NextExclusive ==
    ASSUME TypeInv, Reviewable, Undisturbed, Undisturbed', ReviewFirst,
           [Next]_vars
    PROVE  Exclusive'
<1> USE WritersKnown DEF Goto, Reviewable, TypeInv, TypeOK,
            Sourceless, Exclusive, Active, Staging, Holding, Undisturbed, ReviewFirst
<1>1. ASSUME NEW w \in Workers, Deliver(w) PROVE Exclusive'
  BY <1>1 DEF Deliver
<1>2. ASSUME NEW w \in Workers, BreakOff(w) PROVE Exclusive'
  BY <1>2 DEF BreakOff
<1>3. ASSUME NEW w \in Workers, ReconcileCancellation(w) PROVE Exclusive'
  BY <1>3 DEF ReconcileCancellation
<1>4. ASSUME NEW w \in Workers, DeadLetter(w) PROVE Exclusive'
  BY <1>4 DEF DeadLetter, Acked, Fault, FaultKinds, NoFault
<1>5. ASSUME NEW w \in Workers, Crash(w) PROVE Exclusive'
  BY <1>5 DEF Crash, Acked
<1>6. ASSUME NEW w \in Workers, Claim(w) PROVE Exclusive'
  <2>1. source /= "unrecorded" /\ \A v \in Workers : pc[v] \notin Active
    BY <1>6, ClaimableIsIdle DEF Claim
  <2>2. pc'[w] = "download" /\ \A v \in Workers : v /= w => pc'[v] = pc[v]
    BY <1>6 DEF Claim
  <2>3. status' = "PROCESSING" /\ lease' = "live"
    BY <1>6 DEF Claim
  <2> QED
    BY <2>1, <2>2, <2>3
<1>7. ASSUME NEW w \in Workers, ClaimRefused(w) PROVE Exclusive'
  BY <1>7 DEF ClaimRefused
<1>8. ASSUME NEW w \in Workers, Nak(w) PROVE Exclusive'
  BY <1>8 DEF Nak, Acked
<1>9. ASSUME NEW w \in Workers, Download(w) PROVE Exclusive'
  BY <1>9 DEF Download
<1>10. ASSUME NEW w \in Workers, ReadWindow(w) PROVE Exclusive'
  BY <1>10 DEF ReadWindow
<1>11. ASSUME NEW w \in Workers, SeeCancel(w) PROVE Exclusive'
  BY <1>11 DEF SeeCancel
<1>12. ASSUME NEW w \in Workers, Checkpoint(w) PROVE Exclusive'
  BY <1>12 DEF Checkpoint, StagedRow, CheckpointConflict
<1>13. ASSUME NEW w \in Workers, CheckpointRefused(w) PROVE Exclusive'
  BY <1>13 DEF CheckpointRefused
<1>14. ASSUME NEW w \in Workers, StopHeartbeat(w) PROVE Exclusive'
  BY <1>14 DEF StopHeartbeat
<1>15. ASSUME NEW w \in Workers, Refresh(w) PROVE Exclusive'
  BY <1>15 DEF Refresh
<1>16. ASSUME NEW w \in Workers, CheckStatus(w) PROVE Exclusive'
  BY <1>16 DEF CheckStatus
<1>17. ASSUME NEW w \in Workers, Commit(w) PROVE Exclusive'
  BY <1>17 DEF Commit, Acked, RowGuarded
<1>18. ASSUME NEW w \in Workers, CommitRefused(w) PROVE Exclusive'
  BY <1>18 DEF CommitRefused
<1>19. ASSUME NEW w \in Workers, BeginFail(w) PROVE Exclusive'
  BY <1>19 DEF BeginFail
<1>20. ASSUME NEW w \in Workers, CommitFail(w) PROVE Exclusive'
  BY <1>20 DEF CommitFail, Acked, RowGuarded
<1>21. ASSUME NEW w \in Workers, FailRefused(w) PROVE Exclusive'
  BY <1>21 DEF FailRefused
<1>22. ASSUME NEW w \in Workers, FinishCancellation(w) PROVE Exclusive'
  BY <1>22 DEF FinishCancellation
<1>23. ASSUME NEW w \in Workers, DeleteSource(w) PROVE Exclusive'
  BY <1>23 DEF DeleteSource, Acked
<1>24. ASSUME NEW w \in Workers, HeartbeatExtend(w) PROVE Exclusive'
  BY <1>24 DEF HeartbeatExtend
<1>25. ASSUME NEW w \in Workers, HeartbeatEnd(w) PROVE Exclusive'
  BY <1>25 DEF HeartbeatEnd
<1>26. CASE Redispatch
  BY <1>26 DEF Redispatch, Claimable
<1>27. CASE LeaseExpires
  BY <1>27 DEF LeaseExpires
<1>28. CASE Overrun
  BY <1>28 DEF Overrun, Fault, FaultKinds, Undisturbed, LeaseHonoured, NoFault
<1>29. CASE LoseMessage
  BY <1>29 DEF LoseMessage
<1>30. CASE Cancel
  BY <1>30 DEF Cancel
<1>31. CASE MarkProcessed
  BY <1>31 DEF MarkProcessed
<1>32. ASSUME NEW b \in Batches, Confirm(b) PROVE Exclusive'
  BY <1>32 DEF Confirm
<1>33. ASSUME NEW b \in Batches, Reject(b) PROVE Exclusive'
  BY <1>33 DEF Reject
<1>34. CASE UNCHANGED vars
  BY <1>34
<1>35. CASE RepeatCompletion
  BY <1>35, NotRepeated DEF RepeatCompletion, TypeInv
<1>36. CASE CreateAgain
  BY <1>36, NotRepeated DEF CreateAgain, TypeInv
<1>37. CASE PersistAgain
  BY <1>37, NotRepeated DEF PersistAgain, TypeInv
<1>38. CASE PersistAgainRefused
  BY <1>38, NotRepeated DEF PersistAgainRefused, TypeInv
<1> QED
  BY <1>1, <1>2, <1>3, <1>4, <1>5, <1>6, <1>7, <1>8, <1>9, <1>10, <1>11,
     <1>12, <1>13, <1>14, <1>15, <1>16, <1>17, <1>18, <1>19, <1>20, <1>21,
     <1>22, <1>23, <1>24, <1>25, <1>26, <1>27, <1>28, <1>29, <1>30, <1>31,
     <1>32, <1>33, <1>34, <1>35, <1>36, <1>37, <1>38
     DEF Next, Handle, Heartbeat, Administrator, Repeat

(* Staging starts by reading the candidate rows.                           *)
LEMMA NextWindowRead ==
    ASSUME TypeInv, Reviewable, Undisturbed, Undisturbed', ReviewFirst,
           [Next]_vars
    PROVE  WindowRead'
<1> USE WritersKnown DEF Goto, Reviewable, TypeInv, TypeOK, WindowRead
<1>1. ASSUME NEW w \in Workers, Deliver(w) PROVE WindowRead'
  BY <1>1 DEF Deliver
<1>2. ASSUME NEW w \in Workers, BreakOff(w) PROVE WindowRead'
  BY <1>2 DEF BreakOff
<1>3. ASSUME NEW w \in Workers, ReconcileCancellation(w) PROVE WindowRead'
  BY <1>3 DEF ReconcileCancellation
<1>4. ASSUME NEW w \in Workers, DeadLetter(w) PROVE WindowRead'
  BY <1>4 DEF DeadLetter, Acked, Fault, FaultKinds, NoFault
<1>5. ASSUME NEW w \in Workers, Crash(w) PROVE WindowRead'
  BY <1>5 DEF Crash, Acked
<1>6. ASSUME NEW w \in Workers, Claim(w) PROVE WindowRead'
  BY <1>6 DEF Claim
<1>7. ASSUME NEW w \in Workers, ClaimRefused(w) PROVE WindowRead'
  BY <1>7 DEF ClaimRefused
<1>8. ASSUME NEW w \in Workers, Nak(w) PROVE WindowRead'
  BY <1>8 DEF Nak, Acked
<1>9. ASSUME NEW w \in Workers, Download(w) PROVE WindowRead'
  BY <1>9 DEF Download
<1>10. ASSUME NEW w \in Workers, ReadWindow(w) PROVE WindowRead'
  BY <1>10 DEF ReadWindow
<1>11. ASSUME NEW w \in Workers, SeeCancel(w) PROVE WindowRead'
  BY <1>11 DEF SeeCancel
<1>12. ASSUME NEW w \in Workers, Checkpoint(w) PROVE WindowRead'
  BY <1>12 DEF Checkpoint, StagedRow, CheckpointConflict
<1>13. ASSUME NEW w \in Workers, CheckpointRefused(w) PROVE WindowRead'
  BY <1>13 DEF CheckpointRefused
<1>14. ASSUME NEW w \in Workers, StopHeartbeat(w) PROVE WindowRead'
  BY <1>14 DEF StopHeartbeat
<1>15. ASSUME NEW w \in Workers, Refresh(w) PROVE WindowRead'
  BY <1>15 DEF Refresh
<1>16. ASSUME NEW w \in Workers, CheckStatus(w) PROVE WindowRead'
  BY <1>16 DEF CheckStatus
<1>17. ASSUME NEW w \in Workers, Commit(w) PROVE WindowRead'
  BY <1>17 DEF Commit, Acked, RowGuarded
<1>18. ASSUME NEW w \in Workers, CommitRefused(w) PROVE WindowRead'
  BY <1>18 DEF CommitRefused
<1>19. ASSUME NEW w \in Workers, BeginFail(w) PROVE WindowRead'
  BY <1>19 DEF BeginFail
<1>20. ASSUME NEW w \in Workers, CommitFail(w) PROVE WindowRead'
  BY <1>20 DEF CommitFail, Acked, RowGuarded
<1>21. ASSUME NEW w \in Workers, FailRefused(w) PROVE WindowRead'
  BY <1>21 DEF FailRefused
<1>22. ASSUME NEW w \in Workers, FinishCancellation(w) PROVE WindowRead'
  BY <1>22 DEF FinishCancellation
<1>23. ASSUME NEW w \in Workers, DeleteSource(w) PROVE WindowRead'
  BY <1>23 DEF DeleteSource, Acked
<1>24. ASSUME NEW w \in Workers, HeartbeatExtend(w) PROVE WindowRead'
  BY <1>24 DEF HeartbeatExtend
<1>25. ASSUME NEW w \in Workers, HeartbeatEnd(w) PROVE WindowRead'
  BY <1>25 DEF HeartbeatEnd
<1>26. CASE Redispatch
  BY <1>26 DEF Redispatch, Claimable
<1>27. CASE LeaseExpires
  BY <1>27 DEF LeaseExpires
<1>28. CASE Overrun
  BY <1>28 DEF Overrun, Fault, FaultKinds, Undisturbed, LeaseHonoured, NoFault
<1>29. CASE LoseMessage
  BY <1>29 DEF LoseMessage
<1>30. CASE Cancel
  BY <1>30 DEF Cancel
<1>31. CASE MarkProcessed
  BY <1>31 DEF MarkProcessed
<1>32. ASSUME NEW b \in Batches, Confirm(b) PROVE WindowRead'
  BY <1>32 DEF Confirm
<1>33. ASSUME NEW b \in Batches, Reject(b) PROVE WindowRead'
  BY <1>33 DEF Reject
<1>34. CASE UNCHANGED vars
  BY <1>34
<1>35. CASE RepeatCompletion
  BY <1>35, NotRepeated DEF RepeatCompletion, TypeInv
<1>36. CASE CreateAgain
  BY <1>36, NotRepeated DEF CreateAgain, TypeInv
<1>37. CASE PersistAgain
  BY <1>37, NotRepeated DEF PersistAgain, TypeInv
<1>38. CASE PersistAgainRefused
  BY <1>38, NotRepeated DEF PersistAgainRefused, TypeInv
<1> QED
  BY <1>1, <1>2, <1>3, <1>4, <1>5, <1>6, <1>7, <1>8, <1>9, <1>10, <1>11,
     <1>12, <1>13, <1>14, <1>15, <1>16, <1>17, <1>18, <1>19, <1>20, <1>21,
     <1>22, <1>23, <1>24, <1>25, <1>26, <1>27, <1>28, <1>29, <1>30, <1>31,
     <1>32, <1>33, <1>34, <1>35, <1>36, <1>37, <1>38
     DEF Next, Handle, Heartbeat, Administrator, Repeat

(* A checkpoint stages its batch, and nothing but a cancellation unstages one. *)
LEMMA NextProgress ==
    ASSUME TypeInv, Reviewable, Undisturbed, Undisturbed', ReviewFirst,
           [Next]_vars
    PROVE  Progress'
<1> USE WritersKnown DEF Goto, Reviewable, TypeInv, TypeOK,
            StageInRange, Batches, WindowRead, Progress, Reviewed
<1>1. ASSUME NEW w \in Workers, Deliver(w) PROVE Progress'
  BY <1>1 DEF Deliver
<1>2. ASSUME NEW w \in Workers, BreakOff(w) PROVE Progress'
  BY <1>2 DEF BreakOff
<1>3. ASSUME NEW w \in Workers, ReconcileCancellation(w) PROVE Progress'
  BY <1>3 DEF ReconcileCancellation
<1>4. ASSUME NEW w \in Workers, DeadLetter(w) PROVE Progress'
  BY <1>4 DEF DeadLetter, Acked, Fault, FaultKinds, NoFault
<1>5. ASSUME NEW w \in Workers, Crash(w) PROVE Progress'
  BY <1>5 DEF Crash, Acked
<1>6. ASSUME NEW w \in Workers, Claim(w) PROVE Progress'
  BY <1>6 DEF Claim, Claimable
<1>7. ASSUME NEW w \in Workers, ClaimRefused(w) PROVE Progress'
  BY <1>7 DEF ClaimRefused
<1>8. ASSUME NEW w \in Workers, Nak(w) PROVE Progress'
  BY <1>8 DEF Nak, Acked
<1>9. ASSUME NEW w \in Workers, Download(w) PROVE Progress'
  BY <1>9 DEF Download
<1>10. ASSUME NEW w \in Workers, ReadWindow(w) PROVE Progress'
  BY <1>10 DEF ReadWindow
<1>11. ASSUME NEW w \in Workers, SeeCancel(w) PROVE Progress'
  BY <1>11 DEF SeeCancel
<1>12. ASSUME NEW w \in Workers, Checkpoint(w) PROVE Progress'
  BY <1>12 DEF Checkpoint, StagedRow, CheckpointConflict
<1>13. ASSUME NEW w \in Workers, CheckpointRefused(w) PROVE Progress'
  BY <1>13 DEF CheckpointRefused
<1>14. ASSUME NEW w \in Workers, StopHeartbeat(w) PROVE Progress'
  <2>1. \A b \in Batches : b < batch[w]
    BY <1>14, BatchesAssumption DEF StopHeartbeat
  <2>2. pc'[w] = "refresh" /\ \A v \in Workers : v /= w => pc'[v] = pc[v]
    BY <1>14 DEF StopHeartbeat
  <2>3. pc[w] = "batch"
    BY <1>14 DEF StopHeartbeat
  <2>4. UNCHANGED <<status, cand, rejected, batch>>
    BY <1>14 DEF StopHeartbeat
  <2> QED
    BY <2>1, <2>2, <2>3, <2>4
<1>15. ASSUME NEW w \in Workers, Refresh(w) PROVE Progress'
  BY <1>15 DEF Refresh
<1>16. ASSUME NEW w \in Workers, CheckStatus(w) PROVE Progress'
  BY <1>16 DEF CheckStatus
<1>17. ASSUME NEW w \in Workers, Commit(w) PROVE Progress'
  BY <1>17 DEF Commit, Acked, RowGuarded
<1>18. ASSUME NEW w \in Workers, CommitRefused(w) PROVE Progress'
  BY <1>18 DEF CommitRefused
<1>19. ASSUME NEW w \in Workers, BeginFail(w) PROVE Progress'
  BY <1>19 DEF BeginFail
<1>20. ASSUME NEW w \in Workers, CommitFail(w) PROVE Progress'
  BY <1>20 DEF CommitFail, Acked, RowGuarded
<1>21. ASSUME NEW w \in Workers, FailRefused(w) PROVE Progress'
  BY <1>21 DEF FailRefused
<1>22. ASSUME NEW w \in Workers, FinishCancellation(w) PROVE Progress'
  BY <1>22 DEF FinishCancellation
<1>23. ASSUME NEW w \in Workers, DeleteSource(w) PROVE Progress'
  BY <1>23 DEF DeleteSource, Acked
<1>24. ASSUME NEW w \in Workers, HeartbeatExtend(w) PROVE Progress'
  BY <1>24 DEF HeartbeatExtend
<1>25. ASSUME NEW w \in Workers, HeartbeatEnd(w) PROVE Progress'
  BY <1>25 DEF HeartbeatEnd
<1>26. CASE Redispatch
  BY <1>26 DEF Redispatch, Claimable
<1>27. CASE LeaseExpires
  BY <1>27 DEF LeaseExpires
<1>28. CASE Overrun
  BY <1>28 DEF Overrun, Fault, FaultKinds, Undisturbed, LeaseHonoured, NoFault
<1>29. CASE LoseMessage
  BY <1>29 DEF LoseMessage
<1>30. CASE Cancel
  BY <1>30 DEF Cancel
<1>31. CASE MarkProcessed
  <2>1. \A w \in Workers : pc[w] \notin Staging
    BY <1>31, FinalizedIsIdle DEF MarkProcessed
  <2> QED
    BY <1>31, <2>1 DEF MarkProcessed, Staging
<1>32. ASSUME NEW b \in Batches, Confirm(b) PROVE Progress'
  BY <1>32 DEF Confirm
<1>33. ASSUME NEW b \in Batches, Reject(b) PROVE Progress'
  BY <1>33 DEF Reject
<1>34. CASE UNCHANGED vars
  BY <1>34
<1>35. CASE RepeatCompletion
  BY <1>35, NotRepeated DEF RepeatCompletion, TypeInv
<1>36. CASE CreateAgain
  BY <1>36, NotRepeated DEF CreateAgain, TypeInv
<1>37. CASE PersistAgain
  BY <1>37, NotRepeated DEF PersistAgain, TypeInv
<1>38. CASE PersistAgainRefused
  BY <1>38, NotRepeated DEF PersistAgainRefused, TypeInv
<1> QED
  BY <1>1, <1>2, <1>3, <1>4, <1>5, <1>6, <1>7, <1>8, <1>9, <1>10, <1>11,
     <1>12, <1>13, <1>14, <1>15, <1>16, <1>17, <1>18, <1>19, <1>20, <1>21,
     <1>22, <1>23, <1>24, <1>25, <1>26, <1>27, <1>28, <1>29, <1>30, <1>31,
     <1>32, <1>33, <1>34, <1>35, <1>36, <1>37, <1>38
     DEF Next, Handle, Heartbeat, Administrator, Repeat

(* The outcome is written by a worker that has staged everything.          *)
LEMMA NextOffered ==
    ASSUME TypeInv, Reviewable, Undisturbed, Undisturbed', ReviewFirst,
           [Next]_vars
    PROVE  Offered'
<1> USE WritersKnown DEF Goto, Reviewable, TypeInv, TypeOK,
            Progress, Offered, Reviewed
<1>1. ASSUME NEW w \in Workers, Deliver(w) PROVE Offered'
  BY <1>1 DEF Deliver
<1>2. ASSUME NEW w \in Workers, BreakOff(w) PROVE Offered'
  BY <1>2 DEF BreakOff
<1>3. ASSUME NEW w \in Workers, ReconcileCancellation(w) PROVE Offered'
  BY <1>3 DEF ReconcileCancellation
<1>4. ASSUME NEW w \in Workers, DeadLetter(w) PROVE Offered'
  BY <1>4 DEF DeadLetter, Acked, Fault, FaultKinds, NoFault
<1>5. ASSUME NEW w \in Workers, Crash(w) PROVE Offered'
  BY <1>5 DEF Crash, Acked
<1>6. ASSUME NEW w \in Workers, Claim(w) PROVE Offered'
  BY <1>6 DEF Claim
<1>7. ASSUME NEW w \in Workers, ClaimRefused(w) PROVE Offered'
  BY <1>7 DEF ClaimRefused
<1>8. ASSUME NEW w \in Workers, Nak(w) PROVE Offered'
  BY <1>8 DEF Nak, Acked
<1>9. ASSUME NEW w \in Workers, Download(w) PROVE Offered'
  BY <1>9 DEF Download
<1>10. ASSUME NEW w \in Workers, ReadWindow(w) PROVE Offered'
  BY <1>10 DEF ReadWindow
<1>11. ASSUME NEW w \in Workers, SeeCancel(w) PROVE Offered'
  BY <1>11 DEF SeeCancel
<1>12. ASSUME NEW w \in Workers, Checkpoint(w) PROVE Offered'
  BY <1>12 DEF Checkpoint, StagedRow, CheckpointConflict
<1>13. ASSUME NEW w \in Workers, CheckpointRefused(w) PROVE Offered'
  BY <1>13 DEF CheckpointRefused
<1>14. ASSUME NEW w \in Workers, StopHeartbeat(w) PROVE Offered'
  BY <1>14 DEF StopHeartbeat
<1>15. ASSUME NEW w \in Workers, Refresh(w) PROVE Offered'
  BY <1>15 DEF Refresh
<1>16. ASSUME NEW w \in Workers, CheckStatus(w) PROVE Offered'
  BY <1>16 DEF CheckStatus
<1>17. ASSUME NEW w \in Workers, Commit(w) PROVE Offered'
  BY <1>17 DEF Commit, Acked, RowGuarded
<1>18. ASSUME NEW w \in Workers, CommitRefused(w) PROVE Offered'
  BY <1>18 DEF CommitRefused
<1>19. ASSUME NEW w \in Workers, BeginFail(w) PROVE Offered'
  BY <1>19 DEF BeginFail
<1>20. ASSUME NEW w \in Workers, CommitFail(w) PROVE Offered'
  BY <1>20 DEF CommitFail, Acked, RowGuarded
<1>21. ASSUME NEW w \in Workers, FailRefused(w) PROVE Offered'
  BY <1>21 DEF FailRefused
<1>22. ASSUME NEW w \in Workers, FinishCancellation(w) PROVE Offered'
  BY <1>22 DEF FinishCancellation
<1>23. ASSUME NEW w \in Workers, DeleteSource(w) PROVE Offered'
  BY <1>23 DEF DeleteSource, Acked
<1>24. ASSUME NEW w \in Workers, HeartbeatExtend(w) PROVE Offered'
  BY <1>24 DEF HeartbeatExtend
<1>25. ASSUME NEW w \in Workers, HeartbeatEnd(w) PROVE Offered'
  BY <1>25 DEF HeartbeatEnd
<1>26. CASE Redispatch
  BY <1>26 DEF Redispatch, Claimable
<1>27. CASE LeaseExpires
  BY <1>27 DEF LeaseExpires
<1>28. CASE Overrun
  BY <1>28 DEF Overrun, Fault, FaultKinds, Undisturbed, LeaseHonoured, NoFault
<1>29. CASE LoseMessage
  BY <1>29 DEF LoseMessage
<1>30. CASE Cancel
  BY <1>30 DEF Cancel
<1>31. CASE MarkProcessed
  BY <1>31 DEF MarkProcessed
<1>32. ASSUME NEW b \in Batches, Confirm(b) PROVE Offered'
  BY <1>32 DEF Confirm
<1>33. ASSUME NEW b \in Batches, Reject(b) PROVE Offered'
  BY <1>33 DEF Reject
<1>34. CASE UNCHANGED vars
  BY <1>34
<1>35. CASE RepeatCompletion
  BY <1>35, NotRepeated DEF RepeatCompletion, TypeInv
<1>36. CASE CreateAgain
  BY <1>36, NotRepeated DEF CreateAgain, TypeInv
<1>37. CASE PersistAgain
  BY <1>37, NotRepeated DEF PersistAgain, TypeInv
<1>38. CASE PersistAgainRefused
  BY <1>38, NotRepeated DEF PersistAgainRefused, TypeInv
<1> QED
  BY <1>1, <1>2, <1>3, <1>4, <1>5, <1>6, <1>7, <1>8, <1>9, <1>10, <1>11,
     <1>12, <1>13, <1>14, <1>15, <1>16, <1>17, <1>18, <1>19, <1>20, <1>21,
     <1>22, <1>23, <1>24, <1>25, <1>26, <1>27, <1>28, <1>29, <1>30, <1>31,
     <1>32, <1>33, <1>34, <1>35, <1>36, <1>37, <1>38
     DEF Next, Handle, Heartbeat, Administrator, Repeat

\* No step loses a record that the active worker has passed.
LEMMA NextReviewInv ==
    ASSUME ReviewFirst
    PROVE  TypeInv /\ ReviewInv /\ [Next]_vars => ReviewInv'
<1> SUFFICES ASSUME TypeInv, ReviewInv, [Next]_vars, Undisturbed'
             PROVE  Reviewable'
  BY DEF ReviewInv
<1>1. Undisturbed
  BY NoFaultBefore DEF Undisturbed, LeaseHonoured, TypeInv, FaultKinds
<1>2. Reviewable
  BY <1>1 DEF ReviewInv
<1> QED
  BY <1>1, <1>2, NextSourceless, NextExclusive, NextWindowRead, NextProgress,
     NextOffered DEF Reviewable

(* A run offered for review holds every record of its source that was not  *)
(* rejected, whichever workers staged it and wherever they died.           *)
THEOREM ReviewIsComplete ==
    ASSUME ReviewFirst
    PROVE  Spec => []ReviewableComplete
<1>1. TypeInv /\ ReviewInv /\ [Next]_vars => ReviewInv'
  BY NextReviewInv
<1>2. Spec => [](TypeInv /\ ReviewInv)
  BY <1>1, InitTypeInv, NextTypeInv, InitReviewInv, PTL DEF Spec
<1>3. ReviewInv => ReviewableComplete
  BY DEF ReviewInv, Undisturbed, Reviewable, Offered, Reviewed,
         ReviewableComplete
<1> QED
  BY <1>2, <1>3, PTL

-----------------------------------------------------------------------------
\* The refinement of ImportLifecycle.

WellRun ==
    /\ ReviewFirst
    /\ MaxFaults["overrun"] = 0
    /\ MaxFaults["dead"] = 0
    /\ MaxFaults["repeat"] = 0

(* A worker that fails a run without a source has read it unfinished.      *)
FailedUnfinished ==
    source = "unrecorded" =>
      \A w \in Workers :
        pc[w] = "failCommit" => baseStatus[w] \in {"QUEUED", "PROCESSING"}

LifeInv == Undisturbed /\ FailedUnfinished

\* What the refinement needs holds of a run that has just been created.
LEMMA InitLifeInv == Init => LifeInv
BY WritersKnown
   DEF Init, LifeInv, Undisturbed, LeaseHonoured, NoFault, FailedUnfinished,
       FaultKinds

\* A run that is well run stays undisturbed: no overrun, no dead letter.
LEMMA NextUndisturbed ==
    ASSUME WellRun, TypeInv, Undisturbed, [Next]_vars
    PROVE  Undisturbed'
<1> USE DEF WellRun, TypeInv, TypeOK, Undisturbed, LeaseHonoured, NoFault
<1>1. ASSUME NEW w \in Workers, Deliver(w) PROVE Undisturbed'
  BY <1>1 DEF Deliver
<1>2. ASSUME NEW w \in Workers, BreakOff(w) PROVE Undisturbed'
  BY <1>2 DEF BreakOff
<1>3. ASSUME NEW w \in Workers, ReconcileCancellation(w) PROVE Undisturbed'
  BY <1>3 DEF ReconcileCancellation
<1>4. ASSUME NEW w \in Workers, DeadLetter(w) PROVE Undisturbed'
  BY <1>4 DEF DeadLetter, Fault
<1>5. ASSUME NEW w \in Workers, Crash(w) PROVE Undisturbed'
  BY <1>5 DEF Crash, Fault
<1>6. ASSUME NEW w \in Workers, Claim(w) PROVE Undisturbed'
  BY <1>6 DEF Claim
<1>7. ASSUME NEW w \in Workers, ClaimRefused(w) PROVE Undisturbed'
  BY <1>7 DEF ClaimRefused
<1>8. ASSUME NEW w \in Workers, Nak(w) PROVE Undisturbed'
  BY <1>8 DEF Nak
<1>9. ASSUME NEW w \in Workers, Download(w) PROVE Undisturbed'
  BY <1>9 DEF Download
<1>10. ASSUME NEW w \in Workers, ReadWindow(w) PROVE Undisturbed'
  BY <1>10 DEF ReadWindow
<1>11. ASSUME NEW w \in Workers, SeeCancel(w) PROVE Undisturbed'
  BY <1>11 DEF SeeCancel
<1>12. ASSUME NEW w \in Workers, Checkpoint(w) PROVE Undisturbed'
  BY <1>12 DEF Checkpoint
<1>13. ASSUME NEW w \in Workers, CheckpointRefused(w) PROVE Undisturbed'
  BY <1>13 DEF CheckpointRefused
<1>14. ASSUME NEW w \in Workers, StopHeartbeat(w) PROVE Undisturbed'
  BY <1>14 DEF StopHeartbeat
<1>15. ASSUME NEW w \in Workers, Refresh(w) PROVE Undisturbed'
  BY <1>15 DEF Refresh
<1>16. ASSUME NEW w \in Workers, CheckStatus(w) PROVE Undisturbed'
  BY <1>16 DEF CheckStatus
<1>17. ASSUME NEW w \in Workers, Commit(w) PROVE Undisturbed'
  BY <1>17 DEF Commit
<1>18. ASSUME NEW w \in Workers, CommitRefused(w) PROVE Undisturbed'
  BY <1>18 DEF CommitRefused
<1>19. ASSUME NEW w \in Workers, BeginFail(w) PROVE Undisturbed'
  BY <1>19 DEF BeginFail
<1>20. ASSUME NEW w \in Workers, CommitFail(w) PROVE Undisturbed'
  BY <1>20 DEF CommitFail
<1>21. ASSUME NEW w \in Workers, FailRefused(w) PROVE Undisturbed'
  BY <1>21 DEF FailRefused
<1>22. ASSUME NEW w \in Workers, FinishCancellation(w) PROVE Undisturbed'
  BY <1>22 DEF FinishCancellation
<1>23. ASSUME NEW w \in Workers, DeleteSource(w) PROVE Undisturbed'
  BY <1>23 DEF DeleteSource
<1>24. ASSUME NEW w \in Workers, HeartbeatExtend(w) PROVE Undisturbed'
  BY <1>24 DEF HeartbeatExtend
<1>25. ASSUME NEW w \in Workers, HeartbeatEnd(w) PROVE Undisturbed'
  BY <1>25 DEF HeartbeatEnd
<1>26. CASE Redispatch
  BY <1>26 DEF Redispatch
<1>27. CASE LeaseExpires
  BY <1>27 DEF LeaseExpires
<1>28. CASE Overrun
  BY <1>28 DEF Overrun, Fault
<1>29. CASE LoseMessage
  BY <1>29 DEF LoseMessage, Fault
<1>30. CASE Cancel
  BY <1>30 DEF Cancel
<1>31. CASE MarkProcessed
  BY <1>31 DEF MarkProcessed
<1>32. ASSUME NEW b \in Batches, Confirm(b) PROVE Undisturbed'
  BY <1>32 DEF Confirm
<1>33. ASSUME NEW b \in Batches, Reject(b) PROVE Undisturbed'
  BY <1>33 DEF Reject
<1>34. CASE UNCHANGED vars
  BY <1>34
<1>35. CASE RepeatCompletion
  BY <1>35 DEF RepeatCompletion, Fault
<1>36. CASE CreateAgain
  BY <1>36 DEF CreateAgain
<1>37. CASE PersistAgain
  BY <1>37 DEF PersistAgain
<1>38. CASE PersistAgainRefused
  BY <1>38 DEF PersistAgainRefused
<1> QED
  BY <1>1, <1>2, <1>3, <1>4, <1>5, <1>6, <1>7, <1>8, <1>9, <1>10, <1>11,
     <1>12, <1>13, <1>14, <1>15, <1>16, <1>17, <1>18, <1>19, <1>20, <1>21,
     <1>22, <1>23, <1>24, <1>25, <1>26, <1>27, <1>28, <1>29, <1>30, <1>31,
     <1>32, <1>33, <1>34, <1>35, <1>36, <1>37, <1>38
     DEF Next, Handle, Heartbeat, Administrator, Repeat

\* A worker that fails a run without a source has read it unfinished.
LEMMA NextFailedUnfinished ==
    ASSUME TypeInv, Undisturbed, Undisturbed', Sourceless, FailedUnfinished, [Next]_vars
    PROVE  FailedUnfinished'
<1> USE WritersKnown DEF TypeInv, TypeOK, Sourceless, FailedUnfinished, Goto, Active, Staging
<1>1. ASSUME NEW w \in Workers, Deliver(w) PROVE FailedUnfinished'
  BY <1>1 DEF Deliver, Reload
<1>2. ASSUME NEW w \in Workers, BreakOff(w) PROVE FailedUnfinished'
  BY <1>2 DEF BreakOff
<1>3. ASSUME NEW w \in Workers, ReconcileCancellation(w)
      PROVE  FailedUnfinished'
  BY <1>3 DEF ReconcileCancellation
<1>4. ASSUME NEW w \in Workers, DeadLetter(w) PROVE FailedUnfinished'
  BY <1>4 DEF DeadLetter, Acked
<1>5. ASSUME NEW w \in Workers, Crash(w) PROVE FailedUnfinished'
  BY <1>5 DEF Crash, Acked
<1>6. ASSUME NEW w \in Workers, Claim(w) PROVE FailedUnfinished'
  BY <1>6 DEF Claim
<1>7. ASSUME NEW w \in Workers, ClaimRefused(w) PROVE FailedUnfinished'
  BY <1>7 DEF ClaimRefused
<1>8. ASSUME NEW w \in Workers, Nak(w) PROVE FailedUnfinished'
  BY <1>8 DEF Nak, Acked
<1>9. ASSUME NEW w \in Workers, Download(w) PROVE FailedUnfinished'
  BY <1>9 DEF Download
<1>10. ASSUME NEW w \in Workers, ReadWindow(w) PROVE FailedUnfinished'
  BY <1>10 DEF ReadWindow
<1>11. ASSUME NEW w \in Workers, SeeCancel(w) PROVE FailedUnfinished'
  BY <1>11 DEF SeeCancel
<1>12. ASSUME NEW w \in Workers, Checkpoint(w) PROVE FailedUnfinished'
  BY <1>12 DEF Checkpoint
<1>13. ASSUME NEW w \in Workers, CheckpointRefused(w) PROVE FailedUnfinished'
  BY <1>13 DEF CheckpointRefused
<1>14. ASSUME NEW w \in Workers, StopHeartbeat(w) PROVE FailedUnfinished'
  BY <1>14 DEF StopHeartbeat
<1>15. ASSUME NEW w \in Workers, Refresh(w) PROVE FailedUnfinished'
  BY <1>15 DEF Refresh, Reload
<1>16. ASSUME NEW w \in Workers, CheckStatus(w) PROVE FailedUnfinished'
  BY <1>16 DEF CheckStatus
<1>17. ASSUME NEW w \in Workers, Commit(w) PROVE FailedUnfinished'
  BY <1>17 DEF Commit, Acked
<1>18. ASSUME NEW w \in Workers, CommitRefused(w) PROVE FailedUnfinished'
  BY <1>18 DEF CommitRefused
<1>19. ASSUME NEW w \in Workers, BeginFail(w) PROVE FailedUnfinished'
  BY <1>19 DEF BeginFail, Reload
<1>20. ASSUME NEW w \in Workers, CommitFail(w) PROVE FailedUnfinished'
  BY <1>20 DEF CommitFail, Acked
<1>21. ASSUME NEW w \in Workers, FailRefused(w) PROVE FailedUnfinished'
  BY <1>21 DEF FailRefused
<1>22. ASSUME NEW w \in Workers, FinishCancellation(w) PROVE FailedUnfinished'
  BY <1>22 DEF FinishCancellation
<1>23. ASSUME NEW w \in Workers, DeleteSource(w) PROVE FailedUnfinished'
  BY <1>23 DEF DeleteSource, Acked
<1>24. ASSUME NEW w \in Workers, HeartbeatExtend(w) PROVE FailedUnfinished'
  BY <1>24 DEF HeartbeatExtend
<1>25. ASSUME NEW w \in Workers, HeartbeatEnd(w) PROVE FailedUnfinished'
  BY <1>25 DEF HeartbeatEnd
<1>26. CASE Redispatch
  BY <1>26 DEF Redispatch
<1>27. CASE LeaseExpires
  BY <1>27 DEF LeaseExpires
<1>28. CASE Overrun
  BY <1>28 DEF Overrun
<1>29. CASE LoseMessage
  BY <1>29 DEF LoseMessage
<1>30. CASE Cancel
  BY <1>30 DEF Cancel
<1>31. CASE MarkProcessed
  BY <1>31 DEF MarkProcessed
<1>32. ASSUME NEW b \in Batches, Confirm(b) PROVE FailedUnfinished'
  BY <1>32 DEF Confirm
<1>33. ASSUME NEW b \in Batches, Reject(b) PROVE FailedUnfinished'
  BY <1>33 DEF Reject
<1>34. CASE UNCHANGED vars
  BY <1>34
<1>35. CASE RepeatCompletion
  BY <1>35, NotRepeated DEF RepeatCompletion, TypeInv
<1>36. CASE CreateAgain
  BY <1>36, NotRepeated DEF CreateAgain, TypeInv
<1>37. CASE PersistAgain
  BY <1>37, NotRepeated DEF PersistAgain, TypeInv
<1>38. CASE PersistAgainRefused
  BY <1>38, NotRepeated DEF PersistAgainRefused, TypeInv
<1> QED
  BY <1>1, <1>2, <1>3, <1>4, <1>5, <1>6, <1>7, <1>8, <1>9, <1>10, <1>11,
     <1>12, <1>13, <1>14, <1>15, <1>16, <1>17, <1>18, <1>19, <1>20, <1>21,
     <1>22, <1>23, <1>24, <1>25, <1>26, <1>27, <1>28, <1>29, <1>30, <1>31,
     <1>32, <1>33, <1>34, <1>35, <1>36, <1>37, <1>38
     DEF Next, Handle, Heartbeat, Administrator, Repeat

(* What each status means. *)
LEMMA Meanings ==
    /\ Meaning["QUEUED"] = "working" /\ Meaning["PROCESSING"] = "working"
    /\ Meaning["CANCELLING"] = "cancelling" /\ Meaning["CANCELLED"] = "cancelled"
    /\ Meaning["PREPROCESSED"] = "offered" /\ Meaning["FAILED"] = "failed"
    /\ Meaning["PROCESSED"] = "finalized"
BY DEF Meaning, Statuses

\* A created run is a queued one with no record, as the administrator sees it.
LEMMA InitImplements == Init => Life!LifeInit
BY Meanings DEF Init, Life!LifeInit, Shown, Batches

(* Every step of a worker, a message, a clock or an administrator is a     *)
(* step of the simple life or invisible to it.                             *)
LEMMA StepImplements ==
    ASSUME WellRun, TypeInv, Reviewable, LifeInv, Undisturbed', [Next]_vars
    PROVE  [Life!LifeNext]_(Life!life)
<1> DEFINE Invisible == UNCHANGED Life!life
<1>0. ASSUME UNCHANGED <<status, cand, rejected>> PROVE Invisible
  BY <1>0 DEF Life!life, Shown
<1>1. ASSUME NEW w \in Workers, Deliver(w) PROVE [Life!LifeNext]_(Life!life)
  BY <1>0, <1>1 DEF Deliver
<1>2. ASSUME NEW w \in Workers, BreakOff(w) PROVE [Life!LifeNext]_(Life!life)
  BY <1>0, <1>2 DEF BreakOff
<1>3. ASSUME NEW w \in Workers, ReconcileCancellation(w)
      PROVE  [Life!LifeNext]_(Life!life)
  BY <1>0, <1>3 DEF ReconcileCancellation
<1>4. ASSUME NEW w \in Workers, DeadLetter(w) PROVE [Life!LifeNext]_(Life!life)
  BY <1>4 DEF DeadLetter, Fault, WellRun, LifeInv, Undisturbed, NoFault
<1>5. ASSUME NEW w \in Workers, Crash(w) PROVE [Life!LifeNext]_(Life!life)
  BY <1>0, <1>5 DEF Crash
<1>6. ASSUME NEW w \in Workers, Claim(w) PROVE [Life!LifeNext]_(Life!life)
  <2>1. status \in {"QUEUED", "PROCESSING"} /\ status' = "PROCESSING"
    BY <1>6 DEF Claim, Claimable
  <2>2. UNCHANGED <<cand, rejected>>
    BY <1>6 DEF Claim
  <2> QED
    BY <2>1, <2>2, Meanings DEF Life!life, Shown
<1>7. ASSUME NEW w \in Workers, ClaimRefused(w)
      PROVE  [Life!LifeNext]_(Life!life)
  BY <1>0, <1>7 DEF ClaimRefused
<1>8. ASSUME NEW w \in Workers, Nak(w) PROVE [Life!LifeNext]_(Life!life)
  BY <1>0, <1>8 DEF Nak
<1>9. ASSUME NEW w \in Workers, Download(w) PROVE [Life!LifeNext]_(Life!life)
  BY <1>0, <1>9 DEF Download
<1>10. ASSUME NEW w \in Workers, ReadWindow(w)
       PROVE  [Life!LifeNext]_(Life!life)
  BY <1>0, <1>10 DEF ReadWindow
<1>11. ASSUME NEW w \in Workers, SeeCancel(w) PROVE [Life!LifeNext]_(Life!life)
  BY <1>0, <1>11 DEF SeeCancel
<1>12. ASSUME NEW w \in Workers, Checkpoint(w)
       PROVE  [Life!LifeNext]_(Life!life)
  <2>1. /\ status \in {"PROCESSING", "CANCELLING", "CANCELLED"}
        /\ batch[w] \in Batches
    BY <1>12
       DEF Checkpoint, Reviewable, Sourceless, Exclusive, Active, Staging,
            TypeInv, StageInRange
  <2>2. StagedRow(w) /= "absent"
    BY <1>12
       DEF Checkpoint, StagedRow, CheckpointConflict, Reviewable,
           WindowRead,
            TypeInv, TypeOK
  <2>3. UNCHANGED <<status, rejected>>
    BY <1>12 DEF Checkpoint
  <2>4. cand \in [Batches -> Candidates] /\ cand' = [cand EXCEPT ![batch[w]] = StagedRow(w)]
    BY <1>12 DEF Checkpoint, TypeInv, TypeOK
  <2>5. Shown' = Shown \cup {batch[w]}
    BY <2>1, <2>2, <2>4 DEF Shown
  <2>6. Life!Stage
    BY <2>1, <2>3, <2>5, Meanings DEF Life!Stage
  <2> QED
    BY <2>6 DEF Life!LifeNext
<1>13. ASSUME NEW w \in Workers, CheckpointRefused(w)
       PROVE  [Life!LifeNext]_(Life!life)
  BY <1>0, <1>13 DEF CheckpointRefused
<1>14. ASSUME NEW w \in Workers, StopHeartbeat(w)
       PROVE  [Life!LifeNext]_(Life!life)
  BY <1>0, <1>14 DEF StopHeartbeat
<1>15. ASSUME NEW w \in Workers, Refresh(w) PROVE [Life!LifeNext]_(Life!life)
  BY <1>0, <1>15 DEF Refresh
<1>16. ASSUME NEW w \in Workers, CheckStatus(w)
       PROVE  [Life!LifeNext]_(Life!life)
  BY <1>0, <1>16 DEF CheckStatus
<1>17. ASSUME NEW w \in Workers, Commit(w) PROVE [Life!LifeNext]_(Life!life)
  <2>1. CASE RowGuarded
    BY <1>17, <2>1, <1>0 DEF Commit
  <2>2. CASE ~RowGuarded
    <3>1. status = "PROCESSING" /\ status' = "PREPROCESSED"
      BY <1>17, <2>2 DEF Commit, RowGuarded, Reviewable, Sourceless, Exclusive,
            Active, Staging
    <3>2. \A b \in Batches : Reviewed(b)
      BY <1>17, <3>1 DEF Commit, Reviewable, Progress
    <3>3. Shown \cup rejected = Batches /\ UNCHANGED <<Shown, rejected>>
      BY <1>17, <3>2 DEF Commit, Shown, Reviewed, TypeInv, TypeOK
    <3>4. Life!Offer
      BY <3>1, <3>3, Meanings DEF Life!Offer
    <3> QED
      BY <3>4 DEF Life!LifeNext
  <2> QED
    BY <2>1, <2>2
<1>18. ASSUME NEW w \in Workers, CommitRefused(w)
       PROVE  [Life!LifeNext]_(Life!life)
  BY <1>0, <1>18 DEF CommitRefused
<1>19. ASSUME NEW w \in Workers, BeginFail(w) PROVE [Life!LifeNext]_(Life!life)
  BY <1>0, <1>19 DEF BeginFail
<1>20. ASSUME NEW w \in Workers, CommitFail(w)
       PROVE  [Life!LifeNext]_(Life!life)
  <2>1. CASE RowGuarded \/ status = "FAILED"
    BY <1>20, <2>1, <1>0 DEF CommitFail
  <2>2. CASE ~RowGuarded /\ status /= "FAILED"
    <3>1. status' = "FAILED" /\ UNCHANGED <<cand, rejected>>
      BY <1>20, <2>2 DEF CommitFail
    <3>4. status \in {"QUEUED", "PROCESSING"}
      BY <1>20, <2>2 DEF CommitFail, Conflict, LifeInv, FailedUnfinished,
            RowGuarded, Reviewable, Exclusive, Active
    <3>5. Life!Fail
      BY <3>1, <3>4, Meanings DEF Life!Fail, Shown
    <3> QED
      BY <3>5 DEF Life!LifeNext
  <2> QED
    BY <2>1, <2>2
<1>21. ASSUME NEW w \in Workers, FailRefused(w)
       PROVE  [Life!LifeNext]_(Life!life)
  BY <1>0, <1>21 DEF FailRefused
<1>22. ASSUME NEW w \in Workers, FinishCancellation(w)
       PROVE  [Life!LifeNext]_(Life!life)
  <2>1. CASE status = "CANCELLING"
    <3>1. /\ status' = "CANCELLED" /\ UNCHANGED rejected
          /\ cand' = [b \in Batches |-> "absent"]
      BY <1>22, <2>1 DEF FinishCancellation
    <3>2. Life!CancelRun
      BY <2>1, <3>1, Meanings DEF Life!CancelRun, Shown
    <3> QED
      BY <3>2 DEF Life!LifeNext
  <2>2. CASE status /= "CANCELLING"
    BY <1>22, <2>2, <1>0 DEF FinishCancellation
  <2> QED
    BY <2>1, <2>2
<1>23. ASSUME NEW w \in Workers, DeleteSource(w)
       PROVE  [Life!LifeNext]_(Life!life)
  BY <1>0, <1>23 DEF DeleteSource
<1>24. ASSUME NEW w \in Workers, HeartbeatExtend(w)
       PROVE  [Life!LifeNext]_(Life!life)
  BY <1>0, <1>24 DEF HeartbeatExtend
<1>25. ASSUME NEW w \in Workers, HeartbeatEnd(w)
       PROVE  [Life!LifeNext]_(Life!life)
  BY <1>0, <1>25 DEF HeartbeatEnd
<1>26. CASE Redispatch
  <2>1. status \in {"QUEUED", "PROCESSING"} /\ status' = "QUEUED"
    BY <1>26 DEF Redispatch, Claimable
  <2>2. UNCHANGED <<cand, rejected>>
    BY <1>26 DEF Redispatch
  <2> QED
    BY <2>1, <2>2, Meanings DEF Life!life, Shown
<1>27. CASE LeaseExpires
  BY <1>0, <1>27 DEF LeaseExpires
<1>28. CASE Overrun
  BY <1>0, <1>28 DEF Overrun
<1>29. CASE LoseMessage
  BY <1>0, <1>29 DEF LoseMessage
<1>30. CASE Cancel
  <2>1. CASE status = "PROCESSING"
    <3>1. Life!RequestCancellation
      BY <1>30, <2>1, Meanings DEF Cancel, Life!RequestCancellation, Shown
    <3> QED
      BY <3>1 DEF Life!LifeNext
  <2>2. CASE status = "QUEUED"
    <3>1. Life!CancelRun
      BY <1>30, <2>2, Meanings DEF Cancel, Life!CancelRun, Shown
    <3> QED
      BY <3>1 DEF Life!LifeNext
  <2> QED
    BY <1>30, <2>1, <2>2 DEF Cancel
<1>31. CASE MarkProcessed
  <2>1. status \in {"PREPROCESSED", "FAILED"} /\ status' = "PROCESSED"
    BY <1>31 DEF MarkProcessed, WellRun, ReviewFirst
  <2>2. Life!Finalize
    BY <1>31, <2>1, Meanings DEF MarkProcessed, Life!Finalize, Shown
  <2> QED
    BY <2>2 DEF Life!LifeNext
<1>32. ASSUME NEW b \in Batches, Confirm(b) PROVE [Life!LifeNext]_(Life!life)
  <2>1. Shown' = Shown /\ UNCHANGED <<status, rejected>>
    BY <1>32 DEF Confirm, Shown, TypeInv, TypeOK
  <2> QED
    BY <2>1 DEF Life!life
<1>33. ASSUME NEW b \in Batches, Reject(b) PROVE [Life!LifeNext]_(Life!life)
  <2>1. /\ Shown' = Shown \ {b} /\ b \in Shown
        /\ UNCHANGED status /\ rejected' = rejected \cup {b}
    BY <1>33 DEF Reject, Shown, TypeInv, TypeOK
  <2>2. Life!RejectRecord
    BY <2>1 DEF Life!RejectRecord
  <2> QED
    BY <2>2 DEF Life!LifeNext
<1>34. CASE UNCHANGED vars
  BY <1>0, <1>34
<1>35. CASE RepeatCompletion
  BY <1>35, NotRepeated DEF LifeInv, RepeatCompletion, TypeInv
<1>36. CASE CreateAgain
  BY <1>36, NotRepeated DEF LifeInv, CreateAgain, TypeInv
<1>37. CASE PersistAgain
  BY <1>37, NotRepeated DEF LifeInv, PersistAgain, TypeInv
<1>38. CASE PersistAgainRefused
  BY <1>38, NotRepeated DEF LifeInv, PersistAgainRefused, TypeInv
<1> QED
  BY <1>1, <1>2, <1>3, <1>4, <1>5, <1>6, <1>7, <1>8, <1>9, <1>10, <1>11,
     <1>12, <1>13, <1>14, <1>15, <1>16, <1>17, <1>18, <1>19, <1>20, <1>21,
     <1>22, <1>23, <1>24, <1>25, <1>26, <1>27, <1>28, <1>29, <1>30, <1>31,
     <1>32, <1>33, <1>34, <1>35, <1>36, <1>37, <1>38
     DEF Next, Handle, Heartbeat, Administrator, Repeat

(* The workers, leases and messages of an import implement its simple      *)
(* life: its records come up for review all together, and once they are up *)
(* nobody but an administrator changes them.                               *)
THEOREM LifecycleImplemented ==
    ASSUME WellRun
    PROVE  Spec => ImplementsLifecycle
<1> DEFINE Inv == TypeInv /\ ReviewInv /\ LifeInv
<1>1. Init => Inv
  BY InitTypeInv, InitReviewInv, InitLifeInv
<1>2. Inv => Reviewable
  BY DEF ReviewInv, LifeInv
<1>3. Inv /\ [Next]_vars => Inv'
  BY <1>2, NextTypeInv, NextReviewInv, NextUndisturbed, NextFailedUnfinished
     DEF LifeInv, WellRun, Reviewable
<1>4. Inv /\ [Next]_vars => [Life!LifeNext]_(Life!life)
  BY <1>2, StepImplements, NextUndisturbed DEF LifeInv
<1>5. Spec => []Inv
  BY <1>1, <1>3, PTL DEF Spec
<1> QED
  BY <1>4, <1>5, InitImplements, PTL DEF Spec, ImplementsLifecycle,
     Life!LifeSpec
==============================================================================
