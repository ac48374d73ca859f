------------------------------ MODULE ImportRun ------------------------------
(***************************************************************************)
(* The life of one import run: the row of table import_run, the candidate  *)
(* rows it stages, its source object, and everything that writes them --   *)
(* the import workers (src/geodata.py and src/geodata_import_worker.py),   *)
(* their heartbeat threads, the cancellation and dispatch reconcilers, the *)
(* administrator's requests, and a client that repeats the completion of   *)
(* its upload, which writes the run anew.                                  *)
(*                                                                         *)
(* A worker never owns the run: it holds a lease that nothing fences, so a *)
(* worker that outlives its lease keeps writing next to its successor.     *)
(* Each step below is one database transaction of the code, one look at a  *)
(* shared row, or one call on the object store.                            *)
(***************************************************************************)
EXTENDS Naturals, FiniteSets

CONSTANTS
    Workers,       \* consumer processes of geodata_import_worker.py
    Client,        \* whoever repeats the completion of the run's upload
    NumBatches,    \* batches (checkpoints) in the source, one record in each
    MaxMsgs,       \* bound: work messages outstanding at once
    MaxFaults,     \* bound: how often each kind of fault happens
    MaxTotal,      \* bound: how many faults happen in all
    FinalizeFrom   \* statuses in which an administrator asks to finalize

Statuses == {"QUEUED", "PROCESSING", "CANCELLING", "CANCELLED",
             "PREPROCESSED", "FAILED", "PROCESSED"}

(* "crash": a worker dies.  "overrun": a lease runs out under a worker that *)
(* is still running.  "loss": a work message disappears.  "dead": a message *)
(* reaches its delivery limit.  "repeat": a client completes once more an   *)
(* upload whose session has not been seen COMPLETED.                        *)
FaultKinds == {"crash", "overrun", "loss", "dead", "repeat"}

ASSUME ClientAssumption  == Client \notin Workers
ASSUME BatchesAssumption == NumBatches \in Nat \ {0}
ASSUME MsgsAssumption    == MaxMsgs \in Nat \ {0}
ASSUME FaultsAssumption  == MaxFaults \in [FaultKinds -> Nat] /\ MaxTotal \in Nat
ASSUME FinalizeAssumption ==
    FinalizeFrom \subseteq Statuses \ {"QUEUED", "PROCESSING", "PROCESSED"}

Batches == 1 .. NumBatches
Writers == Workers \cup {Client}

Candidates == {"absent", "PENDING", "CONFIRMED"}
Leases     == {"none", "live", "expired"}
Sources    == {"unrecorded", "stored", "deleted"}

\* Phases in which a worker stages records or writes the run's outcome.
Staging == {"download", "batch", "stage", "refresh", "complete", "commit"}
\* Phases of a worker that may still hold the lease it took.
Holding == Staging \cup {"failing", "failCommit", "cancelling"}
Phases  == Holding \cup {"idle", "received", "cleanup", "nak",
                         "create", "persist"}   \* the last two: the client's
\* Phases in which a writer keeps a copy of the run row to merge against.
Synced  == {"complete", "commit", "failCommit", "persist"}

VARIABLES
    status, lease, featureCount,  \* the row of import_run
    cand,         \* geodata_import_candidate: the row of each ordinal
    rejected,     \* history: ordinals an administrator has rejected
    source,       \* the run's object in the imports bucket
    msgs,         \* work messages waiting for a worker
    faults,       \* history: how many faults of each kind have happened
    pc, batch,    \* each writer's phase, and the batch a worker works on
    held,         \* whether it is handling a message (or reconciling)
    window,       \* what it read of the batch's candidate row
    heartbeat, cancelEvent,       \* its heartbeat thread and cancel_event
    baseStatus, baseCount,        \* a writer's baseline of the run row ...
    leaseMoved, doneMoved         \* ... and what others rewrote since

row     == <<status, lease, featureCount>>
staged  == <<cand, rejected>>
flow    == <<pc, batch, held, window>>
thread  == <<heartbeat, cancelEvent>>
base    == <<baseStatus, baseCount, leaseMoved, doneMoved>>
vars    == <<row, staged, source, msgs, faults, flow, thread, base>>

TypeOK ==
    /\ status \in Statuses
    /\ lease \in Leases
    /\ featureCount \in 0 .. NumBatches
    /\ cand \in [Batches -> Candidates]
    /\ rejected \subseteq Batches
    /\ source \in Sources
    /\ msgs \in Nat
    /\ faults \in [FaultKinds -> Nat]
    /\ pc \in [Writers -> Phases]
    /\ batch \in [Workers -> 1 .. NumBatches + 1]
    /\ held \in [Workers -> BOOLEAN]
    /\ window \in [Workers -> {"unread", "absent", "present", "stale"}]
    /\ heartbeat \in [Workers -> BOOLEAN]
    /\ cancelEvent \in [Workers -> BOOLEAN]
    /\ baseStatus \in [Writers -> Statuses]
    \* NumBatches + 1 stands for "no copy loaded".
    /\ baseCount \in [Writers -> 0 .. NumBatches + 1]
    /\ leaseMoved \in [Writers -> BOOLEAN]
    /\ doneMoved \in [Writers -> BOOLEAN]

-----------------------------------------------------------------------------
Unloaded == NumBatches + 1

Outstanding == msgs + Cardinality({w \in Workers : held[w]})

NoFault(kind) == faults[kind] = 0

Total == faults["crash"] + faults["overrun"] + faults["loss"]
           + faults["dead"] + faults["repeat"]

Fault(kind) ==
    /\ faults[kind] < MaxFaults[kind] /\ Total < MaxTotal
    /\ faults' = [faults EXCEPT ![kind] = @ + 1]

\* Writers whose copy of the row goes stale when another writer stamps it.
Stamp(moved) == [v \in Writers |-> moved[v] \/ pc[v] \in Synced]

Goto(w, phase) == pc' = [pc EXCEPT ![w] = phase]

(* The optimistic merge of RowRepository.flush for a write that changes the *)
(* status, completedAt, lease and feature count of the run: it is refused   *)
(* when one of them is neither what the writer read nor what it writes.     *)
Conflict(w, newStatus) ==
    \/ status \notin {baseStatus[w], newStatus}
    \/ leaseMoved[w] /\ lease /= "none"
    \/ doneMoved[w]

\* Mutant: only the final status is guarded, not the request.
GuardsCancelledOnly == status = "CANCELLED"

(* The run upsert leaves a cancelled or cancelling row as it is unless the *)
(* new status is CANCELLED.                                                *)
RowGuarded == status \in {"CANCELLING", "CANCELLED"}

\* RowRepository.reload: the worker's copy becomes the row.
Reload(w) ==
    /\ baseStatus' = [baseStatus EXCEPT ![w] = status]
    /\ baseCount' = [baseCount EXCEPT ![w] = featureCount]
    /\ leaseMoved' = [leaseMoved EXCEPT ![w] = FALSE]
    /\ doneMoved' = [doneMoved EXCEPT ![w] = FALSE]

\* The handler is over: its message is acknowledged and its scope discarded.
Acked(w) ==
    /\ Goto(w, "idle")
    /\ held' = [held EXCEPT ![w] = FALSE]
    /\ batch' = [batch EXCEPT ![w] = 1]
    /\ window' = [window EXCEPT ![w] = "unread"]

-----------------------------------------------------------------------------
(* A run is created QUEUED with its source stored and its work event in the *)
(* outbox; a run without a recorded source is one the code tells apart.     *)
Init ==
    /\ status = "QUEUED" /\ lease = "none" /\ featureCount = 0
    /\ cand = [b \in Batches |-> "absent"]
    /\ rejected = {}
    /\ source \in {"stored", "unrecorded"}
    /\ msgs = 1
    /\ faults = [k \in FaultKinds |-> 0]
    /\ pc = [w \in Writers |-> "idle"]
    /\ batch = [w \in Workers |-> 1]
    /\ held = [w \in Workers |-> FALSE]
    /\ window = [w \in Workers |-> "unread"]
    /\ heartbeat = [w \in Workers |-> FALSE]
    /\ cancelEvent = [w \in Workers |-> FALSE]
    /\ baseStatus = [w \in Writers |-> "QUEUED"]
    /\ baseCount = [w \in Writers |-> Unloaded]
    /\ leaseMoved = [w \in Writers |-> FALSE]
    /\ doneMoved = [w \in Writers |-> FALSE]

-----------------------------------------------------------------------------
\* Delivery of the preprocess command, and the claim.

(* The handler reads the run row and decides on its status; a run whose    *)
(* work is over is acknowledged at once.                                   *)
Deliver(w) ==
    /\ pc[w] = "idle" /\ msgs > 0
    /\ msgs' = msgs - 1
    /\ \/ /\ status = "CANCELLING"
          /\ Goto(w, "cancelling")
          /\ held' = [held EXCEPT ![w] = TRUE]
          /\ UNCHANGED base
       \/ /\ status \in {"QUEUED", "PROCESSING"} /\ source /= "unrecorded"
          /\ Goto(w, "received")
          /\ held' = [held EXCEPT ![w] = TRUE]
          /\ UNCHANGED base
       \/ /\ status \in {"QUEUED", "PROCESSING"} /\ source = "unrecorded"
          /\ Goto(w, "failCommit")
          /\ held' = [held EXCEPT ![w] = TRUE]
          /\ Reload(w)
       \/ /\ status \notin {"QUEUED", "PROCESSING", "CANCELLING"}
          /\ UNCHANGED <<pc, held, base>>
    /\ UNCHANGED <<row, staged, source, faults, batch, window, thread>>

\* Mutants: a claim that ignores the lease, and one that retries a failure.
ClaimableAnyLease == status \in {"QUEUED", "PROCESSING"}
ClaimableFailed ==
    \/ status \in {"QUEUED", "FAILED"}
    \/ status = "PROCESSING" /\ lease /= "live"

Claimable == status = "QUEUED" \/ (status = "PROCESSING" /\ lease /= "live")

(* _claim_import_run: one conditional UPDATE takes the lease and counts the *)
(* attempt, which only the client's record compares.                       *)
Claim(w) ==
    /\ pc[w] = "received" /\ Claimable
    /\ status' = "PROCESSING" /\ lease' = "live"
    /\ leaseMoved' = Stamp(leaseMoved)
    /\ doneMoved' = [doneMoved EXCEPT ![Client] = Stamp(doneMoved)[Client]]
    /\ Goto(w, "download")
    /\ UNCHANGED <<featureCount, staged, source, msgs, faults, batch, held,
                   window, thread, baseStatus, baseCount>>

\* The claim changed no row: "import lease is active; defer this delivery".
ClaimRefused(w) ==
    /\ pc[w] = "received" /\ ~Claimable
    /\ Goto(w, "nak")
    /\ UNCHANGED <<row, staged, source, msgs, faults, batch, held, window,
                   thread, base>>

\* The message is negatively acknowledged and will be delivered again ...
Nak(w) ==
    /\ pc[w] = "nak"
    /\ msgs' = msgs + 1
    /\ Acked(w)
    /\ UNCHANGED <<row, staged, source, faults, thread, base>>

(* ... or it has reached its delivery limit: it is terminated and the run  *)
(* it names is failed, whoever holds the lease.  Its statistics stay, so   *)
(* the client's record does not conflict.                                  *)
DeadLetter(w) ==
    /\ pc[w] = "nak"
    /\ Fault("dead")
    /\ IF status \in {"QUEUED", "PROCESSING"}
         THEN /\ status' = "FAILED" /\ lease' = "none"
              /\ doneMoved' = [Stamp(doneMoved) EXCEPT
                                  ![Client] = doneMoved[Client]]
         ELSE UNCHANGED <<status, lease, doneMoved>>
    /\ Acked(w)
    /\ UNCHANGED <<featureCount, staged, source, msgs, thread, baseStatus,
                   baseCount, leaseMoved>>

-----------------------------------------------------------------------------
\* Preprocessing: _recover_import_run and _process_import_run.

\* The source is fetched under the lease but before the heartbeat starts.
Download(w) ==
    /\ pc[w] = "download"
    /\ IF source = "stored"
         THEN /\ heartbeat' = [heartbeat EXCEPT ![w] = TRUE]
              /\ Goto(w, "batch")
         ELSE /\ UNCHANGED heartbeat
              /\ Goto(w, "failing")
    /\ cancelEvent' = [cancelEvent EXCEPT ![w] = FALSE]
    /\ batch' = [batch EXCEPT ![w] = 1]
    /\ baseCount' = [baseCount EXCEPT ![w] = Unloaded]
    /\ UNCHANGED <<row, staged, source, msgs, faults, held, window,
                   baseStatus, leaseMoved, doneMoved>>

\* The heartbeat extends whatever lease the PROCESSING row carries.
HeartbeatExtend(w) ==
    /\ heartbeat[w] /\ status = "PROCESSING"
    /\ lease' = "live"
    /\ leaseMoved' = Stamp(leaseMoved)
    /\ UNCHANGED <<status, featureCount, staged, source, msgs, faults, flow,
                   thread, baseStatus, baseCount, doneMoved>>

\* Mutant: any loss of the lease is taken for a cancellation.
HeartbeatEndsAsCancel(w) ==
    /\ heartbeat[w] /\ status /= "PROCESSING"
    /\ heartbeat' = [heartbeat EXCEPT ![w] = FALSE]
    /\ cancelEvent' = [cancelEvent EXCEPT ![w] = TRUE]
    /\ UNCHANGED <<row, staged, source, msgs, faults, flow, base>>

\* It ends at any other status, and only CANCELLING sets the cancel event.
HeartbeatEnd(w) ==
    /\ heartbeat[w] /\ status /= "PROCESSING"
    /\ heartbeat' = [heartbeat EXCEPT ![w] = FALSE]
    /\ cancelEvent' = [cancelEvent EXCEPT
                         ![w] = @ \/ status = "CANCELLING"]
    /\ UNCHANGED <<row, staged, source, msgs, faults, flow, base>>

\* The next batch is decoded and the candidate rows it may replay are read.
ReadWindow(w) ==
    /\ pc[w] = "batch" /\ batch[w] <= NumBatches /\ ~cancelEvent[w]
    /\ window' = [window EXCEPT ![w] =
                    IF cand[batch[w]] = "absent" THEN "absent" ELSE "present"]
    /\ Goto(w, "stage")
    /\ UNCHANGED <<row, staged, source, msgs, faults, batch, held, thread,
                   base>>

\* The cancel event is seen between batches, between records and before one.
SeeCancel(w) ==
    /\ pc[w] \in {"batch", "stage"} /\ cancelEvent[w]
    /\ pc[w] = "batch" => batch[w] <= NumBatches
    /\ Goto(w, "cancelling")
    /\ heartbeat' = [heartbeat EXCEPT ![w] = FALSE]
    /\ UNCHANGED <<row, staged, source, msgs, faults, batch, held, window,
                   cancelEvent, base>>

\* Any other error while decoding or staging fails the run.
BreakOff(w) ==
    /\ pc[w] \in {"batch", "stage"}
    /\ Goto(w, "failing")
    /\ UNCHANGED <<row, staged, source, msgs, faults, batch, held, window,
                   thread, base>>

\* The feature count the worker's copy holds at a checkpoint.
CheckpointBase(w) ==
    IF baseCount[w] = Unloaded THEN featureCount ELSE baseCount[w]

CheckpointConflict(w) ==
    \/ featureCount \notin {CheckpointBase(w), batch[w]}
    \/ window[w] = "stale"
    \/ window[w] = "present" /\ cand[batch[w]] = "absent"

\* Mutant: a replayed record is staged as a new one.
StagedAnew(w) == "PENDING"

(* The candidate row a checkpoint writes: a replayed record keeps the      *)
(* review fields of the row that was read for it.                          *)
StagedRow(w) ==
    IF window[w] = "absent" THEN "PENDING" ELSE cand[batch[w]]

(* One checkpoint commits the batch: the feature count and its candidate   *)
(* row, over whatever holds the ordinal by then.                           *)
Checkpoint(w) ==
    /\ pc[w] = "stage" /\ ~cancelEvent[w] /\ ~CheckpointConflict(w)
    /\ featureCount' = batch[w]
    /\ cand' = [cand EXCEPT ![batch[w]] = StagedRow(w)]
    /\ window' = [v \in Workers |->
                    CASE v = w -> "unread"
                      [] v /= w /\ pc[v] = "stage" /\ batch[v] = batch[w]
                         /\ window[v] = "present" -> "stale"
                      [] OTHER -> window[v]]
    /\ baseCount' = [baseCount EXCEPT ![w] = batch[w]]
    /\ batch' = [batch EXCEPT ![w] = @ + 1]
    /\ Goto(w, "batch")
    /\ UNCHANGED <<status, lease, rejected, source, msgs, faults, held,
                   thread, baseStatus, leaseMoved, doneMoved>>

CheckpointRefused(w) ==
    /\ pc[w] = "stage" /\ ~cancelEvent[w] /\ CheckpointConflict(w)
    /\ Goto(w, "failing")
    /\ UNCHANGED <<row, staged, source, msgs, faults, batch, held, window,
                   thread, base>>

\* Mutant: the last batch is dropped.
StopBeforeLast(w) ==
    /\ pc[w] = "batch" /\ batch[w] >= NumBatches
    /\ heartbeat' = [heartbeat EXCEPT ![w] = FALSE]
    /\ Goto(w, "refresh")
    /\ UNCHANGED <<row, staged, source, msgs, faults, batch, held, window,
                   cancelEvent, base>>

\* After the last batch the heartbeat is stopped and joined.
StopHeartbeat(w) ==
    /\ pc[w] = "batch" /\ batch[w] > NumBatches
    /\ heartbeat' = [heartbeat EXCEPT ![w] = FALSE]
    /\ Goto(w, "refresh")
    /\ UNCHANGED <<row, staged, source, msgs, faults, batch, held, window,
                   cancelEvent, base>>

\* refresh_import_run: the authoritative row is read once more.
Refresh(w) ==
    /\ pc[w] = "refresh"
    /\ Reload(w)
    /\ Goto(w, IF status = "CANCELLING" THEN "cancelling" ELSE "complete")
    /\ UNCHANGED <<row, staged, source, msgs, faults, batch, held, window,
                   thread>>

\* _complete_import_run looks at the status again; only CANCELLING stops it.
CheckStatus(w) ==
    /\ pc[w] = "complete"
    /\ Goto(w, IF status = "CANCELLING" THEN "cancelling" ELSE "commit")
    /\ UNCHANGED <<row, staged, source, msgs, faults, batch, held, window,
                   thread, base>>

CommitConflict(w) ==
    \/ Conflict(w, "PREPROCESSED")
    \/ featureCount \notin {baseCount[w], NumBatches}

\* Mutant: the outcome records the next ordinal as the feature count.
CommitNextOrdinal(w) ==
    /\ pc[w] = "commit" /\ ~CommitConflict(w) /\ ~RowGuarded
    /\ featureCount' = batch[w]
    /\ status' = "PREPROCESSED" /\ lease' = "none"
    /\ doneMoved' = Stamp(doneMoved)
    /\ Acked(w)
    /\ UNCHANGED <<staged, source, msgs, faults, thread, baseStatus,
                   baseCount, leaseMoved>>

\* The outcome is written unless the row is guarded; either way it is done.
Commit(w) ==
    /\ pc[w] = "commit" /\ ~CommitConflict(w)
    /\ featureCount' = NumBatches
    /\ IF RowGuarded
         THEN UNCHANGED <<status, lease, doneMoved>>
         ELSE /\ status' = "PREPROCESSED" /\ lease' = "none"
              /\ doneMoved' = Stamp(doneMoved)
    /\ Acked(w)
    /\ UNCHANGED <<staged, source, msgs, faults, thread, baseStatus,
                   baseCount, leaseMoved>>

CommitRefused(w) ==
    /\ pc[w] = "commit" /\ CommitConflict(w)
    /\ Goto(w, "failing")
    /\ UNCHANGED <<row, staged, source, msgs, faults, batch, held, window,
                   thread, base>>

-----------------------------------------------------------------------------
\* Failure and cancellation.

\* The error handler stops the heartbeat and reloads the row ...
BeginFail(w) ==
    /\ pc[w] = "failing"
    /\ heartbeat' = [heartbeat EXCEPT ![w] = FALSE]
    /\ Reload(w)
    /\ Goto(w, "failCommit")
    /\ UNCHANGED <<row, staged, source, msgs, faults, batch, held, window,
                   cancelEvent>>

(* ... and writes FAILED over any status but a cancellation.               *)
CommitFail(w) ==
    /\ pc[w] = "failCommit"
    /\ IF RowGuarded
         THEN UNCHANGED <<status, lease, doneMoved>>
         ELSE /\ ~Conflict(w, "FAILED")
              /\ status' = "FAILED" /\ lease' = "none"
              /\ doneMoved' = Stamp(doneMoved)
    /\ Acked(w)
    /\ UNCHANGED <<featureCount, staged, source, msgs, faults, thread,
                   baseStatus, baseCount, leaseMoved>>

\* A second conflict leaves the handler, which negatively acknowledges.
FailRefused(w) ==
    /\ pc[w] = "failCommit" /\ ~RowGuarded /\ Conflict(w, "FAILED")
    /\ Goto(w, "nak")
    /\ UNCHANGED <<row, staged, source, msgs, faults, batch, held, window,
                   thread, base>>

(* _finish_import_cancellation holds the row lock from the reload to the   *)
(* commit.  A run that is not being cancelled is left alone.               *)
FinishCancellation(w) ==
    /\ pc[w] = "cancelling"
    /\ IF status = "CANCELLING"
         THEN /\ status' = "CANCELLED" /\ lease' = "none"
              /\ cand' = [b \in Batches |-> "absent"]
              /\ doneMoved' = Stamp(doneMoved)
         ELSE UNCHANGED <<status, lease, cand, doneMoved>>
    /\ Goto(w, "cleanup")
    /\ UNCHANGED <<featureCount, rejected, source, msgs, faults, batch, held,
                   window, thread, baseStatus, baseCount, leaseMoved>>

\* _delete_import_source, outside that transaction.
DeleteSource(w) ==
    /\ pc[w] = "cleanup"
    /\ source' = IF source = "stored" THEN "deleted" ELSE source
    /\ Acked(w)
    /\ UNCHANGED <<row, staged, msgs, faults, thread, base>>

\* Mutant: the sweep looks for released leases, not for expired ones.
ReconcileReleased(w) ==
    /\ pc[w] = "idle"
    /\ status = "CANCELLING" /\ lease = "none"
    /\ Goto(w, "cancelling")
    /\ UNCHANGED <<row, staged, source, msgs, faults, batch, held, window,
                   thread, base>>

\* The sweep for CANCELLING runs whose lease is over (every 30 seconds).
ReconcileCancellation(w) ==
    /\ pc[w] = "idle"
    /\ status = "CANCELLING" /\ lease /= "live"
    /\ Goto(w, "cancelling")
    /\ UNCHANGED <<row, staged, source, msgs, faults, batch, held, window,
                   thread, base>>

(* _recover_expired_work_dispatches: a queued or lease-expired run gets a  *)
(* new work command, even when an older one is still on its way.           *)
Redispatch ==
    /\ Claimable /\ Outstanding < MaxMsgs
    /\ status' = "QUEUED"
    /\ lease' = "none"
    /\ msgs' = msgs + 1
    /\ UNCHANGED <<featureCount, staged, source, faults, flow, thread, base>>

-----------------------------------------------------------------------------
\* The administrator.

\* cancel_import: a queued run is cancelled at once, a running one is asked.
Cancel ==
    \/ /\ status = "PROCESSING"
       /\ status' = "CANCELLING"
       /\ UNCHANGED <<lease, featureCount, staged, source, msgs, faults, flow,
                      thread, base>>
    \/ /\ status = "QUEUED"
       /\ status' = "CANCELLED" /\ lease' = "none"
       /\ cand' = [b \in Batches |-> "absent"]
       /\ source' = IF source = "stored" THEN "deleted" ELSE source
       /\ doneMoved' = Stamp(doneMoved)
       /\ UNCHANGED <<featureCount, rejected, msgs, faults, flow, thread,
                      baseStatus, baseCount, leaseMoved>>

\* mark_import_processed refuses queued and processing runs, and no others.
MarkProcessed ==
    /\ status \notin {"QUEUED", "PROCESSING", "PROCESSED"}
    /\ status \in FinalizeFrom
    /\ status' = "PROCESSED" /\ lease' = "none"
    /\ cand' = [b \in Batches |-> "absent"]
    /\ UNCHANGED <<featureCount, rejected, source, msgs, faults, flow, thread,
                   base>>

\* validate_import_candidates, whatever the status of the run.
Confirm(b) ==
    /\ cand[b] /= "absent"
    /\ cand' = [cand EXCEPT ![b] = "CONFIRMED"]
    /\ UNCHANGED <<row, rejected, source, msgs, faults, flow, thread, base>>

Reject(b) ==
    /\ cand[b] /= "absent"
    /\ cand' = [cand EXCEPT ![b] = "absent"]
    /\ rejected' = rejected \cup {b}
    /\ UNCHANGED <<row, source, msgs, faults, flow, thread, base>>

-----------------------------------------------------------------------------
\* complete_import_upload, repeated: the session was not yet COMPLETED when
\* the client asked again, because the first request died or is still running.

(* The multipart upload is gone, but the object it became is found and     *)
(* scanned, ...                                                            *)
RepeatCompletion ==
    /\ pc[Client] = "idle" /\ source = "stored"
    /\ Fault("repeat")
    /\ Goto(Client, "create")
    /\ UNCHANGED <<row, staged, source, msgs, batch, held, window, thread,
                   base>>

(* ... _create_import_run puts a new QUEUED record in the place of the     *)
(* row, which it reads as its baseline, ...                                *)
CreateAgain ==
    /\ pc[Client] = "create"
    /\ Reload(Client)
    /\ Goto(Client, "persist")
    /\ UNCHANGED <<row, staged, source, msgs, faults, batch, held, window,
                   thread>>

\* The new record has no feature count; doneMoved stands for the attempts and
\* statistics it has not either.
PersistConflict ==
    \/ Conflict(Client, "QUEUED") /\ baseStatus[Client] /= "QUEUED"
    \/ doneMoved[Client]
    \/ featureCount \notin {baseCount[Client], 0} /\ baseCount[Client] /= 0

\* The request is answered and its scope discarded.
Answered(moved) ==
    /\ Goto(Client, "idle")
    /\ baseStatus' = [baseStatus EXCEPT ![Client] = "QUEUED"]
    /\ baseCount' = [baseCount EXCEPT ![Client] = Unloaded]
    /\ leaseMoved' = [leaseMoved EXCEPT ![Client] = FALSE]
    /\ doneMoved' = [moved EXCEPT ![Client] = FALSE]

(* ... and the flush writes each field that differs from the baseline, if  *)
(* the row still has the value that was read, with a new work command: a   *)
(* run that was settled is QUEUED again, one that was QUEUED is left so.   *)
\* The new record has no completedAt: it agrees with copies that were read
\* before the run settled, and with no others.
PersistAgain ==
    /\ pc[Client] = "persist" /\ ~PersistConflict
    /\ Outstanding < MaxMsgs
    /\ featureCount' = IF RowGuarded \/ baseCount[Client] = 0
                         THEN featureCount ELSE 0
    /\ IF RowGuarded \/ baseStatus[Client] = "QUEUED"
         THEN Answered(doneMoved) /\ UNCHANGED <<status, lease>>
         ELSE /\ status' = "QUEUED" /\ lease' = "none"
              /\ Answered([v \in Writers |->
                             pc[v] \in Synced /\
                               baseStatus[v] \in {"PREPROCESSED", "FAILED"}])
    /\ msgs' = msgs + 1
    /\ UNCHANGED <<staged, source, faults, batch, held, window, thread>>

PersistAgainRefused ==
    /\ pc[Client] = "persist" /\ PersistConflict
    /\ Answered(doneMoved)
    /\ UNCHANGED <<row, staged, source, msgs, faults, batch, held, window,
                   thread>>

Repeat ==
    \/ RepeatCompletion \/ CreateAgain \/ PersistAgain \/ PersistAgainRefused

-----------------------------------------------------------------------------
\* Time and faults.

(* A lease runs out when its worker is gone.  Under a worker that is still *)
(* running it runs out only when the heartbeat cannot reach the database   *)
(* for the length of a lease, or the download takes longer than one: the   *)
(* heartbeat starts after it.                                              *)
LeaseExpires ==
    /\ lease = "live"
    /\ \A w \in Workers : pc[w] \notin Holding
    /\ lease' = "expired"
    /\ UNCHANGED <<status, featureCount, staged, source, msgs, faults, flow,
                   thread, base>>

Overrun ==
    /\ lease = "live"
    /\ \E w \in Workers : pc[w] \in Holding
    /\ Fault("overrun")
    /\ lease' = "expired"
    /\ UNCHANGED <<status, featureCount, staged, source, msgs, flow, thread,
                   base>>

\* A worker dies; the broker delivers its unacknowledged message again.
Crash(w) ==
    /\ pc[w] /= "idle"
    /\ Fault("crash")
    /\ msgs' = IF held[w] THEN msgs + 1 ELSE msgs
    /\ heartbeat' = [heartbeat EXCEPT ![w] = FALSE]
    /\ Acked(w)
    /\ UNCHANGED <<row, staged, source, cancelEvent, base>>

LoseMessage ==
    /\ msgs > 0
    /\ Fault("loss")
    /\ msgs' = msgs - 1
    /\ UNCHANGED <<row, staged, source, flow, thread, base>>

-----------------------------------------------------------------------------
Handle(w) ==
    \/ Claim(w) \/ ClaimRefused(w) \/ Nak(w)
    \/ Download(w) \/ ReadWindow(w) \/ SeeCancel(w)
    \/ Checkpoint(w) \/ CheckpointRefused(w)
    \/ StopHeartbeat(w) \/ Refresh(w) \/ CheckStatus(w)
    \/ Commit(w) \/ CommitRefused(w)
    \/ BeginFail(w) \/ CommitFail(w) \/ FailRefused(w)
    \/ FinishCancellation(w) \/ DeleteSource(w)

Heartbeat(w) == HeartbeatExtend(w) \/ HeartbeatEnd(w)

Administrator ==
    Cancel \/ MarkProcessed \/ \E b \in Batches : Confirm(b) \/ Reject(b)

Next ==
    \/ \E w \in Workers :
         \/ Deliver(w) \/ Handle(w) \/ Heartbeat(w) \/ BreakOff(w)
         \/ ReconcileCancellation(w) \/ DeadLetter(w) \/ Crash(w)
    \/ Redispatch \/ LeaseExpires \/ Overrun \/ LoseMessage
    \/ Administrator \/ Repeat

(* A worker process runs its handler to the end; consumers keep fetching;  *)
(* both reconcilers run for ever; time passes.  Nothing is assumed of the  *)
(* administrator, of the client, of faults or of the heartbeat.            *)
Fairness ==
    /\ \A w \in Workers : WF_vars(Handle(w))
    /\ SF_vars(\E w \in Workers : Deliver(w))
    /\ SF_vars(\E w \in Workers : ReconcileCancellation(w))
    /\ WF_vars(Redispatch)
    /\ WF_vars(LeaseExpires)

Spec == Init /\ [][Next]_vars

FairSpec == Spec /\ Fairness

-----------------------------------------------------------------------------
\* Properties that hold whatever goes wrong.

(* A run that has left QUEUED and PROCESSING is never worked on again      *)
(* because of a stale work message or a stale worker: the one step that    *)
(* takes it back is that of a client who repeats the completion of its     *)
(* upload (complete_import_upload), and only from the status it has read,  *)
(* never from a cancelled one.                                             *)
NoRestart ==
    [][status \notin {"QUEUED", "PROCESSING"}
         /\ status' \in {"QUEUED", "PROCESSING"}
         => /\ pc[Client] = "persist" /\ pc'[Client] = "idle"
            /\ status = baseStatus[Client]
            /\ status \notin {"CANCELLING", "CANCELLED"}]_vars

(* A cancellation is never undone by a worker that finishes, fails or is   *)
(* dead-lettered after it; the administrator alone may still finalize.     *)
CancellationSticks ==
    [][/\ status = "CANCELLING"
         => status' \in {"CANCELLING", "CANCELLED", "PROCESSED"}
       /\ status = "CANCELLED" => status' \in {"CANCELLED", "PROCESSED"}]_vars

-----------------------------------------------------------------------------
\* Properties that rest on the client completing its upload once.

(* A run's source object is removed only once no delivery will need it     *)
(* again: a queued or processing run can always be resumed from it         *)
(* (_delete_import_source against _recover_import_run).                    *)
SourceOutlivesWork ==
    source = "deleted" /\ NoFault("repeat") =>
      status \notin {"QUEUED", "PROCESSING", "CANCELLING"}

-----------------------------------------------------------------------------
\* Properties that rest, besides, on the lease outliving its worker.

LeaseHonoured == NoFault("overrun") /\ NoFault("repeat")

(* The lease serializes workers: while none has outlived its lease, and no *)
(* repeated completion has taken it away, at most one is staging records   *)
(* or writing the outcome, however many deliveries of the command there    *)
(* are.                                                                    *)
SingleActiveWorker ==
    LeaseHonoured =>
      \A v, w \in Workers : pc[v] \in Staging /\ pc[w] \in Staging => v = w

(* Replaying a batch after a crash never takes a confirmation back         *)
(* (_import_features copies the review fields of the row it replays).      *)
ReviewKept ==
    [][LeaseHonoured =>
         \A b \in Batches : cand[b] = "CONFIRMED" => cand'[b] /= "PENDING"]_vars

(* A run offered for review holds every record of its source that was not  *)
(* rejected, whichever workers staged it and wherever they died.           *)
ReviewableComplete ==
    status = "PREPROCESSED" /\ LeaseHonoured /\ NoFault("dead") =>
      \A b \in Batches : cand[b] /= "absent" \/ b \in rejected

(* Every accepted run settles: it becomes reviewable, fails or is          *)
(* cancelled, in spite of crashes, lost and duplicate messages and         *)
(* expired leases.                                                         *)
WorkSettles ==
    []<>(status \notin {"QUEUED", "PROCESSING", "CANCELLING"})

-----------------------------------------------------------------------------
\* What the documentation says and the code does not keep.

(* README.md: "Cancellation then removes staged candidate rows and         *)
(* temporary source bytes": a cancelled run has no candidate rows.         *)
CancelledHasNoCandidates ==
    status = "CANCELLED" => \A b \in Batches : cand[b] = "absent"
=============================================================================
