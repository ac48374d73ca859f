------------------------------ MODULE DeletionJob ------------------------------
(***************************************************************************)
(* One job that deletes an entity for good, here and in the activity       *)
(* service: its row (a geodata_control_record, src/geodata.py), the work   *)
(* command and its consumer with the reconciler that dispatches it again   *)
(* (src/geodata_import_worker.py), workers under a lease without a         *)
(* heartbeat, and what others do to the entity in the meantime.            *)
(***************************************************************************)
EXTENDS Naturals, FiniteSets

CONSTANTS
    Workers,        \* consumers of the deletion commands
    MaxMsgs,        \* bound: copies of the command in the stream or in hand
    MaxFaults,      \* bound: how often each kind of fault happens
    Requesters      \* is the requester a global administrator?

FaultKinds ==
    {"crash",       \* a worker process dies
     "fail",        \* the activity service or the database answers an error
     "overrun",     \* the lease runs out under a worker
     "dead",        \* the delivery limit of a command is reached
     "promote"}     \* an import is promoted into the entity

ASSUME MsgsAssumption       == MaxMsgs \in Nat
ASSUME FaultsAssumption     == MaxFaults \in [FaultKinds -> Nat]
ASSUME RequestersAssumption == Requesters \subseteq BOOLEAN

Statuses == {"none", "AWAITING_CONFIRMATION", "QUEUED", "PROCESSING", "COMPLETED"}
Entities == {"CANDIDATE", "REJECTED", "APPROVED", "absent"}

\* Steps at which a worker has a baseline of the row.
Synced == {"start", "cascade", "look", "commit", "giveBack"}
Phases == {"idle", "claimed", "nak"} \cup Synced

VARIABLES
    status, lease,             \* the job's row; the lease is live or not
    global,                    \* may the requester delete any entity?
    entity, revived,           \* the entity; was it created again?
    cascaded,                  \* has the activity service deleted its records?
    msgs, faults,              \* copies in the stream; faults so far
    pc, seen,                  \* a worker's step; the entity as it read it
    baseStatus,                \* its baseline of the row ...
    leaseMoved, stampMoved     \* ... and whether leaseUntil or updatedAt moved

job  == <<status, lease>>
ent  == <<global, entity, revived>>
base == <<baseStatus, leaseMoved, stampMoved>>
vars == <<job, ent, cascaded, msgs, faults, pc, seen, base>>

TypeOK ==
    /\ status \in Statuses
    /\ lease \in {"none", "live", "over"}
    /\ global \in BOOLEAN
    /\ entity \in Entities
    /\ revived \in BOOLEAN
    /\ cascaded \in BOOLEAN
    /\ msgs \in 0 .. MaxMsgs
    /\ faults \in [FaultKinds -> Nat]
    /\ pc \in [Workers -> Phases]
    /\ seen \in [Workers -> Entities \cup {"unread"}]
    /\ baseStatus \in [Workers -> Statuses]
    /\ leaseMoved \in [Workers -> BOOLEAN]
    /\ stampMoved \in [Workers -> BOOLEAN]

-----------------------------------------------------------------------------
Holding == {w \in Workers : pc[w] /= "idle"}

Fault(kind) ==
    /\ faults[kind] < MaxFaults[kind]
    /\ faults' = [faults EXCEPT ![kind] = @ + 1]

Goto(w, phase) == pc' = [pc EXCEPT ![w] = phase]

\* Other workers whose baseline a write leaves behind.
Stamp(moved, w) == [v \in Workers |-> moved[v] \/ (v /= w /\ pc[v] \in Synced)]

\* The handler is over and its scope is discarded.
Leave(w) ==
    /\ Goto(w, "idle")
    /\ seen' = [seen EXCEPT ![w] = "unread"]
    /\ baseStatus' = [baseStatus EXCEPT ![w] = "none"]
    /\ leaseMoved' = [leaseMoved EXCEPT ![w] = FALSE]
    /\ stampMoved' = [stampMoved EXCEPT ![w] = FALSE]

\* The requester may delete the entity (create_deletion_job, delete_entity).
MayDelete(e) == global \/ e = "REJECTED"

\* The field-wise merge of the row at a flush that writes newStatus: a status
\* the write does not change is left as it is.
Merged(w, newStatus) ==
    IF baseStatus[w] = newStatus THEN status ELSE newStatus

\* Every write stamps updatedAt.
Conflict(w, newStatus) ==
    \/ stampMoved[w]
    \/ status /= baseStatus[w] /\ newStatus /= baseStatus[w] /\ status /= newStatus

Init ==
    /\ status = "none" /\ lease = "none"
    /\ global \in Requesters
    /\ entity \in {"CANDIDATE", "REJECTED", "APPROVED"} /\ revived = FALSE
    /\ cascaded = FALSE
    /\ msgs = 0
    /\ faults = [k \in FaultKinds |-> 0]
    /\ pc = [w \in Workers |-> "idle"]
    /\ seen = [w \in Workers |-> "unread"]
    /\ baseStatus = [w \in Workers |-> "none"]
    /\ leaseMoved = [w \in Workers |-> FALSE]
    /\ stampMoved = [w \in Workers |-> FALSE]

-----------------------------------------------------------------------------
\* The administrator.

Create ==
    /\ status = "none" /\ entity /= "absent" /\ MayDelete(entity)
    /\ status' = "AWAITING_CONFIRMATION"
    /\ UNCHANGED <<lease, ent, cascaded, msgs, faults, pc, seen, base>>

\* The confirmation and its command are committed together.
Confirm ==
    /\ status = "AWAITING_CONFIRMATION" /\ msgs < MaxMsgs
    /\ status' = "QUEUED"
    /\ msgs' = msgs + 1
    /\ UNCHANGED <<lease, ent, cascaded, faults, pc, seen, base>>

-----------------------------------------------------------------------------
\* The worker: _consume and _execute_deletion_job.

Claimable == status = "QUEUED" \/ (status = "PROCESSING" /\ lease /= "live")

(* A command for a job that is over is acknowledged.  Otherwise one        *)
(* conditional UPDATE takes the lease, or the delivery is deferred.        *)
Deliver(w) ==
    /\ pc[w] = "idle" /\ msgs > 0
    /\ msgs' = msgs - 1
    /\ \/ /\ status = "COMPLETED"
          /\ UNCHANGED <<job, pc, leaseMoved>>
       \/ /\ Claimable
          /\ status' = "PROCESSING" /\ lease' = "live"
          /\ leaseMoved' = Stamp(leaseMoved, w)
          /\ Goto(w, "claimed")
       \/ /\ status /= "COMPLETED" /\ ~Claimable
          /\ Goto(w, "nak")
          /\ UNCHANGED <<job, leaseMoved>>
    /\ UNCHANGED <<ent, cascaded, faults, seen, baseStatus, stampMoved>>

\* The claimed row is read again, in a transaction of its own.
Reread(w) ==
    /\ pc[w] = "claimed"
    /\ baseStatus' = [baseStatus EXCEPT ![w] = status]
    /\ Goto(w, "start")
    /\ UNCHANGED <<job, ent, cascaded, msgs, faults, seen, leaseMoved, stampMoved>>

\* The row is stamped; what the flush has written is the new baseline.
Start(w) ==
    /\ pc[w] = "start" /\ ~Conflict(w, "PROCESSING")
    /\ status' = Merged(w, "PROCESSING")
    /\ baseStatus' = [baseStatus EXCEPT ![w] = status']
    /\ leaseMoved' = [leaseMoved EXCEPT ![w] = FALSE]
    /\ stampMoved' = Stamp(stampMoved, w)
    /\ Goto(w, "cascade")
    /\ UNCHANGED <<lease, ent, cascaded, msgs, faults, seen>>

\* A refused flush escapes the handler, which gives the lease back to nobody.
StartRefused(w) ==
    /\ pc[w] = "start" /\ Conflict(w, "PROCESSING")
    /\ Goto(w, "nak")
    /\ UNCHANGED <<job, ent, cascaded, msgs, faults, seen, base>>

Cascade(w) ==
    /\ pc[w] = "cascade"
    /\ cascaded' = TRUE
    /\ Goto(w, "look")
    /\ UNCHANGED <<job, ent, msgs, faults, seen, base>>

\* Mutant: an error of the activity service is passed over.
CascadeErrorIgnored(w) ==
    /\ pc[w] = "cascade"
    /\ Fault("fail")
    /\ cascaded' \in {cascaded, TRUE}
    /\ Goto(w, "look")
    /\ UNCHANGED <<job, ent, msgs, seen, base>>

\* After an error or a timeout the cascade may have been done or not.
CascadeFails(w) ==
    /\ pc[w] = "cascade"
    /\ Fault("fail")
    /\ cascaded' \in {cascaded, TRUE}
    /\ Goto(w, "giveBack")
    /\ UNCHANGED <<job, ent, msgs, seen, base>>

\* The entity is read, without a lock, and the permission is checked again.
Look(w) ==
    /\ pc[w] = "look"
    /\ seen' = [seen EXCEPT ![w] = entity]
    /\ Goto(w, IF entity = "absent" \/ MayDelete(entity)
                 THEN "commit" ELSE "giveBack")
    /\ UNCHANGED <<job, ent, cascaded, msgs, faults, base>>

LookFails(w) ==
    /\ pc[w] = "look"
    /\ Fault("fail")
    /\ Goto(w, "giveBack")
    /\ UNCHANGED <<job, ent, cascaded, msgs, seen, base>>

(* One flush deletes the entity's rows, whatever they have become since,   *)
(* and completes the job.  A job without an entity only completes.         *)
Commit(w) ==
    /\ pc[w] = "commit" /\ ~Conflict(w, "COMPLETED")
    /\ status' = "COMPLETED"
    /\ entity' = IF seen[w] = "absent" THEN entity ELSE "absent"
    /\ Goto(w, "idle")
    /\ seen' = [seen EXCEPT ![w] = "unread"]
    /\ baseStatus' = [baseStatus EXCEPT ![w] = "none"]
    /\ leaseMoved' = [leaseMoved EXCEPT ![w] = FALSE]
    /\ stampMoved' = [Stamp(stampMoved, w) EXCEPT ![w] = FALSE]
    /\ UNCHANGED <<lease, global, revived, cascaded, msgs, faults>>

CommitRefused(w) ==
    /\ pc[w] = "commit" /\ Conflict(w, "COMPLETED")
    /\ Goto(w, "nak")
    /\ UNCHANGED <<job, ent, cascaded, msgs, faults, seen, base>>

\* Mutant: the error is recorded by an UPDATE that looks at nothing.
GiveBackBlindly(w) ==
    /\ pc[w] = "giveBack"
    /\ Goto(w, "nak")
    /\ status' = "PROCESSING" /\ lease' = "over"
    /\ leaseMoved' = Stamp(leaseMoved, w)
    /\ stampMoved' = Stamp(stampMoved, w)
    /\ UNCHANGED <<ent, cascaded, msgs, faults, seen, baseStatus>>

\* After an error the lease ends at once, unless the row is no longer ours.
GiveBack(w) ==
    /\ pc[w] = "giveBack"
    /\ Goto(w, "nak")
    /\ IF Conflict(w, "PROCESSING") \/ leaseMoved[w]
         THEN UNCHANGED <<job, leaseMoved, stampMoved>>
         ELSE /\ status' = Merged(w, "PROCESSING")
              /\ lease' = "over"
              /\ leaseMoved' = Stamp(leaseMoved, w)
              /\ stampMoved' = Stamp(stampMoved, w)
    /\ UNCHANGED <<ent, cascaded, msgs, faults, seen, baseStatus>>

\* Mutant: besides the negative acknowledgement a retry is published.
NakAndPublish(w) ==
    /\ pc[w] = "nak"
    /\ msgs' = msgs + 2
    /\ Leave(w)
    /\ UNCHANGED <<job, ent, cascaded, faults>>

\* The command is negatively acknowledged and will be delivered again ...
Nak(w) ==
    /\ pc[w] = "nak"
    /\ msgs' = msgs + 1
    /\ Leave(w)
    /\ UNCHANGED <<job, ent, cascaded, faults>>

\* ... or terminated at its delivery limit, which leaves the job as it is.
DeadLetter(w) ==
    /\ pc[w] = "nak"
    /\ Fault("dead")
    /\ Leave(w)
    /\ UNCHANGED <<job, ent, cascaded, msgs>>

\* A worker dies; its command is delivered again when the ack wait is over.
Crash(w) ==
    /\ pc[w] /= "idle"
    /\ Fault("crash")
    /\ msgs' = msgs + 1
    /\ Leave(w)
    /\ UNCHANGED <<job, ent, cascaded>>

-----------------------------------------------------------------------------
\* Time, the reconciler, and the entity's other writers.

Working == {w \in Workers : pc[w] \in Synced \cup {"claimed"}}

LeaseOver ==
    /\ status = "PROCESSING" /\ lease = "live"
    /\ lease' = "over"
    /\ UNCHANGED <<status, ent, cascaded, msgs, pc, seen, base>>

LeaseExpires == Working = {} /\ LeaseOver /\ UNCHANGED faults

\* The lease of 120 s has no heartbeat.
Overrun ==
    /\ LeaseOver
    /\ Working /= {}
    /\ Fault("overrun")

\* Mutant: only jobs that were never begun are dispatched again.
RedispatchQueued ==
    /\ status = "QUEUED"
    /\ msgs + Cardinality(Holding) < MaxMsgs
    /\ msgs' = msgs + 1
    /\ UNCHANGED <<job, ent, cascaded, faults, pc, seen, base>>

\* _recover_expired_work_dispatches: jobs nobody works on are queued anew.
Redispatch ==
    /\ Claimable
    /\ msgs + Cardinality(Holding) < MaxMsgs
    /\ msgs' = msgs + 1
    /\ IF status = "PROCESSING"
         THEN /\ status' = "QUEUED" /\ lease' = "none"
              /\ leaseMoved' = [v \in Workers |->
                                  leaseMoved[v] \/ pc[v] \in Synced]
         ELSE UNCHANGED <<job, leaseMoved>>
    /\ UNCHANGED <<ent, cascaded, faults, pc, seen, baseStatus, stampMoved>>

Review ==
    /\ entity = "CANDIDATE"
    /\ entity' \in {"APPROVED", "REJECTED"}
    /\ UNCHANGED <<job, global, revived, cascaded, msgs, faults, pc, seen, base>>

(* A staged record is promoted into the entity unless that is approved; a  *)
(* rejected one comes back, and one that is gone is created again.         *)
Promote ==
    /\ entity /= "APPROVED"
    /\ Fault("promote")
    /\ entity' \in {"CANDIDATE", "APPROVED"}
    /\ revived' = (revived \/ entity = "absent")
    /\ UNCHANGED <<job, global, cascaded, msgs, pc, seen, base>>

-----------------------------------------------------------------------------
Handle(w) ==
    \/ Reread(w) \/ Start(w) \/ StartRefused(w) \/ Cascade(w) \/ Look(w)
    \/ Commit(w) \/ CommitRefused(w) \/ GiveBack(w) \/ Nak(w)

Faults ==
    \/ \E w \in Workers :
          CascadeFails(w) \/ LookFails(w) \/ DeadLetter(w) \/ Crash(w)
    \/ Overrun

Next ==
    \/ Create \/ Confirm
    \/ \E w \in Workers : Deliver(w) \/ Handle(w)
    \/ LeaseExpires \/ Redispatch \/ Review \/ Promote \/ Faults

Spec == Init /\ [][Next]_vars

\* Handlers run to their end, the consumer fetches and the reconciler looks
\* for ever, and leases run out.
FairSpec ==
    /\ Spec
    /\ \A w \in Workers : WF_vars(Handle(w)) /\ SF_vars(Deliver(w))
    /\ WF_vars(LeaseExpires) /\ WF_vars(Redispatch)

-----------------------------------------------------------------------------
\* Properties.

(* The entity never disappears here before the activity service has        *)
(* deleted its records, and a completed job has deleted it in both, though *)
(* workers overlap and each of the two deletions may fail or be repeated   *)
(* (_execute_deletion_job).                                                *)
GoneInBoth ==
    /\ entity = "absent" \/ status = "COMPLETED" => cascaded
    /\ status = "COMPLETED" /\ ~revived => entity = "absent"

\* A worker that took the lease before the job was completed by another one
\* and read the row only afterwards.
Latecomer(w) ==
    \/ pc[w] = "claimed"
    \/ pc[w] = "start" /\ baseStatus[w] = "COMPLETED"

(* A job that is COMPLETED stays so, although workers whose lease ran out  *)
(* still hold older copies of its row and write their own outcome.  Only a *)
(* latecomer writes PROCESSING over it and does everything again           *)
(* (_execute_deletion_job stamps whatever it has read after its claim).    *)
CompletedIsFinal ==
    [][status = "COMPLETED" /\ ~(\E w \in Workers : Latecomer(w))
         => status' = "COMPLETED"]_vars

Refused == entity /= "absent" /\ ~MayDelete(entity)

(* "an acknowledged or unavailable broker event cannot strand a permanent  *)
(* deletion": a confirmed job is completed, whatever is lost, unless the   *)
(* entity may no longer be deleted.                                        *)
ConfirmedCompletes == status = "QUEUED" ~> status = "COMPLETED" \/ Refused

(* "The Activity cascade is idempotent, so a retry can safely finish the   *)
(* Geodata half of the operation": once the activity service has deleted   *)
(* the entity's records, the entity itself goes too.                       *)
RetryFinishes == cascaded ~> status = "COMPLETED"
=============================================================================
