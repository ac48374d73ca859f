--------------------------- MODULE ImportPromotion ---------------------------
(***************************************************************************)
(* Review and promotion of the candidates of one import run: the reviewer  *)
(* confirms, rejects or submits candidates; each submission is a           *)
(* processing queue that a worker claims under a lease and works off one   *)
(* candidate, one transaction at a time, writing entities; meanwhile the   *)
(* run may still be preprocessed, be cancelled or be finalized, and        *)
(* reviewers change the entities (src/geodata.py 1943-2045, 3486-4256,     *)
(* src/geodata_import_worker.py).                                          *)
(*                                                                         *)
(* A queue's lease fences nobody. What keeps two workers of one queue      *)
(* apart is the optimistic merge of RowRepository.flush: the candidate,    *)
(* the entity and the queue must still be what the worker read.            *)
(***************************************************************************)
EXTENDS Naturals, Sequences, FiniteSets

CONSTANTS
    Workers,         \* consumer processes
    Cands,           \* the records of the run; each is about one entity
    MaxQueues,       \* bound: submissions by reviewers
    MaxEdits,        \* bound: changes of entities by reviewers
    MaxFaults,       \* bound: how often each kind of fault happens
    MaxTotal,        \* bound: how often faults happen altogether
    InitialEntities  \* what the catalogue may hold of an entity at first

EntityStatuses == {"absent", "CANDIDATE", "APPROVED", "REJECTED", "RETIRED"}

(* "crash": a worker dies.  "overrun": a lease runs out under a worker that *)
(* is still running.  "dead": a delivery is dead-lettered.  "replay":  *)
(* the preprocessing of the run is interrupted, to be repeated, or is asked *)
(* for again.  "late": one of its workers that has lost its lease, or has   *)
(* not noticed that the run was cancelled, checkpoints.                     *)
FaultKinds == {"crash", "overrun", "dead", "replay", "late"}

ASSUME QueuesAssumption  == MaxQueues \in Nat
ASSUME EditsAssumption   == MaxEdits \in Nat
ASSUME FaultsAssumption  == MaxFaults \in [FaultKinds -> Nat]
ASSUME TotalAssumption   == MaxTotal \in Nat
ASSUME EntityAssumption  == InitialEntities \subseteq EntityStatuses

Queues  == 1 .. MaxQueues
Targets == {"CANDIDATE", "APPROVED"}

\* A candidate row; its edition changes when a replay stages it again.
Row == [state : {"unstaged", "PENDING", "CONFIRMED", "PROCESSED", "gone"},
        queue : 0 .. MaxQueues, edition : Nat]

Entity == [status : EntityStatuses, version : Nat]
Unread == [status |-> "unread", version |-> 0]

QueueStatuses ==
    {"none", "QUEUED", "PROCESSING", "COMPLETED", "FAILED", "deleted"}

\* A processing queue; finishes counts the times completed_at was written.
Queue == [status : QueueStatuses,
          records : SUBSET Cands, target : Targets, leased : BOOLEAN,
          errors : SUBSET Cands, finishes : Nat]
NoQueue == [status |-> "none", records |-> {}, target |-> "CANDIDATE",
            leased |-> FALSE, errors |-> {}, finishes |-> 0]

(* A worker: the queue it works on, the candidates left to do, those in    *)
(* error, and what it has read: the edition of the candidate in hand, the  *)
(* entities, the queue's status (its base) and finishes.                   *)
\* A base is "stale" once another worker has written a new startedAt.
Worker == [step : {"idle", "start", "begin", "next", "write"},
           queue : 0 .. MaxQueues, base : QueueStatuses \cup {"stale"},
           todo : SUBSET Cands, errors : SUBSET Cands, hand : SUBSET Cands,
           edition : Nat, known : [Cands -> Entity \cup {Unread}],
           finishes : Nat]
Free == [step |-> "idle", queue |-> 0, base |-> "none", todo |-> {},
         errors |-> {}, hand |-> {}, edition |-> 0, known |-> [c \in Cands |-> Unread],
         finishes |-> 0]

VARIABLES
    run,       \* import_run.status
    prep,      \* the preprocessing of the run (module ImportRun)
    replay,    \* records it has yet to stage again
    cand,      \* geodata_import_candidate
    queue,     \* geodata_import_processing_queue
    entity,    \* geodata_entity, by the candidate about it
    worker,    \* the workers
    promoted,  \* history: the targets each candidate row was promoted to
    edits, faults

review == <<run, prep, replay>>
vars   == <<review, cand, queue, entity, worker, promoted, edits, faults>>

TypeOK ==
    /\ run \in {"PROCESSING", "PREPROCESSED", "FAILED", "CANCELLED",
                "COMPLETED", "PROCESSED"}
    /\ prep \in {"working", "stopped", "done"}
    /\ replay \subseteq Cands
    /\ cand \in [Cands -> Row]
    /\ queue \in [Queues -> Queue]
    /\ entity \in [Cands -> Entity]
    /\ worker \in [Workers -> Worker]
    /\ promoted \in [Cands -> Seq(Targets)]
    /\ edits \in 0 .. MaxEdits
    /\ faults \in [FaultKinds -> Nat]

-----------------------------------------------------------------------------
Staged(c) == cand[c].state \in {"PENDING", "CONFIRMED", "PROCESSED"}

Active(q) == queue[q].status \in {"QUEUED", "PROCESSING"}

NoFault(kind) == faults[kind] = 0

Total == faults["crash"] + faults["overrun"] + faults["dead"]
           + faults["replay"] + faults["late"]

Fault(kind) ==
    /\ faults[kind] < MaxFaults[kind] /\ Total < MaxTotal
    /\ faults' = [faults EXCEPT ![kind] = @ + 1]

\* The rows of the run are deleted; those never staged are not there.
Discarded == [c \in Cands |-> IF cand[c].state = "unstaged" THEN cand[c]
                              ELSE [cand[c] EXCEPT !.state = "gone"]]

Init ==
    /\ run = "PROCESSING" /\ prep = "working" /\ replay = {}
    /\ cand = [c \in Cands |-> [state |-> "unstaged", queue |-> 0,
                                edition |-> 0]]
    /\ queue = [q \in Queues |-> NoQueue]
    /\ entity \in [Cands -> {[status |-> s,
                              version |-> IF s = "absent" THEN 0 ELSE 1] :
                             s \in InitialEntities}]
    /\ worker = [w \in Workers |-> Free]
    /\ promoted = [c \in Cands |-> <<>>]
    /\ edits = 0
    /\ faults = [k \in FaultKinds |-> 0]

-----------------------------------------------------------------------------
\* Preprocessing of the run, as far as promotion meets it.

StageNew(c) ==
    /\ prep = "working" /\ cand[c].state = "unstaged"
    /\ cand' = [cand EXCEPT ![c].state = "PENDING"]
    /\ UNCHANGED <<review, queue, entity, worker, promoted, edits, faults>>

(* A record staged again keeps its review, but the dictionary that is      *)
(* staged lists no processingQueueId; a rejected one is staged afresh.     *)
StagedAgain(c) ==
    /\ cand' = [cand EXCEPT ![c] =
                  [state |-> IF Staged(c) THEN cand[c].state ELSE "PENDING",
                   queue |-> 0, edition |-> cand[c].edition + 1]]
    /\ promoted' = [promoted EXCEPT ![c] = IF Staged(c) THEN @ ELSE <<>>]

Restage(c) ==
    /\ prep = "working" /\ c \in replay
    /\ replay' = replay \ {c}
    /\ StagedAgain(c)
    /\ UNCHANGED <<run, prep, queue, entity, worker, edits, faults>>

(* The upsert by ordinal of a row that was not there when the worker       *)
(* looked: it leaves the processing_queue_id of one that is there by now.  *)
StagedOver(c) ==
    /\ cand' = [cand EXCEPT ![c] =
                  [state |-> "PENDING",
                   queue |-> IF Staged(c) THEN cand[c].queue ELSE 0,
                   edition |-> cand[c].edition + 1]]
    /\ promoted' = [promoted EXCEPT ![c] = <<>>]

(* A checkpoint looks at no status: a worker whose lease ran out stages    *)
(* records of a run that another one has settled meanwhile, or that was    *)
(* finalized, and any worker those of a run whose cancellation was         *)
(* finished before it noticed (module ImportRun).                          *)
LateCheckpoint(c) ==
    /\ Fault("late")
    /\ StagedAgain(c) \/ StagedOver(c)
    /\ UNCHANGED <<review, queue, entity, worker, edits>>

\* The outcome is written over any status but a cancellation.
Preprocessed ==
    /\ prep = "working" /\ replay = {}
    /\ prep' = "done"
    /\ \/ /\ \A c \in Cands : cand[c].state /= "unstaged"
          /\ run' = "PREPROCESSED"
       \/ run' = "FAILED"
    /\ UNCHANGED <<replay, cand, queue, entity, worker, promoted, edits,
                   faults>>

StopPreprocessing ==
    /\ prep = "working" /\ Fault("replay")
    /\ prep' = "stopped"
    /\ UNCHANGED <<run, replay, cand, queue, entity, worker, promoted, edits>>

\* Only a run that is still PROCESSING is claimed again, and replayed.
Resume ==
    /\ prep = "stopped" /\ run = "PROCESSING"
    /\ prep' = "working"
    /\ replay' = {c \in Cands : cand[c].state /= "unstaged"}
    /\ UNCHANGED <<run, cand, queue, entity, worker, promoted, edits, faults>>

\* A repeated complete_import_upload queues a settled run (module ImportRun).
Requeue ==
    /\ run \in {"PREPROCESSED", "FAILED", "COMPLETED", "PROCESSED"}
    /\ Fault("replay")
    /\ run' = "PROCESSING" /\ prep' = "working"
    /\ replay' = {c \in Cands : cand[c].state /= "unstaged"}
    /\ UNCHANGED <<cand, queue, entity, worker, promoted, edits>>

-----------------------------------------------------------------------------
\* Requests of reviewers; each is one transaction that locks its rows.

\* Mutant: the requested status is stored as it was spelled.
ConfirmAsValid(c) ==
    /\ cand[c].state = "PENDING"
    /\ cand' = [cand EXCEPT ![c].state = "VALID"]
    /\ UNCHANGED <<review, queue, entity, worker, promoted, edits, faults>>

\* validate_import_candidates, confirming
Confirm(c) ==
    /\ cand[c].state = "PENDING"
    /\ cand' = [cand EXCEPT ![c].state = "CONFIRMED"]
    /\ UNCHANGED <<review, queue, entity, worker, promoted, edits, faults>>

\* validate_import_candidates, rejecting: "queued records cannot be rejected"
Reject(c) ==
    /\ Staged(c) /\ cand[c].queue = 0
    /\ cand' = [cand EXCEPT ![c].state = "gone"]
    /\ UNCHANGED <<review, queue, entity, worker, promoted, edits, faults>>

\* Mutant: any candidate of a failed queue may be submitted again.
SubmittableAfterFailure(c) ==
    /\ cand[c].state \in {"PENDING", "CONFIRMED"}
    /\ cand[c].queue /= 0 => queue[cand[c].queue].status /= "COMPLETED"

\* A candidate is in no queue, or in a failed one that names it as failed.
Submittable(c) ==
    /\ cand[c].state \in {"PENDING", "CONFIRMED"}
    /\ cand[c].queue /= 0 =>
          /\ cand[c].state = "CONFIRMED"
          /\ queue[cand[c].queue].status = "FAILED"
          /\ c \in queue[cand[c].queue].errors

\* process_import_candidates, whatever the status of the run
Submit(q, S, target) ==
    /\ queue[q].status = "none"
    /\ \A p \in Queues : p < q => queue[p].status /= "none"
    /\ S /= {} /\ \A c \in S : Submittable(c)
    /\ queue' = [queue EXCEPT ![q] = [NoQueue EXCEPT !.status = "QUEUED",
                                         !.records = S, !.target = target]]
    /\ cand' = [c \in Cands |->
                  IF c \in S THEN [cand[c] EXCEPT !.state = "CONFIRMED",
                                                  !.queue = q]
                  ELSE cand[c]]
    /\ UNCHANGED <<review, entity, worker, promoted, edits, faults>>

\* mark_import_processed
Finalize ==
    /\ run \notin {"PROCESSING", "PROCESSED"}
    /\ run' = "PROCESSED"
    /\ cand' = Discarded
    /\ queue' = [q \in Queues |-> IF queue[q].status = "none" THEN queue[q]
                                  ELSE [NoQueue EXCEPT !.status = "deleted"]]
    /\ UNCHANGED <<prep, replay, entity, worker, promoted, edits, faults>>

\* cancel_import, with all that follows it (module ImportRun)
Cancel ==
    /\ run = "PROCESSING"
    /\ run' = "CANCELLED" /\ prep' = "done" /\ replay' = {}
    /\ cand' = Discarded
    /\ UNCHANGED <<queue, entity, worker, promoted, edits, faults>>

\* review, set_status and the edits, which raise the version of the entity
ReviewEntity(c) ==
    /\ edits < MaxEdits /\ edits' = edits + 1
    /\ \E s \in EntityStatuses \ {"absent"} :
          /\ \/ entity[c].status = "CANDIDATE" /\ s \in {"APPROVED", "REJECTED"}
             \/ entity[c].status = "APPROVED" /\ s = "RETIRED"
             \/ entity[c].status = s
          /\ entity' = [entity EXCEPT ![c] = [status |-> s,
                                              version |-> @.version + 1]]
    /\ UNCHANGED <<review, cand, queue, worker, promoted, faults>>

-----------------------------------------------------------------------------
\* _process_import_queue

Set(w, record) == worker' = [worker EXCEPT ![w] = record]

Release(w) == Set(w, Free)

\* Mutant: a queue whose worker is gone is not taken over.
ClaimableQueued(q) == queue[q].status = "QUEUED"

Claimable(q) == \/ queue[q].status = "QUEUED"
                \/ queue[q].status = "PROCESSING" /\ ~queue[q].leased

Claim(w, q) ==
    /\ worker[w].step = "idle" /\ Claimable(q)
    /\ queue' = [queue EXCEPT
                   ![q] = [queue[q] EXCEPT !.status = "PROCESSING",
                                           !.leased = TRUE]]
    /\ Set(w, [Free EXCEPT !.step = "start", !.queue = q])
    /\ UNCHANGED <<review, cand, entity, promoted, edits, faults>>

\* The queue is read only now; what happened to it since is not looked at.
Start(w) == LET q == worker[w].queue IN
    /\ worker[w].step = "start"
    /\ IF queue[q].status \in {"deleted", "COMPLETED"}
         THEN Release(w)
         ELSE Set(w, [Free EXCEPT !.step = "begin", !.queue = q,
                                  !.base = queue[q].status,
                                  !.todo = queue[q].records])
    /\ UNCHANGED <<review, cand, queue, entity, promoted, edits, faults>>

\* The status is compared if the worker changes it; startedAt always is.
BeginAccepted(w) == LET q == worker[w].queue IN
    /\ queue[q].status /= "deleted" /\ worker[w].base /= "stale"
    /\ worker[w].base /= "PROCESSING" =>
          queue[q].status \in {worker[w].base, "PROCESSING"}

(* The flush of {PROCESSING, startedAt}.  A worker that read PROCESSING    *)
(* leaves the status that the row has by now, which becomes its base: the  *)
(* queue may have been COMPLETED by another worker.                        *)
Begin(w) == LET q      == worker[w].queue
                status == IF worker[w].base = "PROCESSING"
                          THEN queue[q].status ELSE "PROCESSING" IN
    /\ worker[w].step = "begin" /\ BeginAccepted(w)
    /\ queue' = [queue EXCEPT ![q].status = status]
    /\ worker' = [v \in Workers |->
          IF v = w THEN [worker[w] EXCEPT !.step = "next", !.base = status,
                                          !.finishes = queue[q].finishes]
          ELSE IF worker[v].queue = q /\ worker[v].step = "begin"
               THEN [worker[v] EXCEPT !.base = "stale"] ELSE worker[v]]
    /\ UNCHANGED <<review, cand, entity, promoted, edits, faults>>

BeginRefused(w) ==
    /\ worker[w].step = "begin" /\ ~BeginAccepted(w)
    /\ Release(w)
    /\ UNCHANGED <<review, cand, queue, entity, promoted, edits, faults>>

\* What the worker takes entity c to be: it reads each entity once.
Known(w, c) ==
    IF worker[w].known[c] = Unread THEN entity[c] ELSE worker[w].known[c]

Promotable(w, c) ==
    /\ cand[c].state = "CONFIRMED" /\ cand[c].queue \in {0, worker[w].queue}
    /\ Known(w, c).status /= "APPROVED"

\* The next candidate, in the order of the request, is read and checked. The
\* search for conflations of the first one to pass reads all entities.
Look(w, c) ==
    /\ worker[w].step = "next" /\ c \in worker[w].todo
    /\ IF Promotable(w, c)
         THEN Set(w, [worker[w] EXCEPT !.step = "write", !.hand = {c},
                        !.todo = worker[w].todo \ {c},
                        !.edition = cand[c].edition,
                        !.known = [d \in Cands |-> Known(w, d)]])
         ELSE Set(w, [worker[w] EXCEPT !.todo = worker[w].todo \ {c},
                        !.errors = IF cand[c].state = "PROCESSED"
                                   THEN worker[w].errors
                                   ELSE worker[w].errors \cup {c}])
    /\ UNCHANGED <<review, cand, queue, entity, promoted, edits, faults>>

\* Mutant: the last writer wins over whatever row is there.
LastWriterWins(w, c) == cand[c].state /= "gone"

\* Mutant: the entity is written whatever version it has by then.
CandidateUnchanged(w, c) ==
    cand[c].state = "CONFIRMED" /\ cand[c].edition = worker[w].edition

\* Mutant: the candidate is not compared, only the entity.
EntityUnchanged(w, c) == entity[c] = worker[w].known[c]

\* RowRepository.flush: the candidate and the entity are as they were read.
Unchanged(w, c) ==
    /\ cand[c].state = "CONFIRMED" /\ cand[c].edition = worker[w].edition
    /\ entity[c] = worker[w].known[c]

\* One transaction: the entity, the candidate, and their events.
Promote(w, c) == LET q == worker[w].queue IN
    /\ worker[w].step = "write" /\ c \in worker[w].hand /\ Unchanged(w, c)
    /\ entity' = [entity EXCEPT ![c] = [status |-> queue[q].target,
                                        version |-> @.version + 1]]
    /\ cand' = [cand EXCEPT ![c].state = "PROCESSED"]
    /\ promoted' = [promoted EXCEPT ![c] = Append(@, queue[q].target)]
    /\ Set(w, [worker[w] EXCEPT !.step = "next", !.hand = {},
                                !.known[c] = entity'[c]])
    /\ UNCHANGED <<review, queue, edits, faults>>

\* A conflict, or a constraint of the database, is an error of the record.
RefuseRecord(w, c) ==
    /\ worker[w].step = "write" /\ c \in worker[w].hand
    /\ Set(w, [worker[w] EXCEPT !.step = "next", !.hand = {},
                                !.errors = worker[w].errors \cup {c}])
    /\ UNCHANGED <<review, cand, queue, entity, promoted, edits, faults>>

\* Mutant: the outcome is written over that of another worker.
NeverRefused(w) == TRUE

\* The merge of the outcome: nobody else has written one or taken it back.
OutcomeAccepted(w) == LET q == worker[w].queue IN
    queue[q].status = worker[w].base /\ queue[q].finishes = worker[w].finishes

\* The run is complete when none of its candidates is left to promote.
Remaining == {c \in Cands : cand[c].state \in {"PENDING", "CONFIRMED"}}

Finish(w) == LET q == worker[w].queue IN
    /\ worker[w].step = "next" /\ worker[w].todo = {} /\ OutcomeAccepted(w)
    /\ queue' = [queue EXCEPT
                   ![q] = [queue[q] EXCEPT
                             !.status = IF worker[w].errors = {}
                                        THEN "COMPLETED" ELSE "FAILED",
                             !.errors = worker[w].errors,
                             !.finishes = queue[q].finishes + 1]]
    /\ run' = IF /\ run \notin {"PROCESSED", "CANCELLED"}
                 /\ Remaining = {} /\ worker[w].errors = {}
              THEN "COMPLETED" ELSE run
    /\ Release(w)
    /\ UNCHANGED <<prep, replay, cand, entity, promoted, edits, faults>>

\* A refused outcome leaves the handler; the message is delivered again.
FinishRefused(w) ==
    /\ worker[w].step = "next" /\ worker[w].todo = {} /\ ~OutcomeAccepted(w)
    /\ Release(w)
    /\ UNCHANGED <<review, cand, queue, entity, promoted, edits, faults>>

\* _heartbeat_import_queue extends the lease of a queue, not of a worker.
Heartbeat(w) == LET q == worker[w].queue IN
    /\ worker[w].step \in {"next", "write"}
    /\ queue[q].status = "PROCESSING" /\ ~queue[q].leased
    /\ queue' = [queue EXCEPT ![q].leased = TRUE]
    /\ UNCHANGED <<review, cand, entity, worker, promoted, edits, faults>>

-----------------------------------------------------------------------------
\* Leases, crashes, dead letters, and the recovery of dispatches.

LeaseExpires(q) ==
    /\ queue[q].status = "PROCESSING" /\ queue[q].leased
    /\ \A w \in Workers : worker[w].queue /= q
    /\ queue' = [queue EXCEPT ![q].leased = FALSE]
    /\ UNCHANGED <<review, cand, entity, worker, promoted, edits, faults>>

Overrun(q) ==
    /\ queue[q].status = "PROCESSING" /\ queue[q].leased
    /\ \E w \in Workers : worker[w].queue = q
    /\ Fault("overrun")
    /\ queue' = [queue EXCEPT ![q].leased = FALSE]
    /\ UNCHANGED <<review, cand, entity, worker, promoted, edits>>

\* _recover_expired_work_dispatches
Recover(q) ==
    /\ queue[q].status = "PROCESSING" /\ ~queue[q].leased
    /\ queue' = [queue EXCEPT ![q].status = "QUEUED"]
    /\ UNCHANGED <<review, cand, entity, worker, promoted, edits, faults>>

\* A delivery of the queue's command fails for the last time.
DeadLetter(q) ==
    /\ Active(q) /\ Fault("dead")
    /\ queue' = [queue EXCEPT
                   ![q] = [queue[q] EXCEPT
                             !.status = "FAILED", !.leased = FALSE,
                             !.finishes = queue[q].finishes + 1]]
    /\ UNCHANGED <<review, cand, entity, worker, promoted, edits>>

\* A worker dies, or an error that is no record's leaves its handler.
Crash(w) ==
    /\ worker[w].step /= "idle" /\ Fault("crash")
    /\ Release(w)
    /\ UNCHANGED <<review, cand, queue, entity, promoted, edits>>

-----------------------------------------------------------------------------
Preprocess ==
    \/ \E c \in Cands : StageNew(c) \/ Restage(c) \/ LateCheckpoint(c)
    \/ Preprocessed \/ StopPreprocessing \/ Resume \/ Requeue

Reviewer ==
    \/ \E c \in Cands : Confirm(c) \/ Reject(c) \/ ReviewEntity(c)
    \/ \E q \in Queues, S \in SUBSET Cands, t \in Targets : Submit(q, S, t)
    \/ Finalize \/ Cancel

Work(w) ==
    \/ Start(w) \/ Begin(w) \/ BeginRefused(w)
    \/ \E c \in Cands : Look(w, c) \/ Promote(w, c) \/ RefuseRecord(w, c)
    \/ Finish(w) \/ FinishRefused(w) \/ Heartbeat(w)

Next ==
    \/ Preprocess \/ Reviewer
    \/ \E w \in Workers : Work(w) \/ Crash(w)
    \/ \E w \in Workers, q \in Queues : Claim(w, q)
    \/ \E q \in Queues :
          LeaseExpires(q) \/ Overrun(q) \/ Recover(q) \/ DeadLetter(q)

Spec == Init /\ [][Next]_vars

(* Workers finish what they hold, are handed what is claimable, and leases *)
(* that nobody extends run out; reviewers and preprocessing promise        *)
(* nothing.                                                                *)
Fairness ==
    /\ \A w \in Workers : WF_vars(Work(w))
    /\ \A q \in Queues : /\ WF_vars(\E w \in Workers : Claim(w, q))
                         /\ WF_vars(LeaseExpires(q))

FairSpec == Spec /\ Fairness

-----------------------------------------------------------------------------
\* The candidate is promoted in this step.
Promotes(c) == cand'[c].state = "PROCESSED" /\ cand[c].state /= "PROCESSED"

(* A curated entity is safe from imports: a promotion never writes an      *)
(* entity that is APPROVED by then, however long ago the worker looked at  *)
(* it (geodata.py 1961-1968, the check, and the version comparison at the  *)
(* flush).                                                                 *)
ApprovedUntouched ==
    [][\A c \in Cands : Promotes(c) => entity[c].status /= "APPROVED"]_vars

(* Two workers of a queue, or two queues, never promote one record twice,  *)
(* although nothing but the comparison of the rows keeps them apart.       *)
PromotedOnce == \A c \in Cands : Len(promoted[c]) <= 1

(* COMPLETED is what the reviewer asked for: every record of the queue was *)
(* promoted to the target of this queue and of no other, whatever crashes. *)
(* It needs leases to outlive their workers (those of preprocessing, too)  *)
(* and no replay or dead letter:                                           *)
(* then a worker left over from a failed queue may still promote a record  *)
(* that was submitted again with another target, or start that queue anew. *)
CompletedAsAsked ==
    (\A k \in FaultKinds \ {"crash"} : NoFault(k)) =>
        \A q \in Queues : queue[q].status = "COMPLETED" =>
            \A c \in queue[q].records : promoted[c] = <<queue[q].target>>

\* A worker that read the queue as PROCESSING and, at its first flush, took
\* over the COMPLETED that another worker had written since.
Latecomer(w, q) == worker[w].queue = q /\ worker[w].base = "COMPLETED"

(* COMPLETED is final, when a reviewer may already have acted on it: no    *)
(* second worker, recovery or dead letter takes it back.  The exception is *)
(* the outcome of a latecomer, which finds records cancelled, finalized or *)
(* staged again meanwhile, and writes FAILED; there is none while leases   *)
(* outlive their workers and nothing is dead-lettered                      *)
(* (_process_import_queue, geodata.py 3967-3977 and 4061-4076).            *)
CompletedIsFinal ==
    [][\A q \in Queues : queue[q].status = "COMPLETED" =>
          \/ queue'[q].status \in {"COMPLETED", "deleted"}
          \/ /\ ~(NoFault("overrun") /\ NoFault("dead"))
             /\ \E w \in Workers : Latecomer(w, q) /\ Finish(w)]_vars

(* A submitted queue ends: it is worked off, refused, or deleted with its  *)
(* run, whatever crashes and overrun leases there are on the way.          *)
QueuesEnd == \A q \in Queues : Active(q) ~> ~Active(q)

(* "record is already promoted or queued" (geodata.py 4205): a confirmed   *)
(* candidate that cannot be submitted is in a queue that is at work.  A    *)
(* dead-lettered queue is FAILED and names no candidate as failed.         *)
RefusedIsQueued ==
    \A c \in Cands : cand[c].state = "CONFIRMED" =>
        Submittable(c) \/ Active(cand[c].queue)
=============================================================================
