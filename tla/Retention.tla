------------------------------ MODULE Retention ------------------------------
(***************************************************************************)
(* The retention sweep (purge_sweep in src/geodata_retention_worker.py,    *)
(* purge_expired_imports in src/import_retention.py): it takes the oldest  *)
(* runs past their retention in batches, deletes the source object of each *)
(* and then, in a transaction that looks again, its row.  Meanwhile runs   *)
(* are worked on and finalized, which makes them young again.              *)
(***************************************************************************)
EXTENDS Naturals, FiniteSets, Sequences, SequencesExt

CONSTANTS Runs, BatchSize,
          MaxFailures   \* bound: failures of a step, the sweep or a worker

ASSUME RetentionAssumption ==
    IsFiniteSet(Runs) /\ BatchSize \in Nat \ {0} /\ MaxFailures \in Nat

VARIABLES
    runs,        \* the rows of import_run, by the time of their last activity
    due,         \* how many of them, the oldest, are past the retention
    objects,     \* runs whose source object is there
    misplaced,   \* runs whose source is not a safe key of the import bucket
    step,        \* "idle", "batch", "object", "row"
    selected,    \* what is left of the batch
    full,        \* was the batch as large as it may be?
    purged,      \* has it purged a run?
    excluded,    \* runs that have failed in this sweep
    failures     \* (bound)

catalogue == <<runs, due, objects, misplaced>>
sweeping  == <<step, selected, full, purged, excluded>>
retention == <<catalogue, sweeping, failures>>

-----------------------------------------------------------------------------
Due == ToSet(SubSeq(runs, 1, due))

\* The other runs, in their order.
Without(r) == RemoveAt(runs, CHOOSE i \in 1 .. Len(runs) : runs[i] = r)

\* The sweep ends, until the next day.
Rest ==
    /\ step' = "idle" /\ selected' = <<>> /\ full' = FALSE /\ purged' = FALSE
    /\ excluded' = {}

RetentionInit ==
    /\ runs \in SetToSeqs(Runs) /\ due = 0
    /\ objects = Runs /\ misplaced \in SUBSET Runs
    /\ step = "idle" /\ selected = <<>> /\ full = FALSE /\ purged = FALSE
    /\ excluded = {} /\ failures = 0

StartSweep ==
    /\ step = "idle" /\ step' = "batch"
    /\ UNCHANGED <<catalogue, selected, full, purged, excluded, failures>>

NextInLine ==
    SelectSeq(SubSeq(runs, 1, due), LAMBDA r : r \notin excluded)

SelectBatch ==
    /\ step = "batch"
    /\ selected' = SubSeq(NextInLine, 1, Min({BatchSize, Len(NextInLine)}))
    /\ full' = (Len(NextInLine) >= BatchSize)
    /\ purged' = FALSE
    /\ step' = "object"
    /\ UNCHANGED <<catalogue, excluded, failures>>

\* Mutant: a failure ends the sweep.
GiveUp == Rest /\ UNCHANGED catalogue

\* A failure of either step excludes the run and goes on with the next.
Exclude ==
    /\ excluded' = excluded \cup {Head(selected)}
    /\ selected' = Tail(selected)
    /\ step' = "object"
    /\ UNCHANGED <<catalogue, full, purged>>

DeleteObject ==
    /\ step = "object" /\ selected /= <<>>
    /\ IF Head(selected) \in misplaced THEN Exclude
       ELSE /\ objects' = objects \ {Head(selected)}
            /\ step' = "row"
            /\ UNCHANGED <<runs, due, misplaced>>
            /\ UNCHANGED <<selected, full, purged, excluded>>
    /\ UNCHANGED failures

\* Mutant: the row is not looked at again.
StillDueUnread(r) == r \in ToSet(runs)

StillDue(r) == r \in Due

\* _purge_run: with the row go its events, manifests and candidates.
PurgeRow ==
    /\ step = "row"
    /\ LET r == Head(selected)
       IN  IF StillDue(r)
             THEN /\ runs' = Without(r)
                  /\ due' = IF r \in Due THEN due - 1 ELSE due
                  /\ purged' = TRUE
             ELSE UNCHANGED <<runs, due, purged>>
    /\ selected' = Tail(selected)
    /\ step' = "object"
    /\ UNCHANGED <<objects, misplaced, full, excluded, failures>>

\* A batch that was not full, or purged nothing, is the last.
EndBatch ==
    /\ step = "object" /\ selected = <<>>
    /\ IF full /\ purged
         THEN step' = "batch" /\ UNCHANGED <<selected, full, purged, excluded>>
         ELSE Rest
    /\ UNCHANGED <<catalogue, failures>>

\* The object store or the database does not answer, or the process dies.
Fail ==
    /\ failures < MaxFailures /\ failures' = failures + 1
    /\ \/ step \in {"object", "row"} /\ selected /= <<>> /\ Exclude
       \/ step /= "idle" /\ Rest /\ UNCHANGED catalogue

-----------------------------------------------------------------------------
Age ==
    /\ due < Len(runs) /\ due' = due + 1
    /\ UNCHANGED <<runs, objects, misplaced, sweeping, failures>>

\* A worker claims the run, holds it or completes it, or the administrator
\* finalizes it (after which nothing does; that is not told apart here).
Touch(r) ==
    /\ r \in ToSet(runs)
    /\ runs' = Append(Without(r), r)
    /\ due' = IF r \in Due THEN due - 1 ELSE due
    /\ UNCHANGED <<objects, misplaced, sweeping, failures>>

\* A worker dies and its expired lease is dispatched again, which clears the
\* heartbeat: the run is as old as its creation, maybe long past the retention.
Redispatch(r) ==
    /\ r \in ToSet(runs) \ Due
    /\ failures < MaxFailures /\ failures' = failures + 1
    /\ runs' = <<r>> \o Without(r) /\ due' = due + 1
    /\ UNCHANGED <<objects, misplaced, sweeping>>

Sweep == StartSweep \/ SelectBatch \/ DeleteObject \/ PurgeRow \/ EndBatch

RetentionNext ==
    \/ Sweep \/ Fail \/ Age
    \/ \E r \in Runs : Touch(r) \/ Redispatch(r)

RetentionSpec == RetentionInit /\ [][RetentionNext]_retention

-----------------------------------------------------------------------------
(* A run goes as a whole and only while it is past its retention: its row  *)
(* after its object, so that none is forgotten whatever step failed, and   *)
(* not if it was worked on since it was selected (_purge_run).             *)
PurgedWhole ==
    [][\A r \in ToSet(runs) \ ToSet(runs') : r \in Due \ objects]_retention

(* A run past its retention is purged one day, unless it is worked on or   *)
(* its own source is misplaced: such runs, the oldest of each sweep, do    *)
(* not keep it from the others as long as they do not fill a batch.        *)
SweepsDrain ==
    \A r \in Runs :
      Cardinality(misplaced) < BatchSize /\ r \in Due \ misplaced
        ~> r \notin Due
=============================================================================
