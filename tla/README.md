# A TLA+ verification project for myota-geodata-service

The service keeps the catalogue of geographic entities (parks, trails, ...) of
MYOTA programmes. Administrators import sources in bulk; background workers
preprocess them into candidate records; reviewers confirm or reject the
candidates; confirmed ones are promoted into the catalogue. Entities
are edited, located by a geocoder, retired and deleted. Everything lives in
PostgreSQL rows, source bytes live in an S3-compatible store, and work is handed
to the workers through an outbox and NATS JetStream. Most of what can go wrong
goes wrong *between* those parts: a worker that outlives its lease, a command
delivered twice, a cancellation that meets a checkpoint, a retry of a request
that had already succeeded.

This directory models those parts in TLA+, checks the models with TLC on small
instances and proves the central results with TLAPS for every instance.
References such as `geodata.py:2518` are to files under `src/`.

## 1. The system

| Part | Source | State it keeps | Operations |
|---|---|---|---|
| Import runs | `geodata.py` 2083-2916, 3407-3574; `geodata_import_worker.py`; `geodata_store.py` 258-311 | `import_run` row (status, lease, feature count), candidate rows, source object, the heartbeat thread of each worker | create, claim, heartbeat, checkpoint, complete, fail, cancel, finish cancellation, finalize, recover, reconcile |
| Uploads | `geodata.py` 560-946; `geodata_retention_worker.py` 40-74 | `geodata_upload_session`, `geodata_upload_part`, multipart upload and object in the store | create, upload part, complete, abort, expire, purge |
| Review and promotion | `geodata.py` 1943-2045, 3816-4256 | candidate rows, processing queues, entities | confirm, reject, queue, process a queue (lease, heartbeat, per-record transactions), requeue |
| Work delivery | `geodata_import_worker.py` | JetStream consumers, outbox, processed-event records, dead letters | fetch, dedupe, ack, nak, dead-letter, redispatch |
| Row repository | `relational_state.py`, `geodata_operations.py` | a request's loaded rows and their baselines, idempotency records | load, merge on flush, conflict, rollback, once |
| Deletion jobs | `geodata.py` 5454-5690 | job payload (status, lease, confirmation), entities | preview, confirm, execute, recover |
| Location enrichment | `geodata.py` 1299-1523, 4784-4918 | request id and geometry hash on the entity | request, queue, process, edit by hand |
| Entity lifecycle | `geodata.py` 4488-5365 | entity status, review, version, geometry history | review, set status, edit, change type, delete, resolve conflation |
| Retention | `import_retention.py`, `geodata_retention_worker.py` | runs past their retention, source objects | sweep, purge |
| Decoding, adapters, conflation, Maidenhead, catalogues, queries, telemetry, HTTP | the other files | none, or read-only | pure functions and I/O |

The parts meet in shared rows: an upload creates a run and its work command; a
run stages candidates; promotion turns candidates into entities; the
reconcilers of the worker process re-dispatch runs, queues, deletion jobs and
enrichment requests that nobody works on; retention removes what they leave.

What is hard in each of them is listed with its line under `hazards` in
`PROJECT.json`.

**What makes each part correct.** Imports: the source outlives the work, a settled run
is not worked on again unless its upload is completed once more, a cancellation sticks,
a run offered for review is complete, work settles. Uploads: a completed session has its
run and a whole source, a given-up one has neither, sessions end, no multipart upload is
lost or taken from its session. Promotion: a record is promoted once, to the target of
the queue that reports it, never over an approved entity; queues end; records are not
stranded. Delivery: what is committed is not done again, what is not is delivered again.
Row repository: no update is lost, a repeated request has one effect, flushes do not
deadlock at rows. Deletion jobs: an entity is gone in both services or in neither.
Enrichment: a result is applied only to the geometry it was looked up for, never over
what was entered by hand, nothing is missing unasked, and requests are answered.
Entities: the grid squares are the ones their geometry touches, whatever it was
converted from. Retention: it removes a run as a whole, only when it is due, and every
one that is.

## 2. The modules

| Module | What it is |
|---|---|
| `ImportRun` | one run: row, candidates, source object, work messages, N workers with their heartbeats, reconcilers, administrator, a client who repeats the completion of the upload, faults |
| `ImportLifecycle` | what the administrator is promised of a run, without workers, leases or messages |
| `ImportRunLifecycle` | the refinement mapping from the first to the second |
| `UploadSession` | one upload: session and part rows, multipart upload and object in the store, concurrent requests, expiry sweep, crashes |
| `UploadCreation` | concurrent requests for a session under one idempotency key, before `UploadSession` begins |
| `ImportPromotion` | one run's candidates, its processing queues and their workers, the entities, reviewers, and the preprocessing and its replay around them |
| `CandidateReview` | what a reviewer is promised of promotion, without queues, workers, leases, replays or versions |
| `ImportPromotionReview` | the refinement mapping from `ImportPromotion` to `CandidateReview` |
| `DeletionJob` | one deletion job: row, lease without heartbeat, commands, workers, the activity service, and what happens to the entity meanwhile |
| `EntityRecord` | one entity: lifecycle, geometry, located, derived and manual fields, the enrichment requests and their workers, staged imports |
| `RowStore` | the row repository: scopes of requests and jobs over shared rows, their row, advisory and category locks, merge, deadlocks, idempotency records |
| `Retention` | the sweep over runs past their retention while runs are worked on |
| `EntityGeometry` | geometries on an integer grid, their conversion, their Maidenhead squares and locators |
| `ImportBatches` | the generator that cuts an import into batches |
| `MC...` | instances for TLC: model values, symmetry, named fault budgets; `MCSeparateParts` joins the four small modules in one run |
| `ImportRunProofs`, `ImportLifecycleProofs` | theorems about `ImportRun`; the second holds those for runs that are finalized after review, with the refinement |
| `UploadSessionProofs`, `ImportPromotionProofs`, `DeletionJobProofs`, `EntityRecordProofs`, `RowStoreProofs` | theorems about the module of that name |
| `SeparatePartsProofs` | theorems about `UploadCreation`, `ImportBatches`, `Retention` and `EntityGeometry` |

How they fit together: `UploadCreation` ends where `UploadSession` begins, which
ends where `ImportRun` begins; `ImportPromotion` contains the preprocessing of the
run as others see it; `DeletionJob` and `EntityRecord` contain promotion as what
may happen to an entity meanwhile; `RowStore` is the general form of the merge that
`ImportRun`, `ImportPromotion`, `UploadSession` and `DeletionJob` contain where
they write rows. The parts are composed by such interference, not by one product
of all modules, which would be out of TLC's reach.

`map` in `PROJECT.json` names the source lines of every definition. A definition
whose comment begins with "Mutant" is a broken variant of the one next to it; it
is in no specification and serves to show that a property notices the bug.

### 2.1 ImportRun

The variables `status`, `lease`, `featureCount`, `cand` and `source` are the
row, the candidate rows and the object; `pc` is a worker's place in
`_recover_import_run` / `_process_import_run`, `heartbeat` and `cancelEvent` its
heartbeat thread, and `base*`, `*Moved` and `window` are what the row repository
remembers of the rows it read, against which `RowRepository.flush` merges.
Every action is one transaction, one look at a shared row, or one call on the
store. `Claim`, `Checkpoint`, `Commit`, `CommitFail` and `FinishCancellation`
carry the code's conditional UPDATEs and its upsert guard (`RowGuarded`:
CANCELLING and CANCELLED rows are not overwritten). Two things are deliberately
as in the code and not as one would wish them: a lease fences nobody, and the
error handler and the completion write over any status that is not guarded.

The other writer of the row is a client (`Client`). `complete_import_upload` goes
through its steps again as long as it does not see the session COMPLETED
(`geodata.py:814`), and then writes a new QUEUED row with its command over whatever row
the run has by then (887-919). `RepeatCompletion` is a request that has begun,
`CreateAgain` reads the row (or finds that nothing is to be done), `PersistAgain` merges
and queues, and `PersistAgainRefused` is a conflict. The upsert guard protects
CANCELLING and CANCELLED only: a run that is settled, or even finalized, is queued
again, and a run at work loses its lease to the new row. When this may happen at all,
with a session that has its run and is not COMPLETED, is the subject of `UploadSession`;
here it is a fault (`repeat`).

Abstractions: one record per batch; PREPROCESSED stands for
PREPROCESSED_WITH_ERRORS too; time is only "the lease has run out" (`LeaseExpires`
when no worker is left, `Overrun` as a fault when one is); the delivery limit of
the consumer is "any refused delivery may be the last" (fault `dead`), because a
long run refuses a duplicate as often as the limit allows; the deduplication
table is invisible here since `_recover_import_run` acknowledges a run that is
over; manifests, outbox events and statistics are left out; the legacy status
UPLOAD_PENDING is left out, because a durable deployment never writes it.

### 2.2 UploadSession

`session`, `part`, `run` are rows; `stored`, `multipart`, `object` the object
store; `req` holds, for each HTTP request in progress, its next step and what it
has read; `sweep` is the retention worker. None of the handlers runs in one
transaction, so each of their steps is an action. The S3 store comes in two
kinds, told apart by the variable `strict`, chosen at the start: a strict one
answers NoSuchUpload to an abort of a multipart that is finished, the other
accepts. The run is created by a merge with the row that may already be there, as
`RowMap.__setitem__` and `flush` do. The 5 MiB minimum of S3 parts is abstracted.

`UploadCreation` is `create_import_upload`: look for a session under the key, open
a multipart upload, insert the row, and clean up if the insert fails. `row` and
`open` are the database and the store; a request that finds a session is over at
once and is not told apart from one that did not start.

### 2.3 ImportPromotion

Candidates carry their review state, the queue they are assigned to and an edition that
a replay raises; entities carry status and version; a queue carries the outcome and how
often it was written. A worker claims (`Claim`), reads the queue without a lock
(`Start`), flushes that it has begun (`Begin`, or `BeginRefused`), then for each record
looks (`Look`) and writes (`Promote`) or reports an error (`RefuseRecord`), and writes
the outcome (`Finish`, or `FinishRefused`). The first flush compares only what it edits
(`geodata.py:3967-3977`, `relational_state.py:600-626`): the start time always, the
status only if the worker read another one than PROCESSING. A worker that read
PROCESSING therefore takes over as its `base` whatever status is committed by then,
COMPLETED included, and its outcome is accepted over it (`Latecomer`); `base` is "stale"
when another worker's start came in between, which is a conflict. `Look` and `Promote`
are separate because the code reads and checks before the flush compares; what was read
of the entities is kept for the whole queue (`known`), as the request scope does.
`Preprocess` and `Reviewer` are what other actors do meanwhile: they stage, replay,
finish or stop preprocessing; confirm, reject, submit, finalize, cancel, review and
edit. Commands are not modelled: a worker may be handed any claimable queue at any time,
which is more than redelivery and redispatch can do. A cancellation is one step, but it
does not end the staging: a checkpoint looks at no status, and one that comes late
(`LateCheckpoint`, as a fault) stages records of a run that is cancelled, finalized or
settled. Confirming and submitting (`geodata.py:3856-3938`, 4158-4256) do not look at
the run's status either, so those records can be confirmed, submitted and promoted.
`Requeue` is the repeated completion of `ImportRun`, for a run that is settled; what it
does to one still PROCESSING is seen there. In `CandidateReview` a late checkpoint is
the action of a straggler, after which a record may be there in a run of any status.
Statistics, notes and conflation records are left out.

README.md:627 says that a successful promotion deletes the staged record; the
code marks it PROCESSED and keeps it (`geodata.py:2040-2044`), and so does the model.

### 2.4 DeletionJob

`status` and `lease` are the job's row, `entity` is here, `cascaded` in the
activity service. `pc` follows `_execute_deletion_job`: claim by a conditional
UPDATE (`Deliver`), reading the row in another transaction (`Reread`), the stamp
(`Start`), the call of the other service (`Cascade`), the entity and the permission
(`Look`), and one flush that deletes and completes (`Commit`). `GiveBack` is the
error handler, which ends the lease unless the row is no longer the worker's.
`baseStatus`, `leaseMoved` and `stampMoved` are the baseline of the merge:
`updatedAt` is stamped by every write, so most overlaps end in a conflict, which
escapes to the consumer as a negative acknowledgement. A requester is a global
administrator or one who may delete rejected entities only.

### 2.5 EntityRecord

`entity` is the row: status, geometry, location fields (by the geometry they were
looked up for, by hand, or missing), the manual marks, the enrichment state and
its request. Each field is written by itself, as in the code. The constants say how
fields belong together: `Groups` are the required ones, of each of which one field is
needed (`geodata.py:127-135`: a country code is a group of its own), `Codes` are those
an administrator does not edit, `Derived` those that the catalogue has for a name,
and `Keepers` are the names that keep a field from a lookup (`code_parents` and
`location_aliases` of `reverse_geocoder.py:227-264`: a county code is kept for a county
but derived from none).

`UpdateLocation(manual, given, coded)` is `update_location`: values for some of the
fields managed by hand, then the codes of their names, each the catalogue's or, where it
has none, null (`derive_location_codes`, `geodata.py:4843-4845`), then the emptying of the
fields that were marked and are no longer, of these alone (4846-4847), and a request
for what is missing if any was released. `Applied` fills or empties field by field:
one that is kept, or that has a value when only missing ones are asked for, stays. So a
derived code outlives the release of the name it came from; `byHand` remembers, as
`reviewHistory` does, which names were ever managed by hand. `Knowledge` is what a
provider may know: a name and its alias are the same to it.

`Queued` is `_queue_location_enrichment`: a request for the same geometry is merged into
the queued one, with the older `onlyMissing`. A worker begins, asks the provider outside
any transaction, and applies the answer in one transaction that compares the request
again (`Current`). `failures` is the geocoder's cache in its process, which keeps
failures as well. `Stage` and `Materialize` are an import's copy of the location and the
promotion that writes it back; `StagedLocation` lets the source supply fields only as
long as neither an import nor a lookup has written any. Edits of one entity are
serialized by the row's lock, so each is one action.

### 2.6 RowStore

A request is `atomic`: it holds the rows it has loaded until it ends, and its key in an
advisory lock (`TakeKey`, `CommitRequest`). A job is not: a load locks the row only for
its own short transaction, and each flush is one more transaction that takes the changed
rows in one order, each with its advisory lock first, compares and merges (`Accepts`,
`Merged`), then deletes. The upsert of an entity writes its categories too, and takes
for each a `pg_advisory_xact_lock` that it holds to the commit
(`geodata_store.py:128-134`, 175-177, 211-214), in the order in which the entity lists
them (`Encoding`, `TakeCategory`): in the middle of a flush, and in no order that
flushes share. In the model an entity keeps its categories (`CategoriesOf`). `Blocker`,
`Cycle`, `Victim` and `Timeout` are the lock manager. `once`
(`relational_state.py:730-758`) is `request_once` without the outer transaction and is
not told apart. The share locks that PostgreSQL takes for foreign keys (of the import
run of a candidate), and the one DELETE that removes all candidates of a run outside of
any flush, are not modelled.

What reading for this module brought to light, and the model has: deletions look at
nothing, and one that finds no row when it is its turn locks none and deletes none;
two scopes that set one field to the same value are both accepted; rows
that a job only reads may change before it writes others. `deleted` is a history of
the rows that were ever deleted: a versioned row that is created anew begins at the
first revision again, which is all its writers compare.

### 2.7 The small modules

`Retention`: `runs` are the rows by the time of their last activity, of which the
first `due` are past the retention; `Touch` makes a run young, `Redispatch` makes it
as old as its creation, because it clears the heartbeat. A sweep (`SelectBatch`,
`DeleteObject`, `PurgeRow`, `EndBatch`) goes on until a batch is not full or purges
nothing; a failing run is excluded from the rest of the sweep.

`EntityGeometry` is `maidenhead.py` and `change_geometry_type` on a grid of integers.
These are the squares the service computes. Those that are stored, and read back
from then on, are recomputed at every change of the geometry by a trigger of the
database with `ST_Intersects` (`migrations/001_geodata_baseline.sql:132-258`, 1570), which
is PostGIS's and not modelled: the module is about the two functions of the service, whose
reference definition is what `ST_Intersects` promises. In the module
quotients become products, so that the borders are exact. `Pad` stands for what a
point (0.0005 degrees) or the box of a line (5 % of it, at least 0.0001) is widened by. The
epsilon of the code (1e-12) is the identity here. `Geometries` are all geometries of
the right shape, those with a polygon that has no rings included, which
`validate_geometry` accepts. The reference definition (`Touched`) uses another method:
what holds a point, and separating lines for the rest. For lines it is right for all of
them, for areas with convex rings, with which the instances are built.

`ImportBatches` is `_bounded_import_batches`, one feature at a time. A feature is its
size and its place; `bytes` are the running totals of the sizes and `ends` the places
where batches were yielded, so that the batch in hand is what lies behind the last of
them (`Open`) and its `batch_bytes` a difference of two totals.

## 3. What TLC checks

Every passing property has a mutant in `PROJECT.json`: a plausible bug in a
mapped definition under which TLC finds the property violated.

| Run | Instance | Shows |
|---|---|---|
| `import_faults` | 2 workers, 2 batches, 2 messages, a client; up to two of: a crash, an overrun lease, a dead letter, a repeated completion | `NoRestart`, `CancellationSticks` under all faults; `SourceOutlivesWork` unless a completion was repeated; `SingleActiveWorker`, `ReviewKept` while, besides, no lease is overrun |
| `import_healthy` | the same; one crash, one lost message; finalized after review; fairness | `ReviewableComplete`; `ImplementsLifecycle`: the refinement; `WorkSettles`: a run leaves QUEUED, PROCESSING and CANCELLING |
| `import_cancelled` | 2 workers, 2 batches, 2 messages; no faults | see section 5 |
| `upload_requests` | 2 requests, 2 parts of 2 sizes, 2 part uploads, both kinds of store; fairness | `CompletedHasRun`, `AssembledWhole`, `RunHasSource`; `GivenUpHasNoRun` (strict store), `SessionsEnd` (the other) |
| `promotion_faults` | 1 record, 2 queues, 2 workers, one edit of the entity; up to two of: a crash, an overrun lease, a dead letter, a replay, a late checkpoint | `PromotedOnce`, `CompletedIsFinal`; `ImplementsReview`: the refinement of `CandidateReview` |
| `promotion_batch` | 2 records, 2 queues, 2 workers; one crash, one edit of an entity; fairness | `CompletedAsAsked`, `ApprovedUntouched`, `QueuesEnd` |
| `promotion_stranded` | 2 records, one dead letter | see section 5 |
| `deletion_faults` | 2 workers, 2 commands; one fault of each kind, two errors; fairness | `GoneInBoth`, `CompletedIsFinal`, `ConfirmedCompletes` |
| `deletion_refused` | 2 workers, 1 command, one promotion, a requester who may delete rejected entities only | see section 5 |
| `entity_edits` | 2 workers, 2 geometries, the region, its alias and its code, 2 edits, any one fault; fairness | `LocatedHere`, `MissingIsAskedFor`, `ManualKept`, `RequestsSettle` |
| `row_scopes` | 2 scopes, 3 rows (two entities with the same two categories in opposite orders, and a record that may not exist), 1 key, 2 bodies; fairness | `NoLostUpdate`, `RequestReadsHold`, `OneOutcome`, `FlushesNeverDeadlock`, `ScopesEnd` |
| `separate_parts` | one part per behaviour: a grid of 8 by 8 with squares of 4 and locators of 2; six features of 3 sizes; 3 runs in batches of 2, two failures; 3 requests for a session, one mishap of each kind | `SquaresAreTouched`, `ConversionsStay`, `BatchesAreCut`, `PurgedWhole`, `SweepsDrain`, `MultipartsAreOwned` |

`TypeOK` is an invariant of the runs of the first three state machines; those of
`DeletionJob`, `EntityRecord` and `RowStore` were checked on the same instances. All
six are theorems of section 4, and so is what is proved beyond the properties of
the runs, each of which was checked on the instance of its module first.

**Bounds.** Two workers suffice for every race in this code, which is between a holder
of a lease and one other actor; two batches give a first and a later checkpoint, so that
a run can be half staged; a second message is a duplicate; two queues give a retried
record an earlier and a later queue; two records give a queue an outcome with some
records in error and an entity that is read long before it is written; two faults of
different kinds (`MaxTotal`) give every pair of them. Two part uploads send a part and
replace it, or send both. Two edits of an entity are one that asks for a lookup and one
that overtakes it; a name, its alias and a code that is derived from either are one of
each kind of field. A row that is compared by version and one that is merged by field
are the two kinds the repository knows; a scope of `row_scopes` has two rows in memory
(`MaxSeen`) and changes one set of cells (`Edits`: a field of the second entity, a field
of the first together with one of the record, the other field of the record), so that
two flushes meet in every order of rows and categories. A grid of two squares of two
locators each way has an inner border, a corner and the border of the world; a batch of
two and three runs is a full batch with one run outside it. The constants whose names
begin with `Max` are bounds of the models (but for `MaxFeatures` and `MaxBytes`, the
limits of a batch).

The `VIEW` of `import_faults` leaves out what no further step reads: the copies of the run
row a writer has given up, and the history of rejections, which its properties do not
mention.

Larger instances were explored by hand, without another result: `UploadSession` with
three part uploads (2.8 million states), grids of 4/2/1 and 6/3/1.

**Deadlock** is not checked (`CHECK_DEADLOCK FALSE`) because the systems really
come to rest: a settled run, a purged session, a finalized run with no worker, a
completed job, an entity without a request, the end of what the bounds allow.

**Fairness.** `ImportRun`: a handler runs to its end; consumers keep fetching
and the reconcilers loop for ever (`geodata_import_worker.py` 617-762), strongly
fair for delivery because a worker is busy at times; leases that nobody extends
run out. `UploadSession`: the clock and the daily sweep only, nothing of the
clients. `ImportPromotion`: a worker finishes what it holds, a claimable queue is
handed to some worker (redelivery after a refused or lost acknowledgement), and
leases run out; the recovery sweep is not needed. `DeletionJob`: handlers run to
their end, the consumer fetches (strongly, as it is busy at times), the reconciler
loops, leases run out. `EntityRecord`: workers and reconciler. `RowStore`: the
repository and the lock manager go on; that a handler's own code ends is
`StartFlush` and `FinishJob`, enabled as soon as it may end. `Retention`: the sweep
runs every day and goes on until it ends. No fairness is assumed of an
administrator, a client or a fault.

**Conditional properties.** `SourceOutlivesWork`, `SingleActiveWorker`, `ReviewKept`,
`ReviewableComplete`, `CompletedAsAsked`, `LocatedHere` and `MultipartsAreOwned` are
stated for histories without the faults that break them, `NoRestart` but for the one
step of a client that repeats the completion, and only in the status it has read and
never after a cancellation, `GivenUpHasNoRun` and `SessionsEnd` for the kind of store
they need, `DeletionJob.CompletedIsFinal` but for latecomers, that of `ImportPromotion`
but for the outcome of latecomers, of which there are none while no lease is overrun and
nothing is dead-lettered, `LocatedHere` but for fields that go with a name which was
managed by hand once (a derived code must then be that of the name), `MissingIsAskedFor`
but for a code the catalogue lacks, which a lookup would pass over, `ConfirmedCompletes`
but for entities that may no longer be deleted, `NoLostUpdate` but for entities that
were deleted (which may be created anew), `FlushesNeverDeadlock` for jobs that delete
nothing and circles in which nobody waits for a category, `SweepsDrain` for less than a
batch of runs that cannot be purged; the module comments say what happens otherwise.

## 4. What is proved

TLAPS checks these for every set of workers, requests, scopes, records, rows, fields
and runs, every number of batches, parts, queues and edits, every geometry on every
grid, and every budget of messages, faults and mishaps, from the `ASSUME`s of the
modules only. All of them are about the plain specifications: none needs fairness.

| Module | Theorem | Statement |
|---|---|---|
| `ImportRun` | `TypeCorrect` | `Spec => []TypeOK` |
| | `SourceSafe` | `Spec => []SourceOutlivesWork` |
| | `NeverRestarted` | `Spec => NoRestart` |
| | `CancellationIsSticky` | `Spec => CancellationSticks` |
| | `WorkersSerialized` | `Spec => []SingleActiveWorker` |
| | `ReviewSurvivesReplay` | `Spec => ReviewKept` |
| | `ReviewIsComplete` | `Spec => []ReviewableComplete`, if runs are finalized after review only |
| | `LifecycleImplemented` | `Spec => ImplementsLifecycle`, if leases are not overrun, deliveries not dead-lettered, completions not repeated and runs finalized after review only |
| `UploadSession` | `UploadTypes` | `Spec => []TypeOK` |
| | `UploadCompletedHasRun` | `Spec => []CompletedHasRun` |
| | `UploadAssembledWhole` | `Spec => []AssembledWhole` |
| | `UploadRunHasSource` | `Spec => []RunHasSource` |
| | `UploadGivenUpHasNoRun` | `Spec => []GivenUpHasNoRun` |
| `ImportPromotion` | `PromotionTypes` | `Spec => []TypeOK` |
| | `PromotedAtMostOnce` | `Spec => []PromotedOnce` |
| | `ApprovedIsKept` | `Spec => ApprovedUntouched` |
| | `CompletionIsFinal` | `Spec => CompletedIsFinal` |
| | `CompletionAsAsked` | `Spec => []CompletedAsAsked` |
| | `ReviewImplemented` | `Spec => ImplementsReview`, under every fault |
| `DeletionJob` | `DeletedInBoth` | `Spec => []GoneInBoth` |
| | `CompletedStays` | `Spec => CompletedIsFinal` |
| | `DeletionTypes` | `Spec => []TypeOK` |
| | `OneWorkerWithoutOverrun` | `Spec => []UndisturbedWorker`: while no lease was overrun, one worker at a time, under a live lease, and no flush refused |
| | `CompletedStaysWithoutOverrun` | `CompletedIsFinal` without its exception, while no lease was overrun |
| `EntityRecord` | `EntityTypes` | `Spec => []TypeOK` |
| | `WhatIsMissingIsAsked` | `Spec => []MissingIsAskedFor` |
| | `CompletedIsHere` | `Spec => []LocatedHere` |
| | `ManualValuesKept` | `Spec => ManualKept` |
| `RowStore` | `RowTypes` | `Spec => []TypeOK` |
| | `OneOutcomePerKey` | `Spec => []OneOutcome` |
| | `ReadsHold` | `Spec => []RequestReadsHold` |
| | `NoUpdateLost` | `Spec => NoLostUpdate` |
| | `FlushesDoNotDeadlock` | `Spec => []FlushesNeverDeadlock` |
| | `RequestsCommitAtOnce` | `Spec => RequestsAreAtomic`: a request is one step, at its commit |
| `UploadCreation` | `UploadsStayOwned` | `CreationSpec => []MultipartsAreOwned` |
| `ImportBatches` | `ImportIsCut` | `BatchSpec => []BatchesAreCut` |
| `Retention` | `RunsPurgedWhole` | `RetentionSpec => PurgedWhole` |
| `EntityGeometry` | `GeometryAlwaysPlaced` | `GeometrySpec => []GeometryInv` |
| | `PointsAndLinesAreTouched` | `GeometrySpec => [](PointIsHeld /\ LinesTouched)` |
| | `AreasHaveTheirBorders` | `GeometrySpec => []BordersTouched`: an area is in every cell that one of its borders touches |
| | `ConversionsAlwaysStay` | `GeometrySpec => ConversionsStay` |
| | `LocatorsAgree` | `GeometrySpec => []LocatorsLieInSquares`: the locators of a point or of lines lie in its squares |

With these, every safety property of a passing run is a theorem, but for the part of
`SquaresAreTouched` that is about areas (section 4.8). The conditions under which some
are stated (section 3) are part of the property, not hypotheses of the theorem; only
`ReviewIsComplete` and `LifecycleImplemented` have hypotheses, on the constants, which
the run `import_healthy` meets.

### 4.1 Import runs

Type correctness needs `StageInRange`: a worker that stages is at an ordinal of its
source (`TypeInv`). `NoRestart` holds step by step: only the claim, the redispatch and
the client write QUEUED or PROCESSING, the first two on condition of one of the two, and
the client through the merge, so only over the status it has read, and over no cancelled
row because of the upsert guard (`RestartStep`; that this is a client who has begun a
repetition is `ClientIdle`). `SourceOutlivesWork` is not inductive, since a worker that
is about to delete the object no longer looks at the row; it is strengthened
(`SourceInv`), as long as no completion was repeated, with `CancellationSeen`: a worker
that believes in a cancellation (its cancel event is set, or it is finishing one)
implies that the run has left QUEUED and PROCESSING, and one that is cleaning up that it
has left CANCELLING too. Both stay true because no step leads back. `CancellationSticks`
holds step by step as well, by the upsert guard and the conditional updates.
Serialization (`LeaseInv`, while no lease was overrun and no completion repeated:
`LeaseHonoured`): of two workers that stage one is the other, a worker that stages
excludes QUEUED, and while the run is PROCESSING it has a live lease, so no claim
succeeds; a crashed worker leaves a lease but no second worker. `ReviewKept` adds that a
row read as absent by the worker that stages is absent still, so the one write that sets
PENDING never meets a confirmed row. `ReviewIsComplete` (`ReviewInv`, without overrun
leases, repeated completions and dead letters) adds `Progress`: every ordinal before the
batch of the active worker is staged or was rejected, which survives crashes because
rows stay and a successor begins at the first batch. The refinement maps each action to
one of `ImportLifecycle` or to a stutter; completeness at the step that offers the run
comes from `Progress`.

### 4.2 Uploads

`MultipartsAreOwned` is strengthened (`CreationInv`) with what makes an abort
harmless: uploads are numbered as they are opened, a request that holds one is the
only one that does (`Holders`), and the session's upload is in nobody's hands unless
an answer was lost (`RowApart`).

No request of `UploadSession` holds a lock across its steps, so `SessionInv` says what
a step can rely on from an earlier one. The multipart upload leaves "open" once and
for ever, and there is an object only if it went to "done"; what a request has listed
when it is about to assemble has the declared size, whatever has become of the parts
since, because the store takes only the parts that were named (`ListedWhole`,
`ObjectAssembled`). Whoever is past the scan has a clean object of that size, or the
run it is about to write has been cancelled (`SourceKept`), and the guards of the
upsert keep a cancelled run from being queued again. The run a request has merged with
or written does not go away (`RunStays`), hence `CompletedHasRun`. With a store that
refuses to abort a finished upload, a session that is given up, or about to be, has
an aborted upload (`AbortedFirst`), which excludes an object and so a run.

### 4.3 Promotion

Under every fault (`ReviewInv`): what was promoted since it was staged is marked
PROCESSED or gone (`PromotedIsProcessed`), so that the flush of a second writer, which
compares the candidate, fails; what a worker holds it has read as not approved
(`ReadUnapproved`), so that an approval since then has changed the version it compares;
a cancelled run has no preprocessing, and no candidate unless a checkpoint came late
(`CancelledIsQuiet`). `PromotedOnce`, `ApprovedUntouched` and the refinement rest on
these three. That only a latecomer takes COMPLETED back follows from the guards of the
claim, the first flush, the outcome and the dead letter; that there is none while no
lease is overrun and nothing dead-lettered needs an invariant (`LeaseHeld`): a queue
that is worked on is PROCESSING and leased, and has one worker, whose base is
PROCESSING. The refinement maps the write of a record to the abstract `Promote`, staging
and replay to `Stage` or nothing, a late checkpoint to the straggler's, confirmation,
rejection, cancellation and finalization to `Confirm`, `Discard` and `Close`, and
everything queues and workers do besides to a stutter. It says that leases, queues and
versions together give what one transaction with a lock on candidate, run and entity
would give.

`CompletedAsAsked` is about queues, and needs a second invariant (`Fenced`) that holds
while no lease is overrun, nothing replayed or staged late and no queue dead-lettered:
`LeaseHeld`, no record is to be staged a second time (`StagedOnce`), the records of a
queue that has not failed are assigned to it (`QueueOwns`), a PROCESSED record was
promoted to the target of the queue it is assigned to (`ProcessedByQueue`), and what a
worker has passed is promoted to that target or reported as an error (`Progress`). The
outcome COMPLETED is written with no errors, so all are promoted.

### 4.4 Deletion and location

`GoneInBoth` (`GoneInv`) needs that a worker looks
and commits only after its call of the activity service (`CascadeFirst`), and that
what a worker has seen to be gone is gone, unless it was created again (`GoneIsGone`):
a commit that deletes nothing is then right to complete the job. `CompletedIsFinal`
(`FinalInv`) needs that a worker past its stamp has not read COMPLETED
(`BegunUnfinished`) and that one that is about to write its stamp into a completed job
has read the completion, or is left behind by the stamp of another (`CompletionSeen`),
so that its write is a conflict.

The types need to know where the copies of the command are (`InHand`): those in the
stream and those in hand are together at most `MaxMsgs`, and there are none before the
confirmation, which sends the first one. `OneWorkerWithoutOverrun` says what the lease
is for, though it has no heartbeat: as long as it did not run out under a worker,
whoever works is alone, under a live lease, and its copy of the row is the row
(`Alone`); the claim, the reconciler and the clock all wait for an end of the lease. So
the conflicts of `Start` and `Commit`, the outcome that `GiveBack` does not record and
the latecomers of `CompletedIsFinal` all come from a deletion that took longer than its
lease of 120 seconds, and from nothing else.

For `EntityRecord` (`EntityInv`): the request an entity carries is for its geometry, and
an entity without one lacks nothing but codes of names managed by hand (`Asked`); a
request in the stream or in a worker's hands that has the number of the entity's is that
request (`Answering`), since numbers are never used again, so what a worker applies is
what was asked for; and a derived code of a marked name is that of the name, or missing,
with every mark in `byHand` (`Marked`). Unless a lookup failed or an import was staged
(`Quiet`), either everything is about to be looked up anew, or each field is of the
present geometry, missing, managed by hand, or goes with a name that once was
(`Placed`); completion then gives `LocatedHere`.

### 4.5 Rows

The invariant of `RowStore` says of every scope what it is by itself (`Local`) and what
it can rely on while others run (`Held`): the lock on its key, under which nothing is
recorded yet; for each row it has written in a flush the advisory lock, the row lock if
there is a row, and that the row is one it still accepts and merges as it did; for each
row a request has read, the lock and the row itself; for a job, that it holds no lock
but those of its flush; and that versions only rise unless the row was deleted. One
lemma (`OthersHeld`) shows that a step of another scope takes none of this away, as it
writes only rows whose locks it holds; every action is then about its own scope.
`OneOutcome` follows from the key, `RequestReadsHold` from the reads, `NoLostUpdate`
from the rows written and, for versioned rows, from the versions. The category locks
carry nothing a scope relies on (`TakeCategoryInv`), they only make it wait. For
`FlushesNeverDeadlock`, a job that waits at a row has all rows it holds before this one
in the one order of rows (by kind and key), so, if nobody waits for a category, each
waits for a smaller row than the one that blocks it, and a cycle of waits would have no
largest row. With a wait for a category there are cycles (section 5), as in the code.

`RequestsCommitAtOnce` is what the callers of the repository count on, and most of the
other modules with them, whose requests are single actions: a request runs for many
steps, among others, and yet the rows are at its commit as it has read them, those it
wrote become what it made of them (`AsLeft`), no other row changes, and nothing is
recorded under its key. It needs the invariant of `NoLostUpdate` and that the rows a
request has in hand are those it has read or made itself (`Lawful`). It does not hold
for jobs, which commit flush by flush and read without keeping a lock.

### 4.6 Batches and retention

`BatchesAreCut` needs (`BatchInv`) that the totals rise (`Counted`), that the batch in hand
is below both limits after every step (`Below`), and that no feature to come would have
fitted into a batch that was just yielded (`Shut`): it had reached the count, or has the
bytes with it. `PurgedWhole` (`PurgeInv`) needs that the object of the run in hand is gone
when its row is looked at; the row goes only if it is due by then.

### 4.7 Geometries

The code computes the cells of a line in two stages, candidates by index and a test by
Liang and Barsky's clipping; the reference knows neither. The candidates of some points
are exactly the cells that their box overlaps, edges included (`CandidatesOverlap`,
from `Candidates`, where a coordinate on a border counts for both its sides and the
last cell is closed). Clipping is first mirrored into one quadrant (`MeetsIsClipped`); there
each ratio of entry is compared with each ratio of exit, and where segment and box
overlap on both axes all comparisons hold unless the corners lie strictly on one side of the
line (`ClippedIsNotApart`), so the segment meets the box if and only if no axis and no
edge separates them (`SegmentTouches`). A point needs division only (`IndexHolds`).
With `GeometryInv` (the geometry is of its shape and in the world, its cells are its
own) this is `PointsAndLinesAreTouched`, and for the edges of every ring, convex or
not, `AreasHaveTheirBorders`.

For `ConversionsStay` a point or lines overlap, by their box, every cell they are in
(`CoveredOverlaps`), and the frame around the widened box meets every cell that box
overlaps (`FrameMeets`): one of its four edges does, or the cell holds a corner, or the
ray from a corner of the cell crosses the frame once. The outline of an area
loses one edge at most and gains none (`OutlineKeeps`). `LocatorsAgree` needs that a
locator lies in one square, so that what touches the one touches the other.

The least and the greatest coordinate of a set of points are found by the well-founded
order of the naturals (`LeastOfWorld`), which is the only use of it.

### 4.8 Only model-checked

Liveness (`WorkSettles`, `SessionsEnd`, `QueuesEnd`, `ConfirmedCompletes`,
`RequestsSettle`, `ScopesEnd`, `SweepsDrain`), since fairness and ENABLED are out of the
prover's reach. Of `SquaresAreTouched`, areas: that a cell without any part of a border
is in the area, or in none, is decided by the parity of the crossings of a ray with
the whole ring, and what that count is for every convex ring would need an induction
along the ring; the reference, besides, is right for convex rings only, and
`GeometrySpec` has all of them. Proved of areas are the cells of their borders, and the
parity of a frame. The violations of `findings` are counterexamples and need no proof.

### 4.9 What the proofs corrected

Five attempts failed for a reason in the model, and the source decided. `RowStore` let a
flush delete a row that was created after its deletion had found none, which the DELETE
statement does not; and it let a job keep, after a rolled back flush, the rows it had
created, which `rollback_pending` forgets (`relational_state.py:721-723`).
`NoLostUpdate` was stated for all rows: it does not hold for an entity that is deleted
and created anew under its id, in the code as in the model (section 5). TLC shows the
loss with three edits of a scope instead of the one of `row_scopes`. `EntityGeometry`
counted an edge that a ring traverses twice once, where `_point_in_ring` counts it twice
(`maidenhead.py:109-122`), so that an area of no width has no inside. And its
conversions were defined for areas with rings only, while a MultiPolygon may hold a
polygon without any (`geodata_pipeline.py:133-141`), which `_covered_cells` passes over
and `change_geometry_type` makes an empty line of, to be refused.

Comparing the modules with the code line by line corrected others, each of which had
made a property look stronger than the code: the repeated completion of an upload as a
writer of a run at work, the unlocked read before the first flush of a queue, late
checkpoints in a cancelled run, location fields that are written one by one, and the
category locks of a flush.

## 5. Findings

`findings` in `PROJECT.json` lists three disagreements, each with a run whose
counterexample shows it:

- an uncommitted batch outlives the cancellation of its run (`import_cancelled`);
- a dead-lettered promotion leaves records that can be neither submitted nor
  rejected (`promotion_stranded`);
- a deletion job deletes the activity records of an entity that it is then refused
  to delete, and does so again at every retry (`deletion_refused`).

The models contain these further ones, without a run of their own. Most are listed
among the hazards, at their lines.

Imports and uploads:

- a run failed by a dead letter becomes PREPROCESSED when the worker that still
  processes it finishes (`geodata_import_worker.py:557`);
- a run finalized while it is CANCELLING is written again by its worker
  (`geodata.py:3498`);
- a record rejected before its batch is replayed is staged again
  (`geodata.py:2721`);
- a repeated completion of an upload queues its run again, even a settled or finalized
  one, although the comment at `geodata.py:857-858` says that the key is checked before
  any run or event is created (`geodata.py:895`); a run that is PROCESSING loses its
  lease to it between two heartbeats, so that two workers may work on it; and the run it
  queues may have no source any more, if it was cancelled or finalized between the check
  and the write (`PersistAgain`; the exceptions of `NoRestart`, `SingleActiveWorker` and
  `SourceOutlivesWork`);
- an expired upload session whose multipart upload is finished stays open with a
  store that, like AWS S3, refuses to abort it (`geodata_retention_worker.py:55`);
- a request whose insert commits although its answer is lost aborts the multipart
  upload of the session it has created, and then answers with that session
  (`geodata.py:674`).

Promotion and deletion:

- a replay of preprocessing takes a record from the queue that is about to
  promote it (`geodata.py:1753`);
- promotion may set a run COMPLETED while its preprocessing is interrupted, after
  which nothing resumes it (`geodata.py:4116`);
- promotion writes over a RETIRED entity (`geodata.py:1961`);
- after an overrun lease or a dead letter, a worker that has read a queue as PROCESSING
  takes over the COMPLETED another one writes before its first flush, and writes FAILED
  over it if the records were cancelled, finalized or staged again meanwhile
  (`geodata.py:3967-3977`, 4061-4076; `ImportPromotion!Latecomer`);
- the candidates that a late checkpoint leaves in a cancelled run can be confirmed,
  submitted and promoted, since none of these requests looks at the run
  (`geodata.py:3856-3938`, 4158-4256; the straggler of `CandidateReview`);
- a worker that claimed a deletion job before another completed it, and reads the
  row afterwards, writes PROCESSING over COMPLETED and does everything again
  (`geodata.py:5529`; `Latecomer`).

Entities:

- a failed lookup is cached for the life of the process, so that the retry offered
  by README.md:438-439 may fail without asking (`reverse_geocoder.py:228`);
- a field filled after a failed lookup for a new geometry joins values of the old
  one (`LocatedHere`);
- a code that was derived from a name entered by hand survives the release of the name: a
  park marked as in Portugal, released and looked up in Spain has the country Spain and
  the code PT, and its enrichment is COMPLETED (`geodata.py:4843-4847`). The alias of a
  name, and the county code of a county, that a lookup for a new geometry passed over
  while the name was marked, stay those of the old one in the same way;
- a required code that the catalogue lacks for a name entered by hand is emptied without
  a request (`geodata.py:4843-4845`; `MissingIsAskedFor`), which would not fill it before
  the name is released;
- what is entered by hand between the staging of a record and its promotion is lost,
  although the comment at `geodata.py:1952` promises it for other metadata
  (`geodata.py:1728`).

Rows and retention:

- a request takes row locks from the load on and advisory locks at the flush, a job's
  flush the advisory lock first: they do deadlock, and PostgreSQL refuses one of them
  (`relational_state.py:593`). So do the flushes of two jobs over entities: each entity
  takes the locks of its categories in its own order and keeps them to the commit
  (`geodata_store.py:128-134`), so two entities that list two categories crosswise
  suffice, or one category, when one flush holds it from its first entity and waits for
  a second entity whose holder waits for the category. The refused flush is rolled back
  and its scope ends. At rows alone, without deletions, flushes never do
  (`FlushesNeverDeadlock`);
- an entity that is deleted (`geodata.py:5187`) and promoted anew under its id
  (`geodata.py:1943-1995`) begins at revision 1 again; a worker that had read the first
  at revision 1 writes over the second, as only the revision is compared
  (`relational_state.py:607`; `deleted` in `NoLostUpdate`);
- the source of a run that becomes active between its selection and its deletion is
  gone (`import_retention.py:193`), although README.md:75-76 has heartbeats protect
  ongoing processing; a redispatch clears the heartbeat, which makes a run that was
  worked on yesterday as old as its creation (`geodata_import_worker.py:199`);
- as many runs that cannot be purged as a batch holds, oldest of all, end every
  sweep before any other run is reached (`geodata_retention_worker.py:30`).

## 6. Not modelled

- Decoders, adapters, queries, catalogues, HTTP, authorization, telemetry,
  migrations: parsing, reading and dispatch without state of their own.
- Import schedules, drawn proposals, metadata patches and the cleanup after load
  tests: single-request writes, for which `RowStore` says what a request is.
- What the database adds by itself: the trigger that recomputes the stored Maidenhead
  squares, foreign keys and their share locks.
- The consumer loop with its processed-event records: the handlers look at the
  state of the row, so the table is invisible to every property above; each module
  delivers its commands more freely than the loop does.
- The disappearance of records from a complete snapshot, conflation scores and
  legacy references: functions of their input with long tables and no hazard but
  their formulas; `Disappear` in `EntityRecord` is the effect of the first.

## 7. Plan

The state machines of the plan are done, with their refinements, and so are the proofs
of their safety properties. What is left:

1. The disappearance of records from a complete snapshot, as a module of its own.
2. The areas of `SquaresAreTouched` as a theorem about convex rings: that a ray crosses
   such a ring once from within and not once, or twice, from without.
