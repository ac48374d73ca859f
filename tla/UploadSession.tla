---------------------------- MODULE UploadSession ----------------------------
(***************************************************************************)
(* One resumable upload, from the multipart upload in the object store to  *)
(* the import run it becomes: the rows of geodata_upload_session and       *)
(* geodata_upload_part, the concurrent HTTP requests on them               *)
(* (src/geodata.py, none of which runs in one transaction), the expiry     *)
(* sweep (src/geodata_retention_worker.py) and crashes of the API process. *)
(***************************************************************************)
EXTENDS Naturals, FiniteSets, FiniteSetsExt

CONSTANTS
    Requests,      \* HTTP requests being handled at once
    NumParts,      \* part numbers a client uses
    PartSizes,     \* sizes of the parts it sends
    ExpectedSize,  \* the size it has declared
    MaxUploads     \* bound: part uploads that reach the object store

ASSUME PartsAssumption   == NumParts \in Nat \ {0}
ASSUME SizesAssumption   == PartSizes \subseteq Nat \ {0}
ASSUME SizeAssumption    == ExpectedSize \in Nat \ {0}
ASSUME UploadsAssumption == MaxUploads \in Nat

Parts == 1 .. NumParts

\* A part as its row or the store has it; the tag stands for the ETag, and
\* is 0 before the store has answered.
NoPart  == [size |-> 0, tag |-> 0]
Part    == {NoPart} \cup [size : PartSizes, tag : 0 .. MaxUploads]
NoParts == [n \in Parts |-> NoPart]

Sessions   == {"UPLOADING", "COMPLETING", "COMPLETED", "ABORTED", "EXPIRED",
               "FAILED", "purged"}
Runs       == {"none", "QUEUED", "PROCESSING", "PREPROCESSED", "CANCELLED"}
Steps      == {"idle", "part", "record", "claim", "list", "assemble", "scan",
               "reject", "create", "persist", "finish", "abort", "aborted"}

\* What a request has read or been given: a part and its number, the listed
\* parts, the status of the run it found.
Request == [step : Steps, number : Parts, sent : Part, seen : [Parts -> Part],
            base : Runs]
Idle    == [step |-> "idle", number |-> 1, sent |-> NoPart, seen |-> NoParts,
            base |-> "none"]

VARIABLES
    session,       \* geodata_upload_session.status
    expired,       \* has expires_at passed?
    part,          \* geodata_upload_part, by part number
    run,           \* status of the import run with the upload's id
    stored,        \* the parts the multipart upload holds
    multipart,     \* "open", "done" or "aborted"
    object,        \* size of the assembled object, 0 if there is none
    quality,       \* what the scan and the digest will say of the bytes
    strict,        \* does the store refuse to abort a finished multipart?
    uploads,       \* parts uploaded so far (bound)
    req,           \* the requests
    sweep          \* step of the expiry sweep

rows  == <<session, expired, part, run>>
bytes == <<stored, multipart, object, quality, strict, uploads>>
vars  == <<rows, bytes, req, sweep>>

TypeOK ==
    /\ session \in Sessions
    /\ expired \in BOOLEAN
    /\ part \in [Parts -> Part]
    /\ run \in Runs
    /\ stored \in [Parts -> Part]
    /\ multipart \in {"open", "done", "aborted"}
    /\ object \in Nat
    /\ quality \in {"clean", "infected", "corrupt"}
    /\ strict \in BOOLEAN
    /\ uploads \in 0 .. MaxUploads
    /\ req \in [Requests -> Request]
    /\ sweep \in {"idle", "abort", "expire"}

-----------------------------------------------------------------------------
Present(f) == {n \in Parts : f[n] /= NoPart}

TotalSize(f, S) == MapThenSumSet(LAMBDA n : f[n].size, S)

\* _upload_session: the session accepts requests.
Live == session \in {"UPLOADING", "COMPLETING"}

At(r, step) == req[r].step = step

\* Request r goes on with another step, or answers.
Goto(r, step) == req' = [req EXCEPT ![r].step = step]

Answer(r) == req' = [req EXCEPT ![r] = Idle]

\* Does the object store let the multipart upload be aborted (again)?
AbortAccepted == multipart = "open" \/ ~strict

AfterAbort == IF multipart = "open" THEN "aborted" ELSE multipart

\* The session is created with its multipart upload.
Init ==
    /\ session = "UPLOADING" /\ expired = FALSE /\ part = NoParts
    /\ run = "none"
    /\ stored = NoParts /\ multipart = "open" /\ object = 0
    /\ quality \in {"clean", "infected", "corrupt"} /\ strict \in BOOLEAN
    /\ uploads = 0
    /\ req = [r \in Requests |-> Idle]
    /\ sweep = "idle"

-----------------------------------------------------------------------------
\* upload_import_part

StartPart(r, n, size) ==
    /\ At(r, "idle") /\ Live /\ ~expired
    /\ req' = [req EXCEPT ![r] = [Idle EXCEPT !.step = "part", !.number = n,
                                      !.sent = [size |-> size, tag |-> 0]]]
    /\ UNCHANGED <<rows, bytes, sweep>>

\* Under a lock on its number the part is sent, if the others leave room.
Fits(r) ==
    TotalSize(part, Parts \ {req[r].number}) + req[r].sent.size <= ExpectedSize

SendPart(r) ==
    /\ At(r, "part")
    /\ \A q \in Requests : At(q, "record") => req[q].number /= req[r].number
    /\ IF Fits(r) /\ multipart = "open"
         THEN /\ uploads < MaxUploads
              /\ uploads' = uploads + 1
              /\ req' = [req EXCEPT ![r].step = "record",
                                    ![r].sent.tag = uploads + 1]
              /\ stored' = [stored EXCEPT ![req[r].number] = req'[r].sent]
         ELSE /\ Answer(r)
              /\ UNCHANGED <<uploads, stored>>
    /\ UNCHANGED <<rows, multipart, object, quality, strict, sweep>>

\* Mutant: the size of a replaced part is added instead of replaced.
RecordPartAdded(r) ==
    /\ At(r, "record")
    /\ part' = IF session = "purged" THEN part
               ELSE [part EXCEPT ![req[r].number] =
                         [req[r].sent EXCEPT !.size = @ + part[req[r].number].size]]
    /\ Answer(r)
    /\ UNCHANGED <<session, expired, run, bytes, sweep>>

\* A session purged in the meantime has no row to refer to.
RecordPart(r) ==
    /\ At(r, "record")
    /\ part' = IF session = "purged" THEN part
               ELSE [part EXCEPT ![req[r].number] = req[r].sent]
    /\ Answer(r)
    /\ UNCHANGED <<session, expired, run, bytes, sweep>>

-----------------------------------------------------------------------------
\* complete_import_upload

\* A completed session only answers; any other live one is worked on.
StartComplete(r) ==
    /\ At(r, "idle") /\ Live /\ ~expired
    /\ Goto(r, "claim")
    /\ UNCHANGED <<rows, bytes, sweep>>

\* The status is not looked at again: whoever came first, this one goes on.
ClaimSession(r) ==
    /\ At(r, "claim")
    /\ session' = IF session = "UPLOADING" THEN "COMPLETING" ELSE session
    /\ Goto(r, "list")
    /\ UNCHANGED <<expired, part, run, bytes, sweep>>

\* Mutant: parts beyond the declared size are let through.
AtLeastWhole(f) ==
    /\ \E k \in Parts : Present(f) = 1 .. k
    /\ TotalSize(f, Parts) >= ExpectedSize

\* The parts are numbered from 1 without a gap and have the declared size.
Whole(f) ==
    /\ \E k \in Parts : Present(f) = 1 .. k
    /\ TotalSize(f, Parts) = ExpectedSize

ListParts(r) ==
    /\ At(r, "list")
    /\ IF Whole(part)
         THEN req' = [req EXCEPT ![r].step = "assemble", ![r].seen = part]
         ELSE Answer(r)
    /\ UNCHANGED <<rows, bytes, sweep>>

\* The store assembles the parts it was told, if it still has them; when it
\* will not, an object of the right size that is already there will do.
Assemble(r) ==
    /\ At(r, "assemble")
    /\ IF multipart = "open" /\ \A n \in Present(req[r].seen) :
                                    stored[n] = req[r].seen[n]
         THEN /\ multipart' = "done"
              /\ object' = TotalSize(req[r].seen, Parts)
              /\ Goto(r, "scan")
         ELSE /\ UNCHANGED <<multipart, object>>
              /\ IF object = ExpectedSize THEN Goto(r, "scan") ELSE Answer(r)
    /\ UNCHANGED <<rows, stored, quality, strict, uploads, sweep>>

\* Only the marker of a virus removes the object and fails the session; bytes
\* with another digest, or a scanner that does not answer, leave both as they
\* are ("corrupt", and Crash).
Scan(r) ==
    /\ At(r, "scan")
    /\ IF object = ExpectedSize /\ quality = "clean" THEN Goto(r, "create")
       ELSE IF object /= 0 /\ quality = "infected" THEN Goto(r, "reject")
       ELSE Answer(r)
    /\ object' = IF quality = "infected" THEN 0 ELSE object
    /\ UNCHANGED <<rows, stored, multipart, quality, strict, uploads, sweep>>

Reject(r) ==
    /\ At(r, "reject")
    /\ session' = IF session = "purged" THEN session ELSE "FAILED"
    /\ Answer(r)
    /\ UNCHANGED <<expired, part, run, bytes, sweep>>

\* Mutant: the session is completed before its run is written.
CompleteBeforePersist(r) ==
    /\ At(r, "create")
    /\ session' = IF Live THEN "COMPLETED" ELSE session
    /\ req' = [req EXCEPT ![r].step = "persist", ![r].base = run]
    /\ UNCHANGED <<expired, part, run, bytes, sweep>>

\* _create_import_run puts a new record in the place of whatever row there
\* is, which becomes the baseline the flush merges against ...
CreateRun(r) ==
    /\ At(r, "create")
    /\ req' = [req EXCEPT ![r].step = "persist", ![r].base = run]
    /\ UNCHANGED <<rows, bytes, sweep>>

\* Mutant: without the guard of the upsert.
MergedUnguarded(before) == IF before = "QUEUED" THEN run ELSE "QUEUED"

\* ... with the status it has by then: a status the new record does not
\* change is left alone, and CANCELLED is never overwritten.
Merged(before) ==
    IF before = "QUEUED" \/ run = "CANCELLED" THEN run ELSE "QUEUED"

PersistConflict(before) ==
    /\ run /= before
    /\ before /= "QUEUED"
    /\ before = "none" \/ run /= "QUEUED"

PersistRun(r) ==
    /\ At(r, "persist")
    /\ IF PersistConflict(req[r].base)
         THEN UNCHANGED run /\ Answer(r)
         ELSE run' = Merged(req[r].base) /\ Goto(r, "finish")
    /\ UNCHANGED <<session, expired, part, bytes, sweep>>

Finish(r) ==
    /\ At(r, "finish")
    /\ session' = IF Live THEN "COMPLETED" ELSE session
    /\ Answer(r)
    /\ UNCHANGED <<expired, part, run, bytes, sweep>>

-----------------------------------------------------------------------------
\* abort_import_upload

StartAbort(r) ==
    /\ At(r, "idle") /\ Live /\ ~expired
    /\ Goto(r, "abort")
    /\ UNCHANGED <<rows, bytes, sweep>>

\* Mutant: the store's refusal is ignored.
AbortIgnoringRefusal(r) ==
    /\ At(r, "abort")
    /\ multipart' = AfterAbort
    /\ Goto(r, "aborted")
    /\ UNCHANGED <<rows, stored, object, quality, strict, uploads, sweep>>

AbortMultipart(r) ==
    /\ At(r, "abort")
    /\ IF AbortAccepted
         THEN multipart' = AfterAbort /\ Goto(r, "aborted")
         ELSE UNCHANGED multipart /\ Answer(r)
    /\ UNCHANGED <<rows, stored, object, quality, strict, uploads, sweep>>

\* The update does not look at the status it replaces.
MarkAborted(r) ==
    /\ At(r, "aborted")
    /\ session' = IF session = "purged" THEN session ELSE "ABORTED"
    /\ Answer(r)
    /\ UNCHANGED <<expired, part, run, bytes, sweep>>

-----------------------------------------------------------------------------
\* Expiry, the retention sweep, crashes, and the run's own progress.

Expire ==
    /\ ~expired
    /\ expired' = TRUE
    /\ UNCHANGED <<session, part, run, bytes, req, sweep>>

\* Mutant: the sweep forgets sessions that were being completed.
SelectUploading ==
    /\ sweep = "idle" /\ session = "UPLOADING" /\ expired
    /\ sweep' = "abort"
    /\ UNCHANGED <<rows, bytes, req>>

SelectExpired ==
    /\ sweep = "idle" /\ Live /\ expired
    /\ sweep' = "abort"
    /\ UNCHANGED <<rows, bytes, req>>

\* A session whose multipart upload cannot be aborted is skipped.
AbortExpired ==
    /\ sweep = "abort"
    /\ IF AbortAccepted
         THEN multipart' = AfterAbort /\ sweep' = "expire"
         ELSE UNCHANGED multipart /\ sweep' = "idle"
    /\ UNCHANGED <<rows, stored, object, quality, strict, uploads, req>>

MarkExpired ==
    /\ sweep = "expire"
    /\ session' = IF Live THEN "EXPIRED" ELSE session
    /\ sweep' = "idle"
    /\ UNCHANGED <<expired, part, run, bytes, req>>

Purge ==
    /\ session \in {"ABORTED", "EXPIRED"}
    /\ session' = "purged"
    /\ part' = NoParts
    /\ UNCHANGED <<expired, run, bytes, req, sweep>>

\* The API process dies, or an error between two steps ends the request.
Crash(r) ==
    /\ ~At(r, "idle")
    /\ Answer(r)
    /\ UNCHANGED <<rows, bytes, sweep>>

\* The run is worked on (module ImportRun) ...
WorkOnRun ==
    /\ \/ run = "QUEUED" /\ run' = "PROCESSING"
       \/ run = "PROCESSING" /\ run' = "PREPROCESSED"
    /\ UNCHANGED <<session, expired, part, bytes, req, sweep>>

\* ... or cancelled, which deletes its source object.
CancelRun ==
    /\ run \in {"QUEUED", "PROCESSING"}
    /\ run' = "CANCELLED" /\ object' = 0
    /\ UNCHANGED <<session, expired, part, stored, multipart, quality, strict,
                   uploads, req, sweep>>

-----------------------------------------------------------------------------
Handle(r) ==
    \/ \E n \in Parts, size \in PartSizes : StartPart(r, n, size)
    \/ SendPart(r) \/ RecordPart(r)
    \/ StartComplete(r) \/ ClaimSession(r) \/ ListParts(r) \/ Assemble(r)
    \/ Scan(r) \/ Reject(r) \/ CreateRun(r) \/ PersistRun(r) \/ Finish(r)
    \/ StartAbort(r) \/ AbortMultipart(r) \/ MarkAborted(r)

Sweep == SelectExpired \/ AbortExpired \/ MarkExpired

Next ==
    \/ \E r \in Requests : Handle(r) \/ Crash(r)
    \/ Expire \/ Sweep \/ Purge \/ WorkOnRun \/ CancelRun

Spec == Init /\ [][Next]_vars

\* The sweep runs every day and time passes; clients promise nothing.
FairSpec == Spec /\ WF_vars(Expire) /\ WF_vars(Sweep)

-----------------------------------------------------------------------------
\* Properties.

(* "persists the import run/outbox record before returning acceptance": a  *)
(* session is COMPLETED only once its run exists, whoever completes it and *)
(* wherever it was interrupted (complete_import_upload).                   *)
CompletedHasRun == session = "COMPLETED" => run /= "none"

(* The assembled object has the declared size although parts are replaced  *)
(* while another request completes the upload.                             *)
AssembledWhole == object \in {0, ExpectedSize}

(* A run that is queued or worked on has its source, although an old       *)
(* completion may still be on its way when the run is cancelled.           *)
RunHasSource == run \in {"QUEUED", "PROCESSING"} => object = ExpectedSize

(* An upload that was aborted, expired or rejected never became a run: a   *)
(* completion and an abort of the same session exclude each other, through *)
(* the object store alone, if that refuses to abort a finished multipart.  *)
GivenUpHasNoRun ==
    strict /\ session \in {"ABORTED", "EXPIRED", "FAILED"} => run = "none"

(* "Abandoned multipart sessions are aborted by retention maintenance":    *)
(* every session ends, if the store aborts a finished multipart again (the *)
(* sweep skips a session whose abort is refused, every day anew).          *)
SessionsEnd ==
    ~strict => <>(session \notin {"UPLOADING", "COMPLETING"})
=============================================================================
