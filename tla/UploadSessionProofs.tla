------------------------- MODULE UploadSessionProofs -------------------------
(***************************************************************************)
(* The invariants of UploadSession, for any number of concurrent requests, *)
(* parts and part uploads.                                                 *)
(*                                                                         *)
(* No request holds a lock across its steps, so the argument follows what  *)
(* a step can rely on from an earlier one: the multipart upload leaves     *)
(* "open" once and for ever; an object exists only if it went to "done";   *)
(* and whoever is past the scan has an object of the declared size, or the *)
(* run it is about to write has been cancelled in the meantime.            *)
(***************************************************************************)
EXTENDS UploadSession, TLAPS

-----------------------------------------------------------------------------
\* The inductive invariant.

\* A request about to send a part has its size and no tag yet.
SentPart ==
    \A r \in Requests : At(r, "part") =>
        req[r].sent \in [size : PartSizes, tag : {0}]

\* What is to be assembled has the declared size.
ListedWhole ==
    \A r \in Requests : At(r, "assemble") =>
        TotalSize(req[r].seen, Parts) = ExpectedSize

ObjectAssembled ==
    /\ object \in {0, ExpectedSize}
    /\ object /= 0 => multipart = "done"

\* The steps of a completion whose object has passed the scan.
Passed(r) == req[r].step \in {"create", "persist", "finish"}

RunAssembled ==
    /\ run /= "none" => multipart = "done" /\ quality = "clean"
    /\ \A r \in Requests : Passed(r) => multipart = "done" /\ quality = "clean"

\* Only a cancellation takes the source away, and CANCELLED is for ever.
SourceKept ==
    /\ RunHasSource
    /\ \A r \in Requests :
          Passed(r) => object = ExpectedSize \/ run = "CANCELLED"

\* The run a request merges with, or has written, does not go away.
RunStays ==
    /\ \A r \in Requests :
          At(r, "persist") /\ req[r].base /= "none" => run /= "none"
    /\ \A r \in Requests : At(r, "finish") => run /= "none"
    /\ CompletedHasRun

RejectedInfected ==
    /\ session = "FAILED" => quality = "infected"
    /\ \A r \in Requests : At(r, "reject") => quality = "infected"

\* A store that refuses to abort a finished multipart decides who gives up.
AbortedFirst ==
    strict =>
      /\ session \in {"ABORTED", "EXPIRED"} \/ sweep = "expire" =>
            multipart = "aborted"
      /\ \A r \in Requests : At(r, "aborted") => multipart = "aborted"

SessionInv ==
    /\ TypeOK /\ SentPart /\ ListedWhole /\ ObjectAssembled /\ RunAssembled
    /\ SourceKept /\ RunStays /\ RejectedInfected /\ AbortedFirst

-----------------------------------------------------------------------------
\* What a request holds after one more step: its own record has changed.
LEMMA IdleIsRequest == Idle \in Request
BY PartsAssumption
   DEF Idle, Request, Steps, Runs, Part, NoPart, NoParts, Parts

\* r goes on with what it holds.
GoneOn(r, step) ==
    /\ req' \in [Requests -> Request]
    /\ req'[r].step = step
    /\ req'[r].sent = req[r].sent /\ req'[r].seen = req[r].seen
    /\ req'[r].base = req[r].base
    /\ \A q \in Requests \ {r} : req'[q] = req[q]

\* A request that goes to its next step keeps what it has read.
LEMMA GoesOn ==
    ASSUME TypeOK, NEW r \in Requests, NEW step \in Steps, Goto(r, step)
    PROVE  GoneOn(r, step)
BY DEF TypeOK, Goto, Request, GoneOn

\* r answers and is free again.
Answered(r) ==
    /\ req' \in [Requests -> Request]
    /\ req'[r].step = "idle"
    /\ \A q \in Requests \ {r} : req'[q] = req[q]

\* A request that is answered forgets what it has read.
LEMMA Answers ==
    ASSUME TypeOK, NEW r \in Requests, Answer(r)
    PROVE  Answered(r)
BY IdleIsRequest DEF TypeOK, Answer, Answered, Idle

\* A session that has just been created has neither a run nor an object.
LEMMA InitSessionInv == Init => SessionInv
<1> SUFFICES ASSUME Init PROVE SessionInv
  OBVIOUS
<1> USE SizeAssumption, UploadsAssumption, PartsAssumption DEF Init
<1>1. NoParts \in [Parts -> Part]
  BY DEF NoParts, Part
<1>2. req \in [Requests -> Request]
  BY IdleIsRequest
<1>3. expired \in BOOLEAN
  OBVIOUS
<1>4. quality \in {"clean", "infected", "corrupt"} /\ strict \in BOOLEAN
  OBVIOUS
<1>5. object \in Nat /\ uploads \in 0 .. MaxUploads
  OBVIOUS
<1>6. TypeOK
  BY <1>1, <1>2, <1>3, <1>4, <1>5 DEF TypeOK, Sessions, Runs
<1> QED
  BY <1>6 DEF SessionInv, SentPart, ListedWhole, ObjectAssembled, RunAssembled,
     SourceKept, RunStays, RejectedInfected, AbortedFirst, Passed, At,
     RunHasSource, CompletedHasRun, Idle

\* No step of a request, the sweep, a crash or the run breaks the invariant.
LEMMA NextSessionInv == SessionInv /\ [Next]_vars => SessionInv'
<1> SUFFICES ASSUME SessionInv, [Next]_vars PROVE SessionInv'
  OBVIOUS
<1> USE SizeAssumption
    DEF SessionInv, SentPart, ListedWhole, ObjectAssembled, RunAssembled,
        SourceKept, RunStays, RejectedInfected, AbortedFirst, Passed, At,
        RunHasSource, CompletedHasRun, rows, bytes, Live, TypeOK, Sessions,
        Runs
<1>1. ASSUME NEW r \in Requests, NEW n \in Parts, NEW size \in PartSizes,
             StartPart(r, n, size)
      PROVE  SessionInv'
  <2>1. /\ req' \in [Requests -> Request]
        /\ req'[r].step = "part"
        /\ req'[r].sent \in [size : PartSizes, tag : {0}]
        /\ \A q \in Requests \ {r} : req'[q] = req[q]
    <3> DEFINE sent == [size |-> size, tag |-> 0]
    <3>1. sent \in Part /\ sent \in [size : PartSizes, tag : {0}]
      BY UploadsAssumption DEF Part
    <3>2. [Idle EXCEPT !.step = "part", !.number = n, !.sent = sent] \in Request
      BY <3>1, IdleIsRequest DEF Idle, Request, Steps
    <3> QED
      BY <1>1, <3>1, <3>2 DEF StartPart, Idle
  <2> QED
    BY <1>1, <2>1 DEF StartPart
<1>2. ASSUME NEW r \in Requests, SendPart(r) PROVE SessionInv'
  <2>1. CASE Fits(r) /\ multipart = "open"
    <3>1. /\ req' \in [Requests -> Request]
          /\ req'[r].step = "record"
          /\ req'[r].sent \in Part
          /\ \A q \in Requests \ {r} : req'[q] = req[q]
      BY <1>2, <2>1, UploadsAssumption DEF SendPart, Request, Steps, Part
    <3>2. stored' \in [Parts -> Part] /\ uploads' \in 0 .. MaxUploads
      BY <1>2, <2>1, <3>1, UploadsAssumption DEF SendPart
    <3> QED
      BY <1>2, <3>1, <3>2 DEF SendPart
  <2>2. CASE ~(Fits(r) /\ multipart = "open")
    <3>1. Answered(r)
      BY <1>2, <2>2, Answers DEF SendPart
    <3> QED
      BY <1>2, <2>2, <3>1 DEF SendPart, Answered
  <2> QED
    BY <2>1, <2>2
<1>3. ASSUME NEW r \in Requests, RecordPart(r) PROVE SessionInv'
  <2>1. Answered(r)
    BY <1>3, Answers DEF RecordPart
  <2>2. req[r].sent \in Part /\ req[r].number \in Parts
    BY DEF Request
  <2> QED
    BY <1>3, <2>1, <2>2 DEF RecordPart, Answered
<1>4. ASSUME NEW r \in Requests, StartComplete(r) PROVE SessionInv'
  <2>1. GoneOn(r, "claim")
    BY <1>4, GoesOn DEF StartComplete, Steps
  <2> QED
    BY <1>4, <2>1 DEF StartComplete, GoneOn
<1>5. ASSUME NEW r \in Requests, ClaimSession(r) PROVE SessionInv'
  <2>1. GoneOn(r, "list")
    BY <1>5, GoesOn DEF ClaimSession, Steps
  <2> QED
    BY <1>5, <2>1 DEF ClaimSession, GoneOn
<1>6. ASSUME NEW r \in Requests, ListParts(r) PROVE SessionInv'
  <2>1. CASE Whole(part)
    <3>1. /\ req' \in [Requests -> Request]
          /\ req'[r].step = "assemble"
          /\ req'[r].seen = part
          /\ \A q \in Requests \ {r} : req'[q] = req[q]
      BY <1>6, <2>1 DEF ListParts, Request, Steps
    <3> QED
      BY <1>6, <2>1, <3>1 DEF ListParts, Whole
  <2>2. CASE ~Whole(part)
    <3>1. Answered(r)
      BY <1>6, <2>2, Answers DEF ListParts
    <3> QED
      BY <1>6, <3>1 DEF ListParts, Answered
  <2> QED
    BY <2>1, <2>2
<1>7. ASSUME NEW r \in Requests, Assemble(r) PROVE SessionInv'
  <2>1. GoneOn(r, "scan") \/ Answered(r)
    BY <1>7, GoesOn, Answers DEF Assemble, Steps
  <2> QED
    BY <1>7, <2>1 DEF Assemble, GoneOn, Answered, Goto, Idle, Answer
<1>8. ASSUME NEW r \in Requests, Scan(r) PROVE SessionInv'
  <2>1. CASE object = ExpectedSize /\ quality = "clean"
    <3>1. GoneOn(r, "create")
      BY <1>8, <2>1, GoesOn DEF Scan, Steps
    <3> QED
      BY <1>8, <2>1, <3>1 DEF Scan, GoneOn
  <2>2. CASE quality = "infected"
    <3>1. GoneOn(r, "reject") \/ Answered(r)
      BY <1>8, <2>2, GoesOn, Answers DEF Scan, Steps
    <3> QED
      BY <1>8, <2>2, <3>1 DEF Scan, GoneOn, Answered
  <2>3. CASE ~(object = ExpectedSize /\ quality = "clean")
             /\ quality /= "infected"
    <3>1. Answered(r)
      BY <1>8, <2>3, Answers DEF Scan
    <3> QED
      BY <1>8, <2>3, <3>1 DEF Scan, Answered
  <2> QED
    BY <2>1, <2>2, <2>3
<1>9. ASSUME NEW r \in Requests, Reject(r) PROVE SessionInv'
  <2>1. Answered(r)
    BY <1>9, Answers DEF Reject
  <2> QED
    BY <1>9, <2>1 DEF Reject, Answered
<1>10. ASSUME NEW r \in Requests, CreateRun(r) PROVE SessionInv'
  <2>1. /\ req' \in [Requests -> Request]
        /\ req'[r].step = "persist"
        /\ req'[r].base = run
        /\ \A q \in Requests \ {r} : req'[q] = req[q]
    <3> req[r] \in Request
      OBVIOUS
    <3> run \in Runs
      OBVIOUS
    <3> QED
      BY <1>10 DEF CreateRun, Request, Steps
  <2> QED
    BY <1>10, <2>1 DEF CreateRun
<1>11. ASSUME NEW r \in Requests, PersistRun(r) PROVE SessionInv'
  <2>1. GoneOn(r, "finish") \/ Answered(r)
    BY <1>11, GoesOn, Answers DEF PersistRun, Steps
  <2> QED
    BY <1>11, <2>1
       DEF PersistRun, PersistConflict, Merged, GoneOn, Answered, Goto,
           Idle, Answer
<1>12. ASSUME NEW r \in Requests, Finish(r) PROVE SessionInv'
  <2>1. Answered(r)
    BY <1>12, Answers DEF Finish
  <2> QED
    BY <1>12, <2>1 DEF Finish, Answered
<1>13. ASSUME NEW r \in Requests, StartAbort(r) PROVE SessionInv'
  <2>1. GoneOn(r, "abort")
    BY <1>13, GoesOn DEF StartAbort, Steps
  <2> QED
    BY <1>13, <2>1 DEF StartAbort, GoneOn
<1>14. ASSUME NEW r \in Requests, AbortMultipart(r) PROVE SessionInv'
  <2>1. GoneOn(r, "aborted") \/ Answered(r)
    BY <1>14, GoesOn, Answers DEF AbortMultipart, Steps
  <2> QED
    BY <1>14, <2>1
       DEF AbortMultipart, AbortAccepted, AfterAbort, GoneOn, Answered,
           Goto, Idle, Answer
<1>15. ASSUME NEW r \in Requests, MarkAborted(r) PROVE SessionInv'
  <2>1. Answered(r)
    BY <1>15, Answers DEF MarkAborted
  <2> QED
    BY <1>15, <2>1 DEF MarkAborted, Answered
<1>16. ASSUME NEW r \in Requests, Crash(r) PROVE SessionInv'
  <2>1. Answered(r)
    BY <1>16, Answers DEF Crash
  <2> QED
    BY <1>16, <2>1 DEF Crash, Answered
<1>17. CASE Expire
  BY <1>17 DEF Expire
<1>18. CASE SelectExpired
  BY <1>18 DEF SelectExpired
<1>19. CASE AbortExpired
  BY <1>19 DEF AbortExpired, AbortAccepted, AfterAbort
<1>20. CASE MarkExpired
  BY <1>20 DEF MarkExpired
<1>21. CASE Purge
  BY <1>21 DEF Purge, NoParts, Part
<1>22. CASE WorkOnRun
  BY <1>22 DEF WorkOnRun
<1>23. CASE CancelRun
  BY <1>23 DEF CancelRun
<1>24. CASE UNCHANGED vars
  BY <1>24 DEF vars
<1> QED
  BY <1>1, <1>2, <1>3, <1>4, <1>5, <1>6, <1>7, <1>8, <1>9, <1>10, <1>11,
     <1>12, <1>13, <1>14, <1>15, <1>16, <1>17, <1>18, <1>19, <1>20,
     <1>21, <1>22, <1>23, <1>24
     DEF Next, Handle, Sweep
\* The invariant of an upload session holds in every reachable state.
LEMMA SessionInvHolds == Spec => []SessionInv
BY InitSessionInv, NextSessionInv, PTL DEF Spec

(* Type correctness of the session, its parts, the store's multipart       *)
(* upload and every request, whatever part of it each has done.            *)
THEOREM UploadTypes == Spec => []TypeOK
<1>1. SessionInv => TypeOK
  BY DEF SessionInv
<1> QED
  BY SessionInvHolds, <1>1, PTL

(* A session is COMPLETED only once its run exists (complete_import_upload *)
(* writes the run first): no interleaving of completions, aborts, crashes  *)
(* and the sweep completes a session without a run.                        *)
THEOREM UploadCompletedHasRun == Spec => []CompletedHasRun
<1>1. SessionInv => CompletedHasRun
  BY DEF SessionInv, RunStays
<1> QED
  BY SessionInvHolds, <1>1, PTL

(* The assembled object has the declared size, for any parts and any       *)
(* number of replacements (the size is checked on the parts that are then  *)
(* named to the store, which refuses those it no longer has).              *)
THEOREM UploadAssembledWhole == Spec => []AssembledWhole
<1>1. SessionInv => AssembledWhole
  BY DEF SessionInv, ObjectAssembled, AssembledWhole
<1> QED
  BY SessionInvHolds, <1>1, PTL

(* A run that is queued or worked on has its source object: a completion   *)
(* that is still on its way when the run is cancelled cannot queue it anew *)
(* (the guards of the upsert in flush).                                    *)
THEOREM UploadRunHasSource == Spec => []RunHasSource
<1>1. SessionInv => RunHasSource
  BY DEF SessionInv, SourceKept
<1> QED
  BY SessionInvHolds, <1>1, PTL

(* With a store that refuses to abort a finished multipart upload, a       *)
(* session that was aborted, expired or rejected never became a run        *)
(* (abort_import_upload and the sweep abort in the store before they mark  *)
(* the row).                                                               *)
THEOREM UploadGivenUpHasNoRun == Spec => []GivenUpHasNoRun
<1>1. SessionInv => GivenUpHasNoRun
  BY DEF SessionInv, AbortedFirst, RunAssembled, RejectedInfected,
         GivenUpHasNoRun, TypeOK
<1> QED
  BY SessionInvHolds, <1>1, PTL
=============================================================================
