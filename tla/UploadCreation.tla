---------------------------- MODULE UploadCreation ----------------------------
(***************************************************************************)
(* Concurrent requests for an upload session under one Idempotency-Key     *)
(* (create_import_upload in src/geodata.py): each looks for a session,     *)
(* opens a multipart upload in the object store and inserts its row; the   *)
(* unique index on the key decides, and the losers clean up after          *)
(* themselves.  What becomes of the session is in module UploadSession.    *)
(***************************************************************************)
EXTENDS Naturals, FiniteSets

CONSTANTS Creators,
          MaxOpened,   \* bound: multipart uploads opened
          MaxMishaps   \* bound: mishaps of each kind

\* "crash": the process dies, or the cleanup fails.  "error": the insert fails.
\* "lost": it commits, but the answer does not arrive.
Mishaps == {"crash", "error", "lost"}

ASSUME CreationAssumption ==
    IsFiniteSet(Creators) /\ MaxOpened \in Nat /\ MaxMishaps \in Nat

NoSession == 0
NotAsked  == [step |-> "idle", multipart |-> 0]

VARIABLES
    row,         \* the multipart upload the session of the key has
    open,        \* multipart uploads of the object store
    opened,      \* how many there have been (bound)
    creator,     \* the requests
    mishaps      \* how often each kind has happened (bound)

creation == <<row, open, opened, creator, mishaps>>

-----------------------------------------------------------------------------
CreationInit ==
    /\ row = NoSession /\ open = {} /\ opened = 0
    /\ creator = [c \in Creators |-> NotAsked]
    /\ mishaps = [k \in Mishaps |-> 0]

Doing(c, step) == creator[c].step = step

Then(c, step) == creator' = [creator EXCEPT ![c].step = step]

Done(c) == creator' = [creator EXCEPT ![c] = NotAsked]

Mishap(kind) ==
    /\ mishaps[kind] < MaxMishaps
    /\ mishaps' = [mishaps EXCEPT ![kind] = @ + 1]

\* If there is a session, whatever its status, that is the answer (or a
\* refusal, if it has another filename or size).
LookUp(c) ==
    /\ Doing(c, "idle") /\ row = NoSession
    /\ Then(c, "open")
    /\ UNCHANGED <<row, open, opened, mishaps>>

OpenMultipart(c) ==
    /\ Doing(c, "open") /\ opened < MaxOpened
    /\ opened' = opened + 1 /\ open' = open \cup {opened'}
    /\ creator' = [creator EXCEPT ![c].step = "insert", ![c].multipart = opened']
    /\ UNCHANGED <<row, mishaps>>

\* Mutant: the second row replaces the first.
InsertOrUpdate(c) ==
    /\ Doing(c, "insert") /\ row' = creator[c].multipart /\ Done(c)
    /\ UNCHANGED <<open, opened, mishaps>>

InsertRow(c) ==
    /\ Doing(c, "insert")
    /\ IF row = NoSession THEN row' = creator[c].multipart /\ Done(c)
       ELSE UNCHANGED row /\ Then(c, "abort")
    /\ UNCHANGED <<open, opened, mishaps>>

InsertFails(c) ==
    /\ Doing(c, "insert") /\ Then(c, "abort")
    /\ \/ Mishap("error") /\ UNCHANGED row
       \/ Mishap("lost") /\ row = NoSession /\ row' = creator[c].multipart
    /\ UNCHANGED <<open, opened>>

\* After that the request looks for the session again and answers.
AbortOwn(c) ==
    /\ Doing(c, "abort") /\ Done(c)
    /\ open' = open \ {creator[c].multipart}
    /\ UNCHANGED <<row, opened, mishaps>>

Die(c) ==
    /\ ~Doing(c, "idle") /\ Done(c)
    /\ Mishap("crash")
    /\ UNCHANGED <<row, open, opened>>

\* The session ends, its multipart upload with it, and its row is purged a
\* month later (UploadSession): the key is free again.
Forget ==
    /\ row /= NoSession /\ \A c \in Creators : Doing(c, "idle")
    /\ row' = NoSession /\ open' = open \ {row}
    /\ UNCHANGED <<opened, creator, mishaps>>

CreationNext ==
    \/ \E c \in Creators : LookUp(c) \/ OpenMultipart(c) \/ InsertRow(c)
                             \/ InsertFails(c) \/ AbortOwn(c) \/ Die(c)
    \/ Forget

CreationSpec == CreationInit /\ [][CreationNext]_creation

-----------------------------------------------------------------------------
(* The multipart upload of the session is open, whoever lost against the   *)
(* request that inserted it, as long as the database's answer was not lost *)
(* (then the request aborts what it has just inserted); and every other    *)
(* open one is still in the hands of a request, unless that has died.      *)
MultipartsAreOwned ==
    /\ mishaps["lost"] = 0 /\ row /= NoSession => row \in open
    /\ mishaps["crash"] = 0 =>
         open \subseteq {row} \cup {creator[c].multipart : c \in Creators}
=============================================================================
