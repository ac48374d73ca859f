------------------------------- MODULE RowStore -------------------------------
(***************************************************************************)
(* The row repository (src/relational_state.py, src/geodata_operations.py, *)
(* src/geodata_store.py): scopes of concurrent requests and jobs that load *)
(* rows, edit their projections and flush what they changed.               *)
(*   A request is one transaction: the rows it loads stay locked, and an   *)
(* Idempotency-Key makes it happen once.  A job is checkpointed: it loads  *)
(* rows with a lock it does not keep, and each flush is a transaction of   *)
(* its own that merges its changes into the rows as they are by then.      *)
(* The locks, the detection of deadlocks and the commit are PostgreSQL's.  *)
(***************************************************************************)
EXTENDS Naturals, FiniteSets, Sequences

CONSTANTS
    Scopes,      \* threads that handle a request or a job
    NumRows,     \* rows, numbered in the order in which a flush takes them
    Existing,    \* rows that are there at the start; the others may be
    Versioned,   \* the entities among them; the others are merged by field
    Categories,
    CategoriesOf, \* the categories of an entity, the first of them primary
    Fields,
    Keys,        \* Idempotency-Keys
    Bodies,      \* what is asked for under a key
    MaxStarts,   \* bound: requests and jobs
    MaxEdits,    \* bound: edits of one of them
    MaxSeen,     \* bound: rows one of them holds in memory
    Edits,       \* bound: the sets of fields of rows that are edited at once
    None

ASSUME RowsAssumption   == /\ NumRows \in Nat \ {0}
                           /\ Existing \cup Versioned \subseteq 1 .. NumRows
ASSUME CategoriesAssumption == CategoriesOf \in [Versioned -> Seq(Categories)]
ASSUME BoundsAssumption == {MaxStarts, MaxEdits, MaxSeen} \subseteq Nat
ASSUME EditsAssumption  == Edits \subseteq SUBSET ((1 .. NumRows) \X Fields)

Outcomes == [key : Keys, body : Bodies, serial : 1 .. MaxStarts]

ASSUME NoneAssumption == None \notin Scopes \cup Keys \cup Bodies \cup Outcomes

Rows == 1 .. NumRows

Row    == [present : BOOLEAN, version : Nat, value : [Fields -> {0, 1}]]
Absent == [present |-> FALSE, version |-> 0, value |-> [f \in Fields |-> 0]]
Fresh  == [Absent EXCEPT !.present = TRUE]

\* Where a scope is: at its key, in the code of the handler, waiting for a
\* row it loads, or in a flush.
Steps == {"idle", "key", "run", "load", "lock", "write", "category", "delete"}

\* The row a scope loads or writes (1 while it does neither), the
\* projections it has loaded and the baselines they started from,
\* the rows it deletes, the ones its flush has written and with what.
Scope == [step : Steps, atomic : BOOLEAN, key : Keys \cup {None},
          body : Bodies \cup {None}, serial : 0 .. MaxStarts,
          edits : 0 .. MaxEdits, row : Rows,
          loaded : [Rows -> Row], base : [Rows -> Row],
          seen : SUBSET Rows, gone : SUBSET Rows,
          done : SUBSET Rows, written : [Rows -> Row]]

NoRows == [r \in Rows |-> Absent]
Idle   == [step |-> "idle", atomic |-> FALSE, key |-> None, body |-> None,
           serial |-> 0, edits |-> 0, row |-> 1, loaded |-> NoRows,
           base |-> NoRows, seen |-> {}, gone |-> {}, done |-> {},
           written |-> NoRows]

VARIABLES
    db,          \* the committed rows
    deleted,     \* history: the rows that were ever deleted
    record,      \* idempotency_record: the body and result under a key
    outcomes,    \* every result that was committed or answered under a key
    rowLock,     \* who holds FOR UPDATE, by row
    advisory,    \* who holds the advisory lock, by row and key
    category,    \* ... and by category
    scope,
    starts       \* requests and jobs so far

locks == <<rowLock, advisory, category>>
keyed == <<record, outcomes>>
rows  == <<db, deleted>>
vars  == <<rows, keyed, locks, scope, starts>>

TypeOK ==
    /\ db \in [Rows -> Row] /\ deleted \subseteq Rows
    /\ record \in [Keys -> Outcomes \cup {None}]
    /\ outcomes \subseteq Outcomes
    /\ rowLock \in [Rows -> Scopes \cup {None}]
    /\ advisory \in [Rows \cup Keys -> Scopes \cup {None}]
    /\ category \in [Categories -> Scopes \cup {None}]
    /\ scope \in [Scopes -> Scope]
    /\ starts \in 0 .. MaxStarts

-----------------------------------------------------------------------------
Free(lock, s) == lock \in {s, None}

Released(lock, s) ==
    [x \in DOMAIN lock |-> IF lock[x] = s THEN None ELSE lock[x]]

Becomes(s, q) == scope' = [scope EXCEPT ![s] = q]

\* Mutant: the advisory locks are the session's, not the transaction's.
ReleaseRows(s) ==
    rowLock' = Released(rowLock, s) /\ UNCHANGED <<advisory, category>>

Release(s) ==
    /\ rowLock' = Released(rowLock, s)
    /\ advisory' = Released(advisory, s)
    /\ category' = Released(category, s)

Outcome(q) == [key |-> q.key, body |-> q.body, serial |-> q.serial]

\* What a flush writes: present rows that differ from their baseline.
Changed(q) == {r \in q.seen \ q.gone : q.loaded[r] /= q.base[r]}

\* Mutant: in any order.
PendingUnsorted(q) == Changed(q) \ q.done

\* The next of them, by kind and key.
Pending(q) ==
    {r \in Changed(q) \ q.done : \A p \in Changed(q) \ q.done : r <= p}

Doomed(q) == {r \in q.gone \ q.done : \A p \in q.gone \ q.done : r <= p}

Init ==
    /\ db \in [Rows -> {Absent, Fresh}] /\ \A r \in Existing : db[r] = Fresh
    /\ deleted = {}
    /\ record = [k \in Keys |-> None]
    /\ outcomes = {}
    /\ rowLock = [r \in Rows |-> None]
    /\ advisory = [x \in Rows \cup Keys |-> None]
    /\ category = [c \in Categories |-> None]
    /\ scope = [s \in Scopes |-> Idle]
    /\ starts = 0

-----------------------------------------------------------------------------
\* A scope begins, and ends with everything it holds.

StartRequest(s, k, body) ==
    /\ scope[s].step = "idle" /\ starts < MaxStarts
    /\ starts' = starts + 1
    /\ Becomes(s, [Idle EXCEPT !.step = "key", !.atomic = TRUE,
                       !.serial = starts + 1, !.key = k, !.body = body])
    /\ UNCHANGED <<rows, keyed, locks>>

StartJob(s) ==
    /\ scope[s].step = "idle" /\ starts < MaxStarts
    /\ starts' = starts + 1
    /\ Becomes(s, [Idle EXCEPT !.step = "run"])
    /\ UNCHANGED <<rows, keyed, locks>>

\* An error, a conflict or the end of the process rolls the transaction back.
End(s) ==
    /\ Becomes(s, Idle)
    /\ Release(s)
    /\ UNCHANGED <<rows, keyed, starts>>

(* request_once: under the advisory lock on the key, a result that is      *)
(* recorded is answered, to the same body only.                            *)
TakeKey(s) ==
    /\ scope[s].step = "key"
    /\ LET q == scope[s]
       IN  /\ advisory[q.key] = None
           /\ IF record[q.key] = None
                THEN /\ advisory' = [advisory EXCEPT ![q.key] = s]
                     /\ Becomes(s, [q EXCEPT !.step = "run"])
                     /\ UNCHANGED outcomes
                ELSE /\ outcomes' = IF record[q.key].body = q.body
                                    THEN outcomes \cup {record[q.key]}
                                    ELSE outcomes
                     /\ Becomes(s, Idle)
                     /\ UNCHANGED advisory
    /\ UNCHANGED <<rows, record, rowLock, category, starts>>

-----------------------------------------------------------------------------
\* The code of the handler.

MayEdit(q) == q.step = "run" /\ q.edits < MaxEdits

StartLoad(s, r) ==
    /\ scope[s].step = "run" /\ r \notin scope[s].seen
    /\ Cardinality(scope[s].seen) < MaxSeen
    /\ Becomes(s, [scope[s] EXCEPT !.step = "load", !.row = r])
    /\ UNCHANGED <<rows, keyed, locks, starts>>

\* A row that is there is loaded; one that is not may be created.
Loaded(q) ==
    LET row == IF db[q.row].present THEN db[q.row] ELSE Absent
    IN  [q EXCEPT !.step = "run", !.row = 1, !.seen = q.seen \cup {q.row},
                  !.loaded = [q.loaded EXCEPT ![q.row] = row],
                  !.base = [q.base EXCEPT ![q.row] = row]]

\* Mutant: rows are not locked when they are loaded.
LoadUnlocked(s) ==
    /\ scope[s].step = "load"
    /\ Becomes(s, Loaded(scope[s]))
    /\ UNCHANGED <<rows, keyed, locks, starts>>

(* A load waits for whoever writes the row.  A request keeps the lock; the *)
(* transaction in which a job loads the row ends at once.                  *)
Load(s) ==
    /\ scope[s].step = "load"
    /\ LET q == scope[s]
       IN  /\ Free(rowLock[q.row], s)
           /\ rowLock' = IF q.atomic /\ db[q.row].present
                           THEN [rowLock EXCEPT ![q.row] = s] ELSE rowLock
           /\ Becomes(s, Loaded(q))
    /\ UNCHANGED <<rows, keyed, advisory, category, starts>>

WithCells(row, r, cells) ==
    [row EXCEPT !.value = [f \in Fields |->
        IF <<r, f>> \in cells THEN 1 - row.value[f] ELSE row.value[f]]]

\* Some fields of the loaded rows are given another value; rows are created.
Edit(s, cells, created) ==
    /\ MayEdit(scope[s])
    /\ LET q == scope[s]
           there == {r \in q.seen \ q.gone : q.loaded[r].present}
       IN  /\ cells \subseteq there \X Fields
           /\ created \subseteq {r \in q.seen : q.base[r] = Absent} \ there
           /\ cells /= {} \/ created /= {}
           /\ Becomes(s, [q EXCEPT !.edits = q.edits + 1, !.loaded =
                [r \in Rows |-> IF r \in created THEN Fresh
                                ELSE WithCells(q.loaded[r], r, cells)]])
    /\ UNCHANGED <<rows, keyed, locks, starts>>

Delete(s, r) ==
    /\ MayEdit(scope[s])
    /\ r \in scope[s].seen \ scope[s].gone /\ scope[s].base[r].present
    /\ Becomes(s, [scope[s] EXCEPT !.gone = scope[s].gone \cup {r},
                                   !.edits = scope[s].edits + 1])
    /\ UNCHANGED <<rows, keyed, locks, starts>>

\* A row that was not edited is forgotten, to be loaded anew (invalidate).
Invalidate(s, r) ==
    /\ MayEdit(scope[s])
    /\ LET q == scope[s]
       IN  /\ r \in q.seen \ (Changed(q) \cup q.gone)
           /\ Becomes(s, [q EXCEPT !.edits = q.edits + 1,
                              !.seen = q.seen \ {r},
                              !.loaded = [q.loaded EXCEPT ![r] = Absent],
                              !.base = [q.base EXCEPT ![r] = Absent]])
    /\ UNCHANGED <<rows, keyed, locks, starts>>

\* The pending changes are given up, the rows it creates with them
\* (rollback_pending).
RolledBack(q) ==
    [q EXCEPT !.step = "run", !.row = 1,
              !.seen = {r \in q.seen : q.base[r].present},
              !.loaded = q.base, !.gone = {}, !.done = {}, !.written = NoRows]

-----------------------------------------------------------------------------
\* flush

StartFlush(s) ==
    /\ scope[s].step = "run"
    /\ scope[s].atomic \/ Changed(scope[s]) \cup scope[s].gone /= {}
    /\ Becomes(s, [scope[s] EXCEPT !.step = "lock"])
    /\ UNCHANGED <<rows, keyed, locks, starts>>

LockRow(s, r) ==
    /\ scope[s].step = "lock" /\ r \in Pending(scope[s])
    /\ Free(advisory[r], s)
    /\ advisory' = [advisory EXCEPT ![r] = s]
    /\ Becomes(s, [scope[s] EXCEPT !.step = "write", !.row = r])
    /\ UNCHANGED <<rows, keyed, rowLock, category, starts>>

\* A field of the latest row may be replaced by the one that was edited.
Agrees(q, r, f) ==
    \/ q.loaded[r].value[f] = q.base[r].value[f]
    \/ db[r].value[f] \in {q.base[r].value[f], q.loaded[r].value[f]}

(* The row is as it was loaded, or the fields edited in it are; one that   *)
(* was not there is still not there.                                       *)
Accepts(q, r) ==
    IF ~q.base[r].present THEN ~db[r].present \/ db[r] = q.loaded[r]
    ELSE /\ db[r].present
         /\ IF r \in Versioned THEN db[r].version = q.base[r].version
            ELSE \A f \in Fields : Agrees(q, r, f)

\* Mutant: fields that were not edited are written as they were loaded.
MergedWhole(q, r) == q.loaded[r]

\* What is written: an entity as edited, or the edited fields.
Merged(q, r) ==
    IF r \in Versioned
      THEN [q.loaded[r] EXCEPT !.version = db[r].version + 1]
      ELSE [q.loaded[r] EXCEPT !.value = [f \in Fields |->
              IF q.loaded[r].value[f] = q.base[r].value[f] /\ db[r].present
                THEN db[r].value[f] ELSE q.loaded[r].value[f]]]

LockIfThere(s, r) ==
    rowLock' = IF db[r].present THEN [rowLock EXCEPT ![r] = s] ELSE rowLock

\* The flush goes on to the next row.
Done(q, row) ==
    [q EXCEPT !.step = "lock", !.row = 1, !.done = q.done \cup {q.row},
              !.written = [q.written EXCEPT ![q.row] = row]]

\* ... when the row has its categories.
Encoding(q, row) == [Done(q, row) EXCEPT !.step = "category", !.row = q.row]

\* The categories of the row that the scope does not hold, by their place.
Wanted(s, r) ==
    IF r \in Versioned
      THEN {i \in DOMAIN CategoriesOf[r] : category[CategoriesOf[r][i]] /= s}
      ELSE {}

(* Compared and written under the lock of the row, if there is one; an     *)
(* entity is written together with its categories.                         *)
Write(s) ==
    /\ scope[s].step = "write"
    /\ LET q == scope[s]  r == q.row
       IN  /\ Free(rowLock[r], s)
           /\ Accepts(q, r)
           /\ LockIfThere(s, r)
           /\ Becomes(s, IF Wanted(s, r) = {} THEN Done(q, Merged(q, r))
                         ELSE Encoding(q, Merged(q, r)))
    /\ UNCHANGED <<rows, keyed, advisory, category, starts>>

NextCategory(s) ==
    LET r == scope[s].row
    IN  CategoriesOf[r][CHOOSE i \in Wanted(s, r) :
                          \A j \in Wanted(s, r) : i <= j]

(* _category_id: each category is locked to the end of the transaction, in *)
(* the order in which the entity lists them.                               *)
TakeCategory(s) ==
    /\ scope[s].step = "category"
    /\ LET q == scope[s]  c == NextCategory(s)
       IN  /\ category[c] = None
           /\ category' = [category EXCEPT ![c] = s]
           /\ Becomes(s,
                IF \A i \in Wanted(s, q.row) : CategoriesOf[q.row][i] = c
                  THEN [q EXCEPT !.step = "lock", !.row = 1] ELSE q)
    /\ UNCHANGED <<rows, keyed, rowLock, advisory, starts>>

\* StateConflict ends a scope, or a job catches it and gives its edits up.
Conflict(s) ==
    /\ scope[s].step = "write"
    /\ Free(rowLock[scope[s].row], s)
    /\ ~Accepts(scope[s], scope[s].row)
    /\ \/ End(s)
       \/ /\ ~scope[s].atomic
          /\ Becomes(s, RolledBack(scope[s]))
          /\ Release(s)
          /\ UNCHANGED <<rows, keyed, starts>>

\* Then the deletions, which look at nothing.
StartDelete(s, r) ==
    /\ scope[s].step = "lock" /\ Pending(scope[s]) = {}
    /\ r \in Doomed(scope[s])
    /\ Becomes(s, [scope[s] EXCEPT !.step = "delete", !.row = r])
    /\ UNCHANGED <<rows, keyed, locks, starts>>

DeleteRow(s) ==
    /\ scope[s].step = "delete"
    /\ Free(rowLock[scope[s].row], s)
    /\ LockIfThere(s, scope[s].row)
    /\ Becomes(s, Done(scope[s], Absent))
    /\ UNCHANGED <<rows, keyed, advisory, category, starts>>

Flushed(s) ==
    scope[s].step = "lock" /\ Pending(scope[s]) = {} /\ Doomed(scope[s]) = {}

\* A deletion that found no row, and so locked none, deletes none.
Takes(s, r) ==
    r \in scope[s].done /\ (r \in scope[s].gone => rowLock[r] = s)

Written(s) ==
    /\ db' = [r \in Rows |-> IF Takes(s, r) THEN scope[s].written[r]
                            ELSE db[r]]
    /\ deleted' = deleted \cup {r \in scope[s].gone : Takes(s, r)}

\* Mutant: the result is recorded after the commit, if the process lives.
CommitUnrecorded(s) ==
    /\ Flushed(s) /\ scope[s].atomic
    /\ Written(s)
    /\ outcomes' = outcomes \cup {Outcome(scope[s])}
    /\ \/ record' = record
       \/ record' = [record EXCEPT ![scope[s].key] = Outcome(scope[s])]
    /\ Becomes(s, Idle)
    /\ Release(s)
    /\ UNCHANGED starts

\* A request commits with the record of its result.
CommitRequest(s) ==
    /\ Flushed(s) /\ scope[s].atomic
    /\ Written(s)
    /\ outcomes' = outcomes \cup {Outcome(scope[s])}
    /\ record' = [record EXCEPT ![scope[s].key] = Outcome(scope[s])]
    /\ Becomes(s, Idle)
    /\ Release(s)
    /\ UNCHANGED starts

\* A job goes on with the rows as they were written.
Kept(q, old) == [r \in Rows |-> IF r \in q.done THEN q.written[r] ELSE old[r]]

Continued(q) ==
    [q EXCEPT !.step = "run", !.loaded = Kept(q, q.loaded),
              !.base = Kept(q, q.base), !.seen = q.seen \ q.gone,
              !.gone = {}, !.done = {}, !.written = NoRows]

CommitJob(s) ==
    /\ Flushed(s) /\ ~scope[s].atomic
    /\ Written(s)
    /\ Becomes(s, Continued(scope[s]))
    /\ Release(s)
    /\ UNCHANGED <<keyed, starts>>

FinishJob(s) ==
    /\ scope[s].step = "run" /\ ~scope[s].atomic
    /\ Changed(scope[s]) \cup scope[s].gone = {}
    /\ End(s)

-----------------------------------------------------------------------------
\* PostgreSQL breaks a cycle of waits, and a request waits five seconds.

Blocker(s) ==
    CASE scope[s].step = "key"                         -> advisory[scope[s].key]
      [] scope[s].step \in {"load", "write", "delete"} -> rowLock[scope[s].row]
      [] scope[s].step = "lock" /\ Pending(scope[s]) /= {} ->
           advisory[CHOOSE r \in Pending(scope[s]) : TRUE]
      [] scope[s].step = "category"                    ->
           category[NextCategory(s)]
      [] OTHER                                         -> None

Waits(s) == Blocker(s) \notin {s, None}

Cycle(S) == S /= {} /\ \A s \in S : Blocker(s) \in S \ {s}

Victim(s) ==
    /\ Waits(s)
    /\ \E S \in SUBSET Scopes : s \in S /\ Cycle(S)
    /\ End(s)

Timeout(s) ==
    /\ scope[s].atomic /\ Waits(s)
    /\ End(s)

\* Any other error, or the end of the process.
Crash(s) ==
    /\ scope[s].step /= "idle"
    /\ End(s)

\* The code of a handler, which may do any of these or be done ...
Handle(s) ==
    \/ \E r \in Rows : StartLoad(s, r) \/ Delete(s, r) \/ Invalidate(s, r)
    \/ \E cells \in Edits \cup {{}}, created \in SUBSET Rows :
         Edit(s, cells, created)

\* ... and what the repository and the database do for it.
Proceed(s) ==
    \/ TakeKey(s) \/ Load(s) \/ StartFlush(s)
    \/ \E r \in Rows : LockRow(s, r) \/ StartDelete(s, r)
    \/ Write(s) \/ TakeCategory(s) \/ Conflict(s) \/ DeleteRow(s)
    \/ CommitRequest(s) \/ CommitJob(s) \/ FinishJob(s)
    \/ Victim(s)

Next ==
    \E s \in Scopes :
      \/ \E k \in Keys, body \in Bodies : StartRequest(s, k, body)
      \/ StartJob(s)
      \/ Handle(s) \/ Proceed(s) \/ Timeout(s) \/ Crash(s)

Spec == Init /\ [][Next]_vars

\* Handlers end and the database goes on; nothing is asked of clients.
FairSpec == Spec /\ \A s \in Scopes : WF_vars(Proceed(s))

-----------------------------------------------------------------------------
\* Properties.

(* "never persist a stale row": what a commit changes in a row that stays  *)
(* was, before it, as the scope had read it: no update of another scope is *)
(* lost, whether rows are locked from the load on or merged (flush).  An   *)
(* entity that was deleted and promoted anew is excepted: it starts again  *)
(* at the revision at which a scope may have read the one before it.       *)
NoLostUpdate ==
    [][\A s \in Scopes : CommitRequest(s) \/ CommitJob(s) =>
         \A r \in Rows \ (Versioned \cap deleted), f \in Fields :
           db[r].present /\ db'[r].present /\ db'[r].value[f] /= db[r].value[f]
             => scope[s].base[r].value[f] = db[r].value[f]]_vars

(* A request sees one state of the rows it has loaded until it ends: the   *)
(* guards it has checked on them hold when it commits (operation, load).   *)
RequestReadsHold ==
    \A s \in Scopes : scope[s].atomic =>
      \A r \in scope[s].seen :
        scope[s].base[r].present => db[r] = scope[s].base[r]

(* "concurrent idempotency key executes one mutation": all results under a *)
(* key are one, whoever asks, however often, and wherever it was           *)
(* interrupted (request_once).                                             *)
OneOutcome == \A a, b \in outcomes : a.key = b.key => a = b

(* Jobs that delete nothing wait for each other in a circle only where one *)
(* of them waits for the category of an entity: a flush takes its rows in  *)
(* one order, which the categories do not follow, and a load keeps none.   *)
FlushesNeverDeadlock ==
    \A S \in SUBSET {s \in Scopes : ~scope[s].atomic /\ scope[s].gone = {}} :
        Cycle(S) => \E s \in S : scope[s].step = "category"

(* Every request and job ends, although each waits for locks others hold   *)
(* for as long as they run.                                                *)
ScopesEnd == \A s \in Scopes : []<>(scope[s].step = "idle")
=============================================================================
