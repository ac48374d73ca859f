---------------------------- MODULE RowStoreProofs ----------------------------
(***************************************************************************)
(* Theorems about RowStore, for any number of scopes, rows, fields, keys   *)
(* and edits.                                                              *)
(*   The invariant says of every scope what it is by itself (Local) and    *)
(* what it can rely on while others run (Held): the lock on its key, under *)
(* which nothing is recorded; for each row it has written in a flush, the  *)
(* advisory lock and that the row is still one it accepts; for each row a  *)
(* request has read, the lock and the row itself; for a job, that it holds *)
(* no lock but those of its flush.  The locks of one scope are what keeps  *)
(* a step of another from taking any of this away (OthersHeld).  The locks *)
(* on categories are taken beside these: nothing relies on them, and they  *)
(* are the only waits that can close a circle of flushes.                  *)
(***************************************************************************)
EXTENDS RowStore, WellFoundedInduction, TLAPS

Flushing == {"lock", "write", "category", "delete"}

\* What a scope is by itself.
Local(q) ==
    /\ q.atomic = TRUE =>
         q.key \in Keys /\ q.body \in Bodies /\ q.serial \in 1 .. MaxStarts
    /\ q.step = "key" => q.atomic = TRUE
    /\ q.step = "idle" => q.atomic = FALSE
    /\ q.step \notin Flushing => q.done = {}
    /\ q.gone \subseteq q.seen
    /\ q.step = "write" => q.row \in Pending(q)
    /\ q.step = "delete" => q.row \in q.gone \ q.done
    /\ \A r \in Rows : \/ q.loaded[r].present = TRUE
                       \/ q.loaded[r] = Absent /\ q.base[r] = Absent
    /\ \A r \in Rows : q.base[r].present = TRUE \/ q.base[r] = Absent
    /\ \A r \in q.done \ q.gone :
         /\ r \in Changed(q)
         /\ \A p \in Changed(q) \ q.done : r < p
    /\ \A r \in q.done \cap q.gone : q.written[r] = Absent

\* What scope s, being q, can rely on while others run.
KeyHeld(s, q) ==
    q.atomic = TRUE /\ q.step /= "key" =>
      advisory[q.key] = s /\ record[q.key] = None

WriteHeld(s, q) ==
    /\ q.step = "write" => advisory[q.row] = s
    /\ \A r \in q.done \ q.gone :
         /\ advisory[r] = s
         /\ db[r].present = TRUE => rowLock[r] = s
         /\ Accepts(q, r) /\ q.written[r] = Merged(q, r)

JobHolds(s, q) ==
    q.atomic = FALSE \/ q.step = "key" =>
      /\ \A r \in Rows : rowLock[r] = s => r \in q.done
      /\ \A x \in Rows \cup Keys : advisory[x] = s =>
            x \in q.done \/ (q.step = "write" /\ x = q.row)

VersionsRise(q) ==
    \A r \in q.seen \cap Versioned :
      q.base[r].present = TRUE /\ r \notin deleted =>
        /\ db[r].present = TRUE /\ q.base[r].version <= db[r].version
        /\ q.base[r].version = db[r].version => db[r] = q.base[r]

ReadHeld(s, q) ==
    q.atomic = TRUE => \A r \in q.seen : q.base[r].present = TRUE =>
      rowLock[r] = s /\ db[r] = q.base[r]

Held(s, q) ==
    /\ KeyHeld(s, q) /\ WriteHeld(s, q) /\ JobHolds(s, q)
    /\ VersionsRise(q) /\ ReadHeld(s, q)

Recorded ==
    /\ \A o \in outcomes : record[o.key] = o
    /\ \A k \in Keys : record[k] /= None => record[k].key = k

LocksThere == \A r \in Rows : rowLock[r] /= None => db[r].present = TRUE

StoreInv ==
    /\ TypeOK /\ Recorded /\ LocksThere
    /\ \A s \in Scopes : Local(scope[s]) /\ Held(s, scope[s])

-----------------------------------------------------------------------------
\* The scopes' records.

\* The scope of nobody, a row that is not there and one just created.
LEMMA IdleIsScope == Idle \in Scope /\ Absent \in Row /\ Fresh \in Row
<1>1. Absent \in Row /\ Fresh \in Row
  BY DEF Absent, Fresh, Row
<1>2. 1 \in Rows
  BY RowsAssumption DEF Rows
<1>3. 0 \in 0 .. MaxStarts /\ 0 \in 0 .. MaxEdits
  BY BoundsAssumption
<1>4. NoRows \in [Rows -> Row]
  BY <1>1 DEF NoRows
<1> QED
  BY <1>1, <1>2, <1>3, <1>4 DEF Idle, Scope, Steps

\* What an update of some fields leaves a scope to be.
LEMMA ScopeBegins ==
    ASSUME NEW q \in Scope, NEW step \in Steps, NEW a \in BOOLEAN,
           NEW n \in 0 .. MaxStarts, NEW k \in Keys, NEW b \in Bodies
    PROVE  [q EXCEPT !.step = step, !.atomic = a, !.serial = n, !.key = k,
                     !.body = b] \in Scope
BY DEF Scope

\* A scope after a load.
LEMMA ScopeReads ==
    ASSUME NEW q \in Scope, NEW step \in Steps, NEW S \in SUBSET Rows,
           NEW L \in [Rows -> Row], NEW B \in [Rows -> Row]
    PROVE  [q EXCEPT !.step = step, !.row = 1, !.seen = S, !.loaded = L,
                     !.base = B] \in Scope
<1>1. 1 \in Rows
  BY RowsAssumption DEF Rows
<1> QED
  BY <1>1 DEF Scope

\* A scope after an edit, a deletion or a creation.
LEMMA ScopeEdits ==
    ASSUME NEW q \in Scope, NEW n \in 0 .. MaxEdits, NEW S \in SUBSET Rows,
           NEW L \in [Rows -> Row], NEW B \in [Rows -> Row]
    PROVE  /\ [q EXCEPT !.edits = n, !.loaded = L] \in Scope
           /\ [q EXCEPT !.gone = S, !.edits = n] \in Scope
           /\ [q EXCEPT !.edits = n, !.seen = S, !.loaded = L, !.base = B]
                \in Scope
BY DEF Scope

\* A scope after a row of its flush was written.
LEMMA ScopeWrites ==
    ASSUME NEW q \in Scope, NEW S \in SUBSET Rows, NEW W \in [Rows -> Row]
    PROVE  [q EXCEPT !.step = "lock", !.row = 1, !.done = S, !.written = W]
             \in Scope
<1>1. 1 \in Rows
  BY RowsAssumption DEF Rows
<1> QED
  BY <1>1 DEF Scope, Steps

\* A job after a flush, committed or rolled back.
LEMMA ScopeContinues ==
    ASSUME NEW q \in Scope, NEW S \in SUBSET Rows, NEW L \in [Rows -> Row],
           NEW B \in [Rows -> Row]
    PROVE  /\ [q EXCEPT !.step = "run", !.loaded = L, !.base = B, !.seen = S,
                        !.gone = {}, !.done = {}, !.written = NoRows] \in Scope
           /\ [q EXCEPT !.step = "run", !.row = 1, !.seen = S, !.loaded = L,
                        !.gone = {}, !.done = {}, !.written = NoRows] \in Scope
<1>1. NoRows \in [Rows -> Row] /\ "run" \in Steps /\ {} \in SUBSET Rows
  BY DEF NoRows, Absent, Row, Steps
<1>2. 1 \in Rows
  BY RowsAssumption DEF Rows
<1> QED
  BY <1>1, <1>2 DEF Scope

\* No scope has begun, no lock is taken and no outcome recorded.
LEMMA InitStoreInv == Init => StoreInv
<1> SUFFICES ASSUME Init PROVE StoreInv
  OBVIOUS
<1>1. TypeOK
  BY IdleIsScope, BoundsAssumption DEF Init, TypeOK
<1>2. \A s \in Scopes : scope[s] = Idle
  BY DEF Init
<1>3. Local(Idle)
  BY DEF Local, Idle, NoRows, Flushing
<1>4. ASSUME NEW s \in Scopes PROVE Held(s, Idle)
  BY <1>4, NoneAssumption
     DEF Init, Held, KeyHeld, WriteHeld, JobHolds, VersionsRise,
     ReadHeld, Idle
<1>5. Recorded /\ LocksThere
  BY DEF Init, Recorded, LocksThere
<1> QED
  BY <1>1, <1>2, <1>3, <1>4, <1>5 DEF StoreInv

\* A step of one scope leaves the records of the others.
LEMMA Became ==
    ASSUME TypeOK, NEW s \in Scopes, NEW q \in Scope, Becomes(s, q)
    PROVE  /\ scope' \in [Scopes -> Scope] /\ scope'[s] = q
           /\ \A u \in Scopes \ {s} : scope'[u] = scope[u]
BY DEF TypeOK, Becomes

\* A step of s leaves the locks of the others alone.
KeepsLocks(s) ==
    /\ rowLock' \in [Rows -> Scopes \cup {None}]
    /\ advisory' \in [Rows \cup Keys -> Scopes \cup {None}]
    /\ category' \in [Categories -> Scopes \cup {None}]
    /\ \A u \in Scopes \ {s} :
         /\ \A r \in Rows : rowLock'[r] = u <=> rowLock[r] = u
         /\ \A x \in Rows \cup Keys : advisory'[x] = u <=> advisory[x] = u

\* The end of a transaction gives back the locks of its scope and no other.
LEMMA Releases ==
    ASSUME TypeOK, NEW s \in Scopes, Release(s)
    PROVE  /\ KeepsLocks(s)
           /\ \A r \in Rows : /\ rowLock'[r] /= s
                              /\ rowLock'[r] /= None => rowLock'[r] = rowLock[r]
           /\ \A x \in Rows \cup Keys : advisory'[x] /= s
<1>1. s /= None
  BY NoneAssumption
<1>2. /\ rowLock' \in [Rows -> Scopes \cup {None}]
      /\ \A r \in Rows :
            rowLock'[r] = IF rowLock[r] = s THEN None ELSE rowLock[r]
  BY DEF TypeOK, Release, Released
<1>3. /\ advisory' \in [Rows \cup Keys -> Scopes \cup {None}]
      /\ \A x \in Rows \cup Keys :
            advisory'[x] = IF advisory[x] = s THEN None ELSE advisory[x]
  BY DEF TypeOK, Release, Released
<1>4. None \notin Scopes
  BY NoneAssumption
<1>5. category' \in [Categories -> Scopes \cup {None}]
  BY DEF TypeOK, Release, Released
<1> QED
  BY <1>1, <1>2, <1>3, <1>4, <1>5 DEF KeepsLocks

\* A row lock is taken when nobody else has it, if the row is there.
LEMMA TakesRow ==
    ASSUME TypeOK, NEW s \in Scopes, NEW r \in Rows, Free(rowLock[r], s),
           LockIfThere(s, r), UNCHANGED <<advisory, category>>
    PROVE  /\ KeepsLocks(s)
           /\ \A p \in Rows \ {r} : rowLock'[p] = rowLock[p]
           /\ rowLock'[r] = IF db[r].present THEN s ELSE rowLock[r]
BY NoneAssumption DEF TypeOK, Free, LockIfThere, KeepsLocks

\* An advisory lock is taken when nobody else has it.
LEMMA TakesAdvisory ==
    ASSUME TypeOK, NEW s \in Scopes, NEW x \in Rows \cup Keys,
           Free(advisory[x], s), advisory' = [advisory EXCEPT ![x] = s],
           UNCHANGED <<rowLock, category>>
    PROVE  /\ KeepsLocks(s) /\ advisory'[x] = s
           /\ \A y \in (Rows \cup Keys) \ {x} : advisory'[y] = advisory[y]
BY NoneAssumption DEF TypeOK, Free, KeepsLocks

-----------------------------------------------------------------------------
\* What the others rely on survives a step of s.

\* The committed rows change only by the commit of a flush.
RowsStep(s) ==
    \/ UNCHANGED rows
    \/ scope[s].step = "lock" /\ Written(s) /\ db' \in [Rows -> Row]

RecordStep(s) ==
    \/ record' = record
    \/ /\ scope[s].atomic = TRUE /\ scope[s].step = "lock"
       /\ record' = [record EXCEPT ![scope[s].key] = Outcome(scope[s])]

\* What a scope relies on of a row it has written or deleted in its flush.
LEMMA TakenRow ==
    ASSUME StoreInv, NEW s \in Scopes, NEW r \in Rows, Takes(s, r)
    PROVE  /\ r \in scope[s].gone =>
                 /\ rowLock[r] = s /\ db[r].present = TRUE
                 /\ scope[s].written[r] = Absent
           /\ r \notin scope[s].gone =>
                 /\ advisory[r] = s /\ (db[r].present = TRUE => rowLock[r] = s)
                 /\ r \in Changed(scope[s]) /\ Accepts(scope[s], r)
                 /\ scope[s].written[r] = Merged(scope[s], r)
                 /\ scope[s].loaded[r].present = TRUE
                 /\ scope[s].written[r].present = TRUE
<1> DEFINE q == scope[s]
<1>1. Local(q) /\ WriteHeld(s, q) /\ LocksThere /\ TypeOK /\ q \in Scope
  BY DEF StoreInv, Held, TypeOK
<1>2. CASE r \in q.gone
  BY <1>1, <1>2, NoneAssumption DEF Takes, Local, LocksThere
<1>3. CASE r \notin q.gone
  <2>1. r \in q.done \ q.gone
    BY <1>3 DEF Takes
  <2>2. /\ r \in Changed(q) /\ advisory[r] = s
        /\ db[r].present = TRUE => rowLock[r] = s
        /\ Accepts(q, r) /\ q.written[r] = Merged(q, r)
    BY <1>1, <2>1 DEF Local, WriteHeld
  <2>3. q.loaded[r].present = TRUE
    BY <1>1, <2>2 DEF Local, Changed
  <2>4. q.loaded[r] \in Row
    BY <1>1 DEF Scope
  <2>5. Merged(q, r).present = TRUE
    BY <2>3, <2>4 DEF Merged, Row
  <2> QED
    BY <1>3, <2>2, <2>3, <2>5
<1> QED
  BY <1>2, <1>3

\* The rows that scope u has locked or written are left as they are.
LEMMA OthersRows ==
    ASSUME StoreInv, NEW s \in Scopes, NEW u \in Scopes \ {s}, RowsStep(s)
    PROVE  /\ \A r \in Rows : rowLock[r] = u => db'[r] = db[r]
           /\ \A r \in scope[u].done \ scope[u].gone : db'[r] = db[r]
<1>1. ASSUME NEW r \in Rows, Takes(s, r)
      PROVE  /\ rowLock[r] /= u
             /\ r \notin scope[u].done \ scope[u].gone
  <2>1. WriteHeld(u, scope[u]) /\ LocksThere
    BY DEF StoreInv, Held
  <2>2. u /= None /\ s /= None
    BY NoneAssumption
  <2>3. \/ rowLock[r] = s /\ db[r].present = TRUE
        \/ advisory[r] = s /\ (db[r].present = TRUE => rowLock[r] = s)
    BY <1>1, TakenRow
  <2>4. rowLock[r] /= u
    BY <2>1, <2>2, <2>3 DEF LocksThere
  <2>5. r \notin scope[u].done \ scope[u].gone
    BY <2>1, <2>2, <2>3 DEF WriteHeld
  <2> QED
    BY <2>4, <2>5
<1>2. scope[u].done \subseteq Rows
  BY DEF StoreInv, TypeOK, Scope
<1> QED
  BY <1>1, <1>2 DEF RowsStep, rows, Written

\* A row that was never deleted stays, and its version tells its changes.
LEMMA VersionsStep ==
    ASSUME StoreInv, NEW s \in Scopes, RowsStep(s), NEW r \in Versioned,
           db[r].present = TRUE, r \notin deleted'
    PROVE  /\ db'[r].present = TRUE /\ r \notin deleted
           /\ db'[r] = db[r] \/ db'[r].version = db[r].version + 1
<1>1. r \in Rows
  BY RowsAssumption DEF Rows
<1>2. CASE UNCHANGED rows
  BY <1>2 DEF rows
<1>3. CASE Written(s) /\ ~Takes(s, r)
  BY <1>1, <1>3 DEF Written
<1>4. CASE Written(s) /\ Takes(s, r)
  <2>1. r \notin scope[s].gone /\ r \notin deleted
    BY <1>4 DEF Written
  <2>2. /\ db'[r] = Merged(scope[s], r) /\ db'[r].present = TRUE
    BY <1>1, <1>4, <2>1, TakenRow DEF Written
  <2>3. scope[s].loaded[r] \in Row
    BY <1>1 DEF StoreInv, TypeOK, Scope
  <2>4. Merged(scope[s], r).version = db[r].version + 1
    BY <2>3 DEF Merged, Row
  <2> QED
    BY <2>1, <2>2, <2>4
<1> QED
  BY <1>2, <1>3, <1>4 DEF RowsStep

\* The locks of one scope keep a step of another from what it relies on.
LEMMA OthersHeld ==
    ASSUME StoreInv, NEW s \in Scopes, NEW u \in Scopes \ {s}, NEW q,
           q = scope[u], RowsStep(s), RecordStep(s), KeepsLocks(s)
    PROVE  Held(u, q)'
<1> USE DEF Held
<1> q \in Scope /\ Local(q) /\ Held(u, q) /\ TypeOK
  BY DEF StoreInv, TypeOK
<1>1. KeyHeld(u, q)'
  <2> SUFFICES ASSUME q.atomic = TRUE, q.step /= "key"
               PROVE  advisory'[q.key] = u /\ record'[q.key] = None
    BY DEF KeyHeld
  <2>1. q.key \in Keys /\ advisory[q.key] = u /\ record[q.key] = None
    BY DEF KeyHeld, Local
  <2>2. advisory'[q.key] = u
    BY <2>1 DEF KeepsLocks
  <2>3. ASSUME scope[s].atomic = TRUE, scope[s].step = "lock"
        PROVE  scope[s].key /= q.key
    BY <2>1, <2>3 DEF StoreInv, KeyHeld
  <2> QED
    BY <2>1, <2>2, <2>3 DEF RecordStep, TypeOK
<1>2. WriteHeld(u, q)'
  <2>1. q.step = "write" => advisory'[q.row] = u
    BY DEF WriteHeld, KeepsLocks, Scope
  <2>2. ASSUME NEW r \in q.done \ q.gone
        PROVE  /\ advisory'[r] = u
               /\ db'[r].present = TRUE => rowLock'[r] = u
               /\ Accepts(q, r)' /\ q.written[r] = Merged(q, r)'
    <3>1. r \in Rows /\ db'[r] = db[r]
      BY OthersRows DEF Scope
    <3>2. /\ advisory[r] = u /\ (db[r].present = TRUE => rowLock[r] = u)
          /\ Accepts(q, r) /\ q.written[r] = Merged(q, r)
      BY DEF WriteHeld
    <3>3. advisory'[r] = u /\ (db'[r].present = TRUE => rowLock'[r] = u)
      BY <3>1, <3>2 DEF KeepsLocks
    <3>4. Accepts(q, r)' /\ Merged(q, r)' = Merged(q, r)
      BY <3>1, <3>2 DEF Accepts, Agrees, Merged
    <3> QED
      BY <3>2, <3>3, <3>4
  <2> QED
    BY <2>1, <2>2 DEF WriteHeld
<1>3. JobHolds(u, q)'
  BY DEF JobHolds, KeepsLocks
<1>4. VersionsRise(q)'
  <2> SUFFICES ASSUME NEW r \in q.seen \cap Versioned,
                      q.base[r].present = TRUE, r \notin deleted'
               PROVE  /\ db'[r].present = TRUE
                      /\ q.base[r].version <= db'[r].version
                      /\ q.base[r].version = db'[r].version =>
                            db'[r] = q.base[r]
    BY DEF VersionsRise
  <2>1. r \in Rows /\ db[r] \in Row /\ q.base[r] \in Row /\ r \notin deleted
    BY DEF Scope, TypeOK, RowsStep, rows, Written
  <2>2. /\ db[r].present = TRUE /\ q.base[r].version <= db[r].version
        /\ q.base[r].version = db[r].version => db[r] = q.base[r]
    BY <2>1 DEF VersionsRise
  <2>3. /\ db'[r].present = TRUE
        /\ db'[r] = db[r] \/ db'[r].version = db[r].version + 1
    BY <2>2, VersionsStep
  <2>4. q.base[r].version \in Nat /\ db[r].version \in Nat
    BY <2>1 DEF Row
  <2>5. CASE db'[r] = db[r]
    BY <2>2, <2>5
  <2>6. CASE db'[r].version = db[r].version + 1
    BY <2>2, <2>3, <2>4, <2>6
  <2> QED
    BY <2>3, <2>5, <2>6
<1>5. ReadHeld(u, q)'
  <2> SUFFICES ASSUME q.atomic = TRUE, NEW r \in q.seen,
                      q.base[r].present = TRUE
               PROVE  rowLock'[r] = u /\ db'[r] = q.base[r]
    BY DEF ReadHeld
  <2>1. r \in Rows /\ rowLock[r] = u /\ db[r] = q.base[r]
    BY DEF ReadHeld, Scope
  <2> QED
    BY <2>1, OthersRows DEF KeepsLocks
<1> QED
  BY <1>1, <1>2, <1>3, <1>4, <1>5

\* What a scope that does not move relies on is about the rows and locks.
LEMMA HeldSame ==
    ASSUME NEW u, NEW q, q = scope'[u], Held(u, q)'
    PROVE  Held(u, scope[u])'
<1>1. KeyHeld(u, scope[u])'
  BY DEF Held, KeyHeld
<1>2. WriteHeld(u, scope[u])'
  <2>1. ASSUME NEW r PROVE /\ Accepts(scope[u], r)' = Accepts(q, r)'
                           /\ Merged(scope[u], r)' = Merged(q, r)'
    BY DEF Accepts, Agrees, Merged
  <2> QED
    BY <2>1 DEF Held, WriteHeld
<1>3. JobHolds(u, scope[u])'
  BY DEF Held, JobHolds
<1>4. VersionsRise(scope[u])'
  BY DEF Held, VersionsRise
<1>5. ReadHeld(u, scope[u])'
  BY DEF Held, ReadHeld
<1> QED
  BY <1>1, <1>2, <1>3, <1>4, <1>5 DEF Held

\* What is left to show of a step of s.
LEMMA StepInv ==
    ASSUME StoreInv, NEW s \in Scopes, NEW q \in Scope, Becomes(s, q),
           RowsStep(s), RecordStep(s), KeepsLocks(s),
           record' \in [Keys -> Outcomes \cup {None}], outcomes' \subseteq Outcomes,
           deleted' \subseteq Rows, starts' \in 0 .. MaxStarts,
           Recorded', LocksThere', Local(q), Held(s, q)'
    PROVE  StoreInv'
<1>1. /\ scope' \in [Scopes -> Scope] /\ scope'[s] = q
      /\ \A u \in Scopes \ {s} : scope'[u] = scope[u]
  BY Became DEF StoreInv
<1>2. db' \in [Rows -> Row]
  BY DEF RowsStep, rows, StoreInv, TypeOK
<1>3. TypeOK'
  BY <1>1, <1>2 DEF TypeOK, KeepsLocks
<1>4. ASSUME NEW u \in Scopes PROVE Local(scope'[u]) /\ Held(u, scope[u])'
  <2>1. CASE u = s
    <3>1. Held(u, scope[u])'
      BY <1>1, <2>1, HeldSame
    <3> QED
      BY <1>1, <2>1, <3>1
  <2>2. CASE u /= s
    <3>1. PICK p : p = scope[u]
      OBVIOUS
    <3>2. p = scope'[u] /\ Local(p)
      BY <1>1, <2>2, <3>1 DEF StoreInv
    <3>3. Held(u, p)'
      BY <2>2, <3>1, OthersHeld
    <3>4. Held(u, scope[u])'
      BY <3>2, <3>3, HeldSame
    <3> QED
      BY <3>2, <3>4
  <2> QED
    BY <2>1, <2>2
<1> QED
  BY <1>3, <1>4 DEF StoreInv

\* A step of s that touches neither rows nor locks.
LEMMA QuietInv ==
    ASSUME StoreInv, NEW s \in Scopes, NEW q \in Scope, Becomes(s, q),
           UNCHANGED <<rows, keyed, locks>>, starts' \in 0 .. MaxStarts,
           Local(q), Held(s, q)
    PROVE  StoreInv'
<1> USE DEF rows, keyed, locks
<1>1. RowsStep(s) /\ RecordStep(s)
  BY DEF RowsStep, RecordStep
<1>2. KeepsLocks(s)
  BY DEF KeepsLocks, StoreInv, TypeOK
<1>3. /\ record' \in [Keys -> Outcomes \cup {None}]
      /\ outcomes' \subseteq Outcomes /\ deleted' \subseteq Rows
  BY DEF StoreInv, TypeOK
<1>4. Recorded' /\ LocksThere'
  BY DEF StoreInv, Recorded, LocksThere
<1>5. Held(s, q)'
  <2>1. ASSUME NEW r PROVE /\ Accepts(q, r)' = Accepts(q, r)
                           /\ Merged(q, r)' = Merged(q, r)
    BY DEF Accepts, Agrees, Merged
  <2> QED
    BY <2>1 DEF Held, KeyHeld, WriteHeld, JobHolds, VersionsRise, ReadHeld
<1> QED
  BY <1>1, <1>2, <1>3, <1>4, <1>5, StepInv

\* A step of s that takes or gives back locks only.
LEMMA LockingInv ==
    ASSUME StoreInv, NEW s \in Scopes, NEW q \in Scope, Becomes(s, q),
           UNCHANGED <<rows, keyed, starts>>, KeepsLocks(s), LocksThere',
           Local(q), Held(s, q)'
    PROVE  StoreInv'
<1> USE DEF rows, keyed
<1>1. RowsStep(s) /\ RecordStep(s)
  BY DEF RowsStep, RecordStep
<1>2. /\ record' \in [Keys -> Outcomes \cup {None}]
      /\ outcomes' \subseteq Outcomes /\ deleted' \subseteq Rows
      /\ starts' \in 0 .. MaxStarts
  BY DEF StoreInv, TypeOK
<1>3. Recorded'
  BY DEF StoreInv, Recorded
<1> QED
  BY <1>1, <1>2, <1>3, StepInv

\* A scope that is over relies on nothing and holds no lock.
LEMMA IdleHolds ==
    ASSUME NEW s \in Scopes,
           \A r \in Rows : rowLock'[r] /= s,
           \A x \in Rows \cup Keys : advisory'[x] /= s
    PROVE  Local(Idle) /\ Held(s, Idle)'
<1>1. Local(Idle)
  BY DEF Local, Idle, NoRows, Flushing
<1>2. Held(s, Idle)'
  BY DEF Held, KeyHeld, WriteHeld, JobHolds, VersionsRise, ReadHeld, Idle
<1> QED
  BY <1>1, <1>2

\* RowRepository.operation ends: locks and rows are given up.
LEMMA EndInv ==
    ASSUME StoreInv, NEW s \in Scopes, End(s)
    PROVE  StoreInv'
<1>1. /\ KeepsLocks(s)
      /\ \A r \in Rows : /\ rowLock'[r] /= s
                         /\ rowLock'[r] /= None => rowLock'[r] = rowLock[r]
      /\ \A x \in Rows \cup Keys : advisory'[x] /= s
  BY Releases DEF StoreInv, End
<1>2. LocksThere'
  BY <1>1 DEF End, rows, StoreInv, LocksThere
<1> QED
  BY <1>1, <1>2, IdleHolds, IdleIsScope, LockingInv DEF End

-----------------------------------------------------------------------------
\* The steps.

\* install_operations: a request begins, with its key or without.
LEMMA StartRequestInv ==
    ASSUME StoreInv, NEW s \in Scopes, NEW k \in Keys, NEW body \in Bodies,
           StartRequest(s, k, body)
    PROVE  StoreInv'
<1>1. PICK q : q = [Idle EXCEPT !.step = "key", !.atomic = TRUE,
                       !.serial = starts + 1, !.key = k, !.body = body]
  OBVIOUS
<1>2. starts + 1 \in 1 .. MaxStarts
  BY BoundsAssumption DEF StartRequest, StoreInv, TypeOK
<1>3. /\ q.step = "key" /\ q.atomic = TRUE /\ q.key = k /\ q.body = body
      /\ q.serial = starts + 1 /\ q.seen = {} /\ q.gone = {} /\ q.done = {}
      /\ q.loaded = NoRows /\ q.base = NoRows
  BY <1>1 DEF Idle
<1>4. q \in Scope
  <2>1. starts + 1 \in 0 .. MaxStarts /\ "key" \in Steps /\ Idle \in Scope
    BY <1>2, IdleIsScope DEF Steps
  <2>2. [Idle EXCEPT !.step = "key", !.atomic = TRUE, !.serial = starts + 1,
                     !.key = k, !.body = body] \in Scope
    BY <2>1, ScopeBegins
  <2> QED
    BY <1>1, <2>2
<1>5. Local(q)
  BY <1>2, <1>3 DEF Local, NoRows, Flushing
<1>6. Held(s, q)
  <2>1. Local(scope[s]) /\ JobHolds(s, scope[s]) /\ scope[s].step = "idle"
    BY DEF StoreInv, Held, StartRequest
  <2>2. JobHolds(s, q)
    BY <1>3, <2>1 DEF Local, JobHolds, Flushing
  <2> QED
    BY <1>3, <2>2 DEF Held, KeyHeld, WriteHeld, VersionsRise, ReadHeld
<1>7. Becomes(s, q)
  BY <1>1 DEF StartRequest
<1> QED
  BY <1>2, <1>4, <1>5, <1>6, <1>7, QuietInv DEF StartRequest

\* wrap_worker: a job begins.
LEMMA StartJobInv ==
    ASSUME StoreInv, NEW s \in Scopes, StartJob(s)
    PROVE  StoreInv'
<1>1. PICK q : q = [Idle EXCEPT !.step = "run"]
  OBVIOUS
<1>2. starts + 1 \in 0 .. MaxStarts
  BY BoundsAssumption DEF StartJob, StoreInv, TypeOK
<1>3. /\ q.step = "run" /\ q.atomic = FALSE
      /\ q.seen = {} /\ q.gone = {} /\ q.done = {}
      /\ q.loaded = NoRows /\ q.base = NoRows
  BY <1>1 DEF Idle
<1>4. q \in Scope
  <2>1. "run" \in Steps /\ Idle \in Scope
    BY IdleIsScope DEF Steps
  <2>2. [Idle EXCEPT !.step = "run"] \in Scope
    BY <2>1 DEF Scope
  <2> QED
    BY <1>1, <2>2
<1>5. Local(q)
  BY <1>3 DEF Local, NoRows, Flushing
<1>6. Held(s, q)
  <2>1. Local(scope[s]) /\ JobHolds(s, scope[s]) /\ scope[s].step = "idle"
    BY DEF StoreInv, Held, StartJob
  <2>2. JobHolds(s, q)
    BY <1>3, <2>1 DEF Local, JobHolds, Flushing
  <2> QED
    BY <1>3, <2>2 DEF Held, KeyHeld, WriteHeld, VersionsRise, ReadHeld
<1>7. Becomes(s, q)
  BY <1>1 DEF StartJob
<1> QED
  BY <1>2, <1>4, <1>5, <1>6, <1>7, QuietInv DEF StartJob

\* Two scopes that are alike but for the step, both in the handler's code or
\* both in a flush, rely on the same.
Alike(p, q) ==
    /\ p.atomic = q.atomic /\ p.key = q.key /\ p.body = q.body
    /\ p.serial = q.serial /\ p.loaded = q.loaded /\ p.base = q.base
    /\ p.seen = q.seen /\ p.gone = q.gone /\ p.done = q.done
    /\ p.written = q.written

\* A scope that only moves to its next step keeps what it has read.
LEMMA Goes ==
    ASSUME NEW p \in Scope, NEW step \in Steps, NEW q,
           q = [p EXCEPT !.step = step]
    PROVE  q \in Scope /\ q.step = step /\ q.row = p.row /\ Alike(p, q)
BY DEF Scope, Alike

\* ... and relies on what it relied on.
LEMMA AlikeHeld ==
    ASSUME NEW s, NEW p, NEW q, Alike(p, q), Held(s, p),
           q.step = "key" => p.step = "key",
           p.step = "key" => q.step = "key" \/ KeyHeld(s, q),
           p.step = "write" => q.step = "write" /\ q.row = p.row,
           q.step = "write" => advisory[q.row] = s
    PROVE  Held(s, q)
<1>1. KeyHeld(s, q)
  BY DEF Held, KeyHeld, Alike
<1>2. WriteHeld(s, q)
  <2>1. ASSUME NEW r PROVE /\ Accepts(q, r) = Accepts(p, r)
                           /\ Merged(q, r) = Merged(p, r)
    BY DEF Accepts, Agrees, Merged, Alike
  <2> QED
    BY <2>1 DEF Held, WriteHeld, Alike
<1>3. JobHolds(s, q)
  BY DEF Held, JobHolds, Alike
<1>4. VersionsRise(q) /\ ReadHeld(s, q)
  BY DEF Held, VersionsRise, ReadHeld, Alike
<1> QED
  BY <1>1, <1>2, <1>3, <1>4 DEF Held

\* ... and is by itself what it was.
LEMMA AlikeLocal ==
    ASSUME NEW p, NEW q, Alike(p, q), Local(p),
           q.step = "key" => q.atomic = TRUE,
           q.step = "idle" => q.atomic = FALSE,
           q.step \notin Flushing => p.step \notin Flushing \/ p.done = {},
           q.step = "write" => q.row \in Pending(p),
           q.step = "delete" => q.row \in p.gone \ p.done
    PROVE  Local(q)
<1>1. Changed(q) = Changed(p) /\ Pending(q) = Pending(p)
  BY DEF Changed, Pending, Alike
<1> QED
  BY <1>1 DEF Local, Alike

\* request_once: under the lock of the key nothing is recorded yet.
LEMMA TakeKeyInv ==
    ASSUME StoreInv, NEW s \in Scopes, TakeKey(s)
    PROVE  StoreInv'
<1>1. PICK p : p = scope[s]
  OBVIOUS
<1>2. /\ p \in Scope /\ Local(p) /\ Held(s, p) /\ p.step = "key"
      /\ p.key \in Keys /\ p.atomic = TRUE /\ advisory[p.key] = None
      /\ p.done = {}
  BY <1>1 DEF StoreInv, TypeOK, TakeKey, Local, Flushing
<1>3. CASE record[p.key] = None
  <2>1. PICK q : q = [p EXCEPT !.step = "run"]
    OBVIOUS
  <2>2. q \in Scope /\ q.step = "run" /\ Alike(p, q)
    <3>1. "run" \in Steps
      BY DEF Steps
    <3> QED
      BY <1>2, <2>1, <3>1, Goes
  <2>3. /\ KeepsLocks(s) /\ advisory'[p.key] = s
        /\ UNCHANGED <<rows, keyed, rowLock, starts>> /\ Becomes(s, q)
    <3>1. /\ UNCHANGED <<rows, keyed, rowLock, category, starts>>
          /\ advisory' = [advisory EXCEPT ![p.key] = s] /\ Becomes(s, q)
      BY <1>1, <1>3, <2>1 DEF TakeKey, keyed
    <3> QED
      BY <1>2, <3>1, TakesAdvisory DEF StoreInv, Free
  <2>4. LocksThere'
    BY <2>3 DEF LocksThere, StoreInv, rows
  <2>5. Local(q)
    BY <1>2, <2>2, AlikeLocal DEF Flushing
  <2>6. Held(s, q)'
    <3>1. KeyHeld(s, q)'
      BY <1>3, <2>2, <2>3 DEF KeyHeld, Alike, keyed
    <3>2. WriteHeld(s, q)' /\ JobHolds(s, q)'
      BY <1>2, <2>2 DEF WriteHeld, JobHolds, Alike
    <3>3. VersionsRise(q)' /\ ReadHeld(s, q)'
      BY <1>2, <2>2, <2>3 DEF Held, VersionsRise, ReadHeld, Alike, rows
    <3> QED
      BY <3>1, <3>2, <3>3 DEF Held
  <2> QED
    BY <2>2, <2>3, <2>4, <2>5, <2>6, LockingInv
<1>4. CASE record[p.key] /= None
  <2>1. /\ outcomes' \in {outcomes, outcomes \cup {record[p.key]}}
        /\ UNCHANGED <<rows, record, locks, starts>> /\ Becomes(s, Idle)
    BY <1>1, <1>4 DEF TakeKey, locks
  <2>2. record[p.key] \in Outcomes /\ record[p.key].key = p.key
    BY <1>2, <1>4 DEF StoreInv, TypeOK, Recorded
  <2>3. outcomes' \subseteq Outcomes /\ Recorded'
    BY <2>1, <2>2 DEF StoreInv, TypeOK, Recorded
  <2>4. /\ \A r \in Rows : rowLock[r] /= s
        /\ \A x \in Rows \cup Keys : advisory[x] /= s
    BY <1>2 DEF Held, JobHolds
  <2>5. Local(Idle) /\ Held(s, Idle)'
    BY <2>1, <2>4, IdleHolds DEF locks
  <2>6. /\ RowsStep(s) /\ RecordStep(s) /\ KeepsLocks(s) /\ LocksThere'
        /\ record' \in [Keys -> Outcomes \cup {None}]
        /\ deleted' \subseteq Rows /\ starts' \in 0 .. MaxStarts
    BY <2>1 DEF RowsStep, RecordStep, KeepsLocks, LocksThere, StoreInv,
       TypeOK, rows, locks
  <2> QED
    BY <2>1, <2>3, <2>5, <2>6, IdleIsScope, StepInv
<1> QED
  BY <1>3, <1>4

\* RowMap.__getitem__: a row is asked for.
LEMMA StartLoadInv ==
    ASSUME StoreInv, NEW s \in Scopes, NEW r \in Rows, StartLoad(s, r)
    PROVE  StoreInv'
<1>1. PICK p : p = scope[s]
  OBVIOUS
<1>2. p \in Scope /\ Local(p) /\ Held(s, p) /\ p.step = "run"
  BY <1>1 DEF StoreInv, TypeOK, StartLoad
<1>3. PICK q : q = [p EXCEPT !.step = "load", !.row = r]
  OBVIOUS
<1>4. q \in Scope /\ q.step = "load" /\ Alike(p, q)
  <2>1. "load" \in Steps
    BY DEF Steps
  <2>2. p \in Scope /\ r \in Rows
    BY <1>2
  <2> QED
    BY ONLY <1>3, <2>1, <2>2 DEF Scope, Alike
<1>5. Local(q) /\ Held(s, q)
  BY <1>2, <1>4, AlikeLocal, AlikeHeld DEF Flushing
<1>6. Becomes(s, q)
  BY <1>1, <1>3 DEF StartLoad
<1> QED
  BY <1>4, <1>5, <1>6, QuietInv DEF StartLoad, StoreInv, TypeOK

\* RowRepository.flush begins with no row written.
LEMMA StartFlushInv ==
    ASSUME StoreInv, NEW s \in Scopes, StartFlush(s)
    PROVE  StoreInv'
<1>1. PICK p : p = scope[s]
  OBVIOUS
<1>2. p \in Scope /\ Local(p) /\ Held(s, p) /\ p.step = "run"
  BY <1>1 DEF StoreInv, TypeOK, StartFlush
<1>3. PICK q : q = [p EXCEPT !.step = "lock"]
  OBVIOUS
<1>4. q \in Scope /\ q.step = "lock" /\ Alike(p, q)
  <2>1. "lock" \in Steps
    BY DEF Steps
  <2> QED
    BY <1>2, <1>3, <2>1, Goes
<1>5. Local(q) /\ Held(s, q)
  BY <1>2, <1>4, AlikeLocal, AlikeHeld DEF Flushing
<1>6. Becomes(s, q)
  BY <1>1, <1>3 DEF StartFlush
<1> QED
  BY <1>4, <1>5, <1>6, QuietInv DEF StartFlush, StoreInv, TypeOK

\* The deletions of a flush come after its writes.
LEMMA StartDeleteInv ==
    ASSUME StoreInv, NEW s \in Scopes, NEW r \in Rows, StartDelete(s, r)
    PROVE  StoreInv'
<1>1. PICK p : p = scope[s]
  OBVIOUS
<1>2. /\ p \in Scope /\ Local(p) /\ Held(s, p) /\ p.step = "lock"
      /\ r \in p.gone \ p.done
  BY <1>1 DEF StoreInv, TypeOK, StartDelete, Doomed
<1>3. PICK q : q = [p EXCEPT !.step = "delete", !.row = r]
  OBVIOUS
<1>4. q \in Scope /\ q.step = "delete" /\ q.row = r /\ Alike(p, q)
  <2>1. "delete" \in Steps
    BY DEF Steps
  <2>2. p \in Scope /\ r \in Rows
    BY <1>2
  <2> QED
    BY ONLY <1>3, <2>1, <2>2 DEF Scope, Alike
<1>5. Local(q)
  BY <1>2, <1>4, AlikeLocal DEF Flushing
<1>6. Held(s, q)
  BY <1>2, <1>4, AlikeHeld
<1>7. Becomes(s, q)
  BY <1>1, <1>3 DEF StartDelete
<1> QED
  BY <1>4, <1>5, <1>6, <1>7, QuietInv DEF StartDelete, StoreInv, TypeOK

\* A flush takes its rows in order, the advisory lock first.
LEMMA LockRowInv ==
    ASSUME StoreInv, NEW s \in Scopes, NEW r \in Rows, LockRow(s, r)
    PROVE  StoreInv'
<1>1. PICK p : p = scope[s]
  OBVIOUS
<1>2. /\ p \in Scope /\ Local(p) /\ Held(s, p) /\ p.step = "lock"
      /\ r \in Pending(p)
  BY <1>1 DEF StoreInv, TypeOK, LockRow
<1>3. PICK q : q = [p EXCEPT !.step = "write", !.row = r]
  OBVIOUS
<1>4. q \in Scope /\ q.step = "write" /\ q.row = r /\ Alike(p, q)
  <2>1. "write" \in Steps
    BY DEF Steps
  <2>2. p \in Scope /\ r \in Rows
    BY <1>2
  <2> QED
    BY ONLY <1>3, <2>1, <2>2 DEF Scope, Alike
<1>5. Local(q)
  BY <1>2, <1>4, AlikeLocal DEF Flushing
<1>6. /\ KeepsLocks(s) /\ advisory'[r] = s
      /\ \A y \in (Rows \cup Keys) \ {r} : advisory'[y] = advisory[y]
      /\ UNCHANGED <<rows, keyed, rowLock, category, starts>>
      /\ Becomes(s, q)
  BY <1>1, <1>3, TakesAdvisory DEF LockRow, StoreInv
<1>7. LocksThere'
  BY <1>6 DEF LocksThere, StoreInv, rows
<1>8. Held(s, q)'
  <2>1. KeyHeld(s, q)'
    BY <1>2, <1>4, <1>6 DEF Held, KeyHeld, Local, Alike, keyed
  <2>2. WriteHeld(s, q)'
    <3>1. ASSUME NEW x PROVE /\ Accepts(q, x)' = Accepts(p, x)
                             /\ Merged(q, x)' = Merged(p, x)
      BY <1>4, <1>6 DEF Accepts, Agrees, Merged, Alike, rows
    <3>2. q.done \ q.gone \subseteq Rows /\ q.done = p.done /\ q.gone = p.gone
      BY <1>2, <1>4 DEF Alike, Scope
    <3> QED
      BY <1>2, <1>4, <1>6, <3>1, <3>2
         DEF Held, WriteHeld, Alike, rows
  <2>3. JobHolds(s, q)'
    BY <1>2, <1>4, <1>6 DEF Held, JobHolds, Alike
  <2>4. VersionsRise(q)' /\ ReadHeld(s, q)'
    BY <1>2, <1>4, <1>6 DEF Held, VersionsRise, ReadHeld, Alike, rows
  <2> QED
    BY <2>1, <2>2, <2>3, <2>4 DEF Held
<1> QED
  BY <1>4, <1>5, <1>6, <1>7, <1>8, LockingInv

\* What a scope relies on of its key and its reads, while it keeps its locks.
LEMMA ReadsKept ==
    ASSUME NEW s, NEW p \in Scope, NEW q, Local(p), Held(s, p),
           p.step /= "key",
           q.atomic = p.atomic, q.key = p.key, q.base = p.base,
           q.seen = p.seen, UNCHANGED <<rows, keyed>>,
           \A r \in Rows : rowLock[r] = s => rowLock'[r] = s,
           \A k \in Keys : advisory[k] = s => advisory'[k] = s
    PROVE  KeyHeld(s, q)' /\ VersionsRise(q)' /\ ReadHeld(s, q)'
<1> USE DEF rows, keyed
<1>1. KeyHeld(s, q)'
  BY DEF Held, KeyHeld, Local
<1>2. VersionsRise(q)'
  BY DEF Held, VersionsRise
<1>3. p.seen \subseteq Rows
  BY DEF Scope
<1>4. ReadHeld(s, q)'
  BY <1>3 DEF Held, ReadHeld
<1> QED
  BY <1>1, <1>2, <1>4

\* In the code of the handler nothing is written yet.
LEMMA HandlerHeld ==
    ASSUME NEW s, NEW p \in Scope, NEW q, Local(p), Held(s, p),
           p.step = "run", q.step = "run",
           q.atomic = p.atomic, q.key = p.key, q.done = p.done,
           VersionsRise(q), ReadHeld(s, q)
    PROVE  Held(s, q)
<1>1. q.done = {}
  BY DEF Local, Flushing
<1>2. KeyHeld(s, q) /\ JobHolds(s, q)
  BY DEF Held, KeyHeld, JobHolds
<1>3. WriteHeld(s, q)
  BY <1>1 DEF WriteHeld
<1> QED
  BY <1>2, <1>3 DEF Held

\* A load reads the row under its lock, or one that is not there.
LEMMA LoadInv ==
    ASSUME StoreInv, NEW s \in Scopes, Load(s)
    PROVE  StoreInv'
<1>1. PICK p : p = scope[s]
  OBVIOUS
<1>2. /\ p \in Scope /\ Local(p) /\ Held(s, p) /\ p.step = "load"
      /\ p.done = {} /\ p.row \in Rows
  BY <1>1 DEF StoreInv, TypeOK, Load, Local, Flushing, Scope
<1>3. PICK r : r = p.row
  OBVIOUS
<1>4. PICK row : row = IF db[r].present THEN db[r] ELSE Absent
  OBVIOUS
<1>5. /\ row \in Row /\ (row.present = TRUE \/ row = Absent)
      /\ row.present = TRUE => db[r].present = TRUE /\ db[r] = row
  BY <1>2, <1>3, <1>4, IdleIsScope DEF StoreInv, TypeOK, Row, Absent
<1>6. PICK q : q = Loaded(p)
  OBVIOUS
<1>7. q = [p EXCEPT !.step = "run", !.row = 1, !.seen = p.seen \cup {r},
                    !.loaded = [p.loaded EXCEPT ![r] = row],
                    !.base = [p.base EXCEPT ![r] = row]]
  BY <1>3, <1>4, <1>6 DEF Loaded
<1>8. q \in Scope
  <2>1. /\ "run" \in Steps /\ p.seen \cup {r} \in SUBSET Rows
        /\ [p.loaded EXCEPT ![r] = row] \in [Rows -> Row]
        /\ [p.base EXCEPT ![r] = row] \in [Rows -> Row]
    BY <1>2, <1>3, <1>5 DEF Steps, Scope
  <2> QED
    BY <1>2, <1>7, <2>1, ScopeReads
<1>9. /\ q.step = "run" /\ q.seen = p.seen \cup {r} /\ q.done = {}
      /\ q.loaded = [p.loaded EXCEPT ![r] = row]
      /\ q.base = [p.base EXCEPT ![r] = row]
      /\ q.atomic = p.atomic /\ q.key = p.key /\ q.body = p.body
      /\ q.serial = p.serial /\ q.gone = p.gone
  BY <1>2, <1>7 DEF Scope
<1>10. ASSUME NEW x \in Rows
       PROVE  /\ q.loaded[x] = IF x = r THEN row ELSE p.loaded[x]
              /\ q.base[x] = IF x = r THEN row ELSE p.base[x]
  BY <1>2, <1>9 DEF Scope
<1>11. Local(q)
  BY <1>2, <1>5, <1>9, <1>10 DEF Local, Flushing
<1>12. /\ UNCHANGED <<rows, keyed, advisory, category, starts>>
       /\ Becomes(s, q)
       /\ Free(rowLock[r], s)
       /\ rowLock' = IF p.atomic /\ db[r].present
                       THEN [rowLock EXCEPT ![r] = s] ELSE rowLock
  BY <1>1, <1>3, <1>6 DEF Load
<1>13. /\ KeepsLocks(s)
       /\ \A x \in Rows \ {r} : rowLock'[x] = rowLock[x]
       /\ p.atomic = TRUE /\ db[r].present = TRUE => rowLock'[r] = s
       /\ p.atomic = FALSE => rowLock' = rowLock
       /\ rowLock'[r] /= rowLock[r] => db[r].present = TRUE
  <2>1. p.atomic \in BOOLEAN /\ db[r].present \in BOOLEAN /\ r \in Rows
    BY <1>2, <1>3 DEF Scope, StoreInv, TypeOK, Row
  <2> QED
    BY <1>12, <2>1, NoneAssumption
       DEF KeepsLocks, StoreInv, TypeOK, Free
<1>14. LocksThere'
  BY <1>12, <1>13 DEF LocksThere, StoreInv, rows
<1>15. Held(s, q)'
  <2>1. KeyHeld(s, q)'
    BY <1>2, <1>9, <1>12 DEF Held, KeyHeld, keyed
  <2>2. WriteHeld(s, q)'
    BY <1>9 DEF WriteHeld
  <2>3. JobHolds(s, q)'
    BY <1>2, <1>9, <1>12, <1>13 DEF Held, JobHolds
  <2>4. VersionsRise(q)'
    <3>1. ASSUME NEW x \in q.seen \cap Versioned,
                 q.base[x].present = TRUE, x \notin deleted
          PROVE  /\ db[x].present = TRUE
                 /\ q.base[x].version <= db[x].version
                 /\ q.base[x].version = db[x].version => db[x] = q.base[x]
      <4>1. x \in Rows
        BY <1>8 DEF Scope
      <4>2. CASE x = r
        BY <1>5, <1>10, <3>1, <4>1, <4>2 DEF Row
      <4>3. CASE x /= r
        BY <1>2, <1>9, <1>10, <3>1, <4>1, <4>3 DEF Held, VersionsRise
      <4> QED
        BY <4>2, <4>3
    <3> QED
      BY <1>12, <3>1 DEF VersionsRise, rows
  <2>5. ReadHeld(s, q)'
    <3> SUFFICES ASSUME q.atomic = TRUE, NEW x \in q.seen,
                        q.base[x].present = TRUE
                 PROVE  rowLock'[x] = s /\ db'[x] = q.base[x]
      BY DEF ReadHeld
    <3>1. x \in Rows
      BY <1>8 DEF Scope
    <3>2. CASE x = r
      BY <1>5, <1>9, <1>10, <1>12, <1>13, <3>1, <3>2 DEF rows
    <3>3. CASE x /= r
      BY <1>2, <1>9, <1>10, <1>12, <1>13, <3>1, <3>3
         DEF Held, ReadHeld, rows
    <3> QED
      BY <3>2, <3>3
  <2> QED
    BY <2>1, <2>2, <2>3, <2>4, <2>5 DEF Held
<1> QED
  BY <1>8, <1>11, <1>12, <1>13, <1>14, <1>15, LockingInv

\* A row none of whose fields is edited is as it was.
LEMMA WithoutCells ==
    ASSUME NEW row \in Row, NEW r, NEW cells
    PROVE  /\ WithCells(row, r, cells) \in Row
           /\ WithCells(row, r, cells).present = row.present
           /\ row = Absent /\ (\A f \in Fields : <<r, f>> \notin cells) =>
                WithCells(row, r, cells) = Absent
<1>1. WithCells(row, r, cells) \in Row
  <2>1. PICK v : v = [f \in Fields |->
          IF <<r, f>> \in cells THEN 1 - row.value[f] ELSE row.value[f]]
    OBVIOUS
  <2>2. \A f \in Fields : row.value[f] \in {0, 1}
    BY DEF Row
  <2>3. v \in [Fields -> {0, 1}]
    BY <2>1, <2>2
  <2>4. [row EXCEPT !.value = v] \in Row
    BY <2>3 DEF Row
  <2> QED
    BY <2>1, <2>4 DEF WithCells
<1>2. WithCells(row, r, cells).present = row.present
  BY DEF WithCells, Row
<1>3. ASSUME row = Absent, \A f \in Fields : <<r, f>> \notin cells
      PROVE  WithCells(row, r, cells) = Absent
  <2>1. row.value = [f \in Fields |->
          IF <<r, f>> \in cells THEN 1 - row.value[f] ELSE row.value[f]]
    BY <1>3 DEF Absent
  <2> QED
    BY <1>3, <2>1 DEF WithCells, Absent
<1> QED
  BY <1>1, <1>2, <1>3

\* RowMap.__setitem__: an edit, or a creation, is of the copy only.
LEMMA EditInv ==
    ASSUME StoreInv, NEW s \in Scopes, NEW cells, NEW created,
           Edit(s, cells, created)
    PROVE  StoreInv'
<1>1. PICK p : p = scope[s]
  OBVIOUS
<1>2. /\ p \in Scope /\ Local(p) /\ Held(s, p) /\ p.step = "run"
      /\ p.edits < MaxEdits /\ p.done = {}
  BY <1>1 DEF StoreInv, TypeOK, Edit, MayEdit, Local, Flushing
<1>3. PICK L : L = [r \in Rows |-> IF r \in created THEN Fresh
                                   ELSE WithCells(p.loaded[r], r, cells)]
  OBVIOUS
<1>4. PICK q : q = [p EXCEPT !.edits = p.edits + 1, !.loaded = L]
  OBVIOUS
<1>5. ASSUME NEW r \in Rows
      PROVE  /\ L[r] \in Row
             /\ \/ L[r].present = TRUE
                \/ L[r] = Absent /\ p.base[r] = Absent
  <2>1. p.loaded[r] \in Row /\ p.loaded[r].present \in BOOLEAN
    BY <1>2 DEF Scope, Row
  <2>5. L[r] = IF r \in created THEN Fresh
               ELSE WithCells(p.loaded[r], r, cells)
    BY <1>3
  <2>6. Fresh.present = TRUE
    BY DEF Fresh, Absent
  <2>2. CASE r \in created
    <3>1. L[r] = Fresh
      BY <2>2, <2>5
    <3> QED
      BY ONLY <3>1, <2>6, IdleIsScope
  <2>3. CASE r \notin created /\ p.loaded[r].present = TRUE
    <3>1. L[r] = WithCells(p.loaded[r], r, cells)
      BY <2>3, <2>5
    <3>2. /\ WithCells(p.loaded[r], r, cells) \in Row
          /\ WithCells(p.loaded[r], r, cells).present = TRUE
      BY <2>1, <2>3, WithoutCells
    <3> QED
      BY ONLY <3>1, <3>2
  <2>4. CASE r \notin created /\ p.loaded[r].present = FALSE
    <3>1. p.loaded[r] = Absent /\ p.base[r] = Absent
      BY <1>2, <2>4 DEF Local
    <3>2. \A f \in Fields : <<r, f>> \notin cells
      BY <1>1, <2>4 DEF Edit
    <3> QED
      BY <2>1, <2>4, <2>5, <3>1, <3>2, WithoutCells
  <2> QED
    BY <2>1, <2>2, <2>3, <2>4
<1>6. L \in [Rows -> Row]
  BY <1>3, <1>5
<1>7. q \in Scope
  <2>1. p.edits + 1 \in 0 .. MaxEdits
    BY <1>2, BoundsAssumption DEF Scope
  <2> QED
    BY <1>2, <1>4, <1>6, <2>1, ScopeEdits
<1>8. /\ q.step = "run" /\ q.seen = p.seen /\ q.done = p.done
      /\ q.loaded = L /\ q.base = p.base
      /\ q.atomic = p.atomic /\ q.key = p.key /\ q.body = p.body
      /\ q.serial = p.serial /\ q.gone = p.gone
  BY <1>2, <1>4 DEF Scope
<1>9. Local(q)
  BY <1>2, <1>5, <1>8 DEF Local, Flushing
<1>10. Held(s, q)
  <2>1. VersionsRise(q) /\ ReadHeld(s, q)
    BY <1>2, <1>8 DEF Held, VersionsRise, ReadHeld
  <2> QED
    BY <1>2, <1>8, <2>1, HandlerHeld
<1>11. Becomes(s, q)
  BY <1>1, <1>3, <1>4 DEF Edit
<1> QED
  BY <1>7, <1>9, <1>10, <1>11, QuietInv DEF Edit, StoreInv, TypeOK

\* RowMap.__delitem__: a row that was read is to be deleted.
LEMMA DeleteInv ==
    ASSUME StoreInv, NEW s \in Scopes, NEW r \in Rows, Delete(s, r)
    PROVE  StoreInv'
<1>1. PICK p : p = scope[s]
  OBVIOUS
<1>2. /\ p \in Scope /\ Local(p) /\ Held(s, p) /\ p.step = "run"
      /\ p.edits < MaxEdits /\ p.done = {} /\ r \in p.seen
  BY <1>1 DEF StoreInv, TypeOK, Delete, MayEdit, Local, Flushing
<1>3. PICK q : q = [p EXCEPT !.gone = p.gone \cup {r},
                             !.edits = p.edits + 1]
  OBVIOUS
<1>4. q \in Scope
  <2>1. p.edits + 1 \in 0 .. MaxEdits /\ p.gone \cup {r} \in SUBSET Rows
    BY <1>2, BoundsAssumption DEF Scope
  <2> QED
    BY <1>2, <1>3, <2>1 DEF Scope
<1>5. /\ q.step = "run" /\ q.seen = p.seen /\ q.done = p.done
      /\ q.loaded = p.loaded /\ q.base = p.base
      /\ q.atomic = p.atomic /\ q.key = p.key /\ q.body = p.body
      /\ q.serial = p.serial /\ q.gone = p.gone \cup {r}
  BY <1>2, <1>3 DEF Scope
<1>6. Local(q)
  BY <1>2, <1>5 DEF Local, Flushing
<1>7. Held(s, q)
  <2>1. VersionsRise(q) /\ ReadHeld(s, q)
    BY <1>2, <1>5 DEF Held, VersionsRise, ReadHeld
  <2> QED
    BY <1>2, <1>5, <2>1, HandlerHeld
<1>8. Becomes(s, q)
  BY <1>1, <1>3 DEF Delete
<1> QED
  BY <1>4, <1>6, <1>7, <1>8, QuietInv DEF Delete, StoreInv, TypeOK

\* RowRepository.invalidate: a job forgets a row to read it again.
LEMMA InvalidateInv ==
    ASSUME StoreInv, NEW s \in Scopes, NEW r \in Rows, Invalidate(s, r)
    PROVE  StoreInv'
<1>1. PICK p : p = scope[s]
  OBVIOUS
<1>2. /\ p \in Scope /\ Local(p) /\ Held(s, p) /\ p.step = "run"
      /\ p.edits < MaxEdits /\ p.done = {} /\ r \in p.seen \ p.gone
  BY <1>1 DEF StoreInv, TypeOK, Invalidate, MayEdit, Local, Flushing
<1>3. PICK q : q = [p EXCEPT !.edits = p.edits + 1, !.seen = p.seen \ {r},
                             !.loaded = [p.loaded EXCEPT ![r] = Absent],
                             !.base = [p.base EXCEPT ![r] = Absent]]
  OBVIOUS
<1>4. q \in Scope
  <2>1. /\ p.edits + 1 \in 0 .. MaxEdits /\ p.seen \ {r} \in SUBSET Rows
        /\ [p.loaded EXCEPT ![r] = Absent] \in [Rows -> Row]
        /\ [p.base EXCEPT ![r] = Absent] \in [Rows -> Row]
    BY <1>2, BoundsAssumption, IdleIsScope DEF Scope
  <2> QED
    BY <1>2, <1>3, <2>1, ScopeEdits
<1>5. /\ q.step = "run" /\ q.seen = p.seen \ {r} /\ q.done = p.done
      /\ q.atomic = p.atomic /\ q.key = p.key /\ q.body = p.body
      /\ q.serial = p.serial /\ q.gone = p.gone
  BY <1>2, <1>3 DEF Scope
<1>6. ASSUME NEW x \in Rows
      PROVE  /\ q.loaded[x] = IF x = r THEN Absent ELSE p.loaded[x]
             /\ q.base[x] = IF x = r THEN Absent ELSE p.base[x]
  BY <1>2, <1>3 DEF Scope
<1>7. Local(q)
  BY <1>2, <1>5, <1>6 DEF Local, Flushing
<1>8. Held(s, q)
  <2>1. \A x \in q.seen : x \in p.seen /\ q.base[x] = p.base[x]
    BY <1>2, <1>5, <1>6 DEF Scope
  <2>2. VersionsRise(q) /\ ReadHeld(s, q)
    BY <1>2, <1>5, <2>1 DEF Held, VersionsRise, ReadHeld
  <2> QED
    BY <1>2, <1>5, <2>2, HandlerHeld
<1>9. Becomes(s, q)
  BY <1>1, <1>3 DEF Invalidate
<1> QED
  BY <1>4, <1>7, <1>8, <1>9, QuietInv DEF Invalidate, StoreInv, TypeOK

\* What going on to the next row leaves a scope to be, at once or when the
\* row has its categories.
LEMMA DoneIs ==
    ASSUME NEW p \in Scope, NEW row \in Row, NEW q,
           q \in {Done(p, row), Encoding(p, row)}
    PROVE  /\ q \in Scope /\ q.step \in {"lock", "category"}
           /\ q.done = p.done \cup {p.row} /\ q.written[p.row] = row
           /\ \A r \in Rows \ {p.row} : q.written[r] = p.written[r]
           /\ q.loaded = p.loaded /\ q.base = p.base
           /\ q.atomic = p.atomic /\ q.key = p.key /\ q.body = p.body
           /\ q.serial = p.serial /\ q.seen = p.seen /\ q.gone = p.gone
<1>1. /\ p.done \cup {p.row} \in SUBSET Rows /\ p.row \in Rows
      /\ [p.written EXCEPT ![p.row] = row] \in [Rows -> Row]
  BY DEF Scope
<1>2. PICK d : d = Done(p, row)
  OBVIOUS
<1>3. d \in Scope
  BY <1>1, <1>2, ScopeWrites DEF Done
<1>4. /\ d.step = "lock" /\ d.done = p.done \cup {p.row}
      /\ d.written = [p.written EXCEPT ![p.row] = row]
      /\ d.loaded = p.loaded /\ d.base = p.base
      /\ d.atomic = p.atomic /\ d.key = p.key /\ d.body = p.body
      /\ d.serial = p.serial /\ d.seen = p.seen /\ d.gone = p.gone
  BY <1>2 DEF Done, Scope
<1>5. /\ d.written[p.row] = row
      /\ \A r \in Rows \ {p.row} : d.written[r] = p.written[r]
  BY <1>1, <1>4 DEF Scope
<1>6. CASE q = d
  BY <1>3, <1>4, <1>5, <1>6
<1>7. CASE q = Encoding(p, row)
  <2>1. q = [d EXCEPT !.step = "category", !.row = p.row]
    BY <1>2, <1>7 DEF Encoding
  <2>2. "category" \in Steps
    BY DEF Steps
  <2>3. q \in Scope /\ q.step = "category" /\ Alike(d, q)
    BY ONLY <1>1, <1>3, <2>1, <2>2 DEF Scope, Alike
  <2> QED
    BY <1>4, <1>5, <2>3 DEF Alike
<1> QED
  BY <1>2, <1>6, <1>7

\* What a flush writes is a row that is there.
LEMMA MergedIsRow ==
    ASSUME TypeOK, NEW p \in Scope, NEW r \in Rows, Local(p),
           r \in Changed(p)
    PROVE  Merged(p, r) \in Row /\ Merged(p, r).present = TRUE
<1>1. /\ p.loaded[r] \in Row /\ db[r] \in Row /\ p.loaded[r].present = TRUE
  BY DEF TypeOK, Scope, Local, Changed
<1>2. CASE r \in Versioned
  BY <1>1, <1>2 DEF Merged, Row
<1>3. CASE r \notin Versioned
  <2>1. PICK v : v = [f \in Fields |->
          IF p.loaded[r].value[f] = p.base[r].value[f] /\ db[r].present
            THEN db[r].value[f] ELSE p.loaded[r].value[f]]
    OBVIOUS
  <2>2. v \in [Fields -> {0, 1}]
    BY <1>1, <2>1 DEF Row
  <2>3. /\ [p.loaded[r] EXCEPT !.value = v] \in Row
        /\ [p.loaded[r] EXCEPT !.value = v].present = TRUE
    BY <1>1, <2>2 DEF Row
  <2> QED
    BY <1>3, <2>1, <2>3 DEF Merged
<1> QED
  BY <1>2, <1>3

\* A row is written if it is still one the scope accepts, and merged.
LEMMA WriteInv ==
    ASSUME StoreInv, NEW s \in Scopes, Write(s)
    PROVE  StoreInv'
<1>1. PICK p : p = scope[s]
  OBVIOUS
<1>2. PICK r : r = p.row
  OBVIOUS
<1>3. /\ p \in Scope /\ Local(p) /\ Held(s, p) /\ p.step = "write"
      /\ r \in Rows /\ r \in Pending(p) /\ TypeOK
  BY <1>1, <1>2 DEF StoreInv, TypeOK, Write, Local, Scope
<1>4. PICK row : row = Merged(p, r)
  OBVIOUS
<1>5. r \in Changed(p) \ p.done /\ r \notin p.gone /\ row \in Row
  BY <1>3, <1>4, MergedIsRow DEF Pending, Changed
<1>6. PICK q \in {Done(p, row), Encoding(p, row)} : Becomes(s, q)
  BY <1>1, <1>2, <1>4 DEF Write
<1>7. /\ q \in Scope /\ q.step \in {"lock", "category"}
      /\ q.done = p.done \cup {r}
      /\ q.written[r] = row
      /\ \A x \in Rows \ {r} : q.written[x] = p.written[x]
      /\ q.loaded = p.loaded /\ q.base = p.base
      /\ q.atomic = p.atomic /\ q.key = p.key /\ q.body = p.body
      /\ q.serial = p.serial /\ q.seen = p.seen /\ q.gone = p.gone
  BY <1>2, <1>3, <1>5, DoneIs
<1>8. /\ UNCHANGED <<rows, keyed, advisory, category, starts>>
      /\ Free(rowLock[r], s) /\ LockIfThere(s, r) /\ Accepts(p, r)
  BY <1>1, <1>2 DEF Write
<1>9. /\ KeepsLocks(s)
      /\ \A x \in Rows \ {r} : rowLock'[x] = rowLock[x]
      /\ rowLock'[r] = IF db[r].present THEN s ELSE rowLock[r]
  BY <1>3, <1>8, TakesRow
<1>10. LocksThere'
  BY <1>3, <1>8, <1>9 DEF LocksThere, StoreInv, rows, TypeOK, Row
<1>11. Local(q)
  <2>1. Changed(q) = Changed(p)
    BY <1>7 DEF Changed
  <2>2. ASSUME NEW x \in q.done \ q.gone
        PROVE  /\ x \in Changed(q)
               /\ \A y \in Changed(q) \ q.done : x < y
    <3>1. Changed(p) \subseteq Rows
      BY <1>3 DEF Changed, Scope
    <3>2. CASE x = r
      BY <1>3, <1>5, <1>7, <2>1, <3>1, <3>2 DEF Pending, Rows
    <3>3. CASE x /= r
      BY <1>3, <1>7, <2>1, <3>3 DEF Local
    <3> QED
      BY <3>2, <3>3
  <2>3. \A x \in q.done \cap q.gone : q.written[x] = Absent
    BY <1>3, <1>5, <1>7 DEF Local, Scope
  <2> QED
    BY <1>3, <1>7, <2>2, <2>3 DEF Local, Flushing
<1>12. Held(s, q)'
  <2>1. KeyHeld(s, q)' /\ VersionsRise(q)' /\ ReadHeld(s, q)'
    <3>1. \A x \in Rows : rowLock[x] = s => rowLock'[x] = s
      BY <1>9
    <3> QED
      BY <1>3, <1>7, <1>8, <3>1, ReadsKept
  <2>2. WriteHeld(s, q)'
    <3>1. ASSUME NEW x PROVE /\ Accepts(q, x)' = Accepts(p, x)
                             /\ Merged(q, x)' = Merged(p, x)
      BY <1>7, <1>8 DEF Accepts, Agrees, Merged, rows
    <3>2. ASSUME NEW x \in q.done \ q.gone
          PROVE  /\ advisory'[x] = s
                 /\ db'[x].present = TRUE => rowLock'[x] = s
                 /\ Accepts(q, x)' /\ q.written[x] = Merged(q, x)'
      <4>1. CASE x = r
        BY <1>3, <1>2, <1>4, <1>7, <1>8, <1>9, <3>1, <4>1
           DEF Held, WriteHeld, rows
      <4>2. CASE x /= r
        <5>1. x \in p.done \ p.gone /\ x \in Rows
          BY <1>3, <1>7, <4>2 DEF Scope
        <5> QED
          BY <1>3, <1>7, <1>8, <1>9, <3>1, <4>2, <5>1
             DEF Held, WriteHeld, rows
      <4> QED
        BY <4>1, <4>2
    <3> QED
      BY <1>7, <3>2 DEF WriteHeld
  <2>3. JobHolds(s, q)'
    <3>1. \A x \in Rows : rowLock'[x] = s => rowLock[x] = s \/ x = r
      BY <1>9
    <3> QED
      BY <1>2, <1>3, <1>7, <1>8, <3>1 DEF Held, JobHolds
  <2> QED
    BY <2>1, <2>2, <2>3 DEF Held
<1> QED
  BY <1>6, <1>7, <1>8, <1>9, <1>10, <1>11, <1>12, LockingInv

\* _category_id: the lock of a category is nothing a scope relies on.
LEMMA TakeCategoryInv ==
    ASSUME StoreInv, NEW s \in Scopes, TakeCategory(s)
    PROVE  StoreInv'
<1>1. PICK p : p = scope[s]
  OBVIOUS
<1>2. p \in Scope /\ Local(p) /\ Held(s, p) /\ p.step = "category"
  BY <1>1 DEF StoreInv, TypeOK, TakeCategory
<1>3. PICK q \in {p, [p EXCEPT !.step = "lock", !.row = 1]} : Becomes(s, q)
  BY <1>1 DEF TakeCategory
<1>4. /\ q \in Scope /\ q.step \in {"lock", "category"} /\ Alike(p, q)
  <2>1. CASE q = p
    BY <1>2, <2>1 DEF Alike
  <2>2. CASE q = [p EXCEPT !.step = "lock", !.row = 1]
    <3>1. "lock" \in Steps /\ 1 \in Rows
      BY RowsAssumption DEF Steps, Rows
    <3>2. p \in Scope
      BY <1>2
    <3> QED
      BY ONLY <2>2, <3>1, <3>2 DEF Scope, Alike
  <2> QED
    BY <2>1, <2>2
<1>5. Local(q) /\ Held(s, q)
  BY <1>2, <1>4, AlikeLocal, AlikeHeld DEF Flushing
<1>6. UNCHANGED <<rows, keyed, rowLock, advisory, starts>>
  BY DEF TakeCategory
<1>7. KeepsLocks(s)
  <2>1. category' \in [Categories -> Scopes \cup {None}]
    BY DEF TakeCategory, StoreInv, TypeOK
  <2> QED
    BY <1>6, <2>1 DEF KeepsLocks, StoreInv, TypeOK
<1>8. LocksThere'
  BY <1>6 DEF LocksThere, StoreInv, rows
<1>9. Held(s, q)'
  <2>1. ASSUME NEW r PROVE /\ Accepts(q, r)' = Accepts(q, r)
                           /\ Merged(q, r)' = Merged(q, r)
    BY <1>6 DEF Accepts, Agrees, Merged, rows
  <2> QED
    BY <1>5, <1>6, <2>1 DEF Held, KeyHeld, WriteHeld, JobHolds,
       VersionsRise, ReadHeld, rows, keyed
<1> QED
  BY <1>3, <1>4, <1>5, <1>6, <1>7, <1>8, <1>9, LockingInv

\* delete_relational: a row is deleted, or found to be gone.
LEMMA DeleteRowInv ==
    ASSUME StoreInv, NEW s \in Scopes, DeleteRow(s)
    PROVE  StoreInv'
<1>1. PICK p : p = scope[s]
  OBVIOUS
<1>2. PICK r : r = p.row
  OBVIOUS
<1>3. /\ p \in Scope /\ Local(p) /\ Held(s, p) /\ p.step = "delete"
      /\ r \in Rows /\ r \in p.gone \ p.done /\ TypeOK
  BY <1>1, <1>2 DEF StoreInv, TypeOK, DeleteRow, Local, Scope
<1>4. PICK q : q = Done(p, Absent)
  OBVIOUS
<1>5. /\ q \in Scope /\ q.step \in {"lock", "category"}
      /\ q.done = p.done \cup {r}
      /\ q.written[r] = Absent
      /\ \A x \in Rows \ {r} : q.written[x] = p.written[x]
      /\ q.loaded = p.loaded /\ q.base = p.base
      /\ q.atomic = p.atomic /\ q.key = p.key /\ q.body = p.body
      /\ q.serial = p.serial /\ q.seen = p.seen /\ q.gone = p.gone
  BY <1>2, <1>3, <1>4, DoneIs, IdleIsScope
<1>6. /\ UNCHANGED <<rows, keyed, advisory, category, starts>>
      /\ Becomes(s, q)
      /\ Free(rowLock[r], s) /\ LockIfThere(s, r)
  BY <1>1, <1>2, <1>4 DEF DeleteRow
<1>7. /\ KeepsLocks(s)
      /\ \A x \in Rows \ {r} : rowLock'[x] = rowLock[x]
      /\ rowLock'[r] = IF db[r].present THEN s ELSE rowLock[r]
  BY <1>3, <1>6, TakesRow
<1>8. LocksThere'
  BY <1>3, <1>6, <1>7 DEF LocksThere, StoreInv, rows, TypeOK, Row
<1>9. /\ q.done \ q.gone = p.done \ p.gone /\ q.done \ q.gone \subseteq Rows
      /\ \A x \in q.done \ q.gone : q.written[x] = p.written[x]
  BY <1>3, <1>5 DEF Scope
<1>10. Local(q)
  <2>1. Changed(q) = Changed(p) /\ r \notin Changed(p)
    BY <1>3, <1>5 DEF Changed
  <2>2. \A x \in q.done \cap q.gone : q.written[x] = Absent
    BY <1>3, <1>5 DEF Local, Scope
  <2> QED
    BY <1>3, <1>5, <1>9, <2>1, <2>2 DEF Local, Flushing
<1>11. Held(s, q)'
  <2>1. KeyHeld(s, q)' /\ VersionsRise(q)' /\ ReadHeld(s, q)'
    <3>1. \A x \in Rows : rowLock[x] = s => rowLock'[x] = s
      BY <1>7
    <3> QED
      BY <1>3, <1>5, <1>6, <3>1, ReadsKept
  <2>2. WriteHeld(s, q)'
    <3>1. ASSUME NEW x PROVE /\ Accepts(q, x)' = Accepts(p, x)
                             /\ Merged(q, x)' = Merged(p, x)
      BY <1>5, <1>6 DEF Accepts, Agrees, Merged, rows
    <3>2. ASSUME NEW x \in q.done \ q.gone
          PROVE  /\ advisory'[x] = s
                 /\ db'[x].present = TRUE => rowLock'[x] = s
                 /\ Accepts(q, x)' /\ q.written[x] = Merged(q, x)'
      <4>1. x \in p.done \ p.gone /\ x \in Rows /\ x /= r
        BY <1>3, <1>9
      <4> QED
        BY <1>3, <1>6, <1>7, <1>9, <3>1, <4>1
           DEF Held, WriteHeld, rows
    <3> QED
      BY <1>5, <3>2 DEF WriteHeld
  <2>3. JobHolds(s, q)'
    <3>1. \A x \in Rows : rowLock'[x] = s => rowLock[x] = s \/ x = r
      BY <1>7
    <3> QED
      BY <1>3, <1>5, <1>6, <3>1 DEF Held, JobHolds
  <2> QED
    BY <2>1, <2>2, <2>3 DEF Held
<1> QED
  BY <1>5, <1>6, <1>7, <1>8, <1>10, <1>11, LockingInv

\* A job that holds no lock relies on what it has read only.
LEMMA JobHeld ==
    ASSUME NEW s \in Scopes, NEW q, q.atomic = FALSE, q.step = "run",
           q.done = {}, VersionsRise(q)',
           \A r \in Rows : rowLock'[r] /= s,
           \A x \in Rows \cup Keys : advisory'[x] /= s
    PROVE  Held(s, q)'
<1>1. KeyHeld(s, q)' /\ WriteHeld(s, q)' /\ ReadHeld(s, q)'
  BY DEF KeyHeld, WriteHeld, ReadHeld
<1>2. JobHolds(s, q)'
  BY DEF JobHolds
<1> QED
  BY <1>1, <1>2 DEF Held

\* A conflict ends a request, and takes a job back to before its flush.
LEMMA ConflictInv ==
    ASSUME StoreInv, NEW s \in Scopes, Conflict(s)
    PROVE  StoreInv'
<1>1. CASE End(s)
  BY <1>1, EndInv
<1>2. CASE /\ ~scope[s].atomic /\ Becomes(s, RolledBack(scope[s]))
           /\ Release(s) /\ UNCHANGED <<rows, keyed, starts>>
  <2>1. PICK p : p = scope[s]
    OBVIOUS
  <2>2. p \in Scope /\ Local(p) /\ Held(s, p) /\ p.atomic = FALSE /\ TypeOK
    BY <1>2, <2>1 DEF StoreInv, TypeOK, Scope
  <2>3. PICK q : q = RolledBack(p)
    OBVIOUS
  <2>4. q \in Scope
    <3>1. /\ {r \in p.seen : p.base[r].present} \in SUBSET Rows
          /\ p.base \in [Rows -> Row]
      BY <2>2 DEF Scope
    <3> QED
      BY <2>2, <2>3, <3>1, ScopeContinues DEF RolledBack
  <2>5. /\ q.step = "run" /\ q.seen = {r \in p.seen : p.base[r].present}
        /\ q.loaded = p.base /\ q.base = p.base /\ q.gone = {}
        /\ q.done = {} /\ q.atomic = p.atomic
    BY <2>2, <2>3 DEF RolledBack, Scope
  <2>6. Local(q)
    BY <2>2, <2>5 DEF Local, Flushing
  <2>7. /\ KeepsLocks(s)
        /\ \A r \in Rows : /\ rowLock'[r] /= s
                           /\ rowLock'[r] /= None => rowLock'[r] = rowLock[r]
        /\ \A x \in Rows \cup Keys : advisory'[x] /= s
    BY <1>2, <2>2, Releases
  <2>8. LocksThere'
    BY <1>2, <2>7 DEF rows, StoreInv, LocksThere
  <2>9. VersionsRise(q)'
    BY <1>2, <2>2, <2>5 DEF Held, VersionsRise, rows
  <2>10. Held(s, q)'
    BY <2>2, <2>5, <2>7, <2>9, JobHeld
  <2> QED
    BY <1>2, <2>1, <2>3, <2>4, <2>6, <2>7, <2>8, <2>10, LockingInv
<1> QED
  BY <1>1, <1>2 DEF Conflict

\* A commit writes rows, and leaves them to the others as they know them.
LEMMA Commits ==
    ASSUME StoreInv, NEW s \in Scopes, Flushed(s), Written(s), Release(s)
    PROVE  /\ RowsStep(s) /\ KeepsLocks(s) /\ LocksThere'
           /\ deleted' \subseteq Rows
           /\ \A r \in Rows : rowLock'[r] /= s
           /\ \A x \in Rows \cup Keys : advisory'[x] /= s
<1>1. TypeOK /\ scope[s] \in Scope
  BY DEF StoreInv, TypeOK
<1>2. /\ KeepsLocks(s)
      /\ \A r \in Rows : /\ rowLock'[r] /= s
                         /\ rowLock'[r] /= None => rowLock'[r] = rowLock[r]
      /\ \A x \in Rows \cup Keys : advisory'[x] /= s
  BY <1>1, Releases
<1>3. RowsStep(s)
  BY <1>1 DEF RowsStep, Flushed, Written, TypeOK, Scope
<1>4. deleted' \subseteq Rows
  BY <1>1 DEF Written, TypeOK, Scope
<1>5. LocksThere'
  <2> SUFFICES ASSUME NEW r \in Rows, rowLock'[r] /= None
               PROVE  db'[r].present = TRUE
    BY DEF LocksThere
  <2>1. rowLock[r] = rowLock'[r] /\ rowLock[r] /= s
    BY <1>2
  <2>2. rowLock[r] \in Scopes \ {s}
    BY <1>1, <2>1 DEF TypeOK
  <2>3. db'[r] = db[r]
    BY <1>3, <2>2, OthersRows
  <2> QED
    BY <2>1, <2>3 DEF StoreInv, LocksThere
<1> QED
  BY <1>2, <1>3, <1>4, <1>5

\* A request commits its rows and the outcome of its key together.
LEMMA CommitRequestInv ==
    ASSUME StoreInv, NEW s \in Scopes, CommitRequest(s)
    PROVE  StoreInv'
<1>1. PICK p : p = scope[s]
  OBVIOUS
<1>2. /\ p \in Scope /\ Local(p) /\ Held(s, p) /\ p.atomic = TRUE
      /\ p.step = "lock"
  BY <1>1 DEF StoreInv, TypeOK, CommitRequest, Flushed, Scope
<1>3. /\ RowsStep(s) /\ KeepsLocks(s) /\ LocksThere'
      /\ deleted' \subseteq Rows
      /\ \A r \in Rows : rowLock'[r] /= s
      /\ \A x \in Rows \cup Keys : advisory'[x] /= s
  BY Commits DEF CommitRequest
<1>4. PICK o : o = Outcome(p)
  OBVIOUS
<1>5. /\ o \in Outcomes /\ o.key = p.key /\ p.key \in Keys
      /\ record[p.key] = None
  BY <1>2, <1>4 DEF Local, Held, KeyHeld, Outcome, Outcomes
<1>6. /\ outcomes' = outcomes \cup {o}
      /\ record' = [record EXCEPT ![p.key] = o]
      /\ starts' = starts /\ Becomes(s, Idle)
  BY <1>1, <1>4 DEF CommitRequest
<1>7. RecordStep(s)
  BY <1>1, <1>2, <1>4, <1>6 DEF RecordStep
<1>8. /\ record' \in [Keys -> Outcomes \cup {None}]
      /\ outcomes' \subseteq Outcomes /\ starts' \in 0 .. MaxStarts
  BY <1>5, <1>6 DEF StoreInv, TypeOK
<1>9. Recorded'
  <2>1. \A x \in outcomes : x.key /= p.key /\ x.key \in Keys
    BY <1>5, NoneAssumption DEF StoreInv, TypeOK, Recorded, Outcomes
  <2> QED
    BY <1>5, <1>6, <2>1, NoneAssumption DEF StoreInv, TypeOK, Recorded
<1> QED
  BY <1>3, <1>6, <1>7, <1>8, <1>9, IdleHolds, IdleIsScope, StepInv

\* A job commits one flush and goes on with what it has written.
LEMMA CommitJobInv ==
    ASSUME StoreInv, NEW s \in Scopes, CommitJob(s)
    PROVE  StoreInv'
<1>1. PICK p : p = scope[s]
  OBVIOUS
<1>2. /\ p \in Scope /\ Local(p) /\ Held(s, p) /\ p.atomic = FALSE
  BY <1>1 DEF StoreInv, TypeOK, CommitJob, Scope
<1>3. /\ RowsStep(s) /\ KeepsLocks(s) /\ LocksThere'
      /\ deleted' \subseteq Rows
      /\ \A r \in Rows : rowLock'[r] /= s
      /\ \A x \in Rows \cup Keys : advisory'[x] /= s
  BY Commits DEF CommitJob
<1>4. PICK L : L = Kept(p, p.loaded)
  OBVIOUS
<1>5. PICK B : B = Kept(p, p.base)
  OBVIOUS
<1>6. PICK q : q = Continued(p)
  OBVIOUS
<1>7. ASSUME NEW r \in Rows
      PROVE  /\ L[r] = IF r \in p.done THEN p.written[r] ELSE p.loaded[r]
             /\ B[r] = IF r \in p.done THEN p.written[r] ELSE p.base[r]
  BY <1>4, <1>5 DEF Kept
<1>8. L \in [Rows -> Row] /\ B \in [Rows -> Row]
  BY <1>2, <1>4, <1>5 DEF Kept, Scope
<1>9. q \in Scope
  <2>1. p.seen \ p.gone \in SUBSET Rows
    BY <1>2 DEF Scope
  <2> QED
    BY <1>2, <1>4, <1>5, <1>6, <1>8, <2>1, ScopeContinues DEF Continued
<1>10. /\ q.step = "run" /\ q.seen = p.seen \ p.gone /\ q.gone = {}
       /\ q.loaded = L /\ q.base = B /\ q.done = {} /\ q.atomic = FALSE
  BY <1>2, <1>4, <1>5, <1>6 DEF Continued, Scope
<1>11. ASSUME NEW r \in p.done, r \notin p.gone
       PROVE  /\ Takes(s, r) /\ p.written[r].present = TRUE
              /\ db'[r] = p.written[r] /\ p.written[r] \in Row
  <2>1. r \in Rows /\ p.written[r] \in Row
    BY <1>2 DEF Scope
  <2>2. Takes(s, r)
    BY <1>1, <1>11 DEF Takes
  <2>3. p.written[r].present = TRUE
    BY <1>1, <1>11, <2>1, <2>2, TakenRow
  <2>4. db'[r] = p.written[r]
    BY <1>1, <2>1, <2>2 DEF CommitJob, Written
  <2> QED
    BY <2>1, <2>2, <2>3, <2>4
<1>12. ASSUME NEW r \in p.done, r \in p.gone
       PROVE  p.written[r] = Absent
  BY <1>2, <1>12 DEF Local
<1>13. Local(q)
  <2>1. ASSUME NEW r \in Rows
        PROVE  /\ \/ L[r].present = TRUE
                  \/ L[r] = Absent /\ B[r] = Absent
               /\ B[r].present = TRUE \/ B[r] = Absent
    <3>1. CASE r \notin p.done
      BY <1>2, <1>7, <3>1 DEF Local
    <3>2. CASE r \in p.done
      BY <1>7, <1>11, <1>12, <3>2
    <3> QED
      BY <3>1, <3>2
  <2> QED
    BY <1>10, <2>1 DEF Local, Flushing
<1>14. VersionsRise(q)'
  <2> SUFFICES ASSUME NEW r \in q.seen \cap Versioned,
                      q.base[r].present = TRUE, r \notin deleted'
               PROVE  /\ db'[r].present = TRUE
                      /\ q.base[r].version <= db'[r].version
                      /\ q.base[r].version = db'[r].version =>
                            db'[r] = q.base[r]
    BY DEF VersionsRise
  <2>1. r \in Rows /\ r \in p.seen /\ r \notin p.gone
    BY <1>9, <1>10 DEF Scope
  <2>2. CASE r \in p.done
    <3>1. /\ q.base[r] = db'[r] /\ db'[r] \in Row
          /\ db'[r].present = TRUE
      BY <1>7, <1>10, <1>11, <2>1, <2>2
    <3>2. db'[r].version \in Nat
      BY <3>1 DEF Row
    <3> QED
      BY <3>1, <3>2
  <2>3. CASE r \notin p.done
    <3>1. db'[r] = db[r] /\ r \notin deleted
      BY <1>1, <2>1, <2>3 DEF CommitJob, Written, Takes
    <3> QED
      BY <1>2, <1>7, <1>10, <2>1, <2>3, <3>1 DEF Held, VersionsRise
  <2> QED
    BY <2>2, <2>3
<1>15. Held(s, q)'
  BY <1>3, <1>10, <1>14, JobHeld
<1>16. /\ RecordStep(s) /\ Recorded' /\ Becomes(s, q)
       /\ record' \in [Keys -> Outcomes \cup {None}]
       /\ outcomes' \subseteq Outcomes /\ starts' \in 0 .. MaxStarts
  BY <1>1, <1>6
     DEF CommitJob, keyed, RecordStep, StoreInv, TypeOK, Recorded
<1> QED
  BY <1>3, <1>9, <1>13, <1>15, <1>16, StepInv

\* No step of a scope, a crash or a refusal breaks the invariant.
LEMMA NextStoreInv == StoreInv /\ [Next]_vars => StoreInv'
<1> SUFFICES ASSUME StoreInv, [Next]_vars PROVE StoreInv'
  OBVIOUS
<1>1. ASSUME NEW s \in Scopes, Handle(s) PROVE StoreInv'
  BY <1>1, StartLoadInv, DeleteInv, InvalidateInv, EditInv DEF Handle
<1>2. ASSUME NEW s \in Scopes, Proceed(s) PROVE StoreInv'
  BY <1>2, TakeKeyInv, LoadInv, StartFlushInv, LockRowInv, StartDeleteInv,
     WriteInv, TakeCategoryInv, ConflictInv, DeleteRowInv, CommitRequestInv, CommitJobInv,
     EndInv DEF Proceed, FinishJob, Victim
<1>3. ASSUME NEW s \in Scopes, Timeout(s) \/ Crash(s) PROVE StoreInv'
  BY <1>3, EndInv DEF Timeout, Crash
<1>4. CASE UNCHANGED vars
  <2>1. ASSUME NEW u \in Scopes PROVE Held(u, scope[u])'
    <3>1. PICK q : q = scope[u]
      OBVIOUS
    <3>2. Held(u, q)
      BY <3>1 DEF StoreInv
    <3>3. ASSUME NEW r PROVE /\ Accepts(q, r)' = Accepts(q, r)
                             /\ Merged(q, r)' = Merged(q, r)
      BY <1>4 DEF Accepts, Agrees, Merged, vars, rows
    <3>4. Held(u, q)'
      BY <1>4, <3>2, <3>3 DEF Held, KeyHeld, WriteHeld, JobHolds,
         VersionsRise, ReadHeld, vars, rows, keyed, locks
    <3> QED
      BY <1>4, <3>1, <3>4, HeldSame DEF vars
  <2> QED
    BY <1>4, <2>1 DEF StoreInv, TypeOK, Recorded, LocksThere, vars, rows,
       keyed, locks
<1> QED
  BY <1>1, <1>2, <1>3, <1>4, StartRequestInv, StartJobInv DEF Next

\* The invariant of the repository holds in every reachable state.
LEMMA StoreInvariant == Spec => []StoreInv
BY InitStoreInv, NextStoreInv, PTL DEF Spec

-----------------------------------------------------------------------------
\* The theorems.

(* Every variable has its type: a scope is always one of the records that  *)
(* a request or a job can be, and a lock has at most one holder.           *)
THEOREM RowTypes == Spec => []TypeOK
<1>1. StoreInv => TypeOK
  BY DEF StoreInv
<1> QED
  BY <1>1, StoreInvariant, PTL

(* request_once gives one result under an Idempotency-Key, whoever asks,   *)
(* however often and wherever a request was interrupted.                   *)
THEOREM OneOutcomePerKey == Spec => []OneOutcome
<1>1. StoreInv => OneOutcome
  BY DEF StoreInv, Recorded, OneOutcome
<1> QED
  BY <1>1, StoreInvariant, PTL

(* The rows a request has loaded stay as it has read them until it ends:   *)
(* the locks it took when it loaded them keep every other flush away.      *)
THEOREM ReadsHold == Spec => []RequestReadsHold
<1>1. StoreInv => RequestReadsHold
  <2> SUFFICES ASSUME StoreInv, NEW s \in Scopes, scope[s].atomic,
                      NEW r \in scope[s].seen, scope[s].base[r].present
               PROVE  db[r] = scope[s].base[r]
    BY DEF RequestReadsHold
  <2>1. scope[s] \in Scope /\ ReadHeld(s, scope[s])
    BY DEF StoreInv, TypeOK, Held
  <2>2. scope[s].atomic = TRUE /\ scope[s].base[r].present = TRUE
    BY <2>1 DEF Scope, Row
  <2> QED
    BY <2>1, <2>2 DEF ReadHeld
<1> QED
  BY <1>1, StoreInvariant, PTL

\* What a commit changes in a row, the scope had read as it was.
LEMMA ChangesAreRead ==
    ASSUME StoreInv, NEW s \in Scopes, Written(s),
           NEW r \in Rows \ (Versioned \cap deleted), NEW f \in Fields,
           db[r].present = TRUE, db'[r].present = TRUE,
           db'[r].value[f] /= db[r].value[f]
    PROVE  scope[s].base[r].value[f] = db[r].value[f]
<1>1. PICK q : q = scope[s]
  OBVIOUS
<1>2. q \in Scope /\ TypeOK /\ VersionsRise(q)
  BY <1>1 DEF StoreInv, TypeOK, Held
<1>3. Takes(s, r) /\ db'[r] = q.written[r]
  BY <1>1 DEF Written
<1>t. /\ r \in q.gone => q.written[r] = Absent
      /\ r \notin q.gone =>
            r \in Changed(q) /\ Accepts(q, r) /\ q.written[r] = Merged(q, r)
  <2>1. StoreInv /\ s \in Scopes /\ r \in Rows /\ Takes(s, r)
    BY <1>3
  <2>2. /\ r \in scope[s].gone => scope[s].written[r] = Absent
        /\ r \notin scope[s].gone =>
              /\ r \in Changed(scope[s]) /\ Accepts(scope[s], r)
              /\ scope[s].written[r] = Merged(scope[s], r)
    BY ONLY <2>1, TakenRow
  <2> QED
    BY ONLY <2>2, <1>1
<1>4. r \notin q.gone
  <2>1. Absent.present = FALSE
    BY DEF Absent
  <2> QED
    BY <1>3, <1>t, <2>1
<1>5. /\ r \in Changed(q) /\ Accepts(q, r) /\ q.written[r] = Merged(q, r)
  BY ONLY <1>4, <1>t
<1>6. /\ q.loaded[r] \in Row /\ q.base[r] \in Row /\ db[r] \in Row
      /\ r \in q.seen
  BY <1>2, <1>5 DEF Scope, TypeOK, Changed
<1>7. CASE r \in Versioned
  <2>1. Merged(q, r).value = q.loaded[r].value
    BY <1>6, <1>7 DEF Merged, Row
  <2>2. db[r] /= q.loaded[r]
    BY <1>3, <1>5, <2>1
  <2>3. /\ q.base[r].present = TRUE
        /\ db[r].version = q.base[r].version
    BY <1>5, <1>6, <1>7, <2>2 DEF Accepts, Row
  <2> QED
    BY <1>1, <1>2, <1>6, <1>7, <2>3 DEF VersionsRise
<1>8. CASE r \notin Versioned
  <2>1. Merged(q, r).value[f] =
          IF q.loaded[r].value[f] = q.base[r].value[f] /\ db[r].present
            THEN db[r].value[f] ELSE q.loaded[r].value[f]
    BY <1>6, <1>8 DEF Merged, Row
  <2>2. /\ q.loaded[r].value[f] /= q.base[r].value[f]
        /\ db[r].value[f] /= q.loaded[r].value[f]
    BY <1>3, <1>5, <2>1
  <2>3. q.base[r].present = TRUE /\ Agrees(q, r, f)
    BY <1>5, <1>6, <1>8, <2>2 DEF Accepts, Row
  <2> QED
    BY <1>1, <2>2, <2>3 DEF Agrees
<1> QED
  BY <1>7, <1>8

(* No commit overwrites what another scope has written since the row was   *)
(* read, but for an entity that was deleted and made anew meanwhile: rows  *)
(* are locked from the load on, refused, or merged field by field (flush). *)
THEOREM NoUpdateLost == Spec => NoLostUpdate
<1>1. StoreInv /\ [Next]_vars =>
        [\A s \in Scopes : CommitRequest(s) \/ CommitJob(s) =>
           \A r \in Rows \ (Versioned \cap deleted), f \in Fields :
             db[r].present /\ db'[r].present
               /\ db'[r].value[f] /= db[r].value[f]
               => scope[s].base[r].value[f] = db[r].value[f]]_vars
  <2> SUFFICES ASSUME StoreInv, StoreInv', NEW s \in Scopes,
                      CommitRequest(s) \/ CommitJob(s),
                      NEW r \in Rows \ (Versioned \cap deleted),
                      NEW f \in Fields,
                      db[r].present, db'[r].present,
                      db'[r].value[f] /= db[r].value[f]
               PROVE  scope[s].base[r].value[f] = db[r].value[f]
    BY NextStoreInv
  <2>1. Written(s)
    BY DEF CommitRequest, CommitJob
  <2>2. db[r] \in Row /\ db'[r] \in Row
    BY DEF StoreInv, TypeOK
  <2>3. db[r].present = TRUE /\ db'[r].present = TRUE
    BY <2>2 DEF Row
  <2> QED
    BY <2>1, <2>3, ChangesAreRead
<1> QED
  BY <1>1, StoreInvariant, PTL DEF Spec, NoLostUpdate

\* A nonempty set of numbers up to n has a greatest.
LEMMA Greatest ==
    ASSUME NEW n \in Nat, NEW S \in SUBSET (1 .. n), S /= {}
    PROVE  \E x \in S : \A y \in S : y <= x
<1>1. PICK R : R = OpToRel(<, Nat)
  OBVIOUS
<1>2. IsWellFoundedOn(R, Nat)
  BY <1>1, NatLessThanWellFounded
<1>3. PICK T : T = {n - x : x \in S}
  OBVIOUS
<1>4. T \subseteq Nat /\ T /= {}
  <2>1. ASSUME NEW x \in S PROVE n - x \in Nat
    <3>1. x \in 1 .. n
      OBVIOUS
    <3> QED
      BY ONLY <3>1, n \in Nat
  <2>2. T /= {}
    BY <1>3
  <2> QED
    BY <1>3, <2>1, <2>2
<1>5. PICK m \in T : \A k \in T : <<k, m>> \notin R
  BY ONLY <1>2, <1>4, WFMin
<1>6. PICK x \in S : m = n - x
  BY <1>3
<1>7. \A j, k \in Nat : j < k => <<j, k>> \in R
  BY <1>1 DEF OpToRel
<1>8. ASSUME NEW y \in S PROVE y <= x
  <2>1. n - y \in T /\ n - y \in Nat /\ n - x \in Nat
    BY <1>3
  <2>2. ~ (n - y < n - x)
    BY <1>5, <1>6, <1>7, <2>1
  <2> QED
    BY <2>2
<1> QED
  BY <1>8

\* The row a job waits for, in a load or at its turn in a flush.
AwaitedRow(q) ==
    IF q.step = "lock" THEN CHOOSE r \in Pending(q) : TRUE ELSE q.row

\* A job that waits for another, and not for a category, waits for a row
\* before that one's.
LEMMA WaitsUp ==
    ASSUME StoreInv, NEW s \in Scopes, NEW t \in Scopes \ {s},
           scope[s].step /= "category", scope[t].step /= "category",
           scope[s].atomic = FALSE, scope[s].gone = {},
           scope[t].atomic = FALSE, scope[t].gone = {},
           Blocker(s) = t,
           NEW v \in Scopes \ {t}, Blocker(t) = v,
           scope[v].atomic = FALSE, scope[v].gone = {}
    PROVE  /\ AwaitedRow(scope[s]) \in Rows
           /\ AwaitedRow(scope[s]) < AwaitedRow(scope[t])
<1> DEFINE p == scope[s]
           q == scope[t]
<1> None \notin Scopes
  BY NoneAssumption
<1>1. /\ p \in Scope /\ Local(p) /\ JobHolds(s, p) /\ WriteHeld(s, p)
      /\ q \in Scope /\ Local(q) /\ JobHolds(t, q) /\ WriteHeld(t, q)
  BY DEF StoreInv, TypeOK, Held
<1>2. ASSUME NEW u \in Scopes, NEW w \in Scopes \ {u}, Blocker(u) = w,
             scope[u].step /= "category", scope[u].atomic = FALSE, scope[u].gone = {},
             scope[w].atomic = FALSE, scope[w].gone = {}
      PROVE  \/ /\ scope[u].step = "load" /\ rowLock[scope[u].row] = w
             \/ /\ scope[u].step = "lock" /\ Pending(scope[u]) /= {}
                /\ advisory[CHOOSE r \in Pending(scope[u]) : TRUE] = w
  <2>1. /\ scope[u] \in Scope /\ Local(scope[u]) /\ WriteHeld(u, scope[u])
        /\ scope[w] \in Scope /\ JobHolds(w, scope[w])
        /\ WriteHeld(w, scope[w])
    BY DEF StoreInv, TypeOK, Held
  <2>2. scope[u].step \notin {"idle", "run", "key", "delete"}
    BY <1>2, <2>1 DEF Blocker, Local
  <2>3. scope[u].step /= "write"
    <3> SUFFICES ASSUME scope[u].step = "write" PROVE FALSE
      OBVIOUS
    <3>1. rowLock[scope[u].row] = w /\ advisory[scope[u].row] = u
      BY <1>2, <2>1 DEF Blocker, WriteHeld
    <3>2. scope[u].row \in Rows
      BY <2>1 DEF Scope
    <3>3. scope[u].row \in scope[w].done \ scope[w].gone
      BY <1>2, <2>1, <3>1, <3>2 DEF JobHolds
    <3> QED
      BY <2>1, <3>1, <3>3 DEF WriteHeld
  <2>4. CASE scope[u].step = "load"
    BY <1>2, <2>4 DEF Blocker
  <2>5. CASE scope[u].step = "lock"
    BY <1>2, <2>5 DEF Blocker
  <2> QED
    BY <1>2, <2>1, <2>2, <2>3, <2>4, <2>5 DEF Scope, Steps
<1>3. PICK r : r = AwaitedRow(p)
  OBVIOUS
<1>4. r \in Rows /\ (rowLock[r] = t \/ advisory[r] = t)
  <2>1. CASE p.step = "load" /\ rowLock[p.row] = t
    BY <1>1, <1>3, <2>1 DEF AwaitedRow, Scope
  <2>2. CASE /\ p.step = "lock" /\ Pending(p) /= {}
             /\ advisory[CHOOSE x \in Pending(p) : TRUE] = t
    <3>1. r = CHOOSE x \in Pending(p) : TRUE
      BY <1>3, <2>2 DEF AwaitedRow
    <3>2. r \in Pending(p)
      BY <2>2, <3>1
    <3>3. r \in Rows
      BY <1>1, <3>2 DEF Pending, Changed, Scope
    <3> QED
      BY <2>2, <3>1, <3>3
  <2> QED
    BY <1>2, <2>1, <2>2
<1>5. \/ q.step = "load"
      \/ q.step = "lock" /\ Pending(q) /= {}
  BY <1>2
<1>6. r \in q.done
  BY <1>1, <1>4, <1>5 DEF JobHolds
<1>7. q.step = "lock" /\ Pending(q) /= {}
  BY <1>1, <1>5, <1>6 DEF Local, Flushing
<1>8. AwaitedRow(q) \in Changed(q) \ q.done
  BY <1>7 DEF AwaitedRow, Pending
<1> QED
  BY <1>1, <1>3, <1>4, <1>6, <1>8 DEF Local

(* Jobs that delete nothing wait for each other in a circle only where one *)
(* of them waits for a category: a flush takes its rows in one order       *)
(* (flush, _sorted), a load keeps no lock, and so whoever waits for a job  *)
(* at a row waits for a row before the one that job waits for.             *)
THEOREM FlushesDoNotDeadlock == Spec => []FlushesNeverDeadlock
<1>1. StoreInv => FlushesNeverDeadlock
  <2> SUFFICES ASSUME StoreInv,
                 NEW S \in SUBSET {s \in Scopes : ~scope[s].atomic
                                                    /\ scope[s].gone = {}},
                 Cycle(S), \A s \in S : scope[s].step /= "category"
               PROVE  FALSE
    BY DEF FlushesNeverDeadlock
  <2>1. /\ S /= {} /\ S \subseteq Scopes
        /\ \A s \in S : scope[s].atomic = FALSE /\ scope[s].gone = {}
        /\ \A s \in S : Blocker(s) \in S \ {s}
    BY DEF Cycle, StoreInv, TypeOK, Scope
  <2>2. ASSUME NEW s \in S
        PROVE  /\ AwaitedRow(scope[s]) \in Rows
               /\ Blocker(s) \in S
               /\ AwaitedRow(scope[s]) < AwaitedRow(scope[Blocker(s)])
    <3>1. PICK t : t = Blocker(s)
      OBVIOUS
    <3>2. PICK v : v = Blocker(t)
      OBVIOUS
    <3>3. t \in S \ {s} /\ v \in S \ {t}
      BY <2>1, <3>1, <3>2
    <3> QED
      BY <2>1, <3>1, <3>2, <3>3, WaitsUp
  <2>3. PICK A : A = {AwaitedRow(scope[s]) : s \in S}
    OBVIOUS
  <2>4. A \in SUBSET (1 .. NumRows) /\ A /= {} /\ NumRows \in Nat
    BY <2>1, <2>2, <2>3, RowsAssumption DEF Rows
  <2>5. PICK x \in A : \A y \in A : y <= x
    BY <2>4, Greatest
  <2>6. PICK s \in S : x = AwaitedRow(scope[s])
    BY <2>3
  <2>7. AwaitedRow(scope[Blocker(s)]) \in A
    BY <2>2, <2>3
  <2>8. PICK y : y = AwaitedRow(scope[Blocker(s)])
    OBVIOUS
  <2>9. y \in A /\ x < y /\ y <= x
    BY <2>2, <2>5, <2>6, <2>7, <2>8
  <2>10. x \in 1 .. NumRows /\ y \in 1 .. NumRows
    BY <2>4, <2>9
  <2> QED
    BY ONLY <2>9, <2>10, NumRows \in Nat, <2>4
<1> QED
  BY <1>1, StoreInvariant, PTL

-----------------------------------------------------------------------------
\* A request as one step.

\* What a request leaves of a row: what it has made of it, nothing, or the row
\* as it is.
AsLeft(q, r) ==
    IF r \in q.gone THEN Absent
    ELSE IF r \in Changed(q)
           THEN [q.loaded[r] EXCEPT !.version =
                   IF r \in Versioned THEN db[r].version + 1 ELSE @]
           ELSE db[r]

\* A commit reads and writes the rows as they are at that step, and records
\* the first result under its key.
CommitsAsOne(s) ==
    /\ record[scope[s].key] = None
    /\ \A r \in scope[s].seen :
         scope[s].base[r].present => db[r] = scope[s].base[r]
    /\ \A r \in Rows : db'[r] = AsLeft(scope[s], r)

RequestsAreAtomic == [][\A s \in Scopes : CommitRequest(s) => CommitsAsOne(s)]_vars

\* A scope deletes what it has loaded as present, and loads no row twice.
Lawful(q) ==
    /\ q.step = "load" => q.row \notin q.seen
    /\ \A r \in q.gone : q.base[r].present = TRUE

LawfulInv == \A s \in Scopes : Lawful(scope[s])

\* A step of one scope concerns its own record only.
LEMMA LawfulStep ==
    ASSUME StoreInv, LawfulInv, NEW s \in Scopes, NEW q, Becomes(s, q), Lawful(q)
    PROVE  LawfulInv'
<1>1. scope' = [scope EXCEPT ![s] = q] /\ DOMAIN scope = Scopes
  BY DEF Becomes, StoreInv, TypeOK
<1>2. ASSUME NEW u \in Scopes PROVE scope'[u] = IF u = s THEN q ELSE scope[u]
  BY <1>1
<1> QED
  BY <1>2 DEF LawfulInv, Lawful

\* An idle scope is lawful.
LEMMA EndLawful ==
    ASSUME StoreInv, LawfulInv, NEW s \in Scopes, Becomes(s, Idle)
    PROVE  LawfulInv'
<1>1. Lawful(Idle)
  BY DEF Lawful, Idle
<1> QED
  BY <1>1, LawfulStep

\* The handler's own steps: loading, editing, deleting, forgetting.
LEMMA HandleLawful ==
    ASSUME StoreInv, LawfulInv, NEW s \in Scopes, Handle(s)
    PROVE  LawfulInv'
<1>1. PICK q : q = scope[s]
  OBVIOUS
<1>2. q \in Scope /\ Lawful(q) /\ q.gone \subseteq q.seen
  BY <1>1 DEF StoreInv, TypeOK, LawfulInv, Local
<1>3. ASSUME NEW r \in Rows, StartLoad(s, r) PROVE LawfulInv'
  <2>1. Becomes(s, [q EXCEPT !.step = "load", !.row = r]) /\ r \notin q.seen
    BY <1>1, <1>3 DEF StartLoad
  <2>2. Lawful([q EXCEPT !.step = "load", !.row = r])
    BY <1>2, <2>1 DEF Lawful, Scope
  <2> QED
    BY <2>1, <2>2, LawfulStep
<1>4. ASSUME NEW r \in Rows, Delete(s, r) PROVE LawfulInv'
  <2> DEFINE p == [q EXCEPT !.gone = q.gone \cup {r}, !.edits = q.edits + 1]
  <2>1. Becomes(s, p) /\ q.base[r].present /\ q.step = "run"
    BY <1>1, <1>4 DEF Delete, MayEdit
  <2>2. q.base[r].present = TRUE
    BY <1>2, <2>1 DEF Scope, Row
  <2>3. /\ p.step = "run" /\ p.base = q.base /\ p.gone = q.gone \cup {r}
    BY <1>2, <2>1 DEF Scope
  <2> HIDE DEF p
  <2>4. Lawful(p)
    BY <1>2, <2>2, <2>3 DEF Lawful
  <2> QED
    BY <2>1, <2>4, LawfulStep
<1>5. ASSUME NEW r \in Rows, Invalidate(s, r) PROVE LawfulInv'
  <2> DEFINE p == [q EXCEPT !.edits = q.edits + 1, !.seen = q.seen \ {r},
                            !.loaded = [q.loaded EXCEPT ![r] = Absent],
                            !.base = [q.base EXCEPT ![r] = Absent]]
  <2>1. Becomes(s, p) /\ r \notin q.gone /\ q.step = "run"
    BY <1>1, <1>5 DEF Invalidate, MayEdit
  <2>2. /\ p.step = "run" /\ p.gone = q.gone
        /\ p.base = [q.base EXCEPT ![r] = Absent]
    BY <1>2, <2>1 DEF Scope
  <2> HIDE DEF p
  <2>3. \A x \in q.gone : p.base[x] = q.base[x]
    BY <1>2, <2>1, <2>2 DEF Scope
  <2>4. Lawful(p)
    BY <1>2, <2>2, <2>3 DEF Lawful
  <2> QED
    BY <2>1, <2>4, LawfulStep
<1>6. ASSUME NEW cells \in Edits \cup {{}}, NEW created \in SUBSET Rows,
             Edit(s, cells, created)
      PROVE  LawfulInv'
  <2>1. PICK L : /\ Becomes(s, [q EXCEPT !.edits = q.edits + 1, !.loaded = L])
                 /\ q.step = "run"
    BY <1>1, <1>6 DEF Edit, MayEdit
  <2>2. Lawful([q EXCEPT !.edits = q.edits + 1, !.loaded = L])
    BY <1>2, <2>1 DEF Lawful, Scope
  <2> QED
    BY <2>1, <2>2, LawfulStep
<1> QED
  BY <1>3, <1>4, <1>5, <1>6 DEF Handle

\* The steps of the repository for a scope.
LEMMA ProceedLawful ==
    ASSUME StoreInv, LawfulInv, NEW s \in Scopes, Proceed(s)
    PROVE  LawfulInv'
<1>1. PICK q : q = scope[s]
  OBVIOUS
<1>2. q \in Scope /\ Lawful(q) /\ q.gone \subseteq q.seen
  BY <1>1 DEF StoreInv, TypeOK, LawfulInv, Local
<1>3. ASSUME NEW step \in Steps \ {"load"}, NEW r,
             \/ Becomes(s, [q EXCEPT !.step = step])
             \/ Becomes(s, [q EXCEPT !.step = step, !.row = r])
      PROVE  LawfulInv'
  <2>1. /\ Lawful([q EXCEPT !.step = step])
        /\ Lawful([q EXCEPT !.step = step, !.row = r])
    BY <1>2 DEF Lawful, Scope
  <2> QED
    BY <1>3, <2>1, LawfulStep
<1>4. CASE TakeKey(s)
  <2>1. Becomes(s, [q EXCEPT !.step = "run"]) \/ Becomes(s, Idle)
    BY <1>1, <1>4 DEF TakeKey
  <2> QED
    BY <2>1, <1>3, EndLawful DEF Steps
<1>5. CASE Load(s)
  <2>1. Becomes(s, Loaded(q)) /\ q.step = "load"
    BY <1>1, <1>5 DEF Load
  <2>2. PICK p : p = Loaded(q)
    OBVIOUS
  <2>3. PICK row : p = [q EXCEPT !.step = "run", !.row = 1, !.seen = q.seen \cup {q.row},
                          !.loaded = [q.loaded EXCEPT ![q.row] = row],
                          !.base = [q.base EXCEPT ![q.row] = row]]
    BY <2>2 DEF Loaded
  <2>4. p.step = "run" /\ p.gone = q.gone /\ p.base = [q.base EXCEPT ![q.row] = row]
    BY <1>2, <2>3 DEF Scope
  <2>5. q.row \notin q.gone
    BY <1>2, <2>1 DEF Lawful
  <2>6. \A x \in q.gone : p.base[x] = q.base[x]
    BY <1>2, <2>4, <2>5 DEF Scope
  <2>7. Lawful(p)
    BY <1>2, <2>4, <2>6 DEF Lawful
  <2> QED
    BY <2>1, <2>2, <2>7, LawfulStep
<1>6. CASE StartFlush(s)
  BY <1>1, <1>3, <1>6 DEF StartFlush, Steps
<1>7. ASSUME NEW r \in Rows, LockRow(s, r) \/ StartDelete(s, r) PROVE LawfulInv'
  <2>1. \/ Becomes(s, [q EXCEPT !.step = "write", !.row = r])
        \/ Becomes(s, [q EXCEPT !.step = "delete", !.row = r])
    BY <1>1, <1>7 DEF LockRow, StartDelete
  <2> QED
    BY <2>1, <1>3 DEF Steps
<1>8. CASE Write(s) \/ DeleteRow(s)
  <2>1. PICK row : Becomes(s, Done(q, row)) \/ Becomes(s, Encoding(q, row))
    BY <1>1, <1>8 DEF Write, DeleteRow
  <2>2. Lawful(Done(q, row)) /\ Lawful(Encoding(q, row))
    BY <1>2 DEF Lawful, Done, Encoding, Scope
  <2> QED
    BY <2>1, <2>2, LawfulStep
<1>c. CASE TakeCategory(s)
  <2>1. Becomes(s, q) \/ Becomes(s, [q EXCEPT !.step = "lock", !.row = 1])
    BY <1>1, <1>c DEF TakeCategory
  <2> QED
    BY <2>1, <1>2, <1>3, LawfulStep DEF Steps
<1>9. CASE Conflict(s) \/ CommitJob(s)
  <2>1. Becomes(s, RolledBack(q)) \/ Becomes(s, Continued(q)) \/ Becomes(s, Idle)
    BY <1>1, <1>9 DEF Conflict, CommitJob, End
  <2>2. Lawful(RolledBack(q)) /\ Lawful(Continued(q))
    BY <1>2 DEF Lawful, RolledBack, Continued, Scope
  <2> QED
    BY <2>1, <2>2, LawfulStep, EndLawful
<1>10. CASE CommitRequest(s) \/ FinishJob(s) \/ Victim(s)
  BY <1>10, EndLawful DEF CommitRequest, FinishJob, Victim, End
<1> QED
  BY <1>4, <1>5, <1>6, <1>7, <1>8, <1>c, <1>9, <1>10 DEF Proceed

\* It holds in every reachable state.
LEMMA LawfulInvariant == Spec => []LawfulInv
<1>1. Init => LawfulInv
  BY DEF Init, LawfulInv, Lawful, Idle
<1>2. StoreInv /\ LawfulInv /\ [Next]_vars => LawfulInv'
  <2> SUFFICES ASSUME StoreInv, LawfulInv, [Next]_vars PROVE LawfulInv'
    OBVIOUS
  <2>1. ASSUME NEW s \in Scopes, NEW k \in Keys, NEW body \in Bodies,
               StartRequest(s, k, body)
        PROVE  LawfulInv'
    <3>1. PICK q : q = [Idle EXCEPT !.step = "key", !.atomic = TRUE,
                          !.serial = starts + 1, !.key = k, !.body = body]
      OBVIOUS
    <3>2. Becomes(s, q) /\ Lawful(q)
      BY <2>1, <3>1 DEF StartRequest, Lawful, Idle
    <3> QED
      BY <3>2, LawfulStep
  <2>2. ASSUME NEW s \in Scopes, StartJob(s) PROVE LawfulInv'
    <3>1. PICK q : q = [Idle EXCEPT !.step = "run"]
      OBVIOUS
    <3>2. Becomes(s, q) /\ Lawful(q)
      BY <2>2, <3>1 DEF StartJob, Lawful, Idle
    <3> QED
      BY <3>2, LawfulStep
  <2>3. ASSUME NEW s \in Scopes, Timeout(s) \/ Crash(s) PROVE LawfulInv'
    BY <2>3, EndLawful DEF Timeout, Crash, End
  <2>4. CASE UNCHANGED vars
    BY <2>4 DEF LawfulInv, vars
  <2> QED
    BY <2>1, <2>2, <2>3, <2>4, HandleLawful, ProceedLawful DEF Next
<1> QED
  BY <1>1, <1>2, StoreInvariant, PTL DEF Spec

\* Some number of a nonempty set of rows is the least: a flush that has no
\* next row has written all.
LEMMA NoneIsLeft ==
    ASSUME NEW S \in SUBSET Rows, {r \in S : \A p \in S : r <= p} = {}
    PROVE  S = {}
<1> SUFFICES ASSUME S /= {} PROVE FALSE
  OBVIOUS
<1>1. PICK R : R = OpToRel(<, Nat)
  OBVIOUS
<1>2. IsWellFoundedOn(R, Nat)
  BY <1>1, NatLessThanWellFounded
<1>3. S \subseteq Nat
  BY RowsAssumption DEF Rows
<1>4. PICK m \in S : \A k \in S : <<k, m>> \notin R
  BY ONLY <1>2, <1>3, S /= {}, WFMin
<1>5. \A j, k \in Nat : j < k => <<j, k>> \in R
  BY <1>1 DEF OpToRel
<1>6. ASSUME NEW p \in S PROVE m <= p
  <2>1. m \in Nat /\ p \in Nat /\ ~(p < m)
    BY ONLY <1>3, <1>4, <1>5
  <2> QED
    BY ONLY <2>1
<1> QED
  BY <1>6

\* What a request has written is what it has made of the row it read.
LEMMA MergedIsEdited ==
    ASSUME StoreInv, NEW s \in Scopes, NEW q, q = scope[s], q.atomic = TRUE,
           q.step /= "key", NEW r \in Changed(q), Accepts(q, r)
    PROVE  Merged(q, r) = [q.loaded[r] EXCEPT !.version =
                             IF r \in Versioned THEN db[r].version + 1 ELSE @]
<1>1. /\ q \in Scope /\ TypeOK /\ ReadHeld(s, q) /\ Local(q)
  BY DEF StoreInv, TypeOK, Held
<1>2. r \in q.seen /\ r \in Rows
  BY <1>1 DEF Changed, Scope
<1>3. q.loaded[r] \in Row /\ q.base[r] \in Row /\ db[r] \in Row
  BY <1>1, <1>2 DEF Scope, TypeOK
<1>4. CASE r \in Versioned
  BY <1>4 DEF Merged
<1>5. CASE r \notin Versioned
  <2>1. ASSUME NEW f \in Fields, q.loaded[r].value[f] = q.base[r].value[f],
               db[r].present
        PROVE  db[r].value[f] = q.loaded[r].value[f]
    <3>1. CASE q.base[r].present
      <4>1. q.base[r].present = TRUE
        BY <3>1, <1>3 DEF Row
      <4>2. db[r] = q.base[r]
        BY <1>1, <1>2, <4>1 DEF ReadHeld
      <4> QED
        BY <4>2, <2>1
    <3>2. CASE ~q.base[r].present
      BY <3>2, <2>1 DEF Accepts
    <3> QED
      BY <3>1, <3>2
  <2>2. [f \in Fields |-> IF q.loaded[r].value[f] = q.base[r].value[f] /\ db[r].present
                            THEN db[r].value[f] ELSE q.loaded[r].value[f]]
          = q.loaded[r].value
    BY <2>1, <1>3 DEF Row
  <2>3. Merged(q, r) = [q.loaded[r] EXCEPT !.value = q.loaded[r].value]
    BY <1>5, <2>2 DEF Merged
  <2>4. Merged(q, r) = q.loaded[r]
    BY <2>3, <1>3 DEF Row
  <2>5. [q.loaded[r] EXCEPT !.version = q.loaded[r].version] = q.loaded[r]
    BY <1>3 DEF Row
  <2> QED
    BY <1>5, <2>4, <2>5
<1> QED
  BY <1>4, <1>5

(* A request takes effect in the one step of its commit: the rows it read  *)
(* are then as it read them, the rows it edited or deleted become what it  *)
(* made of them and no other row changes, and nothing was recorded under   *)
(* its key before (request_once, load, flush).                             *)
THEOREM RequestsCommitAtOnce == Spec => RequestsAreAtomic
<1>1. ASSUME StoreInv, LawfulInv, NEW s \in Scopes, CommitRequest(s)
      PROVE  CommitsAsOne(s)
  <2>1. PICK q : q = scope[s]
    OBVIOUS
  <2>2. /\ q \in Scope /\ TypeOK /\ Local(q) /\ Held(s, q) /\ LocksThere
        /\ Lawful(q) /\ q.atomic = TRUE /\ q.step = "lock"
    BY <1>1, <2>1 DEF StoreInv, TypeOK, LawfulInv, CommitRequest, Flushed, Scope
  <2>3. record[q.key] = None
    BY <2>2 DEF Held, KeyHeld
  <2>4. ASSUME NEW r \in q.seen, q.base[r].present PROVE db[r] = q.base[r]
    <3>1. q.base[r].present = TRUE
      BY <2>2, <2>4 DEF Scope, Row
    <3> QED
      BY <2>2, <2>4, <3>1 DEF Held, ReadHeld
  <2>5. Changed(q) \subseteq q.done /\ q.gone \subseteq q.done
    <3>1. Pending(q) = {} /\ Doomed(q) = {}
      BY <1>1, <2>1 DEF CommitRequest, Flushed
    <3>2. Changed(q) \ q.done \in SUBSET Rows /\ q.gone \ q.done \in SUBSET Rows
      BY <2>2 DEF Changed, Scope
    <3> QED
      BY <3>1, <3>2, NoneIsLeft DEF Pending, Doomed
  <2>6. ASSUME NEW r \in Rows PROVE db'[r] = AsLeft(q, r)
    <3>1. db'[r] = IF Takes(s, r) THEN q.written[r] ELSE db[r]
      BY <1>1, <2>1 DEF CommitRequest, Written
    <3>2. CASE r \in q.gone
      <4>1. q.base[r].present = TRUE /\ r \in q.seen /\ r \in q.done
        BY <2>2, <2>5, <3>2 DEF Lawful, Local
      <4>2. rowLock[r] = s
        BY <2>2, <4>1 DEF Held, ReadHeld
      <4>3. Takes(s, r)
        BY <2>1, <4>1, <4>2 DEF Takes
      <4>4. q.written[r] = Absent
        BY <2>2, <3>2, <4>1 DEF Local
      <4> QED
        BY <3>1, <3>2, <4>3, <4>4 DEF AsLeft
    <3>3. CASE r \notin q.gone /\ r \in Changed(q)
      <4>1. r \in q.done \ q.gone
        BY <2>5, <3>3
      <4>2. Takes(s, r)
        BY <2>1, <4>1 DEF Takes
      <4>3. q.written[r] = Merged(q, r) /\ Accepts(q, r)
        BY <2>2, <4>1 DEF Held, WriteHeld
      <4>4. Merged(q, r) = [q.loaded[r] EXCEPT !.version =
                              IF r \in Versioned THEN db[r].version + 1 ELSE @]
        <5>1. StoreInv /\ r \in Changed(q) /\ Accepts(q, r) /\ q.step /= "key"
          BY <1>1, <2>2, <3>3, <4>3
        <5> QED
          BY ONLY <5>1, <2>1, <2>2, s \in Scopes, MergedIsEdited
      <4> QED
        BY <3>1, <3>3, <4>2, <4>3, <4>4 DEF AsLeft
    <3>4. CASE r \notin q.gone /\ r \notin Changed(q)
      <4>1. ~Takes(s, r)
        BY <2>1, <2>2, <3>4 DEF Takes, Local
      <4> QED
        BY <3>1, <3>4, <4>1 DEF AsLeft
    <3> QED
      BY <3>2, <3>3, <3>4
  <2> QED
    BY <2>1, <2>3, <2>4, <2>6 DEF CommitsAsOne
<1>2. StoreInv /\ LawfulInv /\ [Next]_vars =>
        [\A s \in Scopes : CommitRequest(s) => CommitsAsOne(s)]_vars
  BY <1>1
<1> QED
  BY <1>2, StoreInvariant, LawfulInvariant, PTL DEF Spec, RequestsAreAtomic
=============================================================================
